SPECIFICATION FairSpec
CONSTANTS
  Grid <- Grids
  Flags <- CommandLines
  Rows <- TwoRows
  Customer = {"c1", "c2", "c3"}
  MaxLaunch = 3
INVARIANTS
  TypeOK
  SchemeIsCabinet
  CriterionIsExact
  OnlyMinorityIsOrdered
  SeedKeepsHistory
PROPERTIES
  StartupEnds
CHECK_DEADLOCK FALSE
