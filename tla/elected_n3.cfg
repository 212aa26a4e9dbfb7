SPECIFICATION ElectedSpec
CONSTANTS
  N = 3
  T = 1
  Scheme <- Scheme3
  Leader = 1
  k0 = k0
  k1 = k1
  k2 = k2
  Key = {k0, k1, k2}
  Absent = Absent
  Seed <- SeedAll
  Command <- NoChange
  CmdChCap = 1
  MaxRound = 3
  MaxCrash = 0
  LastClock = 1
  Usurpers = {}
  Rivals = {0}
  TimelyRPC = FALSE
INVARIANTS
  RejectionEnds
  RoundsIncrease
SYMMETRY KeySymmetry
CHECK_DEADLOCK FALSE
