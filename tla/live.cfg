SPECIFICATION FairFixedSpec
CONSTANTS
  N = 3
  T = 1
  Scheme <- Scheme3
  Leader = 0
  k0 = k0
  k1 = k1
  k2 = k2
  Key = {k0, k1, k2}
  Absent = Absent
  Seed <- SeedK1
  Command <- TwoWrites
  CmdChCap = 2
  MaxRound = 2
  MaxCrash = 1
  LastClock = 0
  Usurpers = {1}
  Rivals = {}
  TimelyRPC = FALSE
PROPERTIES
  EveryWriteAnswered
  GoroutineServed
CHECK_DEADLOCK FALSE
