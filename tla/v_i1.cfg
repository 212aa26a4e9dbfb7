SPECIFICATION ElectedSpec
CONSTANTS
  N = 3
  T = 1
  Scheme <- Scheme3
  Leader = 1
  k0 = k0
  k1 = k1
  k2 = k2
  Key = {k0, k1, k2}
  Absent = Absent
  Seed <- SeedK1
  Command <- OneWrite
  CmdChCap = 2
  MaxRound = 1
  MaxCrash = 0
  LastClock = 0
  Usurpers = {}
  Rivals = {}
  TimelyRPC = TRUE
INVARIANTS
  WaitMeansTooFew
CHECK_DEADLOCK FALSE
