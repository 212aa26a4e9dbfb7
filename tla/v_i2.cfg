SPECIFICATION FixedSpec
CONSTANTS
  N = 5
  T = 2
  Scheme <- Scheme5
  Leader = 0
  k0 = k0
  k1 = k1
  k2 = k2
  Key = {k0, k1, k2}
  Absent = Absent
  Seed <- SeedK1
  Command <- TwoWrites
  CmdChCap = 2
  MaxRound = 2
  MaxCrash = 0
  LastClock = 0
  Usurpers = {1}
  Rivals = {}
  TimelyRPC = FALSE
INVARIANTS
  CommitQuorum
CHECK_DEADLOCK FALSE
