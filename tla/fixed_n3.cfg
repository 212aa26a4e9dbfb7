SPECIFICATION FixedSpec
CONSTANTS
  N = 3
  T = 1
  Scheme <- Scheme3
  Leader = 0
  k0 = k0
  k1 = k1
  k2 = k2
  Key = {k0, k1, k2}
  Absent = Absent
  Seed <- SeedK1
  Command <- ThreeWrites
  CmdChCap = 3
  MaxRound = 3
  MaxCrash = 1
  LastClock = 0
  Usurpers = {}
  Rivals = {}
  TimelyRPC = FALSE
INVARIANTS
  TypeOK
  CommitQuorum
  WaitMeansTooFew
  InOrderExecution
  NoStaleRejection
  ReplicasAgree
  RanksDealtOnce
PROPERTIES
  ImplementsWriteService
CHECK_DEADLOCK FALSE
