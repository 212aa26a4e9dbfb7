SPECIFICATION FairSpec
CONSTANTS
  Peer = {p1}
  p1 = p1
  MaxWrite = 3
  CmdChCap = 1
  MaxReign = 2
  MaxRound = 3
  MaxDock = 2
INVARIANTS
  TypeOK
  StatusIsLeadership
  HungMeansDeposed
  LockedMeansSharedClock
  OrphanMeansYoungDock
  CallsInOrder
PROPERTIES
  AcceptedIsAnswered
CHECK_DEADLOCK FALSE
