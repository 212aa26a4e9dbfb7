SPECIFICATION Spec
CONSTANTS
  N = 2
  Client = {c1, c2}
  c1 = c1
  c2 = c2
  Turn <- MCTurn
  MaxWin = 1
  MaxCrash = 1
INVARIANTS
  TypeOK
  AcknowledgedKept
  NeverOverdrawn
  TwoAccountsMeanUnanswered
PROPERTIES
  ReadsReturnAcknowledged
CHECK_DEADLOCK FALSE
