SPECIFICATION Spec
CONSTANTS
  N = 3
  T = 1
  MaxElections = 2
  MaxCrash = 0
  MaxBeats = 0
INVARIANTS
  OneLeaderPerTerm
CHECK_DEADLOCK FALSE
