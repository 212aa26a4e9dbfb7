SPECIFICATION FairSpec
CONSTANTS
  N = 3
  T = 1
  MaxElections = 2
  MaxCrash = 1
  MaxBeats = 1
INVARIANTS
  TypeOK
  VoteOncePerTerm
  SharedTermIsDoubleVote
  TermHasVote
PROPERTIES
  DeposedByHigherVote
  ElectionsEnd
CHECK_DEADLOCK FALSE
