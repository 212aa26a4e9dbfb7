--------------------------- MODULE StartupProofs ----------------------------
(***************************************************************************)
(* Proofs about Startup: types, what restarts leave in the database, and   *)
(* the weights a node comes to serve with.                                 *)
(***************************************************************************)
EXTENDS Startup, RatioProofs

(***************************************************************************)
(* The nodes' variables stay in their types, with whatever flags a node is *)
(* launched; in particular EstablishRPCs never counts a peer too many.     *)
(***************************************************************************)
THEOREM StartupTypes == Spec => []TypeOK
<1>1. Init => TypeOK
  BY StartupAssumption, SMTT(30)
  DEF Init, TypeOK, Row, Place, Range
<1>2. TypeOK /\ [Next]_vars => TypeOK'
  <2> SUFFICES ASSUME TypeOK, [Next]_vars
               PROVE  TypeOK'
    OBVIOUS
  <2> USE DEF TypeOK, Place, Seeding, Serving
  <2>1. CASE Launch
    BY <2>1, StartupAssumption, SMTT(30) DEF Launch
  <2>2. CASE Connect \/ CountDocuments \/ SeedDone \/ RatioFound \/ StartLeading
    <3>1. pc' \in Place
      BY <2>2 DEF Connect, CountDocuments, SeedDone, RatioFound, StartLeading
    <3>2. UNCHANGED <<flags, ratio, docked, docs, launches, expected, disturbed>>
      BY <2>2 DEF Connect, CountDocuments, SeedDone, RatioFound, StartLeading
    <3> QED
      BY <3>1, <3>2, Zenon
  <2>3. CASE OpenCSV
    <3>1. pc' \in Place /\ disturbed' \subseteq {"cut", "emptied"}
      BY <2>3 DEF OpenCSV
    <3>2. UNCHANGED <<flags, ratio, docked, docs, launches, expected>>
      BY <2>3 DEF OpenCSV
    <3> QED
      BY <3>1, <3>2, Zenon
  <2>4. CASE InsertRow
    <3>1. \A i \in 1 .. Len(Rows) : Rows[i] \in Customer
      BY StartupAssumption, SMT
    <3>2. docs' \subseteq Customer
      BY <2>4, <3>1 DEF InsertRow
    <3>3. UNCHANGED <<flags, pc, ratio, docked, launches, expected, disturbed>>
      BY <2>4 DEF InsertRow
    <3> QED
      BY <3>2, <3>3
  <2>5. CASE NextRatio
    BY <2>5, StartupAssumption, SMT DEF NextRatio
  <2>6. CASE DialPeer
    BY <2>6, StartupAssumption, SMT DEF DialPeer
  <2>7. CASE Die
    BY <2>7, SMT DEF Die
  <2>8. CASE \E c \in Customer : Insert(c) \/ Delete(c)
    <3>1. docs' \subseteq Customer /\ expected' \subseteq Customer
      BY <2>8 DEF Insert, Delete
    <3>2. disturbed' \subseteq {"cut", "emptied"}
      BY <2>8 DEF Insert, Delete
    <3>3. UNCHANGED <<flags, pc, ratio, docked, launches>>
      BY <2>8 DEF Insert, Delete
    <3> QED
      BY <3>1, <3>2, <3>3, Zenon
  <2>9. CASE UNCHANGED vars
    BY <2>9, SMT DEF vars
  <2> QED
    BY <2>1, <2>2, <2>3, <2>4, <2>5, <2>6, <2>7, <2>8, <2>9
    DEF Next, StartNode
<1> QED
  BY <1>1, <1>2, PTL DEF Spec

-----------------------------------------------------------------------------
(***************************************************************************)
(* The inductive form of SeedKeepsHistory: what an undisturbed collection  *)
(* holds before, during and after the import.                              *)
(***************************************************************************)
Kept == docs = expected
Unseeded == docs = {} /\ expected = Row

SeedInv ==
  disturbed = {} =>
    /\ pc \in {"search"} \cup Serving => Kept
    /\ pc \in {"down", "connect", "count"} => Kept \/ Unseeded
    /\ pc = "open" => Unseeded
    /\ pc = "seed" => docs \subseteq Row /\ expected = Row
    /\ expected = {} => Row = {}

(***************************************************************************)
(* Every step of a node, its end and its restarts included, keeps SeedInv. *)
(***************************************************************************)
LEMMA SeedInvKept ==
  ASSUME TypeOK, SeedInv, [Next]_vars
  PROVE  SeedInv'
<1> USE DEF SeedInv, Kept, Unseeded, Serving
<1>1. CASE Launch
  BY <1>1, SMT DEF Launch
<1>2. CASE Connect \/ RatioFound \/ StartLeading \/ NextRatio \/ DialPeer
  BY <1>2, SMT DEF Connect, RatioFound, StartLeading, NextRatio, DialPeer
<1>3. CASE CountDocuments
  BY <1>3, SMT DEF CountDocuments
<1>4. CASE OpenCSV
  BY <1>4, SMT DEF OpenCSV
<1>5. CASE InsertRow
  <2>1. \A i \in 1 .. Len(Rows) : Rows[i] \in Row
    BY StartupAssumption, SMT DEF Row, Range
  <2> QED
    BY <1>5, <2>1, SMT DEF InsertRow
<1>6. CASE SeedDone
  BY <1>6, SMT DEF SeedDone
<1>7. CASE Die
  BY <1>7, SMT DEF Die, TypeOK, Place, Seeding
<1>8. ASSUME NEW c \in Customer, Insert(c)
      PROVE  SeedInv'
  BY <1>8, SMT DEF Insert
<1>9. ASSUME NEW c \in Customer, Delete(c)
      PROVE  SeedInv'
  <2>1. CASE docs = {c}
    BY <1>9, <2>1, SMT DEF Delete
  <2>2. CASE docs # {c}
    <3>1. docs \ {c} # {}
      BY <1>9, <2>2, SMT DEF Delete
    <3> QED
      BY <1>9, <2>2, <3>1, SMT DEF Delete
  <2> QED
    BY <2>1, <2>2
<1>10. CASE UNCHANGED vars
  BY <1>10, SMT DEF vars
<1> QED
  BY <1>1, <1>2, <1>3, <1>4, <1>5, <1>6, <1>7, <1>8, <1>9, <1>10
  DEF Next, StartNode

(***************************************************************************)
(* Restarts neither lose nor resurrect customers, for every CSV file, every*)
(* command line and any number of launches, unless an import was cut short *)
(* or the collection was emptied.                                          *)
(***************************************************************************)
THEOREM RestartsKeepHistory == Spec => []SeedKeepsHistory
<1>1. Init => SeedInv
  BY SMT DEF Init, SeedInv, Kept, Unseeded, Serving
<1>2. TypeOK /\ SeedInv /\ [Next]_vars => SeedInv'
  BY SeedInvKept
<1>3. SeedInv => SeedKeepsHistory
  BY SMT DEF SeedInv, SeedKeepsHistory, Kept, Serving
<1> QED
  BY <1>1, <1>2, <1>3, StartupTypes, PTL DEF Spec


-----------------------------------------------------------------------------
(***************************************************************************)
(* The search of calcInitPrioRatio: it begins at 2, has refused every      *)
(* ratio it has left, and a node serves with the one that was accepted.    *)
(***************************************************************************)
Refused(r) == ~ Accepts(flags.n, QuorumSize, r)

SearchInv ==
  /\ pc \in {"connect"} \cup Seeding => ratio = 2 * Grid[flags.n]
  /\ pc \in {"search"} \cup Serving =>
       \A r \in ratio + 1 .. 2 * Grid[flags.n] : Refused(r)
  /\ pc \in Serving => Found

(***************************************************************************)
(* Every step of a node keeps SearchInv: no write, no dial and no restart  *)
(* touches the ratio of a node that serves.                                *)
(***************************************************************************)
LEMMA SearchInvKept ==
  ASSUME TypeOK, SearchInv, [Next]_vars
  PROVE  SearchInv'
<1> USE DEF SearchInv, Seeding, Serving
<1>1. flags.n \in Nat /\ Grid[flags.n] \in Nat \ {0} /\ ratio \in Int
  BY StartupAssumption DEF TypeOK
<1>2. ASSUME UNCHANGED <<flags, ratio>>
      PROVE  /\ Found' <=> Found
             /\ \A r : Refused(r)' <=> Refused(r)
  BY <1>2 DEF Found, Refused, QuorumSize, Tolerance
<1>3. CASE Launch
  <2>1. ratio' = 2 * Grid[flags.n] /\ flags' = flags /\ pc' \in {"connect", "refused"}
    BY <1>3 DEF Launch
  <2> QED
    BY <2>1
<1>4. CASE Connect \/ CountDocuments \/ OpenCSV \/ InsertRow \/ SeedDone
  <2>1. UNCHANGED <<flags, ratio>>
    BY <1>4 DEF Connect, CountDocuments, OpenCSV, InsertRow, SeedDone
  <2>2. pc \in {"connect"} \cup Seeding /\ pc' \in Seeding \cup {"search"}
    BY <1>4 DEF Connect, CountDocuments, OpenCSV, InsertRow, SeedDone
  <2>3. ratio = 2 * Grid[flags.n] /\ ratio + 1 .. 2 * Grid[flags.n] = {}
    BY <1>1, <2>2
  <2>4. ratio' = 2 * Grid[flags'.n] /\ ratio' + 1 .. 2 * Grid[flags'.n] = {}
    BY <2>1, <2>3
  <2> QED
    BY <2>2, <2>4
<1>5. CASE NextRatio
  <2>1. /\ pc = "search" /\ pc' = "search" /\ ~Found
        /\ ratio' = ratio - 1 /\ flags' = flags
    BY <1>5 DEF NextRatio
  <2>2. \A r : Refused(r)' <=> Refused(r)
    BY <2>1 DEF Refused, QuorumSize, Tolerance
  <2>3. Refused(ratio)
    BY <2>1 DEF Refused, Found
  <2>4. \A r \in ratio' + 1 .. 2 * Grid[flags'.n] :
          r = ratio \/ r \in ratio + 1 .. 2 * Grid[flags.n]
    BY <1>1, <2>1
  <2>5. \A r \in ratio' + 1 .. 2 * Grid[flags'.n] : Refused(r)
    BY <2>1, <2>3, <2>4
  <2>6. \A r \in ratio' + 1 .. 2 * Grid[flags'.n] : Refused(r)'
    BY <2>2, <2>5
  <2> QED
    BY <2>1, <2>6
<1>6. CASE RatioFound
  <2>1. pc = "search" /\ Found /\ pc' \in {"follow", "dial"} /\ UNCHANGED <<flags, ratio>>
    BY <1>6 DEF RatioFound
  <2> QED
    BY <1>2, <2>1
<1>7. CASE DialPeer \/ StartLeading \/ \E c \in Customer : Insert(c) \/ Delete(c)
  <2>1. pc \in Serving /\ pc' \in Serving /\ UNCHANGED <<flags, ratio>>
    BY <1>7 DEF DialPeer, StartLeading, Insert, Delete
  <2> QED
    BY <1>2, <2>1
<1>8. CASE Die
  <2>1. pc' = "down"
    BY <1>8 DEF Die
  <2> QED
    BY <2>1
<1>9. CASE UNCHANGED vars
  <2>1. UNCHANGED <<flags, pc, ratio>>
    BY <1>9 DEF vars
  <2> QED
    BY <1>2, <2>1
<1> QED
  BY <1>3, <1>4, <1>5, <1>6, <1>7, <1>8, <1>9 DEF Next, StartNode

(***************************************************************************)
(* SearchInv is an invariant.                                              *)
(***************************************************************************)
LEMMA SearchInvHolds == Spec => []SearchInv
<1>1. Init => SearchInv
  BY DEF Init, SearchInv, Seeding, Serving
<1>2. TypeOK /\ SearchInv /\ [Next]_vars => SearchInv'
  BY SearchInvKept
<1> QED
  BY <1>1, <1>2, StartupTypes, PTL DEF Spec

\* The greatest ratio up to 2 that is accepted.
FirstRatio(n, f) ==
  CHOOSE r \in Int : /\ r <= 2 * Grid[n] /\ Accepts(n, f, r)
                     /\ \A q \in r + 1 .. 2 * Grid[n] : ~ Accepts(n, f, q)

(***************************************************************************)
(* A node serves with that ratio, however often it is restarted: a         *)
(* function of n and t, so that all replicas launched with the same flags  *)
(* have the same weights.                                                  *)
(***************************************************************************)
THEOREM ReplicasShareRatio ==
  Spec => [](pc \in Serving => ratio = FirstRatio(flags.n, QuorumSize))
<1> DEFINE First(r, n, f) == /\ r <= 2 * Grid[n] /\ Accepts(n, f, r)
                             /\ \A q \in r + 1 .. 2 * Grid[n] : ~ Accepts(n, f, q)
<1>1. ASSUME NEW n, NEW f, Grid[n] \in Nat, NEW r \in Int, First(r, n, f)
      PROVE  r = FirstRatio(n, f)
  <2>1. PICK s \in Int : s = FirstRatio(n, f) /\ First(s, n, f)
    BY <1>1 DEF FirstRatio
  <2>2. ~(r < s)
    <3>1. CASE r < s
      <4>1. s \in r + 1 .. 2 * Grid[n]
        BY <1>1, <2>1, <3>1
      <4> QED
        BY <1>1, <2>1, <4>1
    <3> QED
      BY <3>1
  <2>3. ~(s < r)
    <3>1. CASE s < r
      <4>1. r \in s + 1 .. 2 * Grid[n]
        BY <1>1, <2>1, <3>1
      <4> QED
        BY <1>1, <2>1, <4>1
    <3> QED
      BY <3>1
  <2> QED
    BY <2>1, <2>2, <2>3
<1>2. TypeOK /\ SearchInv => (pc \in Serving => ratio = FirstRatio(flags.n, QuorumSize))
  <2> SUFFICES ASSUME TypeOK, SearchInv, pc \in Serving
               PROVE  ratio = FirstRatio(flags.n, QuorumSize)
    OBVIOUS
  <2>1. ratio \in Int /\ Grid[flags.n] \in Nat /\ ratio <= 2 * Grid[flags.n]
    BY StartupAssumption DEF TypeOK
  <2>2. First(ratio, flags.n, QuorumSize)
    BY <2>1 DEF SearchInv, Found, Refused
  <2> HIDE DEF First
  <2> QED
    BY <1>1, <2>1, <2>2
<1> QED
  BY <1>2, StartupTypes, SearchInvHolds, PTL

-----------------------------------------------------------------------------
(* The weights of a node that serves.                                      *)

\* What the lemmas about ratios ask of flags, in a state.
LEMMA FlagsFacts ==
  ASSUME TolerancesBelowN, TypeOK
  PROVE  /\ flags \in Flags /\ flags.n \in Nat \ {0} /\ Grid[flags.n] \in Nat \ {0}
         /\ Tolerance \in 0 .. flags.n - 1 /\ ratio \in Int
<1>1. flags \in Flags /\ flags.n \in Nat \ {0} /\ flags.t \in Int /\ flags.t < flags.n
  BY StartupAssumption DEF TolerancesBelowN, TypeOK
<1>2. Grid[flags.n] \in Nat \ {0}
  BY <1>1, StartupAssumption
<1>3. ratio \in Int
  BY <1>2 DEF TypeOK
<1>4. Tolerance \in 0 .. flags.n - 1
  BY <1>1 DEF Tolerance
<1> QED
  BY <1>1, <1>2, <1>3, <1>4

(***************************************************************************)
(* The search accepts a ratio above 1 exactly if its weights satisfy I1    *)
(* and I2, for every number of nodes, tolerance and step.                  *)
(***************************************************************************)
THEOREM SearchDecidesQuorums ==
  ASSUME TolerancesBelowN
  PROVE  Spec => []CriterionIsExact
<1>1. TypeOK => CriterionIsExact
  <2> SUFFICES ASSUME TypeOK, pc = "search", ratio > Grid[flags.n]
               PROVE  Found <=> /\ QuorumSuffices(flags.n, Scheme, Tolerance)
                                /\ FewerDoNot(flags.n, Scheme, Tolerance)
    BY DEF CriterionIsExact
  <2>1. /\ flags.n \in Nat /\ Grid[flags.n] \in Int /\ ratio \in Int
        /\ Tolerance \in 0 .. flags.n - 1
    BY FlagsFacts
  <2> QED
    BY <2>1, CriterionDecides DEF Found, QuorumSize, Scheme
<1> QED
  BY <1>1, StartupTypes, PTL

(***************************************************************************)
(* With a ratio above 1 a node serves what the theorems about rounds       *)
(* assume: ConfigAssumption and SchemeAssumption of Priorities, for its n, *)
(* its tolerance and its weights.  And its tolerance is below n/2.         *)
(***************************************************************************)
ServesScheme ==
  pc \in Serving /\ ratio > Grid[flags.n] =>
    /\ flags.n \in Nat \ {0} /\ Tolerance \in Nat /\ Tolerance < flags.n
    /\ Scheme \in [0 .. flags.n - 1 -> Nat]
    /\ \A r, s \in 0 .. flags.n - 1 : r <= s => Scheme[r] >= Scheme[s]
    /\ Weights(flags.n, Tolerance, Scheme)!I1
    /\ Weights(flags.n, Tolerance, Scheme)!I2
    /\ MinorityTolerance

\* The weights of an accepted ratio above 1.
LEMMA ServedScheme ==
  ASSUME TolerancesBelowN, TypeOK, Found, ratio > Grid[flags.n]
  PROVE  /\ \A i \in 1 .. flags.n - 1 : 0 < Scheme[i] /\ Scheme[i] < Scheme[i-1]
         /\ QuorumSuffices(flags.n, Scheme, Tolerance)
         /\ FewerDoNot(flags.n, Scheme, Tolerance)
         /\ ServesScheme
<1>1. /\ flags.n \in Nat \ {0} /\ Grid[flags.n] \in Nat \ {0} /\ ratio \in Int
      /\ Tolerance \in 0 .. flags.n - 1
  BY FlagsFacts
<1>2. PICK n \in Nat \ {0} : n = flags.n
  BY <1>1
<1>3. PICK t \in 0 .. n-1 : t = Tolerance
  BY <1>1, <1>2
<1>4. PICK r \in Int : r = ratio
  BY <1>1
<1>5. Grid[n] \in Nat \ {0} /\ r > Grid[n] /\ Accepts(n, t+1, r)
  BY <1>1, <1>2, <1>3, <1>4 DEF Found, QuorumSize
<1>6. Scheme = SchemeOf(n, r)
  BY <1>2, <1>4 DEF Scheme
<1> DEFINE w == SchemeOf(n, r)
<1>7. /\ \A i \in 0 .. n-1 : w[i] \in Nat \ {0}
      /\ \A i \in 1 .. n-1 : w[i] < w[i-1]
  BY <1>5, SchemeDescends
<1>8. /\ w \in [0 .. n-1 -> Nat]
      /\ \A i, j \in 0 .. n-1 : i <= j => w[i] >= w[j]
      /\ Weights(n, t, w)!I1 /\ Weights(n, t, w)!I2
  BY <1>5, AcceptedScheme
<1>9. QuorumSuffices(n, w, t) /\ FewerDoNot(n, w, t)
  BY <1>5, CriterionDecides
<1> HIDE DEF w
<1>10. 2 * t < n
  <2>1. n \in Nat /\ t \in 0 .. n
    OBVIOUS
  <2> QED
    BY <1>7, <1>8, <1>9, <2>1, LightMeansMinority
<1>11. \A i \in 1 .. n-1 : 0 < w[i]
  BY <1>7
<1>12. ServesScheme
  BY <1>1, <1>2, <1>3, <1>6, <1>8, <1>10 DEF ServesScheme, MinorityTolerance, w
<1> QED
  BY <1>2, <1>3, <1>6, <1>7, <1>9, <1>11, <1>12 DEF w

(***************************************************************************)
(* What a replica serves with at a ratio above 1 is a scheme for which     *)
(* everything proved of the rounds holds.                                  *)
(***************************************************************************)
THEOREM ServedSchemesAreAssumed ==
  ASSUME TolerancesBelowN
  PROVE  Spec => []ServesScheme
<1>1. TypeOK /\ SearchInv => ServesScheme
  <2> SUFFICES ASSUME TypeOK, SearchInv, pc \in Serving, ratio > Grid[flags.n]
               PROVE  ServesScheme
    BY DEF ServesScheme
  <2>1. Found
    BY DEF SearchInv
  <2> QED
    BY <2>1, ServedScheme
<1> QED
  BY <1>1, StartupTypes, SearchInvHolds, PTL

\* With such flags the search does not leave the ratios above 1 as long as
\* the tolerance is below n/2, and it does not end there otherwise.
LEMMA MinorityIsServed ==
  ASSUME FineFlags, TypeOK, SearchInv
  PROVE  OnlyMinorityIsOrdered
<1>1. /\ TolerancesBelowN /\ flags.n \in Nat \ {0} /\ Grid[flags.n] \in Nat \ {0} /\ ratio \in Int
      /\ Tolerance \in 0 .. flags.n - 1 /\ flags.n <= 24 /\ FineFor(flags.n)
  BY FlagsFacts DEF FineFlags
<1>2. ASSUME pc \in {"search"} \cup Serving, MinorityTolerance
      PROVE  ratio > Grid[flags.n]
  <2>1. Tolerance \in Nat /\ 2 * Tolerance < flags.n
    BY <1>1, <1>2 DEF MinorityTolerance
  <2>2. PICK r \in Grid[flags.n] + 1 .. 2 * Grid[flags.n] : Accepts(flags.n, Tolerance + 1, r)
    BY <1>1, <2>1, MinorityIsAccepted
  <2>3. r \notin ratio + 1 .. 2 * Grid[flags.n]
    BY <1>2, <2>2 DEF SearchInv, Refused, QuorumSize
  <2> QED
    BY <1>1, <2>2, <2>3
<1>3. ASSUME pc \in Serving, ratio > Grid[flags.n]
      PROVE  MinorityTolerance
  <2>1. Found
    BY <1>3 DEF SearchInv
  <2> QED
    BY <1>1, <1>3, <2>1, ServedScheme DEF ServesScheme
<1> QED
  BY <1>2, <1>3 DEF OnlyMinorityIsOrdered

(***************************************************************************)
(* A node serves with weights in descending order exactly if its tolerance *)
(* is below n/2; and then the search ends above ratio 1.                   *)
(***************************************************************************)
THEOREM OnlyMinoritiesServeInOrder ==
  ASSUME FineFlags
  PROVE  Spec => []OnlyMinorityIsOrdered
<1>1. TypeOK /\ SearchInv => OnlyMinorityIsOrdered
  BY MinorityIsServed
<1> QED
  BY <1>1, StartupTypes, SearchInvHolds, PTL

(***************************************************************************)
(* A node with a tolerance below n/2 serves with weights that decrease, of *)
(* which the t+1 first are over the majority and the t first are not.      *)
(***************************************************************************)
THEOREM MinoritiesServeCabinet ==
  ASSUME FineFlags
  PROVE  Spec => []SchemeIsCabinet
<1>1. TypeOK /\ SearchInv => SchemeIsCabinet
  <2> SUFFICES ASSUME TypeOK, SearchInv, pc \in Serving, MinorityTolerance
               PROVE  /\ \A i \in 1 .. flags.n - 1 : 0 < Scheme[i] /\ Scheme[i] < Scheme[i-1]
                      /\ QuorumSuffices(flags.n, Scheme, Tolerance)
                      /\ FewerDoNot(flags.n, Scheme, Tolerance)
    BY DEF SchemeIsCabinet
  <2>1. ratio > Grid[flags.n]
    BY MinorityIsServed DEF OnlyMinorityIsOrdered
  <2>2. Found /\ TolerancesBelowN
    BY DEF SearchInv, FineFlags
  <2> QED
    BY <2>1, <2>2, ServedScheme
<1> QED
  BY <1>1, StartupTypes, SearchInvHolds, PTL

(***************************************************************************)
(* No node serves with a ratio from 0 to 1, whatever its flags and step:   *)
(* where the search misses the ratios above 1 it does not end, unless at a *)
(* negative one.                                                           *)
(***************************************************************************)
THEOREM NoFlatScheme ==
  ASSUME TolerancesBelowN
  PROVE  Spec => [](pc \in Serving => ratio \notin 0 .. Grid[flags.n])
<1>1. TypeOK /\ SearchInv => (pc \in Serving => ratio \notin 0 .. Grid[flags.n])
  <2> SUFFICES ASSUME TypeOK, SearchInv, pc \in Serving, ratio \in 0 .. Grid[flags.n]
               PROVE  FALSE
    OBVIOUS
  <2>1. /\ flags.n \in Nat /\ Grid[flags.n] \in Nat \ {0}
        /\ Tolerance \in 0 .. flags.n - 1
    BY FlagsFacts
  <2>2. ratio \in Nat /\ ratio <= Grid[flags.n]
    BY <2>1
  <2>3. Accepts(flags.n, Tolerance + 1, ratio)
    BY DEF SearchInv, Found, QuorumSize
  <2> QED
    BY <2>1, <2>2, <2>3, FlatIsRefused
<1> QED
  BY <1>1, StartupTypes, SearchInvHolds, PTL
=============================================================================
