-------------------------- MODULE PrioritiesProofs --------------------------
(***************************************************************************)
(* What the rounds of Cabinet rely on, for every number of nodes, every    *)
(* tolerance and every scheme of weights that satisfies the assumptions of *)
(* Priorities: sums of weights behave like sums, T nodes are never over    *)
(* the majority, N-T nodes always are, and the ranks dealt out for a round *)
(* are distinct.                                                           *)
(***************************************************************************)
EXTENDS Priorities, FiniteSetTheorems, TLAPS

\* The scheme lists natural numbers, and its first entry is the largest.
LEMMA SchemeFacts ==
  /\ N \in Nat \ {0}
  /\ T \in Nat
  /\ T < N
  /\ 0 \in Rank
  /\ \A r \in Rank : Scheme[r] \in Nat /\ Scheme[r] <= Scheme[0]
BY ConfigAssumption, SchemeAssumption DEF Rank

\* Every set of ranks is finite.
LEMMA RankFinite ==
  ASSUME NEW R \in SUBSET Rank
  PROVE  IsFiniteSet(R) /\ Cardinality(R) \in Nat
<1>1. IsFiniteSet(Rank)
  BY SchemeFacts, FS_Interval DEF Rank
<1> QED
  BY <1>1, FS_Subset, FS_CardinalityType

\* The units of weight of a set of ranks are finitely many, so that its weight is
\* a natural number.
LEMMA UnitsFinite ==
  ASSUME NEW R \in SUBSET Rank
  PROVE  IsFiniteSet(Units(R)) /\ RankWeight(R) \in Nat
<1>1. IsFiniteSet(1 .. Scheme[0])
  BY SchemeFacts, FS_Interval
<1>2. IsFiniteSet(R \X (1 .. Scheme[0]))
  BY <1>1, RankFinite, FS_Product
<1>3. Units(R) \subseteq R \X (1 .. Scheme[0])
  BY DEF Units
<1> QED
  BY <1>2, <1>3, FS_Subset, FS_CardinalityType DEF RankWeight

\* Weights of disjoint sets of ranks add up.
LEMMA RankWeightUnion ==
  ASSUME NEW R \in SUBSET Rank, NEW S \in SUBSET Rank, R \cap S = {}
  PROVE  RankWeight(R \cup S) = RankWeight(R) + RankWeight(S)
<1>1. Units(R \cup S) = Units(R) \cup Units(S)
  BY DEF Units
<1>2. Units(R) \cap Units(S) = {}
  BY DEF Units
<1>3. IsFiniteSet(Units(R)) /\ IsFiniteSet(Units(S))
  BY UnitsFinite
<1>4. Cardinality(Units(R) \cup Units(S))
         = Cardinality(Units(R)) + Cardinality(Units(S)) - Cardinality({})
  BY <1>2, <1>3, FS_Union
<1>5. RankWeight(R \cup S) = RankWeight(R) + RankWeight(S) - 0
  BY <1>1, <1>4, FS_EmptySet DEF RankWeight
<1>6. RankWeight(R) \in Nat /\ RankWeight(S) \in Nat
  BY UnitsFinite
<1> QED
  BY <1>5, <1>6

\* The weight of a single rank is its entry in the scheme.
LEMMA RankWeightSingle ==
  ASSUME NEW r \in Rank
  PROVE  RankWeight({r}) = Scheme[r]
<1>1. Units({r}) = {r} \X (1 .. Scheme[r])
  <2>1. Scheme[r] \in Nat /\ Scheme[0] \in Nat /\ Scheme[r] <= Scheme[0]
    BY SchemeFacts
  <2>2. \A k : k \in 1 .. Scheme[r] <=> k \in 1 .. Scheme[0] /\ k <= Scheme[r]
    BY <2>1
  <2> QED
    BY <2>2 DEF Units
<1>2. IsFiniteSet({r}) /\ Cardinality({r}) = 1
  BY FS_Singleton
<1>3. Scheme[r] \in Nat
  BY SchemeFacts
<1>4. IsFiniteSet(1 .. Scheme[r]) /\ Cardinality(1 .. Scheme[r]) = Scheme[r]
  BY <1>3, FS_Interval, SMTT(30)
<1>5. Cardinality({r} \X (1 .. Scheme[r]))
         = Cardinality({r}) * Cardinality(1 .. Scheme[r])
  BY <1>2, <1>4, FS_Product
<1>6. RankWeight({r}) = 1 * Scheme[r]
  BY <1>1, <1>2, <1>4, <1>5 DEF RankWeight
<1> QED
  BY <1>3, <1>6

\* One more rank adds its own weight.
LEMMA RankWeightAdd ==
  ASSUME NEW R \in SUBSET Rank, NEW r \in Rank, r \notin R
  PROVE  RankWeight(R \cup {r}) = RankWeight(R) + Scheme[r]
BY RankWeightUnion, RankWeightSingle

\* A larger set of ranks weighs at least as much.
LEMMA RankWeightMono ==
  ASSUME NEW S \in SUBSET Rank, NEW R \in SUBSET S
  PROVE  RankWeight(R) <= RankWeight(S)
<1>1. Units(R) \subseteq Units(S)
  BY DEF Units
<1> QED
  BY <1>1, UnitsFinite, FS_Subset DEF RankWeight

-----------------------------------------------------------------------------
(* The T heaviest nodes outweigh any other T nodes.                        *)

\* Multiplication by a natural number preserves the order.
LEMMA ProductMono ==
  ASSUME NEW a \in Nat, NEW b \in Nat, NEW s \in Nat, a <= b
  PROVE  a * s <= b * s
OBVIOUS

\* A set of ranks none of which is heavier than s.
LEMMA LightRanks ==
  ASSUME NEW R \in SUBSET Rank, NEW s \in Nat, \A r \in R : Scheme[r] <= s
  PROVE  RankWeight(R) <= Cardinality(R) * s
<1>1. Units(R) \subseteq R \X (1 .. s)
  <2>1. ASSUME NEW r \in R, NEW k \in 1 .. Scheme[0], k <= Scheme[r]
        PROVE  k \in 1 .. s
    <3>1. Scheme[r] \in Nat /\ Scheme[0] \in Nat /\ Scheme[r] <= s
      BY SchemeFacts
    <3> QED
      BY <2>1, <3>1
  <2> QED
    BY <2>1 DEF Units
<1>2. IsFiniteSet(1 .. s) /\ Cardinality(1 .. s) = s
  BY FS_Interval
<1>3. /\ IsFiniteSet(R \X (1 .. s))
      /\ Cardinality(R \X (1 .. s)) = Cardinality(R) * Cardinality(1 .. s)
  BY <1>2, RankFinite, FS_Product
<1>4. Cardinality(Units(R)) <= Cardinality(R \X (1 .. s))
  BY <1>1, <1>3, FS_Subset
<1> QED
  BY <1>2, <1>3, <1>4 DEF RankWeight

\* A set of ranks none of which is lighter than s.
LEMMA HeavyRanks ==
  ASSUME NEW R \in SUBSET Rank, NEW s \in Nat, \A r \in R : s <= Scheme[r]
  PROVE  Cardinality(R) * s <= RankWeight(R)
<1>1. R \X (1 .. s) \subseteq Units(R)
  <2>1. ASSUME NEW r \in R, NEW k \in 1 .. s
        PROVE  k \in 1 .. Scheme[0] /\ k <= Scheme[r]
    <3>1. /\ Scheme[r] \in Nat /\ Scheme[0] \in Nat
          /\ s <= Scheme[r] /\ Scheme[r] <= Scheme[0]
      BY SchemeFacts
    <3> QED
      BY <3>1
  <2> QED
    BY <2>1 DEF Units
<1>2. IsFiniteSet(1 .. s) /\ Cardinality(1 .. s) = s
  BY FS_Interval
<1>3. Cardinality(R \X (1 .. s)) = Cardinality(R) * Cardinality(1 .. s)
  BY <1>2, RankFinite, FS_Product
<1>4. IsFiniteSet(Units(R))
  BY UnitsFinite
<1>5. Cardinality(R \X (1 .. s)) <= Cardinality(Units(R))
  BY <1>1, <1>4, FS_Subset
<1> QED
  BY <1>2, <1>3, <1>5 DEF RankWeight

\* Ranks 0 to T - 1 weigh at least as much as any other T ranks.
LEMMA HeaviestRanks ==
  ASSUME NEW U \in SUBSET Rank, Cardinality(U) <= T
  PROVE  RankWeight(U) <= RankWeight(0 .. T-1)
<1> DEFINE H == 0 .. T-1
           s == Scheme[T]
<1>1. /\ H \in SUBSET Rank
      /\ U \ H \in SUBSET Rank
      /\ H \ U \in SUBSET Rank
      /\ U \cap H \in SUBSET Rank
      /\ T \in Rank
      /\ s \in Nat
  BY SchemeFacts DEF Rank
<1>2. /\ \A r \in U \ H : Scheme[r] <= s
      /\ \A r \in H \ U : s <= Scheme[r]
  BY SchemeFacts, SchemeAssumption DEF Rank
<1>3. Cardinality(H) = T
  BY SchemeFacts, FS_Interval
<1>4. Cardinality(U \ H) <= Cardinality(H \ U)
  <2>1. /\ Cardinality(U \ H) = Cardinality(U) - Cardinality(U \cap H)
        /\ Cardinality(H \ U) = Cardinality(H) - Cardinality(H \cap U)
    BY <1>1, RankFinite, FS_Difference
  <2>2. H \cap U = U \cap H
    OBVIOUS
  <2>3. /\ Cardinality(U) \in Nat /\ Cardinality(U \cap H) \in Nat
    BY <1>1, RankFinite
  <2>4. Cardinality(H \ U) = T - Cardinality(U \cap H)
    BY <1>3, <2>1, <2>2
  <2> HIDE DEF H
  <2> QED
    BY <2>1, <2>3, <2>4, SchemeFacts
<1>5. RankWeight(U \ H) <= RankWeight(H \ U)
  <2>1. RankWeight(U \ H) <= Cardinality(U \ H) * s
    BY <1>1, <1>2, LightRanks
  <2>2. Cardinality(H \ U) * s <= RankWeight(H \ U)
    BY <1>1, <1>2, HeavyRanks
  <2>3. Cardinality(U \ H) \in Nat /\ Cardinality(H \ U) \in Nat
    BY <1>1, RankFinite
  <2>4. Cardinality(U \ H) * s <= Cardinality(H \ U) * s
    BY <1>1, <1>4, <2>3, ProductMono
  <2>5. /\ RankWeight(U \ H) \in Nat /\ RankWeight(H \ U) \in Nat
        /\ Cardinality(U \ H) * s \in Nat /\ Cardinality(H \ U) * s \in Nat
    BY <1>1, <2>3, UnitsFinite
  <2> HIDE DEF s, H
  <2> QED
    BY <2>1, <2>2, <2>4, <2>5
<1>6. RankWeight(U) = RankWeight(U \cap H) + RankWeight(U \ H)
  <2>1. U = (U \cap H) \cup (U \ H) /\ (U \cap H) \cap (U \ H) = {}
    OBVIOUS
  <2> QED
    BY <1>1, <2>1, RankWeightUnion
<1>7. RankWeight(H) = RankWeight(U \cap H) + RankWeight(H \ U)
  <2>1. H = (U \cap H) \cup (H \ U) /\ (U \cap H) \cap (H \ U) = {}
    OBVIOUS
  <2> QED
    BY <1>1, <2>1, RankWeightUnion
<1>8. /\ RankWeight(U \cap H) \in Nat
      /\ RankWeight(U \ H) \in Nat /\ RankWeight(H \ U) \in Nat
  BY <1>1, UnitsFinite
<1> QED
  BY <1>5, <1>6, <1>7, <1>8

\* The weight of T nodes is below half of the total, from I2.
LEMMA TooFewWeight ==
  ASSUME NEW U \in SUBSET Rank, Cardinality(U) <= T
  PROVE  2 * RankWeight(U) < SchemeSum
<1>1. RankWeight(U) <= RankWeight(0 .. T-1)
  BY HeaviestRanks
<1>2. 2 * RankWeight(0 .. T-1) < SchemeSum
  BY SchemeAssumption DEF I2
<1>3. RankWeight(U) \in Nat /\ RankWeight(0 .. T-1) \in Nat /\ SchemeSum \in Nat
  <2>1. 0 .. T-1 \in SUBSET Rank /\ Rank \in SUBSET Rank
    BY SchemeFacts DEF Rank
  <2> QED
    BY <2>1, UnitsFinite DEF SchemeSum
<1> QED
  BY <1>1, <1>2, <1>3

(***************************************************************************)
(* What I2 gives the loop: whatever their weights in the round, T nodes    *)
(* cannot end it, so every commit is known to at least T+1 nodes.          *)
(***************************************************************************)
THEOREM TooFewNeverCommit ==
  ASSUME NEW U \in SUBSET Rank, OverMajority(RankWeight(U))
  PROVE  Cardinality(U) > T
<1>1. RankWeight(U) \in Nat /\ SchemeSum \in Nat
  <2>1. Rank \in SUBSET Rank
    OBVIOUS
  <2> QED
    BY <2>1, UnitsFinite DEF SchemeSum
<1>2. ~(2 * RankWeight(U) < SchemeSum)
  BY <1>1 DEF OverMajority
<1>3. ~(Cardinality(U) <= T)
  BY <1>2, TooFewWeight
<1> QED
  BY <1>3, RankFinite, SchemeFacts

(***************************************************************************)
(* And the other half, which needs no I1: the answers of any N-T nodes end *)
(* the round, because the nodes they leave out are at most T.              *)
(***************************************************************************)
THEOREM EnoughAlwaysCommit ==
  ASSUME NEW U \in SUBSET Rank, Cardinality(U) >= N - T
  PROVE  OverMajority(RankWeight(U))
<1> DEFINE C == Rank \ U
<1>1. C \in SUBSET Rank /\ Rank \in SUBSET Rank
  OBVIOUS
<1>2. Cardinality(Rank) = N
  BY SchemeFacts, FS_Interval DEF Rank
<1>3. Cardinality(C) = N - Cardinality(U)
  <2>1. Cardinality(C) = Cardinality(Rank) - Cardinality(Rank \cap U)
    BY <1>1, RankFinite, FS_Difference
  <2>2. Rank \cap U = U
    OBVIOUS
  <2> QED
    BY <1>2, <2>1, <2>2
<1>4. Cardinality(C) <= T
  BY <1>3, RankFinite, SchemeFacts
<1>5. 2 * RankWeight(C) < SchemeSum
  BY <1>1, <1>4, TooFewWeight
<1>6. SchemeSum = RankWeight(C) + RankWeight(U)
  <2>1. Rank = C \cup U /\ C \cap U = {}
    OBVIOUS
  <2> QED
    BY <1>1, <2>1, RankWeightUnion DEF SchemeSum
<1>7. RankWeight(C) \in Nat /\ RankWeight(U) \in Nat
  BY <1>1, UnitsFinite
<1>8. 2 * RankWeight(U) > SchemeSum
  <2> HIDE DEF C
  <2> QED
    BY <1>5, <1>6, <1>7
<1> QED
  BY <1>8 DEF OverMajority

\* More than one node: I2 leaves room for the leader and one follower.
LEMMA ToleranceBound ==
  ASSUME N > 1
  PROVE  T < N - 1
<1> SUFFICES ASSUME T = N - 1
             PROVE  FALSE
  BY SchemeFacts
<1> DEFINE H == 0 .. T-1
<1>1. /\ H \in SUBSET Rank /\ T \in Rank /\ T \notin H
      /\ Rank = H \cup {T}
      /\ 0 \in H /\ {0} \in SUBSET H
  BY SchemeFacts DEF Rank
<1>2. SchemeSum = RankWeight(H) + Scheme[T]
  BY <1>1, RankWeightAdd DEF SchemeSum
<1>3. Scheme[0] <= RankWeight(H)
  <2>1. RankWeight({0}) <= RankWeight(H)
    BY <1>1, RankWeightMono
  <2>2. RankWeight({0}) = Scheme[0]
    BY SchemeFacts, RankWeightSingle
  <2> QED
    BY <2>1, <2>2
<1>4. Scheme[T] <= Scheme[0]
  BY <1>1, SchemeFacts
<1>5. 2 * RankWeight(H) < SchemeSum
  BY SchemeAssumption DEF I2
<1>6. RankWeight(H) \in Nat /\ Scheme[T] \in Nat /\ Scheme[0] \in Nat
  BY <1>1, UnitsFinite, SchemeFacts
<1> HIDE DEF H
<1> QED
  BY <1>2, <1>3, <1>4, <1>5, <1>6

-----------------------------------------------------------------------------
(* Dealing out the ranks.                                                  *)

\* An interval of integers has as many members as its bounds say.
LEMMA IntervalLength ==
  ASSUME NEW a \in Nat, NEW b \in Nat, a <= b
  PROVE  IsFiniteSet(a + 1 .. b) /\ Cardinality(a + 1 .. b) = b - a
<1>1. a + 1 \in Int /\ b \in Int
  OBVIOUS
<1>2. /\ IsFiniteSet(a + 1 .. b)
      /\ Cardinality(a + 1 .. b) = IF a + 1 > b THEN 0 ELSE b - (a + 1) + 1
  BY <1>1, FS_Interval
<1> QED
  BY <1>2

\* A queue without repetition holds as many nodes as it is long.
LEMMA QueueLength ==
  ASSUME NEW S, NEW q \in Seq(S), IsInjective(q)
  PROVE  /\ IsFiniteSet(Range(q))
         /\ Cardinality(Range(q)) = Len(q)
<1>1. q \in Bijection(1 .. Len(q), Range(q))
  BY DEF Bijection, Injection, Surjection, Range
<1>2. IsFiniteSet(1 .. Len(q)) /\ Cardinality(1 .. Len(q)) = Len(q)
  <2>1. /\ Len(q) \in Nat /\ 0 \in Nat /\ 0 <= Len(q)
        /\ 1 = 0 + 1 /\ Len(q) - 0 = Len(q)
    OBVIOUS
  <2> QED
    BY <2>1, IntervalLength
<1> QED
  BY <1>1, <1>2, FS_Bijection DEF ExistsBijection

\* The responders are no more than the followers.
LEMMA ResponderCount ==
  ASSUME NEW l \in Node, NEW q \in Seq(Node \ {l}), IsInjective(q)
  PROVE  /\ Len(q) \in 0 .. N-1
         /\ LET others == Node \ (Range(q) \cup {l})
            IN  IsFiniteSet(others) /\ Cardinality(others) = N - 1 - Len(q)
<1> DEFINE held == Range(q) \cup {l}
<1>1. Range(q) \subseteq Node /\ l \notin Range(q)
  BY DEF Range
<1>2. IsFiniteSet(Range(q)) /\ Cardinality(Range(q)) = Len(q)
  BY QueueLength
<1>3. IsFiniteSet(held) /\ Cardinality(held) = Len(q) + 1
  BY <1>1, <1>2, FS_AddElement
<1>4. IsFiniteSet(Node) /\ Cardinality(Node) = N
  BY SchemeFacts, FS_Interval DEF Node
<1>5. Len(q) + 1 <= N
  BY <1>1, <1>3, <1>4, FS_Subset
<1>6. Node \cap held = held
  BY <1>1
<1>7. /\ IsFiniteSet(Node \ held)
      /\ Cardinality(Node \ held) = N - Cardinality(held)
  <2> HIDE DEF held
  <2>1. /\ IsFiniteSet(Node \ held)
        /\ Cardinality(Node \ held) = Cardinality(Node) - Cardinality(Node \cap held)
    BY <1>4, FS_Difference, Zenon
  <2> QED
    BY <1>4, <1>6, <2>1, Zenon
<1>8. Len(q) \in Nat
  OBVIOUS
<1>9. Cardinality(Node \ held) = N - 1 - Len(q)
  <2> HIDE DEF held
  <2> QED
    BY <1>3, <1>7, <1>8, SchemeFacts
<1> QED
  BY <1>5, <1>7, <1>8, <1>9, SchemeFacts

(***************************************************************************)
(* UpdateFollowerPriorities succeeds when its leader is not a responder,   *)
(* and then deals every rank to one node, rank 0 to the leader.            *)
(***************************************************************************)
THEOREM RerankedDistinct ==
  ASSUME NEW l \in Node, NEW q \in Seq(Node \ {l}), IsInjective(q),
         NEW r \in Reranked(q, l)
  PROVE  r \in [Node -> Rank] /\ IsInjective(r) /\ r[l] = 0
<1> DEFINE resp == Range(q)
           others == Node \ (resp \cup {l})
           left == Len(q) + 1 .. N-1
           pos(n) == CHOOSE i \in 1 .. Len(q) : q[i] = n
<1>1. PICK g \in Injection(others, left) :
        r = [n \in Node |-> IF n \in resp THEN pos(n)
                            ELSE IF n = l THEN 0 ELSE g[n]]
  BY DEF Reranked, RanksLeft
<1>2. Len(q) \in 0 .. N-1 /\ N \in Nat
  BY ResponderCount, SchemeFacts
<1>3. resp \subseteq Node /\ l \notin resp
  BY DEF Range
<1>4. \A n \in resp : pos(n) \in 1 .. Len(q) /\ q[pos(n)] = n
  BY DEF Range
<1>5. \A n \in others : g[n] \in Len(q) + 1 .. N-1
  BY DEF Injection
<1>6. \A m, n \in others : g[m] = g[n] => m = n
  BY DEF Injection, IsInjective
<1>7. /\ \A n \in resp : r[n] = pos(n)
      /\ r[l] = 0
      /\ \A n \in others : r[n] = g[n]
      /\ DOMAIN r = Node
  BY <1>1, <1>3
<1> HIDE DEF pos, resp, others
<1>8. Node = resp \cup {l} \cup others
  BY <1>3 DEF others
<1>9. r \in [Node -> Rank]
  <2>1. \A n \in Node : r[n] \in Rank
    BY <1>2, <1>4, <1>5, <1>7, <1>8 DEF Rank
  <2> QED
    BY <1>1, <2>1
<1>10. ASSUME NEW m \in Node, NEW n \in Node, r[m] = r[n]
       PROVE  m = n
  <2>1. CASE m \in resp /\ n \in resp
    BY <1>4, <1>7, <1>10, <2>1
  <2>2. CASE m \in others /\ n \in others
    BY <1>6, <1>7, <1>10, <2>2
  <2>3. \A x \in resp, y \in others : r[x] # r[y]
    BY <1>2, <1>4, <1>5, <1>7
  <2>4. /\ \A x \in resp : r[x] # 0
        /\ \A x \in others : r[x] # 0
    BY <1>2, <1>4, <1>5, <1>7
  <2> QED
    BY <1>7, <1>8, <1>10, <2>1, <2>2, <2>3, <2>4
<1> QED
  BY <1>7, <1>9, <1>10 DEF IsInjective

\* UpdateFollowerPriorities always finds a rank for every node: whoever answered, in
\* whatever order, the ranks left over are exactly as many as the other nodes.
THEOREM RerankedExists ==
  ASSUME NEW l \in Node, NEW q \in Seq(Node \ {l}), IsInjective(q)
  PROVE  Reranked(q, l) # {}
<1> DEFINE others == Node \ (Range(q) \cup {l})
           left == Len(q) + 1 .. N-1
<1>1. /\ Len(q) \in 0 .. N-1
      /\ IsFiniteSet(others) /\ Cardinality(others) = N - 1 - Len(q)
  BY ResponderCount
<1>2. IsFiniteSet(left) /\ Cardinality(left) = N - 1 - Len(q)
  <2>1. /\ Len(q) \in Nat /\ N-1 \in Nat /\ Len(q) <= N-1
        /\ N-1 - Len(q) = N - 1 - Len(q)
    BY <1>1, SchemeFacts
  <2> QED
    BY <2>1, IntervalLength
<1>3. ExistsBijection(others, left)
  BY <1>1, <1>2, FS_SameCardinalityBij
<1>4. PICK g : g \in Injection(others, left)
  BY <1>3 DEF ExistsBijection, Bijection
<1> QED
  BY <1>4 DEF Reranked, RanksLeft
=============================================================================
