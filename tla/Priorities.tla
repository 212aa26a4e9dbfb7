----------------------------- MODULE Priorities -----------------------------
(***************************************************************************)
(* The weights of one Cabinet round: smr.PriorityManager.                  *)
(*                                                                         *)
(* The manager owns a fixed scheme of N weights, heaviest first, and hands *)
(* them to the nodes anew in every round.  A node is therefore described   *)
(* by the RANK it holds, the index of its weight in the scheme; a node the *)
(* manager has no entry for holds NoRank and weighs nothing, which is what *)
(* a lookup in a Go map returns for a missing key.                         *)
(***************************************************************************)
EXTENDS Integers, FiniteSets, Sequences, Functions

CONSTANTS
  N,       \* number of nodes, flag -n
  T,       \* failure tolerance, flag -t
  Scheme   \* pm.scheme, scaled to natural numbers, indexed from 0

Node == 0 .. N-1
Rank == 0 .. N-1
NoRank == -1

(***************************************************************************)
(* The sum of the weights of a set R of ranks.  The units of weight of the *)
(* members are listed and counted, rather than added up by recursion, so   *)
(* that facts about finite sets apply to sums of weights.                  *)
(***************************************************************************)
Units(R) == {u \in R \X (1 .. Scheme[0]) : u[2] <= Scheme[u[1]]}
RankWeight(R) == Cardinality(Units(R))

\* pm.majority is sum(scheme)/2; both sides are doubled to stay in Nat.
SchemeSum == RankWeight(Rank)

\* Mutants: the division by 2 forgotten; the leader's weight left out.
MajorityNotHalved(sum) == sum > SchemeSum
MajorityOfFollowers(sum) == 2 * sum > SchemeSum - Scheme[0]

OverMajority(sum) == 2 * sum > SchemeSum

Weight(r) == IF r \in Rank THEN Scheme[r] ELSE 0

(***************************************************************************)
(* I1 and I2 are the two facts calcInitPrioRatio searches a ratio for: the *)
(* T+1 heaviest nodes are a quorum and the T heaviest are not.             *)
(***************************************************************************)
I1 == 2 * RankWeight(0 .. T) > SchemeSum
I2 == 2 * RankWeight(0 .. T-1) < SchemeSum

ASSUME ConfigAssumption ==
  /\ N \in Nat \ {0}
  /\ T \in Nat
  /\ T < N
  /\ Scheme \in [Rank -> Nat]

ASSUME SchemeAssumption ==
  /\ \A r, s \in Rank : r <= s => Scheme[r] >= Scheme[s]
  /\ I1
  /\ I2

-----------------------------------------------------------------------------
\* What PriorityManager.Init stores for round 0: node k holds rank k.
InitialRanks == [n \in Node |-> n]

\* What a lookup in a round without an entry yields.
NoRanks == [n \in Node |-> NoRank]

\* Mutants: the rest starts at scheme[nr]; it ends one past the scheme.
RanksFromNr(prioQueue) == Len(prioQueue) .. N-1
RanksPastScheme(prioQueue) == Len(prioQueue) + 1 .. N

\* The ranks that neither the leader nor a responder of prioQueue takes.
RanksLeft(prioQueue) == Len(prioQueue) + 1 .. N-1

(***************************************************************************)
(* The possible results of UpdateFollowerPriorities: the i-th responder of *)
(* the previous round gets rank i, leaderID keeps rank 0, and the others   *)
(* share the ranks that are left in whatever order the map of the          *)
(* unarranged nodes is iterated.  If leaderID is among the responders, one *)
(* node more than there are ranks is left over; the loop runs off the      *)
(* scheme, the function returns an error and stores nothing: there is no   *)
(* such assignment.                                                        *)
(***************************************************************************)
Reranked(prioQueue, leaderID) ==
  LET responders == Range(prioQueue)
      others == Node \ (responders \cup {leaderID})
      position(n) == CHOOSE i \in 1 .. Len(prioQueue) : prioQueue[i] = n
  IN  {[n \in Node |-> IF n \in responders THEN position(n)
                       ELSE IF n = leaderID THEN 0
                       ELSE g[n]] : g \in Injection(others, RanksLeft(prioQueue))}

=============================================================================
