---------------------------- MODULE RatioSearch -----------------------------
(***************************************************************************)
(* The weights smr.PriorityManager.Init computes from a ratio, and the     *)
(* condition by which calcInitPrioRatio chooses it.                        *)
(*                                                                         *)
(* A ratio is a whole number of steps of 1/Grid[n]; the code's step is     *)
(* 1/100 for every n, and its floats are taken as exact.  Everything is    *)
(* multiplied by a power of Grid[n] so as to stay in the integers, and     *)
(* sums are compared by differences so as to stay in 32 bits.              *)
(***************************************************************************)
EXTENDS Integers

CONSTANT Grid   \* steps per unit of the ratio, by number of nodes

\* The powers of b.
Powers(b) ==
  LET p[k \in Nat] == IF k = 0 THEN 1 ELSE b * p[k-1]
  IN  p

\* r^k * Grid[n]^n for the ratio r = num / Grid[n].
Power(n, num, k) == Powers(num)[k] * Powers(Grid[n])[n-k]

\* Mutant: the factor 0.5 is forgotten.
AcceptsNotHalved(n, f, num) ==
  LET one == Powers(Grid[n])[n]
      all == Powers(num)[n]
  IN  /\ Power(n, num, n-f+1) - all > one
      /\ all > Power(n, num, n-f) - one

(***************************************************************************)
(* The condition of calcInitPrioRatio, called with f = t+1:                *)
(* r^(n-f+1) > (r^n + 1)/2 > r^(n-f).                                      *)
(***************************************************************************)
Accepts(n, f, num) ==
  LET one == Powers(Grid[n])[n]
      all == Powers(num)[n]
  IN  /\ Power(n, num, n-f+1) - all > one - Power(n, num, n-f+1)
      /\ all - Power(n, num, n-f) > Power(n, num, n-f) - one

\* Mutant: the slice is not reversed, the lightest weight comes first.
SchemeAscending(n, num) ==
  [i \in 0 .. n-1 |-> Powers(num)[i] * Powers(Grid[n])[n-1-i]]

\* pm.scheme after reverseSlice, without the common factor 10 of the base.
SchemeOf(n, num) ==
  [i \in 0 .. n-1 |-> Powers(num)[n-1-i] * Powers(Grid[n])[i]]

\* What the first nodes weigh together; all n of them twice pm.majority.
Sums(n, scheme) ==
  LET s[k \in 0 .. n] == IF k = 0 THEN 0 ELSE s[k-1] + scheme[k-1]
  IN  s

(***************************************************************************)
(* The two facts the ratio is chosen for, as sums of weights: the t+1      *)
(* first nodes are over the majority, the t first are below it.            *)
(***************************************************************************)
QuorumSuffices(n, scheme, t) == 2 * Sums(n, scheme)[t+1] > Sums(n, scheme)[n]
FewerDoNot(n, scheme, t) == 2 * Sums(n, scheme)[t] < Sums(n, scheme)[n]

(***************************************************************************)
(* A step that is fine enough for n nodes: with it the search finds a      *)
(* ratio for every tolerance below n/2.  For the code's 1/100 that is up   *)
(* to 20 nodes.                                                            *)
(***************************************************************************)
Half(n) == (n+1) \div 2
FineFor(n) == Half(n) * Half(n) <= Grid[n] + 1

=============================================================================
