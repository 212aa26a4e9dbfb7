----------------------------- MODULE MCStartup ------------------------------
(* Instances of Startup for TLC.                                           *)
EXTENDS Startup, TLC

\* The code's 1/100 as long as its powers fit 32 bits.
Grids == [n \in 1 .. 6 |-> CASE n < 5 -> 100 [] n = 5 -> 20 [] n = 6 -> 10]

TwoRows == <<"c1", "c2">>

\* Every tolerance below n, the default, and ids out of range.
CommandLines ==
  {[id |-> id, n |-> n, t |-> t] : id \in {0, 1}, n \in 2 .. 6, t \in {-1}}
    \cup UNION {{[id |-> 1, n |-> n, t |-> t] : t \in 0 .. n-1} : n \in 2 .. 6}
    \cup {[id |-> 0, n |-> 1, t |-> 0], [id |-> -1, n |-> 3, t |-> -1],
          [id |-> 3, n |-> 3, t |-> 1]}

\* What the theorems about the ratio search assume of the command lines.
ASSUME MCStartupAssumption == FineFlags
=============================================================================
