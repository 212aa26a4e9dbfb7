---------------------------- MODULE MCConsensus -----------------------------
(* Instances of Consensus for TLC.                                         *)
EXTENDS Consensus, TLC

CONSTANTS k0, k1, k2

\* Ratio 1.61, what calcInitPrioRatio returns for n=3, t=1.
Scheme3 == 0 :> 259 @@ 1 :> 161 @@ 2 :> 100

\* Ratio 1.17, what it returns for n=5, t=2.
Scheme5 == 0 :> 187 @@ 1 :> 160 @@ 2 :> 137 @@ 3 :> 117 @@ 4 :> 100

\* Two seeded customers and one new customer k2.  Nothing is written to k0.
SeedK1 == k0 :> "seed" @@ k1 :> "seed" @@ k2 :> Absent

Insert == [op |-> "INSERT", key |-> k2, val |-> "new"]
Replace == [op |-> "REPLACE", key |-> k1, val |-> "upd"]
Delete == [op |-> "DELETE", key |-> k1, val |-> Absent]

ThreeWrites == {Insert, Replace, Delete}
TwoWrites == {Replace, Delete}
OneWrite == {Replace}

\* For runs about order only: every write updates a document of its own and
\* leaves it as it is, so that keys are interchangeable.
SeedAll == [k \in Key |-> "seed"]
NoChange == {[op |-> "REPLACE", key |-> k, val |-> "seed"] : k \in Key}
KeySymmetry == Permutations(Key)
=============================================================================
