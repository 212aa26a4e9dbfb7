---------------------------- MODULE WriteService ----------------------------
(***************************************************************************)
(* What one reign of a leader promises to the clients that write, without  *)
(* rounds, weights, connections or messages: the accepted writes form one  *)
(* sequence; every follower applies a growing prefix of it to its          *)
(* documents; the writes are answered in sequence; and a write is answered *)
(* with its result on the leader's documents only once T followers have    *)
(* applied it.  A write may also be given up with a timeout: the leader    *)
(* then never applies it, while followers still may.                       *)
(***************************************************************************)
EXTENDS KVStore, Integers, Sequences, FiniteSets

CONSTANTS Node, Leader, T

VARIABLES
  accepted,  \* the writes, in the order the leader took them
  outcome,   \* outcome[i] is the answer to accepted[i]
  applied,   \* applied[n]: positions in accepted, from 0, that n has applied
  docs       \* docs[n]: the documents of node n

vars == <<accepted, outcome, applied, docs>>

Init ==
  /\ accepted = << >>
  /\ outcome = << >>
  /\ applied = [n \in Node |-> << >>]
  /\ docs = [n \in Node |-> Seed]

Accept(c) ==
  /\ accepted' = Append(accepted, c)
  /\ UNCHANGED <<outcome, applied, docs>>

\* The write at position p takes effect on node n.
TakesEffect(n, p) ==
  /\ applied' = [applied EXCEPT ![n] = Append(@, p)]
  /\ docs' = [docs EXCEPT ![n] = Exec(@, accepted[p+1])]

\* A follower applies the next write; at most one is not answered yet.
Follow(f) ==
  LET p == Len(applied[f])
  IN  /\ p < Len(accepted)
      /\ p <= Len(outcome)
      /\ TakesEffect(f, p)
      /\ UNCHANGED <<accepted, outcome>>

Holders(p) ==
  {f \in Node \ {Leader} : \E i \in 1 .. Len(applied[f]) : applied[f][i] = p}

\* The leader applies the next write and reports the result.
Commit ==
  LET p == Len(outcome)
  IN  /\ p < Len(accepted)
      /\ Cardinality(Holders(p)) >= T
      /\ TakesEffect(Leader, p)
      /\ outcome' = Append(outcome, IF ExecOK(docs[Leader], accepted[p+1])
                                    THEN "ok" ELSE "failed")
      /\ UNCHANGED accepted

GiveUp ==
  /\ Len(outcome) < Len(accepted)
  /\ outcome' = Append(outcome, "timeout")
  /\ UNCHANGED <<accepted, applied, docs>>

Next ==
  \/ \E c \in Command : Accept(c)
  \/ \E f \in Node \ {Leader} : Follow(f)
  \/ Commit
  \/ GiveUp

Spec == Init /\ [][Next]_vars
=============================================================================
