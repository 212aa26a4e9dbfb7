--------------------------- MODULE ElectionProofs ---------------------------
(***************************************************************************)
(* What holds of the election for any number of nodes, elections, crashes  *)
(* and calls under way: types, one vote per voter and term, no term        *)
(* without a vote, and what two winners of one term have in common.        *)
(***************************************************************************)
EXTENDS Election, TLAPS, FiniteSetTheorems

(***************************************************************************)
(* No term is higher than the number of elections held so far.             *)
(***************************************************************************)
TermBound ==
  /\ \A n \in Node : term[n] <= elections /\ newTerm[n] <= elections
  /\ \A v \in votes : v.term <= elections

TypeInv == TypeOK /\ TermBound

(***************************************************************************)
(* Only a RunHeartbeat that is still running can depose its node, so that  *)
(* a rejection never ends anything but a leadership.                       *)
(***************************************************************************)
LiveBeats == \A b \in beats : b.live => role[b.from] = "leader"

\* The votes cast by the running processes: granted, or about to be.
Casting == {v \in votes : v.stage = "voted"}

(***************************************************************************)
(* Every vote cast in a term stands in votedForTerm, and no voter has cast *)
(* two in one term.                                                        *)
(***************************************************************************)
CastOnce ==
  /\ \A v \in Casting : v.term <= votedForTerm[v.voter]
  /\ \A g \in grants : g.term <= votedForTerm[g.voter]
  /\ \A u, v \in Casting :
       u.voter = v.voter /\ u.term = v.term => u.cand = v.cand
  /\ \A v \in Casting, g \in grants :
       v.voter = g.voter /\ v.term = g.term => v.cand = g.cand
  /\ VoteOncePerTerm

(***************************************************************************)
(* TermHasVote needs the vote of a handler that is about to store the term *)
(* and, for a candidate between SetTerm and TryVote, newTerm.              *)
(***************************************************************************)
TermCovered ==
  /\ TermHasVote
  /\ \A n \in Node : role[n] = "self" =>
       term[n] <= newTerm[n] \/ term[n] <= votedForTerm[n]

VoteInv == CastOnce /\ TermCovered

-----------------------------------------------------------------------------
\* LeaderID is a node.
LEMMA Constants ==
  /\ LeaderID \in Node /\ 0 \in Node /\ 0 \in Term
  /\ 0 \in 0 .. MaxElections
  /\ \A n \in Node : FirstRole(n) \in {"connect", "follower"}
BY ElectionAssumption DEF LeaderID, Node, Term, FirstRole

\* What becomes of the calls when a node dies: those it was about to answer
\* are denied, the others keep their stage.
LEMMA CrashedCalls ==
  ASSUME votes \subseteq VoteCall, NEW n \in Node, Crash(n), NEW u \in votes'
  PROVE  /\ u \in VoteCall
         /\ \E v \in votes :
              /\ u.cand = v.cand /\ u.voter = v.voter /\ u.term = v.term
              /\ \/ u.stage = "denied"
                 \/ u.stage = v.stage /\ (v.voter = n => v.stage # "voted")
              /\ u.live => v.live /\ (v.cand # n \/ v.voter = n)
<1>1. PICK answered \in SUBSET {v \in votes : v.voter = n /\ v.stage = "granted"} :
        LET undone == {v \in votes : v.voter = n /\ v.stage # "sent"} \ answered
        IN  votes' = {IF v \in undone THEN [v EXCEPT !.stage = "denied"]
                      ELSE IF v.cand = n THEN [v EXCEPT !.live = FALSE] ELSE v :
                        v \in votes}
  BY DEF Crash
<1> DEFINE undone == {v \in votes : v.voter = n /\ v.stage # "sent"} \ answered
<1>2. PICK v \in votes :
        u = IF v \in undone THEN [v EXCEPT !.stage = "denied"]
            ELSE IF v.cand = n THEN [v EXCEPT !.live = FALSE] ELSE v
  BY <1>1
<1>3. /\ v \notin undone /\ v.voter = n => v.stage # "voted"
      /\ v \in undone => v.voter = n
  BY <1>1
<1>4. v \in VoteCall
  OBVIOUS
<1> HIDE DEF undone
<1>5. CASE v \in undone
  BY <1>2, <1>3, <1>4, <1>5 DEF VoteCall
<1>6. CASE v \notin undone /\ v.cand = n
  BY <1>2, <1>3, <1>4, <1>6 DEF VoteCall
<1>7. CASE v \notin undone /\ v.cand # n
  BY <1>2, <1>3, <1>4, <1>7
<1> QED
  BY <1>5, <1>6, <1>7

\* Heartbeats stay heartbeats.
LEMMA BeatTypes ==
  ASSUME NEW B \in SUBSET Beat, NEW n \in Node
  PROVE  /\ Orphaned(B, n) \subseteq Beat
         /\ \A b \in B : \A s \in {"sent", "passed", "rejected"} :
              [b EXCEPT !.stage = s] \in Beat
BY DEF Orphaned, Beat

\* Initially.
LEMMA InitInv == Init => TypeInv /\ VoteInv
<1> SUFFICES ASSUME Init PROVE TypeInv /\ VoteInv
  OBVIOUS
<1>1. TypeOK
  <2>1. PICK up \in SUBSET Node :
          role = [n \in Node |-> IF n \in up THEN FirstRole(n) ELSE "down"]
    BY DEF Init
  <2>2. role \in [Node -> Role]
    BY <2>1, Constants DEF Role
  <2> QED
    BY <2>2, Constants DEF Init, TypeOK
<1>2. TermBound
  BY DEF Init, TermBound
<1>3. VoteInv
  BY DEF Init, VoteInv, CastOnce, TermCovered, Casting, VoteOncePerTerm, TermHasVote
<1> QED
  BY <1>1, <1>2, <1>3 DEF TypeInv

-----------------------------------------------------------------------------
(* Types.                                                                  *)

\* The steps of a node's own goroutines keep the types.
LEMMA NodeTypes ==
  ASSUME TypeInv, NEW n \in Node, NodeNext(n)
  PROVE  TypeInv'
<1> USE DEF TypeInv
<1>1. CASE MonitorTimeout(n)
  <2>1. newTerm' \in [Node -> Term]
    BY <1>1, ElectionAssumption DEF MonitorTimeout, TypeOK, TermBound, Term
  <2>2. TypeOK'
    BY <1>1, <2>1, ElectionAssumption
    DEF MonitorTimeout, TypeOK, Role, stateVars, callVars
  <2>3. TermBound'
    BY <1>1 DEF MonitorTimeout, TypeOK, TermBound, stateVars, callVars, Term, VoteCall
  <2> QED
    BY <2>2, <2>3
<1>2. CASE RaiseTerm(n)
  BY <1>2 DEF RaiseTerm, TypeOK, TermBound, Role, callVars, historyVars, Term
<1>3. CASE VoteForSelf(n)
  <2>1. votedForTerm' \in [Node -> Term] /\ votedForID' \in [Node -> Node]
    BY <1>3 DEF VoteForSelf, TypeOK
  <2> DEFINE new == {[cand |-> n, term |-> newTerm[n], voter |-> p,
                      live |-> TRUE, stage |-> "sent"] : p \in Node \ {n}}
  <2>2. /\ new \subseteq VoteCall
        /\ \A v \in new : v.term = newTerm[n]
    <3>1. newTerm[n] \in Term
      BY DEF TypeOK
    <3> DEFINE call(p) == [cand |-> n, term |-> newTerm[n], voter |-> p,
                           live |-> TRUE, stage |-> "sent"]
    <3>2. \A p \in Node : call(p) \in VoteCall /\ call(p).term = newTerm[n]
      BY <3>1 DEF VoteCall
    <3>3. new = {call(p) : p \in Node \ {n}}
      OBVIOUS
    <3> HIDE DEF call, new
    <3> QED
      BY <3>2, <3>3
  <2>3. votes' = votes \cup new
    BY <1>3 DEF VoteForSelf
  <2> HIDE DEF new
  <2>4. TypeOK'
    BY <1>3, <2>1, <2>2, <2>3 DEF VoteForSelf, TypeOK, Role, historyVars
  <2>5. TermBound'
    BY <1>3, <2>2, <2>3 DEF VoteForSelf, TermBound, historyVars
  <2> QED
    BY <2>4, <2>5
<1>4. CASE Win(n)
  <2>1. Voters(n) \in SUBSET Node
    BY DEF Voters, MyCalls, TypeOK, VoteCall
  <2>2. [cand |-> n, term |-> newTerm[n], voters |-> Voters(n)]
          \in [cand : Node, term : Term, voters : SUBSET Node]
    BY <2>1 DEF TypeOK
  <2>3. TypeOK'
    BY <1>4, <2>2 DEF Win, TypeOK, Role
  <2>4. TermBound'
    BY <1>4 DEF Win, TermBound
  <2> QED
    BY <2>3, <2>4
<1>5. CASE Lose(n)
  BY <1>5 DEF Lose, TypeOK, TermBound, Role, stateVars, historyVars
<1>6. CASE StartFixedLeader(n)
  BY <1>6, Constants
  DEF StartFixedLeader, TypeOK, TermBound, Role, stateVars, callVars, historyVars
<1>7. CASE StartHeartbeat(n)
  BY <1>7
  DEF StartHeartbeat, TypeOK, TermBound, Role, stateVars, callVars, historyVars
<1>8. ASSUME NEW p \in Node, SendHeartbeat(n, p)
      PROVE  TypeInv'
  <2>1. beats' \subseteq Beat
    <3>1. beatTerm[n] \in Term /\ beats \subseteq Beat
      BY DEF TypeOK
    <3>2. [from |-> n, term |-> beatTerm[n], to |-> p, live |-> TRUE,
           stage |-> "sent"] \in Beat
      BY <3>1 DEF Beat
    <3> QED
      BY <1>8, <3>1, <3>2 DEF SendHeartbeat
  <2> QED
    BY <1>8, <2>1
    DEF SendHeartbeat, TypeOK, TermBound, stateVars, historyVars
<1>9. CASE Start(n)
  BY <1>9, Constants
  DEF Start, TypeOK, TermBound, Role, stateVars, callVars, historyVars
<1>10. CASE Crash(n)
  <2>1. votes \subseteq VoteCall
    BY DEF TypeOK
  <2>2. \A u \in votes' : u \in VoteCall /\ \E v \in votes : u.term = v.term
    BY <1>10, <2>1, CrashedCalls
  <2>3. votes' \subseteq VoteCall /\ \A u \in votes' : \E v \in votes : u.term = v.term
    BY <2>2
  <2>4. beats' \subseteq Beat
    BY <1>10, BeatTypes DEF Crash, TypeOK
  <2>5. TypeOK'
    <3>1. /\ role' \in [Node -> Role] /\ dialled' \in Node
          /\ term' \in [Node -> Term] /\ newTerm' \in [Node -> Term]
          /\ beatTerm' \in [Node -> Term] /\ votedForTerm' \in [Node -> Term]
          /\ votedForID' \in [Node -> Node] /\ leaderID' \in [Node -> Node]
      BY <1>10, Constants DEF Crash, TypeOK, Role
    <3>2. crashed' \subseteq Node
      BY <1>10 DEF Crash, TypeOK
    <3>3. /\ grants' \subseteq grants
          /\ elections' = elections /\ winners' = winners
      BY <1>10 DEF Crash
    <3> QED
      BY <2>3, <2>4, <3>1, <3>2, <3>3 DEF TypeOK
  <2>6. TermBound'
    BY <1>10, <2>3, Constants DEF Crash, TypeOK, TermBound
  <2> QED
    BY <2>5, <2>6
<1> QED
  BY <1>1, <1>2, <1>3, <1>4, <1>5, <1>6, <1>7, <1>8, <1>9, <1>10 DEF NodeNext

\* The steps of the calls between nodes keep the types.
LEMMA CallTypes ==
  ASSUME TypeInv, CallNext
  PROVE  TypeInv'
<1> USE DEF TypeInv
<1>1. ASSUME NEW v \in votes, NEW s \in {"checked", "voted", "granted", "denied"},
             Answer(v, s)
      PROVE  votes' \subseteq VoteCall /\ \A u \in votes' : u.term <= elections
  <2>1. v \in VoteCall
    BY DEF TypeOK
  <2>2. /\ [v EXCEPT !.stage = s] \in VoteCall
        /\ [v EXCEPT !.stage = s].term = v.term
    BY <2>1 DEF VoteCall
  <2>3. votes \subseteq VoteCall /\ \A u \in votes : u.term <= elections
    BY DEF TypeOK, TermBound
  <2>4. votes' \subseteq votes \cup {[v EXCEPT !.stage = s]}
    BY <1>1 DEF Answer
  <2> QED
    BY <2>2, <2>3, <2>4
<1>2. ASSUME NEW v \in votes, DialFails(v)
      PROVE  TypeInv'
  BY <1>1, <1>2 DEF DialFails, TypeOK, TermBound, stateVars, historyVars
<1>3. ASSUME NEW v \in votes, CheckTerm(v)
      PROVE  TypeInv'
  <2>1. votes' \subseteq VoteCall /\ \A u \in votes' : u.term <= elections
    BY <1>1, <1>3 DEF CheckTerm
  <2> QED
    BY <1>3, <2>1 DEF CheckTerm, TypeOK, TermBound, stateVars, historyVars
<1>4. ASSUME NEW v \in votes, TryVote(v)
      PROVE  TypeInv'
  <2>1. votes' \subseteq VoteCall /\ \A u \in votes' : u.term <= elections
    BY <1>1, <1>4 DEF TryVote
  <2>2. v.term \in Term /\ v.voter \in Node /\ v.cand \in Node
    BY DEF TypeOK, VoteCall
  <2>3. votedForTerm' \in [Node -> Term] /\ votedForID' \in [Node -> Node]
    BY <1>4, <2>2 DEF TryVote, TypeOK
  <2> QED
    BY <1>4, <2>1, <2>3 DEF TryVote, TypeOK, TermBound, historyVars
<1>5. ASSUME NEW v \in votes, GrantVote(v)
      PROVE  TypeInv'
  <2>1. votes' \subseteq VoteCall /\ \A u \in votes' : u.term <= elections
    BY <1>1, <1>5 DEF GrantVote
  <2>2. v.term \in Term /\ v.voter \in Node /\ v.cand \in Node /\ v.term <= elections
    BY DEF TypeOK, VoteCall, TermBound
  <2>3. TypeOK'
    BY <1>5, <2>1, <2>2 DEF GrantVote, TypeOK
  <2>4. TermBound'
    BY <1>5, <2>1, <2>2 DEF GrantVote, TypeOK, TermBound
  <2> QED
    BY <2>3, <2>4
<1>6. ASSUME NEW b \in beats, CheckBeat(b) \/ AcceptBeat(b) \/ BeatRejected(b)
      PROVE  TypeInv'
  <2>1. b.to \in Node /\ b.from \in Node
    BY DEF TypeOK, Beat
  <2>2. beats' \subseteq Beat
    <3>1. beats \in SUBSET Beat
      BY DEF TypeOK
    <3>2. CASE CheckBeat(b)
      BY <2>1, <3>1, <3>2, BeatTypes DEF CheckBeat
    <3>3. CASE AcceptBeat(b)
      BY <3>1, <3>3 DEF AcceptBeat
    <3>4. CASE BeatRejected(b)
      <4>1. Orphaned(beats \ {b}, b.from) \subseteq Beat
        BY <2>1, <3>1, BeatTypes
      <4> QED
        BY <3>1, <3>4, <4>1 DEF BeatRejected
    <3> QED
      BY <1>6, <3>2, <3>3, <3>4
  <2>3. CASE CheckBeat(b)
    BY <2>2, <2>3 DEF CheckBeat, TypeOK, TermBound, stateVars, historyVars
  <2>4. CASE AcceptBeat(b)
    BY <2>1, <2>2, <2>4 DEF AcceptBeat, TypeOK, TermBound, historyVars
  <2>5. CASE BeatRejected(b)
    BY <2>1, <2>2, <2>5
    DEF BeatRejected, TypeOK, TermBound, Role, stateVars, historyVars
  <2> QED
    BY <1>6, <2>3, <2>4, <2>5
<1> QED
  BY <1>2, <1>3, <1>4, <1>5, <1>6 DEF CallNext

\* Every step keeps the types.
LEMMA TypeStep == TypeInv /\ [Next]_vars => TypeInv'
<1> SUFFICES ASSUME TypeInv, [Next]_vars PROVE TypeInv'
  OBVIOUS
<1>1. CASE UNCHANGED vars
  BY <1>1
  DEF vars, TypeInv, TypeOK, TermBound, stateVars, callVars, historyVars
<1>2. CASE DialPeer
  <2>1. dialled' \in Node
    <3>1. N \in Nat /\ dialled \in 0 .. N - 1
      BY ElectionAssumption DEF TypeInv, TypeOK, Node
    <3>2. dialled < N - 1 /\ dialled' = dialled + 1
      BY <1>2 DEF DialPeer
    <3> QED
      BY <3>1, <3>2, SMT DEF Node
  <2> QED
    BY <1>2, <2>1
    DEF DialPeer, TypeInv, TypeOK, TermBound, stateVars, callVars, historyVars
<1> QED
  BY <1>1, <1>2, NodeTypes, CallTypes DEF Next

(***************************************************************************)
(* Terms, votes and calls of the election are well typed in every state,   *)
(* and no term outgrows the number of elections held.                      *)
(***************************************************************************)
THEOREM ElectionTypes == Spec => []TypeOK
<1>1. Init => TypeInv
  BY InitInv
<1>2. TypeInv => TypeOK
  BY DEF TypeInv
<1> QED
  BY <1>1, <1>2, TypeStep, PTL DEF Spec

-----------------------------------------------------------------------------
(* Heartbeats.                                                             *)

\* Every step keeps the heartbeats under way those of live senders.
LEMMA BeatStep == TypeInv /\ LiveBeats /\ [Next]_vars => LiveBeats'
<1> SUFFICES ASSUME TypeInv, LiveBeats, [Next]_vars PROVE LiveBeats'
  OBVIOUS
<1>1. /\ role \in [Node -> Role]
      /\ \A b \in beats : b \in Beat /\ b.from \in Node
  BY DEF TypeInv, TypeOK, Beat
<1>2. ASSUME NEW n \in Node, role' = [role EXCEPT ![n] = role'[n]],
             role[n] # "leader", UNCHANGED beats
      PROVE  LiveBeats'
  BY <1>1, <1>2 DEF LiveBeats
<1>3. ASSUME NEW n \in Node, NEW r, NEW B \in SUBSET beats,
             role' = [role EXCEPT ![n] = r], beats' = Orphaned(B, n)
      PROVE  LiveBeats'
  <2> SUFFICES ASSUME NEW c \in beats', c.live PROVE role'[c.from] = "leader"
    BY DEF LiveBeats
  <2>1. PICK b \in B : c = IF b.from = n THEN [b EXCEPT !.live = FALSE] ELSE b
    BY <1>3 DEF Orphaned
  <2>2. b.from # n
    BY <1>1, <2>1 DEF Beat
  <2> QED
    BY <1>1, <1>3, <2>1, <2>2 DEF LiveBeats
<1>4. CASE UNCHANGED <<role, beats>>
  BY <1>4 DEF LiveBeats
<1>5. ASSUME NEW n \in Node, NodeNext(n)
      PROVE  LiveBeats'
  <2>1. CASE MonitorTimeout(n)
    BY <1>1, <1>2, <2>1 DEF MonitorTimeout, callVars
  <2>2. CASE RaiseTerm(n)
    BY <1>1, <1>2, <2>2 DEF RaiseTerm, callVars
  <2>3. CASE VoteForSelf(n) \/ Win(n) \/ Lose(n)
    BY <1>1, <1>2, <2>3 DEF VoteForSelf, Win, Lose
  <2>4. CASE StartFixedLeader(n) \/ StartHeartbeat(n) \/ Start(n)
    BY <1>1, <1>2, <2>4 DEF StartFixedLeader, StartHeartbeat, Start, callVars
  <2>5. ASSUME NEW p \in Node, SendHeartbeat(n, p)
        PROVE  LiveBeats'
    BY <2>5 DEF SendHeartbeat, LiveBeats
  <2>6. CASE Crash(n)
    BY <1>3, <2>6 DEF Crash
  <2> QED
    BY <1>5, <2>1, <2>2, <2>3, <2>4, <2>5, <2>6 DEF NodeNext
<1>6. ASSUME NEW b \in beats, CheckBeat(b)
      PROVE  LiveBeats'
  <2>1. PICK s \in {"rejected", "passed"} :
          beats' = (beats \ {b}) \cup {[b EXCEPT !.stage = s]}
    BY <1>6 DEF CheckBeat
  <2>2. [b EXCEPT !.stage = s].live = b.live /\ [b EXCEPT !.stage = s].from = b.from
    BY <1>1 DEF Beat
  <2>3. role' = role
    BY <1>6 DEF CheckBeat
  <2> DEFINE c == [b EXCEPT !.stage = s]
  <2> HIDE DEF c
  <2>4. c.live = b.live /\ c.from = b.from /\ beats' = (beats \ {b}) \cup {c}
    BY <2>1, <2>2 DEF c
  <2> QED
    BY <2>3, <2>4 DEF LiveBeats
<1>7. ASSUME NEW b \in beats, AcceptBeat(b)
      PROVE  LiveBeats'
  BY <1>7 DEF AcceptBeat, LiveBeats
<1>8. ASSUME NEW b \in beats, BeatRejected(b)
      PROVE  LiveBeats'
  <2>1. CASE b.live
    BY <1>1, <1>3, <1>8, <2>1 DEF BeatRejected
  <2>2. CASE ~b.live
    BY <1>8, <2>2 DEF BeatRejected, LiveBeats
  <2> QED
    BY <2>1, <2>2
<1>9. ASSUME NEW v \in votes, DialFails(v) \/ CheckTerm(v) \/ TryVote(v) \/ GrantVote(v)
      PROVE  LiveBeats'
  BY <1>4, <1>9 DEF DialFails, CheckTerm, TryVote, GrantVote
<1>10. CASE DialPeer \/ UNCHANGED vars
  BY <1>4, <1>10 DEF DialPeer, vars, callVars
<1> QED
  BY <1>5, <1>6, <1>7, <1>8, <1>9, <1>10 DEF Next, CallNext

-----------------------------------------------------------------------------
(* Votes and terms.                                                        *)

\* Votes stay unique as long as none is added and none is forgotten by the
\* voter's state alone.
LEMMA NoNewVote ==
  ASSUME CastOnce,
         \A u \in Casting' : \E v \in Casting :
           /\ u.cand = v.cand /\ u.voter = v.voter /\ u.term = v.term
           /\ v.term <= votedForTerm'[v.voter],
         \A g \in grants' : g \in grants /\ g.term <= votedForTerm'[g.voter]
  PROVE  CastOnce'
BY DEF CastOnce, VoteOncePerTerm

\* The steps of a node's own goroutines keep the votes unique and every term
\* covered by a vote.
LEMMA NodeVotes ==
  ASSUME TypeInv, VoteInv, NEW n \in Node, NodeNext(n)
  PROVE  VoteInv'
<1> USE DEF VoteInv
<1>1. \A m \in Node : /\ term[m] \in Nat /\ newTerm[m] \in Nat
                     /\ votedForTerm[m] \in Nat
  BY ElectionAssumption DEF TypeInv, TypeOK, Term
<1>2. votes \subseteq VoteCall /\ role \in [Node -> Role]
  BY DEF TypeInv, TypeOK
<1>3. \A v \in votes : v.voter \in Node
  BY <1>2 DEF VoteCall
<1>4. ASSUME \A u \in Casting' : u \in Casting,
             UNCHANGED <<grants, votedForTerm>>
      PROVE  CastOnce'
  BY <1>4, NoNewVote DEF CastOnce
<1>5. CASE MonitorTimeout(n)
  <2>1. CastOnce'
    BY <1>4, <1>5 DEF MonitorTimeout, Casting, stateVars, callVars
  <2>2. TermCovered'
    BY <1>1, <1>2, <1>5 DEF MonitorTimeout, TermCovered, TermHasVote, stateVars,
      TypeInv, TypeOK
  <2> QED
    BY <2>1, <2>2
<1>6. CASE RaiseTerm(n)
  <2>1. CastOnce'
    BY <1>4, <1>6 DEF RaiseTerm, Casting, callVars, historyVars
  <2>2. TermCovered'
    BY <1>1, <1>2, <1>6 DEF RaiseTerm, TermCovered, TermHasVote, TypeInv, TypeOK
  <2> QED
    BY <2>1, <2>2
<1>7. CASE VoteForSelf(n)
  <2>1. \A m \in Node : votedForTerm'[m] \in Nat /\ votedForTerm'[m] >= votedForTerm[m]
    BY <1>1, <1>7 DEF VoteForSelf, FirstVote, TypeInv, TypeOK
  <2>2. votedForTerm'[n] >= newTerm[n]
    BY <1>1, <1>7 DEF VoteForSelf, FirstVote, TypeInv, TypeOK
  <2>3. Casting' = Casting
    BY <1>7 DEF VoteForSelf, Casting
  <2>4. grants' = grants
    BY <1>7 DEF VoteForSelf, historyVars
  <2>5. \A v \in Casting : v.term <= votedForTerm'[v.voter]
    <3>1. \A v \in Casting : v.voter \in Node /\ v.term \in Nat
      BY <1>2, ElectionAssumption DEF Casting, VoteCall, Term
    <3> QED
      BY <1>1, <2>1, <3>1 DEF CastOnce
  <2>6. \A g \in grants : g.term <= votedForTerm'[g.voter]
    <3>1. \A g \in grants : g.voter \in Node /\ g.term \in Nat
      BY ElectionAssumption DEF TypeInv, TypeOK, Term
    <3> QED
      BY <1>1, <2>1, <3>1 DEF CastOnce
  <2>7. CastOnce'
    BY <2>3, <2>4, <2>5, <2>6, NoNewVote
  <2>8. TermCovered'
    <3>1. /\ term' = term /\ newTerm' = newTerm
          /\ role[n] = "self" /\ role' = [role EXCEPT ![n] = "ask"]
      BY <1>7 DEF VoteForSelf
    <3> QED
      BY <1>1, <1>2, <2>1, <2>2, <3>1 DEF TermCovered, TermHasVote
  <2> QED
    BY <2>7, <2>8
<1>8. CASE Win(n)
  <2>1. CastOnce'
    BY <1>4, <1>8 DEF Win, Casting
  <2>2. TermCovered'
    BY <1>2, <1>8 DEF Win, TermCovered, TermHasVote
  <2> QED
    BY <2>1, <2>2
<1>9. CASE Lose(n)
  <2>1. CastOnce'
    BY <1>4, <1>9 DEF Lose, Casting, stateVars, historyVars
  <2>2. TermCovered'
    BY <1>2, <1>9 DEF Lose, TermCovered, TermHasVote, stateVars
  <2> QED
    BY <2>1, <2>2
<1>10. CASE StartFixedLeader(n) \/ StartHeartbeat(n) \/ Start(n)
  <2>1. CastOnce'
    BY <1>4, <1>10
    DEF StartFixedLeader, StartHeartbeat, Start, Casting, stateVars, callVars,
        historyVars
  <2>2. TermCovered'
    BY <1>2, <1>10, Constants
    DEF StartFixedLeader, StartHeartbeat, Start, TermCovered, TermHasVote,
        stateVars
  <2> QED
    BY <2>1, <2>2
<1>11. ASSUME NEW p \in Node, SendHeartbeat(n, p)
       PROVE  VoteInv'
  <2>1. CastOnce'
    BY <1>4, <1>11 DEF SendHeartbeat, Casting, stateVars, historyVars
  <2>2. TermCovered'
    BY <1>11 DEF SendHeartbeat, TermCovered, TermHasVote, stateVars
  <2> QED
    BY <2>1, <2>2
<1>12. CASE Crash(n)
  <2>1. \A m \in Node \ {n} : votedForTerm'[m] = votedForTerm[m]
    BY <1>12 DEF Crash, TypeInv, TypeOK
  <2>2. \A u \in Casting' : \E v \in Casting :
          /\ u.cand = v.cand /\ u.voter = v.voter /\ u.term = v.term
          /\ v.term <= votedForTerm'[v.voter]
    <3> SUFFICES ASSUME NEW u \in Casting'
                 PROVE  \E v \in Casting :
                          /\ u.cand = v.cand /\ u.voter = v.voter
                          /\ u.term = v.term
                          /\ v.term <= votedForTerm'[v.voter]
      OBVIOUS
    <3>1. u \in votes' /\ u.stage = "voted"
      BY DEF Casting
    <3>2. PICK v \in votes :
            /\ u.cand = v.cand /\ u.voter = v.voter /\ u.term = v.term
            /\ \/ u.stage = "denied"
               \/ u.stage = v.stage /\ (v.voter = n => v.stage # "voted")
      BY <1>2, <1>12, <3>1, CrashedCalls
    <3>3. v \in Casting /\ v.voter # n
      BY <3>1, <3>2 DEF Casting
    <3> QED
      BY <1>3, <2>1, <3>2, <3>3 DEF CastOnce
  <2>3. \A g \in grants' : g \in grants /\ g.voter \in Node \ {n}
    BY <1>12 DEF Crash, TypeInv, TypeOK
  <2>4. \A g \in grants' : g \in grants /\ g.term <= votedForTerm'[g.voter]
    BY <2>1, <2>3 DEF CastOnce
  <2>5. CastOnce'
    BY <2>2, <2>4, NoNewVote
  <2>6. /\ term' = [term EXCEPT ![n] = 0]
        /\ votedForTerm' = [votedForTerm EXCEPT ![n] = 0]
        /\ newTerm' = [newTerm EXCEPT ![n] = 0]
        /\ role' = [role EXCEPT ![n] = "down"]
    BY <1>12 DEF Crash
  <2>7. TermCovered'
    BY <1>1, <1>2, <2>6 DEF TermCovered, TermHasVote, TypeInv, TypeOK
  <2> QED
    BY <2>5, <2>7
<1> QED
  BY <1>5, <1>6, <1>7, <1>8, <1>9, <1>10, <1>11, <1>12 DEF NodeNext

\* The steps of the calls between nodes keep the votes unique and every term
\* covered by a vote (granting a vote is what adds one).
LEMMA CallVotes ==
  ASSUME TypeInv, LiveBeats, VoteInv, CallNext
  PROVE  VoteInv'
<1> USE DEF VoteInv
<1>1. \A m \in Node : /\ term[m] \in Nat /\ newTerm[m] \in Nat
                     /\ votedForTerm[m] \in Nat
  BY ElectionAssumption DEF TypeInv, TypeOK, Term
<1>2. \A v \in votes : v \in VoteCall
  BY DEF TypeInv, TypeOK
<1>3. \A v \in votes : /\ v.voter \in Node /\ v.term \in Nat
                      /\ \A s : /\ [v EXCEPT !.stage = s].stage = s
                               /\ [v EXCEPT !.stage = s].voter = v.voter
                               /\ [v EXCEPT !.stage = s].term = v.term
                               /\ [v EXCEPT !.stage = s].cand = v.cand
  BY <1>2, ElectionAssumption DEF VoteCall, Term
<1>4. \A g \in grants : g.voter \in Node /\ g.term \in Nat
  BY ElectionAssumption DEF TypeInv, TypeOK, Term
<1>5. ASSUME \A u \in Casting' : u \in Casting,
             UNCHANGED <<grants, votedForTerm>>
      PROVE  CastOnce'
  BY <1>5, NoNewVote DEF CastOnce
<1>6. ASSUME NEW v \in votes, DialFails(v) \/ CheckTerm(v)
      PROVE  VoteInv'
  <2>1. Answer(v, "denied") \/ Answer(v, "checked")
    BY <1>6 DEF DialFails, CheckTerm
  <2>2. UNCHANGED <<grants, votedForTerm, role, term, newTerm>>
    BY <1>6 DEF DialFails, CheckTerm, stateVars, historyVars
  <2>3. \A u \in Casting' : u \in Casting
    <3>1. /\ [v EXCEPT !.stage = "denied"].stage = "denied"
          /\ [v EXCEPT !.stage = "checked"].stage = "checked"
      BY <1>3
    <3> QED
      BY <2>1, <3>1 DEF Answer, Casting
  <2>4. CastOnce'
    BY <1>5, <2>2, <2>3
  <2>5. TermCovered'
    BY <2>2 DEF TermCovered, TermHasVote
  <2> QED
    BY <2>4, <2>5
<1>7. ASSUME NEW v \in votes, TryVote(v), ~FirstVote(v.voter, v.term)
      PROVE  VoteInv'
  <2>1. Answer(v, "denied")
    BY <1>7 DEF TryVote
  <2>2. UNCHANGED <<grants, votedForTerm, role, term, newTerm>>
    BY <1>7 DEF TryVote, historyVars
  <2>3. \A u \in Casting' : u \in Casting
    BY <1>3, <2>1, ZenonT(40) DEF Answer, Casting
  <2>4. CastOnce'
    BY <1>5, <2>2, <2>3
  <2>5. TermCovered'
    BY <2>2 DEF TermCovered, TermHasVote
  <2> QED
    BY <2>4, <2>5
<1>8. ASSUME NEW v \in votes, TryVote(v), FirstVote(v.voter, v.term)
      PROVE  VoteInv'
  <2> DEFINE new == [v EXCEPT !.stage = "voted"]
  <2>1. new.voter = v.voter /\ new.term = v.term /\ new.cand = v.cand
    BY <1>3
  <2>2. UNCHANGED <<grants, role, term, newTerm>>
    BY <1>8 DEF TryVote, historyVars
  <2>3. votedForTerm' = [votedForTerm EXCEPT ![v.voter] = v.term]
    BY <1>8 DEF TryVote
  <2>4. votedForTerm[v.voter] < v.term
    BY <1>1, <1>3, <1>8 DEF FirstVote
  <2>5. \A u \in Casting' : u = new \/ u \in Casting
    BY <1>8 DEF TryVote, Answer, Casting
  <2> HIDE DEF new
  <2>6. \A m \in Node : votedForTerm'[m] \in Nat /\ votedForTerm'[m] >= votedForTerm[m]
    BY <1>1, <1>3, <2>3, <2>4 DEF TypeInv, TypeOK
  <2>7. votedForTerm'[v.voter] = v.term
    BY <1>3, <2>3 DEF TypeInv, TypeOK
  <2>8. \A u \in Casting : u.voter \in Node /\ u.term \in Nat
    BY <1>3 DEF Casting
  <2>9. /\ \A u \in Casting : u.voter = v.voter => u.term < v.term
        /\ \A g \in grants : g.voter = v.voter => g.term < v.term
    BY <1>1, <1>3, <1>4, <2>4, <2>8 DEF CastOnce
  <2>10. \A u \in Casting' : u.term <= votedForTerm'[u.voter]
    BY <1>1, <1>3, <2>1, <2>5, <2>6, <2>7, <2>8 DEF CastOnce
  <2>11. \A g \in grants' : g.term <= votedForTerm'[g.voter]
    BY <1>1, <1>4, <2>2, <2>6 DEF CastOnce
  <2>12. \A u, w \in Casting' :
           u.voter = w.voter /\ u.term = w.term => u.cand = w.cand
    BY <1>3, <2>1, <2>5, <2>8, <2>9 DEF CastOnce
  <2>13. \A u \in Casting', g \in grants' :
           u.voter = g.voter /\ u.term = g.term => u.cand = g.cand
    BY <1>3, <1>4, <2>1, <2>2, <2>5, <2>8, <2>9 DEF CastOnce
  <2>14. VoteOncePerTerm'
    BY <2>2 DEF CastOnce, VoteOncePerTerm
  <2>15. CastOnce'
    BY <2>10, <2>11, <2>12, <2>13, <2>14 DEF CastOnce
  <2>16. TermCovered'
    BY <1>1, <2>2, <2>6 DEF TermCovered, TermHasVote
  <2> QED
    BY <2>15, <2>16
<1>9. ASSUME NEW v \in votes, GrantVote(v)
      PROVE  VoteInv'
  <2> DEFINE g0 == [voter |-> v.voter, cand |-> v.cand, term |-> v.term]
  <2>1. v \in Casting
    BY <1>9 DEF GrantVote, Casting
  <2>2. /\ UNCHANGED <<role, newTerm, votedForTerm>>
        /\ term' = [term EXCEPT ![v.voter] = v.term]
        /\ grants' = grants \cup {g0}
        /\ Answer(v, "granted")
    BY <1>9 DEF GrantVote
  <2>3. \A u \in Casting' : u \in Casting
    BY <1>3, <2>2, ZenonT(40) DEF Answer, Casting
  <2>4. g0.voter = v.voter /\ g0.cand = v.cand /\ g0.term = v.term
    OBVIOUS
  <2> HIDE DEF g0
  <2>5. VoteOncePerTerm'
    BY <2>1, <2>2, <2>4 DEF CastOnce, VoteOncePerTerm
  <2>6. CastOnce'
    BY <2>1, <2>2, <2>3, <2>4, <2>5 DEF CastOnce
  <2>7. v.term <= votedForTerm[v.voter] /\ v.voter \in Node
    BY <1>3, <2>1 DEF CastOnce
  <2>8. TermCovered'
    BY <1>1, <2>2, <2>7 DEF TermCovered, TermHasVote, TypeInv, TypeOK
  <2> QED
    BY <2>6, <2>8
<1>10. ASSUME NEW b \in beats, CheckBeat(b) \/ AcceptBeat(b) \/ BeatRejected(b)
       PROVE  VoteInv'
  <2>1. UNCHANGED <<votes, grants, votedForTerm, term, newTerm>>
    BY <1>10 DEF CheckBeat, AcceptBeat, BeatRejected, stateVars, historyVars
  <2>2. CastOnce'
    BY <1>5, <2>1 DEF Casting
  <2>3. \A m \in Node : role'[m] = "self" <=> role[m] = "self"
    BY <1>10 DEF CheckBeat, AcceptBeat, BeatRejected, TypeInv, TypeOK, LiveBeats
  <2>4. TermCovered'
    BY <2>1, <2>3 DEF TermCovered, TermHasVote
  <2> QED
    BY <2>2, <2>4
<1> QED
  BY <1>6, <1>7, <1>8, <1>9, <1>10 DEF CallNext

\* Every step keeps the invariant on votes and terms.
LEMMA VoteInvStep == TypeInv /\ LiveBeats /\ VoteInv /\ [Next]_vars => VoteInv'
<1> SUFFICES ASSUME TypeInv, LiveBeats, VoteInv, [Next]_vars PROVE VoteInv'
  OBVIOUS
<1>1. CASE DialPeer \/ UNCHANGED vars
  BY <1>1
  DEF DialPeer, vars, VoteInv, CastOnce, TermCovered, Casting, VoteOncePerTerm,
      TermHasVote, stateVars, callVars, historyVars
<1> QED
  BY <1>1, NodeVotes, CallVotes DEF Next

\* The inductive invariant holds in every reachable state.
LEMMA VotesHold == Spec => [](TypeInv /\ LiveBeats /\ VoteInv)
<1>1. Init => TypeInv /\ LiveBeats /\ VoteInv
  BY InitInv DEF Init, LiveBeats
<1> QED
  BY <1>1, TypeStep, BeatStep, VoteInvStep, PTL DEF Spec

(***************************************************************************)
(* TryVote keeps its promise for every number of nodes, and whatever       *)
(* crashes: one process grants its vote in a term to one candidate.        *)
(***************************************************************************)
THEOREM OneVotePerTerm == Spec => []VoteOncePerTerm
<1>1. VoteInv => VoteOncePerTerm
  BY DEF VoteInv, CastOnce
<1> QED
  BY <1>1, VotesHold, PTL

(***************************************************************************)
(* SetTerm never overtakes TryVote: a node's term is one it has voted in,  *)
(* but for a candidate between the two.                                    *)
(***************************************************************************)
THEOREM NoTermWithoutVote == Spec => []TermHasVote
<1>1. VoteInv => TermHasVote
  BY DEF VoteInv, TermCovered
<1> QED
  BY <1>1, VotesHold, PTL

-----------------------------------------------------------------------------
(* Why a leader falls.                                                     *)

(***************************************************************************)
(* A rejection under way has a cause: a vote in a higher term, a candidate *)
(* about to cast one, or a node that has lost its memory; and a live beat  *)
(* carries the term its sender beats in.                                   *)
(***************************************************************************)
HigherVote(t) ==
  \E p \in Node : \/ votedForTerm[p] > t
                  \/ p \in crashed
                  \/ role[p] = "self" /\ newTerm[p] > t

BeatInv ==
  \A b \in beats : /\ b.stage = "rejected" => HigherVote(b.term)
                   /\ b.live => b.term = beatTerm[b.from]

\* A cause stays one, whatever else happens.
LEMMA HigherVoteStays ==
  ASSUME TypeInv, LiveBeats, [Next]_vars, NEW t \in Nat, HigherVote(t)
  PROVE  HigherVote(t)'
<1>1. PICK p \in Node : \/ votedForTerm[p] > t
                        \/ p \in crashed
                        \/ role[p] = "self" /\ newTerm[p] > t
  BY DEF HigherVote
<1>2. /\ votedForTerm \in [Node -> Term] /\ newTerm \in [Node -> Term]
      /\ role \in [Node -> Role] /\ Term \subseteq Nat
      /\ \A b \in beats : b.from \in Node
      /\ \A v \in votes : v.voter \in Node /\ v.term \in Nat
  BY ElectionAssumption DEF TypeInv, TypeOK, Term, Beat, VoteCall
<1> USE DEF HigherVote
<1>3. ASSUME UNCHANGED <<votedForTerm, crashed, newTerm>>,
             \A m \in Node : role[m] = "self" => role'[m] = "self"
      PROVE  HigherVote(t)'
  BY <1>1, <1>3
<1>4. ASSUME NEW n \in Node, NodeNext(n)
      PROVE  HigherVote(t)'
  <2>1. CASE MonitorTimeout(n)
    BY <1>1, <1>2, <2>1 DEF MonitorTimeout, stateVars
  <2>2. CASE RaiseTerm(n)
    BY <1>2, <1>3, <2>2 DEF RaiseTerm, historyVars
  <2>3. CASE VoteForSelf(n)
    <3>1. /\ UNCHANGED <<crashed, newTerm>>
          /\ role' = [role EXCEPT ![n] = "ask"]
          /\ votedForTerm' = IF newTerm[n] > votedForTerm[n]
                             THEN [votedForTerm EXCEPT ![n] = newTerm[n]]
                             ELSE votedForTerm
      BY <2>3 DEF VoteForSelf, FirstVote, historyVars
    <3>2. /\ votedForTerm[p] \in Nat /\ votedForTerm'[p] \in Nat
          /\ newTerm[p] \in Nat
      BY <1>2, <3>1
    <3>3. CASE p = n
      <4>1. votedForTerm'[p] >= votedForTerm[p] /\ votedForTerm'[p] >= newTerm[p]
        BY <1>2, <3>1, <3>2, <3>3
      <4> QED
        BY <1>1, <3>1, <3>2, <4>1
    <3>4. CASE p # n
      <4>1. votedForTerm'[p] = votedForTerm[p] /\ role'[p] = role[p]
        BY <1>2, <3>1, <3>4
      <4> QED
        BY <1>1, <3>1, <4>1
    <3> QED
      BY <3>3, <3>4
  <2>4. CASE Win(n) \/ Lose(n)
    BY <1>2, <1>3, <2>4 DEF Win, Lose, stateVars, historyVars
  <2>5. CASE StartFixedLeader(n) \/ StartHeartbeat(n) \/ Start(n)
    BY <1>2, <1>3, <2>5
    DEF StartFixedLeader, StartHeartbeat, Start, stateVars, historyVars
  <2>6. ASSUME NEW p2 \in Node, SendHeartbeat(n, p2)
        PROVE  HigherVote(t)'
    BY <1>3, <2>6 DEF SendHeartbeat, stateVars, historyVars
  <2>7. CASE Crash(n)
    BY <2>7 DEF Crash
  <2> QED
    BY <1>4, <2>1, <2>2, <2>3, <2>4, <2>5, <2>6, <2>7 DEF NodeNext
<1>5. ASSUME NEW v \in votes, DialFails(v) \/ CheckTerm(v) \/ GrantVote(v)
      PROVE  HigherVote(t)'
  BY <1>3, <1>5 DEF DialFails, CheckTerm, GrantVote, stateVars, historyVars
<1>6. ASSUME NEW v \in votes, TryVote(v)
      PROVE  HigherVote(t)'
  <2>1. /\ UNCHANGED <<crashed, newTerm, role>>
        /\ \/ votedForTerm' = votedForTerm
           \/ /\ v.term > votedForTerm[v.voter]
              /\ votedForTerm' = [votedForTerm EXCEPT ![v.voter] = v.term]
    BY <1>6 DEF TryVote, FirstVote, historyVars
  <2>2. v.term \in Nat /\ votedForTerm[p] \in Nat /\ votedForTerm'[p] \in Nat
    BY <1>2, <2>1
  <2>3. CASE p = v.voter
    <3>1. votedForTerm'[p] >= votedForTerm[p]
      BY <1>2, <2>1, <2>2, <2>3
    <3> QED
      BY <1>1, <2>1, <2>2, <3>1
  <2>4. CASE p # v.voter
    <3>1. votedForTerm'[p] = votedForTerm[p]
      BY <1>2, <2>1, <2>4
    <3> QED
      BY <1>1, <2>1, <3>1
  <2> QED
    BY <2>3, <2>4
<1>7. ASSUME NEW b \in beats, CheckBeat(b) \/ AcceptBeat(b) \/ BeatRejected(b)
      PROVE  HigherVote(t)'
  <2>1. UNCHANGED <<votedForTerm, crashed, newTerm>>
    BY <1>7 DEF CheckBeat, AcceptBeat, BeatRejected, stateVars, historyVars
  <2>2. \A m \in Node : role[m] = "self" => role'[m] = "self"
    BY <1>2, <1>7 DEF CheckBeat, AcceptBeat, BeatRejected, LiveBeats
  <2> QED
    BY <1>3, <2>1, <2>2
<1>8. CASE DialPeer \/ UNCHANGED vars
  BY <1>3, <1>8 DEF DialPeer, vars, stateVars, historyVars
<1> QED
  BY <1>4, <1>5, <1>6, <1>7, <1>8 DEF Next, CallNext

\* Every step keeps the causes of the rejections under way.
LEMMA BeatInvStep ==
  ASSUME TypeInv, LiveBeats, VoteInv, BeatInv, [Next]_vars
  PROVE  BeatInv'
<1>1. /\ beatTerm \in [Node -> Term] /\ role \in [Node -> Role]
      /\ \A b \in beats : b \in Beat /\ b.term \in Nat
  BY ElectionAssumption DEF TypeInv, TypeOK, Beat, Term
<1>2. \A b \in beats : HigherVote(b.term) => HigherVote(b.term)'
  BY <1>1, HigherVoteStays
<1>3. ASSUME \A c \in beats' : \E b \in beats :
               /\ c.term = b.term /\ c.from = b.from
               /\ c.stage = "rejected" => b.stage = "rejected"
               /\ c.live => b.live /\ beatTerm'[b.from] = beatTerm[b.from]
      PROVE  BeatInv'
  <2> SUFFICES ASSUME NEW c \in beats'
               PROVE  /\ c.stage = "rejected" => HigherVote(c.term)'
                      /\ c.live => c.term = beatTerm'[c.from]
    BY DEF BeatInv
  <2> QED
    BY <1>2, <1>3 DEF BeatInv
<1>4. ASSUME UNCHANGED beats,
             \A b \in beats : b.live => beatTerm'[b.from] = beatTerm[b.from]
      PROVE  BeatInv'
  BY <1>3, <1>4
<1>5. ASSUME NEW n \in Node, NEW B \in SUBSET beats, beats' = Orphaned(B, n),
             \A m \in Node \ {n} : beatTerm'[m] = beatTerm[m]
      PROVE  BeatInv'
  <2>1. ASSUME NEW c \in beats'
        PROVE  \E b \in beats :
                 /\ c.term = b.term /\ c.from = b.from
                 /\ c.stage = "rejected" => b.stage = "rejected"
                 /\ c.live => b.live /\ beatTerm'[b.from] = beatTerm[b.from]
    <3>1. PICK b \in B : c = IF b.from = n THEN [b EXCEPT !.live = FALSE] ELSE b
      BY <1>5, <2>1 DEF Orphaned
    <3> QED
      BY <1>1, <1>5, <3>1 DEF Beat
  <2> QED
    BY <1>3, <2>1
<1>6. ASSUME NEW n \in Node, NodeNext(n)
      PROVE  BeatInv'
  <2>1. CASE MonitorTimeout(n) \/ RaiseTerm(n) \/ VoteForSelf(n) \/ Win(n) \/ Lose(n)
             \/ Start(n)
    BY <1>4, <2>1
    DEF MonitorTimeout, RaiseTerm, VoteForSelf, Win, Lose, Start, callVars
  <2>2. CASE StartFixedLeader(n) \/ StartHeartbeat(n)
    <3>1. \A b \in beats : b.live => b.from # n
      BY <2>2 DEF LiveBeats, StartFixedLeader, StartHeartbeat
    <3>2. UNCHANGED beats /\ \A m \in Node \ {n} : beatTerm'[m] = beatTerm[m]
      BY <1>1, <2>2 DEF StartFixedLeader, StartHeartbeat, callVars
    <3> QED
      BY <1>1, <1>4, <3>1, <3>2 DEF Beat
  <2>3. ASSUME NEW p \in Node, SendHeartbeat(n, p)
        PROVE  BeatInv'
    <3> DEFINE new == [from |-> n, term |-> beatTerm[n], to |-> p,
                       live |-> TRUE, stage |-> "sent"]
    <3>1. new.stage = "sent" /\ new.term = beatTerm[n] /\ new.from = n
      OBVIOUS
    <3>2. beats' = beats \cup {new} /\ UNCHANGED beatTerm
      BY <2>3 DEF SendHeartbeat
    <3> HIDE DEF new
    <3> QED
      BY <1>2, <3>1, <3>2 DEF BeatInv
  <2>4. CASE Crash(n)
    <3>1. \E B \in SUBSET beats : beats' = Orphaned(B, n)
      BY <2>4 DEF Crash
    <3>2. \A m \in Node \ {n} : beatTerm'[m] = beatTerm[m]
      BY <1>1, <2>4 DEF Crash
    <3> QED
      BY <1>5, <3>1, <3>2
  <2> QED
    BY <1>6, <2>1, <2>2, <2>3, <2>4 DEF NodeNext
<1>7. ASSUME NEW v \in votes, DialFails(v) \/ CheckTerm(v) \/ TryVote(v) \/ GrantVote(v)
      PROVE  BeatInv'
  BY <1>4, <1>7 DEF DialFails, CheckTerm, TryVote, GrantVote
<1>8. ASSUME NEW b \in beats, CheckBeat(b)
      PROVE  BeatInv'
  <2>1. PICK s \in {"rejected", "passed"} :
          /\ beats' = (beats \ {b}) \cup {[b EXCEPT !.stage = s]}
          /\ s = "rejected" => b.term < term[b.to]
    BY <1>8 DEF CheckBeat, OldTerm
  <2> DEFINE c == [b EXCEPT !.stage = s]
  <2>2. /\ c.live = b.live /\ c.from = b.from /\ c.term = b.term /\ c.stage = s
        /\ b.to \in Node
    BY <1>1 DEF Beat
  <2> HIDE DEF c
  <2>3. beats' = (beats \ {b}) \cup {c} /\ UNCHANGED beatTerm
    BY <1>8, <2>1 DEF CheckBeat, c
  <2>4. s = "rejected" => HigherVote(b.term)
    <3>1. /\ term[b.to] \in Nat /\ votedForTerm[b.to] \in Nat
          /\ newTerm[b.to] \in Nat /\ b.term \in Nat
      BY <1>1, <2>2, ElectionAssumption DEF TypeInv, TypeOK, Term
    <3> QED
      BY <2>1, <2>2, <3>1 DEF HigherVote, VoteInv, TermCovered, TermHasVote
  <2> QED
    BY <1>2, <2>2, <2>3, <2>4 DEF BeatInv
<1>9. ASSUME NEW b \in beats, AcceptBeat(b)
      PROVE  BeatInv'
  BY <1>3, <1>9 DEF AcceptBeat
<1>10. ASSUME NEW b \in beats, BeatRejected(b)
       PROVE  BeatInv'
  <2>1. UNCHANGED beatTerm /\ b.from \in Node
    BY <1>1, <1>10 DEF BeatRejected, Beat
  <2>2. CASE b.live
    BY <1>5, <1>10, <2>1, <2>2 DEF BeatRejected
  <2>3. CASE ~b.live
    BY <1>3, <1>10, <2>1, <2>3 DEF BeatRejected
  <2> QED
    BY <2>2, <2>3
<1>11. CASE DialPeer \/ UNCHANGED vars
  BY <1>4, <1>11 DEF DialPeer, vars, callVars
<1> QED
  BY <1>6, <1>7, <1>8, <1>9, <1>10, <1>11 DEF Next, CallNext

\* A step that takes a leader back to the monitor answers a live rejection.
LEMMA DeposedStep ==
  ASSUME TypeInv, LiveBeats, BeatInv, [Next]_vars,
         NEW n \in Node, role[n] = "leader", role'[n] = "follower"
  PROVE  HigherVote(beatTerm[n])
<1>1. role \in [Node -> Role]
  BY DEF TypeInv, TypeOK
<1>2. ASSUME NEW m \in Node, NodeNext(m)
      PROVE  FALSE
  <2>1. CASE m = n
    BY <1>1, <1>2, <2>1 DEF NodeNext, MonitorTimeout, RaiseTerm, VoteForSelf, Win, Lose,
      StartFixedLeader, StartHeartbeat, SendHeartbeat, Start, Crash
  <2>2. CASE m # n
    <3>1. role'[n] = role[n]
      BY <1>1, <1>2, <2>2 DEF NodeNext, MonitorTimeout, RaiseTerm, VoteForSelf,
        Win, Lose, StartFixedLeader, StartHeartbeat, SendHeartbeat, Start, Crash
    <3> QED
      BY <3>1
  <2> QED
    BY <2>1, <2>2
<1>3. role' # role
  BY <1>1
<1>4. PICK b \in beats : BeatRejected(b) /\ b.live
  BY <1>2, <1>3
  DEF Next, CallNext, DialPeer, DialFails, CheckTerm, TryVote, GrantVote,
      CheckBeat, AcceptBeat, BeatRejected, vars
<1>5. b.from = n
  BY <1>1, <1>4 DEF BeatRejected
<1> QED
  BY <1>4, <1>5 DEF BeatRejected, BeatInv

(***************************************************************************)
(* RunHeartbeat steps down for a reason: for any number of nodes and calls *)
(* under way, a leader falls only when some node has voted, or is about to,*)
(* in a higher term, or has crashed.                                       *)
(***************************************************************************)
THEOREM FallsToHigherVote == Spec => DeposedByHigherVote
<1>1. Init => BeatInv
  BY DEF Init, BeatInv
<1>2. TypeInv /\ LiveBeats /\ VoteInv /\ BeatInv /\ [Next]_vars => BeatInv'
  BY BeatInvStep
<1>3. TypeInv /\ LiveBeats /\ BeatInv /\ [Next]_vars =>
        [\A n \in Node : role[n] = "leader" /\ role'[n] = "follower" =>
           \E p \in Node : \/ votedForTerm[p] > beatTerm[n]
                           \/ p \in crashed
                           \/ role[p] = "self" /\ newTerm[p] > beatTerm[n]]_vars
  BY DeposedStep DEF HigherVote
<1> QED
  BY <1>1, <1>2, <1>3, VotesHold, PTL DEF Spec, DeposedByHigherVote

-----------------------------------------------------------------------------
(* Who can share a term.  For any number of nodes of which a minority is   *)
(* tolerated to fail, the quorums of StartElection intersect, and two      *)
(* winners of one term therefore have a voter in common.                   *)

(***************************************************************************)
(* A vote that has been granted stands in grants until its voter crashes.  *)
(***************************************************************************)
OnRecord(p, c, t) ==
  p \in crashed \/ [voter |-> p, cand |-> c, term |-> t] \in grants

Recorded ==
  \A v \in votes : v.stage = "granted" => OnRecord(v.voter, v.cand, v.term)

(***************************************************************************)
(* A candidate waits only for the calls of its present election.           *)
(***************************************************************************)
Asking ==
  \A v \in votes : v.live => /\ role[v.cand] = "ask"
                             /\ v.term = newTerm[v.cand]
                             /\ v.voter # v.cand

(***************************************************************************)
(* A winner had a quorum, of which it alone may not have granted a vote.   *)
(***************************************************************************)
Backed ==
  \A w \in winners :
    /\ w.voters \subseteq Node
    /\ Cardinality(w.voters) >= Quorum
    /\ \A p \in w.voters \ {w.cand} : OnRecord(p, w.cand, w.term)

BallotInv == Recorded /\ Asking /\ Backed

-----------------------------------------------------------------------------
\* Any two quorums intersect as soon as T is a minority.
LEMMA QuorumsMeet ==
  ASSUME 2 * T < N, NEW V \in SUBSET Node, NEW W \in SUBSET Node,
         Cardinality(V) >= Quorum, Cardinality(W) >= Quorum
  PROVE  V \cap W # {}
<1>1. IsFiniteSet(Node) /\ Cardinality(Node) = N
  BY ElectionAssumption, FS_Interval DEF Node
<1>2. /\ IsFiniteSet(V) /\ IsFiniteSet(W)
      /\ Cardinality(V) \in Nat /\ Cardinality(W) \in Nat
  BY <1>1, FS_Subset, FS_CardinalityType
<1>3. /\ Cardinality(V \cup W) = Cardinality(V) + Cardinality(W) - Cardinality(V \cap W)
      /\ IsFiniteSet(V \cap W)
  BY <1>2, FS_Union, FS_Intersection
<1>4. Cardinality(V \cup W) <= N
  BY <1>1, FS_Subset, V \cup W \subseteq Node
<1>5. Cardinality(V \cap W) \in Nat
  BY <1>3, FS_CardinalityType
<1>6. Cardinality(V \cap W) > 0
  BY <1>2, <1>3, <1>4, <1>5, ElectionAssumption DEF Quorum
<1>7. Cardinality({}) = 0
  BY FS_EmptySet
<1> QED
  BY <1>6, <1>7

\* What is on record stays there, or its voter is among the crashed nodes.
LEMMA RecordStays ==
  ASSUME grants \subseteq [voter : Node, cand : Node, term : Term],
         [Next]_vars, NEW p, NEW c, NEW t, OnRecord(p, c, t)
  PROVE  OnRecord(p, c, t)'
<1>1. CASE \E n \in Node : Crash(n)
  BY <1>1 DEF Crash, OnRecord
<1>2. CASE ~\E n \in Node : Crash(n)
  <2>1. crashed' = crashed /\ grants \subseteq grants'
    BY <1>2
    DEF Next, CallNext, NodeNext, MonitorTimeout, RaiseTerm, VoteForSelf, Win,
        Lose, StartFixedLeader, StartHeartbeat, SendHeartbeat, Start, DialFails,
        CheckTerm, TryVote, GrantVote, CheckBeat, AcceptBeat, BeatRejected,
        DialPeer, vars, historyVars
  <2> QED
    BY <2>1 DEF OnRecord
<1> QED
  BY <1>1, <1>2

\* Every step keeps the votes on record.
LEMMA RecordedStep ==
  ASSUME TypeInv, Recorded, [Next]_vars
  PROVE  Recorded'
<1>1. votes \subseteq VoteCall
  BY DEF TypeInv, TypeOK
<1>2. \A v \in votes : v.stage = "granted" => OnRecord(v.voter, v.cand, v.term)'
  BY RecordStays DEF TypeInv, TypeOK, Recorded
<1>3. ASSUME \A u \in votes' : u.stage = "granted" =>
               \E v \in votes : /\ v.stage = "granted"
                                /\ u.cand = v.cand /\ u.voter = v.voter /\ u.term = v.term
      PROVE  Recorded'
  BY <1>2, <1>3 DEF Recorded
<1>4. ASSUME NEW n \in Node, NodeNext(n)
      PROVE  Recorded'
  <2>1. CASE VoteForSelf(n)
    BY <1>3, <2>1 DEF VoteForSelf
  <2>2. CASE Win(n) \/ Lose(n)
    BY <1>3, <2>2 DEF Win, Lose
  <2>3. CASE Crash(n)
    BY <1>1, <1>3, <2>3, CrashedCalls
  <2>4. CASE UNCHANGED votes
    BY <1>3, <2>4
  <2> QED
    BY <1>4, <2>1, <2>2, <2>3, <2>4
    DEF NodeNext, MonitorTimeout, RaiseTerm, StartFixedLeader, StartHeartbeat,
        SendHeartbeat, Start, callVars
<1>5. ASSUME NEW v \in votes, NEW s \in {"denied", "voted", "checked"}, Answer(v, s)
      PROVE  Recorded'
  <2>1. [v EXCEPT !.stage = s].stage = s
    BY <1>1 DEF VoteCall
  <2> QED
    BY <1>3, <1>5, <2>1 DEF Answer
<1>6. ASSUME NEW v \in votes, DialFails(v) \/ CheckTerm(v) \/ TryVote(v)
      PROVE  Recorded'
  BY <1>5, <1>6 DEF DialFails, CheckTerm, TryVote
<1>7. ASSUME NEW v \in votes, GrantVote(v)
      PROVE  Recorded'
  <2> DEFINE u == [v EXCEPT !.stage = "granted"]
  <2>1. u.voter = v.voter /\ u.cand = v.cand /\ u.term = v.term
    BY <1>1 DEF VoteCall
  <2>2. OnRecord(v.voter, v.cand, v.term)'
    BY <1>7 DEF GrantVote, OnRecord
  <2>3. votes' = (votes \ {v}) \cup {u}
    BY <1>7 DEF GrantVote, Answer
  <2> HIDE DEF u
  <2> QED
    BY <1>2, <2>1, <2>2, <2>3 DEF Recorded
<1>8. CASE UNCHANGED votes
  BY <1>3, <1>8
<1> QED
  BY <1>4, <1>6, <1>7, <1>8
  DEF Next, CallNext, CheckBeat, AcceptBeat, BeatRejected, DialPeer, vars, callVars

\* Every step keeps candidates to their present election.
LEMMA AskingStep ==
  ASSUME TypeInv, LiveBeats, Asking, [Next]_vars
  PROVE  Asking'
<1>1. /\ votes \subseteq VoteCall /\ beats \subseteq Beat
      /\ role \in [Node -> Role] /\ newTerm \in [Node -> Term]
  BY DEF TypeInv, TypeOK
<1>2. \A v \in votes : v.cand \in Node
  BY <1>1 DEF VoteCall
<1>3. ASSUME \A u \in votes' : u.live =>
               \E v \in votes : /\ v.live
                                /\ u.cand = v.cand /\ u.voter = v.voter /\ u.term = v.term
                                /\ role'[v.cand] = role[v.cand]
                                /\ newTerm'[v.cand] = newTerm[v.cand]
      PROVE  Asking'
  BY <1>3 DEF Asking
<1>4. ASSUME UNCHANGED votes,
             \A m \in Node : role[m] = "ask" => role'[m] = role[m] /\ newTerm'[m] = newTerm[m]
      PROVE  Asking'
  BY <1>2, <1>3, <1>4 DEF Asking
<1>5. ASSUME NEW n \in Node, NodeNext(n)
      PROVE  Asking'
  <2>1. CASE MonitorTimeout(n) \/ RaiseTerm(n) \/ Start(n)
             \/ StartFixedLeader(n) \/ StartHeartbeat(n) \/ \E p \in Node : SendHeartbeat(n, p)
    BY <1>1, <1>4, <2>1
    DEF MonitorTimeout, RaiseTerm, Start, StartFixedLeader, StartHeartbeat,
        SendHeartbeat, callVars
  <2>2. CASE VoteForSelf(n)
    <3> SUFFICES ASSUME NEW u \in votes', u.live
                 PROVE  /\ role'[u.cand] = "ask"
                        /\ u.term = newTerm'[u.cand]
                        /\ u.voter # u.cand
      BY DEF Asking
    <3>1. CASE u \in votes
      BY <1>1, <1>2, <2>2, <3>1 DEF VoteForSelf, Asking
    <3>2. CASE u \notin votes
      BY <1>1, <2>2, <3>2 DEF VoteForSelf
    <3> QED
      BY <3>1, <3>2
  <2>3. CASE Win(n) \/ Lose(n)
    <3>1. \A u \in votes' : u \in votes /\ ~(u.cand = n /\ u.live)
      BY <2>3 DEF Win, Lose, MyCalls
    <3>2. newTerm' = newTerm /\ \A m \in Node \ {n} : role'[m] = role[m]
      BY <1>1, <2>3 DEF Win, Lose
    <3> QED
      BY <1>2, <1>3, <3>1, <3>2
  <2>4. CASE Crash(n)
    <3>1. \A m \in Node \ {n} : role'[m] = role[m] /\ newTerm'[m] = newTerm[m]
      BY <1>1, <2>4 DEF Crash
    <3> SUFFICES ASSUME NEW u \in votes', u.live
                 PROVE  \E v \in votes :
                          /\ v.live
                          /\ u.cand = v.cand /\ u.voter = v.voter /\ u.term = v.term
                          /\ role'[v.cand] = role[v.cand]
                          /\ newTerm'[v.cand] = newTerm[v.cand]
      BY <1>3
    <3>2. PICK v \in votes :
            /\ u.cand = v.cand /\ u.voter = v.voter /\ u.term = v.term
            /\ v.live /\ (v.cand # n \/ v.voter = n)
      BY <1>1, <2>4, CrashedCalls
    <3>3. v.cand # n
      BY <3>2 DEF Asking
    <3> QED
      BY <1>2, <3>1, <3>2, <3>3
  <2> QED
    BY <1>5, <2>1, <2>2, <2>3, <2>4 DEF NodeNext
<1>6. ASSUME NEW v \in votes, NEW s \in {"denied", "voted", "checked", "granted"},
             Answer(v, s), UNCHANGED <<role, newTerm>>
      PROVE  Asking'
  <2>1. /\ [v EXCEPT !.stage = s].live = v.live
        /\ [v EXCEPT !.stage = s].cand = v.cand
        /\ [v EXCEPT !.stage = s].voter = v.voter
        /\ [v EXCEPT !.stage = s].term = v.term
    BY <1>1 DEF VoteCall
  <2> QED
    BY <1>3, <1>6, <2>1 DEF Answer
<1>7. ASSUME NEW v \in votes, DialFails(v) \/ CheckTerm(v) \/ TryVote(v) \/ GrantVote(v)
      PROVE  Asking'
  BY <1>6, <1>7 DEF DialFails, CheckTerm, TryVote, GrantVote
<1>8. ASSUME NEW b \in beats, CheckBeat(b) \/ AcceptBeat(b) \/ BeatRejected(b)
      PROVE  Asking'
  BY <1>1, <1>4, <1>8 DEF CheckBeat, AcceptBeat, BeatRejected, LiveBeats, Beat
<1>9. CASE DialPeer \/ UNCHANGED vars
  BY <1>4, <1>9 DEF DialPeer, vars, callVars
<1> QED
  BY <1>5, <1>7, <1>8, <1>9 DEF Next, CallNext

\* Every step keeps the winners backed by their quorums.
LEMMA BackedStep ==
  ASSUME TypeInv, Recorded, Asking, Backed, [Next]_vars
  PROVE  Backed'
<1>1. \A w \in winners : \A p \in w.voters \ {w.cand} : OnRecord(p, w.cand, w.term)'
  BY RecordStays DEF TypeInv, TypeOK, Backed
<1>2. CASE winners' = winners
  BY <1>1, <1>2 DEF Backed
<1>3. ASSUME NEW n \in Node, Win(n)
      PROVE  Backed'
  <2> DEFINE w == [cand |-> n, term |-> newTerm[n], voters |-> Voters(n)]
  <2>1. w.cand = n /\ w.term = newTerm[n] /\ w.voters = Voters(n)
    OBVIOUS
  <2>2. winners' = winners \cup {w} /\ Cardinality(Voters(n)) >= Quorum
    BY <1>3 DEF Win
  <2>3. Voters(n) \subseteq Node
    BY DEF TypeInv, TypeOK, VoteCall, Voters, MyCalls
  <2>4. ASSUME NEW p \in Voters(n) \ {n}, NEW t, t = newTerm[n]
        PROVE  OnRecord(p, n, t)'
    <3>1. PICK v \in votes : /\ v.cand = n /\ v.live
                             /\ v.stage = "granted" /\ v.voter = p
      BY <2>4 DEF Voters, MyCalls
    <3>2. OnRecord(p, n, t)
      BY <2>4, <3>1 DEF Recorded, Asking
    <3> QED
      BY <3>2, RecordStays DEF TypeInv, TypeOK
  <2> HIDE DEF w
  <2> QED
    BY <1>1, <2>1, <2>2, <2>3, <2>4 DEF Backed
<1>4. ~(\E n \in Node : Win(n)) => winners' = winners
  BY DEF Next, CallNext, NodeNext, MonitorTimeout, RaiseTerm, VoteForSelf, Lose,
      StartFixedLeader, StartHeartbeat, SendHeartbeat, Start, Crash, DialFails,
      CheckTerm, TryVote, GrantVote, CheckBeat, AcceptBeat, BeatRejected,
      DialPeer, vars, historyVars
<1> QED
  BY <1>2, <1>3, <1>4

\* Two winners of one term have a voter in common: one of them, or a node
\* that has granted both its vote and must have crashed in between.
LEMMA CommonVoter ==
  2 * T < N /\ VoteOncePerTerm /\ BallotInv => SharedTermIsDoubleVote
<1> SUFFICES ASSUME 2 * T < N, VoteOncePerTerm, BallotInv,
                    NEW v \in winners, NEW w \in winners,
                    v.term = w.term, v.cand # w.cand
             PROVE  \/ v.cand \in w.voters \/ w.cand \in v.voters
                    \/ v.voters \cap w.voters \cap crashed # {}
  BY DEF SharedTermIsDoubleVote
<1>1. PICK p \in v.voters : p \in w.voters
  BY QuorumsMeet DEF BallotInv, Backed
<1>2. CASE p = v.cand \/ p = w.cand \/ p \in crashed
  BY <1>1, <1>2
<1>3. CASE p # v.cand /\ p # w.cand /\ p \notin crashed
  <2>1. /\ OnRecord(p, v.cand, v.term)
        /\ OnRecord(p, w.cand, w.term)
    BY <1>1, <1>3 DEF BallotInv, Backed
  <2> DEFINE g == [voter |-> p, cand |-> v.cand, term |-> v.term]
             h == [voter |-> p, cand |-> w.cand, term |-> w.term]
  <2>2. g \in grants /\ h \in grants
    BY <1>3, <2>1 DEF OnRecord
  <2>3. g.voter = h.voter /\ g.term = h.term /\ g.cand = v.cand /\ h.cand = w.cand
    OBVIOUS
  <2> HIDE DEF g, h
  <2> QED
    BY <2>2, <2>3 DEF VoteOncePerTerm
<1> QED
  BY <1>2, <1>3

(***************************************************************************)
(* The one way to two leaders of a term: as long as T is a minority, two   *)
(* winners of one term owe it to a candidate that StartElection counts for *)
(* itself although TryVote has given its vote away, or to a voter that     *)
(* forgot its vote in a crash.                                             *)
(***************************************************************************)
THEOREM SharedTerms ==
  ASSUME 2 * T < N
  PROVE  Spec => []SharedTermIsDoubleVote
<1>1. Init => BallotInv
  BY DEF Init, BallotInv, Recorded, Asking, Backed
<1>2. TypeInv /\ LiveBeats /\ BallotInv /\ [Next]_vars => BallotInv'
  BY RecordedStep, AskingStep, BackedStep DEF BallotInv
<1>3. VoteInv /\ BallotInv => SharedTermIsDoubleVote
  BY CommonVoter DEF VoteInv, CastOnce
<1> QED
  BY <1>1, <1>2, <1>3, VotesHold, PTL DEF Spec

=============================================================================
