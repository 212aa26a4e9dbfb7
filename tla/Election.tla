------------------------------ MODULE Election ------------------------------
(***************************************************************************)
(* Who leads: the heartbeat monitor, StartElection, RequestVote, Heartbeat *)
(* and RunHeartbeat of every node, with the fields of smr.ServerState they *)
(* share.                                                                  *)
(*                                                                         *)
(* Each field is guarded by a lock, but nothing guards two accesses: what  *)
(* a handler or StartElection does is split here at every access that      *)
(* another goroutine of the same node may come between.  Timers are        *)
(* abstracted: a monitor may time out whenever it runs.  RPC handlers run  *)
(* in goroutines of their own, so calls may be served in any order.        *)
(***************************************************************************)
EXTENDS Integers, FiniteSets

CONSTANTS
  N,              \* number of nodes, flag -n
  T,              \* failure tolerance, flag -t
  MaxElections,   \* bound: elections held, in the whole cluster
  MaxCrash,       \* bound: nodes that crash, each any number of times
  MaxBeats        \* bound: Heartbeat calls under way

Node == 0 .. N-1
LeaderID == 0     \* the fixed leader of a fresh cluster

\* Mutant: one vote too few is enough.
QuorumOfPeers == N - T - 1

Quorum == N - T

ASSUME ElectionAssumption ==
  /\ N \in Nat \ {0}
  /\ T \in Nat
  /\ T < N
  /\ MaxElections \in Nat
  /\ MaxCrash \in Nat
  /\ MaxBeats \in Nat

(***************************************************************************)
(* What a node is doing.                                                   *)
(*   down      not running                                                 *)
(*   connect   the fixed leader, dialling the others in EstablishRPCs      *)
(*   follower  the heartbeat monitor runs                                  *)
(*   raise     newTerm computed, SetTerm pending                           *)
(*   self      SetTerm done, TryVote for itself pending                    *)
(*   ask       waiting for the answers to RequestVote                      *)
(*   won       CmdCh handed out, RunHeartbeat not started                  *)
(*   leader    RunHeartbeat sends heartbeats                               *)
(***************************************************************************)
Role == {"down", "connect", "follower", "raise", "self", "ask",
         "won", "leader"}
Candidate == {"raise", "self", "ask"}
Term == 0 .. MaxElections

VARIABLES
  role,
  term,          \* ServerState.term
  votedForTerm,
  votedForID,
  leaderID,
  newTerm,       \* the term StartElection runs for
  beatTerm,      \* the term RunHeartbeat was given
  dialled,       \* EstablishRPCs of node 0: the last peer it has reached
  votes,         \* RequestVote calls; live: the candidate waits for it
  beats,         \* Heartbeat calls; live: sent by the current RunHeartbeat
  elections,     \* number of elections held
  crashed,       \* history: nodes that have crashed
  grants,        \* history: votes granted since the voter's process started
  winners        \* history: elections won, by whose votes

stateVars == <<term, votedForTerm, votedForID, leaderID>>
callVars == <<votes, beats>>
historyVars == <<elections, crashed, grants, winners>>
vars == <<role, newTerm, beatTerm, dialled, stateVars, callVars, historyVars>>

VoteCall ==
  [cand : Node, term : Term, voter : Node, live : BOOLEAN,
   stage : {"sent", "checked", "voted", "granted", "denied"}]
Beat ==
  [from : Node, term : Term, to : Node, live : BOOLEAN,
   stage : {"sent", "passed", "rejected"}]

TypeOK ==
  /\ role \in [Node -> Role]
  /\ term \in [Node -> Term]
  /\ votedForTerm \in [Node -> Term]
  /\ votedForID \in [Node -> Node]
  /\ leaderID \in [Node -> Node]
  /\ newTerm \in [Node -> Term]
  /\ beatTerm \in [Node -> Term]
  /\ dialled \in Node
  /\ votes \subseteq VoteCall
  /\ beats \subseteq Beat
  /\ elections \in 0 .. MaxElections
  /\ crashed \subseteq Node
  /\ grants \subseteq [voter : Node, cand : Node, term : Term]
  /\ winners \subseteq [cand : Node, term : Term, voters : SUBSET Node]

-----------------------------------------------------------------------------
\* What startNode does for the election: NewServerState, SetLeaderID(0), and
\* EstablishRPCs on node 0 or the monitor on any other node.
FirstRole(n) == IF n = LeaderID THEN "connect" ELSE "follower"

Init ==
  /\ \E up \in SUBSET Node :
       role = [n \in Node |-> IF n \in up THEN FirstRole(n) ELSE "down"]
  /\ term = [n \in Node |-> 0]
  /\ votedForTerm = [n \in Node |-> 0]
  /\ votedForID = [n \in Node |-> 0]
  /\ leaderID = [n \in Node |-> LeaderID]
  /\ newTerm = [n \in Node |-> 0]
  /\ beatTerm = [n \in Node |-> 0]
  /\ dialled = 0
  /\ votes = {}
  /\ beats = {}
  /\ elections = 0
  /\ crashed = {}
  /\ grants = {}
  /\ winners = {}

Up(n) == role[n] # "down"

-----------------------------------------------------------------------------
(* StartHeartbeatMonitor and StartElection.                                *)

\* HeartbeatTimeout has passed: the monitor stops, and after the jitter
\* StartElection reads the term.
MonitorTimeout(n) ==
  /\ role[n] = "follower"
  /\ elections < MaxElections
  /\ elections' = elections + 1
  /\ newTerm' = [newTerm EXCEPT ![n] = term[n] + 1]
  /\ role' = [role EXCEPT ![n] = "raise"]
  /\ UNCHANGED <<beatTerm, dialled, stateVars, callVars, crashed, grants, winners>>

RaiseTerm(n) ==
  /\ role[n] = "raise"
  /\ term' = [term EXCEPT ![n] = newTerm[n]]
  /\ role' = [role EXCEPT ![n] = "self"]
  /\ UNCHANGED <<newTerm, beatTerm, dialled, votedForTerm, votedForID, leaderID,
                 callVars, historyVars>>

\* Mutant: a node may vote again in the term it has voted in.
VoteAgain(n, t) == t >= votedForTerm[n]

\* TryVote: the first vote a node casts in a term.
FirstVote(n, t) == t > votedForTerm[n]

\* The result of TryVote for itself is ignored; then every peer is asked.
VoteForSelf(n) ==
  /\ role[n] = "self"
  /\ IF FirstVote(n, newTerm[n])
     THEN /\ votedForTerm' = [votedForTerm EXCEPT ![n] = newTerm[n]]
          /\ votedForID' = [votedForID EXCEPT ![n] = n]
     ELSE UNCHANGED <<votedForTerm, votedForID>>
  /\ votes' = votes \cup
       {[cand |-> n, term |-> newTerm[n], voter |-> p, live |-> TRUE,
         stage |-> "sent"] : p \in Node \ {n}}
  /\ role' = [role EXCEPT ![n] = "ask"]
  /\ UNCHANGED <<newTerm, beatTerm, dialled, term, leaderID, beats, historyVars>>

MyCalls(n) == {v \in votes : v.cand = n /\ v.live}

Voters(n) == {n} \cup {v.voter : v \in {w \in MyCalls(n) : w.stage = "granted"}}

\* wg.Wait is over and the votes, the own one included, are a quorum: the
\* node calls itself the leader and hands out CmdCh.
Win(n) ==
  /\ role[n] = "ask"
  /\ \A v \in MyCalls(n) : v.stage \in {"granted", "denied"}
  /\ Cardinality(Voters(n)) >= Quorum
  /\ role' = [role EXCEPT ![n] = "won"]
  /\ leaderID' = [leaderID EXCEPT ![n] = n]
  /\ winners' = winners \cup
       {[cand |-> n, term |-> newTerm[n], voters |-> Voters(n)]}
  /\ votes' = votes \ MyCalls(n)
  /\ UNCHANGED <<newTerm, beatTerm, dialled, term, votedForTerm, votedForID,
                 beats, elections, crashed, grants>>

\* Too few votes: back to the monitor.
Lose(n) ==
  /\ role[n] = "ask"
  /\ \A v \in MyCalls(n) : v.stage \in {"granted", "denied"}
  /\ Cardinality(Voters(n)) < Quorum
  /\ role' = [role EXCEPT ![n] = "follower"]
  /\ votes' = votes \ MyCalls(n)
  /\ UNCHANGED <<newTerm, beatTerm, dialled, stateVars, beats, historyVars>>

-----------------------------------------------------------------------------
(* RequestVote: the call, and the handler in the voter's process.          *)

Answer(v, stage) == votes' = (votes \ {v}) \cup {[v EXCEPT !.stage = stage]}

\* Mutant: a dial to a node that is down never returns.
DialHangs(v) == FALSE

\* The candidate's goroutine cannot reach the voter.
DialFails(v) ==
  /\ v.stage = "sent"
  /\ ~Up(v.voter)
  /\ Answer(v, "denied")
  /\ UNCHANGED <<role, newTerm, beatTerm, dialled, stateVars, beats, historyVars>>

\* Mutant: the handler relies on the term alone and leaves TryVote out.
CheckTermOnly(v) ==
  /\ v.stage = "sent"
  /\ Up(v.voter)
  /\ Answer(v, IF v.term <= term[v.voter] THEN "denied" ELSE "voted")
  /\ UNCHANGED <<role, newTerm, beatTerm, dialled, stateVars, beats, historyVars>>

\* GetTerm and the comparison with the candidate's term.
CheckTerm(v) ==
  /\ v.stage = "sent"
  /\ Up(v.voter)
  /\ Answer(v, IF v.term <= term[v.voter] THEN "denied" ELSE "checked")
  /\ UNCHANGED <<role, newTerm, beatTerm, dialled, stateVars, beats, historyVars>>

TryVote(v) ==
  /\ v.stage = "checked"
  /\ IF FirstVote(v.voter, v.term)
     THEN /\ votedForTerm' = [votedForTerm EXCEPT ![v.voter] = v.term]
          /\ votedForID' = [votedForID EXCEPT ![v.voter] = v.cand]
          /\ Answer(v, "voted")
     ELSE /\ Answer(v, "denied")
          /\ UNCHANGED <<votedForTerm, votedForID>>
  /\ UNCHANGED <<role, newTerm, beatTerm, dialled, term, leaderID, beats, historyVars>>

\* Mutant: the voter moves on to the term after the candidate's.
GrantNextTerm(v) ==
  /\ v.stage = "voted"
  /\ term' = [term EXCEPT ![v.voter] = v.term + 1]
  /\ grants' = grants \cup
       {[voter |-> v.voter, cand |-> v.cand, term |-> v.term]}
  /\ Answer(v, "granted")
  /\ UNCHANGED <<role, newTerm, beatTerm, dialled, votedForTerm, votedForID,
                 leaderID, beats, elections, crashed, winners>>

\* SetTerm, whatever the term has become since it was read.
GrantVote(v) ==
  /\ v.stage = "voted"
  /\ term' = [term EXCEPT ![v.voter] = v.term]
  /\ grants' = grants \cup
       {[voter |-> v.voter, cand |-> v.cand, term |-> v.term]}
  /\ Answer(v, "granted")
  /\ UNCHANGED <<role, newTerm, beatTerm, dialled, votedForTerm, votedForID,
                 leaderID, beats, elections, crashed, winners>>

-----------------------------------------------------------------------------
(* RunHeartbeat and Heartbeat.                                             *)

\* EstablishRPCs dials the peers one after another, each until it answers.
DialPeer ==
  /\ role[LeaderID] = "connect"
  /\ dialled < N - 1
  /\ Up(dialled + 1)
  /\ dialled' = dialled + 1
  /\ UNCHANGED <<role, newTerm, beatTerm, stateVars, callVars, historyVars>>

\* All have been reached, some of which may be down again: the fixed leader
\* beats in term 0.
StartFixedLeader(n) ==
  /\ role[n] = "connect"
  /\ dialled = N - 1
  /\ role' = [role EXCEPT ![n] = "leader"]
  /\ beatTerm' = [beatTerm EXCEPT ![n] = 0]
  /\ UNCHANGED <<newTerm, dialled, stateVars, callVars, historyVars>>

\* A winner's onTimeout reads the term again to start RunHeartbeat.
StartHeartbeat(n) ==
  /\ role[n] = "won"
  /\ role' = [role EXCEPT ![n] = "leader"]
  /\ beatTerm' = [beatTerm EXCEPT ![n] = term[n]]
  /\ UNCHANGED <<newTerm, dialled, stateVars, callVars, historyVars>>

SendHeartbeat(n, p) ==
  /\ role[n] = "leader"
  /\ p # n
  /\ Up(p)
  /\ Cardinality(beats) < MaxBeats
  /\ beats' = beats \cup {[from |-> n, term |-> beatTerm[n], to |-> p,
                           live |-> TRUE, stage |-> "sent"]}
  /\ UNCHANGED <<role, newTerm, beatTerm, dialled, stateVars, votes, historyVars>>

\* Mutant: a heartbeat of the receiver's own term is rejected, too.
NotNewerTerm(n, t) == t <= term[n]

OldTerm(n, t) == t < term[n]

\* The Heartbeat handler compares the terms ...
CheckBeat(b) ==
  /\ b.stage = "sent"
  /\ beats' = (beats \ {b}) \cup
       {[b EXCEPT !.stage = IF OldTerm(b.to, b.term) THEN "rejected" ELSE "passed"]}
  /\ UNCHANGED <<role, newTerm, beatTerm, dialled, stateVars, votes, historyVars>>

\* ... and then, if it has accepted, stores the sender as the leader.
AcceptBeat(b) ==
  /\ b.stage = "passed"
  /\ leaderID' = [leaderID EXCEPT ![b.to] = b.from]
  /\ beats' = beats \ {b}
  /\ UNCHANGED <<role, newTerm, beatTerm, dialled, term, votedForTerm, votedForID,
                 votes, historyVars>>

\* Heartbeats of a RunHeartbeat that is over cannot depose their sender.
Orphaned(calls, n) ==
  {IF b.from = n THEN [b EXCEPT !.live = FALSE] ELSE b : b \in calls}

\* sendHeartbeat sees the rejection; onDeposed runs once per RunHeartbeat.
BeatRejected(b) ==
  /\ b.stage = "rejected"
  /\ IF b.live
     THEN /\ role' = [role EXCEPT ![b.from] = "follower"]
          /\ beats' = Orphaned(beats \ {b}, b.from)
     ELSE /\ beats' = beats \ {b}
          /\ UNCHANGED role
  /\ UNCHANGED <<newTerm, beatTerm, dialled, stateVars, votes, historyVars>>

-----------------------------------------------------------------------------
(* Processes starting and dying.  Nothing is persisted.                    *)

Start(n) ==
  /\ role[n] = "down"
  /\ role' = [role EXCEPT ![n] = FirstRole(n)]
  /\ UNCHANGED <<newTerm, beatTerm, dialled, stateVars, callVars, historyVars>>

\* Calls n was serving fail, unless the answer was out already; calls n made
\* are served all the same, but nobody reads the answer.
Crash(n) ==
  /\ Up(n)
  /\ n \in crashed \/ Cardinality(crashed) < MaxCrash
  /\ crashed' = crashed \cup {n}
  /\ role' = [role EXCEPT ![n] = "down"]
  /\ term' = [term EXCEPT ![n] = 0]
  /\ votedForTerm' = [votedForTerm EXCEPT ![n] = 0]
  /\ votedForID' = [votedForID EXCEPT ![n] = 0]
  /\ leaderID' = [leaderID EXCEPT ![n] = LeaderID]
  /\ newTerm' = [newTerm EXCEPT ![n] = 0]
  /\ beatTerm' = [beatTerm EXCEPT ![n] = 0]
  /\ dialled' = IF n = LeaderID THEN 0 ELSE dialled
  /\ \E answered \in SUBSET {v \in votes : v.voter = n /\ v.stage = "granted"} :
       LET undone == {v \in votes : v.voter = n /\ v.stage # "sent"} \ answered
       IN  votes' = {IF v \in undone THEN [v EXCEPT !.stage = "denied"]
                     ELSE IF v.cand = n THEN [v EXCEPT !.live = FALSE] ELSE v :
                       v \in votes}
  /\ \E rejected \in SUBSET {b \in beats : b.to = n /\ b.stage = "rejected"} :
       beats' = Orphaned({b \in beats : b.to # n} \cup rejected, n)
  /\ grants' = {g \in grants : g.voter # n}
  /\ UNCHANGED <<elections, winners>>

-----------------------------------------------------------------------------
NodeNext(n) ==
  \/ MonitorTimeout(n) \/ RaiseTerm(n) \/ VoteForSelf(n)
  \/ Win(n) \/ Lose(n)
  \/ StartFixedLeader(n) \/ StartHeartbeat(n)
  \/ \E p \in Node : SendHeartbeat(n, p)
  \/ Start(n) \/ Crash(n)

CallNext ==
  \/ \E v \in votes : DialFails(v) \/ CheckTerm(v) \/ TryVote(v) \/ GrantVote(v)
  \/ \E b \in beats : CheckBeat(b) \/ AcceptBeat(b) \/ BeatRejected(b)

Next == CallNext \/ DialPeer \/ \E n \in Node : NodeNext(n)

Spec == Init /\ [][Next]_vars

\* StartElection of n goes on, in its own goroutine or in one of its calls:
\* RPCs to a live process are served, and others fail.
ElectionStep(n) ==
  \/ RaiseTerm(n) \/ VoteForSelf(n) \/ Win(n) \/ Lose(n) \/ StartHeartbeat(n)
  \/ \E v \in votes :
       /\ v.cand = n
       /\ DialFails(v) \/ CheckTerm(v) \/ TryVote(v) \/ GrantVote(v)

Fairness == WF_vars(\E n \in Node : ElectionStep(n))

FairSpec == Spec /\ Fairness

-----------------------------------------------------------------------------
(* Properties.                                                             *)

(***************************************************************************)
(* TryVote: however its handlers interleave, a node grants its vote in a   *)
(* term to one candidate.                                                  *)
(***************************************************************************)
VoteOncePerTerm ==
  \A g, h \in grants : g.voter = h.voter /\ g.term = h.term => g.cand = h.cand

(***************************************************************************)
(* Raft's vote-granting rules would give every term at most one leader.    *)
(***************************************************************************)
OneLeaderPerTerm ==
  \A v, w \in winners : v.term = w.term => v.cand = w.cand

(***************************************************************************)
(* Two nodes can win the same term, but only because one of them granted   *)
(* its vote to the other and counted itself nevertheless, or because a node*)
(* that voted for both had forgotten the first vote in a crash.            *)
(***************************************************************************)
SharedTermIsDoubleVote ==
  \A v, w \in winners : v.term = w.term /\ v.cand # w.cand =>
    \/ v.cand \in w.voters \/ w.cand \in v.voters
    \/ v.voters \cap w.voters \cap crashed # {}

(***************************************************************************)
(* A node never holds a term it has not cast its vote in, except while it  *)
(* is raising the term for its own candidacy: SetTerm may overtake another *)
(* SetTerm, never TryVote.                                                 *)
(***************************************************************************)
TermHasVote ==
  \A n \in Node : role[n] # "self" => term[n] <= votedForTerm[n]

(***************************************************************************)
(* A leader is deposed only when some node has voted, or is about to vote, *)
(* in a term higher than the one it beats in, or when a node has crashed,  *)
(* which may have done so before.                                          *)
(***************************************************************************)
DeposedByHigherVote ==
  [][\A n \in Node : role[n] = "leader" /\ role'[n] = "follower" =>
       \E p \in Node : \/ votedForTerm[p] > beatTerm[n]
                       \/ p \in crashed
                       \/ role[p] = "self" /\ newTerm[p] > beatTerm[n]]_vars

(***************************************************************************)
(* Elections end, with a new leader or with the monitor running again:     *)
(* after the last one that is held no candidate is left, whoever is down.  *)
(***************************************************************************)
ElectionsEnd == []<>(\A n \in Node : role[n] \notin Candidate)

=============================================================================
