----------------------------- MODULE Consensus ------------------------------
(***************************************************************************)
(* One run of RunConsensus: the rounds a node drives from the moment it    *)
(* starts the loop as leader, the executeRPC goroutines of every round,    *)
(* the connections (conns) they use, and the ConsensusService handler and  *)
(* the database of every follower.                                         *)
(*                                                                         *)
(* A round takes one command from cmdCh, sends it to every connected       *)
(* follower, and counts the weights of the successful replies; past half   *)
(* of the total the leader executes the command itself and answers the     *)
(* HTTP handler.  Followers execute as soon as the RPC arrives.            *)
(*                                                                         *)
(* Goroutines spawned in a round register their job-queue entry and look   *)
(* up their predecessor before the loop is past the round, which waits at  *)
(* least the 200 ms of the drain window; the model does both in StartRound.*)
(***************************************************************************)
EXTENDS Priorities, KVStore

CONSTANTS
  Leader,      \* the node that runs the loop
  CmdChCap,    \* capacity of cmdCh (100 in the code)
  MaxRound,    \* bound: number of rounds
  MaxCrash,    \* bound: number of follower crashes
  LastClock,   \* bound: priority clocks other leaders' rounds have
  Usurpers,    \* nodes whose heartbeats reach this node as a leader's
  Rivals,      \* nodes whose loops send rounds of their own
  TimelyRPC    \* TRUE: no round times out while a reply is still possible

Follower == Node \ {Leader}
Round == 0 .. MaxRound - 1

ASSUME ConsensusAssumption ==
  /\ Leader \in Node
  /\ CmdChCap \in Nat \ {0}
  /\ MaxRound \in Nat
  /\ MaxCrash \in Nat
  /\ LastClock \in Nat
  /\ Usurpers \subseteq Follower
  /\ Rivals \subseteq Follower
  /\ TimelyRPC \in BOOLEAN

(***************************************************************************)
(* The stage of the executeRPC goroutine of one follower and one round.    *)
(*   idle      not spawned                                                 *)
(*   wait      waiting for the job-queue token of the previous round       *)
(*   call      request sent, handler not started                           *)
(*   admitted  UpdatePriority accepted the round, KVExecutor not run       *)
(*   ok        handler returned success, reply under way                   *)
(*   err       handler returned the error of KVExecutor                    *)
(*   stale     handler returned the error of UpdatePriority                *)
(*   lost      the connection is gone, Call returns an error               *)
(*   acked     goroutine done, reply pushed into receiver                  *)
(*   failed    goroutine done, nothing pushed                              *)
(***************************************************************************)
InHandler == {"call", "admitted"}
Returning == {"ok", "err", "stale", "lost"}
Stage == {"idle", "wait", "acked", "failed"} \cup InHandler \cup Returning

VARIABLES
  \* the HTTP side
  submitted,   \* commands some handler has put into cmdCh
  cmdCh,       \* the channel of pending commands
  answer,      \* answer[i] is what round i-1 sent on its command's ReplyCh
  \* the loop of the leader
  loop,        \* where RunConsensus is
  round,       \* leaderPClock
  cmdOf,       \* cmdOf[i] is the command of round i-1
  prio,        \* pm.m: the ranks of every round
  ownRank,     \* the rank whose weight myPriority.PrioVal holds
  leaderID,    \* myState.leaderID
  receiver,    \* replies of the current round nobody has read
  prioQueue,   \* followers in the order their replies were read
  prioSum,     \* weight counted so far
  \* the connections of the leader
  docked,      \* followers that have an entry in conns.m
  connUp,      \* whether the connection of that entry works
  jobQ,        \* jobQ[f][c]: "nil" no channel, "empty", "full" one token
  rpc,         \* rpc[f][c]: stage of the goroutine for round c
  \* the nodes
  alive,
  crashes,
  prioClock,   \* PriorityState.PrioClock
  store,       \* the customers collection
  executed     \* history: rounds whose command the node's executor has run

httpVars == <<submitted, cmdCh, answer>>
loopVars == <<loop, round, cmdOf, prio, ownRank, leaderID, receiver,
              prioQueue, prioSum>>
connVars == <<docked, connUp, jobQ, rpc>>
nodeVars == <<alive, crashes, prioClock, store, executed>>
vars == <<httpVars, loopVars, connVars, nodeVars>>

TypeOK ==
  /\ submitted \subseteq Command
  /\ cmdCh \in Seq(Command)
  /\ answer \in Seq({"ok", "failed", "timeout"})
  /\ loop \in {"idle", "wait", "commit", "drain"}
  /\ round \in 0 .. MaxRound
  /\ cmdOf \in Seq(Command)
  /\ prio \in [0 .. MaxRound -> [Node -> Rank \cup {NoRank}]]
  /\ ownRank \in Rank \cup {NoRank}
  /\ leaderID \in Node
  /\ receiver \in Seq(Follower)
  /\ prioQueue \in Seq(Follower)
  /\ prioSum \in Nat
  /\ docked \subseteq Follower
  /\ connUp \in [Follower -> BOOLEAN]
  /\ jobQ \in [Follower -> [Round -> {"nil", "empty", "full"}]]
  /\ rpc \in [Follower -> [Round -> Stage]]
  /\ alive \in [Follower -> BOOLEAN]
  /\ crashes \in 0 .. MaxCrash
  /\ prioClock \in [Follower -> Nat]
  /\ store \in [Node -> Store]
  /\ executed \in [Node -> Seq(Round)]

-----------------------------------------------------------------------------
\* The command of the current round.
Current == cmdOf[round + 1]

-----------------------------------------------------------------------------
InitCommon ==
  /\ submitted = {}
  /\ cmdCh = << >>
  /\ answer = << >>
  /\ loop = "idle"
  /\ round = 0
  /\ cmdOf = << >>
  /\ prio = [c \in 0 .. MaxRound |-> IF c = 0 THEN InitialRanks ELSE NoRanks]
  /\ leaderID = Leader
  /\ receiver = << >>
  /\ prioQueue = << >>
  /\ prioSum = 0
  /\ connUp = [f \in Follower |-> f \in docked]
  /\ jobQ = [f \in Follower |-> [c \in Round |-> "nil"]]
  /\ rpc = [f \in Follower |-> [c \in Round |-> "idle"]]
  /\ crashes = 0
  /\ store = [n \in Node |-> Seed]
  /\ executed = [n \in Node |-> << >>]

(***************************************************************************)
(* The initial leader, node 0 in a fresh cluster: EstablishRPCs has waited *)
(* for every follower, and all weights are those of InitialRanks.          *)
(***************************************************************************)
InitFixed ==
  /\ docked = Follower
  /\ alive = [f \in Follower |-> TRUE]
  /\ Leader = 0
  /\ ownRank = Leader
  /\ prioClock = [f \in Follower |-> 0]
  /\ InitCommon

(***************************************************************************)
(* The first reign of a node that won an election: its manager is fresh and*)
(* EstablishRPCsBestEffort has reached some of the nodes that are up.  The *)
(* leader's own weight is whatever the last round it served gave it: any   *)
(* in the scheme, the heaviest included if the sender re-ranked around     *)
(* this node, or none if the sender's re-ranking had failed.  The          *)
(* followers' clocks are where their last leader left them.                *)
(***************************************************************************)
InitElected ==
  /\ docked \in SUBSET Follower
  /\ alive \in [Follower -> BOOLEAN]
  /\ \A f \in docked : alive[f]
  /\ Leader # 0
  /\ ownRank \in Rank \cup {NoRank}
  /\ prioClock \in [Follower -> 0 .. LastClock]
  /\ InitCommon

-----------------------------------------------------------------------------
(* The HTTP handlers: PostCustomer, PutCustomerByID, DeleteCustomerByID.   *)

SubmitWrite(c) ==
  /\ c \notin submitted
  /\ Len(cmdCh) < CmdChCap
  /\ submitted' = submitted \cup {c}
  /\ cmdCh' = Append(cmdCh, c)
  /\ UNCHANGED <<answer, loopVars, connVars, nodeVars>>

-----------------------------------------------------------------------------
(* RunConsensus.                                                           *)

\* Take a command, spawn one goroutine per connection, count the own weight.
StartRound ==
  /\ loop = "idle"
  /\ cmdCh # << >>
  /\ round < MaxRound
  /\ cmdCh' = Tail(cmdCh)
  /\ cmdOf' = Append(cmdOf, Head(cmdCh))
  /\ receiver' = << >>
  /\ prioQueue' = << >>
  /\ prioSum' = Weight(ownRank)
  /\ rpc' = [f \in Follower |->
               IF f \in docked THEN [rpc[f] EXCEPT ![round] = "wait"]
                               ELSE rpc[f]]
  /\ jobQ' = [f \in Follower |->
               IF f \in docked THEN [jobQ[f] EXCEPT ![round] = "empty"]
                               ELSE jobQ[f]]
  /\ loop' = "wait"
  /\ UNCHANGED <<submitted, answer, round, prio, ownRank, leaderID, docked,
                 connUp, nodeVars>>

\* Read one reply; leave the wait loop when the weight is over the majority.
ReceiveReply ==
  /\ loop = "wait"
  /\ receiver # << >>
  /\ LET sid == Head(receiver)
         sum == prioSum + Weight(prio[round][sid])
     IN  /\ prioQueue' = Append(prioQueue, sid)
         /\ prioSum' = sum
         /\ loop' = IF OverMajority(sum) THEN "commit" ELSE "wait"
  /\ receiver' = Tail(receiver)
  /\ UNCHANGED <<httpVars, round, cmdOf, prio, ownRank, leaderID, connVars,
                 nodeVars>>

\* A goroutine that waits for a token nobody will ever produce: the dock is
\* younger than round d-1, so its job queue has no channel for d-1.
Stuck(f, c) ==
  \E d \in 1 .. c : rpc[f][d] = "wait" /\ jobQ[f][d-1] = "nil"

ReplyPossible ==
  \/ receiver # << >>
  \/ \E f \in Follower : \/ rpc[f][round] \in InHandler \cup Returning
                         \/ rpc[f][round] = "wait" /\ ~Stuck(f, round)

\* Mutant: the command of a round that timed out is executed all the same.
TimeoutCommits ==
  /\ loop = "wait"
  /\ TimelyRPC => ~ReplyPossible
  /\ loop' = "commit"
  /\ UNCHANGED <<httpVars, round, cmdOf, prio, ownRank, leaderID, receiver,
                 prioQueue, prioSum, connVars, nodeVars>>

\* Mutant: nothing is sent on ReplyCh after a timeout.
TimeoutSilent ==
  /\ loop = "wait"
  /\ TimelyRPC => ~ReplyPossible
  /\ loop' = "drain"
  /\ UNCHANGED <<httpVars, round, cmdOf, prio, ownRank, leaderID, receiver,
                 prioQueue, prioSum, connVars, nodeVars>>

\* The 5 s timer of the round fires: the client gets an error.
ConsensusTimeout ==
  /\ loop = "wait"
  /\ TimelyRPC => ~ReplyPossible
  /\ answer' = Append(answer, "timeout")
  /\ loop' = "drain"
  /\ UNCHANGED <<submitted, cmdCh, round, cmdOf, prio, ownRank, leaderID,
                 receiver, prioQueue, prioSum, connVars, nodeVars>>

\* localExec on the leader's own database, and the answer to the client.
LocalExec ==
  /\ loop = "commit"
  /\ store' = [store EXCEPT ![Leader] = Exec(@, Current)]
  /\ executed' = [executed EXCEPT ![Leader] = Append(@, round)]
  /\ answer' = Append(answer, IF ExecOK(store[Leader], Current)
                              THEN "ok" ELSE "failed")
  /\ loop' = "drain"
  /\ UNCHANGED <<submitted, cmdCh, round, cmdOf, prio, ownRank, leaderID,
                 receiver, prioQueue, prioSum, connVars, alive, crashes,
                 prioClock>>

\* A reply that arrives in the drain window is ranked but not counted.
LateReply ==
  /\ loop = "drain"
  /\ receiver # << >>
  /\ prioQueue' = Append(prioQueue, Head(receiver))
  /\ receiver' = Tail(receiver)
  /\ UNCHANGED <<httpVars, loop, round, cmdOf, prio, ownRank, leaderID,
                 prioSum, connVars, nodeVars>>

\* The drain window closes: rank the followers for the next round.
EndDrain ==
  /\ loop = "drain"
  /\ LET ranks == Reranked(prioQueue, leaderID)
     IN  IF ranks = {} THEN prio' = prio
         ELSE \E r \in ranks : prio' = [prio EXCEPT ![round + 1] = r]
  /\ round' = round + 1
  /\ loop' = "idle"
  /\ UNCHANGED <<httpVars, cmdOf, ownRank, leaderID, receiver, prioQueue,
                 prioSum, connVars, nodeVars>>

-----------------------------------------------------------------------------
(* executeRPC for follower f and round c, and f's side of the call.        *)

\* Mutant: the request does not wait for the previous round.
NoOrder(f, c) == TRUE

\* The job queue holds the token of the previous round.
PreviousDone(f, c) == c > 0 => jobQ[f][c-1] = "full"

\* Take the token of the previous round and send the request.
SendRPC(f, c) ==
  /\ rpc[f][c] = "wait"
  /\ PreviousDone(f, c)
  /\ jobQ' = IF c > 0 THEN [jobQ EXCEPT ![f][c-1] = "empty"] ELSE jobQ
  /\ rpc' = [rpc EXCEPT ![f][c] = IF connUp[f] THEN "call" ELSE "lost"]
  /\ UNCHANGED <<httpVars, loopVars, docked, connUp, nodeVars>>

\* Mutant: a round is refused unless it is newer.
NotNewerRound(f, c) == c <= prioClock[f]

OlderRound(f, c) == c < prioClock[f]

\* ConsensusService, first half: UpdatePriority refuses an older round.  The
\* weight is left out: only a node that leads ever reads its PrioVal.
UpdatePriority(f, c) ==
  /\ rpc[f][c] = "call"
  /\ IF OlderRound(f, c)
     THEN /\ rpc' = [rpc EXCEPT ![f][c] = "stale"]
          /\ UNCHANGED prioClock
     ELSE /\ rpc' = [rpc EXCEPT ![f][c] = "admitted"]
          /\ prioClock' = [prioClock EXCEPT ![f] = c]
  /\ UNCHANGED <<httpVars, loopVars, docked, connUp, jobQ, alive, crashes,
                 store, executed>>

\* ConsensusService, second half: the command runs on f's database.
KVExecutor(f, c) ==
  /\ rpc[f][c] = "admitted"
  /\ rpc' = [rpc EXCEPT ![f][c] =
               IF ExecOK(store[f], cmdOf[c+1]) THEN "ok" ELSE "err"]
  /\ store' = [store EXCEPT ![f] = Exec(@, cmdOf[c+1])]
  /\ executed' = [executed EXCEPT ![f] = Append(@, c)]
  /\ UNCHANGED <<httpVars, loopVars, docked, connUp, jobQ, alive, crashes,
                 prioClock>>

\* Mutant: the error of a call is not looked at.
AnyReply(f, c) == rpc[f][c] \in {"ok", "err", "stale"}

CallSucceeded(f, c) == rpc[f][c] = "ok"

\* Mutant: the token is passed on only if the call succeeded.
ReturnRPCOrStop(f, c) ==
  /\ rpc[f][c] \in Returning
  /\ jobQ' = IF CallSucceeded(f, c)
             THEN [jobQ EXCEPT ![f][c] = "full"] ELSE jobQ
  /\ rpc' = [rpc EXCEPT ![f][c] = IF @ = "ok" THEN "acked" ELSE "failed"]
  /\ receiver' = IF CallSucceeded(f, c) /\ c = round
                 THEN Append(receiver, f) ELSE receiver
  /\ UNCHANGED <<httpVars, loop, round, cmdOf, prio, ownRank, leaderID,
                 prioQueue, prioSum, docked, connUp, nodeVars>>

\* Call returns: pass the token on, push a successful reply.  The receiver
\* of an earlier round is still there but nobody reads it any more.
ReturnRPC(f, c) ==
  /\ rpc[f][c] \in Returning
  /\ jobQ' = [jobQ EXCEPT ![f][c] = "full"]
  /\ rpc' = [rpc EXCEPT ![f][c] = IF @ = "ok" THEN "acked" ELSE "failed"]
  /\ receiver' = IF CallSucceeded(f, c) /\ c = round
                 THEN Append(receiver, f) ELSE receiver
  /\ UNCHANGED <<httpVars, loop, round, cmdOf, prio, ownRank, leaderID,
                 prioQueue, prioSum, docked, connUp, nodeVars>>

-----------------------------------------------------------------------------
(* Nodes coming and going.                                                 *)

\* f's process dies: calls in progress fail, the database keeps its content.
Crash(f) ==
  /\ alive[f]
  /\ crashes < MaxCrash
  /\ crashes' = crashes + 1
  /\ alive' = [alive EXCEPT ![f] = FALSE]
  /\ connUp' = [connUp EXCEPT ![f] = FALSE]
  /\ rpc' = [rpc EXCEPT ![f] = [c \in Round |->
               IF @[c] \in InHandler \cup Returning THEN "lost" ELSE @[c]]]
  /\ UNCHANGED <<httpVars, loopVars, docked, jobQ, prioClock, store, executed>>

\* f starts, for the first time or again: its database is seeded if it is
\* empty, and the clock is 0.
Start(f) ==
  /\ ~alive[f]
  /\ alive' = [alive EXCEPT ![f] = TRUE]
  /\ prioClock' = [prioClock EXCEPT ![f] = 0]
  /\ store' = [store EXCEPT ![f] = Reseeded(@)]
  /\ UNCHANGED <<httpVars, loopVars, connVars, crashes, executed>>

\* tryConnectMissingPeers: only a peer without an entry is dialled.
ConnectMissingPeer(f) ==
  /\ f \notin docked
  /\ alive[f]
  /\ docked' = docked \cup {f}
  /\ connUp' = [connUp EXCEPT ![f] = TRUE]
  /\ UNCHANGED <<httpVars, loopVars, jobQ, rpc, nodeVars>>

\* The Heartbeat handler of this node accepts another leader's heartbeat; it
\* stores the sender as leaderID, and the loop goes on.
FollowHeartbeat(l) ==
  /\ l \in Usurpers
  /\ leaderID # l
  /\ leaderID' = l
  /\ UNCHANGED <<httpVars, loop, round, cmdOf, prio, ownRank, receiver,
                 prioQueue, prioSum, connVars, nodeVars>>

(***************************************************************************)
(* ConsensusService serves whoever calls: rounds of another node's loop    *)
(* reach this node and its followers, too, because a loop goes on when its *)
(* node is deposed.  First half: UpdatePriority.  The PriorityState of this*)
(* node is the one RunConsensus reads its own weight from.                 *)
(***************************************************************************)
RivalPriority(n) ==
  /\ Rivals \ {n} # {}
  /\ \/ /\ n = Leader
        /\ ownRank' \in Rank \cup {NoRank}
        /\ UNCHANGED prioClock
     \/ /\ n # Leader /\ alive[n]
        /\ \E clock \in prioClock[n] .. LastClock :
             prioClock' = [prioClock EXCEPT ![n] = clock]
        /\ UNCHANGED ownRank
  /\ UNCHANGED <<httpVars, loop, round, cmdOf, prio, leaderID, receiver,
                 prioQueue, prioSum, connVars, alive, crashes, store, executed>>

\* Second half: the rival's command runs on n's database.
RivalExecutor(n) ==
  /\ Rivals \ {n} # {}
  /\ n # Leader => alive[n]
  /\ \E c \in Command : store' = [store EXCEPT ![n] = Exec(@, c)]
  /\ UNCHANGED <<httpVars, loopVars, connVars, alive, crashes, prioClock,
                 executed>>

-----------------------------------------------------------------------------
LoopNext ==
  \/ StartRound
  \/ ReceiveReply
  \/ ConsensusTimeout
  \/ LocalExec
  \/ LateReply
  \/ EndDrain

RPCNext(f, c) ==
  \/ SendRPC(f, c)
  \/ UpdatePriority(f, c)
  \/ KVExecutor(f, c)
  \/ ReturnRPC(f, c)

Next ==
  \/ \E c \in Command : SubmitWrite(c)
  \/ LoopNext
  \/ \E f \in Follower, c \in Round : RPCNext(f, c)
  \/ \E f \in Follower : Crash(f) \/ Start(f) \/ ConnectMissingPeer(f)
  \/ \E l \in Usurpers : FollowHeartbeat(l)
  \/ \E n \in Node : RivalPriority(n) \/ RivalExecutor(n)

FixedSpec == InitFixed /\ [][Next]_vars
ElectedSpec == InitElected /\ [][Next]_vars

(***************************************************************************)
(* Every goroutine that can run eventually does, the timers fire, and a    *)
(* live follower's handler and database answer.  Clients need not submit,  *)
(* and nodes need not crash or start.                                      *)
(***************************************************************************)
Fairness ==
  /\ WF_vars(StartRound)
  /\ WF_vars(ReceiveReply)
  /\ WF_vars(ConsensusTimeout)
  /\ WF_vars(LocalExec)
  /\ WF_vars(EndDrain)
  /\ \A f \in Follower : /\ WF_vars(ConnectMissingPeer(f))
                         /\ \A c \in Round : WF_vars(RPCNext(f, c))

FairFixedSpec == FixedSpec /\ Fairness
FairElectedSpec == ElectedSpec /\ Fairness

-----------------------------------------------------------------------------
(* Properties.                                                             *)

Acked(c) == {f \in Follower : rpc[f][c] = "acked"}

(***************************************************************************)
(* I2 as a promise to clients: when RunConsensus reports the outcome of a  *)
(* round other than a timeout, at least T followers have executed the      *)
(* command successfully, so with the leader T+1 nodes hold it.             *)
(***************************************************************************)
CommitQuorum ==
  \A i \in 1 .. Len(answer) :
    answer[i] # "timeout" => Cardinality(Acked(i-1)) >= T

(***************************************************************************)
(* I1 as a promise to clients: the wait loop never sits there waiting when *)
(* N-T nodes, the leader included, have the command.  A round can time out *)
(* only because more than T nodes did not answer.                          *)
(***************************************************************************)
WaitMeansTooFew == loop = "wait" => Len(prioQueue) + 1 < N - T

(***************************************************************************)
(* The job queues deliver in order: every follower has executed the rounds *)
(* 0, 1, ... without gap, repetition or inversion.                         *)
(***************************************************************************)
InOrderExecution ==
  \A f \in Follower : \A i \in 1 .. Len(executed[f]) : executed[f][i] = i-1

(***************************************************************************)
(* Because of that order the priority clock of a follower that serves one  *)
(* leader only never rejects a round of that leader.                       *)
(***************************************************************************)
NoStaleRejection ==
  \A f \in Follower, c \in Round : rpc[f][c] # "stale"

(***************************************************************************)
(* A new leader counts its rounds from 0 again while its followers hold    *)
(* the clocks of other leaders: they reject its rounds, but only those     *)
(* before the last clock a foreign round has had, never one because a      *)
(* later round of the new leader has overtaken it.                         *)
(***************************************************************************)
RejectionEnds ==
  \A f \in Follower, c \in Round : rpc[f][c] = "stale" => c < LastClock

(***************************************************************************)
(* What a follower does execute of a new leader's rounds, it executes in   *)
(* their order, whatever clocks it holds.                                  *)
(***************************************************************************)
RoundsIncrease ==
  \A f \in Follower : \A i, j \in 1 .. Len(executed[f]) :
    i < j => executed[f][i] < executed[f][j]

(***************************************************************************)
(* Two followers that have run equally many rounds hold the same           *)
(* documents, and so does the leader as long as no round has timed out.    *)
(***************************************************************************)
ReplicasAgree ==
  \A m, n \in Node :
    /\ Len(executed[m]) = Len(executed[n])
    /\ Leader \in {m, n} => "timeout" \notin Range(answer)
    => store[m] = store[n]

(***************************************************************************)
(* In every round the ranks are dealt out to distinct nodes and the weight *)
(* the leader counts for itself is the one the manager has for it, so the  *)
(* weights counted in a round never add up to more than sum(scheme).       *)
(***************************************************************************)
RanksDealtOnce ==
  \A c \in 0 .. round : IsInjective(prio[c]) /\ prio[c][Leader] = ownRank

(***************************************************************************)
(* Every write a handler has put into cmdCh is answered.                   *)
(***************************************************************************)
Answered(c) == \E i \in 1 .. Len(answer) : cmdOf[i] = c

EveryWriteAnswered ==
  \A c \in Command : c \in submitted ~> Answered(c)

(***************************************************************************)
(* A goroutine waiting for the previous round of its connection gets its   *)
(* turn.                                                                   *)
(***************************************************************************)
GoroutineServed ==
  \A f \in Follower, c \in Round : rpc[f][c] = "wait" ~> rpc[f][c] # "wait"

(***************************************************************************)
(* Under the initial leader the loop implements the abstract write service.*)
(***************************************************************************)
Service == INSTANCE WriteService WITH
  accepted <- cmdOf \o cmdCh, outcome <- answer, applied <- executed,
  docs <- store

ImplementsWriteService == Service!Spec

=============================================================================
