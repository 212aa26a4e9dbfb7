------------------------------- MODULE Reigns -------------------------------
(***************************************************************************)
(* One node process through several reigns: what is left of a reign when   *)
(* it ends, and what the next one finds.                                   *)
(*                                                                         *)
(* CmdCh is handed out by a win and taken away by onDeposed, while HTTP    *)
(* handlers test it and send on it.  RunConsensus never stops: every win   *)
(* starts one more loop, and all of them take commands from one cmdCh and  *)
(* send on the docks of one conns.m, with a leaderPClock of their own.     *)
(* EstablishRPCsBestEffort and the reconnections of RunHeartbeat put new   *)
(* docks there while older rounds still use the old ones.                  *)
(*                                                                         *)
(* The other nodes are abstract: a dial may succeed or fail, a call may    *)
(* return or not, and an election may be won whenever the node is a        *)
(* follower.  What a round commits is the subject of Consensus; here it    *)
(* may end, by quorum or by timeout, at any time, but, as in Consensus,    *)
(* not before its goroutines have started: the drain window takes 200 ms.  *)
(***************************************************************************)
EXTENDS Integers, Sequences, FiniteSets

CONSTANTS
  Peer,        \* the other nodes
  MaxWrite,    \* bound: writes clients send to this node
  CmdChCap,    \* capacity of cmdCh (100 in the code)
  MaxReign,    \* bound: reigns
  MaxRound,    \* bound: rounds of one loop
  MaxDock      \* bound: connections made to one peer

ASSUME ReignsAssumption ==
  /\ MaxWrite \in Nat
  /\ CmdChCap \in Nat \ {0}
  /\ MaxReign \in Nat \ {0}
  /\ MaxRound \in Nat \ {0}
  /\ MaxDock \in Nat \ {0}

Write == 1 .. MaxWrite    \* in the order their handlers start
NoWrite == 0
Reign == 1 .. MaxReign
Clock == 0 .. MaxRound - 1
Dock == 1 .. MaxDock

(***************************************************************************)
(* A handler in submitWrite.                                               *)
(*   idle      no request yet                                              *)
(*   checked   CmdCh was not nil                                           *)
(*   blocked   cmdCh is full                                               *)
(*   hung      CmdCh was nil when the send read it: blocked for ever       *)
(*   waiting   command sent, waiting on replyCh                            *)
(***************************************************************************)
HandlerStage == {"idle", "checked", "blocked", "hung", "waiting",
                 "503", "answered"}

VARIABLES
  fixed,       \* the first reign is the fixed leader's
  reign,       \* reigns so far, the present one included
  stopped,     \* reigns whose RunHeartbeat has called onDeposed
  CmdCh,       \* controllers.CmdCh is not nil
  handler,     \* handler[w]: submitWrite of write w
  seen,        \* history: the reign in which w passed the check
  cmdCh,       \* the channel of pending commands
  loop,        \* loop[r]: RunConsensus of reign r
  clock,       \* clock[r]: leaderPClock of that loop
  cmd,         \* cmd[r]: the command of its round
  toDial,      \* toDial[r]: peers EstablishRPCs of reign r has not dialled
  dialing,     \* dialing[p]: reconnections past the check, before the store
  dock,        \* dock[p]: the connection in conns.m, 0 for none
  docks,       \* docks[p]: connections made so far
  jobQ,        \* the reign whose loop made jobQ[c] of a dock, 0 for none
  token,       \* channels <<p, d, c, r>> that hold a token
  calls,       \* executeRPC goroutines that have not returned
  sent         \* history: <<p, d, c, r>> the rounds sent on each dock

reignVars == <<fixed, reign, stopped, CmdCh>>
httpVars == <<handler, seen, cmdCh>>
loopVars == <<loop, clock, cmd>>
dockVars == <<toDial, dialing, dock, docks>>
callVars == <<jobQ, token, calls, sent>>
vars == <<reignVars, httpVars, loopVars, dockVars, callVars>>

Channel == Peer \X Dock \X Clock \X Reign

(***************************************************************************)
(* An executeRPC goroutine.                                                *)
(*   start   spawned                                                       *)
(*   wait    waiting for a token on the channel prev found, 0 for nil      *)
(*   call    in txClient.Call                                              *)
(*   locked  its channel is full: blocked in the send, holding jobQMu      *)
(***************************************************************************)
Goroutine ==
  [peer : Peer, dock : Dock, clock : Clock, reign : Reign,
   stage : {"start", "wait", "call", "locked"}, prev : 0 .. MaxReign]

TypeOK ==
  /\ fixed \in BOOLEAN /\ CmdCh \in BOOLEAN
  /\ reign \in 0 .. MaxReign
  /\ stopped \subseteq 1 .. reign
  /\ handler \in [Write -> HandlerStage]
  /\ seen \in [Write -> 0 .. MaxReign]
  /\ cmdCh \in Seq(Write) /\ Len(cmdCh) <= CmdChCap
  /\ loop \in [Reign -> {"none", "idle", "round"}]
  /\ clock \in [Reign -> 0 .. MaxRound]
  /\ cmd \in [Reign -> Write \cup {NoWrite}]
  /\ toDial \in [Reign -> SUBSET Peer]
  /\ dialing \in [Peer -> 0 .. MaxDock]
  /\ dock \in [Peer -> 0 .. MaxDock]
  /\ docks \in [Peer -> 0 .. MaxDock]
  /\ jobQ \in [Peer \X Dock \X Clock -> 0 .. MaxReign]
  /\ token \subseteq Channel
  /\ calls \subseteq Goroutine
  /\ sent \subseteq Channel

-----------------------------------------------------------------------------
\* startNode: node 0 hands out CmdCh and connects; any other node follows.
Init ==
  /\ fixed \in BOOLEAN
  /\ reign = IF fixed THEN 1 ELSE 0
  /\ stopped = {}
  /\ CmdCh = fixed
  /\ handler = [w \in Write |-> "idle"]
  /\ seen = [w \in Write |-> 0]
  /\ cmdCh = << >>
  /\ loop = [r \in Reign |-> IF fixed /\ r = 1 THEN "idle" ELSE "none"]
  /\ clock = [r \in Reign |-> 0]
  /\ cmd = [r \in Reign |-> NoWrite]
  /\ toDial = [r \in Reign |-> IF fixed /\ r = 1 THEN Peer ELSE {}]
  /\ dialing = [p \in Peer |-> 0]
  /\ dock = [p \in Peer |-> 0]
  /\ docks = [p \in Peer |-> 0]
  /\ jobQ = [j \in Peer \X Dock \X Clock |-> 0]
  /\ token = {}
  /\ calls = {}
  /\ sent = {}

-----------------------------------------------------------------------------
(* Reigns: onTimeout, RunHeartbeat and its onDeposed.                      *)

\* The fixed leader starts RunHeartbeat once EstablishRPCs has returned, a
\* winner at once.
Beats(r) ==
  /\ r \in 1 .. reign
  /\ fixed /\ r = 1 => toDial[r] = {}

\* A follower wins an election.
Win ==
  /\ reign \in stopped \cup {0}
  /\ reign < MaxReign
  /\ reign' = reign + 1
  /\ CmdCh' = TRUE
  /\ loop' = [loop EXCEPT ![reign + 1] = "idle"]
  /\ toDial' = [toDial EXCEPT ![reign + 1] = Peer]
  /\ UNCHANGED <<fixed, stopped, httpVars, clock, cmd,
                 dialing, dock, docks, callVars>>

\* Mutant: onDeposed runs on every rejection, late ones included.
RejectedAgain(r) ==
  /\ Beats(r)
  /\ stopped' = stopped \cup {r}
  /\ CmdCh' = FALSE
  /\ UNCHANGED <<fixed, reign, httpVars, loopVars, dockVars, callVars>>

\* A peer rejects a heartbeat of reign r; once.Do lets only the first of the
\* reign through.
Rejected(r) ==
  /\ Beats(r)
  /\ r \notin stopped
  /\ stopped' = stopped \cup {r}
  /\ CmdCh' = FALSE
  /\ UNCHANGED <<fixed, reign, httpVars, loopVars, dockVars, callVars>>

-----------------------------------------------------------------------------
(* submitWrite.                                                            *)

CheckCmdCh(w) ==
  /\ handler[w] = "idle"
  /\ w > 1 => handler[w - 1] # "idle"
  /\ handler' = [handler EXCEPT ![w] = IF CmdCh THEN "checked" ELSE "503"]
  /\ seen' = [seen EXCEPT ![w] = reign]
  /\ UNCHANGED <<reignVars, cmdCh, loopVars, dockVars, callVars>>

\* Mutant: cmdCh takes one command too many.
SendPastCap(w) ==
  /\ handler[w] \in {"checked", "blocked"}
  /\ cmdCh' = Append(cmdCh, w)
  /\ handler' = [handler EXCEPT ![w] = "waiting"]
  /\ UNCHANGED <<reignVars, seen, loopVars, dockVars, callVars>>

\* The send reads CmdCh again: there may be no channel any more, or no room.
Send(w) ==
  /\ \/ /\ handler[w] = "checked"
        /\ \/ ~CmdCh /\ handler' = [handler EXCEPT ![w] = "hung"]
           \/ /\ CmdCh /\ Len(cmdCh) = CmdChCap
              /\ handler' = [handler EXCEPT ![w] = "blocked"]
        /\ UNCHANGED cmdCh
     \/ /\ handler[w] = "blocked" \/ (handler[w] = "checked" /\ CmdCh)
        /\ Len(cmdCh) < CmdChCap
        /\ cmdCh' = Append(cmdCh, w)
        /\ handler' = [handler EXCEPT ![w] = "waiting"]
  /\ UNCHANGED <<reignVars, seen, loopVars, dockVars, callVars>>

-----------------------------------------------------------------------------
(* Docks: EstablishRPCs, EstablishRPCsBestEffort, tryConnectMissingPeers.  *)

NewDock(p) ==
  /\ docks[p] < MaxDock
  /\ docks' = [docks EXCEPT ![p] = @ + 1]
  /\ dock' = [dock EXCEPT ![p] = docks[p] + 1]

Dial(r, p) ==
  /\ p \in toDial[r]
  /\ NewDock(p)
  /\ toDial' = [toDial EXCEPT ![r] = @ \ {p}]
  /\ UNCHANGED <<reignVars, httpVars, loopVars, dialing, callVars>>

\* Only the fixed leader's EstablishRPCs tries again until it succeeds.
DialFails(r, p) ==
  /\ p \in toDial[r]
  /\ ~(fixed /\ r = 1)
  /\ toDial' = [toDial EXCEPT ![r] = @ \ {p}]
  /\ UNCHANGED <<reignVars, httpVars, loopVars, dialing, dock, docks, callVars>>

\* A reconnection of the present RunHeartbeat finds no entry for p.
FindMissing(p) ==
  /\ reign \notin stopped /\ Beats(reign)
  /\ dock[p] = 0
  /\ dialing[p] + docks[p] < MaxDock
  /\ dialing' = [dialing EXCEPT ![p] = @ + 1]
  /\ UNCHANGED <<reignVars, httpVars, loopVars, toDial, dock, docks, callVars>>

\* It stores its connection, whatever is there by now, or gives up.
Reconnect(p) ==
  /\ dialing[p] > 0
  /\ dialing' = [dialing EXCEPT ![p] = @ - 1]
  /\ NewDock(p) \/ UNCHANGED <<dock, docks>>
  /\ UNCHANGED <<reignVars, httpVars, loopVars, toDial, callVars>>

-----------------------------------------------------------------------------
(* RunConsensus of reign r.                                                *)

\* Mutant: a loop ends with its reign.
StartRoundInReign(r) ==
  /\ loop[r] = "idle" /\ toDial[r] = {} /\ r \notin stopped
  /\ cmdCh # << >>
  /\ clock[r] < MaxRound
  /\ cmd' = [cmd EXCEPT ![r] = Head(cmdCh)]
  /\ cmdCh' = Tail(cmdCh)
  /\ loop' = [loop EXCEPT ![r] = "round"]
  /\ UNCHANGED <<reignVars, handler, seen, clock, dockVars, callVars>>

\* Once connected, a loop takes the next command and sends it to the peers
\* that have a dock.
StartRound(r) ==
  /\ loop[r] = "idle" /\ toDial[r] = {}
  /\ cmdCh # << >>
  /\ clock[r] < MaxRound
  /\ cmd' = [cmd EXCEPT ![r] = Head(cmdCh)]
  /\ cmdCh' = Tail(cmdCh)
  /\ loop' = [loop EXCEPT ![r] = "round"]
  /\ LET docked == {p \in Peer : dock[p] # 0}
     IN  /\ calls' = calls \cup
              {[peer |-> p, dock |-> dock[p], clock |-> clock[r], reign |-> r,
                stage |-> "start", prev |-> 0] : p \in docked}
         /\ sent' = sent \cup {<<p, dock[p], clock[r], r>> : p \in docked}
  /\ UNCHANGED <<reignVars, handler, seen, clock, dockVars, jobQ, token>>

Locked(p, d) == \E g \in calls : g.peer = p /\ g.dock = d /\ g.stage = "locked"

\* The goroutines of the round that can start have done so.
Started(r) ==
  \A g \in calls : g.reign = r /\ g.stage = "start" => Locked(g.peer, g.dock)

\* Mutant: a round that has timed out keeps its clock.
EndRoundSameClock(r) ==
  /\ loop[r] = "round"
  /\ Started(r)
  /\ handler' = [handler EXCEPT ![cmd[r]] = "answered"]
  /\ \E timedOut \in BOOLEAN :
       clock' = [clock EXCEPT ![r] = IF timedOut THEN @ ELSE @ + 1]
  /\ cmd' = [cmd EXCEPT ![r] = NoWrite]
  /\ loop' = [loop EXCEPT ![r] = "idle"]
  /\ UNCHANGED <<reignVars, seen, cmdCh, dockVars, callVars>>

\* The handler gets its answer, late replies are drained, the clock moves on.
EndRound(r) ==
  /\ loop[r] = "round"
  /\ Started(r)
  /\ handler' = [handler EXCEPT ![cmd[r]] = "answered"]
  /\ clock' = [clock EXCEPT ![r] = @ + 1]
  /\ cmd' = [cmd EXCEPT ![r] = NoWrite]
  /\ loop' = [loop EXCEPT ![r] = "idle"]
  /\ UNCHANGED <<reignVars, seen, cmdCh, dockVars, callVars>>

-----------------------------------------------------------------------------
(* executeRPC.                                                             *)

Becomes(g, stage, prev) ==
  calls' = (calls \ {g}) \cup {[g EXCEPT !.stage = stage, !.prev = prev]}

\* Mutant: a goroutine does not wait for the previous round.
EnterNoOrder(g) ==
  /\ g.stage = "start" /\ ~Locked(g.peer, g.dock)
  /\ jobQ' = [jobQ EXCEPT ![<<g.peer, g.dock, g.clock>>] = g.reign]
  /\ Becomes(g, "call", 0)
  /\ UNCHANGED <<reignVars, httpVars, loopVars, dockVars, token, sent>>

\* Mutant: a goroutine that has to wait registers no channel.
EnterUnregistered(g) ==
  /\ g.stage = "start" /\ ~Locked(g.peer, g.dock)
  /\ IF g.clock = 0
     THEN /\ jobQ' = [jobQ EXCEPT ![<<g.peer, g.dock, g.clock>>] = g.reign]
          /\ Becomes(g, "call", 0)
     ELSE /\ Becomes(g, "wait", jobQ[<<g.peer, g.dock, g.clock - 1>>])
          /\ UNCHANGED jobQ
  /\ UNCHANGED <<reignVars, httpVars, loopVars, dockVars, token, sent>>

(***************************************************************************)
(* Registers its channel, over another loop's if there is one, and looks   *)
(* the previous round's up.  What another loop may register in between is  *)
(* as well registered before.                                              *)
(***************************************************************************)
Enter(g) ==
  /\ g.stage = "start" /\ ~Locked(g.peer, g.dock)
  /\ jobQ' = [jobQ EXCEPT ![<<g.peer, g.dock, g.clock>>] = g.reign]
  /\ IF g.clock = 0
     THEN Becomes(g, "call", 0)
     ELSE Becomes(g, "wait", jobQ[<<g.peer, g.dock, g.clock - 1>>])
  /\ UNCHANGED <<reignVars, httpVars, loopVars, dockVars, token, sent>>

Previous(g) == <<g.peer, g.dock, g.clock - 1, g.prev>>

TakeToken(g) ==
  /\ g.stage = "wait"
  /\ Previous(g) \in token
  /\ token' = token \ {Previous(g)}
  /\ Becomes(g, "call", 0)
  /\ UNCHANGED <<reignVars, httpVars, loopVars, dockVars, jobQ, sent>>

\* The channel that is registered for the round of g by now.
OwnChannel(g) == <<g.peer, g.dock, g.clock, jobQ[<<g.peer, g.dock, g.clock>>]>>

\* The token is in and the goroutine ends.
Finish(g) ==
  /\ calls' = calls \ {g}
  /\ token' = token \cup {OwnChannel(g)}

\* Call has returned; the goroutine signals the next round under jobQMu.
Signal(g) ==
  /\ g.stage = "call" /\ ~Locked(g.peer, g.dock)
  /\ IF OwnChannel(g) \in token
     THEN Becomes(g, "locked", 0) /\ UNCHANGED token
     ELSE Finish(g)
  /\ UNCHANGED <<reignVars, httpVars, loopVars, dockVars, jobQ, sent>>

\* Somebody has taken the token that was in the way.
Unlock(g) ==
  /\ g.stage = "locked"
  /\ OwnChannel(g) \notin token
  /\ Finish(g)
  /\ UNCHANGED <<reignVars, httpVars, loopVars, dockVars, jobQ, sent>>

-----------------------------------------------------------------------------
LoopNext(r) == StartRound(r) \/ EndRound(r)

CallNext(g) == Enter(g) \/ TakeToken(g) \/ Signal(g) \/ Unlock(g)

Next ==
  \/ Win
  \/ \E r \in Reign : Rejected(r) \/ LoopNext(r)
  \/ \E r \in Reign, p \in Peer : Dial(r, p) \/ DialFails(r, p)
  \/ \E p \in Peer : FindMissing(p) \/ Reconnect(p)
  \/ \E w \in Write : CheckCmdCh(w) \/ Send(w)
  \/ \E g \in calls : CallNext(g)

Spec == Init /\ [][Next]_vars

(***************************************************************************)
(* Handlers, loops and goroutines that can run do; a dial of a live peer   *)
(* or its timeout ends every wait of EstablishRPCsBestEffort, and the fixed*)
(* leader's peers come up.  Calls need not return, nor goroutines get      *)
(* their token: a round then ends by its timer.                            *)
(***************************************************************************)
Progress ==
  \/ \E w \in Write : Send(w)
  \/ \E r \in Reign : LoopNext(r) \/ \E p \in Peer : Dial(r, p) \/ DialFails(r, p)
  \/ \E g \in calls : Enter(g)

Fairness == WF_vars(Progress)

FairSpec == Spec /\ Fairness

-----------------------------------------------------------------------------
(* Properties.                                                             *)

(***************************************************************************)
(* /status, which reports CmdCh # nil, tells whether the node leads: a late*)
(* rejection of an earlier reign's heartbeat never takes CmdCh from the    *)
(* present one.                                                            *)
(***************************************************************************)
StatusIsLeadership == CmdCh <=> reign > 0 /\ reign \notin stopped

(***************************************************************************)
(* submitWrite hangs on a nil channel only if the reign that it was checked*)
(* in ended before the send.                                               *)
(***************************************************************************)
HungMeansDeposed ==
  \A w \in Write : handler[w] = "hung" => seen[w] \in stopped

\* Two loops have sent rounds of one clock on dock d of p.
SharedClock(p, d) ==
  \E c \in Clock, r, s \in Reign :
    r # s /\ <<p, d, c, r>> \in sent /\ <<p, d, c, s>> \in sent

(***************************************************************************)
(* A goroutine blocks on its own channel, with the lock of the dock held   *)
(* against everyone, only where the loops of two reigns have used one clock*)
(* on that dock and overwritten each other's channel.                      *)
(***************************************************************************)
LockedMeansSharedClock ==
  \A g \in calls : g.stage = "locked" => SharedClock(g.peer, g.dock)

(***************************************************************************)
(* A goroutine waits on a nil channel, for ever, only if its loop's        *)
(* previous round was not sent on this dock, which is then younger than    *)
(* that round: a late joiner, a dock replaced by a new reign or by an      *)
(* overlapping reconnection.  Or two loops share a clock on the dock.      *)
(***************************************************************************)
OrphanMeansYoungDock ==
  \A g \in calls : g.stage = "wait" /\ g.prev = 0 =>
    \/ <<g.peer, g.dock, g.clock - 1, g.reign>> \notin sent
    \/ SharedClock(g.peer, g.dock)

\* The call of g has not returned.
CallPending(g) == g.stage \in {"start", "wait", "call"}

\* Another loop than that of reign r has sent a round of clock b .. c-1 on dock d.
InTheWay(p, d, b, c, r) ==
  \E s \in Reign \ {r}, e \in b .. c - 1 : <<p, d, e, s>> \in sent

(***************************************************************************)
(* Within a reign, the calls to a peer are made one after another, as      *)
(* executeRPC promises, and docks replaced in between do not change that,  *)
(* unless another loop has sent one of the rounds in between on the same   *)
(* dock, whose token may have been taken for the own one, then or earlier. *)
(***************************************************************************)
CallsInOrder ==
  \A g, h \in calls :
    /\ g.stage = "call" /\ CallPending(h)
    /\ g.peer = h.peer /\ g.reign = h.reign /\ h.clock < g.clock
    => InTheWay(g.peer, g.dock, h.clock, g.clock, g.reign)

(***************************************************************************)
(* Whatever becomes of the reign, a command that has got into cmdCh, or    *)
(* waits for room there, is answered: again and again none is left, for the*)
(* loops drain the channel even after the node is deposed.                 *)
(***************************************************************************)
AcceptedIsAnswered ==
  []<>(\A w \in Write : handler[w] \notin {"waiting", "blocked"})

=============================================================================
