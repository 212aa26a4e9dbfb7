---------------------------- MODULE ReignsProofs -----------------------------
(***************************************************************************)
(* Proofs about Reigns: types, what /status and hung handlers say about    *)
(* the reign, when a goroutine locks a dock or waits for ever, and in which*)
(* order the calls to a peer are made.                                     *)
(***************************************************************************)
EXTENDS Reigns, TLAPS

-----------------------------------------------------------------------------
(* Types.                                                                  *)

\* A loop is in a round only below the bound, and runs only once its reign
\* has begun.
LoopInv ==
  \A r \in Reign : /\ loop[r] = "round" => clock[r] < MaxRound
                   /\ r > reign => loop[r] = "none"

\* A goroutine has registered a channel before it does anything else.
Registered ==
  \A g \in calls :
    g.stage # "start" => jobQ[<<g.peer, g.dock, g.clock>>] # 0

TypeInv == TypeOK /\ LoopInv /\ Registered

\* Everything but the handlers, the loops, the docks and the goroutines.
ReignTypes ==
  /\ fixed \in BOOLEAN /\ CmdCh \in BOOLEAN
  /\ reign \in 0 .. MaxReign
  /\ stopped \subseteq 1 .. reign

HttpTypes ==
  /\ handler \in [Write -> HandlerStage]
  /\ seen \in [Write -> 0 .. MaxReign]
  /\ cmdCh \in Seq(Write) /\ Len(cmdCh) <= CmdChCap

LoopTypes ==
  /\ loop \in [Reign -> {"none", "idle", "round"}]
  /\ clock \in [Reign -> 0 .. MaxRound]
  /\ cmd \in [Reign -> Write \cup {NoWrite}]

DockTypes ==
  /\ toDial \in [Reign -> SUBSET Peer]
  /\ dialing \in [Peer -> 0 .. MaxDock]
  /\ dock \in [Peer -> 0 .. MaxDock]
  /\ docks \in [Peer -> 0 .. MaxDock]

CallTypes ==
  /\ jobQ \in [Peer \X Dock \X Clock -> 0 .. MaxReign]
  /\ token \subseteq Channel
  /\ calls \subseteq Goroutine
  /\ sent \subseteq Channel

(***************************************************************************)
(* The parts of the type invariant, one for each group of variables.       *)
(***************************************************************************)
LEMMA TypeParts ==
  TypeOK <=> ReignTypes /\ HttpTypes /\ LoopTypes /\ DockTypes /\ CallTypes
BY Zenon DEF TypeOK, ReignTypes, HttpTypes, LoopTypes, DockTypes, CallTypes

(***************************************************************************)
(* A goroutine that moves on is the same call in another stage.            *)
(***************************************************************************)
LEMMA Moved ==
  ASSUME TypeOK, NEW g \in calls, NEW st \in {"start", "wait", "call", "locked"},
         NEW pr \in 0 .. MaxReign, Becomes(g, st, pr)
  PROVE  \E h \in Goroutine :
           /\ calls' = (calls \ {g}) \cup {h}
           /\ h.peer = g.peer /\ h.dock = g.dock /\ h.clock = g.clock
           /\ h.reign = g.reign /\ h.stage = st /\ h.prev = pr
<1>1. g \in Goroutine
  BY DEF TypeOK
<1> DEFINE h == [g EXCEPT !.stage = st]
           k == [h EXCEPT !.prev = pr]
<1>2. /\ h \in Goroutine /\ h.stage = st
      /\ h.peer = g.peer /\ h.dock = g.dock /\ h.clock = g.clock
      /\ h.reign = g.reign
  BY <1>1, SMT DEF Goroutine
<1>3. calls' = (calls \ {g}) \cup {k}
  BY DEF Becomes
<1> HIDE DEF h
<1>4. /\ k \in Goroutine /\ k.stage = h.stage /\ k.prev = pr
      /\ k.peer = h.peer /\ k.dock = h.dock /\ k.clock = h.clock
      /\ k.reign = h.reign
  BY <1>2, SMT DEF Goroutine
<1> HIDE DEF k
<1> QED
  BY <1>2, <1>3, <1>4

\* h is g in a later stage.
Later(g, h) ==
  /\ calls' = (calls \ {g}) \cup {h}
  /\ h.peer = g.peer /\ h.dock = g.dock /\ h.clock = g.clock
  /\ h.reign = g.reign

(***************************************************************************)
(* What a goroutine finds where the channel of the round before should be. *)
(***************************************************************************)
LEMMA PreviousChannel ==
  ASSUME ReignsAssumption, TypeOK, NEW g \in calls, g.clock # 0
  PROVE  jobQ[<<g.peer, g.dock, g.clock - 1>>] \in 0 .. MaxReign
<1>1. g.peer \in Peer /\ g.dock \in Dock /\ g.clock \in Clock
  BY DEF TypeOK, Goroutine
<1>2. MaxRound \in Nat
  BY DEF ReignsAssumption
<1>3. g.clock - 1 \in Clock
  BY <1>1, <1>2, SMT DEF Clock
<1>4. <<g.peer, g.dock, g.clock - 1>> \in Peer \X Dock \X Clock
  BY <1>1, <1>3
<1> QED
  BY <1>4 DEF TypeOK

(***************************************************************************)
(* A step of a goroutine ends it or moves it on.                           *)
(***************************************************************************)
LEMMA CallMoves ==
  ASSUME ReignsAssumption, TypeOK, NEW g \in calls, CallNext(g)
  PROVE  Finish(g) \/ \E h \in Goroutine : Later(g, h)
<1> USE DEF Later
<1>1. 0 \in 0 .. MaxReign
  BY SMT DEF ReignsAssumption
<1>2. CASE Becomes(g, "call", 0)
  BY <1>1, <1>2, Moved
<1>3. CASE Becomes(g, "locked", 0)
  BY <1>1, <1>3, Moved
<1>4. CASE g.clock # 0 /\ Becomes(g, "wait", jobQ[<<g.peer, g.dock, g.clock - 1>>])
  <2>1. jobQ[<<g.peer, g.dock, g.clock - 1>>] \in 0 .. MaxReign
    BY <1>4, PreviousChannel
  <2> QED
    BY <1>4, <2>1, Moved
<1> QED
  BY <1>2, <1>3, <1>4 DEF CallNext, Enter, TakeToken, Signal, Unlock

(***************************************************************************)
(* The steps of a goroutine keep the types of what goroutines share.       *)
(***************************************************************************)
LEMMA CallStepTyped ==
  ASSUME ReignsAssumption, TypeOK, Registered, NEW g \in calls, CallNext(g)
  PROVE  CallTypes'
<1> USE ReignsAssumption
<1>1. g \in Goroutine /\ CallTypes
  BY TypeParts DEF TypeOK
<1>2. /\ g.peer \in Peer /\ g.dock \in Dock /\ g.clock \in Clock
      /\ g.reign \in Reign /\ g.prev \in 0 .. MaxReign
  BY <1>1, SMT DEF Goroutine
<1>3. <<g.peer, g.dock, g.clock>> \in Peer \X Dock \X Clock
  BY <1>2
<1>4. calls' \subseteq Goroutine
  BY <1>1, CallMoves DEF Finish, Later, CallTypes
<1>5. CASE Enter(g)
  <2>1. jobQ' \in [Peer \X Dock \X Clock -> 0 .. MaxReign]
    BY <1>1, <1>2, <1>5, SMT DEF Enter, CallTypes, Reign
  <2> QED
    BY <1>1, <1>4, <1>5, <2>1 DEF Enter, CallTypes
<1>6. CASE TakeToken(g)
  BY <1>1, <1>4, <1>6 DEF TakeToken, CallTypes
<1>7. CASE Signal(g) \/ Unlock(g)
  <2>1. UNCHANGED <<jobQ, sent>> /\ g.stage # "start"
    BY <1>7 DEF Signal, Unlock
  <2>2. jobQ[<<g.peer, g.dock, g.clock>>] \in Reign
    BY <1>1, <1>3, <2>1, SMT DEF Registered, CallTypes, Reign
  <2>3. OwnChannel(g) \in Channel
    BY <1>2, <2>2 DEF OwnChannel, Channel
  <2>4. token' \subseteq Channel
    BY <1>1, <1>7, <2>3 DEF Signal, Unlock, Finish, CallTypes
  <2> QED
    BY <1>1, <1>4, <2>1, <2>4 DEF CallTypes
<1> QED
  BY <1>5, <1>6, <1>7 DEF CallNext

(***************************************************************************)
(* The steps of a goroutine keep Registered: a channel, once registered,   *)
(* is only ever replaced.                                                  *)
(***************************************************************************)
LEMMA CallStepRegistered ==
  ASSUME ReignsAssumption, TypeOK, Registered, NEW g \in calls, CallNext(g)
  PROVE  Registered'
<1> USE ReignsAssumption
<1>1. calls \subseteq Goroutine /\ CallTypes
  BY TypeParts DEF TypeOK
<1>2. /\ g.peer \in Peer /\ g.dock \in Dock /\ g.clock \in Clock
      /\ g.reign \in Reign
  BY <1>1, SMT DEF Goroutine
<1>3. <<g.peer, g.dock, g.clock>> \in Peer \X Dock \X Clock
  BY <1>2
<1>4. CASE Enter(g)
  <2>1. /\ jobQ'[<<g.peer, g.dock, g.clock>>] # 0
        /\ \A j \in Peer \X Dock \X Clock : jobQ[j] # 0 => jobQ'[j] # 0
    BY <1>1, <1>2, <1>3, <1>4, SMT DEF Enter, CallTypes, Reign
  <2>2. \A h \in calls : <<h.peer, h.dock, h.clock>> \in Peer \X Dock \X Clock
    BY <1>1, SMT DEF Goroutine
  <2> QED
    BY <1>4, <2>1, <2>2, CallMoves DEF Registered, Later, Finish
<1>5. CASE TakeToken(g) \/ Signal(g) \/ Unlock(g)
  <2>1. jobQ' = jobQ
    BY <1>5 DEF TakeToken, Signal, Unlock
  <2>2. g.stage # "start"
    BY <1>5 DEF TakeToken, Signal, Unlock
  <2> QED
    BY <2>1, <2>2, CallMoves DEF Finish, Later, Registered
<1> QED
  BY <1>4, <1>5 DEF CallNext
(***************************************************************************)
(* What a new dock, stored by Dial or Reconnect, does to the docks.        *)
(***************************************************************************)
LEMMA NewDockTyped ==
  ASSUME ReignsAssumption, DockTypes, NEW p \in Peer, NewDock(p)
  PROVE  dock' \in [Peer -> 0 .. MaxDock] /\ docks' \in [Peer -> 0 .. MaxDock]
BY SMT DEF ReignsAssumption, DockTypes, NewDock

(***************************************************************************)
(* Every step of the node keeps the types.                                 *)
(***************************************************************************)
LEMMA TypeStep ==
  ASSUME ReignsAssumption, TypeInv, [Next]_vars
  PROVE  TypeInv'
<1> USE ReignsAssumption DEF ReignsAssumption
<1>1. TypeOK /\ LoopInv /\ Registered
  BY DEF TypeInv
<1>2. ReignTypes /\ HttpTypes /\ LoopTypes /\ DockTypes /\ CallTypes
  BY <1>1, TypeParts
<1>3. SUFFICES /\ ReignTypes' /\ HttpTypes' /\ LoopTypes' /\ DockTypes' /\ CallTypes'
               /\ LoopInv' /\ Registered'
  BY DEF TypeInv, TypeOK, ReignTypes, HttpTypes, LoopTypes, DockTypes, CallTypes
<1> USE DEF reignVars, httpVars, loopVars, dockVars, callVars
<1>4. CASE Win
  <2>1. ReignTypes' /\ UNCHANGED <<httpVars, callVars>>
    BY <1>2, <1>4, SMT DEF Win, ReignTypes
  <2>2. reign + 1 \in Reign /\ reign' = reign + 1
    BY <1>2, <1>4, SMT DEF Win, ReignTypes, Reign
  <2>3. LoopTypes' /\ DockTypes'
    <3>1. loop' \in [Reign -> {"none", "idle", "round"}]
      BY <1>2, <1>4 DEF Win, LoopTypes
    <3>2. toDial' \in [Reign -> SUBSET Peer]
      BY <1>2, <1>4 DEF Win, DockTypes
    <3> QED
      BY <1>2, <1>4, <3>1, <3>2 DEF Win, LoopTypes, DockTypes
  <2>4. LoopInv'
    BY <1>1, <1>2, <1>4, <2>2, SMT DEF Win, LoopTypes, LoopInv, Reign, ReignTypes
  <2> QED
    BY <1>1, <1>2, <2>1, <2>3, <2>4 DEF HttpTypes, CallTypes, Registered
<1>5. ASSUME NEW r \in Reign, Rejected(r)
      PROVE  TypeInv'
  <2>1. ReignTypes' /\ UNCHANGED <<reign, httpVars, loopVars, dockVars, callVars>>
    <3>1. stopped' \subseteq 1 .. reign
      BY <1>2, <1>5 DEF Rejected, Beats, ReignTypes
    <3>2. UNCHANGED <<fixed, reign>> /\ CmdCh' = FALSE
      BY <1>5 DEF Rejected
    <3>3. UNCHANGED <<httpVars, loopVars, dockVars, callVars>>
      BY <1>5 DEF Rejected
    <3> QED
      BY <1>2, <3>1, <3>2, <3>3 DEF ReignTypes
  <2> QED
    BY <1>1, <1>2, <2>1
    DEF TypeInv, TypeOK, ReignTypes, HttpTypes, LoopTypes, DockTypes, CallTypes,
        LoopInv, Registered
<1>6. ASSUME NEW w \in Write, CheckCmdCh(w) \/ Send(w)
      PROVE  TypeInv'
  <2>1. UNCHANGED <<reignVars, loopVars, dockVars, callVars>>
    BY <1>6 DEF CheckCmdCh, Send
  <2>2. CASE CheckCmdCh(w)
    <3>1. HttpTypes'
      BY <1>2, <2>2, SMT DEF CheckCmdCh, HttpTypes, ReignTypes, HandlerStage
    <3> QED
      BY <1>1, <1>2, <2>1, <3>1
      DEF TypeInv, TypeOK, ReignTypes, HttpTypes, LoopTypes, DockTypes, CallTypes,
          LoopInv, Registered
  <2>3. CASE Send(w)
    <3>1. handler' \in [Write -> HandlerStage] /\ seen' = seen
      BY <1>2, <2>3, SMT DEF Send, HttpTypes, HandlerStage
    <3>2. CASE cmdCh' = cmdCh
      BY <1>1, <1>2, <2>1, <3>1, <3>2
      DEF TypeInv, TypeOK, ReignTypes, HttpTypes, LoopTypes, DockTypes, CallTypes,
          LoopInv, Registered
    <3>3. CASE Len(cmdCh) < CmdChCap /\ cmdCh' = Append(cmdCh, w)
      <4>1. cmdCh' \in Seq(Write) /\ Len(cmdCh') <= CmdChCap
        BY <1>2, <3>3, SMT DEF HttpTypes
      <4> QED
        BY <1>1, <1>2, <2>1, <3>1, <4>1
        DEF TypeInv, TypeOK, ReignTypes, HttpTypes, LoopTypes, DockTypes, CallTypes,
            LoopInv, Registered
    <3> QED
      BY <2>3, <3>2, <3>3 DEF Send
  <2> QED
    BY <1>6, <2>2, <2>3
<1>7. ASSUME NEW r \in Reign, StartRound(r)
      PROVE  TypeInv'
  <2>1. UNCHANGED <<reignVars, handler, seen, clock, dockVars, jobQ, token>>
    BY <1>7 DEF StartRound
  <2>2. cmdCh # << >> /\ cmdCh' = Tail(cmdCh) /\ cmd' = [cmd EXCEPT ![r] = Head(cmdCh)]
    BY <1>7 DEF StartRound
  <2>3. HttpTypes' /\ cmd' \in [Reign -> Write \cup {NoWrite}]
    <3>1. cmdCh' \in Seq(Write) /\ Len(cmdCh') <= CmdChCap /\ Head(cmdCh) \in Write
      BY <1>2, <2>2, SMT DEF HttpTypes
    <3> QED
      BY <1>2, <2>1, <2>2, <3>1 DEF HttpTypes, LoopTypes
  <2>4. LoopTypes' /\ LoopInv'
    BY <1>1, <1>2, <1>7, <2>1, <2>3, SMT DEF StartRound, LoopTypes, LoopInv
  <2>5. clock[r] \in Clock
    BY <1>2, <1>7, SMT DEF StartRound, LoopTypes, Clock
  <2>6. \A p \in Peer : dock[p] # 0 => dock[p] \in Dock
    BY <1>2, SMT DEF DockTypes, Dock
  <2>7. calls' \subseteq Goroutine /\ sent' \subseteq Channel
    BY <1>2, <1>7, <2>5, <2>6, SMT DEF StartRound, CallTypes, Goroutine, Channel
  <2>8. Registered'
    BY <1>1, <1>7, <2>1 DEF StartRound, Registered
  <2> QED
    BY <1>2, <2>1, <2>3, <2>4, <2>7, <2>8
    DEF TypeInv, TypeOK, ReignTypes, HttpTypes, DockTypes, CallTypes, LoopTypes
<1>8. ASSUME NEW r \in Reign, EndRound(r)
      PROVE  TypeInv'
  <2>1. UNCHANGED <<reignVars, seen, cmdCh, dockVars, callVars>>
    BY <1>8 DEF EndRound
  <2>2. HttpTypes'
    <3>1. handler' \in [Write -> HandlerStage]
      BY <1>2, <1>8, Zenon DEF EndRound, HttpTypes, HandlerStage
    <3> QED
      BY <1>2, <2>1, <3>1 DEF HttpTypes
  <2>3. LoopTypes' /\ LoopInv'
    BY <1>1, <1>2, <1>8, <2>1, SMT DEF EndRound, LoopTypes, LoopInv
  <2> QED
    BY <1>1, <1>2, <2>1, <2>2, <2>3
    DEF TypeInv, TypeOK, ReignTypes, HttpTypes, LoopTypes, DockTypes, CallTypes,
        Registered
<1>9. ASSUME NEW r \in Reign, NEW p \in Peer,
             Dial(r, p) \/ DialFails(r, p) \/ FindMissing(p) \/ Reconnect(p)
      PROVE  TypeInv'
  <2>1. UNCHANGED <<reignVars, httpVars, loopVars, callVars>>
    BY <1>9 DEF Dial, DialFails, FindMissing, Reconnect
  <2>2. DockTypes'
    <3>1. CASE Dial(r, p)
      BY <1>2, <3>1, NewDockTyped, SMT DEF Dial, DockTypes
    <3>2. CASE DialFails(r, p)
      BY <1>2, <3>2, SMT DEF DialFails, DockTypes
    <3>3. CASE FindMissing(p)
      BY <1>2, <3>3, SMT DEF FindMissing, DockTypes
    <3>4. CASE Reconnect(p)
      <4>1. dialing' \in [Peer -> 0 .. MaxDock] /\ toDial' = toDial
        BY <1>2, <3>4, SMT DEF Reconnect, DockTypes
      <4>2. NewDock(p) \/ UNCHANGED <<dock, docks>>
        BY <3>4 DEF Reconnect
      <4> QED
        BY <1>2, <4>1, <4>2, NewDockTyped DEF DockTypes
    <3> QED
      BY <1>9, <3>1, <3>2, <3>3, <3>4
  <2> QED
    BY <1>1, <1>2, <2>1, <2>2
    DEF TypeInv, TypeOK, ReignTypes, HttpTypes, LoopTypes, DockTypes, CallTypes,
        LoopInv, Registered
<1>10. ASSUME NEW g \in calls, CallNext(g)
       PROVE  TypeInv'
  <2>1. UNCHANGED <<reignVars, httpVars, loopVars, dockVars>>
    BY <1>10 DEF CallNext, Enter, TakeToken, Signal, Unlock
  <2>2. CallTypes' /\ Registered'
    BY <1>1, <1>10, CallStepTyped, CallStepRegistered
  <2> QED
    BY <1>1, <1>2, <2>1, <2>2
    DEF TypeInv, TypeOK, ReignTypes, HttpTypes, LoopTypes, DockTypes, CallTypes,
        LoopInv
<1>11. CASE UNCHANGED vars
  BY <1>1, <1>2, <1>11
  DEF vars, ReignTypes, HttpTypes, LoopTypes, DockTypes, CallTypes, LoopInv,
      Registered
<1>12. 1 \in Reign
  BY SMT DEF Reign
<1>13. TypeInv' => ReignTypes' /\ HttpTypes' /\ LoopTypes' /\ DockTypes' /\ CallTypes'
                   /\ LoopInv' /\ Registered'
  BY DEF TypeInv, TypeOK, ReignTypes, HttpTypes, LoopTypes, DockTypes, CallTypes
<1> QED
  BY <1>4, <1>5, <1>6, <1>7, <1>8, <1>9, <1>10, <1>11, <1>12, <1>13
  DEF Next, LoopNext

(***************************************************************************)
(* The types with what they rest on: which loops exist, and that every     *)
(* goroutine past its start has registered a channel.                      *)
(***************************************************************************)
LEMMA TypesInvariant == Spec => []TypeInv
<1>1. Init => TypeInv
  <2> SUFFICES ASSUME Init PROVE TypeInv
    OBVIOUS
  <2> USE ReignsAssumption DEF ReignsAssumption
  <2>1. TypeOK
    BY SMT DEF Init, TypeOK, HandlerStage
  <2>2. LoopInv
    BY SMT DEF Init, LoopInv, Reign
  <2> QED
    BY <2>1, <2>2 DEF TypeInv, Registered, Init
<1>2. TypeInv /\ [Next]_vars => TypeInv'
  BY TypeStep, ReignsAssumption
<1> QED
  BY <1>1, <1>2, PTL DEF Spec

(***************************************************************************)
(* The node's variables stay in their types, through any number of reigns, *)
(* docks and rounds; in particular cmdCh never exceeds its capacity and no *)
(* goroutine signals on a channel that was never registered.               *)
(***************************************************************************)
THEOREM ReignsTypes == Spec => []TypeOK
<1>1. TypeInv => TypeOK
  BY DEF TypeInv
<1> QED
  BY <1>1, TypesInvariant, PTL
-----------------------------------------------------------------------------
(* /status and the handlers.                                               *)

\* Reigns end in the order they begin, and a handler has seen one.
ReignInv ==
  /\ StatusIsLeadership
  /\ \A r \in 1 .. reign : r # reign => r \in stopped
  /\ \A w \in Write : /\ seen[w] <= reign
                      /\ handler[w] = "checked" => seen[w] # 0
                      /\ handler[w] = "hung" => seen[w] \in stopped

(***************************************************************************)
(* Every step of the node keeps ReignInv: a late rejection finds its reign *)
(* stopped, and a send finds CmdCh nil only if the reign has ended.        *)
(***************************************************************************)
LEMMA ReignStep ==
  ASSUME ReignsAssumption, TypeInv, ReignInv, [Next]_vars
  PROVE  ReignInv'
<1> USE DEF ReignInv, StatusIsLeadership
<1>1. ReignTypes /\ HttpTypes
  BY TypeParts DEF TypeInv
<1>2. CASE Win
  <2>1. /\ reign' = reign + 1 /\ stopped' = stopped /\ CmdCh' = TRUE
        /\ UNCHANGED <<handler, seen>>
    BY <1>2 DEF Win, httpVars
  <2>2. reign \in stopped \cup {0}
    BY <1>2 DEF Win
  <2> QED
    BY <1>1, <2>1, <2>2, SMT DEF ReignTypes, HttpTypes
<1>3. ASSUME NEW r \in Reign, Rejected(r)
      PROVE  ReignInv'
  <2>1. /\ stopped' = stopped \cup {r} /\ CmdCh' = FALSE
        /\ UNCHANGED <<reign, handler, seen>>
    BY <1>3 DEF Rejected, httpVars
  <2>2. r = reign /\ reign > 0
    BY <1>1, <1>3, SMT DEF Rejected, Beats, ReignTypes
  <2> QED
    BY <1>1, <2>1, <2>2, SMT DEF ReignTypes, HttpTypes
<1>4. ASSUME NEW w \in Write, CheckCmdCh(w)
      PROVE  ReignInv'
  <2>1. UNCHANGED reignVars
    BY <1>4 DEF CheckCmdCh
  <2>2. /\ handler' = [handler EXCEPT ![w] = IF CmdCh THEN "checked" ELSE "503"]
        /\ seen' = [seen EXCEPT ![w] = reign]
    BY <1>4 DEF CheckCmdCh
  <2> QED
    BY <1>1, <2>1, <2>2, SMT DEF reignVars, ReignTypes, HttpTypes
<1>5. ASSUME NEW w \in Write, Send(w)
      PROVE  ReignInv'
  <2>1. UNCHANGED <<reignVars, seen>>
    BY <1>5 DEF Send
  <2>2. \E st \in {"hung", "blocked", "waiting"} :
          /\ handler' = [handler EXCEPT ![w] = st]
          /\ st = "hung" => handler[w] = "checked" /\ ~CmdCh
    BY <1>5, SMT DEF Send
  <2>3. PICK st \in {"hung", "blocked", "waiting"} :
          /\ handler' = [handler EXCEPT ![w] = st]
          /\ st = "hung" => handler[w] = "checked" /\ ~CmdCh
    BY <2>2
  <2>4. st = "hung" => seen[w] \in stopped
    BY <1>1, <2>3, SMT DEF ReignTypes, HttpTypes
  <2> QED
    BY <1>1, <2>1, <2>3, <2>4, SMT DEF reignVars, HttpTypes
<1>6. CASE UNCHANGED <<reign, stopped, CmdCh, handler, seen>>
  BY <1>6
<1>7. ASSUME NEW r \in Reign, EndRound(r)
      PROVE  ReignInv'
  <2>1. UNCHANGED <<reignVars, seen>>
    BY <1>7 DEF EndRound
  <2>2. handler' = [handler EXCEPT ![cmd[r]] = "answered"]
    BY <1>7 DEF EndRound
  <2> QED
    BY <1>1, <2>1, <2>2, SMT DEF reignVars, HttpTypes
<1> QED
  BY <1>2, <1>3, <1>4, <1>5, <1>6, <1>7
  DEF Next, LoopNext, CallNext, Dial, DialFails, FindMissing, Reconnect,
      StartRound, Enter, TakeToken, Signal, Unlock, vars, reignVars, httpVars

(***************************************************************************)
(* /status tells whether the node leads, for any number of reigns: a late  *)
(* rejection of an old reign's heartbeat never takes CmdCh from the present*)
(* one.                                                                    *)
(***************************************************************************)
THEOREM StatusTellsLeadership == Spec => []StatusIsLeadership
<1>1. Init => ReignInv
  BY ReignsAssumption, SMT
  DEF Init, ReignInv, StatusIsLeadership, ReignsAssumption
<1>2. TypeInv /\ ReignInv /\ [Next]_vars => ReignInv'
  BY ReignStep, ReignsAssumption
<1>3. ReignInv => StatusIsLeadership
  BY DEF ReignInv
<1> QED
  BY <1>1, <1>2, <1>3, TypesInvariant, PTL DEF Spec

(***************************************************************************)
(* submitWrite hangs on a nil channel only if the reign that its check saw *)
(* ended before its send.                                                  *)
(***************************************************************************)
THEOREM HandlersHangAfterReigns == Spec => []HungMeansDeposed
<1>1. Init => ReignInv
  BY ReignsAssumption, SMT
  DEF Init, ReignInv, StatusIsLeadership, ReignsAssumption
<1>2. TypeInv /\ ReignInv /\ [Next]_vars => ReignInv'
  BY ReignStep, ReignsAssumption
<1>3. ReignInv => HungMeansDeposed
  BY DEF ReignInv, HungMeansDeposed
<1> QED
  BY <1>1, <1>2, <1>3, TypesInvariant, PTL DEF Spec
-----------------------------------------------------------------------------
(* Goroutines that lock a dock or wait for ever.                           *)

CallOf(g) == <<g.peer, g.dock, g.clock, g.reign>>

\* What has been sent belongs to rounds of the past or the present.
SentInv ==
  \A p \in Peer, d \in Dock, c \in Clock, r \in Reign :
    <<p, d, c, r>> \in sent =>
      c < clock[r] \/ (c = clock[r] /\ loop[r] = "round")

\* A goroutine makes one call, and no other makes the same.
OneCall ==
  /\ \A g \in calls : CallOf(g) \in sent
  /\ \A g, h \in calls : CallOf(g) = CallOf(h) => g = h

\* Channels, and tokens in them, are those of calls.
ChannelInv ==
  /\ \A p \in Peer, d \in Dock, c \in Clock :
       jobQ[<<p, d, c>>] # 0 => <<p, d, c, jobQ[<<p, d, c>>]>> \in sent
  /\ token \subseteq sent

\* A call that is still going on has a token in its own channel only if
\* another loop's call has put it there.
TokenInv ==
  \A g \in calls : CallOf(g) \in token => SharedClock(g.peer, g.dock)

LockInv == SentInv /\ OneCall /\ ChannelInv /\ TokenInv /\ LockedMeansSharedClock

(***************************************************************************)
(* A dock that two loops have shared a clock on stays one.                 *)
(***************************************************************************)
LEMMA SharedStays ==
  ASSUME sent \subseteq sent'
  PROVE  \A p, d : SharedClock(p, d) => SharedClock(p, d)'
BY DEF SharedClock

(***************************************************************************)
(* Where the channel that is registered for a call is another's, two loops *)
(* have shared a clock.                                                    *)
(***************************************************************************)
LEMMA ForeignChannel ==
  ASSUME TypeInv, LockInv, NEW g \in calls, g.stage # "start",
         OwnChannel(g) # CallOf(g)
  PROVE  SharedClock(g.peer, g.dock)
<1>1. /\ g.peer \in Peer /\ g.dock \in Dock /\ g.clock \in Clock
      /\ g.reign \in Reign
  BY DEF TypeInv, TypeOK, Goroutine
<1> DEFINE s == jobQ[<<g.peer, g.dock, g.clock>>]
<1>2. s # 0 /\ s # g.reign
  BY DEF TypeInv, Registered, OwnChannel, CallOf
<1>3. <<g.peer, g.dock, g.clock, s>> \in sent
  BY <1>1, <1>2 DEF LockInv, ChannelInv
<1>4. s \in Reign
  BY <1>3 DEF TypeInv, TypeOK, Channel
<1>5. <<g.peer, g.dock, g.clock, g.reign>> \in sent
  BY DEF LockInv, OneCall, CallOf
<1> QED
  BY <1>1, <1>2, <1>3, <1>4, <1>5 DEF SharedClock

(***************************************************************************)
(* The end of a call: its token goes into a channel of no other call that  *)
(* is going on, unless two loops share the clock.                          *)
(***************************************************************************)
LEMMA FinishKeepsLockInv ==
  ASSUME TypeInv, LockInv, NEW g \in calls, g.stage # "start", Finish(g),
         UNCHANGED <<clock, loop, jobQ, sent>>
  PROVE  LockInv'
<1>1. /\ g.peer \in Peer /\ g.dock \in Dock /\ g.clock \in Clock
      /\ g.reign \in Reign
  BY DEF TypeInv, TypeOK, Goroutine
<1>2. OwnChannel(g) \in sent
  BY <1>1 DEF OwnChannel, TypeInv, Registered, LockInv, ChannelInv
<1>3. SentInv' /\ OneCall' /\ ChannelInv'
  BY <1>2 DEF LockInv, SentInv, OneCall, ChannelInv, Finish, CallOf
<1>4. ASSUME NEW h \in calls \ {g}, CallOf(h) \in token'
      PROVE  SharedClock(h.peer, h.dock)
  <2>1. CASE CallOf(h) \in token
    BY <2>1 DEF LockInv, TokenInv
  <2>2. CASE CallOf(h) = OwnChannel(g)
    <3>1. h.peer = g.peer /\ h.dock = g.dock
      BY <2>2 DEF CallOf, OwnChannel
    <3>2. CallOf(h) # CallOf(g)
      BY DEF LockInv, OneCall
    <3> QED
      BY <2>2, <3>1, <3>2, ForeignChannel
  <2> QED
    BY <1>4, <2>1, <2>2 DEF Finish
<1>5. TokenInv'
  BY <1>4, SharedStays DEF TokenInv, Finish, CallOf
<1>6. LockedMeansSharedClock'
  BY SharedStays DEF LockedMeansSharedClock, LockInv, Finish
<1> QED
  BY <1>3, <1>5, <1>6 DEF LockInv

(***************************************************************************)
(* A call that moves on without a new token.                               *)
(***************************************************************************)
LEMMA LaterKeepsLockInv ==
  ASSUME TypeInv, LockInv, NEW g \in calls, NEW h \in Goroutine, Later(g, h),
         h.stage = "locked" => SharedClock(g.peer, g.dock),
         token' \subseteq token, UNCHANGED <<clock, loop, sent>>,
         jobQ' = jobQ \/ jobQ' = [jobQ EXCEPT ![<<g.peer, g.dock, g.clock>>] = g.reign]
  PROVE  LockInv'
<1>1. CallOf(h) = CallOf(g)
  BY DEF CallOf, Later
<1>2. SentInv' /\ OneCall'
  BY <1>1 DEF LockInv, SentInv, OneCall, Later, CallOf
<1>3. ChannelInv'
  <2>1. jobQ \in [Peer \X Dock \X Clock -> 0 .. MaxReign]
    BY DEF TypeInv, TypeOK
  <2>2. CallOf(g) \in sent
    BY DEF LockInv, OneCall
  <2>3. ASSUME NEW p \in Peer, NEW d \in Dock, NEW c \in Clock,
               jobQ'[<<p, d, c>>] # 0
        PROVE  <<p, d, c, jobQ'[<<p, d, c>>]>> \in sent
    <3>1. CASE jobQ'[<<p, d, c>>] = jobQ[<<p, d, c>>]
      BY <2>3, <3>1 DEF LockInv, ChannelInv
    <3>2. CASE jobQ'[<<p, d, c>>] # jobQ[<<p, d, c>>]
      <4>1. <<p, d, c>> = <<g.peer, g.dock, g.clock>> /\ jobQ'[<<p, d, c>>] = g.reign
        BY <2>1, <3>2
      <4> QED
        BY <2>2, <4>1 DEF CallOf
    <3> QED
      BY <3>1, <3>2
  <2> QED
    BY <2>3 DEF LockInv, ChannelInv
<1>4. TokenInv' /\ LockedMeansSharedClock'
  BY <1>1, SharedStays DEF LockInv, TokenInv, LockedMeansSharedClock, Later, CallOf
<1> QED
  BY <1>2, <1>3, <1>4 DEF LockInv

(***************************************************************************)
(* A new round: its calls are new, for its clock has not been used by its  *)
(* loop.                                                                   *)
(***************************************************************************)
LEMMA StartRoundKeepsLockInv ==
  ASSUME TypeInv, LockInv, NEW r \in Reign, StartRound(r)
  PROVE  LockInv'
<1> DEFINE new(p) == [peer |-> p, dock |-> dock[p], clock |-> clock[r], reign |-> r,
                      stage |-> "start", prev |-> 0]
           docked == {p \in Peer : dock[p] # 0}
<1>1. /\ UNCHANGED <<clock, jobQ, token>>
      /\ loop[r] = "idle" /\ loop' = [loop EXCEPT ![r] = "round"]
      /\ calls' = calls \cup {new(p) : p \in docked}
      /\ sent' = sent \cup {<<p, dock[p], clock[r], r>> : p \in docked}
  BY DEF StartRound
<1>2. \A p \in docked : /\ CallOf(new(p)) = <<p, dock[p], clock[r], r>>
                         /\ new(p).stage = "start" /\ new(p).peer = p
  BY DEF CallOf
<1>3. \A p \in Peer, d \in Dock : <<p, d, clock[r], r>> \notin sent
  BY <1>1, SMT DEF LockInv, SentInv, TypeInv, TypeOK, Channel
<1>4. \A p \in docked : CallOf(new(p)) \in sent' /\ CallOf(new(p)) \notin sent
  BY <1>1, <1>2, <1>3 DEF TypeInv, TypeOK, Channel
<1>5. \A p \in docked, q \in docked : CallOf(new(p)) = CallOf(new(q)) => p = q
  BY <1>2
<1>6. SentInv'
  <2>1. loop \in [Reign -> {"none", "idle", "round"}]
    BY DEF TypeInv, TypeOK
  <2> QED
    BY <1>1, <2>1 DEF LockInv, SentInv
<1> HIDE DEF new
<1>7. OneCall'
  <2>1. \A g \in calls' : CallOf(g) \in sent'
    BY <1>1, <1>4 DEF LockInv, OneCall
  <2>2. ASSUME NEW g \in calls', NEW h \in calls', CallOf(g) = CallOf(h)
        PROVE  g = h
    <3>1. CASE g \in calls /\ h \in calls
      BY <2>2, <3>1 DEF LockInv, OneCall
    <3>2. CASE g \in calls /\ h \notin calls
      BY <1>1, <1>4, <2>2, <3>2 DEF LockInv, OneCall
    <3>3. CASE g \notin calls /\ h \in calls
      BY <1>1, <1>4, <2>2, <3>3 DEF LockInv, OneCall
    <3>4. CASE g \notin calls /\ h \notin calls
      BY <1>1, <1>5, <2>2, <3>4
    <3> QED
      BY <3>1, <3>2, <3>3, <3>4
  <2> QED
    BY <2>1, <2>2 DEF OneCall, CallOf
<1>8. ChannelInv'
  BY <1>1 DEF LockInv, ChannelInv
<1>9. TokenInv'
  <2>1. ASSUME NEW g \in calls', CallOf(g) \in token
        PROVE  SharedClock(g.peer, g.dock)
    BY <1>1, <1>4, <2>1 DEF LockInv, TokenInv, ChannelInv
  <2> QED
    BY <1>1, <2>1, SharedStays DEF TokenInv, CallOf
<1>10. LockedMeansSharedClock'
  BY <1>1, <1>2, SharedStays DEF LockInv, LockedMeansSharedClock
<1> QED
  BY <1>6, <1>7, <1>8, <1>9, <1>10 DEF LockInv

(***************************************************************************)
(* What the steps of loops and reigns leave of LockInv.                    *)
(***************************************************************************)
LEMMA OthersKeepLockInv ==
  ASSUME LockInv, SentInv', UNCHANGED callVars
  PROVE  LockInv'
BY DEF LockInv, OneCall, ChannelInv, TokenInv, LockedMeansSharedClock,
       SharedClock, CallOf, callVars

(***************************************************************************)
(* Every step of the node keeps LockInv.                                   *)
(***************************************************************************)
LEMMA LockStep ==
  ASSUME ReignsAssumption, TypeInv, LockInv, [Next]_vars
  PROVE  LockInv'
<1>1. loop \in [Reign -> {"none", "idle", "round"}] /\ clock \in [Reign -> 0 .. MaxRound]
  BY DEF TypeInv, TypeOK
<1>2. CASE Win
  <2>1. /\ loop' = [loop EXCEPT ![reign + 1] = "idle"]
        /\ UNCHANGED <<clock, callVars>>
    BY <1>2 DEF Win
  <2>2. reign + 1 \in Reign => loop[reign + 1] = "none"
    BY SMT DEF TypeInv, TypeOK, LoopInv, Reign
  <2>3. SentInv'
    BY <1>1, <2>1, <2>2, SMT DEF LockInv, SentInv, callVars
  <2> QED
    BY <2>1, <2>3, OthersKeepLockInv
<1>3. ASSUME NEW r \in Reign, StartRound(r)
      PROVE  LockInv'
  BY <1>3, StartRoundKeepsLockInv
<1>4. ASSUME NEW r \in Reign, EndRound(r)
      PROVE  LockInv'
  <2>1. /\ loop' = [loop EXCEPT ![r] = "idle"] /\ clock' = [clock EXCEPT ![r] = @ + 1]
        /\ UNCHANGED callVars
    BY <1>4 DEF EndRound
  <2>2. SentInv'
    BY <1>1, <2>1, SMT DEF LockInv, SentInv, callVars, Clock, ReignsAssumption
  <2> QED
    BY <2>1, <2>2, OthersKeepLockInv
<1>5. ASSUME NEW g \in calls, CallNext(g)
      PROVE  LockInv'
  <2>1. UNCHANGED <<clock, loop, sent>>
    BY <1>5 DEF CallNext, Enter, TakeToken, Signal, Unlock, loopVars
  <2>2. g.prev \in 0 .. MaxReign /\ 0 \in 0 .. MaxReign
    BY SMT DEF TypeInv, TypeOK, Goroutine, ReignsAssumption
  <2>3. CASE Enter(g)
    <3>1. PICK h \in Goroutine : Later(g, h) /\ h.stage \in {"call", "wait"}
      <4>1. CASE g.clock = 0
        BY <2>2, <2>3, <4>1, Moved DEF Enter, Later, TypeInv
      <4>2. CASE g.clock # 0
        <5>1. jobQ[<<g.peer, g.dock, g.clock - 1>>] \in 0 .. MaxReign
          BY <4>2, ReignsAssumption, PreviousChannel DEF TypeInv
        <5> QED
          BY <2>3, <4>2, <5>1, Moved DEF Enter, Later, TypeInv
      <4> QED
        BY <4>1, <4>2
    <3> QED
      BY <2>1, <2>3, <3>1, LaterKeepsLockInv DEF Enter
  <2>4. CASE TakeToken(g)
    <3>1. PICK h \in Goroutine : Later(g, h) /\ h.stage = "call"
      BY <2>2, <2>4, Moved DEF TakeToken, Later, TypeInv
    <3> QED
      BY <2>1, <2>4, <3>1, LaterKeepsLockInv DEF TakeToken
  <2>5. CASE Signal(g) /\ OwnChannel(g) \in token
    <3>1. SharedClock(g.peer, g.dock)
      <4>1. CASE OwnChannel(g) = CallOf(g)
        BY <2>5, <4>1 DEF LockInv, TokenInv
      <4>2. CASE OwnChannel(g) # CallOf(g)
        BY <2>5, <4>2, ForeignChannel DEF Signal
      <4> QED
        BY <4>1, <4>2
    <3>2. PICK h \in Goroutine : Later(g, h)
      BY <2>2, <2>5, Moved DEF Signal, Later, TypeInv
    <3> QED
      BY <2>1, <2>5, <3>1, <3>2, LaterKeepsLockInv DEF Signal
  <2>6. CASE (Signal(g) /\ OwnChannel(g) \notin token) \/ Unlock(g)
    BY <2>1, <2>6, FinishKeepsLockInv DEF Signal, Unlock
  <2> QED
    BY <1>5, <2>3, <2>4, <2>5, <2>6 DEF CallNext
<1>6. CASE UNCHANGED <<loop, clock, callVars>>
  BY <1>6, OthersKeepLockInv DEF LockInv, SentInv, callVars
<1> QED
  BY <1>2, <1>3, <1>4, <1>5, <1>6
  DEF Next, LoopNext, Rejected, CheckCmdCh, Send, Dial, DialFails, FindMissing,
      Reconnect, vars, loopVars, dockVars, httpVars, reignVars

(***************************************************************************)
(* A goroutine locks a dock against everyone only where the loops of two   *)
(* reigns have used one clock on it, for any number of peers, docks, rounds*)
(* and reigns.                                                             *)
(***************************************************************************)
THEOREM LocksNeedTwoLoops == Spec => []LockedMeansSharedClock
<1>1. Init => LockInv
  BY DEF Init, LockInv, SentInv, OneCall, ChannelInv, TokenInv, LockedMeansSharedClock
<1>2. TypeInv /\ LockInv /\ [Next]_vars => LockInv'
  BY LockStep, ReignsAssumption
<1>3. LockInv => LockedMeansSharedClock
  BY DEF LockInv
<1> QED
  BY <1>1, <1>2, <1>3, TypesInvariant, PTL DEF Spec

\* A call that has been sent has registered a channel or is about to; once
\* its round is over it has, unless two loops share a clock on the dock.
EnteredInv ==
  \A p \in Peer, d \in Dock, c \in Clock, r \in Reign :
    <<p, d, c, r>> \in sent =>
      /\ \/ jobQ[<<p, d, c>>] # 0
         \/ \E g \in calls : CallOf(g) = <<p, d, c, r>> /\ g.stage = "start"
      /\ c < clock[r] => jobQ[<<p, d, c>>] # 0 \/ SharedClock(p, d)

OrphanInv == EnteredInv /\ OrphanMeansYoungDock

(***************************************************************************)
(* EnteredInv after a step, read off the state before it where nothing that*)
(* was sent is forgotten.                                                  *)
(***************************************************************************)
LEMMA EnteredNext ==
  ASSUME sent \subseteq sent',
         \A p \in Peer, d \in Dock, c \in Clock, r \in Reign :
           <<p, d, c, r>> \in sent' =>
             /\ \/ jobQ'[<<p, d, c>>] # 0
                \/ \E g \in calls' : CallOf(g) = <<p, d, c, r>> /\ g.stage = "start"
             /\ c < clock'[r] => jobQ'[<<p, d, c>>] # 0 \/ SharedClock(p, d)
  PROVE  EnteredInv'
BY SharedStays DEF EnteredInv, CallOf

(***************************************************************************)
(* A goroutine is not sent again what was not sent before: the previous    *)
(* round of its loop is over.                                              *)
(***************************************************************************)
LEMMA PreviousIsPast ==
  ASSUME ReignsAssumption, TypeInv, LockInv, NEW g \in calls
  PROVE  /\ g.peer \in Peer /\ g.dock \in Dock /\ g.clock \in Clock
         /\ g.reign \in Reign /\ g.clock - 1 < clock[g.reign]
<1>1. /\ g.peer \in Peer /\ g.dock \in Dock /\ g.clock \in Clock
      /\ g.reign \in Reign
  BY DEF TypeInv, TypeOK, Goroutine
<1>2. g.clock < clock[g.reign] \/ g.clock = clock[g.reign]
  BY <1>1 DEF LockInv, OneCall, SentInv, CallOf
<1>3. clock[g.reign] \in 0 .. MaxRound /\ g.clock \in Int
  BY <1>1, SMT DEF TypeInv, TypeOK, Clock, ReignsAssumption
<1> QED
  BY <1>1, <1>2, <1>3, SMT DEF ReignsAssumption

(***************************************************************************)
(* A new round, whose clock is its loop's present one.                     *)
(***************************************************************************)
LEMMA StartRoundKeepsOrphanInv ==
  ASSUME ReignsAssumption, TypeInv, LockInv, OrphanInv, NEW r \in Reign, StartRound(r)
  PROVE  OrphanInv'
<1> DEFINE new(p) == [peer |-> p, dock |-> dock[p], clock |-> clock[r], reign |-> r,
                      stage |-> "start", prev |-> 0]
           docked == {p \in Peer : dock[p] # 0}
<1>1. /\ UNCHANGED <<clock, jobQ>>
      /\ calls' = calls \cup {new(p) : p \in docked}
      /\ sent' = sent \cup {<<p, dock[p], clock[r], r>> : p \in docked}
  BY DEF StartRound
<1>2. \A p \in docked : /\ CallOf(new(p)) = <<p, dock[p], clock[r], r>>
                         /\ new(p).stage = "start"
  BY DEF CallOf
<1>3. clock[r] \in 0 .. MaxRound
  BY DEF TypeInv, TypeOK
<1>4. ~(clock[r] < clock[r])
  BY <1>3, SMT DEF ReignsAssumption
<1> HIDE DEF new
<1>5. EnteredInv'
  <2>1. ASSUME NEW p \in Peer, NEW d \in Dock, NEW c \in Clock, NEW s \in Reign,
               <<p, d, c, s>> \in sent'
        PROVE  /\ \/ jobQ[<<p, d, c>>] # 0
                  \/ \E g \in calls' : CallOf(g) = <<p, d, c, s>> /\ g.stage = "start"
               /\ c < clock[s] => jobQ[<<p, d, c>>] # 0 \/ SharedClock(p, d)
    <3>1. CASE <<p, d, c, s>> \in sent
      BY <1>1, <3>1 DEF OrphanInv, EnteredInv
    <3>2. CASE <<p, d, c, s>> \notin sent
      <4>1. PICK q \in docked : <<p, d, c, s>> = <<q, dock[q], clock[r], r>>
        BY <1>1, <2>1, <3>2
      <4>2. new(q) \in calls' /\ CallOf(new(q)) = <<p, d, c, s>> /\ new(q).stage = "start"
        BY <1>1, <1>2, <4>1
      <4>3. c = clock[r] /\ s = r
        BY <4>1
      <4> QED
        BY <1>4, <4>2, <4>3
    <3> QED
      BY <3>1, <3>2
  <2> QED
    BY <1>1, <2>1, SharedStays DEF EnteredInv, CallOf
<1>6. OrphanMeansYoungDock'
  <2>1. ASSUME NEW g \in calls', g.stage = "wait", g.prev = 0
        PROVE  \/ <<g.peer, g.dock, g.clock - 1, g.reign>> \notin sent'
               \/ SharedClock(g.peer, g.dock)'
    <3>1. g \in calls
      BY <1>1, <1>2, <2>1
    <3>2. CASE SharedClock(g.peer, g.dock)
      BY <1>1, <3>2, SharedStays
    <3>3. CASE <<g.peer, g.dock, g.clock - 1, g.reign>> \notin sent
      <4>1. g.clock - 1 < clock[g.reign]
        BY <3>1, PreviousIsPast
      <4>2. ~(g.clock - 1 = clock[r] /\ g.reign = r)
        BY <1>4, <4>1
      <4> QED
        BY <1>1, <3>3, <4>2
    <3> QED
      BY <2>1, <3>1, <3>2, <3>3 DEF OrphanInv, OrphanMeansYoungDock
  <2> QED
    BY <2>1 DEF OrphanMeansYoungDock
<1> QED
  BY <1>5, <1>6 DEF OrphanInv

(***************************************************************************)
(* The end of a round: its goroutines have registered, or a locked dock    *)
(* keeps them from it.                                                     *)
(***************************************************************************)
LEMMA EndRoundKeepsOrphanInv ==
  ASSUME ReignsAssumption, TypeInv, LockInv, OrphanInv, NEW r \in Reign, EndRound(r)
  PROVE  OrphanInv'
<1>1. /\ clock' = [clock EXCEPT ![r] = @ + 1] /\ Started(r)
      /\ UNCHANGED <<jobQ, token, calls, sent>>
  BY DEF EndRound, callVars
<1>2. clock \in [Reign -> 0 .. MaxRound]
  BY DEF TypeInv, TypeOK
<1>3. ASSUME NEW p \in Peer, NEW d \in Dock, NEW c \in Clock, NEW s \in Reign,
             <<p, d, c, s>> \in sent, c < clock'[s]
      PROVE  jobQ[<<p, d, c>>] # 0 \/ SharedClock(p, d)
  <2>1. CASE c < clock[s]
    BY <1>3, <2>1 DEF OrphanInv, EnteredInv
  <2>2. CASE ~(c < clock[s])
    <3>1. s = r
      BY <1>1, <1>2, <1>3, <2>2
    <3>2. CASE jobQ[<<p, d, c>>] = 0
      <4>1. PICK g \in calls : CallOf(g) = <<p, d, c, s>> /\ g.stage = "start"
        BY <1>3, <3>2 DEF OrphanInv, EnteredInv
      <4>2. g.reign = r /\ g.peer = p /\ g.dock = d
        BY <3>1, <4>1 DEF CallOf
      <4>3. Locked(p, d)
        BY <1>1, <4>1, <4>2 DEF Started
      <4> QED
        BY <4>3 DEF Locked, LockInv, LockedMeansSharedClock
    <3> QED
      BY <3>2
  <2> QED
    BY <2>1, <2>2
<1>4. EnteredInv'
  <2>1. \A p \in Peer, d \in Dock, c \in Clock, s \in Reign :
          <<p, d, c, s>> \in sent =>
            \/ jobQ[<<p, d, c>>] # 0
            \/ \E g \in calls : CallOf(g) = <<p, d, c, s>> /\ g.stage = "start"
    BY DEF OrphanInv, EnteredInv
  <2> QED
    BY <1>1, <1>3, <2>1, EnteredNext
<1>5. OrphanMeansYoungDock'
  BY <1>1 DEF OrphanInv, OrphanMeansYoungDock, SharedClock
<1> QED
  BY <1>4, <1>5 DEF OrphanInv

(***************************************************************************)
(* The steps of a goroutine: it waits on no channel only if its loop's     *)
(* previous round has registered none on this dock.                        *)
(***************************************************************************)
LEMMA CallKeepsOrphanInv ==
  ASSUME ReignsAssumption, TypeInv, LockInv, OrphanInv, NEW g \in calls, CallNext(g)
  PROVE  OrphanInv'
<1>1. UNCHANGED <<clock, sent>>
  BY DEF CallNext, Enter, TakeToken, Signal, Unlock, loopVars
<1>2. TypeOK /\ jobQ \in [Peer \X Dock \X Clock -> 0 .. MaxReign]
  BY DEF TypeInv, TypeOK
<1>3. /\ g.peer \in Peer /\ g.dock \in Dock /\ g.clock \in Clock
      /\ g.reign \in Reign /\ g.clock - 1 < clock[g.reign]
  BY PreviousIsPast
<1>4. \A p \in Peer, d \in Dock, c \in Clock :
        jobQ[<<p, d, c>>] # 0 => jobQ'[<<p, d, c>>] # 0
  <2>1. CASE jobQ' = jobQ
    BY <2>1
  <2>2. CASE Enter(g)
    <3>1. g.reign # 0
      BY <1>3, SMT DEF Reign, ReignsAssumption
    <3> QED
      BY <1>2, <2>2, <3>1 DEF Enter
  <2> QED
    BY <2>1, <2>2 DEF CallNext, TakeToken, Signal, Unlock
<1>5. g.stage # "start" \/ jobQ'[<<g.peer, g.dock, g.clock>>] # 0
  <2>1. CASE Enter(g)
    <3>1. g.reign # 0
      BY <1>3, SMT DEF Reign, ReignsAssumption
    <3>2. <<g.peer, g.dock, g.clock>> \in Peer \X Dock \X Clock
      BY <1>3
    <3> QED
      BY <1>2, <2>1, <3>1, <3>2 DEF Enter
  <2> QED
    BY <2>1 DEF CallNext, TakeToken, Signal, Unlock
<1>6. calls \ {g} \subseteq calls'
  BY <1>2, CallMoves DEF Finish, Later
<1>7. EnteredInv'
  <2>1. ASSUME NEW p \in Peer, NEW d \in Dock, NEW c \in Clock, NEW r \in Reign,
               <<p, d, c, r>> \in sent
        PROVE  /\ \/ jobQ'[<<p, d, c>>] # 0
                  \/ \E h \in calls' : CallOf(h) = <<p, d, c, r>> /\ h.stage = "start"
               /\ c < clock[r] => jobQ'[<<p, d, c>>] # 0 \/ SharedClock(p, d)
    <3>1. CASE jobQ[<<p, d, c>>] # 0
      BY <1>4, <3>1
    <3>2. CASE jobQ[<<p, d, c>>] = 0
      <4>1. PICK h \in calls : CallOf(h) = <<p, d, c, r>> /\ h.stage = "start"
        BY <2>1, <3>2 DEF OrphanInv, EnteredInv
      <4>2. h = g => jobQ'[<<p, d, c>>] # 0
        BY <1>5, <4>1 DEF CallOf
      <4>3. c < clock[r] => SharedClock(p, d)
        BY <2>1, <3>2 DEF OrphanInv, EnteredInv
      <4> QED
        BY <1>6, <4>1, <4>2, <4>3
    <3> QED
      BY <3>1, <3>2
  <2> QED
    BY <1>1, <2>1, EnteredNext
<1>8. \A h \in calls : h.stage = "wait" /\ h.prev = 0 =>
        \/ <<h.peer, h.dock, h.clock - 1, h.reign>> \notin sent
        \/ SharedClock(h.peer, h.dock)
  BY DEF OrphanInv, OrphanMeansYoungDock
<1>9. OrphanMeansYoungDock'
  <2>1. CASE Enter(g) /\ g.clock # 0
    <3>1. g.clock - 1 \in Clock
      BY <1>3, <2>1, SMT DEF Clock, ReignsAssumption
    <3> DEFINE q == jobQ[<<g.peer, g.dock, g.clock - 1>>]
    <3>2. q \in 0 .. MaxReign
      BY <1>2, <1>3, <3>1
    <3>3. PICK h \in Goroutine :
            /\ calls' = (calls \ {g}) \cup {h}
            /\ h.peer = g.peer /\ h.dock = g.dock /\ h.clock = g.clock
            /\ h.reign = g.reign /\ h.stage = "wait" /\ h.prev = q
      BY <1>2, <2>1, <3>2, Moved DEF Enter
    <3>4. q = 0 => \/ <<g.peer, g.dock, g.clock - 1, g.reign>> \notin sent
                   \/ SharedClock(g.peer, g.dock)
      BY <1>3, <3>1 DEF OrphanInv, EnteredInv
    <3> HIDE DEF q
    <3> QED
      BY <1>1, <1>8, <3>3, <3>4 DEF OrphanMeansYoungDock, SharedClock
  <2>2. CASE ~(Enter(g) /\ g.clock # 0)
    <3>1. Finish(g) \/ Becomes(g, "call", 0) \/ Becomes(g, "locked", 0)
      BY <2>2 DEF CallNext, Enter, TakeToken, Signal, Unlock
    <3>2. 0 \in 0 .. MaxReign
      BY SMT DEF ReignsAssumption
    <3>3. \A h \in calls' : h \in calls \/ h.stage \in {"call", "locked"}
      BY <1>2, <3>1, <3>2, Moved DEF Finish
    <3> QED
      BY <1>1, <1>8, <3>3 DEF OrphanMeansYoungDock, SharedClock
  <2> QED
    BY <2>1, <2>2
<1> QED
  BY <1>7, <1>9 DEF OrphanInv

(***************************************************************************)
(* A goroutine waits on a nil channel only on a dock that is younger than  *)
(* its loop's previous round, or that two loops have shared a clock on, for*)
(* any number of peers, docks, rounds and reigns.                          *)
(***************************************************************************)
THEOREM OrphansNeedYoungDocks == Spec => []OrphanMeansYoungDock
<1>1. Init => LockInv /\ OrphanInv
  BY DEF Init, LockInv, SentInv, OneCall, ChannelInv, TokenInv,
         LockedMeansSharedClock, OrphanInv, EnteredInv, OrphanMeansYoungDock
<1>2. TypeInv /\ LockInv /\ [Next]_vars => LockInv'
  BY LockStep, ReignsAssumption
<1>3. TypeInv /\ LockInv /\ OrphanInv /\ [Next]_vars => OrphanInv'
  <2> SUFFICES ASSUME TypeInv, LockInv, OrphanInv, [Next]_vars
               PROVE  OrphanInv'
    OBVIOUS
  <2>1. CASE UNCHANGED <<clock, jobQ, token, calls, sent>>
    <3>1. \A p \in Peer, d \in Dock, c \in Clock, r \in Reign :
            <<p, d, c, r>> \in sent =>
              /\ \/ jobQ[<<p, d, c>>] # 0
                 \/ \E g \in calls : CallOf(g) = <<p, d, c, r>> /\ g.stage = "start"
              /\ c < clock[r] => jobQ[<<p, d, c>>] # 0 \/ SharedClock(p, d)
      BY DEF OrphanInv, EnteredInv
    <3>2. EnteredInv'
      BY <2>1, <3>1, EnteredNext
    <3>3. OrphanMeansYoungDock'
      BY <2>1 DEF OrphanInv, OrphanMeansYoungDock, SharedClock
    <3> QED
      BY <3>2, <3>3 DEF OrphanInv
  <2> QED
    BY <2>1, ReignsAssumption, StartRoundKeepsOrphanInv, EndRoundKeepsOrphanInv,
       CallKeepsOrphanInv
    DEF Next, LoopNext, Win, Rejected, CheckCmdCh, Send, Dial, DialFails,
        FindMissing, Reconnect, vars, loopVars, callVars
<1>4. OrphanInv => OrphanMeansYoungDock
  BY DEF OrphanInv
<1> QED
  BY <1>1, <1>2, <1>3, <1>4, TypesInvariant, PTL DEF Spec

-----------------------------------------------------------------------------
(* The order of the calls to a peer.                                       *)

\* A round sends at most one call to a peer, on whichever dock it finds.
OneDock ==
  \A p \in Peer, d, e \in Dock, c \in Clock, r \in Reign :
    <<p, d, c, r>> \in sent /\ <<p, e, c, r>> \in sent => d = e

\* The call of that round to p has returned, if there was one.
Returned(p, c, r) ==
  \A h \in calls :
    h.peer = p /\ h.clock = c /\ h.reign = r => ~CallPending(h)

\* A token in a call's own channel says that the call has returned.
TokenOrder ==
  \A p \in Peer, d \in Dock, c \in Clock, r \in Reign :
    <<p, d, c, r>> \in token => Returned(p, c, r) \/ InTheWay(p, d, c, c + 1, r)

\* The goroutine of that call has had its token.
Passed(p, d, c, r) ==
  /\ <<p, d, c, r>> \in sent
  /\ \A g \in calls : CallOf(g) = <<p, d, c, r>> => g.stage \notin {"start", "wait"}

\* It has had it after the calls of all earlier rounds of its loop.
PassedInv ==
  \A p \in Peer, d \in Dock, c \in Clock, r \in Reign :
    Passed(p, d, c, r) =>
      \A b \in Clock : b < c => Returned(p, b, r) \/ InTheWay(p, d, b, c, r)

CallOrder == OneDock /\ TokenOrder /\ PassedInv

(***************************************************************************)
(* A round that is in the way of some rounds is in the way of more of them,*)
(* and stays there.                                                        *)
(***************************************************************************)
LEMMA WayWidens ==
  ASSUME NEW p, NEW d, NEW r, NEW a \in Int, NEW b \in Int, NEW c \in Int, NEW e \in Int,
         a <= b, c <= e, InTheWay(p, d, b, c, r)
  PROVE  InTheWay(p, d, a, e, r)
BY SMT DEF InTheWay

LEMMA WayStays ==
  ASSUME sent \subseteq sent'
  PROVE  \A p, d, b, c, r : InTheWay(p, d, b, c, r) => InTheWay(p, d, b, c, r)'
BY DEF InTheWay

(***************************************************************************)
(* No step of a goroutine makes a call pending that was not.               *)
(***************************************************************************)
LEMMA CallReturnsOnce ==
  ASSUME ReignsAssumption, TypeInv, NEW g \in calls, CallNext(g)
  PROVE  \/ Finish(g) /\ (Signal(g) \/ Unlock(g))
         \/ \E h \in Goroutine :
              /\ Later(g, h)
              /\ CallPending(h) => CallPending(g)
              /\ \/ h.stage = "wait"
                 \/ TakeToken(g) \/ Signal(g) \/ (Enter(g) /\ g.clock = 0)
<1>1. TypeOK /\ g \in Goroutine
  BY DEF TypeInv, TypeOK
<1>2. 0 \in 0 .. MaxReign
  BY SMT DEF ReignsAssumption
<1>3. CASE Enter(g) /\ g.clock # 0
  <2>1. jobQ[<<g.peer, g.dock, g.clock - 1>>] \in 0 .. MaxReign
    BY <1>1, <1>3, PreviousChannel
  <2> QED
    BY <1>1, <1>3, <2>1, Moved DEF Enter, Later, CallPending
<1>4. CASE Becomes(g, "call", 0) /\ (TakeToken(g) \/ (Enter(g) /\ g.clock = 0))
  BY <1>1, <1>2, <1>4, Moved DEF Enter, TakeToken, Later, CallPending
<1>5. CASE Becomes(g, "locked", 0) /\ Signal(g)
  BY <1>1, <1>2, <1>5, Moved DEF Later, CallPending
<1> QED
  BY <1>3, <1>4, <1>5 DEF CallNext, Enter, TakeToken, Signal, Unlock

(***************************************************************************)
(* A goroutine that gets its token does so after the calls of all earlier  *)
(* rounds of its loop, or with another loop's round in the way.            *)
(***************************************************************************)
LEMMA TokenOrders ==
  ASSUME ReignsAssumption, TypeInv, LockInv, CallOrder,
         NEW g \in calls, TakeToken(g), NEW b \in Clock, b < g.clock
  PROVE  Returned(g.peer, b, g.reign) \/ InTheWay(g.peer, g.dock, b, g.clock, g.reign)
<1>1. /\ g.peer \in Peer /\ g.dock \in Dock /\ g.clock \in Clock
      /\ g.reign \in Reign
  BY PreviousIsPast
<1>2. <<g.peer, g.dock, g.clock - 1, g.prev>> \in token
  BY DEF TakeToken, Previous
<1>3. g.clock - 1 \in Clock /\ g.prev \in Reign
  BY <1>2 DEF TypeInv, TypeOK, Channel
<1>4. <<g.peer, g.dock, g.clock - 1, g.prev>> \in sent
  BY <1>2 DEF LockInv, ChannelInv
<1>5. /\ b \in Int /\ g.clock \in Int /\ g.clock - 1 \in Int
      /\ b <= g.clock - 1 /\ g.clock - 1 <= g.clock /\ b <= b
      /\ g.clock <= g.clock /\ g.clock - 1 \in b .. g.clock - 1
  BY <1>1, SMT DEF Clock, ReignsAssumption
<1>6. CASE g.prev # g.reign
  BY <1>3, <1>4, <1>5, <1>6 DEF InTheWay
<1>7. CASE g.prev = g.reign /\ ~Returned(g.peer, g.clock - 1, g.reign)
  <2>1. InTheWay(g.peer, g.dock, g.clock - 1, g.clock - 1 + 1, g.reign)
    BY <1>1, <1>2, <1>3, <1>7 DEF CallOrder, TokenOrder
  <2>2. g.clock - 1 + 1 = g.clock
    BY <1>5
  <2> QED
    BY <1>5, <2>1, <2>2, WayWidens
<1>8. CASE g.prev = g.reign /\ Returned(g.peer, g.clock - 1, g.reign)
  <2>1. Passed(g.peer, g.dock, g.clock - 1, g.reign)
    BY <1>4, <1>8 DEF Passed, Returned, CallOf, CallPending
  <2>2. CASE b < g.clock - 1
    <3>1. \/ Returned(g.peer, b, g.reign)
          \/ InTheWay(g.peer, g.dock, b, g.clock - 1, g.reign)
      BY <1>1, <1>3, <2>1, <2>2 DEF CallOrder, PassedInv
    <3> QED
      BY <1>5, <3>1, WayWidens
  <2>3. CASE b = g.clock - 1
    BY <1>8, <2>3
  <2> QED
    BY <1>5, <2>2, <2>3, SMT
<1> QED
  BY <1>6, <1>7, <1>8

(***************************************************************************)
(* The steps of a goroutine keep the order of the calls.                   *)
(***************************************************************************)
LEMMA CallKeepsCallOrder ==
  ASSUME ReignsAssumption, TypeInv, LockInv, CallOrder, NEW g \in calls, CallNext(g)
  PROVE  CallOrder'
<1>1. sent' = sent
  BY DEF CallNext, Enter, TakeToken, Signal, Unlock
<1>2. /\ g.peer \in Peer /\ g.dock \in Dock /\ g.clock \in Clock
      /\ g.reign \in Reign /\ CallOf(g) \in sent
  BY PreviousIsPast DEF LockInv, OneCall
<1>3. OneDock'
  BY <1>1 DEF CallOrder, OneDock
<1>4. ASSUME NEW p, NEW c, NEW r, Returned(p, c, r)
      PROVE  Returned(p, c, r)'
  BY <1>4, CallReturnsOnce DEF Returned, Finish, Later, CallPending
<1>5. TokenOrder'
  <2>1. ASSUME NEW p \in Peer, NEW d \in Dock, NEW c \in Clock, NEW r \in Reign,
               <<p, d, c, r>> \in token'
        PROVE  Returned(p, c, r)' \/ InTheWay(p, d, c, c + 1, r)'
    <3>1. CASE <<p, d, c, r>> \in token
      BY <1>1, <1>4, <3>1, WayStays DEF CallOrder, TokenOrder
    <3>2. CASE <<p, d, c, r>> \notin token
      <4>1. Finish(g) /\ <<p, d, c, r>> = OwnChannel(g)
        BY <2>1, <3>2 DEF CallNext, Enter, TakeToken, Signal, Unlock, Finish
      <4>2. p = g.peer /\ d = g.dock /\ c = g.clock
        BY <4>1 DEF OwnChannel
      <4>3. CASE r = g.reign
        <5>1. ASSUME NEW h \in calls', h.peer = p, h.clock = c, h.reign = r
              PROVE  FALSE
          <6>1. h \in calls /\ h # g
            BY <4>1, <5>1 DEF Finish
          <6>2. CallOf(h) \in sent /\ h.dock \in Dock
            BY <6>1, PreviousIsPast DEF LockInv, OneCall
          <6>3. h.dock = g.dock
            BY <1>2, <4>2, <4>3, <5>1, <6>2 DEF CallOrder, OneDock, CallOf
          <6>4. CallOf(h) = CallOf(g)
            BY <4>2, <4>3, <5>1, <6>3 DEF CallOf
          <6> QED
            BY <6>1, <6>4 DEF LockInv, OneCall
        <5> QED
          BY <5>1 DEF Returned
      <4>4. CASE r # g.reign
        <5>1. c \in c .. (c + 1) - 1
          BY SMT DEF Clock
        <5>2. <<p, d, c, g.reign>> \in sent
          BY <1>2, <4>2 DEF CallOf
        <5> QED
          BY <1>1, <1>2, <4>4, <5>1, <5>2 DEF InTheWay
      <4> QED
        BY <4>3, <4>4
    <3> QED
      BY <3>1, <3>2
  <2> QED
    BY <2>1 DEF TokenOrder
<1>6. PassedInv'
  <2>1. ASSUME NEW p \in Peer, NEW d \in Dock, NEW c \in Clock, NEW r \in Reign,
               Passed(p, d, c, r)', NEW b \in Clock, b < c
        PROVE  Returned(p, b, r)' \/ InTheWay(p, d, b, c, r)'
    <3>1. CASE Passed(p, d, c, r)
      BY <1>1, <1>4, <2>1, <3>1, WayStays DEF CallOrder, PassedInv
    <3>2. CASE ~Passed(p, d, c, r)
      <4>1. calls \ {g} \subseteq calls'
        BY CallMoves DEF TypeInv, Finish, Later
      <4>2. g.stage \in {"start", "wait"} /\ CallOf(g) = <<p, d, c, r>>
        BY <1>1, <2>1, <3>2, <4>1 DEF Passed
      <4>3. p = g.peer /\ d = g.dock /\ c = g.clock /\ r = g.reign
        BY <4>2 DEF CallOf
      <4>4. CASE TakeToken(g)
        BY <1>1, <1>4, <2>1, <4>3, <4>4, TokenOrders, WayStays
      <4>5. CASE Enter(g) /\ g.clock = 0
        BY <2>1, <4>3, <4>5, SMT DEF Clock
      <4>6. CASE ~TakeToken(g) /\ ~(Enter(g) /\ g.clock = 0)
        <5>1. ~Signal(g) /\ ~Unlock(g)
          BY <4>2 DEF Signal, Unlock
        <5>2. PICK h \in Goroutine : Later(g, h) /\ h.stage = "wait"
          BY <4>6, <5>1, CallReturnsOnce
        <5>3. h \in calls' /\ CallOf(h) = <<p, d, c, r>>
          BY <4>3, <5>2 DEF Later, CallOf
        <5> QED
          BY <2>1, <5>2, <5>3 DEF Passed
      <4> QED
        BY <4>4, <4>5, <4>6
    <3> QED
      BY <3>1, <3>2
  <2> QED
    BY <2>1 DEF PassedInv
<1> QED
  BY <1>3, <1>5, <1>6 DEF CallOrder

(***************************************************************************)
(* A new round keeps the order of the calls: nothing that comes after its  *)
(* calls has had a token.                                                  *)
(***************************************************************************)
LEMMA StartRoundKeepsCallOrder ==
  ASSUME TypeInv, LockInv, CallOrder, NEW r \in Reign, StartRound(r)
  PROVE  CallOrder'
<1> DEFINE new(p) == [peer |-> p, dock |-> dock[p], clock |-> clock[r], reign |-> r,
                      stage |-> "start", prev |-> 0]
           docked == {p \in Peer : dock[p] # 0}
<1>1. /\ loop[r] = "idle" /\ token' = token
      /\ calls' = calls \cup {new(p) : p \in docked}
      /\ sent' = sent \cup {<<p, dock[p], clock[r], r>> : p \in docked}
  BY DEF StartRound
<1>2. \A p \in docked : /\ CallOf(new(p)) = <<p, dock[p], clock[r], r>>
                         /\ new(p).stage = "start" /\ new(p).peer = p
                         /\ new(p).clock = clock[r] /\ new(p).reign = r
  BY DEF CallOf
<1> HIDE DEF new
<1>3. \A p \in Peer, d \in Dock, c \in Clock : <<p, d, c, r>> \in sent => c < clock[r]
  BY <1>1 DEF LockInv, SentInv
<1>4. clock[r] \in Int
  BY SMT DEF TypeInv, TypeOK
<1>5. sent \subseteq sent' /\ calls \subseteq calls'
  BY <1>1
<1>6. ASSUME NEW p, NEW c, NEW s, Returned(p, c, s), ~(s = r /\ c = clock[r])
      PROVE  Returned(p, c, s)'
  BY <1>1, <1>2, <1>6 DEF Returned
<1>7. OneDock'
  <2>1. ASSUME NEW p \in Peer, NEW d \in Dock, NEW e \in Dock, NEW c \in Clock,
               NEW s \in Reign, <<p, d, c, s>> \in sent', <<p, e, c, s>> \in sent'
        PROVE  d = e
    <3>1. \A f \in Dock :
            <<p, f, c, s>> \in sent' /\ <<p, f, c, s>> \notin sent =>
              f = dock[p] /\ c = clock[r] /\ s = r
      BY <1>1
    <3>2. \A f \in Dock : <<p, f, c, s>> \in sent => ~(c = clock[r] /\ s = r)
      BY <1>3, <1>4
    <3> QED
      BY <2>1, <3>1, <3>2 DEF CallOrder, OneDock
  <2> QED
    BY <2>1 DEF OneDock
<1>8. TokenOrder'
  <2>1. ASSUME NEW p \in Peer, NEW d \in Dock, NEW c \in Clock, NEW s \in Reign,
               <<p, d, c, s>> \in token
        PROVE  Returned(p, c, s)' \/ InTheWay(p, d, c, c + 1, s)'
    <3>1. ~(s = r /\ c = clock[r])
      BY <1>3, <1>4, <2>1 DEF LockInv, ChannelInv
    <3>2. Returned(p, c, s) \/ InTheWay(p, d, c, c + 1, s)
      BY <2>1 DEF CallOrder, TokenOrder
    <3> QED
      BY <1>5, <1>6, <3>1, <3>2, WayStays
  <2> QED
    BY <1>1, <2>1 DEF TokenOrder
<1>9. PassedInv'
  <2>1. ASSUME NEW p \in Peer, NEW d \in Dock, NEW c \in Clock, NEW s \in Reign,
               Passed(p, d, c, s)', NEW b \in Clock, b < c
        PROVE  Returned(p, b, s)' \/ InTheWay(p, d, b, c, s)'
    <3>1. <<p, d, c, s>> \in sent
      <4>1. ASSUME <<p, d, c, s>> \notin sent
            PROVE  FALSE
        <5>1. PICK q \in docked : <<p, d, c, s>> = <<q, dock[q], clock[r], r>>
          BY <1>1, <2>1, <4>1 DEF Passed
        <5> QED
          BY <1>1, <1>2, <2>1, <5>1 DEF Passed
      <4> QED
        BY <4>1
    <3>2. Returned(p, b, s) \/ InTheWay(p, d, b, c, s)
      BY <1>5, <2>1, <3>1 DEF CallOrder, PassedInv, Passed
    <3>3. ~(s = r /\ b = clock[r])
      <4>1. s = r => c < clock[r]
        BY <1>3, <3>1
      <4> QED
        BY <1>4, <2>1, <4>1, SMT DEF Clock
    <3> QED
      BY <1>5, <1>6, <3>2, <3>3, WayStays
  <2> QED
    BY <2>1 DEF PassedInv
<1> QED
  BY <1>7, <1>8, <1>9 DEF CallOrder

(***************************************************************************)
(* Within a reign the calls to a peer are made one after another, whatever *)
(* docks are replaced in between, unless another loop has sent one of the  *)
(* rounds in between on the same dock, for any number of peers, docks,     *)
(* rounds and reigns.                                                      *)
(***************************************************************************)
THEOREM CallsStayInOrder == Spec => []CallsInOrder
<1>1. Init => LockInv /\ CallOrder
  BY DEF Init, LockInv, SentInv, OneCall, ChannelInv, TokenInv,
         LockedMeansSharedClock, CallOrder, OneDock, TokenOrder, PassedInv, Passed
<1>2. TypeInv /\ LockInv /\ [Next]_vars => LockInv'
  BY LockStep, ReignsAssumption
<1>3. TypeInv /\ LockInv /\ CallOrder /\ [Next]_vars => CallOrder'
  <2> SUFFICES ASSUME TypeInv, LockInv, CallOrder, [Next]_vars
               PROVE  CallOrder'
    OBVIOUS
  <2>1. CASE UNCHANGED callVars
    BY <2>1 DEF CallOrder, OneDock, TokenOrder, PassedInv, Passed, Returned,
                InTheWay, callVars
  <2> QED
    BY <2>1, ReignsAssumption, StartRoundKeepsCallOrder, CallKeepsCallOrder
    DEF Next, LoopNext, Win, Rejected, CheckCmdCh, Send, Dial, DialFails,
        FindMissing, Reconnect, EndRound, vars
<1>4. TypeInv /\ LockInv /\ CallOrder => CallsInOrder
  <2> SUFFICES ASSUME TypeInv, LockInv, CallOrder,
                      NEW g \in calls, NEW h \in calls,
                      g.stage = "call", CallPending(h),
                      g.peer = h.peer, g.reign = h.reign, h.clock < g.clock
               PROVE  InTheWay(g.peer, g.dock, h.clock, g.clock, g.reign)
    BY DEF CallsInOrder
  <2>1. /\ g.peer \in Peer /\ g.dock \in Dock /\ g.clock \in Clock
        /\ g.reign \in Reign /\ h.clock \in Clock
    BY PreviousIsPast, ReignsAssumption
  <2>2. Passed(g.peer, g.dock, g.clock, g.reign)
    BY DEF LockInv, OneCall, Passed, CallOf
  <2>3. ~Returned(g.peer, h.clock, g.reign)
    BY DEF Returned
  <2> QED
    BY <2>1, <2>2, <2>3 DEF CallOrder, PassedInv
<1> QED
  BY <1>1, <1>2, <1>3, <1>4, TypesInvariant, PTL DEF Spec
=============================================================================
