---------------------------- MODULE GatewayProofs ---------------------------
(***************************************************************************)
(* Proofs about Gateway, for any number of nodes, clients, writes,         *)
(* elections and crashes: balances stay at or above zero; and until an     *)
(* election is won, what has been confirmed stays saved and is read, and   *)
(* one POST opens two accounts only if its first attempt got no answer.    *)
(***************************************************************************)
EXTENDS Gateway, FiniteSetTheorems, TLAPS

\* Documents nobody has overdrawn.
Sound == {d \in Document : Balance(d) >= 0}
SoundValue == Sound \cup {Absent}

(***************************************************************************)
(* The writes are finitely many, so that balances are counts.              *)
(***************************************************************************)
LEMMA SerialsFinite ==
  /\ Serial = 1 .. Len(Turn) /\ Len(Turn) \in Nat
  /\ Serial \subseteq Nat \ {0}
  /\ \A d \in Document : /\ IsFiniteSet({o \in d : o > 0})
                         /\ IsFiniteSet({o \in d : o < 0})
<1> DEFINE L == Len(Turn)
<1>1. Serial = 1 .. L /\ L \in Nat
  BY GatewayAssumption DEF Serial
<1>2. Change \subseteq -L .. L
  BY <1>1, SMT DEF Change
<1>3. IsFiniteSet(-L .. L)
  <2>1. -L \in Int /\ L \in Int
    BY <1>1, SMT
  <2> HIDE DEF L
  <2> QED
    BY <2>1, FS_Interval
<1>4. Serial \subseteq Nat \ {0}
  BY <1>1, SMT
<1> HIDE DEF L
<1>5. ASSUME NEW d \in Document
      PROVE  /\ IsFiniteSet({o \in d : o > 0})
             /\ IsFiniteSet({o \in d : o < 0})
  <2>1. /\ {o \in d : o > 0} \in SUBSET (-L .. L)
        /\ {o \in d : o < 0} \in SUBSET (-L .. L)
    BY <1>2, <1>5 DEF Document
  <2> QED
    BY <1>3, <2>1, FS_Subset
<1> QED
  BY <1>1, <1>4, <1>5 DEF L

(***************************************************************************)
(* The document of a new customer is sound, and nobody takes Absent for a  *)
(* document.                                                               *)
(***************************************************************************)
LEMMA NewIsSound == {} \in Sound /\ Absent \notin Document
<1>1. {o \in {} : o > 0} = {} /\ {o \in {} : o < 0} = {}
  OBVIOUS
<1>2. Balance({}) = 0
  BY <1>1, FS_EmptySet, SMT DEF Balance
<1>3. 0 \notin Change
  BY SerialsFinite, SMT DEF Change
<1> QED
  BY <1>2, <1>3, SMT DEF Sound, Document, Absent

(***************************************************************************)
(* A deposit keeps a document sound, and so does a withdrawal that the     *)
(* client's check lets through, whichever changes it holds already.        *)
(***************************************************************************)
LEMMA EditsAreSound ==
  ASSUME NEW d \in Sound, NEW i \in Serial
  PROVE  /\ d \cup {i} \in Sound
         /\ Balance(d) >= 1 => d \cup {-i} \in Sound
<1> DEFINE pos(e) == {o \in e : o > 0}
           neg(e) == {o \in e : o < 0}
<1>1. d \in Document /\ Balance(d) >= 0
  BY DEF Sound
<1>2. i \in Nat /\ i > 0 /\ -i < 0
  BY SerialsFinite, SMT
<1>3. i \in Change /\ -i \in Change
  BY DEF Change
<1>4. d \cup {i} \in Document /\ d \cup {-i} \in Document
  BY <1>1, <1>3 DEF Document
<1>5. /\ IsFiniteSet(pos(d)) /\ Cardinality(pos(d)) \in Nat
      /\ IsFiniteSet(neg(d)) /\ Cardinality(neg(d)) \in Nat
  BY <1>1, SerialsFinite, FS_CardinalityType
<1>6. Balance(d) = Cardinality(pos(d)) - Cardinality(neg(d))
  BY DEF Balance
<1>7. d \cup {i} \in Sound
  <2>1. pos(d \cup {i}) = pos(d) \cup {i} /\ neg(d \cup {i}) = neg(d)
    BY <1>2, SMT
  <2>2. Cardinality(pos(d) \cup {i}) \in
          {Cardinality(pos(d)), Cardinality(pos(d)) + 1}
    BY <1>5, FS_AddElement
  <2>3. Balance(d \cup {i}) = Cardinality(pos(d) \cup {i}) - Cardinality(neg(d))
    BY <2>1 DEF Balance
  <2> HIDE DEF pos, neg
  <2>4. Balance(d \cup {i}) >= 0
    BY <1>1, <1>5, <1>6, <2>2, <2>3, SMT
  <2> QED
    BY <1>4, <2>4 DEF Sound
<1>8. ASSUME Balance(d) >= 1
      PROVE  d \cup {-i} \in Sound
  <2>1. pos(d \cup {-i}) = pos(d) /\ neg(d \cup {-i}) = neg(d) \cup {-i}
    BY <1>2, SMT
  <2>2. Cardinality(neg(d) \cup {-i}) \in
          {Cardinality(neg(d)), Cardinality(neg(d)) + 1}
    BY <1>5, FS_AddElement
  <2>3. Balance(d \cup {-i}) = Cardinality(pos(d)) - Cardinality(neg(d) \cup {-i})
    BY <2>1 DEF Balance
  <2> HIDE DEF pos, neg
  <2>4. Balance(d \cup {-i}) >= 0
    BY <1>5, <1>6, <1>8, <2>2, <2>3, SMT
  <2> QED
    BY <1>4, <2>4 DEF Sound
<1> QED
  BY <1>7, <1>8

-----------------------------------------------------------------------------
(* The inductive invariant.                                                *)

\* A command for a sound document.
SoundCommand ==
  {m \in Command : m.val \in SoundValue /\ (m.op # "DELETE" => m.val \in Sound)}

SoundRound ==
  [stage : {"none"}]
    \cup [stage : {"idle"}, node : Node]
    \cup [stage : {"wait"}, node : Node, cmd : SoundCommand]

NodeInv ==
  /\ up \subseteq Node /\ CmdCh \subseteq up
  /\ store \in [Node -> [Key -> SoundValue]]
  /\ queue \in [Node -> Seq(SoundCommand)]
  /\ round \in [Reign -> SoundRound]

Request ==
  [stage : Stage, kind : Kind, serial : {0} \cup Serial, try : Attempt,
   node : 0 .. N]

\* A write has a serial, a PUT a copy to send, and what is on its way goes
\* to node 0 until an election is won.
ValidRequest(c, r) ==
  /\ r.kind # "GET" => r.serial \in Serial
  /\ r.kind = "PUT" /\ r.stage # "idle" => copy[c] # Absent
  /\ Alone /\ r.stage = "sent" => r.node = LeaderID

ClientInv ==
  /\ request \in [Client -> Request]
  /\ copy \in [Client -> SoundValue]
  /\ serial \in {0} \cup Serial
  /\ \A c \in Client : ValidRequest(c, request[c])

LedInv ==
  /\ current \in Node
  /\ Alone => CmdCh \subseteq {LeaderID} /\ current = LeaderID

HistoryInv ==
  /\ wins \in 0 .. MaxWin /\ crashes \in 0 .. MaxCrash
  /\ acked \subseteq Key \X Document
  /\ unanswered \subseteq Serial
  /\ overlap \in BOOLEAN

GatewayInv == NodeInv /\ ClientInv /\ LedInv /\ HistoryInv

(***************************************************************************)
(* A failed attempt leaves a request that looks for a leader, or none.     *)
(***************************************************************************)
LEMMA FailedIsValid ==
  ASSUME GatewayInv, NEW c \in Client
  PROVE  /\ Failed(request[c]) \in Request /\ NoRequest \in Request
         /\ ValidRequest(c, NoRequest)
         /\ request[c].stage # "idle" => ValidRequest(c, Failed(request[c]))
<1>1. request[c] \in Request /\ ValidRequest(c, request[c]) /\ 0 \in 0 .. N
  BY GatewayAssumption, SMT DEF GatewayInv, ClientInv
<1>2. NoRequest \in Request /\ ValidRequest(c, NoRequest)
  BY <1>1 DEF NoRequest, Request, Stage, Kind, Attempt, ValidRequest
<1> DEFINE r == [request[c] EXCEPT !.stage = "probe", !.node = 0]
<1>3. /\ r \in Request /\ r.stage = "probe"
      /\ r.kind = request[c].kind /\ r.serial = request[c].serial
  BY <1>1 DEF Request, Stage
<1>4. Failed(request[c]) \in {r, NoRequest}
  BY DEF Failed
<1> HIDE DEF r
<1> QED
  BY <1>1, <1>2, <1>3, <1>4 DEF ValidRequest

(***************************************************************************)
(* Clients whose requests are replaced by valid ones, while copies are     *)
(* kept; an election, once won, remains won.                               *)
(***************************************************************************)
LEMMA ReplaceRequest ==
  ASSUME GatewayInv, NEW c \in Client, NEW r \in Request,
         request' = [request EXCEPT ![c] = r],
         copy' \in [Client -> SoundValue],
         \A d \in Client \ {c} : copy'[d] = copy[d],
         serial' \in {0} \cup Serial,
         Alone' => Alone,
         ValidRequest(c, r)'
  PROVE  ClientInv'
<1>1. request' \in [Client -> Request]
  BY DEF GatewayInv, ClientInv
<1>2. ASSUME NEW d \in Client
      PROVE  ValidRequest(d, request[d])'
  <2>1. CASE d = c
    <3>1. request'[d] = r
      BY <2>1 DEF GatewayInv, ClientInv
    <3> QED
      BY <2>1, <3>1 DEF ValidRequest
  <2>2. CASE d # c
    <3>1. request'[d] = request[d] /\ copy'[d] = copy[d]
      BY <2>2 DEF GatewayInv, ClientInv
    <3>2. ValidRequest(d, request[d])
      BY DEF GatewayInv, ClientInv
    <3> QED
      BY <3>1, <3>2 DEF ValidRequest
  <2> QED
    BY <2>1, <2>2
<1> QED
  BY <1>1, <1>2 DEF ClientInv

(***************************************************************************)
(* Executing a sound command leaves a sound collection.                    *)
(***************************************************************************)
LEMMA ExecIsSound ==
  ASSUME NEW s \in [Key -> SoundValue], NEW m \in SoundCommand
  PROVE  DB!Exec(s, m) \in [Key -> SoundValue]
<1>1. m.val \in SoundValue /\ Absent \in SoundValue
  BY DEF SoundCommand, SoundValue
<1> QED
  BY <1>1 DEF DB!Exec

(***************************************************************************)
(* The client program: its copies are sound, for they were read from sound *)
(* collections and changed within their balance.                           *)
(***************************************************************************)
LEMMA ClientKeepsInv ==
  ASSUME GatewayInv, NEW c \in Client, ClientNext(c)
  PROVE  GatewayInv'
<1>1. /\ UNCHANGED <<nodeVars, current, envVars, historyVars>>
  BY DEF ClientNext, Fetch, Edit, LeaveMenu, Create, Delete
<1>2. NodeInv' /\ LedInv' /\ HistoryInv'
  BY <1>1
  DEF GatewayInv, NodeInv, LedInv, HistoryInv, Alone, nodeVars, envVars, historyVars
<1>3. /\ current \in 0 .. N /\ copy \in [Client -> SoundValue]
      /\ Alone => current = LeaderID
      /\ Alone' <=> Alone
  BY <1>1, GatewayAssumption, SMT
  DEF GatewayInv, LedInv, ClientInv, Node, envVars, Alone
<1>4. ASSUME NEW kind \in Kind, NEW i \in {0} \cup Serial, Ask(c, kind, i),
             kind # "GET" => i \in Serial,
             copy' \in [Client -> SoundValue],
             \A d \in Client \ {c} : copy'[d] = copy[d],
             serial' \in {0} \cup Serial,
             kind = "PUT" => copy'[c] # Absent
      PROVE  ClientInv'
  <2>1. PICK r \in Request :
          r = [stage |-> "sent", kind |-> kind, serial |-> i, try |-> 1,
               node |-> current]
    <3>1. [stage |-> "sent", kind |-> kind, serial |-> i, try |-> 1,
           node |-> current] \in Request
      BY <1>3, <1>4, SMT DEF Request, Stage, Attempt
    <3> QED
      BY <3>1
  <2>2. request' = [request EXCEPT ![c] = r]
    BY <1>4, <2>1 DEF Ask
  <2>3. ValidRequest(c, r)'
    BY <1>3, <1>4, <2>1 DEF ValidRequest
  <2> QED
    BY <1>3, <1>4, <2>2, <2>3, ReplaceRequest
<1>5. CASE Fetch(c)
  <2>1. ClientInv'
    BY <1>3, <1>4, <1>5 DEF Fetch, Kind, GatewayInv, ClientInv
  <2> QED
    BY <1>2, <2>1 DEF GatewayInv
<1>6. CASE Edit(c)
  <2>1. copy[c] \in Sound /\ serial + 1 \in Serial
    BY <1>3, <1>6 DEF Edit, SendWrite, SoundValue
  <2>2. PICK e \in Sound : copy' = [copy EXCEPT ![c] = e]
    BY <1>6, <2>1, EditsAreSound DEF Edit
  <2>3. e # Absent
    BY NewIsSound DEF Sound
  <2>4. /\ copy' \in [Client -> SoundValue] /\ copy'[c] # Absent
        /\ \A d \in Client \ {c} : copy'[d] = copy[d]
    BY <1>3, <2>2, <2>3 DEF SoundValue
  <2>5. ClientInv'
    BY <1>4, <1>6, <2>1, <2>4 DEF Edit, SendWrite, Kind
  <2> QED
    BY <1>2, <2>5 DEF GatewayInv
<1>7. CASE LeaveMenu(c)
  <2>1. request[c] \in Request /\ request' = [request EXCEPT ![c] = request[c]]
    BY <1>7 DEF LeaveMenu, GatewayInv, ClientInv
  <2>2. /\ copy' \in [Client -> SoundValue] /\ UNCHANGED serial
        /\ \A d \in Client \ {c} : copy'[d] = copy[d]
    BY <1>3, <1>7 DEF LeaveMenu, SoundValue
  <2>3. ValidRequest(c, request[c]) /\ request[c].stage = "idle"
    BY <1>7 DEF LeaveMenu, GatewayInv, ClientInv
  <2>4. ValidRequest(c, request[c])'
    BY <1>3, <2>1, <2>3, <1>7 DEF ValidRequest, LeaveMenu
  <2>5. ClientInv'
    <3>1. \A d \in Client : ValidRequest(d, request[d])'
      <4>1. ASSUME NEW d \in Client PROVE ValidRequest(d, request[d])'
        <5>1. CASE d = c
          BY <5>1, <2>4
        <5>2. CASE d # c
          BY <5>2, <2>2, <1>3, <1>7 DEF ValidRequest, LeaveMenu, GatewayInv, ClientInv
        <5> QED
          BY <5>1, <5>2
      <4> QED
        BY <4>1
    <3> QED
      BY <2>2, <3>1, <1>7 DEF ClientInv, GatewayInv, LeaveMenu
  <2> QED
    BY <1>2, <2>5 DEF GatewayInv
<1>8. CASE Create(c) \/ Delete(c)
  <2>1. ClientInv'
    BY <1>3, <1>4, <1>8 DEF Create, Delete, SendWrite, Kind
  <2> QED
    BY <1>2, <2>1 DEF GatewayInv
<1> QED
  BY <1>5, <1>6, <1>7, <1>8 DEF ClientNext

(***************************************************************************)
(* The second attempt of a request.                                        *)
(***************************************************************************)
LEMMA RepeatIsRequest ==
  ASSUME NEW q \in Request
  PROVE  LET new == [q EXCEPT !.stage = "sent", !.try = 2]
         IN  /\ new \in Request
             /\ new.kind = q.kind /\ new.serial = q.serial
             /\ new.node = q.node /\ new.stage = "sent"
<1> DEFINE new == [q EXCEPT !.stage = "sent", !.try = 2]
<1>1. new \in Request
  <2>1. 2 \in Attempt
    BY SMT DEF Attempt
  <2> QED
    BY <2>1 DEF Request, Stage
<1>2. new.kind = q.kind /\ new.serial = q.serial
  BY DEF Request
<1>3. new.node = q.node
  BY DEF Request
<1>4. new.stage = "sent"
  BY DEF Request
<1> QED
  BY <1>1, <1>2, <1>3, <1>4

(***************************************************************************)
(* The gateway on its own: deadlines and the search for a leader, which    *)
(* ends at a node that has CmdCh.                                          *)
(***************************************************************************)
LEMMA SearchKeepsInv ==
  ASSUME GatewayInv, NEW c \in Client, GiveUp(c) \/ Probe(c) \/ Deadline(c)
  PROVE  GatewayInv'
<1>1. /\ UNCHANGED <<nodeVars, copy, serial, envVars, acked, overlap>>
      /\ request[c].stage # "idle"
  BY DEF GiveUp, Probe, Deadline, historyVars
<1>2. /\ request[c] \in Request /\ ValidRequest(c, request[c])
      /\ copy \in [Client -> SoundValue] /\ serial \in {0} \cup Serial
      /\ request \in [Client -> Request]
  BY DEF GatewayInv, ClientInv
<1>3. NodeInv'
  BY <1>1 DEF GatewayInv, NodeInv, nodeVars
<1>4. \A r : ValidRequest(c, r) => ValidRequest(c, r)'
  BY <1>1 DEF ValidRequest, Alone, envVars
<1>5. ASSUME NEW r \in Request, request' = [request EXCEPT ![c] = r],
             ValidRequest(c, r)'
      PROVE  ClientInv'
  BY <1>1, <1>2, <1>5, ReplaceRequest DEF Alone, envVars
<1>6. HistoryInv'
  <2>1. unanswered' \subseteq Serial
    <3>1. CASE UNCHANGED unanswered
      BY <3>1 DEF GatewayInv, HistoryInv
    <3>2. CASE GiveUp(c)
      BY <1>2, <3>2 DEF GiveUp, NoAnswer, GatewayInv, HistoryInv, ValidRequest
    <3> QED
      BY <3>1, <3>2 DEF Probe, Deadline, historyVars
  <2> QED
    BY <1>1, <2>1 DEF GatewayInv, HistoryInv, envVars
<1>7. CASE GiveUp(c)
  <2>1. LedInv' /\ UNCHANGED current
    BY <1>1, <1>7 DEF GiveUp, GatewayInv, LedInv, Alone, envVars, nodeVars
  <2>2. PICK r \in Request : r = Failed(request[c])
    BY FailedIsValid
  <2>3. request' = [request EXCEPT ![c] = r] /\ ValidRequest(c, r)'
    BY <1>1, <1>4, <1>7, <2>2, FailedIsValid DEF GiveUp
  <2> QED
    BY <1>3, <1>5, <1>6, <2>1, <2>3 DEF GatewayInv
<1>8. CASE Deadline(c)
  <2>1. LedInv' /\ UNCHANGED current
    BY <1>1, <1>8 DEF Deadline, GatewayInv, LedInv, Alone, envVars, nodeVars
  <2>2. NoRequest \in Request /\ ValidRequest(c, NoRequest)'
    BY <1>4, FailedIsValid
  <2> QED
    BY <1>3, <1>5, <1>6, <1>8, <2>1, <2>2 DEF GatewayInv, Deadline
<1>9. CASE Probe(c)
  <2> DEFINE i == request[c].node
  <2>1. CASE i \in CmdCh
    <3>1. current' = i /\ i \in Node /\ (Alone => i = LeaderID)
      BY <1>9, <2>1 DEF Probe, GatewayInv, NodeInv, LedInv
    <3>2. LedInv'
      BY <1>1, <3>1 DEF GatewayInv, LedInv, Alone, envVars, nodeVars
    <3> DEFINE new == [request[c] EXCEPT !.stage = "sent", !.try = 2]
    <3>3. /\ new \in Request
          /\ new.kind = request[c].kind /\ new.serial = request[c].serial
          /\ new.node = i /\ new.stage = "sent"
      BY <1>2, RepeatIsRequest
    <3>4. request' = [request EXCEPT ![c] = new]
      BY <1>2, <1>9, <2>1 DEF Probe
    <3> HIDE DEF new
    <3>5. PICK r \in Request : r = new
      BY <3>3
    <3>6. /\ request' = [request EXCEPT ![c] = r]
          /\ r.kind = request[c].kind /\ r.serial = request[c].serial
          /\ r.node = i /\ r.stage = "sent"
      BY <3>3, <3>4, <3>5
    <3>7. ValidRequest(c, r)
      BY <1>1, <1>2, <3>1, <3>6 DEF ValidRequest
    <3> QED
      BY <1>3, <1>4, <1>5, <1>6, <3>2, <3>6, <3>7 DEF GatewayInv
  <2>2. CASE i \notin CmdCh
    <3>1. LedInv'
      BY <1>1, <1>9, <2>2 DEF Probe, GatewayInv, LedInv, Alone, envVars, nodeVars
    <3> DEFINE next == IF i = N THEN 0 ELSE i + 1
    <3>2. next \in 0 .. N
      BY <1>2, GatewayAssumption, SMT DEF Request
    <3> HIDE DEF next
    <3>3. [request[c] EXCEPT !.node = next] \in Request
      BY <1>2, <3>2 DEF Request
    <3>4. PICK r \in Request : r = [request[c] EXCEPT !.node = next]
      BY <3>3
    <3>5. request' = [request EXCEPT ![c] = r]
      BY <1>2, <1>9, <2>2, <3>4 DEF Probe, next
    <3>6. /\ r.kind = request[c].kind /\ r.serial = request[c].serial
          /\ r.stage = "probe"
      BY <1>2, <1>9, <3>4 DEF Request, Probe
    <3>7. ValidRequest(c, r)
      BY <1>1, <1>2, <3>6 DEF ValidRequest
    <3> QED
      BY <1>3, <1>4, <1>5, <1>6, <3>1, <3>5, <3>7 DEF GatewayInv
  <2> QED
    BY <2>1, <2>2
<1> QED
  BY <1>7, <1>8, <1>9

(***************************************************************************)
(* The command of a write is for a sound document: a PUT has a copy.       *)
(***************************************************************************)
LEMMA CommandsAreSound ==
  ASSUME GatewayInv, NEW c \in Client,
         request[c].kind # "GET", request[c].stage = "sent"
  PROVE  CommandOf(c) \in SoundCommand
<1>1. /\ request[c] \in Request /\ copy[c] \in SoundValue
      /\ request[c].serial \in Serial
      /\ request[c].kind = "PUT" => copy[c] \in Sound
  BY DEF GatewayInv, ClientInv, ValidRequest, SoundValue
<1>2. /\ request[c].try \in Attempt /\ request[c].kind \in {"PUT", "POST", "DELETE"}
  BY <1>1 DEF Request, Kind
<1>3. Sound \subseteq Document /\ {} \in Sound
  BY NewIsSound DEF Sound
<1>4. 0 \in Key /\ NewId(request[c].serial, request[c].try) \in Key
  BY <1>1, <1>2 DEF Key
<1>5. ASSUME NEW op \in DB!Op, NEW key \in Key, NEW val \in SoundValue,
             op # "DELETE" => val \in Sound
      PROVE  [op |-> op, key |-> key, val |-> val, client |-> c,
              serial |-> request[c].serial, try |-> request[c].try]
               \in SoundCommand
  BY <1>1, <1>2, <1>3, <1>5 DEF SoundCommand, Command, SoundValue
<1>6. {"REPLACE", "INSERT", "DELETE"} \subseteq DB!Op
  BY DEF DB!Op
<1>7. CASE request[c].kind = "PUT"
  <2>1. CommandOf(c) = [op |-> "REPLACE", key |-> 0, val |-> copy[c], client |-> c,
                        serial |-> request[c].serial, try |-> request[c].try]
    BY <1>7 DEF CommandOf
  <2> QED
    BY <1>1, <1>4, <1>5, <1>6, <1>7, <2>1
<1>8. CASE request[c].kind = "POST"
  <2>1. CommandOf(c) = [op |-> "INSERT",
                        key |-> NewId(request[c].serial, request[c].try),
                        val |-> {}, client |-> c,
                        serial |-> request[c].serial, try |-> request[c].try]
    BY <1>8 DEF CommandOf
  <2> QED
    BY <1>3, <1>4, <1>5, <1>6, <1>8, <2>1 DEF SoundValue
<1>9. CASE request[c].kind = "DELETE"
  <2>1. CommandOf(c) = [op |-> "DELETE", key |-> 0, val |-> Absent, client |-> c,
                        serial |-> request[c].serial, try |-> request[c].try]
    BY <1>9 DEF CommandOf
  <2> QED
    BY <1>4, <1>5, <1>6, <1>9, <2>1 DEF SoundValue
<1> QED
  BY <1>2, <1>7, <1>8, <1>9

(***************************************************************************)
(* A request arrives: the handlers of a node read its sound collection or  *)
(* queue a sound command.                                                  *)
(***************************************************************************)
LEMMA ArriveKeepsInv ==
  ASSUME GatewayInv, NEW c \in Client, Arrive(c)
  PROVE  GatewayInv'
<1>1. /\ UNCHANGED <<up, CmdCh, store, round, current, serial, envVars>>
      /\ request[c].stage = "sent"
  BY DEF Arrive
<1>2. /\ request[c] \in Request /\ ValidRequest(c, request[c])
      /\ copy \in [Client -> SoundValue] /\ serial \in {0} \cup Serial
      /\ request \in [Client -> Request]
  BY DEF GatewayInv, ClientInv
<1>3. LedInv' /\ (Alone' <=> Alone)
  BY <1>1 DEF GatewayInv, LedInv, Alone, envVars
<1>4. \A r : ValidRequest(c, r) /\ copy' = copy => ValidRequest(c, r)'
  BY <1>1, <1>3 DEF ValidRequest
<1>5. PICK failed \in Request : failed = Failed(request[c])
  BY FailedIsValid
<1>6. ValidRequest(c, failed)
  BY <1>1, <1>5, FailedIsValid
<1>7. PICK none \in Request : none = NoRequest
  BY FailedIsValid
<1>8. none.stage = "idle" /\ none.kind = "GET"
  BY <1>7 DEF NoRequest
<1> DEFINE n == request[c].node
<1>9. CASE n \in up /\ Read(c, n)
  <2>1. /\ copy' = [copy EXCEPT ![c] = store[n][0]]
        /\ request' = [request EXCEPT ![c] = none]
        /\ UNCHANGED <<queue, acked, unanswered>>
    BY <1>7, <1>9 DEF Read
  <2>2. store[n][0] \in SoundValue
    <3>1. n \in Node /\ 0 \in Key
      BY <1>9 DEF GatewayInv, NodeInv, Key
    <3> QED
      BY <3>1 DEF GatewayInv, NodeInv
  <2>3. /\ copy' \in [Client -> SoundValue]
        /\ \A d \in Client \ {c} : copy'[d] = copy[d]
    BY <1>2, <2>1, <2>2
  <2>4. ValidRequest(c, none)'
    BY <1>8 DEF ValidRequest
  <2>5. ClientInv'
    BY <1>1, <1>2, <1>3, <2>1, <2>3, <2>4, ReplaceRequest
  <2>6. overlap' \in BOOLEAN
    BY <1>9 DEF Read, GatewayInv, HistoryInv
  <2> QED
    BY <1>1, <1>3, <2>1, <2>5, <2>6 DEF GatewayInv, NodeInv, HistoryInv, envVars
<1>10. CASE n \in up /\ Write(c, n)
  <2>1. UNCHANGED <<copy, overlap, acked, unanswered>> /\ request[c].kind # "GET"
    BY <1>10 DEF Write
  <2>2. HistoryInv'
    BY <1>1, <2>1 DEF GatewayInv, HistoryInv, envVars
  <2>3. CASE n \in CmdCh
    <3>1. queue' = [queue EXCEPT ![n] = Append(@, CommandOf(c))]
      BY <1>10, <2>3 DEF Write
    <3>2. CommandOf(c) \in SoundCommand
      BY <1>1, <2>1, CommandsAreSound
    <3>3. NodeInv'
      <4>1. \A q \in Seq(SoundCommand) : Append(q, CommandOf(c)) \in Seq(SoundCommand)
        BY <3>2
      <4>2. queue' \in [Node -> Seq(SoundCommand)]
        BY <3>1, <4>1 DEF GatewayInv, NodeInv
      <4> QED
        BY <1>1, <4>2 DEF GatewayInv, NodeInv
    <3>4. [request[c] EXCEPT !.stage = "wait"] \in Request
      BY <1>2 DEF Request, Stage
    <3>5. PICK r \in Request : r = [request[c] EXCEPT !.stage = "wait"]
      BY <3>4
    <3>6. request' = [request EXCEPT ![c] = r]
      BY <1>2, <1>10, <2>3, <3>5 DEF Write
    <3>7. /\ r.kind = request[c].kind /\ r.serial = request[c].serial
          /\ r.stage = "wait"
      BY <1>2, <3>5 DEF Request
    <3>8. ValidRequest(c, r)
      BY <1>1, <1>2, <3>7 DEF ValidRequest
    <3>9. ClientInv'
      BY <1>1, <1>2, <1>3, <1>4, <2>1, <3>6, <3>8, ReplaceRequest
    <3> QED
      BY <1>3, <2>2, <3>3, <3>9 DEF GatewayInv
  <2>4. CASE n \notin CmdCh
    <3>1. request' = [request EXCEPT ![c] = failed] /\ UNCHANGED queue
      BY <1>5, <1>10, <2>4 DEF Write
    <3>2. ClientInv'
      BY <1>1, <1>2, <1>3, <1>4, <1>6, <2>1, <3>1, ReplaceRequest
    <3>3. NodeInv'
      BY <1>1, <3>1 DEF GatewayInv, NodeInv
    <3> QED
      BY <1>3, <2>2, <3>2, <3>3 DEF GatewayInv
  <2> QED
    BY <2>3, <2>4
<1>11. CASE Refused(c)
  <2>1. /\ request' = [request EXCEPT ![c] = failed]
        /\ UNCHANGED <<queue, copy, overlap, acked>>
    BY <1>5, <1>11 DEF Refused
  <2>2. ClientInv'
    BY <1>1, <1>2, <1>3, <1>4, <1>6, <2>1, ReplaceRequest
  <2>3. unanswered' \subseteq Serial
    BY <1>2, <1>11 DEF Refused, NoAnswer, GatewayInv, HistoryInv, ValidRequest
  <2>4. NodeInv' /\ HistoryInv'
    BY <1>1, <2>1, <2>3 DEF GatewayInv, NodeInv, HistoryInv, envVars
  <2> QED
    BY <1>3, <2>2, <2>4 DEF GatewayInv
<1> QED
  BY <1>9, <1>10, <1>11 DEF Arrive

(***************************************************************************)
(* The end of a round: a sound command is executed here, or none; what is  *)
(* confirmed is a document.                                                *)
(***************************************************************************)
LEMMA AnswerKeepsInv ==
  ASSUME GatewayInv, NEW w \in Reign, NEW status, round[w].stage = "wait",
         ExecuteHere(w) \/ UNCHANGED store, Answer(w, status)
  PROVE  GatewayInv'
<1> DEFINE n == round[w].node
           cmd == round[w].cmd
<1>1. /\ UNCHANGED <<up, CmdCh, queue, current, copy, serial, envVars,
                     unanswered, overlap>>
      /\ round' = [round EXCEPT ![w] = Idle(n)]
  BY DEF Answer
<1>2. cmd \in SoundCommand /\ cmd.client \in Client /\ n \in Node
  BY DEF GatewayInv, NodeInv, SoundRound, SoundCommand, Command
<1>3. round' \in [Reign -> SoundRound]
  <2>1. Idle(n) \in SoundRound
    BY <1>2 DEF Idle, SoundRound
  <2> QED
    BY <1>1, <2>1 DEF GatewayInv, NodeInv
<1>4. store' \in [Node -> [Key -> SoundValue]]
  <2>1. CASE UNCHANGED store
    BY <2>1 DEF GatewayInv, NodeInv
  <2>2. CASE ExecuteHere(w)
    <3>1. DB!Exec(store[n], cmd) \in [Key -> SoundValue]
      BY <1>2, ExecIsSound DEF GatewayInv, NodeInv
    <3> QED
      BY <1>2, <2>2, <3>1 DEF ExecuteHere, GatewayInv, NodeInv
  <2> QED
    BY <2>1, <2>2
<1>5. NodeInv' /\ LedInv'
  BY <1>1, <1>3, <1>4 DEF GatewayInv, NodeInv, LedInv, Alone, envVars
<1>6. HistoryInv'
  <2>1. cmd.op # "DELETE" => <<cmd.key, cmd.val>> \in Key \X Document
    BY <1>2 DEF SoundCommand, Command, Sound
  <2>2. acked' \subseteq Key \X Document
    BY <2>1 DEF Answer, GatewayInv, HistoryInv
  <2> QED
    BY <1>1, <2>2 DEF GatewayInv, HistoryInv, envVars
<1>7. ClientInv'
  <2>1. PICK c \in Client : c = cmd.client
    BY <1>2
  <2>2. CASE UNCHANGED request
    BY <1>1, <2>2 DEF GatewayInv, ClientInv, ValidRequest, Alone, envVars
  <2>3. CASE Awaited(cmd) /\ request # request'
    <3>1. /\ \/ request' = [request EXCEPT ![c] = Failed(request[c])]
             \/ request' = [request EXCEPT ![c] = NoRequest]
          /\ request[c].stage # "idle"
      BY <2>1, <2>3 DEF Answer, Awaited
    <3>2. PICK r \in Request : /\ request' = [request EXCEPT ![c] = r]
                               /\ ValidRequest(c, r)
      BY <3>1, FailedIsValid
    <3>3. ValidRequest(c, r)'
      BY <1>1, <3>2 DEF ValidRequest, Alone, envVars
    <3> QED
      BY <1>1, <3>2, <3>3, ReplaceRequest DEF GatewayInv, ClientInv, Alone, envVars
  <2> QED
    BY <2>2, <2>3 DEF Answer
<1> QED
  BY <1>5, <1>6, <1>7 DEF GatewayInv

(***************************************************************************)
(* The loop of a node: it and the nodes it reaches execute sound commands. *)
(***************************************************************************)
LEMMA LoopKeepsInv ==
  ASSUME GatewayInv, NEW w \in Reign, LoopNext(w)
  PROVE  GatewayInv'
<1>1. CASE Take(w)
  <2> DEFINE n == round[w].node
  <2>1. UNCHANGED <<up, CmdCh, current, clientVars, envVars, historyVars>>
    BY <1>1 DEF Take
  <2>2. /\ n \in Node /\ queue[n] \in Seq(SoundCommand) /\ queue[n] # << >>
        /\ store \in [Node -> [Key -> SoundValue]]
        /\ round \in [Reign -> SoundRound]
        /\ queue \in [Node -> Seq(SoundCommand)]
    BY <1>1 DEF Take, GatewayInv, NodeInv, SoundRound
  <2>3. Head(queue[n]) \in SoundCommand /\ Tail(queue[n]) \in Seq(SoundCommand)
    BY <2>2
  <2>4. store' \in [Node -> [Key -> SoundValue]]
    <3>1. \A f \in Node : /\ store[f] \in [Key -> SoundValue]
                          /\ DB!Exec(store[f], Head(queue[n])) \in [Key -> SoundValue]
      BY <2>2, <2>3, ExecIsSound
    <3> QED
      BY <1>1, <3>1 DEF Take
  <2>5. round' \in [Reign -> SoundRound] /\ queue' \in [Node -> Seq(SoundCommand)]
    <3>1. [stage |-> "wait", node |-> n, cmd |-> Head(queue[n])] \in SoundRound
      BY <2>2, <2>3 DEF SoundRound
    <3> QED
      BY <1>1, <2>2, <2>3, <3>1 DEF Take
  <2>6. NodeInv' /\ LedInv' /\ HistoryInv'
    BY <2>1, <2>4, <2>5
    DEF GatewayInv, NodeInv, LedInv, HistoryInv, Alone, envVars, historyVars
  <2>7. ClientInv'
    BY <2>1 DEF GatewayInv, ClientInv, ValidRequest, Alone, clientVars, envVars
  <2> QED
    BY <2>6, <2>7 DEF GatewayInv
<1>2. CASE Commit(w)
  BY <1>2, AnswerKeepsInv DEF Commit
<1>3. CASE TimeOut(w)
  BY <1>3, AnswerKeepsInv DEF TimeOut
<1> QED
  BY <1>1, <1>2, <1>3 DEF LoopNext

(***************************************************************************)
(* Elections, depositions, crashes and restarts: without an election only  *)
(* node 0 gets a CmdCh, and requests that are cut off look for a leader.   *)
(***************************************************************************)
LEMMA NodeKeepsInv ==
  ASSUME GatewayInv, NEW n \in Node, NodeNext(n)
  PROVE  GatewayInv'
<1>1. /\ up \subseteq Node /\ CmdCh \subseteq up /\ current \in Node
      /\ Alone => CmdCh \subseteq {LeaderID} /\ current = LeaderID
      /\ store \in [Node -> [Key -> SoundValue]]
      /\ queue \in [Node -> Seq(SoundCommand)]
      /\ round \in [Reign -> SoundRound]
  BY DEF GatewayInv, NodeInv, LedInv
<1>2. Idle(n) \in SoundRound /\ NoLoop \in SoundRound
  BY DEF Idle, NoLoop, SoundRound
<1>3. /\ wins \in Nat /\ crashes \in Nat /\ wins \in 0 .. MaxWin
      /\ crashes \in 0 .. MaxCrash
  BY GatewayAssumption, SMT DEF GatewayInv, HistoryInv
<1>4. ASSUME UNCHANGED clientVars, Alone' => Alone
      PROVE  ClientInv'
  BY <1>4 DEF GatewayInv, ClientInv, ValidRequest, clientVars
<1>5. CASE Win(n)
  <2>1. ~Alone'
    BY <1>3, <1>5, SMT DEF Win, Alone
  <2>2. NodeInv' /\ LedInv' /\ ClientInv'
    BY <1>1, <1>2, <1>4, <1>5, <2>1 DEF Win, NodeInv, LedInv
  <2>3. wins + 1 \in 0 .. MaxWin
    BY <1>3, <1>5, GatewayAssumption, SMT DEF Win
  <2>4. HistoryInv'
    BY <1>3, <1>5, <2>3 DEF Win, HistoryInv
  <2> QED
    BY <2>1, <2>2, <2>4 DEF GatewayInv
<1>6. CASE Deposed(n)
  <2>1. NodeInv' /\ LedInv' /\ HistoryInv'
    BY <1>1, <1>6
    DEF Deposed, GatewayInv, NodeInv, LedInv, HistoryInv, Alone, envVars, historyVars
  <2>2. ClientInv'
    BY <1>4, <1>6 DEF Deposed, Alone, envVars
  <2> QED
    BY <2>1, <2>2 DEF GatewayInv
<1>7. CASE Start(n)
  <2>1. NodeInv'
    BY <1>1, <1>2, <1>7 DEF Start, NodeInv
  <2>2. LedInv' /\ HistoryInv'
    BY <1>1, <1>7
    DEF Start, GatewayInv, LedInv, HistoryInv, Alone, envVars, historyVars
  <2>3. ClientInv'
    BY <1>4, <1>7 DEF Start, Alone, envVars
  <2> QED
    BY <2>1, <2>2, <2>3 DEF GatewayInv
<1>8. CASE Crash(n)
  <2> DEFINE cut == {c \in Client : request[c].stage = "wait" /\ request[c].node = n}
  <2>1. NodeInv'
    <3>1. << >> \in Seq(SoundCommand)
      OBVIOUS
    <3> QED
      BY <1>1, <1>2, <1>8, <3>1 DEF Crash, NodeInv
  <2>2. LedInv'
    BY <1>1, <1>8 DEF Crash, LedInv, Alone
  <2>3. crashes + 1 \in 0 .. MaxCrash
    BY <1>3, <1>8, GatewayAssumption, SMT DEF Crash
  <2>4. unanswered' \subseteq Serial
    <3>1. \A c \in cut : request[c].kind = "POST" => request[c].serial \in Serial
      BY DEF GatewayInv, ClientInv, ValidRequest
    <3>2. unanswered \subseteq Serial
      BY DEF GatewayInv, HistoryInv
    <3>3. NoAnswer(cut)
      BY <1>8 DEF Crash
    <3> HIDE DEF cut
    <3> QED
      BY <3>1, <3>2, <3>3 DEF NoAnswer
  <2>5. HistoryInv'
    BY <1>3, <1>8, <2>3, <2>4 DEF Crash, GatewayInv, HistoryInv
  <2>6. ClientInv'
    <3>1. /\ UNCHANGED <<copy, serial, wins>>
          /\ request' = [c \in Client |->
               IF c \in cut THEN Failed(request[c]) ELSE request[c]]
      BY <1>8 DEF Crash
    <3>2. \A c \in Client : /\ request[c] \in Request
                            /\ ValidRequest(c, request[c])
      BY DEF GatewayInv, ClientInv
    <3>3. \A c \in cut : /\ Failed(request[c]) \in Request
                         /\ ValidRequest(c, Failed(request[c]))
      <4>1. ASSUME NEW c \in cut
            PROVE  /\ Failed(request[c]) \in Request
                   /\ ValidRequest(c, Failed(request[c]))
        <5>1. c \in Client /\ request[c].stage # "idle"
          BY <4>1
        <5> QED
          BY <5>1, FailedIsValid
      <4> QED
        BY <4>1
    <3> HIDE DEF cut
    <3>4. ASSUME NEW c \in Client
          PROVE  request'[c] \in Request /\ ValidRequest(c, request'[c])
      BY <3>1, <3>2, <3>3
    <3>5. \A c \in Client : ValidRequest(c, request[c])'
      BY <3>1, <3>4 DEF ValidRequest, Alone
    <3>6. request' \in [Client -> Request]
      BY <3>1, <3>4
    <3> QED
      BY <3>1, <3>5, <3>6 DEF GatewayInv, ClientInv
  <2> QED
    BY <2>1, <2>2, <2>5, <2>6 DEF GatewayInv
<1> QED
  BY <1>5, <1>6, <1>7, <1>8 DEF NodeNext

(***************************************************************************)
(* GatewayInv holds at first and is kept by every step.                    *)
(***************************************************************************)
LEMMA GatewayInvariant == Spec => []GatewayInv
<1>1. Init => GatewayInv
  <2> SUFFICES ASSUME Init PROVE GatewayInv
    OBVIOUS
  <2>1. LeaderID \in Node /\ 0 \in 0 .. N /\ 0 \in 0 .. MaxWin /\ 0 \in 0 .. MaxCrash
    BY GatewayAssumption, SMT DEF LeaderID, Node
  <2>2. {} \in SoundValue /\ Absent \in SoundValue
    BY NewIsSound DEF SoundValue
  <2>3. NodeInv
    <3>1. << >> \in Seq(SoundCommand)
      OBVIOUS
    <3>2. Idle(LeaderID) \in SoundRound /\ NoLoop \in SoundRound
      BY <2>1 DEF Idle, NoLoop, SoundRound
    <3>3. Seed \in [Key -> SoundValue]
      BY <2>2 DEF Seed
    <3> QED
      BY <2>1, <3>1, <3>2, <3>3 DEF Init, NodeInv
  <2>4. ClientInv
    <3>1. NoRequest \in Request
      BY <2>1, SMT DEF NoRequest, Request, Stage, Kind, Attempt
    <3>2. \A c \in Client : ValidRequest(c, NoRequest)
      BY DEF ValidRequest, NoRequest
    <3> QED
      BY <2>2, <3>1, <3>2 DEF Init, ClientInv
  <2>5. LedInv /\ HistoryInv
    BY <2>1 DEF Init, LedInv, HistoryInv, Alone
  <2> QED
    BY <2>3, <2>4, <2>5 DEF GatewayInv
<1>2. GatewayInv /\ [Next]_vars => GatewayInv'
  <2> SUFFICES ASSUME GatewayInv, [Next]_vars PROVE GatewayInv'
    OBVIOUS
  <2>1. ASSUME NEW c \in Client, ClientNext(c) PROVE GatewayInv'
    BY <2>1, ClientKeepsInv
  <2>2. ASSUME NEW c \in Client, GatewayNext(c) PROVE GatewayInv'
    BY <2>2, ArriveKeepsInv, SearchKeepsInv DEF GatewayNext
  <2>3. ASSUME NEW w \in Reign, LoopNext(w) PROVE GatewayInv'
    BY <2>3, LoopKeepsInv
  <2>4. ASSUME NEW n \in Node, NodeNext(n) PROVE GatewayInv'
    BY <2>4, NodeKeepsInv
  <2>5. CASE UNCHANGED vars
    BY <2>5
    DEF GatewayInv, NodeInv, ClientInv, LedInv, HistoryInv, ValidRequest, Alone,
        vars, nodeVars, clientVars, envVars, historyVars
  <2> QED
    BY <2>1, <2>2, <2>3, <2>4, <2>5 DEF Next
<1> QED
  BY <1>1, <1>2, PTL DEF Spec

(***************************************************************************)
(* Nodes, gateway and clients stay in their types, however many clients,   *)
(* elections and crashes there are.                                        *)
(***************************************************************************)
THEOREM GatewayTypes == Spec => []TypeOK
<1>1. GatewayInv => TypeOK
  <2> SUFFICES ASSUME GatewayInv PROVE TypeOK
    OBVIOUS
  <2>1. SoundValue \subseteq Document \cup {Absent}
    BY DEF SoundValue, Sound
  <2>2. SoundCommand \subseteq Command
    BY DEF SoundCommand
  <2>3. Seq(SoundCommand) \subseteq Seq(Command)
    BY <2>2
  <2>4. SoundRound \subseteq Round
    BY <2>2 DEF SoundRound, Round
  <2>5. (\A n \in Node : queue[n] \in Seq(Command)) /\ round \in [Reign -> Round]
    BY <2>3, <2>4 DEF GatewayInv, NodeInv
  <2>6. store \in [Node -> [Key -> Document \cup {Absent}]]
    BY <2>1 DEF GatewayInv, NodeInv
  <2>7. copy \in [Client -> Document \cup {Absent}]
    BY <2>1 DEF GatewayInv, ClientInv
  <2> QED
    BY <2>5, <2>6, <2>7
    DEF TypeOK, GatewayInv, NodeInv, ClientInv, LedInv, HistoryInv, Request
<1> QED
  BY <1>1, GatewayInvariant, PTL

(***************************************************************************)
(* No balance in any node's collection is ever negative: the client's own  *)
(* check is enough, whatever is lost, repeated, reordered or overwritten.  *)
(***************************************************************************)
THEOREM BalancesStayPositive == Spec => []NeverOverdrawn
<1>1. GatewayInv => NeverOverdrawn
  <2>1. 0 \in Key
    BY DEF Key
  <2> QED
    BY <2>1 DEF GatewayInv, NodeInv, SoundValue, Sound, NeverOverdrawn
<1> QED
  BY <1>1, GatewayInvariant, PTL

-----------------------------------------------------------------------------
(* Node 0 until an election is won: what it has before it, in order.       *)

Customers == store[LeaderID]

\* The commands node 0 has taken or will take, in the order of their rounds.
Line ==
  IF round[0].stage = "wait"
  THEN <<round[0].cmd>> \o queue[LeaderID] ELSE queue[LeaderID]

\* Attempt a of write i is not in the line, nor the account it would open.
Unmade(i, a) ==
  /\ Customers[NewId(i, a)] = Absent
  /\ \A j \in 1 .. Len(Line) : ~(Line[j].serial = i /\ Line[j].try = a)

\* The only loop is node 0's, and runs as long as node 0 is up.
LoopsInv ==
  /\ LeaderID \in up <=> round[0] # NoLoop
  /\ round[0] # NoLoop => round[0].node = LeaderID
  /\ \A w \in Reign : w # 0 => round[w] = NoLoop

\* A write that a client has not come to, and an attempt that is still to be
\* made, have left nothing behind.
AttemptOf(c, r) ==
  /\ r.kind = "GET" => r.stage # "wait"
  /\ r.kind # "GET" /\ r.stage # "idle" =>
       /\ r.serial <= serial /\ Turn[r.serial] = c
       /\ r.stage = "probe" => r.try = 1
       /\ \A a \in Attempt :
            a > r.try \/ (a = r.try /\ r.stage = "sent") => Unmade(r.serial, a)

AttemptInv ==
  /\ \A i \in Serial, a \in Attempt : i > serial => Unmade(i, a)
  /\ \A c \in Client : AttemptOf(c, request[c])

\* An attempt is in the line once; an account it opens is not there yet; and
\* the command a client waits for is that of its request.
CommandInv ==
  /\ \A j, k \in 1 .. Len(Line) :
       Line[j].serial = Line[k].serial /\ Line[j].try = Line[k].try => j = k
  /\ \A j \in 1 .. Len(Line) :
       LET m == Line[j]
       IN  /\ m.op = "INSERT" => /\ m.key = NewId(m.serial, m.try)
                                 /\ Customers[m.key] = Absent
           /\ m.op # "INSERT" => m.key = 0
           /\ Awaited(m) => m = CommandOf(m.client)

\* Without an overlap one client at most has the customer in its menu, and a
\* PUT it waits for is the last one in the line.
SessionInv ==
  ~overlap =>
    \A c, d \in Client : c # d => copy[c] = Absent \/ copy[d] = Absent

LastInv ==
  ~overlap =>
    \A j, k \in 1 .. Len(Line) :
      j < k /\ Awaited(Line[j]) /\ Line[j].op = "REPLACE" => Line[k].op # "REPLACE"

\* What has been confirmed is in the collection, in every PUT that is to come
\* and in the copy PUTs are made from.
Keeps(d) ==
  /\ d \subseteq Customers[0]
  /\ \A j \in 1 .. Len(Line) : Line[j].op = "REPLACE" => d \subseteq Line[j].val
  /\ \A c \in Client : copy[c] # Absent => d \subseteq copy[c]

KeptInv ==
  \A a \in acked :
    /\ a[1] # 0 => Customers[a[1]] # Absent
    /\ a[1] = 0 /\ ~overlap /\ Customers[0] # Absent => Keeps(a[2])

Inserting(i, a) ==
  \E j \in 1 .. Len(Line) :
    Line[j].op = "INSERT" /\ Line[j].serial = i /\ Line[j].try = a

\* The first attempt of POST i is over.
Repeated(i) ==
  \/ Customers[NewId(i, 2)] # Absent \/ Inserting(i, 2)
  \/ \E c \in Client :
       /\ request[c].kind = "POST" /\ request[c].serial = i
       /\ request[c].stage # "idle"
       /\ request[c].stage = "probe" \/ request[c].try = 2

\* If it has been answered, nothing of it is left, now or later.
AnsweredInv ==
  \A i \in Serial \ unanswered :
    Repeated(i) => Customers[NewId(i, 1)] = Absent /\ ~Inserting(i, 1)

LeaderInv ==
  AttemptInv /\ CommandInv /\ SessionInv /\ LastInv /\ KeptInv /\ AnsweredInv

\* Once an election has been won, nothing confirmed is on record any more.
AloneInv ==
  /\ Alone => LoopsInv /\ LeaderInv
  /\ ~Alone => acked = {}

(***************************************************************************)
(* Every attempt to create a customer has an id of its own.                *)
(***************************************************************************)
LEMMA NewIdsDiffer ==
  /\ \A i \in Serial, a \in Attempt : NewId(i, a) \in Key /\ NewId(i, a) # 0
  /\ \A i, j \in Serial, a, b \in Attempt :
       NewId(i, a) = NewId(j, b) => i = j /\ a = b
<1>1. \A i \in Serial : i \in Nat /\ i > 0
  BY SerialsFinite, SMT
<1>2. \A a \in Attempt : a = 1 \/ a = 2
  BY SMT DEF Attempt
<1>3. \A i \in Serial, a \in Attempt : NewId(i, a) # 0
  BY <1>1, <1>2, SMT DEF NewId
<1>4. \A i, j \in Serial, a, b \in Attempt :
        NewId(i, a) = NewId(j, b) => i = j /\ a = b
  BY <1>1, <1>2, SMT DEF NewId
<1> QED
  BY <1>3, <1>4 DEF Key

(***************************************************************************)
(* There is an initial leader's reign, whatever the bound of elections.    *)
(***************************************************************************)
LEMMA ReignZero == 0 \in Reign
BY GatewayAssumption, SMT DEF Reign

(***************************************************************************)
(* The line is a sequence of sound commands.                               *)
(***************************************************************************)
LEMMA LineTyped ==
  ASSUME GatewayInv
  PROVE  /\ Line \in Seq(SoundCommand) /\ Customers \in [Key -> SoundValue]
         /\ LeaderID \in Node
<1>1. LeaderID \in Node
  BY GatewayAssumption, SMT DEF LeaderID, Node
<1>2. queue[LeaderID] \in Seq(SoundCommand) /\ round[0] \in SoundRound
  BY <1>1, ReignZero DEF GatewayInv, NodeInv
<1>3. Line \in Seq(SoundCommand)
  <2>1. CASE round[0].stage = "wait"
    <3>1. round[0].cmd \in SoundCommand
      BY <1>2, <2>1 DEF SoundRound
    <3> QED
      BY <1>2, <2>1, <3>1 DEF Line
  <2>2. CASE round[0].stage # "wait"
    BY <1>2, <2>2 DEF Line
  <2> QED
    BY <2>1, <2>2
<1> QED
  BY <1>1, <1>3 DEF GatewayInv, NodeInv, Customers

(***************************************************************************)
(* What the command of a write says.                                       *)
(***************************************************************************)
LEMMA CommandFields ==
  ASSUME GatewayInv, NEW c \in Client, request[c].kind # "GET"
  PROVE  LET r == request[c]
             m == CommandOf(c)
         IN  /\ m.client = c /\ m.serial = r.serial /\ m.try = r.try
             /\ \/ r.kind = "PUT" /\ m.op = "REPLACE" /\ m.key = 0 /\ m.val = copy[c]
                \/ /\ r.kind = "POST" /\ m.op = "INSERT" /\ m.val = {}
                   /\ m.key = NewId(r.serial, r.try)
                \/ r.kind = "DELETE" /\ m.op = "DELETE" /\ m.key = 0
<1>1. request[c].kind \in {"PUT", "POST", "DELETE"}
  BY DEF GatewayInv, ClientInv, Request, Kind
<1> QED
  BY <1>1 DEF CommandOf

LEMMA SoundFields ==
  ASSUME NEW m \in SoundCommand
  PROVE  /\ m.op \in {"INSERT", "REPLACE", "DELETE"} /\ m.key \in Key
         /\ m.val \in SoundValue /\ m.client \in Client
         /\ m.serial \in Serial /\ m.try \in Attempt
         /\ m.op # "DELETE" => m.val # Absent /\ m.val \in Document
BY NewIsSound DEF SoundCommand, Command, DB!Op, Sound

LEMMA RequestFields ==
  ASSUME GatewayInv, NEW c \in Client
  PROVE  /\ request[c].serial \in {0} \cup Serial /\ request[c].try \in {1, 2}
         /\ request[c].kind # "GET" => request[c].serial \in Serial
         /\ request[c].kind = "PUT" /\ request[c].stage # "idle" => copy[c] # Absent
         /\ request[c].serial \in Nat /\ serial \in Nat
<1>1. {0} \cup Serial \subseteq Nat
  BY SerialsFinite, SMT
<1>2. request[c] \in Request /\ ValidRequest(c, request[c]) /\ serial \in {0} \cup Serial
  BY DEF GatewayInv, ClientInv
<1> QED
  BY <1>1, <1>2, SMT DEF Request, ValidRequest, Attempt

\* The line has lost some of its commands, the first ones first.
Shrinks(k) ==
  \A j \in 1 .. Len(Line)' : j + k \in 1 .. Len(Line) /\ Line'[j] = Line[j + k]

(***************************************************************************)
(* Steps that do not add to the line keep what is known of it, as long as  *)
(* clients whose requests change do not wait for an answer after it.       *)
(***************************************************************************)
LEMMA LineShrinks ==
  ASSUME GatewayInv, AttemptInv, CommandInv, LastInv,
         NEW k \in Nat, Shrinks(k), serial' \in Nat, serial <= serial',
         overlap => overlap',
         \A i \in Serial, a \in Attempt : Unmade(i, a) => Unmade(i, a)',
         \A j \in 1 .. Len(Line)' :
           Line'[j].op = "INSERT" => Customers'[Line'[j].key] = Absent,
         \A d \in Client :
           \/ request'[d] = request[d] /\ copy'[d] = copy[d]
           \/ request'[d].stage # "wait" /\ AttemptOf(d, request[d])'
  PROVE  AttemptInv' /\ CommandInv' /\ LastInv'
<1>1. Line \in Seq(SoundCommand) /\ Len(Line) \in Nat
  BY LineTyped
<1>2. \A j \in 1 .. Len(Line) : Line[j].client \in Client
  <2>1. \A j \in 1 .. Len(Line) : Line[j] \in SoundCommand
    BY <1>1
  <2> QED
    BY <2>1, SoundFields
<1>3. serial \in Nat /\ Serial \subseteq Nat
  BY SerialsFinite, SMT DEF GatewayInv, ClientInv
<1>4. AttemptInv'
  <2>1. ASSUME NEW i \in Serial, NEW a \in Attempt, i > serial'
        PROVE  Unmade(i, a)'
    <3>1. i > serial
      BY <1>3, <2>1, SMT
    <3> QED
      BY <3>1 DEF AttemptInv
  <2>2. ASSUME NEW d \in Client, request'[d] = request[d]
        PROVE  AttemptOf(d, request[d])'
    <3>1. PICK r : r = request[d]
      OBVIOUS
    <3>2. /\ AttemptOf(d, r) /\ r.serial \in Nat
          /\ r.kind # "GET" => r.serial \in Serial
      BY <3>1, RequestFields DEF AttemptInv
    <3>3. r.serial <= serial => r.serial <= serial'
      BY <1>3, <3>2
    <3>4. \A a \in Attempt : r.kind # "GET" /\ Unmade(r.serial, a) => Unmade(r.serial, a)'
      BY <3>2
    <3>5. AttemptOf(d, r)'
      BY <3>2, <3>3, <3>4 DEF AttemptOf
    <3> QED
      BY <2>2, <3>1, <3>5 DEF AttemptOf
  <2> QED
    BY <2>1, <2>2 DEF AttemptInv
<1>5. \A m : m.client \in Client /\ Awaited(m)' =>
        /\ Awaited(m)
        /\ request'[m.client] = request[m.client] /\ copy'[m.client] = copy[m.client]
  BY DEF Awaited
<1>6. \A c : request'[c] = request[c] /\ copy'[c] = copy[c] =>
        CommandOf(c)' = CommandOf(c)
  BY DEF CommandOf
<1>7. CommandInv'
  <2>1. ASSUME NEW j \in 1 .. Len(Line)', NEW h \in 1 .. Len(Line)',
               Line'[j].serial = Line'[h].serial, Line'[j].try = Line'[h].try
        PROVE  j = h
    <3>1. /\ j + k \in 1 .. Len(Line) /\ Line'[j] = Line[j + k]
          /\ h + k \in 1 .. Len(Line) /\ Line'[h] = Line[h + k]
      BY DEF Shrinks
    <3>2. j + k = h + k
      BY <2>1, <3>1 DEF CommandInv
    <3> QED
      BY <3>2, SMT
  <2>2. ASSUME NEW j \in 1 .. Len(Line)'
        PROVE  /\ Line'[j].op = "INSERT" =>
                    /\ Line'[j].key = NewId(Line'[j].serial, Line'[j].try)
                    /\ Customers'[Line'[j].key] = Absent
               /\ Line'[j].op # "INSERT" => Line'[j].key = 0
               /\ Awaited(Line[j])' => Line'[j] = CommandOf(Line[j].client)'
    <3>1. j + k \in 1 .. Len(Line) /\ Line'[j] = Line[j + k]
      BY DEF Shrinks
    <3>2. /\ Line[j + k].op = "INSERT" =>
               Line[j + k].key = NewId(Line[j + k].serial, Line[j + k].try)
          /\ Line[j + k].op # "INSERT" => Line[j + k].key = 0
          /\ Awaited(Line[j + k]) => Line[j + k] = CommandOf(Line[j + k].client)
          /\ Line[j + k].client \in Client
      BY <1>2, <3>1 DEF CommandInv
    <3>3. PICK m : m = Line[j + k]
      OBVIOUS
    <3>4. Awaited(Line[j])' => Awaited(m)'
      BY <3>1, <3>3 DEF Awaited
    <3>5. CommandOf(Line[j].client)' = CommandOf(m.client)'
      BY <3>1, <3>3 DEF CommandOf
    <3>6. Awaited(Line[j])' => Line'[j] = CommandOf(Line[j].client)'
      BY <1>5, <1>6, <3>1, <3>2, <3>3, <3>4, <3>5
    <3> QED
      BY <3>1, <3>2, <3>6
  <2> QED
    BY <2>1, <2>2 DEF CommandInv
<1>8. LastInv'
  <2>1. ASSUME ~overlap', NEW j \in 1 .. Len(Line)', NEW h \in 1 .. Len(Line)', j < h,
               Awaited(Line[j])', Line'[j].op = "REPLACE"
        PROVE  Line'[h].op # "REPLACE"
    <3>1. /\ j + k \in 1 .. Len(Line) /\ Line'[j] = Line[j + k]
          /\ h + k \in 1 .. Len(Line) /\ Line'[h] = Line[h + k]
      BY DEF Shrinks
    <3>2. j + k < h + k
      BY <2>1, SMT
    <3>3. PICK m : m = Line[j + k]
      OBVIOUS
    <3>4. Awaited(m)
      BY <1>2, <1>5, <2>1, <3>1, <3>3 DEF Awaited
    <3> QED
      BY <2>1, <3>1, <3>2, <3>3, <3>4 DEF LastInv
  <2> QED
    BY <2>1 DEF LastInv
<1> QED
  BY <1>4, <1>7, <1>8

(***************************************************************************)
(* What has been confirmed is kept by steps that leave node 0's collection *)
(* alone, add nothing to its line, and change copies by edits or by reads  *)
(* of that collection.                                                     *)
(***************************************************************************)
LEMMA KeptShrinks ==
  ASSUME GatewayInv, KeptInv, NEW k \in Nat, Shrinks(k),
         Customers' = Customers, acked' = acked, overlap => overlap',
         \A d \in Client :
           \/ copy'[d] \in {Absent, Customers[0]}
           \/ copy[d] # Absent /\ copy[d] \subseteq copy'[d]
  PROVE  KeptInv'
<1>1. ASSUME NEW a, Keeps(a)
      PROVE  Keeps(a)'
  <2>1. \A j \in 1 .. Len(Line)' : Line'[j].op = "REPLACE" => a \subseteq Line'[j].val
    <3>1. ASSUME NEW j \in 1 .. Len(Line)', Line'[j].op = "REPLACE"
          PROVE  a \subseteq Line'[j].val
      <4>1. j + k \in 1 .. Len(Line) /\ Line'[j] = Line[j + k]
        BY DEF Shrinks
      <4> QED
        BY <1>1, <3>1, <4>1 DEF Keeps
    <3> QED
      BY <3>1
  <2>2. \A d \in Client : copy'[d] # Absent => a \subseteq copy'[d]
    BY <1>1 DEF Keeps
  <2>3. a \subseteq Customers'[0]
    BY <1>1 DEF Keeps
  <2> QED
    BY <2>1, <2>2, <2>3 DEF Keeps
<1> QED
  BY <1>1 DEF KeptInv

(***************************************************************************)
(* First attempts of POSTs that have been answered leave nothing behind in *)
(* steps that leave node 0's collection alone and add nothing to its line, *)
(* if what has just been answered has left nothing.                        *)
(***************************************************************************)
LEMMA AnsweredShrinks ==
  ASSUME GatewayInv, AnsweredInv, NEW k \in Nat, Shrinks(k),
         Customers' = Customers, unanswered \subseteq unanswered',
         \A d \in Client :
           \/ request'[d] = request[d]
           \/ request'[d].kind # "POST"
           \/ request'[d].stage # "probe" /\ request'[d].try # 2
           \/ /\ request[d].kind = "POST" /\ request[d].stage = "probe"
              /\ request'[d].serial = request[d].serial
           \/ request'[d].serial \in unanswered'
           \/ \E i : i = request'[d].serial /\ Unmade(i, 1)'
  PROVE  AnsweredInv'
<1>1. ASSUME NEW i, NEW a, Inserting(i, a)'
      PROVE  Inserting(i, a)
  <2>1. PICK j \in 1 .. Len(Line)' :
          Line'[j].op = "INSERT" /\ Line'[j].serial = i /\ Line'[j].try = a
    BY <1>1 DEF Inserting
  <2>2. j + k \in 1 .. Len(Line) /\ Line'[j] = Line[j + k]
    BY DEF Shrinks
  <2> QED
    BY <2>1, <2>2 DEF Inserting
<1>2. ASSUME NEW i, Unmade(i, 1)'
      PROVE  Customers[NewId(i, 1)] = Absent /\ ~Inserting(i, 1)'
  BY <1>2 DEF Unmade, Inserting
<1>3. ASSUME NEW i \in Serial \ unanswered', Repeated(i)'
      PROVE  Customers'[NewId(i, 1)] = Absent /\ ~Inserting(i, 1)'
  <2>1. Repeated(i) \/ Unmade(i, 1)'
    <3>1. CASE Customers'[NewId(i, 2)] # Absent \/ Inserting(i, 2)'
      BY <1>1, <3>1 DEF Repeated
    <3>2. CASE ~(Customers'[NewId(i, 2)] # Absent \/ Inserting(i, 2)')
      <4>1. PICK d \in Client :
              /\ request'[d].kind = "POST" /\ request'[d].serial = i
              /\ request'[d].stage # "idle"
              /\ request'[d].stage = "probe" \/ request'[d].try = 2
        BY <1>3, <3>2 DEF Repeated
      <4>2. CASE request'[d] = request[d]
        BY <4>1, <4>2 DEF Repeated
      <4>3. CASE /\ request[d].kind = "POST" /\ request[d].stage = "probe"
                 /\ request'[d].serial = request[d].serial
        BY <4>1, <4>3 DEF Repeated
      <4> QED
        BY <1>3, <4>1, <4>2, <4>3
    <3> QED
      BY <3>1, <3>2
  <2> QED
    BY <1>1, <1>2, <1>3, <2>1 DEF AnsweredInv
<1> QED
  BY <1>3 DEF AnsweredInv

(***************************************************************************)
(* Nothing of an attempt appears while the collection and the line do not  *)
(* grow.                                                                   *)
(***************************************************************************)
LEMMA UnmadeShrinks ==
  ASSUME GatewayInv, NEW k \in Nat, Shrinks(k), NEW i, NEW a, Unmade(i, a),
         Customers'[NewId(i, a)] = Absent
  PROVE  Unmade(i, a)'
BY DEF Unmade, Shrinks

LEMMA SameLineShrinks ==
  ASSUME GatewayInv, Line' = Line
  PROVE  Shrinks(0)
<1>1. \A j \in 1 .. Len(Line) : j + 0 = j
  BY SMT
<1> QED
  BY <1>1 DEF Shrinks

(***************************************************************************)
(* Without a new read no more clients have the customer in their menus.    *)
(***************************************************************************)
LEMMA MenusClose ==
  ASSUME SessionInv, overlap => overlap',
         \A d \in Client : copy'[d] # Absent => copy[d] # Absent
  PROVE  SessionInv'
BY DEF SessionInv

(***************************************************************************)
(* Steps of one client that leave node 0's line and collection alone, and  *)
(* after which it does not wait for an answer.                             *)
(***************************************************************************)
LEMMA OneClient ==
  ASSUME GatewayInv, GatewayInv', LeaderInv, NEW c \in Client,
         Line' = Line, Customers' = Customers, acked' = acked,
         serial <= serial', overlap => overlap', unanswered \subseteq unanswered',
         \A d \in Client \ {c} : request'[d] = request[d] /\ copy'[d] = copy[d],
         request'[c].stage # "wait", AttemptOf(c, request[c])',
         SessionInv',
         \/ copy'[c] \in {Absent, Customers[0]}
         \/ copy[c] # Absent /\ copy[c] \subseteq copy'[c],
         \/ request'[c] = request[c]
         \/ request'[c].kind # "POST"
         \/ request'[c].stage # "probe" /\ request'[c].try # 2
         \/ /\ request[c].kind = "POST" /\ request[c].stage = "probe"
            /\ request'[c].serial = request[c].serial
         \/ request'[c].serial \in unanswered'
         \/ Unmade(request'[c].serial, 1)
  PROVE  LeaderInv'
<1>1. Shrinks(0) /\ 0 \in Nat
  BY SameLineShrinks
<1>2. serial' \in Nat
  BY SerialsFinite, SMT DEF GatewayInv, ClientInv
<1>3. \A i \in Serial, a \in Attempt : Unmade(i, a) => Unmade(i, a)'
  BY DEF Unmade
<1>4. \A j \in 1 .. Len(Line)' :
        Line'[j].op = "INSERT" => Customers'[Line'[j].key] = Absent
  BY DEF LeaderInv, CommandInv
<1>5. AttemptInv' /\ CommandInv' /\ LastInv'
  BY <1>1, <1>2, <1>3, <1>4, LineShrinks DEF LeaderInv
<1>6. \A d \in Client :
        \/ copy'[d] \in {Absent, Customers[0]}
        \/ copy[d] # Absent /\ copy[d] \subseteq copy'[d]
  BY DEF LeaderInv
<1>7. KeptInv'
  BY <1>1, <1>6, KeptShrinks DEF LeaderInv
<1>8. AnsweredInv'
  <2>1. \A i : Unmade(i, 1) => Unmade(i, 1)'
    BY DEF Unmade
  <2> QED
    BY <1>1, <2>1, AnsweredShrinks DEF LeaderInv
<1> QED
  BY <1>5, <1>7, <1>8 DEF LeaderInv

(***************************************************************************)
(* The program's menus: a write takes the next serial, which has left      *)
(* nothing behind, and an edit adds to the copy.                           *)
(***************************************************************************)
LEMMA MenuKeepsLeaderInv ==
  ASSUME GatewayInv, GatewayInv', LeaderInv, NEW c \in Client, ClientNext(c)
  PROVE  LeaderInv'
<1>1. UNCHANGED <<nodeVars, current, envVars, historyVars>>
  BY DEF ClientNext, Fetch, Edit, LeaveMenu, Create, Delete
<1>2. /\ Line' = Line /\ Customers' = Customers /\ acked' = acked
      /\ unanswered' = unanswered /\ overlap' = overlap
  BY <1>1 DEF nodeVars, historyVars, Line, Customers
<1>3. /\ request \in [Client -> Request] /\ copy \in [Client -> SoundValue]
      /\ serial \in Nat /\ serial <= serial /\ serial <= serial + 1
  BY RequestFields, SMT DEF GatewayInv, ClientInv
<1>4. ASSUME NEW kind \in Kind, SendWrite(c, kind), kind # "GET",
             \A d \in Client \ {c} : copy'[d] = copy[d],
             copy'[c] # Absent => copy[c] # Absent /\ copy[c] \subseteq copy'[c]
      PROVE  LeaderInv'
  <2>1. PICK i \in Serial : i = serial + 1
    BY <1>4 DEF SendWrite
  <2>2. PICK r : r = [stage |-> "sent", kind |-> kind, serial |-> i, try |-> 1,
                      node |-> current]
    OBVIOUS
  <2>3. /\ request' = [request EXCEPT ![c] = r] /\ serial' = i /\ Turn[i] = c
        /\ r.stage = "sent" /\ r.kind = kind /\ r.serial = i /\ r.try = 1
    BY <1>4, <2>1, <2>2 DEF SendWrite, Ask
  <2>4. \A a \in Attempt : Unmade(i, a)
    <3>1. i > serial
      BY <1>3, <2>1
    <3> QED
      BY <3>1 DEF LeaderInv, AttemptInv
  <2>5. \A a \in Attempt : Unmade(i, a)'
    BY <1>2, <2>4 DEF Unmade
  <2>6. request'[c] = r
    BY <1>3, <2>3
  <2>7. AttemptOf(c, r)'
    <3>1. i <= i
      BY <1>3, <2>1
    <3>2. r.serial <= serial'
      BY <2>3, <3>1
    <3> QED
      BY <2>3, <2>5, <3>2 DEF AttemptOf
  <2>8. AttemptOf(c, request[c])'
    BY <2>6, <2>7 DEF AttemptOf
  <2>9. \A d \in Client \ {c} : request'[d] = request[d] /\ copy'[d] = copy[d]
    BY <1>3, <1>4, <2>3
  <2>10. SessionInv'
    BY <1>2, <1>4, MenusClose DEF LeaderInv
  <2>11. request'[c].stage # "wait" /\ request'[c].stage # "probe" /\ request'[c].try # 2
    BY <2>3, <2>6
  <2>12. /\ serial <= serial' /\ (overlap => overlap')
         /\ unanswered \subseteq unanswered'
    BY <1>2, <1>3, <2>1, <2>3
  <2> QED
    BY <1>2, <1>4, <2>8, <2>9, <2>10, <2>11, <2>12, OneClient
<1>5. CASE Fetch(c)
  <2>1. PICK r : r = [stage |-> "sent", kind |-> "GET", serial |-> 0, try |-> 1,
                      node |-> current]
    OBVIOUS
  <2>2. /\ r.stage = "sent" /\ r.kind = "GET" /\ request' = [request EXCEPT ![c] = r]
        /\ UNCHANGED <<copy, serial>>
    BY <1>5, <2>1 DEF Fetch, Ask
  <2>3. request'[c] = r /\ \A d \in Client \ {c} : request'[d] = request[d]
    BY <1>3, <2>2
  <2>4. AttemptOf(c, request[c])'
    BY <2>2, <2>3 DEF AttemptOf
  <2>5. SessionInv'
    BY <1>2, <2>2, MenusClose DEF LeaderInv
  <2>6. /\ copy'[c] = Absent \/ (copy[c] # Absent /\ copy[c] \subseteq copy'[c])
        /\ \A d \in Client \ {c} : request'[d] = request[d] /\ copy'[d] = copy[d]
        /\ request'[c].stage # "wait" /\ request'[c].kind # "POST"
    BY <2>2, <2>3
  <2>7. /\ serial <= serial' /\ (overlap => overlap')
        /\ unanswered \subseteq unanswered'
    BY <1>2, <1>3, <2>2
  <2> QED
    BY <1>2, <2>4, <2>5, <2>6, <2>7, OneClient
<1>6. CASE Edit(c)
  <2>1. /\ copy[c] # Absent /\ SendWrite(c, "PUT")
        /\ \E o : copy' = [copy EXCEPT ![c] = copy[c] \cup {o}]
    BY <1>6 DEF Edit
  <2>2. /\ copy[c] \subseteq copy'[c]
        /\ \A d \in Client \ {c} : copy'[d] = copy[d]
    BY <1>3, <2>1
  <2> QED
    BY <1>4, <2>1, <2>2 DEF Kind
<1>7. CASE LeaveMenu(c)
  <2>1. /\ request' = request /\ serial' = serial /\ copy' = [copy EXCEPT ![c] = Absent]
        /\ request[c].stage = "idle"
    BY <1>7 DEF LeaveMenu
  <2>2. copy'[c] = Absent /\ \A d \in Client \ {c} : copy'[d] = copy[d]
    BY <1>3, <2>1
  <2>3. AttemptOf(c, request[c])'
    BY <2>1 DEF AttemptOf
  <2>4. SessionInv'
    BY <1>2, <2>2, MenusClose DEF LeaderInv
  <2> QED
    BY <1>2, <1>3, <2>1, <2>2, <2>3, <2>4, OneClient
<1>8. CASE Create(c) \/ Delete(c)
  <2>1. copy' = copy /\ (SendWrite(c, "POST") \/ SendWrite(c, "DELETE"))
    BY <1>8 DEF Create, Delete
  <2> QED
    BY <1>4, <2>1 DEF Kind
<1> QED
  BY <1>5, <1>6, <1>7, <1>8 DEF ClientNext

(***************************************************************************)
(* What a failed attempt leaves of a request.                              *)
(***************************************************************************)
LEMMA FailedFields ==
  ASSUME GatewayInv, NEW c \in Client
  PROVE  /\ NoRequest.stage = "idle" /\ NoRequest.kind = "GET"
         /\ \/ Failed(request[c]) = NoRequest
            \/ /\ request[c].try = 1
               /\ Failed(request[c]).stage = "probe" /\ Failed(request[c]).try = 1
               /\ Failed(request[c]).kind = request[c].kind
               /\ Failed(request[c]).serial = request[c].serial
<1>1. request[c] \in Request
  BY DEF GatewayInv, ClientInv
<1> DEFINE r == [request[c] EXCEPT !.stage = "probe", !.node = 0]
<1>2. /\ r.stage = "probe" /\ r.try = request[c].try
      /\ r.kind = request[c].kind /\ r.serial = request[c].serial
  BY <1>1 DEF Request
<1>3. IF request[c].try = 1 THEN Failed(request[c]) = r
                            ELSE Failed(request[c]) = NoRequest
  BY DEF Failed
<1> HIDE DEF r
<1> QED
  BY <1>2, <1>3 DEF NoRequest

(***************************************************************************)
(* The attempt that is to follow a failed one has left nothing behind.     *)
(***************************************************************************)
LEMMA FailedAttempt ==
  ASSUME GatewayInv, AttemptInv, NEW c \in Client, request[c].stage # "idle",
         serial' \in Nat, serial <= serial',
         \A i \in Serial, a \in Attempt : Unmade(i, a) => Unmade(i, a)',
         NEW r, r \in {NoRequest, Failed(request[c])}
  PROVE  r.stage # "wait" /\ AttemptOf(c, r)'
<1>1. CASE r = NoRequest
  BY <1>1, FailedFields DEF AttemptOf
<1>2. CASE r # NoRequest
  <2>1. /\ request[c].try = 1 /\ r.stage = "probe" /\ r.try = 1
        /\ r.kind = request[c].kind /\ r.serial = request[c].serial
    BY <1>2, FailedFields
  <2>2. CASE r.kind = "GET"
    BY <2>1, <2>2 DEF AttemptOf
  <2>3. CASE r.kind # "GET"
    <3>1. /\ r.serial <= serial /\ Turn[r.serial] = c
          /\ \A a \in Attempt : a > 1 => Unmade(r.serial, a)
      BY <2>1, <2>3 DEF AttemptInv, AttemptOf
    <3>2. r.serial \in Serial /\ r.serial \in Nat /\ serial \in Nat
      BY <2>1, <2>3, RequestFields
    <3>3. r.serial <= serial'
      BY <3>1, <3>2
    <3>4. \A a \in Attempt : a > 1 => Unmade(r.serial, a)'
      BY <3>1, <3>2
    <3>5. ~(1 > 1)
      BY SMT
    <3> QED
      BY <2>1, <3>1, <3>3, <3>4 DEF AttemptOf
  <2> QED
    BY <2>2, <2>3
<1> QED
  BY <1>1, <1>2

(***************************************************************************)
(* A request that fails, or ends without an answer: what a first attempt of*)
(* a POST has left is known to be unanswered, or it is nothing.            *)
(***************************************************************************)
LEMMA FailureKeepsLeaderInv ==
  ASSUME GatewayInv, GatewayInv', LeaderInv, NEW c \in Client, request[c].stage # "idle",
         Line' = Line, Customers' = Customers, acked' = acked,
         UNCHANGED <<copy, serial, overlap>>, unanswered \subseteq unanswered',
         NEW r, r \in {NoRequest, Failed(request[c])},
         request' = [request EXCEPT ![c] = r],
         request[c].kind = "POST" /\ request[c].try = 1 =>
           request[c].serial \in unanswered' \/ Unmade(request[c].serial, 1)
  PROVE  LeaderInv'
<1>1. /\ request \in [Client -> Request]
      /\ serial \in Nat /\ serial <= serial
  BY RequestFields, SMT DEF GatewayInv, ClientInv
<1>2. request'[c] = r /\ \A d \in Client \ {c} : request'[d] = request[d]
  BY <1>1
<1>3. \A i \in Serial, a \in Attempt : Unmade(i, a) => Unmade(i, a)'
  BY DEF Unmade
<1>4. r.stage # "wait" /\ AttemptOf(c, r)'
  BY <1>1, <1>3, FailedAttempt DEF LeaderInv
<1>5. AttemptOf(c, request[c])'
  BY <1>2, <1>4 DEF AttemptOf
<1>6. SessionInv'
  BY MenusClose DEF LeaderInv
<1>7. r.kind # "POST" \/ r.serial \in unanswered' \/ Unmade(r.serial, 1)
  BY FailedFields
<1>8. copy'[c] = Absent \/ (copy[c] # Absent /\ copy[c] \subseteq copy'[c])
  OBVIOUS
<1>9. serial <= serial' /\ (overlap => overlap')
  BY <1>1
<1> QED
  BY <1>2, <1>4, <1>5, <1>6, <1>7, <1>8, <1>9, OneClient

(***************************************************************************)
(* The gateway on its own: a search that finds a leader makes the second   *)
(* attempt, which has left nothing behind.                                 *)
(***************************************************************************)
LEMMA SearchKeepsLeaderInv ==
  ASSUME GatewayInv, GatewayInv', LeaderInv, Alone, NEW c \in Client,
         GiveUp(c) \/ Probe(c) \/ Deadline(c)
  PROVE  LeaderInv'
<1>1. /\ UNCHANGED <<nodeVars, copy, serial, acked, overlap>>
      /\ request[c].stage # "idle"
  BY DEF GiveUp, Probe, Deadline, historyVars
<1>2. Line' = Line /\ Customers' = Customers
  BY <1>1 DEF nodeVars, Line, Customers
<1>3. CASE GiveUp(c)
  <2>1. /\ request' = [request EXCEPT ![c] = Failed(request[c])] /\ NoAnswer({c})
    BY <1>3 DEF GiveUp
  <2>2. /\ unanswered \subseteq unanswered'
        /\ request[c].kind = "POST" /\ request[c].try = 1 =>
             request[c].serial \in unanswered'
    BY <2>1 DEF NoAnswer
  <2> QED
    BY <1>1, <1>2, <2>1, <2>2, FailureKeepsLeaderInv
<1>4. CASE Deadline(c)
  <2>1. /\ request' = [request EXCEPT ![c] = NoRequest] /\ unanswered' = unanswered
        /\ request[c].stage = "probe"
    BY <1>4 DEF Deadline, historyVars
  <2>2. request \in [Client -> Request] /\ serial \in Nat /\ serial <= serial
    BY RequestFields, SMT DEF GatewayInv, ClientInv
  <2>3. request'[c] = NoRequest /\ \A d \in Client \ {c} : request'[d] = request[d]
    BY <2>1, <2>2
  <2>4. NoRequest.stage # "wait" /\ AttemptOf(c, NoRequest)' /\ NoRequest.kind # "POST"
    BY FailedFields DEF AttemptOf
  <2>5. AttemptOf(c, request[c])'
    BY <2>3, <2>4 DEF AttemptOf
  <2>6. SessionInv'
    BY <1>1, MenusClose DEF LeaderInv
  <2>7. copy'[c] = Absent \/ (copy[c] # Absent /\ copy[c] \subseteq copy'[c])
    BY <1>1
  <2>8. serial <= serial' /\ (overlap => overlap') /\ unanswered \subseteq unanswered'
    BY <1>1, <2>1, <2>2
  <2>9. \A d \in Client \ {c} : request'[d] = request[d] /\ copy'[d] = copy[d]
    BY <1>1, <2>3
  <2> QED
    BY <1>1, <1>2, <2>3, <2>4, <2>5, <2>6, <2>7, <2>8, <2>9, OneClient
<1>5. CASE Probe(c)
  <2>1. request \in [Client -> Request] /\ serial \in Nat /\ serial <= serial
    BY RequestFields, SMT DEF GatewayInv, ClientInv
  <2>2. request[c] \in Request /\ request[c].stage = "probe" /\ unanswered' = unanswered
    BY <1>5, <2>1 DEF Probe, historyVars
  <2>3. PICK r : /\ request' = [request EXCEPT ![c] = r]
                 /\ r.kind = request[c].kind /\ r.serial = request[c].serial
                 /\ \/ r.stage = "probe" /\ r.try = request[c].try
                    \/ r.stage = "sent" /\ r.try = 2
    <3>1. CASE request[c].node \in CmdCh
      <4> DEFINE r == [request[c] EXCEPT !.stage = "sent", !.try = 2]
      <4>1. request' = [request EXCEPT ![c] = r]
        BY <1>5, <2>1, <3>1 DEF Probe
      <4>2. r.kind = request[c].kind /\ r.serial = request[c].serial /\ r.stage = "sent"
        BY <2>2, RepeatIsRequest
      <4>3. r.try = 2
        BY <2>2 DEF Request
      <4> HIDE DEF r
      <4> QED
        BY <4>1, <4>2, <4>3
    <3>2. CASE request[c].node \notin CmdCh
      <4> DEFINE next == IF request[c].node = N THEN 0 ELSE request[c].node + 1
                 r == [request[c] EXCEPT !.node = next]
      <4>1. request' = [request EXCEPT ![c] = r]
        BY <1>5, <2>1, <3>2 DEF Probe
      <4> HIDE DEF next
      <4>2. /\ r.kind = request[c].kind /\ r.serial = request[c].serial
            /\ r.stage = "probe" /\ r.try = request[c].try
        BY <2>2 DEF Request
      <4> HIDE DEF r
      <4> QED
        BY <4>1, <4>2
    <3> QED
      BY <3>1, <3>2
  <2>4. request'[c] = r /\ \A d \in Client \ {c} : request'[d] = request[d]
    BY <2>1, <2>3
  <2>5. AttemptOf(c, r)'
    <3>1. CASE r.kind = "GET"
      BY <2>3, <3>1 DEF AttemptOf
    <3>2. CASE r.kind # "GET"
      <4>1. /\ r.serial <= serial /\ Turn[r.serial] = c /\ request[c].try = 1
            /\ \A a \in Attempt : a > 1 => Unmade(r.serial, a)
        BY <2>2, <2>3, <3>2 DEF LeaderInv, AttemptInv, AttemptOf
      <4>2. /\ \A a \in Attempt : a > 1 => Unmade(r.serial, a)'
            /\ r.serial <= serial'
        BY <1>1, <1>2, <4>1 DEF Unmade
      <4>3. \A a \in Attempt : a > 2 \/ a = 2 => a > 1
        BY SMT DEF Attempt
      <4> QED
        BY <2>3, <4>1, <4>2, <4>3 DEF AttemptOf
    <3> QED
      BY <3>1, <3>2
  <2>6. AttemptOf(c, request[c])'
    BY <2>4, <2>5 DEF AttemptOf
  <2>7. SessionInv'
    BY <1>1, MenusClose DEF LeaderInv
  <2>8. copy'[c] = Absent \/ (copy[c] # Absent /\ copy[c] \subseteq copy'[c])
    BY <1>1
  <2>9. serial <= serial' /\ (overlap => overlap') /\ unanswered \subseteq unanswered'
    BY <1>1, <2>1, <2>2
  <2>10. \A d \in Client \ {c} : request'[d] = request[d] /\ copy'[d] = copy[d]
    BY <1>1, <2>4
  <2>11. /\ r.stage # "wait"
         /\ r.kind = "POST" => /\ request[c].kind = "POST" /\ request[c].stage = "probe"
                               /\ r.serial = request[c].serial
    BY <2>2, <2>3
  <2> QED
    BY <1>1, <1>2, <2>4, <2>6, <2>7, <2>8, <2>9, <2>10, <2>11, OneClient
<1> QED
  BY <1>3, <1>4, <1>5

(***************************************************************************)
(* The requests clients have out are for different writes.                 *)
(***************************************************************************)
LEMMA SerialsDiffer ==
  ASSUME AttemptInv, NEW c \in Client, NEW d \in Client, c # d,
         request[c].kind # "GET", request[c].stage # "idle",
         request[d].kind # "GET", request[d].stage # "idle"
  PROVE  request[c].serial # request[d].serial
BY DEF AttemptInv, AttemptOf

(***************************************************************************)
(* What submitWrite adds to the line.                                      *)
(***************************************************************************)
LEMMA LineGrows ==
  ASSUME GatewayInv, NEW m \in SoundCommand, round' = round,
         queue' = [queue EXCEPT ![LeaderID] = Append(@, m)]
  PROVE  /\ Line' = Append(Line, m) /\ Len(Line)' = Len(Line) + 1 /\ Len(Line) \in Nat
         /\ Line'[Len(Line) + 1] = m
         /\ \A j \in 1 .. Len(Line) : Line'[j] = Line[j]
<1>1. /\ queue[LeaderID] \in Seq(SoundCommand) /\ Line \in Seq(SoundCommand)
      /\ queue'[LeaderID] = Append(queue[LeaderID], m)
  BY LineTyped DEF GatewayInv, NodeInv
<1>2. Line' = Append(Line, m)
  <2>1. CASE round[0].stage = "wait"
    <3>1. round[0].cmd \in SoundCommand
      BY <2>1, ReignZero DEF GatewayInv, NodeInv, SoundRound
    <3>2. <<round[0].cmd>> \o Append(queue[LeaderID], m)
            = Append(<<round[0].cmd>> \o queue[LeaderID], m)
      BY <1>1, <3>1
    <3> QED
      BY <1>1, <2>1, <3>2 DEF Line
  <2>2. CASE round[0].stage # "wait"
    BY <1>1, <2>2 DEF Line
  <2> QED
    BY <2>1, <2>2
<1> QED
  BY <1>1, <1>2

(***************************************************************************)
(* A write that arrives at node 0 while it leads: its command is the first *)
(* of its attempt, and behind every other one.                             *)
(***************************************************************************)
LEMMA PutKeepsLeaderInv ==
  ASSUME GatewayInv, GatewayInv', LeaderInv, NEW c \in Client,
         request[c].kind # "GET", request[c].stage = "sent",
         UNCHANGED <<store, round, copy, serial, acked, unanswered, overlap>>,
         queue' = [queue EXCEPT ![LeaderID] = Append(@, CommandOf(c))],
         request' = [request EXCEPT ![c].stage = "wait"]
  PROVE  LeaderInv'
<1> DEFINE n == Len(Line)
<1>1. PICK m \in SoundCommand : m = CommandOf(c)
  BY CommandsAreSound
<1>2. /\ Len(Line)' = n + 1 /\ n \in Nat /\ Line'[n + 1] = m
      /\ \A j \in 1 .. n : Line'[j] = Line[j]
      /\ Line \in Seq(SoundCommand)
  BY <1>1, LineGrows, LineTyped
<1> HIDE DEF n
<1>3. \A j \in 1 .. Len(Line)' : j \in 1 .. n \/ j = n + 1
  BY <1>2
<1>4. Customers' = Customers
  BY DEF Customers
<1>5. /\ request \in [Client -> Request] /\ request[c] \in Request
      /\ request[c].try \in {1, 2} /\ request[c].serial \in Serial
  BY RequestFields DEF GatewayInv, ClientInv
<1>6. PICK r : /\ r = request'[c] /\ r.stage = "wait" /\ r.kind = request[c].kind
               /\ r.serial = request[c].serial /\ r.try = request[c].try
  <2>1. request'[c] = [request[c] EXCEPT !.stage = "wait"]
    BY <1>5
  <2> QED
    BY <1>5, <2>1 DEF Request
<1>7. \A d \in Client \ {c} : request'[d] = request[d]
  BY <1>5
<1>8. /\ m.client = c /\ m.serial = request[c].serial /\ m.try = request[c].try
      /\ \/ r.kind = "PUT" /\ m.op = "REPLACE" /\ m.key = 0 /\ m.val = copy[c]
         \/ r.kind = "POST" /\ m.op = "INSERT" /\ m.key = NewId(m.serial, m.try)
         \/ r.kind = "DELETE" /\ m.op = "DELETE" /\ m.key = 0
  BY <1>1, <1>6, CommandFields
<1>9. /\ AttemptInv /\ CommandInv /\ SessionInv /\ LastInv /\ KeptInv /\ AnsweredInv
  BY DEF LeaderInv
<1>10. /\ m.serial <= serial /\ Turn[m.serial] = c
       /\ Unmade(m.serial, m.try)
       /\ \A a \in Attempt : a > m.try => Unmade(m.serial, a)
  <2>1. m.try \in Attempt
    BY <1>5, <1>8, SMT DEF Attempt
  <2>2. AttemptOf(c, request[c])
    BY <1>9 DEF AttemptInv
  <2> QED
    BY <1>8, <2>1, <2>2 DEF AttemptOf
<1>11. \A j \in 1 .. n : ~(Line[j].serial = m.serial /\ Line[j].try = m.try)
  BY <1>10 DEF Unmade, n
<1>12. ASSUME NEW i, NEW a, Unmade(i, a), ~(i = m.serial /\ a = m.try)
       PROVE  Unmade(i, a)'
  <2>1. \A j \in 1 .. Len(Line)' : ~(Line'[j].serial = i /\ Line'[j].try = a)
    BY <1>2, <1>3, <1>12 DEF Unmade, n
  <2> QED
    BY <1>4, <1>12, <2>1 DEF Unmade
<1>13. AttemptInv'
  <2>1. ASSUME NEW i \in Serial, NEW a \in Attempt, i > serial
        PROVE  Unmade(i, a)'
    <3>1. i # m.serial
      <4>1. i \in Nat /\ m.serial \in Nat /\ serial \in Nat
        BY <1>8, SerialsFinite, RequestFields
      <4> QED
        BY <1>10, <2>1, <4>1
    <3> QED
      BY <1>9, <1>12, <2>1, <3>1 DEF AttemptInv
  <2>2. AttemptOf(c, r)'
    <3>1. \A a \in Attempt : a > r.try => Unmade(r.serial, a) /\ a # m.try
      BY <1>5, <1>6, <1>8, <1>10, SMT DEF Attempt
    <3>2. \A a \in Attempt : a > r.try => Unmade(r.serial, a)'
      BY <1>12, <3>1
    <3>3. r.serial <= serial /\ Turn[r.serial] = c
      BY <1>6, <1>8, <1>10
    <3> QED
      BY <1>6, <3>2, <3>3 DEF AttemptOf
  <2>3. ASSUME NEW d \in Client, d # c
        PROVE  AttemptOf(d, request[d])'
    <3>1. PICK q : q = request[d]
      OBVIOUS
    <3>2. AttemptOf(d, q)
      BY <1>9, <3>1 DEF AttemptInv
    <3>3. q.kind # "GET" /\ q.stage # "idle" => q.serial # m.serial
      BY <1>8, <1>9, <2>3, <3>1, SerialsDiffer
    <3>4. \A a : q.serial # m.serial /\ Unmade(q.serial, a) => Unmade(q.serial, a)'
      BY <1>12
    <3>5. AttemptOf(d, q)'
      BY <3>2, <3>3, <3>4 DEF AttemptOf
    <3> QED
      BY <1>7, <2>3, <3>1, <3>5 DEF AttemptOf
  <2>4. AttemptOf(c, request[c])'
    BY <1>6, <2>2 DEF AttemptOf
  <2> QED
    BY <2>1, <2>3, <2>4 DEF AttemptInv
<1>14. ASSUME NEW j \in 1 .. n, Awaited(Line[j])'
       PROVE  /\ Awaited(Line[j]) /\ Line[j].client \in Client /\ Line[j].client # c
              /\ request'[Line[j].client] = request[Line[j].client]
  <2>1. PICK k \in SoundCommand : k = Line[j]
    BY <1>2 DEF n
  <2>2. Awaited(k)' /\ k.client \in Client
    BY <1>2, <1>14, <2>1, SoundFields DEF Awaited
  <2>3. k.client # c
    BY <1>6, <1>8, <1>11, <2>1, <2>2 DEF Awaited
  <2> QED
    BY <1>7, <2>1, <2>2, <2>3 DEF Awaited
<1>15. \A d \in Client : d # c => CommandOf(d)' = CommandOf(d)
  BY <1>7 DEF CommandOf
<1>16. CommandOf(c)' = m
  BY <1>1, <1>6 DEF CommandOf
<1>17. CommandInv'
  <2>1. ASSUME NEW j \in 1 .. Len(Line)', NEW k \in 1 .. Len(Line)',
               Line'[j].serial = Line'[k].serial, Line'[j].try = Line'[k].try
        PROVE  j = k
    BY <1>2, <1>3, <1>9, <1>11, <2>1 DEF CommandInv, n
  <2>2. ASSUME NEW j \in 1 .. Len(Line)'
        PROVE  /\ Line'[j].op = "INSERT" =>
                    /\ Line'[j].key = NewId(Line'[j].serial, Line'[j].try)
                    /\ Customers'[Line'[j].key] = Absent
               /\ Line'[j].op # "INSERT" => Line'[j].key = 0
               /\ Awaited(Line[j])' => Line'[j] = CommandOf(Line[j].client)'
    <3>1. CASE j \in 1 .. n
      <4>1. PICK k : k = Line[j] /\ k = Line'[j]
        BY <1>2, <3>1
      <4>2. /\ k.op = "INSERT" =>
                 k.key = NewId(k.serial, k.try) /\ Customers[k.key] = Absent
            /\ k.op # "INSERT" => k.key = 0
            /\ Awaited(k) => k = CommandOf(k.client)
        BY <1>9, <3>1, <4>1 DEF CommandInv, n
      <4>3. ASSUME Awaited(Line[j])'
            PROVE  k = CommandOf(k.client)'
        <5>1. PICK d : d = k.client
          OBVIOUS
        <5>2. Awaited(k) /\ d \in Client /\ d # c
          BY <1>14, <3>1, <4>1, <4>3, <5>1
        <5>3. CommandOf(d)' = CommandOf(d)
          BY <1>15, <5>2
        <5> QED
          BY <4>2, <5>1, <5>2, <5>3
      <4>4. CommandOf(Line[j].client)' = CommandOf(k.client)'
        BY <4>1 DEF CommandOf
      <4> QED
        BY <1>4, <4>1, <4>2, <4>3, <4>4
    <3>2. CASE j = n + 1
      <4>1. Line'[j] = m
        BY <1>2, <3>2
      <4>2. CommandOf(Line[j].client)' = CommandOf(c)'
        BY <1>8, <4>1 DEF CommandOf
      <4>3. m.op = "INSERT" => Customers'[m.key] = Absent
        BY <1>4, <1>8, <1>10 DEF Unmade
      <4> QED
        BY <1>8, <1>16, <4>1, <4>2, <4>3
    <3> QED
      BY <1>3, <3>1, <3>2
  <2> QED
    BY <2>1, <2>2 DEF CommandInv
<1>18. LastInv'
  <2>1. ASSUME ~overlap, NEW j \in 1 .. Len(Line)', NEW k \in 1 .. Len(Line)', j < k,
               Awaited(Line[j])', Line'[j].op = "REPLACE"
        PROVE  Line'[k].op # "REPLACE"
    <3>1. j \in 1 .. n
      BY <1>2, <1>3, <2>1
    <3>2. Line'[j] = Line[j] /\ Awaited(Line[j]) /\ Line[j].client # c
          /\ Line[j].client \in Client
      BY <1>2, <1>14, <2>1, <3>1
    <3>3. CASE k \in 1 .. n
      BY <1>2, <1>9, <2>1, <3>1, <3>2, <3>3 DEF LastInv, n
    <3>4. CASE k = n + 1
      <4>1. PICK d \in Client : d = Line[j].client
        BY <3>2
      <4>2. Line[j] = CommandOf(d) /\ request[d].stage = "wait"
        BY <1>9, <3>1, <3>2, <4>1 DEF CommandInv, Awaited, n
      <4>3. request[d].kind # "GET"
        BY <1>9, <4>2 DEF AttemptInv, AttemptOf
      <4>4. request[d].kind = "PUT"
        BY <2>1, <3>2, <4>2, <4>3, CommandFields
      <4>5. copy[d] # Absent
        BY <4>2, <4>4, RequestFields
      <4>6. copy[c] = Absent
        BY <1>9, <2>1, <3>2, <4>1, <4>5 DEF SessionInv
      <4> QED
        BY <1>2, <1>6, <1>8, <3>4, <4>6, RequestFields
    <3> QED
      BY <1>3, <3>3, <3>4
  <2> QED
    BY <2>1 DEF LastInv
<1>19. SessionInv'
  BY <1>9 DEF SessionInv
<1>20. KeptInv'
  <2>1. ASSUME NEW a, Keeps(a)
        PROVE  Keeps(a)'
    <3>1. \A j \in 1 .. Len(Line)' :
            Line'[j].op = "REPLACE" => a \subseteq Line'[j].val
      <4>1. m.op = "REPLACE" => a \subseteq m.val
        BY <1>6, <1>8, <2>1, RequestFields DEF Keeps
      <4> QED
        BY <1>2, <1>3, <2>1, <4>1 DEF Keeps, n
    <3> QED
      BY <1>4, <2>1, <3>1 DEF Keeps
  <2> QED
    BY <1>4, <1>9, <2>1 DEF KeptInv
<1>21. AnsweredInv'
  <2>1. ASSUME NEW i, NEW a, Inserting(i, a)'
        PROVE  Inserting(i, a) \/ (m.op = "INSERT" /\ m.serial = i /\ m.try = a)
    BY <1>2, <1>3, <2>1 DEF Inserting, n
  <2>2. ASSUME NEW i \in Serial \ unanswered, Repeated(i)'
        PROVE  Customers[NewId(i, 1)] = Absent /\ ~Inserting(i, 1)'
    <3>1. CASE ~(r.kind = "POST" /\ i = m.serial)
      <4>1. ~(m.op = "INSERT" /\ m.serial = i)
        BY <1>8, <3>1
      <4>2. Repeated(i)
        BY <1>4, <1>6, <1>7, <1>8, <2>1, <2>2, <3>1, <4>1 DEF Repeated
      <4> QED
        BY <1>9, <2>1, <2>2, <4>1, <4>2 DEF AnsweredInv
    <3>2. CASE r.kind = "POST" /\ i = m.serial /\ m.try = 2
      <4>1. Repeated(i)
        BY <1>6, <1>8, <3>2 DEF Repeated
      <4> QED
        BY <1>9, <2>1, <2>2, <3>2, <4>1 DEF AnsweredInv
    <3>3. CASE r.kind = "POST" /\ i = m.serial /\ m.try = 1
      <4>1. Unmade(i, 2)
        BY <1>10, <3>3, SMT DEF Attempt
      <4>2. Unmade(i, 2)'
        BY <1>12, <3>3, <4>1
      <4>3. Customers'[NewId(i, 2)] = Absent /\ ~Inserting(i, 2)'
        BY <4>2 DEF Unmade, Inserting
      <4>4. PICK d \in Client :
              /\ request'[d].kind = "POST" /\ request'[d].serial = i
              /\ request'[d].stage # "idle"
              /\ request'[d].stage = "probe" \/ request'[d].try = 2
        BY <2>2, <4>3 DEF Repeated
      <4>5. d # c
        BY <1>6, <1>8, <3>3, <4>4
      <4> QED
        BY <1>7, <1>8, <1>9, <3>3, <4>4, <4>5, SerialsDiffer
    <3> QED
      BY <1>5, <1>8, <3>1, <3>2, <3>3
  <2> QED
    BY <1>4, <2>2 DEF AnsweredInv
<1> QED
  BY <1>13, <1>17, <1>18, <1>19, <1>20, <1>21 DEF LeaderInv

(***************************************************************************)
(* A request that arrives before an election is won: a read takes what     *)
(* node 0 has, and tells whether another client is about.                  *)
(***************************************************************************)
LEMMA ArriveKeepsLeaderInv ==
  ASSUME GatewayInv, GatewayInv', LeaderInv, Alone, NEW c \in Client, Arrive(c)
  PROVE  LeaderInv'
<1> DEFINE n == request[c].node
<1>1. /\ UNCHANGED <<up, CmdCh, store, round, current, serial, envVars>>
      /\ request[c].stage = "sent"
  BY DEF Arrive
<1>2. n = LeaderID
  BY <1>1 DEF GatewayInv, ClientInv, ValidRequest
<1>3. /\ request \in [Client -> Request] /\ copy \in [Client -> SoundValue]
      /\ serial \in Nat /\ serial <= serial
  BY RequestFields, SMT DEF GatewayInv, ClientInv
<1>4. Customers' = Customers /\ (queue' = queue => Line' = Line)
  BY <1>1 DEF Customers, Line
<1> HIDE DEF n
<1>5. CASE Read(c, n)
  <2>1. /\ copy' = [copy EXCEPT ![c] = Customers[0]]
        /\ request' = [request EXCEPT ![c] = NoRequest]
        /\ UNCHANGED <<queue, acked, unanswered>>
        /\ overlap' = (overlap \/ (Alone /\ \E d \in Client \ {c} : Busy(d)))
    BY <1>2, <1>5 DEF Read, Customers
  <2>2. /\ copy'[c] = Customers[0] /\ request'[c] = NoRequest
        /\ \A d \in Client \ {c} : request'[d] = request[d] /\ copy'[d] = copy[d]
    BY <1>3, <2>1
  <2>3. /\ NoRequest.stage # "wait" /\ AttemptOf(c, NoRequest)'
        /\ NoRequest.kind # "POST"
    BY FailedFields DEF AttemptOf
  <2>4. AttemptOf(c, request[c])'
    BY <2>2, <2>3 DEF AttemptOf
  <2>5. SessionInv'
    <3>1. ASSUME ~overlap', NEW d \in Client, d # c
          PROVE  copy'[d] = Absent
      BY <2>1, <2>2, <3>1 DEF Busy
    <3> QED
      BY <2>1, <3>1 DEF SessionInv
  <2>6. serial <= serial' /\ (overlap => overlap') /\ unanswered \subseteq unanswered'
    BY <1>1, <1>3, <2>1
  <2> QED
    BY <1>4, <2>1, <2>2, <2>3, <2>4, <2>5, <2>6, OneClient
<1>6. CASE Write(c, n) /\ n \in CmdCh
  BY <1>1, <1>2, <1>6, PutKeepsLeaderInv DEF Write
<1>7. CASE Write(c, n) /\ n \notin CmdCh
  <2>1. /\ request' = [request EXCEPT ![c] = Failed(request[c])]
        /\ UNCHANGED <<queue, copy, overlap, acked, unanswered>>
        /\ request[c].kind # "GET"
    BY <1>7 DEF Write
  <2>2. request[c].try = 1 => Unmade(request[c].serial, 1)
    BY <1>1, <2>1, SMT DEF LeaderInv, AttemptInv, AttemptOf, Attempt
  <2> QED
    BY <1>1, <1>4, <2>1, <2>2, FailureKeepsLeaderInv
<1>8. CASE Refused(c)
  <2>1. /\ request' = [request EXCEPT ![c] = Failed(request[c])] /\ NoAnswer({c})
        /\ UNCHANGED <<queue, copy, overlap, acked>>
    BY <1>8 DEF Refused
  <2>2. /\ unanswered \subseteq unanswered'
        /\ request[c].kind = "POST" /\ request[c].try = 1 =>
             request[c].serial \in unanswered'
    BY <2>1 DEF NoAnswer
  <2> QED
    BY <1>1, <1>4, <2>1, <2>2, FailureKeepsLeaderInv
<1> QED
  BY <1>5, <1>6, <1>7, <1>8 DEF Arrive, n

(***************************************************************************)
(* A crash, of node 0 or another, cuts requests off and may empty the line.*)
(***************************************************************************)
LEMMA CrashKeepsLeaderInv ==
  ASSUME GatewayInv, GatewayInv', LoopsInv, LeaderInv, Alone,
         NEW n \in Node, Crash(n)
  PROVE  LeaderInv'
<1> DEFINE cut == {c \in Client : request[c].stage = "wait" /\ request[c].node = n}
<1>1. /\ UNCHANGED <<store, copy, serial, acked, overlap>>
      /\ queue' = [queue EXCEPT ![n] = << >>]
      /\ round' = [w \in Reign |-> IF RunsOn(w, n) THEN NoLoop ELSE round[w]]
      /\ request' = [c \in Client |->
           IF c \in cut THEN Failed(request[c]) ELSE request[c]]
      /\ NoAnswer(cut)
  BY DEF Crash
<1>2. \A c \in cut : c \in Client /\ request[c].stage # "idle"
  OBVIOUS
<1> HIDE DEF cut
<1>3. Customers' = Customers
  BY <1>1 DEF Customers
<1>4. Line' \in {Line, << >>}
  <2>1. /\ LeaderID \in Node /\ queue \in [Node -> Seq(SoundCommand)]
        /\ round[0] = NoLoop \/ round[0].node = LeaderID
        /\ round'[0] = IF RunsOn(0, n) THEN NoLoop ELSE round[0]
    BY <1>1, LineTyped, ReignZero DEF GatewayInv, NodeInv, LoopsInv
  <2>2. CASE n = LeaderID
    <3>1. queue'[LeaderID] = << >> /\ round'[0].stage # "wait"
      BY <1>1, <2>1, <2>2 DEF NoLoop, RunsOn
    <3> QED
      BY <3>1 DEF Line
  <2>3. CASE n # LeaderID
    <3>1. queue'[LeaderID] = queue[LeaderID] /\ round'[0] = round[0]
      BY <1>1, <2>1, <2>3 DEF NoLoop, RunsOn
    <3> QED
      BY <3>1 DEF Line
  <2> QED
    BY <2>2, <2>3
<1>5. Shrinks(0) /\ 0 \in Nat
  <2>1. CASE Line' = << >>
    BY <2>1 DEF Shrinks
  <2> QED
    BY <1>4, <2>1, SameLineShrinks
<1>6. serial \in Nat /\ serial' \in Nat /\ serial <= serial'
  <2>1. serial \in Nat
    BY SerialsFinite, SMT DEF GatewayInv, ClientInv
  <2> QED
    BY <1>1, <2>1
<1>7. \A i \in Serial, a \in Attempt : Unmade(i, a) => Unmade(i, a)'
  BY <1>3, <1>5, UnmadeShrinks DEF Unmade
<1>8. \A j \in 1 .. Len(Line)' :
        Line'[j].op = "INSERT" => Customers'[Line'[j].key] = Absent
  BY <1>3, <1>5 DEF Shrinks, LeaderInv, CommandInv
<1>9. ASSUME NEW d \in Client
      PROVE  \/ request'[d] = request[d] /\ copy'[d] = copy[d]
             \/ request'[d].stage # "wait" /\ AttemptOf(d, request[d])'
  <2>1. CASE d \in cut
    <3>1. PICK r : r = Failed(request[d])
      OBVIOUS
    <3>2. request'[d] = r
      BY <1>1, <2>1, <3>1
    <3>3. r.stage # "wait" /\ AttemptOf(d, r)'
      BY <1>2, <1>6, <1>7, <2>1, <3>1, FailedAttempt DEF LeaderInv
    <3> QED
      BY <3>2, <3>3 DEF AttemptOf
  <2>2. CASE d \notin cut
    BY <1>1, <2>2
  <2> QED
    BY <2>1, <2>2
<1>10. AttemptInv' /\ CommandInv' /\ LastInv'
  BY <1>1, <1>5, <1>6, <1>7, <1>8, <1>9, LineShrinks DEF LeaderInv
<1>11. SessionInv'
  BY <1>1, MenusClose DEF LeaderInv
<1>12. KeptInv'
  BY <1>1, <1>3, <1>5, KeptShrinks DEF LeaderInv
<1>13. AnsweredInv'
  <2>1. unanswered \subseteq unanswered'
    BY <1>1 DEF NoAnswer
  <2>2. ASSUME NEW d \in Client
        PROVE  \/ request'[d] = request[d]
               \/ request'[d].kind # "POST"
               \/ request'[d].serial \in unanswered'
    <3>1. CASE d \in cut
      <4>1. request[d].kind = "POST" /\ request[d].try = 1 =>
              request[d].serial \in unanswered'
        BY <1>1, <3>1, <1>2 DEF NoAnswer
      <4>2. PICK r : r = Failed(request[d])
        OBVIOUS
      <4>3. request'[d] = r
        BY <1>1, <3>1, <4>2
      <4>4. \/ r.kind = "GET"
            \/ /\ request[d].try = 1 /\ r.kind = request[d].kind
               /\ r.serial = request[d].serial
        BY <4>2, FailedFields
      <4> QED
        BY <4>1, <4>3, <4>4
    <3>2. CASE d \notin cut
      BY <1>1, <3>2
    <3> QED
      BY <3>1, <3>2
  <2> QED
    BY <1>3, <1>5, <2>1, <2>2, AnsweredShrinks DEF LeaderInv
<1> QED
  BY <1>10, <1>11, <1>12, <1>13 DEF LeaderInv

(***************************************************************************)
(* The end of a round takes the first command off the line.                *)
(***************************************************************************)
LEMMA RoundShrinks ==
  ASSUME GatewayInv, CommandInv, round[0].stage = "wait",
         round' = [round EXCEPT ![0] = Idle(LeaderID)], queue' = queue
  PROVE  /\ Shrinks(1) /\ 1 \in Nat
         /\ 1 \in 1 .. Len(Line) /\ Line[1] = round[0].cmd
         /\ round[0].cmd \in SoundCommand
         /\ \A j \in 1 .. Len(Line)' :
              ~(/\ Line'[j].serial = round[0].cmd.serial
                /\ Line'[j].try = round[0].cmd.try)
<1>1. /\ queue[LeaderID] \in Seq(SoundCommand) /\ round[0].cmd \in SoundCommand
      /\ round'[0] = Idle(LeaderID)
  BY LineTyped, ReignZero DEF GatewayInv, NodeInv, SoundRound
<1> DEFINE q == queue[LeaderID]
           m == round[0].cmd
<1>2. Line = <<m>> \o q /\ Line' = q
  BY <1>1 DEF Line, Idle
<1> HIDE DEF q, m
<1>3. m \in SoundCommand /\ q \in Seq(SoundCommand)
  BY <1>1 DEF q, m
<1>4. /\ Len(Line) = Len(Line)' + 1 /\ Len(Line)' \in Nat /\ Line[1] = m
      /\ \A j \in 1 .. Len(Line)' : j + 1 \in 1 .. Len(Line) /\ Line[j + 1] = Line'[j]
  BY <1>2, <1>3
<1>5. Shrinks(1) /\ 1 \in 1 .. Len(Line)
  BY <1>4 DEF Shrinks
<1>6. ASSUME NEW j \in 1 .. Len(Line)', Line'[j].serial = m.serial, Line'[j].try = m.try
      PROVE  FALSE
  <2>1. j + 1 = 1
    BY <1>4, <1>5, <1>6 DEF CommandInv
  <2> QED
    BY <2>1
<1> QED
  BY <1>3, <1>4, <1>5, <1>6 DEF m

(***************************************************************************)
(* The request that an awaited command belongs to.                         *)
(***************************************************************************)
LEMMA AwaitedRequest ==
  ASSUME GatewayInv, LeaderInv, NEW j \in 1 .. Len(Line), Awaited(Line[j])
  PROVE  LET m == Line[j]
             r == request[m.client]
         IN  /\ m.client \in Client /\ r.stage = "wait"
             /\ m.serial = r.serial /\ m.try = r.try
             /\ r.kind = "POST" => m.op = "INSERT"
             /\ m.op = "REPLACE" => m.val = copy[m.client] /\ copy[m.client] # Absent
<1>1. Line[j] \in SoundCommand
  BY LineTyped
<1>2. PICK c \in Client : c = Line[j].client
  BY <1>1, SoundFields
<1>3. /\ request[c].stage = "wait" /\ request[c].serial = Line[j].serial
      /\ request[c].try = Line[j].try
  BY <1>2 DEF Awaited
<1>4. request[c].kind # "GET"
  BY <1>3 DEF LeaderInv, AttemptInv, AttemptOf
<1>5. Line[j] = CommandOf(c)
  BY <1>2 DEF LeaderInv, CommandInv
<1> QED
  BY <1>2, <1>3, <1>4, <1>5, CommandFields, RequestFields

(***************************************************************************)
(* A round that is given up executes nothing at node 0: a POST that fails  *)
(* by it leaves nothing behind.                                            *)
(***************************************************************************)
LEMMA TimeOutKeepsLeaderInv ==
  ASSUME GatewayInv, GatewayInv', LoopsInv, LeaderInv, TimeOut(0)
  PROVE  LeaderInv'
<1>1. PICK m : m = round[0].cmd
  OBVIOUS
<1>2. /\ UNCHANGED <<store, queue, copy, serial, unanswered, overlap>>
      /\ round[0].stage = "wait" /\ round' = [round EXCEPT ![0] = Idle(LeaderID)]
      /\ request' = IF ~Awaited(m) THEN request
                    ELSE [request EXCEPT ![m.client] = Failed(request[m.client])]
      /\ acked' = acked
  <2>1. round[0].stage = "wait" /\ round[0].node = LeaderID
    BY DEF TimeOut, LoopsInv, NoLoop
  <2> QED
    BY <1>1, <2>1 DEF TimeOut, Answer
<1>3. /\ Shrinks(1) /\ 1 \in Nat /\ 1 \in 1 .. Len(Line) /\ Line[1] = m
      /\ m \in SoundCommand
      /\ \A j \in 1 .. Len(Line)' :
           ~(Line'[j].serial = m.serial /\ Line'[j].try = m.try)
  BY <1>1, <1>2, RoundShrinks DEF LeaderInv
<1>4. Customers' = Customers
  BY <1>2 DEF Customers
<1>5. PICK c \in Client : c = m.client
  BY <1>3, SoundFields
<1>6. serial \in Nat /\ serial' \in Nat /\ serial <= serial'
  <2>1. serial \in Nat
    BY SerialsFinite, SMT DEF GatewayInv, ClientInv
  <2> QED
    BY <1>2, <2>1
<1>7. \A i \in Serial, a \in Attempt : Unmade(i, a) => Unmade(i, a)'
  BY <1>3, <1>4, UnmadeShrinks DEF Unmade
<1>8. \A j \in 1 .. Len(Line)' :
        Line'[j].op = "INSERT" => Customers'[Line'[j].key] = Absent
  BY <1>3, <1>4 DEF Shrinks, LeaderInv, CommandInv
<1>9. request \in [Client -> Request]
  BY DEF GatewayInv, ClientInv
<1>10. ASSUME NEW d \in Client
       PROVE  \/ request'[d] = request[d]
              \/ d = c /\ Awaited(m) /\ request'[d] = Failed(request[d])
  BY <1>2, <1>5, <1>9
<1>11. ASSUME Awaited(m)
       PROVE  /\ request[c].stage = "wait"
              /\ m.serial = request[c].serial /\ m.try = request[c].try
              /\ request[c].kind = "POST" => m.op = "INSERT"
  BY <1>3, <1>5, <1>11, AwaitedRequest
<1>12. ASSUME NEW d \in Client
       PROVE  \/ request'[d] = request[d] /\ copy'[d] = copy[d]
              \/ request'[d].stage # "wait" /\ AttemptOf(d, request[d])'
  <2>1. CASE request'[d] = request[d]
    BY <1>2, <2>1
  <2>2. CASE d = c /\ Awaited(m) /\ request'[d] = Failed(request[d])
    <3>1. PICK r : r = Failed(request[d])
      OBVIOUS
    <3>2. r.stage # "wait" /\ AttemptOf(d, r)'
      BY <1>6, <1>7, <1>11, <2>2, <3>1, FailedAttempt DEF LeaderInv
    <3> QED
      BY <2>2, <3>1, <3>2 DEF AttemptOf
  <2> QED
    BY <1>10, <2>1, <2>2
<1>13. AttemptInv' /\ CommandInv' /\ LastInv'
  BY <1>2, <1>3, <1>6, <1>7, <1>8, <1>12, LineShrinks DEF LeaderInv
<1>14. SessionInv'
  BY <1>2, MenusClose DEF LeaderInv
<1>15. KeptInv'
  BY <1>2, <1>3, <1>4, KeptShrinks DEF LeaderInv
<1>16. AnsweredInv'
  <2>1. ASSUME NEW d \in Client
        PROVE  \/ request'[d] = request[d]
               \/ request'[d].kind # "POST"
               \/ \E i : i = request'[d].serial /\ Unmade(i, 1)'
    <3>1. CASE request'[d] # request[d] /\ request'[d].kind = "POST"
      <4>1. /\ d = c /\ Awaited(m) /\ m.try = 1 /\ m.op = "INSERT"
            /\ request'[d].serial = m.serial
        BY <1>10, <1>11, <3>1, FailedFields
      <4>2. Customers[NewId(m.serial, 1)] = Absent
        BY <1>3, <4>1 DEF LeaderInv, CommandInv
      <4>3. Unmade(m.serial, 1)'
        BY <1>3, <1>4, <4>1, <4>2 DEF Unmade
      <4> QED
        BY <4>1, <4>3
    <3> QED
      BY <3>1
  <2>2. unanswered \subseteq unanswered'
    BY <1>2
  <2> QED
    BY <1>3, <1>4, <2>1, <2>2, AnsweredShrinks DEF LeaderInv
<1> QED
  BY <1>13, <1>14, <1>15, <1>16 DEF LeaderInv

(***************************************************************************)
(* What a command of the line does to the collection when it is executed:  *)
(* an account is opened, or the customer that is there replaced or removed.*)
(***************************************************************************)
LEMMA LineExecutes ==
  ASSUME GatewayInv, LeaderInv, NEW j \in 1 .. Len(Line), NEW m, m = Line[j]
  PROVE  /\ m.op = "INSERT" \/ m.key = 0
         /\ m.op = "INSERT" => m.key = NewId(m.serial, m.try) /\ DB!ExecOK(Customers, m)
         /\ \A k \in Key : k # m.key => DB!Exec(Customers, m)[k] = Customers[k]
         /\ ~DB!ExecOK(Customers, m) => DB!Exec(Customers, m) = Customers
         /\ DB!ExecOK(Customers, m) /\ m.op # "DELETE" =>
              DB!Exec(Customers, m)[m.key] = m.val /\ m.val # Absent
         /\ m.op = "DELETE" => DB!Exec(Customers, m)[m.key] = Absent
         /\ m.op # "INSERT" /\ Customers[0] = Absent =>
              DB!Exec(Customers, m) = Customers
<1>1. m \in SoundCommand /\ Customers \in [Key -> SoundValue]
  BY LineTyped
<1>2. m.key \in Key /\ (m.op # "DELETE" => m.val # Absent)
  BY <1>1, SoundFields
<1>3. /\ m.op = "INSERT" => /\ m.key = NewId(m.serial, m.try)
                            /\ Customers[m.key] = Absent
      /\ m.op # "INSERT" => m.key = 0
  BY DEF LeaderInv, CommandInv
<1> QED
  BY <1>1, <1>2, <1>3 DEF DB!Exec, DB!ExecOK

(***************************************************************************)
(* A committed round executes its command at node 0: what is confirmed now *)
(* is kept by the rest of the line, and what was confirmed before is kept  *)
(* by this command.                                                        *)
(***************************************************************************)
LEMMA CommitKeepsLeaderInv ==
  ASSUME GatewayInv, GatewayInv', LoopsInv, LeaderInv, Alone, Commit(0)
  PROVE  LeaderInv'
<1>1. PICK m : m = round[0].cmd
  OBVIOUS
<1>2. /\ UNCHANGED <<queue, copy, serial, unanswered, overlap>>
      /\ round[0].stage = "wait" /\ round' = [round EXCEPT ![0] = Idle(LeaderID)]
      /\ round[0].node = LeaderID
  <2>1. round[0].stage = "wait" /\ round[0].node = LeaderID
    BY DEF Commit, LoopsInv, NoLoop
  <2> QED
    BY <2>1 DEF Commit, Answer
<1>3. /\ Shrinks(1) /\ 1 \in Nat /\ 1 \in 1 .. Len(Line) /\ Line[1] = m
      /\ m \in SoundCommand
      /\ \A j \in 1 .. Len(Line)' :
           ~(Line'[j].serial = m.serial /\ Line'[j].try = m.try)
  BY <1>1, <1>2, RoundShrinks DEF LeaderInv
<1>4. Customers' = DB!Exec(Customers, m)
  BY <1>1, <1>2, LineTyped
  DEF Commit, ExecuteHere, Customers, GatewayInv, NodeInv
<1>5. PICK c \in Client : c = m.client
  BY <1>3, SoundFields
<1>6. /\ m.op = "INSERT" \/ m.key = 0
      /\ m.op = "INSERT" => m.key = NewId(m.serial, m.try) /\ DB!ExecOK(Customers, m)
      /\ \A k \in Key : k # m.key => Customers'[k] = Customers[k]
      /\ ~DB!ExecOK(Customers, m) => Customers' = Customers
      /\ DB!ExecOK(Customers, m) /\ m.op # "DELETE" =>
           Customers'[m.key] = m.val /\ m.val # Absent
      /\ m.op = "DELETE" => Customers'[m.key] = Absent
      /\ m.op # "INSERT" /\ Customers[0] = Absent => Customers' = Customers
  BY <1>3, <1>4, LineExecutes
<1>7. PICK status : status = IF DB!ExecOK(store[LeaderID], round[0].cmd) THEN 200
                             ELSE IF round[0].cmd.op = "INSERT" THEN 500 ELSE 404
  OBVIOUS
<1>8. Answer(0, status) /\ (status = 200 <=> DB!ExecOK(Customers, m))
      /\ status # 500
  BY <1>1, <1>2, <1>6, <1>7 DEF Commit, Customers
<1>9. /\ request' = IF ~Awaited(m) THEN request
                    ELSE [request EXCEPT ![c] = NoRequest]
      /\ acked' = IF Alone /\ Awaited(m) /\ status = 200 /\ m.op # "DELETE"
                  THEN acked \cup {<<m.key, m.val>>} ELSE acked
  BY <1>1, <1>5, <1>8 DEF Answer
<1>10. request \in [Client -> Request]
  BY DEF GatewayInv, ClientInv
<1>11. \A d \in Client : request'[d] \in {request[d], NoRequest}
  BY <1>9, <1>10
<1>12. /\ m.serial \in Serial /\ m.try \in Attempt /\ 0 \in Key
       /\ \A j \in 1 .. Len(Line) : /\ Line[j].serial \in Serial
                                    /\ Line[j].try \in Attempt
  <2>1. \A j \in 1 .. Len(Line) : Line[j] \in SoundCommand
    BY LineTyped
  <2> QED
    BY <1>3, <2>1, SoundFields DEF Key
<1>13. ASSUME NEW i \in Serial, NEW a \in Attempt, ~(i = m.serial /\ a = m.try)
       PROVE  Customers'[NewId(i, a)] = Customers[NewId(i, a)]
  <2>1. NewId(i, a) \in Key /\ NewId(i, a) # 0
    BY NewIdsDiffer
  <2>2. NewId(i, a) # m.key
    BY <1>6, <1>12, <1>13, <2>1, NewIdsDiffer
  <2> QED
    BY <1>6, <2>1, <2>2
<1>14. \A i \in Serial, a \in Attempt : Unmade(i, a) => Unmade(i, a)'
  <2>1. ASSUME NEW i \in Serial, NEW a \in Attempt, Unmade(i, a)
        PROVE  Unmade(i, a)'
    <3>1. ~(i = m.serial /\ a = m.try)
      BY <1>3, <2>1 DEF Unmade
    <3>2. Customers'[NewId(i, a)] = Absent
      BY <1>13, <2>1, <3>1 DEF Unmade
    <3> QED
      BY <1>3, <2>1, <3>2, UnmadeShrinks
  <2> QED
    BY <2>1
<1>15. \A j \in 1 .. Len(Line)' :
         Line'[j].op = "INSERT" => Customers'[Line'[j].key] = Absent
  <2>1. ASSUME NEW j \in 1 .. Len(Line)', Line'[j].op = "INSERT"
        PROVE  Customers'[Line'[j].key] = Absent
    <3>1. PICK k : k = Line'[j]
      OBVIOUS
    <3>2. k = Line[j + 1] /\ j + 1 \in 1 .. Len(Line)
      BY <1>3, <3>1 DEF Shrinks
    <3>3. k.key = NewId(k.serial, k.try) /\ Customers[k.key] = Absent
      BY <2>1, <3>1, <3>2 DEF LeaderInv, CommandInv
    <3>4. ~(k.serial = m.serial /\ k.try = m.try)
      BY <1>3, <3>1
    <3> QED
      BY <1>12, <1>13, <3>1, <3>2, <3>3, <3>4
  <2> QED
    BY <2>1
<1>16. serial \in Nat /\ serial' \in Nat /\ serial <= serial'
  <2>1. serial \in Nat
    BY SerialsFinite, SMT DEF GatewayInv, ClientInv
  <2> QED
    BY <1>2, <2>1
<1>17. ASSUME NEW d \in Client
       PROVE  \/ request'[d] = request[d] /\ copy'[d] = copy[d]
              \/ request'[d].stage # "wait" /\ AttemptOf(d, request[d])'
  BY <1>2, <1>11, FailedFields DEF AttemptOf
<1>18. AttemptInv' /\ CommandInv' /\ LastInv'
  BY <1>2, <1>3, <1>14, <1>15, <1>16, <1>17, LineShrinks DEF LeaderInv
<1>19. SessionInv'
  BY <1>2, MenusClose DEF LeaderInv
<1>20. ASSUME NEW a, Keeps(a), Customers'[0] # Absent
       PROVE  Keeps(a)'
  <2>1. m.op = "REPLACE" => a \subseteq m.val
    BY <1>3, <1>20 DEF Keeps
  <2>2. a \subseteq Customers'[0]
    <3>1. CASE m.op = "INSERT"
      BY <1>6, <1>12, <1>20, <3>1, NewIdsDiffer DEF Keeps
    <3>2. CASE m.op = "DELETE"
      BY <1>6, <1>20, <3>2
    <3>3. CASE m.op = "REPLACE"
      BY <1>6, <1>20, <2>1, <3>3 DEF Keeps
    <3> QED
      BY <1>3, <3>1, <3>2, <3>3, SoundFields
  <2>3. \A j \in 1 .. Len(Line)' : Line'[j].op = "REPLACE" => a \subseteq Line'[j].val
    BY <1>3, <1>20 DEF Shrinks, Keeps
  <2> QED
    BY <1>2, <1>20, <2>2, <2>3 DEF Keeps
<1>21. KeptInv'
  <2>1. ASSUME NEW a \in acked, a[1] # 0
        PROVE  Customers'[a[1]] # Absent
    <3>1. a[1] \in Key /\ Customers[a[1]] # Absent
      BY <2>1 DEF GatewayInv, HistoryInv, LeaderInv, KeptInv
    <3> QED
      BY <1>6, <2>1, <3>1
  <2>2. ASSUME NEW a \in acked, a[1] = 0, ~overlap', Customers'[0] # Absent
        PROVE  Keeps(a[2])'
    <3>1. Customers[0] # Absent
      BY <1>6, <1>12, <2>2, NewIdsDiffer
    <3>2. PICK d : d = a[2]
      OBVIOUS
    <3>3. Keeps(d)
      BY <1>2, <2>2, <3>1, <3>2 DEF LeaderInv, KeptInv
    <3> QED
      BY <1>20, <2>2, <3>2, <3>3 DEF Keeps
  <2>3. ASSUME Awaited(m), status = 200, m.op # "DELETE"
        PROVE  /\ m.key # 0 => Customers'[m.key] # Absent
               /\ m.key = 0 /\ ~overlap' => Keeps(m.val)'
    <3>1. Customers'[m.key] = m.val /\ m.val # Absent
      BY <1>6, <1>8, <2>3
    <3>2. ASSUME m.key = 0, ~overlap'
          PROVE  Keeps(m.val)'
      <4>1. m.op = "REPLACE"
        BY <1>3, <1>6, <1>12, <2>3, <3>2, NewIdsDiffer, SoundFields
      <4>2. m.val = copy[c] /\ copy[c] # Absent
        BY <1>3, <1>5, <2>3, <4>1, AwaitedRequest
      <4>3. \A d \in Client : copy[d] # Absent => m.val \subseteq copy[d]
        BY <1>2, <3>2, <4>2 DEF LeaderInv, SessionInv
      <4>4. \A j \in 1 .. Len(Line)' : Line'[j].op # "REPLACE"
        <5>1. ASSUME NEW j \in 1 .. Len(Line)'
              PROVE  Line'[j].op # "REPLACE"
          <6>1. j + 1 \in 1 .. Len(Line) /\ Line'[j] = Line[j + 1] /\ 1 < j + 1
            BY <1>3 DEF Shrinks
          <6> QED
            BY <1>2, <1>3, <2>3, <3>2, <4>1, <6>1 DEF LeaderInv, LastInv
        <5> QED
          BY <5>1
      <4> QED
        BY <1>2, <3>1, <3>2, <4>3, <4>4 DEF Keeps
    <3> QED
      BY <3>1, <3>2
  <2>4. ASSUME NEW a \in acked'
        PROVE  /\ a[1] # 0 => Customers'[a[1]] # Absent
               /\ a[1] = 0 /\ ~overlap' /\ Customers'[0] # Absent => Keeps(a[2])'
    <3>1. CASE a \in acked
      BY <2>1, <2>2, <3>1
    <3>2. CASE a \notin acked
      <4>1. /\ Awaited(m) /\ status = 200 /\ m.op # "DELETE"
            /\ a[1] = m.key /\ a[2] = m.val
        BY <1>9, <2>4, <3>2
      <4>2. PICK v : v = m.val
        OBVIOUS
      <4>3. /\ m.key # 0 => Customers'[m.key] # Absent
            /\ m.key = 0 /\ ~overlap' => Keeps(v)'
        BY <2>3, <4>1, <4>2 DEF Keeps
      <4> QED
        BY <4>1, <4>2, <4>3 DEF Keeps
    <3> QED
      BY <3>1, <3>2
  <2> QED
    BY <2>4 DEF KeptInv
<1>22. ASSUME NEW i, NEW a, Inserting(i, a)'
       PROVE  Inserting(i, a)
  BY <1>3, <1>22 DEF Inserting, Shrinks
<1>23. ASSUME NEW i \in Serial, NEW a \in Attempt, Customers'[NewId(i, a)] # Absent
       PROVE  Customers[NewId(i, a)] # Absent \/ Inserting(i, a)
  <2>1. CASE i = m.serial /\ a = m.try /\ m.op = "INSERT"
    BY <1>3, <2>1 DEF Inserting
  <2>2. CASE i = m.serial /\ a = m.try /\ m.op # "INSERT"
    BY <1>6, <1>23, <2>2, NewIdsDiffer
  <2>3. CASE ~(i = m.serial /\ a = m.try)
    BY <1>13, <1>23, <2>3
  <2> QED
    BY <2>1, <2>2, <2>3
<1>24. AnsweredInv'
  <2>1. ASSUME NEW i \in Serial \ unanswered, Repeated(i)'
        PROVE  Customers'[NewId(i, 1)] = Absent /\ ~Inserting(i, 1)'
    <3>1. 1 \in Attempt /\ 2 \in Attempt
      BY SMT DEF Attempt
    <3>2. Repeated(i)
      BY <1>11, <1>22, <1>23, <2>1, <3>1, FailedFields DEF Repeated
    <3>3. Customers[NewId(i, 1)] = Absent /\ ~Inserting(i, 1)
      BY <2>1, <3>2 DEF LeaderInv, AnsweredInv
    <3> QED
      BY <1>22, <1>23, <2>1, <3>1, <3>3
  <2> QED
    BY <1>2, <2>1 DEF AnsweredInv
<1> QED
  BY <1>18, <1>19, <1>21, <1>24 DEF LeaderInv

(***************************************************************************)
(* Steps that clients do not see, and that leave node 0's line and         *)
(* collection as they are.                                                 *)
(***************************************************************************)
LEMMA QuietKeepsLeaderInv ==
  ASSUME GatewayInv, LeaderInv, Line' = Line, Customers' = Customers,
         UNCHANGED <<clientVars, historyVars>>
  PROVE  LeaderInv'
<1>1. UNCHANGED <<request, copy, serial, acked, unanswered, overlap>>
  BY DEF clientVars, historyVars
<1>2. Shrinks(0) /\ 0 \in Nat
  BY SameLineShrinks
<1>3. serial \in Nat /\ serial <= serial
  BY SerialsFinite, SMT DEF GatewayInv, ClientInv
<1>4. \A i \in Serial, a \in Attempt : Unmade(i, a) => Unmade(i, a)'
  BY DEF Unmade
<1>5. \A j \in 1 .. Len(Line)' :
        Line'[j].op = "INSERT" => Customers'[Line'[j].key] = Absent
  BY DEF LeaderInv, CommandInv
<1>6. AttemptInv' /\ CommandInv' /\ LastInv'
  BY <1>1, <1>2, <1>3, <1>4, <1>5, LineShrinks DEF LeaderInv
<1>7. SessionInv'
  BY <1>1, MenusClose DEF LeaderInv
<1>8. KeptInv'
  BY <1>1, <1>2, KeptShrinks DEF LeaderInv
<1>9. AnsweredInv'
  BY <1>1, <1>2, AnsweredShrinks DEF LeaderInv
<1> QED
  BY <1>6, <1>7, <1>8, <1>9 DEF LeaderInv

(***************************************************************************)
(* The steps of node 0's loop, the only one there is until an election is  *)
(* won.                                                                    *)
(***************************************************************************)
LEMMA LoopKeepsLeaderInv ==
  ASSUME GatewayInv, GatewayInv', LoopsInv, LeaderInv, Alone, NEW w \in Reign, LoopNext(w)
  PROVE  LeaderInv'
<1>1. w = 0 /\ round[0].node = LeaderID
  BY DEF LoopNext, Take, Commit, TimeOut, NoLoop, LoopsInv
<1>2. CASE Take(w)
  <2>1. /\ queue[LeaderID] \in Seq(SoundCommand) /\ queue[LeaderID] # << >>
        /\ round[0].stage = "idle"
        /\ round'[0] = [stage |-> "wait", node |-> LeaderID,
                        cmd |-> Head(queue[LeaderID])]
        /\ queue'[LeaderID] = Tail(queue[LeaderID])
    BY <1>1, <1>2, LineTyped, ReignZero DEF Take, GatewayInv, NodeInv
  <2>2. Line = queue[LeaderID]
    BY <2>1 DEF Line
  <2>3. Line' = <<Head(queue[LeaderID])>> \o Tail(queue[LeaderID])
    BY <2>1 DEF Line
  <2>4. \A q \in Seq(SoundCommand) : q # << >> => <<Head(q)>> \o Tail(q) = q
    OBVIOUS
  <2>5. Line' = Line
    BY <2>1, <2>2, <2>3, <2>4
  <2>6. Customers' = Customers
    BY <1>1, <1>2, LineTyped DEF Take, Customers
  <2>7. UNCHANGED <<clientVars, historyVars>>
    BY <1>2 DEF Take
  <2> QED
    BY <2>5, <2>6, <2>7, QuietKeepsLeaderInv
<1>3. CASE Commit(w)
  BY <1>1, <1>3, CommitKeepsLeaderInv
<1>4. CASE TimeOut(w)
  BY <1>1, <1>4, TimeOutKeepsLeaderInv
<1> QED
  BY <1>2, <1>3, <1>4 DEF LoopNext

(***************************************************************************)
(* Without an election, the only loop is node 0's, while node 0 is up.     *)
(***************************************************************************)
LEMMA LoopsStep ==
  ASSUME GatewayInv, LoopsInv, [Next]_vars, \A n \in Node : ~Win(n)
  PROVE  LoopsInv'
<1>1. LeaderID \in Node /\ round \in [Reign -> SoundRound] /\ 0 \in Reign
  BY LineTyped, ReignZero DEF GatewayInv, NodeInv
<1>2. \A n \in Node : Idle(n) # NoLoop /\ Idle(n).node = n
  BY DEF Idle, NoLoop
<1>3. CASE UNCHANGED <<up, round>>
  BY <1>3 DEF LoopsInv
<1>4. ASSUME NEW w \in Reign, LoopNext(w)
      PROVE  LoopsInv'
  <2>1. round[w] # NoLoop
    BY <1>4 DEF LoopNext, Take, Commit, TimeOut, NoLoop
  <2>2. w = 0 /\ round[0].node = LeaderID /\ LeaderID \in up
    BY <2>1 DEF LoopsInv
  <2>3. PICK r : /\ r # NoLoop /\ r.node = LeaderID
                 /\ round' = [round EXCEPT ![0] = r]
    <3>1. CASE Take(w)
      <4> DEFINE r == [stage |-> "wait", node |-> LeaderID,
                       cmd |-> Head(queue[LeaderID])]
      <4>1. r # NoLoop /\ r.node = LeaderID
        BY DEF NoLoop
      <4>2. round' = [round EXCEPT ![0] = r]
        BY <2>2, <3>1 DEF Take
      <4> HIDE DEF r
      <4> QED
        BY <4>1, <4>2
    <3>2. CASE Commit(w) \/ TimeOut(w)
      BY <1>1, <1>2, <2>2, <3>2 DEF Commit, TimeOut, Answer
    <3> QED
      BY <1>4, <3>1, <3>2 DEF LoopNext
  <2>4. UNCHANGED up
    BY <1>4 DEF LoopNext, Take, Commit, TimeOut, Answer
  <2> QED
    BY <1>1, <2>2, <2>3, <2>4 DEF LoopsInv
<1>5. ASSUME NEW n \in Node, NodeNext(n)
      PROVE  LoopsInv'
  <2>1. CASE Crash(n)
    <3>1. /\ up' = up \ {n} /\ n \in up
          /\ \A w \in Reign : round'[w] = IF RunsOn(w, n) THEN NoLoop ELSE round[w]
      BY <2>1 DEF Crash
    <3>2. round[0] # NoLoop => (RunsOn(0, n) <=> n = LeaderID)
      <4>1. round[0] # NoLoop => round[0].stage # "none"
        BY <1>1 DEF SoundRound, NoLoop
      <4> QED
        BY <4>1 DEF RunsOn, LoopsInv
    <3> QED
      BY <1>1, <3>1, <3>2 DEF LoopsInv
  <2>2. CASE Start(n) /\ n = LeaderID
    BY <1>1, <1>2, <2>2 DEF Start, LoopsInv
  <2>3. CASE Start(n) /\ n # LeaderID
    BY <1>1, <2>3 DEF Start, LoopsInv
  <2>4. CASE Deposed(n)
    BY <1>3, <2>4 DEF Deposed
  <2> QED
    BY <1>5, <2>1, <2>2, <2>3, <2>4 DEF NodeNext
<1> QED
  BY <1>3, <1>4, <1>5
  DEF Next, ClientNext, GatewayNext, Fetch, Edit, LeaveMenu, Create, Delete,
      Arrive, GiveUp, Probe, Deadline, vars, nodeVars

(***************************************************************************)
(* Only an answer adds to what has been confirmed, only an election ends   *)
(* the record.                                                             *)
(***************************************************************************)
LEMMA AckedGrows ==
  ASSUME [Next]_vars
  PROVE  \/ acked' = acked
         \/ \E n \in Node : Win(n)
         \/ \E w \in Reign : \E status : Answer(w, status)
<1>1. ASSUME NEW c \in Client, ClientNext(c) \/ GatewayNext(c)
      PROVE  acked' = acked
  BY <1>1
  DEF ClientNext, GatewayNext, Fetch, Edit, LeaveMenu, Create, Delete, Arrive,
      Read, Write, Refused, GiveUp, Probe, Deadline, historyVars
<1>2. ASSUME NEW w \in Reign, LoopNext(w)
      PROVE  acked' = acked \/ \E status : Answer(w, status)
  BY <1>2 DEF LoopNext, Take, Commit, TimeOut, historyVars
<1>3. ASSUME NEW n \in Node, NodeNext(n)
      PROVE  acked' = acked \/ Win(n)
  BY <1>3 DEF NodeNext, Deposed, Crash, Start, historyVars
<1>4. CASE UNCHANGED vars
  BY <1>4 DEF vars, historyVars
<1> QED
  BY <1>1, <1>2, <1>3, <1>4 DEF Next

(***************************************************************************)
(* Only a won election changes their number, and ends Alone.               *)
(***************************************************************************)
LEMMA WinsStep ==
  ASSUME GatewayInv, [Next]_vars
  PROVE  \/ wins' = wins
         \/ (\E n \in Node : Win(n)) /\ ~Alone' /\ acked' = {}
<1>1. ASSUME NEW n \in Node, Win(n)
      PROVE  ~Alone' /\ acked' = {}
  <2>1. wins \in Nat
    BY GatewayAssumption, SMT DEF GatewayInv, HistoryInv
  <2>2. wins' = wins + 1 /\ acked' = {}
    BY <1>1 DEF Win
  <2> QED
    BY <2>1, <2>2, SMT DEF Alone
<1> QED
  BY <1>1
  DEF Next, ClientNext, GatewayNext, LoopNext, NodeNext, Fetch, Edit, LeaveMenu,
      Create, Delete, Arrive, GiveUp, Probe, Deadline, Take, Commit, TimeOut,
      Answer, Deposed, Crash, Start, vars, envVars

(***************************************************************************)
(* Every step keeps AloneInv; a won election ends it.                      *)
(***************************************************************************)
LEMMA AloneStep ==
  ASSUME GatewayInv, GatewayInv', AloneInv, [Next]_vars
  PROVE  AloneInv'
<1>1. ASSUME Alone'
      PROVE  LoopsInv' /\ LeaderInv'
  <2>1. Alone /\ LoopsInv /\ LeaderInv
    BY <1>1, WinsStep DEF Alone, AloneInv
  <2>2. \A n \in Node : ~Win(n)
    <3>1. wins' = 0 /\ wins = 0
      BY <1>1, <2>1 DEF Alone
    <3> QED
      BY <3>1, SMT DEF Win
  <2>3. LoopsInv'
    BY <2>1, <2>2, LoopsStep
  <2>4. ASSUME NEW c \in Client, ClientNext(c) \/ GatewayNext(c)
        PROVE  LeaderInv'
    BY <2>1, <2>4, MenuKeepsLeaderInv, ArriveKeepsLeaderInv, SearchKeepsLeaderInv
    DEF GatewayNext
  <2>5. ASSUME NEW w \in Reign, LoopNext(w)
        PROVE  LeaderInv'
    BY <2>1, <2>5, LoopKeepsLeaderInv
  <2>6. ASSUME NEW n \in Node, NodeNext(n)
        PROVE  LeaderInv'
    <3>1. CASE Crash(n)
      BY <2>1, <3>1, CrashKeepsLeaderInv
    <3>2. CASE Deposed(n) \/ Start(n)
      <4>1. UNCHANGED <<store, queue, clientVars, historyVars>>
        BY <3>2 DEF Deposed, Start
      <4>2. round'[0] = round[0]
              \/ (round[0].stage # "wait" /\ round'[0].stage # "wait")
        <5>1. CASE Deposed(n)
          BY <5>1 DEF Deposed
        <5>2. CASE Start(n) /\ n # LeaderID
          BY <5>2 DEF Start
        <5>3. CASE Start(n) /\ n = LeaderID
          <6>1. round'[0] = Idle(LeaderID)
            BY <5>3, ReignZero DEF Start, GatewayInv, NodeInv
          <6>2. round[0] = NoLoop
            BY <2>1, <5>3 DEF Start, LoopsInv
          <6> QED
            BY <6>1, <6>2 DEF Idle, NoLoop
        <5> QED
          BY <3>2, <5>1, <5>2, <5>3
      <4>3. Line' = Line /\ Customers' = Customers
        BY <4>1, <4>2 DEF Line, Customers
      <4> QED
        BY <2>1, <4>1, <4>3, QuietKeepsLeaderInv
    <3> QED
      BY <2>2, <2>6, <3>1, <3>2 DEF NodeNext
  <2>7. CASE UNCHANGED vars
    <3>1. UNCHANGED <<store, queue, round, clientVars, historyVars>>
      BY <2>7 DEF vars, nodeVars
    <3>2. Line' = Line /\ Customers' = Customers
      BY <3>1 DEF Line, Customers
    <3> QED
      BY <2>1, <2>3, <3>1, <3>2, QuietKeepsLeaderInv
  <2>8. LeaderInv'
    BY <2>4, <2>5, <2>6, <2>7 DEF Next
  <2> QED
    BY <2>3, <2>8
<1>2. ASSUME ~Alone'
      PROVE  acked' = {}
  <2>1. CASE \E n \in Node : Win(n)
    BY <2>1 DEF Win
  <2>2. CASE wins' = wins
    <3>1. ~Alone /\ acked = {}
      BY <1>2, <2>2 DEF Alone, AloneInv
    <3>2. ASSUME NEW w \in Reign, NEW status, Answer(w, status)
          PROVE  acked' = acked
      BY <3>1, <3>2 DEF Answer
    <3> QED
      BY <3>1, <3>2, AckedGrows DEF Win
  <2> QED
    BY <2>1, <2>2, WinsStep
<1> QED
  BY <1>1, <1>2 DEF AloneInv

(***************************************************************************)
(* AloneInv holds of every state.                                          *)
(***************************************************************************)
LEMMA AloneInvariant == Spec => []AloneInv
<1>1. Init => AloneInv
  <2> SUFFICES ASSUME Init PROVE AloneInv
    OBVIOUS
  <2>1. LeaderID \in Node
    BY GatewayAssumption, SMT DEF LeaderID, Node
  <2>2. round[0] = Idle(LeaderID)
    BY ReignZero DEF Init
  <2>3. LoopsInv
    BY <2>1, <2>2 DEF Init, LoopsInv, Idle, NoLoop
  <2>4. \A j \in 1 .. Len(Line) : FALSE
    <3>1. Line = << >> /\ Len(Line) = 0
      BY <2>1, <2>2 DEF Init, Line, Idle
    <3> QED
      BY <3>1, SMT
  <2>5. \A i \in Serial, a \in Attempt : Customers[NewId(i, a)] = Absent
    BY <2>1, NewIdsDiffer DEF Init, Customers, Seed
  <2>6. \A i \in Serial, a \in Attempt : Unmade(i, a)
    BY <2>4, <2>5 DEF Unmade
  <2>7. AttemptInv
    BY <2>6 DEF Init, AttemptInv, AttemptOf, NoRequest
  <2>8. CommandInv /\ LastInv
    BY <2>4 DEF CommandInv, LastInv
  <2>9. SessionInv /\ KeptInv
    BY DEF Init, SessionInv, KeptInv
  <2>10. AnsweredInv
    <3>1. 1 \in Attempt /\ 2 \in Attempt
      BY SMT DEF Attempt
    <3> QED
      BY <2>4, <2>5, <3>1 DEF Init, AnsweredInv, Inserting
  <2> QED
    BY <2>3, <2>7, <2>8, <2>9, <2>10 DEF Init, AloneInv, Alone, LeaderInv
<1>2. GatewayInv /\ GatewayInv' /\ AloneInv /\ [Next]_vars => AloneInv'
  BY AloneStep
<1> QED
  BY <1>1, <1>2, GatewayInvariant, PTL DEF Spec

(***************************************************************************)
(* What a client has been told is saved stays saved until an election is   *)
(* won, unless two clients had the customer in their menus at once,        *)
(* whatever times out, is repeated or is cut off by a crash.               *)
(***************************************************************************)
THEOREM AcknowledgedStaysSaved == Spec => []AcknowledgedKept
<1>1. AloneInv => AcknowledgedKept
  <2> SUFFICES ASSUME AloneInv, NEW a \in acked
               PROVE  IF a[1] = 0
                      THEN overlap \/ Customers[0] = Absent \/ a[2] \subseteq Customers[0]
                      ELSE Customers[a[1]] # Absent
    BY DEF AcknowledgedKept, Customers
  <2>1. KeptInv
    BY DEF AloneInv, LeaderInv
  <2> QED
    BY <2>1 DEF KeptInv, Keeps
<1> QED
  BY <1>1, AloneInvariant, PTL

(***************************************************************************)
(* Until an election is won, a read that brings the customer brings every  *)
(* change that has been confirmed, unless two clients had the customer in  *)
(* their menus at once: the gateway sends it to node 0, deposed or not.    *)
(***************************************************************************)
THEOREM ReadsAreNotStale == Spec => ReadsReturnAcknowledged
<1>1. ASSUME GatewayInv, AloneInv, [Next]_vars, NEW c \in Client,
             copy[c] = Absent, copy'[c] # Absent,
             ~overlap, NEW a \in acked, a[1] = 0
      PROVE  a[2] \subseteq copy'[c]
  <2>1. Alone /\ KeptInv
    BY <1>1 DEF AloneInv, LeaderInv
  <2>2. copy \in [Client -> SoundValue]
    BY <1>1 DEF GatewayInv, ClientInv
  <2>3. CASE \E d \in Client : Arrive(d)
    <3>1. PICK d \in Client : Arrive(d)
      BY <2>3
    <3>2. d = c /\ Read(c, request[c].node)
      BY <1>1, <2>2, <3>1 DEF Arrive, Read, Write, Refused
    <3>3. request[c].node = LeaderID
      BY <1>1, <2>1, <3>1, <3>2 DEF Arrive, GatewayInv, ClientInv, ValidRequest
    <3>4. copy'[c] = Customers[0]
      BY <2>2, <3>2, <3>3 DEF Read, Customers
    <3> QED
      BY <1>1, <2>1, <3>4 DEF KeptInv, Keeps
  <2>4. CASE \E d \in Client : ClientNext(d)
    <3>1. PICK d \in Client : ClientNext(d)
      BY <2>4
    <3>2. CASE Edit(d)
      <4>1. copy[d] # Absent /\ \E e : copy' = [copy EXCEPT ![d] = e]
        BY <3>2 DEF Edit
      <4> QED
        BY <1>1, <2>2, <4>1
    <3>3. CASE LeaveMenu(d)
      BY <1>1, <2>2, <3>3 DEF LeaveMenu
    <3> QED
      BY <1>1, <3>1, <3>2, <3>3 DEF ClientNext, Fetch, Create, Delete
  <2>5. CASE UNCHANGED copy
    BY <1>1, <2>5
  <2> QED
    BY <1>1, <2>3, <2>4, <2>5
    DEF Next, GatewayNext, GiveUp, Probe, Deadline, LoopNext, Take, Commit,
        TimeOut, Answer, NodeNext, Win, Deposed, Crash, Start, vars, clientVars
<1>2. GatewayInv /\ AloneInv /\ [Next]_vars =>
        [\A c \in Client :
           copy[c] = Absent /\ copy'[c] # Absent =>
             overlap \/ \A a \in acked : a[1] = 0 => a[2] \subseteq copy'[c]]_vars
  BY <1>1
<1> QED
  BY <1>2, GatewayInvariant, AloneInvariant, PTL DEF Spec, ReadsReturnAcknowledged

(***************************************************************************)
(* Until an election is won, two accounts for one POST mean that its first *)
(* attempt got no answer at all: one that was refused with a 5xx never     *)
(* takes effect.                                                           *)
(***************************************************************************)
THEOREM TwoAccountsNeedSilence == Spec => []TwoAccountsMeanUnanswered
<1>1. AloneInv => TwoAccountsMeanUnanswered
  <2> SUFFICES ASSUME AloneInv, Alone, NEW i \in Serial,
                      \A a \in Attempt : Customers[NewId(i, a)] # Absent
               PROVE  i \in unanswered
    BY DEF TwoAccountsMeanUnanswered, Customers
  <2>1. 1 \in Attempt /\ 2 \in Attempt
    BY SMT DEF Attempt
  <2>2. Repeated(i)
    BY <2>1 DEF Repeated
  <2> QED
    BY <2>1, <2>2 DEF AloneInv, LeaderInv, AnsweredInv
<1> QED
  BY <1>1, AloneInvariant, PTL
=============================================================================
