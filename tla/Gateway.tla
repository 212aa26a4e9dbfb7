------------------------------ MODULE Gateway -------------------------------
(***************************************************************************)
(* The cluster as its clients see it: the menu of the client program, the  *)
(* gateway, the HTTP handlers of every node, and the loops that replicate  *)
(* their commands, while leaders come and go.                              *)
(*                                                                         *)
(* The client edits a copy of a customer and PUTs the whole copy; the      *)
(* gateway sends a request to the leader it knows and, if there is no      *)
(* answer or a 5xx, looks for a leader and sends it once more; handlers of *)
(* writes put a command into cmdCh and wait.                               *)
(*                                                                         *)
(* A node's RunConsensus is abstracted to what Consensus and WriteService  *)
(* show of it: commands are taken in order, executed by any of the other   *)
(* nodes or by none, and committed or given up; that a follower may be     *)
(* late is left to Consensus.  The nodes here are those that may come to   *)
(* lead; of the others clients see no more than that they make a quorum or *)
(* not, at any time.  Elections are abstracted to Win and Deposed: a node  *)
(* that does not lead may win at any time, a deposed one again, and each   *)
(* win starts one more loop on the node's queue.                           *)
(***************************************************************************)
EXTENDS Integers, Sequences, FiniteSets

CONSTANTS
  N,             \* number of nodes that may lead
  Client,        \* client programs
  Turn,          \* bound: the client of each write, in order
  MaxWin,        \* bound: elections won
  MaxCrash       \* bound: crashes

ASSUME GatewayAssumption ==
  /\ N \in Nat \ {0}
  /\ Turn \in Seq(Client)
  /\ MaxWin \in Nat
  /\ MaxCrash \in Nat

Node == 0 .. N - 1
LeaderID == 0

\* Reign 0 is the initial leader's, reign w that of the w-th election won.
Reign == 0 .. MaxWin

(***************************************************************************)
(* A customer is the set of the changes of its balance: i for a deposit of *)
(* 1 and -i for a withdrawal of 1 with write i.  Customer 0 is seeded;     *)
(* customer 2i-2+a is created by attempt a of write i, which draws an id   *)
(* of its own.                                                             *)
(***************************************************************************)
Serial == DOMAIN Turn
Attempt == 1 .. 2
NewId(i, a) == 2 * i - 2 + a
Key == {0} \cup {NewId(i, a) : i \in Serial, a \in Attempt}
Change == Serial \cup {-i : i \in Serial}
Document == SUBSET Change
Absent == {0}
Balance(d) ==
  Cardinality({o \in d : o > 0}) - Cardinality({o \in d : o < 0})

\* makeKVExecutor and the collection it works on.
Seed == [k \in Key |-> IF k = 0 THEN {} ELSE Absent]
DB == INSTANCE KVStore WITH Command <- {}

(***************************************************************************)
(* A request and where it is.                                              *)
(*   idle   none                                                           *)
(*   sent   attempt try is on its way to node                              *)
(*   wait   its handler there waits for the result                         *)
(*   probe  the gateway asks node for its status                           *)
(***************************************************************************)
Stage == {"idle", "sent", "wait", "probe"}
Kind == {"GET", "PUT", "POST", "DELETE"}

NoRequest == [stage |-> "idle", kind |-> "GET", serial |-> 0, try |-> 1, node |-> 0]

VARIABLES
  \* the nodes
  up,          \* processes that run
  CmdCh,       \* nodes whose CmdCh is not nil: /status reports isLeader
  store,       \* store[n]: the customers collection
  queue,       \* queue[n]: cmdCh and the handlers blocked on it, in order
  round,       \* round[w]: the loop of reign w, and the command of its round
  \* the gateway
  current,     \* currentLeaderID
  \* the clients
  request,     \* request[c]
  copy,        \* copy[c]: the customer in the update menu, Absent outside
  serial,      \* writes so far
  \* history
  wins, crashes,
  \* history, kept until the first election is won
  acked,       \* <<k, d>>: document d of customer k has been confirmed
  unanswered,  \* POSTs whose first attempt got no answer at all
  overlap      \* two clients have had the customer in their hands at once

nodeVars == <<up, CmdCh, store, queue, round>>
clientVars == <<request, copy, serial>>
envVars == <<wins, crashes>>
historyVars == <<acked, unanswered, overlap>>
vars == <<nodeVars, current, clientVars, envVars, historyVars>>

Command ==
  [op : DB!Op, key : Key, val : Document \cup {Absent}, client : Client,
   serial : Serial, try : Attempt]

(***************************************************************************)
(* The loop of a reign: it does not run, it waits for a command, or for    *)
(* replies to one.                                                         *)
(***************************************************************************)
Round ==
  [stage : {"none"}]
    \cup [stage : {"idle"}, node : Node]
    \cup [stage : {"wait"}, node : Node, cmd : Command]

TypeOK ==
  /\ up \subseteq Node /\ CmdCh \subseteq up
  /\ store \in [Node -> [Key -> Document \cup {Absent}]]
  /\ \A n \in Node : queue[n] \in Seq(Command)
  /\ round \in [Reign -> Round]
  /\ current \in Node
  /\ request \in [Client -> [stage : Stage, kind : Kind, serial : {0} \cup Serial,
                             try : Attempt, node : 0 .. N]]
  /\ copy \in [Client -> Document \cup {Absent}]
  /\ serial \in {0} \cup Serial
  /\ wins \in 0 .. MaxWin /\ crashes \in 0 .. MaxCrash
  /\ acked \subseteq Key \X Document
  /\ unanswered \subseteq Serial
  /\ overlap \in BOOLEAN

-----------------------------------------------------------------------------
NoLoop == [stage |-> "none"]
Idle(n) == [stage |-> "idle", node |-> n]

Init ==
  /\ up = Node /\ CmdCh = {LeaderID}
  /\ store = [n \in Node |-> Seed]
  /\ queue = [n \in Node |-> << >>]
  /\ round = [w \in Reign |-> IF w = 0 THEN Idle(LeaderID) ELSE NoLoop]
  /\ current = LeaderID
  /\ request = [c \in Client |-> NoRequest]
  /\ copy = [c \in Client |-> Absent]
  /\ serial = 0
  /\ wins = 0 /\ crashes = 0
  /\ acked = {}
  /\ unanswered = {}
  /\ overlap = FALSE

\* No election has been won: node 0 alone has led, with one loop at a time.
Alone == wins = 0

-----------------------------------------------------------------------------
(* The client program.                                                     *)

\* The gateway reads currentLeaderID for the first attempt.
Ask(c, kind, i) ==
  /\ request[c].stage = "idle"
  /\ request' = [request EXCEPT ![c] =
       [stage |-> "sent", kind |-> kind, serial |-> i, try |-> 1,
        node |-> current]]

SendWrite(c, kind) ==
  /\ serial + 1 \in Serial /\ Turn[serial + 1] = c
  /\ serial' = serial + 1
  /\ Ask(c, kind, serial + 1)

\* UpdateCustomer fetches customer 0; SearchCustomer and ViewAllCustomers
\* send the same request and keep nothing.  Bound: none after the client's
\* last write.
Fetch(c) ==
  /\ copy[c] = Absent
  /\ \E i \in Serial : i > serial /\ Turn[i] = c
  /\ Ask(c, "GET", 0)
  /\ UNCHANGED <<nodeVars, current, copy, serial, envVars, historyVars>>

\* Mutant: a withdrawal is not checked against the balance.
EditUnchecked(c) ==
  /\ copy[c] # Absent
  /\ \E o \in {serial + 1, -(serial + 1)} :
       copy' = [copy EXCEPT ![c] = @ \cup {o}]
  /\ SendWrite(c, "PUT")
  /\ UNCHANGED <<nodeVars, current, envVars, historyVars>>

\* A deposit or a withdrawal in the update menu changes the copy, which is
\* then PUT as a whole.
Edit(c) ==
  /\ copy[c] # Absent
  /\ \/ copy' = [copy EXCEPT ![c] = @ \cup {serial + 1}]
     \/ /\ Balance(copy[c]) >= 1
        /\ copy' = [copy EXCEPT ![c] = @ \cup {-(serial + 1)}]
  /\ SendWrite(c, "PUT")
  /\ UNCHANGED <<nodeVars, current, envVars, historyVars>>

LeaveMenu(c) ==
  /\ request[c].stage = "idle"
  /\ copy[c] # Absent
  /\ copy' = [copy EXCEPT ![c] = Absent]
  /\ UNCHANGED <<nodeVars, current, request, serial, envVars, historyVars>>

\* CreateCustomer.
Create(c) ==
  /\ copy[c] = Absent
  /\ SendWrite(c, "POST")
  /\ UNCHANGED <<nodeVars, current, copy, envVars, historyVars>>

\* DeleteCustomer, of customer 0.
Delete(c) ==
  /\ copy[c] = Absent
  /\ SendWrite(c, "DELETE")
  /\ UNCHANGED <<nodeVars, current, copy, envVars, historyVars>>

-----------------------------------------------------------------------------
(* The gateway.                                                            *)

\* After a failed attempt: forwardWrite looks for a leader, or gives up.
Failed(r) ==
  IF r.try = 1 THEN [r EXCEPT !.stage = "probe", !.node = 0] ELSE NoRequest

\* The attempts of the clients in C have ended without an answer.
NoAnswer(C) ==
  unanswered' = unanswered \cup {request[c].serial :
    c \in {d \in C : Alone /\ request[d].kind = "POST" /\ request[d].try = 1}}

\* tryNode has waited 10 s.
GiveUp(c) ==
  /\ request[c].stage = "wait"
  /\ request' = [request EXCEPT ![c] = Failed(@)]
  /\ NoAnswer({c})
  /\ UNCHANGED <<nodeVars, current, copy, serial, envVars, acked,
                 overlap>>

\* Mutant: any node that answers is taken for the leader.
ProbeAny(c) ==
  LET i == request[c].node
  IN  /\ request[c].stage = "probe"
      /\ IF i \in up
         THEN /\ current' = i
              /\ request' = [request EXCEPT ![c].stage = "sent", ![c].try = 2]
         ELSE /\ request' = [request EXCEPT ![c].node = IF i = N THEN 0 ELSE i + 1]
              /\ UNCHANGED current
      /\ UNCHANGED <<nodeVars, copy, serial, envVars, historyVars>>

\* Mutant: one node too many is asked.
ProbePastEnd(c) ==
  LET i == request[c].node
  IN  /\ request[c].stage = "probe"
      /\ i \notin CmdCh
      /\ request' = [request EXCEPT ![c].node = IF i > N THEN 0 ELSE i + 1]
      /\ UNCHANGED <<nodeVars, current, copy, serial, envVars, historyVars>>

\* discoverLeader asks the nodes in turn; the first that calls itself the
\* leader gets the second attempt.  After the last one it starts over.
Probe(c) ==
  LET i == request[c].node
  IN  /\ request[c].stage = "probe"
      /\ IF i \in CmdCh
         THEN /\ current' = i
              /\ request' = [request EXCEPT ![c].stage = "sent", ![c].try = 2]
         ELSE /\ request' = [request EXCEPT ![c].node = IF i = N THEN 0 ELSE i + 1]
              /\ UNCHANGED current
      /\ UNCHANGED <<nodeVars, copy, serial, envVars, historyVars>>

\* No leader found in 10 s.
Deadline(c) ==
  /\ request[c].stage = "probe" /\ request[c].node = N
  /\ request' = [request EXCEPT ![c] = NoRequest]
  /\ UNCHANGED <<nodeVars, current, copy, serial, envVars, historyVars>>

-----------------------------------------------------------------------------
(* The HTTP handlers of a node.                                            *)

\* A client that has the customer in the menu, or a request out.
Busy(c) == copy[c] # Absent \/ request[c].stage # "idle"

\* GetCustomers and GetCustomerByID read the node's own collection.
Read(c, n) ==
  /\ request[c].kind = "GET"
  /\ copy' = [copy EXCEPT ![c] = store[n][0]]
  /\ overlap' = (overlap \/ (Alone /\ \E d \in Client \ {c} : Busy(d)))
  /\ request' = [request EXCEPT ![c] = NoRequest]
  /\ UNCHANGED <<queue, acked, unanswered>>

\* The command of a write; POST draws a new id for every attempt.
CommandOf(c) ==
  LET r == request[c]
      put(op, key, val) == [op |-> op, key |-> key, val |-> val, client |-> c,
                            serial |-> r.serial, try |-> r.try]
  IN  CASE r.kind = "PUT"    -> put("REPLACE", 0, copy[c])
        [] r.kind = "POST"   -> put("INSERT", NewId(r.serial, r.try), {})
        [] r.kind = "DELETE" -> put("DELETE", 0, Absent)

\* submitWrite: 503 without CmdCh, else the command waits its turn.
Write(c, n) ==
  /\ request[c].kind # "GET"
  /\ IF n \in CmdCh
     THEN /\ queue' = [queue EXCEPT ![n] = Append(@, CommandOf(c))]
          /\ request' = [request EXCEPT ![c].stage = "wait"]
     ELSE /\ request' = [request EXCEPT ![c] = Failed(@)]
          /\ UNCHANGED queue
  /\ UNCHANGED <<copy, overlap, acked, unanswered>>

\* Nobody listens at the node's port.
Refused(c) ==
  /\ request' = [request EXCEPT ![c] = Failed(@)]
  /\ NoAnswer({c})
  /\ UNCHANGED <<queue, copy, overlap, acked>>

Arrive(c) ==
  LET n == request[c].node
  IN  /\ request[c].stage = "sent"
      /\ IF n \in up THEN Read(c, n) \/ Write(c, n) ELSE Refused(c)
      /\ UNCHANGED <<up, CmdCh, store, round, current, serial, envVars>>

-----------------------------------------------------------------------------
(* RunConsensus, the loop of reign w.                                      *)

\* Mutant: the newest command is taken first.
TakeNewest(w) ==
  /\ round[w].stage = "idle"
  /\ LET n == round[w].node
         last == Len(queue[n])
     IN  /\ queue[n] # << >>
         /\ round' = [round EXCEPT ![w] =
              [stage |-> "wait", node |-> n, cmd |-> queue[n][last]]]
         /\ queue' = [queue EXCEPT ![n] = SubSeq(@, 1, last - 1)]
  /\ UNCHANGED <<up, CmdCh, store, current, clientVars, envVars, historyVars>>

\* The next command of its node goes to the nodes the loop can reach.
Take(w) ==
  /\ round[w].stage = "idle"
  /\ LET n == round[w].node
         cmd == Head(queue[n])
     IN  /\ queue[n] # << >>
         /\ round' = [round EXCEPT ![w] =
              [stage |-> "wait", node |-> n, cmd |-> cmd]]
         /\ queue' = [queue EXCEPT ![n] = Tail(@)]
         /\ \E reached \in SUBSET (up \ {n}) :
              store' = [f \in Node |->
                IF f \in reached THEN DB!Exec(store[f], cmd) ELSE store[f]]
  /\ UNCHANGED <<up, CmdCh, current, clientVars, envVars, historyVars>>

\* The request cmd belongs to still waits for it.
Awaited(cmd) ==
  /\ request[cmd.client].stage = "wait"
  /\ request[cmd.client].serial = cmd.serial
  /\ request[cmd.client].try = cmd.try

(***************************************************************************)
(* ReplyCh, the handler and the gateway: a 5xx fails the attempt, anything *)
(* else is the client's answer.  After a 200 the client's copy is what it  *)
(* sent.                                                                   *)
(***************************************************************************)
Answer(w, status) ==
  LET cmd == round[w].cmd
  IN  /\ round' = [round EXCEPT ![w] = Idle(round[w].node)]
      /\ request' = IF ~Awaited(cmd) THEN request
                    ELSE [request EXCEPT ![cmd.client] =
                           IF status = 500 THEN Failed(@) ELSE NoRequest]
      /\ acked' = IF Alone /\ Awaited(cmd) /\ status = 200 /\ cmd.op # "DELETE"
                  THEN acked \cup {<<cmd.key, cmd.val>>} ELSE acked
      /\ UNCHANGED <<up, CmdCh, queue, current, copy, serial, envVars,
                     unanswered, overlap>>

ExecuteHere(w) ==
  store' = [store EXCEPT ![round[w].node] = DB!Exec(@, round[w].cmd)]

\* A quorum: the command is executed here, too, and the outcome is the answer.
Commit(w) ==
  /\ round[w].stage = "wait"
  /\ ExecuteHere(w)
  /\ Answer(w, IF DB!ExecOK(store[round[w].node], round[w].cmd) THEN 200
               ELSE IF round[w].cmd.op = "INSERT" THEN 500 ELSE 404)

\* Mutant: a command is executed here even if its round times out.
TimeOutExecutes(w) ==
  /\ round[w].stage = "wait"
  /\ ExecuteHere(w)
  /\ Answer(w, 500)

TimeOut(w) ==
  /\ round[w].stage = "wait"
  /\ Answer(w, 500)
  /\ UNCHANGED store

-----------------------------------------------------------------------------
(* Leaders and processes come and go.                                      *)

\* onTimeout: a node that does not lead has won an election.  Its own loops,
\* if it has led before, go on beside the new one.
Win(n) ==
  /\ n \in up \ CmdCh
  /\ wins < MaxWin
  /\ wins' = wins + 1
  /\ CmdCh' = CmdCh \cup {n}
  /\ round' = [round EXCEPT ![wins + 1] = Idle(n)]
  /\ acked' = {} /\ unanswered' = {} /\ overlap' = FALSE
  /\ UNCHANGED <<up, store, queue, current, clientVars, crashes>>

\* onDeposed; the loop and the commands it has been given go on.
Deposed(n) ==
  /\ n \in CmdCh
  /\ CmdCh' = CmdCh \ {n}
  /\ UNCHANGED <<up, store, queue, round, current, clientVars,
                 envVars, historyVars>>

\* The loop of reign w runs on node n.
RunsOn(w, n) == round[w].stage # "none" /\ round[w].node = n

\* The collection outlives the process, its loops, commands and handlers do
\* not.
Crash(n) ==
  /\ n \in up
  /\ crashes < MaxCrash
  /\ crashes' = crashes + 1
  /\ up' = up \ {n} /\ CmdCh' = CmdCh \ {n}
  /\ queue' = [queue EXCEPT ![n] = << >>]
  /\ round' = [w \in Reign |-> IF RunsOn(w, n) THEN NoLoop ELSE round[w]]
  /\ LET cut == {c \in Client : request[c].stage = "wait" /\ request[c].node = n}
     IN  /\ request' = [c \in Client |->
              IF c \in cut THEN Failed(request[c]) ELSE request[c]]
         /\ NoAnswer(cut)
  /\ UNCHANGED <<store, current, copy, serial, wins, acked, overlap>>

\* startNode: node 0 leads again, whoever leads the cluster by now.
Start(n) ==
  /\ n \notin up
  /\ up' = up \cup {n}
  /\ IF n = LeaderID
     THEN /\ CmdCh' = CmdCh \cup {n}
          /\ round' = [round EXCEPT ![0] = Idle(n)]
     ELSE UNCHANGED <<CmdCh, round>>
  /\ UNCHANGED <<store, queue, current, clientVars, envVars, historyVars>>

-----------------------------------------------------------------------------
ClientNext(c) == Fetch(c) \/ Edit(c) \/ LeaveMenu(c) \/ Create(c) \/ Delete(c)
GatewayNext(c) == Arrive(c) \/ GiveUp(c) \/ Probe(c) \/ Deadline(c)
LoopNext(w) == Take(w) \/ Commit(w) \/ TimeOut(w)
NodeNext(n) == Win(n) \/ Deposed(n) \/ Crash(n) \/ Start(n)

Next ==
  \/ \E c \in Client : ClientNext(c) \/ GatewayNext(c)
  \/ \E w \in Reign : LoopNext(w)
  \/ \E n \in Node : NodeNext(n)

Spec == Init /\ [][Next]_vars

-----------------------------------------------------------------------------
(* Properties.                                                             *)

(***************************************************************************)
(* What a client has been told is saved stays saved until an election is   *)
(* won, unless two clients had the customer in their menus at once: no     *)
(* attempt that was timed out, repeated or cut off by a crash overwrites   *)
(* it, whenever it takes effect.  Only a DELETE removes it.                *)
(***************************************************************************)
AcknowledgedKept ==
  \A a \in acked :
    LET now == store[LeaderID][a[1]]
    IN  IF a[1] = 0 THEN overlap \/ now = Absent \/ a[2] \subseteq now
        ELSE now # Absent

(***************************************************************************)
(* No stale reads: until an election is won, whatever is retried elsewhere,*)
(* deposed or restarted, a read that brings the customer brings every      *)
(* change that has been confirmed, unless two clients were at it at once.  *)
(***************************************************************************)
ReadsReturnAcknowledged ==
  [][\A c \in Client :
       copy[c] = Absent /\ copy'[c] # Absent =>
         overlap \/ \A a \in acked : a[1] = 0 => a[2] \subseteq copy'[c]]_vars

(***************************************************************************)
(* "Reads go to the leader for consistency (no stale reads from            *)
(* followers)": as long as some node leads, a read is not sent to one that *)
(* does not, which would serve it from its own collection all the same.    *)
(***************************************************************************)
NoFollowerReads ==
  [][\A c \in Client :
       /\ request[c].stage = "idle" /\ request'[c].stage = "sent"
       /\ request'[c].kind = "GET" /\ CmdCh # {}
       => request'[c].node \in CmdCh]_vars

(***************************************************************************)
(* The client's check of a withdrawal against its copy keeps every balance *)
(* in every collection from becoming negative: writes carry balances, so   *)
(* that lost, repeated and late ones at worst restore an older one.        *)
(***************************************************************************)
NeverOverdrawn ==
  \A n \in Node : store[n][0] # Absent => Balance(store[n][0]) >= 0

(***************************************************************************)
(* Until an election is won, one POST opens two accounts only if the       *)
(* gateway has got no answer to its first attempt: one that is answered    *)
(* with a 5xx has not taken effect on the leader, and never will.          *)
(***************************************************************************)
TwoAccountsMeanUnanswered ==
  Alone =>
    \A i \in Serial :
      (\A a \in Attempt : store[LeaderID][NewId(i, a)] # Absent)
        => i \in unanswered

=============================================================================
