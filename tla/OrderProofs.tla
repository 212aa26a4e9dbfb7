---------------------------- MODULE OrderProofs -----------------------------
(***************************************************************************)
(* The proofs about the order in which the followers of one reign execute  *)
(* the rounds, about what the replicas hold, and about the abstract write  *)
(* service, for every number of nodes, rounds and crashes.                 *)
(*                                                                         *)
(* TurnInv is what the job queues are for: a goroutine that has sent its   *)
(* call knows that the calls of all earlier rounds have returned.  From it *)
(* follow RoundInv, what a follower has executed; ClockInv, where its      *)
(* priority clock stands; and, with the connections of the initial leader, *)
(* PrefixInv: what it has executed is a prefix of the rounds.              *)
(***************************************************************************)
EXTENDS ConsensusProofs

Done == {"acked", "failed"}
Unsent == {"idle", "wait"}
Unexecuted == Unsent \cup InHandler

TurnInv ==
  \A f \in Follower, c \in Round :
    /\ jobQ[f][c] = "full" => rpc[f][c] \in Done
    /\ rpc[f][c] \notin Unsent => \A b \in Round : b < c => rpc[f][b] \in Done

RoundInv ==
  /\ RoundsIncrease
  /\ \A f \in Follower : \A i \in 1 .. Len(executed[f]) :
       rpc[f][executed[f][i]] \notin Unexecuted

\* B is the latest round a follower's clock may have been left at.
ClockInv(B) ==
  \A f \in Follower :
    /\ prioClock[f] <= B \/ /\ prioClock[f] \in Round
                            /\ rpc[f][prioClock[f]] \notin Unsent \cup {"call"}
    /\ \A c \in Round : rpc[f][c] = "stale" => c < B

PrefixInv ==
  /\ docked = Follower
  /\ InOrderExecution
  /\ \A f \in Follower, c \in Round :
       /\ rpc[f][c] \in InHandler => connUp[f]
       /\ rpc[f][c] \in {"ok", "acked"} => c < Len(executed[f])
       /\ connUp[f] => rpc[f][c] \in Unexecuted <=> c >= Len(executed[f])

\* Customer k is there from the start and no client deletes it.
Permanent(k) ==
  /\ k \in Key
  /\ Seed[k] # Absent
  /\ \A c \in Command : c.key = k => c.op # "DELETE" /\ c.val # Absent

\* h[i] is what the commands of the first i rounds make of the seed.
IsHistory(h) ==
  /\ h \in [0 .. MaxRound -> Store]
  /\ h[0] = Seed
  /\ \A i \in 1 .. Len(cmdOf) : h[i] = Exec(h[i-1], cmdOf[i])

\* The followers hold what the rounds they have executed make of the seed, and so
\* does the leader for the rounds it has answered.
HistoryInv ==
  \E h : /\ IsHistory(h)
         /\ \A f \in Follower : store[f] = h[Len(executed[f])]
         /\ "timeout" \notin Range(answer) =>
              /\ Len(executed[Leader]) = Len(answer)
              /\ store[Leader] = h[Len(answer)]

-----------------------------------------------------------------------------
(* The steps, by what they do to the calls.                                *)

\* A step of the HTTP side, or of the loop between its calls.
CallsIdle == UNCHANGED <<cmdOf, connVars, nodeVars>>

\* Every other step opens a round, executes on the leader, moves one call on, is
\* about a node coming or going, or serves another loop's round.
LEMMA StepKinds ==
  [Next]_vars =>
    \/ CallsIdle
    \/ StartRound
    \/ LocalExec
    \/ \E f \in Follower, c \in Round : RPCNext(f, c)
    \/ \E f \in Follower : Crash(f) \/ Start(f) \/ ConnectMissingPeer(f)
    \/ \E n \in Node : RivalPriority(n) \/ RivalExecutor(n)
<1> SUFFICES ASSUME [Next]_vars, ~CallsIdle
             PROVE  \/ StartRound
                    \/ LocalExec
                    \/ \E f \in Follower, c \in Round : RPCNext(f, c)
                    \/ \E f \in Follower :
                         Crash(f) \/ Start(f) \/ ConnectMissingPeer(f)
                    \/ \E n \in Node : RivalPriority(n) \/ RivalExecutor(n)
  OBVIOUS
<1>1. ~(UNCHANGED vars)
  BY DEF CallsIdle, vars, loopVars
<1>2. ~(\E c \in Command : SubmitWrite(c))
  BY DEF CallsIdle, SubmitWrite, loopVars
<1>3. ~(\E l \in Usurpers : FollowHeartbeat(l))
  BY DEF CallsIdle, FollowHeartbeat
<1>4. ~(ReceiveReply \/ ConsensusTimeout \/ LateReply \/ EndDrain)
  BY DEF CallsIdle, ReceiveReply, ConsensusTimeout, LateReply, EndDrain
<1> QED
  BY <1>1, <1>2, <1>3, <1>4 DEF Next, LoopNext

\* Another loop's round moves no call of this one and runs no round of this one.
LEMMA RivalSteps ==
  (\E n \in Node : RivalPriority(n) \/ RivalExecutor(n))
    => UNCHANGED <<cmdOf, connVars, executed, alive>>
BY DEF RivalPriority, RivalExecutor, loopVars

\* With no other loop about there is no such step.
LEMMA NoRivals ==
  Rivals = {} => ~(\E n \in Node : RivalPriority(n) \/ RivalExecutor(n))
BY DEF RivalPriority, RivalExecutor

\* The round that StartRound opens is one no goroutine has been spawned for.
LEMMA NewRound ==
  ASSUME TypeOK, QueueInv, StartRound
  PROVE  /\ round \in Round
         /\ Len(cmdOf) = round
         /\ \A f \in Follower, c \in Round :
              /\ rpc[f][round] = "idle"
              /\ rpc'[f][c] = rpc[f][c] \/ (c = round /\ rpc'[f][c] = "wait")
              /\ jobQ'[f][c] = "full" => jobQ[f][c] = "full"
<1> USE DEF StartRound
<1>1. round \in Round /\ Len(cmdOf) = round /\ round \in Nat
  BY ConstantFacts DEF TypeOK, QueueInv, Round
<1>2. \A f \in Follower : rpc[f][round] = "idle"
  BY <1>1 DEF QueueInv
<1>3. \A f \in Follower : /\ rpc[f] \in [Round -> Stage]
                          /\ jobQ[f] \in [Round -> {"nil", "empty", "full"}]
  BY DEF TypeOK
<1> QED
  BY <1>1, <1>2, <1>3

\* The stages a goroutine of follower f and round c goes through in one of its
\* own steps.
LEMMA CallSteps ==
  ASSUME TypeOK, NEW f \in Follower, NEW c \in Round, RPCNext(f, c)
  PROVE  /\ \A g \in Follower, d \in Round :
              g # f \/ d # c => rpc'[g][d] = rpc[g][d]
         /\ \/ /\ SendRPC(f, c)
               /\ rpc[f][c] = "wait"
               /\ rpc'[f][c] = IF connUp[f] THEN "call" ELSE "lost"
            \/ /\ UpdatePriority(f, c)
               /\ rpc[f][c] = "call"
               /\ rpc'[f][c] = IF c < prioClock[f] THEN "stale" ELSE "admitted"
            \/ /\ KVExecutor(f, c)
               /\ rpc[f][c] = "admitted"
               /\ rpc'[f][c] \in {"ok", "err"}
            \/ /\ ReturnRPC(f, c)
               /\ rpc[f][c] \in Returning
               /\ rpc'[f][c] = IF rpc[f][c] = "ok" THEN "acked" ELSE "failed"
<1>0. rpc \in [Follower -> [Round -> Stage]]
  BY DEF TypeOK
<1>1. CASE SendRPC(f, c)
  <2>1. PICK stage : stage = IF connUp[f] THEN "call" ELSE "lost"
    OBVIOUS
  <2>2. rpc[f][c] = "wait" /\ rpc' = [rpc EXCEPT ![f][c] = stage]
    BY <1>1, <2>1 DEF SendRPC
  <2>3. \A g \in Follower, d \in Round :
          rpc'[g][d] = IF g = f /\ d = c THEN stage ELSE rpc[g][d]
    BY <1>0, <2>2
  <2> QED
    BY <1>1, <2>1, <2>2, <2>3
<1>2. CASE UpdatePriority(f, c)
  <2>1. PICK stage : stage = IF c < prioClock[f] THEN "stale" ELSE "admitted"
    OBVIOUS
  <2>2. rpc[f][c] = "call" /\ rpc' = [rpc EXCEPT ![f][c] = stage]
    BY <1>2, <2>1 DEF UpdatePriority, OlderRound
  <2>3. \A g \in Follower, d \in Round :
          rpc'[g][d] = IF g = f /\ d = c THEN stage ELSE rpc[g][d]
    BY <1>0, <2>2
  <2> QED
    BY <1>2, <2>1, <2>2, <2>3
<1>3. CASE KVExecutor(f, c)
  <2>1. PICK stage \in {"ok", "err"} : rpc' = [rpc EXCEPT ![f][c] = stage]
    BY <1>3 DEF KVExecutor
  <2>2. \A g \in Follower, d \in Round :
          rpc'[g][d] = IF g = f /\ d = c THEN stage ELSE rpc[g][d]
    BY <1>0, <2>1
  <2>3. rpc[f][c] = "admitted"
    BY <1>3 DEF KVExecutor
  <2> QED
    BY <1>3, <2>1, <2>2, <2>3
<1>4. CASE ReturnRPC(f, c)
  <2>1. PICK stage : stage = IF rpc[f][c] = "ok" THEN "acked" ELSE "failed"
    OBVIOUS
  <2>2. rpc[f][c] \in Returning /\ rpc' = [rpc EXCEPT ![f][c] = stage]
    BY <1>4, <2>1 DEF ReturnRPC, TypeOK
  <2>3. \A g \in Follower, d \in Round :
          rpc'[g][d] = IF g = f /\ d = c THEN stage ELSE rpc[g][d]
    BY <1>0, <2>2
  <2> QED
    BY <1>4, <2>1, <2>2, <2>3
<1> QED
  BY <1>1, <1>2, <1>3, <1>4 DEF RPCNext

\* A crash fails the calls of one follower that are under way, and no other.
LEMMA CrashedCalls ==
  ASSUME TypeOK, NEW f \in Follower, Crash(f)
  PROVE  \A g \in Follower, d \in Round :
           rpc'[g][d] = IF g = f /\ rpc[g][d] \in InHandler \cup Returning
                        THEN "lost" ELSE rpc[g][d]
BY DEF Crash, TypeOK

\* No call ever goes back: not to before it was sent, admitted or executed, and
\* what has returned stays as it is.
LEMMA StagesAdvance ==
  ASSUME TypeOK, QueueInv, [Next]_vars, NEW f \in Follower, NEW c \in Round
  PROVE  /\ rpc[f][c] \in Done => rpc'[f][c] = rpc[f][c]
         /\ rpc[f][c] \notin Unsent => rpc'[f][c] \notin Unsent
         /\ rpc[f][c] \notin Unsent \cup {"call"}
              => rpc'[f][c] \notin Unsent \cup {"call"}
         /\ rpc[f][c] \notin Unexecuted => rpc'[f][c] \notin Unexecuted
<1> USE DEF Done, Unsent, Unexecuted, InHandler, Returning
<1>1. CASE CallsIdle \/ LocalExec
  BY <1>1 DEF CallsIdle, LocalExec, connVars
<1>2. CASE StartRound
  BY <1>2, NewRound
<1>3. ASSUME NEW g \in Follower, NEW d \in Round, RPCNext(g, d)
      PROVE  /\ rpc[f][c] \in Done => rpc'[f][c] = rpc[f][c]
             /\ rpc[f][c] \notin Unsent => rpc'[f][c] \notin Unsent
             /\ rpc[f][c] \notin Unsent \cup {"call"}
                  => rpc'[f][c] \notin Unsent \cup {"call"}
             /\ rpc[f][c] \notin Unexecuted => rpc'[f][c] \notin Unexecuted
  BY <1>3, CallSteps
<1>4. ASSUME NEW g \in Follower, Crash(g) \/ Start(g) \/ ConnectMissingPeer(g)
      PROVE  /\ rpc[f][c] \in Done => rpc'[f][c] = rpc[f][c]
             /\ rpc[f][c] \notin Unsent => rpc'[f][c] \notin Unsent
             /\ rpc[f][c] \notin Unsent \cup {"call"}
                  => rpc'[f][c] \notin Unsent \cup {"call"}
             /\ rpc[f][c] \notin Unexecuted => rpc'[f][c] \notin Unexecuted
  BY <1>4, CrashedCalls DEF Start, ConnectMissingPeer, connVars
<1>5. CASE \E n \in Node : RivalPriority(n) \/ RivalExecutor(n)
  BY <1>5, RivalSteps DEF connVars
<1> QED
  BY <1>1, <1>2, <1>3, <1>4, <1>5, StepKinds
-----------------------------------------------------------------------------
(* The job queues.                                                         *)

\* Initially no goroutine is there, no token and nothing executed.
LEMMA TurnInit == InitFixed \/ InitElected => TurnInv /\ RoundInv
<1>1. InitFixed \/ InitElected => InitCommon
  BY DEF InitFixed, InitElected
<1>2. ASSUME InitCommon
      PROVE  TurnInv /\ RoundInv
  <2>1. \A f \in Follower : executed[f] = << >>
    BY <1>2, ConstantFacts DEF InitCommon
  <2> QED
    BY <1>2, <2>1 DEF InitCommon, TurnInv, RoundInv, RoundsIncrease, Unsent
<1> QED
  BY <1>1, <1>2

\* A step that sends no call and returns no token.
LEMMA TurnKept ==
  ASSUME TypeOK, QueueInv, TurnInv, [Next]_vars,
         \A f \in Follower, c \in Round :
           /\ jobQ'[f][c] = "full" => jobQ[f][c] = "full"
           /\ rpc'[f][c] \notin Unsent => rpc[f][c] \notin Unsent
  PROVE  TurnInv'
<1>1. \A f \in Follower, c \in Round :
        rpc[f][c] \in Done => rpc'[f][c] \in Done
  BY StagesAdvance
<1> QED
  BY <1>1 DEF TurnInv

\* A goroutine sends its call when it has the token of the round before, whose
\* goroutine had the one of the round before that, and so on.
LEMMA TurnSendRPC ==
  ASSUME TypeOK, QueueInv, TurnInv, [Next]_vars,
         NEW f \in Follower, NEW c \in Round, SendRPC(f, c)
  PROVE  TurnInv'
<1>1. \A b \in Round : b < c => rpc[f][b] \in Done
  <2> SUFFICES ASSUME NEW b \in Round, b < c
               PROVE  rpc[f][b] \in Done
    OBVIOUS
  <2>1. b \in Nat /\ c \in Nat /\ c-1 \in Round
    BY ConstantFacts DEF Round
  <2>2. jobQ[f][c-1] = "full"
    BY <2>1 DEF SendRPC, PreviousDone
  <2>3. rpc[f][c-1] \in Done
    BY <2>1, <2>2 DEF TurnInv
  <2>4. CASE b = c-1
    BY <2>3, <2>4
  <2>5. CASE b < c-1
    BY <2>1, <2>3, <2>5 DEF TurnInv, Done, Unsent
  <2> QED
    BY <2>1, <2>4, <2>5
<1>2. \A g \in Follower, d \in Round :
        /\ rpc[g][d] \in Done => rpc'[g][d] \in Done
        /\ g # f \/ d # c => rpc'[g][d] = rpc[g][d]
  BY StagesAdvance, CallSteps DEF RPCNext
<1>3. \A g \in Follower, d \in Round :
        jobQ'[g][d] = "full" => jobQ[g][d] = "full"
  <2>1. jobQ \in [Follower -> [Round -> {"nil", "empty", "full"}]]
    BY DEF TypeOK
  <2>2. jobQ' = IF c > 0 THEN [jobQ EXCEPT ![f][c-1] = "empty"] ELSE jobQ
    BY DEF SendRPC
  <2> QED
    BY <2>1, <2>2
<1>4. \A g \in Follower, d \in Round :
        rpc'[g][d] \notin Unsent => \A b \in Round : b < d => rpc'[g][b] \in Done
  <2> SUFFICES ASSUME NEW g \in Follower, NEW d \in Round, NEW b \in Round,
                      rpc'[g][d] \notin Unsent, b < d
               PROVE  rpc[g][b] \in Done
    BY <1>2
  <2>1. CASE g = f /\ d = c
    BY <1>1, <2>1
  <2>2. CASE g # f \/ d # c
    BY <1>2, <2>2 DEF TurnInv
  <2> QED
    BY <2>1, <2>2
<1> QED
  BY <1>2, <1>3, <1>4 DEF TurnInv

\* A returned call passes its token on.
LEMMA TurnReturnRPC ==
  ASSUME TypeOK, QueueInv, TurnInv, [Next]_vars,
         NEW f \in Follower, NEW c \in Round, ReturnRPC(f, c)
  PROVE  TurnInv'
<1>1. /\ \A g \in Follower, d \in Round :
           g # f \/ d # c => rpc'[g][d] = rpc[g][d]
      /\ rpc[f][c] \notin Unsent
      /\ rpc'[f][c] \in Done
  <2>1. RPCNext(f, c) /\ rpc[f][c] \in Returning
    BY DEF RPCNext, ReturnRPC
  <2> QED
    BY <2>1, CallSteps DEF Returning, Done, Unsent
<1>2. \A g \in Follower, d \in Round :
        rpc[g][d] \in Done => rpc'[g][d] \in Done
  BY StagesAdvance
<1>3. \A g \in Follower, d \in Round :
        jobQ'[g][d] = "full" => jobQ[g][d] = "full" \/ (g = f /\ d = c)
  <2>1. jobQ \in [Follower -> [Round -> {"nil", "empty", "full"}]]
    BY DEF TypeOK
  <2>2. jobQ' = [jobQ EXCEPT ![f][c] = "full"]
    BY DEF ReturnRPC
  <2> QED
    BY <2>1, <2>2
<1> QED
  BY <1>1, <1>2, <1>3 DEF TurnInv

\* Every step keeps the turns.
LEMMA TurnStep == TypeOK /\ QueueInv /\ TurnInv /\ [Next]_vars => TurnInv'
<1> SUFFICES ASSUME TypeOK, QueueInv, TurnInv, [Next]_vars
             PROVE  TurnInv'
  OBVIOUS
<1>1. CASE CallsIdle \/ LocalExec
  BY <1>1, TurnKept DEF CallsIdle, LocalExec, connVars
<1>2. CASE StartRound
  BY <1>2, NewRound, TurnKept DEF Unsent
<1>3. ASSUME NEW f \in Follower, NEW c \in Round, RPCNext(f, c)
      PROVE  TurnInv'
  <2>1. CASE SendRPC(f, c)
    BY <2>1, TurnSendRPC
  <2>2. CASE ReturnRPC(f, c)
    BY <2>2, TurnReturnRPC
  <2>3. CASE UpdatePriority(f, c) \/ KVExecutor(f, c)
    <3>1. jobQ' = jobQ /\ rpc[f][c] \notin Unsent
      BY <2>3 DEF UpdatePriority, KVExecutor, Unsent
    <3>2. \A g \in Follower, d \in Round :
            g # f \/ d # c => rpc'[g][d] = rpc[g][d]
      BY <1>3, CallSteps
    <3> QED
      BY <3>1, <3>2, TurnKept
  <2> QED
    BY <1>3, <2>1, <2>2, <2>3 DEF RPCNext
<1>4. ASSUME NEW f \in Follower, Crash(f) \/ Start(f) \/ ConnectMissingPeer(f)
      PROVE  TurnInv'
  <2>1. CASE Crash(f)
    <3>1. jobQ' = jobQ
      BY <2>1 DEF Crash
    <3>2. \A g \in Follower, d \in Round :
            rpc'[g][d] \notin Unsent => rpc[g][d] \notin Unsent
      BY <2>1, CrashedCalls DEF Unsent, InHandler, Returning
    <3> QED
      BY <3>1, <3>2, TurnKept
  <2>2. CASE Start(f) \/ ConnectMissingPeer(f)
    BY <2>2, TurnKept DEF Start, ConnectMissingPeer, connVars
  <2> QED
    BY <1>4, <2>1, <2>2
<1>5. CASE \E n \in Node : RivalPriority(n) \/ RivalExecutor(n)
  BY <1>5, RivalSteps, TurnKept DEF connVars
<1> QED
  BY <1>1, <1>2, <1>3, <1>4, <1>5, StepKinds
-----------------------------------------------------------------------------
(* What followers execute, and where their clocks stand.                   *)

\* A follower executes in KVExecutor and nowhere else, one round at a time.
LEMMA ExecutedSteps ==
  ASSUME TypeOK, [Next]_vars, NEW f \in Follower
  PROVE  \/ executed'[f] = executed[f]
         \/ \E c \in Round : /\ KVExecutor(f, c)
                             /\ rpc[f][c] = "admitted"
                             /\ executed'[f] = Append(executed[f], c)
<1>1. executed \in [Node -> Seq(Round)] /\ f \in Node /\ f # Leader
  BY ConstantFacts DEF TypeOK, Follower
<1>2. CASE CallsIdle \/ StartRound
  BY <1>2 DEF CallsIdle, StartRound, nodeVars
<1>3. CASE LocalExec
  BY <1>1, <1>3 DEF LocalExec
<1>4. ASSUME NEW g \in Follower, NEW c \in Round, RPCNext(g, c)
      PROVE  \/ executed'[f] = executed[f]
             \/ KVExecutor(f, c) /\ rpc[f][c] = "admitted"
                                 /\ executed'[f] = Append(executed[f], c)
  <2>1. CASE KVExecutor(g, c)
    BY <1>1, <2>1 DEF KVExecutor
  <2>2. CASE ~KVExecutor(g, c)
    BY <1>4, <2>2 DEF RPCNext, SendRPC, UpdatePriority, ReturnRPC, nodeVars
  <2> QED
    BY <2>1, <2>2
<1>5. ASSUME NEW g \in Follower, Crash(g) \/ Start(g) \/ ConnectMissingPeer(g)
      PROVE  executed' = executed
  BY <1>5 DEF Crash, Start, ConnectMissingPeer, nodeVars
<1> QED
  BY <1>2, <1>3, <1>4, <1>5, StepKinds, RivalSteps

\* What a follower has executed has an ascending order: the round it executes now
\* is admitted, and had a later one been executed before, the goroutine of that
\* round would have seen this one return.
LEMMA RoundStep ==
  TypeOK /\ QueueInv /\ TurnInv /\ RoundInv /\ [Next]_vars => RoundInv'
<1> SUFFICES ASSUME TypeOK, QueueInv, TurnInv, RoundInv, [Next]_vars,
                    NEW f \in Follower
             PROVE  /\ \A i, j \in 1 .. Len(executed'[f]) :
                         i < j => executed'[f][i] < executed'[f][j]
                    /\ \A i \in 1 .. Len(executed'[f]) :
                         rpc'[f][executed'[f][i]] \notin Unexecuted
  BY DEF RoundInv, RoundsIncrease
<1>1. executed[f] \in Seq(Round)
  BY ConstantFacts DEF TypeOK
<1>2. \A i \in 1 .. Len(executed[f]) :
        /\ executed[f][i] \in Round
        /\ rpc[f][executed[f][i]] \notin Unexecuted
        /\ rpc'[f][executed[f][i]] \notin Unexecuted
  BY <1>1, StagesAdvance DEF RoundInv
<1>3. CASE executed'[f] = executed[f]
  BY <1>2, <1>3 DEF RoundInv, RoundsIncrease
<1>4. ASSUME NEW c \in Round, KVExecutor(f, c), rpc[f][c] = "admitted",
             executed'[f] = Append(executed[f], c)
      PROVE  /\ \A i, j \in 1 .. Len(executed'[f]) :
                  i < j => executed'[f][i] < executed'[f][j]
             /\ \A i \in 1 .. Len(executed'[f]) :
                  rpc'[f][executed'[f][i]] \notin Unexecuted
  <2>1. /\ Len(executed'[f]) = Len(executed[f]) + 1
        /\ Len(executed[f]) \in Nat
        /\ \A i \in 1 .. Len(executed[f]) : executed'[f][i] = executed[f][i]
        /\ executed'[f][Len(executed[f]) + 1] = c
    BY <1>1, <1>4
  <2>2. \A i \in 1 .. Len(executed[f]) : executed[f][i] < c
    <3> SUFFICES ASSUME NEW i \in 1 .. Len(executed[f]), ~(executed[f][i] < c)
                 PROVE  FALSE
      OBVIOUS
    <3> DEFINE e == executed[f][i]
    <3>1. e \in Round /\ e \in Nat /\ c \in Nat /\ rpc[f][e] \notin Unexecuted
      BY <1>2, ConstantFacts
    <3>2. e # c
      BY <1>4, <3>1 DEF Unexecuted, InHandler
    <3>3. c < e
      BY <3>1, <3>2
    <3>4. rpc[f][c] \in Done
      BY <3>1, <3>3 DEF TurnInv, Unexecuted
    <3> QED
      BY <1>4, <3>4 DEF Done
  <2>3. rpc'[f][c] \notin Unexecuted
    <3>1. RPCNext(f, c)
      BY <1>4 DEF RPCNext
    <3> QED
      BY <1>4, <3>1, CallSteps DEF Unexecuted, Unsent, InHandler, Returning
  <2>4. \A i \in 1 .. Len(executed'[f]) :
          i \in 1 .. Len(executed[f]) \/ i = Len(executed[f]) + 1
    BY <2>1
  <2>5. \A i, j \in 1 .. Len(executed'[f]) :
          i < j => executed'[f][i] < executed'[f][j]
    <3> SUFFICES ASSUME NEW i \in 1 .. Len(executed'[f]),
                        NEW j \in 1 .. Len(executed'[f]), i < j
                 PROVE  executed'[f][i] < executed'[f][j]
      OBVIOUS
    <3>1. i \in 1 .. Len(executed[f])
      BY <2>1
    <3>2. CASE j \in 1 .. Len(executed[f])
      BY <2>1, <3>1, <3>2 DEF RoundInv, RoundsIncrease
    <3>3. CASE j = Len(executed[f]) + 1
      BY <2>1, <2>2, <3>1, <3>3
    <3> QED
      BY <2>4, <3>2, <3>3
  <2> QED
    BY <1>2, <2>1, <2>3, <2>4, <2>5
<1> QED
  BY <1>3, <1>4, ExecutedSteps

\* The clock of a follower stands at a round of this reign it has admitted, or
\* where another loop's rounds have left it, so what it refuses is older than
\* those.
LEMMA ClockStep ==
  ASSUME NEW B \in Nat, Rivals = {} \/ LastClock <= B
  PROVE  TypeOK /\ QueueInv /\ TurnInv /\ ClockInv(B) /\ [Next]_vars
           => ClockInv(B)'
<1> SUFFICES ASSUME TypeOK, QueueInv, TurnInv, ClockInv(B), [Next]_vars,
                    NEW f \in Follower
             PROVE  /\ prioClock'[f] <= B
                         \/ /\ prioClock'[f] \in Round
                            /\ rpc'[f][prioClock'[f]] \notin Unsent \cup {"call"}
                    /\ \A c \in Round : rpc'[f][c] = "stale" => c < B
  BY DEF ClockInv
<1>1. prioClock \in [Follower -> Nat]
  BY DEF TypeOK
<1>2. prioClock[f] <= B \/ /\ prioClock[f] \in Round
                           /\ rpc'[f][prioClock[f]] \notin Unsent \cup {"call"}
  BY StagesAdvance DEF ClockInv
<1>3. ASSUME NEW g \in Follower, NEW c \in Round, UpdatePriority(g, c)
      PROVE  /\ prioClock'[f] <= B
                  \/ /\ prioClock'[f] \in Round
                     /\ rpc'[f][prioClock'[f]] \notin Unsent \cup {"call"}
             /\ \A d \in Round : rpc'[f][d] = "stale" => d < B
  <2>1. RPCNext(g, c) /\ rpc[g][c] = "call"
    BY <1>3 DEF RPCNext, UpdatePriority
  <2>2. /\ \A d \in Round : g # f \/ d # c => rpc'[f][d] = rpc[f][d]
        /\ rpc'[g][c] = IF c < prioClock[g] THEN "stale" ELSE "admitted"
    BY <2>1, CallSteps DEF Returning
  <2>3. prioClock' = IF c < prioClock[g] THEN prioClock
                                         ELSE [prioClock EXCEPT ![g] = c]
    BY <1>3 DEF UpdatePriority, OlderRound
  <2>4. CASE g # f
    BY <1>1, <1>2, <2>2, <2>3, <2>4 DEF ClockInv
  <2>5. CASE g = f /\ ~(c < prioClock[g])
    BY <1>1, <2>2, <2>3, <2>5 DEF ClockInv, Unsent
  <2>6. CASE g = f /\ c < prioClock[g]
    <3>1. c < B
      <4>1. CASE prioClock[f] <= B
        BY <1>1, <2>6, <4>1, ConstantFacts
      <4>2. CASE ~(prioClock[f] <= B)
        <5>1. prioClock[f] \in Round /\ rpc[f][prioClock[f]] \notin Unsent
          BY <4>2 DEF ClockInv
        <5>2. rpc[f][c] \in Done
          BY <2>6, <5>1 DEF TurnInv
        <5> QED
          BY <2>1, <2>6, <5>2 DEF Done
      <4> QED
        BY <4>1, <4>2
    <3> QED
      BY <1>2, <2>2, <2>3, <2>6, <3>1 DEF ClockInv
  <2> QED
    BY <2>4, <2>5, <2>6
<1>4. ASSUME ~(\E g \in Follower, c \in Round : UpdatePriority(g, c))
      PROVE  \A c \in Round : rpc'[f][c] = "stale" => rpc[f][c] = "stale"
  <2> SUFFICES ASSUME NEW c \in Round, rpc'[f][c] = "stale"
               PROVE  rpc[f][c] = "stale"
    OBVIOUS
  <2>1. CASE CallsIdle \/ LocalExec
    BY <2>1 DEF CallsIdle, LocalExec, connVars
  <2>2. CASE StartRound
    BY <2>2, NewRound
  <2>3. ASSUME NEW g \in Follower, NEW d \in Round, RPCNext(g, d)
        PROVE  rpc[f][c] = "stale"
    BY <1>4, <2>3, CallSteps
  <2>4. ASSUME NEW g \in Follower, Crash(g) \/ Start(g) \/ ConnectMissingPeer(g)
        PROVE  rpc[f][c] = "stale"
    BY <2>4, CrashedCalls DEF Start, ConnectMissingPeer, connVars
  <2>5. CASE \E n \in Node : RivalPriority(n) \/ RivalExecutor(n)
    BY <2>5, RivalSteps DEF connVars
  <2> QED
    BY <2>1, <2>2, <2>3, <2>4, <2>5, StepKinds
<1>5. ASSUME ~(\E g \in Follower, c \in Round : UpdatePriority(g, c))
      PROVE  \/ prioClock'[f] = prioClock[f]
             \/ prioClock'[f] <= B
  <2>1. CASE CallsIdle \/ LocalExec \/ StartRound
    BY <2>1 DEF CallsIdle, LocalExec, StartRound, nodeVars
  <2>2. ASSUME NEW g \in Follower, NEW d \in Round, RPCNext(g, d)
        PROVE  prioClock'[f] = prioClock[f]
    BY <1>5, <2>2 DEF RPCNext, SendRPC, KVExecutor, ReturnRPC, nodeVars
  <2>3. ASSUME NEW g \in Follower, Crash(g) \/ Start(g) \/ ConnectMissingPeer(g)
        PROVE  prioClock'[f] = prioClock[f] \/ prioClock'[f] <= B
    BY <1>1, <2>3 DEF Crash, Start, ConnectMissingPeer, nodeVars
  <2>4. ASSUME NEW n \in Node, RivalPriority(n)
        PROVE  prioClock'[f] = prioClock[f] \/ prioClock'[f] <= B
    <3>1. CASE prioClock' = prioClock
      BY <3>1
    <3>2. ASSUME n \in Follower, NEW clock \in prioClock[n] .. LastClock,
                 prioClock' = [prioClock EXCEPT ![n] = clock]
          PROVE  prioClock'[f] = prioClock[f] \/ prioClock'[f] <= B
      <4>1. LastClock \in Nat /\ LastClock <= B
        BY <2>4, NoRivals, ConsensusAssumption
      <4>2. prioClock[n] \in Nat /\ clock \in Int /\ clock <= LastClock
        BY <1>1, <3>2, <4>1
      <4>3. clock <= B
        BY <4>1, <4>2
      <4> QED
        BY <1>1, <3>2, <4>3
    <3> QED
      BY <2>4, <3>1, <3>2 DEF RivalPriority, Follower
  <2>5. ASSUME NEW n \in Node, RivalExecutor(n)
        PROVE  prioClock' = prioClock
    BY <2>5 DEF RivalExecutor
  <2> QED
    BY <2>1, <2>2, <2>3, <2>4, <2>5, StepKinds
<1>6. CASE ~(\E g \in Follower, c \in Round : UpdatePriority(g, c))
  BY <1>2, <1>4, <1>5, <1>6 DEF ClockInv
<1> QED
  BY <1>3, <1>6

\* Where the clocks stand when a reign begins.
LEMMA ClockInit ==
  /\ InitFixed => ClockInv(0)
  /\ InitElected => ClockInv(LastClock)
<1>1. ASSUME InitFixed
      PROVE  ClockInv(0)
  BY <1>1 DEF InitFixed, InitCommon, ClockInv
<1>2. ASSUME InitElected
      PROVE  ClockInv(LastClock)
  <2>1. \A f \in Follower : prioClock[f] <= LastClock
    BY <1>2, ConsensusAssumption DEF InitElected
  <2> QED
    BY <1>2, <2>1 DEF InitElected, InitCommon, ClockInv
<1> QED
  BY <1>1, <1>2

(***************************************************************************)
(* Whoever leads, whatever crashes and restarts, whichever calls time out  *)
(* and whoever else sends rounds: a follower executes the rounds of a reign*)
(* in ascending order.                                                     *)
(***************************************************************************)
THEOREM ExecutionAscends == FixedSpec \/ ElectedSpec => []RoundsIncrease
<1>1. InitFixed \/ InitElected => TypeOK /\ QueueInv /\ TurnInv /\ RoundInv
  BY TypeInit, TurnInit
<1>2. TypeOK /\ QueueInv /\ TurnInv /\ RoundInv /\ [Next]_vars
        => TypeOK' /\ QueueInv' /\ TurnInv' /\ RoundInv'
  BY TypeStep, TurnStep, RoundStep
<1>3. RoundInv => RoundsIncrease
  BY DEF RoundInv
<1> QED
  BY <1>1, <1>2, <1>3, PTL DEF FixedSpec, ElectedSpec

(***************************************************************************)
(* The followers of an elected leader refuse only rounds that are older    *)
(* than the last round of another leader their clocks have seen, be it the *)
(* predecessor's or that of a loop that still goes on.                     *)
(***************************************************************************)
THEOREM RejectionIsBounded == ElectedSpec => []RejectionEnds
<1>1. InitElected => TypeOK /\ QueueInv /\ TurnInv /\ ClockInv(LastClock)
  BY TypeInit, TurnInit, ClockInit
<1>2. TypeOK /\ QueueInv /\ TurnInv /\ ClockInv(LastClock) /\ [Next]_vars
        => TypeOK' /\ QueueInv' /\ TurnInv' /\ ClockInv(LastClock)'
  BY TypeStep, TurnStep, ClockStep, ConsensusAssumption
<1>3. ClockInv(LastClock) => RejectionEnds
  BY DEF ClockInv, RejectionEnds
<1> QED
  BY <1>1, <1>2, <1>3, PTL DEF ElectedSpec
-----------------------------------------------------------------------------
(* The initial leader, whose connections are there from the start.  From   *)
(* here on it is the only one that sends rounds.                           *)

\* No follower of the initial leader refuses a round.
LEMMA NoneStale == TypeOK /\ ClockInv(0) => NoStaleRejection
<1> SUFFICES ASSUME TypeOK, ClockInv(0), NEW f \in Follower, NEW c \in Round,
                    rpc[f][c] = "stale"
             PROVE  FALSE
  BY DEF NoStaleRejection
<1>1. c < 0 /\ c \in Nat
  BY ConstantFacts DEF ClockInv
<1> QED
  BY <1>1

\* Initially every follower is connected and nothing is sent.
LEMMA PrefixInit == InitFixed => PrefixInv
<1> SUFFICES ASSUME InitFixed
             PROVE  PrefixInv
  OBVIOUS
<1>1. \A f \in Follower : executed[f] = << >>
  BY ConstantFacts DEF InitFixed, InitCommon
<1>2. docked = Follower /\ \A f \in Follower, c \in Round : rpc[f][c] = "idle"
  BY DEF InitFixed, InitCommon
<1>3. \A c \in Round : c >= 0
  BY ConstantFacts
<1> QED
  BY <1>1, <1>2, <1>3 DEF PrefixInv, InOrderExecution, Unexecuted, Unsent,
                          InHandler

\* A follower that handles a call of the initial leader has executed the rounds
\* before it and no other.
LEMMA NextToExecute ==
  ASSUME TypeOK, TurnInv, PrefixInv, NEW f \in Follower, NEW c \in Round,
         rpc[f][c] \in InHandler
  PROVE  c = Len(executed[f])
<1>1. /\ Len(executed[f]) \in Nat
      /\ c \in Nat /\ c < MaxRound /\ MaxRound \in Nat
  BY ConstantFacts DEF TypeOK
<1>2. connUp[f] /\ c >= Len(executed[f])
  BY DEF PrefixInv, Unexecuted
<1>3. ~(c > Len(executed[f]))
  <2> SUFFICES ASSUME c > Len(executed[f])
               PROVE  FALSE
    OBVIOUS
  <2>1. Len(executed[f]) \in Round
    BY <1>1 DEF Round
  <2>2. rpc[f][Len(executed[f])] \in Done
    BY <1>1, <2>1 DEF TurnInv, InHandler, Unsent
  <2>3. rpc[f][Len(executed[f])] \notin Unexecuted
    BY <2>2 DEF Done, Unexecuted, Unsent, InHandler
  <2> QED
    BY <1>1, <1>2, <2>1, <2>3 DEF PrefixInv
<1> QED
  BY <1>1, <1>2, <1>3

\* A follower of the initial leader executes the round after its last one.
LEMMA ExecutesNext ==
  ASSUME TypeOK, TurnInv, PrefixInv, [Next]_vars
  PROVE  InOrderExecution'
<1> SUFFICES ASSUME NEW f \in Follower, NEW i \in 1 .. Len(executed'[f])
             PROVE  executed'[f][i] = i-1
  BY DEF InOrderExecution
<1>1. executed[f] \in Seq(Round)
  BY ConstantFacts DEF TypeOK
<1>2. \A j \in 1 .. Len(executed[f]) : executed[f][j] = j-1
  BY DEF PrefixInv, InOrderExecution
<1>3. CASE executed'[f] = executed[f]
  BY <1>2, <1>3
<1>4. ASSUME NEW c \in Round, rpc[f][c] = "admitted",
             executed'[f] = Append(executed[f], c)
      PROVE  executed'[f][i] = i-1
  <2>1. c = Len(executed[f])
    BY <1>4, NextToExecute DEF InHandler
  <2> QED
    BY <1>1, <1>2, <1>4, <2>1
<1> QED
  BY <1>3, <1>4, ExecutedSteps

\* What PrefixInv says of one call of one follower.
CallInv(f, c) ==
  /\ rpc[f][c] \in InHandler => connUp[f]
  /\ rpc[f][c] \in {"ok", "acked"} => c < Len(executed[f])
  /\ connUp[f] => rpc[f][c] \in Unexecuted <=> c >= Len(executed[f])

\* A step of a call keeps what PrefixInv says of it and of all others.
LEMMA PrefixCall ==
  ASSUME TypeOK, TurnInv, PrefixInv, NoStaleRejection',
         NEW g \in Follower, NEW d \in Round, RPCNext(g, d),
         NEW f \in Follower, NEW c \in Round
  PROVE  CallInv(f, c)'
<1> USE DEF CallInv, Unexecuted, Unsent, InHandler, Returning
<1>1. CallInv(f, c)
  BY DEF PrefixInv
<1>2. connUp' = connUp
  BY DEF RPCNext, SendRPC, UpdatePriority, KVExecutor, ReturnRPC
<1>3. executed \in [Node -> Seq(Round)] /\ f \in Node /\ g \in Node
  BY ConstantFacts DEF TypeOK
<1>4. CASE KVExecutor(g, d)
  <2>1. executed'[f] = IF g = f THEN Append(executed[f], d) ELSE executed[f]
    BY <1>3, <1>4 DEF KVExecutor
  <2>2. /\ rpc[g][d] = "admitted"
        /\ rpc'[f][c] = rpc[f][c] \/ (f = g /\ c = d)
        /\ rpc'[g][d] \in {"ok", "err"}
    <3>1. rpc[g][d] = "admitted"
      BY <1>4 DEF KVExecutor
    <3> QED
      BY <3>1, CallSteps
  <2>3. CASE g = f
    <3>1. d = Len(executed[f]) /\ connUp[f]
      BY <2>2, <2>3, NextToExecute DEF PrefixInv
    <3>2. Len(executed'[f]) = Len(executed[f]) + 1
      BY <1>3, <2>1, <2>3
    <3>3. Len(executed[f]) \in Nat /\ c \in Nat /\ d \in Nat
      BY <1>3, ConstantFacts
    <3> QED
      BY <1>1, <1>2, <2>2, <2>3, <3>1, <3>2, <3>3
  <2>4. CASE g # f
    BY <1>1, <1>2, <2>1, <2>2, <2>4
  <2> QED
    BY <2>3, <2>4
<1>5. CASE ~KVExecutor(g, d)
  <2>1. executed' = executed
    BY <1>5 DEF RPCNext, SendRPC, UpdatePriority, ReturnRPC, nodeVars
  <2>2. rpc'[f][c] # "stale"
    BY DEF NoStaleRejection
  <2> QED
    BY <1>1, <1>2, <1>5, <2>1, <2>2, CallSteps
<1> QED
  BY <1>4, <1>5

\* Under the initial leader every step keeps what a follower has executed a prefix
\* of the rounds.
LEMMA PrefixStep ==
  ASSUME Rivals = {},
         TypeOK, QueueInv, TurnInv, PrefixInv, NoStaleRejection', [Next]_vars
  PROVE  PrefixInv'
<1>1. docked' = docked
  <2>1. \A f \in Follower : ~ConnectMissingPeer(f)
    BY DEF ConnectMissingPeer, PrefixInv
  <2> QED
    BY <2>1, StepKinds, NoRivals
    DEF CallsIdle, LocalExec, StartRound, RPCNext, SendRPC, UpdatePriority,
        KVExecutor, ReturnRPC, Crash, Start, connVars
<1>2. InOrderExecution'
  BY ExecutesNext
<1>3. ASSUME NEW f \in Follower, NEW c \in Round
      PROVE  CallInv(f, c)'
  <2>1. CallInv(f, c)
    BY DEF PrefixInv, CallInv
  <2>2. executed \in [Node -> Seq(Round)] /\ f \in Node /\ f # Leader
    BY ConstantFacts DEF TypeOK, Follower
  <2>3. CASE CallsIdle \/ LocalExec
    BY <2>1, <2>2, <2>3 DEF CallsIdle, LocalExec, CallInv, connVars, nodeVars
  <2>4. CASE StartRound
    <3>1. connUp' = connUp /\ executed' = executed
      BY <2>4 DEF StartRound, nodeVars
    <3>2. rpc'[f][c] = rpc[f][c] \/ (rpc[f][c] = "idle" /\ rpc'[f][c] = "wait")
      BY <2>4, NewRound
    <3> QED
      BY <2>1, <3>1, <3>2 DEF CallInv, Unexecuted, Unsent, InHandler
  <2>5. ASSUME NEW g \in Follower, NEW d \in Round, RPCNext(g, d)
        PROVE  CallInv(f, c)'
    BY <2>5, PrefixCall
  <2>6. ASSUME NEW g \in Follower, Crash(g)
        PROVE  CallInv(f, c)'
    <3>1. executed' = executed /\ connUp' = [connUp EXCEPT ![g] = FALSE]
      BY <2>6 DEF Crash
    <3>2. connUp \in [Follower -> BOOLEAN]
      BY DEF TypeOK
    <3> QED
      BY <2>1, <2>6, <3>1, <3>2, CrashedCalls
      DEF CallInv, Unexecuted, Unsent, InHandler, Returning
  <2>7. ASSUME NEW g \in Follower, Start(g)
        PROVE  CallInv(f, c)'
    BY <2>1, <2>7 DEF Start, CallInv, connVars
  <2>8. ASSUME NEW g \in Follower
        PROVE  ~ConnectMissingPeer(g)
    BY DEF ConnectMissingPeer, PrefixInv
  <2> QED
    BY <2>3, <2>4, <2>5, <2>6, <2>7, <2>8, StepKinds, NoRivals
<1> QED
  BY <1>1, <1>2, <1>3 DEF PrefixInv, CallInv

\* All that holds of the order of a reign of the initial leader.
OrderInv == TurnInv /\ RoundInv /\ ClockInv(0) /\ PrefixInv

\* The inductive invariant of a reign of the initial leader.
LEMMA OrderStep ==
  ASSUME Rivals = {}
  PROVE  TypeOK /\ QueueInv /\ OrderInv /\ [Next]_vars => OrderInv'
<1> SUFFICES ASSUME TypeOK, QueueInv, OrderInv, [Next]_vars
             PROVE  OrderInv'
  OBVIOUS
<1>1. TurnInv' /\ RoundInv' /\ ClockInv(0)'
  BY TurnStep, RoundStep, ClockStep DEF OrderInv
<1>2. NoStaleRejection'
  BY <1>1, TypeStep, NoneStale, PTL
<1> QED
  BY <1>1, <1>2, PrefixStep DEF OrderInv

\* The order of the initial leader's reign holds from its first state on.
LEMMA OrderHolds ==
  ASSUME Rivals = {}
  PROVE  FixedSpec => [](TypeOK /\ QueueInv /\ OrderInv)
<1>1. InitFixed => TypeOK /\ QueueInv /\ OrderInv
  BY TypeInit, TurnInit, ClockInit, PrefixInit DEF OrderInv
<1> QED
  BY <1>1, TypeStep, OrderStep, PTL DEF FixedSpec

(***************************************************************************)
(* As long as the initial leader's is the only loop, every follower,       *)
(* crashed and restarted or not, has executed the rounds 0, 1, ... without *)
(* gap, repetition or inversion, whatever the leader's timeouts leave      *)
(* behind in the job queues.                                               *)
(***************************************************************************)
THEOREM ExecutionInOrder ==
  ASSUME Rivals = {}
  PROVE  FixedSpec => []InOrderExecution
<1>1. OrderInv => InOrderExecution
  BY DEF OrderInv, PrefixInv
<1> QED
  BY <1>1, OrderHolds, PTL

(***************************************************************************)
(* The priority clock of a follower that serves only the initial leader    *)
(* refuses nothing.                                                        *)
(***************************************************************************)
THEOREM NothingRefused ==
  ASSUME Rivals = {}
  PROVE  FixedSpec => []NoStaleRejection
<1>1. TypeOK /\ OrderInv => NoStaleRejection
  BY NoneStale DEF OrderInv
<1> QED
  BY <1>1, OrderHolds, PTL
-----------------------------------------------------------------------------
(* What the replicas hold.                                                 *)

\* No command takes the permanent customer away, so a restart finds the collection
\* filled and seeds nothing.
LEMMA PermanentKept ==
  ASSUME NEW k, Permanent(k), NEW s \in Store, s[k] # Absent
  PROVE  /\ \A c \in Command : Exec(s, c)[k] # Absent
         /\ Reseeded(s) = s
<1>1. k \in Key /\ s \in [Key -> Value]
  BY DEF Permanent, Store
<1>2. ASSUME NEW c \in Command
      PROVE  Exec(s, c)[k] # Absent
  <2>1. c.key \in Key
    BY StoreAssumption
  <2>2. CASE c.key = k
    BY <1>1, <2>2 DEF Exec, Permanent
  <2>3. CASE c.key # k
    BY <1>1, <2>1, <2>3 DEF Exec
  <2> QED
    BY <2>2, <2>3
<1> QED
  BY <1>1, <1>2 DEF Reseeded

\* Only StartRound changes which command a round has.
LEMMA CommandSteps ==
  [Next]_vars => cmdOf' = cmdOf \/ StartRound
BY StepKinds, RivalSteps
DEF CallsIdle, LocalExec, RPCNext, SendRPC, UpdatePriority, KVExecutor, ReturnRPC,
    Crash, Start, ConnectMissingPeer, loopVars

\* A node's documents change with the command it executes, and with a seeding.
LEMMA StoreSteps ==
  ASSUME Rivals = {}, TypeOK, [Next]_vars, NEW n \in Node
  PROVE  \/ /\ executed'[n] = executed[n]
            /\ store'[n] \in {store[n], Reseeded(store[n])}
         \/ /\ n = Leader
            /\ LocalExec
            /\ executed'[n] = Append(executed[n], round)
            /\ store'[n] = Exec(store[n], Current)
         \/ \E c \in Round :
              /\ n \in Follower
              /\ KVExecutor(n, c)
              /\ executed'[n] = Append(executed[n], c)
              /\ store'[n] = Exec(store[n], cmdOf[c+1])
<1>1. /\ executed \in [Node -> Seq(Round)]
      /\ store \in [Node -> Store]
      /\ Follower \subseteq Node /\ Leader \in Node /\ Leader \notin Follower
  BY ConstantFacts DEF TypeOK, Follower
<1>2. CASE CallsIdle \/ StartRound
  BY <1>2 DEF CallsIdle, StartRound, nodeVars
<1>3. CASE LocalExec
  BY <1>1, <1>3 DEF LocalExec
<1>4. ASSUME NEW g \in Follower, NEW c \in Round, KVExecutor(g, c)
      PROVE  \/ executed'[n] = executed[n] /\ store'[n] = store[n]
             \/ /\ n = g
                /\ executed'[n] = Append(executed[n], c)
                /\ store'[n] = Exec(store[n], cmdOf[c+1])
  BY <1>1, <1>4 DEF KVExecutor
<1>5. ASSUME NEW g \in Follower, NEW c \in Round, RPCNext(g, c), ~KVExecutor(g, c)
      PROVE  executed' = executed /\ store' = store
  BY <1>5 DEF RPCNext, SendRPC, UpdatePriority, ReturnRPC, nodeVars
<1>6. ASSUME NEW g \in Follower, Crash(g) \/ Start(g) \/ ConnectMissingPeer(g)
      PROVE  executed'[n] = executed[n] /\ store'[n] \in {store[n], Reseeded(store[n])}
  BY <1>1, <1>6 DEF Crash, Start, ConnectMissingPeer, nodeVars
<1> QED
  BY <1>2, <1>3, <1>4, <1>5, <1>6, StepKinds, NoRivals

\* A command that is executed is one a client has submitted.
LEMMA ExecutedCommand ==
  ASSUME TypeOK, QueueInv
  PROVE  /\ loop # "idle" => /\ Len(cmdOf) = round + 1
                             /\ Current \in Command
         /\ \A f \in Follower, c \in Round :
              rpc[f][c] # "idle" => c < Len(cmdOf) /\ cmdOf[c+1] \in Command
<1>1. cmdOf \in Seq(Command) /\ Len(cmdOf) \in Nat /\ round \in Nat
  BY DEF TypeOK
<1>2. ASSUME loop # "idle"
      PROVE  Len(cmdOf) = round + 1 /\ Current \in Command
  BY <1>1, <1>2 DEF QueueInv, Current
<1>3. ASSUME NEW f \in Follower, NEW c \in Round, rpc[f][c] # "idle"
      PROVE  c < Len(cmdOf) /\ cmdOf[c+1] \in Command
  <2>1. c \in Nat /\ ~(c >= Len(cmdOf))
    BY <1>3, ConstantFacts DEF QueueInv
  <2>2. c < Len(cmdOf) /\ c + 1 \in 1 .. Len(cmdOf)
    BY <1>1, <2>1
  <2> QED
    BY <1>1, <2>2
<1> QED
  BY <1>2, <1>3

\* No node ever loses the permanent customer.
KeepsCustomer(k) == \A n \in Node : store[n][k] # Absent

LEMMA CustomerStep ==
  ASSUME Rivals = {}, NEW k, Permanent(k)
  PROVE  TypeOK /\ QueueInv /\ KeepsCustomer(k) /\ [Next]_vars
           => KeepsCustomer(k)'
<1> SUFFICES ASSUME TypeOK, QueueInv, KeepsCustomer(k), [Next]_vars, NEW n \in Node
             PROVE  store'[n][k] # Absent
  BY DEF KeepsCustomer
<1>1. store[n] \in Store /\ store[n][k] # Absent
  BY DEF TypeOK, KeepsCustomer
<1>2. /\ \A c \in Command : Exec(store[n], c)[k] # Absent
      /\ Reseeded(store[n]) = store[n]
  BY <1>1, PermanentKept
<1>3. CASE store'[n] \in {store[n], Reseeded(store[n])}
  BY <1>1, <1>2, <1>3
<1>4. CASE LocalExec /\ store'[n] = Exec(store[n], Current)
  <2>1. Current \in Command
    BY <1>4, ExecutedCommand DEF LocalExec
  <2> QED
    BY <1>2, <1>4, <2>1
<1>5. ASSUME NEW c \in Round, n \in Follower, KVExecutor(n, c),
             store'[n] = Exec(store[n], cmdOf[c+1])
      PROVE  store'[n][k] # Absent
  <2>1. cmdOf[c+1] \in Command
    BY <1>5, ExecutedCommand DEF KVExecutor
  <2> QED
    BY <1>2, <1>5, <2>1
<1> QED
  BY <1>3, <1>4, <1>5, StoreSteps

\* With the customer there for good, a node's documents change by the command it
\* executes and by nothing else.
LEMMA DocumentSteps ==
  ASSUME Rivals = {}, TypeOK, [Next]_vars, NEW k, Permanent(k), KeepsCustomer(k),
         NEW n \in Node
  PROVE  \/ executed'[n] = executed[n] /\ store'[n] = store[n]
         \/ /\ n = Leader
            /\ LocalExec
            /\ executed'[n] = Append(executed[n], round)
            /\ store'[n] = Exec(store[n], Current)
         \/ \E c \in Round :
              /\ n \in Follower
              /\ KVExecutor(n, c)
              /\ executed'[n] = Append(executed[n], c)
              /\ store'[n] = Exec(store[n], cmdOf[c+1])
<1>1. store[n] \in Store /\ store[n][k] # Absent
  BY DEF TypeOK, KeepsCustomer
<1>2. Reseeded(store[n]) = store[n]
  BY <1>1, PermanentKept
<1> QED
  BY <1>2, StoreSteps

\* A follower has executed no more rounds than there are commands.
LEMMA ExecutedBound ==
  ASSUME TypeOK, QueueInv, OrderInv, NEW f \in Follower
  PROVE  Len(executed[f]) \in 0 .. Len(cmdOf)
<1>1. executed[f] \in Seq(Round) /\ Len(cmdOf) \in Nat
  BY ConstantFacts DEF TypeOK
<1>2. CASE Len(executed[f]) = 0
  BY <1>1, <1>2
<1>3. CASE Len(executed[f]) # 0
  <2> DEFINE l == Len(executed[f])
  <2>1. l \in Nat /\ l \in 1 .. l
    BY <1>1, <1>3
  <2>2. executed[f][l] = l-1 /\ executed[f][l] \in Round
    BY <1>1, <2>1 DEF OrderInv, PrefixInv, InOrderExecution
  <2>3. rpc[f][l-1] # "idle"
    BY <2>1, <2>2 DEF OrderInv, RoundInv, Unexecuted, Unsent
  <2>4. l-1 < Len(cmdOf)
    BY <2>2, <2>3, ExecutedCommand
  <2> QED
    BY <1>1, <2>1, <2>4
<1> QED
  BY <1>2, <1>3

\* The history grows by the command of the round that opens, and otherwise stays:
\* what it says of the rounds before is what it said.
LEMMA HistoryGrows ==
  ASSUME TypeOK, QueueInv, [Next]_vars, NEW h, IsHistory(h)
  PROVE  \E g : IsHistory(g)' /\ \A i \in 0 .. Len(cmdOf) : g[i] = h[i]
<1>1. CASE cmdOf' = cmdOf
  BY <1>1 DEF IsHistory
<1>2. CASE StartRound
  <2> DEFINE cmd == Head(cmdCh)
  <2>0. PICK g : g = [h EXCEPT ![round + 1] = Exec(h[round], cmd)]
    OBVIOUS
  <2>1. round \in Nat /\ Len(cmdOf) = round /\ round + 1 \in 0 .. MaxRound
    <3>1. round \in Round /\ Len(cmdOf) = round
      BY <1>2, NewRound
    <3> QED
      BY <3>1, ConstantFacts DEF Round
  <2>2. cmdOf \in Seq(Command) /\ cmd \in Command
    BY <1>2, QueueTail DEF TypeOK, StartRound
  <2>3. /\ Len(cmdOf') = round + 1
        /\ \A i \in 1 .. round : cmdOf'[i] = cmdOf[i]
        /\ cmdOf'[round + 1] = cmd
    BY <1>2, <2>1, <2>2 DEF StartRound
  <2>4. h \in [0 .. MaxRound -> Store] /\ round \in 0 .. MaxRound
    BY <2>1 DEF IsHistory, TypeOK
  <2>5. g \in [0 .. MaxRound -> Store]
    BY <2>1, <2>2, <2>4, <2>0, ExecType
  <2>6. \A i \in 0 .. round : g[i] = h[i]
    BY <2>1, <2>4, <2>0
  <2>7. g[round + 1] = Exec(h[round], cmd)
    BY <2>1, <2>4, <2>0
  <2> HIDE DEF cmd
  <2>8. \A i \in 1 .. round + 1 : g[i] = Exec(g[i-1], cmdOf'[i])
    <3> SUFFICES ASSUME NEW i \in 1 .. round + 1
                 PROVE  g[i] = Exec(g[i-1], cmdOf'[i])
      OBVIOUS
    <3>1. CASE i = round + 1
      <4>1. i-1 = round /\ round \in 0 .. round
        BY <2>1, <3>1
      <4> QED
        BY <2>3, <2>6, <2>7, <3>1, <4>1
    <3>2. CASE i # round + 1
      <4>1. i \in 1 .. round /\ i \in 0 .. round /\ i-1 \in 0 .. round
        BY <2>1, <3>2
      <4>2. h[i] = Exec(h[i-1], cmdOf[i])
        BY <2>1, <4>1 DEF IsHistory
      <4> QED
        BY <2>3, <2>6, <4>1, <4>2
    <3> QED
      BY <3>1, <3>2
  <2>9. g[0] = Seed
    BY <2>1, <2>6 DEF IsHistory
  <2>10. IsHistory(g)'
    BY <2>3, <2>5, <2>8, <2>9 DEF IsHistory
  <2> QED
    BY <2>1, <2>6, <2>10
<1> QED
  BY <1>1, <1>2, CommandSteps

\* A follower's documents stay those of the rounds it has executed.
LEMMA FollowerHistory ==
  ASSUME Rivals = {}, TypeOK, QueueInv, OrderInv, [Next]_vars,
         NEW k, Permanent(k), KeepsCustomer(k),
         NEW h, IsHistory(h), NEW f \in Follower, store[f] = h[Len(executed[f])]
  PROVE  store'[f] = h[Len(executed'[f])] /\ Len(executed'[f]) \in 0 .. Len(cmdOf)
<1>1. /\ executed[f] \in Seq(Round) /\ Len(executed[f]) \in Nat
      /\ f \in Node /\ f # Leader
  BY ConstantFacts DEF TypeOK, Follower
<1>2. Len(executed[f]) \in 0 .. Len(cmdOf)
  BY ExecutedBound
<1>3. ASSUME NEW c \in Round, KVExecutor(f, c),
             executed'[f] = Append(executed[f], c),
             store'[f] = Exec(store[f], cmdOf[c+1])
      PROVE  /\ store'[f] = h[Len(executed'[f])]
             /\ Len(executed'[f]) \in 0 .. Len(cmdOf)
  <2>1. c = Len(executed[f]) /\ c < Len(cmdOf)
    <3>1. rpc[f][c] = "admitted"
      BY <1>3 DEF KVExecutor
    <3> QED
      BY <3>1, NextToExecute, ExecutedCommand DEF OrderInv, InHandler
  <2>2. /\ Len(executed'[f]) = c + 1 /\ c + 1 \in 1 .. Len(cmdOf)
        /\ (c + 1) - 1 = c
    BY <1>1, <1>2, <1>3, <2>1
  <2>3. h[c+1] = Exec(h[(c+1)-1], cmdOf[c+1])
    BY <2>2 DEF IsHistory
  <2> QED
    BY <1>3, <2>1, <2>2, <2>3
<1> QED
  BY <1>1, <1>2, <1>3, DocumentSteps

\* As long as no round has timed out, the leader has executed the rounds it has
\* answered.
LeaderFollows(h) ==
  "timeout" \notin Range(answer) =>
    /\ Len(executed[Leader]) = Len(answer)
    /\ store[Leader] = h[Len(answer)]

\* The leader's documents stay those of the rounds it has answered.
LEMMA LeaderHistory ==
  ASSUME Rivals = {}, TypeOK, QueueInv, [Next]_vars,
         NEW k, Permanent(k), KeepsCustomer(k),
         NEW h, IsHistory(h), LeaderFollows(h), "timeout" \notin Range(answer')
  PROVE  /\ Len(executed'[Leader]) = Len(answer')
         /\ store'[Leader] = h[Len(answer')]
         /\ Len(answer') \in 0 .. Len(cmdOf)
<1>1. /\ answer \in Seq({"ok", "failed", "timeout"})
      /\ executed[Leader] \in Seq(Round)
      /\ Leader \in Node /\ Leader \notin Follower
  BY ConstantFacts DEF TypeOK, Follower
<1>2. round \in Nat /\ Len(answer) \in Nat /\ Len(answer) <= Len(cmdOf)
      /\ Len(cmdOf) \in Nat
  BY DEF TypeOK, QueueInv
<1>3. CASE answer' = answer /\ ~LocalExec
  BY <1>1, <1>2, <1>3, DocumentSteps DEF LeaderFollows
<1>4. CASE ConsensusTimeout /\ answer' = Append(answer, "timeout")
  BY <1>1, <1>4, QueueAppend
<1>5. ASSUME LocalExec, NEW a \in {"ok", "failed"}, answer' = Append(answer, a)
      PROVE  /\ Len(executed'[Leader]) = Len(answer')
             /\ store'[Leader] = h[Len(answer')]
             /\ Len(answer') \in 0 .. Len(cmdOf)
  <2>1. Range(answer') = Range(answer) \cup {a} /\ Len(answer') = Len(answer) + 1
    BY <1>1, <1>5, QueueAppend
  <2>2. Len(executed[Leader]) = Len(answer) /\ store[Leader] = h[Len(answer)]
    BY <2>1 DEF LeaderFollows
  <2>3. /\ Len(answer) = round
        /\ Len(cmdOf) = round + 1
    BY <1>5 DEF LocalExec, QueueInv
  <2>4. /\ executed'[Leader] = Append(executed[Leader], round)
        /\ store'[Leader] = Exec(store[Leader], Current)
    BY <1>1, <1>5 DEF LocalExec, TypeOK
  <2>5. round \in Round
    BY <1>2, <2>3, ConstantFacts DEF QueueInv, Round
  <2>6. Len(executed'[Leader]) = Len(answer')
    BY <1>1, <2>1, <2>2, <2>4, <2>5
  <2>7. h[round+1] = Exec(h[(round+1)-1], cmdOf[round+1])
    BY <1>2, <2>3 DEF IsHistory
  <2>8. (round+1)-1 = round /\ round + 1 \in 0 .. Len(cmdOf)
    BY <1>2, <2>3
  <2> QED
    BY <2>1, <2>2, <2>3, <2>4, <2>6, <2>7, <2>8 DEF Current
<1> QED
  BY <1>3, <1>4, <1>5, AnswerSteps

\* Initially every node holds the seed.
LEMMA HistoryInit ==
  ASSUME InitFixed
  PROVE  /\ HistoryInv
         /\ \A k : Permanent(k) => KeepsCustomer(k)
<1>1. /\ cmdOf = << >> /\ answer = << >>
      /\ \A n \in Node : store[n] = Seed /\ executed[n] = << >>
  BY DEF InitFixed, InitCommon
<1>2. PICK h : h = [i \in 0 .. MaxRound |-> Seed]
  OBVIOUS
<1>3. Seed \in Store /\ h[0] = Seed
  BY <1>2, StoreAssumption, ConstantFacts DEF Store
<1>4. IsHistory(h)
  BY <1>1, <1>2, <1>3 DEF IsHistory
<1>5. HistoryInv
  BY <1>1, <1>3, <1>4, ConstantFacts DEF HistoryInv
<1> QED
  BY <1>1, <1>5 DEF KeepsCustomer, Permanent

\* Every step keeps the history that all replicas share.
LEMMA HistoryStep ==
  ASSUME Rivals = {}, NEW k, Permanent(k)
  PROVE  TypeOK /\ QueueInv /\ OrderInv /\ KeepsCustomer(k) /\ HistoryInv
           /\ [Next]_vars => HistoryInv'
<1> SUFFICES ASSUME TypeOK, QueueInv, OrderInv, KeepsCustomer(k), HistoryInv,
                    [Next]_vars
             PROVE  HistoryInv'
  OBVIOUS
<1>1. PICK h : /\ IsHistory(h)
               /\ \A f \in Follower : store[f] = h[Len(executed[f])]
               /\ LeaderFollows(h)
  BY DEF HistoryInv, LeaderFollows
<1>2. PICK g : IsHistory(g)' /\ \A i \in 0 .. Len(cmdOf) : g[i] = h[i]
  BY <1>1, HistoryGrows
<1>3. \A f \in Follower : store'[f] = g[Len(executed'[f])]
  BY <1>1, <1>2, FollowerHistory
<1>4. "timeout" \notin Range(answer') =>
        /\ Len(executed'[Leader]) = Len(answer')
        /\ store'[Leader] = g[Len(answer')]
  BY <1>1, <1>2, LeaderHistory
<1> QED
  BY <1>2, <1>3, <1>4 DEF HistoryInv

\* Two replicas that have executed equally many rounds hold what the same commands
\* make of the same seed.
LEMMA HistoryShared == HistoryInv => ReplicasAgree
<1> SUFFICES ASSUME HistoryInv, NEW m \in Node, NEW n \in Node,
                    Len(executed[m]) = Len(executed[n]),
                    Leader \in {m, n} => "timeout" \notin Range(answer)
             PROVE  store[m] = store[n]
  BY DEF ReplicasAgree
<1>1. PICK h : /\ \A f \in Follower : store[f] = h[Len(executed[f])]
               /\ "timeout" \notin Range(answer) =>
                    /\ Len(executed[Leader]) = Len(answer)
                    /\ store[Leader] = h[Len(answer)]
  BY DEF HistoryInv
<1>2. \A i \in {m, n} : store[i] = h[Len(executed[i])]
  BY <1>1 DEF Follower
<1> QED
  BY <1>2

(***************************************************************************)
(* As long as one customer is there for good and only the initial leader   *)
(* sends rounds, two followers that have executed equally many of them hold*)
(* the same documents, crashes and restarts included, and so does the      *)
(* leader until a round times out.  Without such a customer the seeding of *)
(* an emptied collection can tell them apart.                              *)
(***************************************************************************)
THEOREM ReplicasHoldTheSame ==
  ASSUME Rivals = {}, NEW k, Permanent(k)
  PROVE  FixedSpec => []ReplicasAgree
<1>1. InitFixed => HistoryInv /\ KeepsCustomer(k)
  BY HistoryInit
<1>2. TypeOK /\ QueueInv /\ OrderInv /\ KeepsCustomer(k) /\ HistoryInv
        /\ [Next]_vars => KeepsCustomer(k)' /\ HistoryInv'
  BY CustomerStep, HistoryStep
<1> QED
  BY <1>1, <1>2, OrderHolds, HistoryShared, PTL DEF FixedSpec
-----------------------------------------------------------------------------
(* The loop of the initial leader implements the abstract write service.   *)

\* The executor of the service is the executor of the nodes.
LEMMA SameExecutor ==
  ASSUME NEW s, NEW c
  PROVE  /\ Service!ExecOK(s, c) <=> ExecOK(s, c)
         /\ Service!Exec(s, c) = Exec(s, c)
BY DEF Service!ExecOK, ExecOK, Service!Exec, Exec

\* The service counts its holders as the loop counts its followers.
LEMMA SameSize ==
  ASSUME NEW S
  PROVE  Service!Cardinality(S) = Cardinality(S)
BY DEF Service!Cardinality, Cardinality

\* The accepted writes: those that have a round and those still in the channel.
LEMMA AcceptedWrites ==
  ASSUME TypeOK
  PROVE  /\ cmdOf \o cmdCh \in Seq(Command)
         /\ Len(cmdOf \o cmdCh) = Len(cmdOf) + Len(cmdCh)
         /\ \A i \in 1 .. Len(cmdOf) : (cmdOf \o cmdCh)[i] = cmdOf[i]
         /\ \A c \in Command :
              cmdOf \o Append(cmdCh, c) = Append(cmdOf \o cmdCh, c)
         /\ cmdCh # << >> =>
              Append(cmdOf, Head(cmdCh)) \o Tail(cmdCh) = cmdOf \o cmdCh
<1>1. cmdOf \in Seq(Command) /\ cmdCh \in Seq(Command)
  BY DEF TypeOK
<1>2. /\ cmdOf \o cmdCh \in Seq(Command)
      /\ Len(cmdOf \o cmdCh) = Len(cmdOf) + Len(cmdCh)
      /\ \A i \in 1 .. Len(cmdOf) : (cmdOf \o cmdCh)[i] = cmdOf[i]
  BY <1>1
<1>3. ASSUME NEW c \in Command
      PROVE  cmdOf \o Append(cmdCh, c) = Append(cmdOf \o cmdCh, c)
  BY <1>1
<1>4. ASSUME cmdCh # << >>
      PROVE  Append(cmdOf, Head(cmdCh)) \o Tail(cmdCh) = cmdOf \o cmdCh
  BY <1>1, <1>4
<1> QED
  BY <1>2, <1>3, <1>4

\* The initial leader begins with a service that has accepted nothing.
LEMMA ServiceInit == InitFixed => Service!Init
BY DEF InitFixed, InitCommon, Service!Init

\* A follower whose answer has been counted has applied the write.
LEMMA AckedAreHolders ==
  ASSUME TypeOK, QueueInv, OrderInv, NEW c \in Round
  PROVE  /\ Acked(c) \subseteq Service!Holders(c)
         /\ Service!Holders(c) \subseteq Node
<1>1. ASSUME NEW f \in Acked(c)
      PROVE  f \in Service!Holders(c)
  <2>1. f \in Follower /\ f \in Node \ {Leader} /\ c < Len(executed[f])
    BY ConstantFacts DEF Acked, OrderInv, PrefixInv, Follower
  <2>2. Len(executed[f]) \in Nat /\ c \in Nat
    BY <2>1, ConstantFacts DEF TypeOK
  <2>3. c+1 \in 1 .. Len(executed[f]) /\ (c+1)-1 = c
    BY <2>1, <2>2
  <2>4. executed[f][c+1] = c
    BY <2>1, <2>3 DEF OrderInv, PrefixInv, InOrderExecution
  <2> QED
    BY <2>1, <2>3, <2>4 DEF Service!Holders
<1> QED
  BY <1>1 DEF Service!Holders

\* The write a follower executes is the next one of the service.
LEMMA ServiceFollow ==
  ASSUME TypeOK, QueueInv, OrderInv, NEW f \in Follower, NEW c \in Round,
         KVExecutor(f, c)
  PROVE  Service!Follow(f)
<1>1. rpc[f][c] = "admitted"
  BY DEF KVExecutor
<1>2. c = Len(executed[f]) /\ c < Len(cmdOf)
  BY <1>1, NextToExecute, ExecutedCommand DEF OrderInv, InHandler
<1>3. /\ Len(cmdOf) \in Nat /\ Len(cmdCh) \in Nat /\ Len(answer) \in Nat
      /\ c \in Nat /\ Len(cmdOf) <= Len(answer) + 1
  BY ConstantFacts DEF TypeOK, QueueInv
<1>4. c < Len(cmdOf \o cmdCh) /\ c <= Len(answer)
  BY <1>2, <1>3, AcceptedWrites
<1>5. (cmdOf \o cmdCh)[c+1] = cmdOf[c+1]
  BY <1>2, <1>3, AcceptedWrites
<1>6. Service!TakesEffect(f, c)
  BY <1>5, SameExecutor DEF Service!TakesEffect, KVExecutor
<1>7. UNCHANGED <<cmdOf \o cmdCh, answer>>
  BY DEF KVExecutor, httpVars, loopVars
<1> QED
  BY <1>2, <1>4, <1>6, <1>7 DEF Service!Follow

\* The leader executes and reports the next write of the service once enough
\* followers have applied it.
LEMMA ServiceCommit ==
  ASSUME TypeOK, QueueInv, OrderInv, CommitQuorum', LocalExec
  PROVE  Service!Commit
<1>1. /\ loop = "commit"
      /\ Len(answer) = round /\ Len(cmdOf) = round + 1
      /\ round \in Nat /\ Len(cmdCh) \in Nat /\ round \in Round
  BY ConstantFacts DEF LocalExec, TypeOK, QueueInv, Round
<1>2. round < Len(cmdOf \o cmdCh) /\ (cmdOf \o cmdCh)[round+1] = Current
  BY <1>1, AcceptedWrites DEF Current
<1>3. Cardinality(Service!Holders(round)) >= T
  <2>1. /\ Len(answer') = round + 1
        /\ answer'[round+1] # "timeout"
    <3>1. PICK a : a # "timeout" /\ answer' = Append(answer, a)
      BY DEF LocalExec
    <3>2. answer \in Seq({"ok", "failed", "timeout"})
      BY DEF TypeOK
    <3> QED
      BY <1>1, <3>1, <3>2
  <2>2. round + 1 \in 1 .. Len(answer') /\ (round+1)-1 = round
    BY <1>1, <2>1
  <2>3. Cardinality(Acked(round))' >= T
    BY <2>1, <2>2 DEF CommitQuorum, LocalExec
  <2>4. Acked(round)' = Acked(round)
    BY DEF LocalExec, connVars, Acked
  <2>5. Cardinality(Acked(round)) <= Cardinality(Service!Holders(round))
    <3>1. IsFiniteSet(Node)
      BY SchemeFacts, FS_Interval DEF Node
    <3>2. IsFiniteSet(Service!Holders(round))
      BY <1>1, <3>1, AckedAreHolders, FS_Subset
    <3> QED
      BY <1>1, <3>2, AckedAreHolders, FS_Subset
  <2>6. /\ Cardinality(Acked(round)) \in Nat
        /\ Cardinality(Service!Holders(round)) \in Nat
    <3>1. IsFiniteSet(Node)
      BY SchemeFacts, FS_Interval DEF Node
    <3>2. /\ IsFiniteSet(Service!Holders(round))
          /\ IsFiniteSet(Acked(round))
      BY <1>1, <3>1, AckedAreHolders, FS_Subset
    <3> QED
      BY <3>2, FS_CardinalityType
  <2> QED
    BY <2>3, <2>4, <2>5, <2>6, SchemeFacts
<1>4. Service!TakesEffect(Leader, round)
  BY <1>2, SameExecutor DEF Service!TakesEffect, LocalExec
<1>5. answer' = Append(answer, IF Service!ExecOK(store[Leader], Current)
                               THEN "ok" ELSE "failed")
  BY SameExecutor DEF LocalExec
<1>6. UNCHANGED (cmdOf \o cmdCh)
  BY DEF LocalExec
<1> QED
  BY <1>1, <1>2, <1>3, <1>4, <1>5, <1>6, SameSize DEF Service!Commit

\* A step of the channel or of the loop between its calls: a write is accepted,
\* given up, or nothing happens that a client or a replica could see.
LEMMA ServiceIdle ==
  ASSUME Rivals = {}, TypeOK, QueueInv, [Next]_vars, CallsIdle \/ StartRound
  PROVE  [Service!Next]_(Service!vars)
<1>1. UNCHANGED <<store, executed>>
  BY DEF CallsIdle, StartRound, nodeVars
<1>2. CASE UNCHANGED vars
  BY <1>1, <1>2 DEF vars, httpVars, loopVars, Service!vars
<1>3. ASSUME NEW c \in Command, SubmitWrite(c)
      PROVE  Service!Next
  <2>1. UNCHANGED <<cmdOf, answer>> /\ cmdCh' = Append(cmdCh, c)
    BY <1>3 DEF SubmitWrite, loopVars
  <2>2. (cmdOf \o cmdCh)' = Append(cmdOf \o cmdCh, c)
    BY <2>1, AcceptedWrites
  <2> QED
    BY <1>1, <2>1, <2>2 DEF Service!Next, Service!Accept
<1>4. CASE StartRound
  <2>1. (cmdOf \o cmdCh)' = cmdOf \o cmdCh
    BY <1>4, AcceptedWrites DEF StartRound
  <2>2. answer' = answer
    BY <1>4 DEF StartRound
  <2> QED
    BY <1>1, <2>1, <2>2 DEF Service!vars
<1>5. CASE ConsensusTimeout
  <2>1. /\ answer' = Append(answer, "timeout")
        /\ (cmdOf \o cmdCh)' = cmdOf \o cmdCh
    BY <1>5 DEF ConsensusTimeout
  <2>2. Len(answer) < Len(cmdOf \o cmdCh)
    <3>1. /\ Len(answer) = round /\ Len(cmdOf) = round + 1
          /\ round \in Nat /\ Len(cmdCh) \in Nat
      BY <1>5 DEF ConsensusTimeout, QueueInv, TypeOK
    <3> QED
      BY <3>1, AcceptedWrites
  <2>3. Service!GiveUp
    BY <1>1, <2>1, <2>2 DEF Service!GiveUp
  <2> QED
    BY <2>3 DEF Service!Next
<1>6. CASE ReceiveReply \/ LateReply \/ EndDrain
  BY <1>1, <1>6 DEF ReceiveReply, LateReply, EndDrain, httpVars, Service!vars
<1>7. ASSUME NEW l \in Usurpers, FollowHeartbeat(l)
      PROVE  [Service!Next]_(Service!vars)
  BY <1>1, <1>7 DEF FollowHeartbeat, httpVars, Service!vars
<1>8. ASSUME NEW f \in Follower, NEW c \in Round, RPCNext(f, c)
      PROVE  [Service!Next]_(Service!vars)
  <2>1. UNCHANGED <<cmdOf, cmdCh, answer>>
    BY <1>8 DEF RPCNext, SendRPC, UpdatePriority, KVExecutor, ReturnRPC,
                httpVars, loopVars
  <2> QED
    BY <1>1, <2>1 DEF Service!vars
<1>9. ASSUME NEW f \in Follower, Crash(f) \/ Start(f) \/ ConnectMissingPeer(f)
      PROVE  [Service!Next]_(Service!vars)
  <2>1. UNCHANGED <<cmdOf, cmdCh, answer>>
    BY <1>9 DEF Crash, Start, ConnectMissingPeer, httpVars, loopVars
  <2> QED
    BY <1>1, <2>1 DEF Service!vars
<1>10. CASE LocalExec
  <2>1. Len(executed'[Leader]) # Len(executed[Leader])
    BY <1>10, ConstantFacts DEF LocalExec, TypeOK, QueueInv, Round
  <2> QED
    BY <1>1, <2>1
<1> QED
  BY <1>2, <1>3, <1>4, <1>5, <1>6, <1>7, <1>8, <1>9, <1>10, NoRivals
  DEF Next, LoopNext

\* Every step of the loop is one of the service, or none that a client or a
\* replica could see.
LEMMA ServiceStep ==
  ASSUME Rivals = {}, NEW k, Permanent(k), TypeOK, QueueInv, OrderInv,
         KeepsCustomer(k), CommitQuorum', [Next]_vars
  PROVE  [Service!Next]_(Service!vars)
<1>1. CASE CallsIdle \/ StartRound
  BY <1>1, ServiceIdle
<1>2. CASE LocalExec
  BY <1>2, ServiceCommit DEF Service!Next
<1>3. ASSUME NEW f \in Follower, NEW c \in Round, RPCNext(f, c)
      PROVE  [Service!Next]_(Service!vars)
  <2>1. CASE KVExecutor(f, c)
    <3>1. Service!Follow(f) /\ f \in Node \ {Leader}
      BY <2>1, ServiceFollow DEF Follower
    <3> QED
      BY <3>1 DEF Service!Next
  <2>2. CASE ~KVExecutor(f, c)
    <3>1. UNCHANGED <<cmdOf, cmdCh, answer, executed, store>>
      BY <1>3, <2>2 DEF RPCNext, SendRPC, UpdatePriority, ReturnRPC, httpVars,
                        loopVars, nodeVars
    <3> QED
      BY <3>1 DEF Service!vars
  <2> QED
    BY <2>1, <2>2
<1>4. ASSUME NEW f \in Follower, Crash(f) \/ Start(f) \/ ConnectMissingPeer(f)
      PROVE  [Service!Next]_(Service!vars)
  <2>1. UNCHANGED <<cmdOf, cmdCh, answer, executed>>
    BY <1>4 DEF Crash, Start, ConnectMissingPeer, httpVars, loopVars, nodeVars
  <2>2. store' = store
    <3>1. CASE Start(f)
      <4>1. f \in Node /\ store \in [Node -> Store] /\ store[f][k] # Absent
        BY ConstantFacts DEF TypeOK, KeepsCustomer
      <4>2. Reseeded(store[f]) = store[f]
        BY <4>1, PermanentKept
      <4> QED
        BY <3>1, <4>1, <4>2 DEF Start
    <3>2. CASE Crash(f) \/ ConnectMissingPeer(f)
      BY <3>2 DEF Crash, ConnectMissingPeer, nodeVars
    <3> QED
      BY <1>4, <3>1, <3>2
  <2> QED
    BY <2>1, <2>2 DEF Service!vars
<1> QED
  BY <1>1, <1>2, <1>3, <1>4, StepKinds, NoRivals

(***************************************************************************)
(* As long as one customer is there for good, the loop of the uncontested  *)
(* initial leader implements the abstract write service: writes take       *)
(* effect in the order in which they were accepted, on every follower and, *)
(* with at least T followers ahead of it, on the leader, and are answered  *)
(* in that order, whatever crashes, restarts and times out.                *)
(***************************************************************************)
THEOREM LoopImplementsService ==
  ASSUME NEW k, Permanent(k), Usurpers = {}, Rivals = {}
  PROVE  FixedSpec => ImplementsWriteService
<1>1. InitFixed => Service!Init /\ KeepsCustomer(k)
  BY ServiceInit, HistoryInit
<1>2. TypeOK /\ QueueInv /\ KeepsCustomer(k) /\ [Next]_vars
        => KeepsCustomer(k)'
  BY CustomerStep
<1>3. TypeOK /\ QueueInv /\ OrderInv /\ KeepsCustomer(k) /\ CommitQuorum'
        /\ [Next]_vars => [Service!Next]_(Service!vars)
  BY ServiceStep
<1>4. FixedSpec => []CommitQuorum
  BY CommittedIsHeld
<1> QED
  BY <1>1, <1>2, <1>3, <1>4, OrderHolds, PTL
  DEF FixedSpec, ImplementsWriteService, Service!Spec
=============================================================================
