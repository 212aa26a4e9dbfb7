-------------------------- MODULE ConsensusProofs ---------------------------
(***************************************************************************)
(* The proofs about one run of RunConsensus, for every number of nodes,    *)
(* every tolerance and scheme, every set of commands and every bound.      *)
(*                                                                         *)
(* QueueInv says what the queues of the loop hold: replies of the round,   *)
(* each follower's at most once, and only of followers whose call has      *)
(* succeeded.  WeightInv says what the loop's sum is: the weight of the    *)
(* ranks of the nodes counted, all different.  ShareInv bounds it for a    *)
(* leader whose own weight is what other leaders' rounds have left it.     *)
(***************************************************************************)
EXTENDS Consensus, PrioritiesProofs

QueueInv ==
  /\ Len(cmdOf) = IF loop = "idle" THEN round ELSE round + 1
  /\ Len(cmdOf) <= MaxRound
  /\ Len(answer) = IF loop = "drain" THEN round + 1 ELSE round
  /\ \A f \in Follower, c \in Round : c >= Len(cmdOf) => rpc[f][c] = "idle"
  /\ loop # "idle" =>
       /\ IsInjective(prioQueue)
       /\ IsInjective(receiver)
       /\ Range(prioQueue) \cap Range(receiver) = {}
       /\ Range(prioQueue) \cup Range(receiver) \subseteq Acked(round)

Counted == {prio[round][n] : n \in {Leader} \cup Range(prioQueue)}

WeightInv ==
  /\ leaderID = Leader
  /\ ownRank = 0
  /\ \A c \in 0 .. round : prio[c] \in [Node -> Rank]
  /\ RanksDealtOnce
  /\ loop \in {"wait", "commit"} => prioSum = RankWeight(Counted)
  /\ loop = "wait" => prioQueue = << >> \/ ~OverMajority(prioSum)

-----------------------------------------------------------------------------
(* Queues of followers.                                                    *)

\* Taking the head off a queue without repetition removes exactly that follower
\* from it (the channel receive of a reply).
LEMMA QueueTail ==
  ASSUME NEW S, NEW q \in Seq(S), q # << >>
  PROVE  /\ Tail(q) \in Seq(S)
         /\ Head(q) \in S
         /\ Head(q) \in Range(q)
         /\ Range(Tail(q)) \subseteq Range(q)
         /\ IsInjective(q) => /\ IsInjective(Tail(q))
                              /\ Head(q) \notin Range(Tail(q))
<1>1. Len(q) \in Nat \ {0} /\ DOMAIN q = 1 .. Len(q)
  OBVIOUS
<1>2. /\ Tail(q) \in Seq(S)
      /\ Len(Tail(q)) = Len(q) - 1
      /\ DOMAIN Tail(q) = 1 .. Len(q) - 1
      /\ \A i \in 1 .. Len(q) - 1 : Tail(q)[i] = q[i+1]
  OBVIOUS
<1>3. Head(q) = q[1] /\ 1 \in DOMAIN q
  BY <1>1
<1>4. Head(q) \in S /\ Head(q) \in Range(q)
  BY <1>3 DEF Range
<1>5. Range(Tail(q)) \subseteq Range(q)
  BY <1>1, <1>2 DEF Range
<1>6. ASSUME IsInjective(q)
      PROVE  IsInjective(Tail(q)) /\ Head(q) \notin Range(Tail(q))
  <2>1. \A i, j \in 1 .. Len(q) : q[i] = q[j] => i = j
    BY <1>1, <1>6 DEF IsInjective
  <2>2. IsInjective(Tail(q))
    BY <1>1, <1>2, <2>1 DEF IsInjective
  <2>3. Head(q) \notin Range(Tail(q))
    BY <1>1, <1>2, <1>3, <2>1 DEF Range
  <2> QED
    BY <2>2, <2>3
<1> QED
  BY <1>2, <1>4, <1>5, <1>6

\* Appending a follower that is not in the queue keeps it free of repetition and
\* adds exactly that follower (the channel send of a reply).
LEMMA QueueAppend ==
  ASSUME NEW S, NEW q \in Seq(S), NEW e \in S
  PROVE  /\ Append(q, e) \in Seq(S)
         /\ Len(Append(q, e)) = Len(q) + 1
         /\ Range(Append(q, e)) = Range(q) \cup {e}
         /\ IsInjective(q) /\ e \notin Range(q) => IsInjective(Append(q, e))
<1>1. /\ Append(q, e) \in Seq(S)
      /\ Len(Append(q, e)) = Len(q) + 1
      /\ Len(q) \in Nat
      /\ DOMAIN q = 1 .. Len(q)
      /\ DOMAIN Append(q, e) = 1 .. Len(q) + 1
      /\ \A i \in 1 .. Len(q) : Append(q, e)[i] = q[i]
      /\ Append(q, e)[Len(q) + 1] = e
  OBVIOUS
<1>2. \A i \in 1 .. Len(q) + 1 : i \in 1 .. Len(q) \/ i = Len(q) + 1
  BY <1>1
<1>3. Range(Append(q, e)) = Range(q) \cup {e}
  <2>1. Range(Append(q, e)) \subseteq Range(q) \cup {e}
    BY <1>1, <1>2 DEF Range
  <2>2. Range(q) \subseteq Range(Append(q, e))
    BY <1>1 DEF Range
  <2>3. e \in Range(Append(q, e))
    BY <1>1 DEF Range
  <2> QED
    BY <2>1, <2>2, <2>3
<1>4. ASSUME IsInjective(q), e \notin Range(q)
      PROVE  IsInjective(Append(q, e))
  <2>1. \A i, j \in 1 .. Len(q) : q[i] = q[j] => i = j
    BY <1>1, <1>4 DEF IsInjective
  <2>2. \A i \in 1 .. Len(q) : q[i] # e
    BY <1>1, <1>4 DEF Range
  <2> QED
    BY <1>1, <1>2, <2>1, <2>2 DEF IsInjective
<1> QED
  BY <1>1, <1>3, <1>4

\* The empty queue has no repetition and holds nobody.
LEMMA EmptyQueue ==
  ASSUME NEW S
  PROVE  /\ << >> \in Seq(S) /\ Len(<< >>) = 0
         /\ IsInjective(<< >>) /\ Range(<< >>) = {}
BY DEF IsInjective, Range
-----------------------------------------------------------------------------
(* Type correctness and the queues.                                        *)

\* What the assumptions say of the constants: followers, rounds and ranks are
\* numbers in range.
LEMMA ConstantFacts ==
  /\ N \in Nat \ {0}
  /\ Leader \in Node
  /\ Follower \subseteq Node
  /\ MaxRound \in Nat
  /\ Usurpers \subseteq Follower
  /\ Rivals \subseteq Follower
  /\ \A c \in Round : c \in Nat /\ c < MaxRound
  /\ \A n \in Node : n \in Rank
BY ConsensusAssumption, SchemeFacts DEF Follower, Round, Node, Rank

\* The executor maps a store to a store.
LEMMA ExecType ==
  ASSUME NEW s \in Store, NEW c \in Command
  PROVE  Exec(s, c) \in Store
<1>1. c.key \in Key /\ c.val \in Value /\ Absent \in Value
  BY StoreAssumption DEF Value
<1> QED
  BY <1>1 DEF Exec, Store

\* The weight of a rank is a natural number.
LEMMA WeightType ==
  ASSUME NEW r
  PROVE  Weight(r) \in Nat
BY SchemeFacts DEF Weight

\* Whatever UpdateFollowerPriorities stores is a table of ranks.
LEMMA RerankedType ==
  ASSUME NEW l \in Node, NEW q \in Seq(Follower), IsInjective(q),
         NEW r \in Reranked(q, l)
  PROVE  r \in [Node -> Rank]
<1> DEFINE others == Node \ (Range(q) \cup {l})
           left == Len(q) + 1 .. N-1
           pos(n) == CHOOSE i \in 1 .. Len(q) : q[i] = n
<1>1. PICK g \in Injection(others, left) :
        r = [n \in Node |-> IF n \in Range(q) THEN pos(n)
                            ELSE IF n = l THEN 0 ELSE g[n]]
  BY DEF Reranked, RanksLeft
<1>2. q \in Seq(Node \ {Leader})
  BY DEF Follower
<1>3. Len(q) \in 0 .. N-1
  BY <1>2, ConstantFacts, ResponderCount
<1>4. \A n \in Range(q) : pos(n) \in 1 .. Len(q)
  BY DEF Range
<1>5. \A n \in others : g[n] \in left
  BY DEF Injection
<1> HIDE DEF pos
<1>6. \A n \in Node : r[n] \in Rank
  <2> TAKE n \in Node
  <2>1. CASE n \in Range(q)
    BY <1>1, <1>3, <1>4, <2>1, SchemeFacts DEF Rank
  <2>2. CASE n \notin Range(q) /\ n = l
    BY <1>1, <2>2, SchemeFacts
  <2>3. CASE n \in others
    BY <1>1, <1>3, <1>5, <2>3, SchemeFacts DEF Rank
  <2> QED
    BY <2>1, <2>2, <2>3
<1> QED
  BY <1>1, <1>6

\* The initial states have their types and empty reply queues.
LEMMA TypeInit == InitFixed \/ InitElected => TypeOK /\ QueueInv
<1> SUFFICES ASSUME InitFixed \/ InitElected
             PROVE  TypeOK /\ QueueInv
  OBVIOUS
<1>1. InitCommon
  BY DEF InitFixed, InitElected
<1>2. /\ docked \subseteq Follower
      /\ alive \in [Follower -> BOOLEAN]
      /\ ownRank \in Rank \cup {NoRank}
      /\ prioClock \in [Follower -> Nat]
  <2>1. CASE InitFixed
    BY <2>1, ConstantFacts, SchemeFacts DEF InitFixed
  <2>2. CASE InitElected
    BY <2>2, ConsensusAssumption DEF InitElected
  <2> QED
    BY <2>1, <2>2
<1>3. TypeOK
  <2>1. connUp \in [Follower -> BOOLEAN] /\ leaderID \in Node /\ round = 0
    BY <1>1, ConstantFacts DEF InitCommon
  <2>2. prio \in [0 .. MaxRound -> [Node -> Rank \cup {NoRank}]]
    BY <1>1, ConstantFacts DEF InitCommon, InitialRanks, NoRanks
  <2>3. store \in [Node -> Store]
    BY <1>1, StoreAssumption DEF InitCommon, Store
  <2>4. /\ jobQ \in [Follower -> [Round -> {"nil", "empty", "full"}]]
        /\ rpc \in [Follower -> [Round -> Stage]]
        /\ executed \in [Node -> Seq(Round)]
    BY <1>1 DEF InitCommon, Stage
  <2>5. /\ submitted \subseteq Command
        /\ cmdCh \in Seq(Command) /\ cmdOf \in Seq(Command)
        /\ answer \in Seq({"ok", "failed", "timeout"})
        /\ receiver \in Seq(Follower) /\ prioQueue \in Seq(Follower)
    BY <1>1, EmptyQueue DEF InitCommon
  <2>6. /\ loop \in {"idle", "wait", "commit", "drain"}
        /\ round \in 0 .. MaxRound
        /\ prioSum \in Nat
        /\ crashes \in 0 .. MaxCrash
    BY <1>1, ConsensusAssumption DEF InitCommon
  <2> QED
    BY <1>2, <2>1, <2>2, <2>3, <2>4, <2>5, <2>6 DEF TypeOK
<1>4. QueueInv
  BY <1>1, ConstantFacts DEF InitCommon, QueueInv
<1> QED
  BY <1>3, <1>4

\* Membership of a function that an EXCEPT changes at two levels.
LEMMA Update2 ==
  ASSUME NEW A, NEW B, NEW C, NEW g \in [A -> [B -> C]],
         NEW a \in A, NEW b \in B, NEW e \in C
  PROVE  [g EXCEPT ![a][b] = e] \in [A -> [B -> C]]
OBVIOUS

\* submitWrite keeps the types and the queues.
LEMMA SubmitStep ==
  ASSUME TypeOK, QueueInv, NEW c \in Command, SubmitWrite(c)
  PROVE  TypeOK' /\ QueueInv'
<1>1. cmdCh' \in Seq(Command)
  BY DEF SubmitWrite, TypeOK
<1>2. TypeOK'
  BY <1>1 DEF SubmitWrite, TypeOK, loopVars, connVars, nodeVars
<1>3. QueueInv'
  BY DEF SubmitWrite, QueueInv, Acked, loopVars, connVars, nodeVars
<1> QED
  BY <1>2, <1>3

\* Taking a request off writeChan and opening a round keeps the types, and leaves
\* the new round with an empty reply queue.
LEMMA StartRoundStep ==
  ASSUME TypeOK, QueueInv, StartRound
  PROVE  TypeOK' /\ QueueInv'
<1> USE DEF StartRound
<1>1. round \in Nat /\ round \in Round /\ Len(cmdOf) = round
  BY ConstantFacts DEF TypeOK, QueueInv, Round
<1>2. /\ cmdCh' \in Seq(Command)
      /\ cmdOf' \in Seq(Command)
      /\ Len(cmdOf') = round + 1
  <2>1. cmdCh \in Seq(Command) /\ cmdOf \in Seq(Command)
    BY DEF TypeOK
  <2> QED
    BY <1>1, <2>1, QueueTail, QueueAppend
<1>3. /\ jobQ' \in [Follower -> [Round -> {"nil", "empty", "full"}]]
      /\ rpc' \in [Follower -> [Round -> Stage]]
  <2>1. \A f \in Follower :
          /\ jobQ[f] \in [Round -> {"nil", "empty", "full"}]
          /\ rpc[f] \in [Round -> Stage]
    BY DEF TypeOK
  <2>2. \A f \in Follower :
          /\ [jobQ[f] EXCEPT ![round] = "empty"]
               \in [Round -> {"nil", "empty", "full"}]
          /\ [rpc[f] EXCEPT ![round] = "wait"] \in [Round -> Stage]
    BY <1>1, <2>1 DEF Stage
  <2> QED
    BY <2>1, <2>2
<1>4. /\ receiver' = << >> /\ prioQueue' = << >>
      /\ receiver' \in Seq(Follower) /\ prioQueue' \in Seq(Follower)
      /\ prioSum' \in Nat
  BY EmptyQueue, WeightType
<1>5. TypeOK'
  BY <1>2, <1>3, <1>4 DEF TypeOK, nodeVars
<1>6. \A f \in Follower, c \in Round :
        c >= Len(cmdOf') => rpc'[f][c] = "idle"
  <2> SUFFICES ASSUME NEW f \in Follower, NEW c \in Round, c >= Len(cmdOf')
               PROVE  rpc'[f][c] = "idle"
    OBVIOUS
  <2>1. c \in Nat /\ c # round /\ c >= Len(cmdOf)
    BY <1>1, <1>2 DEF Round
  <2>2. rpc[f][c] = "idle"
    BY <2>1 DEF QueueInv
  <2> QED
    BY <2>1, <2>2 DEF TypeOK
<1>7. QueueInv'
  <2>1. /\ Len(cmdOf') <= MaxRound
        /\ Len(answer') = round'
        /\ loop' = "wait"
        /\ round' = round
    BY <1>1, <1>2, ConstantFacts DEF QueueInv
  <2> QED
    BY <1>2, <1>4, <1>6, <2>1, EmptyQueue DEF QueueInv
<1> QED
  BY <1>5, <1>7

\* Counting a reply keeps the types and takes one follower off the reply queue.
LEMMA ReceiveReplyStep ==
  ASSUME TypeOK, QueueInv, ReceiveReply
  PROVE  TypeOK' /\ QueueInv'
<1> USE DEF ReceiveReply
<1>1. receiver \in Seq(Follower) /\ prioQueue \in Seq(Follower) /\ prioSum \in Nat
  BY DEF TypeOK
<1>2. /\ receiver' \in Seq(Follower)
      /\ Head(receiver) \in Follower
      /\ Head(receiver) \in Range(receiver)
      /\ Range(receiver') \subseteq Range(receiver)
      /\ IsInjective(receiver) => /\ IsInjective(receiver')
                                  /\ Head(receiver) \notin Range(receiver')
  BY <1>1, QueueTail
<1>3. /\ prioQueue' \in Seq(Follower)
      /\ Range(prioQueue') = Range(prioQueue) \cup {Head(receiver)}
      /\ IsInjective(prioQueue) /\ Head(receiver) \notin Range(prioQueue)
           => IsInjective(prioQueue')
  BY <1>1, <1>2, QueueAppend
<1>4. prioSum' \in Nat
  BY <1>1, WeightType
<1>5. TypeOK'
  BY <1>2, <1>3, <1>4 DEF TypeOK, httpVars, connVars, nodeVars
<1>6. QueueInv'
  <2>1. /\ IsInjective(prioQueue) /\ IsInjective(receiver)
        /\ Range(prioQueue) \cap Range(receiver) = {}
        /\ Range(prioQueue) \cup Range(receiver) \subseteq Acked(round)
    BY DEF QueueInv
  <2>2. /\ IsInjective(prioQueue') /\ IsInjective(receiver')
        /\ Range(prioQueue') \cap Range(receiver') = {}
        /\ Range(prioQueue') \cup Range(receiver') \subseteq Acked(round)
    BY <1>2, <1>3, <2>1
  <2>3. /\ loop' # "idle" /\ loop' # "drain" /\ loop = "wait"
        /\ round' = round /\ cmdOf' = cmdOf /\ answer' = answer /\ rpc' = rpc
        /\ Acked(round)' = Acked(round)
    BY DEF httpVars, connVars, Acked
  <2> QED
    BY <2>2, <2>3 DEF QueueInv
<1> QED
  BY <1>5, <1>6

\* The expiry of the round's timer keeps the types and the queues.
LEMMA TimeoutStep ==
  ASSUME TypeOK, QueueInv, ConsensusTimeout
  PROVE  TypeOK' /\ QueueInv'
<1> USE DEF ConsensusTimeout
<1>1. /\ answer' \in Seq({"ok", "failed", "timeout"})
      /\ Len(answer') = Len(answer) + 1
  BY QueueAppend DEF TypeOK
<1>2. TypeOK'
  BY <1>1 DEF TypeOK, connVars, nodeVars
<1>3. Acked(round)' = Acked(round)
  BY DEF Acked, connVars
<1> QED
  BY <1>1, <1>2, <1>3 DEF QueueInv, connVars

\* The leader's own execution keeps the types and the queues.
LEMMA LocalExecStep ==
  ASSUME TypeOK, QueueInv, LocalExec
  PROVE  TypeOK' /\ QueueInv'
<1> USE DEF LocalExec
<1>1. round \in Nat /\ round \in Round /\ Len(cmdOf) = round + 1
  BY ConstantFacts DEF TypeOK, QueueInv, Round
<1>2. Current \in Command
  BY <1>1 DEF TypeOK, Current
<1>3. /\ answer' \in Seq({"ok", "failed", "timeout"})
      /\ Len(answer') = Len(answer) + 1
  BY QueueAppend DEF TypeOK
<1>4. store' \in [Node -> Store]
  BY <1>2, ConstantFacts, ExecType DEF TypeOK
<1>5. executed' \in [Node -> Seq(Round)]
  BY <1>1, ConstantFacts, QueueAppend DEF TypeOK
<1>6. TypeOK'
  BY <1>3, <1>4, <1>5 DEF TypeOK, connVars
<1>7. Acked(round)' = Acked(round)
  BY DEF Acked, connVars
<1> QED
  BY <1>3, <1>6, <1>7 DEF QueueInv, connVars

\* Draining one late reply keeps the types and takes one follower off the queue.
LEMMA LateReplyStep ==
  ASSUME TypeOK, QueueInv, LateReply
  PROVE  TypeOK' /\ QueueInv'
<1> USE DEF LateReply
<1>1. receiver \in Seq(Follower) /\ prioQueue \in Seq(Follower)
  BY DEF TypeOK
<1>2. /\ receiver' \in Seq(Follower)
      /\ Head(receiver) \in Follower
      /\ Head(receiver) \in Range(receiver)
      /\ Range(receiver') \subseteq Range(receiver)
      /\ IsInjective(receiver) => /\ IsInjective(receiver')
                                  /\ Head(receiver) \notin Range(receiver')
  BY <1>1, QueueTail
<1>3. /\ prioQueue' \in Seq(Follower)
      /\ Range(prioQueue') = Range(prioQueue) \cup {Head(receiver)}
      /\ IsInjective(prioQueue) /\ Head(receiver) \notin Range(prioQueue)
           => IsInjective(prioQueue')
  BY <1>1, <1>2, QueueAppend
<1>4. TypeOK'
  BY <1>2, <1>3 DEF TypeOK, httpVars, connVars, nodeVars
<1>5. /\ IsInjective(prioQueue) /\ IsInjective(receiver)
      /\ Range(prioQueue) \cap Range(receiver) = {}
      /\ Range(prioQueue) \cup Range(receiver) \subseteq Acked(round)
  BY DEF QueueInv
<1>6. /\ IsInjective(prioQueue') /\ IsInjective(receiver')
      /\ Range(prioQueue') \cap Range(receiver') = {}
      /\ Range(prioQueue') \cup Range(receiver') \subseteq Acked(round)
  BY <1>2, <1>3, <1>5
<1>7. /\ loop' = loop /\ round' = round /\ cmdOf' = cmdOf /\ answer' = answer
      /\ rpc' = rpc /\ Acked(round)' = Acked(round)
  BY DEF httpVars, connVars, Acked
<1> QED
  BY <1>4, <1>6, <1>7 DEF QueueInv

\* Ending the drain, with the re-ranking it does, keeps the types and the queues.
LEMMA EndDrainStep ==
  ASSUME TypeOK, QueueInv, EndDrain
  PROVE  TypeOK' /\ QueueInv'
<1> USE DEF EndDrain
<1>1. /\ round \in Nat /\ round + 1 \in 0 .. MaxRound
      /\ Len(cmdOf) = round + 1 /\ Len(answer) = round + 1
  BY ConstantFacts DEF TypeOK, QueueInv
<1>2. prio' \in [0 .. MaxRound -> [Node -> Rank \cup {NoRank}]]
  <2>1. prio \in [0 .. MaxRound -> [Node -> Rank \cup {NoRank}]]
    BY DEF TypeOK
  <2>2. CASE Reranked(prioQueue, leaderID) = {}
    BY <2>1, <2>2
  <2>3. CASE Reranked(prioQueue, leaderID) # {}
    <3>1. PICK r \in Reranked(prioQueue, leaderID) :
            prio' = [prio EXCEPT ![round + 1] = r]
      BY <2>3
    <3>2. /\ prioQueue \in Seq(Follower) /\ IsInjective(prioQueue)
          /\ leaderID \in Node
      BY DEF TypeOK, QueueInv
    <3>3. r \in [Node -> Rank]
      BY <3>2, RerankedType
    <3>4. r \in [Node -> Rank \cup {NoRank}]
      BY <3>3
    <3> QED
      BY <1>1, <2>1, <3>1, <3>4
  <2> QED
    BY <2>2, <2>3
<1>3. TypeOK'
  BY <1>1, <1>2 DEF TypeOK, httpVars, connVars, nodeVars
<1> QED
  BY <1>1, <1>3 DEF QueueInv, httpVars, connVars

\* A round of a rival, served here or at a follower, keeps the types and the
\* queues.
LEMMA RivalStep ==
  ASSUME TypeOK, QueueInv, NEW n \in Node, RivalPriority(n) \/ RivalExecutor(n)
  PROVE  TypeOK' /\ QueueInv'
<1>1. CASE RivalPriority(n)
  <2>1. ownRank' \in Rank \cup {NoRank}
    BY <1>1 DEF RivalPriority, TypeOK
  <2>2. prioClock' \in [Follower -> Nat]
    <3>1. prioClock \in [Follower -> Nat] /\ LastClock \in Nat
      BY ConsensusAssumption DEF TypeOK
    <3>2. CASE n = Leader
      BY <1>1, <3>1, <3>2 DEF RivalPriority
    <3>3. CASE n # Leader
      <4>1. n \in Follower
        BY <3>3 DEF Follower
      <4>2. PICK clock \in prioClock[n] .. LastClock :
              prioClock' = [prioClock EXCEPT ![n] = clock]
        BY <1>1, <3>3 DEF RivalPriority
      <4>3. prioClock[n] \in Nat
        BY <3>1, <4>1
      <4>4. clock \in Nat
        BY <3>1, <4>3
      <4> QED
        BY <3>1, <4>2, <4>4
    <3> QED
      BY <3>2, <3>3
  <2>3. TypeOK'
    BY <1>1, <2>1, <2>2 DEF RivalPriority, TypeOK, httpVars, connVars
  <2>4. Acked(round)' = Acked(round)
    BY <1>1 DEF RivalPriority, Acked, connVars
  <2> QED
    BY <1>1, <2>3, <2>4 DEF RivalPriority, QueueInv, httpVars, connVars
<1>2. CASE RivalExecutor(n)
  <2>1. store' \in [Node -> Store]
    BY <1>2, ExecType DEF RivalExecutor, TypeOK
  <2>2. TypeOK'
    BY <1>2, <2>1 DEF RivalExecutor, TypeOK, httpVars, loopVars, connVars
  <2>3. Acked(round)' = Acked(round)
    BY <1>2 DEF RivalExecutor, Acked, connVars, loopVars
  <2> QED
    BY <1>2, <2>2, <2>3 DEF RivalExecutor, QueueInv, httpVars, loopVars, connVars
<1> QED
  BY <1>1, <1>2

\* Following another leader's heartbeat keeps the types and the queues.
LEMMA HeartbeatStep ==
  ASSUME TypeOK, QueueInv, NEW l \in Usurpers, FollowHeartbeat(l)
  PROVE  TypeOK' /\ QueueInv'
<1> USE DEF FollowHeartbeat
<1>1. TypeOK'
  BY ConstantFacts DEF TypeOK, httpVars, connVars, nodeVars
<1>2. Acked(round)' = Acked(round)
  BY DEF Acked, connVars
<1> QED
  BY <1>1, <1>2 DEF QueueInv, httpVars, connVars

-----------------------------------------------------------------------------
(* The goroutines never touch the loop, except for pushing a reply.        *)

\* A step of one call that leaves the loop alone.
LEMMA CallStep ==
  ASSUME TypeOK, QueueInv,
         NEW f \in Follower, NEW c \in Round, NEW stage \in Stage,
         rpc[f][c] # "idle", rpc[f][c] # "acked",
         rpc' = [rpc EXCEPT ![f][c] = stage],
         UNCHANGED loopVars, UNCHANGED httpVars
  PROVE  /\ rpc' \in [Follower -> [Round -> Stage]]
         /\ QueueInv'
<1>1. rpc \in [Follower -> [Round -> Stage]]
  BY DEF TypeOK
<1>2. rpc' \in [Follower -> [Round -> Stage]]
  BY <1>1, Update2
<1>3. \A g \in Follower, d \in Round :
        rpc'[g][d] = IF g = f /\ d = c THEN stage ELSE rpc[g][d]
  BY <1>1
<1>4. \A g \in Follower, d \in Round : d >= Len(cmdOf) => rpc'[g][d] = "idle"
  BY <1>3 DEF QueueInv
<1>5. loop # "idle" => Acked(round) \subseteq Acked(round)'
  <2> SUFFICES ASSUME loop # "idle", NEW g \in Follower, rpc[g][round] = "acked"
               PROVE  rpc'[g][round] = "acked"
    BY DEF Acked, loopVars
  <2>1. round \in Round
    BY ConstantFacts DEF TypeOK, QueueInv, Round
  <2> QED
    BY <1>3, <2>1
<1>6. QueueInv'
  BY <1>4, <1>5 DEF QueueInv, loopVars, httpVars
<1> QED
  BY <1>2, <1>6

\* Sending a call keeps the types.
LEMMA SendRPCStep ==
  ASSUME TypeOK, QueueInv, NEW f \in Follower, NEW c \in Round, SendRPC(f, c)
  PROVE  TypeOK' /\ QueueInv'
<1> USE DEF SendRPC, PreviousDone
<1> DEFINE stage == IF connUp[f] THEN "call" ELSE "lost"
<1>1. stage \in Stage
  BY DEF Stage, InHandler, Returning
<1>2. rpc' \in [Follower -> [Round -> Stage]] /\ QueueInv'
  BY <1>1, CallStep
<1>3. jobQ' \in [Follower -> [Round -> {"nil", "empty", "full"}]]
  <2>1. jobQ \in [Follower -> [Round -> {"nil", "empty", "full"}]]
    BY DEF TypeOK
  <2>2. CASE c > 0
    <3>1. c-1 \in Round
      BY <2>2, ConstantFacts DEF Round
    <3> QED
      BY <2>1, <2>2, <3>1, Update2
  <2> QED
    BY <2>1, <2>2
<1> QED
  BY <1>2, <1>3 DEF TypeOK, httpVars, loopVars, nodeVars

\* A follower's priority update keeps the types.
LEMMA UpdatePriorityStep ==
  ASSUME TypeOK, QueueInv, NEW f \in Follower, NEW c \in Round,
         UpdatePriority(f, c)
  PROVE  TypeOK' /\ QueueInv'
<1> USE DEF UpdatePriority, OlderRound
<1> DEFINE stage == IF c < prioClock[f] THEN "stale" ELSE "admitted"
<1>1. stage \in Stage /\ rpc' = [rpc EXCEPT ![f][c] = stage]
  BY DEF Stage, InHandler, Returning
<1>2. rpc' \in [Follower -> [Round -> Stage]] /\ QueueInv'
  <2> HIDE DEF stage
  <2> QED
    BY <1>1, CallStep
<1>3. prioClock' \in [Follower -> Nat]
  BY ConstantFacts DEF TypeOK
<1> QED
  BY <1>2, <1>3 DEF TypeOK, httpVars, loopVars

\* A follower's execution of a command keeps the types.
LEMMA KVExecutorStep ==
  ASSUME TypeOK, QueueInv, NEW f \in Follower, NEW c \in Round,
         KVExecutor(f, c)
  PROVE  TypeOK' /\ QueueInv'
<1> USE DEF KVExecutor
<1> DEFINE stage == IF ExecOK(store[f], cmdOf[c+1]) THEN "ok" ELSE "err"
<1>1. stage \in Stage /\ rpc' = [rpc EXCEPT ![f][c] = stage]
  BY DEF Stage, Returning
<1>2. rpc' \in [Follower -> [Round -> Stage]] /\ QueueInv'
  <2> HIDE DEF stage
  <2> QED
    BY <1>1, CallStep
<1>3. cmdOf[c+1] \in Command
  <2>1. cmdOf \in Seq(Command) /\ Len(cmdOf) \in Nat /\ c \in Nat
    BY ConstantFacts DEF TypeOK
  <2>2. ~(c >= Len(cmdOf))
    BY DEF QueueInv
  <2>3. c + 1 \in 1 .. Len(cmdOf)
    BY <2>1, <2>2
  <2> QED
    BY <2>1, <2>3
<1>4. store' \in [Node -> Store]
  BY <1>3, ConstantFacts, ExecType DEF TypeOK
<1>5. executed' \in [Node -> Seq(Round)]
  BY ConstantFacts, QueueAppend DEF TypeOK
<1> QED
  BY <1>2, <1>4, <1>5 DEF TypeOK, httpVars, loopVars

\* A returning call pushes its follower on the reply queue once, and keeps the
\* types.
LEMMA ReturnRPCStep ==
  ASSUME TypeOK, QueueInv, NEW f \in Follower, NEW c \in Round,
         ReturnRPC(f, c)
  PROVE  TypeOK' /\ QueueInv'
<1> USE DEF ReturnRPC, CallSucceeded
<1> DEFINE stage == IF rpc[f][c] = "ok" THEN "acked" ELSE "failed"
<1>1. /\ stage \in Stage /\ rpc' = [rpc EXCEPT ![f][c] = stage]
      /\ rpc[f][c] # "idle" /\ rpc[f][c] # "acked"
  <2>1. rpc \in [Follower -> [Round -> Stage]]
    BY DEF TypeOK
  <2> QED
    BY <2>1 DEF Stage, Returning
<1> HIDE DEF stage
<1>2. /\ rpc' \in [Follower -> [Round -> Stage]]
      /\ \A g \in Follower, d \in Round :
           rpc'[g][d] = IF g = f /\ d = c THEN stage ELSE rpc[g][d]
  BY <1>1, Update2 DEF TypeOK
<1>3. jobQ' \in [Follower -> [Round -> {"nil", "empty", "full"}]]
  BY Update2 DEF TypeOK
<1>4. receiver' \in Seq(Follower)
  BY QueueAppend DEF TypeOK
<1>5. TypeOK'
  BY <1>2, <1>3, <1>4 DEF TypeOK, httpVars, nodeVars
<1>6. \A g \in Follower, d \in Round : d >= Len(cmdOf) => rpc'[g][d] = "idle"
  BY <1>1, <1>2 DEF QueueInv
<1>7. ASSUME loop # "idle"
      PROVE  /\ IsInjective(receiver')
             /\ Range(prioQueue) \cap Range(receiver') = {}
             /\ Range(prioQueue) \cup Range(receiver') \subseteq Acked(round)'
  <2>1. round \in Round
    BY <1>7, ConstantFacts DEF TypeOK, QueueInv, Round
  <2>2. Acked(round) \subseteq Acked(round)'
    BY <1>1, <1>2, <2>1 DEF Acked
  <2>3. /\ IsInjective(receiver)
        /\ Range(prioQueue) \cap Range(receiver) = {}
        /\ Range(prioQueue) \cup Range(receiver) \subseteq Acked(round)
    BY <1>7 DEF QueueInv
  <2>4. CASE rpc[f][c] = "ok" /\ c = round
    <3>1. f \notin Range(prioQueue) \cup Range(receiver)
      BY <1>1, <2>3, <2>4 DEF Acked
    <3>2. f \in Acked(round)'
      BY <1>2, <2>4 DEF Acked, stage
    <3>3. /\ IsInjective(receiver')
          /\ Range(receiver') = Range(receiver) \cup {f}
      BY <2>3, <2>4, <3>1, QueueAppend DEF TypeOK
    <3> QED
      BY <2>2, <2>3, <3>1, <3>2, <3>3
  <2>5. CASE ~(rpc[f][c] = "ok" /\ c = round)
    BY <2>2, <2>3, <2>5
  <2> QED
    BY <2>4, <2>5
<1>8. QueueInv'
  BY <1>6, <1>7 DEF QueueInv, httpVars
<1> QED
  BY <1>5, <1>8

\* The death of a follower keeps the types and the queues.
LEMMA CrashStep ==
  ASSUME TypeOK, QueueInv, NEW f \in Follower, Crash(f)
  PROVE  TypeOK' /\ QueueInv'
<1> USE DEF Crash
<1>1. rpc' \in [Follower -> [Round -> Stage]]
  BY DEF TypeOK, Stage, Returning
<1>2. TypeOK'
  BY <1>1, ConsensusAssumption DEF TypeOK, httpVars, loopVars
<1>3. \A g \in Follower, d \in Round :
        /\ rpc[g][d] = "idle" => rpc'[g][d] = "idle"
        /\ rpc[g][d] = "acked" => rpc'[g][d] = "acked"
  BY DEF TypeOK, InHandler, Returning
<1>4. loop # "idle" => Acked(round) \subseteq Acked(round)'
  <2> SUFFICES ASSUME loop # "idle"
               PROVE  Acked(round) \subseteq Acked(round)'
    OBVIOUS
  <2>1. round \in Nat /\ round + 1 <= MaxRound
    BY ConstantFacts DEF TypeOK, QueueInv
  <2>2. round \in Round /\ round' = round
    BY <2>1, ConstantFacts DEF Round, loopVars
  <2> QED
    BY <1>3, <2>2 DEF Acked
<1>5. UNCHANGED <<cmdOf, loop, round, answer, prioQueue, receiver>>
  BY DEF httpVars, loopVars
<1>6. loop # "idle" =>
        /\ IsInjective(prioQueue) /\ IsInjective(receiver)
        /\ Range(prioQueue) \cap Range(receiver) = {}
        /\ Range(prioQueue) \cup Range(receiver) \subseteq Acked(round)'
  BY <1>4 DEF QueueInv
<1> HIDE DEF Crash
<1> QED
  BY <1>2, <1>3, <1>5, <1>6 DEF QueueInv

\* The start of a follower keeps the types and the queues.
LEMMA StartStep ==
  ASSUME TypeOK, QueueInv, NEW f \in Follower, Start(f)
  PROVE  TypeOK' /\ QueueInv'
<1> USE DEF Start
<1>1. store[f] \in Store /\ Seed \in Store
  BY ConstantFacts, StoreAssumption DEF TypeOK, Store, Follower
<1>2. Reseeded(store[f]) \in Store
  BY <1>1 DEF Reseeded
<1>3. TypeOK'
  BY <1>2, ConstantFacts DEF TypeOK, httpVars, loopVars, connVars
<1>4. Acked(round)' = Acked(round)
  BY DEF Acked, connVars, loopVars
<1> QED
  BY <1>3, <1>4 DEF QueueInv, httpVars, loopVars, connVars

\* Dialling a missing peer keeps the types and the queues.
LEMMA ConnectStep ==
  ASSUME TypeOK, QueueInv, NEW f \in Follower, ConnectMissingPeer(f)
  PROVE  TypeOK' /\ QueueInv'
<1> USE DEF ConnectMissingPeer
<1>1. TypeOK'
  BY DEF TypeOK, httpVars, loopVars, nodeVars
<1>2. Acked(round)' = Acked(round)
  BY DEF Acked, loopVars
<1> QED
  BY <1>1, <1>2 DEF QueueInv, httpVars, loopVars

\* Every step keeps the types and the queues: one case per action.
LEMMA TypeStep == TypeOK /\ QueueInv /\ [Next]_vars => TypeOK' /\ QueueInv'
<1> SUFFICES ASSUME TypeOK, QueueInv, [Next]_vars
             PROVE  TypeOK' /\ QueueInv'
  OBVIOUS
<1>1. ASSUME NEW c \in Command, SubmitWrite(c)
      PROVE  TypeOK' /\ QueueInv'
  BY <1>1, SubmitStep
<1>2. CASE LoopNext
  BY <1>2, StartRoundStep, ReceiveReplyStep, TimeoutStep, LocalExecStep,
     LateReplyStep, EndDrainStep DEF LoopNext
<1>3. ASSUME NEW f \in Follower, NEW c \in Round, RPCNext(f, c)
      PROVE  TypeOK' /\ QueueInv'
  BY <1>3, SendRPCStep, UpdatePriorityStep, KVExecutorStep, ReturnRPCStep
  DEF RPCNext
<1>4. ASSUME NEW f \in Follower, Crash(f) \/ Start(f) \/ ConnectMissingPeer(f)
      PROVE  TypeOK' /\ QueueInv'
  BY <1>4, CrashStep, StartStep, ConnectStep
<1>5. ASSUME NEW l \in Usurpers, FollowHeartbeat(l)
      PROVE  TypeOK' /\ QueueInv'
  BY <1>5, HeartbeatStep
<1>6. ASSUME NEW n \in Node, RivalPriority(n) \/ RivalExecutor(n)
      PROVE  TypeOK' /\ QueueInv'
  BY <1>6, RivalStep
<1>7. CASE UNCHANGED vars
  <2>1. Acked(round)' = Acked(round)
    BY <1>7 DEF Acked, vars, connVars, loopVars
  <2> QED
    BY <1>7, <2>1 DEF TypeOK, QueueInv, vars, httpVars, loopVars, connVars, nodeVars
<1> QED
  BY <1>1, <1>2, <1>3, <1>4, <1>5, <1>6, <1>7 DEF Next

(***************************************************************************)
(* Every variable keeps its type, for the initial leader and for an        *)
(* elected one; in particular the queues never hold more followers than    *)
(* UpdateFollowerPriorities has ranks for.                                 *)
(***************************************************************************)
THEOREM TypeCorrect == FixedSpec \/ ElectedSpec => []TypeOK
<1>1. FixedSpec => []TypeOK
  BY TypeInit, TypeStep, PTL DEF FixedSpec
<1>2. ElectedSpec => []TypeOK
  BY TypeInit, TypeStep, PTL DEF ElectedSpec
<1> QED
  BY <1>1, <1>2
-----------------------------------------------------------------------------
(* Weights.  The leader is the initial one, follows nobody else, and is    *)
(* sent nobody else's rounds.                                              *)

\* As many ranks are counted as nodes: the leader and those in the queue.
LEMMA CountedSize ==
  ASSUME TypeOK, QueueInv, WeightInv, loop # "idle"
  PROVE  /\ Counted \in SUBSET Rank
         /\ Cardinality(Counted) = Len(prioQueue) + 1
<1> DEFINE S == {Leader} \cup Range(prioQueue)
           g == [n \in S |-> prio[round][n]]
<1>1. prioQueue \in Seq(Follower) /\ IsInjective(prioQueue)
  BY DEF TypeOK, QueueInv
<1>2. /\ IsFiniteSet(Range(prioQueue))
      /\ Cardinality(Range(prioQueue)) = Len(prioQueue)
  BY <1>1, QueueLength
<1>3. Leader \notin Range(prioQueue) /\ S \subseteq Node
  BY <1>1, ConstantFacts DEF Range, Follower
<1>4. IsFiniteSet(S) /\ Cardinality(S) = Len(prioQueue) + 1
  <2>1. S = Range(prioQueue) \cup {Leader}
    OBVIOUS
  <2> QED
    BY <1>2, <1>3, <2>1, FS_AddElement
<1>5. round \in 0 .. round
  BY DEF TypeOK
<1>6. prio[round] \in [Node -> Rank] /\ IsInjective(prio[round])
  BY <1>5 DEF WeightInv, RanksDealtOnce
<1>7. g \in Bijection(S, Counted)
  <2>1. g \in [S -> Counted] /\ \A t \in Counted : \E n \in S : g[n] = t
    BY DEF Counted
  <2>2. \A m, n \in S : g[m] = g[n] => m = n
    BY <1>3, <1>6 DEF IsInjective
  <2> HIDE DEF g, S
  <2>3. IsInjective(g)
    BY <2>1, <2>2 DEF IsInjective
  <2> QED
    BY <2>1, <2>3 DEF Bijection, Injection, Surjection
<1>8. Cardinality(Counted) = Cardinality(S)
  <2> HIDE DEF g, S
  <2> QED
    BY <1>4, <1>7, FS_Bijection DEF ExistsBijection
<1>9. Counted \in SUBSET Rank
  BY <1>3, <1>6 DEF Counted
<1> QED
  BY <1>4, <1>8, <1>9

\* Successful calls stay successful, and there are finitely many.
LEMMA AckedFinite ==
  ASSUME NEW c, NEW A \in SUBSET Acked(c)
  PROVE  IsFiniteSet(A) /\ Cardinality(A) <= Cardinality(Acked(c))
<1>1. IsFiniteSet(Node)
  BY SchemeFacts, FS_Interval DEF Node
<1>2. Acked(c) \subseteq Node
  BY ConstantFacts DEF Acked
<1> QED
  BY <1>1, <1>2, FS_Subset

\* No step takes back an answer: who has answered a round has answered it for good.
LEMMA AckedStays ==
  ASSUME TypeOK, QueueInv, Next, NEW c \in Round
  PROVE  Acked(c) \subseteq Acked(c)'
<1> SUFFICES ASSUME NEW g \in Follower, rpc[g][c] = "acked"
             PROVE  rpc'[g][c] = "acked"
  BY DEF Acked
<1>1. rpc \in [Follower -> [Round -> Stage]]
  BY DEF TypeOK
<1>2. ASSUME NEW d \in Command, SubmitWrite(d)
      PROVE  rpc' = rpc
  BY <1>2 DEF SubmitWrite, connVars
<1>3. ASSUME StartRound
      PROVE  rpc'[g][c] = rpc[g][c]
  <2>1. round \in Nat /\ Len(cmdOf) = round
    BY <1>3 DEF StartRound, QueueInv, TypeOK
  <2>2. c # round
    <3> SUFFICES ASSUME c = round
                 PROVE  FALSE
      OBVIOUS
    <3>1. c >= Len(cmdOf)
      BY <2>1
    <3> QED
      BY <3>1 DEF QueueInv
  <2> QED
    BY <1>1, <1>3, <2>2 DEF StartRound
<1>4. ASSUME ReceiveReply \/ ConsensusTimeout \/ LocalExec \/ LateReply \/ EndDrain
      PROVE  rpc' = rpc
  BY <1>4 DEF ReceiveReply, ConsensusTimeout, LocalExec, LateReply, EndDrain,
              connVars
<1>5. ASSUME NEW f \in Follower, NEW d \in Round, RPCNext(f, d)
      PROVE  rpc'[g][c] = "acked"
  <2>1. rpc[f][d] # "acked"
    BY <1>5 DEF RPCNext, SendRPC, UpdatePriority, KVExecutor, ReturnRPC, Returning
  <2>2. \E s : rpc' = [rpc EXCEPT ![f][d] = s]
    BY <1>5 DEF RPCNext, SendRPC, UpdatePriority, KVExecutor, ReturnRPC
  <2> QED
    BY <1>1, <2>1, <2>2
<1>6. ASSUME NEW f \in Follower, Crash(f) \/ Start(f) \/ ConnectMissingPeer(f)
      PROVE  rpc'[g][c] = "acked"
  <2>1. CASE Crash(f)
    BY <1>1, <2>1 DEF Crash, InHandler, Returning
  <2>2. CASE Start(f) \/ ConnectMissingPeer(f)
    BY <2>2 DEF Start, ConnectMissingPeer, connVars
  <2> QED
    BY <1>6, <2>1, <2>2
<1>7. ASSUME NEW l \in Usurpers, FollowHeartbeat(l)
      PROVE  rpc' = rpc
  BY <1>7 DEF FollowHeartbeat, connVars
<1>8. ASSUME NEW n \in Node, RivalPriority(n) \/ RivalExecutor(n)
      PROVE  rpc' = rpc
  BY <1>8 DEF RivalPriority, RivalExecutor, connVars
<1> QED
  BY <1>2, <1>3, <1>4, <1>5, <1>6, <1>7, <1>8 DEF Next, LoopNext

\* CommitQuorum of the rounds from the k-th on.
HeldFrom(k) ==
  \A i \in k .. Len(answer) :
    answer[i] # "timeout" => Cardinality(Acked(i-1)) >= T

\* The answered rounds keep the followers that executed them.
LEMMA HeldStays ==
  ASSUME TypeOK, QueueInv, NEW k \in Nat \ {0}, HeldFrom(k), answer' = answer,
         \A c \in Round : Acked(c) \subseteq Acked(c)'
  PROVE  HeldFrom(k)'
<1> SUFFICES ASSUME NEW i \in k .. Len(answer), answer[i] # "timeout"
             PROVE  Cardinality(Acked(i-1))' >= T
  BY DEF HeldFrom
<1>1. i-1 \in Round
  BY ConstantFacts DEF TypeOK, QueueInv, Round
<1>2. Cardinality(Acked(i-1)) >= T
  BY DEF HeldFrom
<1>3. Acked(i-1) \subseteq Acked(i-1)'
  BY <1>1
<1>4. /\ IsFiniteSet(Acked(i-1)')
      /\ Cardinality(Acked(i-1)) <= Cardinality(Acked(i-1)')
  <2>1. IsFiniteSet(Node)
    BY SchemeFacts, FS_Interval DEF Node
  <2>2. Acked(i-1)' \subseteq Node
    BY ConstantFacts DEF Acked
  <2>3. IsFiniteSet(Acked(i-1)')
    BY <2>1, <2>2, FS_Subset
  <2> QED
    BY <1>3, <2>3, FS_Subset
<1>5. Cardinality(Acked(i-1)) \in Nat /\ Cardinality(Acked(i-1)') \in Nat
  BY <1>3, <1>4, FS_Subset, FS_CardinalityType
<1> QED
  BY <1>2, <1>4, <1>5, SchemeFacts

LEMMA QuorumStays ==
  ASSUME TypeOK, QueueInv, CommitQuorum, answer' = answer,
         \A c \in Round : Acked(c) \subseteq Acked(c)'
  PROVE  CommitQuorum'
<1>1. HeldFrom(1)'
  BY HeldStays DEF HeldFrom, CommitQuorum
<1> QED
  BY <1>1 DEF HeldFrom, CommitQuorum

\* The state of a fresh cluster's leader, whose heartbeats nobody contests.
LEMMA WeightInit ==
  ASSUME InitFixed
  PROVE  WeightInv
<1>1. InitCommon /\ Leader = 0 /\ ownRank = Leader
  BY DEF InitFixed
<1>2. \A c \in 0 .. round : c = 0
  BY <1>1 DEF InitCommon
<1>3. prio[0] = InitialRanks
  BY <1>1, ConsensusAssumption DEF InitCommon
<1>4. prio[0] \in [Node -> Rank] /\ IsInjective(prio[0]) /\ prio[0][Leader] = Leader
  BY <1>3, ConstantFacts DEF InitialRanks, IsInjective
<1> QED
  BY <1>1, <1>2, <1>4 DEF InitCommon, WeightInv, RanksDealtOnce

\* A step that does not touch what WeightInv is about.
LEMMA WeightUnchanged ==
  ASSUME TypeOK, QueueInv, WeightInv,
         UNCHANGED <<leaderID, round, prio, ownRank>>,
         \/ UNCHANGED <<loop, prioSum, prioQueue>>
         \/ loop' \in {"idle", "drain"}
  PROVE  WeightInv'
<1>1. CASE UNCHANGED <<loop, prioSum, prioQueue>>
  BY <1>1 DEF WeightInv, RanksDealtOnce, Counted, OverMajority
<1>2. CASE loop' \in {"idle", "drain"}
  BY <1>2 DEF WeightInv, RanksDealtOnce
<1> QED
  BY <1>1, <1>2

\* Opening a round starts the sum at the leader's own weight.
LEMMA WeightStartRound ==
  ASSUME TypeOK, QueueInv, WeightInv, StartRound
  PROVE  WeightInv'
<1> USE DEF StartRound
<1>2. Counted' = {ownRank}
  <2>1. round \in 0 .. round
    BY DEF TypeOK
  <2>2. prio[round][Leader] = ownRank
    BY <2>1 DEF WeightInv, RanksDealtOnce
  <2>3. Range(prioQueue') = {}
    BY EmptyQueue
  <2> QED
    BY <2>2, <2>3 DEF Counted
<1>3. prioSum' = RankWeight(Counted')
  <2>1. ownRank \in Rank
    BY SchemeFacts DEF WeightInv
  <2> QED
    BY <1>2, <2>1, RankWeightSingle DEF Weight
<1> QED
  BY <1>3 DEF WeightInv, RanksDealtOnce

\* Counting a reply adds the weight of a follower not counted before.
LEMMA WeightReceiveReply ==
  ASSUME TypeOK, QueueInv, WeightInv, ReceiveReply
  PROVE  WeightInv'
<1> USE DEF ReceiveReply
<1> DEFINE sid == Head(receiver)
           r == prio[round][sid]
<1>2. /\ receiver \in Seq(Follower) /\ receiver # << >>
      /\ prioQueue \in Seq(Follower)
      /\ Range(prioQueue) \cap Range(receiver) = {}
  BY DEF TypeOK, QueueInv
<1>3. sid \in Follower /\ sid \notin Range(prioQueue)
  BY <1>2, QueueTail
<1>4. Range(prioQueue') = Range(prioQueue) \cup {sid}
  BY <1>2, <1>3, QueueAppend
<1>5. round \in 0 .. round /\ round' = round /\ prio' = prio
  BY DEF TypeOK
<1>6. prio[round] \in [Node -> Rank] /\ IsInjective(prio[round])
  BY <1>5 DEF WeightInv, RanksDealtOnce
<1>7. Counted' = Counted \cup {r}
  BY <1>4, <1>5 DEF Counted
<1>8. r \in Rank /\ r \notin Counted /\ Counted \in SUBSET Rank
  <2>1. r \in Rank
    BY <1>3, <1>6, ConstantFacts
  <2>2. \A n \in {Leader} \cup Range(prioQueue) : n \in Node /\ n # sid
    BY <1>2, <1>3, ConstantFacts DEF Range, Follower
  <2>3. \A n \in {Leader} \cup Range(prioQueue) : prio[round][n] # r
    BY <1>3, <1>6, <2>2, ConstantFacts DEF IsInjective
  <2>4. Counted \in SUBSET Rank
    BY <1>6, <2>2 DEF Counted
  <2> QED
    BY <2>1, <2>3, <2>4 DEF Counted
<1>9. prioSum' = RankWeight(Counted')
  <2>1. prioSum' = prioSum + Scheme[r]
    BY <1>8 DEF Weight
  <2>2. prioSum = RankWeight(Counted)
    BY DEF WeightInv
  <2> HIDE DEF r
  <2> QED
    BY <1>7, <1>8, <2>1, <2>2, RankWeightAdd
<1>10. loop' = IF OverMajority(prioSum') THEN "commit" ELSE "wait"
  OBVIOUS
<1>11. OverMajority(prioSum)' = OverMajority(prioSum')
  BY DEF OverMajority
<1> HIDE DEF ReceiveReply
<1>12. UNCHANGED <<leaderID, ownRank>>
  BY DEF ReceiveReply
<1> QED
  BY <1>5, <1>9, <1>10, <1>11, <1>12 DEF WeightInv, RanksDealtOnce

\* The answer of a round that timed out, or that T followers have acked.
LEMMA HeldAnswer ==
  ASSUME TypeOK, QueueInv, NEW k \in Nat \ {0}, HeldFrom(k),
         NEW a, answer' = Append(answer, a),
         loop \in {"wait", "commit"}, rpc' = rpc,
         a = "timeout" \/ Cardinality(Acked(round)) >= T \/ round + 1 < k
  PROVE  HeldFrom(k)'
<1>1. answer \in Seq({"ok", "failed", "timeout"}) /\ Len(answer) = round /\ round \in Nat
  BY DEF TypeOK, QueueInv
<1>2. /\ Len(answer') = round + 1
      /\ \A i \in 1 .. round : answer'[i] = answer[i]
      /\ answer'[round + 1] = a
  BY <1>1
<1>3. \A c : Acked(c)' = Acked(c)
  BY DEF Acked
<1> SUFFICES ASSUME NEW i \in k .. Len(answer'), answer'[i] # "timeout"
             PROVE  Cardinality(Acked(i-1)) >= T
  BY <1>3 DEF HeldFrom
<1>4. CASE i \in 1 .. round
  BY <1>1, <1>2, <1>4 DEF HeldFrom
<1>5. CASE i = round + 1
  <2>1. i - 1 = round
    BY <1>1, <1>5
  <2> QED
    BY <1>1, <1>2, <1>5, <2>1
<1> QED
  BY <1>1, <1>2, <1>4, <1>5

LEMMA QuorumAnswer ==
  ASSUME TypeOK, QueueInv, CommitQuorum, NEW a, answer' = Append(answer, a),
         loop \in {"wait", "commit"}, rpc' = rpc,
         a = "timeout" \/ Cardinality(Acked(round)) >= T
  PROVE  CommitQuorum'
<1>1. HeldFrom(1)'
  BY HeldAnswer DEF HeldFrom, CommitQuorum
<1> QED
  BY <1>1 DEF HeldFrom, CommitQuorum

\* The re-ranking deals every rank once again.
LEMMA WeightEndDrain ==
  ASSUME TypeOK, QueueInv, WeightInv, EndDrain
  PROVE  WeightInv'
<1> USE DEF EndDrain
<1>2. /\ prioQueue \in Seq(Node \ {Leader}) /\ IsInjective(prioQueue)
      /\ leaderID = Leader /\ Leader \in Node
  BY ConstantFacts DEF TypeOK, QueueInv, WeightInv, Follower
<1>3. Reranked(prioQueue, leaderID) # {}
  BY <1>2, RerankedExists
<1>4. PICK r \in Reranked(prioQueue, leaderID) :
        prio' = [prio EXCEPT ![round + 1] = r]
  BY <1>3
<1>5. r \in [Node -> Rank] /\ IsInjective(r) /\ r[Leader] = 0
  BY <1>2, RerankedDistinct
<1>6. /\ prio \in [0 .. MaxRound -> [Node -> Rank \cup {NoRank}]]
      /\ round \in Nat /\ round + 1 \in 0 .. MaxRound
      /\ 0 \in 0 .. round
  BY DEF TypeOK, QueueInv
<1>7. ownRank = 0
  BY DEF WeightInv
<1>8. \A c \in 0 .. round + 1 : /\ prio'[c] \in [Node -> Rank]
                                /\ IsInjective(prio'[c])
                                /\ prio'[c][Leader] = ownRank
  BY <1>4, <1>5, <1>6, <1>7 DEF WeightInv, RanksDealtOnce
<1> QED
  BY <1>8 DEF WeightInv, RanksDealtOnce

\* Every step keeps the sum equal to the weights of the nodes counted.
LEMMA WeightStep ==
  ASSUME Usurpers = {}, Rivals = {}, TypeOK, QueueInv, WeightInv, [Next]_vars
  PROVE  WeightInv'
<1>1. CASE UNCHANGED vars
  BY <1>1, WeightUnchanged DEF vars, loopVars
<1>2. ASSUME NEW c \in Command, SubmitWrite(c)
      PROVE  WeightInv'
  BY <1>2, WeightUnchanged DEF SubmitWrite, loopVars
<1>3. CASE StartRound
  BY <1>3, WeightStartRound
<1>4. CASE ReceiveReply
  BY <1>4, WeightReceiveReply
<1>5. CASE ConsensusTimeout \/ LocalExec \/ LateReply
  BY <1>5, WeightUnchanged DEF ConsensusTimeout, LocalExec, LateReply
<1>6. CASE EndDrain
  BY <1>6, WeightEndDrain
<1>7. ASSUME NEW f \in Follower, NEW c \in Round, RPCNext(f, c)
      PROVE  WeightInv'
  BY <1>7, WeightUnchanged
  DEF RPCNext, SendRPC, UpdatePriority, KVExecutor, ReturnRPC, loopVars
<1>8. ASSUME NEW f \in Follower, Crash(f) \/ Start(f) \/ ConnectMissingPeer(f)
      PROVE  WeightInv'
  BY <1>8, WeightUnchanged DEF Crash, Start, ConnectMissingPeer, loopVars
<1>9. ~(\E n \in Node : RivalPriority(n) \/ RivalExecutor(n))
  BY DEF RivalPriority, RivalExecutor
<1> QED
  BY <1>1, <1>2, <1>3, <1>4, <1>5, <1>6, <1>7, <1>8, <1>9 DEF Next, LoopNext

\* The inductive invariant holds in every state of a reign.
LEMMA WeightsHold ==
  ASSUME Usurpers = {}, Rivals = {}
  PROVE  FixedSpec => [](TypeOK /\ QueueInv /\ WeightInv)
<1>1. InitFixed => TypeOK /\ QueueInv /\ WeightInv
  BY TypeInit, WeightInit
<1>2. TypeOK /\ QueueInv /\ WeightInv /\ [Next]_vars
        => TypeOK' /\ QueueInv' /\ WeightInv'
  BY TypeStep, WeightStep
<1> QED
  BY <1>1, <1>2, PTL DEF FixedSpec

(***************************************************************************)
(* The weights the uncontested initial leader counts in a round belong to  *)
(* different ranks, its own included.                                      *)
(***************************************************************************)
THEOREM WeightsCountedOnce ==
  ASSUME Usurpers = {}, Rivals = {}
  PROVE  FixedSpec => []RanksDealtOnce
<1>1. WeightInv => RanksDealtOnce
  BY DEF WeightInv
<1> QED
  BY <1>1, WeightsHold, PTL

(***************************************************************************)
(* In a cluster of more than one node the uncontested initial leader never *)
(* goes on waiting once N-T nodes, itself included, have the command.      *)
(***************************************************************************)
THEOREM NeverWaitsForMoreThanQuorum ==
  ASSUME Usurpers = {}, Rivals = {}, N > 1
  PROVE  FixedSpec => []WaitMeansTooFew
<1>1. ASSUME TypeOK, QueueInv, WeightInv, loop = "wait"
      PROVE  Len(prioQueue) + 1 < N - T
  <2>1. prioQueue \in Seq(Follower) /\ Len(prioQueue) \in Nat
    BY <1>1 DEF TypeOK
  <2>2. CASE prioQueue = << >>
    <3>1. T < N - 1
      BY ToleranceBound
    <3>2. Len(prioQueue) = 0
      BY <2>2
    <3> QED
      BY <3>1, <3>2, SchemeFacts
  <2>3. CASE ~OverMajority(prioSum)
    <3>1. Counted \in SUBSET Rank /\ Cardinality(Counted) = Len(prioQueue) + 1
      BY <1>1, CountedSize
    <3>2. prioSum = RankWeight(Counted)
      BY <1>1 DEF WeightInv
    <3>3. ~(Cardinality(Counted) >= N - T)
      BY <2>3, <3>1, <3>2, EnoughAlwaysCommit
    <3> QED
      BY <2>1, <3>1, <3>3, SchemeFacts
  <2> QED
    BY <1>1, <2>2, <2>3 DEF WeightInv
<1>2. TypeOK /\ QueueInv /\ WeightInv => WaitMeansTooFew
  BY <1>1 DEF WaitMeansTooFew
<1> QED
  BY <1>2, WeightsHold, PTL
-----------------------------------------------------------------------------
(* What is left of the quorum under an elected leader, or one that follows *)
(* another node's heartbeats, whatever rounds of other loops are served.   *)

\* The sum is compared when a reply is read, so the loop leaves the wait with a
\* follower counted.
ReplyInv == loop = "commit" => prioQueue # << >>

\* No step but the reading of a reply begins a commit.
LEMMA ReplyStep == TypeOK /\ ReplyInv /\ [Next]_vars => ReplyInv'
<1> SUFFICES ASSUME TypeOK, ReplyInv, [Next]_vars
             PROVE  ReplyInv'
  OBVIOUS
<1>1. CASE ReceiveReply
  <2>1. /\ prioQueue \in Seq(Follower)
        /\ Head(receiver) \in Follower
        /\ prioQueue' = Append(prioQueue, Head(receiver))
    BY <1>1, QueueTail DEF ReceiveReply, TypeOK
  <2>2. Len(prioQueue') = Len(prioQueue) + 1 /\ Len(prioQueue) \in Nat
    BY <2>1, QueueAppend
  <2>3. prioQueue' # << >>
    BY <2>2, EmptyQueue
  <2> QED
    BY <2>3 DEF ReplyInv
<1>2. ASSUME NEW c \in Command, SubmitWrite(c)
      PROVE  ReplyInv'
  BY <1>2 DEF SubmitWrite, ReplyInv, loopVars
<1>3. CASE StartRound \/ ConsensusTimeout \/ LocalExec \/ LateReply \/ EndDrain
  BY <1>3 DEF StartRound, ConsensusTimeout, LocalExec, LateReply, EndDrain, ReplyInv
<1>4. ASSUME NEW f \in Follower, NEW c \in Round, RPCNext(f, c)
      PROVE  ReplyInv'
  BY <1>4 DEF RPCNext, SendRPC, UpdatePriority, KVExecutor, ReturnRPC, ReplyInv,
              loopVars
<1>5. ASSUME NEW f \in Follower, Crash(f) \/ Start(f) \/ ConnectMissingPeer(f)
      PROVE  ReplyInv'
  BY <1>5 DEF Crash, Start, ConnectMissingPeer, ReplyInv, loopVars
<1>6. ASSUME NEW l \in Usurpers, FollowHeartbeat(l)
      PROVE  ReplyInv'
  BY <1>6 DEF FollowHeartbeat, ReplyInv
<1>7. ASSUME NEW n \in Node, RivalPriority(n) \/ RivalExecutor(n)
      PROVE  ReplyInv'
  BY <1>7 DEF RivalPriority, RivalExecutor, ReplyInv, loopVars
<1>8. CASE UNCHANGED vars
  BY <1>8 DEF vars, loopVars, ReplyInv
<1> QED
  BY <1>1, <1>2, <1>3, <1>4, <1>5, <1>6, <1>7, <1>8 DEF Next, LoopNext

\* What the loop appends to the answers: one entry, in the steps that end a round.
LEMMA AnswerSteps ==
  ASSUME TypeOK, QueueInv, [Next]_vars
  PROVE  \/ answer' = answer /\ ~LocalExec
         \/ ConsensusTimeout /\ answer' = Append(answer, "timeout")
         \/ LocalExec /\ \E a \in {"ok", "failed"} : answer' = Append(answer, a)
<1>1. ASSUME answer' = answer
      PROVE  ~LocalExec
  <2>1. ~\E a : answer' = Append(answer, a)
    BY <1>1 DEF TypeOK
  <2> QED
    BY <2>1 DEF LocalExec
<1>2. CASE UNCHANGED vars
  BY <1>1, <1>2 DEF vars, httpVars
<1>3. ASSUME NEW c \in Command, SubmitWrite(c)
      PROVE  answer' = answer
  BY <1>3 DEF SubmitWrite
<1>4. CASE ConsensusTimeout
  BY <1>4 DEF ConsensusTimeout
<1>5. CASE LocalExec
  BY <1>5 DEF LocalExec
<1>6. ASSUME StartRound \/ ReceiveReply \/ LateReply \/ EndDrain
      PROVE  answer' = answer
  BY <1>6 DEF StartRound, ReceiveReply, LateReply, EndDrain, httpVars
<1>7. ASSUME NEW f \in Follower, NEW c \in Round, RPCNext(f, c)
      PROVE  answer' = answer
  BY <1>7 DEF RPCNext, SendRPC, UpdatePriority, KVExecutor, ReturnRPC, httpVars
<1>8. ASSUME NEW f \in Follower, Crash(f) \/ Start(f) \/ ConnectMissingPeer(f)
      PROVE  answer' = answer
  BY <1>8 DEF Crash, Start, ConnectMissingPeer, httpVars
<1>9. ASSUME NEW l \in Usurpers, FollowHeartbeat(l)
      PROVE  answer' = answer
  BY <1>9 DEF FollowHeartbeat, httpVars
<1>10. ASSUME NEW n \in Node, RivalPriority(n) \/ RivalExecutor(n)
       PROVE  answer' = answer
  BY <1>10 DEF RivalPriority, RivalExecutor, httpVars
<1> QED
  BY <1>1, <1>2, <1>3, <1>4, <1>5, <1>6, <1>7, <1>8, <1>9, <1>10
  DEF Next, LoopNext

\* An answer other than a timeout has at least one follower behind it.
LEMMA OneFollowerStep ==
  ASSUME T <= 1
  PROVE  TypeOK /\ QueueInv /\ ReplyInv /\ CommitQuorum /\ [Next]_vars
           => CommitQuorum'
<1> SUFFICES ASSUME TypeOK, QueueInv, ReplyInv, CommitQuorum, [Next]_vars
             PROVE  CommitQuorum'
  OBVIOUS
<1>1. CASE UNCHANGED vars
  BY <1>1 DEF vars, httpVars, connVars, CommitQuorum, Acked
<1>2. CASE ConsensusTimeout
  BY <1>2, QuorumAnswer DEF ConsensusTimeout, connVars
<1>3. CASE LocalExec
  <2>1. /\ loop = "commit" /\ rpc' = rpc
        /\ answer' = Append(answer, IF ExecOK(store[Leader], Current)
                                    THEN "ok" ELSE "failed")
    BY <1>3 DEF LocalExec, connVars
  <2>2. prioQueue \in Seq(Follower) /\ prioQueue # << >>
    BY <2>1 DEF ReplyInv, TypeOK
  <2>3. Head(prioQueue) \in Range(prioQueue)
    BY <2>2, QueueTail
  <2>4. {Head(prioQueue)} \in SUBSET Acked(round)
    BY <2>1, <2>3 DEF QueueInv
  <2>5. Cardinality({Head(prioQueue)}) = 1
    BY FS_Singleton
  <2>6. Cardinality(Acked(round)) \in Nat
    <3>1. Acked(round) \in SUBSET Acked(round)
      OBVIOUS
    <3> QED
      BY <3>1, AckedFinite, FS_CardinalityType
  <2>7. Cardinality(Acked(round)) >= T
    BY <2>4, <2>5, <2>6, AckedFinite, SchemeFacts
  <2> QED
    BY <2>1, <2>7, QuorumAnswer
<1>4. ASSUME Next, ~ConsensusTimeout, ~LocalExec
      PROVE  CommitQuorum'
  <2>1. \A c \in Round : Acked(c) \subseteq Acked(c)'
    BY <1>4, AckedStays
  <2>2. answer' = answer
    BY <1>4, AnswerSteps
  <2> QED
    BY <2>1, <2>2, QuorumStays
<1> QED
  BY <1>1, <1>2, <1>3, <1>4

(***************************************************************************)
(* In a cluster that tolerates one failure the quorum holds for elected    *)
(* leaders too, whosever heartbeats they follow and rounds they serve: a   *)
(* write reported with a result has been executed by a follower, for the   *)
(* sum of the weights is looked at only when one has answered.  With a     *)
(* tolerance of two it does not hold.                                      *)
(***************************************************************************)
THEOREM ToleratingOneIsHeld ==
  ASSUME T <= 1
  PROVE  FixedSpec \/ ElectedSpec => []CommitQuorum
<1>1. InitFixed \/ InitElected => TypeOK /\ QueueInv /\ ReplyInv /\ CommitQuorum
  <2>1. InitFixed \/ InitElected => InitCommon
    BY DEF InitFixed, InitElected
  <2>2. InitCommon => ReplyInv /\ CommitQuorum
    BY DEF InitCommon, ReplyInv, CommitQuorum
  <2> QED
    BY <2>1, <2>2, TypeInit
<1>2. TypeOK /\ QueueInv /\ ReplyInv /\ CommitQuorum /\ [Next]_vars
        => TypeOK' /\ QueueInv' /\ ReplyInv' /\ CommitQuorum'
  BY TypeStep, ReplyStep, OneFollowerStep
<1> QED
  BY <1>1, <1>2, PTL DEF FixedSpec, ElectedSpec

-----------------------------------------------------------------------------
(* Weights of a leader that follows nobody else.  It counts the weight its *)
(* PriorityState holds when the round begins, whoever's round has left it  *)
(* there and whatever it becomes while the round lasts.                    *)

\* The ranks of the followers counted so far.
Replied == {prio[round][f] : f \in Range(prioQueue)}

\* Rank 0 is the leader's, except in the first round of an elected leader.
KeepsRank0(c) == c > 0 \/ Leader = 0

ShareInv ==
  /\ leaderID = Leader
  /\ \A c \in 0 .. round : /\ prio[c] \in [Node -> Rank] /\ IsInjective(prio[c])
                           /\ KeepsRank0(c) => prio[c][Leader] = 0
  /\ loop \in {"wait", "commit"} => prioSum <= Scheme[0] + RankWeight(Replied)
  /\ loop = "commit" => OverMajority(prioSum)

\* No weight is more than that of rank 0.
LEMMA TopWeight ==
  ASSUME NEW r \in Rank \cup {NoRank}
  PROVE  /\ Weight(r) \in Nat /\ Scheme[0] \in Nat
         /\ Weight(r) <= Scheme[0]
BY SchemeFacts, WeightType DEF Weight, Rank

\* As many ranks as followers are counted, not the leader's among them.
LEMMA RepliedSize ==
  ASSUME TypeOK, QueueInv, ShareInv, loop # "idle"
  PROVE  /\ Replied \in SUBSET Rank
         /\ Cardinality(Replied) = Len(prioQueue)
         /\ KeepsRank0(round) => 0 \notin Replied
<1> DEFINE S == Range(prioQueue)
           g == [n \in S |-> prio[round][n]]
<1>1. prioQueue \in Seq(Follower) /\ IsInjective(prioQueue)
  BY DEF TypeOK, QueueInv
<1>2. IsFiniteSet(S) /\ Cardinality(S) = Len(prioQueue)
  BY <1>1, QueueLength
<1>3. S \subseteq Node \ {Leader} /\ Leader \in Node
  BY <1>1, ConstantFacts DEF Range, Follower
<1>4. round \in 0 .. round
  BY DEF TypeOK
<1>5. /\ prio[round] \in [Node -> Rank] /\ IsInjective(prio[round])
      /\ KeepsRank0(round) => prio[round][Leader] = 0
  BY <1>4 DEF ShareInv
<1>6. g \in Bijection(S, Replied)
  <2>1. g \in [S -> Replied] /\ \A t \in Replied : \E n \in S : g[n] = t
    BY DEF Replied
  <2>2. \A m, n \in S : g[m] = g[n] => m = n
    BY <1>3, <1>5 DEF IsInjective
  <2> HIDE DEF g, S
  <2>3. IsInjective(g)
    BY <2>1, <2>2 DEF IsInjective
  <2> QED
    BY <2>1, <2>3 DEF Bijection, Injection, Surjection
<1>7. Cardinality(Replied) = Cardinality(S)
  <2> HIDE DEF g, S
  <2> QED
    BY <1>2, <1>6, FS_Bijection DEF ExistsBijection
<1>8. Replied \in SUBSET Rank
  BY <1>3, <1>5 DEF Replied
<1>9. KeepsRank0(round) => 0 \notin Replied
  BY <1>3, <1>5 DEF Replied, IsInjective
<1> QED
  BY <1>2, <1>7, <1>8, <1>9

(***************************************************************************)
(* What ends a round: T followers at least, for the leader's own weight,   *)
(* whatever it is, is at most that of rank 0, which no follower holds.     *)
(***************************************************************************)
LEMMA ShareCommit ==
  ASSUME TypeOK, QueueInv, ShareInv, loop = "commit", KeepsRank0(round)
  PROVE  Len(prioQueue) >= T
<1>1. /\ Replied \in SUBSET Rank /\ Cardinality(Replied) = Len(prioQueue)
      /\ 0 \notin Replied
      /\ IsFiniteSet(Replied)
  BY RepliedSize, RankFinite
<1>2. /\ 0 \in Rank /\ Scheme[0] \in Nat
      /\ Len(prioQueue) \in Nat /\ T \in Nat /\ prioSum \in Nat
  BY SchemeFacts DEF TypeOK
<1>3. RankWeight(Replied) \in Nat /\ SchemeSum \in Nat
  <2>1. Rank \in SUBSET Rank
    OBVIOUS
  <2> QED
    BY <1>1, <2>1, UnitsFinite DEF SchemeSum
<1>4. RankWeight(Replied \cup {0}) = RankWeight(Replied) + Scheme[0]
  BY <1>1, <1>2, RankWeightAdd
<1>5. OverMajority(RankWeight(Replied \cup {0}))
  BY <1>2, <1>3, <1>4 DEF ShareInv, OverMajority
<1>6. Cardinality(Replied \cup {0}) > T
  BY <1>1, <1>2, <1>5, TooFewNeverCommit
<1>7. Cardinality(Replied \cup {0}) = Len(prioQueue) + 1
  BY <1>1, FS_AddElement
<1> QED
  BY <1>2, <1>6, <1>7

\* The followers whose replies have been read have executed the round.
LEMMA ReadIsAcked ==
  ASSUME TypeOK, QueueInv, loop # "idle"
  PROVE  /\ Cardinality(Acked(round)) \in Nat
         /\ Len(prioQueue) <= Cardinality(Acked(round))
<1>1. prioQueue \in Seq(Follower) /\ IsInjective(prioQueue)
  BY DEF TypeOK, QueueInv
<1>2. /\ Range(prioQueue) \in SUBSET Acked(round)
      /\ Acked(round) \in SUBSET Acked(round)
  BY DEF QueueInv
<1>3. Cardinality(Range(prioQueue)) = Len(prioQueue)
  BY <1>1, QueueLength
<1> QED
  BY <1>2, <1>3, AckedFinite, FS_CardinalityType

\* A leader begins with round 0, which deals node k the rank k.
LEMMA ShareInit ==
  ASSUME InitFixed \/ InitElected
  PROVE  ShareInv
<1>1. InitCommon
  BY DEF InitFixed, InitElected
<1>2. \A c \in 0 .. round : c = 0
  BY <1>1 DEF InitCommon
<1>3. prio[0] = InitialRanks
  BY <1>1, ConsensusAssumption DEF InitCommon
<1>4. /\ prio[0] \in [Node -> Rank] /\ IsInjective(prio[0])
      /\ prio[0][Leader] = Leader
  BY <1>3, ConstantFacts DEF InitialRanks, IsInjective
<1> QED
  BY <1>1, <1>2, <1>4 DEF InitCommon, ShareInv, KeepsRank0

\* The steps that touch neither the ranks nor what is counted, while a sum is.
LEMMA ShareUnchanged ==
  ASSUME TypeOK, ShareInv, UNCHANGED <<leaderID, round, prio>>,
         \/ UNCHANGED <<loop, prioSum, prioQueue>>
         \/ loop' \in {"idle", "drain"}
  PROVE  ShareInv'
<1>1. CASE UNCHANGED <<loop, prioSum, prioQueue>>
  BY <1>1 DEF ShareInv, Replied, OverMajority, KeepsRank0
<1>2. CASE loop' \in {"idle", "drain"}
  BY <1>2 DEF ShareInv, KeepsRank0
<1> QED
  BY <1>1, <1>2

\* Opening a round starts the sum at the weight the leader happens to hold.
LEMMA ShareStartRound ==
  ASSUME TypeOK, ShareInv, StartRound
  PROVE  ShareInv'
<1>1. /\ UNCHANGED <<leaderID, round, prio>>
      /\ loop' = "wait" /\ prioQueue' = << >> /\ prioSum' = Weight(ownRank)
  BY DEF StartRound
<1>2. Replied' = {}
  BY <1>1, EmptyQueue DEF Replied
<1>3. RankWeight({}) = 0
  <2>1. Units({}) = {}
    BY DEF Units
  <2> QED
    BY <2>1, FS_EmptySet DEF RankWeight
<1>4. prioSum' <= Scheme[0] + RankWeight(Replied')
  BY <1>1, <1>2, <1>3, TopWeight DEF TypeOK
<1> QED
  BY <1>1, <1>4 DEF ShareInv, KeepsRank0

\* Counting a reply adds the weight of a follower not counted before.
LEMMA ShareReceiveReply ==
  ASSUME TypeOK, QueueInv, ShareInv, ReceiveReply
  PROVE  ShareInv'
<1> DEFINE sid == Head(receiver)
           r == prio[round][sid]
<1>1. /\ UNCHANGED <<leaderID, round, prio>>
      /\ loop = "wait"
      /\ prioQueue' = Append(prioQueue, sid)
      /\ prioSum' = prioSum + Weight(r)
      /\ loop' = IF OverMajority(prioSum') THEN "commit" ELSE "wait"
  BY DEF ReceiveReply
<1>2. /\ receiver \in Seq(Follower) /\ receiver # << >>
      /\ prioQueue \in Seq(Follower)
      /\ Range(prioQueue) \cap Range(receiver) = {}
  BY DEF TypeOK, QueueInv, ReceiveReply
<1>3. sid \in Follower /\ sid \notin Range(prioQueue)
  BY <1>2, QueueTail
<1>4. Range(prioQueue') = Range(prioQueue) \cup {sid}
  BY <1>1, <1>2, <1>3, QueueAppend
<1>5. round \in 0 .. round
  BY DEF TypeOK
<1>6. prio[round] \in [Node -> Rank] /\ IsInjective(prio[round])
  BY <1>5 DEF ShareInv
<1>7. Replied' = Replied \cup {r}
  BY <1>1, <1>4 DEF Replied
<1>8. r \in Rank /\ r \notin Replied /\ Replied \in SUBSET Rank
  <2>1. r \in Rank
    BY <1>3, <1>6, ConstantFacts
  <2>2. \A n \in Range(prioQueue) : n \in Node /\ n # sid
    BY <1>2, <1>3, ConstantFacts DEF Range, Follower
  <2>3. \A n \in Range(prioQueue) : prio[round][n] # r
    BY <1>3, <1>6, <2>2, ConstantFacts DEF IsInjective
  <2>4. Replied \in SUBSET Rank
    BY <1>6, <2>2 DEF Replied
  <2> QED
    BY <2>1, <2>3, <2>4 DEF Replied
<1>9. prioSum' <= Scheme[0] + RankWeight(Replied')
  <2>1. prioSum' = prioSum + Scheme[r]
    BY <1>1, <1>8 DEF Weight
  <2>2. prioSum <= Scheme[0] + RankWeight(Replied)
    BY <1>1 DEF ShareInv
  <2> HIDE DEF r
  <2>3. RankWeight(Replied \cup {r}) = RankWeight(Replied) + Scheme[r]
    BY <1>8, RankWeightAdd
  <2>4. /\ Scheme[0] \in Nat /\ Scheme[r] \in Nat /\ prioSum \in Nat
        /\ RankWeight(Replied) \in Nat
    BY <1>8, SchemeFacts, UnitsFinite DEF TypeOK
  <2> QED
    BY <1>7, <2>1, <2>2, <2>3, <2>4
<1>10. OverMajority(prioSum)' = OverMajority(prioSum')
  BY DEF OverMajority
<1> HIDE DEF sid, r
<1> QED
  BY <1>1, <1>9, <1>10 DEF ShareInv, KeepsRank0

\* The re-ranking gives the leader rank 0 and the followers the others.
LEMMA ShareEndDrain ==
  ASSUME TypeOK, QueueInv, ShareInv, EndDrain
  PROVE  ShareInv'
<1> USE DEF EndDrain
<1>1. /\ prioQueue \in Seq(Node \ {Leader}) /\ IsInjective(prioQueue)
      /\ leaderID = Leader /\ Leader \in Node
  BY ConstantFacts DEF TypeOK, QueueInv, ShareInv, Follower
<1>2. Reranked(prioQueue, leaderID) # {}
  BY <1>1, RerankedExists
<1>3. PICK r \in Reranked(prioQueue, leaderID) :
        prio' = [prio EXCEPT ![round + 1] = r]
  BY <1>2
<1>4. r \in [Node -> Rank] /\ IsInjective(r) /\ r[Leader] = 0
  BY <1>1, RerankedDistinct
<1>5. /\ prio \in [0 .. MaxRound -> [Node -> Rank \cup {NoRank}]]
      /\ round \in Nat /\ round + 1 \in 0 .. MaxRound
      /\ 0 \in 0 .. round
  BY DEF TypeOK, QueueInv
<1>6. \A c \in 0 .. round + 1 : /\ prio'[c] \in [Node -> Rank]
                                /\ IsInjective(prio'[c])
                                /\ KeepsRank0(c) => prio'[c][Leader] = 0
  BY <1>3, <1>4, <1>5 DEF ShareInv
<1> QED
  BY <1>6 DEF ShareInv, KeepsRank0

\* Every step keeps the sum within the top weight and those of the followers.
LEMMA ShareStep ==
  ASSUME Usurpers = {}, TypeOK, QueueInv, ShareInv, [Next]_vars
  PROVE  ShareInv'
<1>1. CASE UNCHANGED vars
  BY <1>1, ShareUnchanged DEF vars, loopVars
<1>2. ASSUME NEW c \in Command, SubmitWrite(c)
      PROVE  ShareInv'
  BY <1>2, ShareUnchanged DEF SubmitWrite, loopVars
<1>3. CASE StartRound
  BY <1>3, ShareStartRound
<1>4. CASE ReceiveReply
  BY <1>4, ShareReceiveReply
<1>5. CASE ConsensusTimeout \/ LocalExec \/ LateReply
  BY <1>5, ShareUnchanged DEF ConsensusTimeout, LocalExec, LateReply
<1>6. CASE EndDrain
  BY <1>6, ShareEndDrain
<1>7. ASSUME NEW f \in Follower, NEW c \in Round, RPCNext(f, c)
      PROVE  ShareInv'
  BY <1>7, ShareUnchanged
  DEF RPCNext, SendRPC, UpdatePriority, KVExecutor, ReturnRPC, loopVars
<1>8. ASSUME NEW f \in Follower, Crash(f) \/ Start(f) \/ ConnectMissingPeer(f)
      PROVE  ShareInv'
  BY <1>8, ShareUnchanged DEF Crash, Start, ConnectMissingPeer, loopVars
<1>9. ASSUME NEW n \in Node, RivalPriority(n) \/ RivalExecutor(n)
      PROVE  ShareInv'
  BY <1>9, ShareUnchanged DEF RivalPriority, RivalExecutor, loopVars
<1> QED
  BY <1>1, <1>2, <1>3, <1>4, <1>5, <1>6, <1>7, <1>8, <1>9 DEF Next, LoopNext

\* An answer other than a timeout has its T followers, from the first round on
\* in which the leader keeps rank 0.
LEMMA HeldStep ==
  ASSUME NEW k \in {1, 2}, k = 2 \/ Leader = 0,
         TypeOK, QueueInv, ShareInv, HeldFrom(k), [Next]_vars
  PROVE  HeldFrom(k)'
<1>1. CASE UNCHANGED vars
  BY <1>1 DEF vars, httpVars, connVars, HeldFrom, Acked
<1>2. CASE ConsensusTimeout
  BY <1>2, HeldAnswer DEF ConsensusTimeout, connVars
<1>3. CASE LocalExec
  <2>1. /\ loop = "commit" /\ rpc' = rpc
        /\ answer' = Append(answer, IF ExecOK(store[Leader], Current)
                                    THEN "ok" ELSE "failed")
    BY <1>3 DEF LocalExec, connVars
  <2>2. /\ Cardinality(Acked(round)) \in Nat
        /\ Len(prioQueue) <= Cardinality(Acked(round))
    BY <2>1, ReadIsAcked
  <2>3. KeepsRank0(round) => Len(prioQueue) >= T
    BY <2>1, ShareCommit
  <2>4. Len(prioQueue) \in Nat /\ T \in Nat /\ round \in Nat
    BY SchemeFacts DEF TypeOK
  <2>5. Cardinality(Acked(round)) >= T \/ round + 1 < k
    BY <2>2, <2>3, <2>4 DEF KeepsRank0
  <2> QED
    BY <2>1, <2>5, HeldAnswer
<1>4. ASSUME Next, ~ConsensusTimeout, ~LocalExec
      PROVE  HeldFrom(k)'
  <2>1. \A c \in Round : Acked(c) \subseteq Acked(c)'
    BY <1>4, AckedStays
  <2>2. answer' = answer
    BY <1>4, AnswerSteps
  <2> QED
    BY <2>1, <2>2, HeldStays
<1> QED
  BY <1>1, <1>2, <1>3, <1>4

\* The invariants of a leader nobody usurps, and the answers from the k-th on.
LEMMA ShareHolds ==
  ASSUME Usurpers = {}, NEW k \in {1, 2}
  PROVE  /\ InitFixed \/ InitElected
              => TypeOK /\ QueueInv /\ ShareInv /\ HeldFrom(k)
         /\ (k = 2 \/ Leader = 0)
            /\ TypeOK /\ QueueInv /\ ShareInv /\ HeldFrom(k) /\ [Next]_vars
              => TypeOK' /\ QueueInv' /\ ShareInv' /\ HeldFrom(k)'
<1>1. InitFixed \/ InitElected => HeldFrom(k)
  BY DEF InitFixed, InitElected, InitCommon, HeldFrom
<1>2. InitFixed \/ InitElected => TypeOK /\ QueueInv /\ ShareInv
  BY TypeInit, ShareInit
<1> QED
  BY <1>1, <1>2, TypeStep, ShareStep, HeldStep

(***************************************************************************)
(* A write that the initial leader reports with a result has been executed *)
(* by at least T followers, whatever the cluster size, the tolerance, the  *)
(* scheme and the order of the replies, and whatever weights the rounds of *)
(* other leaders leave it, as long as it follows no other's heartbeat.     *)
(***************************************************************************)
THEOREM CommittedIsHeld ==
  ASSUME Usurpers = {}
  PROVE  FixedSpec => []CommitQuorum
<1> DEFINE Inv == TypeOK /\ QueueInv /\ ShareInv /\ HeldFrom(1)
<1>1. InitFixed => Leader = 0 /\ Inv
  BY ShareHolds DEF InitFixed
<1>2. ASSUME Leader = 0
      PROVE  Inv /\ [Next]_vars => Inv'
  BY <1>2, ShareHolds
<1>3. Inv => CommitQuorum
  BY DEF HeldFrom, CommitQuorum
<1>4. CASE Leader = 0
  <2> HIDE DEF Inv
  <2> QED
    BY <1>1, <1>2, <1>3, <1>4, PTL DEF FixedSpec
<1>5. CASE Leader # 0
  <2>1. ~InitFixed
    BY <1>1, <1>5
  <2> QED
    BY <2>1, PTL DEF FixedSpec
<1> QED
  BY <1>4, <1>5

(***************************************************************************)
(* From its second round on the same is true of an elected leader, though  *)
(* it may count any weight there is, and another one in every round: rank  *)
(* 0 is the heaviest and is dealt to none of its followers.  Only in its   *)
(* first round does a follower hold that rank, too.                        *)
(***************************************************************************)
THEOREM LaterRoundsAreHeld ==
  ASSUME Usurpers = {}
  PROVE  ElectedSpec => []HeldFrom(2)
<1>1. /\ InitElected => TypeOK /\ QueueInv /\ ShareInv /\ HeldFrom(2)
      /\ TypeOK /\ QueueInv /\ ShareInv /\ HeldFrom(2) /\ [Next]_vars
           => TypeOK' /\ QueueInv' /\ ShareInv' /\ HeldFrom(2)'
  BY ShareHolds
<1> QED
  BY <1>1, PTL DEF ElectedSpec
=============================================================================
