# Cabinet KV store: TLA+ models, checks and proofs

The repository is a small replicated key-value store ("customers") in Go. One
node leads, takes writes from HTTP handlers through a channel, replicates each
in a *round* of the Cabinet protocol (a quorum of weights, re-dealt every round
in the order in which followers replied), and every node applies the commands
to a MongoDB database of its own. Leaders are chosen by a Raft-style election.
Nothing but the databases survives a restart.

All paths below are under `src/server/` unless they begin with `src/`.

## 1. Inventory

| Component | Code | State | Operations |
|---|---|---|---|
| Priority manager | `cabinet/smr/pmgr.go` | `scheme`, `majority`, weights per round `m` | `Init` (ratio search), `UpdateFollowerPriorities`, `GetFollowerPriorities` |
| Consensus loop | `cabinet/consensus.go`, `conns.go`, `types.go` | `leaderPClock`, `receiver`, `prioQueue`, `prioSum`, `conns.m`, `jobQ` | `RunConsensus`, one `executeRPC` goroutine per follower and round |
| Follower service | `cabinet/service.go`, `smr/priority.go` | `PrioClock`, `PrioVal` | `ConsensusService` = `UpdatePriority`, then `KVExecutor` |
| KV executor | `main.go` `makeKVExecutor` | the collection of one node | INSERT, REPLACE, DELETE |
| Election and heartbeats | `cabinet/election.go`, `heartbeat.go`, `service.go`, `smr/state.go` | `term`, `votedForTerm`, `leaderID`, the monitor's clock | `StartHeartbeatMonitor`, `StartElection`, `RequestVote`, `RunHeartbeat`, `Heartbeat` |
| Peer connections | `cabinet/primary.go` | `conns.m` | `EstablishRPCs`, `EstablishRPCsBestEffort`, `tryConnectMissingPeers` |
| HTTP handlers | `controllers/router.go` | `CmdCh` | `submitWrite`, the reads |
| Gateway | `main.go` | `currentLeaderID` | `forwardWrite`, `tryNode`, `discoverLeader` |
| Node startup | `main.go` `main`, `startNode` | the flags, the role of the node | `initCabinetPriority`, `onTimeout`, `onDeposed` |
| Database | `database/db.go` | the collections | `ConnectMongoDB`, `SeedDatabaseFromCSV` |
| Client | `src/client/` | the customer in the update menu | the five operations of the menu |
| Scripts, tests | `src/*.js`, `src/*.sh` | none of the system's | drive it over HTTP |

**How they interact.** The client asks the gateway, the gateway asks the node
it takes for the leader and, if that fails, the one that says it is. A handler
there sends a `KVCommand` on `CmdCh` (capacity 100) and blocks on its
`ReplyCh`. `RunConsensus` takes one command at a time and spawns an RPC
goroutine per entry of `conns.m`; the goroutines of one follower pass a token
from round to round through `jobQ`, and push successful replies into the
round's `receiver`. A follower applies the command at once. When the weights of
the replies and the leader's own exceed half of the sum the leader applies the
command and answers; after 5 s it answers with an error instead. For 200 ms
more it drains replies, then re-deals the weights around the `leaderID` of
`ServerState` -- which the `Heartbeat` handler of the same node writes. The
monitor, the handlers, `StartElection` and `RunHeartbeat` share `ServerState`,
each field behind a lock, no two accesses behind the same one. A loop never
ends: a node that is elected again has two, on one `cmdCh` and one `conns.m`.

**What is hard here.** RPCs of several rounds in flight to one follower;
replies, timeouts and drain windows that race; followers that execute what the
leader then gives up; crashes in the middle of a call; peers that join in the
middle of a reign; elected leaders whose clock restarts at 0 and whose weight is
stale; handlers that interleave inside one node; a leader that is deposed, or
merely follows a heartbeat, while its loop goes on sending rounds to the nodes
of its successor, and is elected again; docks
replaced while rounds use them; a handler that checks `CmdCh` and sends on it
later; a gateway that retries and a client that edits a copy; a database that
is seeded again; a ratio search that need not end. `PROJECT.json` lists each at
its line under `hazards`.

**What makes each component correct.**

* Weights: the search ends at weights in descending order of which the `t+1`
  heaviest are a quorum and the `t` heaviest are not (I1, I2); every round
  deals each rank to at most one node.
* Loop: no commit without `t` followers; no waiting once `n-t` nodes have the
  command; every command answered.
* Connections: every follower executes the rounds in order, and every goroutine
  gets its turn; nobody keeps a dock's lock.
* Replicas: the same rounds executed, the same documents; restarts neither lose
  nor revive any.
* Election: one vote per voter and term; a leader falls only to a higher term;
  elections end.
* Handlers: `/status` tells who leads; a handler hangs on no channel.
* Gateway and client: what a client has been told is saved stays saved; a POST
  opens one account; a read brings what was confirmed; no balance is negative.

## 2. Modules

* `Priorities` -- the weights in use. A node is described by the *rank* it
  holds, the index of its weight in the scheme; the ranks follow the code's
  integer indices exactly and the weight is looked up in `Scheme`, scaled to
  natural numbers. `Reranked` is the *set* of results of
  `UpdateFollowerPriorities`, since Go iterates its map in any order; it is
  empty where the code returns its error.
* `RatioSearch` -- the weights as `PriorityManager.Init` computes them from a
  ratio, and the condition by which `calcInitPrioRatio` accepts one. Powers and
  sums are recursive functions, so that the proofs reach them.
* `Startup` -- one node from its command line to the moment it leads or
  follows, its deaths and launches, and its collection.
* `KVStore` -- one database: what a command does, when it fails, and the
  seeding on start.
* `WriteService` -- the abstract specification: one sequence of accepted
  writes, followers that apply growing prefixes of it, at most one write that
  is not answered yet, and an answer other than a timeout only when `T`
  followers have applied the write.
* `Consensus` -- one *reign*: the loop, its goroutines, connections, followers
  and databases, from the moment a node enters `RunConsensus`. `FixedSpec`
  starts as node 0 does, after `EstablishRPCs`; `ElectedSpec` as the winner of
  an election does the first time: some peers docked, clocks and weights where
  the last leader left them, and its own weight whatever it was given as a
  follower.
* `Election` -- the roles of all nodes, the terms and votes, and every vote and
  heartbeat call under way.
* `Reigns` -- one process through several reigns: `CmdCh` and the handlers,
  the loops of all its reigns, docks that are replaced, and the channels and
  locks of their goroutines.
* `Gateway` -- the whole system as clients see it: menus, gateway, handlers,
  loops, collections, leaders and processes that come and go.
* `MCConsensus`, `MCStartup`, `MCReigns`, `MCGateway` -- the instances.
* `PrioritiesProofs`, `ConsensusProofs`, `OrderProofs`, `ElectionProofs`,
  `RatioProofs`, `StartupProofs`, `ReignsProofs`, `GatewayProofs` -- the
  theorems. `RatioProofs` holds what the others need of the ratio search, and
  instantiates `Priorities` with the weights it finds.

`Consensus` uses `Priorities`, `KVStore` and `WriteService`; `Startup` uses
`RatioSearch`; `Gateway` uses `KVStore`. The modules meet at named abstractions
of each other: `FollowHeartbeat` and `ElectedSpec` in `Consensus` are what
`Election` does to a loop, `RivalPriority` and `RivalExecutor` what the loop of
another leader does, `Win`, `Deposed` and `Rejected` in `Gateway` and
`Reigns` are `Election`'s winners and depositions, `Take`, `Commit` and
`TimeOut` in `Gateway` are the rounds of `Consensus`.

Definitions headed "Mutant" are plausible mistakes in the definition that
follows them; they are not part of the specifications and show that the
properties can fail.

### Consensus and the code

| Action | Code |
|---|---|
| `SubmitWrite` | `submitWrite` on the leader |
| `StartRound` | the head of the loop: `receiver` and `prioQueue` made, one goroutine per dock, own weight counted |
| `ReceiveReply`, `ConsensusTimeout` | the two cases of `waitLoop` |
| `LocalExec` | `localExec` and the send on `ReplyCh` |
| `LateReply`, `EndDrain` | `drainLoop`; the re-ranking and `leaderPClock++` |
| `SendRPC`, `ReturnRPC` | `executeRPC` up to `Call`, and after it |
| `UpdatePriority`, `KVExecutor` | the two halves of `ConsensusService` |
| `Crash`, `Start` | a follower's process; `startNode` seeds an empty database and resets the clock |
| `ConnectMissingPeer` | one successful dial of `tryConnectMissingPeers` |
| `FollowHeartbeat` | `Heartbeat` stores another leader's id in this node's state |
| `RivalPriority`, `RivalExecutor` | the two halves of `ConsensusService` when another node's loop calls it, on this node or on a follower of it |

`executed` is a history variable: the rounds each node's executor has run.

`Usurpers` are the nodes whose heartbeats this node follows, `Rivals` those whose
loops send rounds of their own, for a loop outlives the leadership it was started
in. A rival's rounds come at any time and with any command, with clocks up to
`LastClock`. At a follower they move its clock and change its collection. At
this node they change its collection and `ownRank`, since `ConsensusService` and
`RunConsensus` share one `PriorityState`: the weight may be any in the scheme,
the heaviest too, which a loop that re-ranks around this node sends it, or none,
after a re-ranking that failed. The same holds of the weight an elected leader
starts with.

Abstractions. Time is not modelled: a timer may fire at any moment, or, with
`TimelyRPC`, only when no reply is possible any more. A goroutine makes its
channel and looks up the previous one within `StartRound`; the code leaves at
least the 200 ms of the drain window for that, and `Reigns` takes the steps
apart. A connection breaks only because the follower's process dies (all
addresses are `localhost`). A database operation is atomic and fails only as
the executor reports. A crash of the leader ends the reign and is not an action
here. A reply belongs to one round: an old `receiver` is never read again, so
`ReturnRPC` pushes only for the current round.

### Election and the code

A node is `down`, in `connect` (node 0 in `EstablishRPCs`), `follower` (the
monitor runs), `raise`, `self`, `ask` (three points of `StartElection`), `won`
(before `RunHeartbeat` reads the term again) or `leader`. A `RequestVote` call
is served in three steps (compare, `TryVote`, `SetTerm`), a heartbeat in two
(compare, `SetLeaderID`), because the code holds no lock across them. Calls are
sets, so they may be served in any order; `live` says whether the caller still
waits. Node 0 dials its peers one after another (`DialPeer`), and one it has
dialled may be down again when it begins to lead. The monitor may time out at any moment, any leader may send a heartbeat
to any node that is up, and a crash forgets everything.

### Startup and the code

| Action | Code |
|---|---|
| `Launch` | `main`: the default of `-t`, the check of `-id` |
| `Connect` | `ConnectMongoDB` |
| `CountDocuments`, `OpenCSV`, `InsertRow`, `SeedDone` | `SeedDatabaseFromCSV`: the count, the file, `InsertMany` document by document |
| `NextRatio`, `RatioFound` | `calcInitPrioRatio`; what `startNode` does after it |
| `DialPeer`, `StartLeading` | `EstablishRPCs` of node 0 |
| `Die` | `log.Fatal`, a panic, a kill, anywhere |
| `Insert`, `Delete` | the executor, for the writes that reach a serving node |

`expected` and `disturbed` are history: what the collection should hold, and
whether an import was cut short or clients emptied the collection. Floats are
taken as exact: a ratio is an integer number of steps of the grid and sums are
compared as integers. `InsertMany` is ordered, so what a death leaves is a
prefix of the file.

### Reigns and the code

| Action | Code |
|---|---|
| `Win`, `Rejected` | `onTimeout` after a won election; a rejected heartbeat and `once.Do(stop)` with `onDeposed` |
| `CheckCmdCh`, `Send` | the nil check of `submitWrite`; the send, which reads `CmdCh` again |
| `Dial`, `DialFails` | one turn of `EstablishRPCs` or `EstablishRPCsBestEffort` |
| `FindMissing`, `Reconnect` | `tryConnectMissingPeers`: no entry found; the dial and the store |
| `StartRound`, `EndRound` | one round of the loop of reign `r` |
| `Enter` | `executeRPC` up to its wait: the channel registered, the previous one looked up |
| `TakeToken`, `Signal`, `Unlock` | the receive; the send under `jobQMu` after `Call`, which blocks if the channel is full; the end of that block |

The other nodes are abstract: a dial succeeds or fails, a call returns or not,
an election can be won whenever the node is a follower. A round may end at any
time once its goroutines have started. `seen` and `sent` are history. `stopped`
holds the reigns whose `RunHeartbeat` has ended.

### Gateway and the code

| Action | Code |
|---|---|
| `Fetch`, `Edit`, `LeaveMenu` | `UpdateCustomer`: the GET, a deposit or withdrawal on the copy and the PUT of the whole copy, the way out |
| `Create`, `Delete` | `CreateCustomer`, `DeleteCustomer` |
| `Arrive` (`Read`, `Write`, `Refused`) | `tryNode` reaching a node: the read handlers, `submitWrite`, nobody at the port |
| `GiveUp` | the 10 s of `tryNode` are over |
| `Probe`, `Deadline` | `discoverLeader` asking one `/status` after the other; the 10 s of the search |
| `Take`, `Commit`, `TimeOut` | a round: the command taken and executed by followers; executed here and answered; answered with an error |
| `Win`, `Deposed`, `Crash`, `Start` | `onTimeout`, `onDeposed`, the process |

A customer is the set of the changes of its balance, each named after the write
that made it, so that lost, repeated and revived changes can be told apart; its
balance is counted from that set. The nodes of the model are those that may come to lead;
the rest of a quorum is there or not, at will. A follower executes a command when it is taken
or never; that it may be later is `Consensus`'s subject. A loop belongs to a
reign and ends only with its process, so that a node that is elected again runs
one loop more on its queue, and late commands of a deposed leader's loop may
overwrite the new one's writes. A handler that hangs on a nil `CmdCh` is in
`Reigns`. The history variables `acked`, `unanswered` and `overlap` are kept
only until an election is won, by whatever node: after that the code promises next to
nothing (see below). Until then node 0 may crash and restart, or be deposed and
go on with the commands it has.

## 3. Runs

| Run | What it checks |
|---|---|
| `fixed_n3` | `FixedSpec`, n=3, t=1, three writes and rounds, one crash: `TypeOK`, `CommitQuorum`, `WaitMeansTooFew`, `InOrderExecution`, `NoStaleRejection`, `ReplicasAgree`, `RanksDealtOnce`, and the refinement `ImplementsWriteService` |
| `live` | `FairFixedSpec`, n=3, two rounds, one crash, node 1 may be followed: `EveryWriteAnswered`, `GoroutineServed` |
| `elected_n3` | `ElectedSpec`, n=3, three rounds, any docked set, any own weight, followers' clocks 0 or 1 and node 0's rounds as a rival, at most of clock 1, at any time: `RejectionEnds`, `RoundsIncrease` |
| `election_n3` | `Election` with fairness, n=3, two elections, one node that crashes any number of times, one heartbeat under way: `TypeOK`, `VoteOncePerTerm`, `SharedTermIsDoubleVote`, `TermHasVote`, `DeposedByHigherVote`, `ElectionsEnd` |
| `startup` | `Startup` with fairness, every tolerance of two to six nodes, three launches, deaths anywhere: `TypeOK`, `SchemeIsCabinet`, `CriterionIsExact`, `OnlyMinorityIsOrdered`, `SeedKeepsHistory`, `StartupEnds` |
| `reigns` | `Reigns` with fairness, one peer, two reigns, three writes, three rounds a loop, two docks: `TypeOK`, `StatusIsLeadership`, `HungMeansDeposed`, `LockedMeansSharedClock`, `OrphanMeansYoungDock`, `CallsInOrder`, `AcceptedIsAnswered` |
| `gateway` | `Gateway`, two nodes, two clients with a write each, one election won, one crash: `TypeOK`, `AcknowledgedKept`, `NeverOverdrawn`, `TwoAccountsMeanUnanswered`, `ReadsReturnAcknowledged` |

**Bounds.**

* `Consensus`. Three nodes are the smallest cluster with a follower that is not
  needed; a round depends on the one before it only (weights, token), so two
  rounds reach every pair of neighbouring rounds and three a chain with a slow
  follower two rounds behind. In `elected_n3` the third round makes a clock that
  is past every foreign one, so that a refused round 1 would refute
  `RejectionEnds`; its commands update a key each and change nothing, as the run
  is about order only. Only with t=2 can too few followers commit; for
  the initial leader the theorems cover every n and t, and `v_i2` has n=5, t=2.
  Insert, replace and delete of two keys tell apart executions in another
  order, lost ones and failing ones; the third key, `k0`, is never written (see
  the seeding below). One crash interrupts calls at every stage. `CmdChCap`
  lets the channel fill up.
* `Election`. Two elections reach a contested term, which is where votes can go
  wrong, and the safety properties are theorems for any number of elections,
  nodes and crashes. `MaxBeats` still meets every state of a heartbeat's
  receiver.
* `Startup`. The step of the search is the code's 0.01 for up to four nodes;
  larger powers exceed TLC's 32 bits, so that five nodes use 0.05 and six 0.1.
  Below ratio -1 the search's condition does not hold any more; the model stops
  there, the code goes on. Two rows in the file and a third customer tell apart
  an import cut short, a deletion and an insertion.
* `Reigns`. One peer suffices, since docks of different peers share nothing but
  the loop. Two reigns give two loops; with a `cmdCh` of capacity 1 and three
  writes one handler can block while one is queued; the third round is the
  first whose predecessor has one itself; two docks make a replacement. The
  second disjunct of `OrphanMeansYoungDock` is not reached in this instance,
  nor is a call that another loop's token lets pass a round later than the one
  it was sent in, which takes a fourth write (`CallsInOrder` names every round
  in between for its sake); the theorems cover both.
* `Gateway`. The nodes are those that may come to lead: one besides node 0. Two
  writes are enough for a first attempt, its repetition and another client's
  write to meet on one collection; one won election and one crash take node 0
  away, give it a successor or a second reign, and bring it back.

Symmetry is used in `elected_n3` only, over the keys, which its commands and its
seed treat alike; nodes differ by rank or role. Every run has
`CHECK_DEADLOCK FALSE`: the system stops when the bounded writes, rounds,
crashes, launches and elections are used up.

**Fairness.** All of it is weak.

* `Consensus`: each step of the loop (a goroutine the Go scheduler runs), every
  RPC goroutine and its handler (the database of a live node answers), the
  round's timer, and the reconnection tick. Clients, crashes and starts are not
  fair.
* `Election`: the steps of `StartElection` and of the vote calls it made, each
  of which is served by a live process or fails to be dialled. Timeouts,
  heartbeats, crashes and starts are not fair.
* `Startup`: `startNode` goes on, and the peers node 0 dials come up some time.
  Launches, deaths and clients are not fair.
* `Reigns`: handlers that can send, loops, dials, and goroutines that start.
  Calls need not return and goroutines need not get their token, for the
  round's timer ends it without them.
* `Gateway` states none: its properties are about safety.

### Disagreements the runs show

| Run | Property | What happens |
|---|---|---|
| `v_i1` | `WaitMeansTooFew` | an elected leader counts the weight its predecessor gave it, so `n-t` nodes need not be enough (`pmgr.go:62`) |
| `v_i2` | `CommitQuorum` | a leader that follows another heartbeat deals the top weight away and counts it too: one follower commits where t is two (`pmgr.go:63`) |
| `v_join` | `GoroutineServed` | a peer docked after round 0 has no channel for the round before; its goroutines block on nil for ever (`heartbeat.go:21`, `consensus.go:154`) |
| `v_reads` | `NoFollowerReads` | while node 1 leads, the gateway still sends a read to node 0, which has been deposed and serves it from its own collection (`main.go:47`) |
| `v_terms` | `OneLeaderPerTerm` | a candidate counts its own vote although it has given it to another (`service.go:67`) |

Seen while modelling, and not among the runs:

* `src/README.md:42` says writes go through consensus before they are committed
  to all nodes: followers execute before a quorum exists, and a write answered
  with a timeout stays executed there.
* `database/db.go:76`: a node that restarts with an emptied collection seeds it
  again, alone; `SeedKeepsHistory` excludes it by `disturbed`. With no customer
  but those that are deleted, `ReplicasAgree` fails.
* `pmgr.go:66`: with t of n/2 or more the search does not end, except at
  a negative ratio for some sizes (n=5, t=3 at -0.67; n=6, t=4 at -0.79). With
  the default tolerance the solutions are closer than the step of 0.01 from
  n=21 on, for odd n: a node of 21 or 25 never starts, one of 23 or 27 serves
  with a negative ratio.
* `consensus.go:75`: with n=1 `prioSum` is never compared; every write times out.
* `consensus.go:58`: in its first round an elected leader counts a weight that
  the round also deals to a follower, which may then stand for two. With n=5,
  t=2 and the ratio 1.17, a leader whose predecessor has followed its heartbeat
  and re-ranked around it holds weight 187; so does node 0 in round 0, and with
  its reply alone 374 of 701 commit. With n=7, t=3 and the ratio 1.08 a weight
  that an ordinary round deals is enough: node 6 holding rank 1 commits when
  nodes 0 and 1 have replied (1469 + 1587 + 1469 of 8922). From the second round
  on `LaterRoundsAreHeld` excludes it.
* `service.go:123`: a failing command is an RPC error, so that a write to a
  customer nobody has is answered with a timeout after 5 s although every
  follower has answered, never with the 404 of `controllers/router.go:127`.
* `service.go:118`: the rounds of a deposed leader's loop are served like any
  others. They change the collections behind the new leader's back, and may
  commit.
* `main.go:296`: a winner may beat in a term it was not elected in, since it
  reads the term again.
* `service.go:49-56`: a heartbeat may be accepted after the term has moved on.
* `heartbeat.go:19`: a leader is deposed by a mere candidate's term.
* `consensus.go:109-114` with `pmgr.go:111`: once the followed leader replies,
  re-ranking fails and the next round has no weights at all.
* `controllers/router.go:26` promises to block until the command is committed;
  after a deposition between check and send the handler blocks for ever.
* `main.go:304`: the loop of an earlier reign goes on and takes commands of
  the present one; its rounds on fresh docks have no predecessor there and time
  out. On docks it shares with the new loop they may commit: with node 0 deposed
  by a candidate's term and elected again, before any other node has led, a PUT
  that the gateway has given up waits in the old loop's round, the new loop
  commits and confirms a later one, and the old loop then commits its own over
  it. This is why `AcknowledgedKept` ends with the first election won.
* `main.go:315`: a restarted node 0 says it leads, and `discoverLeader` asks it
  first; a client may read from one leader and write to another.
* `main.go:92`: a POST repeated after a timeout opens a second account.
* `src/client/router/handlers.go:118-141`, `205`, `216`: any JSON answer but a 404 is taken for
  the customer; a deposit whose PUT failed stays in the copy and is sent with
  the next; two clients in the menu overwrite each other's changes.

## 4. Proofs

All are checked by TLAPS for every value of the constants that meets the
assumptions: `ConfigAssumption`, `SchemeAssumption` (the scheme decreases and
satisfies I1 and I2, what `ServedSchemesAreAssumed` proves of the ratio search),
`StoreAssumption`, `ConsensusAssumption`, `ElectionAssumption`,
`StartupAssumption`, `ReignsAssumption` and `GatewayAssumption`.

* **Weights** (`PrioritiesProofs`). `RankWeight` counts units of weight, so sums
  are cardinalities and need no induction. `HeaviestRanks`: no `T` ranks
  outweigh the first `T` (compare what they do not share, rank by rank, with
  the weight of rank `T`). Hence `TooFewNeverCommit` and, by complement,
  `EnoughAlwaysCommit`: any `N-T` ranks exceed half. `RerankedDistinct` and
  `RerankedExists` say that re-ranking deals every rank once and fails only
  with the leader among the responders.
* **Reign** (`ConsensusProofs`). `TypeCorrect` (`[]TypeOK`, for both initial
  states, whatever usurpers and rivals there are) and, under the initial leader
  with no other leader's heartbeats or rounds, `WeightsCountedOnce` and, for
  `N > 1`, `NeverWaitsForMoreThanQuorum`. The inductive invariant is `QueueInv`
  (the replies read and unread of the current round are those of distinct
  followers that acknowledged it, none is counted twice, answers and rounds keep
  step) with `WeightInv` (ranks are distinct, the leader holds rank 0, `prioSum` is
  the weight of the ranks counted, `loop` tells on which side of the majority it
  is). The assumptions `Usurpers = {}` and `Rivals = {}` are needed: a rival's
  round changes the weight the leader counts for itself; so is `N > 1`.
* **Quorums** (`ConsensusProofs`). Rivals may leave any weight with the leader,
  and its predecessor with an elected one, so `WeightInv` fails. `ShareInv` says
  instead that the sum is at most the heaviest weight and those of distinct
  ranks, among which rank 0 is not from round 1 on, nor in round 0 if the leader
  is node 0. `TooFewNeverCommit` then applies to the followers' ranks with rank
  0: `CommittedIsHeld` for the initial leader and `LaterRoundsAreHeld` for every
  round but the first of an elected one, both for whatever rivals there are.
  `CommitQuorum` alone is not inductive: it says nothing of a round that is
  about to commit. More is not true: in the first round of an elected leader a
  follower holds rank 0 (section 3), and `Usurpers = {}` is needed for a leader
  to deal rank 0 to itself; `v_i2` is the counterexample without it.
  `ToleratingOneIsHeld` needs neither, where `T` is at most 1: the sum is
  compared only after a reply.
* **Order of execution** (`OrderProofs`), for any number of nodes, rounds,
  crashes and restarts. `TurnInv` is the job queues' promise: the token of a
  round says that its call has returned, and a call that is sent that those of
  all earlier rounds have. It is what makes `RoundsIncrease` inductive
  (`RoundInv`; `ExecutionAscends`, for every leader). `ClockInv(B)` says that a
  follower's clock stands at most at `B` or at a round it has admitted, and that
  only rounds below `B` are refused: with the last clock of other
  leaders' rounds for `B` it gives `RejectionIsBounded`, rivals included, with 0
  `NothingRefused`. This one and `ExecutionInOrder` assume `Rivals = {}`, for a
  rival's round may push a follower's clock past the leader's rounds. `PrefixInv` ties the
  number of executions to the calls: while a follower is connected, exactly the
  rounds from `Len(executed[f])` on are not executed; this gives `ExecutionInOrder`.
* **Replicas and the abstract service** (`OrderProofs`). `ReplicasHoldTheSame`
  (`ReplicasAgree`) goes by one sequence of documents, `IsHistory`: what the
  commands of the first `i` rounds make of the seed. `HistoryInv` places every
  follower on it by the number of rounds it has executed, and the leader until a
  round times out. `LoopImplementsService` is the refinement, `FixedSpec =>
  Service!Spec`: initial states map to initial states, and each step to an
  accepted write, an application, an answer, or a stutter. Both assume
  `Permanent(k)` for some customer `k`: seeded, and deleted by nobody, as `k0`
  is in the runs. Without one a restarted node whose collection has become empty
  is seeded again and both are false. Both assume `Rivals = {}`, as a rival writes
  to the same collections; the refinement assumes `Usurpers = {}` too, for the
  quorum.
* **Election** (`ElectionProofs`). `ElectionTypes`,
  `OneVotePerTerm`, `NoTermWithoutVote` and `FallsToHigherVote`, for any number
  of nodes, elections, crashes and heartbeats. The invariant `CastOnce` covers
  the votes on their way between `TryVote` and `SetTerm`, `TermCovered` the
  candidate between its own two steps, and `LiveBeats` says that a rejection
  ends a leadership and nothing else; without it a late rejection could end a
  candidacy and break `TermHasVote`. `BeatInv` adds that a rejection under way
  has a higher vote behind it, which is what deposes. `SharedTerms` adds what the
  winners' voters are: each has granted that vote, or has crashed since. For
  `2 * T < N` two quorums of `N-T` meet, and a common voter that has not crashed
  voted once, so it is one of the candidates.
* **Startup** (`StartupProofs`). `StartupTypes` and `RestartsKeepHistory`, for
  any file, command line and number of launches. Its invariant says where the
  collection and the expectation may differ: before and within an import.
* **Ratio search** (`RatioProofs`, `StartupProofs`). The weights are a geometric
  sequence, so `r-1` times the sum of the first `k` is a difference of two
  powers (`GeometricSums`); from it, for every `n`, `t` and step,
  `CriterionDecides`: above ratio 1 the powers the code compares decide I1 and
  I2 exactly (`SearchDecidesQuorums`, for `CriterionIsExact`). `WeightsAreSums`
  identifies these sums with the counted units of `Priorities`, which gives
  `ServedSchemesAreAssumed`: a node that serves at a ratio above 1 meets
  `ConfigAssumption` and `SchemeAssumption`, so that the theorems about rounds
  speak of its weights. `SearchInv` says that the search has refused what it has
  left and that nothing changes the ratio of a node that serves, whence
  `ReplicasShareRatio`. `NoFlatScheme` excludes the ratios from 0 to 1.

  That there is a ratio to be found is `MinorityIsAccepted`, for every `t` below
  `n/2` where the step is at most `1/(h^2-1)`, `h` being `(n+1) div 2`
  (`FineFor`). At the smallest ratio above 1 the `t` heaviest are then below the
  majority (`BelowAtOne`, by Bernoulli's inequality). From 2 downwards take the
  first ratio at which they are. If the `t+1` heaviest were not over the
  majority there, both comparisons would have failed within one step, which the
  bounds on the powers exclude (`StepDoesNotPass`). With the code's 1/100
  `FineFor` holds for up to 20 nodes; 21 is the first number for which the
  search does miss (section 3), so that nothing is lost. `n <= 24` is used for
  the tolerance one below the default of an odd `n`, where the bounds are not
  sharp enough for larger clusters. With these assumptions, `FineFlags`,
  `MinoritiesServeCabinet` is `SchemeIsCabinet`, and
  `OnlyMinoritiesServeInOrder` is `OnlyMinorityIsOrdered`; `MCStartup` has TLC
  evaluate `FineFlags` for the flags of the run. `t < n` is part of them: with a
  larger `t` the code compares powers with negative exponents, which are not
  modelled.

  Powers and sums take induction over numbers. The library's theorems on it
  have operators as parameters; `SetInduction` has the set of the numbers the
  claim holds for instead, and rests on the least number of a set (`LeastNat`,
  from `WFMin`). `RecursionExists` gives what a recursive function on `Nat`
  satisfies.
* **Reigns** (`ReignsProofs`). `ReignsTypes`, with `Registered`: a goroutine
  past `Enter` finds a channel to signal on. `StatusTellsLeadership` and
  `HandlersHangAfterReigns` need that only the last reign may be unstopped
  (`ReignInv`). `LocksNeedTwoLoops` rests on `LockInv`: what was sent covers
  every goroutine and channel, one loop sends a clock once on a dock, and a
  token or a second goroutine on a registered channel is another loop's.
  `OrphansNeedYoungDocks` rests on `OrphanInv`: a round that was sent on a dock
  has entered it before the loop's next round begins, or is held up by a lock.
  `CallsStayInOrder` rests on `CallOrder`: a round sends one call to a peer; a
  token says that the call of its round has returned; and a goroutine that has
  had its token had it after all earlier calls of its loop. Each of these holds
  unless a round of another loop, on the same dock, is in the way (`InTheWay`).
  That has to range over all rounds in between: a token taken for the own one
  lets a call go ahead, and the tokens of the calls behind it are honest.
* **Gateway** (`GatewayProofs`). `GatewayTypes` and `BalancesStayPositive`, for
  any number of nodes, clients, writes, elections and crashes. `NeverOverdrawn`
  of the collections is not inductive: `GatewayInv` says the same of copies,
  queued commands and commands in rounds, and that a PUT under way has a copy to
  send. It also says that until an election is won `current`, `CmdCh` and every
  request on its way point to node 0.
* **Until an election is won** (`GatewayProofs`). `AcknowledgedStaysSaved`,
  `ReadsAreNotStale` and
  `TwoAccountsNeedSilence` speak of the time before the first election is won, in
  which node 0 runs one loop at most and has one `Line` of commands before it: that of its round and those
  of its queue. `LeaderInv` says of the line what both need. Each attempt of a
  write is in it once, and not before it is made (`AttemptInv`, `CommandInv`).
  Without an overlap one client has the customer (`SessionInv`), and a PUT
  somebody waits for is the last one in the line (`LastInv`), so that a confirmed
  document is part of the collection, of every PUT still to come and of the
  copy (`KeptInv`): an attempt that was given up long ago carries less than what
  follows it, and is executed before it. A POST whose first attempt was
  answered has nothing of it in the line once the second is made (`AnsweredInv`).
  A crash empties the line; an election won ends the claim, and `LoopsInv` shows
  that until then there is no second loop, on node 0 or elsewhere. With one, on
  the same queue, `KeptInv` fails (section 3, `main.go:304`). That a read comes
  from node 0 and finds what `KeptInv` says of its collection is
  `ReadsAreNotStale`.

Only model-checked: liveness (`EveryWriteAnswered`, `GoroutineServed`,
`ElectionsEnd`, `StartupEnds`, `AcceptedIsAnswered`) and the violations, which
are out of the prover's reach. Of a search with a step that is not fine enough
nothing is claimed but `CriterionIsExact`, `ServedSchemesAreAssumed`,
`ReplicasShareRatio` and `NoFlatScheme`; the sizes at which the code misses
were found by calculation. Every safety property of a passing run is a theorem.

## 5. Not modelled, and the plan

1. Nothing is left of the plan's invariants. What could still be said for every
   instance are bounds no run asks for: how far a follower may fall behind the
   rounds of its leader, and what an elected leader's replicas share after a
   predecessor's rounds. Of elected leaders and of rivals the quorum is proved
   as far as it holds.
2. One module with `Election` and the loops of several leaders on shared
   collections. Each of its hard parts is modelled alone (`ElectedSpec`,
   `FollowHeartbeat`, `RivalPriority`, `Reigns`, `Win` and `Start` in `Gateway`); together they
   exceed what TLC explores, and the code gives no fencing between leaders for
   a composed module to refine.

Left out for good: the shell and JavaScript drivers; parsing and formatting of HTTP and
JSON and the requests they refuse; failures of MongoDB while a node serves, and
of listeners; logging, the Gin and MongoDB libraries, the wording of the
client's menus, and the fields `logIndex` and `cmtIndex`, which the program
never uses.
