------------------------------ MODULE Startup -------------------------------
(***************************************************************************)
(* One node from its command line to the moment it leads or follows: the   *)
(* flags of main, ConnectMongoDB, SeedDatabaseFromCSV, the ratio search of *)
(* initCabinetPriority, and for node 0 EstablishRPCs.  The process may end *)
(* anywhere and be launched again with the same flags; its database stays. *)
(***************************************************************************)
EXTENDS RatioSearch, Sequences, FiniteSets, Functions

CONSTANTS
  Flags,      \* command lines: records [id, n, t], t negative if not given
  Rows,       \* the customers of the CSV file, in order
  Customer,   \* these and those that clients create
  MaxLaunch   \* bound: launches of the process

LeaderID == 0

Row == Range(Rows)

ASSUME StartupAssumption ==
  /\ Flags \subseteq [id : Int, n : Nat \ {0}, t : Int]
  /\ \A c \in Flags : Grid[c.n] \in Nat \ {0}
  /\ Rows \in Seq(Customer) /\ IsInjective(Rows)
  /\ MaxLaunch \in Nat

(***************************************************************************)
(* Where the process is.                                                   *)
(*   down     not running            search  in calcInitPrioRatio          *)
(*   refused  ended by the flags     dial    node 0: CmdCh handed out, in  *)
(*   connect  in ConnectMongoDB              EstablishRPCs                 *)
(*   count    before CountDocuments  lead    node 0: heartbeats, loop      *)
(*   open     before os.Open         follow  another node: monitor         *)
(*   seed     in InsertMany                                                *)
(***************************************************************************)
Seeding == {"count", "open", "seed"}
Serving == {"dial", "lead", "follow"}
Place == {"down", "refused", "connect", "search"} \cup Seeding \cup Serving

VARIABLES
  flags,      \* the command line
  pc,
  ratio,      \* r of calcInitPrioRatio, in steps of 1/Grid[n]
  docked,     \* how many peers EstablishRPCs has connected
  docs,       \* the customers in the node's collection
  launches,
  expected,   \* history: the CSV file and what clients have done since
  disturbed   \* history: the collection was seeded in part, or emptied

vars == <<flags, pc, ratio, docked, docs, launches, expected, disturbed>>

TypeOK ==
  /\ flags \in Flags
  /\ pc \in Place
  /\ ratio \in -Grid[flags.n] .. 2 * Grid[flags.n]
  /\ docked \in 0 .. flags.n - 1
  /\ docs \subseteq Customer
  /\ launches \in 0 .. MaxLaunch
  /\ expected \subseteq Customer
  /\ disturbed \subseteq {"cut", "emptied"}

\* main: the default of -t is floor((n-1)/2).
Tolerance == IF flags.t < 0 THEN (flags.n - 1) \div 2 ELSE flags.t

Init ==
  /\ flags \in Flags
  /\ pc = "down"
  /\ ratio = 2 * Grid[flags.n]
  /\ docked = 0
  /\ docs = {}
  /\ launches = 0
  /\ expected = Row
  /\ disturbed = {}

-----------------------------------------------------------------------------
(* main and ConnectMongoDB.                                                *)

Launch ==
  /\ pc = "down"
  /\ launches < MaxLaunch
  /\ launches' = launches + 1
  /\ pc' = IF flags.id \in 0 .. flags.n - 1 THEN "connect" ELSE "refused"
  /\ ratio' = 2 * Grid[flags.n]
  /\ docked' = 0
  /\ UNCHANGED <<flags, docs, expected, disturbed>>

Connect ==
  /\ pc = "connect"
  /\ pc' = "count"
  /\ UNCHANGED <<flags, ratio, docked, docs, launches, expected, disturbed>>

-----------------------------------------------------------------------------
(* SeedDatabaseFromCSV.                                                    *)

\* Mutant: the import is not skipped when some of its customers are missing.
CountRows ==
  /\ pc = "count"
  /\ pc' = IF Row \subseteq docs THEN "search" ELSE "open"
  /\ UNCHANGED <<flags, ratio, docked, docs, launches, expected, disturbed>>

\* A collection that is not empty is left as it is.
CountDocuments ==
  /\ pc = "count"
  /\ pc' = IF docs # {} THEN "search" ELSE "open"
  /\ UNCHANGED <<flags, ratio, docked, docs, launches, expected, disturbed>>

\* The file is read, or it is missing and the collection stays empty.
OpenCSV ==
  /\ pc = "open"
  /\ \/ pc' = "seed" /\ UNCHANGED disturbed
     \/ pc' = "search" /\ disturbed' = disturbed \cup {"cut"}
  /\ UNCHANGED <<flags, ratio, docked, docs, launches, expected>>

\* InsertMany stores the documents one by one, in order.
InsertRow ==
  /\ pc = "seed"
  /\ \E i \in 1 .. Len(Rows) :
       /\ Rows[i] \notin docs
       /\ \A j \in 1 .. i-1 : Rows[j] \in docs
       /\ docs' = docs \cup {Rows[i]}
  /\ UNCHANGED <<flags, pc, ratio, docked, launches, expected, disturbed>>

SeedDone ==
  /\ pc = "seed"
  /\ Row \subseteq docs
  /\ pc' = "search"
  /\ UNCHANGED <<flags, ratio, docked, docs, launches, expected, disturbed>>

-----------------------------------------------------------------------------
(* initCabinetPriority.                                                    *)

QuorumSize == Tolerance + 1

Found == Accepts(flags.n, QuorumSize, ratio)

\* Mutant: a step of 1/2 walks past the ratios that would do.
NextHalf ==
  /\ pc = "search"
  /\ ~Found
  /\ ratio > -Grid[flags.n]
  /\ ratio' = ratio - Grid[flags.n] \div 2
  /\ UNCHANGED <<flags, pc, docked, docs, launches, expected, disturbed>>

\* Below ratio -1 the condition holds nowhere: the model stays there, the
\* code goes on for ever.
NextRatio ==
  /\ pc = "search"
  /\ ~Found
  /\ ratio > -Grid[flags.n]
  /\ ratio' = ratio - 1
  /\ UNCHANGED <<flags, pc, docked, docs, launches, expected, disturbed>>

\* The scheme is computed and the RPC listener started; node 0 hands out
\* CmdCh before it dials, another node starts its monitor.
RatioFound ==
  /\ pc = "search"
  /\ Found
  /\ pc' = IF flags.id # LeaderID THEN "follow" ELSE "dial"
  /\ UNCHANGED <<flags, ratio, docked, docs, launches, expected, disturbed>>

-----------------------------------------------------------------------------
(* EstablishRPCs on node 0, and the end of the process.                    *)

\* Mutants: the loop over the peers forgets to skip the node itself; it ends
\* one peer too early.
DialSelf ==
  /\ pc = "dial"
  /\ docked < flags.n
  /\ docked' = docked + 1
  /\ UNCHANGED <<flags, pc, ratio, docs, launches, expected, disturbed>>
DialAllButOne ==
  /\ pc = "dial"
  /\ docked < flags.n - 2
  /\ docked' = docked + 1
  /\ UNCHANGED <<flags, pc, ratio, docs, launches, expected, disturbed>>

\* The next peer is up at last; dialling fails and is repeated until then.
DialPeer ==
  /\ pc = "dial"
  /\ docked < flags.n - 1
  /\ docked' = docked + 1
  /\ UNCHANGED <<flags, pc, ratio, docs, launches, expected, disturbed>>

StartLeading ==
  /\ pc = "dial"
  /\ docked = flags.n - 1
  /\ pc' = "lead"
  /\ UNCHANGED <<flags, ratio, docked, docs, launches, expected, disturbed>>

\* A panic or log.Fatal of the database code, or the process is killed.
Die ==
  /\ pc \notin {"down", "refused"}
  /\ pc' = "down"
  /\ disturbed' = disturbed \cup
       (IF pc = "seed" /\ docs # {} /\ ~ Row \subseteq docs THEN {"cut"} ELSE {})
  /\ UNCHANGED <<flags, ratio, docked, docs, launches, expected>>

-----------------------------------------------------------------------------
(* The executor of a node that serves, for the writes of clients.          *)

Insert(c) ==
  /\ pc \in Serving
  /\ c \in Customer \ (Row \cup docs)
  /\ docs' = docs \cup {c}
  /\ expected' = expected \cup {c}
  /\ UNCHANGED <<flags, pc, ratio, docked, launches, disturbed>>

Delete(c) ==
  /\ pc \in Serving
  /\ c \in docs
  /\ docs' = docs \ {c}
  /\ expected' = expected \ {c}
  /\ disturbed' = disturbed \cup (IF docs = {c} THEN {"emptied"} ELSE {})
  /\ UNCHANGED <<flags, pc, ratio, docked, launches>>

StartNode ==
  \/ Connect
  \/ CountDocuments \/ OpenCSV \/ InsertRow \/ SeedDone
  \/ NextRatio \/ RatioFound
  \/ DialPeer \/ StartLeading

Next ==
  \/ Launch
  \/ StartNode
  \/ Die
  \/ \E c \in Customer : Insert(c) \/ Delete(c)

Spec == Init /\ [][Next]_vars

\* startNode goes on, and every peer that node 0 dials is up some time.
FairSpec == Spec /\ WF_vars(StartNode)

-----------------------------------------------------------------------------
(* Properties.                                                             *)

\* No command line has a tolerance of n or more, where the search compares
\* powers with negative exponents.
TolerancesBelowN == \A c \in Flags : c.t < c.n

\* The step of the search is fine enough for all of them.  Up to 24 nodes the
\* proofs need no other bound on it than FineFor's.
FineFlags ==
  /\ TolerancesBelowN
  /\ \A c \in Flags : c.n <= 24 /\ FineFor(c.n)

MinorityTolerance == 2 * Tolerance < flags.n

Scheme == SchemeOf(flags.n, ratio)

(***************************************************************************)
(* What the weighted quorums rest on: with a tolerance below n/2 a node    *)
(* that serves has a scheme whose weights decrease, whose t+1 first are    *)
(* over the majority and whose t first are not.                            *)
(***************************************************************************)
SchemeIsCabinet ==
  pc \in Serving /\ MinorityTolerance =>
    /\ \A i \in 1 .. flags.n - 1 : 0 < Scheme[i] /\ Scheme[i] < Scheme[i-1]
    /\ QuorumSuffices(flags.n, Scheme, Tolerance)
    /\ FewerDoNot(flags.n, Scheme, Tolerance)

(***************************************************************************)
(* The powers compared by calcInitPrioRatio decide the two sums exactly,   *)
(* at every ratio above 1 it looks at, and not only at the one it returns. *)
(***************************************************************************)
CriterionIsExact ==
  pc = "search" /\ ratio > Grid[flags.n] =>
    (Found <=> /\ QuorumSuffices(flags.n, Scheme, Tolerance)
               /\ FewerDoNot(flags.n, Scheme, Tolerance))

(***************************************************************************)
(* A node serves with weights in descending order exactly if its tolerance *)
(* is below n/2: with any other -t the search either never ends or ends at *)
(* a negative ratio, so that no such node is a replica like the others.    *)
(***************************************************************************)
OnlyMinorityIsOrdered ==
  /\ pc = "search" /\ MinorityTolerance => ratio > Grid[flags.n]
  /\ pc \in Serving => (ratio > Grid[flags.n] <=> MinorityTolerance)

(***************************************************************************)
(* However often a node is restarted, it serves the customers of the file  *)
(* as clients have changed them: none twice, none missing, none that was   *)
(* deleted back again.  Two things break this and nothing else does: an    *)
(* import cut short, and a collection emptied by clients.                  *)
(***************************************************************************)
SeedKeepsHistory ==
  pc \in Serving /\ disturbed = {} => docs = expected

(***************************************************************************)
(* A node that is launched with a tolerance below n/2 comes to lead or     *)
(* follow, unless it ends before.                                          *)
(***************************************************************************)
StartupEnds ==
  MinorityTolerance /\ pc = "connect" ~> pc \in {"lead", "follow", "down"}

=============================================================================
