------------------------------ MODULE KVStore -------------------------------
(***************************************************************************)
(* The customers collection of one node and what makeKVExecutor does to it *)
(* with one replicated command.  A document is the value of a key; a key   *)
(* without a document has the value Absent.                                *)
(***************************************************************************)
CONSTANTS
  Key,      \* customer ids
  Absent,   \* the value of a key that has no document
  Seed,     \* the documents every database starts with
  Command   \* the writes clients submit: records [op, key, val]

Op == {"INSERT", "REPLACE", "DELETE"}
Value == {c.val : c \in Command} \cup {Seed[k] : k \in Key} \cup {Absent}
Store == [Key -> Value]

ASSUME StoreAssumption ==
  /\ \A c \in Command : c.op \in Op /\ c.key \in Key
  /\ Seed \in [Key -> Value]

(***************************************************************************)
(* INSERT fails on an _id that is in use (MongoDB's unique index), REPLACE *)
(* and DELETE fail when nothing matches; a failed command has no effect.   *)
(***************************************************************************)
ExecOK(s, c) ==
  IF c.op = "INSERT" THEN s[c.key] = Absent ELSE s[c.key] # Absent

Exec(s, c) ==
  IF ~ExecOK(s, c) THEN s
  ELSE [s EXCEPT ![c.key] = IF c.op = "DELETE" THEN Absent ELSE c.val]

\* SeedDatabaseFromCSV, on every start of a node: an empty collection is
\* filled again, whether it is new or all its documents were deleted.
Reseeded(s) == IF \A k \in Key : s[k] = Absent THEN Seed ELSE s

=============================================================================
