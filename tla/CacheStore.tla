---------------------------- MODULE CacheStore ----------------------------
(***************************************************************************)
(* The life of cache.db (cache.py, sqlite_util.py): opened, migrated or    *)
(* quarantined by `load`, written through one deferred transaction, made   *)
(* durable by `save` (a commit, or the promotion of the in-memory database *)
(* of a fresh store), closed with a rollback; and killed between any two   *)
(* of these.                                                               *)
(*                                                                         *)
(* SQLite is modelled by what the code relies on: a commit is atomic and   *)
(* lands in the write-ahead log beside the file, the last close folds the  *)
(* log into the file, and a log found beside a file is replayed into it.   *)
(***************************************************************************)
EXTENDS Naturals

CONSTANTS
  SchemaVersion,  \* the latest schema
  OrphanLog,      \* a write-ahead log may outlive its deleted or torn file
  MaxWrites, MaxKills \* bounds

ASSUME CacheStoreAssumption ==
  /\ SchemaVersion \in Nat /\ MaxWrites \in Nat /\ MaxKills \in Nat
  /\ OrphanLog \in BOOLEAN

VARIABLES
  file,     \* cache.db
  wal,      \* cache.db-wal
  tmp,      \* cache.db.promote.tmp
  pc,
  conn,     \* what the connection is on: "none", "file" or "memory"
  view,     \* the database the connection sees, staged writes included
  preview,
  saved,    \* history: the writes the last finished save promised to keep
  kills

vars == <<file, wal, tmp, pc, conn, view, preview, saved, kills>>
disk == <<file, wal, tmp>>

Kinds == {"absent", "torn", "db"}
Db    == [kind : Kinds, ver : 0..(SchemaVersion + 1), n : 0..MaxWrites]

Absent  == [kind |-> "absent", ver |-> 0, n |-> 0]
Torn    == [kind |-> "torn", ver |-> 0, n |-> 0]
NewDb   == [kind |-> "db", ver |-> SchemaVersion, n |-> 0]

\* The database a reader of the path finds: the log wins over the file.
Content == IF file.kind # "db" THEN Absent
           ELSE IF wal.kind = "db" THEN wal ELSE file

Init ==
  /\ file \in {Absent} \cup {[kind |-> "db", ver |-> v, n |-> 0] : v \in 0..(SchemaVersion + 1)}
  /\ wal = Absent /\ tmp = Absent
  /\ pc = "closed" /\ conn = "none" /\ view = Absent /\ preview = FALSE
  /\ saved = 0 /\ kills = 0

-----------------------------------------------------------------------------
(* The world: only while no run holds the store (the run lock).              *)

\* The file is deleted by hand, or found torn; its log goes with it unless
\* OrphanLog.
LoseFile ==
  /\ pc = "closed" /\ file.kind = "db"
  /\ file' \in {Absent, Torn}
  /\ wal' \in IF OrphanLog THEN {wal, Absent} ELSE {Absent}
  /\ saved' = 0
  /\ UNCHANGED <<tmp, pc, conn, view, preview, kills>>

-----------------------------------------------------------------------------
(* load.                                                                     *)

OnMemory == conn' = "memory" /\ view' = NewDb /\ pc' = "open"

OpenMissing ==
  /\ pc = "closed" /\ file.kind = "absent"
  /\ OnMemory
  /\ preview' \in BOOLEAN
  /\ UNCHANGED <<disk, saved, kills>>

\* quarantine_corrupt: the file moves aside, then its sidecars.
OpenTorn ==
  /\ pc = "closed" /\ file.kind = "torn"
  /\ file' = Absent /\ pc' = "quarantine"
  /\ preview' \in BOOLEAN
  /\ UNCHANGED <<wal, tmp, conn, view, saved, kills>>

QuarantineLog ==
  /\ pc = "quarantine"
  /\ wal' = Absent
  /\ OnMemory
  /\ UNCHANGED <<file, tmp, preview, saved, kills>>

\* CacheSchemaError on a newer schema, or a transient error: fail closed.
OpenRefused ==
  /\ pc = "closed" /\ Content.kind = "db" /\ Content.ver > SchemaVersion
  /\ UNCHANGED vars

OpenFile ==
  /\ pc = "closed" /\ Content.kind = "db" /\ Content.ver <= SchemaVersion
  /\ conn' = "file" /\ view' = Content /\ pc' = "schema"
  /\ preview' \in BOOLEAN
  /\ UNCHANGED <<disk, saved, kills>>

Log(db) == wal' = db /\ UNCHANGED <<file, tmp>>

\* _ensure_schema: one step of the ladder, committed with its own stamp.
Migrate ==
  /\ pc = "schema" /\ view.ver < SchemaVersion
  /\ view' = [view EXCEPT !.ver = @ + 1]
  /\ Log(view')
  /\ UNCHANGED <<pc, conn, preview, saved, kills>>

Migrated ==
  /\ pc = "schema" /\ view.ver = SchemaVersion
  /\ pc' = "open"
  /\ UNCHANGED <<disk, conn, view, preview, saved, kills>>

-----------------------------------------------------------------------------
(* The open store.                                                           *)

\* Mutant: a write commits by itself (autocommit).
WriteThrough ==
  /\ pc = "open" /\ view.n < MaxWrites
  /\ view' = [view EXCEPT !.n = @ + 1]
  /\ IF conn = "file" THEN Log(view') ELSE UNCHANGED disk
  /\ UNCHANGED <<pc, conn, preview, saved, kills>>

Write ==
  /\ pc = "open" /\ view.n < MaxWrites
  /\ view' = [view EXCEPT !.n = @ + 1]
  /\ UNCHANGED <<disk, pc, conn, preview, saved, kills>>

\* save on a file: commit.
Commit ==
  /\ pc = "open" /\ conn = "file" /\ ~preview
  /\ Log(view)
  /\ saved' = view.n
  /\ UNCHANGED <<pc, conn, view, preview, kills>>

\* save on memory: _promote clears an old temp, copies, renames, reconnects.
PromoteBegin ==
  /\ pc = "open" /\ conn = "memory" /\ ~preview
  /\ tmp' = Absent /\ pc' = "copy"
  /\ UNCHANGED <<file, wal, conn, view, preview, saved, kills>>

Copy ==
  /\ pc = "copy"
  /\ \/ tmp.kind = "absent" /\ tmp' = Torn /\ UNCHANGED pc
     \/ tmp.kind = "torn" /\ tmp' = view /\ pc' = "rename"
  /\ UNCHANGED <<file, wal, conn, view, preview, saved, kills>>

Rename ==
  /\ pc = "rename"
  /\ file' = tmp /\ tmp' = Absent /\ pc' = "reconnect"
  /\ UNCHANGED <<wal, conn, view, preview, saved, kills>>

Reconnect ==
  /\ pc = "reconnect"
  /\ conn' = "file" /\ view' = Content
  /\ saved' = view.n
  /\ pc' = "open"
  /\ UNCHANGED <<disk, preview, kills>>

\* The copy, the rename or the reconnect raises: the run is over, its
\* `finally` removes the temp.
PromoteFails ==
  /\ pc \in {"copy", "rename", "reconnect"}
  /\ tmp' = Absent /\ pc' = "failed"
  /\ saved' = IF pc = "reconnect" THEN view.n ELSE saved
  /\ UNCHANGED <<file, wal, conn, view, preview, kills>>

\* Mutant: the context manager commits on the way out.
CloseCommits ==
  /\ pc \in {"open", "failed"}
  /\ IF conn = "file" THEN file' = view /\ wal' = Absent ELSE UNCHANGED <<file, wal>>
  /\ pc' = "closed" /\ conn' = "none" /\ view' = Absent /\ preview' = FALSE
  /\ UNCHANGED <<tmp, saved, kills>>

\* close: roll back; the last close of a healthy file folds its log in.
Close ==
  /\ pc \in {"open", "failed"}
  /\ IF conn = "file" THEN file' = Content /\ wal' = Absent ELSE UNCHANGED <<file, wal>>
  /\ pc' = "closed" /\ conn' = "none" /\ view' = Absent /\ preview' = FALSE
  /\ UNCHANGED <<tmp, saved, kills>>

\* A kill, or a load that raises midway: the files stay as they are.
Kill ==
  /\ pc # "closed" /\ kills < MaxKills /\ kills' = kills + 1
  /\ saved' = IF pc = "reconnect" THEN view.n ELSE saved
  /\ pc' = "closed" /\ conn' = "none" /\ view' = Absent /\ preview' = FALSE
  /\ UNCHANGED disk

Next ==
  \/ LoseFile
  \/ OpenMissing \/ OpenTorn \/ QuarantineLog \/ OpenRefused \/ OpenFile
  \/ Migrate \/ Migrated
  \/ Write \/ Commit \/ PromoteBegin \/ Copy \/ Rename \/ Reconnect \/ PromoteFails
  \/ Close \/ Kill

Spec == Init /\ [][Next]_vars

-----------------------------------------------------------------------------
TypeOK ==
  /\ {file, wal, tmp, view} \subseteq Db /\ view.ver <= SchemaVersion
  /\ pc \in {"closed", "quarantine", "schema", "open", "copy", "rename", "reconnect", "failed"}
  /\ conn \in {"none", "file", "memory"} /\ preview \in BOOLEAN
  /\ saved \in 0..MaxWrites /\ kills \in 0..MaxKills

(* cache.py, _promote: "cache.db is never a torn file"; and a save keeps its *)
(* promise: whenever no save is under way, the path holds exactly the writes *)
(* of the last save that finished, through kills in the middle of a          *)
(* migration, a quarantine or a promotion.                                   *)
SavedIsStored ==
  pc \in {"closed", "schema", "open"} => Content.n = saved

(* docs/architecture.md, Invariants: preview never commits.  Under a preview *)
(* no step changes what the path stores: not a save, a close, a migration,   *)
(* nor a raise or a kill in the middle of any of them.                       *)
PreviewNeverCommits == [][preview => Content'.n = Content.n]_vars

(* The store implements the atomic one: the staged state is the connection's *)
(* while one is open, and the path's content is replaced in one step.        *)
Promised == INSTANCE AtomicStore
  WITH durable <- Content.n,
       staged  <- IF pc \in {"open", "copy", "rename", "reconnect"} THEN view.n ELSE MaxWrites + 1

ImplementsAtomicStore == Promised!Spec
=============================================================================
