------------------------------ MODULE RunBoot ------------------------------
(***************************************************************************)
(* A process at the data directory, from its start to its end: the run     *)
(* lock, the config file and its rewrite at the current schema, the        *)
(* mapping sources and their index in mappings.db, the arr legs, and the   *)
(* commands that take the same lock (config migrate, cache backup, restore *)
(* and remove).  Processes run side by side and may be killed between any  *)
(* two steps.                                                              *)
(*                                                                         *)
(* The three mapping sources are loaded alike, one after the other; one    *)
(* stands for them.  Its versions are numbered in the order they are       *)
(* published, a digest is the number of the version it was taken of.       *)
(***************************************************************************)
EXTENDS Naturals

CONSTANTS
  Procs,
  Jobs,          \* the commands a process may be started as
  MaxVersion, MaxEdits, MaxKills, MaxCommits, \* bounds
  MaxStarts,     \* how many starts, with the run lock and without it
  EditInRewrite, \* the user may save config.yml between a rewrite's read and its swap
  KillInRemove   \* cache remove may be killed between its two deletions

ASSUME RunBootAssumption ==
  /\ Jobs \subseteq {"run", "dry", "migrate", "backup", "restore", "remove"}
  /\ MaxVersion \in Nat \ {0} /\ MaxEdits \in Nat \ {0}
  /\ MaxKills \in Nat /\ MaxCommits \in Nat /\ MaxStarts \in [BOOLEAN -> Nat]
  /\ EditInRewrite \in BOOLEAN /\ KillInRemove \in BOOLEAN

VARIABLES
  lockable, \* the lock file can be created and locked
  holder,   \* the processes holding the lock
  pc, job,
  config,   \* config.yml: its schema, and the user's edit its settings are (0: the bare template)
  bak,      \* config.yml.bak
  loaded,   \* the config a process validated, then the bytes its rewrite read
  upstream, \* the published version of the mapping source
  src,      \* the downloaded copy
  part,     \* the version a process is streaming into the .part file
  parsed,   \* the version the rows a process is inserting are of
  db,       \* mappings.db: the version its rows are of, and the stamped digest
  index,    \* the database a process's resolver sees, uncommitted writes included
  seen,     \* the digest its resolver took of the source
  cache,    \* cache.db: its lineage (a replaced file is another database) and content
  log,      \* cache.db-wal
  snapshot, \* cache.backup.db, then the copy a restore makes of it
  kills, starts

lockVars   == <<lockable, holder>>
configVars == <<config, bak>>
sourceVars == <<upstream, src, part>>
indexVars  == <<db, index, seen, parsed>>
cacheVars  == <<cache, log, snapshot>>
worldVars  == <<kills, starts>>
bootVars   == <<lockVars, pc, job, configVars, loaded, sourceVars, indexVars, cacheVars, worldVars>>

None == [none |-> TRUE]
Torn == MaxVersion + 1 \* a truncated or unparseable copy

Config   == [schema : {"old", "new"}, edit : 0..MaxEdits]
Template == [schema |-> "new", edit |-> 0]
NoRows   == [rows |-> 0, digest |-> 0]
Nowhere  == [on |-> "none", rows |-> 0, digest |-> 0]

BootInit ==
  /\ lockable \in BOOLEAN /\ holder = {}
  /\ pc = [p \in Procs |-> "idle"] /\ job = [p \in Procs |-> "none"]
  /\ config \in {None} \cup {[schema |-> s, edit |-> 1] : s \in {"old", "new"}}
  /\ bak = None /\ loaded = [p \in Procs |-> None]
  /\ upstream = 1
  /\ src = [v |-> 0, aged |-> FALSE] /\ part = [p \in Procs |-> 0]
  /\ db \in {NoRows, None}
  /\ index = [p \in Procs |-> Nowhere]
  /\ seen = [p \in Procs |-> 0] /\ parsed = [p \in Procs |-> 0]
  /\ cache = [line |-> 1, n |-> 0] /\ log = None /\ snapshot = None
  /\ kills = 0 /\ starts = 0

-----------------------------------------------------------------------------
(* The process and its lock.                                                 *)

Idle(p) == pc[p] = "idle"
At(p, step) == pc[p] = step
Goto(p, step) == pc' = [pc EXCEPT ![p] = step]

\* Every with-block and finally of the process unwinds: its uncommitted writes
\* are rolled back, its databases closed (the last close folds the log into
\* cache.db), its lock released.
Closed(p) ==
  /\ Goto(p, "idle") /\ job' = [job EXCEPT ![p] = "none"]
  /\ holder' = holder \ {p}
  /\ index' = [index EXCEPT ![p] = Nowhere]
  /\ seen' = [seen EXCEPT ![p] = 0] /\ parsed' = [parsed EXCEPT ![p] = 0]
  /\ loaded' = [loaded EXCEPT ![p] = None]
  /\ UNCHANGED <<lockable, db>>

FirstStep(j) ==
  CASE j \in {"run", "dry"} -> "config"
    [] j = "migrate" -> "rewrite"
    [] j = "backup"  -> "backup_cache"
    [] j = "restore" -> "copy"
    [] j = "remove"  -> "unlink"

\* restore and remove first check that their file exists.
Start(p, j) ==
  /\ Idle(p) /\ starts < MaxStarts[lockable]
  /\ j = "restore" => snapshot # None
  /\ j \in {"remove", "backup"} => cache # None
  /\ starts' = starts + 1
  /\ job' = [job EXCEPT ![p] = j]
  /\ Goto(p, "lock")
  /\ UNCHANGED <<lockVars, configVars, loaded, sourceVars, indexVars, cacheVars, kills>>

\* Mutant: the OSError arm comes first and catches the Timeout too.
TakeLockTimeoutLast(p) ==
  /\ At(p, "lock")
  /\ holder' = IF lockable /\ holder = {} THEN {p} ELSE holder
  /\ Goto(p, FirstStep(job[p]))
  /\ UNCHANGED <<lockable, job, configVars, loaded, sourceVars, indexVars, cacheVars, worldVars>>

\* single_instance_lock: acquired; held by another, refused; or no lock to be had, go on without.
TakeLock(p) ==
  /\ At(p, "lock")
  /\ \/ lockable /\ holder = {} /\ holder' = {p} /\ Goto(p, FirstStep(job[p]))
        /\ UNCHANGED job
     \/ lockable /\ holder # {} /\ Goto(p, "idle") /\ UNCHANGED holder
        /\ job' = [job EXCEPT ![p] = "none"]
     \/ ~lockable /\ Goto(p, FirstStep(job[p])) /\ UNCHANGED <<holder, job>>
  /\ UNCHANGED <<lockable, configVars, loaded, sourceVars, indexVars, cacheVars, worldVars>>

Step(p, from, to) ==
  At(p, from) /\ Goto(p, to) /\ UNCHANGED <<lockVars, job, cacheVars, worldVars>>

\* The command ends, whatever it has done to the files.
Ends(p, from) == At(p, from) /\ Closed(p) /\ UNCHANGED worldVars

-----------------------------------------------------------------------------
(* The config file.                                                          *)

\* load_shared_config on a missing file: write the template and exit.
WriteTemplate(p) ==
  /\ config = None /\ config' = Template
  /\ Ends(p, "config")
  /\ UNCHANGED <<bak, sourceVars, cacheVars>>

\* load_shared_config: unreadable or invalid (an edit in progress), skip the run.
SkipConfig(p) ==
  /\ config # None
  /\ Ends(p, "config")
  /\ UNCHANGED <<configVars, sourceVars, cacheVars>>

\* A current config, and a dry run, is never rewritten.
LoadConfig(p) ==
  /\ config # None
  /\ Step(p, "config", IF config.schema = "old" /\ job[p] = "run" THEN "rewrite" ELSE "arrs")
  /\ loaded' = [loaded EXCEPT ![p] = config]
  /\ UNCHANGED <<configVars, sourceVars, indexVars>>

AfterRewrite(p) == IF job[p] = "migrate" THEN "done" ELSE "arrs"

\* Mutant: the bytes are not compared with the ones the run validated.
ReadForRewriteUnchecked(p) ==
  /\ config # None
  /\ Step(p, "rewrite", IF config.schema = "old" THEN "write_backup" ELSE AfterRewrite(p))
  /\ loaded' = [loaded EXCEPT ![p] = IF job[p] = "migrate" THEN config ELSE @]
  /\ UNCHANGED <<configVars, sourceVars, indexVars>>

\* upgrade_config_file reads the bytes: refused when they are not the ones the run
\* validated, nothing to do when they are current.
ReadForRewrite(p) ==
  /\ config # None
  /\ Step(p, "rewrite",
          IF config.schema = "old" /\ (job[p] = "run" => config = loaded[p])
          THEN "write_backup" ELSE AfterRewrite(p))
  /\ loaded' = [loaded EXCEPT ![p] = IF job[p] = "migrate" THEN config ELSE @]
  /\ UNCHANGED <<configVars, sourceVars, indexVars>>

\* No config to migrate.
NothingToMigrate(p) ==
  /\ config = None
  /\ Ends(p, "rewrite")
  /\ UNCHANGED <<configVars, sourceVars, cacheVars>>

\* The rewrite goes to a private temp file, the bytes read to config.yml.bak.
WriteBackup(p) ==
  /\ Step(p, "write_backup", "swap")
  /\ bak' = loaded[p]
  /\ UNCHANGED <<config, loaded, sourceVars, indexVars>>

Rewritten(c) == [c EXCEPT !.schema = "new"]

Swap(p) ==
  /\ Step(p, "swap", AfterRewrite(p))
  /\ config' = Rewritten(loaded[p])
  /\ UNCHANGED <<bak, loaded, sourceVars, indexVars>>

\* An OSError of either write: both new files are removed, the config stands.
RewriteFails(p) ==
  /\ \E from \in {"write_backup", "swap"} : Step(p, from, AfterRewrite(p))
  /\ bak' = None
  /\ UNCHANGED <<config, loaded, sourceVars, indexVars>>

\* configured_arrs: a config that configures neither arr ends the run before any download.
NoArrs(p) ==
  /\ At(p, "arrs") /\ loaded[p].edit = 0
  /\ Ends(p, "arrs")
  /\ UNCHANGED <<configVars, sourceVars, cacheVars>>

-----------------------------------------------------------------------------
(* The mapping sources and their index.                                      *)

\* A failure the resolver does not contain: its store is closed, the run skipped.
Skipped(p, from) == Ends(p, from) /\ UNCHANGED <<configVars, sourceVars, cacheVars>>

\* MappingStore.open; a corrupt file (None) moves aside and the run indexes in memory.
OpenIndex(p) ==
  /\ At(p, "arrs") /\ loaded[p].edit # 0
  /\ Step(p, "arrs", "source")
  /\ index' = [index EXCEPT ![p] =
       IF db = None THEN [Nowhere EXCEPT !.on = "memory"]
       ELSE [on |-> "disk", rows |-> db.rows, digest |-> db.digest]]
  /\ db' = IF db = None THEN NoRows ELSE db
  /\ UNCHANGED <<configVars, loaded, sourceVars, seen, parsed>>

\* A locked database is no corruption: the run is skipped.
OpenRefused(p) == At(p, "arrs") /\ loaded[p].edit # 0 /\ db # None /\ Skipped(p, "arrs")

KeepCopy(p) ==
  /\ src.v # 0 /\ ~src.aged
  /\ Step(p, "source", "digest")
  /\ UNCHANGED <<configVars, loaded, sourceVars, indexVars>>

\* _download_file opens the .part beside the source: missing, or past cache_time.
\* The name is fixed, so a second process truncates what the first has written.
Stream(p) ==
  /\ src.v = 0 \/ src.aged
  /\ Step(p, "source", "stream")
  /\ part' = [q \in Procs |-> IF q = p THEN upstream ELSE IF part[q] = 0 THEN 0 ELSE Torn]
  /\ UNCHANGED <<upstream, src, configVars, loaded, indexVars>>

Unstreamed(p) == part' = [part EXCEPT ![p] = 0]

\* What was streamed takes the source's name; nothing asks whether it parses.
Downloaded(p) ==
  /\ Step(p, "stream", "digest")
  /\ \E v \in {part[p], Torn} : src' = [v |-> v, aged |-> FALSE]
  /\ Unstreamed(p)
  /\ UNCHANGED <<upstream, configVars, loaded, indexVars>>

\* A failed refresh falls open to the copy there is; a first download does not.
RefreshFails(p) ==
  /\ src.v # 0
  /\ Step(p, "stream", "digest")
  /\ Unstreamed(p)
  /\ UNCHANGED <<upstream, src, configVars, loaded, indexVars>>

FirstDownloadFails(p) ==
  /\ src.v = 0
  /\ Ends(p, "stream")
  /\ Unstreamed(p)
  /\ UNCHANGED <<upstream, src, configVars, cacheVars>>

IsFresh(i, digest) == i.digest = digest

\* _file_digest, then is_fresh: an unchanged source is served from the index.
Digest(p) ==
  /\ Step(p, "digest", IF IsFresh(index[p], src.v) THEN "legs" ELSE "parse")
  /\ seen' = [seen EXCEPT ![p] = src.v]
  /\ UNCHANGED <<configVars, loaded, sourceVars, db, index, parsed>>

\* The parse reads the file again; a copy that does not parse ends the run.
ParseFails(p) == src.v = Torn /\ Skipped(p, "parse")

\* Mutant: every statement commits by itself.
ClearCommitted(p) ==
  /\ src.v # Torn
  /\ Step(p, "parse", "insert")
  /\ parsed' = [parsed EXCEPT ![p] = src.v]
  /\ index' = [index EXCEPT ![p].rows = 0]
  /\ db' = IF index[p].on = "disk" THEN [db EXCEPT !.rows = 0] ELSE db
  /\ UNCHANGED <<configVars, loaded, sourceVars, seen>>

\* _replace, one transaction: the tables are cleared, the parsed rows inserted,
\* the digest stamped.
Clear(p) ==
  /\ src.v # Torn
  /\ Step(p, "parse", "insert")
  /\ parsed' = [parsed EXCEPT ![p] = src.v]
  /\ index' = [index EXCEPT ![p].rows = 0]
  /\ UNCHANGED <<configVars, loaded, sourceVars, db, seen>>

Insert(p) ==
  /\ Step(p, "insert", "stamp")
  /\ index' = [index EXCEPT ![p].rows = parsed[p]]
  /\ UNCHANGED <<configVars, loaded, sourceVars, db, seen, parsed>>

Stamp(p) ==
  /\ Step(p, "stamp", "legs")
  /\ index' = [index EXCEPT ![p].digest = seen[p]]
  /\ db' = IF index[p].on = "disk" THEN [rows |-> index[p].rows, digest |-> seen[p]] ELSE db
  /\ UNCHANGED <<configVars, loaded, sourceVars, seen, parsed>>

\* A write error rolls back; the resolver builds once more, in memory.
WriteFails(p) ==
  /\ index[p].on = "disk"
  /\ \E from \in {"parse", "insert", "stamp"} : Step(p, from, "source")
  /\ index' = [index EXCEPT ![p] = [Nowhere EXCEPT !.on = "memory"]]
  /\ seen' = [seen EXCEPT ![p] = 0] /\ parsed' = [parsed EXCEPT ![p] = 0]
  /\ UNCHANGED <<configVars, loaded, sourceVars, db>>

-----------------------------------------------------------------------------
(* The legs, and the cache commands.                                         *)

Unmapped == <<configVars, loaded, sourceVars, indexVars>>
CacheStep(p, from, to) ==
  At(p, from) /\ Goto(p, to) /\ UNCHANGED <<lockVars, job, Unmapped, worldVars>>

\* The database a reader of cache.db finds: the log wins over the file.
Content == IF log # None THEN log.n ELSE cache.n

Replacement(n) == [line |-> starts + 1, n |-> n]

\* A leg commits to cache.db; a missing one is created whole, beside whatever log is left.
LegCommits(p) ==
  /\ job[p] = "run"
  /\ CacheStep(p, "legs", "legs")
  /\ IF cache = None
     THEN cache' = Replacement(0) /\ UNCHANGED log
     ELSE Content < MaxCommits /\ log' = [line |-> cache.line, n |-> Content + 1] /\ UNCHANGED cache
  /\ UNCHANGED snapshot

\* The run's end closes cache.db, which folds its log into the file.
Finish(p) ==
  /\ Ends(p, "legs")
  /\ cache' = IF cache = None THEN None ELSE [cache EXCEPT !.n = Content]
  /\ log' = IF cache = None THEN log ELSE None
  /\ UNCHANGED <<configVars, sourceVars, snapshot>>

MigrateDone(p) == Ends(p, "done") /\ UNCHANGED <<configVars, sourceVars, cacheVars>>

\* cache backup: the online backup reads through the log, and is swapped in whole, or fails.
\* Removed since the command looked for it, cache.db is created empty by the open.
BackupCache(p) ==
  /\ Ends(p, "backup_cache")
  /\ cache' = IF cache = None THEN Replacement(0) ELSE cache
  /\ snapshot' \in {snapshot, [line |-> 0, n |-> IF cache = None THEN 0 ELSE Content]}
  /\ UNCHANGED <<configVars, sourceVars, log>>

\* Mutant: the swap comes before the removal of the log.
ReplaceFirst(p) ==
  /\ CacheStep(p, "sidecars", "unlog")
  /\ cache' = Replacement(snapshot.n)
  /\ UNCHANGED <<log, snapshot>>

\* cache restore: the snapshot is copied beside cache.db ...
CopySnapshot(p) == CacheStep(p, "copy", "sidecars") /\ UNCHANGED cacheVars

\* ... the log of the database it replaces is removed ...
RemoveLog(p) ==
  /\ CacheStep(p, "sidecars", "replace")
  /\ log' = None
  /\ UNCHANGED <<cache, snapshot>>

\* ... and the copy takes its name.
ReplaceCache(p) ==
  /\ Ends(p, "replace")
  /\ cache' = Replacement(snapshot.n)
  /\ UNCHANGED <<configVars, sourceVars, log, snapshot>>

\* An OSError of the copy or the swap.
RestoreFails(p) ==
  /\ \E from \in {"copy", "replace"} : Ends(p, from)
  /\ UNCHANGED <<configVars, sourceVars, cacheVars>>

\* cache remove: the database, then its log.
Unlink(p) ==
  /\ cache # None
  /\ CacheStep(p, "unlink", "unlog")
  /\ cache' = None
  /\ UNCHANGED <<log, snapshot>>

\* Removed since the command looked for it.
NothingToUnlink(p) ==
  /\ cache = None
  /\ Ends(p, "unlink")
  /\ UNCHANGED <<configVars, sourceVars, cacheVars>>

Unlog(p) ==
  /\ Ends(p, "unlog")
  /\ log' = None
  /\ UNCHANGED <<configVars, sourceVars, cache, snapshot>>

-----------------------------------------------------------------------------
(* The world.                                                                *)

\* The process dies: uncommitted writes and the lock go with it, the files stay.
\* A killed write of the backup leaves it torn.
Kill(p) ==
  /\ ~Idle(p) /\ kills < MaxKills
  /\ At(p, "unlog") => KillInRemove
  /\ kills' = kills + 1
  /\ Closed(p)
  /\ part' = [part EXCEPT ![p] = 0]
  /\ bak' \in IF At(p, "write_backup") THEN {bak, None} ELSE {bak}
  /\ UNCHANGED <<config, upstream, src, cacheVars, starts>>

\* The user fills in or edits config.yml.
InRewrite(p) == pc[p] \in {"write_backup", "swap"}

EditConfig ==
  /\ config # None /\ config.edit < MaxEdits
  /\ EditInRewrite \/ \A p \in Procs : ~InRewrite(p)
  /\ config' = [config EXCEPT !.edit = @ + 1]
  /\ UNCHANGED <<lockVars, pc, job, bak, loaded, sourceVars, indexVars, cacheVars, worldVars>>

\* cache_time passes; by then a newer version may be published.
SourceAges ==
  /\ src.v # 0 /\ ~src.aged
  /\ src' = [src EXCEPT !.aged = TRUE]
  /\ upstream' \in {upstream} \cup (upstream + 1)..MaxVersion
  /\ UNCHANGED <<lockVars, pc, job, configVars, loaded, part, indexVars, cacheVars, worldVars>>

Resolves(p) ==
  \/ OpenIndex(p) \/ OpenRefused(p) \/ KeepCopy(p) \/ Stream(p)
  \/ Downloaded(p) \/ RefreshFails(p) \/ FirstDownloadFails(p)
  \/ Digest(p) \/ ParseFails(p) \/ Clear(p) \/ Insert(p) \/ Stamp(p) \/ WriteFails(p)

Configures(p) ==
  \/ WriteTemplate(p) \/ SkipConfig(p) \/ LoadConfig(p)
  \/ ReadForRewrite(p) \/ NothingToMigrate(p) \/ WriteBackup(p) \/ Swap(p) \/ RewriteFails(p)
  \/ NoArrs(p) \/ MigrateDone(p)

Caches(p) ==
  \/ LegCommits(p) \/ Finish(p) \/ BackupCache(p)
  \/ CopySnapshot(p) \/ RemoveLog(p) \/ ReplaceCache(p) \/ RestoreFails(p)
  \/ Unlink(p) \/ NothingToUnlink(p) \/ Unlog(p)

BootNext ==
  \/ \E p \in Procs :
       \/ \E j \in Jobs : Start(p, j)
       \/ TakeLock(p) \/ Configures(p) \/ Resolves(p) \/ Caches(p) \/ Kill(p)
  \/ EditConfig \/ SourceAges

BootSpec == BootInit /\ [][BootNext]_bootVars

-----------------------------------------------------------------------------
(* Properties.                                                               *)

\* Past the lock there is one process, whatever is killed, unless the lock file
\* cannot be had at all (runlock.py, run_arrs, the cache commands).
OneAtATime ==
  lockable => \A p, q \in Procs :
    ~Idle(p) /\ ~Idle(q) /\ ~At(p, "lock") /\ ~At(q, "lock") => p = q

\* A rewrite replaces only the bytes the process validated, keeps the settings
\* in them, and leaves exactly those bytes in the backup (upgrade_config_file).
RewriteKeepsSettings ==
  [][lockable => \A p \in Procs :
       At(p, "swap") /\ config'.schema # config.schema =>
         /\ loaded[p] = config
         /\ config'.edit = config.edit
         /\ bak' = config]_bootVars

\* The index never stamps a digest newer than its rows, nor over rows that are
\* not there, so a source that reads as unchanged is really served; with the
\* lock the two are the same version (MappingStore._replace, is_fresh).
IndexIsWhole ==
  db # None => /\ db.digest <= db.rows \/ db.digest = Torn
               /\ lockable => db.digest = db.rows

\* A run scans with the rows of the source copy it has, or newer ones, never
\* with those of an earlier copy nor with none (MappingResolver._build).
ServesTheSource ==
  \A p \in Procs : At(p, "legs") =>
    /\ index[p].rows # 0
    /\ index[p].rows >= seen[p] \/ seen[p] = Torn
    /\ lockable => index[p].rows = src.v

\* mappings.db is whole, and it is the one the run's source copy asks for.
IndexServesSource == IndexIsWhole /\ ServesTheSource

\* cache.db never stands beside another database's log, which would be replayed
\* into it (cache_restore, cache_remove, CacheStore._promote).
LogIsItsOwn ==
  lockable /\ cache # None /\ log # None => log.line = cache.line

\* The types; a copy, a digest or the rows of an index are of a published version, or torn.
BootTypeOK ==
  /\ lockable \in BOOLEAN /\ holder \subseteq Procs
  /\ job \in [Procs -> Jobs \cup {"none"}]
  /\ config \in Config \cup {None} /\ bak \in Config \cup {None}
  /\ loaded \in [Procs -> Config \cup {None}]
  /\ upstream \in 1..MaxVersion
  /\ src \in [v : 0..Torn, aged : BOOLEAN] /\ part \in [Procs -> 0..Torn]
  /\ db \in [rows : 0..Torn, digest : 0..Torn] \cup {None}
  /\ index \in [Procs -> [on : {"none", "disk", "memory"}, rows : 0..Torn, digest : 0..Torn]]
  /\ seen \in [Procs -> 0..Torn] /\ parsed \in [Procs -> 0..Torn]
  /\ {cache, log, snapshot} \subseteq [line : Nat, n : Nat] \cup {None}
  /\ kills \in 0..MaxKills /\ starts \in 0..MaxStarts[lockable]
=============================================================================
