----------------------------- MODULE RunProofs -----------------------------
(***************************************************************************)
(* The two ends of a run.                                                  *)
(*                                                                         *)
(* Its start, for any number of processes, edits, versions and kills: with *)
(* a working run lock one process at a time is past it, a rewrite of       *)
(* config.yml loses no setting, and cache.db never stands beside another   *)
(* database's log; with it or without, mappings.db serves the source it    *)
(* stamped.                                                                *)
(*                                                                         *)
(* The wait for its imports at the end: the safety of one row's ready      *)
(* clock, for every timeout, poll cadence and number of files.             *)
(***************************************************************************)
EXTENDS RunBoot, MonitorRow, TLAPS

\* Past the lock.
Working(p) == ~Idle(p) /\ ~At(p, "lock")

PastLock ==
  {"config", "rewrite", "write_backup", "swap", "arrs", "done", "source", "stream", "digest",
   "parse", "insert", "stamp", "legs", "backup_cache", "copy", "sidecars", "replace", "unlink",
   "unlog"}

\* A step of a process past the lock, and its end.
Moves(p) ==
  /\ Working(p) /\ UNCHANGED <<lockable, holder, job>>
  /\ pc' = [pc EXCEPT ![p] = pc'[p]] /\ pc'[p] \in PastLock
Leaves(p) ==
  /\ ~Idle(p) /\ lockable' = lockable /\ holder' = holder \ {p}
  /\ pc' = [pc EXCEPT ![p] = "idle"] /\ job' = [job EXCEPT ![p] = "none"]

Places ==
  /\ pc \in [Procs -> PastLock \cup {"idle", "lock"}] /\ job \in [Procs -> Jobs \cup {"none"}]
  /\ \A p \in Procs : ~Idle(p) => job[p] \in Jobs

\* Who is past the lock holds it, and one process does.
Exclusive ==
  lockable => /\ \A p \in Procs : Working(p) => p \in holder
              /\ \A p, q \in holder : p = q

LockInv == Places /\ Exclusive

LEMMA StepMoves ==
  ASSUME Places, NEW p \in Procs, NEW from \in PastLock, NEW to \in PastLock,
         Step(p, from, to) \/ CacheStep(p, from, to)
  PROVE  Moves(p)
  BY DEF Moves, Places, PastLock, Step, CacheStep, Goto, At, Idle, Working, lockVars

(* Every step of a started process that is not about the lock itself moves it *)
(* on past the lock or ends it.                                               *)
LEMMA ConfiguresMoves ==
  ASSUME Places, NEW p \in Procs, Configures(p)
  PROVE  Moves(p) \/ Leaves(p)
<1>1. CASE WriteTemplate(p) \/ SkipConfig(p) \/ NothingToMigrate(p) \/ NoArrs(p) \/ MigrateDone(p)
  BY <1>1 DEF WriteTemplate, SkipConfig, NothingToMigrate, NoArrs, MigrateDone, Ends, Closed,
              At, Goto, Idle, Leaves
<1>2. CASE LoadConfig(p) \/ ReadForRewrite(p)
  <2>1. \/ Step(p, "config", "rewrite") \/ Step(p, "config", "arrs")
        \/ Step(p, "rewrite", "write_backup") \/ Step(p, "rewrite", "done") \/ Step(p, "rewrite", "arrs")
    BY <1>2 DEF LoadConfig, ReadForRewrite, AfterRewrite
  <2> QED
    BY <2>1, StepMoves DEF PastLock
<1>3. CASE WriteBackup(p) \/ Swap(p) \/ RewriteFails(p)
  <2>1. PICK from \in {"write_backup", "swap"}, to \in {"swap", "done", "arrs"} : Step(p, from, to)
    BY <1>3 DEF WriteBackup, Swap, RewriteFails, AfterRewrite
  <2> QED
    BY <2>1, StepMoves DEF PastLock
<1> QED
  BY <1>1, <1>2, <1>3 DEF Configures

LEMMA ResolvesMoves ==
  ASSUME Places, NEW p \in Procs, Resolves(p)
  PROVE  Moves(p) \/ Leaves(p)
<1>1. CASE OpenRefused(p) \/ FirstDownloadFails(p) \/ ParseFails(p)
  BY <1>1 DEF OpenRefused, FirstDownloadFails, ParseFails, Skipped, Ends, Closed, At, Goto, Idle, Leaves
<1>2. CASE OpenIndex(p) \/ KeepCopy(p) \/ Stream(p) \/ Downloaded(p) \/ RefreshFails(p)
  <2>1. \/ Step(p, "arrs", "source") \/ Step(p, "source", "digest") \/ Step(p, "source", "stream")
        \/ Step(p, "stream", "digest")
    BY <1>2 DEF OpenIndex, KeepCopy, Stream, Downloaded, RefreshFails
  <2> QED
    BY <2>1, StepMoves DEF PastLock
<1>3. CASE Digest(p) \/ Clear(p) \/ Insert(p) \/ Stamp(p)
  <2>1. \/ Step(p, "digest", "legs") \/ Step(p, "digest", "parse") \/ Step(p, "parse", "insert")
        \/ Step(p, "insert", "stamp") \/ Step(p, "stamp", "legs")
    BY <1>3 DEF Digest, Clear, Insert, Stamp
  <2> QED
    BY <2>1, StepMoves DEF PastLock
<1>4. CASE WriteFails(p)
  <2>1. PICK from \in {"parse", "insert", "stamp"} : Step(p, from, "source")
    BY <1>4 DEF WriteFails
  <2> QED
    BY <2>1, StepMoves DEF PastLock
<1> QED
  BY <1>1, <1>2, <1>3, <1>4 DEF Resolves

LEMMA CachesMoves ==
  ASSUME Places, NEW p \in Procs, Caches(p)
  PROVE  Moves(p) \/ Leaves(p)
<1>1. CASE Finish(p) \/ BackupCache(p) \/ ReplaceCache(p) \/ RestoreFails(p) \/ NothingToUnlink(p) \/ Unlog(p)
  BY <1>1 DEF Finish, BackupCache, ReplaceCache, RestoreFails, NothingToUnlink, Unlog, Ends, Closed,
              At, Goto, Idle, Leaves
<1>2. CASE LegCommits(p) \/ CopySnapshot(p) \/ RemoveLog(p) \/ Unlink(p)
  <2>1. \/ CacheStep(p, "legs", "legs") \/ CacheStep(p, "copy", "sidecars")
        \/ CacheStep(p, "sidecars", "replace") \/ CacheStep(p, "unlink", "unlog")
    BY <1>2 DEF LegCommits, CopySnapshot, RemoveLog, Unlink
  <2> QED
    BY <2>1, StepMoves DEF PastLock
<1> QED
  BY <1>1, <1>2 DEF Caches

(* The four ways pc and the lock change in a step of the system.              *)
LEMMA StepOfTheLock ==
  ASSUME Places, BootNext
  PROVE  \/ \E p \in Procs : Moves(p) \/ Leaves(p) \/ TakeLock(p) \/ \E j \in Jobs : Start(p, j)
         \/ UNCHANGED <<lockable, holder, pc, job>>
<1>1. ASSUME NEW p \in Procs, Kill(p) PROVE Leaves(p)
  BY <1>1 DEF Kill, Closed, Goto, Leaves
<1>2. CASE EditConfig \/ SourceAges
  BY <1>2 DEF EditConfig, SourceAges, lockVars, Places
<1> QED
  BY <1>1, <1>2, ConfiguresMoves, ResolvesMoves, CachesMoves DEF BootNext

-----------------------------------------------------------------------------
(* One process at a time.                                                    *)

LEMMA StartsUnlocked == BootInit => LockInv
  BY DEF BootInit, LockInv, Places, Exclusive, Working, Idle

LEMMA LockInvKept == LockInv /\ [BootNext]_bootVars => LockInv'
<1> SUFFICES ASSUME LockInv, [BootNext]_bootVars PROVE LockInv'
  OBVIOUS
<1> USE DEF LockInv
<1>1. ASSUME UNCHANGED <<lockable, holder, pc, job>> PROVE LockInv'
  BY <1>1 DEF Places, Exclusive, Working, Idle, At
<1>2. ASSUME NEW p \in Procs, Moves(p) PROVE LockInv'
  BY <1>2 DEF Moves, Places, Exclusive, Working, Idle, At, PastLock
<1>3. ASSUME NEW p \in Procs, Leaves(p) PROVE LockInv'
  BY <1>3 DEF Leaves, Places, Exclusive, Working, Idle, At, PastLock
<1>4. ASSUME NEW p \in Procs, NEW j \in Jobs, Start(p, j) PROVE LockInv'
  BY <1>4 DEF Start, Places, Exclusive, Working, Idle, At, Goto, PastLock, lockVars
<1>5. ASSUME NEW p \in Procs, TakeLock(p) PROVE LockInv'
  <2>1. job[p] \in Jobs /\ pc[p] = "lock"
    BY <1>5 DEF TakeLock, Places, At, Idle
  <2>2. FirstStep(job[p]) \in PastLock
    BY <2>1, RunBootAssumption DEF RunBootAssumption, FirstStep, PastLock
  <2>3. CASE ~lockable
    BY <1>5, <2>1, <2>2, <2>3 DEF TakeLock, Places, Exclusive, Working, Idle, At, Goto, PastLock
  <2>4. CASE lockable /\ holder = {}
    BY <1>5, <2>1, <2>2, <2>4 DEF TakeLock, Places, Exclusive, Working, Idle, At, Goto, PastLock
  <2>5. CASE lockable /\ holder # {}
    BY <1>5, <2>1, <2>5 DEF TakeLock, Places, Exclusive, Working, Idle, At, Goto, PastLock
  <2> QED
    BY <2>3, <2>4, <2>5
<1>6. CASE UNCHANGED bootVars
  BY <1>1, <1>6 DEF bootVars, lockVars
<1> QED
  BY <1>1, <1>2, <1>3, <1>4, <1>5, <1>6, StepOfTheLock

(* Where the lock file can be had, no two processes are past the lock at once, *)
(* whatever command they run and whenever one is killed (single_instance_lock  *)
(* of runlock.py).                                                             *)
THEOREM OneProcess == BootSpec => []OneAtATime
<1>1. LockInv => OneAtATime
  BY DEF LockInv, Exclusive, Working, OneAtATime, At, Idle
<1> QED
  BY <1>1, StartsUnlocked, LockInvKept, PTL DEF BootSpec

-----------------------------------------------------------------------------
(* cache.db and its log.  A log without its database is a removal in progress, *)
(* and a restore has removed the log before it puts the copy in place.         *)

LogInv ==
  lockable => /\ cache # None /\ log # None => log.line = cache.line
              /\ cache = None /\ log # None => \E p \in Procs : At(p, "unlog")
              /\ \A p \in Procs : At(p, "replace") => log = None

\* The step is not one of the cache commands'.
OffCache(p) ==
  /\ cache' = cache /\ log' = log
  /\ pc' = [pc EXCEPT ![p] = pc'[p]] /\ pc[p] # "unlog" /\ pc'[p] # "replace"

LEMMA EndsOffCache ==
  ASSUME Places, NEW p \in Procs, NEW from \in PastLock \ {"unlog"}, Ends(p, from),
         UNCHANGED cacheVars
  PROVE  OffCache(p)
  BY DEF Places, Ends, Closed, At, Goto, OffCache, cacheVars, PastLock

LEMMA StepOffCache ==
  ASSUME Places, NEW p \in Procs, NEW from \in PastLock \ {"unlog"}, NEW to \in PastLock \ {"replace"},
         Step(p, from, to)
  PROVE  OffCache(p)
  BY DEF Places, Step, At, Goto, OffCache, cacheVars, PastLock

LEMMA ConfiguresOffCache ==
  ASSUME Places, NEW p \in Procs, Configures(p)
  PROVE  OffCache(p)
<1>1. CASE WriteTemplate(p) \/ SkipConfig(p) \/ NothingToMigrate(p) \/ NoArrs(p) \/ MigrateDone(p)
  <2>1. PICK from \in {"config", "rewrite", "arrs", "done"} : Ends(p, from) /\ UNCHANGED cacheVars
    BY <1>1 DEF WriteTemplate, SkipConfig, NothingToMigrate, NoArrs, MigrateDone
  <2> QED
    BY <2>1, EndsOffCache DEF PastLock
<1>2. CASE LoadConfig(p) \/ ReadForRewrite(p)
  <2>1. \/ Step(p, "config", "rewrite") \/ Step(p, "config", "arrs")
        \/ Step(p, "rewrite", "write_backup") \/ Step(p, "rewrite", "done") \/ Step(p, "rewrite", "arrs")
    BY <1>2 DEF LoadConfig, ReadForRewrite, AfterRewrite
  <2> QED
    BY <2>1, StepOffCache DEF PastLock
<1>3. CASE WriteBackup(p) \/ Swap(p) \/ RewriteFails(p)
  <2>1. PICK from \in {"write_backup", "swap"}, to \in {"swap", "done", "arrs"} : Step(p, from, to)
    BY <1>3 DEF WriteBackup, Swap, RewriteFails, AfterRewrite
  <2> QED
    BY <2>1, StepOffCache DEF PastLock
<1> QED
  BY <1>1, <1>2, <1>3 DEF Configures

LEMMA ResolvesOffCache ==
  ASSUME Places, NEW p \in Procs, Resolves(p)
  PROVE  OffCache(p)
<1>1. CASE OpenRefused(p) \/ FirstDownloadFails(p) \/ ParseFails(p)
  <2>1. PICK from \in {"arrs", "stream", "parse"} : Ends(p, from) /\ UNCHANGED cacheVars
    BY <1>1 DEF OpenRefused, FirstDownloadFails, ParseFails, Skipped
  <2> QED
    BY <2>1, EndsOffCache DEF PastLock
<1>2. CASE OpenIndex(p) \/ KeepCopy(p) \/ Stream(p) \/ Downloaded(p) \/ RefreshFails(p)
  <2>1. \/ Step(p, "arrs", "source") \/ Step(p, "source", "digest") \/ Step(p, "source", "stream")
        \/ Step(p, "stream", "digest")
    BY <1>2 DEF OpenIndex, KeepCopy, Stream, Downloaded, RefreshFails
  <2> QED
    BY <2>1, StepOffCache DEF PastLock
<1>3. CASE Digest(p) \/ Clear(p) \/ Insert(p) \/ Stamp(p) \/ WriteFails(p)
  <2>1. PICK from \in {"digest", "parse", "insert", "stamp"},
             to \in {"legs", "parse", "insert", "stamp", "source"} : Step(p, from, to)
    BY <1>3 DEF Digest, Clear, Insert, Stamp, WriteFails
  <2> QED
    BY <2>1, StepOffCache DEF PastLock
<1> QED
  BY <1>1, <1>2, <1>3 DEF Resolves

LEMMA OffCacheKeeps ==
  ASSUME Places, LogInv, NEW p \in Procs, OffCache(p), lockable' = lockable
  PROVE  LogInv'
  BY DEF Places, LogInv, OffCache, At

LEMMA CachesKeepLog ==
  ASSUME LockInv, LogInv, NEW p \in Procs, Caches(p)
  PROVE  LogInv'
<1> USE DEF LockInv
<1>1. ASSUME lockable, NEW from \in PastLock, At(p, from), NEW q \in Procs, Working(q)
      PROVE  q = p
  BY <1>1 DEF Exclusive, Working, Idle, At, PastLock
<1>2. lockable' = lockable
  BY CachesMoves DEF Moves, Leaves
<1>3. CASE ~lockable
  BY <1>2, <1>3 DEF LogInv
<1>4. ASSUME lockable, NEW from \in PastLock \ {"unlog"}, At(p, from) PROVE cache = None => log = None
  BY <1>1, <1>4 DEF LogInv, Working, Idle, At, PastLock
<1>5. ASSUME lockable, LegCommits(p) PROVE LogInv'
  <2>1. At(p, "legs") /\ pc' = [pc EXCEPT ![p] = "legs"]
    BY <1>5 DEF LegCommits, CacheStep, Goto
  <2>2. cache = None => log = None
    BY <1>4, <1>5, <2>1 DEF PastLock
  <2>3. \A q \in Procs : ~(At(q, "replace"))'
    BY <1>1, <1>5, <2>1 DEF PastLock, At, Working, Idle, Places
  <2> QED
    BY <1>5, <2>1, <2>2, <2>3 DEF LegCommits, LogInv, At
<1>6. ASSUME lockable, BackupCache(p) PROVE LogInv'
  <2>1. At(p, "backup_cache") /\ pc' = [pc EXCEPT ![p] = "idle"]
    BY <1>6 DEF BackupCache, Ends, Closed, Goto
  <2>2. cache = None => log = None
    BY <1>4, <1>6, <2>1 DEF PastLock
  <2> QED
    BY <1>6, <2>1, <2>2 DEF BackupCache, LogInv, At, Places
<1>7. ASSUME lockable, Finish(p) PROVE LogInv'
  <2>1. At(p, "legs") /\ pc' = [pc EXCEPT ![p] = "idle"]
    BY <1>7 DEF Finish, Ends, Closed, Goto
  <2> QED
    BY <1>4, <1>7, <2>1 DEF Finish, LogInv, At, Places, PastLock
<1>8. ASSUME lockable, RemoveLog(p) PROVE LogInv'
  BY <1>8 DEF RemoveLog, LogInv
<1>9. ASSUME lockable, ReplaceCache(p) PROVE LogInv'
  BY <1>9 DEF ReplaceCache, LogInv, Ends, Closed, Goto, At, Places
<1>10. ASSUME lockable, Unlink(p) PROVE LogInv'
  <2>1. At(p, "unlink") /\ pc' = [pc EXCEPT ![p] = "unlog"]
    BY <1>10 DEF Unlink, CacheStep, Goto
  <2>2. \A q \in Procs : ~(At(q, "replace"))'
    BY <1>1, <1>10, <2>1 DEF PastLock, At, Working, Idle, Places
  <2> QED
    BY <1>10, <2>1, <2>2 DEF Unlink, LogInv, At, Places
<1>11. ASSUME lockable, Unlog(p) PROVE LogInv'
  BY <1>11 DEF Unlog, LogInv
<1>12. CASE CopySnapshot(p) \/ RestoreFails(p) \/ NothingToUnlink(p)
  <2>1. CASE CopySnapshot(p)
    BY <1>2, <2>1, OffCacheKeeps DEF CopySnapshot, CacheStep, Goto, At, OffCache, Places, cacheVars
  <2>2. CASE RestoreFails(p) \/ NothingToUnlink(p)
    <3>1. PICK from \in {"copy", "replace", "unlink"} : Ends(p, from) /\ UNCHANGED cacheVars
      BY <2>2 DEF RestoreFails, NothingToUnlink, cacheVars
    <3> QED
      BY <1>2, <3>1, EndsOffCache, OffCacheKeeps DEF PastLock
  <2> QED
    BY <1>12, <2>1, <2>2
<1> QED
  BY <1>3, <1>5, <1>6, <1>7, <1>8, <1>9, <1>10, <1>11, <1>12 DEF Caches

LEMMA LogInvKept ==
  ASSUME ~KillInRemove, LockInv, LogInv, [BootNext]_bootVars
  PROVE  LogInv'
<1> USE DEF LockInv
<1>1. ASSUME NEW p \in Procs, Configures(p) \/ Resolves(p) PROVE LogInv'
  BY <1>1, ConfiguresOffCache, ResolvesOffCache, ConfiguresMoves, ResolvesMoves, OffCacheKeeps
     DEF Moves, Leaves
<1>2. ASSUME NEW p \in Procs, Caches(p) PROVE LogInv'
  BY <1>2, CachesKeepLog
<1>3. ASSUME NEW p \in Procs, Kill(p) PROVE LogInv'
  <2>1. OffCache(p) /\ lockable' = lockable
    BY <1>3 DEF Kill, Closed, Goto, At, OffCache, cacheVars, Places
  <2> QED
    BY <2>1, OffCacheKeeps
<1>4. ASSUME NEW p \in Procs, NEW j \in Jobs, Start(p, j) PROVE LogInv'
  <2>1. OffCache(p) /\ lockable' = lockable
    BY <1>4 DEF Start, Goto, Idle, OffCache, cacheVars, lockVars, Places
  <2> QED
    BY <2>1, OffCacheKeeps
<1>5. ASSUME NEW p \in Procs, TakeLock(p) PROVE LogInv'
  <2>1. FirstStep(job[p]) \in PastLock \ {"replace"}
    BY <1>5, RunBootAssumption DEF TakeLock, At, Places, Idle, RunBootAssumption, FirstStep, PastLock
  <2>2. OffCache(p) /\ lockable' = lockable
    BY <1>5, <2>1 DEF TakeLock, Goto, At, OffCache, cacheVars, Places
  <2> QED
    BY <2>2, OffCacheKeeps
<1>6. CASE EditConfig \/ SourceAges \/ UNCHANGED bootVars
  BY <1>6 DEF EditConfig, SourceAges, bootVars, lockVars, cacheVars, LogInv, At
<1> QED
  BY <1>1, <1>2, <1>3, <1>4, <1>5, <1>6 DEF BootNext

(* With the lock, and no kill between the two deletions of a removal, cache.db *)
(* never opens beside the log of another database, whatever is restored,       *)
(* removed, backed up or killed (cache_restore, cache_remove).                 *)
THEOREM LogStaysItsOwn == ASSUME ~KillInRemove PROVE BootSpec => []LogIsItsOwn
<1>1. BootInit => LogInv
  BY DEF BootInit, LogInv, At
<1>2. LogInv => LogIsItsOwn
  BY DEF LogInv, LogIsItsOwn
<1> QED
  BY <1>1, <1>2, StartsUnlocked, LockInvKept, LogInvKept, PTL DEF BootSpec

-----------------------------------------------------------------------------
(* config.yml.  From the read of a rewrite to its swap the file holds the     *)
(* bytes the process read, and from the backup's write on the backup does.    *)

Rewriting == {"rewrite", "write_backup", "swap"}

ConfigTypes ==
  /\ config # None => config \in Config
  /\ loaded \in [Procs -> Config \cup {None}]

\* What the process knows of the file it is about to replace.
ReadBack(p) ==
  /\ At(p, "rewrite") => job[p] \in {"run", "migrate"}
  /\ InRewrite(p) => config # None /\ loaded[p] = config
  /\ At(p, "swap") => bak = config

RewriteInv == lockable => ConfigTypes /\ \A p \in Procs : ReadBack(p)

\* The step is no part of a rewrite.
OffRewrite(p) ==
  /\ config' = config /\ pc' = [pc EXCEPT ![p] = pc'[p]] /\ pc'[p] \notin Rewriting
  /\ loaded' = loaded \/ loaded' = [loaded EXCEPT ![p] = None]

(* A working process leaves the others idle or waiting, so what a step has to  *)
(* keep of RewriteInv is what it says of the process that takes it.            *)
LEMMA OwnStep ==
  ASSUME LockInv, RewriteInv, NEW p \in Procs, Moves(p) \/ Leaves(p), Working(p),
         lockable => ConfigTypes' /\ ReadBack(p)'
  PROVE  RewriteInv'
<1>1. lockable' = lockable /\ pc' = [pc EXCEPT ![p] = pc'[p]]
  BY DEF Moves, Leaves, LockInv, Places
<1>2. ASSUME lockable, NEW q \in Procs, q # p PROVE ~Working(q) /\ pc'[q] = pc[q]
  BY <1>1, <1>2 DEF LockInv, Exclusive, Places
<1>3. ASSUME lockable, NEW q \in Procs, q # p PROVE ReadBack(q)'
  BY <1>2, <1>3 DEF ReadBack, InRewrite, At, Working, Idle
<1> QED
  BY <1>1, <1>3 DEF RewriteInv

LEMMA OffRewriteKeeps ==
  ASSUME LockInv, RewriteInv, NEW p \in Procs, Moves(p) \/ Leaves(p), Working(p), OffRewrite(p)
  PROVE  RewriteInv'
<1>1. pc'[p] \notin Rewriting => ReadBack(p)'
  BY DEF ReadBack, InRewrite, At, Rewriting
<1>2. lockable => ConfigTypes'
  BY DEF OffRewrite, RewriteInv, ConfigTypes
<1> QED
  BY <1>1, <1>2, OwnStep DEF OffRewrite

LEMMA EndsOffRewrite ==
  ASSUME Places, NEW p \in Procs, NEW from \in PastLock, Ends(p, from), config' = config
  PROVE  OffRewrite(p) /\ Working(p)
  BY DEF Places, Ends, Closed, Goto, At, Idle, Working, OffRewrite, Rewriting, PastLock

LEMMA StepOffRewrite ==
  ASSUME Places, NEW p \in Procs, NEW from \in PastLock, NEW to \in PastLock \ Rewriting,
         Step(p, from, to) \/ CacheStep(p, from, to), config' = config, loaded' = loaded
  PROVE  OffRewrite(p) /\ Working(p)
  BY DEF Places, Step, CacheStep, Goto, At, Idle, Working, OffRewrite, PastLock

LEMMA ResolvesKeepsRewrite ==
  ASSUME LockInv, RewriteInv, NEW p \in Procs, Resolves(p)
  PROVE  RewriteInv'
<1> USE DEF LockInv
<1>1. CASE OpenRefused(p) \/ FirstDownloadFails(p) \/ ParseFails(p)
  <2>1. PICK from \in {"arrs", "stream", "parse"} : Ends(p, from) /\ config' = config
    BY <1>1 DEF OpenRefused, FirstDownloadFails, ParseFails, Skipped, configVars
  <2> QED
    BY <2>1, EndsOffRewrite, ResolvesMoves, OffRewriteKeeps DEF PastLock
<1>2. CASE OpenIndex(p) \/ KeepCopy(p) \/ Stream(p) \/ Downloaded(p) \/ RefreshFails(p)
  <2>1. PICK from \in {"arrs", "source", "stream"}, to \in {"source", "digest", "stream"} :
          Step(p, from, to) /\ config' = config /\ loaded' = loaded
    BY <1>2 DEF OpenIndex, KeepCopy, Stream, Downloaded, RefreshFails, configVars
  <2> QED
    BY <2>1, StepOffRewrite, ResolvesMoves, OffRewriteKeeps DEF PastLock, Rewriting
<1>3. CASE Digest(p) \/ Clear(p) \/ Insert(p) \/ Stamp(p) \/ WriteFails(p)
  <2>1. PICK from \in {"digest", "parse", "insert", "stamp"},
             to \in {"legs", "parse", "insert", "stamp", "source"} :
          Step(p, from, to) /\ config' = config /\ loaded' = loaded
    BY <1>3 DEF Digest, Clear, Insert, Stamp, WriteFails, configVars
  <2> QED
    BY <2>1, StepOffRewrite, ResolvesMoves, OffRewriteKeeps DEF PastLock, Rewriting
<1> QED
  BY <1>1, <1>2, <1>3 DEF Resolves

LEMMA CachesKeepRewrite ==
  ASSUME LockInv, RewriteInv, NEW p \in Procs, Caches(p)
  PROVE  RewriteInv'
<1> USE DEF LockInv
<1>1. CASE Finish(p) \/ BackupCache(p) \/ ReplaceCache(p) \/ RestoreFails(p) \/ NothingToUnlink(p) \/ Unlog(p)
  <2>1. PICK from \in {"legs", "backup_cache", "copy", "replace", "unlink", "unlog"} :
          Ends(p, from) /\ config' = config
    BY <1>1 DEF Finish, BackupCache, ReplaceCache, RestoreFails, NothingToUnlink, Unlog, configVars
  <2> QED
    BY <2>1, EndsOffRewrite, CachesMoves, OffRewriteKeeps DEF PastLock
<1>2. CASE LegCommits(p) \/ CopySnapshot(p) \/ RemoveLog(p) \/ Unlink(p)
  <2>1. PICK from \in {"legs", "copy", "sidecars", "unlink"},
             to \in {"legs", "sidecars", "replace", "unlog"} :
          CacheStep(p, from, to) /\ config' = config /\ loaded' = loaded
    BY <1>2 DEF LegCommits, CopySnapshot, RemoveLog, Unlink, CacheStep, Unmapped, configVars
  <2> QED
    BY <2>1, StepOffRewrite, CachesMoves, OffRewriteKeeps DEF PastLock, Rewriting
<1> QED
  BY <1>1, <1>2 DEF Caches

LEMMA ConfiguresKeepsRewrite ==
  ASSUME LockInv, RewriteInv, NEW p \in Procs, Configures(p)
  PROVE  RewriteInv'
<1> USE DEF LockInv
<1>1. Moves(p) \/ Leaves(p)
  BY ConfiguresMoves
<1>2. CASE SkipConfig(p) \/ NothingToMigrate(p) \/ NoArrs(p) \/ MigrateDone(p)
  <2>1. PICK from \in {"config", "rewrite", "arrs", "done"} : Ends(p, from) /\ config' = config
    BY <1>2 DEF SkipConfig, NothingToMigrate, NoArrs, MigrateDone, configVars
  <2> QED
    BY <1>1, <2>1, EndsOffRewrite, OffRewriteKeeps DEF PastLock
<1>3. CASE WriteTemplate(p)
  <2>1. Working(p) /\ pc'[p] = "idle"
    BY <1>3 DEF WriteTemplate, Ends, Closed, Goto, At, Idle, Working, Places
  <2>2. ReadBack(p)'
    BY <2>1 DEF ReadBack, InRewrite, At
  <2>3. Template \in Config
    BY RunBootAssumption DEF RunBootAssumption, Template, Config
  <2>4. lockable => ConfigTypes'
    BY <1>3, <2>3 DEF WriteTemplate, Ends, Closed, RewriteInv, ConfigTypes
  <2> QED
    BY <1>1, <2>1, <2>2, <2>4, OwnStep
<1>4. CASE LoadConfig(p)
  <2>1. Working(p) /\ job' = job /\ pc'[p] \in {"rewrite", "arrs"} /\ (pc'[p] = "rewrite" => job[p] = "run")
    BY <1>4 DEF LoadConfig, Step, Goto, At, Idle, Working, Places
  <2>2. ReadBack(p)'
    BY <2>1 DEF ReadBack, InRewrite, At
  <2>3. lockable => ConfigTypes'
    BY <1>4 DEF LoadConfig, RewriteInv, ConfigTypes, configVars
  <2> QED
    BY <1>1, <2>1, <2>2, <2>3, OwnStep
<1>5. CASE ReadForRewrite(p)
  <2>1. Working(p) /\ pc'[p] \in {"write_backup", "done", "arrs"} /\ config # None /\ config' = config
    BY <1>5 DEF ReadForRewrite, AfterRewrite, Step, Goto, At, Idle, Working, Places, configVars
  <2>2. lockable => ConfigTypes'
    BY <1>5 DEF ReadForRewrite, RewriteInv, ConfigTypes, configVars
  <2>3. ASSUME lockable PROVE ReadBack(p)'
    <3>1. loaded \in [Procs -> Config \cup {None}] /\ job[p] \in {"run", "migrate"}
      BY <1>5, <2>3 DEF RewriteInv, ConfigTypes, ReadBack, ReadForRewrite, Step
    <3>2. pc'[p] = "write_backup" => (job[p] = "run" => config = loaded[p])
      BY <1>5 DEF ReadForRewrite, AfterRewrite, Step, Goto, Places
    <3>3. pc'[p] = "write_backup" => loaded'[p] = config
      BY <1>5, <3>1, <3>2 DEF ReadForRewrite
    <3> QED
      BY <2>1, <3>3 DEF ReadBack, InRewrite, At
  <2> QED
    BY <1>1, <2>1, <2>2, <2>3, OwnStep
<1>6. CASE WriteBackup(p)
  <2>1. Working(p) /\ InRewrite(p) /\ pc'[p] = "swap" /\ config' = config /\ loaded' = loaded /\ bak' = loaded[p]
    BY <1>6 DEF WriteBackup, Step, Goto, At, Idle, Working, InRewrite, Places
  <2>2. lockable => ConfigTypes' /\ ReadBack(p)'
    BY <2>1 DEF RewriteInv, ConfigTypes, ReadBack, InRewrite, At
  <2> QED
    BY <1>1, <2>1, <2>2, OwnStep
<1>7. CASE Swap(p)
  <2>1. Working(p) /\ InRewrite(p) /\ pc'[p] \in {"done", "arrs"} /\ loaded' = loaded
    BY <1>7 DEF Swap, AfterRewrite, Step, Goto, At, Idle, Working, InRewrite, Places
  <2>2. ReadBack(p)'
    BY <2>1 DEF ReadBack, InRewrite, At
  <2>3. lockable => loaded[p] \in Config
    BY <2>1 DEF RewriteInv, ConfigTypes, ReadBack
  <2>4. lockable => config' \in Config
    BY <1>7, <2>3 DEF Swap, Rewritten, Config
  <2>5. lockable => ConfigTypes'
    BY <2>1, <2>4 DEF RewriteInv, ConfigTypes
  <2> QED
    BY <1>1, <2>1, <2>2, <2>5, OwnStep
<1>8. CASE RewriteFails(p)
  <2>1. PICK from \in {"write_backup", "swap"}, to \in {"done", "arrs"} :
          Step(p, from, to) /\ config' = config /\ loaded' = loaded
    BY <1>8 DEF RewriteFails, AfterRewrite
  <2> QED
    BY <1>1, <2>1, StepOffRewrite, OffRewriteKeeps DEF PastLock, Rewriting
<1> QED
  BY <1>2, <1>3, <1>4, <1>5, <1>6, <1>7, <1>8 DEF Configures

LEMMA RewriteInvKept ==
  ASSUME ~EditInRewrite, LockInv, RewriteInv, [BootNext]_bootVars
  PROVE  RewriteInv'
<1> USE DEF LockInv
<1>1. ASSUME NEW p \in Procs, Configures(p) \/ Resolves(p) \/ Caches(p) PROVE RewriteInv'
  BY <1>1, ConfiguresKeepsRewrite, ResolvesKeepsRewrite, CachesKeepRewrite
<1>2. ASSUME NEW p \in Procs, Kill(p) PROVE RewriteInv'
  <2>1. OffRewrite(p) /\ Leaves(p)
    BY <1>2 DEF Kill, Closed, Goto, OffRewrite, Rewriting, Leaves, Places
  <2>2. CASE Working(p)
    BY <2>1, <2>2, OffRewriteKeeps
  <2>3. CASE At(p, "lock")
    <3>1. bak' = bak /\ config' = config /\ pc' = [pc EXCEPT ![p] = "idle"]
          /\ job' = [job EXCEPT ![p] = "none"] /\ loaded' = [loaded EXCEPT ![p] = None] /\ lockable' = lockable
      BY <1>2, <2>3 DEF Kill, Closed, Goto, At
    <3>2. lockable => ConfigTypes'
      BY <3>1 DEF RewriteInv, ConfigTypes
    <3>3. ASSUME lockable, NEW q \in Procs PROVE ReadBack(q)'
      BY <3>1, <3>3 DEF RewriteInv, ConfigTypes, ReadBack, InRewrite, At, Places
    <3> QED
      BY <3>1, <3>2, <3>3 DEF RewriteInv
  <2> QED
    BY <1>2, <2>2, <2>3 DEF Kill, Working
<1>3. ASSUME NEW p \in Procs, NEW j \in Jobs, Start(p, j) PROVE RewriteInv'
  <2>1. UNCHANGED <<lockable, config, bak, loaded>> /\ pc' = [pc EXCEPT ![p] = "lock"]
        /\ job' = [job EXCEPT ![p] = j]
    BY <1>3 DEF Start, Goto, lockVars, configVars
  <2> QED
    BY <2>1 DEF RewriteInv, ConfigTypes, ReadBack, InRewrite, At, Places
<1>4. ASSUME NEW p \in Procs, TakeLock(p) PROVE RewriteInv'
  <2>1. UNCHANGED <<lockable, config, bak, loaded>> /\ At(p, "lock") /\ job[p] \in Jobs
    BY <1>4 DEF TakeLock, configVars, At, Places, Idle
  <2>2. \/ pc' = [pc EXCEPT ![p] = FirstStep(job[p])] /\ job' = job
        \/ pc' = [pc EXCEPT ![p] = "idle"] /\ job' = [job EXCEPT ![p] = "none"]
    BY <1>4 DEF TakeLock, Goto
  <2>3. FirstStep(job[p]) \notin {"write_backup", "swap"} /\ (FirstStep(job[p]) = "rewrite" => job[p] = "migrate")
    BY <2>1, RunBootAssumption DEF RunBootAssumption, FirstStep
  <2> QED
    BY <2>1, <2>2, <2>3 DEF RewriteInv, ConfigTypes, ReadBack, InRewrite, At, Places
<1>5. CASE EditConfig
  <2>1. /\ UNCHANGED <<lockable, pc, job, bak, loaded>> /\ config # None
        /\ \A p \in Procs : ~InRewrite(p)
        /\ config.edit < MaxEdits /\ config' = [config EXCEPT !.edit = @ + 1]
    BY <1>5 DEF EditConfig, lockVars
  <2>2. lockable => config' \in Config
    BY <2>1, RunBootAssumption DEF RunBootAssumption, RewriteInv, ConfigTypes, Config
  <2> QED
    BY <2>1, <2>2 DEF RewriteInv, ConfigTypes, ReadBack, InRewrite, At
<1>6. CASE SourceAges \/ UNCHANGED bootVars
  BY <1>6 DEF SourceAges, bootVars, lockVars, configVars, RewriteInv, ConfigTypes, ReadBack, InRewrite, At
<1> QED
  BY <1>1, <1>2, <1>3, <1>4, <1>5, <1>6 DEF BootNext

LEMMA WritersOfConfig ==
  ASSUME BootNext, config' # config
  PROVE  EditConfig \/ \E p \in Procs : WriteTemplate(p) \/ Swap(p)
<1>1. ASSUME NEW p \in Procs, Configures(p) PROVE WriteTemplate(p) \/ Swap(p)
  BY <1>1 DEF Configures, SkipConfig, LoadConfig, ReadForRewrite, NothingToMigrate, WriteBackup,
              RewriteFails, NoArrs, MigrateDone, configVars
<1>2. ASSUME NEW p \in Procs, Resolves(p) PROVE FALSE
  BY <1>2 DEF Resolves, OpenIndex, OpenRefused, KeepCopy, Stream, Downloaded, RefreshFails, Skipped,
              FirstDownloadFails, Digest, ParseFails, Clear, Insert, Stamp, WriteFails, configVars
<1>3. ASSUME NEW p \in Procs, Caches(p) PROVE FALSE
  BY <1>3 DEF Caches, LegCommits, Finish, BackupCache, CopySnapshot, RemoveLog, ReplaceCache, RestoreFails,
              Unlink, NothingToUnlink, Unlog, CacheStep, Unmapped, configVars
<1>4. ASSUME NEW p \in Procs, TakeLock(p) \/ Kill(p) \/ \E j \in Jobs : Start(p, j) PROVE FALSE
  BY <1>4 DEF TakeLock, Kill, Start, configVars
<1>5. ~SourceAges
  BY DEF SourceAges, configVars
<1> QED
  BY <1>1, <1>2, <1>3, <1>4, <1>5 DEF BootNext

(* With the lock, and no edit saved between a rewrite's read and its swap, an  *)
(* automatic or asked for rewrite of config.yml loses no setting and leaves    *)
(* the bytes it replaced in the backup (upgrade_config_file).                  *)
THEOREM RewritesKeepSettings == ASSUME ~EditInRewrite PROVE BootSpec => RewriteKeepsSettings
<1>1. BootInit => RewriteInv
  BY RunBootAssumption DEF BootInit, RunBootAssumption, RewriteInv, ConfigTypes, Config, ReadBack, InRewrite, At
<1>2. ASSUME LockInv, RewriteInv, BootNext, lockable, NEW p \in Procs, At(p, "swap"),
             config'.schema # config.schema
      PROVE  loaded[p] = config /\ config'.edit = config.edit /\ bak' = config
  <2>1. config \in Config /\ loaded[p] = config /\ bak = config
    BY <1>2 DEF RewriteInv, ConfigTypes, ReadBack, InRewrite, At
  <2>2. \A q \in Procs : Working(q) => q = p
    BY <1>2 DEF LockInv, Exclusive, Working, Idle, At
  <2>3. CASE Swap(p)
    BY <2>1, <2>3 DEF Swap, Rewritten, Config
  <2>4. PICK q \in Procs : WriteTemplate(q) \/ Swap(q)
    BY <1>2, WritersOfConfig DEF EditConfig, InRewrite, At
  <2>5. Working(q)
    BY <2>4 DEF WriteTemplate, Swap, Ends, Step, Working, Idle, At
  <2>6. ~WriteTemplate(q)
    BY <1>2, <2>2, <2>5 DEF WriteTemplate, Ends, At
  <2> QED
    BY <2>2, <2>3, <2>4, <2>5, <2>6
<1>3. LockInv /\ RewriteInv /\ [BootNext]_bootVars =>
        [lockable => \A p \in Procs :
           At(p, "swap") /\ config'.schema # config.schema =>
             /\ loaded[p] = config
             /\ config'.edit = config.edit
             /\ bak' = config]_bootVars
  BY <1>2
<1> QED
  BY <1>1, <1>3, StartsUnlocked, LockInvKept, RewriteInvKept, PTL DEF BootSpec, RewriteKeepsSettings

-----------------------------------------------------------------------------
(* The mapping source and its index.                                         *)

Versions == 0..Torn
Indexes  == [on : {"none", "disk", "memory"}, rows : Versions, digest : Versions]

\* A copy that parses is of a version no later than what is published.
Published(v) == v = Torn \/ v <= upstream
Older(v, w)  == v = Torn \/ w = Torn \/ v <= w
Streamed(p)  == part[p] \notin {0, Torn}

\* A stamped digest vouches for rows that are there, and no older.
Whole(i) ==
  /\ i.digest # 0 => i.rows # 0
  /\ i.digest = Torn \/ i.digest <= i.rows
  /\ lockable => i.digest = i.rows

\* Rows, or a copy about to become them, that a digest may be stamped over.
Vouched(rows, digest) == rows # 0 /\ (digest = Torn \/ digest <= rows)

\* The source copy: what is streamed whole is as new as any copy or digest there
\* is, and only one process streams so.
CopyInv ==
  /\ upstream \in 1..MaxVersion /\ src \in [v : Versions, aged : BOOLEAN]
  /\ part \in [Procs -> Versions] /\ index \in [Procs -> Indexes]
  /\ seen \in [Procs -> Versions] /\ parsed \in [Procs -> Versions]
  /\ Published(src.v) /\ \A p \in Procs : Published(part[p])
  /\ \A p \in Procs : Streamed(p) =>
       Older(src.v, part[p]) /\ \A q \in Procs : Streamed(q) => p = q
  /\ db # None => db \in [rows : Versions, digest : Versions] /\ Whole(db)

\* What a process has read of it so far.
ReaderInv(p) ==
  /\ Published(seen[p]) /\ Older(seen[p], src.v)
  /\ \A q \in Procs : Streamed(q) => Older(seen[p], part[q])
  /\ pc[p] = "stream" => part[p] # 0
  /\ pc[p] \in {"digest", "parse", "insert", "stamp"} => src.v # 0
  /\ pc[p] \in {"source", "stream", "digest"} => Whole(index[p])
  /\ pc[p] \in {"insert", "stamp"} => Vouched(parsed[p], seen[p])
  /\ pc[p] = "stamp" => index[p].rows = parsed[p]
  /\ pc[p] = "legs" => Vouched(index[p].rows, seen[p])
  /\ lockable =>
       /\ pc[p] \in {"parse", "insert", "stamp"} => seen[p] = src.v
       /\ pc[p] \in {"insert", "stamp"} => parsed[p] = src.v
       /\ pc[p] \in {"stamp", "legs"} => index[p].rows = src.v

SourceInv == CopyInv /\ \A p \in Procs : ReaderInv(p)

\* Who has opened the index: what a process has read matters until its run ends.
Resolving == {"source", "stream", "digest", "parse", "insert", "stamp", "legs"}

\* The other processes see what they saw.
Alone(p) ==
  /\ pc' = [pc EXCEPT ![p] = pc'[p]] /\ index' = [index EXCEPT ![p] = index'[p]]
  /\ seen' = [seen EXCEPT ![p] = seen'[p]] /\ parsed' = [parsed EXCEPT ![p] = parsed'[p]]

\* The step reads no more of the source, or ends the process.
OffSource(p) ==
  /\ Alone(p) /\ db' = db /\ lockable' = lockable
  /\ \/ UNCHANGED <<index, seen, parsed>> /\ (pc'[p] \notin Resolving \/ pc'[p] = pc[p])
     \/ /\ index'[p] = Nowhere /\ seen'[p] = 0 /\ parsed'[p] = 0
        /\ pc'[p] \notin Resolving

LEMMA VersionsOrdered ==
  /\ Torn \in Nat /\ MaxVersion \in Nat /\ Torn # 0 /\ MaxVersion < Torn
  /\ Versions = 0..Torn /\ Versions \subseteq Nat /\ 0 \in Versions /\ Torn \in Versions
  /\ Nowhere \in Indexes
  BY RunBootAssumption DEF RunBootAssumption, Torn, Versions, Nowhere, Indexes

(* A step that leaves the source copy alone has to keep what the process that  *)
(* takes it has read, and the index whole.                                     *)
LEMMA ReaderStep ==
  ASSUME Places, SourceInv, NEW p \in Procs, Alone(p), UNCHANGED <<lockable, upstream, src>>,
         part' = part \/ Unstreamed(p),
         db' # None => db' \in [rows : Versions, digest : Versions] /\ Whole(db)',
         index'[p] \in Indexes, seen'[p] \in Versions, parsed'[p] \in Versions,
         ReaderInv(p)'
  PROVE  SourceInv'
<1>1. CopyInv'
  <2>1. /\ index' \in [Procs -> Indexes] /\ seen' \in [Procs -> Versions]
        /\ parsed' \in [Procs -> Versions]
    BY DEF SourceInv, CopyInv, Alone
  <2>2. part' \in [Procs -> Versions] /\ \A q \in Procs : part'[q] = part[q] \/ part'[q] = 0
    <3>1. part \in [Procs -> Versions] /\ 0 \in Versions
      BY VersionsOrdered DEF SourceInv, CopyInv
    <3>2. CASE part' = part
      BY <3>1, <3>2
    <3>3. CASE Unstreamed(p)
      BY <3>1, <3>3 DEF Unstreamed
    <3> QED
      BY <3>2, <3>3
  <2>3. \A q \in Procs : Published(part'[q])
    <3>1. Published(0)
      BY VersionsOrdered DEF SourceInv, CopyInv, Published
    <3> QED
      BY <2>2, <3>1 DEF SourceInv, CopyInv
  <2> QED
    BY <2>1, <2>2, <2>3 DEF SourceInv, CopyInv, Published, Streamed
<1>2. ASSUME NEW q \in Procs, q # p PROVE ReaderInv(q)'
  <2>1. pc'[q] = pc[q] /\ index'[q] = index[q] /\ seen'[q] = seen[q] /\ parsed'[q] = parsed[q]
    BY <1>2 DEF Alone, SourceInv, CopyInv, Places
  <2>2. /\ part'[q] = part[q]
        /\ \A r \in Procs : Streamed(r)' => Streamed(r) /\ part'[r] = part[r]
    BY <1>2 DEF SourceInv, CopyInv, Unstreamed, Streamed
  <2> QED
    BY <2>1, <2>2 DEF SourceInv, ReaderInv, Published, Whole
<1> QED
  BY <1>1, <1>2 DEF SourceInv

LEMMA OffSourceKeeps ==
  ASSUME Places, SourceInv, NEW p \in Procs, OffSource(p), UNCHANGED <<upstream, src>>,
         part' = part \/ (Unstreamed(p) /\ pc'[p] \notin Resolving)
  PROVE  SourceInv'
<1>1. /\ index'[p] \in Indexes /\ seen'[p] \in Versions /\ parsed'[p] \in Versions
      /\ Published(seen'[p]) /\ Older(seen'[p], src.v)
      /\ \A q \in Procs : Streamed(q) => Older(seen'[p], part[q])
  <2>1. CASE UNCHANGED <<index, seen, parsed>>
    BY <2>1 DEF SourceInv, CopyInv, ReaderInv
  <2>2. CASE index'[p] = Nowhere /\ seen'[p] = 0 /\ parsed'[p] = 0
    BY <2>2, VersionsOrdered DEF SourceInv, CopyInv, Published, Older
  <2> QED
    BY <2>1, <2>2 DEF OffSource
<1>2. CASE pc'[p] \notin Resolving
  <2>1. \A q \in Procs : Streamed(q)' => Streamed(q) /\ part'[q] = part[q]
    BY DEF SourceInv, CopyInv, Unstreamed, Streamed
  <2>2. ReaderInv(p)'
    BY <1>1, <1>2, <2>1 DEF OffSource, ReaderInv, Resolving, Published
  <2> QED
    BY <1>1, <2>2, ReaderStep DEF OffSource, SourceInv, CopyInv, Whole
<1>3. CASE pc'[p] = pc[p] /\ UNCHANGED <<index, seen, parsed>> /\ part' = part
  <2>1. ReaderInv(p)'
    BY <1>3 DEF OffSource, SourceInv, ReaderInv, Published, Streamed, Whole
  <2> QED
    BY <1>1, <2>1, ReaderStep DEF OffSource, SourceInv, CopyInv, Whole
<1> QED
  BY <1>2, <1>3 DEF OffSource

LEMMA EndsOffSource ==
  ASSUME Places, SourceInv, NEW p \in Procs, Closed(p)
  PROVE  OffSource(p)
<1>1. /\ pc \in [Procs -> PastLock \cup {"idle", "lock"}]
      /\ index \in [Procs -> Indexes] /\ seen \in [Procs -> Versions] /\ parsed \in [Procs -> Versions]
  BY DEF Places, SourceInv, CopyInv
<1>2. /\ pc' = [pc EXCEPT ![p] = "idle"] /\ index' = [index EXCEPT ![p] = Nowhere]
      /\ seen' = [seen EXCEPT ![p] = 0] /\ parsed' = [parsed EXCEPT ![p] = 0]
      /\ db' = db /\ lockable' = lockable
  BY DEF Closed, Goto
<1>3. pc'[p] = "idle" /\ index'[p] = Nowhere /\ seen'[p] = 0 /\ parsed'[p] = 0
  BY <1>1, <1>2
<1> QED
  BY <1>2, <1>3 DEF OffSource, Alone, Resolving

LEMMA StepOffSource ==
  ASSUME Places, SourceInv, NEW p \in Procs, NEW where, Goto(p, where),
         where \notin Resolving \/ where = pc[p], UNCHANGED indexVars, lockable' = lockable
  PROVE  OffSource(p)
<1>1. /\ pc \in [Procs -> PastLock \cup {"idle", "lock"}]
      /\ index \in [Procs -> Indexes] /\ seen \in [Procs -> Versions] /\ parsed \in [Procs -> Versions]
  BY DEF Places, SourceInv, CopyInv
<1>2. pc' = [pc EXCEPT ![p] = where] /\ UNCHANGED <<db, index, seen, parsed>>
  BY DEF Goto, indexVars
<1>3. pc'[p] = where
  BY <1>1, <1>2
<1> QED
  BY <1>1, <1>2, <1>3 DEF OffSource, Alone

LEMMA ConfiguresOffSource ==
  ASSUME Places, SourceInv, NEW p \in Procs, Configures(p)
  PROVE  OffSource(p) /\ UNCHANGED <<upstream, src, part>>
<1>1. CASE WriteTemplate(p) \/ SkipConfig(p) \/ NothingToMigrate(p) \/ NoArrs(p) \/ MigrateDone(p)
  BY <1>1, EndsOffSource DEF WriteTemplate, SkipConfig, NothingToMigrate, NoArrs, MigrateDone, Ends, sourceVars
<1>2. CASE LoadConfig(p) \/ ReadForRewrite(p) \/ WriteBackup(p) \/ Swap(p) \/ RewriteFails(p)
  <2>1. PICK where \in {"rewrite", "arrs", "write_backup", "done", "swap"} : Goto(p, where)
    BY <1>2 DEF LoadConfig, ReadForRewrite, WriteBackup, Swap, RewriteFails, AfterRewrite, Step
  <2>2. UNCHANGED indexVars /\ lockable' = lockable /\ UNCHANGED sourceVars
    BY <1>2 DEF LoadConfig, ReadForRewrite, WriteBackup, Swap, RewriteFails, Step, lockVars
  <2> QED
    BY <2>1, <2>2, StepOffSource DEF Resolving, sourceVars
<1> QED
  BY <1>1, <1>2 DEF Configures

LEMMA CachesOffSource ==
  ASSUME Places, SourceInv, NEW p \in Procs, Caches(p)
  PROVE  OffSource(p) /\ UNCHANGED <<upstream, src, part>>
<1>1. CASE Finish(p) \/ BackupCache(p) \/ ReplaceCache(p) \/ RestoreFails(p) \/ NothingToUnlink(p) \/ Unlog(p)
  BY <1>1, EndsOffSource DEF Finish, BackupCache, ReplaceCache, RestoreFails, NothingToUnlink, Unlog,
                             Ends, sourceVars
<1>2. CASE LegCommits(p) \/ CopySnapshot(p) \/ RemoveLog(p) \/ Unlink(p)
  <2>1. PICK where \in {"legs", "sidecars", "replace", "unlog"} :
          Goto(p, where) /\ (where \notin Resolving \/ where = pc[p])
    BY <1>2 DEF LegCommits, CopySnapshot, RemoveLog, Unlink, CacheStep, At, Resolving
  <2>2. UNCHANGED indexVars /\ lockable' = lockable /\ UNCHANGED sourceVars
    BY <1>2 DEF LegCommits, CopySnapshot, RemoveLog, Unlink, CacheStep, Unmapped, lockVars
  <2> QED
    BY <2>1, <2>2, StepOffSource DEF sourceVars
<1> QED
  BY <1>1, <1>2 DEF Caches

\* What a step of Resolves leaves of the process's own place and view.
LEMMA StepAlone ==
  ASSUME Places, SourceInv, NEW p \in Procs, NEW from, NEW to, Step(p, from, to),
         index' = [index EXCEPT ![p] = index'[p]], seen' = [seen EXCEPT ![p] = seen'[p]],
         parsed' = [parsed EXCEPT ![p] = parsed'[p]]
  PROVE  Alone(p) /\ pc[p] = from /\ pc'[p] = to /\ lockable' = lockable
  BY DEF Step, At, Goto, Alone, Places, lockVars

(* The index is opened, or a write of it fails: what the process sees is whole. *)
LEMMA OpensKeep ==
  ASSUME Places, SourceInv, NEW p \in Procs, OpenIndex(p) \/ WriteFails(p)
  PROVE  SourceInv'
<1>1. PICK from \in {"arrs", "parse", "insert", "stamp"} : Step(p, from, "source")
  BY DEF OpenIndex, WriteFails
<1>2. /\ index \in [Procs -> Indexes] /\ seen \in [Procs -> Versions] /\ parsed \in [Procs -> Versions]
      /\ NoRows \in [rows : Versions, digest : Versions] /\ Whole(NoRows)
  BY VersionsOrdered DEF SourceInv, CopyInv, NoRows, Whole
<1>3. UNCHANGED <<upstream, src, part>>
  BY DEF OpenIndex, WriteFails, sourceVars
<1>4. db' # None => db' \in [rows : Versions, digest : Versions] /\ Whole(db')
  BY <1>2 DEF OpenIndex, WriteFails, SourceInv, CopyInv
<1>5. /\ index' = [index EXCEPT ![p] = index'[p]] /\ index'[p] \in Indexes
      /\ Whole(index'[p])
  <2>1. PICK i : /\ index' = [index EXCEPT ![p] = i]
                 /\ \/ i = [Nowhere EXCEPT !.on = "memory"]
                    \/ db # None /\ i = [on |-> "disk", rows |-> db.rows, digest |-> db.digest]
    BY DEF OpenIndex, WriteFails
  <2>2. i \in Indexes /\ Whole(i)
    BY <2>1, VersionsOrdered DEF Indexes, Nowhere, Whole, SourceInv, CopyInv
  <2> QED
    BY <1>2, <2>1, <2>2
<1>6. /\ seen' = [seen EXCEPT ![p] = seen'[p]] /\ seen'[p] \in {seen[p], 0}
      /\ parsed' = [parsed EXCEPT ![p] = parsed'[p]] /\ parsed'[p] \in {parsed[p], 0}
  BY <1>2 DEF OpenIndex, WriteFails
<1>7. /\ Alone(p) /\ pc'[p] = "source" /\ lockable' = lockable
  BY <1>1, <1>5, <1>6, StepAlone
<1>8. ReaderInv(p)'
  <2>1. Published(seen'[p]) /\ Older(seen'[p], src.v)
        /\ \A q \in Procs : Streamed(q) => Older(seen'[p], part[q])
    BY <1>6, VersionsOrdered DEF SourceInv, CopyInv, ReaderInv, Published, Older
  <2> QED
    BY <1>3, <1>5, <1>7, <2>1 DEF ReaderInv, Published, Streamed, Whole
<1> QED
  BY <1>2, <1>3, <1>4, <1>5, <1>6, <1>7, <1>8, ReaderStep, VersionsOrdered DEF Whole

LEMMA CopyIsKept ==
  ASSUME Places, SourceInv, NEW p \in Procs, KeepCopy(p) \/ RefreshFails(p)
  PROVE  SourceInv'
<1>1. PICK from \in {"source", "stream"} : Step(p, from, "digest")
  BY DEF KeepCopy, RefreshFails
<1>2. UNCHANGED <<upstream, src, db, index, seen, parsed>> /\ (part' = part \/ Unstreamed(p)) /\ src.v # 0
  BY DEF KeepCopy, RefreshFails, sourceVars, indexVars
<1>3. index \in [Procs -> Indexes] /\ seen \in [Procs -> Versions] /\ parsed \in [Procs -> Versions]
  BY DEF SourceInv, CopyInv
<1>4. Alone(p) /\ pc[p] = from /\ pc'[p] = "digest" /\ lockable' = lockable
  BY <1>1, <1>2, <1>3, StepAlone
<1>5. \A q \in Procs : Streamed(q)' => Streamed(q) /\ part'[q] = part[q]
  BY <1>2 DEF SourceInv, CopyInv, Unstreamed, Streamed
<1>6. ReaderInv(p)'
  BY <1>2, <1>4, <1>5 DEF SourceInv, ReaderInv, Published, Whole
<1> QED
  BY <1>2, <1>3, <1>4, <1>6, ReaderStep DEF SourceInv, CopyInv, Whole

(* The digest, the parse and the transaction.                                  *)
LEMMA IndexingKeeps ==
  ASSUME Places, SourceInv, NEW p \in Procs, Digest(p) \/ Clear(p) \/ Insert(p) \/ Stamp(p)
  PROVE  SourceInv'
<1>1. /\ index \in [Procs -> Indexes] /\ seen \in [Procs -> Versions] /\ parsed \in [Procs -> Versions]
      /\ src.v \in Versions
  BY DEF SourceInv, CopyInv
<1>2. UNCHANGED <<upstream, src, part>>
  BY DEF Digest, Clear, Insert, Stamp, sourceVars
<1>3. CASE Digest(p)
  <2>1. PICK to \in {"legs", "parse"} : Step(p, "digest", to) /\ (to = "legs" <=> index[p].digest = src.v)
    BY <1>3 DEF Digest, IsFresh
  <2>2. UNCHANGED <<db, index, parsed>> /\ seen' = [seen EXCEPT ![p] = src.v] /\ seen'[p] = src.v
    BY <1>1, <1>3 DEF Digest
  <2>3. Alone(p) /\ pc[p] = "digest" /\ pc'[p] = to /\ lockable' = lockable
    BY <1>1, <2>1, <2>2, StepAlone
  <2>4. Published(src.v) /\ Older(src.v, src.v) /\ \A q \in Procs : Streamed(q) => Older(src.v, part[q])
    BY <1>1, VersionsOrdered DEF SourceInv, CopyInv, Older
  <2>5. to = "legs" => Vouched(index[p].rows, src.v) /\ (lockable => index[p].rows = src.v)
    BY <2>1, <2>3 DEF SourceInv, ReaderInv, Whole, Vouched
  <2>6. ReaderInv(p)'
    BY <1>2, <2>1, <2>2, <2>3, <2>4, <2>5 DEF SourceInv, ReaderInv, Published, Streamed
  <2> QED
    BY <1>1, <1>2, <2>2, <2>3, <2>6, ReaderStep DEF SourceInv, CopyInv, Whole
<1>4. CASE Clear(p)
  <2>1. Step(p, "parse", "insert") /\ src.v # Torn
    BY <1>4 DEF Clear
  <2>2. /\ UNCHANGED <<db, seen>> /\ parsed' = [parsed EXCEPT ![p] = src.v]
        /\ index' = [index EXCEPT ![p] = [index[p] EXCEPT !.rows = 0]]
    BY <1>4 DEF Clear
  <2>3. [index[p] EXCEPT !.rows = 0] \in Indexes
    BY <1>1, VersionsOrdered DEF Indexes
  <2>4. parsed'[p] = src.v /\ index'[p] \in Indexes /\ index' = [index EXCEPT ![p] = index'[p]]
    BY <1>1, <2>2, <2>3
  <2>5. Alone(p) /\ pc[p] = "parse" /\ pc'[p] = "insert" /\ lockable' = lockable
    BY <1>1, <2>1, <2>2, <2>4, StepAlone
  <2>6. Vouched(src.v, seen[p])
    BY <2>1, <2>5 DEF SourceInv, ReaderInv, Vouched, Older
  <2>7. ReaderInv(p)'
    BY <1>2, <2>2, <2>4, <2>5, <2>6 DEF SourceInv, ReaderInv, Published, Streamed
  <2> QED
    BY <1>1, <1>2, <2>2, <2>4, <2>5, <2>7, ReaderStep DEF SourceInv, CopyInv, Whole
<1>5. CASE Insert(p)
  <2>1. Step(p, "insert", "stamp")
    BY <1>5 DEF Insert
  <2>2. /\ UNCHANGED <<db, seen, parsed>>
        /\ index' = [index EXCEPT ![p] = [index[p] EXCEPT !.rows = parsed[p]]]
    BY <1>5 DEF Insert
  <2>3. [index[p] EXCEPT !.rows = parsed[p]] \in Indexes
    BY <1>1 DEF Indexes
  <2>4. /\ index'[p] \in Indexes /\ index' = [index EXCEPT ![p] = index'[p]]
        /\ index'[p].rows = parsed[p]
    BY <1>1, <2>2, <2>3 DEF Indexes
  <2>5. Alone(p) /\ pc[p] = "insert" /\ pc'[p] = "stamp" /\ lockable' = lockable
    BY <1>1, <2>1, <2>2, <2>4, StepAlone
  <2>6. ReaderInv(p)'
    BY <1>2, <2>2, <2>4, <2>5 DEF SourceInv, ReaderInv, Published, Streamed
  <2> QED
    BY <1>1, <1>2, <2>2, <2>4, <2>5, <2>6, ReaderStep DEF SourceInv, CopyInv, Whole
<1>6. CASE Stamp(p)
  <2>1. Step(p, "stamp", "legs")
    BY <1>6 DEF Stamp
  <2>2. /\ UNCHANGED <<seen, parsed>>
        /\ index' = [index EXCEPT ![p] = [index[p] EXCEPT !.digest = seen[p]]]
        /\ db' \in {db, [rows |-> index[p].rows, digest |-> seen[p]]}
    BY <1>6 DEF Stamp
  <2>3. [index[p] EXCEPT !.digest = seen[p]] \in Indexes
    BY <1>1 DEF Indexes
  <2>4. /\ index'[p] \in Indexes /\ index' = [index EXCEPT ![p] = index'[p]]
        /\ index'[p].rows = index[p].rows /\ index[p].rows \in Versions
    BY <1>1, <2>2, <2>3 DEF Indexes
  <2>5. Alone(p) /\ pc[p] = "stamp" /\ pc'[p] = "legs" /\ lockable' = lockable
    BY <1>1, <2>1, <2>2, <2>4, StepAlone
  <2>6. Vouched(index[p].rows, seen[p]) /\ (lockable => index[p].rows = src.v /\ seen[p] = src.v)
    BY <2>5 DEF SourceInv, ReaderInv
  <2>7. db' # None => db' \in [rows : Versions, digest : Versions] /\ Whole(db')
    BY <1>1, <2>2, <2>4, <2>6 DEF SourceInv, CopyInv, Whole, Vouched
  <2>8. ReaderInv(p)'
    BY <1>2, <2>2, <2>4, <2>5, <2>6 DEF SourceInv, ReaderInv, Published, Streamed
  <2> QED
    BY <1>1, <1>2, <2>2, <2>4, <2>5, <2>7, <2>8, ReaderStep DEF Whole
<1> QED
  BY <1>3, <1>4, <1>5, <1>6

(* A download starts: any other one under way is torn, and what this one       *)
(* streams is as new as all there is.                                          *)
LEMMA StreamKeeps ==
  ASSUME Places, SourceInv, NEW p \in Procs, Stream(p)
  PROVE  SourceInv'
<1>1. /\ UNCHANGED <<lockable, upstream, src, db, index, seen, parsed>>
      /\ pc[p] = "source" /\ pc' = [pc EXCEPT ![p] = "stream"]
      /\ part' = [q \in Procs |-> IF q = p THEN upstream ELSE IF part[q] = 0 THEN 0 ELSE Torn]
  BY DEF Stream, Step, At, Goto, lockVars, indexVars
<1>2. upstream \in 1..MaxVersion /\ upstream \in Versions /\ upstream # 0 /\ upstream # Torn
  BY VersionsOrdered DEF SourceInv, CopyInv
<1>3. \A q \in Procs : Streamed(q)' => q = p
  BY <1>1 DEF Streamed
<1>4. Older(src.v, upstream) /\ \A q \in Procs : Older(seen[q], upstream)
  BY DEF SourceInv, CopyInv, ReaderInv, Published, Older
<1>5. CopyInv'
  <2>1. part' \in [Procs -> Versions]
    BY <1>1, <1>2, VersionsOrdered
  <2>2. \A q \in Procs : Published(part'[q])
    BY <1>1, <1>2, VersionsOrdered DEF Published
  <2>3. \A q \in Procs : Streamed(q)' => Older(src.v, part'[q])
    BY <1>1, <1>3, <1>4
  <2> QED
    BY <1>1, <1>3, <2>1, <2>2, <2>3 DEF SourceInv, CopyInv, Published, Whole
<1>6. ASSUME NEW q \in Procs PROVE ReaderInv(q)'
  <2>1. \A r \in Procs : Streamed(r)' => Older(seen[q], part'[r])
    BY <1>1, <1>3, <1>4
  <2>2. CASE q = p
    BY <1>1, <1>2, <2>1, <2>2 DEF Places, SourceInv, ReaderInv, Published, Whole
  <2>3. CASE q # p
    <3>1. pc'[q] = pc[q] /\ (part[q] # 0 => part'[q] # 0)
      BY <1>1, <2>3, VersionsOrdered DEF Places
    <3> QED
      BY <1>1, <2>1, <3>1 DEF SourceInv, ReaderInv, Published, Whole
  <2> QED
    BY <2>2, <2>3
<1> QED
  BY <1>5, <1>6 DEF SourceInv

(* What was streamed takes the source's name.  With the lock nobody else is    *)
(* reading the copy it replaces.                                               *)
LEMMA DownloadKeeps ==
  ASSUME LockInv, SourceInv, NEW p \in Procs, Downloaded(p)
  PROVE  SourceInv'
<1> USE DEF LockInv
<1>1. /\ UNCHANGED <<lockable, upstream, db, index, seen, parsed>>
      /\ pc[p] = "stream" /\ pc' = [pc EXCEPT ![p] = "digest"]
      /\ part' = [part EXCEPT ![p] = 0]
  BY DEF Downloaded, Step, At, Goto, lockVars, indexVars, Unstreamed
<1>2. PICK v \in {part[p], Torn} : src' = [v |-> v, aged |-> FALSE]
  BY DEF Downloaded
<1>3. v \in Versions /\ v # 0 /\ Published(v)
  BY <1>1, VersionsOrdered DEF SourceInv, CopyInv, ReaderInv, Published
<1>4. \A q \in Procs : Streamed(q)' => Streamed(q) /\ q # p /\ part'[q] = part[q]
  BY <1>1 DEF Streamed, SourceInv, CopyInv
<1>5. v = Torn \/ \A q \in Procs : ~Streamed(q)'
  <2> SUFFICES ASSUME v # Torn, NEW q \in Procs, Streamed(q)' PROVE FALSE
    OBVIOUS
  <2>1. Streamed(p)
    BY <1>2, <1>3 DEF Streamed
  <2> QED
    BY <1>4, <2>1 DEF SourceInv, CopyInv
<1>6. \A q \in Procs : Older(seen[q], v)
  <2>1. v = Torn \/ Streamed(p)
    BY <1>2, <1>3 DEF Streamed
  <2> QED
    BY <1>2, <2>1 DEF SourceInv, ReaderInv, Older
<1>7. src'.v = v
  BY <1>2
<1>8. CopyInv'
  <2>1. part' \in [Procs -> Versions] /\ \A q \in Procs : part'[q] = part[q] \/ part'[q] = 0
    BY <1>1, VersionsOrdered DEF SourceInv, CopyInv
  <2>2. \A q \in Procs : Published(part'[q])
    <3>1. Published(0)
      BY VersionsOrdered DEF SourceInv, CopyInv, Published
    <3> QED
      BY <2>1, <3>1 DEF SourceInv, CopyInv
  <2>3. src' \in [v : Versions, aged : BOOLEAN]
    BY <1>2, <1>3
  <2>4. \A q \in Procs : Streamed(q)' => Older(v, part'[q])
    BY <1>5 DEF Older
  <2> QED
    BY <1>1, <1>3, <1>4, <1>7, <2>1, <2>2, <2>3, <2>4 DEF SourceInv, CopyInv, Published, Whole
<1>9. ASSUME NEW q \in Procs PROVE ReaderInv(q)'
  <2>1. \A r \in Procs : Streamed(r)' => Older(seen[q], part'[r])
    BY <1>4 DEF SourceInv, ReaderInv
  <2>2. CASE q = p
    <3>1. pc'[q] = "digest"
      BY <1>1, <2>2 DEF Places
    <3> QED
      BY <1>1, <1>3, <1>6, <1>7, <2>1, <2>2, <3>1 DEF SourceInv, ReaderInv, Published, Whole
  <2>3. CASE q # p
    <3>1. pc'[q] = pc[q] /\ part'[q] = part[q]
      BY <1>1, <2>3 DEF Places, SourceInv, CopyInv
    <3>2. lockable => pc[q] \in {"idle", "lock"}
      BY <1>1, <2>3 DEF Exclusive, Working, Idle, At
    <3> QED
      BY <1>1, <1>3, <1>6, <1>7, <2>1, <3>1, <3>2 DEF SourceInv, ReaderInv, Published, Whole
  <2> QED
    BY <2>2, <2>3
<1> QED
  BY <1>8, <1>9 DEF SourceInv

LEMMA AgingKeeps ==
  ASSUME SourceInv, SourceAges
  PROVE  SourceInv'
<1>1. /\ UNCHANGED <<lockable, pc, db, index, seen, parsed, part>>
      /\ src' = [src EXCEPT !.aged = TRUE]
      /\ upstream' \in {upstream} \cup (upstream + 1)..MaxVersion
  BY DEF SourceAges, lockVars, indexVars
<1>2. upstream \in 1..MaxVersion /\ MaxVersion \in Nat
  BY VersionsOrdered DEF SourceInv, CopyInv
<1>3. upstream' \in 1..MaxVersion /\ upstream <= upstream'
  BY <1>1, <1>2
<1>4. \A v \in Versions : Published(v) => Published(v)'
  BY <1>2, <1>3, VersionsOrdered DEF Published
<1>5. src' \in [v : Versions, aged : BOOLEAN] /\ src'.v = src.v /\ src.v \in Versions
  BY <1>1 DEF SourceInv, CopyInv
<1>6. CopyInv'
  <2>1. \A p \in Procs : Published(part[p])' /\ Published(src.v)'
    BY <1>1, <1>4, <1>5 DEF SourceInv, CopyInv
  <2> QED
    BY <1>1, <1>3, <1>5, <2>1, <1>4 DEF SourceInv, CopyInv, Streamed, Whole
<1>7. ASSUME NEW p \in Procs PROVE ReaderInv(p)'
  <2>1. Published(seen[p])'
    BY <1>1, <1>4 DEF SourceInv, CopyInv, ReaderInv
  <2> QED
    BY <1>1, <1>5, <2>1 DEF SourceInv, ReaderInv, Streamed, Whole
<1> QED
  BY <1>6, <1>7 DEF SourceInv

LEMMA SourceInvKept ==
  ASSUME LockInv, SourceInv, [BootNext]_bootVars
  PROVE  SourceInv'
<1> USE DEF LockInv
<1>1. ASSUME NEW p \in Procs, Configures(p) \/ Caches(p) PROVE SourceInv'
  BY <1>1, ConfiguresOffSource, CachesOffSource, OffSourceKeeps
<1>2. ASSUME NEW p \in Procs, Resolves(p) PROVE SourceInv'
  <2>1. CASE OpenRefused(p) \/ FirstDownloadFails(p) \/ ParseFails(p)
    <3>1. Closed(p) /\ UNCHANGED <<upstream, src>> /\ (part' = part \/ Unstreamed(p))
      BY <2>1 DEF OpenRefused, FirstDownloadFails, ParseFails, Skipped, Ends, sourceVars
    <3>2. pc'[p] \notin Resolving
      BY <3>1 DEF Closed, Goto, Places, Resolving
    <3> QED
      BY <3>1, <3>2, EndsOffSource, OffSourceKeeps
  <2> QED
    BY <1>2, <2>1, OpensKeep, CopyIsKept, StreamKeeps, DownloadKeeps, IndexingKeeps DEF Resolves
<1>3. ASSUME NEW p \in Procs, Kill(p) PROVE SourceInv'
  <2>1. Closed(p) /\ UNCHANGED <<upstream, src>> /\ Unstreamed(p)
    BY <1>3 DEF Kill, Unstreamed
  <2>2. pc'[p] \notin Resolving
    BY <2>1 DEF Closed, Goto, Places, Resolving
  <2> QED
    BY <2>1, <2>2, EndsOffSource, OffSourceKeeps
<1>4. ASSUME NEW p \in Procs, NEW j \in Jobs, Start(p, j) PROVE SourceInv'
  <2>1. Goto(p, "lock") /\ UNCHANGED <<indexVars, sourceVars>> /\ lockable' = lockable
    BY <1>4 DEF Start, lockVars
  <2> QED
    BY <2>1, StepOffSource, OffSourceKeeps DEF Resolving, sourceVars
<1>5. ASSUME NEW p \in Procs, TakeLock(p) PROVE SourceInv'
  <2>1. job[p] \in Jobs
    BY <1>5 DEF TakeLock, Places, At, Idle
  <2>2. FirstStep(job[p]) \notin Resolving
    BY <2>1, RunBootAssumption DEF RunBootAssumption, FirstStep, Resolving
  <2>3. PICK where \in {"idle", FirstStep(job[p])} : Goto(p, where)
    BY <1>5 DEF TakeLock
  <2>4. UNCHANGED <<indexVars, sourceVars>> /\ lockable' = lockable
    BY <1>5 DEF TakeLock
  <2> QED
    BY <2>2, <2>3, <2>4, StepOffSource, OffSourceKeeps DEF Resolving, sourceVars
<1>6. CASE EditConfig \/ UNCHANGED bootVars
  <2>1. UNCHANGED <<lockable, pc, upstream, src, part, db, index, seen, parsed>>
    BY <1>6 DEF EditConfig, bootVars, lockVars, sourceVars, indexVars
  <2> QED
    BY <2>1 DEF SourceInv, CopyInv, ReaderInv, Published, Streamed, Whole
<1> QED
  BY <1>1, <1>2, <1>3, <1>4, <1>5, <1>6, AgingKeeps DEF BootNext

LEMMA StartsWithoutIndex == BootInit => SourceInv
<1> SUFFICES ASSUME BootInit PROVE SourceInv
  OBVIOUS
<1>1. /\ upstream = 1 /\ src = [v |-> 0, aged |-> FALSE] /\ part = [p \in Procs |-> 0]
      /\ db \in {NoRows, None} /\ index = [p \in Procs |-> Nowhere]
      /\ seen = [p \in Procs |-> 0] /\ parsed = [p \in Procs |-> 0]
      /\ \A p \in Procs : pc[p] = "idle"
  BY DEF BootInit
<1>2. upstream \in 1..MaxVersion /\ NoRows \in [rows : Versions, digest : Versions] /\ Whole(NoRows)
  BY <1>1, RunBootAssumption, VersionsOrdered DEF RunBootAssumption, NoRows, Whole
<1>3. CopyInv
  BY <1>1, <1>2, VersionsOrdered DEF CopyInv, Published, Older, Streamed
<1>4. ASSUME NEW p \in Procs PROVE ReaderInv(p)
  BY <1>1, <1>4, VersionsOrdered DEF ReaderInv, Published, Older, Streamed
<1> QED
  BY <1>3, <1>4 DEF SourceInv

(* Whatever is downloaded, torn, re-published or killed, and by however many   *)
(* processes, with the run lock or without it: a stamped digest vouches for    *)
(* rows that are there and no older, and a run scans with the rows of the copy *)
(* it took the digest of, or newer ones; with the lock, of the very copy there *)
(* is (MappingStore._replace, MappingResolver._build).                         *)
THEOREM TheIndexServesItsSource == BootSpec => []IndexServesSource
<1>1. SourceInv => IndexServesSource
  BY DEF SourceInv, CopyInv, ReaderInv, Whole, Vouched, IndexServesSource, IndexIsWhole, ServesTheSource, At
<1> QED
  BY <1>1, StartsUnlocked, LockInvKept, StartsWithoutIndex, SourceInvKept, PTL DEF BootSpec

-----------------------------------------------------------------------------
(* The ready clock of a row.                                                 *)

USE ReadyTimeoutAssumption, MonitorRowAssumption

(* What the clock of a live row satisfies at time t, its last landing being  *)
(* `land`: the anchor lies between the last landing and the landing plus the *)
(* credit handed out, and only the last, partial credit may leave the poll   *)
(* at or past the deadline.                                                  *)
ClockSound(c, land, t) ==
  /\ c.pollAt \in Nat /\ c.pollAt <= t
  /\ c.pollGap >= 0
  /\ 0 <= c.credited /\ c.credited <= CreditCap
  /\ land <= c.anchor /\ c.anchor <= land + c.credited
  /\ c.credited < CreditCap => c.pollAt - c.anchor < ReadyTimeout
  /\ c.pollAt - c.anchor < ReadyTimeout + c.pollGap

(* The inductive invariant: the clock of a live row is sound, an importing   *)
(* row has one, a live pass has reported nothing, and every landing used up  *)
(* a count.                                                                  *)
RowInv ==
  /\ TypeOK
  /\ landedAt <= now
  /\ hasClock /\ phase # "TERMINAL" => ClockSound(clock, landedAt, now)
  /\ phase = "IMPORTING" => hasClock
  /\ stage \in {"cycle", "sleep", "refresh", "graduate"} =>
       phase # "TERMINAL" /\ outcome = "none"
  /\ ~hasClock => landings = 0
  /\ clock.seen <= MaxFiles
  /\ landings > 0 => landings <= clock.seen
  /\ outcome \in Exhausted => now - landedAt >= ReadyTimeout

-----------------------------------------------------------------------------
(* Every method of the clock returns a clock.                                *)
LEMMA ClockTypes ==
  ASSUME NEW c \in Clock, NEW t \in Nat, NEW reason \in Deferral,
         NEW done \in Nat, NEW total \in Nat
  PROVE  /\ NewClock(t) \in Clock
         /\ MarkPoll(c, t) \in Clock
         /\ CreditDeferral(c, t, reason) \in Clock
         /\ NoteProgress(c, done, total, t) \in Clock
  <1>1. NewClock(t) \in Clock
    BY DEF Clock, NewClock, Unset
  <1>2. MarkPoll(c, t) \in Clock
    <2> DEFINE d == [c EXCEPT !.pollGap = IF c.pollAt = Unset THEN 0 ELSE t - c.pollAt]
    <2>1. d \in Clock
      BY DEF Clock, Unset
    <2>2. MarkPoll(c, t) = [d EXCEPT !.pollAt = t]
      BY DEF MarkPoll
    <2> HIDE DEF d
    <2> QED BY <2>1, <2>2 DEF Clock
  <1>3. CreditDeferral(c, t, reason) \in Clock
    <2> DEFINE k == Credit(c)
               d == [c EXCEPT !.issuedCredited = @ \/ reason = "ISSUED"]
               e == [d EXCEPT !.credited = @ + k]
    <2>1. k \in Int
      BY DEF Clock, Credit, MinOf, CreditCap
    <2>2. d \in Clock
      BY DEF Clock
    <2>3. CreditDeferral(c, t, reason) = [e EXCEPT !.anchor = MinOf(@ + k, t)]
      BY DEF CreditDeferral
    <2> HIDE DEF k, d
    <2>4. e \in Clock
      BY <2>1, <2>2 DEF Clock
    <2> HIDE DEF e
    <2>5. MinOf(e.anchor + k, t) \in Int
      BY <2>1, <2>4 DEF Clock, MinOf
    <2> QED BY <2>3, <2>4, <2>5 DEF Clock
  <1>4. NoteProgress(c, done, total, t) \in Clock
    <2> DEFINE d == [c EXCEPT !.seen = IF total > 0 /\ done > @ THEN done ELSE @]
    <2>1. d \in Clock
      BY DEF Clock, Unset
    <2>2. NoteProgress(c, done, total, t) = [d EXCEPT !.anchor = IF Landed(c, done, total) THEN t ELSE @]
      BY DEF NoteProgress
    <2> HIDE DEF d
    <2> QED BY <2>1, <2>2 DEF Clock
  <1> QED BY <1>1, <1>2, <1>3, <1>4

(* note_progress: a landing raises the count it is judged by, and leaves the *)
(* clock alone otherwise but for the first sighting.                         *)
LEMMA NoteProgressFacts ==
  ASSUME NEW c \in Clock, NEW t \in Nat, NEW done \in 0..MaxFiles,
         NEW total \in Nat, c.seen <= MaxFiles
  PROVE  LET n == NoteProgress(c, done, total, t) IN
         /\ n.seen <= MaxFiles
         /\ n.seen >= c.seen
         /\ Landed(c, done, total) => c.seen >= 0 /\ n.seen > c.seen /\ n.anchor = t
         /\ ~Landed(c, done, total) => n.anchor = c.anchor
         /\ n.pollAt = c.pollAt /\ n.pollGap = c.pollGap /\ n.credited = c.credited
  BY DEF Clock, NoteProgress, Landed, Unset

(* A fast-lane reading keeps a sound clock sound: a landing re-anchors at a  *)
(* time no earlier than the last heavy poll.                                 *)
LEMMA RefreshSound ==
  ASSUME NEW c \in Clock, NEW land \in Nat, NEW t \in Nat, NEW u \in Nat,
         NEW done \in 0..MaxFiles, t <= u, land <= t, c.seen <= MaxFiles,
         ClockSound(c, land, t)
  PROVE  ClockSound(NoteProgress(c, done, MaxFiles, u),
                    IF Landed(c, done, MaxFiles) THEN u ELSE land, u)
  <1> DEFINE n == NoteProgress(c, done, MaxFiles, u)
  <1>1. /\ Landed(c, done, MaxFiles) => n.anchor = u
        /\ ~Landed(c, done, MaxFiles) => n.anchor = c.anchor
        /\ n.pollAt = c.pollAt /\ n.pollGap = c.pollGap /\ n.credited = c.credited
    BY NoteProgressFacts
  <1>2. CASE Landed(c, done, MaxFiles)
    BY <1>1, <1>2 DEF ClockSound, Clock, CreditCap
  <1>3. CASE ~Landed(c, done, MaxFiles)
    BY <1>1, <1>3 DEF ClockSound, Clock, CreditCap
  <1> QED BY <1>2, <1>3

(* credit_deferral on the poll at time t: a full credit brings the poll back *)
(* under the deadline, a partial one exhausts the cap.                       *)
LEMMA CreditSound ==
  ASSUME NEW c \in Clock, NEW land \in Nat, NEW t \in Nat,
         NEW reason \in Deferral, land <= t,
         c.pollAt = t, c.pollGap >= 0, 0 <= c.credited, c.credited < CreditCap,
         land <= c.anchor, c.anchor <= land + c.credited,
         t - c.anchor < ReadyTimeout + c.pollGap
  PROVE  ClockSound(CreditDeferral(c, t, reason), land, t)
  <1> DEFINE k == Credit(c)
             d == CreditDeferral(c, t, reason)
  <1>1. /\ k \in Int /\ k >= 0
        /\ k <= c.pollGap /\ k <= CreditCap - c.credited
        /\ k = c.pollGap \/ k = CreditCap - c.credited
    BY DEF Clock, Credit, MinOf, CreditCap
  <1>2. /\ d.pollAt = c.pollAt /\ d.pollGap = c.pollGap
        /\ d.credited = c.credited + k
        /\ d.anchor = MinOf(c.anchor + k, t)
    BY DEF Clock, CreditDeferral
  <1>3. /\ d.anchor <= t /\ d.anchor <= c.anchor + k
        /\ d.anchor = c.anchor + k \/ d.anchor = t
    BY <1>1, <1>2 DEF MinOf, Clock
  <1> HIDE DEF k, d
  <1>4. d.pollAt \in Nat /\ d.pollAt <= t /\ d.pollGap >= 0
    BY <1>2
  <1>5. 0 <= d.credited /\ d.credited <= CreditCap
    BY <1>1, <1>2 DEF Clock, CreditCap
  <1>6. land <= d.anchor /\ d.anchor <= land + d.credited
    BY <1>1, <1>2, <1>3 DEF Clock
  <1>7. d.credited < CreditCap => d.pollAt - d.anchor < ReadyTimeout
    BY <1>1, <1>2, <1>3 DEF Clock, CreditCap
  <1>8. d.pollAt - d.anchor < ReadyTimeout + d.pollGap
    BY <1>1, <1>2, <1>3 DEF Clock
  <1>9. ClockSound(d, land, t)
    BY <1>4, <1>5, <1>6, <1>7, <1>8 DEF ClockSound
  <1> QED BY <1>9 DEF d

(* The clock a heavy poll starts from, whether the row already had one or    *)
(* gets it now.                                                              *)
LEMMA MarkedFacts ==
  ASSUME RowInv, stage = "cycle"
  PROVE  LET land == IF hasClock THEN landedAt ELSE now IN
         /\ Marked \in Clock
         /\ Marked.seen <= MaxFiles
         /\ hasClock => Marked.seen = clock.seen
         /\ ~hasClock => Marked.seen = Unset /\ Marked.anchor = now
         /\ Marked.pollAt = now /\ Marked.pollGap >= 0
         /\ 0 <= Marked.credited /\ Marked.credited <= CreditCap
         /\ land <= Marked.anchor /\ Marked.anchor <= land + Marked.credited
         /\ Marked.credited < CreditCap =>
              now - Marked.anchor < ReadyTimeout + Marked.pollGap
  <1>1. now \in Nat /\ clock \in Clock /\ phase # "TERMINAL"
    BY DEF RowInv, TypeOK
  <1>2. CASE hasClock
    <2>1. ClockSound(clock, landedAt, now) /\ clock.seen <= MaxFiles
      BY <1>1, <1>2 DEF RowInv
    <2>2. Marked = MarkPoll(clock, now)
      BY <1>2 DEF Marked
    <2>3. /\ Marked.anchor = clock.anchor /\ Marked.seen = clock.seen
          /\ Marked.credited = clock.credited /\ Marked.pollAt = now
          /\ Marked.pollGap = now - clock.pollAt
      BY <1>1, <2>1, <2>2 DEF MarkPoll, Clock, ClockSound, Unset
    <2>4. Marked \in Clock
      BY <1>1, <2>2, ClockTypes DEF Deferral
    <2> QED BY <1>1, <1>2, <2>1, <2>3, <2>4 DEF ClockSound, Clock, CreditCap
  <1>3. CASE ~hasClock
    <2>1. Marked = MarkPoll(NewClock(now), now)
      BY <1>3 DEF Marked
    <2>2. Marked = [NewClock(now) EXCEPT !.pollGap = 0, !.pollAt = now]
      BY <1>1, <2>1 DEF MarkPoll, NewClock, Unset
    <2>3. /\ Marked.anchor = now /\ Marked.seen = Unset /\ Marked.credited = 0
          /\ Marked.pollAt = now /\ Marked.pollGap = 0
      BY <2>2 DEF NewClock
    <2>4. NewClock(now) \in Clock
      BY <1>1 DEF NewClock, Clock, Unset
    <2>5. Marked \in Clock
      BY <1>1, <2>1, <2>4, ClockTypes DEF Deferral
    <2> QED BY <1>1, <1>3, <2>3, <2>5 DEF CreditCap, Unset
  <1> QED BY <1>2, <1>3

(* The heavy poll of a complete torrent: a row that keeps waiting leaves     *)
(* with a sound clock, and a row that gives up has stalled long enough.      *)
LEMMA PollSound ==
  ASSUME RowInv, stage = "cycle", NEW probe \in Probes
  PROVE  LET land == IF FileLanded(probe) \/ ~hasClock THEN now ELSE landedAt IN
         /\ PolledClock(probe) \in Clock
         /\ PolledClock(probe).seen <= MaxFiles
         /\ hasClock => PolledClock(probe).seen >= clock.seen
         /\ FileLanded(probe) => hasClock /\ clock.seen >= 0 /\ PolledClock(probe).seen > clock.seen
         /\ Verdict(probe) = "none" => ClockSound(PolledClock(probe), land, now)
         /\ Verdict(probe) \in Exhausted => now - land >= ReadyTimeout
  <1> DEFINE land == IF FileLanded(probe) \/ ~hasClock THEN now ELSE landedAt
             base == IF hasClock THEN landedAt ELSE now
             n    == Noted(probe)
  <1>1. /\ now \in Nat /\ clock \in Clock /\ landedAt \in Nat /\ landedAt <= now
        /\ hasClock \in BOOLEAN
    BY DEF RowInv, TypeOK
  <1>2. /\ probe.done \in 0..MaxFiles /\ probe.total \in Nat
        /\ probe.deferral \in Deferral
    <2> DEFINE still == [kind     : {"imported", "unmatched", "hand_import", "leave"},
                         deferral : {"NONE"}, issued : {FALSE},
                         done     : 0..MaxFiles, total : {0, MaxFiles}]
               waits == [kind     : {"waiting"},
                         deferral : Deferral, issued : BOOLEAN,
                         done     : 0..MaxFiles, total : {0, MaxFiles}]
    <2>1. probe \in still \/ probe \in waits
      BY DEF Probes
    <2>2. CASE probe \in still
      BY <2>2 DEF Deferral
    <2>3. CASE probe \in waits
      BY <2>3 DEF Deferral
    <2> QED BY <2>1, <2>2, <2>3
  <1>3. /\ Marked \in Clock /\ Marked.seen <= MaxFiles
        /\ hasClock => Marked.seen = clock.seen
        /\ ~hasClock => Marked.seen = Unset /\ Marked.anchor = now
        /\ Marked.pollAt = now /\ Marked.pollGap >= 0
        /\ 0 <= Marked.credited /\ Marked.credited <= CreditCap
        /\ base <= Marked.anchor /\ Marked.anchor <= base + Marked.credited
        /\ Marked.credited < CreditCap =>
             now - Marked.anchor < ReadyTimeout + Marked.pollGap
    BY MarkedFacts
  <1>4. /\ n.seen <= MaxFiles /\ n.seen >= Marked.seen
        /\ FileLanded(probe) => Marked.seen >= 0 /\ n.seen > Marked.seen /\ n.anchor = now
        /\ ~FileLanded(probe) => n.anchor = Marked.anchor
        /\ n.pollAt = Marked.pollAt /\ n.pollGap = Marked.pollGap
        /\ n.credited = Marked.credited
    <2> DEFINE landed == Landed(Marked, probe.done, probe.total)
               m      == NoteProgress(Marked, probe.done, probe.total, now)
    <2>1. /\ m.seen <= MaxFiles /\ m.seen >= Marked.seen
          /\ landed => Marked.seen >= 0 /\ m.seen > Marked.seen /\ m.anchor = now
          /\ ~landed => m.anchor = Marked.anchor
          /\ m.pollAt = Marked.pollAt /\ m.pollGap = Marked.pollGap
          /\ m.credited = Marked.credited
      <3>1. now \in Nat /\ Marked \in Clock /\ Marked.seen <= MaxFiles
        BY <1>1, <1>3
      <3>2. probe.done \in 0..MaxFiles /\ probe.total \in Nat
        BY <1>2
      <3> QED BY ONLY <3>1, <3>2, NoteProgressFacts
    <2> QED BY <2>1 DEF Noted, FileLanded
  <1>5. n \in Clock
    BY <1>1, <1>2, <1>3, ClockTypes DEF Noted
  <1>6. FileLanded(probe) => hasClock
    BY <1>3, <1>4 DEF Unset
  <1> HIDE DEF n
  <1>7. /\ PolledClock(probe) \in Clock
        /\ PolledClock(probe).seen = n.seen
    <2>1. CASE Deferred(probe) /\ ~FileLanded(probe)
      <3>1. PolledClock(probe) = CreditDeferral(n, now, probe.deferral)
        BY <2>1 DEF PolledClock, n
      <3>2. CreditDeferral(n, now, probe.deferral) \in Clock
        BY <1>1, <1>2, <1>5, ClockTypes
      <3>3. CreditDeferral(n, now, probe.deferral).seen = n.seen
        BY <1>5 DEF CreditDeferral, Clock
      <3> QED BY <3>1, <3>2, <3>3
    <2>2. CASE ~(Deferred(probe) /\ ~FileLanded(probe))
      BY <1>5, <2>2 DEF PolledClock, n
    <2> QED BY <2>1, <2>2
  <1>8. ASSUME Verdict(probe) = "none"
        PROVE  ClockSound(PolledClock(probe), land, now)
    <2>1. CASE Deferred(probe) /\ ~FileLanded(probe)
      <3>1. n.credited < CreditCap
        BY <2>1 DEF Deferred, CanDefer, n
      <3>2. land = base
        BY <2>1
      <3>3. ClockSound(CreditDeferral(n, now, probe.deferral), land, now)
        <4>1. land \in Nat /\ land <= now
          BY <1>1
        <4>2. /\ n.pollAt = now /\ n.pollGap >= 0 /\ 0 <= n.credited
              /\ land <= n.anchor /\ n.anchor <= land + n.credited
              /\ now - n.anchor < ReadyTimeout + n.pollGap
          BY <1>3, <1>4, <2>1, <3>1, <3>2
        <4> HIDE DEF land
        <4> QED BY <1>1, <1>2, <1>5, <3>1, <4>1, <4>2, CreditSound
      <3> QED BY <2>1, <3>3 DEF PolledClock, n
    <2>2. CASE FileLanded(probe)
      <3>1. PolledClock(probe) = n /\ land = now
        BY <2>2 DEF PolledClock, n
      <3> QED BY <1>1, <1>3, <1>4, <1>5, <2>2, <3>1 DEF ClockSound, Clock, CreditCap
    <2>3. CASE ~FileLanded(probe) /\ ~Deferred(probe)
      <3>1. PolledClock(probe) = n /\ land = base
        BY <2>3 DEF PolledClock, n
      <3>2. ~AtDeadline(Marked, now)
        BY <1>8, <2>3 DEF Verdict, ExhaustedOutcome, Probes
      <3>3. now - n.anchor < ReadyTimeout
        BY <1>1, <1>3, <1>4, <2>3, <3>2 DEF AtDeadline, Clock
      <3> QED BY <1>1, <1>3, <1>4, <1>5, <2>3, <3>1, <3>3 DEF ClockSound, Clock, CreditCap
    <2> QED BY <2>1, <2>2, <2>3
  <1>9. ASSUME Verdict(probe) \in Exhausted
        PROVE  now - land >= ReadyTimeout
    <2>1. AtDeadline(Marked, now) /\ ~FileLanded(probe)
      BY <1>9 DEF Verdict, Exhausted, Probes
    <2>2. now - Marked.anchor >= ReadyTimeout
      BY <2>1 DEF AtDeadline
    <2>3. hasClock
      BY <1>1, <1>3, <2>2
    <2>4. land = landedAt /\ landedAt <= Marked.anchor
      BY <1>3, <2>1, <2>3
    <2> QED BY <1>1, <1>3, <2>2, <2>4 DEF Clock
  <1> QED BY <1>1, <1>3, <1>4, <1>6, <1>7, <1>8, <1>9 DEF Clock

-----------------------------------------------------------------------------
LEMMA RowInvInit == Init => RowInv
  <1> SUFFICES ASSUME Init PROVE RowInv
    OBVIOUS
  <1>1. clock \in Clock /\ clock.seen = Unset
    BY DEF Init, NewClock, Clock, Unset
  <1>2. TypeOK
    BY <1>1 DEF Init, TypeOK, Kinds, Phases, Outcomes
  <1>3. clock.seen <= MaxFiles
    BY <1>1 DEF Unset
  <1> QED BY <1>2, <1>3 DEF Init, RowInv, Exhausted

(* A fast-lane refresh at a later time t keeps the invariant.                *)
LEMMA RefreshInv ==
  ASSUME RowInv, stage \in {"sleep", "refresh"}, NEW t \in Nat, now' = t, now <= t,
         NEW next \in {"sleep", "graduate"},
         (\E done \in 0..MaxFiles : Refresh(t, done, next)) \/ NoRefresh(next),
         UNCHANGED passVars, hasClock' = hasClock
  PROVE  RowInv'
  <1>1. /\ now \in Nat /\ clock \in Clock /\ landedAt \in Nat /\ landings \in Nat
        /\ landedAt <= now /\ phase # "TERMINAL" /\ outcome = "none"
    BY DEF RowInv, TypeOK
  <1>2. CASE stage' = next /\ UNCHANGED <<phase, issued, outcome, clock, histVars>>
    <2>1. hasClock => ClockSound(clock, landedAt, t)
      BY <1>1 DEF RowInv, ClockSound
    <2> QED BY <1>1, <1>2, <2>1 DEF RowInv, TypeOK, passVars, histVars, Exhausted
  <1>3. ASSUME NEW done \in 0..MaxFiles, phase = "IMPORTING", MaxFiles # 0,
               Refresh(t, done, next)
        PROVE  RowInv'
    <2>1. hasClock /\ ClockSound(clock, landedAt, now) /\ clock.seen <= MaxFiles
      BY <1>1, <1>3 DEF RowInv
    <2>2. ClockSound(clock', landedAt', t)
      BY <1>1, <1>3, <2>1, RefreshSound DEF Refresh
    <2>3. clock' \in Clock
      BY <1>1, <1>3, ClockTypes DEF Refresh, Deferral
    <2>4. /\ clock'.seen <= MaxFiles /\ clock'.seen >= clock.seen
          /\ Landed(clock, done, MaxFiles) => clock.seen >= 0 /\ clock'.seen > clock.seen
      BY <1>1, <1>3, <2>1, NoteProgressFacts DEF Refresh
    <2>5. landedAt' \in Nat /\ landedAt' <= t
      BY <1>1, <1>3 DEF Refresh
    <2>6. landings' \in Nat /\ (landings' > 0 => landings' <= clock'.seen)
      BY <1>1, <1>3, <2>3, <2>4 DEF Refresh, RowInv, Clock, Unset
    <2>7. /\ phase' \in Phases /\ issued' \in BOOLEAN
          /\ outcome' \in {"none", "IMPORTED"} /\ stage' \in {next, "done"}
          /\ stage' = next => phase' # "TERMINAL" /\ outcome' = "none"
      BY <1>1, <1>3 DEF Refresh, RowInv, TypeOK, Phases
    <2>8. TypeOK'
      BY <2>3, <2>5, <2>6, <2>7 DEF RowInv, TypeOK, passVars, Outcomes
    <2> QED BY <1>1, <2>1, <2>2, <2>4, <2>5, <2>6, <2>7, <2>8 DEF RowInv, Exhausted
  <1> QED BY <1>2, <1>3 DEF Refresh, NoRefresh

LEMMA RowInvNext == RowInv /\ [Next]_vars => RowInv'
  <1> SUFFICES ASSUME RowInv, [Next]_vars PROVE RowInv'
    OBVIOUS
  <1>1. /\ now \in Nat /\ kind \in Kinds /\ progress \in ProgressIntervals /\ wake \in Nat /\ phase \in Phases
        /\ issued \in BOOLEAN /\ outcome \in Outcomes /\ hasClock \in BOOLEAN
        /\ clock \in Clock /\ landedAt \in Nat /\ landings \in Nat /\ landedAt <= now
    BY DEF RowInv, TypeOK
  <1>2. /\ now + PollInterval \in Nat
        /\ \A j \in 0..Jitter : now + PollInterval + j \in Nat /\ now + PollInterval + j >= now
    BY <1>1
  <1>3. ASSUME stage = "cycle", UNCHANGED <<hasClock, clock, histVars>>,
               NEW o \in Outcomes \ ({"none"} \cup Exhausted), Terminal(o)
        PROVE  RowInv'
    BY <1>1, <1>3 DEF RowInv, TypeOK, Terminal, passVars, histVars, Phases
  <1>4. ASSUME stage = "cycle", UNCHANGED <<hasClock, clock, histVars>>, AfterPoll,
               phase' \in {"DOWNLOADING", phase}, issued' \in BOOLEAN
        PROVE  RowInv'
    BY <1>1, <1>2, <1>4 DEF RowInv, TypeOK, AfterPoll, histVars, Phases
  <1>5. CASE PollDownloading
    BY <1>1, <1>3, <1>4, <1>5 DEF PollDownloading, Outcomes, Exhausted, Phases
  <1>6. CASE PollUnobserved
    BY <1>1, <1>3, <1>4, <1>6 DEF PollUnobserved, Outcomes, Exhausted
  <1>7. CASE PollDead
    BY <1>3, <1>7 DEF PollDead, Outcomes, Exhausted
  <1>8. ASSUME NEW probe \in Probes, PollComplete(probe)
        PROVE  RowInv'
    <2>1. stage = "cycle" /\ hasClock' = TRUE /\ clock' = PolledClock(probe)
      BY <1>8 DEF PollComplete
    <2>2. /\ clock' \in Clock /\ clock'.seen <= MaxFiles
          /\ hasClock => clock'.seen >= clock.seen
          /\ FileLanded(probe) => hasClock /\ clock.seen >= 0 /\ clock'.seen > clock.seen
          /\ Verdict(probe) = "none" => ClockSound(clock', landedAt', now)
          /\ Verdict(probe) \in Exhausted => now - landedAt' >= ReadyTimeout
      BY <1>8, <2>1, PollSound DEF PollComplete
    <2>3. landedAt' \in Nat /\ landedAt' <= now
      BY <1>1, <1>8 DEF PollComplete
    <2>4. landings' \in Nat /\ (landings' > 0 => landings' <= clock'.seen)
      <3>1. landings > 0 => hasClock /\ landings <= clock.seen
        BY <1>1 DEF RowInv
      <3>2. clock.seen \in Int /\ clock'.seen \in Int
        BY <1>1, <2>2 DEF Clock, Unset
      <3> QED BY <1>1, <1>8, <2>2, <3>1, <3>2 DEF PollComplete
    <2>5. CASE Verdict(probe) # "none" /\ Terminal(Verdict(probe))
      <3>1. Verdict(probe) \in Outcomes
        BY DEF Verdict, ExhaustedOutcome, Outcomes, Exhausted, Probes
      <3> QED BY <1>1, <2>1, <2>2, <2>3, <2>4, <2>5, <3>1
              DEF RowInv, TypeOK, Terminal, passVars, Phases
    <2>6. CASE Verdict(probe) = "none" /\ phase' = "IMPORTING" /\ issued' = probe.issued /\ AfterPoll
      <3>1. probe.issued \in BOOLEAN
        BY DEF Probes
      <3>2. outcome = "none"
        BY <2>1 DEF RowInv
      <3> QED BY <1>1, <1>2, <2>1, <2>2, <2>3, <2>4, <2>6, <3>1, <3>2
              DEF RowInv, TypeOK, AfterPoll, Phases, Exhausted
    <2> QED BY <1>8, <2>5, <2>6 DEF PollComplete
  <1>9. CASE SleepWhole
    <2>1. now' \in Nat /\ now' >= now
      BY <1>2, <1>9 DEF SleepWhole
    <2>2. hasClock /\ phase # "TERMINAL" => ClockSound(clock, landedAt, now')
      BY <1>1, <2>1 DEF RowInv, ClockSound
    <2> QED BY <1>1, <1>9, <2>1, <2>2
            DEF SleepWhole, RowInv, TypeOK, passVars, histVars, Exhausted
  <1>10. CASE SleepSlice
    <2>1. now' \in Nat /\ now <= now'
      BY <1>1, <1>10 DEF SleepSlice, MinOf
    <2> QED BY <1>1, <1>10, <2>1, RefreshInv DEF SleepSlice, passVars
  <1>11. CASE CheckRefresh
    BY <1>1, <1>11, RefreshInv DEF CheckRefresh, passVars
  <1>12. CASE Wake
    BY <1>1, <1>12 DEF Wake, RowInv, TypeOK, passVars, histVars, Exhausted
  <1>13. CASE RetireActive
    <2>1. \E o \in Graduated : Terminal(o)
      BY <1>1, <1>13 DEF RetireActive, Graduated, RowInv, Phases
    <2> QED BY <1>1, <1>13, <2>1
            DEF RetireActive, RowInv, TypeOK, Terminal, passVars, histVars, Phases, Outcomes,
                Graduated, Exhausted
  <1>14. CASE Interrupt
    BY <1>1, <1>14 DEF Interrupt, RowInv, TypeOK, passVars, histVars
  <1>15. CASE UNCHANGED vars
    BY <1>15 DEF vars, RowInv, TypeOK
  <1> QED
    BY <1>5, <1>6, <1>7, <1>8, <1>9, <1>10, <1>11, <1>12, <1>13, <1>14, <1>15
    DEF Next, RowStep, Ended

-----------------------------------------------------------------------------
(* The inductive invariant holds in every state of a pass.                   *)
LEMMA RowInvHolds == Spec => []RowInv
  BY RowInvInit, RowInvNext, PTL DEF Spec

(* Every variable of a pass keeps its type, the clock included.              *)
THEOREM TypeCorrect == Spec => []TypeOK
  <1>1. RowInv => TypeOK
    BY DEF RowInv
  <1> QED BY <1>1, RowInvHolds, PTL

(* No row gives up on Sonarr sooner than a whole ready_timeout after the     *)
(* last file it saw land.                                                    *)
THEOREM NeverTooSoon == Spec => []ExhaustedOnlyAfterStall
  <1>1. RowInv => ExhaustedOnlyAfterStall
    BY DEF RowInv, ExhaustedOnlyAfterStall
  <1> QED BY <1>1, RowInvHolds, PTL

(* No deferral holds a row open past one ready_timeout, the credit cap and   *)
(* one poll interval since the last landing.                                 *)
THEOREM NeverTooLong == Spec => []StallBounded
  <1>1. RowInv => StallBounded
    <2> SUFFICES ASSUME RowInv, hasClock, phase # "TERMINAL"
                 PROVE  clock.pollAt - landedAt < ReadyTimeout + CreditCap + clock.pollGap
      BY DEF StallBounded
    <2>1. ClockSound(clock, landedAt, now) /\ clock \in Clock /\ landedAt \in Nat
      BY DEF RowInv, TypeOK
    <2> QED BY <2>1 DEF ClockSound, Clock, CreditCap
  <1> QED BY <1>1, RowInvHolds, PTL

(* Re-anchoring is paid for by files: a flapping count never re-anchors the  *)
(* clock more often than there are files to land.                            *)
THEOREM LandingsBounded == Spec => []FlappingNeverReanchors
  <1>1. RowInv => FlappingNeverReanchors
    BY DEF RowInv, TypeOK, Clock, Unset, FlappingNeverReanchors
  <1> QED BY <1>1, RowInvHolds, PTL

(* The three bounds together, for every timeout, interval, jitter and file   *)
(* count.                                                                    *)
THEOREM ClockStaysFair == Spec => []ClockIsFair
  BY NeverTooSoon, NeverTooLong, LandingsBounded, PTL DEF ClockIsFair
=============================================================================
