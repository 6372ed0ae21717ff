--------------------------- MODULE SeriesEpisodes ---------------------------
(* The Sonarr leg's episode lists (sonarr_episodes.py): warmed by a pool     *)
(* before the scan, read cold when the pool missed one, read again when an   *)
(* import is judged, while Sonarr itself goes on importing.  A list is       *)
(* abstracted to how many times the series had changed when it was read.     *)
EXTENDS Integers, FiniteSets

CONSTANTS
  Shows,      \* the leg's series
  Fetchers,   \* the pool's threads; one of them under advanced.sleep_time
  MaxChanges, \* bound: how often one series' list changes
  MaxRuns     \* bound

VARIABLES
  library,    \* series -> Sonarr's list of it
  atStart,    \* the library when the run began
  epCache,    \* _ep_list_cache: series -> the list read
  queued,     \* the futures no thread has taken
  reading,   \* thread -> the series it reads
  results,    \* the finished futures the main thread has not seen
  stage,      \* "between" runs, "collected", "warming", "scanning"
  answered,   \* what the last reader was given
  runs

episodeVars == <<library, atStart, epCache, queued, reading, results, stage, answered, runs>>

Unread  == -1 \* no list in the cache
Failed  == -2 \* None: the read failed
EmptyList  == -3 \* the empty list
NoShow    == "none"
NoAnswer == [show |-> NoShow, list |-> Failed, kind |-> "none"]

EpisodesInit ==
  /\ library = [s \in Shows |-> 0] /\ atStart = library
  /\ epCache = [s \in Shows |-> Unread]
  /\ queued = {} /\ reading = [f \in Fetchers |-> NoShow] /\ results = {}
  /\ stage = "between" /\ answered = NoAnswer /\ runs = 0

\* Sonarr imports a file or learns of an episode.
LibraryMoves(s) ==
  /\ library[s] < MaxChanges
  /\ library' = [library EXCEPT ![s] = @ + 1]
  /\ UNCHANGED <<atStart, epCache, queued, reading, results, stage, answered, runs>>

CollectSeries ==
  /\ stage \in {"between", "scanning"} /\ runs < MaxRuns
  /\ epCache' = [s \in Shows |-> Unread] /\ atStart' = library
  /\ stage' = "collected" /\ runs' = runs + 1 /\ answered' = NoAnswer
  /\ UNCHANGED <<library, queued, reading, results>>

\* `needs` is what needs_scan_ids finds: the monitored series with an entry to look at.
Prefetch(needs) ==
  /\ stage = "collected"
  /\ queued' = needs /\ stage' = IF needs = {} THEN "scanning" ELSE "warming"
  /\ UNCHANGED <<library, atStart, epCache, reading, results, answered, runs>>

TakeFuture(f, s) ==
  /\ stage = "warming" /\ reading[f] = NoShow /\ s \in queued
  /\ reading' = [reading EXCEPT ![f] = s] /\ queued' = queued \ {s}
  /\ UNCHANGED <<library, atStart, epCache, results, stage, answered, runs>>

\* A worker swallows whatever its read raised.
FetchEnds(f, ok) ==
  /\ reading[f] # NoShow
  /\ results' = results \cup {[show |-> reading[f], list |-> IF ok THEN library[reading[f]] ELSE Failed]}
  /\ reading' = [reading EXCEPT ![f] = NoShow]
  /\ UNCHANGED <<library, atStart, epCache, queued, stage, answered, runs>>

\* Mutant of Kept: the future's list is cached whatever came of it.
KeptAnyhow(r) == [epCache EXCEPT ![r.show] = IF r.list = Failed THEN EmptyList ELSE r.list]

Kept(r) == IF r.list = Failed THEN epCache ELSE [epCache EXCEPT ![r.show] = r.list]

Consume(r) ==
  /\ stage = "warming" /\ r \in results
  /\ epCache' = Kept(r) /\ results' = results \ {r}
  /\ stage' = IF queued = {} /\ results = {r} /\ \A f \in Fetchers : reading[f] = NoShow
              THEN "scanning" ELSE "warming"
  /\ UNCHANGED <<library, atStart, queued, reading, answered, runs>>

\* A stop drops the queue; the reads in flight end unseen, and the run with them.
StopPrefetch ==
  /\ stage = "warming"
  /\ queued' = {} /\ stage' = "stopping"
  /\ UNCHANGED <<library, atStart, epCache, reading, results, answered, runs>>

StopEnds ==
  /\ stage = "stopping" /\ \A f \in Fetchers : reading[f] = NoShow
  /\ results' = {} /\ stage' = "between"
  /\ UNCHANGED <<library, atStart, epCache, queued, reading, answered, runs>>

\* The main thread's readers.
Answer(s, list, kind) == answered' = [show |-> s, list |-> list, kind |-> kind]

CachedEpisodes(s) ==
  /\ stage = "scanning"
  /\ \/ epCache[s] # Unread /\ Answer(s, epCache[s], "cached") /\ UNCHANGED epCache
     \/ /\ epCache[s] = Unread
        /\ \/ Answer(s, library[s], "cached") /\ epCache' = [epCache EXCEPT ![s] = library[s]]
           \/ Answer(s, Failed, "cached") /\ UNCHANGED epCache
  /\ UNCHANGED <<library, atStart, queued, reading, results, stage, runs>>

ReadEpisodes(s) ==
  /\ stage = "scanning"
  /\ \/ Answer(s, library[s], "read") /\ epCache' = [epCache EXCEPT ![s] = library[s]]
     \/ Answer(s, Failed, "read") /\ UNCHANGED epCache
  /\ UNCHANGED <<library, atStart, queued, reading, results, stage, runs>>

LastKnownEpisodes(s) ==
  /\ stage = "scanning"
  /\ Answer(s, IF epCache[s] = Unread THEN EmptyList ELSE epCache[s], "last known")
  /\ UNCHANGED <<library, atStart, epCache, queued, reading, results, stage, runs>>

EpisodesNext ==
  \/ \E s \in Shows : LibraryMoves(s) \/ CachedEpisodes(s) \/ ReadEpisodes(s) \/ LastKnownEpisodes(s)
  \/ CollectSeries \/ StopPrefetch \/ StopEnds
  \/ \E needs \in SUBSET Shows : Prefetch(needs)
  \/ \E f \in Fetchers : (\E s \in Shows : TakeFuture(f, s)) \/ (\E ok \in BOOLEAN : FetchEnds(f, ok))
  \/ \E r \in results : Consume(r)

EpisodesSpec == EpisodesInit /\ [][EpisodesNext]_episodeVars

\* A grab is decided on a list the series really had, read since the run began: a
\* fetch that failed is read again or fails the title, and is never a series
\* without episodes (sonarr_episodes.py:199-204, run_loop.py:167).
ServedWasLibrary ==
  answered.show \in Shows /\ answered.kind # "last known" /\ answered.list # Failed =>
    answered.list \in atStart[answered.show] .. library[answered.show]

\* A cached list was read in this run; between two runs no read is pending.
EpisodesTypeOK ==
  /\ library \in [Shows -> 0..MaxChanges] /\ atStart \in [Shows -> 0..MaxChanges]
  /\ DOMAIN epCache = Shows /\ \A s \in Shows : epCache[s] \in {Unread} \cup 0..MaxChanges
  /\ queued \subseteq Shows /\ reading \in [Fetchers -> Shows \cup {NoShow}]
  /\ \A r \in results : r.show \in Shows /\ r.list \in {Failed} \cup 0..MaxChanges
  /\ stage \in {"between", "collected", "warming", "scanning", "stopping"} /\ runs \in 0..MaxRuns
=============================================================================
