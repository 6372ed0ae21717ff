# Pearlarr in TLA+

A verification project for Pearlarr, the Python program under `pearlarr/` that
maps a Sonarr or Radarr library to SeaDex entries, grabs the recommended
releases through qBittorrent, and drives their import into Sonarr. The modules
are translated from the code; TLC checks them on small instances and TLAPS
proves the theorems in `*Proofs.tla` for every value of the constants.

    tlc -config MonitorRow.cfg MonitorRow        # one run
    tlc -config RunBoot.cfg MCRunBoot            # the largest one, about two minutes
    tlapm RunProofs.tla                          # the proofs, one module at a time

`PROJECT.json` lists the components, the runs, the mutants that show each
property can fail, the map from definitions to source lines, the hazards and the
disagreements found.

## The system

One invocation runs one *leg* per configured arr, one after another, under a
file lock. A leg is sequential but for the pool that warms Sonarr's episode
lists; its concurrency is with the world: qBittorrent, Sonarr and Radarr, SeaDex,
AniList, the user editing the config, other invocations, and kills. The output
hub is entered by several threads (progress and signal handlers emit too).

| component (files in `pearlarr/`) | state | operations | what makes it correct |
|---|---|---|---|
| ready clock and monitor pass (`import_wait.py`, `wait_view.py`) | per row: phase, deadline anchor, credit, highest file count; the pass's clock | heavy poll, fast-lane refresh, sleep, graduate, interrupt | a row ends, not before a real stall of `ready_timeout` and not long after the credit cap |
| pending imports (`import_wait.py`, `pending_records.py`, `run_loop.py`) | durable record per (arr, infohash): active or kept for cleanup; per run: fresh and reacquired keys, observed states | register, snapshot, heal, check, monitor, retire, prune | imports counted once, cleanup effects happen although any may fail, records leave |
| run coverage (`run_loop.py`, `run_services.py`, `arr_activity.py`) | cached verdicts, vouched settings digest, history checkpoint | scan, skip as cached, re-check, commit checkpoint, vouch | nothing that changed is skipped for good |
| cache store (`cache.py`, `sqlite_util.py`) | `cache.db`, its write-ahead log, the promote temp; the open transaction | load, quarantine, migrate, save, promote, close | a save is atomic and durable, a preview saves nothing |
| grab pipeline (`grab_pipeline.py`, `torrents.py`, `torrent.py`) | the run's stats, holds and failures of the title | screen, hold, add, register, cache as done | never cached as done with work left; never an unparseable tracker added; the cap |
| Sonarr import (`sonarr_import.py`, `probe_verdicts.py`, `import_files.py`, `episode_state.py`, `import_quality.py`) | kept scans, rescans posted, the command in flight | poll, verify, rescan, post a manual import, close tracked | one manual import at a time; verdicts from consistent readings |
| output hub (`output/hub.py`, `output/bridge.py`) | queue, drainer, once keys, strikes, open or closed | emit, drain, close, set level, swap console | one drainer, nothing stranded, order kept, a bad renderer is contained |
| planner (`planner.py`, `seadex_filter.py`) | none (pure), but the library one run's imports leave is the next run's input | narrow, match, reduce, promote, rescue | nothing flagged is dropped, doubled or asked for again |
| placement (`parse_reading.py`, `placer/`, `window_placement.py`, `grab_placement.py`) | the record's map, exclusions and claims | read names, run the passes, merge the windows | no episode twice, no file left out, no guess past a title |
| strategies (`seadex_sonarr.py`, `arr_categories.py`, `sonarr_episodes.py`) | fetched categories, episode lists | collect entries, warm and read episodes | one category per leg; a failed read is no empty list |
| gateways and clients (`*_gateway.py`, `*_client.py`, `arr_http.py`) | per-leg caches, stored rows, the outage latch, the failure ledger | prefetch in chunks, fetch one, save, evict | a failed read is an outage, never an absence |
| mappings (`mappings.py`, `mapping_store.py`, `anibridge.py`, `anime_filter.py`) | `mappings.db` and its stamped digests | download, parse, store, look up, pick episodes | rows and stamps agree; the rows answer as the graph does |
| process lifecycle (`cli.py`, `bootstrap.py`, `runlock.py`) | the lock, the loaded config | start, lock, run legs, cache commands | one process past the lock |
| configuration (`config.py`, `config_migrations.py`) | `config.yml`, its backup | template, load, rewrite at the current schema | a rewrite loses no setting |
| notifications, rendering | text | post, render | formatting; not of interest here |

How they interact: a process takes the lock, loads (and may rewrite) the config,
resolves the mapping sources into `mappings.db`, and runs its legs. The run loop scans items through a strategy; the strategy
asks the coverage gate, then the planner and placement, then the grab pipeline,
which registers pending records; at the end of each item the store is saved. The
tail heals, checks or monitors pending records and saves once more. Everything
emits events to the hub. All durable state goes through the one `CacheStore`.

Hard behaviours: deadlines with credit and re-anchoring; effects on two outside
programs with a store that may roll back; two arrs sharing a torrent; cached
verdicts that must be invalidated by three independent clocks (SeaDex, the arr's
history, the settings); runs that stop anywhere; a queue with a baton passed
between threads; a transaction, two files and a lock that may all be cut by a kill;
services that go down between two chunks of one answer; entries that share a torrent
and place its files in either order. `PROJECT.json` lists each at its line under `hazards`.

## Modules

| module | models | proofs |
|---|---|---|
| `ReadyClock`, `MonitorRow` | `_ReadyClock`, one operator per method; one row of a wait pass against it | `RunProofs` |
| `PendingImports` | the records' life across runs, arrs and kills | `PendingImportsProofs` |
| `RunCoverage`, `MCRunCoverage` | what runs skip, re-check and write off | `RunCoverageProofs` |
| `GrabPipeline`, `MCGrabPipeline` | what a run grabs, holds, registers and caches as done | `GrabPipelineProofs` |
| `AtomicStore` | what a store promises: staged until saved, atomically | |
| `CacheStore` | `cache.db` through load, migration, promotion, kills | `ServiceProofs` |
| `MCPersistence` | the store, a record's and a verdict's life, side by side for liveness | |
| `StepIn`, `MCStepIn` | the import polls of one download against Sonarr's own import | `StepInProofs` |
| `OutputHub` | emits, the drain baton, strikes, interrupts, lifecycle calls | `OutputHubProofs` |
| `SeadexFilter`, `ReleaseChoice`, `MCReleaseChoice` | which releases a title chooses, run after run | `PlannerProofs` |
| `ParseReading`, `PlacerState`, `Placer` | reading a file's name, and the placer's passes over one window | `PlannerProofs` |
| `Placement`, `MCPlacement`, `MCPlanner` | the windows of a shared torrent, grab after grab; the run of both halves | `PlannerProofs` |
| `RunBoot` | processes at one data directory: lock, config, mapping index, cache commands | `RunProofs` |
| `SeadexGateway`, `AnilistGateway`, `SkyhookGateway` | what a leg asks and keeps of each service | `ServiceProofs` |
| `ArrCategories`, `ArrStreaks`, `SeriesEpisodes` | the category memo, the failure ledger under threads, the episode prefetch | `ServiceProofs` |
| `AniBridgeIndex`, `EntryMappings`, `SampleMappings` | the mapping graph, its rows, the lookups, the episodes an entry is given; small sources | `ServiceProofs` |
| `MCRunBoot` | the run of `RunBoot` and of the eight parts above, one scene each | |

A composed module picks a *scene* in `Init` and leaves the parts it does not
follow where they started: the parts share no state in the code either, so their
product would show nothing more. Which parts do share state is inside the modules:
`RunBoot` puts the lock, the config, the index and the cache commands together,
`Placement` the placer with the records, `ReleaseChoice` the filter with the planner
and the imports.

### ReadyClock and MonitorRow

A row's clock is a record (`clock`) and each method of `_ReadyClock` an operator
on it. `PollComplete(probe)` is the COMPLETE half of `_advance` in its order:
mark the poll, judge the deadline on the clock *before* the reading, note
progress, decide the deferral on the clock *after* it, credit, then the verdict.
`Refresh` is the fast lane; `SleepSlice`, `Wake` and `SleepWhole` are
`_progress_wait`; `CheckRefresh` and `RetireActive` are deferred mode's one
cycle. A pass works its rows one by one and they share nothing but the clock, so
one row is enough: what the others' requests cost is the `Jitter` of a sleep.

`progress` is the fast-lane interval the pass was configured with, chosen once
in `Init` from `ProgressIntervals` (0 disables it, so sleeps are whole).
`landedAt` and `landings` are history variables for the properties.

### PendingImports

A record of one arr on one torrent is `active` or `flagged` (awaiting cleanup);
a row without a record remembers how its last one left. `claim` numbers the
claims; the files of claim *n* have landed once `landed >= n`. `durable` is the
store as committed and `staged` as the open transaction sees it; `Kill` rolls
the one back to the other while torrents keep what was done to them. `retire` is
three steps (`CategoryMove`, `CloseTracked`, then `Retired` or `KeptForCleanup`)
because the world moves and kills happen between them.

A library item lists one torrent and a torrent is listed by one item per run.
`wait_mode: off` and previews, which touch no record, are left out.
`CategoryArrs` are the arrs with a post-import category set in the config; one
fetched from the arr may read as blank when the fetch fails, and is left out.
Whether the category move makes the arr stop tracking the download depends on
its client settings: `untracks` is chosen in `Init` from `MoveUntracks`.

### RunCoverage

A title has a cached row, stamped with SeaDex's `updated_at`; `under`, `seen`
and `owed` are history: the settings it was judged under, the history its arr
read had seen, and why the title's last scan left it without a verdict (`held`:
`_should_cache_as_done` or an exception; `ignored`: unmonitored). `ActivityScan`
is `_resolve_window` and the scan; `FullPass` is the coverage predicate of
`run_sync`. `NoChangeSwallowed` and `VerdictsMatchSettings` (together
`NothingWrittenOff`) except the owed
titles: a held one can be skipped after all (`HeldTitlesRetried`, below), and a
full pass writes off the file changes of an ignored one.
Settings only move to new values: see the boundaries below.

The lookback is counted in whole days and the query overlap is zero in the runs;
the model starts after a first full pass whose history had one unrelated record.

### GrabPipeline

The add loop of `grab_and_cache` over the titles of every item, run after run.
`Plan` is `process_al_id` up to that call: which urls the plan flags is the
selection (`Lists`) less what the arr holds or, filtering by hash, what the title's
row lists; which private ones the planner drops, and whether a read failed, is
chosen. `left` is the loop's place; `ScreenedOut`, `HoldCapped`, `AddPresent`,
`AddNew`, `AddFails` are the ways through `add_torrent` for one url, and
`HoldRaises`, `AddUnanswered`, `AddRaises`, `TitleRaises` the ways an exception
leaves it with something already done. `Settle` caches or reports. A record here
is its claims and which of them have aged; `seeds` are the records read when the
seeds were built, before the loop, and that staleness is the point of
`ClaimsAccumulate`. `real`, `hidden`, `capped`, `ever`, `done`, `reported` and `tooOld` are
history.

A url is a torrent, listed by at most one group of a title; titles and urls are
numbered in the order they are visited. A private release has no hash of its own:
what the code stores for it (a `None` in the hash list, one marker for all) is
exact here with one private release per title. A torrent past
`pending_max_age_days` is `old`. Files land and days pass between runs only. The
settings never move within a behaviour (`RunCoverage` moves them), nor does
SeaDex; `rescan` stands for whatever makes a run re-check cached titles. Failed
calls, raises, removals by the user and kills share the bound `MaxUpsets`.

Left out: previews, `wait_mode: off`, interactive picks, notifications, the run list
and `reacquired_keys` (in `PendingImports`), Sonarr's skip of ids in Radarr's cache,
trackers not selected (the filter drops their urls before the plan).

### AtomicStore and CacheStore

`CacheStore` has the three files, the connection and every step between which a
kill can fall: two steps of quarantine, each migration, the copy, the rename and
the reconnect of a promotion. SQLite itself is assumed: a commit is atomic and
lands in the log, a log found beside a file is replayed, the last close folds
it. `ImplementsAtomicStore` refines it to `AtomicStore`, with `durable` the
content a reader of the path finds.

### StepIn

The polls of one completed download. Every request of `import_completed` is a
step, `pc` names the next one, and Sonarr may move before each: its scheduler, its
user or another download queue disk commands, which run one at a time; a pass
imports the download when it has it pending, on the right episodes or not; files
land one by one; a completed rescan re-reads the queue and queues the next pass; a
restart cuts the running command and forgets the rest. `Decide` is the middle of
`import_completed`, `Import` is `run_manual_import` with `_verify_or_import`.
Sonarr is external: its actions say what the code and `CHANGELOG.md:250-262` rely
on, and its choices are left free.

An episode's file is known by its size (one of ours, or not) and its group (ours,
trusted, none); a foreign, stale or unidentified file needs the import as a missing
one does, so `NoFile` stands for them. A record is the role and the episodes of each
listed file. When a failed read, a half-visible folder, a spontaneous Sonarr
command, a restart or a new run happens, it is an `Upset`, and all of them share
one bound. How often polls come and when the record gives up is `MonitorRow`'s;
both meet in the probe: its kind and its deferral.

Left out: placements recovered from Sonarr's history, files of no claimed series,
the quality and language sent with a file, path translation, bar counts. Keeping a
scan is bounded by time and path in the code; here it may always be dropped.

### OutputHub

One step is one locked section, or one renderer's `handle`, or one containment
note; `pc[t]` says where thread *t* is, and the combiner loop has a second set of
places for the loop inside `_flush_on_unwind`. A lifecycle body holds the lock
and the baton from its first to its last statement, so it is one step that may
strike renderers and enqueue what they emit. Renderers are offered an event in
any order. Only the main thread is interrupted: in a dispatch or between two of
its sections, between `emit`'s section and `_drain`, or parked in a lifecycle
call; an interrupt inside a lifecycle body, or between two bytecodes of a locked
section or of `_drain`'s `finally`, is not modelled. No renderer makes a
lifecycle call from inside `handle`. `passed`, `cut` and `orphaned` are history:
which events each renderer was handed or struck out for, which a repeat interrupt
stopped, and whether an interrupt took the queue's drainer away.

### SeadexFilter and ReleaseChoice

`BuildDict` is `SeadexReleaseFilter.build`: the audio and best cuts, the public
fallbacks offered for private picks nothing public covers, the private twins
pruned. A file is a size, a listing a bag of sizes with the (episode, size) pairs the
placement gives it, an episode's file a group and a size. `MatchUrl` and what it
calls are the matchers of `planner.py` for placed, unplaced and refused listings;
`Reduce` is `reduce_overlapping_downloads` with the promotion, the rescue and the
dedupe of cross-seeds; `Guards` is `_group_verdicts`, which the import inherits and
`Protected` applies. `Build`, `Pick` (the interactive prompt) and `MakePlan` are one
run's choice, `Import` what Sonarr or Radarr then takes, in any order, `Settle` the hashes
stored; the library so left is what the next run matches. `landed` is history.

### ParseReading, PlacerState, Placer and Placement

A file is a record of what its name was read as (numbers, counts, run prefix, version,
the episode or entry its words name) and of Sonarr's parse. `ReadParse` is
`read_parse`; `Placer` has one operator per pass of `placer/`, in the order of
`Assign`, each onto what the earlier ones left. `AcrossWindows` is
`place_across_windows` over every entry that lists the torrent, `MergedFile`,
`ListedElsewhere` and `HoldOf` decide what the grabbing entry does with the outcome,
`Accreted` stores it and `Retire` drops the record. `Grab` is one title's grab with
every read served, or one of them failed.

One series, its windows fixed between grabs, one failing read per grab. Left out:
unscoped claims, listings that cannot be placed at all (`can_place`), the reading
of words into titles and numbers, and the recovery of a record from Sonarr's history.
A name with a key of its own has its own run prefix. All verdicts but `NUMBERED_RUN`
occur in the run.

### RunBoot

A process starts as `run`, `dry`, `migrate`, `backup`, `restore` or `remove`, waits at
the lock, and `pc` names its next step; `job` its command. Files are versions: a mapping
source is the number it was published as, `Torn` when it does not parse; `db` is the version
`mappings.db` has rows of and the digest stamped over them, `index` what the process's
own connection sees before its commit. `cache` and `log` carry the lineage of the
database they belong to. `lockable` is chosen in `Init`: without it the lock file cannot be
created and the run goes on unlocked, as `runlock.py` does. Three sources are loaded
alike, one stands for them; a leg is a commit or more to `cache.db`.

Two things the code cannot be held to are constants, off in the run: the user saving
`config.yml` between a rewrite's read and its swap (`EditInRewrite`), and a kill between
the two deletions of `cache remove` (`KillInRemove`).

### The services of a leg

`SeadexGateway`: the prefetch in sorted chunks with its latch, then `entry` per title.
`AnilistGateway`: the rows of `anilist_meta` over legs: load, batches, the save with its
eviction, live queries; the breaker of the client. `SkyhookGateway`: the records of
`tvdb_orders` over legs and previews, a leg cut short at any point. One series at a time,
the official order, then each order its reply lists, rows or not (a reply with a failed row
keeps its `season_types`; one that does not validate lists nothing), and a record written
when all are in. A record carries the leg that fetched it, and the history `heard` every
reply with its leg, so that `RecordsAreWhole` compares each record, the old ones too, with
what that leg was sent, and allows no value of its own. `ArrCategories`: each category from
the config or the arr's own client, fetched once, while the operator edits it.
`ArrStreaks`: the failure ledger; only its updates are under the lock, every message is
a step of its own. A count is the set of the calls it counts, so that a call counted twice
shows. `SeriesEpisodes`: the pool that warms the lists, with cold reads,
failures and the library moving on; a list is how often the series had changed when it
was read.

### AniBridgeIndex and EntryMappings

`Parse` turns the graph into a record per AniList id, `ToRows` flattens them into the
tables, `SqlLookup` answers from the tables what `GraphLookup` answers from the
records. A range text is its comma pieces, already split; a descriptor the record of
its parts. A record is written as what its targets say together (`RecordOf`) where
`_add_target` folds them in one by one: the first AniDB id, the maps of each show and
season. A season's ranges are a set, since `season_holds`, the one reader, asks
whether any of them holds a number; the rows of a range given twice coincide.
`EntryMappings` adds Kometa's and AniDB's rows, the ids of a title tried in order
(`Filled`: what an earlier source found stands), and the episodes an entry is given
(`PickEpisodes`), named by their places in Sonarr's list. Keys are one per AniList
id; Sonarr's rows are always numbered. Entries of AniBridge ask AniDB for season -1,
so AniDB only narrows Kometa's. The alternate orders of a series (`orders_for`,
`prefetch_orders`) and `al_id_needs_scan` are left out.

## Runs

| run | expects | bounds and why they are enough |
|---|---|---|
| `MonitorRow.cfg` | pass, with liveness | ready timeout 3, polls every 2 in slices of 1 or whole, 2 files: deadlines fall on, before and after polls; the credit cap (18) takes nine polls to reach, so the runs go past it |
| `MonitorRowTimedOut.cfg` | violation | |
| `PendingImports.cfg` | pass | two arrs on one torrent, 3 claims (so one arr grabs twice around the other's retirement), one kill, both kinds of category move |
| `RunCoverage.cfg` | pass | 2 titles, 2 history records, days 0..2 with lookback 1: the checkpoint lies before, at and after the edge of the window; one settings edit or SeaDex update, one failure or preview, one kill |
| `RunCoverageHold.cfg` | violation | |
| `Persistence.cfg` | pass, with liveness | three scenes: the store with schema 2 (two ladder steps), 3 writes, 3 kills; one arr's records with 3 claims and one kill; two titles' verdicts in one day, without edits |
| `OutputHub.cfg` | pass, with liveness | two threads, console and file, 3 events over a cap of 1 (so a third sheds and leaves its note while one is in flight), every strike the crossing one, 2 interrupts (the second hits the flush of the first) |
| `GrabPipeline.cfg` | pass, with liveness | one item with two titles that share a torrent, one private and one unsupported url, a cap of 1 (so the second title meets it), two settings (warn, nothing held; fallback by hash, the shared torrent held, one without a video file), one upset anywhere; safety also checked once with two upsets (0.9 million states) and once with a third title in an item of its own (5.7 million) |
| `StepIn.cfg` | pass, with liveness | two files and two episodes in three records (all mapped, one for a hand import, none mapped), one upset: a lost answer, a restart or a pass at any point of a poll, and the polls after it; two upsets were checked once on one file (1.6 million states) |
| `StepInSample.cfg` | violation | the same records with one sample, no upset at all |
| `Planner.cfg` | pass | two halves, 405,891 states. Choice: every pair of torrents of two groups and chosen triples, over eighteen libraries and pairs over twelve more with a file on an episode that is not its own, three runs (the second sees what the first left, the third what the second asked again). Placement: chosen torrents of up to four files, two or three entries, three grabs in either order, each with one read failed or none |
| `RunBoot.cfg` | pass | eight scenes, 1,089,886 states. Boot: two processes (symmetric), two published versions, two edits, two kills, three starts with a working lock and two without, all six commands. The services: three ids in chunks of two (a full chunk and a partial one), two legs (of SkyHook too, so that a fetch replaces a record of an earlier leg), two series with one order beside the official one, two edits of the client, two threads with four failing calls. Mappings: every pair of small AniBridge entries of one show with chosen Kometa and AniDB rows. Episodes: two series, two fetchers, two changes |

Several properties are conjunctions of named parts, each a hazard of its own; a
violated one is found by putting its parts into the `.cfg` instead:

| property | parts |
|---|---|
| `ClockIsFair` | `ExhaustedOnlyAfterStall`, `StallBounded`, `FlappingNeverReanchors` |
| `EffectsOnce` | `CountedOnce`, `OneCleanupPerRun` |
| `SettledOnceAllRetired` | `MovedOnceAllRetired`, `QueueClearedOnceAllRetired` |
| `NothingWrittenOff` | `NoChangeSwallowed`, `VerdictsMatchSettings` |
| `QueueIsDrained` | `OneDrainer`, `NothingStranded` |
| `DeliveredInOrder` | `NothingLost`, `EmitOrder`, `DiagnosticsBounded`, `ClosedStayQuiet` |
| `NothingHidden` | `CapRespected`, `HeldRunIsTallied`, `HashedWasGrabbed` |
| `ClaimsLast` | `ResidentKeepsClaim`, `DoneIsTracked`, `ClaimsAccumulate` |
| `PipelineSettles` | `TitlesSettle`, `OrphansReacquired` |
| `PollsAreSound` | `NeverOverRecommended`, `ImportedIsTrue`, `CreditedForWork` |
| `IndexServesSource` | `IndexIsWhole`, `ServesTheSource` |

What the newer runs show. `Planner.cfg`: whatever a title's groups list, what is
flagged covers what was wanted (`NoEpisodeDropped`) once (`OnePerCoverage`); what one run
had imported is not asked for again (`NeverAskedTwice`), and "nothing to grab" means the
library holds a recommended file (`DoneMeansOwned`). However entries share a torrent and in
whatever order they grab it, no episode gets two files (`NoEpisodeTwice`), no file is left
out of a record silently (`NoFileLeftOut`), a file is only placed where its words allow
(`TitleNeverContradicted`), and the entries listing a torrent never all leave it to one
another (`SomeoneTakesIt`).
`RunBoot.cfg`: one process is past the lock (`OneAtATime`), the config keeps its settings
through a rewrite (`RewriteKeepsSettings`), the mapping index is whole and no older than
its stamp (`IndexServesSource`), `cache.db` never meets another database's log
(`LogIsItsOwn`); an outage is never an absence (`EntryNeverDenied`), never costs stored rows
(`OutageKeepsMeta`) and never leaves part of a reading stored, whichever of a series' orders it falls between (`RecordsAreWhole`); one run does
not see two fetched categories (`CategoriesSettle`); every failed call is told or counted
(`FailuresAccounted`); rows answer as the graph (`StoredAnswersAlike`), specials have one
owner (`NoSharedSpecial`), entries pick what their best source says (`EpisodesAsMapped`), and
a served episode list was the library's at some moment of its read (`ServedWasLibrary`).

Every module of a component with state of its own has a type invariant, named `TypeOK` or
`<Component>TypeOK`. It is proved, by itself or in the inductive invariant, for `MonitorRow`,
`PendingImports`, `CacheStore`, `GrabPipeline` and `SeadexGateway`; the others hold under the
configuration of their run: add them to `INVARIANTS` after a change.

Deadlock is checked in all of them but three: a hub nobody calls stops
(`OutputHub.cfg`), a choice that has been made ends (`Planner.cfg`), and processes exit
(`RunBoot.cfg`).

Fairness. `MonitorRow`: the pass is a loop on the main thread whose sleeps and
bounded requests return, so its own steps are weakly fair; the user's Ctrl-C is
not. `PendingImports`, in its scene of `MCPersistence`: a started run goes on; the
schedule starts legs of each arr again and again (strong fairness, since a leg of the
other arr disables it); days pass. `RunCoverage`, in its scene: a started run goes on
and full, non-preview runs keep being started (strong fairness); outages and kills end,
which their bounds express. Each scene's fairness binds that scene alone.
Nothing is assumed of qBittorrent, the arrs or the outcome of any call.
`StepIn`: polls go on and Sonarr works through its queue; nothing is assumed of
its scheduler, its user or its answers.
`GrabPipeline`: a started run goes on and runs over all items keep being started
(strong fairness); no call of a run has to succeed.
`OutputHub`: a thread inside the hub goes on, since a renderer's handle returns or
raises and the lock is never held across a wait; nothing has to emit, signal or
make a lifecycle call. `Planner.cfg` and `RunBoot.cfg` state safety only.

## What is proved

`RunProofs` has the two ends of a run: its wait for the imports and its start. The wait,
from `ReadyTimeoutAssumption` (a positive integer, as `config.py` requires) and
`MonitorRowAssumption`:

- `TypeCorrect`: `Spec => []TypeOK`.
- `NeverTooSoon`: `Spec => []ExhaustedOnlyAfterStall`.
- `NeverTooLong`: `Spec => []StallBounded`.
- `LandingsBounded`: `Spec => []FlappingNeverReanchors`; with the two before it,
  `ClockStaysFair`: `Spec => []ClockIsFair`.

None is inductive by itself. The strengthening ties the anchor to the history:
it lies between the last landing and the last landing plus the credit given, and
never in the future; the credit stays within the cap; while the row waits, the
last poll was before the deadline or was credited or landed. From the first half
a row at the deadline has stalled a whole `ready_timeout` (`NeverTooSoon`), from
the second it cannot have waited longer than the anchor allows (`NeverTooLong`).

The start of a run, in `RunProofs` too, from `RunBootAssumption`, for any number of
processes, commands, edits and kills: `OneProcess`; `LogStaysItsOwn`, while no kill falls
between the two deletions of a removal; `RewritesKeepSettings`, while no edit falls
between a rewrite's read and its swap; and, with a working lock or without,
`TheIndexServesItsSource`. `LockInv` says that whoever is past the lock holds it and that one
process does; `LogInv` that, where the lock can be had, a log without its database exists
only at a removal's second deletion, and that a restore has deleted the log before it swaps;
`RewriteInv` that the file still has the bytes a rewrite read until it swaps, and that the
backup has them from its write on; `SourceInv` that published versions only grow, that rows
are as new as the digest stamped with them, and that who parses a copy holds the rows of
that copy or of a later one.

`PendingImportsProofs`, from `PendingImportsAssumption`, for any arrs, torrents, grabs
and kills: `TypeCorrect`, `EffectsHappenOnce` (`Spec => []EffectsOnce`) and
`SettledWhenAllRetire` (`[]SettledOnceAllRetired`).

- Once: a cleanup that was tried leaves nothing to take it up (`Tried`): the torrent is in
  no list of work to come, its row is not active, and if it is flagged it is among the
  kept. That needs `InLine`: a run's own grabs are active until the pass, the heal works
  on flagged rows and the pass on active ones.
- Counting: a row may be counted only if its credit is 0, which holds because an active
  row with a credited landing always has a claim beyond that landing (`Uncounted`, of
  the committed rows too, since a kill brings them back), and a retire that counts began
  with an active row whose files had landed (`Verified`).
- Effects: `Effects` says where the retire in hand stands, and `SettledIn`, of staged
  and committed rows, what a retired row implies. `SettledWhenAllRetire` has a premise on
  the settings, `UntrackingArrs`: where Sonarr's category move may untrack, every arr
  has a category. Without it the last record to retire may be one that moves nothing,
  and the queue entry stays (see the boundaries).

`RunCoverageProofs`, from `RunCoverageAssumption`, for any titles, lookback, edits and
runs cut short: `NothingIsWrittenOff` (`Spec => []NothingWrittenOff`). `SoundStore` is the
property of a store, kept for the committed and the staged one alike. `PassSound` carries
it through a run: a title yet to do and not dirty had no change since the checkpoint, since
the history is in the order of its days and the window reaches back to the checkpoint's
(`WindowReaches`), and every title a full pass is done with has seen the changes up to
where the checkpoint will move. `Vouching`: a run that may skip runs under the vouched
settings.

`ServiceProofs` has the store and the services a leg calls. The store, from
`CacheStoreAssumption` and `~OrphanLog` (no log outlives
its file): `StoreTypes`, `SavesAreKept`, `PreviewsAreForgotten` and the refinement
`StoreIsAtomic`. The inductive invariant says where the content is at each place
of the code: a log lies beside a healthy file only, a connection on memory means
no file until the rename, and the content is the saved one except between rename
and reconnect. In the refinement a `Save` is the commit or the rename, an `Open`
is the last migration or the in-memory start, and a destroyed file a `Destroy`.

`OutputHubProofs`, from `OutputHubAssumption`: `SingleDrainer` and
`QueueIsServed`, together `QueueStaysDrained`. Being in the combiner and holding the
baton are the same thing; a closed hub has nothing queued, without which an emit's early
return would strand an event. `EveryEventInOrder` proves `DeliveredInOrder` for any threads
and events: what is handed out was emitted before all that waits (`DispatchInv`), which
keeps a renderer in emit order, and what no longer waits was handed to every renderer, cut
by a repeat interrupt, or is in a thread's hand (`HandedInv`, `ClosedInv`).

`GrabPipelineProofs`, from `GrabPipelineAssumption` (titles and torrents are any
sets of numbers, any cap, any settings, any number of upsets): every safety
property of the run, `PipelineTypes`, `NothingIsHidden` (from `CapIsRespected`,
`HoldsAreTallied`, `HashesWereGrabbed`), `ClaimsAreKept` (from `ResidentsKeepClaims`,
`DoneTitlesAreTracked`, `ClaimsOnlyGrow`)
and `NoTitleIsSilent`. `CountInv` ties what went into qBittorrent to the count and
the hidden adds. `LoopInv` is the add loop's own invariant: the seeds of the urls
ahead are still the stored records (which is why saving a record built from a seed
loses nothing), every url behind has an `Outcome`, and what the plan flagged is in
the loop or private. `EverInv` says that nothing is in qBittorrent or among the
cached hashes that no run put there. A title cached as done has no outcome left
that is a failure or a hold, which leaves its claims and its hashes.

`PlannerProofs` has what a title grabs and where its files go. The choice, from
`SeadexFilterAssumption`, for a listing of any length over any sizes,
groups, episodes and library, and any number of runs: `NoEpisodeIsDropped`,
`OneReleasePerFileset`, `NothingLeftMeansOwned` and `NothingIsAskedTwice`. `DictIsPruned` says what `BuildDict`
keeps: offered torrents, none private that public ones of its group cover, which is why a
twin of a public url is public. A set of one fileset is left with one group (`OneGroupIsLeft`),
and a dropped url returns only with an episode nothing before it carries (`RescueDoes`).
When nothing is left, a set had nothing flagged or has a fallback's group, which is public
and so not flagged (`SomeGroupIsUnflagged`), and an unflagged url has its episodes held
(`UnflaggedIsHeld`). `ChoiceInv` carries this through the imports: a plan that leaves
nothing has nothing to import, so the library it read stays. Titles are those the code can
meet: no torrent of a listing is a fallback yet, and a movie places nothing. A url is
listed once, its placed files are its own, and a pack left to a hand import places none
(`grab_placement.py:340`). What
`Rescue` computes is recursive, and the facts about it are proved by taking the least
number that breaks them (`LeastOf`, `UpTo`, from the well-founded order of the numbers);
the order of a cut or grouped sequence by ranks (`EachRankIsTaken`).

`NothingIsAskedTwice` (`[]NeverAskedTwice`) is about several runs, so its invariant `AskInv`
carries a fact from import to match: each episode of a url that landed holds a file that
satisfies the url (`Satisfies`). Such a file is named by its size by a pick that placed it
there, or is one its own group lists and, if it is of the url's group at a size of the
url's, one its group placed there. A landing file is of that kind (`LandsOrIsKept`,
`PlacedSatisfies`). One the import leaves alone is too (`ProtectedIsKept`): what it is left
for, the plan's guards, comes from the picks, which `TrustedIsListed` shows of the groups
they trust. The least obvious one is a group that lists nothing at all: it is
grabbed only if flagged, since nothing promotes it (`AloneIsFlagged`), and is not flagged
while a file has its name. A url so satisfied is not flagged (`KeptIsNotAsked`) when its group
is not `Mixed` and has no `Rivals` and nothing `Strayed`: without these premises it is, and
what happens then is under "Choice" in the disagreements. The dict is the same every run
(`DictInv`), so the fact lasts. TLC checked `AskInv` on instances drawn at random before it was
proved; the premises in their present form come from its counterexamples.

The placement, from `ParseReadingAssumption` (any series whose episodes have distinct keys,
any entries), for any torrent, names, parses, failing reads and number of grabs:
`EpisodesAreMappedOnce` (`PlacementSpec => []NoEpisodeTwice`), `TitlesStand`
(`[]TitleNeverContradicted`) and `SomeoneTakesTheTorrent` (`[]SomeoneTakesIt`). The second
needs the readings, the first does not, but both go the same way up:

- One window. `Sound` is of the placer's state between two passes: what is placed was open
  to this window, no two files hold one episode, what is placed is used, and no placed file
  is titled as another. `Refuted` is of the files yet to
  place: a reading that counts resolves to nothing their title contradicts, which is why a
  pass may place by number. Each of the
  passes keeps both and leaves the inputs alone (`Good`; one lemma per pass, `PassSound` for
  the chain). The three passes that go file by file keep them turn by turn (`OneByOneSound`),
  `exact_picks` by what its picks so far have taken (`ExactPicksApart`), the zips because a
  sorted list of open ids has no id twice (`PlaceZipSound`, `RunWindowLists`, and
  `CoveredSlice` for the part of a window a run covers).
- The windows of a torrent. A window starts on what no window before it used, and a file it
  places is decided, so across windows the placed files stay disjoint, from the seed and from
  each other (`Settled`, `AcrossWindowsSettle`).
- The grabs. The seed of a grab is the stored map, and `joined_map` adds what was placed to
  it, so `RecordIsGood` (a record maps ids of one file each, none that its title contradicts)
  is inductive (`GrabKeepsTheRecordGood`, `JoinedIsGood`). An import drops the record.

That someone takes the torrent needs the verdicts too. `Sound` keeps them (`Told`, `Heard`):
a file a window places has a placing verdict there and ids of that window, and a refusal has
a window that is party to it. An entry is *reasoned* if, with no record before, it would not
be left to others. `SomeReason`: some listing entry is, whichever the order of the windows,
for if a file is placed at all, the window that decides it maps it (`DeciderMaps`), and if
none is, whoever is party to the dispute or the refuted title that held it back has its own
reason. `SomeoneStands` is inductive: some listing entry is reasoned, its last grab was not
left to others, and of its window the record maps some episode or, where placing afresh maps
nothing, nothing at all. A grab of another entry only adds to the record (`StillPlaced`), a
grab of its own finds its part still mapped, and the first grab of a record makes one stand
(`FirstGrabStands`). It holds for a torrent without ignored titles, which is the property's
premise. The ids of entries are positive, as AniList's are: 0 marks a file no window decides.

`StepInProofs`, from `StepInAssumption`, for any files, episodes, records, commands and
upsets: `OneImportIsPosted` and, where Sonarr refuses no mapped file as a sample,
`PollsStaySound`. `CommandInv` says that one command runs at a time, `OursInv` that none of
ours is in flight where one is posted, and `WorkInv` that what a poll credits as work was
work. `GuardInv` is about the read between the plan and the post: a baseline without work
tells every later command by its number, and until Sonarr has moved (`Trace`) the plan is
what the episodes need, so a post that the guard lets through overwrites nothing recommended.
With a sample a record may be retired with its episode empty (disagreement 3).

The services, in `ServiceProofs`, one invariant per service, for any ids, batches, legs, series, names and
fetchers: `EntriesAreNeverDenied` (`EntriesInv`: the memo holds listed entries only, and
every listed one among the prefetched, so an id counts as unlisted only after a chunk that
held it was answered), `OutagesKeepMeta` (`MetaInv`: an empty answer is held only of an id
AniList does not know), `RecordsStayWhole` (`RecordInv`: what is fetched of a series is what
this leg heard of it, `GotInv`; of the series it fetches or has yet to, the leg has no record,
`ToFetchInv`; records and replies are of legs begun, `LegsInv`, so what a leg hears does not
touch the reading an older record stands for; the premise is that no series is called as the
model marks none),
`CategoriesStaySettled` (`CategoriesInv`: nothing but blanks is taken from a client before
its pair is kept; the premise is that no category is called as the model marks the missing pair) and
`ServedListsWereReal` (`ListsInv`: a cached or finished read lies between the library at
the start and the library now, and no read outlives its prefetch). `FailuresStayAccounted`
is the ledger's, for any threads and calls: a failed call is in the open streak or in one
recovery note, whichever thread's message comes first.

The mappings, in `ServiceProofs` too, from `AniBridgeAssumption` (a range piece has a start,
which is a number of its own, or is junk) and `EntryMappingsAssumption` (the types of
Kometa's, AniDB's and Sonarr's rows; the series has an id), for any files, lookups and
ignored ids. `MappingsInvariant`: the tables hold the parsed file, an answer kept is the one
the sources would give again, a pick is made of such an answer. It is inductive as it
stands; the work is in what an answer says, followed back to the file:

- `TablesAnswerAlike` (`Spec => []StoredAnswersAlike`, `Spec` being `MappingsSpec` here):
  `LookupsAgree` reads the range, alias and reference rows of an entry back. The row
  without a range is what keeps a season that has none (`RangesReadBack`), and a pair of
  show and season is never read as another's (`RangesOf`). A title some entry answers for
  was found by one of its ids, so that id is among those the library is filtered by.
- `SpecialsHaveOneOwner` (`[]NoSharedSpecial`): only an entry the graph names for the
  series comes with aliases, and those left after the filter miss every other
  entry's season 0, which is the union of its targets' ranges (`SeasonMapped`).
- `EpisodesFollowMappings` (`[]EpisodesAsMapped`): `EntryOfShow` says where an entry comes
  from. Named by the graph it has the series' ranges and is never overridden; unnamed
  it is a row of Kometa's for the title or, if there is none, degraded, and then it picks
  nothing. `WholePlaces` counts: without offset and count, each episode's place is within
  the number of the picked.

Only model-checked: liveness, since fairness is out of the prover's reach; and
`NoFileLeftOut`, which compares a torrent placed in two orders and so asks of every pass
what it does with less in its window, not just what it keeps. It is not true of every
input the placer accepts: on torrents drawn at random TLC finds it broken where Sonarr's
parse contradicts a name (an `S01E02` matched onto S01E01): the second grab reads a torrent
of which the first has already mapped that file, and settles the rest differently. With
parses that agree with the names none of several thousand torrents broke it; a few odd
parses that do not break it are in the run's torrents (`Packs` of `MCPlacement`).

## Disagreements found

The first three are `violation` runs whose trace is a behaviour of the code.

1. `TimedOutMeansNotDownloaded`: past `wait_timeout` one failed qBittorrent read
   ends a row that is already importing as "download timed out".
2. `HeldTitlesRetried`: a cached title re-checked for a change and then not
   grabbed (a failed add, a placement hold) is skipped as cached by the next run.
3. `ImportedIsTrue` with a sample: a mapped file Sonarr rejects as a sample is
   neither missing nor posted, so the record is retired as imported with its
   episode empty.

Others are stated as properties and shown by a command, not kept as runs:

- `FallbackNeverReplaces` (`tlc -config ReleaseChoiceFallback.cfg MCReleaseChoice`):
  `docs/configuration.md:121` says "A fallback substitute never replaces a private copy
  you already own"; offered beside a private pick, it does when the library's file is of
  a group outside the entry.
- `SameWhoeverGrabs` (`MCPlacement`, in place of `SomeoneTakesIt`): `window_placement.py:3-5` says
  "a torrent places the same whichever entry sees it first and whether or not a record
  exists"; it does where every read is served, not where one entry's read fails.
- `EvictedOnlyWhenGone` (`AnilistGateway`): `anilist_gateway.py:93` says of an evicted row
  "a stale id the batch did not return is gone"; a healthy save evicts the aged rows of
  every title, also of those this leg never asked for.

More boundaries, stated without a run of their own:

- Records: a torrent shared by two arrs never gets the post-import category of one when
  the other, retiring last, has none (`docs/configuration.md:79` promises it per arr); with
  an untracking move the queue entry then stays too. `RunContext.reacquired_keys` is
  "Never also a `pending_imports` record" unless the user removes a torrent between two
  titles of one run, the first of which reacquired it and the second adds it anew.
- Coverage: before the first full pass nothing is vouched, so a settings edit is not
  noticed and is then vouched for; settings edited and edited back around a cut-short run
  leave verdicts reached under the middle settings (`selection_stale` knows only the last
  vouched digest); with no checkpoint stored a gap longer than the lookback triggers no
  recheck.
- Import: `ImportProbe.imported` says "with no import command of ours in flight", but the
  first check of a poll looks at the files alone and may retire a record whose import
  is still queued; `docs/deployment.md` sizes the stop grace period by `wait_timeout`,
  but the import phase comes on top of it (`StallBounded` says how long).
- Grabs: `docs/getting-started.md:108` says a run "adds at most" `max_torrents_to_add`, but
  an add whose answer was lost, or whose registration raised, is not counted (`hidden` in
  `CapRespected`).
- Choice: a group named Mixed, or a blank tag, matches nothing the library says and asks
  again for what it imported; a release with no group name takes an episode without a file
  for held, since a missing name equals a missing name (`_match_url_episodes`); a file of a
  pick on an episode it was not placed on, or placed there by a url that does not list it
  (`Strayed`), is kept by the import and asked over by
  the next run, so the other pick is asked for again and again; a promotion may flag a public url whose files were already
  imported from its private twin; two releases of one movie, or of one episode
  (`Rivals`), by one group take turns as
  each other's upgrade; the dedupe of cross-seeds keeps the first twin, whichever the
  filter listed first. `ReleaseChoice` leaves these inputs out, or excepts them by name.
- Placement: a run of numbers in the names is read against Sonarr's parse file by
  file, so an odd parse of one file settles it differently in another order.
- Files: `cache.db` deleted by hand without its `-wal` (`docs/troubleshooting.md:223` says
  deleting it is safe) gets the old log replayed over the first promoted save, which
  `OrphanLog = TRUE` shows; a kill between the two deletions of `cache remove` leaves
  the log (`KillInRemove = TRUE`); an edit saved between a rewrite's read and its swap
  is lost (`EditInRewrite = TRUE`); a config swap that fails has already replaced an
  older backup; a restore that fails after it deleted the log says the cache was "left
  unchanged"; `cache backup` looks for the file before it waits for the lock; without a
  usable lock file two runs share one `.part` download.
- Mappings: a downloaded source that does not parse is kept, and not fetched again, until
  `cache_time` is over; for an AniList id with two descriptor keys the rows answer with
  an empty `tvdb_mappings` where the graph has none, although `_sql_lookup` says it answers
  "exactly" as the graph.

## Not modelled

Rows rewritten by a schema step (one pass inside one transaction; the ladder itself is in
`CacheStore`), the renderers and their regions (formatting, read by nothing), and the
notifications (best effort, their outcome is read by nothing). Within the modelled parts:
option parsing, HTTP plumbing and bodies, the reading of a file name into numbers and
words, the texts of notices and reports, replay records for tests. `PROJECT.json` says
at each component what is left out of it.

## Plan

1. Placement with two series in one torrent, and unscoped claims.
2. Placements recovered from Sonarr's history in `StepIn`.
