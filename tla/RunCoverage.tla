---------------------------- MODULE RunCoverage ----------------------------
(***************************************************************************)
(* What one arr's runs re-check and what they write off (run_loop.py,      *)
(* run_services.py, arr_activity.py).  A cached verdict is skipped until   *)
(* SeaDex updates the entry, the arr's history shows a file change, or the *)
(* matching settings move.  The history checkpoint and the settings digest *)
(* are advanced by full passes only, and are staged with everything else   *)
(* until a save point.                                                     *)
(*                                                                         *)
(* The environment (settings edits, SeaDex updates, history events, days)  *)
(* moves at any moment, also in the middle of a run.                       *)
(***************************************************************************)
EXTENDS Integers, FiniteSets, Sequences

CONSTANTS
  Titles,       \* the library items, one AniList id each
  Lookback,     \* HISTORY_MAX_LOOKBACK_DAYS
  Overlap,      \* HISTORY_QUERY_OVERLAP_HOURS, in days
  MaxEvents, MaxDay, MaxEdits, MaxMisses, MaxKills \* bounds

ASSUME RunCoverageAssumption ==
  /\ Lookback \in Nat /\ Overlap \in Nat
  /\ {MaxEvents, MaxDay, MaxEdits, MaxMisses, MaxKills} \subseteq Nat

VARIABLES
  \* the world
  settings,   \* the selection digest of the config on disk
  updated,    \* SeaDex's updated_at of each title's entry
  history,    \* the arr's history: file changes of a title, or other events
  day,
  monitored,
  \* the store, as last committed and as the run's connection sees it
  durable, staged,
  \* the run
  pc,
  single,     \* item_id, or NoItem
  preview,
  config,     \* the digest of the config this run loaded
  stale,      \* RunServices._selection_stale
  stash,      \* ArrActivityMonitor._pending_checkpoint
  dirty,      \* RunServices._dirty_al_ids
  todo,
  capped,     \* stats.held_by_cap # 0
  outage,     \* seadex.outage or skyhook.outage
  \* bounds
  edits,      \* settings edits and SeaDex updates so far
  misses, kills

world == <<settings, updated, history, day, monitored, edits>>
run   == <<single, preview, config, stale, stash, dirty, todo, capped, outage>>
vars  == <<world, durable, staged, pc, run, misses, kills>>

NoItem == "no item"
Other  == "other"   \* a history event that changes no library file
None   == [id |-> 0, day |-> -1]
NoVouch == -1

\* A row: the updated_at it was written for (0: no row) and, for the properties
\* alone, the digest it was judged under, the history its arr read had seen and
\* why the title's last scan left it without a new verdict, if it did.
Owings == {"no", "held", "ignored"}

Row == [updated : Nat, under : Nat, seen : Nat, owed : Owings]
NoRow == [updated |-> 0, under |-> 0, seen |-> 0, owed |-> "no"]

Store == [rows : [Titles -> Row], vouched : Nat \cup {NoVouch},
          cursor : [id : Nat, day : Nat] \cup {None}]

FirstPass == [rows |-> [t \in Titles |-> [NoRow EXCEPT !.updated = 1, !.seen = 1]],
              vouched |-> 0, cursor |-> [id |-> 1, day |-> 0]]

Init ==
  /\ settings = 0 /\ updated = [t \in Titles |-> 1] /\ day = 0
  /\ history = <<[item |-> Other, day |-> 0]>>
  /\ monitored = [t \in Titles |-> TRUE]
  /\ durable = FirstPass
  /\ staged = durable
  /\ pc = "idle" /\ single = NoItem /\ preview = FALSE /\ config = 0 /\ stale = FALSE
  /\ stash = None /\ dirty = {} /\ todo = {} /\ capped = FALSE /\ outage = FALSE
  /\ edits = 0 /\ misses = 0 /\ kills = 0

-----------------------------------------------------------------------------
(* The world.                                                                *)

\* To new settings: see the README for a return to earlier ones.
EditSettings ==
  /\ edits < MaxEdits /\ edits' = edits + 1
  /\ settings' = settings + 1
  /\ UNCHANGED <<updated, history, day, monitored>>

SeaDexUpdates(t) ==
  /\ edits < MaxEdits /\ edits' = edits + 1
  /\ updated' = [updated EXCEPT ![t] = @ + 1]
  /\ UNCHANGED <<settings, history, day, monitored>>

HistoryGrows ==
  /\ Len(history) < MaxEvents
  /\ \E t \in Titles \cup {Other} : history' = Append(history, [item |-> t, day |-> day])
  /\ UNCHANGED <<settings, updated, day, monitored, edits>>

DayPasses ==
  /\ day < MaxDay /\ day' = day + 1
  /\ UNCHANGED <<settings, updated, history, monitored, edits>>

ToggleMonitored(t) ==
  /\ monitored' = [monitored EXCEPT ![t] = ~@]
  /\ UNCHANGED <<settings, updated, history, day, edits>>

World ==
  /\ EditSettings \/ HistoryGrows \/ DayPasses
     \/ \E t \in Titles : SeaDexUpdates(t) \/ ToggleMonitored(t)
  /\ UNCHANGED <<durable, staged, pc, run, misses, kills>>

-----------------------------------------------------------------------------
(* A run.                                                                    *)

\* The leg opens its store and its RunServices: selection_stale.
StartRun ==
  /\ pc = "idle" /\ pc' = "scan"
  /\ single' \in Titles \cup {NoItem}
  /\ \/ preview' = FALSE /\ UNCHANGED misses
     \/ preview' = TRUE /\ misses < MaxMisses /\ misses' = misses + 1
  /\ config' = settings
  /\ stale' = (staged.vouched # NoVouch /\ staged.vouched # settings)
  /\ todo' = IF single' = NoItem THEN Titles ELSE {single'}
  /\ UNCHANGED <<world, durable, staged, stash, dirty, capped, outage, kills>>

\* _resolve_window.
Floor      == day - Lookback
Since      == staged.cursor.day - Overlap
Truncated  == staged.cursor # None /\ Since < Floor
QueryDay   == IF staged.cursor = None \/ Truncated THEN Floor ELSE Since

\* The records past the id cursor that the window returns.
Fresh == {i \in DOMAIN history : i > staged.cursor.id /\ history[i].day >= QueryDay}

Newest == CHOOSE i \in Fresh : \A j \in Fresh : j <= i

\* ArrActivityMonitor.scan and mark_dirty.
ActivityScan ==
  /\ pc = "scan" /\ pc' = "items"
  /\ stash' = IF Fresh = {} THEN None ELSE [id |-> Newest, day |-> history[Newest].day]
  /\ dirty' = IF Truncated THEN todo ELSE {t \in todo : \E i \in Fresh : history[i].item = t}
  /\ UNCHANGED <<world, durable, staged, single, preview, config, stale, todo, capped,
                 outage, misses, kills>>

\* detect_arr_activity is off, or the history could not be read: fail open.
NoActivityScan ==
  /\ pc = "scan" /\ pc' = "items"
  /\ misses < MaxMisses /\ misses' = misses + 1
  /\ UNCHANGED <<world, durable, staged, run, kills>>

\* _skippable_entry.
Current(t)   == staged.rows[t].updated = updated[t]
\* Mutant: dirty titles are skipped like any other.
SkippableDirty(t) == ~stale /\ Current(t)

Skippable(t) == ~stale /\ t \notin dirty /\ Current(t)

Take(t) == /\ pc = "items" /\ t \in todo
           /\ todo' = todo \ {t}
           /\ pc' = "save"

\* History only: nothing is written to the store.
Owe(t, why) == staged' = [staged EXCEPT !.rows[t].owed = why]

\* _scan_item: unmonitored, and ignore_unmonitored.
SkipUnmonitored(t) ==
  /\ Take(t) /\ ~monitored[t]
  /\ Owe(t, "ignored")
  /\ UNCHANGED <<world, durable, single, preview, config, stale, stash, dirty,
                 capped, outage, misses, kills>>

\* al_id_prologue: SeaDex is out; or the orders of the series are unread.
SkipOutage(t) ==
  /\ Take(t) /\ monitored[t]
  /\ misses < MaxMisses /\ misses' = misses + 1
  /\ outage' = TRUE
  /\ UNCHANGED <<world, durable, staged, single, preview, config, stale, stash, dirty,
                 capped, kills>>

SkipCached(t) ==
  /\ Take(t) /\ monitored[t] /\ Skippable(t)
  /\ UNCHANGED <<world, durable, staged, single, preview, config, stale, stash, dirty,
                 capped, outage, misses, kills>>

\* process_al_id to its end: the arr's files are read now, and the verdict is
\* cached as done (grab_and_cache, no_releases_skip).
CacheVerdict(t) ==
  /\ Take(t) /\ monitored[t] /\ ~Skippable(t)
  /\ staged' = [staged EXCEPT !.rows[t] =
                 [updated |-> updated[t], under |-> config, seen |-> Len(history),
                  owed |-> "no"]]
  /\ UNCHANGED <<world, durable, single, preview, config, stale, stash, dirty,
                 capped, outage, misses, kills>>

\* _hold_capped: a release held past the cap keeps the title uncached.
HoldCapped(t) ==
  /\ Take(t) /\ monitored[t] /\ ~Skippable(t) /\ ~preview
  /\ misses < MaxMisses /\ misses' = misses + 1
  /\ capped' = TRUE
  /\ UNCHANGED <<world, durable, staged, single, preview, config, stale, stash, dirty,
                 outage, kills>>

\* _should_cache_as_done vetoed by anything else (a failed grab, a failed
\* read, a placement hold, an unsupported tracker), or process_al_id raised:
\* nothing is written, and an older row stays as it is.
LeaveUncached(t) ==
  /\ Take(t) /\ monitored[t] /\ ~Skippable(t)
  /\ misses < MaxMisses /\ misses' = misses + 1
  /\ Owe(t, "held")
  /\ UNCHANGED <<world, durable, single, preview, config, stale, stash, dirty,
                 capped, outage, kills>>

\* The save after every item.
SaveItem ==
  /\ pc = "save" /\ pc' = "items"
  /\ durable' = IF preview THEN durable ELSE staged
  /\ UNCHANGED <<world, staged, run, misses, kills>>

\* Mutant: a pass cut short by an outage counts as full.
FullPassThroughOutage == single = NoItem /\ ~capped

FullPass == single = NoItem /\ ~capped /\ ~outage

\* The tail of run_sync: commit_checkpoint and vouch_selection.
EndScan ==
  /\ pc = "items" /\ todo = {} /\ pc' = "final"
  /\ staged' = IF FullPass
               THEN [staged EXCEPT !.cursor = IF stash = None THEN @ ELSE stash,
                                   !.vouched = config]
               ELSE staged
  /\ UNCHANGED <<world, durable, run, misses, kills>>

\* The leg ends: what was not committed is rolled back with its connection.
Close(saved) ==
  /\ pc' = "idle"
  /\ durable' = saved /\ staged' = saved
  /\ single' = NoItem /\ preview' = FALSE /\ config' = 0 /\ stale' = FALSE
  /\ stash' = None /\ dirty' = {} /\ todo' = {} /\ capped' = FALSE /\ outage' = FALSE

FinalSave ==
  /\ pc = "final"
  /\ Close(IF preview THEN durable ELSE staged)
  /\ UNCHANGED <<world, misses, kills>>

\* A kill, a SIGTERM or a leg-fatal error.
Kill ==
  /\ pc # "idle" /\ kills < MaxKills /\ kills' = kills + 1
  /\ Close(durable)
  /\ UNCHANGED <<world, misses>>

RunStep ==
  \/ ActivityScan \/ NoActivityScan
  \/ \E t \in Titles : \/ SkipUnmonitored(t) \/ SkipOutage(t) \/ SkipCached(t)
                       \/ CacheVerdict(t) \/ HoldCapped(t) \/ LeaveUncached(t)
  \/ SaveItem \/ EndScan \/ FinalSave

Next == World \/ StartRun \/ RunStep \/ Kill

Spec == Init /\ [][Next]_vars

(* A started run goes on, and the schedule keeps starting full runs that may *)
(* write (StartFull); outages, failed reads, cap holds and kills end, which  *)
(* their bounds express.                                                     *)
StartFull == StartRun /\ single' = NoItem /\ ~preview'

FairSpec == Spec /\ WF_vars(RunStep) /\ SF_vars(StartFull)

-----------------------------------------------------------------------------
TypeOK ==
  /\ settings \in 0..MaxEdits /\ updated \in [Titles -> Nat] /\ day \in 0..MaxDay
  /\ history \in Seq([item : Titles \cup {Other}, day : 0..MaxDay])
  /\ monitored \in [Titles -> BOOLEAN]
  /\ durable \in Store /\ staged \in Store
  /\ pc \in {"idle", "scan", "items", "save", "final"}
  /\ single \in Titles \cup {NoItem} /\ preview \in BOOLEAN
  /\ config \in 0..MaxEdits /\ stale \in BOOLEAN
  /\ stash \in [id : Nat, day : Nat] \cup {None}
  /\ dirty \subseteq Titles /\ todo \subseteq Titles
  /\ capped \in BOOLEAN /\ outage \in BOOLEAN
  /\ edits \in 0..MaxEdits /\ misses \in 0..MaxMisses /\ kills \in 0..MaxKills

\* A row the next run may skip on its own: SeaDex has not moved since.
Trusted(t) == durable.rows[t].updated = updated[t]

Changes(t) == {i \in DOMAIN history : history[i].item = t}

\* The title's last saved scan found it unmonitored or left it uncached.
Owed(t) == durable.rows[t].owed # "no"

(* The checkpoint is "never consumed": once the durable cursor stands past a *)
(* title's file change, a skippable verdict was reached after that change,   *)
(* through any mix of partial, capped, failed, killed and preview runs,      *)
(* lookback gaps and events that arrive while a run is under way; unless the *)
(* title's last saved scan left it without a verdict (see HeldTitlesRetried).*)
NoChangeSwallowed ==
  \A t \in Titles : Trusted(t) /\ ~Owed(t) =>
    \A i \in Changes(t) : i <= durable.cursor.id => i <= durable.rows[t].seen

(* configuration.md: "the next run re-checks every cached title against the  *)
(* new rules".  While the store vouches for the settings on disk, every      *)
(* verdict a run may skip was reached under those settings, with the same    *)
(* exception.                                                                *)
VerdictsMatchSettings ==
  durable.vouched = settings =>
    \A t \in Titles : Trusted(t) /\ ~Owed(t) => durable.rows[t].under = settings

(* Nothing is written off: neither the checkpoint nor the vouch passes over  *)
(* a title whose stored verdict is older than what it stands for.            *)
NothingWrittenOff == NoChangeSwallowed /\ VerdictsMatchSettings

(* Every file change is acted on in the end, whatever runs were cut short:   *)
(* the title is judged again, after the change, or scanned without a verdict.*)
EveryChangeReached ==
  \A t \in Titles : \A i \in 1..MaxEvents :
    (i \in Changes(t)) ~> (i \in Changes(t) /\ (durable.rows[t].seen >= i \/ Owed(t)))

(* grab_pipeline.py, a contained failure "leaves the title uncached for a    *)
(* retry next run": no run is about to skip, as cached, a title whose last   *)
(* evaluation was held or failed.                                            *)
HeldTitlesRetried ==
  pc = "items" => \A t \in todo :
    monitored[t] /\ Skippable(t) => staged.rows[t].owed # "held"
=============================================================================
