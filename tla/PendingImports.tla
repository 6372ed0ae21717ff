--------------------------- MODULE PendingImports ---------------------------
(***************************************************************************)
(* The life of the durable pending-import records across runs: grabbed by  *)
(* the scan (grab_pipeline.py), observed by the per-item snapshot, healed, *)
(* checked or monitored by the finalize tail (import_wait.py), stored      *)
(* through PendingRecords (pending_records.py) and committed at the save   *)
(* points of run_loop.py.                                                  *)
(*                                                                         *)
(* A run is one leg, for one arr; the legs of all arrs share the store and *)
(* the torrents.  A kill at any moment loses what was staged since the     *)
(* last save.  The readings of one row are abstracted to the state of the  *)
(* world when it is read; their timing is the business of MonitorRow.      *)
(***************************************************************************)
EXTENDS Integers, FiniteSets

CONSTANTS
  Arrs,          \* the configured arrs
  Sonarr,        \* the arr with a snapshot, a waiting monitor and a queue
  Torrents,      \* infohashes; each is listed by one library item
  CategoryArrs,  \* the arrs whose post_import_category is set
  MoveUntracks,  \* the settings of whether it is outside the watched category
  MaxGrabs,      \* bound on the claims grabs may register
  MaxKills       \* bound on the kills

ASSUME PendingImportsAssumption ==
  /\ Sonarr \in Arrs
  /\ CategoryArrs \subseteq Arrs
  /\ MoveUntracks \subseteq BOOLEAN
  /\ MaxGrabs \in Nat /\ MaxKills \in Nat

VARIABLES
  \* the world
  torrent,   \* qBittorrent's view of each torrent; an errored one counts as
             \* downloading
  landed,    \* the newest claim of a record whose files are all in the arr
  moved,     \* the torrent carries the post-import category
  entry,     \* Sonarr's queue still shows the download
  \* the store
  durable,   \* rows as last committed
  staged,    \* rows as the run's connection sees them
  untracks,  \* move_untracks of the post-import category, a setting
  \* the run
  leg,       \* the arr of the current run
  mode,      \* "hybrid" (waiting monitor) or "deferred" (one check cycle)
  pc,        \* where the run stands
  todo,      \* items left to scan, or rows left to heal or to check
  item,      \* the item, or the row, being worked on
  back,      \* where a retire returns to
  failed,    \* a cleanup effect of the current retire failed
  fresh,     \* ctx.pending_imports: the run list
  reacquired,\* ctx.reacquired_keys
  states,    \* ctx.pending_states
  kept,      \* PostImportCleanup._kept_keys
  results,   \* imported carried-over result rows of the pass
  tally,     \* stats.imported, by torrent
  \* history and bounds
  credit,    \* completed runs' counts of a record's last landing
  attempts,  \* completed cleanups of each torrent in this run
  grabs, kills

worldVars == <<torrent, landed, moved, entry>>
runVars   == <<leg, mode, todo, item, back, failed, fresh, reacquired, states,
               kept, results, tally, attempts>>
bounds    == <<untracks, grabs, kills>>
vars      == <<worldVars, durable, staged, pc, runVars, credit, bounds>>

NoItem == "no item"

\* A record is active or kept for its cleanup (awaiting_cleanup), `old` once
\* its newest claim is past the TTL.  A row without a record says how the last
\* one left, for this instance of the torrent.
Left == {"never", "retired", "dropped"}

Row == [st : {"active", "flagged"} \cup Left, old : BOOLEAN, claim : 0..MaxGrabs]

NoRow(how) == [st |-> how, old |-> FALSE, claim |-> 0]

\* PendingState, as far as a run acts on it: "seen" stands for QUEUED,
\* DOWNLOADED, ERRORED and MISSING.
States == {"unset", "seen", "imported"}

Stored(row) == row.st \notin Left

Held(a, t) == Stored(staged[a][t])

\* Every file the record's claims intend is in the arr.
AllLanded(a, t) == landed[a][t] >= staged[a][t].claim

\* PendingRecords.flagged and .active of the current leg.
Flagged == {t \in Torrents : staged[leg][t].st = "flagged"}
Active  == {t \in Torrents : staged[leg][t].st = "active" /\ t \notin fresh}

OtherArrHolds(t) == \E a \in Arrs \ {leg} : Held(a, t)

Put(t, st) == staged' = [staged EXCEPT ![leg][t].st = st]

Drop(t, how) == /\ staged' = [staged EXCEPT ![leg][t] = NoRow(how)]
                /\ fresh' = fresh \ {t}

Init ==
  /\ torrent = [t \in Torrents |-> "absent"]
  /\ landed = [a \in Arrs |-> [t \in Torrents |-> 0]]
  /\ moved = [t \in Torrents |-> FALSE]
  /\ entry = [t \in Torrents |-> FALSE]
  /\ durable = [a \in Arrs |-> [t \in Torrents |-> NoRow("never")]]
  /\ staged = durable
  /\ leg = Sonarr /\ mode = "hybrid" /\ pc = "idle"
  /\ todo = {} /\ item = NoItem /\ back = "idle" /\ failed = FALSE
  /\ fresh = {} /\ reacquired = {} /\ kept = {}
  /\ states = [t \in Torrents |-> "unset"]
  /\ results = [t \in Torrents |-> 0]
  /\ tally = [t \in Torrents |-> 0]
  /\ credit = [a \in Arrs |-> [t \in Torrents |-> 0]]
  /\ attempts = [t \in Torrents |-> 0]
  /\ untracks \in MoveUntracks
  /\ grabs = 0 /\ kills = 0

-----------------------------------------------------------------------------
(* The world, at any moment.                                                 *)

TorrentMoves(t) ==
  /\ \/ torrent[t] = "downloading" /\ torrent' = [torrent EXCEPT ![t] = "complete"]
     \/ torrent[t] # "absent" /\ torrent' = [torrent EXCEPT ![t] = "absent"]
  /\ UNCHANGED <<landed, moved, entry, durable, staged, pc, runVars, credit, bounds>>

\* The arr finishes an import; Sonarr may close its own queue entry with it.
FilesLand(a, t) ==
  /\ torrent[t] = "complete" /\ ~AllLanded(a, t)
  /\ landed' = [landed EXCEPT ![a][t] = staged[a][t].claim]
  /\ credit' = [credit EXCEPT ![a][t] = 0]
  /\ \/ UNCHANGED entry
     \/ a = Sonarr /\ entry' = [entry EXCEPT ![t] = FALSE]
  /\ UNCHANGED <<torrent, moved, durable, staged, pc, runVars, bounds>>

\* Imported files vanish from the library of a record kept for its cleanup.
FilesVanish(a, t) ==
  /\ AllLanded(a, t) /\ durable[a][t].st = "flagged" /\ pc = "idle"
  /\ landed' = [landed EXCEPT ![a][t] = 0]
  /\ UNCHANGED <<torrent, moved, entry, durable, staged, pc, runVars, credit, bounds>>

\* A record's newest claim passes pending_max_age_days.
Ages(a, t) ==
  /\ Stored(durable[a][t]) /\ ~durable[a][t].old /\ pc = "idle"
  /\ durable' = [durable EXCEPT ![a][t].old = TRUE]
  /\ staged' = [staged EXCEPT ![a][t].old = TRUE]
  /\ UNCHANGED <<worldVars, pc, runVars, credit, bounds>>

-----------------------------------------------------------------------------
(* The scan of a run.                                                        *)

(* The context of a run, begin_run's, is new with each leg; it is cleared    *)
(* here where the leg ends.                                                  *)
NoContext ==
  /\ leg' = Sonarr /\ mode' = "hybrid"
  /\ todo' = {} /\ item' = NoItem /\ back' = "idle" /\ failed' = FALSE
  /\ fresh' = {} /\ reacquired' = {} /\ kept' = {}
  /\ states' = [t \in Torrents |-> "unset"]
  /\ results' = [t \in Torrents |-> 0]
  /\ tally' = [t \in Torrents |-> 0]
  /\ attempts' = [t \in Torrents |-> 0]

(* run_sync for one arr; a single-item run scans one item.  Only Sonarr has  *)
(* a monitor that waits.                                                     *)
StartRun(a) ==
  /\ pc = "idle"
  /\ leg' = a
  /\ mode' \in {"deferred"} \cup IF a = Sonarr THEN {"hybrid"} ELSE {}
  /\ todo' \in {Torrents} \cup {{t} : t \in Torrents}
  /\ pc' = "prune"
  /\ UNCHANGED <<worldVars, durable, staged, item, back, failed, fresh, reacquired, states,
                 kept, results, tally, attempts, credit, bounds>>

\* Mutant: the TTL spares a record kept for its cleanup.
PruneActive ==
  /\ pc = "prune"
  /\ staged' = [staged EXCEPT ![leg] =
                  [t \in Torrents |-> IF @[t].old /\ @[t].st = "active"
                                      THEN NoRow("dropped") ELSE @[t]]]
  /\ durable' \in {durable, staged'}
  /\ pc' = "items"
  /\ UNCHANGED <<worldVars, runVars, credit, bounds>>

\* prune_expired_pending, then the prefetch, which saves only when it fetched.
Prune ==
  /\ pc = "prune"
  /\ staged' = [staged EXCEPT ![leg] =
                  [t \in Torrents |-> IF @[t].old THEN NoRow("dropped") ELSE @[t]]]
  /\ durable' \in {durable, staged'}
  /\ pc' = "items"
  /\ UNCHANGED <<worldVars, runVars, credit, bounds>>

NextItem(t) ==
  /\ pc = "items" /\ t \in todo
  /\ todo' = todo \ {t} /\ item' = t /\ pc' = "grab"
  /\ UNCHANGED <<worldVars, durable, staged, leg, mode, back, failed, fresh, reacquired,
                 states, kept, results, tally, attempts, credit, bounds>>

(* process_al_id flags a release only while the arr lacks its files, so each *)
(* claim, numbered here, brings files still to land.                         *)
Claim(old) ==
  /\ grabs < MaxGrabs /\ grabs' = grabs + 1
  /\ staged' = [staged EXCEPT ![leg][item] =
                  [st |-> "active", old |-> old, claim |-> grabs']]
  /\ pc' = "snapshot"
  /\ UNCHANGED <<landed, leg, mode, todo, item, back, failed, states, kept, results,
                 tally, attempts, credit, untracks, kills>>

(* A torrent added anew: how earlier records on its infohash left is no      *)
(* longer of interest, in the store and in the staged view of it.            *)
Anew(rows) == [a \in Arrs |->
  [rows[a] EXCEPT ![item] = IF Stored(@) THEN @ ELSE NoRow("never")]]

\* _register_pending_import, ADDED: insert_fresh with every clock stamped now.
GrabAdded ==
  /\ pc = "grab" /\ torrent[item] = "absent"
  /\ grabs < MaxGrabs /\ grabs' = grabs + 1
  /\ torrent' = [torrent EXCEPT ![item] = "downloading"]
  /\ moved' = [moved EXCEPT ![item] = FALSE]
  /\ entry' = [entry EXCEPT ![item] = @ \/ leg = Sonarr]
  /\ staged' = [Anew(staged) EXCEPT ![leg][item] =
                  [st |-> "active", old |-> FALSE, claim |-> grabs']]
  /\ durable' = Anew(durable)
  /\ fresh' = fresh \cup {item}
  /\ pc' = "snapshot"
  /\ UNCHANGED <<landed, leg, mode, todo, item, back, failed, reacquired, states, kept,
                 results, tally, attempts, credit, untracks, kills>>

(* _register_pending_import, ALREADY_ADDED: a held record accretes the claim *)
(* (with_claim clears the flag; an entry already claiming keeps its first    *)
(* clock), a record-less torrent is reacquired.                              *)
GrabAlreadyAdded ==
  /\ pc = "grab" /\ torrent[item] # "absent"
  /\ Claim(FALSE) \/ (Held(leg, item) /\ Claim(staged[leg][item].old))
  /\ reacquired' = IF item \in fresh THEN reacquired ELSE reacquired \cup {item}
  /\ UNCHANGED <<torrent, moved, entry, durable, fresh>>

\* _hold_capped: past the cap a resident torrent still keeps its claim.
HoldCapped ==
  /\ pc = "grab" /\ Held(leg, item)
  /\ Claim(FALSE)
  /\ UNCHANGED <<torrent, moved, entry, durable, fresh, reacquired>>

\* Nothing to grab for the item.
NoGrab ==
  /\ pc = "grab" /\ pc' = "snapshot"
  /\ UNCHANGED <<worldVars, durable, staged, runVars, credit, bounds>>

\* _entry_reported_keys: fresh, reacquired or already observed this run.
Reported(t) == t \in fresh \/ t \in reacquired \/ states[t] # "unset"

Snapshots(t) == leg = Sonarr /\ staged[leg][t].st = "active" /\ ~Reported(t)

SkipSnapshot ==
  /\ pc = "snapshot" /\ ~Snapshots(item)
  /\ pc' = "itemsave"
  /\ UNCHANGED <<worldVars, durable, staged, runVars, credit, bounds>>

\* _observe_one, the readings that retire nothing; any reading may fail.
ObservePending ==
  /\ pc = "snapshot" /\ Snapshots(item)
  /\ states' = [states EXCEPT ![item] = "seen"]
  /\ pc' = "itemsave"
  /\ UNCHANGED <<worldVars, durable, staged, leg, mode, todo, item, back, failed, fresh,
                 reacquired, kept, results, tally, attempts, credit, bounds>>

\* _observe_one, MISSING: the record drops before the state is written.
ObserveMissing ==
  /\ pc = "snapshot" /\ Snapshots(item) /\ torrent[item] = "absent"
  /\ Drop(item, "dropped")
  /\ states' = [states EXCEPT ![item] = "seen"]
  /\ pc' = "itemsave"
  /\ UNCHANGED <<worldVars, durable, leg, mode, todo, item, back, failed, reacquired, kept,
                 results, tally, attempts, credit, bounds>>

BeginRetire(t, from) ==
  /\ pc' = "move" /\ item' = t /\ back' = from /\ failed' = FALSE

\* _observe_one, IMPORTED: retire first, the state after it.
ObserveImported ==
  /\ pc = "snapshot" /\ Snapshots(item) /\ torrent[item] = "complete" /\ AllLanded(leg, item)
  /\ BeginRetire(item, "itemsave")
  /\ UNCHANGED <<worldVars, durable, staged, leg, mode, todo, fresh, reacquired, states,
                 kept, results, tally, attempts, credit, bounds>>

\* The per-item containment: an item that raised still reaches its save.
ItemRaises ==
  /\ pc \in {"grab", "snapshot"}
  /\ pc' = "itemsave"
  /\ UNCHANGED <<worldVars, durable, staged, runVars, credit, bounds>>

ItemSave ==
  /\ pc = "itemsave"
  /\ durable' = staged
  /\ pc' = "items" /\ item' = NoItem
  /\ UNCHANGED <<worldVars, staged, leg, mode, todo, back, failed, fresh, reacquired, states,
                 kept, results, tally, attempts, credit, bounds>>

-----------------------------------------------------------------------------
(* PostImportCleanup.retire: move, then close, then drop or keep.            *)

MoveApplies == leg \in CategoryArrs /\ ~OtherArrHolds(item)

CategoryMove ==
  /\ pc = "move"
  /\ pc' = "close"
  /\ \/ /\ ~MoveApplies
        /\ UNCHANGED <<moved, entry, failed>>
     \/ /\ MoveApplies
        /\ moved' = [moved EXCEPT ![item] = torrent[item] # "absent"]
        /\ entry' = [entry EXCEPT ![item] = @ /\ ~untracks]
        /\ UNCHANGED failed
     \/ /\ MoveApplies
        /\ failed' = TRUE
        /\ UNCHANGED <<moved, entry>>
  /\ UNCHANGED <<torrent, landed, durable, staged, leg, mode, todo, item, back, fresh,
                 reacquired, states, kept, results, tally, attempts, credit, bounds>>

CloseApplies == leg = Sonarr /\ ~(leg \in CategoryArrs /\ untracks)

CloseTracked ==
  /\ pc = "close"
  /\ pc' = "settle"
  /\ \/ ~CloseApplies /\ UNCHANGED <<entry, failed>>
     \/ CloseApplies /\ entry' = [entry EXCEPT ![item] = FALSE] /\ UNCHANGED failed
     \/ CloseApplies /\ failed' = TRUE /\ UNCHANGED entry
  /\ UNCHANGED <<torrent, landed, moved, durable, staged, leg, mode, todo, item, back, fresh,
                 reacquired, states, kept, results, tally, attempts, credit, bounds>>

\* The locals of retire go as it returns.
Returned == pc' = back /\ item' = NoItem /\ back' = "idle" /\ failed' = FALSE

\* What the caller of retire does once it returned.
AfterRetire ==
  /\ states' = [states EXCEPT ![item] = IF back = "itemsave" THEN "imported" ELSE @]
  /\ results' = [results EXCEPT ![item] =
                   IF back = "pass" /\ item \notin fresh THEN @ + 1 ELSE @]
  /\ attempts' = [attempts EXCEPT ![item] = @ + 1]
  /\ Returned

\* Mutant: the record drops whether or not its cleanup took effect.
RetiredAnyway ==
  /\ pc = "settle"
  /\ Drop(item, "retired")
  /\ AfterRetire
  /\ UNCHANGED <<worldVars, durable, leg, mode, todo, reacquired, kept,
                 tally, credit, bounds>>

Retired ==
  /\ pc = "settle" /\ ~failed
  /\ Drop(item, "retired")
  /\ AfterRetire
  /\ UNCHANGED <<worldVars, durable, leg, mode, todo, reacquired, kept,
                 tally, credit, bounds>>

\* _keep_for_cleanup: flagged, its clocks kept, never retried this run.
KeptForCleanup ==
  /\ pc = "settle" /\ failed
  /\ Put(item, "flagged")
  /\ kept' = kept \cup {item}
  /\ AfterRetire
  /\ UNCHANGED <<worldVars, durable, leg, mode, todo, fresh, reacquired,
                 tally, credit, bounds>>

(* The drop or the keep raises (a store error): the item's containment, or   *)
(* the finalize tail's `finally`, takes over and nothing is counted for it.  *)
RetireRaises ==
  /\ pc = "settle"
  /\ pc' = IF back = "itemsave" THEN "itemsave" ELSE "finalsave"
  /\ item' = NoItem /\ back' = "idle" /\ failed' = FALSE
  /\ UNCHANGED <<worldVars, durable, staged, leg, mode, todo, fresh, reacquired, states,
                 kept, results, tally, attempts, credit, bounds>>

-----------------------------------------------------------------------------
(* The finalize tail.                                                        *)

EndScan ==
  /\ pc = "items" /\ todo = {}
  /\ pc' = "heal"
  /\ todo' = Flagged \ kept
  /\ UNCHANGED <<worldVars, durable, staged, leg, mode, item, back, failed, fresh, reacquired,
                 states, kept, results, tally, attempts, credit, bounds>>

\* _heal_one: a gone torrent, or freshly verified files, finish the cleanup.
HealFinish(t) ==
  /\ pc = "heal" /\ t \in todo
  /\ torrent[t] = "absent" \/ (torrent[t] = "complete" /\ AllLanded(leg, t))
  /\ todo' = todo \ {t}
  /\ BeginRetire(t, "heal")
  /\ UNCHANGED <<worldVars, durable, staged, leg, mode, fresh, reacquired, states, kept,
                 results, tally, attempts, credit, bounds>>

\* _heal_one: a fresh re-import started, so the record is a carryover again.
HealDemote(t) ==
  /\ pc = "heal" /\ t \in todo
  /\ leg = Sonarr /\ torrent[t] = "complete" /\ ~AllLanded(leg, t)
  /\ todo' = todo \ {t}
  /\ Put(t, "active")
  /\ states' = [states EXCEPT ![t] = "seen"]
  /\ UNCHANGED <<worldVars, durable, pc, leg, mode, item, back, failed, fresh, reacquired,
                 kept, results, tally, attempts, credit, bounds>>

\* _heal_one: no evidence, no effects.
HealNothing(t) ==
  /\ pc = "heal" /\ t \in todo
  /\ todo' = todo \ {t}
  /\ UNCHANGED <<worldVars, durable, staged, pc, leg, mode, item, back, failed, fresh,
                 reacquired, states, kept, results, tally, attempts, credit, bounds>>

Waits == mode = "hybrid"

SnapshotImports == [t \in Torrents |-> IF states[t] = "imported" THEN 1 ELSE 0]

(* Deferred mode checks the carried-over records before the tally; hybrid    *)
(* mode tallies the snapshot's imports and then monitors them and the fresh  *)
(* grabs.                                                                    *)
BeginPass ==
  /\ pc = "heal" /\ todo = {}
  /\ pc' = "pass"
  /\ todo' = IF Waits THEN fresh \cup Active ELSE Active
  /\ tally' = IF Waits THEN SnapshotImports ELSE tally
  /\ UNCHANGED <<worldVars, durable, staged, leg, mode, item, back, failed, fresh, reacquired,
                 states, kept, results, attempts, credit, bounds>>

RowImported(t) ==
  /\ pc = "pass" /\ t \in todo /\ torrent[t] = "complete" /\ AllLanded(leg, t)
  /\ todo' = todo \ {t}
  /\ BeginRetire(t, "pass")
  /\ UNCHANGED <<worldVars, durable, staged, leg, mode, fresh, reacquired, states, kept,
                 results, tally, attempts, credit, bounds>>

RowMissing(t) ==
  /\ pc = "pass" /\ t \in todo /\ torrent[t] = "absent"
  /\ todo' = todo \ {t}
  /\ Drop(t, "dropped")
  /\ UNCHANGED <<worldVars, durable, pc, leg, mode, item, back, failed, reacquired, states,
                 kept, results, tally, attempts, credit, bounds>>

\* Every other outcome leaves the record; a carried-over one folds its state.
RowLeft(t) ==
  /\ pc = "pass" /\ t \in todo
  /\ todo' = todo \ {t}
  /\ states' = [states EXCEPT ![t] = IF t \in fresh THEN @ ELSE "seen"]
  /\ UNCHANGED <<worldVars, durable, staged, pc, leg, mode, item, back, failed, fresh,
                 reacquired, kept, results, tally, attempts, credit, bounds>>

\* _run_pass: Ctrl-C ends the pass, which still reports its results.
InterruptPass ==
  /\ pc = "pass" /\ todo # {}
  /\ todo' = {}
  /\ UNCHANGED <<worldVars, durable, staged, pc, leg, mode, item, back, failed, fresh,
                 reacquired, states, kept, results, tally, attempts, credit, bounds>>

\* Mutant: every mode tallies the snapshot's imports after its pass.
EndPassTwice ==
  /\ pc = "pass" /\ todo = {}
  /\ tally' = [t \in Torrents |-> tally[t] + results[t] + SnapshotImports[t]]
  /\ pc' = "finalsave"
  /\ UNCHANGED <<worldVars, durable, staged, leg, mode, todo, item, back, failed, fresh,
                 reacquired, states, kept, results, attempts, credit, bounds>>

EndPass ==
  /\ pc = "pass" /\ todo = {}
  /\ tally' = [t \in Torrents |->
                 tally[t] + results[t] + IF Waits THEN 0 ELSE SnapshotImports[t]]
  /\ pc' = "finalsave"
  /\ UNCHANGED <<worldVars, durable, staged, leg, mode, todo, item, back, failed, fresh,
                 reacquired, states, kept, results, attempts, credit, bounds>>

\* A raise or a SIGTERM in the tail: its `finally` saves.
TailStops ==
  /\ pc \in {"heal", "pass"}
  /\ pc' = "finalsave"
  /\ UNCHANGED <<worldVars, durable, staged, runVars, credit, bounds>>

FinalSave ==
  /\ pc = "finalsave"
  /\ durable' = staged
  /\ credit' = [credit EXCEPT ![leg] = [t \in Torrents |-> @[t] + tally[t]]]
  /\ pc' = "idle"
  /\ NoContext
  /\ UNCHANGED <<worldVars, staged, bounds>>

(* A kill at any point, or a SIGTERM during the scan: the staged writes are  *)
(* rolled back.  What the run already did to the torrents stays done.        *)
Kill ==
  /\ pc # "idle" /\ kills < MaxKills
  /\ kills' = kills + 1
  /\ staged' = durable
  /\ pc' = "idle"
  /\ NoContext
  /\ UNCHANGED <<worldVars, durable, credit, untracks, grabs>>

World ==
  \/ \E t \in Torrents : TorrentMoves(t)
  \/ \E a \in Arrs, t \in Torrents : FilesLand(a, t) \/ FilesVanish(a, t)

Scan ==
  \/ Prune
  \/ \E t \in Torrents : NextItem(t)
  \/ GrabAdded \/ GrabAlreadyAdded \/ HoldCapped \/ NoGrab
  \/ SkipSnapshot \/ ObservePending \/ ObserveMissing \/ ObserveImported
  \/ ItemRaises \/ ItemSave

Retire == CategoryMove \/ CloseTracked \/ Retired \/ KeptForCleanup \/ RetireRaises

Tail ==
  \/ EndScan \/ BeginPass \/ InterruptPass \/ EndPass \/ TailStops \/ FinalSave
  \/ \E t \in Torrents : HealFinish(t) \/ HealDemote(t) \/ HealNothing(t)
  \/ \E t \in Torrents : RowImported(t) \/ RowMissing(t) \/ RowLeft(t)

Run == Scan \/ Retire \/ Tail

Next ==
  \/ World
  \/ \E a \in Arrs, t \in Torrents : Ages(a, t)
  \/ \E a \in Arrs : StartRun(a)
  \/ Run
  \/ Kill

Spec == Init /\ [][Next]_vars

(* A run, once started, goes on (every wait of its pass ends: MonitorRow);   *)
(* the schedule starts a leg for every configured arr again and again; days  *)
(* pass.  Nothing is assumed of qBittorrent, the arrs or the effects.        *)
FairSpec ==
  /\ Spec
  /\ WF_vars(Run)
  /\ \A a \in Arrs : SF_vars(StartRun(a))
  /\ \A a \in Arrs, t \in Torrents : SF_vars(Ages(a, t))

-----------------------------------------------------------------------------
TypeOK ==
  /\ torrent \in [Torrents -> {"absent", "downloading", "complete"}]
  /\ landed \in [Arrs -> [Torrents -> 0..MaxGrabs]]
  /\ moved \in [Torrents -> BOOLEAN] /\ entry \in [Torrents -> BOOLEAN]
  /\ durable \in [Arrs -> [Torrents -> Row]] /\ staged \in [Arrs -> [Torrents -> Row]]
  /\ leg \in Arrs /\ mode \in {"hybrid", "deferred"} /\ (mode = "hybrid" => leg = Sonarr)
  /\ pc \in {"idle", "prune", "items", "grab", "snapshot", "itemsave", "move", "close",
             "settle", "heal", "pass", "finalsave"}
  /\ todo \subseteq Torrents /\ item \in Torrents \cup {NoItem}
  /\ back \in {"idle", "itemsave", "heal", "pass"} /\ failed \in BOOLEAN
  /\ fresh \subseteq Torrents /\ reacquired \subseteq Torrents /\ kept \subseteq Torrents
  /\ states \in [Torrents -> States]
  /\ results \in [Torrents -> Nat] /\ tally \in [Torrents -> Nat]
  /\ credit \in [Arrs -> [Torrents -> Nat]] /\ attempts \in [Torrents -> Nat]
  /\ untracks \in MoveUntracks
  /\ grabs \in 0..MaxGrabs /\ kills \in 0..MaxKills

(* The no-phantom-count contract of run_loop._finalize_run and               *)
(* resolve_terminal: over all the runs that complete, whatever mix of        *)
(* snapshot, heal, check and monitor meets a record, raising or failing      *)
(* effects included, one landing of its files is counted as imported at most *)
(* once.                                                                     *)
CountedOnce == \A a \in Arrs, t \in Torrents : credit[a][t] <= 1

(* "A fresh keep is never retried in its own run": one run completes at most *)
(* one cleanup of a torrent, so a failing qBittorrent is asked once.         *)
OneCleanupPerRun == \A t \in Torrents : attempts[t] <= 1

AllRetired(t) ==
  /\ \A a \in Arrs : staged[a][t].st \in {"never", "retired"}
  /\ \E a \in Arrs : staged[a][t].st = "retired"

(* "A torrent both arrs grabbed moves once the last of them imports": when   *)
(* every record on a torrent was retired, in whatever order and through      *)
(* whatever failed effects and kills, the torrent carries the post-import    *)
(* category.  Checked where every arr resolves one.                          *)
MovedOnceAllRetired ==
  \A t \in Torrents :
    AllRetired(t) /\ torrent[t] # "absent" /\ CategoryArrs = Arrs /\ pc = "idle" => moved[t]

(* configuration.md, remove_from_queue: the leftover queue entry is gone     *)
(* "once every record on it has imported", whichever of the close and the    *)
(* untracking move clears it.                                                *)
QueueClearedOnceAllRetired ==
  \A t \in Torrents :
    AllRetired(t) /\ staged[Sonarr][t].st = "retired" /\ torrent[t] # "absent" /\ pc = "idle"
      => ~entry[t]

(* A run does to a record once what it does: an import is counted once, and  *)
(* a failed cleanup is left to another run.                                  *)
EffectsOnce == CountedOnce /\ OneCleanupPerRun

(* Once every record of a torrent has retired, both effects have happened,   *)
(* whichever of them failed at first and for which arr.                      *)
SettledOnceAllRetired == MovedOnceAllRetired /\ QueueClearedOnceAllRetired

(* The TTL bounds every record, the never-healing ones included: whatever    *)
(* qBittorrent, the arrs and the effects do, a stored record leaves.         *)
EveryRecordLeaves ==
  \A a \in Arrs, t \in Torrents : Stored(durable[a][t]) ~> ~Stored(durable[a][t])
=============================================================================
