--------------------------- MODULE MCPersistence ----------------------------
(* What lasts from run to run: the store itself (CacheStore), a pending record  *)
(* of one arr (PendingImports), a file change the runs must judge (RunCoverage).*)
(* They share no state, so a behaviour follows one of them, its scene, and the  *)
(* other two stay where they started.                                           *)
EXTENDS CacheStore

CONSTANTS Arrs, Sonarr, Torrents, CategoryArrs, MoveUntracks, MaxGrabs,
          Titles, Lookback, Overlap, MaxEvents, MaxDay, MaxEdits, MaxMisses, MaxRunKills

VARIABLES
  scene,
  torrent, landed, moved, entry, records, staged, untracks, leg, mode, at, todo, item, back,
  failed, fresh, reacquired, states, kept, results, tally, credit, attempts, grabs, stops,
  settings, updated, history, day, monitored, rows, connection, place, single, dry, config,
  stale, stash, dirty, titles, capped, outage, edits, misses, ends

recordVars == <<torrent, landed, moved, entry, records, staged, untracks, leg, mode, at, todo,
  item, back, failed, fresh, reacquired, states, kept, results, tally, credit, attempts, grabs,
  stops>>
changeVars == <<settings, updated, history, day, monitored, rows, connection, place, single, dry,
  config, stale, stash, dirty, titles, capped, outage, edits, misses, ends>>
sceneVars == <<scene, vars, recordVars, changeVars>>

Records == INSTANCE PendingImports WITH
  pc <- at, durable <- records, kills <- stops, MaxKills <- MaxRunKills
Changes == INSTANCE RunCoverage WITH
  pc <- place, durable <- rows, staged <- connection, todo <- titles, preview <- dry,
  kills <- ends, MaxKills <- MaxRunKills

SceneInit ==
  /\ scene \in {"store", "records", "changes"}
  /\ scene = "store" \/ (scene # "store" /\ file = Absent)
  /\ Init /\ Records!Init /\ Changes!Init

InStore   == scene = "store" /\ UNCHANGED <<scene, recordVars, changeVars>>
InRecords == scene = "records" /\ UNCHANGED <<scene, vars, changeVars>>
InChanges == scene = "changes" /\ UNCHANGED <<scene, vars, recordVars>>

SceneNext ==
  (InStore /\ Next) \/ (InRecords /\ Records!Next) \/ (InChanges /\ Changes!Next)

\* The fairness of the two FairSpecs, each in its scene.
SceneSpec ==
  /\ SceneInit /\ [][SceneNext]_sceneVars
  /\ WF_sceneVars(InRecords /\ Records!Run)
  /\ \A a \in Arrs : SF_sceneVars(InRecords /\ Records!StartRun(a))
  /\ \A a \in Arrs, t \in Torrents : SF_sceneVars(InRecords /\ Records!Ages(a, t))
  /\ WF_sceneVars(InChanges /\ Changes!RunStep)
  /\ SF_sceneVars(InChanges /\ Changes!StartFull)

-----------------------------------------------------------------------------
(* Whatever qBittorrent, the arrs and the effects do, for ever, a stored record *)
(* leaves: the TTL of import_wait.py's prune (PendingImports.EveryRecordLeaves). *)
EveryRecordLeaves == Records!EveryRecordLeaves

(* A checkpoint held back by an outage, a cap or a kill is derived again, so    *)
(* every file change is judged in the end (RunCoverage.EveryChangeReached).     *)
EveryChangeReached == Changes!EveryChangeReached
=============================================================================
