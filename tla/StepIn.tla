-------------------------------- MODULE StepIn --------------------------------
(***************************************************************************)
(* One finished download's import polls (ImportReconciler and              *)
(* ImportExecutor of sonarr_import.py) against a Sonarr that imports too:  *)
(* the verdict on its queue, the rescan a lagging view gets, the kept      *)
(* scan, the guards around the manual import and the import itself.        *)
(*                                                                         *)
(* Each request of a poll is a step, and Sonarr moves between them.  Its   *)
(* disk commands run one at a time and a completed rescan queues its next  *)
(* pass (CHANGELOG.md:253, 262).  When the polls come and when a record    *)
(* gives up is the business of MonitorRow.                                 *)
(***************************************************************************)
EXTENDS Integers, FiniteSets

CONSTANTS
  Files,        \* the files of the download's listing
  Eps,          \* the episodes of the record's windows
  Records,      \* the records: the role of each file and the episodes it is for
  SampleFiles,  \* the files Sonarr rejects as samples
  MaxUpsets,    \* bound on the failed requests, the half-visible folders, the
                \* commands Sonarr or its user start by themselves, the restarts
                \* of Sonarr and the new runs, together
  MaxCommands   \* bound on the disk commands listed at once

\* "mapped": in file_episode_map; "hand": left for a hand import; "other":
\* excluded as another title's, or only warned about.
Roles == {"mapped", "hand", "other"}

ASSUME StepInAssumption ==
  /\ Records \subseteq [role : [Files -> Roles], eps : [Files -> SUBSET Eps]]
  /\ \A r \in Records, f \in Files :
       /\ r.role[f] = "mapped" => r.eps[f] # {}
       /\ \A g \in Files \ {f} : r.eps[f] \cap r.eps[g] = {}
  /\ Eps # {} /\ SampleFiles \subseteq Files
  /\ MaxUpsets \in Nat /\ MaxCommands \in Nat

VARIABLES
  \* Sonarr
  disk,       \* the episode file of each episode
  row,        \* the download's row in the queue
  commands,   \* its disk commands, the ended ones of the current poll included
  rescans,    \* the completed rescans it lists: none, all from before the
              \* torrent's add, or one from after it
  refresh,    \* the rescan under way, and how one waited for ended
  cdh,        \* enable_completed_download_handling
  dead,       \* its history has the download imported, failed or ignored
  \* the record and the run's scratch
  record,     \* the record: one of Records
  rescanned,  \* _ImportScratch.rescanned holds the download
  kept,       \* _ImportScratch.kept_scans
  pinned,     \* _ScanScratch.folder_pinned
  \* the poll
  pc, deadline,
  second,     \* Sonarr was read again after a rescan
  view,       \* _SonarrView
  scan,       \* the candidates in hand, and whether the by-id scan served them
  reused,     \* they were kept from an earlier poll
  baseline,   \* (id, status) of the disk commands listed after the scan, and
              \* the block they give
  plan,       \* the (file, episode) pairs to post
  \* history and bounds
  probe,      \* what the last poll returned: its kind and its deferral
  work,       \* a disk command was in flight at some moment of this poll
  upsets

sonarrVars == <<disk, row, commands, rescans, refresh, dead>>
settings   == <<cdh, record>>
scratch    == <<rescanned, kept, pinned>>
locals     == <<deadline, second, view, scan, reused, baseline, plan>>
vars == <<sonarrVars, settings, scratch, pc, locals, probe, work, upsets>>

-----------------------------------------------------------------------------
(* Judging the files (episode_state.py, import_files.py).                    *)

\* A file of no trusted group, or stale, or unidentified needs the import just as
\* a missing one does: NoFile stands for them all.
NoFile  == [size |-> "none", group |-> "none"]
Sibling == [size |-> "other", group |-> "trusted"]
Own(f)  == [size |-> f, group |-> "ours"]
Bare(f) == [size |-> f, group |-> "none"]   \* what a hand import leaves
Theirs  == "another download's file"
Contents == {NoFile, Sibling} \cup {Own(f) : f \in Files}
                                       \cup {Bare(f) : f \in Files}

With(role)  == {f \in Files : record.role[f] = role}
Mapped      == With("mapped")
Targets     == UNION {record.eps[f] : f \in Mapped}
Intended(e) == {f \in Mapped : e \in record.eps[f]}

OwnCopy(e)   == disk[e].size \in Files
Misplaced(e) == OwnCopy(e) /\ Intended(e) # {} /\ disk[e].size \notin Intended(e)
Recommended(e)  == disk[e].group \in {"ours", "trusted"} /\ ~Misplaced(e)
UntaggedCopy(e) == OwnCopy(e) /\ disk[e].group = "none" /\ ~Misplaced(e)

AllDone      == Targets # {} /\ \A e \in Targets : Recommended(e)
FilledByHand == \A e \in Eps : Recommended(e) \/ UntaggedCopy(e)

\* The seed map covers every listed file: the only whole seed, so the only one
\* whose episodes alone decide (_already_imported).
AlreadyImported == Mapped = Files /\ AllDone

\* A copy of our own goes along with an episode that needs the file.
ImportIds(f) ==
  IF \E e \in record.eps[f] : ~Recommended(e)
    THEN {e \in record.eps[f] : ~Recommended(e) \/ OwnCopy(e)}
    ELSE {}

PlanFor(seen) ==
  UNION {{f} \X ImportIds(f) : f \in (Mapped \cap seen) \ SampleFiles}

-----------------------------------------------------------------------------
(* The command list (probe_verdicts.py).                                     *)

InFlight(c) == c.status \in {"queued", "started"}
Running     == {c \in commands : InFlight(c)}
Covering    == {c \in Running : c.kind \in {"ours", "by hand"}}

\* Mutant: a queued command does not block.
BlockStarted ==
  LET started == {c \in commands : c.status = "started"}
  IN  IF \E c \in started : c.kind \in {"ours", "by hand"} THEN "import"
      ELSE IF started # {} THEN "busy" ELSE "none"

\* classify_commands, by the deferral its block reads as.
Block == IF Covering # {} THEN "import" ELSE IF Running # {} THEN "busy" ELSE "none"

Listed == {<<c.id, c.status>> : c \in commands}

DiskCommandsChanged == ~(Listed \subseteq baseline.listed)

SonarrRestarted == rescans = "none"

-----------------------------------------------------------------------------

NoScan     == [files |-> {}, byId |-> FALSE]
NoView     == [row |-> "none", untracked |-> FALSE, block |-> "none", rescans |-> "none"]
NoProbe    == [kind |-> "none", deferral |-> "none"]
NoBaseline == [listed |-> {}, block |-> "none"]

FreshId == CHOOSE i \in 1..MaxCommands :
             /\ \A c \in commands : c.id # i
             /\ \A l \in baseline.listed : l[1] # i

Room == \E i \in 1..MaxCommands : /\ \A c \in commands : c.id # i
                                  /\ \A l \in baseline.listed : l[1] # i

Command(kind, pairs) ==
  [id |-> FreshId, kind |-> kind, status |-> "queued", plan |-> pairs]

ClearLocals == /\ deadline' = FALSE /\ second' = FALSE /\ view' = NoView
               /\ scan' = NoScan /\ reused' = FALSE /\ baseline' = NoBaseline
               /\ plan' = {}

Init ==
  /\ disk = [e \in Eps |-> NoFile]
  /\ row \in {"none", "motion", "pending", "flagged"}
  /\ commands = {} /\ rescans \in {"before", "after"} /\ refresh = "none"
  /\ cdh \in BOOLEAN /\ dead \in BOOLEAN /\ record \in Records
  /\ rescanned = FALSE /\ kept = NoScan /\ pinned = FALSE
  /\ pc = "idle" /\ deadline = FALSE /\ second = FALSE /\ view = NoView
  /\ scan = NoScan /\ reused = FALSE /\ baseline = NoBaseline /\ plan = {}
  /\ probe = NoProbe /\ work = FALSE
  /\ upsets = 0

TypeOK ==
  /\ disk \in [Eps -> Contents]
  /\ row \in {"none", "motion", "importing", "pending", "flagged"}
  /\ commands \subseteq [id : 1..MaxCommands, kind : {"ours", "by hand", "pass", "other"},
                         status : {"queued", "started", "ended"}, plan : SUBSET ((Files \cup {Theirs}) \X Eps)]
  /\ rescans \in {"none", "before", "after"}
  /\ refresh \in {"none", "running", "completed", "failed", "orphaned"}
  /\ cdh \in BOOLEAN /\ dead \in BOOLEAN /\ record \in Records
  /\ {kept, scan} \subseteq [files : SUBSET Files, byId : BOOLEAN]
  /\ kept = NoScan \/ kept.byId
  /\ {rescanned, pinned, deadline, second, reused, work} \subseteq BOOLEAN
  /\ pc \in {"idle", "commands", "queue", "rescan", "rescanning", "scan", "folder",
             "baseline", "files", "guard", "post", "retired"}
  /\ view \in [row : {"none", "motion", "importing", "pending", "flagged"},
               untracked : BOOLEAN, block : {"none", "busy", "import"},
               rescans : {"none", "before", "after"}]
  /\ plan \subseteq Files \X Eps
  /\ probe \in [kind : {"none", "waiting", "imported", "unmatched", "hand import"},
                deferral : {"none", "issued", "import", "busy"}]
  /\ upsets \in 0..MaxUpsets

-----------------------------------------------------------------------------
(* Sonarr.  Everything below is modelled from how the code reads it.         *)

Upset == upsets < MaxUpsets /\ upsets' = upsets + 1

\* Sonarr lists an ended command longer than a step-in takes.  The ended ones are
\* kept here while a baseline could tell them apart.
Ended(c) == (commands \ {c}) \cup
  (IF pc \in {"files", "guard"} THEN {[c EXCEPT !.status = "ended"]} ELSE {})

Queues(c) == commands' = commands \cup {c} /\ work' = (work \/ pc # "idle")

\* Sonarr's scheduler, its user importing by hand, another download's import.
WorkQueued ==
  /\ Upset /\ Room
  /\ \/ Queues(Command("pass", {}))
     \/ \E e \in Eps : Queues(Command("other", {<<Theirs, e>>}))
     \/ \E f \in Files : /\ record.eps[f] # {}
                         /\ Queues(Command("by hand", {f} \X record.eps[f]))
  /\ UNCHANGED <<disk, row, rescans, refresh, dead, settings, scratch, pc, locals, probe>>

Started(c, pairs) == [c EXCEPT !.status = "started", !.plan = pairs]

\* One at a time.  A pass that takes the download in hand imports a file of it, on
\* the right episode or not.
WorkStarts(c) ==
  /\ c.status = "queued" /\ \A d \in commands : d.status # "started"
  /\ LET takes == c.kind = "pass" /\ row = "pending" /\ cdh
     IN  /\ row' = IF takes THEN "importing" ELSE row
         /\ \E pairs \in IF takes THEN {{<<f, e>>} : f \in Files, e \in Eps} ELSE {c.plan} :
              commands' = (commands \ {c}) \cup {Started(c, pairs)}
  /\ UNCHANGED <<disk, rescans, refresh, dead, settings, scratch, pc, locals, probe,
                 work, upsets>>

Landing(c, f) == CASE f = Theirs          -> Sibling
                   [] c.kind = "by hand"  -> Bare(f)
                   [] OTHER               -> Own(f)

Landed(c) == [e \in Eps |->
  IF \E fe \in c.plan : fe[2] = e
    THEN Landing(c, (CHOOSE fe \in c.plan : fe[2] = e)[1]) ELSE disk[e]]

\* One file of a longer import is in place before the others.
FileLands(c) ==
  /\ c.status = "started"
  /\ \E fe \in c.plan : /\ disk' = [disk EXCEPT ![fe[2]] = Landing(c, fe[1])]
                        /\ dead' = (dead \/ fe[1] # Theirs)
  /\ UNCHANGED <<row, commands, rescans, refresh, settings, scratch, pc, locals,
                 probe, work, upsets>>

\* The download leaves the queue once imported, or is flagged; a manual import may
\* fail with some of its files in place.
WorkEnds(c) ==
  /\ c.status = "started" /\ commands' = Ended(c)
  /\ \/ /\ disk' = Landed(c) /\ dead' = (dead \/ \E fe \in c.plan : fe[1] # Theirs)
        /\ row' \in (IF c.kind = "pass" /\ row = "importing" THEN {"none", "flagged"}
                     ELSE IF c.kind \in {"ours", "by hand"} THEN {row, "none"} ELSE {row})
        /\ UNCHANGED upsets
     \/ c.kind = "ours" /\ Upset /\ UNCHANGED <<disk, row, dead>>
  /\ UNCHANGED <<rescans, refresh, settings, scratch, pc, locals, probe, work>>

RescanScheduled ==
  /\ Upset
  /\ refresh = "none" /\ refresh' = "running"
  /\ UNCHANGED <<disk, row, commands, rescans, dead, settings, scratch, pc, locals,
                 probe, work>>

Ends(how) == refresh' = IF pc = "rescanning" THEN how ELSE "none"

\* A completed rescan tracks the download anew and queues the next pass.
RescanEnds ==
  /\ refresh = "running"
  /\ \/ /\ Ends("completed")
        /\ \E r \in {"before", "after"} : rescans' = IF rescans = "after" THEN "after" ELSE r
        /\ IF row = "importing" THEN UNCHANGED row
                                ELSE row' \in {"none", "motion", "pending", "flagged"}
        /\ IF \E c \in Running : c.kind = "pass"
             THEN UNCHANGED <<commands, work>>
             ELSE Room /\ Queues(Command("pass", {}))
        /\ UNCHANGED upsets
     \/ Ends("failed") /\ Upset /\ UNCHANGED <<rescans, row, commands, work>>
  /\ UNCHANGED <<disk, dead, settings, scratch, pc, locals, probe>>

\* A restart cuts the running command and forgets the ended ones and the queue;
\* the queued commands survive it or not.
Restarts ==
  /\ Upset
  /\ commands' \in {{}, {c \in commands : c.status = "queued"}}
  /\ rescans' = "none" /\ row' = "none"
  /\ refresh' = IF pc = "rescanning" THEN "orphaned" ELSE "none"
  /\ UNCHANGED <<disk, dead, settings, scratch, pc, locals, probe, work>>

Sonarr ==
  \/ WorkQueued \/ RescanScheduled \/ RescanEnds \/ Restarts
  \/ \E c \in commands : WorkStarts(c) \/ FileLands(c) \/ WorkEnds(c)

-----------------------------------------------------------------------------
(* The poll.  Return ends it; what the poll keeps of its scan is kept first. *)

Return(kind, deferral) ==
  /\ probe' = [kind |-> kind, deferral |-> deferral]
  /\ pc' = IF kind = "imported" THEN "retired" ELSE "idle"
  /\ work' = FALSE /\ ClearLocals

Wait(deferral) == Return("waiting", deferral)

\* import_completed starts: the files are read, and a failed read decides no more
\* than files still missing.
Poll ==
  /\ pc = "idle"
  /\ \/ AlreadyImported /\ Return("imported", "none") /\ UNCHANGED upsets
     \/ /\ \/ ~AlreadyImported /\ UNCHANGED upsets
           \/ AlreadyImported /\ Upset
        /\ pc' = "commands" /\ deadline' \in BOOLEAN
        /\ probe' = NoProbe /\ work' = (commands # {})
        /\ UNCHANGED <<second, view, scan, reused, baseline, plan>>
  /\ UNCHANGED <<sonarrVars, settings, scratch>>

\* _read_sonarr: the command list is read before the queue.
ReadCommands ==
  /\ pc = "commands"
  /\ \/ /\ pc' = "queue"
        /\ view' = [view EXCEPT !.block = Block, !.rescans = rescans]
        /\ UNCHANGED <<deadline, second, scan, reused, baseline, plan, probe, work, upsets>>
     \/ Upset /\ Wait("none")
  /\ UNCHANGED <<sonarrVars, settings, scratch>>

\* _read_candidates of a poll that may step in: the kept scan is taken once, and
\* serves only a download with a row, when neither its age nor its path spoils it.
TakeKeptScan(v) ==
  /\ kept' = NoScan
  /\ \/ /\ kept # NoScan /\ v.row # "none"
        /\ scan' = kept /\ reused' = TRUE /\ pc' = "baseline"
     \/ pc' = "scan" /\ UNCHANGED <<scan, reused>>
  /\ view' = [NoView EXCEPT !.untracked = v.untracked]
  /\ deadline' = FALSE /\ second' = FALSE
  /\ UNCHANGED <<baseline, plan, probe, work>>

\* import_completed between the view and the scan.
Decide(v) ==
  \/ v.row = "motion" /\ Wait("none") /\ UNCHANGED kept
  \/ v.row = "importing" /\ Wait("import") /\ UNCHANGED kept
  \/ /\ v.row \notin {"motion", "importing"}
     /\ \/ v.block # "none" /\ Wait(v.block) /\ UNCHANGED kept
        \* an unreadable setting counts as on
        \/ /\ v.block = "none" /\ v.row = "pending" /\ ~deadline
           /\ Wait("none") /\ UNCHANGED kept
        \/ /\ v.block = "none" /\ ~(v.row = "pending" /\ ~deadline /\ cdh)
           /\ TakeKeptScan(v)

\* Mutant: every view gets a rescan, in every poll.
ReadQueueAlwaysRescan ==
  /\ pc = "queue"
  /\ LET v == [view EXCEPT !.row = row,
                           !.untracked = row = "none" /\ view.rescans = "after"]
     IN  \/ second /\ Decide(v) /\ UNCHANGED <<rescanned, upsets>>
         \/ /\ ~second /\ pc' = "rescan" /\ view' = v
            /\ UNCHANGED <<deadline, second, scan, reused, baseline, plan, probe, work,
                           kept, rescanned, upsets>>
         \/ Upset /\ Wait("none") /\ UNCHANGED <<kept, rescanned>>
  /\ UNCHANGED <<sonarrVars, settings, pinned>>

\* The queue read, and the rescan a lagging view gets once: not within a poll
\* interval of another record's, and again after a restart.
ReadQueue ==
  /\ pc = "queue"
  /\ LET v == [view EXCEPT !.row = row,
                           !.untracked = row = "none" /\ view.rescans = "after"]
         lagging == v.row \in {"motion", "none"} /\ ~v.untracked /\ ~second
     IN  \/ ~lagging /\ Decide(v) /\ UNCHANGED <<rescanned, upsets>>
         \/ /\ lagging /\ rescanned' = (rescanned /\ v.rescans # "none")
            /\ UNCHANGED upsets
            /\ \/ rescanned' /\ Decide(v)
               \/ /\ ~rescanned' /\ pc' = "rescan" /\ view' = v
                  /\ UNCHANGED <<deadline, second, scan, reused, baseline, plan,
                                 probe, work, kept>>
         \/ Upset /\ Wait("none") /\ UNCHANGED <<kept, rescanned>>
  /\ UNCHANGED <<sonarrVars, settings, pinned>>

\* rescan_once: throttled, refused, or posted.
PostRescan ==
  /\ pc = "rescan"
  /\ \/ /\ pc' = "rescanning" /\ refresh' = "running"
        /\ UNCHANGED <<locals, probe, work, kept, upsets>>
     \/ /\ Upset /\ Decide(view) /\ UNCHANGED refresh
  /\ UNCHANGED <<disk, row, commands, rescans, dead, settings, rescanned, pinned>>

\* _rescan: an orphaned one is posted again; one that failed, or outlasts its 30
\* polls, leaves the first view.
AwaitRescan ==
  /\ pc = "rescanning"
  /\ \/ /\ refresh = "completed" /\ refresh' = "none" /\ rescanned' = TRUE
        /\ second' = TRUE /\ pc' = "commands" /\ view' = NoView
        /\ UNCHANGED <<deadline, scan, reused, baseline, plan, probe, work, kept, upsets>>
     \/ /\ refresh = "orphaned" /\ refresh' = "running"
        /\ UNCHANGED <<locals, pc, probe, work, kept, rescanned, upsets>>
     \/ /\ refresh = "failed" /\ refresh' = "none" /\ Decide(view)
        /\ UNCHANGED <<rescanned, upsets>>
     \/ /\ refresh \in {"running", "orphaned"} /\ Upset /\ Decide(view)
        /\ refresh' = IF refresh = "running" THEN "running" ELSE "none"
        /\ UNCHANGED rescanned
  /\ UNCHANGED <<disk, row, commands, rescans, dead, settings, pinned>>

\* CandidateScanner.scan, the download id first.  Sonarr serves a download it
\* tracks; of a dead one v4 fails and v5 answers nothing.
ScanById ==
  /\ pc = "scan"
  /\ \/ /\ pinned /\ pc' = "folder" /\ UNCHANGED <<scan, upsets>>
     \/ /\ ~pinned /\ row # "none" /\ pc' = "baseline"
        /\ \E seen \in SUBSET Files :
             /\ scan' = [files |-> seen, byId |-> seen # {}]
             /\ IF seen = Files THEN UNCHANGED upsets ELSE Upset
     \/ /\ ~pinned /\ row = "none" /\ scan' = NoScan /\ UNCHANGED upsets
        /\ pc' = IF view.untracked /\ dead THEN "folder" ELSE "baseline"
     \/ /\ ~pinned /\ pc' = "folder" /\ UNCHANGED scan
        /\ IF row = "none" /\ dead THEN UNCHANGED upsets ELSE Upset
  /\ UNCHANGED <<sonarrVars, settings, scratch, deadline, second, view, reused,
                 baseline, plan, probe, work>>

\* The folder fallback pins the download to it once it shows files.
ScanFolder ==
  /\ pc = "folder"
  /\ \/ /\ pc' = "baseline"
        /\ \E seen \in SUBSET Files :
             /\ scan' = [files |-> seen, byId |-> FALSE]
             /\ pinned' = (pinned \/ seen # {})
             /\ IF seen = Files THEN UNCHANGED upsets ELSE Upset
        /\ UNCHANGED <<deadline, second, view, reused, baseline, plan, probe, work>>
     \/ Upset /\ Wait("none") /\ UNCHANGED pinned
  /\ UNCHANGED <<sonarrVars, settings, rescanned, kept>>

\* _step_in: the baseline is read before the files.
ReadBaseline ==
  /\ pc = "baseline"
  /\ \/ /\ pc' = "files" /\ baseline' = [listed |-> Listed, block |-> Block]
        /\ UNCHANGED <<deadline, second, view, scan, reused, plan, probe, work, upsets>>
     \/ Upset /\ Wait("none")
  /\ UNCHANGED <<sonarrVars, settings, scratch>>

\* A wait on a busy Sonarr keeps a by-id scan taken in this very poll.
WaitKeeping(deferral) ==
  /\ kept' = IF deferral = "busy" /\ ~reused /\ scan.byId THEN scan ELSE kept
  /\ Wait(deferral)

\* No file is missing and none is to be posted.
Verifies(seen) == PlanFor(seen) = {} /\ Mapped \subseteq seen

\* run_manual_import and _verify_or_import up to the post.
Import ==
  LET left    == scan.files \ Mapped
      forHand == scan.files \cap With("hand")
      Verified == IF forHand = {} \/ FilledByHand
                    THEN Return("imported", "none") ELSE Return("hand import", "none")
  IN  \/ /\ Mapped = {} /\ left # {} /\ UNCHANGED kept
         /\ IF FilledByHand THEN Return("imported", "none") ELSE Return("unmatched", "none")
      \/ Mapped = {} /\ left = {} /\ Wait("none") /\ UNCHANGED kept
      \/ /\ Mapped # {} /\ UNCHANGED kept
         /\ \/ AllDone /\ Verified
            \/ /\ ~AllDone /\ PlanFor(scan.files) = {}
               /\ IF Verifies(scan.files) THEN Verified ELSE Wait("none")
            \/ /\ ~AllDone /\ PlanFor(scan.files) # {}
               /\ plan' = PlanFor(scan.files) /\ pc' = "guard"
               /\ UNCHANGED <<deadline, second, view, scan, reused, baseline, probe, work>>

ReadFiles ==
  /\ pc = "files"
  /\ \/ /\ UNCHANGED upsets
        /\ \/ AlreadyImported /\ Return("imported", "none") /\ UNCHANGED kept
           \/ /\ ~AlreadyImported /\ baseline.block # "none"
              /\ WaitKeeping(baseline.block)
           \/ ~AlreadyImported /\ baseline.block = "none" /\ Import
     \/ Upset /\ Wait("none") /\ UNCHANGED kept
  /\ UNCHANGED <<sonarrVars, settings, rescanned, pinned>>

\* Mutant: only the commands listed now are looked at.
GuardNow ==
  /\ pc = "guard"
  /\ \/ /\ UNCHANGED upsets
        /\ \/ Block # "none" /\ WaitKeeping(Block)
           \/ Block = "none" /\ SonarrRestarted /\ Wait("none") /\ UNCHANGED kept
           \/ /\ Block = "none" /\ ~SonarrRestarted /\ pc' = "post"
              /\ UNCHANGED <<locals, probe, work, kept>>
     \/ Upset /\ Wait("none") /\ UNCHANGED kept
  /\ UNCHANGED <<sonarrVars, settings, rescanned, pinned>>

\* _guard_before_post.
Guard ==
  /\ pc = "guard"
  /\ \/ /\ UNCHANGED upsets
        /\ \/ Block # "none" /\ WaitKeeping(Block)
           \/ Block = "none" /\ SonarrRestarted /\ Wait("none") /\ UNCHANGED kept
           \/ /\ Block = "none" /\ ~SonarrRestarted /\ DiskCommandsChanged
              /\ WaitKeeping("busy")
           \/ /\ Block = "none" /\ ~SonarrRestarted /\ ~DiskCommandsChanged
              /\ pc' = "post"
              /\ UNCHANGED <<locals, probe, work, kept>>
     \/ Upset /\ Wait("none") /\ UNCHANGED kept
  /\ UNCHANGED <<sonarrVars, settings, rescanned, pinned>>

\* The import is queued, refused, or queued with its answer lost.
Post ==
  /\ pc = "post" /\ Room
  /\ LET queued == commands' = commands \cup {Command("ours", plan)}
     IN  \/ queued /\ Wait("issued") /\ UNCHANGED upsets
         \/ (queued \/ UNCHANGED commands) /\ Wait("none") /\ Upset
  /\ UNCHANGED <<disk, row, rescans, refresh, dead, settings, scratch>>

\* The run ends, by itself or killed, and another finds the record: reset().
NewRun ==
  /\ pc # "retired" /\ Upset
  /\ rescanned' = FALSE /\ kept' = NoScan /\ pinned' = FALSE
  /\ pc' = "idle" /\ work' = FALSE /\ probe' = NoProbe /\ ClearLocals
  /\ commands' = Running
  /\ refresh' = IF refresh = "running" THEN "running" ELSE "none"
  /\ UNCHANGED <<disk, row, rescans, dead, settings>>

\* The record left: nothing polls it any more.
Retired == pc = "retired" /\ UNCHANGED vars

Step == \/ Poll \/ ReadCommands \/ ReadQueue \/ PostRescan \/ AwaitRescan
        \/ ScanById \/ ScanFolder \/ ReadBaseline \/ ReadFiles \/ Guard \/ Post

Next == Step \/ (pc # "retired" /\ Sonarr) \/ NewRun \/ Retired

\* The monitor keeps polling; Sonarr works through what it has queued.
Fairness == /\ WF_vars(Step)
            /\ WF_vars(RescanEnds)
            /\ WF_vars(\E c \in commands : WorkStarts(c))
            /\ WF_vars(\E c \in commands : WorkEnds(c))

Spec == Init /\ [][Next]_vars /\ Fairness

-----------------------------------------------------------------------------
(* Properties.                                                               *)

\* However an answer is lost and however Sonarr or the run restarts, Sonarr
\* never holds two manual imports of the download posted by us: the second would
\* copy the files again, over the first one's.
OneImportOfOurs ==
  \A c, d \in Running : c.kind = "ours" /\ d.kind = "ours" => c = d

\* When the guard lets the import be posted, each episode in it still needs its
\* file or holds a copy of ours that goes along: what Sonarr's own commands have
\* landed since the scan, or since the files were read, is never imported over.
NeverOverRecommended ==
  [][pc # "post" /\ pc' = "post" =>
       \A fe \in plan' : ~Recommended(fe[2]) \/ OwnCopy(fe[2])]_vars

\* A record is retired only when every mapped file is on its episodes, or a hand
\* import filled the whole window, at that moment: a retired record is never
\* polled again.
ImportedIsTrue == [][pc # "retired" /\ pc' = "retired" => AllDone \/ FilledByHand]_vars

\* A wait credited back to the ready clock waited for something: a disk command
\* was queued or running at some moment of the poll.
CreditedForWork ==
  [][pc # "idle" /\ pc' = "idle" /\ probe'.deferral \in {"busy", "import"} =>
       work]_vars

\* What one poll may do: post nothing over a recommended file, retire nothing that
\* is not in, credit no wait in which Sonarr did nothing.
PollsAreSound == NeverOverRecommended /\ ImportedIsTrue /\ CreditedForWork

\* A mapped download Sonarr keeps refusing is imported in the end: the rescans we
\* post and the passes they start do not hold the import off for ever.
RefusedIsImported ==
  (Mapped = Files /\ <>[](row = "flagged")) => <>(pc = "retired")
=============================================================================
