----------------------------- MODULE MonitorRow -----------------------------
(***************************************************************************)
(* One row of a wait pass against the clock: `_MonitorRow`, the per-row    *)
(* logic of `MonitorPass` and the sleeping of `_progress_wait` and         *)
(* `run_monitor` (pearlarr/import_wait.py).                                *)
(*                                                                         *)
(* What the row reads from qBittorrent and Sonarr is chosen by the         *)
(* environment at every poll; what it does with the reading is the code's. *)
(* A pass is either the waiting MONITOR of hybrid and blocking mode or the *)
(* one-cycle CHECK of deferred mode.  Store effects of a terminal outcome  *)
(* are the business of module PendingImports.                              *)
(***************************************************************************)
EXTENDS ReadyClock

CONSTANTS
  WaitTimeout,      \* imports.wait_timeout, in seconds
  PollInterval,     \* imports.poll_interval, in seconds
  ProgressIntervals,\* the settings of imports.progress_poll_interval, in seconds
  Jitter,           \* bound on what a round of requests adds to a sleep
  MaxFiles          \* bound on the files one torrent maps

ASSUME MonitorRowAssumption ==
  /\ WaitTimeout \in Nat \ {0}
  /\ PollInterval \in Nat \ {0}
  /\ ProgressIntervals \subseteq Nat
  /\ Jitter \in Nat
  /\ MaxFiles \in Nat

VARIABLES
  now,       \* the injected clock; the pass, and dl_start, begin at 0
  kind,      \* WaitKind of the pass
  progress,  \* imports.progress_poll_interval of the pass
  stage,     \* where the pass stands
  wake,      \* the deadline of the current _progress_wait
  phase,     \* Phase of the row's view
  issued,    \* command_issued of the row's view
  outcome,   \* the terminal Outcome, or "none"
  hasClock,  \* row.clock is not None
  clock,     \* row.clock
  landedAt,  \* history: when the row last saw a file land (or COMPLETE)
  landings   \* history: how many times a landing re-anchored the clock

vars == <<now, kind, progress, stage, wake, phase, issued, outcome, hasClock, clock,
          landedAt, landings>>

passVars == <<kind, progress, wake>>
histVars == <<landedAt, landings>>

Kinds  == {"MONITOR", "CHECK"}
Phases == {"QUEUED", "DOWNLOADING", "IMPORTING", "TERMINAL"}

\* Graduating at the deadline, or at the credit cap, leaves the record pending.
Exhausted == {"STILL_IMPORTING", "SONARR_BUSY", "NOT_READY"}

Graduated == {"IMPORT_IN_PROGRESS", "AWAITING_IMPORT", "STILL_DOWNLOADING",
              "NOT_CHECKED"}

Outcomes == {"none", "IMPORTED", "MISSING", "DOWNLOAD_ERRORED",
             "DOWNLOAD_TIMED_OUT", "NO_CONTENT_PATH", "UNMATCHED", "PARTIAL",
             "ATTEMPT_FAILED"} \cup Exhausted \cup Graduated

\* The ImportProbe constructors.  Only a waiting probe defers; the command it
\* claims is ours when it was just issued and may be ours when it is in flight.
Probes ==
  [kind     : {"imported", "unmatched", "hand_import", "leave"},
   deferral : {"NONE"}, issued : {FALSE},
   done     : 0..MaxFiles, total : {0, MaxFiles}]
  \cup
  {p \in [kind     : {"waiting"},
          deferral : Deferral, issued : BOOLEAN,
          done     : 0..MaxFiles, total : {0, MaxFiles}] :
     /\ p.deferral = "ISSUED" => p.issued
     /\ p.deferral \in {"NONE", "BUSY"} => ~p.issued}

Init ==
  /\ now = 0
  /\ kind \in Kinds
  /\ progress \in ProgressIntervals
  /\ stage = "cycle"
  /\ wake = 0
  /\ phase = "QUEUED"
  /\ issued = FALSE
  /\ outcome = "none"
  /\ hasClock = FALSE
  /\ clock = NewClock(0)
  /\ landedAt = 0
  /\ landings = 0

-----------------------------------------------------------------------------
\* Mutant: the check pass polls until its rows are done.
AfterPollAgain == /\ stage' = IF kind = "MONITOR" THEN "sleep" ELSE "cycle"
                  /\ wake' = now + PollInterval
                  /\ UNCHANGED <<now, kind, progress, outcome>>

(* What follows a poll that leaves the row active: the monitor sleeps one    *)
(* poll interval, the check pass refreshes the bar once and graduates.       *)
AfterPoll == /\ stage' = IF kind = "MONITOR" THEN "sleep" ELSE "refresh"
             /\ wake' = now + PollInterval
             /\ UNCHANGED <<now, kind, progress, outcome>>

\* _terminal: freeze the frame.  The row is the pass here, so the pass ends.
Terminal(o) == /\ stage' = "done"
               /\ phase' = "TERMINAL"
               /\ issued' = FALSE
               /\ outcome' = o
               /\ UNCHANGED <<now, passVars>>

DownloadTimedOut == kind = "MONITOR" /\ now >= WaitTimeout

\* _advance, poll.outcome None: qBittorrent is still downloading the torrent.
PollDownloading ==
  /\ stage = "cycle"
  /\ UNCHANGED <<hasClock, clock, histVars>>
  /\ \/ /\ DownloadTimedOut
        /\ Terminal("DOWNLOAD_TIMED_OUT")
     \/ /\ ~DownloadTimedOut
        /\ phase' = "DOWNLOADING"
        /\ issued' = FALSE
        /\ AfterPoll

\* _advance, poll.outcome None: the read failed, so the row keeps its state.
PollUnobserved ==
  /\ stage = "cycle"
  /\ UNCHANGED <<hasClock, clock, histVars>>
  /\ \/ /\ DownloadTimedOut
        /\ Terminal("DOWNLOAD_TIMED_OUT")
     \/ /\ ~DownloadTimedOut
        /\ UNCHANGED <<phase, issued>>
        /\ AfterPoll

\* _advance, the outcomes that end the row without an import attempt.
PollDead ==
  /\ stage = "cycle"
  /\ \E o \in {"MISSING", "DOWNLOAD_ERRORED", "NO_CONTENT_PATH"} : Terminal(o)
  /\ UNCHANGED <<hasClock, clock, histVars>>

ExhaustedOutcome(probe) ==
  CASE probe.issued \/ probe.deferral \in {"ISSUED", "IMPORT"} -> "STILL_IMPORTING"
    [] ~probe.issued /\ probe.deferral = "BUSY"                -> "SONARR_BUSY"
    [] OTHER                                                   -> "NOT_READY"

(* _advance, COMPLETE with a content path.  `marked` is the clock after      *)
(* mark_poll, `noted` after note_progress; `deferred` is judged on `noted`.  *)
Marked == MarkPoll(IF hasClock THEN clock ELSE NewClock(now), now)

Noted(probe) == NoteProgress(Marked, probe.done, probe.total, now)

FileLanded(probe) == Landed(Marked, probe.done, probe.total)

Deferred(probe) == probe.deferral # "NONE" /\ CanDefer(Noted(probe), probe.deferral)

PolledClock(probe) ==
  IF Deferred(probe) /\ ~FileLanded(probe)
  THEN CreditDeferral(Noted(probe), now, probe.deferral)
  ELSE Noted(probe)

\* The row's verdict on a probe, "none" while it keeps waiting.
Verdict(probe) ==
  CASE probe.kind = "imported"    -> "IMPORTED"
    [] probe.kind = "unmatched"   -> "UNMATCHED"
    [] probe.kind = "hand_import" -> "PARTIAL"
    [] probe.kind \in {"waiting", "leave"} ->
         IF AtDeadline(Marked, now) /\ ~FileLanded(probe) /\ ~Deferred(probe)
         THEN ExhaustedOutcome(probe)
         ELSE IF probe.kind = "leave" THEN "ATTEMPT_FAILED" ELSE "none"

PollComplete(probe) ==
  /\ stage = "cycle"
  /\ hasClock' = TRUE
  /\ clock' = PolledClock(probe)
  /\ landedAt' = IF FileLanded(probe) \/ ~hasClock THEN now ELSE landedAt
  /\ landings' = IF FileLanded(probe) THEN landings + 1 ELSE landings
  /\ \/ /\ Verdict(probe) # "none"
        /\ Terminal(Verdict(probe))
     \/ /\ Verdict(probe) = "none"
        /\ phase' = "IMPORTING"
        /\ issued' = probe.issued
        /\ AfterPoll

-----------------------------------------------------------------------------
(* refresh_progress for this row: a reading is determinate (total = MaxFiles *)
(* > 0) or it is skipped; a full one promotes the row to IMPORTED.           *)
Refresh(t, done, next) ==
  IF phase # "IMPORTING" \/ MaxFiles = 0
  THEN /\ stage' = next
       /\ UNCHANGED <<phase, issued, outcome, clock, histVars>>
  ELSE /\ clock' = NoteProgress(clock, done, MaxFiles, t)
       /\ landedAt' = IF Landed(clock, done, MaxFiles) THEN t ELSE landedAt
       /\ landings' = IF Landed(clock, done, MaxFiles) THEN landings + 1 ELSE landings
       /\ IF done >= MaxFiles
          THEN stage' = "done" /\ phase' = "TERMINAL" /\ issued' = FALSE /\ outcome' = "IMPORTED"
          ELSE stage' = next /\ UNCHANGED <<phase, issued, outcome>>

\* The reading failed or the seed map is partial: no bar and no promotion.
NoRefresh(next) == stage' = next /\ UNCHANGED <<phase, issued, outcome, clock, histVars>>

Sliced == progress > 0 /\ progress < PollInterval

\* _progress_wait with the fast lane disabled: one sleep of a poll interval.
SleepWhole ==
  /\ stage = "sleep" /\ ~Sliced
  /\ \E j \in 0..Jitter : now' = now + PollInterval + j
  /\ stage' = "cycle"
  /\ UNCHANGED <<passVars, phase, issued, outcome, hasClock, clock, histVars>>

\* _progress_wait, one slice: sleep, then refresh the live rows.
SleepSlice ==
  /\ stage = "sleep" /\ Sliced /\ now < wake
  /\ \E j \in 0..Jitter : now' = now + MinOf(progress, wake - now) + j
  /\ \/ \E done \in 0..MaxFiles : Refresh(now', done, "sleep")
     \/ NoRefresh("sleep")
  /\ UNCHANGED <<passVars, hasClock>>

\* _progress_wait returns: the next heavy poll is due.
Wake ==
  /\ stage = "sleep" /\ Sliced /\ now >= wake
  /\ stage' = "cycle"
  /\ UNCHANGED <<now, passVars, phase, issued, outcome, hasClock, clock, histVars>>

\* run_check: the one bar refresh after the check pass's cycle.
CheckRefresh ==
  /\ stage = "refresh"
  /\ \/ \E done \in 0..MaxFiles : Refresh(now, done, "graduate")
     \/ NoRefresh("graduate")
  /\ UNCHANGED <<now, passVars, hasClock>>

\* _retire_active: graduate a still-active row with its truthful outcome.
RetireActive ==
  /\ stage = "graduate"
  /\ Terminal(CASE phase = "IMPORTING" /\ issued  -> "IMPORT_IN_PROGRESS"
                [] phase = "IMPORTING" /\ ~issued -> "AWAITING_IMPORT"
                [] phase = "DOWNLOADING"          -> "STILL_DOWNLOADING"
                [] phase = "QUEUED"               -> "NOT_CHECKED")
  /\ UNCHANGED <<hasClock, clock, histVars>>

\* _run_pass: Ctrl-C (or SIGTERM) ends the pass and leaves the row pending.
Interrupt ==
  /\ stage \notin {"done", "interrupted"}
  /\ stage' = "interrupted"
  /\ UNCHANGED <<now, passVars, phase, issued, outcome, hasClock, clock, histVars>>

Ended == stage \in {"done", "interrupted"} /\ UNCHANGED vars

RowStep ==
  \/ PollDownloading
  \/ PollUnobserved
  \/ PollDead
  \/ \E probe \in Probes : PollComplete(probe)
  \/ SleepWhole
  \/ SleepSlice
  \/ Wake
  \/ CheckRefresh
  \/ RetireActive

Next == RowStep \/ Interrupt \/ Ended

Spec == Init /\ [][Next]_vars

(* The pass is a loop on the main thread whose sleeps and bounded HTTP       *)
(* requests all return, so it never stops between two steps; Ctrl-C is the   *)
(* user's and is not fair.                                                   *)
FairSpec == Spec /\ WF_vars(RowStep)

-----------------------------------------------------------------------------
TypeOK ==
  /\ now \in Nat
  /\ kind \in Kinds
  /\ progress \in ProgressIntervals
  /\ stage \in {"cycle", "sleep", "refresh", "graduate", "done", "interrupted"}
  /\ wake \in Nat
  /\ phase \in Phases
  /\ issued \in BOOLEAN
  /\ outcome \in Outcomes
  /\ hasClock \in BOOLEAN
  /\ clock \in Clock
  /\ landedAt \in Nat
  /\ landings \in Nat

(* configuration.md, ready_timeout: "times out only after this long with no  *)
(* visible progress".  A row never graduates as not ready, busy or still     *)
(* importing sooner than a whole ready_timeout after the last file it saw    *)
(* land, whatever credit, first sighting or fast-lane reading came between.  *)
ExhaustedOnlyAfterStall ==
  outcome \in Exhausted => now - landedAt >= ReadyTimeout

(* The other half of the same promise, "up to six times this value": while a *)
(* row is still waiting on Sonarr, its last poll is never further from the   *)
(* last landing than one ready_timeout, the whole credit cap and the poll    *)
(* interval in which the cap was reached.  A Sonarr wedged forever therefore *)
(* cannot hold the watch open.                                               *)
StallBounded ==
  hasClock /\ phase # "TERMINAL" =>
    clock.pollAt - landedAt < ReadyTimeout + CreditCap + clock.pollGap

(* A done-count that flaps (a file deleted and imported again) re-anchors    *)
(* only on a count never seen before, so the landings of a row are fewer     *)
(* than the files it maps plus one.                                          *)
FlappingNeverReanchors == landings <= MaxFiles /\ (landings > 0 => landings <= clock.seen)

(* The clock is fair both ways: no row is given up on sooner than a whole    *)
(* ready_timeout after the last landing, none is held longer than that, the  *)
(* credit and a poll, and no count that flaps buys it time.                  *)
ClockIsFair == ExhaustedOnlyAfterStall /\ StallBounded /\ FlappingNeverReanchors

(* Every wait ends: whatever qBittorrent and Sonarr answer, forever, each    *)
(* row reaches a terminal outcome or the user interrupts the pass.           *)
EveryRowEnds == <>(stage \in {"done", "interrupted"})

(* configuration.md, wait_timeout: "Seconds to wait per torrent for          *)
(* qBittorrent to finish downloading it", and Outcome.DOWNLOAD_TIMED_OUT:    *)
(* "download timed out".  A torrent seen complete is past that wait.         *)
TimedOutMeansNotDownloaded == outcome = "DOWNLOAD_TIMED_OUT" => ~hasClock
=============================================================================
