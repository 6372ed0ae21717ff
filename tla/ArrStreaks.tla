----------------------------- MODULE ArrStreaks -----------------------------
(* The failure ledger of one arr's transport (arr_http.py: FailureStreaks,   *)
(* _fail, _recover), shared by the threads of the episode sweep and by the   *)
(* handles derived from it.  Only the ledger's updates are under its lock;   *)
(* the first look of a success and every message are outside it.             *)
(*                                                                           *)
(* A count is the set of the calls it counts, by number.                     *)
EXTENDS Naturals, FiniteSets

CONSTANTS
  Threads,
  Warnings,  \* the warning templates, one per kind of call
  Details,   \* the ways a call fails
  MaxCalls   \* bound

VARIABLES
  active,    \* what each streak counts, by template and detail; nothing when closed
  doing,     \* per thread: "idle", "warn", "heartbeat", "pop" or "note", of which template and calls
  failures,  \* history, per template: the calls that failed,
  noted,     \* those told of as recovered,
  opened, warned, \* those that opened a streak, and of them the announced ones
  calls

streakVars == <<active, doing, failures, warned, noted, opened, calls>>

Keys == Warnings \X Details
Resting(t) == doing[t].step = "idle"
AtRest == [step |-> "idle", warn |-> "", calls |-> {}]
Does(t, step, w, counted) ==
  doing' = [doing EXCEPT ![t] = [step |-> step, warn |-> w, calls |-> counted]]

StreaksInit ==
  /\ active = [k \in Keys |-> {}]
  /\ doing = [t \in Threads |-> AtRest]
  /\ failures = [w \in Warnings |-> {}] /\ warned = failures /\ noted = failures /\ opened = failures
  /\ calls = 0

Call == calls < MaxCalls /\ calls' = calls + 1
This == calls + 1

\* Mutant: a repeat starts the count anew.
FailUncounted(t, w, d) ==
  /\ Call /\ Resting(t)
  /\ failures' = [failures EXCEPT ![w] = @ \cup {This}]
  /\ active' = [active EXCEPT ![<<w, d>>] = {This}]
  /\ opened' = [opened EXCEPT ![w] = IF active[<<w, d>>] = {} THEN @ \cup {This} ELSE @]
  /\ Does(t, IF active[<<w, d>>] = {} THEN "warn" ELSE "idle", w, {This})
  /\ UNCHANGED <<warned, noted>>

\* _fail, the locked part: the first failure of a streak is to be announced, a
\* later one now and then.
Fail(t, w, d) ==
  /\ Call /\ Resting(t)
  /\ failures' = [failures EXCEPT ![w] = @ \cup {This}]
  /\ active' = [active EXCEPT ![<<w, d>>] = @ \cup {This}]
  /\ opened' = [opened EXCEPT ![w] = IF active[<<w, d>>] = {} THEN @ \cup {This} ELSE @]
  /\ IF active[<<w, d>>] = {} THEN Does(t, "warn", w, {This})
     ELSE Does(t, "heartbeat", w, {}) \/ Does(t, "idle", "", {})
  /\ UNCHANGED <<warned, noted>>

\* _recover: an empty ledger is looked at without the lock.
Succeed(t, w) ==
  /\ Call /\ Resting(t)
  /\ Does(t, IF \A k \in Keys : active[k] = {} THEN "idle" ELSE "pop", w, {})
  /\ UNCHANGED <<active, failures, warned, noted, opened>>

\* The template's streaks close together, whatever their details.
Pop(t) ==
  LET w == doing[t].warn
      ended == UNION {active[<<w, d>>] : d \in Details}
  IN /\ doing[t].step = "pop"
     /\ active' = [k \in Keys |-> IF k[1] = w THEN {} ELSE active[k]]
     /\ Does(t, IF ended = {} THEN "idle" ELSE "note", w, ended)
     /\ UNCHANGED <<failures, warned, noted, opened, calls>>

\* The message goes out, unlocked.
Emit(t) ==
  LET m == doing[t]
  IN /\ m.step \in {"warn", "heartbeat", "note"}
     /\ warned' = [warned EXCEPT ![m.warn] = IF m.step = "warn" THEN @ \cup m.calls ELSE @]
     /\ noted' = [noted EXCEPT ![m.warn] = IF m.step = "note" THEN @ \cup m.calls ELSE @]
     /\ Does(t, "idle", "", {})
     /\ UNCHANGED <<active, failures, opened, calls>>

StreaksNext ==
  \E t \in Threads :
    \/ \E w \in Warnings : (\E d \in Details : Fail(t, w, d)) \/ Succeed(t, w)
    \/ Pop(t) \/ Emit(t)

StreaksSpec == StreaksInit /\ [][StreaksNext]_streakVars

Telling(w, step, f) ==
  {t \in Threads : doing[t].step = step /\ doing[t].warn = w /\ f \in doing[t].calls}

\* Where a failed call is counted, and who announced or announces the streak it opened.
CountedIn(w, f) ==
  {<<"streak", d>> : d \in {x \in Details : f \in active[<<w, x>>]}}
    \cup {<<"note of", t>> : t \in Telling(w, "note", f)}
    \cup {<<"noted", n>> : n \in {f} \cap noted[w]}
AnnouncedBy(w, f) ==
  {<<"warning of", t>> : t \in Telling(w, "warn", f)} \cup {<<"warned", n>> : n \in {f} \cap warned[w]}

\* Every failure is either in one open streak or told of by exactly one recovery
\* note, and every streak is announced once, however the threads interleave.
FailuresAccounted ==
  \A w \in Warnings :
    /\ noted[w] \subseteq failures[w] /\ \A f \in failures[w] : Cardinality(CountedIn(w, f)) = 1
    /\ warned[w] \subseteq opened[w] /\ \A f \in opened[w] : Cardinality(AnnouncedBy(w, f)) = 1

\* The ledger counts calls that were made; a thread at rest has nothing to tell.
Made == 1..calls
StreaksTypeOK ==
  /\ active \in [Keys -> SUBSET Made] /\ calls \in 0..MaxCalls
  /\ \A t \in Threads : doing[t] = AtRest \/ doing[t] \in
       [step : {"idle", "warn", "heartbeat", "pop", "note"}, warn : Warnings, calls : SUBSET Made]
  /\ {failures, warned, noted, opened} \subseteq [Warnings -> SUBSET Made]
=============================================================================
