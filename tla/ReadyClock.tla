----------------------------- MODULE ReadyClock -----------------------------
(***************************************************************************)
(* The ready-deadline clock of one row of a wait pass: `_ReadyClock` of    *)
(* pearlarr/import_wait.py, one operator per method.  A clock is a record  *)
(* `c`; a method that assigns its fields is an operator returning the next *)
(* record.  Times are whole seconds of the injected monotonic clock.       *)
(***************************************************************************)
EXTENDS Integers

CONSTANT
  ReadyTimeout    \* imports.ready_timeout, in seconds

\* config.py constrains ready_timeout with ge=1.
ASSUME ReadyTimeoutAssumption == ReadyTimeout \in Nat \ {0}

\* Python's None in an optional count or stamp.
Unset == -1

\* manual_import.Deferral: why a poll waited on Sonarr's work.
Deferral == {"NONE", "ISSUED", "IMPORT", "BUSY"}

\* The credit a row may collect: _DEFERRAL_CREDIT_CAP_MULT ready timeouts.
CreditCap == 6 * ReadyTimeout

Clock == [anchor         : Int,
          started        : Int,
          seen           : Nat \cup {Unset},
          pollGap        : Int,
          pollAt         : Int,
          credited       : Int,
          issuedCredited : BOOLEAN]

\* The clock a row gets at its first COMPLETE poll.
NewClock(now) == [anchor         |-> now,
                  started        |-> now,
                  seen           |-> Unset,
                  pollGap        |-> 0,
                  pollAt         |-> Unset,
                  credited       |-> 0,
                  issuedCredited |-> FALSE]

MarkPoll(c, now) ==
  [c EXCEPT !.pollGap = IF c.pollAt = Unset THEN 0 ELSE now - c.pollAt,
            !.pollAt  = now]

\* Mutant: the deadline runs from the first COMPLETE poll, landings ignored.
AtDeadlineFromStart(c, now) == now - c.started >= ReadyTimeout

AtDeadline(c, now) == now - c.anchor >= ReadyTimeout

CanDefer(c, reason) ==
  /\ ~(reason = "ISSUED" /\ c.issuedCredited)
  /\ c.credited < CreditCap

\* min(a, b) of the source.
MinOf(a, b) == IF a <= b THEN a ELSE b

Credit(c) == MinOf(c.pollGap, CreditCap - c.credited)

CreditDeferral(c, now, reason) ==
  [c EXCEPT !.issuedCredited = @ \/ reason = "ISSUED",
            !.credited       = @ + Credit(c),
            !.anchor         = MinOf(@ + Credit(c), now)]

\* note_progress returns True: another file landed since the last count.
Landed(c, done, total) == total > 0 /\ c.seen # Unset /\ done > c.seen

NoteProgress(c, done, total, now) ==
  [c EXCEPT !.seen   = IF total > 0 /\ done > @ THEN done ELSE @,
            !.anchor = IF Landed(c, done, total) THEN now ELSE @]
=============================================================================
