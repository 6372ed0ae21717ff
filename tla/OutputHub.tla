----------------------------- MODULE OutputHub -----------------------------
(***************************************************************************)
(* The output hub (output/hub.py): any thread emits, the first emitter     *)
(* becomes the drainer and fans the queue out to the renderers with the    *)
(* hub lock released.  Renderers raise, emit in their turn, and are struck *)
(* out; Ctrl-C and SIGTERM land in the main thread wherever it is.         *)
(*                                                                         *)
(* A locked section is one step, and so is a lifecycle body, which holds   *)
(* the lock from its first to its last statement.  Severity tallies, once- *)
(* keys (a duplicate returns like an emit on a closed hub) and the stderr  *)
(* fallback are left out.                                                  *)
(***************************************************************************)
EXTENDS Integers, Sequences, FiniteSets

CONSTANTS
  Threads, Main,    \* Main takes the signals and makes the lifecycle calls
  Sinks, File,      \* the renderers, and the one with writes_file_only
  StrikeLimit,      \* STRIKE_LIMIT
  QueueCap,         \* QUEUE_CAP
  MaxEvents, MaxRaises, MaxInterrupts, MaxCycles \* bounds

NoThread == "no thread"

ASSUME OutputHubAssumption ==
  /\ Main \in Threads /\ NoThread \notin Threads /\ File \in Sinks
  /\ StrikeLimit \in Nat \ {0} /\ QueueCap \in Nat \ {0}
  /\ {MaxEvents, MaxRaises, MaxInterrupts, MaxCycles} \subseteq Nat

VARIABLES
  queue,        \* _pending and _overflowing, with the history of what entered
  inFlight,     \* _in_flight
  drainer,      \* _drainer
  closed,       \* _closed
  strikes,      \* strikes of each subscription
  shut,         \* renderers that were closed
  pc,           \* where each thread is in the hub
  event, armed, failed, \* locals of each thread's dispatch
  \* history, for the properties
  passed,       \* the ids each sink was handed, or was struck out for
  cut,          \* events in flight when a repeat interrupt stopped the flush
  orphaned,     \* an interrupt left the queue without a drainer
  \* bounds
  raises, interrupts, cycles

local  == <<event, armed, failed>>
bounds == <<raises, interrupts, cycles>>
vars   == <<queue, inFlight, drainer, closed, strikes, shut, pc, local,
            passed, cut, orphaned, bounds>>

Kinds   == {"structural", "diagnostic", "overflow"}
Event    == [id : 1..MaxEvents, kind : Kinds]
NoEvent  == [id |-> 0, kind |-> "structural"]

\* `issued` events were emitted and those of `accepted` entered the queue.
Queue == [pending : Seq(Event), overflowing : BOOLEAN,
          issued : 0..MaxEvents, accepted : SUBSET (1..MaxEvents)]

Waiting == {queue.pending[i].id : i \in DOMAIN queue.pending}

\* A thread outside the hub is "idle".  "queued": its event is in the queue and
\* it is about to call _drain.  "loop", "fan" and "notes" are the combiner loop;
\* "flush" is the re-dispatch of _flush_on_unwind, and the other three in a
\* flush are "floop", "ffan" and "fnotes".  "cycle", "level" and "close" wait in
\* _await_no_drainer.
Normal    == {"loop", "fan", "notes"}
Flushing  == {"floop", "ffan", "fnotes"}
Draining  == Normal \cup Flushing \cup {"flush"}
Handling  == {"fan", "notes", "ffan", "fnotes", "flush"}
Lifecycle == {"cycle", "level", "close"}

Loop(t)  == IF pc[t] \in Normal THEN "loop" ELSE "floop"
Fan(t)   == IF pc[t] \in Normal THEN "fan" ELSE "ffan"
Notes(t) == IF pc[t] \in Normal THEN "notes" ELSE "fnotes"

Goto(t, where) == pc' = [pc EXCEPT ![t] = where]

Armed == {s \in Sinks : strikes[s] < StrikeLimit}

Init ==
  /\ queue = [pending |-> <<>>, overflowing |-> FALSE, issued |-> 0, accepted |-> {}]
  /\ inFlight = NoEvent /\ drainer = NoThread /\ closed = FALSE
  /\ strikes = [s \in Sinks |-> 0] /\ shut = {}
  /\ pc = [t \in Threads |-> "idle"]
  /\ event = [t \in Threads |-> NoEvent]
  /\ armed = [t \in Threads |-> {}] /\ failed = [t \in Threads |-> {}]
  /\ passed = [s \in Sinks |-> {}] /\ cut = {} /\ orphaned = FALSE
  /\ raises = 0 /\ interrupts = 0 /\ cycles = 0

-----------------------------------------------------------------------------
(* emit: its locked section.                                                 *)

Enqueued(q, kind) ==
  [q EXCEPT !.issued   = @ + 1,
            !.pending  = Append(@, [id |-> q.issued + 1, kind |-> kind]),
            !.accepted = @ \cup {q.issued + 1}]

Sheds(q, kind) == kind # "structural" /\ Len(q.pending) >= QueueCap

\* The queue after one more event: a diagnostic past the cap is shed, and the
\* first one shed leaves a note in its place.
Accept(q, kind) ==
  IF closed \/ (Sheds(q, kind) /\ q.overflowing) THEN [q EXCEPT !.issued = @ + 1]
  ELSE IF Sheds(q, kind) THEN [Enqueued(q, "overflow") EXCEPT !.overflowing = TRUE]
  ELSE Enqueued(q, kind)

Enqueue(kind) ==
  /\ queue.issued < MaxEvents
  /\ queue' = Accept(queue, kind)

Emit(t) ==
  /\ pc[t] = "idle"
  /\ \E kind \in {"structural", "diagnostic"} : Enqueue(kind)
  /\ IF closed \/ drainer # NoThread THEN UNCHANGED pc ELSE Goto(t, "queued")
  /\ UNCHANGED <<inFlight, drainer, closed, strikes, shut, local, passed, cut,
                 orphaned, bounds>>

\* A renderer emits, or logs through the bridge, from inside its handle.
EmitInside(t) ==
  /\ pc[t] \in Handling
  /\ \E kind \in {"structural", "diagnostic"} : Enqueue(kind)
  /\ UNCHANGED <<inFlight, drainer, closed, strikes, shut, pc, local, passed, cut,
                 orphaned, bounds>>

-----------------------------------------------------------------------------
(* _drain and _drain_loop.                                                   *)

Drain(t) ==
  /\ pc[t] = "queued"
  /\ IF drainer # NoThread
     THEN Goto(t, "idle") /\ UNCHANGED drainer
     ELSE Goto(t, "loop") /\ drainer' = t
  /\ UNCHANGED <<queue, inFlight, closed, strikes, shut, local, passed, cut,
                 orphaned, bounds>>

\* Mutant: the baton goes back after one event, the queue is not re-checked.
ReleaseUnchecked(t) ==
  /\ pc[t] \in {"loop", "floop"}
  /\ closed \/ queue.pending = <<>> \/ inFlight # NoEvent
  /\ inFlight' = NoEvent /\ drainer' = NoThread
  /\ orphaned' = FALSE
  /\ Goto(t, "idle")
  /\ UNCHANGED <<queue, closed, strikes, shut, local, passed, cut, bounds>>

\* Mutant: the baton is kept.
ReleaseHeld(t) ==
  /\ pc[t] \in {"loop", "floop"}
  /\ closed \/ queue.pending = <<>>
  /\ queue' = [queue EXCEPT !.pending = <<>>, !.overflowing = FALSE]
  /\ inFlight' = NoEvent
  /\ orphaned' = FALSE
  /\ Goto(t, "idle")
  /\ UNCHANGED <<drainer, closed, strikes, shut, local, passed, cut, bounds>>

\* The terminal arm.
Release(t) ==
  /\ pc[t] \in {"loop", "floop"}
  /\ closed \/ queue.pending = <<>>
  /\ queue' = [queue EXCEPT !.pending = <<>>, !.overflowing = FALSE]
  /\ inFlight' = NoEvent /\ drainer' = NoThread
  /\ orphaned' = FALSE
  /\ Goto(t, "idle")
  /\ UNCHANGED <<closed, strikes, shut, local, passed, cut, bounds>>

Pop(t) ==
  /\ pc[t] \in {"loop", "floop"}
  /\ ~closed /\ queue.pending # <<>>
  /\ queue' = [queue EXCEPT !.pending = Tail(@)]
  /\ inFlight' = Head(queue.pending)
  /\ event' = [event EXCEPT ![t] = Head(queue.pending)]
  /\ armed' = [armed EXCEPT ![t] = Armed]
  /\ failed' = [failed EXCEPT ![t] = {}]
  /\ passed' = [s \in Sinks |-> IF s \in Armed THEN passed[s]
                                ELSE passed[s] \cup {Head(queue.pending).id}]
  /\ Goto(t, Fan(t))
  /\ UNCHANGED <<drainer, closed, strikes, shut, cut, orphaned, bounds>>

\* _strike: the renderers in `raised` raised once each.
Strike(raised) ==
  /\ raises' = raises + Cardinality(raised) /\ raises' <= MaxRaises
  /\ strikes' = [s \in Sinks |-> IF s \in raised THEN strikes[s] + 1 ELSE strikes[s]]
  /\ shut' = shut \cup {s \in raised : strikes'[s] = StrikeLimit}

\* One renderer handles the event of the dispatch, and may raise.
Handle(t) ==
  /\ pc[t] \in {"fan", "ffan", "flush"}
  /\ \E s \in armed[t] :
       /\ armed' = [armed EXCEPT ![t] = @ \ {s}]
       /\ passed' = [passed EXCEPT ![s] = @ \cup {event[t].id}]
       /\ \/ UNCHANGED <<failed, strikes, shut, raises>>
          \/ Strike({s}) /\ failed' = [failed EXCEPT ![t] = @ \cup {s}]
  /\ UNCHANGED <<queue, inFlight, drainer, closed, pc, event, cut, orphaned,
                 interrupts, cycles>>

EndFan(t) ==
  /\ pc[t] \in {"fan", "ffan"} /\ armed[t] = {}
  /\ Goto(t, Notes(t))
  /\ UNCHANGED <<queue, inFlight, drainer, closed, strikes, shut, local, passed, cut,
                 orphaned, bounds>>

\* _note: the armed survivors are told of one failure, and some of them raise.
Note(t) ==
  /\ pc[t] \in {"notes", "fnotes"}
  /\ \E s \in failed[t] :
       /\ failed' = [failed EXCEPT ![t] = @ \ {s}]
       /\ \E raised \in SUBSET (Armed \ {s}) : Strike(raised)
  /\ UNCHANGED <<queue, inFlight, drainer, closed, pc, event, armed, passed, cut,
                 orphaned, interrupts, cycles>>

EndNotes(t) ==
  /\ pc[t] \in {"notes", "fnotes"} /\ failed[t] = {}
  /\ Goto(t, Loop(t))
  /\ UNCHANGED <<queue, inFlight, drainer, closed, strikes, shut, local, passed, cut,
                 orphaned, bounds>>

-----------------------------------------------------------------------------
(* Ctrl-C, or SIGTERM, whose handler emits before it raises.                 *)

Announce == UNCHANGED queue \/ Enqueue("diagnostic")

Interrupted == interrupts < MaxInterrupts /\ interrupts' = interrupts + 1

\* Mutant: the event in flight is forgotten.
InterruptDrainForgets ==
  /\ pc[Main] \in Normal
  /\ Interrupted /\ Announce
  /\ inFlight' = NoEvent
  /\ armed' = [armed EXCEPT ![Main] = {}]
  /\ Goto(Main, "flush")
  /\ UNCHANGED <<drainer, closed, strikes, shut, event, failed, passed, cut, orphaned,
                 raises, cycles>>

\* It unwinds _drain: _flush_on_unwind takes what was in flight.
InterruptDrain ==
  /\ pc[Main] \in Normal
  /\ Interrupted /\ Announce
  /\ event' = [event EXCEPT ![Main] = inFlight]
  /\ inFlight' = NoEvent
  /\ armed' = [armed EXCEPT ![Main] = IF inFlight = NoEvent THEN {} ELSE Armed]
  /\ failed' = [failed EXCEPT ![Main] = {}]
  /\ Goto(Main, "flush")
  /\ UNCHANGED <<drainer, closed, strikes, shut, passed, cut, orphaned, raises, cycles>>

EndFlush(t) ==
  /\ pc[t] = "flush" /\ armed[t] = {}
  /\ failed' = [failed EXCEPT ![t] = {}]
  /\ Goto(t, "floop")
  /\ UNCHANGED <<queue, inFlight, drainer, closed, strikes, shut, event, armed, passed,
                 cut, orphaned, bounds>>

\* A repeat interrupt during the re-dispatch costs one renderer the event.
InterruptFlush ==
  /\ pc[Main] = "flush"
  /\ Interrupted /\ Announce
  /\ \E s \in armed[Main] :
       /\ armed' = [armed EXCEPT ![Main] = @ \ {s}]
       /\ passed' = [passed EXCEPT ![s] = @ \cup {event[Main].id}]
  /\ UNCHANGED <<inFlight, drainer, closed, strikes, shut, pc, event, failed, cut,
                 orphaned, raises, cycles>>

\* A repeat interrupt during the tail ends the flush; the baton is released.
InterruptTail ==
  /\ pc[Main] \in Flushing
  /\ Interrupted /\ Announce
  /\ drainer' = NoThread
  /\ cut' = cut \cup ({inFlight.id} \ {0})
  /\ orphaned' = TRUE
  /\ Goto(Main, "idle")
  /\ UNCHANGED <<inFlight, closed, strikes, shut, local, passed, raises, cycles>>

\* Between emit's locked section and _drain, or parked in a lifecycle call.  The
\* signal handler's emit drains when nobody does.
InterruptWaiting ==
  /\ pc[Main] \in {"queued"} \cup Lifecycle
  /\ Interrupted
  /\ \/ /\ Enqueue("diagnostic")
        /\ Goto(Main, IF closed \/ drainer # NoThread THEN "idle" ELSE "queued")
        /\ UNCHANGED orphaned
     \/ /\ UNCHANGED queue
        /\ Goto(Main, "idle")
        /\ orphaned' = (orphaned \/ pc[Main] = "queued")
  /\ UNCHANGED <<inFlight, drainer, closed, strikes, shut, local, passed, cut,
                 raises, cycles>>

Interrupt == InterruptDrain \/ InterruptFlush \/ InterruptTail \/ InterruptWaiting

-----------------------------------------------------------------------------
(* begin_cycle, set_level and close: made by the main thread outside a       *)
(* dispatch.  A renderer's own lifecycle call may emit ("chatter").          *)

Call ==
  /\ pc[Main] = "idle" /\ ~closed
  /\ cycles < MaxCycles /\ cycles' = cycles + 1
  /\ \E what \in Lifecycle : Goto(Main, what)
  /\ UNCHANGED <<queue, inFlight, drainer, closed, strikes, shut, local, passed, cut,
                 orphaned, raises, interrupts>>

\* _await_no_drainer.
NoOtherDrainer == drainer \in {NoThread, Main}

\* _set_level_locked: every renderer, struck out or not.
SetLevel ==
  /\ pc[Main] = "level" /\ NoOtherDrainer
  /\ UNCHANGED queue \/ Enqueue("diagnostic")
  /\ \E raised \in SUBSET Sinks : Strike(raised)
  /\ Goto(Main, "queued")
  /\ UNCHANGED <<inFlight, drainer, closed, local, passed, cut, orphaned, interrupts, cycles>>

\* Strikes are re-armed, a console factory that fails leaves a note, and then
\* comes every renderer's begin_cycle and set_level: any of the three may raise.
BeginCycle ==
  /\ pc[Main] = "cycle" /\ NoOtherDrainer
  /\ UNCHANGED queue \/ Enqueue("diagnostic")
  /\ \E noted, turned, levelled \in SUBSET Sinks :
       /\ raises' = raises + Cardinality(noted) + Cardinality(turned) + Cardinality(levelled)
       /\ raises' <= MaxRaises
       /\ strikes' = [s \in Sinks |-> Cardinality({set \in {1, 2, 3} :
                                        s \in <<noted, turned, levelled>>[set]})]
  /\ shut' = Sinks \ Armed'
  /\ Goto(Main, "queued")
  /\ UNCHANGED <<inFlight, drainer, closed, local, passed, cut, orphaned, interrupts, cycles>>

\* The other renderers close first; what their teardown emits is handed, with
\* the rest of the queue, to the file sink before it closes.
Close ==
  /\ pc[Main] = "close" /\ NoOtherDrainer
  /\ closed' = TRUE /\ shut' = Sinks
  /\ \E q \in {queue} \cup {Accept(queue, "diagnostic") : i \in {queue.issued} \ {MaxEvents}} :
       /\ passed' = [passed EXCEPT ![File] = @ \cup {q.pending[i].id : i \in DOMAIN q.pending}]
       /\ queue' = [q EXCEPT !.pending = <<>>]
  /\ Goto(Main, "idle")
  /\ UNCHANGED <<inFlight, drainer, strikes, local, cut, orphaned, bounds>>

Step(t) ==
  \/ Drain(t) \/ Release(t) \/ Pop(t) \/ Handle(t) \/ EndFan(t) \/ Note(t) \/ EndNotes(t)
  \/ EndFlush(t)

Body == SetLevel \/ BeginCycle \/ Close

Next ==
  \/ \E t \in Threads : Emit(t) \/ EmitInside(t) \/ Step(t)
  \/ Interrupt \/ Call \/ Body

Spec == Init /\ [][Next]_vars

(* A thread inside the hub goes on: renderers return or raise, and the lock  *)
(* is never held across a wait.  Nothing makes a thread emit, a signal come  *)
(* or a lifecycle call be made.                                              *)
FairSpec == Spec /\ WF_vars(Body) /\ \A t \in Threads : WF_vars(Step(t))

-----------------------------------------------------------------------------
TypeOK ==
  /\ queue \in Queue /\ inFlight \in Event \cup {NoEvent}
  /\ drainer \in Threads \cup {NoThread} /\ closed \in BOOLEAN
  /\ strikes \in [Sinks -> Nat] /\ shut \subseteq Sinks
  /\ pc \in [Threads -> {"idle", "queued"} \cup Draining \cup Lifecycle]
  /\ event \in [Threads -> Event \cup {NoEvent}]
  /\ armed \in [Threads -> SUBSET Sinks] /\ failed \in [Threads -> SUBSET Sinks]
  /\ passed \in [Sinks -> SUBSET (1..MaxEvents)]
  /\ cut \subseteq 1..MaxEvents /\ orphaned \in BOOLEAN
  /\ raises \in 0..MaxRaises /\ interrupts \in 0..MaxInterrupts /\ cycles \in 0..MaxCycles

(* hub.py: "A single drainer dispatches outside" the lock.  No two threads   *)
(* are ever in the combiner at once, and the baton says which one is, so a   *)
(* lifecycle body never meets a renderer's handle.                           *)
OneDrainer == \A t \in Threads : pc[t] \in Draining <=> drainer = t

(* _drain_loop: "no event ever waits for a future emit".  Whatever is queued *)
(* has a drainer or a thread on its way to become one, unless an interrupt   *)
(* took away the thread that was.                                            *)
NothingStranded ==
  queue.pending # <<>> =>
    drainer # NoThread \/ orphaned \/ \E t \in Threads : pc[t] = "queued"

(* _drain_loop: "duplicates over loss".  An event that entered the queue is  *)
(* waiting, in flight, or was handed to every renderer that was armed (to    *)
(* the file sink alone, when close emptied the queue), across raising        *)
(* renderers and one interrupt; only a repeat interrupt may cut it.          *)
NothingLost ==
  \A e \in queue.accepted :
    \/ e \in Waiting \cup cut \cup {inFlight.id}
    \/ \E t \in Threads : pc[t] = "flush" /\ event[t].id = e
    \/ IF closed THEN e \in passed[File] ELSE \A s \in Sinks : e \in passed[s]

(* OutputHub: "every surface sees every event, in emit order".  Before a     *)
(* renderer is handed an event it was handed all that were emitted earlier.  *)
EmitOrder ==
  \A s \in Sinks : \A e \in passed[s] :
    \A d \in queue.accepted : d < e => d \in passed[s] \cup cut

(* emit: an overflow episode leaves one note, so no burst of diagnostics     *)
(* grows the queue past its cap, re-entrant and teardown emits included.     *)
DiagnosticsBounded ==
  Cardinality({i \in DOMAIN queue.pending : queue.pending[i].kind # "structural"}) <= QueueCap + 1

(* _strike: "a quarantined seat must release its resources".  No dispatch is *)
(* about to hand an event to a renderer that a strike, or close, has closed. *)
ClosedStayQuiet ==
  \A t \in Threads : pc[t] \in {"fan", "ffan", "flush"} => armed[t] \cap shut = {}

(* The baton: one drainer, and never a queue without one.                    *)
QueueIsDrained == OneDrainer /\ NothingStranded

(* What the renderers get: every event, in emit order, none after they were  *)
(* closed, and no more than the queue holds.                                 *)
DeliveredInOrder == NothingLost /\ EmitOrder /\ DiagnosticsBounded /\ ClosedStayQuiet

(* _await_no_drainer: a parked lifecycle call gets its turn, whatever other  *)
(* threads emit and however their drain ends.                                *)
LifecycleEnds == \A what \in Lifecycle : pc[Main] = what ~> pc[Main] # what
=============================================================================
