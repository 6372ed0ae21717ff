-------------------------- MODULE OutputHubProofs --------------------------
(***************************************************************************)
(* The output hub, for any number of threads, renderers, events, raises,   *)
(* interrupts and lifecycle calls: the drain baton, and on top of it what  *)
(* the renderers are handed.                                               *)
(***************************************************************************)
EXTENDS OutputHub, SequenceTheorems, FiniteSetTheorems, TLAPS

USE OutputHubAssumption DEF OutputHubAssumption

Places == {"idle", "queued"} \cup Draining \cup Lifecycle

(* The inductive invariant: the baton names the one thread in the combiner,  *)
(* what is queued has somebody to drain it, and nothing is queued on a       *)
(* closed hub.                                                               *)
BatonInv ==
  /\ pc \in [Threads -> Places]
  /\ drainer \in Threads \cup {NoThread}
  /\ OneDrainer
  /\ closed => queue.pending = <<>>
  /\ NothingStranded

\* Steps that neither move a thread nor touch the baton or the queue.
LEMMA StutterInv ==
  ASSUME BatonInv, UNCHANGED <<pc, drainer, closed, orphaned>>,
         closed => queue'.pending = queue.pending,
         queue'.pending # <<>> => queue.pending # <<>> \/ drainer # NoThread
                                  \/ \E t \in Threads : pc[t] = "queued"
  PROVE  BatonInv'
  BY DEF BatonInv, OneDrainer, NothingStranded

\* An emit on a closed hub leaves the queue as it is.
LEMMA EnqueueClosed ==
  ASSUME NEW kind, Enqueue(kind), closed
  PROVE  queue'.pending = queue.pending
  BY DEF Enqueue, Accept

LEMMA InitBaton == Init => BatonInv
  BY DEF Init, BatonInv, OneDrainer, NothingStranded, Places, Draining, Normal, Flushing

(* Every step keeps the invariant.                                           *)
LEMMA StepBaton ==
  ASSUME BatonInv, [Next]_vars
  PROVE  BatonInv'
  <1> USE DEF BatonInv, OneDrainer, Places, Draining, Normal, Flushing, Lifecycle
  <1>1. ASSUME NEW t \in Threads, Emit(t)
        PROVE  BatonInv'
    <2> USE <1>1 DEF Emit
    <2>1. closed => queue'.pending = <<>>
      BY EnqueueClosed
    <2>2. CASE closed \/ drainer # NoThread
      BY <2>1, <2>2 DEF NothingStranded
    <2>3. CASE ~(closed \/ drainer # NoThread)
      <3>1. pc' = [pc EXCEPT ![t] = "queued"]
        BY <2>3 DEF Goto
      <3> QED
        BY <2>1, <2>3, <3>1 DEF NothingStranded
    <2> QED
      BY <2>2, <2>3
  <1>2. ASSUME NEW t \in Threads, EmitInside(t)
        PROVE  BatonInv'
    <2>1. drainer = t
      BY <1>2 DEF EmitInside, Handling
    <2>2. closed => queue'.pending = <<>>
      BY <1>2, EnqueueClosed DEF EmitInside
    <2> QED
      BY <1>2, <2>1, <2>2 DEF EmitInside, NothingStranded
  <1>3. ASSUME NEW t \in Threads, Drain(t)
        PROVE  BatonInv'
    BY <1>3 DEF Drain, Goto, NothingStranded
  <1>4. ASSUME NEW t \in Threads, Release(t)
        PROVE  BatonInv'
    <2>1. drainer = t
      BY <1>4 DEF Release
    <2>2. queue'.pending = <<>>
      BY <1>4 DEF Release
    <2> QED
      BY <1>4, <2>1, <2>2 DEF Release, Goto, NothingStranded
  <1>5. ASSUME NEW t \in Threads, Pop(t) \/ EndFan(t) \/ EndNotes(t) \/ EndFlush(t)
        PROVE  BatonInv'
    <2>1. drainer = t /\ drainer' = t /\ closed' = closed /\ orphaned' = orphaned
      BY <1>5 DEF Pop, EndFan, EndNotes, EndFlush
    <2>2. \E where \in Draining : pc' = [pc EXCEPT ![t] = where]
      BY <1>5 DEF Pop, EndFan, EndNotes, EndFlush, Goto, Fan, Notes, Loop
    <2>3. closed => queue'.pending = queue.pending
      BY <1>5 DEF Pop, EndFan, EndNotes, EndFlush
    <2> QED
      BY <2>1, <2>2, <2>3 DEF NothingStranded
  <1>6. ASSUME NEW t \in Threads, Handle(t) \/ Note(t)
        PROVE  BatonInv'
    BY <1>6, StutterInv DEF Handle, Note
  <1>7. ASSUME InterruptDrain \/ InterruptFlush \/ InterruptTail
        PROVE  BatonInv'
    <2>1. drainer = Main
      BY <1>7 DEF InterruptDrain, InterruptFlush, InterruptTail
    <2>2. closed' = closed /\ (closed => queue'.pending = <<>>)
      BY <1>7, EnqueueClosed DEF InterruptDrain, InterruptFlush, InterruptTail, Announce
    <2>3. CASE InterruptDrain \/ InterruptFlush
      <3>1. drainer' = Main
        BY <2>1, <2>3 DEF InterruptDrain, InterruptFlush
      <3>2. pc' = [pc EXCEPT ![Main] = "flush"]
        BY <2>3 DEF InterruptDrain, InterruptFlush, Goto
      <3> QED
        BY <2>1, <2>2, <3>1, <3>2 DEF NothingStranded
    <2>4. CASE InterruptTail
      <3>1. drainer' = NoThread /\ orphaned' = TRUE /\ pc' = [pc EXCEPT ![Main] = "idle"]
        BY <2>4 DEF InterruptTail, Goto
      <3> QED
        BY <2>1, <2>2, <3>1 DEF NothingStranded
    <2> QED
      BY <1>7, <2>3, <2>4
  <1>8. CASE InterruptWaiting
    <2>1. /\ closed' = closed /\ drainer' = drainer
          /\ pc[Main] \in {"queued"} \cup Lifecycle
      BY <1>8 DEF InterruptWaiting
    <2>2. closed => queue'.pending = <<>>
      BY <1>8, EnqueueClosed DEF InterruptWaiting
    <2>3. \E where \in {"idle", "queued"} : pc' = [pc EXCEPT ![Main] = where]
      BY <1>8 DEF InterruptWaiting, Goto
    <2>4. drainer' # Main
      BY <2>1
    <2>5. OneDrainer'
      BY <2>1, <2>3, <2>4
    <2>6. NothingStranded'
      <3>1. CASE closed \/ drainer # NoThread
        BY <2>1, <2>2, <3>1 DEF NothingStranded
      <3>2. CASE ~closed /\ drainer = NoThread /\ pc' = [pc EXCEPT ![Main] = "queued"]
        BY <3>2 DEF NothingStranded
      <3>3. CASE /\ ~closed /\ drainer = NoThread /\ pc' = [pc EXCEPT ![Main] = "idle"]
                 /\ UNCHANGED queue
                 /\ orphaned' = (orphaned \/ pc[Main] = "queued")
        BY <2>1, <3>3 DEF NothingStranded
      <3> QED
        BY <1>8, <3>1, <3>2, <3>3 DEF InterruptWaiting, Goto
    <2> QED
      BY <2>1, <2>2, <2>3, <2>5, <2>6
  <1>9. CASE Call
    <2>1. \E what \in Lifecycle : pc' = [pc EXCEPT ![Main] = what]
      BY <1>9 DEF Call, Goto
    <2>2. UNCHANGED <<queue, drainer, closed, orphaned>> /\ pc[Main] = "idle"
      BY <1>9 DEF Call
    <2> QED
      BY <2>1, <2>2 DEF NothingStranded
  <1>10. CASE SetLevel \/ BeginCycle
    <2>1. pc' = [pc EXCEPT ![Main] = "queued"] /\ pc[Main] \in Lifecycle
      BY <1>10 DEF SetLevel, BeginCycle, Goto
    <2>2. closed' = closed /\ drainer' = drainer
      BY <1>10 DEF SetLevel, BeginCycle
    <2>3. closed => queue'.pending = <<>>
      BY <1>10, EnqueueClosed DEF SetLevel, BeginCycle
    <2> QED
      BY <2>1, <2>2, <2>3 DEF NothingStranded
  <1>11. CASE Close
    <2>1. queue'.pending = <<>>
      BY <1>11 DEF Close, Accept
    <2>2. pc' = [pc EXCEPT ![Main] = "idle"] /\ pc[Main] = "close" /\ drainer' = drainer
      BY <1>11 DEF Close, Goto
    <2> QED
      BY <2>1, <2>2 DEF NothingStranded
  <1>12. CASE UNCHANGED vars
    BY <1>12, StutterInv DEF vars
  <1> QED
    BY <1>1, <1>2, <1>3, <1>4, <1>5, <1>6, <1>7, <1>8, <1>9, <1>10, <1>11, <1>12
    DEF Next, Step, Interrupt, Body

THEOREM BatonInvariance == Spec => []BatonInv
  <1>1. BatonInv /\ [Next]_vars => BatonInv'
    BY StepBaton
  <1> QED
    BY InitBaton, <1>1, PTL DEF Spec

(* At most one thread is ever in the combiner, and the baton names it.       *)
THEOREM SingleDrainer == Spec => []OneDrainer
  <1>1. BatonInv => OneDrainer
    BY DEF BatonInv
  <1> QED
    BY <1>1, BatonInvariance, PTL

(* Nothing stays queued without a thread to drain it, unless an interrupt    *)
(* took that thread away.                                                    *)
THEOREM QueueIsServed == Spec => []NothingStranded
  <1>1. BatonInv => NothingStranded
    BY DEF BatonInv
  <1> QED
    BY <1>1, BatonInvariance, PTL

(* The baton, for any number of threads.                                     *)
THEOREM QueueStaysDrained == Spec => []QueueIsDrained
  BY SingleDrainer, QueueIsServed, PTL DEF QueueIsDrained

-----------------------------------------------------------------------------
(* The queue: what one more event, and one event less, do to it.             *)

EventT == [id : Nat \ {0}, kind : Kinds]
QueueT == [pending : Seq(EventT), overflowing : BOOLEAN, issued : Nat, accepted : SUBSET Nat]

Ids(q)     == {q.pending[i].id : i \in DOMAIN q.pending}
Ordered(q) == \A i, j \in DOMAIN q.pending : i < j => q.pending[i].id < q.pending[j].id

GoodQueue(q) ==
  /\ q \in QueueT
  /\ q.accepted \subseteq 1..q.issued /\ Ids(q) \subseteq q.accepted
  /\ Ordered(q)

\* The diagnostics in the queue: the note is the one past the cap.
Diagnostics(q) == {i \in DOMAIN q.pending : q.pending[i].kind # "structural"}
Bounded(q) == /\ Cardinality(Diagnostics(q)) <= QueueCap + 1
              /\ ~q.overflowing => Cardinality(Diagnostics(q)) <= QueueCap

\* r is q after emits alone.
Grown(q, r) ==
  /\ q.issued <= r.issued /\ q.accepted \subseteq r.accepted /\ Ids(q) \subseteq Ids(r)
  /\ \A e \in Ids(r) : e \in Ids(q) \/ e > q.issued
  /\ \A e \in r.accepted : e \in q.accepted \/ (e > q.issued /\ e \in Ids(r))

LEMMA EnqueuedGrows ==
  ASSUME NEW q, GoodQueue(q), NEW kind \in Kinds
  PROVE  /\ GoodQueue(Enqueued(q, kind)) /\ Grown(q, Enqueued(q, kind))
         /\ Enqueued(q, kind).overflowing = q.overflowing
         /\ Diagnostics(Enqueued(q, kind)) =
              IF kind = "structural" THEN Diagnostics(q)
              ELSE Diagnostics(q) \cup {Len(q.pending) + 1}
  <1> DEFINE e == [id |-> q.issued + 1, kind |-> kind]
             r == Enqueued(q, kind)
             n == Len(q.pending)
  <1>1. q \in QueueT /\ q.pending \in Seq(EventT) /\ q.issued \in Nat /\ q.accepted \subseteq Nat
    BY DEF GoodQueue, QueueT
  <1>2. /\ r.pending = Append(q.pending, e) /\ r.issued = q.issued + 1
        /\ r.accepted = q.accepted \cup {q.issued + 1}
        /\ r.overflowing = q.overflowing
    BY <1>1 DEF Enqueued, QueueT
  <1>3. e \in EventT
    BY <1>1 DEF EventT
  <1>4. /\ r.pending \in Seq(EventT) /\ Len(r.pending) = Len(q.pending) + 1
        /\ \A i \in 1..Len(q.pending) : r.pending[i] = q.pending[i]
        /\ r.pending[Len(q.pending) + 1] = e
    BY <1>1, <1>2, <1>3, AppendProperties
  <1>5. /\ Len(q.pending) \in Nat /\ DOMAIN q.pending = 1..Len(q.pending)
        /\ DOMAIN r.pending = 1..(Len(q.pending) + 1)
    BY <1>1, <1>4
  <1>6. r \in QueueT
    <2>1. ASSUME NEW i \in Nat, NEW p \in Seq(EventT), NEW a \in SUBSET Nat
          PROVE  [q EXCEPT !.issued = i, !.pending = p, !.accepted = a] \in QueueT
      BY <1>1 DEF QueueT
    <2>2. Append(q.pending, e) \in Seq(EventT)
      BY <1>2, <1>4
    <2>3. q.issued + 1 \in Nat /\ q.accepted \cup {q.issued + 1} \in SUBSET Nat
      BY <1>1
    <2> QED
      BY <2>1, <2>2, <2>3 DEF Enqueued
  <1>7. Ids(r) = Ids(q) \cup {q.issued + 1}
    <2>1. \A x : x \in Ids(r) <=> \E i \in 1..(n + 1) : x = r.pending[i].id
      BY <1>5 DEF Ids
    <2>2. \A x : x \in Ids(q) <=> \E i \in 1..n : x = q.pending[i].id
      BY <1>5 DEF Ids
    <2>3. e.id = q.issued + 1
      OBVIOUS
    <2>4. 1..(n + 1) = 1..n \cup {n + 1}
      BY <1>5
    <2> HIDE DEF e, r, n
    <2>5. ASSUME NEW x \in Ids(r) PROVE x \in Ids(q) \cup {q.issued + 1}
      BY <1>4, <2>1, <2>2, <2>3, <2>4, <2>5 DEF n
    <2>6. ASSUME NEW x \in Ids(q) PROVE x \in Ids(r)
      BY <1>4, <2>1, <2>2, <2>4, <2>6 DEF n
    <2>7. q.issued + 1 \in Ids(r)
      BY <1>4, <2>1, <2>3, <2>4 DEF n
    <2> QED
      BY <2>5, <2>6, <2>7
  <1>8. \A i \in DOMAIN q.pending : q.pending[i].id \in 1..q.issued
    BY DEF GoodQueue, Ids
  <1>9. Ordered(r)
    <2> SUFFICES ASSUME NEW i \in DOMAIN r.pending, NEW j \in DOMAIN r.pending, i < j
                 PROVE  r.pending[i].id < r.pending[j].id
      BY DEF Ordered
    <2>1. i \in DOMAIN q.pending /\ r.pending[i] = q.pending[i]
      BY <1>4, <1>5
    <2>2. CASE j \in DOMAIN q.pending
      BY <1>4, <1>5, <2>1, <2>2 DEF GoodQueue, Ordered
    <2>3. CASE j = Len(q.pending) + 1
      BY <1>1, <1>4, <1>8, <2>1, <2>3
    <2> QED
      BY <1>5, <2>2, <2>3
  <1>10. GoodQueue(r)
    BY <1>1, <1>2, <1>6, <1>7, <1>9 DEF GoodQueue
  <1>11. Grown(q, r)
    BY <1>1, <1>2, <1>7 DEF Grown
  <1>12. Diagnostics(r) = IF kind = "structural" THEN Diagnostics(q)
                          ELSE Diagnostics(q) \cup {Len(q.pending) + 1}
    <2>1. \A i : i \in Diagnostics(r) <=> i \in 1..(n + 1) /\ r.pending[i].kind # "structural"
      BY <1>5 DEF Diagnostics
    <2>2. \A i : i \in Diagnostics(q) <=> i \in 1..n /\ q.pending[i].kind # "structural"
      BY <1>5 DEF Diagnostics
    <2>3. e.kind = kind
      OBVIOUS
    <2>4. 1..(n + 1) = 1..n \cup {n + 1} /\ n + 1 \notin 1..n
      BY <1>5
    <2> HIDE DEF e, r
    <2>5. CASE kind = "structural"
      BY <1>4, <2>1, <2>2, <2>3, <2>4, <2>5
    <2>6. CASE kind # "structural"
      <3>1. \A i : i \in Diagnostics(r) <=> i \in Diagnostics(q) \/ i = n + 1
        BY <1>4, <2>1, <2>2, <2>3, <2>4, <2>6
      <3> QED
        BY <2>6, <3>1
    <2> QED
      BY <2>5, <2>6
  <1> QED
    BY <1>2, <1>10, <1>11, <1>12

LEMMA DiagnosticsFinite ==
  ASSUME NEW q, GoodQueue(q)
  PROVE  /\ IsFiniteSet(Diagnostics(q)) /\ Cardinality(Diagnostics(q)) \in Nat
         /\ Cardinality(Diagnostics(q)) <= Len(q.pending)
         /\ Len(q.pending) + 1 \notin Diagnostics(q)
  <1>1. Len(q.pending) \in Nat /\ DOMAIN q.pending = 1..Len(q.pending)
    BY DEF GoodQueue, QueueT
  <1>2. IsFiniteSet(1..Len(q.pending)) /\ Cardinality(1..Len(q.pending)) = Len(q.pending)
    <2> DEFINE n == Len(q.pending)
    <2>1. n \in Int /\ 1 \in Int /\ (IF 1 > n THEN 0 ELSE n - 1 + 1) = n
      BY <1>1
    <2> HIDE DEF n
    <2>2. IsFiniteSet(1..n) /\ Cardinality(1..n) = n
      BY <2>1, FS_Interval
    <2> QED
      BY <2>2 DEF n
  <1>3. Diagnostics(q) \in SUBSET (1..Len(q.pending))
    BY <1>1 DEF Diagnostics
  <1>4. IsFiniteSet(Diagnostics(q)) /\ Cardinality(Diagnostics(q)) <= Len(q.pending)
    BY <1>2, <1>3, FS_Subset
  <1> QED
    BY <1>1, <1>3, <1>4, FS_CardinalityType

LEMMA EnqueuedCounts ==
  ASSUME NEW q, GoodQueue(q), NEW kind \in Kinds
  PROVE  Cardinality(Diagnostics(Enqueued(q, kind))) =
           Cardinality(Diagnostics(q)) + (IF kind = "structural" THEN 0 ELSE 1)
  <1>1. /\ IsFiniteSet(Diagnostics(q)) /\ Len(q.pending) + 1 \notin Diagnostics(q)
        /\ Cardinality(Diagnostics(q)) \in Nat
    BY DiagnosticsFinite
  <1>2. Cardinality(Diagnostics(q) \cup {Len(q.pending) + 1}) = Cardinality(Diagnostics(q)) + 1
    BY <1>1, FS_AddElement
  <1>3. Diagnostics(Enqueued(q, kind)) =
          IF kind = "structural" THEN Diagnostics(q) ELSE Diagnostics(q) \cup {Len(q.pending) + 1}
    BY EnqueuedGrows
  <1> QED
    BY <1>1, <1>2, <1>3

(* An emit: the queue stays ordered and bounded, and only new ids enter it.  *)
LEMMA AcceptGrows ==
  ASSUME NEW q, GoodQueue(q), Bounded(q), NEW kind \in Kinds
  PROVE  GoodQueue(Accept(q, kind)) /\ Bounded(Accept(q, kind)) /\ Grown(q, Accept(q, kind))
  <1> DEFINE r == Accept(q, kind)
  <1>1. q \in QueueT /\ Len(q.pending) \in Nat
    BY DEF GoodQueue, QueueT
  <1>2. Cardinality(Diagnostics(q)) \in Nat /\ Cardinality(Diagnostics(q)) <= Len(q.pending)
    BY DiagnosticsFinite
  <1>3. CASE r = [q EXCEPT !.issued = @ + 1]
    <2>1. /\ r.pending = q.pending /\ r.overflowing = q.overflowing
          /\ r.accepted = q.accepted /\ r.issued = q.issued + 1 /\ r \in QueueT
      BY <1>1, <1>3 DEF QueueT
    <2>2. Ids(r) = Ids(q) /\ Diagnostics(r) = Diagnostics(q) /\ (Ordered(q) <=> Ordered(r))
      BY <2>1 DEF Ids, Diagnostics, Ordered
    <2>3. q.issued \in Nat
      BY <1>1 DEF QueueT
    <2> QED
      BY <2>1, <2>2, <2>3 DEF GoodQueue, Bounded, Grown
  <1>4. CASE ~Sheds(q, kind) /\ r = Enqueued(q, kind)
    <2>1. Cardinality(Diagnostics(r)) =
            Cardinality(Diagnostics(q)) + (IF kind = "structural" THEN 0 ELSE 1)
      BY <1>4, EnqueuedCounts
    <2>2. Bounded(r)
      BY <1>1, <1>2, <1>4, <2>1, EnqueuedGrows DEF Bounded, Sheds
    <2> QED
      BY <1>4, <2>2, EnqueuedGrows
  <1>5. CASE /\ Sheds(q, kind) /\ ~q.overflowing
             /\ r = [Enqueued(q, "overflow") EXCEPT !.overflowing = TRUE]
    <2> DEFINE p == Enqueued(q, "overflow")
    <2>1. "overflow" \in Kinds
      BY DEF Kinds
    <2>2. GoodQueue(p) /\ Grown(q, p)
          /\ Cardinality(Diagnostics(p)) = Cardinality(Diagnostics(q)) + 1
      BY <2>1, EnqueuedGrows, EnqueuedCounts
    <2>3. /\ r.pending = p.pending /\ r.overflowing = TRUE
          /\ r.accepted = p.accepted /\ r.issued = p.issued /\ r \in QueueT
      BY <1>5, <2>2 DEF GoodQueue, QueueT
    <2>4. Ids(r) = Ids(p) /\ Diagnostics(r) = Diagnostics(p) /\ (Ordered(p) <=> Ordered(r))
      BY <2>3 DEF Ids, Diagnostics, Ordered
    <2>5. GoodQueue(r)
      BY <2>2, <2>3, <2>4 DEF GoodQueue
    <2>6. Grown(q, r)
      BY <2>2, <2>3, <2>4 DEF Grown
    <2>7. Bounded(r)
      <3>1. Cardinality(Diagnostics(q)) <= QueueCap
        BY <1>5 DEF Bounded
      <3>2. Cardinality(Diagnostics(r)) <= QueueCap + 1
        BY <1>2, <2>2, <2>4, <3>1
      <3> HIDE DEF r
      <3> QED
        BY <2>3, <3>2 DEF Bounded
    <2> QED
      BY <2>5, <2>6, <2>7
  <1> QED
    BY <1>3, <1>4, <1>5 DEF Accept

(* The drainer takes the least id that waits.                                *)
LEMMA PopQueue ==
  ASSUME NEW q, GoodQueue(q), Bounded(q), q.pending # <<>>,
         NEW r, r = [q EXCEPT !.pending = Tail(@)]
  PROVE  /\ GoodQueue(r) /\ Bounded(r)
         /\ r.issued = q.issued /\ r.accepted = q.accepted
         /\ Head(q.pending) \in EventT /\ Head(q.pending).id \in q.accepted
         /\ Ids(q) = Ids(r) \cup {Head(q.pending).id}
         /\ \A w \in Ids(r) : Head(q.pending).id < w
  <1> DEFINE n == Len(q.pending)
  <1>1. q \in QueueT /\ q.pending \in Seq(EventT)
    BY DEF GoodQueue, QueueT
  <1>2. /\ r.pending = Tail(q.pending) /\ r.overflowing = q.overflowing
        /\ r.issued = q.issued /\ r.accepted = q.accepted
    BY <1>1 DEF QueueT
  <1>3. /\ Head(q.pending) \in EventT /\ r.pending \in Seq(EventT)
        /\ Len(r.pending) = n - 1
        /\ \A i \in 1..Len(r.pending) : r.pending[i] = q.pending[i + 1]
    BY <1>1, <1>2, HeadTailProperties
  <1>4. /\ n \in Nat \ {0} /\ DOMAIN q.pending = 1..n /\ DOMAIN r.pending = 1..(n - 1)
        /\ Head(q.pending) = q.pending[1]
    BY <1>1, <1>3
  <1>5. r \in QueueT
    BY <1>1, <1>2, <1>3 DEF QueueT
  <1>6. \A i \in 1..(n - 1) : i + 1 \in 1..n /\ r.pending[i] = q.pending[i + 1]
    BY <1>3, <1>4
  <1>7. Ids(q) = Ids(r) \cup {Head(q.pending).id}
    <2>1. Ids(q) \subseteq Ids(r) \cup {Head(q.pending).id}
      <3> SUFFICES ASSUME NEW i \in 1..n, i # 1
                   PROVE  q.pending[i].id \in Ids(r)
        BY <1>4 DEF Ids
      <3>1. i - 1 \in 1..(n - 1) /\ (i - 1) + 1 = i
        BY <1>4
      <3>2. r.pending[i - 1] = q.pending[i]
        BY <1>6, <3>1
      <3> QED
        BY <1>4, <3>1, <3>2 DEF Ids
    <2>2. Ids(r) \subseteq Ids(q)
      BY <1>4, <1>6 DEF Ids
    <2>3. Head(q.pending).id \in Ids(q)
      BY <1>4 DEF Ids
    <2> QED
      BY <2>1, <2>2, <2>3
  <1>8. \A w \in Ids(r) : Head(q.pending).id < w
    <2> SUFFICES ASSUME NEW i \in 1..(n - 1)
                 PROVE  Head(q.pending).id < r.pending[i].id
      BY <1>4 DEF Ids
    <2>1. 1 \in DOMAIN q.pending /\ i + 1 \in DOMAIN q.pending /\ 1 < i + 1
      BY <1>4
    <2> QED
      BY <1>4, <1>6, <2>1 DEF GoodQueue, Ordered
  <1>9. Ordered(r)
    <2> SUFFICES ASSUME NEW i \in 1..(n - 1), NEW j \in 1..(n - 1), i < j
                 PROVE  r.pending[i].id < r.pending[j].id
      BY <1>4 DEF Ordered
    <2>1. i + 1 \in 1..n /\ j + 1 \in 1..n
      BY <1>6
    <2>2. i + 1 < j + 1
      OBVIOUS
    <2>3. \A k, l \in 1..n : k < l => q.pending[k].id < q.pending[l].id
      BY <1>4 DEF GoodQueue, Ordered
    <2>4. q.pending[i + 1].id < q.pending[j + 1].id
      <3> HIDE DEF n
      <3> QED
        BY <2>1, <2>2, <2>3
    <2> QED
      BY <1>6, <2>4
  <1>10. GoodQueue(r)
    BY <1>2, <1>5, <1>7, <1>9 DEF GoodQueue
  <1>11. Cardinality(Diagnostics(r)) <= Cardinality(Diagnostics(q))
    <2> DEFINE next == [i \in Diagnostics(r) |-> i + 1]
    <2>1. \A i \in Diagnostics(r) : i \in Nat /\ i + 1 \in Diagnostics(q)
      BY <1>4, <1>6 DEF Diagnostics
    <2>2. next \in [Diagnostics(r) -> Diagnostics(q)]
      BY <2>1
    <2>3. \A i, j \in Diagnostics(r) : next[i] = next[j] => i = j
      BY <2>1
    <2>4. next \in Injection(Diagnostics(r), Diagnostics(q))
      BY <2>2, <2>3 DEF Injection, IsInjective
    <2> QED
      BY <2>4, DiagnosticsFinite, FS_Injection
  <1>12. Bounded(r)
    <2>1. Cardinality(Diagnostics(r)) \in Nat /\ Cardinality(Diagnostics(q)) \in Nat
      BY <1>10, DiagnosticsFinite
    <2> QED
      BY <1>2, <1>11, <2>1 DEF Bounded
  <1> QED
    BY <1>2, <1>3, <1>7, <1>8, <1>10, <1>12 DEF GoodQueue

\* The terminal arm and close empty it.
LEMMA EmptyQueue ==
  ASSUME NEW q, GoodQueue(q), NEW o \in BOOLEAN,
         NEW r, r = [q EXCEPT !.pending = <<>>, !.overflowing = o]
  PROVE  /\ GoodQueue(r) /\ Bounded(r)
         /\ r.issued = q.issued /\ r.accepted = q.accepted /\ Ids(r) = {}
  <1>1. q \in QueueT
    BY DEF GoodQueue
  <1>2. /\ r.pending = <<>> /\ r.overflowing = o
        /\ r.issued = q.issued /\ r.accepted = q.accepted
    BY <1>1 DEF QueueT
  <1>3. r \in QueueT
    BY <1>1, <1>2, EmptySeq DEF QueueT
  <1>4. DOMAIN r.pending = {}
    BY <1>2
  <1>5. Ids(r) = {} /\ Diagnostics(r) = {} /\ Ordered(r)
    BY <1>4 DEF Ids, Diagnostics, Ordered
  <1>6. Cardinality(Diagnostics(r)) = 0
    BY <1>5, FS_EmptySet
  <1> QED
    BY <1>2, <1>3, <1>5, <1>6 DEF GoodQueue, Bounded

-----------------------------------------------------------------------------
(* The dispatch.  A thread that hands an event out has it `InHand` for each  *)
(* renderer still to be given it.                                            *)

Dispatching(t)  == pc[t] \in {"fan", "ffan", "flush"}
InHand(t, s, e) == Dispatching(t) /\ event[t].id = e /\ s \in armed[t]

\* Nothing that waits was emitted before e.
Ahead(q, e) == e \in 0..q.issued /\ \A w \in Ids(q) : e < w

HubType ==
  /\ inFlight \in EventT \cup {NoEvent} /\ event \in [Threads -> EventT \cup {NoEvent}]
  /\ armed \in [Threads -> SUBSET Sinks] /\ strikes \in [Sinks -> Nat]
  /\ passed \in [Sinks -> SUBSET Nat]

\* What is handed out is the event in flight, and it was emitted before all
\* that waits.
DispatchInv ==
  /\ \A t \in Threads : pc[t] \in {"fan", "ffan"} => event[t] = inFlight
  /\ \A t \in Threads : Dispatching(t) =>
       /\ Ahead(queue, event[t].id) /\ armed[t] \subseteq Armed
       /\ event[t] = NoEvent => armed[t] = {}
  /\ Ahead(queue, inFlight.id)
  /\ \A s \in Sinks : passed[s] \subseteq 1..queue.issued

ShutInv == ~closed => shut \cap Armed = {}

\* After close nobody dispatches, and the file sink has everything.
ClosedInv ==
  closed => /\ pc[Main] = "idle" /\ \A t \in Threads : ~Dispatching(t)
            /\ queue.accepted \subseteq passed[File] \cup cut

\* Before it, whatever does not wait was handed to every renderer, or is about
\* to be.
HandedInv ==
  ~closed => \A s \in Sinks : \A e \in queue.accepted \ (cut \cup Ids(queue)) :
               e \in passed[s] \/ \E t \in Threads : InHand(t, s, e)

HubInv ==
  /\ GoodQueue(queue) /\ Bounded(queue)
  /\ HubType /\ DispatchInv /\ ShutInv /\ ClosedInv /\ HandedInv /\ EmitOrder

\* The queue after a step that may emit.
LEMMA MayEmit ==
  ASSUME GoodQueue(queue), Bounded(queue),
         UNCHANGED queue \/ \E kind \in Kinds : Enqueue(kind)
  PROVE  GoodQueue(queue') /\ Bounded(queue') /\ Grown(queue, queue')
  <1>1. CASE UNCHANGED queue
    <2>1. queue.issued \in Nat
      BY DEF GoodQueue, QueueT
    <2> QED
      BY <1>1, <2>1 DEF Grown
  <1>2. ASSUME NEW kind \in Kinds, Enqueue(kind)
        PROVE  GoodQueue(queue') /\ Bounded(queue') /\ Grown(queue, queue')
    BY <1>2, AcceptGrows DEF Enqueue
  <1> QED
    BY <1>1, <1>2

\* And on a closed hub.
LEMMA ClosedEmit ==
  ASSUME GoodQueue(queue), closed,
         UNCHANGED queue \/ \E kind \in Kinds : Enqueue(kind)
  PROVE  queue'.accepted = queue.accepted
  BY DEF GoodQueue, QueueT, Enqueue, Accept

LEMMA AheadGrows ==
  ASSUME NEW q, NEW r, GoodQueue(q), GoodQueue(r), Grown(q, r), NEW e, Ahead(q, e)
  PROVE  Ahead(r, e)
  <1>1. q.issued \in Nat /\ r.issued \in Nat /\ q.accepted \subseteq 1..q.issued
        /\ Ids(q) \subseteq q.accepted /\ r.accepted \subseteq 1..r.issued
        /\ Ids(r) \subseteq r.accepted
    BY DEF GoodQueue, QueueT
  <1>2. e \in 0..r.issued
    BY <1>1 DEF Ahead, Grown
  <1>3. ASSUME NEW w \in Ids(r) PROVE e < w
    <2>1. CASE w \in Ids(q)
      BY <2>1 DEF Ahead
    <2>2. CASE w > q.issued
      BY <1>1, <2>2 DEF Ahead
    <2> QED
      BY <2>1, <2>2 DEF Grown
  <1> QED
    BY <1>2, <1>3 DEF Ahead

(* A step that only emits, moves threads with nothing in hand, and strikes   *)
(* renderers nobody holds an event for.                                      *)
LEMMA HubKept ==
  ASSUME BatonInv, HubInv,
         UNCHANGED queue \/ \E kind \in Kinds : Enqueue(kind),
         UNCHANGED <<inFlight, closed, event, armed, passed, cut>>,
         strikes' \in [Sinks -> Nat], ShutInv',
         \A t \in Threads : Dispatching(t)' => pc'[t] = pc[t] /\ armed[t] \subseteq Armed',
         \A t \in Threads : Dispatching(t) => pc'[t] = pc[t] \/ armed[t] = {},
         closed => pc'[Main] = "idle"
  PROVE  HubInv'
  <1>1. GoodQueue(queue') /\ Bounded(queue') /\ Grown(queue, queue')
    BY MayEmit DEF HubInv
  <1>2. \A e : Ahead(queue, e) => Ahead(queue', e)
    BY <1>1, AheadGrows DEF HubInv
  <1>3. \A t \in Threads : Dispatching(t)' => Dispatching(t) /\ pc'[t] = pc[t]
    BY DEF Dispatching
  <1>4. HubType'
    BY DEF HubInv, HubType
  <1>5. DispatchInv'
    <2>1. ASSUME NEW t \in Threads, pc'[t] \in {"fan", "ffan"}
          PROVE  event'[t] = inFlight'
      BY <1>3, <2>1 DEF HubInv, DispatchInv, Dispatching
    <2>2. ASSUME NEW t \in Threads, Dispatching(t)'
          PROVE  /\ Ahead(queue', event'[t].id) /\ armed'[t] \subseteq Armed'
                 /\ event'[t] = NoEvent => armed'[t] = {}
      BY <1>2, <1>3, <2>2 DEF HubInv, DispatchInv
    <2>3. Ahead(queue', inFlight'.id)
      BY <1>2 DEF HubInv, DispatchInv
    <2>4. \A s \in Sinks : passed'[s] \subseteq 1..queue'.issued
      <3>1. 1..queue.issued \subseteq 1..queue'.issued
        BY <1>1 DEF HubInv, GoodQueue, QueueT, Grown
      <3> QED
        BY <3>1 DEF HubInv, DispatchInv
    <2> QED
      BY <2>1, <2>2, <2>3, <2>4 DEF DispatchInv
  <1>6. ClosedInv'
    BY <1>3, ClosedEmit DEF HubInv, ClosedInv
  <1>7. HandedInv'
    <2> SUFFICES ASSUME ~closed, NEW s \in Sinks,
                        NEW e \in queue'.accepted, e \notin cut, e \notin Ids(queue')
                 PROVE  e \in passed[s] \/ \E t \in Threads : InHand(t, s, e)'
      BY DEF HandedInv
    <2>1. e \in queue.accepted /\ e \notin Ids(queue)
      BY <1>1 DEF Grown
    <2>2. e \in passed[s] \/ \E t \in Threads : InHand(t, s, e)
      BY <2>1 DEF HubInv, HandedInv
    <2>3. ASSUME NEW t \in Threads, InHand(t, s, e)
          PROVE  InHand(t, s, e)'
      BY <2>3 DEF InHand, Dispatching
    <2> QED
      BY <2>2, <2>3
  <1>8. EmitOrder'
    <2> SUFFICES ASSUME NEW s \in Sinks, NEW e \in passed[s],
                        NEW d \in queue'.accepted, d < e
                 PROVE  d \in passed[s] \cup cut
      BY DEF EmitOrder
    <2>1. e \in 1..queue.issued /\ queue.issued \in Nat
      BY DEF HubInv, DispatchInv, GoodQueue, QueueT
    <2>2. queue'.accepted \subseteq 1..queue'.issued /\ queue'.issued \in Nat
      BY <1>1 DEF GoodQueue, QueueT
    <2>3. d \in queue.accepted
      BY <1>1, <2>1, <2>2 DEF Grown
    <2> QED
      BY <2>3 DEF HubInv, EmitOrder
  <1> QED
    BY <1>1, <1>4, <1>5, <1>6, <1>7, <1>8 DEF HubInv

\* Only the drainer dispatches.
LEMMA OneDispatches ==
  ASSUME BatonInv, NEW t \in Threads, pc[t] \in Draining
  PROVE  \A u \in Threads \ {t} : ~Dispatching(u)
  BY DEF BatonInv, OneDrainer, Dispatching, Draining, Normal, Flushing

(* A renderer is handed the event, or loses it to an interrupt.  All that    *)
(* was emitted earlier has left the queue and is in no other hand, so it was *)
(* handed before.                                                            *)
LEMMA HubHands ==
  ASSUME BatonInv, HubInv, NEW t \in Threads, Dispatching(t), NEW s \in armed[t],
         armed' = [armed EXCEPT ![t] = @ \ {s}],
         passed' = [passed EXCEPT ![s] = @ \cup {event[t].id}],
         UNCHANGED queue \/ \E kind \in Kinds : Enqueue(kind),
         UNCHANGED <<inFlight, closed, pc, event, cut>>,
         strikes' \in [Sinks -> Nat], ShutInv', armed[t] \ {s} \subseteq Armed'
  PROVE  HubInv'
  <1>1. GoodQueue(queue') /\ Bounded(queue') /\ Grown(queue, queue')
    BY MayEmit DEF HubInv
  <1>2. \A e : Ahead(queue, e) => Ahead(queue', e)
    BY <1>1, AheadGrows DEF HubInv
  <1>3. \A u \in Threads \ {t} : ~Dispatching(u)
    BY OneDispatches DEF Dispatching, Draining, Normal, Flushing
  <1>4. \A u : Dispatching(u)' <=> Dispatching(u)
    BY DEF Dispatching
  <1>5. s \in Sinks /\ ~closed
    BY DEF HubInv, HubType, ClosedInv
  <1>6. event[t].id \in Nat /\ Ahead(queue, event[t].id)
    BY DEF HubInv, HubType, EventT, NoEvent, DispatchInv
  <1>7. HubType'
    BY <1>6 DEF HubInv, HubType
  <1>8. queue.issued \in Nat /\ 1..queue.issued \subseteq 1..queue'.issued
    BY <1>1 DEF HubInv, GoodQueue, QueueT, Grown
  <1>9. event[t].id \in 1..queue.issued
    <2>1. event[t] # NoEvent
      BY DEF HubInv, DispatchInv
    <2>2. event[t].id # 0
      BY <2>1 DEF HubInv, HubType, EventT, NoEvent
    <2> QED
      BY <1>6, <1>8, <2>2 DEF Ahead
  <1>10. DispatchInv'
    <2>1. ASSUME NEW u \in Threads, pc'[u] \in {"fan", "ffan"}
          PROVE  event'[u] = inFlight'
      BY <2>1 DEF HubInv, DispatchInv, Dispatching
    <2>2. ASSUME NEW u \in Threads, Dispatching(u)'
          PROVE  /\ Ahead(queue', event'[u].id) /\ armed'[u] \subseteq Armed'
                 /\ event'[u] = NoEvent => armed'[u] = {}
      <3>1. u = t
        BY <1>3, <1>4, <2>2
      <3>2. armed'[t] = armed[t] \ {s}
        BY DEF HubInv, HubType
      <3> QED
        BY <1>2, <1>6, <3>1, <3>2 DEF HubInv, DispatchInv
    <2>3. Ahead(queue', inFlight'.id)
      BY <1>2 DEF HubInv, DispatchInv
    <2>4. \A r \in Sinks : passed'[r] \subseteq 1..queue'.issued
      BY <1>8, <1>9 DEF HubInv, HubType, DispatchInv
    <2> QED
      BY <2>1, <2>2, <2>3, <2>4 DEF DispatchInv
  <1>11. ClosedInv'
    BY <1>5 DEF ClosedInv
  <1>12. HandedInv'
    <2> SUFFICES ASSUME NEW r \in Sinks,
                        NEW e \in queue'.accepted, e \notin cut, e \notin Ids(queue')
                 PROVE  e \in passed'[r] \/ \E u \in Threads : InHand(u, r, e)'
      BY DEF HandedInv
    <2>1. e \in queue.accepted /\ e \notin Ids(queue)
      BY <1>1 DEF Grown
    <2>2. e \in passed[r] \/ \E u \in Threads : InHand(u, r, e)
      BY <1>5, <2>1 DEF HubInv, HandedInv
    <2>3. CASE e \in passed[r]
      BY <2>3 DEF HubInv, HubType
    <2>4. ASSUME NEW u \in Threads, InHand(u, r, e)
          PROVE  e \in passed'[r] \/ InHand(u, r, e)'
      <3>1. u = t /\ e = event[t].id
        BY <1>3, <2>4 DEF InHand
      <3>2. CASE r = s
        BY <3>1, <3>2 DEF HubInv, HubType
      <3>3. CASE r # s
        BY <1>4, <2>4, <3>1, <3>3 DEF HubInv, HubType, InHand
      <3> QED
        BY <3>2, <3>3
    <2> QED
      BY <2>2, <2>3, <2>4
  <1>13. EmitOrder'
    <2> SUFFICES ASSUME NEW r \in Sinks, NEW e \in passed'[r],
                        NEW d \in queue'.accepted, d < e
                 PROVE  d \in passed'[r] \cup cut
      BY DEF EmitOrder
    <2>1. e \in 1..queue.issued
      BY <1>9 DEF HubInv, HubType, DispatchInv
    <2>2. queue'.accepted \subseteq 1..queue'.issued /\ queue'.issued \in Nat
      BY <1>1 DEF GoodQueue, QueueT
    <2>3. d \in queue.accepted
      BY <1>1, <1>8, <2>1, <2>2 DEF Grown
    <2>4. passed[r] \subseteq passed'[r]
      BY DEF HubInv, HubType
    <2>5. CASE e \in passed[r]
      BY <2>3, <2>4, <2>5 DEF HubInv, EmitOrder
    <2>6. CASE r = s /\ e = event[t].id
      <3>1. d \notin Ids(queue)
        BY <1>6, <1>8, <2>2, <2>6 DEF Ahead
      <3>2. d \in passed[s] \/ d \in cut \/ \E u \in Threads : InHand(u, s, d)
        BY <1>5, <2>3, <3>1 DEF HubInv, HandedInv
      <3>3. \A u \in Threads : ~InHand(u, s, d)
        BY <1>3, <1>6, <2>2, <2>6 DEF InHand
      <3> QED
        BY <2>4, <2>6, <3>2, <3>3
    <2> QED
      BY <2>5, <2>6 DEF HubInv, HubType
  <1> QED
    BY <1>1, <1>7, <1>10, <1>11, <1>12, <1>13 DEF HubInv

(* The drainer takes the next event: all that was emitted earlier was handed *)
(* to every renderer, for nobody has anything in hand.                       *)
LEMMA HubPops ==
  ASSUME BatonInv, HubInv, NEW t \in Threads, Pop(t)
  PROVE  HubInv'
  <1> DEFINE h == Head(queue.pending)
  <1>1. /\ GoodQueue(queue') /\ Bounded(queue')
        /\ queue'.issued = queue.issued /\ queue'.accepted = queue.accepted
        /\ h \in EventT /\ h.id \in queue.accepted
        /\ Ids(queue) = Ids(queue') \cup {h.id} /\ \A w \in Ids(queue') : h.id < w
    BY PopQueue DEF Pop, HubInv
  <1>2. ~closed /\ UNCHANGED <<closed, strikes, shut, cut>>
    BY DEF Pop
  <1>3. /\ inFlight' = h /\ event' = [event EXCEPT ![t] = h]
        /\ armed' = [armed EXCEPT ![t] = Armed]
    BY DEF Pop
  <1>4. \A s \in Sinks : passed'[s] = IF s \in Armed THEN passed[s] ELSE passed[s] \cup {h.id}
    BY DEF Pop
  <1>5. pc' = [pc EXCEPT ![t] = Fan(t)] /\ Fan(t) \in {"fan", "ffan"} /\ pc[t] \in {"loop", "floop"}
    BY DEF Pop, Goto, Fan
  <1>6. pc \in [Threads -> Places]
    BY DEF BatonInv
  <1>7. \A u \in Threads : ~Dispatching(u)
    BY <1>5, OneDispatches DEF Dispatching, Draining, Normal, Flushing
  <1>8. \A u \in Threads : (Dispatching(u)' <=> u = t) /\ (pc'[u] \in {"fan", "ffan"} => u = t)
    BY <1>5, <1>6, <1>7 DEF Dispatching
  <1>9. queue.issued \in Nat /\ h.id \in 1..queue.issued /\ Armed \subseteq Sinks
    BY <1>1 DEF HubInv, GoodQueue, QueueT, Armed
  <1>10. HubType'
    <2>1. passed' \in [Sinks -> SUBSET Nat]
      BY <1>9 DEF HubInv, HubType, Pop
    <2> QED
      BY <1>1, <1>2, <1>3, <1>9, <2>1 DEF HubInv, HubType
  <1>11. Armed' = Armed
    BY <1>2 DEF Armed
  <1>12. event'[t] = h /\ armed'[t] = Armed
    BY <1>3 DEF HubInv, HubType
  <1>13. DispatchInv'
    <2>1. Ahead(queue', h.id)
      BY <1>1, <1>9 DEF Ahead
    <2>2. h # NoEvent
      BY <1>1 DEF EventT, NoEvent
    <2>3. ASSUME NEW s \in Sinks PROVE passed'[s] \subseteq 1..queue'.issued
      <3>1. passed[s] \subseteq 1..queue.issued
        BY DEF HubInv, DispatchInv
      <3>2. passed'[s] \subseteq passed[s] \cup {h.id}
        BY <1>4
      <3> QED
        BY <1>1, <1>9, <3>1, <3>2
    <2> QED
      BY <1>3, <1>8, <1>11, <1>12, <2>1, <2>2, <2>3 DEF DispatchInv
  <1>14. ShutInv' /\ ClosedInv'
    BY <1>2, <1>11 DEF HubInv, ShutInv, ClosedInv
  <1>15. ASSUME NEW s \in Sinks, NEW d \in queue.accepted, d \notin cut, d \notin Ids(queue)
         PROVE  d \in passed[s]
    BY <1>2, <1>7, <1>15 DEF HubInv, HandedInv, InHand
  <1>16. HandedInv'
    <2> SUFFICES ASSUME NEW s \in Sinks,
                        NEW e \in queue.accepted, e \notin cut, e \notin Ids(queue')
                 PROVE  e \in passed'[s] \/ InHand(t, s, e)'
      BY <1>1, <1>2 DEF HandedInv
    <2>1. CASE e = h.id
      BY <1>4, <1>8, <1>12, <2>1 DEF InHand
    <2>2. CASE e # h.id
      BY <1>1, <1>4, <1>15, <2>2
    <2> QED
      BY <2>1, <2>2
  <1>17. EmitOrder'
    <2> SUFFICES ASSUME NEW s \in Sinks, NEW e \in passed'[s],
                        NEW d \in queue.accepted, d < e
                 PROVE  d \in passed'[s] \cup cut
      BY <1>1, <1>2 DEF EmitOrder
    <2>1. CASE e \in passed[s]
      BY <1>4, <2>1 DEF HubInv, EmitOrder
    <2>2. CASE e = h.id
      <3>1. d \in Nat /\ \A w \in Ids(queue) : w \in Nat
        BY DEF HubInv, GoodQueue
      <3>2. d \notin Ids(queue)
        BY <1>1, <1>9, <2>2, <3>1
      <3> QED
        BY <1>4, <1>15, <3>2
    <2> QED
      BY <1>4, <2>1, <2>2
  <1> QED
    BY <1>1, <1>10, <1>13, <1>14, <1>16, <1>17 DEF HubInv

(* An interrupt in the combiner: the flush takes what was in flight, and     *)
(* hands it to every renderer still armed.                                   *)
LEMMA HubInterruptDrain ==
  ASSUME BatonInv, HubInv, InterruptDrain
  PROVE  HubInv'
  <1> USE DEF InterruptDrain
  <1> DEFINE again == IF inFlight = NoEvent THEN {} ELSE Armed
  <1>1. GoodQueue(queue') /\ Bounded(queue') /\ Grown(queue, queue')
    <2>1. UNCHANGED queue \/ \E kind \in Kinds : Enqueue(kind)
      BY DEF Announce, Kinds
    <2> QED
      BY <2>1, MayEmit DEF HubInv
  <1>2. \A e : Ahead(queue, e) => Ahead(queue', e)
    BY <1>1, AheadGrows DEF HubInv
  <1>3. pc[Main] \in Normal /\ ~closed /\ UNCHANGED <<closed, strikes, shut, passed, cut>>
    BY DEF HubInv, ClosedInv, Normal
  <1>4. \A u \in Threads \ {Main} : ~Dispatching(u)
    BY OneDispatches, <1>3 DEF Draining
  <1>5. /\ pc'[Main] = "flush" /\ event'[Main] = inFlight /\ armed'[Main] = again
        /\ \A u \in Threads \ {Main} : pc'[u] = pc[u]
    BY DEF HubInv, HubType, BatonInv, Goto
  <1>6. Armed' = Armed /\ Armed \subseteq Sinks
    BY <1>3 DEF Armed
  <1>7. HubType'
    BY <1>3, <1>6 DEF HubInv, HubType
  <1>8. \A u \in Threads : Dispatching(u)' <=> u = Main
    BY <1>4, <1>5 DEF Dispatching
  <1>9. queue.issued \in Nat /\ queue'.issued \in Nat /\ queue'.accepted \subseteq 1..queue'.issued
        /\ Ids(queue') \subseteq queue'.accepted
    BY <1>1 DEF HubInv, GoodQueue, QueueT
  <1>10. DispatchInv'
    <2>1. Ahead(queue', inFlight.id)
      BY <1>2 DEF HubInv, DispatchInv
    <2>2. Ahead(queue', inFlight'.id)
      BY <1>9 DEF Ahead, NoEvent
    <2>3. \A s \in Sinks : passed'[s] \subseteq 1..queue'.issued
      <3>1. 1..queue.issued \subseteq 1..queue'.issued
        BY <1>1, <1>9 DEF Grown
      <3> QED
        BY <1>3, <3>1 DEF HubInv, DispatchInv
    <2>4. ASSUME NEW u \in Threads PROVE pc'[u] \notin {"fan", "ffan"}
      BY <1>5, <1>8 DEF Dispatching
    <2> QED
      BY <1>5, <1>6, <1>8, <2>1, <2>2, <2>3, <2>4 DEF DispatchInv
  <1>11. ShutInv' /\ ClosedInv'
    BY <1>3, <1>6 DEF HubInv, ShutInv, ClosedInv
  <1>12. HandedInv'
    <2> SUFFICES ASSUME NEW s \in Sinks,
                        NEW e \in queue'.accepted, e \notin cut, e \notin Ids(queue')
                 PROVE  e \in passed[s] \/ InHand(Main, s, e)'
      BY <1>3 DEF HandedInv
    <2>1. e \in queue.accepted /\ e \notin Ids(queue)
      BY <1>1 DEF Grown
    <2>2. e \in passed[s] \/ \E u \in Threads : InHand(u, s, e)
      BY <1>3, <2>1 DEF HubInv, HandedInv
    <2>3. ASSUME InHand(Main, s, e)
          PROVE  InHand(Main, s, e)'
      <3>1. pc[Main] = "fan"
        BY <1>3, <2>3 DEF InHand, Dispatching, Normal
      <3>2. event[Main] = inFlight /\ armed[Main] \subseteq Armed /\ event[Main] # NoEvent
        BY <2>3, <3>1 DEF HubInv, DispatchInv, Dispatching, InHand
      <3> QED
        BY <1>5, <1>8, <2>3, <3>2 DEF InHand
    <2> QED
      BY <1>4, <2>2, <2>3 DEF InHand
  <1>13. EmitOrder'
    <2> SUFFICES ASSUME NEW s \in Sinks, NEW e \in passed[s],
                        NEW d \in queue'.accepted, d < e
                 PROVE  d \in passed[s] \cup cut
      BY <1>3 DEF EmitOrder
    <2>1. e \in 1..queue.issued
      BY DEF HubInv, DispatchInv
    <2>2. d \in queue.accepted
      BY <1>1, <1>9, <2>1 DEF Grown
    <2> QED
      BY <2>2 DEF HubInv, EmitOrder
  <1> QED
    BY <1>1, <1>7, <1>10, <1>11, <1>12, <1>13 DEF HubInv

(* A repeat interrupt ends the flush: what it had in hand was in flight, and *)
(* is counted as cut.                                                        *)
LEMMA HubInterruptTail ==
  ASSUME BatonInv, HubInv, InterruptTail
  PROVE  HubInv'
  <1> USE DEF InterruptTail
  <1>1. GoodQueue(queue') /\ Bounded(queue') /\ Grown(queue, queue')
    <2>1. UNCHANGED queue \/ \E kind \in Kinds : Enqueue(kind)
      BY DEF Announce, Kinds
    <2> QED
      BY <2>1, MayEmit DEF HubInv
  <1>2. \A e : Ahead(queue, e) => Ahead(queue', e)
    BY <1>1, AheadGrows DEF HubInv
  <1>3. /\ pc[Main] \in Flushing /\ ~closed
        /\ UNCHANGED <<inFlight, closed, strikes, shut, event, armed, passed>>
    BY DEF HubInv, ClosedInv, Flushing, local
  <1>4. cut' = cut \cup ({inFlight.id} \ {0})
    OBVIOUS
  <1>5. \A u \in Threads : ~Dispatching(u)'
    <2>1. \A u \in Threads \ {Main} : ~Dispatching(u)
      BY OneDispatches, <1>3 DEF Draining
    <2> QED
      BY <2>1 DEF Dispatching, Goto, BatonInv
  <1>6. Armed' = Armed
    BY <1>3 DEF Armed
  <1>7. HubType'
    BY <1>3 DEF HubInv, HubType
  <1>8. queue.issued \in Nat /\ queue'.issued \in Nat /\ queue'.accepted \subseteq 1..queue'.issued
    BY <1>1 DEF HubInv, GoodQueue, QueueT
  <1>9. DispatchInv'
    <2>1. Ahead(queue', inFlight'.id)
      BY <1>2, <1>3 DEF HubInv, DispatchInv
    <2>2. \A s \in Sinks : passed'[s] \subseteq 1..queue'.issued
      <3>1. 1..queue.issued \subseteq 1..queue'.issued
        BY <1>1, <1>8 DEF Grown
      <3> QED
        BY <1>3, <3>1 DEF HubInv, DispatchInv
    <2> QED
      BY <1>5, <2>1, <2>2 DEF DispatchInv, Dispatching
  <1>10. ShutInv' /\ ClosedInv'
    BY <1>3, <1>6 DEF HubInv, ShutInv, ClosedInv
  <1>11. HandedInv'
    <2> SUFFICES ASSUME NEW s \in Sinks,
                        NEW e \in queue'.accepted, e \notin cut', e \notin Ids(queue')
                 PROVE  e \in passed[s]
      BY <1>3 DEF HandedInv
    <2>1. e \in queue.accepted /\ e \notin Ids(queue) /\ e \notin cut
      BY <1>1, <1>4 DEF Grown
    <2>2. e \in passed[s] \/ \E u \in Threads : InHand(u, s, e)
      BY <1>3, <2>1 DEF HubInv, HandedInv
    <2>3. ASSUME NEW u \in Threads, InHand(u, s, e)
          PROVE  FALSE
      <3>1. u = Main
        BY OneDispatches, <1>3, <2>3 DEF Draining, InHand
      <3>2. event[Main] = inFlight
        BY <1>3, <2>3, <3>1 DEF HubInv, DispatchInv, InHand, Dispatching, Flushing
      <3>3. e = inFlight.id /\ e # 0
        BY <1>8, <2>3, <3>1, <3>2 DEF InHand
      <3> QED
        BY <1>4, <3>3
    <2> QED
      BY <2>2, <2>3
  <1>12. EmitOrder'
    <2> SUFFICES ASSUME NEW s \in Sinks, NEW e \in passed[s],
                        NEW d \in queue'.accepted, d < e
                 PROVE  d \in passed[s] \cup cut
      BY <1>3, <1>4 DEF EmitOrder
    <2>1. e \in 1..queue.issued
      BY DEF HubInv, DispatchInv
    <2>2. d \in queue.accepted
      BY <1>1, <1>8, <2>1 DEF Grown
    <2> QED
      BY <2>2 DEF HubInv, EmitOrder
  <1> QED
    BY <1>1, <1>7, <1>9, <1>10, <1>11, <1>12 DEF HubInv

LEMMA HubReleases ==
  ASSUME BatonInv, HubInv, NEW t \in Threads, Release(t)
  PROVE  HubInv'
  <1>1. /\ GoodQueue(queue') /\ Bounded(queue')
        /\ queue'.issued = queue.issued /\ queue'.accepted = queue.accepted /\ Ids(queue') = {}
    BY EmptyQueue DEF Release, HubInv
  <1>2. UNCHANGED <<closed, strikes, shut, event, armed, passed, cut>> /\ inFlight' = NoEvent
    BY DEF Release, local
  <1>3. pc' = [pc EXCEPT ![t] = "idle"] /\ pc[t] \in {"loop", "floop"}
    BY DEF Release, Goto
  <1>4. \A u \in Threads : ~Dispatching(u)
    BY <1>3, OneDispatches DEF Dispatching, Draining, Normal, Flushing
  <1>5. \A u \in Threads : ~Dispatching(u)'
    BY <1>3, <1>4 DEF Dispatching, BatonInv
  <1>6. ~closed => Ids(queue) = {}
    BY DEF Release, Ids
  <1>7. queue.issued \in Nat
    BY DEF HubInv, GoodQueue, QueueT
  <1>8. HubType'
    BY <1>2 DEF HubInv, HubType
  <1>9. DispatchInv'
    <2>1. Ahead(queue', inFlight'.id)
      BY <1>1, <1>2, <1>7 DEF Ahead, NoEvent
    <2> QED
      BY <1>1, <1>2, <1>5, <2>1 DEF DispatchInv, Dispatching, HubInv
  <1>10. ShutInv'
    BY <1>2 DEF HubInv, ShutInv, Armed
  <1>11. ClosedInv'
    BY <1>1, <1>2, <1>3, <1>5 DEF HubInv, ClosedInv, BatonInv
  <1>12. HandedInv'
    BY <1>1, <1>2, <1>4, <1>6 DEF HubInv, HandedInv, InHand
  <1>13. EmitOrder'
    BY <1>1, <1>2 DEF HubInv, EmitOrder
  <1> QED
    BY <1>1, <1>8, <1>9, <1>10, <1>11, <1>12, <1>13 DEF HubInv

(* Close: nobody drains, so nothing is in hand; all that waits, and what the *)
(* teardown emitted, goes to the file sink.                                  *)
LEMMA HubCloses ==
  ASSUME BatonInv, HubInv, Close
  PROVE  HubInv'
  <1>1. /\ closed' /\ ~closed /\ pc' = [pc EXCEPT ![Main] = "idle"] /\ pc[Main] = "close"
        /\ UNCHANGED <<inFlight, strikes, event, armed, cut>>
    BY DEF Close, Goto, local, HubInv, ClosedInv
  <1>2. PICK q : /\ q = queue \/ (q = Accept(queue, "diagnostic"))
                 /\ passed' = [passed EXCEPT ![File] = @ \cup Ids(q)]
                 /\ queue' = [q EXCEPT !.pending = <<>>]
    BY DEF Close, Ids
  <1>3. GoodQueue(q) /\ Bounded(q) /\ Grown(queue, q)
    <2>1. queue.issued \in Nat /\ GoodQueue(queue) /\ Bounded(queue) /\ "diagnostic" \in Kinds
      BY DEF HubInv, GoodQueue, QueueT, Kinds
    <2>2. Grown(queue, queue)
      BY <2>1 DEF Grown
    <2> QED
      BY <1>2, <2>1, <2>2, AcceptGrows
  <1>4. /\ GoodQueue(queue') /\ Bounded(queue')
        /\ queue'.issued = q.issued /\ queue'.accepted = q.accepted /\ Ids(queue') = {}
    <2>1. q.overflowing \in BOOLEAN
      BY <1>3 DEF GoodQueue, QueueT
    <2>2. queue' = [q EXCEPT !.pending = <<>>, !.overflowing = q.overflowing]
      BY <1>2, <1>3 DEF GoodQueue, QueueT
    <2> QED
      BY <1>3, <2>1, <2>2, EmptyQueue
  <1>5. drainer = NoThread
    BY <1>1 DEF Close, NoOtherDrainer, BatonInv, OneDrainer, Draining, Normal, Flushing
  <1>6. \A u \in Threads : ~Dispatching(u)
    BY <1>5 DEF BatonInv, OneDrainer, Dispatching, Draining, Normal, Flushing
  <1>7. \A u \in Threads : ~Dispatching(u)'
    BY <1>1, <1>6 DEF Dispatching, BatonInv
  <1>8. queue.issued \in Nat /\ q.issued \in Nat /\ 1..queue.issued \subseteq 1..q.issued
        /\ q.accepted \subseteq 1..q.issued /\ Ids(q) \subseteq q.accepted
    BY <1>3 DEF HubInv, GoodQueue, QueueT, Grown
  <1>9. /\ \A s \in Sinks \ {File} : passed'[s] = passed[s]
        /\ passed'[File] = passed[File] \cup Ids(q)
    BY <1>2 DEF HubInv, HubType
  <1>10. HubType'
    <2>1. Ids(q) \subseteq Nat
      BY <1>8
    <2> QED
      BY <1>1, <1>2, <2>1 DEF HubInv, HubType
  <1>11. DispatchInv'
    <2>1. Ahead(queue', inFlight'.id)
      <3>1. inFlight.id \in 0..queue.issued
        BY DEF HubInv, DispatchInv, Ahead
      <3> QED
        BY <1>1, <1>3, <1>4, <1>8, <3>1 DEF Ahead, Grown
    <2>2. ASSUME NEW s \in Sinks PROVE passed'[s] \subseteq 1..queue'.issued
      BY <1>4, <1>8, <1>9 DEF HubInv, DispatchInv
    <2> QED
      BY <1>7, <2>1, <2>2 DEF DispatchInv, Dispatching
  <1>12. ShutInv' /\ HandedInv'
    BY <1>1 DEF ShutInv, HandedInv
  <1>13. ASSUME NEW s \in Sinks, NEW d \in queue.accepted, d \notin cut, d \notin Ids(queue)
         PROVE  d \in passed[s]
    BY <1>1, <1>6, <1>13 DEF HubInv, HandedInv, InHand
  <1>14. q.accepted \subseteq passed'[File] \cup cut
    <2> SUFFICES ASSUME NEW d \in q.accepted, d \notin cut
                 PROVE  d \in passed[File] \cup Ids(q)
      BY <1>9
    <2>1. CASE d \in queue.accepted
      BY <1>3, <1>13, <2>1 DEF Grown
    <2> QED
      BY <1>3, <2>1 DEF Grown
  <1>15. ClosedInv'
    BY <1>1, <1>4, <1>7, <1>14 DEF ClosedInv, BatonInv
  <1>16. EmitOrder'
    <2> SUFFICES ASSUME NEW s \in Sinks, NEW e \in passed'[s],
                        NEW d \in q.accepted, d < e
                 PROVE  d \in passed'[s] \cup cut
      BY <1>1, <1>4 DEF EmitOrder
    <2>1. CASE s = File
      BY <1>14, <2>1
    <2>2. CASE s # File
      <3>1. e \in passed[s] /\ e \in 1..queue.issued
        BY <1>9, <2>2 DEF HubInv, DispatchInv
      <3>2. d \in queue.accepted
        BY <1>3, <1>8, <3>1 DEF Grown
      <3> QED
        BY <1>9, <2>2, <3>1, <3>2 DEF HubInv, EmitOrder
    <2> QED
      BY <2>1, <2>2
  <1> QED
    BY <1>4, <1>10, <1>11, <1>12, <1>15, <1>16 DEF HubInv

-----------------------------------------------------------------------------
\* One strike each: who raised is shut on the last one, and no longer armed.
LEMMA StrikeShuts ==
  ASSUME HubInv, NEW raised \in SUBSET Sinks, Strike(raised), UNCHANGED closed
  PROVE  /\ strikes' \in [Sinks -> Nat] /\ ShutInv'
         /\ Armed' \subseteq Armed /\ Armed \ raised \subseteq Armed'
  <1>1. /\ strikes \in [Sinks -> Nat]
        /\ \A s \in Sinks : strikes'[s] = IF s \in raised THEN strikes[s] + 1 ELSE strikes[s]
    BY DEF HubInv, HubType, Strike
  <1>2. strikes' \in [Sinks -> Nat]
    BY <1>1 DEF Strike
  <1>3. Armed' \subseteq Armed /\ Armed \ raised \subseteq Armed'
    BY <1>1 DEF Armed
  <1>4. ShutInv'
    <2>1. shut' = shut \cup {s \in raised : strikes'[s] = StrikeLimit}
      BY DEF Strike
    <2>2. {s \in raised : strikes'[s] = StrikeLimit} \cap Armed' = {}
      BY DEF Armed
    <2> QED
      BY <1>3, <2>1, <2>2 DEF HubInv, ShutInv
  <1> QED
    BY <1>2, <1>3, <1>4

\* Steps that strike nobody.
LEMMA HubMoves ==
  ASSUME BatonInv, HubInv,
         UNCHANGED queue \/ \E kind \in Kinds : Enqueue(kind),
         UNCHANGED <<inFlight, closed, strikes, shut, event, armed, passed, cut>>,
         \A t \in Threads : Dispatching(t)' => pc'[t] = pc[t],
         \A t \in Threads : Dispatching(t) => pc'[t] = pc[t] \/ armed[t] = {},
         closed => pc'[Main] = "idle"
  PROVE  HubInv'
  <1>1. Armed' = Armed
    BY DEF Armed
  <1>2. strikes' \in [Sinks -> Nat] /\ ShutInv'
    BY <1>1 DEF HubInv, HubType, ShutInv
  <1>3. ASSUME NEW t \in Threads, Dispatching(t)'
        PROVE  pc'[t] = pc[t] /\ armed[t] \subseteq Armed'
    BY <1>1, <1>3 DEF HubInv, DispatchInv, Dispatching
  <1> QED
    BY <1>2, <1>3, HubKept

LEMMA InitHub == Init => HubInv
  <1> SUFFICES ASSUME Init PROVE HubInv
    OBVIOUS
  <1>1. /\ queue = [pending |-> <<>>, overflowing |-> FALSE, issued |-> 0, accepted |-> {}]
        /\ inFlight = NoEvent /\ closed = FALSE /\ shut = {} /\ cut = {}
        /\ strikes = [s \in Sinks |-> 0] /\ passed = [s \in Sinks |-> {}]
        /\ pc = [t \in Threads |-> "idle"] /\ event = [t \in Threads |-> NoEvent]
        /\ armed = [t \in Threads |-> {}]
    BY DEF Init
  <1>2. queue \in QueueT /\ queue.pending = <<>> /\ DOMAIN queue.pending = {}
    BY <1>1, EmptySeq DEF QueueT
  <1>3. Ids(queue) = {} /\ Diagnostics(queue) = {} /\ Ordered(queue)
    BY <1>2 DEF Ids, Diagnostics, Ordered
  <1>4. GoodQueue(queue) /\ Bounded(queue)
    <2>1. Cardinality(Diagnostics(queue)) = 0
      BY <1>3, FS_EmptySet
    <2>2. queue.accepted = {} /\ queue.issued = 0
      BY <1>1
    <2> QED
      BY <1>2, <1>3, <2>1, <2>2 DEF GoodQueue, Bounded
  <1>5. HubType /\ ShutInv /\ ClosedInv /\ HandedInv /\ EmitOrder
    BY <1>1 DEF HubType, ShutInv, ClosedInv, HandedInv, EmitOrder
  <1>6. DispatchInv
    BY <1>1, <1>3 DEF DispatchInv, Dispatching, Ahead, NoEvent
  <1> QED
    BY <1>4, <1>5, <1>6 DEF HubInv

(* Every step keeps the hub's invariant.                                     *)
LEMMA StepHub ==
  ASSUME BatonInv, HubInv, [Next]_vars
  PROVE  HubInv'
  <1> DEFINE MayGrow == UNCHANGED queue \/ \E kind \in Kinds : Enqueue(kind)
  <1>0. /\ pc \in [Threads -> Places]
        /\ closed => pc[Main] = "idle" /\ \A t \in Threads : ~Dispatching(t)
    BY DEF BatonInv, HubInv, ClosedInv
  <1>1. ASSUME NEW t \in Threads, Emit(t) \/ EmitInside(t) \/ Drain(t)
        PROVE  HubInv'
    <2>1. MayGrow
      BY <1>1 DEF Emit, EmitInside, Drain, Kinds
    <2>2. UNCHANGED <<inFlight, closed, strikes, shut, event, armed, passed, cut>>
      BY <1>1 DEF Emit, EmitInside, Drain, local
    <2>3. pc' = pc \/ /\ pc[t] \in {"idle", "queued"}
                      /\ closed => t # Main
                      /\ \E where \in {"idle", "queued", "loop"} : pc' = [pc EXCEPT ![t] = where]
      BY <1>0, <1>1 DEF Emit, EmitInside, Drain, Goto
    <2>4. \A u \in Threads : (Dispatching(u)' \/ Dispatching(u)) => pc'[u] = pc[u]
      BY <1>0, <2>3 DEF Dispatching
    <2>5. closed => pc'[Main] = "idle"
      BY <1>0, <2>3
    <2> QED
      BY <2>1, <2>2, <2>4, <2>5, HubMoves
  <1>2. ASSUME NEW t \in Threads, EndFan(t) \/ EndNotes(t) \/ EndFlush(t)
        PROVE  HubInv'
    <2>1. UNCHANGED <<queue, inFlight, closed, strikes, shut, event, armed, passed, cut>>
      BY <1>2 DEF EndFan, EndNotes, EndFlush, local
    <2>2. /\ pc[t] \in Handling /\ (Dispatching(t) => armed[t] = {})
          /\ \E where \in {"loop", "floop", "notes", "fnotes"} : pc' = [pc EXCEPT ![t] = where]
      BY <1>2 DEF EndFan, EndNotes, EndFlush, Goto, Notes, Loop, Handling, Dispatching
    <2>3. \A u \in Threads : /\ Dispatching(u)' => pc'[u] = pc[u]
                             /\ Dispatching(u) => pc'[u] = pc[u] \/ armed[u] = {}
      BY <1>0, <2>2 DEF Dispatching
    <2>4. closed => pc'[Main] = "idle"
      BY <1>0, <2>2 DEF Handling
    <2> QED
      BY <2>1, <2>3, <2>4, HubMoves
  <1>3. ASSUME NEW t \in Threads, Handle(t)
        PROVE  HubInv'
    <2>1. PICK s \in armed[t] :
            /\ armed' = [armed EXCEPT ![t] = @ \ {s}]
            /\ passed' = [passed EXCEPT ![s] = @ \cup {event[t].id}]
            /\ \/ UNCHANGED <<failed, strikes, shut, raises>>
               \/ Strike({s}) /\ failed' = [failed EXCEPT ![t] = @ \cup {s}]
      BY <1>3 DEF Handle
    <2>2. /\ Dispatching(t) /\ armed[t] \subseteq Armed /\ s \in Sinks
          /\ UNCHANGED <<queue, inFlight, closed, pc, event, cut>>
      BY <1>3 DEF Handle, Dispatching, HubInv, DispatchInv, HubType
    <2>3. strikes' \in [Sinks -> Nat] /\ ShutInv' /\ armed[t] \ {s} \subseteq Armed'
      <3>1. CASE UNCHANGED <<failed, strikes, shut, raises>>
        BY <2>2, <3>1 DEF HubInv, HubType, ShutInv, Armed
      <3>2. CASE Strike({s})
        BY <2>2, <3>2, StrikeShuts
      <3> QED
        BY <2>1, <3>1, <3>2
    <2> QED
      BY <2>1, <2>2, <2>3, HubHands
  <1>4. ASSUME NEW t \in Threads, Note(t)
        PROVE  HubInv'
    <2>1. UNCHANGED <<queue, inFlight, closed, pc, event, armed, passed, cut>>
      BY <1>4 DEF Note
    <2>2. PICK raised \in SUBSET Sinks : Strike(raised)
      BY <1>4 DEF Note, Armed
    <2>3. strikes' \in [Sinks -> Nat] /\ ShutInv'
      BY <2>1, <2>2, StrikeShuts
    <2>4. \A u \in Threads : ~Dispatching(u)
      BY <1>4, OneDispatches DEF Note, Dispatching, Draining, Normal, Flushing
    <2>5. \A u \in Threads : ~Dispatching(u)'
      BY <2>1, <2>4 DEF Dispatching
    <2> QED
      BY <1>0, <2>1, <2>3, <2>4, <2>5, HubKept
  <1>5. CASE InterruptFlush
    <2>1. PICK s \in armed[Main] :
            /\ armed' = [armed EXCEPT ![Main] = @ \ {s}]
            /\ passed' = [passed EXCEPT ![s] = @ \cup {event[Main].id}]
      BY <1>5 DEF InterruptFlush
    <2>2. MayGrow
      BY <1>5 DEF InterruptFlush, Announce, Kinds
    <2>3. /\ Dispatching(Main)
          /\ UNCHANGED <<inFlight, closed, strikes, shut, pc, event, cut>>
      BY <1>5 DEF InterruptFlush, Dispatching
    <2>4. strikes' \in [Sinks -> Nat] /\ ShutInv' /\ armed[Main] \ {s} \subseteq Armed'
      BY <2>3 DEF HubInv, HubType, ShutInv, Armed, DispatchInv
    <2> QED
      BY <2>1, <2>2, <2>3, <2>4, HubHands
  <1>6. CASE InterruptWaiting
    <2>1. MayGrow
      BY <1>6 DEF InterruptWaiting, Kinds
    <2>2. UNCHANGED <<inFlight, closed, strikes, shut, event, armed, passed, cut>>
      BY <1>6 DEF InterruptWaiting, local
    <2>3. /\ pc[Main] \in {"queued"} \cup Lifecycle
          /\ \E where \in {"idle", "queued"} : pc' = [pc EXCEPT ![Main] = where]
      BY <1>6 DEF InterruptWaiting, Goto
    <2>4. ~closed
      BY <1>0, <2>3 DEF Lifecycle
    <2>5. \A u \in Threads : (Dispatching(u)' \/ Dispatching(u)) => pc'[u] = pc[u]
      BY <1>0, <2>3 DEF Dispatching, Lifecycle
    <2> QED
      BY <2>1, <2>2, <2>4, <2>5, HubMoves
  <1>7. CASE Call
    <2>1. UNCHANGED <<queue, inFlight, closed, strikes, shut, event, armed, passed, cut>>
      BY <1>7 DEF Call, local
    <2>2. /\ pc[Main] = "idle" /\ ~closed
          /\ \E where \in Lifecycle : pc' = [pc EXCEPT ![Main] = where]
      BY <1>7 DEF Call, Goto
    <2>3. \A u \in Threads : (Dispatching(u)' \/ Dispatching(u)) => pc'[u] = pc[u]
      BY <1>0, <2>2 DEF Dispatching, Lifecycle
    <2> QED
      BY <2>1, <2>2, <2>3, HubMoves
  <1>8. CASE SetLevel \/ BeginCycle
    <2>1. MayGrow
      BY <1>8 DEF SetLevel, BeginCycle, Kinds
    <2>2. /\ UNCHANGED <<inFlight, closed, event, armed, passed, cut>>
          /\ pc[Main] \in Lifecycle /\ pc' = [pc EXCEPT ![Main] = "queued"]
          /\ NoOtherDrainer
      BY <1>8 DEF SetLevel, BeginCycle, Goto, local, Lifecycle
    <2>3. ~closed
      BY <1>0, <2>2 DEF Lifecycle
    <2>4. drainer = NoThread
      BY <2>2 DEF NoOtherDrainer, BatonInv, OneDrainer, Draining, Normal, Flushing, Lifecycle
    <2>5. \A u \in Threads : ~Dispatching(u)
      BY <2>4 DEF BatonInv, OneDrainer, Dispatching, Draining, Normal, Flushing
    <2>6. \A u \in Threads : ~Dispatching(u)'
      BY <1>0, <2>2, <2>5 DEF Dispatching
    <2>7. strikes' \in [Sinks -> Nat] /\ ShutInv'
      <3>1. CASE SetLevel
        BY <2>2, <3>1, StrikeShuts DEF SetLevel
      <3>2. CASE BeginCycle
        <4>1. PICK noted \in SUBSET Sinks, turned \in SUBSET Sinks, levelled \in SUBSET Sinks :
                strikes' = [s \in Sinks |-> Cardinality({set \in {1, 2, 3} :
                              s \in <<noted, turned, levelled>>[set]})]
          BY <3>2 DEF BeginCycle
        <4>2. ASSUME NEW S \in SUBSET {1, 2, 3}
              PROVE  Cardinality(S) \in Nat
          <5>1. IsFiniteSet({1, 2, 3})
            <6>1. IsFiniteSet({1} \cup {2})
              BY FS_Singleton, FS_AddElement
            <6>2. IsFiniteSet(({1} \cup {2}) \cup {3})
              BY <6>1, FS_AddElement
            <6>3. {1, 2, 3} = ({1} \cup {2}) \cup {3}
              OBVIOUS
            <6> QED
              BY <6>2, <6>3
          <5>2. IsFiniteSet(S)
            BY <5>1, FS_Subset
          <5> QED
            BY <5>2, FS_CardinalityType
        <4>3. strikes' \in [Sinks -> Nat]
          BY <4>1, <4>2
        <4>4. shut' = Sinks \ Armed'
          BY <3>2 DEF BeginCycle
        <4> QED
          BY <4>3, <4>4 DEF ShutInv
      <3> QED
        BY <1>8, <3>1, <3>2
    <2> QED
      BY <2>1, <2>2, <2>3, <2>5, <2>6, <2>7, HubKept
  <1>9. CASE UNCHANGED vars
    BY <1>0, <1>9, HubMoves DEF vars, local
  <1> QED
    BY <1>1, <1>2, <1>3, <1>4, <1>5, <1>6, <1>7, <1>8, <1>9,
       HubReleases, HubPops, HubInterruptDrain, HubInterruptTail, HubCloses
    DEF Next, Step, Interrupt, Body

THEOREM HubInvariance == Spec => [](BatonInv /\ HubInv)
  <1>1. Init => BatonInv /\ HubInv
    BY InitBaton, InitHub
  <1>2. (BatonInv /\ HubInv) /\ [Next]_vars => (BatonInv /\ HubInv)'
    BY StepBaton, StepHub
  <1> QED
    BY <1>1, <1>2, PTL DEF Spec

(* Every accepted event waits, is in flight, was cut by a repeat interrupt,  *)
(* or reached every armed renderer, in emit order; diagnostics never pass    *)
(* the cap by more than the note; and no closed renderer is handed anything. *)
THEOREM EveryEventInOrder == Spec => []DeliveredInOrder
  <1>1. ASSUME BatonInv, HubInv
        PROVE  DeliveredInOrder
    <2>1. NothingLost
      <3> SUFFICES ASSUME NEW e \in queue.accepted, e \notin Waiting, e \notin cut,
                          e # inFlight.id,
                          \A t \in Threads : ~(pc[t] = "flush" /\ event[t].id = e)
                   PROVE  IF closed THEN e \in passed[File] ELSE \A s \in Sinks : e \in passed[s]
        BY DEF NothingLost
      <3>1. CASE closed
        BY <1>1, <3>1 DEF HubInv, ClosedInv
      <3>2. ASSUME ~closed, NEW s \in Sinks
            PROVE  e \in passed[s]
        <4>1. e \in passed[s] \/ \E t \in Threads : InHand(t, s, e)
          BY <1>1, <3>2 DEF HubInv, HandedInv, Waiting, Ids
        <4>2. \A t \in Threads : ~InHand(t, s, e)
          BY <1>1 DEF HubInv, DispatchInv, InHand, Dispatching
        <4> QED
          BY <4>1, <4>2
      <3> QED
        BY <3>1, <3>2
    <2>2. DiagnosticsBounded
      BY <1>1 DEF HubInv, Bounded, Diagnostics, DiagnosticsBounded
    <2>3. ClosedStayQuiet
      BY <1>1 DEF HubInv, ClosedInv, ShutInv, DispatchInv, ClosedStayQuiet, Dispatching
    <2> QED
      BY <1>1, <2>1, <2>2, <2>3 DEF HubInv, DeliveredInOrder
  <1>2. BatonInv /\ HubInv => DeliveredInOrder
    BY <1>1
  <1> QED
    BY <1>2, HubInvariance, PTL
=============================================================================
