---------------------------- MODULE AtomicStore ----------------------------
(***************************************************************************)
(* What the cache store promises the rest of Pearlarr (README: "an         *)
(* interrupted run never corrupts state"): writes are staged, a save makes *)
(* exactly the staged state durable, and everything else forgets them.     *)
(***************************************************************************)
EXTENDS Naturals

CONSTANT MaxWrites   \* bound on the writes

VARIABLES
  durable,  \* the stored state, as a number of writes; 0 is a fresh store
  staged    \* the state the open connection sees, Closed when there is none

Closed == MaxWrites + 1

Init == durable \in 0..MaxWrites /\ staged = Closed

Open    == staged = Closed /\ staged' = durable /\ UNCHANGED durable
Write   == staged < MaxWrites /\ staged' = staged + 1 /\ UNCHANGED durable
Save    == staged # Closed /\ durable' = staged /\ UNCHANGED staged
Abandon == staged' = Closed /\ UNCHANGED durable

\* The file is deleted or destroyed from outside.
Destroy == staged = Closed /\ durable' = 0 /\ UNCHANGED staged

Next == Open \/ Write \/ Save \/ Abandon \/ Destroy

Spec == Init /\ [][Next]_<<durable, staged>>
=============================================================================
