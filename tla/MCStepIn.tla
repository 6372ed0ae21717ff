------------------------------ MODULE MCStepIn ------------------------------
(* Two files and two episodes: both mapped, or one of them, or neither.      *)
EXTENDS StepIn, TLC

CONSTANTS f1, f2, e1, e2

Apart  == f1 :> {e1} @@ f2 :> {e2}
Double == f1 :> {e1, e2} @@ f2 :> {}

MCRecords ==
  {[role |-> f1 :> "mapped" @@ f2 :> "mapped", eps |-> Apart],
   [role |-> f1 :> "mapped" @@ f2 :> "hand", eps |-> Double],
   [role |-> f1 :> "hand" @@ f2 :> "other", eps |-> Double]}
=============================================================================
