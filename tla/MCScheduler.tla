----------------------------- MODULE MCScheduler -----------------------------
(* Three threads on one processor: two equals and one that may not run here. *)
EXTENDS Scheduler, TLC

CONSTANTS a, b, far

MCBase == (a :> 1) @@ (b :> 1) @@ (far :> 2)
=============================================================================
