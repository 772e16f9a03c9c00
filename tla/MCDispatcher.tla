---------------------------- MODULE MCDispatcher ----------------------------
(* Three threads of different priority, the highest one realtime. *)
EXTENDS Dispatcher, TLC

CONSTANTS lo, mid, rt, x, y, z

MCBase == (lo :> 0) @@ (mid :> 1) @@ (rt :> 3)

\* A mutex with two events, and a semaphore with a timer and an event.
MutexKinds == (x :> "mutex") @@ (y :> "event") @@ (z :> "notification")
TimerKinds == (x :> "semaphore") @@ (y :> "timer") @@ (z :> "notification")

MCKinds == {MutexKinds, TimerKinds}

MCLists == {<<x>>, <<x, y>>, <<y, z>>}
=============================================================================
