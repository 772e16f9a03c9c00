-------------------------------- MODULE MCIpc --------------------------------
(* Pairs and threads are interchangeable. *)
EXTENDS Ipc, TLC

Symmetry == Permutations(Pairs) \cup Permutations(Threads)
=============================================================================
