---------------------------- MODULE MCZiFsJournal ----------------------------
(* One workspace through power losses and damaged copies, on volumes with and *)
(* without the clean-unmount feature; two workspaces with a fault or a warm    *)
(* restart; and two that outdate each other's transactions.                    *)
EXTENDS ZiFsJournal

Crashing(clean) == [clean |-> clean, warm |-> FALSE, workspaces |-> {1},
                    stamps |-> 2, faults |-> 2, damage |-> 1]
Restarting == [clean |-> TRUE, warm |-> TRUE, workspaces |-> {1, 2},
               stamps |-> 2, faults |-> 1, damage |-> 0]
Outdating  == [Restarting EXCEPT !.stamps = 3, !.faults = 0]

MCReuse    == {[Crashing(TRUE) EXCEPT !.damage = 0]}
MCSettings == {Crashing(TRUE), Crashing(FALSE), Restarting, Outdating}
=============================================================================
