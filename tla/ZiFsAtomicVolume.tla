-------------------------- MODULE ZiFsAtomicVolume --------------------------
(***************************************************************************)
(* What a journaled ZiFS volume promises: its content changes only by whole *)
(* transactions, a transaction that has taken effect is never lost, and a   *)
(* mounted volume shows exactly the content.                                *)
(***************************************************************************)
EXTENDS Naturals

CONSTANTS Blocks, Values

VARIABLES
    content,   \* the durable content of every block
    view,      \* what a mounted, usable volume shows; NoView otherwise
    staged     \* the images of a transaction being committed, or none

avars == <<content, view, staged>>

NoView == [b \in {} |-> 0]
None   == [b \in {} |-> 0]

Images == UNION {[targets -> Values] : targets \in SUBSET Blocks \ {{}}}

Overlay(base, images) ==
    [b \in Blocks |-> IF b \in DOMAIN images THEN images[b] ELSE base[b]]

AInit == content = [b \in Blocks |-> 0] /\ view = NoView /\ staged = None

\* A caller hands a transaction to the mounted volume.
Submit == view = content /\ staged = None /\ staged' \in Images /\ view' = NoView /\ UNCHANGED content

\* It takes effect, all of it; the machine may stop in the same instant.
Apply == staged # None /\ content' = Overlay(content, staged) /\ staged' = None /\ UNCHANGED view

\* It is given up, all of it.
Abandon == staged # None /\ staged' = None /\ UNCHANGED <<content, view>>

Open  == view = NoView /\ staged = None /\ view' = content /\ UNCHANGED <<content, staged>>
Close == view # NoView /\ view' = NoView /\ UNCHANGED <<content, staged>>

ANext == Submit \/ Apply \/ Abandon \/ Open \/ Close

ASpec == AInit /\ [][ANext]_avars
=============================================================================
