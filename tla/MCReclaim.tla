----------------------------- MODULE MCReclaim -----------------------------
(* The destructor's steps, shown to amount to the one step of Paging.tla. *)
EXTENDS Reclaim

VARIABLE began   \* the memory as it was when no destructor was in progress

InitBegan == InitReclaim /\ began = mem

NextBegan == NextReclaim /\ began' = IF rec' = Idle THEN mem' ELSE began

SpecBegan == InitBegan /\ [][NextBegan]_<<allvars, began>>

Atomic == INSTANCE Paging WITH mem <- began

\* Left alone, the loop of ReclaimPageDirRegion and the release of the slot do
\* what Paging.tla says in one step, with the counts, the bitmap and the other
\* page directories exactly as there.
ReclaimIsAtomic == Atomic!Spec
=============================================================================
