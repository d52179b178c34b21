----------------------------- MODULE AtomicStore -----------------------------
(***************************************************************************)
(* What the factory store promises its callers.  An archive is edited in   *)
(* RAM (want); a save makes it, in a single step, what the next boot will  *)
(* find (visible), and succeeds only when the next boot will find it.  A   *)
(* save that fails may have taken effect or not: until a later save        *)
(* succeeds the next boot finds the archive of the last successful save    *)
(* (good) or one that a failed save left.  A power failure loses want and  *)
(* nothing else.                                                           *)
(***************************************************************************)
CONSTANTS
    Archive,   \* the archives
    Empty      \* the archive of a device that was never written

VARIABLES
    want,      \* the archive in RAM
    visible,   \* the archive that the next boot will find
    good,      \* the archive of the last successful save, or of the last boot
    saving     \* a save is in progress

vars == <<want, visible, good, saving>>

Init == want = Empty /\ visible = Empty /\ good = Empty /\ saving = FALSE

Edit ==
    /\ ~saving
    /\ want' \in Archive
    /\ UNCHANGED <<visible, good, saving>>

Begin ==
    /\ ~saving
    /\ saving' = TRUE
    /\ UNCHANGED <<want, visible, good>>

\* The save takes effect.
Land ==
    /\ saving
    /\ visible' = want
    /\ UNCHANGED <<want, good, saving>>

\* What an earlier, failed save left is discarded; the save itself may fail
\* at the same time.
Discard ==
    /\ saving
    /\ visible' = good
    /\ saving' \in BOOLEAN
    /\ UNCHANGED <<want, good>>

Succeed ==
    /\ saving
    /\ visible = want
    /\ good' = want
    /\ saving' = FALSE
    /\ UNCHANGED <<want, visible>>

Fail ==
    /\ saving
    /\ saving' = FALSE
    /\ UNCHANGED <<want, visible, good>>

\* The power fails, and comes back later.
PowerLoss ==
    /\ want' = Empty
    /\ good' = visible
    /\ saving' = FALSE
    /\ UNCHANGED visible

Boot ==
    /\ ~saving
    /\ want' = visible
    /\ good' = visible
    /\ UNCHANGED <<visible, saving>>

Next == Edit \/ Begin \/ Land \/ Discard \/ Succeed \/ Fail \/ PowerLoss \/ Boot

Spec == Init /\ [][Next]_vars
=============================================================================
