---------------------------- MODULE SlotRegister ----------------------------
(* What a firmware slot promises: it holds nothing or the whole of one image *)
(* that a writer announced.  An image never changes; it gives way to nothing *)
(* before the next one appears, and it appears at once.                      *)
CONSTANTS
    Announced,      \* the images that are ever announced
    Nothing         \* what an empty slot holds, no image

VARIABLE held

RegisterInit == held \in Announced \cup {Nothing}

Clear == held' = Nothing

Publish == held = Nothing /\ held' \in Announced

RegisterSpec == RegisterInit /\ [][Clear \/ Publish]_held
=============================================================================
