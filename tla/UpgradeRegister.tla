-------------------------- MODULE UpgradeRegister --------------------------
(***************************************************************************)
(* What the upgrade log promises: a register.  Its value is what the next  *)
(* StorageUpgrade_Init would load.  An append in progress may replace the  *)
(* value at any moment until it returns, or not at all if it fails or the  *)
(* power is cut; nothing else ever changes the value.                      *)
(*                                                                         *)
(* The promise has one hole.  An append that reported an error may have    *)
(* reached the Flash under a sequence number the log then uses again; the  *)
(* value stays "shadowed" by it when the next append is acknowledged.      *)
(* What an append answers is not part of the register.                     *)
(***************************************************************************)
CONSTANT Content    \* payloads, and the answer of an empty log

VARIABLES
  value,      \* what the next Init would load
  pending,    \* {} or the payload being appended
  shadowed    \* the next acknowledged append may be lost

vars == <<value, pending, shadowed>>

Init ==
  /\ value \in Content
  /\ pending = {}
  /\ shadowed = FALSE

(* An append is called.                                                    *)
Begin ==
  /\ pending = {}
  /\ \E p \in pending' : p \in Content /\ pending' = {p}
  /\ UNCHANGED <<value, shadowed>>

(* Its payload reaches the Flash, its sequence number is not yet used up.  *)
Take ==
  /\ UNCHANGED pending
  /\ value' \in pending
  /\ shadowed' = TRUE

(* Its sequence number is used up (a finished compaction).                 *)
Settle ==
  /\ UNCHANGED pending
  /\ value \in pending
  /\ shadowed' = FALSE
  /\ UNCHANGED value

Acknowledge ==
  /\ pending # {}
  /\ pending' = {}
  /\ \/ value' \in pending
     \/ shadowed /\ value' = value
  /\ shadowed' = FALSE

Refuse ==
  /\ pending # {}
  /\ pending' = {}
  /\ \/ UNCHANGED <<value, shadowed>>
     \/ value' \in pending /\ shadowed' = TRUE

(* Power cut, or the log is initialised again.                             *)
Restart ==
  /\ pending' = {}
  /\ value' \in {value} \cup pending
  /\ shadowed' = FALSE

(* A whole append of the application seen as one step.                     *)
Write ==
  /\ pending = {}
  /\ UNCHANGED <<pending, shadowed>>
  /\ value' \in Content

Next ==
  Begin \/ Take \/ Settle \/ Acknowledge \/ Refuse \/ Restart \/ Write

Spec == Init /\ [][Next]_vars

=============================================================================
