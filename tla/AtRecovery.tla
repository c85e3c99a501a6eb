----------------------------- MODULE AtRecovery -----------------------------
(* Inc/AT/AtChannelRecovery.h: a channel whose answers can no longer be told *)
(* apart is taken out of service, the module is restarted, and two probes    *)
(* show that it answers.  The clock is left out: what waits may time out.    *)
VARIABLE recovery       \* AtRecoveryState

RecoveryStates == {"idle", "wait_mode", "reset_due", "wait_ready", "probe_due",
                   "wait_probe", "echo_due", "wait_echo", "complete"}

RecoveryInit == recovery = "idle"

(* AtChannelRecovery_Next: the command that is due in a state.              *)
Due == [reset_due |-> "reset", probe_due |-> "probe", echo_due |-> "echo"]

(* What is waited for after it was sent.                                    *)
Awaited == [reset |-> "wait_ready", probe |-> "wait_probe", echo |-> "wait_echo"]

Quarantine(commandModeKnown) ==
    recovery' = IF commandModeKnown THEN "reset_due" ELSE "wait_mode"

Sent(command) == recovery' = Awaited[command]

ModuleReady == recovery' = "probe_due"

BodyFinished == recovery = "wait_mode" /\ recovery' = "reset_due"

WaitingResult == recovery \in {"wait_probe", "wait_echo"}

(* Mutant: the answer to the probe makes the probe due again.               *)
ResultProbesAgain(ok) ==
    recovery' = IF ~WaitingResult THEN recovery
                ELSE IF ~ok THEN "reset_due"
                ELSE IF recovery = "wait_probe" THEN "probe_due" ELSE "complete"

RecoveryResult(ok) ==
    recovery' = IF ~WaitingResult THEN recovery
                ELSE IF ~ok THEN "reset_due"
                ELSE IF recovery = "wait_probe" THEN "echo_due" ELSE "complete"

RecoveryTimeout == (recovery = "wait_ready" \/ WaitingResult) /\ recovery' = "reset_due"

TakeComplete == recovery = "complete" /\ recovery' = "idle"
=============================================================================
