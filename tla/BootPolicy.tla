----------------------------- MODULE BootPolicy -----------------------------
(***************************************************************************)
(* The boot decision of Src/Bootloader/bootloader_policy.c as a pure       *)
(* function of the persisted upgrade state, the reset cause and the        *)
(* validity of the application vectors.                                    *)
(*                                                                         *)
(* The four counters of the persisted payload that the decision reads are  *)
(* kept; versions, lengths, CRCs and last_error never influence it.        *)
(***************************************************************************)
EXTENDS Naturals

CONSTANTS
  MaxTrial,    \* max_trial_boots (the caller replaces 0 by the default 3)
  MaxPhase,    \* max_phase_attempts (default 3)
  MaxStorm,    \* max_watchdog_storm (default 8)
  CounterMax   \* the saturation point of the uint32_t counters, 2^32 - 1

ASSUME LimitsAssumption ==
  /\ CounterMax \in Nat
  /\ MaxTrial \in 1..CounterMax
  /\ MaxPhase \in 1..CounterMax
  /\ MaxStorm \in 1..CounterMax

Counter == 0..CounterMax

(* UpgradeState of Inc/Flash/storage_upgrade.h. *)
UpgradeState ==
  {"IDLE", "DOWNLOADING", "CANDIDATE_VALID", "BACKUP_VALID", "INSTALLING",
   "TRIAL_BOOT", "CONFIRMED", "ROLLBACK_PENDING", "ROLLING_BACK",
   "ROLLED_BACK", "FAILED"}

(* The part of UpgradeStatePayload that decides a boot. *)
Payload == [state : UpgradeState, trial : Counter, wd : Counter, att : Counter]

(* The payload of an empty upgrade log. *)
IdlePayload == [state |-> "IDLE", trial |-> 0, wd |-> 0, att |-> 0]

BootAction == {"JUMP", "INSTALL", "ROLLBACK", "HOLD"}

ResetFlag == {"IWDG", "PIN", "POR", "SFT"}

(* What BootloaderPolicy_Decide hands back: the payload to persist, whether *)
(* it must be persisted, and the action to take.                            *)
Decision == [payload : Payload, persist : BOOLEAN, action : BootAction]

-----------------------------------------------------------------------------

(* Mutant: the counter is incremented past its width.                      *)
PlainInc(v) == v + 1

SaturatingInc(v) == IF v = CounterMax THEN v ELSE v + 1

(* ApplyResetAccounting: PINRSTF accompanies every other cause, so the      *)
(* flags are inspected in the order POR, IWDG, PIN-without-SFT.             *)
AccountedWd(p, flags) ==
  CASE "POR" \in flags                       -> 0
    [] "POR" \notin flags /\ "IWDG" \in flags -> SaturatingInc(p.wd)
    [] flags \cap {"POR", "IWDG"} = {} /\ "PIN" \in flags /\ "SFT" \notin flags
                                             -> 0
    [] OTHER                                 -> p.wd

(* The accounting alone asks for a write when it changed the counter, and   *)
(* on every watchdog reset even when the counter is saturated.              *)
AccountingPersists(p, flags) ==
  \/ AccountedWd(p, flags) # p.wd
  \/ "IWDG" \in flags /\ "POR" \notin flags

InstallPhase  == {"INSTALLING", "CANDIDATE_VALID", "BACKUP_VALID"}
RollbackPhase == {"ROLLBACK_PENDING", "ROLLING_BACK"}

StartRollback(q) ==
  [payload |-> [q EXCEPT !.state = "ROLLBACK_PENDING", !.att = 0],
   persist |-> TRUE, action |-> "ROLLBACK"]

(* Mutant: one attempt too many.                                           *)
DecideInstallOffByOne(q) ==
  IF q.att > MaxPhase
  THEN StartRollback(q)
  ELSE [payload |-> [q EXCEPT !.state = "INSTALLING", !.att = SaturatingInc(@)],
        persist |-> TRUE, action |-> "INSTALL"]

(* An install that still has attempts left counts one; else roll back.      *)
DecideInstall(q) ==
  IF q.att >= MaxPhase
  THEN StartRollback(q)
  ELSE [payload |-> [q EXCEPT !.state = "INSTALLING", !.att = SaturatingInc(@)],
        persist |-> TRUE, action |-> "INSTALL"]

(* Mutant: trial boots are not counted.                                    *)
DecideTrialUncounted(q, appValid) ==
  IF q.trial >= MaxTrial \/ ~appValid
  THEN StartRollback(q)
  ELSE [payload |-> q, persist |-> FALSE, action |-> "JUMP"]

(* A trial boot is counted before the jump; too many, or an application     *)
(* whose vectors are not plausible, roll back.                              *)
DecideTrial(q, appValid) ==
  IF q.trial >= MaxTrial \/ ~appValid
  THEN StartRollback(q)
  ELSE [payload |-> [q EXCEPT !.trial = SaturatingInc(@)],
        persist |-> TRUE, action |-> "JUMP"]

(* A rollback out of attempts keeps its marker and holds for ever.          *)
DecideRollback(q) ==
  IF q.att >= MaxPhase
  THEN [payload |-> [q EXCEPT !.state = "ROLLING_BACK"],
        persist |-> TRUE, action |-> "HOLD"]
  ELSE [payload |-> [q EXCEPT !.state = "ROLLING_BACK", !.att = SaturatingInc(@)],
        persist |-> TRUE, action |-> "ROLLBACK"]

(* Every other state: a watchdog storm rolls back, else jump or hold.       *)
DecideSettled(q, flags, acc, appValid) ==
  IF "IWDG" \in flags /\ q.wd >= MaxStorm
  THEN StartRollback(q)
  ELSE [payload |-> q, persist |-> acc,
        action  |-> IF appValid THEN "JUMP" ELSE "HOLD"]

(* BootloaderPolicy_Decide. *)
Decide(p, flags, appValid) ==
  LET q   == [p EXCEPT !.wd = AccountedWd(p, flags)]
      acc == AccountingPersists(p, flags)
  IN  CASE p.state \in InstallPhase  -> DecideInstall(q)
        [] p.state = "TRIAL_BOOT"    -> DecideTrial(q, appValid)
        [] p.state \in RollbackPhase -> DecideRollback(q)
        [] OTHER                     -> DecideSettled(q, flags, acc, appValid)

=============================================================================
