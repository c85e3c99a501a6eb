-------------------------- MODULE BootloaderProofs --------------------------
(***************************************************************************)
(* Machine-checked proofs about Bootloader and BootHistory, for any set of *)
(* images, any limits, any counter width, with or without storage and      *)
(* Flash faults (TrialsCounted without storage faults, as it says).        *)
(*                                                                         *)
(* The argument: whatever destroys the application runs between a durable  *)
(* marker (INSTALLING, ROLLING_BACK, ...) and the completion of InstallSlot*)
(* (Marked), the boot code never writes an unmarked state over an          *)
(* application that is not whole (Unmarking), and the vectors are          *)
(* programmed last, over a body that is the source's (Copying).            *)
(*                                                                         *)
(* On top of IInv: an unmarked application is bootable and the first erase *)
(* of a boot that trusted it finds its copy (BackupInv); what BootHistory  *)
(* counts never runs ahead of what the newest payload counted (HistoryInv, *)
(* TrialInv), though a reset may fall between counting and doing.          *)
(***************************************************************************)
EXTENDS BootHistory, TLAPS

(* Before the first erase of a boot that trusted the application.          *)
PrepareLocs == {"persistPolicy", "checkCandidate", "persistNoCandidate",
               "ensureBackup", "backupErase", "backupCopy", "backupDone",
               "backupFailed", "persistNoBackup", "persistBackup",
               "markInstalling", "persistInstalling"}

(* From the persisted decision to install or roll back up to the end of it.*)
MarkedLocs == {"checkCandidate", "ensureBackup", "backupErase", "backupCopy",
              "backupDone", "backupFailed", "persistBackup", "markInstalling",
              "persistInstalling", "installFailed", "persistInstallFailed",
              "checkRollback", "persistRolling", "persistRollbackFailed"}
              \cup InstallPC

(* The marker is durable while a step may leave the application torn.      *)
Marked ==
  /\ IncompleteIsMarked
  /\ pc \in MarkedLocs => meta.state \in PartialStates
  /\ pc \in {"reset", "persistPolicy"} => ~shadow
  /\ pc = "persistPolicy" /\ action \in {"INSTALL", "ROLLBACK"}
       => ram.state \in PartialStates

(* Only a whole application is ever recorded under an unmarked state.      *)
Unmarking ==
  /\ pc \in {"persistBackup", "persistInstalling", "persistInstallFailed",
            "persistRolling", "persistRollbackFailed"}
       => ram.state \in PartialStates
  /\ pc \in PersistPC /\ ram.state \notin PartialStates => Complete(app)
  /\ pc \in InstallPC \cup {"installFailed"} /\ src = "rb"
       => ram.state \in PartialStates

(* What the control point says about the application.                      *)
Trusting ==
  /\ pc \in PrepareLocs /\ ~partial => Complete(app)
  /\ pc \in {"backupErase", "backupCopy", "backupDone", "backupFailed",
            "persistNoBackup", "jump", "run", "installed", "persistTrial",
            "persistRolledBack"} => Complete(app)
  /\ pc = "persistPolicy" /\ action = "JUMP" => Complete(app)
  /\ pc = "run" => IsAppValid(app)

(* InstallSlot between the erase and the vectors.                          *)
Copying ==
  /\ pc \in {"installErasing", "installCopy", "installVectors"}
       => SlotIsValid(Source)
  /\ pc = "installVectors" => app.body = Source.body

(* What is durable, and what may be shadowed, on the way to an erase.      *)
Intent ==
  /\ pc \in InstallPC \cup {"installFailed", "persistInstallFailed"}
       => meta.state \in {"INSTALLING", "ROLLING_BACK"}
  /\ shadow => \/ meta.state \in {"INSTALLING", "ROLLING_BACK"}
               \/ pc \in {"hold", "jump", "run"}
  /\ pc \in {"persistInstalling", "persistInstallFailed"}
       => ram.state = "INSTALLING"
  /\ pc = "persistRolling" => ram.state = "ROLLING_BACK"

IInv ==
  /\ TypeOK
  /\ SlotsHoldWholeImages
  /\ Marked
  /\ Unmarking
  /\ Trusting
  /\ Copying
  /\ Intent
  /\ SomethingToInstall

-----------------------------------------------------------------------------
(* The decision *)

LEMMA IncType == \A v \in Counter : SaturatingInc(v) \in Counter
BY LimitsAssumption DEF SaturatingInc, Counter

(* Each branch of the decision answers a typed payload.                    *)
LEMMA BranchTypes ==
  ASSUME NEW q \in Payload, NEW flags, NEW acc \in BOOLEAN, NEW valid \in BOOLEAN
  PROVE  /\ StartRollback(q) \in Decision
         /\ DecideInstall(q) \in Decision
         /\ DecideRollback(q) \in Decision
         /\ DecideTrial(q, valid) \in Decision
         /\ DecideSettled(q, flags, acc, valid) \in Decision
<1> USE LimitsAssumption DEF Payload, Decision, UpgradeState, BootAction
<1>0. 0 \in Counter /\ SaturatingInc(q.att) \in Counter
      /\ SaturatingInc(q.trial) \in Counter
  BY IncType DEF Counter
<1>1. StartRollback(q) \in Decision
  BY <1>0 DEF StartRollback
<1>2. DecideInstall(q) \in Decision
  BY <1>0, <1>1 DEF DecideInstall
<1>3. DecideRollback(q) \in Decision
  BY <1>0 DEF DecideRollback
<1>4. DecideTrial(q, valid) \in Decision
  BY <1>0, <1>1 DEF DecideTrial
<1>5. DecideSettled(q, flags, acc, valid) \in Decision
  BY <1>1 DEF DecideSettled
<1> QED
  BY <1>1, <1>2, <1>3, <1>4, <1>5

(* What Decide answers stays within the payload's types.                   *)
LEMMA DecideType ==
  ASSUME NEW p \in Payload, NEW flags, NEW valid \in BOOLEAN
  PROVE  Decide(p, flags, valid) \in Decision
<1>1. AccountedWd(p, flags) \in Counter
  BY IncType, LimitsAssumption DEF AccountedWd, Counter, Payload
<1>2. AccountingPersists(p, flags) \in BOOLEAN
  BY DEF AccountingPersists
<1>3. [p EXCEPT !.wd = AccountedWd(p, flags)] \in Payload
  BY <1>1 DEF Payload
<1> QED
  BY <1>2, <1>3, BranchTypes DEF Decide

(* A destructive decision is marked and must be persisted; a decision to   *)
(* jump, or one that unmarks, comes from an unmarked state only.           *)
LEMMA DecideMarks ==
  ASSUME NEW p \in Payload, NEW flags, NEW valid \in BOOLEAN
  PROVE  LET d == Decide(p, flags, valid)
         IN  /\ d.action \in {"INSTALL", "ROLLBACK"}
                  => d.persist /\ d.payload.state \in PartialStates
             /\ d.action = "JUMP" => valid /\ p.state \notin PartialStates
             /\ d.payload.state \notin PartialStates
                  => p.state \notin PartialStates
<1>1. AccountedWd(p, flags) \in Counter
  BY LimitsAssumption DEF AccountedWd, SaturatingInc, Counter, Payload
<1> QED
  BY <1>1
     DEF Decide, DecideInstall, DecideRollback, DecideTrial, DecideSettled,
         StartRollback, InstallPhase, RollbackPhase, PartialStates, Payload

-----------------------------------------------------------------------------
(* Every step preserves the invariant *)

(* The programmed board satisfies it.                                     *)
LEMMA InitInv == Init => IInv
<1> SUFFICES ASSUME Init PROVE IInv
  OBVIOUS
<1>1. IdlePayload \in Payload
  BY LimitsAssumption DEF IdlePayload, Payload, Counter, UpgradeState
<1>2. /\ BlankFlash \in Content
      /\ \A i \in Image : Whole(i) \in Content /\ Complete(Whole(i))
  BY DEF BlankFlash, Content, Whole, Complete
<1>3. /\ TypeOK
      /\ SlotsHoldWholeImages
      /\ Complete(app)
  BY <1>1, <1>2, ImageAssumption
     DEF Init, TypeOK, PC, BootAction, SlotsHoldWholeImages, SlotIsValid
<1> QED
  BY <1>3
     DEF IInv, Init, Marked, IncompleteIsMarked, Unmarking, Trusting, Copying,
         Intent, SomethingToInstall,
         PersistPC, InstallPC, PrepareLocs, MarkedLocs

(* What an append does, whatever its outcome.                              *)
LEMMA PersistStep ==
  ASSUME IInv, NEW STATE at, NEW STATE onOk, NEW STATE onFail,
         onOk \in PC, onFail \in PC,
         Persist(at, onOk, onFail)
  PROVE  /\ pc = at /\ pc' \in {onOk, onFail}
         /\ meta' \in {meta, ram}
         /\ ~shadow /\ pc' # onFail => meta' = ram
         /\ shadow' => pc' = onFail
         /\ UNCHANGED <<cand, rb, app, ram, partial, action, src, haveBackup>>
         /\ TypeOK'
         /\ SlotsHoldWholeImages'
<1>1. /\ pc = at /\ pc' \in {onOk, onFail}
      /\ meta' \in {meta, ram} /\ meta' \in Payload
      /\ ~shadow /\ pc' # onFail => meta' = ram
      /\ shadow' => pc' = onFail
      /\ shadow' \in BOOLEAN
      /\ UNCHANGED <<cand, rb, app, ram, partial, action, src, haveBackup>>
  BY DEF Persist, IInv, TypeOK
<1>2. TypeOK'
  BY <1>1 DEF IInv, TypeOK
<1>3. SlotsHoldWholeImages'
  BY <1>1 DEF IInv, SlotsHoldWholeImages, SlotIsValid, Complete
<1> QED
  BY <1>1, <1>2, <1>3

(* Appends to the upgrade log.                                             *)
LEMMA PersistSteps ==
  ASSUME IInv,
         \/ PersistPolicy
         \/ PersistNoCandidate
         \/ PersistNoBackup
         \/ PersistBackup
         \/ PersistInstalling
         \/ PersistTrial
         \/ PersistInstallFailed
         \/ PersistRolling
         \/ PersistRolledBack
         \/ PersistRollbackFailed
  PROVE  IInv'
<1> USE DEF IInv, PC, PersistPC, InstallPC, GiveUp, Dispatch, Marked,
            IncompleteIsMarked, Unmarking, Trusting, Copying, Intent,
            SomethingToInstall, Complete,
            IsAppValid, PrepareLocs, MarkedLocs, PartialStates
<1>1. CASE PersistPolicy
  <2> DEFINE onFail == IF action = "JUMP" THEN "jump" ELSE "hold"
  <2>1. Dispatch(action) \in PC /\ onFail \in PC
    OBVIOUS
  <2>2. Persist("persistPolicy", Dispatch(action), onFail)
    BY <1>1 DEF PersistPolicy
  <2> HIDE DEF onFail
  <2>3. /\ pc = "persistPolicy" /\ pc' \in {Dispatch(action), onFail}
        /\ meta' \in {meta, ram}
        /\ ~shadow /\ pc' # onFail => meta' = ram
        /\ shadow' => pc' = onFail
        /\ UNCHANGED <<cand, rb, app, ram, partial, action, src, haveBackup>>
        /\ TypeOK'
        /\ SlotsHoldWholeImages'
    BY <2>1, <2>2, PersistStep
  <2>4. action \in {"JUMP", "INSTALL", "ROLLBACK", "HOLD"}
    BY DEF TypeOK, BootAction
  <2>5. CASE action = "JUMP"
    BY <2>3, <2>5 DEF onFail
  <2>6. CASE action = "INSTALL"
    BY <2>3, <2>6 DEF onFail
  <2>7. CASE action = "ROLLBACK"
    BY <2>3, <2>7 DEF onFail
  <2>8. CASE action = "HOLD"
    BY <2>3, <2>8 DEF onFail
  <2> QED
    BY <2>4, <2>5, <2>6, <2>7, <2>8
<1>2. CASE PersistNoCandidate
  BY <1>2, PersistStep DEF PersistNoCandidate
<1>3. CASE PersistNoBackup
  BY <1>3, PersistStep DEF PersistNoBackup
<1>4. CASE PersistBackup
  BY <1>4, PersistStep DEF PersistBackup
<1>5. CASE PersistInstalling
  BY <1>5, PersistStep DEF PersistInstalling
<1>6. CASE PersistTrial
  BY <1>6, PersistStep DEF PersistTrial
<1>7. CASE PersistInstallFailed
  BY <1>7, PersistStep DEF PersistInstallFailed
<1>8. CASE PersistRolling
  BY <1>8, PersistStep DEF PersistRolling
<1>9. CASE PersistRolledBack
  BY <1>9, PersistStep DEF PersistRolledBack
<1>10. CASE PersistRollbackFailed
  BY <1>10, PersistStep DEF PersistRollbackFailed
<1> QED
  BY <1>1, <1>2, <1>3, <1>4, <1>5, <1>6, <1>7, <1>8, <1>9, <1>10

(* A step that changes RAM only keeps the types and the slots.             *)
LEMMA LocalKeeps ==
  ASSUME IInv, pc' \in PC, ram' \in Payload, src' \in {"cand", "rb"},
         haveBackup' \in BOOLEAN,
         UNCHANGED <<meta, cand, rb, app, partial, action, shadow>>
  PROVE  TypeOK' /\ SlotsHoldWholeImages'
BY DEF IInv, TypeOK, SlotsHoldWholeImages, SlotIsValid, Complete

(* Steps that change RAM only.                                             *)
LEMMA LocalSteps ==
  ASSUME IInv,
         \/ CandidateUsable
         \/ CandidateUnusable
         \/ KeepRollback
         \/ NoRollback
         \/ StartBackup
         \/ BackupVerified
         \/ BackupFailed
         \/ MarkInstalling
         \/ CandidateInstalled
         \/ CandidateFailed
         \/ RollbackUsable
         \/ RollbackUnusable
         \/ RollbackInstalled
         \/ RollbackFailed
  PROVE  IInv'
<1>1. /\ ram \in Payload /\ haveBackup \in BOOLEAN /\ src \in {"cand", "rb"}
      /\ \A s \in UpgradeState : SetState(s) \in Payload /\ SetState(s).state = s
  BY DEF IInv, TypeOK, SetState, Payload
<1>2. /\ [state |-> "TRIAL_BOOT", trial |-> 1, wd |-> 0, att |-> 0] \in Payload
      /\ [state |-> "ROLLED_BACK", trial |-> 0, wd |-> 0, att |-> 0] \in Payload
  BY LimitsAssumption DEF Payload, UpgradeState, Counter
<1> USE DEF PersistPC, InstallPC
<1>3. CASE CandidateUsable
  <2>1. /\ pc = "checkCandidate" /\ pc' = "ensureBackup" /\ src' = src
        /\ ram' = ram
        /\ ram' \in Payload /\ haveBackup' \in BOOLEAN
        /\ UNCHANGED <<meta, cand, rb, app, partial, action, shadow>>
    BY <1>3, <1>1 DEF CandidateUsable, Local, durable, UpgradeState
  <2>2. TypeOK' /\ SlotsHoldWholeImages'
    BY <1>1, <2>1, LocalKeeps DEF PC
  <2> QED
    BY <1>3, <2>1, <2>2
       DEF IInv, Marked, IncompleteIsMarked, Unmarking, Trusting, Copying, Intent,
           SomethingToInstall, Complete,
           PrepareLocs, MarkedLocs, PartialStates
<1>4. CASE CandidateUnusable
  <2>1. /\ pc = "checkCandidate" /\ pc' = "persistNoCandidate" /\ src' = src
        /\ ram'.state = (IF partial THEN "INSTALLING" ELSE "FAILED")
        /\ ram' \in Payload /\ haveBackup' \in BOOLEAN
        /\ UNCHANGED <<meta, cand, rb, app, partial, action, shadow>>
    BY <1>4, <1>1 DEF CandidateUnusable, Local, durable, UpgradeState
  <2>2. TypeOK' /\ SlotsHoldWholeImages'
    BY <1>1, <2>1, LocalKeeps DEF PC
  <2> QED
    BY <1>4, <2>1, <2>2
       DEF IInv, Marked, IncompleteIsMarked, Unmarking, Trusting, Copying, Intent,
           SomethingToInstall, Complete,
           PrepareLocs, MarkedLocs, PartialStates
<1>5. CASE KeepRollback
  <2>1. /\ pc = "ensureBackup" /\ pc' = "persistBackup" /\ src' = src
        /\ ram'.state = "BACKUP_VALID"
        /\ ram' \in Payload /\ haveBackup' \in BOOLEAN
        /\ UNCHANGED <<meta, cand, rb, app, partial, action, shadow>>
    BY <1>5, <1>1 DEF KeepRollback, Local, durable, UpgradeState
  <2>2. TypeOK' /\ SlotsHoldWholeImages'
    BY <1>1, <2>1, LocalKeeps DEF PC
  <2> QED
    BY <1>5, <2>1, <2>2
       DEF IInv, Marked, IncompleteIsMarked, Unmarking, Trusting, Copying, Intent,
           SomethingToInstall, Complete,
           PrepareLocs, MarkedLocs, PartialStates
<1>6. CASE NoRollback
  <2>1. /\ pc = "ensureBackup" /\ pc' = "persistInstalling" /\ src' = "cand"
        /\ ram'.state = "INSTALLING"
        /\ ram' \in Payload /\ haveBackup' \in BOOLEAN
        /\ UNCHANGED <<meta, cand, rb, app, partial, action, shadow>>
    BY <1>6, <1>1 DEF NoRollback, Local, durable, UpgradeState
  <2>2. TypeOK' /\ SlotsHoldWholeImages'
    BY <1>1, <2>1, LocalKeeps DEF PC
  <2> QED
    BY <1>6, <2>1, <2>2
       DEF IInv, Marked, IncompleteIsMarked, Unmarking, Trusting, Copying, Intent,
           SomethingToInstall, Complete,
           PrepareLocs, MarkedLocs, PartialStates
<1>7. CASE StartBackup
  <2>1. /\ pc = "ensureBackup" /\ pc' = "backupErase" /\ src' = src
        /\ ram' = ram
        /\ ram' \in Payload /\ haveBackup' \in BOOLEAN
        /\ UNCHANGED <<meta, cand, rb, app, partial, action, shadow>>
    BY <1>7, <1>1 DEF StartBackup, Local, durable, UpgradeState
  <2>2. TypeOK' /\ SlotsHoldWholeImages'
    BY <1>1, <2>1, LocalKeeps DEF PC
  <2> QED
    BY <1>7, <2>1, <2>2
       DEF StartBackup, AppTrusted, IInv, Marked, IncompleteIsMarked, Unmarking,
           Trusting, Copying, Intent, SomethingToInstall, Complete,
           PrepareLocs, MarkedLocs, PartialStates
<1>8. CASE BackupVerified
  <2>1. /\ pc = "backupDone" /\ pc' = "persistBackup" /\ src' = src
        /\ ram'.state = "BACKUP_VALID"
        /\ ram' \in Payload /\ haveBackup' \in BOOLEAN
        /\ UNCHANGED <<meta, cand, rb, app, partial, action, shadow>>
    BY <1>8, <1>1 DEF BackupVerified, Local, durable, UpgradeState
  <2>2. TypeOK' /\ SlotsHoldWholeImages'
    BY <1>1, <2>1, LocalKeeps DEF PC
  <2> QED
    BY <1>8, <2>1, <2>2
       DEF IInv, Marked, IncompleteIsMarked, Unmarking, Trusting, Copying, Intent,
           SomethingToInstall, Complete,
           PrepareLocs, MarkedLocs, PartialStates
<1>9. CASE BackupFailed
  <2>1. /\ pc = "backupFailed" /\ pc' = "persistNoBackup" /\ src' = src
        /\ ram'.state = "FAILED"
        /\ ram' \in Payload /\ haveBackup' \in BOOLEAN
        /\ UNCHANGED <<meta, cand, rb, app, partial, action, shadow>>
    BY <1>9, <1>1 DEF BackupFailed, Local, durable, UpgradeState
  <2>2. TypeOK' /\ SlotsHoldWholeImages'
    BY <1>1, <2>1, LocalKeeps DEF PC
  <2> QED
    BY <1>9, <2>1, <2>2
       DEF IInv, Marked, IncompleteIsMarked, Unmarking, Trusting, Copying, Intent,
           SomethingToInstall, Complete,
           PrepareLocs, MarkedLocs, PartialStates
<1>10. CASE MarkInstalling
  <2>1. /\ pc = "markInstalling" /\ pc' = "persistInstalling" /\ src' = "cand"
        /\ ram'.state = "INSTALLING"
        /\ ram' \in Payload /\ haveBackup' \in BOOLEAN
        /\ UNCHANGED <<meta, cand, rb, app, partial, action, shadow>>
    BY <1>10, <1>1 DEF MarkInstalling, Local, durable, UpgradeState
  <2>2. TypeOK' /\ SlotsHoldWholeImages'
    BY <1>1, <2>1, LocalKeeps DEF PC
  <2> QED
    BY <1>10, <2>1, <2>2
       DEF IInv, Marked, IncompleteIsMarked, Unmarking, Trusting, Copying, Intent,
           SomethingToInstall, Complete,
           PrepareLocs, MarkedLocs, PartialStates
<1>11. CASE CandidateInstalled
  <2>1. /\ pc = "installed" /\ pc' = "persistTrial" /\ src' = src
        /\ ram'.state = "TRIAL_BOOT"
        /\ ram' \in Payload /\ haveBackup' \in BOOLEAN
        /\ UNCHANGED <<meta, cand, rb, app, partial, action, shadow>>
    BY <1>11, <1>1, <1>2 DEF CandidateInstalled, Local, durable, UpgradeState
  <2>2. TypeOK' /\ SlotsHoldWholeImages'
    BY <1>1, <2>1, LocalKeeps DEF PC
  <2> QED
    BY <1>11, <2>1, <2>2
       DEF IInv, Marked, IncompleteIsMarked, Unmarking, Trusting, Copying, Intent,
           SomethingToInstall, Complete,
           PrepareLocs, MarkedLocs, PartialStates
<1>12. CASE CandidateFailed
  <2>1. /\ pc = "installFailed" /\ pc' = "persistInstallFailed" /\ src' = src
        /\ ram'.state = "INSTALLING"
        /\ ram' \in Payload /\ haveBackup' \in BOOLEAN
        /\ UNCHANGED <<meta, cand, rb, app, partial, action, shadow>>
    BY <1>12, <1>1 DEF CandidateFailed, Local, durable, UpgradeState
  <2>2. TypeOK' /\ SlotsHoldWholeImages'
    BY <1>1, <2>1, LocalKeeps DEF PC
  <2> QED
    BY <1>12, <2>1, <2>2
       DEF IInv, Marked, IncompleteIsMarked, Unmarking, Trusting, Copying, Intent,
           SomethingToInstall, Complete,
           PrepareLocs, MarkedLocs, PartialStates
<1>13. CASE RollbackUsable
  <2>1. /\ pc = "checkRollback" /\ pc' = "persistRolling" /\ src' = "rb"
        /\ ram'.state = "ROLLING_BACK"
        /\ ram' \in Payload /\ haveBackup' \in BOOLEAN
        /\ UNCHANGED <<meta, cand, rb, app, partial, action, shadow>>
    BY <1>13, <1>1 DEF RollbackUsable, Local, durable, UpgradeState
  <2>2. TypeOK' /\ SlotsHoldWholeImages'
    BY <1>1, <2>1, LocalKeeps DEF PC
  <2> QED
    BY <1>13, <2>1, <2>2
       DEF IInv, Marked, IncompleteIsMarked, Unmarking, Trusting, Copying, Intent,
           SomethingToInstall, Complete,
           PrepareLocs, MarkedLocs, PartialStates
<1>14. CASE RollbackUnusable
  <2>1. /\ pc = "checkRollback" /\ pc' = "persistRollbackFailed" /\ src' = "rb"
        /\ ram'.state = "ROLLING_BACK"
        /\ ram' \in Payload /\ haveBackup' \in BOOLEAN
        /\ UNCHANGED <<meta, cand, rb, app, partial, action, shadow>>
    BY <1>14, <1>1 DEF RollbackUnusable, Local, durable, UpgradeState
  <2>2. TypeOK' /\ SlotsHoldWholeImages'
    BY <1>1, <2>1, LocalKeeps DEF PC
  <2> QED
    BY <1>14, <2>1, <2>2
       DEF IInv, Marked, IncompleteIsMarked, Unmarking, Trusting, Copying, Intent,
           SomethingToInstall, Complete,
           PrepareLocs, MarkedLocs, PartialStates
<1>15. CASE RollbackInstalled
  <2>1. /\ pc = "installed" /\ pc' = "persistRolledBack" /\ src' = src
        /\ ram'.state = "ROLLED_BACK"
        /\ ram' \in Payload /\ haveBackup' \in BOOLEAN
        /\ UNCHANGED <<meta, cand, rb, app, partial, action, shadow>>
    BY <1>15, <1>1, <1>2 DEF RollbackInstalled, Local, durable, UpgradeState
  <2>2. TypeOK' /\ SlotsHoldWholeImages'
    BY <1>1, <2>1, LocalKeeps DEF PC
  <2> QED
    BY <1>15, <2>1, <2>2
       DEF IInv, Marked, IncompleteIsMarked, Unmarking, Trusting, Copying, Intent,
           SomethingToInstall, Complete,
           PrepareLocs, MarkedLocs, PartialStates
<1>16. CASE RollbackFailed
  <2>1. /\ pc = "installFailed" /\ pc' = "persistRollbackFailed" /\ src' = src
        /\ ram' = ram
        /\ ram' \in Payload /\ haveBackup' \in BOOLEAN
        /\ UNCHANGED <<meta, cand, rb, app, partial, action, shadow>>
    BY <1>16, <1>1 DEF RollbackFailed, Local, durable, UpgradeState
  <2>2. TypeOK' /\ SlotsHoldWholeImages'
    BY <1>1, <2>1, LocalKeeps DEF PC
  <2> QED
    BY <1>16, <2>1, <2>2
       DEF RollbackFailed, IInv, Marked, IncompleteIsMarked, Unmarking, Trusting,
           Copying, Intent, SomethingToInstall, Complete,
           PrepareLocs, MarkedLocs, PartialStates
<1> QED
  BY <1>3, <1>4, <1>5, <1>6, <1>7, <1>8, <1>9, <1>10, <1>11, <1>12, <1>13, <1>14,
     <1>15, <1>16

(* Steps that change the slots, the application Flash or the control point.*)
LEMMA FlashSteps ==
  ASSUME IInv,
         \/ BootUnreadable
         \/ JumpOrHold
         \/ BackupErase
         \/ BackupCopy
         \/ BackupUnverified
         \/ InstallRefused
         \/ InstallErase
         \/ InstallErased
         \/ InstallCopy
         \/ InstallVectors
         \/ AppConfirm
         \/ AppBeginDownload
  PROVE  IInv'
<1> USE ImageAssumption, LimitsAssumption
       DEF IInv, TypeOK, SlotsHoldWholeImages, Marked, IncompleteIsMarked,
           Unmarking, Trusting, Copying, Intent, SomethingToInstall, Content, BlankFlash,
           Complete, SlotIsValid,
           IsAppValid, PC, PersistPC, InstallPC, PrepareLocs, MarkedLocs,
           PartialStates, durable, locals,
           Source, Payload, UpgradeState, Counter, Whole
<1>1. CASE BootUnreadable
  BY <1>1 DEF BootUnreadable
<1>2. CASE JumpOrHold
  BY <1>2 DEF JumpOrHold
<1>3. CASE BackupErase
  BY <1>3 DEF BackupErase
<1>4. CASE BackupCopy
  BY <1>4 DEF BackupCopy
<1>5. CASE BackupUnverified
  BY <1>5 DEF BackupUnverified
<1>6. CASE InstallRefused
  BY <1>6 DEF InstallRefused
<1>7. CASE InstallErase
  BY <1>7 DEF InstallErase
<1>8. CASE InstallErased
  BY <1>8 DEF InstallErased
<1>9. CASE InstallCopy
  BY <1>9 DEF InstallCopy
<1>10. CASE InstallVectors
  BY <1>10 DEF InstallVectors
<1>11. CASE AppConfirm
  <2>1. meta' \in Payload
    BY <1>11, "CONFIRMED" \in UpgradeState, 0 \in Counter DEF AppConfirm
  <2> QED
    BY <1>11, <2>1 DEF AppConfirm
<1>12. CASE AppBeginDownload
  BY <1>12 DEF AppBeginDownload
<1> QED
  BY <1>1, <1>2, <1>3, <1>4, <1>5, <1>6, <1>7, <1>8, <1>9, <1>10, <1>11, <1>12


(* A reset loses RAM only.                                                *)
LEMMA ResetStep == ASSUME IInv, Reset PROVE IInv'
<1>1. IdlePayload \in Payload
  BY LimitsAssumption DEF IdlePayload, Payload, Counter, UpgradeState
<1>2. TypeOK' /\ SlotsHoldWholeImages'
  BY <1>1 DEF Reset, durable, IInv, TypeOK, PC, BootAction,
              SlotsHoldWholeImages, SlotIsValid, Complete
<1> QED
  BY <1>2 DEF Reset, durable, IInv, Marked, IncompleteIsMarked, Unmarking, Trusting,
              Copying, Intent, SomethingToInstall, Complete, PersistPC, InstallPC,
              PrepareLocs, MarkedLocs

(* The boot decision, for every combination of reset flags.               *)
LEMMA BootStep == ASSUME IInv, NEW flags, Boot(flags) PROVE IInv'
<1> DEFINE p == meta.state \in PartialStates
           d == Decide(meta, flags, ~p /\ IsAppValid(app))
<1>1. /\ d \in Decision
      /\ d.action \in {"INSTALL", "ROLLBACK"}
           => d.persist /\ d.payload.state \in PartialStates
      /\ d.action = "JUMP" => ~p
      /\ d.payload.state \notin PartialStates => ~p
  BY DecideType, DecideMarks DEF IInv, TypeOK
<1>2. /\ pc = "reset"
      /\ partial' = p /\ ram' = d.payload /\ action' = d.action
      /\ pc' = IF d.persist THEN "persistPolicy" ELSE Dispatch(d.action)
      /\ UNCHANGED <<meta, cand, rb, app, src, haveBackup, shadow>>
  BY DEF Boot, durable
<1> HIDE DEF d
<1>3. pc' \in {"persistPolicy", "checkCandidate", "checkRollback", "hold", "jump"}
      /\ (pc' = "jump" => d.action = "JUMP")
      /\ pc' \notin {"checkCandidate", "checkRollback"}
  BY <1>1, <1>2 DEF Dispatch, Decision, BootAction
<1>4. TypeOK' /\ SlotsHoldWholeImages'
  BY <1>1, <1>2, <1>3 DEF IInv, TypeOK, PC, PersistPC, Decision,
     SlotsHoldWholeImages,
                    SlotIsValid, Complete
<1> QED
  BY <1>1, <1>2, <1>3, <1>4
     DEF IInv, Marked, IncompleteIsMarked, Unmarking, Trusting, Copying, Intent,
         SomethingToInstall, Complete,
         PersistPC, InstallPC, PrepareLocs, MarkedLocs

(* A finished download replaces the candidate and asks for an install.     *)
LEMMA RequestStep == ASSUME IInv, NEW i \in Image, AppRequestInstall(i) PROVE IInv'
<1>1. /\ cand' = Whole(i) /\ pc = "run" /\ pc' = "run"
      /\ UNCHANGED <<rb, app, ram, partial, action, src, haveBackup, shadow>>
  BY DEF AppRequestInstall, locals
<1>2. Whole(i) \in Content /\ Complete(Whole(i))
  BY DEF Whole, Content, Complete
<1>3. RequestStates \subseteq UpgradeState /\ 0 \in Counter
  BY ImageAssumption, LimitsAssumption DEF UpgradeState, Counter
<1>4. meta' \in Payload
  BY <1>3 DEF AppRequestInstall, IInv, TypeOK, Payload
<1>5. TypeOK' /\ SlotsHoldWholeImages'
  BY <1>1, <1>2, <1>4 DEF IInv, TypeOK, SlotsHoldWholeImages, SlotIsValid, Complete
<1> QED
  BY <1>1, <1>5
     DEF IInv, Marked, IncompleteIsMarked, Unmarking, Trusting, Copying, Intent,
         SomethingToInstall, Complete,
         PersistPC, InstallPC, PrepareLocs, MarkedLocs, IsAppValid

(* The invariant is inductive.                                             *)
LEMMA NextInv == IInv /\ [Next]_vars => IInv'
<1> SUFFICES ASSUME IInv, [Next]_vars PROVE IInv'
  OBVIOUS
<1>1. CASE UNCHANGED vars
  BY <1>1
     DEF vars, IInv, TypeOK, SlotsHoldWholeImages, Marked, IncompleteIsMarked,
         Unmarking,
         Trusting, Copying, Intent, SomethingToInstall, SlotIsValid, Complete,
         IsAppValid,
         Source
<1>2. CASE Next
  BY <1>2, PersistSteps, LocalSteps, FlashSteps, ResetStep, BootStep, RequestStep
     DEF Next, Decisions, Prepare, InstallSlot, AfterInstall, Application
<1> QED
  BY <1>1, <1>2

(* ... and holds in every reachable state.                                *)
LEMMA Inductive == Spec => []IInv
BY InitInv, NextInv, PTL DEF Spec

(* Every reachable state is well typed.                                    *)
THEOREM TypeCorrect == Spec => []TypeOK
BY Inductive, PTL DEF IInv

(* The application that Bootloader_Run starts is whole, whatever cut       *)
(* InstallSlot short before (JumpOrHold looks at the vectors only).        *)
THEOREM JumpsToWholeImage == Spec => []RunsOnlyComplete
<1>1. IInv => RunsOnlyComplete
  BY DEF IInv, Trusting, RunsOnlyComplete
<1> QED
  BY <1>1, Inductive, PTL

(* The log never forgets an application that InstallSlot left unfinished.  *)
THEOREM TornIsMarked == Spec => []IncompleteIsMarked
<1>1. IInv => IncompleteIsMarked
  BY DEF IInv, Marked
<1> QED
  BY <1>1, Inductive, PTL

(* BackupCurrentApplication never commits a torn application.              *)
THEOREM SlotsAreWhole == Spec => []SlotsHoldWholeImages
<1>1. IInv => SlotsHoldWholeImages
  BY DEF IInv
<1> QED
  BY <1>1, Inductive, PTL

(* No fault or reset leaves a board with nothing to install or restore.    *)
THEOREM AlwaysRecoverable == Spec => []SomethingToInstall
<1>1. IInv => SomethingToInstall
  BY DEF IInv
<1> QED
  BY <1>1, Inductive, PTL

(* Every erase and program of the application has its intent in the log.   *)
THEOREM IntentFirst == Spec => IntentBeforeErase
<1>1. IInv /\ [Next]_vars
        => [app' # app => meta.state \in {"INSTALLING", "ROLLING_BACK"}]_vars
  <2> SUFFICES ASSUME IInv, Next, app' # app
               PROVE  meta.state \in {"INSTALLING", "ROLLING_BACK"}
    BY DEF vars
  <2>1. ~PersistPolicy /\ ~Reset /\ ~Decisions /\ ~JumpOrHold /\ ~Application
    BY DEF PersistPolicy, Persist, Reset, Decisions, Boot, BootUnreadable,
           JumpOrHold,
           Application, AppConfirm, AppBeginDownload, AppRequestInstall, durable
  <2>2. ~Prepare
    BY DEF Prepare, CandidateUsable, CandidateUnusable, PersistNoCandidate,
           KeepRollback, NoRollback, StartBackup, BackupErase, BackupCopy,
           BackupVerified, BackupUnverified, BackupFailed, PersistNoBackup,
           PersistBackup, MarkInstalling, PersistInstalling, Persist, Local, durable
  <2>3. ~AfterInstall
    BY DEF AfterInstall, CandidateInstalled, PersistTrial, CandidateFailed,
           PersistInstallFailed, RollbackUsable, RollbackUnusable, PersistRolling,
           RollbackInstalled, PersistRolledBack, RollbackFailed,
           PersistRollbackFailed, Persist, Local, durable
  <2>4. pc \in InstallPC
    BY <2>1, <2>2, <2>3
       DEF Next, InstallSlot, InstallRefused, InstallErase, InstallErased,
           InstallCopy,
           InstallVectors, InstallPC, durable
  <2> QED
    BY <2>4 DEF IInv, Intent
<1> QED
  BY <1>1, Inductive, PTL DEF Spec, IntentBeforeErase

(* The rollback slot is never rewritten over a torn application.           *)
THEOREM RollbackKept == Spec => RollbackKeptWhileNeeded
<1>1. IInv /\ [Next]_vars => [rb' # rb => Complete(app)]_vars
  <2> SUFFICES ASSUME IInv, Next, rb' # rb
               PROVE  Complete(app)
    BY DEF vars
  <2>1. ~PersistPolicy /\ ~Reset /\ ~Decisions /\ ~JumpOrHold /\ ~Application
    BY DEF PersistPolicy, Persist, Reset, Decisions, Boot, BootUnreadable,
           JumpOrHold,
           Application, AppConfirm, AppBeginDownload, AppRequestInstall, durable
  <2>2. ~InstallSlot
    BY DEF InstallSlot, InstallRefused, InstallErase, InstallErased, InstallCopy,
           InstallVectors, durable
  <2>3. ~AfterInstall
    BY DEF AfterInstall, CandidateInstalled, PersistTrial, CandidateFailed,
           PersistInstallFailed, RollbackUsable, RollbackUnusable, PersistRolling,
           RollbackInstalled, PersistRolledBack, RollbackFailed,
           PersistRollbackFailed, Persist, Local, durable
  <2>4. pc \in {"backupErase", "backupCopy"}
    BY <2>1, <2>2, <2>3
       DEF Next, Prepare, CandidateUsable, CandidateUnusable, PersistNoCandidate,
           KeepRollback, NoRollback, StartBackup, BackupErase, BackupCopy,
           BackupVerified, BackupUnverified, BackupFailed, PersistNoBackup,
           PersistBackup, MarkInstalling, PersistInstalling, Persist, Local, durable
  <2> QED
    BY <2>4 DEF IInv, Trusting
<1> QED
  BY <1>1, Inductive, PTL DEF Spec, RollbackKeptWhileNeeded

-----------------------------------------------------------------------------
(* Bootloader_Run and the upgrade log *)

(* An append ends: the register acknowledges or refuses it.                *)
LEMMA PersistIsRegister ==
  ASSUME NEW STATE at, NEW STATE onOk, NEW STATE onFail, at \in PersistPC,
         onOk \notin PersistPC \cup {"run"}, onFail \notin PersistPC \cup {"run"},
         Persist(at, onOk, onFail)
  PROVE  Register!Next
<1>1. /\ pc \in PersistPC /\ pc # "run"
      /\ pc' \notin PersistPC /\ pc' # "run"
  BY DEF Persist, PersistPC
<1>2. \/ meta' = ram /\ shadow' = FALSE
      \/ shadow /\ meta' = meta /\ shadow' = FALSE
      \/ meta' = meta /\ shadow' = shadow
      \/ meta' = ram /\ shadow' = TRUE
  BY DEF Persist
<1>3. CASE meta' = ram /\ shadow' = FALSE
  BY <1>1, <1>3 DEF Register!Next, Register!Acknowledge
<1>4. CASE shadow /\ meta' = meta /\ shadow' = FALSE
  BY <1>1, <1>4 DEF Register!Next, Register!Acknowledge
<1>5. CASE meta' = meta /\ shadow' = shadow
  BY <1>1, <1>5 DEF Register!Next, Register!Refuse
<1>6. CASE meta' = ram /\ shadow' = TRUE
  BY <1>1, <1>6 DEF Register!Next, Register!Refuse
<1> QED
  BY <1>2, <1>3, <1>4, <1>5, <1>6

(* A step that appends nothing begins an append or is none of the          *)
(* register's business.                                                    *)
LEMMA QuietIsRegister ==
  ASSUME pc \notin PersistPC, pc # "run", pc' # "run",
         UNCHANGED <<meta, shadow>>, ram' \in Payload
  PROVE  [Register!Next]_Register!vars
<1>1. CASE pc' \in PersistPC
  BY <1>1 DEF Register!Next, Register!Begin
<1>2. CASE pc' \notin PersistPC
  BY <1>2 DEF Register!vars
<1> QED
  BY <1>1, <1>2

(* Every step of Bootloader_Run, every reset and every append of the       *)
(* application is a step of the register or none of its business.          *)
LEMMA NextIsRegister ==
  ASSUME IInv, TypeOK', [Next]_vars
  PROVE  [Register!Next]_Register!vars
<1>1. CASE UNCHANGED vars
  BY <1>1 DEF vars, Register!vars
<1>2. CASE Reset
  BY <1>2 DEF Reset, durable, PersistPC, Register!Next, Register!Restart
<1>3. CASE JumpOrHold
  <2>1. CASE pc' = "run"
    BY <1>3, <2>1
       DEF JumpOrHold, durable, locals, PersistPC, Register!Next, Register!Restart
  <2>2. CASE pc' = "hold"
    BY <1>3, <2>2 DEF JumpOrHold, durable, locals, PersistPC, Register!vars
  <2> QED
    BY <1>3, <2>1, <2>2 DEF JumpOrHold
<1>4. CASE Application
  BY <1>4
     DEF Application, AppConfirm, AppBeginDownload, AppRequestInstall, locals,
         TypeOK, PersistPC, Register!Next, Register!Write
<1>5. CASE \/ PersistPolicy \/ PersistNoCandidate \/ PersistNoBackup
           \/ PersistBackup \/ PersistInstalling \/ PersistTrial
           \/ PersistInstallFailed \/ PersistRolling \/ PersistRolledBack
           \/ PersistRollbackFailed
  <2> USE DEF PersistPC, GiveUp, Dispatch
  <2>1. CASE PersistPolicy
    BY <2>1, PersistIsRegister DEF PersistPolicy
  <2>2. CASE PersistNoCandidate
    BY <2>2, PersistIsRegister DEF PersistNoCandidate
  <2>3. CASE PersistNoBackup
    BY <2>3, PersistIsRegister DEF PersistNoBackup
  <2>4. CASE PersistBackup
    BY <2>4, PersistIsRegister DEF PersistBackup
  <2>5. CASE PersistInstalling
    BY <2>5, PersistIsRegister DEF PersistInstalling
  <2>6. CASE PersistTrial
    BY <2>6, PersistIsRegister DEF PersistTrial
  <2>7. CASE PersistInstallFailed
    BY <2>7, PersistIsRegister DEF PersistInstallFailed
  <2>8. CASE PersistRolling
    BY <2>8, PersistIsRegister DEF PersistRolling
  <2>9. CASE PersistRolledBack
    BY <2>9, PersistIsRegister DEF PersistRolledBack
  <2>10. CASE PersistRollbackFailed
    BY <2>10, PersistIsRegister DEF PersistRollbackFailed
  <2> QED
    BY <1>5, <2>1, <2>2, <2>3, <2>4, <2>5, <2>6, <2>7, <2>8, <2>9, <2>10
<1>6. CASE Decisions
  <2>1. /\ pc = "reset" /\ pc' # "run"
        /\ UNCHANGED <<meta, shadow>>
    BY <1>6 DEF Decisions, Boot, BootUnreadable, Dispatch, durable, locals
  <2> QED
    BY <2>1, QuietIsRegister DEF PersistPC, TypeOK
<1>7. CASE InstallSlot
  <2>1. /\ pc \in InstallPC /\ pc' # "run"
        /\ UNCHANGED <<meta, shadow>>
    BY <1>7
       DEF InstallSlot, InstallRefused, InstallErase, InstallErased, InstallCopy,
           InstallVectors, InstallPC, durable, locals
  <2> QED
    BY <2>1, QuietIsRegister DEF PersistPC, InstallPC, TypeOK
<1>8. CASE \/ CandidateUsable \/ CandidateUnusable \/ KeepRollback \/ NoRollback
           \/ StartBackup \/ BackupErase \/ BackupCopy \/ BackupVerified
           \/ BackupUnverified \/ BackupFailed \/ MarkInstalling
           \/ CandidateInstalled \/ CandidateFailed
           \/ RollbackUsable \/ RollbackUnusable
           \/ RollbackInstalled \/ RollbackFailed
  <2>1. /\ pc \notin PersistPC /\ pc # "run" /\ pc' # "run"
        /\ UNCHANGED <<meta, shadow>>
    BY <1>8
       DEF CandidateUsable, CandidateUnusable, KeepRollback, NoRollback,
           StartBackup, BackupErase, BackupCopy, BackupVerified, BackupUnverified,
           BackupFailed, MarkInstalling, CandidateInstalled, CandidateFailed,
           RollbackUsable, RollbackUnusable, RollbackInstalled, RollbackFailed,
           Local, durable, locals, PersistPC
  <2> QED
    BY <2>1, QuietIsRegister DEF TypeOK
<1> QED
  BY <1>1, <1>2, <1>3, <1>4, <1>5, <1>6, <1>7, <1>8 DEF Next, Prepare, AfterInstall

(* Bootloader_Run and the application use the upgrade log as the register  *)
(* that UpgradeLog implements: one append at a time, with its failures.    *)
THEOREM RegisterUsed == Spec => UsesRegister
<1>1. Init => Register!Init
  <2> SUFFICES ASSUME Init PROVE Register!Init
    OBVIOUS
  <2>1. meta \in Payload
    BY InitInv DEF IInv, TypeOK
  <2> QED
    BY <2>1 DEF Init, PersistPC, Register!Init
<1>2. IInv /\ IInv' /\ [Next]_vars => [Register!Next]_Register!vars
  BY NextIsRegister DEF IInv
<1> QED
  BY <1>1, <1>2, Inductive, PTL DEF Spec, UsesRegister, Register!Spec

-----------------------------------------------------------------------------
(* The backup of a trusted application *)

(* A boot that distrusts nothing has nothing to restore: unmarked states   *)
(* are recorded over bootable vectors only.                                *)
UnmarkedIsBootable ==
  /\ meta.state \notin PartialStates => IsAppValid(app)
  /\ pc \in PersistPC /\ ram.state \notin PartialStates => IsAppValid(app)
  /\ pc \in PrepareLocs /\ ~partial => IsAppValid(app)
  /\ pc \in {"backupErase", "backupCopy", "backupDone", "backupFailed",
            "persistNoBackup", "installed"} => IsAppValid(app)

(* A trusted application meets the first attempt of an install only ...    *)
FirstAttempt ==
  /\ meta.state = "CANDIDATE_VALID" => meta.att = 0
  /\ pc \in PersistPC => ram.state # "CANDIDATE_VALID"
  /\ pc = "persistPolicy" /\ action = "INSTALL" /\ ~partial => ram.att <= 1
  /\ pc \in {"checkCandidate", "ensureBackup"} /\ ~partial => ram.att <= 1

(* ... which backs it up, and the erase takes the body away first.         *)
BackedUp ==
  /\ pc \in {"backupDone", "persistBackup", "markInstalling",
             "persistInstalling"} /\ ~partial => rb = app
  /\ pc = "installErase" /\ src = "cand" /\ ~partial => rb = app
  /\ pc = "persistRolling" => src = "rb"
  /\ pc = "persistInstalling" => src = "cand"
  /\ pc = "installErasing" => app.body = NoImage
  /\ pc \in {"installCopy", "installVectors"} => app.vec = NoImage

BackupInv == IInv /\ UnmarkedIsBootable /\ FirstAttempt /\ BackedUp

-----------------------------------------------------------------------------
(* What the counters of BootHistory are bounded by *)

(* From a decision that is durable up to the end of the boot it belongs to *)
(* the copy in RAM keeps the attempts of the newest payload.               *)
WorkLocs == MarkedLocs \cup {"persistNoCandidate", "persistNoBackup"}

(* The candidate has not been erased for in this boot.                     *)
BeforeErase ==
  \/ pc \in {"checkCandidate", "ensureBackup", "backupErase", "backupCopy",
            "backupDone", "backupFailed", "persistNoBackup", "persistBackup",
            "markInstalling", "persistInstalling", "persistNoCandidate"}
  \/ pc = "installErase" /\ src = "cand"

ForCandidate == pc \in InstallPC \cup {"installFailed"} /\ src = "cand"

BeforeRestore ==
  \/ pc \in {"checkRollback", "persistRolling"}
  \/ pc = "installErase" /\ src = "rb"

(* Attempts in the log pay for the erases for a candidate.                 *)
CandBound ==
  /\ candErases \in 0 .. MaxPhase
  /\ meta.state \in InstallPhase => candErases <= meta.att /\ meta.att <= MaxPhase
  /\ pc \in PersistPC /\ ram.state \in InstallPhase
       => candErases <= ram.att /\ ram.att <= MaxPhase
  /\ pc \in WorkLocs => meta.att = ram.att /\ ram.att <= MaxPhase
  /\ pc = "persistPolicy" /\ action = "INSTALL"
       => ram.state = "INSTALLING" /\ candErases < ram.att
  /\ pc = "persistBackup" => ram.state = "BACKUP_VALID"
  /\ BeforeErase => candErases < ram.att
  /\ BeforeErase \/ ForCandidate \/ pc = "persistInstallFailed"
       => meta.state \in InstallPhase
  /\ ForCandidate => candErases <= ram.att

(* A download leaves no candidate for a later one to be taken for.         *)
NoneWhileDownloading ==
  /\ meta.state = "DOWNLOADING" => cand = BlankFlash
  /\ pc \in PersistPC /\ ram.state = "DOWNLOADING" => cand = BlankFlash

(* The same for the erases of a rollback phase, plus the one of the boot   *)
(* that enters it.                                                         *)
RollbackBound ==
  /\ rbErases \in 0 .. MaxPhase + 1
  /\ meta.state \notin RollbackPhase => rbErases = 0
  /\ meta.state \in RollbackPhase => rbErases <= meta.att + 1 /\ meta.att <= MaxPhase
  /\ pc \in PersistPC /\ ram.state \in RollbackPhase
       => rbErases <= ram.att + 1 /\ ram.att <= MaxPhase
  /\ pc = "persistPolicy" /\ action = "ROLLBACK"
       => ram.state \in RollbackPhase /\ rbErases <= ram.att
  /\ BeforeRestore => rbErases <= ram.att
  /\ pc \in InstallPC \cup {"installFailed"} /\ src = "rb" => ram.state = "ROLLING_BACK"

HistoryInv == BackupInv /\ CandBound /\ NoneWhileDownloading /\ RollbackBound

(* With a log whose appends succeed, a start of an unconfirmed image is    *)
(* counted in the log before it happens.                                   *)
TrialBound ==
  /\ ~shadow
  /\ trials \in 0 .. MaxTrial
  /\ meta.state = "TRIAL_BOOT" => trials <= meta.trial /\ meta.trial <= MaxTrial
  /\ pc = "jump" /\ meta.state = "TRIAL_BOOT" => trials < meta.trial
  /\ pc \in PersistPC /\ ram.state = "TRIAL_BOOT"
       => trials < ram.trial /\ ram.trial <= MaxTrial
  /\ pc = "persistPolicy" /\ action = "JUMP" => ram.state = meta.state
  /\ pc \in PersistPC \ {"persistPolicy", "persistTrial"} => ram.state # "TRIAL_BOOT"
  /\ pc \in {"installed", "persistTrial"} => trials = 0

-----------------------------------------------------------------------------
(* The steps of Bootloader_Run, as far as markers and counters go *)

Appends ==
  \/ PersistPolicy \/ PersistNoCandidate \/ PersistNoBackup \/ PersistBackup
  \/ PersistInstalling \/ PersistTrial \/ PersistInstallFailed
  \/ PersistRolling \/ PersistRolledBack \/ PersistRollbackFailed

Locals ==
  \/ CandidateUsable \/ CandidateUnusable \/ KeepRollback \/ NoRollback
  \/ StartBackup \/ BackupVerified \/ BackupFailed \/ MarkInstalling
  \/ CandidateInstalled \/ CandidateFailed \/ RollbackUsable \/ RollbackUnusable
  \/ RollbackInstalled \/ RollbackFailed

(* Where Run goes on after an append, and what the log then says.          *)
Appended(at, next) == pc = at /\ pc' = next /\ meta' \in {meta, ram}

LEMMA AppendShape ==
  ASSUME IInv, Appends
  PROVE  /\ UNCHANGED <<cand, rb, app, ram, partial, action, src, haveBackup>>
         /\ \/ Appended("persistPolicy", "hold")
            \/ action = "JUMP" /\ Appended("persistPolicy", "jump")
            \/ /\ action = "INSTALL" /\ meta' = ram
               /\ Appended("persistPolicy", "checkCandidate")
            \/ /\ action = "ROLLBACK" /\ meta' = ram
               /\ Appended("persistPolicy", "checkRollback")
            \/ \E next \in {"hold", "jump"} : Appended("persistNoCandidate", next)
            \/ Appended("persistNoBackup", "jump")
            \/ \E next \in {"hold", "jump", "markInstalling"} : Appended("persistBackup", next)
            \/ \E next \in {"hold", "jump", "installErase"} : Appended("persistInstalling", next)
            \/ Appended("persistTrial", "jump")
            \/ \E next \in {"hold", "checkRollback"} : Appended("persistInstallFailed", next)
            \/ \E next \in {"hold", "installErase"} : Appended("persistRolling", next)
            \/ Appended("persistRolledBack", "jump")
            \/ Appended("persistRollbackFailed", "hold")
<1>1. ASSUME NEW at, NEW onOk, NEW onFail, Persist(at, onOk, onFail)
      PROVE  /\ UNCHANGED <<cand, rb, app, ram, partial, action, src, haveBackup>>
             /\ pc = at /\ meta' \in {meta, ram} /\ pc' \in {onOk, onFail}
             /\ ~shadow /\ pc' # onFail => meta' = ram
  BY <1>1 DEF Persist
<1> USE DEF Appended
<1>2. CASE PersistPolicy
  <2> DEFINE onFail == IF action = "JUMP" THEN "jump" ELSE "hold"
  <2>1. Persist("persistPolicy", Dispatch(action), onFail)
    BY <1>2 DEF PersistPolicy
  <2>2. action \in {"JUMP", "INSTALL", "ROLLBACK", "HOLD"} /\ (pc = "persistPolicy" => ~shadow)
    BY DEF IInv, TypeOK, BootAction, Marked
  <2> HIDE DEF onFail
  <2>3. /\ UNCHANGED <<cand, rb, app, ram, partial, action, src, haveBackup>>
        /\ pc = "persistPolicy" /\ meta' \in {meta, ram} /\ pc' \in {Dispatch(action), onFail}
        /\ ~shadow /\ pc' # onFail => meta' = ram
    BY <2>1, <1>1
  <2> QED
    BY <2>2, <2>3 DEF Dispatch, onFail
<1>3. CASE PersistNoCandidate
  BY <1>1, <1>3 DEF PersistNoCandidate, GiveUp
<1>4. CASE PersistNoBackup
  BY <1>1, <1>4 DEF PersistNoBackup
<1>5. CASE PersistBackup
  BY <1>1, <1>5 DEF PersistBackup, GiveUp
<1>6. CASE PersistInstalling
  BY <1>1, <1>6 DEF PersistInstalling, GiveUp
<1>7. CASE PersistTrial
  BY <1>1, <1>7 DEF PersistTrial
<1>8. CASE PersistInstallFailed
  BY <1>1, <1>8 DEF PersistInstallFailed
<1>9. CASE PersistRolling
  BY <1>1, <1>9 DEF PersistRolling
<1>10. CASE PersistRolledBack
  BY <1>1, <1>10 DEF PersistRolledBack
<1>11. CASE PersistRollbackFailed
  BY <1>1, <1>11 DEF PersistRollbackFailed
<1> QED
  BY <1>2, <1>3, <1>4, <1>5, <1>6, <1>7, <1>8, <1>9, <1>10, <1>11 DEF Appends

(* A step in RAM, from one control point to the next: the state it sets,   *)
(* the slot InstallSlot will copy from.                                    *)
Moves(at, next, s, from) ==
  /\ pc = at /\ pc' = next /\ src' = from
  /\ ram'.state = s /\ ram'.att = ram.att /\ ram'.trial = ram.trial

LEMMA LocalShape ==
  ASSUME IInv, Locals
  PROVE  /\ UNCHANGED <<meta, cand, rb, app, partial, action, shadow>>
         /\ \/ Moves("checkCandidate", "ensureBackup", ram.state, src)
            \/ Moves("checkCandidate", "persistNoCandidate",
                     IF partial THEN "INSTALLING" ELSE "FAILED", src)
            \/ /\ ram.att > 1 \/ ~AppTrusted
               /\ Moves("ensureBackup", "persistBackup", "BACKUP_VALID", src)
            \/ /\ ~AppTrusted
               /\ Moves("ensureBackup", "persistInstalling", "INSTALLING", "cand")
            \/ AppTrusted /\ Moves("ensureBackup", "backupErase", ram.state, src)
            \/ Moves("backupDone", "persistBackup", "BACKUP_VALID", src)
            \/ Moves("backupFailed", "persistNoBackup", "FAILED", src)
            \/ Moves("markInstalling", "persistInstalling", "INSTALLING", "cand")
            \/ /\ src = "cand" /\ pc = "installed" /\ pc' = "persistTrial" /\ src' = src
               /\ ram'.state = "TRIAL_BOOT" /\ ram'.trial = 1 /\ ram'.att = 0
            \/ src = "cand" /\ Moves("installFailed", "persistInstallFailed", "INSTALLING", src)
            \/ Moves("checkRollback", "persistRolling", "ROLLING_BACK", "rb")
            \/ Moves("checkRollback", "persistRollbackFailed", "ROLLING_BACK", "rb")
            \/ /\ src = "rb" /\ pc = "installed" /\ pc' = "persistRolledBack" /\ src' = src
               /\ ram'.state = "ROLLED_BACK" /\ ram'.trial = 0 /\ ram'.att = 0
            \/ src = "rb" /\ Moves("installFailed", "persistRollbackFailed", ram.state, src)
<1>1. \A s \in UpgradeState : /\ SetState(s).state = s
                              /\ SetState(s).att = ram.att /\ SetState(s).trial = ram.trial
  BY DEF IInv, TypeOK, SetState, Payload
<1> USE DEF Moves, Local, durable, UpgradeState
<1>2. CASE CandidateUsable
  BY <1>2 DEF CandidateUsable
<1>3. CASE CandidateUnusable
  BY <1>1, <1>3 DEF CandidateUnusable
<1>4. CASE KeepRollback
  BY <1>1, <1>4 DEF KeepRollback
<1>5. CASE NoRollback
  BY <1>1, <1>5 DEF NoRollback
<1>6. CASE StartBackup
  BY <1>6 DEF StartBackup
<1>7. CASE BackupVerified
  BY <1>1, <1>7 DEF BackupVerified
<1>8. CASE BackupFailed
  BY <1>1, <1>8 DEF BackupFailed
<1>9. CASE MarkInstalling
  BY <1>1, <1>9 DEF MarkInstalling
<1>10. CASE CandidateInstalled
  BY <1>10 DEF CandidateInstalled
<1>11. CASE CandidateFailed
  BY <1>1, <1>11 DEF CandidateFailed
<1>12. CASE RollbackUsable
  BY <1>1, <1>12 DEF RollbackUsable
<1>13. CASE RollbackUnusable
  BY <1>1, <1>13 DEF RollbackUnusable
<1>14. CASE RollbackInstalled
  BY <1>14 DEF RollbackInstalled
<1>15. CASE RollbackFailed
  BY <1>15 DEF RollbackFailed
<1> QED
  BY <1>2, <1>3, <1>4, <1>5, <1>6, <1>7, <1>8, <1>9, <1>10, <1>11, <1>12, <1>13,
     <1>14, <1>15 DEF Locals

(* What a boot decides, counted against the limits.                        *)
LEMMA DecideCounts ==
  ASSUME NEW p \in Payload, NEW flags, NEW valid \in BOOLEAN
  PROVE  LET d == Decide(p, flags, valid)
         IN  /\ d.action = "INSTALL" <=> p.state \in InstallPhase /\ p.att < MaxPhase
             /\ d.action = "INSTALL" => /\ d.payload.state = "INSTALLING" /\ d.persist
                                        /\ d.payload.att = p.att + 1
             /\ d.payload.state \in InstallPhase => d.action = "INSTALL"
             /\ d.payload.state # "CANDIDATE_VALID"
             /\ d.payload.state = "DOWNLOADING" => p.state = "DOWNLOADING"
             /\ d.payload.state \in RollbackPhase =>
                  IF p.state \in RollbackPhase
                  THEN /\ d.action = "ROLLBACK" => d.payload.att = p.att + 1 /\ p.att < MaxPhase
                       /\ d.action # "ROLLBACK" => d.payload.att = p.att
                  ELSE d.payload.att = 0
             /\ d.action = "ROLLBACK" => d.payload.state \in RollbackPhase /\ d.persist
             /\ d.payload.state = "TRIAL_BOOT" =>
                  /\ p.state = "TRIAL_BOOT" /\ d.persist /\ d.action = "JUMP"
                  /\ p.trial < MaxTrial /\ d.payload.trial = p.trial + 1
             /\ p.state = "TRIAL_BOOT" => d.persist
             /\ d.action = "JUMP" => d.payload.state = p.state
<1>1. AccountedWd(p, flags) \in Counter
  BY IncType, LimitsAssumption DEF AccountedWd, Counter, Payload
<1>2. PICK q \in Payload : q = [p EXCEPT !.wd = AccountedWd(p, flags)]
  BY <1>1 DEF Payload
<1>3. q.state = p.state /\ q.att = p.att /\ q.trial = p.trial
  BY <1>2 DEF Payload
<1>4. /\ p.att < MaxPhase => SaturatingInc(q.att) = p.att + 1
      /\ p.trial < MaxTrial => SaturatingInc(q.trial) = p.trial + 1
  BY <1>3, LimitsAssumption DEF SaturatingInc, Counter, Payload
<1> QED
  BY <1>2, <1>3, <1>4, LimitsAssumption
     DEF Decide, DecideInstall, DecideRollback, DecideTrial, DecideSettled,
         StartRollback, InstallPhase, RollbackPhase, Payload, UpgradeState, Counter

(* The decision and where it leads.                                        *)
LEMMA BootShape ==
  ASSUME IInv, NEW flags, Boot(flags)
  PROVE  \E d : /\ d = Decide(meta, flags, meta.state \notin PartialStates /\ IsAppValid(app))
                /\ d \in Decision
                /\ pc = "reset" /\ ~shadow
                /\ partial' = (meta.state \in PartialStates)
                /\ ram' = d.payload /\ action' = d.action
                /\ IF d.persist THEN pc' = "persistPolicy"
                   ELSE \/ pc' = "jump" /\ d.action = "JUMP"
                        \/ pc' = "hold" /\ d.action = "HOLD"
                /\ UNCHANGED <<meta, cand, rb, app, src, haveBackup, shadow>>
<1> DEFINE valid == meta.state \notin PartialStates /\ IsAppValid(app)
           d == Decide(meta, flags, valid)
<1>1. /\ d \in Decision
      /\ d.action \in {"INSTALL", "ROLLBACK"} => d.persist
  BY DecideType, DecideMarks DEF IInv, TypeOK
<1>2. /\ pc = "reset"
      /\ partial' = (meta.state \in PartialStates)
      /\ ram' = d.payload /\ action' = d.action
      /\ pc' = IF d.persist THEN "persistPolicy" ELSE Dispatch(d.action)
      /\ UNCHANGED <<meta, cand, rb, app, src, haveBackup, shadow>>
  BY DEF Boot, durable
<1>3. ~shadow
  BY <1>2 DEF IInv, Marked
<1> HIDE DEF d, valid
<1>4. IF d.persist THEN pc' = "persistPolicy"
      ELSE \/ pc' = "jump" /\ d.action = "JUMP"
           \/ pc' = "hold" /\ d.action = "HOLD"
  BY <1>1, <1>2 DEF Dispatch, Decision, BootAction
<1> QED
  BY <1>1, <1>2, <1>3, <1>4 DEF d, valid

-----------------------------------------------------------------------------
(* A trusted application is backed up before it is destroyed *)

LEMMA BackupInitially == Init => BackupInv
<1> SUFFICES ASSUME Init PROVE BackupInv
  OBVIOUS
<1>1. /\ IInv
      /\ pc = "reset" /\ meta = IdlePayload /\ IsAppValid(app)
  BY InitInv DEF Init, Whole, IsAppValid
<1> QED
  BY <1>1 DEF BackupInv, UnmarkedIsBootable, FirstAttempt, BackedUp, PersistPC,
              PrepareLocs, IdlePayload, PartialStates

(* Steps that change a slot or the application Flash.                      *)
FlashWork ==
  \/ BackupErase \/ BackupCopy \/ BackupUnverified
  \/ InstallRefused \/ InstallErase \/ InstallErased \/ InstallCopy \/ InstallVectors

LEMMA BackupKeptByFlash == ASSUME BackupInv, FlashWork PROVE BackupInv'
<1>1. IInv /\ IInv'
  BY FlashSteps DEF FlashWork, BackupInv
<1>2. NoImage \notin Image
  BY ImageAssumption
<1> USE <1>1, <1>2
    DEF BackupInv, UnmarkedIsBootable, FirstAttempt, BackedUp, PersistPC, InstallPC,
        PrepareLocs, PartialStates, IsAppValid, Complete, BlankFlash, durable, locals
<1>3. CASE BackupErase
  BY <1>3 DEF BackupErase
<1>4. CASE BackupCopy
  BY <1>4 DEF BackupCopy
<1>5. CASE BackupUnverified
  BY <1>5 DEF BackupUnverified
<1>6. CASE InstallRefused
  BY <1>6 DEF InstallRefused
<1>7. pc \in InstallPC => meta.state \in PartialStates
  BY DEF IInv, Intent
<1>8. CASE InstallErase
  <2>1. app' = [app EXCEPT !.body = NoImage]
    BY <1>8 DEF InstallErase
  <2>2. app'.body = NoImage
    BY <2>1 DEF IInv, TypeOK, Content
  <2> QED
    BY <1>7, <1>8, <2>2 DEF InstallErase
<1>9. CASE InstallErased
  BY <1>7, <1>9 DEF InstallErased
<1>10. CASE InstallCopy
  <2>1. [app EXCEPT !.body = Source.body].vec = app.vec
    BY DEF IInv, TypeOK, Content
  <2> QED
    BY <1>7, <1>10, <2>1 DEF InstallCopy
<1>11. CASE InstallVectors
  BY <1>7, <1>11 DEF InstallVectors
<1> QED
  BY <1>3, <1>4, <1>5, <1>6, <1>8, <1>9, <1>10, <1>11 DEF FlashWork

LEMMA BackupKeptByRun == ASSUME BackupInv, Appends \/ Locals PROVE BackupInv'
<1>1. IInv /\ IInv'
  BY PersistSteps, LocalSteps DEF Appends, Locals, BackupInv
<1> USE DEF BackupInv, UnmarkedIsBootable, FirstAttempt, BackedUp, PersistPC, InstallPC,
            PrepareLocs, PartialStates, IsAppValid
<1>2. CASE Appends
  <2> USE DEF Appended
  <2>1. /\ UNCHANGED <<rb, app, ram, partial, action, src>>
        /\ meta' \in {meta, ram} /\ pc \in PersistPC /\ pc' \notin PersistPC
    BY <1>1, <1>2, AppendShape
  <2>2. UnmarkedIsBootable'
    BY <1>1, <1>2, <2>1, AppendShape
  <2>3. FirstAttempt'
    BY <1>1, <1>2, <2>1, AppendShape
  <2>4. BackedUp'
    BY <1>1, <1>2, <2>1, AppendShape DEF IInv, Intent
  <2> QED
    BY <1>1, <2>2, <2>3, <2>4
<1>3. CASE Locals
  <2> USE DEF Moves
  <2>1. UNCHANGED <<meta, cand, rb, app, partial, action, shadow>>
    BY <1>1, <1>3, LocalShape
  <2>2. UnmarkedIsBootable'
    BY <1>1, <1>3, <2>1, LocalShape DEF AppTrusted, IInv, Unmarking
  <2>3. FirstAttempt'
    BY <1>1, <1>3, <2>1, LocalShape DEF AppTrusted, IInv, Unmarking
  <2>4. BackedUp'
    BY <1>1, <1>3, <2>1, LocalShape DEF AppTrusted, IInv, TypeOK, Payload, Counter
  <2> QED
    BY <1>1, <2>2, <2>3, <2>4
<1> QED
  BY <1>2, <1>3

LEMMA BackupKept == BackupInv /\ [Next]_vars => BackupInv'
<1> SUFFICES ASSUME BackupInv, [Next]_vars PROVE BackupInv'
  OBVIOUS
<1>1. IInv /\ IInv'
  BY NextInv DEF BackupInv
<1> USE DEF BackupInv, UnmarkedIsBootable, FirstAttempt, BackedUp, PersistPC, InstallPC,
            PrepareLocs, PartialStates, IsAppValid, durable, locals
<1>2. CASE Reset
  BY <1>1, <1>2 DEF Reset
<1>3. ASSUME NEW flags, Boot(flags) PROVE BackupInv'
  <2> DEFINE valid == meta.state \notin PartialStates /\ IsAppValid(app)
  <2>1. PICK d : /\ d = Decide(meta, flags, valid)
                 /\ pc = "reset"
                 /\ partial' = (meta.state \in PartialStates)
                 /\ ram' = d.payload /\ action' = d.action
                 /\ IF d.persist THEN pc' = "persistPolicy" ELSE pc' \in {"jump", "hold"}
                 /\ UNCHANGED <<meta, cand, rb, app>>
    BY <1>1, <1>3, BootShape
  <2>2. meta \in Payload /\ valid \in BOOLEAN
    BY <1>1 DEF IInv, TypeOK
  <2> HIDE DEF valid
  <2>3. d.payload.state \notin PartialStates => meta.state \notin PartialStates
    BY <2>1, <2>2, DecideMarks
  <2>4. /\ d.payload.state # "CANDIDATE_VALID"
        /\ d.action = "INSTALL" => meta.state \in InstallPhase /\ d.payload.att = meta.att + 1
    BY <2>1, <2>2, DecideCounts
  <2>5. UnmarkedIsBootable'
    BY <2>1, <2>3
  <2>6. FirstAttempt'
    <3>1. ~partial' => meta.state \notin PartialStates
      BY <2>1
    <3>2. action' = "INSTALL" /\ ~partial' => ram'.att = 1
      BY <2>1, <2>4, <3>1 DEF InstallPhase
    <3> QED
      BY <2>1, <2>4, <3>2
  <2>7. BackedUp'
    BY <2>1
  <2> QED
    BY <1>1, <2>5, <2>6, <2>7
<1>4. CASE BootUnreadable
  BY <1>1, <1>4 DEF BootUnreadable
<1>5. CASE JumpOrHold
  BY <1>1, <1>5 DEF JumpOrHold
<1>6. CASE Appends \/ Locals
  BY <1>6, BackupKeptByRun
<1>7. CASE FlashWork
  BY <1>7, BackupKeptByFlash
<1>8. CASE Application
  <2>1. pc = "run" /\ pc' = "run" /\ IsAppValid(app) /\ UNCHANGED <<rb, app, locals>>
    BY <1>1, <1>8 DEF IInv, Trusting, Application, AppConfirm, AppBeginDownload, AppRequestInstall
  <2>2. meta'.state = "CANDIDATE_VALID" => meta'.att = 0
    BY <1>1, <1>8
       DEF IInv, TypeOK, Payload, Application, AppConfirm, AppBeginDownload, AppRequestInstall
  <2> QED
    BY <1>1, <2>1, <2>2
<1>9. CASE UNCHANGED vars
  BY <1>1, <1>9 DEF vars
<1> QED
  BY <1>2, <1>3, <1>4, <1>5, <1>6, <1>7, <1>8, <1>9
     DEF Next, Decisions, Prepare, InstallSlot, AfterInstall, Appends, Locals, FlashWork

(* A boot that trusted the application destroys it for a candidate only    *)
(* with a verified copy of it in the rollback slot (EnsureRollbackBackup   *)
(* before InstallSlot), never with an older image that was kept there.     *)
THEOREM BackupOfTrusted == Spec => TrustedAppHasBackup
<1>1. BackupInv /\ [Next]_vars
        => [~partial /\ Complete(app) /\ app' # app /\ src = "cand" => rb = app]_vars
  <2> SUFFICES ASSUME BackupInv, Next, ~partial, Complete(app), app' # app, src = "cand"
               PROVE  rb = app
    BY DEF vars
  <2>1. InstallSlot \/ ~InstallSlot
    OBVIOUS
  <2>2. CASE ~InstallSlot
    <3>1. ~PersistPolicy /\ ~Reset /\ ~Decisions /\ ~JumpOrHold /\ ~Application
      BY DEF PersistPolicy, Persist, Reset, Decisions, Boot, BootUnreadable,
             JumpOrHold, Application, AppConfirm, AppBeginDownload, AppRequestInstall, durable
    <3>2. ~Appends /\ ~Locals
      BY AppendShape, LocalShape DEF BackupInv
    <3>3. ~BackupErase /\ ~BackupCopy /\ ~BackupUnverified
      BY DEF BackupErase, BackupCopy, BackupUnverified, durable
    <3> QED
      BY <2>2, <3>1, <3>2, <3>3 DEF Next, Prepare, AfterInstall, Appends, Locals
  <2>3. CASE InstallSlot
    <3>1. NoImage \notin Image
      BY ImageAssumption
    <3>2. pc \notin {"installErasing", "installCopy", "installVectors"}
      BY <3>1 DEF BackupInv, BackedUp, Complete
    <3>3. pc = "installErase"
      BY <2>3, <3>2
         DEF InstallSlot, InstallRefused, InstallErase, InstallErased, InstallCopy, InstallVectors
    <3> QED
      BY <3>3 DEF BackupInv, BackedUp
  <2> QED
    BY <2>1, <2>2, <2>3
<1> QED
  BY <1>1, BackupInitially, BackupKept, PTL DEF Spec, TrustedAppHasBackup

-----------------------------------------------------------------------------
(* The retries of an install and of a rollback are bounded *)

LEMMA HistoryInitially == HInit => HistoryInv
<1> SUFFICES ASSUME HInit PROVE HistoryInv
  OBVIOUS
<1>1. /\ BackupInv /\ pc = "reset" /\ meta = IdlePayload /\ candErases = 0 /\ rbErases = 0
  BY BackupInitially DEF HInit, Init
<1> QED
  BY <1>1, LimitsAssumption
     DEF HistoryInv, CandBound, NoneWhileDownloading, RollbackBound, PersistPC, InstallPC,
         WorkLocs, MarkedLocs, BeforeErase, ForCandidate, BeforeRestore, IdlePayload,
         InstallPhase, RollbackPhase

LEMMA CandObserved ==
  ASSUME candErases \in 0 .. MaxPhase, Observe
  PROVE  /\ pc = "run" /\ cand' # cand => candErases' = 0
         /\ Erasing /\ src = "cand" => candErases' = candErases + 1
         /\ pc # "run" /\ ~(Erasing /\ src = "cand") => candErases' = candErases
         /\ pc = "run" /\ cand' = cand => candErases' = candErases
BY LimitsAssumption DEF Observe, Erasing, Counted, Cap

LEMMA RollbackObserved ==
  ASSUME rbErases \in 0 .. MaxPhase + 1, Observe
  PROVE  /\ meta'.state \notin RollbackPhase => rbErases' = 0
         /\ meta'.state \in RollbackPhase /\ Erasing /\ src = "rb" => rbErases' = rbErases + 1
         /\ meta'.state \in RollbackPhase /\ ~(Erasing /\ src = "rb") => rbErases' = rbErases
<1>1. rbErases' = IF meta'.state \notin RollbackPhase THEN 0
                  ELSE IF Erasing /\ src = "rb" THEN Counted(rbErases) ELSE rbErases
  BY DEF Observe
<1>2. Counted(rbErases) = rbErases + 1
  BY LimitsAssumption DEF Counted, Cap
<1> QED
  BY <1>1, <1>2

(* Every step but the erase and a new request leaves the counters alone,   *)
(* except that a rollback count ends with its phase.                       *)
LEMMA CountersRest ==
  ASSUME HistoryInv, Observe, ~Erasing, pc # "run"
  PROVE  /\ candErases' = candErases
         /\ rbErases' = IF meta'.state \in RollbackPhase THEN rbErases ELSE 0
BY CandObserved, RollbackObserved DEF HistoryInv, CandBound, RollbackBound

LEMMA CountsAreInts ==
  ASSUME HistoryInv
  PROVE  /\ MaxPhase \in Nat /\ MaxPhase > 0 /\ candErases \in Nat /\ rbErases \in Nat
         /\ candErases <= MaxPhase /\ rbErases <= MaxPhase + 1
         /\ ram.att \in Nat /\ meta.att \in Nat
BY LimitsAssumption
   DEF HistoryInv, CandBound, RollbackBound, BackupInv, IInv, TypeOK, Payload, Counter

LEMMA HistoryKeptByAppends ==
  ASSUME HistoryInv, Appends, Observe, BackupInv' PROVE HistoryInv'
<1>1. IInv /\ BackupInv
  BY DEF HistoryInv, BackupInv
<1>2. ~Erasing /\ pc # "run"
  BY <1>1, AppendShape DEF Erasing, Appended
<1>3. /\ candErases' = candErases
      /\ rbErases' = IF meta'.state \in RollbackPhase THEN rbErases ELSE 0
  BY <1>2, CountersRest
<1>4. /\ UNCHANGED <<cand, ram, action, src>>
      /\ meta' \in {meta, ram} /\ pc \in PersistPC /\ pc' \notin PersistPC
      /\ \/ pc' \in {"hold", "jump"}
         \/ action = "INSTALL" /\ meta' = ram /\ pc = "persistPolicy" /\ pc' = "checkCandidate"
         \/ action = "ROLLBACK" /\ meta' = ram /\ pc = "persistPolicy" /\ pc' = "checkRollback"
         \/ pc = "persistBackup" /\ pc' = "markInstalling"
         \/ pc = "persistInstalling" /\ pc' = "installErase" /\ src = "cand"
         \/ pc = "persistInstallFailed" /\ pc' = "checkRollback"
         \/ pc = "persistRolling" /\ pc' = "installErase" /\ src = "rb"
  BY <1>1, AppendShape DEF PersistPC, Appended, BackupInv, BackedUp
<1>5. /\ pc = "persistInstalling" => ram.state = "INSTALLING"
      /\ pc = "persistRolling" => ram.state = "ROLLING_BACK"
      /\ pc = "persistInstallFailed" => ram.state = "INSTALLING"
  BY <1>1 DEF IInv, Intent, Unmarking
<1>6. CandBound /\ NoneWhileDownloading /\ RollbackBound
  BY DEF HistoryInv
<1> USE DEF PersistPC, InstallPC, InstallPhase, RollbackPhase
<1>7. NoneWhileDownloading'
  BY <1>4, <1>6 DEF NoneWhileDownloading
<1>8. CandBound'
  BY <1>3, <1>4, <1>5, <1>6, CountsAreInts
     DEF CandBound, RollbackBound, WorkLocs, MarkedLocs, BeforeErase, ForCandidate
<1>9. RollbackBound'
  BY <1>3, <1>4, <1>5, <1>6, CountsAreInts
     DEF RollbackBound, CandBound, WorkLocs, MarkedLocs, BeforeRestore, BeforeErase
<1> QED
  BY <1>7, <1>8, <1>9 DEF HistoryInv

LEMMA HistoryKeptByLocals ==
  ASSUME HistoryInv, Locals, Observe, BackupInv' PROVE HistoryInv'
<1>1. IInv /\ BackupInv
  BY DEF HistoryInv, BackupInv
<1>2. ~Erasing /\ pc # "run"
  BY <1>1, LocalShape DEF Erasing, Moves
<1>3. UNCHANGED <<meta, cand, action>>
  BY <1>1, LocalShape
<1>4. candErases' = candErases /\ rbErases' = rbErases
  BY <1>2, <1>3, CountersRest DEF HistoryInv, RollbackBound
<1>5. /\ pc \notin PersistPC
      /\ \/ pc' = "ensureBackup" /\ ram'.state = ram.state
         \/ pc' = "persistNoCandidate" /\ ram'.state \in {"INSTALLING", "FAILED"}
         \/ pc' = "persistBackup" /\ ram'.state = "BACKUP_VALID"
         \/ pc' = "persistInstalling" /\ ram'.state = "INSTALLING" /\ src' = "cand"
         \/ pc' = "backupErase" /\ ram'.state = ram.state
         \/ pc' = "persistNoBackup" /\ ram'.state = "FAILED"
         \/ pc' = "persistTrial" /\ ram'.state = "TRIAL_BOOT"
         \/ ForCandidate /\ pc' = "persistInstallFailed" /\ ram'.state = "INSTALLING"
         \/ pc = "checkRollback" /\ pc' = "persistRolling" /\ ram'.state = "ROLLING_BACK"
         \/ pc = "checkRollback" /\ pc' = "persistRollbackFailed" /\ ram'.state = "ROLLING_BACK"
         \/ pc' = "persistRolledBack" /\ ram'.state = "ROLLED_BACK"
         \/ /\ pc = "installFailed" /\ src = "rb"
            /\ pc' = "persistRollbackFailed" /\ ram'.state = "ROLLING_BACK"
      /\ pc' \in WorkLocs => pc \in WorkLocs /\ ram'.att = ram.att
      /\ pc' \in {"ensureBackup", "persistNoCandidate", "persistBackup", "persistInstalling",
                  "backupErase", "persistNoBackup"} => BeforeErase
  BY <1>1, <1>3, LocalShape
     DEF Moves, PersistPC, WorkLocs, MarkedLocs, InstallPC, BeforeErase, ForCandidate,
         HistoryInv, RollbackBound
<1>6. CandBound /\ NoneWhileDownloading /\ RollbackBound
  BY DEF HistoryInv
<1> USE DEF PersistPC, InstallPC, InstallPhase, RollbackPhase
<1>7. NoneWhileDownloading'
  BY <1>3, <1>5, <1>6 DEF NoneWhileDownloading
<1>8. CandBound'
  BY <1>3, <1>4, <1>5, <1>6, CountsAreInts
     DEF CandBound, WorkLocs, MarkedLocs, BeforeErase, ForCandidate
<1>9. RollbackBound'
  BY <1>3, <1>4, <1>5, <1>6, CountsAreInts
     DEF RollbackBound, CandBound, WorkLocs, MarkedLocs, BeforeRestore, BeforeErase
<1> QED
  BY <1>7, <1>8, <1>9 DEF HistoryInv

LEMMA HistoryKeptByFlash ==
  ASSUME HistoryInv, FlashWork, Observe, BackupInv' PROVE HistoryInv'
<1>1. /\ pc # "run" /\ pc \notin PersistPC /\ pc' \notin PersistPC
      /\ UNCHANGED <<meta, cand, ram, action, src>>
      /\ \/ pc \in {"backupErase", "backupCopy", "backupDone"} /\ ~Erasing
            /\ pc' \in {"backupCopy", "backupDone", "backupFailed"}
         \/ pc = "installErase" /\ pc' = "installErasing" /\ Erasing
         \/ pc \in InstallPC /\ ~Erasing
            /\ pc' \in {"installCopy", "installVectors", "installed", "installFailed"}
  BY DEF FlashWork, BackupErase, BackupCopy, BackupUnverified, InstallRefused, InstallErase,
         InstallErased, InstallCopy, InstallVectors, durable, locals, PersistPC, InstallPC, Erasing
<1>2. CandBound /\ NoneWhileDownloading /\ RollbackBound
  BY DEF HistoryInv
<1>3. src \in {"cand", "rb"}
  BY DEF HistoryInv, BackupInv, IInv, TypeOK
<1> USE DEF PersistPC, InstallPC, InstallPhase, RollbackPhase
<1>4. NoneWhileDownloading'
  BY <1>1, <1>2 DEF NoneWhileDownloading
<1>5. CASE ~Erasing
  <2>1. candErases' = candErases /\ rbErases' = rbErases
    BY <1>1, <1>5, CountersRest DEF HistoryInv, RollbackBound
  <2>2. CandBound'
    BY <1>1, <1>2, <1>5, <2>1, CountsAreInts
       DEF CandBound, WorkLocs, MarkedLocs, BeforeErase, ForCandidate
  <2>3. RollbackBound'
    BY <1>1, <1>2, <1>5, <2>1, CountsAreInts
       DEF RollbackBound, WorkLocs, MarkedLocs, BeforeRestore
  <2> QED
    BY <1>4, <2>2, <2>3 DEF HistoryInv
<1>6. CASE Erasing
  <2>1. pc = "installErase" /\ pc' = "installErasing"
    BY <1>6 DEF Erasing
  <2>2. CASE src = "cand"
    <3>1. candErases' = candErases + 1 /\ rbErases' = rbErases
      BY <1>1, <1>2, <1>6, <2>2, CandObserved, RollbackObserved DEF CandBound, RollbackBound
    <3>2. CandBound'
      BY <1>1, <1>2, <2>1, <2>2, <3>1, CountsAreInts
         DEF CandBound, WorkLocs, MarkedLocs, BeforeErase, ForCandidate
    <3>3. RollbackBound'
      BY <1>1, <1>2, <2>1, <2>2, <3>1, CountsAreInts DEF RollbackBound, BeforeRestore
    <3> QED
      BY <1>4, <3>2, <3>3 DEF HistoryInv
  <2>3. CASE src = "rb"
    <3>1. /\ candErases' = candErases
          /\ rbErases' = IF meta.state \in RollbackPhase THEN rbErases + 1 ELSE 0
      BY <1>1, <1>2, <1>6, <2>3, CandObserved, RollbackObserved DEF CandBound, RollbackBound
    <3>2. CandBound'
      BY <1>1, <1>2, <2>1, <2>3, <3>1, CountsAreInts
         DEF CandBound, WorkLocs, MarkedLocs, BeforeErase, ForCandidate
    <3>3. RollbackBound'
      BY <1>1, <1>2, <2>1, <2>3, <3>1, CountsAreInts
         DEF CandBound, RollbackBound, BeforeRestore, WorkLocs, MarkedLocs
    <3> QED
      BY <1>4, <3>2, <3>3 DEF HistoryInv
  <2> QED
    BY <1>3, <2>2, <2>3
<1> QED
  BY <1>5, <1>6

LEMMA HistoryKeptByBoot ==
  ASSUME HistoryInv, NEW flags, Boot(flags), Observe, BackupInv' PROVE HistoryInv'
<1> DEFINE valid == meta.state \notin PartialStates /\ IsAppValid(app)
<1>1. IInv
  BY DEF HistoryInv, BackupInv
<1>2. PICK d : /\ d = Decide(meta, flags, valid)
               /\ pc = "reset" /\ ram' = d.payload /\ action' = d.action
               /\ IF d.persist THEN pc' = "persistPolicy" ELSE pc' \in {"jump", "hold"}
               /\ UNCHANGED <<meta, cand>>
  BY <1>1, BootShape
<1>3. meta \in Payload /\ valid \in BOOLEAN
  BY <1>1 DEF IInv, TypeOK
<1> HIDE DEF valid
<1>4. /\ d.action = "INSTALL" => /\ d.payload.state = "INSTALLING"
                                 /\ meta.state \in InstallPhase /\ meta.att < MaxPhase
                                 /\ d.payload.att = meta.att + 1
      /\ d.payload.state \in InstallPhase => d.action = "INSTALL"
      /\ d.payload.state = "DOWNLOADING" => meta.state = "DOWNLOADING"
      /\ d.payload.state \in RollbackPhase =>
           IF meta.state \in RollbackPhase
           THEN /\ d.action = "ROLLBACK" => d.payload.att = meta.att + 1 /\ meta.att < MaxPhase
                /\ d.action # "ROLLBACK" => d.payload.att = meta.att
           ELSE d.payload.att = 0
      /\ d.action = "ROLLBACK" => d.payload.state \in RollbackPhase
  BY <1>2, <1>3, DecideCounts
<1>5. ~Erasing /\ pc # "run"
  BY <1>2 DEF Erasing
<1>6. CandBound /\ NoneWhileDownloading /\ RollbackBound
  BY DEF HistoryInv
<1>7. candErases' = candErases /\ rbErases' = rbErases
  BY <1>2, <1>5, <1>6, CountersRest DEF RollbackBound
<1>8. NoneWhileDownloading'
  BY <1>2, <1>4, <1>6 DEF NoneWhileDownloading
<1>9. pc' \in {"persistPolicy", "jump", "hold"} /\ (pc' = "persistPolicy" => ram' = d.payload)
  BY <1>2
<1>10. CandBound'
  BY <1>2, <1>4, <1>6, <1>7, <1>9, CountsAreInts
     DEF CandBound, WorkLocs, MarkedLocs, InstallPC, BeforeErase, ForCandidate
<1>11. RollbackBound'
  BY <1>2, <1>4, <1>6, <1>7, <1>9, CountsAreInts
     DEF RollbackBound, InstallPC, BeforeRestore
<1> QED
  BY <1>8, <1>10, <1>11 DEF HistoryInv

LEMMA HistoryKeptByApplication ==
  ASSUME HistoryInv, Application, Observe, BackupInv' PROVE HistoryInv'
<1>1. /\ pc = "run" /\ pc' = "run" /\ UNCHANGED <<ram, action, src>>
      /\ \/ meta'.state = "CONFIRMED" /\ cand' = cand
         \/ meta'.state = "DOWNLOADING" /\ cand' = BlankFlash
         \/ /\ meta.state = "DOWNLOADING" /\ \E i \in Image : cand' = Whole(i)
            /\ meta'.state \in {"CANDIDATE_VALID", "INSTALLING"} /\ meta'.att = 0
  BY ImageAssumption
     DEF Application, AppConfirm, AppBeginDownload, AppRequestInstall, locals, HistoryInv,
         BackupInv, IInv, TypeOK, Payload
<1>2. CandBound /\ NoneWhileDownloading /\ RollbackBound
  BY DEF HistoryInv
<1>3. rbErases' = 0
  BY <1>1, <1>2, RollbackObserved DEF RollbackBound, RollbackPhase
<1>4. candErases' \in {0, candErases} /\ (cand' # cand => candErases' = 0)
  BY <1>1, <1>2, CandObserved DEF CandBound
<1>5. meta.state = "DOWNLOADING" => cand = BlankFlash
  BY <1>2 DEF NoneWhileDownloading
<1>6. meta'.state \in InstallPhase => meta'.att = 0 /\ candErases' = 0
  BY <1>1, <1>4, <1>5, ImageAssumption DEF InstallPhase, Whole, BlankFlash
<1>7. NoneWhileDownloading'
  BY <1>1 DEF NoneWhileDownloading, PersistPC
<1>8. CandBound'
  BY <1>1, <1>2, <1>4, <1>6, CountsAreInts
     DEF CandBound, WorkLocs, MarkedLocs, InstallPC, BeforeErase, ForCandidate, PersistPC
<1>9. RollbackBound'
  BY <1>1, <1>3, CountsAreInts
     DEF RollbackBound, InstallPC, BeforeRestore, PersistPC, RollbackPhase
<1> QED
  BY <1>7, <1>8, <1>9 DEF HistoryInv

LEMMA HistoryKept == HistoryInv /\ [HNext]_hvars => HistoryInv'
<1> SUFFICES ASSUME HistoryInv, [HNext]_hvars PROVE HistoryInv'
  OBVIOUS
<1>1. BackupInv /\ BackupInv'
  BY BackupKept DEF HistoryInv, HNext, hvars
<1> USE DEF PersistPC, InstallPC, CandBound, NoneWhileDownloading, RollbackBound, WorkLocs,
            MarkedLocs, BeforeErase, ForCandidate, BeforeRestore
<1>2. CASE UNCHANGED hvars
  BY <1>1, <1>2 DEF hvars, vars, HistoryInv
<1>3. CASE (Reset \/ BootUnreadable \/ JumpOrHold) /\ Observe
  <2>1. /\ pc' \in {"reset", "hold", "run"} /\ ~Erasing /\ UNCHANGED <<meta, cand>>
    BY <1>3 DEF Reset, BootUnreadable, JumpOrHold, durable, Erasing
  <2>2. candErases' = candErases /\ rbErases' = rbErases
    BY <1>3, <2>1, CandObserved, RollbackObserved DEF HistoryInv
  <2> QED
    BY <1>1, <2>1, <2>2 DEF HistoryInv
<1>4. CASE (\E flags \in SUBSET ResetFlag : Boot(flags)) /\ Observe
  BY <1>1, <1>4, HistoryKeptByBoot
<1>5. CASE Appends /\ Observe
  BY <1>1, <1>5, HistoryKeptByAppends
<1>6. CASE Locals /\ Observe
  BY <1>1, <1>6, HistoryKeptByLocals
<1>7. CASE FlashWork /\ Observe
  BY <1>1, <1>7, HistoryKeptByFlash
<1>8. CASE Application /\ Observe
  BY <1>1, <1>8, HistoryKeptByApplication
<1> QED
  BY <1>2, <1>3, <1>4, <1>5, <1>6, <1>7, <1>8
     DEF HNext, Next, Decisions, Prepare, InstallSlot, AfterInstall, Appends, Locals, FlashWork

(* Across any number of resets, with failing appends, erases and copies:   *)
(* the application is erased for one requested candidate at most MaxPhase  *)
(* times (DecideInstall and the order in which Bootloader_Run makes the    *)
(* decision durable).                                                      *)
THEOREM RetriesBounded == HSpec => []CandidateErasesBounded
<1>1. HistoryInv => CandidateErasesBounded
  BY CountsAreInts DEF CandidateErasesBounded
<1> QED
  BY <1>1, HistoryInitially, HistoryKept, PTL DEF HSpec

(* Under the same faults a rollback phase erases the application at most   *)
(* MaxPhase + 1 times (DecideTrial, DecideRollback).  The limit that       *)
(* README.md:120 names, PhaseErasesBounded, is exceeded by that one.       *)
THEOREM RollbackRetriesEnd == HSpec => []RollbackErasesEnd
<1>1. HistoryInv => RollbackErasesEnd
  BY CountsAreInts DEF RollbackErasesEnd
<1> QED
  BY <1>1, HistoryInitially, HistoryKept, PTL DEF HSpec

-----------------------------------------------------------------------------
(* The starts of an unconfirmed image are bounded *)

(* For a log whose appends succeed.                                        *)
TrialInv == ~StorageFaults /\ BackupInv /\ TrialBound

LEMMA TrialInitially == ~StorageFaults /\ HInit => TrialInv
<1> SUFFICES ASSUME ~StorageFaults, HInit PROVE TrialInv
  OBVIOUS
<1>1. /\ BackupInv /\ pc = "reset" /\ meta = IdlePayload /\ trials = 0 /\ ~shadow
  BY BackupInitially DEF HInit, Init
<1> QED
  BY <1>1, LimitsAssumption DEF TrialInv, TrialBound, PersistPC, IdlePayload

LEMMA TrialObserved ==
  ASSUME trials \in 0 .. MaxTrial, Observe
  PROVE  /\ pc = "installVectors" /\ pc' = "installed" => trials' = 0
         /\ pc = "run" /\ pc' = "run" /\ meta'.state # meta.state => trials' = 0
         /\ pc = "run" /\ meta'.state = meta.state => trials' = trials
         /\ pc = "jump" /\ pc' = "run" /\ meta.state = "TRIAL_BOOT" => trials' = trials + 1
         /\ pc = "jump" /\ ~(pc' = "run" /\ meta.state = "TRIAL_BOOT") => trials' = trials
         /\ pc \notin {"jump", "run", "installVectors"} => trials' = trials
         /\ pc = "installVectors" /\ pc' # "installed" => trials' = trials
<1>1. trials' =
        CASE pc = "installVectors" /\ pc' = "installed" -> 0
          [] pc = "run" /\ meta'.state # meta.state -> 0
          [] pc = "jump" /\ pc' = "run" /\ meta.state = "TRIAL_BOOT" -> Counted(trials)
          [] OTHER -> trials
  BY DEF Observe
<1>2. Counted(trials) = trials + 1
  BY LimitsAssumption DEF Counted, Cap
<1>3. CASE pc = "installVectors" /\ pc' = "installed"
  BY <1>1, <1>3
<1>4. CASE pc = "run" /\ meta'.state # meta.state
  BY <1>1, <1>4
<1>5. CASE pc = "jump" /\ pc' = "run" /\ meta.state = "TRIAL_BOOT"
  BY <1>1, <1>2, <1>5
<1>6. CASE /\ ~(pc = "installVectors" /\ pc' = "installed")
           /\ ~(pc = "run" /\ meta'.state # meta.state)
           /\ ~(pc = "jump" /\ pc' = "run" /\ meta.state = "TRIAL_BOOT")
  BY <1>1, <1>6
<1> QED
  BY <1>3, <1>4, <1>5, <1>6

(* Appends that succeed leave no doubt about the newest payload.           *)
LEMMA AppendSucceeds ==
  ASSUME TrialInv, Appends
  PROVE  /\ meta' = ram /\ ~shadow' /\ UNCHANGED <<ram, action, src>>
         /\ pc \in PersistPC
         /\ pc' = "jump" => \/ pc = "persistPolicy" /\ action = "JUMP"
                            \/ pc \in {"persistNoCandidate", "persistNoBackup", "persistTrial",
                                       "persistRolledBack"}
         /\ pc' \notin PersistPC \cup {"installed", "run"}
<1>1. ASSUME NEW at, NEW onOk, NEW onFail, Persist(at, onOk, onFail)
      PROVE  /\ pc = at /\ pc' = onOk /\ meta' = ram /\ shadow' = FALSE
             /\ UNCHANGED <<ram, action, src>>
  BY <1>1 DEF Persist, TrialInv, TrialBound
<1>2. meta' = ram /\ shadow' = FALSE /\ UNCHANGED <<ram, action, src>>
  BY <1>1 DEF Appends, PersistPolicy, PersistNoCandidate, PersistNoBackup, PersistBackup,
       PersistInstalling, PersistTrial, PersistInstallFailed, PersistRolling,
       PersistRolledBack, PersistRollbackFailed
<1>3. PersistBackup => pc' = "markInstalling"
  BY <1>1 DEF PersistBackup
<1>4. PersistInstalling => pc' = "installErase"
  BY <1>1 DEF PersistInstalling
<1>5. IInv
  BY DEF TrialInv, BackupInv
<1>6. pc = "persistBackup" => PersistBackup
  BY DEF Appends, PersistPolicy, PersistNoCandidate, PersistNoBackup,
       PersistInstalling, PersistTrial, PersistInstallFailed, PersistRolling,
       PersistRolledBack, PersistRollbackFailed, Persist
<1>7. pc = "persistInstalling" => PersistInstalling
  BY DEF Appends, PersistPolicy, PersistNoCandidate, PersistNoBackup, PersistBackup,
       PersistTrial, PersistInstallFailed, PersistRolling,
       PersistRolledBack, PersistRollbackFailed, Persist
<1> QED
  BY <1>2, <1>3, <1>4, <1>5, <1>6, <1>7, AppendShape DEF Appended, PersistPC

LEMMA TrialKept == TrialInv /\ [HNext]_hvars => TrialInv'
<1> SUFFICES ASSUME TrialInv, [HNext]_hvars PROVE TrialInv'
  OBVIOUS
<1>1. BackupInv /\ BackupInv' /\ IInv /\ ~StorageFaults
  BY BackupKept DEF TrialInv, HNext, hvars, BackupInv
<1>2. /\ MaxTrial \in Nat /\ MaxTrial >= 1 /\ trials \in Nat /\ trials <= MaxTrial
      /\ meta.trial \in Nat /\ ram.trial \in Nat
  BY <1>1, LimitsAssumption DEF TrialInv, TrialBound, IInv, TypeOK, Payload, Counter
<1>3. SUFFICES TrialBound'
  BY <1>1 DEF TrialInv
<1>4. TrialBound /\ trials \in 0 .. MaxTrial
  BY DEF TrialInv, TrialBound
<1>5. CASE UNCHANGED hvars
  BY <1>4, <1>5 DEF hvars, vars, TrialBound
<1>6. CASE (Reset \/ BootUnreadable) /\ Observe
  <2>1. /\ pc' \in {"reset", "hold"} /\ UNCHANGED <<meta, cand>> /\ ~shadow'
        /\ (pc' = "hold" => pc = "reset")
    BY <1>4, <1>6 DEF Reset, BootUnreadable, durable, locals, TrialBound
  <2>2. trials' = trials
    BY <1>4, <1>6, <2>1, TrialObserved
  <2> QED
    BY <1>2, <1>4, <2>1, <2>2 DEF TrialBound, PersistPC
<1>7. CASE JumpOrHold /\ Observe
  <2>1. pc = "jump" /\ pc' \in {"run", "hold"} /\ UNCHANGED <<meta, shadow>>
    BY <1>7 DEF JumpOrHold, durable, locals
  <2>2. trials' = IF pc' = "run" /\ meta.state = "TRIAL_BOOT" THEN trials + 1 ELSE trials
    BY <1>4, <1>7, <2>1, TrialObserved
  <2> QED
    BY <1>2, <1>4, <2>1, <2>2 DEF TrialBound, PersistPC
<1>8. ASSUME NEW flags, Boot(flags), Observe PROVE TrialBound'
  <2> DEFINE valid == meta.state \notin PartialStates /\ IsAppValid(app)
  <2>1. PICK d : /\ d = Decide(meta, flags, valid)
                 /\ d \in Decision
                 /\ pc = "reset" /\ ram' = d.payload /\ action' = d.action
                 /\ IF d.persist THEN pc' = "persistPolicy"
                    ELSE \/ pc' = "jump" /\ d.action = "JUMP"
                         \/ pc' = "hold" /\ d.action = "HOLD"
                 /\ UNCHANGED <<meta, shadow>>
    BY <1>1, <1>8, BootShape
  <2>2. meta \in Payload /\ valid \in BOOLEAN
    BY <1>1 DEF IInv, TypeOK
  <2> HIDE DEF valid
  <2>3. /\ d.payload.state = "TRIAL_BOOT" =>
             /\ meta.state = "TRIAL_BOOT" /\ meta.trial < MaxTrial
             /\ d.payload.trial = meta.trial + 1
        /\ meta.state = "TRIAL_BOOT" => d.persist
        /\ d.action = "JUMP" => d.payload.state = meta.state
    BY <2>1, <2>2, DecideCounts
  <2>4. trials' = trials
    BY <1>4, <1>8, <2>1, TrialObserved
  <2>5. /\ pc' \in {"persistPolicy", "jump", "hold"}
        /\ pc' = "jump" => meta.state # "TRIAL_BOOT"
    BY <2>1, <2>3
  <2> QED
    BY <1>2, <1>4, <2>1, <2>3, <2>4, <2>5 DEF TrialBound, PersistPC
<1>9. CASE Appends /\ Observe
  <2>1. /\ meta' = ram /\ ~shadow' /\ UNCHANGED <<ram, action, src>>
        /\ pc \in PersistPC
        /\ pc' = "jump" => \/ pc = "persistPolicy" /\ action = "JUMP"
                           \/ pc \in {"persistNoCandidate", "persistNoBackup", "persistTrial",
                                      "persistRolledBack"}
        /\ pc' \notin PersistPC \cup {"installed", "run"}
    BY <1>9, AppendSucceeds
  <2>2. trials' = trials
    BY <1>4, <1>9, <2>1, TrialObserved DEF PersistPC
  <2> QED
    BY <1>2, <1>4, <2>1, <2>2 DEF TrialBound, PersistPC
<1>10. CASE Locals /\ Observe
  <2>1. /\ UNCHANGED <<meta, action, shadow>>
        /\ pc' \in {"ensureBackup", "backupErase", "persistNoCandidate", "persistBackup",
                    "persistInstalling", "persistNoBackup", "persistTrial",
                    "persistInstallFailed", "persistRolling", "persistRollbackFailed",
                    "persistRolledBack"}
        /\ pc \notin {"jump", "run", "installVectors"}
        /\ pc' = "persistTrial" =>
             pc = "installed" /\ ram'.state = "TRIAL_BOOT" /\ ram'.trial = 1
    BY <1>1, <1>10, LocalShape DEF Moves
  <2>2. pc' \in PersistPC \ {"persistTrial"} => ram'.state # "TRIAL_BOOT"
    <3>1. pc = "installFailed" /\ src = "rb" => ram.state \in PartialStates
      BY <1>1 DEF IInv, Unmarking
    <3> QED
      BY <1>1, <1>10, <3>1, LocalShape DEF Moves, PersistPC, PartialStates
  <2>3. trials' = trials
    BY <1>4, <1>10, <2>1, TrialObserved
  <2> QED
    BY <1>2, <1>4, <2>1, <2>2, <2>3 DEF TrialBound, PersistPC
<1>11. CASE FlashWork /\ Observe
  <2>1. /\ UNCHANGED <<meta, ram, action, shadow>> /\ pc \notin {"jump", "run"}
        /\ pc' \notin PersistPC \cup {"jump", "run"}
        /\ pc' = "installed" => pc = "installVectors"
    BY <1>11
       DEF FlashWork, BackupErase, BackupCopy, BackupUnverified, InstallRefused, InstallErase,
           InstallErased, InstallCopy, InstallVectors, durable, locals, PersistPC
  <2>2. trials' = IF pc' = "installed" THEN 0 ELSE trials
    BY <1>4, <1>11, <2>1, TrialObserved
  <2> QED
    BY <1>2, <1>4, <2>1, <2>2 DEF TrialBound, PersistPC
<1>12. CASE Application /\ Observe
  <2>1. /\ pc = "run" /\ pc' = "run" /\ UNCHANGED <<ram, action, shadow>>
        /\ meta'.state # "TRIAL_BOOT"
    BY <1>1, <1>12, ImageAssumption
       DEF Application, AppConfirm, AppBeginDownload, AppRequestInstall, locals,
           IInv, TypeOK, Payload
  <2>2. trials' \in {0, trials}
    BY <1>4, <1>12, <2>1, TrialObserved
  <2> QED
    BY <1>2, <1>4, <2>1, <2>2 DEF TrialBound, PersistPC
<1> QED
  BY <1>5, <1>6, <1>7, <1>8, <1>9, <1>10, <1>11, <1>12
     DEF HNext, Next, Decisions, Prepare, InstallSlot, AfterInstall, Appends, Locals, FlashWork

(* With an upgrade log whose appends succeed, an image that nobody         *)
(* confirmed is started at most MaxTrial times, wherever the resets fall   *)
(* (DecideTrial, and the first trial that the install itself counts).      *)
THEOREM TrialsCounted == ~StorageFaults /\ HSpec => []TrialsBounded
<1>1. TrialInv => TrialsBounded
  BY LimitsAssumption DEF TrialInv, TrialBound, TrialsBounded
<1> QED
  BY <1>1, TrialInitially, TrialKept, PTL DEF HSpec

=============================================================================
