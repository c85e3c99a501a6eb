----------------------------- MODULE Bootloader -----------------------------
(***************************************************************************)
(* Bootloader_Run (Src/Bootloader/bootloader.c): read the upgrade log,     *)
(* decide, persist the decision, install the candidate or roll back, jump. *)
(*                                                                         *)
(* Durable state: the newest payload of the upgrade log, the candidate and *)
(* rollback slots of the external Flash, and the internal application      *)
(* Flash.  Everything else is RAM of one boot.  A step makes at most one   *)
(* durable change, so that a reset (power cut, watchdog, pin) can fall     *)
(* between any two of them.                                                *)
(*                                                                         *)
(* A content (of a slot or of the application Flash) is the image whose    *)
(* boot vectors are there and the image whose body is there.  BlankFlash   *)
(* stands for an erased application and for a slot StorageFirmware_IsValid *)
(* refuses.                                                                *)
(***************************************************************************)
EXTENDS BootPolicy

CONSTANTS
  Image,          \* firmware images
  Bootable,       \* the images whose vectors pass Bootloader_IsAppValid
  NoImage,        \* erased, torn or unverifiable contents
  RequestStates,  \* the states the application may persist to request an install
  StorageFaults,  \* TRUE: calls on the external Flash may fail
  FlashFaults     \* TRUE: internal Flash erase and program may fail

ASSUME ImageAssumption ==
  /\ Bootable \subseteq Image
  /\ NoImage \notin Image
  /\ StorageFaults \in BOOLEAN
  /\ FlashFaults \in BOOLEAN
  /\ RequestStates \subseteq {"CANDIDATE_VALID", "INSTALLING"}

VARIABLES
  meta,        \* newest payload of the upgrade log
  cand,        \* candidate slot
  rb,          \* rollback slot
  app,         \* internal application Flash
  pc,          \* where the processor is
  ram,         \* Bootloader_Run's copy of the payload, "state"
  partial,     \* app_may_be_partial
  action,      \* pout.action
  src,         \* the slot InstallSlot copies from
  haveBackup,  \* backup_available
  shadow       \* a failed append of this boot did reach the Flash

durable == <<meta, cand, rb, app>>
locals  == <<ram, partial, action, src, haveBackup, shadow>>
vars    == <<meta, cand, rb, app, pc, ram, partial, action, src, haveBackup,
             shadow>>

Content == [vec : Image \cup {NoImage}, body : Image \cup {NoImage}]
BlankFlash   == [vec |-> NoImage, body |-> NoImage]

Whole(i)    == [vec |-> i, body |-> i]
Complete(c) == c.vec \in Image /\ c.body = c.vec

(* Bootloader_IsAppValid looks at the two vector words only.               *)
IsAppValid(c) == c.vec \in Bootable

(* StorageFirmware_IsValid of a slot.                                      *)
SlotIsValid(c) == c # BlankFlash

PersistPC == {"persistPolicy", "persistNoCandidate", "persistBackup",
              "persistNoBackup", "persistInstalling", "persistTrial",
              "persistInstallFailed", "persistRolling", "persistRolledBack",
              "persistRollbackFailed"}

InstallPC == {"installErase", "installErasing", "installCopy",
              "installVectors"}

PC == PersistPC \cup InstallPC \cup
      {"reset", "run", "hold", "jump", "checkCandidate", "ensureBackup",
       "backupErase", "backupCopy", "backupDone", "backupFailed",
       "markInstalling", "installed",
       "installFailed", "checkRollback"}

(* The states that make the bootloader distrust the application's vectors. *)
PartialStates == {"INSTALLING", "BACKUP_VALID", "ROLLBACK_PENDING",
                  "ROLLING_BACK"}

TypeOK ==
  /\ meta \in Payload
  /\ cand \in Content
  /\ rb \in Content
  /\ app \in Content
  /\ pc \in PC
  /\ ram \in Payload
  /\ partial \in BOOLEAN
  /\ action \in BootAction
  /\ src \in {"cand", "rb"}
  /\ haveBackup \in BOOLEAN
  /\ shadow \in BOOLEAN

(* A programmed board: an application, an empty log, no candidate; the     *)
(* rollback slot is empty or holds an image of an older upgrade.           *)
Init ==
  /\ \E i \in Bootable : app = Whole(i)
  /\ meta = IdlePayload
  /\ cand = BlankFlash
  /\ rb \in {BlankFlash} \cup {Whole(i) : i \in Bootable}
  /\ pc = "reset"
  /\ ram = IdlePayload
  /\ partial = FALSE
  /\ action = "JUMP"
  /\ src = "cand"
  /\ haveBackup = FALSE
  /\ shadow = FALSE

-----------------------------------------------------------------------------
(* Building blocks *)

(* Where Run continues once the decision d is persisted.                   *)
Dispatch(d) ==
  CASE d = "INSTALL"  -> "checkCandidate"
    [] d = "ROLLBACK" -> "checkRollback"
    [] d = "HOLD"     -> "hold"
    [] OTHER          -> "jump"

(* Mutant: an append that fails may empty the log.                         *)
PersistLosing(at, onOk, onFail) ==
  /\ pc = at
  /\ \/ pc' = onOk /\ meta' = ram
     \/ StorageFaults /\ pc' = onFail /\ meta' \in {meta, ram, IdlePayload}
  /\ UNCHANGED <<cand, rb, app, ram, partial, action, src, haveBackup, shadow>>

(* Persist = StorageUpgrade_Append of ram.  A failed append may still have *)
(* committed its record; the next append of the same boot then reuses its  *)
(* sequence number and LoadLatest keeps answering with the first of the    *)
(* two ("shadow").  See UpgradeLog for the log itself.                     *)
Persist(at, onOk, onFail) ==
  /\ pc = at
  /\ \/ /\ pc' = onOk
        /\ meta' \in IF shadow THEN {ram, meta} ELSE {ram}
        /\ shadow' = FALSE
     \/ /\ StorageFaults
        /\ pc' = onFail
        /\ \/ UNCHANGED <<meta, shadow>>
           \/ meta' = ram /\ shadow' = TRUE
  /\ UNCHANGED <<cand, rb, app, ram, partial, action, src, haveBackup>>

(* A change of RAM only.                                                   *)
Local(at, next, newRam, backup, from) ==
  /\ pc = at
  /\ pc' = next
  /\ ram' = newRam
  /\ haveBackup' = backup
  /\ src' = from
  /\ UNCHANGED <<durable, partial, action, shadow>>

SetState(s) == [ram EXCEPT !.state = s]

(* SlotIsValid answers FALSE for a slot that cannot be read.               *)
Readable(slot, answer) ==
  \/ answer = SlotIsValid(slot)
  \/ StorageFaults /\ answer = FALSE

-----------------------------------------------------------------------------
(* Reset, decision, jump *)

(* Power cut, watchdog or pin reset: RAM is lost.                          *)
Reset ==
  /\ pc # "reset"
  /\ pc' = "reset"
  /\ ram' = IdlePayload
  /\ partial' = FALSE
  /\ action' = "JUMP"
  /\ src' = "cand"
  /\ haveBackup' = FALSE
  /\ shadow' = FALSE
  /\ UNCHANGED durable

(* Unreadable recovery metadata: fail closed.                              *)
BootUnreadable ==
  /\ pc = "reset"
  /\ StorageFaults
  /\ pc' = "hold"
  /\ UNCHANGED <<durable, locals>>

(* Read the log, note whether the application may be partial, decide.      *)
Boot(flags) ==
  LET p == meta.state \in PartialStates
      d == Decide(meta, flags, ~p /\ IsAppValid(app))
  IN  /\ pc = "reset"
      /\ partial' = p
      /\ ram' = d.payload
      /\ action' = d.action
      /\ pc' = IF d.persist THEN "persistPolicy" ELSE Dispatch(d.action)
      /\ UNCHANGED <<durable, src, haveBackup, shadow>>

(* Mutant: every boot whose decision could not be persisted jumps.         *)
PersistPolicyAlwaysJumps == Persist("persistPolicy", Dispatch(action), "jump")

(* The decision is durable before anything is erased; only a boot that     *)
(* would jump anyway goes on without it.                                   *)
PersistPolicy ==
  Persist("persistPolicy", Dispatch(action),
          IF action = "JUMP" THEN "jump" ELSE "hold")

(* JumpOrHold re-reads the vectors and ignores every marker.               *)
JumpOrHold ==
  /\ pc = "jump"
  /\ pc' = IF IsAppValid(app) THEN "run" ELSE "hold"
  /\ UNCHANGED <<durable, locals>>

(* Mutant: giving up never holds a board with a torn application.          *)
GiveUpAlwaysJumps == "jump"

(* Where Run goes when it gives up before the first erase.                 *)
GiveUp == IF partial THEN "hold" ELSE "jump"

-----------------------------------------------------------------------------
(* Install: candidate check and backup of the running application *)

CandidateUsable ==
  /\ SlotIsValid(cand)
  /\ Local("checkCandidate", "ensureBackup", ram, FALSE, src)

(* Mutant: the recovery marker is cleared whatever the application.        *)
CandidateUnusableClears ==
  /\ Readable(cand, FALSE)
  /\ Local("checkCandidate", "persistNoCandidate", SetState("FAILED"), FALSE, src)

CandidateUnusable ==
  /\ Readable(cand, FALSE)
  /\ Local("checkCandidate", "persistNoCandidate",
           SetState(IF partial THEN "INSTALLING" ELSE "FAILED"), FALSE, src)

PersistNoCandidate == Persist("persistNoCandidate", GiveUp, GiveUp)

(* EnsureRollbackBackup: a retry keeps a valid rollback slot, an           *)
(* application that may be partial is never backed up.                     *)
(* Mutant: plausible vectors suffice for a backup.                         *)
AppTrustedByVectors == IsAppValid(app)

AppTrusted == ~partial /\ IsAppValid(app)

(* Mutant: the first attempt, too, keeps a rollback slot that is valid.    *)
KeepRollbackAlways ==
  /\ Readable(rb, TRUE)
  /\ Local("ensureBackup", "persistBackup", SetState("BACKUP_VALID"), TRUE, src)

KeepRollback ==
  /\ Readable(rb, TRUE)
  /\ ram.att > 1 \/ ~AppTrusted
  /\ Local("ensureBackup", "persistBackup", SetState("BACKUP_VALID"), TRUE, src)

NoRollback ==
  /\ Readable(rb, FALSE)
  /\ ~AppTrusted
  /\ Local("ensureBackup", "persistInstalling", SetState("INSTALLING"),
           FALSE, "cand")

(* Mutant: any first attempt backs up what is in the application Flash.    *)
StartBackupUntrusted ==
  /\ \/ ram.att <= 1
     \/ Readable(rb, FALSE)
  /\ Local("ensureBackup", "backupErase", ram, FALSE, src)

StartBackup ==
  /\ AppTrusted
  /\ \/ ram.att <= 1
     \/ Readable(rb, FALSE)
  /\ Local("ensureBackup", "backupErase", ram, FALSE, src)

(* BackupCurrentApplication: BeginWrite erases the slot ...                *)
BackupErase ==
  /\ pc = "backupErase"
  /\ \/ pc' = "backupCopy" /\ rb' = BlankFlash
     \/ StorageFaults /\ pc' = "backupFailed" /\ rb' \in {rb, BlankFlash}
  /\ UNCHANGED <<meta, cand, app, locals>>

(* ... and Finish commits the manifest over the copied application.        *)
BackupCopy ==
  /\ pc = "backupCopy"
  /\ \/ pc' = "backupDone" /\ rb' = app
     \/ StorageFaults /\ pc' = "backupFailed" /\ rb' \in {rb, app}
  /\ UNCHANGED <<meta, cand, app, locals>>

(* The committed slot is read back before it counts as a backup.           *)
BackupVerified ==
  /\ Readable(rb, TRUE)
  /\ Local("backupDone", "persistBackup", SetState("BACKUP_VALID"), TRUE, src)

BackupUnverified ==
  /\ pc = "backupDone"
  /\ Readable(rb, FALSE)
  /\ pc' = "backupFailed"
  /\ UNCHANGED <<durable, locals>>

BackupFailed ==
  Local("backupFailed", "persistNoBackup", SetState("FAILED"), FALSE, src)

PersistNoBackup == Persist("persistNoBackup", "jump", "jump")

(* BACKUP_VALID, then INSTALLING again: the intent is durable twice before *)
(* the first erase.                                                        *)
PersistBackup == Persist("persistBackup", "markInstalling", GiveUp)

MarkInstalling ==
  Local("markInstalling", "persistInstalling", SetState("INSTALLING"),
        haveBackup, "cand")

(* Mutant: the result of the append is ignored.                            *)
PersistInstallingUnchecked ==
  Persist("persistInstalling", "installErase", "installErase")

PersistInstalling == Persist("persistInstalling", "installErase", GiveUp)

-----------------------------------------------------------------------------
(* InstallSlot, for the candidate and for a rollback *)

Source == IF src = "cand" THEN cand ELSE rb

(* A candidate built for another address, or an unreadable rollback slot,  *)
(* is refused before the erase.                                            *)
InstallRefused ==
  /\ pc = "installErase"
  /\ src = "cand" \/ StorageFaults \/ ~SlotIsValid(Source)
  /\ pc' = "installFailed"
  /\ UNCHANGED <<durable, locals>>

(* The erase begins: the body is gone, the vectors may outlive a torn one. *)
InstallErase ==
  /\ pc = "installErase"
  /\ SlotIsValid(Source)
  /\ pc' = "installErasing"
  /\ app' = [app EXCEPT !.body = NoImage]
  /\ UNCHANGED <<meta, cand, rb, locals>>

InstallErased ==
  /\ pc = "installErasing"
  /\ \/ pc' = "installCopy" /\ app' = BlankFlash
     \/ FlashFaults /\ pc' = "installFailed" /\ app' \in {app, BlankFlash}
  /\ UNCHANGED <<meta, cand, rb, locals>>

(* Body copied, compared and CRC-checked with the vectors still erased.    *)
InstallCopy ==
  /\ pc = "installCopy"
  /\ \/ pc' = "installVectors" /\ app' = [app EXCEPT !.body = Source.body]
     \/ /\ FlashFaults \/ StorageFaults
        /\ pc' = "installFailed"
        /\ app' \in {app, [app EXCEPT !.body = Source.body]}
  /\ UNCHANGED <<meta, cand, rb, locals>>

(* The vectors are programmed last; the result must pass IsAppValid.       *)
InstallVectors ==
  /\ pc = "installVectors"
  /\ \/ /\ app' = [app EXCEPT !.vec = Source.vec]
        /\ pc' = IF IsAppValid(app') THEN "installed" ELSE "installFailed"
     \/ /\ FlashFaults
        /\ app' \in {app, [app EXCEPT !.vec = Source.vec]}
        /\ pc' = "installFailed"
  /\ UNCHANGED <<meta, cand, rb, locals>>

(* Mutant: the jump that follows the install is not counted as a trial.    *)
CandidateInstalledUncounted ==
  /\ src = "cand"
  /\ Local("installed", "persistTrial",
           [state |-> "TRIAL_BOOT", trial |-> 0, wd |-> 0, att |-> 0],
           haveBackup, src)

(* A complete candidate starts its trial with one boot already counted.    *)
CandidateInstalled ==
  /\ src = "cand"
  /\ Local("installed", "persistTrial",
           [state |-> "TRIAL_BOOT", trial |-> 1, wd |-> 0, att |-> 0],
           haveBackup, src)

PersistTrial == Persist("persistTrial", "jump", "jump")

CandidateFailed ==
  /\ src = "cand"
  /\ Local("installFailed", "persistInstallFailed", SetState("INSTALLING"),
           haveBackup, src)

(* A failed install with a backup rolls back in the same boot.             *)
PersistInstallFailed ==
  LET next == IF haveBackup THEN "checkRollback" ELSE "hold"
  IN  Persist("persistInstallFailed", next, next)

-----------------------------------------------------------------------------
(* DoRollback *)

RollbackUsable ==
  /\ Readable(rb, TRUE)
  /\ Local("checkRollback", "persistRolling", SetState("ROLLING_BACK"),
           haveBackup, "rb")

(* No readable rollback image: keep the recovery marker, never jump.       *)
RollbackUnusable ==
  /\ Readable(rb, FALSE)
  /\ Local("checkRollback", "persistRollbackFailed", SetState("ROLLING_BACK"),
           haveBackup, "rb")

PersistRolling == Persist("persistRolling", "installErase", "hold")

RollbackInstalled ==
  /\ src = "rb"
  /\ Local("installed", "persistRolledBack",
           [state |-> "ROLLED_BACK", trial |-> 0, wd |-> 0, att |-> 0],
           haveBackup, src)

PersistRolledBack == Persist("persistRolledBack", "jump", "jump")

RollbackFailed ==
  /\ src = "rb"
  /\ Local("installFailed", "persistRollbackFailed", ram, haveBackup, src)

PersistRollbackFailed == Persist("persistRollbackFailed", "hold", "hold")

-----------------------------------------------------------------------------
(* The application: product code, modelled from the flow the README lists. *)

(* UpgradeControl_OnHealthyBoot: a trial that works is confirmed.          *)
AppConfirm ==
  /\ pc = "run"
  /\ meta.state = "TRIAL_BOOT"
  /\ meta' = [meta EXCEPT !.state = "CONFIRMED", !.trial = 0]
  /\ UNCHANGED <<cand, rb, app, pc, locals>>

(* A download erases the candidate slot first.                             *)
AppBeginDownload ==
  /\ pc = "run"
  /\ cand' = BlankFlash
  /\ meta' = [meta EXCEPT !.state = "DOWNLOADING"]
  /\ UNCHANGED <<rb, app, pc, locals>>

(* A finished, verified download asks the next boot for an install: with    *)
(* INSTALLING as README.md:111 has it, or with CANDIDATE_VALID.             *)
AppRequestInstall(i) ==
  /\ pc = "run"
  /\ meta.state = "DOWNLOADING"
  /\ cand' = Whole(i)
  /\ \E s \in RequestStates : meta' = [meta EXCEPT !.state = s, !.att = 0]
  /\ UNCHANGED <<rb, app, pc, locals>>

-----------------------------------------------------------------------------

Decisions == (\E flags \in SUBSET ResetFlag : Boot(flags)) \/ BootUnreadable

Prepare ==
  \/ CandidateUsable \/ CandidateUnusable \/ PersistNoCandidate
  \/ KeepRollback \/ NoRollback \/ StartBackup
  \/ BackupErase \/ BackupCopy \/ BackupVerified \/ BackupUnverified
  \/ BackupFailed \/ PersistNoBackup
  \/ PersistBackup \/ MarkInstalling \/ PersistInstalling

InstallSlot ==
  InstallRefused \/ InstallErase \/ InstallErased \/ InstallCopy \/ InstallVectors

AfterInstall ==
  \/ CandidateInstalled \/ PersistTrial \/ CandidateFailed \/ PersistInstallFailed
  \/ RollbackUsable \/ RollbackUnusable \/ PersistRolling
  \/ RollbackInstalled \/ PersistRolledBack
  \/ RollbackFailed \/ PersistRollbackFailed

Application ==
  \/ AppConfirm
  \/ AppBeginDownload
  \/ \E i \in Image : AppRequestInstall(i)

Next ==
  \/ Reset
  \/ Decisions
  \/ PersistPolicy
  \/ JumpOrHold
  \/ Prepare
  \/ InstallSlot
  \/ AfterInstall
  \/ Application

Spec == Init /\ [][Next]_vars

(* The processor executes: an enabled step of the boot code is eventually  *)
(* taken unless a reset comes first; resets keep coming (the watchdog sees *)
(* to that for an image that hangs, the user for a held board); and they   *)
(* do not strike every single boot before its first append or its first    *)
(* failing erase or copy.                                                  *)
Fairness ==
  /\ WF_vars(Reset)
  /\ WF_vars(Decisions)
  /\ SF_vars(PersistPolicy)

-----------------------------------------------------------------------------
(* Properties *)

(* The application that runs is whole: its vectors and its body are those  *)
(* of one image.  Bootloader_IsAppValid sees the vectors only, so this is  *)
(* what the persisted markers and the vectors-last order are for.          *)
RunsOnlyComplete == pc = "run" => Complete(app) /\ IsAppValid(app)

(* An application that is not whole is marked as such in the log.          *)
IncompleteIsMarked == ~Complete(app) => meta.state \in PartialStates

(* A slot that passes StorageFirmware_IsValid holds one whole image: the   *)
(* backup never captures an application torn by an earlier install.        *)
SlotsHoldWholeImages ==
  \A slot \in {cand, rb} : SlotIsValid(slot) => Complete(slot)

(* While the application is not whole, one of the two slots still is.      *)
SomethingToInstall ==
  ~Complete(app) => Complete(cand) \/ Complete(rb)

(* The application Flash changes only when the durable state is one that   *)
(* makes the next boot resume: intent precedes every erase and program.    *)
IntentBeforeErase ==
  [][app' # app => meta.state \in {"INSTALLING", "ROLLING_BACK"}]_vars

(* The rollback slot is given up only while the application it would       *)
(* restore is itself whole.                                                *)
RollbackKeptWhileNeeded == [][rb' # rb => Complete(app)]_vars

(* "Never erase a valid running image when its backup could not be         *)
(* committed and verified" (bootloader.c): an install that destroys a      *)
(* whole application other than the candidate has it in the rollback slot. *)
BackupBeforeErase ==
  [][Complete(app) /\ app' # app /\ src = "cand" /\ app # cand => rb = app]_vars

(* The same comment within one boot, faults included: a boot that trusted  *)
(* the application destroys it for a candidate only with a verified copy   *)
(* of it in the rollback slot, never with an older image kept there.       *)
TrustedAppHasBackup ==
  [][~partial /\ Complete(app) /\ app' # app /\ src = "cand" => rb = app]_vars

(* Bootloader_Run uses the upgrade log as UpgradeLog provides it: one       *)
(* append at a time, each with its failures, and nothing else changes what *)
(* the next boot reads.                                                    *)
Register ==
  INSTANCE UpgradeRegister WITH
    Content  <- Payload,
    value    <- meta,
    pending  <- IF pc \in PersistPC THEN {ram} ELSE {},
    shadowed <- shadow /\ pc # "run"

UsesRegister == Register!Spec

(* A started upgrade ends: confirmed, rolled back, given up, or held with  *)
(* every rollback attempt used.                                            *)
Settled(m) ==
  \/ m.state \in {"IDLE", "DOWNLOADING", "CONFIRMED", "ROLLED_BACK", "FAILED"}
  \/ m.state = "ROLLING_BACK" /\ m.att >= MaxPhase

UpgradeEnds == []<>Settled(meta)

=============================================================================
