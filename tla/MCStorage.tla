----------------------------- MODULE MCStorage -----------------------------
(* The boot loader and the stores in NOR Flash for TLC: one run explores    *)
(* the state spaces of Bootloader_Run, the snapshot store and the event log *)
(* side by side.  part tells which one a behaviour belongs to; the others   *)
(* keep an initial state.                                                   *)
EXTENDS MCBootloader, DualBankStore, StorageLog

CONSTANT Parts      \* the components that are explored

VARIABLE part

storageVars == <<part, hvars, storeVars, logVars>>

(* A board with one good image, for the behaviours of the stores.           *)
PlainBoard == app = Whole(v1) /\ rb = BlankFlash

StorageInit ==
    /\ part \in Parts
    /\ HInit /\ (part = "boot" \/ PlainBoard)
    /\ StoreInit /\ (part = "store" \/ mode = CHOOSE m \in Modes : TRUE)
    /\ LogInit

BootPart == part = "boot" /\ UNCHANGED <<part, storeVars, logVars>>
StorePart == part = "store" /\ UNCHANGED <<part, hvars, logVars>>
LogPart == part = "log" /\ UNCHANGED <<part, hvars, storeVars>>

StorageNext ==
    \/ BootPart /\ HNext
    \/ StorePart /\ StoreNext
    \/ LogPart /\ LogNext

(* LogFairness, for the part that runs.                                     *)
StorageFairness ==
    /\ WF_storageVars(LogPart /\ (LogOpen \/ LogCreate) /\ ~log.up)
    /\ WF_storageVars(LogPart /\ NextPending)
    /\ SF_storageVars(LogPart /\ Acknowledge)

StorageSpec == StorageInit /\ [][StorageNext]_storageVars /\ StorageFairness
=============================================================================
