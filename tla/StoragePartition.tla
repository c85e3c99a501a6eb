-------------------------- MODULE StoragePartition --------------------------
(* The partitions of Src/Flash/storage_partition.c over the driver of the    *)
(* Flash chip (Src/W25Q/w25q_storage.c): every call is checked against the   *)
(* table, moved to the partition's place and handed to the driver under the  *)
(* backend's lock, so that one call at a time is in progress.                *)
(*                                                                           *)
(* The history variables say what the callers may rely on: programmed holds  *)
(* the addresses that must be programmed, touched those that may be.         *)
EXTENDS W25Q, Sequences

CONSTANTS
    Table,          \* StoragePartDesc: base, size and readonly of each partition
    SectorSize      \* NOR_FLASH_SECTOR_SIZE

(* StoragePartition_ValidateTable, for the table of the product.            *)
Inside(capacity, address, length) ==
    length > 0 /\ address < capacity /\ length <= capacity - address

Space(p) == Table[p].base .. Table[p].base + Table[p].size - 1

ASSUME TableAssumption ==
    /\ SectorSize \in EraseSizes
    /\ Table \in Seq([base : Nat, size : Nat \ {0}, readonly : BOOLEAN])
    /\ \A p \in DOMAIN Table :
         /\ Table[p].base % SectorSize = 0 /\ Table[p].size % SectorSize = 0
         /\ Inside(MediaSize, Table[p].base, Table[p].size)
         /\ \A q \in DOMAIN Table : q # p => Space(p) \cap Space(q) = {}

VARIABLES
    programmed,
    touched

partitionVars == <<w25qVars, programmed, touched>>

PartitionInit ==
    /\ W25QStart
    /\ programmed = FirstContent
    /\ touched = FirstContent

-----------------------------------------------------------------------------
(* Mutant: the end of the range is not checked.                             *)
MappedAtStart(p, offset, length) == offset < Table[p].size

(* MapPart *)
Mapped(p, offset, length) == Inside(Table[p].size, offset, length)

Writable(p) == ~Table[p].readonly

(* The addresses of a partition that a call is about.                       *)
Asked(p, offset, length) ==
    (Table[p].base + offset .. Table[p].base + offset + length - 1) \cap Space(p)

(* A refused call changes nothing.                                          *)
Entered(op, from, length, at) ==
    /\ call = NoCall /\ dev.up
    /\ call' = [NoCall EXCEPT !.stage = "ready", !.op = op, !.from = from,
                              !.upto = from + length, !.at = at]
    /\ UNCHANGED <<chip, dev, spiFaults>>

Storage_Read(p, offset, length) ==
    /\ Mapped(p, offset, length)
    /\ LET phys == Table[p].base + offset IN Entered("read", phys, length, phys)
    /\ UNCHANGED <<programmed, touched>>

Storage_Write(p, offset, length) ==
    /\ Writable(p) /\ Mapped(p, offset, length)
    /\ LET phys == Table[p].base + offset IN Entered("write", phys, length, phys)
    /\ touched' = touched \cup Asked(p, offset, length)
    /\ UNCHANGED programmed

(* Storage_EraseSector and Storage_EraseBlock64, with W25Q's Erase.         *)
Storage_Erase(p, offset, size) ==
    /\ offset % size = 0
    /\ Writable(p) /\ Mapped(p, offset, size)
    /\ LET phys == Table[p].base + offset IN
       Entered("erase", phys, size, AlignDown(phys, size))
    /\ programmed' = programmed \ Asked(p, offset, size)
    /\ UNCHANGED touched

(* The call returns.                                                        *)
Storage_Return ==
    /\ call.stage \in {"ok", "failed"}
    /\ call' = NoCall
    /\ programmed' = IF call.stage = "ok" /\ call.op = "write"
                     THEN programmed \cup Span ELSE programmed
    /\ touched' = IF call.stage = "ok" /\ call.op = "erase"
                  THEN touched \ Span ELSE touched
    /\ UNCHANGED <<chip, dev, spiFaults>>

(* Lengths and offsets up to one beyond the partition.                      *)
PartitionNext ==
    \/ \E p \in DOMAIN Table : \E offset \in 0 .. Table[p].size :
         \/ \E length \in 1 .. Table[p].size : Storage_Read(p, offset, length)
         \/ \E length \in 1 .. Table[p].size : Storage_Write(p, offset, length)
         \/ \E size \in EraseSizes : Storage_Erase(p, offset, size)
    \/ Storage_Return
    \/ (DriverStep \/ ChipFinishes \/ W25QInit \/ ControllerReset)
          /\ UNCHANGED <<programmed, touched>>

PartitionSpec == PartitionInit /\ [][PartitionNext]_partitionVars

-----------------------------------------------------------------------------
(* A call that answers OK tells the truth: what was read is what the chip   *)
(* holds, and what was written or erased is so.  In particular no command   *)
(* went unheard into a chip that an earlier call, or the time before a      *)
(* reset, had left busy.                                                    *)
AnswersTrue ==
    call.stage = "ok" =>
        /\ ~chip.busy
        /\ call.op = "read" => call.value = chip.cells \cap Span
        /\ call.op = "write" => Span \subseteq chip.cells
        /\ call.op = "erase" => Span \cap chip.cells = {}

(* Nothing but what was asked for changes, in any partition, whatever fails *)
(* and whatever the chip still does after a failed call.                    *)
OthersKept ==
    /\ programmed \subseteq chip.cells /\ chip.cells \subseteq touched
    /\ chip.busy => programmed \subseteq chip.after /\ chip.after \subseteq touched

(* The Flash does what its callers were told.                               *)
FlashAsTold == W25QTypeOK /\ AnswersTrue /\ OthersKept

(* A read-only partition never changes.                                     *)
ReadOnlyKept ==
    \A p \in DOMAIN Table :
        Table[p].readonly => chip.cells \cap Space(p) = FirstContent \cap Space(p)
=============================================================================
