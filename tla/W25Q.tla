-------------------------------- MODULE W25Q --------------------------------
(* The driver of the serial NOR Flash, Src/W25Q/w25q.c, and the chip it       *)
(* talks to.  A call is a sequence of SPI transfers; between any two of them  *)
(* the chip may come to rest, a transfer may fail after the chip received all *)
(* of it, a part of it or nothing, and the controller may be reset while the  *)
(* chip works on.  A busy chip ignores every command but the status query,    *)
(* and answers ones: it looks erased.                                         *)
(*                                                                           *)
(* The content is the set of the addresses that are programmed.  A write      *)
(* programs every byte of its range.                                          *)
EXTENDS Integers

CONSTANTS
    MediaSize,      \* bytes of the chip
    PageSize,       \* NOR_FLASH_PAGE_SIZE
    EraseSizes,     \* NOR_FLASH_SECTOR_SIZE and NOR_FLASH_BLOCK64_SIZE
    FirstContent,   \* what is programmed at the beginning
    MaxSpiFaults    \* bound: failing transfers, time-outs and resets

ASSUME W25QAssumption ==
    /\ MediaSize \in Nat \ {0} /\ PageSize \in Nat \ {0}
    /\ EraseSizes \subseteq Nat \ {0}
    /\ MaxSpiFaults \in Nat
    /\ FirstContent \subseteq 0 .. MediaSize - 1

VARIABLES
    chip,           \* at rest or busy, write enable latch, content, content when done
    dev,            \* W25Q_Device: capacity known, needs_ready
    call,           \* the call in progress
    spiFaults       \* how many of MaxSpiFaults happened

w25qVars == <<chip, dev, call, spiFaults>>

Address == 0 .. MediaSize - 1
NoCall == [stage |-> "idle", op |-> "none", from |-> 0, upto |-> 0, at |-> 0, value |-> {}]

(* The range the caller asked for.                                          *)
Span == call.from .. call.upto - 1

FlashAtRest == [busy |-> FALSE, wel |-> FALSE, cells |-> FirstContent, after |-> FirstContent]

W25QStart ==
    /\ chip = FlashAtRest
    /\ dev = [up |-> FALSE, needsReady |-> FALSE]
    /\ call = NoCall
    /\ spiFaults = 0

-----------------------------------------------------------------------------
(* The chip.  A program or erase is taken only after a write enable, and a  *)
(* program that runs over the end of a page goes on at its beginning.       *)
Enabled == IF chip.busy THEN chip ELSE [chip EXCEPT !.wel = TRUE]

Begun(content) ==
    IF chip.busy \/ ~chip.wel THEN chip
    ELSE [chip EXCEPT !.busy = TRUE, !.wel = FALSE, !.after = content]

PagePlace(at, i) ==
    IF (at % PageSize) + i < PageSize THEN at + i ELSE at + i - PageSize

Programmed(at, length) ==
    Begun(chip.cells \cup {PagePlace(at, i) : i \in 0 .. length - 1})

SectorErased(at, size) == Begun(chip.cells \ (at .. at + size - 1))

ChipFinishes ==
    /\ chip.busy
    /\ chip' = [chip EXCEPT !.busy = FALSE, !.cells = chip.after]
    /\ UNCHANGED <<dev, call, spiFaults>>

-----------------------------------------------------------------------------
(* Mutant: the chunk ignores where in the page it begins.                   *)
PageChunkFromStart(at, left) == IF PageSize < left THEN PageSize ELSE left

(* NorFlash_PageChunk, NorFlash_AlignDown                                   *)
PageChunk(at, left) ==
    LET room == PageSize - (at % PageSize) IN IF room < left THEN room ELSE left

AlignDown(at, size) == at - (at % size)

Chunk == PageChunk(call.at, call.upto - call.at)

SpiFault == spiFaults < MaxSpiFaults /\ spiFaults' = spiFaults + 1
Fails == call' = [call EXCEPT !.stage = "failed"]

(* Mutant: a latched time-out is forgotten.                                 *)
NeverLatched == FALSE

(* EnsureReady: a command is possible only when this is false.              *)
ReadyLatched == dev.needsReady

(* ReadStatus1 in the loop of WaitBusy, after a program or erase and, by    *)
(* EnsureReady, before the next command.  A busy chip is asked again, or    *)
(* the time is up.  A finished program goes on with the next chunk.         *)
ChunkDone == call.op = "write" /\ call.at + Chunk < call.upto

PollStatus ==
    /\ call.stage = "waiting" \/ (call.stage = "ready" /\ ReadyLatched)
    /\ \/ /\ ~chip.busy
          /\ dev' = [dev EXCEPT !.needsReady = FALSE]
          /\ call' = IF call.stage = "ready" THEN call
                     ELSE IF ChunkDone
                     THEN [call EXCEPT !.stage = "ready", !.at = @ + Chunk]
                     ELSE [call EXCEPT !.stage = "ok"]
          /\ UNCHANGED spiFaults
       \/ SpiFault /\ Fails /\ UNCHANGED dev
    /\ UNCHANGED chip

(* WriteEnable *)
WriteEnable ==
    /\ call.stage = "ready" /\ ~ReadyLatched
    /\ call.op \in {"write", "erase"}
    /\ \/ /\ chip' = Enabled
          /\ call' = [call EXCEPT !.stage = "enabled"]
          /\ UNCHANGED spiFaults
       \/ SpiFault /\ Fails /\ chip' \in {chip, Enabled}
    /\ UNCHANGED dev

(* The command of SpiProgramPage.  When the data transfer fails the chip    *)
(* programs what it received, and nothing when that is nothing.             *)
ProgramPage ==
    /\ call.stage = "enabled" /\ call.op = "write"
    /\ dev' = [dev EXCEPT !.needsReady = TRUE]
    /\ \/ /\ chip' = Programmed(call.at, Chunk)
          /\ call' = [call EXCEPT !.stage = "waiting"]
          /\ UNCHANGED spiFaults
       \/ /\ SpiFault /\ Fails
          /\ \/ chip' = chip
             \/ \E length \in 1 .. Chunk : chip' = Programmed(call.at, length)

(* The command of SpiErase.                                                 *)
EraseCommand ==
    /\ call.stage = "enabled" /\ call.op = "erase"
    /\ dev' = [dev EXCEPT !.needsReady = TRUE]
    /\ LET erased == SectorErased(call.at, call.upto - call.from) IN
       \/ /\ chip' = erased
          /\ call' = [call EXCEPT !.stage = "waiting"]
          /\ UNCHANGED spiFaults
       \/ SpiFault /\ Fails /\ chip' \in {chip, erased}

(* SpiRead.  A busy chip does not answer: the line stays high.              *)
ReadData ==
    /\ call.stage = "ready" /\ ~ReadyLatched
    /\ call.op = "read"
    /\ \/ /\ call' = [call EXCEPT !.stage = "ok",
                                  !.value = IF chip.busy THEN {} ELSE chip.cells \cap Span]
          /\ UNCHANGED spiFaults
       \/ SpiFault /\ Fails
    /\ UNCHANGED <<chip, dev>>

-----------------------------------------------------------------------------
(* Mutant: an identification of ones is not refused.                        *)
IdentifiedAlways == TRUE

(* W25Q_Init clears the device and asks for the identification, which a     *)
(* busy chip answers with ones: W25Q_ERR_ID.                                *)
Identified == ~chip.busy

W25QInit ==
    /\ call = NoCall
    /\ \/ dev' = [up |-> Identified, needsReady |-> FALSE] /\ UNCHANGED spiFaults
       \/ dev' = [up |-> FALSE, needsReady |-> FALSE] /\ SpiFault
    /\ UNCHANGED <<chip, call>>

(* The controller is reset; the chip goes on with what it does.             *)
ControllerReset ==
    /\ SpiFault
    /\ dev' = [up |-> FALSE, needsReady |-> FALSE]
    /\ call' = NoCall
    /\ UNCHANGED chip

DriverStep ==
    \/ PollStatus \/ WriteEnable \/ ProgramPage \/ EraseCommand \/ ReadData

-----------------------------------------------------------------------------
Stages == {"idle", "ready", "enabled", "waiting", "ok", "failed"}

W25QTypeOK ==
    /\ chip \in [busy : BOOLEAN, wel : BOOLEAN, cells : SUBSET Address, after : SUBSET Address]
    /\ dev \in [up : BOOLEAN, needsReady : BOOLEAN]
    /\ call \in [stage : Stages, op : {"none", "read", "write", "erase"},
                 from : Nat, upto : Nat, at : Nat, value : SUBSET Address]
    /\ spiFaults \in 0 .. MaxSpiFaults
=============================================================================
