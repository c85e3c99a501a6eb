---------------------------- MODULE FirmwareSlot ----------------------------
(* A firmware slot in NOR Flash, Src/Flash/storage_firmware.c with the two-   *)
(* phase commit of Src/Flash/storage_commit.c: an image is streamed into an   *)
(* erased slot, and a manifest in its first sector is committed last.  Each   *)
(* operation is one action; its outcomes are those of a run to the end, of a  *)
(* failing Flash operation at any place, and of a power cut there (a failure  *)
(* followed by Restart).                                                      *)
(*                                                                           *)
(* A block of Flash is the set of its programmed bits, so that programming    *)
(* is union.  A CRC stands for the bytes it covers.                           *)
EXTENDS Integers, Sequences

CONSTANTS
    Bits,           \* the bits of a block
    Images,         \* the images that are streamed, as sequences of blocks
    SlotBlocks,     \* blocks of the image area
    NoImageHeld     \* what an empty slot holds

ASSUME SlotAssumption ==
    /\ SlotBlocks \in Nat
    /\ Images \subseteq Seq(SUBSET Bits)
    /\ \A announced \in Images : NoImageHeld # [manifest |-> announced, blocks |-> announced]

VARIABLES
    manifest,       \* the first sector: body and commit word
    image,          \* the image area
    slot            \* StorageFirmwareSlot, with the data that are streamed

slotVars == <<manifest, image, slot>>

(* Erased; a part of a body or what an erase may leave; a body without and  *)
(* with its commit word.                                                    *)
Manifests == [state : {"blank", "partial", "written", "committed"}, of : Images \cup {<<>>}]

BlankManifest == [state |-> "blank", of |-> <<>>]
Partial == [state |-> "partial", of |-> <<>>]
Manifest(announced, state) == [state |-> state, of |-> announced]

NotWriting == [writing |-> FALSE, offset |-> 0, data |-> <<>>]
ErasedImage == [b \in 1 .. SlotBlocks |-> {}]

(* StorageFirmware_ReadManifest accepts it.                                 *)
Readable == manifest.state = "committed"

SlotInit ==
    /\ manifest = BlankManifest
    /\ image = ErasedImage
    /\ slot = NotWriting

-----------------------------------------------------------------------------
(* Mutant: the manifest is erased last.                                     *)
ErasedFromTheEnd(count, place) == place > SlotBlocks - count

(* Of SlotBlocks + 1 sectors, the manifest's first, this many were erased.  *)
ErasedFirst(count, place) == place < count

(* The erase loop of BeginWrite: count sectors are erased, the next may be  *)
(* left with anything.                                                      *)
SlotErased(count) ==
    /\ manifest' \in IF ErasedFirst(count, 0) THEN {BlankManifest}
                     ELSE IF count = 0
                     THEN {manifest, Partial}
                     ELSE {manifest}
    /\ \E rest \in SUBSET Bits :
         image' = [b \in 1 .. SlotBlocks |->
                      IF ErasedFirst(count, b) THEN {}
                      ELSE IF b = count THEN rest ELSE image[b]]

StorageFirmware_BeginWrite(data) ==
    /\ Len(data) \in 1 .. SlotBlocks
    /\ \/ /\ SlotErased(SlotBlocks + 1)
          /\ slot' = [writing |-> TRUE, offset |-> 0, data |-> data]
       \/ \E count \in 0 .. SlotBlocks : SlotErased(count) /\ slot' = NotWriting

(* A chunk of the stream; when the write fails, whole blocks and a part of  *)
(* the next are written, and the caller may send the chunk again.           *)
StorageFirmware_WriteChunk(length) ==
    /\ slot.writing
    /\ slot.offset + length <= Len(slot.data)
    /\ \E done \in 0 .. length, some \in SUBSET Bits :
         /\ image' = [b \in 1 .. SlotBlocks |->
                         IF b \in slot.offset + 1 .. slot.offset + done
                         THEN image[b] \cup slot.data[b]
                         ELSE IF b = slot.offset + done + 1 /\ done < length
                         THEN image[b] \cup (slot.data[b] \cap some)
                         ELSE image[b]]
         /\ slot' \in IF done = length THEN {slot, [slot EXCEPT !.offset = @ + length]} ELSE {slot}
    /\ UNCHANGED manifest

(* Mutant: the length is compared, the CRC is not.                          *)
AcceptedByLength(announced) ==
    slot.offset = Len(slot.data) /\ Len(announced) = Len(slot.data)

(* Finish checks what was streamed against the announced image.             *)
Accepted(announced) == slot.offset = Len(slot.data) /\ slot.data = announced

(* Storage_CommitObject: body, read back, commit word; each may fail.       *)
StorageFirmware_Finish(announced) ==
    /\ slot.writing
    /\ Accepted(announced)
    /\ \/ /\ manifest' = Manifest(announced, "committed")
          /\ slot' \in {slot, NotWriting}
       \/ /\ manifest' \in {manifest, Manifest(announced, "written"), Partial}
          /\ Readable => manifest' = manifest
          /\ UNCHANGED slot
    /\ UNCHANGED image

StorageFirmware_Invalidate ==
    /\ manifest' \in {BlankManifest, manifest, Partial}
    /\ slot' = NotWriting
    /\ UNCHANGED image

(* StorageFirmware_InitSlot after a reset or a power cut.                   *)
Restart == slot' = NotWriting /\ UNCHANGED <<manifest, image>>

SlotNext ==
    \/ \E data \in Images :
         StorageFirmware_BeginWrite(data) \/ StorageFirmware_Finish(data)
    \/ \E length \in 1 .. SlotBlocks : StorageFirmware_WriteChunk(length)
    \/ StorageFirmware_Invalidate \/ Restart

SlotSpec == SlotInit /\ [][SlotNext]_slotVars

-----------------------------------------------------------------------------
SlotTypeOK ==
    /\ manifest \in Manifests
    /\ image \in [1 .. SlotBlocks -> SUBSET Bits]
    /\ slot \in [writing : BOOLEAN, offset : Nat, data : Images \cup {<<>>}]

(* StorageFirmware_ReadImage: the blocks of the announced length.           *)
Stored == [b \in DOMAIN manifest.of |-> image[b]]

(* An image that is what its manifest says; what a reader finds.            *)
Whole(announced) == [manifest |-> announced, blocks |-> announced]

HeldImage ==
    IF Readable THEN [manifest |-> manifest.of, blocks |-> Stored] ELSE NoImageHeld

(* What ReadImage returns, which asks for the manifest only, is the image   *)
(* that the manifest announces, as a whole.  No order of failures, retries  *)
(* and power cuts shows a part of an image, a mixture of two or an image    *)
(* that changes.                                                            *)
Holder == INSTANCE SlotRegister WITH
                Announced <- {Whole(announced) : announced \in Images},
                Nothing <- NoImageHeld, held <- HeldImage

ImplementsSlot == Holder!RegisterSpec
=============================================================================
