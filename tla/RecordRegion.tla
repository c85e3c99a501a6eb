---------------------------- MODULE RecordRegion ----------------------------
(***************************************************************************)
(* A region of committed records in NOR Flash (Src/Flash/storage_record.c):*)
(* what a scan of the region finds and where the next record goes.         *)
(*                                                                         *)
(* Records have one length, so a region is a sequence of slots.  A record  *)
(* counts once its commit word is written.  What is not a record is        *)
(*   Erased   blank: a record can be written here, a scan stops here;      *)
(*   Hole     not blank, but with an erased word where the scan looks for  *)
(*            the next header, so that the scan stops here: the header of  *)
(*            a record whose commit word is not written is a hole;         *)
(*   Garbled  no valid record and no such word: the scan passes over it.   *)
(***************************************************************************)
EXTENDS Naturals, Sequences

CONSTANTS
  Value,    \* payloads
  SeqMod,   \* sequence numbers are taken modulo this: 2^32 in the code
  Erased, Hole, Garbled

ASSUME SeqModAssumption == SeqMod \in Nat /\ SeqMod > 2

SeqNum == 0..(SeqMod - 1)
Record == [seq : SeqNum, val : Value]
Slot   == Record \cup {Erased, Hole, Garbled}

ASSUME SlotsAssumption ==
  /\ {Erased, Hole, Garbled} \cap Record = {}
  /\ Erased \notin {Hole, Garbled}

IsRecord(s) == s \in Record

NextSeq(s) == (s + 1) % SeqMod

(* Mutant: sequence numbers compared as plain integers.                    *)
PlainIsNewer(a, b) == a > b

(* Storage_SeqIsNewer: (int32_t)(a - b) > 0.                               *)
SeqIsNewer(a, b) ==
  LET d == (a + SeqMod - b) % SeqMod
  IN  d # 0 /\ 2 * d < SeqMod

(* FindLatest: scan to the end or to the first erased word and keep a      *)
(* record when it is strictly newer than the best one so far.  The index   *)
(* of the best record; 0 when there is none (NOT_FOUND).  The scan is at   *)
(* the slot p[1], and p[2] is the best one before it.                      *)
FindLatest(r) ==
  LET scan[p \in (1..Len(r) + 1) \X (0..Len(r))] ==
        IF p[1] > Len(r) \/ r[p[1]] \in {Erased, Hole} THEN p[2]
        ELSE scan[<<p[1] + 1,
                    IF /\ IsRecord(r[p[1]])
                       /\ p[2] = 0 \/ SeqIsNewer(r[p[1]].seq, r[p[2]].seq)
                    THEN p[1] ELSE p[2]>>]
  IN  scan[<<1, 0>>]

(* The slot after the latest record, the first one when there is none.     *)
Cursor(r) == FindLatest(r) + 1

(* StorageRecord_WriteAt accepts blank Flash inside the region only.       *)
HasRoom(r) == Cursor(r) \in DOMAIN r /\ r[Cursor(r)] = Erased

=============================================================================
