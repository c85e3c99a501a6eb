--------------------------- MODULE DualBankStore ---------------------------
(* The snapshot store of Src/Flash/DualBankStore.c on two banks of records.  *)
(* A Save appends to the active bank; when that is full it clears the other  *)
(* bank, writes the snapshot there and retires the old one.  Each program    *)
(* and each erase of a sector is a step, and a step may fail or be cut short *)
(* by the loss of power.  The owner obeys DualBankStore.h: after a failed    *)
(* Save it calls Init before anything else.                                  *)
(*                                                                           *)
(* Three ways to use the store: "legacy" (Init and Save), "strict"           *)
(* (InitStrict and Save), "prepared" (InitStrict, PrepareStep, SavePrepared).*)
EXTENDS RecordRegion, FiniteSets

CONSTANTS
    BankSlots,      \* records a bank has room for
    HeadSlots,      \* those that begin in its first sector
    Straddles,      \* TRUE: the last of these ends in the second sector
    Modes,          \* the ways of use that are explored
    NoValue,
    Torn,           \* a record whose commit word is missing
    Corrupt,        \* magic and commit word are there, the record is not valid
    StoreMishaps    \* bound: power cuts, failing calls and decaying records

ASSUME StoreAssumption ==
    /\ BankSlots \in Nat /\ HeadSlots \in 1 .. BankSlots
    /\ Modes \subseteq {"legacy", "strict", "prepared"}
    /\ NoValue \notin Value
    /\ {Torn, Corrupt} \cap (Record \cup {Erased, Hole, Garbled}) = {}

VARIABLES
    mode,           \* how the store is used
    bank,           \* the two banks
    store,          \* the DualBankStore and the owner's byte cursor prepared
    job,            \* where a Save is
    promise,        \* history: the snapshot the last Save or Init answered OK with
    attempt,        \* history: the one a failed or cut Save wanted to store since
    decayed,        \* history: a record decayed
    mishaps

storeVars == <<mode, bank, store, job, promise, attempt, decayed, mishaps>>

Banks == {"A", "B"}
Other(b) == IF b = "A" THEN "B" ELSE "A"
Sectors == {1, 2}
Contents == Record \cup {Erased, Hole, Garbled, Torn, Corrupt}

Strict == mode # "legacy"

Unusable == [usable |-> FALSE, active |-> "A", next |-> 1, have |-> FALSE, prepared |-> 0]
NoSave == [at |-> "idle"]

StoreInit ==
    /\ mode \in Modes
    /\ bank = [b \in Banks |-> [i \in 1 .. BankSlots |-> Erased]]
    /\ store = Unusable
    /\ job = NoSave
    /\ promise = NoValue /\ attempt = NoValue
    /\ decayed = FALSE
    /\ mishaps = 0

-----------------------------------------------------------------------------
(* Scans.  The legacy scan stops at the missing commit word of a torn       *)
(* record and passes over corrupt ones, the strict scan knows the extent of *)
(* a torn one, and returns an error for a corrupt one.                      *)
Seen(r, strict) ==
    [i \in DOMAIN r |->
        IF r[i] = Corrupt THEN Garbled
        ELSE IF r[i] = Torn THEN IF strict THEN Garbled ELSE Hole
        ELSE r[i]]

(* Mutant: a corrupt record is no error for the strict scan.                *)
ScanFailsNever(r) == FALSE

ScanFails(r) ==
    /\ Strict
    /\ \E i \in DOMAIN r : /\ r[i] = Corrupt
                           /\ \A j \in 1 .. i - 1 : r[j] \notin {Erased, Hole}

(* Where FindBank finds the newest record, 0 for NOT_FOUND.                 *)
Latest(r) == FindLatest(Seen(r, Strict))
Found(b) == Latest(bank[b]) # 0
NewestIn(b) == bank[b][Latest(bank[b])]

(* Mutant: bank A is preferred.                                             *)
NewestBankA == IF Found("A") THEN "A" ELSE "B"

(* The bank Init selects, when one has a record.                            *)
NewestBank ==
    IF Found("B") /\ (Found("A") => SeqIsNewer(NewestIn("B").seq, NewestIn("A").seq))
    THEN "B" ELSE "A"

InitFails == \E b \in Banks : ScanFails(bank[b])
SomethingFound == \E b \in Banks : Found(b)
Recovered == IF SomethingFound THEN NewestIn(NewestBank).val ELSE NoValue

(* DualBankStore_Init.  What it answers is the snapshot from then on.       *)
InitStore ==
    /\ job = NoSave
    /\ \/ /\ InitFails
          /\ store' = Unusable
          /\ UNCHANGED <<promise, attempt>>
       \/ /\ ~InitFails
          /\ store' = [Unusable EXCEPT !.usable = TRUE, !.have = SomethingFound,
                          !.active = IF SomethingFound THEN NewestBank ELSE "A",
                          !.next = IF SomethingFound THEN NextSeq(NewestIn(NewestBank).seq) ELSE 1]
          /\ promise' = Recovered /\ attempt' = NoValue
    /\ UNCHANGED <<mode, bank, job, decayed, mishaps>>

-----------------------------------------------------------------------------
(* Erasing a sector.  Of a record that straddles both, the first erase      *)
(* takes the header and leaves a hole.                                      *)
SlotsOf(sector) == IF sector = 1 THEN 1 .. HeadSlots ELSE HeadSlots + 1 .. BankSlots

ClearedStraddler(s, sector) ==
    IF sector = 2 /\ s \in Record THEN Corrupt
    ELSE IF sector = 1 /\ s # Erased THEN Hole
    ELSE IF s = Hole THEN Erased ELSE s

Cleared(r, sector) ==
    [i \in DOMAIN r |-> IF Straddles /\ i = HeadSlots THEN ClearedStraddler(r[i], sector)
                        ELSE IF i \in SlotsOf(sector) THEN Erased ELSE r[i]]

Blank(r, sector) == Cleared(r, sector) = r

(* What an interrupted one may leave.                                       *)
HalfCleared(r, sector) ==
    LET Kinds == {Hole, Garbled, Corrupt, Erased}
        Touched == {i \in DOMAIN r : Cleared(r, sector)[i] # r[i]}
    IN {[i \in DOMAIN r |-> IF i \in Touched /\ q[i] # Torn THEN q[i] ELSE r[i]] :
            q \in [Touched -> Kinds \cup {Torn}]}

-----------------------------------------------------------------------------
(* ValidateActive: RAM agrees with what strict recovery finds.              *)
ActiveValid ==
    LET b == store.active IN
    /\ ~ScanFails(bank[b])
    /\ IF Found(b) THEN store.have /\ NextSeq(NewestIn(b).seq) = store.next ELSE ~store.have

(* StorageRecord_Append looks for its place with the legacy scan.           *)
AppendPlace(b) == Cursor(Seen(bank[b], FALSE))
Fits(b) == AppendPlace(b) \in 1 .. BankSlots /\ bank[b][AppendPlace(b)] = Erased

Write(b, slot, switch, val) == [at |-> "body", b |-> b, slot |-> slot,
                                switch |-> switch, val |-> val]

PreparedConsumed == 0

(* The first sector of the destination that is not known to be blank is     *)
(* cleared next; StorageBank_PrepareSector erases only what is not blank.   *)
ClearFrom(b, sector, val) ==
    IF sector \in Sectors
    THEN [at |-> "clear", b |-> b, sector |-> sector, val |-> val]
    ELSE Write(b, 1, TRUE, val)

SaveBegins(val) ==
    /\ job = NoSave
    /\ store.usable
    /\ Strict => ActiveValid
    /\ IF Fits(store.active)
       THEN /\ job' = Write(store.active, AppendPlace(store.active), FALSE, val)
            /\ UNCHANGED store
       ELSE /\ job' = ClearFrom(Other(store.active), store.prepared + 1, val)
            /\ store' = [store EXCEPT !.prepared = PreparedConsumed]
    /\ attempt' = val
    /\ UNCHANGED <<mode, bank, promise, decayed, mishaps>>

SaveRefused ==
    /\ job = NoSave
    /\ store.usable
    /\ Strict /\ ~ActiveValid
    /\ store' = Unusable
    /\ UNCHANGED <<mode, bank, job, promise, attempt, decayed, mishaps>>

(* The Flash after the step the Save is at, when it succeeds.               *)
Stepped ==
    CASE job.at = "clear"  -> [bank EXCEPT ![job.b] = Cleared(@, job.sector)]
      [] job.at = "body"   -> [bank EXCEPT ![job.b][job.slot] = Torn]
      [] job.at = "commit" -> [bank EXCEPT ![job.b][job.slot] = [seq |-> store.next, val |-> job.val]]
      [] job.at = "retire" -> [bank EXCEPT ![job.b] = Cleared(@, job.sector)]
      [] OTHER             -> bank

(* The same when it fails or is cut short.                                  *)
Halfway ==
    CASE job.at \in {"clear", "retire"} ->
            {[bank EXCEPT ![job.b] = r] : r \in HalfCleared(bank[job.b], job.sector)}
      [] job.at = "body" -> {[bank EXCEPT ![job.b][job.slot] = s] : s \in {Erased, Hole, Garbled, Torn}}
      [] OTHER -> {bank, Stepped}

AfterBody(j) == [j EXCEPT !.at = "commit"]

Retire(b, val) == [at |-> "retire", b |-> b, sector |-> 1, val |-> val]

(* The owner is told OK.                                                    *)
SaveEnds(switched, prepared) ==
    /\ job' = NoSave
    /\ store' = [store EXCEPT !.next = NextSeq(@), !.have = TRUE, !.prepared = prepared,
                              !.active = IF switched THEN Other(@) ELSE @]
    /\ promise' = job.val /\ attempt' = NoValue

SaveGoesOn(next) == job' = next /\ UNCHANGED <<store, promise, attempt>>

(* StorageBank_PrepareSector verifies the sector it cleared.                *)
ClearStep ==
    /\ job.at = "clear"
    /\ SaveGoesOn(ClearFrom(job.b, job.sector + 1, job.val))

BodyStep == job.at = "body" /\ SaveGoesOn(AfterBody(job))

(* SavePrepared reads back what it wrote (VerifyWritten).                   *)
CommitStep ==
    /\ job.at = "commit"
    /\ IF mode = "prepared" THEN SaveGoesOn([job EXCEPT !.at = "verify"])
       ELSE IF job.switch THEN SaveGoesOn(Retire(Other(job.b), job.val))
       ELSE SaveEnds(FALSE, store.prepared)

VerifyStep ==
    /\ job.at = "verify"
    /\ bank[job.b][job.slot] = [seq |-> store.next, val |-> job.val]
    /\ IF job.switch THEN SaveGoesOn(Retire(Other(job.b), job.val))
       ELSE SaveEnds(FALSE, store.prepared)

(* SwitchPrepared retires the first sector, StorageBank_Switch every one.   *)
RetireStep ==
    /\ job.at = "retire"
    /\ IF mode = "prepared" THEN SaveEnds(TRUE, 1)
       ELSE IF job.sector + 1 \in Sectors THEN SaveGoesOn([job EXCEPT !.sector = @ + 1])
       ELSE SaveEnds(TRUE, store.prepared)

SaveStep ==
    /\ ClearStep \/ BodyStep \/ CommitStep \/ VerifyStep \/ RetireStep
    /\ bank' = Stepped
    /\ UNCHANGED <<mode, decayed, mishaps>>

(* DualBankStore_PrepareStep: one sector of the inactive bank.              *)
Prepares == /\ mode = "prepared" /\ job = NoSave
            /\ store.usable /\ store.have /\ store.prepared + 1 \in Sectors

PrepareStep ==
    /\ Prepares
    /\ bank' = [bank EXCEPT ![Other(store.active)] = Cleared(@, store.prepared + 1)]
    /\ store' = [store EXCEPT !.prepared = @ + 1]
    /\ UNCHANGED <<mode, job, promise, attempt, decayed, mishaps>>

-----------------------------------------------------------------------------
StoreMishap == mishaps < StoreMishaps /\ mishaps' = mishaps + 1

(* The call the Save is at fails, and so does the Save.                     *)
SaveFails ==
    /\ job # NoSave
    /\ StoreMishap
    /\ bank' \in Halfway
    /\ job' = NoSave
    /\ store' = [store EXCEPT !.usable = FALSE]
    /\ UNCHANGED <<mode, promise, attempt, decayed>>

VerifyFails ==
    /\ job.at = "verify"
    /\ bank[job.b][job.slot] # [seq |-> store.next, val |-> job.val]
    /\ job' = NoSave
    /\ store' = [store EXCEPT !.usable = FALSE]
    /\ UNCHANGED <<mode, bank, promise, attempt, decayed, mishaps>>

(* The power is cut, in a Save, in a PrepareStep or between calls.          *)
PowerCut ==
    /\ StoreMishap
    /\ IF job # NoSave THEN bank' \in Halfway
       ELSE IF Prepares
       THEN \E r \in HalfCleared(bank[Other(store.active)], store.prepared + 1) :
                bank' = [bank EXCEPT ![Other(store.active)] = r]
       ELSE UNCHANGED bank
    /\ job' = NoSave
    /\ store' = Unusable
    /\ UNCHANGED <<mode, promise, attempt, decayed>>

(* A committed record loses bits; its header is still recognized.           *)
Decays ==
    /\ StoreMishap
    /\ \E b \in Banks, i \in 1 .. BankSlots :
         /\ bank[b][i] \in Record
         /\ bank' = [bank EXCEPT ![b][i] = Corrupt]
    /\ decayed' = TRUE
    /\ UNCHANGED <<mode, store, job, promise, attempt>>

StoreNext ==
    \/ InitStore \/ PrepareStep \/ SaveRefused \/ SaveStep
    \/ SaveFails \/ VerifyFails \/ PowerCut \/ Decays
    \/ \E val \in Value : SaveBegins(val)

StoreSpec == StoreInit /\ [][StoreNext]_storeVars

-----------------------------------------------------------------------------
StoreTypeOK ==
    /\ bank \in [Banks -> [1 .. BankSlots -> Contents]]
    /\ store.active \in Banks /\ store.next \in SeqNum
    /\ store.prepared \in 0 .. 2
    /\ promise \in Value \cup {NoValue} /\ attempt \in Value \cup {NoValue}

(* Whenever the power goes, Init finds the snapshot that was promised last, *)
(* or the one a Save was storing; never an older one, and never none.  The  *)
(* strict store keeps this when committed records decay: Init then reports  *)
(* an error rather than an old snapshot.                                    *)
SnapshotSurvives ==
    Strict \/ ~decayed =>
        \/ InitFails
        \/ Recovered = promise
        \/ Recovered = attempt /\ attempt # NoValue

(* After an OK the store finds its snapshot through what RAM knows, without *)
(* scanning both banks: Load answers what was promised, and the next Save   *)
(* uses a sequence number newer than every other.                           *)
LoadAgrees ==
    store.usable /\ job = NoSave /\ ~decayed =>
        /\ promise = IF store.have /\ Found(store.active) THEN NewestIn(store.active).val
                     ELSE NoValue
        /\ \A b \in Banks, i \in 1 .. BankSlots :
             bank[b][i] \in Record /\ Found(b) => SeqIsNewer(store.next, bank[b][i].seq)

(* The prefix of the inactive bank that the owner's cursor calls prepared   *)
(* is blank, so that the switch may write there without looking.            *)
PreparedIsBlank ==
    store.usable =>
        \A sector \in 1 .. store.prepared : Blank(bank[Other(store.active)], sector)

(* RAM, the owner's cursor included, agrees with the Flash.                 *)
RamAgrees == StoreTypeOK /\ LoadAgrees /\ PreparedIsBlank
=============================================================================
