------------------------- MODULE ApplicationProofs -------------------------
(* The receiving session verifies only whole files and times out exactly    *)
(* when it was idle, for every set of files, block size, timeout and width  *)
(* of the tick counter.  The health monitor finds a fault exactly when a    *)
(* task stalled and reports only real milestones, for any tasks, deadlines  *)
(* and leases and every width of the clock.  The push button reports the    *)
(* gestures that its edges show, for any debounce and hold times, any       *)
(* capacity of the edge queue, any number of edges and any wrap-around of   *)
(* the tick counter.  The durable queue keeps what is owed, for any number  *)
(* of sectors, slots and cached sectors, and any number of power cuts,      *)
(* failing calls and decaying records.                                      *)
EXTENDS ConnectTransfer, HealthMonitor, Button, DurableQueue, SequenceTheorems, FiniteSetTheorems,
        TLAPS


(* The receiving session.                                                   *)

SessionType ==
    [state : States, total : Nat, expected : Seq(Byte), received : Nat,
     durable : Nat, running : Seq(Byte), progress : 0 .. TransferRange - 1]

TransferTypes ==
    /\ session \in SessionType
    /\ sink \in Seq(Byte)
    /\ ticks \in 0 .. TransferRange - 1
    /\ idle \in 0 .. TransferRange - 1

(* The bytes the CRC covers are the first ones of the sink, of this session *)
(* or, after a Reset, none.                                                 *)
CoveredIsStored ==
    /\ session.durable <= session.received /\ session.received <= session.total
    /\ Len(session.running) = session.received
    /\ session.received <= Len(sink)
    /\ \A i \in 1 .. session.received : sink[i] = session.running[i]

Announced == Live => session.expected \in Files /\ session.total = Len(session.expected)

VerifiedIsCovered ==
    session.state = "VERIFIED" =>
        session.received = session.total /\ session.running = session.expected

(* The tick counter is as far from the last progress as the session was     *)
(* idle, up to one wrap-around.                                             *)
IdleSinceProgress ==
    session.state = "RECEIVING" =>
        ticks = session.progress + idle \/ ticks = session.progress + idle - TransferRange

TransferInv ==
    TransferTypes /\ CoveredIsStored /\ Announced /\ VerifiedIsCovered /\ IdleSinceProgress

-----------------------------------------------------------------------------
LEMMA FreshSession == NewSession \in SessionType /\ ~(NewSession.state \in {"RECEIVING", "VERIFIED"})
<1>1. <<>> \in Seq(Byte) /\ 0 \in 0 .. TransferRange - 1
  BY TransferAssumption
<1> QED
  BY <1>1 DEF NewSession, SessionType, States

THEOREM TransferInvInit == TransferInit => TransferInv
<1> SUFFICES ASSUME TransferInit PROVE TransferInv
  OBVIOUS
<1>1. TransferTypes
  BY FreshSession, TransferAssumption DEF TransferInit, TransferTypes
<1>2. CoveredIsStored
  BY DEF TransferInit, NewSession, CoveredIsStored
<1> QED
  BY <1>1, <1>2 DEF TransferInit, NewSession, TransferInv, Announced, Live, VerifiedIsCovered, IdleSinceProgress

(* What the sink holds after a block that continues the session.            *)
LEMMA WrittenIsPrefix ==
    ASSUME TransferInv, NEW block, Continues(block),
           block.bytes \in Seq(Byte)
    PROVE  LET length == session.received + Len(block.bytes) IN
           /\ Written(sink, block) \in Seq(Byte)
           /\ session.running \o block.bytes \in Seq(Byte)
           /\ Len(session.running \o block.bytes) = length
           /\ length <= Len(Written(sink, block))
           /\ \A i \in 1 .. length : Written(sink, block)[i] = (session.running \o block.bytes)[i]
<1> DEFINE received == session.received
           head == SubSeq(sink, 1, received)
           tail == SubSeq(sink, received + Len(block.bytes) + 1, Len(sink))
<1>1. /\ received \in Nat /\ session.running \in Seq(Byte) /\ sink \in Seq(Byte)
      /\ Len(session.running) = received /\ received <= Len(sink) /\ Len(sink) \in Nat
      /\ Len(block.bytes) \in Nat
      /\ \A i \in 1 .. Len(sink) : sink[i] \in Byte
  BY LenProperties, ElementOfSeq DEF TransferInv, TransferTypes, SessionType, CoveredIsStored
<1>2. head \in Seq(Byte) /\ Len(head) = received /\ \A i \in 1 .. received : head[i] = sink[i]
  <2>1. \A i \in 1 .. received : sink[i] \in Byte
    BY <1>1
  <2>2. /\ head \in Seq(Byte)
        /\ Len(head) = IF 1 <= received THEN received - 1 + 1 ELSE 0
        /\ \A i \in 1 .. received - 1 + 1 : head[i] = sink[1 + i - 1]
    BY <1>1, <2>1, SubSeqProperties
  <2> QED
    BY <1>1, <2>2
<1>3. tail \in Seq(Byte)
  <2>1. \A i \in received + Len(block.bytes) + 1 .. Len(sink) : sink[i] \in Byte
    BY <1>1
  <2> QED
    BY <1>1, <2>1, SubSeqProperties
<1>4. /\ head \o block.bytes \in Seq(Byte)
      /\ Len(head \o block.bytes) = received + Len(block.bytes)
      /\ \A i \in 1 .. received + Len(block.bytes) :
           (head \o block.bytes)[i] = IF i <= received THEN head[i] ELSE block.bytes[i - received]
  BY <1>2, ConcatProperties
<1>5. /\ session.running \o block.bytes \in Seq(Byte)
      /\ Len(session.running \o block.bytes) = received + Len(block.bytes)
      /\ \A i \in 1 .. received + Len(block.bytes) :
           (session.running \o block.bytes)[i] =
             IF i <= received THEN session.running[i] ELSE block.bytes[i - received]
  <2>1. /\ session.running \o block.bytes \in Seq(Byte)
        /\ Len(session.running \o block.bytes) = Len(session.running) + Len(block.bytes)
        /\ \A i \in 1 .. Len(session.running) + Len(block.bytes) :
             (session.running \o block.bytes)[i] =
               IF i <= Len(session.running) THEN session.running[i]
               ELSE block.bytes[i - Len(session.running)]
    BY <1>1, ConcatProperties
  <2> QED
    BY <1>1, <2>1
<1>6. Written(sink, block) = (head \o block.bytes) \o tail
  BY DEF Written, Continues
<1>7. /\ (head \o block.bytes) \o tail \in Seq(Byte)
      /\ Len((head \o block.bytes) \o tail) = received + Len(block.bytes) + Len(tail)
      /\ \A i \in 1 .. received + Len(block.bytes) + Len(tail) :
           ((head \o block.bytes) \o tail)[i] =
             IF i <= received + Len(block.bytes) THEN (head \o block.bytes)[i]
             ELSE tail[i - (received + Len(block.bytes))]
  <2> HIDE DEF head, tail
  <2>1. /\ (head \o block.bytes) \o tail \in Seq(Byte)
        /\ Len((head \o block.bytes) \o tail) = Len(head \o block.bytes) + Len(tail)
        /\ \A i \in 1 .. Len(head \o block.bytes) + Len(tail) :
             ((head \o block.bytes) \o tail)[i] =
               IF i <= Len(head \o block.bytes) THEN (head \o block.bytes)[i]
               ELSE tail[i - Len(head \o block.bytes)]
    BY <1>3, <1>4, ConcatProperties
  <2> QED
    BY <1>4, <2>1
<1>8. Len(tail) \in Nat
  BY <1>3, LenProperties
<1>9. ASSUME NEW i \in 1 .. received + Len(block.bytes)
      PROVE  Written(sink, block)[i] = (session.running \o block.bytes)[i]
  <2>1. Written(sink, block)[i] = (head \o block.bytes)[i]
    BY <1>1, <1>6, <1>7, <1>8
  <2>2. (head \o block.bytes)[i] = IF i <= received THEN sink[i] ELSE block.bytes[i - received]
    BY <1>1, <1>2, <1>4
  <2>3. i <= received => sink[i] = session.running[i]
    BY <1>1 DEF TransferInv, CoveredIsStored
  <2> QED
    BY <1>5, <2>1, <2>2, <2>3
<1>10. received + Len(block.bytes) <= Len(Written(sink, block))
  BY <1>1, <1>6, <1>7, <1>8
<1> QED
  BY <1>5, <1>6, <1>7, <1>9, <1>10

(* A block fits into the file that is expected.                             *)
LEMMA BlockFits ==
    ASSUME TransferInv, NEW block \in Blocks
    PROVE  /\ block.bytes \in Seq(Byte)
           /\ block.offset + Len(block.bytes) <= session.total
<1>1. PICK file \in Files, offset \in 0 .. session.total - 1, size \in 1 .. BlockMax :
        /\ Len(file) = session.total /\ offset + size <= session.total
        /\ block = [offset |-> offset, bytes |-> SubSeq(file, offset + 1, offset + size)]
  BY DEF Blocks
<1>2. /\ file \in Seq(Byte) /\ session.total \in Nat /\ size \in Nat /\ offset \in Nat /\ 1 <= size
      /\ \A i \in 1 .. session.total : file[i] \in Byte
  <2>1. file \in Seq(Byte) /\ session.total \in Nat
    BY TransferAssumption DEF TransferInv, TransferTypes, SessionType
  <2>2. \A i \in 1 .. Len(file) : file[i] \in Byte
    BY <2>1, ElementOfSeq
  <2> QED
    BY <1>1, <2>1, <2>2, TransferAssumption
<1>3. \A i \in offset + 1 .. offset + size : file[i] \in Byte
  BY <1>1, <1>2
<1>4. /\ SubSeq(file, offset + 1, offset + size) \in Seq(Byte)
      /\ Len(SubSeq(file, offset + 1, offset + size)) =
           IF offset + 1 <= offset + size THEN offset + size - (offset + 1) + 1 ELSE 0
  BY <1>2, <1>3, SubSeqProperties
<1> QED
  BY <1>1, <1>2, <1>4

-----------------------------------------------------------------------------
THEOREM TransferStep == TransferInv /\ [TransferNext]_transferVars => TransferInv'
<1> SUFFICES ASSUME TransferInv, [TransferNext]_transferVars PROVE TransferInv'
  OBVIOUS
<1> USE DEF TransferInv
<1>1. /\ session.total \in Nat /\ session.received \in Nat /\ session.durable \in Nat
      /\ session.progress \in 0 .. TransferRange - 1 /\ TransferRange \in Nat
      /\ ticks \in 0 .. TransferRange - 1 /\ idle \in 0 .. TransferRange - 1
  BY TransferAssumption DEF TransferTypes, SessionType
<1>2. ASSUME NEW file \in Files, BeginTransfer(file) PROVE TransferInv'
  <2>1. file \in Seq(Byte) /\ Len(file) \in Nat
    BY TransferAssumption, LenProperties
  <2>2. session' \in SessionType
    BY <1>1, <1>2, <2>1, FreshSession DEF BeginTransfer, SessionType, NewSession, States
  <2>3. /\ session'.state = "RECEIVING" /\ session'.total = Len(file) /\ session'.expected = file
        /\ session'.received = 0 /\ session'.durable = 0 /\ session'.running = <<>>
        /\ session'.progress = ticks
    BY <1>2 DEF BeginTransfer, NewSession
  <2>4. sink' = sink /\ ticks' = ticks /\ idle' = 0 /\ Len(sink) \in Nat
    BY <1>2, LenProperties DEF BeginTransfer, TransferTypes
  <2>5. TransferTypes'
    BY <1>1, <2>2, <2>4 DEF TransferTypes
  <2>6. CoveredIsStored'
    BY <2>1, <2>3, <2>4 DEF CoveredIsStored
  <2> QED
    BY <1>1, <2>3, <2>4, <2>5, <2>6 DEF Announced, VerifiedIsCovered, IdleSinceProgress
<1>3. ASSUME NEW block \in Blocks, AcceptBlock(block) PROVE TransferInv'
  <2> DEFINE running == session.running \o block.bytes
             length == session.received + Len(block.bytes)
  <2>1. block.bytes \in Seq(Byte) /\ length <= session.total /\ Len(block.bytes) \in Nat
    BY <1>3, BlockFits, LenProperties DEF AcceptBlock, Continues
  <2>2. /\ sink' = Written(sink, block) /\ Written(sink, block) \in Seq(Byte)
        /\ running \in Seq(Byte) /\ Len(running) = length
        /\ length <= Len(Written(sink, block))
        /\ \A i \in 1 .. length : Written(sink, block)[i] = running[i]
    BY <1>3, <2>1, WrittenIsPrefix DEF AcceptBlock
  <2>3. session' = [session EXCEPT !.running = running, !.received = length, !.progress = ticks]
    BY <1>3 DEF AcceptBlock
  <2>4. length \in Nat
    BY <1>1, <2>1
  <2> HIDE DEF running, length
  <2>5. session' \in SessionType
    BY <1>1, <2>2, <2>3, <2>4 DEF SessionType, TransferTypes
  <2>6. /\ session'.state = "RECEIVING" /\ session'.total = session.total
        /\ session'.expected = session.expected /\ session'.durable = session.durable
        /\ session'.received = length /\ session'.running = running /\ session'.progress = ticks
    BY <1>3, <2>3 DEF AcceptBlock, SessionType, TransferTypes
  <2>7. session.state = "RECEIVING" /\ ticks' = ticks /\ idle' = 0
    BY <1>3 DEF AcceptBlock
  <2>8. TransferTypes'
    BY <1>1, <2>2, <2>5, <2>7 DEF TransferTypes
  <2>9. session.durable <= length
    BY <1>1, <2>1 DEF CoveredIsStored, length
  <2>10. CoveredIsStored'
    BY <1>1, <2>1, <2>2, <2>6, <2>4, <2>9 DEF CoveredIsStored
  <2> QED
    BY <1>1, <2>6, <2>7, <2>8, <2>10 DEF Announced, Live, VerifiedIsCovered, IdleSinceProgress
<1>4. ASSUME NEW block \in Blocks, RefuseBlock(block) PROVE TransferInv'
  <2>1. UNCHANGED transferVars
    BY <1>4 DEF RefuseBlock, Replayed, transferVars
  <2> QED
    BY <2>1 DEF transferVars, TransferTypes, CoveredIsStored, Announced, Live, VerifiedIsCovered, IdleSinceProgress
<1>5. ASSUME NEW position \in 0 .. session.received, ConfirmDurable(position) PROVE TransferInv'
  <2>1. session' = [session EXCEPT !.durable = position] /\ position \in Nat /\ position <= session.received
    BY <1>1, <1>5 DEF ConfirmDurable
  <2>2. session' \in SessionType
    BY <2>1 DEF SessionType, TransferTypes
  <2>3. /\ session'.state = session.state /\ session'.total = session.total
        /\ session'.expected = session.expected /\ session'.durable = position
        /\ session'.received = session.received /\ session'.running = session.running
        /\ session'.progress = session.progress
    BY <2>1 DEF SessionType, TransferTypes
  <2>4. sink' = sink /\ ticks' = ticks /\ idle' = idle
    BY <1>5 DEF ConfirmDurable
  <2>5. TransferTypes' /\ CoveredIsStored'
    BY <2>1, <2>2, <2>3, <2>4 DEF TransferTypes, CoveredIsStored
  <2> QED
    BY <2>3, <2>4, <2>5 DEF Announced, Live, VerifiedIsCovered, IdleSinceProgress
<1>6. CASE ResetTransfer
  <2>1. session' = NewSession /\ sink' = sink /\ ticks' = ticks /\ idle' = idle /\ Len(sink) \in Nat
    BY <1>6, LenProperties DEF ResetTransfer, TransferTypes
  <2>2. TransferTypes'
    BY <2>1, FreshSession DEF TransferTypes
  <2>3. CoveredIsStored'
    BY <2>1 DEF CoveredIsStored, NewSession
  <2> QED
    BY <2>1, <2>2, <2>3 DEF NewSession, Announced, Live, VerifiedIsCovered, IdleSinceProgress
<1>7. CASE Cancel \/ Complete
  <2>1. PICK state \in {"CANCELED", "VERIFIED"} :
          /\ session' = [session EXCEPT !.state = state]
          /\ state = "VERIFIED" => Live /\ AllReceived
    BY <1>7 DEF Cancel, Complete
  <2>2. session' \in SessionType
    BY <2>1 DEF SessionType, TransferTypes, States
  <2>3. /\ session'.state = state /\ session'.total = session.total
        /\ session'.expected = session.expected /\ session'.durable = session.durable
        /\ session'.received = session.received /\ session'.running = session.running
    BY <2>1 DEF SessionType, TransferTypes
  <2>4. sink' = sink /\ ticks' = ticks /\ idle' = idle
    BY <1>7 DEF Cancel, Complete
  <2>5. TransferTypes' /\ CoveredIsStored'
    BY <2>2, <2>3, <2>4 DEF TransferTypes, CoveredIsStored
  <2> QED
    BY <2>1, <2>3, <2>4, <2>5 DEF Announced, Live, AllReceived, VerifiedIsCovered, IdleSinceProgress
<1>8. CASE TransferTick
  <2>1. session' = session /\ sink' = sink /\ idle < TransferRange - 1
    BY <1>8 DEF TransferTick
  <2>2. ticks' = (ticks + 1) % TransferRange /\ idle' = IF session.state = "RECEIVING" THEN idle + 1 ELSE 0
    BY <1>8 DEF TransferTick
  <2>3. ticks' = IF ticks = TransferRange - 1 THEN 0 ELSE ticks + 1
    <3>1. CASE ticks = TransferRange - 1
      BY <1>1, <2>2, <3>1, Z3
    <3>2. CASE ticks < TransferRange - 1
      BY <1>1, <2>2, <3>2, Z3
    <3> QED
      BY <1>1, <3>1, <3>2
  <2>4. TransferTypes'
    BY <1>1, <2>1, <2>2, <2>3 DEF TransferTypes
  <2>5. IdleSinceProgress'
    BY <1>1, <2>1, <2>2, <2>3 DEF IdleSinceProgress
  <2> QED
    BY <2>1, <2>4, <2>5 DEF CoveredIsStored, Announced, Live, VerifiedIsCovered
<1>9. CASE UNCHANGED transferVars
  BY <1>9 DEF transferVars, TransferTypes, CoveredIsStored, Announced, Live, VerifiedIsCovered, IdleSinceProgress
<1> QED
  BY <1>2, <1>3, <1>4, <1>5, <1>6, <1>7, <1>8, <1>9 DEF TransferNext

LEMMA InvIsVerified == TransferInv => VerifiedIsWhole
<1> SUFFICES ASSUME TransferInv PROVE VerifiedIsWhole
  OBVIOUS
<1>1. TransferTypeOK
  BY DEF TransferInv, TransferTypes, SessionType, CoveredIsStored, Announced, TransferTypeOK
<1>2. ASSUME session.state = "VERIFIED"
      PROVE  Len(sink) >= session.total /\ SubSeq(sink, 1, session.total) = session.expected
  <2>1. /\ session.received = session.total /\ session.running = session.expected
        /\ session.expected \in Seq(Byte) /\ Len(session.expected) = session.total
        /\ session.total \in Nat /\ sink \in Seq(Byte) /\ Len(sink) \in Nat
        /\ session.total <= Len(sink)
        /\ \A i \in 1 .. session.total : sink[i] = session.expected[i]
    BY <1>2, LenProperties DEF TransferInv, TransferTypes, SessionType, CoveredIsStored, VerifiedIsCovered
  <2>2. \A i \in 1 .. session.total : sink[i] \in Byte
    BY <2>1, ElementOfSeq
  <2>3. /\ SubSeq(sink, 1, session.total) \in Seq(Byte)
        /\ Len(SubSeq(sink, 1, session.total)) = session.total
        /\ \A i \in 1 .. session.total : SubSeq(sink, 1, session.total)[i] = sink[i]
    <3>1. /\ SubSeq(sink, 1, session.total) \in Seq(Byte)
          /\ Len(SubSeq(sink, 1, session.total)) =
               IF 1 <= session.total THEN session.total - 1 + 1 ELSE 0
          /\ \A i \in 1 .. session.total - 1 + 1 : SubSeq(sink, 1, session.total)[i] = sink[1 + i - 1]
      BY <2>1, <2>2, SubSeqProperties
    <3> QED
      BY <2>1, <3>1
  <2> QED
    BY <2>1, <2>3, SeqEqual
<1> QED
  BY <1>1, <1>2 DEF VerifiedIsWhole

LEMMA InvTimesOut == TransferInv => TimesOutWhenIdle
<1> SUFFICES ASSUME TransferInv, session.state = "RECEIVING"
             PROVE  TimedOut <=> idle >= Timeout
  BY DEF TimesOutWhenIdle
<1>1. /\ session.progress \in 0 .. TransferRange - 1 /\ ticks \in 0 .. TransferRange - 1
      /\ idle \in 0 .. TransferRange - 1 /\ TransferRange \in Nat
      /\ ticks = session.progress + idle \/ ticks = session.progress + idle - TransferRange
  BY TransferAssumption DEF TransferInv, TransferTypes, SessionType, IdleSinceProgress
<1>2. (ticks - session.progress) % TransferRange = idle
  <2>1. CASE ticks - session.progress = idle
    BY <1>1, <2>1, Z3
  <2>2. CASE ticks - session.progress = idle - TransferRange
    <3>1. (idle - TransferRange) % TransferRange = idle
      BY <1>1, Z3
    <3> QED
      BY <2>2, <3>1
  <2> QED
    BY <1>1, <2>1, <2>2
<1> QED
  BY <1>2 DEF TimedOut

(* A file that the session reports as verified lies in the sink as a whole. *)
THEOREM TransferVerifiesWholeFiles == TransferSpec => []VerifiedIsWhole
<1> QED
  BY TransferInvInit, TransferStep, InvIsVerified, PTL DEF TransferSpec

(* Replays do not put the timeout off, and nothing else brings it forward.  *)
THEOREM TransferTimesOut == TransferSpec => []TimesOutWhenIdle
<1> QED
  BY TransferInvInit, TransferStep, InvTimesOut, PTL DEF TransferSpec

-----------------------------------------------------------------------------
(* The health monitor.                                                      *)

Monitor == [tasks : [Tasks -> HealthTask], since : 0 .. ClockRange - 1,
            fault : SUBSET Tasks, armed : BOOLEAN, stable : BOOLEAN]

Life == [silent : Nat, signs : 0 .. 2, lease : 0 .. MaxLease, stalled : BOOLEAN]

HealthTypes ==
    /\ clock \in 0 .. ClockRange - 1
    /\ monitor \in Monitor
    /\ unseen \in 0 .. HalfRange - 1
    /\ life \in [Tasks -> Life]
    /\ calm \in 0 .. HalfRange

(* What the monitor may rely on before it is armed, and of its tasks.       *)
Registration ==
    /\ monitor.fault \subseteq Required(monitor)
    /\ \A t \in Required(monitor) : Deadline[t] < HalfRange
    /\ ~monitor.armed =>
         /\ monitor.fault = {} /\ ~monitor.stable /\ unseen = 0
         /\ \A t \in Tasks : monitor.tasks[t].lease = NoLease

(* How old a task's last sign of life is, and how old it may become, as the *)
(* monitor sees it.                                                         *)
Age(t) == IF monitor.tasks[t].lease # NoLease THEN Since(monitor.tasks[t].leaseStart)
          ELSE Since(monitor.tasks[t].last)

Term(t) == IF monitor.tasks[t].lease # NoLease THEN monitor.tasks[t].lease ELSE Deadline[t]

(* The monitor knows the truth about t.                                     *)
Known(t) ==
    /\ monitor.tasks[t].lease = life[t].lease
    /\ monitor.tasks[t].observations = life[t].signs
    /\ Age(t) = life[t].silent
    /\ life[t].silent < Limit(t)

(* t is a fault, or will be one at the next check, which comes before its   *)
(* age can wrap around.                                                     *)
Noticed(t) == t \in monitor.fault \/ (Term(t) <= Age(t) /\ Age(t) < Term(t) + unseen)

Attentive ==
    monitor.armed =>
        IF AllAlive THEN monitor.fault = {} /\ \A t \in Required(monitor) : Known(t)
        ELSE \E t \in Required(monitor) : life[t].stalled /\ Noticed(t)

Milestone ==
    monitor.armed /\ AllAlive /\ monitor.stable =>
        /\ \A t \in Required(monitor) : life[t].signs = 2
        /\ calm = HalfRange \/ Since(monitor.since) <= calm

HealthInv == HealthTypes /\ Registration /\ Attentive /\ Milestone

-----------------------------------------------------------------------------
(* The clock *)

LEMMA HalfOfRange ==
    /\ ClockRange \in Nat /\ HalfRange \in Nat /\ 0 < HalfRange
    /\ HalfRange + HalfRange <= ClockRange
    /\ MaxLease \in Nat /\ MaxLease < HalfRange /\ 0 < MaxLease
<1>1. ClockRange \in Nat /\ HalfRange > 0 /\ MaxLease \in 1 .. HalfRange - 1
  BY HealthAssumption
<1>2. HalfRange \in Nat /\ HalfRange + HalfRange <= ClockRange
  BY <1>1, Z3 DEF HalfRange
<1> QED
  BY <1>1, <1>2

LEMMA ClockDifference ==
    ASSUME NEW now \in 0 .. ClockRange - 1, NEW tick \in 0 .. ClockRange - 1
    PROVE  (now - tick) % ClockRange = IF now >= tick THEN now - tick ELSE now - tick + ClockRange
<1> ClockRange \in Nat
  BY HalfOfRange
<1>1. CASE now >= tick
  BY <1>1, Z3
<1>2. CASE now < tick
  BY <1>2, Z3
<1> QED
  BY <1>1, <1>2

LEMMA NextClock ==
    ASSUME NEW now \in 0 .. ClockRange - 1
    PROVE  (now + 1) % ClockRange = IF now = ClockRange - 1 THEN 0 ELSE now + 1
<1> ClockRange \in Nat
  BY HalfOfRange
<1>1. CASE now = ClockRange - 1
  BY <1>1, Z3
<1>2. CASE now < ClockRange - 1
  BY <1>2, Z3
<1> QED
  BY <1>1, <1>2

(* A millisecond makes every tick one older, up to the wrap-around.         *)
LEMMA SinceGrows ==
    ASSUME NEW now \in 0 .. ClockRange - 1, NEW tick \in 0 .. ClockRange - 1,
           NEW next, next = (now + 1) % ClockRange
    PROVE  /\ (now - tick) % ClockRange \in 0 .. ClockRange - 1
           /\ (next - tick) % ClockRange =
                IF (now - tick) % ClockRange = ClockRange - 1 THEN 0
                ELSE ((now - tick) % ClockRange) + 1
<1>1. next = IF now = ClockRange - 1 THEN 0 ELSE now + 1
  BY NextClock
<1>2. next \in 0 .. ClockRange - 1 /\ ClockRange \in Nat
  BY <1>1, HalfOfRange
<1>3. (next - tick) % ClockRange = IF next >= tick THEN next - tick ELSE next - tick + ClockRange
  BY <1>2, ClockDifference
<1>4. (now - tick) % ClockRange = IF now >= tick THEN now - tick ELSE now - tick + ClockRange
  BY ClockDifference
<1> QED
  BY <1>1, <1>2, <1>3, <1>4

LEMMA JustNow == ASSUME NEW now \in 0 .. ClockRange - 1 PROVE (now - now) % ClockRange = 0
  BY ClockDifference, HalfOfRange

-----------------------------------------------------------------------------
(* What a check finds *)

LEMMA TaskTypes ==
    ASSUME HealthInv, NEW t \in Tasks
    PROVE  /\ monitor.tasks[t] \in HealthTask
           /\ monitor.tasks[t].registered \in BOOLEAN
           /\ monitor.tasks[t].last \in 0 .. ClockRange - 1
           /\ monitor.tasks[t].leaseStart \in 0 .. ClockRange - 1
           /\ monitor.tasks[t].lease \in 0 .. MaxLease
           /\ monitor.tasks[t].observations \in 0 .. 2
           /\ life[t] \in Life /\ life[t].silent \in Nat /\ life[t].signs \in 0 .. 2
           /\ life[t].lease \in 0 .. MaxLease /\ life[t].stalled \in BOOLEAN
           /\ Deadline[t] \in 1 .. ClockRange - 1
  BY HealthAssumption DEF HealthInv, HealthTypes, Monitor, HealthTask, Life

LEMMA AgeTypes ==
    ASSUME HealthInv, NEW t \in Required(monitor)
    PROVE  /\ t \in Tasks /\ Age(t) \in 0 .. ClockRange - 1
           /\ Term(t) \in 1 .. HalfRange - 1
           /\ Overdue(monitor.tasks[t], Deadline[t]) <=> Age(t) >= Term(t)
<1>1. t \in Tasks /\ Deadline[t] < HalfRange
  BY DEF Required, HealthInv, Registration
<1>2. /\ Since(monitor.tasks[t].last) \in 0 .. ClockRange - 1
      /\ Since(monitor.tasks[t].leaseStart) \in 0 .. ClockRange - 1
  BY <1>1, TaskTypes, SinceGrows DEF Since, HealthInv, HealthTypes
<1>3. Age(t) \in 0 .. ClockRange - 1
  BY <1>2 DEF Age
<1>4. Term(t) \in 1 .. HalfRange - 1
  BY <1>1, TaskTypes, HalfOfRange DEF Term, NoLease
<1> QED
  BY <1>1, <1>3, <1>4 DEF Overdue, Age, Term

LEMMA CheckFindsStalls ==
    ASSUME HealthInv, monitor.armed
    PROVE  /\ AllAlive => Faults(monitor) = {}
           /\ ~AllAlive => \E t \in Required(monitor) : life[t].stalled /\ t \in Faults(monitor)
           /\ Faults(monitor) \subseteq Required(monitor)
<1>1. ASSUME AllAlive PROVE Faults(monitor) = {}
  <2>1. monitor.fault = {} /\ \A t \in Required(monitor) : Known(t)
    BY <1>1 DEF HealthInv, Attentive
  <2>2. ASSUME NEW t \in Required(monitor) PROVE ~Overdue(monitor.tasks[t], Deadline[t])
    <3>1. Age(t) = life[t].silent /\ life[t].silent < Limit(t) /\ monitor.tasks[t].lease = life[t].lease
      BY <2>1 DEF Known
    <3>2. Term(t) = Limit(t)
      BY <3>1 DEF Term, Limit
    <3> QED
      BY <3>1, <3>2, AgeTypes
  <2> QED
    BY <2>1, <2>2 DEF Faults
<1>2. ASSUME ~AllAlive
      PROVE  \E t \in Required(monitor) : life[t].stalled /\ t \in Faults(monitor)
  <2>1. PICK t \in Required(monitor) : life[t].stalled /\ Noticed(t)
    BY <1>2 DEF HealthInv, Attentive
  <2>2. t \in monitor.fault \/ Overdue(monitor.tasks[t], Deadline[t])
    BY <2>1, AgeTypes DEF Noticed
  <2> QED
    BY <2>1, <2>2 DEF Faults
<1>3. Faults(monitor) \subseteq Required(monitor)
  BY DEF Faults, HealthInv, Registration
<1> QED
  BY <1>1, <1>2, <1>3

(* What a check leaves behind.                                              *)
LEMMA InspectedIs ==
    ASSUME HealthInv, monitor.armed
    PROVE  LET m == Inspected(monitor) IN
           /\ m \in Monitor /\ m.tasks = monitor.tasks /\ m.armed
           /\ Required(m) = Required(monitor)
           /\ AllAlive => /\ m.fault = {} /\ Healthy(monitor)
                          /\ m.stable => \/ Observed(monitor) /\ m.since = clock
                                         \/ monitor.stable /\ m.since = monitor.since
           /\ ~AllAlive => /\ ~Healthy(monitor)
                           /\ m.fault \subseteq Required(monitor)
                           /\ \E t \in Required(monitor) : life[t].stalled /\ t \in m.fault
<1> DEFINE m == Inspected(monitor)
<1>1. monitor \in Monitor /\ clock \in 0 .. ClockRange - 1 /\ monitor.armed = TRUE
  BY DEF HealthInv, HealthTypes, Monitor
<1>2. Faults(monitor) \subseteq Tasks
  BY CheckFindsStalls DEF Required
<1>3. CASE Faults(monitor) # {}
  <2>1. m = [monitor EXCEPT !.fault = Faults(monitor), !.stable = FALSE, !.since = 0]
    BY <1>1, <1>3 DEF Inspected
  <2>2. 0 \in 0 .. ClockRange - 1
    BY HalfOfRange
  <2>3. m \in Monitor /\ m.tasks = monitor.tasks /\ m.armed /\ m.fault = Faults(monitor)
    BY <1>1, <1>2, <2>1, <2>2 DEF Monitor
  <2> QED
    BY <1>3, <2>3, CheckFindsStalls DEF Required, Healthy
<1>4. CASE Faults(monitor) = {} /\ Observed(monitor) /\ ~monitor.stable
  <2>1. m = [monitor EXCEPT !.stable = TRUE, !.since = clock]
    BY <1>1, <1>4 DEF Inspected
  <2>2. m \in Monitor /\ m.tasks = monitor.tasks /\ m.armed /\ m.fault = monitor.fault
        /\ m.since = clock
    BY <1>1, <2>1 DEF Monitor
  <2> QED
    BY <1>1, <1>4, <2>2, CheckFindsStalls DEF Required, Healthy, Faults
<1>5. CASE Faults(monitor) = {} /\ ~(Observed(monitor) /\ ~monitor.stable)
  <2>1. m = monitor
    BY <1>1, <1>5 DEF Inspected
  <2> QED
    BY <1>1, <1>5, <2>1, CheckFindsStalls DEF Required, Healthy, Faults
<1> QED
  BY <1>3, <1>4, <1>5

-----------------------------------------------------------------------------
(* The steps *)

(* While all live, an operation keeps the monitor's knowledge if it does so *)
(* for the task it is about.                                                *)
LEMMA AliveKept ==
    ASSUME HealthInv, monitor.armed, AllAlive,
           clock' = clock, calm' = calm, unseen' = 0,
           monitor' \in Monitor, life' \in [Tasks -> Life], monitor'.armed,
           Required(monitor)' = Required(monitor),
           monitor'.fault = Inspected(monitor).fault,
           monitor'.since = Inspected(monitor).since,
           monitor'.stable = Inspected(monitor).stable,
           \A t \in Required(monitor) :
             ~life'[t].stalled /\ Known(t)' /\ (life[t].signs = 2 => life'[t].signs = 2)
    PROVE  HealthInv'
<1>1. HealthTypes'
  BY HalfOfRange DEF HealthInv, HealthTypes
<1>2. monitor'.fault = {}
  BY InspectedIs
<1>3. Registration'
  BY <1>2 DEF HealthInv, Registration
<1>4. Attentive'
  BY <1>2 DEF Attentive, AllAlive
<1>5. ASSUME monitor'.stable
      PROVE  /\ \A t \in Required(monitor) : life'[t].signs = 2
             /\ calm' = HalfRange \/ Since(monitor.since)' <= calm'
  <2>1. \/ Observed(monitor) /\ monitor'.since = clock
        \/ monitor.stable /\ monitor'.since = monitor.since
    BY <1>5, InspectedIs
  <2>2. CASE Observed(monitor) /\ monitor'.since = clock
    <3>1. \A t \in Required(monitor) : life[t].signs = 2
      BY <2>2 DEF Observed, HealthInv, Attentive, Known
    <3>2. clock \in 0 .. ClockRange - 1 /\ calm \in 0 .. HalfRange
      BY DEF HealthInv, HealthTypes
    <3>3. Since(monitor.since)' = 0
      BY <2>2, <3>2, JustNow DEF Since
    <3> QED
      BY <3>1, <3>2, <3>3, HalfOfRange
  <2>3. CASE monitor.stable /\ monitor'.since = monitor.since
    BY <2>3 DEF HealthInv, Milestone, Since
  <2> QED
    BY <2>1, <2>2, <2>3
<1>6. Milestone'
  BY <1>5 DEF Milestone
<1> QED
  BY <1>1, <1>3, <1>4, <1>6 DEF HealthInv

(* Once a task stalled every operation refuses, and the first check makes   *)
(* it a fault for good.                                                     *)
LEMMA AlarmKept ==
    ASSUME HealthInv, monitor.armed, ~AllAlive,
           clock' = clock, calm' = calm, unseen' = 0,
           monitor' = Inspected(monitor), life' \in [Tasks -> Life],
           \A t \in Tasks : life'[t].stalled = life[t].stalled
    PROVE  HealthInv'
<1>1. /\ monitor' \in Monitor /\ monitor'.armed
      /\ Required(monitor)' = Required(monitor)
      /\ monitor'.fault \subseteq Required(monitor)
  BY InspectedIs DEF Required
<1>2. PICK t \in Required(monitor) : life[t].stalled /\ t \in monitor'.fault
  BY InspectedIs
<1>3. HealthTypes'
  BY <1>1, HalfOfRange DEF HealthInv, HealthTypes
<1>4. Registration'
  BY <1>1 DEF HealthInv, Registration
<1>5. t \in Required(monitor)' /\ life'[t].stalled
  BY <1>1, <1>2 DEF Required
<1>6. ~AllAlive'
  BY <1>5 DEF AllAlive
<1>7. Attentive'
  BY <1>2, <1>5, <1>6 DEF Attentive, Noticed
<1>8. Milestone'
  BY <1>6 DEF Milestone
<1> QED
  BY <1>3, <1>4, <1>7, <1>8 DEF HealthInv

LEMMA CheckKept == HealthInv /\ Check => HealthInv'
<1> SUFFICES ASSUME HealthInv, Check PROVE HealthInv'
  OBVIOUS
<1>1. /\ monitor.armed /\ monitor' = Inspected(monitor) /\ unseen' = 0
      /\ clock' = clock /\ life' = life /\ calm' = calm
  BY DEF Check
<1>2. life \in [Tasks -> Life]
  BY DEF HealthInv, HealthTypes
<1>3. CASE ~AllAlive
  BY <1>1, <1>2, <1>3, AlarmKept
<1>4. CASE AllAlive
  <2>1. monitor' \in Monitor /\ monitor'.tasks = monitor.tasks /\ monitor'.armed
    BY <1>1, InspectedIs
  <2>2. Required(monitor)' = Required(monitor)
    BY <2>1 DEF Required
  <2>3. \A t \in Required(monitor) : ~life[t].stalled /\ Known(t)
    BY <1>1, <1>4 DEF AllAlive, HealthInv, Attentive
  <2>4. \A t \in Required(monitor) : Known(t)'
    BY <1>1, <2>1, <2>2, <2>3 DEF Known, Age, Limit, Since
  <2> QED
    BY <1>1, <1>2, <1>4, <2>1, <2>2, <2>3, <2>4, AliveKept
<1> QED
  BY <1>3, <1>4

(* An operation that really renews the task it is about.                    *)
LEMMA TaskRenewed ==
    ASSUME HealthInv, monitor.armed, AllAlive,
           clock' = clock, calm' = calm, unseen' = 0,
           NEW t \in Required(monitor), NEW task \in HealthTask, NEW alive \in Life,
           task.registered, task.lease = alive.lease, task.observations = alive.signs,
           ~alive.stalled, life[t].signs = 2 => alive.signs = 2, alive.silent = 0,
           task.lease # NoLease => task.leaseStart = clock,
           task.lease = NoLease => task.last = clock,
           monitor' = [Inspected(monitor) EXCEPT !.tasks = [monitor.tasks EXCEPT ![t] = task]],
           life' = [life EXCEPT ![t] = alive]
    PROVE  HealthInv'
<1>1. /\ Inspected(monitor) \in Monitor /\ Inspected(monitor).armed
      /\ monitor.tasks \in [Tasks -> HealthTask] /\ life \in [Tasks -> Life]
      /\ clock \in 0 .. ClockRange - 1 /\ t \in Tasks
  BY InspectedIs DEF HealthInv, HealthTypes, Monitor, Required
<1>2. /\ monitor' \in Monitor /\ monitor'.armed
      /\ monitor'.tasks = [monitor.tasks EXCEPT ![t] = task]
      /\ monitor'.fault = Inspected(monitor).fault
      /\ monitor'.since = Inspected(monitor).since
      /\ monitor'.stable = Inspected(monitor).stable
  BY <1>1 DEF Monitor
<1>3. life' \in [Tasks -> Life]
  BY <1>1
<1>4. Required(monitor)' = Required(monitor)
  BY <1>1, <1>2 DEF Required
<1>5. ASSUME NEW r \in Required(monitor)
      PROVE  ~life'[r].stalled /\ Known(r)' /\ (life[r].signs = 2 => life'[r].signs = 2)
  <2>1. r \in Tasks
    BY DEF Required
  <2>2. CASE r = t
    <3>1. monitor'.tasks[r] = task /\ life'[r] = alive
      BY <1>1, <1>2, <2>2
    <3>2. Age(r)' = 0
      BY <1>1, <3>1, JustNow DEF Age, Since
    <3>3. 0 < Limit(r)'
      BY <2>1, <3>1, HealthAssumption DEF Limit, NoLease, Life
    <3> QED
      BY <2>2, <3>1, <3>2, <3>3 DEF Known
  <2>3. CASE r # t
    <3>1. monitor'.tasks[r] = monitor.tasks[r] /\ life'[r] = life[r]
      BY <1>1, <1>2, <2>1, <2>3
    <3>2. ~life[r].stalled /\ Known(r)
      BY DEF AllAlive, HealthInv, Attentive
    <3> QED
      BY <3>1, <3>2 DEF Known, Age, Limit, Since
  <2> QED
    BY <2>2, <2>3
<1> QED
  BY <1>2, <1>3, <1>4, <1>5, AliveKept

(* A sign of life, as a heartbeat or as the end of a lease.                 *)
More(n) == IF n < 2 THEN n + 1 ELSE n

Renewed(alive) == [alive EXCEPT !.silent = 0, !.lease = NoLease, !.signs = More(@)]

LEMMA MoreSigns == ASSUME NEW n \in 0 .. 2 PROVE More(n) \in 0 .. 2 /\ (n = 2 => More(n) = 2)
  BY DEF More

LEMMA RenewedIs ==
    ASSUME NEW alive \in Life
    PROVE  /\ Renewed(alive) \in Life
           /\ Renewed(alive).silent = 0 /\ Renewed(alive).lease = NoLease
           /\ Renewed(alive).signs = More(alive.signs)
           /\ Renewed(alive).stalled = alive.stalled
<1>1. 0 \in Nat /\ NoLease \in 0 .. MaxLease /\ More(alive.signs) \in 0 .. 2
  BY MoreSigns, HalfOfRange DEF Life, NoLease
<1> QED
  BY <1>1 DEF Renewed, Life

LEMMA SeenIs ==
    ASSUME NEW task \in HealthTask, clock \in 0 .. ClockRange - 1
    PROVE  /\ Seen(task) \in HealthTask
           /\ Seen(task).last = clock /\ Seen(task).observations = More(task.observations)
           /\ Seen(task).lease = task.lease /\ Seen(task).registered = task.registered
<1>1. More(task.observations) \in 0 .. 2
  BY MoreSigns DEF HealthTask
<1>2. Seen(task) = [task EXCEPT !.last = clock, !.observations = More(@)]
  BY DEF Seen, More
<1> QED
  BY <1>1, <1>2 DEF HealthTask

LEMMA LivesKept ==
    ASSUME HealthInv, NEW t \in Tasks, Lives(t)
    PROVE  /\ life' \in [Tasks -> Life]
           /\ \A r \in Tasks : life'[r].stalled = life[r].stalled
           /\ ~life[t].stalled => life' = [life EXCEPT ![t] = Renewed(life[t])]
<1>1. life \in [Tasks -> Life] /\ life[t] \in Life
  BY DEF HealthInv, HealthTypes
<1>2. CASE life[t].stalled
  BY <1>1, <1>2 DEF Lives
<1>3. CASE ~life[t].stalled
  <2>1. life' = [life EXCEPT ![t] = Renewed(life[t])]
    BY <1>1, <1>3 DEF Lives, Renewed, More
  <2>2. life'[t] = Renewed(life[t]) /\ \A r \in Tasks : r # t => life'[r] = life[r]
    BY <1>1, <2>1
  <2> QED
    BY <1>1, <2>1, <2>2, RenewedIs
<1> QED
  BY <1>2, <1>3

LEMMA ProgressKept == HealthInv /\ (\E t \in Tasks : Progress(t)) => HealthInv'
<1> SUFFICES ASSUME HealthInv, NEW t \in Tasks, Progress(t) PROVE HealthInv'
  OBVIOUS
<1> DEFINE m == Inspected(monitor)
<1>1. monitor.armed /\ t \in Required(monitor) /\ unseen' = 0 /\ clock' = clock /\ calm' = calm
  BY DEF Progress
<1>2. /\ life \in [Tasks -> Life] /\ life[t] \in Life
      /\ monitor.tasks \in [Tasks -> HealthTask] /\ monitor.tasks[t] \in HealthTask
      /\ clock \in 0 .. ClockRange - 1
  BY DEF HealthInv, HealthTypes, Monitor
<1>3. m.tasks = monitor.tasks /\ m \in Monitor
  BY <1>1, InspectedIs
<1>4. /\ life' \in [Tasks -> Life]
      /\ \A r \in Tasks : life'[r].stalled = life[r].stalled
  BY <1>2, LivesKept DEF Progress
<1>5. CASE ~AllAlive
  <2>1. monitor' = m
    BY <1>1, <1>5, InspectedIs DEF Progress
  <2> QED
    BY <1>1, <1>4, <1>5, <2>1, AlarmKept
<1>6. CASE AllAlive
  <2>1. Healthy(monitor) /\ ~life[t].stalled /\ Known(t)
    BY <1>1, <1>6, InspectedIs DEF AllAlive, HealthInv, Attentive
  <2>2. CASE life[t].lease # NoLease
    <3>1. monitor' = m /\ life' = life
      BY <1>3, <2>1, <2>2 DEF Progress, HeartbeatCounts, Known
    <3> QED
      BY <1>1, <3>1, CheckKept DEF Check
  <2>3. CASE life[t].lease = NoLease
    <3>1. life' = [life EXCEPT ![t] = Renewed(life[t])]
      BY <2>1, <2>3, LivesKept DEF Progress
    <3>2. monitor' = [m EXCEPT !.tasks = [monitor.tasks EXCEPT ![t] = Seen(monitor.tasks[t])]]
      BY <1>3, <2>1, <2>3 DEF Progress, HeartbeatCounts, Known, Monitor
    <3>3. /\ monitor.tasks[t].lease = NoLease /\ monitor.tasks[t].registered
          /\ monitor.tasks[t].observations = life[t].signs
      BY <1>1, <2>1, <2>3 DEF Known, Required
    <3>4. /\ Seen(monitor.tasks[t]) \in HealthTask /\ Seen(monitor.tasks[t]).registered
          /\ Seen(monitor.tasks[t]).lease = NoLease /\ Seen(monitor.tasks[t]).last = clock
          /\ Seen(monitor.tasks[t]).observations = More(life[t].signs)
      BY <1>2, <3>3, SeenIs
    <3>5. /\ Renewed(life[t]) \in Life /\ ~Renewed(life[t]).stalled
          /\ Renewed(life[t]).silent = 0 /\ Renewed(life[t]).lease = NoLease
          /\ Renewed(life[t]).signs = More(life[t].signs)
          /\ life[t].signs = 2 => More(life[t].signs) = 2
      BY <1>2, <2>1, RenewedIs, MoreSigns DEF Life
    <3> QED
      BY <1>1, <1>6, <3>1, <3>2, <3>4, <3>5, TaskRenewed
  <2> QED
    BY <2>2, <2>3
<1> QED
  BY <1>5, <1>6

Leased(task, duration, tick) == [task EXCEPT !.lease = duration, !.leaseStart = tick]

LEMMA LeaseLeft ==
    ASSUME NEW task \in HealthTask,
           NEW duration \in 0 .. MaxLease, NEW tick \in 0 .. ClockRange - 1
    PROVE  /\ Leased(task, duration, tick) \in HealthTask
           /\ Leased(task, duration, tick).registered = task.registered
           /\ Leased(task, duration, tick).lease = duration
           /\ Leased(task, duration, tick).leaseStart = tick
           /\ Leased(task, duration, tick).last = task.last
           /\ Leased(task, duration, tick).observations = task.observations
  BY DEF HealthTask, Leased

LEMMA EndLeaseKept == HealthInv /\ (\E t \in Tasks : EndLease(t)) => HealthInv'
<1> SUFFICES ASSUME HealthInv, NEW t \in Tasks, EndLease(t) PROVE HealthInv'
  OBVIOUS
<1> DEFINE m == Inspected(monitor)
           ended == Leased(Seen(monitor.tasks[t]), NoLease, 0)
<1>1. /\ monitor.armed /\ t \in Required(monitor) /\ Lives(t)
      /\ unseen' = 0 /\ clock' = clock /\ calm' = calm
  BY DEF EndLease
<1>2. /\ life \in [Tasks -> Life] /\ life[t] \in Life
      /\ monitor.tasks \in [Tasks -> HealthTask] /\ monitor.tasks[t] \in HealthTask
      /\ clock \in 0 .. ClockRange - 1
  BY DEF HealthInv, HealthTypes, Monitor
<1>3. m.tasks = monitor.tasks /\ m \in Monitor
  BY <1>1, InspectedIs
<1>4. CASE ~AllAlive
  <2>1. monitor' = m
    BY <1>1, <1>4, InspectedIs DEF EndLease
  <2> QED
    BY <1>1, <1>4, <2>1, LivesKept, AlarmKept
<1>5. CASE AllAlive
  <2>1. Healthy(monitor) /\ ~life[t].stalled /\ Known(t)
    BY <1>1, <1>5, InspectedIs DEF AllAlive, HealthInv, Attentive
  <2>2. life' = [life EXCEPT ![t] = Renewed(life[t])]
    BY <1>1, <2>1, LivesKept
  <2>3. monitor' = [m EXCEPT !.tasks = [monitor.tasks EXCEPT ![t] = ended]]
    BY <1>3, <2>1 DEF EndLease, Leased, Monitor
  <2>4. monitor.tasks[t].registered /\ monitor.tasks[t].observations = life[t].signs
    BY <1>1, <2>1 DEF Known, Required
  <2>5. /\ Seen(monitor.tasks[t]) \in HealthTask /\ Seen(monitor.tasks[t]).registered
        /\ Seen(monitor.tasks[t]).last = clock
        /\ Seen(monitor.tasks[t]).observations = More(life[t].signs)
    BY <1>2, <2>4, SeenIs
  <2>6. /\ ended \in HealthTask /\ ended.registered /\ ended.lease = NoLease
        /\ ended.last = clock /\ ended.observations = More(life[t].signs)
    <3>1. NoLease \in 0 .. MaxLease /\ 0 \in 0 .. ClockRange - 1
      BY HalfOfRange DEF NoLease
    <3>2. /\ ended \in HealthTask /\ ended.lease = NoLease
          /\ ended.registered = Seen(monitor.tasks[t]).registered
          /\ ended.last = Seen(monitor.tasks[t]).last
          /\ ended.observations = Seen(monitor.tasks[t]).observations
      BY <2>5, <3>1, LeaseLeft
    <3> HIDE DEF ended
    <3> QED
      BY <2>5, <3>2
  <2>7. /\ Renewed(life[t]) \in Life /\ ~Renewed(life[t]).stalled
        /\ Renewed(life[t]).silent = 0 /\ Renewed(life[t]).lease = NoLease
        /\ Renewed(life[t]).signs = More(life[t].signs)
        /\ life[t].signs = 2 => More(life[t].signs) = 2
    BY <1>2, <2>1, RenewedIs, MoreSigns DEF Life
  <2> HIDE DEF ended
  <2> QED
    BY <1>1, <1>5, <2>2, <2>3, <2>6, <2>7, TaskRenewed
<1> QED
  BY <1>4, <1>5
LEMMA BeginLeaseKept ==
    HealthInv /\ (\E t \in Tasks, duration \in 1 .. MaxLease : BeginLease(t, duration)) => HealthInv'
<1> SUFFICES ASSUME HealthInv, NEW t \in Tasks, NEW duration \in 1 .. MaxLease,
                    BeginLease(t, duration)
             PROVE  HealthInv'
  OBVIOUS
<1> DEFINE m == Inspected(monitor)
           leased == Leased(monitor.tasks[t], duration, clock)
           leasing == [life[t] EXCEPT !.silent = 0, !.lease = duration]
<1>1. /\ monitor.armed /\ t \in Required(monitor)
      /\ unseen' = 0 /\ clock' = clock /\ calm' = calm
      /\ duration # NoLease /\ duration \in 0 .. MaxLease
  BY HalfOfRange DEF BeginLease, NoLease
<1>2. /\ life \in [Tasks -> Life] /\ life[t] \in Life
      /\ monitor.tasks \in [Tasks -> HealthTask] /\ monitor.tasks[t] \in HealthTask
      /\ clock \in 0 .. ClockRange - 1
  BY DEF HealthInv, HealthTypes, Monitor
<1>3. m.tasks = monitor.tasks /\ m \in Monitor
  BY <1>1, InspectedIs
<1>4. /\ leasing \in Life /\ leasing.stalled = life[t].stalled
      /\ leasing.silent = 0 /\ leasing.lease = duration /\ leasing.signs = life[t].signs
  BY <1>1, <1>2 DEF Life
<1>5. /\ leased \in HealthTask /\ leased.registered = monitor.tasks[t].registered
      /\ leased.lease = duration /\ leased.leaseStart = clock
      /\ leased.observations = monitor.tasks[t].observations
  BY <1>1, <1>2, LeaseLeft
<1>6. life' = IF life[t].lease # NoLease \/ life[t].stalled THEN life ELSE [life EXCEPT ![t] = leasing]
  BY <1>2 DEF BeginLease
<1>7. CASE ~AllAlive
  <2> HIDE DEF leasing
  <2>1. monitor' = m
    BY <1>1, <1>7, InspectedIs DEF BeginLease
  <2>2. life' \in [Tasks -> Life] /\ \A r \in Tasks : life'[r].stalled = life[r].stalled
    BY <1>2, <1>4, <1>6
  <2> QED
    BY <1>1, <1>7, <2>1, <2>2, AlarmKept
<1>8. CASE AllAlive
  <2>1. Healthy(monitor) /\ ~life[t].stalled /\ Known(t)
    BY <1>1, <1>8, InspectedIs DEF AllAlive, HealthInv, Attentive
  <2>2. CASE life[t].lease # NoLease
    <3>1. monitor' = m /\ life' = life
      BY <1>3, <1>6, <2>1, <2>2 DEF BeginLease, LeaseFree, Known
    <3> QED
      BY <1>1, <3>1, CheckKept DEF Check
  <2>3. CASE life[t].lease = NoLease
    <3>1. life' = [life EXCEPT ![t] = leasing]
      BY <1>6, <2>1, <2>3
    <3>2. monitor' = [m EXCEPT !.tasks = [monitor.tasks EXCEPT ![t] = leased]]
      BY <1>3, <2>1, <2>3 DEF BeginLease, LeaseFree, Known, Leased, Monitor
    <3>3. monitor.tasks[t].registered /\ monitor.tasks[t].observations = life[t].signs
      BY <1>1, <2>1 DEF Known, Required
    <3> HIDE DEF leased, leasing
    <3>4. /\ leased \in HealthTask /\ leased.registered /\ leased.lease = leasing.lease
          /\ leased.observations = leasing.signs /\ ~leasing.stalled
          /\ leased.lease # NoLease /\ leased.leaseStart = clock
          /\ life[t].signs = 2 => leasing.signs = 2
      BY <1>1, <1>4, <1>5, <2>1, <3>3
    <3> QED
      BY <1>1, <1>4, <1>8, <3>1, <3>2, <3>4, TaskRenewed
  <2> QED
    BY <2>2, <2>3
<1> QED
  BY <1>7, <1>8

(* Ages grow with the time that really passed, and none reaches the         *)
(* wrap-around before a check.                                              *)
LEMMA MillisecondKept == HealthInv /\ Millisecond => HealthInv'
<1> SUFFICES ASSUME HealthInv, Millisecond PROVE HealthInv'
  OBVIOUS
<1>1. /\ monitor' = monitor /\ clock' = (clock + 1) % ClockRange
      /\ monitor.armed => unseen + 1 < HalfRange
      /\ unseen' = IF monitor.armed THEN unseen + 1 ELSE 0
      /\ life' = IF monitor.armed THEN [t \in Tasks |-> Older(t)] ELSE life
      /\ calm' = IF monitor.armed /\ (\A t \in Required(monitor) : life[t].signs = 2)
                    /\ calm < HalfRange
                 THEN calm + 1 ELSE calm
  BY DEF Millisecond
<1>2. /\ clock \in 0 .. ClockRange - 1 /\ monitor \in Monitor /\ unseen \in 0 .. HalfRange - 1
      /\ life \in [Tasks -> Life] /\ calm \in 0 .. HalfRange
  BY DEF HealthInv, HealthTypes
<1>3. clock' \in 0 .. ClockRange - 1
  BY <1>1, <1>2, NextClock, HalfOfRange
<1>4. \A t \in Tasks : Older(t) \in Life
  <2> SUFFICES ASSUME NEW t \in Tasks PROVE Older(t) \in Life
    OBVIOUS
  <2>1. life[t] \in Life /\ life[t].silent + 1 \in Nat
    BY <1>2 DEF Life
  <2>2. [life[t] EXCEPT !.silent = @ + 1] \in Life
    BY <2>1 DEF Life
  <2>3. Stalled \in Life
    <3>1. 0 \in 0 .. MaxLease
      BY HalfOfRange
    <3> QED
      BY <3>1 DEF Stalled, NoLease, Life
  <2> QED
    BY <2>1, <2>2, <2>3 DEF Older
<1>5. HealthTypes'
  <2>1. life' \in [Tasks -> Life]
    BY <1>1, <1>2, <1>4
  <2>2. unseen' \in 0 .. HalfRange - 1 /\ calm' \in 0 .. HalfRange
    BY <1>1, <1>2, HalfOfRange
  <2> QED
    BY <1>1, <1>2, <1>3, <2>1, <2>2 DEF HealthTypes
<1>6. Registration'
  BY <1>1 DEF HealthInv, Registration, Required
<1>7. Required(monitor)' = Required(monitor) /\ Required(monitor) \subseteq Tasks
  BY <1>1 DEF Required
<1>8. CASE ~monitor.armed
  BY <1>1, <1>5, <1>6, <1>8 DEF HealthInv, Attentive, Milestone
<1>9. CASE monitor.armed
  <2>1. ASSUME NEW t \in Required(monitor)
        PROVE  /\ Age(t)' = IF Age(t) = ClockRange - 1 THEN 0 ELSE Age(t) + 1
               /\ Term(t)' = Term(t)
    <3>1. /\ monitor.tasks[t].last \in 0 .. ClockRange - 1
          /\ monitor.tasks[t].leaseStart \in 0 .. ClockRange - 1
      BY <1>7, TaskTypes
    <3> QED
      BY <1>1, <1>2, <3>1, SinceGrows DEF Age, Term, Since
  <2>2. ASSUME NEW t \in Required(monitor), life[t].stalled PROVE life'[t].stalled
    BY <1>1, <1>7, <1>9, <2>2 DEF Older
  <2>3. ASSUME NEW t \in Required(monitor), ~life[t].stalled, Known(t)
        PROVE  IF life'[t].stalled THEN Noticed(t)' ELSE Known(t)' /\ life'[t].signs = life[t].signs
    <3>1. /\ Age(t) = life[t].silent /\ life[t].silent < Limit(t)
          /\ monitor.tasks[t].lease = life[t].lease /\ monitor.tasks[t].observations = life[t].signs
      BY <2>3 DEF Known
    <3>2. Term(t) = Limit(t)
      BY <3>1 DEF Term, Limit
    <3>3. Term(t) \in 1 .. HalfRange - 1 /\ Age(t) \in 0 .. ClockRange - 1
      BY AgeTypes
    <3>4. Age(t)' = Age(t) + 1
      BY <2>1, <3>1, <3>2, <3>3, HalfOfRange
    <3>5. life'[t] = Older(t) /\ life[t] \in Life
      BY <1>1, <1>2, <1>7, <1>9
    <3>6. CASE life[t].silent + 1 < Limit(t)
      <4>1. life'[t] = [life[t] EXCEPT !.silent = @ + 1]
        BY <2>3, <3>5, <3>6 DEF Older
      <4>2. /\ life'[t].silent = life[t].silent + 1 /\ life'[t].lease = life[t].lease
            /\ life'[t].signs = life[t].signs /\ life'[t].stalled = life[t].stalled
        BY <3>5, <4>1 DEF Life
      <4>3. Limit(t)' = Limit(t)
        BY <4>2 DEF Limit
      <4> QED
        BY <1>1, <2>3, <3>1, <3>4, <3>6, <4>2, <4>3 DEF Known
    <3>7. CASE ~(life[t].silent + 1 < Limit(t))
      <4>1. life'[t].stalled
        BY <2>3, <3>5, <3>7 DEF Older, Stalled
      <4>2. Age(t) + 1 = Term(t)
        BY <3>1, <3>2, <3>3, <3>7
      <4>3. unseen' = unseen + 1
        BY <1>1, <1>9
      <4> QED
        BY <1>2, <2>1, <3>3, <3>4, <4>1, <4>2, <4>3, HalfOfRange DEF Noticed
    <3> QED
      BY <3>6, <3>7
  <2>4. ASSUME NEW t \in Required(monitor), Noticed(t) PROVE Noticed(t)'
    <3>1. CASE t \in monitor.fault
      BY <1>1, <3>1 DEF Noticed
    <3>2. CASE Term(t) <= Age(t) /\ Age(t) < Term(t) + unseen
      <4>1. Term(t) \in 1 .. HalfRange - 1 /\ Age(t) \in 0 .. ClockRange - 1
        BY AgeTypes
      <4>2. Age(t)' = Age(t) + 1 /\ unseen' = unseen + 1
        BY <1>1, <1>2, <1>9, <2>1, <3>2, <4>1, HalfOfRange
      <4> QED
        BY <1>2, <2>1, <3>2, <4>1, <4>2 DEF Noticed
    <3> QED
      BY <2>4, <3>1, <3>2 DEF Noticed
  <2>5. CASE ~AllAlive
    <3>1. PICK t \in Required(monitor) : life[t].stalled /\ Noticed(t)
      BY <1>9, <2>5 DEF HealthInv, Attentive
    <3>2. life'[t].stalled /\ Noticed(t)' /\ t \in Required(monitor)'
      BY <1>7, <2>2, <2>4, <3>1
    <3>3. ~AllAlive'
      BY <3>2 DEF AllAlive
    <3> QED
      BY <1>5, <1>6, <3>2, <3>3 DEF HealthInv, Attentive, Milestone
  <2>6. CASE AllAlive
    <3>1. monitor.fault = {} /\ \A t \in Required(monitor) : ~life[t].stalled /\ Known(t)
      BY <1>9, <2>6 DEF HealthInv, Attentive, AllAlive
    <3>2. CASE ~AllAlive'
      <4>1. PICK t \in Required(monitor) : life'[t].stalled
        BY <1>7, <3>2 DEF AllAlive
      <4>2. Noticed(t)' /\ t \in Required(monitor)'
        BY <1>7, <2>3, <3>1, <4>1
      <4> QED
        BY <1>5, <1>6, <3>2, <4>1, <4>2 DEF HealthInv, Attentive, Milestone
    <3>3. CASE AllAlive'
      <4>1. \A t \in Required(monitor) : Known(t)' /\ life'[t].signs = life[t].signs
        BY <1>7, <2>3, <3>1, <3>3 DEF AllAlive
      <4>2. Attentive'
        BY <1>1, <1>7, <3>1, <3>3, <4>1 DEF Attentive
      <4>3. ASSUME monitor.stable
            PROVE  /\ \A t \in Required(monitor) : life'[t].signs = 2
                   /\ calm' = HalfRange \/ Since(monitor.since)' <= calm'
        <5>1. /\ \A t \in Required(monitor) : life[t].signs = 2
              /\ calm = HalfRange \/ Since(monitor.since) <= calm
          BY <1>9, <2>6, <4>3 DEF HealthInv, Milestone
        <5>2. monitor.since \in 0 .. ClockRange - 1
          BY <1>2 DEF Monitor
        <5>3. /\ Since(monitor.since) \in 0 .. ClockRange - 1
              /\ Since(monitor.since)' = IF Since(monitor.since) = ClockRange - 1 THEN 0
                                         ELSE Since(monitor.since) + 1
          BY <1>1, <1>2, <5>2, SinceGrows DEF Since
        <5>4. calm' = IF calm < HalfRange THEN calm + 1 ELSE calm
          BY <1>1, <1>9, <5>1
        <5> QED
          BY <1>2, <4>1, <5>1, <5>3, <5>4, HalfOfRange
      <4>4. Milestone'
        BY <1>1, <1>7, <4>3 DEF Milestone
      <4> QED
        BY <1>5, <1>6, <4>2, <4>4 DEF HealthInv
    <3> QED
      BY <3>2, <3>3
  <2> QED
    BY <2>5, <2>6
<1> QED
  BY <1>8, <1>9
LEMMA FreshTypes ==
    /\ FreshMonitor \in Monitor /\ Required(FreshMonitor) = {} /\ FreshMonitor.fault = {}
    /\ ~FreshMonitor.armed /\ ~FreshMonitor.stable
    /\ \A t \in Tasks : FreshMonitor.tasks[t].lease = NoLease
    /\ Unregistered \in HealthTask /\ Unborn \in Life
<1>1. 0 \in 0 .. ClockRange - 1 /\ 0 \in 0 .. MaxLease
  BY HalfOfRange
<1>2. Unregistered \in HealthTask /\ ~Unregistered.registered /\ Unregistered.lease = NoLease
  BY <1>1 DEF Unregistered, HealthTask, NoLease
<1>3. Unborn \in Life
  BY <1>1 DEF Unborn, Life, NoLease
<1>4. FreshMonitor \in Monitor
  BY <1>1, <1>2 DEF FreshMonitor, Monitor
<1>5. FreshMonitor.tasks = [t \in Tasks |-> Unregistered] /\ FreshMonitor.fault = {}
      /\ ~FreshMonitor.armed /\ ~FreshMonitor.stable
  BY DEF FreshMonitor
<1> QED
  BY <1>2, <1>3, <1>4, <1>5 DEF Required

THEOREM HealthInvInit == HealthInit => HealthInv
<1> SUFFICES ASSUME HealthInit PROVE HealthInv
  OBVIOUS
<1>1. monitor = FreshMonitor /\ clock \in 0 .. ClockRange - 1 /\ unseen = 0 /\ calm = 0
      /\ life = [t \in Tasks |-> Unborn]
  BY HalfOfRange DEF HealthInit
<1>2. HealthTypes
  BY <1>1, FreshTypes, HalfOfRange DEF HealthTypes
<1> QED
  BY <1>1, <1>2, FreshTypes DEF HealthInv, Registration, Attentive, Milestone

LEMMA RestartKept == HealthInv /\ HealthRestart => HealthInv'
<1> SUFFICES ASSUME HealthInv, HealthRestart PROVE HealthInv'
  OBVIOUS
<1>1. monitor' = FreshMonitor /\ clock' = clock /\ unseen' = 0 /\ calm' = 0
      /\ life' = [t \in Tasks |-> Unborn]
  BY DEF HealthRestart
<1>2. HealthTypes'
  BY <1>1, FreshTypes, HalfOfRange DEF HealthTypes, HealthInv
<1>3. Required(monitor)' = {}
  BY <1>1, FreshTypes DEF Required
<1> QED
  BY <1>1, <1>2, <1>3, FreshTypes DEF HealthInv, Registration, Attentive, Milestone

LEMMA RegisterKept == HealthInv /\ (\E t \in Tasks : Register(t)) => HealthInv'
<1> SUFFICES ASSUME HealthInv, NEW t \in Tasks, Register(t) PROVE HealthInv'
  OBVIOUS
<1> DEFINE task == [Unregistered EXCEPT !.registered = TRUE, !.last = clock]
<1>1. /\ ~monitor.armed /\ Deadline[t] < HalfRange
      /\ monitor' = [monitor EXCEPT !.tasks[t] = task]
      /\ clock' = clock /\ unseen' = unseen /\ life' = life /\ calm' = calm
  BY DEF Register
<1>2. monitor \in Monitor /\ monitor.tasks \in [Tasks -> HealthTask] /\ clock \in 0 .. ClockRange - 1
  BY DEF HealthInv, HealthTypes, Monitor
<1>3. task \in HealthTask /\ task.lease = NoLease
  BY <1>2, FreshTypes DEF HealthTask, Unregistered
<1> HIDE DEF task
<1>4. monitor' = [monitor EXCEPT !.tasks = [monitor.tasks EXCEPT ![t] = task]]
  BY <1>1, <1>2 DEF Monitor
<1>5. /\ monitor' \in Monitor /\ monitor'.armed = monitor.armed /\ monitor'.fault = monitor.fault
      /\ monitor'.stable = monitor.stable
      /\ monitor'.tasks = [monitor.tasks EXCEPT ![t] = task]
  BY <1>2, <1>3, <1>4 DEF Monitor
<1>6. monitor.fault = {} /\ ~monitor.stable /\ unseen = 0
      /\ \A r \in Tasks : monitor.tasks[r].lease = NoLease
  BY <1>1 DEF HealthInv, Registration
<1>7. HealthTypes'
  BY <1>1, <1>5 DEF HealthInv, HealthTypes
<1>8. \A r \in Tasks : monitor'.tasks[r].lease = NoLease
  BY <1>2, <1>3, <1>5, <1>6
<1>9. \A r \in Required(monitor)' : Deadline[r] < HalfRange
  BY <1>1, <1>2, <1>5 DEF Required, HealthInv, Registration
<1> QED
  BY <1>1, <1>5, <1>6, <1>7, <1>8, <1>9 DEF HealthInv, Registration, Attentive, Milestone

LEMMA FirstIs ==
    ASSUME NEW task \in HealthTask, clock \in 0 .. ClockRange - 1
    PROVE  /\ FirstInterval(task) \in HealthTask
           /\ FirstInterval(task).registered = task.registered
           /\ FirstInterval(task).lease = task.lease
           /\ FirstInterval(task).last = clock /\ FirstInterval(task).observations = 0
<1>1. 0 \in 0 .. 2
  OBVIOUS
<1>2. /\ FirstInterval(task) \in HealthTask
      /\ FirstInterval(task).lease = task.lease
      /\ FirstInterval(task).last = clock /\ FirstInterval(task).observations = 0
  BY <1>1 DEF FirstInterval, HealthTask
<1>3. FirstInterval(task).registered = task.registered
  BY DEF FirstInterval, HealthTask
<1> QED
  BY <1>2, <1>3

LEMMA ArmKept == HealthInv /\ Arm => HealthInv'
<1> SUFFICES ASSUME HealthInv, Arm PROVE HealthInv'
  OBVIOUS
<1> DEFINE tasks == [t \in Tasks |-> IF t \in Required(monitor) THEN FirstInterval(monitor.tasks[t])
                                     ELSE monitor.tasks[t]]
<1>1. /\ ~monitor.armed /\ monitor.fault = {}
      /\ monitor' = [monitor EXCEPT !.armed = TRUE, !.stable = FALSE, !.tasks = tasks]
      /\ clock' = clock /\ unseen' = 0 /\ calm' = 0 /\ life' = [t \in Tasks |-> Unborn]
  BY DEF Arm
<1>2. monitor \in Monitor /\ monitor.tasks \in [Tasks -> HealthTask] /\ clock \in 0 .. ClockRange - 1
  BY DEF HealthInv, HealthTypes, Monitor
<1>3. \A t \in Tasks : monitor.tasks[t].lease = NoLease
  BY <1>1 DEF HealthInv, Registration
<1>4. ASSUME NEW t \in Tasks
      PROVE  /\ FirstInterval(monitor.tasks[t]) \in HealthTask
             /\ FirstInterval(monitor.tasks[t]).registered = monitor.tasks[t].registered
             /\ FirstInterval(monitor.tasks[t]).lease = NoLease
             /\ FirstInterval(monitor.tasks[t]).last = clock
             /\ FirstInterval(monitor.tasks[t]).observations = 0
  <2>1. monitor.tasks[t] \in HealthTask /\ monitor.tasks[t].lease = NoLease
    BY <1>2, <1>3
  <2> QED
    BY <1>2, <2>1, FirstIs
<1>5. tasks \in [Tasks -> HealthTask]
  BY <1>2, <1>4
<1>6. \A t \in Tasks : tasks[t].registered = monitor.tasks[t].registered
  BY <1>4
<1>7. \A t \in Required(monitor) : tasks[t] = FirstInterval(monitor.tasks[t])
  BY DEF Required
<1> HIDE DEF tasks
<1>8. /\ monitor' \in Monitor /\ monitor'.armed /\ monitor'.fault = {} /\ ~monitor'.stable
      /\ monitor'.tasks = tasks
  BY <1>1, <1>2, <1>5 DEF Monitor
<1>9. Required(monitor)' = Required(monitor)
  BY <1>6, <1>8 DEF Required
<1>10. HealthTypes'
  BY <1>1, <1>8, FreshTypes, HalfOfRange DEF HealthInv, HealthTypes
<1>11. Registration'
  BY <1>8, <1>9 DEF HealthInv, Registration
<1>12. ASSUME NEW t \in Required(monitor) PROVE ~life'[t].stalled /\ Known(t)'
  <2>1. t \in Tasks
    BY DEF Required
  <2>2. /\ monitor'.tasks[t].lease = NoLease /\ monitor'.tasks[t].last = clock'
        /\ monitor'.tasks[t].observations = 0
    BY <1>1, <1>4, <1>7, <1>8, <2>1
  <2>3. life'[t].silent = 0 /\ life'[t].signs = 0 /\ life'[t].lease = NoLease /\ ~life'[t].stalled
    BY <1>1, <2>1 DEF Unborn
  <2>4. Age(t)' = 0
    BY <1>1, <1>2, <2>2, JustNow DEF Age, Since
  <2>5. 0 < Limit(t)'
    BY <2>1, <2>3, HealthAssumption DEF Limit
  <2> QED
    BY <2>2, <2>3, <2>4, <2>5 DEF Known
<1>13. AllAlive'
  BY <1>9, <1>12 DEF AllAlive
<1>14. Attentive'
  BY <1>8, <1>9, <1>12, <1>13 DEF Attentive
<1> QED
  BY <1>8, <1>10, <1>11, <1>14 DEF HealthInv, Milestone

-----------------------------------------------------------------------------
THEOREM HealthStep == HealthInv /\ [HealthNext]_healthVars => HealthInv'
<1>1. HealthInv /\ UNCHANGED healthVars => HealthInv'
  BY DEF healthVars, HealthInv, HealthTypes, Registration, Attentive, AllAlive, Known, Noticed,
         Age, Term, Limit, Since, Milestone, Required
<1> QED
  BY <1>1, RestartKept, RegisterKept, ArmKept, CheckKept, ProgressKept, BeginLeaseKept,
     EndLeaseKept, MillisecondKept DEF HealthNext

LEMMA InvKnowsHealth == HealthInv => HealthKnown
<1> SUFFICES ASSUME HealthInv PROVE HealthKnown
  OBVIOUS
<1>1. HealthTypeOK
  BY HalfOfRange DEF HealthInv, HealthTypes, Monitor, Registration, HealthTypeOK
<1>2. FaultsAreStalls
  BY CheckFindsStalls DEF FaultsAreStalls
<1>3. ASSUME NEW duration \in 0 .. HalfRange, StableFor(Inspected(monitor), duration)
      PROVE  /\ calm >= duration
             /\ \A t \in Required(monitor) :
                  ~life[t].stalled /\ life[t].signs = 2 /\ life[t].lease = NoLease
  <2> DEFINE m == Inspected(monitor)
  <2>1. /\ monitor.armed /\ Healthy(monitor) /\ m.stable /\ duration < HalfRange
        /\ Since(m.since) >= duration /\ \A t \in Required(m) : m.tasks[t].lease = NoLease
    BY <1>3 DEF StableFor, Healthy
  <2>2. AllAlive
    BY <2>1, InspectedIs
  <2>3. \A t \in Required(monitor) : ~life[t].stalled /\ Known(t)
    BY <2>1, <2>2 DEF HealthInv, Attentive, AllAlive
  <2>4. \A t \in Required(monitor) : life[t].lease = NoLease
    BY <2>1, <2>3, InspectedIs DEF Known
  <2>5. \/ Observed(monitor) /\ m.since = clock
        \/ monitor.stable /\ m.since = monitor.since
    BY <2>1, <2>2, InspectedIs
  <2>6. \A t \in Required(monitor) : life[t].signs = 2
    BY <2>1, <2>2, <2>3, <2>5 DEF Observed, Known, HealthInv, Milestone
  <2>7. clock \in 0 .. ClockRange - 1 /\ calm \in 0 .. HalfRange /\ monitor.since \in 0 .. ClockRange - 1
    BY DEF HealthInv, HealthTypes, Monitor
  <2>8. calm >= duration
    <3>1. CASE m.since = clock
      BY <2>1, <2>7, <3>1, JustNow, HalfOfRange DEF Since
    <3>2. CASE monitor.stable /\ m.since = monitor.since
      <4>1. calm = HalfRange \/ Since(monitor.since) <= calm
        BY <2>1, <2>2, <3>2 DEF HealthInv, Milestone
      <4>2. Since(monitor.since) \in 0 .. ClockRange - 1
        BY <2>7, SinceGrows DEF Since
      <4> QED
        BY <2>1, <2>7, <3>2, <4>1, <4>2, HalfOfRange
    <3> QED
      BY <2>5, <3>1, <3>2
  <2> QED
    BY <2>3, <2>4, <2>6, <2>8
<1> QED
  BY <1>1, <1>2, <1>3 DEF StableIsStable, HealthKnown

(* However the clock wraps around and whatever deadlines and leases are     *)
(* chosen, a stalled task is named by a fault, a fault means that a task    *)
(* stalled, and a milestone means that all lived that long.                 *)
THEOREM HealthIsKnown == HealthSpec => []HealthKnown
<1> QED
  BY HealthInvInit, HealthStep, InvKnowsHealth, PTL DEF HealthSpec

-----------------------------------------------------------------------------
(* The push button                                                          *)
(*                                                                          *)
(* The observer of module Button has seen edges that the button still holds *)
(* in its queue.  The invariant places an observer behind each of them: the *)
(* first is in the state of the button, each of the others comes from the   *)
(* one before it, and the last is the observer of today.  A call that stops *)
(* at an event tells it to every observer in the row.                       *)
Gestures == {"SHORT", "LONG", "EXTRA_LONG"}
EdgeRecord == [tick : 0 .. Ticks - 1, active : BOOLEAN]

ButtonRecord ==
    [phase : {"idle", "debounce", "held"}, stable : BOOLEAN, level : BOOLEAN,
     debounceTick : 0 .. Ticks - 1, pressTick : 0 .. Ticks - 1, extra : BOOLEAN,
     suppress : BOOLEAN, edges : Seq(EdgeRecord), overflow : BOOLEAN]

(* The observer at some moment.                                             *)
View ==
    [pressed : BOOLEAN, skip : BOOLEAN, early : BOOLEAN, pressAt : Nat, since : Nat,
     owed : Seq(Gestures)]

ButtonTypes ==
    /\ time \in 0 .. EndOfTime /\ pin \in BOOLEAN /\ lost \in Nat
    /\ button \in ButtonRecord /\ Len(button.edges) <= EdgeCapacity
    /\ ideal \in View
    /\ verdict \in {"right", "wrong"}

(* What the observer makes of level p that has lasted since its last edge.  *)
SettledAt(h, p, t) ==
    IF t - h.since < DebounceTime \/ p = h.pressed THEN h
    ELSE IF p THEN [h EXCEPT !.pressed = TRUE, !.skip = FALSE, !.early = FALSE,
                             !.pressAt = h.since]
    ELSE [h EXCEPT !.pressed = FALSE, !.early = FALSE,
                   !.owed = IF h.skip \/ h.early THEN @
                            ELSE Append(@, Class(h.since - h.pressAt))]

After(h, p, t) == [SettledAt(h, p, t) EXCEPT !.since = t]

(* The observer has been told of an event.                                  *)
Told(h) ==
    IF h.owed # <<>> THEN [h EXCEPT !.owed = Tail(@)] ELSE [h EXCEPT !.early = TRUE]

(* e, found at tick r, is the event that is told next.                      *)
Answers(h, p, e, r) ==
    IF h.owed # <<>> THEN Head(h.owed) = e
    ELSE /\ e = "EXTRA_LONG" /\ h.pressed /\ ~h.skip /\ ~h.early
         /\ r - h.pressAt >= ExtraLongTime
         /\ p \/ h.since >= r

(* The level the button last took into account.                             *)
Level(b) == IF b.phase = "debounce" THEN b.level ELSE b.stable

(* The button, without the edges it has not replayed yet, is in the state   *)
(* of the observer, and has told all there was to tell.                     *)
Agrees(b, h) ==
    /\ h.owed = <<>>
    /\ IF b.phase = "debounce"
       THEN b.debounceTick = TickAt(h.since) /\ b.stable = h.pressed
       ELSE b.stable = h.pressed /\ (b.stable <=> b.phase = "held")
    /\ h.pressed => /\ b.suppress = h.skip /\ b.extra = h.early
                    /\ ~b.suppress => b.pressTick = TickAt(h.pressAt)

-----------------------------------------------------------------------------
(* The clock                                                                *)

LEMMA ButtonConstants ==
    /\ Ticks \in Nat /\ EndOfTime \in Nat /\ EndOfTime < Ticks /\ FirstTick \in 0 .. Ticks - 1
    /\ DebounceTime \in Nat /\ LongTime \in Nat /\ ExtraLongTime \in Nat
    /\ EdgeCapacity \in Nat /\ EdgeCapacity > 0
BY ButtonAssumption

LEMMA TickIs ==
    ASSUME NEW t \in 0 .. EndOfTime
    PROVE  /\ TickAt(t) \in 0 .. Ticks - 1
           /\ TickAt(t) = IF FirstTick + t < Ticks THEN FirstTick + t ELSE FirstTick + t - Ticks
<1> DEFINE s == FirstTick + t
<1>1. /\ Ticks \in Nat /\ s \in Nat /\ s < Ticks + Ticks
      /\ FirstTick \in 0 .. Ticks - 1
  BY ButtonConstants
<1>2. TickAt(t) = s % Ticks
  BY DEF TickAt
<1> HIDE DEF s
<1>3. CASE s < Ticks
  <2>1. s % Ticks = s
    BY <1>1, <1>3, Z3
  <2> QED
    BY <1>1, <1>2, <1>3, <2>1 DEF s
<1>4. CASE s >= Ticks
  <2>1. s % Ticks = s - Ticks
    BY <1>1, <1>4, Z3
  <2> QED
    BY <1>1, <1>2, <1>4, <2>1 DEF s
<1> QED
  BY <1>1, <1>3, <1>4

(* Between two ticks lies what passed between them in truth.                *)
LEMMA ElapsedIs ==
    ASSUME NEW r \in 0 .. EndOfTime, NEW t \in 0 .. EndOfTime, r <= t
    PROVE  Elapsed(TickAt(r), TickAt(t)) = t - r
<1> DEFINE u == TickAt(r)
           v == TickAt(t)
<1>1. /\ u \in 0 .. Ticks - 1
      /\ u = IF FirstTick + r < Ticks THEN FirstTick + r ELSE FirstTick + r - Ticks
      /\ v \in 0 .. Ticks - 1
      /\ v = IF FirstTick + t < Ticks THEN FirstTick + t ELSE FirstTick + t - Ticks
  BY TickIs
<1>2. Elapsed(u, v) = (v - u) % Ticks
  BY DEF Elapsed
<1> HIDE DEF u, v
<1>3. Ticks \in Nat /\ FirstTick \in 0 .. Ticks - 1 /\ EndOfTime \in Nat /\ EndOfTime < Ticks
  BY ButtonConstants
<1>4. CASE v >= u
  <2>1. (v - u) % Ticks = v - u
    BY <1>1, <1>3, <1>4, Z3
  <2>2. v - u = t - r
    BY <1>1, <1>3, <1>4
  <2> QED
    BY <1>2, <2>1, <2>2 DEF u, v
<1>5. CASE v < u
  <2>1. (v - u) % Ticks = v - u + Ticks
    BY <1>1, <1>3, <1>5, Z3
  <2>2. v - u + Ticks = t - r
    BY <1>1, <1>3, <1>5
  <2> QED
    BY <1>2, <2>1, <2>2 DEF u, v
<1> QED
  BY <1>1, <1>3, <1>4, <1>5

-----------------------------------------------------------------------------
(* The observer                                                             *)

(* What settling makes of each field.                                       *)
SettledFields(h, p, t, s) ==
    /\ s \in View /\ s.since = h.since /\ s.pressAt <= s.since
    /\ t - h.since < DebounceTime \/ s.pressed = p
    /\ t - h.since < DebounceTime \/ p = h.pressed => s = h
    /\ ~(t - h.since < DebounceTime \/ p = h.pressed) =>
         /\ s.pressed = p /\ s.early = FALSE
         /\ p => s.skip = FALSE /\ s.pressAt = h.since /\ s.owed = h.owed
         /\ ~p => /\ s.skip = h.skip /\ s.pressAt = h.pressAt
                  /\ s.owed = IF h.skip \/ h.early THEN h.owed
                              ELSE Append(h.owed, Class(h.since - h.pressAt))

LEMMA ClassIsGesture ==
    ASSUME NEW d
    PROVE  Class(d) \in Gestures
BY DEF Class, Gestures

LEMMA SettledIs ==
    ASSUME NEW h \in View, NEW p \in BOOLEAN, NEW t \in Nat, h.pressAt <= h.since
    PROVE  SettledFields(h, p, t, SettledAt(h, p, t))
<1> DEFINE s == SettledAt(h, p, t)
           last == Append(h.owed, Class(h.since - h.pressAt))
<1> SUFFICES SettledFields(h, p, t, s)
  OBVIOUS
<1>1. /\ h.pressed \in BOOLEAN /\ h.skip \in BOOLEAN /\ h.early \in BOOLEAN
      /\ h.pressAt \in Nat /\ h.since \in Nat /\ h.owed \in Seq(Gestures)
  BY DEF View
<1>2. last \in Seq(Gestures)
  BY <1>1, ClassIsGesture
<1>3. CASE t - h.since < DebounceTime \/ p = h.pressed
  <2>1. s = h
    BY <1>3 DEF SettledAt
  <2> QED
    BY <1>1, <1>3, <2>1 DEF SettledFields
<1>4. CASE ~(t - h.since < DebounceTime \/ p = h.pressed) /\ p
  <2>1. s = [h EXCEPT !.pressed = TRUE, !.skip = FALSE, !.early = FALSE, !.pressAt = h.since]
    BY <1>4 DEF SettledAt
  <2>2. /\ s \in View /\ s.since = h.since /\ s.pressAt = h.since /\ s.skip = FALSE
        /\ s.pressed = TRUE /\ s.early = FALSE /\ s.owed = h.owed
    BY <1>1, <2>1 DEF View
  <2>3. p = TRUE
    BY <1>4
  <2> HIDE DEF s
  <2>4. s.pressed = p
    BY <2>2, <2>3, Zenon
  <2>5. s.pressAt <= s.since
    BY <1>1, <2>2
  <2> QED
    BY <1>4, <2>2, <2>4, <2>5, Zenon DEF SettledFields
<1>5. CASE ~(t - h.since < DebounceTime \/ p = h.pressed) /\ ~p
  <2> DEFINE q == IF h.skip \/ h.early THEN h.owed ELSE last
  <2>1. s = [h EXCEPT !.pressed = FALSE, !.early = FALSE, !.owed = q]
    BY <1>5 DEF SettledAt
  <2>2. q \in Seq(Gestures)
    BY <1>1, <1>2
  <2>3. q = IF h.skip \/ h.early THEN h.owed ELSE Append(h.owed, Class(h.since - h.pressAt))
    OBVIOUS
  <2> HIDE DEF q
  <2>4. /\ s \in View /\ s.since = h.since /\ s.pressAt = h.pressAt /\ s.skip = h.skip
        /\ s.pressed = FALSE /\ s.early = FALSE /\ s.owed = q
    BY <1>1, <2>1, <2>2 DEF View
  <2>5. p = FALSE
    BY <1>5
  <2> HIDE DEF s
  <2> QED
    BY <1>1, <1>5, <2>3, <2>4, <2>5 DEF SettledFields
<1> QED
  BY <1>3, <1>4, <1>5

(* Settling a second time shows what settling once at the later time shows. *)
LEMMA SettleTwice ==
    ASSUME NEW h \in View, NEW p \in BOOLEAN, NEW t \in Nat, NEW u \in Nat, t <= u,
           h.pressAt <= h.since
    PROVE  SettledAt(SettledAt(h, p, t), p, u) = SettledAt(h, p, u)
<1> DEFINE s == SettledAt(h, p, t)
<1>1. SettledFields(h, p, t, s)
  BY SettledIs
<1>2. h.since \in Nat /\ DebounceTime \in Nat
  BY ButtonConstants DEF View
<1> HIDE DEF s
<1>3. CASE t - h.since < DebounceTime \/ p = h.pressed
  BY <1>1, <1>3 DEF s, SettledFields
<1>4. CASE ~(t - h.since < DebounceTime \/ p = h.pressed)
  <2>1. s.pressed = p
    BY <1>1, <1>4 DEF SettledFields
  <2>2. SettledAt(s, p, u) = s
    BY <2>1 DEF SettledAt
  <2>3. ~(u - h.since < DebounceTime \/ p = h.pressed)
    BY <1>2, <1>4
  <2>4. SettledAt(h, p, u) = SettledAt(h, p, t)
    BY <1>4, <2>3 DEF SettledAt
  <2> QED
    BY <2>2, <2>4 DEF s
<1> QED
  BY <1>3, <1>4

(* An observer that owes an event, or may be told early.                    *)
Owing(h) == h.owed # <<>> \/ (h.pressed /\ ~h.skip /\ ~h.early)

LEMMA ToldIs ==
    ASSUME NEW h \in View
    PROVE  /\ Told(h) \in View
           /\ Told(h).pressed = h.pressed /\ Told(h).skip = h.skip
           /\ Told(h).since = h.since /\ Told(h).pressAt = h.pressAt
           /\ h.owed # <<>> => Told(h).owed = Tail(h.owed) /\ Told(h).early = h.early
           /\ h.owed = <<>> => Told(h).owed = <<>> /\ Told(h).early = TRUE
<1>1. CASE h.owed # <<>>
  <2>1. Tail(h.owed) \in Seq(Gestures)
    BY <1>1 DEF View
  <2> DEFINE q == Tail(h.owed)
  <2>2. Told(h) = [h EXCEPT !.owed = q]
    BY <1>1 DEF Told
  <2>3. q \in Seq(Gestures)
    BY <2>1
  <2> HIDE DEF q
  <2>4. /\ Told(h) \in View
        /\ Told(h).pressed = h.pressed /\ Told(h).skip = h.skip
        /\ Told(h).since = h.since /\ Told(h).pressAt = h.pressAt
        /\ Told(h).owed = q /\ Told(h).early = h.early
    BY <2>2, <2>3 DEF View
  <2> QED
    BY <1>1, <2>4 DEF q
<1>2. CASE h.owed = <<>>
  BY <1>2 DEF Told, View
<1> QED
  BY <1>1, <1>2

LEMMA ViewEqual ==
    ASSUME NEW a \in View, NEW b \in View,
           a.pressed = b.pressed, a.skip = b.skip, a.early = b.early,
           a.pressAt = b.pressAt, a.since = b.since, a.owed = b.owed
    PROVE  a = b
BY DEF View

(* Whether an event that is owed is told before or after the observer has   *)
(* settled makes no difference.                                             *)
LEMMA ToldLater ==
    ASSUME NEW h \in View, NEW p \in BOOLEAN, NEW t \in Nat, h.pressAt <= h.since, Owing(h)
    PROVE  /\ SettledAt(Told(h), p, t) = Told(SettledAt(h, p, t))
           /\ Owing(SettledAt(h, p, t))
<1> DEFINE s == SettledAt(h, p, t)
           k == Told(h)
           u == SettledAt(k, p, t)
           m == Told(s)
           c == Class(h.since - h.pressAt)
<1>1. /\ k \in View /\ k.pressed = h.pressed /\ k.skip = h.skip
      /\ k.since = h.since /\ k.pressAt = h.pressAt
      /\ h.owed # <<>> => k.owed = Tail(h.owed) /\ k.early = h.early
      /\ h.owed = <<>> => k.owed = <<>> /\ k.early = TRUE
  BY ToldIs
<1>2. SettledFields(h, p, t, s)
  BY SettledIs
<1>3. SettledFields(k, p, t, u)
  <2>1. k \in View /\ k.pressAt <= k.since
    BY <1>1
  <2> HIDE DEF k
  <2> QED
    BY <2>1, SettledIs
<1>4. s \in View /\ u \in View /\ s.since = h.since /\ u.since = k.since
  BY <1>2, <1>3 DEF SettledFields
<1>5. /\ m \in View /\ m.pressed = s.pressed /\ m.skip = s.skip
      /\ m.since = s.since /\ m.pressAt = s.pressAt
      /\ s.owed # <<>> => m.owed = Tail(s.owed) /\ m.early = s.early
      /\ s.owed = <<>> => m.owed = <<>> /\ m.early = TRUE
  <2>1. s \in View
    BY <1>4
  <2> HIDE DEF s
  <2> QED
    BY <2>1, ToldIs
<1>6. /\ h.owed \in Seq(Gestures) /\ c \in Gestures
      /\ h.pressed \in BOOLEAN /\ h.skip \in BOOLEAN /\ h.early \in BOOLEAN
  BY ClassIsGesture DEF View
<1>7. k.since - k.pressAt = h.since - h.pressAt
  BY <1>1
<1> HIDE DEF s, k, u, m
<1>8. CASE t - h.since < DebounceTime \/ p = h.pressed
  <2>1. s = h
    BY <1>2, <1>8 DEF SettledFields
  <2>2. t - k.since < DebounceTime \/ p = k.pressed
    BY <1>1, <1>8
  <2>3. u = k
    BY <1>3, <2>2 DEF SettledFields
  <2> QED
    BY <2>1, <2>3 DEF s, k, u
<1>9. CASE ~(t - h.since < DebounceTime \/ p = h.pressed)
  <2>1. ~(t - k.since < DebounceTime \/ p = k.pressed)
    BY <1>1, <1>9
  <2>2. /\ s.pressed = p /\ s.early = FALSE
        /\ p => s.skip = FALSE /\ s.pressAt = h.since /\ s.owed = h.owed
        /\ ~p => /\ s.skip = h.skip /\ s.pressAt = h.pressAt
                 /\ s.owed = IF h.skip \/ h.early THEN h.owed ELSE Append(h.owed, c)
    BY <1>2, <1>9 DEF SettledFields
  <2>3. /\ u.pressed = p /\ u.early = FALSE
        /\ p => u.skip = FALSE /\ u.pressAt = k.since /\ u.owed = k.owed
        /\ ~p => /\ u.skip = k.skip /\ u.pressAt = k.pressAt
                 /\ u.owed = IF k.skip \/ k.early THEN k.owed ELSE Append(k.owed, c)
    BY <1>3, <1>7, <2>1 DEF SettledFields
  <2> HIDE DEF c
  <2>4. /\ Append(h.owed, c) # <<>>
        /\ Tail(Append(h.owed, c)) = IF h.owed = <<>> THEN <<>> ELSE Append(Tail(h.owed), c)
    BY <1>6, HeadTailAppend, AppendProperties
  <2>5. s.owed # <<>> /\ u.owed = Tail(s.owed)
    <3>1. CASE p
      <4>1. h.owed # <<>>
        BY <1>9, <1>6, <3>1 DEF Owing
      <4>2. s.owed = h.owed /\ u.owed = k.owed
        BY <2>2, <2>3, <3>1
      <4> QED
        BY <1>1, <4>1, <4>2
    <3>2. CASE ~p /\ h.owed # <<>>
      <4>1. k.skip = h.skip /\ k.early = h.early /\ k.owed = Tail(h.owed)
        BY <1>1, <3>2
      <4>2. s.owed = IF h.skip \/ h.early THEN h.owed ELSE Append(h.owed, c)
        BY <2>2, <3>2
      <4>3. u.owed = IF h.skip \/ h.early THEN Tail(h.owed) ELSE Append(Tail(h.owed), c)
        BY <2>3, <3>2, <4>1
      <4> QED
        BY <2>4, <3>2, <4>2, <4>3
    <3>3. CASE ~p /\ h.owed = <<>>
      <4>1. ~h.skip /\ ~h.early
        BY <3>3 DEF Owing
      <4>2. s.owed = Append(h.owed, c)
        BY <2>2, <3>3, <4>1
      <4>3. k.early /\ k.owed = <<>>
        BY <1>1, <3>3
      <4>4. u.owed = <<>>
        BY <2>3, <3>3, <4>3
      <4> QED
        BY <2>4, <3>3, <4>2, <4>4
    <3> QED
      BY <3>1, <3>2, <3>3
  <2>6. m.owed = Tail(s.owed) /\ m.early = s.early
    BY <1>5, <2>5
  <2>7. u = m
    <3>1. u.pressed = m.pressed /\ u.early = m.early /\ u.owed = m.owed
      BY <1>5, <2>2, <2>3, <2>5, <2>6, Zenon
    <3>2. u.since = m.since
      BY <1>1, <1>4, <1>5, Zenon
    <3>3. u.skip = m.skip /\ u.pressAt = m.pressAt
      <4>1. CASE p
        BY <1>1, <1>5, <2>2, <2>3, <4>1, Zenon
      <4>2. CASE ~p
        BY <1>1, <1>5, <2>2, <2>3, <4>2, Zenon
      <4> QED
        BY <4>1, <4>2
    <3> QED
      BY <1>4, <1>5, <3>1, <3>2, <3>3, ViewEqual
  <2>8. Owing(s)
    BY <2>5 DEF Owing
  <2> QED
    BY <2>7, <2>8 DEF s, k, u, m
<1> QED
  BY <1>8, <1>9

(* An event that is found remains the next one to be told.                  *)
LEMMA AnswersLater ==
    ASSUME NEW h \in View, NEW p \in BOOLEAN, NEW t \in Nat, NEW r \in Nat, r <= t,
           h.pressAt <= h.since, NEW e \in Gestures, Answers(h, p, e, r)
    PROVE  Answers(SettledAt(h, p, t), p, e, r)
<1> DEFINE s == SettledAt(h, p, t)
           c == Class(h.since - h.pressAt)
<1> SUFFICES Answers(s, p, e, r)
  OBVIOUS
<1>1. SettledFields(h, p, t, s)
  BY SettledIs
<1>2. /\ h.owed \in Seq(Gestures) /\ c \in Gestures
      /\ h.pressed \in BOOLEAN /\ h.since \in Nat /\ h.pressAt \in Nat
      /\ ExtraLongTime \in Nat /\ LongTime \in Nat
  BY ButtonConstants, ClassIsGesture DEF View
<1>3. /\ Append(h.owed, c) # <<>>
      /\ Head(Append(h.owed, c)) = IF h.owed = <<>> THEN c ELSE Head(h.owed)
  BY <1>2, HeadTailAppend, AppendProperties
<1> HIDE DEF s
<1>4. CASE t - h.since < DebounceTime \/ p = h.pressed
  BY <1>1, <1>4 DEF SettledFields
<1>5. CASE ~(t - h.since < DebounceTime \/ p = h.pressed) /\ h.owed # <<>>
  <2>1. \/ s.owed = h.owed
        \/ s.owed = Append(h.owed, c)
    BY <1>1, <1>5 DEF SettledFields
  <2>2. s.owed # <<>> /\ Head(s.owed) = Head(h.owed)
    BY <1>3, <1>5, <2>1
  <2> QED
    BY <1>5, <2>2 DEF Answers
<1>6. CASE ~(t - h.since < DebounceTime \/ p = h.pressed) /\ h.owed = <<>>
  <2>1. /\ e = "EXTRA_LONG" /\ h.pressed /\ ~h.skip /\ ~h.early
        /\ r - h.pressAt >= ExtraLongTime
        /\ p \/ h.since >= r
    BY <1>6 DEF Answers
  <2>2. ~p
    BY <1>2, <1>6, <2>1
  <2>3. h.since - h.pressAt >= ExtraLongTime
    BY <1>2, <2>1, <2>2
  <2>4. c = "EXTRA_LONG"
    BY <2>3 DEF Class
  <2>5. s.owed = Append(h.owed, c)
    BY <1>1, <1>6, <2>1, <2>2 DEF SettledFields
  <2> QED
    BY <1>3, <1>6, <2>1, <2>4, <2>5 DEF Answers
<1> QED
  BY <1>4, <1>5, <1>6

LEMMA AfterIs ==
    ASSUME NEW h \in View, NEW p \in BOOLEAN, NEW t \in Nat, h.pressAt <= h.since, h.since <= t
    PROVE  LET s == SettledAt(h, p, t)
               a == After(h, p, t) IN
           /\ a \in View /\ a.since = t /\ a.pressAt <= t
           /\ a.pressed = s.pressed /\ a.skip = s.skip /\ a.early = s.early
           /\ a.pressAt = s.pressAt /\ a.owed = s.owed
<1> DEFINE s == SettledAt(h, p, t)
           a == After(h, p, t)
<1>1. s \in View /\ s.since = h.since /\ s.pressAt <= s.since
  <2>1. SettledFields(h, p, t, s)
    BY SettledIs
  <2> HIDE DEF s
  <2> QED
    BY <2>1 DEF SettledFields
<1>2. a = [s EXCEPT !.since = t]
  BY DEF After
<1> HIDE DEF s, a
<1>3. /\ a \in View /\ a.since = t
      /\ a.pressed = s.pressed /\ a.skip = s.skip /\ a.early = s.early
      /\ a.pressAt = s.pressAt /\ a.owed = s.owed
  BY <1>1, <1>2 DEF View
<1>4. a.pressAt <= t
  <2>1. s.pressAt \in Nat /\ h.since \in Nat /\ s.pressAt <= h.since
    BY <1>1 DEF View
  <2> QED
    BY <1>3, <2>1
<1> QED
  BY <1>3, <1>4 DEF s, a

LEMMA AfterTold ==
    ASSUME NEW h \in View, NEW p \in BOOLEAN, NEW t \in Nat, h.pressAt <= h.since, h.since <= t,
           Owing(h)
    PROVE  After(Told(h), p, t) = Told(After(h, p, t)) /\ Owing(After(h, p, t))
<1> DEFINE s == SettledAt(h, p, t)
           a == After(h, p, t)
           k == Told(h)
           m == Told(s)
           b == After(k, p, t)
           n == Told(a)
<1>1. /\ a \in View /\ a.since = t
      /\ a.pressed = s.pressed /\ a.skip = s.skip /\ a.early = s.early
      /\ a.pressAt = s.pressAt /\ a.owed = s.owed
  BY AfterIs
<1>2. SettledAt(k, p, t) = m /\ Owing(s)
  BY ToldLater
<1>3. s \in View
  BY SettledIs DEF SettledFields
<1>4. k \in View /\ k.since = h.since /\ k.pressAt = h.pressAt
  BY ToldIs
<1>5. /\ b \in View /\ b.since = t
      /\ b.pressed = m.pressed /\ b.skip = m.skip /\ b.early = m.early
      /\ b.pressAt = m.pressAt /\ b.owed = m.owed
  <2>1. k \in View /\ k.pressAt <= k.since /\ k.since <= t
    BY <1>4
  <2>2. SettledAt(k, p, t) = m
    BY <1>2
  <2> HIDE DEF k, m
  <2> QED
    BY <2>1, <2>2, AfterIs
<1>6. /\ m.pressed = s.pressed /\ m.skip = s.skip /\ m.pressAt = s.pressAt
      /\ s.owed # <<>> => m.owed = Tail(s.owed) /\ m.early = s.early
      /\ s.owed = <<>> => m.owed = <<>> /\ m.early = TRUE
  <2>1. s \in View
    BY <1>3
  <2> HIDE DEF s
  <2> QED
    BY <2>1, ToldIs
<1>7. /\ n \in View /\ n.pressed = a.pressed /\ n.skip = a.skip
      /\ n.since = a.since /\ n.pressAt = a.pressAt
      /\ a.owed # <<>> => n.owed = Tail(a.owed) /\ n.early = a.early
      /\ a.owed = <<>> => n.owed = <<>> /\ n.early = TRUE
  <2>1. a \in View
    BY <1>1
  <2> HIDE DEF a
  <2> QED
    BY <2>1, ToldIs
<1> HIDE DEF s, a, k, m, b, n
<1>8. n.owed = b.owed /\ n.early = b.early
  <2>1. CASE s.owed = <<>>
    BY <1>1, <1>5, <1>6, <1>7, <2>1, Zenon
  <2>2. CASE s.owed # <<>>
    BY <1>1, <1>5, <1>6, <1>7, <2>2, Zenon
  <2> QED
    BY <2>1, <2>2
<1>9. n.pressed = b.pressed /\ n.skip = b.skip /\ n.pressAt = b.pressAt /\ n.since = b.since
  BY <1>1, <1>5, <1>6, <1>7, Zenon
<1>10. n = b
  BY <1>5, <1>7, <1>8, <1>9, ViewEqual
<1>11. Owing(a)
  BY <1>1, <1>2 DEF Owing
<1> QED
  BY <1>10, <1>11 DEF a, k, b, n

LEMMA AfterAnswers ==
    ASSUME NEW h \in View, NEW p \in BOOLEAN, NEW t \in Nat, NEW r \in Nat, r <= t,
           h.pressAt <= h.since, h.since <= t, NEW e \in Gestures, Answers(h, p, e, r),
           NEW q \in BOOLEAN
    PROVE  Answers(After(h, p, t), q, e, r)
<1> DEFINE s == SettledAt(h, p, t)
           a == After(h, p, t)
<1>1. /\ a.since = t
      /\ a.pressed = s.pressed /\ a.skip = s.skip /\ a.early = s.early
      /\ a.pressAt = s.pressAt /\ a.owed = s.owed
  BY AfterIs
<1>2. Answers(s, p, e, r)
  BY AnswersLater
<1> SUFFICES Answers(a, q, e, r)
  OBVIOUS
<1> HIDE DEF s, a
<1>3. a.since >= r
  BY <1>1
<1> QED
  BY <1>1, <1>2, <1>3, Zenon DEF Answers

LEMMA AnswersOwing ==
    ASSUME NEW h, NEW p, NEW e, NEW r, Answers(h, p, e, r)
    PROVE  Owing(h)
BY DEF Answers, Owing

-----------------------------------------------------------------------------
(* Advance                                                                  *)

(* The button b becomes a.b, which is in the state s of the observer, or has *)
(* found the event that the observer is told next.                          *)
Advances(b, s, p, t, a) ==
    /\ a.b \in ButtonRecord /\ a.b.edges = b.edges /\ a.b.overflow = b.overflow
    /\ a.event \in Gestures \cup {"NONE"}
    /\ Level(a.b) = p
    /\ a.event = "NONE" => Agrees(a.b, s)
    /\ a.event # "NONE" => Answers(s, p, a.event, t) /\ Agrees(a.b, Told(s))

LEMMA HeldOnAdvances ==
    ASSUME NEW b \in ButtonRecord, NEW h \in View, NEW t \in 0 .. EndOfTime, NEW sample \in BOOLEAN,
           h.pressAt <= t, Agrees(b, h), b.phase # "debounce", sample => pin = b.stable
    PROVE  Advances(b, h, b.stable, t, HeldOn(b, TickAt(t), sample))
<1> DEFINE waits == ~(b.phase = "held" /\ ~b.suppress /\ ~b.extra
                        /\ Due(b.pressTick, ExtraLongTime, TickAt(t)))
           a == HeldOn(b, TickAt(t), sample)
<1> SUFFICES Advances(b, h, b.stable, t, a)
  OBVIOUS
<1>1. /\ h.owed = <<>> /\ b.stable = h.pressed /\ (b.stable <=> b.phase = "held")
      /\ h.pressed => /\ b.suppress = h.skip /\ b.extra = h.early
                      /\ ~b.suppress => b.pressTick = TickAt(h.pressAt)
  BY DEF Agrees
<1>2. CASE waits
  <2>1. a = [b |-> b, event |-> "NONE"]
    BY <1>2 DEF HeldOn, Step
  <2>2. a.b = b /\ a.event = "NONE"
    BY <2>1
  <2> HIDE DEF a
  <2>3. Level(b) = b.stable
    BY DEF Level
  <2> QED
    BY <2>2, <2>3 DEF Advances
<1>3. CASE ~waits
  <2>1. b.stable /\ h.pressed /\ ~b.suppress /\ ~b.extra /\ ~h.skip /\ ~h.early
    BY <1>1, <1>3
  <2>2. ~(sample /\ ~pin)
    BY <2>1
  <2> DEFINE c == [b EXCEPT !.extra = TRUE]
  <2>3. a = [b |-> c, event |-> "EXTRA_LONG"]
    BY <1>3, <2>2 DEF HeldOn, Step
  <2>4. a.b = c /\ a.event = "EXTRA_LONG"
    BY <2>3
  <2>5. t - h.pressAt >= ExtraLongTime
    <3>1. h.pressAt \in 0 .. EndOfTime
      BY ButtonConstants DEF View
    <3>2. Elapsed(TickAt(h.pressAt), TickAt(t)) = t - h.pressAt
      BY <3>1, ElapsedIs
    <3>3. b.pressTick = TickAt(h.pressAt)
      BY <1>1, <2>1
    <3> QED
      BY <1>3, <3>2, <3>3 DEF Due
  <2>6. Answers(h, b.stable, "EXTRA_LONG", t)
    BY <1>1, <2>1, <2>5 DEF Answers
  <2>7. /\ c \in ButtonRecord /\ c.edges = b.edges /\ c.overflow = b.overflow
        /\ c.phase = b.phase /\ c.stable = b.stable /\ c.suppress = b.suppress
        /\ c.pressTick = b.pressTick /\ c.extra = TRUE
    BY DEF ButtonRecord
  <2> DEFINE k == Told(h)
  <2>8. /\ k.pressed = h.pressed /\ k.skip = h.skip /\ k.pressAt = h.pressAt
        /\ k.owed = <<>> /\ k.early = TRUE
    BY <1>1, ToldIs
  <2> HIDE DEF a, c, k
  <2>9. Agrees(c, k)
    <3>1. c.stable = k.pressed /\ (c.stable <=> c.phase = "held")
      BY <1>1, <2>7, <2>8, Zenon
    <3>2. c.suppress = k.skip /\ c.extra = k.early
      BY <1>1, <2>1, <2>7, <2>8, Zenon
    <3>3. c.pressTick = TickAt(k.pressAt)
      BY <1>1, <2>1, <2>7, <2>8
    <3>4. c.phase # "debounce"
      BY <2>7
    <3> QED
      BY <2>8, <3>1, <3>2, <3>3, <3>4, Zenon DEF Agrees
  <2>10. Level(c) = b.stable
    BY <2>7 DEF Level
  <2> QED
    BY <2>4, <2>6, <2>7, <2>9, <2>10 DEF Advances, Gestures, k
<1> QED
  BY <1>2, <1>3

LEMMA ConfirmedAdvances ==
    ASSUME NEW b \in ButtonRecord, NEW h \in View, NEW t \in 0 .. EndOfTime,
           h.pressAt <= h.since, h.since <= t, Agrees(b, h), b.phase = "debounce",
           t - h.since >= DebounceTime
    PROVE  LET c == Confirmed(b, TickAt(t))
               s == SettledAt(h, b.level, t) IN
           /\ Advances(b, s, b.level, t, c)
           /\ c.b.stable = b.level /\ c.b.phase # "debounce"
<1> DEFINE k == Confirmed(b, TickAt(t))
           s == SettledAt(h, b.level, t)
           c == [b EXCEPT !.phase = IF b.level THEN "held" ELSE "idle", !.stable = b.level]
<1>1. /\ h.owed = <<>> /\ b.debounceTick = TickAt(h.since) /\ b.stable = h.pressed
      /\ h.pressed => /\ b.suppress = h.skip /\ b.extra = h.early
                      /\ ~b.suppress => b.pressTick = TickAt(h.pressAt)
  BY DEF Agrees
<1>2. SettledFields(h, b.level, t, s)
  BY SettledIs DEF ButtonRecord
<1>3. /\ c \in ButtonRecord /\ c.edges = b.edges /\ c.overflow = b.overflow
      /\ c.stable = b.level /\ c.phase = IF b.level THEN "held" ELSE "idle"
      /\ c.suppress = b.suppress /\ c.extra = b.extra /\ c.pressTick = b.pressTick
      /\ c.debounceTick = b.debounceTick
  BY DEF ButtonRecord
<1>4. /\ b.level \in BOOLEAN /\ b.stable \in BOOLEAN /\ h.pressed \in BOOLEAN
      /\ h.since \in 0 .. EndOfTime /\ h.pressAt \in 0 .. EndOfTime /\ DebounceTime \in Nat
      /\ h.skip \in BOOLEAN /\ h.early \in BOOLEAN
  BY ButtonConstants DEF ButtonRecord, View
<1>5. ~(t - h.since < DebounceTime)
  BY <1>4
<1>6. c.phase # "debounce" /\ (c.stable <=> c.phase = "held") /\ Level(c) = b.level
  BY <1>3, <1>4 DEF Level
<1> SUFFICES Advances(b, s, b.level, t, k) /\ k.b.stable = b.level /\ k.b.phase # "debounce"
  OBVIOUS
<1>7. CASE b.level = b.stable
  <2>1. k = [b |-> c, event |-> "NONE"]
    BY <1>7 DEF Confirmed, Step
  <2>2. k.b = c /\ k.event = "NONE"
    BY <2>1
  <2>3. s = h
    <3>1. b.level = h.pressed
      BY <1>1, <1>7
    <3> QED
      BY <1>2, <3>1 DEF SettledFields
  <2>4. c.stable = h.pressed
    BY <1>1, <1>3, <1>7
  <2> HIDE DEF k, s, c
  <2>5. Agrees(c, h)
    BY <1>1, <1>3, <1>6, <2>4, Zenon DEF Agrees
  <2> QED
    BY <1>3, <1>6, <2>2, <2>3, <2>5, Zenon DEF Advances
<1>8. CASE b.level # b.stable /\ b.level
  <2> DEFINE d == [c EXCEPT !.pressTick = b.debounceTick, !.extra = FALSE, !.suppress = FALSE]
  <2>1. k = [b |-> d, event |-> "NONE"]
    BY <1>8 DEF Confirmed, Step
  <2>2. k.b = d /\ k.event = "NONE"
    BY <2>1
  <2>3. ~h.pressed /\ b.level = TRUE
    BY <1>1, <1>4, <1>8
  <2> HIDE DEF k, s, c
  <2>4. s.pressed = TRUE /\ s.skip = FALSE /\ s.early = FALSE /\ s.pressAt = h.since /\ s.owed = <<>>
    BY <1>1, <1>2, <1>5, <2>3 DEF SettledFields
  <2>5. /\ d \in ButtonRecord /\ d.edges = b.edges /\ d.overflow = b.overflow
        /\ d.stable = TRUE /\ d.phase = "held"
        /\ d.suppress = FALSE /\ d.extra = FALSE /\ d.pressTick = b.debounceTick
    BY <1>3, <1>8, <2>3 DEF ButtonRecord
  <2> HIDE DEF d
  <2>6. Agrees(d, s)
    BY <1>1, <2>4, <2>5 DEF Agrees
  <2>7. Level(d) = b.level
    BY <2>3, <2>5 DEF Level
  <2>8. d.stable = b.level /\ d.phase # "debounce"
    BY <2>3, <2>5
  <2> QED
    BY <2>2, <2>5, <2>6, <2>7, <2>8, Zenon DEF Advances
<1>9. CASE b.level # b.stable /\ ~b.level
  <2>1. h.pressed = TRUE /\ b.level = FALSE
    BY <1>1, <1>4, <1>8, <1>9
  <2>2. /\ s.pressed = FALSE /\ s.early = FALSE
        /\ s.owed = IF h.skip \/ h.early THEN h.owed
                    ELSE Append(h.owed, Class(h.since - h.pressAt))
    <3> HIDE DEF s
    <3> QED
      BY <1>2, <1>5, <2>1 DEF SettledFields
  <2>3. b.suppress = h.skip /\ b.extra = h.early
    BY <1>1, <2>1
  <2>4. CASE b.suppress \/ b.extra
    <3> DEFINE d == [c EXCEPT !.suppress = FALSE, !.extra = FALSE]
    <3>1. k = [b |-> d, event |-> "NONE"]
      BY <1>9, <2>4 DEF Confirmed, Step
    <3>2. k.b = d /\ k.event = "NONE"
      BY <3>1
    <3>3. s.owed = <<>>
      BY <1>1, <2>2, <2>3, <2>4
    <3> HIDE DEF k, s, c
    <3>4. /\ d \in ButtonRecord /\ d.edges = b.edges /\ d.overflow = b.overflow
          /\ d.stable = FALSE /\ d.phase = "idle"
      BY <1>3, <2>1 DEF ButtonRecord
    <3> HIDE DEF d
    <3>5. Agrees(d, s)
      BY <2>2, <3>3, <3>4 DEF Agrees
    <3>6. Level(d) = b.level
      BY <2>1, <3>4 DEF Level
    <3>7. d.stable = b.level /\ d.phase # "debounce"
      BY <2>1, <3>4
    <3> QED
      BY <3>2, <3>4, <3>5, <3>6, <3>7, Zenon DEF Advances
  <2>5. CASE ~(b.suppress \/ b.extra)
    <3> DEFINE e == Class(h.since - h.pressAt)
    <3>1. Held(b, TickAt(t)) = h.since - h.pressAt
      BY <1>1, <1>4, <2>1, <2>5, ElapsedIs DEF Held
    <3>2. k = [b |-> c, event |-> e]
      BY <1>9, <2>5, <3>1 DEF Confirmed, Step
    <3>3. k.b = c /\ k.event = e
      BY <3>2
    <3>4. e \in Gestures /\ e # "NONE"
      BY ClassIsGesture DEF Gestures
    <3>5. s.owed = Append(<<>>, e)
      BY <1>1, <2>2, <2>3, <2>5
    <3>6. s \in View
      <4> HIDE DEF s
      <4> QED
        BY <1>2 DEF SettledFields
    <3> HIDE DEF k, s, c, e
    <3>7. s.owed # <<>> /\ Head(s.owed) = e /\ Tail(s.owed) = <<>>
      BY <3>4, <3>5, HeadTailAppend, AppendProperties, EmptySeq
    <3>8. Answers(s, b.level, e, t)
      BY <3>7 DEF Answers
    <3>9. Told(s).pressed = FALSE /\ Told(s).owed = <<>>
      BY <2>2, <3>6, <3>7, ToldIs
    <3>10. c.stable = FALSE
      BY <1>3, <2>1
    <3> DEFINE m == Told(s)
    <3>11. m.pressed = FALSE /\ m.owed = <<>>
      BY <3>9
    <3> HIDE DEF m
    <3>12. Agrees(c, m)
      BY <1>6, <3>10, <3>11 DEF Agrees
    <3> QED
      BY <1>3, <1>6, <3>3, <3>4, <3>8, <3>12 DEF Advances, m
  <2> QED
    BY <2>4, <2>5
<1> QED
  BY <1>7, <1>8, <1>9

(* Advance brings the button to where the observer is at time t, or finds   *)
(* the event that the observer is told next.                                *)
LEMMA AdvanceFollows ==
    ASSUME NEW b \in ButtonRecord, NEW h \in View, NEW t \in 0 .. EndOfTime, NEW sample \in BOOLEAN,
           h.pressAt <= h.since, h.since <= t, Agrees(b, h), sample => pin = Level(b)
    PROVE  Advances(b, SettledAt(h, Level(b), t), Level(b), t, Advance(b, TickAt(t), sample))
<1> DEFINE k == TickAt(t)
           a == Advance(b, k, sample)
           s == SettledAt(h, Level(b), t)
<1> SUFFICES Advances(b, s, Level(b), t, a)
  OBVIOUS
<1>1. /\ h.since \in 0 .. EndOfTime /\ h.pressAt \in 0 .. EndOfTime /\ h.pressAt <= t
      /\ DebounceTime \in Nat
  BY ButtonConstants DEF View
<1>2. CASE b.phase # "debounce"
  <2>1. Level(b) = b.stable /\ b.stable = h.pressed
    BY <1>2 DEF Level, Agrees
  <2>2. s = h
    BY <2>1 DEF SettledAt
  <2>3. a = HeldOn(b, k, sample)
    BY <1>2 DEF Advance
  <2>4. Advances(b, h, b.stable, t, HeldOn(b, k, sample))
    BY <1>1, <1>2, <2>1, HeldOnAdvances
  <2> HIDE DEF s, a, k
  <2> QED
    BY <2>1, <2>2, <2>3, <2>4
<1>3. CASE b.phase = "debounce" /\ ~(t - h.since >= DebounceTime)
  <2>1. b.debounceTick = TickAt(h.since)
    BY <1>3 DEF Agrees
  <2>2. ~Due(b.debounceTick, DebounceTime, k)
    BY <1>1, <1>3, <2>1, ElapsedIs DEF Due
  <2>3. a = [b |-> b, event |-> "NONE"]
    BY <1>3, <2>2 DEF Advance, Step
  <2>4. s = h
    BY <1>1, <1>3 DEF SettledAt
  <2>5. a.b = b /\ a.event = "NONE"
    BY <2>3
  <2> HIDE DEF s, a, k
  <2> QED
    BY <2>4, <2>5 DEF Advances
<1>4. CASE b.phase = "debounce" /\ t - h.since >= DebounceTime
  <2> DEFINE c == Confirmed(b, k)
  <2>1. b.debounceTick = TickAt(h.since) /\ Level(b) = b.level
    BY <1>4 DEF Agrees, Level
  <2>2. Due(b.debounceTick, DebounceTime, k)
    BY <1>1, <1>4, <2>1, ElapsedIs DEF Due
  <2>3. ~(sample /\ pin # b.level)
    BY <2>1
  <2>4. a = IF c.event # "NONE" \/ (b.stable /\ ~b.level) THEN c ELSE HeldOn(c.b, k, sample)
    BY <1>4, <2>2, <2>3 DEF Advance
  <2>5. /\ Advances(b, s, b.level, t, c)
        /\ c.b.stable = b.level /\ c.b.phase # "debounce"
    BY <1>4, <2>1, ConfirmedAdvances
  <2>6. CASE c.event # "NONE" \/ (b.stable /\ ~b.level)
    <3> HIDE DEF s, a, c, k
    <3> QED
      BY <2>1, <2>4, <2>5, <2>6
  <2>7. CASE ~(c.event # "NONE" \/ (b.stable /\ ~b.level))
    <3>1. /\ c.b \in ButtonRecord /\ c.b.edges = b.edges /\ c.b.overflow = b.overflow
          /\ Agrees(c.b, s)
      <4> HIDE DEF s, a, c, k
      <4> QED
        BY <2>5, <2>7 DEF Advances
    <3>2. s \in View /\ s.pressAt <= t
      <4>1. SettledFields(h, Level(b), t, s)
        <5>1. Level(b) \in BOOLEAN
          BY DEF Level, ButtonRecord
        <5> QED
          BY <5>1, SettledIs
      <4> HIDE DEF s
      <4>2. s \in View /\ s.since = h.since /\ s.pressAt <= s.since
        BY <4>1 DEF SettledFields
      <4>3. s.pressAt \in Nat
        BY <4>2 DEF View
      <4> QED
        BY <1>1, <4>2, <4>3
    <3>3. sample => pin = c.b.stable
      BY <2>1, <2>5
    <3> DEFINE d == c.b
               g == HeldOn(d, k, sample)
    <3>4. a = g /\ d.stable = b.level
      BY <2>4, <2>5, <2>7
    <3>5. /\ d \in ButtonRecord /\ Agrees(d, s) /\ d.phase # "debounce"
          /\ sample => pin = d.stable
      BY <2>5, <3>1, <3>3
    <3>6. Advances(d, s, d.stable, t, g)
      <4> HIDE DEF s, d
      <4> QED
        BY <3>2, <3>5, HeldOnAdvances
    <3>7. d.edges = b.edges /\ d.overflow = b.overflow
      BY <3>1
    <3> HIDE DEF s, a, c, d, g, k
    <3> QED
      BY <2>1, <3>4, <3>6, <3>7 DEF Advances
  <2> QED
    BY <2>6, <2>7
<1> QED
  BY <1>2, <1>3, <1>4

-----------------------------------------------------------------------------
(* The replay of the edges                                                  *)

(* What holds at 0 and goes on from each number to the next holds up to n:  *)
(* of the segments before the numbers it fails for, one has no other within. *)
LEMMA Upward ==
    ASSUME NEW n \in Nat, NEW S, 0 \in S, \A i \in 1 .. n : i - 1 \in S => i \in S
    PROVE  0 .. n \subseteq S
<1> DEFINE Rest == (0 .. n) \ S
           Before == {0 .. i - 1 : i \in Rest}
<1> SUFFICES ASSUME Rest # {}
             PROVE  FALSE
  OBVIOUS
<1>1. Before \subseteq FiniteSubsetsOf(Nat) /\ Before # {}
  <2>1. ASSUME NEW i \in Rest
        PROVE  0 .. i - 1 \in FiniteSubsetsOf(Nat)
    <3>1. IsFiniteSet(0 .. i - 1)
      BY FS_Interval
    <3>2. 0 .. i - 1 \subseteq Nat
      OBVIOUS
    <3> QED
      BY <3>1, <3>2 DEF FiniteSubsetsOf
  <2> HIDE DEF Rest
  <2> QED
    BY <2>1
<1> HIDE DEF Before
<1>2. PICK u \in Before : \A v \in Before : ~(<<v, u>> \in StrictSubsetOrdering(Nat))
  BY <1>1, FS_StrictSubsetOrderingWellFounded, WFMin
<1>3. PICK i \in Rest : u = 0 .. i - 1
  BY DEF Before
<1>4. i - 1 \in Rest
  BY <1>3
<1>5. 0 .. i - 1 - 1 \in Before
  BY <1>4 DEF Before
<1>6. 0 .. i - 1 - 1 \subseteq 0 .. i - 1 /\ i - 1 \in 0 .. i - 1 /\ i - 1 \notin 0 .. i - 1 - 1
  BY <1>3, <1>4
<1>7. <<0 .. i - 1 - 1, u>> \in StrictSubsetOrdering(Nat)
  BY <1>3, <1>6 DEF StrictSubsetOrdering
<1> QED
  BY <1>2, <1>5, <1>7

(* One turn of the loop.                                                    *)
Turn(b, i, r) ==
    IF r.event # "NONE" THEN r
    ELSE LET a == Advance(r.b, b.edges[i].tick, FALSE) IN
         IF a.event # "NONE" THEN a ELSE Step(Consumed(a.b, b.edges[i]), "NONE")

(* f holds the turns of the loop up to k.                                   *)
Turns(b, k, f) ==
    f = [i \in 0 .. k |-> IF i = 0 THEN Step(b, "NONE") ELSE Turn(b, i, f[i - 1])]

LEMMA TurnsExist ==
    ASSUME NEW b, NEW n \in Nat
    PROVE  \E f : Turns(b, n, f)
<1> DEFINE S == {k \in 0 .. n : \E f : Turns(b, k, f)}
<1>1. 0 \in S
  <2> DEFINE f == [i \in 0 .. 0 |-> Step(b, "NONE")]
  <2>1. f = [i \in 0 .. 0 |-> IF i = 0 THEN Step(b, "NONE") ELSE Turn(b, i, f[i - 1])]
    OBVIOUS
  <2>2. Turns(b, 0, f)
    BY <2>1 DEF Turns
  <2> QED
    BY <2>2
<1>2. ASSUME NEW k \in 1 .. n, k - 1 \in S
      PROVE  k \in S
  <2>1. PICK f : Turns(b, k - 1, f)
    BY <1>2
  <2> DEFINE g == [i \in 0 .. k |-> IF i = k THEN Turn(b, k, f[k - 1]) ELSE f[i]]
             e(i) == IF i = 0 THEN Step(b, "NONE") ELSE Turn(b, i, g[i - 1])
             d(i) == IF i = 0 THEN Step(b, "NONE") ELSE Turn(b, i, f[i - 1])
  <2>2. f = [i \in 0 .. k - 1 |-> d(i)]
    BY <2>1 DEF Turns
  <2>3. ASSUME NEW i \in 0 .. k
        PROVE  g[i] = e(i)
    <3>1. CASE i = k
      <4>1. g[k - 1] = f[k - 1] /\ g[k] = Turn(b, k, f[k - 1])
        OBVIOUS
      <4> HIDE DEF g
      <4> QED
        BY <3>1, <4>1
    <3>2. CASE i # k
      <4>1. g[i] = f[i] /\ i \in 0 .. k - 1
        BY <3>2
      <4>2. f[i] = d(i)
        <5> HIDE DEF d, g, e
        <5> QED
          BY <2>2, <4>1
      <4>3. i # 0 => g[i - 1] = f[i - 1]
        BY <4>1
      <4> HIDE DEF g
      <4> QED
        BY <4>1, <4>2, <4>3
    <3> QED
      BY <3>1, <3>2
  <2>4. g = [i \in 0 .. k |-> g[i]]
    OBVIOUS
  <2>5. g = [i \in 0 .. k |-> e(i)]
    <3> HIDE DEF g, e
    <3> QED
      BY <2>3, <2>4
  <2>6. Turns(b, k, g)
    BY <2>5 DEF Turns
  <2> QED
    BY <2>6
<1>3. n \in S
  <2> HIDE DEF S
  <2> QED
    BY <1>1, <1>2, Upward
<1> QED
  BY <1>3

LEMMA ReplayIs ==
    ASSUME NEW b, Len(b.edges) \in Nat
    PROVE  \E f : Turns(b, Len(b.edges), f) /\ EdgesReplayed(b) = f[Len(b.edges)]
<1> DEFINE n == Len(b.edges)
           f == CHOOSE f : Turns(b, n, f)
<1>1. Turns(b, n, f)
  <2>1. \E g : Turns(b, n, g)
    BY TurnsExist
  <2> QED
    BY <2>1, Zenon
<1>2. EdgesReplayed(b) = f[n]
  BY DEF EdgesReplayed, Turns, Turn
<1> QED
  BY <1>1, <1>2

(* The level that the pin kept from edge i on.                              *)
PinAt(b, i) == IF i = 0 THEN Level(b) ELSE b.edges[i].active

(* hs[i] is the observer right after the i-th edge in the queue; hs[0] is   *)
(* the one the button agrees with.                                          *)
Chain(b, hs, t) ==
    /\ hs \in [0 .. Len(b.edges) -> View]
    /\ \A i \in 0 .. Len(b.edges) : hs[i].pressAt <= hs[i].since /\ hs[i].since <= t
    /\ Agrees(b, hs[0])
    /\ \A i \in 1 .. Len(b.edges) :
          /\ hs[i - 1].since <= hs[i].since
          /\ b.edges[i].tick = TickAt(hs[i].since)
          /\ hs[i] = After(hs[i - 1], PinAt(b, i - 1), hs[i].since)

(* The observer just before edge i.                                         *)
Before(b, hs, i) == SettledAt(hs[i - 1], PinAt(b, i - 1), hs[i].since)

(* The first i edges of b are gone in c.                                    *)
Dropped(b, i, c) ==
    /\ c \in ButtonRecord /\ c.overflow = b.overflow
    /\ Len(c.edges) = Len(b.edges) - i
    /\ \A k \in 1 .. Len(b.edges) - i : c.edges[k] = b.edges[k + i]
    /\ Level(c) = PinAt(b, i)

(* What the loop has made of the first i edges: it is behind them, or stands *)
(* in front of the edge j whose time made an event.                         *)
Replays(b, hs, i, r) ==
    /\ r.event \in Gestures \cup {"NONE"}
    /\ r.event = "NONE" => Dropped(b, i, r.b) /\ Agrees(r.b, hs[i])
    /\ r.event # "NONE" =>
          \E j \in 1 .. i : /\ Dropped(b, j - 1, r.b)
                            /\ Answers(Before(b, hs, j), PinAt(b, j - 1), r.event, hs[j].since)
                            /\ Agrees(r.b, Told(Before(b, hs, j)))

LEMMA ChainIs ==
    ASSUME NEW b \in ButtonRecord, NEW hs, NEW t \in 0 .. EndOfTime, Chain(b, hs, t),
           NEW i \in 0 .. Len(b.edges)
    PROVE  /\ hs[i] \in View /\ hs[i].since \in 0 .. EndOfTime
           /\ hs[i].pressAt <= hs[i].since /\ hs[i].since <= t
           /\ PinAt(b, i) \in BOOLEAN
<1>1. /\ hs \in [0 .. Len(b.edges) -> View]
      /\ hs[i].pressAt <= hs[i].since /\ hs[i].since <= t
  BY DEF Chain
<1>2. hs[i] \in View /\ hs[i].since \in Nat
  BY <1>1 DEF View
<1>3. PinAt(b, i) \in BOOLEAN
  <2>1. CASE i = 0
    BY <2>1 DEF PinAt, Level, ButtonRecord
  <2>2. CASE i # 0
    <3>1. b.edges \in Seq(EdgeRecord)
      BY DEF ButtonRecord
    <3>2. b.edges[i] \in EdgeRecord
      BY <2>2, <3>1, ElementOfSeq
    <3> QED
      BY <2>2, <3>2 DEF PinAt, EdgeRecord
  <2> QED
    BY <2>1, <2>2
<1> QED
  BY <1>1, <1>2, <1>3, ButtonConstants

LEMMA TurnReplays ==
    ASSUME NEW b \in ButtonRecord, NEW hs, Chain(b, hs, time), time \in 0 .. EndOfTime,
           NEW i \in 1 .. Len(b.edges), NEW r, Replays(b, hs, i - 1, r)
    PROVE  Replays(b, hs, i, Turn(b, i, r))
<1> DEFINE n == Len(b.edges)
           t == hs[i].since
           h == hs[i - 1]
           p == PinAt(b, i - 1)
           s == SettledAt(h, p, t)
           a == Advance(r.b, b.edges[i].tick, FALSE)
<1>1. /\ n \in Nat /\ i - 1 \in 0 .. n /\ i \in 0 .. n
      /\ b.edges \in Seq(EdgeRecord)
  BY LenProperties DEF ButtonRecord
<1>2. CASE r.event # "NONE"
  <2>1. Turn(b, i, r) = r
    BY <1>2 DEF Turn
  <2> DEFINE Q(j) == /\ Dropped(b, j - 1, r.b)
                     /\ Answers(Before(b, hs, j), PinAt(b, j - 1), r.event, hs[j].since)
                     /\ Agrees(r.b, Told(Before(b, hs, j)))
  <2>2. r.event \in Gestures \cup {"NONE"} /\ (\E j \in 1 .. i - 1 : Q(j))
    BY <1>2 DEF Replays
  <2>3. \E j \in 1 .. i : Q(j)
    <3> HIDE DEF Q
    <3> QED
      BY <2>2
  <2> QED
    BY <1>2, <2>1, <2>2, <2>3 DEF Replays
<1>3. CASE r.event = "NONE"
  <2>1. Dropped(b, i - 1, r.b) /\ Agrees(r.b, h)
    BY <1>3 DEF Replays
  <2>2. h \in View /\ h.pressAt <= h.since /\ h.since <= t /\ t \in 0 .. EndOfTime
    <3>1. h.since <= t
      BY DEF Chain
    <3> QED
      BY <1>1, <3>1, ChainIs
  <2>3. b.edges[i].tick = TickAt(t) /\ hs[i] = After(h, p, t)
    BY DEF Chain
  <2>4. r.b \in ButtonRecord /\ Level(r.b) = p
    BY <2>1 DEF Dropped
  <2>5. Advances(r.b, s, p, t, a)
    <3> DEFINE c == r.b
    <3>1. c \in ButtonRecord /\ Agrees(c, h) /\ Level(c) = p
      BY <2>1, <2>4
    <3>2. Advances(c, SettledAt(h, Level(c), t), Level(c), t, Advance(c, TickAt(t), FALSE))
      <4> HIDE DEF c, h, p, t
      <4> QED
        BY <2>2, <3>1, AdvanceFollows
    <3> QED
      BY <2>3, <3>1, <3>2
  <2>6. /\ a.b \in ButtonRecord /\ a.b.edges = r.b.edges /\ a.b.overflow = r.b.overflow
        /\ a.event \in Gestures \cup {"NONE"}
        /\ Level(a.b) = p
        /\ a.event = "NONE" => Agrees(a.b, s)
        /\ a.event # "NONE" => Answers(s, p, a.event, t) /\ Agrees(a.b, Told(s))
    <3> HIDE DEF a, s
    <3> QED
      BY <2>5 DEF Advances
  <2>7. /\ a.b.overflow = b.overflow
        /\ Len(a.b.edges) = n - (i - 1)
        /\ \A k \in 1 .. n - (i - 1) : a.b.edges[k] = b.edges[k + (i - 1)]
    <3> HIDE DEF a
    <3> QED
      BY <2>1, <2>6 DEF Dropped
  <2>8. CASE a.event # "NONE"
    <3>1. Turn(b, i, r) = a
      BY <1>3, <2>8 DEF Turn
    <3>2. Dropped(b, i - 1, a.b)
      <4> HIDE DEF a
      <4> QED
        BY <2>6, <2>7 DEF Dropped
    <3>3. s = Before(b, hs, i)
      BY DEF Before
    <3> HIDE DEF a, s
    <3>4. /\ Dropped(b, i - 1, a.b)
          /\ Answers(Before(b, hs, i), PinAt(b, i - 1), a.event, hs[i].since)
          /\ Agrees(a.b, Told(Before(b, hs, i)))
      BY <2>6, <2>8, <3>2, <3>3
    <3>5. i \in 1 .. i
      OBVIOUS
    <3> QED
      BY <2>6, <2>8, <3>1, <3>4, <3>5 DEF Replays
  <2>9. CASE a.event = "NONE"
    <3> DEFINE c == Consumed(a.b, b.edges[i])
               edge == b.edges[i]
               d == a.b
    <3>1. Turn(b, i, r) = [b |-> c, event |-> "NONE"]
      BY <1>3, <2>9 DEF Turn, Step
    <3>2. edge \in EdgeRecord /\ edge.tick = TickAt(t)
      BY <1>1, <2>3, ElementOfSeq
    <3>3. /\ d \in ButtonRecord /\ d.edges \in Seq(EdgeRecord) /\ d.edges # <<>>
          /\ Agrees(d, s) /\ Len(d.edges) = n - (i - 1)
          /\ \A k \in 1 .. n - (i - 1) : d.edges[k] = b.edges[k + (i - 1)]
      <4>1. d \in ButtonRecord /\ Agrees(d, s)
        BY <2>6, <2>9
      <4>2. d.edges \in Seq(EdgeRecord)
        BY <4>1 DEF ButtonRecord
      <4>3. /\ Len(d.edges) = n - (i - 1)
            /\ \A k \in 1 .. n - (i - 1) : d.edges[k] = b.edges[k + (i - 1)]
        BY <2>7
      <4> HIDE DEF d, s
      <4>4. Len(d.edges) # 0
        <5> HIDE DEF n
        <5> QED
          BY <1>1, <4>3
      <4>5. d.edges # <<>>
        BY <4>2, <4>4, EmptySeq
      <4> QED
        BY <4>1, <4>2, <4>3, <4>5
    <3>4. /\ Tail(d.edges) \in Seq(EdgeRecord) /\ Len(Tail(d.edges)) = Len(d.edges) - 1
          /\ \A k \in 1 .. Len(Tail(d.edges)) : Tail(d.edges)[k] = d.edges[k + 1]
      BY <3>3, HeadTailProperties
    <3>5. /\ c \in ButtonRecord /\ c.edges = Tail(d.edges) /\ c.overflow = d.overflow
          /\ c.phase = "debounce" /\ c.level = edge.active /\ c.debounceTick = edge.tick
          /\ c.stable = d.stable /\ c.suppress = d.suppress /\ c.extra = d.extra
          /\ c.pressTick = d.pressTick
      <4>1. c = [d EXCEPT !.edges = Tail(@), !.phase = "debounce", !.level = edge.active,
                          !.debounceTick = edge.tick]
        BY DEF Consumed
      <4> HIDE DEF c, d, edge
      <4> QED
        BY <3>2, <3>3, <3>4, <4>1 DEF ButtonRecord, EdgeRecord
    <3>6. d.overflow = b.overflow
      BY <2>7
    <3>7. Dropped(b, i, c)
      <4>1. Len(c.edges) = n - i
        <5>1. Len(c.edges) = Len(d.edges) - 1
          <6> HIDE DEF c, d
          <6> QED
            BY <3>4, <3>5, Zenon
        <5>2. Len(d.edges) = n - (i - 1)
          BY <3>3, Zenon
        <5>3. n \in Nat /\ i \in Nat
          BY <1>1
        <5> HIDE DEF c, d, n
        <5> QED
          BY <5>1, <5>2, <5>3
      <4>2. ASSUME NEW k \in 1 .. n - i
            PROVE  c.edges[k] = b.edges[k + i]
        <5>1. c.edges[k] = d.edges[k + 1]
          <6> HIDE DEF c, d
          <6> QED
            BY <1>1, <3>3, <3>4, <3>5, <4>2
        <5>2. k + 1 \in 1 .. n - (i - 1) /\ (k + 1) + (i - 1) = k + i
          BY <1>1
        <5>3. d.edges[k + 1] = b.edges[(k + 1) + (i - 1)]
          <6> HIDE DEF d
          <6> QED
            BY <3>3, <5>2
        <5> QED
          BY <5>1, <5>2, <5>3
      <4>3. Level(c) = PinAt(b, i)
        <5> HIDE DEF c, d
        <5> QED
          BY <3>5 DEF Level, PinAt
      <4> HIDE DEF c, d
      <4> QED
        BY <3>5, <3>6, <4>1, <4>2, <4>3 DEF Dropped
    <3>8. Agrees(c, hs[i])
      <4> DEFINE g == hs[i]
      <4>1. /\ g.since = t /\ g.pressed = s.pressed /\ g.skip = s.skip /\ g.early = s.early
            /\ g.pressAt = s.pressAt /\ g.owed = s.owed
        <5>1. p \in BOOLEAN
          BY <1>1, ChainIs
        <5>2. g = After(h, p, t) /\ t \in Nat
          BY <2>2, <2>3
        <5> HIDE DEF h, p, t, g
        <5> QED
          BY <2>2, <5>1, <5>2, AfterIs
      <4>2. /\ s.owed = <<>> /\ d.stable = s.pressed
            /\ s.pressed => /\ d.suppress = s.skip /\ d.extra = s.early
                            /\ ~d.suppress => d.pressTick = TickAt(s.pressAt)
        <5> HIDE DEF d, s
        <5> QED
          BY <3>3 DEF Agrees
      <4> SUFFICES Agrees(c, g)
        OBVIOUS
      <4> HIDE DEF c, d, s, g, edge
      <4>3. g.owed = <<>> /\ c.debounceTick = TickAt(g.since)
        BY <3>2, <3>5, <4>1, <4>2
      <4>4. c.stable = g.pressed
        BY <3>5, <4>1, <4>2, Zenon
      <4>5. g.pressed => c.suppress = g.skip /\ c.extra = g.early
        BY <3>5, <4>1, <4>2, Zenon
      <4>6. g.pressed /\ ~c.suppress => c.pressTick = TickAt(g.pressAt)
        BY <3>5, <4>1, <4>2, Zenon
      <4> QED
        BY <3>5, <4>3, <4>4, <4>5, <4>6, Zenon DEF Agrees
    <3> DEFINE v == Turn(b, i, r)
    <3>9. v.b = c /\ v.event = "NONE"
      <4> HIDE DEF c
      <4> QED
        BY <3>1
    <3> HIDE DEF c, v
    <3>10. Replays(b, hs, i, v)
      BY <3>7, <3>8, <3>9 DEF Replays
    <3> QED
      BY <3>10 DEF v
  <2> QED
    BY <2>8, <2>9
<1> QED
  BY <1>2, <1>3

LEMMA EdgesFollow ==
    ASSUME NEW b \in ButtonRecord, NEW hs, Chain(b, hs, time), time \in 0 .. EndOfTime
    PROVE  Replays(b, hs, Len(b.edges), EdgesReplayed(b))
<1> DEFINE n == Len(b.edges)
<1>1. n \in Nat
  BY LenProperties DEF ButtonRecord
<1>2. PICK f : Turns(b, n, f) /\ EdgesReplayed(b) = f[n]
  BY <1>1, ReplayIs
<1> DEFINE S == {i \in 0 .. n : Replays(b, hs, i, f[i])}
<1>3. f[0] = Step(b, "NONE") /\ (\A i \in 1 .. n : f[i] = Turn(b, i, f[i - 1]))
  BY <1>1, <1>2 DEF Turns
<1>4. 0 \in S
  <2>1. f[0].b = b /\ f[0].event = "NONE"
    BY <1>3 DEF Step
  <2>2. Dropped(b, 0, b)
    BY <1>1 DEF Dropped, PinAt
  <2>3. Agrees(b, hs[0])
    BY DEF Chain
  <2>4. Replays(b, hs, 0, f[0])
    BY <2>1, <2>2, <2>3 DEF Replays
  <2> QED
    BY <1>1, <2>4
<1>5. ASSUME NEW i \in 1 .. n, i - 1 \in S
      PROVE  i \in S
  <2>1. Replays(b, hs, i - 1, f[i - 1])
    BY <1>5
  <2>2. Replays(b, hs, i, Turn(b, i, f[i - 1]))
    BY <2>1, TurnReplays
  <2>3. Replays(b, hs, i, f[i])
    BY <1>3, <2>2
  <2> QED
    BY <2>3
<1>6. n \in S
  <2> HIDE DEF S, n
  <2>1. \A i \in 1 .. n : i - 1 \in S => i \in S
    BY <1>5
  <2>2. 0 .. n \subseteq S
    BY <1>1, <1>4, <2>1, Upward
  <2> QED
    BY <1>1, <2>2
<1> QED
  BY <1>2, <1>6

-----------------------------------------------------------------------------
(* Types                                                                    *)

Reports(b, a) ==
    /\ a.b \in ButtonRecord /\ a.b.edges = b.edges /\ a.b.overflow = b.overflow
    /\ a.event \in Gestures \cup {"NONE"}

LEMMA HeldOnReports ==
    ASSUME NEW b \in ButtonRecord, NEW k \in 0 .. Ticks - 1, NEW sample
    PROVE  Reports(b, HeldOn(b, k, sample))
<1> DEFINE c == [b EXCEPT !.phase = "debounce", !.level = FALSE, !.debounceTick = k,
                          !.suppress = TRUE]
           d == [b EXCEPT !.extra = TRUE]
           a == HeldOn(b, k, sample)
<1>1. /\ c \in ButtonRecord /\ c.edges = b.edges /\ c.overflow = b.overflow
      /\ d \in ButtonRecord /\ d.edges = b.edges /\ d.overflow = b.overflow
  BY DEF ButtonRecord
<1>2. \/ a.b = b /\ a.event = "NONE"
      \/ a.b = c /\ a.event = "NONE"
      \/ a.b = d /\ a.event = "EXTRA_LONG"
  BY DEF HeldOn, Step
<1> SUFFICES Reports(b, a)
  OBVIOUS
<1> HIDE DEF a, c, d
<1> QED
  BY <1>1, <1>2 DEF Reports, Gestures

LEMMA ConfirmedReports ==
    ASSUME NEW b \in ButtonRecord, NEW k \in 0 .. Ticks - 1
    PROVE  Reports(b, Confirmed(b, k))
<1> DEFINE c == [b EXCEPT !.phase = IF b.level THEN "held" ELSE "idle", !.stable = b.level]
           d == [c EXCEPT !.pressTick = b.debounceTick, !.extra = FALSE, !.suppress = FALSE]
           e == [c EXCEPT !.suppress = FALSE, !.extra = FALSE]
           g == Class(Held(b, k))
           a == Confirmed(b, k)
<1>1. /\ c \in ButtonRecord /\ c.edges = b.edges /\ c.overflow = b.overflow
      /\ b.debounceTick \in 0 .. Ticks - 1
  BY DEF ButtonRecord
<1>2. g \in Gestures
  BY ClassIsGesture
<1>3. \/ a.b = c /\ a.event = "NONE"
      \/ a.b = d /\ a.event = "NONE"
      \/ a.b = e /\ a.event = "NONE"
      \/ a.b = c /\ a.event = g
  BY DEF Confirmed, Step
<1> HIDE DEF c
<1>4. /\ d \in ButtonRecord /\ d.edges = b.edges /\ d.overflow = b.overflow
      /\ e \in ButtonRecord /\ e.edges = b.edges /\ e.overflow = b.overflow
  BY <1>1 DEF ButtonRecord
<1> SUFFICES Reports(b, a)
  OBVIOUS
<1> HIDE DEF a, d, e, g
<1> QED
  BY <1>1, <1>2, <1>3, <1>4 DEF Reports

LEMMA AdvanceReports ==
    ASSUME NEW b \in ButtonRecord, NEW k \in 0 .. Ticks - 1, NEW sample, pin \in BOOLEAN
    PROVE  Reports(b, Advance(b, k, sample))
<1> DEFINE a == Advance(b, k, sample)
           c == Confirmed(b, k)
           d == [b EXCEPT !.level = pin, !.debounceTick = k]
           w == HeldOn(c.b, k, sample)
<1>1. Reports(b, HeldOn(b, k, sample))
  BY HeldOnReports
<1>2. /\ c.b \in ButtonRecord /\ c.b.edges = b.edges /\ c.b.overflow = b.overflow
      /\ Reports(b, c)
  <2>1. Reports(b, c)
    BY ConfirmedReports
  <2> HIDE DEF c
  <2> QED
    BY <2>1 DEF Reports
<1>3. Reports(b, w)
  <2> HIDE DEF c
  <2>1. Reports(c.b, w)
    BY <1>2, HeldOnReports
  <2> HIDE DEF w
  <2> QED
    BY <1>2, <2>1 DEF Reports
<1>4. d \in ButtonRecord /\ d.edges = b.edges /\ d.overflow = b.overflow
  BY DEF ButtonRecord
<1>5. \/ a = HeldOn(b, k, sample)
      \/ a.b = b /\ a.event = "NONE"
      \/ a.b = d /\ a.event = "NONE"
      \/ a = c
      \/ a = w
  BY DEF Advance, Step
<1> SUFFICES Reports(b, a)
  OBVIOUS
<1> HIDE DEF a, c, d, w
<1>6. CASE a = HeldOn(b, k, sample) \/ a = c \/ a = w
  BY <1>1, <1>2, <1>3, <1>6
<1>7. CASE a.b \in {b, d} /\ a.event = "NONE"
  BY <1>4, <1>7 DEF Reports
<1> QED
  BY <1>5, <1>6, <1>7

(* The loop leaves a button with at most as many edges.                     *)
Leaves(b, i, r) ==
    /\ r.b \in ButtonRecord /\ r.b.overflow = b.overflow
    /\ Len(r.b.edges) <= Len(b.edges)
    /\ r.event \in Gestures \cup {"NONE"}
    /\ r.event = "NONE" => Len(r.b.edges) = Len(b.edges) - i

LEMMA TurnLeaves ==
    ASSUME NEW b \in ButtonRecord, pin \in BOOLEAN, NEW i \in 1 .. Len(b.edges), NEW r,
           Leaves(b, i - 1, r)
    PROVE  Leaves(b, i, Turn(b, i, r))
<1> DEFINE a == Advance(r.b, b.edges[i].tick, FALSE)
           c == Consumed(a.b, b.edges[i])
           edge == b.edges[i]
           n == Len(b.edges)
           d == a.b
<1>1. n \in Nat /\ edge \in EdgeRecord
  BY LenProperties, ElementOfSeq DEF ButtonRecord
<1>2. CASE r.event # "NONE"
  <2>1. Turn(b, i, r) = r
    BY <1>2 DEF Turn
  <2> QED
    BY <1>2, <2>1 DEF Leaves
<1>3. CASE r.event = "NONE"
  <2>1. r.b \in ButtonRecord /\ r.b.overflow = b.overflow /\ Len(r.b.edges) = n - (i - 1)
    BY <1>3 DEF Leaves
  <2>2. Reports(r.b, a)
    <3>1. edge.tick \in 0 .. Ticks - 1
      BY <1>1 DEF EdgeRecord
    <3> QED
      BY <2>1, <3>1, AdvanceReports
  <2>3. /\ d \in ButtonRecord /\ d.overflow = b.overflow
        /\ Len(d.edges) = n - (i - 1) /\ a.event \in Gestures \cup {"NONE"}
    <3> HIDE DEF a
    <3> QED
      BY <2>1, <2>2 DEF Reports
  <2>4. CASE a.event # "NONE"
    <3>1. Turn(b, i, r) = a
      BY <1>3, <2>4 DEF Turn
    <3> HIDE DEF a
    <3> QED
      BY <1>1, <2>3, <2>4, <3>1 DEF Leaves
  <2>5. CASE a.event = "NONE"
    <3> DEFINE v == Turn(b, i, r)
    <3>1. v = [b |-> c, event |-> "NONE"]
      BY <1>3, <2>5 DEF Turn, Step
    <3>2. v.b = c /\ v.event = "NONE"
      BY <3>1
    <3>3. c = [d EXCEPT !.edges = Tail(@), !.phase = "debounce", !.level = edge.active,
                        !.debounceTick = edge.tick]
      BY DEF Consumed
    <3> HIDE DEF a, c, d, v
    <3>4. d.edges \in Seq(EdgeRecord) /\ d.edges # <<>>
      <4>1. d.edges \in Seq(EdgeRecord)
        BY <2>3 DEF ButtonRecord
      <4>2. Len(d.edges) # 0
        BY <1>1, <2>3
      <4> QED
        BY <4>1, <4>2, EmptySeq
    <3>5. Tail(d.edges) \in Seq(EdgeRecord) /\ Len(Tail(d.edges)) = Len(d.edges) - 1
      BY <3>4, HeadTailProperties
    <3> HIDE DEF edge
    <3>6. c \in ButtonRecord /\ c.overflow = d.overflow /\ c.edges = Tail(d.edges)
      BY <1>1, <2>3, <3>3, <3>5 DEF ButtonRecord, EdgeRecord
    <3>7. Len(c.edges) = n - i
      BY <1>1, <2>3, <3>5, <3>6
    <3> SUFFICES Leaves(b, i, v)
      BY DEF v
    <3> QED
      BY <1>1, <2>3, <3>2, <3>6, <3>7 DEF Leaves
  <2> QED
    BY <2>4, <2>5
<1> QED
  BY <1>2, <1>3

LEMMA ProcessedTypes ==
    ASSUME NEW b \in ButtonRecord, pin \in BOOLEAN, time \in 0 .. EndOfTime
    PROVE  LET r == Processed(b) IN
           /\ r.b \in ButtonRecord /\ r.b.overflow = b.overflow
           /\ Len(r.b.edges) <= Len(b.edges)
           /\ r.event \in Gestures \cup {"NONE"}
<1> DEFINE n == Len(b.edges)
           r == EdgesReplayed(b)
           a == Advance(r.b, TickAt(time), TRUE)
           v == Processed(b)
<1>1. n \in Nat
  BY LenProperties DEF ButtonRecord
<1>2. PICK f : Turns(b, n, f) /\ r = f[n]
  BY <1>1, ReplayIs
<1> DEFINE S == {i \in 0 .. n : Leaves(b, i, f[i])}
<1>3. f[0] = Step(b, "NONE") /\ (\A i \in 1 .. n : f[i] = Turn(b, i, f[i - 1]))
  BY <1>1, <1>2 DEF Turns
<1>4. 0 \in S
  <2>1. f[0].b = b /\ f[0].event = "NONE"
    BY <1>3 DEF Step
  <2> QED
    BY <1>1, <2>1 DEF Leaves
<1>5. ASSUME NEW i \in 1 .. n, i - 1 \in S
      PROVE  i \in S
  <2>1. Leaves(b, i - 1, f[i - 1])
    BY <1>5
  <2>2. Leaves(b, i, Turn(b, i, f[i - 1]))
    BY <2>1, TurnLeaves
  <2>3. Leaves(b, i, f[i])
    BY <1>3, <2>2
  <2> QED
    BY <2>3
<1>6. n \in S
  <2> HIDE DEF S, n
  <2>1. \A i \in 1 .. n : i - 1 \in S => i \in S
    BY <1>5
  <2>2. 0 .. n \subseteq S
    BY <1>1, <1>4, <2>1, Upward
  <2> QED
    BY <1>1, <2>2
<1>7. Leaves(b, n, r)
  BY <1>2, <1>6
<1> HIDE DEF r
<1>8. Reports(r.b, a)
  <2>1. TickAt(time) \in 0 .. Ticks - 1
    BY TickIs
  <2>2. r.b \in ButtonRecord
    BY <1>7 DEF Leaves
  <2> QED
    BY <2>1, <2>2, AdvanceReports
<1>9. v = IF r.event # "NONE" THEN r ELSE a
  BY DEF Processed, r
<1> HIDE DEF a, v
<1>10. /\ v.b \in ButtonRecord /\ v.b.overflow = b.overflow
       /\ Len(v.b.edges) <= Len(b.edges)
       /\ v.event \in Gestures \cup {"NONE"}
  BY <1>7, <1>8, <1>9 DEF Leaves, Reports
<1> QED
  BY <1>10 DEF v

-----------------------------------------------------------------------------
(* The invariant                                                            *)

(* The button b, with the edges in its queue, and the observer h come to    *)
(* the same at time t.                                                      *)
Follows(b, h, p, t) ==
    /\ p = PinAt(b, Len(b.edges))
    /\ \E hs : Chain(b, hs, t) /\ SettledAt(hs[Len(b.edges)], p, t) = SettledAt(h, p, t)

ButtonInv ==
    /\ ButtonTypes
    /\ ideal.pressAt <= ideal.since /\ ideal.since <= time
    /\ EventsRight
    /\ lost = 0 /\ ~button.overflow => Follows(button, ideal, pin, time)

LEMMA OneFollows ==
    ASSUME NEW b \in ButtonRecord, NEW h \in View, NEW p, NEW t \in 0 .. EndOfTime,
           h.pressAt <= h.since, h.since <= t, Agrees(b, h), Len(b.edges) = 0, p = Level(b)
    PROVE  Follows(b, h, p, t)
<1> DEFINE hs == [i \in 0 .. 0 |-> h]
<1>1. hs[0] = h /\ hs \in [0 .. 0 -> View]
  OBVIOUS
<1> HIDE DEF hs
<1>2. Chain(b, hs, t)
  BY <1>1 DEF Chain
<1>3. p = PinAt(b, 0)
  BY DEF PinAt
<1> QED
  BY <1>1, <1>2, <1>3 DEF Follows

LEMMA PassFollows ==
    ASSUME NEW b \in ButtonRecord, NEW h \in View, NEW p \in BOOLEAN, NEW t \in 0 .. EndOfTime,
           h.pressAt <= h.since, h.since <= t, Follows(b, h, p, t)
    PROVE  Follows(b, h, p, t + 1)
<1> DEFINE n == Len(b.edges)
<1>1. PICK hs : Chain(b, hs, t) /\ SettledAt(hs[n], p, t) = SettledAt(h, p, t)
  BY DEF Follows
<1>2. n \in Nat
  BY LenProperties DEF ButtonRecord
<1>3. \A i \in 0 .. n : /\ hs[i] \in View /\ hs[i].since \in 0 .. EndOfTime
                        /\ hs[i].pressAt <= hs[i].since /\ hs[i].since <= t
  BY <1>1, ChainIs
<1>4. \A i \in 0 .. n : hs[i].pressAt <= hs[i].since /\ hs[i].since <= t + 1
  BY <1>3
<1>5. Chain(b, hs, t + 1)
  BY <1>1, <1>4 DEF Chain
<1>6. SettledAt(hs[n], p, t + 1) = SettledAt(h, p, t + 1)
  <2> DEFINE g == hs[n]
             u == t + 1
  <2>1. g \in View /\ g.pressAt <= g.since /\ SettledAt(g, p, t) = SettledAt(h, p, t)
    BY <1>1, <1>2, <1>3
  <2>2. t \in Nat /\ u \in Nat /\ t <= u
    OBVIOUS
  <2> HIDE DEF g, u
  <2>3. SettledAt(SettledAt(g, p, t), p, u) = SettledAt(g, p, u)
    BY <2>1, <2>2, SettleTwice
  <2>4. SettledAt(SettledAt(h, p, t), p, u) = SettledAt(h, p, u)
    BY <2>2, SettleTwice
  <2>5. SettledAt(g, p, u) = SettledAt(h, p, u)
    BY <2>1, <2>3, <2>4
  <2> QED
    BY <2>5 DEF g, u
<1> QED
  BY <1>5, <1>6 DEF Follows

(* An edge that is queued.                                                  *)
Queued(b, level, t) == [b EXCEPT !.edges = Append(@, [tick |-> TickAt(t), active |-> level])]

LEMMA QueuedIs ==
    ASSUME NEW b \in ButtonRecord, NEW level \in BOOLEAN, NEW t \in 0 .. EndOfTime
    PROVE  LET c == Queued(b, level, t) IN
           /\ c \in ButtonRecord /\ c.overflow = b.overflow
           /\ Len(c.edges) = Len(b.edges) + 1
           /\ \A i \in 1 .. Len(b.edges) : c.edges[i] = b.edges[i]
           /\ c.edges[Len(b.edges) + 1] = [tick |-> TickAt(t), active |-> level]
           /\ c.phase = b.phase /\ c.stable = b.stable /\ c.level = b.level
           /\ c.debounceTick = b.debounceTick /\ c.pressTick = b.pressTick
           /\ c.suppress = b.suppress /\ c.extra = b.extra
<1> DEFINE e == [tick |-> TickAt(t), active |-> level]
           q == Append(b.edges, e)
           c == Queued(b, level, t)
<1>1. e \in EdgeRecord /\ b.edges \in Seq(EdgeRecord)
  BY TickIs DEF EdgeRecord, ButtonRecord
<1>2. c = [b EXCEPT !.edges = q]
  BY DEF Queued
<1>3. /\ q \in Seq(EdgeRecord) /\ Len(q) = Len(b.edges) + 1
      /\ \A i \in 1 .. Len(b.edges) : q[i] = b.edges[i]
      /\ q[Len(b.edges) + 1] = e
  <2> HIDE DEF e
  <2> QED
    BY <1>1, AppendProperties
<1> HIDE DEF q, c, e
<1>4. /\ c \in ButtonRecord /\ c.overflow = b.overflow /\ c.edges = q
      /\ c.phase = b.phase /\ c.stable = b.stable /\ c.level = b.level
      /\ c.debounceTick = b.debounceTick /\ c.pressTick = b.pressTick
      /\ c.suppress = b.suppress /\ c.extra = b.extra
  BY <1>2, <1>3 DEF ButtonRecord
<1> QED
  BY <1>3, <1>4 DEF c, e

LEMMA QueuedFollows ==
    ASSUME NEW b \in ButtonRecord, NEW h \in View, NEW p \in BOOLEAN, NEW t \in 0 .. EndOfTime,
           h.pressAt <= h.since, h.since <= t, Follows(b, h, p, t), NEW level \in BOOLEAN
    PROVE  Follows(Queued(b, level, t), After(h, p, t), level, t)
<1> DEFINE n == Len(b.edges)
           c == Queued(b, level, t)
           a == After(h, p, t)
<1>1. PICK hs : Chain(b, hs, t) /\ SettledAt(hs[n], p, t) = SettledAt(h, p, t)
  BY DEF Follows
<1>2. n \in Nat /\ p = PinAt(b, n)
  BY LenProperties DEF ButtonRecord, Follows
<1>3. /\ c \in ButtonRecord /\ Len(c.edges) = n + 1
      /\ \A i \in 1 .. n : c.edges[i] = b.edges[i]
      /\ c.edges[n + 1] = [tick |-> TickAt(t), active |-> level]
      /\ c.phase = b.phase /\ c.stable = b.stable /\ c.level = b.level
      /\ c.debounceTick = b.debounceTick /\ c.pressTick = b.pressTick
      /\ c.suppress = b.suppress /\ c.extra = b.extra
  BY QueuedIs
<1>4. a \in View /\ a.since = t /\ a.pressAt <= t
  BY AfterIs
<1>5. a = After(hs[n], p, t)
  BY <1>1 DEF After
<1> DEFINE gs == [i \in 0 .. n + 1 |-> IF i = n + 1 THEN a ELSE hs[i]]
<1> HIDE DEF c, a
<1>6. /\ hs \in [0 .. n -> View]
      /\ \A i \in 0 .. n : hs[i].pressAt <= hs[i].since /\ hs[i].since <= t
      /\ Agrees(b, hs[0])
      /\ \A i \in 1 .. n : /\ hs[i - 1].since <= hs[i].since
                           /\ b.edges[i].tick = TickAt(hs[i].since)
                           /\ hs[i] = After(hs[i - 1], PinAt(b, i - 1), hs[i].since)
  BY <1>1 DEF Chain
<1>7. /\ gs \in [0 .. n + 1 -> View] /\ gs[n + 1] = a
      /\ \A i \in 0 .. n : gs[i] = hs[i]
  BY <1>2, <1>4, <1>6
<1> HIDE DEF gs
<1>8. \A i \in 0 .. n : PinAt(c, i) = PinAt(b, i)
  BY <1>3 DEF PinAt, Level
<1>9. Chain(c, gs, t)
  <2>1. Len(c.edges) = n + 1
    BY <1>3
  <2>2. ASSUME NEW i \in 0 .. n + 1
        PROVE  gs[i].pressAt <= gs[i].since /\ gs[i].since <= t
    <3>1. CASE i = n + 1
      BY <1>4, <1>7, <3>1
    <3>2. CASE i # n + 1
      <4>1. i \in 0 .. n
        BY <1>2, <3>2
      <4> QED
        BY <1>6, <1>7, <4>1
    <3> QED
      BY <3>1, <3>2
  <2>3. Agrees(c, gs[0])
    <3>1. gs[0] = hs[0]
      BY <1>2, <1>7
    <3> QED
      BY <1>3, <1>6, <3>1 DEF Agrees
  <2>4. ASSUME NEW i \in 1 .. n + 1
        PROVE  /\ gs[i - 1].since <= gs[i].since
               /\ c.edges[i].tick = TickAt(gs[i].since)
               /\ gs[i] = After(gs[i - 1], PinAt(c, i - 1), gs[i].since)
    <3>1. CASE i = n + 1
      <4>1. gs[i] = a /\ i - 1 = n /\ n \in 0 .. n
        BY <1>2, <1>7, <3>1
      <4>2. gs[i - 1] = hs[n] /\ PinAt(c, i - 1) = p
        BY <1>2, <1>7, <1>8, <4>1
      <4>3. c.edges[i].tick = TickAt(t)
        BY <1>3, <3>1
      <4>4. hs[n].since <= t
        BY <1>6, <4>1
      <4> QED
        BY <1>4, <1>5, <4>1, <4>2, <4>3, <4>4
    <3>2. CASE i # n + 1
      <4>1. i \in 1 .. n /\ i \in 0 .. n /\ i - 1 \in 0 .. n
        BY <1>2, <3>2
      <4>2. gs[i] = hs[i] /\ gs[i - 1] = hs[i - 1] /\ c.edges[i] = b.edges[i]
            /\ PinAt(c, i - 1) = PinAt(b, i - 1)
        BY <1>3, <1>7, <1>8, <4>1
      <4> QED
        BY <1>6, <4>1, <4>2
    <3> QED
      BY <3>1, <3>2
  <2> HIDE DEF n
  <2> QED
    BY <1>7, <2>1, <2>2, <2>3, <2>4 DEF Chain
<1>10. level = PinAt(c, n + 1)
  BY <1>2, <1>3 DEF PinAt
<1> QED
  BY <1>3, <1>7, <1>9, <1>10 DEF Follows, c, a

-----------------------------------------------------------------------------
(* Process                                                                  *)

(* The observer s is told of e next.                                        *)
Right(s, e, t) ==
    IF s.owed # <<>> THEN e = Head(s.owed)
    ELSE /\ e = "EXTRA_LONG" /\ s.pressed /\ ~s.skip /\ ~s.early
         /\ t - s.pressAt >= ExtraLongTime

LEMMA AnswersRight ==
    ASSUME NEW s \in View, NEW p, NEW e, NEW r \in Nat, NEW t \in Nat, r <= t, Answers(s, p, e, r)
    PROVE  Right(s, e, t)
<1>1. s.pressAt \in Nat /\ ExtraLongTime \in Nat
  BY ButtonConstants DEF View
<1> QED
  BY <1>1 DEF Answers, Right

(* An event found in front of edge j is still the next one to be told when  *)
(* the edges behind it are taken into account.                              *)
LEMMA AnswersUpTo ==
    ASSUME NEW b \in ButtonRecord, NEW hs, NEW t \in 0 .. EndOfTime, Chain(b, hs, t),
           NEW j \in 1 .. Len(b.edges), NEW e \in Gestures,
           Answers(Before(b, hs, j), PinAt(b, j - 1), e, hs[j].since)
    PROVE  \A m \in j .. Len(b.edges), q \in BOOLEAN : Answers(hs[m], q, e, hs[j].since)
<1> DEFINE n == Len(b.edges)
           r == hs[j].since
           S == {x \in 0 .. n - j : /\ r <= hs[j + x].since
                                    /\ \A q \in BOOLEAN : Answers(hs[j + x], q, e, r)}
<1>1. n \in Nat /\ n - j \in Nat
  BY LenProperties DEF ButtonRecord
<1>2. \A i \in 0 .. n : /\ hs[i] \in View /\ hs[i].since \in 0 .. EndOfTime
                        /\ hs[i].pressAt <= hs[i].since /\ hs[i].since <= t
                        /\ PinAt(b, i) \in BOOLEAN
  BY ChainIs
<1>3. \A i \in 1 .. n : /\ hs[i - 1].since <= hs[i].since
                        /\ hs[i] = After(hs[i - 1], PinAt(b, i - 1), hs[i].since)
  BY DEF Chain
<1>4. r \in Nat
  BY <1>2
<1>5. 0 \in S
  <2> DEFINE g == hs[j - 1]
             p == PinAt(b, j - 1)
             s == SettledAt(g, p, r)
  <2>1. /\ g \in View /\ g.pressAt <= g.since /\ g.since <= r /\ p \in BOOLEAN
        /\ hs[j] = After(g, p, r)
    BY <1>2, <1>3
  <2>2. Answers(s, p, e, r)
    BY DEF Before
  <2> HIDE DEF g, p, r
  <2>3. SettledFields(g, p, r, s)
    BY <1>4, <2>1, SettledIs
  <2>4. s \in View /\ s.pressAt <= s.since /\ s.since <= r
    <3> HIDE DEF s
    <3> QED
      BY <2>1, <2>3 DEF SettledFields
  <2>5. SettledAt(s, p, r) = s
    BY <1>4, <2>1, SettleTwice
  <2>6. After(s, p, r) = After(g, p, r)
    BY <2>5 DEF After
  <2> HIDE DEF s
  <2>7. \A q \in BOOLEAN : Answers(After(s, p, r), q, e, r)
    BY <1>4, <2>1, <2>2, <2>4, AfterAnswers
  <2>8. \A q \in BOOLEAN : Answers(hs[j], q, e, r)
    BY <2>1, <2>6, <2>7
  <2>9. r <= hs[j].since
    BY <1>4 DEF r
  <2>10. j + 0 = j /\ 0 \in 0 .. n - j
    BY <1>1
  <2> QED
    BY <2>8, <2>9, <2>10
<1>6. ASSUME NEW x \in 1 .. n - j, x - 1 \in S
      PROVE  x \in S
  <2> DEFINE g == hs[j + (x - 1)]
             p == PinAt(b, j + (x - 1))
             u == hs[j + x].since
  <2>1. j + x \in 1 .. n /\ j + (x - 1) \in 0 .. n /\ (j + x) - 1 = j + (x - 1)
    BY <1>1
  <2>2. /\ g \in View /\ g.pressAt <= g.since /\ g.since <= u /\ p \in BOOLEAN
        /\ u \in Nat /\ hs[j + x] = After(g, p, u)
    BY <1>2, <1>3, <2>1
  <2>3. r <= g.since /\ Answers(g, p, e, r)
    BY <1>6, <2>2
  <2>4. g.since \in Nat
    BY <2>2 DEF View
  <2> HIDE DEF g, p, r
  <2>5. r <= u
    <3> HIDE DEF u
    <3> QED
      BY <1>4, <2>2, <2>3, <2>4
  <2>6. \A q \in BOOLEAN : Answers(After(g, p, u), q, e, r)
    <3> HIDE DEF u
    <3> QED
      BY <1>4, <2>2, <2>3, <2>5, AfterAnswers
  <2> QED
    BY <2>2, <2>5, <2>6
<1>7. 0 .. n - j \subseteq S
  <2> DEFINE k == n - j
  <2>1. k \in Nat /\ (\A x \in 1 .. k : x - 1 \in S => x \in S)
    BY <1>1, <1>6
  <2> HIDE DEF k, S
  <2>2. 0 .. k \subseteq S
    BY <1>5, <2>1, Upward
  <2> QED
    BY <2>2 DEF k
<1> QED
  <2> SUFFICES ASSUME NEW m \in j .. n, NEW q \in BOOLEAN
               PROVE  Answers(hs[m], q, e, r)
    OBVIOUS
  <2>1. m - j \in 0 .. n - j /\ j + (m - j) = m
    BY <1>1
  <2>2. m - j \in S
    BY <1>7, <2>1
  <2>3. \A y \in BOOLEAN : Answers(hs[j + (m - j)], y, e, r)
    BY <2>2
  <2> HIDE DEF r
  <2> QED
    BY <2>1, <2>3

LEMMA StoppedFollows ==
    ASSUME NEW b \in ButtonRecord, NEW hs, NEW t \in 0 .. EndOfTime, Chain(b, hs, t),
           NEW h \in View, h.pressAt <= h.since, h.since <= t,
           NEW p \in BOOLEAN, p = PinAt(b, Len(b.edges)),
           SettledAt(hs[Len(b.edges)], p, t) = SettledAt(h, p, t),
           NEW j \in 1 .. Len(b.edges), NEW c, Dropped(b, j - 1, c), NEW e \in Gestures,
           Answers(Before(b, hs, j), PinAt(b, j - 1), e, hs[j].since),
           Agrees(c, Told(Before(b, hs, j)))
    PROVE  /\ Right(SettledAt(h, p, t), e, t)
           /\ Follows(c, Told(SettledAt(h, p, t)), p, t)
<1> DEFINE n == Len(b.edges)
           k == n - (j - 1)
           r == hs[j].since
           s == Before(b, hs, j)
           z == SettledAt(h, p, t)
           gs == [i \in 0 .. k |-> IF i = 0 THEN Told(s) ELSE Told(hs[(j - 1) + i])]
<1>1. n \in Nat /\ k \in Nat /\ k >= 1
  BY LenProperties DEF ButtonRecord
<1>2. \A i \in 0 .. n : /\ hs[i] \in View /\ hs[i].since \in 0 .. EndOfTime
                        /\ hs[i].pressAt <= hs[i].since /\ hs[i].since <= t
                        /\ PinAt(b, i) \in BOOLEAN
  BY ChainIs
<1>3. \A i \in 1 .. n : /\ hs[i - 1].since <= hs[i].since
                        /\ b.edges[i].tick = TickAt(hs[i].since)
                        /\ hs[i] = After(hs[i - 1], PinAt(b, i - 1), hs[i].since)
  BY DEF Chain
<1>4. \A m \in j .. n, q \in BOOLEAN : Answers(hs[m], q, e, r)
  BY AnswersUpTo
<1>5. \A m \in j .. n : Owing(hs[m])
  <2> SUFFICES ASSUME NEW m \in j .. n
               PROVE  Owing(hs[m])
    OBVIOUS
  <2>1. Answers(hs[m], TRUE, e, r)
    BY <1>4
  <2> QED
    BY <2>1, AnswersOwing
<1>6. n \in 0 .. n /\ n \in j .. n /\ j - 1 \in 0 .. n /\ j \in 0 .. n
  BY <1>1
<1>7. r \in Nat /\ r <= t /\ t \in Nat
  BY <1>2, <1>6
<1>8. Answers(z, p, e, r) /\ z \in View /\ Owing(z)
  <2> DEFINE g == hs[n]
  <2>1. g \in View /\ g.pressAt <= g.since /\ Answers(g, p, e, r) /\ SettledAt(g, p, t) = z
    BY <1>2, <1>4, <1>6
  <2>2. SettledFields(g, p, t, SettledAt(g, p, t))
    <3> HIDE DEF g
    <3> QED
      BY <1>7, <2>1, SettledIs
  <2>3. Answers(SettledAt(g, p, t), p, e, r)
    <3> HIDE DEF g, r
    <3> QED
      BY <1>7, <2>1, AnswersLater
  <2> HIDE DEF g, z, r
  <2>4. Answers(z, p, e, r) /\ SettledFields(g, p, t, z)
    BY <2>1, <2>2, <2>3
  <2>5. z \in View
    BY <2>4 DEF SettledFields
  <2> QED
    BY <2>4, <2>5, AnswersOwing
<1>9. Right(z, e, t)
  <2> HIDE DEF z, r
  <2> QED
    BY <1>7, <1>8, AnswersRight
<1>10. /\ s \in View /\ s.since = hs[j - 1].since /\ s.pressAt <= s.since /\ Owing(s)
       /\ After(s, PinAt(b, j - 1), r) = hs[j] /\ Told(s) \in View
       /\ Told(s).since = s.since /\ Told(s).pressAt = s.pressAt
  <2> DEFINE g == hs[j - 1]
             q == PinAt(b, j - 1)
  <2>1. /\ g \in View /\ g.pressAt <= g.since /\ g.since <= r /\ q \in BOOLEAN
        /\ hs[j] = After(g, q, r)
    BY <1>2, <1>3, <1>6
  <2>2. s = SettledAt(g, q, r)
    BY DEF Before
  <2>3. Answers(s, q, e, r)
    OBVIOUS
  <2> HIDE DEF g, q, r, s
  <2>4. SettledFields(g, q, r, s)
    BY <1>7, <2>1, <2>2, SettledIs
  <2>5. s \in View /\ s.since = g.since /\ s.pressAt <= s.since
    BY <2>4 DEF SettledFields
  <2>6. SettledAt(s, q, r) = s
    BY <1>7, <2>1, <2>2, SettleTwice
  <2>7. After(s, q, r) = hs[j]
    BY <2>1, <2>2, <2>6 DEF After
  <2>8. Owing(s)
    BY <2>3, AnswersOwing
  <2>9. Told(s) \in View /\ Told(s).since = s.since /\ Told(s).pressAt = s.pressAt
    BY <2>5, ToldIs
  <2> QED
    BY <2>5, <2>7, <2>8, <2>9 DEF g, q
<1>11. /\ c \in ButtonRecord /\ Len(c.edges) = k
       /\ \A i \in 1 .. k : c.edges[i] = b.edges[i + (j - 1)]
       /\ Level(c) = PinAt(b, j - 1)
  BY DEF Dropped
<1>12. \A i \in 0 .. k : PinAt(c, i) = PinAt(b, i + (j - 1))
  <2> SUFFICES ASSUME NEW i \in 0 .. k
               PROVE  PinAt(c, i) = PinAt(b, i + (j - 1))
    OBVIOUS
  <2>1. CASE i = 0
    <3>1. PinAt(c, 0) = Level(c) /\ 0 + (j - 1) = j - 1
      BY DEF PinAt
    <3> QED
      BY <1>11, <2>1, <3>1
  <2>2. CASE i # 0
    <3>1. i \in 1 .. k /\ i + (j - 1) # 0
      BY <1>1, <2>2
    <3>2. c.edges[i] = b.edges[i + (j - 1)]
      BY <1>11, <3>1
    <3> QED
      BY <2>2, <3>1, <3>2 DEF PinAt
  <2> QED
    BY <2>1, <2>2
<1>13. ASSUME NEW i \in 1 .. k
       PROVE  /\ (j - 1) + i \in j .. n /\ (j - 1) + i \in 1 .. n /\ (j - 1) + i \in 0 .. n
              /\ gs[i] = Told(hs[(j - 1) + i])
              /\ gs[i] \in View /\ gs[i].since = hs[(j - 1) + i].since
              /\ gs[i].pressAt = hs[(j - 1) + i].pressAt
  <2>1. (j - 1) + i \in j .. n /\ (j - 1) + i \in 1 .. n /\ (j - 1) + i \in 0 .. n /\ i # 0
    BY <1>1
  <2>2. gs[i] = Told(hs[(j - 1) + i])
    BY <2>1
  <2>3. hs[(j - 1) + i] \in View
    BY <1>2, <2>1
  <2> HIDE DEF gs
  <2> QED
    BY <2>1, <2>2, <2>3, ToldIs
<1>14. gs[0] = Told(s)
  BY <1>1
<1>15. gs \in [0 .. k -> View]
  <2>1. ASSUME NEW i \in 0 .. k
        PROVE  gs[i] \in View
    <3>1. CASE i = 0
      <4> HIDE DEF gs, s
      <4> QED
        BY <1>10, <1>14, <3>1
    <3>2. CASE i # 0
      <4>1. i \in 1 .. k
        BY <1>1, <3>2
      <4> HIDE DEF gs
      <4> QED
        BY <1>13, <4>1
    <3> QED
      BY <3>1, <3>2
  <2>2. gs = [i \in 0 .. k |-> gs[i]]
    OBVIOUS
  <2> HIDE DEF gs
  <2> QED
    BY <2>1, <2>2
<1> HIDE DEF gs
<1>16. Chain(c, gs, t)
  <2>1. ASSUME NEW i \in 0 .. k
        PROVE  gs[i].pressAt <= gs[i].since /\ gs[i].since <= t
    <3>1. CASE i = 0
      <4>1. s.since = hs[j - 1].since /\ hs[j - 1].since <= t /\ s.pressAt <= s.since
        BY <1>2, <1>6, <1>10
      <4> HIDE DEF s
      <4> QED
        BY <1>10, <1>14, <3>1, <4>1
    <3>2. CASE i # 0
      <4>1. i \in 1 .. k
        BY <1>1, <3>2
      <4>2. /\ (j - 1) + i \in 0 .. n /\ gs[i].since = hs[(j - 1) + i].since
            /\ gs[i].pressAt = hs[(j - 1) + i].pressAt
        BY <1>13, <4>1
      <4> QED
        BY <1>2, <4>2
    <3> QED
      BY <3>1, <3>2
  <2>2. Agrees(c, gs[0])
    BY <1>14
  <2>3. ASSUME NEW i \in 1 .. k
        PROVE  /\ gs[i - 1].since <= gs[i].since
               /\ c.edges[i].tick = TickAt(gs[i].since)
               /\ gs[i] = After(gs[i - 1], PinAt(c, i - 1), gs[i].since)
    <3> DEFINE m == (j - 1) + i
               u == hs[m].since
    <3>1. /\ m \in j .. n /\ m \in 1 .. n /\ m \in 0 .. n
          /\ gs[i] = Told(hs[m]) /\ gs[i].since = u
      BY <1>13
    <3>2. c.edges[i] = b.edges[m] /\ b.edges[m].tick = TickAt(u)
      <4>1. i + (j - 1) = m
        BY <1>1
      <4>2. c.edges[i] = b.edges[i + (j - 1)]
        BY <1>11
      <4>3. b.edges[m].tick = TickAt(hs[m].since)
        BY <1>3, <3>1
      <4> QED
        BY <4>1, <4>2, <4>3
    <3>3. CASE i = 1
      <4>1. m = j /\ gs[i - 1] = Told(s)
        BY <1>1, <1>14, <3>3
      <4>2. PinAt(c, i - 1) = PinAt(b, j - 1)
        <5>1. 0 \in 0 .. k /\ 0 + (j - 1) = j - 1 /\ i - 1 = 0
          BY <1>1, <3>3
        <5> QED
          BY <1>12, <5>1
      <4>3. u = r /\ hs[j - 1].since <= r
        BY <1>3, <4>1
      <4> DEFINE q == PinAt(b, j - 1)
      <4>4. /\ s \in View /\ s.pressAt <= s.since /\ s.since <= r /\ Owing(s) /\ q \in BOOLEAN
            /\ After(s, q, r) = hs[j]
        BY <1>2, <1>6, <1>10, <4>3
      <4> HIDE DEF s, r, q
      <4>5. After(Told(s), q, r) = Told(After(s, q, r))
        BY <1>7, <4>4, AfterTold
      <4>6. gs[i] = After(gs[i - 1], q, r)
        BY <3>1, <4>1, <4>4, <4>5
      <4>7. gs[i - 1].since <= r
        BY <1>10, <4>1, <4>4
      <4> HIDE DEF m, u
      <4> QED
        BY <3>1, <3>2, <4>2, <4>3, <4>6, <4>7 DEF q
    <3>4. CASE i # 1
      <4> DEFINE g == hs[m - 1]
                 q == PinAt(b, m - 1)
      <4>1. /\ i - 1 \in 1 .. k /\ (j - 1) + (i - 1) = m - 1 /\ m - 1 \in j .. n
            /\ m - 1 \in 0 .. n /\ i - 1 \in 0 .. k /\ (i - 1) + (j - 1) = m - 1
        BY <1>1, <3>4
      <4>2. gs[i - 1] = Told(g) /\ gs[i - 1].since = g.since
        <5>1. /\ gs[i - 1] = Told(hs[(j - 1) + (i - 1)])
              /\ gs[i - 1].since = hs[(j - 1) + (i - 1)].since
          BY <1>13, <4>1
        <5> QED
          BY <4>1, <5>1
      <4>3. PinAt(c, i - 1) = q
        <5>1. PinAt(c, i - 1) = PinAt(b, (i - 1) + (j - 1))
          BY <1>12, <4>1
        <5> QED
          BY <4>1, <5>1
      <4>4. /\ g \in View /\ g.pressAt <= g.since /\ q \in BOOLEAN /\ Owing(g)
        BY <1>2, <1>5, <4>1
      <4>5. g.since <= u /\ hs[m] = After(g, q, u) /\ u \in Nat
        BY <1>2, <1>3, <3>1
      <4> HIDE DEF g, q, u
      <4>6. After(Told(g), q, u) = Told(After(g, q, u))
        BY <4>4, <4>5, AfterTold
      <4> HIDE DEF m
      <4> QED
        BY <3>1, <3>2, <4>2, <4>3, <4>5, <4>6
    <3> QED
      BY <3>3, <3>4
  <2>4. Len(c.edges) = k
    BY <1>11
  <2> HIDE DEF k
  <2> QED
    BY <1>15, <2>1, <2>2, <2>3, <2>4 DEF Chain
<1>17. p = PinAt(c, k)
  <2>1. k \in 0 .. k /\ k + (j - 1) = n
    BY <1>1
  <2>2. PinAt(c, k) = PinAt(b, k + (j - 1))
    BY <1>12, <2>1
  <2> QED
    BY <2>1, <2>2
<1>18. SettledAt(gs[k], p, t) = SettledAt(Told(z), p, t)
  <2> DEFINE g == hs[n]
  <2>1. gs[k] = Told(g)
    <3>1. k \in 1 .. k /\ (j - 1) + k = n
      BY <1>1
    <3>2. gs[k] = Told(hs[(j - 1) + k])
      BY <1>13, <3>1
    <3> QED
      BY <3>1, <3>2
  <2>2. g \in View /\ g.pressAt <= g.since /\ Owing(g) /\ SettledAt(g, p, t) = z
    BY <1>2, <1>5, <1>6
  <2> HIDE DEF g
  <2>3. SettledAt(Told(g), p, t) = Told(SettledAt(g, p, t))
    BY <1>7, <2>2, ToldLater
  <2>4. SettledAt(z, p, t) = z /\ z.pressAt <= z.since
    <3>1. SettledAt(SettledAt(h, p, t), p, t) = SettledAt(h, p, t)
      BY <1>7, SettleTwice
    <3>2. SettledFields(h, p, t, z)
      BY <1>7, SettledIs
    <3>3. SettledAt(z, p, t) = z
      BY <3>1
    <3> HIDE DEF z
    <3> QED
      BY <3>2, <3>3 DEF SettledFields
  <2> HIDE DEF z
  <2>5. SettledAt(Told(z), p, t) = Told(SettledAt(z, p, t))
    BY <1>7, <1>8, <2>4, ToldLater
  <2> QED
    BY <2>1, <2>2, <2>3, <2>4, <2>5
<1>19. Follows(c, Told(z), p, t)
  <2>1. Len(c.edges) = k
    BY <1>11
  <2> HIDE DEF k, z
  <2> QED
    BY <1>16, <1>17, <1>18, <2>1 DEF Follows
<1> QED
  BY <1>9, <1>19

LEMMA ProcessedFollows ==
    ASSUME NEW b \in ButtonRecord, NEW h \in View, time \in 0 .. EndOfTime, pin \in BOOLEAN,
           h.pressAt <= h.since, h.since <= time, Follows(b, h, pin, time)
    PROVE  LET v == Processed(b)
               s == SettledAt(h, pin, time) IN
           /\ v.event = "NONE" => Follows(v.b, s, pin, time)
           /\ v.event # "NONE" => Right(s, v.event, time) /\ Follows(v.b, Told(s), pin, time)
<1> DEFINE v == Processed(b)
           s == SettledAt(h, pin, time)
           r == EdgesReplayed(b)
           n == Len(b.edges)
<1>1. PICK hs : Chain(b, hs, time) /\ SettledAt(hs[n], pin, time) = s
  BY DEF Follows
<1>2. n \in Nat /\ n \in 0 .. n /\ pin = PinAt(b, n)
  BY LenProperties DEF ButtonRecord, Follows
<1>3. Replays(b, hs, n, r)
  BY <1>1, EdgesFollow
<1>4. v = IF r.event # "NONE" THEN r ELSE Advance(r.b, TickAt(time), TRUE)
  BY DEF Processed
<1>5. SettledFields(h, pin, time, s)
  BY SettledIs
<1> HIDE DEF v, r
<1>6. s \in View /\ s.since = h.since /\ s.pressAt <= s.since /\ s.since <= time
  <2> HIDE DEF s
  <2> QED
    BY <1>5 DEF SettledFields
<1>7. CASE r.event # "NONE"
  <2>1. r.event \in Gestures
    BY <1>3, <1>7 DEF Replays
  <2>2. PICK j \in 1 .. n :
            /\ Dropped(b, j - 1, r.b)
            /\ Answers(Before(b, hs, j), PinAt(b, j - 1), r.event, hs[j].since)
            /\ Agrees(r.b, Told(Before(b, hs, j)))
    BY <1>3, <1>7 DEF Replays
  <2> DEFINE e == r.event
             c == r.b
             t == time
  <2>3. /\ e \in Gestures /\ Dropped(b, j - 1, c)
        /\ Answers(Before(b, hs, j), PinAt(b, j - 1), e, hs[j].since)
        /\ Agrees(c, Told(Before(b, hs, j)))
    BY <2>1, <2>2
  <2> HIDE DEF e, c
  <2>4. /\ Right(SettledAt(h, pin, t), e, t)
        /\ Follows(c, Told(SettledAt(h, pin, t)), pin, t)
    BY <1>1, <1>2, <2>3, StoppedFollows
  <2>5. v = r
    BY <1>4, <1>7
  <2> QED
    BY <1>7, <2>4, <2>5 DEF e, c, v
<1>8. CASE r.event = "NONE"
  <2> DEFINE c == r.b
             g == hs[n]
             a == Advance(c, TickAt(time), TRUE)
             d == a.b
  <2>1. Dropped(b, n, c) /\ Agrees(c, g)
    BY <1>3, <1>8 DEF Replays
  <2>2. g \in View /\ g.pressAt <= g.since /\ g.since <= time
    BY <1>1, <1>2, ChainIs
  <2>3. v = a
    BY <1>4, <1>8
  <2>4. /\ c \in ButtonRecord /\ Len(c.edges) = n - n /\ Level(c) = pin
    BY <1>2, <2>1 DEF Dropped
  <2> HIDE DEF c, g
  <2>5. Len(c.edges) = 0
    <3> HIDE DEF n
    <3> QED
      BY <1>2, <2>4
  <2>6. Advances(c, SettledAt(g, Level(c), time), Level(c), time, a)
    BY <2>1, <2>2, <2>4, AdvanceFollows
  <2>7. SettledAt(g, Level(c), time) = s
    BY <1>1, <2>4 DEF g
  <2> HIDE DEF a, s
  <2>8. /\ d \in ButtonRecord /\ d.edges = c.edges /\ Level(d) = pin
        /\ a.event = "NONE" => Agrees(d, s)
        /\ a.event # "NONE" => Answers(s, pin, a.event, time) /\ Agrees(d, Told(s))
        /\ a.event \in Gestures \cup {"NONE"}
    BY <2>4, <2>6, <2>7 DEF Advances
  <2> HIDE DEF d
  <2>9. CASE a.event = "NONE"
    <3>1. Follows(d, s, pin, time)
      BY <1>6, <2>5, <2>8, <2>9, OneFollows
    <3> QED
      BY <2>3, <2>9, <3>1 DEF d, s, v
  <2>10. CASE a.event # "NONE"
    <3>1. Right(s, a.event, time)
      <4>1. time \in Nat /\ time <= time
        OBVIOUS
      <4> QED
        BY <1>6, <2>8, <2>10, <4>1, AnswersRight
    <3>2. /\ Told(s) \in View /\ Told(s).since = s.since /\ Told(s).pressAt = s.pressAt
      BY <1>6, ToldIs
    <3> DEFINE m == Told(s)
    <3>3. m \in View /\ m.pressAt <= m.since /\ m.since <= time /\ Agrees(d, m)
      BY <1>6, <2>8, <2>10, <3>2
    <3> HIDE DEF m
    <3>4. Follows(d, m, pin, time)
      BY <2>5, <2>8, <3>3, OneFollows
    <3> QED
      BY <2>3, <2>10, <3>1, <3>4 DEF d, s, v, m
  <2> QED
    BY <2>9, <2>10
<1> QED
  BY <1>7, <1>8

LEMMA SettledNow == Settled = SettledAt(ideal, pin, time)
BY DEF Settled, SettledAt

LEMMA ReleasedIs ==
    /\ Released \in ButtonRecord /\ Released.edges = <<>> /\ Released.overflow = FALSE
    /\ Released.extra = FALSE /\ Released.phase = "idle" /\ Released.stable = FALSE
    /\ Released.pressTick = 0
<1>1. 0 \in 0 .. Ticks - 1 /\ <<>> \in Seq(EdgeRecord)
  BY ButtonConstants, EmptySeq
<1> QED
  BY <1>1 DEF Released, ButtonRecord

LEMMA ProcessKept == ButtonInv /\ Process => ButtonInv'
<1> SUFFICES ASSUME ButtonInv, Process
             PROVE  ButtonInv'
  OBVIOUS
<1> DEFINE s == SettledAt(ideal, pin, time)
           v == Processed(button)
<1>1. /\ time \in 0 .. EndOfTime /\ pin \in BOOLEAN /\ lost \in Nat
      /\ button \in ButtonRecord /\ Len(button.edges) <= EdgeCapacity
      /\ ideal \in View /\ ideal.pressAt <= ideal.since /\ ideal.since <= time
      /\ verdict \in {"right", "wrong"}
  BY DEF ButtonInv, ButtonTypes
<1>2. time' = time /\ pin' = pin /\ lost' = lost
  BY DEF Process
<1>3. s \in View /\ s.since = ideal.since /\ s.pressAt <= s.since
  <2>1. SettledFields(ideal, pin, time, s)
    BY <1>1, SettledIs
  <2> HIDE DEF s
  <2> QED
    BY <2>1 DEF SettledFields
<1>4. CASE button.overflow
  <2> DEFINE b == Resynchronized(button)
             h == Discarded
             k == TickAt(time)
  <2>1. button' = b /\ ideal' = h /\ verdict' = "right"
    BY <1>4 DEF Process
  <2>2. k \in 0 .. Ticks - 1 /\ button.pressTick \in 0 .. Ticks - 1
    BY <1>1, TickIs DEF ButtonRecord
  <2>3. b = [Released EXCEPT !.phase = "debounce", !.stable = TRUE, !.level = pin,
                             !.debounceTick = k, !.pressTick = button.pressTick,
                             !.suppress = TRUE]
    BY DEF Resynchronized
  <2>4. h = [ideal EXCEPT !.pressed = TRUE, !.skip = TRUE, !.early = FALSE,
                          !.since = time, !.pressAt = time, !.owed = <<>>]
    BY DEF Discarded
  <2>5. <<>> \in Seq(EdgeRecord) /\ Len(<<>>) = 0 /\ <<>> \in Seq(Gestures)
    BY EmptySeq
  <2>6. /\ b \in ButtonRecord /\ Len(b.edges) = 0 /\ b.overflow = FALSE
        /\ b.phase = "debounce" /\ b.stable = TRUE /\ b.level = pin /\ b.debounceTick = k
        /\ b.suppress = TRUE /\ b.extra = FALSE
    <3>1. /\ Released \in ButtonRecord /\ Released.edges = <<>> /\ Released.overflow = FALSE
          /\ Released.extra = FALSE
      BY ReleasedIs
    <3> HIDE DEF b, k
    <3> QED
      BY <1>1, <2>2, <2>3, <2>5, <3>1 DEF ButtonRecord
  <2>7. /\ h \in View /\ h.pressed = TRUE /\ h.skip = TRUE /\ h.early = FALSE
        /\ h.since = time /\ h.pressAt = time /\ h.owed = <<>>
    <3>1. ideal \in View /\ time \in Nat
      BY <1>1
    <3> HIDE DEF h
    <3> QED
      BY <2>4, <2>5, <3>1 DEF View
  <2>8. Agrees(b, h) /\ Level(b) = pin
    <3> HIDE DEF h, b
    <3> QED
      BY <2>6, <2>7 DEF Agrees, Level, k
  <2> HIDE DEF h, b
  <2>9. Follows(b, h, pin, time)
    <3>1. h.pressAt <= h.since /\ h.since <= time
      BY <1>1, <2>7
    <3> QED
      BY <1>1, <2>6, <2>7, <2>8, <3>1, OneFollows
  <2>10. ButtonTypes'
    BY <1>1, <1>2, <2>1, <2>6, <2>7, ButtonConstants DEF ButtonTypes
  <2>11. (ideal.pressAt <= ideal.since /\ ideal.since <= time)'
    BY <1>1, <1>2, <2>1, <2>7
  <2>12. EventsRight'
    BY <2>1 DEF EventsRight
  <2>13. Follows(button', ideal', pin', time')
    BY <1>2, <2>1, <2>9
  <2> QED
    BY <2>10, <2>11, <2>12, <2>13 DEF ButtonInv
<1>5. CASE ~button.overflow
  <2>1. button' = v.b /\ Observe(v.event)
    BY <1>5 DEF Process
  <2>2. /\ v.b \in ButtonRecord /\ v.b.overflow = button.overflow
        /\ Len(v.b.edges) <= Len(button.edges)
        /\ v.event \in Gestures \cup {"NONE"}
    BY <1>1, ProcessedTypes
  <2>3. Settled = s
    BY SettledNow
  <2>4. /\ v.event = "NONE" => ideal' = s /\ verdict' = "right"
        /\ v.event # "NONE" =>
             /\ ideal' = Told(s)
             /\ verdict' \in {"right", "wrong"}
             /\ Right(s, v.event, time) => verdict' = "right"
    <3> HIDE DEF v, s
    <3> QED
      BY <2>1, <2>3 DEF Observe, Told, Right, EarlyRight
  <2>5. lost = 0 =>
          /\ v.event = "NONE" => Follows(v.b, s, pin, time)
          /\ v.event # "NONE" => Right(s, v.event, time) /\ Follows(v.b, Told(s), pin, time)
    <3>1. lost = 0 => Follows(button, ideal, pin, time)
      BY <1>5 DEF ButtonInv
    <3> QED
      BY <1>1, <3>1, ProcessedFollows
  <2>6. Told(s) \in View /\ Told(s).since = s.since /\ Told(s).pressAt = s.pressAt
    <3> HIDE DEF s
    <3> QED
      BY <1>3, ToldIs
  <2> HIDE DEF v, s
  <2>7. /\ ideal' \in View /\ ideal'.since = s.since /\ ideal'.pressAt <= ideal'.since
        /\ verdict' \in {"right", "wrong"}
    BY <1>3, <2>4, <2>6
  <2>8. Len(v.b.edges) <= EdgeCapacity
    <3>1. Len(v.b.edges) \in Nat /\ Len(button.edges) \in Nat
      BY <1>1, <2>2, LenProperties DEF ButtonRecord
    <3> QED
      BY <1>1, <2>2, <3>1, ButtonConstants
  <2>9. ButtonTypes'
    BY <1>1, <1>2, <2>1, <2>2, <2>7, <2>8 DEF ButtonTypes
  <2>10. (ideal.pressAt <= ideal.since /\ ideal.since <= time)'
    BY <1>1, <1>2, <1>3, <2>7
  <2>11. EventsRight'
    BY <1>2, <2>4, <2>5 DEF EventsRight
  <2>12. lost' = 0 => Follows(button', ideal', pin', time')
    BY <1>2, <2>1, <2>4, <2>5
  <2> QED
    BY <2>9, <2>10, <2>11, <2>12 DEF ButtonInv
<1> QED
  BY <1>4, <1>5

-----------------------------------------------------------------------------
(* The other steps                                                          *)

THEOREM ButtonInvInit == ButtonInit => ButtonInv
<1> SUFFICES ASSUME ButtonInit
             PROVE  ButtonInv
  OBVIOUS
<1>1. /\ time = 0 /\ lost = 0 /\ verdict = "right" /\ pin \in BOOLEAN
      /\ button = ButtonStart(pin) /\ ideal = IdealStart(pin)
  BY DEF ButtonInit
<1>2. time \in 0 .. EndOfTime /\ EdgeCapacity \in Nat /\ 0 \in Nat
  BY <1>1, ButtonConstants
<1>3. <<>> \in Seq(Gestures) /\ Len(<<>>) = 0
  BY EmptySeq
<1>4. /\ ideal \in View /\ ideal.pressed = pin /\ ideal.skip = pin /\ ideal.early = FALSE
      /\ ideal.pressAt = 0 /\ ideal.since = 0 /\ ideal.owed = <<>>
  <2>1. ideal = [pressed |-> pin, skip |-> pin, early |-> FALSE,
                 pressAt |-> 0, since |-> 0, owed |-> <<>>]
    BY <1>1 DEF IdealStart
  <2> QED
    BY <1>1, <1>2, <1>3, <2>1 DEF View
<1>5. /\ button \in ButtonRecord /\ button.edges = <<>> /\ button.overflow = FALSE
      /\ button.phase # "debounce" /\ button.stable = pin /\ (pin <=> button.phase = "held")
      /\ button.extra = FALSE /\ (pin => button.suppress = TRUE)
  <2>1. CASE pin
    <3>1. button = [Released EXCEPT !.phase = "held", !.stable = TRUE, !.suppress = TRUE]
      BY <1>1, <2>1 DEF ButtonStart
    <3>2. pin = TRUE
      BY <1>1, <2>1
    <3>3. /\ button \in ButtonRecord /\ button.edges = <<>> /\ button.overflow = FALSE
          /\ button.phase = "held" /\ button.stable = TRUE
          /\ button.extra = FALSE /\ button.suppress = TRUE
      BY <3>1, ReleasedIs DEF ButtonRecord
    <3> QED
      BY <3>2, <3>3
  <2>2. CASE ~pin
    <3>1. button = Released
      BY <1>1, <2>2 DEF ButtonStart
    <3>2. pin = FALSE
      BY <1>1, <2>2
    <3> QED
      BY <3>1, <3>2, ReleasedIs
  <2> QED
    BY <2>1, <2>2
<1>6. Agrees(button, ideal)
  <2>1. ideal.pressed => button.suppress = ideal.skip /\ button.suppress /\ button.extra = ideal.early
    BY <1>1, <1>4, <1>5
  <2> QED
    BY <1>4, <1>5, <2>1 DEF Agrees
<1>7. pin = Level(button) /\ Len(button.edges) = 0
  BY <1>3, <1>5 DEF Level
<1>8. ideal.pressAt <= ideal.since /\ ideal.since <= time
  BY <1>1, <1>4
<1>9. Follows(button, ideal, pin, time)
  BY <1>2, <1>4, <1>5, <1>6, <1>7, <1>8, OneFollows
<1>10. ButtonTypes
  BY <1>1, <1>2, <1>4, <1>5, <1>7 DEF ButtonTypes
<1>11. EventsRight
  BY <1>1 DEF EventsRight
<1> QED
  BY <1>8, <1>9, <1>10, <1>11 DEF ButtonInv

LEMMA EdgeKept == ButtonInv /\ (\E level \in BOOLEAN : Edge(level)) => ButtonInv'
<1> SUFFICES ASSUME ButtonInv, NEW level \in BOOLEAN, Edge(level)
             PROVE  ButtonInv'
  OBVIOUS
<1> DEFINE b == Queued(button, level, time)
           a == After(ideal, pin, time)
           o == [button EXCEPT !.overflow = TRUE]
<1>1. /\ time \in 0 .. EndOfTime /\ pin \in BOOLEAN /\ lost \in Nat
      /\ button \in ButtonRecord /\ Len(button.edges) <= EdgeCapacity
      /\ ideal \in View /\ ideal.pressAt <= ideal.since /\ ideal.since <= time
  BY DEF ButtonInv, ButtonTypes
<1>2. time' = time /\ pin' = level /\ lost' = lost /\ verdict' = "right"
  BY DEF Edge
<1>3. ideal' = a
  BY SettledNow DEF Edge, After
<1>4. a \in View /\ a.since = time /\ a.pressAt <= time
  BY <1>1, AfterIs
<1>5. Len(button.edges) \in Nat /\ EdgeCapacity \in Nat
  BY <1>1, LenProperties, ButtonConstants DEF ButtonRecord
<1>6. CASE button.overflow \/ Len(button.edges) = EdgeCapacity
  <2>1. button' = o
    BY <1>6 DEF Edge, Notified
  <2>2. o \in ButtonRecord /\ o.edges = button.edges /\ o.overflow = TRUE
    BY <1>1 DEF ButtonRecord
  <2> HIDE DEF a, o
  <2>3. ButtonTypes'
    BY <1>1, <1>2, <1>3, <1>4, <2>1, <2>2 DEF ButtonTypes
  <2>4. (ideal.pressAt <= ideal.since /\ ideal.since <= time)'
    BY <1>1, <1>2, <1>3, <1>4
  <2>5. EventsRight'
    BY <1>2 DEF EventsRight
  <2> QED
    BY <2>1, <2>2, <2>3, <2>4, <2>5 DEF ButtonInv
<1>7. CASE ~(button.overflow \/ Len(button.edges) = EdgeCapacity)
  <2>1. button' = b
    BY <1>7 DEF Edge, Notified, Queued
  <2>2. b \in ButtonRecord /\ b.overflow = button.overflow /\ Len(b.edges) = Len(button.edges) + 1
    BY <1>1, QueuedIs
  <2>3. lost = 0 => Follows(b, a, level, time)
    <3>1. lost = 0 => Follows(button, ideal, pin, time)
      BY <1>7 DEF ButtonInv
    <3> QED
      BY <1>1, <3>1, QueuedFollows
  <2> HIDE DEF a, b
  <2>4. ButtonTypes'
    <3>1. Len(b.edges) <= EdgeCapacity
      BY <1>1, <1>5, <1>7, <2>2
    <3> QED
      BY <1>1, <1>2, <1>3, <1>4, <2>1, <2>2, <3>1 DEF ButtonTypes
  <2>5. (ideal.pressAt <= ideal.since /\ ideal.since <= time)'
    BY <1>1, <1>2, <1>3, <1>4
  <2>6. EventsRight'
    BY <1>2 DEF EventsRight
  <2>7. lost' = 0 => Follows(button', ideal', pin', time')
    BY <1>2, <1>3, <2>1, <2>3
  <2> QED
    BY <2>4, <2>5, <2>6, <2>7 DEF ButtonInv
<1> QED
  BY <1>6, <1>7

LEMMA EdgeLostKept == ButtonInv /\ EdgeLost => ButtonInv'
<1> SUFFICES ASSUME ButtonInv, EdgeLost
             PROVE  ButtonInv'
  OBVIOUS
<1> DEFINE a == After(ideal, pin, time)
<1>1. /\ time \in 0 .. EndOfTime /\ pin \in BOOLEAN /\ lost \in Nat
      /\ button \in ButtonRecord /\ Len(button.edges) <= EdgeCapacity
      /\ ideal \in View /\ ideal.pressAt <= ideal.since /\ ideal.since <= time
  BY DEF ButtonInv, ButtonTypes
<1>2. /\ time' = time /\ pin' = ~pin /\ lost' = lost + 1 /\ verdict' = "right"
      /\ button' = button
  BY DEF EdgeLost
<1>3. ideal' = a
  BY SettledNow DEF EdgeLost, After
<1>4. a \in View /\ a.since = time /\ a.pressAt <= time
  BY <1>1, AfterIs
<1> HIDE DEF a
<1>5. lost' \in Nat /\ lost' # 0
  BY <1>1, <1>2
<1>6. ButtonTypes'
  BY <1>1, <1>2, <1>3, <1>4, <1>5 DEF ButtonTypes
<1>7. (ideal.pressAt <= ideal.since /\ ideal.since <= time)'
  BY <1>1, <1>2, <1>3, <1>4
<1>8. EventsRight'
  BY <1>2 DEF EventsRight
<1> QED
  BY <1>5, <1>6, <1>7, <1>8 DEF ButtonInv

LEMMA PassKept == ButtonInv /\ Pass => ButtonInv'
<1> SUFFICES ASSUME ButtonInv, Pass
             PROVE  ButtonInv'
  OBVIOUS
<1>1. /\ time \in 0 .. EndOfTime /\ pin \in BOOLEAN /\ lost \in Nat
      /\ button \in ButtonRecord /\ Len(button.edges) <= EdgeCapacity
      /\ ideal \in View /\ ideal.pressAt <= ideal.since /\ ideal.since <= time
  BY DEF ButtonInv, ButtonTypes
<1>2. /\ time < EndOfTime /\ time' = time + 1 /\ verdict' = "right"
      /\ UNCHANGED <<pin, lost, button, ideal>>
  BY DEF Pass
<1>3. time' \in 0 .. EndOfTime /\ ideal.since <= time'
  <2>1. ideal.since \in Nat
    BY <1>1 DEF View
  <2> QED
    BY <1>1, <1>2, <2>1, ButtonConstants
<1>4. ButtonTypes'
  BY <1>1, <1>2, <1>3 DEF ButtonTypes
<1>5. EventsRight'
  BY <1>2 DEF EventsRight
<1>6. lost' = 0 /\ ~button'.overflow => Follows(button', ideal', pin', time')
  <2>1. lost = 0 /\ ~button.overflow => Follows(button, ideal, pin, time)
    BY DEF ButtonInv
  <2>2. lost = 0 /\ ~button.overflow => Follows(button, ideal, pin, time + 1)
    BY <1>1, <2>1, PassFollows
  <2> QED
    BY <1>2, <2>2
<1> QED
  BY <1>1, <1>2, <1>3, <1>4, <1>5, <1>6 DEF ButtonInv

(* ButtonInv is inductive.                                                  *)
THEOREM ButtonStep == ButtonInv /\ [ButtonNext]_buttonVars => ButtonInv'
<1> SUFFICES ASSUME ButtonInv, [ButtonNext]_buttonVars
             PROVE  ButtonInv'
  OBVIOUS
<1>1. CASE \E level \in BOOLEAN : Edge(level)
  BY <1>1, EdgeKept
<1>2. CASE EdgeLost
  BY <1>2, EdgeLostKept
<1>3. CASE Process
  BY <1>3, ProcessKept
<1>4. CASE Pass
  BY <1>4, PassKept
<1>5. CASE UNCHANGED buttonVars
  <2>1. UNCHANGED <<time, pin, lost, button, ideal, verdict>>
    BY <1>5 DEF buttonVars
  <2>2. ButtonTypes'
    BY <2>1 DEF ButtonInv, ButtonTypes
  <2>3. EventsRight'
    BY <2>1 DEF ButtonInv, EventsRight
  <2>4. lost' = 0 /\ ~button'.overflow => Follows(button', ideal', pin', time')
    BY <2>1 DEF ButtonInv
  <2> QED
    BY <2>1, <2>2, <2>3, <2>4 DEF ButtonInv
<1> QED
  BY <1>1, <1>2, <1>3, <1>4, <1>5 DEF ButtonNext

LEMMA InvSleeps == ButtonInv => SleepsWhenDone
<1> SUFFICES ASSUME ButtonInv, lost = 0, WaitsForever
             PROVE  /\ Settled.owed = <<>>
                    /\ Settled.pressed = button.stable
                    /\ button.stable = pin
  BY DEF SleepsWhenDone
<1>1. button.edges = <<>> /\ ~button.overflow /\ button.phase # "debounce"
  BY DEF WaitsForever
<1>2. Follows(button, ideal, pin, time)
  BY <1>1 DEF ButtonInv
<1>3. Len(button.edges) = 0
  BY <1>1, EmptySeq
<1>4. PICK hs : Chain(button, hs, time) /\ SettledAt(hs[0], pin, time) = SettledAt(ideal, pin, time)
  BY <1>2, <1>3 DEF Follows
<1>5. pin = button.stable
  BY <1>1, <1>2, <1>3 DEF Follows, PinAt, Level
<1> DEFINE h == hs[0]
<1>6. Agrees(button, h)
  BY <1>4 DEF Chain
<1>7. h.owed = <<>> /\ button.stable = h.pressed
  BY <1>1, <1>6 DEF Agrees
<1>8. SettledAt(h, pin, time) = h
  BY <1>5, <1>7 DEF SettledAt
<1>9. Settled = h
  BY <1>4, <1>8, SettledNow
<1> QED
  BY <1>5, <1>7, <1>9

LEMMA InvGestures == ButtonInv => GesturesRight
<1> SUFFICES ASSUME ButtonInv
             PROVE  GesturesRight
  OBVIOUS
<1>1. SleepsWhenDone
  BY InvSleeps
<1>2. EventsRight
  BY DEF ButtonInv
<1>3. ButtonTypeOK
  <2>1. button \in ButtonRecord /\ Len(button.edges) <= EdgeCapacity /\ ideal \in View
    BY DEF ButtonInv, ButtonTypes
  <2>2. ideal.owed \in Seq({"SHORT", "LONG", "EXTRA_LONG"})
    BY <2>1 DEF View, Gestures
  <2> QED
    BY <2>1, <2>2 DEF ButtonTypeOK, ButtonRecord
<1> QED
  BY <1>1, <1>2, <1>3 DEF GesturesRight

(* As long as no edge is lost, every gesture that Button_Process reports is *)
(* the next one owed, with its true duration, and the task sleeps only when *)
(* it has reported them all, whenever the task runs and wherever the tick   *)
(* counter wraps around.                                                    *)
THEOREM GesturesAreRight == ButtonSpec => []GesturesRight
<1>1. ButtonInv /\ [ButtonNext]_buttonVars => ButtonInv'
  BY ButtonStep
<1> QED
  BY <1>1, ButtonInvInit, InvGestures, PTL DEF ButtonSpec

-----------------------------------------------------------------------------
(* The durable queue.                                                       *)
(*                                                                          *)
(* The argument: RAM describes two sets of slots soundly (Sound), the       *)
(* erased ones and those a delivery is still due from.  A flag or a cached  *)
(* state "pending" is never missing for the second; the state "free", its   *)
(* flag and the count are exact for the first outside quarantine.  Load,    *)
(* SetSlot, Quarantine and Emptied each keep that, and FindSlot finds what  *)
(* a sound RAM describes.  Everything else follows: the slot Append takes   *)
(* is erased, the sector a reclaim erases holds nothing that is owed.       *)

BlankSlots == {s \in Slot : flash[s] = Blank}

(* A record that is owed, as the Flash holds it.                           *)
DueSlots ==
  {s \in Slot : Valid(flash[s]) /\ ~flash[s].acked /\ flash[s].id \in owed}

(* The slots of B outside quarantine.                                      *)
Usable(q, B) == {s \in B : ~Quarantined(q, SectorOf(s))}

(* No sector is cached twice.                                              *)
OneWay(q) ==
  \A i, j \in Way :
    q.cache[i].sector = q.cache[j].sector /\ q.cache[i].sector \in Sector => i = j

(* The flags and the cached states show every slot of T in this state.     *)
Flagged(q, T, state) == \A s \in T : state \in q.sum[SectorOf(s)]
Shown(q, T, state) ==
  \A i \in Way, s \in T :
    q.cache[i].sector = SectorOf(s) => q.cache[i].states[s] = state
Visible(q, T, state) == Flagged(q, T, state) /\ Shown(q, T, state)

(* A cached "free" outside quarantine is one of B.                         *)
OnlyFree(q, B) ==
  \A i \in Way, s \in Slot :
    /\ q.cache[i].sector = SectorOf(s)
    /\ ~Quarantined(q, SectorOf(s))
    /\ q.cache[i].states[s] = "free"
    => s \in B

(* Nothing in quarantine is flagged free.                                  *)
Shut(q) == \A k \in Sector : Quarantined(q, k) => "free" \notin q.sum[k]

(* RAM describes the erased slots B and the slots D of what is owed.       *)
Sound(q, B, D) ==
  /\ q \in Ram
  /\ OneWay(q)
  /\ Shut(q)
  /\ Visible(q, Usable(q, B), "free")
  /\ OnlyFree(q, B)
  /\ Visible(q, D, "pending")
  /\ q.free = Cardinality(Usable(q, B))

(* Identities are ordered by epoch, then by sequence.                      *)
UpTo(id, q) ==
  \/ id.epoch < q.epoch
  \/ id.epoch = q.epoch /\ id.seq <= q.seq

(* No identity is beyond the one RAM gave out last.                        *)
Ids ==
  /\ newest.epoch <= store
  /\ ram.ready => /\ 1 <= ram.epoch
                  /\ ram.epoch <= store
                  /\ UpTo(newest, ram)
                  /\ \A s \in Slot : Valid(flash[s]) => UpTo(flash[s].id, ram)

(* What was confirmed is not owed.                                         *)
ConfirmedOnce ==
  \A s \in Slot : Valid(flash[s]) /\ flash[s].acked => flash[s].id \notin owed

RamSound == ram.ready => Sound(ram, BlankSlots, DueSlots)

IInv ==
  /\ TypeOK
  /\ RamSound
  /\ OwedStored
  /\ ConfirmedOnce
  /\ AckPinned
  /\ ram.pinned => ram.ready
  /\ Ids

-----------------------------------------------------------------------------
(* Slots, sectors and minima *)

(* Offset and its inverse: a slot lies in the block of its sector.         *)
LEMMA SlotSector ==
  ASSUME NEW s \in Slot
  PROVE  SectorOf(s) \in Sector /\ s \in SlotsOf(SectorOf(s))
<1>1. ASSUME NEW n \in Nat \ {0}, NEW m \in Nat \ {0}, NEW x \in Nat, x < n * m
      PROVE  /\ x \div m \in 0 .. n - 1
             /\ x \in (x \div m) * m .. ((x \div m) + 1) * m - 1
  BY <1>1
<1>2. Sectors \in Nat \ {0} /\ SectorSlots \in Nat \ {0}  BY QueueAssumption
<1>3. s \in Nat /\ s < Sectors * SectorSlots  BY <1>2 DEF Slot, Capacity
<1>4. QED  BY <1>1, <1>2, <1>3 DEF SectorOf, Sector, SlotsOf

LEMMA SectorSlot ==
  ASSUME NEW k \in Sector, NEW s \in SlotsOf(k)
  PROVE  s \in Slot /\ SectorOf(s) = k
<1>1. ASSUME NEW n \in Nat \ {0}, NEW m \in Nat \ {0}, NEW j \in 0 .. n - 1,
             NEW x \in j * m .. (j + 1) * m - 1
      PROVE  x \in 0 .. n * m - 1 /\ x \div m = j
  OBVIOUS
<1>2. QED  BY <1>1, QueueAssumption DEF Slot, Capacity, SectorOf, Sector, SlotsOf

LEMMA SlotsFinite ==
  /\ IsFiniteSet(Slot)
  /\ Cardinality(Slot) = Capacity
  /\ Capacity \in Nat \ {0}
<1>1. Capacity \in Nat \ {0}  BY QueueAssumption DEF Capacity
<1>2. QED  BY <1>1, FS_Interval DEF Slot

(* A sector has SectorSlots slots.                                         *)
LEMMA BlockFinite ==
  ASSUME NEW k \in Sector
  PROVE  IsFiniteSet(SlotsOf(k)) /\ Cardinality(SlotsOf(k)) = SectorSlots
<1> DEFINE a == k * SectorSlots
           b == (k + 1) * SectorSlots - 1
<1>1. a \in Int /\ b \in Int /\ b - a + 1 = SectorSlots /\ a <= b
  BY QueueAssumption DEF Sector
<1>2. SlotsOf(k) = a .. b  BY DEF SlotsOf
<1> HIDE DEF a, b
<1>3. QED  BY <1>1, <1>2, FS_Interval

(* The cyclic successors stay in range.                                    *)
LEMMA NextSlotIn ==
  ASSUME NEW s \in Slot
  PROVE  NextSlot(s) \in Slot
<1>1. Capacity \in Nat \ {0}  BY SlotsFinite
<1>2. QED  BY <1>1 DEF NextSlot, Slot

LEMMA NextWayIn ==
  ASSUME NEW i \in Way
  PROVE  (i + 1) % CacheCount \in Way
BY QueueAssumption DEF Way

LEMMA ZeroIn == 0 \in Way /\ 0 \in Slot
BY QueueAssumption, SlotsFinite DEF Way, Slot

(* Every sector is reached by one of the passes 1 .. Sectors.              *)
LEMMA PassReaches ==
  ASSUME NEW j \in Sector, NEW k \in Sector
  PROVE  \E p \in 1 .. Sectors : (j + p) % Sectors = k
<1>1. CASE k > j
  <2>1. k - j \in 1 .. Sectors /\ (j + (k - j)) % Sectors = k
    BY <1>1, QueueAssumption DEF Sector
  <2>2. QED  BY <2>1
<1>2. CASE k <= j
  <2>1. (k - j) + Sectors \in 1 .. Sectors  BY <1>2, QueueAssumption DEF Sector
  <2>2. (j + ((k - j) + Sectors)) % Sectors = k
    BY <1>2, QueueAssumption DEF Sector
  <2>3. QED  BY <2>1, <2>2
<1>3. QED  BY <1>1, <1>2 DEF Sector

LEMMA PassIn ==
  ASSUME NEW j \in Sector, NEW p \in Nat
  PROVE  (j + p) % Sectors \in Sector
BY QueueAssumption DEF Sector

(* The last pass is at the first sector again.                             *)
LEMMA LastPass ==
  ASSUME NEW j \in Sector
  PROVE  (j + Sectors) % Sectors = j
BY QueueAssumption DEF Sector

(* A set of naturals that is not empty has a least element: of the initial *)
(* segments below its elements one has no other within it.                 *)
LEMMA LowestIs ==
  ASSUME NEW S \in SUBSET Nat, S # {}
  PROVE  Lowest(S) \in S /\ \A t \in S : Lowest(S) <= t
<1> DEFINE Below == {0 .. x - 1 : x \in S}
<1>1. Below \subseteq FiniteSubsetsOf(Nat) /\ Below # {}
  <2>1. ASSUME NEW x \in S PROVE 0 .. x - 1 \in FiniteSubsetsOf(Nat)
    <3>1. IsFiniteSet(0 .. x - 1)  BY FS_Interval
    <3>2. 0 .. x - 1 \subseteq Nat  OBVIOUS
    <3>3. QED  BY <3>1, <3>2 DEF FiniteSubsetsOf
  <2>2. QED  BY <2>1
<1> HIDE DEF Below
<1>2. PICK u \in Below : \A v \in Below : ~ (<<v, u>> \in StrictSubsetOrdering(Nat))
  BY <1>1, FS_StrictSubsetOrderingWellFounded, WFMin
<1>3. PICK x \in S : u = 0 .. x - 1  BY DEF Below
<1>4. ASSUME NEW y \in S, y < x PROVE FALSE
  <2>1. 0 .. y - 1 \in Below  BY DEF Below
  <2>2. 0 .. y - 1 \subseteq 0 .. x - 1 /\ y \in 0 .. x - 1 /\ y \notin 0 .. y - 1
    BY <1>4
  <2>3. <<0 .. y - 1, u>> \in StrictSubsetOrdering(Nat)
    BY <1>3, <2>2 DEF StrictSubsetOrdering
  <2>4. QED  BY <1>2, <2>1, <2>3
<1>5. \A y \in S : x <= y  BY <1>4
<1>6. QED  BY <1>5 DEF Lowest

(* A bounded set of naturals that is not empty has a greatest element.     *)
LEMMA HighestIs ==
  ASSUME NEW n \in Nat, NEW S \in SUBSET (0 .. n), S # {}
  PROVE  Highest(S) \in S /\ \A t \in S : t <= Highest(S)
<1> DEFINE Rest == {n - t : t \in S}
<1>1. Rest \in SUBSET Nat /\ Rest # {}
  <2>1. \A t \in S : n - t \in Nat  OBVIOUS
  <2>2. Rest \subseteq Nat  BY <2>1
  <2>3. PICK t \in S : TRUE  OBVIOUS
  <2>4. n - t \in Rest  OBVIOUS
  <2>5. QED  BY <2>2, <2>4
<1>2. PICK x \in S : Lowest(Rest) = n - x /\ \A t \in Rest : n - x <= t
  <2>1. Lowest(Rest) \in Rest /\ \A t \in Rest : Lowest(Rest) <= t
    BY <1>1, LowestIs
  <2>2. QED  BY <2>1
<1>3. ASSUME NEW y \in S PROVE y <= x
  <2>1. n - y \in Rest  OBVIOUS
  <2>2. n - x <= n - y  BY <1>2, <2>1
  <2>3. QED  BY <2>2
<1>4. QED  BY <1>3 DEF Highest

-----------------------------------------------------------------------------
(* What a slot holds *)

LEMMA ContentsAre ==
  ASSUME NEW c \in Contents
  PROVE  /\ Classify(c) \in SlotState
         /\ Classify(c) = "free" <=> c = Blank
         /\ Classify(c) = "pending" <=> Valid(c) /\ ~c.acked
         /\ Valid(c) => /\ c.id \in Identity
                        /\ c.acked \in BOOLEAN
                        /\ c = Rec(c.id, c.acked)
         /\ ~Valid(Blank) /\ ~Valid(Torn) /\ ~Valid(Corrupt)
<1>1. CASE c \in {Blank, Torn, Corrupt}
  BY <1>1 DEF Classify, SlotState, Valid, Blank, Torn, Corrupt
<1>2. CASE c \in [is : {"record"}, id : Identity, acked : BOOLEAN]
  <2>1. c.is = "record" /\ c.id \in Identity /\ c.acked \in BOOLEAN  BY <1>2
  <2>2. c = [is |-> "record", id |-> c.id, acked |-> c.acked]  BY <1>2
  <2>3. c # Blank  BY <2>1 DEF Blank
  <2>4. CASE c.acked
    BY <2>1, <2>2, <2>3, <2>4
    DEF Classify, SlotState, Valid, Rec, Blank, Torn, Corrupt
  <2>5. CASE ~c.acked
    BY <2>1, <2>2, <2>3, <2>5
    DEF Classify, SlotState, Valid, Rec, Blank, Torn, Corrupt
  <2>6. QED  BY <2>4, <2>5
<1>3. QED  BY <1>1, <1>2 DEF Contents

LEMMA RecIs ==
  ASSUME NEW id \in Identity, NEW a \in BOOLEAN
  PROVE  /\ Rec(id, a) \in Contents
         /\ Valid(Rec(id, a))
         /\ Rec(id, a).id = id
         /\ Rec(id, a).acked <=> a
         /\ Rec(id, a) # Blank
BY DEF Rec, Contents, Valid, Blank

-----------------------------------------------------------------------------
(* The cache *)

LEMMA LineIs ==
  ASSUME NEW c \in CacheLine, NEW k \in Sector, c.sector = k
  PROVE  c.states \in [SlotsOf(k) -> SlotState]
<1>1. Sectors # k  BY QueueAssumption DEF Sector
<1>2. c # NoWay  BY <1>1 DEF NoWay
<1>3. PICK j \in Sector : c \in [sector : {j}, states : [SlotsOf(j) -> SlotState]]
  BY <1>2 DEF CacheLine
<1>4. c.sector = j /\ c.states \in [SlotsOf(j) -> SlotState]  BY <1>3
<1>5. QED  BY <1>4

LEMMA LineIn ==
  ASSUME NEW k \in Sector, NEW st \in [SlotsOf(k) -> SlotState]
  PROVE  [sector |-> k, states |-> st] \in CacheLine
BY DEF CacheLine

LEMMA RamIs ==
  ASSUME NEW q \in Ram
  PROVE  /\ q.cache \in [Way -> CacheLine]
         /\ q.sum \in [Sector -> SUBSET (SlotState \cup {"quarantined"})]
         /\ q.next \in Way
         /\ q.free \in 0 .. Capacity
         /\ q.epoch \in 0 .. EpochMax
         /\ q.seq \in 0 .. SeqMax
         /\ q.write \in Slot
         /\ q.read \in Slot
         /\ q.ack.slot \in Slot
         /\ q.ack.id \in Identity \cup {NoId}
BY DEF Ram

LEMMA WayIs ==
  ASSUME NEW q, NEW k, Cached(q, k)
  PROVE  WayOf(q, k) \in Way /\ q.cache[WayOf(q, k)].sector = k
BY DEF Cached, WayOf

LEMMA WayOnly ==
  ASSUME NEW q, OneWay(q), NEW i \in Way, NEW k \in Sector, q.cache[i].sector = k
  PROVE  Cached(q, k) /\ WayOf(q, k) = i
<1>1. Cached(q, k)  BY DEF Cached
<1>2. WayOf(q, k) \in Way /\ q.cache[WayOf(q, k)].sector = k  BY <1>1, WayIs
<1>3. QED  BY <1>1, <1>2 DEF OneWay

(* The states of a cached sector.                                          *)
LEMMA StatesAre ==
  ASSUME NEW q \in Ram, NEW k \in Sector, Cached(q, k)
  PROVE  SlotStates(q, k) \in [SlotsOf(k) -> SlotState]
<1>1. WayOf(q, k) \in Way /\ q.cache[WayOf(q, k)].sector = k  BY WayIs
<1>2. q.cache[WayOf(q, k)] \in CacheLine  BY <1>1, RamIs
<1>3. QED  BY <1>1, <1>2, LineIs DEF SlotStates

(* The flags fl of sector k account for these states of its slots.         *)
Describes(fl, k, st) ==
  /\ fl \in SUBSET (SlotState \cup {"quarantined"})
  /\ "quarantined" \in fl => "free" \notin fl
  /\ \A x \in SlotsOf(k) : st[x] # "free" \/ "quarantined" \notin fl => st[x] \in fl

LEMMA SummaryIs ==
  ASSUME NEW k \in Sector, NEW st \in [SlotsOf(k) -> SlotState], NEW b \in BOOLEAN
  PROVE  /\ Describes(Summary(st, b), k, st)
         /\ "quarantined" \in Summary(st, b) <=> b
<1> DEFINE found == {st[x] : x \in DOMAIN st}
<1>1. found = {st[x] : x \in SlotsOf(k)} /\ found \subseteq SlotState  OBVIOUS
<1>2. "quarantined" \notin SlotState  BY DEF SlotState
<1>3. CASE b
  <2>1. Summary(st, b) = (found \ {"free"}) \cup {"quarantined"}  BY <1>3 DEF Summary
  <2> HIDE DEF found
  <2>2. QED  BY <2>1, <1>1, <1>2, <1>3 DEF Describes
<1>4. CASE ~b
  <2>1. Summary(st, b) = found  BY <1>4 DEF Summary
  <2> HIDE DEF found
  <2>2. QED  BY <2>1, <1>1, <1>2, <1>4 DEF Describes
<1>5. QED  BY <1>3, <1>4

(* What an update of the cache, the flags or the count leaves alone.       *)
Keeps(r, q) ==
  /\ r.ready <=> q.ready
  /\ r.pinned <=> q.pinned
  /\ r.epoch = q.epoch
  /\ r.seq = q.seq
  /\ r.write = q.write
  /\ r.read = q.read
  /\ r.ack = q.ack

(* r is q with this line in way i and these flags of its sector k.         *)
Relined(r, q, i, k, st, fl) ==
  /\ q \in Ram /\ r \in Ram
  /\ i \in Way /\ k \in Sector
  /\ st \in [SlotsOf(k) -> SlotState]
  /\ Describes(fl, k, st)
  /\ r.cache = [q.cache EXCEPT ![i] = [sector |-> k, states |-> st]]
  /\ r.sum = [q.sum EXCEPT ![k] = fl]
  /\ Keeps(r, q)

LEMMA RelinedIs ==
  ASSUME NEW q, NEW r, NEW i, NEW k, NEW st, NEW fl,
         Relined(r, q, i, k, st, fl)
  PROVE  /\ q \in Ram /\ r \in Ram /\ i \in Way /\ k \in Sector
         /\ st \in [SlotsOf(k) -> SlotState]
         /\ r.cache[i].sector = k
         /\ r.cache[i].states = st
         /\ \A j \in Way : j # i => r.cache[j] = q.cache[j]
         /\ r.sum[k] = fl
         /\ \A j \in Sector : j # k => r.sum[j] = q.sum[j]
         /\ Quarantined(r, k) <=> "quarantined" \in fl
         /\ \A j \in Sector : j # k => (Quarantined(r, j) <=> Quarantined(q, j))
         /\ Cached(r, k)
<1> DEFINE line == [sector |-> k, states |-> st]
<1>1. /\ q \in Ram /\ r \in Ram /\ i \in Way /\ k \in Sector
      /\ st \in [SlotsOf(k) -> SlotState]
      /\ r.cache = [q.cache EXCEPT ![i] = line]
      /\ r.sum = [q.sum EXCEPT ![k] = fl]
  BY DEF Relined
<1>2. line.sector = k /\ line.states = st  OBVIOUS
<1> HIDE DEF line
<1>3. q.cache \in [Way -> CacheLine] /\ DOMAIN q.sum = Sector  BY <1>1, RamIs
<1>4. r.cache[i] = line /\ \A j \in Way : j # i => r.cache[j] = q.cache[j]
  BY <1>1, <1>3
<1>5. r.sum[k] = fl /\ \A j \in Sector : j # k => r.sum[j] = q.sum[j]
  BY <1>1, <1>3
<1>6. QED  BY <1>1, <1>2, <1>4, <1>5 DEF Quarantined, Cached

(* Whatever rewrites one line and its flags together stays sound, when the *)
(* new states describe the sector and the count is right.                  *)
LEMMA RelinedSound ==
  ASSUME NEW B \in SUBSET Slot, NEW D \in SUBSET Slot,
         NEW B2 \in SUBSET Slot, NEW D2 \in SUBSET Slot,
         NEW q, NEW r, NEW i, NEW k, NEW st, NEW fl,
         Sound(q, B, D),
         Relined(r, q, i, k, st, fl),
         Cached(q, k) => i = WayOf(q, k),
         \A s \in Slot : SectorOf(s) # k => (s \in B2 <=> s \in B),
         \A s \in Slot : SectorOf(s) # k => (s \in D2 => s \in D),
         "quarantined" \notin fl => \A s \in SlotsOf(k) : s \in B2 <=> st[s] = "free",
         \A s \in SlotsOf(k) : s \in D2 => st[s] = "pending",
         r.free = Cardinality(Usable(r, B2))
  PROVE  Sound(r, B2, D2)
<1>1. /\ q \in Ram /\ r \in Ram /\ i \in Way /\ k \in Sector
      /\ st \in [SlotsOf(k) -> SlotState]
      /\ Describes(fl, k, st)
  BY DEF Relined
<1>2. /\ r.cache[i].sector = k
      /\ r.cache[i].states = st
      /\ \A j \in Way : j # i => r.cache[j] = q.cache[j]
  BY RelinedIs
<1>3. /\ r.sum[k] = fl
      /\ \A j \in Sector : j # k => r.sum[j] = q.sum[j]
  BY RelinedIs
<1>4. /\ Quarantined(r, k) <=> "quarantined" \in fl
      /\ \A j \in Sector : j # k => (Quarantined(r, j) <=> Quarantined(q, j))
  BY RelinedIs
<1>5. \A j \in Way : j # i => q.cache[j].sector # k
  <2>1. ASSUME NEW j \in Way, q.cache[j].sector = k PROVE j = i
    <3>1. OneWay(q)  BY DEF Sound
    <3>2. Cached(q, k) /\ WayOf(q, k) = j  BY <1>1, <2>1, <3>1, WayOnly
    <3>3. QED  BY <3>2
  <2>2. QED  BY <2>1
<1>6. OneWay(r)
  BY <1>1, <1>2, <1>5 DEF OneWay, Sound
<1>7. Shut(r)
  BY <1>1, <1>3, <1>4 DEF Shut, Sound, Describes
<1>8. \A s \in Slot : SectorOf(s) \in Sector /\ s \in SlotsOf(SectorOf(s))
  BY SlotSector
<1>9. ASSUME NEW s \in Usable(r, B2)
      PROVE  /\ "free" \in r.sum[SectorOf(s)]
             /\ \A j \in Way : r.cache[j].sector = SectorOf(s)
                                => r.cache[j].states[s] = "free"
  <2>1. s \in Slot /\ s \in B2 /\ ~Quarantined(r, SectorOf(s))  BY DEF Usable
  <2>2. CASE SectorOf(s) = k
    <3>1. "quarantined" \notin fl /\ s \in SlotsOf(k) /\ st[s] = "free"
      BY <1>4, <1>8, <2>1, <2>2
    <3>2. "free" \in r.sum[k]  BY <1>1, <1>3, <3>1 DEF Describes
    <3>3. QED  BY <1>2, <1>5, <2>2, <3>1, <3>2
  <2>3. CASE SectorOf(s) # k
    <3>1. s \in Usable(q, B)  BY <1>4, <1>8, <2>1, <2>3 DEF Usable
    <3>2. /\ "free" \in q.sum[SectorOf(s)]
          /\ \A j \in Way : q.cache[j].sector = SectorOf(s)
                             => q.cache[j].states[s] = "free"
      BY <3>1 DEF Sound, Visible, Flagged, Shown
    <3>3. QED  BY <1>2, <1>3, <1>8, <2>1, <2>3, <3>2
  <2>4. QED  BY <2>2, <2>3
<1>10. ASSUME NEW s \in D2
      PROVE  /\ "pending" \in r.sum[SectorOf(s)]
             /\ \A j \in Way : r.cache[j].sector = SectorOf(s)
                                => r.cache[j].states[s] = "pending"
  <2>1. s \in Slot  OBVIOUS
  <2>2. CASE SectorOf(s) = k
    <3>1. s \in SlotsOf(k) /\ st[s] = "pending"  BY <1>8, <2>2
    <3>2. "pending" \in r.sum[k]  BY <1>1, <1>3, <3>1 DEF Describes
    <3>3. QED  BY <1>2, <1>5, <2>2, <3>1, <3>2
  <2>3. CASE SectorOf(s) # k
    <3>1. s \in D  BY <2>1, <2>3
    <3>2. /\ "pending" \in q.sum[SectorOf(s)]
          /\ \A j \in Way : q.cache[j].sector = SectorOf(s)
                             => q.cache[j].states[s] = "pending"
      BY <3>1 DEF Sound, Visible, Flagged, Shown
    <3>3. QED  BY <1>2, <1>3, <1>8, <2>1, <2>3, <3>2
  <2>4. QED  BY <2>2, <2>3
<1>11. ASSUME NEW j \in Way, NEW s \in Slot,
              r.cache[j].sector = SectorOf(s),
              ~Quarantined(r, SectorOf(s)),
              r.cache[j].states[s] = "free"
       PROVE  s \in B2
  <2>1. CASE j = i
    BY <1>2, <1>4, <1>8, <1>11, <2>1
  <2>2. CASE j # i
    <3>1. r.cache[j] = q.cache[j] /\ SectorOf(s) # k  BY <1>2, <1>5, <1>11, <2>2
    <3>2. s \in B  BY <1>4, <1>8, <1>11, <3>1 DEF Sound, OnlyFree
    <3>3. QED  BY <3>1, <3>2
  <2>3. QED  BY <2>1, <2>2
<1>12. Visible(r, Usable(r, B2), "free") /\ Visible(r, D2, "pending")
  BY <1>9, <1>10 DEF Visible, Flagged, Shown
<1>13. OnlyFree(r, B2)  BY <1>11 DEF OnlyFree
<1>14. QED  BY <1>1, <1>6, <1>7, <1>12, <1>13 DEF Sound

(* A set of slots is finite, and no larger than the region.                *)
LEMMA SlotsCount ==
  ASSUME NEW S \in SUBSET Slot
  PROVE  IsFiniteSet(S) /\ Cardinality(S) \in 0 .. Capacity
<1>1. IsFiniteSet(S) /\ Cardinality(S) <= Cardinality(Slot)
  BY SlotsFinite, FS_Subset
<1>2. Cardinality(S) \in Nat  BY <1>1, FS_CardinalityType
<1>3. QED  BY <1>1, <1>2, SlotsFinite

LEMMA CountWithout ==
  ASSUME NEW S, NEW x \in S, IsFiniteSet(S)
  PROVE  Cardinality(S \ {x}) = Cardinality(S) - 1
BY FS_RemoveElement

LEMMA InFlashIs ==
  ASSUME NEW k \in Sector, flash \in [Slot -> Contents]
  PROVE  /\ InFlash(k) \in [SlotsOf(k) -> SlotState]
         /\ \A s \in SlotsOf(k) : InFlash(k)[s] = Classify(flash[s])
<1>1. \A s \in SlotsOf(k) : flash[s] \in Contents  BY SectorSlot
<1>2. QED  BY <1>1, ContentsAre DEF InFlash

LEMMA LoadShape ==
  ASSUME NEW q \in Ram, NEW k \in Sector, flash \in [Slot -> Contents]
  PROVE  /\ Cached(q, k) => Load(q, k) = q
         /\ ~Cached(q, k) =>
              /\ Relined(Load(q, k), q, q.next, k, InFlash(k),
                         Summary(InFlash(k), Quarantined(q, k)))
              /\ Load(q, k).free = q.free
<1>1. SUFFICES ASSUME ~Cached(q, k)
               PROVE  /\ Relined(Load(q, k), q, q.next, k, InFlash(k),
                         Summary(InFlash(k), Quarantined(q, k)))
                      /\ Load(q, k).free = q.free
  BY DEF Load
<1> DEFINE line == [sector |-> k, states |-> InFlash(k)]
           flags == Summary(InFlash(k), Quarantined(q, k))
           r == [q EXCEPT !.cache = [q.cache EXCEPT ![q.next] = line],
                          !.next = (q.next + 1) % CacheCount,
                          !.sum = [q.sum EXCEPT ![k] = flags]]
<1>2. Load(q, k) = r  BY <1>1 DEF Load
<1>3. line \in CacheLine  BY InFlashIs, LineIn
<1>4. Describes(flags, k, InFlash(k))
  <2>1. Quarantined(q, k) \in BOOLEAN  BY DEF Quarantined
  <2>2. QED  BY <2>1, InFlashIs, SummaryIs
<1>5. (q.next + 1) % CacheCount \in Way  BY RamIs, NextWayIn
<1> HIDE DEF line, flags
<1>6. /\ [q.cache EXCEPT ![q.next] = line] \in [Way -> CacheLine]
      /\ [q.sum EXCEPT ![k] = flags] \in [Sector -> SUBSET (SlotState \cup {"quarantined"})]
  BY <1>3, <1>4, RamIs DEF Describes
<1>7. r \in Ram  BY <1>5, <1>6 DEF Ram
<1>8. /\ r.cache = [q.cache EXCEPT ![q.next] = line]
      /\ r.sum = [q.sum EXCEPT ![k] = flags]
      /\ r.free = q.free
  BY DEF Ram
<1>9. Keeps(r, q)  BY DEF Ram, Keeps
<1> HIDE DEF r
<1>10. q.next \in Way /\ InFlash(k) \in [SlotsOf(k) -> SlotState]
  BY RamIs, InFlashIs
<1>11. Relined(r, q, q.next, k, InFlash(k), flags)
  BY <1>4, <1>7, <1>8, <1>9, <1>10 DEF Relined, line
<1>12. QED  BY <1>2, <1>8, <1>11 DEF flags

(* The same slots are in quarantine.                                       *)
Locks(r, q) == \A k \in Sector : Quarantined(r, k) <=> Quarantined(q, k)

LEMMA LiveSame ==
  ASSUME NEW q, NEW r, NEW B \in SUBSET Slot, Locks(r, q)
  PROVE  Usable(r, B) = Usable(q, B)
BY SlotSector DEF Usable, Locks

(* LoadSector keeps RAM sound, and leaves its sector in the cache.         *)
LEMMA LoadSound ==
  ASSUME NEW q, NEW k \in Sector, flash \in [Slot -> Contents],
         Sound(q, BlankSlots, DueSlots)
  PROVE  /\ Sound(Load(q, k), BlankSlots, DueSlots)
         /\ Cached(Load(q, k), k)
         /\ Keeps(Load(q, k), q)
         /\ Locks(Load(q, k), q)
         /\ Load(q, k).free = q.free
         /\ \A B \in SUBSET Slot : Usable(Load(q, k), B) = Usable(q, B)
<1>0. q \in Ram  BY DEF Sound
<1>1. CASE Cached(q, k)
  <2>1. Load(q, k) = q  BY <1>0, <1>1, LoadShape
  <2>2. Keeps(q, q) /\ Locks(q, q)  BY DEF Keeps, Locks
  <2>3. QED  BY <1>1, <2>1, <2>2
<1>2. CASE ~Cached(q, k)
  <2> DEFINE r == Load(q, k)
             st == InFlash(k)
             fl == Summary(st, Quarantined(q, k))
  <2>1. Relined(r, q, q.next, k, st, fl) /\ r.free = q.free
    BY <1>0, <1>2, LoadShape
  <2>2. st \in [SlotsOf(k) -> SlotState]  BY InFlashIs
  <2>3. "quarantined" \in fl <=> Quarantined(q, k)
    <3>1. Quarantined(q, k) \in BOOLEAN  BY DEF Quarantined
    <3>2. QED  BY <2>2, <3>1, SummaryIs
  <2>4. q.next \in Way  BY <1>0, RamIs
  <2>5. \A s \in SlotsOf(k) : s \in BlankSlots <=> st[s] = "free"
    BY InFlashIs, SectorSlot, ContentsAre DEF BlankSlots
  <2>6. \A s \in SlotsOf(k) : s \in DueSlots => st[s] = "pending"
    BY InFlashIs, SectorSlot, ContentsAre DEF DueSlots
  <2> HIDE DEF r, st, fl
  <2>7. /\ Quarantined(r, k) <=> "quarantined" \in fl
        /\ \A j \in Sector : j # k => (Quarantined(r, j) <=> Quarantined(q, j))
        /\ Cached(r, k)
    BY <2>1, RelinedIs
  <2>8. Locks(r, q)  BY <2>3, <2>7 DEF Locks
  <2>9. BlankSlots \in SUBSET Slot /\ DueSlots \in SUBSET Slot
    BY DEF BlankSlots, DueSlots
  <2>10. r.free = Cardinality(Usable(r, BlankSlots))
    BY <2>1, <2>8, <2>9, LiveSame DEF Sound
  <2>11. Sound(r, BlankSlots, DueSlots)
    BY <1>2, <2>1, <2>5, <2>6, <2>9, <2>10, RelinedSound
  <2>12. Keeps(r, q)  BY <2>1 DEF Relined
  <2>13. QED  BY <2>1, <2>7, <2>8, <2>11, <2>12, LiveSame DEF r
<1>3. QED  BY <1>1, <1>2

(* SetSlotState on a cached sector, for any state but "free".              *)
LEMMA SetSlotShape ==
  ASSUME NEW q \in Ram, NEW s \in Slot, NEW k \in Sector, k = SectorOf(s),
         NEW state \in SlotState \ {"free"},
         Cached(q, k),
         ~Quarantined(q, k) /\ SlotStates(q, k)[s] = "free" => q.free > 0
  PROVE  /\ Relined(SetSlot(q, s, state), q, WayOf(q, k), k,
                    [SlotStates(q, k) EXCEPT ![s] = state],
                    Summary([SlotStates(q, k) EXCEPT ![s] = state], Quarantined(q, k)))
         /\ SetSlot(q, s, state).free =
              IF ~Quarantined(q, k) /\ SlotStates(q, k)[s] = "free"
              THEN q.free - 1 ELSE q.free
<1> DEFINE st == [SlotStates(q, k) EXCEPT ![s] = state]
           i == WayOf(q, k)
           b == Quarantined(q, k)
           flags == Summary(st, b)
           lines == [q.cache EXCEPT ![i] = [sector |-> k, states |-> st]]
           free == IF ~b /\ SlotStates(q, k)[s] = "free" THEN q.free - 1 ELSE q.free
           r == [q EXCEPT !.free = free, !.cache = lines,
                          !.sum = [q.sum EXCEPT ![k] = flags]]
<1>1. s \in SlotsOf(k)  BY SlotSector
<1>2. SlotStates(q, k) \in [SlotsOf(k) -> SlotState]  BY StatesAre
<1>3. st \in [SlotsOf(k) -> SlotState]  BY <1>1, <1>2
<1>4. b \in BOOLEAN  BY DEF Quarantined
<1>5. Describes(flags, k, st)  BY <1>3, <1>4, SummaryIs
<1>6. i \in Way /\ q.cache[i].sector = k  BY WayIs
<1>7. lines \in [Way -> CacheLine]
  <2>1. [sector |-> k, states |-> st] \in CacheLine  BY <1>3, LineIn
  <2>2. QED  BY <2>1, RamIs
<1>8. [q.cache EXCEPT ![i].states = st] = lines
  <2>1. q.cache[i] \in CacheLine /\ q.cache \in [Way -> CacheLine]  BY <1>6, RamIs
  <2>2. PICK j \in Sector : q.cache[i] \in [sector : {j}, states : [SlotsOf(j) -> SlotState]]
    BY <1>6, <2>1, QueueAssumption DEF CacheLine, NoWay, Sector
  <2>3. [q.cache[i] EXCEPT !.states = st] = [sector |-> k, states |-> st]
    BY <1>6, <2>2
  <2>4. [q.cache EXCEPT ![i].states = st] = [q.cache EXCEPT ![i] = [q.cache[i] EXCEPT !.states = st]]
    BY <1>6, <2>1
  <2>5. QED  BY <2>3, <2>4
<1>9. free \in 0 .. Capacity
  <2>1. q.free \in 0 .. Capacity /\ Capacity \in Nat  BY RamIs, SlotsFinite
  <2>2. CASE ~b /\ SlotStates(q, k)[s] = "free"  BY <2>1, <2>2
  <2>3. CASE ~(~b /\ SlotStates(q, k)[s] = "free")  BY <2>1, <2>3
  <2>4. QED  BY <2>2, <2>3
<1>10. SetSlot(q, s, state) = r
  BY <1>8 DEF SetSlot
<1> HIDE DEF st, i, b, flags, lines, free
<1>11. [q.sum EXCEPT ![k] = flags] \in [Sector -> SUBSET (SlotState \cup {"quarantined"})]
  BY <1>5, RamIs DEF Describes
<1>12. r \in Ram  BY <1>7, <1>9, <1>11 DEF Ram
<1>13. /\ r.cache = lines
       /\ r.sum = [q.sum EXCEPT ![k] = flags]
       /\ r.free = free
  BY DEF Ram
<1>14. Keeps(r, q)  BY DEF Ram, Keeps
<1> HIDE DEF r
<1>15. Relined(r, q, i, k, st, flags)
  BY <1>3, <1>5, <1>6, <1>12, <1>13, <1>14 DEF Relined, lines
<1>16. QED  BY <1>10, <1>13, <1>15 DEF st, i, b, free, flags

(* SetSlotState keeps RAM sound for whatever the slot may then hold, if it *)
(* is not blank, and due only under the state "pending".                   *)
LEMMA SetSlotSound ==
  ASSUME NEW B \in SUBSET Slot, NEW D \in SUBSET Slot, NEW D2 \in SUBSET Slot,
         NEW q, Sound(q, B, D),
         NEW s \in Slot, NEW state \in SlotState \ {"free"},
         Cached(q, SectorOf(s)),
         D2 \subseteq D \cup {s},
         s \in D2 => state = "pending"
  PROVE  /\ Sound(SetSlot(q, s, state), B \ {s}, D2)
         /\ Keeps(SetSlot(q, s, state), q)
         /\ Locks(SetSlot(q, s, state), q)
         /\ Cached(SetSlot(q, s, state), SectorOf(s))
<1> DEFINE k == SectorOf(s)
           st == [SlotStates(q, k) EXCEPT ![s] = state]
           i == WayOf(q, k)
           b == Quarantined(q, k)
           fl == Summary(st, b)
           r == SetSlot(q, s, state)
<1>1. q \in Ram  BY DEF Sound
<1>2. k \in Sector /\ s \in SlotsOf(k)  BY SlotSector
<1>3. SlotStates(q, k) \in [SlotsOf(k) -> SlotState]  BY <1>1, <1>2, StatesAre
<1>4. st \in [SlotsOf(k) -> SlotState]  BY <1>2, <1>3
<1>5. b \in BOOLEAN  BY DEF Quarantined
<1>6. i \in Way /\ q.cache[i].sector = k /\ SlotStates(q, k) = q.cache[i].states
  BY WayIs DEF SlotStates
<1>7. ASSUME NEW x \in SlotsOf(k)
      PROVE  /\ ~b => (x \in B <=> SlotStates(q, k)[x] = "free")
             /\ x \in D => SlotStates(q, k)[x] = "pending"
  <2>1. x \in Slot /\ SectorOf(x) = k  BY <1>2, SectorSlot
  <2>2. x \in D => SlotStates(q, k)[x] = "pending"
    BY <1>6, <2>1 DEF Sound, Visible, Shown
  <2>3. ~b /\ x \in B => SlotStates(q, k)[x] = "free"
    BY <1>6, <2>1 DEF Sound, Visible, Shown, Usable
  <2>4. ~b /\ SlotStates(q, k)[x] = "free" => x \in B
    BY <1>6, <2>1 DEF Sound, OnlyFree
  <2>5. QED  BY <2>2, <2>3, <2>4
<1>8. IsFiniteSet(Usable(q, B)) /\ q.free = Cardinality(Usable(q, B)) /\ q.free \in Nat
  <2>1. Usable(q, B) \in SUBSET Slot  BY DEF Usable
  <2>2. QED  BY <2>1, SlotsCount DEF Sound
<1>9. ASSUME ~b /\ SlotStates(q, k)[s] = "free" PROVE s \in Usable(q, B) /\ q.free > 0
  <2>1. s \in Usable(q, B)  BY <1>2, <1>7, <1>9 DEF Usable
  <2>2. Cardinality(Usable(q, B)) # 0  BY <1>8, <2>1, FS_EmptySet
  <2>3. QED  BY <1>8, <2>1, <2>2
<1>10. /\ Relined(r, q, i, k, st, fl)
       /\ r.free = IF ~b /\ SlotStates(q, k)[s] = "free" THEN q.free - 1 ELSE q.free
  BY <1>1, <1>2, <1>9, SetSlotShape
<1>11. "quarantined" \in fl <=> b  BY <1>2, <1>4, <1>5, SummaryIs
<1> HIDE DEF k, st, i, fl, r
<1>12. Locks(r, q) /\ Cached(r, k)
  <2>1. /\ Quarantined(r, k) <=> "quarantined" \in fl
        /\ \A j \in Sector : j # k => (Quarantined(r, j) <=> Quarantined(q, j))
        /\ Cached(r, k)
    BY <1>10, RelinedIs
  <2>2. QED  BY <1>11, <2>1 DEF Locks
<1>13. Usable(r, B \ {s}) = Usable(q, B) \ {s}
  <2>1. Usable(r, B \ {s}) = Usable(q, B \ {s})  BY <1>12, LiveSame
  <2>2. QED  BY <2>1 DEF Usable
<1>14. r.free = Cardinality(Usable(r, B \ {s}))
  <2>1. CASE ~b /\ SlotStates(q, k)[s] = "free"
    <3>1. s \in Usable(q, B)  BY <1>9, <2>1
    <3>2. Cardinality(Usable(q, B) \ {s}) = Cardinality(Usable(q, B)) - 1
      BY <1>8, <3>1, CountWithout
    <3>3. QED  BY <1>8, <1>10, <1>13, <2>1, <3>2
  <2>2. CASE ~(~b /\ SlotStates(q, k)[s] = "free")
    <3>1. s \notin Usable(q, B)  BY <1>2, <1>7, <2>2 DEF Usable, k
    <3>2. Usable(q, B) \ {s} = Usable(q, B)  BY <3>1
    <3>3. QED  BY <1>8, <1>10, <1>13, <2>2, <3>2
  <2>3. QED  BY <2>1, <2>2
<1>15. "quarantined" \notin fl => \A x \in SlotsOf(k) : x \in B \ {s} <=> st[x] = "free"
  BY <1>2, <1>3, <1>7, <1>11 DEF st
<1>16. \A x \in SlotsOf(k) : x \in D2 => st[x] = "pending"
  BY <1>2, <1>3, <1>7 DEF st
<1>17. \A x \in Slot : SectorOf(x) # k => (x \in B \ {s} <=> x \in B)
  BY DEF k
<1>18. \A x \in Slot : SectorOf(x) # k => (x \in D2 => x \in D)
  BY DEF k
<1>19. B \ {s} \in SUBSET Slot  OBVIOUS
<1>20. Cached(q, k) => i = WayOf(q, k)  BY DEF i
<1>21. Sound(r, B \ {s}, D2)
  BY <1>10, <1>14, <1>15, <1>16, <1>17, <1>18, <1>19, <1>20, RelinedSound
<1>22. QED  BY <1>10, <1>12, <1>21 DEF Relined, k, r

LEMMA CountDifference ==
  ASSUME NEW S, NEW T, IsFiniteSet(S)
  PROVE  /\ Cardinality(S \ T) = Cardinality(S) - Cardinality(S \cap T)
         /\ Cardinality(S) \in Nat
         /\ Cardinality(S \ T) \in Nat
<1>1. IsFiniteSet(S \ T)  BY FS_Difference
<1>2. QED  BY <1>1, FS_Difference, FS_CardinalityType

(* Two sets of slots agree outside one sector.                              *)
Outside(k, B2, B) == \A s \in Slot : SectorOf(s) # k => (s \in B2 <=> s \in B)

(* Quarantine of a cached sector, whatever its slots hold from then on.    *)
LEMMA QuarantineSound ==
  ASSUME NEW B \in SUBSET Slot, NEW D \in SUBSET Slot,
         NEW B2 \in SUBSET Slot, NEW D2 \in SUBSET Slot,
         NEW q, Sound(q, B, D), NEW k \in Sector, Cached(q, k),
         Outside(k, B2, B),
         D2 \subseteq D
  PROVE  /\ Sound(Quarantine(q, k), B2, D2)
         /\ Keeps(Quarantine(q, k), q)
         /\ Quarantined(Quarantine(q, k), k)
         /\ Cached(Quarantine(q, k), k)
         /\ \A j \in Sector :
              j # k => (Quarantined(Quarantine(q, k), j) <=> Quarantined(q, j))
<1> DEFINE st == SlotStates(q, k)
           i == WayOf(q, k)
           b == Quarantined(q, k)
           fl == Summary(st, TRUE)
           free == IF b THEN q.free ELSE q.free - FreeIn(q, k)
           flags == [q.sum EXCEPT ![k] = fl]
           r == [q EXCEPT !.free = free, !.sum = flags]
<1>1. q \in Ram  BY DEF Sound
<1>2. st \in [SlotsOf(k) -> SlotState]  BY <1>1, StatesAre
<1>3. Quarantine(q, k) = r  BY DEF Quarantine
<1>4. i \in Way /\ q.cache[i].sector = k /\ st = q.cache[i].states
  BY WayIs DEF SlotStates
<1>5. Describes(fl, k, st) /\ "quarantined" \in fl
  BY <1>2, SummaryIs
<1>6. ASSUME NEW x \in SlotsOf(k)
      PROVE  /\ ~b => (x \in B <=> st[x] = "free")
             /\ x \in D => st[x] = "pending"
  <2>1. x \in Slot /\ SectorOf(x) = k  BY SectorSlot
  <2>2. x \in D => st[x] = "pending"
    BY <1>4, <2>1 DEF Sound, Visible, Shown
  <2>3. ~b /\ x \in B => st[x] = "free"
    BY <1>4, <2>1 DEF Sound, Visible, Shown, Usable
  <2>4. ~b /\ st[x] = "free" => x \in B
    BY <1>4, <2>1 DEF Sound, OnlyFree
  <2>5. QED  BY <2>2, <2>3, <2>4
<1>7. Usable(q, B) \in SUBSET Slot  BY DEF Usable
<1>8. IsFiniteSet(Usable(q, B)) /\ q.free = Cardinality(Usable(q, B))
  BY <1>7, SlotsCount DEF Sound
<1> DEFINE rest == Usable(q, B) \ SlotsOf(k)
<1>9. free = Cardinality(rest)
  <2>1. CASE b
    <3>1. rest = Usable(q, B)  BY <2>1, SectorSlot DEF Usable
    <3>2. QED  BY <1>8, <2>1, <3>1
  <2>2. CASE ~b
    <3>1. {s \in SlotsOf(k) : st[s] = "free"} = Usable(q, B) \cap SlotsOf(k)
      BY <1>6, <2>2, SectorSlot DEF Usable
    <3>2. FreeIn(q, k) = Cardinality(Usable(q, B) \cap SlotsOf(k))
      BY <3>1 DEF FreeIn
    <3>3. Cardinality(rest) = Cardinality(Usable(q, B)) - Cardinality(Usable(q, B) \cap SlotsOf(k))
      BY <1>8, CountDifference
    <3>4. QED  BY <1>8, <2>2, <3>2, <3>3
  <2>3. QED  BY <2>1, <2>2
<1>10. free \in 0 .. Capacity
  <2>1. rest \in SUBSET Slot  BY <1>7
  <2>2. QED  BY <1>9, <2>1, SlotsCount
<1>11. q.cache = [q.cache EXCEPT ![i] = [sector |-> k, states |-> st]]
  <2>1. q.cache[i] \in CacheLine /\ q.cache \in [Way -> CacheLine]  BY <1>1, <1>4, RamIs
  <2>2. PICK j \in Sector : q.cache[i] \in [sector : {j}, states : [SlotsOf(j) -> SlotState]]
    BY <1>4, <2>1, QueueAssumption DEF CacheLine, NoWay, Sector
  <2>3. q.cache[i] = [sector |-> k, states |-> st]
    BY <1>4, <2>2
  <2>4. QED  BY <1>4, <2>1, <2>3
<1> HIDE DEF st, i, b, fl, free, rest
<1>12. flags \in [Sector -> SUBSET (SlotState \cup {"quarantined"})]
  BY <1>1, <1>5, RamIs DEF Describes
<1> HIDE DEF flags
<1>13. r \in Ram  BY <1>1, <1>10, <1>12 DEF Ram
<1>14. /\ r.cache = q.cache
       /\ r.sum = flags
       /\ r.free = free
  BY <1>1 DEF Ram
<1>15. Keeps(r, q)  BY <1>1 DEF Ram, Keeps
<1> HIDE DEF r
<1>16. Relined(r, q, i, k, st, fl)
  BY <1>1, <1>2, <1>4, <1>5, <1>11, <1>13, <1>14, <1>15 DEF Relined, flags
<1>17. /\ Quarantined(r, k)
       /\ \A j \in Sector : j # k => (Quarantined(r, j) <=> Quarantined(q, j))
       /\ Cached(r, k)
  BY <1>5, <1>16, RelinedIs
<1>18. Usable(r, B2) = rest
  <2>1. \A s \in Slot : SectorOf(s) \in Sector /\ s \in SlotsOf(SectorOf(s))
    BY SlotSector
  <2>2. \A s \in SlotsOf(k) : SectorOf(s) = k  BY SectorSlot
  <2>3. \A x \in Slot : SectorOf(x) # k => (x \in B2 <=> x \in B)
    BY DEF Outside
  <2>4. \A s \in Slot : s \in Usable(r, B2) <=> s \in rest
    BY <1>17, <2>1, <2>2, <2>3 DEF Usable, rest
  <2>5. Usable(r, B2) \subseteq Slot /\ rest \subseteq Slot  BY <1>7 DEF Usable, rest
  <2>6. QED  BY <2>4, <2>5
<1>19. r.free = Cardinality(Usable(r, B2))  BY <1>9, <1>14, <1>18
<1>20. \A x \in SlotsOf(k) : x \in D2 => st[x] = "pending"  BY <1>6
<1>21. \A x \in Slot : SectorOf(x) # k => (x \in D2 => x \in D)  OBVIOUS
<1>22. Cached(q, k) => i = WayOf(q, k)  BY DEF i
<1>23. \A x \in Slot : SectorOf(x) # k => (x \in B2 <=> x \in B)  BY DEF Outside
<1>24. Sound(r, B2, D2)
  BY <1>5, <1>16, <1>19, <1>20, <1>21, <1>22, <1>23, RelinedSound
<1>25. QED  BY <1>3, <1>15, <1>17, <1>24

(* The end of a reclaim: the quarantined sector comes back erased.         *)
Freed(q, k) ==
  [q EXCEPT !.free = @ + SectorSlots,
            !.cache[WayOf(q, k)].states = [s \in SlotsOf(k) |-> "free"],
            !.sum[k] = {"free"}]

LEMMA FreedSound ==
  ASSUME NEW B \in SUBSET Slot, NEW D \in SUBSET Slot,
         NEW B2 \in SUBSET Slot, NEW D2 \in SUBSET Slot,
         NEW q, Sound(q, B, D), NEW k \in Sector,
         Cached(q, k), Quarantined(q, k),
         \A s \in Slot : SectorOf(s) # k => (s \in B2 <=> s \in B),
         SlotsOf(k) \subseteq B2,
         D2 \subseteq D, D2 \cap SlotsOf(k) = {}
  PROVE  Sound(Freed(q, k), B2, D2) /\ Keeps(Freed(q, k), q)
<1> DEFINE st == [s \in SlotsOf(k) |-> "free"]
           i == WayOf(q, k)
           fl == {"free"}
           free == q.free + SectorSlots
           lines == [q.cache EXCEPT ![i] = [sector |-> k, states |-> st]]
           flags == [q.sum EXCEPT ![k] = fl]
           r == [q EXCEPT !.free = free, !.cache = lines, !.sum = flags]
<1>1. q \in Ram  BY DEF Sound
<1>2. /\ st \in [SlotsOf(k) -> SlotState]
      /\ \A x \in SlotsOf(k) : st[x] = "free"
  BY DEF SlotState
<1>3. i \in Way /\ q.cache[i].sector = k  BY WayIs
<1>4. Describes(fl, k, st) /\ "quarantined" \notin fl
  BY <1>2 DEF Describes, SlotState
<1>5. [q.cache EXCEPT ![i].states = st] = lines
  <2>1. q.cache[i] \in CacheLine /\ q.cache \in [Way -> CacheLine]  BY <1>1, <1>3, RamIs
  <2>2. PICK j \in Sector : q.cache[i] \in [sector : {j}, states : [SlotsOf(j) -> SlotState]]
    BY <1>3, <2>1, QueueAssumption DEF CacheLine, NoWay, Sector
  <2>3. [q.cache[i] EXCEPT !.states = st] = [sector |-> k, states |-> st]
    BY <1>3, <2>2
  <2>4. [q.cache EXCEPT ![i].states = st] = [q.cache EXCEPT ![i] = [q.cache[i] EXCEPT !.states = st]]
    BY <1>3, <2>1
  <2>5. QED  BY <2>3, <2>4
<1>6. Freed(q, k) = r  BY <1>5 DEF Freed
<1>7. Usable(q, B) \in SUBSET Slot  BY DEF Usable
<1>8. IsFiniteSet(Usable(q, B)) /\ q.free = Cardinality(Usable(q, B)) /\ q.free \in Nat
  BY <1>7, SlotsCount DEF Sound
<1> DEFINE all == Usable(q, B) \cup SlotsOf(k)
<1>9. free = Cardinality(all)
  <2>1. Usable(q, B) \cap SlotsOf(k) = {}  BY SectorSlot DEF Usable
  <2>2. IsFiniteSet(SlotsOf(k)) /\ Cardinality(SlotsOf(k)) = SectorSlots
    BY BlockFinite
  <2>3. Cardinality(all)
          = Cardinality(Usable(q, B)) + Cardinality(SlotsOf(k))
              - Cardinality(Usable(q, B) \cap SlotsOf(k))
    BY <1>8, <2>2, FS_Union
  <2>4. Cardinality(Usable(q, B) \cap SlotsOf(k)) = 0  BY <2>1, FS_EmptySet
  <2>5. SectorSlots \in Nat  BY QueueAssumption
  <2>6. QED  BY <1>8, <2>2, <2>3, <2>4, <2>5
<1>10. all \in SUBSET Slot  BY <1>7, SectorSlot
<1>11. free \in 0 .. Capacity  BY <1>9, <1>10, SlotsCount
<1>12. lines \in [Way -> CacheLine]
  <2>1. [sector |-> k, states |-> st] \in CacheLine  BY <1>2, LineIn
  <2>2. QED  BY <1>1, <2>1, RamIs
<1>13. flags \in [Sector -> SUBSET (SlotState \cup {"quarantined"})]
  BY <1>1, <1>4, RamIs DEF Describes
<1> HIDE DEF st, i, fl, free, lines, flags, all
<1>14. r \in Ram  BY <1>1, <1>11, <1>12, <1>13 DEF Ram
<1>15. /\ r.cache = lines
       /\ r.sum = flags
       /\ r.free = free
  BY <1>1 DEF Ram
<1>16. Keeps(r, q)  BY <1>1 DEF Ram, Keeps
<1> HIDE DEF r
<1>17. Relined(r, q, i, k, st, fl)
  BY <1>1, <1>2, <1>3, <1>4, <1>14, <1>15, <1>16 DEF Relined, flags, lines
<1>18. /\ ~Quarantined(r, k)
       /\ \A j \in Sector : j # k => (Quarantined(r, j) <=> Quarantined(q, j))
  BY <1>4, <1>17, RelinedIs
<1>19. Usable(r, B2) = all
  <2>1. \A s \in Slot : SectorOf(s) \in Sector /\ s \in SlotsOf(SectorOf(s))
    BY SlotSector
  <2>2. \A s \in SlotsOf(k) : SectorOf(s) = k  BY SectorSlot
  <2>3. \A s \in Slot : s \in Usable(r, B2) <=> s \in all
    BY <1>18, <2>1, <2>2 DEF Usable, all
  <2>4. Usable(r, B2) \subseteq Slot  BY DEF Usable
  <2>5. QED  BY <1>10, <2>3, <2>4
<1>20. r.free = Cardinality(Usable(r, B2))  BY <1>9, <1>15, <1>19
<1>21. \A x \in SlotsOf(k) : x \in D2 => st[x] = "pending"  OBVIOUS
<1>22. \A x \in SlotsOf(k) : x \in B2 <=> st[x] = "free"  BY <1>2
<1>23. \A x \in Slot : SectorOf(x) # k => (x \in D2 => x \in D)  OBVIOUS
<1>24. Cached(q, k) => i = WayOf(q, k)  BY DEF i
<1>25. Sound(r, B2, D2)
  BY <1>17, <1>20, <1>21, <1>22, <1>23, <1>24, RelinedSound
<1>26. QED  BY <1>6, <1>16, <1>25

-----------------------------------------------------------------------------
(* FindSlot *)

(* The slots a search for this state must not overlook.                    *)
Targets(q, state) == IF state = "free" THEN Usable(q, BlankSlots) ELSE DueSlots

(* What FindSlot answers on a sound RAM.                                   *)
Found(f, q, state) ==
  /\ Sound(f.first, BlankSlots, DueSlots) /\ Keeps(f.first, q) /\ Locks(f.first, q)
  /\ Sound(f.q, BlankSlots, DueSlots) /\ Keeps(f.q, q) /\ Locks(f.q, q)
  /\ f.st \in {"ok", "none", "busy", "state"}
  /\ f.st = "ok" =>
       /\ f.slot \in Slot
       /\ Cached(f.q, SectorOf(f.slot))
       /\ SlotStates(f.q, SectorOf(f.slot))[f.slot] = state
       /\ state \in f.q.sum[SectorOf(f.slot)]

(* A sector with a target has the flag, and its target once it is cached.  *)
LEMMA TargetSeen ==
  ASSUME NEW q, Sound(q, BlankSlots, DueSlots),
         NEW state \in {"free", "pending"},
         NEW s \in Targets(q, state)
  PROVE  /\ s \in Slot
         /\ state \in q.sum[SectorOf(s)]
         /\ Cached(q, SectorOf(s)) => s \in Wanted(q, SectorOf(s), state)
<1>1. s \in Slot  BY DEF Targets, Usable, BlankSlots, DueSlots
<1>2. SectorOf(s) \in Sector /\ s \in SlotsOf(SectorOf(s))  BY <1>1, SlotSector
<1>3. Visible(q, Targets(q, state), state)  BY DEF Targets, Sound
<1>4. state \in q.sum[SectorOf(s)]  BY <1>3 DEF Visible, Flagged
<1>5. ASSUME Cached(q, SectorOf(s)) PROVE s \in Wanted(q, SectorOf(s), state)
  <2>1. /\ WayOf(q, SectorOf(s)) \in Way
        /\ q.cache[WayOf(q, SectorOf(s))].sector = SectorOf(s)
    BY <1>5, WayIs
  <2>2. SlotStates(q, SectorOf(s))[s] = state
    BY <1>3, <2>1 DEF Visible, Shown, SlotStates
  <2>3. QED  BY <1>2, <2>2 DEF Wanted
<1>6. QED  BY <1>1, <1>4, <1>5

LEMMA TargetsKept ==
  ASSUME NEW q, NEW r, Locks(r, q), NEW state
  PROVE  Targets(r, state) = Targets(q, state)
<1>1. BlankSlots \in SUBSET Slot  BY DEF BlankSlots
<1>2. Usable(r, BlankSlots) = Usable(q, BlankSlots)  BY <1>1, LiveSame
<1>3. QED  BY <1>2 DEF Targets

LEMMA KeepsChain ==
  ASSUME NEW q, NEW r, NEW z, Keeps(z, r), Locks(z, r), Keeps(r, q), Locks(r, q)
  PROVE  Keeps(z, q) /\ Locks(z, q)
BY DEF Keeps, Locks

(* The passes after the first.  When they find nothing, nothing is left    *)
(* but, in the first sector, from start on.                                *)
LEMMA SearchFinds ==
  ASSUME NEW q, Sound(q, BlankSlots, DueSlots), flash \in [Slot -> Contents],
         NEW start \in Slot, NEW state \in {"free", "pending"}
  PROVE  /\ Found(Search(q, start, state), q, state)
         /\ Search(q, start, state).st = "none" =>
              \A t \in Targets(q, state) : SectorOf(t) = SectorOf(start) /\ t >= start
<1> DEFINE passes == Passes(q, start, state)
           p == Lowest(passes)
           k == (SectorOf(start) + p) % Sectors
           r == Load(q, k)
           hits == {s \in Wanted(r, k, state) : p = Sectors => s < start}
           f == Search(q, start, state)
<1>1. q \in Ram /\ Keeps(q, q) /\ Locks(q, q)  BY DEF Sound, Keeps, Locks
<1>2. SectorOf(start) \in Sector  BY SlotSector
<1>3. \A t \in Targets(q, state) :
        /\ t \in Slot
        /\ state \in q.sum[SectorOf(t)]
        /\ \E n \in passes : (SectorOf(start) + n) % Sectors = SectorOf(t)
  <2> SUFFICES ASSUME NEW t \in Targets(q, state)
               PROVE  /\ t \in Slot
                      /\ state \in q.sum[SectorOf(t)]
                      /\ \E n \in passes : (SectorOf(start) + n) % Sectors = SectorOf(t)
    OBVIOUS
  <2>1. t \in Slot /\ state \in q.sum[SectorOf(t)]  BY TargetSeen
  <2>2. SectorOf(t) \in Sector  BY <2>1, SlotSector
  <2>3. PICK n \in 1 .. Sectors : (SectorOf(start) + n) % Sectors = SectorOf(t)
    BY <1>2, <2>2, PassReaches
  <2>4. n \in passes  BY <2>1, <2>3 DEF Passes
  <2>5. QED  BY <2>1, <2>3, <2>4
<1>4. CASE passes = {}
  <2>1. f.first = q /\ f.q = q /\ f.st = "none"  BY <1>4 DEF Search
  <2>2. Targets(q, state) = {}  BY <1>3, <1>4
  <2>3. QED  BY <1>1, <2>1, <2>2 DEF Found
<1>5. CASE passes # {}
  <2>1. p \in passes /\ \A n \in passes : p <= n
    <3>1. passes \in SUBSET Nat  BY QueueAssumption DEF Passes
    <3>2. QED  BY <1>5, <3>1, LowestIs
  <2>2. p \in 1 .. Sectors /\ k \in Sector
    <3>1. passes \subseteq 1 .. Sectors  BY DEF Passes
    <3> HIDE DEF p, passes
    <3>2. p \in 1 .. Sectors  BY <2>1, <3>1
    <3>3. p \in Nat  BY <3>2, QueueAssumption
    <3>4. QED  BY <1>2, <3>2, <3>3, PassIn
  <2>3. /\ f.first = q /\ f.q = r
        /\ f.slot = IF hits = {} THEN start ELSE Lowest(hits)
        /\ f.st = IF state \notin r.sum[k] THEN "busy"
                  ELSE IF hits # {} THEN "ok"
                  ELSE IF p = Sectors THEN "none"
                  ELSE "state"
    BY <1>5 DEF Search
  <2> HIDE DEF f, p, k, passes
  <2>4. /\ Sound(r, BlankSlots, DueSlots) /\ Cached(r, k)
        /\ Keeps(r, q) /\ Locks(r, q)
    BY <2>2, LoadSound
  <2> HIDE DEF r
  <2>5. f.st = "ok" =>
          /\ f.slot \in Slot /\ SectorOf(f.slot) = k
          /\ SlotStates(r, k)[f.slot] = state
          /\ state \in r.sum[k]
    <3> SUFFICES ASSUME f.st = "ok"
                 PROVE  /\ f.slot \in Slot /\ SectorOf(f.slot) = k
                        /\ SlotStates(r, k)[f.slot] = state
                        /\ state \in r.sum[k]
      OBVIOUS
    <3>1. hits # {} /\ state \in r.sum[k]  BY <2>3
    <3>2. \A s \in hits : s \in SlotsOf(k) /\ SlotStates(r, k)[s] = state
      BY DEF Wanted
    <3>3. \A s \in hits : s \in Slot /\ SectorOf(s) = k
      BY <2>2, <3>2, SectorSlot
    <3>4. f.slot = Lowest(hits)  BY <2>3, <3>1
    <3> HIDE DEF hits
    <3>5. hits \in SUBSET Nat  BY <3>3 DEF Slot
    <3>6. f.slot \in hits  BY <3>1, <3>4, <3>5, LowestIs
    <3>7. QED  BY <3>1, <3>2, <3>3, <3>6
  <2>6. f.st \in {"ok", "none", "busy", "state"}  BY <2>3
  <2>7. Found(f, q, state)
    BY <1>1, <2>3, <2>4, <2>5, <2>6 DEF Found
  <2>8. ASSUME f.st = "none", NEW t \in Targets(q, state)
        PROVE  SectorOf(t) = SectorOf(start) /\ t >= start
    <3>1. p = Sectors /\ hits = {}  BY <2>3, <2>8
    <3>2. PICK n \in passes : (SectorOf(start) + n) % Sectors = SectorOf(t)
      BY <1>3
    <3>3. n = Sectors
      BY <2>1, <3>1, <3>2, QueueAssumption DEF passes, Passes
    <3>4. SectorOf(t) = SectorOf(start)  BY <1>2, <3>2, <3>3, LastPass
    <3>5. k = SectorOf(start)  BY <1>2, <3>1, LastPass DEF k
    <3>6. t \in Targets(r, state)  BY <2>4, TargetsKept
    <3>7. t \in Wanted(r, k, state)  BY <2>4, <3>4, <3>5, <3>6, TargetSeen
    <3>8. t \in Slot  BY <1>3
    <3>9. ~(t < start)  BY <3>1, <3>7
    <3>10. QED  BY <3>4, <3>8, <3>9 DEF Slot
  <2>9. QED  BY <2>7, <2>8 DEF f
<1>6. QED  BY <1>4, <1>5

(* FindSlot answers "none" only when there is nothing to find.             *)
LEMMA FindFinds ==
  ASSUME NEW q, Sound(q, BlankSlots, DueSlots), flash \in [Slot -> Contents],
         NEW start \in Slot, NEW state \in {"free", "pending"}
  PROVE  /\ Found(Find(q, start, state), q, state)
         /\ Find(q, start, state).st = "none" => Targets(q, state) = {}
<1> DEFINE k == SectorOf(start)
           r == Load(q, k)
           hits == {s \in Wanted(r, k, state) : s >= start}
           f == Find(q, start, state)
<1>1. k \in Sector  BY SlotSector
<1>2. /\ Sound(r, BlankSlots, DueSlots) /\ Cached(r, k)
      /\ Keeps(r, q) /\ Locks(r, q)
  BY <1>1, LoadSound
<1>3. CASE state \notin q.sum[k]
  <2>1. f = Search(q, start, state)  BY <1>3 DEF Find
  <2>2. ASSUME f.st = "none", NEW t \in Targets(q, state) PROVE FALSE
    <3>1. SectorOf(t) = k  BY <2>1, <2>2, SearchFinds
    <3>2. state \in q.sum[SectorOf(t)]  BY TargetSeen
    <3>3. QED  BY <1>3, <3>1, <3>2
  <2>3. QED  BY <2>1, <2>2, SearchFinds
<1>4. CASE state \in q.sum[k] /\ state \notin r.sum[k]
  <2>1. f.first = r /\ f.q = r /\ f.st = "busy"  BY <1>4 DEF Find
  <2>2. QED  BY <1>2, <2>1 DEF Found
<1>5. CASE state \in q.sum[k] /\ state \in r.sum[k] /\ hits # {}
  <2>1. f.first = r /\ f.q = r /\ f.st = "ok" /\ f.slot = Lowest(hits)
    BY <1>5 DEF Find
  <2>2. \A s \in hits : s \in SlotsOf(k) /\ SlotStates(r, k)[s] = state
    BY DEF Wanted
  <2>3. \A s \in hits : s \in Slot /\ SectorOf(s) = k
    BY <1>1, <2>2, SectorSlot
  <2> HIDE DEF hits, f, r, k
  <2>4. hits \in SUBSET Nat  BY <2>3 DEF Slot
  <2>5. f.slot \in hits  BY <1>5, <2>1, <2>4, LowestIs
  <2>6. Found(f, q, state)
    BY <1>2, <1>5, <2>1, <2>2, <2>3, <2>5 DEF Found
  <2>7. QED  BY <2>1, <2>6 DEF f
<1>6. CASE state \in q.sum[k] /\ state \in r.sum[k] /\ hits = {}
  <2>1. f = Search(r, start, state)  BY <1>6 DEF Find
  <2> HIDE DEF f, r
  <2>2. /\ Found(f, r, state)
        /\ f.st = "none" =>
             \A t \in Targets(r, state) : SectorOf(t) = SectorOf(start) /\ t >= start
    BY <1>2, <2>1, SearchFinds
  <2>3. Found(f, q, state)
    BY <1>2, <2>2, KeepsChain DEF Found
  <2>4. ASSUME f.st = "none", NEW t \in Targets(q, state) PROVE FALSE
    <3>1. t \in Targets(r, state)  BY <1>2, TargetsKept
    <3>2. SectorOf(t) = k /\ t >= start  BY <2>2, <2>4, <3>1
    <3>3. t \in Wanted(r, k, state)  BY <1>2, <3>1, <3>2, TargetSeen
    <3>4. QED  BY <1>6, <3>2, <3>3
  <2>5. QED  BY <2>3, <2>4 DEF f
<1>7. QED  BY <1>3, <1>4, <1>5, <1>6

-----------------------------------------------------------------------------
(* The steps *)

LEMMA OffIs == Off \in Ram /\ ~Off.ready /\ ~Off.pinned
<1>1. NoAck.slot = 0 /\ NoAck.id = NoId /\ NoAck \in [slot : Slot, id : Identity \cup {NoId}]
  BY ZeroIn DEF NoAck
<1>2. [i \in Way |-> NoWay] \in [Way -> CacheLine]  BY DEF CacheLine
<1>3. 0 \in 0 .. Capacity /\ 0 \in 0 .. EpochMax /\ 0 \in 0 .. SeqMax
  BY SlotsFinite, QueueAssumption
<1>4. [k \in Sector |-> {}] \in [Sector -> SUBSET (SlotState \cup {"quarantined"})]
  OBVIOUS
<1>5. QED  BY <1>1, <1>2, <1>3, <1>4, ZeroIn DEF Off, Ram

(* The fields Sound does not look at.                                      *)
LEMMA SameSound ==
  ASSUME NEW q, NEW r, NEW B, NEW D, NEW D2,
         Sound(q, B, D), r \in Ram,
         r.cache = q.cache, r.sum = q.sum, r.free = q.free,
         D2 \subseteq D
  PROVE  Sound(r, B, D2)
<1>1. \A k : Quarantined(r, k) <=> Quarantined(q, k)  BY DEF Quarantined
<1>2. Usable(r, B) = Usable(q, B)  BY <1>1 DEF Usable
<1>3. OneWay(r)  BY DEF OneWay, Sound
<1>4. Shut(r)  BY DEF Shut, Quarantined, Sound
<1>5. Visible(r, Usable(r, B), "free") /\ Visible(r, D2, "pending")
  BY <1>2 DEF Visible, Flagged, Shown, Sound
<1>6. OnlyFree(r, B)  BY <1>1 DEF OnlyFree, Sound
<1>7. QED  BY <1>2, <1>3, <1>4, <1>5, <1>6 DEF Sound

(* The slot found for an append is erased.                                 *)
LEMMA FreeIsBlank ==
  ASSUME NEW q, Sound(q, BlankSlots, DueSlots), NEW s \in Slot,
         Cached(q, SectorOf(s)),
         SlotStates(q, SectorOf(s))[s] = "free",
         "free" \in q.sum[SectorOf(s)]
  PROVE  s \in BlankSlots
<1>1. SectorOf(s) \in Sector  BY SlotSector
<1>2. ~Quarantined(q, SectorOf(s))  BY <1>1 DEF Sound, Shut
<1>3. /\ WayOf(q, SectorOf(s)) \in Way
      /\ q.cache[WayOf(q, SectorOf(s))].sector = SectorOf(s)
  BY WayIs
<1>4. QED  BY <1>2, <1>3 DEF Sound, OnlyFree, SlotStates

LEMMA BlankAndDue ==
  /\ BlankSlots \in SUBSET Slot
  /\ DueSlots \in SUBSET Slot
  /\ \A s \in BlankSlots : s \notin DueSlots
BY DEF BlankSlots, DueSlots, Valid, Blank

(* A step that leaves the Flash and the identities as they are.            *)
LEMMA QuietStep ==
  ASSUME IInv, UNCHANGED <<flash, store, owed, newest>>,
         mishaps' \in 0 .. MaxMishaps,
         ram.ready, ram'.ready,
         Sound(ram', BlankSlots, DueSlots),
         ram'.epoch = ram.epoch, ram'.seq = ram.seq,
         ram'.pinned => ram.pinned /\ ram'.ack = ram.ack
  PROVE  IInv'
<1>1. TypeOK'  BY DEF IInv, TypeOK, Sound
<1>2. RamSound'  BY DEF RamSound, BlankSlots, DueSlots
<1>3. OwedStored' /\ ConfirmedOnce'  BY DEF IInv, OwedStored, ConfirmedOnce
<1>4. AckPinned' /\ (ram.pinned => ram.ready)'  BY DEF IInv, AckPinned
<1>5. Ids'  BY DEF IInv, Ids, UpTo
<1>6. QED  BY <1>1, <1>2, <1>3, <1>4, <1>5 DEF IInv

(* A step that leaves the queue shut.                                      *)
LEMMA OffStep ==
  ASSUME TypeOK', OwedStored', ConfirmedOnce', (newest.epoch <= store)', ram' = Off
  PROVE  IInv'
<1>1. ~ram'.ready /\ ~ram'.pinned  BY OffIs
<1>2. QED  BY <1>1 DEF IInv, RamSound, AckPinned, Ids

LEMMA KeepsBook ==
  ASSUME NEW q, NEW r, Keeps(r, q)
  PROVE  /\ r.ready <=> q.ready
         /\ r.pinned <=> q.pinned
         /\ r.epoch = q.epoch /\ r.seq = q.seq /\ r.ack = q.ack
         /\ r.write = q.write /\ r.read = q.read
BY DEF Keeps

(* The newest epoch is a maximum, and no larger than the last one.         *)
LEMMA NewestEpochIs ==
  ASSUME TypeOK
  PROVE  /\ NewestEpoch \in 0 .. EpochMax
         /\ store <= NewestEpoch
         /\ \A s \in Slot : Valid(flash[s]) => flash[s].id.epoch <= NewestEpoch
<1> DEFINE S == {store} \cup {flash[s].id.epoch : s \in {t \in Slot : Valid(flash[t])}}
<1>1. \A s \in Slot : Valid(flash[s]) => flash[s].id.epoch \in 0 .. EpochMax
  <2> SUFFICES ASSUME NEW s \in Slot, Valid(flash[s])
               PROVE  flash[s].id.epoch \in 0 .. EpochMax
    OBVIOUS
  <2>1. flash[s] \in Contents  BY DEF TypeOK
  <2>2. flash[s].id \in Identity  BY <2>1, ContentsAre
  <2>3. QED  BY <2>2, QueueAssumption DEF Identity
<1>2. S \in SUBSET (0 .. EpochMax) /\ S # {}  BY <1>1 DEF TypeOK
<1>3. EpochMax \in Nat  BY QueueAssumption
<1>4. NewestEpoch = Highest(S)  BY DEF NewestEpoch
<1>5. /\ store \in S
      /\ \A s \in Slot : Valid(flash[s]) => flash[s].id.epoch \in S
  OBVIOUS
<1> HIDE DEF S
<1>6. Highest(S) \in S /\ \A t \in S : t <= Highest(S)  BY <1>2, <1>3, HighestIs
<1>7. QED  BY <1>2, <1>4, <1>5, <1>6

LEMMA IdentityIs ==
  ASSUME NEW id \in Identity \cup {NoId}
  PROVE  id.epoch \in 0 .. EpochMax /\ id.seq \in 0 .. SeqMax
BY QueueAssumption DEF Identity, NoId

(* InitLocked takes the scan for granted: RAM describes the Flash.         *)
LEMMA StartStep == ASSUME IInv, Start PROVE IInv'
<1> DEFINE flags == [k \in Sector |-> Summary(InFlash(k), FALSE)]
           n == NewestEpoch + 1
           c == Cardinality({s \in Slot : flash[s] = Blank})
           r == [Off EXCEPT !.ready = TRUE, !.epoch = n, !.free = c, !.sum = flags]
<1>1. TypeOK /\ ram' = r /\ store' = n /\ UNCHANGED <<flash, owed, newest, mishaps>>
      /\ NewestEpoch < EpochMax
  BY DEF IInv, Start
<1>2. /\ NewestEpoch \in 0 .. EpochMax
      /\ store <= NewestEpoch
      /\ \A s \in Slot : Valid(flash[s]) => flash[s].id.epoch <= NewestEpoch
  BY <1>1, NewestEpochIs
<1>3. n \in 1 .. EpochMax  BY <1>1, <1>2, QueueAssumption
<1>4. c = Cardinality(BlankSlots) /\ c \in 0 .. Capacity
  BY BlankAndDue, SlotsCount DEF BlankSlots
<1>5. \A k \in Sector : Describes(flags[k], k, InFlash(k)) /\ "quarantined" \notin flags[k]
  <2> SUFFICES ASSUME NEW k \in Sector
               PROVE  Describes(flags[k], k, InFlash(k)) /\ "quarantined" \notin flags[k]
    OBVIOUS
  <2>1. flags[k] = Summary(InFlash(k), FALSE)  OBVIOUS
  <2>2. InFlash(k) \in [SlotsOf(k) -> SlotState]  BY <1>1, InFlashIs DEF TypeOK
  <2>3. QED  BY <2>1, <2>2, SummaryIs
<1>6. flags \in [Sector -> SUBSET (SlotState \cup {"quarantined"})]
  <2>1. \A k \in Sector : flags[k] \in SUBSET (SlotState \cup {"quarantined"})
    BY <1>5 DEF Describes
  <2>2. flags = [k \in Sector |-> flags[k]]  OBVIOUS
  <2> HIDE DEF flags
  <2>3. QED  BY <2>1, <2>2
<1> HIDE DEF flags, n, c
<1>7. r \in Ram
  <2>1. n \in 0 .. EpochMax  BY <1>3
  <2>2. QED  BY <1>4, <1>6, <2>1, OffIs DEF Ram
<1>8. /\ r.cache = [i \in Way |-> NoWay] /\ r.sum = flags /\ r.free = c
      /\ r.epoch = n /\ r.seq = 0
      /\ r.ready /\ ~r.pinned
  BY DEF Off
<1> HIDE DEF r
<1>9. \A i \in Way : r.cache[i].sector \notin Sector
  BY <1>8, QueueAssumption DEF NoWay, Sector
<1>10. \A s \in Slot : SectorOf(s) \in Sector /\ s \in SlotsOf(SectorOf(s))
  BY SlotSector
<1>11. \A k \in Sector : ~Quarantined(r, k)  BY <1>5, <1>8 DEF Quarantined
<1>12. \A s \in Slot : InFlash(SectorOf(s))[s] \in r.sum[SectorOf(s)]
  BY <1>5, <1>8, <1>10 DEF Describes
<1>13. \A s \in Slot : InFlash(SectorOf(s))[s] = Classify(flash[s])
  BY <1>1, <1>10, InFlashIs DEF TypeOK
<1>14. Flagged(r, BlankSlots, "free") /\ Flagged(r, DueSlots, "pending")
  <2>1. \A s \in BlankSlots : s \in Slot /\ Classify(flash[s]) = "free"
    BY <1>1, ContentsAre DEF BlankSlots, TypeOK
  <2>2. \A s \in DueSlots : s \in Slot /\ Classify(flash[s]) = "pending"
    BY <1>1, ContentsAre DEF DueSlots, TypeOK
  <2>3. QED  BY <1>12, <1>13, <2>1, <2>2 DEF Flagged
<1>15. Usable(r, BlankSlots) = BlankSlots
  BY <1>10, <1>11, BlankAndDue DEF Usable
<1>16. /\ OneWay(r) /\ Shut(r) /\ OnlyFree(r, BlankSlots)
       /\ Shown(r, BlankSlots, "free") /\ Shown(r, DueSlots, "pending")
  BY <1>9, <1>10, <1>11, BlankAndDue DEF OneWay, Shut, OnlyFree, Shown
<1>17. Sound(r, BlankSlots, DueSlots)
  BY <1>4, <1>7, <1>8, <1>14, <1>15, <1>16 DEF Sound, Visible
<1>18. TypeOK'  BY <1>1, <1>3, <1>7 DEF TypeOK
<1>19. RamSound'  BY <1>1, <1>17 DEF RamSound, BlankSlots, DueSlots
<1>20. OwedStored' /\ ConfirmedOnce'  BY <1>1 DEF IInv, OwedStored, ConfirmedOnce
<1>21. AckPinned' /\ (ram.pinned => ram.ready)'  BY <1>1, <1>8 DEF AckPinned
<1>22. Ids'
  <2>1. newest.epoch <= store /\ newest.epoch \in Nat /\ store \in Nat
    BY <1>1, IdentityIs DEF IInv, Ids, TypeOK
  <2>2. newest.epoch < n  BY <1>2, <2>1 DEF n
  <2>3. ASSUME NEW s \in Slot, Valid(flash[s]) PROVE flash[s].id.epoch < n
    <3>1. flash[s] \in Contents  BY <1>1 DEF TypeOK
    <3>2. flash[s].id \in Identity  BY <2>3, <3>1, ContentsAre
    <3>3. flash[s].id.epoch \in Nat  BY <3>2, IdentityIs
    <3>4. QED  BY <1>2, <2>3, <3>3 DEF n
  <2>4. newest.epoch <= n /\ 1 <= n /\ n <= n  BY <1>3, <2>1, <2>2
  <2>5. QED  BY <1>1, <1>8, <2>2, <2>3, <2>4 DEF Ids, UpTo
<1>23. QED  BY <1>18, <1>19, <1>20, <1>21, <1>22 DEF IInv

LEMMA ShutStep ==
  ASSUME IInv, StartExhausted \/ StartFails
  PROVE  IInv'
<1>1. /\ ram' = Off /\ UNCHANGED <<flash, owed, newest>>
      /\ store' \in {store} \cup {NewestEpoch + 1}
      /\ store' # store => NewestEpoch < EpochMax
      /\ mishaps' \in 0 .. MaxMishaps
  BY QueueAssumption DEF StartExhausted, StartFails, Mishap, IInv, TypeOK
<1>2. /\ NewestEpoch \in 0 .. EpochMax
      /\ store <= NewestEpoch
  BY NewestEpochIs DEF IInv
<1>3. store \in 0 .. EpochMax /\ newest.epoch \in Nat /\ newest.epoch <= store
  BY IdentityIs DEF IInv, TypeOK, Ids
<1>4. store' \in 0 .. EpochMax /\ newest.epoch <= store'
  BY <1>1, <1>2, <1>3, QueueAssumption
<1>5. TypeOK'  BY <1>1, <1>4, OffIs DEF IInv, TypeOK
<1>6. OwedStored' /\ ConfirmedOnce' /\ (newest.epoch <= store)'
  BY <1>1, <1>4 DEF IInv, OwedStored, ConfirmedOnce
<1>7. QED  BY <1>1, <1>5, <1>6, OffStep

(* What a ready queue starts each operation from.                          *)
LEMMA ReadyIs ==
  ASSUME IInv, ram.ready
  PROVE  /\ Sound(ram, BlankSlots, DueSlots)
         /\ ram \in Ram
         /\ flash \in [Slot -> Contents]
         /\ ram.write \in Slot /\ ram.read \in Slot
         /\ AckSlot \in Slot /\ SectorOf(AckSlot) \in Sector
         /\ ram.epoch \in 0 .. EpochMax /\ ram.seq \in 0 .. SeqMax
         /\ mishaps \in 0 .. MaxMishaps
<1>1. Sound(ram, BlankSlots, DueSlots) /\ ram \in Ram /\ flash \in [Slot -> Contents]
      /\ mishaps \in 0 .. MaxMishaps
  BY DEF IInv, RamSound, TypeOK
<1>2. ram.write \in Slot /\ ram.read \in Slot /\ ram.ack.slot \in Slot
      /\ ram.epoch \in 0 .. EpochMax /\ ram.seq \in 0 .. SeqMax
  BY <1>1, RamIs
<1>3. AckSlot \in Slot  BY <1>2 DEF AckSlot
<1>4. SectorOf(AckSlot) \in Sector  BY <1>3, SlotSector
<1>5. QED  BY <1>1, <1>2, <1>3, <1>4

LEMMA MishapIs ==
  ASSUME IInv, Mishap
  PROVE  mishaps' \in 0 .. MaxMishaps
BY QueueAssumption DEF Mishap, IInv, TypeOK

(* Loading sectors, whatever for, is a quiet step.                         *)
LEMMA KeepsQuiet ==
  ASSUME IInv, ram.ready, UNCHANGED <<flash, store, owed, newest>>,
         mishaps' \in 0 .. MaxMishaps,
         Sound(ram', BlankSlots, DueSlots), Keeps(ram', ram)
  PROVE  IInv'
BY KeepsBook, QuietStep

LEMMA AppendFound ==
  ASSUME IInv, ram.ready
  PROVE  /\ Found(AppendFind, ram, "free")
         /\ AppendFind.st = "none" => Targets(ram, "free") = {}
BY ReadyIs, FindFinds DEF AppendFind

LEMMA PeekFound ==
  ASSUME IInv, ram.ready
  PROVE  /\ Found(PeekFind, ram, "pending")
         /\ PeekFind.st = "none" => Targets(ram, "pending") = {}
BY ReadyIs, FindFinds DEF PeekFind

LEMMA LookStep ==
  ASSUME IInv, AppendRefused \/ PeekRefused \/ AckMismatch
  PROVE  IInv'
<1>1. ram.ready /\ UNCHANGED <<flash, store, owed, newest, mishaps>>
  BY DEF AppendRefused, PeekRefused, AckMismatch, CanAppend
<1>2. mishaps' \in 0 .. MaxMishaps  BY <1>1, ReadyIs
<1>3. Sound(ram', BlankSlots, DueSlots) /\ Keeps(ram', ram)
  <2>1. CASE AppendRefused
    <3>1. ram' = AppendFind.q  BY <2>1 DEF AppendRefused
    <3>2. QED  BY <1>1, <3>1, AppendFound DEF Found
  <2>2. CASE PeekRefused
    <3>1. ram' = PeekFind.q  BY <2>2 DEF PeekRefused
    <3>2. QED  BY <1>1, <3>1, PeekFound DEF Found
  <2>3. CASE AckMismatch
    <3>1. ram' = Load(ram, SectorOf(AckSlot))  BY <2>3 DEF AckMismatch
    <3>2. QED  BY <1>1, <3>1, ReadyIs, LoadSound
  <2>4. QED  BY <2>1, <2>2, <2>3
<1>4. QED  BY <1>1, <1>2, <1>3, KeepsQuiet

LEMMA ReadFailsStep == ASSUME IInv, ReadFails PROVE IInv'
<1>1. ram.ready /\ UNCHANGED <<flash, store, owed, newest>>
  BY DEF ReadFails
<1>2. mishaps' \in 0 .. MaxMishaps  BY MishapIs DEF ReadFails
<1>3. Sound(ram', BlankSlots, DueSlots) /\ Keeps(ram', ram)
  <2>1. CASE ram' = ram
    BY <1>1, <2>1, ReadyIs DEF Keeps
  <2>2. CASE ram' = AppendFind.first
    BY <1>1, <2>2, AppendFound DEF Found
  <2>3. CASE ram' \in {PeekFind.first, PeekFind.q}
    BY <1>1, <2>3, PeekFound DEF Found
  <2>4. CASE ram' = Load(ram, SectorOf(AckSlot))
    BY <1>1, <2>4, ReadyIs, LoadSound
  <2>5. CASE \E k \in Sector : ram' = Load(ram, k)
    BY <1>1, <2>5, ReadyIs, LoadSound
  <2>6. QED  BY <2>1, <2>2, <2>3, <2>4, <2>5 DEF ReadFails
<1>4. QED  BY <1>1, <1>2, <1>3, KeepsQuiet

LEMMA PeekStep == ASSUME IInv, Peek PROVE IInv'
<1> DEFINE f == PeekFind
           r == [f.q EXCEPT !.read = f.slot]
<1>1. ram.ready /\ f.st = "ok" /\ ram' = r
      /\ UNCHANGED <<flash, store, owed, newest, mishaps>>
  BY DEF Peek
<1>2. Found(f, ram, "pending")  BY <1>1, PeekFound
<1> HIDE DEF f
<1>3. /\ Sound(f.q, BlankSlots, DueSlots) /\ Keeps(f.q, ram)
      /\ f.slot \in Slot
  BY <1>1, <1>2 DEF Found
<1>4. f.q \in Ram  BY <1>3 DEF Sound
<1>5. r \in Ram  BY <1>3, <1>4 DEF Ram
<1>6. /\ r.cache = f.q.cache /\ r.sum = f.q.sum /\ r.free = f.q.free
      /\ r.epoch = f.q.epoch /\ r.seq = f.q.seq /\ r.ack = f.q.ack
      /\ r.ready <=> f.q.ready
      /\ r.pinned <=> f.q.pinned
  BY <1>4 DEF Ram
<1> HIDE DEF r
<1>7. Sound(r, BlankSlots, DueSlots)  BY <1>3, <1>5, <1>6, SameSound
<1>8. /\ r.epoch = ram.epoch /\ r.seq = ram.seq /\ r.ack = ram.ack
      /\ r.ready <=> ram.ready
      /\ r.pinned <=> ram.pinned
  BY <1>3, <1>6, KeepsBook
<1>9. mishaps' \in 0 .. MaxMishaps  BY <1>1, ReadyIs
<1>10. QED  BY <1>1, <1>7, <1>8, <1>9, QuietStep

(* A sector quarantined after one of its slots has been marked: the slot is   *)
(* no longer among the free ones the RAM promises, whatever the flash holds.  *)
LEMMA QuarantineMarked ==
  ASSUME NEW B \in SUBSET Slot, NEW D \in SUBSET Slot, NEW s \in Slot,
         NEW q, Sound(q, B \ {s}, D), NEW k \in Sector, k = SectorOf(s), Cached(q, k)
  PROVE  Sound(Quarantine(q, k), B, D) /\ Keeps(Quarantine(q, k), q)
<1> DEFINE B0 == B \ {s}
<1>1. B0 \in SUBSET Slot /\ D \subseteq D  OBVIOUS
<1>2. Outside(k, B, B0)  BY DEF Outside
<1>3. Sound(q, B0, D)  OBVIOUS
<1> HIDE DEF B0
<1>4. QED  BY <1>1, <1>2, <1>3, QuarantineSound

(* The record is not what the cache took it for: its slot is marked, its   *)
(* sector quarantined.                                                     *)
LEMMA PeekCorruptStep == ASSUME IInv, PeekCorrupt PROVE IInv'
<1> DEFINE f == PeekFind
           s == f.slot
           k == SectorOf(s)
           q == SetSlot(f.q, s, "corrupt")
           r == Quarantine(q, k)
<1>1. ram.ready /\ f.st = "ok" /\ ~Valid(flash[s]) /\ ram' = r
      /\ UNCHANGED <<flash, store, owed, newest, mishaps>>
  BY DEF PeekCorrupt
<1>2. Found(f, ram, "pending")  BY <1>1, PeekFound
<1> HIDE DEF f
<1>3. /\ Sound(f.q, BlankSlots, DueSlots) /\ Keeps(f.q, ram)
      /\ s \in Slot /\ Cached(f.q, k)
  BY <1>1, <1>2 DEF Found
<1>4. s \notin DueSlots  BY <1>1 DEF DueSlots
<1>5. "corrupt" \in SlotState \ {"free"}  BY DEF SlotState
<1>6. k \in Sector /\ BlankSlots \in SUBSET Slot /\ DueSlots \in SUBSET Slot
  BY <1>3, SlotSector, BlankAndDue
<1> HIDE DEF s
<1>7. /\ Sound(q, BlankSlots \ {s}, DueSlots)
      /\ Keeps(q, f.q) /\ Cached(q, k)
  BY <1>3, <1>4, <1>5, <1>6, SetSlotSound
<1>8. k = SectorOf(s) /\ s \in Slot  BY <1>3
<1> HIDE DEF q, k
<1>9. Sound(r, BlankSlots, DueSlots) /\ Keeps(r, q)
  BY <1>6, <1>7, <1>8, QuarantineMarked
<1> HIDE DEF r
<1>10. Keeps(r, ram)  BY <1>3, <1>7, <1>9 DEF Keeps
<1>11. mishaps' \in 0 .. MaxMishaps  BY <1>1, ReadyIs
<1>12. QED  BY <1>1, <1>9, <1>10, <1>11, KeepsQuiet

LEMMA ReclaimLooksStep ==
  ASSUME IInv, NEW k \in Sector, ReclaimFindsRecord(k) \/ ReclaimDenied(k)
  PROVE  IInv'
<1> DEFINE q == Load(ram, k)
<1>1. ram.ready /\ ram' \in {q, Quarantine(q, k)}
      /\ UNCHANGED <<flash, store, owed, newest, mishaps>>
  BY DEF ReclaimFindsRecord, ReclaimDenied, Reclaiming
<1>2. /\ Sound(q, BlankSlots, DueSlots)
      /\ Cached(q, k) /\ Keeps(q, ram)
  BY <1>1, ReadyIs, LoadSound
<1> HIDE DEF q
<1>3. /\ Sound(Quarantine(q, k), BlankSlots, DueSlots)
      /\ Keeps(Quarantine(q, k), q)
  <2>1. /\ \A s \in Slot : SectorOf(s) # k => (s \in BlankSlots <=> s \in BlankSlots)
        /\ DueSlots \subseteq DueSlots
    OBVIOUS
  <2>2. BlankSlots \in SUBSET Slot /\ DueSlots \in SUBSET Slot  BY BlankAndDue
  <2>3. QED  BY <1>2, <2>1, <2>2, QuarantineSound DEF Outside
<1>4. Sound(ram', BlankSlots, DueSlots) /\ Keeps(ram', ram)
  BY <1>1, <1>2, <1>3 DEF Keeps
<1>5. mishaps' \in 0 .. MaxMishaps  BY <1>1, ReadyIs
<1>6. QED  BY <1>1, <1>4, <1>5, KeepsQuiet

(* The slot Append takes is erased, and its identity is a new one.         *)
LEMMA AppendTakes ==
  ASSUME IInv, CanAppend, AppendFind.st = "ok"
  PROVE  LET s == AppendFind.slot IN
         /\ s \in Slot /\ s \in BlankSlots /\ s \notin DueSlots
         /\ flash[s] = Blank
         /\ Sound(Claim(AppendFind), BlankSlots \ {s}, DueSlots)
         /\ Cached(Claim(AppendFind), SectorOf(s))
         /\ Claim(AppendFind).epoch = ram.epoch
         /\ Claim(AppendFind).seq = ram.seq + 1
         /\ Claim(AppendFind).ready
         /\ Claim(AppendFind).pinned <=> ram.pinned
         /\ Claim(AppendFind).ack = ram.ack
         /\ NewId \in Identity
         /\ NewId.epoch = ram.epoch /\ NewId.seq = ram.seq + 1
         /\ \A t \in Slot : Valid(flash[t]) => flash[t].id # NewId
         /\ NewId \notin owed
<1> DEFINE f == AppendFind
           s == f.slot
           n == f.q.seq + 1
           q == [f.q EXCEPT !.seq = n]
           r == SetSlot(q, s, "corrupt")
<1>1. ram.ready /\ ram.seq < SeqMax /\ f.st = "ok"  BY DEF CanAppend
<1>2. Found(f, ram, "free")  BY <1>1, AppendFound
<1>3. Claim(f) = r  BY DEF Claim
<1> HIDE DEF f
<1>4. /\ Sound(f.q, BlankSlots, DueSlots) /\ Keeps(f.q, ram)
      /\ s \in Slot /\ Cached(f.q, SectorOf(s))
      /\ SlotStates(f.q, SectorOf(s))[s] = "free"
      /\ "free" \in f.q.sum[SectorOf(s)]
  BY <1>1, <1>2 DEF Found
<1>5. s \in BlankSlots /\ s \notin DueSlots /\ flash[s] = Blank
  BY <1>4, FreeIsBlank, BlankAndDue DEF BlankSlots
<1>6. f.q \in Ram /\ f.q.seq = ram.seq /\ n \in 1 .. SeqMax
  BY <1>1, <1>4, ReadyIs, KeepsBook, QueueAssumption DEF Sound
<1> HIDE DEF n
<1>7. q \in Ram
  <2>1. n \in 0 .. SeqMax  BY <1>6
  <2>2. QED  BY <1>6, <2>1 DEF Ram
<1>8. /\ q.cache = f.q.cache /\ q.sum = f.q.sum /\ q.free = f.q.free
      /\ q.epoch = f.q.epoch /\ q.seq = n /\ q.ack = f.q.ack
      /\ q.ready <=> f.q.ready
      /\ q.pinned <=> f.q.pinned
  BY <1>6 DEF Ram
<1> HIDE DEF q, s
<1>9. Sound(q, BlankSlots, DueSlots)
  BY <1>4, <1>7, <1>8, SameSound
<1>10. Cached(q, SectorOf(s))  BY <1>4, <1>8 DEF Cached
<1>11. "corrupt" \in SlotState \ {"free"}  BY DEF SlotState
<1>12. /\ Sound(r, BlankSlots \ {s}, DueSlots)
       /\ Keeps(r, q)
       /\ Cached(r, SectorOf(s))
  BY <1>4, <1>5, <1>9, <1>10, <1>11, BlankAndDue, SetSlotSound
<1> HIDE DEF r
<1>13. /\ r.epoch = ram.epoch /\ r.seq = ram.seq + 1 /\ r.ack = ram.ack
       /\ r.ready
       /\ r.pinned <=> ram.pinned
  <2>1. n = ram.seq + 1  BY <1>6 DEF n
  <2>2. /\ r.epoch = q.epoch /\ r.seq = q.seq /\ r.ack = q.ack
        /\ r.ready <=> q.ready
        /\ r.pinned <=> q.pinned
    BY <1>12, KeepsBook
  <2>3. /\ f.q.epoch = ram.epoch /\ f.q.ack = ram.ack
        /\ f.q.ready <=> ram.ready
        /\ f.q.pinned <=> ram.pinned
    BY <1>4, KeepsBook
  <2>4. QED  BY <1>1, <1>8, <2>1, <2>2, <2>3
<1>14. NewId.epoch = ram.epoch /\ NewId.seq = ram.seq + 1  BY DEF NewId
<1>15. NewId \in Identity
  <2>1. ram.epoch \in 1 .. EpochMax /\ ram.seq + 1 \in 1 .. SeqMax
    BY <1>1, ReadyIs, QueueAssumption DEF IInv, Ids
  <2>2. QED  BY <2>1 DEF NewId, Identity
<1>16. ASSUME NEW t \in Slot, Valid(flash[t]) PROVE flash[t].id # NewId
  <2>1. UpTo(flash[t].id, ram)  BY <1>1, <1>16 DEF IInv, Ids
  <2>2. ~UpTo(NewId, ram)
    BY <1>1, <1>14, ReadyIs, QueueAssumption DEF UpTo
  <2>3. QED  BY <2>1, <2>2
<1>17. NewId \notin owed
  <2>1. SUFFICES ASSUME NewId \in owed PROVE FALSE  OBVIOUS
  <2>2. PICK t \in Slot : flash[t] = Rec(NewId, FALSE)
    BY <2>1 DEF IInv, OwedStored
  <2>3. Valid(flash[t]) /\ flash[t].id = NewId  BY <1>15, <2>2, RecIs
  <2>4. QED  BY <1>16, <2>3
<1>18. QED
  BY <1>3, <1>4, <1>5, <1>12, <1>13, <1>14, <1>15, <1>16, <1>17 DEF f, s

LEMMA WriteIs ==
  ASSUME flash \in [Slot -> Contents], NEW s \in Slot, NEW c \in Contents,
         flash' = [flash EXCEPT ![s] = c]
  PROVE  /\ flash' \in [Slot -> Contents]
         /\ flash'[s] = c
         /\ \A t \in Slot : t # s => flash'[t] = flash[t]
         /\ c # Blank => BlankSlots' = BlankSlots \ {s}
         /\ \A t \in Slot : t # s => (t \in BlankSlots' <=> t \in BlankSlots)
<1>1. /\ flash' \in [Slot -> Contents]
      /\ flash'[s] = c
      /\ \A t \in Slot : t # s => flash'[t] = flash[t]
  OBVIOUS
<1>2. QED  BY <1>1 DEF BlankSlots

(* An append that answers OK.                                              *)
LEMMA AppendStep == ASSUME IInv, AppendRecord PROVE IInv'
<1> DEFINE f == AppendFind
           s == f.slot
           c == Claim(f)
           p == SetSlot(c, s, "pending")
           r == [p EXCEPT !.write = NextSlot(s)]
<1>1. /\ ram.ready /\ CanAppend /\ f.st = "ok"
      /\ flash' = [flash EXCEPT ![s] = Rec(NewId, FALSE)]
      /\ ram' = r /\ owed' = owed \cup {NewId} /\ newest' = NewId
      /\ UNCHANGED <<store, mishaps>>
  BY DEF AppendRecord, CanAppend
<1>2. /\ s \in Slot /\ s \in BlankSlots /\ s \notin DueSlots
      /\ flash[s] = Blank
      /\ Sound(c, BlankSlots \ {s}, DueSlots)
      /\ Cached(c, SectorOf(s))
  BY <1>1, AppendTakes
<1>3. /\ c.epoch = ram.epoch
      /\ c.seq = ram.seq + 1
      /\ c.ready
      /\ c.pinned <=> ram.pinned
      /\ c.ack = ram.ack
      /\ NewId \in Identity
      /\ NewId.epoch = ram.epoch /\ NewId.seq = ram.seq + 1
      /\ \A t \in Slot : Valid(flash[t]) => flash[t].id # NewId
      /\ NewId \notin owed
  BY <1>1, AppendTakes
<1> HIDE DEF c, s, f
<1>4. /\ Rec(NewId, FALSE) \in Contents /\ Rec(NewId, FALSE) # Blank
      /\ Valid(Rec(NewId, FALSE)) /\ Rec(NewId, FALSE).id = NewId
      /\ ~Rec(NewId, FALSE).acked
  BY <1>3, RecIs
<1>5. flash \in [Slot -> Contents] /\ ~Valid(Blank)
  BY <1>1, ReadyIs DEF Valid, Blank
<1>6. /\ flash' \in [Slot -> Contents]
      /\ flash'[s] = Rec(NewId, FALSE)
      /\ \A t \in Slot : t # s => flash'[t] = flash[t]
      /\ BlankSlots' = BlankSlots \ {s}
  BY <1>1, <1>2, <1>4, <1>5, WriteIs
<1>7. DueSlots' \in SUBSET Slot /\ DueSlots' \subseteq DueSlots \cup {s}
  <2>1. ASSUME NEW t \in Slot, t # s, t \in DueSlots' PROVE t \in DueSlots
    <3>1. Valid(flash'[t]) /\ ~flash'[t].acked /\ flash'[t].id \in owed'
      BY <2>1 DEF DueSlots
    <3>2. Valid(flash[t]) /\ ~flash[t].acked /\ flash[t].id \in owed'
      BY <1>6, <2>1, <3>1
    <3>3. flash[t].id \in owed  BY <1>1, <1>3, <3>2
    <3>4. QED  BY <3>2, <3>3 DEF DueSlots
  <2>2. DueSlots' \subseteq Slot  BY DEF DueSlots
  <2>3. QED  BY <2>1, <2>2
<1>8. /\ Sound(p, (BlankSlots \ {s}) \ {s}, DueSlots')
      /\ Keeps(p, c)
  <2>1. "pending" \in SlotState \ {"free"}  BY DEF SlotState
  <2>2. BlankSlots \ {s} \in SUBSET Slot /\ DueSlots \in SUBSET Slot
    BY BlankAndDue
  <2>3. QED  BY <1>2, <1>7, <2>1, <2>2, SetSlotSound
<1>9. (BlankSlots \ {s}) \ {s} = BlankSlots'  BY <1>6
<1> HIDE DEF p
<1>10. Sound(p, BlankSlots', DueSlots')  BY <1>8, <1>9
<1>11. p \in Ram  BY <1>10 DEF Sound
<1>12. NextSlot(s) \in Slot  BY <1>2, NextSlotIn
<1>13. r \in Ram  BY <1>11, <1>12 DEF Ram
<1>14. /\ r.cache = p.cache /\ r.sum = p.sum /\ r.free = p.free
       /\ r.epoch = p.epoch /\ r.seq = p.seq /\ r.ack = p.ack
       /\ r.ready <=> p.ready
       /\ r.pinned <=> p.pinned
  BY <1>11 DEF Ram
<1> HIDE DEF r
<1>15. /\ r.epoch = ram.epoch /\ r.seq = ram.seq + 1 /\ r.ack = ram.ack
       /\ r.ready
       /\ r.pinned <=> ram.pinned
  <2>1. /\ p.epoch = c.epoch /\ p.seq = c.seq /\ p.ack = c.ack
        /\ p.ready <=> c.ready
        /\ p.pinned <=> c.pinned
    BY <1>8, KeepsBook
  <2>2. QED  BY <1>3, <1>14, <2>1
<1>16. DueSlots' \subseteq DueSlots'  OBVIOUS
<1>17. Sound(r, BlankSlots', DueSlots')
  BY <1>10, <1>13, <1>14, <1>16, SameSound
<1>18. TypeOK'  BY <1>1, <1>3, <1>6, <1>13 DEF IInv, TypeOK
<1>19. RamSound'  BY <1>1, <1>17 DEF RamSound
<1>20. OwedStored'
  <2>1. ASSUME NEW id \in owed' PROVE \E t \in Slot : flash'[t] = Rec(id, FALSE)
    <3>1. CASE id = NewId  BY <1>2, <1>6, <3>1
    <3>2. CASE id # NewId
      <4>1. PICK t \in Slot : flash[t] = Rec(id, FALSE)
        BY <1>1, <3>2 DEF IInv, OwedStored
      <4>2. t # s  BY <1>2, <4>1 DEF Rec, Blank
      <4>3. QED  BY <1>6, <4>1, <4>2
    <3>3. QED  BY <3>1, <3>2
  <2>2. QED  BY <2>1 DEF OwedStored
<1>21. ConfirmedOnce'
  <2>1. ASSUME NEW t \in Slot, Valid(flash'[t]), flash'[t].acked
        PROVE  flash'[t].id \notin owed'
    <3>1. t # s  BY <1>4, <1>6, <2>1
    <3>2. Valid(flash[t]) /\ flash[t].acked /\ flash'[t].id = flash[t].id
      BY <1>6, <2>1, <3>1
    <3>3. flash[t].id \notin owed  BY <3>2 DEF IInv, ConfirmedOnce
    <3>4. flash[t].id # NewId  BY <1>3, <3>2
    <3>5. owed' = owed \cup {NewId}  BY <1>1
    <3>6. flash'[t].id \notin owed \cup {NewId}  BY <3>2, <3>3, <3>4
    <3>7. QED  BY <3>5, <3>6
  <2>2. QED  BY <2>1 DEF ConfirmedOnce
<1>22. AckPinned' /\ (ram.pinned => ram.ready)'
  <2>1. ASSUME ram'.pinned
        PROVE  \/ flash'[ram'.ack.slot] = Corrupt
               \/ Valid(flash'[ram'.ack.slot]) /\ flash'[ram'.ack.slot].id = ram'.ack.id
    <3>1. ram.pinned /\ ram'.ack = ram.ack  BY <1>1, <1>15, <2>1
    <3>2. \/ flash[ram.ack.slot] = Corrupt
          \/ Valid(flash[ram.ack.slot]) /\ flash[ram.ack.slot].id = ram.ack.id
      BY <3>1 DEF IInv, AckPinned
    <3>3. ram.ack.slot # s  BY <1>2, <1>5, <3>2 DEF Corrupt, Blank
    <3>4. ram.ack.slot \in Slot  BY <1>1, ReadyIs, RamIs
    <3>5. QED  BY <1>6, <3>1, <3>2, <3>3, <3>4
  <2>2. QED  BY <1>1, <1>15, <2>1 DEF AckPinned
<1>23. Ids'
  <2>1. 1 <= ram.epoch /\ ram.epoch <= store  BY <1>1 DEF IInv, Ids
  <2>2. ram'.epoch = ram.epoch /\ ram'.seq = ram.seq + 1  BY <1>1, <1>15
  <2>3. ram.epoch \in Nat /\ ram.seq \in Nat  BY <1>1, ReadyIs
  <2>4. ASSUME NEW t \in Slot, Valid(flash'[t]) PROVE UpTo(flash'[t].id, ram')
    <3>1. CASE t = s
      <4>1. flash'[t].id = NewId  BY <1>4, <1>6, <3>1
      <4>2. NewId.epoch = ram'.epoch /\ NewId.seq = ram'.seq  BY <1>3, <2>2
      <4>3. ram'.seq \in Nat  BY <2>2, <2>3
      <4>4. QED  BY <4>1, <4>2, <4>3 DEF UpTo
    <3>2. CASE t # s
      <4>1. Valid(flash[t]) /\ flash'[t].id = flash[t].id  BY <1>6, <2>4, <3>2
      <4>2. UpTo(flash[t].id, ram)  BY <1>1, <4>1 DEF IInv, Ids
      <4>3. flash[t].id \in Identity  BY <1>5, <4>1, ContentsAre
      <4>4. flash[t].id.seq \in Nat  BY <4>3, IdentityIs
      <4>5. QED  BY <2>2, <2>3, <4>1, <4>2, <4>4 DEF UpTo
    <3>3. QED  BY <3>1, <3>2
  <2>5. UpTo(newest', ram')  BY <1>1, <1>3, <2>2, <2>3 DEF UpTo
  <2>6. newest'.epoch <= store'  BY <1>1, <1>3, <2>1
  <2>7. QED  BY <1>1, <2>1, <2>2, <2>4, <2>5, <2>6 DEF Ids
<1>24. QED  BY <1>18, <1>19, <1>20, <1>21, <1>22, <1>23 DEF IInv

(* An append that fails, or is cut short: the slot may hold the record     *)
(* although nobody was told so.                                            *)
LEMMA AppendBreaksStep == ASSUME IInv, AppendBreaks PROVE IInv'
<1> DEFINE f == AppendFind
           s == f.slot
           c == Claim(f)
           r == Quarantine(c, SectorOf(s))
<1>1. /\ ram.ready /\ CanAppend /\ f.st = "ok" /\ Mishap
      /\ ram' \in {r, Off} /\ newest' = NewId
      /\ UNCHANGED <<store, owed>>
  BY DEF AppendBreaks, CanAppend
<1>2. PICK w \in HalfWritten : flash' = [flash EXCEPT ![s] = w]
  BY DEF AppendBreaks
<1>3. /\ s \in Slot /\ s \in BlankSlots /\ s \notin DueSlots
      /\ flash[s] = Blank
      /\ Sound(c, BlankSlots \ {s}, DueSlots)
      /\ Cached(c, SectorOf(s))
  BY <1>1, AppendTakes
<1>4. /\ c.epoch = ram.epoch
      /\ c.seq = ram.seq + 1
      /\ c.ready
      /\ c.pinned <=> ram.pinned
      /\ c.ack = ram.ack
      /\ NewId \in Identity
      /\ NewId.epoch = ram.epoch /\ NewId.seq = ram.seq + 1
      /\ \A t \in Slot : Valid(flash[t]) => flash[t].id # NewId
      /\ NewId \notin owed
  BY <1>1, AppendTakes
<1> HIDE DEF c, s, f
<1>5. w \in Contents /\ (Valid(w) => w.id = NewId /\ ~w.acked)
  <2>1. /\ Rec(NewId, FALSE) \in Contents
        /\ Rec(NewId, FALSE).id = NewId
        /\ ~Rec(NewId, FALSE).acked
    BY <1>4, RecIs
  <2>2. Blank \in Contents /\ Torn \in Contents /\ ~Valid(Blank) /\ ~Valid(Torn)
    BY DEF Contents, Blank, Torn, Valid
  <2>3. QED  BY <1>2, <2>1, <2>2 DEF HalfWritten
<1>6. flash \in [Slot -> Contents] /\ ~Valid(Blank)
  BY <1>1, ReadyIs DEF Valid, Blank
<1>7. /\ flash' \in [Slot -> Contents]
      /\ flash'[s] = w
      /\ \A t \in Slot : t # s => flash'[t] = flash[t]
      /\ \A t \in Slot : t # s => (t \in BlankSlots' <=> t \in BlankSlots)
  BY <1>2, <1>3, <1>5, <1>6, WriteIs
<1>8. DueSlots' \subseteq DueSlots
  <2>1. ASSUME NEW t \in Slot, t \in DueSlots' PROVE t \in DueSlots
    <3>1. Valid(flash'[t]) /\ ~flash'[t].acked /\ flash'[t].id \in owed
      BY <1>1, <2>1 DEF DueSlots
    <3>2. t # s
      <4>1. SUFFICES ASSUME t = s PROVE FALSE  OBVIOUS
      <4>2. flash'[t].id = NewId  BY <1>5, <1>7, <3>1, <4>1
      <4>3. QED  BY <1>4, <3>1, <4>2
    <3>3. QED  BY <1>7, <2>1, <3>1, <3>2 DEF DueSlots
  <2>2. DueSlots' \subseteq Slot  BY DEF DueSlots
  <2>3. QED  BY <2>1, <2>2
<1>9. Sound(r, BlankSlots', DueSlots') /\ Keeps(r, c)
  <2>1. BlankSlots \ {s} \in SUBSET Slot /\ DueSlots \in SUBSET Slot
    BY BlankAndDue
  <2>2. BlankSlots' \in SUBSET Slot /\ DueSlots' \in SUBSET Slot
    BY DEF BlankSlots, DueSlots
  <2>3. \A t \in Slot : SectorOf(t) # SectorOf(s) =>
          (t \in BlankSlots' <=> t \in BlankSlots \ {s})
    BY <1>7
  <2>4. SectorOf(s) \in Sector  BY <1>3, SlotSector
  <2>5. QED  BY <1>3, <1>8, <2>1, <2>2, <2>3, <2>4, QuarantineSound DEF Outside
<1> HIDE DEF r
<1>10. /\ r.epoch = ram.epoch
       /\ r.seq = ram.seq + 1
       /\ r.ack = ram.ack
       /\ r.ready
       /\ r.pinned <=> ram.pinned
  BY <1>4, <1>9, KeepsBook
<1>11. newest'.epoch <= store'
  BY <1>1, <1>4 DEF IInv, Ids
<1>12. TypeOK'
  <2>1. ram' \in Ram  BY <1>1, <1>9, OffIs DEF Sound
  <2>2. mishaps' \in 0 .. MaxMishaps  BY <1>1, MishapIs
  <2>3. QED  BY <1>1, <1>4, <1>7, <2>1, <2>2 DEF IInv, TypeOK
<1>13. OwedStored'
  <2>1. ASSUME NEW id \in owed PROVE \E t \in Slot : flash'[t] = Rec(id, FALSE)
    <3>1. PICK t \in Slot : flash[t] = Rec(id, FALSE)
      BY DEF IInv, OwedStored
    <3>2. t # s  BY <1>3, <3>1 DEF Rec, Blank
    <3>3. QED  BY <1>7, <3>1, <3>2
  <2>2. QED  BY <1>1, <2>1 DEF OwedStored
<1>14. ConfirmedOnce'
  <2>1. ASSUME NEW t \in Slot, Valid(flash'[t]), flash'[t].acked
        PROVE  flash'[t].id \notin owed
    <3>1. t # s  BY <1>5, <1>7, <2>1
    <3>2. Valid(flash[t]) /\ flash[t].acked /\ flash'[t].id = flash[t].id
      BY <1>7, <2>1, <3>1
    <3>3. QED  BY <3>2 DEF IInv, ConfirmedOnce
  <2>2. QED  BY <1>1, <2>1 DEF ConfirmedOnce
<1>15. CASE ram' = Off
  BY <1>11, <1>12, <1>13, <1>14, <1>15, OffStep
<1>16. CASE ram' = r
  <2>1. RamSound'  BY <1>9, <1>16 DEF RamSound
  <2>2. AckPinned' /\ (ram.pinned => ram.ready)'
    <3>1. ASSUME ram'.pinned
          PROVE  \/ flash'[ram'.ack.slot] = Corrupt
                 \/ Valid(flash'[ram'.ack.slot]) /\ flash'[ram'.ack.slot].id = ram'.ack.id
      <4>1. ram.pinned /\ ram'.ack = ram.ack  BY <1>10, <1>16, <3>1
      <4>2. \/ flash[ram.ack.slot] = Corrupt
            \/ Valid(flash[ram.ack.slot]) /\ flash[ram.ack.slot].id = ram.ack.id
        BY <4>1 DEF IInv, AckPinned
      <4>3. ram.ack.slot # s  BY <1>3, <1>6, <4>2 DEF Corrupt, Blank
      <4>4. ram.ack.slot \in Slot  BY <1>1, ReadyIs, RamIs
      <4>5. QED  BY <1>7, <4>1, <4>2, <4>3, <4>4
    <3>2. QED  BY <1>10, <1>16, <3>1 DEF AckPinned
  <2>3. Ids'
    <3>1. 1 <= ram.epoch /\ ram.epoch <= store  BY <1>1 DEF IInv, Ids
    <3>2. ram'.epoch = ram.epoch /\ ram'.seq = ram.seq + 1  BY <1>10, <1>16
    <3>3. ram.epoch \in Nat /\ ram.seq \in Nat  BY <1>1, ReadyIs
    <3>4. NewId.epoch = ram'.epoch /\ NewId.seq = ram'.seq /\ ram'.seq \in Nat
      BY <1>4, <3>2, <3>3
    <3>5. UpTo(NewId, ram')  BY <3>4 DEF UpTo
    <3>6. ASSUME NEW t \in Slot, Valid(flash'[t]) PROVE UpTo(flash'[t].id, ram')
      <4>1. CASE t = s
        <5>1. flash'[t].id = NewId  BY <1>5, <1>7, <3>6, <4>1
        <5>2. QED  BY <3>5, <5>1
      <4>2. CASE t # s
        <5>1. Valid(flash[t]) /\ flash'[t].id = flash[t].id  BY <1>7, <3>6, <4>2
        <5>2. UpTo(flash[t].id, ram)  BY <1>1, <5>1 DEF IInv, Ids
        <5>3. flash[t].id \in Identity  BY <1>6, <5>1, ContentsAre
        <5>4. flash[t].id.seq \in Nat  BY <5>3, IdentityIs
        <5>5. QED  BY <3>2, <3>3, <5>1, <5>2, <5>4 DEF UpTo
      <4>3. QED  BY <4>1, <4>2
    <3>7. QED  BY <1>1, <1>11, <3>1, <3>2, <3>5, <3>6 DEF Ids
  <2>4. QED  BY <1>12, <1>13, <1>14, <2>1, <2>2, <2>3 DEF IInv
<1>17. QED  BY <1>1, <1>15, <1>16

(* A record that stops being owed while its slot is rewritten: by its ack  *)
(* word, or by bit errors.                                                 *)
LEMMA Retired ==
  ASSUME IInv, NEW s \in Slot, NEW id, Valid(flash[s]), flash[s].id = id,
         NEW w \in Contents, w # Blank,
         Valid(w) => w.id = id,
         flash' = [flash EXCEPT ![s] = w], owed' = owed \ {id}
  PROVE  /\ flash' \in [Slot -> Contents]
         /\ flash'[s] = w
         /\ \A t \in Slot : t # s => flash'[t] = flash[t]
         /\ BlankSlots' = BlankSlots
         /\ DueSlots' \subseteq DueSlots
         /\ s \notin DueSlots'
         /\ OwedStored' /\ ConfirmedOnce'
         /\ \A t \in Slot : Valid(flash'[t]) => Valid(flash[t]) /\ flash'[t].id = flash[t].id
<1>1. flash \in [Slot -> Contents]  BY DEF IInv, TypeOK
<1>2. /\ flash' \in [Slot -> Contents]
      /\ flash'[s] = w
      /\ \A t \in Slot : t # s => flash'[t] = flash[t]
      /\ BlankSlots' = BlankSlots \ {s}
  BY <1>1, WriteIs
<1>3. s \notin BlankSlots  BY DEF BlankSlots, Valid, Blank
<1>4. \A t \in Slot : Valid(flash'[t]) => Valid(flash[t]) /\ flash'[t].id = flash[t].id
  BY <1>2
<1>5. s \notin DueSlots'
  <2>1. SUFFICES ASSUME s \in DueSlots' PROVE FALSE  OBVIOUS
  <2>2. Valid(flash'[s]) /\ flash'[s].id \in owed'  BY <2>1 DEF DueSlots
  <2>3. QED  BY <1>2, <2>2
<1>6. DueSlots' \subseteq DueSlots
  <2>1. ASSUME NEW t \in Slot, t \in DueSlots' PROVE t \in DueSlots
    <3>1. Valid(flash'[t]) /\ ~flash'[t].acked /\ flash'[t].id \in owed'
      BY <2>1 DEF DueSlots
    <3>2. flash'[t] = flash[t]  BY <1>2, <1>5, <2>1
    <3>3. QED  BY <3>1, <3>2 DEF DueSlots
  <2>2. DueSlots' \subseteq Slot  BY DEF DueSlots
  <2>3. QED  BY <2>1, <2>2
<1>7. OwedStored'
  <2>1. ASSUME NEW i \in owed, i # id PROVE \E t \in Slot : flash'[t] = Rec(i, FALSE)
    <3>1. PICK t \in Slot : flash[t] = Rec(i, FALSE)
      BY DEF IInv, OwedStored
    <3>2. i \in Identity  BY DEF IInv, TypeOK
    <3>3. flash[t].id = i  BY <3>1, <3>2, RecIs
    <3>4. t # s  BY <2>1, <3>3
    <3>5. QED  BY <1>2, <3>1, <3>4
  <2>2. QED  BY <2>1 DEF OwedStored
<1>8. ConfirmedOnce'
  <2>1. ASSUME NEW t \in Slot, Valid(flash'[t]), flash'[t].acked
        PROVE  flash'[t].id \notin owed'
    <3>1. CASE t = s  BY <1>2, <2>1, <3>1
    <3>2. CASE t # s
      <4>1. Valid(flash[t]) /\ flash[t].acked /\ flash'[t].id = flash[t].id
        BY <1>2, <2>1, <3>2
      <4>2. flash[t].id \notin owed  BY <4>1 DEF IInv, ConfirmedOnce
      <4>3. QED  BY <4>1, <4>2
    <3>3. QED  BY <3>1, <3>2
  <2>2. QED  BY <2>1 DEF ConfirmedOnce
<1>9. QED  BY <1>2, <1>3, <1>4, <1>5, <1>6, <1>7, <1>8

(* The ids a step may leave in the Flash.                                  *)
LEMMA IdsKept ==
  ASSUME IInv, UNCHANGED <<store, newest>>,
         ram'.ready => ram.ready /\ ram'.epoch = ram.epoch /\ ram'.seq = ram.seq,
         \A t \in Slot : Valid(flash'[t]) => \E u \in Slot :
            Valid(flash[u]) /\ flash'[t].id = flash[u].id
  PROVE  Ids'
<1>1. newest'.epoch <= store'  BY DEF IInv, Ids
<1>2. ASSUME ram'.ready
      PROVE  /\ 1 <= ram'.epoch /\ ram'.epoch <= store'
             /\ UpTo(newest', ram')
             /\ \A t \in Slot : Valid(flash'[t]) => UpTo(flash'[t].id, ram')
  <2>1. ram.ready /\ ram'.epoch = ram.epoch /\ ram'.seq = ram.seq  BY <1>2
  <2>2. ASSUME NEW t \in Slot, Valid(flash'[t]) PROVE UpTo(flash'[t].id, ram')
    <3>1. PICK u \in Slot : Valid(flash[u]) /\ flash'[t].id = flash[u].id  BY <2>2
    <3>2. UpTo(flash[u].id, ram)  BY <2>1, <3>1 DEF IInv, Ids
    <3>3. QED  BY <2>1, <3>1, <3>2 DEF UpTo
  <2>3. QED  BY <2>1, <2>2 DEF IInv, Ids, UpTo
<1>3. QED  BY <1>1, <1>2 DEF Ids

LEMMA AckTakes ==
  ASSUME IInv, NEW id \in Identity, AckMatches(id)
  PROVE  /\ ram.ready
         /\ AckSlot \in Slot /\ SectorOf(AckSlot) \in Sector
         /\ Valid(flash[AckSlot]) /\ flash[AckSlot].id = id
         /\ ram.pinned => id = ram.ack.id /\ AckSlot = ram.ack.slot
         /\ \A b \in BOOLEAN : [flash EXCEPT ![AckSlot].acked = b]
                                 = [flash EXCEPT ![AckSlot] = Rec(id, b)]
         /\ Sound(Load(ram, SectorOf(AckSlot)), BlankSlots, DueSlots)
         /\ Keeps(Load(ram, SectorOf(AckSlot)), ram)
         /\ Cached(Load(ram, SectorOf(AckSlot)), SectorOf(AckSlot))
<1>1. /\ ram.ready /\ Valid(flash[AckSlot]) /\ flash[AckSlot].id = id
      /\ ram.pinned => id = ram.ack.id
  BY DEF AckMatches
<1>2. AckSlot \in Slot /\ SectorOf(AckSlot) \in Sector /\ flash \in [Slot -> Contents]
  BY <1>1, ReadyIs
<1>3. flash[AckSlot] \in Contents  BY <1>2
<1>4. flash[AckSlot] = Rec(id, flash[AckSlot].acked)  BY <1>1, <1>3, ContentsAre
<1>5. ASSUME NEW b \in BOOLEAN
      PROVE  [flash EXCEPT ![AckSlot].acked = b] = [flash EXCEPT ![AckSlot] = Rec(id, b)]
  <2>1. [flash[AckSlot] EXCEPT !.acked = b] = Rec(id, b)
    BY <1>4 DEF Rec
  <2>2. [flash EXCEPT ![AckSlot].acked = b]
          = [flash EXCEPT ![AckSlot] = [flash[AckSlot] EXCEPT !.acked = b]]
    BY <1>2
  <2>3. QED  BY <2>1, <2>2
<1>6. ram.pinned => AckSlot = ram.ack.slot  BY DEF AckSlot
<1>7. /\ Sound(Load(ram, SectorOf(AckSlot)), BlankSlots, DueSlots)
      /\ Keeps(Load(ram, SectorOf(AckSlot)), ram)
      /\ Cached(Load(ram, SectorOf(AckSlot)), SectorOf(AckSlot))
  BY <1>1, <1>2, ReadyIs, LoadSound
<1>8. QED  BY <1>1, <1>2, <1>5, <1>6, <1>7

(* A confirmed record.                                                     *)
LEMMA AcknowledgeStep ==
  ASSUME IInv, NEW id \in Identity, Acknowledge(id)
  PROVE  IInv'
<1> DEFINE s == AckSlot
           q == Load(ram, SectorOf(s))
           done == SetSlot(q, s, "used")
           read == IF done.read = s THEN NextSlot(s) ELSE done.read
           r == [done EXCEPT !.read = read, !.pinned = FALSE, !.ack = NoAck]
<1>1. /\ AckMatches(id)
      /\ flash' = [flash EXCEPT ![s].acked = TRUE]
      /\ ram' = r /\ owed' = owed \ {id}
      /\ UNCHANGED <<store, newest, mishaps>>
  BY DEF Acknowledge, Acknowledged
<1>2. /\ ram.ready /\ s \in Slot /\ SectorOf(s) \in Sector
      /\ Valid(flash[s]) /\ flash[s].id = id
      /\ flash' = [flash EXCEPT ![s] = Rec(id, TRUE)]
      /\ Sound(q, BlankSlots, DueSlots)
      /\ Keeps(q, ram) /\ Cached(q, SectorOf(s))
  BY <1>1, AckTakes
<1> HIDE DEF q, s
<1>3. /\ Rec(id, TRUE) \in Contents /\ Rec(id, TRUE) # Blank
      /\ Valid(Rec(id, TRUE)) => Rec(id, TRUE).id = id
  BY RecIs
<1>4. /\ flash' \in [Slot -> Contents]
      /\ flash'[s] = Rec(id, TRUE)
      /\ BlankSlots' = BlankSlots
      /\ DueSlots' \subseteq DueSlots
      /\ s \notin DueSlots'
      /\ OwedStored' /\ ConfirmedOnce'
      /\ \A t \in Slot : Valid(flash'[t]) => Valid(flash[t]) /\ flash'[t].id = flash[t].id
  BY <1>1, <1>2, <1>3, Retired
<1>5. "used" \in SlotState \ {"free"}  BY DEF SlotState
<1>6. BlankSlots \in SUBSET Slot /\ DueSlots \in SUBSET Slot /\ DueSlots' \in SUBSET Slot
  BY BlankAndDue DEF DueSlots
<1>7. Sound(done, BlankSlots \ {s}, DueSlots') /\ Keeps(done, q)
  <2>1. DueSlots' \subseteq DueSlots \cup {s}  BY <1>4
  <2>2. QED  BY <1>2, <1>4, <1>5, <1>6, <2>1, SetSlotSound
<1>8. BlankSlots \ {s} = BlankSlots'
  <2>1. s \notin BlankSlots  BY <1>2 DEF BlankSlots, Valid, Blank
  <2>2. QED  BY <1>4, <2>1
<1> HIDE DEF done
<1>9. Sound(done, BlankSlots', DueSlots') /\ done \in Ram
  BY <1>7, <1>8 DEF Sound
<1>10. read \in Slot
  <2>1. done.read \in Slot  BY <1>9, RamIs
  <2>2. QED  BY <1>2, <2>1, NextSlotIn
<1> HIDE DEF read
<1>11. NoAck \in [slot : Slot, id : Identity \cup {NoId}]  BY ZeroIn DEF NoAck
<1>12. r \in Ram  BY <1>9, <1>10, <1>11 DEF Ram
<1>13. /\ r.cache = done.cache /\ r.sum = done.sum /\ r.free = done.free
       /\ r.epoch = done.epoch /\ r.seq = done.seq
       /\ r.ready <=> done.ready
       /\ ~r.pinned
  BY <1>9 DEF Ram
<1> HIDE DEF r
<1>14. Sound(r, BlankSlots', DueSlots')
  <2>1. DueSlots' \subseteq DueSlots'  OBVIOUS
  <2>2. QED  BY <1>9, <1>12, <1>13, <2>1, SameSound
<1>15. r.epoch = ram.epoch /\ r.seq = ram.seq
  BY <1>2, <1>7, <1>13, KeepsBook
<1>16. TypeOK'  BY <1>1, <1>4, <1>12 DEF IInv, TypeOK
<1>17. RamSound'  BY <1>1, <1>14 DEF RamSound
<1>18. AckPinned' /\ (ram.pinned => ram.ready)'  BY <1>1, <1>13 DEF AckPinned
<1>19. Ids'  BY <1>1, <1>2, <1>4, <1>15, IdsKept
<1>20. QED  BY <1>4, <1>16, <1>17, <1>18, <1>19 DEF IInv

(* A confirmation nobody can be sure of pins the record.                   *)
LEMMA AckBreaksStep ==
  ASSUME IInv, NEW id \in Identity, AckBreaks(id)
  PROVE  IInv'
<1> DEFINE s == AckSlot
           q == Load(ram, SectorOf(s))
           ack == [slot |-> s, id |-> id]
           r == [q EXCEPT !.pinned = TRUE, !.ack = ack]
<1>1. /\ AckMatches(id) /\ Mishap
      /\ ram' \in {Off, r} /\ owed' = owed \ {id}
      /\ UNCHANGED <<store, newest>>
  BY DEF AckBreaks
<1>2. PICK b \in BOOLEAN : flash' = [flash EXCEPT ![s].acked = b]
  BY DEF AckBreaks
<1>3. /\ ram.ready /\ s \in Slot /\ SectorOf(s) \in Sector
      /\ Valid(flash[s]) /\ flash[s].id = id
      /\ flash' = [flash EXCEPT ![s] = Rec(id, b)]
      /\ Sound(q, BlankSlots, DueSlots)
      /\ Keeps(q, ram)
  BY <1>1, <1>2, AckTakes
<1> HIDE DEF q, s
<1>4. /\ Rec(id, b) \in Contents /\ Rec(id, b) # Blank
      /\ Valid(Rec(id, b)) /\ Rec(id, b).id = id
  BY RecIs
<1>5. /\ flash' \in [Slot -> Contents]
      /\ flash'[s] = Rec(id, b)
      /\ BlankSlots' = BlankSlots
      /\ DueSlots' \subseteq DueSlots
      /\ OwedStored' /\ ConfirmedOnce'
      /\ \A t \in Slot : Valid(flash'[t]) => Valid(flash[t]) /\ flash'[t].id = flash[t].id
  BY <1>1, <1>3, <1>4, Retired
<1>6. q \in Ram  BY <1>3 DEF Sound
<1>7. ack \in [slot : Slot, id : Identity \cup {NoId}] /\ ack.slot = s /\ ack.id = id
  BY <1>3
<1> HIDE DEF ack
<1>8. r \in Ram  BY <1>6, <1>7 DEF Ram
<1>9. /\ r.cache = q.cache /\ r.sum = q.sum /\ r.free = q.free
      /\ r.epoch = q.epoch /\ r.seq = q.seq /\ r.ack = ack
      /\ r.ready <=> q.ready
      /\ r.pinned
  BY <1>6 DEF Ram
<1> HIDE DEF r
<1>10. Sound(r, BlankSlots', DueSlots')
  BY <1>3, <1>5, <1>8, <1>9, SameSound
<1>11. r.epoch = ram.epoch /\ r.seq = ram.seq /\ r.ready
  BY <1>3, <1>9, KeepsBook
<1>12. TypeOK'
  <2>1. ram' \in Ram  BY <1>1, <1>8, OffIs
  <2>2. mishaps' \in 0 .. MaxMishaps  BY <1>1, MishapIs
  <2>3. QED  BY <1>1, <1>5, <2>1, <2>2 DEF IInv, TypeOK
<1>13. CASE ram' = Off
  <2>1. (newest.epoch <= store)'  BY <1>1 DEF IInv, Ids
  <2>2. QED  BY <1>5, <1>12, <1>13, <2>1, OffStep
<1>14. CASE ram' = r
  <2>1. RamSound'  BY <1>10, <1>14 DEF RamSound
  <2>2. AckPinned' /\ (ram.pinned => ram.ready)'
    BY <1>4, <1>5, <1>7, <1>9, <1>11, <1>14 DEF AckPinned
  <2>3. Ids'  BY <1>1, <1>3, <1>5, <1>11, <1>14, IdsKept
  <2>4. QED  BY <1>5, <1>12, <2>1, <2>2, <2>3 DEF IInv
<1>15. QED  BY <1>1, <1>13, <1>14

(* Bit errors in a committed record.                                       *)
LEMMA DecayStep ==
  ASSUME IInv, NEW s \in Slot, Decay(s)
  PROVE  IInv'
<1>1. /\ Valid(flash[s]) /\ Mishap
      /\ flash' = [flash EXCEPT ![s] = Corrupt]
      /\ owed' = owed \ {flash[s].id}
      /\ UNCHANGED <<store, ram, newest>>
  BY DEF Decay
<1>2. Corrupt \in Contents /\ Corrupt # Blank /\ ~Valid(Corrupt)
  BY DEF Contents, Corrupt, Blank, Valid
<1>3. /\ flash' \in [Slot -> Contents]
      /\ flash'[s] = Corrupt
      /\ \A t \in Slot : t # s => flash'[t] = flash[t]
      /\ BlankSlots' = BlankSlots
      /\ DueSlots' \subseteq DueSlots
      /\ OwedStored' /\ ConfirmedOnce'
      /\ \A t \in Slot : Valid(flash'[t]) => Valid(flash[t]) /\ flash'[t].id = flash[t].id
  BY <1>1, <1>2, Retired
<1>4. TypeOK'
  <2>1. mishaps' \in 0 .. MaxMishaps  BY <1>1, MishapIs
  <2>2. QED  BY <1>1, <1>3, <2>1 DEF IInv, TypeOK
<1>5. RamSound'
  <2>1. ASSUME ram.ready PROVE Sound(ram, BlankSlots', DueSlots')
    <3>1. Sound(ram, BlankSlots, DueSlots) /\ ram \in Ram  BY <2>1, ReadyIs
    <3>2. QED  BY <1>3, <3>1, SameSound
  <2>2. QED  BY <1>1, <2>1 DEF RamSound
<1>6. AckPinned' /\ (ram.pinned => ram.ready)'
  <2>1. ASSUME ram.pinned
        PROVE  \/ flash'[ram.ack.slot] = Corrupt
               \/ Valid(flash'[ram.ack.slot]) /\ flash'[ram.ack.slot].id = ram.ack.id
    <3>1. ram.ack.slot \in Slot  BY RamIs DEF IInv, TypeOK
    <3>2. \/ flash[ram.ack.slot] = Corrupt
          \/ Valid(flash[ram.ack.slot]) /\ flash[ram.ack.slot].id = ram.ack.id
      BY <2>1 DEF IInv, AckPinned
    <3>3. QED  BY <1>3, <3>1, <3>2
  <2>2. QED  BY <1>1, <2>1 DEF IInv, AckPinned
<1>7. Ids'  BY <1>1, <1>3, IdsKept
<1>8. QED  BY <1>3, <1>4, <1>5, <1>6, <1>7 DEF IInv

LEMMA HalfErasedIs ==
  ASSUME NEW c \in Contents, NEW w \in HalfErased(c)
  PROVE  w \in Contents /\ (Valid(w) => Valid(c) /\ w.id = c.id)
<1>1. CASE w \in {c, Blank, Torn, Corrupt}
  BY <1>1 DEF Contents, Blank, Torn, Corrupt, Valid
<1>2. CASE Valid(c) /\ w = Rec(c.id, FALSE)
  <2>1. c.id \in Identity  BY <1>2, ContentsAre
  <2>2. QED  BY <1>2, <2>1, RecIs
<1>3. QED  BY <1>1, <1>2 DEF HalfErased

LEMMA ReclaimingIs ==
  ASSUME NEW k \in Sector, Reclaiming(k)
  PROVE  ram.ready /\ ~(ram.pinned /\ SectorOf(ram.ack.slot) = k)
BY DEF Reclaiming, Candidates, FullyUsed, PartUsed, Reclaimable

(* What an erase, whole or half done, of a sector that passed the second   *)
(* look leaves alone: everything owed, and the record of a pinned ack.     *)
LEMMA Erasing ==
  ASSUME IInv, NEW k \in Sector, Reclaiming(k), Discardable(k),
         NEW left, \A s \in SlotsOf(k) : left[s] \in HalfErased(flash[s]),
         flash' = [s \in Slot |-> IF SectorOf(s) = k THEN left[s] ELSE flash[s]],
         owed' = owed
  PROVE  /\ flash' \in [Slot -> Contents]
         /\ \A s \in Slot : SectorOf(s) # k => (s \in BlankSlots' <=> s \in BlankSlots)
         /\ \A s \in SlotsOf(k) : flash'[s] = left[s]
         /\ DueSlots' \subseteq DueSlots
         /\ DueSlots' \cap SlotsOf(k) = {}
         /\ OwedStored' /\ ConfirmedOnce'
         /\ \A s \in Slot : Valid(flash'[s]) => Valid(flash[s]) /\ flash'[s].id = flash[s].id
         /\ ram.pinned => flash'[ram.ack.slot] = flash[ram.ack.slot]
<1>1. flash \in [Slot -> Contents] /\ ram.ready
  BY ReclaimingIs DEF IInv, TypeOK
<1>2. \A s \in Slot : SectorOf(s) \in Sector /\ s \in SlotsOf(SectorOf(s))
  BY SlotSector
<1>3. \A s \in SlotsOf(k) : s \in Slot /\ SectorOf(s) = k  BY SectorSlot
<1>4. /\ \A s \in Slot : SectorOf(s) # k => flash'[s] = flash[s]
      /\ \A s \in SlotsOf(k) : flash'[s] = left[s]
  BY <1>3
<1>5. \A s \in SlotsOf(k) :
        left[s] \in Contents /\ (Valid(left[s]) => Valid(flash[s]) /\ left[s].id = flash[s].id)
  BY <1>1, <1>3, HalfErasedIs
<1>6. flash' \in [Slot -> Contents]
  <2>1. \A s \in Slot : (IF SectorOf(s) = k THEN left[s] ELSE flash[s]) \in Contents
    BY <1>1, <1>2, <1>5
  <2>2. QED  BY <2>1
<1>7. ASSUME NEW s \in SlotsOf(k), Valid(flash[s])
      PROVE  flash[s].acked /\ flash[s].id \notin owed
  <2>1. s \in Slot /\ flash[s] \in Contents  BY <1>1, <1>3
  <2>2. Classify(flash[s]) # "pending"  BY DEF Discardable
  <2>3. flash[s].acked  BY <1>7, <2>1, <2>2, ContentsAre
  <2>4. QED  BY <1>7, <2>1, <2>3 DEF IInv, ConfirmedOnce
<1>8. \A s \in Slot : Valid(flash'[s]) => Valid(flash[s]) /\ flash'[s].id = flash[s].id
  BY <1>2, <1>4, <1>5
<1>9. DueSlots' \cap SlotsOf(k) = {}
  <2>1. ASSUME NEW s \in SlotsOf(k), s \in DueSlots' PROVE FALSE
    <3>1. Valid(flash'[s]) /\ flash'[s].id \in owed  BY <2>1 DEF DueSlots
    <3>2. Valid(flash[s]) /\ flash[s].id \in owed  BY <1>3, <1>8, <3>1
    <3>3. QED  BY <1>7, <3>2
  <2>2. QED  BY <2>1
<1>10. DueSlots' \subseteq DueSlots
  <2>1. ASSUME NEW s \in Slot, s \in DueSlots' PROVE s \in DueSlots
    <3>1. SectorOf(s) # k  BY <1>2, <1>9, <2>1
    <3>2. flash'[s] = flash[s]  BY <1>4, <3>1
    <3>3. Valid(flash'[s]) /\ ~flash'[s].acked /\ flash'[s].id \in owed
      BY <2>1 DEF DueSlots
    <3>4. QED  BY <3>2, <3>3 DEF DueSlots
  <2>2. DueSlots' \subseteq Slot  BY DEF DueSlots
  <2>3. QED  BY <2>1, <2>2
<1>11. \A s \in Slot : SectorOf(s) # k => (s \in BlankSlots' <=> s \in BlankSlots)
  BY <1>4 DEF BlankSlots
<1>12. OwedStored'
  <2>1. ASSUME NEW id \in owed PROVE \E s \in Slot : flash'[s] = Rec(id, FALSE)
    <3>1. PICK s \in Slot : flash[s] = Rec(id, FALSE)  BY DEF IInv, OwedStored
    <3>2. id \in Identity  BY DEF IInv, TypeOK
    <3>3. Valid(flash[s]) /\ ~flash[s].acked  BY <3>1, <3>2, RecIs
    <3>4. SectorOf(s) # k  BY <1>2, <1>7, <3>3
    <3>5. QED  BY <1>4, <3>1, <3>4
  <2>2. QED  BY <2>1 DEF OwedStored
<1>13. ConfirmedOnce'
  <2>1. ASSUME NEW s \in Slot, Valid(flash'[s]), flash'[s].acked
        PROVE  flash'[s].id \notin owed
    <3>1. CASE SectorOf(s) = k
      <4>1. s \in SlotsOf(k) /\ Valid(flash[s])  BY <1>2, <1>8, <2>1, <3>1
      <4>2. QED  BY <1>7, <1>8, <2>1, <4>1
    <3>2. CASE SectorOf(s) # k
      <4>1. flash'[s] = flash[s]  BY <1>4, <3>2
      <4>2. QED  BY <2>1, <4>1 DEF IInv, ConfirmedOnce
    <3>3. QED  BY <3>1, <3>2
  <2>2. QED  BY <2>1 DEF ConfirmedOnce
<1>14. ram.pinned => flash'[ram.ack.slot] = flash[ram.ack.slot]
  <2>1. ram.ack.slot \in Slot  BY <1>1, ReadyIs, RamIs
  <2>2. QED  BY <1>4, <2>1, ReclaimingIs
<1>15. QED
  BY <1>4, <1>6, <1>8, <1>9, <1>10, <1>11, <1>12, <1>13, <1>14

(* The reclaimed sector is free again.                                     *)
LEMMA ReclaimStep ==
  ASSUME IInv, NEW k \in Sector, Reclaim(k)
  PROVE  IInv'
<1> DEFINE l == Load(ram, k)
           q == Quarantine(l, k)
           r == Freed(q, k)
           left == [s \in SlotsOf(k) |-> Blank]
<1>1. /\ ram.ready /\ Reclaiming(k) /\ Discardable(k)
      /\ flash' = [s \in Slot |-> IF SectorOf(s) = k THEN Blank ELSE flash[s]]
      /\ ram' = r
      /\ UNCHANGED <<store, owed, newest, mishaps>>
  BY DEF Reclaim, Reclaiming, Emptied, Freed
<1>2. \A s \in SlotsOf(k) : left[s] \in HalfErased(flash[s])  BY DEF HalfErased
<1>3. flash' = [s \in Slot |-> IF SectorOf(s) = k THEN left[s] ELSE flash[s]]
  <2>1. \A s \in Slot : SectorOf(s) = k => left[s] = Blank  BY SlotSector
  <2>2. QED  BY <1>1, <2>1
<1> HIDE DEF left
<1>4. /\ flash' \in [Slot -> Contents]
      /\ \A s \in Slot : SectorOf(s) # k => (s \in BlankSlots' <=> s \in BlankSlots)
      /\ \A s \in SlotsOf(k) : flash'[s] = left[s]
      /\ DueSlots' \subseteq DueSlots
      /\ DueSlots' \cap SlotsOf(k) = {}
      /\ OwedStored' /\ ConfirmedOnce'
      /\ \A s \in Slot : Valid(flash'[s]) => Valid(flash[s]) /\ flash'[s].id = flash[s].id
      /\ ram.pinned => flash'[ram.ack.slot] = flash[ram.ack.slot]
  BY <1>1, <1>2, <1>3, Erasing
<1>5. /\ Sound(l, BlankSlots, DueSlots)
      /\ Cached(l, k)
      /\ Keeps(l, ram)
  BY <1>1, ReadyIs, LoadSound
<1>6. /\ BlankSlots \in SUBSET Slot /\ DueSlots \in SUBSET Slot
      /\ BlankSlots' \in SUBSET Slot /\ DueSlots' \in SUBSET Slot
  BY DEF BlankSlots, DueSlots
<1> HIDE DEF l
<1>7. /\ Sound(q, BlankSlots, DueSlots) /\ Keeps(q, l)
      /\ Quarantined(q, k) /\ Cached(q, k)
  <2>1. /\ \A s \in Slot : SectorOf(s) # k => (s \in BlankSlots <=> s \in BlankSlots)
        /\ DueSlots \subseteq DueSlots
    OBVIOUS
  <2>2. QED  BY <1>5, <1>6, <2>1, QuarantineSound DEF Outside
<1> HIDE DEF q
<1>8. Sound(r, BlankSlots', DueSlots') /\ Keeps(r, q)
  <2>1. SlotsOf(k) \subseteq BlankSlots'
    BY <1>4, SectorSlot DEF left, BlankSlots
  <2>2. \A s \in Slot : SectorOf(s) # k => (s \in BlankSlots' <=> s \in BlankSlots)
    BY <1>4
  <2>3. DueSlots' \subseteq DueSlots /\ DueSlots' \cap SlotsOf(k) = {}  BY <1>4
  <2>4. Sound(q, BlankSlots, DueSlots) /\ Quarantined(q, k) /\ Cached(q, k)  BY <1>7
  <2>5. QED  BY <1>6, <2>1, <2>2, <2>3, <2>4, FreedSound
<1> HIDE DEF r
<1>9. Keeps(r, ram)  BY <1>5, <1>7, <1>8 DEF Keeps
<1>10. TypeOK'  BY <1>1, <1>4, <1>8 DEF IInv, TypeOK, Sound
<1>11. RamSound'  BY <1>1, <1>8 DEF RamSound
<1>12. AckPinned' /\ (ram.pinned => ram.ready)'
  <2>1. ASSUME ram'.pinned
        PROVE  \/ flash'[ram'.ack.slot] = Corrupt
               \/ Valid(flash'[ram'.ack.slot]) /\ flash'[ram'.ack.slot].id = ram'.ack.id
    <3>1. ram.pinned /\ ram'.ack = ram.ack  BY <1>1, <1>9, <2>1, KeepsBook
    <3>2. flash'[ram.ack.slot] = flash[ram.ack.slot]  BY <1>4, <3>1
    <3>3. QED  BY <3>1, <3>2 DEF IInv, AckPinned
  <2>2. ram'.ready  BY <1>1, <1>9, KeepsBook
  <2>3. QED  BY <2>1, <2>2 DEF AckPinned
<1>13. Ids'
  <2>1. ram'.epoch = ram.epoch /\ ram'.seq = ram.seq  BY <1>1, <1>9, KeepsBook
  <2>2. QED  BY <1>1, <1>4, <2>1, IdsKept
<1>14. QED  BY <1>4, <1>10, <1>11, <1>12, <1>13 DEF IInv

(* A reclaim whose erase fails or is cut short.                            *)
LEMMA ReclaimBreaksStep ==
  ASSUME IInv, NEW k \in Sector, ReclaimBreaks(k)
  PROVE  IInv'
<1> DEFINE l == Load(ram, k)
           r == Quarantine(l, k)
<1>1. /\ ram.ready /\ Reclaiming(k) /\ Discardable(k) /\ Mishap
      /\ ram' \in {r, Off}
      /\ UNCHANGED <<store, owed, newest>>
  BY DEF ReclaimBreaks, Reclaiming
<1>2. PICK left \in [SlotsOf(k) -> UNION {HalfErased(flash[s]) : s \in SlotsOf(k)}] :
        /\ \A s \in SlotsOf(k) : left[s] \in HalfErased(flash[s])
        /\ flash' = [s \in Slot |-> IF SectorOf(s) = k THEN left[s] ELSE flash[s]]
  BY DEF ReclaimBreaks
<1>3. /\ flash' \in [Slot -> Contents]
      /\ \A s \in Slot : SectorOf(s) # k => (s \in BlankSlots' <=> s \in BlankSlots)
      /\ DueSlots' \subseteq DueSlots
      /\ OwedStored' /\ ConfirmedOnce'
      /\ \A s \in Slot : Valid(flash'[s]) => Valid(flash[s]) /\ flash'[s].id = flash[s].id
      /\ ram.pinned => flash'[ram.ack.slot] = flash[ram.ack.slot]
  BY <1>1, <1>2, Erasing
<1>4. /\ Sound(l, BlankSlots, DueSlots)
      /\ Cached(l, k)
      /\ Keeps(l, ram)
  BY <1>1, ReadyIs, LoadSound
<1>5. /\ BlankSlots \in SUBSET Slot /\ DueSlots \in SUBSET Slot
      /\ BlankSlots' \in SUBSET Slot /\ DueSlots' \in SUBSET Slot
  BY DEF BlankSlots, DueSlots
<1> HIDE DEF l
<1>6. Sound(r, BlankSlots', DueSlots') /\ Keeps(r, l)
  <2>1. \A s \in Slot : SectorOf(s) # k => (s \in BlankSlots' <=> s \in BlankSlots)
    BY <1>3
  <2>2. DueSlots' \subseteq DueSlots  BY <1>3
  <2>3. Sound(l, BlankSlots, DueSlots) /\ Cached(l, k)  BY <1>4
  <2>4. QED  BY <1>5, <2>1, <2>2, <2>3, QuarantineSound DEF Outside
<1> HIDE DEF r
<1>7. Keeps(r, ram)  BY <1>4, <1>6 DEF Keeps
<1>8. TypeOK'
  <2>1. ram' \in Ram  BY <1>1, <1>6, OffIs DEF Sound
  <2>2. mishaps' \in 0 .. MaxMishaps  BY <1>1, MishapIs
  <2>3. QED  BY <1>1, <1>3, <2>1, <2>2 DEF IInv, TypeOK
<1>9. CASE ram' = Off
  <2>1. (newest.epoch <= store)'  BY <1>1 DEF IInv, Ids
  <2>2. QED  BY <1>3, <1>8, <1>9, <2>1, OffStep
<1>10. CASE ram' = r
  <2>1. RamSound'  BY <1>6, <1>10 DEF RamSound
  <2>2. AckPinned' /\ (ram.pinned => ram.ready)'
    <3>1. ASSUME ram'.pinned
          PROVE  \/ flash'[ram'.ack.slot] = Corrupt
                 \/ Valid(flash'[ram'.ack.slot]) /\ flash'[ram'.ack.slot].id = ram'.ack.id
      <4>1. ram.pinned /\ ram'.ack = ram.ack  BY <1>7, <1>10, <3>1, KeepsBook
      <4>2. flash'[ram.ack.slot] = flash[ram.ack.slot]  BY <1>3, <4>1
      <4>3. QED  BY <4>1, <4>2 DEF IInv, AckPinned
    <3>2. ram'.ready  BY <1>1, <1>7, <1>10, KeepsBook
    <3>3. QED  BY <3>1, <3>2 DEF AckPinned
  <2>3. Ids'
    <3>1. ram'.epoch = ram.epoch /\ ram'.seq = ram.seq  BY <1>7, <1>10, KeepsBook
    <3>2. QED  BY <1>1, <1>3, <3>1, IdsKept
  <2>4. QED  BY <1>3, <1>8, <2>1, <2>2, <2>3 DEF IInv
<1>11. QED  BY <1>1, <1>9, <1>10

-----------------------------------------------------------------------------
(* The theorems *)

LEMMA InitIInv == ASSUME Init PROVE IInv
<1>1. /\ flash = [s \in Slot |-> Blank] /\ store = 0 /\ ram = Off
      /\ owed = {} /\ newest = NoId /\ mishaps = 0
  BY DEF Init
<1>2. flash \in [Slot -> Contents] /\ \A s \in Slot : ~Valid(flash[s])
  BY <1>1 DEF Contents, Blank, Valid
<1>3. ram \in Ram /\ ~ram.ready /\ ~ram.pinned  BY <1>1, OffIs
<1>4. TypeOK  BY <1>1, <1>2, <1>3, QueueAssumption DEF TypeOK
<1>5. OwedStored /\ ConfirmedOnce  BY <1>1 DEF OwedStored, ConfirmedOnce
<1>6. Ids  BY <1>1, <1>3 DEF Ids, NoId
<1>7. QED  BY <1>3, <1>4, <1>5, <1>6 DEF IInv, RamSound, AckPinned

LEMMA StutterIInv == ASSUME IInv, UNCHANGED vars PROVE IInv'
<1>1. UNCHANGED <<flash, store, ram, owed, newest, mishaps>>  BY DEF vars
<1>2. TypeOK' /\ OwedStored' /\ ConfirmedOnce' /\ AckPinned' /\ Ids'
  BY <1>1 DEF IInv, TypeOK, OwedStored, ConfirmedOnce, AckPinned, Ids
<1>3. RamSound'  BY <1>1 DEF IInv, RamSound, BlankSlots, DueSlots
<1>4. QED  BY <1>1, <1>2, <1>3 DEF IInv

LEMMA NextIInv == ASSUME IInv, Next PROVE IInv'
<1>1. CASE Start  BY <1>1, StartStep
<1>2. CASE StartExhausted \/ StartFails  BY <1>2, ShutStep
<1>3. CASE AppendRecord  BY <1>3, AppendStep
<1>4. CASE AppendRefused \/ PeekRefused \/ AckMismatch  BY <1>4, LookStep
<1>5. CASE AppendBreaks  BY <1>5, AppendBreaksStep
<1>6. CASE Peek  BY <1>6, PeekStep
<1>7. CASE PeekCorrupt  BY <1>7, PeekCorruptStep
<1>8. ASSUME NEW id \in Identity, Acknowledge(id) \/ AckBreaks(id) PROVE IInv'
  BY <1>8, AcknowledgeStep, AckBreaksStep
<1>9. ASSUME NEW k \in Sector, Reclaim(k) PROVE IInv'  BY <1>9, ReclaimStep
<1>10. ASSUME NEW k \in Sector, ReclaimFindsRecord(k) \/ ReclaimDenied(k) PROVE IInv'
  BY <1>10, ReclaimLooksStep
<1>11. ASSUME NEW k \in Sector, ReclaimBreaks(k) PROVE IInv'
  BY <1>11, ReclaimBreaksStep
<1>12. CASE ReadFails  BY <1>12, ReadFailsStep
<1>13. ASSUME NEW s \in Slot, Decay(s) PROVE IInv'  BY <1>13, DecayStep
<1>14. QED
  BY <1>1, <1>2, <1>3, <1>4, <1>5, <1>6, <1>7, <1>8, <1>9, <1>10, <1>11, <1>12,
     <1>13 DEF Next

THEOREM Invariant == Spec => []IInv
<1>1. Init => IInv  BY InitIInv
<1>2. IInv /\ [Next]_vars => IInv'
  BY NextIInv, StutterIInv
<1>3. QED  BY <1>1, <1>2, PTL DEF Spec

(* The count of free slots and the types hold for every region: no failed  *)
(* call, power cut, reload or reclaim makes free_slots drift.              *)
THEOREM CountRight == Spec => []FreeCounted
<1>1. IInv => FreeCounted
  <2> SUFFICES ASSUME IInv PROVE FreeCounted  OBVIOUS
  <2>1. TypeOK  BY DEF IInv
  <2>2. ASSUME ram.ready
        PROVE  ram.free = Cardinality({s \in Slot : /\ flash[s] = Blank
                                                   /\ ~Quarantined(ram, SectorOf(s))})
    <3>1. {s \in Slot : flash[s] = Blank /\ ~Quarantined(ram, SectorOf(s))}
            = Usable(ram, BlankSlots)
      BY DEF Usable, BlankSlots
    <3>2. ram.free = Cardinality(Usable(ram, BlankSlots))
      BY <2>2, ReadyIs DEF Sound
    <3>3. QED  BY <3>1, <3>2
  <2>3. QED  BY <2>1, <2>2 DEF FreeCounted
<1>2. QED  BY <1>1, Invariant, PTL

(* No record that is owed is ever lost or overwritten.                     *)
THEOREM OwedIsStored == Spec => []OwedStored
<1>1. IInv => OwedStored  BY DEF IInv
<1>2. QED  BY <1>1, Invariant, PTL

(* FindSlot overlooks no record that is owed and no erased slot.           *)
THEOREM SearchesMissNothing == Spec => []SearchesComplete
<1>1. IInv => SearchesComplete
  <2> SUFFICES ASSUME IInv PROVE SearchesComplete  OBVIOUS
  <2>1. ASSUME ram.ready, PeekFind.st = "none", NEW id \in owed PROVE FALSE
    <3>1. DueSlots = {}  BY <2>1, PeekFound DEF Targets
    <3>2. PICK s \in Slot : flash[s] = Rec(id, FALSE)  BY DEF IInv, OwedStored
    <3>3. id \in Identity  BY DEF IInv, TypeOK
    <3>4. Valid(flash[s]) /\ flash[s].id = id /\ ~flash[s].acked
      BY <3>2, <3>3, RecIs
    <3>5. s \in DueSlots  BY <3>4 DEF DueSlots
    <3>6. QED  BY <3>1, <3>5
  <2>2. EmptyOnlyWhenEmpty  BY <2>1 DEF EmptyOnlyWhenEmpty
  <2>3. ASSUME CanAppend, AppendFind.st = "none", NEW s \in Slot, flash[s] = Blank
        PROVE  Quarantined(ram, SectorOf(s))
    <3>1. ram.ready  BY <2>3 DEF CanAppend
    <3>2. Targets(ram, "free") = {}  BY <2>3, <3>1, AppendFound
    <3>3. Usable(ram, BlankSlots) = {}  BY <3>2 DEF Targets
    <3>4. QED  BY <2>3, <3>3 DEF Usable, BlankSlots
  <2>4. NoSpaceOnlyWhenFull  BY <2>3 DEF NoSpaceOnlyWhenFull
  <2>5. QED  BY <2>2, <2>4 DEF SearchesComplete
<1>2. QED  BY <1>1, Invariant, PTL

(* The record of an uncertain ack stays until the caller asks again.       *)
THEOREM PinnedIsKept == Spec => []AckPinned
<1>1. IInv => AckPinned  BY DEF IInv
<1>2. QED  BY <1>1, Invariant, PTL

(* No identity is given out twice, whatever fails or is cut short.         *)
THEOREM IdentitiesGrow == Spec => IdentityNew
<1> DEFINE A == newest' # newest =>
                  \/ newest'.epoch > newest.epoch
                  \/ newest'.epoch = newest.epoch /\ newest'.seq > newest.seq
<1>1. IInv /\ Next => A
  <2> SUFFICES ASSUME IInv, Next, newest' # newest
               PROVE  \/ newest'.epoch > newest.epoch
                      \/ newest'.epoch = newest.epoch /\ newest'.seq > newest.seq
    OBVIOUS
  <2>1. AppendRecord \/ AppendBreaks
    BY DEF Next, Start, StartExhausted, StartFails, AppendRefused, Peek, PeekCorrupt,
           PeekRefused, Acknowledge, AckBreaks, AckMismatch, Reclaim,
           ReclaimFindsRecord, ReclaimDenied, ReclaimBreaks, ReadFails, Decay
  <2>2. ram.ready /\ newest' = NewId
    BY <2>1 DEF AppendRecord, AppendBreaks, CanAppend
  <2>3. UpTo(newest, ram)  BY <2>2 DEF IInv, Ids
  <2>4. NewId.epoch = ram.epoch /\ NewId.seq = ram.seq + 1  BY DEF NewId
  <2>5. ram.epoch \in Nat /\ ram.seq \in Nat  BY <2>2, ReadyIs
  <2>6. newest.epoch \in Nat /\ newest.seq \in Nat
    BY IdentityIs DEF IInv, TypeOK
  <2>7. QED  BY <2>2, <2>3, <2>4, <2>5, <2>6 DEF UpTo
<1>2. IInv /\ [Next]_vars => [A]_vars  BY <1>1
<1>3. QED  BY <1>2, Invariant, PTL DEF Spec, IdentityNew
=============================================================================
