-------------------------- MODULE ConnectTransfer --------------------------
(* The receiving session of Src/Net/ConnectTransfer.c: a file arrives in     *)
(* blocks which are lost, repeated, reordered or left over from another      *)
(* transfer, and is written to a sink that may be busy or fail; at the end   *)
(* the CRC over what was accepted decides.  Any block of any file may arrive *)
(* at any time, so the network needs no state of its own.                    *)
(*                                                                           *)
(* A CRC is represented by the bytes it covers: files are never confused.    *)
EXTENDS Integers, Sequences

CONSTANTS
    Byte,           \* what files consist of
    Files,          \* the files that are ever sent
    BlockMax,       \* bound: bytes of a block
    Timeout,        \* the receive timeout
    TransferRange   \* the tick counter wraps around at this value (2^32)

ASSUME TransferAssumption ==
    /\ Files \subseteq Seq(Byte) \ {<<>>}
    /\ BlockMax \in Nat
    /\ TransferRange \in Nat /\ Timeout \in 1 .. TransferRange - 1

VARIABLES
    session,        \* the ConnectTransfer structure
    sink,           \* the bytes the sink holds
    ticks,          \* the tick counter
    idle            \* history: real time since a new byte was accepted

transferVars == <<session, sink, ticks, idle>>

States == {"IDLE", "RECEIVING", "VERIFIED", "CANCELED"}

(* ConnectTransfer_Reset; expected and running are the CRCs.                *)
NewSession == [state |-> "IDLE", total |-> 0, expected |-> <<>>, received |-> 0,
               durable |-> 0, running |-> <<>>, progress |-> 0]

Live == session.state \in {"RECEIVING", "VERIFIED"}

TransferInit ==
    /\ session = NewSession
    /\ sink = <<>>
    /\ ticks = TransferRange - 1
    /\ idle = 0

-----------------------------------------------------------------------------
(* ConnectTransfer_Begin; while a session lives it changes nothing.         *)
BeginTransfer(file) ==
    /\ ~Live
    /\ session' = [NewSession EXCEPT !.state = "RECEIVING", !.total = Len(file),
                                     !.expected = file, !.progress = ticks]
    /\ idle' = 0
    /\ UNCHANGED <<sink, ticks>>

ResetTransfer == session' = NewSession /\ UNCHANGED <<sink, ticks, idle>>

Cancel == session' = [session EXCEPT !.state = "CANCELED"] /\ UNCHANGED <<sink, ticks, idle>>

(* A block of any file, its announced length equal to this session's.       *)
Blocks ==
    {[offset |-> b[2], bytes |-> SubSeq(b[1], b[2] + 1, b[2] + b[3])] :
        b \in {c \in Files \X (0 .. session.total - 1) \X (1 .. BlockMax) :
                 Len(c[1]) = session.total /\ c[2] + c[3] <= session.total}}

(* Written over what the sink held at offset and behind it.                 *)
Written(bytes, block) ==
    SubSeq(bytes, 1, block.offset) \o block.bytes
        \o SubSeq(bytes, block.offset + Len(block.bytes) + 1, Len(bytes))

Continues(block) == block.offset = session.received

(* ConnectTransfer_Accept of a new block.  BUSY and SINK_ERROR accept no    *)
(* byte and change nothing.                                                 *)
AcceptBlock(block) ==
    /\ session.state = "RECEIVING"
    /\ Continues(block)
    /\ sink' = Written(sink, block)
    /\ session' = [session EXCEPT !.running = @ \o block.bytes,
                                  !.received = @ + Len(block.bytes), !.progress = ticks]
    /\ idle' = 0
    /\ UNCHANGED ticks

(* Mutant: a repeated block counts as progress.                             *)
ReplayedProgress(s) == [s EXCEPT !.progress = ticks]

Replayed(s) == s

(* A block that was received before, or one with a gap, is answered         *)
(* DUPLICATE, CONFLICT or OFFSET.                                           *)
RefuseBlock(block) ==
    /\ Live
    /\ ~Continues(block)
    /\ session' = IF block.offset + Len(block.bytes) <= session.received
                  THEN Replayed(session) ELSE session
    /\ UNCHANGED <<sink, ticks, idle>>

(* Mutant: the CRC is not compared.                                         *)
AllReceivedUnchecked == session.received = session.total

AllReceived == session.received = session.total /\ session.running = session.expected

(* ConnectTransfer_Complete answering OK; otherwise it changes nothing.     *)
Complete ==
    /\ Live
    /\ AllReceived
    /\ session' = [session EXCEPT !.state = "VERIFIED"]
    /\ UNCHANGED <<sink, ticks, idle>>

ConfirmDurable(position) ==
    /\ Live
    /\ position >= session.durable
    /\ session' = [session EXCEPT !.durable = position]
    /\ UNCHANGED <<sink, ticks, idle>>

(* ConnectTransfer_TimedOut *)
TimedOut ==
    session.state = "RECEIVING" /\ (ticks - session.progress) % TransferRange >= Timeout

(* Time passes; the caller asks for the timeout often enough.               *)
TransferTick ==
    /\ idle < TransferRange - 1
    /\ ticks' = (ticks + 1) % TransferRange
    /\ idle' = IF session.state = "RECEIVING" THEN idle + 1 ELSE 0
    /\ UNCHANGED <<session, sink>>

TransferNext ==
    \/ \E file \in Files : BeginTransfer(file)
    \/ \E block \in Blocks : AcceptBlock(block) \/ RefuseBlock(block)
    \/ \E position \in 0 .. session.received : ConfirmDurable(position)
    \/ ResetTransfer \/ Cancel \/ Complete \/ TransferTick

TransferSpec == TransferInit /\ [][TransferNext]_transferVars

-----------------------------------------------------------------------------
TransferTypeOK ==
    /\ session.state \in States
    /\ session.durable <= session.received /\ session.received <= session.total
    /\ session.progress \in 0 .. TransferRange - 1
    /\ Live => session.expected \in Files

(* A verified session means that the sink holds exactly the announced file, *)
(* whatever blocks of whatever files arrived, how often and in what order,  *)
(* and whatever an earlier session had left in the sink.                    *)
VerifiedIsWhole ==
    /\ TransferTypeOK
    /\ session.state = "VERIFIED" =>
         /\ Len(sink) >= session.total
         /\ SubSeq(sink, 1, session.total) = session.expected

(* The session times out exactly when no new byte came for that long:       *)
(* replays do not keep it alive, and the clock may wrap around.             *)
TimesOutWhenIdle == session.state = "RECEIVING" => (TimedOut <=> idle >= Timeout)
=============================================================================
