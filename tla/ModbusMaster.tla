---------------------------- MODULE ModbusMaster ----------------------------
(* ModbusMaster_Execute (Src/Protocol/ModbusMaster.c) over the RS-485       *)
(* receive cache: flush, send, wait for the answer, gather its fragments,   *)
(* parse.  The line carries at most one answer per try, whole, in two       *)
(* fragments, as an exception or garbled; it comes at any time, also after  *)
(* the time-out, or never.                                                  *)
(*                                                                          *)
(* A fragment is [piece, age]: age is a history mark that tells which try   *)
(* asked for it.  "own" is the running one; "late" was still on the line or *)
(* in the feeder's hands when the running try began; "stored" lay in the    *)
(* receive queue when it began.  The master cannot see it.                  *)
EXTENDS Rs485Core

CONSTANTS
    WireMax,        \* bound: fragments under way on the line
    MaxPieces,      \* bound: fragments that fill the receive buffer
    MaxNoise        \* bound: garbled fragments that nobody asked for

ASSUME BoundsAssumption ==
    WireMax \in Nat /\ MaxPieces \in Nat \ {0} /\ MaxNoise \in Nat

VARIABLES
    wire,           \* fragments under way, oldest first
    noise,          \* garbled fragments so far
    xact            \* the transaction: where Execute is and what it gathered

masterVars == <<frames, feeder, wire, noise, xact>>

Pieces == {"whole", "exception", "head", "tail", "noise"}
Ages == {"own", "late", "stored"}
Fragment == [piece : Pieces, age : Ages]

(* Statuses that ModbusQueue tells apart; MISMATCH stands for the ADDRESS,  *)
(* FUNCTION and FRAME errors, none of which is tried again.                 *)
Statuses == {"OK", "EXCEPTION", "MISMATCH", "CRC", "TIMEOUT", "TRANSPORT"}

XactIdle == [at |-> "idle", got |-> <<>>, status |-> "none"]
XactDone(status) == [at |-> "done", got |-> <<>>, status |-> status]

(* Marks are kept for the fragments an answer begins with.                  *)
AgedOne(f, age) == IF f.piece \in {"none", "tail", "noise"} THEN f ELSE [f EXCEPT !.age = age]
Aged(s, age) == [i \in DOMAIN s |-> AgedOne(s[i], age)]

MasterInit ==
    /\ Rs485Init
    /\ wire = <<>>
    /\ noise = 0
    /\ xact = XactIdle

Own(piece) == [piece |-> piece, age |-> "own"]

(* What the slave may put on the line for a request.                        *)
Answers == {<<>>, <<Own("whole")>>, <<Own("exception")>>, <<Own("noise")>>,
            <<Own("head"), Own("tail")>>}

-----------------------------------------------------------------------------
(* Execute begins with the flush: the marks of everything in the receive    *)
(* path are set for the new try.                                            *)
BeginTry ==
    /\ xact' = [XactIdle EXCEPT !.at = "flush"]
    /\ frames' = Aged(frames, "stored")
    /\ wire' = Aged(wire, "late")
    /\ feeder' = [feeder EXCEPT !.frame = AgedOne(@, "late")]
    /\ UNCHANGED noise

FlushOne ==
    /\ xact.at = "flush"
    /\ GetFrame
    /\ UNCHANGED <<wire, noise, xact>>

(* Mutant: the request is sent while the queue still holds fragments.       *)
FlushDoneEarly == xact.at = "flush"

FlushDone == xact.at = "flush" /\ frames = <<>>

(* transport->send; a failing one ends the try.                             *)
SendRequest ==
    /\ FlushDone
    /\ \E answer \in Answers :
         /\ Len(wire) + Len(answer) <= WireMax
         /\ wire' = wire \o answer
    /\ xact' = [xact EXCEPT !.at = "await"]
    /\ UNCHANGED <<frames, feeder, noise>>

SendFails ==
    /\ FlushDone
    /\ xact' = XactDone("TRANSPORT")
    /\ UNCHANGED <<frames, feeder, wire, noise>>

(* The first receive of a try, and the following ones with the short        *)
(* fragment time-out.                                                       *)
ReceivePiece ==
    /\ xact.at \in {"await", "gather"}
    /\ GetFrame
    /\ xact' = [xact EXCEPT !.at = "received", !.got = Append(@, Head(frames))]
    /\ UNCHANGED <<wire, noise>>

AnswerTimeout ==
    /\ xact.at = "await"
    /\ frames = <<>>
    /\ xact' = XactDone("TIMEOUT")
    /\ UNCHANGED <<frames, feeder, wire, noise>>

PiecesOf(got) == [i \in DOMAIN got |-> got[i].piece]

(* ExpectedLength: the bytes so far are a whole answer, the beginning of    *)
(* one, or garbled, and then the length they announce is anything.          *)
IsAnswer(got) == PiecesOf(got) \in {<<"whole">>, <<"exception">>, <<"head", "tail">>}
IsBeginning(got) == PiecesOf(got) = <<"head">>
LengthReached(got) == ~IsBeginning(got) \/ Len(got) = MaxPieces

LengthMissing(got) ==
    /\ ~(IsAnswer(got) /\ got[1].age = "own")
    /\ Len(got) < MaxPieces

GatherMore ==
    /\ xact.at = "received"
    /\ LengthMissing(xact.got)
    /\ xact' = [xact EXCEPT !.at = "gather"]
    /\ UNCHANGED <<frames, feeder, wire, noise>>

(* ModbusRtu_ParseResponse.  An answer to another try fits this request or  *)
(* does not; ADDRESS, FUNCTION and FRAME errors come after the CRC check,   *)
(* but fewer than five bytes are a FRAME error at once.                     *)
Parsed(got) ==
    IF ~IsAnswer(got) THEN {"CRC", "MISMATCH"}
    ELSE {IF got[1].piece = "exception" THEN "EXCEPTION" ELSE "OK"}
         \cup (IF got[1].age = "own" THEN {} ELSE {"MISMATCH"})

ParseAnswer ==
    /\ \/ xact.at = "received" /\ LengthReached(xact.got)
       \/ xact.at = "gather" /\ frames = <<>>
    /\ \E status \in Parsed(xact.got) : xact' = XactDone(status)
    /\ UNCHANGED <<frames, feeder, wire, noise>>

MasterStep == \/ FlushOne \/ SendRequest \/ SendFails \/ ReceivePiece
              \/ AnswerTimeout \/ GatherMore \/ ParseAnswer

-----------------------------------------------------------------------------
(* The line: the next fragment reaches the feeding task, or noise does.     *)
LineDelivers ==
    /\ wire # <<>>
    /\ Feed(Head(wire))
    /\ wire' = Tail(wire)
    /\ UNCHANGED <<noise, xact>>

LineNoise ==
    /\ noise < MaxNoise
    /\ noise' = noise + 1
    /\ Feed(Own("noise"))
    /\ UNCHANGED <<wire, xact>>

LineFeeds == FeedContinues /\ UNCHANGED <<wire, noise, xact>>

LineStep == LineDelivers \/ LineNoise \/ LineFeeds

-----------------------------------------------------------------------------
MasterTypeOK ==
    /\ frames \in Seq(Fragment) /\ Len(frames) <= FrameDepth
    /\ feeder \in [at : {"idle", "full", "again"}, frame : Fragment \cup {NoFrame}]
    /\ wire \in Seq(Fragment) /\ Len(wire) <= WireMax
    /\ noise \in 0 .. MaxNoise
    /\ xact.at \in {"idle", "flush", "await", "received", "gather", "done"}
    /\ xact.got \in Seq(Fragment) /\ Len(xact.got) <= MaxPieces
    /\ xact.status \in Statuses \cup {"none"}

(* What had been received before a try began is never taken for its answer, *)
(* whatever the feeding task was doing during the flush.  (An answer that   *)
(* was still under way may be: the protocol has no sequence numbers.)       *)
StoredNeverTaken == \A i \in DOMAIN xact.got : xact.got[i].age # "stored"
=============================================================================
