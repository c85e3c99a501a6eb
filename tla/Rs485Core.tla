----------------------------- MODULE Rs485Core -----------------------------
(* The RS-485 receive cache of Src/Bus/Rs485Core.c: one task feeds the      *)
(* fragments the UART delivers, one transaction owner flushes and receives. *)
(* The diagnostics last_frame and rx_count, which nothing here reads, are   *)
(* left out; a fragment is never longer than the buffers.                   *)
EXTENDS Naturals, Sequences

CONSTANT
    FrameDepth      \* entries of the receive queue (4 in the code)

ASSUME FrameDepthAssumption == FrameDepth \in Nat \ {0}

VARIABLES
    frames,         \* core->queue
    feeder          \* where the feeding task is inside Rs485Core_Feed

rs485Vars == <<frames, feeder>>

NoFrame == [piece |-> "none", age |-> "own"]
FeederIdle == [at |-> "idle", frame |-> NoFrame]

Rs485Init ==
    /\ frames = <<>>
    /\ feeder = FeederIdle

(* Feed up to its first osMessageQueuePut.  When that fails the task still  *)
(* holds the fragment and has two more calls to make.                       *)
Feed(f) ==
    /\ feeder.at = "idle"
    /\ IF Len(frames) < FrameDepth
       THEN frames' = Append(frames, f) /\ UNCHANGED feeder
       ELSE feeder' = [at |-> "full", frame |-> f] /\ UNCHANGED frames

(* The oldest fragment is taken out; the receiver may have emptied the      *)
(* queue in between, then there is nothing to discard.                      *)
FeedDiscard ==
    /\ feeder.at = "full"
    /\ frames' = SubSeq(frames, 2, Len(frames))
    /\ feeder' = [feeder EXCEPT !.at = "again"]

(* The second put.  Only this task puts, so there is room.                  *)
FeedAgain ==
    /\ feeder.at = "again"
    /\ frames' = Append(frames, feeder.frame)
    /\ feeder' = FeederIdle

FeedContinues == FeedDiscard \/ FeedAgain

(* One osMessageQueueGet by the owner, of Receive or of the loop of Flush.  *)
GetFrame ==
    /\ frames # <<>>
    /\ frames' = Tail(frames)
    /\ UNCHANGED feeder
=============================================================================
