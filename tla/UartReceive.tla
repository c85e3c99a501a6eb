---------------------------- MODULE UartReceive ----------------------------
(* The receive path of Src/UartReceive.c: an interrupt takes what the DMA   *)
(* received, restarts it and puts the chunk into the port's inbox; one task *)
(* serves the ports in turn.  With an RTOS the inbox is a message queue,    *)
(* without one it is the single staging frame.                              *)
(*                                                                          *)
(* A chunk is represented by its history mark: what was lost right before   *)
(* it.  "lost" is a loss the interrupt noticed (overflow, malformed size,   *)
(* receive error, or a chunk discarded because of one of these); "taken" is *)
(* one whose report the task has begun; "silent" are bytes that came while  *)
(* no reception was running.  hole is the mark the next chunk will carry.   *)
EXTENDS Naturals, Sequences

CONSTANTS
    Ports,          \* the registered ports, 1 .. s_count
    InboxDepth      \* UART_RECEIVE_QUEUE_DEPTH (8 in the code)

ASSUME UartAssumption ==
    /\ Ports \in {1 .. n : n \in 1 .. 255}
    /\ InboxDepth \in Nat \ {0}

VARIABLES
    rtos,           \* which build: USE_FREERTOS or not
    uart,           \* for each port: the flags, the inbox and the DMA's state
    hole,           \* history: the mark of the next chunk of each port
    server          \* where the serving task is, and the port it will serve next

uartVars == <<rtos, uart, hole, server>>

Marks == {"none", "lost", "taken", "silent"}
Port == [enabled : BOOLEAN, receiving : BOOLEAN, restart : BOOLEAN,
         loss : BOOLEAN, inbox : Seq(Marks)]

Capacity == IF rtos THEN InboxDepth ELSE 1

At(where, p) == [server EXCEPT !.at = where, !.port = p]

UartInit ==
    /\ rtos \in BOOLEAN
    /\ uart = [p \in Ports |-> [enabled |-> FALSE, receiving |-> FALSE, restart |-> FALSE,
                                loss |-> FALSE, inbox |-> <<>>]]
    /\ hole = [p \in Ports |-> "none"]
    /\ server = [at |-> "next", port |-> 1, next |-> 1, then |-> "next", flag |-> FALSE]

-----------------------------------------------------------------------------
(* Mutant: a failing start is not remembered.                               *)
RestartedForgotten(u, started) == [u EXCEPT !.receiving = started]

(* Interrupts.  They are not interrupted themselves; the DMA may fail to    *)
(* start (\E started), then the task has to restart it.                     *)
Restarted(u, started) == [u EXCEPT !.receiving = started, !.restart = ~started]

Lost(u) == [u EXCEPT !.loss = TRUE]

Full(u) == Len(u.inbox) >= Capacity

(* Without an RTOS the staging frame is filled before it is known to be     *)
(* free: a frame still pending is overwritten.                              *)
Overwritten(u) == [u EXCEPT !.inbox = IF rtos THEN @ ELSE <<"lost">>]

Put(u, mark) ==
    IF Full(u) THEN Overwritten(Lost(u)) ELSE [u EXCEPT !.inbox = Append(@, mark)]

(* HAL_UARTEx_RxEventCallback: the chunk is dropped when its size is wrong  *)
(* or a loss is pending, and put otherwise unless it is empty.              *)
RxEvent(p) ==
    /\ uart[p].receiving /\ uart[p].enabled
    /\ \E started \in BOOLEAN, size \in {"fits", "none", "malformed"} :
         LET u == Restarted(uart[p], started)
         IN \/ /\ size = "malformed" \/ u.loss
               /\ uart' = [uart EXCEPT ![p] = Lost(u)]
               /\ hole' = [hole EXCEPT ![p] = "lost"]
            \/ /\ size = "fits" /\ ~u.loss
               /\ uart' = [uart EXCEPT ![p] = Put(u, hole[p])]
               /\ hole' = [hole EXCEPT ![p] = IF Full(u) THEN "lost" ELSE "none"]
            \/ /\ size = "none" /\ ~u.loss
               /\ uart' = [uart EXCEPT ![p] = u]
               /\ UNCHANGED hole
    /\ UNCHANGED <<rtos, server>>

(* HAL_UART_ErrorCallback: the HAL has aborted the reception or not.        *)
RxError(p) ==
    /\ uart[p].receiving /\ uart[p].enabled
    /\ \E started \in BOOLEAN :
         uart' = [uart EXCEPT ![p] = Lost(Restarted(@, started))]
    /\ hole' = [hole EXCEPT ![p] = "lost"]
    /\ UNCHANGED <<rtos, server>>

(* Bytes arrive on an enabled port while no reception is running.           *)
Missed(p) ==
    /\ uart[p].enabled /\ ~uart[p].receiving
    /\ hole[p] = "none"
    /\ hole' = [hole EXCEPT ![p] = "silent"]
    /\ UNCHANGED <<rtos, uart, server>>

Interrupt == \E p \in Ports : RxEvent(p) \/ RxError(p) \/ Missed(p)

-----------------------------------------------------------------------------
(* Start called by the task.  The DMA is started first and restart_pending  *)
(* stored afterwards, with interrupts enabled in between.                   *)
StartByTask(p, then) ==
    \E started \in BOOLEAN :
        /\ uart[p].receiving => started
        /\ uart' = [uart EXCEPT ![p].receiving = started, ![p].enabled = TRUE]
        /\ server' = [At("store", p) EXCEPT !.then = then, !.flag = ~started]

StoreRestart ==
    /\ server.at = "store"
    /\ uart' = [uart EXCEPT ![server.port].restart = server.flag]
    /\ server' = [server EXCEPT !.at = server.then, !.flag = FALSE, !.then = "next"]
    /\ UNCHANGED <<rtos, hole>>

BeginReceive(p) ==
    /\ server.at = "next"
    /\ StartByTask(p, "next")
    /\ UNCHANGED <<rtos, hole>>

(* StopReceiveUartInfo; a reception that was running is given up, which is  *)
(* no loss.                                                                 *)
StopReceive(p) ==
    /\ server.at = "next"
    /\ uart[p].enabled
    /\ uart' = [uart EXCEPT ![p].enabled = FALSE, ![p].restart = FALSE, ![p].receiving = FALSE]
    /\ UNCHANGED <<rtos, hole, server>>

Turn(p) == IF p + 1 \in Ports THEN p + 1 ELSE 1

(* One round of the loop of ProcessUartBudget begins.  Where a budget ends  *)
(* makes no difference: s_next stays.                                       *)
Visit ==
    /\ server.at = "next"
    /\ LET p == server.next IN
       \/ /\ uart[p].restart /\ uart[p].enabled
          /\ \E started \in BOOLEAN :
                /\ uart[p].receiving => started
                /\ uart' = [uart EXCEPT ![p].receiving = started]
                /\ server' = [At("store", p) EXCEPT !.then = "look", !.flag = ~started,
                                                    !.next = Turn(p)]
       \/ /\ ~(uart[p].restart /\ uart[p].enabled)
          /\ server' = [At("look", p) EXCEPT !.next = Turn(p)]
          /\ UNCHANGED uart
    /\ UNCHANGED <<rtos, hole>>

(* Take reads loss_pending without masking interrupts.                      *)
Look ==
    /\ server.at = "look"
    /\ LET p == server.port IN
       server' = At(IF ~uart[p].loss THEN "get" ELSE IF rtos THEN "drain" ELSE "clear", p)
    /\ UNCHANGED <<rtos, uart, hole>>

(* The queue is drained, one call after the other; what is discarded is     *)
(* lost as well.                                                            *)
Drain ==
    /\ server.at = "drain"
    /\ LET p == server.port IN
       \/ /\ uart[p].inbox # <<>>
          /\ uart' = [uart EXCEPT ![p].inbox = Tail(@)]
          /\ hole' = [hole EXCEPT ![p] = "lost"]
          /\ UNCHANGED server
       \/ /\ uart[p].inbox = <<>>
          /\ server' = At("clear", p)
          /\ UNCHANGED <<uart, hole>>
    /\ UNCHANGED rtos

(* Mutant: only the latch is cleared, the staging frame stays.              *)
ClearedLatch(u) == [u EXCEPT !.loss = FALSE]

(* frame_pending and loss_pending are cleared with interrupts masked.       *)
Cleared(u) == [u EXCEPT !.loss = FALSE, !.inbox = IF rtos THEN @ ELSE <<>>]

Begun(mark) == IF mark = "lost" THEN "taken" ELSE mark
Reported(mark) == IF mark = "taken" THEN "none" ELSE mark

Clear ==
    /\ server.at = "clear"
    /\ LET p == server.port IN
       /\ uart' = [uart EXCEPT ![p] = Cleared(@)]
       /\ hole' = [hole EXCEPT ![p] = Begun(@)]
       /\ server' = At("report", p)
    /\ UNCHANGED rtos

(* The loss callback.                                                       *)
Report ==
    /\ server.at = "report"
    /\ LET p == server.port IN
       /\ uart' = [uart EXCEPT ![p].inbox = [i \in DOMAIN @ |-> Reported(@[i])]]
       /\ hole' = [hole EXCEPT ![p] = Reported(@)]
       /\ server' = At("next", 1)
    /\ UNCHANGED rtos

(* With an RTOS the loss is not looked at again before the queue is read.   *)
HasChunk(u) == u.inbox # <<>> /\ (rtos \/ ~u.loss)

(* A chunk is delivered to the receive callback.                            *)
Deliver ==
    /\ server.at = "get"
    /\ HasChunk(uart[server.port])
    /\ uart' = [uart EXCEPT ![server.port].inbox = Tail(@)]
    /\ server' = At("next", 1)
    /\ UNCHANGED <<rtos, hole>>

NothingToDeliver ==
    /\ server.at = "get"
    /\ ~HasChunk(uart[server.port])
    /\ server' = At("next", 1)
    /\ UNCHANGED <<rtos, uart, hole>>

Serving == \/ StoreRestart \/ Look \/ Drain \/ Clear \/ Report
           \/ Deliver \/ NothingToDeliver

UartNext ==
    \/ Interrupt
    \/ \E p \in Ports : BeginReceive(p) \/ StopReceive(p)
    \/ Visit
    \/ Serving

UartSpec == UartInit /\ [][UartNext]_uartVars

(* The task returns to ProcessUart again and again and runs through it.     *)
UartFairness == WF_uartVars(Serving) /\ SF_uartVars(Visit)

-----------------------------------------------------------------------------
UartTypeOK ==
    /\ rtos \in BOOLEAN
    /\ uart \in [Ports -> Port]
    /\ \A p \in Ports : Len(uart[p].inbox) <= Capacity
    /\ hole \in [Ports -> Marks]
    /\ server.at \in {"next", "store", "look", "drain", "clear", "report", "get"}
    /\ server.port \in Ports /\ server.next \in Ports

(* A loss the interrupt noticed stays latched until the task begins its     *)
(* report, and so does a staging frame that was overwritten.                *)
LossLatched ==
    \A p \in Ports :
        hole[p] = "lost" \/ (\E i \in DOMAIN uart[p].inbox : uart[p].inbox[i] = "lost")
            => uart[p].loss

(* No chunk that came after a noticed loss, and no overwritten one, is      *)
(* delivered before the loss callback for it has returned.                  *)
ReportedFirst ==
    server.at = "get" /\ HasChunk(uart[server.port])
        => Head(uart[server.port].inbox) \in {"none", "silent"}

(* What the interrupt noticed is never skipped over.                        *)
LossReported == UartTypeOK /\ LossLatched /\ ReportedFirst

(* The same for every gap in the received bytes, as UartReceive.h says.     *)
EveryGapReported ==
    server.at = "get" /\ HasChunk(uart[server.port])
        => Head(uart[server.port].inbox) = "none"

(* An enabled port receives or is going to be restarted; it stops to do so  *)
(* in one way only: the interrupt asked for a restart between the start     *)
(* of the DMA by the task and the store that follows it.                    *)
Listens(p) == uart[p].enabled => uart[p].receiving \/ uart[p].restart

DeafOnlyByStore ==
    [][\A p \in Ports : Listens(p) => Listens(p)' \/ server.at \in {"next", "store"}]_uartVars

(* Every noticed loss is reported and every port with something in its      *)
(* inbox is served, however busy the other ports are: neither goes away     *)
(* before the port's turn has come.                                         *)
EveryPortServed ==
    \A p \in Ports :
        []<>(\/ ~uart[p].loss /\ uart[p].inbox = <<>>
             \/ server.port = p /\ server.at \in {"drain", "clear", "get"})
=============================================================================
