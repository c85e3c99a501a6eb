---------------------------- MODULE LinksProofs ----------------------------
(* The serial links: no noticed loss of the UART receive path is skipped,   *)
(* and the bus queue loses, doubles or mistakes no request or result, for   *)
(* any number of ports and requests and any depth of the queues.  The TLS   *)
(* set-up of the modem, for any list of settings, any number of restarts,   *)
(* refusals, lost lines and late answers.                                   *)
EXTENDS ModbusQueue, UartReceive, ModemTls, SequenceTheorems, FiniteSetTheorems, TLAPS


(* What a queue holds nothing of.                                           *)
Free(s, mark) == \A i \in DOMAIN s : s[i] # mark

Holds(s, mark) == \E i \in DOMAIN s : s[i] = mark

-----------------------------------------------------------------------------
(* The UART receive path *)

Server == [at : {"next", "store", "look", "drain", "clear", "report", "get"},
           port : Ports, next : Ports, then : {"next", "look"}, flag : BOOLEAN]

UartTypes ==
    /\ rtos \in BOOLEAN
    /\ uart \in [Ports -> Port]
    /\ hole \in [Ports -> Marks]
    /\ server \in Server

WithinCapacity == \A p \in Ports : Len(uart[p].inbox) <= Capacity

(* A report that was begun is the one the task is about to make.            *)
TakenAtReport ==
    \A p \in Ports :
        hole[p] = "taken" \/ Holds(uart[p].inbox, "taken")
            => server.at = "report" /\ server.port = p

(* The task clears the latch only after it saw it set, and with an RTOS     *)
(* only when nothing is left in the queue.                                  *)
LatchedWhileServed ==
    /\ server.at \in {"drain", "clear"} => uart[server.port].loss
    /\ server.at = "clear" /\ rtos => uart[server.port].inbox = <<>>

(* What is in the queue when the task saw no loss may be delivered, also    *)
(* when a loss is noticed before it is.                                     *)
CleanAtGet ==
    server.at = "get" /\ rtos => Free(uart[server.port].inbox, "lost")

UartInv == /\ UartTypes /\ WithinCapacity /\ LossLatched /\ TakenAtReport
           /\ LatchedWhileServed /\ CleanAtGet

-----------------------------------------------------------------------------
(* What the operators on a port make of it *)

LEMMA CapacityIsPositive == rtos \in BOOLEAN => Capacity \in Nat \ {0}
  BY UartAssumption DEF Capacity

LEMMA FirstPort == 1 \in Ports /\ \A p \in Ports : Turn(p) \in Ports
<1>1. PICK n \in 1 .. 255 : Ports = 1 .. n
  BY UartAssumption
<1> QED
  BY <1>1 DEF Turn

LEMMA RestartedPort ==
    ASSUME NEW u \in Port, NEW started \in BOOLEAN
    PROVE  LET v == Restarted(u, started) IN
           /\ v \in Port
           /\ v.enabled = u.enabled /\ v.receiving = started /\ v.restart = ~started
           /\ v.loss = u.loss /\ v.inbox = u.inbox
  BY DEF Restarted, Port

LEMMA LostPort ==
    ASSUME NEW u \in Port
    PROVE  /\ Lost(u) \in Port
           /\ Lost(u).enabled = u.enabled /\ Lost(u).receiving = u.receiving
           /\ Lost(u).restart = u.restart /\ Lost(u).loss /\ Lost(u).inbox = u.inbox
  BY DEF Lost, Port

WithInbox(u, s) == [u EXCEPT !.inbox = s]

LEMMA InboxReplaced ==
    ASSUME NEW u \in Port, NEW s \in Seq(Marks)
    PROVE  /\ WithInbox(u, s) \in Port /\ WithInbox(u, s).inbox = s
           /\ WithInbox(u, s).enabled = u.enabled /\ WithInbox(u, s).receiving = u.receiving
           /\ WithInbox(u, s).restart = u.restart /\ WithInbox(u, s).loss = u.loss
  BY DEF Port, WithInbox

LEMMA AppendedMark ==
    ASSUME NEW s \in Seq(Marks), NEW mark \in Marks, NEW m
    PROVE  /\ Append(s, mark) \in Seq(Marks) /\ Len(Append(s, mark)) = Len(s) + 1
           /\ Holds(Append(s, mark), m) <=> Holds(s, m) \/ m = mark
<1>1. /\ Append(s, mark) \in Seq(Marks) /\ Len(Append(s, mark)) = Len(s) + 1
      /\ Len(s) \in Nat /\ DOMAIN s = 1 .. Len(s)
      /\ DOMAIN Append(s, mark) = 1 .. Len(s) + 1
      /\ \A i \in 1 .. Len(s) : Append(s, mark)[i] = s[i]
      /\ Append(s, mark)[Len(s) + 1] = mark
  BY AppendProperties, LenProperties
<1> QED
  BY <1>1 DEF Holds

LEMMA TailOfMarks ==
    ASSUME NEW s \in Seq(Marks), s # <<>>, NEW m
    PROVE  /\ Tail(s) \in Seq(Marks) /\ Len(Tail(s)) = Len(s) - 1
           /\ Holds(Tail(s), m) => Holds(s, m)
           /\ Head(s) = m => Holds(s, m)
<1>1. /\ Tail(s) \in Seq(Marks) /\ Len(Tail(s)) = Len(s) - 1
      /\ Len(s) \in Nat \ {0} /\ DOMAIN s = 1 .. Len(s) /\ DOMAIN Tail(s) = 1 .. Len(s) - 1
      /\ \A i \in 1 .. Len(s) - 1 : Tail(s)[i] = s[i + 1]
      /\ Head(s) = s[1]
  BY HeadTailProperties, LenProperties, EmptySeq
<1> QED
  BY <1>1 DEF Holds

(* Put keeps every flag but the latch, which it sets when it finds no room. *)
(* v is the port u after a chunk with this mark.                            *)
PutInto(v, u, mark) ==
    /\ v \in Port /\ Len(v.inbox) <= Capacity
    /\ v.enabled = u.enabled /\ v.receiving = u.receiving /\ v.restart = u.restart
    /\ v.loss <=> u.loss \/ Full(u)
    /\ \A m \in Marks : Holds(v.inbox, m)
         => \/ Holds(u.inbox, m)
            \/ ~Full(u) /\ m = mark
            \/ Full(u) /\ ~rtos /\ m = "lost"

LEMMA PutPort ==
    ASSUME NEW u \in Port, NEW mark \in Marks, rtos \in BOOLEAN, Len(u.inbox) <= Capacity
    PROVE  PutInto(Put(u, mark), u, mark)
<1> USE DEF PutInto
<1>0. u.inbox \in Seq(Marks) /\ Lost(u).inbox = u.inbox /\ Lost(u) \in Port
  BY LostPort DEF Port
<1>1. CASE ~Full(u)
  <2> DEFINE s == Append(u.inbox, mark)
  <2>1. Put(u, mark) = WithInbox(u, s)
    BY <1>1 DEF Put, WithInbox
  <2>2. s \in Seq(Marks) /\ Len(s) <= Capacity
    BY <1>0, <1>1, CapacityIsPositive DEF Full
  <2>3. \A m \in Marks : Holds(s, m) => Holds(u.inbox, m) \/ m = mark
    BY <1>0, AppendedMark
  <2> HIDE DEF s
  <2>4. /\ Put(u, mark) \in Port /\ Put(u, mark).inbox = s
        /\ Put(u, mark).enabled = u.enabled /\ Put(u, mark).receiving = u.receiving
        /\ Put(u, mark).restart = u.restart /\ Put(u, mark).loss = u.loss
    BY <2>1, <2>2, InboxReplaced
  <2> QED
    BY <1>1, <2>2, <2>3, <2>4
<1>2. CASE Full(u) /\ rtos
  <2>1. Overwritten(Lost(u)) = Lost(u)
    BY <1>0, <1>2 DEF Overwritten, Port
  <2>2. Put(u, mark) = Lost(u)
    BY <1>2, <2>1 DEF Put
  <2> QED
    BY <1>0, <1>2, <2>2, LostPort
<1>3. CASE Full(u) /\ ~rtos
  <2> DEFINE s == <<"lost">>
  <2>1. Put(u, mark) = WithInbox(Lost(u), s)
    BY <1>3 DEF Put, Overwritten, WithInbox
  <2>2. s \in Seq(Marks) /\ Len(s) <= Capacity
    BY <1>3 DEF Capacity, Marks
  <2>3. \A m : Holds(s, m) => m = "lost"
    BY DEF Holds
  <2> HIDE DEF s
  <2>4. /\ Put(u, mark) \in Port /\ Put(u, mark).inbox = s
        /\ Put(u, mark).enabled = Lost(u).enabled
        /\ Put(u, mark).receiving = Lost(u).receiving
        /\ Put(u, mark).restart = Lost(u).restart /\ Put(u, mark).loss = Lost(u).loss
    BY <1>0, <2>1, <2>2, InboxReplaced
  <2> QED
    BY <1>3, <2>2, <2>3, <2>4, LostPort
<1> QED
  BY <1>1, <1>2, <1>3

-----------------------------------------------------------------------------
(* The steps of the receive path *)

(* An interrupt changes one port and never takes a latched loss back, marks *)
(* no report as begun, and puts no lost chunk into a queue.                 *)
LEMMA InterruptKeeps ==
    ASSUME UartInv, UNCHANGED <<rtos, server>>,
           NEW p \in Ports, NEW v \in Port, NEW h \in Marks,
           uart' = [uart EXCEPT ![p] = v], hole' = [hole EXCEPT ![p] = h],
           Len(v.inbox) <= Capacity,
           h = "lost" \/ Holds(v.inbox, "lost") => v.loss,
           h = "taken" \/ Holds(v.inbox, "taken")
               => hole[p] = "taken" \/ Holds(uart[p].inbox, "taken"),
           uart[p].loss => v.loss,
           uart[p].loss /\ rtos => v.inbox = uart[p].inbox,
           rtos /\ Holds(v.inbox, "lost") => Holds(uart[p].inbox, "lost")
    PROVE  UartInv'
<1> USE DEF UartInv
<1>1. UartTypes' /\ Capacity' = Capacity
  BY DEF UartTypes, Capacity
<1>2. /\ uart'[p] = v /\ hole'[p] = h
      /\ \A q \in Ports : q # p => uart'[q] = uart[q] /\ hole'[q] = hole[q]
  BY DEF UartTypes
<1>3. WithinCapacity'
  BY <1>1, <1>2 DEF WithinCapacity
<1>4. LossLatched'
  BY <1>2 DEF LossLatched, Holds
<1>5. TakenAtReport'
  BY <1>2 DEF TakenAtReport
<1>6. LatchedWhileServed'
  BY <1>2 DEF LatchedWhileServed
<1>7. CleanAtGet'
  BY <1>2 DEF CleanAtGet, Free, Holds
<1> QED
  BY <1>1, <1>3, <1>4, <1>5, <1>6, <1>7

LEMMA RxEventKeeps == ASSUME UartInv, NEW p \in Ports, RxEvent(p) PROVE UartInv'
<1>1. PICK started \in BOOLEAN, size \in {"fits", "none", "malformed"} :
        LET u == Restarted(uart[p], started)
        IN \/ /\ uart' = [uart EXCEPT ![p] = Lost(u)]
              /\ hole' = [hole EXCEPT ![p] = "lost"]
           \/ /\ ~u.loss
              /\ uart' = [uart EXCEPT ![p] = Put(u, hole[p])]
              /\ hole' = [hole EXCEPT ![p] = IF Full(u) THEN "lost" ELSE "none"]
           \/ /\ uart' = [uart EXCEPT ![p] = u]
              /\ UNCHANGED hole
  BY DEF RxEvent
<1> DEFINE u == Restarted(uart[p], started)
<1>2. UNCHANGED <<rtos, server>> /\ rtos \in BOOLEAN /\ hole \in [Ports -> Marks]
  BY DEF RxEvent, UartInv, UartTypes
<1>3. u \in Port /\ u.loss = uart[p].loss /\ u.inbox = uart[p].inbox
  BY RestartedPort DEF UartInv, UartTypes
<1>4. Len(u.inbox) <= Capacity /\ (hole[p] = "lost" \/ Holds(u.inbox, "lost") => u.loss)
  BY <1>3 DEF UartInv, WithinCapacity, LossLatched, Holds
<1> HIDE DEF u
<1> "lost" \in Marks /\ "none" \in Marks /\ "taken" \in Marks
  BY DEF Marks
<1>5. CASE /\ uart' = [uart EXCEPT ![p] = Lost(u)]
           /\ hole' = [hole EXCEPT ![p] = "lost"]
  BY <1>2, <1>3, <1>4, <1>5, LostPort, InterruptKeeps
<1>6. CASE /\ ~u.loss
           /\ uart' = [uart EXCEPT ![p] = Put(u, hole[p])]
           /\ hole' = [hole EXCEPT ![p] = IF Full(u) THEN "lost" ELSE "none"]
  <2> DEFINE v == Put(u, hole[p])
             h == IF Full(u) THEN "lost" ELSE "none"
  <2>0. PutInto(v, u, hole[p])
    <3>1. hole[p] \in Marks /\ rtos \in BOOLEAN /\ u \in Port /\ Len(u.inbox) <= Capacity
      BY <1>2, <1>3, <1>4
    <3> QED
      BY <3>1, PutPort
  <2>1. v \in Port /\ Len(v.inbox) <= Capacity /\ h \in Marks
    BY <2>0 DEF PutInto
  <2>2. (v.loss <=> Full(u)) /\ ~uart[p].loss
    <3>1. v.loss <=> u.loss \/ Full(u)
      BY <2>0 DEF PutInto
    <3> QED
      BY <3>1, <1>3, <1>6
  <2>3. \A m \in Marks : Holds(v.inbox, m)
                => \/ Holds(u.inbox, m)
                   \/ ~Full(u) /\ m = hole[p]
                   \/ Full(u) /\ ~rtos /\ m = "lost"
    BY <2>0 DEF PutInto
  <2>4. uart' = [uart EXCEPT ![p] = v] /\ hole' = [hole EXCEPT ![p] = h]
    BY <1>6
  <2>5. (h = "lost" => Full(u)) /\ h # "taken"
    OBVIOUS
  <2>6. hole[p] # "lost" /\ ~Holds(u.inbox, "lost")
    BY <1>4, <1>6
  <2> HIDE DEF v, h
  <2>7. h = "lost" \/ Holds(v.inbox, "lost") => v.loss
    BY <2>2, <2>3, <2>5, <2>6
  <2>8. Holds(v.inbox, "taken") => hole[p] = "taken" \/ Holds(uart[p].inbox, "taken")
    BY <1>3, <2>3
  <2>9. rtos => ~Holds(v.inbox, "lost")
    BY <2>3, <2>6
  <2> QED
    BY <1>2, <2>1, <2>2, <2>4, <2>5, <2>7, <2>8, <2>9, InterruptKeeps
<1>7. CASE uart' = [uart EXCEPT ![p] = u] /\ UNCHANGED hole
  <2>1. hole' = [hole EXCEPT ![p] = hole[p]] /\ hole[p] \in Marks
    BY <1>2, <1>7
  <2> QED
    BY <1>2, <1>3, <1>4, <1>7, <2>1, InterruptKeeps
<1> QED
  BY <1>1, <1>5, <1>6, <1>7 DEF u

LEMMA RxErrorKeeps == ASSUME UartInv, NEW p \in Ports, RxError(p) PROVE UartInv'
<1>1. PICK started \in BOOLEAN :
        uart' = [uart EXCEPT ![p] = Lost(Restarted(uart[p], started))]
  BY DEF RxError
<1> DEFINE u == Restarted(uart[p], started)
<1>2. UNCHANGED <<rtos, server>> /\ hole' = [hole EXCEPT ![p] = "lost"]
  BY DEF RxError
<1>3. u \in Port /\ u.loss = uart[p].loss /\ u.inbox = uart[p].inbox
  BY RestartedPort DEF UartInv, UartTypes
<1>4. Len(u.inbox) <= Capacity
  BY <1>3 DEF UartInv, WithinCapacity
<1> HIDE DEF u
<1>5. uart' = [uart EXCEPT ![p] = Lost(u)] /\ "lost" \in Marks
  BY <1>1 DEF u, Marks
<1> QED
  BY <1>2, <1>3, <1>4, <1>5, LostPort, InterruptKeeps

LEMMA MissedKeeps == ASSUME UartInv, NEW p \in Ports, Missed(p) PROVE UartInv'
<1>1. /\ UNCHANGED <<rtos, server>> /\ hole' = [hole EXCEPT ![p] = "silent"]
      /\ uart' = [uart EXCEPT ![p] = uart[p]] /\ uart[p] \in Port /\ "silent" \in Marks
  BY DEF Missed, UartInv, UartTypes, Marks
<1>2. /\ Len(uart[p].inbox) <= Capacity
      /\ Holds(uart[p].inbox, "lost") => uart[p].loss
  BY DEF UartInv, WithinCapacity, LossLatched, Holds
<1> QED
  BY <1>1, <1>2, InterruptKeeps

(* The task's steps.  One that changes neither a port's latch nor its inbox *)
(* nor the history.                                                         *)
LEMMA FlagsKeep ==
    ASSUME UartInv, UNCHANGED <<rtos, hole>>,
           uart' \in [Ports -> Port],
           \A p \in Ports : uart'[p].loss = uart[p].loss /\ uart'[p].inbox = uart[p].inbox,
           server' \in Server, server.at # "report",
           server'.at \in {"next", "store", "look"}
    PROVE  UartInv'
<1> USE DEF UartInv
<1>1. UartTypes' /\ Capacity' = Capacity
  BY DEF UartTypes, Capacity
<1>2. WithinCapacity' /\ LossLatched'
  BY <1>1 DEF WithinCapacity, LossLatched
<1>3. TakenAtReport'
  BY DEF TakenAtReport
<1>4. LatchedWhileServed' /\ CleanAtGet'
  BY DEF LatchedWhileServed, CleanAtGet
<1> QED
  BY <1>1, <1>2, <1>3, <1>4

LEMMA FlagSet ==
    ASSUME uart \in [Ports -> Port], NEW p \in Ports,
           NEW started \in BOOLEAN, NEW flag \in BOOLEAN
    PROVE  /\ [uart EXCEPT ![p].receiving = started] \in [Ports -> Port]
           /\ [uart EXCEPT ![p].receiving = started, ![p].enabled = TRUE] \in [Ports -> Port]
           /\ [uart EXCEPT ![p].restart = flag] \in [Ports -> Port]
           /\ [uart EXCEPT ![p].enabled = FALSE, ![p].restart = FALSE,
                           ![p].receiving = FALSE] \in [Ports -> Port]
  BY DEF Port

LEMMA BeginReceiveKeeps == ASSUME UartInv, NEW p \in Ports, BeginReceive(p) PROVE UartInv'
<1>1. PICK started \in BOOLEAN :
        /\ uart' = [uart EXCEPT ![p].receiving = started, ![p].enabled = TRUE]
        /\ server' = [At("store", p) EXCEPT !.then = "next", !.flag = ~started]
  BY DEF BeginReceive, StartByTask
<1>2. uart \in [Ports -> Port] /\ server \in Server /\ server.at = "next"
      /\ UNCHANGED <<rtos, hole>>
  BY DEF UartInv, UartTypes, BeginReceive
<1>3. uart' \in [Ports -> Port]
  BY <1>1, <1>2, FlagSet
<1>4. \A q \in Ports : uart'[q].loss = uart[q].loss /\ uart'[q].inbox = uart[q].inbox
  BY <1>1, <1>2 DEF Port
<1>5. server' \in Server /\ server'.at = "store"
  BY <1>1, <1>2 DEF Server, At
<1> QED
  BY <1>2, <1>3, <1>4, <1>5, FlagsKeep

LEMMA StopReceiveKeeps == ASSUME UartInv, NEW p \in Ports, StopReceive(p) PROVE UartInv'
<1>1. /\ uart' = [uart EXCEPT ![p].enabled = FALSE, ![p].restart = FALSE,
                               ![p].receiving = FALSE]
      /\ uart \in [Ports -> Port] /\ server \in Server /\ server.at = "next"
      /\ UNCHANGED <<rtos, hole, server>>
  BY DEF StopReceive, UartInv, UartTypes
<1>2. uart' \in [Ports -> Port]
  BY <1>1, FlagSet
<1>3. \A q \in Ports : uart'[q].loss = uart[q].loss /\ uart'[q].inbox = uart[q].inbox
  BY <1>1 DEF Port
<1> QED
  BY <1>1, <1>2, <1>3, FlagsKeep

LEMMA StoreRestartKeeps == ASSUME UartInv, StoreRestart PROVE UartInv'
<1>1. /\ uart' = [uart EXCEPT ![server.port].restart = server.flag]
      /\ server' = [server EXCEPT !.at = server.then, !.flag = FALSE, !.then = "next"]
      /\ uart \in [Ports -> Port] /\ server \in Server /\ server.at = "store"
      /\ UNCHANGED <<rtos, hole>>
  BY DEF StoreRestart, UartInv, UartTypes
<1>2. server.port \in Ports /\ server.flag \in BOOLEAN
  BY <1>1 DEF Server
<1>3. uart' \in [Ports -> Port]
  BY <1>1, <1>2, FlagSet
<1>4. \A q \in Ports : uart'[q].loss = uart[q].loss /\ uart'[q].inbox = uart[q].inbox
  BY <1>1 DEF Port
<1>5. server' \in Server /\ server'.at \in {"next", "look"}
  BY <1>1 DEF Server
<1> QED
  BY <1>1, <1>3, <1>4, <1>5, FlagsKeep

LEMMA VisitKeeps == ASSUME UartInv, Visit PROVE UartInv'
<1> DEFINE p == server.next
<1>1. /\ uart \in [Ports -> Port] /\ server \in Server /\ server.at = "next"
      /\ UNCHANGED <<rtos, hole>>
  BY DEF Visit, UartInv, UartTypes
<1>2. p \in Ports /\ Turn(p) \in Ports
  BY <1>1, FirstPort DEF Server
<1>3. CASE /\ server' = [At("look", p) EXCEPT !.next = Turn(p)]
           /\ UNCHANGED uart
  <2>1. server' \in Server /\ server'.at = "look"
    BY <1>1, <1>2, <1>3 DEF Server, At
  <2> QED
    BY <1>1, <1>3, <2>1, FlagsKeep
<1>4. ASSUME NEW started \in BOOLEAN,
             uart' = [uart EXCEPT ![p].receiving = started],
             server' = [At("store", p) EXCEPT !.then = "look", !.flag = ~started,
                                              !.next = Turn(p)]
      PROVE  UartInv'
  <2>1. uart' \in [Ports -> Port]
    BY <1>1, <1>2, <1>4, FlagSet
  <2>2. \A q \in Ports : uart'[q].loss = uart[q].loss /\ uart'[q].inbox = uart[q].inbox
    BY <1>1, <1>4 DEF Port
  <2>3. server' \in Server /\ server'.at = "store"
    BY <1>1, <1>2, <1>4 DEF Server, At
  <2> QED
    BY <1>1, <2>1, <2>2, <2>3, FlagsKeep
<1> QED
  BY <1>3, <1>4 DEF Visit

LEMMA LookKeeps == ASSUME UartInv, Look PROVE UartInv'
<1> USE DEF UartInv
<1> DEFINE p == server.port
<1>1. /\ server \in Server /\ server.at = "look" /\ UNCHANGED <<rtos, uart, hole>>
      /\ server' = At(IF ~uart[p].loss THEN "get" ELSE IF rtos THEN "drain" ELSE "clear", p)
  BY DEF Look, UartTypes
<1>2. server' \in Server /\ server'.port = p /\ p \in Ports
  BY <1>1 DEF At, Server
<1>3. server'.at = IF ~uart[p].loss THEN "get" ELSE IF rtos THEN "drain" ELSE "clear"
  BY <1>1 DEF At, Server
<1>4. UartTypes' /\ WithinCapacity' /\ LossLatched'
  BY <1>1, <1>2 DEF UartTypes, WithinCapacity, LossLatched, Capacity
<1>5. TakenAtReport'
  BY <1>1 DEF TakenAtReport
<1>6. LatchedWhileServed'
  BY <1>1, <1>2, <1>3 DEF LatchedWhileServed
<1>7. CleanAtGet'
  BY <1>1, <1>2, <1>3 DEF CleanAtGet, LossLatched, Free
<1> QED
  BY <1>4, <1>5, <1>6, <1>7

(* The first chunk of a port's inbox is taken out.                          *)
LEMMA InboxTail ==
    ASSUME UartInv, NEW p \in Ports, uart[p].inbox # <<>>
    PROVE  LET next == [uart EXCEPT ![p].inbox = Tail(@)] IN
           /\ next \in [Ports -> Port]
           /\ next[p] = WithInbox(uart[p], Tail(uart[p].inbox))
           /\ next[p].inbox = Tail(uart[p].inbox)
           /\ next[p].loss = uart[p].loss
           /\ \A q \in Ports : q # p => next[q] = uart[q]
           /\ \A q \in Ports : Len(next[q].inbox) <= Capacity
           /\ \A q \in Ports, m \in Marks :
                Holds(next[q].inbox, m) => Holds(uart[q].inbox, m)
<1> DEFINE s == Tail(uart[p].inbox)
           next == [uart EXCEPT ![p].inbox = Tail(@)]
<1>1. uart \in [Ports -> Port] /\ uart[p] \in Port /\ uart[p].inbox \in Seq(Marks)
  BY DEF UartInv, UartTypes, Port
<1>2. /\ s \in Seq(Marks) /\ Len(s) = Len(uart[p].inbox) - 1
      /\ \A m \in Marks : Holds(s, m) => Holds(uart[p].inbox, m)
  BY <1>1, TailOfMarks
<1>3. next[p] = WithInbox(uart[p], s) /\ \A q \in Ports : q # p => next[q] = uart[q]
  BY <1>1 DEF WithInbox
<1>4. WithInbox(uart[p], s) \in Port
  BY <1>1, <1>2, InboxReplaced
<1>5. next[p].inbox = s /\ next[p].loss = uart[p].loss
  BY <1>1, <1>2, <1>3, InboxReplaced
<1>6. next \in [Ports -> Port]
  <2> DEFINE w == WithInbox(uart[p], s)
  <2>1. next = [uart EXCEPT ![p] = w]
    BY DEF WithInbox
  <2> HIDE DEF w
  <2> QED
    BY <1>1, <1>4, <2>1 DEF w
<1>7. \A q \in Ports : Len(uart[q].inbox) \in Nat /\ Len(uart[q].inbox) <= Capacity
  BY <1>1, EmptySeq DEF UartInv, WithinCapacity, Port
<1>8. rtos \in BOOLEAN
  BY DEF UartInv, UartTypes
<1> HIDE DEF next, s
<1>9. ASSUME NEW q \in Ports
      PROVE  /\ Len(next[q].inbox) <= Capacity
             /\ \A m \in Marks : Holds(next[q].inbox, m) => Holds(uart[q].inbox, m)
  BY <1>2, <1>3, <1>5, <1>7, <1>8, CapacityIsPositive
<1> QED
  BY <1>3, <1>5, <1>6, <1>9 DEF next, s

LEMMA DrainKeeps == ASSUME UartInv, Drain PROVE UartInv'
<1> USE DEF UartInv
<1> DEFINE p == server.port
<1>1. /\ server \in Server /\ server.at = "drain" /\ rtos' = rtos /\ p \in Ports
      /\ hole \in [Ports -> Marks] /\ uart[p].loss
  BY DEF Drain, UartTypes, Server, LatchedWhileServed
<1>2. Capacity' = Capacity /\ "lost" \in Marks /\ "taken" \in Marks
  BY <1>1 DEF Capacity, Marks
<1>3. CASE /\ uart[p].inbox # <<>>
           /\ uart' = [uart EXCEPT ![p].inbox = Tail(@)]
           /\ hole' = [hole EXCEPT ![p] = "lost"]
           /\ UNCHANGED server
  <2>1. /\ uart' \in [Ports -> Port] /\ uart'[p].loss = uart[p].loss
        /\ \A q \in Ports : q # p => uart'[q] = uart[q]
        /\ \A q \in Ports : Len(uart'[q].inbox) <= Capacity
        /\ \A q \in Ports, m \in Marks : Holds(uart'[q].inbox, m) => Holds(uart[q].inbox, m)
    BY <1>1, <1>3, InboxTail
  <2>2. UartTypes' /\ WithinCapacity'
    BY <1>1, <1>2, <1>3, <2>1 DEF UartTypes, WithinCapacity
  <2>3. LossLatched'
    BY <1>1, <1>2, <1>3, <2>1 DEF LossLatched, Holds
  <2>4. TakenAtReport'
    BY <1>1, <1>2, <1>3, <2>1 DEF TakenAtReport
  <2>5. LatchedWhileServed' /\ CleanAtGet'
    BY <1>1, <1>3, <2>1 DEF LatchedWhileServed, CleanAtGet
  <2> QED
    BY <2>2, <2>3, <2>4, <2>5
<1>4. CASE /\ uart[p].inbox = <<>>
           /\ server' = At("clear", p)
           /\ UNCHANGED <<uart, hole>>
  <2>1. server' \in Server /\ server'.port = p /\ server'.at = "clear"
    BY <1>1, <1>4 DEF At, Server
  <2>2. UartTypes' /\ WithinCapacity' /\ LossLatched'
    BY <1>1, <1>2, <1>4, <2>1 DEF UartTypes, WithinCapacity, LossLatched
  <2>3. TakenAtReport' /\ LatchedWhileServed' /\ CleanAtGet'
    BY <1>1, <1>4, <2>1 DEF TakenAtReport, LatchedWhileServed, CleanAtGet
  <2> QED
    BY <2>2, <2>3
<1> QED
  BY <1>3, <1>4 DEF Drain

LEMMA ClearedPort ==
    ASSUME NEW u \in Port, rtos \in BOOLEAN, rtos => u.inbox = <<>>
    PROVE  Cleared(u) \in Port /\ Cleared(u).inbox = <<>>
<1>1. CASE rtos
  BY <1>1 DEF Cleared, Port
<1>2. CASE ~rtos
  <2>1. Cleared(u) = [u EXCEPT !.loss = FALSE, !.inbox = <<>>] /\ <<>> \in Seq(Marks)
    BY <1>2 DEF Cleared
  <2> QED
    BY <2>1 DEF Port
<1> QED
  BY <1>1, <1>2

(* Every noticed loss is in the report that the task begins here: nothing   *)
(* of it is left in the inbox.                                              *)
LEMMA ClearKeeps == ASSUME UartInv, Clear PROVE UartInv'
<1> USE DEF UartInv
<1> DEFINE p == server.port
           v == Cleared(uart[p])
<1>1. /\ server \in Server /\ server.at = "clear" /\ rtos' = rtos /\ p \in Ports
      /\ uart \in [Ports -> Port] /\ hole \in [Ports -> Marks] /\ rtos \in BOOLEAN
      /\ uart' = [uart EXCEPT ![p] = v]
      /\ hole' = [hole EXCEPT ![p] = Begun(hole[p])]
      /\ server' = At("report", p)
  BY DEF Clear, UartTypes, Server
<1>2. v \in Port /\ v.inbox = <<>>
  BY <1>1, ClearedPort DEF LatchedWhileServed
<1>3. server' \in Server /\ server'.port = p /\ server'.at = "report"
  BY <1>1 DEF At, Server
<1> HIDE DEF v
<1>4. /\ uart' \in [Ports -> Port] /\ uart'[p] = v
      /\ \A q \in Ports : q # p => uart'[q] = uart[q] /\ hole'[q] = hole[q]
      /\ hole' \in [Ports -> Marks] /\ hole'[p] # "lost"
  BY <1>1, <1>2 DEF Begun, Marks
<1>5. Capacity' = Capacity /\ Capacity \in Nat \ {0} /\ Len(<<>>) = 0
  BY <1>1, CapacityIsPositive DEF Capacity
<1>6. UartTypes'
  BY <1>1, <1>3, <1>4 DEF UartTypes
<1>7. WithinCapacity'
  BY <1>2, <1>4, <1>5 DEF WithinCapacity
<1>8. LossLatched'
  BY <1>2, <1>4 DEF LossLatched
<1>9. TakenAtReport'
  BY <1>1, <1>3, <1>4 DEF TakenAtReport
<1>10. LatchedWhileServed' /\ CleanAtGet'
  BY <1>3 DEF LatchedWhileServed, CleanAtGet
<1> QED
  BY <1>6, <1>7, <1>8, <1>9, <1>10

LEMMA ReportKeeps == ASSUME UartInv, Report PROVE UartInv'
<1> USE DEF UartInv
<1> DEFINE p == server.port
           s == [i \in DOMAIN uart[p].inbox |-> Reported(uart[p].inbox[i])]
<1>1. /\ server \in Server /\ server.at = "report" /\ rtos' = rtos /\ p \in Ports
      /\ uart \in [Ports -> Port] /\ hole \in [Ports -> Marks] /\ rtos \in BOOLEAN
      /\ hole' = [hole EXCEPT ![p] = Reported(hole[p])]
      /\ server' = At("next", 1)
  BY DEF Report, UartTypes, Server
<1>2. server' \in Server /\ server'.at = "next"
  BY <1>1, FirstPort DEF At, Server
<1>3. uart[p].inbox \in Seq(Marks) /\ uart[p] \in Port
  BY <1>1 DEF Port
<1>4. s \in Seq(Marks) /\ Len(s) = Len(uart[p].inbox) /\ DOMAIN s = DOMAIN uart[p].inbox
  BY <1>3 DEF Reported, Marks
<1>5. ~Holds(s, "taken") /\ (Holds(s, "lost") => Holds(uart[p].inbox, "lost"))
  BY <1>4 DEF Holds, Reported
<1>6. uart' = [uart EXCEPT ![p] = WithInbox(uart[p], s)]
  BY DEF Report, WithInbox
<1> HIDE DEF s
<1>7. /\ WithInbox(uart[p], s) \in Port /\ WithInbox(uart[p], s).inbox = s
      /\ WithInbox(uart[p], s).loss = uart[p].loss
  BY <1>3, <1>4, InboxReplaced
<1>8. /\ uart' \in [Ports -> Port] /\ uart'[p].inbox = s /\ uart'[p].loss = uart[p].loss
      /\ \A q \in Ports : q # p => uart'[q] = uart[q] /\ hole'[q] = hole[q]
  BY <1>1, <1>6, <1>7
<1>9. /\ hole' \in [Ports -> Marks] /\ hole'[p] # "taken"
      /\ hole'[p] = "lost" => hole[p] = "lost"
  BY <1>1 DEF Reported, Marks
<1>10. UartTypes'
  BY <1>1, <1>2, <1>8, <1>9 DEF UartTypes
<1>11. WithinCapacity'
  BY <1>1, <1>4, <1>8 DEF WithinCapacity, Capacity
<1>12. LossLatched'
  BY <1>5, <1>8, <1>9 DEF LossLatched, Holds
<1>13. TakenAtReport'
  BY <1>1, <1>5, <1>8, <1>9 DEF TakenAtReport
<1>14. LatchedWhileServed' /\ CleanAtGet'
  BY <1>2 DEF LatchedWhileServed, CleanAtGet
<1> QED
  BY <1>10, <1>11, <1>12, <1>13, <1>14

LEMMA DeliverKeeps == ASSUME UartInv, Deliver PROVE UartInv'
<1> USE DEF UartInv
<1> DEFINE p == server.port
<1>1. /\ server \in Server /\ server.at = "get" /\ p \in Ports /\ UNCHANGED <<rtos, hole>>
      /\ uart[p].inbox # <<>>
      /\ uart' = [uart EXCEPT ![p].inbox = Tail(@)] /\ server' = At("next", 1)
  BY DEF Deliver, HasChunk, UartTypes, Server
<1>2. /\ uart' \in [Ports -> Port] /\ uart'[p].loss = uart[p].loss
      /\ \A q \in Ports : q # p => uart'[q] = uart[q]
      /\ \A q \in Ports : Len(uart'[q].inbox) <= Capacity
      /\ \A q \in Ports, m \in Marks : Holds(uart'[q].inbox, m) => Holds(uart[q].inbox, m)
  BY <1>1, InboxTail
<1>3. server' \in Server /\ server'.at = "next"
  BY <1>1, FirstPort DEF At, Server
<1>4. "lost" \in Marks /\ "taken" \in Marks
  BY DEF Marks
<1>5. UartTypes' /\ WithinCapacity'
  BY <1>1, <1>2, <1>3 DEF UartTypes, WithinCapacity, Capacity
<1>6. LossLatched'
  BY <1>1, <1>2, <1>4 DEF LossLatched, Holds
<1>7. TakenAtReport'
  BY <1>1, <1>2, <1>4 DEF TakenAtReport
<1>8. LatchedWhileServed' /\ CleanAtGet'
  BY <1>3 DEF LatchedWhileServed, CleanAtGet
<1> QED
  BY <1>5, <1>6, <1>7, <1>8

LEMMA NothingToDeliverKeeps == ASSUME UartInv, NothingToDeliver PROVE UartInv'
<1>1. /\ server \in Server /\ server.at = "get" /\ UNCHANGED <<rtos, uart, hole>>
      /\ server' = At("next", 1) /\ uart \in [Ports -> Port]
  BY DEF NothingToDeliver, UartInv, UartTypes
<1>2. server' \in Server /\ server'.at = "next"
  BY <1>1, FirstPort DEF At, Server
<1> QED
  BY <1>1, <1>2, FlagsKeep

-----------------------------------------------------------------------------
LEMMA UartInvInitially == UartInit => UartInv
<1> SUFFICES ASSUME UartInit PROVE UartInv
  OBVIOUS
<1>1. /\ rtos \in BOOLEAN /\ hole = [p \in Ports |-> "none"]
      /\ uart = [p \in Ports |-> [enabled |-> FALSE, receiving |-> FALSE, restart |-> FALSE,
                                  loss |-> FALSE, inbox |-> <<>>]]
      /\ server = [at |-> "next", port |-> 1, next |-> 1, then |-> "next", flag |-> FALSE]
  BY DEF UartInit
<1>2. \A p \in Ports : uart[p] \in Port /\ uart[p].inbox = <<>>
  BY <1>1 DEF Port
<1>3. uart \in [Ports -> Port]
  BY <1>1, <1>2
<1>4. server \in Server /\ server.at = "next"
  BY <1>1, FirstPort DEF Server
<1>5. UartTypes
  BY <1>1, <1>3, <1>4 DEF UartTypes, Marks
<1>6. WithinCapacity
  BY <1>1, <1>2, CapacityIsPositive DEF WithinCapacity
<1>7. LossLatched /\ TakenAtReport
  BY <1>1, <1>2 DEF LossLatched, TakenAtReport, Holds
<1> QED
  BY <1>4, <1>5, <1>6, <1>7 DEF UartInv, LatchedWhileServed, CleanAtGet

LEMMA UartInvKept == UartInv /\ [UartNext]_uartVars => UartInv'
<1> SUFFICES ASSUME UartInv, [UartNext]_uartVars PROVE UartInv'
  OBVIOUS
<1>1. CASE Interrupt
  BY <1>1, RxEventKeeps, RxErrorKeeps, MissedKeeps DEF Interrupt
<1>2. CASE \E p \in Ports : BeginReceive(p) \/ StopReceive(p)
  BY <1>2, BeginReceiveKeeps, StopReceiveKeeps
<1>3. CASE Visit
  BY <1>3, VisitKeeps
<1>4. CASE Serving
  BY <1>4, StoreRestartKeeps, LookKeeps, DrainKeeps, ClearKeeps, ReportKeeps, DeliverKeeps,
     NothingToDeliverKeeps DEF Serving
<1>5. CASE UNCHANGED uartVars
  BY <1>5 DEF uartVars, UartInv, UartTypes, WithinCapacity, Capacity, LossLatched,
     TakenAtReport, LatchedWhileServed, CleanAtGet
<1> QED
  BY <1>1, <1>2, <1>3, <1>4, <1>5 DEF UartNext

LEMMA UartInvImplies == UartInv => LossReported
<1> SUFFICES ASSUME UartInv PROVE LossReported
  OBVIOUS
<1> USE DEF UartInv
<1>1. UartTypeOK
  BY DEF UartTypes, UartTypeOK, WithinCapacity, Server
<1>2. ASSUME server.at = "get", HasChunk(uart[server.port])
      PROVE  Head(uart[server.port].inbox) \in {"none", "silent"}
  <2> DEFINE s == uart[server.port].inbox
  <2>1. server.port \in Ports /\ s \in Seq(Marks) /\ s # <<>>
    BY <1>2 DEF UartTypes, Server, Port, HasChunk
  <2>2. Head(s) \in Marks /\ \A m : Head(s) = m => Holds(s, m)
    BY <2>1, HeadTailProperties, TailOfMarks
  <2>3. ~Holds(s, "taken")
    BY <1>2, <2>1 DEF TakenAtReport
  <2>4. ~Holds(s, "lost")
    BY <1>2, <2>1 DEF HasChunk, CleanAtGet, LossLatched, Holds, Free
  <2> QED
    BY <2>2, <2>3, <2>4 DEF Marks
<1> QED
  BY <1>1, <1>2 DEF LossReported, ReportedFirst

(* A loss the receive interrupt noticed is never skipped over: it stays     *)
(* latched until the task begins its report, and no chunk that follows it   *)
(* is delivered before the report has returned (Take, the interrupts).      *)
THEOREM LossIsReported == UartSpec => []LossReported
  BY UartInvInitially, UartInvKept, UartInvImplies, PTL DEF UartSpec

(* A port that receives, or will be restarted, stops to do so in no step    *)
(* but the store of restart_pending after the task started the DMA.         *)
THEOREM DeafenedOnlyByStore == UartSpec => DeafOnlyByStore
<1> DEFINE KeepsOn == \A p \in Ports : Listens(p) => Listens(p)' \/ server.at \in {"next", "store"}
<1>1. ASSUME UartInv, [UartNext]_uartVars PROVE [KeepsOn]_uartVars
  <2>1. SUFFICES ASSUME UartNext, server.at \notin {"next", "store"} PROVE KeepsOn
    BY <1>1
  <2>2. uart \in [Ports -> Port]
    BY <1>1 DEF UartInv, UartTypes
  <2>3. CASE Interrupt
    <3>1. PICK p \in Ports : RxEvent(p) \/ RxError(p) \/ Missed(p)
      BY <2>3 DEF Interrupt
    <3>2. CASE Missed(p)
      BY <3>2 DEF Missed, Listens
    <3>3. CASE RxError(p)
      <4>1. PICK started \in BOOLEAN :
              uart' = [uart EXCEPT ![p] = Lost(Restarted(uart[p], started))]
        BY <3>3 DEF RxError
      <4> DEFINE u == Restarted(uart[p], started)
      <4>2. u \in Port /\ u.receiving = started /\ u.restart = ~started
        BY <2>2, RestartedPort
      <4>3. Lost(u).receiving = u.receiving /\ Lost(u).restart = u.restart
        BY <4>2, LostPort
      <4>4. \A q \in Ports : q # p => uart'[q] = uart[q]
        BY <4>1, <2>2
      <4>5. Listens(p)'
        BY <4>1, <4>2, <4>3, <2>2 DEF Listens
      <4> QED
        BY <4>4, <4>5 DEF Listens
    <3>4. CASE RxEvent(p)
      <4>1. PICK started \in BOOLEAN :
              LET u == Restarted(uart[p], started)
              IN uart'[p] \in {Lost(u), Put(u, hole[p]), u}
        BY <2>2, <3>4 DEF RxEvent
      <4> DEFINE u == Restarted(uart[p], started)
      <4>2. u \in Port /\ u.receiving = started /\ u.restart = ~started
            /\ u.inbox = uart[p].inbox
        BY <2>2, RestartedPort
      <4>3. Lost(u).receiving = u.receiving /\ Lost(u).restart = u.restart
        BY <4>2, LostPort
      <4>4. Put(u, hole[p]).receiving = u.receiving /\ Put(u, hole[p]).restart = u.restart
        <5>1. /\ hole[p] \in Marks /\ rtos \in BOOLEAN /\ u \in Port
              /\ Len(u.inbox) <= Capacity
          BY <1>1, <4>2 DEF UartInv, UartTypes, WithinCapacity
        <5>2. PutInto(Put(u, hole[p]), u, hole[p])
          BY <5>1, PutPort
        <5> QED
          BY <5>2 DEF PutInto
      <4>5. \A q \in Ports : q # p => uart'[q] = uart[q]
        BY <2>2, <3>4 DEF RxEvent
      <4> HIDE DEF u
      <4>6. uart'[p].receiving \/ uart'[p].restart
        BY <4>1, <4>2, <4>3, <4>4 DEF u
      <4> QED
        BY <4>5, <4>6 DEF Listens
    <3> QED
      BY <3>1, <3>2, <3>3, <3>4
  <2>4. CASE Serving
    <3>1. CASE Look \/ NothingToDeliver
      BY <3>1 DEF Look, NothingToDeliver, Listens
    <3>2. CASE Drain \/ Deliver
      BY <2>2, <3>2 DEF Drain, Deliver, Listens, Port
    <3>3. CASE Clear
      BY <2>2, <3>3 DEF Clear, Cleared, Listens, Port
    <3>4. CASE Report
      BY <2>2, <3>4 DEF Report, Listens, Port
    <3> QED
      BY <2>1, <2>4, <3>1, <3>2, <3>3, <3>4 DEF Serving, StoreRestart
  <2> QED
    BY <2>1, <2>3, <2>4 DEF UartNext, BeginReceive, StopReceive, Visit
<1> QED
  BY <1>1, UartInvInitially, UartInvKept, PTL DEF UartSpec, DeafOnlyByStore

-----------------------------------------------------------------------------
(* The receive cache and the transaction of the bus *)

Feeder == [at : {"idle", "full", "again"}, frame : Fragment \cup {NoFrame}]

MasterTransaction == [at : {"idle", "flush", "await", "received", "gather", "done"},
                got : Seq(Fragment), status : Statuses \cup {"none"}]

MasterTypes ==
    /\ frames \in Seq(Fragment) /\ Len(frames) <= FrameDepth
    /\ feeder \in Feeder
    /\ wire \in Seq(Fragment) /\ Len(wire) <= WireMax
    /\ noise \in 0 .. MaxNoise
    /\ xact \in MasterTransaction

(* Only the feeding task puts fragments: the room it made stays.            *)
FeederHasRoom ==
    /\ feeder.at # "idle" => feeder.frame \in Fragment
    /\ feeder.at = "again" => Len(frames) < FrameDepth

TransactionOrder ==
    /\ xact.at \in {"received", "gather"} \/ xact.got = <<>>
    /\ Len(xact.got) <= MaxPieces
    /\ xact.at = "gather" => Len(xact.got) < MaxPieces
    /\ xact.at = "done" => xact.status \in Statuses

NoneStored(s) == \A i \in DOMAIN s : s[i].age # "stored"

(* What lay in the queue when the try began is gone once it is over the     *)
(* flush; what was on its way then has another mark.                        *)
StoredFlushed ==
    /\ NoneStored(wire)
    /\ feeder.frame.age # "stored"
    /\ NoneStored(xact.got)
    /\ xact.at \in {"await", "received", "gather"} => NoneStored(frames)

MasterInv == MasterTypes /\ FeederHasRoom /\ TransactionOrder /\ StoredFlushed

-----------------------------------------------------------------------------
LEMMA AppendedFragment ==
    ASSUME NEW s \in Seq(Fragment), NEW f \in Fragment
    PROVE  /\ Append(s, f) \in Seq(Fragment) /\ Len(Append(s, f)) = Len(s) + 1
           /\ NoneStored(s) /\ f.age # "stored" => NoneStored(Append(s, f))
<1>1. /\ Append(s, f) \in Seq(Fragment) /\ Len(Append(s, f)) = Len(s) + 1
      /\ Len(s) \in Nat /\ DOMAIN s = 1 .. Len(s)
      /\ DOMAIN Append(s, f) = 1 .. Len(s) + 1
      /\ \A i \in 1 .. Len(s) : Append(s, f)[i] = s[i]
      /\ Append(s, f)[Len(s) + 1] = f
  BY AppendProperties, LenProperties
<1> QED
  BY <1>1 DEF NoneStored

LEMMA TailOfFragments ==
    ASSUME NEW s \in Seq(Fragment), s # <<>>
    PROVE  /\ Tail(s) \in Seq(Fragment) /\ Len(Tail(s)) = Len(s) - 1
           /\ Head(s) \in Fragment
           /\ NoneStored(s) => NoneStored(Tail(s)) /\ Head(s).age # "stored"
<1>1. /\ Tail(s) \in Seq(Fragment) /\ Len(Tail(s)) = Len(s) - 1 /\ Head(s) \in Fragment
      /\ Len(s) \in Nat \ {0} /\ DOMAIN s = 1 .. Len(s) /\ DOMAIN Tail(s) = 1 .. Len(s) - 1
      /\ \A i \in 1 .. Len(s) - 1 : Tail(s)[i] = s[i + 1]
      /\ Head(s) = s[1]
  BY HeadTailProperties, LenProperties, EmptySeq
<1> QED
  BY <1>1 DEF NoneStored

LEMMA DiscardedFragment ==
    ASSUME NEW s \in Seq(Fragment), NEW rest, rest = SubSeq(s, 2, Len(s))
    PROVE  /\ rest \in Seq(Fragment) /\ Len(rest) <= Len(s)
           /\ s # <<>> => Len(rest) < Len(s)
           /\ NoneStored(s) => NoneStored(rest)
<1>1. Len(s) \in Nat /\ DOMAIN s = 1 .. Len(s) /\ (s # <<>> => Len(s) > 0)
  BY LenProperties, EmptySeq
<1>2. \A i \in 2 .. Len(s) : s[i] \in Fragment
  BY <1>1
<1>3. rest \in Seq(Fragment) /\ DOMAIN rest = 1 .. Len(rest)
  BY <1>1, <1>2, SubSeqProperties, LenProperties
<1>4. (Len(s) = 0 => Len(rest) = 0) /\ (Len(s) > 0 => Len(rest) = Len(s) - 1)
  BY <1>1, <1>2, SubSeqProperties
<1>5. \A i \in 1 .. Len(s) - 1 : rest[i] = s[i + 1]
  BY <1>1, <1>2, SubSeqProperties
<1>6. Len(rest) <= Len(s) /\ (s # <<>> => Len(rest) < Len(s))
  BY <1>1, <1>4
<1>7. ASSUME NoneStored(s), NEW i \in DOMAIN rest PROVE rest[i].age # "stored"
  <2>1. i \in 1 .. Len(s) - 1 /\ i + 1 \in DOMAIN s
    BY <1>1, <1>3, <1>4
  <2> QED
    BY <1>5, <1>7, <2>1 DEF NoneStored
<1> QED
  BY <1>3, <1>6, <1>7 DEF NoneStored

LEMMA AgedOneFragment ==
    ASSUME NEW f \in Fragment \cup {NoFrame}, NEW age \in Ages
    PROVE  /\ AgedOne(f, age) \in Fragment \cup {NoFrame}
           /\ f \in Fragment => AgedOne(f, age) \in Fragment
           /\ AgedOne(f, age).age \in {age, f.age}
  BY DEF AgedOne, Fragment, NoFrame, Pieces, Ages

LEMMA AgedFragments ==
    ASSUME NEW s \in Seq(Fragment), NEW age \in Ages
    PROVE  /\ Aged(s, age) \in Seq(Fragment) /\ Len(Aged(s, age)) = Len(s)
           /\ age # "stored" /\ NoneStored(s) => NoneStored(Aged(s, age))
<1>1. \A i \in DOMAIN s : s[i] \in Fragment /\ AgedOne(s[i], age) \in Fragment
                           /\ AgedOne(s[i], age).age \in {age, s[i].age}
  BY AgedOneFragment
<1>2. /\ DOMAIN s = 1 .. Len(s) /\ Len(s) \in Nat /\ DOMAIN Aged(s, age) = DOMAIN s
      /\ \A i \in DOMAIN s : Aged(s, age)[i] = AgedOne(s[i], age)
  BY LenProperties DEF Aged
<1>3. Aged(s, age) \in Seq(Fragment) /\ Len(Aged(s, age)) = Len(s)
  BY <1>1, <1>2 DEF Aged
<1> QED
  BY <1>1, <1>2, <1>3 DEF NoneStored

LEMMA AnswerFragments ==
    \A answer \in Answers : answer \in Seq(Fragment) /\ NoneStored(answer)
<1>1. \A piece \in Pieces : Own(piece) \in Fragment /\ Own(piece).age # "stored"
  BY DEF Own, Fragment, Ages
<1>2. {"whole", "exception", "noise", "head", "tail"} \subseteq Pieces
  BY DEF Pieces
<1>3. <<>> \in Seq(Fragment) /\ NoneStored(<<>>)
  BY DEF NoneStored
<1>4. ASSUME NEW f \in Fragment, f.age # "stored"
      PROVE  <<f>> \in Seq(Fragment) /\ NoneStored(<<f>>)
  BY <1>4 DEF NoneStored
<1>5. ASSUME NEW f \in Fragment, f.age # "stored", NEW g \in Fragment, g.age # "stored"
      PROVE  <<f, g>> \in Seq(Fragment) /\ NoneStored(<<f, g>>)
  BY <1>5 DEF NoneStored
<1> QED
  BY <1>1, <1>2, <1>3, <1>4, <1>5 DEF Answers

(* What the operators on a transaction make of it.                          *)
LEMMA TransactionMoved ==
    ASSUME NEW x \in MasterTransaction,
           NEW at \in {"idle", "flush", "await", "received", "gather", "done"}
    PROVE  /\ [x EXCEPT !.at = at] \in MasterTransaction /\ [x EXCEPT !.at = at].at = at
           /\ [x EXCEPT !.at = at].got = x.got
  BY DEF MasterTransaction

LEMMA TransactionIdle ==
    /\ XactIdle \in MasterTransaction /\ XactIdle.at = "idle" /\ XactIdle.got = <<>>
    /\ \A status \in Statuses :
        /\ XactDone(status) \in MasterTransaction /\ XactDone(status).at = "done"
        /\ XactDone(status).got = <<>> /\ XactDone(status).status = status
  BY DEF XactIdle, XactDone, MasterTransaction, Statuses

-----------------------------------------------------------------------------
(* The steps of the bus *)

LEMMA BeginTryKeeps ==
    ASSUME MasterInv, BeginTry PROVE MasterInv' /\ xact'.at = "flush"
<1> USE DEF MasterInv
<1>1. /\ frames \in Seq(Fragment) /\ wire \in Seq(Fragment) /\ feeder \in Feeder
      /\ feeder.frame \in Fragment \cup {NoFrame}
      /\ "stored" \in Ages /\ "late" \in Ages
  BY DEF MasterTypes, Feeder, Ages
<1>2. /\ xact' \in MasterTransaction /\ xact'.at = "flush" /\ xact'.got = <<>>
  BY TransactionIdle, TransactionMoved DEF BeginTry
<1>3. /\ frames' \in Seq(Fragment) /\ Len(frames') = Len(frames)
      /\ wire' \in Seq(Fragment) /\ Len(wire') = Len(wire) /\ NoneStored(wire')
  BY <1>1, AgedFragments DEF BeginTry, StoredFlushed
<1> DEFINE f == AgedOne(feeder.frame, "late")
<1>4. /\ f \in Fragment \cup {NoFrame} /\ (feeder.frame \in Fragment => f \in Fragment)
      /\ f.age # "stored"
  BY <1>1, AgedOneFragment DEF StoredFlushed
<1>5. feeder' = [feeder EXCEPT !.frame = f]
  BY DEF BeginTry
<1> HIDE DEF f
<1>6. feeder' \in Feeder /\ feeder'.at = feeder.at /\ feeder'.frame = f
  BY <1>1, <1>4, <1>5 DEF Feeder
<1>7. MasterTypes'
  BY <1>2, <1>3, <1>6 DEF MasterTypes, BeginTry
<1>8. FeederHasRoom'
  BY <1>3, <1>4, <1>6 DEF FeederHasRoom
<1>9. Len(<<>>) = 0 /\ MaxPieces \in Nat \ {0} /\ NoneStored(<<>>)
  BY BoundsAssumption DEF NoneStored
<1>10. TransactionOrder' /\ StoredFlushed'
  BY <1>2, <1>3, <1>4, <1>6, <1>9 DEF TransactionOrder, StoredFlushed
<1> QED
  BY <1>2, <1>7, <1>8, <1>10

(* A step of the transaction that takes no fragment.                        *)
LEMMA TransactionKeeps ==
    ASSUME MasterInv, UNCHANGED <<frames, feeder, noise>>,
           wire' \in Seq(Fragment), Len(wire') <= WireMax, NoneStored(wire'),
           xact' \in MasterTransaction,
           xact'.at \in {"received", "gather"} \/ xact'.got = <<>>,
           xact'.got \in {<<>>, xact.got},
           xact'.at = "gather" => Len(xact'.got) < MaxPieces,
           xact'.at = "done" => xact'.status \in Statuses,
           xact'.at \in {"await", "received", "gather"} => NoneStored(frames)
    PROVE  MasterInv'
<1> USE DEF MasterInv
<1>1. MasterTypes' /\ FeederHasRoom'
  BY DEF MasterTypes, FeederHasRoom
<1>2. Len(<<>>) = 0 /\ MaxPieces \in Nat \ {0} /\ NoneStored(<<>>)
  BY BoundsAssumption DEF NoneStored
<1>3. TransactionOrder'
  BY <1>2 DEF TransactionOrder
<1>4. StoredFlushed'
  BY <1>2 DEF StoredFlushed
<1> QED
  BY <1>1, <1>3, <1>4

LEMMA MasterStepKeeps == ASSUME MasterInv, MasterStep PROVE MasterInv'
<1> USE DEF MasterInv
<1>0. /\ frames \in Seq(Fragment) /\ wire \in Seq(Fragment) /\ Len(wire) <= WireMax
      /\ xact \in MasterTransaction /\ xact.got \in Seq(Fragment) /\ NoneStored(wire)
  BY DEF MasterTypes, MasterTransaction, StoredFlushed
<1>1. CASE FlushOne
  <2>1. /\ frames # <<>> /\ frames' = Tail(frames) /\ UNCHANGED <<feeder, wire, noise, xact>>
        /\ xact.at = "flush"
    BY <1>1 DEF FlushOne, GetFrame
  <2>2. frames' \in Seq(Fragment) /\ Len(frames') = Len(frames) - 1 /\ Len(frames) \in Nat
    BY <1>0, <2>1, TailOfFragments, EmptySeq
  <2>3. MasterTypes' /\ FeederHasRoom'
    BY <2>1, <2>2, FrameDepthAssumption DEF MasterTypes, FeederHasRoom
  <2>4. TransactionOrder' /\ StoredFlushed'
    BY <2>1 DEF TransactionOrder, StoredFlushed
  <2> QED
    BY <2>3, <2>4
<1>2. CASE SendRequest
  <2>1. PICK answer \in Answers :
          Len(wire) + Len(answer) <= WireMax /\ wire' = wire \o answer
    BY <1>2 DEF SendRequest
  <2>2. answer \in Seq(Fragment) /\ NoneStored(answer)
    BY AnswerFragments
  <2>3. /\ wire' \in Seq(Fragment) /\ Len(wire') <= WireMax
        /\ DOMAIN wire' = 1 .. Len(wire) + Len(answer)
        /\ \A i \in DOMAIN wire' : wire'[i] = IF i <= Len(wire) THEN wire[i]
                                               ELSE answer[i - Len(wire)]
    BY <1>0, <2>1, <2>2, ConcatProperties, LenProperties
  <2>4. /\ Len(wire) \in Nat /\ Len(answer) \in Nat
        /\ DOMAIN wire = 1 .. Len(wire) /\ DOMAIN answer = 1 .. Len(answer)
    BY <1>0, <2>2, LenProperties
  <2>5. ASSUME NEW i \in DOMAIN wire' PROVE wire'[i].age # "stored"
    <3>1. CASE i <= Len(wire)
      BY <1>0, <2>3, <2>4, <3>1 DEF NoneStored
    <3>2. CASE ~(i <= Len(wire))
      <4>1. i - Len(wire) \in DOMAIN answer /\ wire'[i] = answer[i - Len(wire)]
        BY <2>3, <2>4, <3>2
      <4> QED
        BY <2>2, <4>1 DEF NoneStored
    <3> QED
      BY <3>1, <3>2
  <2>6. /\ xact.at = "flush" /\ frames = <<>> /\ UNCHANGED <<frames, feeder, noise>>
        /\ xact' = [xact EXCEPT !.at = "await"]
    BY <1>2 DEF SendRequest, FlushDone
  <2>7. xact' \in MasterTransaction /\ xact'.at = "await" /\ xact'.got = xact.got /\ xact.got = <<>>
    BY <1>0, <2>6, TransactionMoved DEF TransactionOrder
  <2>8. NoneStored(frames)
    BY <2>6 DEF NoneStored
  <2> QED
    BY <2>3, <2>5, <2>6, <2>7, <2>8, TransactionKeeps DEF NoneStored
<1>3. CASE SendFails \/ AnswerTimeout
  <2>1. PICK status \in Statuses : xact' = XactDone(status)
    BY <1>3 DEF SendFails, AnswerTimeout, Statuses
  <2>2. UNCHANGED <<frames, feeder, noise, wire>>
    BY <1>3 DEF SendFails, AnswerTimeout
  <2> QED
    BY <1>0, <2>1, <2>2, TransactionIdle, TransactionKeeps DEF MasterTypes
<1>4. CASE ReceivePiece
  <2>1. /\ frames # <<>> /\ frames' = Tail(frames) /\ UNCHANGED <<feeder, wire, noise>>
        /\ xact.at \in {"await", "gather"}
        /\ xact' = [xact EXCEPT !.at = "received", !.got = Append(@, Head(frames))]
    BY <1>4 DEF ReceivePiece, GetFrame
  <2> DEFINE got == Append(xact.got, Head(frames))
  <2>2. /\ frames' \in Seq(Fragment) /\ Len(frames') = Len(frames) - 1 /\ Len(frames) \in Nat
        /\ Head(frames) \in Fragment
        /\ NoneStored(frames') /\ Head(frames).age # "stored"
    BY <1>0, <2>1, TailOfFragments, EmptySeq DEF StoredFlushed
  <2>3. got \in Seq(Fragment) /\ Len(got) = Len(xact.got) + 1 /\ NoneStored(got)
    BY <1>0, <2>2, AppendedFragment DEF StoredFlushed
  <2>4. Len(got) <= MaxPieces
    <3>1. Len(<<>>) = 0 /\ Len(xact.got) \in Nat /\ MaxPieces \in Nat \ {0}
      BY <1>0, BoundsAssumption
    <3> QED
      BY <2>1, <2>3, <3>1 DEF TransactionOrder
  <2> HIDE DEF got
  <2>5. xact' \in MasterTransaction /\ xact'.at = "received" /\ xact'.got = got
    BY <1>0, <2>1, <2>3 DEF MasterTransaction, got
  <2>6. MasterTypes' /\ FeederHasRoom'
    BY <2>1, <2>2, <2>5, FrameDepthAssumption DEF MasterTypes, FeederHasRoom
  <2>7. TransactionOrder'
    BY <2>4, <2>5 DEF TransactionOrder
  <2>8. StoredFlushed'
    BY <2>1, <2>2, <2>3, <2>5 DEF StoredFlushed
  <2> QED
    BY <2>6, <2>7, <2>8
<1>5. CASE GatherMore
  <2>1. /\ xact.at = "received" /\ Len(xact.got) < MaxPieces
        /\ xact' = [xact EXCEPT !.at = "gather"] /\ UNCHANGED <<frames, feeder, noise, wire>>
    BY <1>5 DEF GatherMore, LengthMissing
  <2>2. xact' \in MasterTransaction /\ xact'.at = "gather" /\ xact'.got = xact.got
    BY <1>0, <2>1, TransactionMoved
  <2> QED
    BY <1>0, <2>1, <2>2, TransactionKeeps DEF StoredFlushed
<1>6. CASE ParseAnswer
  <2>1. PICK status \in Parsed(xact.got) : xact' = XactDone(status)
    BY <1>6 DEF ParseAnswer
  <2>2. status \in Statuses
    BY <2>1 DEF Parsed, Statuses
  <2>3. UNCHANGED <<frames, feeder, noise, wire>>
    BY <1>6 DEF ParseAnswer
  <2> QED
    BY <1>0, <2>1, <2>2, <2>3, TransactionIdle, TransactionKeeps DEF MasterTypes
<1> QED
  BY <1>1, <1>2, <1>3, <1>4, <1>5, <1>6 DEF MasterStep

LEMMA FeedKeeps ==
    ASSUME MasterInv, NEW f \in Fragment, f.age # "stored", Feed(f), UNCHANGED xact,
           wire' \in Seq(Fragment), Len(wire') <= WireMax, NoneStored(wire'),
           noise' \in 0 .. MaxNoise
    PROVE  MasterInv'
<1> USE DEF MasterInv
<1>1. frames \in Seq(Fragment) /\ Len(frames) \in Nat /\ feeder \in Feeder /\ feeder.at = "idle"
  BY LenProperties DEF MasterTypes, Feed
<1>2. CASE Len(frames) < FrameDepth
  <2>1. frames' = Append(frames, f) /\ UNCHANGED feeder
    BY <1>2 DEF Feed
  <2>2. /\ frames' \in Seq(Fragment) /\ Len(frames') = Len(frames) + 1
        /\ NoneStored(frames) => NoneStored(frames')
    BY <1>1, <2>1, AppendedFragment
  <2>3. Len(frames') <= FrameDepth
    BY <1>1, <1>2, <2>2, FrameDepthAssumption
  <2>4. MasterTypes' /\ FeederHasRoom' /\ TransactionOrder'
    BY <1>1, <2>1, <2>2, <2>3 DEF MasterTypes, FeederHasRoom, TransactionOrder
  <2>5. StoredFlushed'
    BY <2>1, <2>2 DEF StoredFlushed
  <2> QED
    BY <2>4, <2>5
<1>3. CASE ~(Len(frames) < FrameDepth)
  <2>1. feeder' = [at |-> "full", frame |-> f] /\ UNCHANGED frames
    BY <1>3 DEF Feed
  <2>2. feeder' \in Feeder /\ feeder'.at = "full" /\ feeder'.frame = f
    BY <2>1 DEF Feeder
  <2>3. MasterTypes' /\ FeederHasRoom' /\ TransactionOrder'
    BY <2>1, <2>2 DEF MasterTypes, FeederHasRoom, TransactionOrder
  <2>4. StoredFlushed'
    BY <2>1, <2>2 DEF StoredFlushed
  <2> QED
    BY <2>3, <2>4
<1> QED
  BY <1>2, <1>3

LEMMA LineStepKeeps == ASSUME MasterInv, LineStep PROVE MasterInv'
<1> USE DEF MasterInv
<1>0. /\ frames \in Seq(Fragment) /\ Len(frames) \in Nat /\ Len(frames) <= FrameDepth
      /\ wire \in Seq(Fragment) /\ Len(wire) <= WireMax /\ NoneStored(wire)
      /\ feeder \in Feeder /\ noise \in 0 .. MaxNoise
  BY LenProperties DEF MasterTypes, StoredFlushed
<1>1. CASE LineDelivers
  <2>1. wire # <<>> /\ wire' = Tail(wire) /\ Feed(Head(wire)) /\ UNCHANGED <<noise, xact>>
    BY <1>1 DEF LineDelivers
  <2>2. /\ Head(wire) \in Fragment /\ Head(wire).age # "stored"
        /\ wire' \in Seq(Fragment) /\ Len(wire') = Len(wire) - 1 /\ Len(wire) \in Nat
        /\ NoneStored(wire')
    BY <1>0, <2>1, TailOfFragments, LenProperties
  <2>3. Len(wire') <= WireMax
    BY <1>0, <2>2, BoundsAssumption
  <2> QED
    BY <1>0, <2>1, <2>2, <2>3, FeedKeeps
<1>2. CASE LineNoise
  <2>1. /\ noise' \in 0 .. MaxNoise /\ Feed(Own("noise")) /\ UNCHANGED <<wire, xact>>
    BY <1>0, <1>2, BoundsAssumption DEF LineNoise
  <2>2. Own("noise") \in Fragment /\ Own("noise").age # "stored"
    BY DEF Own, Fragment, Pieces, Ages
  <2> QED
    BY <1>0, <2>1, <2>2, FeedKeeps
<1>3. CASE LineFeeds /\ FeedDiscard
  <2>1. /\ feeder.at = "full" /\ frames' = SubSeq(frames, 2, Len(frames))
        /\ feeder' = [feeder EXCEPT !.at = "again"] /\ UNCHANGED <<wire, noise, xact>>
    BY <1>3 DEF LineFeeds, FeedDiscard
  <2>2. /\ frames' \in Seq(Fragment) /\ Len(frames') <= Len(frames)
        /\ frames # <<>> => Len(frames') < Len(frames)
        /\ NoneStored(frames) => NoneStored(frames')
    BY <1>0, <2>1, DiscardedFragment
  <2>3. Len(frames') \in Nat /\ Len(frames') < FrameDepth /\ Len(frames') <= FrameDepth
    <3>1. Len(frames') \in Nat /\ (frames = <<>> => Len(frames) = 0)
      BY <2>2, LenProperties
    <3> QED
      BY <1>0, <2>2, <3>1, FrameDepthAssumption
  <2>4. feeder' \in Feeder /\ feeder'.at = "again" /\ feeder'.frame = feeder.frame
    BY <1>0, <2>1 DEF Feeder
  <2>5. MasterTypes' /\ FeederHasRoom' /\ TransactionOrder'
    BY <2>1, <2>2, <2>3, <2>4 DEF MasterTypes, FeederHasRoom, TransactionOrder
  <2>6. StoredFlushed'
    BY <2>1, <2>2, <2>4 DEF StoredFlushed
  <2> QED
    BY <2>5, <2>6
<1>4. CASE LineFeeds /\ FeedAgain
  <2>1. /\ feeder.at = "again" /\ frames' = Append(frames, feeder.frame)
        /\ feeder' = FeederIdle /\ UNCHANGED <<wire, noise, xact>>
    BY <1>4 DEF LineFeeds, FeedAgain
  <2>2. feeder.frame \in Fragment /\ feeder.frame.age # "stored" /\ Len(frames) < FrameDepth
    BY <2>1 DEF FeederHasRoom, StoredFlushed
  <2>3. /\ frames' \in Seq(Fragment) /\ Len(frames') = Len(frames) + 1
        /\ NoneStored(frames) => NoneStored(frames')
    BY <1>0, <2>1, <2>2, AppendedFragment
  <2>4. Len(frames') <= FrameDepth
    BY <1>0, <2>2, <2>3, FrameDepthAssumption
  <2>5. feeder' \in Feeder /\ feeder'.at = "idle" /\ feeder'.frame.age # "stored"
    BY <2>1 DEF Feeder, FeederIdle, NoFrame
  <2>6. MasterTypes' /\ FeederHasRoom' /\ TransactionOrder'
    BY <2>1, <2>3, <2>4, <2>5 DEF MasterTypes, FeederHasRoom, TransactionOrder
  <2>7. StoredFlushed'
    BY <2>1, <2>3, <2>5 DEF StoredFlushed
  <2> QED
    BY <2>6, <2>7
<1> QED
  BY <1>1, <1>2, <1>3, <1>4 DEF LineStep, LineFeeds, FeedContinues

LEMMA MasterInvInitially == MasterInit => MasterInv
<1> SUFFICES ASSUME MasterInit PROVE MasterInv
  OBVIOUS
<1>1. /\ frames = <<>> /\ wire = <<>> /\ noise = 0
      /\ feeder = [at |-> "idle", frame |-> [piece |-> "none", age |-> "own"]]
  BY DEF MasterInit, Rs485Init, FeederIdle, NoFrame
<1>2. xact \in MasterTransaction /\ xact.at = "idle" /\ xact.got = <<>>
  BY TransactionIdle DEF MasterInit
<1>3. feeder \in Feeder /\ feeder.at = "idle" /\ feeder.frame.age # "stored"
  BY <1>1 DEF Feeder, NoFrame
<1>4. MasterTypes
  <2>1. Len(<<>>) = 0 /\ <<>> \in Seq(Fragment)
    OBVIOUS
  <2> QED
    BY <1>1, <1>2, <1>3, <2>1, FrameDepthAssumption, BoundsAssumption DEF MasterTypes
<1>5. NoneStored(<<>>) /\ Len(<<>>) = 0 /\ MaxPieces \in Nat \ {0}
  BY BoundsAssumption DEF NoneStored
<1>6. FeederHasRoom /\ TransactionOrder /\ StoredFlushed
  BY <1>1, <1>2, <1>3, <1>5 DEF FeederHasRoom, TransactionOrder, StoredFlushed
<1> QED
  BY <1>4, <1>6 DEF MasterInv

-----------------------------------------------------------------------------
(* Queues of requests and of results *)

OnceIn(s) == \A i, j \in DOMAIN s : s[i] = s[j] => i = j

HasAnswer(r, id) == \E i \in DOMAIN r : r[i].id = id

AnsweredOnce(r) == \A i, j \in DOMAIN r : r[i].id = r[j].id => i = j

Waits(id) == \E p \in Priorities : Holds(requests[p], id)

Executing(id) == worker.at = "execute" /\ worker.id = id

QueueTypes ==
    /\ requests \in [Priorities -> Seq(Requests)]
    /\ \A p \in Priorities : Len(requests[p]) <= RequestDepth
    /\ results \in Seq(Result)
    /\ active \subseteq Requests
    /\ \/ worker = NoJob
       \/ \E p \in Priorities : worker = Scan(p)
       \/ \E id \in Requests, n \in 1 .. 255 : worker = Execute(id, n) /\ n <= Retries[id] + 1

(* Nobody else puts results: the room the worker saw stays.                 *)
WorkerHasRoom ==
    /\ pending = NoResult
    /\ Len(results) <= ResultDepth
    /\ worker.at # "idle" => Len(results) < ResultDepth

OneWaits ==
    /\ \A p \in Priorities : OnceIn(requests[p])
    /\ \A p, q \in Priorities, id \in Requests :
          Holds(requests[p], id) /\ Holds(requests[q], id) => p = q
    /\ AnsweredOnce(results)

OnePlace ==
    \A id \in Requests :
        /\ id \in active <=> Waits(id) \/ Executing(id) \/ HasAnswer(results, id)
        /\ ~(Waits(id) /\ Executing(id))
        /\ ~(Waits(id) /\ HasAnswer(results, id))
        /\ ~(Executing(id) /\ HasAnswer(results, id))

QueueInv == QueueTypes /\ WorkerHasRoom /\ OneWaits /\ OnePlace /\ FailureUsesAllTries

ModbusInv == MasterInv /\ QueueInv

LEMMA AppendedRequest ==
    ASSUME NEW s \in Seq(Requests), NEW e \in Requests, ~Holds(s, e), OnceIn(s)
    PROVE  /\ Append(s, e) \in Seq(Requests) /\ Len(Append(s, e)) = Len(s) + 1
           /\ OnceIn(Append(s, e))
           /\ \A id : Holds(Append(s, e), id) <=> Holds(s, id) \/ id = e
<1>1. /\ Append(s, e) \in Seq(Requests) /\ Len(Append(s, e)) = Len(s) + 1
      /\ Len(s) \in Nat /\ DOMAIN s = 1 .. Len(s)
      /\ DOMAIN Append(s, e) = 1 .. Len(s) + 1
      /\ \A i \in 1 .. Len(s) : Append(s, e)[i] = s[i]
      /\ Append(s, e)[Len(s) + 1] = e
  BY AppendProperties, LenProperties
<1> QED
  BY <1>1 DEF Holds, OnceIn

LEMMA TailOfRequests ==
    ASSUME NEW s \in Seq(Requests), s # <<>>, OnceIn(s)
    PROVE  /\ Tail(s) \in Seq(Requests) /\ Len(Tail(s)) = Len(s) - 1 /\ Head(s) \in Requests
           /\ OnceIn(Tail(s)) /\ Holds(s, Head(s))
           /\ \A id : Holds(Tail(s), id) <=> Holds(s, id) /\ id # Head(s)
<1>1. /\ Tail(s) \in Seq(Requests) /\ Len(Tail(s)) = Len(s) - 1 /\ Head(s) \in Requests
      /\ Len(s) \in Nat \ {0} /\ DOMAIN s = 1 .. Len(s) /\ DOMAIN Tail(s) = 1 .. Len(s) - 1
      /\ \A i \in 1 .. Len(s) - 1 : Tail(s)[i] = s[i + 1]
      /\ Head(s) = s[1]
  BY HeadTailProperties, LenProperties, EmptySeq
<1>2. OnceIn(Tail(s)) /\ Holds(s, Head(s))
  BY <1>1 DEF Holds, OnceIn
<1>3. ASSUME NEW id PROVE Holds(Tail(s), id) => Holds(s, id) /\ id # Head(s)
  BY <1>1 DEF Holds, OnceIn
<1>4. ASSUME NEW id, Holds(s, id), id # Head(s) PROVE Holds(Tail(s), id)
  <2>1. PICK i \in DOMAIN s : s[i] = id
    BY <1>4 DEF Holds
  <2>2. i - 1 \in DOMAIN Tail(s) /\ Tail(s)[i - 1] = id
    BY <1>1, <1>4, <2>1
  <2> QED
    BY <2>2 DEF Holds
<1> QED
  BY <1>1, <1>2, <1>3, <1>4

LEMMA AppendedResult ==
    ASSUME NEW r \in Seq(Result), NEW e \in Result, ~HasAnswer(r, e.id), AnsweredOnce(r)
    PROVE  /\ r \o <<e>> \in Seq(Result) /\ Len(r \o <<e>>) = Len(r) + 1
           /\ AnsweredOnce(r \o <<e>>)
           /\ \A id : HasAnswer(r \o <<e>>, id) <=> HasAnswer(r, id) \/ id = e.id
           /\ \A i \in DOMAIN (r \o <<e>>) : (r \o <<e>>)[i] = e \/ \E j \in DOMAIN r : (r \o <<e>>)[i] = r[j]
<1> DEFINE s == Append(r, e)
<1>1. r \o <<e>> = s
  BY AppendIsConcat
<1>2. /\ s \in Seq(Result) /\ Len(s) = Len(r) + 1
      /\ Len(r) \in Nat /\ DOMAIN r = 1 .. Len(r)
      /\ DOMAIN s = 1 .. Len(r) + 1
      /\ \A i \in 1 .. Len(r) : s[i] = r[i]
      /\ s[Len(r) + 1] = e
  BY AppendProperties, LenProperties
<1> HIDE DEF s
<1>3. /\ AnsweredOnce(s)
      /\ \A id : HasAnswer(s, id) <=> HasAnswer(r, id) \/ id = e.id
  BY <1>2 DEF HasAnswer, AnsweredOnce
<1>4. \A i \in DOMAIN s : s[i] = e \/ \E j \in DOMAIN r : s[i] = r[j]
  BY <1>2
<1> QED
  BY <1>1, <1>2, <1>3, <1>4

LEMMA TailOfResults ==
    ASSUME NEW r \in Seq(Result), r # <<>>, AnsweredOnce(r)
    PROVE  /\ Tail(r) \in Seq(Result) /\ Len(Tail(r)) = Len(r) - 1 /\ Head(r) \in Result
           /\ AnsweredOnce(Tail(r)) /\ HasAnswer(r, Head(r).id)
           /\ \A id : HasAnswer(Tail(r), id) <=> HasAnswer(r, id) /\ id # Head(r).id
           /\ \A i \in DOMAIN Tail(r) : i + 1 \in DOMAIN r /\ Tail(r)[i] = r[i + 1]
<1>1. /\ Tail(r) \in Seq(Result) /\ Len(Tail(r)) = Len(r) - 1 /\ Head(r) \in Result
      /\ Len(r) \in Nat \ {0} /\ DOMAIN r = 1 .. Len(r) /\ DOMAIN Tail(r) = 1 .. Len(r) - 1
      /\ \A i \in 1 .. Len(r) - 1 : Tail(r)[i] = r[i + 1]
      /\ Head(r) = r[1]
  BY HeadTailProperties, LenProperties, EmptySeq
<1>2. AnsweredOnce(Tail(r)) /\ HasAnswer(r, Head(r).id)
  BY <1>1 DEF HasAnswer, AnsweredOnce
<1>3. ASSUME NEW id PROVE HasAnswer(Tail(r), id) => HasAnswer(r, id) /\ id # Head(r).id
  BY <1>1 DEF HasAnswer, AnsweredOnce
<1>4. ASSUME NEW id, HasAnswer(r, id), id # Head(r).id PROVE HasAnswer(Tail(r), id)
  <2>1. PICK i \in DOMAIN r : r[i].id = id
    BY <1>4 DEF HasAnswer
  <2>2. i - 1 \in DOMAIN Tail(r) /\ Tail(r)[i - 1] = r[i]
    BY <1>1, <1>4, <2>1
  <2> QED
    BY <2>1, <2>2 DEF HasAnswer
<1> QED
  BY <1>1, <1>2, <1>3, <1>4

LEMMA WorkerRecords ==
    /\ NoJob.at = "idle"
    /\ \A p : Scan(p).at = "scan" /\ Scan(p).prio = p
    /\ \A id, n : /\ Execute(id, n).at = "execute" /\ Execute(id, n).id = id
                   /\ Execute(id, n).attempt = n
  BY DEF NoJob, Scan, Execute

LEMMA WorkerScans ==
    ASSUME QueueTypes, worker.at = "scan"
    PROVE  \E p \in Priorities : worker = Scan(p) /\ worker.prio = p
<1>1. worker # NoJob
  BY WorkerRecords
<1>2. \A id, n : worker # Execute(id, n)
  BY WorkerRecords
<1>3. PICK p \in Priorities : worker = Scan(p)
  BY <1>1, <1>2 DEF QueueTypes
<1>4. worker.prio = p
  BY <1>3, WorkerRecords
<1> QED
  BY <1>3, <1>4

LEMMA WorkerExecutes ==
    ASSUME QueueTypes, worker.at = "execute"
    PROVE  \E id \in Requests, n \in 1 .. 255 :
             /\ worker = Execute(id, n) /\ n <= Retries[id] + 1
             /\ worker.id = id /\ worker.attempt = n
<1>1. worker # NoJob
  BY WorkerRecords
<1>2. \A p : worker # Scan(p)
  BY WorkerRecords
<1>3. PICK id \in Requests, n \in 1 .. 255 : worker = Execute(id, n) /\ n <= Retries[id] + 1
  BY <1>1, <1>2 DEF QueueTypes
<1>4. worker.id = id /\ worker.attempt = n
  BY <1>3, WorkerRecords
<1> QED
  BY <1>3, <1>4

LEMMA MasterUnchanged == MasterInv /\ UNCHANGED masterVars => MasterInv'
  BY DEF MasterInv, masterVars, MasterTypes, FeederHasRoom, TransactionOrder, StoredFlushed

LEMMA SubmitKeeps ==
    ASSUME QueueInv, NEW id \in Requests, NEW p \in Priorities, Submit(id, p)
    PROVE  QueueInv'
<1> USE DEF QueueInv
<1> DEFINE s == Append(requests[p], id)
<1>1. /\ id \notin active /\ Len(requests[p]) < RequestDepth
      /\ requests' = [requests EXCEPT ![p] = s] /\ active' = active \cup {id}
      /\ UNCHANGED <<results, pending, worker>>
  BY DEF Submit
<1>2. requests \in [Priorities -> Seq(Requests)] /\ requests[p] \in Seq(Requests)
  BY DEF QueueTypes
<1>3. ~Waits(id) /\ ~Executing(id) /\ ~HasAnswer(results, id)
  BY <1>1 DEF OnePlace
<1>4. /\ s \in Seq(Requests) /\ Len(s) = Len(requests[p]) + 1 /\ OnceIn(s)
      /\ \A x : Holds(s, x) <=> Holds(requests[p], x) \/ x = id
      /\ Len(requests[p]) \in Nat
  <2>1. ~Holds(requests[p], id) /\ OnceIn(requests[p])
    BY <1>3 DEF Waits, OneWaits
  <2> QED
    BY <1>2, <2>1, AppendedRequest, LenProperties
<1> HIDE DEF s
<1>5. /\ requests' \in [Priorities -> Seq(Requests)] /\ requests'[p] = s
      /\ \A q \in Priorities : q # p => requests'[q] = requests[q]
  BY <1>1, <1>2, <1>4
<1>6. Waits(id)' /\ \A x \in Requests : x # id => (Waits(x)' <=> Waits(x))
  BY <1>4, <1>5 DEF Waits
<1>7. QueueTypes'
  <2>1. \A q \in Priorities : Len(requests'[q]) <= RequestDepth
    BY <1>1, <1>4, <1>5, QueueAssumption DEF QueueTypes
  <2> QED
    BY <1>1, <1>5, <2>1 DEF QueueTypes
<1>8. WorkerHasRoom' /\ FailureUsesAllTries'
  BY <1>1 DEF WorkerHasRoom, FailureUsesAllTries
<1>9. OneWaits'
  <2>1. \A q \in Priorities : ~Holds(requests[q], id)
    BY <1>3 DEF Waits
  <2> QED
    BY <1>1, <1>4, <1>5, <2>1 DEF OneWaits
<1>10. OnePlace'
  <2>1. ASSUME NEW x \in Requests PROVE Executing(x)' <=> Executing(x)
    BY <1>1 DEF Executing
  <2> QED
    BY <1>1, <1>3, <1>6, <2>1 DEF OnePlace
<1> QED
  BY <1>7, <1>8, <1>9, <1>10

LEMMA GetResultKeeps == ASSUME QueueInv, GetResult PROVE QueueInv'
<1> USE DEF QueueInv
<1>1. /\ results # <<>> /\ results' = Tail(results) /\ active' = active \ {Head(results).id}
      /\ UNCHANGED <<requests, pending, worker>> /\ results \in Seq(Result)
  BY DEF GetResult, QueueTypes
<1>2. /\ results' \in Seq(Result) /\ Len(results') = Len(results) - 1
      /\ Len(results) \in Nat
      /\ Head(results) \in Result /\ AnsweredOnce(results')
      /\ HasAnswer(results, Head(results).id)
      /\ \A x : HasAnswer(results', x) <=> HasAnswer(results, x) /\ x # Head(results).id
      /\ \A i \in DOMAIN results' : i + 1 \in DOMAIN results /\ results'[i] = results[i + 1]
  BY <1>1, TailOfResults, LenProperties DEF OneWaits
<1>3. QueueTypes'
  BY <1>1, <1>2 DEF QueueTypes
<1>4. WorkerHasRoom'
  BY <1>1, <1>2, QueueAssumption DEF WorkerHasRoom
<1>5. FailureUsesAllTries'
  BY <1>2 DEF FailureUsesAllTries
<1>6. OneWaits'
  BY <1>1, <1>2 DEF OneWaits
<1>7. OnePlace'
  <2>1. ASSUME NEW x \in Requests PROVE (Executing(x)' <=> Executing(x)) /\ (Waits(x)' <=> Waits(x))
    BY <1>1 DEF Executing, Waits
  <2> QED
    BY <1>1, <1>2, <2>1 DEF OnePlace
<1> QED
  BY <1>3, <1>4, <1>5, <1>6, <1>7

(* A step of the worker that moves no request.                              *)
LEMMA WorkerMoves ==
    ASSUME QueueInv, UNCHANGED <<requests, results, pending, active>>,
           \/ worker' = NoJob
           \/ \E p \in Priorities : worker' = Scan(p) /\ Len(results) < ResultDepth,
           worker.at # "execute"
    PROVE  QueueInv'
<1> USE DEF QueueInv
<1>1. worker'.at # "execute" /\ (worker'.at # "idle" => Len(results) < ResultDepth)
  BY WorkerRecords
<1>2. QueueTypes' /\ WorkerHasRoom'
  BY <1>1 DEF QueueTypes, WorkerHasRoom
<1>3. OneWaits' /\ FailureUsesAllTries'
  BY DEF OneWaits, FailureUsesAllTries
<1>4. ASSUME NEW x \in Requests PROVE ~Executing(x)' /\ ~Executing(x) /\ (Waits(x)' <=> Waits(x))
  BY <1>1 DEF Executing, Waits
<1>5. OnePlace'
  BY <1>4 DEF OnePlace
<1> QED
  BY <1>2, <1>3, <1>5

LEMMA BeginProcessKeeps == ASSUME QueueInv, BeginProcess PROVE QueueInv'
<1>1. results \in Seq(Result) /\ pending = <<>>
  BY DEF QueueInv, QueueTypes, WorkerHasRoom, NoResult
<1>2. results' = results /\ pending' = pending /\ UNCHANGED <<requests, active>>
      /\ worker.at = "idle"
  BY <1>1 DEF BeginProcess, NoResult
<1>3. \/ worker' = NoJob
      \/ worker' = Scan(TopPriority) /\ Len(results) < ResultDepth
  BY <1>2 DEF BeginProcess, Room
<1>4. TopPriority \in Priorities
  BY QueueAssumption DEF Priorities
<1> QED
  BY <1>2, <1>3, <1>4, WorkerMoves

LEMMA OneTry == 1 \in 1 .. 255 /\ \A id \in Requests : 1 <= Retries[id] + 1
  BY QueueAssumption

(* The worker takes a request from its queue.                               *)
LEMMA TakenRequest ==
    ASSUME QueueInv, NEW p \in Priorities, requests[p] # <<>>,
           NEW id, NEW s, id = Head(requests[p]), s = Tail(requests[p]),
           worker.at = "scan", worker' = Execute(id, 1),
           requests' = [requests EXCEPT ![p] = s], UNCHANGED <<results, pending, active>>
    PROVE  QueueInv'
<1> USE DEF QueueInv
<1>1. requests \in [Priorities -> Seq(Requests)] /\ requests[p] \in Seq(Requests)
  BY DEF QueueTypes
<1>2. /\ s \in Seq(Requests) /\ Len(s) = Len(requests[p]) - 1 /\ id \in Requests
      /\ OnceIn(s) /\ Holds(requests[p], id) /\ Len(requests[p]) \in Nat
      /\ \A x : Holds(s, x) <=> Holds(requests[p], x) /\ x # id
  BY <1>1, TailOfRequests, LenProperties DEF OneWaits
<1>3. /\ requests' \in [Priorities -> Seq(Requests)] /\ requests'[p] = s
      /\ \A q \in Priorities : q # p => requests'[q] = requests[q]
  BY <1>1, <1>2
<1>4. worker'.at = "execute" /\ worker'.id = id
  BY WorkerRecords
<1>5. /\ Waits(id) /\ ~Waits(id)'
      /\ \A x \in Requests : x # id => (Waits(x)' <=> Waits(x))
  <2>1. \A q \in Priorities : q # p => ~Holds(requests[q], id)
    BY <1>2 DEF OneWaits
  <2> QED
    BY <1>2, <1>3, <2>1 DEF Waits
<1>6. QueueTypes'
  <2>1. \A q \in Priorities : Len(requests'[q]) <= RequestDepth
    BY <1>2, <1>3, QueueAssumption DEF QueueTypes
  <2>2. 1 \in 1 .. 255 /\ 1 <= Retries[id] + 1
    BY <1>2, OneTry
  <2> QED
    BY <1>2, <1>3, <2>1, <2>2 DEF QueueTypes
<1>7. WorkerHasRoom' /\ FailureUsesAllTries'
  BY DEF WorkerHasRoom, FailureUsesAllTries
<1>8. OneWaits'
  BY <1>2, <1>3 DEF OneWaits
<1>9. OnePlace'
  <2>1. ASSUME NEW x \in Requests PROVE ~Executing(x) /\ (Executing(x)' <=> x = id)
    BY <1>4 DEF Executing
  <2> QED
    BY <1>2, <1>5, <2>1 DEF OnePlace
<1> QED
  BY <1>6, <1>7, <1>8, <1>9

LEMMA ScanOneKeeps == ASSUME MasterInv, QueueInv, ScanOne PROVE MasterInv' /\ QueueInv'
<1>1. PICK p \in Priorities : worker = Scan(p) /\ worker.prio = p
  BY WorkerScans DEF QueueInv, ScanOne
<1>2. worker.at = "scan" /\ UNCHANGED <<results, pending, active>>
  BY DEF ScanOne
<1>3. CASE requests[p] = <<>> /\ worker' = Lower(p) /\ UNCHANGED <<requests, masterVars>>
  <2>1. worker' = NoJob \/ (p - 1 \in Priorities /\ worker' = Scan(p - 1))
    BY <1>3, QueueAssumption DEF Lower, Priorities
  <2>2. QueueInv'
    BY <1>2, <1>3, <2>1, WorkerMoves DEF QueueInv, WorkerHasRoom
  <2> QED
    BY <1>3, <2>2, MasterUnchanged
<1>4. CASE /\ requests[p] # <<>> /\ worker' = Execute(Head(requests[p]), 1)
           /\ requests' = [requests EXCEPT ![p] = Tail(requests[p])]
           /\ BeginTry
  <2>1. QueueInv'
    BY <1>2, <1>4, TakenRequest
  <2> QED
    BY <1>4, <2>1, BeginTryKeeps
<1> QED
  BY <1>1, <1>3, <1>4 DEF ScanOne

LEMMA RetryKeeps == ASSUME MasterInv, QueueInv, Retry PROVE MasterInv' /\ QueueInv'
<1> USE DEF QueueInv
<1>1. PICK id \in Requests, n \in 1 .. 255 :
        /\ worker = Execute(id, n) /\ worker.id = id /\ worker.attempt = n
  BY WorkerExecutes DEF Retry
<1>2. /\ n <= Retries[id] /\ BeginTry /\ UNCHANGED <<requests, results, pending, active>>
      /\ worker' = Execute(id, n + 1)
  BY <1>1 DEF Retry, TriesAgain, NextAttempt, Execute
<1>3. n + 1 \in 1 .. 255 /\ n + 1 <= Retries[id] + 1
  BY <1>2, QueueAssumption
<1>4. worker'.at = "execute" /\ worker'.id = id /\ worker.at = "execute"
  <2>1. worker'.at = "execute" /\ worker'.id = id
    BY <1>2, WorkerRecords
  <2> QED
    BY <2>1 DEF Retry
<1>5. QueueTypes'
  BY <1>2, <1>3 DEF QueueTypes
<1>6. WorkerHasRoom' /\ OneWaits' /\ FailureUsesAllTries'
  BY <1>2, <1>4 DEF WorkerHasRoom, OneWaits, FailureUsesAllTries
<1>7. OnePlace'
  <2>1. ASSUME NEW x \in Requests PROVE (Executing(x)' <=> Executing(x)) /\ (Waits(x)' <=> Waits(x))
    BY <1>1, <1>2, <1>4 DEF Executing, Waits
  <2> QED
    BY <1>2, <2>1 DEF OnePlace
<1> QED
  BY <1>2, <1>5, <1>6, <1>7, BeginTryKeeps

LEMMA FinishKeeps == ASSUME MasterInv, QueueInv, Finish PROVE MasterInv' /\ QueueInv'
<1> USE DEF QueueInv
<1>1. PICK id \in Requests, n \in 1 .. 255 :
        /\ worker = Execute(id, n) /\ n <= Retries[id] + 1
        /\ worker.id = id /\ worker.attempt = n
  BY WorkerExecutes DEF Finish
<1> DEFINE result == [id |-> id, attempts |-> n, status |-> xact.status]
<1>2. /\ worker.at = "execute" /\ xact.at = "done" /\ ~TriesAgain(xact.status)
      /\ worker' = NoJob /\ xact' = XactIdle
      /\ UNCHANGED <<requests, active, frames, feeder, wire, noise>>
  BY DEF Finish
<1>3. /\ results \in Seq(Result) /\ Len(results) < ResultDepth /\ Len(results) \in Nat
  BY <1>2, LenProperties DEF QueueTypes, WorkerHasRoom
<1>4. results' = results \o <<result>> /\ pending' = pending
  BY <1>1, <1>3 DEF Finish, Outcome
<1>5. /\ result \in Result /\ result.id = id /\ result.attempts = n
      /\ result.status = xact.status
  BY <1>2 DEF MasterInv, TransactionOrder, Result
<1> HIDE DEF result
<1>6. ~HasAnswer(results, id) /\ ~Waits(id) /\ id \in active /\ AnsweredOnce(results)
  BY <1>1, <1>2 DEF OnePlace, OneWaits, Executing
<1>7. /\ results' \in Seq(Result) /\ Len(results') = Len(results) + 1
      /\ AnsweredOnce(results')
      /\ \A x : HasAnswer(results', x) <=> HasAnswer(results, x) \/ x = id
      /\ \A i \in DOMAIN results' :
            results'[i] = result \/ \E j \in DOMAIN results : results'[i] = results[j]
  BY <1>3, <1>4, <1>5, <1>6, AppendedResult
<1>8. MasterInv'
  <2>1. /\ wire \in Seq(Fragment) /\ Len(wire) <= WireMax /\ NoneStored(wire)
    BY DEF MasterInv, MasterTypes, StoredFlushed
  <2> QED
    BY <1>2, <2>1, TransactionIdle, TransactionKeeps
<1>9. worker'.at = "idle"
  BY <1>2, WorkerRecords
<1>10. QueueTypes'
  BY <1>2, <1>7 DEF QueueTypes
<1>11. WorkerHasRoom'
  BY <1>3, <1>4, <1>7, <1>9, QueueAssumption DEF WorkerHasRoom
<1>12. OneWaits'
  BY <1>2, <1>7 DEF OneWaits
<1>13. OnePlace'
  <2>1. ASSUME NEW x \in Requests
        PROVE  ~Executing(x)' /\ (Executing(x) <=> x = id) /\ (Waits(x)' <=> Waits(x))
    BY <1>1, <1>2, <1>9 DEF Executing, Waits
  <2> QED
    BY <1>2, <1>6, <1>7, <2>1 DEF OnePlace
<1>14. FailureUsesAllTries'
  <2>1. /\ result.attempts <= Retries[result.id] + 1
        /\ Retryable(result.status) => result.attempts = Retries[result.id] + 1
    BY <1>1, <1>2, <1>5, QueueAssumption DEF TriesAgain
  <2> QED
    BY <1>7, <2>1 DEF FailureUsesAllTries
<1> QED
  BY <1>8, <1>10, <1>11, <1>12, <1>13, <1>14

-----------------------------------------------------------------------------
LEMMA ModbusInvInitially == ModbusInit => ModbusInv
<1> SUFFICES ASSUME ModbusInit PROVE ModbusInv
  OBVIOUS
<1>1. /\ MasterInit /\ requests = [p \in Priorities |-> <<>>] /\ results = <<>>
      /\ pending = NoResult /\ worker = NoJob /\ active = {}
  BY DEF ModbusInit
<1>2. Len(<<>>) = 0 /\ ~(\E i \in DOMAIN <<>> : TRUE)
  OBVIOUS
<1>3. QueueTypes
  <2>1. \A p \in Priorities : requests[p] = <<>>
    BY <1>1
  <2>2. \A p \in Priorities : Len(requests[p]) <= RequestDepth
    BY <1>2, <2>1, QueueAssumption
  <2>3. requests \in [Priorities -> Seq(Requests)] /\ results \in Seq(Result)
    BY <1>1
  <2> QED
    BY <1>1, <2>2, <2>3 DEF QueueTypes
<1>4. WorkerHasRoom
  BY <1>1, <1>2, WorkerRecords, QueueAssumption DEF WorkerHasRoom
<1>5. OneWaits /\ FailureUsesAllTries
  BY <1>1, <1>2 DEF OneWaits, OnceIn, AnsweredOnce, Holds, FailureUsesAllTries
<1>6. OnePlace
  <2>1. \A id : ~Waits(id) /\ ~Executing(id) /\ ~HasAnswer(results, id)
    BY <1>1, <1>2, WorkerRecords DEF Waits, Holds, Executing, HasAnswer
  <2> QED
    BY <1>1, <2>1 DEF OnePlace
<1> QED
  BY <1>1, <1>3, <1>4, <1>5, <1>6, MasterInvInitially DEF ModbusInv, QueueInv

LEMMA QueueUnchanged == QueueInv /\ UNCHANGED queueVars => QueueInv'
<1> SUFFICES ASSUME QueueInv, UNCHANGED queueVars PROVE QueueInv'
  OBVIOUS
<1> USE DEF QueueInv, queueVars
<1>1. QueueTypes' /\ WorkerHasRoom' /\ OneWaits' /\ FailureUsesAllTries'
  BY DEF QueueTypes, WorkerHasRoom, OneWaits, FailureUsesAllTries
<1>2. ASSUME NEW x \in Requests PROVE (Executing(x)' <=> Executing(x)) /\ (Waits(x)' <=> Waits(x))
  BY DEF Executing, Waits
<1>3. OnePlace'
  BY <1>2 DEF OnePlace
<1> QED
  BY <1>1, <1>3

LEMMA ModbusInvKept == ModbusInv /\ [ModbusNext]_modbusVars => ModbusInv'
<1> SUFFICES ASSUME ModbusInv, [ModbusNext]_modbusVars PROVE ModbusInv'
  OBVIOUS
<1> USE DEF ModbusInv
<1>1. CASE Submits /\ UNCHANGED masterVars
  BY <1>1, SubmitKeeps, MasterUnchanged DEF Submits
<1>2. CASE GetResult /\ UNCHANGED masterVars
  BY <1>2, GetResultKeeps, MasterUnchanged
<1>3. CASE BeginProcess /\ UNCHANGED masterVars
  BY <1>3, BeginProcessKeeps, MasterUnchanged
<1>4. CASE ScanOne
  BY <1>4, ScanOneKeeps
<1>5. CASE Retry
  BY <1>5, RetryKeeps
<1>6. CASE Finish
  BY <1>6, FinishKeeps
<1>7. CASE (MasterStep \/ LineStep) /\ UNCHANGED queueVars
  BY <1>7, MasterStepKeeps, LineStepKeeps, QueueUnchanged
<1>8. CASE UNCHANGED modbusVars
  BY <1>8, MasterUnchanged, QueueUnchanged DEF modbusVars
<1> QED
  BY <1>1, <1>2, <1>3, <1>4, <1>5, <1>6, <1>7, <1>8 DEF ModbusNext, WorkerStep

-----------------------------------------------------------------------------
(* What the invariant says of the places of a request *)

LEMMA PlaceIs ==
    ASSUME QueueInv, NEW id \in Requests, NEW x
    PROVE  x \in Places(id) <=>
             \/ \E p \in Priorities : \E i \in DOMAIN requests[p] :
                   requests[p][i] = id /\ x = <<"requests", p, i>>
             \/ Executing(id) /\ x = <<"worker", 0, 0>>
             \/ \E i \in DOMAIN results : results[i].id = id /\ x = <<"results", 0, i>>
<1> DEFINE Q == {q \in Priorities \X (1 .. RequestDepth) :
                   q[2] \in DOMAIN requests[q[1]] /\ requests[q[1]][q[2]] = id}
<1>1. ASSUME NEW p \in Priorities, NEW i \in DOMAIN requests[p] PROVE i \in 1 .. RequestDepth
  <2>1. requests[p] \in Seq(Requests) /\ Len(requests[p]) <= RequestDepth
    BY DEF QueueInv, QueueTypes
  <2>2. i \in 1 .. Len(requests[p]) /\ Len(requests[p]) \in Nat
    BY <2>1, LenProperties
  <2> QED
    BY <2>1, <2>2, QueueAssumption
<1>2. x \in {<<"requests", q[1], q[2]>> : q \in Q}
        <=> \E p \in Priorities : \E i \in DOMAIN requests[p] :
              requests[p][i] = id /\ x = <<"requests", p, i>>
  <2>1. ASSUME NEW q \in Q, x = <<"requests", q[1], q[2]>>
        PROVE  \E p \in Priorities : \E i \in DOMAIN requests[p] :
                 requests[p][i] = id /\ x = <<"requests", p, i>>
    BY <2>1
  <2>2. ASSUME NEW p \in Priorities, NEW i \in DOMAIN requests[p], requests[p][i] = id,
               x = <<"requests", p, i>>
        PROVE  x \in {<<"requests", q[1], q[2]>> : q \in Q}
    <3>1. <<p, i>> \in Q
      BY <1>1, <2>2
    <3>2. <<p, i>>[1] = p /\ <<p, i>>[2] = i
      OBVIOUS
    <3> QED
      BY <2>2, <3>1, <3>2
  <2> QED
    BY <2>1, <2>2
<1>3. pending = <<>>
  BY DEF QueueInv, WorkerHasRoom, NoResult
<1>4. x \in {<<"worker", 0, 0>> : w \in {w \in {worker} : w.at = "execute" /\ w.id = id}}
        <=> Executing(id) /\ x = <<"worker", 0, 0>>
  BY DEF Executing
<1>5. {<<"pending", 0, i>> : i \in {i \in DOMAIN pending : pending[i].id = id}} = {}
  BY <1>3
<1>6. x \in {<<"results", 0, i>> : i \in {i \in DOMAIN results : results[i].id = id}}
        <=> \E i \in DOMAIN results : results[i].id = id /\ x = <<"results", 0, i>>
  OBVIOUS
<1> HIDE DEF Q
<1> QED
  BY <1>2, <1>4, <1>5, <1>6 DEF Places, Q

(* A set whose members are the things equal to y is the singleton of y. *)
LEMMA OneMember == ASSUME NEW S, NEW y, \A x : x \in S <=> x = y PROVE S = {y}
  OBVIOUS

LEMMA ActiveOnce ==
    ASSUME QueueInv, NEW id \in Requests, id \in active
    PROVE  \E x : Places(id) = {x}
<1> USE DEF QueueInv
<1>1. CASE Waits(id)
  <2>1. PICK p \in Priorities : Holds(requests[p], id)
    BY <1>1 DEF Waits
  <2>2. PICK i \in DOMAIN requests[p] : requests[p][i] = id
    BY <2>1 DEF Holds
  <2>3. ~Executing(id) /\ ~HasAnswer(results, id)
    BY <1>1 DEF OnePlace
  <2>4. ASSUME NEW q \in Priorities, NEW j \in DOMAIN requests[q], requests[q][j] = id
        PROVE  q = p /\ j = i
    <3>1. q = p
      BY <2>1, <2>4 DEF OneWaits, Holds
    <3> QED
      BY <2>2, <2>4, <3>1 DEF OneWaits, OnceIn
  <2>5. ASSUME NEW x PROVE x \in Places(id) <=> x = <<"requests", p, i>>
    BY <2>2, <2>3, <2>4, PlaceIs DEF HasAnswer
  <2>6. Places(id) = {<<"requests", p, i>>}
    BY <2>5, OneMember
  <2> QED
    BY <2>6, Zenon
<1>2. CASE Executing(id)
  <2>1. ~Waits(id) /\ ~HasAnswer(results, id)
    BY <1>2 DEF OnePlace
  <2>2. ASSUME NEW x PROVE x \in Places(id) <=> x = <<"worker", 0, 0>>
    BY <1>2, <2>1, PlaceIs DEF Waits, Holds, HasAnswer
  <2>3. Places(id) = {<<"worker", 0, 0>>}
    BY <2>2, OneMember
  <2> QED
    BY <2>3, Zenon
<1>3. CASE HasAnswer(results, id)
  <2>1. ~Waits(id) /\ ~Executing(id)
    BY <1>3 DEF OnePlace
  <2>2. PICK i \in DOMAIN results : results[i].id = id
    BY <1>3 DEF HasAnswer
  <2>3. \A j \in DOMAIN results : results[j].id = id => j = i
    BY <2>2 DEF OneWaits, AnsweredOnce
  <2>4. ASSUME NEW x PROVE x \in Places(id) <=> x = <<"results", 0, i>>
    BY <2>1, <2>2, <2>3, PlaceIs DEF Waits, Holds
  <2>5. Places(id) = {<<"results", 0, i>>}
    BY <2>4, OneMember
  <2> QED
    BY <2>5, Zenon
<1> QED
  BY <1>1, <1>2, <1>3 DEF OnePlace

LEMMA InactiveNowhere ==
    ASSUME QueueInv, NEW id \in Requests, id \notin active PROVE Places(id) = {}
<1>1. ~Waits(id) /\ ~Executing(id) /\ ~HasAnswer(results, id)
  BY DEF QueueInv, OnePlace
<1>2. ASSUME NEW x PROVE x \notin Places(id)
  BY <1>1, PlaceIs DEF Waits, Holds, HasAnswer
<1> QED
  BY <1>2

LEMMA ModbusInvImplies == ModbusInv => ModbusSafe /\ StoredNeverTaken
<1> SUFFICES ASSUME ModbusInv PROVE ModbusSafe /\ StoredNeverTaken
  OBVIOUS
<1> USE DEF ModbusInv, QueueInv
<1>1. MasterTypeOK
  BY DEF MasterInv, MasterTypes, TransactionOrder, MasterTransaction, Feeder, MasterTypeOK
<1>2. pending = <<>> /\ pending \in Seq(Result) /\ Len(pending) <= 1
  BY DEF WorkerHasRoom, NoResult
<1>3. \/ worker \in {NoJob} \cup {Scan(p) : p \in Priorities}
      \/ worker.id \in Requests /\ worker = Execute(worker.id, worker.attempt)
                                /\ worker.attempt \in 1 .. 255
  <2>1. ASSUME NEW id \in Requests, NEW n \in 1 .. 255, worker = Execute(id, n)
        PROVE  worker.id = id /\ worker.attempt = n
    BY <2>1, WorkerRecords
  <2> QED
    BY <2>1 DEF QueueTypes
<1>4. ModbusTypeOK
  BY <1>1, <1>2, <1>3 DEF ModbusTypeOK, QueueTypes, WorkerHasRoom
<1>5. ASSUME NEW id \in Requests
      PROVE  Cardinality(Places(id)) = IF id \in active THEN 1 ELSE 0
  <2>1. CASE id \in active
    BY <2>1, ActiveOnce, FS_Singleton
  <2>2. CASE id \notin active
    BY <2>2, InactiveNowhere, FS_EmptySet
  <2> QED
    BY <2>1, <2>2
<1>6. EveryRequestOnce
  BY <1>5 DEF EveryRequestOnce
<1>7. ResultFindsRoom /\ FailureUsesAllTries
  BY DEF WorkerHasRoom, ResultFindsRoom
<1>8. StoredNeverTaken
  BY DEF MasterInv, StoredFlushed, NoneStored, StoredNeverTaken
<1> QED
  BY <1>4, <1>6, <1>7, <1>8 DEF ModbusSafe

(* No request and no result is lost, put twice or overwritten, the result   *)
(* always finds the room the worker saw before it took the request, and a   *)
(* failure has used up all its tries (ModbusQueue_ProcessOne and the calls  *)
(* of submitters and consumers between any two of its steps).               *)
THEOREM BusQueueSafe == ModbusSpec => []ModbusSafe
  BY ModbusInvInitially, ModbusInvKept, ModbusInvImplies, PTL DEF ModbusSpec

(* A fragment that lay in the receive queue when a try began is never taken *)
(* for a part of its answer, whatever the feeding task was doing during the *)
(* flush (ModbusMaster_Execute over Rs485Core_Feed, Flush and Receive).     *)
THEOREM AnswersAreFresh == ModbusSpec => []StoredNeverTaken
  BY ModbusInvInitially, ModbusInvKept, ModbusInvImplies, PTL DEF ModbusSpec

-----------------------------------------------------------------------------
(* The TLS set-up of the modem                                              *)
(*                                                                          *)
(* The argument follows the line.  A value that a query is answered with    *)
(* holds until the modem restarts, and the report of a restart is behind it *)
(* on the same line (Truthful); the report is lost only while the channel   *)
(* is being recovered.  An installation that began on a quiet channel finds *)
(* on the line only what answers its own steps (InStep).                    *)
Elems(s) == {s[i] : i \in DOMAIN s}
Chosen == Elems(Settings)

Commands ==
    {Command(kind, "channel") : kind \in {"reset", "probe", "echo"}} \cup
    {Command(kind, "certificate") : kind \in {"write", "payload", "read"}} \cup
    {Command(kind, of) : kind \in {"set", "query"}, of \in Chosen}

Lines ==
    {Line(kind) : kind \in {"ok", "error", "prompt", "ready"}} \cup
    {Value(of, right) : of \in Chosen \cup {"certificate"}, right \in BOOLEAN}

Transaction == [job : {"none", "install", "prepare"}, step : Nat, waiting : BOOLEAN]

ModemTypes ==
    /\ modem \in [certificate : {"none", "good", "damaged"}, settings : SUBSET Chosen,
                  body : BOOLEAN]
    /\ toModem \in Seq(Commands) /\ toHost \in Seq(Lines) /\ received \in Seq(Lines)
    /\ tx \in Transaction
    /\ todo \in {"install", "prepare", "done"}
    /\ stale \in BOOLEAN
    /\ recovery \in RecoveryStates

(* A transaction is the one that is due, runs on a channel in service and   *)
(* is the only one that collects lines.                                     *)
OneJob ==
    /\ Active => tx.job = todo /\ recovery = "idle" /\ tx.step \in DOMAIN Plan[tx.job]
    /\ ~Active => received = <<>>
    /\ todo = "done" => recovery = "idle"

(* Each value in s holds, or a restart is reported behind it.               *)
Truthful(s, settings, reported) ==
    \A i \in DOMAIN s :
        s[i].kind = "value" /\ s[i].of # "certificate" /\ s[i].right =>
            \/ s[i].of \in settings
            \/ \E j \in DOMAIN s : j > i /\ s[j].kind = "ready"
            \/ reported

AnswersTrue ==
    /\ Truthful(toHost, modem.settings, FALSE)
    /\ Truthful(received, modem.settings, Some(toHost, "ready"))

(* The settings that were verified are there, or a restart is reported.     *)
Verified ==
    tx.job = "prepare" =>
        \/ Some(received, "ready") \/ Some(toHost, "ready")
        \/ \A k \in DOMAIN Settings : 2 * k < tx.step => Settings[k] \in modem.settings

AllVerified ==
    todo = "done" => modem.settings = Chosen \/ Some(toHost, "ready")

OnTheLine == Elems(received) \cup Elems(toHost)
OwnCommand == toModem # <<>> => tx.waiting /\ toModem = <<Step>>
NoneIn(kind) == \A line \in OnTheLine : line.kind # kind

(* An installation that began on a quiet channel.                           *)
Answer(step) == IF step = 1 THEN "prompt" ELSE "ok"

InStep ==
    tx.job = "install" /\ ~stale =>
        /\ OwnCommand
        /\ tx.step = 1 => NoneIn("ok")
        /\ tx.step # 3 => NoneIn("value")
        /\ tx.step # 3 /\ ~NoneIn(Answer(tx.step)) => tx.waiting /\ toModem = <<>>
        /\ \A line \in OnTheLine :
                line.kind = "value" /\ line.right => modem.certificate = "good"

(* Nothing replaces a certificate that was verified.                        *)
CertificateKept ==
    todo # "install" /\ ~stale =>
        /\ modem.certificate = "good"
        /\ \A i \in DOMAIN toModem : toModem[i].kind # "payload"

ModemInv ==
    /\ ModemTypes /\ OneJob /\ AnswersTrue /\ Verified /\ AllVerified
    /\ InStep /\ CertificateKept

-----------------------------------------------------------------------------
(* Lines, and lists of them                                                 *)

LEMMA Words ==
    /\ "certificate" \notin Chosen
    /\ Chosen = {Settings[i] : i \in DOMAIN Settings}
    /\ Len(Settings) \in Nat \ {0} /\ DOMAIN Settings = 1 .. Len(Settings)
<1>1. /\ Len(Settings) \in Nat /\ DOMAIN Settings = 1 .. Len(Settings)
      /\ \A i \in DOMAIN Settings : Settings[i] \in Setting
  BY SettingsAssumption, LenProperties
<1>2. Len(Settings) # 0
  BY SettingsAssumption, EmptySeq
<1>3. "certificate" \notin Setting
  BY DEF Setting, Options
<1> QED
  BY <1>1, <1>2, <1>3 DEF Chosen, Elems

(* What can be told from the fields of a line.                              *)
LEMMA LineIs ==
    ASSUME NEW line \in Lines
    PROVE  /\ line.kind \in {"ok", "error", "prompt", "ready", "value"}
           /\ line.right \in BOOLEAN
           /\ line.of = "certificate" => line.kind = "value"
           /\ line.kind = "value" => line.of \in Chosen \cup {"certificate"}
           /\ line.kind # "value" => line = Line(line.kind)
           /\ IsFinal(line) <=> line.kind \in {"ok", "error"}
<1>1. CASE line \in {Line(kind) : kind \in {"ok", "error", "prompt", "ready"}}
  <2>1. PICK kind \in {"ok", "error", "prompt", "ready"} : line = Line(kind)
    BY <1>1
  <2> QED
    BY <2>1 DEF Line, IsFinal
<1>2. CASE line \in {Value(of, right) : of \in Chosen \cup {"certificate"}, right \in BOOLEAN}
  <2>1. PICK of \in Chosen \cup {"certificate"}, right \in BOOLEAN : line = Value(of, right)
    BY <1>2
  <2> QED
    BY <2>1 DEF Value, IsFinal
<1> QED
  BY <1>1, <1>2 DEF Lines

(* A list and its parts.                                                    *)
Parts(s, a, b) ==
    /\ a \in Seq(Lines) /\ b \in Seq(Lines) /\ s \in Seq(Lines)
    /\ Elems(s) = Elems(a) \cup Elems(b)
    /\ \A kind : Some(s, kind) <=> Some(a, kind) \/ Some(b, kind)

LEMMA PartsJoined ==
    ASSUME NEW a \in Seq(Lines), NEW b \in Seq(Lines)
    PROVE  Parts(a \o b, a, b)
<1> DEFINE s == a \o b
<1>1. /\ s \in Seq(Lines) /\ Len(s) = Len(a) + Len(b)
      /\ \A i \in 1 .. Len(a) + Len(b) : s[i] = IF i <= Len(a) THEN a[i] ELSE b[i - Len(a)]
  BY ConcatProperties
<1>2. /\ Len(a) \in Nat /\ DOMAIN a = 1 .. Len(a)
      /\ Len(b) \in Nat /\ DOMAIN b = 1 .. Len(b)
      /\ DOMAIN s = 1 .. Len(a) + Len(b)
  BY <1>1, LenProperties
<1> HIDE DEF s
<1>3. \A i \in DOMAIN a : i \in DOMAIN s /\ s[i] = a[i]
  BY <1>1, <1>2
<1>4. \A i \in DOMAIN b : Len(a) + i \in DOMAIN s /\ s[Len(a) + i] = b[i]
  BY <1>1, <1>2
<1>5. \A i \in DOMAIN s : \/ i \in DOMAIN a /\ s[i] = a[i]
                          \/ i - Len(a) \in DOMAIN b /\ s[i] = b[i - Len(a)]
  BY <1>1, <1>2
<1>6. Elems(s) = Elems(a) \cup Elems(b)
  BY <1>3, <1>4, <1>5 DEF Elems
<1>7. \A kind : Some(s, kind) <=> Some(a, kind) \/ Some(b, kind)
  BY <1>3, <1>4, <1>5 DEF Some
<1> QED
  BY <1>1, <1>6, <1>7 DEF Parts, s

(* The first n lines and those behind them.                                 *)
LEMMA SplitLines ==
    ASSUME NEW s \in Seq(Lines), NEW n \in 1 .. Len(s)
    PROVE  LET a == SubSeq(s, 1, n)
               b == SubSeq(s, n + 1, Len(s))
           IN  a \in Seq(Lines) /\ b \in Seq(Lines) /\ s = a \o b
<1> DEFINE a == SubSeq(s, 1, n)
           b == SubSeq(s, n + 1, Len(s))
<1>1. Len(s) \in Nat /\ DOMAIN s = 1 .. Len(s) /\ \A i \in 1 .. Len(s) : s[i] \in Lines
  BY LenProperties
<1>2. n \in Int /\ n + 1 \in Int /\ Len(s) \in Int /\ 1 <= n /\ n <= Len(s)
  BY <1>1
<1>3. a \in Seq(Lines) /\ Len(a) = n /\ \A i \in 1 .. n : a[i] = s[i]
  <2>1. \A i \in 1 .. n : s[i] \in Lines
    BY <1>1, <1>2
  <2>2. /\ a \in Seq(Lines) /\ Len(a) = IF 1 <= n THEN n - 1 + 1 ELSE 0
        /\ \A i \in 1 .. n - 1 + 1 : a[i] = s[1 + i - 1]
    BY <2>1, <1>2, SubSeqProperties
  <2> HIDE DEF a
  <2> QED
    BY <2>2, <1>2
<1>4. /\ b \in Seq(Lines) /\ Len(b) = Len(s) - n
      /\ \A i \in 1 .. Len(s) - n : b[i] = s[n + i]
  <2>1. \A i \in n + 1 .. Len(s) : s[i] \in Lines
    BY <1>1, <1>2
  <2>2. /\ b \in Seq(Lines)
        /\ Len(b) = IF n + 1 <= Len(s) THEN Len(s) - (n + 1) + 1 ELSE 0
        /\ \A i \in 1 .. Len(s) - (n + 1) + 1 : b[i] = s[n + 1 + i - 1]
    BY <2>1, <1>2, SubSeqProperties
  <2> HIDE DEF b
  <2> QED
    BY <2>2, <1>2
<1> HIDE DEF a, b
<1>5. /\ a \o b \in Seq(Lines) /\ Len(a \o b) = Len(a) + Len(b)
      /\ \A i \in 1 .. Len(a) + Len(b) :
            (a \o b)[i] = IF i <= Len(a) THEN a[i] ELSE b[i - Len(a)]
  BY <1>3, <1>4, ConcatProperties
<1>6. Len(a \o b) = Len(s)
  BY <1>2, <1>3, <1>4, <1>5
<1>7. \A i \in 1 .. Len(s) : s[i] = (a \o b)[i]
  BY <1>2, <1>3, <1>4, <1>5
<1>8. s = a \o b
  BY <1>5, <1>6, <1>7, SeqEqual
<1> QED
  BY <1>3, <1>4, <1>8 DEF a, b

LEMMA FirstLine ==
    ASSUME NEW s \in Seq(Lines), s # <<>>
    PROVE  /\ Head(s) \in Lines /\ Tail(s) \in Seq(Lines)
           /\ s = <<Head(s)>> \o Tail(s)
<1>1. /\ Head(s) \in Lines /\ Tail(s) \in Seq(Lines) /\ Tail(s) = SubSeq(s, 2, Len(s))
  BY HeadTailProperties, TailIsSubSeq
<1>2. Len(s) \in Nat \ {0} /\ DOMAIN s = 1 .. Len(s)
  BY EmptySeq, LenProperties
<1>3. 1 \in 1 .. Len(s)
  BY <1>2
<1>4. s = SubSeq(s, 1, 1) \o SubSeq(s, 2, Len(s))
  <2>1. 1 + 1 = 2  OBVIOUS
  <2> QED
    BY <1>3, <2>1, SplitLines
<1>5. SubSeq(s, 1, 1) = <<Head(s)>>
  <2> DEFINE t == SubSeq(s, 1, 1)
  <2>1. \A i \in 1 .. 1 : s[i] \in Lines
    BY <1>3, ElementOfSeq
  <2>2. /\ t \in Seq(Lines) /\ Len(t) = IF 1 <= 1 THEN 1 - 1 + 1 ELSE 0
        /\ \A i \in 1 .. 1 - 1 + 1 : t[i] = s[1 + i - 1]
    BY <2>1, SubSeqProperties
  <2> HIDE DEF t
  <2>3. Len(t) = 1 /\ t[1] = s[1] /\ Head(s) = s[1]
    BY <2>2 DEF Head
  <2>4. <<Head(s)>> \in Seq(Lines) /\ Len(<<Head(s)>>) = 1 /\ <<Head(s)>>[1] = Head(s)
    BY <1>1
  <2>5. t = <<Head(s)>>
    <3>1. \A i \in 1 .. Len(t) : t[i] = <<Head(s)>>[i]
      BY <2>3, <2>4
    <3> QED
      BY <2>2, <2>3, <2>4, <3>1, SeqEqual
  <2> QED
    BY <2>5 DEF t
<1> QED
  BY <1>1, <1>4, <1>5

LEMMA OneLine ==
    ASSUME NEW line \in Lines
    PROVE  /\ <<line>> \in Seq(Lines) /\ Elems(<<line>>) = {line}
           /\ \A kind : Some(<<line>>, kind) <=> line.kind = kind
BY DEF Elems, Some

LEMMA NoLine ==
    /\ <<>> \in Seq(Lines) /\ Elems(<<>>) = {}
    /\ \A kind : ~Some(<<>>, kind)
BY EmptySeq DEF Elems, Some

(* A value that holds, or is followed by the report of a restart, goes on   *)
(* to do so.                                                                *)
LEMMA TruthfulMore ==
    ASSUME NEW s \in Seq(Lines), NEW settings, NEW more, NEW reported, NEW then,
           Truthful(s, settings, reported), settings \subseteq more, reported => then
    PROVE  Truthful(s, more, then)
BY DEF Truthful

LEMMA TruthfulParts ==
    ASSUME NEW a \in Seq(Lines), NEW b \in Seq(Lines), NEW settings, NEW reported,
           Truthful(a \o b, settings, reported)
    PROVE  /\ Truthful(a, settings, Some(b, "ready") \/ reported)
           /\ Truthful(b, settings, reported)
<1> DEFINE s == a \o b
<1>1. /\ s \in Seq(Lines) /\ Len(s) = Len(a) + Len(b)
      /\ \A i \in 1 .. Len(a) + Len(b) : s[i] = IF i <= Len(a) THEN a[i] ELSE b[i - Len(a)]
  BY ConcatProperties
<1>2. /\ Len(a) \in Nat /\ DOMAIN a = 1 .. Len(a)
      /\ Len(b) \in Nat /\ DOMAIN b = 1 .. Len(b)
      /\ DOMAIN s = 1 .. Len(a) + Len(b)
  BY <1>1, LenProperties
<1>3. Truthful(s, settings, reported)
  OBVIOUS
<1> HIDE DEF s
<1>4. ASSUME NEW i \in DOMAIN a, a[i].kind = "value", a[i].of # "certificate", a[i].right,
             a[i].of \notin settings, ~reported
      PROVE  Some(b, "ready") \/ \E j \in DOMAIN a : j > i /\ a[j].kind = "ready"
  <2>1. i \in DOMAIN s /\ s[i] = a[i]
    BY <1>1, <1>2
  <2>2. PICK j \in DOMAIN s : j > i /\ s[j].kind = "ready"
    BY <1>3, <1>4, <2>1 DEF Truthful
  <2>3. CASE j <= Len(a)
    BY <1>1, <1>2, <2>2, <2>3
  <2>4. CASE ~(j <= Len(a))
    <3>1. j - Len(a) \in DOMAIN b /\ b[j - Len(a)].kind = "ready"
      BY <1>1, <1>2, <2>2, <2>4
    <3> QED
      BY <3>1 DEF Some
  <2> QED
    BY <2>3, <2>4
<1>5. ASSUME NEW i \in DOMAIN b, b[i].kind = "value", b[i].of # "certificate", b[i].right,
             b[i].of \notin settings, ~reported
      PROVE  \E j \in DOMAIN b : j > i /\ b[j].kind = "ready"
  <2>1. Len(a) + i \in DOMAIN s /\ s[Len(a) + i] = b[i]
    BY <1>1, <1>2
  <2>2. PICK j \in DOMAIN s : j > Len(a) + i /\ s[j].kind = "ready"
    BY <1>3, <1>5, <2>1 DEF Truthful
  <2>3. j - Len(a) \in DOMAIN b /\ b[j - Len(a)].kind = "ready" /\ j - Len(a) > i
    BY <1>1, <1>2, <2>2
  <2> QED
    BY <2>3
<1> QED
  BY <1>4, <1>5 DEF Truthful

LEMMA TruthfulJoined ==
    ASSUME NEW a \in Seq(Lines), NEW b \in Seq(Lines), NEW settings, NEW reported,
           Truthful(a, settings, Some(b, "ready") \/ reported), Truthful(b, settings, reported)
    PROVE  Truthful(a \o b, settings, reported)
<1> DEFINE s == a \o b
<1>1. /\ s \in Seq(Lines) /\ Len(s) = Len(a) + Len(b)
      /\ \A i \in 1 .. Len(a) + Len(b) : s[i] = IF i <= Len(a) THEN a[i] ELSE b[i - Len(a)]
  BY ConcatProperties
<1>2. /\ Len(a) \in Nat /\ DOMAIN a = 1 .. Len(a)
      /\ Len(b) \in Nat /\ DOMAIN b = 1 .. Len(b)
      /\ DOMAIN s = 1 .. Len(a) + Len(b)
  BY <1>1, LenProperties
<1> HIDE DEF s
<1>3. \A j \in DOMAIN a : j \in DOMAIN s /\ s[j] = a[j]
  BY <1>1, <1>2
<1>4. \A j \in DOMAIN b : Len(a) + j \in DOMAIN s /\ s[Len(a) + j] = b[j]
  BY <1>1, <1>2
<1>5. ASSUME NEW i \in DOMAIN s, s[i].kind = "value", s[i].of # "certificate", s[i].right,
             s[i].of \notin settings, ~reported
      PROVE  \E j \in DOMAIN s : j > i /\ s[j].kind = "ready"
  <2>1. CASE i <= Len(a)
    <3>1. i \in DOMAIN a /\ a[i] = s[i]
      BY <1>1, <1>2, <2>1
    <3>2. Some(b, "ready") \/ \E j \in DOMAIN a : j > i /\ a[j].kind = "ready"
      BY <1>5, <3>1 DEF Truthful
    <3>3. CASE \E j \in DOMAIN a : j > i /\ a[j].kind = "ready"
      BY <1>3, <3>3
    <3>4. CASE Some(b, "ready")
      <4>1. PICK j \in DOMAIN b : b[j].kind = "ready"
        BY <3>4 DEF Some
      <4>2. Len(a) + j > i
        BY <1>2, <2>1
      <4> QED
        BY <1>4, <4>1, <4>2
    <3> QED
      BY <3>2, <3>3, <3>4
  <2>2. CASE ~(i <= Len(a))
    <3>1. i - Len(a) \in DOMAIN b /\ b[i - Len(a)] = s[i]
      BY <1>1, <1>2, <2>2
    <3>2. PICK j \in DOMAIN b : j > i - Len(a) /\ b[j].kind = "ready"
      BY <1>5, <3>1 DEF Truthful
    <3>3. Len(a) + j > i
      BY <1>2, <3>2
    <3> QED
      BY <1>4, <3>2, <3>3
  <2> QED
    BY <2>1, <2>2
<1>6. Truthful(s, settings, reported)
  BY <1>5 DEF Truthful
<1> QED
  BY <1>6 DEF s

-----------------------------------------------------------------------------
(* The steps of a transaction                                               *)

LEMMA PlanIs ==
    /\ DOMAIN Plan["install"] = 1 .. 3 /\ Len(Plan["install"]) = 3
    /\ DOMAIN Plan["prepare"] = 1 .. 2 * Len(Settings)
    /\ Len(Plan["prepare"]) = 2 * Len(Settings)
    /\ Plan["install"][1] = Command("write", "certificate")
    /\ Plan["install"][2] = Command("payload", "certificate")
    /\ Plan["install"][3] = Command("read", "certificate")
    /\ \A k \in DOMAIN Settings :
          /\ 2 * k - 1 \in DOMAIN Plan["prepare"] /\ 2 * k \in DOMAIN Plan["prepare"]
          /\ Plan["prepare"][2 * k - 1] = Command("set", Settings[k])
          /\ Plan["prepare"][2 * k] = Command("query", Settings[k])
<1> DEFINE n == 2 * Len(Settings)
           p == [i \in 1 .. n |->
                    Command(IF i % 2 = 1 THEN "set" ELSE "query", Settings[(i + 1) \div 2])]
<1>1. Len(Settings) \in Nat /\ DOMAIN Settings = 1 .. Len(Settings) /\ n \in Nat
  BY Words
<1>2. Plan["prepare"] = p
  BY DEF Plan
<1>3. \A i \in 1 .. n : p[i] \in {p[j] : j \in 1 .. n}
  OBVIOUS
<1>4. p \in Seq({p[j] : j \in 1 .. n})
  BY <1>1, <1>3
<1>5. Len(p) = n /\ DOMAIN p = 1 .. n
  BY <1>1, <1>4, LenProperties
<1>6. ASSUME NEW k \in DOMAIN Settings
      PROVE  /\ 2 * k - 1 \in 1 .. n /\ 2 * k \in 1 .. n
             /\ p[2 * k - 1] = Command("set", Settings[k])
             /\ p[2 * k] = Command("query", Settings[k])
  <2>1. k \in Nat /\ 1 <= k /\ k <= Len(Settings)
    BY <1>1
  <2>2. 2 * k - 1 \in 1 .. n /\ 2 * k \in 1 .. n
    BY <1>1, <2>1
  <2>3. (2 * k - 1) % 2 = 1
    BY <2>1
  <2>4. (2 * k) % 2 = 0
    BY <2>1
  <2>5. ((2 * k - 1) + 1) \div 2 = k
    BY <2>1
  <2>6. (2 * k + 1) \div 2 = k
    BY <2>1
  <2>7. p[2 * k - 1] = Command("set", Settings[k])
    BY <2>2, <2>3, <2>5
  <2>8. p[2 * k] = Command("query", Settings[k])
    BY <2>2, <2>4, <2>6
  <2> QED
    BY <2>2, <2>7, <2>8
<1> HIDE DEF p
<1>7. Plan["install"] = <<Command("write", "certificate"), Command("payload", "certificate"),
                          Command("read", "certificate")>>
  BY DEF Plan
<1> QED
  BY <1>2, <1>5, <1>6, <1>7

(* The command and what it was for.                                         *)
LEMMA StepIs ==
    ASSUME ModemTypes, OneJob, Active
    PROVE  /\ Step \in Commands
           /\ tx.step \in Nat \ {0} /\ tx.step <= Len(Plan[tx.job]) /\ Len(Plan[tx.job]) \in Nat
           /\ tx.job \in {"install", "prepare"} /\ todo = tx.job
           /\ tx.job = "install" =>
                 \/ tx.step = 1 /\ Step = Command("write", "certificate")
                 \/ tx.step = 2 /\ Step = Command("payload", "certificate")
                 \/ tx.step = 3 /\ Step = Command("read", "certificate")
           /\ tx.job = "prepare" =>
                 \E k \in DOMAIN Settings :
                    \/ tx.step = 2 * k - 1 /\ Step = Command("set", Settings[k])
                    \/ tx.step = 2 * k /\ Step = Command("query", Settings[k])
<1>1. /\ tx.job \in {"install", "prepare"} /\ tx.job = todo
      /\ tx.step \in Nat /\ tx.step \in DOMAIN Plan[tx.job]
  BY DEF ModemTypes, OneJob, Active, Transaction
<1>2. Step = Plan[tx.job][tx.step]
  BY DEF Step
<1>3. CASE tx.job = "install"
  <2>1. tx.step \in 1 .. 3
    BY <1>1, <1>3, PlanIs
  <2>2. CASE tx.step = 1  BY <1>1, <1>2, <1>3, <2>2, PlanIs DEF Commands
  <2>3. CASE tx.step = 2  BY <1>1, <1>2, <1>3, <2>3, PlanIs DEF Commands
  <2>4. CASE tx.step = 3  BY <1>1, <1>2, <1>3, <2>4, PlanIs DEF Commands
  <2> QED
    BY <2>1, <2>2, <2>3, <2>4
<1>4. CASE tx.job = "prepare"
  <2>1. tx.step \in 1 .. 2 * Len(Settings) /\ Len(Settings) \in Nat
        /\ DOMAIN Settings = 1 .. Len(Settings)
    BY <1>1, <1>4, PlanIs, Words
  <2>2. \E k \in DOMAIN Settings : tx.step = 2 * k - 1 \/ tx.step = 2 * k
    <3>1. CASE tx.step % 2 = 1
      <4>1. (tx.step + 1) \div 2 \in 1 .. Len(Settings)
            /\ tx.step = 2 * ((tx.step + 1) \div 2) - 1
        BY <2>1, <3>1
      <4> QED
        BY <2>1, <4>1
    <3>2. CASE tx.step % 2 = 0
      <4>1. tx.step \div 2 \in 1 .. Len(Settings) /\ tx.step = 2 * (tx.step \div 2)
        BY <2>1, <3>2
      <4> QED
        BY <2>1, <4>1
    <3> QED
      BY <2>1, <3>1, <3>2
  <2>3. PICK k \in DOMAIN Settings : tx.step = 2 * k - 1 \/ tx.step = 2 * k
    BY <2>2
  <2>4. \/ tx.step = 2 * k - 1 /\ Step = Command("set", Settings[k])
        \/ tx.step = 2 * k /\ Step = Command("query", Settings[k])
    BY <1>2, <1>4, <2>3, PlanIs
  <2>5. Step \in Commands
    BY <2>4 DEF Commands, Chosen, Elems
  <2>6. Len(Plan[tx.job]) = 2 * Len(Settings)
    BY <1>4, PlanIs
  <2> QED
    BY <1>1, <1>4, <2>1, <2>4, <2>5, <2>6
<1> QED
  BY <1>1, <1>3, <1>4

LEMMA CommandIs ==
    ASSUME NEW c \in Commands
    PROVE  /\ c.kind \in {"reset", "probe", "echo"} => c.of = "channel"
           /\ c.kind \in {"write", "payload", "read"} => c.of = "certificate"
           /\ c.kind \in {"set", "query"} => c.of \in Chosen
           /\ c.kind \in {"reset", "probe", "echo", "write", "payload", "read", "set", "query"}
<1>1. CASE c \in {Command(kind, "channel") : kind \in {"reset", "probe", "echo"}}
  BY <1>1 DEF Command
<1>2. CASE c \in {Command(kind, "certificate") : kind \in {"write", "payload", "read"}}
  BY <1>2 DEF Command
<1>3. CASE c \in {Command(kind, of) : kind \in {"set", "query"}, of \in Chosen}
  <2>1. PICK kind \in {"set", "query"}, of \in Chosen : c = Command(kind, of)
    BY <1>3
  <2> QED
    BY <2>1 DEF Command
<1> QED
  BY <1>1, <1>2, <1>3 DEF Commands

(* What the lines say, in terms of what is on the line.                     *)
LEMMA OnTheLineIs ==
    ASSUME ModemTypes
    PROVE  /\ OnTheLine \subseteq Lines
           /\ \A kind : NoneIn(kind) <=> ~Some(received, kind) /\ ~Some(toHost, kind)
<1>1. \A i \in DOMAIN toHost : toHost[i] \in Lines
  BY LenProperties DEF ModemTypes
<1>2. \A i \in DOMAIN received : received[i] \in Lines
  BY LenProperties DEF ModemTypes
<1> QED
  BY <1>1, <1>2 DEF OnTheLine, Elems, NoneIn, Some

(* The first command, and a further one.                                    *)
LEMMA FirstCommand ==
    ASSUME NEW s \in Seq(Commands), s # <<>>
    PROVE  /\ Head(s) \in Commands /\ Tail(s) \in Seq(Commands)
           /\ \E i \in DOMAIN s : s[i] = Head(s)
           /\ \A i \in DOMAIN Tail(s) : \E j \in DOMAIN s : Tail(s)[i] = s[j]
           /\ \A c : s = <<c>> => Head(s) = c /\ Tail(s) = <<>>
<1>1. Len(s) \in Nat \ {0} /\ DOMAIN s = 1 .. Len(s)
  BY EmptySeq, LenProperties
<1>2. /\ Head(s) \in Commands /\ Tail(s) \in Seq(Commands) /\ Head(s) = s[1]
      /\ Len(Tail(s)) = Len(s) - 1
      /\ \A i \in 1 .. Len(Tail(s)) : Tail(s)[i] = s[i + 1]
  BY HeadTailProperties DEF Head
<1>3. DOMAIN Tail(s) = 1 .. Len(s) - 1
  BY <1>2, LenProperties
<1>4. \E i \in DOMAIN s : s[i] = Head(s)
  BY <1>1, <1>2
<1>5. ASSUME NEW i \in DOMAIN Tail(s)
      PROVE  \E j \in DOMAIN s : Tail(s)[i] = s[j]
  <2>1. i + 1 \in DOMAIN s /\ Tail(s)[i] = s[i + 1]
    BY <1>1, <1>2, <1>3
  <2> QED
    BY <2>1
<1>6. ASSUME NEW c, s = <<c>>
      PROVE  Head(s) = c /\ Tail(s) = <<>>
  BY <1>6
<1> QED
  BY <1>2, <1>4, <1>5, <1>6

LEMMA MoreCommands ==
    ASSUME NEW s \in Seq(Commands), NEW c \in Commands
    PROVE  /\ Append(s, c) \in Seq(Commands)
           /\ \A i \in DOMAIN Append(s, c) :
                 Append(s, c)[i] = c \/ \E j \in DOMAIN s : Append(s, c)[i] = s[j]
           /\ s = <<>> => Append(s, c) = <<c>>
<1>1. Len(s) \in Nat /\ DOMAIN s = 1 .. Len(s)
  BY LenProperties
<1>2. /\ Append(s, c) \in Seq(Commands) /\ Len(Append(s, c)) = Len(s) + 1
      /\ \A i \in 1 .. Len(s) : Append(s, c)[i] = s[i]
      /\ Append(s, c)[Len(s) + 1] = c
  BY AppendProperties
<1>3. DOMAIN Append(s, c) = 1 .. Len(s) + 1
  BY <1>2, LenProperties
<1>4. s = <<>> => Append(s, c) = <<c>>
  OBVIOUS
<1> QED
  BY <1>1, <1>2, <1>3, <1>4

LEMMA TruthfulNothing ==
    ASSUME NEW settings, NEW reported
    PROVE  Truthful(<<>>, settings, reported)
BY EmptySeq DEF Truthful

-----------------------------------------------------------------------------
(* What a modem's answer leaves as it is.                                   *)
LEMMA SettingsAfterReply ==
    ASSUME ModemInv, NEW reply \in Seq(Lines), toHost' = toHost \o reply,
           modem'.settings \subseteq Chosen,
           modem.settings \subseteq modem'.settings \/ Some(reply, "ready"),
           Truthful(reply, modem'.settings, FALSE),
           received' = received, tx' = tx, todo' = todo
    PROVE  AnswersTrue' /\ Verified' /\ AllVerified'
<1>1. toHost \in Seq(Lines) /\ received \in Seq(Lines)
  BY DEF ModemInv, ModemTypes
<1>2. /\ Truthful(toHost, modem.settings, FALSE)
      /\ Truthful(received, modem.settings, Some(toHost, "ready"))
  BY DEF ModemInv, AnswersTrue
<1>3. Some(toHost', "ready") <=> Some(toHost, "ready") \/ Some(reply, "ready")
  BY <1>1, PartsJoined DEF Parts
<1>4. Truthful(toHost, modem'.settings, Some(reply, "ready") \/ FALSE)
  <2>1. CASE Some(reply, "ready")
    BY <2>1 DEF Truthful
  <2>2. CASE ~Some(reply, "ready")
    BY <2>2, <1>1, <1>2, TruthfulMore
  <2> QED
    BY <2>1, <2>2
<1>5. Truthful(toHost', modem'.settings, FALSE)
  BY <1>1, <1>4, TruthfulJoined
<1>6. Truthful(received, modem'.settings, Some(toHost', "ready"))
  <2>1. CASE Some(reply, "ready")
    BY <2>1, <1>3 DEF Truthful
  <2>2. CASE ~Some(reply, "ready")
    <3>1. Some(toHost, "ready") => Some(toHost', "ready")
      BY <1>3
    <3> QED
      BY <2>2, <3>1, <1>1, <1>2, TruthfulMore
  <2> QED
    BY <2>1, <2>2
<1>7. AnswersTrue'
  BY <1>5, <1>6 DEF AnswersTrue
<1>8. Verified'
  BY <1>3 DEF ModemInv, Verified
<1>9. AllVerified'
  <2>1. modem.settings \subseteq Chosen
    BY DEF ModemInv, ModemTypes
  <2> QED
    BY <1>3, <2>1 DEF ModemInv, AllVerified
<1> QED
  BY <1>7, <1>8, <1>9

(* What is on the line when the modem has answered.                         *)
LEMMA LineAfterReply ==
    ASSUME ModemTypes, NEW reply \in Seq(Lines), toHost' = toHost \o reply,
           received' = received
    PROVE  toHost' \in Seq(Lines) /\ OnTheLine' = OnTheLine \cup Elems(reply)
<1>1. toHost \in Seq(Lines)
  BY DEF ModemTypes
<1>2. toHost' \in Seq(Lines) /\ Elems(toHost') = Elems(toHost) \cup Elems(reply)
  BY <1>1, PartsJoined DEF Parts
<1> QED
  BY <1>2 DEF OnTheLine

(* Fewer lines do no harm to an installation.                               *)
LEMMA FewerLines ==
    ASSUME InStep, OnTheLine' \subseteq OnTheLine, tx' = tx, stale' = stale,
           toModem' = toModem, modem' = modem
    PROVE  InStep'
<1>1. \A kind : NoneIn(kind) => NoneIn(kind)'
  BY DEF NoneIn
<1> QED
  BY <1>1 DEF InStep, OwnCommand, Step

-----------------------------------------------------------------------------
(* Every step keeps the invariant.                                          *)

LEMMA AnswersStay ==
    ASSUME ModemInv, toHost' = toHost, received' = received, modem' = modem
    PROVE  AnswersTrue'
BY DEF ModemInv, AnswersTrue

LEMMA StartKeeps == ASSUME ModemInv, StartTransaction PROVE ModemInv'
<1>1. /\ ~Active /\ todo # "done" /\ recovery = "idle" /\ tx' = Started(todo)
      /\ received' = <<>> /\ stale' = IF todo = "install" THEN ~Quiet ELSE stale
      /\ UNCHANGED <<modem, toModem, toHost, todo, modemMishaps, recovery>>
  BY DEF StartTransaction
<1>2. ModemTypes /\ OneJob
  BY DEF ModemInv
<1>3. todo \in {"install", "prepare"} /\ received = <<>>
  BY <1>1, <1>2 DEF ModemTypes, OneJob
<1>4. tx' = [job |-> todo, step |-> 1, waiting |-> FALSE] /\ tx' \in Transaction
  BY <1>1, <1>3 DEF Started, Transaction
<1>5. ModemTypes'
  BY <1>1, <1>2, <1>3, <1>4 DEF ModemTypes, Quiet
<1>6. OneJob'
  <2>1. 1 \in DOMAIN Plan[todo]
    <3>1. 1 \in 1 .. 2 * Len(Settings)
      BY Words
    <3> QED
      BY <1>3, <3>1, PlanIs
  <2> QED
    BY <1>1, <1>3, <1>4, <2>1 DEF OneJob
<1>7. AnswersTrue'
  BY <1>1, <1>3, AnswersStay
<1>8. Verified'
  <2>1. \A k \in DOMAIN Settings : ~(2 * k < 1)
    BY Words
  <2> QED
    BY <1>4, <2>1 DEF Verified
<1>9. AllVerified'
  BY <1>1 DEF ModemInv, AllVerified
<1>10. InStep'
  <2> SUFFICES ASSUME tx'.job = "install", ~stale'
               PROVE  toModem' = <<>> /\ OnTheLine' = {}
    BY DEF InStep, OwnCommand, NoneIn
  <2>1. Quiet
    <3>1. todo = "install"
      BY <1>4
    <3>2. stale' = ~Quiet
      BY <1>1, <3>1
    <3> QED
      BY <3>2 DEF Quiet
  <2> QED
    BY <1>1, <2>1, NoLine DEF Quiet, OnTheLine
<1>11. CertificateKept'
  BY <1>1 DEF ModemInv, CertificateKept
<1> QED
  BY <1>5, <1>6, <1>7, <1>8, <1>9, <1>10, <1>11 DEF ModemInv

LEMMA SendStepKeeps == ASSUME ModemInv, SendStep PROVE ModemInv'
<1>1. /\ Active /\ ~tx.waiting /\ toModem' = Append(toModem, Step)
      /\ tx' = [tx EXCEPT !.waiting = TRUE]
      /\ UNCHANGED <<stale, modem, toHost, received, todo, modemMishaps, recovery>>
  BY DEF SendStep
<1>2. ModemTypes /\ OneJob
  BY DEF ModemInv
<1>3. /\ tx' \in Transaction /\ tx'.job = tx.job /\ tx'.step = tx.step /\ tx'.waiting
      /\ Step' = Step
  BY <1>1, <1>2 DEF ModemTypes, Transaction, Step
<1>4. /\ Step \in Commands
      /\ tx.job = "prepare" => Step.kind # "payload"
      /\ todo = tx.job /\ tx.job \in {"install", "prepare"}
  BY <1>1, <1>2, StepIs DEF Command
<1>5. toModem \in Seq(Commands) /\ toModem' \in Seq(Commands)
  BY <1>1, <1>2, <1>4, MoreCommands DEF ModemTypes
<1>6. ModemTypes'
  BY <1>1, <1>2, <1>3, <1>5 DEF ModemTypes
<1>7. OneJob'
  BY <1>1, <1>2, <1>3 DEF OneJob, Active
<1>8. AnswersTrue'
  BY <1>1, AnswersStay
<1>9. Verified' /\ AllVerified'
  BY <1>1, <1>3 DEF ModemInv, Verified, AllVerified
<1>10. OnTheLine' = OnTheLine
  BY <1>1 DEF OnTheLine
<1>11. InStep'
  <2> SUFFICES ASSUME tx.job = "install", ~stale
               PROVE  InStep'
    BY <1>1, <1>3 DEF InStep
  <2>1. toModem = <<>>
    BY <1>1 DEF ModemInv, InStep, OwnCommand
  <2>2. OwnCommand'
    BY <1>1, <1>3, <1>4, <1>5, <2>1, MoreCommands DEF OwnCommand
  <2>3. tx.step # 3 => NoneIn(Answer(tx.step))
    BY <1>1 DEF ModemInv, InStep
  <2> QED
    BY <1>1, <1>3, <1>10, <2>2, <2>3 DEF ModemInv, InStep, NoneIn
<1>12. CertificateKept'
  <2> SUFFICES ASSUME todo # "install", ~stale
               PROVE  \A i \in DOMAIN toModem' : toModem'[i].kind # "payload"
    BY <1>1 DEF ModemInv, CertificateKept
  <2>1. \A i \in DOMAIN toModem : toModem[i].kind # "payload"
    BY DEF ModemInv, CertificateKept
  <2>2. Step.kind # "payload"
    BY <1>4
  <2> QED
    BY <1>1, <1>4, <1>5, <2>1, <2>2, MoreCommands
<1> QED
  BY <1>6, <1>7, <1>8, <1>9, <1>11, <1>12 DEF ModemInv

LEMMA SendRecoveryKeeps == ASSUME ModemInv, SendRecovery PROVE ModemInv'
<1> DEFINE c == Command(Due[recovery], "channel")
<1>1. /\ ~Active /\ recovery \in DOMAIN Due /\ toModem' = Append(toModem, c)
      /\ recovery' = Awaited[Due[recovery]]
      /\ UNCHANGED <<stale, modem, toHost, received, tx, todo, modemMishaps>>
  BY DEF SendRecovery, Sent
<1>2. ModemTypes /\ OneJob
  BY DEF ModemInv
<1>3. /\ c \in Commands /\ c.kind # "payload"
      /\ recovery # "idle" /\ recovery' \in RecoveryStates
  BY <1>1 DEF Due, Awaited, Commands, Command, RecoveryStates
<1> HIDE DEF c
<1>4. toModem \in Seq(Commands) /\ toModem' \in Seq(Commands)
  BY <1>1, <1>2, <1>3, MoreCommands DEF ModemTypes
<1>5. ModemTypes'
  BY <1>1, <1>2, <1>3, <1>4 DEF ModemTypes
<1>6. OneJob'
  BY <1>1, <1>2, <1>3 DEF OneJob, Active
<1>7. AnswersTrue'
  BY <1>1, AnswersStay
<1>8. Verified' /\ AllVerified'
  BY <1>1 DEF ModemInv, Verified, AllVerified
<1>9. InStep'
  BY <1>1 DEF InStep, Active
<1>10. CertificateKept'
  <2> SUFFICES ASSUME todo # "install", ~stale
               PROVE  \A i \in DOMAIN toModem' : toModem'[i].kind # "payload"
    BY <1>1 DEF ModemInv, CertificateKept
  <2>1. \A i \in DOMAIN toModem : toModem[i].kind # "payload"
    BY DEF ModemInv, CertificateKept
  <2> QED
    BY <1>1, <1>3, <1>4, <2>1, MoreCommands
<1> QED
  BY <1>5, <1>6, <1>7, <1>8, <1>9, <1>10 DEF ModemInv

(* A step of the recovery, and the product's wish for another set-up.       *)
LEMMA RecoveryMoves ==
    ASSUME ModemInv, recovery # "idle", recovery' \in RecoveryStates,
           UNCHANGED <<stale, modem, toModem, toHost, received, tx, todo>>
    PROVE  ModemInv'
<1>1. ModemTypes'
  BY DEF ModemInv, ModemTypes
<1>2. OneJob'
  BY DEF ModemInv, OneJob, Active
<1>3. AnswersTrue'
  BY AnswersStay
<1>4. Verified' /\ AllVerified'
  BY DEF ModemInv, Verified, AllVerified
<1>5. OnTheLine' \subseteq OnTheLine
  BY DEF OnTheLine
<1>6. InStep'
  BY <1>5, FewerLines DEF ModemInv
<1>7. CertificateKept'
  BY DEF ModemInv, CertificateKept
<1> QED
  BY <1>1, <1>2, <1>3, <1>4, <1>6, <1>7 DEF ModemInv

LEMMA BodyFinishedKeeps == ASSUME ModemInv, ReportBodyFinished PROVE ModemInv'
<1>1. recovery = "wait_mode" /\ recovery' = "reset_due"
      /\ UNCHANGED <<stale, modem, toModem, toHost, received, tx, todo>>
  BY DEF ReportBodyFinished, BodyFinished
<1>2. recovery # "idle" /\ recovery' \in RecoveryStates
  BY <1>1 DEF RecoveryStates
<1> QED
  BY <1>1, <1>2, RecoveryMoves

LEMMA RecoveryTakenKeeps == ASSUME ModemInv, RecoveryTaken PROVE ModemInv'
<1>1. recovery = "complete" /\ recovery' = "idle"
      /\ UNCHANGED <<stale, modem, toModem, toHost, received, tx, todo>>
  BY DEF RecoveryTaken, TakeComplete
<1>2. recovery # "idle" /\ recovery' \in RecoveryStates
  BY <1>1 DEF RecoveryStates
<1> QED
  BY <1>1, <1>2, RecoveryMoves

LEMMA SetUpAgainKeeps == ASSUME ModemInv, SetUpAgain PROVE ModemInv'
<1>1. /\ todo = "done" /\ recovery = "idle" /\ todo' = "prepare"
      /\ UNCHANGED <<stale, modem, toModem, toHost, received, tx, modemMishaps, recovery>>
  BY DEF SetUpAgain
<1>2. tx.job = "none"
  BY <1>1 DEF ModemInv, ModemTypes, Transaction, OneJob, Active
<1>3. ModemTypes'
  BY <1>1 DEF ModemInv, ModemTypes
<1>4. OneJob'
  BY <1>1, <1>2 DEF ModemInv, OneJob, Active
<1>5. AnswersTrue'
  BY <1>1, AnswersStay
<1>6. Verified' /\ AllVerified' /\ InStep'
  BY <1>1, <1>2 DEF Verified, AllVerified, InStep
<1>7. CertificateKept'
  BY <1>1 DEF ModemInv, CertificateKept
<1> QED
  BY <1>3, <1>4, <1>5, <1>6, <1>7 DEF ModemInv

(* A transaction is given up, and the channel recovered.                    *)
LEMMA GivenUpKeeps ==
    ASSUME ModemInv, Active, tx' = NoTransaction, received' = <<>>,
           recovery' \in RecoveryStates, toHost' \in Seq(Lines),
           Truthful(toHost', modem.settings, FALSE),
           UNCHANGED <<stale, modem, toModem, todo>>
    PROVE  ModemInv'
<1>1. ModemTypes /\ todo # "done"
  BY DEF ModemInv, ModemTypes, OneJob, Transaction, Active
<1>2. tx' = [job |-> "none", step |-> 0, waiting |-> FALSE] /\ tx' \in Transaction
  BY DEF NoTransaction, Transaction
<1>3. ModemTypes'
  BY <1>1, <1>2, NoLine DEF ModemTypes
<1>4. OneJob'
  BY <1>1, <1>2 DEF OneJob, Active
<1>5. AnswersTrue'
  BY TruthfulNothing DEF AnswersTrue
<1>6. Verified' /\ AllVerified' /\ InStep'
  BY <1>1, <1>2 DEF Verified, AllVerified, InStep
<1>7. CertificateKept'
  BY DEF ModemInv, CertificateKept
<1> QED
  BY <1>3, <1>4, <1>5, <1>6, <1>7 DEF ModemInv

LEMMA TimeOutKeeps == ASSUME ModemInv, TimeOut PROVE ModemInv'
<1>1. UNCHANGED <<stale, modem, toModem, toHost, todo>>
  BY DEF TimeOut
<1>2. CASE /\ Active /\ tx.waiting
           /\ tx' = NoTransaction /\ received' = <<>>
           /\ Quarantine(CommandModeKnown("none"))
  <2>1. recovery' \in RecoveryStates
    BY <1>2 DEF Quarantine, RecoveryStates
  <2>2. toHost' \in Seq(Lines) /\ Truthful(toHost', modem.settings, FALSE)
    BY <1>1 DEF ModemInv, ModemTypes, AnswersTrue
  <2> QED
    BY <1>1, <1>2, <2>1, <2>2, GivenUpKeeps
<1>3. CASE ~Active /\ RecoveryTimeout /\ UNCHANGED <<tx, received>>
  <2>1. recovery # "idle" /\ recovery' \in RecoveryStates
    BY <1>3 DEF RecoveryTimeout, WaitingResult, RecoveryStates
  <2> QED
    BY <1>1, <1>3, <2>1, RecoveryMoves
<1> QED
  BY <1>2, <1>3 DEF TimeOut

LEMMA ReceiveLineKeeps == ASSUME ModemInv, ReceiveLine PROVE ModemInv'
<1> DEFINE line == Head(toHost)
<1>1. /\ ~Active /\ toHost # <<>> /\ toHost' = Tail(toHost)
      /\ todo' = IF line.kind = "ready" /\ todo = "done" THEN "prepare" ELSE todo
      /\ UNCHANGED <<stale, modem, toModem, received, tx, modemMishaps>>
  BY DEF ReceiveLine
<1>2. ModemTypes /\ OneJob
  BY DEF ModemInv
<1>3. /\ line \in Lines /\ toHost' \in Seq(Lines) /\ toHost = <<line>> \o toHost'
      /\ <<line>> \in Seq(Lines)
  BY <1>1, <1>2, FirstLine, OneLine DEF ModemTypes
<1>4. /\ recovery' \in RecoveryStates
      /\ recovery = "idle" /\ line.kind # "ready" => recovery' = "idle"
  BY <1>2 DEF ReceiveLine, ModuleReady, RecoveryResult, WaitingResult, RecoveryStates, ModemTypes
<1> HIDE DEF line
<1>5. Some(toHost, "ready") <=> line.kind = "ready" \/ Some(toHost', "ready")
  <2>1. Parts(<<line>> \o toHost', <<line>>, toHost')
    BY <1>3, PartsJoined
  <2>2. Some(<<line>>, "ready") <=> line.kind = "ready"
    BY <1>3, OneLine
  <2> QED
    BY <1>3, <2>1, <2>2 DEF Parts
<1>6. ModemTypes'
  BY <1>1, <1>2, <1>3, <1>4 DEF ModemTypes
<1>7. OneJob'
  BY <1>1, <1>2, <1>4 DEF OneJob, Active
<1>8. AnswersTrue'
  <2>1. Truthful(<<line>> \o toHost', modem.settings, FALSE)
    BY <1>3 DEF ModemInv, AnswersTrue
  <2>2. Truthful(toHost', modem.settings, FALSE)
    BY <1>3, <2>1, TruthfulParts
  <2>3. received' = <<>>
    BY <1>1, <1>2 DEF OneJob
  <2> QED
    BY <1>1, <2>2, <2>3, TruthfulNothing DEF AnswersTrue
<1>9. Verified' /\ InStep'
  BY <1>1 DEF Verified, InStep, Active
<1>10. AllVerified'
  BY <1>1, <1>5 DEF ModemInv, AllVerified
<1>11. CertificateKept'
  BY <1>1 DEF ModemInv, CertificateKept
<1> QED
  BY <1>6, <1>7, <1>8, <1>9, <1>10, <1>11 DEF ModemInv

-----------------------------------------------------------------------------
(* What the modem does.                                                     *)

LEMMA TwoLines ==
    ASSUME NEW one \in Lines, NEW two \in Lines
    PROVE  /\ <<one, two>> \in Seq(Lines) /\ Elems(<<one, two>>) = {one, two}
           /\ \A kind : Some(<<one, two>>, kind) <=> one.kind = kind \/ two.kind = kind
BY DEF Elems, Some

LEMMA HoldsNow ==
    ASSUME NEW s \in Seq(Lines), NEW settings,
           \A line \in Elems(s) :
               line.kind = "value" /\ line.of # "certificate" /\ line.right => line.of \in settings
    PROVE  Truthful(s, settings, FALSE)
BY DEF Elems, Truthful

(* The modem carries out c and answers with reply.                          *)
Replied(c, reply) ==
    /\ toHost' = toHost \o reply
    /\ modem' \in [certificate : {"none", "good", "damaged"}, settings : SUBSET Chosen,
                   body : BOOLEAN]
    /\ modem.settings \subseteq modem'.settings \/ Some(reply, "ready")
    /\ c.kind # "payload" => modem'.certificate = modem.certificate
    /\ \A line \in Elems(reply) :
          /\ line.kind = "value" => c.kind \in {"read", "query"}
          /\ line.kind = "value" /\ line.of # "certificate" /\ line.right =>
                line.of \in modem'.settings
          /\ line.kind = "value" /\ line.right /\ c.kind = "read" => modem'.certificate = "good"
          /\ line.kind = "ok" => c.kind # "write"
          /\ line.kind = "prompt" => c.kind # "payload"

LEMMA ReadyOrNot ==
    /\ Line("ok") \in Lines /\ Line("error") \in Lines
    /\ Line("prompt") \in Lines /\ Line("ready") \in Lines
    /\ Line("ok").kind = "ok" /\ Line("error").kind = "error"
    /\ Line("prompt").kind = "prompt" /\ Line("ready").kind = "ready"
    /\ \A of \in Chosen \cup {"certificate"}, right \in BOOLEAN :
          /\ Value(of, right) \in Lines /\ Value(of, right).kind = "value"
          /\ Value(of, right).of = of /\ Value(of, right).right = right
<1>1. /\ Line("ok") \in Lines /\ Line("error") \in Lines
      /\ Line("prompt") \in Lines /\ Line("ready") \in Lines
  BY DEF Lines
<1>2. /\ Line("ok").kind = "ok" /\ Line("error").kind = "error"
      /\ Line("prompt").kind = "prompt" /\ Line("ready").kind = "ready"
  BY DEF Line
<1>3. ASSUME NEW of \in Chosen \cup {"certificate"}, NEW right \in BOOLEAN
      PROVE  /\ Value(of, right) \in Lines /\ Value(of, right).kind = "value"
             /\ Value(of, right).of = of /\ Value(of, right).right = right
  <2>1. Value(of, right) \in Lines
    BY DEF Lines
  <2> QED
    BY <2>1 DEF Value
<1> QED
  BY <1>1, <1>2, <1>3

LEMMA ModemAnswers ==
    ASSUME ModemTypes, NEW c \in Commands, Answered(c)
    PROVE  \E reply \in Seq(Lines) : Replied(c, reply)
<1>1. modem \in [certificate : {"none", "good", "damaged"}, settings : SUBSET Chosen,
                 body : BOOLEAN]
  BY DEF ModemTypes
<1>2. ASSUME NEW line \in Lines, line.kind # "value", Reply(<<line>>),
             modem' \in [certificate : {"none", "good", "damaged"}, settings : SUBSET Chosen,
                         body : BOOLEAN],
             modem.settings \subseteq modem'.settings \/ line.kind = "ready",
             modem'.certificate = modem.certificate,
             line.kind = "ok" => c.kind # "write", line.kind = "prompt" => c.kind # "payload"
      PROVE  \E reply \in Seq(Lines) : Replied(c, reply)
  <2>1. Replied(c, <<line>>)
    BY <1>2, OneLine DEF Replied, Reply
  <2> QED
    BY <2>1, OneLine
<1>3. CASE c.kind = "reset"
  <2>1. modem' = [modem EXCEPT !.settings = {}, !.body = FALSE] /\ Reply(<<Line("ready")>>)
    BY <1>3 DEF Answered, ModemRestarted
  <2>2. /\ modem' \in [certificate : {"none", "good", "damaged"}, settings : SUBSET Chosen,
                       body : BOOLEAN]
        /\ modem'.certificate = modem.certificate
    BY <1>1, <2>1
  <2> QED
    BY <1>2, <2>1, <2>2, ReadyOrNot
<1>4. CASE c.kind \in {"probe", "echo"}
  <2>1. modem' = modem /\ Reply(<<Line("ok")>>)
    BY <1>4 DEF Answered
  <2> QED
    BY <1>1, <1>2, <1>4, <2>1, ReadyOrNot
<1>5. CASE c.kind = "write"
  <2>1. modem' = [modem EXCEPT !.body = TRUE] /\ Reply(<<Line("prompt")>>)
    BY <1>5 DEF Answered
  <2>2. /\ modem' \in [certificate : {"none", "good", "damaged"}, settings : SUBSET Chosen,
                       body : BOOLEAN]
        /\ modem'.certificate = modem.certificate /\ modem'.settings = modem.settings
    BY <1>1, <2>1
  <2> QED
    BY <1>2, <1>5, <2>1, <2>2, ReadyOrNot
<1>6. CASE c.kind = "payload"
  <2>1. modem' = modem /\ Reply(<<Line("error")>>)
    BY <1>6 DEF Answered
  <2> QED
    BY <1>1, <1>2, <2>1, ReadyOrNot
<1>7. CASE c.kind = "set"
  <2>1. modem' = [modem EXCEPT !.settings = @ \cup {c.of}] /\ Reply(<<Line("ok")>>)
    BY <1>7 DEF Answered
  <2>2. c.of \in Chosen
    BY <1>7, CommandIs
  <2>3. /\ modem' \in [certificate : {"none", "good", "damaged"}, settings : SUBSET Chosen,
                       body : BOOLEAN]
        /\ modem'.certificate = modem.certificate /\ modem.settings \subseteq modem'.settings
    BY <1>1, <2>1, <2>2
  <2> QED
    BY <1>2, <1>7, <2>1, <2>3, ReadyOrNot
<1>8. ASSUME NEW of \in Chosen \cup {"certificate"}, NEW right \in BOOLEAN,
             modem' = modem, Reply(<<Value(of, right), Line("ok")>>),
             of # "certificate" /\ right => of \in modem.settings,
             right /\ c.kind = "read" => modem.certificate = "good",
             c.kind \in {"read", "query"}
      PROVE  \E reply \in Seq(Lines) : Replied(c, reply)
  <2> DEFINE reply == <<Value(of, right), Line("ok")>>
  <2>1. /\ Value(of, right) \in Lines /\ Line("ok") \in Lines
        /\ Value(of, right).kind = "value" /\ Value(of, right).of = of
        /\ Value(of, right).right = right /\ Line("ok").kind = "ok"
    BY ReadyOrNot
  <2>2. reply \in Seq(Lines) /\ Elems(reply) = {Value(of, right), Line("ok")}
    BY <2>1, TwoLines
  <2>3. toHost' = toHost \o reply
    BY <1>8 DEF Reply
  <2> HIDE DEF reply
  <2>4. Replied(c, reply)
    BY <1>1, <1>8, <2>1, <2>2, <2>3 DEF Replied
  <2> QED
    BY <2>2, <2>4
<1>9. CASE c.kind = "read"
  <2>1. modem' = modem
        /\ Reply(<<Value("certificate", modem.certificate = "good"), Line("ok")>>)
    BY <1>9 DEF Answered
  <2>2. (modem.certificate = "good") \in BOOLEAN /\ "certificate" \in Chosen \cup {"certificate"}
    OBVIOUS
  <2> QED
    BY <1>8, <1>9, <2>1, <2>2
<1>10. CASE c.kind = "query"
  <2>1. modem' = modem /\ Reply(<<Value(c.of, c.of \in modem.settings), Line("ok")>>)
    BY <1>10 DEF Answered
  <2>2. (c.of \in modem.settings) \in BOOLEAN /\ c.of \in Chosen \cup {"certificate"}
    BY <1>10, CommandIs
  <2>3. c.kind # "read"
    BY <1>10
  <2> QED
    BY <1>8, <1>10, <2>1, <2>2, <2>3
<1>11. c.kind \in {"reset", "probe", "echo", "write", "payload", "read", "set", "query"}
  BY CommandIs
<1> QED
  BY <1>3, <1>4, <1>5, <1>6, <1>7, <1>9, <1>10, <1>11

(* An answer to what was sent.                                              *)
LEMMA ReplyKeeps ==
    ASSUME ModemInv, toModem # <<>>, NEW reply \in Seq(Lines), Replied(Head(toModem), reply),
           toModem' = Tail(toModem), UNCHANGED <<stale, received, tx, todo, recovery>>
    PROVE  ModemInv'
<1> DEFINE c == Head(toModem)
<1>1. ModemTypes /\ OneJob
  BY DEF ModemInv
<1>2. toModem \in Seq(Commands)
  BY <1>1 DEF ModemTypes
<1>3. /\ c \in Commands /\ Tail(toModem) \in Seq(Commands)
      /\ \E i \in DOMAIN toModem : toModem[i] = c
      /\ \A i \in DOMAIN Tail(toModem) : \E j \in DOMAIN toModem : Tail(toModem)[i] = toModem[j]
      /\ \A e : toModem = <<e>> => c = e /\ Tail(toModem) = <<>>
  BY <1>2, FirstCommand
<1>4. Replied(c, reply)
  OBVIOUS
<1> HIDE DEF c
<1>5. toHost' \in Seq(Lines) /\ OnTheLine' = OnTheLine \cup Elems(reply)
  BY <1>1, <1>4, LineAfterReply DEF Replied
<1>6. ModemTypes'
  BY <1>1, <1>3, <1>4, <1>5 DEF ModemTypes, Replied
<1>7. OneJob'
  BY <1>1 DEF OneJob, Active
<1>8. AnswersTrue' /\ Verified' /\ AllVerified'
  <2>1. Truthful(reply, modem'.settings, FALSE)
    BY <1>4, HoldsNow DEF Replied
  <2>2. modem'.settings \subseteq Chosen /\ toHost' = toHost \o reply
        /\ (modem.settings \subseteq modem'.settings \/ Some(reply, "ready"))
    BY <1>4 DEF Replied
  <2> QED
    BY <2>1, <2>2, SettingsAfterReply
<1>9. InStep'
  <2> SUFFICES ASSUME tx.job = "install", ~stale
               PROVE  InStep'
    BY DEF InStep
  <2>1. /\ tx.waiting /\ c = Step /\ toModem' = <<>>
    BY <1>3 DEF ModemInv, InStep, OwnCommand
  <2>2. OwnCommand'
    BY <2>1 DEF OwnCommand
  <2>3. Active
    BY DEF Active
  <2>4. \/ tx.step = 1 /\ c.kind = "write"
        \/ tx.step = 2 /\ c.kind = "payload"
        \/ tx.step = 3 /\ c.kind = "read"
    BY <1>1, <2>1, <2>3, StepIs DEF Command
  <2>5. tx.step = 1 => NoneIn("ok")'
    <3>1. tx.step = 1 => NoneIn("ok")
      BY DEF ModemInv, InStep
    <3> QED
      BY <1>4, <1>5, <2>4, <3>1 DEF NoneIn, Replied
  <2>6. tx.step # 3 => NoneIn("value")'
    <3>1. tx.step # 3 => NoneIn("value")
      BY DEF ModemInv, InStep
    <3> QED
      BY <1>4, <1>5, <2>4, <3>1 DEF NoneIn, Replied
  <2>7. \A line \in OnTheLine' :
            line.kind = "value" /\ line.right => modem'.certificate = "good"
    <3>1. CASE tx.step = 3
      <4>1. c.kind = "read" /\ modem'.certificate = modem.certificate
        BY <1>4, <2>4, <3>1 DEF Replied
      <4>2. \A line \in OnTheLine :
                line.kind = "value" /\ line.right => modem.certificate = "good"
        BY DEF ModemInv, InStep
      <4> QED
        BY <1>4, <1>5, <4>1, <4>2 DEF Replied
    <3>2. CASE tx.step # 3
      BY <2>6, <3>2 DEF NoneIn
    <3> QED
      BY <3>1, <3>2
  <2> QED
    BY <2>1, <2>2, <2>5, <2>6, <2>7 DEF InStep
<1>10. CertificateKept'
  <2> SUFFICES ASSUME todo # "install", ~stale
               PROVE  /\ modem'.certificate = "good"
                      /\ \A i \in DOMAIN toModem' : toModem'[i].kind # "payload"
    BY DEF CertificateKept
  <2>1. /\ modem.certificate = "good"
        /\ \A i \in DOMAIN toModem : toModem[i].kind # "payload"
    BY DEF ModemInv, CertificateKept
  <2>2. c.kind # "payload"
    BY <1>3, <2>1
  <2>3. modem'.certificate = "good"
    BY <1>4, <2>1, <2>2 DEF Replied
  <2> QED
    BY <1>3, <2>1, <2>3
<1> QED
  BY <1>6, <1>7, <1>8, <1>9, <1>10 DEF ModemInv

LEMMA ModemWorksKeeps == ASSUME ModemInv, ModemWorks PROVE ModemInv'
<1> DEFINE c == Head(toModem)
<1>1. /\ toModem # <<>> /\ toModem' = Tail(toModem)
      /\ UNCHANGED <<stale, received, tx, todo, recovery>>
  BY DEF ModemWorks
<1>2. ModemTypes
  BY DEF ModemInv
<1>3. /\ modem \in [certificate : {"none", "good", "damaged"}, settings : SUBSET Chosen,
                    body : BOOLEAN]
      /\ toModem \in Seq(Commands) /\ toHost \in Seq(Lines)
  BY <1>2 DEF ModemTypes
<1>4. c \in Commands
  BY <1>1, <1>3, FirstCommand
<1>5. \E reply \in Seq(Lines) : Replied(c, reply)
  <2>1. CASE ~modem.body /\ Answered(c)
    BY <1>2, <1>4, <2>1, ModemAnswers
  <2>2. CASE ~modem.body /\ c.kind = "set" /\ modem' = modem /\ Reply(<<Line("error")>>)
    <3>1. Replied(c, <<Line("error")>>)
      BY <1>3, <2>2, OneLine, ReadyOrNot DEF Replied, Reply
    <3> QED
      BY <3>1, OneLine, ReadyOrNot
  <2>3. CASE /\ modem.body /\ c.kind = "payload"
             /\ \E stored \in {"good", "damaged"} :
                   modem' = [modem EXCEPT !.certificate = stored, !.body = FALSE]
             /\ Reply(<<Line("ok")>>)
    <3>1. /\ modem' \in [certificate : {"none", "good", "damaged"}, settings : SUBSET Chosen,
                         body : BOOLEAN]
          /\ modem'.settings = modem.settings
      BY <1>3, <2>3
    <3>2. Replied(c, <<Line("ok")>>)
      BY <2>3, <3>1, OneLine, ReadyOrNot DEF Replied, Reply
    <3> QED
      BY <3>2, OneLine, ReadyOrNot
  <2>4. CASE modem.body /\ c.kind # "payload" /\ UNCHANGED <<modem, toHost>>
    <3>1. toHost \o <<>> = toHost
      BY <1>3, ConcatEmptySeq
    <3>2. Replied(c, <<>>)
      BY <1>3, <2>4, <3>1, NoLine DEF Replied
    <3> QED
      BY <3>2, NoLine
  <2> QED
    BY <2>1, <2>2, <2>3, <2>4 DEF ModemWorks
<1>6. PICK reply \in Seq(Lines) : Replied(c, reply)
  BY <1>5
<1> QED
  BY <1>1, <1>6, ReplyKeeps

(* A line the modem sends of itself.                                        *)
LEMMA OwnLineKeeps ==
    ASSUME ModemInv, NEW line \in Lines, line.kind \in {"error", "ready"},
           toHost' = toHost \o <<line>>,
           modem' \in [certificate : {"none", "good", "damaged"}, settings : SUBSET Chosen,
                       body : BOOLEAN],
           modem'.certificate = modem.certificate,
           modem.settings \subseteq modem'.settings \/ line.kind = "ready",
           toModem' = toModem \/ toModem' = <<>>,
           UNCHANGED <<stale, received, tx, todo, recovery>>
    PROVE  ModemInv'
<1>1. ModemTypes /\ OneJob
  BY DEF ModemInv
<1>2. /\ <<line>> \in Seq(Lines) /\ Elems(<<line>>) = {line}
      /\ \A kind : Some(<<line>>, kind) <=> line.kind = kind
  BY OneLine
<1>3. toHost' \in Seq(Lines) /\ OnTheLine' = OnTheLine \cup {line}
  BY <1>1, <1>2, LineAfterReply
<1>4. toModem' \in Seq(Commands)
  <2>1. <<>> \in Seq(Commands)
    BY EmptySeq
  <2> QED
    BY <1>1, <2>1 DEF ModemTypes
<1>5. ModemTypes'
  BY <1>1, <1>3, <1>4 DEF ModemTypes
<1>6. OneJob'
  BY <1>1 DEF OneJob, Active
<1>7. AnswersTrue' /\ Verified' /\ AllVerified'
  <2>1. Truthful(<<line>>, modem'.settings, FALSE)
    BY <1>2, HoldsNow
  <2>2. modem'.settings \subseteq Chosen
    OBVIOUS
  <2> QED
    BY <1>2, <2>1, <2>2, SettingsAfterReply
<1>8. InStep'
  <2> SUFFICES ASSUME tx.job = "install", ~stale
               PROVE  InStep'
    BY DEF InStep
  <2>1. /\ OwnCommand
        /\ tx.step = 1 => NoneIn("ok")
        /\ tx.step # 3 => NoneIn("value")
        /\ tx.step # 3 /\ ~NoneIn(Answer(tx.step)) => tx.waiting /\ toModem = <<>>
        /\ \A l \in OnTheLine : l.kind = "value" /\ l.right => modem.certificate = "good"
    BY DEF ModemInv, InStep
  <2>2. OwnCommand'
    BY <2>1 DEF OwnCommand, Step
  <2>3. \A kind : kind \notin {"error", "ready"} => (NoneIn(kind)' <=> NoneIn(kind))
    BY <1>3 DEF NoneIn
  <2>4. NoneIn(Answer(tx.step))' <=> NoneIn(Answer(tx.step))
    <3>1. Answer(tx.step) \notin {"error", "ready"}
      BY DEF Answer
    <3> QED
      BY <2>3, <3>1
  <2>5. (NoneIn("ok")' <=> NoneIn("ok")) /\ (NoneIn("value")' <=> NoneIn("value"))
    BY <2>3
  <2>6. \A l \in OnTheLine' : l.kind = "value" /\ l.right => modem'.certificate = "good"
    BY <1>3, <2>1
  <2> QED
    BY <2>1, <2>2, <2>4, <2>5, <2>6 DEF InStep
<1>9. CertificateKept'
  BY EmptySeq DEF ModemInv, CertificateKept
<1> QED
  BY <1>5, <1>6, <1>7, <1>8, <1>9 DEF ModemInv

LEMMA BodyAbandonedKeeps == ASSUME ModemInv, BodyAbandoned PROVE ModemInv'
<1>1. /\ modem' = [modem EXCEPT !.body = FALSE] /\ toHost' = toHost \o <<Line("error")>>
      /\ UNCHANGED <<stale, toModem, received, tx, todo, recovery>>
  BY DEF BodyAbandoned, Reply
<1>2. /\ modem' \in [certificate : {"none", "good", "damaged"}, settings : SUBSET Chosen,
                     body : BOOLEAN]
      /\ modem'.certificate = modem.certificate /\ modem.settings \subseteq modem'.settings
  BY <1>1 DEF ModemInv, ModemTypes
<1> QED
  BY <1>1, <1>2, ReadyOrNot, OwnLineKeeps

LEMMA ModemRestartsKeeps == ASSUME ModemInv, ModemRestarts PROVE ModemInv'
<1>1. /\ modem' = [modem EXCEPT !.settings = {}, !.body = FALSE]
      /\ toModem' = <<>> /\ toHost' = toHost \o <<Line("ready")>>
      /\ UNCHANGED <<stale, received, tx, todo, recovery>>
  BY DEF ModemRestarts, ModemRestarted, Reply
<1>2. /\ modem' \in [certificate : {"none", "good", "damaged"}, settings : SUBSET Chosen,
                     body : BOOLEAN]
      /\ modem'.certificate = modem.certificate
  BY <1>1 DEF ModemInv, ModemTypes
<1> QED
  BY <1>1, <1>2, ReadyOrNot, OwnLineKeeps

LEMMA CommandLost ==
    ASSUME ModemInv, toModem # <<>>, toModem' = Tail(toModem),
           UNCHANGED <<toHost, stale, modem, received, tx, todo, recovery>>
    PROVE  ModemInv'
<1>1. ModemTypes /\ OneJob
  BY DEF ModemInv
<1>2. toModem \in Seq(Commands)
  BY <1>1 DEF ModemTypes
<1>3. /\ toModem' \in Seq(Commands)
      /\ \A i \in DOMAIN toModem' : \E j \in DOMAIN toModem : toModem'[i] = toModem[j]
      /\ \A e : toModem = <<e>> => toModem' = <<>>
  BY <1>2, FirstCommand
<1>4. ModemTypes'
  BY <1>1, <1>3 DEF ModemTypes
<1>5. OneJob'
  BY <1>1 DEF OneJob, Active
<1>6. AnswersTrue'
  BY AnswersStay
<1>7. Verified' /\ AllVerified'
  BY DEF ModemInv, Verified, AllVerified
<1>8. InStep'
  <2> SUFFICES ASSUME tx.job = "install", ~stale
               PROVE  InStep'
    BY DEF InStep
  <2>1. toModem' = <<>>
    BY <1>3 DEF ModemInv, InStep, OwnCommand
  <2>2. OwnCommand'
    BY <2>1 DEF OwnCommand
  <2>3. OnTheLine' = OnTheLine
    BY DEF OnTheLine
  <2> QED
    BY <2>1, <2>2, <2>3 DEF ModemInv, InStep, NoneIn
<1>9. CertificateKept'
  BY <1>3 DEF ModemInv, CertificateKept
<1> QED
  BY <1>4, <1>5, <1>6, <1>7, <1>8, <1>9 DEF ModemInv

LEMMA AnswerLost ==
    ASSUME ModemInv, toHost # <<>>, Head(toHost).kind = "ready" => recovery # "idle",
           toHost' = Tail(toHost),
           UNCHANGED <<toModem, stale, modem, received, tx, todo, recovery>>
    PROVE  ModemInv'
<1> DEFINE line == Head(toHost)
<1>1. ModemTypes /\ OneJob
  BY DEF ModemInv
<1>2. /\ line \in Lines /\ toHost' \in Seq(Lines) /\ toHost = <<line>> \o toHost'
      /\ <<line>> \in Seq(Lines)
  BY <1>1, FirstLine, OneLine DEF ModemTypes
<1>3. line.kind = "ready" => recovery # "idle"
  OBVIOUS
<1> HIDE DEF line
<1>4. /\ Some(toHost, "ready") <=> line.kind = "ready" \/ Some(toHost', "ready")
      /\ Elems(toHost') \subseteq Elems(toHost)
  <2>1. Parts(<<line>> \o toHost', <<line>>, toHost')
    BY <1>2, PartsJoined
  <2>2. Some(<<line>>, "ready") <=> line.kind = "ready"
    BY <1>2, OneLine
  <2> QED
    BY <1>2, <2>1, <2>2 DEF Parts
<1>5. ModemTypes'
  BY <1>1, <1>2 DEF ModemTypes
<1>6. OneJob'
  BY <1>1 DEF OneJob, Active
<1>7. AnswersTrue'
  <2>1. Truthful(<<line>> \o toHost', modem.settings, FALSE)
    BY <1>2 DEF ModemInv, AnswersTrue
  <2>2. Truthful(toHost', modem.settings, FALSE)
    BY <1>2, <2>1, TruthfulParts
  <2>3. Truthful(received, modem.settings, Some(toHost', "ready"))
    <3>1. CASE line.kind = "ready"
      <4>1. received = <<>>
        BY <1>1, <1>3, <3>1 DEF OneJob
      <4> QED
        BY <4>1, TruthfulNothing
    <3>2. CASE line.kind # "ready"
      BY <1>4, <3>2 DEF ModemInv, AnswersTrue, Truthful
    <3> QED
      BY <3>1, <3>2
  <2> QED
    BY <2>2, <2>3 DEF AnswersTrue
<1>8. Verified'
  <2> SUFFICES ASSUME tx.job = "prepare"
               PROVE  Verified'
    BY DEF Verified
  <2>1. line.kind # "ready"
    BY <1>1, <1>3 DEF OneJob, Active
  <2> QED
    BY <1>4, <2>1 DEF ModemInv, Verified
<1>9. AllVerified'
  BY <1>1, <1>3, <1>4 DEF ModemInv, AllVerified, OneJob
<1>10. OnTheLine' \subseteq OnTheLine
  BY <1>4 DEF OnTheLine
<1>11. InStep'
  BY <1>10, FewerLines DEF ModemInv
<1>12. CertificateKept'
  BY DEF ModemInv, CertificateKept
<1> QED
  BY <1>5, <1>6, <1>7, <1>8, <1>9, <1>11, <1>12 DEF ModemInv

LEMMA LineLostKeeps == ASSUME ModemInv, LineLost PROVE ModemInv'
<1>1. UNCHANGED <<stale, modem, received, tx, todo, recovery>>
  BY DEF LineLost
<1>2. CASE toModem # <<>> /\ toModem' = Tail(toModem) /\ UNCHANGED toHost
  BY <1>1, <1>2, CommandLost
<1>3. CASE /\ toHost # <<>> /\ (Head(toHost).kind = "ready" => recovery # "idle")
           /\ toHost' = Tail(toHost) /\ UNCHANGED toModem
  BY <1>1, <1>3, AnswerLost
<1> QED
  BY <1>2, <1>3 DEF LineLost

-----------------------------------------------------------------------------
(* There is a first one among some lines: of the segments before them one   *)
(* has no other within it.                                                  *)
LEMMA FirstOfSome ==
    ASSUME NEW S \in SUBSET Nat, S # {}
    PROVE  \E i \in S : \A j \in S : i <= j
<1> DEFINE Before == {0 .. i - 1 : i \in S}
<1>1. Before \subseteq FiniteSubsetsOf(Nat) /\ Before # {}
  <2>1. ASSUME NEW i \in S
        PROVE  0 .. i - 1 \in FiniteSubsetsOf(Nat)
    <3>1. IsFiniteSet(0 .. i - 1)
      BY FS_Interval
    <3>2. 0 .. i - 1 \subseteq Nat
      OBVIOUS
    <3> QED
      BY <3>1, <3>2 DEF FiniteSubsetsOf
  <2> QED
    BY <2>1
<1> HIDE DEF Before
<1>2. PICK u \in Before : \A v \in Before : ~(<<v, u>> \in StrictSubsetOrdering(Nat))
  BY <1>1, FS_StrictSubsetOrderingWellFounded, WFMin
<1>3. PICK i \in S : u = 0 .. i - 1
  BY DEF Before
<1>4. ASSUME NEW j \in S, j < i
      PROVE  FALSE
  <2>1. 0 .. j - 1 \in Before
    BY DEF Before
  <2>2. 0 .. j - 1 \subseteq 0 .. i - 1 /\ j \in 0 .. i - 1 /\ j \notin 0 .. j - 1
    BY <1>4
  <2>3. <<0 .. j - 1, u>> \in StrictSubsetOrdering(Nat)
    BY <1>3, <2>2 DEF StrictSubsetOrdering
  <2> QED
    BY <1>2, <2>1, <2>3
<1> QED
  BY <1>4

(* What a complete response shows.                                          *)
LEMMA CompleteShows ==
    ASSUME ModemTypes, OneJob, Active, NEW lines \in Seq(Lines), Inspect(lines) = "complete"
    PROVE  /\ ~Some(lines, "ready")
           /\ Step.kind = "write" => Some(lines, "prompt")
           /\ Step.kind = "payload" => Some(lines, "ok")
           /\ Step.kind = "query" => \E i \in DOMAIN lines : lines[i] = Value(Step.of, TRUE)
           /\ Step.kind = "read" =>
                 \E i \in DOMAIN lines : lines[i].kind = "value" /\ lines[i].right
<1>1. Len(lines) \in Nat /\ DOMAIN lines = 1 .. Len(lines)
      /\ \A i \in DOMAIN lines : lines[i] \in Lines
  BY LenProperties
<1>2. ~Some(lines, "ready") /\ InspectStep(lines) = "complete"
  BY DEF Inspect
<1>3. FinalScan(lines) = "complete" => Some(lines, "ok")
  <2> SUFFICES ASSUME FinalScan(lines) = "complete"
               PROVE  Some(lines, "ok")
    OBVIOUS
  <2> DEFINE finals == {i \in DOMAIN lines : IsFinal(lines[i])}
  <2>1. finals # {} /\ finals = {Len(lines)} /\ lines[Len(lines)].kind = "ok"
    BY DEF FinalScan
  <2>2. Len(lines) \in DOMAIN lines
    BY <2>1
  <2> QED
    BY <2>1, <2>2 DEF Some
<1>4. CASE Step.kind = "write"
  <2>1. PromptScan(lines) = "complete"
    BY <1>2, <1>4 DEF InspectStep
  <2>2. Some(lines, "prompt")
    BY <2>1 DEF PromptScan, Some
  <2> QED
    BY <1>2, <1>4, <2>2
<1>5. CASE Step.kind \in {"payload", "set"}
  <2>1. FinalScan(lines) = "complete"
    BY <1>2, <1>5 DEF InspectStep
  <2> QED
    BY <1>2, <1>3, <1>5, <2>1
<1>6. CASE Step.kind = "query"
  <2>1. QueryScan(lines, Step.of) = "complete"
    BY <1>2, <1>6 DEF InspectStep
  <2>2. \E i \in DOMAIN lines : lines[i] = Value(Step.of, TRUE)
    BY <2>1 DEF QueryScan
  <2> QED
    BY <1>2, <1>6, <2>2
<1>7. CASE Step.kind = "read"
  <2>1. ReadScan(lines) = "complete"
    BY <1>2, <1>7 DEF InspectStep
  <2> DEFINE framed == {i \in DOMAIN lines : lines[i].of = "certificate"}
             frame == CHOOSE i \in framed : \A j \in framed : i <= j
  <2>2. framed # {} /\ lines[frame].right
    BY <2>1 DEF ReadScan
  <2>3. frame \in framed
    <3>1. framed \subseteq Nat
      BY <1>1
    <3>2. \E i \in framed : \A j \in framed : i <= j
      <4> HIDE DEF framed
      <4> QED
        BY <2>2, <3>1, FirstOfSome
    <3> QED
      BY <3>2
  <2>4. frame \in DOMAIN lines /\ lines[frame].of = "certificate"
    BY <2>3
  <2>5. lines[frame].kind = "value"
    BY <1>1, <2>4, LineIs
  <2> QED
    BY <1>2, <1>7, <2>2, <2>4, <2>5
<1>8. Step.kind \in {"write", "payload", "set", "query", "read"}
  BY StepIs DEF Command
<1> QED
  BY <1>4, <1>5, <1>6, <1>7, <1>8

-----------------------------------------------------------------------------
(* A response, or a part of one, is received.                               *)

(* The lines so far, and what is still to come.                             *)
Arrived(lines, rest) ==
    /\ lines \in Seq(Lines) /\ rest \in Seq(Lines)
    /\ Elems(lines) \cup Elems(rest) = OnTheLine
    /\ Some(lines, "ready") \/ Some(rest, "ready") <=>
          Some(received, "ready") \/ Some(toHost, "ready")
    /\ Truthful(lines, modem.settings, Some(rest, "ready"))
    /\ Truthful(rest, modem.settings, FALSE)

LEMMA LinesArrive ==
    ASSUME ModemInv, NEW n \in 1 .. Len(toHost)
    PROVE  Arrived(received \o SubSeq(toHost, 1, n), SubSeq(toHost, n + 1, Len(toHost)))
<1> DEFINE a == SubSeq(toHost, 1, n)
           b == SubSeq(toHost, n + 1, Len(toHost))
<1>1. toHost \in Seq(Lines) /\ received \in Seq(Lines)
  BY DEF ModemInv, ModemTypes
<1>2. a \in Seq(Lines) /\ b \in Seq(Lines) /\ toHost = a \o b
  BY <1>1, SplitLines
<1> HIDE DEF a, b
<1>3. Parts(a \o b, a, b) /\ Parts(received \o a, received, a)
  BY <1>1, <1>2, PartsJoined
<1>4. /\ Truthful(a \o b, modem.settings, FALSE)
      /\ Truthful(received, modem.settings, Some(toHost, "ready"))
  BY <1>2 DEF ModemInv, AnswersTrue
<1>5. /\ Truthful(a, modem.settings, Some(b, "ready") \/ FALSE)
      /\ Truthful(b, modem.settings, FALSE)
  BY <1>2, <1>4, TruthfulParts
<1>6. Some(toHost, "ready") <=> Some(a, "ready") \/ Some(b, "ready")
  BY <1>2, <1>3 DEF Parts
<1>7. Truthful(a, modem.settings, Some(b, "ready"))
  BY <1>5 DEF Truthful
<1>8. Truthful(received, modem.settings, Some(a, "ready") \/ Some(b, "ready"))
  BY <1>4, <1>6 DEF Truthful
<1>9. Truthful(received \o a, modem.settings, Some(b, "ready"))
  BY <1>1, <1>2, <1>7, <1>8, TruthfulJoined
<1>10. Elems(received \o a) \cup Elems(b) = OnTheLine
  BY <1>2, <1>3 DEF Parts, OnTheLine
<1>11. Some(received \o a, "ready") \/ Some(b, "ready") <=>
          Some(received, "ready") \/ Some(toHost, "ready")
  BY <1>3, <1>6 DEF Parts
<1>12. received \o a \in Seq(Lines)
  BY <1>3 DEF Parts
<1>13. Arrived(received \o a, b)
  BY <1>2, <1>5, <1>9, <1>10, <1>11, <1>12 DEF Arrived
<1> QED
  BY <1>13 DEF a, b

LEMMA KeptForLater ==
    ASSUME ModemInv, NEW lines, Arrived(lines, toHost'), received' = lines, Active,
           UNCHANGED <<stale, modem, toModem, tx, todo, recovery>>
    PROVE  ModemInv'
<1>1. ModemTypes /\ OneJob /\ todo # "done"
  BY DEF ModemInv, ModemTypes, OneJob, Transaction, Active
<1>2. ModemTypes'
  BY <1>1 DEF ModemTypes, Arrived
<1>3. OneJob'
  BY <1>1 DEF OneJob, Active
<1>4. AnswersTrue'
  BY DEF AnswersTrue, Arrived
<1>5. Verified'
  BY DEF ModemInv, Verified, Arrived
<1>6. AllVerified'
  BY <1>1 DEF AllVerified
<1>7. InStep'
  <2>1. OnTheLine' \subseteq OnTheLine
    BY DEF OnTheLine, Arrived
  <2> QED
    BY <2>1, FewerLines DEF ModemInv
<1>8. CertificateKept'
  BY DEF ModemInv, CertificateKept
<1> QED
  BY <1>2, <1>3, <1>4, <1>5, <1>6, <1>7, <1>8 DEF ModemInv

(* After a complete response, the next step or the end of the transaction.  *)
LEMMA AdvancedKeeps ==
    ASSUME ModemInv, NEW lines, Arrived(lines, toHost'), received' = <<>>, Active,
           Inspect(lines) = "complete", Advanced,
           UNCHANGED <<stale, modem, toModem, recovery>>
    PROVE  ModemInv'
<1>1. ModemTypes /\ OneJob
  BY DEF ModemInv
<1>2. lines \in Seq(Lines) /\ toHost' \in Seq(Lines)
  BY DEF Arrived
<1>3. /\ Step \in Commands
      /\ tx.step \in Nat \ {0} /\ tx.step <= Len(Plan[tx.job]) /\ Len(Plan[tx.job]) \in Nat
      /\ tx.job \in {"install", "prepare"} /\ todo = tx.job
      /\ tx.job = "install" =>
            \/ tx.step = 1 /\ Step.kind = "write"
            \/ tx.step = 2 /\ Step.kind = "payload"
            \/ tx.step = 3 /\ Step.kind = "read"
      /\ DOMAIN Plan[tx.job] = 1 .. Len(Plan[tx.job])
  BY <1>1, StepIs, PlanIs DEF Command
<1>4. /\ ~Some(lines, "ready")
      /\ Step.kind = "write" => Some(lines, "prompt")
      /\ Step.kind = "payload" => Some(lines, "ok")
      /\ Step.kind = "query" => \E i \in DOMAIN lines : lines[i] = Value(Step.of, TRUE)
      /\ Step.kind = "read" => \E i \in DOMAIN lines : lines[i].kind = "value" /\ lines[i].right
  BY <1>1, <1>2, CompleteShows
<1>5. \/ /\ tx.step < Len(Plan[tx.job])
         /\ tx' = [tx EXCEPT !.step = @ + 1, !.waiting = FALSE] /\ todo' = todo
      \/ /\ tx.step = Len(Plan[tx.job])
         /\ tx' = NoTransaction /\ todo' = Following[tx.job]
  BY <1>3 DEF Advanced
<1>6. \/ /\ tx.step < Len(Plan[tx.job]) /\ tx' \in Transaction
         /\ tx'.job = tx.job /\ tx'.step = tx.step + 1 /\ ~tx'.waiting /\ todo' = todo
      \/ /\ tx.step = Len(Plan[tx.job]) /\ tx' \in Transaction
         /\ tx'.job = "none"
         /\ todo' = IF tx.job = "install" THEN "prepare" ELSE "done"
  <2>1. CASE /\ tx.step < Len(Plan[tx.job])
             /\ tx' = [tx EXCEPT !.step = @ + 1, !.waiting = FALSE] /\ todo' = todo
    <3>1. /\ tx \in [job : {"none", "install", "prepare"}, step : Nat, waiting : BOOLEAN]
          /\ tx.step + 1 \in Nat
      BY <1>1, <1>3 DEF ModemTypes, Transaction
    <3>2. /\ tx' \in Transaction
          /\ tx'.job = tx.job /\ tx'.step = tx.step + 1 /\ ~tx'.waiting
      BY <2>1, <3>1 DEF Transaction
    <3> QED
      BY <2>1, <3>2
  <2>2. CASE /\ tx.step = Len(Plan[tx.job])
             /\ tx' = NoTransaction /\ todo' = Following[tx.job]
    <3>1. tx' \in Transaction /\ tx'.job = "none"
      BY <2>2 DEF NoTransaction, Transaction
    <3>2. todo' = IF tx.job = "install" THEN "prepare" ELSE "done"
      BY <1>3, <2>2 DEF Following
    <3> QED
      BY <2>2, <3>1, <3>2
  <2> QED
    BY <1>5, <2>1, <2>2
<1>7. ModemTypes'
  BY <1>1, <1>2, <1>3, <1>6, NoLine DEF ModemTypes
<1>8. OneJob'
  BY <1>1, <1>3, <1>6 DEF OneJob, Active
<1>9. AnswersTrue'
  BY TruthfulNothing DEF AnswersTrue, Arrived
<1>10. tx.job = "prepare" =>
          \/ Some(toHost', "ready")
          \/ \A k \in DOMAIN Settings : 2 * k <= tx.step => Settings[k] \in modem.settings
  <2> SUFFICES ASSUME tx.job = "prepare", ~Some(toHost', "ready"),
                      NEW k \in DOMAIN Settings, 2 * k <= tx.step
               PROVE  Settings[k] \in modem.settings
    OBVIOUS
  <2>1. \A l \in DOMAIN Settings : 2 * l < tx.step => Settings[l] \in modem.settings
    BY <1>4 DEF ModemInv, Verified, Arrived
  <2>2. k \in Nat
    BY Words
  <2>3. CASE 2 * k < tx.step
    BY <2>1, <2>3
  <2>4. CASE 2 * k = tx.step
    <3>1. Step = Command("query", Settings[k])
      BY <1>1, <2>2, <2>4, PlanIs DEF Step
    <3>2. Step.kind = "query" /\ Step.of = Settings[k]
      BY <3>1 DEF Command
    <3>3. PICK i \in DOMAIN lines : lines[i] = Value(Settings[k], TRUE)
      BY <1>4, <3>2
    <3>4. Settings[k] \in Chosen /\ Settings[k] # "certificate"
      BY Words
    <3>5. /\ lines[i].kind = "value" /\ lines[i].of = Settings[k] /\ lines[i].right
      BY <3>3 DEF Value
    <3>6. Truthful(lines, modem.settings, Some(toHost', "ready"))
      BY DEF Arrived
    <3> QED
      BY <1>4, <3>4, <3>5, <3>6 DEF Truthful, Some
  <2> QED
    BY <1>3, <2>2, <2>3, <2>4
<1>11. Verified'
  <2> SUFFICES ASSUME tx'.job = "prepare", ~Some(toHost', "ready"),
                      NEW k \in DOMAIN Settings, 2 * k < tx'.step
               PROVE  Settings[k] \in modem.settings
    BY DEF Verified
  <2>1. tx.job = "prepare" /\ tx'.step = tx.step + 1
    BY <1>6
  <2>2. k \in Nat
    BY Words
  <2>3. 2 * k <= tx.step
    BY <1>3, <2>1, <2>2
  <2> QED
    BY <1>10, <2>1, <2>3
<1>12. AllVerified'
  <2> SUFFICES ASSUME todo' = "done", ~Some(toHost', "ready")
               PROVE  modem.settings = Chosen
    BY DEF AllVerified
  <2>1. tx.job = "prepare" /\ tx.step = 2 * Len(Settings)
    BY <1>3, <1>6, PlanIs
  <2>2. ASSUME NEW k \in DOMAIN Settings
        PROVE  Settings[k] \in modem.settings
    <3>1. 2 * k <= tx.step
      BY <2>1, Words
    <3> QED
      BY <1>10, <2>1, <3>1
  <2>3. Chosen \subseteq modem.settings
    BY <2>2 DEF Chosen, Elems
  <2> QED
    BY <1>1, <2>3 DEF ModemTypes
<1>13. \A line \in Elems(lines) \cup Elems(toHost') : line \in OnTheLine
  BY DEF Arrived
<1>14. OnTheLine' \subseteq OnTheLine
  <2>1. OnTheLine' = Elems(toHost')
    BY NoLine DEF OnTheLine
  <2> QED
    BY <1>13, <2>1
<1>15. \A i \in DOMAIN lines : lines[i] \in OnTheLine
  BY <1>13 DEF Elems
<1>16. InStep'
  <2> SUFFICES ASSUME tx'.job = "install", ~stale
               PROVE  InStep'
    BY DEF InStep
  <2>1. tx.job = "install" /\ tx'.step = tx.step + 1 /\ ~tx'.waiting
    BY <1>6
  <2>2. /\ tx.step = 1 => NoneIn("ok")
        /\ tx.step # 3 => NoneIn("value")
        /\ tx.step # 3 /\ ~NoneIn(Answer(tx.step)) => tx.waiting /\ toModem = <<>>
    BY <2>1 DEF ModemInv, InStep
  <2>3. \A kind : NoneIn(kind) => NoneIn(kind)'
    BY <1>14 DEF NoneIn
  <2>4. CASE tx.step = 1
    <3>1. Some(lines, "prompt")
      BY <1>3, <1>4, <2>1, <2>4
    <3>2. ~NoneIn("prompt")
      BY <1>15, <3>1 DEF Some, NoneIn
    <3>3. toModem' = <<>>
      BY <2>2, <2>4, <3>2 DEF Answer
    <3>4. OwnCommand'
      BY <3>3 DEF OwnCommand
    <3>5. NoneIn("ok")' /\ NoneIn("value")'
      BY <2>2, <2>3, <2>4
    <3>6. tx'.step = 2
      BY <2>1, <2>4
    <3>7. NoneIn(Answer(2))'
      BY <3>5 DEF Answer
    <3>8. \A line \in OnTheLine' : line.kind # "value"
      BY <3>5 DEF NoneIn
    <3> QED
      BY <3>4, <3>5, <3>6, <3>7, <3>8 DEF InStep
  <2>5. CASE tx.step = 2
    <3>1. Some(lines, "ok")
      BY <1>3, <1>4, <2>1, <2>5
    <3>2. ~NoneIn("ok")
      BY <1>15, <3>1 DEF Some, NoneIn
    <3>3. toModem' = <<>>
      BY <2>2, <2>5, <3>2 DEF Answer
    <3>4. OwnCommand'
      BY <3>3 DEF OwnCommand
    <3>5. NoneIn("value")'
      BY <2>2, <2>3, <2>5
    <3>6. tx'.step = 3
      BY <2>1, <2>5
    <3>7. \A line \in OnTheLine' : line.kind # "value"
      BY <3>5 DEF NoneIn
    <3> QED
      BY <3>4, <3>6, <3>7 DEF InStep
  <2>6. tx.step < 3
    BY <1>6, <2>1, PlanIs
  <2> QED
    BY <1>3, <2>1, <2>4, <2>5, <2>6
<1>17. CertificateKept'
  <2> SUFFICES ASSUME todo' # "install", ~stale
               PROVE  /\ modem.certificate = "good"
                      /\ \A i \in DOMAIN toModem : toModem[i].kind # "payload"
    BY DEF CertificateKept
  <2>1. CASE tx.job = "prepare"
    BY <1>3, <2>1 DEF ModemInv, CertificateKept
  <2>2. CASE tx.job = "install"
    <3>1. tx.step = 3 /\ Step.kind = "read"
      BY <1>3, <1>6, <2>2, PlanIs
    <3>2. PICK i \in DOMAIN lines : lines[i].kind = "value" /\ lines[i].right
      BY <1>4, <3>1
    <3>3. modem.certificate = "good"
      BY <1>15, <2>2, <3>2 DEF ModemInv, InStep
    <3>4. toModem # <<>> => toModem = <<Step>>
      BY <2>2 DEF ModemInv, InStep, OwnCommand
    <3>5. \A j \in DOMAIN toModem : toModem[j].kind # "payload"
      BY <3>1, <3>4, EmptySeq
    <3> QED
      BY <3>3, <3>5
  <2> QED
    BY <1>3, <2>1, <2>2
<1> QED
  BY <1>7, <1>8, <1>9, <1>11, <1>12, <1>16, <1>17 DEF ModemInv

LEMMA ReceiveResponseKeeps == ASSUME ModemInv, ReceiveResponse PROVE ModemInv'
<1>1. Active /\ UNCHANGED <<stale, modem, toModem, modemMishaps>>
  BY DEF ReceiveResponse
<1>2. PICK n \in 1 .. Len(toHost) :
         /\ toHost' = SubSeq(toHost, n + 1, Len(toHost))
         /\ LET lines == received \o SubSeq(toHost, 1, n) IN
            IF tx.waiting THEN ConsumeResponse(lines)
            ELSE received' = lines /\ UNCHANGED <<tx, todo, recovery>>
  BY DEF ReceiveResponse
<1> DEFINE lines == received \o SubSeq(toHost, 1, n)
<1>3. IF tx.waiting THEN ConsumeResponse(lines)
      ELSE received' = lines /\ UNCHANGED <<tx, todo, recovery>>
  BY <1>2
<1>4. Arrived(lines, toHost')
  BY <1>2, LinesArrive
<1> HIDE DEF lines
<1>5. CASE received' = lines /\ UNCHANGED <<tx, todo, recovery>>
  BY <1>1, <1>4, <1>5, KeptForLater
<1>6. CASE Inspect(lines) = "complete" /\ received' = <<>> /\ Advanced /\ UNCHANGED recovery
  BY <1>1, <1>4, <1>6, AdvancedKeeps
<1>7. CASE /\ received' = <<>> /\ tx' = NoTransaction /\ UNCHANGED todo
           /\ IF Inspect(lines) = "module_reset" THEN ModuleReady
              ELSE Quarantine(CommandModeKnown(Inspect(lines)))
  <2>1. recovery' \in RecoveryStates
    BY <1>7 DEF ModuleReady, Quarantine, RecoveryStates
  <2>2. toHost' \in Seq(Lines) /\ Truthful(toHost', modem.settings, FALSE)
    BY <1>4 DEF Arrived
  <2> QED
    BY <1>1, <1>7, <2>1, <2>2, GivenUpKeeps
<1> QED
  BY <1>3, <1>5, <1>6, <1>7 DEF ConsumeResponse

-----------------------------------------------------------------------------
(* The theorem                                                              *)

LEMMA ModemInvInitially == ModemInit => ModemInv
<1> SUFFICES ASSUME ModemInit
             PROVE  ModemInv
  OBVIOUS
<1>1. /\ modem = [certificate |-> "none", settings |-> {}, body |-> FALSE]
      /\ toModem = <<>> /\ toHost = <<>> /\ received = <<>>
      /\ tx = [job |-> "none", step |-> 0, waiting |-> FALSE]
      /\ todo = "install" /\ stale = FALSE /\ recovery = "idle"
  BY DEF ModemInit, ModemFresh, NoTransaction, RecoveryInit
<1>2. ModemTypes
  <2>1. <<>> \in Seq(Commands) /\ <<>> \in Seq(Lines)
    BY EmptySeq
  <2> QED
    BY <1>1, <2>1 DEF ModemTypes, Transaction, RecoveryStates
<1>3. AnswersTrue
  BY <1>1, TruthfulNothing DEF AnswersTrue
<1> QED
  BY <1>1, <1>2, <1>3
     DEF ModemInv, OneJob, Active, Verified, AllVerified, InStep, CertificateKept

LEMMA ModemInvKept == ModemInv /\ [ModemNext]_modemVars => ModemInv'
<1> SUFFICES ASSUME ModemInv, [ModemNext]_modemVars
             PROVE  ModemInv'
  OBVIOUS
<1>1. CASE ModemHost
  <2>1. CASE StartTransaction
    BY <2>1, StartKeeps
  <2>2. CASE SendStep
    BY <2>2, SendStepKeeps
  <2>3. CASE SendRecovery
    BY <2>3, SendRecoveryKeeps
  <2>4. CASE ReceiveResponse
    BY <2>4, ReceiveResponseKeeps
  <2>5. CASE ReceiveLine
    BY <2>5, ReceiveLineKeeps
  <2>6. CASE TimeOut
    BY <2>6, TimeOutKeeps
  <2>7. CASE ReportBodyFinished
    BY <2>7, BodyFinishedKeeps
  <2>8. CASE RecoveryTaken
    BY <2>8, RecoveryTakenKeeps
  <2> QED
    BY <1>1, <2>1, <2>2, <2>3, <2>4, <2>5, <2>6, <2>7, <2>8 DEF ModemHost
<1>2. CASE SetUpAgain
  BY <1>2, SetUpAgainKeeps
<1>3. CASE ModemWorks
  BY <1>3, ModemWorksKeeps
<1>4. CASE BodyAbandoned
  BY <1>4, BodyAbandonedKeeps
<1>5. CASE ModemRestarts
  BY <1>5, ModemRestartsKeeps
<1>6. CASE LineLost
  BY <1>6, LineLostKeeps
<1>7. CASE UNCHANGED modemVars
  <2>1. UNCHANGED <<modem, toModem, toHost, received, tx, todo, stale, recovery>>
    BY <1>7 DEF modemVars
  <2>2. ModemTypes' /\ OneJob' /\ Verified' /\ AllVerified' /\ CertificateKept'
    BY <2>1 DEF ModemInv, ModemTypes, OneJob, Active, Verified, AllVerified, CertificateKept
  <2>3. AnswersTrue'
    BY <2>1, AnswersStay
  <2>4. InStep'
    <3>1. OnTheLine' \subseteq OnTheLine
      BY <2>1 DEF OnTheLine
    <3> QED
      BY <2>1, <3>1, FewerLines DEF ModemInv
  <2> QED
    BY <2>2, <2>3, <2>4 DEF ModemInv
<1> QED
  BY <1>1, <1>2, <1>3, <1>4, <1>5, <1>6, <1>7 DEF ModemNext

LEMMA ConfiguredFollows == ModemInv => ConfiguredWhenDone
<1> SUFFICES ASSUME ModemInv
             PROVE  ConfiguredWhenDone
  OBVIOUS
<1>1. ModemTypeOK
  BY Words DEF ModemInv, ModemTypes, OneJob, ModemTypeOK
<1> QED
  BY <1>1, Words DEF ModemInv, CertificateKept, AllVerified, ConfiguredWhenDone

(* When the transactions report success, the modem holds every setting, or  *)
(* the report of a restart is on its way, and the certificate, if the       *)
(* channel was quiet when its installation began: whatever is lost, late or *)
(* refused, and however often the modem restarts.                           *)
THEOREM ModemIsConfigured == ModemSpec => []ConfiguredWhenDone
<1>1. ModemInit => ModemInv
  BY ModemInvInitially
<1>2. ModemInv /\ [ModemNext]_modemVars => ModemInv'
  BY ModemInvKept
<1>3. ModemInv => ConfiguredWhenDone
  BY ConfiguredFollows
<1> QED
  BY <1>1, <1>2, <1>3, PTL DEF ModemSpec

=============================================================================
