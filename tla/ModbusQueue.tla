---------------------------- MODULE ModbusQueue ----------------------------
(* The request queue of Src/Bus/ModbusQueue.c: submitters put requests by   *)
(* priority, one worker calls ProcessOne in a loop and executes them on the *)
(* bus with ModbusMaster_Execute, consumers collect the results.  Every     *)
(* call to the RTOS queues is a step of its own.                            *)
EXTENDS ModbusMaster, FiniteSets

CONSTANTS
    Requests,       \* request identifiers, used again once their result is taken
    TopPriority,    \* 3 in the code
    RequestDepth,   \* entries of each request queue (4 in the code)
    ResultDepth,    \* entries of the result queue (8 in the code)
    Retries         \* the retries its submitter asks for, for each request

Priorities == 0 .. TopPriority

ASSUME QueueAssumption ==
    /\ TopPriority \in Nat
    /\ RequestDepth \in Nat \ {0}
    /\ ResultDepth \in Nat \ {0}
    /\ Retries \in [Requests -> 0 .. 254]

VARIABLES
    requests,       \* bus->requests, one queue for each priority
    results,        \* bus->results
    pending,        \* bus->pending and have_pending
    worker,         \* where ProcessOne is
    active          \* history: submitted, result not taken yet

queueVars == <<requests, results, pending, worker, active>>
modbusVars == <<masterVars, queueVars>>

Result == [id : Requests, attempts : 1 .. 255, status : Statuses]

NoJob == [at |-> "idle"]
Scan(p) == [at |-> "scan", prio |-> p]
Execute(id, attempt) == [at |-> "execute", id |-> id, attempt |-> attempt]
NoResult == <<>>

ModbusInit ==
    /\ MasterInit
    /\ requests = [p \in Priorities |-> <<>>]
    /\ results = <<>>
    /\ pending = NoResult
    /\ worker = NoJob
    /\ active = {}

-----------------------------------------------------------------------------
(* ModbusQueue_Submit; a full queue answers BUSY and changes nothing.       *)
Submit(id, p) ==
    /\ id \notin active
    /\ Len(requests[p]) < RequestDepth
    /\ requests' = [requests EXCEPT ![p] = Append(@, id)]
    /\ active' = active \cup {id}
    /\ UNCHANGED <<results, pending, worker>>

GetResult ==
    /\ results # <<>>
    /\ results' = Tail(results)
    /\ active' = active \ {Head(results).id}
    /\ UNCHANGED <<requests, pending, worker>>

(* osMessageQueueGetSpace: a request is taken only when its result will     *)
(* find room.                                                               *)
Room(queue) == Len(queue) < ResultDepth

(* ProcessOne begins: a result left over is put first, and without room for *)
(* another one no request is taken.                                         *)
BeginProcess ==
    /\ worker.at = "idle"
    /\ pending # NoResult => Len(results) < ResultDepth
    /\ results' = results \o pending
    /\ pending' = NoResult
    /\ worker' = IF Room(results') THEN Scan(TopPriority) ELSE NoJob
    /\ UNCHANGED <<requests, active>>

(* Mutant: only the highest priority is looked at.                          *)
HighestOnly(p) == NoJob

Lower(p) == IF p = 0 THEN NoJob ELSE Scan(p - 1)

(* One osMessageQueueGet of the scan from the highest priority down.        *)
ScanOne ==
    /\ worker.at = "scan"
    /\ LET p == worker.prio IN
       \/ /\ requests[p] # <<>>
          /\ worker' = Execute(Head(requests[p]), 1)
          /\ requests' = [requests EXCEPT ![p] = Tail(@)]
          /\ BeginTry
       \/ /\ requests[p] = <<>>
          /\ worker' = Lower(p)
          /\ UNCHANGED <<requests, masterVars>>
    /\ UNCHANGED <<results, pending, active>>

Retryable(status) == status \in {"TIMEOUT", "CRC", "TRANSPORT"}

TriesAgain(status) == Retryable(status) /\ worker.attempt <= Retries[worker.id]

NextAttempt(n) == n + 1

Retry ==
    /\ worker.at = "execute"
    /\ xact.at = "done"
    /\ TriesAgain(xact.status)
    /\ worker' = [worker EXCEPT !.attempt = NextAttempt(@)]
    /\ BeginTry
    /\ UNCHANGED <<requests, results, pending, active>>

(* Mutant: a request that got no answer gets no result.                     *)
OutcomeOfAnswer(result) == IF result.status = "TIMEOUT" THEN <<>> ELSE <<result>>

Outcome(result) == <<result>>

(* The result is put, or kept in pending when there is no room.             *)
Finish ==
    /\ worker.at = "execute"
    /\ xact.at = "done"
    /\ ~TriesAgain(xact.status)
    /\ LET result == [id |-> worker.id, attempts |-> worker.attempt,
                      status |-> xact.status]
       IN IF Len(results) < ResultDepth
          THEN results' = results \o Outcome(result) /\ UNCHANGED pending
          ELSE pending' = Outcome(result) /\ UNCHANGED results
    /\ worker' = NoJob
    /\ xact' = XactIdle
    /\ UNCHANGED <<requests, active, frames, feeder, wire, noise>>

Submits ==
    \E id \in Requests, p \in Priorities : Submit(id, p)

WorkerStep ==
    \/ BeginProcess /\ UNCHANGED masterVars
    \/ ScanOne
    \/ Retry
    \/ Finish

ModbusNext ==
    \/ Submits /\ UNCHANGED masterVars
    \/ GetResult /\ UNCHANGED masterVars
    \/ WorkerStep
    \/ (MasterStep \/ LineStep) /\ UNCHANGED queueVars

ModbusSpec == ModbusInit /\ [][ModbusNext]_modbusVars

(* The worker's task runs, consumers collect, the line delivers.            *)
ModbusFairness ==
    /\ WF_modbusVars(WorkerStep \/ (MasterStep /\ UNCHANGED queueVars))
    /\ WF_modbusVars(GetResult /\ UNCHANGED masterVars)
    /\ WF_modbusVars((LineDelivers \/ LineFeeds) /\ UNCHANGED queueVars)

-----------------------------------------------------------------------------
ModbusTypeOK ==
    /\ MasterTypeOK
    /\ requests \in [Priorities -> Seq(Requests)]
    /\ \A p \in Priorities : Len(requests[p]) <= RequestDepth
    /\ results \in Seq(Result) /\ Len(results) <= ResultDepth
    /\ pending \in Seq(Result) /\ Len(pending) <= 1
    /\ \/ worker \in {NoJob} \cup {Scan(p) : p \in Priorities}
       \/ worker.id \in Requests /\ worker = Execute(worker.id, worker.attempt)
                                 /\ worker.attempt \in 1 .. 255
    /\ active \subseteq Requests

(* Where a request is: in a queue, at which index, or with the worker.      *)
Places(id) ==
    {<<"requests", q[1], q[2]>> : q \in
        {q \in Priorities \X (1 .. RequestDepth) :
            q[2] \in DOMAIN requests[q[1]] /\ requests[q[1]][q[2]] = id}}
    \cup {<<"worker", 0, 0>> : w \in {w \in {worker} : w.at = "execute" /\ w.id = id}}
    \cup {<<"pending", 0, i>> : i \in {i \in DOMAIN pending : pending[i].id = id}}
    \cup {<<"results", 0, i>> : i \in {i \in DOMAIN results : results[i].id = id}}

(* A submitted request is in exactly one place until its result is taken:   *)
(* no request and no result is lost, overwritten or delivered twice.        *)
EveryRequestOnce ==
    \A id \in Requests : Cardinality(Places(id)) = IF id \in active THEN 1 ELSE 0

(* With one worker the room it saw before it took a request is still there  *)
(* when the result is put, whatever submitters and consumers did meanwhile, *)
(* so that pending is never needed.                                         *)
ResultFindsRoom == pending = NoResult

(* A result that says the bus failed used up all the tries it was allowed,  *)
(* and no result more than that.                                            *)
FailureUsesAllTries ==
    \A i \in DOMAIN results :
        LET r == results[i] IN
        /\ r.attempts <= Retries[r.id] + 1
        /\ Retryable(r.status) => r.attempts = Retries[r.id] + 1

(* What the submitters and consumers of the bus queue rely on.              *)
ModbusSafe ==
    ModbusTypeOK /\ EveryRequestOnce /\ ResultFindsRoom /\ FailureUsesAllTries

(* A request of the highest priority gets its result, whatever the others   *)
(* submit and whatever the slave does.                                      *)
HighestServed ==
    \A id \in Requests :
        (\E i \in DOMAIN requests[TopPriority] : requests[TopPriority][i] = id)
            ~> (id \notin active)

(* Any request does unless higher priorities keep coming.                   *)
LowServedUnlessFlooded ==
    <>[](requests[TopPriority] = <<>>)
        => \A id \in Requests : []<>(id \notin active)

(* The priorities are served as the scan from the highest down promises.    *)
RequestsServed == HighestServed /\ LowServedUnlessFlooded
=============================================================================
