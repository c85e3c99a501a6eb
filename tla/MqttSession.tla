---------------------------- MODULE MqttSession ----------------------------
(* The QoS 1 and QoS 2 exchanges of Src/MQTT: the tables of                  *)
(* core_mqtt_state.c, the handlers of core_mqtt.c that fill them, and an     *)
(* application that reconnects and resends as core_mqtt_state.h shows.  The  *)
(* connection breaks at any time and loses what it carries; the broker keeps *)
(* the session or forgets it.                                                *)
(*                                                                           *)
(* The application is one thread; the transport never reports the failure of *)
(* a send that reached the broker; a send that fails leaves part of a packet *)
(* in the stream, so the connection is then given up.                        *)
EXTENDS Integers, Sequences, FiniteSets

CONSTANTS
    MaxId,          \* packet identifiers are 1 .. MaxId (65535)
    OutMax,         \* outgoingPublishRecordMaxCount
    InMax,          \* incomingPublishRecordMaxCount
    Budgets         \* bound: how many messages go out and come in, as pairs

ASSUME MqttAssumption ==
    /\ MaxId \in Nat \ {0} /\ OutMax \in Nat \ {0} /\ InMax \in Nat \ {0}
    /\ Budgets \subseteq Nat \X Nat

VARIABLES
    outgoing,       \* outgoingPublishRecords
    incoming,       \* incomingPublishRecords
    app,            \* the application: its next identifier, loop and messages
    link,           \* the connection and the packets on their way
    broker,         \* the broker's side of the session
    budget,         \* messages still to go out and to come in
    seen            \* history: what became of each message

mqttVars == <<outgoing, incoming, app, link, broker, budget, seen>>

-----------------------------------------------------------------------------
(* The tables. *)
Ids == 1 .. MaxId
NoRecord == [id |-> 0, qos |-> 0, state |-> "Null"]
Record(id, qos, state) == [id |-> id, qos |-> qos, state |-> state]
Cleared(n) == [i \in 1 .. n |-> NoRecord]
IdsOf(table) == {table[i].id : i \in DOMAIN table} \ {0}
RecordOf(table, id) == table[CHOOSE i \in DOMAIN table : table[i].id = id]
(* The elements of a sequence at some of its places, in their order.        *)
Picked(s, places) ==
    [k \in 1 .. Cardinality(places) |->
        s[CHOOSE i \in places : Cardinality({j \in places : j <= i}) = k]]
Used(table) == Picked(table, {i \in DOMAIN table : table[i].id # 0})

WithState(table, id, state) ==
    [i \in DOMAIN table |-> IF table[i].id = id THEN [table[i] EXCEPT !.state = state]
                                                ELSE table[i]]
Without(table, id) ==
    [i \in DOMAIN table |-> IF table[i].id = id THEN NoRecord ELSE table[i]]

(* Mutant: the table is never compacted.                                    *)
NotCompacted(table) == table

(* compactRecords keeps the order of the records.                           *)
Compacted(table) ==
    LET used == Used(table)
    IN [i \in DOMAIN table |-> IF i <= Len(used) THEN used[i] ELSE NoRecord]

(* addRecord takes the slot behind the last used one.  The table is         *)
(* compacted even when the identifier is found in it.                       *)
Added(table, record) ==
    LET t == IF table[Len(table)].id # 0 THEN Compacted(table) ELSE table
        used == {0} \cup {i \in DOMAIN t : t[i].id # 0}
        last == CHOOSE i \in used : \A j \in used : j <= i
    IN CASE record.id \in IdsOf(t) -> [status |-> "StateCollision", table |-> t]
         [] record.id \notin IdsOf(t) /\ last = Len(t) -> [status |-> "NoMemory", table |-> t]
         [] OTHER -> [status |-> "Success",
                      table |-> [i \in DOMAIN t |-> IF i = last + 1 THEN record ELSE t[i]]]

(* MQTT_CalculateStatePublish and MQTT_CalculateStateAck.                   *)
SentState(qos) == IF qos = 1 THEN "PubAckPending" ELSE "PubRecPending"
ReceivedState(qos) == IF qos = 1 THEN "PubAckSend" ELSE "PubRecSend"
AckState(type, sends, qos) ==
    CASE (qos = 1) # (type = "PUBACK") -> "Null"
      [] type = "PUBREC" /\ qos = 2 -> IF sends THEN "PubRelPending" ELSE "PubRelSend"
      [] type = "PUBREL" /\ qos = 2 -> IF sends THEN "PubCompPending" ELSE "PubCompSend"
      [] OTHER -> "PublishDone"

(* Mutant: a PUBREL that comes again is refused.                            *)
FirstTransitions ==
    {<<"PubAckSend", "PublishDone">>, <<"PubAckPending", "PublishDone">>,
     <<"PubRecSend", "PubRelPending">>, <<"PubRelPending", "PubCompSend">>,
     <<"PubRelPending", "PubRelPending">>, <<"PubCompSend", "PublishDone">>,
     <<"PubRecPending", "PubRelSend">>, <<"PubRelSend", "PubCompPending">>,
     <<"PubCompPending", "PublishDone">>, <<"PubCompPending", "PubCompPending">>}

(* validateTransitionAck. *)
AckTransitions ==
    {<<"PubAckSend", "PublishDone">>, <<"PubAckPending", "PublishDone">>,
     <<"PubRecSend", "PubRelPending">>, <<"PubRelPending", "PubCompSend">>,
     <<"PubRelPending", "PubRelPending">>, <<"PubCompSend", "PublishDone">>,
     <<"PubCompSend", "PubCompSend">>, <<"PubRecPending", "PubRelSend">>,
     <<"PubRelSend", "PubCompPending">>, <<"PubCompPending", "PublishDone">>,
     <<"PubCompPending", "PubCompPending">>}

(* updateStateAck: a record whose PUBREC arrived moves to the end, so that  *)
(* the PUBRELs are resent in the order of the PUBRECs.                      *)
Moved(table, id, from, to) ==
    CASE from = to -> [status |-> "Success", table |-> table]
      [] from # to /\ to = "PublishDone" -> [status |-> "Success", table |-> Without(table, id)]
      [] from # to /\ to = "PubRelSend" -> Added(Without(table, id), Record(id, 2, to))
      [] OTHER -> [status |-> "Success", table |-> WithState(table, id, to)]

(* MQTT_UpdateStateAck on the table that the packet is about.               *)
Updated(table, id, type, sends) ==
    IF id \notin IdsOf(table)
    THEN [status |-> "BadResponse", table |-> table, state |-> "Null"]
    ELSE LET r == RecordOf(table, id)
             to == AckState(type, sends, r.qos)
             m == Moved(table, id, r.state, to)
         IN IF <<r.state, to>> \in AckTransitions
            THEN [status |-> m.status, table |-> m.table, state |-> to]
            ELSE [status |-> "IllegalState", table |-> table, state |-> "Null"]

(* getAckTypeToSend *)
AckToSend(state) ==
    CASE state = "PubAckSend" -> "PUBACK"
      [] state = "PubRecSend" -> "PUBREC"
      [] state = "PubRelSend" -> "PUBREL"
      [] state = "PubCompSend" -> "PUBCOMP"
      [] OTHER -> "none"

(* validateTransitionPublish for what is sent, and MQTT_UpdateStatePublish  *)
(* behind a send: a publish that is sent again keeps its state.             *)
PublishTransitions ==
    {<<"PublishSend", "PubAckPending">>, <<"PublishSend", "PubRecPending">>,
     <<"PubAckPending", "PubAckPending">>, <<"PubRecPending", "PubRecPending">>}
AfterPublish(table, id, qos) ==
    IF <<RecordOf(table, id).state, SentState(qos)>> \in PublishTransitions
    THEN WithState(table, id, SentState(qos)) ELSE table

(* stateSelect, and what MQTT_PublishToResend and MQTT_PubrelToResend look  *)
(* for with it.                                                             *)
Selected(table, from, states) ==
    LET found == {i \in from .. Len(table) : table[i].state \in states}
    IN IF found = {} THEN 0 ELSE CHOOSE f \in found : \A g \in found : f <= g
PublishStates == {"PublishSend", "PubAckPending", "PubRecPending"}
RelStates == {"PubRelSend", "PubCompPending"}

-----------------------------------------------------------------------------
(* Packets, the connection and the history. *)
Packet(type, id) == [type |-> type, id |-> id, qos |-> 0, msg |-> 0]
PublishPacket(id, m) == [type |-> "PUBLISH", id |-> id, qos |-> m.qos, msg |-> m.msg]
NoLink == [up |-> FALSE, toBroker |-> <<>>, toClient |-> <<>>]
Sending(l, packet) == [l EXCEPT !.toBroker = Append(@, packet)]
NoMessage == [qos |-> 0, msg |-> 0]
FreshSession == [session |-> TRUE, held |-> {}, flight |-> <<>>]

MqttInit ==
    /\ outgoing = Cleared(OutMax)
    /\ incoming = Cleared(InMax)
    /\ app = [nextId |-> 1, stage |-> "run", cursor |-> 1, kept |-> [id \in Ids |-> NoMessage]]
    /\ link = NoLink
    /\ broker = [FreshSession EXCEPT !.session = FALSE]
    /\ \E b \in Budgets : budget = [out |-> b[1], in |-> b[2]]
    /\ seen = [delivered |-> {}, got |-> {}, finished |-> {}, acked |-> {}, repeated |-> FALSE,
               recs |-> <<>>, sent |-> {}, mixed |-> FALSE]

-----------------------------------------------------------------------------
(* MQTT_Publish behind MQTT_ReserveState: the packet is sent and the record *)
(* follows, or the send fails and the record stays as it is.                *)
PublishSent(table, id, m) ==
    \/ /\ link.up
       /\ link' = Sending(link, PublishPacket(id, m))
       /\ outgoing' = AfterPublish(table, id, m.qos)
       /\ seen' = [seen EXCEPT !.sent = @ \cup {id}]
    \/ /\ link' = NoLink
       /\ outgoing' = table
       /\ UNCHANGED seen

(* MQTT_GetPacketId and MQTT_Publish of a new message, which the            *)
(* application keeps for MQTT_PublishToResend.  With the identifier still   *)
(* in use or no record free nothing is sent.                                *)
Publish(qos) ==
    /\ app.stage = "run" /\ budget.out > 0
    /\ budget' = [budget EXCEPT !.out = @ - 1]
    /\ LET id == app.nextId
           m == [qos |-> qos, msg |-> budget.out]
           r == Added(outgoing, Record(id, qos, "PublishSend"))
           taken == r.status = "Success"
       IN /\ app' = [app EXCEPT !.nextId = (id % MaxId) + 1,
                                !.kept[id] = IF taken THEN m ELSE @]
          /\ \/ taken /\ PublishSent(r.table, id, m)
             \/ ~taken /\ outgoing' = r.table /\ UNCHANGED <<link, seen>>
    /\ UNCHANGED <<incoming, broker>>

(* One turn of the loop over MQTT_PublishToResend: MQTT_Publish with DUP    *)
(* takes the collision for success.  The application gives up at a failure. *)
Resend ==
    /\ app.stage = "resend"
    /\ LET i == Selected(outgoing, app.cursor, PublishStates)
           id == outgoing[i].id
           r == Added(outgoing, Record(id, outgoing[i].qos, "PublishSend"))
       IN \/ /\ i = 0
             /\ app' = [app EXCEPT !.stage = "run"]
             /\ UNCHANGED <<outgoing, link, seen>>
          \/ /\ i # 0
             /\ PublishSent(r.table, id, app.kept[id])
             /\ app' = [app EXCEPT !.cursor = i + 1,
                                   !.stage = IF link'.up THEN @ ELSE "run"]
    /\ UNCHANGED <<incoming, broker, budget>>

-----------------------------------------------------------------------------
(* MQTT_ProcessLoop. *)

(* sendPublishAcks: the acknowledgement is sent and the record follows, or  *)
(* the send fails.  Delivered is how the packet before left the tables.     *)
AckSent(out, in, id, state) ==
    LET type == AckToSend(state)
        rest == [link EXCEPT !.toClient = Tail(@)]
    IN \/ /\ type = "none"
          /\ link' = rest
          /\ outgoing' = out /\ incoming' = in
       \/ /\ type # "none"
          /\ link' = Sending(rest, Packet(type, id))
          /\ outgoing' = IF type = "PUBREL" THEN Updated(out, id, type, TRUE).table ELSE out
          /\ incoming' = IF type # "PUBREL" THEN Updated(in, id, type, TRUE).table ELSE in
       \/ /\ type # "none"
          /\ link' = NoLink
          /\ outgoing' = out /\ incoming' = in

Processing(type) ==
    /\ app.stage = "run" /\ link.up
    /\ link.toClient # <<>> /\ Head(link.toClient).type \in type
    /\ UNCHANGED <<broker, budget>>

(* handleIncomingPublish: a duplicate is acknowledged again and not         *)
(* delivered; without a free record the packet is dropped.                  *)
ReceivePublish ==
    /\ Processing({"PUBLISH"})
    /\ LET p == Head(link.toClient)
           r == Added(incoming, Record(p.id, p.qos, ReceivedState(p.qos)))
           new == r.status = "Success"
       IN /\ AckSent(outgoing, r.table, p.id,
                     IF r.status = "NoMemory" THEN "Null" ELSE ReceivedState(p.qos))
          /\ seen' = [seen EXCEPT !.got = IF new THEN @ \cup {p.msg} ELSE @,
                                  !.repeated = @ \/ (new /\ p.qos = 2 /\ p.msg \in seen.got)]
    /\ UNCHANGED app

(* handlePublishAcks; the application forgets a message that is done.       *)
ReceiveAck ==
    /\ Processing({"PUBACK", "PUBREC", "PUBREL", "PUBCOMP"})
    /\ LET p == Head(link.toClient)
           about == IF p.type = "PUBREL" THEN incoming ELSE outgoing
           u == Updated(about, p.id, p.type, FALSE)
           done == p.type # "PUBREL" /\ u.state = "PublishDone"
       IN /\ AckSent(IF p.type = "PUBREL" THEN outgoing ELSE u.table,
                     IF p.type = "PUBREL" THEN u.table ELSE incoming, p.id,
                     IF u.status = "Success" THEN u.state ELSE "Null")
          /\ app' = [app EXCEPT !.kept[p.id] = IF done THEN NoMessage ELSE @]
          /\ seen' = [seen EXCEPT
                !.finished = IF done THEN @ \cup {app.kept[p.id].msg} ELSE @,
                !.sent = IF done THEN @ \ {p.id} ELSE @,
                !.recs = CASE u.state = "PubRelSend" -> Append(@, p.id)
                           [] done -> Picked(@, {k \in DOMAIN @ : @[k] # p.id})
                           [] OTHER -> @]

-----------------------------------------------------------------------------
(* MQTT_Connect. *)

(* What the broker sends again when the session goes on.                    *)
Again == [k \in DOMAIN broker.flight |->
            LET f == broker.flight[k]
            IN IF f.state = "sent" THEN PublishPacket(f.id, f) ELSE Packet("PUBREL", f.id)]

(* handleSessionResumption with a session: the PUBRELs of the table go out  *)
(* in its order; all but the first n fail.                                  *)
Resumed(n) ==
    LET rels == Picked(outgoing, {i \in DOMAIN outgoing : outgoing[i].state \in RelStates})
        sent == {rels[k].id : k \in 1 .. n}
    IN /\ n <= Len(rels)
       /\ outgoing' = [i \in DOMAIN outgoing |->
                         IF outgoing[i].id \in sent
                         THEN [outgoing[i] EXCEPT !.state = "PubCompPending"] ELSE outgoing[i]]
       /\ link' = IF n < Len(rels) THEN NoLink
                  ELSE [up |-> TRUE, toClient |-> Again,
                        toBroker |-> [k \in DOMAIN rels |-> Packet("PUBREL", rels[k].id)]]
       /\ app' = [app EXCEPT !.stage = IF n < Len(rels) THEN "run" ELSE "resend", !.cursor = 1]
       /\ seen' = [seen EXCEPT !.sent = sent]
       /\ UNCHANGED <<incoming, broker>>

(* A new session: the records are cleared, the application forgets its      *)
(* messages.                                                                *)
Started ==
    /\ outgoing' = Cleared(OutMax) /\ incoming' = Cleared(InMax)
    /\ app' = [app EXCEPT !.stage = "run", !.kept = [id \in Ids |-> NoMessage]]
    /\ link' = [NoLink EXCEPT !.up = TRUE]
    /\ broker' = FreshSession
    /\ seen' = [seen EXCEPT !.sent = {}, !.recs = <<>>]

(* The CONNACK is lost: the broker has a session already at the next try.   *)
ConnackLost ==
    /\ ~broker.session
    /\ broker' = FreshSession
    /\ seen' = [seen EXCEPT !.mixed = @ \/ outgoing # Cleared(OutMax) \/ incoming # Cleared(InMax)]
    /\ UNCHANGED <<outgoing, incoming, app, link>>

Connect ==
    /\ ~link.up
    /\ \/ broker.session /\ \E n \in 0 .. OutMax : Resumed(n)
       \/ ~broker.session /\ Started
       \/ ConnackLost
    /\ UNCHANGED budget

-----------------------------------------------------------------------------
(* The network and the broker. *)
Drop ==
    /\ link.up
    /\ link' = NoLink
    /\ UNCHANGED <<outgoing, incoming, app, broker, budget, seen>>

Forget ==
    /\ ~link.up /\ broker.session
    /\ broker' = [FreshSession EXCEPT !.session = FALSE]
    /\ UNCHANGED <<outgoing, incoming, app, link, budget, seen>>

FlightWithout(id) ==
    Picked(broker.flight, {k \in DOMAIN broker.flight : broker.flight[k].id # id})
Answering(packet) == [link EXCEPT !.toBroker = Tail(@), !.toClient = Append(@, packet)]

BrokerReceives ==
    /\ link.up /\ link.toBroker # <<>>
    /\ LET p == Head(link.toBroker)
           again == p.qos = 2 /\ p.id \in broker.held
           done == {broker.flight[k].msg : k \in {j \in DOMAIN broker.flight :
                                                    broker.flight[j].id = p.id}}
       IN \/ /\ p.type = "PUBLISH"
             /\ link' = Answering(Packet(IF p.qos = 1 THEN "PUBACK" ELSE "PUBREC", p.id))
             /\ broker' = [broker EXCEPT !.held = IF p.qos = 2 THEN @ \cup {p.id} ELSE @]
             /\ seen' = [seen EXCEPT
                    !.delivered = IF again THEN @ ELSE @ \cup {p.msg},
                    !.repeated = @ \/ (p.qos = 2 /\ ~again /\ p.msg \in seen.delivered)]
          \/ /\ p.type = "PUBREL"
             /\ link' = Answering(Packet("PUBCOMP", p.id))
             /\ broker' = [broker EXCEPT !.held = @ \ {p.id}]
             /\ UNCHANGED seen
          \/ /\ p.type = "PUBREC"
             /\ link' = Answering(Packet("PUBREL", p.id))
             /\ broker' = [broker EXCEPT !.flight = [k \in DOMAIN @ |->
                             IF @[k].id = p.id THEN [@[k] EXCEPT !.state = "released"] ELSE @[k]]]
             /\ UNCHANGED seen
          \/ /\ p.type \in {"PUBACK", "PUBCOMP"}
             /\ link' = [link EXCEPT !.toBroker = Tail(@)]
             /\ broker' = [broker EXCEPT !.flight = FlightWithout(p.id)]
             /\ seen' = [seen EXCEPT !.acked = @ \cup done]
    /\ UNCHANGED <<outgoing, incoming, app, budget>>

BrokerPublishes(qos) ==
    /\ link.up /\ budget.in > 0
    /\ budget' = [budget EXCEPT !.in = @ - 1]
    /\ \E id \in Ids :
         /\ \A k \in DOMAIN broker.flight : broker.flight[k].id # id
         /\ \A lower \in 1 .. id - 1 : \E k \in DOMAIN broker.flight : broker.flight[k].id = lower
         /\ LET m == [id |-> id, qos |-> qos, msg |-> budget.in, state |-> "sent"]
            IN /\ broker' = [broker EXCEPT !.flight = Append(@, m)]
               /\ link' = [link EXCEPT !.toClient = Append(@, PublishPacket(id, m))]
    /\ UNCHANGED <<outgoing, incoming, app, seen>>

MqttNext ==
    \/ \E qos \in {1, 2} : Publish(qos) \/ BrokerPublishes(qos)
    \/ Resend
    \/ ReceivePublish
    \/ ReceiveAck
    \/ Connect
    \/ Drop
    \/ Forget
    \/ BrokerReceives

MqttSpec == MqttInit /\ [][MqttNext]_mqttVars

-----------------------------------------------------------------------------
MqttTypeOK ==
    /\ \A i \in DOMAIN outgoing : outgoing[i] = NoRecord \/
            (outgoing[i].id \in Ids /\ outgoing[i].state \in PublishStates \cup RelStates)
    /\ \A i \in DOMAIN incoming : incoming[i] = NoRecord \/
            (incoming[i].id \in Ids /\
             incoming[i].state \in {"PubAckSend", "PubRecSend", "PubRelPending", "PubCompSend"})
    /\ DOMAIN outgoing = 1 .. OutMax /\ DOMAIN incoming = 1 .. InMax
    /\ app.stage \in {"run", "resend"} /\ app.nextId \in Ids

(* No identifier has two records, and the records in use are those of the   *)
(* messages the application waits for: none leaks, none is lost.            *)
NoRecordLost ==
    /\ \A table \in {outgoing, incoming} :
            Len(Used(table)) = Cardinality(IdsOf(table))
    /\ IdsOf(outgoing) = {id \in Ids : app.kept[id] # NoMessage}

(* A QoS 2 message reaches its receiver once; a message that either side    *)
(* takes for done has reached it.                                           *)
Delivery ==
    ~seen.mixed =>
        /\ ~seen.repeated
        /\ seen.finished \subseteq seen.delivered
        /\ seen.acked \subseteq seen.got

(* core_mqtt_state.h:201 and 223: publishes are resent in the order in      *)
(* which they were made (messages are numbered downwards), PUBRELs in the   *)
(* order of their PUBRECs.                                                  *)
ResendOrder ==
    LET pubs == Picked(outgoing, {i \in DOMAIN outgoing : outgoing[i].state \in PublishStates})
        rels == Picked(outgoing, {i \in DOMAIN outgoing : outgoing[i].state \in RelStates})
    IN /\ \A j, k \in DOMAIN pubs :
            j < k => app.kept[pubs[j].id].msg > app.kept[pubs[k].id].msg
       /\ [k \in DOMAIN rels |-> rels[k].id] = seen.recs

(* The tables keep what the exchanges need.                                 *)
ExchangesSafe == MqttTypeOK /\ NoRecordLost /\ Delivery /\ ResendOrder

(* When a connection has carried everything, every exchange in which the    *)
(* client sent a packet over it is over, and no incoming message waits.     *)
NothingStuck ==
    (link.up /\ app.stage = "run" /\ link.toBroker = <<>> /\ link.toClient = <<>>
        /\ ~seen.mixed)
    => /\ IdsOf(outgoing) \cap seen.sent = {}
       /\ IdsOf(incoming) = {}
       /\ broker.held \subseteq IdsOf(outgoing)

(* core_mqtt_state.h:221-223: calling MQTT_PublishToResend until it returns *)
(* 0 "will give all the packets for which a publish need to be resent".     *)
ResendComplete ==
    (link.up /\ app.stage = "run") => IdsOf(outgoing) \subseteq seen.sent
=============================================================================
