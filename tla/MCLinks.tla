------------------------------ MODULE MCLinks ------------------------------
(* The serial links and what must come to an end, for TLC: one run explores *)
(* the state spaces of the bus queue, the UART receive path, the line       *)
(* collector, the set-up of the modem and an upgrade with a log that works  *)
(* side by side.  part tells which one a behaviour belongs to; the others   *)
(* keep an initial state.                                                   *)
EXTENDS ModbusQueue, UartReceive, LineCollector, ModemTls, BootHistory, TLC

CONSTANTS
    Parts,          \* the components that are explored
    r1, r2, v1, v2

VARIABLE part

TwoImages == {v1, v2}
FourSettings == <<"encoding", "ca", "clock", "mqtt">>

ModbusRetries == r1 :> 1 @@ r2 :> 0

(* Records of the modem: text lines, too long ones and some with a NUL;     *)
(* frames that fit, with bodies that look like line ends; frames that do    *)
(* not fit, some with a whole frame in the body; malformed headers and      *)
(* tails.                                                                   *)
HeaderOf(number) ==
    <<"+", "r", "quote", "t", "quote", "comma">> \o number \o <<"comma">>
Xs(n) == [i \in 1 .. n |-> "x"]
TextLine(bytes) == [bytes |-> bytes, text |-> bytes, whole |-> "line"]
TextOnly(bytes, text) == [bytes |-> bytes, text |-> text, whole |-> "none"]
Frame(number, body) ==
    [bytes |-> HeaderOf(number) \o body \o Tail2, text |-> <<>>, whole |-> "frame"]
Nothing(bytes) == TextOnly(bytes, <<>>)
Large(number, body) == Nothing(HeaderOf(number) \o body \o Tail2)
Hiding(number) == <<"LF">> \o HeaderOf(number) \o <<"x">>

ModemRecords ==
    {TextLine(line) : line \in
        {<<"LF">>, <<"x", "LF">>, <<"+", "x", "CR", "LF">>, Xs(12) \o <<"LF">>}}
    \cup {TextOnly(Xs(13) \o <<"LF">>, Xs(13) \o <<"LF">>),
          TextOnly(Xs(14) \o <<"NUL", "x", "LF">>, Xs(15) \o <<"LF">>),
          TextOnly(<<"x", "NUL", "x", "LF">>, <<"x">>)}
    \cup {Frame(<<"0">>, <<>>), Frame(<<"2">>, <<"x", "LF">>), Frame(<<"2">>, <<"LF", "+">>),
          Frame(<<"0", "2">>, <<"LF", "NUL">>), Frame(<<"1">>, <<"CR">>),
          Frame(<<"3">>, <<"CR", "LF", "x">>)}
    \cup {Large(<<"0", "3">>, <<"CR", "LF", "x">>),
          Large(<<"1", "0">>, Hiding(<<"1">>)), Large(<<"1", "0">>, Hiding(<<"3">>))}
    \cup {Nothing(HeaderOf(number) \o rubbish) : number \in {<<"2">>}, rubbish \in
              {Xs(3) \o <<"LF">>, Xs(2) \o <<"LF">>}}
    \cup {Nothing(HeaderOf(<<"1", "0">>) \o Xs(10) \o <<"CR", "x", "LF">>),
          Nothing(HeaderOf(<<"2", "2">>) \o <<"LF">>),
          Nothing(<<"+", "r", "quote", "LF">>),
          Nothing(<<"+", "r", "quote", "t", "t", "x", "x", "LF">>),
          Nothing(Prefix \o <<"blank", "blank", "quote", "t", "quote", "comma", "1", "comma",
                              "x", "CR", "LF">>)}

(* And a line whose NUL is the very byte that shows it to be text: it is to *)
(* be dropped like any other line with a NUL.                               *)
EarlyNulRecords == ModemRecords \cup {Nothing(<<"+", "NUL", "x", "LF">>)}

linkVars == <<part, modbusVars, uartVars, collectorVars, modemVars, hvars>>

LinksInit ==
    /\ part \in Parts
    /\ ModbusInit
    /\ UartInit /\ (part = "uart" \/ rtos)
    /\ CollectorInit /\ (part = "collector" \/ (framed /\ record = TextLine(<<"LF">>)))
    /\ ModemInit
    /\ HInit /\ (part = "boot" \/ (app = Whole(v1) /\ rb = BlankFlash))

ModbusPart == part = "modbus" /\ UNCHANGED <<part, uartVars, collectorVars, modemVars, hvars>>
UartPart == part = "uart" /\ UNCHANGED <<part, modbusVars, collectorVars, modemVars, hvars>>
CollectorPart == part = "collector" /\ UNCHANGED <<part, modbusVars, uartVars, modemVars, hvars>>
ModemPart == part = "modem" /\ UNCHANGED <<part, modbusVars, uartVars, collectorVars, hvars>>
BootPart == part = "boot" /\ UNCHANGED <<part, modbusVars, uartVars, collectorVars, modemVars>>

LinksNext ==
    \/ ModbusPart /\ ModbusNext
    \/ UartPart /\ UartNext
    \/ CollectorPart /\ CollectorNext
    \/ ModemPart /\ ModemNext
    \/ BootPart /\ HNext

(* The fairness of each component.  The part that runs never changes, so    *)
(* that actions of different parts share a condition.                       *)
LinksFairness ==
    /\ WF_linkVars(\/ ModbusPart /\ (WorkerStep \/ (MasterStep /\ UNCHANGED queueVars))
                   \/ UartPart /\ Serving
                   \/ ModemPart /\ ModemHost
                   \/ BootPart /\ Reset /\ Observe)
    /\ WF_linkVars(\/ ModbusPart /\ GetResult /\ UNCHANGED masterVars
                   \/ ModemPart /\ ModemWorks
                   \/ BootPart /\ Decisions /\ Observe)
    /\ WF_linkVars(\/ ModbusPart /\ (LineDelivers \/ LineFeeds) /\ UNCHANGED queueVars
                   \/ ModemPart /\ BodyAbandoned)
    /\ SF_linkVars(\/ UartPart /\ Visit
                   \/ BootPart /\ PersistPolicy /\ Observe)

(* Everyone gets their turn: the requests of the bus, and the ports.        *)
EveryoneServed == RequestsServed /\ EveryPortServed

LinksSpec == LinksInit /\ [][LinksNext]_linkVars /\ LinksFairness
=============================================================================
