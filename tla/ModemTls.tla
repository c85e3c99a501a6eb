------------------------------ MODULE ModemTls ------------------------------
(* The TLS set-up of an ML307 modem: the transaction of                      *)
(* Src/ML307/ml307_ssl.c (install a CA certificate, or set and query every   *)
(* option) over an AT channel that is recovered by AtRecovery.               *)
(*                                                                           *)
(* The modem, the two directions of the serial line and the product's        *)
(* adapter are external.  The modem may restart at any moment, refuse a      *)
(* setting or store a damaged certificate; lines get lost, answers come after *)
(* the time-out.  MaxModemMishaps bounds these.  As Inc/ML307/README.md asks, *)
(* the adapter sends one command at a time, keeps what it received until a   *)
(* response is complete, and times the answers; it recovers the channel and  *)
(* starts over when a transaction fails.                                     *)
EXTENDS AtRecovery, Naturals, Sequences

CONSTANTS
    Settings,           \* the settings that are gone through, in their order
    MaxModemMishaps     \* bound

VARIABLES
    modem,          \* restart-proof certificate, settings, waiting for a body?
    toModem,        \* commands on their way
    toHost,         \* lines on their way
    received,       \* the adapter's AtSession buffer
    tx,             \* ML307_SslTransaction
    todo,           \* the adapter's next transaction
    stale,          \* history: did the CA installation begin while something
                    \* of what was before was still on its way?
    modemMishaps

modemVars == <<modem, toModem, toHost, received, tx, todo, stale, modemMishaps, recovery>>

-----------------------------------------------------------------------------
(* s_prepare_options and the settings after them.                           *)
Options == <<"encoding", "auth", "version", "ignorestamp", "ignoreverify",
             "ca", "clock", "mqtt">>
Setting == {Options[i] : i \in DOMAIN Options}

(* At least one of them is set.                                             *)
ASSUME SettingsAssumption ==
    /\ Settings \in Seq(Setting) /\ Settings # <<>>
    /\ MaxModemMishaps \in Nat

Command(kind, of) == [kind |-> kind, of |-> of]

(* The steps of a transaction, each a SEND and a WAIT.                      *)
Plan ==
    [install |-> <<Command("write", "certificate"), Command("payload", "certificate"),
                   Command("read", "certificate")>>,
     prepare |-> [i \in 1 .. 2 * Len(Settings) |->
                     Command(IF i % 2 = 1 THEN "set" ELSE "query", Settings[(i + 1) \div 2])]]

NoTransaction == [job |-> "none", step |-> 0, waiting |-> FALSE]
Started(job) == [job |-> job, step |-> 1, waiting |-> FALSE]
Active == tx.job # "none"
Step == Plan[tx.job][tx.step]

(* Lines of the modem.  right: the value is the one that was asked for.     *)
Line(kind) == [kind |-> kind, of |-> "none", right |-> TRUE]
Value(of, right) == [kind |-> "value", of |-> of, right |-> right]

Some(lines, kind) == \E i \in DOMAIN lines : lines[i].kind = kind
IsFinal(line) == line.kind \in {"ok", "error"}

(* SslScanFinal: one final result, as the last line.                        *)
FinalScan(lines) ==
    LET finals == {i \in DOMAIN lines : IsFinal(lines[i])} IN
    IF finals = {} THEN "incomplete"
    ELSE IF finals # {Len(lines)} THEN "invalid"
    ELSE IF lines[Len(lines)].kind = "ok" THEN "complete" ELSE "error"

(* ML307_SslParseCertificateWritePrompt *)
PromptScan(lines) ==
    IF Some(lines, "prompt")
    THEN IF lines[Len(lines)].kind = "prompt" /\ \A i \in DOMAIN lines : ~IsFinal(lines[i])
         THEN "complete" ELSE "invalid"
    ELSE CASE Some(lines, "ok") -> "invalid" [] Some(lines, "error") -> "error" [] OTHER -> "incomplete"

(* Mutant: the final result alone ends a query.                             *)
QueryScanFinal(lines, of) == FinalScan(lines)

(* A query: one line of its family, with the value that was set.  The MQTT  *)
(* query suffers no other line, and without a value it goes on waiting.     *)
Family(of) == IF of \in {"clock", "mqtt"} THEN of ELSE "ssl"

QueryScan(lines, of) ==
    LET shown == {i \in DOMAIN lines : /\ lines[i].kind = "value"
                                       /\ Family(lines[i].of) = Family(of)} IN
    IF of = "mqtt" /\ \E i \in DOMAIN lines : ~IsFinal(lines[i]) /\ lines[i].of # "mqtt"
    THEN "invalid"
    ELSE IF FinalScan(lines) # "complete" THEN FinalScan(lines)
    ELSE IF \E i \in shown : shown = {i} /\ lines[i] = Value(of, TRUE) THEN "complete"
    ELSE IF shown = {} /\ of = "mqtt" THEN "incomplete" ELSE "invalid"

(* SslCertificateReadView and the comparison with what was sent.            *)
ReadScan(lines) ==
    LET frames == {i \in DOMAIN lines : lines[i].of = "certificate"} IN
    IF frames = {}
    THEN IF FinalScan(lines) \in {"incomplete", "error"} THEN FinalScan(lines) ELSE "invalid"
    ELSE LET frame == CHOOSE i \in frames : \A j \in frames : i <= j
             tail == SubSeq(lines, frame + 1, Len(lines)) IN
         IF \E i \in 1 .. frame : IsFinal(lines[i]) THEN "invalid"
         ELSE IF tail = <<>> THEN "incomplete"
         ELSE IF tail = <<Line("ok")>> /\ lines[frame].right THEN "complete" ELSE "invalid"

(* Mutant: a restart of the module is not looked for.                       *)
InspectStep(lines) ==
    CASE Step.kind = "write" -> PromptScan(lines)
      [] Step.kind \in {"payload", "set"} -> FinalScan(lines)
      [] Step.kind = "query" -> QueryScan(lines, Step.of)
      [] Step.kind = "read" -> ReadScan(lines)

(* ML307_SslTransactionInspectResponse *)
Inspect(lines) == IF Some(lines, "ready") THEN "module_reset" ELSE InspectStep(lines)

-----------------------------------------------------------------------------
ModemFresh == [certificate |-> "none", settings |-> {}, body |-> FALSE]

ModemInit ==
    /\ modem = ModemFresh
    /\ toModem = <<>> /\ toHost = <<>> /\ received = <<>>
    /\ tx = NoTransaction /\ todo = "install" /\ stale = FALSE
    /\ modemMishaps = 0
    /\ RecoveryInit

Quiet == toModem = <<>> /\ toHost = <<>>

(* ML307_SslTransactionStartCaInstall, ML307_SslTransactionStartPrepare     *)
StartTransaction ==
    /\ ~Active /\ todo # "done" /\ recovery = "idle"
    /\ tx' = Started(todo)
    /\ received' = <<>>
    /\ stale' = IF todo = "install" THEN ~Quiet ELSE stale
    /\ UNCHANGED <<modem, toModem, toHost, todo, modemMishaps, recovery>>

(* ML307_SslTransactionGetAction and ML307_SslTransactionActionSent         *)
SendStep ==
    /\ Active /\ ~tx.waiting
    /\ toModem' = Append(toModem, Step)
    /\ tx' = [tx EXCEPT !.waiting = TRUE]
    /\ UNCHANGED <<stale, modem, toHost, received, todo, modemMishaps, recovery>>

SendRecovery ==
    /\ ~Active /\ recovery \in DOMAIN Due
    /\ toModem' = Append(toModem, Command(Due[recovery], "channel"))
    /\ Sent(Due[recovery])
    /\ UNCHANGED <<stale, modem, toHost, received, tx, todo, modemMishaps>>

Following == [install |-> "prepare", prepare |-> "done"]

(* The transaction takes a complete response.                               *)
Advanced ==
    IF tx.step < Len(Plan[tx.job])
    THEN tx' = [tx EXCEPT !.step = @ + 1, !.waiting = FALSE] /\ UNCHANGED todo
    ELSE tx' = NoTransaction /\ todo' = Following[tx.job]

(* The adapter does not know whether a body is still being read.            *)
CommandModeKnown(result) == Step.kind = "payload" => result = "error"

(* ML307_SslTransactionConsumeResponse, and what the adapter makes of it.   *)
ConsumeResponse(lines) ==
    LET result == Inspect(lines) IN
    \/ /\ result = "incomplete"
       /\ received' = lines
       /\ UNCHANGED <<tx, todo, recovery>>
    \/ /\ result = "complete"
       /\ received' = <<>>
       /\ Advanced
       /\ UNCHANGED recovery
    \/ /\ result \in {"invalid", "error", "module_reset"}
       /\ received' = <<>>
       /\ tx' = NoTransaction
       /\ IF result = "module_reset" THEN ModuleReady ELSE Quarantine(CommandModeKnown(result))
       /\ UNCHANGED todo

(* Some of the lines arrive while a transaction runs.                       *)
ReceiveResponse ==
    /\ Active
    /\ \E n \in 1 .. Len(toHost) :
         /\ toHost' = SubSeq(toHost, n + 1, Len(toHost))
         /\ LET lines == received \o SubSeq(toHost, 1, n) IN
            IF tx.waiting THEN ConsumeResponse(lines)
            ELSE received' = lines /\ UNCHANGED <<tx, todo, recovery>>
    /\ UNCHANGED <<stale, modem, toModem, modemMishaps>>

(* A line arrives while none does.                                          *)
ReceiveLine ==
    /\ ~Active /\ toHost # <<>>
    /\ toHost' = Tail(toHost)
    /\ IF Head(toHost).kind = "ready" THEN ModuleReady
       ELSE IF IsFinal(Head(toHost)) THEN RecoveryResult(Head(toHost).kind = "ok")
       ELSE UNCHANGED recovery
    /\ todo' = IF Head(toHost).kind = "ready" /\ todo = "done" THEN "prepare" ELSE todo
    /\ UNCHANGED <<stale, modem, toModem, received, tx, modemMishaps>>

Mishap == modemMishaps < MaxModemMishaps /\ modemMishaps' = modemMishaps + 1

(* An answer that is late is a mishap; that there is none is not.           *)
TimeOut ==
    /\ IF Quiet THEN UNCHANGED modemMishaps ELSE Mishap
    /\ \/ /\ Active /\ tx.waiting
          /\ tx' = NoTransaction /\ received' = <<>>
          /\ Quarantine(CommandModeKnown("none"))
       \/ /\ ~Active /\ RecoveryTimeout
          /\ UNCHANGED <<tx, received>>
    /\ UNCHANGED <<stale, modem, toModem, toHost, todo>>

(* The adapter waits until the module has given up reading.                 *)
ReportBodyFinished ==
    /\ ~modem.body /\ BodyFinished
    /\ UNCHANGED <<stale, modem, toModem, toHost, received, tx, todo, modemMishaps>>

RecoveryTaken ==
    /\ TakeComplete
    /\ UNCHANGED <<stale, modem, toModem, toHost, received, tx, todo, modemMishaps>>

-----------------------------------------------------------------------------
(* The modem.                                                               *)
Reply(lines) == toHost' = toHost \o lines

ModemRestarted == [modem EXCEPT !.settings = {}, !.body = FALSE]

Answered(command) ==
    CASE command.kind = "reset" -> modem' = ModemRestarted /\ Reply(<<Line("ready")>>)
      [] command.kind \in {"probe", "echo"} -> UNCHANGED modem /\ Reply(<<Line("ok")>>)
      [] command.kind = "write" -> modem' = [modem EXCEPT !.body = TRUE] /\ Reply(<<Line("prompt")>>)
      [] command.kind = "payload" -> UNCHANGED modem /\ Reply(<<Line("error")>>)
      [] command.kind = "read" -> UNCHANGED modem /\
             Reply(<<Value("certificate", modem.certificate = "good"), Line("ok")>>)
      [] command.kind = "set" ->
             modem' = [modem EXCEPT !.settings = @ \cup {command.of}] /\ Reply(<<Line("ok")>>)
      [] command.kind = "query" -> UNCHANGED modem /\
             Reply(<<Value(command.of, command.of \in modem.settings), Line("ok")>>)

(* It carries out a command; in the middle of a body it takes every byte    *)
(* for a part of it.                                                        *)
ModemWorks ==
    /\ toModem # <<>>
    /\ toModem' = Tail(toModem)
    /\ \/ ~modem.body /\ Answered(Head(toModem)) /\ UNCHANGED modemMishaps
       \/ /\ ~modem.body /\ Head(toModem).kind = "set" /\ Mishap
          /\ UNCHANGED modem /\ Reply(<<Line("error")>>)
       \/ /\ modem.body /\ Head(toModem).kind = "payload"
          /\ \E stored \in {"good", "damaged"} :
               /\ modem' = [modem EXCEPT !.certificate = stored, !.body = FALSE]
               /\ IF stored = "good" THEN UNCHANGED modemMishaps ELSE Mishap
          /\ Reply(<<Line("ok")>>)
       \/ modem.body /\ Head(toModem).kind # "payload" /\ UNCHANGED <<modem, toHost, modemMishaps>>
    /\ UNCHANGED <<stale, received, tx, todo, recovery>>

(* It waits for the rest of a body for a limited time, which is a mishap    *)
(* while the body is to come.                                               *)
BodyAbandoned ==
    /\ modem.body
    /\ IF Active /\ Step.kind \in {"write", "payload"} THEN Mishap ELSE UNCHANGED modemMishaps
    /\ modem' = [modem EXCEPT !.body = FALSE]
    /\ Reply(<<Line("error")>>)
    /\ UNCHANGED <<stale, toModem, received, tx, todo, recovery>>

ModemRestarts ==
    /\ Mishap
    /\ modem' = ModemRestarted
    /\ toModem' = <<>>
    /\ Reply(<<Line("ready")>>)
    /\ UNCHANGED <<stale, received, tx, todo, recovery>>

(* A line gets lost.  Nobody could notice a restart whose report is lost    *)
(* while the channel is in service.                                         *)
LineLost ==
    /\ Mishap
    /\ \/ toModem # <<>> /\ toModem' = Tail(toModem) /\ UNCHANGED toHost
       \/ /\ toHost # <<>> /\ (Head(toHost).kind = "ready" => recovery # "idle")
          /\ toHost' = Tail(toHost) /\ UNCHANGED toModem
    /\ UNCHANGED <<stale, modem, received, tx, todo, recovery>>

ModemHost ==
    \/ StartTransaction \/ SendStep \/ SendRecovery
    \/ ReceiveResponse \/ ReceiveLine \/ TimeOut
    \/ ReportBodyFinished \/ RecoveryTaken

(* The product wants it set up anew, for another connection.                *)
SetUpAgain ==
    /\ todo = "done" /\ recovery = "idle"
    /\ todo' = "prepare"
    /\ UNCHANGED <<stale, modem, toModem, toHost, received, tx, modemMishaps, recovery>>

ModemNext == SetUpAgain \/ ModemHost \/ ModemWorks \/ BodyAbandoned \/ ModemRestarts \/ LineLost

(* The adapter and the modem go on working.                                 *)
ModemFairness == WF_modemVars(ModemHost) /\ WF_modemVars(ModemWorks) /\ WF_modemVars(BodyAbandoned)

ModemSpec == ModemInit /\ [][ModemNext]_modemVars /\ ModemFairness

-----------------------------------------------------------------------------
ModemTypeOK ==
    /\ recovery \in RecoveryStates
    /\ modem.settings \subseteq {Settings[i] : i \in DOMAIN Settings}
    /\ modem.certificate \in {"none", "good", "damaged"}
    /\ Active => tx.step \in DOMAIN Plan[tx.job] /\ recovery = "idle"
    /\ todo \in {"install", "prepare", "done"}

(* When the transactions report success, the modem holds every setting,      *)
(* unless the report of a restart is on its way, and the certificate, if the *)
(* channel was quiet when its installation began: no late or lost answer and *)
(* no restart in between is taken for a success.  The end of a recovery does *)
(* not make the channel quiet: four restarts can leave enough old answers in *)
(* it for an installation to succeed on those of the one before, while its   *)
(* own body is still on its way, and may be stored damaged.                  *)
ConfiguredWhenDone ==
    /\ ModemTypeOK
    /\ todo # "install" /\ ~stale => modem.certificate = "good"
    /\ todo = "done" => \/ modem.settings = {Settings[i] : i \in DOMAIN Settings}
                        \/ Some(toHost, "ready")

(* However the modem fails, a transaction or a recovery that began is       *)
(* followed by a complete set-up: the channel is always given back, and no  *)
(* response is waited for in vain.                                          *)
ModemConfigured == Active \/ recovery # "idle" ~> todo = "done"
=============================================================================
