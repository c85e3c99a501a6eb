--------------------------- MODULE LineCollector ---------------------------
(* Inc/Protocol/MqttLineCollector.h: MqttLineCollector_FeedFrames tells text *)
(* lines and length-announced frames of a modem apart in one byte stream;    *)
(* MqttLineCollector_Feed, for modems without frames, knows lines only.      *)
(* Bytes are fed one by one: how the stream is cut into calls makes no       *)
(* difference, as nothing but the collector is kept between two bytes.       *)
(*                                                                           *)
(* The modem, the product's callbacks and the loss of bytes are external.    *)
(* Lost bytes are noticed (the UART receive path reports them before it      *)
(* delivers what follows), and the product calls Invalidate then.            *)
EXTENDS Integers, Sequences, FiniteSets, FiniteSetsExt, SequencesExt, TLC

CONSTANTS
    Records,            \* what the modem sends: [bytes, text, whole]
    BufferSize,         \* MQTT_LINE_COLLECTOR_CAPACITY
    HeaderMax,          \* maximum_header_length of the protocol
    TopicMax,           \* maximum_quoted_length
    PayloadMax,         \* maximum_payload_length
    NumberMax           \* UINT32_MAX

(* A record's text is what the owner of the AT text has to see of it, its    *)
(* whole is "line", "frame" or "none": what is delivered in one piece.       *)

VARIABLES
    framed,             \* does the product call FeedFrames or Feed?
    collector,          \* MqttLineCollector
    record,             \* the record the modem is sending
    rest,               \* its bytes still to come
    heard,              \* what the callbacks were given of it
    since,              \* the last bytes fed since the last loss
    course              \* "smooth": begun in step and nothing lost yet; "lost":
                        \* to be dropped to the next line end; else "astray"

collectorVars == <<framed, collector, record, rest, heard, since, course>>

-----------------------------------------------------------------------------
(* The protocol: +r"topic",length,body CR LF                                 *)
Prefix == <<"+", "r">>
Tail2 == <<"CR", "LF">>
Digits == ("0" :> 0) @@ ("1" :> 1) @@ ("2" :> 2) @@ ("3" :> 3)

(* ModuleFrameParser_ParseLengthHeader after the prefix, one byte of the     *)
(* header at a time: blanks, a quoted topic, a number.                       *)
HeaderStart == [at |-> "open", topic |-> 0, number |-> -1, size |-> Len(Prefix)]

Longer(scan) == [scan EXCEPT !.size = @ + 1]

InTopic(scan, byte) ==
    IF byte = "quote"
    THEN [scan EXCEPT !.at = IF scan.topic = 0 THEN "invalid" ELSE "closed"]
    ELSE [scan EXCEPT !.topic = @ + 1,
                      !.at = IF byte \in {"NUL", "CR", "LF"} \/ scan.topic = TopicMax
                             THEN "invalid" ELSE @]

InNumber(scan, byte) ==
    IF byte \in DOMAIN Digits
    THEN LET number == (10 * (IF scan.number < 0 THEN 0 ELSE scan.number)) + Digits[byte] IN
         [scan EXCEPT !.number = number, !.at = IF number > NumberMax THEN "invalid" ELSE @]
    ELSE [scan EXCEPT !.at = IF byte = "comma" /\ scan.number >= 0 THEN "complete" ELSE "invalid"]

ScanByte(scan, byte) ==
    CASE scan.at \in {"complete", "invalid"} -> scan
      [] scan.at = "open" /\ byte = "blank" -> Longer(scan)
      [] scan.at = "open" /\ byte # "blank" ->
             Longer([scan EXCEPT !.at = IF byte = "quote" THEN "topic" ELSE "invalid"])
      [] scan.at = "topic" -> Longer(InTopic(scan, byte))
      [] scan.at = "closed" ->
             Longer([scan EXCEPT !.at = IF byte = "comma" THEN "number" ELSE "invalid"])
      [] scan.at = "number" -> Longer(InNumber(scan, byte))

(* The result of the parser: at is "complete", "invalid" or anything else    *)
(* for an incomplete header; size and number are the outputs.                *)
ParseLengthHeader(bytes) ==
    IF Len(bytes) < Len(Prefix) THEN HeaderStart
    ELSE LET end == IF Len(bytes) > HeaderMax THEN HeaderMax ELSE Len(bytes)
             scan == FoldLeft(ScanByte, HeaderStart, SubSeq(bytes, Len(Prefix) + 1, end)) IN
         IF scan.at # "complete" /\ Len(bytes) >= HeaderMax
         THEN [scan EXCEPT !.at = "invalid"] ELSE scan

-----------------------------------------------------------------------------
(* discarding: "record" is 0 (prefix, header or body of a frame that fits),  *)
(* "junk" 1, "body" 2, "tail" 3, "text" 4 and "long" 5 (a text line that has *)
(* outgrown the buffer).  length doubles as what remains to be drained.      *)
Fresh == [discarding |-> "record", buffer |-> <<>>, length |-> 0]

Resync(byte) ==
    [collector EXCEPT !.length = 0, !.discarding = IF byte = "LF" THEN "record" ELSE "junk"]

TextOf(bytes) == [i \in DOMAIN bytes |-> [as |-> "text", bytes |-> <<bytes[i]>>]]
WholeOf(as, bytes) == <<[as |-> as, bytes |-> bytes]>>

(* The callbacks get things, and the collector becomes next.                 *)
Becomes(next, things) == collector' = next /\ heard' = heard \o things

(* The rest of a line is dropped; of a text line that is too long the owner  *)
(* of the AT text sees every byte but NULs.                                  *)
DropByte(byte) ==
    /\ collector.discarding \in {"junk", "long"}
    /\ Becomes([collector EXCEPT !.discarding = IF byte = "LF" THEN "record" ELSE @],
               IF collector.discarding = "long" /\ byte # "NUL" THEN TextOf(<<byte>>) ELSE <<>>)

(* A frame that does not fit is drained to its end.                          *)
DrainBody ==
    /\ collector.discarding = "body"
    /\ Becomes(IF collector.length = 1
               THEN [collector EXCEPT !.discarding = "tail", !.length = Len(Tail2)]
               ELSE [collector EXCEPT !.length = @ - 1], <<>>)

DrainTail(byte) ==
    /\ collector.discarding = "tail"
    /\ Becomes(IF byte # Tail2[(Len(Tail2) - collector.length) + 1] THEN Resync(byte)
               ELSE IF collector.length = 1
               THEN [collector EXCEPT !.length = 0, !.discarding = "record"]
               ELSE [collector EXCEPT !.length = @ - 1], <<>>)

Collecting == collector.discarding \in {"record", "text"}
BufferFull == collector.length >= BufferSize - 1
Refused(byte) == BufferFull \/ (byte = "NUL" /\ collector.discarding = "text")

(* The buffer is full, or a NUL stands in a text line.                       *)
RefuseByte(byte) ==
    /\ Collecting /\ Refused(byte)
    /\ IF collector.discarding = "text" /\ byte # "NUL"
       THEN Becomes([Resync(byte) EXCEPT !.discarding = IF byte = "LF" THEN "record" ELSE "long"],
                    TextOf(<<byte>>))
       ELSE Becomes(Resync(byte), <<>>)

Kept(byte) == Append(SubSeq(collector.buffer, 1, collector.length), byte)
KeepOn(byte) == [collector EXCEPT !.buffer = Kept(byte), !.length = @ + 1]

(* MQTT text: the line goes on, or it is complete.                           *)
TextGoesOn(byte, text) ==
    IF byte = "LF"
    THEN Becomes([KeepOn(byte) EXCEPT !.length = 0, !.discarding = "record"],
                 TextOf(text) \o WholeOf("line", Kept(byte)))
    ELSE Becomes([KeepOn(byte) EXCEPT !.discarding = "text"], TextOf(text))

TextByte(byte) ==
    /\ collector.discarding = "text" /\ ~Refused(byte)
    /\ TextGoesOn(byte, <<byte>>)

StillPrefix(bytes) == IsPrefix(bytes, Prefix) \/ IsPrefix(Prefix, bytes)

(* The byte that shows the record to be a text line brings all of it so far. *)
TextShows(byte) ==
    /\ collector.discarding = "record" /\ ~Refused(byte)
    /\ ~StillPrefix(Kept(byte))
    /\ TextGoesOn(byte, Kept(byte))

Fits(scan) ==
    /\ scan.number <= PayloadMax
    /\ scan.size + Len(Tail2) < BufferSize
    /\ scan.number < BufferSize - scan.size - Len(Tail2)

(* A byte of a frame that fits, once its header is complete.                 *)
BodyByte(byte, scan) ==
    LET kept == Kept(byte)
        tail == SubSeq(kept, scan.size + scan.number + 1, Len(kept)) IN
    IF ~IsPrefix(tail, Tail2) THEN Becomes(Resync(byte), <<>>)
    ELSE IF tail = Tail2
    THEN Becomes([KeepOn(byte) EXCEPT !.length = 0], WholeOf("frame", kept))
    ELSE Becomes(KeepOn(byte), <<>>)

(* The announced length does not fit: available bytes of it are here.        *)
BeginDrain(byte, scan) ==
    LET left == scan.number - (Len(Kept(byte)) - scan.size) IN
    Becomes(IF left = 0
            THEN [KeepOn(byte) EXCEPT !.discarding = "tail", !.length = Len(Tail2)]
            ELSE [KeepOn(byte) EXCEPT !.discarding = "body", !.length = left], <<>>)

FrameByte(byte) ==
    LET scan == ParseLengthHeader(Kept(byte)) IN
    /\ collector.discarding = "record" /\ ~Refused(byte)
    /\ StillPrefix(Kept(byte))
    /\ CASE scan.at = "invalid" -> Becomes(Resync(byte), <<>>)
         [] scan.at = "complete" /\ ~Fits(scan) -> BeginDrain(byte, scan)
         [] scan.at = "complete" /\ Fits(scan) -> BodyByte(byte, scan)
         [] OTHER -> Becomes(KeepOn(byte), <<>>)

FramedByte(byte) ==
    DropByte(byte) \/ DrainBody \/ DrainTail(byte) \/ RefuseByte(byte)
        \/ TextByte(byte) \/ TextShows(byte) \/ FrameByte(byte)

(* FeedLines with the line ends kept: no text, no frames.                    *)
RawByte(byte) ==
    \/ DropByte(byte)
    \/ /\ collector.discarding = "record"
       /\ IF byte = "NUL" \/ BufferFull THEN Becomes(Resync(byte), <<>>)
          ELSE IF byte = "LF"
          THEN Becomes([KeepOn(byte) EXCEPT !.length = 0], WholeOf("line", Kept(byte)))
          ELSE Becomes(KeepOn(byte), <<>>)

FeedByte(byte) == IF framed THEN FramedByte(byte) ELSE RawByte(byte)

(* A possible fault: after a loss the rest is taken for a record of its own. *)
InvalidatedOpen == [discarding |-> "record", buffer |-> <<>>, length |-> 0]

(* MqttLineCollector_Invalidate                                              *)
Invalidated == [discarding |-> "junk", buffer |-> <<>>, length |-> 0]

-----------------------------------------------------------------------------
InStep == collector.discarding = "record" /\ collector.length = 0

(* The history mark since goes back to the longest thing that is delivered   *)
(* and the line end before it.                                               *)
Latest(bytes) == SubSeq(bytes, IF Len(bytes) > BufferSize THEN Len(bytes) - BufferSize + 1 ELSE 1,
                        Len(bytes))

StartRecord ==
    /\ rest = <<>>
    /\ record' \in Records
    /\ rest' = record'.bytes
    /\ heard' = <<>>
    /\ course' = IF InStep THEN "smooth"
                 ELSE IF collector.discarding = "junk" THEN "lost" ELSE "astray"
    /\ since' = IF InStep THEN <<"LF">> ELSE since
    /\ UNCHANGED <<framed, collector>>

FeedNext ==
    /\ rest # <<>>
    /\ FeedByte(Head(rest))
    /\ rest' = Tail(rest)
    /\ since' = Latest(Append(since, Head(rest)))
    /\ UNCHANGED <<framed, record, course>>

(* Some bytes are lost, and the collector is told before it gets the next.   *)
Lose ==
    /\ \E bytes \in 1 .. Len(rest) : rest' = SubSeq(rest, bytes + 1, Len(rest))
    /\ collector' = Invalidated
    /\ course' = "lost"
    /\ since' = <<>>
    /\ UNCHANGED <<framed, record, heard>>

CollectorInit ==
    /\ framed \in BOOLEAN
    /\ collector = Fresh
    /\ record \in Records
    /\ rest = record.bytes
    /\ heard = <<>>
    /\ since = <<"LF">>
    /\ course = "smooth"

CollectorNext == StartRecord \/ FeedNext \/ Lose

-----------------------------------------------------------------------------
ExpectedFramed ==
    TextOf(record.text)
        \o (IF record.whole = "none" THEN <<>> ELSE WholeOf(record.whole, record.bytes))

(* Without frames a record is as many lines as it has line ends.             *)
LineEnds == {i \in DOMAIN record.bytes : record.bytes[i] = "LF"}
LineUpTo(end) ==
    LET begin == Max({0} \cup {i \in LineEnds : i < end}) + 1 IN
    SubSeq(record.bytes, begin, end)
Deliverable(line) == Len(line) < BufferSize /\ ~Contains(line, "NUL")
ExpectedRaw ==
    LET ends == SetToSortSeq({i \in LineEnds : Deliverable(LineUpTo(i))}, <) IN
    [n \in DOMAIN ends |-> [as |-> "line", bytes |-> LineUpTo(ends[n])]]

Expected == IF framed THEN ExpectedFramed ELSE ExpectedRaw

(* A record that began in step and lost nothing is heard as it should: a     *)
(* text line byte by byte and then whole, a frame whole and never as text,   *)
(* even if its body looks like text or like a header, and of a frame that is *)
(* malformed or too large nothing.  The next record begins in step again.    *)
(* After a loss it does at the next line end, unless that one was hidden in  *)
(* the body of a frame.                                                      *)
HeardRight ==
    rest = <<>> =>
        /\ course = "smooth" => heard = Expected /\ InStep
        /\ (course = "lost" /\ Cardinality(LineEnds) = 1 /\ since # <<>>) => InStep

(* Whatever is delivered in one piece was received in one piece, and begins  *)
(* after a line end: no loss is inside.                                      *)
Piece(thing) == thing.as # "text" => IsSuffix(<<"LF">> \o thing.bytes, since')

PiecesWhole ==
    [][heard' = <<>> \/ heard' = heard \/ Piece(Last(heard'))]_collectorVars

(* The records of the modem are kept apart: each is heard for what it is,    *)
(* whatever came before it, and none is glued together over a loss.          *)
RecordsKeptApart == []HeardRight /\ PiecesWhole

(* ENGINEERING_CONTRACTS.md:58-59: records with an embedded NUL are          *)
(* discarded through LF.  The callback for lines gets a string, which ends   *)
(* at the NUL: it would take the part before it for the line.                *)
NulRecordsDropped == \A i \in DOMAIN heard : heard[i].as = "line" => ~Contains(heard[i].bytes, "NUL")
=============================================================================
