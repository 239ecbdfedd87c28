------------------------------ MODULE TunerStudio ------------------------------
(***************************************************************************)
(* The binary protocol: runBinaryProtocolLoop reads requests byte by byte  *)
(* from a serial line, checks their size, command and CRC, and answers.    *)
(* The line may lose, garble or delay a byte, or lose an answer.  A byte   *)
(* on the line is a token <<r, p>>, byte p of the packet of Requests[r]:   *)
(* the size is at 1 and 2, the command at 3, then come the payload and the *)
(* CRC; a command without packet is at 0.  A byte read as something else   *)
(* than it was sent as has any value.  The CRC of a body matches only the  *)
(* body it was computed of.  The threads and interrupts of the log run in  *)
(* between.                                                                *)
(***************************************************************************)
EXTENDS LoggingCentral

CONSTANTS Requests,         \* the client's requests: [command, offset, values]
          crcReadBuffer,    \* its size
          PageSize,         \* TOTAL_CONFIG_SIZE
          SoftOffset,       \* sizeof(engine_configuration_s)
          InitialValue, Garbage,
          MaxRequests,      \* model bound: requests sent
          MaxFaults         \* model bound: faults of the line

ASSUME TunerStudioAssumption ==
  /\ crcReadBuffer \in Nat /\ PageSize \in Nat /\ SoftOffset \in 0 .. PageSize
  /\ MaxRequests \in Nat /\ MaxFaults \in Nat

\* A request to write a single value has one.
ASSUME RequestsAssumption ==
  /\ Requests \in Seq([command : STRING, offset : Nat, values : Seq(Nat)])
  /\ \A r \in DOMAIN Requests :
       Requests[r].command = "single" => Len(Requests[r].values) = 1

CRC_VALUE_SIZE == 1     \* in tokens
CRC_WRAPPING_SIZE == CRC_VALUE_SIZE + 3
TsMessage == 1          \* length of what the thread itself logs

VARIABLES line,         \* bytes that are late
          rx,           \* bytes received and not yet read
          loop,         \* runBinaryProtocolLoop: the next read, incomingPacketSize, what
                        \* has been read into crcReadBuffer, and the request whose console
                        \* line is run, or 0
          text,         \* handleGetText: what the CRC was computed of, and history: what
                        \* had been logged
          workingCopy,  \* configWorkingCopy
          persistent,   \* persistentState.persistentConfiguration
          client,       \* the client: its request, whether it met a fault, the answer
          requests, faults

wire == <<line, rx>>
tune == <<workingCopy, persistent>>
bounds == <<requests, faults>>
tsVars == <<wire, loop, text, tune, client, bounds>>
vars == <<tsVars, logVars>>

Offsets == 0 .. PageSize - 1
Commands == {Requests[r].command : r \in DOMAIN Requests}
Reading == [pc |-> "first", genuine |-> FALSE, size |-> 0, data |-> <<>>, console |-> 0]
Running(r) == [Reading EXCEPT !.pc = "execute", !.console = r]
NoText == [crc |-> <<>>, logged |-> <<>>]

-----------------------------------------------------------------------------
(* The packets of a client *)

IsPlain(r) == Requests[r].command = "plain"
HasOffset(r) == Requests[r].command \in {"chunk", "single"}
OutOfRange(r) == Requests[r].offset + Len(Requests[r].values) > PageSize

\* The command, an offset, and the values.
BodySize(r) == 1 + (IF HasOffset(r) THEN 1 ELSE 0) + Len(Requests[r].values)
Packet(r) == IF IsPlain(r) THEN <<<<r, 0>>>>
             ELSE [p \in 1 .. BodySize(r) + 3 |-> <<r, p>>]

Corrupt == <<0, 0>>
Tokens == {Corrupt} \cup ((DOMAIN Requests) \X Nat)
Sent(token) == token # Corrupt

\* What a byte may be read as.
MayBePlain(token) ==
  IF Sent(token) /\ token[2] = 0 THEN {TRUE} ELSE
  IF Sent(token) /\ token[2] = 1 THEN {FALSE} ELSE BOOLEAN
SizesOf(genuine, token) ==
  IF genuine /\ Sent(token) /\ token[2] = 2 THEN {BodySize(token[1])}
  ELSE 0 .. crcReadBuffer + 1
CommandsOf(token) ==
  IF Sent(token) /\ token[2] = 3 THEN {Requests[token[1]].command}
  ELSE IF Sent(token) /\ token[2] < 3 THEN {"unknown"} ELSE Commands
OffsetOf(token) ==
  IF Sent(token) /\ token[2] = 4 /\ HasOffset(token[1]) THEN Requests[token[1]].offset ELSE 0
ValueOf(token) ==
  IF Sent(token) /\ HasOffset(token[1]) /\ token[2] - 4 \in DOMAIN Requests[token[1]].values
  THEN Requests[token[1]].values[token[2] - 4] ELSE Garbage
ValueAt(data, i) == IF i \in DOMAIN data THEN ValueOf(data[i]) ELSE Garbage

-----------------------------------------------------------------------------
(* The line and the client, external *)

\* A console line may still be run: the client was answered before.
Quiet == line = <<>> /\ rx = <<>> /\ (loop = Reading \/ loop.pc = "execute")

\* A token is lost, garbled, or late together with those behind it.
FaultyDelivery(r) ==
  /\ faults < MaxFaults /\ faults' = faults + 1
  /\ \E i \in DOMAIN Packet(r) :
       \/ rx' = SubSeq(Packet(r), 1, i - 1) \o SubSeq(Packet(r), i + 1, Len(Packet(r)))
          /\ line' = <<>>
       \/ rx' = [Packet(r) EXCEPT ![i] = Corrupt] /\ line' = <<>>
       \/ rx' = SubSeq(Packet(r), 1, i - 1)
          /\ line' = SubSeq(Packet(r), i, Len(Packet(r)))

\* The next request, or the same again, after the answer or the time-out of the last
\* one, and when what was left of it has been read.
Send(r) ==
  /\ client.pc # "waiting" /\ Quiet
  /\ requests < MaxRequests /\ requests' = requests + 1
  /\ \/ rx' = Packet(r) /\ UNCHANGED <<line, faults>>
     \/ FaultyDelivery(r)
  /\ client' = [pc |-> "waiting", r |-> r, faulty |-> faults' # faults,
                code |-> "none", body |-> <<>>]
  /\ UNCHANGED <<loop, text, tune, logVars>>

DeliverLate ==
  /\ line # <<>>
  /\ rx' = rx \o line /\ line' = <<>>
  /\ UNCHANGED <<loop, text, tune, client, bounds, logVars>>

\* blockReadTimeout is longer than all time-outs of the loop together.
ClientTimeout ==
  /\ client.pc = "waiting" /\ Quiet
  /\ client' = [client EXCEPT !.pc = "timedOut"]
  /\ UNCHANGED <<wire, loop, text, tune, bounds, logVars>>

\* An answer reaches the client that waits for it; others are discarded.
Answer(code, body) ==
  IF client.pc # "waiting" THEN UNCHANGED <<client, faults>>
  ELSE \/ client' = [client EXCEPT !.pc = "answered", !.code = code, !.body = body]
          /\ UNCHANGED faults
       \/ /\ faults < MaxFaults /\ faults' = faults + 1
          /\ client' = [client EXCEPT !.faulty = TRUE]

NoAnswer == UNCHANGED <<client, faults>>

-----------------------------------------------------------------------------
(* runBinaryProtocolLoop *)

logOwn ==
  /\ scheduleLogging(Chars("m", TsMessage), "m", TsMessage)
  /\ UNCHANGED <<sniffer, logged>>

\* The first byte; handlePlainCommand answers a command without packet.
readFirstByte ==
  /\ loop.pc = "first" /\ rx # <<>>
  /\ rx' = Tail(rx)
  /\ \E plain \in MayBePlain(Head(rx)) :
       IF plain
       THEN /\ loop' = Reading
            /\ Answer("plain", <<>>)
            /\ logOwn
       ELSE /\ loop' = [Reading EXCEPT !.pc = "second",
                          !.genuine = Sent(Head(rx)) /\ Head(rx)[2] = 1]
            /\ NoAnswer /\ UNCHANGED logVars
  /\ UNCHANGED <<line, text, tune, requests>>

\* Mutant: only the body has to fit in the buffer.
sizeIsValid_NoWrapping(size) == size \in 1 .. crcReadBuffer

sizeIsValid(size) == size \in 1 .. crcReadBuffer - CRC_WRAPPING_SIZE

readSecondByte ==
  /\ loop.pc = "second" /\ rx # <<>>
  /\ rx' = Tail(rx)
  /\ \E size \in SizesOf(loop.genuine, Head(rx)) :
       IF sizeIsValid(size)
       THEN /\ loop' = [loop EXCEPT !.pc = "command", !.size = size]
            /\ NoAnswer /\ UNCHANGED logVars
       ELSE /\ loop' = Reading
            /\ Answer("error", <<>>)
            /\ logOwn
  /\ UNCHANGED <<line, text, tune, requests>>

readCommand ==
  /\ loop.pc = "command" /\ rx # <<>>
  /\ rx' = Tail(rx)
  /\ \E command \in CommandsOf(Head(rx)) :
       IF command # "unknown"     \* isKnownCommand
       THEN /\ loop' = [loop EXCEPT !.pc = "rest", !.data = <<Head(rx)>>]
            /\ NoAnswer /\ UNCHANGED logVars
       ELSE /\ loop' = Reading
            /\ Answer("error", <<>>)
            /\ logOwn
  /\ UNCHANGED <<line, text, tune, requests>>

\* Mutant: the CRC is not compared.
crcMatches_Ignored(data) == TRUE

\* The body is the one the CRC behind it was computed of.
crcMatches(data) ==
  LET r == data[1][1]
  IN /\ Sent(data[1]) /\ ~IsPlain(r)
     /\ data = SubSeq(Packet(r), 3, Len(Packet(r)))

expectedSize == loop.size + CRC_VALUE_SIZE - 1

\* The rest of the packet; a wrong CRC gets no answer.
readRest ==
  /\ loop.pc = "rest" /\ Len(rx) >= expectedSize
  /\ rx' = SubSeq(rx, expectedSize + 1, Len(rx))
  /\ LET data == loop.data \o SubSeq(rx, 1, expectedSize)
     IN IF crcMatches(data)
        THEN loop' = [loop EXCEPT !.pc = "handle", !.data = data] /\ UNCHANGED logVars
        ELSE loop' = Reading /\ logOwn
  /\ UNCHANGED <<line, text, tune, client, bounds>>

\* Mutant: a read of a whole packet has no time-out.
readTimeout_NotRest ==
  /\ loop.pc \in {"second", "command"} /\ rx = <<>>
  /\ loop' = Reading
  /\ NoAnswer /\ logOwn
  /\ UNCHANGED <<wire, text, tune, requests>>

\* sr5ReadData gives up: what it has read is gone, and only an incomplete body is
\* answered.
readTimeout ==
  /\ loop.pc \in {"second", "command", "rest"}
  /\ Len(rx) < (IF loop.pc = "rest" THEN expectedSize ELSE 1)
  /\ rx' = <<>>
  /\ loop' = Reading
  /\ IF loop.pc = "rest" THEN Answer("underrun", <<>>) ELSE NoAnswer
  /\ logOwn
  /\ UNCHANGED <<line, text, tune, requests>>

-----------------------------------------------------------------------------
(* tunerStudioHandleCrcCommand *)

Handling(commands) ==
  /\ loop.pc = "handle"
  /\ CommandsOf(loop.data[1]) \cap commands # {}
  /\ loop' = Reading

\* The commands whose answer changes nothing: queries, the first page, and reads, which
\* are told apart by whether what they ask for is there.
handleQueryCommand ==
  /\ Handling({"query"})
  /\ \E r \in DOMAIN Requests :
       r = loop.data[1][1] /\ Answer(IF OutOfRange(r) THEN "error" ELSE "ok", <<>>)
  /\ logOwn
  /\ UNCHANGED <<wire, text, tune, requests>>

\* TS_SET_LOGGER_MODE with an unknown mode, handleGetStructContent with an unknown
\* structure, handlePageReadCommand of another page: no answer at all.
ignoreCommand ==
  /\ Handling({"ignored"})
  /\ NoAnswer /\ logOwn
  /\ UNCHANGED <<wire, text, tune, requests>>

\* handleExecuteCommand answers before the console line is run.
handleExecuteCommand ==
  /\ loop.pc = "handle"
  /\ \E r \in DOMAIN Requests :
       /\ r = loop.data[1][1] /\ Requests[r].command \in {"execute", "reset"}
       /\ loop' = Running(r)
  /\ Answer("commandOk", <<>>) /\ logOwn
  /\ UNCHANGED <<wire, text, tune, requests>>

\* console_line_callback: most of what sets something sets it in the tune in use only; a
\* reset fills that with defaults and copies it to the working copy (syncTunerStudioCopy).
\* What the line prints is among the other messages.
runConsoleLine ==
  /\ loop.pc = "execute" /\ loop' = Reading
  /\ LET request == Requests[loop.console]
     IN IF request.command = "reset"
        THEN /\ persistent' = [o \in Offsets |-> InitialValue]
             /\ workingCopy' = persistent'
        ELSE /\ persistent' = [o \in Offsets |->
                  IF o - request.offset + 1 \in DOMAIN request.values
                  THEN request.values[o - request.offset + 1] ELSE persistent[o]]
             /\ UNCHANGED workingCopy
  /\ UNCHANGED <<wire, text, client, bounds, logVars>>

writeOffset == OffsetOf(loop.data[2])
writeCount == loop.size - 2

\* An overrun of the page.
validateOffsetCount(offset, count) == offset + count > PageSize

\* onlineApplyWorkingCopyBytes: the part behind engine_configuration_s takes effect at
\* once, if the write starts there.
onlineApplyWorkingCopyBytes(offset, count) ==
  persistent' = IF offset < SoftOffset THEN persistent
                ELSE [o \in Offsets |-> IF o \in offset .. offset + count - 1
                                        THEN workingCopy'[o] ELSE persistent[o]]

write(offset, count) ==
  /\ workingCopy' = [o \in Offsets |-> IF o \in offset .. offset + count - 1
                                       THEN ValueAt(loop.data, o - offset + 3)
                                       ELSE workingCopy[o]]
  /\ onlineApplyWorkingCopyBytes(offset, count)

handleWriteChunkCommand ==
  /\ Handling({"chunk"})
  /\ IF validateOffsetCount(writeOffset, writeCount)
     THEN Answer("error", <<>>) /\ UNCHANGED tune
     ELSE write(writeOffset, writeCount) /\ Answer("ok", <<>>)
  /\ logOwn
  /\ UNCHANGED <<wire, text, requests>>

\* handleWriteValueCommand answers only what is out of range.
handleWriteValueCommand ==
  /\ Handling({"single"})
  /\ IF validateOffsetCount(writeOffset, 1)
     THEN Answer("error", <<>>) /\ UNCHANGED tune
     ELSE write(writeOffset, 1) /\ NoAnswer
  /\ logOwn
  /\ UNCHANGED <<wire, text, requests>>

\* Mutant: the working copy is not copied.
handleBurnCommand_NoCopy ==
  /\ Handling({"burn"})
  /\ Answer("burnOk", <<>>) /\ logOwn
  /\ UNCHANGED <<wire, text, tune, requests>>

handleBurnCommand ==
  /\ Handling({"burn"})
  /\ persistent' = workingCopy
  /\ Answer("burnOk", <<>>) /\ logOwn
  /\ UNCHANGED <<wire, text, workingCopy, requests>>

\* handleGetText: printOverallStatus publishes the chart,
handleGetText ==
  /\ loop.pc = "handle" /\ "text" \in CommandsOf(loop.data[1])
  /\ loop' = [loop EXCEPT !.pc = "publish"]
  /\ publisher' = [publisher EXCEPT !.pc = "check"]
  /\ UNCHANGED <<wire, text, tune, client, bounds, log, chart, logged>>

publishChart == Publish /\ UNCHANGED tsVars

\* the buffers are swapped, and sr5WriteCrcPacket computes the CRC of the text,
getTextSwap ==
  /\ loop.pc = "publish" /\ publisher.pc = "done"
  /\ publisher' = [publisher EXCEPT !.pc = "idle"]
  /\ text' = [crc |-> Text(pendingBuffers[accumulationBuffer]), logged |-> accepted]
  /\ swapOutputBuffers
  /\ loop' = [loop EXCEPT !.pc = "send"]
  /\ UNCHANGED <<wire, tune, client, bounds, chart, logged>>

\* and the text is sent.
getTextSend ==
  /\ loop.pc = "send"
  /\ Answer("commandOk", [i \in 1 .. Len(text.crc) |-> pendingBuffers[outputBuffer][i - 1]])
  /\ loop' = Reading
  /\ UNCHANGED <<wire, text, tune, requests, logVars>>

-----------------------------------------------------------------------------
Init ==
  /\ LogInit
  /\ line = <<>> /\ rx = <<>> /\ loop = Reading /\ text = NoText
  /\ workingCopy = [o \in Offsets |-> InitialValue]
  /\ persistent = workingCopy
  /\ client = [pc |-> "idle", r |-> 0, faulty |-> FALSE, code |-> "none", body |-> <<>>]
  /\ requests = 0 /\ faults = 0

tsThread ==
  \/ readFirstByte \/ readSecondByte \/ readCommand \/ readRest \/ readTimeout
  \/ handleQueryCommand \/ ignoreCommand \/ handleExecuteCommand \/ runConsoleLine
  \/ handleWriteChunkCommand \/ handleWriteValueCommand \/ handleBurnCommand
  \/ handleGetText \/ publishChart \/ getTextSwap \/ getTextSend

Next ==
  \/ \E r \in DOMAIN Requests : Send(r)
  \/ DeliverLate
  \/ ClientTimeout
  \/ tsThread
  \/ LogNext /\ UNCHANGED tsVars

Spec == Init /\ [][Next]_vars

\* The thread is scheduled, late bytes arrive, and the client gives up some time.
FairSpec == Spec /\ WF_vars(tsThread) /\ WF_vars(DeliverLate) /\ WF_vars(ClientTimeout)

-----------------------------------------------------------------------------
Codes == {"none", "plain", "ok", "error", "underrun", "commandOk", "burnOk"}
LoopStates ==
  [pc : {"first", "second", "command", "rest", "handle", "execute", "publish", "send"},
   genuine : BOOLEAN, size : Nat, data : Seq(Tokens), console : {0} \cup DOMAIN Requests]
ClientStates ==
  [pc : {"idle", "waiting", "answered", "timedOut"}, r : Nat, faulty : BOOLEAN,
   code : Codes, body : Seq(Characters \cup {NUL})]

\* The state is well formed.
TypeOK ==
  /\ LogTypeOK
  /\ line \in Seq(Tokens) /\ rx \in Seq(Tokens)
  /\ loop \in LoopStates
  /\ text \in [crc : Seq(Characters), logged : Seq(Characters)]
  /\ Len(text.crc) <= DL_OUTPUT_BUFFER
  /\ DOMAIN workingCopy = Offsets /\ DOMAIN persistent = Offsets
  /\ client \in ClientStates
  /\ requests \in Nat /\ faults \in Nat

\* Whatever size the line announces and whatever is logged, runBinaryProtocolLoop reads
\* no further than crcReadBuffer (where handleExecuteCommand terminates its text), and
\* the accumulated log keeps clear of the reserve of its buffer.
BuffersHold ==
  /\ loop.pc \in {"rest", "handle"} => 1 + expectedSize <= crcReadBuffer
  /\ accumulatedSize < MAX_DL_CAPACITY

Request == Requests[client.r]
Answered(command, code) ==
  /\ client.pc = "answered" /\ client.code = code
  /\ Request.command = command

\* An acknowledged write is in the working copy, and in use at once if it starts in the
\* tables; an acknowledged burn has put all of the working copy in use.  This must hold
\* whatever the line did to earlier requests.
AckMeansApplied ==
  /\ Answered("chunk", "ok") =>
       \A i \in DOMAIN Request.values :
         LET o == Request.offset + i - 1
         IN /\ workingCopy[o] = Request.values[i]
            /\ Request.offset >= SoftOffset => persistent[o] = Request.values[i]
  /\ Answered("burn", "burnOk") => persistent = workingCopy

\* The tune only ever holds values that a write of the client, or a console line it sent,
\* puts at that place: neither a damaged packet nor bytes left over from one are taken for a
\* write.
TuneWasSent ==
  \A o \in Offsets : \A copy \in {workingCopy[o], persistent[o]} :
    \/ copy = InitialValue
    \/ \E r \in DOMAIN Requests :
         /\ HasOffset(r) \/ Requests[r].command = "execute"
         /\ o - Requests[r].offset + 1 \in DOMAIN Requests[r].values
         /\ copy = Requests[r].values[o - Requests[r].offset + 1]

\* The text the client receives is the one its CRC was computed of, and all of what was
\* logged since the last swap, although other threads and interrupts go on logging while
\* it is sent.
TextIsWhole ==
  Answered("text", "commandOk") => client.body = text.crc /\ client.body = text.logged

\* The byte of the client's request that holds its command.
CommandByte == <<client.r, 3>>

\* The client waits, and the command of its request has not been handled or lost.
Open ==
  /\ client.pc = "waiting"
  /\ \E bytes \in {line, rx, loop.data} : \E i \in DOMAIN bytes : bytes[i] = CommandByte

Session == INSTANCE TuneSession WITH
             pc <- client.pc, asked <- client.r, code <- client.code, open <- Open,
             running <- loop.console

\* The protocol implements the session a client relies on: whatever the line loses,
\* garbles or delays, a request is carried out as a whole, once or not at all, only while
\* its client waits, and in the order of the requests, although a console line takes effect
\* after its answer and perhaps after the next request was sent; nothing left over of a
\* request that was answered or given up has an effect.
ImplementsTuneSession == Session!Spec

\* What the client is told by a handler.
Expected(r) ==
  CASE IsPlain(r) -> "plain"
    [] (HasOffset(r) \/ Requests[r].command = "query") /\ OutOfRange(r) -> "error"
    [] Requests[r].command \in {"chunk", "query"} -> "ok"
    [] Requests[r].command = "burn" -> "burnOk"
    [] Requests[r].command \in {"text", "execute", "reset"} -> "commandOk"
    [] OTHER -> "none"

\* A client is never left waiting, and a request that met no fault is answered by its
\* handler or, if that gives no answer, times out: the loop finds the start of a packet
\* again after any damaged one, and never waits for bytes that will not come.
RequestSettles ==
  client.pc = "waiting" ~>
     \/ client.pc \in {"answered", "timedOut"} /\ client.faulty
     \/ client.pc = "answered" /\ client.code = Expected(client.r)
     \/ client.pc = "timedOut" /\ Expected(client.r) = "none"
===============================================================================
