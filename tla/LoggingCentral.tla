---------------------------- MODULE LoggingCentral ----------------------------
(***************************************************************************)
(* The text log: every thread and interrupt appends whole messages to the  *)
(* accumulation buffer under the system lock, and the thread that talks to *)
(* the console swaps it with the output buffer, which it then sends at its *)
(* leisure.  The engine sniffer's chart is a message that grows event by   *)
(* event in interrupts and is handed over just before the swap.  A         *)
(* character is "m" in a message, "c" in the chart.                        *)
(***************************************************************************)
EXTENDS Integers, Sequences

CONSTANTS DL_OUTPUT_BUFFER,
          MessageLengths,        \* lengths of a message of scheduleMsg
          engineChartSize,       \* events in a full chart
          ChartRoom,             \* characters in a chart that has no room for an event
          ChartMayBeOld,         \* may a chart be handed over because of its age
          MaxMessages, MaxEvents \* model bounds: messages and chart events logged

ASSUME LoggingAssumption ==
  /\ DL_OUTPUT_BUFFER \in Nat /\ DL_OUTPUT_BUFFER > 5
  /\ MessageLengths \subseteq Nat \ {0}
  /\ engineChartSize \in Nat \ {0} /\ ChartRoom \in Nat /\ ChartMayBeOld \in BOOLEAN
  /\ MaxMessages \in Nat /\ MaxEvents \in Nat

\* A byte for the terminator, two for CR and LF, a couple of bytes just in case.
MAX_DL_CAPACITY == DL_OUTPUT_BUFFER - 5

NUL == "0"
Characters == {"m", "c"}
Cells == 0 .. DL_OUTPUT_BUFFER - 1

VARIABLES pendingBuffers,      \* pendingBuffers0 and pendingBuffers1
          accumulationBuffer,  \* the index of the one that is written; the other is outputBuffer
          accumulatedSize,
          chart,               \* WaveChart: the text up to linePointer, and counter
          publisher,           \* the TunerStudio thread in WaveChart::publishIfFull
          accepted,            \* history: what was logged since the last swap
          logged               \* messages and events so far

log == <<pendingBuffers, accumulationBuffer, accumulatedSize, accepted>>
sniffer == <<chart, publisher>>
logVars == <<log, sniffer, logged>>

outputBuffer == 1 - accumulationBuffer

Chars(c, n) == [i \in 1 .. n |-> c]

\* efiStrlen; 0 to n are the cells of the array.
strlen(cells) ==
  CHOOSE n \in 0 .. DL_OUTPUT_BUFFER :
    /\ \A i \in 0 .. n - 1 : cells[i] # NUL
    /\ n = DL_OUTPUT_BUFFER \/ cells[n] = NUL

Text(cells) == [i \in 1 .. strlen(cells) |-> cells[i - 1]]

\* What a message's own buffer holds at index n: behind the terminator there are
\* characters of earlier, longer contents.
CharAt(text, c, n) == IF n = Len(text) THEN NUL ELSE c

-----------------------------------------------------------------------------
\* initLoggingCentral, WaveChart::init.
ChartHeader == [text |-> Chars("c", 1), counter |-> 0]

LogInit ==
  /\ pendingBuffers = [b \in {0, 1} |-> [i \in Cells |-> NUL]]
  /\ accumulationBuffer = 0 /\ accumulatedSize = 0 /\ accepted = <<>>
  /\ chart = ChartHeader /\ publisher = [pc |-> "idle", newLength |-> 0]
  /\ logged = [messages |-> 0, events |-> 0]

\* Otherwise the message is dropped: nobody is consuming the data.
fits(newLength) == accumulatedSize + newLength < MAX_DL_CAPACITY

\* scheduleLogging under the lock: newLength characters and the one behind them are
\* copied; newLength may have been measured earlier.
appendText(text, c, newLength) ==
  /\ pendingBuffers' = [pendingBuffers EXCEPT ![accumulationBuffer] =
       [i \in Cells |-> IF i \in accumulatedSize .. accumulatedSize + newLength
                        THEN CharAt(text, c, i - accumulatedSize) ELSE @[i]]]
  /\ accumulatedSize' = accumulatedSize + newLength
  /\ accepted' = accepted \o text
  /\ UNCHANGED accumulationBuffer

scheduleLogging(text, c, newLength) ==
  IF fits(newLength) THEN appendText(text, c, newLength) ELSE UNCHANGED log

\* scheduleMsg, from any thread or interrupt, under the lock from end to end.
scheduleMsg(length) ==
  /\ logged.messages < MaxMessages
  /\ logged' = [logged EXCEPT !.messages = @ + 1]
  /\ scheduleLogging(Chars("m", length), "m", length)
  /\ UNCHANGED sniffer

\* Mutant: the buffers do not change their roles.
swapOutputBuffers_SameBuffer ==
  /\ pendingBuffers' = [pendingBuffers EXCEPT ![accumulationBuffer] = [@ EXCEPT ![0] = NUL]]
  /\ accumulatedSize' = 0
  /\ accepted' = <<>>
  /\ UNCHANGED accumulationBuffer

\* Mutant: the accumulated size is not reset.
swapOutputBuffers_SizeKept ==
  /\ pendingBuffers' = [pendingBuffers EXCEPT ![outputBuffer] = [@ EXCEPT ![0] = NUL]]
  /\ accumulationBuffer' = outputBuffer
  /\ accepted' = <<>>
  /\ UNCHANGED accumulatedSize

\* Under the lock, the buffers change their roles and the new one is made empty.
swapOutputBuffers ==
  /\ pendingBuffers' = [pendingBuffers EXCEPT ![outputBuffer] = [@ EXCEPT ![0] = NUL]]
  /\ accumulationBuffer' = outputBuffer
  /\ accumulatedSize' = 0
  /\ accepted' = <<>>

-----------------------------------------------------------------------------
(* The engine sniffer *)

isFull == chart.counter >= engineChartSize

\* An event is counted, and its text is left out when there is no room for it.
recorded(c) == [text |-> IF Len(c.text) < ChartRoom THEN Append(c.text, "c") ELSE c.text,
                counter |-> c.counter + 1]

\* addEvent3, in an interrupt.  A full chart takes no more events, but that is checked
\* before the lock is taken: an interrupt that comes in between records its event as well.
addEvent3 ==
  /\ ~isFull
  /\ chart' \in {recorded(chart), recorded(recorded(chart))}
  /\ logged' = [messages |-> logged.messages,
                events |-> logged.events + chart'.counter - chart.counter]
  /\ logged'.events <= MaxEvents
  /\ UNCHANGED <<log, publisher>>

\* publishIfFull, in the thread that is about to swap the buffers: the delimiter,
publishIfFull ==
  /\ publisher.pc = "check"
  /\ IF isFull \/ (ChartMayBeOld /\ chart.counter > 0)
     THEN /\ chart' = [chart EXCEPT !.text = Append(@, "c")]
          /\ publisher' = [publisher EXCEPT !.pc = "measure"]
     ELSE /\ publisher' = [publisher EXCEPT !.pc = "done"]
          /\ UNCHANGED chart
  /\ UNCHANGED <<log, logged>>

\* the length ("this could be done without locking"),
publishMeasure ==
  /\ publisher.pc = "measure"
  /\ publisher' = [pc |-> "copy", newLength |-> Len(chart.text)]
  /\ UNCHANGED <<log, chart, logged>>

\* the locked copy and resetLogging,
publishCopy ==
  /\ publisher.pc = "copy"
  /\ scheduleLogging(chart.text, "c", publisher.newLength)
  /\ chart' = [chart EXCEPT !.text = <<>>]
  /\ publisher' = [pc |-> "reset", newLength |-> 0]
  /\ UNCHANGED logged

\* and the new chart.
publishReset ==
  /\ publisher.pc = "reset"
  /\ chart' = ChartHeader
  /\ publisher' = [publisher EXCEPT !.pc = "done"]
  /\ UNCHANGED <<log, logged>>

Publish == publishIfFull \/ publishMeasure \/ publishCopy \/ publishReset

\* Interrupts and the other threads.
LogNext ==
  \/ \E length \in MessageLengths : scheduleMsg(length)
  \/ addEvent3

-----------------------------------------------------------------------------
\* The log's state is well formed, and the accumulated text and its terminator leave
\* the reserve of the buffer alone.
LogTypeOK ==
  /\ pendingBuffers \in [{0, 1} -> [Cells -> Characters \cup {NUL}]]
  /\ accumulationBuffer \in {0, 1}
  /\ accumulatedSize \in 0 .. MAX_DL_CAPACITY - 1
  /\ accepted \in Seq(Characters)
  /\ chart \in [text : Seq({"c"}), counter : Nat]
  /\ publisher \in [pc : {"idle", "check", "measure", "copy", "reset", "done"},
                    newLength : Nat]
  /\ logged \in [messages : Nat, events : Nat]

\* The text in the accumulation buffer is what was logged since the last swap, whole
\* messages one after the other, and accumulatedSize is its length: otherwise
\* swapOutputBuffers reports "lsize mismatch" as a firmware error.
SizeMatches ==
  /\ strlen(pendingBuffers[accumulationBuffer]) = accumulatedSize
  /\ Text(pendingBuffers[accumulationBuffer]) = accepted
=============================================================================
