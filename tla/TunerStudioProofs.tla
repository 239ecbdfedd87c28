-------------------------- MODULE TunerStudioProofs --------------------------
(***************************************************************************)
(* Proofs about TunerStudio and LoggingCentral, for all requests of the    *)
(* client, all faults of the line, all sizes of the buffers and all        *)
(* messages of the log.  PacketInv relates what is on the line and in the  *)
(* loop to the client's last request: every byte is its own or damaged,    *)
(* the command byte comes once, and only a whole packet is handled.  LogInv*)
(* and SendInv follow the text through the two buffers.  SessionInv adds   *)
(* where the command byte may be, for the refinement of TuneSession.       *)
(***************************************************************************)
EXTENDS TunerStudio, TLAPS, SequenceTheorems, WellFoundedInduction

-----------------------------------------------------------------------------
(* The inductive invariants *)

\* What is left of a request when the next one is sent is nothing, so whatever is on the
\* line or has been read is of the client's last request, or damaged.
Own(r, s) == \A i \in DOMAIN s : Sent(s[i]) => s[i][1] = r

Absent(byte, s) == \A i \in DOMAIN s : s[i] # byte

AtMostOne(byte, s) == \A i, j \in DOMAIN s : s[i] = byte /\ s[j] = byte => i = j

\* A byte, if it is there, is among the first n.
Within(byte, s, n) == \A i \in DOMAIN s : s[i] = byte => i <= n

\* A byte is sent once: the line repeats nothing.
Once(byte, a, b) ==
  /\ AtMostOne(byte, a) /\ AtMostOne(byte, b)
  /\ Absent(byte, a) \/ Absent(byte, b)

WireInv ==
  /\ Own(client.r, rx) /\ Own(client.r, line) /\ Own(client.r, loop.data)
  /\ Once(CommandByte, rx, line)

\* The loop goes on with a size only if it is valid, and handles only what the CRC
\* vouches for.
LoopInv ==
  /\ loop.pc \in {"command", "rest", "handle"} => sizeIsValid(loop.size)
  /\ loop.pc = "rest" => Len(loop.data) = 1
  /\ loop.pc = "handle" => /\ crcMatches(loop.data)
                           /\ Len(loop.data) = loop.size + CRC_VALUE_SIZE

\* A console line is run only for a request that sent one, and with nothing else in hand.
ConsoleInv ==
  /\ IF loop.pc = "execute"
     THEN \E r \in DOMAIN Requests :
            Requests[r].command \in {"execute", "reset"} /\ loop = Running(r)
     ELSE loop.console = 0
  /\ loop.pc = "execute" /\ client.pc = "answered" =>
       Request.command \in {"execute", "reset"}

TextAnswered == Answered("text", "commandOk")

\* A request is handled once: when its command has been read it does not come again, and
\* the text a client was answered is not replaced while the client looks at it.
OnceInv ==
  /\ \/ loop.pc \in {"handle", "publish", "send"}
     \/ loop.pc = "rest" /\ loop.data[1] = CommandByte
     \/ TextAnswered
     => Absent(CommandByte, rx) /\ Absent(CommandByte, line)
  /\ TextAnswered =>
       \/ loop.pc \in {"first", "second", "command", "execute"}
       \/ loop.pc = "rest" /\ loop.data[1] # CommandByte

\* The accumulation buffer holds what was accepted, and a terminator behind it.
Accumulated(cells, size, characters) ==
  /\ Len(characters) = size
  /\ \A i \in 1 .. size : cells[i - 1] = characters[i]
  /\ cells[size] = NUL

\* A chart that is handed over is full: it does not grow between its measuring and its
\* copying.
ChartInv ==
  /\ publisher.pc \in {"measure", "copy"} => isFull
  /\ publisher.pc = "copy" => publisher.newLength = Len(chart.text)

LogInv ==
  /\ ChartInv
  /\ Accumulated(pendingBuffers[accumulationBuffer], accumulatedSize, accepted)

\* While the text is sent, the buffer it is in is the one nobody writes to.
SendInv ==
  loop.pc = "send" =>
    /\ text.crc = text.logged
    /\ \A i \in 1 .. Len(text.crc) : pendingBuffers[outputBuffer][i - 1] = text.crc[i]

-----------------------------------------------------------------------------
(* The log *)

\* efiStrlen finds the first terminator, or the end of the array.
LEMMA StrlenFound ==
  ASSUME NEW cells \in [Cells -> Characters \cup {NUL}]
  PROVE  /\ strlen(cells) \in 0 .. DL_OUTPUT_BUFFER
         /\ \A i \in 0 .. strlen(cells) - 1 : cells[i] # NUL
         /\ strlen(cells) = DL_OUTPUT_BUFFER \/ cells[strlen(cells)] = NUL
<1>1. DL_OUTPUT_BUFFER \in Nat
  BY LoggingAssumption
<1> DEFINE Ends == {n \in 0 .. DL_OUTPUT_BUFFER : n = DL_OUTPUT_BUFFER \/ cells[n] = NUL}
           Smaller == OpToRel(<, Nat)
<1>2. DL_OUTPUT_BUFFER \in Ends /\ Ends \subseteq Nat
  BY <1>1
<1>3. PICK n \in Ends : \A m \in Ends : <<m, n>> \notin Smaller
  BY <1>2, NatLessThanWellFounded, WFMin
<1>4. ASSUME NEW i \in 0 .. n - 1 PROVE cells[i] # NUL
  <2>1. n \in 0 .. DL_OUTPUT_BUFFER
    OBVIOUS
  <2>2. i \in 0 .. DL_OUTPUT_BUFFER /\ n \in Nat /\ i < n /\ i \in Nat
    BY <1>1, <2>1
  <2>3. Smaller = {ss \in Nat \X Nat : ss[1] < ss[2]}
    BY Zenon DEF OpToRel
  <2> HIDE DEF Smaller
  <2>4. <<i, n>> \in Smaller
    BY <2>2, <2>3
  <2> QED
    BY <2>2, <2>4, <1>3
<1> HIDE DEF Smaller
<1>5. \E k \in 0 .. DL_OUTPUT_BUFFER :
        /\ \A i \in 0 .. k - 1 : cells[i] # NUL
        /\ k = DL_OUTPUT_BUFFER \/ cells[k] = NUL
  BY <1>3, <1>4
<1> QED
  BY <1>5 DEF strlen

\* The length of a text is the place of its terminator.
LEMMA StrlenIs ==
  ASSUME NEW cells \in [Cells -> Characters \cup {NUL}],
         NEW size \in 0 .. DL_OUTPUT_BUFFER - 1,
         \A i \in 0 .. size - 1 : cells[i] # NUL,
         cells[size] = NUL
  PROVE  strlen(cells) = size
<1>1. PICK n \in 0 .. DL_OUTPUT_BUFFER : n = strlen(cells)
  BY StrlenFound
<1>2. /\ \A i \in 0 .. n - 1 : cells[i] # NUL
      /\ n = DL_OUTPUT_BUFFER \/ cells[n] = NUL
  BY <1>1, StrlenFound
<1>3. ~(n < size)
  BY <1>2, LoggingAssumption
<1>4. ~(size < n)
  BY <1>2, LoggingAssumption
<1> QED
  BY <1>1, <1>3, <1>4, LoggingAssumption

\* A text has no terminator in it.
LEMMA TextType ==
  ASSUME NEW cells \in [Cells -> Characters \cup {NUL}]
  PROVE  Text(cells) \in Seq(Characters) /\ Len(Text(cells)) <= DL_OUTPUT_BUFFER
<1>1. PICK n \in 0 .. DL_OUTPUT_BUFFER : n = strlen(cells)
  BY StrlenFound
<1>2. \A i \in 0 .. n - 1 : cells[i] # NUL
  BY <1>1, StrlenFound
<1>3. DL_OUTPUT_BUFFER \in Nat
  BY LoggingAssumption
<1>4. \A i \in 1 .. n : cells[i - 1] \in Characters
  BY <1>2, <1>3 DEF Cells
<1>5. Text(cells) = [i \in 1 .. n |-> cells[i - 1]]
  BY <1>1 DEF Text
<1> QED
  BY <1>3, <1>4, <1>5

\* What is accumulated is found again as the text of the buffer.
LEMMA AccumulatedText ==
  ASSUME NEW cells \in [Cells -> Characters \cup {NUL}],
         NEW size \in 0 .. DL_OUTPUT_BUFFER - 1,
         NEW characters \in Seq(Characters),
         Accumulated(cells, size, characters)
  PROVE  strlen(cells) = size /\ Text(cells) = characters
<1>1. \A i \in 0 .. size - 1 : cells[i] # NUL
  <2> SUFFICES ASSUME NEW i \in 0 .. size - 1 PROVE cells[i] # NUL
    OBVIOUS
  <2>1. i + 1 \in 1 .. size /\ (i + 1) - 1 = i
    BY LoggingAssumption
  <2>2. cells[i] = characters[i + 1] /\ i + 1 \in 1 .. Len(characters)
    BY <2>1 DEF Accumulated
  <2>3. characters[i + 1] \in Characters
    BY <2>2
  <2> QED
    BY <2>2, <2>3 DEF Characters, NUL
<1>2. strlen(cells) = size
  BY <1>1, StrlenIs DEF Accumulated
<1>3. Text(cells) = [i \in 1 .. size |-> characters[i]]
  BY <1>2 DEF Text, Accumulated
<1>4. characters = [i \in 1 .. size |-> characters[i]]
  BY DEF Accumulated
<1> QED
  BY <1>2, <1>3, <1>4

\* The text of a message.
LEMMA CharsType ==
  ASSUME NEW S, NEW c \in S, NEW n \in Nat
  PROVE  /\ Chars(c, n) \in Seq(S) /\ Len(Chars(c, n)) = n
         /\ \A i \in 1 .. n : Chars(c, n)[i] = c
BY DEF Chars

\* A chart is a text.
LEMMA ChartText ==
  ASSUME NEW s \in Seq({"c"})
  PROVE  s \in Seq(Characters) /\ \A i \in 1 .. Len(s) : s[i] = "c"
<1>1. \A i \in 1 .. Len(s) : s[i] \in {"c"}
  OBVIOUS
<1>2. s \in [1 .. Len(s) -> Characters] /\ Len(s) \in Nat
  BY <1>1 DEF Characters
<1> QED
  BY <1>1, <1>2

\* What scheduleLogging leaves behind is a log again, whether the message fitted or not.
LEMMA ScheduleType ==
  ASSUME LogTypeOK, NEW characters \in Seq(Characters), NEW c \in Characters,
         NEW newLength \in Nat,
         scheduleLogging(characters, c, newLength)
  PROVE  /\ pendingBuffers' \in [{0, 1} -> [Cells -> Characters \cup {NUL}]]
         /\ accumulationBuffer' \in {0, 1}
         /\ accumulatedSize' \in 0 .. MAX_DL_CAPACITY - 1
         /\ accepted' \in Seq(Characters)
<1>1. CASE fits(newLength)
  <2>1. appendText(characters, c, newLength)
    BY <1>1 DEF scheduleLogging
  <2>2. PICK cells \in [Cells -> Characters \cup {NUL}] :
          /\ pendingBuffers' = [pendingBuffers EXCEPT ![accumulationBuffer] = cells]
    <3> DEFINE new == [i \in Cells |->
                        IF i \in accumulatedSize .. accumulatedSize + newLength
                        THEN CharAt(characters, c, i - accumulatedSize)
                        ELSE pendingBuffers[accumulationBuffer][i]]
    <3>1. new \in [Cells -> Characters \cup {NUL}]
      BY DEF LogTypeOK, CharAt
    <3> QED
      BY <2>1, <3>1 DEF appendText
  <2>3. accumulatedSize' \in 0 .. MAX_DL_CAPACITY - 1
    BY <1>1, <2>1, LoggingAssumption DEF LogTypeOK, appendText, fits, MAX_DL_CAPACITY
  <2> QED
    BY <2>1, <2>2, <2>3 DEF LogTypeOK, appendText
<1>2. CASE ~fits(newLength)
  BY <1>2 DEF scheduleLogging, log, LogTypeOK
<1> QED
  BY <1>1, <1>2

\* The thread's own messages.
LEMMA OwnMessage ==
  ASSUME LogTypeOK, logOwn
  PROVE  LogTypeOK'
<1>1. "m" \in Characters /\ TsMessage \in Nat
  BY DEF Characters, TsMessage
<1>2. Chars("m", TsMessage) \in Seq(Characters)
  BY <1>1, CharsType
<1>3. scheduleLogging(Chars("m", TsMessage), "m", TsMessage)
  BY DEF logOwn
<1>4. /\ pendingBuffers' \in [{0, 1} -> [Cells -> Characters \cup {NUL}]]
      /\ accumulationBuffer' \in {0, 1}
      /\ accumulatedSize' \in 0 .. MAX_DL_CAPACITY - 1
      /\ accepted' \in Seq(Characters)
  BY <1>1, <1>2, <1>3, ScheduleType, Zenon
<1> QED
  BY <1>4 DEF LogTypeOK, logOwn, sniffer

\* The other threads and the interrupts.
LEMMA OtherMessage ==
  ASSUME LogTypeOK, LogNext
  PROVE  LogTypeOK'
<1>1. ASSUME NEW length \in MessageLengths, scheduleMsg(length)
      PROVE  LogTypeOK'
  <2>1. length \in Nat
    BY LoggingAssumption
  <2>2. Chars("m", length) \in Seq(Characters) /\ "m" \in Characters
    <3>1. "m" \in Characters
      BY DEF Characters
    <3> QED
      BY <2>1, <3>1, CharsType
  <2>3. scheduleLogging(Chars("m", length), "m", length)
    BY <1>1 DEF scheduleMsg
  <2>4. logged' \in [messages : Nat, events : Nat]
    BY <1>1 DEF scheduleMsg, LogTypeOK
  <2>5. /\ pendingBuffers' \in [{0, 1} -> [Cells -> Characters \cup {NUL}]]
        /\ accumulationBuffer' \in {0, 1}
        /\ accumulatedSize' \in 0 .. MAX_DL_CAPACITY - 1
        /\ accepted' \in Seq(Characters)
    BY <2>1, <2>2, <2>3, ScheduleType, Zenon
  <2> QED
    BY <1>1, <2>4, <2>5 DEF LogTypeOK, scheduleMsg, sniffer
<1>2. CASE addEvent3
  <2> DEFINE Chart == [text : Seq({"c"}), counter : Nat]
  <2>1. ASSUME NEW c \in Chart
        PROVE  recorded(c) \in Chart /\ recorded(c).counter = c.counter + 1
    BY DEF recorded
  <2>2. chart \in Chart
    BY DEF LogTypeOK
  <2>3. chart' \in Chart /\ chart'.counter - chart.counter \in Nat
    <3>1. recorded(chart) \in Chart /\ recorded(chart).counter = chart.counter + 1
      BY <2>1, <2>2
    <3>2. /\ recorded(recorded(chart)) \in Chart
          /\ recorded(recorded(chart)).counter = chart.counter + 1 + 1
      BY <2>1, <3>1
    <3>3. chart' = recorded(chart) \/ chart' = recorded(recorded(chart))
      BY <1>2 DEF addEvent3
    <3>4. chart.counter \in Nat
      BY <2>2
    <3> HIDE DEF Chart
    <3>5. CASE chart' = recorded(chart)
      <4>1. chart' \in Chart /\ chart'.counter = chart.counter + 1
        BY <3>1, <3>5, Zenon
      <4> QED
        BY <4>1, <3>4
    <3>6. CASE chart' = recorded(recorded(chart))
      <4>1. chart' \in Chart /\ chart'.counter = chart.counter + 1 + 1
        BY <3>2, <3>6, Zenon
      <4> QED
        BY <4>1, <3>4
    <3> QED
      BY <3>3, <3>5, <3>6
  <2>4. logged' \in [messages : Nat, events : Nat]
    BY <1>2, <2>3 DEF addEvent3, LogTypeOK
  <2> QED
    BY <1>2, <2>3, <2>4 DEF addEvent3, LogTypeOK, log
<1> QED
  BY <1>1, <1>2 DEF LogNext

\* The publishing of the chart.
LEMMA PublishType ==
  ASSUME LogTypeOK, Publish
  PROVE  LogTypeOK'
<1>1. CASE publishIfFull
  <2>1. chart.text \in Seq({"c"}) /\ Append(chart.text, "c") \in Seq({"c"})
    BY DEF LogTypeOK
  <2>2. chart' = chart \/ chart' = [chart EXCEPT !.text = Append(@, "c")]
    BY <1>1 DEF publishIfFull
  <2>3. chart' \in [text : Seq({"c"}), counter : Nat]
    BY <2>1, <2>2 DEF LogTypeOK
  <2> QED
    BY <1>1, <2>3 DEF publishIfFull, LogTypeOK, log
<1>2. CASE publishMeasure
  BY <1>2 DEF publishMeasure, LogTypeOK, log
<1>3. CASE publishCopy
  <2>1. chart.text \in Seq({"c"}) /\ publisher.newLength \in Nat
    BY DEF LogTypeOK
  <2>2. chart.text \in Seq(Characters) /\ "c" \in Characters
    BY <2>1, ChartText DEF Characters
  <2>3. scheduleLogging(chart.text, "c", publisher.newLength)
    BY <1>3 DEF publishCopy
  <2>4. chart' \in [text : Seq({"c"}), counter : Nat]
    <3>1. chart' = [chart EXCEPT !.text = <<>>]
      BY <1>3 DEF publishCopy
    <3>2. <<>> \in Seq({"c"})
      OBVIOUS
    <3> QED
      BY <3>1, <3>2 DEF LogTypeOK
  <2>5. /\ pendingBuffers' \in [{0, 1} -> [Cells -> Characters \cup {NUL}]]
        /\ accumulationBuffer' \in {0, 1}
        /\ accumulatedSize' \in 0 .. MAX_DL_CAPACITY - 1
        /\ accepted' \in Seq(Characters)
    BY <2>1, <2>2, <2>3, ScheduleType, Zenon
  <2> QED
    BY <1>3, <2>4, <2>5 DEF publishCopy, LogTypeOK
<1>4. CASE publishReset
  <2>1. ChartHeader \in [text : Seq({"c"}), counter : Nat]
    <3>1. "c" \in {"c"} /\ 1 \in Nat
      OBVIOUS
    <3> QED
      BY <3>1, CharsType DEF ChartHeader
  <2> QED
    BY <1>4, <2>1 DEF publishReset, LogTypeOK, log
<1> QED
  BY <1>1, <1>2, <1>3, <1>4 DEF Publish

-----------------------------------------------------------------------------
(* The packets *)

\* The requests have the shape the client gives them.
LEMMA RequestShape ==
  ASSUME NEW r \in DOMAIN Requests
  PROVE  /\ r \in Nat /\ r # 0
         /\ Requests[r].offset \in Nat
         /\ Requests[r].values \in Seq(Nat)
         /\ BodySize(r) \in Nat \ {0}
         /\ HasOffset(r) => BodySize(r) = 2 + Len(Requests[r].values)
<1>1. Requests[r] \in [command : STRING, offset : Nat, values : Seq(Nat)]
  <2> DEFINE Shape == [command : STRING, offset : Nat, values : Seq(Nat)]
  <2>1. Requests \in Seq(Shape)
    BY RequestsAssumption
  <2> HIDE DEF Shape
  <2>2. Requests[r] \in Shape
    BY <2>1
  <2> QED
    BY <2>2 DEF Shape
<1>2. Len(Requests[r].values) \in Nat
  BY <1>1
<1>3. r \in Nat /\ r # 0
  BY RequestsAssumption
<1>4. CASE HasOffset(r)
  BY <1>1, <1>2, <1>3, <1>4 DEF BodySize
<1>5. CASE ~HasOffset(r)
  BY <1>1, <1>2, <1>3, <1>5 DEF BodySize
<1> QED
  BY <1>4, <1>5

\* The bytes of a packet are of its request, and one of them at most is the command.
LEMMA PacketShape ==
  ASSUME NEW r \in DOMAIN Requests
  PROVE  /\ Packet(r) \in Seq(Tokens)
         /\ \A i \in DOMAIN Packet(r) :
              /\ Packet(r)[i] \in {<<r, 0>>, <<r, i>>}
              /\ Packet(r)[i] # Corrupt
         /\ ~IsPlain(r) => /\ Len(Packet(r)) = BodySize(r) + 3
                           /\ \A i \in 1 .. BodySize(r) + 3 : Packet(r)[i] = <<r, i>>
<1>1. r \in Nat /\ r # 0 /\ BodySize(r) \in Nat
  BY RequestShape
<1>2. \A p \in Nat : <<r, p>> \in Tokens /\ <<r, p>> # Corrupt
  BY <1>1 DEF Tokens, Corrupt
<1>3. CASE IsPlain(r)
  <2>1. Packet(r) = <<<<r, 0>>>>
    BY <1>3 DEF Packet
  <2>2. <<r, 0>> \in Tokens /\ <<r, 0>> # Corrupt
    BY <1>2
  <2>3. DOMAIN Packet(r) = 1 .. 1 /\ Packet(r)[1] = <<r, 0>>
    BY <2>1
  <2>4. Packet(r) \in Seq(Tokens)
    BY <2>1, <2>2
  <2> QED
    BY <1>3, <2>2, <2>3, <2>4
<1>4. CASE ~IsPlain(r)
  <2>1. Packet(r) = [p \in 1 .. BodySize(r) + 3 |-> <<r, p>>]
    BY <1>4 DEF Packet
  <2>2. BodySize(r) + 3 \in Nat
    BY <1>1
  <2>3. \A p \in 1 .. BodySize(r) + 3 : <<r, p>> \in Tokens /\ <<r, p>> # Corrupt
    BY <1>2, <2>2
  <2>4. Packet(r) \in Seq(Tokens) /\ Len(Packet(r)) = BodySize(r) + 3
    BY <2>1, <2>2, <2>3
  <2> QED
    BY <2>1, <2>2, <2>3, <2>4
<1> QED
  BY <1>3, <1>4

\* A part of the line is found k bytes further in all of it,
PartOf(part, s, k) ==
  /\ part \in Seq(Tokens)
  /\ \A i \in DOMAIN part : i \in Nat /\ i + k \in DOMAIN s /\ part[i] = s[i + k]

\* as what is between two places of it,
LEMMA SubSeqIsPart ==
  ASSUME NEW s \in Seq(Tokens), NEW m \in 1 .. Len(s) + 1, NEW n \in 0 .. Len(s),
         NEW part, part = SubSeq(s, m, n)
  PROVE  PartOf(part, s, m - 1)
<1>1. part \in Seq(Tokens) /\ DOMAIN s = 1 .. Len(s) /\ Len(s) \in Nat
  BY SubSeqProperties
<1>2. \A i \in DOMAIN part :
        i \in Nat /\ i + (m - 1) \in DOMAIN s /\ part[i] = s[i + (m - 1)]
  <2>1. CASE m <= n + 1
    BY <1>1, <2>1, SubSeqProperties
  <2>2. CASE ~(m <= n + 1)
    <3>1. part = <<>>
      BY <2>2, SubSeqProperties
    <3> QED
      BY <3>1
  <2> QED
    BY <2>1, <2>2
<1> QED
  BY <1>1, <1>2 DEF PartOf

\* and keeps what is said of all of it.
LEMMA PartKeeps ==
  ASSUME NEW s, NEW part, NEW k \in Int, PartOf(part, s, k)
  PROVE  /\ part \in Seq(Tokens)
         /\ \A r : Own(r, s) => Own(r, part)
         /\ \A byte : Absent(byte, s) => Absent(byte, part)
         /\ \A byte : AtMostOne(byte, s) => AtMostOne(byte, part)
<1>1. \A r : Own(r, s) => Own(r, part)
  BY DEF Own, PartOf
<1>2. \A byte : Absent(byte, s) => Absent(byte, part)
  BY DEF Absent, PartOf
<1>3. ASSUME NEW byte, AtMostOne(byte, s),
             NEW i \in DOMAIN part, NEW j \in DOMAIN part,
             part[i] = byte, part[j] = byte
      PROVE  i = j
  <2>1. i + k = j + k
    BY <1>3 DEF AtMostOne, PartOf
  <2> QED
    BY <2>1 DEF PartOf
<1>4. \A byte : AtMostOne(byte, s) => AtMostOne(byte, part)
  BY <1>3 DEF AtMostOne
<1> QED
  BY <1>1, <1>2, <1>4 DEF PartOf

\* What is behind a byte,
LEMMA BehindByte ==
  ASSUME NEW s \in Seq(Tokens), NEW i \in 1 .. Len(s),
         NEW behind, behind = SubSeq(s, i + 1, Len(s))
  PROVE  /\ behind \in Seq(Tokens) /\ Len(behind) = Len(s) - i
         /\ \A j \in 1 .. Len(behind) : behind[j] = s[j + i]
<1>1. PICK n \in Nat : n = Len(s)
  OBVIOUS
<1>2. PICK m \in 1 .. n + 1 : m = i + 1
  BY <1>1
<1>3. behind = SubSeq(s, m, n)
  BY <1>1, <1>2
<1>4. \A k \in m .. n : s[k] \in Tokens
  BY <1>1, <1>2
<1>5. /\ behind \in Seq(Tokens) /\ Len(behind) = n - m + 1
      /\ \A j \in 1 .. n - m + 1 : behind[j] = s[m + j - 1]
  BY <1>1, <1>2, <1>3, <1>4, SubSeqProperties
<1>6. Len(behind) = n - i
  BY <1>1, <1>2, <1>5
<1>7. ASSUME NEW j \in 1 .. Len(behind) PROVE behind[j] = s[j + i]
  <2>1. j \in 1 .. n - m + 1 /\ m + j - 1 = j + i
    BY <1>2, <1>5
  <2> QED
    BY <1>5, <2>1
<1> QED
  BY <1>1, <1>5, <1>6, <1>7

\* and what is before it.
LEMMA BeforeByte ==
  ASSUME NEW s \in Seq(Tokens), NEW i \in 1 .. Len(s),
         NEW before, before = SubSeq(s, 1, i - 1)
  PROVE  /\ before \in Seq(Tokens) /\ Len(before) = i - 1
         /\ \A j \in 1 .. Len(before) : before[j] = s[j]
<1>1. PICK n \in Nat : n = i - 1 /\ n < Len(s)
  OBVIOUS
<1>2. before = SubSeq(s, 1, n)
  BY <1>1
<1>3. \A k \in 1 .. n : s[k] \in Tokens
  BY <1>1
<1>4. /\ before \in Seq(Tokens) /\ Len(before) = n
      /\ \A j \in 1 .. n : before[j] = s[j]
  BY <1>1, <1>2, <1>3, SubSeqProperties
<1> QED
  BY <1>1, <1>4

\* What a request puts on the line, whatever the fault: its own bytes, in their order,
\* none of them twice, and the command as the third byte at the latest.
LEMMA SendEffect ==
  ASSUME NEW r \in DOMAIN Requests, Send(r)
  PROVE  /\ rx' \in Seq(Tokens) /\ line' \in Seq(Tokens)
         /\ Own(r, rx') /\ Own(r, line')
         /\ Once(<<r, 3>>, rx', line')
         /\ Within(<<r, 3>>, rx', 3) /\ Within(<<r, 3>>, line', 3 - Len(rx'))
<1>1. PICK packet \in Seq(Tokens) : packet = Packet(r)
  BY PacketShape
<1>2. /\ r \in Nat /\ r # 0
      /\ DOMAIN packet = 1 .. Len(packet) /\ Len(packet) \in Nat
      /\ \A i \in DOMAIN packet : packet[i] \in {<<r, 0>>, <<r, i>>}
  BY <1>1, RequestShape, PacketShape
<1>3. Own(r, packet) /\ \A i \in DOMAIN packet : packet[i] = <<r, 3>> => i = 3
  BY <1>2 DEF Own
<1>4. /\ <<>> \in Seq(Tokens) /\ Own(r, <<>>) /\ Absent(<<r, 3>>, <<>>)
      /\ DOMAIN <<>> = {} /\ \A n : Within(<<r, 3>>, <<>>, n)
  BY DEF Own, Absent, Within
<1>5. CASE rx' = packet /\ line' = line
  <2>1. line = <<>>
    BY DEF Send, Quiet
  <2>2. Within(<<r, 3>>, packet, 3)
    BY <1>3 DEF Within
  <2> QED
    BY <1>3, <1>4, <1>5, <2>1, <2>2 DEF Once, AtMostOne
<1>6. CASE FaultyDelivery(r)
  <2>1. PICK i \in DOMAIN packet :
          \/ /\ rx' = SubSeq(packet, 1, i - 1) \o SubSeq(packet, i + 1, Len(packet))
             /\ line' = <<>>
          \/ rx' = [packet EXCEPT ![i] = Corrupt] /\ line' = <<>>
          \/ rx' = SubSeq(packet, 1, i - 1) /\ line' = SubSeq(packet, i, Len(packet))
    BY <1>1, <1>6 DEF FaultyDelivery
  <2>2. /\ i \in 1 .. Len(packet) + 1 /\ i + 1 \in 1 .. Len(packet) + 1
        /\ i - 1 \in 0 .. Len(packet) /\ i \in Nat
        /\ 1 \in 1 .. Len(packet) + 1 /\ Len(packet) \in 0 .. Len(packet)
    BY <1>2
  <2>6. packet \in Seq(Tokens) /\ i \in 1 .. Len(packet)
    BY <1>2
  <2>3. CASE /\ rx' = SubSeq(packet, 1, i - 1) \o SubSeq(packet, i + 1, Len(packet))
             /\ line' = <<>>
    <3>1. PICK before : before = SubSeq(packet, 1, i - 1)
      OBVIOUS
    <3>2. PICK behind : behind = SubSeq(packet, i + 1, Len(packet))
      OBVIOUS
    <3>3. /\ before \in Seq(Tokens) /\ Len(before) = i - 1
          /\ \A j \in 1 .. Len(before) : before[j] = packet[j]
      BY ONLY <2>6, <3>1, BeforeByte
    <3>4. /\ behind \in Seq(Tokens) /\ Len(behind) = Len(packet) - i
          /\ \A j \in 1 .. Len(behind) : behind[j] = packet[j + i]
      BY ONLY <2>6, <3>2, BehindByte
    <3>5. /\ rx' \in Seq(Tokens) /\ Len(rx') = Len(packet) - 1
          /\ \A j \in 1 .. Len(rx') : rx'[j] = IF j < i THEN packet[j] ELSE packet[j + 1]
      <4>1. PICK both : both = before \o behind
        OBVIOUS
      <4>2. /\ both \in Seq(Tokens) /\ Len(both) = Len(before) + Len(behind)
            /\ \A j \in 1 .. Len(before) + Len(behind) :
                 both[j] = IF j <= Len(before) THEN before[j] ELSE behind[j - Len(before)]
        BY <4>1, <3>3, <3>4, ConcatProperties
      <4>3. rx' = both /\ Len(both) = Len(packet) - 1
        <5>1. rx' = both
          BY <2>3, <3>1, <3>2, <4>1, Zenon
        <5>2. Len(both) = Len(packet) - 1
          BY <3>3, <3>4, <4>2, <1>2, <2>2
        <5> QED
          BY <5>1, <5>2
      <4>4. ASSUME NEW j \in 1 .. Len(both)
            PROVE  both[j] = IF j < i THEN packet[j] ELSE packet[j + 1]
        <5>1. CASE j < i
          BY <5>1, <4>2, <4>3, <3>3, <1>2, <2>2
        <5>2. CASE ~(j < i)
          <6>1. j - (i - 1) \in 1 .. Len(behind) /\ j - (i - 1) + i = j + 1
            BY <5>2, <4>3, <3>4, <1>2, <2>2
          <6>2. both[j] = behind[j - (i - 1)]
            BY <5>2, <4>2, <3>3, <1>2, <2>2
          <6> QED
            BY <6>1, <6>2, <5>2, <3>4
        <5> QED
          BY <5>1, <5>2
      <4> QED
        BY <4>2, <4>3, <4>4
    <3>6. \A j \in DOMAIN rx' :
            /\ j \in Nat /\ j \in DOMAIN packet /\ j + 1 \in DOMAIN packet
            /\ rx'[j] = packet[IF j < i THEN j ELSE j + 1]
      BY <3>5, <1>2, <2>2
    <3>7. Own(r, rx')
      BY <3>6, <1>3 DEF Own
    <3>8. ASSUME NEW j \in DOMAIN rx', NEW k \in DOMAIN rx',
                 rx'[j] = <<r, 3>>, rx'[k] = <<r, 3>>
          PROVE  j = k
      <4>1. (IF j < i THEN j ELSE j + 1) = 3
        BY <3>6, <3>8, <1>3
      <4>2. (IF k < i THEN k ELSE k + 1) = 3
        BY <3>6, <3>8, <1>3
      <4> QED
        BY <4>1, <4>2, <3>6, <2>2
    <3>9. ASSUME NEW j \in DOMAIN rx', rx'[j] = <<r, 3>>
          PROVE  j <= 3
      <4>1. (IF j < i THEN j ELSE j + 1) = 3
        BY <3>6, <3>9, <1>3
      <4> QED
        BY <4>1, <3>6, <2>2
    <3>10. Within(<<r, 3>>, rx', 3)
      BY <3>9 DEF Within
    <3>11. Once(<<r, 3>>, rx', line')
      BY <2>3, <3>8, <1>4 DEF Once, AtMostOne
    <3>12. line' \in Seq(Tokens) /\ Own(r, line') /\ Within(<<r, 3>>, line', 3 - Len(rx'))
      BY <2>3, <1>4, Zenon
    <3> QED
      BY <3>5, <3>7, <3>10, <3>11, <3>12
  <2>4. CASE rx' = [packet EXCEPT ![i] = Corrupt] /\ line' = <<>>
    <3>1. Corrupt \in Tokens /\ ~Sent(Corrupt) /\ Corrupt # <<r, 3>>
      BY <1>2 DEF Tokens, Corrupt, Sent
    <3>2. /\ rx' \in Seq(Tokens) /\ DOMAIN rx' = DOMAIN packet
          /\ \A j \in DOMAIN packet : rx'[j] = IF j = i THEN Corrupt ELSE packet[j]
      BY <2>4, <3>1
    <3>3. Within(<<r, 3>>, rx', 3)
      <4>1. ASSUME NEW j \in DOMAIN rx', rx'[j] = <<r, 3>> PROVE j = 3
        BY <3>1, <3>2, <1>3, <4>1
      <4> QED
        BY <4>1 DEF Within
    <3>4. Once(<<r, 3>>, rx', line')
      BY <3>1, <3>2, <2>4, <1>3, <1>4 DEF Once, AtMostOne
    <3>5. Own(r, rx')
      BY <3>1, <3>2, <1>3 DEF Own
    <3>6. line' \in Seq(Tokens) /\ Own(r, line') /\ Within(<<r, 3>>, line', 3 - Len(rx'))
      BY <2>4, <1>4, Zenon
    <3> QED
      BY <3>2, <3>3, <3>4, <3>5, <3>6
  <2>5. CASE rx' = SubSeq(packet, 1, i - 1) /\ line' = SubSeq(packet, i, Len(packet))
    <3>1. PICK before : before = SubSeq(packet, 1, i - 1)
      OBVIOUS
    <3>2. PICK late : late = SubSeq(packet, i, Len(packet))
      OBVIOUS
    <3>3. rx' = before /\ line' = late
      BY <2>5, <3>1, <3>2, Zenon
    <3>4. AtMostOne(<<r, 3>>, packet)
      BY <1>3 DEF AtMostOne
    <3>5. PartOf(before, packet, 0)
      <4>1. PartOf(before, packet, 1 - 1)
        BY <3>1, <2>2, SubSeqIsPart, Zenon
      <4> QED
        BY <4>1
    <3>6. PartOf(late, packet, i - 1)
      BY <3>2, <2>2, SubSeqIsPart, Zenon
    <3>7. Len(before) = i - 1
      BY ONLY <2>6, <3>1, BeforeByte
    <3>8. /\ \A j \in DOMAIN before : j < i /\ before[j] = packet[j]
          /\ \A j \in DOMAIN late : 1 <= j
      BY <3>5, <3>6, <3>7, <2>2 DEF PartOf
    <3>9. Absent(<<r, 3>>, before) \/ Absent(<<r, 3>>, late)
      BY <3>5, <3>6, <3>8, <1>3, <2>2 DEF Absent, PartOf
    <3>10. /\ before \in Seq(Tokens) /\ Own(r, before) /\ AtMostOne(<<r, 3>>, before)
           /\ late \in Seq(Tokens) /\ Own(r, late) /\ AtMostOne(<<r, 3>>, late)
      BY <3>4, <3>5, <3>6, <1>3, <2>2, PartKeeps
    <3>11. ASSUME NEW j \in DOMAIN late, late[j] = <<r, 3>>
           PROVE  j <= 3 - Len(before)
      <4>1. j \in Nat /\ j + (i - 1) = 3
        BY <3>6, <3>11, <1>3 DEF PartOf
      <4> QED
        BY <4>1, <3>7, <2>2
    <3>12. Within(<<r, 3>>, before, 3)
      BY <3>8, <3>5, <1>3 DEF Within, PartOf
    <3>13. Within(<<r, 3>>, late, 3 - Len(before))
      BY <3>11 DEF Within
    <3> QED
      BY <3>3, <3>9, <3>10, <3>12, <3>13 DEF Once
  <2> QED
    BY <2>1, <2>3, <2>4, <2>5
<1> QED
  BY <1>1, <1>5, <1>6 DEF Send

-----------------------------------------------------------------------------
(* Type correctness *)

\* A step that logs nothing leaves the log well formed.
LEMMA LogUnchanged ==
  ASSUME LogTypeOK, UNCHANGED logVars
  PROVE  LogTypeOK'
BY DEF LogTypeOK, logVars, log, sniffer

\* The next byte, and what is behind it.
LEMMA NextByte ==
  ASSUME NEW s \in Seq(Tokens), s # <<>>
  PROVE  /\ Head(s) \in Tokens /\ Head(s) = s[1] /\ 1 \in DOMAIN s
         /\ PartOf(Tail(s), s, 1)
         /\ \A i \in DOMAIN Tail(s) : i + 1 # 1
BY DEF PartOf

\* Where the loop starts again.
LEMMA ReadingType ==
  /\ Reading \in LoopStates /\ Reading.pc = "first" /\ Reading.data = <<>>
  /\ Reading.console = 0
BY DEF Reading, LoopStates

\* What it is while a console line is run.
LEMMA RunningType ==
  ASSUME NEW r \in DOMAIN Requests
  PROVE  /\ Running(r) \in LoopStates /\ Running(r).pc = "execute"
         /\ Running(r).data = <<>> /\ Running(r).console = r /\ r # 0
<1>1. /\ Running(r).pc = "execute" /\ Running(r).data = <<>>
      /\ Running(r).console = r
  BY DEF Reading, Running
<1>2. Running(r) \in LoopStates
  BY ReadingType DEF Running, LoopStates
<1> QED
  BY <1>1, <1>2, RequestShape

\* An answer leaves a client and a count of faults.
LEMMA AnswerType ==
  ASSUME TypeOK, NEW code \in Codes, NEW body \in Seq(Characters \cup {NUL}),
         Answer(code, body)
  PROVE  client' \in ClientStates /\ faults' \in Nat
<1>1. CASE client' = client /\ faults' = faults
  BY <1>1 DEF TypeOK
<1>2. CASE /\ client' = [client EXCEPT !.pc = "answered", !.code = code, !.body = body]
           /\ faults' = faults
  <2> DEFINE Bodies == Seq(Characters \cup {NUL})
             Pcs == {"idle", "waiting", "answered", "timedOut"}
  <2>1. body \in Bodies /\ "answered" \in Pcs
    OBVIOUS
  <2>2. client \in [pc : Pcs, r : Nat, faulty : BOOLEAN, code : Codes, body : Bodies]
    BY DEF TypeOK, ClientStates
  <2>3. ClientStates = [pc : Pcs, r : Nat, faulty : BOOLEAN, code : Codes, body : Bodies]
    BY DEF ClientStates
  <2> HIDE DEF Bodies, Pcs
  <2>4. client' \in [pc : Pcs, r : Nat, faulty : BOOLEAN, code : Codes, body : Bodies]
    BY <1>2, <2>1, <2>2
  <2> QED
    BY <1>2, <2>3, <2>4 DEF TypeOK
<1>3. CASE client' = [client EXCEPT !.faulty = TRUE] /\ faults' = faults + 1
  <2>1. client \in ClientStates /\ faults \in Nat /\ TRUE \in BOOLEAN
    BY DEF TypeOK
  <2>2. client' \in ClientStates
    BY <1>3, <2>1, Zenon DEF ClientStates
  <2> QED
    BY <1>3, <2>1, <2>2
<1> QED
  BY <1>1, <1>2, <1>3 DEF Answer

\* Without an answer the client stays as it is.
LEMMA NoAnswerType ==
  ASSUME TypeOK, NoAnswer
  PROVE  client' \in ClientStates /\ faults' \in Nat
BY DEF TypeOK, NoAnswer

\* An answer without a text.
LEMMA PlainAnswerType ==
  ASSUME TypeOK, NEW code \in Codes, Answer(code, <<>>)
  PROVE  client' \in ClientStates /\ faults' \in Nat
<1>1. <<>> \in Seq(Characters \cup {NUL})
  OBVIOUS
<1> QED
  BY <1>1, AnswerType

\* The requests of the client, and what the line does to them.
LEMMA SendType ==
  ASSUME TypeOK, NEW r \in DOMAIN Requests, Send(r)
  PROVE  TypeOK'
<1>1. rx' \in Seq(Tokens) /\ line' \in Seq(Tokens)
  BY SendEffect
<1>2. requests' \in Nat /\ faults' \in Nat
  BY DEF Send, FaultyDelivery, TypeOK
<1>3. client' \in ClientStates
  <2>1. r \in Nat /\ "none" \in Codes /\ <<>> \in Seq(Characters \cup {NUL})
    BY RequestShape DEF Codes
  <2>2. (faults' # faults) \in BOOLEAN
    BY Zenon
  <2>3. PICK faulty \in BOOLEAN : faulty = (faults' # faults)
    BY <2>2, Zenon
  <2>4. client' = [pc |-> "waiting", r |-> r, faulty |-> faulty,
                   code |-> "none", body |-> <<>>]
    BY <2>3, Zenon DEF Send
  <2> QED
    BY <2>1, <2>4 DEF ClientStates
<1>4. LogTypeOK'
  BY LogUnchanged DEF TypeOK, Send
<1> QED
  BY <1>1, <1>2, <1>3, <1>4 DEF TypeOK, Send, tune

\* Late bytes, and the client that gives up.
LEMMA LateAndTimeoutType ==
  ASSUME TypeOK, DeliverLate \/ ClientTimeout
  PROVE  TypeOK'
<1>1. LogTypeOK'
  BY LogUnchanged DEF TypeOK, DeliverLate, ClientTimeout
<1>2. CASE DeliverLate
  <2>1. rx' \in Seq(Tokens) /\ line' \in Seq(Tokens)
    BY <1>2, ConcatProperties DEF DeliverLate, TypeOK
  <2> QED
    BY <1>1, <1>2, <2>1 DEF TypeOK, DeliverLate, tune, bounds
<1>3. CASE ClientTimeout
  <2>1. client' \in ClientStates
    BY <1>3 DEF ClientTimeout, TypeOK, ClientStates
  <2> QED
    BY <1>1, <1>3, <2>1 DEF TypeOK, ClientTimeout, wire, tune, bounds
<1> QED
  BY <1>2, <1>3

\* The part of a step that is left when the log is seen to.
LEMMA RestOfType ==
  ASSUME TypeOK, LogTypeOK', rx' \in Seq(Tokens), UNCHANGED <<line, text, requests>>,
         loop' \in LoopStates, client' \in ClientStates, faults' \in Nat,
         DOMAIN workingCopy' = Offsets, DOMAIN persistent' = Offsets
  PROVE  TypeOK'
BY DEF TypeOK

\* The reading of a packet, byte by byte and then of its rest.
LEMMA ReadType ==
  ASSUME TypeOK,
         \/ readFirstByte \/ readSecondByte \/ readCommand \/ readRest \/ readTimeout
  PROVE  TypeOK'
<1>1. /\ LogTypeOK /\ rx \in Seq(Tokens) /\ loop \in LoopStates
      /\ DOMAIN workingCopy = Offsets /\ DOMAIN persistent = Offsets
  BY DEF TypeOK
<1>2. \A c \in {"plain", "error", "underrun"} : c \in Codes
  BY DEF Codes
<1>3. CASE readFirstByte
  <2>1. rx' \in Seq(Tokens)
    BY <1>1, <1>3, NextByte DEF readFirstByte, PartOf
  <2>2. PICK plain \in MayBePlain(Head(rx)) :
          IF plain
          THEN loop' = Reading /\ Answer("plain", <<>>) /\ logOwn
          ELSE /\ loop' = [Reading EXCEPT !.pc = "second",
                             !.genuine = Sent(Head(rx)) /\ Head(rx)[2] = 1]
               /\ NoAnswer /\ UNCHANGED logVars
    BY <1>3 DEF readFirstByte
  <2>3. CASE loop' = Reading /\ Answer("plain", <<>>) /\ logOwn
    BY <1>1, <1>2, <1>3, <2>1, <2>3, OwnMessage, ReadingType, PlainAnswerType, RestOfType
       DEF readFirstByte, tune
  <2>4. CASE /\ loop' = [Reading EXCEPT !.pc = "second",
                           !.genuine = Sent(Head(rx)) /\ Head(rx)[2] = 1]
             /\ NoAnswer /\ UNCHANGED logVars
    <3>1. PICK genuine \in BOOLEAN : genuine = (Sent(Head(rx)) /\ Head(rx)[2] = 1)
      BY Zenon
    <3>2. loop' = [Reading EXCEPT !.pc = "second", !.genuine = genuine]
      BY <2>4, <3>1, Zenon
    <3>3. loop' \in LoopStates
      BY <3>2, ReadingType DEF LoopStates
    <3> QED
      BY <1>1, <1>3, <2>1, <2>4, <3>3, LogUnchanged, NoAnswerType, RestOfType
         DEF readFirstByte, tune
  <2> QED
    BY <2>2, <2>3, <2>4
<1>4. CASE readSecondByte
  <2>1. rx' \in Seq(Tokens)
    BY <1>1, <1>4, NextByte DEF readSecondByte, PartOf
  <2>2. PICK size \in SizesOf(loop.genuine, Head(rx)) :
          \/ loop' = Reading /\ Answer("error", <<>>) /\ logOwn
          \/ /\ sizeIsValid(size)
             /\ loop' = [loop EXCEPT !.pc = "command", !.size = size]
             /\ NoAnswer /\ UNCHANGED logVars
    BY <1>4 DEF readSecondByte
  <2>3. CASE loop' = Reading /\ Answer("error", <<>>) /\ logOwn
    BY <1>1, <1>2, <1>4, <2>1, <2>3, OwnMessage, ReadingType, PlainAnswerType, RestOfType
       DEF readSecondByte, tune
  <2>4. CASE /\ sizeIsValid(size)
             /\ loop' = [loop EXCEPT !.pc = "command", !.size = size]
             /\ NoAnswer /\ UNCHANGED logVars
    <3>1. size \in Nat
      BY <2>4, TunerStudioAssumption DEF sizeIsValid, CRC_WRAPPING_SIZE, CRC_VALUE_SIZE
    <3>2. loop' \in LoopStates
      BY <1>1, <2>4, <3>1 DEF LoopStates
    <3> QED
      BY <1>1, <1>4, <2>1, <2>4, <3>2, LogUnchanged, NoAnswerType, RestOfType
         DEF readSecondByte, tune
  <2> QED
    BY <2>2, <2>3, <2>4
<1>5. CASE readCommand
  <2>1. rx' \in Seq(Tokens) /\ Head(rx) \in Tokens
    BY <1>1, <1>5, NextByte DEF readCommand, PartOf
  <2>2. \/ loop' = Reading /\ Answer("error", <<>>) /\ logOwn
        \/ /\ loop' = [loop EXCEPT !.pc = "rest", !.data = <<Head(rx)>>]
           /\ NoAnswer /\ UNCHANGED logVars
    BY <1>5 DEF readCommand
  <2>3. CASE loop' = Reading /\ Answer("error", <<>>) /\ logOwn
    BY <1>1, <1>2, <1>5, <2>1, <2>3, OwnMessage, ReadingType, PlainAnswerType, RestOfType
       DEF readCommand, tune
  <2>4. CASE /\ loop' = [loop EXCEPT !.pc = "rest", !.data = <<Head(rx)>>]
             /\ NoAnswer /\ UNCHANGED logVars
    <3>1. <<Head(rx)>> \in Seq(Tokens)
      BY <2>1
    <3>2. loop' \in LoopStates
      BY <1>1, <2>4, <3>1 DEF LoopStates
    <3> QED
      BY <1>1, <1>5, <2>1, <2>4, <3>2, LogUnchanged, NoAnswerType, RestOfType
         DEF readCommand, tune
  <2> QED
    BY <2>2, <2>3, <2>4
<1>6. CASE readRest
  <2>1. expectedSize \in Nat /\ expectedSize <= Len(rx) /\ Len(rx) \in Nat
    BY <1>1, <1>6 DEF LoopStates, readRest, expectedSize, CRC_VALUE_SIZE
  <2>2. \A i \in 1 .. Len(rx) : rx[i] \in Tokens
    BY <1>1
  <2>3. rx' \in Seq(Tokens)
    <3>1. PICK left : left = SubSeq(rx, expectedSize + 1, Len(rx))
      OBVIOUS
    <3>2. left \in Seq(Tokens)
      BY <2>1, <2>2, <3>1, SubSeqProperties
    <3> QED
      BY <1>6, <3>1, <3>2 DEF readRest
  <2>4. PICK rest : rest = SubSeq(rx, 1, expectedSize)
    OBVIOUS
  <2>5. rest \in Seq(Tokens)
    BY <2>1, <2>2, <2>4, SubSeqProperties
  <2>6. PICK data : data = loop.data \o rest
    OBVIOUS
  <2>7. data \in Seq(Tokens)
    BY <1>1, <2>5, <2>6, ConcatProperties DEF LoopStates
  <2>8. \/ loop' = [loop EXCEPT !.pc = "handle", !.data = data] /\ UNCHANGED logVars
        \/ loop' = Reading /\ logOwn
    BY <1>6, <2>4, <2>6, Zenon DEF readRest
  <2>9. loop' \in LoopStates
    <3>1. CASE loop' = [loop EXCEPT !.pc = "handle", !.data = data]
      BY <1>1, <2>7, <3>1 DEF LoopStates
    <3> QED
      BY <2>8, <3>1, ReadingType
  <2>10. LogTypeOK'
    BY <1>1, <2>8, OwnMessage, LogUnchanged
  <2> QED
    BY <1>6, <2>3, <2>9, <2>10 DEF readRest, TypeOK, tune, bounds
<1>7. CASE readTimeout
  <2>1. client' \in ClientStates /\ faults' \in Nat
    BY <1>2, <1>7, PlainAnswerType, NoAnswerType DEF readTimeout
  <2>2. rx' \in Seq(Tokens)
    BY <1>7 DEF readTimeout
  <2> QED
    BY <1>1, <1>7, <2>1, <2>2, OwnMessage, ReadingType, RestOfType DEF readTimeout, tune
<1> QED
  BY <1>3, <1>4, <1>5, <1>6, <1>7

\* The commands.
LEMMA HandleType ==
  ASSUME TypeOK,
         \/ handleQueryCommand \/ ignoreCommand \/ handleExecuteCommand
         \/ handleWriteChunkCommand \/ handleWriteValueCommand \/ handleBurnCommand
  PROVE  TypeOK'
<1>1. /\ LogTypeOK /\ rx \in Seq(Tokens)
      /\ DOMAIN workingCopy = Offsets /\ DOMAIN persistent = Offsets
  BY DEF TypeOK
<1>2. \A c \in {"ok", "error", "commandOk", "burnOk"} : c \in Codes
  BY DEF Codes
<1>3. loop' \in LoopStates /\ LogTypeOK'
  <2>1. (loop' = Reading \/ \E r \in DOMAIN Requests : loop' = Running(r)) /\ logOwn
    BY DEF handleQueryCommand, ignoreCommand, handleExecuteCommand,
           handleWriteChunkCommand, handleWriteValueCommand, handleBurnCommand, Handling
  <2> QED
    BY <1>1, <2>1, ReadingType, RunningType, OwnMessage
<1>4. client' \in ClientStates /\ faults' \in Nat
  <2>1. NoAnswer \/ \E c \in {"ok", "error", "commandOk", "burnOk"} : Answer(c, <<>>)
    BY DEF handleQueryCommand, ignoreCommand, handleExecuteCommand,
           handleWriteChunkCommand, handleWriteValueCommand, handleBurnCommand
  <2> QED
    BY <2>1, <1>2, PlainAnswerType, NoAnswerType
<1>5. DOMAIN workingCopy' = Offsets /\ DOMAIN persistent' = Offsets
  <2>1. \/ UNCHANGED tune
        \/ \E offset, count : write(offset, count)
        \/ persistent' = workingCopy /\ UNCHANGED workingCopy
    BY DEF handleQueryCommand, ignoreCommand, handleExecuteCommand,
           handleWriteChunkCommand, handleWriteValueCommand, handleBurnCommand
  <2>2. CASE \E offset, count : write(offset, count)
    BY <1>1, <2>2 DEF write, onlineApplyWorkingCopyBytes
  <2> QED
    BY <1>1, <2>1, <2>2 DEF tune
<1>6. UNCHANGED <<line, rx, text, requests>>
  BY DEF handleQueryCommand, ignoreCommand, handleExecuteCommand,
         handleWriteChunkCommand, handleWriteValueCommand, handleBurnCommand, wire
<1> QED
  BY <1>1, <1>3, <1>4, <1>5, <1>6, RestOfType

\* A console line keeps the page in place.
LEMMA ConsoleType ==
  ASSUME TypeOK, runConsoleLine
  PROVE  TypeOK'
<1>1. loop' \in LoopStates
  BY ReadingType DEF runConsoleLine
<1>2. DOMAIN workingCopy' = Offsets /\ DOMAIN persistent' = Offsets
  BY DEF runConsoleLine, TypeOK
<1>3. LogTypeOK'
  BY LogUnchanged DEF runConsoleLine, TypeOK
<1> QED
  BY <1>1, <1>2, <1>3 DEF runConsoleLine, TypeOK, wire, bounds

\* The text.
LEMMA TextStepType ==
  ASSUME TypeOK, handleGetText \/ publishChart \/ getTextSwap \/ getTextSend
  PROVE  TypeOK'
<1>1. /\ LogTypeOK /\ rx \in Seq(Tokens) /\ loop \in LoopStates
      /\ DOMAIN workingCopy = Offsets /\ DOMAIN persistent = Offsets
      /\ client \in ClientStates /\ faults \in Nat
  BY DEF TypeOK
<1>2. CASE handleGetText
  <2>1. loop' \in LoopStates
    BY <1>1, <1>2 DEF handleGetText, LoopStates
  <2>2. LogTypeOK'
    BY <1>1, <1>2 DEF handleGetText, LogTypeOK, log
  <2> QED
    BY <1>1, <1>2, <2>1, <2>2, RestOfType DEF handleGetText, wire, tune, bounds
<1>3. CASE publishChart
  <2>1. LogTypeOK'
    BY <1>1, <1>3, PublishType DEF publishChart
  <2> QED
    BY <1>1, <1>3, <2>1, RestOfType DEF publishChart, tsVars, wire, tune, bounds
<1>4. CASE getTextSwap
  <2>1. loop' \in LoopStates
    BY <1>1, <1>4 DEF getTextSwap, LoopStates
  <2>2. pendingBuffers[accumulationBuffer] \in [Cells -> Characters \cup {NUL}]
    BY <1>1 DEF LogTypeOK
  <2>3. PICK crc \in Seq(Characters) :
          /\ crc = Text(pendingBuffers[accumulationBuffer])
          /\ Len(crc) <= DL_OUTPUT_BUFFER
    BY <2>2, TextType
  <2>4. text' = [crc |-> crc, logged |-> accepted]
    BY <1>4, <2>3 DEF getTextSwap
  <2>5. accepted \in Seq(Characters)
    BY <1>1 DEF LogTypeOK
  <2>6. text' \in [crc : Seq(Characters), logged : Seq(Characters)] /\ text'.crc = crc
    BY <2>4, <2>5
  <2>7. pendingBuffers' \in [{0, 1} -> [Cells -> Characters \cup {NUL}]]
    <3>1. outputBuffer \in {0, 1}
      BY <1>1 DEF LogTypeOK, outputBuffer
    <3>2. PICK cells : cells = pendingBuffers[outputBuffer]
      OBVIOUS
    <3>3. cells \in [Cells -> Characters \cup {NUL}]
      BY <1>1, <3>1, <3>2 DEF LogTypeOK
    <3>4. [cells EXCEPT ![0] = NUL] \in [Cells -> Characters \cup {NUL}]
      BY <3>3
    <3>5. pendingBuffers' = [pendingBuffers EXCEPT ![outputBuffer] = [cells EXCEPT ![0] = NUL]]
      BY <1>4, <3>2 DEF getTextSwap, swapOutputBuffers
    <3> QED
      BY <1>1, <3>4, <3>5 DEF LogTypeOK
  <2>8. /\ accumulationBuffer' \in {0, 1} /\ accumulatedSize' \in 0 .. MAX_DL_CAPACITY - 1
        /\ accepted' \in Seq(Characters)
    BY <1>1, <1>4, LoggingAssumption
       DEF getTextSwap, swapOutputBuffers, LogTypeOK, outputBuffer, MAX_DL_CAPACITY
  <2>9. LogTypeOK'
    BY <1>1, <1>4, <2>7, <2>8 DEF getTextSwap, LogTypeOK
  <2> QED
    BY <1>4, <2>1, <2>3, <2>6, <2>9 DEF TypeOK, getTextSwap, wire, tune, bounds
<1>5. CASE getTextSend
  <2>1. outputBuffer \in {0, 1} /\ DL_OUTPUT_BUFFER \in Nat
    BY <1>1, LoggingAssumption DEF LogTypeOK, outputBuffer
  <2>2. pendingBuffers[outputBuffer] \in [Cells -> Characters \cup {NUL}]
    BY <1>1, <2>1 DEF LogTypeOK
  <2>3. Len(text.crc) \in Nat /\ Len(text.crc) <= DL_OUTPUT_BUFFER
    BY DEF TypeOK
  <2>4. PICK body : body = [i \in 1 .. Len(text.crc) |-> pendingBuffers[outputBuffer][i - 1]]
    OBVIOUS
  <2>5. body \in Seq(Characters \cup {NUL})
    BY <2>1, <2>2, <2>3, <2>4 DEF Cells
  <2>6. Answer("commandOk", body) /\ "commandOk" \in Codes
    BY <1>5, <2>4 DEF getTextSend, Codes
  <2> QED
    BY <1>1, <1>5, <2>5, <2>6, AnswerType, LogUnchanged, ReadingType, RestOfType
       DEF getTextSend, wire, tune
<1> QED
  BY <1>2, <1>3, <1>4, <1>5

\* The state is well formed at the start
LEMMA TypeInit ==
  Init => TypeOK
<1> SUFFICES ASSUME Init PROVE TypeOK
  OBVIOUS
<1>1. LogTypeOK
  <2>1. ChartHeader \in [text : Seq({"c"}), counter : Nat]
    <3>1. "c" \in {"c"} /\ 1 \in Nat
      OBVIOUS
    <3> QED
      BY <3>1, CharsType DEF ChartHeader
  <2>2. /\ pendingBuffers \in [{0, 1} -> [Cells -> Characters \cup {NUL}]]
        /\ accumulationBuffer \in {0, 1} /\ accumulatedSize \in 0 .. MAX_DL_CAPACITY - 1
    BY LoggingAssumption DEF Init, LogInit, MAX_DL_CAPACITY
  <2> QED
    BY <2>1, <2>2 DEF Init, LogInit, LogTypeOK
<1>2. /\ line \in Seq(Tokens) /\ rx \in Seq(Tokens) /\ loop \in LoopStates
      /\ requests \in Nat /\ faults \in Nat
      /\ DOMAIN workingCopy = Offsets /\ DOMAIN persistent = Offsets
  BY ReadingType DEF Init
<1>3. text \in [crc : Seq(Characters), logged : Seq(Characters)] /\ Len(text.crc) <= DL_OUTPUT_BUFFER
  BY LoggingAssumption DEF Init, NoText
<1>4. client \in ClientStates
  BY DEF Init, ClientStates, Codes
<1> QED
  BY <1>1, <1>2, <1>3, <1>4 DEF TypeOK

\* and after every step.
LEMMA TypeStep ==
  TypeOK /\ [Next]_vars => TypeOK'
<1> SUFFICES ASSUME TypeOK, [Next]_vars PROVE TypeOK'
  OBVIOUS
<1>1. CASE UNCHANGED vars
  <2>1. LogTypeOK'
    BY <1>1, LogUnchanged DEF vars, TypeOK
  <2> QED
    BY <1>1, <2>1 DEF TypeOK, vars, tsVars, wire, tune, bounds
<1>2. CASE \E r \in DOMAIN Requests : Send(r)
  BY <1>2, SendType
<1>3. CASE DeliverLate \/ ClientTimeout
  BY <1>3, LateAndTimeoutType
<1>4. CASE tsThread
  BY <1>4, ReadType, HandleType, ConsoleType, TextStepType DEF tsThread
<1>5. CASE LogNext /\ UNCHANGED tsVars
  <2>1. LogTypeOK'
    BY <1>5, OtherMessage DEF TypeOK
  <2> QED
    BY <1>5, <2>1 DEF TypeOK, tsVars, wire, tune, bounds
<1> QED
  BY <1>1, <1>2, <1>3, <1>4, <1>5 DEF Next

\* Every request, every fault of the line and every interleaving with the log leaves the
\* protocol loop, its buffers and the two log buffers well formed; in particular the log
\* stays clear of its reserve.
THEOREM TypeCorrect == Spec => []TypeOK
BY TypeInit, TypeStep, PTL DEF Spec

-----------------------------------------------------------------------------
(* What is handled is what was sent *)

\* The body a CRC vouches for is the one of a request, byte by byte.
LEMMA MatchingPacket ==
  ASSUME NEW data \in Seq(Tokens), Len(data) >= 1, crcMatches(data)
  PROVE  /\ data[1][1] \in DOMAIN Requests
         /\ Sent(data[1])
         /\ ~IsPlain(data[1][1])
         /\ Len(data) = BodySize(data[1][1]) + 1
         /\ \A i \in 1 .. Len(data) : data[i] = <<data[1][1], i + 2>>
<1>1. Sent(data[1]) /\ data[1] \in Tokens
  BY DEF crcMatches
<1>2. PICK r \in DOMAIN Requests : r = data[1][1]
  BY <1>1 DEF Tokens, Sent
<1>3. /\ ~IsPlain(r) /\ data = SubSeq(Packet(r), 3, Len(Packet(r)))
  BY <1>2 DEF crcMatches
<1>4. /\ Packet(r) \in Seq(Tokens)
      /\ Len(Packet(r)) = BodySize(r) + 3 /\ BodySize(r) \in Nat
      /\ \A i \in 1 .. BodySize(r) + 3 : Packet(r)[i] = <<r, i>>
  BY <1>3, PacketShape, RequestShape
<1>5. PICK packet \in Seq(Tokens) : packet = Packet(r)
  BY <1>4
<1>6. PICK size \in Nat : size = BodySize(r)
  BY <1>4
<1>7. /\ Len(packet) = size + 3 /\ data = SubSeq(packet, 3, size + 3)
      /\ \A i \in 1 .. size + 3 : packet[i] = <<r, i>>
  BY <1>3, <1>4, <1>5, <1>6
<1>8. \A i \in 3 .. size + 3 : packet[i] \in Tokens
  BY <1>7
<1>9. /\ Len(data) = size + 1
      /\ \A i \in 1 .. size + 1 : data[i] = packet[i + 2]
  BY <1>7, <1>8, SubSeqProperties
<1>10. ASSUME NEW i \in 1 .. Len(data) PROVE data[i] = <<r, i + 2>>
  <2>1. i + 2 \in 1 .. size + 3 /\ i \in 1 .. size + 1
    BY <1>9
  <2> QED
    BY <2>1, <1>7, <1>9
<1> QED
  BY <1>1, <1>2, <1>3, <1>6, <1>9, <1>10

\* The command that is handled is the one of the request.
LEMMA CommandIs ==
  ASSUME NEW r \in DOMAIN Requests
  PROVE  CommandsOf(<<r, 3>>) = {Requests[r].command}
BY RequestShape DEF CommandsOf, Sent, Corrupt

\* Reading takes bytes off the front of the line.
LEMMA WireKeeps ==
  ASSUME WireInv, line' = line, client'.r = client.r, Own(client.r, loop'.data),
         NEW k \in Int, rx' = rx \/ PartOf(rx', rx, k)
  PROVE  /\ WireInv'
         /\ Absent(CommandByte, rx) => Absent(CommandByte, rx)'
         /\ Absent(CommandByte, line) => Absent(CommandByte, line)'
         /\ CommandByte' = CommandByte
<1>1. PICK byte : byte = CommandByte /\ byte = CommandByte'
  BY DEF CommandByte
<1>2. /\ Own(client.r, rx) => Own(client.r, rx')
      /\ Absent(byte, rx) => Absent(byte, rx')
      /\ AtMostOne(byte, rx) => AtMostOne(byte, rx')
  BY PartKeeps
<1>3. Once(byte, rx', line) /\ Own(client.r, rx')
  BY <1>1, <1>2 DEF WireInv, Once
<1> QED
  BY <1>1, <1>2, <1>3 DEF WireInv

\* Late bytes come behind the others.
LEMMA LateKeeps ==
  ASSUME NEW a \in Seq(Tokens), NEW b \in Seq(Tokens), NEW both, both = a \o b, NEW byte
  PROVE  /\ \A r : Own(r, a) /\ Own(r, b) => Own(r, both)
         /\ Absent(byte, a) /\ Absent(byte, b) => Absent(byte, both)
         /\ Once(byte, a, b) => Once(byte, both, <<>>)
<1>1. /\ both \in Seq(Tokens) /\ Len(both) = Len(a) + Len(b)
      /\ \A i \in 1 .. Len(a) + Len(b) :
           both[i] = IF i <= Len(a) THEN a[i] ELSE b[i - Len(a)]
  BY ConcatProperties
<1>2. ASSUME NEW i \in DOMAIN both
      PROVE  \/ i \in DOMAIN a /\ both[i] = a[i]
             \/ i - Len(a) \in DOMAIN b /\ both[i] = b[i - Len(a)]
  <2>1. i \in 1 .. Len(a) + Len(b) /\ Len(a) \in Nat /\ Len(b) \in Nat
    BY <1>1
  <2>2. CASE i <= Len(a)
    BY <1>1, <2>1, <2>2
  <2>3. CASE ~(i <= Len(a))
    <3>1. i - Len(a) \in 1 .. Len(b)
      BY <2>1, <2>3
    <3> QED
      BY <1>1, <2>1, <2>3, <3>1
  <2> QED
    BY <2>2, <2>3
<1>3. \A r : Own(r, a) /\ Own(r, b) => Own(r, both)
  BY <1>2 DEF Own
<1>4. Absent(byte, a) /\ Absent(byte, b) => Absent(byte, both)
  BY <1>2 DEF Absent
<1>5. ASSUME Once(byte, a, b), NEW i \in DOMAIN both, NEW j \in DOMAIN both,
             both[i] = byte, both[j] = byte
      PROVE  i = j
  <2>1. Len(a) \in Nat /\ i \in Nat /\ j \in Nat
    BY <1>1
  <2>2. CASE Absent(byte, b)
    <3>1. i \in DOMAIN a /\ a[i] = byte /\ j \in DOMAIN a /\ a[j] = byte
      BY <1>2, <1>5, <2>2 DEF Absent
    <3> QED
      BY <1>5, <3>1 DEF Once, AtMostOne
  <2>3. CASE Absent(byte, a)
    <3>1. /\ i - Len(a) \in DOMAIN b /\ b[i - Len(a)] = byte
          /\ j - Len(a) \in DOMAIN b /\ b[j - Len(a)] = byte
      BY <1>2, <1>5, <2>3 DEF Absent
    <3>2. i - Len(a) = j - Len(a)
      BY <1>5, <3>1 DEF Once, AtMostOne
    <3> QED
      BY <2>1, <3>2
  <2> QED
    BY <1>5, <2>2, <2>3 DEF Once
<1>6. Once(byte, a, b) => Once(byte, both, <<>>)
  BY <1>5 DEF Once, AtMostOne, Absent
<1> QED
  BY <1>3, <1>4, <1>6

\* What an answer changes, and what it does not.
LEMMA AnswerEffect ==
  ASSUME TypeOK, NEW code, NEW body, Answer(code, body)
  PROVE  /\ client'.r = client.r
         /\ client'.pc = "answered" =>
              \/ client' = client
              \/ client'.code = code /\ client'.body = body
<1>1. CASE client' = client
  BY <1>1
<1>2. CASE client' = [client EXCEPT !.pc = "answered", !.code = code, !.body = body]
  BY <1>2 DEF TypeOK, ClientStates
<1>3. CASE client.pc = "waiting" /\ client' = [client EXCEPT !.faulty = TRUE]
  BY <1>3 DEF TypeOK, ClientStates
<1> QED
  BY <1>1, <1>2, <1>3 DEF Answer

\* Back at the first byte, nothing more is promised than before.
LEMMA BackToReading ==
  ASSUME TypeOK, WireInv, OnceInv, loop' = Reading, line' = line, client'.r = client.r,
         NEW k \in Int, rx' = rx \/ PartOf(rx', rx, k),
         TextAnswered' => TextAnswered \/ loop.pc \in {"handle", "publish", "send"}
  PROVE  WireInv' /\ LoopInv' /\ OnceInv'
<1>1. Own(client.r, loop'.data)
  BY ReadingType DEF Own
<1>2. WireInv' /\ (Absent(CommandByte, rx) => Absent(CommandByte, rx)')
      /\ (Absent(CommandByte, line) => Absent(CommandByte, line)')
  BY <1>1, WireKeeps
<1>3. loop'.pc = "first"
  BY ReadingType
<1>4. LoopInv'
  BY <1>3 DEF LoopInv
<1>5. OnceInv'
  BY <1>2, <1>3 DEF OnceInv
<1> QED
  BY <1>2, <1>4, <1>5

\* What the loop handles is the whole packet of the client's last request.
LEMMA HandledPacket ==
  ASSUME TypeOK, WireInv, LoopInv, loop.pc = "handle"
  PROVE  /\ client.r \in DOMAIN Requests
         /\ ~IsPlain(client.r)
         /\ loop.size = BodySize(client.r)
         /\ Len(loop.data) = BodySize(client.r) + 1
         /\ \A i \in 1 .. Len(loop.data) : loop.data[i] = <<client.r, i + 2>>
         /\ CommandsOf(loop.data[1]) = {Request.command}
<1>1. /\ loop.data \in Seq(Tokens) /\ loop.size \in Nat
      /\ Len(loop.data) = loop.size + 1 /\ crcMatches(loop.data)
  BY DEF TypeOK, LoopStates, LoopInv, CRC_VALUE_SIZE
<1>2. PICK data \in Seq(Tokens) : data = loop.data
  BY <1>1
<1>3. Len(data) >= 1 /\ crcMatches(data) /\ 1 \in DOMAIN data
  BY <1>1, <1>2
<1>4. /\ data[1][1] \in DOMAIN Requests /\ Sent(data[1]) /\ ~IsPlain(data[1][1])
      /\ Len(data) = BodySize(data[1][1]) + 1
      /\ \A i \in 1 .. Len(data) : data[i] = <<data[1][1], i + 2>>
  BY <1>3, MatchingPacket
<1>5. data[1][1] = client.r
  BY <1>2, <1>3, <1>4 DEF WireInv, Own
<1>6. data[1] = <<client.r, 3>>
  <2>1. 1 \in 1 .. Len(data) /\ 1 + 2 = 3
    BY <1>3
  <2>2. data[1] = <<data[1][1], 1 + 2>>
    BY <1>4, <2>1, Zenon
  <2> QED
    BY <1>5, <2>1, <2>2
<1>7. BodySize(client.r) \in Nat
  BY <1>4, <1>5, RequestShape
<1> QED
  BY <1>1, <1>2, <1>4, <1>5, <1>6, <1>7, CommandIs DEF Request

\* The invariants of the line and the loop are kept by every step of the reading,
LEMMA PacketRead ==
  ASSUME TypeOK, WireInv, LoopInv, OnceInv,
         \/ readFirstByte \/ readSecondByte \/ readCommand \/ readTimeout
  PROVE  WireInv' /\ LoopInv' /\ OnceInv'
<1>1. rx \in Seq(Tokens) /\ loop \in LoopStates
  BY DEF TypeOK
<1>2. ASSUME NEW code \in {"plain", "error", "underrun"}, Answer(code, <<>>)
      PROVE  client'.r = client.r /\ (TextAnswered' => TextAnswered)
  <2>1. /\ client'.r = client.r
        /\ client'.pc = "answered" => client' = client \/ client'.code = code
    BY <1>2, AnswerEffect
  <2>2. code # "commandOk"
    OBVIOUS
  <2> QED
    BY <2>1, <2>2 DEF TextAnswered, Answered, Request
<1>3. ASSUME NoAnswer
      PROVE  client'.r = client.r /\ (TextAnswered' => TextAnswered)
  BY <1>3 DEF NoAnswer, TextAnswered, Answered, Request
<1>4. 1 \in Int /\ 0 \in Int
  OBVIOUS
<1>5. CASE readFirstByte
  <2>1. PartOf(rx', rx, 1) /\ line' = line
    BY <1>1, <1>5, NextByte DEF readFirstByte
  <2>2. CASE loop' = Reading /\ Answer("plain", <<>>)
    BY <1>2, <1>4, <2>1, <2>2, BackToReading
  <2>3. CASE /\ NoAnswer
             /\ loop' = [Reading EXCEPT !.pc = "second",
                           !.genuine = Sent(Head(rx)) /\ Head(rx)[2] = 1]
    <3>1. loop'.pc = "second" /\ loop'.data = <<>>
      BY <2>3 DEF Reading
    <3>2. Own(client.r, loop'.data)
      BY <3>1 DEF Own
    <3>3. /\ WireInv'
          /\ Absent(CommandByte, rx) => Absent(CommandByte, rx)'
          /\ Absent(CommandByte, line) => Absent(CommandByte, line)'
      BY <1>3, <1>4, <2>1, <2>3, <3>2, WireKeeps
    <3> QED
      BY <1>3, <2>3, <3>1, <3>3 DEF LoopInv, OnceInv
  <2> QED
    BY <1>5, <2>2, <2>3 DEF readFirstByte
<1>6. CASE readSecondByte
  <2>1. PartOf(rx', rx, 1) /\ line' = line
    BY <1>1, <1>6, NextByte DEF readSecondByte
  <2>2. CASE loop' = Reading /\ Answer("error", <<>>)
    BY <1>2, <1>4, <2>1, <2>2, BackToReading
  <2>3. ASSUME NEW size, sizeIsValid(size), NoAnswer,
               loop' = [loop EXCEPT !.pc = "command", !.size = size]
        PROVE  WireInv' /\ LoopInv' /\ OnceInv'
    <3>1. loop'.pc = "command" /\ loop'.size = size /\ loop'.data = loop.data
      BY <1>1, <2>3 DEF LoopStates
    <3>2. Own(client.r, loop'.data)
      BY <3>1 DEF WireInv
    <3>3. /\ WireInv'
          /\ Absent(CommandByte, rx) => Absent(CommandByte, rx)'
          /\ Absent(CommandByte, line) => Absent(CommandByte, line)'
      BY <1>3, <1>4, <2>1, <2>3, <3>2, WireKeeps
    <3> QED
      BY <1>3, <2>3, <3>1, <3>3 DEF LoopInv, OnceInv, sizeIsValid
  <2> QED
    BY <1>6, <2>2, <2>3 DEF readSecondByte
<1>7. CASE readCommand
  <2>1. /\ PartOf(rx', rx, 1) /\ line' = line
        /\ Head(rx) \in Tokens /\ Head(rx) = rx[1] /\ 1 \in DOMAIN rx
    BY <1>1, <1>7, NextByte DEF readCommand
  <2>2. CASE loop' = Reading /\ Answer("error", <<>>)
    BY <1>2, <1>4, <2>1, <2>2, BackToReading
  <2>3. CASE NoAnswer /\ loop' = [loop EXCEPT !.pc = "rest", !.data = <<Head(rx)>>]
    <3>1. /\ loop'.pc = "rest" /\ loop'.size = loop.size /\ loop'.data = <<rx[1]>>
          /\ loop.pc = "command"
      BY <1>1, <1>7, <2>1, <2>3 DEF LoopStates, readCommand
    <3>2. Own(client.r, loop'.data)
      BY <2>1, <3>1 DEF WireInv, Own
    <3>3. /\ WireInv' /\ CommandByte' = CommandByte
          /\ Absent(CommandByte, rx) => Absent(CommandByte, rx)'
          /\ Absent(CommandByte, line) => Absent(CommandByte, line)'
      BY <1>3, <1>4, <2>1, <2>3, <3>2, WireKeeps
    <3>4. LoopInv'
      BY <3>1 DEF LoopInv, sizeIsValid
    <3>5. ASSUME rx[1] = CommandByte
          PROVE  ~TextAnswered /\ Absent(CommandByte, rx') /\ Absent(CommandByte, line)
      <4>1. ~Absent(CommandByte, rx)
        BY <2>1, <3>5 DEF Absent
      <4>2. \A i \in DOMAIN rx' : rx'[i] # CommandByte
        BY <2>1, <3>5 DEF PartOf, WireInv, Once, AtMostOne
      <4> QED
        BY <4>1, <4>2 DEF OnceInv, WireInv, Once, Absent
    <3>6. loop'.data[1] = rx[1]
      BY <3>1
    <3> QED
      BY <1>3, <2>1, <2>3, <3>1, <3>3, <3>4, <3>5, <3>6 DEF OnceInv
  <2> QED
    BY <1>7, <2>2, <2>3 DEF readCommand
<1>8. CASE readTimeout
  <2>1. PartOf(rx', rx, 0) /\ line' = line /\ loop' = Reading
    BY <1>8 DEF readTimeout, PartOf
  <2>2. NoAnswer \/ Answer("underrun", <<>>)
    BY <1>8 DEF readTimeout
  <2> QED
    BY <1>2, <1>3, <1>4, <2>1, <2>2, BackToReading
<1> QED
  BY <1>5, <1>6, <1>7, <1>8

\* by the rest of a packet,
LEMMA PacketRest ==
  ASSUME TypeOK, WireInv, LoopInv, OnceInv, readRest
  PROVE  /\ WireInv' /\ LoopInv' /\ OnceInv'
         /\ \E n \in Nat : PartOf(rx', rx, n) /\ Len(rx') = Len(rx) - n
         /\ \/ loop' = Reading
            \/ /\ loop'.pc = "handle"
               /\ loop.data[1] = CommandByte /\ 1 \in DOMAIN loop.data
<1>1. rx \in Seq(Tokens) /\ loop \in LoopStates /\ UNCHANGED <<line, client>>
  BY DEF TypeOK, readRest
<1>2. PICK n \in Nat : n = expectedSize /\ n = loop.size /\ n <= Len(rx)
  BY <1>1 DEF LoopStates, readRest, expectedSize, CRC_VALUE_SIZE
<1>3. Len(rx) \in Nat /\ \A i \in 1 .. Len(rx) : rx[i] \in Tokens
  BY <1>1
<1>4. PartOf(rx', rx, n)
  <2>1. n + 1 \in 1 .. Len(rx) + 1 /\ Len(rx) \in 0 .. Len(rx) /\ (n + 1) - 1 = n
    BY <1>2, <1>3
  <2>2. PICK left : left = SubSeq(rx, n + 1, Len(rx))
    OBVIOUS
  <2>3. PartOf(left, rx, (n + 1) - 1)
    BY <1>1, <2>1, <2>2, SubSeqIsPart, Zenon
  <2>4. rx' = left
    BY <1>2, <2>2, Zenon DEF readRest
  <2> QED
    BY <2>1, <2>3, <2>4
<1>14. \E k \in Nat : PartOf(rx', rx, k) /\ Len(rx') = Len(rx) - k
  <2>1. PICK left : left = SubSeq(rx, n + 1, Len(rx))
    OBVIOUS
  <2>2. Len(left) = Len(rx) - n
    BY <1>2, <1>3, <2>1, SubSeqProperties
  <2>3. rx' = left
    BY <1>2, <2>1, Zenon DEF readRest
  <2> QED
    BY <1>4, <2>2, <2>3
<1>5. PICK rest : rest = SubSeq(rx, 1, n)
  OBVIOUS
<1>6. /\ rest \in Seq(Tokens) /\ Len(rest) = n
      /\ \A i \in 1 .. n : i \in DOMAIN rx /\ rest[i] = rx[i]
  BY <1>2, <1>3, <1>5, SubSeqProperties
<1>7. PICK data : data = loop.data \o rest
  OBVIOUS
<1>8. /\ loop.data \in Seq(Tokens) /\ Len(loop.data) = 1 /\ sizeIsValid(loop.size)
      /\ loop.pc = "rest" /\ Own(client.r, loop.data) /\ Own(client.r, rx)
  BY <1>1 DEF LoopStates, LoopInv, readRest, WireInv
<1>9. /\ data \in Seq(Tokens) /\ Len(data) = 1 + n
      /\ \A i \in 1 .. 1 + n : data[i] = IF i <= 1 THEN loop.data[i] ELSE rest[i - 1]
  <2>1. PICK first \in Seq(Tokens) : first = loop.data /\ Len(first) = 1
    BY <1>8
  <2>2. /\ data \in Seq(Tokens) /\ Len(data) = Len(first) + Len(rest)
        /\ \A i \in 1 .. Len(first) + Len(rest) :
             data[i] = IF i <= Len(first) THEN first[i] ELSE rest[i - Len(first)]
    BY <1>6, <1>7, <2>1, ConcatProperties
  <2> QED
    BY <1>6, <2>1, <2>2
<1>10. Own(client.r, data) /\ data[1] = loop.data[1] /\ 1 \in DOMAIN data
  <2>1. Own(client.r, rest)
    BY <1>6, <1>8 DEF Own
  <2>2. Own(client.r, data)
    <3>1. ASSUME NEW i \in DOMAIN data, Sent(data[i]) PROVE data[i][1] = client.r
      <4>1. i \in 1 .. 1 + n
        BY <1>9
      <4>2. CASE i <= 1
        BY <1>8, <1>9, <3>1, <4>1, <4>2 DEF Own
      <4>3. CASE ~(i <= 1)
        <5>1. i - 1 \in 1 .. n
          BY <4>1, <4>3
        <5> QED
          BY <1>6, <1>9, <2>1, <3>1, <4>1, <4>3, <5>1 DEF Own
      <4> QED
        BY <4>2, <4>3
    <3> QED
      BY <3>1 DEF Own
  <2> QED
    BY <1>9, <2>2
<1>11. n \in Int
  BY <1>2
<1>12. CASE loop' = Reading
  <2>1. TextAnswered' => TextAnswered
    BY <1>1 DEF TextAnswered, Answered, Request
  <2> QED
    BY <1>1, <1>4, <1>11, <1>12, <1>14, <2>1, BackToReading
<1>13. CASE crcMatches(data) /\ loop' = [loop EXCEPT !.pc = "handle", !.data = data]
  <2>1. loop'.pc = "handle" /\ loop'.data = data /\ loop'.size = loop.size
    BY <1>1, <1>13 DEF LoopStates
  <2>2. /\ WireInv' /\ CommandByte' = CommandByte
        /\ Absent(CommandByte, rx) => Absent(CommandByte, rx)'
        /\ Absent(CommandByte, line) => Absent(CommandByte, line)'
    BY <1>1, <1>4, <1>10, <1>11, <2>1, WireKeeps
  <2>3. LoopInv'
    BY <1>2, <1>8, <1>9, <1>13, <2>1 DEF LoopInv, sizeIsValid, CRC_VALUE_SIZE, crcMatches
  <2>4. loop.data[1] = CommandByte
    <3>1. /\ Sent(data[1])
          /\ \A i \in 1 .. Len(data) : data[i] = <<data[1][1], i + 2>>
      BY <1>2, <1>9, <1>13, MatchingPacket
    <3>2. data[1] = <<data[1][1], 1 + 2>>
      <4>1. 1 \in 1 .. Len(data)
        BY <1>2, <1>9
      <4> QED
        BY <3>1, <4>1, Zenon
    <3>3. data[1][1] = client.r
      BY <1>10, <3>1 DEF Own
    <3>4. 1 + 2 = 3
      OBVIOUS
    <3> QED
      BY <1>10, <3>2, <3>3, <3>4 DEF CommandByte
  <2>5. Absent(CommandByte, rx) /\ Absent(CommandByte, line) /\ ~TextAnswered
    BY <1>8, <2>4 DEF OnceInv
  <2>6. ~TextAnswered'
    BY <1>1, <2>5 DEF TextAnswered, Answered, Request
  <2> QED
    BY <1>8, <1>14, <2>1, <2>2, <2>3, <2>4, <2>5, <2>6 DEF OnceInv
<1> QED
  <2>1. \/ crcMatches(data) /\ loop' = [loop EXCEPT !.pc = "handle", !.data = data]
        \/ loop' = Reading
    BY <1>2, <1>5, <1>7, Zenon DEF readRest
  <2> QED
    BY <2>1, <1>12, <1>13

\* by the commands,
LEMMA PacketHandle ==
  ASSUME TypeOK, WireInv, LoopInv, OnceInv,
         \/ handleQueryCommand \/ ignoreCommand
         \/ handleWriteChunkCommand \/ handleWriteValueCommand \/ handleBurnCommand
         \/ getTextSend
  PROVE  WireInv' /\ LoopInv' /\ OnceInv'
<1>1. /\ loop' = Reading /\ loop.pc \in {"handle", "send"}
      /\ UNCHANGED <<line, rx>>
  BY DEF handleQueryCommand, ignoreCommand, handleWriteChunkCommand,
         handleWriteValueCommand, handleBurnCommand, getTextSend, Handling, wire
<1>2. NoAnswer \/ \E code, body : Answer(code, body)
  BY DEF handleQueryCommand, ignoreCommand, handleWriteChunkCommand,
         handleWriteValueCommand, handleBurnCommand, getTextSend
<1>3. client'.r = client.r
  BY <1>2, AnswerEffect DEF NoAnswer
<1>4. 0 \in Int
  OBVIOUS
<1> QED
  BY <1>1, <1>3, <1>4, BackToReading

\* by a console command and its line,
LEMMA PacketConsole ==
  ASSUME TypeOK, WireInv, LoopInv, OnceInv, handleExecuteCommand \/ runConsoleLine
  PROVE  WireInv' /\ LoopInv' /\ OnceInv'
<1>1. UNCHANGED <<line, rx>> /\ 0 \in Int
  BY DEF handleExecuteCommand, runConsoleLine, wire
<1>2. CASE handleExecuteCommand
  <2>1. /\ Answer("commandOk", <<>>) /\ loop.pc = "handle"
        /\ \E r \in DOMAIN Requests : loop' = Running(r)
    BY <1>2 DEF handleExecuteCommand
  <2>2. loop'.pc = "execute" /\ loop'.data = <<>>
    BY <2>1, RunningType
  <2>3. client'.r = client.r /\ Own(client.r, loop'.data)
    BY <2>1, <2>2, AnswerEffect DEF Own
  <2>4. /\ WireInv' /\ CommandByte' = CommandByte
        /\ Absent(CommandByte, rx) => Absent(CommandByte, rx)'
        /\ Absent(CommandByte, line) => Absent(CommandByte, line)'
    BY <1>1, <2>3, WireKeeps
  <2> QED
    BY <2>1, <2>2, <2>4 DEF LoopInv, OnceInv
<1>3. CASE runConsoleLine
  <2>1. loop' = Reading /\ client' = client
    BY <1>3 DEF runConsoleLine
  <2>2. TextAnswered' => TextAnswered
    BY <2>1 DEF TextAnswered, Answered, Request
  <2> QED
    BY <1>1, <2>1, <2>2, BackToReading
<1> QED
  BY <1>2, <1>3

\* by the steps that answer with a text,
LEMMA PacketText ==
  ASSUME TypeOK, WireInv, LoopInv, OnceInv, handleGetText \/ getTextSwap
  PROVE  WireInv' /\ LoopInv' /\ OnceInv'
<1>1. /\ loop.pc \in {"handle", "publish"}
      /\ loop'.pc \in {"publish", "send"} /\ loop'.data = loop.data
      /\ UNCHANGED <<line, rx, client>>
  BY DEF handleGetText, getTextSwap, wire, TypeOK, LoopStates
<1>2. WireInv'
  BY <1>1 DEF WireInv, CommandByte
<1>3. ~TextAnswered
  BY <1>1 DEF OnceInv
<1>4. ~TextAnswered' /\ CommandByte' = CommandByte
  BY <1>1, <1>3 DEF TextAnswered, Answered, Request, CommandByte
<1> QED
  BY <1>1, <1>2, <1>4 DEF LoopInv, OnceInv

\* and by the client and the line.
LEMMA PacketLine ==
  ASSUME TypeOK, WireInv, LoopInv, ConsoleInv, OnceInv,
         (\E r \in DOMAIN Requests : Send(r)) \/ DeliverLate \/ ClientTimeout
  PROVE  WireInv' /\ LoopInv' /\ OnceInv'
<1>1. ASSUME NEW r \in DOMAIN Requests, Send(r)
      PROVE  WireInv' /\ LoopInv' /\ OnceInv'
  <2>1. /\ Own(r, rx') /\ Own(r, line') /\ Once(<<r, 3>>, rx', line')
    BY <1>1, SendEffect
  <2>2. /\ client'.r = r /\ client'.pc = "waiting" /\ loop' = loop
        /\ loop = Reading \/ loop.pc = "execute"
    BY <1>1 DEF Send, Quiet
  <2>6. loop.data = <<>> /\ loop.pc \in {"first", "execute"}
    BY <2>2, ReadingType, RunningType DEF ConsoleInv
  <2>3. Own(r, loop'.data)
    BY <2>2, <2>6 DEF Own
  <2>4. ~TextAnswered'
    BY <2>2 DEF TextAnswered, Answered
  <2>5. loop'.pc \in {"first", "execute"}
    BY <2>2, <2>6
  <2> QED
    BY <2>1, <2>2, <2>3, <2>4, <2>5 DEF WireInv, LoopInv, OnceInv, CommandByte
<1>2. CASE DeliverLate
  <2>1. /\ rx' = rx \o line /\ line' = <<>> /\ UNCHANGED <<loop, client>>
        /\ rx \in Seq(Tokens) /\ line \in Seq(Tokens)
    BY <1>2 DEF DeliverLate, TypeOK
  <2>2. PICK byte : byte = CommandByte /\ byte = CommandByte'
    BY <2>1 DEF CommandByte
  <2>3. PICK both : both = rx \o line
    OBVIOUS
  <2>4. /\ Own(client.r, rx) /\ Own(client.r, line) => Own(client.r, both)
        /\ Absent(byte, rx) /\ Absent(byte, line) => Absent(byte, both)
        /\ Once(byte, rx, line) => Once(byte, both, <<>>)
    BY <2>1, <2>3, LateKeeps
  <2>5. rx' = both
    BY <2>1, <2>3, Zenon
  <2>6. Own(client.r, <<>>) /\ Absent(byte, <<>>)
    BY DEF Own, Absent
  <2>7. WireInv'
    BY <2>1, <2>2, <2>4, <2>5, <2>6 DEF WireInv
  <2>8. TextAnswered' <=> TextAnswered
    BY <2>1 DEF TextAnswered, Answered, Request
  <2> QED
    BY <2>1, <2>2, <2>4, <2>5, <2>6, <2>7, <2>8 DEF LoopInv, OnceInv, sizeIsValid, crcMatches
<1>3. CASE ClientTimeout
  <2>1. /\ UNCHANGED <<rx, line, loop>> /\ client'.r = client.r /\ client'.pc = "timedOut"
    BY <1>3 DEF ClientTimeout, wire, TypeOK, ClientStates
  <2>2. ~TextAnswered' /\ CommandByte' = CommandByte
    BY <2>1 DEF TextAnswered, Answered, CommandByte
  <2> QED
    BY <2>1, <2>2 DEF WireInv, LoopInv, OnceInv, sizeIsValid, crcMatches
<1> QED
  BY <1>1, <1>2, <1>3

\* The line that is run is that of the client's request, which the client is answered.
LEMMA ConsoleRequest ==
  ASSUME TypeOK, WireInv, LoopInv, handleExecuteCommand
  PROVE  /\ client.r \in DOMAIN Requests /\ Request.command \in {"execute", "reset"}
         /\ loop.pc = "handle" /\ loop' = Running(client.r) /\ Answer("commandOk", <<>>)
<1>1. PICK r \in DOMAIN Requests :
        /\ r = loop.data[1][1] /\ Requests[r].command \in {"execute", "reset"}
        /\ loop' = Running(r)
  BY DEF handleExecuteCommand
<1>2. loop.pc = "handle" /\ Answer("commandOk", <<>>)
  BY DEF handleExecuteCommand
<1>3. /\ \A i \in 1 .. Len(loop.data) : loop.data[i] = <<client.r, i + 2>>
      /\ Len(loop.data) = BodySize(client.r) + 1 /\ client.r \in DOMAIN Requests
  BY <1>2, HandledPacket
<1>4. 1 \in 1 .. Len(loop.data)
  BY <1>3, RequestShape
<1> QED
  BY <1>1, <1>2, <1>3, <1>4 DEF Request

\* Nothing else starts a console line, and nothing else is done while one is run.
LEMMA ConsoleKept ==
  ASSUME TypeOK, ConsoleInv, [Next]_vars, ~handleExecuteCommand, ~runConsoleLine
  PROVE  \/ loop' = loop /\ (client' = client \/ client'.pc \in {"waiting", "timedOut"})
         \/ loop.console = 0 /\ loop'.console = 0 /\ loop'.pc # "execute"
<1>1. loop \in LoopStates
  BY DEF TypeOK
<1>2. ASSUME loop' = Reading, loop.pc # "execute"
      PROVE  loop.console = 0 /\ loop'.console = 0 /\ loop'.pc # "execute"
  BY <1>2, ReadingType DEF ConsoleInv
<1>3. ASSUME loop'.console = loop.console, loop'.pc # "execute", loop.pc # "execute"
      PROVE  loop.console = 0 /\ loop'.console = 0 /\ loop'.pc # "execute"
  BY <1>3 DEF ConsoleInv
<1>4. CASE readFirstByte \/ readSecondByte
  <2>1. /\ loop.pc # "execute"
        /\ \/ loop' = Reading
           \/ loop'.console = 0 /\ loop'.pc = "second" /\ loop.pc = "first"
           \/ \E size : loop' = [loop EXCEPT !.pc = "command", !.size = size]
    BY <1>4 DEF readFirstByte, readSecondByte, Reading
  <2> QED
    BY <1>1, <1>2, <1>3, <2>1 DEF LoopStates, ConsoleInv
<1>5. CASE readCommand \/ readRest
  <2>1. /\ loop.pc # "execute"
        /\ \/ loop' = Reading
           \/ \E data : \/ loop' = [loop EXCEPT !.pc = "rest", !.data = data]
                        \/ loop' = [loop EXCEPT !.pc = "handle", !.data = data]
    BY <1>5 DEF readCommand, readRest
  <2> QED
    BY <1>1, <1>2, <1>3, <2>1 DEF LoopStates
<1>6. CASE handleGetText \/ getTextSwap
  <2>1. /\ loop.pc # "execute"
        /\ loop' = [loop EXCEPT !.pc = "publish"] \/ loop' = [loop EXCEPT !.pc = "send"]
    BY <1>6 DEF handleGetText, getTextSwap
  <2> QED
    BY <1>1, <1>3, <2>1 DEF LoopStates
<1>7. CASE \/ readTimeout \/ handleQueryCommand \/ ignoreCommand
           \/ handleWriteChunkCommand \/ handleWriteValueCommand \/ handleBurnCommand
           \/ getTextSend
  BY <1>2, <1>7 DEF readTimeout, handleQueryCommand, ignoreCommand,
     handleWriteChunkCommand, handleWriteValueCommand, handleBurnCommand, getTextSend, Handling
<1>8. CASE (\E r \in DOMAIN Requests : Send(r)) \/ ClientTimeout
  BY <1>8 DEF Send, ClientTimeout, TypeOK, ClientStates
<1>9. CASE DeliverLate \/ publishChart \/ (LogNext /\ UNCHANGED tsVars) \/ UNCHANGED vars
  BY <1>9 DEF DeliverLate, publishChart, tsVars, vars
<1> QED
  BY <1>4, <1>5, <1>6, <1>7, <1>8, <1>9 DEF Next, tsThread

\* The invariant of the console lines is kept by every step.
LEMMA ConsoleStep ==
  ASSUME TypeOK, WireInv, LoopInv, ConsoleInv, [Next]_vars
  PROVE  ConsoleInv'
<1>1. CASE handleExecuteCommand
  <2>1. client'.r = client.r
    BY <1>1, ConsoleRequest, AnswerEffect
  <2> QED
    BY <1>1, <2>1, ConsoleRequest, RunningType DEF ConsoleInv, Request
<1>2. CASE runConsoleLine
  BY <1>2, ReadingType DEF runConsoleLine, ConsoleInv
<1>3. CASE loop' = loop /\ (client' = client \/ client'.pc \in {"waiting", "timedOut"})
  BY <1>3 DEF ConsoleInv, Request
<1>4. CASE loop'.console = 0 /\ loop'.pc # "execute"
  BY <1>4 DEF ConsoleInv
<1> QED
  BY <1>1, <1>2, <1>3, <1>4, ConsoleKept

PacketInv == TypeOK /\ WireInv /\ LoopInv /\ ConsoleInv /\ OnceInv

\* The invariants of the line and the loop hold at the start.
LEMMA PacketInit ==
  Init => PacketInv
<1> SUFFICES ASSUME Init PROVE PacketInv
  OBVIOUS
<1>1. TypeOK
  BY TypeInit
<1>2. /\ rx = <<>> /\ line = <<>> /\ loop.data = <<>> /\ loop.pc = "first"
      /\ loop.console = 0 /\ client.pc = "idle"
  BY ReadingType DEF Init
<1> QED
  BY <1>1, <1>2 DEF PacketInv, WireInv, LoopInv, ConsoleInv, OnceInv, Own, Once, AtMostOne,
                    Absent, TextAnswered, Answered

\* The log and the publishing of the chart do not touch the protocol.
LEMMA PacketStep ==
  PacketInv /\ [Next]_vars => PacketInv'
<1> SUFFICES ASSUME PacketInv, [Next]_vars PROVE PacketInv'
  OBVIOUS
<1>1. TypeOK /\ WireInv /\ LoopInv /\ ConsoleInv /\ OnceInv
  BY DEF PacketInv
<1>2. TypeOK' /\ ConsoleInv'
  BY <1>1, TypeStep, ConsoleStep
<1>3. CASE UNCHANGED tsVars
  <2>1. UNCHANGED <<line, rx, loop, client>>
    BY <1>3 DEF tsVars, wire
  <2> QED
    BY <1>1, <1>2, <2>1 DEF PacketInv, WireInv, LoopInv, OnceInv, CommandByte, TextAnswered,
                            Answered, Request, sizeIsValid, crcMatches
<1>4. CASE (\E r \in DOMAIN Requests : Send(r)) \/ DeliverLate \/ ClientTimeout
  BY <1>1, <1>2, <1>4, PacketLine DEF PacketInv
<1>5. CASE tsThread
  <2>1. CASE publishChart
    BY <1>3, <2>1 DEF publishChart
  <2> QED
    BY <1>1, <1>2, <1>5, <2>1, PacketRead, PacketRest, PacketHandle,
       PacketConsole, PacketText DEF tsThread, PacketInv
<1> QED
  BY <1>3, <1>4, <1>5 DEF Next, vars

\* Whatever size the line announces and whatever is logged, runBinaryProtocolLoop stays
\* inside crcReadBuffer and the log keeps clear of the reserve of its buffer.
THEOREM NoBufferOverrun == Spec => []BuffersHold
<1>1. PacketInv => BuffersHold
  <2> SUFFICES ASSUME PacketInv PROVE BuffersHold
    OBVIOUS
  <2>1. loop.pc \in {"rest", "handle"} => 1 + expectedSize <= crcReadBuffer
    BY TunerStudioAssumption DEF PacketInv, LoopInv, TypeOK, LoopStates, sizeIsValid,
       expectedSize, CRC_WRAPPING_SIZE, CRC_VALUE_SIZE
  <2>2. accumulatedSize < MAX_DL_CAPACITY
    BY LoggingAssumption DEF PacketInv, TypeOK, LogTypeOK, MAX_DL_CAPACITY
  <2> QED
    BY <2>1, <2>2 DEF BuffersHold
<1> QED
  BY <1>1, PacketInit, PacketStep, PTL DEF Spec

-----------------------------------------------------------------------------
(* The tune *)

\* A value the client asked for at an offset.
AskedFor(value, o) ==
  \E r \in DOMAIN Requests :
    /\ HasOffset(r) \/ Requests[r].command = "execute"
    /\ o - Requests[r].offset + 1 \in DOMAIN Requests[r].values
    /\ value = Requests[r].values[o - Requests[r].offset + 1]

\* What a write puts into the working copy: the values of the request at the offset it was
\* sent for.
LEMMA WrittenValue ==
  ASSUME TypeOK, WireInv, LoopInv, loop.pc = "handle", HasOffset(client.r),
         NEW count \in Nat, count <= Len(Request.values),
         NEW o \in Request.offset .. Request.offset + count - 1
  PROVE  /\ o - Request.offset + 1 \in DOMAIN Request.values
         /\ ValueAt(loop.data, o - Request.offset + 3)
              = Request.values[o - Request.offset + 1]
<1>1. /\ client.r \in DOMAIN Requests
      /\ Len(loop.data) = BodySize(client.r) + 1
      /\ \A i \in 1 .. Len(loop.data) : loop.data[i] = <<client.r, i + 2>>
  BY HandledPacket
<1>2. /\ client.r \in Nat /\ client.r # 0 /\ Request.offset \in Nat
      /\ Request.values \in Seq(Nat) /\ BodySize(client.r) = 2 + Len(Request.values)
  BY <1>1, RequestShape DEF Request
<1>3. PICK i \in 1 .. count : i = o - Request.offset + 1
  BY <1>2
<1>4. /\ i \in DOMAIN Request.values
      /\ i + 2 \in 1 .. Len(loop.data) /\ o - Request.offset + 3 = i + 2
  <2>1. PICK n \in Nat : n = Len(Request.values)
    BY <1>2
  <2>2. PICK offset \in Nat : offset = Request.offset
    BY <1>2
  <2>3. Len(loop.data) = n + 3 /\ count <= n
    BY <1>1, <1>2, <2>1
  <2>4. DOMAIN Request.values = 1 .. n
    BY <1>2, <2>1
  <2>5. o \in offset .. offset + count - 1 /\ i = o - offset + 1
    BY <1>3, <2>2
  <2>6. i \in 1 .. n /\ i + 2 \in 1 .. n + 3
    BY <2>3
  <2>7. o - offset + 3 = i + 2
    BY <2>5
  <2> QED
    BY <2>2, <2>3, <2>4, <2>6, <2>7
<1>5. PICK p \in Nat : p = i + 4
  BY <1>3
<1>6. loop.data[i + 2] = <<client.r, p>> /\ p - 4 = i
  <2>1. loop.data[i + 2] = <<client.r, (i + 2) + 2>>
    BY <1>1, <1>4, Zenon
  <2>2. (i + 2) + 2 = p /\ p - 4 = i
    BY <1>3, <1>5
  <2> QED
    BY <2>1, <2>2
<1>7. DOMAIN loop.data = 1 .. Len(loop.data)
  BY DEF TypeOK, LoopStates
<1>8. ValueAt(loop.data, i + 2) = ValueOf(<<client.r, p>>)
  BY <1>4, <1>6, <1>7 DEF ValueAt
<1>9. Sent(<<client.r, p>>)
  BY <1>2 DEF Sent, Corrupt
<1>10. ValueOf(<<client.r, p>>) = Request.values[i]
  BY <1>4, <1>6, <1>9 DEF ValueOf, Request
<1> QED
  BY <1>3, <1>4, <1>8, <1>10

\* The offset and the count a write is made with.
LEMMA WritePlace ==
  ASSUME TypeOK, WireInv, LoopInv, loop.pc = "handle", HasOffset(client.r)
  PROVE  writeOffset = Request.offset /\ writeCount = Len(Request.values)
<1>1. /\ client.r \in DOMAIN Requests /\ loop.size = BodySize(client.r)
      /\ Len(loop.data) = BodySize(client.r) + 1
      /\ \A i \in 1 .. Len(loop.data) : loop.data[i] = <<client.r, i + 2>>
  BY HandledPacket
<1>2. /\ client.r \in Nat /\ client.r # 0 /\ Len(Request.values) \in Nat
      /\ BodySize(client.r) = 2 + Len(Request.values)
  BY <1>1, RequestShape DEF Request
<1>3. loop.data[2] = <<client.r, 4>>
  <2>1. 2 \in 1 .. Len(loop.data) /\ 2 + 2 = 4
    BY <1>1, <1>2
  <2>2. loop.data[2] = <<client.r, 2 + 2>>
    BY <1>1, <2>1, Zenon
  <2> QED
    BY <2>1, <2>2
<1>4. writeOffset = Request.offset
  BY <1>2, <1>3 DEF writeOffset, OffsetOf, Sent, Corrupt, Request
<1>5. writeCount = Len(Request.values)
  BY <1>1, <1>2 DEF writeCount
<1> QED
  BY <1>4, <1>5

\* What a write does to the working copy and to the tune in use.
LEMMA WriteEffect ==
  ASSUME TypeOK, WireInv, LoopInv, loop.pc = "handle", HasOffset(client.r),
         NEW count \in Nat, count <= Len(Request.values), write(Request.offset, count)
  PROVE  \A o \in Offsets :
           /\ o \in Request.offset .. Request.offset + count - 1 =>
                /\ o - Request.offset + 1 \in DOMAIN Request.values
                /\ workingCopy'[o] = Request.values[o - Request.offset + 1]
                /\ Request.offset >= SoftOffset => persistent'[o] = workingCopy'[o]
           /\ o \notin Request.offset .. Request.offset + count - 1 =>
                workingCopy'[o] = workingCopy[o]
           /\ persistent'[o] \in {persistent[o], workingCopy'[o]}
<1> SUFFICES ASSUME NEW o \in Offsets
             PROVE  /\ o \in Request.offset .. Request.offset + count - 1 =>
                         /\ o - Request.offset + 1 \in DOMAIN Request.values
                         /\ workingCopy'[o] = Request.values[o - Request.offset + 1]
                         /\ Request.offset >= SoftOffset => persistent'[o] = workingCopy'[o]
                    /\ o \notin Request.offset .. Request.offset + count - 1 =>
                         workingCopy'[o] = workingCopy[o]
                    /\ persistent'[o] \in {persistent[o], workingCopy'[o]}
  OBVIOUS
<1>1. PICK offset \in Nat : offset = Request.offset
  BY HandledPacket, RequestShape DEF Request
<1>2. PICK written : written = offset .. offset + count - 1
  OBVIOUS
<1>3. workingCopy'[o] = IF o \in written THEN ValueAt(loop.data, o - offset + 3)
                        ELSE workingCopy[o]
  BY <1>1, <1>2 DEF write
<1>4. o \in written => /\ o - offset + 1 \in DOMAIN Request.values
                       /\ ValueAt(loop.data, o - offset + 3) = Request.values[o - offset + 1]
  BY <1>1, <1>2, WrittenValue
<1>5. \/ offset < SoftOffset /\ persistent'[o] = persistent[o]
      \/ /\ ~(offset < SoftOffset)
         /\ persistent'[o] = IF o \in written THEN workingCopy'[o] ELSE persistent[o]
  BY <1>1, <1>2 DEF write, onlineApplyWorkingCopyBytes
<1>6. Request.offset >= SoftOffset => ~(offset < SoftOffset)
  BY <1>1, TunerStudioAssumption
<1> QED
  BY <1>1, <1>2, <1>3, <1>4, <1>5, <1>6

\* What a step may do to the tune.
LEMMA TuneStep ==
  ASSUME PacketInv, [Next]_vars
  PROVE  \/ UNCHANGED tune
         \/ /\ loop.pc = "handle" /\ Request.command = "chunk" /\ HasOffset(client.r)
            /\ Request.offset + Len(Request.values) <= PageSize
            /\ write(Request.offset, Len(Request.values))
         \/ /\ loop.pc = "handle" /\ Request.command = "single" /\ HasOffset(client.r)
            /\ Len(Request.values) = 1
            /\ write(Request.offset, 1)
         \/ /\ loop.pc = "handle" /\ Request.command = "burn"
            /\ persistent' = workingCopy /\ UNCHANGED workingCopy
         \/ runConsoleLine
<1>1. TypeOK /\ WireInv /\ LoopInv
  BY DEF PacketInv
<1>2. ASSUME NEW command, Handling({command})
      PROVE  /\ loop.pc = "handle" /\ Request.command = command
             /\ client.r \in DOMAIN Requests
             /\ Request.offset \in Nat /\ Len(Request.values) \in Nat
  <2>1. loop.pc = "handle" /\ CommandsOf(loop.data[1]) \cap {command} # {}
    BY <1>2 DEF Handling
  <2>2. client.r \in DOMAIN Requests /\ CommandsOf(loop.data[1]) = {Request.command}
    BY <1>1, <2>1, HandledPacket
  <2> QED
    BY <2>1, <2>2, RequestShape DEF Request
<1>3. CASE handleWriteChunkCommand
  <2>1. /\ loop.pc = "handle" /\ Request.command = "chunk"
        /\ Request.offset \in Nat /\ Len(Request.values) \in Nat
    BY <1>2, <1>3 DEF handleWriteChunkCommand
  <2>2. HasOffset(client.r)
    BY <2>1 DEF HasOffset, Request
  <2>3. writeOffset = Request.offset /\ writeCount = Len(Request.values)
    BY <1>1, <2>1, <2>2, WritePlace
  <2>4. CASE validateOffsetCount(writeOffset, writeCount)
    BY <1>3, <2>4 DEF handleWriteChunkCommand
  <2>5. CASE ~validateOffsetCount(writeOffset, writeCount)
    <3>1. write(Request.offset, Len(Request.values))
      BY <1>3, <2>3, <2>5 DEF handleWriteChunkCommand
    <3>2. Request.offset + Len(Request.values) <= PageSize
      BY <2>1, <2>3, <2>5, TunerStudioAssumption DEF validateOffsetCount
    <3> QED
      BY <2>1, <2>2, <3>1, <3>2
  <2> QED
    BY <2>4, <2>5
<1>4. CASE handleWriteValueCommand
  <2>1. loop.pc = "handle" /\ Request.command = "single" /\ client.r \in DOMAIN Requests
    BY <1>2, <1>4 DEF handleWriteValueCommand
  <2>2. HasOffset(client.r) /\ Len(Request.values) = 1
    BY <2>1, RequestsAssumption DEF HasOffset, Request
  <2>3. writeOffset = Request.offset
    BY <1>1, <2>1, <2>2, WritePlace
  <2> QED
    BY <1>4, <2>1, <2>2, <2>3 DEF handleWriteValueCommand
<1>5. CASE handleBurnCommand
  BY <1>2, <1>5 DEF handleBurnCommand
<1>6. CASE UNCHANGED tune
  BY <1>6
<1> QED
  <2>1. CASE UNCHANGED vars
    BY <2>1 DEF vars, tsVars, tune
  <2>2. CASE (\E r \in DOMAIN Requests : Send(r)) \/ DeliverLate \/ ClientTimeout
             \/ (LogNext /\ UNCHANGED tsVars)
    BY <2>2 DEF Send, DeliverLate, ClientTimeout, tsVars
  <2>3. CASE tsThread /\ ~runConsoleLine
    BY <1>3, <1>4, <1>5, <1>6, <2>3
       DEF tsThread, readFirstByte, readSecondByte, readCommand, readRest, readTimeout,
           handleQueryCommand, ignoreCommand, handleExecuteCommand, handleGetText,
           publishChart, getTextSwap, getTextSend, tsVars
  <2> QED
    BY <1>6, <2>1, <2>2, <2>3 DEF Next

Genuine(value, o) == value = InitialValue \/ AskedFor(value, o)

\* The tune only ever holds values that a write of the client, or a console line it sent,
\* puts at that place: no damaged, shortened or late packet is taken for one of them.
THEOREM OnlySentValues == Spec => []TuneWasSent
<1> DEFINE Sane == \A o \in Offsets : Genuine(workingCopy[o], o) /\ Genuine(persistent[o], o)
<1>1. Sane => TuneWasSent
  BY DEF TuneWasSent, Genuine, AskedFor
<1>2. Init => Sane
  BY DEF Init, Genuine
<1>3. Sane /\ PacketInv /\ [Next]_vars => Sane'
  <2> SUFFICES ASSUME Sane, PacketInv, [Next]_vars PROVE Sane'
    OBVIOUS
  <2>1. CASE UNCHANGED tune
    BY <2>1 DEF tune
  <2>2. CASE persistent' = workingCopy /\ UNCHANGED workingCopy
    BY <2>2
  <2>3. ASSUME NEW count \in Nat, count <= Len(Request.values), loop.pc = "handle",
               HasOffset(client.r), write(Request.offset, count)
        PROVE  Sane'
    <3>1. TypeOK /\ WireInv /\ LoopInv
      BY DEF PacketInv
    <3>2. client.r \in DOMAIN Requests
      BY <2>3, <3>1, HandledPacket
    <3>3. ASSUME NEW o \in Offsets
          PROVE  Genuine(workingCopy'[o], o) /\ Genuine(persistent'[o], o)
      <4>1. /\ \/ workingCopy'[o] = workingCopy[o]
               \/ /\ o - Request.offset + 1 \in DOMAIN Request.values
                  /\ workingCopy'[o] = Request.values[o - Request.offset + 1]
            /\ persistent'[o] \in {persistent[o], workingCopy'[o]}
        BY <2>3, <3>1, WriteEffect
      <4>2. Genuine(workingCopy'[o], o)
        BY <2>3, <3>2, <4>1 DEF Genuine, AskedFor, Request
      <4> QED
        BY <4>1, <4>2
    <3> QED
      BY <3>3
  <2>4. Len(Request.values) \in Nat \/ loop.pc # "handle"
    BY HandledPacket, RequestShape DEF PacketInv, Request
  <2>5. CASE runConsoleLine
    <3>1. PICK r \in DOMAIN Requests :
            Requests[r].command \in {"execute", "reset"} /\ loop.console = r
      BY <2>5, RunningType DEF runConsoleLine, PacketInv, ConsoleInv
    <3>2. CASE Requests[r].command = "reset"
      BY <2>5, <3>1, <3>2 DEF runConsoleLine, Genuine
    <3>3. CASE Requests[r].command # "reset"
      <4>1. /\ workingCopy' = workingCopy
            /\ persistent' = [o \in Offsets |->
                 IF o - Requests[r].offset + 1 \in DOMAIN Requests[r].values
                 THEN Requests[r].values[o - Requests[r].offset + 1] ELSE persistent[o]]
        BY <2>5, <3>1, <3>3 DEF runConsoleLine
      <4>2. \A o \in Offsets : Genuine(persistent'[o], o)
        BY <3>1, <3>3, <4>1 DEF Genuine, AskedFor
      <4> QED
        BY <4>1, <4>2
    <3> QED
      BY <3>2, <3>3
  <2>6. \/ UNCHANGED tune
        \/ persistent' = workingCopy /\ UNCHANGED workingCopy
        \/ \E count \in Nat : /\ count <= Len(Request.values) /\ loop.pc = "handle"
                             /\ HasOffset(client.r) /\ write(Request.offset, count)
        \/ runConsoleLine
    <3>1. ASSUME Len(Request.values) \in Nat
          PROVE  Len(Request.values) <= Len(Request.values)
      BY <3>1
    <3>2. 1 \in Nat /\ 1 <= 1
      OBVIOUS
    <3> QED
      BY <2>4, <3>1, <3>2, TuneStep, Zenon
  <2> HIDE DEF Sane
  <2> QED
    BY <2>1, <2>2, <2>3, <2>5, <2>6
<1> QED
  BY <1>1, <1>2, <1>3, PacketInit, PacketStep, PTL DEF Spec

\* An acknowledgement is given by the handler of the request, after its effect.
LEMMA AnswerStep ==
  ASSUME PacketInv, [Next]_vars, client'.pc = "answered"
  PROVE  \/ client' = client
         \/ /\ client'.r = client.r
            /\ client'.code = "ok" /\ Request.command = "chunk" =>
                 /\ loop.pc = "handle" /\ HasOffset(client.r)
                 /\ Request.offset + Len(Request.values) <= PageSize
                 /\ write(Request.offset, Len(Request.values))
            /\ client'.code = "burnOk" => persistent' = workingCopy /\ UNCHANGED workingCopy
<1>1. TypeOK /\ WireInv /\ LoopInv
  BY DEF PacketInv
<1>2. ASSUME NEW code \in {"plain", "error", "underrun", "commandOk"}, NEW body,
             Answer(code, body)
      PROVE  \/ client' = client
             \/ client'.r = client.r /\ client'.code \notin {"ok", "burnOk"}
  <2>1. client'.r = client.r /\ (client' = client \/ client'.code = code)
    BY <1>1, <1>2, AnswerEffect
  <2>2. code \notin {"ok", "burnOk"}
    OBVIOUS
  <2> QED
    BY <2>1, <2>2
<1>3. ASSUME NEW command, Handling({command})
      PROVE  loop.pc = "handle" /\ Request.command = command
  BY <1>1, <1>3, HandledPacket DEF Handling
<1>4. CASE handleQueryCommand
  <2>1. Request.command = "query" /\ \E code \in {"ok", "error"} : Answer(code, <<>>)
    BY <1>3, <1>4 DEF handleQueryCommand
  <2>2. client'.r = client.r /\ (client' = client \/ client'.code \in {"ok", "error"})
    BY <1>1, <2>1, AnswerEffect
  <2> QED
    BY <2>1, <2>2
<1>5. CASE handleBurnCommand
  <2>1. Answer("burnOk", <<>>) /\ persistent' = workingCopy /\ UNCHANGED workingCopy
    BY <1>5 DEF handleBurnCommand
  <2>2. client'.r = client.r /\ (client' = client \/ client'.code = "burnOk")
    BY <1>1, <2>1, AnswerEffect
  <2> QED
    BY <2>1, <2>2
<1>6. CASE handleWriteChunkCommand
  <2>1. Request.command = "chunk" /\ loop.pc = "handle"
    BY <1>3, <1>6 DEF handleWriteChunkCommand
  <2>2. CASE validateOffsetCount(writeOffset, writeCount)
    BY <1>2, <1>6, <2>2 DEF handleWriteChunkCommand
  <2>3. CASE ~validateOffsetCount(writeOffset, writeCount)
    <3>1. HasOffset(client.r)
      BY <2>1 DEF HasOffset, Request
    <3>2. writeOffset = Request.offset /\ writeCount = Len(Request.values)
      BY <1>1, <2>1, <3>1, WritePlace
    <3>3. write(Request.offset, Len(Request.values)) /\ Answer("ok", <<>>)
      BY <1>6, <2>3, <3>2 DEF handleWriteChunkCommand
    <3>4. Request.offset \in Nat /\ Len(Request.values) \in Nat
      BY <1>1, <2>1, HandledPacket, RequestShape DEF Request
    <3>5. Request.offset + Len(Request.values) <= PageSize
      BY <2>3, <3>2, <3>4, TunerStudioAssumption DEF validateOffsetCount
    <3>6. client'.r = client.r /\ (client' = client \/ client'.code = "ok")
      BY <1>1, <3>3, AnswerEffect
    <3> QED
      BY <2>1, <3>1, <3>3, <3>5, <3>6
  <2> QED
    BY <2>2, <2>3
<1>7. CASE client' = client
  BY <1>7
<1>8. CASE \/ readFirstByte \/ readSecondByte \/ readCommand \/ readRest \/ readTimeout
           \/ ignoreCommand \/ handleExecuteCommand \/ runConsoleLine
           \/ handleWriteValueCommand
           \/ handleGetText \/ publishChart \/ getTextSwap \/ getTextSend
  <2>1. \/ client' = client
        \/ \E body : \E code \in {"plain", "error", "underrun", "commandOk"} : Answer(code, body)
    BY <1>8 DEF readFirstByte, readSecondByte, readCommand, readRest, readTimeout,
       ignoreCommand, handleExecuteCommand, runConsoleLine, handleWriteValueCommand,
       handleGetText, publishChart, getTextSwap, getTextSend, tsVars, NoAnswer
  <2> QED
    BY <1>2, <2>1
<1>9. CASE (\E r \in DOMAIN Requests : Send(r)) \/ ClientTimeout
  <2>1. client'.pc \in {"waiting", "timedOut"}
    BY <1>1, <1>9 DEF Send, ClientTimeout, TypeOK, ClientStates
  <2> QED
    BY <2>1
<1>10. CASE DeliverLate \/ (LogNext /\ UNCHANGED tsVars) \/ UNCHANGED vars
  BY <1>10 DEF DeliverLate, tsVars, vars
<1> QED
  BY <1>4, <1>5, <1>6, <1>8, <1>9, <1>10 DEF Next, tsThread

\* A write of all values of a request leaves them in the working copy, and in use if the
\* write starts behind engine_configuration_s.
LEMMA WholeWrite ==
  ASSUME PacketInv, loop.pc = "handle", HasOffset(client.r),
         Request.offset + Len(Request.values) <= PageSize,
         write(Request.offset, Len(Request.values)),
         NEW i \in DOMAIN Request.values
  PROVE  /\ workingCopy'[Request.offset + i - 1] = Request.values[i]
         /\ Request.offset >= SoftOffset
              => persistent'[Request.offset + i - 1] = Request.values[i]
<1>1. TypeOK /\ WireInv /\ LoopInv
  BY DEF PacketInv
<1>2. Request.offset \in Nat /\ Request.values \in Seq(Nat)
  BY <1>1, HandledPacket, RequestShape DEF Request
<1>3. PICK offset \in Nat : offset = Request.offset
  BY <1>2
<1>4. PICK n \in Nat : n = Len(Request.values)
  BY <1>2
<1>5. i \in 1 .. n
  BY <1>2, <1>4
<1>6. PICK o \in Offsets : o = offset + i - 1
  BY <1>3, <1>4, <1>5, TunerStudioAssumption DEF Offsets
<1>7. /\ o \in offset .. offset + n - 1 /\ o - offset + 1 = i
  BY <1>5, <1>6
<1>8. n <= n
  OBVIOUS
<1>9. /\ workingCopy'[o] = Request.values[o - offset + 1]
      /\ Request.offset >= SoftOffset => persistent'[o] = workingCopy'[o]
  BY <1>1, <1>3, <1>4, <1>7, <1>8, WriteEffect
<1> QED
  BY <1>3, <1>6, <1>7, <1>9

\* A write the ECU acknowledged is in the working copy, and in use if it starts in the
\* tables; a burn it acknowledged has put the working copy in use: whatever the line did
\* to this request or an earlier one.
THEOREM AcknowledgedIsApplied == Spec => []AckMeansApplied
<1>1. Init => AckMeansApplied
  BY DEF Init, AckMeansApplied, Answered
<1>2. AckMeansApplied /\ PacketInv /\ [Next]_vars => AckMeansApplied'
  <2> SUFFICES ASSUME AckMeansApplied, PacketInv, [Next]_vars, client'.pc = "answered"
               PROVE  AckMeansApplied'
    BY DEF AckMeansApplied, Answered
  <2>1. client'.r = client.r /\ Request' = Request
    BY AnswerStep DEF Request
  <2>4. runConsoleLine => ~(client'.code = "ok" /\ Request.command = "chunk")
                          /\ ~(client'.code = "burnOk" /\ Request.command = "burn")
    BY DEF runConsoleLine, PacketInv, ConsoleInv
  <2>2. ASSUME client'.code = "ok", Request.command = "chunk",
               NEW i \in DOMAIN Request.values
        PROVE  /\ workingCopy'[Request.offset + i - 1] = Request.values[i]
               /\ Request.offset >= SoftOffset
                    => persistent'[Request.offset + i - 1] = Request.values[i]
    <3>1. CASE /\ loop.pc = "handle" /\ HasOffset(client.r)
               /\ Request.offset + Len(Request.values) <= PageSize
               /\ write(Request.offset, Len(Request.values))
      BY <3>1, WholeWrite
    <3>2. CASE client' = client /\ UNCHANGED tune
      BY <2>2, <3>2 DEF AckMeansApplied, Answered, tune
    <3> QED
      BY <2>2, <2>4, <3>1, <3>2, AnswerStep, TuneStep
  <2>3. ASSUME client'.code = "burnOk", Request.command = "burn"
        PROVE  persistent' = workingCopy'
    <3>1. CASE persistent' = workingCopy /\ UNCHANGED workingCopy
      BY <3>1
    <3>2. CASE client' = client /\ UNCHANGED tune
      BY <2>3, <3>2 DEF AckMeansApplied, Answered, tune
    <3> QED
      BY <2>3, <2>4, <3>1, <3>2, AnswerStep, TuneStep
  <2> QED
    BY <2>1, <2>2, <2>3 DEF AckMeansApplied, Answered
<1> QED
  BY <1>1, <1>2, PacketInit, PacketStep, PTL DEF Spec

-----------------------------------------------------------------------------
(* The text *)

\* A whole message goes behind the accumulated ones, and only there.
LEMMA ScheduleKeeps ==
  ASSUME LogTypeOK,
         Accumulated(pendingBuffers[accumulationBuffer], accumulatedSize, accepted),
         NEW characters \in Seq(Characters), NEW c, NEW n \in Nat, n = Len(characters),
         \A i \in 1 .. n : characters[i] = c,
         scheduleLogging(characters, c, n)
  PROVE  /\ Accumulated(pendingBuffers[accumulationBuffer], accumulatedSize, accepted)'
         /\ accumulationBuffer' = accumulationBuffer
         /\ pendingBuffers'[outputBuffer] = pendingBuffers[outputBuffer]
<1>1. CASE ~fits(n)
  BY <1>1 DEF scheduleLogging, log
<1>2. CASE fits(n)
  <2>1. appendText(characters, c, n) /\ accumulatedSize + n < DL_OUTPUT_BUFFER - 5
    BY <1>2 DEF scheduleLogging, fits, MAX_DL_CAPACITY
  <2>2. PICK size \in Nat : size = accumulatedSize
    BY DEF LogTypeOK
  <2>3. PICK old \in [Cells -> Characters \cup {NUL}] : old = pendingBuffers[accumulationBuffer]
    BY DEF LogTypeOK
  <2>4. PICK new : new = [i \in Cells |-> IF i \in size .. size + n
                                          THEN CharAt(characters, c, i - size) ELSE old[i]]
    OBVIOUS
  <2>5. /\ pendingBuffers' = [pendingBuffers EXCEPT ![accumulationBuffer] = new]
        /\ accumulationBuffer' = accumulationBuffer
        /\ accumulatedSize' = size + n /\ accepted' = accepted \o characters
    BY <2>1, <2>2, <2>3, <2>4 DEF appendText
  <2>6. /\ accumulationBuffer \in {0, 1} /\ outputBuffer \in {0, 1}
        /\ outputBuffer # accumulationBuffer /\ DOMAIN pendingBuffers = {0, 1}
    BY DEF LogTypeOK, outputBuffer
  <2>7. /\ pendingBuffers'[accumulationBuffer'] = new
        /\ pendingBuffers'[outputBuffer] = pendingBuffers[outputBuffer]
    BY <2>5, <2>6
  <2>8. /\ Len(accepted) = size /\ old[size] = NUL
        /\ \A i \in 1 .. size : old[i - 1] = accepted[i]
    BY <2>2, <2>3 DEF Accumulated
  <2>9. PICK longer : longer = accepted \o characters
    OBVIOUS
  <2>10. accepted \in Seq(Characters)
    BY DEF LogTypeOK
  <2>11. /\ Len(longer) = size + n
         /\ \A i \in 1 .. size + n :
              longer[i] = IF i <= size THEN accepted[i] ELSE characters[i - size]
    <3>1. /\ Len(accepted \o characters) = Len(accepted) + Len(characters)
          /\ \A i \in 1 .. Len(accepted) + Len(characters) :
               (accepted \o characters)[i] =
                  IF i <= Len(accepted) THEN accepted[i] ELSE characters[i - Len(accepted)]
      BY <2>10, ConcatProperties
    <3>2. Len(accepted) = size /\ Len(characters) = n
      BY <2>8
    <3> QED
      BY <2>9, <3>1, <3>2
  <2>12. \A i \in 0 .. size + n : i \in Cells
    BY <2>1, <2>2, LoggingAssumption DEF Cells
  <2>13. ASSUME NEW i \in 1 .. size + n PROVE new[i - 1] = longer[i]
    <3>1. i - 1 \in 0 .. size + n /\ i \in Nat
      OBVIOUS
    <3>2. CASE i <= size
      <4>1. i - 1 \notin size .. size + n /\ i \in 1 .. size
        BY <3>1, <3>2
      <4> QED
        BY <2>4, <2>8, <2>11, <2>12, <3>1, <3>2, <4>1
    <3>3. CASE ~(i <= size)
      <4>1. i - 1 \in size .. size + n /\ i - 1 - size # n /\ i - size \in 1 .. n
        BY <3>1, <3>3
      <4>2. new[i - 1] = CharAt(characters, c, i - 1 - size)
        BY <2>4, <2>12, <3>1, <4>1
      <4>3. CharAt(characters, c, i - 1 - size) = c
        BY <4>1 DEF CharAt
      <4> QED
        BY <2>11, <3>3, <4>1, <4>2, <4>3
    <3> QED
      BY <3>2, <3>3
  <2>14. new[size + n] = NUL
    <3>1. size + n \in size .. size + n /\ size + n \in 0 .. size + n /\ size + n - size = n
      OBVIOUS
    <3>2. new[size + n] = CharAt(characters, c, size + n - size)
      BY <2>4, <2>12, <3>1
    <3> QED
      BY <3>1, <3>2 DEF CharAt
  <2>15. Accumulated(new, size + n, longer)
    BY <2>11, <2>13, <2>14 DEF Accumulated
  <2> QED
    BY <2>5, <2>7, <2>9, <2>15
<1> QED
  BY <1>1, <1>2

\* A message of n equal characters.
LEMMA MessageKeeps ==
  ASSUME LogTypeOK,
         Accumulated(pendingBuffers[accumulationBuffer], accumulatedSize, accepted),
         NEW n \in Nat, scheduleLogging(Chars("m", n), "m", n)
  PROVE  /\ Accumulated(pendingBuffers[accumulationBuffer], accumulatedSize, accepted)'
         /\ accumulationBuffer' = accumulationBuffer
         /\ pendingBuffers'[outputBuffer] = pendingBuffers[outputBuffer]
<1>1. "m" \in Characters
  BY DEF Characters
<1>2. PICK characters \in Seq(Characters) :
        characters = Chars("m", n) /\ n = Len(characters)
        /\ \A i \in 1 .. n : characters[i] = "m"
  BY <1>1, CharsType
<1>3. scheduleLogging(characters, "m", n)
  BY <1>2
<1> QED
  BY <1>2, <1>3, ScheduleKeeps

\* A step appends whole messages to the accumulation buffer or nothing, and leaves the
\* other buffer alone.
BuffersKept ==
  /\ Accumulated(pendingBuffers[accumulationBuffer], accumulatedSize, accepted)'
  /\ accumulationBuffer' = accumulationBuffer
  /\ pendingBuffers'[outputBuffer] = pendingBuffers[outputBuffer]

\* A step that logs nothing leaves the buffers as they are.
LEMMA LogUntouched ==
  ASSUME LogInv, UNCHANGED log
  PROVE  BuffersKept
BY DEF LogInv, BuffersKept, log

\* The thread's own messages are appended whole.
LEMMA OwnKeeps ==
  ASSUME LogTypeOK, LogInv, logOwn
  PROVE  BuffersKept
BY MessageKeeps DEF LogInv, logOwn, TsMessage, BuffersKept

\* Every step keeps the accumulated text, and only the swap touches the other buffer.
LEMMA LogStep ==
  ASSUME ~ChartMayBeOld, TypeOK, LogInv, [Next]_vars
  PROVE  LogInv' /\ (getTextSwap \/ BuffersKept)
<1>1. LogTypeOK /\ chart \in [text : Seq({"c"}), counter : Nat]
  BY DEF TypeOK, LogTypeOK
<1>2. CASE UNCHANGED logVars
  BY <1>2, LogUntouched DEF LogInv, ChartInv, isFull, BuffersKept, logVars, sniffer
<1>3. CASE logOwn
  <2>1. BuffersKept
    BY <1>1, <1>3, OwnKeeps
  <2> QED
    BY <1>3, <2>1 DEF logOwn, sniffer, LogInv, ChartInv, isFull, BuffersKept
<1>4. ASSUME NEW length \in MessageLengths, scheduleMsg(length)
      PROVE  LogInv' /\ BuffersKept
  <2>1. length \in Nat
    BY LoggingAssumption
  <2>2. BuffersKept
    BY <1>1, <1>4, <2>1, MessageKeeps DEF scheduleMsg, LogInv, BuffersKept
  <2> QED
    BY <1>4, <2>2 DEF scheduleMsg, sniffer, LogInv, ChartInv, isFull, BuffersKept
<1>5. CASE addEvent3
  <2>1. publisher.pc \notin {"measure", "copy"} /\ publisher' = publisher
    BY <1>5 DEF addEvent3, LogInv, ChartInv
  <2> QED
    BY <1>5, <2>1, LogUntouched DEF addEvent3, LogInv, ChartInv, BuffersKept
<1>6. CASE publishIfFull
  <2>1. BuffersKept
    BY <1>6, LogUntouched DEF publishIfFull
  <2>2. \/ publisher'.pc = "done"
        \/ /\ isFull /\ publisher'.pc = "measure"
           /\ chart' = [chart EXCEPT !.text = Append(@, "c")]
    BY <1>6, <1>1 DEF publishIfFull, LogTypeOK
  <2>3. chart' = [chart EXCEPT !.text = Append(@, "c")] => chart'.counter = chart.counter
    BY <1>1
  <2>4. ChartInv'
    BY <2>2, <2>3 DEF ChartInv, isFull
  <2> QED
    BY <2>1, <2>4 DEF LogInv, BuffersKept
<1>7. CASE publishMeasure
  <2>1. /\ BuffersKept /\ publisher.pc = "measure" /\ chart' = chart
        /\ publisher' = [pc |-> "copy", newLength |-> Len(chart.text)]
    BY <1>7, LogUntouched DEF publishMeasure
  <2>2. ChartInv'
    BY <2>1 DEF LogInv, ChartInv, isFull
  <2> QED
    BY <2>1, <2>2 DEF LogInv, BuffersKept
<1>8. CASE publishCopy
  <2>1. /\ publisher'.pc = "reset" /\ publisher.newLength = Len(chart.text)
        /\ scheduleLogging(chart.text, "c", publisher.newLength)
    BY <1>8 DEF publishCopy, LogInv, ChartInv
  <2>2. PICK s \in Seq({"c"}) : s = chart.text
    BY <1>1
  <2>3. s \in Seq(Characters) /\ \A i \in 1 .. Len(s) : s[i] = "c"
    BY ChartText
  <2>4. PICK n \in Nat : n = Len(s)
    BY <2>3
  <2>5. scheduleLogging(s, "c", n)
    BY <2>1, <2>2, <2>4
  <2>6. BuffersKept
    BY <1>1, <2>3, <2>4, <2>5, ScheduleKeeps DEF LogInv, BuffersKept
  <2> QED
    BY <2>1, <2>6 DEF LogInv, ChartInv, BuffersKept
<1>9. CASE publishReset
  <2>1. BuffersKept /\ publisher'.pc = "done"
    BY <1>1, <1>9, LogUntouched DEF publishReset, LogTypeOK
  <2> QED
    BY <2>1 DEF LogInv, ChartInv, BuffersKept
<1>10. CASE handleGetText
  <2>1. BuffersKept /\ publisher'.pc = "check"
    BY <1>1, <1>10, LogUntouched DEF handleGetText, LogTypeOK
  <2> QED
    BY <2>1 DEF LogInv, ChartInv, BuffersKept
<1>11. CASE getTextSwap
  <2>1. publisher'.pc = "idle"
    BY <1>1, <1>11 DEF getTextSwap, LogTypeOK
  <2>2. PICK other \in {0, 1} : other = outputBuffer
    BY <1>1 DEF LogTypeOK, outputBuffer
  <2>3. PICK cells \in [Cells -> Characters \cup {NUL}] : cells = pendingBuffers[other]
    BY <1>1 DEF LogTypeOK
  <2>4. PICK empty : empty = [cells EXCEPT ![0] = NUL]
    OBVIOUS
  <2>5. empty[0] = NUL
    BY <2>3, <2>4, LoggingAssumption DEF Cells
  <2>6. /\ pendingBuffers' = [pendingBuffers EXCEPT ![other] = empty]
        /\ accumulationBuffer' = other /\ accumulatedSize' = 0 /\ accepted' = <<>>
    BY <1>11, <2>2, <2>3, <2>4 DEF getTextSwap, swapOutputBuffers
  <2>7. pendingBuffers'[other] = empty
    BY <1>1, <2>6 DEF LogTypeOK
  <2>8. Accumulated(empty, 0, <<>>)
    BY <2>5 DEF Accumulated
  <2> QED
    BY <1>11, <2>1, <2>6, <2>7, <2>8 DEF LogInv, ChartInv
<1> QED
  <2>1. CASE UNCHANGED vars
    BY <1>2, <2>1 DEF vars
  <2>2. CASE (\E r \in DOMAIN Requests : Send(r)) \/ DeliverLate \/ ClientTimeout
    BY <1>2, <2>2 DEF Send, DeliverLate, ClientTimeout
  <2>3. CASE LogNext /\ UNCHANGED tsVars
    BY <1>4, <1>5, <2>3 DEF LogNext
  <2>4. CASE publishChart
    BY <1>6, <1>7, <1>8, <1>9, <2>4 DEF publishChart, Publish
  <2>5. CASE \/ readFirstByte \/ readSecondByte \/ readCommand \/ readRest \/ readTimeout
             \/ handleQueryCommand \/ ignoreCommand \/ handleExecuteCommand \/ runConsoleLine
             \/ handleWriteChunkCommand \/ handleWriteValueCommand \/ handleBurnCommand
             \/ getTextSend
    BY <1>2, <1>3, <2>5 DEF readFirstByte, readSecondByte, readCommand, readRest, readTimeout,
       handleQueryCommand, ignoreCommand, handleExecuteCommand, runConsoleLine,
       handleWriteChunkCommand, handleWriteValueCommand, handleBurnCommand, getTextSend
  <2> QED
    BY <1>10, <1>11, <2>1, <2>2, <2>3, <2>4, <2>5 DEF Next, tsThread

\* The log starts empty.
LEMMA LogStart ==
  Init => LogInv /\ SendInv
<1> SUFFICES ASSUME Init PROVE LogInv /\ SendInv
  OBVIOUS
<1>1. ChartInv /\ SendInv
  BY ReadingType DEF Init, LogInit, ChartInv, SendInv
<1>2. pendingBuffers[0][0] = NUL /\ 0 \in Cells
  BY LoggingAssumption DEF Init, LogInit, Cells
<1> QED
  BY <1>1, <1>2 DEF Init, LogInit, LogInv, Accumulated

\* The accumulated text as the console reads it is what was logged, and of the length
\* that was counted.
LEMMA LogMatches ==
  ASSUME TypeOK, LogInv
  PROVE  SizeMatches
<1>1. /\ pendingBuffers[accumulationBuffer] \in [Cells -> Characters \cup {NUL}]
      /\ accepted \in Seq(Characters)
  BY DEF TypeOK, LogTypeOK
<1>2. accumulatedSize \in 0 .. DL_OUTPUT_BUFFER - 1
  BY LoggingAssumption DEF TypeOK, LogTypeOK, MAX_DL_CAPACITY
<1> QED
  BY <1>1, <1>2, AccumulatedText DEF LogInv, SizeMatches

\* If a chart is handed over only when it is full, the accumulated text is what was logged
\* since the last swap and accumulatedSize is its length: swapOutputBuffers never reports
\* "lsize mismatch".
THEOREM NoSizeMismatch ==
  ASSUME ~ChartMayBeOld
  PROVE  Spec => []SizeMatches
<1>1. LogInv /\ TypeOK /\ [Next]_vars => LogInv'
  BY LogStep
<1>2. Init => LogInv
  BY LogStart
<1>3. TypeOK /\ LogInv => SizeMatches
  BY LogMatches
<1> QED
  BY <1>1, <1>2, <1>3, TypeInit, TypeStep, PTL DEF Spec

\* While a text is sent its buffer is left alone.
LEMMA SendStep ==
  ASSUME ~ChartMayBeOld, TypeOK, LogInv, SendInv, [Next]_vars
  PROVE  SendInv'
<1>1. CASE getTextSwap
  <2>1. /\ text' = [crc |-> Text(pendingBuffers[accumulationBuffer]), logged |-> accepted]
        /\ Text(pendingBuffers[accumulationBuffer]) = accepted
    BY <1>1, LogMatches DEF getTextSwap, SizeMatches
  <2>2. PICK b \in {0, 1} : b = accumulationBuffer /\ b # outputBuffer /\ outputBuffer \in {0, 1}
    BY DEF TypeOK, LogTypeOK, outputBuffer
  <2>3. pendingBuffers'[b] = pendingBuffers[b] /\ accumulationBuffer' = outputBuffer
    BY <1>1, <2>2 DEF getTextSwap, swapOutputBuffers, TypeOK, LogTypeOK
  <2>4. outputBuffer' = b
    BY <2>2, <2>3 DEF outputBuffer
  <2>5. text'.crc = accepted /\ text'.logged = accepted
    BY <2>1
  <2>6. /\ Len(accepted) = accumulatedSize
        /\ \A i \in 1 .. accumulatedSize : pendingBuffers[b][i - 1] = accepted[i]
    BY <2>2 DEF LogInv, Accumulated
  <2> QED
    BY <2>3, <2>4, <2>5, <2>6 DEF SendInv
<1>2. CASE ~getTextSwap /\ loop'.pc = "send"
  <2>1. loop.pc = "send" /\ text' = text
    <3>1. CASE loop' = loop /\ text' = text
      BY <1>2, <3>1
    <3>2. CASE loop' = Reading
      BY <1>2, <3>2, ReadingType
    <3>3. CASE loop'.pc \in {"second", "command", "rest", "handle", "publish"}
      BY <1>2, <3>3
    <3>4. CASE readFirstByte \/ readSecondByte \/ readCommand \/ readRest \/ readTimeout
      <4>1. \/ loop' = Reading
            \/ loop'.pc \in {"second", "command", "rest", "handle"}
        BY <3>4 DEF readFirstByte, readSecondByte, readCommand, readRest, readTimeout,
           Reading, TypeOK, LoopStates
      <4> QED
        BY <3>2, <3>3, <4>1
    <3>5. CASE \/ handleQueryCommand \/ ignoreCommand \/ handleExecuteCommand \/ runConsoleLine
               \/ handleWriteChunkCommand \/ handleWriteValueCommand \/ handleBurnCommand
               \/ getTextSend
      <4>1. loop' = Reading \/ \E r \in DOMAIN Requests : loop' = Running(r)
        BY <3>5 DEF handleQueryCommand, ignoreCommand, handleExecuteCommand, runConsoleLine,
           handleWriteChunkCommand, handleWriteValueCommand, handleBurnCommand, getTextSend,
           Handling
      <4> QED
        BY <1>2, <3>2, <4>1, RunningType
    <3>6. CASE handleGetText
      BY <3>3, <3>6 DEF handleGetText, TypeOK, LoopStates
    <3>7. CASE \/ \E r \in DOMAIN Requests : Send(r)
               \/ DeliverLate \/ ClientTimeout \/ publishChart
               \/ LogNext /\ UNCHANGED tsVars
               \/ UNCHANGED vars
      BY <3>1, <3>7 DEF Send, DeliverLate, ClientTimeout, publishChart, tsVars, vars
    <3> QED
      BY <1>2, <3>4, <3>5, <3>6, <3>7 DEF Next, tsThread
  <2>2. BuffersKept
    BY <1>2, LogStep
  <2>3. outputBuffer' = outputBuffer /\ pendingBuffers'[outputBuffer] = pendingBuffers[outputBuffer]
    BY <2>2 DEF BuffersKept, outputBuffer
  <2> QED
    BY <2>1, <2>3 DEF SendInv
<1>3. CASE loop'.pc # "send"
  BY <1>3 DEF SendInv
<1> QED
  BY <1>1, <1>2, <1>3

\* The text a client receives.
LEMMA TextStep ==
  ASSUME PacketInv, LogInv, SendInv, TextIsWhole, [Next]_vars
  PROVE  TextIsWhole'
<1>1. TypeOK /\ WireInv /\ LoopInv /\ OnceInv
  BY DEF PacketInv
<1> SUFFICES ASSUME TextAnswered' PROVE client'.body = text'.crc /\ client'.body = text'.logged
  BY DEF TextIsWhole, TextAnswered
<1>2. CASE client' = client /\ text' = text
  BY <1>2 DEF TextIsWhole, TextAnswered, Answered, Request
<1>3. CASE getTextSwap
  <2>1. client' = client /\ loop.pc = "publish"
    BY <1>3 DEF getTextSwap
  <2>2. TextAnswered
    BY <2>1 DEF TextAnswered, Answered, Request
  <2> QED
    BY <1>1, <2>1, <2>2 DEF OnceInv
<1>4. CASE getTextSend
  <2>1. text' = text /\ loop.pc = "send"
    BY <1>4 DEF getTextSend
  <2>2. PICK body : body = [i \in 1 .. Len(text.crc) |-> pendingBuffers[outputBuffer][i - 1]]
    OBVIOUS
  <2>3. Answer("commandOk", body)
    BY <1>4, <2>2 DEF getTextSend
  <2>4. client' = client \/ client'.body = body
    BY <1>1, <2>3, AnswerEffect DEF TextAnswered, Answered
  <2>5. text.crc \in Seq(Characters)
    BY <1>1 DEF TypeOK
  <2>6. body = [i \in 1 .. Len(text.crc) |-> text.crc[i]]
    BY <2>1, <2>2 DEF SendInv
  <2>7. body = text.crc /\ text.crc = text.logged
    BY <2>1, <2>5, <2>6 DEF SendInv
  <2> QED
    BY <1>2, <2>1, <2>4, <2>7
<1>5. ASSUME NEW code \in {"plain", "ok", "error", "underrun", "burnOk"}, NEW body,
             Answer(code, body)
      PROVE  client' = client
  <2>1. client' = client \/ client'.code = code
    BY <1>1, <1>5, AnswerEffect DEF TextAnswered, Answered
  <2>2. client'.code = "commandOk" /\ code # "commandOk"
    BY DEF TextAnswered, Answered
  <2> QED
    BY <2>1, <2>2
<1>6. CASE handleExecuteCommand
  <2>1. Request.command \in {"execute", "reset"} /\ Answer("commandOk", <<>>)
    BY <1>1, <1>6, ConsoleRequest
  <2>2. client'.r = client.r
    BY <1>1, <2>1, AnswerEffect
  <2> QED
    BY <2>1, <2>2 DEF TextAnswered, Answered, Request
<1>7. CASE \/ readFirstByte \/ readSecondByte \/ readCommand \/ readRest \/ readTimeout
           \/ handleQueryCommand \/ ignoreCommand \/ runConsoleLine
           \/ handleWriteChunkCommand \/ handleWriteValueCommand \/ handleBurnCommand
           \/ handleGetText \/ publishChart
           \/ DeliverLate \/ (LogNext /\ UNCHANGED tsVars) \/ UNCHANGED vars
  <2>1. /\ text' = text
        /\ \/ client' = client
           \/ \E body : \E code \in {"plain", "ok", "error", "underrun", "burnOk"} :
                Answer(code, body)
    BY <1>7 DEF readFirstByte, readSecondByte, readCommand, readRest, readTimeout,
       handleQueryCommand, ignoreCommand, runConsoleLine, handleWriteChunkCommand,
       handleWriteValueCommand, handleBurnCommand, handleGetText, publishChart, DeliverLate, tsVars, vars, NoAnswer
  <2> QED
    BY <1>2, <1>5, <2>1
<1>8. CASE (\E r \in DOMAIN Requests : Send(r)) \/ ClientTimeout
  <2>1. client'.pc \in {"waiting", "timedOut"}
    BY <1>1, <1>8 DEF Send, ClientTimeout, TypeOK, ClientStates
  <2> QED
    BY <2>1 DEF TextAnswered, Answered
<1> QED
  BY <1>3, <1>4, <1>6, <1>7, <1>8 DEF Next, tsThread

\* If a chart is handed over only when it is full, the text the client receives is the one
\* its CRC was computed of and all of what was logged since the last swap, whoever logs
\* while it is sent.
THEOREM TextArrivesWhole ==
  ASSUME ~ChartMayBeOld
  PROVE  Spec => []TextIsWhole
<1>1. PacketInv => TypeOK
  BY DEF PacketInv
<1>2. LogInv /\ TypeOK /\ [Next]_vars => LogInv'
  BY LogStep
<1>3. SendInv /\ LogInv /\ TypeOK /\ [Next]_vars => SendInv'
  BY SendStep
<1>4. TextIsWhole /\ SendInv /\ LogInv /\ PacketInv /\ [Next]_vars => TextIsWhole'
  BY TextStep
<1>5. Init => LogInv /\ SendInv /\ TextIsWhole
  BY LogStart DEF Init, TextIsWhole, Answered
<1> QED
  BY <1>1, <1>2, <1>3, <1>4, <1>5, PacketInit, PacketStep, PTL DEF Spec
-----------------------------------------------------------------------------
(* The session of the client *)

\* The bytes of a packet that the loop has read before this one.
BytesRead ==
  IF loop.pc \in {"first", "execute"} THEN 0 ELSE
  IF loop.pc = "second" THEN 1 ELSE
  IF loop.pc = "command" THEN 2 ELSE 3

\* The last place on the line where the command may still be.  A client that was answered
\* has left behind less than what would bring it to where the loop reads a command.
LastPlace == (IF client.pc = "waiting" THEN 3 ELSE 2) - BytesRead

InTime ==
  /\ Within(CommandByte, rx, LastPlace)
  /\ Within(CommandByte, line, LastPlace - Len(rx))

\* What the loop holds: the command of a client that waits, or nothing that matters.
HeldInv ==
  /\ loop.pc \in {"first", "second", "command", "execute"} => loop.data = <<>>
  /\ loop.pc \in {"publish", "send"} =>
       /\ 1 \in DOMAIN loop.data /\ loop.data[1] = CommandByte
       /\ Request.command = "text"
  /\ client.pc # "waiting" =>
       \/ loop.pc \in {"first", "second", "command", "execute"}
       \/ loop.pc = "rest" /\ loop.data[1] # CommandByte

SessionInv == PacketInv /\ InTime /\ HeldInv

\* How an answer changes the client.
AnswerSeen(code) ==
  /\ client'.r = client.r
  /\ \/ client'.pc = client.pc /\ client'.code = client.code
     \/ client.pc = "waiting" /\ client'.pc = "answered" /\ client'.code = code

\* An answer is seen once, or not at all.
LEMMA AnswerCases ==
  ASSUME TypeOK, NEW code, NEW body, Answer(code, body)
  PROVE  AnswerSeen(code)
<1>1. CASE client' = client
  BY <1>1 DEF AnswerSeen
<1>2. CASE /\ client.pc = "waiting"
           /\ client' = [client EXCEPT !.pc = "answered", !.code = code, !.body = body]
  BY <1>2 DEF TypeOK, ClientStates, AnswerSeen
<1>3. CASE client.pc = "waiting" /\ client' = [client EXCEPT !.faulty = TRUE]
  BY <1>3 DEF TypeOK, ClientStates, AnswerSeen
<1> QED
  BY <1>1, <1>2, <1>3 DEF Answer

\* No answer is not seen.
LEMMA NoAnswerCases ==
  ASSUME NoAnswer
  PROVE  \A code : AnswerSeen(code)
BY DEF NoAnswer, AnswerSeen

\* Reading k bytes moves the others k places to the front.
LEMMA ReadInTime ==
  ASSUME TypeOK, InTime, line' = line, client'.r = client.r,
         NEW k \in Nat, PartOf(rx', rx, k), Len(rx') = Len(rx) - k,
         LastPlace' >= LastPlace - k
  PROVE  InTime'
<1>1. PICK byte : byte = CommandByte /\ byte = CommandByte'
  BY DEF CommandByte
<1>8. LastPlace \in Int /\ LastPlace' \in Int
  BY DEF LastPlace, BytesRead
<1>2. PICK p \in Int : p = LastPlace
  BY <1>8
<1>3. PICK q \in Int : q = LastPlace'
  BY <1>8
<1>4. Len(rx) \in Nat /\ line \in Seq(Tokens) /\ q >= p - k
  BY <1>2, <1>3 DEF TypeOK
<1>5. Within(byte, rx, p) /\ Within(byte, line, p - Len(rx))
  BY <1>1, <1>2 DEF InTime
<1>6. Within(byte, rx', q)
  <2>1. ASSUME NEW i \in DOMAIN rx', rx'[i] = byte PROVE i <= q
    <3>1. i \in Nat /\ i + k \in DOMAIN rx /\ rx[i + k] = byte
      BY <2>1 DEF PartOf
    <3>2. i + k <= p
      BY <1>5, <3>1 DEF Within
    <3> QED
      BY <1>4, <3>1, <3>2
  <2> QED
    BY <2>1 DEF Within
<1>7. Within(byte, line, q - Len(rx'))
  <2>1. ASSUME NEW i \in DOMAIN line, line[i] = byte PROVE i <= q - Len(rx')
    <3>1. i \in Nat /\ i <= p - Len(rx)
      BY <1>4, <1>5, <2>1 DEF Within
    <3> QED
      BY <1>4, <3>1
  <2> QED
    BY <2>1 DEF Within
<1> QED
  BY <1>1, <1>3, <1>6, <1>7 DEF InTime

\* A step that reads nothing is one that reads no bytes.
LEMMA ReadNothing ==
  ASSUME TypeOK, rx' = rx
  PROVE  0 \in Nat /\ PartOf(rx', rx, 0) /\ Len(rx') = Len(rx) - 0
<1>1. rx \in Seq(Tokens) /\ Len(rx) \in Nat /\ \A i \in DOMAIN rx : i \in Nat /\ i + 0 = i
  BY DEF TypeOK
<1> QED
  BY <1>1 DEF PartOf

\* The loop that starts again holds nothing.
LEMMA NothingHeld ==
  ASSUME loop'.pc \in {"first", "execute"}, loop'.data = <<>>
  PROVE  HeldInv' /\ BytesRead' = 0
BY DEF HeldInv, BytesRead

\* The command of a request does not come back.
LEMMA StillOpen ==
  ASSUME client'.r = client.r, client'.pc = "waiting" => client.pc = "waiting",
         \A byte : Absent(byte, line) /\ Absent(byte, rx) /\ Absent(byte, loop.data) =>
                  Absent(byte, line') /\ Absent(byte, rx') /\ Absent(byte, loop'.data)
  PROVE  Open' => Open
<1>1. PICK byte : byte = CommandByte /\ byte = CommandByte'
  BY DEF CommandByte
<1>2. Open <=> /\ client.pc = "waiting"
               /\ ~(Absent(byte, line) /\ Absent(byte, rx) /\ Absent(byte, loop.data))
  BY <1>1 DEF Open, Absent
<1>3. Open' <=> /\ client'.pc = "waiting"
                /\ ~(Absent(byte, line') /\ Absent(byte, rx') /\ Absent(byte, loop'.data))
  BY <1>1 DEF Open, Absent
<1> QED
  BY <1>2, <1>3

\* The answers that promise nothing.
Refusals == {"plain", "error", "underrun"}

\* What a step of the reading does to the session: at most the request is lost or refused.
NothingDone ==
  /\ Open' => Open
  /\ UNCHANGED tune
  /\ \E code \in Refusals : AnswerSeen(code)

\* The steps of the reading,
LEMMA SessionRead ==
  ASSUME SessionInv, readFirstByte \/ readSecondByte \/ readCommand \/ readTimeout
  PROVE  InTime' /\ HeldInv' /\ NothingDone
<1>1. /\ TypeOK /\ InTime /\ HeldInv
      /\ rx \in Seq(Tokens) /\ Len(rx) \in Nat /\ loop \in LoopStates
  BY DEF SessionInv, PacketInv, TypeOK
<1>2. line' = line /\ UNCHANGED tune
  BY DEF readFirstByte, readSecondByte, readCommand, readTimeout
<1>3. PICK code \in Refusals : AnswerSeen(code)
  BY <1>1, AnswerCases, NoAnswerCases
     DEF readFirstByte, readSecondByte, readCommand, readTimeout, Refusals
<1>4. /\ client'.r = client.r /\ CommandByte' = CommandByte
      /\ client'.pc = client.pc \/ (client.pc = "waiting" /\ client'.pc = "answered")
  BY <1>3 DEF AnswerSeen, CommandByte
<1>5. ASSUME rx # <<>>, rx' = Tail(rx)
      PROVE  /\ 1 \in Nat /\ PartOf(rx', rx, 1) /\ Len(rx') = Len(rx) - 1
             /\ rx[1] = Head(rx) /\ 1 \in DOMAIN rx
  BY <1>1, <1>5, NextByte
<1>6. ASSUME NEW k \in Nat, PartOf(rx', rx, k), loop'.data = <<>> \/ loop'.data = loop.data
      PROVE  Open' => Open
  <2>1. \A byte : Absent(byte, rx) => Absent(byte, rx')
    BY <1>6, PartKeeps
  <2>2. \A byte : Absent(byte, loop.data) => Absent(byte, loop'.data)
    BY <1>6 DEF Absent
  <2> QED
    BY <1>2, <1>4, <2>1, <2>2, StillOpen
<1>7. ASSUME NEW k \in Nat, PartOf(rx', rx, k), Len(rx') = Len(rx) - k, loop' = Reading,
             BytesRead >= 1 \/ k >= 1
      PROVE  InTime' /\ HeldInv' /\ (Open' => Open)
  <2>1. HeldInv' /\ BytesRead' = 0 /\ loop'.data = <<>>
    BY <1>7, NothingHeld, ReadingType
  <2>2. BytesRead \in 0 .. 3
    BY DEF BytesRead
  <2>3. LastPlace' >= LastPlace - k
    BY <1>4, <1>7, <2>1, <2>2 DEF LastPlace
  <2>4. InTime'
    BY <1>1, <1>2, <1>4, <1>7, <2>3, ReadInTime
  <2>5. Open' => Open
    BY <1>6, <1>7, <2>1
  <2> QED
    BY <2>1, <2>4, <2>5
<1>8. CASE readFirstByte
  <2>1. rx # <<>> /\ rx' = Tail(rx) /\ loop.pc = "first"
    BY <1>8 DEF readFirstByte
  <2>2. CASE loop' = Reading
    BY <1>2, <1>3, <1>5, <1>7, <2>1, <2>2 DEF NothingDone
  <2>3. CASE /\ NoAnswer
             /\ loop' = [Reading EXCEPT !.pc = "second",
                           !.genuine = Sent(Head(rx)) /\ Head(rx)[2] = 1]
    <3>1. loop'.pc = "second" /\ loop'.data = <<>>
      BY <2>3 DEF Reading
    <3>2. client' = client
      BY <2>3 DEF NoAnswer
    <3>3. LastPlace' >= LastPlace - 1
      BY <2>1, <3>1, <3>2 DEF LastPlace, BytesRead
    <3>4. InTime'
      BY <1>1, <1>2, <1>4, <1>5, <2>1, <3>3, ReadInTime
    <3>5. HeldInv'
      BY <3>1 DEF HeldInv
    <3>6. Open' => Open
      BY <1>5, <1>6, <2>1, <3>1
    <3> QED
      BY <1>2, <1>3, <3>4, <3>5, <3>6 DEF NothingDone
  <2> QED
    BY <1>8, <2>2, <2>3 DEF readFirstByte
<1>9. CASE readSecondByte
  <2>1. rx # <<>> /\ rx' = Tail(rx) /\ loop.pc = "second"
    BY <1>9 DEF readSecondByte
  <2>2. CASE loop' = Reading
    BY <1>2, <1>3, <1>5, <1>7, <2>1, <2>2 DEF NothingDone
  <2>3. ASSUME NEW size, NoAnswer, loop' = [loop EXCEPT !.pc = "command", !.size = size]
        PROVE  InTime' /\ HeldInv' /\ NothingDone
    <3>1. loop'.pc = "command" /\ loop'.data = loop.data
      BY <1>1, <2>3 DEF LoopStates
    <3>2. client' = client
      BY <2>3 DEF NoAnswer
    <3>3. LastPlace' >= LastPlace - 1
      BY <2>1, <3>1, <3>2 DEF LastPlace, BytesRead
    <3>4. InTime'
      BY <1>1, <1>2, <1>4, <1>5, <2>1, <3>3, ReadInTime
    <3>5. HeldInv'
      BY <1>1, <2>1, <3>1 DEF HeldInv
    <3>6. Open' => Open
      BY <1>5, <1>6, <2>1, <3>1
    <3> QED
      BY <1>2, <1>3, <3>4, <3>5, <3>6 DEF NothingDone
  <2> QED
    BY <1>9, <2>2, <2>3 DEF readSecondByte
<1>10. CASE readCommand
  <2>1. rx # <<>> /\ rx' = Tail(rx) /\ loop.pc = "command"
    BY <1>10 DEF readCommand
  <2>2. CASE loop' = Reading
    BY <1>2, <1>3, <1>5, <1>7, <2>1, <2>2 DEF NothingDone
  <2>3. CASE NoAnswer /\ loop' = [loop EXCEPT !.pc = "rest", !.data = <<Head(rx)>>]
    <3>1. loop'.pc = "rest" /\ loop'.data = <<rx[1]>> /\ 1 \in DOMAIN rx
      BY <1>1, <1>5, <2>1, <2>3 DEF LoopStates
    <3>2. client' = client
      BY <2>3 DEF NoAnswer
    <3>3. LastPlace' >= LastPlace - 1
      BY <2>1, <3>1, <3>2 DEF LastPlace, BytesRead
    <3>4. InTime'
      BY <1>1, <1>2, <1>4, <1>5, <2>1, <3>3, ReadInTime
    <3>5. client.pc # "waiting" => rx[1] # CommandByte
      <4>1. client.pc # "waiting" => LastPlace = 0
        BY <2>1 DEF LastPlace, BytesRead
      <4> QED
        BY <1>1, <3>1, <4>1 DEF InTime, Within
    <3>6. loop'.data[1] = rx[1]
      BY <3>1
    <3>7. HeldInv'
      BY <1>4, <3>1, <3>2, <3>5, <3>6 DEF HeldInv
    <3>8. Open' => Open
      <4>1. \A byte : Absent(byte, rx) => Absent(byte, rx')
        BY <1>5, <2>1, PartKeeps
      <4>2. \A byte : Absent(byte, rx) => Absent(byte, loop'.data)
        BY <3>1 DEF Absent
      <4> QED
        BY <1>2, <1>4, <4>1, <4>2, StillOpen
    <3> QED
      BY <1>2, <1>3, <3>4, <3>7, <3>8 DEF NothingDone
  <2> QED
    BY <1>10, <2>2, <2>3 DEF readCommand
<1>11. CASE readTimeout
  <2>1. rx' = <<>> /\ loop' = Reading /\ loop.pc \in {"second", "command", "rest"}
    BY <1>11 DEF readTimeout
  <2>2. PICK k \in Nat : k = Len(rx)
    BY <1>1
  <2>3. PartOf(rx', rx, k) /\ Len(rx') = Len(rx) - k
    BY <2>1, <2>2 DEF PartOf
  <2>4. BytesRead >= 1
    BY <2>1 DEF BytesRead
  <2> QED
    BY <1>2, <1>3, <1>7, <2>1, <2>3, <2>4 DEF NothingDone
<1> QED
  BY <1>8, <1>9, <1>10, <1>11

\* the rest of a packet,
LEMMA SessionRest ==
  ASSUME SessionInv, readRest
  PROVE  InTime' /\ HeldInv' /\ NothingDone
<1>1. /\ TypeOK /\ WireInv /\ LoopInv /\ OnceInv /\ InTime /\ HeldInv
      /\ line' = line /\ UNCHANGED tune /\ client' = client /\ loop.pc = "rest"
  BY DEF SessionInv, PacketInv, readRest
<1>2. PICK n \in Nat : PartOf(rx', rx, n) /\ Len(rx') = Len(rx) - n
  BY <1>1, PacketRest
<1>3. \/ loop' = Reading
      \/ loop'.pc = "handle" /\ loop.data[1] = CommandByte /\ 1 \in DOMAIN loop.data
  BY <1>1, PacketRest
<1>4. \E code \in Refusals : AnswerSeen(code)
  BY <1>1 DEF Refusals, AnswerSeen
<1>5. LastPlace = (IF client.pc = "waiting" THEN 3 ELSE 2) - 3
  BY <1>1 DEF LastPlace, BytesRead
<1>6. CASE loop' = Reading
  <2>1. HeldInv' /\ BytesRead' = 0 /\ loop'.data = <<>>
    BY <1>6, NothingHeld, ReadingType
  <2>2. LastPlace' >= LastPlace - n
    BY <1>1, <1>5, <2>1 DEF LastPlace
  <2>3. InTime'
    BY <1>1, <1>2, <2>2, ReadInTime
  <2>4. Open' => Open
    <3>1. \A byte : Absent(byte, rx) => Absent(byte, rx')
      BY <1>2, PartKeeps
    <3>2. \A byte : Absent(byte, loop'.data)
      BY <2>1 DEF Absent
    <3> QED
      BY <1>1, <3>1, <3>2, StillOpen
  <2> QED
    BY <1>1, <1>4, <2>1, <2>3, <2>4 DEF NothingDone
<1>7. CASE loop'.pc = "handle" /\ loop.data[1] = CommandByte /\ 1 \in DOMAIN loop.data
  <2>1. client.pc = "waiting"
    BY <1>1, <1>7 DEF HeldInv
  <2>2. HeldInv'
    BY <1>1, <1>7, <2>1 DEF HeldInv
  <2>3. LastPlace' >= LastPlace - n
    BY <1>1, <1>5, <1>7 DEF LastPlace, BytesRead
  <2>4. InTime'
    BY <1>1, <1>2, <2>3, ReadInTime
  <2>5. Open
    BY <1>7, <2>1 DEF Open
  <2> QED
    BY <1>1, <1>4, <2>2, <2>4, <2>5 DEF NothingDone
<1> QED
  BY <1>3, <1>6, <1>7

\* What a handler does to the session: it carries out the request, and this ends it.
LEMMA HandlerEnds ==
  ASSUME SessionInv, loop.pc \in {"handle", "send"}, UNCHANGED <<line, rx>>,
         loop'.pc \in {"first", "execute"}, loop'.data = <<>>,
         NEW code, AnswerSeen(code)
  PROVE  /\ InTime' /\ HeldInv' /\ loop.console = 0
         /\ Open /\ ~Open' /\ client'.r = client.r
         /\ loop.pc = "send" => Request.command = "text"
         /\ Session!Tell(code)
<1>1. TypeOK /\ WireInv /\ LoopInv /\ OnceInv /\ InTime /\ HeldInv
  BY DEF SessionInv, PacketInv
<1>2. client.pc = "waiting" /\ (loop.pc = "send" => Request.command = "text")
  BY <1>1 DEF HeldInv
<1>3. client'.r = client.r /\ CommandByte' = CommandByte
  BY DEF AnswerSeen, CommandByte
<1>4. HeldInv' /\ BytesRead' = 0
  BY NothingHeld
<1>11. loop.console = 0
  BY DEF SessionInv, PacketInv, ConsoleInv
<1>5. Absent(CommandByte, rx) /\ Absent(CommandByte, line)
  BY <1>1 DEF OnceInv
<1>6. InTime'
  BY <1>3, <1>5 DEF InTime, Within, Absent
<1>7. 1 \in DOMAIN loop.data /\ loop.data[1] = CommandByte
  <2>1. CASE loop.pc = "send"
    BY <1>1, <2>1 DEF HeldInv
  <2>2. CASE loop.pc = "handle"
    <3>1. /\ client.r \in DOMAIN Requests /\ Len(loop.data) = BodySize(client.r) + 1
          /\ \A i \in 1 .. Len(loop.data) : loop.data[i] = <<client.r, i + 2>>
      BY <1>1, <2>2, HandledPacket
    <3>2. 1 \in 1 .. Len(loop.data) /\ DOMAIN loop.data = 1 .. Len(loop.data) /\ 1 + 2 = 3
      BY <1>1, <3>1, RequestShape DEF TypeOK, LoopStates
    <3>3. loop.data[1] = <<client.r, 1 + 2>>
      BY <3>1, <3>2, Zenon
    <3> QED
      BY <3>2, <3>3 DEF CommandByte
  <2> QED
    BY <2>1, <2>2
<1>8. Open
  BY <1>2, <1>7 DEF Open
<1>9. ~Open'
  BY <1>3, <1>4, <1>5 DEF Open, Absent
<1>10. Session!Tell(code)
  BY DEF AnswerSeen, Session!Tell
<1> QED
  BY <1>2, <1>3, <1>4, <1>6, <1>8, <1>9, <1>10, <1>11

\* A whole write, as the session sees it.
LEMMA WholeRequest ==
  ASSUME TypeOK, WireInv, LoopInv, loop.pc = "handle", HasOffset(client.r),
         write(Request.offset, Len(Request.values))
  PROVE  /\ workingCopy' = Session!Written(workingCopy, Request)
         /\ persistent' = IF Request.offset < SoftOffset THEN persistent
                          ELSE Session!Written(persistent, Request)
<1>1. PICK offset \in Nat : offset = Request.offset
  BY HandledPacket, RequestShape DEF Request
<1>2. Request.values \in Seq(Nat)
  BY HandledPacket, RequestShape DEF Request
<1>3. PICK n \in Nat : n = Len(Request.values) /\ DOMAIN Request.values = 1 .. n
  BY <1>2
<1>4. /\ workingCopy' = [o \in Offsets |-> IF o \in offset .. offset + n - 1
                                           THEN ValueAt(loop.data, o - offset + 3)
                                           ELSE workingCopy[o]]
      /\ persistent' = IF offset < SoftOffset THEN persistent
                       ELSE [o \in Offsets |-> IF o \in offset .. offset + n - 1
                                               THEN workingCopy'[o] ELSE persistent[o]]
  BY <1>1, <1>3 DEF write, onlineApplyWorkingCopyBytes
<1>5. ASSUME NEW o \in Offsets
      PROVE  /\ o \in offset .. offset + n - 1 <=> o - offset + 1 \in 1 .. n
             /\ o \in offset .. offset + n - 1 =>
                  workingCopy'[o] = Request.values[o - offset + 1]
  <2>1. o \in Int
    BY TunerStudioAssumption DEF Offsets
  <2>2. o \in offset .. offset + n - 1 <=> o - offset + 1 \in 1 .. n
    BY <2>1
  <2>3. o \in offset .. offset + n - 1 =>
          ValueAt(loop.data, o - offset + 3) = Request.values[o - offset + 1]
    <3>1. n <= Len(Request.values)
      BY <1>3
    <3> QED
      BY <1>1, <1>3, <3>1, WrittenValue
  <2>4. workingCopy'[o] = IF o \in offset .. offset + n - 1
                          THEN ValueAt(loop.data, o - offset + 3) ELSE workingCopy[o]
    BY <1>4
  <2> QED
    BY <2>2, <2>3, <2>4
<1>6. \A copy : Session!Written(copy, Request)
                = [o \in Offsets |-> IF o - offset + 1 \in 1 .. n
                                     THEN Request.values[o - offset + 1] ELSE copy[o]]
  BY <1>1, <1>3 DEF Session!Written, Session!Offsets, Offsets
<1>7. workingCopy' = [o \in Offsets |-> IF o - offset + 1 \in 1 .. n
                                        THEN Request.values[o - offset + 1]
                                        ELSE workingCopy[o]]
  BY <1>4, <1>5
<1>8. [o \in Offsets |-> IF o \in offset .. offset + n - 1
                         THEN workingCopy'[o] ELSE persistent[o]]
        = [o \in Offsets |-> IF o - offset + 1 \in 1 .. n
                             THEN Request.values[o - offset + 1] ELSE persistent[o]]
  BY <1>5
<1> QED
  BY <1>1, <1>4, <1>6, <1>7, <1>8

\* A step that does nothing loses the request, refuses it, or is not seen.
LEMMA NothingDoneImplements ==
  ASSUME NothingDone, loop'.console = loop.console
  PROVE  [Session!Next]_(Session!vars)
<1>1. PICK code \in Refusals : AnswerSeen(code)
  BY DEF NothingDone
<1>2. client'.r = client.r /\ UNCHANGED <<workingCopy, persistent>> /\ (Open' => Open)
  BY <1>1 DEF NothingDone, AnswerSeen, tune
<1>3. CASE client'.pc = client.pc /\ client'.code = client.code
  <2>1. CASE Open /\ ~Open'
    <3>1. Session!Lose
      BY <1>2, <1>3, <2>1 DEF Session!Lose, Session!tune
    <3> QED
      BY <3>1 DEF Session!Next
  <2>2. CASE Open' <=> Open
    <3>1. Open' = Open
      BY <2>2 DEF Open
    <3> QED
      BY <1>2, <1>3, <3>1 DEF Session!vars, Session!tune
  <2> QED
    BY <1>2, <2>1, <2>2
<1>4. CASE client.pc = "waiting" /\ client'.pc = "answered" /\ client'.code = code
  <2>1. ~Open'
    BY <1>4 DEF Open
  <2>2. Session!Refuse
    BY <1>2, <1>4, <2>1 DEF Session!Refuse, Session!tune, Refusals
  <2> QED
    BY <2>2 DEF Session!Next
<1> QED
  BY <1>1, <1>3, <1>4 DEF AnswerSeen

\* Every command is carried out, or refused.
LEMMA SessionHandle ==
  ASSUME SessionInv, loop'.console = loop.console,
         \/ handleQueryCommand \/ ignoreCommand
         \/ handleWriteChunkCommand \/ handleWriteValueCommand \/ handleBurnCommand
         \/ getTextSend
  PROVE  InTime' /\ HeldInv' /\ [Session!Next]_(Session!vars)
<1>1. TypeOK /\ WireInv /\ LoopInv
  BY DEF SessionInv, PacketInv
<1>2. /\ loop.pc \in {"handle", "send"} /\ loop' = Reading /\ UNCHANGED <<line, rx>>
  BY DEF handleQueryCommand, ignoreCommand, handleWriteChunkCommand, handleWriteValueCommand,
         handleBurnCommand, getTextSend, Handling, wire
<1>3. ASSUME NEW command, Handling({command})
      PROVE  /\ loop.pc = "handle" /\ Request.command = command
             /\ client.r \in DOMAIN Requests
             /\ Request.offset \in Nat /\ Len(Request.values) \in Nat
  <2>1. loop.pc = "handle" /\ CommandsOf(loop.data[1]) \cap {command} # {}
    BY <1>3 DEF Handling
  <2>2. client.r \in DOMAIN Requests /\ CommandsOf(loop.data[1]) = {Request.command}
    BY <1>1, <2>1, HandledPacket
  <2> QED
    BY <2>1, <2>2, RequestShape DEF Request
<1>4. ASSUME NEW code, AnswerSeen(code)
      PROVE  /\ InTime' /\ HeldInv' /\ Open /\ ~Open' /\ client'.r = client.r
             /\ loop.pc = "send" => Request.command = "text"
             /\ Session!Tell(code) /\ loop.console = 0
  BY <1>2, <1>4, HandlerEnds, ReadingType
<1>5. ASSUME NEW code \in Refusals, AnswerSeen(code), UNCHANGED tune
      PROVE  InTime' /\ HeldInv' /\ [Session!Next]_(Session!vars)
  BY <1>4, <1>5, NothingDoneImplements DEF NothingDone
<1>6. CASE handleQueryCommand
  <2>1. /\ Request.command = "query" /\ UNCHANGED <<workingCopy, persistent>>
        /\ AnswerSeen("ok") \/ AnswerSeen("error")
    BY <1>1, <1>3, <1>6, AnswerCases DEF handleQueryCommand, tune
  <2>2. CASE AnswerSeen("ok")
    <3>1. Session!Query
      BY <1>4, <2>1, <2>2 DEF Session!Query, Session!CarryOut, Session!tune, Request
    <3> QED
      BY <1>4, <2>2, <3>1 DEF Session!Next
  <2>3. CASE AnswerSeen("error")
    BY <1>5, <2>1, <2>3 DEF Refusals, tune
  <2> QED
    BY <2>1, <2>2, <2>3
<1>7. CASE ignoreCommand
  <2>1. AnswerSeen("error") /\ "error" \in Refusals /\ UNCHANGED tune
    BY <1>7, NoAnswerCases DEF ignoreCommand, Refusals
  <2> QED
    BY <1>5, <2>1
<1>9. CASE handleWriteChunkCommand
  <2>1. /\ loop.pc = "handle" /\ Request.command = "chunk"
        /\ Request.offset \in Nat /\ Len(Request.values) \in Nat
    BY <1>3, <1>9 DEF handleWriteChunkCommand
  <2>2. HasOffset(client.r)
    BY <2>1 DEF HasOffset, Request
  <2>3. writeOffset = Request.offset /\ writeCount = Len(Request.values)
    BY <1>1, <2>1, <2>2, WritePlace
  <2>4. CASE validateOffsetCount(writeOffset, writeCount)
    <3>1. AnswerSeen("error") /\ "error" \in Refusals /\ UNCHANGED tune
      BY <1>1, <1>9, <2>4, AnswerCases DEF handleWriteChunkCommand, Refusals
    <3> QED
      BY <1>5, <3>1
  <2>5. CASE ~validateOffsetCount(writeOffset, writeCount)
    <3>1. write(Request.offset, Len(Request.values)) /\ AnswerSeen("ok")
      BY <1>1, <1>9, <2>3, <2>5, AnswerCases DEF handleWriteChunkCommand
    <3>2. Request.offset + Len(Request.values) <= PageSize
      BY <2>1, <2>3, <2>5, TunerStudioAssumption DEF validateOffsetCount
    <3>3. /\ workingCopy' = Session!Written(workingCopy, Request)
          /\ persistent' = IF Request.offset < SoftOffset THEN persistent
                           ELSE Session!Written(persistent, Request)
      BY <1>1, <2>1, <2>2, <3>1, WholeRequest
    <3>4. Session!CarryOut({"chunk", "single"}) /\ Session!Tell("ok")
      BY <1>4, <2>1, <3>1 DEF Session!CarryOut, Request
    <3>5. Session!Write
      BY <2>1, <3>2, <3>3, <3>4 DEF Session!Write, Request
    <3> QED
      BY <1>4, <3>1, <3>5 DEF Session!Next
  <2> QED
    BY <2>4, <2>5
<1>10. CASE handleWriteValueCommand
  <2>1. /\ loop.pc = "handle" /\ Request.command = "single" /\ client.r \in DOMAIN Requests
        /\ Request.offset \in Nat
    BY <1>3, <1>10 DEF handleWriteValueCommand
  <2>2. HasOffset(client.r) /\ Len(Request.values) = 1
    BY <2>1, RequestsAssumption DEF HasOffset, Request
  <2>3. writeOffset = Request.offset
    BY <1>1, <2>1, <2>2, WritePlace
  <2>4. CASE validateOffsetCount(writeOffset, 1)
    <3>1. AnswerSeen("error") /\ "error" \in Refusals /\ UNCHANGED tune
      BY <1>1, <1>10, <2>4, AnswerCases DEF handleWriteValueCommand, Refusals
    <3> QED
      BY <1>5, <3>1
  <2>5. CASE ~validateOffsetCount(writeOffset, 1)
    <3>1. write(Request.offset, Len(Request.values)) /\ NoAnswer
      BY <1>10, <2>2, <2>3, <2>5 DEF handleWriteValueCommand
    <3>2. Request.offset + Len(Request.values) <= PageSize
      BY <2>1, <2>2, <2>3, <2>5, TunerStudioAssumption DEF validateOffsetCount
    <3>3. /\ workingCopy' = Session!Written(workingCopy, Request)
          /\ persistent' = IF Request.offset < SoftOffset THEN persistent
                           ELSE Session!Written(persistent, Request)
      BY <1>1, <2>1, <2>2, <3>1, WholeRequest
    <3>4. AnswerSeen("none")
      BY <3>1, NoAnswerCases
    <3>5. Session!CarryOut({"chunk", "single"})
      BY <1>4, <2>1, <3>4 DEF Session!CarryOut, Request
    <3>6. client' = client
      BY <3>1 DEF NoAnswer
    <3>7. Session!Write
      BY <2>1, <3>2, <3>3, <3>5, <3>6 DEF Session!Write, Request
    <3> QED
      BY <1>4, <3>4, <3>7 DEF Session!Next
  <2> QED
    BY <2>4, <2>5
<1>11. CASE handleBurnCommand
  <2>1. /\ AnswerSeen("burnOk") /\ Request.command = "burn"
        /\ persistent' = workingCopy /\ UNCHANGED workingCopy
    BY <1>1, <1>3, <1>11, AnswerCases DEF handleBurnCommand
  <2>2. Session!Burn
    BY <1>4, <2>1 DEF Session!Burn, Session!CarryOut, Request
  <2> QED
    BY <1>4, <2>1, <2>2 DEF Session!Next
<1>12. CASE getTextSend
  <2>1. /\ AnswerSeen("commandOk") /\ loop.pc = "send"
        /\ UNCHANGED <<workingCopy, persistent>>
    BY <1>1, <1>12, AnswerCases DEF getTextSend, tune
  <2>2. Session!Query
    BY <1>4, <2>1 DEF Session!Query, Session!CarryOut, Session!tune, Request
  <2> QED
    BY <1>4, <2>1, <2>2 DEF Session!Next
<1> QED
  BY <1>6, <1>7, <1>9, <1>10, <1>11, <1>12

\* A console command is answered, and its line is run before the next request is read.
LEMMA SessionConsole ==
  ASSUME SessionInv, handleExecuteCommand \/ runConsoleLine
  PROVE  InTime' /\ HeldInv' /\ [Session!Next]_(Session!vars)
<1>1. TypeOK /\ WireInv /\ LoopInv /\ ConsoleInv /\ InTime /\ HeldInv
  BY DEF SessionInv, PacketInv
<1>2. UNCHANGED <<line, rx>>
  BY DEF handleExecuteCommand, runConsoleLine, wire
<1>3. CASE handleExecuteCommand
  <2>1. /\ client.r \in DOMAIN Requests /\ Request.command \in {"execute", "reset"}
        /\ loop.pc = "handle" /\ loop' = Running(client.r) /\ Answer("commandOk", <<>>)
    BY <1>1, <1>3, ConsoleRequest
  <2>2. loop'.pc = "execute" /\ loop'.data = <<>> /\ loop'.console = client.r
    BY <2>1, RunningType
  <2>3. AnswerSeen("commandOk")
    BY <1>1, <2>1, AnswerCases
  <2>4. /\ InTime' /\ HeldInv' /\ Open /\ ~Open' /\ client'.r = client.r
        /\ Session!Tell("commandOk") /\ loop.console = 0
    BY <1>2, <2>1, <2>2, <2>3, HandlerEnds
  <2>5. UNCHANGED <<workingCopy, persistent>>
    BY <1>3 DEF handleExecuteCommand, tune
  <2>6. Session!Execute
    BY <2>1, <2>2, <2>4, <2>5 DEF Session!Execute, Session!CarryOut, Session!tune, Request
  <2> QED
    BY <2>4, <2>6 DEF Session!Next
<1>4. CASE runConsoleLine
  <2>1. PICK r \in DOMAIN Requests : loop = Running(r)
    BY <1>1, <1>4 DEF runConsoleLine, ConsoleInv
  <2>2. /\ loop' = Reading /\ client' = client
        /\ loop.pc = "execute" /\ loop.data = <<>> /\ loop.console = r /\ r # 0
        /\ loop'.pc = "first" /\ loop'.data = <<>> /\ loop'.console = 0
    BY <1>4, <2>1, ReadingType, RunningType DEF runConsoleLine
  <2>3. HeldInv'
    BY <2>2, NothingHeld
  <2>4. InTime'
    BY <1>1, <1>2, <2>2 DEF InTime, LastPlace, BytesRead, CommandByte
  <2>5. Open' = Open
    BY <1>2, <2>2 DEF Open, CommandByte
  <2>6. /\ Requests[r].command = "reset" =>
             /\ persistent' = [o \in Offsets |-> InitialValue]
             /\ workingCopy' = persistent'
        /\ Requests[r].command # "reset" =>
             /\ persistent' = Session!Written(persistent, Requests[r])
             /\ workingCopy' = workingCopy
    BY <1>4, <2>2 DEF runConsoleLine, Session!Written, Session!Offsets, Offsets
  <2>7. Session!Run
    BY <2>2, <2>5, <2>6 DEF Session!Run, Session!Offsets, Offsets
  <2> QED
    BY <2>3, <2>4, <2>7 DEF Session!Next
<1> QED
  BY <1>3, <1>4

\* The steps before a text is sent are not seen.
LEMMA SessionText ==
  ASSUME SessionInv, handleGetText \/ getTextSwap
  PROVE  InTime' /\ HeldInv' /\ NothingDone
<1>1. /\ TypeOK /\ WireInv /\ LoopInv /\ OnceInv /\ InTime /\ HeldInv
      /\ loop \in LoopStates
  BY DEF SessionInv, PacketInv, TypeOK
<1>2. /\ loop.pc \in {"handle", "publish"}
      /\ loop'.pc \in {"publish", "send"} /\ loop'.data = loop.data
      /\ UNCHANGED <<line, rx, client, tune>>
  BY <1>1 DEF handleGetText, getTextSwap, wire, LoopStates
<1>3. CommandByte' = CommandByte /\ Request' = Request /\ LastPlace' = LastPlace
  BY <1>2 DEF CommandByte, Request, LastPlace, BytesRead
<1>4. InTime'
  BY <1>1, <1>2, <1>3 DEF InTime
<1>5. /\ client.pc = "waiting"
      /\ 1 \in DOMAIN loop.data /\ loop.data[1] = CommandByte /\ Request.command = "text"
  <2>1. client.pc = "waiting"
    BY <1>1, <1>2 DEF HeldInv
  <2>2. CASE loop.pc = "publish"
    BY <1>1, <2>1, <2>2 DEF HeldInv
  <2>3. CASE loop.pc = "handle"
    <3>1. /\ client.r \in DOMAIN Requests /\ Len(loop.data) = BodySize(client.r) + 1
          /\ \A i \in 1 .. Len(loop.data) : loop.data[i] = <<client.r, i + 2>>
          /\ CommandsOf(loop.data[1]) = {Request.command}
      BY <1>1, <2>3, HandledPacket
    <3>2. 1 \in 1 .. Len(loop.data) /\ DOMAIN loop.data = 1 .. Len(loop.data) /\ 1 + 2 = 3
      BY <1>1, <3>1, RequestShape DEF LoopStates
    <3>3. loop.data[1] = <<client.r, 1 + 2>>
      BY <3>1, <3>2, Zenon
    <3>4. "text" \in CommandsOf(loop.data[1])
      BY <2>3 DEF handleGetText, getTextSwap
    <3> QED
      BY <2>1, <3>1, <3>2, <3>3, <3>4 DEF CommandByte
  <2> QED
    BY <1>2, <2>2, <2>3
<1>6. HeldInv'
  BY <1>2, <1>3, <1>5 DEF HeldInv
<1>7. Open' => Open
  BY <1>5 DEF Open
<1>8. \E code \in Refusals : AnswerSeen(code)
  BY <1>2 DEF Refusals, AnswerSeen
<1> QED
  BY <1>2, <1>4, <1>6, <1>7, <1>8 DEF NothingDone

\* Late bytes keep their places,
LEMMA SessionLate ==
  ASSUME SessionInv, DeliverLate
  PROVE  InTime' /\ HeldInv' /\ NothingDone
<1>1. /\ TypeOK /\ InTime /\ HeldInv /\ rx \in Seq(Tokens) /\ line \in Seq(Tokens)
  BY DEF SessionInv, PacketInv, TypeOK
<1>2. line' = <<>> /\ UNCHANGED <<loop, client, tune>>
  BY DEF DeliverLate
<1>3. PICK both : both = rx \o line
  OBVIOUS
<1>4. rx' = both
  BY <1>3, Zenon DEF DeliverLate
<1>5. PICK byte : byte = CommandByte /\ byte = CommandByte'
  BY <1>2 DEF CommandByte
<1>6. /\ both \in Seq(Tokens) /\ Len(both) = Len(rx) + Len(line)
      /\ \A i \in 1 .. Len(rx) + Len(line) :
           both[i] = IF i <= Len(rx) THEN rx[i] ELSE line[i - Len(rx)]
  BY <1>1, <1>3, ConcatProperties
<1>7. PICK p \in Int : p = LastPlace /\ p = LastPlace'
  <2>1. LastPlace \in Int /\ LastPlace' = LastPlace
    BY <1>2 DEF LastPlace, BytesRead
  <2> QED
    BY <2>1
<1>8. Within(byte, rx, p) /\ Within(byte, line, p - Len(rx))
  BY <1>1, <1>5, <1>7 DEF InTime
<1>9. ASSUME NEW i \in DOMAIN both, both[i] = byte PROVE i <= p
  <2>1. i \in 1 .. Len(rx) + Len(line) /\ Len(rx) \in Nat /\ Len(line) \in Nat
    BY <1>1, <1>6
  <2>2. CASE i <= Len(rx)
    <3>1. i \in DOMAIN rx /\ rx[i] = byte
      BY <1>1, <1>6, <1>9, <2>1, <2>2
    <3> QED
      BY <1>8, <3>1 DEF Within
  <2>3. CASE ~(i <= Len(rx))
    <3>1. PICK j \in 1 .. Len(line) : j = i - Len(rx)
      BY <2>1, <2>3
    <3>2. line[j] = byte /\ j \in DOMAIN line
      BY <1>1, <1>6, <1>9, <2>1, <2>3, <3>1
    <3>3. j <= p - Len(rx)
      BY <1>8, <3>2 DEF Within
    <3> QED
      BY <2>1, <3>1, <3>3
  <2> QED
    BY <2>2, <2>3
<1>10. Within(byte, both, p) /\ Within(byte, <<>>, p - Len(both))
  BY <1>9 DEF Within
<1>11. InTime'
  BY <1>2, <1>4, <1>5, <1>7, <1>10 DEF InTime
<1>12. HeldInv'
  BY <1>1, <1>2, <1>5 DEF HeldInv, Request
<1>13. Open' => Open
  <2>1. ASSUME NEW b, Absent(b, rx), Absent(b, line) PROVE Absent(b, both)
    BY <1>1, <1>3, <2>1, LateKeeps
  <2>2. \A b : Absent(b, <<>>)
    BY DEF Absent
  <2> QED
    BY <1>2, <1>4, <2>1, <2>2, StillOpen
<1>14. \E code \in Refusals : AnswerSeen(code)
  BY <1>2 DEF Refusals, AnswerSeen
<1> QED
  BY <1>2, <1>11, <1>12, <1>13, <1>14 DEF NothingDone

\* and the client gives up only what is lost or carried out.
LEMMA SessionClient ==
  ASSUME SessionInv, (\E r \in DOMAIN Requests : Send(r)) \/ ClientTimeout
  PROVE  InTime' /\ HeldInv' /\ [Session!Next]_(Session!vars)
<1>3. Quiet => loop.pc \in {"first", "execute"} /\ loop.data = <<>>
  BY ReadingType, RunningType DEF Quiet, SessionInv, PacketInv, ConsoleInv
<1>1. ASSUME NEW r \in DOMAIN Requests, Send(r)
      PROVE  InTime' /\ HeldInv' /\ [Session!Next]_(Session!vars)
  <2>1. Within(<<r, 3>>, rx', 3) /\ Within(<<r, 3>>, line', 3 - Len(rx'))
    BY <1>1, SendEffect
  <2>2. /\ client'.r = r /\ client'.pc = "waiting" /\ client'.code = "none"
        /\ client.pc # "waiting" /\ loop' = loop /\ Quiet
        /\ UNCHANGED <<workingCopy, persistent>>
    BY <1>1 DEF Send, tune
  <2>3. HeldInv' /\ BytesRead' = 0
    BY <1>3, <2>2, NothingHeld
  <2>4. CommandByte' = <<r, 3>> /\ LastPlace' = 3
    BY <2>2, <2>3 DEF CommandByte, LastPlace
  <2>5. InTime'
    BY <2>1, <2>4 DEF InTime
  <2>6. Open' \in BOOLEAN
    BY DEF Open
  <2>7. Session!Ask
    BY <2>2, <2>6 DEF Session!Ask, Session!tune
  <2> QED
    BY <2>3, <2>5, <2>7 DEF Session!Next
<1>2. CASE ClientTimeout
  <2>1. /\ rx = <<>> /\ line = <<>> /\ Quiet /\ UNCHANGED <<rx, line, loop>>
        /\ UNCHANGED <<workingCopy, persistent>>
        /\ client.pc = "waiting" /\ client'.pc = "timedOut"
        /\ client'.r = client.r /\ client'.code = client.code
    BY <1>2 DEF ClientTimeout, Quiet, wire, tune, SessionInv, PacketInv, TypeOK, ClientStates
  <2>2. HeldInv'
    BY <1>3, <2>1, NothingHeld
  <2>3. InTime'
    BY <2>1 DEF InTime, Within
  <2>4. ~Open /\ ~Open'
    BY <1>3, <2>1 DEF Open
  <2>5. Open' = Open
    BY <2>4 DEF Open
  <2>6. Session!GiveUp
    BY <2>1, <2>4, <2>5 DEF Session!GiveUp, Session!tune
  <2> QED
    BY <2>2, <2>3, <2>6 DEF Session!Next
<1> QED
  BY <1>1, <1>2

\* Every step keeps the invariant, and is a step of the session or not seen.
LEMMA SessionStep ==
  ASSUME SessionInv, [Next]_vars
  PROVE  SessionInv' /\ [Session!Next]_(Session!vars)
<1>1. PacketInv'
  BY PacketStep DEF SessionInv
<1>6. loop'.console = loop.console \/ handleExecuteCommand \/ runConsoleLine
  BY ConsoleKept DEF SessionInv, PacketInv
<1>7. CASE handleExecuteCommand \/ runConsoleLine
  BY <1>1, <1>7, SessionConsole DEF SessionInv
<1>2. CASE UNCHANGED tsVars
  <2>1. UNCHANGED <<line, rx, loop, client, workingCopy, persistent>>
    BY <1>2 DEF tsVars, wire, tune
  <2>2. InTime' /\ HeldInv'
    BY <2>1 DEF SessionInv, InTime, HeldInv, CommandByte, LastPlace, BytesRead, Request
  <2>3. Open' = Open
    BY <2>1 DEF Open, CommandByte
  <2> QED
    BY <1>1, <2>1, <2>2, <2>3 DEF SessionInv, Session!vars, Session!tune
<1>3. CASE (\E r \in DOMAIN Requests : Send(r)) \/ ClientTimeout
  BY <1>1, <1>3, SessionClient DEF SessionInv
<1>4. CASE DeliverLate
  <2>1. loop'.console = loop.console
    BY <1>4 DEF DeliverLate
  <2> QED
    BY <1>1, <1>4, <2>1, SessionLate, NothingDoneImplements DEF SessionInv
<1>5. CASE tsThread /\ loop'.console = loop.console
  <2>1. CASE publishChart
    BY <1>2, <2>1 DEF publishChart
  <2>2. CASE readFirstByte \/ readSecondByte \/ readCommand \/ readTimeout
    BY <1>1, <1>5, <2>2, SessionRead, NothingDoneImplements DEF SessionInv
  <2>3. CASE readRest
    BY <1>1, <1>5, <2>3, SessionRest, NothingDoneImplements DEF SessionInv
  <2>4. CASE handleGetText \/ getTextSwap
    BY <1>1, <1>5, <2>4, SessionText, NothingDoneImplements DEF SessionInv
  <2>5. CASE \/ handleQueryCommand \/ ignoreCommand
             \/ handleWriteChunkCommand \/ handleWriteValueCommand \/ handleBurnCommand
             \/ getTextSend
    BY <1>1, <1>5, <2>5, SessionHandle DEF SessionInv
  <2> QED
    BY <1>5, <1>7, <2>1, <2>2, <2>3, <2>4, <2>5 DEF tsThread
<1> QED
  BY <1>2, <1>3, <1>4, <1>5, <1>6, <1>7 DEF Next, vars

\* The promise of the protocol to its client, for all requests, all faults of the line and
\* all sizes of the buffers: a request is carried out as a whole, once or not at all, and
\* only while the client waits for it; a console line takes effect once, after its answer and
\* before any later request is carried out.
THEOREM SessionRefinement == Spec => ImplementsTuneSession
<1>1. Init => SessionInv
  <2> SUFFICES ASSUME Init PROVE SessionInv
    OBVIOUS
  <2>1. rx = <<>> /\ line = <<>> /\ loop = Reading /\ client.pc = "idle"
    BY DEF Init
  <2>2. InTime
    BY <2>1 DEF InTime, Within
  <2>3. HeldInv
    BY <2>1, ReadingType DEF HeldInv
  <2> QED
    BY <2>2, <2>3, PacketInit DEF SessionInv
<1>2. Init => Session!Init
  BY ReadingType DEF Init, Session!Init, Session!Offsets, Offsets, Open
<1>3. SessionInv /\ [Next]_vars => SessionInv' /\ [Session!Next]_(Session!vars)
  BY SessionStep
<1> QED
  BY <1>1, <1>2, <1>3, PTL DEF Spec, ImplementsTuneSession, Session!Spec

=============================================================================
