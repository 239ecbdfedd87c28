------------------------------ MODULE TuneSession ------------------------------
(***************************************************************************)
(* What the binary protocol promises to the client of a tune, whatever the *)
(* line does to the bytes: a request is carried out as a whole, once or    *)
(* not at all, and only while its client waits for it.  A console line is  *)
(* different: it takes effect after its answer, perhaps after the client   *)
(* has sent the next request, but before that is carried out.              *)
(*                                                                         *)
(*   - the tune changes only by a write that fits the page, with all its   *)
(*     values at the offset it was sent for, by a burn, or by a console    *)
(*     line that was sent, once;                                           *)
(*   - a request that was lost, refused, answered or given up has no       *)
(*     effect any more: the client may send the next one, or it again;     *)
(*   - an answer of success is given for a request that was carried out;   *)
(*     without an answer it may have been carried out or not.              *)
(***************************************************************************)
EXTENDS Naturals, Sequences

CONSTANTS Requests,     \* the client's requests: [command, offset, values]
          PageSize, SoftOffset, InitialValue

VARIABLES workingCopy,  \* the tune as the client has written it
          persistent,   \* the tune in use
          pc, asked,    \* the client, and its last request
          code,         \* what the client was answered
          open,         \* may the last request still be carried out
          running       \* the request whose console line has not taken effect, or 0

tune == <<workingCopy, persistent>>
vars == <<tune, pc, asked, code, open, running>>

Offsets == 0 .. PageSize - 1

Init ==
  /\ workingCopy = [o \in Offsets |-> InitialValue]
  /\ persistent = workingCopy
  /\ pc = "idle" /\ asked = 0 /\ code = "none" /\ open = FALSE
  /\ running = 0

\* The next request, or the same again.  It may be lost at once.
Ask ==
  /\ pc # "waiting" /\ pc' = "waiting"
  /\ asked' \in DOMAIN Requests
  /\ code' = "none"
  /\ open' \in BOOLEAN
  /\ UNCHANGED <<tune, running>>

Lose ==
  /\ open /\ open' = FALSE
  /\ UNCHANGED <<tune, pc, asked, code, running>>

\* The client is told of an error, or answered a question it did not ask.
Refuse ==
  /\ pc = "waiting" /\ pc' = "answered"
  /\ code' \in {"plain", "error", "underrun"}
  /\ open' = FALSE
  /\ UNCHANGED <<tune, asked, running>>

GiveUp ==
  /\ pc = "waiting" /\ pc' = "timedOut"
  /\ ~open
  /\ UNCHANGED <<tune, asked, code, open, running>>

\* A request is carried out, in its turn.
CarryOut(commands) ==
  /\ open /\ open' = FALSE
  /\ running = 0
  /\ Requests[asked].command \in commands
  /\ UNCHANGED asked

\* The client is answered, or the answer is lost.
Tell(answer) ==
  \/ pc' = "answered" /\ code' = answer
  \/ UNCHANGED <<pc, code>>

\* A copy of the tune with the values of a request.
Written(copy, request) ==
  [o \in Offsets |-> IF o - request.offset + 1 \in DOMAIN request.values
                     THEN request.values[o - request.offset + 1] ELSE copy[o]]

\* A write.  What starts behind engine_configuration_s is in use at once.
Write ==
  /\ CarryOut({"chunk", "single"})
  /\ LET request == Requests[asked]
     IN /\ request.offset + Len(request.values) <= PageSize
        /\ workingCopy' = Written(workingCopy, request)
        /\ persistent' = IF request.offset < SoftOffset THEN persistent
                         ELSE Written(persistent, request)
        /\ IF request.command = "chunk" THEN Tell("ok") ELSE UNCHANGED <<pc, code>>
  /\ UNCHANGED running

Burn ==
  /\ CarryOut({"burn"})
  /\ persistent' = workingCopy
  /\ Tell("burnOk")
  /\ UNCHANGED <<workingCopy, running>>

Query ==
  /\ CarryOut({"query", "text"})
  /\ Tell(IF Requests[asked].command = "query" THEN "ok" ELSE "commandOk")
  /\ UNCHANGED <<tune, running>>

\* The answer to a console line says only that it was received;
Execute ==
  /\ CarryOut({"execute", "reset"})
  /\ running' = asked
  /\ Tell("commandOk")
  /\ UNCHANGED tune

\* it sets something in the tune in use, or resets both.
Run ==
  /\ running # 0 /\ running' = 0
  /\ IF Requests[running].command = "reset"
     THEN /\ persistent' = [o \in Offsets |-> InitialValue]
          /\ workingCopy' = persistent'
     ELSE /\ persistent' = Written(persistent, Requests[running])
          /\ UNCHANGED workingCopy
  /\ UNCHANGED <<pc, asked, code, open>>

Next == Ask \/ Lose \/ Refuse \/ GiveUp \/ Write \/ Burn \/ Query \/ Execute \/ Run

Spec == Init /\ [][Next]_vars
================================================================================
