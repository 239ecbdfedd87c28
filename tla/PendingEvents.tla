---------------------------- MODULE PendingEvents ----------------------------
(***************************************************************************)
(* What the firmware's event scheduler promises to its clients (spark,     *)
(* injection, PWM, ...): ExecutorInterface in scheduler.h, seen from       *)
(* outside.  A client owns scheduling_s records; at any moment a record is *)
(* either idle or pending for one timestamp.                               *)
(*                                                                         *)
(*   - scheduling an idle record makes it pending; scheduling a pending    *)
(*     record changes nothing;                                             *)
(*   - a record's callback starts only once its timestamp has been         *)
(*     reached, and never while a record with an earlier timestamp is      *)
(*     pending;                                                            *)
(*   - the callback of a record starts once per successful scheduling.     *)
(***************************************************************************)
EXTENDS Naturals

CONSTANTS Sched,        \* the scheduling_s records
          TimeBound,    \* the clock stops here (a bound of the model)
          Idle          \* the value of an idle record; not a number

VARIABLES now,          \* the clock, getTimeNowNt()
          pending       \* for each record the timestamp it waits for, or Idle

vars == <<now, pending>>

Time == 0 .. TimeBound

TypeOK ==
  /\ now \in Time
  /\ pending \in [Sched -> Time \cup {Idle}]

Init ==
  /\ now = 0
  /\ pending = [s \in Sched |-> Idle]

Tick ==
  /\ now < TimeBound
  /\ now' = now + 1
  /\ UNCHANGED pending

Schedule(s, t) ==
  /\ pending[s] = Idle
  /\ pending' = [pending EXCEPT ![s] = t]
  /\ UNCHANGED now

\* The callback of record s is the next one to run.
Due(s) ==
  /\ pending[s] # Idle
  /\ pending[s] <= now
  /\ \A r \in Sched : pending[r] # Idle => pending[s] <= pending[r]

Fire(s) ==
  /\ Due(s)
  /\ pending' = [pending EXCEPT ![s] = Idle]
  /\ UNCHANGED now

Next ==
  \/ Tick
  \/ \E s \in Sched, t \in Time : Schedule(s, t)
  \/ \E s \in Sched : Fire(s)

Spec == Init /\ [][Next]_vars
=============================================================================
