------------------------------ MODULE TuneStore ------------------------------
(***************************************************************************)
(* What the two copies in flash promise to the user of the tune: one cell  *)
(* that keeps its value without power.                                     *)
(*                                                                         *)
(*   - a power-up runs the tune that the cell holds;                       *)
(*   - the cell changes only while a commit is being saved, and only to    *)
(*     the tune of the last commit: never to a mixture, to the defaults,   *)
(*     or back to an older tune;                                           *)
(*   - saving ends only when the cell holds that tune;                     *)
(*   - the first loss of power leaves the cell as it is; later ones do if  *)
(*     nothing is being saved (the copies are not repaired at power-up).   *)
(***************************************************************************)
EXTENDS Naturals

CONSTANTS Tune,       \* the values of the cell
          None        \* no commit since power-up

VARIABLES stored,     \* the cell
          running,    \* the tune the engine runs with
          committed,  \* the tune of the last commit since power-up, or None
          saving,     \* is the last commit still being saved
          powered, losses

vars == <<stored, running, committed, saving, powered, losses>>

Init ==
  /\ stored \in Tune /\ running = stored
  /\ committed = None /\ saving = FALSE
  /\ powered = TRUE /\ losses = 0

\* The tune in use is edited, perhaps for good; not while it is being saved.
Change ==
  /\ powered /\ ~saving
  /\ running' \in Tune
  /\ committed' \in {committed, None}
  /\ UNCHANGED <<stored, saving, powered, losses>>

\* A burn or a write: the tune in use is to be saved.
Commit ==
  /\ powered
  /\ running' \in Tune /\ (saving => running' = running)
  /\ committed' = running'
  /\ saving' = TRUE
  /\ UNCHANGED <<stored, powered, losses>>

Save ==
  /\ powered /\ saving
  /\ stored' = committed
  /\ UNCHANGED <<running, committed, saving, powered, losses>>

Finish ==
  /\ powered /\ saving
  /\ stored = committed
  /\ saving' = FALSE
  /\ UNCHANGED <<stored, running, committed, powered, losses>>

PowerLoss ==
  /\ powered /\ powered' = FALSE
  /\ losses' = losses + 1
  /\ \/ stored' = stored
     \/ saving /\ losses > 0 /\ stored' \in Tune
  /\ committed' = None /\ saving' = FALSE
  /\ UNCHANGED running

PowerUp ==
  /\ ~powered /\ powered' = TRUE
  /\ running' = stored
  /\ UNCHANGED <<stored, committed, saving, losses>>

Next == Change \/ Commit \/ Save \/ Finish \/ PowerLoss \/ PowerUp

Spec == Init /\ [][Next]_vars
=============================================================================
