------------------------------ MODULE HandCycle ------------------------------
(***************************************************************************)
(* What a table and its hands promise together, told without sagas,        *)
(* commands or events: hands are played one after the other, each is paid  *)
(* before the table takes leave of it, and only then may the next one      *)
(* start.                                                                  *)
(***************************************************************************)
EXTENDS Naturals

VARIABLES hands, phase      \* hands started; where the last one is

vars == <<hands, phase>>

Init ==
  /\ hands = 0
  /\ phase = "open"

\* The next hand starts.
Start ==
  /\ phase = "open"
  /\ hands' = hands + 1
  /\ phase' = "playing"

\* Its pot is awarded.
Pay ==
  /\ phase = "playing"
  /\ phase' = "paid"
  /\ UNCHANGED hands

\* The table is ready for another one.
Close ==
  /\ phase = "paid"
  /\ phase' = "open"
  /\ UNCHANGED hands

Next == Start \/ Pay \/ Close

Spec == Init /\ [][Next]_vars
=============================================================================
