------------------------------- MODULE HandPot -------------------------------
(***************************************************************************)
(* What becomes of the chips of hands, told without events, commands,      *)
(* turns, bets and a process manager: players who are in move their own    *)
(* chips to the pot and back, and may give up; the pot is awarded once;    *)
(* then it is paid to those who are in and to nobody else, and the hand is *)
(* over.  A pot that players have taken back is nobody's: what is paid     *)
(* from it is not said.                                                    *)
(***************************************************************************)
EXTENDS Sums

CONSTANTS
  Hands,
  NumSeats           \* positions at the table

VARIABLES chips, pot, playing, stage      \* each per hand

vars == <<chips, pot, playing, stage>>

Seats == 0 .. NumSeats - 1

Init ==
  /\ chips \in [Hands -> [Seats -> Nat]]
  /\ pot = [h \in Hands |-> 0]
  /\ playing \in [Hands -> SUBSET Seats]
  /\ stage = [h \in Hands |-> "open"]

\* A player puts chips he has into the pot, or takes some back.
Move(h, p) ==
  /\ stage[h] # "paid"
  /\ p \in playing[h]
  /\ \E c \in {chips'[h][p]} :
       /\ c >= 0
       /\ chips' = [chips EXCEPT ![h][p] = c]
       /\ pot' = [pot EXCEPT ![h] = @ + chips[h][p] - c]
  /\ UNCHANGED <<playing, stage>>

\* A player gives up, and moves no chips with it.
GiveUp(h, p) ==
  /\ stage[h] # "paid"
  /\ p \in playing[h]
  /\ playing' = [playing EXCEPT ![h] = @ \ {p}]
  /\ UNCHANGED <<chips, pot, stage>>

\* It is said who gets the pot, though players may still move.
Award(h) ==
  /\ stage[h] = "open"
  /\ stage' = [stage EXCEPT ![h] = "awarded"]
  /\ UNCHANGED <<chips, pot, playing>>

\* The pot goes to those who are in.
Pay(h) ==
  /\ stage[h] = "awarded"
  /\ playing[h] # {}
  /\ \E paid \in {chips'[h]} :
       /\ \A p \in Seats \ playing[h] : paid[p] = chips[h][p]
       /\ pot[h] > 0 => SumTo(paid, NumSeats) = SumTo(chips[h], NumSeats) + pot[h]
       /\ chips' = [chips EXCEPT ![h] = paid]
  /\ pot' = [pot EXCEPT ![h] = 0]
  /\ stage' = [stage EXCEPT ![h] = "paid"]
  /\ UNCHANGED playing

Next ==
  \E h \in Hands :
    \/ Award(h)
    \/ Pay(h)
    \/ \E p \in Seats : Move(h, p) \/ GiveUp(h, p)

Spec == Init /\ [][Next]_vars
=============================================================================
