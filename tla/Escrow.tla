------------------------------- MODULE Escrow -------------------------------
(***************************************************************************)
(* What the player aggregate promises: an account with a balance and, per  *)
(* purpose, an amount held back.  There is no counter of what is held:     *)
(* the money that may be taken out or held is the balance minus the sum of *)
(* the holds.  Adjustments are somebody else's word: they may take the     *)
(* balance anywhere, and the account only says how much they came to.      *)
(***************************************************************************)
EXTENDS Sums

CONSTANT NumHolds           \* how many purposes money may be held for

VARIABLES open, balance, holds, adjusted

vars == <<open, balance, holds, adjusted>>

Holds == 0 .. NumHolds - 1

Free == balance - SumTo(holds, NumHolds)

Init ==
  /\ open = FALSE
  /\ balance = 0
  /\ holds = [h \in Holds |-> 0]
  /\ adjusted = 0

Open ==
  /\ ~ open
  /\ open' = TRUE
  /\ UNCHANGED <<balance, holds, adjusted>>

\* Money comes in.
Credit ==
  /\ open
  /\ balance' > balance
  /\ UNCHANGED <<open, holds, adjusted>>

\* Money goes out, but none of the money that is held.
Debit ==
  /\ open
  /\ balance' < balance
  /\ SumTo(holds, NumHolds) <= balance'
  /\ UNCHANGED <<open, holds, adjusted>>

\* An adjustment moves the balance by what it says.
Adjust ==
  /\ open
  /\ balance' - balance = adjusted' - adjusted
  /\ UNCHANGED <<open, holds>>

\* Hold back some of the free money for h, which holds nothing yet.
Hold(h) ==
  /\ open
  /\ holds[h] = 0
  /\ \E amount \in 1 .. Free : holds' = [holds EXCEPT ![h] = amount]
  /\ UNCHANGED <<open, balance, adjusted>>

\* Give up the hold of h as a whole.
Unhold(h) ==
  /\ holds' = [holds EXCEPT ![h] = 0]
  /\ UNCHANGED <<open, balance, adjusted>>

Next ==
  \/ Open
  \/ Credit
  \/ Debit
  \/ Adjust
  \/ \E h \in Holds : Hold(h) \/ Unhold(h)

Spec == Init /\ [][Next]_vars
=============================================================================
