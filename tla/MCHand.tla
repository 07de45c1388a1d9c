------------------------------- MODULE MCHand -------------------------------
(***************************************************************************)
(* Small hands for TLC.                                                    *)
(***************************************************************************)
EXTENDS Hand

\* Amounts, an invalid one included.
MCAmounts == {0, 1, 2, 4}
MCStacks  == {1, 3}

\* Chips enough that a raise leaves something.
RaiseAmounts == {1, 3}
RaiseStacks  == {4}

\* One award that may be too large or too small, for a pot of any size.
MCAwards  == {0, 3}
=============================================================================
