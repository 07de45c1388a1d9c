------------------------------ MODULE MCPlayer ------------------------------
(***************************************************************************)
(* A small player aggregate for TLC: two overlapping calls, two tables.    *)
(***************************************************************************)
EXTENDS Player, TLC

CallSymmetry == Permutations(Calls)

\* Amounts that commands name, the invalid ones included.
MCAmounts == {-1, 0, 1, 2}

\* Transfers bring money, take it away, or carry no amount at all.
AnyTransfers == {-2, 0, 1}
=============================================================================
