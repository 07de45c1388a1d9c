------------------------------ MODULE MCTable ------------------------------
(***************************************************************************)
(* A small table for TLC: three players and a seat more than players.      *)
(***************************************************************************)
EXTENDS Table, TLC

PlayerSymmetry == Permutations(Players)

MCBuyIns   == {1, 2}
MCWinnings == {2}
=============================================================================
