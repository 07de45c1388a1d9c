---------------------------- MODULE MCHandCards ----------------------------
(***************************************************************************)
(* A small deck for TLC: it is just enough for two players and the board,  *)
(* or for a draw.                                                          *)
(***************************************************************************)
EXTENDS HandCards, TLC

CallSymmetry == Permutations(Calls)

SmallDeck  == 1 .. 6
MCHole     == [TEXAS_HOLDEM |-> 1, FIVE_CARD_DRAW |-> 2]
MCBoard    == [FLOP |-> 2, TURN |-> 1, RIVER |-> 1]
=============================================================================
