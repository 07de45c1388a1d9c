------------------------------- MODULE MCRoom -------------------------------
(***************************************************************************)
(* A small card room for TLC: two players, a table for two, two hands, and *)
(* one event that a saga is handed twice.                                  *)
(***************************************************************************)
EXTENDS Room, TLC

MCBuyIns == {1}

MCAwards == {1}
=============================================================================
