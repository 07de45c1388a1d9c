----------------------------- MODULE MCHandFlow -----------------------------
(***************************************************************************)
(* Small hands conducted by the process manager, for TLC.                  *)
(***************************************************************************)
EXTENDS HandFlow, TLC

HandSymmetry == Permutations(Hands)

\* Three players, who sit in this order unless a deal says otherwise.
Names       == <<"ann", "bob", "cyd">>
SomePlayers == {"ann", "bob", "cyd"}

\* HandStarted for players with these stacks; heads-up the dealer has the
\* small blind.
DealOf(players, stack, dealer, draw) ==
  LET after(p) == CHOOSE q \in players :
                    \A r \in players : (q - p - 1) % NumSeats <= (r - p - 1) % NumSeats
      first    == IF Cardinality(players) = 2 THEN dealer ELSE after(dealer)
  IN  [players |-> players, root |-> [p \in Seats |-> Names[p + 1]], stack |-> stack,
       draw |-> draw, dealer |-> dealer,
       small |-> first, big |-> after(first), small_blind |-> 1, big_blind |-> 2]

Each(chips) == [p \in Seats |-> chips]

\* Seat 1 is short: it has the small blind, the big blind, or neither.
OneIsShort == [Each(4) EXCEPT ![1] = 2]

\* Seat 1 cannot pay a whole big blind, so the small one may be the larger.
OneIsBroke == [Each(5) EXCEPT ![1] = 1]

OneDeal == {DealOf(Seats, Each(3), 0, FALSE)}

\* A deal of ann and bob, and one of cyd and ann: two hands have both players
\* in common, or ann, who sits elsewhere in the other one.
SharedDeals == OneDeal \cup {[d EXCEPT !.root = (0 :> "cyd" @@ 1 :> "ann")] : d \in OneDeal}

\* Three players, or two at a table where seat 2 is empty.
AnyDeals ==
  {DealOf(Seats, stack, dealer, draw) :
     stack \in {OneIsShort}, dealer \in Seats, draw \in BOOLEAN}
  \cup {[DealOf({0, 1}, stack, dealer, FALSE) EXCEPT !.small_blind = sb] :
          stack \in {OneIsShort, OneIsBroke}, dealer \in {0, 1}, sb \in {1, 2}}

SomeAmounts == {2, 4}
NoAmounts   == {}
=============================================================================
