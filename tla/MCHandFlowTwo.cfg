CONSTANTS
  NumSeats = 2
  Hands = {h1, h2}
  Players <- SomePlayers
  Deals <- SharedDeals
  DealNamesHand = TRUE
  TakeTurns = FALSE
  MayRestart = FALSE
  Amounts <- NoAmounts
  MaxActions = 3
  Unstarted = Unstarted
SYMMETRY HandSymmetry
SPECIFICATION Spec
INVARIANTS
  OutIsOut
CHECK_DEADLOCK FALSE
