CONSTANTS
  NumSeats = 2
  Hands = {h1}
  Players <- SomePlayers
  Deals <- OneDeal
  DealNamesHand = FALSE
  TakeTurns = TRUE
  MayRestart = FALSE
  Amounts <- NoAmounts
  MaxActions = 3
  Unstarted = Unstarted
SPECIFICATION Spec
PROPERTIES
  CardsDealtStartsBlinds
CHECK_DEADLOCK FALSE
