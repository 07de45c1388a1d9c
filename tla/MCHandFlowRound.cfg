CONSTANTS
  NumSeats = 2
  Hands = {h1}
  Players <- SomePlayers
  Deals <- OneDeal
  DealNamesHand = TRUE
  TakeTurns = TRUE
  MayRestart = FALSE
  Amounts <- NoAmounts
  MaxActions = 3
  Unstarted = Unstarted
SPECIFICATION Spec
PROPERTIES
  CompleteRoundAdvances
CHECK_DEADLOCK FALSE
