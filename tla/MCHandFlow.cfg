CONSTANTS
  NumSeats = 3
  Hands = {h1}
  Players <- SomePlayers
  Deals <- OneDeal
  DealNamesHand = TRUE
  TakeTurns = FALSE
  MayRestart = TRUE
  Amounts <- SomeAmounts
  MaxActions = 4
  Unstarted = Unstarted
SPECIFICATION Spec
INVARIANTS
  TypeOK
  NobodyLeftOut
  AwardedOnce
PROPERTIES
  ImplementsPot
CHECK_DEADLOCK FALSE
