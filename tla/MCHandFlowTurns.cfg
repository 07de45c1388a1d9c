CONSTANTS
  NumSeats = 3
  Hands = {h1}
  Players <- SomePlayers
  Deals <- AnyDeals
  DealNamesHand = TRUE
  TakeTurns = TRUE
  MayRestart = FALSE
  Amounts <- SomeAmounts
  MaxActions = 7
  Unstarted = Unstarted
SPECIFICATION FairSpec
INVARIANTS
  SidesAgree
  TurnCanAct
  PaidExactly
  CommandsAccepted
PROPERTIES
  BettingStarts
CHECK_DEADLOCK FALSE
