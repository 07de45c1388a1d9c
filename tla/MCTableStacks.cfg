CONSTANTS
  Players = {alice, bob, carol}
  Nobody = Nobody
  MaxSeats = 3
  BuyIns <- MCBuyIns
  Winnings <- MCWinnings
  MaxHands = 3
SPECIFICATION Spec
PROPERTY StackChangesApplied
CHECK_DEADLOCK FALSE
