CONSTANTS
  Players = {alice, bob, carol}
  Nobody = Nobody
  MaxSeats = 4
  BuyIns <- MCBuyIns
  Winnings <- MCWinnings
  MaxHands = 2
SYMMETRY PlayerSymmetry
SPECIFICATION Spec
INVARIANTS
  TypeOK
  SeatingSound
  DealtInStay
  HandsEndOnce
  BlindsAreDealtIn
CHECK_DEADLOCK FALSE
