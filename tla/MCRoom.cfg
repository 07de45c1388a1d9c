CONSTANTS
  Players = {alice, bob}
  Nobody = Nobody
  Stranger = Stranger
  MaxSeats = 2
  NumTables = 3
  BuyIns <- MCBuyIns
  Awards <- MCAwards
  MaxHands = 2
  MaxRepeats = 1
SPECIFICATION FairSpec
INVARIANTS
  TypeOK
  OneHandAtATime
  EndsAsPaid
  NeverStuck
  MoneyAccounted
PROPERTIES
  ImplementsCycle
  EveryHandSettles
CHECK_DEADLOCK FALSE
