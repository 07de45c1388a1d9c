CONSTANTS
  NumTables = 2
  Calls = {c1, c2}
  Amounts <- MCAmounts
  TransferAmounts <- AnyTransfers
  MaxVersion = 6
  None = None
SYMMETRY CallSymmetry
SPECIFICATION Spec
INVARIANTS
  TypeOK
  ReservedIsSum
  LedgerAgrees
  StorableIsCurrent
  IdempotentReplay
PROPERTIES
  OnlyTransfersOverdraw
  ImplementsEscrow
CHECK_DEADLOCK FALSE
