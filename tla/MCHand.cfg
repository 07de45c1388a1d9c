CONSTANTS
  NumSeats = 2
  Stacks <- MCStacks
  Amounts <- MCAmounts
  Awards <- MCAwards
  DrawGames = {FALSE, TRUE}
  MaxVersion = 6
SPECIFICATION Spec
INVARIANTS
  TypeOK
  ChipsConserved
  NoDebt
  AllInIsBroke
PROPERTIES
  FoldIsFinal
  CompleteIsFinal
CHECK_DEADLOCK FALSE
