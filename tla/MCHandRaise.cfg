CONSTANTS
  NumSeats = 2
  Stacks <- RaiseStacks
  Amounts <- RaiseAmounts
  Awards <- MCAwards
  DrawGames = {FALSE}
  MaxVersion = 6
SPECIFICATION Spec
PROPERTY RaiseIsTotal
CHECK_DEADLOCK FALSE
