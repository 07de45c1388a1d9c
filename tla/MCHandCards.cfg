CONSTANTS
  Deck <- SmallDeck
  MaxPlayers = 2
  HoleCards <- MCHole
  BoardCards <- MCBoard
  Draw = "FIVE_CARD_DRAW"
  Calls = {c1, c2}
  MaxVersion = 6
  None = None
SYMMETRY CallSymmetry
SPECIFICATION Spec
INVARIANTS
  TypeOK
  NoCardTwice
  DeckWhole
  NeverShort
PROPERTY CardsStay
CHECK_DEADLOCK FALSE
