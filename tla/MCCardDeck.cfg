SPECIFICATION Spec
CONSTANTS
  MaxCards = 4
  PageSize = 2
INVARIANTS TypeOK CardsSettled HeldUndisturbed
PROPERTY DeckKept
CHECK_DEADLOCK FALSE
