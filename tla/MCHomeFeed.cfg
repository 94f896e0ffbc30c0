SPECIFICATION Spec
CONSTANTS
  Uids = {1, 2, 3}
  PageSize = 2
  MaxFetches = 2
  MaxSwipes = 2
INVARIANTS TypeOK NoSkippedUser NoDuplicate DeckInOrder
PROPERTY HUDLeaves
CHECK_DEADLOCK FALSE
