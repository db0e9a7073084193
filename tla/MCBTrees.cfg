SPECIFICATION MCSpec
CONSTANTS
  Key <- UpTo10
  Degree = {2, 3}
  T = 2
  MaxPosition = 9
  FewKeys <- UpTo5
  FewPositions = 7
  MaxErasures = 4
INVARIANTS
  BTreeTypeOK
  KeysInOrder
  Balanced
  RangesExactWhereSafe
  FileSurvivesDeath
PROPERTIES
  ImplementsBTree
CHECK_DEADLOCK FALSE
