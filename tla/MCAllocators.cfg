SPECIFICATION MCSpec
CONSTANTS
  Power = 6
  ListRequest = {0, 19}
  TagsRequest = {0, 25}
  BuddiesRequest = {0, 3, 4, 20}
  TreeRequest = {1, 20}
  Request = {0, 1, 2, 3, 4, 5, 6, 7, 19, 20, 25}
  ListMetadata = 2
  TagsMetadata = 4
  BuddiesMetadata = 5
  BuddiesMinK = 3
  TreeOccupiedMetadata = 1
  TreeFreeMetadata = 2
  MaxHanded = 3
  TreeMaxHanded = 2
  Pattern <- ManySizes
  Spacer = 1
  MaxLast = 3
INVARIANTS
  Tiled
  RedBlack
  FitFound
PROPERTIES
  ImplementsHeap
CHECK_DEADLOCK FALSE
