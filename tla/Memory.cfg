CONSTANTS
  NPages = 6
  PageSize = 2
  HugePage = 2
  Free = Free
  Blocks = {b1, b2}
  BlockLens = {0, 1, 3}
  Nodes = {0, 1}
  NoNode = 99
  UnreadBits = {0, 1}
  Vecs = {v1}
  Counts = {0, 1, 3, 7, 8}
  Types <- SmallAndOverAligned
  UsizeMax = 15
  AllocMax = 7
  SliceLens = {0, 1, 3}
  MaxLocks = 2
SPECIFICATION Spec
SYMMETRY Symmetry
INVARIANTS
  TypeOK EachOwnerHasItsPages ElementsAreBalanced LocksHold
PROPERTIES KeepsOwnership
