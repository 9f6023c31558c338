CONSTANTS
  NPages = 2
  PageSize = 2
  HugePage = 2
  Free = Free
  Blocks = {b1}
  BlockLens = {2}
  Nodes = {0, 1}
  NoNode = 99
  UnreadBits = {1}
  Vecs = {}
  Counts = {}
  Types <- OneUnit
  UsizeMax = 31
  AllocMax = 7
  SliceLens = {0, 1, 3}
  MaxLocks = 0
SPECIFICATION Spec
INVARIANTS NodeReachesKernel
