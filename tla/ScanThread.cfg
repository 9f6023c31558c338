CONSTANTS
  Threads = {t1, t2}
  Cores = {0, 1, 3}
  NodeOf <- NodeOfCore
  CoreArgs = {0, 1, 2, 3, 4}
  IrqMasks <- Masks
  NoCore <- None
  CpuSetSize = 3
  WordBits = 2
  GroupBits = 2
  Groups = 2
  MaxMoves = 1
  Counters = {h1, h2}
  Fds = {0, 1}
  HwCounters = {"Cycles", "CacheMisses"}
  Slots = 1
  MaxRetired = 2
  MaxCalls = 4
SPECIFICATION Spec
SYMMETRY Symmetry
INVARIANTS
  PinnedThreadStays ListIsTheMask
  DescriptorsMatch CountsItsThread
