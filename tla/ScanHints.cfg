CONSTANTS
  Threads = {t1, t2}
  NoThread = NoThread
  Trees <- Machines
  Cpus <- Processors
  Absent <- NoNumber
  K = 2
  UsizeMax = 15
  DefaultLine = 4
  DefaultL1 = 7
  DefaultL2 = 14
  MaxToggles = 1
  Ptrs = {0, 4, 6}
  Lens = {0, 3, 11}
  MaxPrefetchBytes = 9
  HwLine = 4
  MaxCalls = 3
  FileLen = 3
  PageBytes = 2
  OffMax = 5
  Offsets = {0, 1, 2, 6}
SPECIFICATION Spec
INVARIANTS
  TypeOK OneAnswerForAll EachSizeHasASource
  TouchesOnlyTheRange MissesAtMostTheLastLine
PROPERTIES EvictsOnlyWholePages EveryCallReturns
