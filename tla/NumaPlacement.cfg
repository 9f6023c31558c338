CONSTANTS
  Threads = {t1, t2}
  Libraries = {"libnuma.so.1"}
  Candidates <- One
  NoLibrary = NoLibrary
  Unset = Unset
  Failed = Failed
  NoThread = NoThread
  MaxCalls = 3
  MaxInstalls = 1
  Topologies <- Machines
  NodeArgs = {0, 1, 2}
SPECIFICATION NumaSpec
SYMMETRY Symmetry
INVARIANTS
  OutOfRangeStopsAtValidation ExistingNodeIsValid NoOpHasCause
