CONSTANTS
  Threads = {t1, t2, t3}
  Libraries = {"libnuma.so.1", "libnuma.so"}
  Candidates <- Both
  NoLibrary = NoLibrary
  Unset = Unset
  Failed = Failed
  NoThread = NoThread
  MaxCalls = 2
  MaxInstalls = 2
SPECIFICATION Spec
INVARIANTS TypeOK CellIsSetOnceByHolder NoHandleLeaks
PROPERTIES KeepsPromise EveryCallReturns
