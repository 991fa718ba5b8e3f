\* one thread and one address: a buffer is registered, freed and its address
\* given to the next buffer
CONSTANTS
  RdmaThreads = {t1}
  Addrs = {a1}
  NoRdmaThread = NoRdmaThread
  NoBuffer = NoBuffer
  MaxCqs = 2
  GdrCompiled = TRUE
  RelockOutcomes = {"blocks", "enters", "throws"}
  Callers = {t1}
  DPtrs = {p1}
  Infos = {i1}
  MaxLookups = 1
  NoKey = NoKey
  MaxTime = 1
  Threads = {t1}
  Transporters = {}
  Sizes = {1}
  NoThread = NoThread
  OtherProcess = OtherProcess
  MaxRetries = 1
  MaxInbox = 1
  Ptrs = {d1}
  Functions = {}
  FailedHooks = {{}}
  NoPtr = NoPtr
SPECIFICATION Spec
INVARIANT SendsOwnRegion
CHECK_DEADLOCK FALSE
