\* RDMA: two threads and two addresses, queues for two transfers, all outcomes
\* of a second lock; two keys of the table looked up twice each; three writes of
\* the configuration; two threads of one application, hooks that all install or
\* some fail, datagrams of two sizes, two of which fit the socket
CONSTANTS
  RdmaThreads = {t1, t2}
  Addrs = {a1, a2}
  NoRdmaThread = NoRdmaThread
  NoBuffer = NoBuffer
  MaxCqs = 5
  GdrCompiled = TRUE
  RelockOutcomes = {"blocks", "enters", "throws"}
  Callers = {t1, t2}
  DPtrs = {p1, p2}
  Infos = {i1, i2}
  MaxLookups = 2
  NoKey = NoKey
  MaxTime = 6
  Threads = {t1, t2}
  Transporters = {t1}
  Sizes = {1, 2}
  NoThread = NoThread
  OtherProcess = OtherProcess
  MaxRetries = 3
  MaxInbox = 2
  Ptrs = {d1, d2}
  Functions = {f1}
  FailedHooks = {{}, {"cuMemAlloc_v2"}, {"cuMemFree_v2", "cuMemcpyHtoD_v2"}}
  NoPtr = NoPtr
SPECIFICATION Spec
INVARIANTS RegionsTracked ReleasedUnlessThrown ReleasedLastFirst LookupsCounted
INVARIANTS OwnDataNeverReceived FreedUnlessThrown QueuedOnce
PROPERTIES SnapshotIsTable ReleasedUnlessRelocked ChangesLoaded HeldUnlessStuck
CHECK_DEADLOCK FALSE
