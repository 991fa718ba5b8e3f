\* another kernel than the requested one is launched
CONSTANTS
  Calls = {c1, c2}
  Requests <- ClientRequests
  Handles = {0, 1}
  Names = {"f", "g"}
  HostBufs = {h1, h2}
  DevBufs = {d1, d2}
  PoolCap = 2
  MaxBytes = 3
  Nobody = Nobody
SPECIFICATION Spec
INVARIANT RunsRequestedKernel
CHECK_DEADLOCK FALSE
