\* the module is loaded more than once
CONSTANTS
  Calls = {c1, c2}
  Requests <- EqualRequests
  Handles = {0, 1}
  Names = {"f", "g"}
  HostBufs = {h1, h2}
  DevBufs = {d1, d2}
  PoolCap = 2
  MaxBytes = 3
  Nobody = Nobody
SPECIFICATION Spec
INVARIANT ModuleLoadedOnce
CHECK_DEADLOCK FALSE
