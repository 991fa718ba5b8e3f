\* two calls, two handles, requests at and around every limit
CONSTANTS
  Calls = {c1, c2}
  Requests <- AllRequests
  Handles = {0, 1}
  Names = {"f", "g"}
  HostBufs = {h1, h2}
  DevBufs = {d1, d2}
  PoolCap = 2
  MaxBytes = 3
  Nobody = Nobody
SPECIFICATION FairSpec
INVARIANTS TypeOK NoDeviceLeak DeviceParamsOwn CacheConsistent SameFunction
PROPERTY CallsEnd
CHECK_DEADLOCK FALSE
