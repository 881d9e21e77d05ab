SPECIFICATION Spec
CONSTANTS
  Clients = {c1}
  Worker = worker
  Null = null
  PoolSize = 1
  Capacity = 1
  MaxRequests = 2
  Calls = {"fileExists", "fileExistsWithCallback"}
  NestedCalls = {}
  MaxReleases = 0
INVARIANTS CallbackOnce
