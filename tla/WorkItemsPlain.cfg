SPECIFICATION FairSpec
CONSTANTS
  Clients = {c1, c2}
  Worker = worker
  Null = null
  PoolSize = 2
  Capacity = 2
  MaxRequests = 3
  Calls = {"lfs_read_file", "writeFile"}
  NestedCalls = {}
  MaxReleases = 1
INVARIANTS OneHolder WaitForLast BuffersInReach
PROPERTIES WaitReturns
