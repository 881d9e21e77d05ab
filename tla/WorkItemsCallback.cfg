SPECIFICATION FairSpec
CONSTANTS
  Clients = {c1, c2}
  Worker = worker
  Null = null
  PoolSize = 3
  Capacity = 1
  MaxRequests = 4
  Calls = {"lfs_file_exists_with_callback"}
  NestedCalls = {"readFileWithCallback"}
  MaxReleases = 2
INVARIANTS TypeOK OneHolder BuffersInReach
PROPERTIES RequestSpec CallbackServed
