SPECIFICATION Spec
CONSTANTS
  Clients = {c1}
  Worker = worker
  Null = null
  PoolSize = 1
  Capacity = 1
  MaxRequests = 1
  Calls = {"writeFile"}
  NestedCalls = {}
  MaxReleases = 0
INVARIANTS RunsAsCalled
