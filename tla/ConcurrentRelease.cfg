CONSTANTS
  Capacity = 1
  Values = {a}
  Null = Null
  Uninit = Uninit
  Worker = Worker
  Producers = {p1}
  Controllers = {c1, c2}
  MaxCalls = 1
  MaxStops = 2
  SemLimit = 6
SPECIFICATION Spec
INVARIANT SuspendedWhileReleasing
