CONSTANTS
  Capacity = 2
  Values = {a, b}
  Null = Null
  Uninit = Uninit
  Worker = Worker
  Producers = {p1, p2}
  Controllers = {c1}
  MaxCalls = 3
  MaxStops = 2
  SemLimit = 6
SPECIFICATION FairSpec
INVARIANTS TypeOK HeldSlotsWritten NoLostWakeup StopNoticed SuspendedWhileReleasing NoAbort
PROPERTIES FifoSpec QueuedIsTaken PushReturns ReleaseReturns
