SPECIFICATION Spec
CONSTANTS
  Scanners = {s1}
  Workers = {w1}
  Clients = {c1}
  NoRun = NoRun
  Horizon = 3
  MaxRevision = 1
  Occurrences <- At1And2
  Lease = 2
  Attempts = 2
  Requests = {"create", "runNow"}
  MaxRequests = 2
  Faults = {"slowClient"}
  MaxFaults = 0
SYMMETRY WorkerSymmetry
INVARIANTS
  NoOrphanRun
