SPECIFICATION Spec
CONSTANTS
  Scanners = {s1}
  Workers = {w1, w2}
  Clients = {c1}
  NoRun = NoRun
  Horizon = 3
  MaxRevision = 1
  Occurrences <- At1And2
  Lease = 2
  Attempts = 1
  Requests = {"create","runNow","cancel"}
  MaxRequests = 2
  Faults = {}
  MaxFaults = 0
SYMMETRY WorkerSymmetry
INVARIANTS
  TypeOK
  MutualExclusion
  NoOrphanRun
PROPERTIES
  ReadyOutlivesRun
