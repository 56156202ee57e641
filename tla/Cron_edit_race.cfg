SPECIFICATION Spec
CONSTANTS
  Scanners = {s1}
  Workers = {w1}
  Clients = {c1}
  NoRun = NoRun
  Horizon = 3
  MaxRevision = 2
  Occurrences <- At1And2
  Lease = 2
  Attempts = 2
  Requests = {"create", "edit"}
  MaxRequests = 2
  Faults = {}
  MaxFaults = 0
SYMMETRY WorkerSymmetry
PROPERTIES
  ReadyOutlivesRun
