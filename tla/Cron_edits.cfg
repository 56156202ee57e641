SPECIFICATION Spec
CONSTANTS
  Scanners = {s1}
  Workers = {w1}
  Clients = {c1}
  NoRun = NoRun
  Horizon = 3
  MaxRevision = 3
  Occurrences <- Moving
  Lease = 2
  Attempts = 1
  Requests = {"create","edit","disable","enable"}
  MaxRequests = 3
  Faults = {}
  MaxFaults = 0
SYMMETRY WorkerSymmetry
INVARIANTS
  NoMissedOccurrence
