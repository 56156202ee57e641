SPECIFICATION Spec
CONSTANTS
  Scanners = {s1}
  Workers = {w1, w2}
  Clients = {c1}
  NoRun = NoRun
  Horizon = 3
  MaxRevision = 1
  Occurrences <- OnceAt1
  Lease = 2
  Attempts = 1
  Requests = {"create","delete","cancel"}
  MaxRequests = 3
  Faults = {"overrun", "lateAck"}
  MaxFaults = 0
SYMMETRY WorkerSymmetry
PROPERTIES
  RunsFollowLifecycle
