SPECIFICATION Spec
CONSTANTS
  Scanners = {s1, s2}
  Workers = {w1, w2}
  Clients = {c1}
  NoRun = NoRun
  Horizon = 3
  MaxRevision = 1
  Occurrences <- OnceAt1
  Lease = 2
  Attempts = 2
  Requests = {"create", "cancel"}
  MaxRequests = 2
  Faults = {"crash", "storage", "shutdown", "redelivery", "slowScan"}
  MaxFaults = 2
SYMMETRY ReplicaSymmetry
INVARIANTS
  StartedAtMostOnce
  OutcomesAreEarned
  LeaseCoversHolder
