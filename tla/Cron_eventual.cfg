SPECIFICATION FairSpec
CONSTANTS
  Scanners = {s1}
  Workers = {w1}
  Clients = {c1}
  NoRun = NoRun
  Horizon = 3
  MaxRevision = 1
  Occurrences <- At1And2
  Lease = 2
  Attempts = 1
  Requests = {"create"}
  MaxRequests = 1
  Faults = {"crash"}
  MaxFaults = 1
PROPERTIES
  ReadyDrains
  RunsFinish
