SPECIFICATION StoreSpec
CONSTANTS
  Clients = {c1, c2}
  NoRun = NoRun
  CasAttempts = 2
  MaxCalls = 5
  Activations = {a1, a2, a3}
  JobRuns = {m1, m2}
  JobRevisions = {1, 2}
  LeaseTime = 2
  None = None
  PutRounds = 2
  LastReading = 3
  MaxTasks = 3
SYMMETRY StoreSymmetry
INVARIANTS
  TypeOK
  SnapshotIsCurrent
  ConflictOnlyUnderContention
  JobTypeOK
  LeaseStands
PROPERTIES
  CompletedRunsRefuseCancel
  ImplementsLifecycle
  ImplementsObjects
