SPECIFICATION StudioSpec
CONSTANTS
  Texts = {hello}
  MaxInputs = 2
  MaxRuns = 2
  MaxTroubles = 2
  NoInput = NoInput
  Sids = {1, 2}
  Old = 1
  MaxCalls = 2
  None = None
  Asked = Asked
  MaxRequests = 2
  MaxCuts = 2
  MaxVersion = 1
  MaxAttempts = 2
  MaxSwitches = 1
  MaxPolls = 2
INVARIANTS
  TaskTypeOK
  RecordedOnce
  StopReachesSubmission
  ChatTypeOK
  StreamingIsStoppable
  CreationTypeOK
  WorkIsKept
  FormIsLocked
  UpdateTypeOK
  WaitIsStored
  ReloadsEnd
  PublishedIsServed
PROPERTIES
  StopSettles
  UnansweredStay
  ComposerUnlocks
  EndIsShown
  UpdateSettles
CHECK_DEADLOCK FALSE
