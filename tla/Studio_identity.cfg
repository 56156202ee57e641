SPECIFICATION StudioSpec
CONSTANTS
  Texts = {hello}
  MaxInputs = 2
  MaxRuns = 2
  MaxTroubles = 2
  NoInput = NoInput
  Sids = {1, 2}
  Old = 1
  MaxCalls = 2
  None = None
  Asked = Asked
  MaxRequests = 2
  MaxCuts = 2
  MaxVersion = 1
  MaxAttempts = 1
  MaxSwitches = 1
  MaxPolls = 2
PROPERTY SubmittedIdentityKept
CHECK_DEADLOCK FALSE
