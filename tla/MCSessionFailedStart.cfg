CONSTANTS
  Mode = {"direct", "tor"}
  Direct = "direct"
  InitialMode = "direct"
  MaxEpoch = 2
  MaxId = 3
  MaxAsked = 1
SPECIFICATION Spec
INVARIANT FailedStartStopsBrowser
