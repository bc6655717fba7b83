\* Two epochs: a client and its successor.  Three ids: a start, a switch and its
\* rollback, or two starts with a failed burn between them.  Every safety property
\* below is also a theorem for all values of the constants (module SessionProofs);
\* liveness needs the fair specification and the bounds of this file.
CONSTANTS
  Mode = {"direct", "tor"}
  Direct = "direct"
  InitialMode = "tor"
  MaxEpoch = 2
  MaxId = 3
  MaxAsked = 1
SPECIFICATION FairSpec
INVARIANTS
  TypeOK
  ActiveIsConsistent
  IdleIsClean
  LeaseHolder
  OwnHistory
  RoutedAsStarted
PROPERTIES
  ImplementsPhases
  OfferedAgain
  AbandonedSessionEnds
  QuietSessionEnds
