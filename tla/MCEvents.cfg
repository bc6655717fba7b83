\* Two clients one after the other, and ids for a start, a switch and its
\* rollback, or for a session of each.  One socket: sockets share nothing but
\* one-time tickets, which MCAuth.cfg checks.  A ring of two loses events when a
\* socket is two behind.  The bounds on epochs and ids let the model stop.
CONSTANTS
  Client = {1, 2}
  NoClient = 0
  NoId = 0
  Socket = {s1}
  Capacity = 2
  MaxEpoch = 2
  MaxId = 3
SPECIFICATION Spec
INVARIANTS
  TypeOK
  DrainedIsCurrent
  TimelySocketsEnd
CHECK_DEADLOCK FALSE
