\* As MCEvents.cfg.
CONSTANTS
  Client = {1, 2}
  NoClient = 0
  NoId = 0
  Socket = {s1}
  Capacity = 2
  MaxEpoch = 2
  MaxId = 3
SPECIFICATION Spec
INVARIANT BurnClosesDelivery
CHECK_DEADLOCK FALSE
