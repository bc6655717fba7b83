\* Two pairings, two session ids, three incidents: what the user does, what the
\* daemon revokes and what the network loses all count.
CONSTANTS
  MaxPairings = 2
  MaxIds = 2
  MaxIncidents = 3
  Ring = 1
SPECIFICATION Spec
INVARIANTS
  SocketsAreOurs
  ActiveIsConnected
  PairedPolls
CHECK_DEADLOCK FALSE
