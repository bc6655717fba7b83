\* Three generations: a credential can be two epochs old.  Failures of one
\* lockout window are spread over several ticks.  A session outlives a
\* ticket and a ticket outlives a session.
CONSTANTS
  MaxPairFailures = 3
  PairLockout = 3
  AuthTTL = 2
  TicketTTL = 2
  MaxGeneration = 3
  MaxClients = 2
  MaxTickets = 2
  MaxContexts = 2
SPECIFICATION Spec
INVARIANTS
  TypeOK
  SingleController
  CredentialsBelongToClaimant
  GuessRateBounded
  OfferedSecretIsPublished
  NoTicketReplay
PROPERTY ImplementsLease
