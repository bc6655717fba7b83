-------------------------------- MODULE Auth --------------------------------
(***************************************************************************)
(* AuthManager (src/auth.rs): one-time pairing, controller sessions,       *)
(* WebSocket tickets, the global lockout, and the rotation that every burn *)
(* and recovery performs (AppState::rotate_pairing_material).              *)
(*                                                                         *)
(* Each action is one critical section of the AuthState RwLock, so         *)
(* requests interleave with the three steps of a rotation exactly where    *)
(* the code releases that lock.  Secrets, tokens and hashes are named by   *)
(* what the code tells apart: a pairing secret by the generation that made *)
(* it, a session by its client, a ticket by a serial number.  Deadlines    *)
(* count down: left > 0 stands for expires_at > now.                       *)
(***************************************************************************)
EXTENDS Naturals, FiniteSets

CONSTANTS
  MaxPairFailures, \* MAX_PAIR_FAILURES
  PairLockout,     \* PAIR_LOCKOUT, in ticks
  AuthTTL,         \* auth_ttl, in ticks
  TicketTTL,       \* ticket_ttl, in ticks
  MaxGeneration,   \* bound: rotations explored
  MaxClients,      \* bound: client ids minted
  MaxTickets,      \* bound: tickets minted
  MaxContexts      \* bound: request contexts in flight

ASSUME AuthAssumption ==
  /\ MaxPairFailures \in Nat \ {0}
  /\ PairLockout \in Nat \ {0}
  /\ AuthTTL \in Nat \ {0}
  /\ TicketTTL \in Nat \ {0}
  /\ MaxGeneration \in Nat /\ MaxClients \in Nat
  /\ MaxTickets \in Nat /\ MaxContexts \in Nat

VARIABLES
  generation,          \* AuthState.generation
  pairing_hash,        \* generation whose secret is accepted, or NoSecret
  manual_pairing_hash, \* the same for the grouped Base32 form
  sessions,            \* AuthState.sessions
  tickets,             \* AuthState.tickets
  failed_pairings,     \* AuthState.failed_pairings
  locked,              \* ticks until locked_until, 0 when it is None or past
  pairing_file,        \* generation in the root-only handoff file
  rotation,            \* where the burn or recovery in progress stands
  contexts,            \* AuthContexts held by requests between their awaits
  minted,              \* client ids and ticket serials handed out so far
  claimant,            \* history: the client that paired in this generation
  guesses,             \* history: the wrong guesses judged, with their age in ticks
  spent                \* history: serials of the tickets presented so far

secretVars == <<generation, pairing_hash, manual_pairing_hash, pairing_file>>
guessVars == <<failed_pairings, locked, guesses>>
vars == <<secretVars, guessVars, sessions, tickets, rotation, contexts, minted,
          claimant, spent>>

NoSecret == 0
NoClient == 0
Client == 1 .. MaxClients
Forms == {"secret", "manual"}
Purposes == {"events", "signaling"}

Session == [client : Nat, generation : Nat, left : Nat]
Ticket == [serial : Nat, client : Nat, generation : Nat, left : Nat,
           purpose : Purposes]
Context == [client : Nat, generation : Nat]
Guess == [age : 0 .. PairLockout - 1, nth : Nat]  \* the nth of a tick

TypeOK ==
  /\ generation \in Nat \ {0}
  /\ pairing_hash \in Nat /\ manual_pairing_hash \in Nat /\ pairing_file \in Nat
  /\ sessions \subseteq Session /\ tickets \subseteq Ticket
  /\ failed_pairings \in 0 .. MaxPairFailures - 1
  /\ locked \in 0 .. PairLockout
  /\ rotation \in {"none", "revoked", "rotated"}
  /\ contexts \subseteq Context
  /\ minted \in [clients : Nat, tickets : Nat]
  /\ claimant \in Nat
  /\ guesses \subseteq Guess /\ IsFiniteSet(guesses)
  /\ spent \subseteq Nat

NoGuesses == {}

\* AuthManager::new and the rotation and publication that main makes before
\* it serves: either failing ends the process.
Init ==
  /\ generation = 1
  /\ pairing_hash = 1 /\ manual_pairing_hash = 1 /\ pairing_file = 1
  /\ sessions = {} /\ tickets = {} /\ contexts = {}
  /\ failed_pairings = 0 /\ locked = 0 /\ guesses = NoGuesses
  /\ rotation = "none"
  /\ minted = [clients |-> 0, tickets |-> 0]
  /\ claimant = NoClient
  /\ spent = {}

(***************************************************************************)
(* Helpers.  A Faulty... operator is a plausible bug in the operator that  *)
(* follows it; nothing uses it but the runs that show a property can fail. *)
(***************************************************************************)
Live(S) == {x \in S : x.left > 0 /\ x.generation = generation}

PruneExpired == sessions' = Live(sessions) /\ tickets' = Live(tickets)

FaultyAuthorised(ctx) == TRUE

\* The test validate_context and issue_ticket make again under the lock.
Authorised(ctx) ==
  /\ ctx.generation = generation
  /\ \E s \in sessions : /\ s.client = ctx.client
                         /\ s.generation = ctx.generation
                         /\ s.left > 0

FaultyLocked == FALSE

Locked == locked > 0

Expected(form) == IF form = "secret" THEN pairing_hash ELSE manual_pairing_hash

\* Does a secret of generation g, in this form, match?  g = NoSecret is a guess.
Matches(form, g) == g # NoSecret /\ Expected(form) = g

FaultyRecordFailure ==
  IF failed_pairings + 1 > MaxPairFailures
  THEN failed_pairings' = 0 /\ locked' = PairLockout
  ELSE failed_pairings' = failed_pairings + 1 /\ UNCHANGED locked

RecordFailure ==
  IF failed_pairings + 1 >= MaxPairFailures
  THEN failed_pairings' = 0 /\ locked' = PairLockout
  ELSE failed_pairings' = failed_pairings + 1 /\ UNCHANGED locked

FaultyConsumePairing(form) ==
  /\ pairing_hash' = IF form = "secret" THEN NoSecret ELSE pairing_hash
  /\ manual_pairing_hash' = IF form = "manual" THEN NoSecret ELSE manual_pairing_hash
  /\ failed_pairings' = 0

\* Either representation consumes both.
ConsumePairing(form) ==
  /\ pairing_hash' = NoSecret
  /\ manual_pairing_hash' = NoSecret
  /\ failed_pairings' = 0

NewGuess ==
  [age |-> 0, nth |-> Cardinality({guess \in guesses : guess.age = 0}) + 1]

(***************************************************************************)
(* exchange_pairing.  While the lockout runs it only answers an error.     *)
(***************************************************************************)
ExchangeRejected(form, g) ==
  /\ ~Locked
  /\ ~Matches(form, g)
  /\ RecordFailure
  /\ guesses' = guesses \cup {NewGuess}
  /\ UNCHANGED <<secretVars, sessions, tickets, rotation, contexts, minted,
                 claimant, spent>>

ExchangeGranted(form, g) ==
  /\ ~Locked
  /\ Matches(form, g)
  /\ minted.clients < MaxClients
  /\ ConsumePairing(form)
  /\ LET client == minted.clients + 1 IN
       /\ minted' = [minted EXCEPT !.clients = client]
       /\ claimant' = client
       /\ sessions' = sessions \cup
            {[client |-> client, generation |-> generation, left |-> AuthTTL]}
  /\ guesses' = NoGuesses
  /\ UNCHANGED <<generation, pairing_file, locked, tickets, rotation, contexts,
                 spent>>

\* The CSPRNG fails after the hashes are gone: the pairing is used up and
\* nobody holds a session.
ExchangeSquandered(form, g) ==
  /\ ~Locked
  /\ Matches(form, g)
  /\ ConsumePairing(form)
  /\ guesses' = NoGuesses
  /\ UNCHANGED <<generation, pairing_file, locked, sessions, tickets, rotation,
                 contexts, minted, claimant, spent>>

(***************************************************************************)
(* Requests of a controller.                                               *)
(***************************************************************************)
KeepContext(client, g) ==
  /\ Cardinality(contexts) < MaxContexts
  /\ contexts' = contexts \cup {[client |-> client, generation |-> g]}

\* authenticate with the cookie of a live session.
Authenticate(s) ==
  /\ s \in Live(sessions)
  /\ PruneExpired
  /\ KeepContext(s.client, s.generation)
  /\ UNCHANGED <<secretVars, guessVars, rotation, minted, claimant, spent>>

\* Every call that only prunes: authenticate with a dead cookie or a wrong
\* CSRF token, validate_context, a refused issue_ticket, and the watchdog's
\* pairing_recovery_required.
Prune ==
  /\ PruneExpired
  /\ UNCHANGED <<secretVars, guessVars, rotation, contexts, minted, claimant,
                 spent>>

NewTicket(ctx, purpose) ==
  [serial |-> minted.tickets + 1, client |-> ctx.client,
   generation |-> generation, left |-> TicketTTL, purpose |-> purpose]

\* issue_ticket: the context was authenticated before an await, so it is
\* judged again here.
IssueTicket(ctx, purpose) ==
  /\ ctx \in contexts
  /\ Authorised(ctx)
  /\ minted.tickets < MaxTickets
  /\ minted' = [minted EXCEPT !.tickets = @ + 1]
  /\ sessions' = Live(sessions)
  /\ tickets' = Live(tickets) \cup {NewTicket(ctx, purpose)}
  /\ UNCHANGED <<secretVars, guessVars, rotation, contexts, claimant, spent>>

Redeemable(t, purpose) ==
  t.left > 0 /\ t.generation = generation /\ t.purpose = purpose

FaultyTake(t, purpose) ==
  tickets' = IF Redeemable(t, purpose) THEN tickets \ {t} ELSE tickets

\* consume_ticket removes before it judges.
Take(t, purpose) == tickets' = tickets \ {t}

ConsumeTicket(t, purpose) ==
  /\ t \in tickets
  /\ Take(t, purpose)
  /\ spent' = spent \cup {t.serial}
  /\ IF Redeemable(t, purpose)
     THEN KeepContext(t.client, t.generation)
     ELSE UNCHANGED contexts
  /\ UNCHANGED <<secretVars, guessVars, sessions, rotation, minted, claimant>>

\* A request answers and drops its context.
FinishRequest(ctx) ==
  /\ ctx \in contexts
  /\ contexts' = contexts \ {ctx}
  /\ UNCHANGED <<secretVars, guessVars, sessions, tickets, rotation, minted,
                 claimant, spent>>

(***************************************************************************)
(* Burn and recovery: revoke_all, rotate_pairing, write_pairing_file.  The *)
(* lifecycle mutex admits one at a time.                                   *)
(***************************************************************************)
RevokeAll ==
  /\ rotation = "none"
  /\ generation < MaxGeneration
  /\ rotation' = "revoked"
  /\ sessions' = {} /\ tickets' = {}
  /\ UNCHANGED <<secretVars, guessVars, contexts, minted, claimant, spent>>

FaultyNextGeneration == generation
NextGeneration == generation + 1

RotatePairing ==
  /\ rotation = "revoked"
  /\ rotation' = "rotated"
  /\ generation' = NextGeneration
  /\ pairing_hash' = NextGeneration
  /\ manual_pairing_hash' = NextGeneration
  /\ sessions' = {} /\ tickets' = {}
  /\ failed_pairings' = 0 /\ locked' = 0 /\ guesses' = NoGuesses
  /\ claimant' = NoClient
  /\ UNCHANGED <<pairing_file, contexts, minted, spent>>

\* The CSPRNG fails before anything is changed.
RotateFailed ==
  /\ rotation = "revoked"
  /\ rotation' = "none"
  /\ UNCHANGED <<secretVars, guessVars, sessions, tickets, contexts, minted,
                 claimant, spent>>

WritePairingFile ==
  /\ rotation = "rotated"
  /\ rotation' = "none"
  /\ pairing_file' = generation
  /\ UNCHANGED <<generation, pairing_hash, manual_pairing_hash, guessVars,
                 sessions, tickets, contexts, minted, claimant, spent>>

FaultyWithdraw == UNCHANGED <<pairing_hash, manual_pairing_hash>>
Withdraw == pairing_hash' = NoSecret /\ manual_pairing_hash' = NoSecret

\* The file could not be published: the fresh secret is withdrawn.
InvalidateUnpublishedPairing ==
  /\ rotation = "rotated"
  /\ rotation' = "none"
  /\ Withdraw
  /\ sessions' = {} /\ tickets' = {}
  /\ UNCHANGED <<generation, pairing_file, guessVars, contexts, minted,
                 claimant, spent>>

(***************************************************************************)
(* Time.                                                                   *)
(***************************************************************************)
Aged(S) == {[x EXCEPT !.left = IF @ > 0 THEN @ - 1 ELSE 0] : x \in S}

\* Guesses are remembered for as long as a lockout lasts.
Remembered == {guess \in guesses : guess.age + 1 < PairLockout}
Older(guess) == [guess EXCEPT !.age = @ + 1]

Tick ==
  /\ sessions' = Aged(sessions)
  /\ tickets' = Aged(tickets)
  /\ locked' = IF locked > 0 THEN locked - 1 ELSE 0
  /\ guesses' = {Older(guess) : guess \in Remembered}
  /\ UNCHANGED <<secretVars, failed_pairings, rotation, contexts, minted,
                 claimant, spent>>

\* A secret becomes known to clients through the handoff file only.
Known == 0 .. pairing_file

Next ==
  \/ \E form \in Forms, g \in Known :
        \/ ExchangeRejected(form, g)
        \/ ExchangeGranted(form, g)
        \/ ExchangeSquandered(form, g)
  \/ \E s \in sessions : Authenticate(s)
  \/ Prune
  \/ \E ctx \in contexts, purpose \in Purposes : IssueTicket(ctx, purpose)
  \/ \E t \in tickets, purpose \in Purposes : ConsumeTicket(t, purpose)
  \/ \E ctx \in contexts : FinishRequest(ctx)
  \/ RevokeAll \/ RotatePairing \/ RotateFailed
  \/ WritePairingFile \/ InvalidateUnpublishedPairing
  \/ Tick

Spec == Init /\ [][Next]_vars

(***************************************************************************)
(* Properties.                                                             *)
(***************************************************************************)
Offered == pairing_hash # NoSecret \/ manual_pairing_hash # NoSecret

\* Pairing is exclusive: while a secret can still be exchanged nobody has a
\* session or a ticket, and never do two sessions exist.  This is what makes
\* the two accepted representations one secret (exchange_pairing).
SingleController ==
  /\ Offered => sessions = {} /\ tickets = {}
  /\ \A s, t \in sessions : s = t

\* Every credential that the current generation would still accept (cookie,
\* ticket, or the context of a request that authenticated earlier and was
\* overtaken by a burn) belongs to the client that paired in it.
CredentialsBelongToClaimant ==
  \A x \in sessions \cup tickets \cup contexts :
    x.generation = generation => x.client = claimant /\ claimant # NoClient

\* Whatever the order of guesses, lockouts and their ends, no window of
\* PairLockout ticks sees more than MaxPairFailures guesses judged against
\* one secret.
GuessRateBounded == Cardinality(guesses) <= MaxPairFailures

\* Except between a rotation and its publication, a secret that is still open
\* is the one the root-only handoff file shows: a failed publication never
\* leaves the appliance waiting for a secret nobody can read.
OfferedSecretIsPublished ==
  rotation # "rotated" /\ Offered =>
    /\ pairing_file = generation
    /\ pairing_hash = generation
    /\ manual_pairing_hash = generation

\* Presenting a ticket destroys it, for whatever purpose it was presented and
\* whatever the answer was.
NoTicketReplay == \A t \in tickets : t.serial \notin spent

\* The lease that AuthLease speaks of, seen through the sessions that would authenticate.
Owners == {s.client : s \in Live(sessions)}

stageBar == IF Owners # {} THEN "owned"
            ELSE IF Offered THEN "offered" ELSE "orphaned"
ownerBar == IF Owners # {} THEN CHOOSE c \in Owners : TRUE ELSE NoClient

Lease == INSTANCE AuthLease WITH epoch <- generation, stage <- stageBar,
                                 owner <- ownerBar

\* AuthManager implements the abstract lease: a client owns the appliance
\* only by consuming the open pairing, and an epoch that was consumed, lost
\* or revoked is never offered again.
ImplementsLease == Lease!LeaseSpec
=============================================================================
