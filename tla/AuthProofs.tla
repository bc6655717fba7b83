----------------------------- MODULE AuthProofs -----------------------------
(***************************************************************************)
(* The invariants of Auth and its implementation of AuthLease, for every   *)
(* value of the constants.                                                 *)
(***************************************************************************)
EXTENDS Auth, FiniteSetTheorems, TLAPS

\* The two hashes live and die together, and name the current generation.
SecretsAgree ==
  /\ manual_pairing_hash = pairing_hash
  /\ pairing_hash \in {NoSecret, generation}
  /\ pairing_file <= generation
  /\ rotation # "rotated" /\ pairing_hash # NoSecret => pairing_file = generation

\* An open pairing has no claimant; what was handed out is the claimant's.
ClaimInv ==
  /\ pairing_hash # NoSecret => claimant = NoClient
  /\ \A s, t \in sessions : s = t
  /\ \A x \in sessions \cup tickets :
       x.generation = generation /\ x.client = claimant /\ claimant # NoClient
  /\ \A x \in contexts :
       /\ x.generation <= generation
       /\ x.generation = generation => x.client = claimant /\ claimant # NoClient

\* Serials are minted once and leave the table when they are presented.
SerialInv ==
  /\ \A n \in spent : n <= minted.tickets
  /\ \A t \in tickets : t.serial <= minted.tickets /\ t.serial \notin spent
  /\ \A t, u \in tickets : t.serial = u.serial => t = u

\* Since the counter was reset it has counted every guess still remembered, and a
\* lockout lasts until those that brought it about are forgotten.
GuessInv ==
  /\ locked = 0 => Cardinality(guesses) <= failed_pairings
  /\ locked > 0 => /\ Cardinality(guesses) <= MaxPairFailures
                   /\ \A guess \in guesses : guess.age + locked >= PairLockout

IInv == TypeOK /\ SecretsAgree /\ ClaimInv /\ SerialInv /\ GuessInv

-----------------------------------------------------------------------------
LEMMA SessionAged ==
  ASSUME NEW s \in Session
  PROVE  LET a == [s EXCEPT !.left = IF @ > 0 THEN @ - 1 ELSE 0]
         IN  a \in Session /\ a.client = s.client /\ a.generation = s.generation
  BY DEF Session

LEMMA TicketAged ==
  ASSUME NEW t \in Ticket
  PROVE  LET a == [t EXCEPT !.left = IF @ > 0 THEN @ - 1 ELSE 0]
         IN  /\ a \in Ticket /\ a.serial = t.serial
             /\ a.client = t.client /\ a.generation = t.generation
  BY DEF Ticket

LEMMA TicketMinted ==
  ASSUME minted \in [clients : Nat, tickets : Nat]
  PROVE  [minted EXCEPT !.tickets = @ + 1] \in [clients : Nat, tickets : Nat]
  OBVIOUS

LEMMA NewTicketType ==
  ASSUME minted.tickets \in Nat, generation \in Nat,
         NEW ctx, ctx.client \in Nat, NEW purpose \in Purposes
  PROVE  NewTicket(ctx, purpose) \in Ticket
  BY AuthAssumption DEF NewTicket, Ticket

LEMMA LiveSubset == ASSUME NEW S PROVE Live(S) \subseteq S
  BY DEF Live

\* A guess is one more; when the others have become older, there are not more of them.
LEMMA GuessAdded ==
  ASSUME TypeOK
  PROVE  /\ guesses \cup {NewGuess} \subseteq Guess /\ IsFiniteSet(guesses \cup {NewGuess})
         /\ Cardinality(guesses \cup {NewGuess}) <= Cardinality(guesses) + 1
         /\ Cardinality(guesses) \in Nat
<1> DEFINE now == {guess \in guesses : guess.age = 0}
           new == NewGuess
<1>1. IsFiniteSet(guesses) /\ guesses \subseteq Guess
  BY DEF TypeOK
<1>2. Cardinality(guesses) \in Nat
  BY <1>1, FS_CardinalityType
<1>3. Cardinality(now) \in Nat
  <2>1. now \in SUBSET guesses
    OBVIOUS
  <2>2. IsFiniteSet(now)
    BY <1>1, <2>1, FS_Subset
  <2>3. QED
    BY <2>2, FS_CardinalityType
<1>4. new \in Guess
  BY <1>3, AuthAssumption DEF NewGuess, Guess
<1> HIDE DEF new
<1>5. IsFiniteSet(guesses \cup {new})
      /\ Cardinality(guesses \cup {new}) =
           IF new \in guesses THEN Cardinality(guesses) ELSE Cardinality(guesses) + 1
  BY <1>1, FS_AddElement
<1>6. QED
  BY <1>1, <1>2, <1>4, <1>5 DEF new

LEMMA GuessesAged ==
  ASSUME TypeOK
  PROVE  LET aged == {Older(guess) : guess \in Remembered}
         IN  /\ aged \subseteq Guess /\ IsFiniteSet(aged)
             /\ Cardinality(aged) <= Cardinality(guesses)
             /\ Cardinality(aged) \in Nat /\ Cardinality(guesses) \in Nat
<1> DEFINE aged == {Older(guess) : guess \in Remembered}
           f == [guess \in Remembered |-> Older(guess)]
<1>1. IsFiniteSet(guesses) /\ guesses \subseteq Guess /\ Remembered \in SUBSET guesses
  BY DEF TypeOK, Remembered
<1>2. IsFiniteSet(Remembered) /\ Cardinality(Remembered) <= Cardinality(guesses)
  BY <1>1, FS_Subset
<1>3. aged \subseteq Guess
  BY <1>1, AuthAssumption DEF Older, Remembered, Guess
<1>4. f \in Surjection(Remembered, aged)
  BY DEF Surjection
<1> HIDE DEF f, aged
<1>5. IsFiniteSet(aged) /\ Cardinality(aged) <= Cardinality(Remembered)
  BY <1>2, <1>4, FS_Surjection
<1>6. /\ Cardinality(aged) \in Nat /\ Cardinality(Remembered) \in Nat
      /\ Cardinality(guesses) \in Nat
  BY <1>1, <1>2, <1>5, FS_CardinalityType
<1>7. QED
  BY <1>2, <1>3, <1>5, <1>6 DEF aged

LEMMA NoGuessesTyped ==
  NoGuesses \subseteq Guess /\ IsFiniteSet(NoGuesses) /\ Cardinality(NoGuesses) = 0
  BY FS_EmptySet DEF NoGuesses

\* The initial state satisfies the invariant.
LEMMA InitInv == Init => IInv
  BY AuthAssumption, NoGuessesTyped
     DEF Init, GuessInv, IInv, TypeOK, SecretsAgree, ClaimInv, SerialInv,
         Session, Ticket, Context, NoSecret, NoClient

\* Type correctness is preserved by every step.
LEMMA TypeStep == TypeOK /\ [Next]_vars => TypeOK'
<1> SUFFICES ASSUME TypeOK, [Next]_vars PROVE TypeOK'
  OBVIOUS
<1> USE AuthAssumption DEF TypeOK, NoSecret, NoClient, secretVars, guessVars
<1>1. ASSUME NEW form \in Forms, NEW g \in Known, ExchangeRejected(form, g)
      PROVE  TypeOK'
  BY <1>1, GuessAdded DEF ExchangeRejected, RecordFailure
<1>2. ASSUME NEW form \in Forms, NEW g \in Known, ExchangeGranted(form, g)
      PROVE  TypeOK'
  <2>1. minted.clients + 1 \in Nat
    OBVIOUS
  <2>2. [client |-> minted.clients + 1, generation |-> generation, left |-> AuthTTL]
          \in Session
    BY <2>1 DEF Session
  <2>3. minted' \in [clients : Nat, tickets : Nat]
    BY <1>2, <2>1 DEF ExchangeGranted
  <2>4. sessions' \subseteq Session /\ claimant' \in Nat
    BY <1>2, <2>1, <2>2 DEF ExchangeGranted
  <2>5. guesses' \subseteq Guess /\ IsFiniteSet(guesses')
    BY <1>2, NoGuessesTyped DEF ExchangeGranted
  <2>6. pairing_hash' \in Nat /\ manual_pairing_hash' \in Nat
          /\ failed_pairings' \in 0 .. MaxPairFailures - 1
    BY <1>2 DEF ExchangeGranted, ConsumePairing
  <2>7. UNCHANGED <<generation, pairing_file, locked, tickets, rotation, contexts, spent>>
    BY <1>2 DEF ExchangeGranted
  <2>8. QED
    BY <2>3, <2>4, <2>5, <2>6, <2>7
<1>3. ASSUME NEW form \in Forms, NEW g \in Known, ExchangeSquandered(form, g)
      PROVE  TypeOK'
  BY <1>3, NoGuessesTyped DEF ExchangeSquandered, ConsumePairing
<1>4. ASSUME NEW s \in sessions, Authenticate(s) PROVE TypeOK'
  BY <1>4, LiveSubset DEF Authenticate, PruneExpired, KeepContext, Session, Context
<1>5. CASE Prune
  BY <1>5, LiveSubset DEF Prune, PruneExpired
<1>6. ASSUME NEW ctx \in contexts, NEW purpose \in Purposes, IssueTicket(ctx, purpose)
      PROVE  TypeOK'
  <2>1. NewTicket(ctx, purpose) \in Ticket
    <3>1. ctx.client \in Nat
      BY DEF Context
    <3>2. minted.tickets \in Nat
      OBVIOUS
    <3>3. QED
      BY <3>1, <3>2, NewTicketType
  <2>2. minted' \in [clients : Nat, tickets : Nat]
    <3>1. minted' = [minted EXCEPT !.tickets = @ + 1]
      BY <1>6 DEF IssueTicket
    <3>2. QED
      BY <3>1, TicketMinted
  <2>3. sessions' \subseteq Session /\ tickets' \subseteq Ticket
    BY <1>6, <2>1, LiveSubset DEF IssueTicket
  <2>4. UNCHANGED <<secretVars, guessVars, rotation, contexts, claimant, spent>>
    BY <1>6 DEF IssueTicket
  <2>5. QED
    BY <2>2, <2>3, <2>4
<1>7. ASSUME NEW t \in tickets, NEW purpose \in Purposes, ConsumeTicket(t, purpose)
      PROVE  TypeOK'
  <2>1. t.serial \in Nat /\ [client |-> t.client, generation |-> t.generation] \in Context
    BY DEF Ticket, Context
  <2>2. contexts' \subseteq Context
    BY <1>7, <2>1 DEF ConsumeTicket, KeepContext
  <2>3. spent' \subseteq Nat /\ tickets' \subseteq Ticket
    BY <1>7, <2>1 DEF ConsumeTicket, Take
  <2>4. UNCHANGED <<secretVars, guessVars, sessions, rotation, minted, claimant>>
    BY <1>7 DEF ConsumeTicket
  <2>5. QED
    BY <2>2, <2>3, <2>4
<1>8. ASSUME NEW ctx \in contexts, FinishRequest(ctx) PROVE TypeOK'
  BY <1>8 DEF FinishRequest
<1>9. CASE RevokeAll
  BY <1>9 DEF RevokeAll
<1>10. CASE RotatePairing
  BY <1>10, NoGuessesTyped DEF RotatePairing, NextGeneration
<1>11. CASE RotateFailed
  BY <1>11 DEF RotateFailed
<1>12. CASE WritePairingFile
  BY <1>12 DEF WritePairingFile
<1>13. CASE InvalidateUnpublishedPairing
  BY <1>13 DEF InvalidateUnpublishedPairing, Withdraw
<1>14. CASE Tick
  <2>1. Aged(sessions) \subseteq Session
    BY SessionAged DEF Aged
  <2>2. Aged(tickets) \subseteq Ticket
    BY TicketAged DEF Aged
  <2>3. guesses' \subseteq Guess /\ IsFiniteSet(guesses')
    BY <1>14, GuessesAged DEF Tick
  <2>4. QED
    BY <1>14, <2>1, <2>2, <2>3 DEF Tick
<1>15. CASE UNCHANGED vars
  BY <1>15 DEF vars
<1>16. QED
  BY <1>1, <1>2, <1>3, <1>4, <1>5, <1>6, <1>7, <1>8, <1>9, <1>10, <1>11, <1>12,
     <1>13, <1>14, <1>15 DEF Next

\* Every variable keeps its type, whatever the bounds and lifetimes are.
THEOREM TypeCorrect == Spec => []TypeOK
<1>1. Init => TypeOK
  BY InitInv DEF IInv
<1>2. QED
  BY <1>1, TypeStep, PTL DEF Spec

-----------------------------------------------------------------------------
(***************************************************************************)
(* The inductive invariant: one lemma per part, one step per action.       *)
(***************************************************************************)

\* The hashes move together, and only a published generation stays open.
LEMMA SecretsStep == IInv /\ [Next]_vars => SecretsAgree'
<1> SUFFICES ASSUME IInv, [Next]_vars PROVE SecretsAgree'
  OBVIOUS
<1> USE DEF IInv, TypeOK, SecretsAgree, NoSecret, secretVars
<1>1. ASSUME NEW form \in Forms, NEW g \in Known, ExchangeRejected(form, g)
      PROVE  SecretsAgree'
  BY <1>1 DEF ExchangeRejected
<1>2. ASSUME NEW form \in Forms, NEW g \in Known, ExchangeGranted(form, g)
      PROVE  SecretsAgree'
  BY <1>2 DEF ExchangeGranted, ConsumePairing
<1>3. ASSUME NEW form \in Forms, NEW g \in Known, ExchangeSquandered(form, g)
      PROVE  SecretsAgree'
  BY <1>3 DEF ExchangeSquandered, ConsumePairing
<1>4. ASSUME NEW s \in sessions, Authenticate(s) PROVE SecretsAgree'
  BY <1>4 DEF Authenticate
<1>5. CASE Prune
  BY <1>5 DEF Prune
<1>6. ASSUME NEW ctx \in contexts, NEW purpose \in Purposes, IssueTicket(ctx, purpose)
      PROVE  SecretsAgree'
  BY <1>6 DEF IssueTicket
<1>7. ASSUME NEW t \in tickets, NEW purpose \in Purposes, ConsumeTicket(t, purpose)
      PROVE  SecretsAgree'
  BY <1>7 DEF ConsumeTicket
<1>8. ASSUME NEW ctx \in contexts, FinishRequest(ctx) PROVE SecretsAgree'
  BY <1>8 DEF FinishRequest
<1>9. CASE RevokeAll
  BY <1>9 DEF RevokeAll
<1>10. CASE RotatePairing
  BY <1>10 DEF RotatePairing, NextGeneration
<1>11. CASE RotateFailed
  BY <1>11 DEF RotateFailed
<1>12. CASE WritePairingFile
  BY <1>12 DEF WritePairingFile
<1>13. CASE InvalidateUnpublishedPairing
  BY <1>13 DEF InvalidateUnpublishedPairing, Withdraw
<1>14. CASE Tick
  BY <1>14 DEF Tick
<1>15. CASE UNCHANGED vars
  BY <1>15 DEF vars
<1>16. QED
  BY <1>1, <1>2, <1>3, <1>4, <1>5, <1>6, <1>7, <1>8, <1>9, <1>10, <1>11, <1>12,
     <1>13, <1>14, <1>15 DEF Next

\* Credentials belong to the claimant; contexts of older generations are inert.
LEMMA ClaimStep == IInv /\ [Next]_vars => ClaimInv'
<1> SUFFICES ASSUME IInv, [Next]_vars PROVE ClaimInv'
  OBVIOUS
<1> USE DEF IInv, SecretsAgree, ClaimInv, NoSecret, NoClient, secretVars
<1>1. ASSUME NEW form \in Forms, NEW g \in Known, ExchangeRejected(form, g)
      PROVE  ClaimInv'
  BY <1>1 DEF ExchangeRejected
<1>2. ASSUME NEW form \in Forms, NEW g \in Known, ExchangeGranted(form, g)
      PROVE  ClaimInv'
  <2> DEFINE client == minted.clients + 1
             session == [client |-> client, generation |-> generation, left |-> AuthTTL]
  <2>1. pairing_hash # NoSecret /\ claimant = NoClient
    BY <1>2 DEF ExchangeGranted, Matches, Expected
  <2>2. sessions = {} /\ tickets = {}
    BY <2>1
  <2>3. \A x \in contexts : x.generation <= generation /\ x.generation # generation
    BY <2>1
  <2>4. client # NoClient
    BY DEF TypeOK
  <2>5. /\ sessions' = {session} /\ tickets' = {} /\ contexts' = contexts
        /\ claimant' = client /\ generation' = generation /\ pairing_hash' = NoSecret
    BY <1>2, <2>2 DEF ExchangeGranted, ConsumePairing
  <2>6. session.client = client /\ session.generation = generation
    OBVIOUS
  <2>7. QED
    BY <2>3, <2>4, <2>5, <2>6
<1>3. ASSUME NEW form \in Forms, NEW g \in Known, ExchangeSquandered(form, g)
      PROVE  ClaimInv'
  BY <1>3 DEF ExchangeSquandered, ConsumePairing
<1>4. ASSUME NEW s \in sessions, Authenticate(s) PROVE ClaimInv'
  <2> DEFINE ctx == [client |-> s.client, generation |-> s.generation]
  <2>1. ctx.generation = generation /\ ctx.client = claimant /\ claimant # NoClient
    OBVIOUS
  <2>2. /\ sessions' \subseteq sessions /\ tickets' \subseteq tickets
        /\ contexts' \subseteq contexts \cup {ctx}
        /\ UNCHANGED <<generation, pairing_hash, claimant>>
    BY <1>4, LiveSubset DEF Authenticate, PruneExpired, KeepContext
  <2>3. generation <= generation
    BY DEF TypeOK
  <2>4. QED
    BY <2>1, <2>2, <2>3
<1>5. CASE Prune
  BY <1>5, LiveSubset DEF Prune, PruneExpired
<1>6. ASSUME NEW ctx \in contexts, NEW purpose \in Purposes, IssueTicket(ctx, purpose)
      PROVE  ClaimInv'
  <2> DEFINE t == NewTicket(ctx, purpose)
  <2>1. ctx.generation = generation /\ ctx.client = claimant /\ claimant # NoClient
    BY <1>6 DEF IssueTicket, Authorised
  <2>2. t.generation = generation /\ t.client = claimant
    BY <2>1 DEF NewTicket
  <2>3. /\ sessions' \subseteq sessions
        /\ tickets' \subseteq tickets \cup {t}
        /\ UNCHANGED <<generation, pairing_hash, contexts, claimant>>
    BY <1>6, LiveSubset DEF IssueTicket
  <2>4. QED
    BY <2>1, <2>2, <2>3
<1>7. ASSUME NEW t \in tickets, NEW purpose \in Purposes, ConsumeTicket(t, purpose)
      PROVE  ClaimInv'
  <2> DEFINE ctx == [client |-> t.client, generation |-> t.generation]
  <2>1. ctx.generation = generation /\ ctx.client = claimant /\ claimant # NoClient
    OBVIOUS
  <2>2. /\ tickets' \subseteq tickets /\ contexts' \subseteq contexts \cup {ctx}
        /\ UNCHANGED <<generation, pairing_hash, sessions, claimant>>
    BY <1>7 DEF ConsumeTicket, Take, KeepContext
  <2>3. generation <= generation
    BY DEF TypeOK
  <2>4. QED
    BY <2>1, <2>2, <2>3
<1>8. ASSUME NEW ctx \in contexts, FinishRequest(ctx) PROVE ClaimInv'
  BY <1>8 DEF FinishRequest
<1>9. CASE RevokeAll
  BY <1>9 DEF RevokeAll
<1>10. CASE RotatePairing
  <2>1. /\ generation' = generation + 1 /\ claimant' = NoClient
        /\ sessions' = {} /\ tickets' = {} /\ contexts' = contexts
    BY <1>10 DEF RotatePairing, NextGeneration
  <2>2. \A x \in contexts : x.generation <= generation' /\ x.generation # generation'
    BY <2>1 DEF TypeOK, Context
  <2>3. QED
    BY <2>1, <2>2
<1>11. CASE RotateFailed
  BY <1>11 DEF RotateFailed
<1>12. CASE WritePairingFile
  BY <1>12 DEF WritePairingFile
<1>13. CASE InvalidateUnpublishedPairing
  BY <1>13 DEF InvalidateUnpublishedPairing, Withdraw
<1>14. CASE Tick
  <2>1. \A x \in sessions' \cup tickets' :
          \E y \in sessions \cup tickets :
             x.generation = y.generation /\ x.client = y.client
    <3>1. \A x \in sessions' : \E y \in sessions :
             x.generation = y.generation /\ x.client = y.client
      BY <1>14, SessionAged DEF Tick, Aged, TypeOK
    <3>2. \A x \in tickets' : \E y \in tickets :
             x.generation = y.generation /\ x.client = y.client
      BY <1>14, TicketAged DEF Tick, Aged, TypeOK
    <3>3. QED
      BY <3>1, <3>2
  <2>2. \A s, t \in sessions' : s = t
    BY <1>14 DEF Tick, Aged
  <2>3. UNCHANGED <<generation, pairing_hash, contexts, claimant>>
    BY <1>14 DEF Tick
  <2>4. QED
    BY <2>1, <2>2, <2>3
<1>15. CASE UNCHANGED vars
  BY <1>15 DEF vars
<1>16. QED
  BY <1>1, <1>2, <1>3, <1>4, <1>5, <1>6, <1>7, <1>8, <1>9, <1>10, <1>11, <1>12,
     <1>13, <1>14, <1>15 DEF Next

\* A serial is presented at most once.
LEMMA SerialStep == IInv /\ [Next]_vars => SerialInv'
<1> SUFFICES ASSUME IInv, [Next]_vars PROVE SerialInv'
  OBVIOUS
<1> USE DEF IInv, SerialInv
<1>1. ASSUME NEW form \in Forms, NEW g \in Known, ExchangeRejected(form, g)
      PROVE  SerialInv'
  BY <1>1 DEF ExchangeRejected
<1>2. ASSUME NEW form \in Forms, NEW g \in Known, ExchangeGranted(form, g)
      PROVE  SerialInv'
  <2>1. minted'.tickets = minted.tickets
    BY <1>2 DEF ExchangeGranted, TypeOK
  <2>2. UNCHANGED <<tickets, spent>>
    BY <1>2 DEF ExchangeGranted
  <2>3. QED
    BY <2>1, <2>2
<1>3. ASSUME NEW form \in Forms, NEW g \in Known, ExchangeSquandered(form, g)
      PROVE  SerialInv'
  BY <1>3 DEF ExchangeSquandered
<1>4. ASSUME NEW s \in sessions, Authenticate(s) PROVE SerialInv'
  BY <1>4, LiveSubset DEF Authenticate, PruneExpired
<1>5. CASE Prune
  BY <1>5, LiveSubset DEF Prune, PruneExpired
<1>6. ASSUME NEW ctx \in contexts, NEW purpose \in Purposes, IssueTicket(ctx, purpose)
      PROVE  SerialInv'
  <2> DEFINE new == NewTicket(ctx, purpose)
  <2>1. new.serial = minted.tickets + 1 /\ minted'.tickets = minted.tickets + 1
    BY <1>6 DEF IssueTicket, NewTicket, TypeOK
  <2>2. tickets' \subseteq tickets \cup {new} /\ UNCHANGED spent
    BY <1>6, LiveSubset DEF IssueTicket
  <2>3. minted.tickets \in Nat /\ spent \subseteq Nat
    BY DEF TypeOK
  <2>4. \A t \in tickets : t.serial \in Nat
    BY DEF TypeOK, Ticket
  <2>5. \A n \in spent : n <= minted.tickets + 1 /\ n # minted.tickets + 1
    BY <2>3
  <2>6. \A t \in tickets : t.serial <= minted.tickets + 1 /\ t.serial # minted.tickets + 1
    BY <2>3, <2>4
  <2>7. QED
    BY <2>1, <2>2, <2>3, <2>5, <2>6
<1>7. ASSUME NEW t \in tickets, NEW purpose \in Purposes, ConsumeTicket(t, purpose)
      PROVE  SerialInv'
  <2>1. /\ tickets' = tickets \ {t} /\ spent' = spent \cup {t.serial}
        /\ UNCHANGED minted
    BY <1>7 DEF ConsumeTicket, Take
  <2>2. QED
    BY <2>1
<1>8. ASSUME NEW ctx \in contexts, FinishRequest(ctx) PROVE SerialInv'
  BY <1>8 DEF FinishRequest
<1>9. CASE RevokeAll
  BY <1>9 DEF RevokeAll
<1>10. CASE RotatePairing
  BY <1>10 DEF RotatePairing
<1>11. CASE RotateFailed
  BY <1>11 DEF RotateFailed
<1>12. CASE WritePairingFile
  BY <1>12 DEF WritePairingFile
<1>13. CASE InvalidateUnpublishedPairing
  BY <1>13 DEF InvalidateUnpublishedPairing
<1>14. CASE Tick
  <2>1. \A x \in tickets' : \E y \in tickets :
          /\ x.serial = y.serial
          /\ x = [y EXCEPT !.left = IF @ > 0 THEN @ - 1 ELSE 0]
    BY <1>14, TicketAged DEF Tick, Aged, TypeOK
  <2>2. UNCHANGED <<minted, spent>>
    BY <1>14 DEF Tick
  <2>3. QED
    BY <2>1, <2>2
<1>15. CASE UNCHANGED vars
  BY <1>15 DEF vars
<1>16. QED
  BY <1>1, <1>2, <1>3, <1>4, <1>5, <1>6, <1>7, <1>8, <1>9, <1>10, <1>11, <1>12,
     <1>13, <1>14, <1>15 DEF Next

\* No guess escapes the counter, and none outlives the lockout it led to.
LEMMA GuessStep == IInv /\ [Next]_vars => GuessInv'
<1> SUFFICES ASSUME IInv, [Next]_vars PROVE GuessInv'
  OBVIOUS
<1>1. ASSUME NEW form \in Forms, NEW g \in Known, ExchangeRejected(form, g)
      PROVE  GuessInv'
  <2>1. /\ locked = 0 /\ Cardinality(guesses) <= failed_pairings
        /\ failed_pairings \in 0 .. MaxPairFailures - 1
    BY <1>1 DEF ExchangeRejected, Locked, IInv, TypeOK, GuessInv
  <2>2. /\ guesses' = guesses \cup {NewGuess} /\ guesses' \subseteq Guess
        /\ Cardinality(guesses') <= Cardinality(guesses) + 1
        /\ Cardinality(guesses) \in Nat /\ Cardinality(guesses') \in Nat
    <3>1. guesses' = guesses \cup {NewGuess}
      BY <1>1 DEF ExchangeRejected
    <3>2. IsFiniteSet(guesses')
      BY <3>1, GuessAdded DEF IInv
    <3>3. QED
      BY <3>1, <3>2, GuessAdded, FS_CardinalityType DEF IInv
  <2>3. \A guess \in guesses' : guess.age \in Nat
    BY <2>2, AuthAssumption DEF Guess
  <2>4. CASE failed_pairings + 1 >= MaxPairFailures
    <3>1. locked' = PairLockout
      BY <1>1, <2>4 DEF ExchangeRejected, RecordFailure
    <3>2. Cardinality(guesses') <= MaxPairFailures
      BY <2>1, <2>2, AuthAssumption
    <3>3. QED
      BY <2>3, <3>1, <3>2, AuthAssumption DEF GuessInv
  <2>5. CASE ~(failed_pairings + 1 >= MaxPairFailures)
    <3>1. locked' = 0 /\ failed_pairings' = failed_pairings + 1
      BY <1>1, <2>1, <2>5 DEF ExchangeRejected, RecordFailure
    <3>2. QED
      BY <2>1, <2>2, <3>1 DEF GuessInv
  <2>6. QED
    BY <2>4, <2>5
<1>2. ASSUME NEW form \in Forms, NEW g \in Known,
             ExchangeGranted(form, g) \/ ExchangeSquandered(form, g)
      PROVE  GuessInv'
  <2>1. guesses' = NoGuesses /\ failed_pairings' = 0 /\ locked' = locked /\ locked = 0
    BY <1>2 DEF ExchangeGranted, ExchangeSquandered, ConsumePairing, Locked, IInv, TypeOK
  <2>2. QED
    BY <2>1, NoGuessesTyped DEF GuessInv
<1>3. CASE RotatePairing
  <2>1. guesses' = NoGuesses /\ failed_pairings' = 0 /\ locked' = 0
    BY <1>3 DEF RotatePairing
  <2>2. QED
    BY <2>1, NoGuessesTyped DEF GuessInv
<1>4. CASE Tick
  <2>1. /\ guesses' = {Older(guess) : guess \in Remembered}
        /\ locked' = (IF locked > 0 THEN locked - 1 ELSE 0)
        /\ failed_pairings' = failed_pairings
    BY <1>4 DEF Tick
  <2>2. /\ Cardinality(guesses') <= Cardinality(guesses)
        /\ Cardinality(guesses) \in Nat /\ Cardinality(guesses') \in Nat
    BY <2>1, GuessesAged DEF IInv
  <2>3. /\ locked \in 0 .. PairLockout /\ failed_pairings \in 0 .. MaxPairFailures - 1
        /\ guesses \subseteq Guess
    BY DEF IInv, TypeOK
  <2>4. \A old \in guesses' : \E guess \in guesses :
           guess.age + 1 < PairLockout /\ old.age = guess.age + 1 /\ guess.age \in Nat
    BY <2>1, <2>3, AuthAssumption DEF Older, Remembered, Guess
  <2>5. CASE locked = 0
    BY <2>1, <2>2, <2>3, <2>5, AuthAssumption DEF GuessInv, IInv
  <2>6. CASE locked = 1
    <3>1. \A guess \in guesses : guess.age + 1 >= PairLockout
      BY <2>6 DEF GuessInv, IInv
    <3>2. \A guess \in guesses : guess.age \in Nat
      BY <2>3, AuthAssumption DEF Guess
    <3>3. guesses' = {}
      BY <2>4, <3>1, <3>2, AuthAssumption
    <3>4. Cardinality(guesses') = 0
      BY <3>3, FS_EmptySet
    <3>5. QED
      BY <2>1, <2>3, <2>6, <3>4, AuthAssumption DEF GuessInv
  <2>7. CASE locked > 1
    <3>1. locked' > 0 /\ locked' = locked - 1
      BY <2>1, <2>3, <2>7, AuthAssumption
    <3>2. Cardinality(guesses') <= MaxPairFailures
      BY <2>2, <2>3, <2>7, AuthAssumption DEF GuessInv, IInv
    <3>3. \A old \in guesses' : old.age + locked' >= PairLockout
      BY <2>3, <2>4, <2>7, <3>1, AuthAssumption DEF GuessInv, IInv
    <3>4. QED
      BY <2>3, <3>1, <3>2, <3>3, AuthAssumption DEF GuessInv
  <2>8. QED
    BY <2>3, <2>5, <2>6, <2>7, AuthAssumption
<1>5. CASE UNCHANGED guessVars
  BY <1>5 DEF GuessInv, IInv, guessVars
<1>6. CASE \/ \E s \in sessions : Authenticate(s)
           \/ Prune
           \/ \E ctx \in contexts, purpose \in Purposes : IssueTicket(ctx, purpose)
           \/ \E t \in tickets, purpose \in Purposes : ConsumeTicket(t, purpose)
           \/ \E ctx \in contexts : FinishRequest(ctx)
           \/ RevokeAll \/ RotateFailed
           \/ WritePairingFile \/ InvalidateUnpublishedPairing
           \/ UNCHANGED vars
  BY <1>5, <1>6
     DEF Authenticate, Prune, IssueTicket, ConsumeTicket, FinishRequest, RevokeAll,
         RotateFailed, WritePairingFile, InvalidateUnpublishedPairing, vars, guessVars
<1>7. QED
  BY <1>1, <1>2, <1>3, <1>4, <1>6 DEF Next

\* The inductive invariant holds in every behaviour of Auth.
THEOREM Invariance == Spec => []IInv
<1>1. Init => IInv
  BY InitInv
<1>2. IInv /\ [Next]_vars => IInv'
  BY TypeStep, SecretsStep, ClaimStep, SerialStep, GuessStep DEF IInv
<1>3. QED
  BY <1>1, <1>2, PTL DEF Spec

\* exchange_pairing: no window as long as a lockout sees more guesses judged
\* than the limit, whatever the order of guesses, lockouts and their ends.
THEOREM GuessesAreBounded == Spec => []GuessRateBounded
<1>1. ASSUME IInv PROVE GuessRateBounded
  <2>1. /\ locked \in 0 .. PairLockout /\ failed_pairings \in 0 .. MaxPairFailures - 1
        /\ Cardinality(guesses) \in Nat
    BY <1>1, FS_CardinalityType DEF IInv, TypeOK
  <2>2. QED
    BY <1>1, <2>1, AuthAssumption DEF IInv, GuessInv, GuessRateBounded
<1>2. QED
  BY <1>1, Invariance, PTL

\* exchange_pairing: an open secret excludes every session and ticket, and
\* two sessions never exist, although two representations are accepted.
THEOREM PairingIsExclusive == Spec => []SingleController
<1>1. IInv => SingleController
  BY DEF IInv, SecretsAgree, ClaimInv, SingleController, Offered
<1>2. QED
  BY <1>1, Invariance, PTL

\* issue_ticket, consume_ticket, rotate_pairing: no credential of an earlier
\* client survives into the generation of the next one.
THEOREM NoForeignCredential == Spec => []CredentialsBelongToClaimant
<1>1. IInv => CredentialsBelongToClaimant
  BY DEF IInv, ClaimInv, CredentialsBelongToClaimant
<1>2. QED
  BY <1>1, Invariance, PTL

\* rotate_pairing_material: an open secret can be read in the handoff file.
THEOREM OpenPairingIsReadable == Spec => []OfferedSecretIsPublished
<1>1. IInv => OfferedSecretIsPublished
  BY DEF IInv, SecretsAgree, OfferedSecretIsPublished, Offered
<1>2. QED
  BY <1>1, Invariance, PTL

\* consume_ticket: a presented ticket never serves again.
THEOREM TicketsAreOneTime == Spec => []NoTicketReplay
<1>1. IInv => NoTicketReplay
  BY DEF IInv, SerialInv, NoTicketReplay
<1>2. QED
  BY <1>1, Invariance, PTL

-----------------------------------------------------------------------------
(***************************************************************************)
(* AuthManager implements the abstract lease.                              *)
(***************************************************************************)

\* What the mapping shows in a state of the invariant.
BarFacts ==
  /\ Owners # {} => /\ ownerBar = claimant /\ stageBar = "owned"
                    /\ Owners = {claimant} /\ ~Offered
  /\ Owners = {} => /\ ownerBar = NoClient
                    /\ stageBar = IF Offered THEN "offered" ELSE "orphaned"

LEMMA MappedState == (IInv => BarFacts) /\ (IInv' => BarFacts')
<1>1. IInv => BarFacts
  <2> SUFFICES ASSUME IInv PROVE BarFacts
    OBVIOUS
  <2>1. CASE Owners = {}
    BY <2>1 DEF BarFacts, ownerBar, stageBar
  <2>2. CASE Owners # {}
    <3>1. Owners = {claimant} /\ sessions # {}
      BY <2>2 DEF Owners, Live, IInv, ClaimInv
    <3>2. ~Offered
      BY <3>1 DEF Offered, IInv, ClaimInv, SecretsAgree
    <3>3. ownerBar = claimant
      BY <3>1 DEF ownerBar
    <3>4. QED
      BY <2>2, <3>1, <3>2, <3>3 DEF BarFacts, stageBar
  <2>3. QED
    BY <2>1, <2>2
<1>2. IInv' => BarFacts'
  <2> SUFFICES ASSUME IInv' PROVE BarFacts'
    OBVIOUS
  <2>1. CASE Owners' = {}
    BY <2>1 DEF BarFacts, ownerBar, stageBar
  <2>2. CASE Owners' # {}
    <3>1. Owners' = {claimant'} /\ sessions' # {}
      BY <2>2 DEF Owners, Live, IInv, ClaimInv
    <3>2. ~Offered'
      BY <3>1 DEF Offered, IInv, ClaimInv, SecretsAgree
    <3>3. ownerBar' = claimant'
      BY <3>1 DEF ownerBar
    <3>4. QED
      BY <2>2, <3>1, <3>2, <3>3 DEF BarFacts, stageBar
  <2>3. QED
    BY <2>1, <2>2
<1>3. QED
  BY <1>1, <1>2

\* A step that keeps the claimant, the live sessions' owners and the hashes is
\* a stutter of the lease.
LEMMA LeaseStutters ==
  ASSUME BarFacts, BarFacts', Owners' = Owners, Offered' <=> Offered,
         UNCHANGED <<generation, claimant>>
  PROVE  UNCHANGED Lease!leaseVars
  BY DEF BarFacts, Lease!leaseVars

\* A step that leaves nobody an owner and nothing offered orphans the lease.
LEMMA LeaseOrphaned ==
  ASSUME BarFacts, BarFacts', Owners' = {}, ~Offered', UNCHANGED generation
  PROVE  Lease!Orphan \/ UNCHANGED Lease!leaseVars
  BY DEF BarFacts, Lease!Orphan, Lease!leaseVars

\* Pruning removes only sessions that own nothing.
LEMMA PruneKeepsOwners ==
  ASSUME sessions' = Live(sessions) \/ sessions' = sessions, UNCHANGED generation
  PROVE  Owners' = Owners
  BY DEF Owners, Live

\* Every step of AuthManager is a step of the lease or leaves it alone.
LEMMA LeaseStep ==
  IInv /\ IInv' /\ [Next]_vars => [Lease!LeaseNext]_(Lease!leaseVars)
<1> SUFFICES ASSUME IInv, IInv', [Next]_vars
             PROVE  Lease!LeaseNext \/ UNCHANGED Lease!leaseVars
  OBVIOUS
<1>b. BarFacts /\ BarFacts'
  BY MappedState
<1>s. ASSUME UNCHANGED <<generation, pairing_hash, manual_pairing_hash, claimant>>,
             sessions' = Live(sessions) \/ sessions' = sessions
      PROVE  UNCHANGED Lease!leaseVars
  <2>1. Owners' = Owners
    BY <1>s, PruneKeepsOwners
  <2>2. Offered' <=> Offered
    BY <1>s DEF Offered
  <2>3. QED
    BY <1>b, <1>s, <2>1, <2>2, LeaseStutters
<1>1. ASSUME NEW form \in Forms, NEW g \in Known, ExchangeRejected(form, g)
      PROVE  UNCHANGED Lease!leaseVars
  BY <1>1, <1>s DEF ExchangeRejected, secretVars
<1>2. ASSUME NEW form \in Forms, NEW g \in Known, ExchangeGranted(form, g)
      PROVE  Lease!LeaseNext
  <2> DEFINE client == minted.clients + 1
             session == [client |-> client, generation |-> generation, left |-> AuthTTL]
  <2>1. pairing_hash # NoSecret /\ Offered
    BY <1>2 DEF ExchangeGranted, Matches, Expected, IInv, SecretsAgree, Offered
  <2>2. sessions = {} /\ Owners = {}
    BY <2>1 DEF IInv, ClaimInv, Owners, Live
  <2>3. sessions' = {session} /\ claimant' = client /\ generation' = generation
    BY <1>2, <2>2 DEF ExchangeGranted
  <2>4. session.left > 0 /\ session.generation = generation /\ session.client = client
    BY AuthAssumption
  <2>5. Owners' # {}
    BY <2>3, <2>4 DEF Owners, Live
  <2>6. stageBar = "offered" /\ stageBar' = "owned" /\ ownerBar' = client
    BY <1>b, <2>1, <2>2, <2>3, <2>5 DEF BarFacts
  <2>7. client \in Client
    <3>1. minted.clients \in Nat
      BY DEF IInv, TypeOK
    <3>2. minted.clients < MaxClients /\ MaxClients \in Nat
      BY <1>2, AuthAssumption DEF ExchangeGranted
    <3>3. QED
      BY <3>1, <3>2 DEF Client
  <2>8. Lease!Claim(client)
    BY <2>3, <2>6 DEF Lease!Claim
  <2>9. QED
    BY <2>7, <2>8 DEF Lease!LeaseNext
<1>3. ASSUME NEW form \in Forms, NEW g \in Known, ExchangeSquandered(form, g)
      PROVE  Lease!LeaseNext \/ UNCHANGED Lease!leaseVars
  <2>1. sessions = {}
    BY <1>3 DEF ExchangeSquandered, Matches, Expected, IInv, SecretsAgree, ClaimInv
  <2>2. Owners' = {} /\ ~Offered' /\ UNCHANGED generation
    BY <1>3, <2>1 DEF ExchangeSquandered, ConsumePairing, Owners, Live, Offered
  <2>3. QED
    BY <1>b, <2>2, LeaseOrphaned DEF Lease!LeaseNext
<1>4. ASSUME NEW s \in sessions, Authenticate(s) PROVE UNCHANGED Lease!leaseVars
  BY <1>4, <1>s DEF Authenticate, PruneExpired, secretVars
<1>5. CASE Prune
  BY <1>5, <1>s DEF Prune, PruneExpired, secretVars
<1>6. ASSUME NEW ctx \in contexts, NEW purpose \in Purposes, IssueTicket(ctx, purpose)
      PROVE  UNCHANGED Lease!leaseVars
  BY <1>6, <1>s DEF IssueTicket, secretVars
<1>7. ASSUME NEW t \in tickets, NEW purpose \in Purposes, ConsumeTicket(t, purpose)
      PROVE  UNCHANGED Lease!leaseVars
  BY <1>7, <1>s DEF ConsumeTicket, secretVars
<1>8. ASSUME NEW ctx \in contexts, FinishRequest(ctx) PROVE UNCHANGED Lease!leaseVars
  BY <1>8, <1>s DEF FinishRequest, secretVars
<1>9. CASE RevokeAll
  <2>1. sessions' = {} /\ UNCHANGED <<generation, pairing_hash, manual_pairing_hash, claimant>>
    BY <1>9 DEF RevokeAll, secretVars
  <2>2. Owners' = {}
    BY <2>1 DEF Owners, Live
  <2>3. CASE Owners = {}
    <3>1. Offered' <=> Offered
      BY <2>1 DEF Offered
    <3>2. QED
      BY <1>b, <2>1, <2>2, <2>3, <3>1, LeaseStutters
  <2>4. CASE Owners # {}
    <3>1. ~Offered'
      BY <1>b, <2>1, <2>4 DEF BarFacts, Offered
    <3>2. QED
      BY <1>b, <2>1, <2>2, <3>1, LeaseOrphaned DEF Lease!LeaseNext
  <2>5. QED
    BY <2>3, <2>4
<1>10. CASE RotatePairing
  <2>1. sessions' = {} /\ generation' = generation + 1 /\ pairing_hash' = generation + 1
    BY <1>10 DEF RotatePairing, NextGeneration
  <2>2. Owners' = {} /\ Offered'
    BY <2>1 DEF Owners, Live, Offered, NoSecret, IInv, TypeOK
  <2>3. stageBar' = "offered" /\ ownerBar' = NoClient
    BY <1>b, <2>2 DEF BarFacts
  <2>4. QED
    BY <2>1, <2>3 DEF Lease!LeaseNext, Lease!Offer
<1>11. CASE RotateFailed
  BY <1>11, <1>s DEF RotateFailed, secretVars
<1>12. CASE WritePairingFile
  BY <1>12, <1>s DEF WritePairingFile
<1>13. CASE InvalidateUnpublishedPairing
  <2>1. Owners' = {} /\ ~Offered' /\ UNCHANGED generation
    BY <1>13 DEF InvalidateUnpublishedPairing, Withdraw, Owners, Live, Offered
  <2>2. QED
    BY <1>b, <2>1, LeaseOrphaned DEF Lease!LeaseNext
<1>14. CASE Tick
  <2>1. /\ sessions' = Aged(sessions)
        /\ UNCHANGED <<generation, pairing_hash, manual_pairing_hash, claimant>>
    BY <1>14 DEF Tick, secretVars
  <2>2. Offered' <=> Offered
    BY <2>1 DEF Offered
  <2>3. CASE Owners' # {}
    <3>1. sessions # {} /\ Owners' = {claimant}
      BY <1>b, <2>1, <2>3 DEF BarFacts, Aged, Owners, Live
    <3>2. PICK s \in sessions' : s.left > 0 /\ s.generation = generation
      BY <2>1, <2>3 DEF Owners, Live
    <3>3. PICK r \in sessions : s = [r EXCEPT !.left = IF @ > 0 THEN @ - 1 ELSE 0]
      BY <2>1 DEF Aged
    <3>4. r \in Session /\ s.left = (IF r.left > 0 THEN r.left - 1 ELSE 0)
            /\ s.generation = r.generation
      BY <3>3 DEF IInv, TypeOK, Session
    <3>5. r.left > 0 /\ r.generation = generation
      BY <3>2, <3>4 DEF Session
    <3>6. Owners # {}
      BY <3>5 DEF Owners, Live
    <3>7. Owners' = Owners
      BY <1>b, <3>1, <3>6 DEF BarFacts
    <3>8. QED
      BY <1>b, <2>1, <2>2, <3>7, LeaseStutters
  <2>4. CASE Owners' = {} /\ Owners = {}
    BY <1>b, <2>1, <2>2, <2>4, LeaseStutters
  <2>5. CASE Owners' = {} /\ Owners # {}
    <3>1. ~Offered'
      BY <1>b, <2>2, <2>5 DEF BarFacts
    <3>2. QED
      BY <1>b, <2>1, <2>5, <3>1, LeaseOrphaned DEF Lease!LeaseNext
  <2>6. QED
    BY <2>3, <2>4, <2>5
<1>15. CASE UNCHANGED vars
  BY <1>15, <1>s DEF vars, secretVars
<1>16. QED
  BY <1>1, <1>2, <1>3, <1>4, <1>5, <1>6, <1>7, <1>8, <1>9, <1>10, <1>11, <1>12,
     <1>13, <1>14, <1>15 DEF Next

\* The initial state is the lease's.
LEMMA LeaseInitially == Init => Lease!LeaseInit
<1> SUFFICES ASSUME Init PROVE Lease!LeaseInit
  OBVIOUS
<1>1. Owners = {} /\ Offered
  BY DEF Init, Owners, Live, Offered, NoSecret
<1>2. QED
  BY <1>1 DEF Init, Lease!LeaseInit, stageBar, ownerBar

\* Every behaviour of AuthManager is one of the abstract lease: in each pairing
\* generation the appliance is offered, then owned by one client, then orphaned.
THEOREM AuthImplementsLease == Spec => ImplementsLease
<1>1. Init => Lease!LeaseInit
  BY LeaseInitially
<1>2. QED
  BY <1>1, LeaseStep, Invariance, PTL DEF Spec, ImplementsLease, Lease!LeaseSpec
=============================================================================
