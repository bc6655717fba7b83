------------------------------ MODULE AuthLease ------------------------------
(***************************************************************************)
(* What the authentication manager of xanhtabd promises, without cookies,  *)
(* hashes, tickets or clocks: in every pairing epoch the appliance is      *)
(* offered to the room, then owned by at most one client, then orphaned;   *)
(* only a new epoch offers it again.                                       *)
(***************************************************************************)
EXTENDS Naturals

CONSTANTS
  Client,    \* clients that may ever pair
  NoClient   \* the owner when there is none

VARIABLES
  epoch,   \* pairing generation
  stage,   \* "offered": a one-time pairing is open; "owned"; "orphaned"
  owner    \* the client that owns the appliance, or NoClient

leaseVars == <<epoch, stage, owner>>

LeaseInit ==
  /\ epoch = 1
  /\ stage = "offered"
  /\ owner = NoClient

\* The open pairing is consumed by a client.
Claim(c) ==
  /\ stage = "offered"
  /\ stage' = "owned"
  /\ owner' = c
  /\ UNCHANGED epoch

\* The owner's authorization ends, or the open pairing is lost.
Orphan ==
  /\ stage \in {"offered", "owned"}
  /\ stage' = "orphaned"
  /\ owner' = NoClient
  /\ UNCHANGED epoch

\* A new epoch opens a fresh pairing; nobody owns the appliance, whoever did.
Offer ==
  /\ epoch' = epoch + 1
  /\ stage' = "offered"
  /\ owner' = NoClient

LeaseNext == (\E c \in Client : Claim(c)) \/ Orphan \/ Offer

LeaseSpec == LeaseInit /\ [][LeaseNext]_leaseVars
=============================================================================
