---------------------------- MODULE SessionPhases ----------------------------
(***************************************************************************)
(* What the session lifecycle of xanhtabd promises to those who watch it:  *)
(* the phases of idle -> starting -> active -> burning -> idle with the    *)
(* observable failed state, whose session each of them belongs to, and how *)
(* they go with the pairing epochs.  Helper calls, the mutex, settings and *)
(* history are left out.  Session implements it; Events is built on it.    *)
(***************************************************************************)
EXTENDS Naturals

CONSTANTS
  Client,    \* clients that may ever pair
  NoClient,  \* the controller when there is none
  NoId       \* the id of no session, below every id handed out

VARIABLES
  phase,       \* SessionSnapshot.phase
  id,          \* SessionSnapshot.id
  controller,  \* the client that holds the controller lease
  minted,      \* the last session id handed out
  epoch, stage, owner  \* the lease of AuthManager

Lease == INSTANCE AuthLease

phaseVars == <<phase, id, controller, minted>>
leaseVars == <<epoch, stage, owner>>
phasesVars == <<phaseVars, leaseVars>>

PhasesInit ==
  /\ phase = "idle" /\ id = NoId /\ controller = NoClient /\ minted = NoId
  /\ Lease!LeaseInit

\* A paired client takes the lease and a new session begins.
Begin(c) ==
  /\ stage = "owned" /\ owner = c
  /\ phase \in {"idle", "failed"} /\ controller \in {NoClient, c}
  /\ phase' = "starting" /\ controller' = c
  /\ minted' = minted + 1 /\ id' = minted'
  /\ UNCHANGED leaseVars

Succeed ==
  /\ phase = "starting" /\ phase' = "active"
  /\ UNCHANGED <<id, controller, minted, leaseVars>>

\* A start, or the rollback of a switch, fails: the lease stays.
Fail ==
  /\ phase \in {"starting", "burning"} /\ phase' = "failed"
  /\ UNCHANGED <<id, controller, minted, leaseVars>>

\* The controller moves its session to another egress mode, under a new id.
Switch ==
  /\ phase = "active" /\ stage = "owned" /\ owner = controller
  /\ phase' = "burning" /\ minted' = minted + 1
  /\ UNCHANGED <<id, controller, leaseVars>>

\* The switch failed: the way back takes one more id.
Retry ==
  /\ phase = "burning" /\ minted > id
  /\ minted' = minted + 1
  /\ UNCHANGED <<phase, id, controller, leaseVars>>

Resume ==
  /\ phase = "burning" /\ minted > id
  /\ phase' = "active" /\ id' = minted
  /\ UNCHANGED <<controller, minted, leaseVars>>

\* A burn of whatever there is.
Mark ==
  /\ phase # "idle" /\ phase' = "burning"
  /\ UNCHANGED <<id, controller, minted, leaseVars>>

\* The end of a burn: the session and its controller are forgotten.
Forget(p) ==
  /\ phase = "burning" /\ p \in {"idle", "failed"} /\ phase' = p
  /\ id' = NoId /\ controller' = NoClient
  /\ UNCHANGED <<minted, leaseVars>>

Claim(c) == Lease!Claim(c) /\ UNCHANGED phaseVars
Orphan == Lease!Orphan /\ UNCHANGED phaseVars

\* The appliance is offered again only when nobody holds the lease.
Offer == controller = NoClient /\ Lease!Offer /\ UNCHANGED phaseVars

\* A new daemon knows no session and starts a new epoch.
Reboot ==
  /\ phase' = "idle" /\ id' = NoId /\ controller' = NoClient
  /\ Lease!Offer
  /\ UNCHANGED minted

PhasesNext ==
  \/ \E c \in Client : Begin(c) \/ Claim(c)
  \/ Succeed \/ Fail \/ Switch \/ Retry \/ Resume \/ Mark
  \/ \E p \in {"idle", "failed"} : Forget(p)
  \/ Orphan \/ Offer \/ Reboot

PhasesSpec == PhasesInit /\ [][PhasesNext]_phasesVars
=============================================================================
