------------------------------ MODULE Session ------------------------------
(***************************************************************************)
(* The session lifecycle of xanhtabd: SessionManager (src/session.rs),     *)
(* the lifecycle mutex of AppState (src/lib.rs) and the watchdog           *)
(* (src/main.rs), over the two helpers they drive.                         *)
(*                                                                         *)
(* The holder of the mutex is a job; it advances one awaited helper call   *)
(* at a time, and everything that does not take the mutex (settings,       *)
(* pairing, expiry, a browser that dies, a request that is dropped, a      *)
(* daemon that restarts) happens between two of its steps.  A failed call  *)
(* may or may not have taken effect.  AuthManager is seen through the      *)
(* lease it implements (AuthLease); a client is named by the epoch in      *)
(* which it paired, and stands for the URLs and the data it leaves behind. *)
(***************************************************************************)
EXTENDS Naturals, FiniteSets

CONSTANTS
  Mode,        \* EgressMode
  Direct,      \* the mode that reset applies
  InitialMode, \* config.network.initial_mode
  MaxEpoch,    \* bound: pairing epochs explored
  MaxId,       \* bound: session ids minted
  MaxAsked     \* bound: settings requests in flight

ASSUME SessionAssumption ==
  /\ Direct \in Mode /\ InitialMode \in Mode /\ "drop" \notin Mode
  /\ MaxEpoch \in Nat \ {0} /\ MaxId \in Nat /\ MaxAsked \in Nat

VARIABLES
  snapshot,    \* SessionData.snapshot
  controller,  \* SessionData.controller
  history,     \* clients whose visits SessionData.history shows
  quiet,       \* last_activity is older than the auto-burn threshold
  job,         \* what the holder of the lifecycle mutex is doing
  asked,       \* settings requests between require_session_id and the session
  minted,      \* session ids handed out
  epoch, stage, owner, \* the lease of AuthManager
  browser,     \* Pipeline of the browser helper, and whether its child runs
  net,         \* the policy netd enforces: a mode, or "drop"
  runtime,     \* clients whose data is in the runtime directory
  unsure,      \* history: a browser call failed since the last stop or start worked
  left,        \* history: the running browser is one that a restart of xanhtabd left
  crashed,     \* history: the daemon restarted and no burn succeeded since
  disabled     \* history: the session for which the blocklist was turned off

sessionVars == <<snapshot, controller, history, quiet>>
leaseVars == <<epoch, stage, owner>>
helperVars == <<browser, net, runtime>>
ghostVars == <<unsure, left, crashed, disabled>>
vars == <<sessionVars, job, asked, minted, leaseVars, helperVars, ghostVars>>

NoClient == 0
NoId == 0
Client == 1 .. MaxEpoch
Id == 1 .. MaxId
NoBrowser == [up |-> FALSE, id |-> NoId, mode |-> Direct]
Tree(i, m) == [up |-> TRUE, id |-> i, mode |-> m]
Phases == {"idle", "starting", "active", "burning", "failed"}
Tasks == {"none", "start", "abort", "burn", "switch", "rollback", "navigate"}
Calls == {"stop", "reset", "clear", "apply", "spawn", "load"}
Steps == Calls \cup {"none", "mark", "revoke", "rotate"}

\* The steps each task goes through.
StepsOf(task) ==
  CASE task = "none" -> {"none"}
    [] task = "start" -> {"apply", "spawn"}
    [] task = "abort" -> {"stop", "reset", "clear"}
    [] task = "burn" -> {"mark", "stop", "reset", "clear", "revoke", "rotate"}
    [] task \in {"switch", "rollback"} -> {"stop", "reset", "clear", "apply", "spawn"}
    [] task = "navigate" -> {"load"}

NoJob == [task |-> "none", step |-> "none", client |-> NoClient, mode |-> Direct,
          back |-> Direct, fresh |-> NoId, ok |-> TRUE]

DefaultSnapshot ==
  [phase |-> "idle", id |-> NoId, url |-> NoClient, egress |-> InitialMode,
   blocking |-> TRUE, auto_burn |-> TRUE]

TypeOK ==
  /\ snapshot \in [phase : Phases, id : Nat, url : Nat, egress : Mode,
                   blocking : BOOLEAN, auto_burn : BOOLEAN]
  /\ controller \in Nat /\ history \subseteq Nat /\ quiet \in BOOLEAN
  /\ job \in [task : Tasks, step : Steps, client : Nat, mode : Mode,
              back : Mode, fresh : Nat, ok : BOOLEAN]
  /\ job.step \in StepsOf(job.task)
  /\ asked \subseteq [client : Nat, id : Nat]
  /\ minted \in Nat
  /\ epoch \in Nat \ {0} /\ stage \in {"offered", "owned", "orphaned"} /\ owner \in Nat
  /\ browser \in [up : BOOLEAN, id : Nat, mode : Mode] /\ net \in Mode \cup {"drop"}
  /\ runtime \subseteq Nat
  /\ unsure \in BOOLEAN /\ left \in BOOLEAN /\ crashed \in BOOLEAN /\ disabled \in Nat

Init ==
  /\ snapshot = DefaultSnapshot
  /\ controller = NoClient /\ history = {} /\ quiet = FALSE
  /\ job = NoJob /\ asked = {} /\ minted = 0
  /\ epoch = 1 /\ stage = "offered" /\ owner = NoClient
  /\ browser = NoBrowser /\ net = "drop" /\ runtime = {}
  /\ unsure = FALSE /\ left = FALSE /\ crashed = FALSE /\ disabled = NoId

Lease == INSTANCE AuthLease

(***************************************************************************)
(* The helper calls.  ok is what the caller is told: an error (a timeout,  *)
(* a refused connection, a failed command) hides whether the call worked.  *)
(* Each helper takes its commands in order, so a call given up on works    *)
(* before the next one is answered, or never.                              *)
(***************************************************************************)

\* What the helper remembers of a stopped browser matters to no call but
\* load, which only an active session makes.
Stop(ok) ==
  /\ browser' \in IF ok THEN {NoBrowser} ELSE {browser, NoBrowser}
  /\ UNCHANGED <<net, runtime>>

Route(m, ok) ==
  /\ net' \in IF ok THEN {m} ELSE {net, "drop", m}
  /\ UNCHANGED <<browser, runtime>>

Clear(ok) ==
  /\ runtime' \in IF ok THEN {{}} ELSE {runtime, {}}
  /\ UNCHANGED <<browser, net>>

Spawn(ok) ==
  LET tree == Tree(job.fresh, job.mode) IN
  /\ browser' \in IF ok THEN {tree} ELSE {browser, NoBrowser, tree}
  /\ runtime' = IF browser' = tree THEN runtime \cup {job.client} ELSE runtime
  /\ UNCHANGED net

\* A navigation replaces the child, a stop ends it, and either may have no
\* effect; a helper that runs out of time resets its Pipeline to the default,
\* and the next navigation opens a browser for no session and no proxy.
Load(ok) ==
  /\ browser' \in {browser, [browser EXCEPT !.up = FALSE], [browser EXCEPT !.up = TRUE]}
                  \cup IF ok THEN {} ELSE {NoBrowser}
  /\ runtime' = IF browser'.up THEN runtime \cup {job.client} ELSE runtime
  /\ UNCHANGED net

Call(ok) ==
  \/ job.step = "stop" /\ Stop(ok)
  \/ job.step = "reset" /\ Route(Direct, ok)
  \/ job.step = "clear" /\ Clear(ok)
  \/ job.step = "apply" /\ Route(job.mode, ok)
  \/ job.step = "spawn" /\ Spawn(ok)
  \/ job.step = "load" /\ Load(ok)

\* What the answer tells of the browser.
Doubt(ok) ==
  /\ unsure' = CASE job.step \in {"stop", "spawn"} -> ~ok
                 [] job.step = "load" -> unsure \/ ~ok
                 [] OTHER -> unsure
  /\ left' = (left /\ browser' = browser)

\* One call of the job's plan, answered with ok.
Perform(ok) ==
  /\ Call(ok) /\ Doubt(ok)
  /\ UNCHANGED <<asked, leaseVars, crashed, disabled>>

FaultyAfter == [stop |-> "reset", reset |-> "clear", clear |-> "spawn", apply |-> "spawn"]

After == [stop |-> "reset", reset |-> "clear", clear |-> "apply", apply |-> "spawn"]

FaultyLast(task) == CASE task = "abort" -> "clear"
                      [] task = "navigate" -> "load"
                      [] OTHER -> "spawn"

Last(task) == CASE task \in {"abort", "burn"} -> "clear"
                [] task = "navigate" -> "load"
                [] OTHER -> "spawn"

\* These go on to the next cleanup whatever a call returns.
Insists == job.task \in {"abort", "burn"} \/ (job.task = "rollback" /\ job.step = "stop")

Advance(ok) ==
  /\ job.step \in Calls \ {Last(job.task)}
  /\ ok \/ Insists
  /\ Perform(ok)
  /\ job' = [job EXCEPT !.step = After[@], !.ok = @ /\ ok]
  /\ UNCHANGED <<sessionVars, minted>>

(***************************************************************************)
(* What a request must pass once it holds the mutex.                       *)
(***************************************************************************)
FaultyValidated(c) == c <= epoch

\* validate_context
Validated(c) == stage = "owned" /\ owner = c

\* require_session_id
IsCurrent(i) == snapshot.id = i

ActiveLease(c) == controller = c /\ snapshot.phase = "active"

Hold(task, step, c) == [NoJob EXCEPT !.task = task, !.step = step, !.client = c]

Idle == job = NoJob
Free == job' = NoJob
FreshId == minted + 1

(***************************************************************************)
(* start                                                                   *)
(***************************************************************************)
StartSession(c) ==
  /\ Idle /\ Validated(c)
  /\ snapshot.phase \in {"idle", "failed"}
  /\ controller \in {NoClient, c}
  /\ minted < MaxId
  /\ minted' = FreshId
  /\ controller' = c
  /\ snapshot' = [snapshot EXCEPT !.phase = "starting", !.id = FreshId, !.url = c]
  /\ quiet' = FALSE
  /\ job' = [Hold("start", "apply", c) EXCEPT !.mode = snapshot.egress,
                                             !.fresh = FreshId]
  /\ UNCHANGED <<history, asked, leaseVars, helperVars, ghostVars>>

Started ==
  /\ job.task = "start" /\ job.step = "spawn"
  /\ Perform(TRUE) /\ Free
  /\ snapshot' = [snapshot EXCEPT !.phase = "active"]
  /\ history' = history \cup {job.client}
  /\ UNCHANGED <<controller, quiet, minted>>

\* The browser is stopped only if it was started.
StartFailed ==
  /\ job.task = "start"
  /\ Perform(FALSE)
  /\ job' = [job EXCEPT !.task = "abort",
                        !.step = IF @ = "apply" THEN "reset" ELSE "stop"]
  /\ UNCHANGED <<sessionVars, minted>>

\* fail: the lease and the id stay.
Aborted(ok) ==
  /\ job.task = "abort" /\ job.step = "clear"
  /\ Perform(ok) /\ Free
  /\ snapshot' = [snapshot EXCEPT !.phase = "failed"]
  /\ UNCHANGED <<controller, history, quiet, minted>>

(***************************************************************************)
(* navigate                                                                *)
(***************************************************************************)
Navigate(c, i) ==
  /\ Idle /\ Validated(c) /\ IsCurrent(i) /\ ActiveLease(c)
  /\ quiet' = FALSE
  /\ job' = Hold("navigate", "load", c)
  /\ UNCHANGED <<snapshot, controller, history, asked, minted, leaseVars,
                 helperVars, ghostVars>>

Navigated(ok) ==
  /\ job.task = "navigate"
  /\ Perform(ok) /\ Free
  /\ snapshot' = IF ok THEN [snapshot EXCEPT !.url = job.client] ELSE snapshot
  /\ history' = IF ok THEN history \cup {job.client} ELSE history
  /\ UNCHANGED <<controller, quiet, minted>>

(***************************************************************************)
(* switch_egress and its rollback                                          *)
(***************************************************************************)
SwitchEgress(c, i, m) ==
  /\ Idle /\ Validated(c) /\ IsCurrent(i) /\ ActiveLease(c)
  /\ minted + 1 < MaxId
  /\ snapshot' = [snapshot EXCEPT !.phase = "burning"]
  /\ IF snapshot.url = NoClient
     THEN UNCHANGED <<job, minted>>
     ELSE /\ minted' = FreshId
          /\ job' = [Hold("switch", "stop", c) EXCEPT !.mode = m, !.fresh = FreshId,
                                                     !.back = snapshot.egress]
  /\ UNCHANGED <<controller, history, quiet, asked, leaseVars, helperVars, ghostVars>>

\* Both ways to come back: under the new mode, or under the one before.
Switched ==
  /\ job.task \in {"switch", "rollback"} /\ job.step = "spawn"
  /\ Perform(TRUE) /\ Free
  /\ snapshot' = [snapshot EXCEPT !.phase = "active", !.id = job.fresh,
                                  !.egress = job.mode]
  /\ history' = {job.client}
  /\ quiet' = FALSE
  /\ UNCHANGED <<controller, minted>>

SwitchFailed ==
  /\ job.task = "switch"
  /\ Perform(FALSE)
  /\ minted' = FreshId
  /\ job' = [job EXCEPT !.task = "rollback", !.step = "stop", !.mode = job.back,
                        !.fresh = FreshId]
  /\ UNCHANGED sessionVars

RollbackFailed ==
  /\ job.task = "rollback" /\ job.step # "stop"
  /\ Perform(FALSE) /\ Free
  /\ snapshot' = [snapshot EXCEPT !.phase = "failed"]
  /\ history' = {}
  /\ UNCHANGED <<controller, quiet, minted>>

(***************************************************************************)
(* burn: by the controller, by the watchdog after inactivity, and by its   *)
(* recovery of an expired authorization                                    *)
(***************************************************************************)
Burn(c, i) ==
  /\ Idle /\ Validated(c) /\ IsCurrent(i)
  /\ job' = Hold("burn", "mark", c)
  /\ UNCHANGED <<sessionVars, asked, minted, leaseVars, helperVars, ghostVars>>

FaultyAutoBurn ==
  /\ Idle
  /\ snapshot.phase = "active" /\ snapshot.auto_burn /\ stage = "orphaned"
  /\ job' = Hold("burn", "mark", NoClient)
  /\ UNCHANGED <<sessionVars, asked, minted, leaseVars, helperVars, ghostVars>>

\* auto_burn_if_due reads the snapshot and the idle time, then burns; the
\* settings do not wait for the mutex.
AutoBurn ==
  /\ Idle
  /\ snapshot.phase = "active" /\ snapshot.auto_burn /\ quiet
  /\ job' = Hold("burn", "mark", NoClient)
  /\ UNCHANGED <<sessionVars, asked, minted, leaseVars, helperVars, ghostVars>>

FaultyRecover ==
  /\ Idle
  /\ stage = "orphaned" /\ snapshot.phase = "active"
  /\ job' = Hold("burn", "mark", NoClient)
  /\ UNCHANGED <<sessionVars, asked, minted, leaseVars, helperVars, ghostVars>>

\* recover_expired_auth, when pairing_recovery_required
Recover ==
  /\ Idle
  /\ stage = "orphaned"
  /\ job' = Hold("burn", "mark", NoClient)
  /\ UNCHANGED <<sessionVars, asked, minted, leaseVars, helperVars, ghostVars>>

FaultyBurnMark ==
  /\ job.step = "mark"
  /\ IF snapshot.phase = "idle" \/ job.client \notin {NoClient, controller}
     THEN job' = [job EXCEPT !.step = "revoke"] /\ UNCHANGED snapshot
     ELSE /\ job' = [job EXCEPT !.step = "reset"]
          /\ snapshot' = [snapshot EXCEPT !.phase = "burning"]
  /\ UNCHANGED <<controller, history, quiet, asked, minted, leaseVars, helperVars,
                 ghostVars>>

\* An idle session, or a burn without the lease, goes straight to the
\* revocation.
BurnMark ==
  /\ job.step = "mark"
  /\ IF snapshot.phase = "idle" \/ job.client \notin {NoClient, controller}
     THEN job' = [job EXCEPT !.step = "revoke"] /\ UNCHANGED snapshot
     ELSE /\ job' = [job EXCEPT !.step = "stop"]
          /\ snapshot' = [snapshot EXCEPT !.phase = "burning"]
  /\ UNCHANGED <<controller, history, quiet, asked, minted, leaseVars, helperVars,
                 ghostVars>>

FaultyVerdict(ok) == "idle"

\* Idle only if every cleanup worked.
Verdict(ok) == IF job.ok /\ ok THEN "idle" ELSE "failed"

FaultyForget == controller' = NoClient /\ UNCHANGED history /\ quiet' = FALSE

FaultyForgetLease == UNCHANGED controller /\ history' = {} /\ quiet' = FALSE

Forget == controller' = NoClient /\ history' = {} /\ quiet' = FALSE

Burnt(ok) ==
  /\ job.task = "burn" /\ job.step = "clear"
  /\ Call(ok) /\ Doubt(ok)
  /\ snapshot' = [DefaultSnapshot EXCEPT !.phase = Verdict(ok)]
  /\ Forget
  /\ crashed' = (crashed /\ Verdict(ok) = "failed")
  /\ disabled' = NoId
  /\ job' = [job EXCEPT !.step = "revoke"]
  /\ UNCHANGED <<asked, minted, leaseVars>>

\* revoke_all
Revoke ==
  /\ job.step = "revoke"
  /\ IF stage = "orphaned" THEN UNCHANGED leaseVars ELSE Lease!Orphan
  /\ job' = [job EXCEPT !.step = "rotate"]
  /\ UNCHANGED <<sessionVars, asked, minted, helperVars, ghostVars>>

\* rotate_pairing_material: without a published file nobody can pair.
Rotate(ok) ==
  /\ job.step = "rotate" /\ Free
  /\ IF ok THEN epoch < MaxEpoch /\ Lease!Offer ELSE UNCHANGED leaseVars
  /\ UNCHANGED <<sessionVars, asked, minted, helperVars, ghostVars>>

(***************************************************************************)
(* Settings: authenticate and require_session_id first, the session later, *)
(* never under the lifecycle mutex.                                        *)
(***************************************************************************)
Ask(c, i) ==
  /\ Validated(c) /\ IsCurrent(i)
  /\ Cardinality(asked) < MaxAsked
  /\ asked' = asked \cup {[client |-> c, id |-> i]}
  /\ UNCHANGED <<sessionVars, job, minted, leaseVars, helperVars, ghostVars>>

Set(r) ==
  /\ r \in asked
  /\ ActiveLease(r.client)
  /\ asked' = asked \ {r}
  /\ quiet' = FALSE
  /\ UNCHANGED <<controller, history, job, minted, leaseVars, helperVars, unsure,
                 left, crashed>>

SetBlocklist(r, enabled) ==
  /\ Set(r)
  /\ snapshot' = [snapshot EXCEPT !.blocking = enabled]
  /\ disabled' = IF enabled THEN NoId ELSE r.id

SetAutoBurn(r, on) ==
  /\ Set(r)
  /\ snapshot' = [snapshot EXCEPT !.auto_burn = on]
  /\ UNCHANGED disabled

\* Refused, or dropped with its connection.
Refuse(r) ==
  /\ r \in asked
  /\ asked' = asked \ {r}
  /\ UNCHANGED <<sessionVars, job, minted, leaseVars, helperVars, ghostVars>>

(***************************************************************************)
(* The environment.                                                        *)
(***************************************************************************)
Pair ==
  /\ Lease!Claim(epoch)
  /\ UNCHANGED <<sessionVars, job, asked, minted, helperVars, ghostVars>>

\* The cookie of the controller expires.
Expire ==
  /\ stage = "owned"
  /\ Lease!Orphan
  /\ UNCHANGED <<sessionVars, job, asked, minted, helperVars, ghostVars>>

\* The pairing is used up without a session (ExchangeSquandered in Auth).
Squander ==
  /\ stage = "offered"
  /\ Lease!Orphan
  /\ UNCHANGED <<sessionVars, job, asked, minted, helperVars, ghostVars>>

GoQuiet ==
  /\ ~quiet
  /\ quiet' = TRUE
  /\ UNCHANGED <<snapshot, controller, history, job, asked, minted, leaseVars,
                 helperVars, ghostVars>>

BrowserExit ==
  /\ browser.up
  /\ browser' = [browser EXCEPT !.up = FALSE]
  /\ left' = FALSE
  /\ UNCHANGED <<sessionVars, job, asked, minted, leaseVars, net, runtime, unsure,
                 crashed, disabled>>

\* The connection of a request closes: its future is dropped at an await, the
\* mutex is released, and the call in flight may still take effect.
Cancel ==
  /\ job.client # NoClient
  /\ job.step \in Calls \cup {"mark"}
  /\ IF job.step = "mark" THEN UNCHANGED <<helperVars, unsure, left>>
     ELSE Call(FALSE) /\ Doubt(FALSE)
  /\ Free
  /\ UNCHANGED <<sessionVars, asked, minted, leaseVars, crashed, disabled>>

\* xanhtabd dies and systemd restarts it; the helpers do not restart.
Restart ==
  /\ epoch < MaxEpoch
  /\ IF job.step \in Calls THEN Call(FALSE) ELSE UNCHANGED helperVars
  /\ unsure' = IF job.step \in {"stop", "spawn", "load"} THEN TRUE ELSE unsure
  /\ left' = browser'.up
  /\ snapshot' = DefaultSnapshot
  /\ Forget
  /\ Free /\ asked' = {} /\ Lease!Offer
  /\ crashed' = TRUE
  /\ disabled' = NoId
  /\ UNCHANGED minted

CallStep ==
  \/ \E ok \in BOOLEAN : Advance(ok) \/ Aborted(ok) \/ Navigated(ok) \/ Burnt(ok)
  \/ Started \/ StartFailed \/ Switched \/ SwitchFailed \/ RollbackFailed

JobStep == CallStep \/ BurnMark \/ Revoke \/ \E ok \in BOOLEAN : Rotate(ok)

Request ==
  \E c \in Client :
    \/ StartSession(c)
    \/ \E i \in Id : \/ Navigate(c, i)
                     \/ \E m \in Mode : SwitchEgress(c, i, m)
                     \/ Burn(c, i)
                     \/ Ask(c, i)

Setting ==
  \E r \in asked :
    \/ \E on \in BOOLEAN : SetBlocklist(r, on) \/ SetAutoBurn(r, on)
    \/ Refuse(r)

Next ==
  \/ Request \/ Setting \/ JobStep
  \/ AutoBurn \/ Recover
  \/ Pair \/ Expire \/ Squander \/ GoQuiet \/ BrowserExit \/ Cancel \/ Restart

Spec == Init /\ [][Next]_vars

(***************************************************************************)
(* Properties.                                                             *)
(***************************************************************************)

\* start, switch_egress and its rollback: a session that claims to be active
\* has a policy that is the one it shows, and the only browser that may run
\* is its own, started under that policy, or the default one that a helper
\* opens after a navigation ran out of time.
ActiveIsConsistent ==
  snapshot.phase = "active" =>
    /\ net = snapshot.egress
    /\ browser.up => \/ browser = Tree(snapshot.id, snapshot.egress)
                     \/ unsure /\ browser = Tree(NoId, Direct)
    /\ snapshot.url # NoClient

\* burn_unchecked: idle is never claimed falsely.  Whatever failed, was
\* cancelled or raced before, an idle appliance that has not just rebooted
\* runs nothing, routes nothing but the default, and remembers nobody.
IdleIsClean ==
  snapshot.phase = "idle" /\ ~crashed =>
    /\ ~browser.up /\ net \in {"drop", Direct} /\ runtime = {}
    /\ snapshot = DefaultSnapshot /\ controller = NoClient /\ history = {}

\* acquire_lease, ensure_lease, validate_context: the lease never outlives
\* the authorization it was taken with into the next pairing, and a session
\* that exists always has a holder who could burn it.
LeaseHolder ==
  /\ stage = "offered" => controller = NoClient
  /\ stage = "owned" => controller \in {NoClient, owner}
  /\ snapshot.id # NoId <=> controller # NoClient
  /\ snapshot.phase \in {"starting", "active"} => controller # NoClient
  /\ snapshot.phase = "burning" /\ Idle => controller # NoClient

\* get_session: the snapshot and the history shown to an authenticated client
\* hold no address another client visited.
OwnHistory ==
  stage = "owned" => history \cup {snapshot.url} \subseteq {NoClient, owner}

\* start, burn_unchecked, switch_egress: a browser never runs under a policy
\* other than the one it was started for, or none at all, with two exceptions.
\* Since a stop or a start last worked, one may have failed or a navigation
\* may have run out of time; or xanhtabd may have been restarted beside a
\* browser, which the next start reroutes before it replaces it (egress.apply,
\* session.rs:138).
RoutedAsStarted ==
  browser.up /\ ~unsure /\ ~left => net \in {browser.mode, "drop"}

\* SessionPhases: every step of the lifecycle is one of the documented moves
\* between phases or shows nothing; ids are never reused, the lease is taken by
\* the owner alone, and no pairing is offered while a controller is recorded.
Phased == INSTANCE SessionPhases WITH phase <- snapshot.phase, id <- snapshot.id
ImplementsPhases == Phased!PhasesSpec

\* The session whose browser policy was turned off is the one that runs
\* without it (README.md:41).
DisabledForThisSession ==
  snapshot.phase = "active" /\ ~snapshot.blocking => disabled = snapshot.id

\* A failed start has stopped the browser before it clears the runtime
\* directory (docs/protocol-v1.md:30).
FailedStartStopsBrowser ==
  job.task = "abort" /\ job.step = "clear" /\ job.ok => ~browser.up

(***************************************************************************)
(* Liveness.  Helper calls are bounded by timeouts and the code between    *)
(* them terminates; the watchdog runs forever and the tokio mutex is fair; *)
(* the CSPRNG and the pairing file work again and again.                   *)
(***************************************************************************)
FairSpec ==
  /\ Spec
  /\ WF_vars(JobStep) /\ SF_vars(Rotate(TRUE))
  /\ SF_vars(Recover) /\ SF_vars(AutoBurn)

\* recover_expired_auth: an appliance nobody can control is offered again
\* (up to the bound on epochs), although each attempt may fail.
OfferedAgain ==
  stage = "orphaned" /\ epoch < MaxEpoch ~> stage = "offered"

\* recover_expired_auth: whatever state the expired controller left behind,
\* also one that a request dropped between two awaits left starting or
\* burning with nobody at work, is burnt.
AbandonedSessionEnds ==
  stage = "orphaned" /\ snapshot.phase \in {"starting", "active", "burning"}
    ~> snapshot.phase \in {"idle", "failed"}

\* auto_burn_if_due: an active session that stays quiet is destroyed, unless
\* its controller acts or turns auto-burn off.
QuietSessionEnds ==
  snapshot.phase = "active" /\ quiet /\ snapshot.auto_burn
    ~> snapshot.phase # "active" \/ ~quiet \/ ~snapshot.auto_burn
=============================================================================
