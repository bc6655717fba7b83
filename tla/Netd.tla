-------------------------------- MODULE Netd --------------------------------
(***************************************************************************)
(* xanhtab-netd: the only process that changes what the browser UID may    *)
(* send (src/bin/xanhtab-netd.rs, plans of src/netd.rs).                   *)
(*                                                                         *)
(* One step is one command that netd spawns, so a deadline, a death of the *)
(* daemon or a failing command can come between any two, and while one     *)
(* runs.  policy is the nftables table as the kernel has it, tunnel the    *)
(* WireGuard interface, routes and UID rules; both survive the daemon.     *)
(***************************************************************************)
EXTENDS Naturals, Sequences

CONSTANTS
  Mode,      \* EgressMode
  Direct, WireGuard,
  Fallible   \* steps whose command may fail

ASSUME NetdAssumption ==
  /\ Direct \in Mode /\ WireGuard \in Mode /\ Direct # WireGuard
  /\ Mode \cap {"drop", "none", "unknown"} = {}

VARIABLES
  policy,      \* a mode's rules, "drop", or "none": no table, nothing held back
  tunnel,      \* what exists of the dedicated WireGuard setup
  active_mode, \* NetworkState.active_mode, or Uncommitted
  waiting,     \* modes asked for by handlers that wait for the state mutex
  job,         \* what the holder of the mutex, or the unit's start or stop, does
  answer       \* what the last transition told its client

vars == <<policy, tunnel, active_mode, waiting, job, answer>>

Uncommitted == "unknown"
Parts == {"link", "route4", "route6", "rule4", "rule6"}

\* wireguard_setup_plan; the last command only looks at the interface.
SetupPlan == <<"link", "route4", "route6", "rule4", "rule6", "show">>
\* wireguard_teardown_plan
TeardownPlan == <<"rule4", "rule6", "route4", "route6", "link">>

Tasks == {"none", "init", "apply", "undo", "cleanup", "down"}

StepsOf(task) ==
  CASE task \in {"none", "down"} -> {"none"}
    [] task = "init" -> {"kill", "teardown", "verify"}
    [] task = "apply" -> {"kill", "teardown", "verify", "prepare", "setup", "commit"}
    [] task = "undo" -> {"teardown", "verify", "kill"}
    [] task = "cleanup" -> {"kill", "teardown", "verify", "delete"}

Steps == {"none", "kill", "teardown", "verify", "prepare", "setup", "commit", "delete"}

Job(task, mode, step) == [task |-> task, mode |-> mode, step |-> step, at |-> 1]
Free == Job("none", Direct, "none")
Down == Job("down", Direct, "none")

TypeOK ==
  /\ policy \in Mode \cup {"drop", "none"}
  /\ tunnel \subseteq Parts
  /\ active_mode \in Mode \cup {Uncommitted}
  /\ waiting \subseteq Mode
  /\ job \in [task : Tasks, mode : Mode, step : Steps, at : 1 .. 6]
  /\ job.step \in StepsOf(job.task)
  /\ job.step = "teardown" => job.at <= Len(TeardownPlan)
  /\ answer \in {"none", "ok", "failed"}

\* The host boots without a table; systemd starts netd.
Init ==
  /\ policy = "none" /\ tunnel = {}
  /\ active_mode = Uncommitted
  /\ waiting = {}
  /\ job = Job("init", Direct, "kill")
  /\ answer = "none"

(***************************************************************************)
(* What the command of the current step does to the kernel when it works.  *)
(***************************************************************************)

\* Deleting an interface takes its routes with it.
Without(part) ==
  tunnel \ IF part = "link" THEN {"link", "route4", "route6"} ELSE {part}

Effect ==
  CASE job.step = "kill" -> policy' = "drop" /\ UNCHANGED tunnel
    [] job.step = "teardown" -> tunnel' = Without(TeardownPlan[job.at]) /\ UNCHANGED policy
    [] job.step = "setup" -> tunnel' = tunnel \cup ({SetupPlan[job.at]} \cap Parts)
                             /\ UNCHANGED policy
    [] job.step = "commit" -> policy' = job.mode /\ UNCHANGED tunnel
    [] job.step = "delete" -> policy' = "none" /\ UNCHANGED tunnel
    [] OTHER -> UNCHANGED <<policy, tunnel>>

Works(step) == job.step = step /\ Effect

Fails(step) ==
  /\ job.step = step
  /\ step \in Fallible
  /\ UNCHANGED <<policy, tunnel>>

Goto(step) == job' = [job EXCEPT !.step = step, !.at = 1]

\* The handler answers and releases the mutex.
Reply(a) == job' = Free /\ answer' = a

(***************************************************************************)
(* Requests: apply, and reset as apply of Direct.  The control plane sends *)
(* one at a time but stops waiting at its own deadline, so several may     *)
(* wait here, in any order.                                                *)
(***************************************************************************)
Receive(m) ==
  /\ job.task \in {"none", "apply", "undo"}
  /\ waiting' = waiting \cup {m}
  /\ UNCHANGED <<policy, tunnel, active_mode, job, answer>>

FaultyServe(m) ==
  /\ job = Free
  /\ m \in waiting
  /\ waiting' = waiting \ {m}
  /\ active_mode' = Uncommitted
  /\ job' = Job("apply", m, IF active_mode = Direct THEN "teardown" ELSE "kill")
  /\ answer' = "none"
  /\ UNCHANGED <<policy, tunnel>>

Serve(m) ==
  /\ job = Free
  /\ m \in waiting
  /\ waiting' = waiting \ {m}
  /\ active_mode' = Uncommitted
  /\ job' = Job("apply", m, "kill")
  /\ answer' = "none"
  /\ UNCHANGED <<policy, tunnel>>

(***************************************************************************)
(* transition, initialize_network and cleanup_network share their steps.   *)
(***************************************************************************)

\* The unit's main process or its ExecStopPost command gives up.
GiveUp == job' = IF job.task = "init" THEN Job("cleanup", Direct, "kill") ELSE Down

FaultyRecoil ==
  CASE job.task \in {"apply", "undo"} ->
         job' = [job EXCEPT !.task = "undo", !.step = "teardown", !.at = 1]
    [] OTHER -> GiveUp

\* Where an error leads once the first kill-switch is in place.
Recoil ==
  CASE job.task = "apply" -> job' = [job EXCEPT !.task = "undo", !.step = "teardown", !.at = 1]
    [] job.task = "undo" -> Goto("kill")
    [] OTHER -> GiveUp

FaultyKillSwitch ==
  /\ Works("kill") \/ Fails("kill")
  /\ IF job.task = "undo" THEN Reply("failed") ELSE Goto("teardown") /\ UNCHANGED answer
  /\ UNCHANGED <<active_mode, waiting>>

KillSwitch ==
  /\ \/ /\ Works("kill")
        /\ IF job.task = "undo" THEN Reply("failed")
                                ELSE Goto("teardown") /\ UNCHANGED answer
     \/ /\ Fails("kill")
        /\ IF job.task \in {"apply", "undo"} THEN Reply("failed")
                                             ELSE GiveUp /\ UNCHANGED answer
  /\ UNCHANGED <<active_mode, waiting>>

FaultyTeardown ==
  /\ Works("teardown") \/ Fails("teardown")
  /\ IF job.at <= Len(TeardownPlan) THEN job' = [job EXCEPT !.at = @ + 1] ELSE Goto("verify")
  /\ UNCHANGED <<active_mode, waiting, answer>>

\* A teardown command that fails is ignored.
Teardown ==
  /\ Works("teardown") \/ Fails("teardown")
  /\ IF job.at < Len(TeardownPlan) THEN job' = [job EXCEPT !.at = @ + 1] ELSE Goto("verify")
  /\ UNCHANGED <<active_mode, waiting, answer>>

\* A teardown command that cannot be spawned is not.
TeardownAborted ==
  /\ Fails("teardown")
  /\ Recoil
  /\ UNCHANGED <<active_mode, waiting, answer>>

FaultyRemains == "link" \in tunnel

Remains == tunnel \cap {"link", "rule4", "rule6"} # {}

Verify ==
  /\ Works("verify")
  /\ IF Remains THEN Recoil /\ UNCHANGED active_mode
     ELSE CASE job.task = "apply" -> Goto("prepare") /\ UNCHANGED active_mode
            [] job.task = "undo" -> Goto("kill") /\ UNCHANGED active_mode
            [] job.task = "init" -> job' = Free /\ active_mode' = Uncommitted
            [] job.task = "cleanup" -> Goto("delete") /\ UNCHANGED active_mode
  /\ UNCHANGED <<waiting, answer>>

VerifyFailed ==
  /\ Fails("verify")
  /\ Recoil
  /\ UNCHANGED <<active_mode, waiting, answer>>

\* The checks of transition_inner: proxy URL, WireGuard file, listener.
Prepare ==
  /\ \/ Works("prepare") /\ Goto(IF job.mode = WireGuard THEN "setup" ELSE "commit")
     \/ Fails("prepare") /\ Recoil
  /\ UNCHANGED <<active_mode, waiting, answer>>

Setup ==
  /\ \/ /\ Works("setup")
        /\ IF job.at < Len(SetupPlan) THEN job' = [job EXCEPT !.at = @ + 1] ELSE Goto("commit")
     \/ Fails("setup") /\ Recoil
  /\ UNCHANGED <<active_mode, waiting, answer>>

Commit ==
  /\ \/ Works("commit") /\ active_mode' = job.mode /\ Reply("ok")
     \/ Fails("commit") /\ Recoil /\ UNCHANGED <<active_mode, answer>>
  /\ UNCHANGED waiting

Delete ==
  /\ Works("delete") \/ Fails("delete")
  /\ job' = Down
  /\ UNCHANGED <<active_mode, waiting, answer>>

\* helper_deadline passes: the transition is dropped where it stands and its
\* command killed, perhaps after it took effect.
Deadline ==
  /\ job.task \in {"apply", "undo"}
  /\ Effect \/ UNCHANGED <<policy, tunnel>>
  /\ Reply("failed")
  /\ UNCHANGED <<active_mode, waiting>>

(***************************************************************************)
(* The unit.                                                               *)
(***************************************************************************)

\* The daemon dies or is stopped; ExecStopPost runs netd --cleanup, which may
\* itself be killed.
Die ==
  /\ job # Down
  /\ Effect \/ UNCHANGED <<policy, tunnel>>
  /\ active_mode' = Uncommitted
  /\ waiting' = {}
  /\ job' = IF job.task = "cleanup" THEN Down ELSE Job("cleanup", Direct, "kill")
  /\ answer' = "none"

StartUnit ==
  /\ job = Down
  /\ job' = Job("init", Direct, "kill")
  /\ UNCHANGED <<policy, tunnel, active_mode, waiting, answer>>

Step == KillSwitch \/ Teardown \/ TeardownAborted \/ Verify \/ VerifyFailed
          \/ Prepare \/ Setup \/ Commit \/ Delete

Next ==
  \/ \E m \in Mode : Receive(m) \/ Serve(m)
  \/ Step \/ Deadline \/ Die \/ StartUnit

Spec == Init /\ [][Next]_vars

\* Every command returns or is cut off, and the tokio mutex is fair.
FairSpec == Spec /\ WF_vars(Step) /\ \A m \in Mode : SF_vars(Serve(m))

(***************************************************************************)
(* Properties.                                                             *)
(***************************************************************************)

\* status_response: the mode netd reports as committed is the one the kernel
\* enforces, with a complete tunnel behind WireGuard's rules and no trace of
\* one that could divert the browser UID behind any other.
CommittedModeIsEnforced ==
  active_mode # Uncommitted =>
    /\ policy = active_mode
    /\ active_mode = WireGuard => tunnel = Parts
    /\ active_mode # WireGuard => tunnel \cap {"link", "rule4", "rule6"} = {}

\* transition: from its first kill-switch on, no transition, start or stop of
\* the unit lets the browser UID send anything until it commits.
HeldDuringTransition ==
  job.step \in {"teardown", "verify", "prepare", "setup", "commit", "delete"}
    => policy = "drop"

\* One policy never replaces another directly, and routes change only behind
\* the kill-switch.
FailClosed ==
  [][/\ policy' # policy => "drop" \in {policy, policy'}
     /\ tunnel' # tunnel => policy = "drop"]_vars

\* Every handler that waits for the mutex is served, unless netd dies first.
Answered == \A m \in Mode : m \in waiting ~> m \notin waiting

\* A transition that failed has restored the UID drop, and a status that
\* reports no mode speaks of a held browser (docs/protocol-v1.md:57).
FailureRestoresDrop == answer = "failed" => policy = "drop"
=============================================================================
