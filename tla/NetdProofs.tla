----------------------------- MODULE NetdProofs -----------------------------
(***************************************************************************)
(* The safety of Netd for every set of egress modes and whichever commands *)
(* may fail.                                                               *)
(***************************************************************************)
EXTENDS Netd, TLAPS

\* No mode is committed while a transition, a start or a stop is under way.
UncommittedAtWork == job.task # "none" => active_mode = Uncommitted

\* What the steps of a transition have established so far.
Prepared ==
  /\ job.step = "prepare" => tunnel \cap {"link", "rule4", "rule6"} = {}
  /\ job.step = "setup" => /\ job.mode = WireGuard
                           /\ \A i \in 1 .. 5 : i < job.at => SetupPlan[i] \in tunnel
  /\ job.step = "commit" => /\ job.mode = WireGuard => tunnel = Parts
                            /\ job.mode # WireGuard =>
                                 tunnel \cap {"link", "rule4", "rule6"} = {}

NetdInv ==
  TypeOK /\ UncommittedAtWork /\ Prepared /\ HeldDuringTransition
    /\ CommittedModeIsEnforced

-----------------------------------------------------------------------------
LEMMA PlanLengths == Len(SetupPlan) = 6 /\ Len(TeardownPlan) = 5
  BY DEF SetupPlan, TeardownPlan

\* The setup plan names every part, in its first five commands.
LEMMA PlanParts ==
  /\ Parts = {SetupPlan[1], SetupPlan[2], SetupPlan[3], SetupPlan[4], SetupPlan[5]}
  /\ \A i \in 1 .. 5 : SetupPlan[i] \in Parts
  BY DEF SetupPlan, Parts

\* A job that is made from constants has the type of a job.
LEMMA JobType ==
  ASSUME NEW task \in Tasks, NEW mode \in Mode, NEW step \in StepsOf(task), task \in Tasks
  PROVE  LET j == Job(task, mode, step)
         IN  /\ j \in [task : Tasks, mode : Mode, step : Steps, at : 1 .. 6]
             /\ j.task = task /\ j.mode = mode /\ j.step = step /\ j.at = 1
  BY DEF Job, Tasks, Steps, StepsOf

\* So has one that goes on to another step or command of its task.
LEMMA JobMoves ==
  ASSUME NEW j \in [task : Tasks, mode : Mode, step : Steps, at : 1 .. 6],
         NEW task \in Tasks, NEW step \in Steps, NEW n \in 1 .. 6
  PROVE  LET k == [j EXCEPT !.task = task, !.step = step, !.at = n]
             g == [j EXCEPT !.step = step, !.at = n]
             h == [j EXCEPT !.at = n]
         IN  /\ {g, h, k} \subseteq [task : Tasks, mode : Mode, step : Steps, at : 1 .. 6]
             /\ k.task = task /\ k.mode = j.mode /\ k.step = step /\ k.at = n
             /\ g.task = j.task /\ g.mode = j.mode /\ g.step = step /\ g.at = n
             /\ h.task = j.task /\ h.mode = j.mode /\ h.step = j.step /\ h.at = n
  OBVIOUS

\* The type of the next job.
JobOK(j) ==
  /\ j \in [task : Tasks, mode : Mode, step : Steps, at : 1 .. 6]
  /\ j.step \in StepsOf(j.task)
  /\ j.step = "teardown" => j.at <= 5

LEMMA FreeOK == JobOK(Free) /\ Free.task = "none" /\ Free.step = "none"
  BY NetdAssumption DEF JobOK, Free, Job, Tasks, Steps, StepsOf

LEMMA DownOK == JobOK(Down) /\ Down.task = "down" /\ Down.step = "none"
  BY NetdAssumption DEF JobOK, Down, Job, Tasks, Steps, StepsOf

LEMMA KillFirst ==
  ASSUME NEW task \in {"init", "apply", "cleanup"}, NEW m \in Mode
  PROVE  /\ JobOK(Job(task, m, "kill"))
         /\ Job(task, m, "kill").task = task /\ Job(task, m, "kill").step = "kill"
  BY DEF JobOK, Job, Tasks, Steps, StepsOf

\* Going on to a step of the same task.
LEMMA GotoOK ==
  ASSUME JobOK(job), NEW step \in StepsOf(job.task), Goto(step)
  PROVE  /\ JobOK(job') /\ job'.task = job.task /\ job'.mode = job.mode
         /\ job'.step = step /\ job'.at = 1
<1>1. step \in Steps /\ 1 \in 1 .. 6
  BY DEF JobOK, StepsOf, Steps, Tasks
<1>2. /\ job' = [job EXCEPT !.step = step, !.at = 1]
      /\ job' \in [task : Tasks, mode : Mode, step : Steps, at : 1 .. 6]
      /\ job'.task = job.task /\ job'.mode = job.mode /\ job'.step = step /\ job'.at = 1
  BY <1>1 DEF JobOK, Goto
<1>3. QED
  BY <1>2 DEF JobOK

\* Going on to the next command of the same step.
LEMMA NextCommandOK ==
  ASSUME JobOK(job), job.at < 6, job.step = "teardown" => job.at < 5,
         job' = [job EXCEPT !.at = @ + 1]
  PROVE  /\ JobOK(job') /\ job'.task = job.task /\ job'.mode = job.mode
         /\ job'.step = job.step /\ job'.at = job.at + 1
<1>1. job.at + 1 \in 1 .. 6
  BY DEF JobOK
<1>2. /\ job' \in [task : Tasks, mode : Mode, step : Steps, at : 1 .. 6]
      /\ job'.task = job.task /\ job'.mode = job.mode /\ job'.step = job.step
      /\ job'.at = job.at + 1
  BY <1>1 DEF JobOK
<1>3. QED
  BY <1>2 DEF JobOK

\* An error never leads to a step that prepares or commits anything.
LEMMA RecoilOK ==
  ASSUME JobOK(job), job.task \notin {"none", "down"}, Recoil
  PROVE  /\ JobOK(job') /\ job'.task # "none"
         /\ \/ job'.task = "undo" /\ job'.step \in {"teardown", "kill"}
            \/ job'.task \in {"cleanup", "down"} /\ job'.step \in {"kill", "none"}
<1>1. CASE job.task = "apply"
  <2>1. job' = [job EXCEPT !.task = "undo", !.step = "teardown", !.at = 1]
    BY <1>1 DEF Recoil
  <2>2. job' \in [task : Tasks, mode : Mode, step : Steps, at : 1 .. 6]
          /\ job'.task = "undo" /\ job'.step = "teardown" /\ job'.at = 1
    <3>1. "undo" \in Tasks /\ "teardown" \in Steps /\ 1 \in 1 .. 6
      BY DEF Tasks, Steps
    <3>2. QED
      BY <2>1, <3>1, JobMoves DEF JobOK
  <2>3. QED
    BY <2>2 DEF JobOK, StepsOf
<1>2. CASE job.task = "undo"
  <2>1. Goto("kill")
    BY <1>2 DEF Recoil
  <2>2. "kill" \in StepsOf(job.task)
    BY <1>2 DEF StepsOf
  <2>3. QED
    BY <1>2, <2>1, <2>2, GotoOK
<1>3. CASE job.task \in {"init", "cleanup"}
  <2>1. GiveUp
    BY <1>3 DEF Recoil
  <2>2. job' = Job("cleanup", Direct, "kill") \/ job' = Down
    BY <2>1 DEF GiveUp
  <2>3. QED
    BY <2>2, DownOK, KillFirst, NetdAssumption
<1>4. QED
  BY <1>1, <1>2, <1>3 DEF JobOK, Tasks

\* Whatever a command does, the kernel's state keeps its type.
LEMMA EffectType ==
  ASSUME TypeOK, Effect \/ UNCHANGED <<policy, tunnel>>
  PROVE  policy' \in Mode \cup {"drop", "none"} /\ tunnel' \subseteq Parts
  BY DEF TypeOK, Effect, Without

-----------------------------------------------------------------------------
\* The parts of TypeOK, with the job's as one.
Parted ==
  /\ policy \in Mode \cup {"drop", "none"} /\ tunnel \subseteq Parts
  /\ active_mode \in Mode \cup {Uncommitted} /\ waiting \subseteq Mode
  /\ JobOK(job) /\ answer \in {"none", "ok", "failed"}

LEMMA Types == (TypeOK <=> Parted) /\ (TypeOK' <=> Parted')
  BY PlanLengths DEF TypeOK, Parted, JobOK

\* Only a task that is under way has a step.
LEMMA AtWork ==
  ASSUME JobOK(job)
  PROVE  job.step # "none" <=> job.task \notin {"none", "down"}
  BY DEF JobOK, StepsOf, Tasks

\* The initial state satisfies the invariant.
LEMMA InitInv == Init => NetdInv
<1> SUFFICES ASSUME Init PROVE NetdInv
  OBVIOUS
<1>1. JobOK(job) /\ job.step = "kill"
  BY KillFirst, NetdAssumption DEF Init
<1>2. TypeOK
  BY <1>1, Types DEF Parted, Init
<1>3. QED
  BY <1>1, <1>2 DEF Init, NetdInv, UncommittedAtWork, Prepared, HeldDuringTransition,
                    CommittedModeIsEnforced

\* A next job at a step that has established nothing, with no mode committed,
\* keeps the invariant.
LEMMA FreshStep ==
  ASSUME TypeOK', active_mode' = Uncommitted,
         \/ job'.step \in {"none", "kill"}
         \/ job'.step \in {"teardown", "verify", "delete"} /\ policy' = "drop"
  PROVE  NetdInv'
  BY DEF NetdInv, UncommittedAtWork, Prepared, HeldDuringTransition,
         CommittedModeIsEnforced

\* The invariant is inductive: one step per action.
LEMMA StepInv == NetdInv /\ [Next]_vars => NetdInv'
<1> SUFFICES ASSUME NetdInv, [Next]_vars PROVE NetdInv'
  OBVIOUS
<1> USE DEF NetdInv
<1>a. TypeOK /\ JobOK(job)
  BY Types DEF Parted
<1>b. job.step # "none" => active_mode = Uncommitted /\ job.task \notin {"none", "down"}
  BY <1>a, AtWork DEF UncommittedAtWork
<1>1. ASSUME NEW m \in Mode, Receive(m) PROVE NetdInv'
  <2>1. UNCHANGED <<policy, tunnel, active_mode, job, answer>> /\ waiting' \subseteq Mode
    BY <1>1 DEF Receive, TypeOK
  <2>2. TypeOK'
    BY <2>1 DEF TypeOK
  <2>3. QED
    BY <2>1, <2>2 DEF UncommittedAtWork, Prepared, HeldDuringTransition,
                      CommittedModeIsEnforced
<1>2. ASSUME NEW m \in Mode, Serve(m) PROVE NetdInv'
  <2>1. JobOK(job') /\ job'.step = "kill"
    BY <1>2, KillFirst DEF Serve
  <2>2. TypeOK' /\ active_mode' = Uncommitted
    BY <1>2, <1>a, <2>1, Types DEF Parted, Serve
  <2>3. QED
    BY <2>1, <2>2, FreshStep
<1>3. CASE KillSwitch
  <2>1. job.step = "kill" /\ UNCHANGED <<active_mode, waiting>>
    BY <1>3 DEF KillSwitch, Works, Fails
  <2>2. policy' \in Mode \cup {"drop", "none"} /\ tunnel' \subseteq Parts
    BY <1>3, <1>a, EffectType DEF KillSwitch, Works, Fails
  <2>3. answer' \in {"none", "ok", "failed"}
    BY <1>3, <1>a DEF KillSwitch, Reply, TypeOK
  <2>4. /\ JobOK(job')
        /\ job'.step \in {"none", "kill"} \/ (job'.step = "teardown" /\ policy' = "drop")
    <3>1. CASE Works("kill") /\ job.task # "undo" /\ Goto("teardown")
      <4>1. Goto("teardown") /\ policy' = "drop"
        BY <3>1 DEF Works, Effect
      <4>2. "teardown" \in StepsOf(job.task)
        BY <1>a, <1>b, <2>1, <3>1 DEF JobOK, StepsOf, Tasks
      <4>3. QED
        BY <1>a, <4>1, <4>2, GotoOK
    <3>2. CASE Reply("failed")
      BY <3>2, FreeOK DEF Reply
    <3>3. CASE GiveUp
      BY <3>3, DownOK, KillFirst, NetdAssumption DEF GiveUp
    <3>4. QED
      BY <1>3, <3>1, <3>2, <3>3 DEF KillSwitch
  <2>5. TypeOK' /\ active_mode' = Uncommitted
    BY <1>a, <1>b, <2>1, <2>2, <2>3, <2>4, Types DEF Parted
  <2>6. QED
    BY <2>4, <2>5, FreshStep
<1>r. ASSUME Recoil, UNCHANGED <<policy, tunnel, active_mode, waiting, answer>>,
             job.step \in {"teardown", "verify", "prepare", "setup", "commit"}
      PROVE  NetdInv'
  <2>1. policy' = "drop" /\ active_mode' = Uncommitted
    BY <1>b, <1>r DEF HeldDuringTransition
  <2>2. JobOK(job') /\ job'.step \in {"none", "kill", "teardown"}
    BY <1>a, <1>b, <1>r, RecoilOK
  <2>3. TypeOK'
    BY <1>a, <1>r, <2>2, Types DEF Parted
  <2>4. QED
    BY <2>1, <2>2, <2>3, FreshStep
<1>4. CASE Teardown
  <2>1. /\ job.step = "teardown" /\ UNCHANGED <<active_mode, waiting, answer>>
        /\ policy = "drop" /\ policy' = "drop"
    BY <1>4 DEF Teardown, Works, Fails, Effect, HeldDuringTransition
  <2>2. tunnel' \subseteq Parts
    BY <1>4, <1>a, EffectType DEF Teardown, Works, Fails
  <2>3. JobOK(job') /\ job'.step \in {"teardown", "verify"}
    <3>1. CASE job.at < 5 /\ job' = [job EXCEPT !.at = @ + 1]
      <4>1. job.at < 6
        BY <3>1, <1>a DEF JobOK
      <4>2. QED
        BY <3>1, <4>1, <1>a, <2>1, NextCommandOK
    <3>2. CASE Goto("verify")
      <4>1. "verify" \in StepsOf(job.task)
        BY <1>a, <1>b, <2>1 DEF JobOK, StepsOf, Tasks
      <4>2. QED
        BY <3>2, <4>1, <1>a, GotoOK
    <3>3. QED
      BY <1>4, <3>1, <3>2, PlanLengths DEF Teardown
  <2>4. TypeOK' /\ active_mode' = Uncommitted
    BY <1>a, <1>b, <2>1, <2>2, <2>3, Types DEF Parted
  <2>5. QED
    BY <2>1, <2>3, <2>4, FreshStep
<1>5. CASE TeardownAborted
  BY <1>5, <1>r DEF TeardownAborted, Fails
<1>6. CASE Verify
  <2>1. /\ job.step = "verify" /\ UNCHANGED <<policy, tunnel, waiting, answer>>
        /\ policy = "drop" /\ active_mode = Uncommitted
    BY <1>6, <1>b DEF Verify, Works, Effect, HeldDuringTransition
  <2>2. CASE Remains
    BY <1>6, <1>r, <2>1, <2>2 DEF Verify
  <2>3. CASE ~Remains
    <3>1. CASE job.task = "apply"
      <4>1. Goto("prepare") /\ UNCHANGED active_mode
        BY <1>6, <2>3, <3>1 DEF Verify
      <4>2. "prepare" \in StepsOf(job.task)
        BY <3>1 DEF StepsOf
      <4>3. JobOK(job') /\ job'.step = "prepare"
        BY <4>1, <4>2, <1>a, GotoOK
      <4>4. TypeOK'
        BY <1>a, <2>1, <4>1, <4>3, Types DEF Parted
      <4>5. QED
        BY <2>1, <2>3, <4>1, <4>3, <4>4
           DEF UncommittedAtWork, Prepared, HeldDuringTransition,
               CommittedModeIsEnforced, Remains
    <3>2. CASE job.task \in {"undo", "cleanup"}
      <4>1. (Goto("kill") \/ Goto("delete")) /\ UNCHANGED active_mode
        BY <1>6, <2>3, <3>2 DEF Verify
      <4>2. JobOK(job') /\ job'.step \in {"kill", "delete"}
        <5>1. CASE job.task = "undo"
          <6>1. Goto("kill") /\ "kill" \in StepsOf(job.task)
            BY <1>6, <2>3, <5>1 DEF Verify, StepsOf
          <6>2. QED
            BY <6>1, <1>a, GotoOK
        <5>2. CASE job.task = "cleanup"
          <6>1. Goto("delete") /\ "delete" \in StepsOf(job.task)
            BY <1>6, <2>3, <5>2 DEF Verify, StepsOf
          <6>2. QED
            BY <6>1, <1>a, GotoOK
        <5>3. QED
          BY <3>2, <5>1, <5>2
      <4>3. TypeOK'
        BY <1>a, <2>1, <4>1, <4>2, Types DEF Parted
      <4>4. QED
        BY <2>1, <4>1, <4>2, <4>3, FreshStep
    <3>3. CASE job.task = "init"
      <4>1. job' = Free /\ active_mode' = Uncommitted
        BY <1>6, <2>3, <3>3 DEF Verify
      <4>2. TypeOK'
        BY <1>a, <2>1, <4>1, FreeOK, Types DEF Parted
      <4>3. QED
        BY <4>1, <4>2, FreeOK, FreshStep
    <3>4. QED
      BY <1>a, <1>b, <2>1, <3>1, <3>2, <3>3 DEF JobOK, Tasks
  <2>4. QED
    BY <2>2, <2>3
<1>7. CASE VerifyFailed
  BY <1>7, <1>r DEF VerifyFailed, Fails
<1>8. CASE Prepare
  <2>1. /\ job.step = "prepare" /\ UNCHANGED <<policy, tunnel, active_mode, waiting, answer>>
        /\ policy = "drop" /\ active_mode = Uncommitted
    BY <1>8, <1>b DEF Prepare, Works, Fails, Effect, HeldDuringTransition
  <2>2. CASE Recoil
    BY <2>1, <2>2, <1>r
  <2>3. CASE Goto(IF job.mode = WireGuard THEN "setup" ELSE "commit")
    <3> DEFINE next == IF job.mode = WireGuard THEN "setup" ELSE "commit"
    <3>1. next \in StepsOf(job.task)
      BY <1>a, <1>b, <2>1 DEF JobOK, StepsOf, Tasks
    <3>2. JobOK(job') /\ job'.step = next /\ job'.mode = job.mode /\ job'.at = 1
      BY <2>3, <3>1, <1>a, GotoOK
    <3>3. TypeOK'
      BY <1>a, <2>1, <3>2, Types DEF Parted
    <3>4. QED
      BY <2>1, <3>2, <3>3 DEF UncommittedAtWork, Prepared, HeldDuringTransition,
                              CommittedModeIsEnforced
  <2>4. QED
    BY <1>8, <2>2, <2>3 DEF Prepare
<1>9. CASE Setup
  <2>1. /\ job.step = "setup" /\ UNCHANGED <<policy, active_mode, waiting, answer>>
        /\ policy = "drop" /\ active_mode = Uncommitted /\ job.mode = WireGuard
    BY <1>9, <1>b DEF Setup, Works, Fails, Effect, HeldDuringTransition, Prepared
  <2>2. CASE Fails("setup") /\ Recoil
    BY <2>1, <2>2, <1>r DEF Fails
  <2>3. CASE /\ Works("setup")
             /\ IF job.at < 6 THEN job' = [job EXCEPT !.at = @ + 1] ELSE Goto("commit")
    <3>1. tunnel' = tunnel \cup ({SetupPlan[job.at]} \cap Parts) /\ tunnel' \subseteq Parts
      BY <2>1, <2>3 DEF Works, Effect, TypeOK
    <3>2. \A i \in 1 .. 5 : i <= job.at => SetupPlan[i] \in tunnel'
      <4>1. job.at \in 1 .. 6 /\ \A i \in 1 .. 5 : i < job.at => SetupPlan[i] \in tunnel
        BY <1>a, <2>1 DEF Prepared, JobOK
      <4>2. job.at \in 1 .. 5 => SetupPlan[job.at] \in tunnel'
        BY <3>1, PlanParts
      <4>3. QED
        BY <3>1, <4>1, <4>2
    <3>3. CASE job.at < 6
      <4>1. /\ JobOK(job') /\ job'.step = "setup" /\ job'.mode = WireGuard
            /\ job'.at = job.at + 1
        BY <1>a, <2>1, <2>3, <3>3, NextCommandOK
      <4>2. TypeOK'
        BY <1>a, <2>1, <3>1, <4>1, Types DEF Parted
      <4>3. \A i \in 1 .. 5 : i < job'.at => SetupPlan[i] \in tunnel'
        BY <1>a, <3>2, <4>1 DEF JobOK
      <4>4. QED
        BY <2>1, <4>1, <4>2, <4>3
           DEF UncommittedAtWork, Prepared, HeldDuringTransition, CommittedModeIsEnforced
    <3>4. CASE job.at = 6
      <4>1. Goto("commit") /\ "commit" \in StepsOf(job.task)
        BY <1>a, <1>b, <2>1, <2>3, <3>4 DEF JobOK, StepsOf, Tasks
      <4>2. JobOK(job') /\ job'.step = "commit" /\ job'.mode = WireGuard
        BY <1>a, <2>1, <4>1, GotoOK
      <4>3. TypeOK'
        BY <1>a, <2>1, <3>1, <4>2, Types DEF Parted
      <4>4. tunnel' = Parts
        BY <3>1, <3>2, <3>4, PlanParts
      <4>5. QED
        BY <2>1, <4>2, <4>3, <4>4
           DEF UncommittedAtWork, Prepared, HeldDuringTransition, CommittedModeIsEnforced
    <3>5. QED
      BY <1>a, <3>3, <3>4 DEF JobOK
  <2>4. QED
    BY <1>9, <2>2, <2>3, PlanLengths DEF Setup
<1>10. CASE Commit
  <2>1. /\ job.step = "commit" /\ UNCHANGED <<tunnel, waiting>>
        /\ policy = "drop" /\ active_mode = Uncommitted
    BY <1>10, <1>b DEF Commit, Works, Fails, Effect, HeldDuringTransition
  <2>2. CASE Fails("commit") /\ Recoil /\ UNCHANGED <<active_mode, answer>>
    BY <2>1, <2>2, <1>r DEF Fails
  <2>3. CASE Works("commit") /\ active_mode' = job.mode /\ Reply("ok")
    <3>1. policy' = job.mode /\ job.mode \in Mode /\ job' = Free /\ answer' = "ok"
      BY <1>a, <2>3 DEF Works, Effect, Reply, JobOK
    <3>2. TypeOK'
      BY <1>a, <2>1, <2>3, <3>1, FreeOK, Types DEF Parted
    <3>3. QED
      BY <2>1, <2>3, <3>1, <3>2, FreeOK
         DEF UncommittedAtWork, Prepared, HeldDuringTransition, CommittedModeIsEnforced
  <2>4. QED
    BY <1>10, <2>2, <2>3 DEF Commit
<1>11. CASE Delete
  <2>1. /\ job.step = "delete" /\ UNCHANGED <<active_mode, waiting, answer>> /\ job' = Down
        /\ Effect \/ UNCHANGED <<policy, tunnel>>
    BY <1>11 DEF Delete, Works, Fails
  <2>2. TypeOK' /\ active_mode' = Uncommitted
    BY <1>a, <1>b, <2>1, EffectType, DownOK, Types DEF Parted
  <2>3. QED
    BY <2>1, <2>2, DownOK, FreshStep
<1>12. CASE Deadline
  <2>1. /\ Effect \/ UNCHANGED <<policy, tunnel>>
        /\ UNCHANGED <<active_mode, waiting>> /\ job' = Free /\ answer' = "failed"
        /\ job.task # "none"
    BY <1>12 DEF Deadline, Reply
  <2>2. TypeOK' /\ active_mode' = Uncommitted
    BY <1>a, <2>1, EffectType, FreeOK, Types DEF Parted, UncommittedAtWork
  <2>3. QED
    BY <2>1, <2>2, FreeOK, FreshStep
<1>13. CASE Die
  <2>1. /\ Effect \/ UNCHANGED <<policy, tunnel>>
        /\ active_mode' = Uncommitted /\ waiting' = {} /\ answer' = "none"
        /\ job' = Job("cleanup", Direct, "kill") \/ job' = Down
    BY <1>13 DEF Die
  <2>2. JobOK(job') /\ job'.step \in {"kill", "none"}
    BY <2>1, DownOK, KillFirst, NetdAssumption
  <2>3. TypeOK'
    BY <1>a, <2>1, <2>2, EffectType, Types DEF Parted
  <2>4. QED
    BY <2>1, <2>2, <2>3, FreshStep
<1>14. CASE StartUnit
  <2>1. /\ UNCHANGED <<policy, tunnel, active_mode, waiting, answer>>
        /\ job.task = "down" /\ job' = Job("init", Direct, "kill")
    BY <1>14, DownOK DEF StartUnit
  <2>2. JobOK(job') /\ job'.step = "kill"
    BY <2>1, KillFirst, NetdAssumption
  <2>3. TypeOK' /\ active_mode' = Uncommitted
    BY <1>a, <2>1, <2>2, Types DEF Parted, UncommittedAtWork
  <2>4. QED
    BY <2>2, <2>3, FreshStep
<1>15. CASE UNCHANGED vars
  BY <1>15 DEF vars, TypeOK, UncommittedAtWork, Prepared, HeldDuringTransition,
               CommittedModeIsEnforced
<1>16. QED
  BY <1>1, <1>2, <1>3, <1>4, <1>5, <1>6, <1>7, <1>8, <1>9, <1>10, <1>11, <1>12,
     <1>13, <1>14, <1>15 DEF Next, Step

\* NetdInv holds in every behaviour of netd.
THEOREM Invariance == Spec => []NetdInv
  BY InitInv, StepInv, PTL DEF Spec

\* Every variable keeps its type, and no plan is run past its end.
THEOREM TypeCorrect == Spec => []TypeOK
<1>1. NetdInv => TypeOK
  BY DEF NetdInv
<1>2. QED
  BY <1>1, Invariance, PTL

\* status_response: a committed mode is the enforced one, with its tunnel.
THEOREM CommitIsHonest == Spec => []CommittedModeIsEnforced
<1>1. NetdInv => CommittedModeIsEnforced
  BY DEF NetdInv
<1>2. QED
  BY <1>1, Invariance, PTL

\* transition: the browser UID is held from the kill-switch to the commit.
THEOREM HeldThroughout == Spec => []HeldDuringTransition
<1>1. NetdInv => HeldDuringTransition
  BY DEF NetdInv
<1>2. QED
  BY <1>1, Invariance, PTL

\* Every change of policy passes through the drop, and the tunnel is built and
\* torn down behind it.
THEOREM TransitionsFailClosed == Spec => FailClosed
<1> DEFINE Closed == /\ policy' # policy => "drop" \in {policy, policy'}
                     /\ tunnel' # tunnel => policy = "drop"
<1>1. NetdInv /\ [Next]_vars => [Closed]_vars
  <2> SUFFICES ASSUME NetdInv, [Next]_vars PROVE Closed
    OBVIOUS
  <2>1. Effect \/ UNCHANGED <<policy, tunnel>>
    BY DEF Next, Step, Receive, Serve, KillSwitch, Teardown, TeardownAborted, Verify,
           VerifyFailed, Prepare, Setup, Commit, Delete, Deadline, Die, StartUnit,
           Works, Fails, vars
  <2>2. QED
    BY <2>1 DEF NetdInv, HeldDuringTransition, Effect
<1>2. QED
  BY <1>1, Invariance, PTL DEF Spec, FailClosed
=============================================================================
