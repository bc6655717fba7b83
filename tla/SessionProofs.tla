---------------------------- MODULE SessionProofs ----------------------------
(***************************************************************************)
(* The safety of Session and its implementation of SessionPhases, for      *)
(* every set of egress modes and every bound on epochs, ids and settings   *)
(* in flight.                                                              *)
(***************************************************************************)
EXTENDS Session, TLAPS

\* The steps of a burn, or of an abort, between its mark and its verdict.
Cleanup == {"stop", "reset", "clear"}

\* Whose session it is, while authorizations come and go.
LeaseInv ==
  /\ epoch <= MaxEpoch
  /\ stage = "owned" => owner \in Client
  /\ stage = "offered" => controller = NoClient
  /\ stage = "owned" => controller \in {NoClient, owner}
  /\ snapshot.id # NoId <=> controller # NoClient
  /\ snapshot.id <= minted
  /\ history \cup {snapshot.url} \subseteq {NoClient, controller}

\* What each phase says, and who may be at work without a controller: the burn
\* of the watchdog only, which nobody can cancel.
PhaseInv ==
  /\ snapshot.phase = "idle" =>
       snapshot = DefaultSnapshot /\ controller = NoClient /\ history = {}
  /\ snapshot.phase = "active" => snapshot.url # NoClient
  /\ controller = NoClient =>
       \/ snapshot.phase \in {"idle", "failed"}
       \/ job.task = "burn" /\ job.step \in Cleanup /\ job.client = NoClient

\* The phase a job works in, and what it remembers of the session: both stand
\* still, because whatever else changes them needs the mutex.
JobInv ==
  /\ job.task = "none" => job = NoJob
  /\ job.client # NoClient => controller \in {NoClient, job.client}
  /\ job.task \in {"start", "abort"} =>
       /\ snapshot.phase = "starting" /\ job.mode = snapshot.egress
       /\ job.client = controller /\ snapshot.url = controller
       /\ job.fresh = minted /\ job.fresh = snapshot.id
  /\ job.task \in {"switch", "rollback"} =>
       /\ snapshot.phase = "burning" /\ job.back = snapshot.egress
       /\ job.client = controller /\ snapshot.url # NoClient
       /\ job.fresh = minted /\ snapshot.id < minted
  /\ job.task = "rollback" => job.mode = job.back
  /\ job.task = "navigate" => snapshot.phase = "active" /\ job.client = controller
  /\ job.task = "burn" /\ job.step \in Cleanup =>
       snapshot.phase = "burning" /\ job.client \in {NoClient, controller}
  /\ job.task = "burn" /\ job.step \in {"revoke", "rotate"} => controller = NoClient

\* What the helpers do, as far as the calls answered so far tell.
HelperInv ==
  /\ browser.up /\ ~unsure /\ ~left =>
       /\ browser.mode = net
       /\ \/ snapshot.phase = "active"
          \/ job.task \in {"burn", "switch"} /\ job.step = "stop"
  /\ job.task \in {"start", "switch", "rollback"} /\ job.step = "spawn" =>
       net = job.mode
  /\ job.task = "switch" /\ job.step # "stop" => ~browser.up
  /\ job.task = "burn" /\ job.step \in {"reset", "clear"} /\ job.ok => ~browser.up
  /\ job.task = "burn" /\ job.step = "clear" /\ job.ok => net = Direct
  /\ snapshot.phase = "active" =>
       /\ net = snapshot.egress
       /\ \/ browser.id = snapshot.id /\ browser.mode = snapshot.egress
          \/ unsure /\ browser.id = NoId /\ browser.mode = Direct
  /\ snapshot.phase = "idle" /\ ~crashed =>
       ~browser.up /\ net \in {"drop", Direct} /\ runtime = {}

SessionInv == TypeOK /\ LeaseInv /\ PhaseInv /\ JobInv /\ HelperInv

\* What TypeOK says of the three records.
SnapshotSet == [phase : Phases, id : Nat, url : Nat, egress : Mode,
                blocking : BOOLEAN, auto_burn : BOOLEAN]
JobSet == [task : Tasks, step : Steps, client : Nat, mode : Mode,
           back : Mode, fresh : Nat, ok : BOOLEAN]
BrowserSet == [up : BOOLEAN, id : Nat, mode : Mode]

\* A job and its fields.
IsJob(j, t, s, c, m, b, f) ==
  /\ j \in JobSet /\ j.task = t /\ j.step = s /\ j.client = c
  /\ j.mode = m /\ j.back = b /\ j.fresh = f

\* What a call leaves behind when it is answered with ok, or given up on.
CallOutcome(ok) ==
  /\ browser' \in BrowserSet /\ net' \in Mode \cup {"drop"} /\ runtime' \subseteq Nat
  /\ unsure' \in BOOLEAN /\ left' \in BOOLEAN
  /\ job.step = "stop" =>
       net' = net /\ unsure' = ~ok /\ (ok => ~browser'.up)
  /\ job.step \in {"reset", "clear", "apply"} =>
       browser' = browser /\ unsure' = unsure /\ left' = left
  /\ job.step = "reset" /\ ok => net' = Direct
  /\ job.step = "clear" => net' = net /\ (ok => runtime' = {})
  /\ job.step = "apply" /\ ok => net' = job.mode
  /\ job.step = "spawn" =>
       net' = net /\ unsure' = ~ok /\ (ok => browser' = Tree(job.fresh, job.mode))
  /\ job.step = "load" =>
       /\ net' = net /\ unsure' = (unsure \/ ~ok)
       /\ \/ browser'.id = browser.id /\ browser'.mode = browser.mode
          \/ ~ok /\ browser'.id = NoId /\ browser'.mode = Direct

-----------------------------------------------------------------------------
\* The steps of each task.
LEMMA StepsAre ==
  /\ StepsOf("none") = {"none"}
  /\ StepsOf("start") = {"apply", "spawn"}
  /\ StepsOf("abort") = {"stop", "reset", "clear"}
  /\ StepsOf("burn") = {"mark", "stop", "reset", "clear", "revoke", "rotate"}
  /\ StepsOf("switch") = {"stop", "reset", "clear", "apply", "spawn"}
  /\ StepsOf("rollback") = {"stop", "reset", "clear", "apply", "spawn"}
  /\ StepsOf("navigate") = {"load"}
  BY DEF StepsOf

\* What a step tells of the task, and a task of its steps.
LEMMA StepTask ==
  TypeOK =>
    /\ job.step \in {"mark", "revoke", "rotate"} => job.task = "burn"
    /\ job.step = "load" <=> job.task = "navigate"
    /\ job.step = "none" <=> job.task = "none"
    /\ job.task = "start" => job.step \in {"apply", "spawn"}
    /\ job.task \in {"switch", "rollback"} =>
         job.step \in {"stop", "reset", "clear", "apply", "spawn"}
    /\ job.step \in {"apply", "spawn"} => job.task \in {"start", "switch", "rollback"}
    /\ job.step \in {"stop", "reset", "clear"} =>
         job.task \in {"abort", "burn", "switch", "rollback"}
<1> SUFFICES ASSUME TypeOK PROVE StepTask!2
  OBVIOUS
<1>1. job.task \in Tasks /\ job.step \in StepsOf(job.task)
  BY DEF TypeOK
<1>2. QED
  BY <1>1, StepsAre DEF Tasks

\* The fields of a job written down at once.
LEMMA JobRecord ==
  \A t \in Tasks, s \in Steps, c \in Nat, m \in Mode, b \in Mode, f \in Nat :
    IsJob([task |-> t, step |-> s, client |-> c, mode |-> m, back |-> b,
           fresh |-> f, ok |-> TRUE], t, s, c, m, b, f)
  BY DEF JobSet, IsJob

\* Each call, one by one.
LEMMA CallOutcomes ==
  ASSUME SessionAssumption, TypeOK, NEW ok \in BOOLEAN, Call(ok), Doubt(ok)
  PROVE  CallOutcome(ok)
<1> USE SessionAssumption DEF SessionAssumption
<1>1. /\ job \in JobSet /\ browser \in BrowserSet /\ net \in Mode \cup {"drop"}
      /\ runtime \subseteq Nat /\ unsure \in BOOLEAN /\ left \in BOOLEAN
  BY DEF TypeOK, JobSet, BrowserSet
<1>2. NoBrowser \in BrowserSet /\ ~NoBrowser.up /\ NoBrowser.id = NoId
      /\ NoBrowser.mode = Direct
  BY DEF NoBrowser, BrowserSet, NoId
<1>3. CASE job.step = "stop"
  BY <1>1, <1>2, <1>3 DEF CallOutcome, Call, Doubt, Stop
<1>4. CASE job.step = "reset"
  BY <1>1, <1>4 DEF CallOutcome, Call, Doubt, Route
<1>5. CASE job.step = "clear"
  BY <1>1, <1>5 DEF CallOutcome, Call, Doubt, Clear
<1>6. CASE job.step = "apply"
  BY <1>1, <1>6 DEF CallOutcome, Call, Doubt, Route, JobSet
<1>7. CASE job.step = "spawn"
  <2>1. Tree(job.fresh, job.mode) \in BrowserSet
    BY <1>1 DEF JobSet, Tree, BrowserSet
  <2>2. job.client \in Nat
    BY <1>1 DEF JobSet
  <2>3. QED
    BY <1>1, <1>2, <1>7, <2>1, <2>2 DEF CallOutcome, Call, Doubt, Spawn
<1>8. CASE job.step = "load"
  <2>1. job.client \in Nat
    BY <1>1 DEF JobSet
  <2>2. \A up \in BOOLEAN :
          /\ [browser EXCEPT !.up = up] \in BrowserSet
          /\ [browser EXCEPT !.up = up].id = browser.id
          /\ [browser EXCEPT !.up = up].mode = browser.mode
    BY <1>1 DEF BrowserSet
  <2>3. /\ browser' \in {browser, [browser EXCEPT !.up = FALSE],
                         [browser EXCEPT !.up = TRUE]}
                       \cup IF ok THEN {} ELSE {NoBrowser}
        /\ runtime' = IF browser'.up THEN runtime \cup {job.client} ELSE runtime
        /\ net' = net /\ unsure' = (unsure \/ ~ok) /\ left' = (left /\ browser' = browser)
    BY <1>8 DEF Call, Doubt, Load
  <2>4. /\ browser' \in BrowserSet
        /\ \/ browser'.id = browser.id /\ browser'.mode = browser.mode
           \/ ~ok /\ browser'.id = NoId /\ browser'.mode = Direct
    BY <1>1, <1>2, <2>2, <2>3
  <2>5. QED
    BY <1>1, <1>8, <2>1, <2>3, <2>4 DEF CallOutcome
<1>9. QED
  BY <1>3, <1>4, <1>5, <1>6, <1>7, <1>8 DEF Call

\* A call that a dying daemon leaves behind keeps the types.
LEMMA CallTypes ==
  ASSUME SessionAssumption, TypeOK, Call(FALSE)
  PROVE  browser' \in BrowserSet /\ net' \in Mode \cup {"drop"} /\ runtime' \subseteq Nat
<1> USE SessionAssumption DEF SessionAssumption
<1>1. /\ job \in JobSet /\ browser \in BrowserSet /\ net \in Mode \cup {"drop"}
      /\ runtime \subseteq Nat /\ NoBrowser \in BrowserSet
  BY DEF TypeOK, JobSet, BrowserSet, NoBrowser, NoId
<1>2. /\ Tree(job.fresh, job.mode) \in BrowserSet
      /\ job.client \in Nat /\ job.mode \in Mode
      /\ \A up \in BOOLEAN : [browser EXCEPT !.up = up] \in BrowserSet
  BY <1>1 DEF JobSet, Tree, BrowserSet
<1>3. QED
  BY <1>1, <1>2 DEF Call, Stop, Route, Clear, Spawn, Load

\* A session begins.
LEMMA StartSessionKeeps ==
  ASSUME SessionAssumption, SessionInv, NEW c \in Client, StartSession(c)
  PROVE  SessionInv'
<1> USE DEF StartSession, Validated, sessionVars, leaseVars, helperVars,
    ghostVars, Idle, Free, FreshId, NoClient, NoId, Client, Id, NoBrowser
<1> USE SessionAssumption, StepsAre DEF SessionAssumption
<1>1. /\ TypeOK /\ LeaseInv /\ PhaseInv /\ JobInv /\ HelperInv
      /\ snapshot \in SnapshotSet /\ job \in JobSet /\ browser \in BrowserSet
  BY DEF SessionInv, TypeOK, SnapshotSet, JobSet, BrowserSet
<1>2. job.task = "none" /\ job.step = "none" /\ job.client = 0
  BY DEF NoJob
<1>3. PICK n \in Nat : n = minted + 1
  BY <1>1 DEF TypeOK
<1>4. /\ minted' = n
       /\ snapshot' = [snapshot EXCEPT !.phase = "starting", !.id = n, !.url = c]
       /\ job' = [task |-> "start", step |-> "apply", client |-> c, mode |-> snapshot.egress,
               back |-> Direct, fresh |-> n, ok |-> TRUE]
  BY <1>1, <1>2, <1>3 DEF Hold, NoJob
<1>5. IsJob(job', "start", "apply", c, snapshot.egress, Direct, n)
  <2>1. /\ "start" \in Tasks /\ "apply" \in Steps /\ c \in Nat
        /\ snapshot.egress \in Mode /\ Direct \in Mode
    BY <1>1, <1>2 DEF TypeOK, SnapshotSet, Tasks, Steps, Calls
  <2> HIDE DEF StartSession
  <2>2. QED
    BY <1>4, <2>1, JobRecord
<1>6. /\ snapshot' \in SnapshotSet /\ snapshot'.phase = "starting"
      /\ snapshot'.id = minted + 1 /\ snapshot'.url = c
      /\ snapshot'.egress = snapshot.egress
  <2>1. c \in Nat
    OBVIOUS
  <2> HIDE DEF StartSession
  <2>2. QED
    BY <1>1, <1>3, <1>4, <2>1 DEF SnapshotSet, Phases
<1>7. TypeOK'
  <2>1. snapshot' \in SnapshotSet /\ browser' \in BrowserSet
    BY <1>1, <1>2, <1>5, <1>6 DEF TypeOK
  <2>2. job' \in JobSet /\ job'.step \in StepsOf(job'.task)
    BY <1>1, <1>2, <1>5, <1>6 DEF TypeOK, IsJob
  <2>3. QED
    BY <1>1, <1>2, <1>5, <1>6, <2>1, <2>2 DEF TypeOK, SnapshotSet, JobSet, BrowserSet
<1>8. LeaseInv'
  BY <1>1, <1>2, <1>5, <1>6 DEF TypeOK, LeaseInv, PhaseInv, JobInv, IsJob
<1>9. PhaseInv'
  BY <1>1, <1>2, <1>5, <1>6 DEF TypeOK, LeaseInv, PhaseInv, JobInv, Cleanup, IsJob
<1>10. JobInv'
  BY <1>1, <1>2, <1>5, <1>6 DEF TypeOK, LeaseInv, PhaseInv, JobInv, Cleanup, IsJob
<1>11. HelperInv'
  BY <1>1, <1>2, <1>5, <1>6 DEF TypeOK, LeaseInv, PhaseInv, JobInv, HelperInv, IsJob
<1>12. QED
  BY <1>7, <1>8, <1>9, <1>10, <1>11 DEF SessionInv

\* A navigation takes the mutex.
LEMMA NavigateKeeps ==
  ASSUME SessionAssumption, SessionInv, NEW c \in Client,
         NEW i \in Id, Navigate(c, i)
  PROVE  SessionInv'
<1> USE DEF Navigate, Validated, IsCurrent, ActiveLease, sessionVars,
    leaseVars, helperVars, ghostVars, Idle, Free, FreshId, NoClient, NoId,
    Client, Id, NoBrowser
<1> USE SessionAssumption, StepsAre DEF SessionAssumption
<1>1. /\ TypeOK /\ LeaseInv /\ PhaseInv /\ JobInv /\ HelperInv
      /\ snapshot \in SnapshotSet /\ job \in JobSet /\ browser \in BrowserSet
  BY DEF SessionInv, TypeOK, SnapshotSet, JobSet, BrowserSet
<1>2. job.task = "none" /\ job.step = "none" /\ job.client = 0
  BY DEF NoJob
<1>3. job' = [task |-> "navigate", step |-> "load", client |-> c, mode |-> Direct,
               back |-> Direct, fresh |-> 0, ok |-> TRUE]
  BY <1>1, <1>2 DEF Hold, NoJob
<1>4. IsJob(job', "navigate", "load", c, Direct, Direct, 0)
  <2>1. /\ "navigate" \in Tasks /\ "load" \in Steps /\ c \in Nat
        /\ Direct \in Mode /\ Direct \in Mode /\ 0 \in Nat
    BY <1>1, <1>2 DEF TypeOK, SnapshotSet, Tasks, Steps, Calls
  <2>2. QED
    BY <1>3, <2>1, JobRecord
<1>5. TypeOK'
  <2>1. snapshot' \in SnapshotSet /\ browser' \in BrowserSet
    BY <1>1, <1>2, <1>4 DEF TypeOK
  <2>2. job' \in JobSet /\ job'.step \in StepsOf(job'.task)
    BY <1>1, <1>2, <1>4 DEF TypeOK, IsJob
  <2>3. QED
    BY <1>1, <1>2, <1>4, <2>1, <2>2 DEF TypeOK, SnapshotSet, JobSet, BrowserSet
<1>6. LeaseInv'
  BY <1>1, <1>2, <1>4 DEF TypeOK, LeaseInv, PhaseInv, JobInv, IsJob
<1>7. PhaseInv'
  BY <1>1, <1>2, <1>4 DEF TypeOK, LeaseInv, PhaseInv, JobInv, Cleanup, IsJob
<1>8. JobInv'
  BY <1>1, <1>2, <1>4 DEF TypeOK, LeaseInv, PhaseInv, JobInv, Cleanup, IsJob
<1>9. HelperInv'
  BY <1>1, <1>2, <1>4 DEF TypeOK, LeaseInv, PhaseInv, JobInv, HelperInv, IsJob
<1>10. QED
  BY <1>5, <1>6, <1>7, <1>8, <1>9 DEF SessionInv

\* A switch marks an active session, which always has a page to come back to.
LEMMA SwitchEgressKeeps ==
  ASSUME SessionAssumption, SessionInv, NEW c \in Client, NEW i \in Id,
         NEW m \in Mode, SwitchEgress(c, i, m)
  PROVE  SessionInv'
<1> USE DEF SwitchEgress, Validated, IsCurrent, ActiveLease, sessionVars,
    leaseVars, helperVars, ghostVars, Idle, Free, FreshId, NoClient, NoId,
    Client, Id, NoBrowser
<1> USE SessionAssumption, StepsAre DEF SessionAssumption
<1>1. /\ TypeOK /\ LeaseInv /\ PhaseInv /\ JobInv /\ HelperInv
      /\ snapshot \in SnapshotSet /\ job \in JobSet /\ browser \in BrowserSet
  BY DEF SessionInv, TypeOK, SnapshotSet, JobSet, BrowserSet
<1>2. snapshot.url # 0 /\ minted' = minted + 1
  BY <1>1 DEF PhaseInv
<1>3. job.task = "none" /\ job.step = "none" /\ job.client = 0
  BY DEF NoJob
<1>4. job' = [task |-> "switch", step |-> "stop", client |-> c, mode |-> m,
               back |-> snapshot.egress, fresh |-> minted + 1, ok |-> TRUE]
  BY <1>1, <1>2, <1>3 DEF Hold, NoJob
<1>5. IsJob(job', "switch", "stop", c, m, snapshot.egress, minted + 1)
  <2>1. /\ "switch" \in Tasks /\ "stop" \in Steps /\ c \in Nat
        /\ m \in Mode /\ snapshot.egress \in Mode /\ minted + 1 \in Nat
    BY <1>1, <1>2, <1>3 DEF TypeOK, SnapshotSet, Tasks, Steps, Calls
  <2>2. QED
    BY <1>4, <2>1, JobRecord
<1>6. /\ snapshot' \in SnapshotSet /\ snapshot'.phase = "burning"
      /\ snapshot'.id = snapshot.id /\ snapshot'.url = snapshot.url
      /\ snapshot'.egress = snapshot.egress
  BY <1>1, <1>2, <1>3, <1>5 DEF SnapshotSet, JobSet, Phases, TypeOK
<1>7. TypeOK'
  <2>1. snapshot' \in SnapshotSet /\ browser' \in BrowserSet
    BY <1>1, <1>2, <1>3, <1>5, <1>6 DEF TypeOK
  <2>2. job' \in JobSet /\ job'.step \in StepsOf(job'.task)
    BY <1>1, <1>2, <1>3, <1>5, <1>6 DEF TypeOK, IsJob
  <2>3. QED
    BY <1>1, <1>2, <1>3, <1>5, <1>6, <2>1, <2>2
       DEF TypeOK, SnapshotSet, JobSet, BrowserSet
<1>8. LeaseInv'
  BY <1>1, <1>2, <1>3, <1>5, <1>6 DEF TypeOK, LeaseInv, PhaseInv, JobInv, IsJob
<1>9. PhaseInv'
  BY <1>1, <1>2, <1>3, <1>5, <1>6
     DEF TypeOK, LeaseInv, PhaseInv, JobInv, Cleanup, IsJob
<1>10. JobInv'
  BY <1>1, <1>2, <1>3, <1>5, <1>6
     DEF TypeOK, LeaseInv, PhaseInv, JobInv, Cleanup, IsJob
<1>11. HelperInv'
  BY <1>1, <1>2, <1>3, <1>5, <1>6
     DEF TypeOK, LeaseInv, PhaseInv, JobInv, HelperInv, IsJob
<1>12. QED
  BY <1>7, <1>8, <1>9, <1>10, <1>11 DEF SessionInv

\* A burn that a client asks for takes the mutex.
LEMMA BurnKeeps ==
  ASSUME SessionAssumption, SessionInv, NEW c \in Client, NEW i \in Id, Burn(c, i)
  PROVE  SessionInv'
<1> USE DEF Burn, Validated, IsCurrent, sessionVars, leaseVars, helperVars,
    ghostVars, Idle, Free, FreshId, NoClient, NoId, Client, Id, NoBrowser
<1> USE SessionAssumption, StepsAre DEF SessionAssumption
<1>1. /\ TypeOK /\ LeaseInv /\ PhaseInv /\ JobInv /\ HelperInv
      /\ snapshot \in SnapshotSet /\ job \in JobSet /\ browser \in BrowserSet
  BY DEF SessionInv, TypeOK, SnapshotSet, JobSet, BrowserSet
<1>2. job.task = "none" /\ job.step = "none" /\ job.client = 0
  BY DEF NoJob
<1>3. job' = [task |-> "burn", step |-> "mark", client |-> c, mode |-> Direct,
               back |-> Direct, fresh |-> 0, ok |-> TRUE]
  BY <1>1, <1>2 DEF Hold, NoJob
<1>4. IsJob(job', "burn", "mark", c, Direct, Direct, 0)
  <2>1. /\ "burn" \in Tasks /\ "mark" \in Steps /\ c \in Nat
        /\ Direct \in Mode /\ Direct \in Mode /\ 0 \in Nat
    BY <1>1, <1>2 DEF TypeOK, SnapshotSet, Tasks, Steps, Calls
  <2>2. QED
    BY <1>3, <2>1, JobRecord
<1>5. TypeOK'
  <2>1. snapshot' \in SnapshotSet /\ browser' \in BrowserSet
    BY <1>1, <1>2, <1>4 DEF TypeOK
  <2>2. job' \in JobSet /\ job'.step \in StepsOf(job'.task)
    BY <1>1, <1>2, <1>4 DEF TypeOK, IsJob
  <2>3. QED
    BY <1>1, <1>2, <1>4, <2>1, <2>2 DEF TypeOK, SnapshotSet, JobSet, BrowserSet
<1>6. LeaseInv'
  BY <1>1, <1>2, <1>4 DEF TypeOK, LeaseInv, PhaseInv, JobInv, IsJob
<1>7. PhaseInv'
  BY <1>1, <1>2, <1>4 DEF TypeOK, LeaseInv, PhaseInv, JobInv, Cleanup, IsJob
<1>8. JobInv'
  BY <1>1, <1>2, <1>4 DEF TypeOK, LeaseInv, PhaseInv, JobInv, Cleanup, IsJob
<1>9. HelperInv'
  BY <1>1, <1>2, <1>4 DEF TypeOK, LeaseInv, PhaseInv, JobInv, HelperInv, IsJob
<1>10. QED
  BY <1>5, <1>6, <1>7, <1>8, <1>9 DEF SessionInv

\* A setting is asked for.
LEMMA AskKeeps ==
  ASSUME SessionAssumption, SessionInv, NEW c \in Client, NEW i \in Id, Ask(c, i)
  PROVE  SessionInv'
<1> USE DEF Ask, Validated, IsCurrent, sessionVars, leaseVars, helperVars,
    ghostVars, Idle, Free, FreshId, NoClient, NoId, Client, Id, NoBrowser
<1> USE SessionAssumption, StepsAre DEF SessionAssumption
<1>1. /\ TypeOK /\ LeaseInv /\ PhaseInv /\ JobInv /\ HelperInv
      /\ snapshot \in SnapshotSet /\ job \in JobSet /\ browser \in BrowserSet
  BY DEF SessionInv, TypeOK, SnapshotSet, JobSet, BrowserSet
<1>2. TypeOK'
  <2>1. snapshot' \in SnapshotSet /\ browser' \in BrowserSet
    BY <1>1 DEF TypeOK
  <2>2. job' \in JobSet /\ job'.step \in StepsOf(job'.task)
    BY <1>1 DEF TypeOK
  <2>3. QED
    BY <1>1, <2>1, <2>2 DEF TypeOK, SnapshotSet, JobSet, BrowserSet
<1>3. LeaseInv'
  BY <1>1 DEF TypeOK, LeaseInv, PhaseInv, JobInv
<1>4. PhaseInv'
  BY <1>1 DEF TypeOK, LeaseInv, PhaseInv, JobInv, Cleanup
<1>5. JobInv'
  BY <1>1 DEF TypeOK, LeaseInv, PhaseInv, JobInv, Cleanup
<1>6. HelperInv'
  BY <1>1 DEF TypeOK, LeaseInv, PhaseInv, JobInv, HelperInv
<1>7. QED
  BY <1>2, <1>3, <1>4, <1>5, <1>6 DEF SessionInv

\* The blocklist is switched.
LEMMA SetBlocklistKeeps ==
  ASSUME SessionAssumption, SessionInv, NEW r \in asked,
         NEW on \in BOOLEAN, SetBlocklist(r, on)
  PROVE  SessionInv'
<1> USE DEF SetBlocklist, Set, ActiveLease, sessionVars, leaseVars,
    helperVars, ghostVars, Idle, Free, FreshId, NoClient, NoId, Client, Id,
    NoBrowser
<1> USE SessionAssumption, StepsAre DEF SessionAssumption
<1>1. /\ TypeOK /\ LeaseInv /\ PhaseInv /\ JobInv /\ HelperInv
      /\ snapshot \in SnapshotSet /\ job \in JobSet /\ browser \in BrowserSet
  BY DEF SessionInv, TypeOK, SnapshotSet, JobSet, BrowserSet
<1>2. /\ snapshot' \in SnapshotSet /\ snapshot'.blocking = on
      /\ snapshot'.phase = snapshot.phase /\ snapshot'.id = snapshot.id
      /\ snapshot'.url = snapshot.url /\ snapshot'.egress = snapshot.egress
  BY <1>1 DEF SnapshotSet, JobSet, Phases, TypeOK
<1>3. disabled' \in Nat
  BY <1>1, <1>2 DEF TypeOK
<1>4. TypeOK'
  <2>1. snapshot' \in SnapshotSet /\ browser' \in BrowserSet
    BY <1>1, <1>2, <1>3 DEF TypeOK
  <2>2. job' \in JobSet /\ job'.step \in StepsOf(job'.task)
    BY <1>1, <1>2, <1>3 DEF TypeOK
  <2>3. QED
    BY <1>1, <1>2, <1>3, <2>1, <2>2 DEF TypeOK, SnapshotSet, JobSet, BrowserSet
<1>5. LeaseInv'
  BY <1>1, <1>2, <1>3 DEF TypeOK, LeaseInv, PhaseInv, JobInv
<1>6. PhaseInv'
  BY <1>1, <1>2, <1>3 DEF TypeOK, LeaseInv, PhaseInv, JobInv, Cleanup
<1>7. JobInv'
  BY <1>1, <1>2, <1>3 DEF TypeOK, LeaseInv, PhaseInv, JobInv, Cleanup
<1>8. HelperInv'
  BY <1>1, <1>2, <1>3 DEF TypeOK, LeaseInv, PhaseInv, JobInv, HelperInv
<1>9. QED
  BY <1>4, <1>5, <1>6, <1>7, <1>8 DEF SessionInv

\* The inactivity burn is switched.
LEMMA SetAutoBurnKeeps ==
  ASSUME SessionAssumption, SessionInv, NEW r \in asked,
         NEW on \in BOOLEAN, SetAutoBurn(r, on)
  PROVE  SessionInv'
<1> USE DEF SetAutoBurn, Set, ActiveLease, sessionVars, leaseVars, helperVars,
    ghostVars, Idle, Free, FreshId, NoClient, NoId, Client, Id, NoBrowser
<1> USE SessionAssumption, StepsAre DEF SessionAssumption
<1>1. /\ TypeOK /\ LeaseInv /\ PhaseInv /\ JobInv /\ HelperInv
      /\ snapshot \in SnapshotSet /\ job \in JobSet /\ browser \in BrowserSet
  BY DEF SessionInv, TypeOK, SnapshotSet, JobSet, BrowserSet
<1>2. /\ snapshot' \in SnapshotSet /\ snapshot'.auto_burn = on
      /\ snapshot'.phase = snapshot.phase /\ snapshot'.id = snapshot.id
      /\ snapshot'.url = snapshot.url /\ snapshot'.egress = snapshot.egress
  BY <1>1 DEF SnapshotSet, JobSet, Phases, TypeOK
<1>3. TypeOK'
  <2>1. snapshot' \in SnapshotSet /\ browser' \in BrowserSet
    BY <1>1, <1>2 DEF TypeOK
  <2>2. job' \in JobSet /\ job'.step \in StepsOf(job'.task)
    BY <1>1, <1>2 DEF TypeOK
  <2>3. QED
    BY <1>1, <1>2, <2>1, <2>2 DEF TypeOK, SnapshotSet, JobSet, BrowserSet
<1>4. LeaseInv'
  BY <1>1, <1>2 DEF TypeOK, LeaseInv, PhaseInv, JobInv
<1>5. PhaseInv'
  BY <1>1, <1>2 DEF TypeOK, LeaseInv, PhaseInv, JobInv, Cleanup
<1>6. JobInv'
  BY <1>1, <1>2 DEF TypeOK, LeaseInv, PhaseInv, JobInv, Cleanup
<1>7. HelperInv'
  BY <1>1, <1>2 DEF TypeOK, LeaseInv, PhaseInv, JobInv, HelperInv
<1>8. QED
  BY <1>3, <1>4, <1>5, <1>6, <1>7 DEF SessionInv

\* A setting is refused or dropped.
LEMMA RefuseKeeps ==
  ASSUME SessionAssumption, SessionInv, NEW r \in asked, Refuse(r)
  PROVE  SessionInv'
<1> USE DEF Refuse, sessionVars, leaseVars, helperVars, ghostVars, Idle, Free,
    FreshId, NoClient, NoId, Client, Id, NoBrowser
<1> USE SessionAssumption, StepsAre DEF SessionAssumption
<1>1. /\ TypeOK /\ LeaseInv /\ PhaseInv /\ JobInv /\ HelperInv
      /\ snapshot \in SnapshotSet /\ job \in JobSet /\ browser \in BrowserSet
  BY DEF SessionInv, TypeOK, SnapshotSet, JobSet, BrowserSet
<1>2. TypeOK'
  <2>1. snapshot' \in SnapshotSet /\ browser' \in BrowserSet
    BY <1>1 DEF TypeOK
  <2>2. job' \in JobSet /\ job'.step \in StepsOf(job'.task)
    BY <1>1 DEF TypeOK
  <2>3. QED
    BY <1>1, <2>1, <2>2 DEF TypeOK, SnapshotSet, JobSet, BrowserSet
<1>3. LeaseInv'
  BY <1>1 DEF TypeOK, LeaseInv, PhaseInv, JobInv
<1>4. PhaseInv'
  BY <1>1 DEF TypeOK, LeaseInv, PhaseInv, JobInv, Cleanup
<1>5. JobInv'
  BY <1>1 DEF TypeOK, LeaseInv, PhaseInv, JobInv, Cleanup
<1>6. HelperInv'
  BY <1>1 DEF TypeOK, LeaseInv, PhaseInv, JobInv, HelperInv
<1>7. QED
  BY <1>2, <1>3, <1>4, <1>5, <1>6 DEF SessionInv

\* The browser of a new session is up.
LEMMA StartedKeeps ==
  ASSUME SessionAssumption, SessionInv, Started
  PROVE  SessionInv'
<1> USE DEF Started, Perform, sessionVars, leaseVars, helperVars, ghostVars,
    Idle, Free, FreshId, NoClient, NoId, Client, Id, NoBrowser
<1> USE SessionAssumption, StepsAre DEF SessionAssumption
<1>1. /\ TypeOK /\ LeaseInv /\ PhaseInv /\ JobInv /\ HelperInv
      /\ snapshot \in SnapshotSet /\ job \in JobSet /\ browser \in BrowserSet
  BY DEF SessionInv, TypeOK, SnapshotSet, JobSet, BrowserSet
<1>2. CallOutcome(TRUE)
  BY <1>1, CallOutcomes DEF Perform
<1>3. /\ job' = NoJob /\ job' \in JobSet /\ job'.task = "none" /\ job'.client = 0
      /\ job'.step = "none"
  BY DEF JobSet, Tasks, Steps, Calls, Free, NoJob
<1>4. /\ snapshot' \in SnapshotSet /\ snapshot'.phase = "active"
      /\ snapshot'.id = snapshot.id /\ snapshot'.url = snapshot.url
      /\ snapshot'.egress = snapshot.egress
  BY <1>1, <1>2, <1>3 DEF SnapshotSet, JobSet, Phases, TypeOK
<1>5. TypeOK'
  <2>1. snapshot' \in SnapshotSet /\ browser' \in BrowserSet
    BY <1>1, <1>2, <1>3, <1>4 DEF CallOutcome
  <2>2. job' \in JobSet /\ job'.step \in StepsOf(job'.task)
    BY <1>1, <1>2, <1>3, <1>4 DEF TypeOK
  <2>3. QED
    BY <1>1, <1>2, <1>3, <1>4, <2>1, <2>2
       DEF TypeOK, SnapshotSet, JobSet, BrowserSet, CallOutcome
<1>6. LeaseInv'
  BY <1>1, <1>2, <1>3, <1>4 DEF TypeOK, LeaseInv, PhaseInv, JobInv
<1>7. PhaseInv'
  BY <1>1, <1>2, <1>3, <1>4 DEF TypeOK, LeaseInv, PhaseInv, JobInv, Cleanup
<1>8. JobInv'
  BY <1>1, <1>2, <1>3, <1>4 DEF TypeOK, LeaseInv, PhaseInv, JobInv, Cleanup
<1>9. HelperInv'
  BY <1>1, <1>2, <1>3, <1>4
     DEF TypeOK, LeaseInv, PhaseInv, JobInv, HelperInv, CallOutcome, Tree
<1>10. QED
  BY <1>5, <1>6, <1>7, <1>8, <1>9 DEF SessionInv

\* A start fails and is cleaned up after.
LEMMA StartFailedKeeps ==
  ASSUME SessionAssumption, SessionInv, StartFailed
  PROVE  SessionInv'
<1> USE DEF StartFailed, Perform, sessionVars, leaseVars, helperVars,
    ghostVars, Idle, Free, FreshId, NoClient, NoId, Client, Id, NoBrowser
<1> USE SessionAssumption, StepsAre DEF SessionAssumption
<1>1. /\ TypeOK /\ LeaseInv /\ PhaseInv /\ JobInv /\ HelperInv
      /\ snapshot \in SnapshotSet /\ job \in JobSet /\ browser \in BrowserSet
  BY DEF SessionInv, TypeOK, SnapshotSet, JobSet, BrowserSet
<1>2. CallOutcome(FALSE)
  BY <1>1, CallOutcomes DEF Perform
<1>3. job.step \in {"apply", "spawn"}
  BY <1>1, <1>2, StepTask
<1>4. /\ job' \in JobSet /\ job'.task = "abort"
      /\ job'.step \in {"reset", "stop"} /\ job'.client = job.client
      /\ job'.mode = job.mode /\ job'.back = job.back
      /\ job'.fresh = job.fresh /\ job'.ok \in BOOLEAN
  BY <1>1, <1>2, <1>3 DEF JobSet, Tasks, Steps, Calls, TypeOK
<1>5. TypeOK'
  <2>1. snapshot' \in SnapshotSet /\ browser' \in BrowserSet
    BY <1>1, <1>2, <1>3, <1>4 DEF CallOutcome
  <2>2. job' \in JobSet /\ job'.step \in StepsOf(job'.task)
    BY <1>1, <1>2, <1>3, <1>4 DEF TypeOK
  <2>3. QED
    BY <1>1, <1>2, <1>3, <1>4, <2>1, <2>2
       DEF TypeOK, SnapshotSet, JobSet, BrowserSet, CallOutcome
<1>6. LeaseInv'
  BY <1>1, <1>2, <1>3, <1>4 DEF TypeOK, LeaseInv, PhaseInv, JobInv
<1>7. PhaseInv'
  BY <1>1, <1>2, <1>3, <1>4 DEF TypeOK, LeaseInv, PhaseInv, JobInv, Cleanup
<1>8. JobInv'
  BY <1>1, <1>2, <1>3, <1>4 DEF TypeOK, LeaseInv, PhaseInv, JobInv, Cleanup
<1>9. HelperInv'
  BY <1>1, <1>2, <1>3, <1>4
     DEF TypeOK, LeaseInv, PhaseInv, JobInv, HelperInv, CallOutcome, Tree
<1>10. QED
  BY <1>5, <1>6, <1>7, <1>8, <1>9 DEF SessionInv

\* The cleanup of a failed start ends.
LEMMA AbortedKeeps ==
  ASSUME SessionAssumption, SessionInv, NEW ok \in BOOLEAN, Aborted(ok)
  PROVE  SessionInv'
<1> USE DEF Aborted, Perform, sessionVars, leaseVars, helperVars, ghostVars,
    Idle, Free, FreshId, NoClient, NoId, Client, Id, NoBrowser
<1> USE SessionAssumption, StepsAre DEF SessionAssumption
<1>1. /\ TypeOK /\ LeaseInv /\ PhaseInv /\ JobInv /\ HelperInv
      /\ snapshot \in SnapshotSet /\ job \in JobSet /\ browser \in BrowserSet
  BY DEF SessionInv, TypeOK, SnapshotSet, JobSet, BrowserSet
<1>2. CallOutcome(ok)
  BY <1>1, CallOutcomes DEF Perform
<1>3. /\ job' = NoJob /\ job' \in JobSet /\ job'.task = "none" /\ job'.client = 0
      /\ job'.step = "none"
  BY DEF JobSet, Tasks, Steps, Calls, Free, NoJob
<1>4. /\ snapshot' \in SnapshotSet /\ snapshot'.phase = "failed"
      /\ snapshot'.id = snapshot.id /\ snapshot'.url = snapshot.url
      /\ snapshot'.egress = snapshot.egress
  BY <1>1, <1>2, <1>3 DEF SnapshotSet, JobSet, Phases, TypeOK
<1>5. TypeOK'
  <2>1. snapshot' \in SnapshotSet /\ browser' \in BrowserSet
    BY <1>1, <1>2, <1>3, <1>4 DEF CallOutcome
  <2>2. job' \in JobSet /\ job'.step \in StepsOf(job'.task)
    BY <1>1, <1>2, <1>3, <1>4 DEF TypeOK
  <2>3. QED
    BY <1>1, <1>2, <1>3, <1>4, <2>1, <2>2
       DEF TypeOK, SnapshotSet, JobSet, BrowserSet, CallOutcome
<1>6. LeaseInv'
  BY <1>1, <1>2, <1>3, <1>4 DEF TypeOK, LeaseInv, PhaseInv, JobInv
<1>7. PhaseInv'
  BY <1>1, <1>2, <1>3, <1>4 DEF TypeOK, LeaseInv, PhaseInv, JobInv, Cleanup
<1>8. JobInv'
  BY <1>1, <1>2, <1>3, <1>4 DEF TypeOK, LeaseInv, PhaseInv, JobInv, Cleanup
<1>9. HelperInv'
  BY <1>1, <1>2, <1>3, <1>4
     DEF TypeOK, LeaseInv, PhaseInv, JobInv, HelperInv, CallOutcome, Tree
<1>10. QED
  BY <1>5, <1>6, <1>7, <1>8, <1>9 DEF SessionInv

\* A navigation is answered.
LEMMA NavigatedKeeps ==
  ASSUME SessionAssumption, SessionInv, NEW ok \in BOOLEAN, Navigated(ok)
  PROVE  SessionInv'
<1> USE DEF Navigated, Perform, sessionVars, leaseVars, helperVars, ghostVars,
    Idle, Free, FreshId, NoClient, NoId, Client, Id, NoBrowser
<1> USE SessionAssumption, StepsAre DEF SessionAssumption
<1>1. /\ TypeOK /\ LeaseInv /\ PhaseInv /\ JobInv /\ HelperInv
      /\ snapshot \in SnapshotSet /\ job \in JobSet /\ browser \in BrowserSet
  BY DEF SessionInv, TypeOK, SnapshotSet, JobSet, BrowserSet
<1>2. CallOutcome(ok)
  BY <1>1, CallOutcomes DEF Perform
<1>3. /\ job' = NoJob /\ job' \in JobSet /\ job'.task = "none" /\ job'.client = 0
      /\ job'.step = "none"
  BY DEF JobSet, Tasks, Steps, Calls, Free, NoJob
<1>4. job.step = "load"
  BY <1>1, <1>2, <1>3, StepTask
<1>5. /\ snapshot' \in SnapshotSet /\ snapshot'.phase = snapshot.phase
      /\ snapshot'.id = snapshot.id
      /\ snapshot'.url \in {snapshot.url, job.client}
      /\ snapshot'.egress = snapshot.egress
  BY <1>1, <1>2, <1>3, <1>4 DEF SnapshotSet, JobSet
<1>6. TypeOK'
  <2>1. snapshot' \in SnapshotSet /\ browser' \in BrowserSet
    BY <1>1, <1>2, <1>3, <1>4, <1>5 DEF CallOutcome
  <2>2. job' \in JobSet /\ job'.step \in StepsOf(job'.task)
    BY <1>1, <1>2, <1>3, <1>4, <1>5 DEF TypeOK
  <2>3. QED
    BY <1>1, <1>2, <1>3, <1>4, <1>5, <2>1, <2>2
       DEF TypeOK, SnapshotSet, JobSet, BrowserSet, CallOutcome
<1>7. LeaseInv'
  BY <1>1, <1>2, <1>3, <1>4, <1>5 DEF TypeOK, LeaseInv, PhaseInv, JobInv
<1>8. PhaseInv'
  BY <1>1, <1>2, <1>3, <1>4, <1>5 DEF TypeOK, LeaseInv, PhaseInv, JobInv, Cleanup
<1>9. JobInv'
  BY <1>1, <1>2, <1>3, <1>4, <1>5 DEF TypeOK, LeaseInv, PhaseInv, JobInv, Cleanup
<1>10. HelperInv'
  BY <1>1, <1>2, <1>3, <1>4, <1>5
     DEF TypeOK, LeaseInv, PhaseInv, JobInv, HelperInv, CallOutcome, Tree
<1>11. QED
  BY <1>6, <1>7, <1>8, <1>9, <1>10 DEF SessionInv

\* A switch or its rollback comes back with a browser of its own.
LEMMA SwitchedKeeps ==
  ASSUME SessionAssumption, SessionInv, Switched
  PROVE  SessionInv'
<1> USE DEF Switched, Perform, sessionVars, leaseVars, helperVars, ghostVars,
    Idle, Free, FreshId, NoClient, NoId, Client, Id, NoBrowser
<1> USE SessionAssumption, StepsAre DEF SessionAssumption
<1>1. /\ TypeOK /\ LeaseInv /\ PhaseInv /\ JobInv /\ HelperInv
      /\ snapshot \in SnapshotSet /\ job \in JobSet /\ browser \in BrowserSet
  BY DEF SessionInv, TypeOK, SnapshotSet, JobSet, BrowserSet
<1>2. CallOutcome(TRUE)
  BY <1>1, CallOutcomes DEF Perform
<1>3. /\ job' = NoJob /\ job' \in JobSet /\ job'.task = "none" /\ job'.client = 0
      /\ job'.step = "none"
  BY DEF JobSet, Tasks, Steps, Calls, Free, NoJob
<1>4. /\ snapshot' \in SnapshotSet /\ snapshot'.phase = "active"
      /\ snapshot'.id = job.fresh /\ snapshot'.egress = job.mode
      /\ snapshot'.url = snapshot.url
  BY <1>1, <1>2, <1>3 DEF SnapshotSet, JobSet, Phases, TypeOK
<1>5. TypeOK'
  <2>1. snapshot' \in SnapshotSet /\ browser' \in BrowserSet
    BY <1>1, <1>2, <1>3, <1>4 DEF CallOutcome
  <2>2. job' \in JobSet /\ job'.step \in StepsOf(job'.task)
    BY <1>1, <1>2, <1>3, <1>4 DEF TypeOK
  <2>3. QED
    BY <1>1, <1>2, <1>3, <1>4, <2>1, <2>2
       DEF TypeOK, SnapshotSet, JobSet, BrowserSet, CallOutcome
<1>6. LeaseInv'
  BY <1>1, <1>2, <1>3, <1>4 DEF TypeOK, LeaseInv, PhaseInv, JobInv
<1>7. PhaseInv'
  BY <1>1, <1>2, <1>3, <1>4 DEF TypeOK, LeaseInv, PhaseInv, JobInv, Cleanup
<1>8. JobInv'
  BY <1>1, <1>2, <1>3, <1>4 DEF TypeOK, LeaseInv, PhaseInv, JobInv, Cleanup
<1>9. HelperInv'
  BY <1>1, <1>2, <1>3, <1>4
     DEF TypeOK, LeaseInv, PhaseInv, JobInv, HelperInv, CallOutcome, Tree
<1>10. QED
  BY <1>5, <1>6, <1>7, <1>8, <1>9 DEF SessionInv

\* A switch fails and is rolled back, under one more id.
LEMMA SwitchFailedKeeps ==
  ASSUME SessionAssumption, SessionInv, SwitchFailed
  PROVE  SessionInv'
<1> USE DEF SwitchFailed, Perform, sessionVars, leaseVars, helperVars,
    ghostVars, Idle, Free, FreshId, NoClient, NoId, Client, Id, NoBrowser
<1> USE SessionAssumption, StepsAre DEF SessionAssumption
<1>1. /\ TypeOK /\ LeaseInv /\ PhaseInv /\ JobInv /\ HelperInv
      /\ snapshot \in SnapshotSet /\ job \in JobSet /\ browser \in BrowserSet
  BY DEF SessionInv, TypeOK, SnapshotSet, JobSet, BrowserSet
<1>2. CallOutcome(FALSE)
  BY <1>1, CallOutcomes DEF Perform
<1>3. minted' = minted + 1 /\ minted + 1 \in Nat
  BY <1>1, <1>2 DEF TypeOK
<1>4. job.step \in Calls \ {"load"}
  BY <1>1, <1>2, <1>3, StepTask DEF Calls
<1>5. /\ job' \in JobSet /\ job'.task = "rollback" /\ job'.step = "stop"
      /\ job'.client = job.client /\ job'.mode = job.back
      /\ job'.back = job.back /\ job'.fresh = minted + 1 /\ job'.ok = job.ok
  BY <1>1, <1>2, <1>3, <1>4 DEF JobSet, Tasks, Steps, Calls, TypeOK
<1>6. TypeOK'
  <2>1. snapshot' \in SnapshotSet /\ browser' \in BrowserSet
    BY <1>1, <1>2, <1>3, <1>4, <1>5 DEF CallOutcome
  <2>2. job' \in JobSet /\ job'.step \in StepsOf(job'.task)
    BY <1>1, <1>2, <1>3, <1>4, <1>5 DEF TypeOK
  <2>3. QED
    BY <1>1, <1>2, <1>3, <1>4, <1>5, <2>1, <2>2
       DEF TypeOK, SnapshotSet, JobSet, BrowserSet, CallOutcome
<1>7. LeaseInv'
  BY <1>1, <1>2, <1>3, <1>4, <1>5 DEF TypeOK, LeaseInv, PhaseInv, JobInv
<1>8. PhaseInv'
  BY <1>1, <1>2, <1>3, <1>4, <1>5 DEF TypeOK, LeaseInv, PhaseInv, JobInv, Cleanup
<1>9. JobInv'
  BY <1>1, <1>2, <1>3, <1>4, <1>5 DEF TypeOK, LeaseInv, PhaseInv, JobInv, Cleanup
<1>10. HelperInv'
  BY <1>1, <1>2, <1>3, <1>4, <1>5
     DEF TypeOK, LeaseInv, PhaseInv, JobInv, HelperInv, CallOutcome, Tree
<1>11. QED
  BY <1>6, <1>7, <1>8, <1>9, <1>10 DEF SessionInv

\* A rollback fails.
LEMMA RollbackFailedKeeps ==
  ASSUME SessionAssumption, SessionInv, RollbackFailed
  PROVE  SessionInv'
<1> USE DEF RollbackFailed, Perform, sessionVars, leaseVars, helperVars,
    ghostVars, Idle, Free, FreshId, NoClient, NoId, Client, Id, NoBrowser
<1> USE SessionAssumption, StepsAre DEF SessionAssumption
<1>1. /\ TypeOK /\ LeaseInv /\ PhaseInv /\ JobInv /\ HelperInv
      /\ snapshot \in SnapshotSet /\ job \in JobSet /\ browser \in BrowserSet
  BY DEF SessionInv, TypeOK, SnapshotSet, JobSet, BrowserSet
<1>2. CallOutcome(FALSE)
  BY <1>1, CallOutcomes DEF Perform
<1>3. /\ job' = NoJob /\ job' \in JobSet /\ job'.task = "none" /\ job'.client = 0
      /\ job'.step = "none"
  BY DEF JobSet, Tasks, Steps, Calls, Free, NoJob
<1>4. job.step \in Calls \ {"load", "stop"}
  BY <1>1, <1>2, <1>3, StepTask DEF Calls
<1>5. /\ snapshot' \in SnapshotSet /\ snapshot'.phase = "failed"
      /\ snapshot'.id = snapshot.id /\ snapshot'.url = snapshot.url
      /\ snapshot'.egress = snapshot.egress
  BY <1>1, <1>2, <1>3, <1>4 DEF SnapshotSet, JobSet, Phases, TypeOK
<1>6. TypeOK'
  <2>1. snapshot' \in SnapshotSet /\ browser' \in BrowserSet
    BY <1>1, <1>2, <1>3, <1>4, <1>5 DEF CallOutcome
  <2>2. job' \in JobSet /\ job'.step \in StepsOf(job'.task)
    BY <1>1, <1>2, <1>3, <1>4, <1>5 DEF TypeOK
  <2>3. QED
    BY <1>1, <1>2, <1>3, <1>4, <1>5, <2>1, <2>2
       DEF TypeOK, SnapshotSet, JobSet, BrowserSet, CallOutcome
<1>7. LeaseInv'
  BY <1>1, <1>2, <1>3, <1>4, <1>5 DEF TypeOK, LeaseInv, PhaseInv, JobInv
<1>8. PhaseInv'
  BY <1>1, <1>2, <1>3, <1>4, <1>5 DEF TypeOK, LeaseInv, PhaseInv, JobInv, Cleanup
<1>9. JobInv'
  BY <1>1, <1>2, <1>3, <1>4, <1>5 DEF TypeOK, LeaseInv, PhaseInv, JobInv, Cleanup
<1>10. HelperInv'
  BY <1>1, <1>2, <1>3, <1>4, <1>5
     DEF TypeOK, LeaseInv, PhaseInv, JobInv, HelperInv, CallOutcome, Tree
<1>11. QED
  BY <1>6, <1>7, <1>8, <1>9, <1>10 DEF SessionInv

\* A burn reaches its verdict.
LEMMA BurntKeeps ==
  ASSUME SessionAssumption, SessionInv, NEW ok \in BOOLEAN, Burnt(ok)
  PROVE  SessionInv'
<1> USE DEF Burnt, Forget, Verdict, sessionVars, leaseVars, helperVars,
    ghostVars, Idle, Free, FreshId, NoClient, NoId, Client, Id, NoBrowser
<1> USE SessionAssumption, StepsAre DEF SessionAssumption
<1>1. /\ TypeOK /\ LeaseInv /\ PhaseInv /\ JobInv /\ HelperInv
      /\ snapshot \in SnapshotSet /\ job \in JobSet /\ browser \in BrowserSet
  BY DEF SessionInv, TypeOK, SnapshotSet, JobSet, BrowserSet
<1>2. CallOutcome(ok)
  BY <1>1, CallOutcomes DEF Perform
<1>3. /\ job' \in JobSet /\ job'.task = job.task /\ job'.step = "revoke"
      /\ job'.client = job.client /\ job'.mode = job.mode
      /\ job'.back = job.back /\ job'.fresh = job.fresh /\ job'.ok = job.ok
  BY <1>1, <1>2 DEF JobSet, Tasks, Steps, Calls, TypeOK
<1>4. /\ snapshot' \in SnapshotSet
      /\ snapshot'.phase = IF job.ok /\ ok THEN "idle" ELSE "failed"
      /\ snapshot'.id = 0 /\ snapshot'.url = 0
      /\ snapshot'.phase = "idle" => snapshot' = DefaultSnapshot
  BY <1>1, <1>2, <1>3 DEF SnapshotSet, DefaultSnapshot, Phases
<1>5. TypeOK'
  <2>1. snapshot' \in SnapshotSet /\ browser' \in BrowserSet
    BY <1>1, <1>2, <1>3, <1>4 DEF CallOutcome
  <2>2. job' \in JobSet /\ job'.step \in StepsOf(job'.task)
    BY <1>1, <1>2, <1>3, <1>4 DEF TypeOK
  <2>3. QED
    BY <1>1, <1>2, <1>3, <1>4, <2>1, <2>2
       DEF TypeOK, SnapshotSet, JobSet, BrowserSet, CallOutcome
<1>6. LeaseInv'
  BY <1>1, <1>2, <1>3, <1>4 DEF TypeOK, LeaseInv, PhaseInv, JobInv
<1>7. PhaseInv'
  BY <1>1, <1>2, <1>3, <1>4 DEF TypeOK, LeaseInv, PhaseInv, JobInv, Cleanup
<1>8. JobInv'
  BY <1>1, <1>2, <1>3, <1>4 DEF TypeOK, LeaseInv, PhaseInv, JobInv, Cleanup
<1>9. HelperInv'
  <2>1. browser'.up /\ ~unsure' /\ ~left' =>
          /\ browser'.mode = net'
          /\ \/ snapshot'.phase = "active"
             \/ job'.task \in {"burn", "switch"} /\ job'.step = "stop"
    BY <1>1, <1>2, <1>3, <1>4
       DEF TypeOK, LeaseInv, PhaseInv, JobInv, HelperInv, CallOutcome, Cleanup
  <2>2. job'.task \in {"start", "switch", "rollback"} /\ job'.step = "spawn" =>
          net' = job'.mode
    BY <1>1, <1>2, <1>3, <1>4
       DEF TypeOK, LeaseInv, PhaseInv, JobInv, HelperInv, CallOutcome, Cleanup
  <2>3. job'.task = "switch" /\ job'.step # "stop" => ~browser'.up
    BY <1>1, <1>2, <1>3, <1>4
       DEF TypeOK, LeaseInv, PhaseInv, JobInv, HelperInv, CallOutcome, Cleanup
  <2>4. /\ job'.task = "burn" /\ job'.step \in {"reset", "clear"} /\ job'.ok =>
             ~browser'.up
        /\ job'.task = "burn" /\ job'.step = "clear" /\ job'.ok => net' = Direct
    BY <1>1, <1>2, <1>3, <1>4
       DEF TypeOK, LeaseInv, PhaseInv, JobInv, HelperInv, CallOutcome, Cleanup
  <2>5. snapshot'.phase = "active" =>
          /\ net' = snapshot'.egress
          /\ \/ browser'.id = snapshot'.id /\ browser'.mode = snapshot'.egress
             \/ unsure' /\ browser'.id = NoId /\ browser'.mode = Direct
    BY <1>1, <1>2, <1>3, <1>4
       DEF TypeOK, LeaseInv, PhaseInv, JobInv, HelperInv, CallOutcome, Cleanup
  <2>6. snapshot'.phase = "idle" /\ ~crashed' =>
          ~browser'.up /\ net' \in {"drop", Direct} /\ runtime' = {}
    BY <1>1, <1>2, <1>3, <1>4
       DEF TypeOK, LeaseInv, PhaseInv, JobInv, HelperInv, CallOutcome, Cleanup
  <2>7. QED
    BY <2>1, <2>2, <2>3, <2>4, <2>5, <2>6 DEF HelperInv
<1>10. QED
  BY <1>5, <1>6, <1>7, <1>8, <1>9 DEF SessionInv

\* A call is answered and the job goes on.
LEMMA AdvanceKeeps ==
  ASSUME SessionAssumption, SessionInv, NEW ok \in BOOLEAN, Advance(ok)
  PROVE  SessionInv'
<1> USE DEF Advance, Perform, Insists, sessionVars, leaseVars, helperVars,
    ghostVars, Idle, Free, FreshId, NoClient, NoId, Client, Id, NoBrowser
<1> USE SessionAssumption, StepsAre DEF SessionAssumption
<1>1. /\ TypeOK /\ LeaseInv /\ PhaseInv /\ JobInv /\ HelperInv
      /\ snapshot \in SnapshotSet /\ job \in JobSet /\ browser \in BrowserSet
  BY DEF SessionInv, TypeOK, SnapshotSet, JobSet, BrowserSet
<1>2. CallOutcome(ok)
  BY <1>1, CallOutcomes DEF Perform
<1>3. /\ job.step \in {"stop", "reset", "clear", "apply"}
      /\ job.step = "stop" => job'.step = "reset"
      /\ job.step = "reset" => job'.step = "clear"
      /\ job.step = "clear" => job'.step = "apply" /\ job.task \in {"switch", "rollback"}
      /\ job.step = "apply" => job'.step = "spawn"
      /\ job.step = "apply" => job.task \in {"start", "switch", "rollback"}
      /\ job.step # "apply" => job.task \in {"abort", "burn", "switch", "rollback"}
  BY <1>1, <1>2, StepTask DEF Calls, Last, After, JobSet, Tasks
<1>4. /\ job' \in JobSet /\ job'.task = job.task
      /\ job'.step \in {"reset", "clear", "apply", "spawn"}
      /\ job'.client = job.client /\ job'.mode = job.mode
      /\ job'.back = job.back /\ job'.fresh = job.fresh
      /\ job'.ok = (job.ok /\ ok)
  BY <1>1, <1>2, <1>3 DEF JobSet, Tasks, Steps, Calls, TypeOK, After
<1>5. TypeOK'
  <2>1. snapshot' \in SnapshotSet /\ browser' \in BrowserSet
    BY <1>1, <1>2, <1>3, <1>4 DEF CallOutcome
  <2>2. job' \in JobSet /\ job'.step \in StepsOf(job'.task)
    BY <1>1, <1>2, <1>3, <1>4 DEF TypeOK
  <2>3. QED
    BY <1>1, <1>2, <1>3, <1>4, <2>1, <2>2
       DEF TypeOK, SnapshotSet, JobSet, BrowserSet, CallOutcome
<1>6. LeaseInv'
  BY <1>1, <1>2, <1>3, <1>4 DEF TypeOK, LeaseInv, PhaseInv, JobInv
<1>7. PhaseInv'
  BY <1>1, <1>2, <1>3, <1>4 DEF TypeOK, LeaseInv, PhaseInv, JobInv, Cleanup
<1>8. JobInv'
  BY <1>1, <1>2, <1>3, <1>4 DEF TypeOK, LeaseInv, PhaseInv, JobInv, Cleanup
<1>9. HelperInv'
  <2>1. browser'.up /\ ~unsure' /\ ~left' =>
          /\ browser'.mode = net'
          /\ \/ snapshot'.phase = "active"
             \/ job'.task \in {"burn", "switch"} /\ job'.step = "stop"
    BY <1>1, <1>2, <1>3, <1>4
       DEF TypeOK, LeaseInv, PhaseInv, JobInv, HelperInv, CallOutcome, Cleanup
  <2>2. job'.task \in {"start", "switch", "rollback"} /\ job'.step = "spawn" =>
          net' = job'.mode
    BY <1>1, <1>2, <1>3, <1>4
       DEF TypeOK, LeaseInv, PhaseInv, JobInv, HelperInv, CallOutcome, Cleanup
  <2>3. job'.task = "switch" /\ job'.step # "stop" => ~browser'.up
    BY <1>1, <1>2, <1>3, <1>4
       DEF TypeOK, LeaseInv, PhaseInv, JobInv, HelperInv, CallOutcome, Cleanup
  <2>4. /\ job'.task = "burn" /\ job'.step \in {"reset", "clear"} /\ job'.ok =>
             ~browser'.up
        /\ job'.task = "burn" /\ job'.step = "clear" /\ job'.ok => net' = Direct
    BY <1>1, <1>2, <1>3, <1>4
       DEF TypeOK, LeaseInv, PhaseInv, JobInv, HelperInv, CallOutcome, Cleanup
  <2>5. snapshot'.phase = "active" =>
          /\ net' = snapshot'.egress
          /\ \/ browser'.id = snapshot'.id /\ browser'.mode = snapshot'.egress
             \/ unsure' /\ browser'.id = NoId /\ browser'.mode = Direct
    BY <1>1, <1>2, <1>3, <1>4
       DEF TypeOK, LeaseInv, PhaseInv, JobInv, HelperInv, CallOutcome, Cleanup
  <2>6. snapshot'.phase = "idle" /\ ~crashed' =>
          ~browser'.up /\ net' \in {"drop", Direct} /\ runtime' = {}
    BY <1>1, <1>2, <1>3, <1>4
       DEF TypeOK, LeaseInv, PhaseInv, JobInv, HelperInv, CallOutcome, Cleanup
  <2>7. QED
    BY <2>1, <2>2, <2>3, <2>4, <2>5, <2>6 DEF HelperInv
<1>10. QED
  BY <1>5, <1>6, <1>7, <1>8, <1>9 DEF SessionInv

\* A burn marks the session, or goes on to the revocation.
LEMMA BurnMarkKeeps ==
  ASSUME SessionAssumption, SessionInv, BurnMark
  PROVE  SessionInv'
<1> USE DEF BurnMark, sessionVars, leaseVars, helperVars, ghostVars, Idle,
    Free, FreshId, NoClient, NoId, Client, Id, NoBrowser
<1> USE SessionAssumption, StepsAre DEF SessionAssumption
<1>1. /\ TypeOK /\ LeaseInv /\ PhaseInv /\ JobInv /\ HelperInv
      /\ snapshot \in SnapshotSet /\ job \in JobSet /\ browser \in BrowserSet
  BY DEF SessionInv, TypeOK, SnapshotSet, JobSet, BrowserSet
<1>2. job.task = "burn"
  BY <1>1, StepTask
<1>3. /\ job' \in JobSet /\ job'.task = job.task
      /\ job'.step \in {"stop", "revoke"} /\ job'.client = job.client
      /\ job'.mode = job.mode /\ job'.back = job.back
      /\ job'.fresh = job.fresh /\ job'.ok = job.ok
  BY <1>1, <1>2 DEF JobSet, Tasks, Steps, Calls, TypeOK
<1>4. /\ snapshot' \in SnapshotSet /\ snapshot'.id = snapshot.id
      /\ snapshot'.url = snapshot.url /\ snapshot'.egress = snapshot.egress
      /\ job'.step = "stop" =>
           snapshot'.phase = "burning" /\ snapshot.phase # "idle"
           /\ job.client \in {0, controller}
      /\ job'.step = "revoke" =>
           snapshot' = snapshot
           /\ (snapshot.phase = "idle" \/ job.client \notin {0, controller})
  BY <1>1, <1>2, <1>3 DEF SnapshotSet, JobSet, Phases
<1>5. TypeOK'
  <2>1. snapshot' \in SnapshotSet /\ browser' \in BrowserSet
    BY <1>1, <1>2, <1>3, <1>4 DEF TypeOK
  <2>2. job' \in JobSet /\ job'.step \in StepsOf(job'.task)
    BY <1>1, <1>2, <1>3, <1>4 DEF TypeOK
  <2>3. QED
    BY <1>1, <1>2, <1>3, <1>4, <2>1, <2>2 DEF TypeOK, SnapshotSet, JobSet, BrowserSet
<1>6. LeaseInv'
  BY <1>1, <1>2, <1>3, <1>4 DEF TypeOK, LeaseInv, PhaseInv, JobInv
<1>7. PhaseInv'
  BY <1>1, <1>2, <1>3, <1>4 DEF TypeOK, LeaseInv, PhaseInv, JobInv, Cleanup
<1>8. JobInv'
  BY <1>1, <1>2, <1>3, <1>4 DEF TypeOK, LeaseInv, PhaseInv, JobInv, Cleanup
<1>9. HelperInv'
  BY <1>1, <1>2, <1>3, <1>4 DEF TypeOK, LeaseInv, PhaseInv, JobInv, HelperInv
<1>10. QED
  BY <1>5, <1>6, <1>7, <1>8, <1>9 DEF SessionInv

\* The authorization is revoked.
LEMMA RevokeKeeps ==
  ASSUME SessionAssumption, SessionInv, Revoke
  PROVE  SessionInv'
<1> USE DEF Revoke, Lease!Orphan, sessionVars, leaseVars, helperVars,
    ghostVars, Idle, Free, FreshId, NoClient, NoId, Client, Id, NoBrowser
<1> USE SessionAssumption, StepsAre DEF SessionAssumption
<1>1. /\ TypeOK /\ LeaseInv /\ PhaseInv /\ JobInv /\ HelperInv
      /\ snapshot \in SnapshotSet /\ job \in JobSet /\ browser \in BrowserSet
  BY DEF SessionInv, TypeOK, SnapshotSet, JobSet, BrowserSet
<1>2. job.task = "burn"
  BY <1>1, StepTask
<1>3. /\ job' \in JobSet /\ job'.task = job.task /\ job'.step = "rotate"
      /\ job'.client = job.client /\ job'.mode = job.mode
      /\ job'.back = job.back /\ job'.fresh = job.fresh /\ job'.ok = job.ok
  BY <1>1, <1>2 DEF JobSet, Tasks, Steps, Calls, TypeOK
<1>4. TypeOK'
  <2>1. snapshot' \in SnapshotSet /\ browser' \in BrowserSet
    BY <1>1, <1>2, <1>3 DEF TypeOK
  <2>2. job' \in JobSet /\ job'.step \in StepsOf(job'.task)
    BY <1>1, <1>2, <1>3 DEF TypeOK
  <2>3. QED
    BY <1>1, <1>2, <1>3, <2>1, <2>2 DEF TypeOK, SnapshotSet, JobSet, BrowserSet
<1>5. LeaseInv'
  BY <1>1, <1>2, <1>3 DEF TypeOK, LeaseInv, PhaseInv, JobInv
<1>6. PhaseInv'
  BY <1>1, <1>2, <1>3 DEF TypeOK, LeaseInv, PhaseInv, JobInv, Cleanup
<1>7. JobInv'
  BY <1>1, <1>2, <1>3 DEF TypeOK, LeaseInv, PhaseInv, JobInv, Cleanup
<1>8. HelperInv'
  BY <1>1, <1>2, <1>3 DEF TypeOK, LeaseInv, PhaseInv, JobInv, HelperInv
<1>9. QED
  BY <1>4, <1>5, <1>6, <1>7, <1>8 DEF SessionInv

\* The appliance is offered again, or not.
LEMMA RotateKeeps ==
  ASSUME SessionAssumption, SessionInv, NEW ok \in BOOLEAN, Rotate(ok)
  PROVE  SessionInv'
<1> USE DEF Rotate, Lease!Offer, sessionVars, leaseVars, helperVars,
    ghostVars, Idle, Free, FreshId, NoClient, NoId, Client, Id, NoBrowser
<1> USE SessionAssumption, StepsAre DEF SessionAssumption
<1>1. /\ TypeOK /\ LeaseInv /\ PhaseInv /\ JobInv /\ HelperInv
      /\ snapshot \in SnapshotSet /\ job \in JobSet /\ browser \in BrowserSet
  BY DEF SessionInv, TypeOK, SnapshotSet, JobSet, BrowserSet
<1>2. job.task = "burn"
  BY <1>1, StepTask
<1>3. /\ job' = NoJob /\ job' \in JobSet /\ job'.task = "none" /\ job'.client = 0
      /\ job'.step = "none"
  BY DEF JobSet, Tasks, Steps, Calls, Free, NoJob
<1>4. TypeOK'
  <2>1. snapshot' \in SnapshotSet /\ browser' \in BrowserSet
    BY <1>1, <1>2, <1>3 DEF TypeOK
  <2>2. job' \in JobSet /\ job'.step \in StepsOf(job'.task)
    BY <1>1, <1>2, <1>3 DEF TypeOK
  <2>3. QED
    BY <1>1, <1>2, <1>3, <2>1, <2>2 DEF TypeOK, SnapshotSet, JobSet, BrowserSet
<1>5. LeaseInv'
  BY <1>1, <1>2, <1>3 DEF TypeOK, LeaseInv, PhaseInv, JobInv
<1>6. PhaseInv'
  BY <1>1, <1>2, <1>3 DEF TypeOK, LeaseInv, PhaseInv, JobInv, Cleanup
<1>7. JobInv'
  BY <1>1, <1>2, <1>3 DEF TypeOK, LeaseInv, PhaseInv, JobInv, Cleanup
<1>8. HelperInv'
  BY <1>1, <1>2, <1>3 DEF TypeOK, LeaseInv, PhaseInv, JobInv, HelperInv
<1>9. QED
  BY <1>4, <1>5, <1>6, <1>7, <1>8 DEF SessionInv

\* The watchdog finds a session that has been quiet.
LEMMA AutoBurnKeeps ==
  ASSUME SessionAssumption, SessionInv, AutoBurn
  PROVE  SessionInv'
<1> USE DEF AutoBurn, sessionVars, leaseVars, helperVars, ghostVars, Idle,
    Free, FreshId, NoClient, NoId, Client, Id, NoBrowser
<1> USE SessionAssumption, StepsAre DEF SessionAssumption
<1>1. /\ TypeOK /\ LeaseInv /\ PhaseInv /\ JobInv /\ HelperInv
      /\ snapshot \in SnapshotSet /\ job \in JobSet /\ browser \in BrowserSet
  BY DEF SessionInv, TypeOK, SnapshotSet, JobSet, BrowserSet
<1>2. job.task = "none" /\ job.step = "none" /\ job.client = 0
  BY DEF NoJob
<1>3. job' = [task |-> "burn", step |-> "mark", client |-> 0, mode |-> Direct,
               back |-> Direct, fresh |-> 0, ok |-> TRUE]
  BY <1>1, <1>2 DEF Hold, NoJob
<1>4. IsJob(job', "burn", "mark", 0, Direct, Direct, 0)
  <2>1. /\ "burn" \in Tasks /\ "mark" \in Steps /\ 0 \in Nat
        /\ Direct \in Mode /\ Direct \in Mode /\ 0 \in Nat
    BY <1>1, <1>2 DEF TypeOK, SnapshotSet, Tasks, Steps, Calls
  <2>2. QED
    BY <1>3, <2>1, JobRecord
<1>5. TypeOK'
  <2>1. snapshot' \in SnapshotSet /\ browser' \in BrowserSet
    BY <1>1, <1>2, <1>4 DEF TypeOK
  <2>2. job' \in JobSet /\ job'.step \in StepsOf(job'.task)
    BY <1>1, <1>2, <1>4 DEF TypeOK, IsJob
  <2>3. QED
    BY <1>1, <1>2, <1>4, <2>1, <2>2 DEF TypeOK, SnapshotSet, JobSet, BrowserSet
<1>6. LeaseInv'
  BY <1>1, <1>2, <1>4 DEF TypeOK, LeaseInv, PhaseInv, JobInv, IsJob
<1>7. PhaseInv'
  BY <1>1, <1>2, <1>4 DEF TypeOK, LeaseInv, PhaseInv, JobInv, Cleanup, IsJob
<1>8. JobInv'
  BY <1>1, <1>2, <1>4 DEF TypeOK, LeaseInv, PhaseInv, JobInv, Cleanup, IsJob
<1>9. HelperInv'
  BY <1>1, <1>2, <1>4 DEF TypeOK, LeaseInv, PhaseInv, JobInv, HelperInv, IsJob
<1>10. QED
  BY <1>5, <1>6, <1>7, <1>8, <1>9 DEF SessionInv

\* The watchdog finds an expired authorization.
LEMMA RecoverKeeps ==
  ASSUME SessionAssumption, SessionInv, Recover
  PROVE  SessionInv'
<1> USE DEF Recover, sessionVars, leaseVars, helperVars, ghostVars, Idle,
    Free, FreshId, NoClient, NoId, Client, Id, NoBrowser
<1> USE SessionAssumption, StepsAre DEF SessionAssumption
<1>1. /\ TypeOK /\ LeaseInv /\ PhaseInv /\ JobInv /\ HelperInv
      /\ snapshot \in SnapshotSet /\ job \in JobSet /\ browser \in BrowserSet
  BY DEF SessionInv, TypeOK, SnapshotSet, JobSet, BrowserSet
<1>2. job.task = "none" /\ job.step = "none" /\ job.client = 0
  BY DEF NoJob
<1>3. job' = [task |-> "burn", step |-> "mark", client |-> 0, mode |-> Direct,
               back |-> Direct, fresh |-> 0, ok |-> TRUE]
  BY <1>1, <1>2 DEF Hold, NoJob
<1>4. IsJob(job', "burn", "mark", 0, Direct, Direct, 0)
  <2>1. /\ "burn" \in Tasks /\ "mark" \in Steps /\ 0 \in Nat
        /\ Direct \in Mode /\ Direct \in Mode /\ 0 \in Nat
    BY <1>1, <1>2 DEF TypeOK, SnapshotSet, Tasks, Steps, Calls
  <2>2. QED
    BY <1>3, <2>1, JobRecord
<1>5. TypeOK'
  <2>1. snapshot' \in SnapshotSet /\ browser' \in BrowserSet
    BY <1>1, <1>2, <1>4 DEF TypeOK
  <2>2. job' \in JobSet /\ job'.step \in StepsOf(job'.task)
    BY <1>1, <1>2, <1>4 DEF TypeOK, IsJob
  <2>3. QED
    BY <1>1, <1>2, <1>4, <2>1, <2>2 DEF TypeOK, SnapshotSet, JobSet, BrowserSet
<1>6. LeaseInv'
  BY <1>1, <1>2, <1>4 DEF TypeOK, LeaseInv, PhaseInv, JobInv, IsJob
<1>7. PhaseInv'
  BY <1>1, <1>2, <1>4 DEF TypeOK, LeaseInv, PhaseInv, JobInv, Cleanup, IsJob
<1>8. JobInv'
  BY <1>1, <1>2, <1>4 DEF TypeOK, LeaseInv, PhaseInv, JobInv, Cleanup, IsJob
<1>9. HelperInv'
  BY <1>1, <1>2, <1>4 DEF TypeOK, LeaseInv, PhaseInv, JobInv, HelperInv, IsJob
<1>10. QED
  BY <1>5, <1>6, <1>7, <1>8, <1>9 DEF SessionInv

\* A client pairs.
LEMMA PairKeeps ==
  ASSUME SessionAssumption, SessionInv, Pair
  PROVE  SessionInv'
<1> USE DEF Pair, Lease!Claim, sessionVars, leaseVars, helperVars, ghostVars,
    Idle, Free, FreshId, NoClient, NoId, Client, Id, NoBrowser
<1> USE SessionAssumption, StepsAre DEF SessionAssumption
<1>1. /\ TypeOK /\ LeaseInv /\ PhaseInv /\ JobInv /\ HelperInv
      /\ snapshot \in SnapshotSet /\ job \in JobSet /\ browser \in BrowserSet
  BY DEF SessionInv, TypeOK, SnapshotSet, JobSet, BrowserSet
<1>2. TypeOK'
  <2>1. snapshot' \in SnapshotSet /\ browser' \in BrowserSet
    BY <1>1 DEF TypeOK
  <2>2. job' \in JobSet /\ job'.step \in StepsOf(job'.task)
    BY <1>1 DEF TypeOK
  <2>3. QED
    BY <1>1, <2>1, <2>2 DEF TypeOK, SnapshotSet, JobSet, BrowserSet
<1>3. LeaseInv'
  BY <1>1 DEF TypeOK, LeaseInv, PhaseInv, JobInv
<1>4. PhaseInv'
  BY <1>1 DEF TypeOK, LeaseInv, PhaseInv, JobInv, Cleanup
<1>5. JobInv'
  BY <1>1 DEF TypeOK, LeaseInv, PhaseInv, JobInv, Cleanup
<1>6. HelperInv'
  BY <1>1 DEF TypeOK, LeaseInv, PhaseInv, JobInv, HelperInv
<1>7. QED
  BY <1>2, <1>3, <1>4, <1>5, <1>6 DEF SessionInv

\* The cookie of the controller expires.
LEMMA ExpireKeeps ==
  ASSUME SessionAssumption, SessionInv, Expire
  PROVE  SessionInv'
<1> USE DEF Expire, Lease!Orphan, sessionVars, leaseVars, helperVars,
    ghostVars, Idle, Free, FreshId, NoClient, NoId, Client, Id, NoBrowser
<1> USE SessionAssumption, StepsAre DEF SessionAssumption
<1>1. /\ TypeOK /\ LeaseInv /\ PhaseInv /\ JobInv /\ HelperInv
      /\ snapshot \in SnapshotSet /\ job \in JobSet /\ browser \in BrowserSet
  BY DEF SessionInv, TypeOK, SnapshotSet, JobSet, BrowserSet
<1>2. TypeOK'
  <2>1. snapshot' \in SnapshotSet /\ browser' \in BrowserSet
    BY <1>1 DEF TypeOK
  <2>2. job' \in JobSet /\ job'.step \in StepsOf(job'.task)
    BY <1>1 DEF TypeOK
  <2>3. QED
    BY <1>1, <2>1, <2>2 DEF TypeOK, SnapshotSet, JobSet, BrowserSet
<1>3. LeaseInv'
  BY <1>1 DEF TypeOK, LeaseInv, PhaseInv, JobInv
<1>4. PhaseInv'
  BY <1>1 DEF TypeOK, LeaseInv, PhaseInv, JobInv, Cleanup
<1>5. JobInv'
  BY <1>1 DEF TypeOK, LeaseInv, PhaseInv, JobInv, Cleanup
<1>6. HelperInv'
  BY <1>1 DEF TypeOK, LeaseInv, PhaseInv, JobInv, HelperInv
<1>7. QED
  BY <1>2, <1>3, <1>4, <1>5, <1>6 DEF SessionInv

\* A pairing is used up without a session.
LEMMA SquanderKeeps ==
  ASSUME SessionAssumption, SessionInv, Squander
  PROVE  SessionInv'
<1> USE DEF Squander, Lease!Orphan, sessionVars, leaseVars, helperVars,
    ghostVars, Idle, Free, FreshId, NoClient, NoId, Client, Id, NoBrowser
<1> USE SessionAssumption, StepsAre DEF SessionAssumption
<1>1. /\ TypeOK /\ LeaseInv /\ PhaseInv /\ JobInv /\ HelperInv
      /\ snapshot \in SnapshotSet /\ job \in JobSet /\ browser \in BrowserSet
  BY DEF SessionInv, TypeOK, SnapshotSet, JobSet, BrowserSet
<1>2. TypeOK'
  <2>1. snapshot' \in SnapshotSet /\ browser' \in BrowserSet
    BY <1>1 DEF TypeOK
  <2>2. job' \in JobSet /\ job'.step \in StepsOf(job'.task)
    BY <1>1 DEF TypeOK
  <2>3. QED
    BY <1>1, <2>1, <2>2 DEF TypeOK, SnapshotSet, JobSet, BrowserSet
<1>3. LeaseInv'
  BY <1>1 DEF TypeOK, LeaseInv, PhaseInv, JobInv
<1>4. PhaseInv'
  BY <1>1 DEF TypeOK, LeaseInv, PhaseInv, JobInv, Cleanup
<1>5. JobInv'
  BY <1>1 DEF TypeOK, LeaseInv, PhaseInv, JobInv, Cleanup
<1>6. HelperInv'
  BY <1>1 DEF TypeOK, LeaseInv, PhaseInv, JobInv, HelperInv
<1>7. QED
  BY <1>2, <1>3, <1>4, <1>5, <1>6 DEF SessionInv

\* Nobody acts for long.
LEMMA GoQuietKeeps ==
  ASSUME SessionAssumption, SessionInv, GoQuiet
  PROVE  SessionInv'
<1> USE DEF GoQuiet, sessionVars, leaseVars, helperVars, ghostVars, Idle,
    Free, FreshId, NoClient, NoId, Client, Id, NoBrowser
<1> USE SessionAssumption, StepsAre DEF SessionAssumption
<1>1. /\ TypeOK /\ LeaseInv /\ PhaseInv /\ JobInv /\ HelperInv
      /\ snapshot \in SnapshotSet /\ job \in JobSet /\ browser \in BrowserSet
  BY DEF SessionInv, TypeOK, SnapshotSet, JobSet, BrowserSet
<1>2. TypeOK'
  <2>1. snapshot' \in SnapshotSet /\ browser' \in BrowserSet
    BY <1>1 DEF TypeOK
  <2>2. job' \in JobSet /\ job'.step \in StepsOf(job'.task)
    BY <1>1 DEF TypeOK
  <2>3. QED
    BY <1>1, <2>1, <2>2 DEF TypeOK, SnapshotSet, JobSet, BrowserSet
<1>3. LeaseInv'
  BY <1>1 DEF TypeOK, LeaseInv, PhaseInv, JobInv
<1>4. PhaseInv'
  BY <1>1 DEF TypeOK, LeaseInv, PhaseInv, JobInv, Cleanup
<1>5. JobInv'
  BY <1>1 DEF TypeOK, LeaseInv, PhaseInv, JobInv, Cleanup
<1>6. HelperInv'
  BY <1>1 DEF TypeOK, LeaseInv, PhaseInv, JobInv, HelperInv
<1>7. QED
  BY <1>2, <1>3, <1>4, <1>5, <1>6 DEF SessionInv

\* The browser dies.
LEMMA BrowserExitKeeps ==
  ASSUME SessionAssumption, SessionInv, BrowserExit
  PROVE  SessionInv'
<1> USE DEF BrowserExit, sessionVars, leaseVars, helperVars, ghostVars, Idle,
    Free, FreshId, NoClient, NoId, Client, Id, NoBrowser
<1> USE SessionAssumption, StepsAre DEF SessionAssumption
<1>1. /\ TypeOK /\ LeaseInv /\ PhaseInv /\ JobInv /\ HelperInv
      /\ snapshot \in SnapshotSet /\ job \in JobSet /\ browser \in BrowserSet
  BY DEF SessionInv, TypeOK, SnapshotSet, JobSet, BrowserSet
<1>2. /\ browser' \in BrowserSet /\ ~browser'.up /\ browser'.id = browser.id
      /\ browser'.mode = browser.mode
  BY <1>1 DEF BrowserSet
<1>3. TypeOK'
  <2>1. snapshot' \in SnapshotSet /\ browser' \in BrowserSet
    BY <1>1, <1>2 DEF TypeOK
  <2>2. job' \in JobSet /\ job'.step \in StepsOf(job'.task)
    BY <1>1, <1>2 DEF TypeOK
  <2>3. QED
    BY <1>1, <1>2, <2>1, <2>2 DEF TypeOK, SnapshotSet, JobSet, BrowserSet
<1>4. LeaseInv'
  BY <1>1, <1>2 DEF TypeOK, LeaseInv, PhaseInv, JobInv
<1>5. PhaseInv'
  BY <1>1, <1>2 DEF TypeOK, LeaseInv, PhaseInv, JobInv, Cleanup
<1>6. JobInv'
  BY <1>1, <1>2 DEF TypeOK, LeaseInv, PhaseInv, JobInv, Cleanup
<1>7. HelperInv'
  BY <1>1, <1>2 DEF TypeOK, LeaseInv, PhaseInv, JobInv, HelperInv
<1>8. QED
  BY <1>3, <1>4, <1>5, <1>6, <1>7 DEF SessionInv

\* A request is dropped at an await; what it did of its call stays.
LEMMA CancelKeeps ==
  ASSUME SessionAssumption, SessionInv, Cancel
  PROVE  SessionInv'
<1> USE DEF Cancel, sessionVars, leaseVars, helperVars, ghostVars, Idle, Free,
    FreshId, NoClient, NoId, Client, Id, NoBrowser
<1> USE SessionAssumption, StepsAre DEF SessionAssumption
<1>1. /\ TypeOK /\ LeaseInv /\ PhaseInv /\ JobInv /\ HelperInv
      /\ snapshot \in SnapshotSet /\ job \in JobSet /\ browser \in BrowserSet
  BY DEF SessionInv, TypeOK, SnapshotSet, JobSet, BrowserSet
<1>2. \/ CallOutcome(FALSE) /\ job.step \in Calls
      \/ job.step = "mark" /\ UNCHANGED <<helperVars, unsure, left>>
  BY <1>1, CallOutcomes
<1>3. /\ job.step = "load" <=> job.task = "navigate"
      /\ job.step = "none" <=> job.task = "none"
      /\ job.step \in {"apply", "spawn"} => job.task \in {"start", "switch", "rollback"}
      /\ job.step \in {"stop", "reset", "clear"} =>
           job.task \in {"abort", "burn", "switch", "rollback"}
      /\ job.step = "mark" => job.task = "burn"
  BY <1>1, StepTask
<1>4. /\ job' = NoJob /\ job' \in JobSet /\ job'.task = "none" /\ job'.client = 0
      /\ job'.step = "none"
  BY DEF JobSet, Tasks, Steps, Calls, Free, NoJob
<1>5. TypeOK'
  <2>1. snapshot' \in SnapshotSet /\ browser' \in BrowserSet
    BY <1>1, <1>2, <1>3, <1>4 DEF CallOutcome
  <2>2. job' \in JobSet /\ job'.step \in StepsOf(job'.task)
    BY <1>1, <1>2, <1>3, <1>4 DEF TypeOK
  <2>3. QED
    BY <1>1, <1>2, <1>3, <1>4, <2>1, <2>2
       DEF TypeOK, SnapshotSet, JobSet, BrowserSet, CallOutcome
<1>6. LeaseInv'
  BY <1>1, <1>2, <1>3, <1>4 DEF TypeOK, LeaseInv, PhaseInv, JobInv
<1>7. PhaseInv'
  BY <1>1, <1>2, <1>3, <1>4 DEF TypeOK, LeaseInv, PhaseInv, JobInv, Cleanup
<1>8. JobInv'
  BY <1>1, <1>2, <1>3, <1>4 DEF TypeOK, LeaseInv, PhaseInv, JobInv, Cleanup
<1>9. HelperInv'
  <2>1. browser'.up /\ ~unsure' /\ ~left' =>
          /\ browser'.mode = net'
          /\ \/ snapshot'.phase = "active"
             \/ job'.task \in {"burn", "switch"} /\ job'.step = "stop"
    BY <1>1, <1>2, <1>3, <1>4
       DEF TypeOK, LeaseInv, PhaseInv, JobInv, HelperInv, CallOutcome, Cleanup,
           Calls
  <2>2. job'.task \in {"start", "switch", "rollback"} /\ job'.step = "spawn" =>
          net' = job'.mode
    BY <1>1, <1>2, <1>3, <1>4
       DEF TypeOK, LeaseInv, PhaseInv, JobInv, HelperInv, CallOutcome, Cleanup,
           Calls
  <2>3. job'.task = "switch" /\ job'.step # "stop" => ~browser'.up
    BY <1>1, <1>2, <1>3, <1>4
       DEF TypeOK, LeaseInv, PhaseInv, JobInv, HelperInv, CallOutcome, Cleanup,
           Calls
  <2>4. /\ job'.task = "burn" /\ job'.step \in {"reset", "clear"} /\ job'.ok =>
             ~browser'.up
        /\ job'.task = "burn" /\ job'.step = "clear" /\ job'.ok => net' = Direct
    BY <1>1, <1>2, <1>3, <1>4
       DEF TypeOK, LeaseInv, PhaseInv, JobInv, HelperInv, CallOutcome, Cleanup,
           Calls
  <2>5. snapshot'.phase = "active" =>
          /\ net' = snapshot'.egress
          /\ \/ browser'.id = snapshot'.id /\ browser'.mode = snapshot'.egress
             \/ unsure' /\ browser'.id = NoId /\ browser'.mode = Direct
    BY <1>1, <1>2, <1>3, <1>4
       DEF TypeOK, LeaseInv, PhaseInv, JobInv, HelperInv, CallOutcome, Cleanup,
           Calls
  <2>6. snapshot'.phase = "idle" /\ ~crashed' =>
          ~browser'.up /\ net' \in {"drop", Direct} /\ runtime' = {}
    BY <1>1, <1>2, <1>3, <1>4
       DEF TypeOK, LeaseInv, PhaseInv, JobInv, HelperInv, CallOutcome, Cleanup,
           Calls
  <2>7. QED
    BY <2>1, <2>2, <2>3, <2>4, <2>5, <2>6 DEF HelperInv
<1>10. QED
  BY <1>5, <1>6, <1>7, <1>8, <1>9 DEF SessionInv

\* The daemon dies and starts again.
LEMMA RestartKeeps ==
  ASSUME SessionAssumption, SessionInv, Restart
  PROVE  SessionInv'
<1> USE DEF Restart, Forget, Lease!Offer, sessionVars, leaseVars, helperVars,
    ghostVars, Idle, Free, FreshId, NoClient, NoId, Client, Id, NoBrowser
<1> USE SessionAssumption, StepsAre DEF SessionAssumption
<1>1. /\ TypeOK /\ LeaseInv /\ PhaseInv /\ JobInv /\ HelperInv
      /\ snapshot \in SnapshotSet /\ job \in JobSet /\ browser \in BrowserSet
  BY DEF SessionInv, TypeOK, SnapshotSet, JobSet, BrowserSet
<1>2. /\ browser' \in BrowserSet /\ net' \in Mode \cup {"drop"}
      /\ runtime' \subseteq Nat
  BY <1>1, CallTypes DEF TypeOK, BrowserSet
<1>3. /\ job' = NoJob /\ job' \in JobSet /\ job'.task = "none" /\ job'.client = 0
      /\ job'.step = "none"
  BY DEF JobSet, Tasks, Steps, Calls, Free, NoJob
<1>4. /\ snapshot' \in SnapshotSet /\ snapshot'.phase = "idle"
      /\ snapshot'.id = 0 /\ snapshot'.url = 0
  BY <1>1, <1>2, <1>3 DEF SnapshotSet, DefaultSnapshot, Phases
<1>5. TypeOK'
  <2>1. snapshot' \in SnapshotSet /\ browser' \in BrowserSet
    BY <1>1, <1>2, <1>3, <1>4 DEF TypeOK
  <2>2. job' \in JobSet /\ job'.step \in StepsOf(job'.task)
    BY <1>1, <1>2, <1>3, <1>4 DEF TypeOK
  <2>3. /\ epoch' \in Nat \ {0} /\ stage' \in {"offered", "owned", "orphaned"}
        /\ owner' \in Nat /\ minted' \in Nat /\ asked' = {}
    BY <1>1 DEF TypeOK
  <2>4. /\ unsure' \in BOOLEAN /\ left' \in BOOLEAN
        /\ crashed' \in BOOLEAN /\ disabled' \in Nat
    BY <1>1, <1>2 DEF TypeOK, BrowserSet
  <2>5. controller' \in Nat /\ history' \subseteq Nat /\ quiet' \in BOOLEAN
    OBVIOUS
  <2>6. QED
    BY <1>2, <2>1, <2>2, <2>3, <2>4, <2>5 DEF TypeOK, SnapshotSet, JobSet, BrowserSet
<1>6. LeaseInv'
  BY <1>1, <1>2, <1>3, <1>4 DEF TypeOK, LeaseInv, PhaseInv, JobInv
<1>7. PhaseInv'
  BY <1>1, <1>2, <1>3, <1>4 DEF TypeOK, LeaseInv, PhaseInv, JobInv, Cleanup
<1>8. JobInv'
  BY <1>1, <1>2, <1>3, <1>4 DEF TypeOK, LeaseInv, PhaseInv, JobInv, Cleanup
<1>9. HelperInv'
  BY <1>1, <1>2, <1>3, <1>4 DEF TypeOK, LeaseInv, PhaseInv, JobInv, HelperInv
<1>10. QED
  BY <1>5, <1>6, <1>7, <1>8, <1>9 DEF SessionInv

-----------------------------------------------------------------------------
\* The daemon starts idle, with the browser held.
LEMMA InvInit == SessionAssumption /\ Init => SessionInv
<1> SUFFICES ASSUME SessionAssumption, Init PROVE SessionInv
  OBVIOUS
<1> USE DEF NoClient, NoId, Client, NoBrowser, NoJob, DefaultSnapshot
<1> USE StepsAre DEF SessionAssumption, Init
<1>1. TypeOK
  <2>1. snapshot \in SnapshotSet
    BY DEF SnapshotSet, Phases
  <2>2. job \in JobSet /\ job.step \in StepsOf(job.task)
    BY DEF JobSet, Tasks, Steps, Calls
  <2>3. browser \in BrowserSet
    BY DEF BrowserSet
  <2>4. /\ controller \in Nat /\ minted \in Nat /\ epoch \in Nat \ {0}
        /\ owner \in Nat /\ disabled \in Nat
    OBVIOUS
  <2>5. /\ history \subseteq Nat /\ asked \subseteq [client : Nat, id : Nat]
        /\ runtime \subseteq Nat
    OBVIOUS
  <2>6. /\ quiet \in BOOLEAN /\ unsure \in BOOLEAN /\ left \in BOOLEAN /\ crashed \in BOOLEAN
        /\ stage \in {"offered", "owned", "orphaned"} /\ net \in Mode \cup {"drop"}
    OBVIOUS
  <2> HIDE DEF Init
  <2>7. QED
    BY <2>1, <2>2, <2>3, <2>4, <2>5, <2>6 DEF TypeOK, SnapshotSet, JobSet, BrowserSet
<1>2. LeaseInv
  BY DEF LeaseInv
<1>3. PhaseInv
  BY DEF PhaseInv
<1>4. JobInv
  BY DEF JobInv, Cleanup
<1>5. HelperInv
  BY DEF HelperInv
<1>6. QED
  BY <1>1, <1>2, <1>3, <1>4, <1>5 DEF SessionInv

\* Every step keeps the invariant.
LEMMA InvStep == SessionAssumption /\ SessionInv /\ [Next]_vars => SessionInv'
<1> SUFFICES ASSUME SessionAssumption, SessionInv, [Next]_vars PROVE SessionInv'
  OBVIOUS
<1>1. CASE Request
  BY <1>1, StartSessionKeeps, NavigateKeeps, SwitchEgressKeeps, BurnKeeps, AskKeeps
     DEF Request
<1>2. CASE Setting
  BY <1>2, SetBlocklistKeeps, SetAutoBurnKeeps, RefuseKeeps DEF Setting
<1>3. CASE CallStep
  BY <1>3, AdvanceKeeps, AbortedKeeps, NavigatedKeeps, BurntKeeps, StartedKeeps,
     StartFailedKeeps, SwitchedKeeps, SwitchFailedKeeps, RollbackFailedKeeps DEF CallStep
<1>4. CASE BurnMark \/ Revoke \/ \E ok \in BOOLEAN : Rotate(ok)
  BY <1>4, BurnMarkKeeps, RevokeKeeps, RotateKeeps
<1>5. CASE AutoBurn \/ Recover
  BY <1>5, AutoBurnKeeps, RecoverKeeps
<1>6. CASE Pair \/ Expire \/ Squander \/ GoQuiet \/ BrowserExit \/ Cancel \/ Restart
  BY <1>6, PairKeeps, ExpireKeeps, SquanderKeeps, GoQuietKeeps, BrowserExitKeeps,
     CancelKeeps, RestartKeeps
<1>7. CASE UNCHANGED vars
  <2>1. TypeOK' /\ LeaseInv'
    BY <1>7
       DEF SessionInv, TypeOK, LeaseInv, vars, sessionVars, leaseVars, helperVars,
                ghostVars
  <2>2. PhaseInv' /\ JobInv' /\ HelperInv'
    BY <1>7 DEF SessionInv, PhaseInv, JobInv, HelperInv, Cleanup, NoJob, vars,
                sessionVars, leaseVars, helperVars, ghostVars
  <2>3. QED
    BY <2>1, <2>2 DEF SessionInv
<1>8. QED
  BY <1>1, <1>2, <1>3, <1>4, <1>5, <1>6, <1>7 DEF Next, JobStep

\* SessionInv holds in every behaviour of the session manager.
THEOREM Invariance == Spec => []SessionInv
  BY InvInit, InvStep, SessionAssumption, PTL DEF Spec

\* Every variable keeps its type, and every job a step of its task.
THEOREM TypeCorrect == Spec => []TypeOK
<1>1. SessionInv => TypeOK
  BY DEF SessionInv
<1>2. QED
  BY <1>1, Invariance, PTL

\* start, switch_egress and its rollback: an active session runs under the
\* policy it shows, and no browser but its own runs beside it.
THEOREM ActiveSessionIsConsistent == Spec => []ActiveIsConsistent
<1>1. SessionAssumption /\ SessionInv => ActiveIsConsistent
  <2> SUFFICES ASSUME SessionAssumption, SessionInv, snapshot.phase = "active"
               PROVE  /\ net = snapshot.egress
                      /\ browser.up => \/ browser = Tree(snapshot.id, snapshot.egress)
                                       \/ unsure /\ browser = Tree(NoId, Direct)
                      /\ snapshot.url # NoClient
    BY DEF ActiveIsConsistent
  <2>1. browser \in [up : BOOLEAN, id : Nat, mode : Mode]
    BY DEF SessionInv, TypeOK
  <2>2. browser.up => browser = Tree(browser.id, browser.mode)
    BY <2>1 DEF Tree
  <2>3. QED
    BY <2>2 DEF SessionInv, HelperInv, PhaseInv
<1>2. QED
  BY <1>1, SessionAssumption, Invariance, PTL

\* burn_unchecked: idle is never claimed falsely.
THEOREM IdleSessionIsClean == Spec => []IdleIsClean
<1>1. SessionInv => IdleIsClean
  BY DEF SessionInv, HelperInv, PhaseInv, IdleIsClean
<1>2. QED
  BY <1>1, Invariance, PTL

\* acquire_lease, ensure_lease: the lease ends with the authorization it was
\* taken under, and every session has a holder.
THEOREM LeaseIsHeld == Spec => []LeaseHolder
<1>1. SessionInv => LeaseHolder
  BY DEF SessionInv, LeaseInv, PhaseInv, JobInv, Cleanup, LeaseHolder, Idle, NoJob
<1>2. QED
  BY <1>1, Invariance, PTL

\* get_session: no address of another client is shown.
THEOREM HistoryIsOwn == Spec => []OwnHistory
<1>1. SessionInv => OwnHistory
  BY DEF SessionInv, LeaseInv, OwnHistory
<1>2. QED
  BY <1>1, Invariance, PTL

\* The browser runs under the policy it was started for, or under the drop, unless
\* a stop or start of it has failed since one last worked, or it is one that a
\* restart of xanhtabd left (start, burn_unchecked, switch_egress).
THEOREM BrowserIsRouted == Spec => []RoutedAsStarted
<1>1. SessionInv => RoutedAsStarted
  BY DEF SessionInv, HelperInv, RoutedAsStarted
<1>2. QED
  BY <1>1, Invariance, PTL

-----------------------------------------------------------------------------
\* What SessionPhases sees of a step that it does not tell from none.
LEMMA PhasesStutter ==
  UNCHANGED <<snapshot, controller, minted, leaseVars>> => UNCHANGED Phased!phasesVars
  BY DEF Phased!phasesVars, Phased!phaseVars, Phased!leaseVars, leaseVars

\* Every step of the session is a move between phases, or shows nothing.
LEMMA PhasesStep ==
  SessionAssumption /\ SessionInv /\ [Next]_vars =>
    [Phased!PhasesNext]_(Phased!phasesVars)
<1> SUFFICES ASSUME SessionAssumption, SessionInv, [Next]_vars
             PROVE  Phased!PhasesNext \/ UNCHANGED Phased!phasesVars
  OBVIOUS
<1> USE DEF sessionVars, leaseVars, Phased!leaseVars, Phased!phaseVars, Phased!phasesVars,
            Client, NoClient, NoId
<1>a. /\ TypeOK /\ LeaseInv /\ PhaseInv /\ JobInv /\ snapshot \in SnapshotSet
      /\ job \in JobSet
  BY DEF SessionInv, TypeOK, SnapshotSet, JobSet
<1>1. ASSUME NEW c \in Client, StartSession(c) PROVE Phased!PhasesNext
  <2>1. Phased!Begin(c)
    BY <1>a, <1>1 DEF StartSession, Validated, FreshId, SnapshotSet, Phased!Begin
  <2>2. QED
    BY <2>1 DEF Phased!PhasesNext
<1>2. ASSUME NEW c \in Client, NEW i \in Id, Navigate(c, i) \/ Burn(c, i) \/ Ask(c, i)
      PROVE  UNCHANGED Phased!phasesVars
  BY <1>2, PhasesStutter DEF Navigate, Burn, Ask
<1>3. ASSUME NEW c \in Client, NEW i \in Id, NEW m \in Mode, SwitchEgress(c, i, m)
      PROVE  Phased!PhasesNext
  <2>1. snapshot.url # NoClient
    BY <1>a, <1>3 DEF SwitchEgress, ActiveLease, PhaseInv
  <2>2. Phased!Switch
    BY <1>a, <1>3, <2>1
       DEF SwitchEgress, Validated, ActiveLease, FreshId, SnapshotSet,
                           Phased!Switch
  <2>3. QED
    BY <2>2 DEF Phased!PhasesNext
<1>4. CASE Setting
  BY <1>a, <1>4 DEF Setting, Set, SetBlocklist, SetAutoBurn, Refuse, SnapshotSet
<1>5. ASSUME NEW ok \in BOOLEAN, Advance(ok) PROVE UNCHANGED Phased!phasesVars
  BY <1>5, PhasesStutter DEF Advance, Perform
<1>6. ASSUME NEW ok \in BOOLEAN, Aborted(ok) PROVE Phased!PhasesNext
  <2>1. Phased!Fail
    BY <1>a, <1>6 DEF Aborted, Perform, JobInv, SnapshotSet, Phased!Fail
  <2>2. QED
    BY <2>1 DEF Phased!PhasesNext
<1>7. ASSUME NEW ok \in BOOLEAN, Navigated(ok) PROVE UNCHANGED Phased!phasesVars
  BY <1>a, <1>7 DEF Navigated, Perform, SnapshotSet
<1>8. ASSUME NEW ok \in BOOLEAN, Burnt(ok) PROVE Phased!PhasesNext
  <2>1. Phased!Forget(Verdict(ok))
    BY <1>a, <1>8 DEF Burnt, Forget, Verdict, DefaultSnapshot, JobInv, Cleanup,
                      SnapshotSet, Phased!Forget
  <2>2. Verdict(ok) \in {"idle", "failed"}
    BY DEF Verdict
  <2>3. QED
    BY <2>1, <2>2 DEF Phased!PhasesNext
<1>9. ASSUME Started PROVE Phased!PhasesNext
  <2>1. Phased!Succeed
    BY <1>a, <1>9 DEF Started, Perform, JobInv, SnapshotSet, Phased!Succeed
  <2>2. QED
    BY <2>1 DEF Phased!PhasesNext
<1>10. ASSUME StartFailed PROVE UNCHANGED Phased!phasesVars
  BY <1>10, PhasesStutter DEF StartFailed, Perform
<1>11. ASSUME Switched PROVE Phased!PhasesNext
  <2>1. Phased!Resume
    BY <1>a, <1>11 DEF Switched, Perform, JobInv, SnapshotSet, Phased!Resume
  <2>2. QED
    BY <2>1 DEF Phased!PhasesNext
<1>12. ASSUME SwitchFailed PROVE Phased!PhasesNext
  <2>1. Phased!Retry
    BY <1>a, <1>12
       DEF SwitchFailed, Perform, FreshId, JobInv, SnapshotSet, Phased!Retry
  <2>2. QED
    BY <2>1 DEF Phased!PhasesNext
<1>13. ASSUME RollbackFailed PROVE Phased!PhasesNext
  <2>1. Phased!Fail
    BY <1>a, <1>13 DEF RollbackFailed, Perform, JobInv, SnapshotSet, Phased!Fail
  <2>2. QED
    BY <2>1 DEF Phased!PhasesNext
<1>14. ASSUME BurnMark PROVE Phased!PhasesNext \/ UNCHANGED Phased!phasesVars
  <2>1. CASE snapshot.phase = "idle" \/ job.client \notin {NoClient, controller}
    BY <1>14, <2>1 DEF BurnMark
  <2>2. CASE ~(snapshot.phase = "idle" \/ job.client \notin {NoClient, controller})
    <3>1. Phased!Mark
      BY <1>a, <1>14, <2>2 DEF BurnMark, SnapshotSet, Phased!Mark
    <3>2. QED
      BY <3>1 DEF Phased!PhasesNext
  <2>3. QED
    BY <2>1, <2>2
<1>15. ASSUME Revoke PROVE Phased!PhasesNext \/ UNCHANGED Phased!phasesVars
  <2>1. Lease!Orphan \/ UNCHANGED leaseVars
    BY <1>15 DEF Revoke
  <2>2. Phased!Orphan \/ UNCHANGED Phased!phasesVars
    BY <1>15, <2>1 DEF Revoke, Lease!Orphan, Phased!Orphan, Phased!Lease!Orphan
  <2>3. QED
    BY <2>2 DEF Phased!PhasesNext
<1>16. ASSUME NEW ok \in BOOLEAN, Rotate(ok)
       PROVE  Phased!PhasesNext \/ UNCHANGED Phased!phasesVars
  <2>1. controller = NoClient
    BY <1>a, <1>16, StepTask DEF Rotate, JobInv
  <2>2. Phased!Offer \/ UNCHANGED Phased!phasesVars
    BY <1>16, <2>1 DEF Rotate, Lease!Offer, Phased!Offer, Phased!Lease!Offer
  <2>3. QED
    BY <2>2 DEF Phased!PhasesNext
<1>17. ASSUME AutoBurn \/ Recover \/ GoQuiet \/ BrowserExit \/ Cancel
       PROVE  UNCHANGED Phased!phasesVars
  BY <1>17, PhasesStutter DEF AutoBurn, Recover, GoQuiet, BrowserExit, Cancel
<1>18. ASSUME Pair PROVE Phased!PhasesNext
  <2>1. epoch \in Client
    BY <1>a DEF TypeOK, LeaseInv, SessionAssumption
  <2>2. Phased!Claim(epoch)
    BY <1>18 DEF Pair, Lease!Claim, Phased!Claim, Phased!Lease!Claim
  <2>3. QED
    BY <2>1, <2>2 DEF Phased!PhasesNext
<1>19. ASSUME Expire \/ Squander PROVE Phased!PhasesNext
  <2>1. Phased!Orphan
    BY <1>19 DEF Expire, Squander, Lease!Orphan, Phased!Orphan, Phased!Lease!Orphan
  <2>2. QED
    BY <2>1 DEF Phased!PhasesNext
<1>20. ASSUME Restart PROVE Phased!PhasesNext
  <2>1. Phased!Reboot
    BY <1>20 DEF Restart, Forget, DefaultSnapshot, Lease!Offer, Phased!Reboot,
                 Phased!Lease!Offer
  <2>2. QED
    BY <2>1 DEF Phased!PhasesNext
<1>21. CASE UNCHANGED vars
  BY <1>21, PhasesStutter DEF vars
<1>22. QED
  <2>1. CASE Request
    BY <2>1, <1>1, <1>2, <1>3 DEF Request
  <2>2. CASE JobStep
    BY <2>2, <1>5, <1>6, <1>7, <1>8, <1>9, <1>10, <1>11, <1>12, <1>13, <1>14, <1>15,
       <1>16 DEF JobStep, CallStep
  <2>3. QED
    BY <2>1, <2>2, <1>4, <1>17, <1>18, <1>19, <1>20, <1>21 DEF Next

\* The session lifecycle keeps the promises of SessionPhases.
THEOREM SessionImplementsPhases == Spec => ImplementsPhases
<1>1. Init => Phased!PhasesInit
  BY DEF Init, DefaultSnapshot, NoId, NoClient, Phased!PhasesInit, Phased!Lease!LeaseInit
<1>2. QED
  BY <1>1, PhasesStep, Invariance, SessionAssumption, PTL
     DEF Spec, ImplementsPhases, Phased!PhasesSpec
=============================================================================
