---------------------------- MODULE InstallerProofs ----------------------------
(***************************************************************************)
(* The safety of install.sh, for any machine, command line, repository and *)
(* secrets, any number of crashes of the services and any number of        *)
(* commands of a rollback that fail.                                       *)
(***************************************************************************)
EXTENDS Installer, FiniteSetTheorems, TLAPS

\* The steps while the files are replaced, and those from which on the programs,
\* the configuration, the secrets and the network mode are the new ones.
Replacing == {"program", "web", "config", "hosts", "install secrets", "network", "compile",
              "enable"}
ProgramsDone == {"web", "config", "hosts", "install secrets", "network", "compile", "enable",
                 "health", "committed"}
ConfigDone == {"hosts", "install secrets", "network", "compile", "enable", "health",
               "committed"}
SecretsDone == {"network", "compile", "enable", "health", "committed"}
NetworkDone == {"compile", "enable", "health", "committed"}
ChecksDone == Installing \cup {"dependencies", "committed"}
UninstallEnds == {"uninstalled", "uninstall failed"}

\* The units that a loop has left.
Waiting(units) == {units[i] : i \in 1 .. Len(units)}

Stopped(s) == run[s] = "stopped"
AllStopped == \A s \in Services : Stopped(s)
StoppedBefore(s) == before.run[s] = "stopped"
Runs(program) == \A s \in Services : Up(s) => image[s] = program

Shaped(files) ==
  /\ HasFields(files, Targets)
  /\ HasFields(files.etc, EtcFiles)
  /\ files.program \subseteq {"old", "new"}

\* BindsTo=, as what it says of the units that are stopped.
Chained ==
  /\ Stopped("netd") => Stopped("browser")
  /\ Stopped("browser") => Stopped("xanhtabd")

\* The shape of the machine, as it is and as it was.
MachineInv ==
  /\ Shaped(disk) /\ Chained
  /\ Shaped(before.disk) /\ before.enabled \subseteq Services
  /\ \A toml \in before.disk.etc.toml : IsToml(toml)
  /\ StoppedBefore("netd") => StoppedBefore("browser")
  /\ StoppedBefore("browser") => StoppedBefore("xanhtabd")

\* Where the earlier installation is: on the disk until FILES_MUTATED is set, in
\* the backup from then on.
FilesInv ==
  /\ options.uninstall <=> job \in Uninstalling \cup UninstallEnds
  /\ filesMutated \in BOOLEAN
  /\ job \in Checking \cup {"refused", "stop", "backup"} => ~filesMutated
  /\ job \in Replacing \cup {"health", "committed"} => filesMutated
  /\ filesMutated => backup = before.disk /\ ~options.uninstall
  /\ ~filesMutated /\ job \notin UninstallEnds => disk = before.disk
  /\ job = "remove" => backup.etc = before.disk.etc
  /\ job \in UninstallEnds =>
       disk.data = before.disk.data /\ before.disk.etc \in {disk.etc, backup.etc}
  /\ job \in ProgramsDone => disk.program = {"new"}
  /\ job \in {"program", "web", "config"} => disk.etc = before.disk.etc

\* What the services do on the way to a commit.  Unless one was overlooked, those
\* the script remembers as active are the ones that were not stopped before, and
\* none runs while the files are replaced.
ServicesInv ==
  /\ job \in Checking \cup {"refused"} =>
       /\ enabled = before.enabled /\ Runs(before.disk.program)
       /\ \A s \in Services : Stopped(s) <=> StoppedBefore(s)
  /\ job \in Installing \cup RollingBack =>
       /\ previous.enabled = before.enabled
       /\ overlooked = {} =>
            \A s \in Services : s \in previous.active <=> ~StoppedBefore(s)
  /\ job \in {"stop", "rollback stop"} => todo \in StopTodos
  /\ job \in {"stop", "rollback stop"} /\ overlooked = {} /\ rollbackFailed = 0 =>
       \A s \in Services \ Waiting(todo) : Stopped(s)
  /\ job \in Checking \cup Installing => rollbackFailed = 0
  /\ job \in Replacing \cup {"backup"} /\ overlooked = {} => AllStopped
  /\ job \in {"health", "committed"} =>
       enabled = Services /\ (overlooked = {} => Runs({"new"}))

\* What each step of a rollback has undone, as long as none of its commands failed.
RollbackInv ==
  /\ job \in {"rollback services", "rolled back"} => todo \in ServiceTodos
  /\ job = "rolled back" => todo = << >> /\ rollbackFailed = 0
  /\ rollbackFailed = 0 =>
       /\ job \in {"rollback remove", "rollback restore"} => enabled = {}
       /\ job = "rollback restore" /\ filesMutated => \A t \in Targets : disk[t] = Bare[t]
       /\ job \in {"rollback services", "rolled back"} =>
            /\ disk = before.disk
            /\ \A s \in Services : s \in enabled <=> s \in before.enabled \ Waiting(todo)
       /\ overlooked = {} =>
            /\ job \in {"rollback disable", "rollback remove", "rollback restore"} =>
                 AllStopped
            /\ job \in {"rollback services", "rolled back"} =>
                 /\ \A s \in Services : Stopped(s) <=> StoppedBefore(s) \/ s \in Waiting(todo)
                 /\ Runs(before.disk.program)

\* What CommittedConfiguration asks of the settings.
Repaired == options.repair /\ before.disk.etc.toml # {}
FromRepository(toml) ==
  \E repository \in Repositories : \E doc \in repository.config :
    /\ ParseRemoteConfig(doc)
    /\ toml.url = Apply(ReleaseToml, doc).url
    /\ toml.burn = Apply(ReleaseToml, doc).burn
Settled(toml) ==
  LET base == IF Repaired THEN The(before.disk.etc.toml) ELSE ReleaseToml
  IN  /\ IsToml(toml)
      /\ \/ toml.url = base.url /\ toml.burn = base.burn
         \/ ~Repaired /\ FromRepository(toml)

\* What has been checked of the files in WORK_DIR.
WorkInv ==
  /\ HasFields(work, {"hosts", "effective", "wg", "proxy", "override"})
  /\ job \in Checking \ {"dependencies"} =>
       \A toml \in work.effective : IsToml(toml) /\ FromRepository(toml)
  /\ job \in ChecksDone /\ ~Repaired => \A toml \in work.effective : Settled(toml)
  /\ job \in ChecksDone \cup {"proxy"} => work.wg \in {{}, {"strict"}}
  /\ job \in ChecksDone =>
       /\ options.network = "wireguard" => work.wg # {}
       /\ options.network = "proxy" => work.proxy # {}
       /\ \A url \in work.proxy : ValidateProxyUrl(url, TRUE)
       /\ work.override = {url.endpoint : url \in work.proxy}

\* What of it has been installed.
ConfigInv ==
  /\ job \in ConfigDone => disk.etc.toml # {} /\ Settled(The(disk.etc.toml))
  /\ job \in SecretsDone =>
       /\ work.wg # {} => disk.etc.wg = work.wg
       /\ work.proxy # {} => disk.etc.proxy = work.proxy
  /\ job \in NetworkDone =>
       LET toml == The(disk.etc.toml)
       IN  /\ toml.mode = options.network
           /\ work.override # {} => toml.endpoint \in work.override

InstallerInv ==
  ControlOK /\ MachineInv /\ FilesInv /\ ServicesInv /\ RollbackInv /\ WorkInv /\ ConfigInv

-----------------------------------------------------------------------------
\* A value that is there.
LEMMA TheOne == \A S : S # {} => The(S) \in S
  BY DEF The

LEMMA TheOnly == \A x : The({x}) = x
  BY DEF The

\* A list of units without its first.
LEMMA StopTodo ==
  ASSUME NEW q \in StopTodos, q # << >>
  PROVE  /\ Tail(q) \in StopTodos /\ Head(q) \in Services
         /\ Waiting(Tail(q)) = Waiting(q) \ {Head(q)}
<1>1. CASE q = << "xanhtabd", "browser", "netd" >>
  <2>1. Tail(q) = << "browser", "netd" >> /\ Head(q) = "xanhtabd"
    BY <1>1
  <2>2. Waiting(q) = {"xanhtabd", "browser", "netd"} /\ Waiting(Tail(q)) = {"browser", "netd"}
    BY <1>1, <2>1 DEF Waiting
  <2>3. QED
    BY <2>1, <2>2 DEF StopTodos, StopUnits, Services
<1>2. CASE q = << "browser", "netd" >>
  <2>1. Tail(q) = << "netd" >> /\ Head(q) = "browser"
    BY <1>2
  <2>2. Waiting(q) = {"browser", "netd"} /\ Waiting(Tail(q)) = {"netd"}
    BY <1>2, <2>1 DEF Waiting
  <2>3. QED
    BY <2>1, <2>2 DEF StopTodos, StopUnits, Services
<1>3. CASE q = << "netd" >>
  <2>1. Tail(q) = << >> /\ Head(q) = "netd"
    BY <1>3
  <2>2. Waiting(q) = {"netd"} /\ Waiting(Tail(q)) = {}
    BY <1>3, <2>1 DEF Waiting
  <2>3. QED
    BY <2>1, <2>2 DEF StopTodos, StopUnits, Services
<1>4. QED
  BY <1>1, <1>2, <1>3 DEF StopTodos, StopUnits

LEMMA ServiceTodo ==
  ASSUME NEW q \in ServiceTodos, q # << >>
  PROVE  /\ Tail(q) \in ServiceTodos /\ Head(q) \in Services
         /\ Waiting(Tail(q)) = Waiting(q) \ {Head(q)}
         /\ Head(q) \in Waiting(q) /\ BoundTo(Head(q)) \cap Waiting(q) = {}
<1>1. CASE q = << "netd", "browser", "xanhtabd" >>
  <2>1. Tail(q) = << "browser", "xanhtabd" >> /\ Head(q) = "netd"
    BY <1>1
  <2>2. /\ Waiting(q) = {"xanhtabd", "browser", "netd"}
        /\ Waiting(Tail(q)) = {"browser", "xanhtabd"}
    BY <1>1, <2>1 DEF Waiting
  <2>3. QED
    BY <2>1, <2>2 DEF ServiceTodos, ServiceUnits, Services, BoundTo
<1>2. CASE q = << "browser", "xanhtabd" >>
  <2>1. Tail(q) = << "xanhtabd" >> /\ Head(q) = "browser"
    BY <1>2
  <2>2. Waiting(q) = {"browser", "xanhtabd"} /\ Waiting(Tail(q)) = {"xanhtabd"}
    BY <1>2, <2>1 DEF Waiting
  <2>3. QED
    BY <2>1, <2>2 DEF ServiceTodos, ServiceUnits, Services, BoundTo
<1>3. CASE q = << "xanhtabd" >>
  <2>1. Tail(q) = << >> /\ Head(q) = "xanhtabd"
    BY <1>3
  <2>2. Waiting(q) = {"xanhtabd"} /\ Waiting(Tail(q)) = {}
    BY <1>3, <2>1 DEF Waiting
  <2>3. QED
    BY <2>1, <2>2 DEF ServiceTodos, ServiceUnits, Services, BoundTo
<1>4. QED
  BY <1>1, <1>2, <1>3 DEF ServiceTodos, ServiceUnits

\* Nobody waits for an empty list, everybody for a whole one.
LEMMA TodoEnds ==
  /\ Waiting(<< >>) = {} /\ << >> \in StopTodos /\ << >> \in ServiceTodos
  /\ StopUnits \in StopTodos /\ Waiting(StopUnits) = Services
  /\ ServiceUnits \in ServiceTodos /\ Waiting(ServiceUnits) = Services
<1>1. Waiting(<< >>) = {}
  BY DEF Waiting
<1>2. Waiting(StopUnits) = Services
  BY DEF Waiting, StopUnits, Services
<1>3. Waiting(ServiceUnits) = Services
  BY DEF Waiting, ServiceUnits, Services
<1>4. QED
  BY <1>1, <1>2, <1>3 DEF StopTodos, ServiceTodos, StopUnits, ServiceUnits

\* systemctl stop, with what is bound to the unit.
LEMMA Stops ==
  ASSUME ControlOK, Chained, NEW s \in Services, StopUnit(s)
  PROVE  /\ run' \in [Services -> {"stopped", "active", "restarting"}] /\ image' = image
         /\ \A u \in Services : Stopped(u)' <=> Stopped(u) \/ u = s \/ s \in BoundTo(u)
         /\ \A u \in Services : Up(u)' => Up(u)
         /\ Chained'
  BY DEF ControlOK, Chained, StopUnit, Stopped, Up, Services, BoundTo

\* systemctl start, with what the unit is bound to.
LEMMA Starts ==
  ASSUME ControlOK, Shaped(disk), Chained, NEW s \in Services, StartUnit(s)
  PROVE  /\ run' \in [Services -> {"stopped", "active", "restarting"}]
         /\ image' \in [Services -> SUBSET {"old", "new"}]
         /\ \A u \in Services : Stopped(u)' <=> Stopped(u) /\ u # s /\ u \notin BoundTo(s)
         /\ \A u \in Services :
              Up(u)' => image'[u] = disk.program \/ (Up(u) /\ image'[u] = image[u])
         /\ Up(s)' /\ Chained'
<1>1. \A u \in Services : run'[u] = IF u \in BoundTo(s) \cup {s} THEN "active" ELSE run[u]
  BY DEF StartUnit, Up
<1>2. \A u \in Services :
        image'[u] = IF u \in BoundTo(s) \cup {s} /\ ~Up(u) THEN disk.program ELSE image[u]
  BY DEF StartUnit
<1>3. run' \in [Services -> {"stopped", "active", "restarting"}]
  BY DEF StartUnit, ControlOK
<1>4. image' \in [Services -> SUBSET {"old", "new"}]
  BY DEF StartUnit, ControlOK, Shaped
<1>5. \A u \in Services : Stopped(u)' <=> Stopped(u) /\ u # s /\ u \notin BoundTo(s)
  BY <1>1 DEF Stopped
<1>6. Up(s)'
  BY <1>1 DEF Up
<1>7. Chained'
  BY <1>5 DEF Chained, BoundTo, Services
<1>8. QED
  BY <1>1, <1>2, <1>3, <1>4, <1>5, <1>6, <1>7 DEF Up

-----------------------------------------------------------------------------
\* What has been checked stays checked while the script goes on with it.
LEMMA WorkStands ==
  ASSUME WorkInv, UNCHANGED <<options, work, before>>,
         \/ job' = job
         \/ job \in ChecksDone /\ job' \in Installing \cup {"committed"}
         \/ job' \notin Checking \cup Installing \cup {"committed"}
  PROVE  WorkInv'
<1>1. \A toml : (IsToml(toml) /\ FromRepository(toml) => (IsToml(toml) /\ FromRepository(toml))')
                /\ (Settled(toml) => Settled(toml)')
  BY DEF Settled, Repaired, FromRepository
<1>2. QED
  BY <1>1 DEF WorkInv, Repaired, Checking, ChecksDone, Installing

\* What has been installed stays until a rollback.
LEMMA ConfigStands ==
  ASSUME ConfigInv, UNCHANGED <<options, work, before>>,
         \/ disk' = disk /\ (job' = job \/ job \in NetworkDone)
         \/ job' \notin ConfigDone
  PROVE  ConfigInv'
<1>1. \A toml : Settled(toml) => Settled(toml)'
  BY DEF Settled, Repaired, FromRepository
<1>2. QED
  BY <1>1 DEF ConfigInv, ConfigDone, SecretsDone, NetworkDone

\* A service dies, with those bound to it.
LEMMA CrashKeeps ==
  ASSUME InstallerAssumption, InstallerInv, NEW s \in Services, Crash(s)
  PROVE  InstallerInv'
<1> USE DEF InstallerInv, Crash, script
<1>1. /\ run' \in [Services -> {"stopped", "active", "restarting"}]
      /\ \A u \in Services : (Stopped(u)' <=> Stopped(u)) /\ (Up(u)' => Up(u))
  BY DEF ControlOK, Stopped, Up
<1>2. ControlOK'
  BY <1>1 DEF ControlOK, InstallerAssumption
<1>3. MachineInv'
  BY <1>1 DEF MachineInv, Chained, Services, StoppedBefore
<1>4. FilesInv'
  BY DEF FilesInv
<1>5. Runs(before.disk.program) => Runs(before.disk.program)'
  BY <1>1 DEF Runs
<1>6. Runs({"new"}) => Runs({"new"})'
  BY <1>1 DEF Runs
<1>7. AllStopped => AllStopped'
  BY <1>1 DEF AllStopped
<1>8. ServicesInv'
  BY <1>1, <1>5, <1>6, <1>7 DEF ServicesInv, StoppedBefore
<1>9. RollbackInv'
  BY <1>1, <1>5, <1>7 DEF RollbackInv, StoppedBefore
<1>10. QED
  BY <1>2, <1>3, <1>4, <1>8, <1>9, WorkStands, ConfigStands

\* systemd starts a service again, from the program that is there.
LEMMA RestartKeeps ==
  ASSUME InstallerAssumption, InstallerInv, NEW s \in Services, Restart(s)
  PROVE  InstallerInv'
<1> USE DEF InstallerInv, Restart, script
<1>1. /\ run' \in [Services -> {"stopped", "active", "restarting"}]
      /\ image' \in [Services -> SUBSET {"old", "new"}]
      /\ \A u \in Services : Stopped(u)' <=> Stopped(u)
      /\ \A u \in Services : Up(u)' => image'[u] = disk.program \/ (Up(u) /\ image'[u] = image[u])
      /\ Chained'
  <2>1. \A u \in BoundTo(s) \cup {s} : u \in Services /\ ~Stopped(u)
    BY DEF MachineInv, Chained, Stopped, BoundTo, Services
  <2>2. QED
    BY <2>1, Starts DEF MachineInv
<1>2. ControlOK'
  BY <1>1 DEF ControlOK
<1>3. MachineInv'
  BY <1>1 DEF MachineInv, StoppedBefore
<1>4. FilesInv'
  BY DEF FilesInv
<1>5. disk.program = before.disk.program /\ Runs(before.disk.program)
        => Runs(before.disk.program)'
  BY <1>1 DEF Runs
<1>6. disk.program = {"new"} /\ Runs({"new"}) => Runs({"new"})'
  BY <1>1 DEF Runs
<1>7. AllStopped => AllStopped'
  BY <1>1 DEF AllStopped
<1>8. ServicesInv'
  BY <1>1, <1>5, <1>6, <1>7 DEF ServicesInv, FilesInv, StoppedBefore, UninstallEnds, ProgramsDone,
     Checking
<1>9. RollbackInv'
  BY <1>1, <1>5, <1>7 DEF RollbackInv, StoppedBefore
<1>10. QED
  BY <1>2, <1>3, <1>4, <1>8, <1>9, WorkStands, ConfigStands

\* A check: nothing is touched, and it ends in the next check or in a refusal.
LEMMA CheckedKeeps ==
  ASSUME InstallerInv, Checked, job \in Checking,
         job' \in Checking \cup {"refused"},
         \A file \in examined' : file.text \in WireGuardFiles
  PROVE  ControlOK' /\ MachineInv' /\ FilesInv' /\ ServicesInv' /\ RollbackInv' /\ ConfigInv'
<1> USE DEF InstallerInv, Checked, machine
<1>1. ControlOK'
  BY DEF ControlOK, Ended
<1>2. MachineInv'
  BY DEF MachineInv, Chained, Stopped, StoppedBefore
<1>3. FilesInv'
  BY DEF FilesInv, Checking, Uninstalling, UninstallEnds, Replacing, ProgramsDone
<1>4. ServicesInv'
  BY DEF ServicesInv, Checking, Installing, RollingBack, Replacing, Stopped, StoppedBefore, Runs,
         Up
<1>5. RollbackInv'
  BY DEF RollbackInv, Checking
<1>6. ConfigInv'
  BY DEF ConfigInv, Checking, ConfigDone, SecretsDone, NetworkDone
<1>7. QED
  BY <1>1, <1>2, <1>3, <1>4, <1>5, <1>6

\* The public configuration is parsed and merged into the release's.
LEMMA SyncPublicConfigKeeps ==
  ASSUME InstallerAssumption, InstallerInv, SyncPublicConfig
  PROVE  InstallerInv'
<1>1. PICK repository \in Repositories :
        IF /\ \A file \in repository.hosts : StrictlyValid(file)
           /\ \A doc \in repository.config : ParseRemoteConfig(doc)
        THEN /\ work' = [work EXCEPT !.hosts = repository.hosts,
                                     !.effective = {Apply(ReleaseToml, doc) :
                                                      doc \in repository.config}]
             /\ GoTo("secrets")
             /\ UNCHANGED examined
        ELSE Die
  BY DEF SyncPublicConfig
<1>2. CASE Die
  <2>1. WorkInv'
    BY <1>2, WorkStands DEF InstallerInv, SyncPublicConfig, Checked, Die, GoTo, Checking, Installing
  <2>2. QED
    BY <1>2, <2>1, CheckedKeeps DEF InstallerInv, SyncPublicConfig, Die, GoTo, ControlOK, Checking
<1>3. CASE /\ \A doc \in repository.config : ParseRemoteConfig(doc)
           /\ work' = [work EXCEPT !.hosts = repository.hosts,
                                   !.effective = {Apply(ReleaseToml, doc) :
                                                    doc \in repository.config}]
           /\ GoTo("secrets") /\ UNCHANGED examined
  <2>1. \A doc : IsToml(Apply(ReleaseToml, doc))
    BY DEF Apply, IsToml, HasFields, InstallerAssumption
  <2>2. \A doc \in repository.config : FromRepository(Apply(ReleaseToml, doc))
    BY <1>3 DEF FromRepository
  <2>3. /\ HasFields(work', {"hosts", "effective", "wg", "proxy", "override"})
        /\ work'.effective = {Apply(ReleaseToml, doc) : doc \in repository.config}
    BY <1>3 DEF InstallerInv, WorkInv, HasFields
  <2>4. \A toml \in work'.effective : IsToml(toml)' /\ FromRepository(toml)'
    BY <2>1, <2>2, <2>3 DEF FromRepository
  <2>5. WorkInv'
    BY <1>3, <2>3, <2>4 DEF WorkInv, GoTo, ChecksDone, Checking, Installing
  <2>6. QED
    BY <1>3, <2>5, CheckedKeeps DEF InstallerInv, SyncPublicConfig, GoTo, ControlOK, Checking
<1>4. QED
  BY <1>1, <1>2, <1>3

\* The secrets that were given, or those to be kept, are gathered.
LEMMA PrepareSecretsKeeps ==
  ASSUME InstallerInv, PrepareSecrets
  PROVE  InstallerInv'
<1>1. /\ HasFields(work', {"hosts", "effective", "wg", "proxy", "override"})
      /\ work'.effective = work.effective
  BY DEF PrepareSecrets, InstallerInv, WorkInv, HasFields
<1>2. job = "secrets" /\ job' = "wireguard" /\ examined' = examined /\ Checked
  BY DEF PrepareSecrets, GoTo
<1>3. \A toml \in work.effective : IsToml(toml)' /\ FromRepository(toml)'
  BY <1>2 DEF InstallerInv, WorkInv, FromRepository, Checking
<1>4. WorkInv'
  BY <1>1, <1>2, <1>3 DEF WorkInv, ChecksDone, Checking, Installing
<1>5. QED
  BY <1>2, <1>4, CheckedKeeps DEF InstallerInv, ControlOK, Checking

\* netd reads the WireGuard file: what goes on from here is strict.
LEMMA CheckWireGuardKeeps ==
  ASSUME InstallerInv, CheckWireGuard
  PROVE  InstallerInv'
<1>1. job = "wireguard" /\ Checked
  BY DEF CheckWireGuard
<1>2. \A toml \in work.effective : IsToml(toml)' /\ FromRepository(toml)'
  BY <1>1 DEF InstallerInv, WorkInv, FromRepository, Checking
<1>3. CASE work.wg = {} /\ GoTo("proxy") /\ UNCHANGED <<work, examined>>
  <2>1. WorkInv'
    BY <1>2, <1>3 DEF InstallerInv, WorkInv, GoTo, ChecksDone, Checking, Installing
  <2>2. QED
    BY <1>1, <1>3, <2>1, CheckedKeeps DEF InstallerInv, GoTo, ControlOK, Checking
<1>4. ASSUME NEW text \in WireGuardFiles,
             examined' = {[text |-> text, accepted |-> Validate(text)]},
             IF Validate(text)
             THEN GoTo("proxy") /\ work' = [work EXCEPT !.wg = {"strict"}]
             ELSE GoTo("refused") /\ UNCHANGED work
      PROVE  InstallerInv'
  <2>1. \A file \in examined' : file.text \in WireGuardFiles
    BY <1>4
  <2>2. WorkInv'
    <3>1. CASE GoTo("proxy") /\ work' = [work EXCEPT !.wg = {"strict"}]
      <4>1. /\ HasFields(work', {"hosts", "effective", "wg", "proxy", "override"})
            /\ work'.effective = work.effective /\ work'.wg = {"strict"}
        BY <3>1 DEF InstallerInv, WorkInv, HasFields
      <4>2. QED
        BY <1>2, <3>1, <4>1 DEF WorkInv, GoTo, ChecksDone, Checking, Installing
    <3>2. CASE GoTo("refused") /\ UNCHANGED work
      BY <1>1, <3>2, WorkStands DEF InstallerInv, Checked, GoTo, Checking, Installing
    <3>3. QED
      BY <1>4, <3>1, <3>2
  <2>3. QED
    BY <1>1, <1>4, <2>1, <2>2, CheckedKeeps DEF InstallerInv, GoTo, Checking
<1>5. QED
  BY <1>3, <1>4 DEF CheckWireGuard

\* netd reads the proxy URL, and the mode has its secret.
LEMMA CheckProxyKeeps ==
  ASSUME InstallerAssumption, InstallerInv, CheckProxy
  PROVE  InstallerInv'
<1> DEFINE installed == IF options.repair /\ disk.etc.toml # {}
                        THEN disk.etc.toml ELSE {ReleaseToml}
           source == IF work.effective # {} THEN work.effective ELSE installed
           endpoint == {url.endpoint : url \in work.proxy}
           chosen == [The(source) EXCEPT !.endpoint = The(endpoint)]
<1>1. job = "proxy" /\ Checked
  BY DEF CheckProxy
<1>2. CASE Die
  <2>1. WorkInv'
    BY <1>1, <1>2, WorkStands DEF InstallerInv, Checked, Die, GoTo, Checking, Installing
  <2>2. QED
    BY <1>1, <1>2, <2>1, CheckedKeeps DEF InstallerInv, Die, GoTo, ControlOK, Checking
<1>3. CASE /\ \A url \in work.proxy : ValidateProxyUrl(url, TRUE)
           /\ options.network = "wireguard" => work.wg # {}
           /\ options.network = "proxy" => work.proxy # {}
           /\ work' = [work EXCEPT !.override = endpoint,
                                   !.effective = IF endpoint = {} THEN @ ELSE {chosen}]
           /\ GoTo("dependencies") /\ examined' = {}
  <2>1. /\ HasFields(work', {"hosts", "effective", "wg", "proxy", "override"})
        /\ work'.effective = IF endpoint = {} THEN work.effective ELSE {chosen}
        /\ work'.wg = work.wg /\ work'.proxy = work.proxy /\ work'.override = endpoint
    BY <1>3 DEF InstallerInv, WorkInv, HasFields
  <2>2. ASSUME ~Repaired, NEW toml \in work'.effective
        PROVE  Settled(toml)
    <3>1. ASSUME NEW t, IsToml(t), FromRepository(t)
          PROVE  Settled(t)
      BY <2>2, <3>1 DEF Settled
    <3>2. \A t \in work.effective : IsToml(t) /\ FromRepository(t)
      BY <1>1 DEF InstallerInv, WorkInv, Checking
    <3>3. source = IF work.effective # {} THEN work.effective ELSE {ReleaseToml}
      BY <1>1, <2>2 DEF Repaired, InstallerInv, FilesInv, Checking, UninstallEnds
    <3>4. The(source) \in source
      BY <3>3, TheOne
    <3>5. /\ IsToml(The(source))
          /\ \/ FromRepository(The(source))
             \/ The(source) = ReleaseToml
      BY <3>2, <3>3, <3>4 DEF InstallerAssumption
    <3>6. CASE toml = chosen
      <4>1. IsToml(chosen) /\ chosen.url = The(source).url /\ chosen.burn = The(source).burn
        BY <3>5 DEF IsToml, HasFields
      <4>2. CASE FromRepository(The(source))
        <5>1. FromRepository(chosen)
          BY <4>1, <4>2 DEF FromRepository
        <5>2. QED
          BY <3>1, <3>6, <4>1, <5>1
      <4>3. CASE The(source) = ReleaseToml
        BY <2>2, <3>6, <4>1, <4>3 DEF Settled
      <4>4. QED
        BY <3>5, <4>2, <4>3
    <3>7. CASE toml \in work.effective
      BY <3>1, <3>2, <3>7
    <3>8. QED
      BY <2>1, <2>2, <3>6, <3>7
  <2>3. \A toml : (Settled(toml)' <=> Settled(toml)) /\ (Repaired' <=> Repaired)
    BY <1>1 DEF Settled, Repaired, FromRepository, Checked
  <2>4. work.wg \in {{}, {"strict"}}
    BY <1>1 DEF InstallerInv, WorkInv
  <2>5. job' = "dependencies" /\ options' = options
    BY <1>1, <1>3 DEF GoTo, Checked
  <2>6. WorkInv'
    BY <1>3, <2>1, <2>2, <2>3, <2>4, <2>5 DEF WorkInv, Checking
  <2>7. QED
    BY <1>1, <1>3, <2>6, CheckedKeeps DEF InstallerInv, GoTo, Checking
<1>4. QED
  BY <1>2, <1>3 DEF CheckProxy

-----------------------------------------------------------------------------
\* The script looks at the services: what it does not see as active and does not
\* overlook is stopped.
LEMMA CaptureServiceStateKeeps ==
  ASSUME InstallerInv, CaptureServiceState
  PROVE  InstallerInv'
<1> USE DEF InstallerInv, CaptureServiceState, Kept, machine
<1>1. ControlOK'
  BY DEF ControlOK, Installing
<1>2. MachineInv'
  BY DEF MachineInv, Chained, Stopped, StoppedBefore
<1>3. FilesInv'
  BY DEF FilesInv, Checking, Uninstalling, UninstallEnds, Replacing, ProgramsDone
<1>4. overlooked' = {} => \A s \in Services : s \in previous'.active <=> ~StoppedBefore(s)
  BY DEF ServicesInv, ControlOK, Checking, Stopped, Up
<1>5. ServicesInv'
  <2>1. enabled = before.enabled /\ rollbackFailed = 0
    BY DEF ServicesInv, Checking
  <2>2. Services \ Waiting(todo') = {}
    BY TodoEnds
  <2>3. QED
    BY <1>4, <2>1, <2>2, TodoEnds DEF ServicesInv, Checking, Installing, RollingBack, Replacing,
       StoppedBefore
<1>6. RollbackInv'
  BY DEF RollbackInv
<1>7. WorkInv'
  BY WorkStands DEF Installing, ChecksDone
<1>8. ConfigInv'
  BY ConfigStands DEF ConfigDone
<1>9. QED
  BY <1>1, <1>2, <1>3, <1>5, <1>6, <1>7, <1>8

\* A step of stop_services, or of the rollback's: a unit that is active is stopped,
\* or the command fails; one that waits for its restart is overlooked.
LEMMA StopOne ==
  ASSUME ControlOK, Chained, NEW s \in Services,
         (Up(s) /\ StopUnit(s)) \/ UNCHANGED <<run, image>>, Overlook(s)
  PROVE  /\ run' \in [Services -> {"stopped", "active", "restarting"}] /\ image' = image
         /\ Chained' /\ overlooked \subseteq overlooked' /\ overlooked' \subseteq Services
         /\ \A u \in Services : Stopped(u) => Stopped(u)'
         /\ overlooked' = {} /\ run'[s] # "active" => Stopped(s)'
<1>1. /\ run' \in [Services -> {"stopped", "active", "restarting"}] /\ image' = image
      /\ Chained' /\ \A u \in Services : Stopped(u) => Stopped(u)'
  BY Stops DEF ControlOK, Chained, Stopped
<1>2. overlooked \subseteq overlooked' /\ overlooked' \subseteq Services
  BY DEF Overlook, ControlOK
<1>3. ASSUME overlooked' = {}, run'[s] # "active"
      PROVE  Stopped(s)'
  <2>1. run[s] # "restarting"
    BY <1>3 DEF Overlook
  <2>2. CASE UNCHANGED <<run, image>>
    BY <1>3, <2>1, <2>2 DEF ControlOK, Stopped
  <2>3. CASE StopUnit(s)
    BY <2>3, Stops
  <2>4. QED
    BY <2>2, <2>3
<1>4. QED
  BY <1>1, <1>2, <1>3

\* The units are stopped one by one.
LEMMA StopForInstallKeeps ==
  ASSUME InstallerInv, StopForInstall
  PROVE  InstallerInv'
<1> USE DEF InstallerInv, Kept
<1>1. /\ job = "stop" /\ todo \in StopTodos /\ ~filesMutated /\ rollbackFailed = 0
      /\ UNCHANGED <<backup, previous, filesMutated, disk, enabled>>
  BY DEF StopForInstall, ServicesInv, FilesInv, Installing, machine
<1>2. CASE todo = << >>
  <2>1. GoTo("backup") /\ UNCHANGED <<run, image, overlooked>>
    BY <1>2 DEF StopForInstall, machine
  <2>2. ControlOK'
    BY <1>1, <2>1, StopForInstall DEF ControlOK, GoTo, Installing, StopForInstall
  <2>3. MachineInv'
    BY <1>1, <2>1 DEF StopForInstall, MachineInv, Chained, Stopped, StoppedBefore
  <2>4. FilesInv'
    BY <1>1, <2>1 DEF StopForInstall, GoTo, FilesInv, Checking, Uninstalling, UninstallEnds,
       Replacing, ProgramsDone
  <2>5. overlooked = {} => AllStopped
    BY <1>1, <1>2, TodoEnds DEF ServicesInv, AllStopped
  <2>6. ServicesInv'
    BY <1>1, <2>1, <2>5 DEF StopForInstall, GoTo, ServicesInv, Checking, Installing, RollingBack,
       Replacing, AllStopped, Stopped, StoppedBefore
  <2>7. RollbackInv'
    BY <1>1, <2>1 DEF StopForInstall, GoTo, RollbackInv
  <2>8. WorkInv' /\ ConfigInv'
    BY <1>1, <2>1, WorkStands, ConfigStands DEF StopForInstall, GoTo, Installing, ChecksDone,
       ConfigDone
  <2>9. QED
    BY <2>2, <2>3, <2>4, <2>6, <2>7, <2>8
<1>3. CASE todo # << >>
  <2>0. PICK s \in Services : s = Head(todo)
    BY <1>1, <1>3, StopTodo
  <2>1. Tail(todo) \in StopTodos /\ Waiting(Tail(todo)) = Waiting(todo) \ {s}
    BY <2>0, <1>1, <1>3, StopTodo
  <2>2. /\ IF Up(s) THEN StopUnit(s) ELSE UNCHANGED <<run, image>>
        /\ Overlook(s) /\ todo' = Tail(todo) /\ job' = job
    BY <2>0, <1>3 DEF StopForInstall
  <2>3. run'[s] # "active"
    BY <2>2, Stops DEF MachineInv, Stopped, Up
  <2>4. /\ run' \in [Services -> {"stopped", "active", "restarting"}] /\ image' = image
        /\ Chained' /\ overlooked \subseteq overlooked' /\ overlooked' \subseteq Services
        /\ \A u \in Services : Stopped(u) => Stopped(u)'
        /\ overlooked' = {} => Stopped(s)'
    <3>1. (Up(s) /\ StopUnit(s)) \/ UNCHANGED <<run, image>>
      BY <2>2
    <3>2. Chained
      BY DEF MachineInv
    <3>3. QED
      BY <2>2, <2>3, <3>1, <3>2, StopOne
  <2>5. ControlOK'
    BY <1>1, <2>2, <2>4 DEF StopForInstall, ControlOK
  <2>6. MachineInv'
    BY <1>1, <2>4 DEF StopForInstall, MachineInv, StoppedBefore
  <2>7. FilesInv'
    BY <1>1, <2>2 DEF StopForInstall, FilesInv
  <2>8. overlooked' = {} => overlooked = {}
    BY <2>4
  <2>9. overlooked' = {} => \A u \in Services \ Waiting(todo') : Stopped(u)'
    <3>1. overlooked = {} => \A u \in Services \ Waiting(todo) : Stopped(u)
      BY <1>1 DEF ServicesInv
    <3>2. Waiting(todo') = Waiting(todo) \ {s}
      BY <2>1, <2>2
    <3>3. QED
      BY <2>4, <2>8, <3>1, <3>2
  <2>10. ServicesInv'
    BY <1>1, <2>1, <2>2, <2>8, <2>9 DEF StopForInstall, ServicesInv, Checking, Installing,
       RollingBack, Replacing, StoppedBefore
  <2>11. RollbackInv'
    BY <1>1, <2>2 DEF StopForInstall, RollbackInv
  <2>12. WorkInv' /\ ConfigInv'
    BY <1>1, <2>2, WorkStands, ConfigStands DEF StopForInstall
  <2>13. QED
    BY <2>5, <2>6, <2>7, <2>10, <2>11, <2>12
<1>4. QED
  BY <1>2, <1>3

\* The copies are complete when FILES_MUTATED is set.
LEMMA BackUpKeeps ==
  ASSUME InstallerInv, BackUp
  PROVE  InstallerInv'
<1> USE DEF InstallerInv, BackUp, Kept, machine, GoTo
<1>1. ControlOK'
  BY DEF ControlOK, Installing
<1>2. MachineInv'
  BY DEF MachineInv, Chained, Stopped, StoppedBefore
<1>3. FilesInv'
  BY DEF FilesInv, Checking, Uninstalling, UninstallEnds, Replacing, ProgramsDone
<1>4. ServicesInv'
  BY DEF ServicesInv, Checking, Installing, RollingBack, Replacing, AllStopped, Stopped,
     StoppedBefore
<1>5. RollbackInv'
  BY DEF RollbackInv
<1>6. WorkInv' /\ ConfigInv'
  BY WorkStands, ConfigStands DEF Installing, ChecksDone, ConfigDone
<1>7. QED
  BY <1>1, <1>2, <1>3, <1>4, <1>5, <1>6

\* A command that replaces files leads to the next one, and leaves the rest alone.
LEMMA InstalledKeeps ==
  ASSUME InstallerInv, NEW next \in Replacing \ {"program"}, Installed(next),
         job \in Replacing \ {"enable"}, Shaped(disk'), disk'.program = {"new"},
         next \in {"web", "config"} => disk'.etc = disk.etc /\ job \in {"program", "web"}
  PROVE  ControlOK' /\ MachineInv' /\ FilesInv' /\ ServicesInv' /\ RollbackInv' /\ WorkInv'
<1> USE DEF InstallerInv, Installed, Kept, GoTo
<1>1. ControlOK'
  BY DEF ControlOK, Installing, Replacing
<1>2. MachineInv'
  BY DEF MachineInv, Chained, Stopped, StoppedBefore
<1>3. FilesInv'
  BY DEF FilesInv, Checking, Uninstalling, UninstallEnds, Replacing, ProgramsDone
<1>4. ServicesInv'
  BY DEF ServicesInv, Checking, Installing, RollingBack, Replacing, AllStopped, Stopped,
     StoppedBefore
<1>5. RollbackInv'
  BY DEF RollbackInv, Replacing
<1>6. WorkInv'
  BY WorkStands DEF Installing, ChecksDone, Replacing
<1>7. QED
  BY <1>1, <1>2, <1>3, <1>4, <1>5, <1>6

LEMMA InstallProgramsKeeps ==
  ASSUME InstallerInv, InstallPrograms
  PROVE  InstallerInv'
<1>1. Shaped(disk') /\ disk'.program = {"new"} /\ disk'.etc = disk.etc
  BY DEF InstallPrograms, InstallerInv, MachineInv, Shaped, HasFields, Targets
<1>2. ControlOK' /\ MachineInv' /\ FilesInv' /\ ServicesInv' /\ RollbackInv' /\ WorkInv'
  BY <1>1, InstalledKeeps DEF InstallPrograms, Replacing
<1>3. ConfigInv'
  BY ConfigStands DEF InstallPrograms, Installed, Kept, GoTo, InstallerInv, ConfigDone
<1>4. QED
  BY <1>2, <1>3 DEF InstallerInv

LEMMA InstallWebKeeps ==
  ASSUME InstallerInv, InstallWeb
  PROVE  InstallerInv'
<1>1. Shaped(disk') /\ disk'.program = {"new"} /\ disk'.etc = disk.etc
  BY DEF InstallWeb, InstallerInv, MachineInv, FilesInv, ProgramsDone, Shaped, HasFields, Targets
<1>2. ControlOK' /\ MachineInv' /\ FilesInv' /\ ServicesInv' /\ RollbackInv' /\ WorkInv'
  BY <1>1, InstalledKeeps DEF InstallWeb, Replacing
<1>3. ConfigInv'
  BY ConfigStands DEF InstallWeb, Installed, Kept, GoTo, InstallerInv, ConfigDone
<1>4. QED
  BY <1>2, <1>3 DEF InstallerInv

\* The settings are the installed ones with --repair, else those of the repository
\* over the release's.
LEMMA InstallConfigKeeps ==
  ASSUME InstallerAssumption, InstallerInv, InstallConfig
  PROVE  InstallerInv'
<1> DEFINE tomls == IF options.repair /\ disk.etc.toml # {} THEN disk.etc.toml
                    ELSE IF work.effective # {} THEN work.effective ELSE {ReleaseToml}
<1>1. job = "config" /\ disk.etc = before.disk.etc /\ Shaped(disk) /\ disk.program = {"new"}
  BY DEF InstallConfig, InstallerInv, MachineInv, FilesInv, ProgramsDone
<1>2. Shaped(disk') /\ disk'.program = {"new"} /\ disk'.etc.toml = tomls
  BY <1>1 DEF InstallConfig, Shaped, HasFields, Targets, EtcFiles
<1>3. ControlOK' /\ MachineInv' /\ FilesInv' /\ ServicesInv' /\ RollbackInv' /\ WorkInv'
  BY <1>2, InstalledKeeps DEF InstallConfig, Replacing
<1>4. tomls # {} /\ Settled(The(tomls))
  <2>1. tomls # {} /\ The(tomls) \in tomls
    BY TheOne
  <2>2. CASE Repaired
    BY <1>1, <2>1, <2>2 DEF Settled, Repaired, InstallerInv, MachineInv
  <2>3. CASE ~Repaired
    <3>1. tomls = IF work.effective # {} THEN work.effective ELSE {ReleaseToml}
      BY <1>1, <2>3 DEF Repaired
    <3>2. \A toml \in work.effective : Settled(toml)
      BY <1>1, <2>3 DEF InstallerInv, WorkInv, ChecksDone, Installing
    <3>3. Settled(ReleaseToml)
      BY <2>3 DEF Settled, InstallerAssumption
    <3>4. QED
      BY <2>1, <3>1, <3>2, <3>3
  <2>4. QED
    BY <2>2, <2>3
<1>5. \A toml : Settled(toml)' <=> Settled(toml)
  BY DEF InstallConfig, Installed, Kept, Settled, Repaired, FromRepository
<1>6. job' = "hosts" /\ disk'.etc.toml # {} /\ Settled(The(disk'.etc.toml))
  BY <1>2, <1>4 DEF InstallConfig, Installed, GoTo
<1>7. ConfigInv'
  BY <1>5, <1>6 DEF ConfigInv, SecretsDone, NetworkDone
<1>8. QED
  BY <1>3, <1>7 DEF InstallerInv

LEMMA InstallHostsKeeps ==
  ASSUME InstallerInv, InstallHosts
  PROVE  InstallerInv'
<1>1. job = "hosts" /\ Shaped(disk) /\ disk.program = {"new"}
  BY DEF InstallHosts, InstallerInv, MachineInv, FilesInv, ProgramsDone
<1>2. Shaped(disk') /\ disk'.program = {"new"} /\ disk'.etc.toml = disk.etc.toml
  BY <1>1 DEF InstallHosts, Shaped, HasFields, Targets, EtcFiles
<1>3. ControlOK' /\ MachineInv' /\ FilesInv' /\ ServicesInv' /\ RollbackInv' /\ WorkInv'
  BY <1>2, InstalledKeeps DEF InstallHosts, Replacing
<1>4. \A toml : Settled(toml)' <=> Settled(toml)
  BY DEF InstallHosts, Installed, Kept, Settled, Repaired, FromRepository
<1>5. job' = "install secrets"
  BY DEF InstallHosts, Installed, GoTo
<1>6. ConfigInv'
  BY <1>1, <1>2, <1>4, <1>5 DEF InstallerInv, ConfigInv, ConfigDone, SecretsDone, NetworkDone
<1>7. QED
  BY <1>3, <1>6 DEF InstallerInv

LEMMA InstallSecretsKeeps ==
  ASSUME InstallerInv, InstallSecrets
  PROVE  InstallerInv'
<1>1. job = "install secrets" /\ Shaped(disk) /\ disk.program = {"new"}
  BY DEF InstallSecrets, InstallerInv, MachineInv, FilesInv, ProgramsDone
<1>2. /\ Shaped(disk') /\ disk'.program = {"new"} /\ disk'.etc.toml = disk.etc.toml
      /\ work.wg # {} => disk'.etc.wg = work.wg
      /\ work.proxy # {} => disk'.etc.proxy = work.proxy
  BY <1>1 DEF InstallSecrets, Shaped, HasFields, Targets, EtcFiles
<1>3. ControlOK' /\ MachineInv' /\ FilesInv' /\ ServicesInv' /\ RollbackInv' /\ WorkInv'
  BY <1>2, InstalledKeeps DEF InstallSecrets, Replacing
<1>4. \A toml : Settled(toml)' <=> Settled(toml)
  BY DEF InstallSecrets, Installed, Kept, Settled, Repaired, FromRepository
<1>5. job' = "network" /\ work' = work
  BY DEF InstallSecrets, Installed, Kept, GoTo
<1>6. ConfigInv'
  BY <1>1, <1>2, <1>4, <1>5 DEF InstallerInv, ConfigInv, ConfigDone, NetworkDone
<1>7. QED
  BY <1>3, <1>6 DEF InstallerInv

\* set_initial_network: the mode, and the endpoint of the proxy secret.
LEMMA SetNetworkKeeps ==
  ASSUME InstallerInv, SetNetwork
  PROVE  InstallerInv'
<1> DEFINE toml == The(disk.etc.toml)
           endpoint == IF work.override # {} THEN The(work.override) ELSE toml.endpoint
           set == [toml EXCEPT !.mode = options.network, !.endpoint = endpoint]
<1>1. /\ job = "network" /\ Shaped(disk) /\ disk.program = {"new"}
      /\ IsToml(toml) /\ Settled(toml)
  BY DEF SetNetwork, InstallerInv, MachineInv, FilesInv, ProgramsDone, ConfigInv, ConfigDone,
     Settled
<1>2. /\ Shaped(disk') /\ disk'.program = {"new"} /\ disk'.etc.toml = {set}
      /\ disk'.etc.wg = disk.etc.wg /\ disk'.etc.proxy = disk.etc.proxy
  BY <1>1 DEF SetNetwork, Shaped, HasFields, Targets, EtcFiles
<1>3. ControlOK' /\ MachineInv' /\ FilesInv' /\ ServicesInv' /\ RollbackInv' /\ WorkInv'
  BY <1>2, InstalledKeeps DEF SetNetwork, Replacing
<1>4. /\ IsToml(set) /\ set.url = toml.url /\ set.burn = toml.burn
      /\ set.mode = options.network /\ set.endpoint = endpoint
  BY <1>1 DEF IsToml, HasFields
<1>5. Settled(set)
  BY <1>1, <1>4 DEF Settled, FromRepository
<1>6. work.override # {} => endpoint \in work.override
  BY TheOne
<1>7. \A t : Settled(t)' <=> Settled(t)
  BY DEF SetNetwork, Installed, Kept, Settled, Repaired, FromRepository
<1>8. job' = "compile" /\ work' = work /\ options' = options
  BY DEF SetNetwork, Installed, Kept, GoTo
<1>9. The(disk'.etc.toml) = set
  BY <1>2, TheOnly
<1>10. \A t : t = set => Settled(t)' /\ t.mode = options.network /\ t.endpoint = endpoint
  BY <1>4, <1>5, <1>7
<1>11. /\ disk'.etc.toml # {} /\ Settled(The(disk.etc.toml))'
       /\ The(disk'.etc.toml).mode = options.network
       /\ work.override # {} => The(disk'.etc.toml).endpoint \in work.override
  BY <1>2, <1>6, <1>9, <1>10
<1>12. ConfigInv'
  BY <1>1, <1>2, <1>8, <1>11 DEF InstallerInv, ConfigInv, SecretsDone
<1>13. QED
  BY <1>3, <1>12 DEF InstallerInv

LEMMA CompileBlocklistKeeps ==
  ASSUME InstallerInv, CompileBlocklist
  PROVE  InstallerInv'
<1>1. job = "compile" /\ Shaped(disk) /\ disk.program = {"new"}
  BY DEF CompileBlocklist, InstallerInv, MachineInv, FilesInv, ProgramsDone
<1>2. Shaped(disk') /\ disk'.program = {"new"} /\ disk'.etc = disk.etc
  BY <1>1 DEF CompileBlocklist, Shaped, HasFields, Targets
<1>3. ControlOK' /\ MachineInv' /\ FilesInv' /\ ServicesInv' /\ RollbackInv' /\ WorkInv'
  BY <1>2, InstalledKeeps DEF CompileBlocklist, Replacing
<1>4. \A toml : Settled(toml)' <=> Settled(toml)
  BY DEF CompileBlocklist, Installed, Kept, Settled, Repaired, FromRepository
<1>5. job' = "enable" /\ work' = work /\ options' = options
  BY DEF CompileBlocklist, Installed, Kept, GoTo
<1>6. ConfigInv'
  BY <1>1, <1>2, <1>4, <1>5 DEF InstallerInv, ConfigInv, ConfigDone, SecretsDone, NetworkDone
<1>7. QED
  BY <1>3, <1>6 DEF InstallerInv

\* systemctl enable --now: all of it, or a rollback of what was done.
LEMMA EnableServicesKeeps ==
  ASSUME InstallerInv, EnableServices
  PROVE  InstallerInv'
<1> USE DEF InstallerInv
<1>1. PICK on \in SUBSET Services, started \in SUBSET Services :
        /\ started # {} => on = Services
        /\ enabled' = enabled \cup on
        /\ run' = [s \in Services |-> IF s \in started THEN "active" ELSE run[s]]
        /\ image' = [s \in Services |->
                       IF s \in started /\ ~ Up(s) THEN disk.program ELSE image[s]]
        /\ \A s \in started : BoundTo(s) \subseteq started \cup {u \in Services : Up(u)}
        /\ IF on = Services /\ started = Services THEN GoTo("health")
           ELSE job' = "rollback stop" /\ todo' = StopUnits
  BY DEF EnableServices
<1>2. /\ job = "enable" /\ UNCHANGED <<disk, backup, previous, filesMutated, overlooked>>
      /\ UNCHANGED <<options, work, rollbackFailed, crashes, before, examined>>
      /\ disk.program = {"new"} /\ filesMutated /\ rollbackFailed = 0
  BY DEF EnableServices, Kept, FilesInv, ServicesInv, Installing, Replacing, ProgramsDone
<1>3. job' \in {"health", "rollback stop"} /\ (job' = "rollback stop" => todo' = StopUnits)
  BY <1>1 DEF GoTo
<1>4. run' \in [Services -> {"stopped", "active", "restarting"}]
  BY <1>1 DEF ControlOK
<1>5. image' \in [Services -> SUBSET {"old", "new"}]
  BY <1>1, <1>2 DEF ControlOK
<1>6. ControlOK'
  BY <1>1, <1>2, <1>3, <1>4, <1>5 DEF ControlOK, Installing, RollingBack
<1>7. Chained'
  <2>1. \A s \in Services : Stopped(s)' => Stopped(s) /\ s \notin started
    BY <1>1 DEF Stopped
  <2>2. \A s \in started : \A u \in BoundTo(s) : u \in Services => ~Stopped(u)'
    BY <1>1 DEF Stopped, Up
  <2>3. \A s \in Services : Stopped(s) /\ s \notin started => Stopped(s)'
    BY <1>1 DEF Stopped
  <2>4. Stopped("netd")' => Stopped("browser")'
    BY <2>1, <2>2, <2>3 DEF MachineInv, Chained, Services, BoundTo
  <2>5. Stopped("browser")' => Stopped("xanhtabd")'
    BY <2>1, <2>2, <2>3 DEF MachineInv, Chained, Services, BoundTo
  <2>6. QED
    BY <2>4, <2>5 DEF Chained
<1>8. MachineInv'
  BY <1>2, <1>7 DEF MachineInv, StoppedBefore
<1>9. FilesInv'
  BY <1>2, <1>3 DEF FilesInv, Checking, Uninstalling, UninstallEnds, Replacing,
     ProgramsDone
<1>10. job' = "health" => enabled' = Services /\ (overlooked = {} => Runs({"new"})')
  <2>1. job' = "health" => on = Services /\ started = Services
    BY <1>1 DEF GoTo
  <2>2. overlooked = {} => \A s \in Services : ~Up(s)
    BY <1>2 DEF ServicesInv, Replacing, AllStopped, Stopped, Up
  <2>3. started = Services /\ overlooked = {} => \A s \in Services : image'[s] = {"new"}
    BY <1>1, <1>2, <2>2
  <2>4. QED
    BY <1>1, <2>1, <2>3 DEF Runs, ControlOK
<1>11. ServicesInv'
  <2>1. job' = "rollback stop" => todo' \in StopTodos /\ Services \ Waiting(todo') = {}
    BY <1>3, TodoEnds
  <2>2. QED
    BY <1>2, <1>3, <1>10, <2>1 DEF ServicesInv, Checking, Installing, RollingBack,
       Replacing, StoppedBefore
<1>12. RollbackInv'
  BY <1>3 DEF RollbackInv
<1>13. WorkInv' /\ ConfigInv'
  BY <1>2, <1>3, WorkStands, ConfigStands DEF Checking, Installing, ChecksDone, NetworkDone
<1>14. QED
  BY <1>6, <1>8, <1>9, <1>11, <1>12, <1>13

\* The daemon answers.
LEMMA HealthCheckKeeps ==
  ASSUME InstallerInv, HealthCheck
  PROVE  InstallerInv'
<1> USE DEF InstallerInv, HealthCheck, Kept, machine, GoTo
<1>1. ControlOK'
  BY DEF ControlOK, Ended
<1>2. MachineInv'
  BY DEF MachineInv, Chained, Stopped, StoppedBefore
<1>3. FilesInv'
  BY DEF FilesInv, Checking, Uninstalling, UninstallEnds, Replacing, ProgramsDone
<1>4. ServicesInv'
  BY DEF ServicesInv, Checking, Installing, RollingBack, Replacing, Runs, Up, StoppedBefore
<1>5. RollbackInv'
  BY DEF RollbackInv
<1>6. WorkInv' /\ ConfigInv'
  BY WorkStands, ConfigStands DEF Installing, ChecksDone, NetworkDone
<1>7. QED
  BY <1>1, <1>2, <1>3, <1>4, <1>5, <1>6

\* What is left of the files of a machine is as it was.
LEMMA OnlyShaped ==
  ASSUME NEW files, NEW targets, Shaped(files)
  PROVE  Shaped(Only(targets, files))
<1>1. Bare.etc = [toml |-> {}, hosts |-> {}, wg |-> {}, proxy |-> {}] /\ Bare.program = {}
  BY DEF Bare
<1>2. HasFields(Bare.etc, EtcFiles)
  BY <1>1 DEF HasFields, EtcFiles
<1>3. QED
  BY <1>1, <1>2 DEF Only, Shaped, HasFields, Targets

\* A command fails: the script is over, or it rolls back.
LEMMA CommandFailsKeeps ==
  ASSUME InstallerInv, CommandFails
  PROVE  InstallerInv'
<1> USE DEF InstallerInv
<1>1. CASE /\ job \in Checking /\ GoTo("refused")
           /\ UNCHANGED <<script, machine, crashes, before, overlooked, examined>>
  <2>1. Checked /\ job' = "refused" /\ work' = work /\ examined' = examined
    BY <1>1 DEF Checked, script, machine, GoTo
  <2>2. WorkInv'
    BY <1>1, <2>1, WorkStands DEF Checked, Checking, Installing
  <2>3. QED
    BY <1>1, <2>1, <2>2, CheckedKeeps DEF ControlOK
<1>2. CASE /\ job \in Installing /\ job' = "rollback stop" /\ todo' = StopUnits
           /\ disk' \in HalfWritten
           /\ IF job = "backup"
              THEN \E copied \in SUBSET Targets : backup' = Only(copied, disk)
              ELSE UNCHANGED backup
           /\ UNCHANGED <<options, work, previous, filesMutated, rollbackFailed, enabled, run,
                          image, crashes, before, overlooked, examined>>
  <2>1. ControlOK'
    BY <1>2 DEF ControlOK, RollingBack
  <2>2. Shaped(disk')
    <3>1. Shaped([disk EXCEPT !["program"] = @ \cup {"new"}])
      BY DEF MachineInv, Shaped, HasFields, Targets
    <3>2. Shaped([disk EXCEPT !["web"] = @ \cup {"new"}])
      BY DEF MachineInv, Shaped, HasFields, Targets
    <3>3. \/ disk' = disk
          \/ disk' = [disk EXCEPT !["program"] = @ \cup {"new"}]
          \/ disk' = [disk EXCEPT !["web"] = @ \cup {"new"}]
      BY <1>2 DEF HalfWritten
    <3>4. QED
      BY <3>1, <3>2, <3>3 DEF MachineInv
  <2>3. MachineInv'
    BY <1>2, <2>2 DEF MachineInv, Chained, Stopped, StoppedBefore
  <2>4. FilesInv'
    <3>1. ~filesMutated => disk' = disk
      BY <1>2 DEF HalfWritten, FilesInv, Replacing
    <3>2. filesMutated => backup' = backup
      BY <1>2 DEF FilesInv
    <3>3. job \notin Uninstalling \cup UninstallEnds
      BY <1>2 DEF Installing, Uninstalling, UninstallEnds
    <3>4. QED
      BY <1>2, <3>1, <3>2, <3>3 DEF FilesInv, Checking, Uninstalling, UninstallEnds, Replacing,
         ProgramsDone
  <2>5. ServicesInv'
    <3>1. todo' \in StopTodos /\ Services \ Waiting(todo') = {}
      BY <1>2, TodoEnds
    <3>2. QED
      BY <1>2, <3>1 DEF ServicesInv, Checking, Installing, RollingBack, Replacing, StoppedBefore
  <2>6. RollbackInv'
    BY <1>2 DEF RollbackInv
  <2>7. WorkInv' /\ ConfigInv'
    BY <1>2, WorkStands, ConfigStands DEF Checking, Installing, ConfigDone
  <2>8. QED
    BY <2>1, <2>3, <2>4, <2>5, <2>6, <2>7
<1>3. CASE /\ job \in Uninstalling /\ GoTo("uninstall failed")
           /\ IF job = "remove"
              THEN \E gone \in SUBSET Removed : disk' = Only(Targets \ gone, disk)
              ELSE UNCHANGED disk
           /\ IF job = "disable" THEN enabled' \in SUBSET enabled ELSE UNCHANGED enabled
           /\ UNCHANGED <<script, run, image, crashes, before, overlooked, examined>>
  <2> USE <1>3 DEF GoTo, script
  <2>1. ControlOK'
    BY DEF ControlOK, Ended
  <2>2. MachineInv'
    BY OnlyShaped DEF MachineInv, Chained, Stopped, StoppedBefore
  <2>3. job \in Uninstalling => disk = before.disk
    BY DEF FilesInv, Uninstalling, UninstallEnds
  <2>4. disk'.data = disk.data /\ disk.etc \in {disk'.etc, backup.etc}
    BY <2>3 DEF Only, Removed, Targets, FilesInv
  <2>5. FilesInv'
    BY <2>3, <2>4 DEF FilesInv, Checking, Uninstalling, UninstallEnds, Replacing, ProgramsDone
  <2>6. ServicesInv'
    BY DEF ServicesInv, Checking, Installing, RollingBack, Replacing
  <2>7. RollbackInv'
    BY DEF RollbackInv
  <2>8. WorkInv' /\ ConfigInv'
    BY WorkStands, ConfigStands DEF Checking, Installing, ConfigDone
  <2>9. QED
    BY <2>1, <2>2, <2>5, <2>6, <2>7, <2>8
<1>4. QED
  BY <1>1, <1>2, <1>3 DEF CommandFails

-----------------------------------------------------------------------------
\* The steps of the rollback leave the work and the configuration to nobody.
LEMMA UndoneIsUnsettled ==
  ASSUME InstallerInv, Undo, job \in RollingBack,
         job' \in RollingBack \cup {"rolled back", "incomplete"}
  PROVE  /\ WorkInv' /\ ConfigInv'
         /\ filesMutated => backup = before.disk
         /\ ~filesMutated => disk = before.disk
<1>1. job' \notin Checking \cup Installing \cup {"committed"} \cup ConfigDone
  BY DEF RollingBack, Checking, Installing, ConfigDone
<1>2. QED
  BY <1>1, WorkStands, ConfigStands DEF InstallerInv, Undo, FilesInv, RollingBack, UninstallEnds

\* A rollback step keeps what is known of where the files are.
LEMMA UndoneKeepsFiles ==
  ASSUME InstallerInv, Undo, job \in RollingBack,
         job' \in RollingBack \cup {"rolled back", "incomplete"},
         ~filesMutated => disk' = disk
  PROVE  FilesInv'
  BY DEF InstallerInv, FilesInv, Undo, RollingBack, Checking, Uninstalling, UninstallEnds,
     Replacing, ProgramsDone

\* What a count of failures that is still zero says of the command just tried.
LEMMA NothingFailed ==
  ASSUME ControlOK, NEW n \in Nat, Note(n)
  PROVE  /\ rollbackFailed' \in 0 .. MaxFailures
         /\ rollbackFailed' = 0 => rollbackFailed = 0 /\ n = 0
  BY DEF ControlOK, Note

LEMMA RollbackStopKeeps ==
  ASSUME InstallerInv, RollbackStop
  PROVE  InstallerInv'
<1> USE DEF InstallerInv
<1>1. /\ job = "rollback stop" /\ todo \in StopTodos /\ UNCHANGED <<disk, enabled>> /\ Undo
  BY DEF RollbackStop, ServicesInv
<1>2. CASE todo = << >>
  <2>1. GoTo("rollback disable") /\ UNCHANGED <<run, image, overlooked, rollbackFailed>>
    BY <1>2 DEF RollbackStop
  <2>2. WorkInv' /\ ConfigInv' /\ FilesInv'
    BY <1>1, <2>1, UndoneIsUnsettled, UndoneKeepsFiles DEF GoTo, RollingBack
  <2>3. ControlOK'
    BY <1>1, <2>1 DEF ControlOK, GoTo, RollingBack, Undo
  <2>4. MachineInv'
    BY <1>1, <2>1 DEF Undo, MachineInv, Chained, Stopped, StoppedBefore
  <2>5. overlooked = {} /\ rollbackFailed = 0 => AllStopped
    BY <1>1, <1>2, TodoEnds DEF ServicesInv, AllStopped
  <2>6. AllStopped => AllStopped'
    BY <2>1 DEF AllStopped, Stopped
  <2>7. ServicesInv'
    BY <1>1, <2>1 DEF Undo, GoTo, ServicesInv, Checking, Installing, RollingBack, Replacing,
       StoppedBefore
  <2>8. RollbackInv'
    BY <1>1, <2>1, <2>5, <2>6 DEF Undo, GoTo, RollbackInv
  <2>9. QED
    BY <2>2, <2>3, <2>4, <2>7, <2>8
<1>3. CASE todo # << >>
  <2>1. PICK s \in Services : s = Head(todo)
    BY <1>1, <1>3, StopTodo
  <2>2. Tail(todo) \in StopTodos /\ Waiting(Tail(todo)) = Waiting(todo) \ {s}
    BY <2>1, <1>1, <1>3, StopTodo
  <2>3. /\ todo' = Tail(todo) /\ Overlook(s) /\ job' = job
        /\ \/ IF Up(s) THEN StopUnit(s) ELSE UNCHANGED <<run, image>>
           \/ UNCHANGED <<run, image>>
        /\ Note(Failed(run'[s] = "active"))
    BY <1>3, <2>1 DEF RollbackStop
  <2>4. /\ rollbackFailed' \in 0 .. MaxFailures
        /\ rollbackFailed' = 0 => rollbackFailed = 0 /\ run'[s] # "active"
    BY <2>3, NothingFailed DEF Failed
  <2>5. /\ run' \in [Services -> {"stopped", "active", "restarting"}] /\ image' = image
        /\ Chained' /\ overlooked \subseteq overlooked' /\ overlooked' \subseteq Services
        /\ \A u \in Services : Stopped(u) => Stopped(u)'
        /\ overlooked' = {} /\ run'[s] # "active" => Stopped(s)'
    <3>1. (Up(s) /\ StopUnit(s)) \/ UNCHANGED <<run, image>>
      BY <2>3
    <3>2. Chained
      BY DEF MachineInv
    <3>3. QED
      BY <2>3, <3>1, <3>2, StopOne
  <2>6. WorkInv' /\ ConfigInv' /\ FilesInv'
    BY <1>1, <2>3, UndoneIsUnsettled, UndoneKeepsFiles DEF RollingBack
  <2>7. ControlOK'
    BY <1>1, <2>3, <2>4, <2>5 DEF ControlOK, Undo
  <2>8. MachineInv'
    BY <1>1, <2>5 DEF Undo, MachineInv, StoppedBefore
  <2>9. overlooked' = {} /\ rollbackFailed' = 0 =>
          \A u \in Services \ Waiting(todo') : Stopped(u)'
    <3>1. overlooked = {} /\ rollbackFailed = 0 =>
            \A u \in Services \ Waiting(todo) : Stopped(u)
      BY <1>1 DEF ServicesInv
    <3>2. Waiting(todo') = Waiting(todo) \ {s}
      BY <2>2, <2>3
    <3>3. QED
      BY <2>4, <2>5, <3>1, <3>2
  <2>10. overlooked' = {} => overlooked = {}
    BY <2>5
  <2>11. ServicesInv'
    BY <1>1, <2>2, <2>3, <2>9, <2>10 DEF Undo, ServicesInv, Checking, Installing, RollingBack,
       Replacing, StoppedBefore
  <2>12. RollbackInv'
    BY <1>1, <2>3 DEF RollbackInv
  <2>13. QED
    BY <2>6, <2>7, <2>8, <2>11, <2>12
<1>4. QED
  BY <1>2, <1>3

\* There are finitely many units and files.
LEMMA Finitely == IsFiniteSet(Services) /\ IsFiniteSet(Targets)
<1>1. ASSUME NEW a, NEW b, NEW c, NEW d
      PROVE  IsFiniteSet({a, b, c, d})
  <2>1. IsFiniteSet({a}) /\ IsFiniteSet({b}) /\ IsFiniteSet({c}) /\ IsFiniteSet({d})
    BY FS_Singleton
  <2>2. IsFiniteSet({a} \cup {b})
    BY <2>1, FS_Union
  <2>3. IsFiniteSet({c} \cup {d})
    BY <2>1, FS_Union
  <2>4. IsFiniteSet(({a} \cup {b}) \cup ({c} \cup {d}))
    BY <2>2, <2>3, FS_Union
  <2>5. {a, b, c, d} = ({a} \cup {b}) \cup ({c} \cup {d})
    OBVIOUS
  <2>6. QED
    BY <2>4, <2>5
<1>2. /\ Services = {"netd", "browser", "xanhtabd", "xanhtabd"}
      /\ Targets = {"program", "web", "etc", "data"}
  BY DEF Services, Targets
<1>3. QED
  BY <1>1, <1>2

LEMMA RollbackDisableKeeps ==
  ASSUME InstallerInv, RollbackDisable
  PROVE  InstallerInv'
<1> USE DEF InstallerInv
<1>1. /\ job = "rollback disable" /\ job' = "rollback remove" /\ Undo
      /\ UNCHANGED <<disk, run, image, overlooked>> /\ enabled' \subseteq enabled
  BY DEF RollbackDisable, GoTo
<1>2. PICK residue \in 0 .. 1 : Note(Cardinality(enabled') + residue)
  BY DEF RollbackDisable
<1>3. IsFiniteSet(enabled') /\ Cardinality(enabled') \in Nat
  <2>1. enabled' \subseteq Services
    BY <1>1 DEF ControlOK
  <2>2. QED
    BY <2>1, Finitely, FS_Subset, FS_CardinalityType
<1>4. rollbackFailed' \in 0 .. MaxFailures /\ (rollbackFailed' = 0 => rollbackFailed = 0)
  BY <1>2, <1>3, NothingFailed
<1>5. rollbackFailed' = 0 => enabled' = {}
  <2>1. rollbackFailed' = 0 => Cardinality(enabled') = 0
    BY <1>2, <1>3, NothingFailed
  <2>2. QED
    BY <2>1, <1>3, FS_EmptySet
<1>6. WorkInv' /\ ConfigInv' /\ FilesInv'
  BY <1>1, UndoneIsUnsettled, UndoneKeepsFiles DEF RollingBack
<1>7. ControlOK'
  BY <1>1, <1>4 DEF ControlOK, RollingBack, Undo
<1>8. MachineInv'
  BY <1>1 DEF Undo, MachineInv, Chained, Stopped, StoppedBefore
<1>9. ServicesInv'
  BY <1>1 DEF Undo, ServicesInv, Checking, Installing, RollingBack, Replacing, StoppedBefore
<1>10. RollbackInv'
  BY <1>1, <1>4, <1>5 DEF Undo, RollbackInv, AllStopped, Stopped
<1>11. QED
  BY <1>6, <1>7, <1>8, <1>9, <1>10

LEMMA RollbackRemoveKeeps ==
  ASSUME InstallerInv, RollbackRemove
  PROVE  InstallerInv'
<1> USE DEF InstallerInv
<1>1. /\ job = "rollback remove" /\ job' = "rollback restore" /\ Undo
      /\ UNCHANGED <<enabled, run, image, overlooked>>
  BY DEF RollbackRemove, GoTo
<1>2. /\ Shaped(disk') /\ rollbackFailed' \in 0 .. MaxFailures
      /\ rollbackFailed' = 0 => rollbackFailed = 0
      /\ ~filesMutated => disk' = disk
      /\ filesMutated /\ rollbackFailed' = 0 => \A t \in Targets : disk'[t] = Bare[t]
  <2>1. CASE filesMutated
    <3>1. PICK stuck \in SUBSET {t \in Targets : disk[t] # Bare[t]} :
            disk' = Only(stuck, disk) /\ Note(Cardinality(stuck))
      BY <2>1 DEF RollbackRemove
    <3>2. IsFiniteSet(stuck) /\ Cardinality(stuck) \in Nat
      <4>1. stuck \subseteq Targets
        OBVIOUS
      <4>2. QED
        BY <4>1, Finitely, FS_Subset, FS_CardinalityType
    <3>3. rollbackFailed' \in 0 .. MaxFailures /\ (rollbackFailed' = 0 => rollbackFailed = 0)
      BY <3>1, <3>2, NothingFailed
    <3>4. rollbackFailed' = 0 => stuck = {}
      BY <3>1, <3>2, NothingFailed, FS_EmptySet
    <3>5. Shaped(disk')
      BY <3>1, OnlyShaped DEF MachineInv
    <3>6. stuck = {} => \A t \in Targets : disk'[t] = Bare[t]
      BY <3>1 DEF Only
    <3>7. QED
      BY <2>1, <3>3, <3>4, <3>5, <3>6
  <2>2. CASE ~filesMutated
    BY <2>2 DEF RollbackRemove, MachineInv, ControlOK
  <2>3. QED
    BY <2>1, <2>2
<1>3. WorkInv' /\ ConfigInv' /\ FilesInv'
  BY <1>1, <1>2, UndoneIsUnsettled, UndoneKeepsFiles DEF RollingBack
<1>4. ControlOK'
  BY <1>1, <1>2 DEF ControlOK, RollingBack, Undo
<1>5. MachineInv'
  BY <1>1, <1>2 DEF Undo, MachineInv, Chained, Stopped, StoppedBefore
<1>6. ServicesInv'
  BY <1>1 DEF Undo, ServicesInv, Checking, Installing, RollingBack, Replacing, StoppedBefore
<1>7. RollbackInv'
  BY <1>1, <1>2 DEF Undo, RollbackInv, AllStopped, Stopped
<1>8. QED
  BY <1>3, <1>4, <1>5, <1>6, <1>7

\* What was copied before the mutation is copied back over what is left.
LEMMA RollbackRestoreKeeps ==
  ASSUME InstallerInv, RollbackRestore
  PROVE  InstallerInv'
<1> USE DEF InstallerInv
<1>1. /\ job = "rollback restore" /\ job' = "rollback services" /\ todo' = ServiceUnits /\ Undo
      /\ UNCHANGED <<enabled, run, image, overlooked>>
  BY DEF RollbackRestore
<1>2. PICK saved : saved = IF filesMutated THEN {t \in Targets : backup[t] # Bare[t]} ELSE {}
  OBVIOUS
<1>3. PICK copied \in SUBSET saved, reload \in 0 .. 1 :
        /\ disk' = [t \in Targets |->
                      IF t \notin copied THEN disk[t]
                      ELSE IF t \in {"program", "web"} THEN disk[t] \cup backup[t]
                      ELSE backup[t]]
        /\ Note(Failed(copied # saved) + reload)
  BY <1>2 DEF RollbackRestore
<1>4. /\ rollbackFailed' \in 0 .. MaxFailures
      /\ rollbackFailed' = 0 => rollbackFailed = 0 /\ copied = saved
  <2>1. PICK n \in Nat : n = Failed(copied # saved) + reload
    BY DEF Failed
  <2>2. n = 0 => copied = saved
    BY <2>1 DEF Failed
  <2>3. QED
    BY <1>3, <2>1, <2>2, NothingFailed
<1>5. /\ Shaped(disk) /\ Shaped(before.disk)
      /\ filesMutated => backup = before.disk
      /\ ~filesMutated => disk = before.disk
  BY <1>1, UndoneIsUnsettled DEF MachineInv, RollingBack
<1>6. ~filesMutated => disk' = disk
  BY <1>2, <1>3, <1>5 DEF Shaped, HasFields
<1>7. Shaped(disk')
  <2>1. CASE ~filesMutated
    BY <1>5, <1>6, <2>1
  <2>2. CASE filesMutated
    BY <1>3, <1>5, <2>2 DEF Shaped, HasFields, Targets
  <2>3. QED
    BY <2>1, <2>2 DEF ControlOK
<1>8. rollbackFailed' = 0 => disk' = before.disk
  <2>1. CASE ~filesMutated
    BY <1>5, <1>6, <2>1
  <2>2. CASE filesMutated /\ rollbackFailed' = 0
    <3>1. copied = {t \in Targets : before.disk[t] # Bare[t]}
      BY <1>2, <1>4, <1>5, <2>2
    <3>2. \A t \in Targets : disk[t] = Bare[t]
      BY <1>1, <1>4, <2>2 DEF RollbackInv
    <3>3. Bare.program = {} /\ Bare.web = {}
      BY DEF Bare
    <3>4. \A t \in Targets : disk'[t] = before.disk[t]
      BY <1>3, <1>5, <2>2, <3>1, <3>2, <3>3
    <3>5. disk' = [t \in Targets |-> disk'[t]]
      BY <1>7 DEF Shaped, HasFields
    <3>6. before.disk = [t \in Targets |-> before.disk[t]]
      BY <1>5 DEF Shaped, HasFields
    <3>7. QED
      BY <3>4, <3>5, <3>6
  <2>3. QED
    BY <2>1, <2>2 DEF ControlOK
<1>9. WorkInv' /\ ConfigInv' /\ FilesInv'
  BY <1>1, <1>6, UndoneIsUnsettled, UndoneKeepsFiles DEF RollingBack
<1>10. ControlOK'
  BY <1>1, <1>4 DEF ControlOK, RollingBack, Undo
<1>11. MachineInv'
  BY <1>1, <1>7 DEF Undo, MachineInv, Chained, Stopped, StoppedBefore
<1>12. ServicesInv'
  BY <1>1 DEF Undo, ServicesInv, Checking, Installing, RollingBack, Replacing, StoppedBefore
<1>13. RollbackInv'
  <2>1. todo' \in ServiceTodos /\ Waiting(todo') = Services
    BY <1>1, TodoEnds
  <2>2. rollbackFailed' = 0 => enabled' = {} /\ (overlooked' = {} => AllStopped)
    BY <1>1, <1>4 DEF RollbackInv
  <2>3. AllStopped => \A s \in Services : Stopped(s)' /\ ~Up(s)'
    BY <1>1 DEF AllStopped, Stopped, Up
  <2>4. before' = before
    BY <1>1 DEF Undo
  <2>5. QED
    BY <1>1, <1>8, <2>1, <2>2, <2>3, <2>4 DEF RollbackInv, Runs
<1>14. QED
  BY <1>9, <1>10, <1>11, <1>12, <1>13

\* Each unit is enabled and started again as it was, or a failure is noted.
LEMMA RollbackServicesKeeps ==
  ASSUME InstallerInv, RollbackServices
  PROVE  InstallerInv'
<1> USE DEF InstallerInv
<1>1. /\ job = "rollback services" /\ todo \in ServiceTodos
      /\ UNCHANGED <<disk, overlooked>> /\ Undo
  BY DEF RollbackServices, RollbackInv
<1>2. CASE todo = << >>
  <2>1. /\ job' = (IF rollbackFailed > 0 THEN "incomplete" ELSE "rolled back")
        /\ todo' = << >> /\ UNCHANGED <<enabled, run, image, rollbackFailed>>
    BY <1>2 DEF RollbackServices, GoTo, Outcome
  <2>2. rollbackFailed > 0 \/ rollbackFailed = 0
    BY DEF ControlOK
  <2>3. /\ job' \in {"incomplete", "rolled back"}
        /\ job' = "rolled back" => rollbackFailed = 0
    BY <2>1, <2>2
  <2>4. WorkInv' /\ ConfigInv' /\ FilesInv'
    BY <1>1, <2>3, UndoneIsUnsettled, UndoneKeepsFiles DEF RollingBack
  <2>5. ControlOK'
    BY <1>1, <2>1, <2>3 DEF ControlOK, Ended, Undo
  <2>6. MachineInv'
    BY <1>1, <2>1 DEF Undo, MachineInv, Chained, Stopped, StoppedBefore
  <2>7. ServicesInv'
    BY <1>1, <2>3 DEF ServicesInv, Checking, Installing, RollingBack, Replacing
  <2>8. RollbackInv'
    BY <1>1, <1>2, <2>1, <2>3 DEF Undo, RollbackInv, Stopped, StoppedBefore, Runs, Up
  <2>9. QED
    BY <2>4, <2>5, <2>6, <2>7, <2>8
<1>3. CASE todo # << >>
  <2>1. PICK s \in Services : s = Head(todo)
    BY <1>1, <1>3, ServiceTodo
  <2>2. /\ Tail(todo) \in ServiceTodos /\ Waiting(Tail(todo)) = Waiting(todo) \ {s}
        /\ s \in Waiting(todo) /\ BoundTo(s) \cap Waiting(todo) = {}
    BY <2>1, <1>1, <1>3, ServiceTodo
  <2>3. /\ todo' = Tail(todo) /\ job' = job
        /\ \/ enabled' = IF s \in previous.enabled THEN enabled \cup {s} ELSE enabled \ {s}
           \/ UNCHANGED enabled
        /\ \/ IF s \in previous.active THEN StartUnit(s)
              ELSE IF Up(s) THEN StopUnit(s) ELSE UNCHANGED <<run, image>>
           \/ UNCHANGED <<run, image>>
        /\ Note(Failed((s \in enabled') # (s \in previous.enabled))
                + Failed((run'[s] = "active") # (s \in previous.active)))
    BY <1>3, <2>1 DEF RollbackServices
  <2>4. /\ rollbackFailed' \in 0 .. MaxFailures
        /\ rollbackFailed' = 0 =>
             /\ rollbackFailed = 0
             /\ s \in enabled' <=> s \in previous.enabled
             /\ run'[s] = "active" <=> s \in previous.active
    <3>1. PICK n \in Nat : n = Failed((s \in enabled') # (s \in previous.enabled))
                               + Failed((run'[s] = "active") # (s \in previous.active))
      BY DEF Failed
    <3>2. n = 0 => /\ s \in enabled' <=> s \in previous.enabled
                   /\ run'[s] = "active" <=> s \in previous.active
      BY <3>1 DEF Failed
    <3>3. QED
      BY <2>3, <3>1, <3>2, NothingFailed
  <2>5. /\ Chained /\ Shaped(disk) /\ previous.enabled = before.enabled
        /\ overlooked = {} => \A u \in Services : u \in previous.active <=> ~StoppedBefore(u)
    BY <1>1 DEF MachineInv, ServicesInv, RollingBack
  <2>6. /\ run' \in [Services -> {"stopped", "active", "restarting"}]
        /\ image' \in [Services -> SUBSET {"old", "new"}]
        /\ Chained'
        /\ \A u \in Services : Up(u)' => image'[u] = disk.program \/ (Up(u) /\ image'[u] = image[u])
    <3>1. CASE StartUnit(s)
      BY <2>5, <3>1, Starts
    <3>2. CASE StopUnit(s)
      BY <2>5, <3>2, Stops DEF ControlOK
    <3>3. CASE UNCHANGED <<run, image>>
      BY <2>5, <3>3 DEF ControlOK, Chained, Stopped, Up
    <3>4. QED
      BY <2>3, <3>1, <3>2, <3>3
  <2>7. enabled' \subseteq Services /\ \A u \in Services \ {s} : u \in enabled' <=> u \in enabled
    BY <2>3 DEF ControlOK
  <2>8. rollbackFailed' = 0 /\ overlooked = {} =>
          \A u \in Services : Stopped(u)' <=> StoppedBefore(u) \/ u \in Waiting(todo) \ {s}
    <3> SUFFICES ASSUME rollbackFailed' = 0, overlooked = {}
                 PROVE  \A u \in Services :
                          Stopped(u)' <=> StoppedBefore(u) \/ u \in Waiting(todo) \ {s}
      OBVIOUS
    <3>1. \A u \in Services : Stopped(u) <=> StoppedBefore(u) \/ u \in Waiting(todo)
      BY <1>1, <2>4 DEF RollbackInv
    <3>2. Stopped(s) /\ ~Up(s)
      BY <2>2, <3>1 DEF Stopped, Up
    <3>3. CASE s \in previous.active
      <4>1. StartUnit(s)
        BY <2>3, <2>4, <3>2, <3>3 DEF Up
      <4>2. \A u \in Services : Stopped(u)' <=> Stopped(u) /\ u # s /\ u \notin BoundTo(s)
        BY <2>5, <4>1, Starts
      <4>3. \A u \in Services \cap (BoundTo(s) \cup {s}) : ~StoppedBefore(u)
        BY <2>5, <3>3 DEF MachineInv, BoundTo, Services
      <4>4. QED
        BY <2>2, <3>1, <4>2, <4>3
    <3>4. CASE s \notin previous.active
      <4>1. UNCHANGED <<run, image>> /\ StoppedBefore(s)
        BY <2>3, <2>5, <3>2, <3>4
      <4>2. \A u \in Services : Stopped(u)' <=> Stopped(u)
        BY <4>1 DEF Stopped
      <4>3. QED
        BY <3>1, <4>1, <4>2
    <3>5. QED
      BY <3>3, <3>4
  <2>9. rollbackFailed' = 0 /\ overlooked = {} => Runs(before.disk.program)'
    BY <1>1, <2>4, <2>6 DEF RollbackInv, Runs, Undo
  <2>10. rollbackFailed' = 0 =>
           /\ disk = before.disk
           /\ \A u \in Services : u \in enabled' <=> u \in before.enabled \ (Waiting(todo) \ {s})
    BY <1>1, <2>2, <2>4, <2>5, <2>7 DEF RollbackInv
  <2>11. WorkInv' /\ ConfigInv' /\ FilesInv'
    BY <1>1, <2>3, UndoneIsUnsettled, UndoneKeepsFiles DEF RollingBack
  <2>12. ControlOK'
    BY <1>1, <2>3, <2>4, <2>6, <2>7 DEF ControlOK, Undo
  <2>13. MachineInv'
    BY <1>1, <2>6 DEF Undo, MachineInv, StoppedBefore
  <2>14. ServicesInv'
    BY <1>1, <2>3 DEF Undo, ServicesInv, Checking, Installing, RollingBack, Replacing,
       StoppedBefore
  <2>15. RollbackInv'
    <3>1. /\ todo' \in ServiceTodos /\ Waiting(todo') = Waiting(todo) \ {s}
          /\ job' = "rollback services" /\ before' = before /\ disk' = disk
          /\ overlooked' = overlooked
      BY <1>1, <2>2, <2>3 DEF Undo
    <3>2. \A u : StoppedBefore(u)' <=> StoppedBefore(u)
      BY <3>1 DEF StoppedBefore
    <3>3. QED
      BY <2>8, <2>9, <2>10, <3>1, <3>2 DEF RollbackInv
  <2>16. QED
    BY <2>11, <2>12, <2>13, <2>14, <2>15
<1>4. QED
  BY <1>2, <1>3

-----------------------------------------------------------------------------
\* An uninstallation has nothing to restore but the copy of the configuration.
LEMMA UninstallKeeps ==
  ASSUME InstallerInv, DisableServices \/ SaveConfiguration \/ RemoveFiles
  PROVE  InstallerInv'
<1> USE DEF InstallerInv, Uninstalled, GoTo
<1>1. /\ UNCHANGED <<options, work, previous, filesMutated, rollbackFailed, crashes, before,
                     overlooked, image, examined>>
      /\ \/ job = "disable" /\ job' = "save"
         \/ job = "save" /\ job' = "remove"
         \/ job = "remove" /\ job' = "uninstalled"
      /\ run' \in [Services -> {"stopped", "active", "restarting"}]
      /\ enabled' \subseteq enabled
  BY DEF DisableServices, SaveConfiguration, RemoveFiles, ControlOK
<1>2. ControlOK'
  BY <1>1 DEF ControlOK, Uninstalling, Ended
<1>3. Shaped(disk')
  BY OnlyShaped DEF DisableServices, SaveConfiguration, RemoveFiles, MachineInv
<1>4. Chained'
  BY DEF DisableServices, SaveConfiguration, RemoveFiles, MachineInv, Chained, Stopped, Services
<1>5. MachineInv'
  BY <1>1, <1>3, <1>4 DEF MachineInv, StoppedBefore
<1>6. disk = before.disk /\ ~filesMutated /\ options.uninstall
  BY <1>1 DEF FilesInv, Uninstalling, UninstallEnds
<1>7. /\ job' \in {"save", "remove"} => disk' = disk
      /\ job' = "remove" => backup'.etc = disk.etc
      /\ job' = "uninstalled" => disk'.data = disk.data /\ backup' = backup
  BY <1>1 DEF DisableServices, SaveConfiguration, RemoveFiles, Only, Removed, Targets
<1>8. FilesInv'
  BY <1>1, <1>6, <1>7 DEF FilesInv, Checking, Uninstalling, UninstallEnds, Replacing,
     ProgramsDone
<1>9. ServicesInv'
  BY <1>1 DEF ServicesInv, Checking, Installing, RollingBack, Replacing
<1>10. RollbackInv'
  BY <1>1 DEF RollbackInv
<1>11. WorkInv' /\ ConfigInv'
  BY <1>1, WorkStands, ConfigStands DEF Checking, Installing, ConfigDone
<1>12. QED
  BY <1>2, <1>5, <1>8, <1>9, <1>10, <1>11

\* The script is over, or nothing happens.
LEMMA NothingKeeps ==
  ASSUME InstallerInv, UNCHANGED vars
  PROVE  InstallerInv'
<1> USE DEF InstallerInv, vars
<1>1. ControlOK'
  BY DEF ControlOK
<1>2. MachineInv' /\ FilesInv'
  BY DEF MachineInv, FilesInv, Chained, Stopped, StoppedBefore
<1>3. ServicesInv' /\ RollbackInv'
  BY DEF ServicesInv, RollbackInv, AllStopped, Stopped, StoppedBefore, Runs, Up
<1>4. WorkInv' /\ ConfigInv'
  BY WorkStands, ConfigStands
<1>5. QED
  BY <1>1, <1>2, <1>3, <1>4

LEMMA InvInit == InstallerAssumption /\ Init => InstallerInv
<1> SUFFICES ASSUME InstallerAssumption, Init PROVE InstallerInv
  OBVIOUS
<1>1. PICK old \in OldMachine :
        /\ disk = old.disk /\ enabled = old.enabled
        /\ run = [s \in Services |-> IF s \in old.active THEN "active" ELSE "stopped"]
        /\ image = [s \in Services |-> IF s \in old.active THEN old.disk.program ELSE {}]
  BY DEF Init
<1>2. /\ HasFields(disk, Targets) /\ HasFields(disk.etc, EtcFiles)
      /\ disk.program \subseteq {"old"}
      /\ \A toml \in disk.etc.toml : IsToml(toml)
      /\ enabled \subseteq Services /\ old.active \subseteq Services
      /\ \A s \in old.active : BoundTo(s) \subseteq old.active
  BY <1>1 DEF InstallerAssumption, IsFiles
<1>3. /\ before.disk = disk /\ before.enabled = enabled /\ before.run = run
      /\ job = (IF options.uninstall THEN "disable" ELSE "sync")
      /\ options.uninstall \in BOOLEAN
      /\ filesMutated = FALSE /\ rollbackFailed = 0 /\ crashes = 0
      /\ overlooked = {} /\ examined = {}
      /\ work = [hosts |-> {}, effective |-> {}, wg |-> {}, proxy |-> {}, override |-> {}]
  BY DEF Init, InstallerAssumption
<1>4. job \in {"disable", "sync"} /\ (job = "disable" <=> options.uninstall)
  BY <1>3
<1>5. run \in [Services -> {"stopped", "active", "restarting"}]
  BY <1>1
<1>6. image \in [Services -> SUBSET {"old", "new"}]
  BY <1>1, <1>2
<1>7. ControlOK
  BY <1>2, <1>3, <1>4, <1>5, <1>6 DEF ControlOK, InstallerAssumption, Checking, Uninstalling
<1>8. \A s \in Services : Stopped(s) <=> s \notin old.active
  BY <1>1 DEF Stopped
<1>9. Chained
  BY <1>2, <1>8 DEF Chained, BoundTo, Services
<1>10. \A s : Stopped(s) <=> StoppedBefore(s)
  BY <1>3 DEF Stopped, StoppedBefore
<1>11. MachineInv
  BY <1>2, <1>3, <1>9, <1>10 DEF MachineInv, Shaped, Chained
<1>12. FilesInv
  BY <1>3, <1>4 DEF FilesInv, Checking, Uninstalling, UninstallEnds, Replacing, ProgramsDone
<1>13. Runs(before.disk.program)
  BY <1>1, <1>3 DEF Runs, Up
<1>14. ServicesInv
  BY <1>3, <1>4, <1>10, <1>13 DEF ServicesInv, Checking, Installing, RollingBack, Replacing
<1>15. RollbackInv
  BY <1>4 DEF RollbackInv
<1>16. WorkInv
  BY <1>3, <1>4 DEF WorkInv, HasFields, ChecksDone, Checking, Installing
<1>17. ConfigInv
  BY <1>4 DEF ConfigInv, ConfigDone, SecretsDone, NetworkDone
<1>18. QED
  BY <1>7, <1>11, <1>12, <1>14, <1>15, <1>16, <1>17 DEF InstallerInv

LEMMA InvStep == InstallerAssumption /\ InstallerInv /\ [Next]_vars => InstallerInv'
<1> SUFFICES ASSUME InstallerAssumption, InstallerInv, [Next]_vars PROVE InstallerInv'
  OBVIOUS
<1>1. CASE UNCHANGED vars
  BY <1>1, NothingKeeps
<1>2. CASE \E s \in Services : Crash(s) \/ Restart(s)
  BY <1>2, CrashKeeps, RestartKeeps
<1>3. CASE SyncPublicConfig \/ PrepareSecrets \/ CheckWireGuard \/ CheckProxy
  BY <1>3, SyncPublicConfigKeeps, PrepareSecretsKeeps, CheckWireGuardKeeps, CheckProxyKeeps
<1>4. CASE CaptureServiceState \/ StopForInstall \/ BackUp
  BY <1>4, CaptureServiceStateKeeps, StopForInstallKeeps, BackUpKeeps
<1>5. CASE \/ InstallPrograms \/ InstallWeb \/ InstallConfig \/ InstallHosts
           \/ InstallSecrets \/ SetNetwork \/ CompileBlocklist
  BY <1>5, InstallProgramsKeeps, InstallWebKeeps, InstallConfigKeeps, InstallHostsKeeps,
     InstallSecretsKeeps, SetNetworkKeeps, CompileBlocklistKeeps
<1>6. CASE EnableServices \/ HealthCheck \/ CommandFails
  BY <1>6, EnableServicesKeeps, HealthCheckKeeps, CommandFailsKeeps
<1>7. CASE RollbackStop \/ RollbackDisable \/ RollbackRemove \/ RollbackRestore \/ RollbackServices
  BY <1>7, RollbackStopKeeps, RollbackDisableKeeps, RollbackRemoveKeeps, RollbackRestoreKeeps,
     RollbackServicesKeeps
<1>8. CASE DisableServices \/ SaveConfiguration \/ RemoveFiles
  BY <1>8, UninstallKeeps
<1>9. CASE Over
  BY <1>9, NothingKeeps DEF Over
<1>10. QED
  BY <1>1, <1>2, <1>3, <1>4, <1>5, <1>6, <1>7, <1>8, <1>9 DEF Next

\* InstallerInv holds in every behaviour of the script and of systemd beside it.
THEOREM Invariance == Spec => []InstallerInv
  BY InvInit, InvStep, InstallerAssumption, PTL DEF Spec

-----------------------------------------------------------------------------
(* The types of the data: what the script has staged, noted, copied and    *)
(* installed.  Together with ControlOK they are TypeOK.                    *)

WorkFiles == {"hosts", "effective", "wg", "proxy", "override"}

DataInv ==
  /\ WorkOK /\ TodoOK /\ NotesOK
  /\ IsFiles(disk) /\ IsFiles(backup)
  /\ job = "rolled back" => rollbackFailed = 0
  /\ job = "incomplete" => rollbackFailed > 0

\* A machine with nothing on it, and what is left of the files of another.
LEMMA BareFiles == IsFiles(Bare)
<1>1. /\ Bare.etc = [toml |-> {}, hosts |-> {}, wg |-> {}, proxy |-> {}]
      /\ Bare.program = {} /\ Bare.web = {} /\ Bare.data = {}
  BY DEF Bare
<1>2. HasFields(Bare, Targets)
  BY DEF Bare, HasFields, Targets
<1>3. HasFields(Bare.etc, EtcFiles) /\ \A file \in EtcFiles : Bare.etc[file] = {}
  BY <1>1 DEF HasFields, EtcFiles
<1>4. QED
  BY <1>1, <1>2, <1>3 DEF IsFiles, AtMostOne, EtcFiles

\* Some of the files, and nothing of the others.
LEMMA OnlyFiles ==
  ASSUME NEW files, NEW targets, IsFiles(files)
  PROVE  IsFiles(Only(targets, files))
<1>1. HasFields(Only(targets, files), Targets)
  BY DEF Only, HasFields
<1>2. \A t \in Targets : Only(targets, files)[t] \in {files[t], Bare[t]}
  BY DEF Only
<1>3. /\ Only(targets, files).program \in {files.program, Bare.program}
      /\ Only(targets, files).web \in {files.web, Bare.web}
      /\ Only(targets, files).data \in {files.data, Bare.data}
      /\ Only(targets, files).etc \in {files.etc, Bare.etc}
  BY <1>2 DEF Targets
<1>4. QED
  BY <1>1, <1>3, BareFiles DEF IsFiles

\* One file of /etc/xanhtab is written.
LEMMA EtcWritten ==
  ASSUME NEW files, IsFiles(files), NEW part \in EtcFiles, NEW value, AtMostOne(value),
         part = "toml" => \A toml \in value : IsToml(toml)
  PROVE  /\ IsFiles([files EXCEPT !.etc[part] = value])
         /\ \A other \in EtcFiles : [files EXCEPT !.etc[part] = value].etc[other] =
                                      IF other = part THEN value ELSE files.etc[other]
<1> DEFINE written == [files EXCEPT !.etc[part] = value]
<1>1. HasFields(files, Targets) /\ HasFields(files.etc, EtcFiles)
  BY DEF IsFiles
<1>2. /\ written.program = files.program /\ written.web = files.web
      /\ written.data = files.data /\ written.etc = [files.etc EXCEPT ![part] = value]
      /\ HasFields(written, Targets)
  BY <1>1 DEF HasFields, Targets
<1>3. /\ \A other \in EtcFiles :
           written.etc[other] = IF other = part THEN value ELSE files.etc[other]
      /\ HasFields(written.etc, EtcFiles)
  BY <1>1, <1>2 DEF HasFields
<1>4. \A toml \in written.etc.toml : IsToml(toml)
  BY <1>3 DEF IsFiles, EtcFiles
<1> HIDE DEF written
<1>5. IsFiles(written)
  BY <1>2, <1>3, <1>4 DEF IsFiles
<1>6. QED
  BY <1>3, <1>5 DEF written

\* Who writes what.
LEMMA Writers ==
  ASSUME [Next]_vars
  PROVE  /\ UNCHANGED <<options, before>>
         /\ \/ work' = work
            \/ SyncPublicConfig \/ PrepareSecrets \/ CheckWireGuard \/ CheckProxy
         /\ previous' = previous \/ CaptureServiceState
         /\ filesMutated' = filesMutated \/ BackUp
         /\ backup' = backup \/ BackUp \/ CommandFails \/ SaveConfiguration
         /\ \/ disk' = disk \/ CommandFails
            \/ InstallPrograms \/ InstallWeb \/ InstallConfig \/ InstallHosts \/ InstallSecrets
            \/ SetNetwork \/ CompileBlocklist
            \/ RollbackRemove \/ RollbackRestore \/ RemoveFiles
         /\ \/ todo' = << >> \/ UNCHANGED <<job, todo>>
            \/ CaptureServiceState \/ StopForInstall \/ CommandFails \/ EnableServices
            \/ RollbackStop \/ RollbackRestore \/ RollbackServices
         /\ \/ UNCHANGED <<job, rollbackFailed>> \/ RollbackServices
            \/ job' \notin {"rolled back", "incomplete"}
<1>1. CASE UNCHANGED vars
  BY <1>1 DEF vars
<1>2. CASE \E s \in Services : Crash(s) \/ Restart(s)
  BY <1>2 DEF Crash, Restart, script
<1>3. ASSUME Checked PROVE UNCHANGED <<options, before, previous, filesMutated, backup, disk,
                                       rollbackFailed>>
  BY <1>3 DEF Checked, machine
<1>4. ASSUME NEW step, GoTo(step) PROVE job' = step /\ todo' = << >>
  BY <1>4 DEF GoTo
<1>5. CASE SyncPublicConfig
  <2>1. Checked /\ todo' = << >> /\ job' \in {"secrets", "refused"}
    BY <1>5, <1>4 DEF SyncPublicConfig, Die
  <2>2. QED
    BY <1>3, <1>5, <2>1
<1>6. CASE PrepareSecrets
  <2>1. Checked /\ todo' = << >> /\ job' = "wireguard"
    BY <1>6, <1>4 DEF PrepareSecrets
  <2>2. QED
    BY <1>3, <1>6, <2>1
<1>7. CASE CheckWireGuard
  <2>1. Checked /\ todo' = << >> /\ job' \in {"proxy", "refused"}
    BY <1>7, <1>4 DEF CheckWireGuard
  <2>2. QED
    BY <1>3, <1>7, <2>1
<1>8. CASE CheckProxy
  <2>1. Checked /\ todo' = << >> /\ job' \in {"dependencies", "refused"}
    BY <1>8, <1>4 DEF CheckProxy, Die
  <2>2. QED
    BY <1>3, <1>8, <2>1
<1>9. ASSUME Kept PROVE UNCHANGED <<options, work, rollbackFailed, before>>
  BY <1>9 DEF Kept
<1>10. CASE CaptureServiceState
  <2>1. /\ UNCHANGED <<options, work, before, backup, filesMutated, disk>> /\ job' = "stop"
    BY <1>9, <1>10 DEF CaptureServiceState, machine
  <2>2. QED
    BY <1>10, <2>1
<1>11. CASE StopForInstall
  <2>1. /\ UNCHANGED <<options, work, before, backup, filesMutated, disk, previous>>
        /\ job' \in {"stop", "backup"}
    BY <1>4, <1>9, <1>11 DEF StopForInstall, machine
  <2>2. QED
    BY <1>11, <2>1
<1>12. CASE BackUp
  <2>1. /\ UNCHANGED <<options, work, before, disk, previous>>
        /\ todo' = << >> /\ job' = "program"
    BY <1>4, <1>9, <1>12 DEF BackUp, machine
  <2>2. QED
    BY <1>12, <2>1
<1>13. ASSUME NEW step, Installed(step)
       PROVE  /\ UNCHANGED <<options, work, before, backup, previous, filesMutated>>
              /\ todo' = << >> /\ job' = step
  BY <1>4, <1>9, <1>13 DEF Installed
<1>14. CASE \/ InstallPrograms \/ InstallWeb \/ InstallConfig \/ InstallHosts \/ InstallSecrets
            \/ SetNetwork \/ CompileBlocklist
  <2>1. \E step \in {"web", "config", "hosts", "install secrets", "network", "compile",
                     "enable"} : Installed(step)
    BY <1>14 DEF InstallPrograms, InstallWeb, InstallConfig, InstallHosts, InstallSecrets,
       SetNetwork, CompileBlocklist
  <2>2. QED
    BY <1>13, <1>14, <2>1
<1>15. CASE EnableServices
  <2>1. /\ UNCHANGED <<options, work, before, backup, filesMutated, disk, previous>>
        /\ job' \in {"health", "rollback stop"}
    BY <1>4, <1>9, <1>15 DEF EnableServices
  <2>2. QED
    BY <1>15, <2>1
<1>16. CASE HealthCheck
  <2>1. /\ UNCHANGED <<options, work, before, backup, previous, filesMutated, disk>>
        /\ todo' = << >> /\ job' = "committed"
    BY <1>4, <1>9, <1>16 DEF HealthCheck, machine
  <2>2. QED
    BY <2>1
<1>17. CASE CommandFails
  <2>1. /\ UNCHANGED <<options, work, before, filesMutated, previous>>
        /\ job' \in {"refused", "rollback stop", "uninstall failed"}
    BY <1>4, <1>17 DEF CommandFails, script
  <2>2. QED
    BY <1>17, <2>1
<1>18. ASSUME Undo PROVE UNCHANGED <<options, work, before, backup, previous, filesMutated>>
  BY <1>18 DEF Undo
<1>19. CASE RollbackStop
  <2>1. Undo /\ disk' = disk /\ job' \in {"rollback stop", "rollback disable"}
    BY <1>4, <1>19 DEF RollbackStop
  <2>2. QED
    BY <1>18, <1>19, <2>1
<1>20. CASE RollbackDisable
  <2>1. Undo /\ disk' = disk /\ job' = "rollback remove" /\ todo' = << >>
    BY <1>4, <1>20 DEF RollbackDisable
  <2>2. QED
    BY <1>18, <1>20, <2>1
<1>21. CASE RollbackRemove
  <2>1. Undo /\ job' = "rollback restore" /\ todo' = << >>
    BY <1>4, <1>21 DEF RollbackRemove
  <2>2. QED
    BY <1>18, <1>21, <2>1
<1>22. CASE RollbackRestore
  <2>1. Undo /\ job' = "rollback services"
    BY <1>22 DEF RollbackRestore
  <2>2. QED
    BY <1>18, <1>22, <2>1
<1>23. CASE RollbackServices
  <2>1. Undo /\ disk' = disk
    BY <1>23 DEF RollbackServices
  <2>2. QED
    BY <1>18, <1>23, <2>1
<1>24. CASE DisableServices \/ SaveConfiguration \/ RemoveFiles
  <2>1. \E step \in {"save", "remove", "uninstalled"} : Uninstalled(step)
    BY <1>24 DEF DisableServices, SaveConfiguration, RemoveFiles
  <2>2. /\ UNCHANGED <<options, work, before, previous, filesMutated>>
        /\ todo' = << >> /\ job' \in {"save", "remove", "uninstalled"}
    BY <1>4, <2>1 DEF Uninstalled
  <2>3. (backup' = backup \/ SaveConfiguration) /\ (disk' = disk \/ RemoveFiles)
    BY <1>24 DEF DisableServices, SaveConfiguration, RemoveFiles
  <2>4. QED
    BY <2>2, <2>3
<1>25. CASE Over
  BY <1>25 DEF Over, vars
<1>26. QED
  BY <1>1, <1>2, <1>5, <1>6, <1>7, <1>8, <1>10, <1>11, <1>12, <1>14, <1>15, <1>16, <1>17,
     <1>19, <1>20, <1>21, <1>22, <1>23, <1>24, <1>25 DEF Next

\* What is staged is one file of each kind (prepare_and_validate_secrets).
LEMMA WorkTyped ==
  ASSUME InstallerAssumption, WorkOK, IsFiles(disk), UNCHANGED options,
         \/ work' = work
         \/ SyncPublicConfig \/ PrepareSecrets \/ CheckWireGuard \/ CheckProxy
  PROVE  WorkOK'
<1> DEFINE Staged(w) == /\ HasFields(w, WorkFiles)
                        /\ \A file \in WorkFiles : AtMostOne(w[file])
                        /\ \A toml \in w.effective : IsToml(toml)
<1>1. options \in CommandLines /\ Staged(work)
  BY DEF WorkOK, WorkFiles
<1>2. SUFFICES Staged(work')
  BY <1>1 DEF WorkOK, WorkFiles
<1>3. /\ \A S : S = {} => AtMostOne(S)
      /\ \A x : AtMostOne({x})
  BY DEF AtMostOne
<1>4. ASSUME NEW part \in WorkFiles, NEW value, AtMostOne(value), NEW w, Staged(w),
             part = "effective" => \A toml \in value : IsToml(toml)
      PROVE  Staged([w EXCEPT ![part] = value])
  <2>1. HasFields([w EXCEPT ![part] = value], WorkFiles)
    BY <1>4 DEF HasFields
  <2>2. \A file \in WorkFiles :
          [w EXCEPT ![part] = value][file] = IF file = part THEN value ELSE w[file]
    BY <1>4 DEF HasFields
  <2>3. \A toml \in [w EXCEPT ![part] = value].effective : IsToml(toml)
    BY <1>4, <2>2 DEF WorkFiles
  <2>4. QED
    BY <1>4, <2>1, <2>2, <2>3
<1> HIDE DEF Staged
<1>5. CASE work' = work
  BY <1>1, <1>5
<1>6. CASE SyncPublicConfig
  <2>1. CASE work' = work
    BY <1>1, <2>1
  <2>2. ASSUME NEW repository \in Repositories,
               work' = [work EXCEPT !.hosts = repository.hosts,
                                    !.effective = {Apply(ReleaseToml, doc) :
                                                     doc \in repository.config}]
        PROVE  Staged(work')
    <3>1. AtMostOne(repository.hosts) /\ AtMostOne(repository.config)
      BY DEF InstallerAssumption
    <3>2. PICK applied : applied = {Apply(ReleaseToml, doc) : doc \in repository.config}
      OBVIOUS
    <3>3. AtMostOne(applied)
      BY <3>1, <3>2 DEF AtMostOne
    <3>4. \A toml \in applied : IsToml(toml)
      BY <3>2 DEF InstallerAssumption, Apply, IsToml, HasFields
    <3>5. Staged([work EXCEPT !["hosts"] = repository.hosts])
      BY <1>1, <1>4, <3>1 DEF WorkFiles
    <3>6. Staged([[work EXCEPT !["hosts"] = repository.hosts] EXCEPT !["effective"] = applied])
      BY <1>4, <3>3, <3>4, <3>5 DEF WorkFiles
    <3>7. QED
      BY <2>2, <3>2, <3>6, Zenon
  <2>3. QED
    BY <1>6, <2>1, <2>2 DEF SyncPublicConfig, Die
<1>7. CASE PrepareSecrets
  <2> DEFINE kept == IF options.repair THEN disk.etc ELSE Bare.etc
  <2>1. PICK wg : wg = IF options.wg # {} THEN options.wg ELSE kept.wg
    OBVIOUS
  <2>2. PICK proxy : proxy = IF options.proxy # {} THEN options.proxy ELSE kept.proxy
    OBVIOUS
  <2>3. work' = [[work EXCEPT !["wg"] = wg] EXCEPT !["proxy"] = proxy]
    BY <1>7, <2>1, <2>2 DEF PrepareSecrets
  <2>4. kept \in {disk.etc, Bare.etc}
    OBVIOUS
  <2> HIDE DEF kept
  <2>5. AtMostOne(wg) /\ AtMostOne(proxy)
    BY <1>1, <2>1, <2>2, <2>4, BareFiles DEF InstallerAssumption, IsFiles, EtcFiles
  <2>6. Staged([work EXCEPT !["wg"] = wg])
    BY <1>1, <1>4, <2>5 DEF WorkFiles
  <2>7. QED
    BY <1>4, <2>3, <2>5, <2>6 DEF WorkFiles
<1>8. CASE CheckWireGuard
  <2>1. work' = work \/ work' = [work EXCEPT !["wg"] = {"strict"}]
    BY <1>8 DEF CheckWireGuard
  <2>2. Staged([work EXCEPT !["wg"] = {"strict"}])
    BY <1>1, <1>3, <1>4 DEF WorkFiles
  <2>3. QED
    BY <1>1, <2>1, <2>2
<1>9. CASE CheckProxy
  <2>1. CASE work' = work
    BY <1>1, <2>1
  <2>2. CASE work' # work
    <3> DEFINE installed == IF options.repair /\ disk.etc.toml # {}
                            THEN disk.etc.toml ELSE {ReleaseToml}
               source == IF work.effective # {} THEN work.effective ELSE installed
    <3>1. PICK endpoint : endpoint = {url.endpoint : url \in work.proxy}
      OBVIOUS
    <3>2. PICK effective :
            effective = IF endpoint = {} THEN work.effective
                        ELSE {[The(source) EXCEPT !.endpoint = The(endpoint)]}
      OBVIOUS
    <3>3. work' = [[work EXCEPT !["override"] = endpoint] EXCEPT !["effective"] = effective]
      <4>1. work' = [work EXCEPT !.override = endpoint,
                                 !.effective = IF endpoint = {} THEN @
                                   ELSE {[The(source) EXCEPT !.endpoint = The(endpoint)]}]
        BY <1>9, <2>2, <3>1 DEF CheckProxy, Die
      <4>2. [work EXCEPT !["override"] = endpoint]["effective"] = work.effective
        BY <1>1 DEF Staged, HasFields, WorkFiles
      <4>3. QED
        BY <3>2, <4>1, <4>2
    <3>4. AtMostOne(endpoint)
      <4>1. AtMostOne(work.proxy)
        BY <1>1 DEF Staged, WorkFiles
      <4>2. QED
        BY <3>1, <4>1 DEF AtMostOne
    <3>5. source # {} /\ \A toml \in source : IsToml(toml)
      BY <1>1 DEF Staged, IsFiles, InstallerAssumption
    <3>6. IsToml([The(source) EXCEPT !.endpoint = The(endpoint)])
      <4>1. IsToml(The(source))
        BY <3>5, TheOne
      <4> HIDE DEF source
      <4>2. QED
        BY <4>1 DEF IsToml, HasFields
    <3> HIDE DEF source
    <3>7. AtMostOne(effective) /\ \A toml \in effective : IsToml(toml)
      <4>1. AtMostOne(work.effective) /\ \A toml \in work.effective : IsToml(toml)
        BY <1>1 DEF Staged, WorkFiles
      <4>2. QED
        BY <1>3, <3>2, <3>6, <4>1
    <3>8. Staged([work EXCEPT !["override"] = endpoint])
      BY <1>1, <1>4, <3>4 DEF WorkFiles
    <3>9. QED
      BY <1>4, <3>3, <3>7, <3>8 DEF WorkFiles
  <2>3. QED
    BY <2>1, <2>2
<1>10. QED
  BY <1>5, <1>6, <1>7, <1>8, <1>9

\* The loops over the units are at one of their ends.
LEMMA TodoTyped ==
  ASSUME TodoOK,
         \/ todo' = << >> \/ UNCHANGED <<job, todo>>
         \/ CaptureServiceState \/ StopForInstall \/ CommandFails \/ EnableServices
         \/ RollbackStop \/ RollbackRestore \/ RollbackServices
  PROVE  TodoOK'
<1>1. CASE todo' = << >> \/ UNCHANGED <<job, todo>>
  BY <1>1 DEF TodoOK
<1>2. CASE CaptureServiceState \/ CommandFails \/ EnableServices
  <2>1. todo' = << >> \/ (job' \in {"stop", "rollback stop"} /\ todo' = StopUnits)
    BY <1>2 DEF CaptureServiceState, CommandFails, EnableServices, GoTo
  <2>2. QED
    BY <2>1 DEF TodoOK, StopTodos
<1>3. CASE StopForInstall
  <2>1. todo' = << >> \/ (job = "stop" /\ job' = job /\ todo # << >> /\ todo' = Tail(todo))
    BY <1>3 DEF StopForInstall, GoTo
  <2>2. QED
    BY <2>1, StopTodo DEF TodoOK
<1>4. CASE RollbackStop
  <2>1. \/ todo' = << >>
        \/ job = "rollback stop" /\ job' = job /\ todo # << >> /\ todo' = Tail(todo)
    BY <1>4 DEF RollbackStop, GoTo
  <2>2. QED
    BY <2>1, StopTodo DEF TodoOK
<1>5. CASE RollbackRestore
  <2>1. job' = "rollback services" /\ todo' = ServiceUnits
    BY <1>5 DEF RollbackRestore
  <2>2. QED
    BY <2>1 DEF TodoOK, ServiceTodos
<1>6. CASE RollbackServices
  <2>1. \/ todo' = << >>
        \/ job = "rollback services" /\ job' = job /\ todo # << >> /\ todo' = Tail(todo)
    BY <1>6 DEF RollbackServices, GoTo
  <2>2. QED
    BY <2>1, ServiceTodo DEF TodoOK
<1>7. QED
  BY <1>1, <1>2, <1>3, <1>4, <1>5, <1>6

\* What the script notes of the services is noted once, and its flag is set once.
LEMMA NotesTyped ==
  ASSUME ControlOK, NotesOK, UNCHANGED before,
         previous' = previous \/ CaptureServiceState,
         filesMutated' = filesMutated \/ BackUp
  PROVE  NotesOK'
<1>1. previous' \in [enabled : SUBSET Services, active : SUBSET Services]
  <2>1. CASE CaptureServiceState
    BY <2>1 DEF CaptureServiceState, ControlOK
  <2>2. QED
    BY <2>1 DEF NotesOK
<1>2. filesMutated' \in BOOLEAN
  BY DEF NotesOK, BackUp
<1>3. QED
  BY <1>1, <1>2 DEF NotesOK

\* A backup is a copy of what is on the disk, or of some of it.
LEMMA BackupTyped ==
  ASSUME IsFiles(disk), IsFiles(backup),
         backup' = backup \/ BackUp \/ CommandFails \/ SaveConfiguration
  PROVE  IsFiles(backup')
<1>1. \/ backup' \in {backup, disk}
      \/ \E targets \in SUBSET Targets : backup' = Only(targets, disk)
  <2>1. CASE BackUp
    BY <2>1 DEF BackUp
  <2>2. CASE CommandFails
    BY <2>2 DEF CommandFails, script
  <2>3. CASE SaveConfiguration
    <3>1. backup' = Only({"etc"}, disk)
      BY <2>3 DEF SaveConfiguration
    <3>2. {"etc"} \in SUBSET Targets
      BY DEF Targets
    <3>3. QED
      BY <3>1, <3>2
  <2>4. QED
    BY <2>1, <2>2, <2>3
<1>2. QED
  BY <1>1, OnlyFiles

\* Every step leaves a machine with one file of a name.
LEMMA DiskTyped ==
  ASSUME InstallerAssumption, WorkOK, ConfigInv, IsFiles(disk), IsFiles(backup),
         \/ disk' = disk \/ CommandFails
         \/ InstallPrograms \/ InstallWeb \/ InstallConfig \/ InstallHosts \/ InstallSecrets
         \/ SetNetwork \/ CompileBlocklist
         \/ RollbackRemove \/ RollbackRestore \/ RemoveFiles
  PROVE  IsFiles(disk')
<1>1. /\ HasFields(disk, Targets) /\ HasFields(disk.etc, EtcFiles)
      /\ disk.program \subseteq {"old", "new"} /\ disk.web \subseteq {"old", "new"}
      /\ AtMostOne(disk.data) /\ \A file \in EtcFiles : AtMostOne(disk.etc[file])
      /\ \A toml \in disk.etc.toml : IsToml(toml)
  BY DEF IsFiles
<1>2. /\ \A x : AtMostOne({x})
      /\ \A file \in WorkFiles : AtMostOne(work[file])
      /\ \A toml \in work.effective : IsToml(toml)
  BY DEF AtMostOne, WorkOK, WorkFiles
<1>3. ASSUME NEW target \in {"program", "web"}, NEW parts, parts \subseteq {"old", "new"}
      PROVE  IsFiles([disk EXCEPT ![target] = parts])
  <2> DEFINE written == [disk EXCEPT ![target] = parts]
  <2>1. /\ HasFields(written, Targets) /\ written.etc = disk.etc /\ written.data = disk.data
        /\ written.program \subseteq {"old", "new"} /\ written.web \subseteq {"old", "new"}
    BY <1>1, <1>3 DEF HasFields, Targets
  <2> HIDE DEF written
  <2>2. IsFiles(written)
    BY <1>1, <2>1 DEF IsFiles
  <2>3. QED
    BY <2>2 DEF written
<1>4. CASE InstallPrograms \/ InstallWeb
  <2>1. \/ disk' = [disk EXCEPT !["program"] = {"new"}]
        \/ disk' = [disk EXCEPT !["web"] = disk.web \cup {"new"}]
    BY <1>1, <1>4 DEF InstallPrograms, InstallWeb
  <2>2. QED
    BY <1>1, <1>3, <2>1
<1>5. CASE InstallConfig
  <2>1. PICK toml : /\ disk' = [disk EXCEPT !.etc["toml"] = toml]
                    /\ toml \in {disk.etc.toml, work.effective, {ReleaseToml}}
    <3>1. disk' = [disk EXCEPT !.etc.toml =
                     IF options.repair /\ disk.etc.toml # {} THEN disk.etc.toml
                     ELSE IF work.effective # {} THEN work.effective ELSE {ReleaseToml}]
      BY <1>1, <1>5 DEF InstallConfig
    <3>2. QED
      BY <3>1
  <2>2. AtMostOne(toml) /\ \A t \in toml : IsToml(t)
    BY <1>1, <1>2, <2>1 DEF WorkFiles, EtcFiles, InstallerAssumption
  <2>3. QED
    BY <2>1, <2>2, EtcWritten DEF EtcFiles
<1>6. CASE InstallHosts
  <2>1. PICK hosts : /\ disk' = [disk EXCEPT !.etc["hosts"] = hosts]
                     /\ hosts \in {disk.etc.hosts, work.hosts, {{}}}
    <3>1. disk' = [disk EXCEPT !.etc.hosts =
                     IF work.hosts # {} THEN work.hosts
                     ELSE IF options.repair /\ disk.etc.hosts # {} THEN disk.etc.hosts
                     ELSE {{}}]
      BY <1>1, <1>6 DEF InstallHosts
    <3>2. QED
      BY <3>1
  <2>2. AtMostOne(hosts)
    BY <1>1, <1>2, <2>1 DEF WorkFiles, EtcFiles
  <2>3. QED
    BY <2>1, <2>2, EtcWritten DEF EtcFiles
<1>7. CASE InstallSecrets
  <2>1. PICK wg, proxy :
          /\ disk' = [[disk EXCEPT !.etc["wg"] = wg] EXCEPT !.etc["proxy"] = proxy]
          /\ wg \in {work.wg, disk.etc.wg} /\ proxy \in {work.proxy, disk.etc.proxy}
    <3> DEFINE wg == IF work.wg # {} THEN work.wg ELSE disk.etc.wg
               proxy == IF work.proxy # {} THEN work.proxy ELSE disk.etc.proxy
    <3>1. disk' = [disk EXCEPT !.etc.wg = IF work.wg # {} THEN work.wg ELSE @,
                               !.etc.proxy = IF work.proxy # {} THEN work.proxy ELSE @]
      BY <1>7 DEF InstallSecrets
    <3>2. [disk EXCEPT !.etc.wg = wg].etc.proxy = disk.etc.proxy
      BY <1>1 DEF HasFields, Targets, EtcFiles
    <3>3. QED
      BY <3>1, <3>2
  <2>2. AtMostOne(wg) /\ AtMostOne(proxy)
    BY <1>1, <1>2, <2>1 DEF WorkFiles, EtcFiles
  <2>3. IsFiles([disk EXCEPT !.etc["wg"] = wg])
    BY <2>2, EtcWritten DEF EtcFiles
  <2>4. QED
    BY <2>1, <2>2, <2>3, EtcWritten DEF EtcFiles
<1>8. CASE SetNetwork
  <2>1. PICK toml, endpoint :
          /\ toml = [The(disk.etc.toml) EXCEPT !.mode = options.network, !.endpoint = endpoint]
          /\ disk' = [disk EXCEPT !.etc["toml"] = {toml}]
    BY <1>8 DEF SetNetwork
  <2>2. IsToml(The(disk.etc.toml))
    BY <1>8 DEF SetNetwork, ConfigInv, ConfigDone, Settled
  <2>3. IsToml(toml)
    BY <2>1, <2>2 DEF IsToml, HasFields
  <2>4. QED
    BY <1>2, <2>1, <2>3, EtcWritten DEF EtcFiles
<1>9. CASE CompileBlocklist
  <2>1. PICK data : disk' = [disk EXCEPT !.data = {data}]
    BY <1>9 DEF CompileBlocklist
  <2>2. /\ HasFields(disk', Targets) /\ disk'.etc = disk.etc /\ disk'.data = {data}
        /\ disk'.program = disk.program /\ disk'.web = disk.web
    BY <1>1, <2>1 DEF HasFields, Targets
  <2>3. QED
    BY <1>1, <1>2, <2>2 DEF IsFiles
<1>10. CASE CommandFails
  <2>1. \/ disk' = disk
        \/ disk' = [disk EXCEPT !["program"] = disk.program \cup {"new"}]
        \/ disk' = [disk EXCEPT !["web"] = disk.web \cup {"new"}]
        \/ \E targets : disk' = Only(targets, disk)
    BY <1>1, <1>10 DEF CommandFails, machine, HalfWritten
  <2>2. QED
    BY <1>1, <1>3, <2>1, OnlyFiles
<1>11. CASE RollbackRemove \/ RemoveFiles
  <2>1. disk' = disk \/ \E targets : disk' = Only(targets, disk)
    BY <1>11 DEF RollbackRemove, RemoveFiles
  <2>2. QED
    BY <2>1, OnlyFiles
<1>12. CASE RollbackRestore
  <2>1. PICK copied :
          disk' = [t \in Targets |->
                     IF t \notin copied THEN disk[t]
                     ELSE IF t \in {"program", "web"} THEN disk[t] \cup backup[t]
                     ELSE backup[t]]
    BY <1>12 DEF RollbackRestore
  <2>2. /\ HasFields(disk', Targets)
        /\ disk'.etc \in {disk.etc, backup.etc} /\ disk'.data \in {disk.data, backup.data}
        /\ disk'.program \subseteq disk.program \cup backup.program
        /\ disk'.web \subseteq disk.web \cup backup.web
    BY <2>1 DEF HasFields, Targets
  <2>3. QED
    BY <2>2 DEF IsFiles
<1>13. QED
  BY <1>4, <1>5, <1>6, <1>7, <1>8, <1>9, <1>10, <1>11, <1>12

\* The script reports what rollback_failed says.
LEMMA ReportTyped ==
  ASSUME InstallerAssumption, ControlOK, job = "rolled back" => rollbackFailed = 0,
         job = "incomplete" => rollbackFailed > 0,
         \/ UNCHANGED <<job, rollbackFailed>> \/ RollbackServices
         \/ job' \notin {"rolled back", "incomplete"}
  PROVE  /\ job' = "rolled back" => rollbackFailed' = 0
         /\ job' = "incomplete" => rollbackFailed' > 0
<1>1. CASE RollbackServices
  <2>1. \/ job' = "rollback services"
        \/ job' = Outcome /\ rollbackFailed' = rollbackFailed
    BY <1>1 DEF RollbackServices, GoTo
  <2>2. rollbackFailed \in 0 .. MaxFailures /\ MaxFailures \in Nat
    BY Zenon DEF ControlOK, InstallerAssumption
  <2>3. CASE rollbackFailed > 0
    BY <2>1, <2>3 DEF Outcome
  <2>4. CASE ~(rollbackFailed > 0)
    <3>1. rollbackFailed = 0
      BY ONLY <2>2, <2>4
    <3>2. Outcome = "rolled back"
      BY <2>4 DEF Outcome
    <3>3. QED
      BY <2>1, <3>1, <3>2
  <2>5. QED
    BY <2>3, <2>4
<1>2. QED
  BY <1>1

\* The data have their types when the script starts.
LEMMA DataInit == InstallerAssumption /\ Init => DataInv
<1> SUFFICES ASSUME InstallerAssumption, Init PROVE DataInv
  OBVIOUS
<1>1. PICK old \in OldMachine :
        /\ disk = old.disk /\ enabled = old.enabled
        /\ run = [s \in Services |-> IF s \in old.active THEN "active" ELSE "stopped"]
        /\ image = [s \in Services |-> IF s \in old.active THEN old.disk.program ELSE {}]
  BY DEF Init
<1>2. IsFiles(disk) /\ disk.program \subseteq {"old"} /\ enabled \subseteq Services
  BY <1>1 DEF InstallerAssumption
<1>3. /\ work = [hosts |-> {}, effective |-> {}, wg |-> {}, proxy |-> {}, override |-> {}]
      /\ options \in CommandLines
  BY DEF Init
<1>4. WorkOK
  BY <1>3 DEF WorkOK, HasFields, AtMostOne
<1>5. TodoOK /\ IsFiles(backup)
  BY BareFiles DEF Init, TodoOK
<1>6. NotesOK
  <2>1. /\ before.disk = disk /\ before.enabled = enabled /\ before.run = run
        /\ before.image = image /\ filesMutated = FALSE
        /\ previous = [enabled |-> {}, active |-> {}]
    BY DEF Init
  <2>2. run \in [Services -> {"stopped", "active"}] /\ image \in [Services -> SUBSET {"old"}]
    BY <1>1, <1>2
  <2>3. previous \in [enabled : SUBSET Services, active : SUBSET Services]
    BY <2>1
  <2>4. QED
    BY <1>2, <2>1, <2>2, <2>3 DEF NotesOK
<1>7. job \notin {"rolled back", "incomplete"}
  BY DEF Init
<1>8. QED
  BY <1>2, <1>4, <1>5, <1>6, <1>7 DEF DataInv

\* And they keep them.
LEMMA DataStep == InstallerAssumption /\ InstallerInv /\ DataInv /\ [Next]_vars => DataInv'
<1> SUFFICES ASSUME InstallerAssumption, InstallerInv, DataInv, [Next]_vars PROVE DataInv'
  OBVIOUS
<1>1. ControlOK /\ ConfigInv
  BY DEF InstallerInv
<1>2. WorkOK'
  BY Writers, WorkTyped DEF DataInv
<1>3. TodoOK'
  BY Writers, TodoTyped DEF DataInv
<1>4. NotesOK'
  BY <1>1, Writers, NotesTyped DEF DataInv
<1>5. IsFiles(disk')
  BY <1>1, Writers, DiskTyped DEF DataInv
<1>6. IsFiles(backup')
  BY Writers, BackupTyped DEF DataInv
<1>7. /\ job' = "rolled back" => rollbackFailed' = 0
      /\ job' = "incomplete" => rollbackFailed' > 0
  BY <1>1, Writers, ReportTyped DEF DataInv
<1>8. QED
  BY <1>2, <1>3, <1>4, <1>5, <1>6, <1>7 DEF DataInv

\* DataInv holds in every behaviour.
LEMMA DataInvariance == Spec => []DataInv
  BY DataInit, DataStep, Invariance, InstallerAssumption, PTL DEF Spec

-----------------------------------------------------------------------------
\* Every variable keeps its type, and what the rollback reports is what it noted.
THEOREM TypeCorrect == Spec => []TypeOK
<1>1. InstallerInv /\ DataInv => TypeOK
  BY DEF InstallerInv, DataInv, TypeOK
<1>2. QED
  BY <1>1, Invariance, DataInvariance, PTL

\* rollback_install: a refusal, and a rollback that reports itself complete, leave
\* the files and the enabled units as they were; and the services, unless one of them
\* was waiting for its automatic restart when is-active was asked.
THEOREM RollbackIsComplete == Spec => []RollbackRestores
<1>1. InstallerInv => RollbackRestores
  <2> SUFFICES ASSUME InstallerInv, job \in {"refused", "rolled back"}
               PROVE  /\ disk = before.disk /\ enabled = before.enabled
                      /\ overlooked = {} => ServicesAsBefore
    BY DEF RollbackRestores
  <2>1. CASE job = "refused"
    BY <2>1 DEF InstallerInv, FilesInv, ServicesInv, UninstallEnds, Stopped, StoppedBefore, Runs,
       ServicesAsBefore
  <2>2. CASE job = "rolled back"
    <3>1. todo = << >> /\ rollbackFailed = 0 /\ Waiting(todo) = {}
      BY <2>2, TodoEnds DEF InstallerInv, RollbackInv
    <3>2. disk = before.disk /\ \A s \in Services : s \in enabled <=> s \in before.enabled
      BY <2>2, <3>1 DEF InstallerInv, RollbackInv
    <3>3. enabled = before.enabled
      BY <3>2 DEF InstallerInv, ControlOK, MachineInv
    <3>4. overlooked = {} => /\ \A s \in Services : Stopped(s) <=> StoppedBefore(s)
                             /\ Runs(before.disk.program)
      BY <2>2, <3>1 DEF InstallerInv, RollbackInv
    <3>5. QED
      BY <3>2, <3>3, <3>4 DEF Stopped, StoppedBefore, Runs, ServicesAsBefore
  <2>3. QED
    BY <2>1, <2>2
<1>2. QED
  BY <1>1, Invariance, PTL

\* install_release: FILES_MUTATED is set after the copies, so nothing of the
\* earlier installation is ever lost.
THEOREM OldReleaseIsSafe == Spec => []OldReleaseSurvives
<1>1. InstallerInv => OldReleaseSurvives
  <2> SUFFICES ASSUME InstallerInv PROVE OldReleaseSurvives
    OBVIOUS
  <2>1. CASE ~options.uninstall
    <3>1. backup = before.disk \/ disk = before.disk
      BY <2>1 DEF InstallerInv, FilesInv
    <3>2. QED
      BY <2>1, <3>1 DEF OldReleaseSurvives
  <2>2. CASE options.uninstall
    <3>1. disk.data = before.disk.data /\ before.disk.etc \in {disk.etc, backup.etc}
      BY <2>2 DEF InstallerInv, FilesInv
    <3>2. QED
      BY <2>2, <3>1 DEF OldReleaseSurvives
  <2>3. QED
    BY <2>1, <2>2
<1>2. QED
  BY <1>1, Invariance, PTL

\* activate_and_healthcheck: after a commit what runs is the new release.
THEOREM CommitRunsRelease == Spec => []CommittedRunsRelease
<1>1. InstallerInv => CommittedRunsRelease
  BY DEF InstallerInv, FilesInv, ProgramsDone, ServicesInv, Runs, CommittedRunsRelease
<1>2. QED
  BY <1>1, Invariance, PTL

\* prepare_and_validate_secrets, install_release: a committed configuration names a
\* mode that netd can enter, and the settings it was to have.
THEOREM CommitIsConfigured == Spec => []CommittedConfiguration
<1>1. InstallerInv => CommittedConfiguration
  <2> SUFFICES ASSUME InstallerInv, job = "committed" PROVE CommittedConfiguration
    BY DEF CommittedConfiguration
  <2> DEFINE toml == The(disk.etc.toml)
  <2>1. /\ Settled(toml) /\ toml.mode = options.network
        /\ work.wg # {} => disk.etc.wg = work.wg
        /\ work.proxy # {} => disk.etc.proxy = work.proxy
        /\ work.override # {} => toml.endpoint \in work.override
    BY DEF InstallerInv, ConfigInv, ConfigDone, SecretsDone, NetworkDone
  <2>2. /\ options.network = "wireguard" => work.wg = {"strict"}
        /\ options.network = "proxy" => work.proxy # {}
        /\ \A url \in work.proxy : ValidateProxyUrl(url, TRUE)
        /\ work.override = {url.endpoint : url \in work.proxy}
    BY DEF InstallerInv, WorkInv, ChecksDone
  <2>3. CanEnter(toml.mode)
    <3>1. toml.mode = "wireguard" => disk.etc.wg = {"strict"}
      BY <2>1, <2>2
    <3>2. ASSUME toml.mode = "proxy"
          PROVE  \E url \in disk.etc.proxy :
                   ValidateProxyUrl(url, TRUE) /\ url.endpoint = toml.endpoint
      BY <2>1, <2>2, <3>2
    <3>3. QED
      BY <3>1, <3>2 DEF CanEnter
  <2>4. QED
    BY <2>1, <2>3 DEF CommittedConfiguration, Settled, Repaired, FromRepository
<1>2. QED
  BY <1>1, Invariance, PTL
=============================================================================
