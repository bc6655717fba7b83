------------------------------ MODULE Installer ------------------------------
(***************************************************************************)
(* install.sh: an installation checks everything it was given before it    *)
(* touches the machine, stops the services, backs up and replaces the      *)
(* files, starts the new release and commits when it is healthy.  A        *)
(* command that fails on the way ends the script, whose EXIT trap rolls    *)
(* the machine back; the commands of the rollback can fail too.  systemd   *)
(* goes on restarting the services that crash (Restart=, RestartSec=2s)    *)
(* in between, and the validators of the release are those of egress.rs    *)
(* (module WireGuardConfig), blocklist.rs (module Blocklist) and           *)
(* remote_config.rs.  --dry-run changes nothing and is left out.           *)
(* A value that may be missing is a set of at most one element.            *)
(***************************************************************************)
EXTENDS WireGuardConfig, Blocklist

CONSTANTS
  CommandLines,    \* the command lines that are tried
  WireGuardFiles,  \* WireGuard files that are tried
  Repositories,    \* configuration repositories: config.json and custom_hosts.txt
  BaseDomains,     \* the packaged base blocklist
  ReleaseToml,     \* the packaged production configuration
  OldMachine,      \* what an earlier installation may have left
  MaxCrashes,      \* bounds of the model: crashes of a service,
  MaxFailures      \* and commands of one rollback that fail

\* Files are replaced one by one ("program", the unit files among them),
\* merged into (the directories "web" and "etc") or written by a tool ("data").
Targets == {"program", "web", "etc", "data"}
Services == {"netd", "browser", "xanhtabd"}
ServiceUnits == << "netd", "browser", "xanhtabd" >>
StopUnits == << "xanhtabd", "browser", "netd" >>

VARIABLES
  options,        \* the command line
  work,           \* WORK_DIR and PROXY_ENDPOINT_OVERRIDE
  job,            \* the step the script is at
  todo,           \* the units left of a loop
  disk,           \* Targets -> what is there
  backup,         \* BACKUP_DIR
  enabled, run,   \* systemd: enabled units; unit -> stopped, active, restarting
  image,          \* unit -> the releases its program was read from
  previous,       \* PREVIOUS_ENABLED and PREVIOUS_ACTIVE
  filesMutated,   \* FILES_MUTATED
  rollbackFailed, \* rollback_failed, as the number of failed commands
  crashes,
  before,         \* history: the machine when the script began
  overlooked,     \* history: units is-active denied while systemd restarted them
  examined        \* history: the WireGuard file just validated and the verdict

machine == <<disk, enabled, run, image>>
script == <<options, work, backup, previous, filesMutated, rollbackFailed>>
vars == <<options, work, job, todo, disk, backup, enabled, run, image, previous,
          filesMutated, rollbackFailed, crashes, before, overlooked, examined>>

The(maybe) == CHOOSE x \in maybe : TRUE
Bare == [program |-> {}, web |-> {}, data |-> {},
         etc |-> [toml |-> {}, hosts |-> {}, wg |-> {}, proxy |-> {}]]

\* What --uninstall removes: the blocklist under /var/lib/xanhtab is retained.
Removed == {"program", "web", "etc"}

Checking == {"sync", "secrets", "wireguard", "proxy", "dependencies"}
Installing == {"stop", "backup", "program", "web", "config", "hosts", "install secrets",
               "network", "compile", "enable", "health"}
Uninstalling == {"disable", "save", "remove"}
RollingBack == {"rollback stop", "rollback disable", "rollback remove",
                "rollback restore", "rollback services"}
Ended == {"refused", "committed", "rolled back", "incomplete", "uninstalled",
          "uninstall failed"}

-----------------------------------------------------------------------------
(* systemd.  BindsTo= of the unit files: a unit goes down with what it is  *)
(* bound to, and starting it starts that too.                              *)

BoundTo(s) == CASE s = "netd" -> {}
                [] s = "browser" -> {"netd"}
                [] OTHER -> {"netd", "browser"}

\* What is taken for granted: the command line is parsed, and a repository has at
\* most one file of a name; settings have the fields named here; what an earlier
\* installation left is the old release, and no unit of it is active without those
\* it is bound to.
HasFields(r, fields) == r = [f \in fields |-> r[f]]
AtMostOne(S) == \A x, y \in S : x = y
IsToml(toml) == HasFields(toml, {"url", "burn", "mode", "endpoint"})
EtcFiles == {"toml", "hosts", "wg", "proxy"}
IsFiles(files) ==
  /\ HasFields(files, Targets) /\ HasFields(files.etc, EtcFiles)
  /\ files.program \subseteq {"old", "new"} /\ files.web \subseteq {"old", "new"}
  /\ AtMostOne(files.data) /\ \A file \in EtcFiles : AtMostOne(files.etc[file])
  /\ \A toml \in files.etc.toml : IsToml(toml)
ASSUME InstallerAssumption ==
  /\ MaxCrashes \in Nat /\ MaxFailures \in Nat
  /\ \A line \in CommandLines :
       /\ line.uninstall \in BOOLEAN /\ line.repair \in BOOLEAN
       /\ AtMostOne(line.wg) /\ AtMostOne(line.proxy)
  /\ \A repository \in Repositories :
       AtMostOne(repository.config) /\ AtMostOne(repository.hosts)
  /\ IsToml(ReleaseToml)
  /\ \A old \in OldMachine :
       /\ IsFiles(old.disk)
       /\ old.disk.program \subseteq {"old"} /\ old.disk.web \subseteq {"old"}
       /\ old.enabled \subseteq Services /\ old.active \subseteq Services
       /\ \A s \in old.active : BoundTo(s) \subseteq old.active

Up(s) == run[s] = "active"

\* The files tried: a WireGuard file is a sequence of lines, a name in a hosts file
\* is never empty, and the packaged blocklist has been compiled.
IsName(name) == name \in Seq(STRING) /\ name # << >>
IsHosts(file) == \A line \in file : \A name \in line.names : IsName(name)
ASSUME FilesAssumption ==
  /\ \A text \in WireGuardFiles : text \in Seq(Lines)
  /\ \A name \in BaseDomains : IsName(name) /\ NormalizeDomain(name) = {name}
  /\ \A repository \in Repositories : \A file \in repository.hosts : IsHosts(file)
  /\ \A old \in OldMachine : \A file \in old.disk.etc.hosts : IsHosts(file)

\* The part of a machine's files that is in some targets.
Only(targets, files) == [t \in Targets |-> IF t \in targets THEN files[t] ELSE Bare[t]]

StartUnit(s) ==
  LET starts == {u \in BoundTo(s) \cup {s} : ~ Up(u)}
  IN  /\ run' = [u \in Services |-> IF u \in starts THEN "active" ELSE run[u]]
      /\ image' = [u \in Services |-> IF u \in starts THEN disk.program ELSE image[u]]

StopUnit(s) ==
  /\ run' = [u \in Services |-> IF u = s \/ s \in BoundTo(u) THEN "stopped" ELSE run[u]]
  /\ UNCHANGED image

\* Until it captures them the script looks at no service: a crash before that is
\* one at its last check.
Crash(s) ==
  /\ Up(s)
  /\ crashes < MaxCrashes
  /\ job \notin Checking \ {"dependencies"}
  /\ crashes' = crashes + 1
  /\ run' = [u \in Services |->
               IF Up(u) /\ (u = s \/ s \in BoundTo(u)) THEN "restarting" ELSE run[u]]
  /\ UNCHANGED <<script, job, todo, disk, enabled, image, before, overlooked, examined>>

Restart(s) ==
  /\ run[s] = "restarting"
  /\ disk.program # {}
  /\ StartUnit(s)
  /\ UNCHANGED <<script, job, todo, disk, enabled, crashes, before, overlooked, examined>>

\* systemctl is-active answers no while a unit waits to be restarted.
Overlook(s) == overlooked' = overlooked \cup {u \in {s} : run[u] = "restarting"}

-----------------------------------------------------------------------------
(* What the script does when a command fails: nothing, or roll back.       *)

GoTo(step) == job' = step /\ todo' = << >>
Die == GoTo("refused") /\ UNCHANGED <<work, examined>>

\* The file the script was writing when it stopped, or none.
HalfWritten ==
  {disk} \cup IF job \in {"program", "web"}
              THEN {[disk EXCEPT ![job] = @ \cup {"new"}]} ELSE {}

CommandFails ==
  \/ /\ job \in Checking
     /\ GoTo("refused")
     /\ UNCHANGED <<script, machine, crashes, before, overlooked, examined>>
  \/ /\ job \in Installing
     /\ job' = "rollback stop"
     /\ todo' = StopUnits
     /\ disk' \in HalfWritten
     /\ IF job = "backup"
        THEN \E copied \in SUBSET Targets : backup' = Only(copied, disk)
        ELSE UNCHANGED backup
     /\ UNCHANGED <<options, work, previous, filesMutated, rollbackFailed, enabled, run,
                    image, crashes, before, overlooked, examined>>
  \/ /\ job \in Uninstalling
     /\ GoTo("uninstall failed")
     /\ IF job = "remove"
        THEN \E gone \in SUBSET Removed : disk' = Only(Targets \ gone, disk)
        ELSE UNCHANGED disk
     /\ IF job = "disable" THEN enabled' \in SUBSET enabled ELSE UNCHANGED enabled
     /\ UNCHANGED <<script, run, image, crashes, before, overlooked, examined>>

-----------------------------------------------------------------------------
(* Before the first mutation: sync_public_config and                       *)
(* prepare_and_validate_secrets, with the validators of the release.       *)

\* parse_remote_config
ParseRemoteConfig(doc) ==
  /\ doc.url # {} \/ doc.burn # {}
  /\ doc.url \subseteq {"home", "web"}
  /\ \A seconds \in doc.burn : seconds = 0 \/ seconds \in 60 .. 86400

\* apply_public_config_file
Apply(toml, doc) ==
  [toml EXCEPT !.url = IF doc.url = {} THEN @ ELSE The(doc.url),
               !.burn = IF doc.burn = {} THEN @ ELSE The(doc.burn)]

\* validate_proxy_url; a managed proxy may not carry credentials.
ValidateProxyUrl(url, allowCredentials) ==
  /\ url.scheme \in {"http", "https", "socks5", "socks5h"}
  /\ url.literal
  /\ ~ url.suffix
  /\ url.credentials => allowCredentials

Checked == UNCHANGED <<options, backup, previous, filesMutated, rollbackFailed,
                       machine, crashes, before, overlooked>>

SyncPublicConfig ==
  /\ job = "sync"
  /\ \E repository \in Repositories :
       IF /\ \A file \in repository.hosts : StrictlyValid(file)
          /\ \A doc \in repository.config : ParseRemoteConfig(doc)
       THEN /\ work' = [work EXCEPT !.hosts = repository.hosts,
                                    !.effective = {Apply(ReleaseToml, doc) :
                                                     doc \in repository.config}]
            /\ GoTo("secrets")
            /\ UNCHANGED examined
       ELSE Die
  /\ Checked

\* The values of --secrets-file, else with --repair those installed.
PrepareSecrets ==
  /\ job = "secrets"
  /\ LET kept == IF options.repair THEN disk.etc ELSE Bare.etc
     IN  work' = [work EXCEPT !.wg = IF options.wg # {} THEN options.wg ELSE kept.wg,
                              !.proxy = IF options.proxy # {} THEN options.proxy
                                        ELSE kept.proxy]
  /\ GoTo("wireguard")
  /\ UNCHANGED examined
  /\ Checked

\* The staged xanhtab-netd --check-wireguard-config, on whatever was given or kept.
CheckWireGuard ==
  /\ job = "wireguard"
  /\ IF work.wg = {}
     THEN GoTo("proxy") /\ UNCHANGED <<work, examined>>
     ELSE \E text \in WireGuardFiles :
            /\ examined' = {[text |-> text, accepted |-> Validate(text)]}
            /\ IF Validate(text)
               THEN GoTo("proxy") /\ work' = [work EXCEPT !.wg = {"strict"}]
               ELSE GoTo("refused") /\ UNCHANGED work
  /\ Checked

\* The staged --check-proxy-url, then what --network requires.
CheckProxy ==
  /\ job = "proxy"
  /\ LET installed == IF options.repair /\ disk.etc.toml # {}
                      THEN disk.etc.toml ELSE {ReleaseToml}
         source == IF work.effective # {} THEN work.effective ELSE installed
         endpoint == {url.endpoint : url \in work.proxy}
     IN  IF /\ \A url \in work.proxy : ValidateProxyUrl(url, TRUE)
            /\ options.network = "wireguard" => work.wg # {}
            /\ options.network = "proxy" => work.proxy # {}
         THEN /\ work' = [work EXCEPT
                   !.override = endpoint,
                   !.effective = IF endpoint = {} THEN @
                                 ELSE {[The(source) EXCEPT !.endpoint = The(endpoint)]}]
              /\ GoTo("dependencies")
              /\ examined' = {}
         ELSE Die
  /\ Checked

-----------------------------------------------------------------------------
(* install_release and activate_and_healthcheck.                           *)

Kept == UNCHANGED <<options, work, rollbackFailed, crashes, before, examined>>

\* After the packages are there: capture_service_state, then MUTATION_STARTED.
CaptureServiceState ==
  /\ job = "dependencies"
  /\ previous' = [enabled |-> enabled, active |-> {s \in Services : Up(s)}]
  /\ overlooked' = {s \in Services : run[s] = "restarting"}
  /\ job' = "stop"
  /\ todo' = StopUnits
  /\ UNCHANGED <<backup, filesMutated, machine>>
  /\ Kept

\* Faults to compare with: the units are left running, FILES_MUTATED is set
\* before the copies, and never.
StopNothing ==
  /\ job = "stop"
  /\ GoTo("backup")
  /\ UNCHANGED <<machine, overlooked, backup, previous, filesMutated>>
  /\ Kept

StopAndMutate ==
  /\ job = "stop"
  /\ IF todo = << >> THEN GoTo("backup") /\ UNCHANGED <<machine, overlooked>>
     ELSE /\ IF Up(Head(todo)) THEN StopUnit(Head(todo)) ELSE UNCHANGED <<run, image>>
          /\ Overlook(Head(todo))
          /\ todo' = Tail(todo)
          /\ UNCHANGED <<job, disk, enabled>>
  /\ filesMutated' = TRUE
  /\ UNCHANGED <<backup, previous>>
  /\ Kept

BackUpUnnoted ==
  /\ job = "backup"
  /\ backup' = disk
  /\ GoTo("program")
  /\ UNCHANGED <<filesMutated, previous, machine, overlooked>>
  /\ Kept

StopForInstall ==
  /\ job = "stop"
  /\ IF todo = << >> THEN GoTo("backup") /\ UNCHANGED <<machine, overlooked>>
     ELSE /\ IF Up(Head(todo)) THEN StopUnit(Head(todo)) ELSE UNCHANGED <<run, image>>
          /\ Overlook(Head(todo))
          /\ todo' = Tail(todo)
          /\ UNCHANGED <<job, disk, enabled>>
  /\ UNCHANGED <<backup, previous, filesMutated>>
  /\ Kept

\* The copies are complete before the first file is replaced.
BackUp ==
  /\ job = "backup"
  /\ backup' = disk
  /\ filesMutated' = TRUE
  /\ GoTo("program")
  /\ UNCHANGED <<previous, machine, overlooked>>
  /\ Kept

Installed(next) ==
  /\ GoTo(next)
  /\ UNCHANGED <<backup, previous, filesMutated, enabled, run, image, overlooked>>
  /\ Kept

InstallPrograms ==
  /\ job = "program"
  /\ disk' = [disk EXCEPT !.program = {"new"}]
  /\ Installed("web")

InstallWeb ==
  /\ job = "web"
  /\ disk' = [disk EXCEPT !.web = @ \cup {"new"}]
  /\ Installed("config")

InstallConfig ==
  /\ job = "config"
  /\ disk' = [disk EXCEPT !.etc.toml =
                IF options.repair /\ @ # {} THEN @
                ELSE IF work.effective # {} THEN work.effective ELSE {ReleaseToml}]
  /\ Installed("hosts")

\* The packaged custom_hosts.txt holds comments only.
InstallHosts ==
  /\ job = "hosts"
  /\ disk' = [disk EXCEPT !.etc.hosts =
                IF work.hosts # {} THEN work.hosts
                ELSE IF options.repair /\ @ # {} THEN @ ELSE {{}}]
  /\ Installed("install secrets")

InstallSecrets ==
  /\ job = "install secrets"
  /\ disk' = [disk EXCEPT !.etc.wg = IF work.wg # {} THEN work.wg ELSE @,
                          !.etc.proxy = IF work.proxy # {} THEN work.proxy ELSE @]
  /\ Installed("network")

\* A fault to compare with: the endpoint of the proxy secret is not written.
SetNetworkOnly ==
  /\ job = "network"
  /\ disk' = [disk EXCEPT !.etc.toml = {[The(@) EXCEPT !.mode = options.network]}]
  /\ Installed("compile")

SetNetwork ==
  /\ job = "network"
  /\ LET toml == The(disk.etc.toml)
         endpoint == IF work.override # {} THEN The(work.override) ELSE toml.endpoint
     IN  disk' = [disk EXCEPT !.etc.toml = {[toml EXCEPT !.mode = options.network,
                                                         !.endpoint = endpoint]}]
  /\ Installed("compile")

CompileBlocklist ==
  /\ job = "compile"
  /\ disk' = [disk EXCEPT !.data = {MergeHostsWithBase(BaseDomains, The(disk.etc.hosts))}]
  /\ Installed("enable")

\* systemctl enable --now: what already runs is not started again, and any part
\* of it may be done when it fails.
EnableServices ==
  /\ job = "enable"
  /\ \E on, started \in SUBSET Services :
       /\ started # {} => on = Services
       /\ enabled' = enabled \cup on
       /\ run' = [s \in Services |-> IF s \in started THEN "active" ELSE run[s]]
       /\ image' = [s \in Services |->
                      IF s \in started /\ ~ Up(s) THEN disk.program ELSE image[s]]
       /\ \A s \in started : BoundTo(s) \subseteq started \cup {u \in Services : Up(u)}
       /\ IF on = Services /\ started = Services THEN GoTo("health")
          ELSE job' = "rollback stop" /\ todo' = StopUnits
  /\ UNCHANGED <<disk, backup, previous, filesMutated, overlooked>>
  /\ Kept

HealthCheck ==
  /\ job = "health"
  /\ Up("xanhtabd")
  /\ GoTo("committed")
  /\ UNCHANGED <<backup, previous, filesMutated, machine, overlooked>>
  /\ Kept

-----------------------------------------------------------------------------
(* rollback_install.  A command of it that fails is noted and the next one *)
(* is tried.                                                               *)

Undo == UNCHANGED <<options, work, backup, previous, filesMutated, crashes, before, examined>>
Note(failures) == /\ rollbackFailed' = rollbackFailed + failures
                  /\ rollbackFailed' <= MaxFailures
Failed(condition) == IF condition THEN 1 ELSE 0

RollbackStop ==
  /\ job = "rollback stop"
  /\ IF todo = << >> THEN /\ GoTo("rollback disable")
                         /\ UNCHANGED <<run, image, overlooked, rollbackFailed>>
     ELSE /\ todo' = Tail(todo)
          /\ Overlook(Head(todo))
          /\ \/ IF Up(Head(todo)) THEN StopUnit(Head(todo)) ELSE UNCHANGED <<run, image>>
             \/ UNCHANGED <<run, image>>
          /\ Note(Failed(run'[Head(todo)] = "active"))
          /\ UNCHANGED job
  /\ UNCHANGED <<disk, enabled>>
  /\ Undo

\* The units, then what is left under /run.
RollbackDisable ==
  /\ job = "rollback disable"
  /\ enabled' \in SUBSET enabled
  /\ \E residue \in 0 .. 1 : Note(Cardinality(enabled') + residue)
  /\ GoTo("rollback remove")
  /\ UNCHANGED <<disk, run, image, overlooked>>
  /\ Undo

RollbackRemove ==
  /\ job = "rollback remove"
  /\ IF filesMutated
     THEN \E stuck \in SUBSET {t \in Targets : disk[t] # Bare[t]} :
            /\ disk' = Only(stuck, disk)
            /\ Note(Cardinality(stuck))
     ELSE UNCHANGED <<disk, rollbackFailed>>
  /\ GoTo("rollback restore")
  /\ UNCHANGED <<enabled, run, image, overlooked>>
  /\ Undo

\* cp -a over what could not be removed, and daemon-reload.
RollbackRestore ==
  /\ job = "rollback restore"
  /\ LET saved == IF filesMutated THEN {t \in Targets : backup[t] # Bare[t]} ELSE {}
     IN  \E copied \in SUBSET saved, reload \in 0 .. 1 :
           /\ disk' = [t \in Targets |->
                         IF t \notin copied THEN disk[t]
                         ELSE IF t \in {"program", "web"} THEN disk[t] \cup backup[t]
                         ELSE backup[t]]
           /\ Note(Failed(copied # saved) + reload)
  /\ job' = "rollback services"
  /\ todo' = ServiceUnits
  /\ UNCHANGED <<enabled, run, image, overlooked>>
  /\ Undo

\* What the script reports at the end.  A fault to compare with: rollback_failed is
\* not asked.
FaultyOutcome == "rolled back"
Outcome == IF rollbackFailed > 0 THEN "incomplete" ELSE "rolled back"

RollbackServices ==
  /\ job = "rollback services"
  /\ IF todo = << >> THEN /\ GoTo(Outcome)
                         /\ UNCHANGED <<enabled, run, image, rollbackFailed>>
     ELSE LET s == Head(todo)
          IN /\ todo' = Tail(todo)
             /\ \/ enabled' = IF s \in previous.enabled THEN enabled \cup {s}
                              ELSE enabled \ {s}
                \/ UNCHANGED enabled
             /\ \/ IF s \in previous.active THEN StartUnit(s)
                   ELSE IF Up(s) THEN StopUnit(s) ELSE UNCHANGED <<run, image>>
                \/ UNCHANGED <<run, image>>
             /\ Note(Failed((s \in enabled') # (s \in previous.enabled))
                     + Failed((run'[s] = "active") # (s \in previous.active)))
             /\ UNCHANGED job
  /\ UNCHANGED <<disk, overlooked>>
  /\ Undo

-----------------------------------------------------------------------------
(* uninstall_xanhtab: no rollback, but a copy of /etc/xanhtab first.       *)

Uninstalled(next) ==
  /\ GoTo(next)
  /\ UNCHANGED <<options, work, previous, filesMutated, rollbackFailed, crashes, before,
                 overlooked, image, examined>>

DisableServices ==
  /\ job = "disable"
  /\ enabled' = {}
  /\ run' = [s \in Services |-> "stopped"]
  /\ UNCHANGED <<disk, backup>>
  /\ Uninstalled("save")

SaveConfiguration ==
  /\ job = "save"
  /\ backup' = Only({"etc"}, disk)
  /\ UNCHANGED <<disk, enabled, run>>
  /\ Uninstalled("remove")

RemoveFiles ==
  /\ job = "remove"
  /\ disk' = Only(Targets \ Removed, disk)
  /\ UNCHANGED <<backup, enabled, run>>
  /\ Uninstalled("uninstalled")

-----------------------------------------------------------------------------
Init ==
  /\ options \in CommandLines
  /\ \E old \in OldMachine :
       /\ disk = old.disk
       /\ enabled = old.enabled
       /\ run = [s \in Services |-> IF s \in old.active THEN "active" ELSE "stopped"]
       /\ image = [s \in Services |-> IF s \in old.active THEN old.disk.program ELSE {}]
  /\ before = [disk |-> disk, enabled |-> enabled, run |-> run, image |-> image]
  /\ work = [hosts |-> {}, effective |-> {}, wg |-> {}, proxy |-> {}, override |-> {}]
  /\ job = IF options.uninstall THEN "disable" ELSE "sync"
  /\ todo = << >>
  /\ backup = Bare
  /\ previous = [enabled |-> {}, active |-> {}]
  /\ filesMutated = FALSE
  /\ rollbackFailed = 0
  /\ crashes = 0
  /\ overlooked = {}
  /\ examined = {}

\* The script is over; the services go on.
Over == job \in Ended /\ UNCHANGED vars

Next ==
  \/ \E s \in Services : Crash(s) \/ Restart(s)
  \/ CommandFails
  \/ SyncPublicConfig
  \/ PrepareSecrets
  \/ CheckWireGuard
  \/ CheckProxy
  \/ CaptureServiceState
  \/ StopForInstall
  \/ BackUp
  \/ InstallPrograms
  \/ InstallWeb
  \/ InstallConfig
  \/ InstallHosts
  \/ InstallSecrets
  \/ SetNetwork
  \/ CompileBlocklist
  \/ EnableServices
  \/ HealthCheck
  \/ RollbackStop
  \/ RollbackDisable
  \/ RollbackRemove
  \/ RollbackRestore
  \/ RollbackServices
  \/ DisableServices
  \/ SaveConfiguration
  \/ RemoveFiles
  \/ Over

Spec == Init /\ [][Next]_vars

-----------------------------------------------------------------------------
(* Properties.                                                             *)

\* What may be left of the two loops over the units.
StopTodos == {StopUnits, << "browser", "netd" >>, << "netd" >>, << >>}
ServiceTodos == {ServiceUnits, << "browser", "xanhtabd" >>, << "xanhtabd" >>, << >>}

\* The script is at a step it has and the states of the units are systemd's.
ControlOK ==
  /\ job \in Checking \cup Installing \cup Uninstalling \cup RollingBack \cup Ended
  /\ enabled \subseteq Services
  /\ run \in [Services -> {"stopped", "active", "restarting"}]
  /\ image \in [Services -> SUBSET {"old", "new"}]
  /\ crashes \in 0 .. MaxCrashes
  /\ rollbackFailed \in 0 .. MaxFailures
  /\ overlooked \subseteq Services
  /\ \A file \in examined : file.text \in WireGuardFiles

WorkOK ==
  /\ options \in CommandLines
  /\ HasFields(work, {"hosts", "effective", "wg", "proxy", "override"})
  /\ \A file \in {"hosts", "effective", "wg", "proxy", "override"} : AtMostOne(work[file])
  /\ \A toml \in work.effective : IsToml(toml)

TodoOK ==
  \/ todo = << >>
  \/ job \in {"stop", "rollback stop"} /\ todo \in StopTodos
  \/ job = "rollback services" /\ todo \in ServiceTodos

NotesOK ==
  /\ previous \in [enabled : SUBSET Services, active : SUBSET Services]
  /\ filesMutated \in BOOLEAN
  /\ IsFiles(before.disk) /\ before.enabled \subseteq Services
  /\ before.run \in [Services -> {"stopped", "active"}]
  /\ before.image \in [Services -> SUBSET {"old"}]

\* Every variable has its type: the script is at a step it has and at a unit of its
\* loop, no file is there twice, and what it reports at the end is what
\* rollback_failed says (rollback_install).
TypeOK ==
  /\ ControlOK /\ WorkOK /\ TodoOK /\ NotesOK
  /\ IsFiles(disk) /\ IsFiles(backup)
  /\ job = "rolled back" => rollbackFailed = 0
  /\ job = "incomplete" => rollbackFailed > 0

\* The validator accepts a WireGuard file exactly when, taken as a whole, it is
\* one Interface with one private key, an address and Table = off, followed by
\* complete peers of which one carries a default route, with no hook, no second
\* value for a key and no line of another kind (validate_wireguard_config, which
\* forgets a peer when the next one begins).
AcceptsStrictTunnels ==
  \A file \in examined : file.accepted <=> StrictFullTunnel(file.text)

\* The services: each stopped or not as before, and running the release it ran.
ServicesAsBefore ==
  \A s \in Services : /\ run[s] = "stopped" <=> before.run[s] = "stopped"
                      /\ Up(s) => image[s] = before.disk.program

\* A script that refused its input, or whose rollback reported itself complete,
\* leaves the files and the enabled units as they were; and the services too, if
\* none of them was waiting for its automatic restart when the script asked
\* is-active (rollback_install, from any command of install_release and
\* activate_and_healthcheck).  Of the other case: RollbackRestoresServices.
RollbackRestores ==
  job \in {"refused", "rolled back"} =>
    /\ disk = before.disk
    /\ enabled = before.enabled
    /\ overlooked = {} => ServicesAsBefore

\* README.md, "Verified installation": "Before replacing product files the installer
\* records service enable/running state [...]. Any later failure restores those
\* paths and service states".  It does not: a unit that waits for its automatic
\* restart is recorded as not running (capture_service_state).
RollbackRestoresServices == job = "rolled back" => ServicesAsBefore

\* Whatever fails, the rollback included, every part of the earlier installation
\* is whole on the disk or in the backup; of an uninstalled one, its
\* configuration and its blocklist are (FILES_MUTATED is set after the copies).
OldReleaseSurvives ==
  \A t \in IF options.uninstall THEN {"etc", "data"} ELSE Targets :
    before.disk[t] \in {disk[t], backup[t], Bare[t]}

\* After a commit the three units are enabled, and every service that runs runs
\* the new release and nothing of the old one, unless one of them was waiting to
\* be restarted when the script went to stop it (the order stop, copy, start).
CommittedRunsRelease ==
  job = "committed" =>
    /\ disk.program = {"new"}
    /\ enabled = Services
    /\ overlooked = {} => \A s \in Services : Up(s) => image[s] = {"new"}

\* What netd asks of its secrets when it enters a mode.
CanEnter(mode) ==
  /\ mode = "wireguard" => disk.etc.wg = {"strict"}
  /\ mode = "proxy" => \E url \in disk.etc.proxy :
                         /\ ValidateProxyUrl(url, TRUE)
                         /\ url.endpoint = The(disk.etc.toml).endpoint

\* A committed configuration names a mode that netd can enter with the secrets
\* that are installed, wherever those came from, and its session settings are
\* those of the repository over the release's, or with --repair the installed
\* ones (the detour of config_source through effective-config.toml).
CommittedConfiguration ==
  job = "committed" =>
    LET toml == The(disk.etc.toml)
        repaired == options.repair /\ before.disk.etc.toml # {}
        base == IF repaired THEN The(before.disk.etc.toml) ELSE ReleaseToml
    IN  /\ toml.mode = options.network
        /\ CanEnter(toml.mode)
        /\ \/ toml.url = base.url /\ toml.burn = base.burn
           \/ /\ ~ repaired
              /\ \E repository \in Repositories : \E doc \in repository.config :
                   /\ ParseRemoteConfig(doc)
                   /\ toml.url = Apply(base, doc).url
                   /\ toml.burn = Apply(base, doc).burn

\* The blocklist a release starts with blocks every host named in a custom file
\* that passed the strict check, in any spelling, with all that lies below it,
\* and nothing that is not within a listed name (validate_hosts_file against
\* compile_hosts, merge_hosts_with_base and contains).
BlocksWhatIsListed ==
  job \in {"enable", "health", "committed"} =>
    LET set == The(disk.data)
        names == BaseDomains \cup Candidates(The(disk.etc.hosts))
        below == {<< "net" >> \o name : name \in names}
    IN  /\ work.hosts # {} => \A name \in names \cup below : Contains(set, name)
        /\ \A host \in names \cup below \cup {Tail(name) : name \in names} :
             Contains(set, host) => \E name \in names :
               IsWithin(NormalizeHost(host), NormalizeHost(name))
=============================================================================
