# XanhTab in TLA+

A verification project for XanhTab, the remote-browser appliance of this
repository: TLA+ modules of its services, TLC configurations that check them on
small instances, and TLAPS proofs of the results that matter most for every
value of the constants. Paths are relative to the repository.

## The system

A Raspberry Pi runs one disposable browser that one paired client controls from
the web. Three services share it:

```
 web client --HTTPS/WS--> xanhtabd --unix socket--> xanhtab-browser --child--> GStreamer/WPE
                             |
                             +------unix socket--> xanhtab-netd ----> nft, ip, wg-quick
```

| component | state | operations | hard behaviour | what makes it correct |
|---|---|---|---|---|
| Authentication manager `src/auth.rs` | generation, two pairing hashes, sessions, tickets, failures, lockout; the pairing file | exchange, authenticate, validate, issue and consume tickets, revoke, rotate, publish, invalidate | requests interleave with the three steps of a rotation; expiry; failing CSPRNG and file | one controller per pairing; old credentials never count for a new one; an open pairing can be read; tickets work once; guesses are bounded |
| Session lifecycle `src/session.rs`, `src/lib.rs`, watchdog of `src/main.rs` | snapshot, controller, history, idle time; the lifecycle mutex | start, navigate, switch egress with rollback, burn, auto-burn, recovery, settings | six awaited helper calls under one mutex, each fallible; handlers dropped at any await; settings outside the mutex; daemon restart | active is what it shows; idle is clean; the lease follows the authorization; nothing of one client is shown to the next; the appliance always comes back |
| Network helper `src/bin/xanhtab-netd.rs`, `src/netd.rs` | committed mode, nftables table, WireGuard interface, routes, rules | apply, reset, status; start and stop of the unit | a deadline that drops a transition between commands; failing commands; a daemon that dies | fail closed; the reported mode is the enforced one |
| Browser helper `src/bin/xanhtab-browser.rs` | Pipeline: child, session id, profile, egress, navigation history | start, navigate, stop | one command at a time; a timeout resets the Pipeline | the child that runs is the one last asked for |
| Helper clients `src/browser.rs`, `src/netd.rs` | none | request with a finite deadline | the caller gives up, the helper does not | an error says nothing about the effect |
| HTTP and WebSocket surface `src/api.rs` | cookies, sockets | one handler per route; event and signaling sockets | checks and effects under different locks; sockets that outlive a session | a socket shows its own session only and ends with it |
| Event bus `src/events.rs` | broadcast ring of 128 | publish, subscribe | slow subscribers lose events | terminal events are not missed silently |
| Blocklist `src/blocklist.rs`, its compiler | an FST of hostnames, a counter | contains, compile, merge, validate | suffix match, normalisation, merge order | a host and its subdomains match, nothing else does |
| Egress secrets `src/egress.rs` | none | validate proxy URL, WireGuard file | a line automaton with many error paths | accepted files set nothing but keys, addresses and peers |
| Configuration `src/config.rs`, `src/remote_config.rs` | none | load, validate, merge | many bounds | rejected before anything starts |
| Metrics `src/metrics.rs` | previous CPU sample, counters | sample | none | none that a model would add to |
| Supervision `systemd/` | unit states | start, stop, restart, BindsTo, ExecStopPost | partial restarts | no browser survives netd |
| Installer `install.sh` | captured unit states, backup, commit flags | install, repair, uninstall, roll back | failure at any command, also of the rollback | either the new release is healthy or the old one is back |
| Web client `web/app.js` | csrf, session, socket, timers | pair, start, burn, switch, poll, reconnect | late answers and stale sockets | acts for the current session only |

Components meet in six places. A handler holds an `AuthContext` from
authentication to use, while a burn may rotate the generation. A handler holds
the lifecycle mutex over several helper calls, while settings, pairing and
expiry go on. A caller gives up on a helper call that may still work. A socket is
admitted check by check and then lives outside every lock. The page acts on
answers to what it asked before the session changed. And the units die and
restart one by one, each leaving what the others keep, also while the installer
replaces their programs.

## Modules

| module | models | role |
|---|---|---|
| `AuthLease` | nothing by itself | abstract specification: in each epoch the appliance is offered, owned by one client, or orphaned |
| `Auth` | `src/auth.rs`, `rotate_pairing_material` of `src/lib.rs` | one action per critical section of the `AuthState` lock; implements `AuthLease` |
| `AuthProofs` | | proofs about `Auth` |
| `SessionPhases` | the phases of `src/model.rs` and who may take them | abstract specification: which phases a session goes through, whose it is, and how it ends with the lease; takes its lease steps from `AuthLease` |
| `Session` | `src/session.rs`, `src/lib.rs`, watchdog of `src/main.rs` | one action per awaited step of the mutex holder; sees authentication through the actions of `AuthLease`; implements `SessionPhases` |
| `SessionProofs` | | proofs about `Session` |
| `Events` | `src/events.rs`, the sockets of `src/api.rs`, the publications of `src/session.rs` | extends `SessionPhases` with the ring and the tasks of the sockets |
| `EventsProofs` | | proofs about `Events` |
| `Browsing` (`MCBrowsing`) | navigation in `src/session.rs`, `src/browser.rs`, `src/bin/xanhtab-browser.rs` | the queue between the daemon and the browser helper, with calls that are given up on and served later |
| `BrowsingProofs` | | proofs about `Browsing` |
| `Netd` | `src/bin/xanhtab-netd.rs`, plans of `src/netd.rs` | one step per command netd spawns |
| `NetdProofs` | | proofs about `Netd` |
| `WireGuardConfig` | `validate_wireguard_config` of `src/egress.rs` | operators: the line automaton, and the strict tunnel it is compared with |
| `Blocklist` | `src/blocklist.rs` | operators: the strict and the lenient reading of hosts files, merge, lookup |
| `Installer` (`MCInstaller`) | `install.sh`, the validators it calls, `systemd/*.service` around it | one action per command or group of commands that can fail; uses the two modules above |
| `InstallerProofs` | | proofs about `Installer` |
| `ReadingProofs` | | proofs about `WireGuardConfig` and `Blocklist`, where `Installer` uses them |
| `WebClient` | `web/app.js`, and of the daemon what its answers show | one action per event of the page; a handler is an operator on the state of the page |
| `WebClientProofs` | | proofs about `WebClient` |

The `Faulty...` operators, and those commented as faults to compare with, are
plausible bugs in the operator that follows each. No action uses them:
substituted for it, they show that a property can fail.

### Auth

`generation`, `pairing_hash`, `manual_pairing_hash`, `sessions`, `tickets`,
`failed_pairings` and `locked` are the fields of `AuthState`; `pairing_file` is
the root-only handoff file and `rotation` says which of the three steps of a
burn comes next. `contexts` are the `AuthContext` values that requests hold
between awaits: they are only used (`Authorised`) after the code has validated
them again. A secret is named by the generation that made it, so a hash
comparison is equality of generations and a guess matches nothing; the clients
know no secret that has not been in the file. A deadline is a count of ticks
left. `Prune` stands for every call whose only effect is `prune_expired`.
`claimant`, `guesses` (the wrong guesses judged, each with its age in ticks) and
`spent` are history variables.

`exchange_pairing` clears the hashes before it draws the session token, hence
three outcomes: rejected, granted, squandered.

### Session

The holder of the lifecycle mutex is `job`: its task, the helper call it awaits
(`step`), the client it works for and the mode and id it will install. `Advance`,
`Started`, `Switched`, `Burnt` and so on are what the code does when the call
returns. `Perform(ok)` is one call: when it reports success it took effect, when
it reports an error (refused, failed, timed out) it may have. Both helpers take
commands in order, so a call that was given up on works before the next one to
that helper is answered, or never; the model lets it work at once, which no
property tells apart. `Cancel` is a handler dropped at an await, with the mutex;
the watchdog's jobs, for `NoClient`, are not dropped. `Restart` is xanhtabd
alone: the helpers keep browser, policy and directory. `asked` are settings
requests that passed `require_session_id` and have not reached the session.
`browser` is the Pipeline of the browser helper; `Load` includes the reset of the
Pipeline after a timeout, whose next navigation opens a default browser. `unsure`
and `left` are history variables about the browser: that a stop or start of it has
failed, or a navigation has run out of time, since a stop or start last worked, and
that the one that runs was left by a restart of xanhtabd.

A client is named by its epoch and stands for its URLs and data: `history` and
`snapshot.url` say whose visits are shown, `runtime` whose files remain. The
blocklist verdict, the stream profile, timestamps and failure texts are left
out: they gate no transition that a property speaks of.

### Netd

`policy` is the nftables table (`"none"` when it does not exist), `tunnel` the
set of link, routes and rules of the WireGuard setup, `active_mode` the mode that
`status` reports. `job` is the holder of the state mutex or the unit itself:
`init`, `cleanup` (ExecStopPost) and `down`. `transition` is `kill`, five
`teardown` commands, `verify`, `prepare`, six `setup` commands for WireGuard, and
`commit`; an error from there on leads to `undo`. An nft transaction is atomic.
A command fails without effect; the deadline and a death cut one off before or
after its effect. `Receive` and `Serve` let handlers that the daemon no longer
waits for pile up and be served in any order.

`Session` implements `SessionPhases` (`ImplementsPhases`): helper calls, the
mutex and settings are stutters there. What the refinement adds to the invariants
is the order of things: no phase is skipped, a session keeps its id and its
controller until it is burnt, and the appliance is offered again only when nobody
holds the controller lease any more.

### Events

The lifecycle is that of `SessionPhases`, whose steps `Events` composes with
publications: a transition sets its phase (`Announce`), publishes it when it has
read the snapshot again (`PublishPhase`), and publishes its verdict before it
releases the mutex (`Finish`). `Set` and `PublishLate` are a setting, whose event
is published after the session lock was released. A receiver of the broadcast
channel is a queue that loses its oldest entry when the ring is full;
`RecvError::Lagged` only makes the loop of the socket go round again.

A socket is a task: `greeting` (upgraded, no frame yet), `claimed` (ticket
consumed), `checked` (session id compared), `admitted` (controller lease
compared), `subscribed`, `open`. Each arrow is an action, and everything else may
happen in between. `seen` is what the client was shown last, `upstream` the
browser a signaling socket dialed. `timely` is a history variable: the event
sockets that subscribed while their client held the session, before its end was
published, and that have not lagged since. A signaling socket hears of no burn: it
ends with the browser it dialed (`RelayEnds`).

### Browsing

A request to the browser helper is a connection in the queue of its listener.
The helper serves one at a time; the daemon stops waiting at its own deadline or
when the handler is dropped, and the request stays queued, or was never written.
`pipe` is the `Pipeline`: the page of the child, its history and the position in
it; `visits` is the RAM history of the daemon and `url` its snapshot. The helper's
own deadline resets the Pipeline to the default. What a call asks of the network
helper between two browser calls fails at will; that is the subject of `Session`.
`moved` notes that page and snapshot may differ with reason (the client asked to go
elsewhere, or a command failed or was dropped), `crashed` that a restart of the daemon has left the
helper as it was.

### Installer, WireGuardConfig, Blocklist

`job` is the command of `install.sh` at work, `todo` what is left of a loop over
the units. `disk`, `backup`, `enabled` and `run` are the machine; `image` says
which release a running unit was started from. Every command may fail
(`CommandFails`), at any point of a loop, and leads to the EXIT trap: `refused`
before the mutation, `rollback stop` after it. The commands of the rollback fail
too; `rollbackFailed` counts them as `rollback_failed` notes them, and `Outcome` is
what the script reports in the end. `overlooked` is a history variable: the units
that waited for their restart when the script asked `systemctl is-active`. `Crash` and
`Restart` are systemd: a unit that waits for its automatic restart is not active
for `systemctl is-active`, so the script overlooks it and it comes back, whatever
was copied meanwhile. A unit file counts among the programs.

`WireGuardConfig` reads a file as a sequence of kinds of line: a private key, a
second section, a hook, a line whose value does not parse. `Validate` is the
automaton with its flags, `StrictFullTunnel` says of the file as a whole what it
has to be. `Blocklist` has the two readings of hosts files, strict for what an
administrator gives (`StrictlyValid`) and lenient for what is compiled
(`CompileHosts`), the merge with the base list and the lookup by parent domains
(`Contains`). Both are used where `install.sh` calls the validators of the staged
release, on files that it installs.

### WebClient

`page` is `state` of `app.js` with its unanswered requests and the socket that
`state.socket` names. Handlers of a page run to their next await without
interruption, so each action applies the handler's functions, which are operators
of the same names from page to page, and adds the request it awaits. A request is
`sent`, perhaps `serving`, and then answered with `ok`, `auth` (a 401 that
`isAuthError` recognises) or `error`; the answer waits as long as the network
likes. `RequestFails` loses a request or its answer. `daemon` keeps the
credentials, the session and the transition under the mutex, with the phases as
in `SessionPhases`. Metric polling is the flag `polling` and its 401
(`MetricsRefused`). The daemon publishes into the ring of the socket and the page
takes from it; a message for which `Closes` holds is the last one the daemon sends,
if it comes to send it: a full ring may lose it like any other. `orphans`, `newest`,
`wentBack` and `gaveUp` are history variables: a WebSocket that lost its name while
open, the newest session shown, that an older one was shown after it, and that the
synchronisation after the last pairing was given up.

## Runs

| run | instance | shows |
|---|---|---|
| `auth` (`MCAuth.cfg`) | 3 generations, 2 clients, 2 tickets, 2 contexts, lockout of 3 ticks after 3 failures; 62,718 states | `TypeOK`, `SingleController`, `CredentialsBelongToClaimant`, `GuessRateBounded`, `OfferedSecretIsPublished`, `NoTicketReplay`, and the refinement `ImplementsLease` |
| `session` (`MCSession.cfg`) | 2 modes, 2 epochs, 3 session ids, 1 settings request in flight; 499,889 states | `TypeOK`, `ActiveIsConsistent`, `IdleIsClean`, `LeaseHolder`, `OwnHistory`, `RoutedAsStarted`, the refinement `ImplementsPhases`, and under `FairSpec` `OfferedAgain`, `AbandonedSessionEnds`, `QuietSessionEnds` |
| `session_blocklist` | 2 epochs, 3 ids, 1 settings request | violated: `DisabledForThisSession` |
| `session_failed_start` | as above | violated: `FailedStartStopsBrowser` |
| `events` (`MCEvents.cfg`) | 2 clients, 2 epochs, 3 ids, 1 socket, a ring of 2; 1,325,460 states | `TypeOK`, `DrainedIsCurrent`, `TimelySocketsEnd` |
| `events_burn_closes` | as above | violated: `BurnClosesDelivery` |
| `browsing` (`MCBrowsing.cfg`) | 2 addresses, 3 connections, 2 pages of history, a RAM history of 2; 834,102 states | `TypeOK`, `IdleIsStopped`, `PageIsShown`, `CursorOnPage`, `HistoryEndsHere` |
| `installer` (`MCInstaller.cfg`) | 4 machines, 9 command lines, 4 repositories, 1 crash, 1 failing command of the rollback; 694,151 states | `TypeOK`, `AcceptsStrictTunnels`, `RollbackRestores`, `OldReleaseSurvives`, `CommittedRunsRelease`, `CommittedConfiguration`, `BlocksWhatIsListed` |
| `installer_rollback` | as above | violated: `RollbackRestoresServices` |
| `web_client` (`MCWebClient.cfg`) | 2 pairings, 2 session ids, 3 incidents; 1,879,835 states | `SocketsAreOurs`, `ActiveIsConnected`, `PairedPolls` |
| `netd` (`MCNetd.cfg`) | direct, a proxy mode, WireGuard, every command fallible; 7,417 states | `TypeOK`, `CommittedModeIsEnforced`, `HeldDuringTransition`, `FailClosed`, `Answered` |
| `netd_restore` | no command fails | violated: `FailureRestoresDrop` |

Deadlock is checked except in `events`, `events_burn_closes` and `web_client`,
where the bounds on epochs, ids and incidents stop a model whose program would go
on.

**Bounds.** `MaxGeneration = 3` lets a credential be two burns old when it is
used; two clients are the owner and its successor, and more add only copies,
since a client exists per exchange. Two ticks of lifetime let cookie and ticket
expire in either order. In `Session` two epochs give a client and its
successor, and each safety property is also proved for any number of them; three ids
cover a start, a switch and its rollback, or two starts with a failed burn between
them. `Mode` has the default and one other; `InitialMode` is the other
one, so that a reset (always to Direct) and the initial snapshot differ, as they
may in the code. In `Netd` one proxy mode stands for three: their policies differ
in an endpoint. In `Events` one socket suffices, because sockets share only the
one-time tickets, which `auth` checks; a ring of two is full when a socket is two
events behind. In `Browsing` three connections are two calls given up on and the
one awaited, two pages the least history in which Back, Forward and a new address
after Back differ, and a RAM history of two drops its oldest entry. In `Installer`
the machines are a bare one, a complete one with and without its services running,
and one that was left with netd alone; the WireGuard files are a good one with two
peers and everything one line away from it: one left out, one put in, one replaced.
One crash is a unit that waits for its restart, which takes the units bound to it
along. In `WebClient` the second pairing and the second session id are what a late
answer of the first can hit, and incidents count what the user does beyond
pairing, what the daemon revokes and what the network loses. `Mode`, `InitialMode`,
`Fallible`, `Capacity`, `Ring`, `RingSize` and the data of `MCInstaller` are the
parameters that shape behaviour; the `Max...` constants only stop the exploration.

**Fairness.** `Session`: weak fairness of `JobStep`, because every helper call
ends at the finite deadline of its client; strong fairness of `Recover` and
`AutoBurn`, because the watchdog runs forever and the tokio mutex is FIFO, so a
waiter gets it however often others hold it in between; strong fairness of a
successful rotation, because a CSPRNG or a tmpfs that fails now and again does
not fail for ever. No fairness for requests, clients, expiry or helpers'
success. No other module but `Netd` states fairness: its properties would need
networks and users that keep answering. `Netd`: weak fairness of `Step` (a command returns, or its handler's
deadline drops it) and strong fairness of `Serve` (the same mutex).

## What the violation runs show

- `DisabledForThisSession`: README.md says that turning the browser policy off
  "applies only to that active session". The handler checks the session id and
  then sets the flag without the lifecycle mutex; between the two the session
  may fail and its client may start another.
- `FailedStartStopsBrowser`: docs/protocol-v1.md says that a failed start
  "queues browser stop, egress reset, and tmpfs cleanup". When `egress.apply`
  fails the browser is not stopped; after a restart of xanhtabd alone an old one
  may be running.
- `FailureRestoresDrop`: docs/protocol-v1.md says that a failed transition
  "restores the UID drop". The helper deadline drops the transition without its
  undo, and it may do so just after the allow policy was committed.
- `BurnClosesDelivery`: docs/protocol-v1.md says that a burn "closes event
  delivery". A socket closes when it receives the burning event itself: one that
  subscribes after it, or lagged behind it, stays open and delivers the session
  of the next client; a relay dialed after it relays to it. `TimelySocketsEnd` is what
  does hold.
- `RollbackRestoresServices`: README.md says that the installer records the state of
  the services and that "any later failure restores those paths and service states".
  It records what `systemctl is-active` answers, and a unit that waits for its
  automatic restart is not active: the rollback leaves it stopped and reports itself
  complete. `RollbackRestores` is what does hold. `CommittedRunsRelease` has the same
  exemption, `overlooked`: such a unit is not stopped, and netd may come back with the
  old program in the middle of the copies and stay after the commit, since
  `enable --now` starts nothing that runs.

Three things the modelling showed, which no document contradicts:

- `RoutedAsStarted` exempts a browser that a restart of xanhtabd left, although no
  call failed: start under one mode, let xanhtabd alone restart, pair and start under
  another. `egress.apply` (src/session.rs:138) installs the new policy while the old
  browser runs, which is rerouted until `spawn` replaces it. Without the exemption the
  property fails.
- `SocketsAreOurs` exempts a page to which a snapshot answered late has shown an
  older session: on the way back to the newer one a WebSocket may stay open
  without a name. Its listeners ignore what it receives.
- A late 401 for a ticket of the former pairing, while the page still shows the
  former session, locks a page that has just paired again, whose one-time secret
  is spent. The page does not recover before the cookie expires or the session is
  burnt.

## What is proved

`AuthProofs` proves, for every value of the constants allowed by
`AuthAssumption` (positive limits and lifetimes):

- `TypeCorrect`, `PairingIsExclusive`, `NoForeignCredential`,
  `OpenPairingIsReadable`, `TicketsAreOneTime`: the invariants of the run.
- `GuessesAreBounded`: the rate limit, as a bound on any window of a lockout.
- `AuthImplementsLease`: every behaviour of `Auth` is one of `AuthLease`.

They follow from one inductive invariant `IInv` (`Invariance`). `SecretsAgree`:
the hashes agree, name the current generation or nothing, and the file shows
them unless a rotation is unpublished. `ClaimInv`: an open pairing has no
claimant, there is at most one session, sessions and tickets are the claimant's
and of this generation, contexts are the claimant's or of an older generation.
`SerialInv`: ticket serials are unique and below the counter. None of the stated
invariants is inductive alone: that an old context is harmless after a burn
needs that contexts never run ahead of `generation`; that a granted exchange
makes the only session needs that an open pairing excludes sessions. `GuessInv`
is what bounds the guesses: since the counter was last reset it has counted every
guess that is still remembered, and a lockout lasts longer than any guess that led
to it, so the counter starts again only when all of them are forgotten. For the
refinement, `MappedState` shows what the mapped stage and owner are in an `IInv`
state, and `LeaseStep` takes each action to a lease step or a stutter.

`SessionProofs` proves from `SessionAssumption`, for any set of modes and any bound on
epochs, ids and settings, `TypeCorrect`, `ActiveSessionIsConsistent`,
`IdleSessionIsClean`, `LeaseIsHeld`, `HistoryIsOwn`, `BrowserIsRouted` and
`SessionImplementsPhases`. `SessionInv` has four parts. `LeaseInv` relates the
controller to the owner of the lease. `PhaseInv` says what each phase tells, and
that nobody but the burn of the watchdog works on a session without a controller.
`JobInv` is the use of the mutex: what a job remembered when it took it (client, id,
mode, history) is still so after every await. `HelperInv` is what browser and netd
do as far as the calls that were answered tell: after `stop` reported success the
browser is down, after `reset` the policy is Direct, and nothing of the kind after an
error. `CallOutcomes` says once what a call may have done, and every action that
looks at an answer cites it. Neither the idle nor the active state could be shown
clean without the order of steps in `HelperInv`. For the refinement, `PhasesStep`
takes each step to a step of `SessionPhases` or a stutter.

`BrowsingProofs` proves from `BrowsingAssumption`, for any queue, ring and history,
`TypeCorrect`, `BurnIsFinal` (`IdleIsStopped`), `SnapshotShowsPage` (`PageIsShown`),
`CursorStaysInside` (`CursorOnPage`) and `HistoryIsCurrent` (`HistoryEndsHere`).
`QueueInv` is the heart: the request the daemon awaits is the last in the queue, so
when the answer is there everything that was given up on has been served. `CallInv`
says what each call may find, `PipeInv` that the cursor is on the page and that an
answer describes it, `ShownInv` what the snapshot owes to that answer, and `Settled`, a part
of it, that a client which only reloads and stops stays where the snapshot says.

`NetdProofs` proves from `NetdAssumption`, for any set of modes and any set of
fallible steps, `TypeCorrect`, `CommitIsHonest`, `HeldThroughout` and
`TransitionsFailClosed`. The invariant `NetdInv` adds to the checked properties
that no mode is committed while a job works (`UncommittedAtWork`), and that from
`prepare` on the tunnel is empty of everything that diverts traffic, and during
`setup` holds exactly the parts set up so far (`Prepared`): without it a
committed WireGuard mode could not be shown to have a complete tunnel.

`EventsProofs` proves from `EventsAssumption`, for any set of sockets, any capacity
of the ring and any number of clients and ids, `TypeCorrect`, `SocketsCatchUp`
(`DrainedIsCurrent`) and `BurnReachesSockets` (`TimelySocketsEnd`). Neither
property is inductive. `Drained` says that a queue ends with the last event
published, so that a socket whose queue runs empty has shown that event;
`Published` that a last event which tells of the burning of the present session
finds it burning, and that no event is ahead of the ids handed out, so that no step
of the lifecycle makes an old event look like the present. `Timely` says why a
socket that joined in time is safe: its client still holds the session and nothing
has been said of its end (`InTime`), or the end is in its queue (`EndWaits`). `Holders` makes the first enough: whoever controls the session does so
since the present epoch, so no event and no stream can be of a later client's. The steps go by three lemmas: one for what is published
(`PublishKeeps`, on what a full ring keeps, `RingKeeps`), one for steps nobody
hears of (`QuietKeeps`), one for a step of one socket (`SocketKeeps`).

`InstallerProofs` proves from `InstallerAssumption` (command lines as the parser leaves
them, a TOML file has its fields, an old machine has files of its kind, at most one of
each, of the old release, and active units whose bound units are active), for any such
machines, repositories and numbers of crashes and failures, `TypeCorrect`,
`RollbackIsComplete` (`RollbackRestores`), `OldReleaseIsSafe` (`OldReleaseSurvives`),
`CommitRunsRelease` (`CommittedRunsRelease`) and `CommitIsConfigured`
(`CommittedConfiguration`). `InstallerInv` has `MachineInv` (a unit bound to a stopped
one is stopped), `FilesInv` (the old installation is the disk until the first file
is replaced, and the backup from then on), `ServicesInv` (which units run in which
step of the installation, and from which program), `RollbackInv` (what each step of
the rollback has undone, as long as none of its commands failed), `WorkInv` and
`ConfigInv` (what was checked of the staged files is what is installed). There is one
`...Keeps` lemma per action. `TypeCorrect` needs `DataInv` beside it: what the
script remembers of the machine, and that the files it holds anywhere are files, at
most one of a name. The assumption says the same of repositories and command lines.

`WebClientProofs` proves from `WebClientAssumption`, for any number of pairings, sessions
and incidents and any ring, `ChannelIsOurs` (`SocketsAreOurs`), `StaysConnected`
(`ActiveIsConnected`) and `StaysPolling` (`PairedPolls`). They are about the page
whatever it is answered, so `ClientInv` is an invariant of page states, `PageInv`,
and the proof has a lemma per function of `app.js`. `Channel`: socket and timer are
the shown session's. `Tickets`: a ticket is asked for by one call at a time, for the
newest session, as long as no late answer has shown an older one. `Noted`: the id
the page notes as connecting has its request under way. `Connected` and `Polled`:
what is missing is on its way, because a synchronisation is. No property is
inductive: that a second socket is not opened while the first has no name yet is
`Tickets` and `Noted` together, and `Pending` is what holds between a ticket and the
socket opened with it.

`ReadingProofs` proves, on top of `InstallerInv` and from `FilesAssumption` (WireGuard
files are sequences of lines, no name in a hosts file is empty, the packaged blocklist
is compiled), what no bounded input can show: `StrictTunnelsOnly`
(`AcceptsStrictTunnels`) for WireGuard files of every length, and `BlocklistIsExact`
(`BlocksWhatIsListed`) for names and hosts files of every length. `Knows` is the loop
invariant of `Validate`: of the first k lines, none of them refused, the flags say
which lines the open section and the Interface have had, all peers before the open one
are complete, and no key was given twice in a section. `KnowsMore` is the step;
`StrictIsTaken` the converse, that no line of a strict tunnel is refused;
`StrictMeans` reads the cardinalities of the reference. The induction theorems of the
library take an operator, which the provers cannot be given; a set they can, so every
induction here is by a least counterexample (`Least`), also for the existence of the
recursive function (`ReadingExists`). `NormalizesTo` and `CutIsUnique` say what
`NormalizeHost` returns, and `ReadInv` what the script did with what was read. `ReadInv`
and the other invariants were checked with TLC before they were proved.

Only model-checked: the liveness properties, whose fairness is out of the prover's
reach, and the violation runs.

## Plan

Every invariant, action property and refinement that a passing run checks is a
theorem. What is left, in this order:

1. `Session` and `Netd` together: netd as `Session` sees it is one variable that a
   call may have set although it reports an error; that `Netd` implements this view, as
   a refinement that TLC checks first, and the steps of the proof.
2. `WebClient`: what the page still promises after `wentBack`, which exempts it for
   good, and until the pairing after `gaveUp`.

## Not modelled

- Device metrics: read /proc and /sys, and keep nothing that the rest depends on.
- `Config::validate`, the bookmarks and the blocklist metadata: pure checks of
  static input at start, without a state or an order.
- The signaling protocol and the media pipeline behind `relay_signaling`: not code
  of this repository.
- Release, audit and hardware scripts: sequential, run by hand or in CI, outside
  the appliance.
- Of the installer: preflight, download and signature of a release, and
  `--dry-run`, which end before anything changes; TLS material and the STUN and
  TURN secrets, which are copied like the files that are modelled. `--repair` sets
  `initial_mode` to what `--network` says, by default direct; the model has that,
  and `CommittedConfiguration` is stated with it.
- Of the web client: what is displayed, metric values and their abort sequence, and
  a second page with the same cookie.
- In all modules TLS, origin checks, hashing, encodings and the syntax of values are
  abstracted: they decide which requests or files are authentic or well formed, not
  in which order things happen.
