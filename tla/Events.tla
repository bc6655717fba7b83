------------------------------- MODULE Events -------------------------------
(***************************************************************************)
(* The event bus (src/events.rs) and the WebSockets of xanhtabd            *)
(* (src/api.rs): the event socket, which subscribes to the bus, and        *)
(* the signaling socket, which relays to the server inside the browser.    *)
(* Both are admitted with a one-time ticket, one check at a time, and then *)
(* live outside every lock, while the session moves through the phases of  *)
(* SessionPhases and publishes what it does.                               *)
(*                                                                         *)
(* A broadcast channel keeps the last Capacity events for every receiver:  *)
(* a queue per socket that drops its oldest event.  RecvError::Lagged only *)
(* makes the loop go round again.                                          *)
(***************************************************************************)
EXTENDS SessionPhases, Sequences

CONSTANTS
  Socket,    \* WebSocket connections
  Capacity,  \* EventBus::new(128)
  MaxEpoch,  \* bound: pairing epochs explored
  MaxId      \* bound: session ids minted

ASSUME EventsAssumption ==
  /\ Client = 1 .. MaxEpoch /\ NoClient = 0 /\ NoId = 0
  /\ Capacity \in Nat \ {0} /\ MaxEpoch \in Nat \ {0} /\ MaxId \in Nat

VARIABLES
  tickets,    \* AuthState.tickets: who may open what
  work,       \* the holder of the lifecycle mutex, and where it awaits
  late,       \* snapshots that settings took and have not published yet
  stream,     \* the session whose browser runs the signaling server, and for whom
  sockets,    \* the task of each connection
  last,       \* history: the last event published
  timely      \* history: event sockets that joined in their session and missed nothing

busVars == <<work, late, last>>
socketVars == <<tickets, sockets, timely>>
vars == <<phasesVars, busVars, stream, socketVars>>

Purpose == {"events", "signaling"}
NoWork == [task |-> "none", at |-> "none"]
NoStream == [id |-> NoId, holder |-> NoClient]
Closed == [at |-> "closed", purpose |-> "events", client |-> NoClient, id |-> NoId,
           queue |-> <<>>, seen |-> <<>>, upstream |-> NoStream]

\* A snapshot as an event carries it; whose session it is, is not sent.
Now == [phase |-> phase, id |-> id, holder |-> controller]

TypeOK ==
  /\ tickets \subseteq Client \X Purpose
  /\ work \in [task : {"none", "start", "switch", "burn", "watchdog"},
               at : {"none", "announce", "call"}]
  /\ stream \in [id : Nat, holder : Nat]
  /\ DOMAIN sockets = Socket /\ timely \subseteq Socket
  /\ \A s \in Socket :
       /\ sockets[s].at \in {"closed", "greeting", "claimed", "checked", "admitted",
                             "subscribed", "open"}
       /\ Len(sockets[s].queue) <= Capacity /\ Len(sockets[s].seen) <= 1
       /\ sockets[s].queue # <<>> => sockets[s].purpose = "events"

Init ==
  /\ PhasesInit
  /\ tickets = {} /\ work = NoWork /\ late = {} /\ stream = NoStream
  /\ sockets = [s \in Socket |-> Closed]
  /\ last = Now /\ timely = {}

(***************************************************************************)
(* The bus.                                                                *)
(***************************************************************************)
\* A receiver exists from subscribe on.
Hears(s) == sockets[s].at \in {"subscribed", "open"}
            /\ sockets[s].purpose = "events"

\* The last n entries of a queue.
LastOf(q, n) == IF Len(q) <= n THEN q ELSE SubSeq(q, Len(q) - n + 1, Len(q))

UnboundedPublish(event) ==
  /\ sockets' = [s \in Socket |-> IF Hears(s)
       THEN [sockets[s] EXCEPT !.queue = Append(@, event)]
       ELSE sockets[s]]
  /\ UNCHANGED timely
  /\ last' = event

FullPublish(event) ==
  /\ sockets' = [s \in Socket |-> IF Hears(s) /\ Len(sockets[s].queue) < Capacity
       THEN [sockets[s] EXCEPT !.queue = Append(@, event)]
       ELSE sockets[s]]
  /\ timely' = {s \in timely : Hears(s) => Len(sockets[s].queue) < Capacity}
  /\ last' = event

\* EventBus::publish to whoever has subscribed; the ring forgets the oldest.
Publish(event) ==
  /\ sockets' = [s \in Socket |-> IF Hears(s)
       THEN [sockets[s] EXCEPT !.queue = LastOf(Append(@, event), Capacity)]
       ELSE sockets[s]]
  /\ timely' = {s \in timely : Hears(s) => Len(sockets[s].queue) < Capacity}
  /\ last' = event

Quiet == UNCHANGED <<sockets, timely, last>>

(***************************************************************************)
(* The lifecycle.                                                          *)
(***************************************************************************)
Rest == UNCHANGED <<tickets, late>>
Idle == work = NoWork
Calling(task) == work = [task |-> task, at |-> "call"]

\* It sets a phase, and publishes when it has read the snapshot again.
Announce(task) ==
  /\ Idle /\ work' = [task |-> task, at |-> "announce"]
  /\ Quiet /\ Rest /\ UNCHANGED stream

StartSession(c) == minted < MaxId /\ Begin(c) /\ Announce("start")

SwitchEgress == minted + 1 < MaxId /\ Switch /\ Announce("switch")

Burn ==
  /\ stage = "owned" /\ owner = controller
  /\ Mark /\ Announce("burn")

\* The inactivity threshold, or an expired controller.
AutoBurn == Mark /\ Announce("watchdog")

\* SessionManager::publish, before the helpers are called
PublishPhase ==
  /\ work.at = "announce" /\ work' = [work EXCEPT !.at = "call"]
  /\ Publish(Now)
  /\ Rest /\ UNCHANGED <<phasesVars, stream>>

\* A request may be dropped at any await, the watchdog may not.
DropWork ==
  /\ work.task \in {"start", "switch", "burn"} /\ work' = NoWork
  /\ Quiet /\ Rest /\ UNCHANGED <<phasesVars, stream>>

\* browser.start, of a session or of a switch
StreamUp ==
  /\ Calling("start") \/ Calling("switch")
  /\ stream' = [id |-> minted, holder |-> controller]
  /\ Quiet /\ Rest /\ UNCHANGED <<phasesVars, work>>

\* The browser is stopped, or dies.
StreamDown ==
  /\ stream # NoStream /\ stream' = NoStream
  /\ Quiet /\ Rest /\ UNCHANGED <<phasesVars, work>>

RetrySwitch ==
  /\ Calling("switch") /\ minted < MaxId /\ Retry
  /\ Quiet /\ Rest /\ UNCHANGED <<work, stream>>

\* The verdict is published before the mutex is released.
Finish ==
  /\ Publish(Now') /\ work' = NoWork
  /\ Rest

Started ==
  /\ \/ Calling("start") /\ Succeed
     \/ Calling("switch") /\ Resume
  /\ stream' \in {[id |-> minted, holder |-> controller], NoStream}
  /\ Finish

Failed ==
  /\ Calling("start") \/ Calling("switch")
  /\ Fail
  /\ Finish /\ UNCHANGED stream

\* An idle verdict means that the browser was stopped.
Burnt(p) ==
  /\ Calling("burn") \/ Calling("watchdog")
  /\ Forget(p)
  /\ stream' = IF p = "idle" THEN NoStream ELSE stream
  /\ Finish

Navigated ==
  /\ Idle /\ phase = "active" /\ UNCHANGED phasesVars
  /\ Publish(Now)
  /\ Rest /\ UNCHANGED <<work, stream>>

\* A setting takes its snapshot under the session lock and publishes without.
Set ==
  /\ phase = "active" /\ late = {}
  /\ late' = {Now}
  /\ Quiet /\ UNCHANGED <<phasesVars, work, tickets, stream>>

PublishLate ==
  \E event \in late :
    /\ Publish(event) /\ late' = {}
    /\ UNCHANGED <<phasesVars, work, tickets, stream>>

(***************************************************************************)
(* Authorization.                                                          *)
(***************************************************************************)
Pair ==
  /\ Claim(epoch)
  /\ Quiet /\ Rest /\ UNCHANGED <<work, stream>>

Expire ==
  /\ Orphan
  /\ Quiet /\ Rest /\ UNCHANGED <<work, stream>>

\* revoke_all and the rotation that follows it
Rotate ==
  /\ epoch < MaxEpoch
  /\ Offer /\ tickets' = {}
  /\ Quiet /\ UNCHANGED <<work, late, stream>>

\* issue_ticket
IssueTicket(c, p) ==
  /\ stage = "owned" /\ owner = c
  /\ controller = c /\ phase = "active"
  /\ tickets' = tickets \cup {<<c, p>>}
  /\ Quiet /\ UNCHANGED <<phasesVars, work, late, stream>>

(***************************************************************************)
(* The sockets.                                                            *)
(***************************************************************************)
Task(s, from, to) ==
  /\ sockets[s].at = from
  /\ sockets' = [sockets EXCEPT ![s].at = to]

SocketRest == UNCHANGED <<phasesVars, busVars, stream>>

\* session_events and session_signal, before the upgrade
Connect(s, c, p) ==
  /\ sockets[s].at = "closed" /\ id # NoId
  /\ sockets' = [sockets EXCEPT ![s] =
       [Closed EXCEPT !.at = "greeting", !.purpose = p, !.client = c, !.id = id]]
  /\ UNCHANGED <<tickets, timely>> /\ SocketRest

\* consume_ticket: one for the wrong purpose is gone as well.
ConsumeTicket(s, p) ==
  LET ticket == <<sockets[s].client, p>> IN
  /\ sockets[s].at = "greeting" /\ ticket \in tickets
  /\ tickets' = tickets \ {ticket}
  /\ sockets' = [sockets EXCEPT ![s] =
       IF p = @.purpose THEN [@ EXCEPT !.at = "claimed"] ELSE Closed]
  /\ UNCHANGED timely /\ SocketRest

\* require_session_id; nothing asks for the id again.
CheckId(s) ==
  /\ sockets[s].at = "claimed" /\ id = sockets[s].id
  /\ sockets' = [sockets EXCEPT ![s].at = "checked", ![s].id = NoId]
  /\ UNCHANGED <<tickets, timely>> /\ SocketRest

\* ensure_controller, and the frame that says authenticated
Admit(s) ==
  /\ controller = sockets[s].client /\ phase = "active"
  /\ Task(s, "checked", "admitted")
  /\ UNCHANGED <<tickets, timely>> /\ SocketRest

\* A check that fails, a frame that does not come in five seconds, or a client
\* that leaves: every socket may close at any time.
HangUp(s) ==
  /\ sockets[s].at # "closed"
  /\ sockets' = [sockets EXCEPT ![s] = Closed]
  /\ timely' = timely \ {s}
  /\ UNCHANGED tickets /\ SocketRest

\* An event socket joins in time when its client still holds the session it was
\* admitted to, and no event that tells of the end is out already.
InTime(s) == controller = sockets[s].client /\ (phase = "burning" => work.at # "call")

Subscribe(s) ==
  /\ sockets[s].purpose = "events" /\ Task(s, "admitted", "subscribed")
  /\ timely' = IF InTime(s) THEN timely \cup {s} ELSE timely
  /\ UNCHANGED tickets /\ SocketRest

\* The snapshot is the first message.
SendSnapshot(s) ==
  /\ sockets[s].at = "subscribed"
  /\ sockets' = [sockets EXCEPT ![s].at = "open", ![s].seen = <<Now>>]
  /\ UNCHANGED <<tickets, timely>> /\ SocketRest

FaultyEnds(event) == event.phase = "idle"

\* close_after_send
Ends(event) == event.phase \in {"burning", "idle"}

Deliver(s) ==
  /\ sockets[s].at = "open" /\ sockets[s].queue # <<>>
  /\ LET event == Head(sockets[s].queue) IN
     IF Ends(event)
     THEN /\ sockets' = [sockets EXCEPT ![s] = Closed]
          /\ timely' = timely \ {s}
     ELSE /\ sockets' = [sockets EXCEPT ![s].seen = <<event>>, ![s].queue = Tail(@)]
          /\ UNCHANGED timely
  /\ UNCHANGED tickets /\ SocketRest

\* connect_async to the signaling server
Dial(s) ==
  /\ sockets[s].at = "admitted" /\ sockets[s].purpose = "signaling" /\ stream # NoStream
  /\ sockets' = [sockets EXCEPT ![s].at = "open", ![s].upstream = stream]
  /\ UNCHANGED <<tickets, timely>> /\ SocketRest

\* relay_signaling ends with the upstream connection.
RelayEnds(s) ==
  /\ sockets[s].at = "open" /\ sockets[s].purpose = "signaling"
  /\ sockets[s].upstream # stream
  /\ sockets' = [sockets EXCEPT ![s] = Closed]
  /\ timely' = timely \ {s}
  /\ UNCHANGED tickets /\ SocketRest

\* The daemon restarts: its sockets and its bus are gone.
Restart ==
  /\ epoch < MaxEpoch
  /\ Reboot
  /\ tickets' = {} /\ work' = NoWork /\ late' = {} /\ last' = Now'
  /\ sockets' = [s \in Socket |-> Closed] /\ timely' = {}
  /\ UNCHANGED stream

Lifecycle ==
  \/ \E c \in Client : StartSession(c)
  \/ SwitchEgress \/ Burn \/ AutoBurn
  \/ PublishPhase \/ DropWork \/ RetrySwitch \/ StreamUp \/ StreamDown
  \/ Started \/ Failed \/ \E p \in {"idle", "failed"} : Burnt(p)
  \/ Navigated \/ Set \/ PublishLate

Authorization ==
  \/ Pair \/ Expire \/ Rotate
  \/ \E c \in Client, p \in Purpose : IssueTicket(c, p)

Serve(s) ==
  \/ \E p \in Purpose : ConsumeTicket(s, p)
  \/ CheckId(s) \/ Admit(s)
  \/ Subscribe(s) \/ SendSnapshot(s) \/ Deliver(s)
  \/ Dial(s) \/ RelayEnds(s)

Next ==
  \/ Lifecycle \/ Authorization \/ Restart
  \/ \E s \in Socket :
       Serve(s) \/ HangUp(s) \/ \E c \in Client, p \in Purpose : Connect(s, c, p)

Spec == Init /\ [][Next]_vars

(***************************************************************************)
(* Properties.                                                             *)
(***************************************************************************)

\* event_socket subscribes before it reads the snapshot, and the ring drops
\* the oldest events only: an open socket with nothing left to read has shown
\* the current session, whenever the last event published did.
DrainedIsCurrent ==
  \A s \in Socket :
    /\ sockets[s].at = "open" /\ sockets[s].purpose = "events"
    /\ sockets[s].queue = <<>> /\ last = Now
    => sockets[s].seen = <<Now>>

\* A socket shows and relays nothing of a session that a later client holds.
Own(s) ==
  /\ \A i \in DOMAIN sockets[s].seen : sockets[s].seen[i].holder <= sockets[s].client
  /\ sockets[s].upstream.holder <= sockets[s].client

\* event_socket, burn_unchecked: an event socket that joined while its client
\* held the session, and has not lagged, shows nothing of a later client's
\* session unless the event that closes it waits in its queue already, whatever
\* is dropped, fails or comes late.
TimelySocketsEnd ==
  \A s \in timely :
    Own(s) \/ \E i \in DOMAIN sockets[s].queue : Ends(sockets[s].queue[i])

\* A burn "closes event delivery" (docs/protocol-v1.md:36): no socket shows
\* its client what happens in a later session, and none relays to it.
BurnClosesDelivery == \A s \in Socket : sockets[s].at = "open" => Own(s)
=============================================================================
