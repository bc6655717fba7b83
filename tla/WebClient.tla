------------------------------ MODULE WebClient ------------------------------
(***************************************************************************)
(* app.js: the page of the controller, one thread whose handlers run to    *)
(* their next await, against the daemon it talks to.  A request may wait   *)
(* as long as the network likes, before or after the daemon has served it, *)
(* and may fail at either end; meanwhile credentials expire, sessions      *)
(* begin, switch and burn, sockets drop and timers fire.  The handlers are *)
(* operators from one state of the page to the next, so that a call in the *)
(* code is an application here.  Numbers name pairings and session ids; 0  *)
(* is null.  The daemon is what Auth, Session and Events show of it.       *)
(***************************************************************************)
EXTENDS Naturals, Sequences

CONSTANTS
  MaxPairings,  \* bounds of the model: pairings offered,
  MaxIds,       \* session ids, a switch of the policy takes a new one,
  MaxIncidents, \* actions of the user, revocations, requests and sockets lost,
  Ring          \* and events kept for a socket

ASSUME WebClientAssumption ==
  /\ MaxPairings \in Nat /\ MaxIds \in Nat /\ MaxIncidents \in Nat
  /\ Ring \in Nat \ {0}

VARIABLES
  page,      \* state of app.js, its requests in flight and its socket
  daemon,    \* credentials, session and the transition under the mutex
  incidents  \* how many there were, for the bound

vars == <<page, daemon, incidents>>

Incident == incidents < MaxIncidents /\ incidents' = incidents + 1

NoSession == [id |-> 0, phase |-> "idle"]
NoSocket == [id |-> 0, ready |-> "none", lease |-> 0, joined |-> FALSE, ended |-> FALSE,
             inbox |-> << >>]

\* An unanswered request and what goes with it: the task that awaits it, the
\* session id in its path, the credentials it was sent with.
Request(t, task, id) ==
  [task |-> task, id |-> id, cookie |-> t.cookie, csrf |-> t.csrf, status |-> "sent",
   answer |-> NoSession, lease |-> 0, attempt |-> 0, from |-> ""]
Send(t, r) == [t EXCEPT !.requests = @ \cup {r}]
Done(t, r) == [t EXCEPT !.requests = @ \ {r}]

Actions == {"start", "command", "egress", "resync", "burn"}
Pairing == {"exchange", "sync"}
Busy(t) == \E r \in t.requests : r.task \in Actions
InPairing(t, by) == \E r \in t.requests : r.task \in Pairing /\ r.from = by

-----------------------------------------------------------------------------
(* The functions of app.js.                                                *)

ShowPairingDialog(t) == [t EXCEPT !.dialog = TRUE, !.confirm = FALSE]

StopMetricPolling(t) == [t EXCEPT !.polling = FALSE]

StopEventChannel(t) == [t EXCEPT !.timer = 0, !.socket = NoSocket]

Active(t) == t.phase = "active" /\ t.csrf # 0

ScheduleEventReconnect(t, id) ==
  IF t.timer = 0 /\ Active(t) /\ t.id = id THEN [t EXCEPT !.timer = id] ELSE t

\* The listener of close, on the socket that state.socket names.
CloseEvent(t) == ScheduleEventReconnect([t EXCEPT !.socket = NoSocket], t.socket.id)

\* connectEvents, up to its await.
ConnectEvents(t) ==
  IF \/ t.id = 0
     \/ t.csrf = 0
     \/ t.connecting = t.id
     \/ t.socket.id = t.id /\ t.socket.ready \in {"connecting", "open"}
  THEN t
  ELSE LET s == IF t.socket.id \notin {0, t.id} THEN StopEventChannel(t) ELSE t
       IN  Send([s EXCEPT !.connecting = t.id], Request(s, "connect", t.id))

RenderSession(t, session) ==
  LET s == IF t.id \notin {0, session.id} THEN StopEventChannel(t) ELSE t
      r == [s EXCEPT !.id = session.id, !.phase = session.phase,
                     !.newest = IF session.id > @ THEN session.id ELSE @,
                     !.wentBack = @ \/ session.id \in 1 .. t.newest - 1]
      shown == [r EXCEPT !.controls = Active(r) /\ ~ Busy(r)]
  IN  IF Active(shown) THEN ConnectEvents(shown) ELSE shown

\* A fault to compare with: the page locks and keeps its credentials.
LockScreen(t) ==
  LET s == StopMetricPolling(StopEventChannel(t))
      kept == IF t.phase \in {"burning", "idle"} THEN NoSession
              ELSE [id |-> t.id, phase |-> t.phase]
  IN  ShowPairingDialog(RenderSession(s, kept))

LockAuthentication(t) ==
  LET s == StopMetricPolling(StopEventChannel([t EXCEPT !.csrf = 0]))
      kept == IF t.phase \in {"burning", "idle"} THEN NoSession
              ELSE [id |-> t.id, phase |-> t.phase]
  IN  ShowPairingDialog(RenderSession(s, kept))

HandleActionError(t, status) == IF status = "auth" THEN LockAuthentication(t) ELSE t

\* setBusy, before a request of an action and after its last one.
SetBusy(t) == [t EXCEPT !.controls = FALSE, !.submit = FALSE]
SetFree(t) == [t EXCEPT !.controls = Active(t), !.submit = ~ InPairing(t, "form")]

StartMetricPolling(t) == [t EXCEPT !.polling = TRUE]

-----------------------------------------------------------------------------
(* The daemon.  A publication reaches the socket that has joined, unless   *)
(* the ring overtakes it; a full ring may also lose the first snapshot,    *)
(* which the code sends outside the ring.                                  *)

Event(kind, session) == [event |-> kind, id |-> session.id, phase |-> session.phase]
Of(d) == [id |-> d.id, phase |-> d.phase]

\* close_after_send: what the daemon sends as the last thing, if it comes to send it.
Closes(m) == m.event # "snapshot" /\ m.phase \in {"burning", "idle"}

Publish(t, kind, session) ==
  IF ~ t.socket.joined \/ t.socket.ended THEN t
  ELSE LET all == Append(t.socket.inbox, Event(kind, session))
       IN  [t EXCEPT !.socket.inbox = IF Len(all) > Ring THEN Tail(all) ELSE all]

Answer(t, r, status, session, lease) ==
  Send(Done(t, r), [r EXCEPT !.status = status, !.answer = session, !.lease = lease,
                             !.cookie = 0, !.csrf = 0])

Authenticated(r) == r.cookie # 0 /\ r.cookie = daemon.lease
Verdict(r) == IF ~ Authenticated(r) THEN "auth"
              ELSE IF r.csrf # r.cookie THEN "error" ELSE "ok"
Refuse(r, status) ==
  page' = Answer(page, r, status, NoSession, 0) /\ UNCHANGED <<daemon, incidents>>

ServeExchange(r) ==
  /\ r.task = "exchange"
  /\ \/ /\ daemon.offered
        /\ daemon' = [daemon EXCEPT !.offered = FALSE, !.leases = @ + 1,
                                    !.lease = daemon.leases + 1]
        /\ page' = Answer(page, r, "ok", NoSession, daemon.leases + 1)
        /\ UNCHANGED incidents
     \/ Refuse(r, "error")

ServeSnapshot(r) ==
  /\ r.task \in {"sync", "resync"}
  /\ IF Authenticated(r)
     THEN page' = Answer(page, r, "ok", Of(daemon), 0) /\ UNCHANGED <<daemon, incidents>>
     ELSE Refuse(r, "auth")

ServeTicket(r) ==
  /\ r.task = "connect"
  /\ IF Verdict(r) = "ok" /\ daemon.phase = "active"
     THEN page' = Answer(page, r, "ok", NoSession, daemon.lease) /\ UNCHANGED <<daemon, incidents>>
     ELSE Refuse(r, IF Verdict(r) = "ok" THEN "error" ELSE Verdict(r))

\* A command or a setting, done at once.
ServeCommand(r) ==
  /\ r.task = "command"
  /\ daemon.job = ""
  /\ IF Verdict(r) = "ok" /\ Of(daemon) = [id |-> r.id, phase |-> "active"]
     THEN /\ page' = Publish(Answer(page, r, "ok", Of(daemon), 0), "changed", Of(daemon))
          /\ UNCHANGED <<daemon, incidents>>
     ELSE Refuse(r, IF Verdict(r) = "ok" THEN "error" ELSE Verdict(r))

\* The first half of a start, a switch or a burn; the request waits.
ServeTransition(r) ==
  /\ r.task \in {"start", "egress", "burn"}
  /\ daemon.job = ""
  /\ LET legal == CASE r.task = "start" -> daemon.phase \in {"idle", "failed"}
                    [] r.task = "egress" -> Of(daemon) = [id |-> r.id, phase |-> "active"]
                    [] OTHER -> daemon.id = r.id
         d == IF r.task = "start"
              THEN [daemon EXCEPT !.ids = @ + 1, !.id = daemon.ids + 1, !.phase = "starting",
                                  !.job = r.task]
              ELSE [daemon EXCEPT !.phase = "burning", !.job = r.task]
     IN  IF Verdict(r) = "ok" /\ legal
         THEN /\ r.task # "burn" => daemon.ids < MaxIds
              /\ daemon' = d
              /\ page' = Publish(Answer(page, r, "serving", NoSession, 0), "changed", Of(d))
              /\ UNCHANGED incidents
         ELSE Refuse(r, IF Verdict(r) = "ok" THEN "error" ELSE Verdict(r))

\* The request that is being served has its answer, if somebody still waits.
Conclude(t, status, session) ==
  LET waiting == {r \in t.requests : r.status = "serving"}
  IN  [t EXCEPT !.requests = (@ \ waiting) \cup
         {[r EXCEPT !.status = status, !.answer = session] : r \in waiting}]

TransitionEnds ==
  /\ daemon.job \in {"start", "egress"}
  /\ \E d \in {[daemon EXCEPT !.phase = "active", !.job = ""],
               [daemon EXCEPT !.phase = "failed", !.job = ""]} :
     \E status \in {"ok", "error"} :
       /\ status = "ok" => d.phase = "active"
       /\ daemon.job = "start" /\ d.phase = "active" => status = "ok"
       /\ LET renamed == daemon.job = "egress" /\ d.phase = "active"
              e == IF renamed THEN [d EXCEPT !.ids = @ + 1, !.id = d.ids + 1] ELSE d
          IN  /\ e.ids <= MaxIds
              /\ daemon' = e
              /\ page' = Publish(Conclude(page, status, Of(e)), "changed", Of(e))
  /\ UNCHANGED incidents

\* Nobody waits for the answer any more: the server drops the handler where it is.
HandlerDropped ==
  /\ daemon.job \in {"start", "egress", "burn"}
  /\ \A r \in page.requests : r.status # "serving"
  /\ daemon' = [daemon EXCEPT !.job = ""]
  /\ UNCHANGED <<page, incidents>>

\* auto_burn_if_due, or recover_expired_auth of a session that still runs.
WatchdogBurns ==
  /\ daemon.job = ""
  /\ \/ daemon.phase = "active"
     \/ daemon.lease = 0 /\ ~ daemon.offered /\ daemon.phase # "idle"
  /\ daemon' = [daemon EXCEPT !.phase = "burning", !.job = "watchdog"]
  /\ page' = Publish(page, "changed", Of(daemon'))
  /\ Incident

BurnEnds ==
  /\ daemon.job \in {"burn", "watchdog"}
  /\ \E phase \in {"idle", "failed"} :
       /\ daemon' = [daemon EXCEPT !.id = 0, !.phase = phase, !.job = "", !.lease = 0,
                                   !.offered = daemon.leases < MaxPairings]
       /\ page' = Publish(Conclude(page, IF phase = "idle" THEN "ok" ELSE "error", Of(daemon')),
                          "ended", Of(daemon'))
  /\ UNCHANGED incidents

CookieExpires ==
  /\ daemon.lease # 0
  /\ daemon' = [daemon EXCEPT !.lease = 0]
  /\ Incident
  /\ UNCHANGED page

RecoverExpiredAuth ==
  /\ daemon.job = ""
  /\ daemon.lease = 0 /\ ~ daemon.offered
  /\ daemon.phase = "idle"
  /\ daemon.leases < MaxPairings
  /\ daemon' = [daemon EXCEPT !.offered = TRUE]
  /\ UNCHANGED <<page, incidents>>

-----------------------------------------------------------------------------
(* The socket: the upgrade, authorize_websocket, then subscribe with the   *)
(* first snapshot; a rejection and a close at every point.                 *)

SocketAuthorized ==
  /\ page.socket.ready = "connecting"
  /\ \/ /\ page.socket.lease = daemon.lease
        /\ Of(daemon) = [id |-> page.socket.id, phase |-> "active"]
        /\ page' = [page EXCEPT !.socket.ready = "open"]
     \/ \* the ticket or its socket was too late, or no longer valid
        page' = [page EXCEPT !.socket.ready = "open", !.socket.ended = TRUE,
                             !.socket.inbox = << Event("rejected", NoSession) >>]
     \/ \* no upgrade for this id
        /\ daemon.id # page.socket.id
        /\ page' = CloseEvent(page)
  /\ UNCHANGED <<daemon, incidents>>

SocketSubscribes ==
  /\ page.socket.ready = "open" /\ ~ page.socket.joined /\ ~ page.socket.ended
  /\ page' = [page EXCEPT !.socket.joined = TRUE,
                          !.socket.inbox = << Event("snapshot", Of(daemon)) >>]
  /\ UNCHANGED <<daemon, incidents>>

SocketCloses ==
  /\ page.socket.ready = "open" /\ page.socket.ended /\ page.socket.inbox = << >>
  /\ page' = [page EXCEPT !.socket.ready = "closing"]
  /\ UNCHANGED <<daemon, incidents>>

SocketDrops ==
  /\ page.socket.ready \in {"connecting", "open"}
  /\ Incident
  /\ page' = CloseEvent(page)
  /\ UNCHANGED daemon

-----------------------------------------------------------------------------
(* Events of the page.                                                     *)

\* The listener of messages: what concerns another session is ignored.  Nothing
\* comes after the last one.
SocketMessage ==
  /\ page.socket.inbox # << >>
  /\ LET m == Head(page.socket.inbox)
         t == [page EXCEPT !.socket.inbox = IF Closes(m) THEN << >> ELSE Tail(@),
                           !.socket.ended = @ \/ Closes(m)]
     IN  page' = CASE t.id # t.socket.id -> t
                   [] m.event \in {"rejected", "ended"} -> LockAuthentication(t)
                   [] m.id = t.socket.id -> RenderSession(t, [id |-> m.id, phase |-> m.phase])
                   [] OTHER -> t
  /\ UNCHANGED <<daemon, incidents>>

SocketClosed ==
  /\ page.socket.ready = "closing"
  /\ page' = CloseEvent(page)
  /\ UNCHANGED <<daemon, incidents>>

ReconnectTimer ==
  /\ page.timer # 0
  /\ LET t == [page EXCEPT !.timer = 0]
     IN  page' = IF Active(t) /\ t.id = page.timer THEN ConnectEvents(t) ELSE t
  /\ UNCHANGED <<daemon, incidents>>

\* The socket named before, unless it is closing, stays open without a name.
OpenSocket(t, r) ==
  [t EXCEPT !.orphans = @ \/ t.socket.ready \in {"connecting", "open"},
            !.socket = [NoSocket EXCEPT !.id = r.id, !.ready = "connecting",
                                        !.lease = r.lease]]

\* Faults to compare with: the id stays noted, and nothing is looked at again.
FinallyNoted(t, id) ==
  IF t.csrf # 0 /\ t.id \notin {0, id} /\ t.socket = NoSocket THEN ConnectEvents(t) ELSE t

\* The finally of connectEvents.
Finally(t, id) ==
  LET u == IF t.connecting = id THEN [t EXCEPT !.connecting = 0] ELSE t
  IN  IF u.csrf # 0 /\ u.id \notin {0, id} /\ u.socket = NoSocket THEN ConnectEvents(u) ELSE u

TicketUnchecked(t, r) ==
  IF r.status = "ok" THEN Finally(OpenSocket(t, r), r.id)
  ELSE HandleActionError(Finally(ScheduleEventReconnect(t, r.id), r.id), r.status)

\* connectEvents after its await.
Ticket(t, r) ==
  IF t.csrf = 0 \/ t.id # r.id THEN Finally(t, r.id)
  ELSE IF r.status = "ok" THEN Finally(OpenSocket(t, r), r.id)
  ELSE HandleActionError(Finally(ScheduleEventReconnect(t, r.id), r.id), r.status)

\* pair and syncAfterPairing, with the finally of the form or the catch of boot.
PairingOver(t, from) == IF from = "form" THEN [t EXCEPT !.submit = TRUE] ELSE t

Exchanged(t, r) ==
  IF r.status = "ok"
  THEN LET s == [t EXCEPT !.csrf = r.lease, !.cookie = r.lease, !.dialog = FALSE,
                          !.gaveUp = FALSE]
       IN  Send(s, [Request(s, "sync", 0) EXCEPT !.from = r.from])
  ELSE PairingOver(IF r.from = "boot" THEN ShowPairingDialog(t) ELSE t, r.from)

Synced(t, r) ==
  IF r.status = "ok" THEN PairingOver(StartMetricPolling(RenderSession(t, r.answer)), r.from)
  ELSE IF r.status = "auth" THEN PairingOver(LockAuthentication(t), r.from)
  ELSE IF r.attempt < 2 /\ t.csrf # 0
       THEN Send(t, [r EXCEPT !.status = "waiting", !.attempt = @ + 1])
  ELSE PairingOver([RenderSession(t, NoSession) EXCEPT !.gaveUp = TRUE], r.from)

\* startSession, the settings and commands, setEgress and burn after their await.
Acted(t, r) ==
  IF r.task = "egress" /\ r.status # "ok"
  THEN Send(t, [Request(t, "resync", 0) EXCEPT !.from = r.status])
  ELSE IF r.task = "resync"
  THEN LET s == IF r.status = "ok" THEN RenderSession(t, r.answer)
                ELSE HandleActionError(t, r.status)
       IN  HandleActionError(SetFree(s), r.from)
  ELSE IF r.status # "ok" THEN HandleActionError(SetFree(t), r.status)
  ELSE IF r.task = "burn"
  THEN LET s == StopMetricPolling(StopEventChannel([t EXCEPT !.csrf = 0, !.cookie = 0]))
       IN  SetFree(ShowPairingDialog(RenderSession(s, NoSession)))
  ELSE SetFree(RenderSession(t, r.answer))

Continue(t, r) == CASE r.task = "connect" -> Ticket(t, r)
                    [] r.task = "exchange" -> Exchanged(t, r)
                    [] r.task = "sync" -> Synced(t, r)
                    [] OTHER -> Acted(t, r)

Serve(r) == /\ r.status = "sent"
            /\ \/ ServeExchange(r) \/ ServeSnapshot(r) \/ ServeTicket(r)
               \/ ServeCommand(r) \/ ServeTransition(r)

AnswerArrives(r) ==
  /\ r.status \in {"ok", "auth", "error"}
  /\ page' = Continue(Done(page, r), r)
  /\ UNCHANGED <<daemon, incidents>>

\* The network loses a request or its answer.
RequestFails(r) ==
  /\ r.status # "waiting"
  /\ IF r.task = "sync" THEN UNCHANGED incidents ELSE Incident
  /\ page' = Continue(Done(page, r), [r EXCEPT !.status = "error"])
  /\ UNCHANGED daemon

\* The pause between two attempts of syncAfterPairing.
SyncAgain(r) ==
  /\ r.status = "waiting"
  /\ page' = Send(Done(page, r), [Request(page, "sync", 0) EXCEPT !.from = r.from,
                                                                  !.attempt = r.attempt])
  /\ UNCHANGED <<daemon, incidents>>

\* refreshMetrics, by its interval or because the page became visible: numbers
\* change nothing here, a request that is lost or aborted is made again, and an
\* answer counts only for the newest one.
MetricsRefused ==
  /\ page.csrf # 0 /\ page.cookie # daemon.lease
  /\ page' = LockAuthentication(page)
  /\ UNCHANGED <<daemon, incidents>>

-----------------------------------------------------------------------------
(* The user.  A modal dialog keeps everything else from him: that of the   *)
(* pairing, or the confirmation of a burn, which asks only for an idle page. *)

SubmitPairing ==
  /\ page.dialog /\ page.submit /\ ~ InPairing(page, "form")
  /\ page' = [Send(page, [Request(page, "exchange", 0) EXCEPT !.from = "form"])
                EXCEPT !.submit = FALSE]
  /\ UNCHANGED <<daemon, incidents>>

StartSession ==
  /\ ~ page.dialog /\ ~ page.confirm /\ ~ Busy(page)
  /\ page.phase # "burning" /\ ~ (page.controls /\ Active(page))
  /\ page' = SetBusy(Send(page, Request(page, "start", 0)))
  /\ Incident
  /\ UNCHANGED daemon

Control(task) ==
  /\ ~ page.dialog /\ ~ page.confirm /\ page.controls /\ page.id # 0
  /\ page' = SetBusy(Send(page, Request(page, task, page.id)))
  /\ Incident
  /\ UNCHANGED daemon

OpenBurnDialog ==
  /\ ~ page.dialog /\ ~ page.confirm /\ page.controls /\ page.id # 0
  /\ page' = [page EXCEPT !.confirm = TRUE]
  /\ UNCHANGED <<daemon, incidents>>

CancelBurn ==
  /\ page.confirm
  /\ page' = [page EXCEPT !.confirm = FALSE]
  /\ UNCHANGED <<daemon, incidents>>

ConfirmBurn ==
  /\ page.confirm /\ ~ Busy(page) /\ page.id # 0
  /\ page' = SetBusy(Send(page, Request(page, "burn", page.id)))
  /\ Incident
  /\ UNCHANGED daemon

-----------------------------------------------------------------------------
\* The page of a scanned address, which pairs at once, or of a bare one.
Fresh == [csrf |-> 0, cookie |-> 0, id |-> 0, phase |-> "idle", socket |-> NoSocket,
          connecting |-> 0, timer |-> 0, polling |-> FALSE, dialog |-> TRUE,
          confirm |-> FALSE, controls |-> FALSE, submit |-> TRUE, requests |-> {},
          orphans |-> FALSE, newest |-> 0, wentBack |-> FALSE, gaveUp |-> FALSE]

Init ==
  /\ page \in {Fresh, Send([Fresh EXCEPT !.dialog = FALSE],
                           [Request(Fresh, "exchange", 0) EXCEPT !.from = "boot"])}
  /\ daemon = [lease |-> 0, offered |-> TRUE, leases |-> 0, id |-> 0, phase |-> "idle",
               ids |-> 0, job |-> ""]
  /\ incidents = 0

Next ==
  \/ \E r \in page.requests : Serve(r) \/ AnswerArrives(r) \/ RequestFails(r) \/ SyncAgain(r)
  \/ TransitionEnds \/ HandlerDropped \/ WatchdogBurns \/ BurnEnds \/ CookieExpires
  \/ RecoverExpiredAuth
  \/ SocketAuthorized \/ SocketSubscribes \/ SocketCloses \/ SocketDrops
  \/ SocketMessage \/ SocketClosed \/ ReconnectTimer
  \/ MetricsRefused
  \/ SubmitPairing \/ StartSession \/ (\E task \in {"command", "egress"} : Control(task))
  \/ OpenBurnDialog \/ CancelBurn \/ ConfirmBurn

Spec == Init /\ [][Next]_vars

-----------------------------------------------------------------------------
(* Properties.                                                             *)

\* The page never has a socket open beside the one it names, unless a snapshot
\* that was answered late has once shown it an older session than one it had shown
\* before; and the one it names, like the reconnection it waits for, is of the
\* session it shows and belongs to a page with credentials: nothing is left of a
\* session or a pairing that ended while a ticket, a timer or a closing socket was
\* on its way (stopEventChannel, renderSession, and the guards after the await of
\* connectEvents).
SocketsAreOurs ==
  /\ page.orphans => page.wentBack
  /\ page.socket # NoSocket => page.csrf # 0 /\ page.socket.id = page.id
  /\ page.timer # 0 => page.csrf # 0 /\ page.timer = page.id

\* A page with credentials that shows an active session has an event channel, is
\* asking for a ticket or will try again, whatever was lost; except while it is
\* pairing, when it still shows what it showed before (connectEvents with its
\* finally, the listener of close, scheduleEventReconnect).
ActiveIsConnected ==
  Active(page) /\ page.id # 0 /\ ~ InPairing(page, "form") /\ ~ InPairing(page, "boot") =>
    \/ page.socket # NoSocket
    \/ page.timer # 0
    \/ \E r \in page.requests : r.task = "connect" /\ r.id = page.id

\* A page with credentials polls, so that it will notice when they are revoked,
\* except while it is pairing and when the synchronisation after its last pairing
\* was given up (syncAfterPairing, stopMetricPolling).
PairedPolls ==
  page.csrf # 0 /\ ~ InPairing(page, "form") /\ ~ InPairing(page, "boot") =>
    page.polling \/ page.gaveUp
=============================================================================
