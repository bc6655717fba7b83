--------------------------- MODULE WebClientProofs ---------------------------
(***************************************************************************)
(* The safety of the page, whatever the daemon, the network and the user   *)
(* do and however often.  All of it is about the state of the page alone,  *)
(* so the invariant is a predicate on such states, and each function of    *)
(* app.js has a lemma that says what it makes of one.                      *)
(***************************************************************************)
EXTENDS WebClient, TLAPS

Phases == {"idle", "starting", "active", "burning", "failed"}
Sessions == [id : Nat, phase : Phases]
Events == [event : {"snapshot", "changed", "ended", "rejected"}, id : Nat, phase : Phases]
Sockets == [id : Nat, ready : {"none", "connecting", "open", "closing"}, lease : Nat,
            joined : BOOLEAN, ended : BOOLEAN, inbox : Seq(Events)]
Requests == [task : Actions \cup Pairing \cup {"connect"}, id : Nat, cookie : Nat, csrf : Nat,
             status : {"sent", "serving", "waiting", "ok", "auth", "error"},
             answer : Sessions, lease : Nat, attempt : Nat,
             from : {"", "form", "boot", "ok", "auth", "error"}]
Pages == [csrf : Nat, cookie : Nat, id : Nat, phase : Phases, socket : Sockets,
          connecting : Nat, timer : Nat, polling : BOOLEAN, dialog : BOOLEAN,
          confirm : BOOLEAN, controls : BOOLEAN, submit : BOOLEAN,
          requests : SUBSET Requests, orphans : BOOLEAN, newest : Nat, wentBack : BOOLEAN,
          gaveUp : BOOLEAN]
Daemons == [lease : Nat, offered : BOOLEAN, leases : Nat, id : Nat, phase : Phases,
            ids : Nat, job : {"", "start", "egress", "burn", "watchdog"}]

\* What kind of request may be in which state.
Sound(r) ==
  /\ r.task \in Pairing => r.from \in {"form", "boot"}
  /\ r.status = "serving" => r.task \in {"start", "egress", "burn"}
  /\ r.status = "waiting" => r.task = "sync"
  /\ r.task = "exchange" /\ r.status = "ok" => r.lease # 0
  /\ r.task = "connect" => r.id # 0

Typed(t) == t \in Pages /\ \A r \in t.requests : Sound(r)

\* The socket that has a name and the reconnection are of the session shown.
Channel(t) ==
  /\ t.socket.ready = "none" => t.socket = NoSocket
  /\ t.socket.ready # "none" => t.csrf # 0 /\ t.id # 0 /\ t.socket.id = t.id
  /\ t.timer # 0 => t.csrf # 0 /\ t.timer = t.id

\* The ticket requests for a session, and whether one was sent.
Asks(t, id) == {r \in t.requests : r.task = "connect" /\ r.id = id}
Asking(t, id) == Asks(t, id) # {}

\* As long as no older session was shown after a newer one, only one ticket is
\* asked for at a time for the session shown, and only while it has no socket.
Tickets(t) ==
  /\ t.orphans => t.wentBack
  /\ ~t.wentBack =>
       /\ t.id \in {0, t.newest}
       /\ \A r \in t.requests : r.task = "connect" => r.id <= t.newest
       /\ \A r, q \in Asks(t, t.newest) : r = q
       /\ Asking(t, t.newest) =>
            t.connecting = t.newest /\ t.socket.ready \notin {"connecting", "open"}

\* The id noted in eventConnectingSessionId has its request.
Noted(t) == t.connecting # 0 => Asking(t, t.connecting)

Core(t) == Typed(t) /\ Channel(t) /\ Tickets(t) /\ Noted(t)

\* After an exchange a synchronisation is pending until the page shows what the
\* daemon has, or gives up.
Syncing(t) == \E r \in t.requests : r.task = "sync"
Linked(t) == t.socket.ready # "none" \/ t.timer # 0 \/ Asking(t, t.id)
Connected(t) == Active(t) /\ t.id # 0 => Linked(t) \/ Syncing(t)
Polled(t) == t.csrf # 0 => t.polling \/ t.gaveUp \/ Syncing(t)

PageInv(t) == Core(t) /\ Connected(t) /\ Polled(t)

ClientInv == PageInv(page) /\ daemon \in Daemons

-----------------------------------------------------------------------------
\* Two states of the page that differ only in what the invariant does not see: in
\* the controls, in the queue of the socket, in requests of another kind.
Alike(t, u) ==
  /\ u.csrf = t.csrf /\ u.id = t.id /\ u.phase = t.phase
  /\ u.socket.ready = t.socket.ready /\ u.socket.id = t.socket.id
  /\ t.socket.ready = "none" => u.socket = t.socket
  /\ u.connecting = t.connecting /\ u.timer = t.timer
  /\ u.orphans = t.orphans /\ u.newest = t.newest /\ u.wentBack = t.wentBack
  /\ \A r : r.task = "connect" => (r \in u.requests <=> r \in t.requests)

\* And those in which the page polls alike and waits alike for its synchronisation.
PollsAlike(t, u) ==
  u.polling = t.polling /\ u.gaveUp = t.gaveUp /\ (Syncing(t) => Syncing(u))

LEMMA AlikeAsks ==
  ASSUME NEW t, NEW u, Alike(t, u)
  PROVE  \A id : Asks(u, id) = Asks(t, id) /\ (Asking(u, id) <=> Asking(t, id))
<1>1. \A id : Asks(u, id) = Asks(t, id)
  BY DEF Alike, Asks
<1>2. QED
  BY <1>1 DEF Asking

LEMMA AlikeCore ==
  ASSUME NEW t, NEW u, Core(t), Typed(u), Alike(t, u)
  PROVE  Core(u)
<1>1. Channel(u)
  BY DEF Core, Channel, Alike, NoSocket
<1>2. Tickets(u)
  <2>1. \A r \in u.requests : r.task = "connect" => r \in t.requests
    BY DEF Alike
  <2>2. QED
    BY <2>1, AlikeAsks DEF Core, Tickets, Alike
<1>3. Noted(u)
  BY AlikeAsks DEF Core, Noted, Alike
<1>4. QED
  BY <1>1, <1>2, <1>3 DEF Core

LEMMA AlikeRest ==
  ASSUME NEW t, NEW u, PageInv(t), Typed(u), Alike(t, u), PollsAlike(t, u)
  PROVE  PageInv(u)
<1>1. Core(u)
  BY AlikeCore DEF PageInv
<1>2. Linked(u) <=> Linked(t)
  BY AlikeAsks DEF Linked, Alike
<1>3. Connected(u)
  BY <1>2 DEF PageInv, Connected, Active, Alike, PollsAlike
<1>4. Polled(u)
  BY DEF PageInv, Polled, Alike, PollsAlike
<1>5. QED
  BY <1>1, <1>3, <1>4 DEF PageInv

\* The fields of a page, one by one.
LEMMA PageFields ==
  \A t \in Pages :
    /\ t.csrf \in Nat /\ t.cookie \in Nat /\ t.id \in Nat /\ t.phase \in Phases
    /\ t.socket \in Sockets /\ t.connecting \in Nat /\ t.timer \in Nat
    /\ t.polling \in BOOLEAN /\ t.dialog \in BOOLEAN /\ t.confirm \in BOOLEAN
    /\ t.controls \in BOOLEAN /\ t.submit \in BOOLEAN /\ t.requests \subseteq Requests
    /\ t.orphans \in BOOLEAN /\ t.newest \in Nat /\ t.wentBack \in BOOLEAN
    /\ t.gaveUp \in BOOLEAN
  BY DEF Pages

\* Other requests.
LEMMA Requested ==
  ASSUME NEW t \in Pages, NEW R \in SUBSET Requests
  PROVE  LET u == [t EXCEPT !.requests = R]
         IN  /\ u \in Pages /\ u.requests = R
             /\ u.csrf = t.csrf /\ u.cookie = t.cookie /\ u.id = t.id /\ u.phase = t.phase
             /\ u.socket = t.socket /\ u.connecting = t.connecting /\ u.timer = t.timer
             /\ u.polling = t.polling /\ u.orphans = t.orphans /\ u.newest = t.newest
             /\ u.wentBack = t.wentBack /\ u.gaveUp = t.gaveUp /\ u.dialog = t.dialog
             /\ u.submit = t.submit
  BY DEF Pages

\* No socket is a socket.
LEMMA NoSocketTyped ==
  /\ NoSocket \in Sockets /\ NoSocket.id = 0 /\ NoSocket.ready = "none"
  /\ ~NoSocket.joined /\ NoSocket.inbox = << >>
  BY DEF NoSocket, Sockets

\* stopEventChannel.
LEMMA Stopped ==
  ASSUME NEW t \in Pages
  PROVE  LET u == StopEventChannel(t)
         IN  /\ u \in Pages /\ u.socket = NoSocket /\ u.timer = 0
             /\ u.requests = t.requests /\ u.csrf = t.csrf /\ u.id = t.id
             /\ u.phase = t.phase /\ u.connecting = t.connecting /\ u.polling = t.polling
             /\ u.orphans = t.orphans /\ u.newest = t.newest /\ u.wentBack = t.wentBack
             /\ u.gaveUp = t.gaveUp
  BY NoSocketTyped DEF Pages, StopEventChannel

\* What is sent by a page is one more request.
LEMMA Sent ==
  ASSUME NEW t \in Pages, NEW task \in Actions \cup Pairing \cup {"connect"}, NEW id \in Nat
  PROVE  /\ Request(t, task, id) \in Requests
         /\ Request(t, task, id).task = task /\ Request(t, task, id).id = id
         /\ Request(t, task, id).status = "sent"
  BY DEF Request, Requests, Pages, NoSession, Sessions, Phases

\* The same of one that notes who asked.
LEMMA SentFrom ==
  ASSUME NEW r \in Requests, NEW from \in {"form", "boot", "ok", "auth", "error"}
  PROVE  /\ [r EXCEPT !.from = from] \in Requests
         /\ [r EXCEPT !.from = from].task = r.task /\ [r EXCEPT !.from = from].id = r.id
         /\ [r EXCEPT !.from = from].status = r.status
         /\ [r EXCEPT !.from = from].from = from
  BY DEF Requests

\* What a call changes neither of the page nor of what it polls.
Keeps(t, u) ==
  /\ u.csrf = t.csrf /\ u.id = t.id /\ u.phase = t.phase
  /\ u.polling = t.polling /\ u.gaveUp = t.gaveUp
  /\ u.newest = t.newest /\ u.wentBack = t.wentBack
  /\ t.requests \subseteq u.requests

\* connectEvents: a page with credentials and a session has, asks for or awaits a
\* socket after it, and never asks twice.
LEMMA ConnectEventsKeeps ==
  ASSUME NEW t, Core(t)
  PROVE  LET u == ConnectEvents(t)
         IN  /\ Core(u) /\ Keeps(t, u)
             /\ t.csrf # 0 /\ t.id # 0 => Linked(u)
<1> DEFINE r == Request(t, "connect", t.id)
           v == [t EXCEPT !.connecting = t.id]
           u == [v EXCEPT !.requests = v.requests \cup {r}]
<1>1. t \in Pages /\ \A q \in t.requests : Sound(q)
  BY DEF Core, Typed
<1>2. CASE \/ t.id = 0
           \/ t.csrf = 0
           \/ t.connecting = t.id
           \/ t.socket.id = t.id /\ t.socket.ready \in {"connecting", "open"}
  <2>1. ConnectEvents(t) = t
    BY <1>2 DEF ConnectEvents
  <2>2. t.csrf # 0 /\ t.id # 0 => Linked(t)
    BY <1>2 DEF Core, Noted, Linked
  <2>3. QED
    BY <2>1, <2>2 DEF Keeps
<1>3. CASE ~ \/ t.id = 0
             \/ t.csrf = 0
             \/ t.connecting = t.id
             \/ t.socket.id = t.id /\ t.socket.ready \in {"connecting", "open"}
  <2>1. t.socket.id \in {0, t.id} /\ t.socket.ready \notin {"connecting", "open"}
    BY <1>3, NoSocketTyped DEF Core, Channel
  <2>2. ConnectEvents(t) = u
    BY <1>3, <2>1 DEF ConnectEvents, Send
  <2>3. /\ r \in Requests /\ r.task = "connect" /\ r.id = t.id /\ r.status = "sent"
    <3>1. t.id \in Nat
      BY <1>1, PageFields
    <3>2. QED
      BY <1>1, <3>1, Sent
  <2>4. /\ v \in Pages /\ v.requests = t.requests /\ v.connecting = t.id
        /\ v.csrf = t.csrf /\ v.id = t.id /\ v.phase = t.phase /\ v.socket = t.socket
        /\ v.timer = t.timer /\ v.polling = t.polling /\ v.orphans = t.orphans
        /\ v.newest = t.newest /\ v.wentBack = t.wentBack /\ v.gaveUp = t.gaveUp
    BY <1>1 DEF Pages
  <2>5. v.requests \cup {r} \in SUBSET Requests
    BY <1>1, <2>3, <2>4, PageFields
  <2> HIDE DEF v, r
  <2>6. /\ u \in Pages /\ u.requests = t.requests \cup {r} /\ u.connecting = t.id
        /\ u.csrf = t.csrf /\ u.id = t.id /\ u.phase = t.phase /\ u.socket = t.socket
        /\ u.timer = t.timer /\ u.polling = t.polling /\ u.orphans = t.orphans
        /\ u.newest = t.newest /\ u.wentBack = t.wentBack /\ u.gaveUp = t.gaveUp
    BY <2>4, <2>5, Requested
  <2> HIDE DEF u
  <2>7. /\ Asks(u, t.id) = Asks(t, t.id) \cup {r}
        /\ \A id : id # t.id => Asks(u, id) = Asks(t, id)
    BY <2>3, <2>6 DEF Asks
  <2>8. Typed(u)
    BY <1>1, <1>3, <2>3, <2>6 DEF Typed, Sound, Pairing
  <2>9. Channel(u)
    BY <2>6 DEF Core, Channel
  <2>10. Asking(u, t.id)
    BY <2>7 DEF Asking
  <2>11. Tickets(u)
    <3>1. CASE t.wentBack
      BY <2>6, <3>1 DEF Tickets
    <3>2. CASE ~t.wentBack
      <4>1. t.id = t.newest /\ t.newest \in Nat
        BY <1>1, <1>3, <3>2, PageFields DEF Core, Tickets
      <4>2. Asks(t, t.newest) = {}
        BY <1>3, <3>2, <4>1 DEF Core, Tickets, Asking
      <4>3. Asks(u, u.newest) = {r}
        BY <2>6, <2>7, <4>1, <4>2
      <4>4. \A q \in u.requests : q.task = "connect" => q.id <= u.newest
        BY <2>3, <2>6, <3>2, <4>1 DEF Core, Tickets
      <4>5. QED
        BY <2>1, <2>6, <3>2, <4>1, <4>3, <4>4 DEF Core, Tickets
    <3>3. QED
      BY <3>1, <3>2
  <2>12. Noted(u)
    BY <2>6, <2>10 DEF Noted
  <2>13. QED
    BY <2>2, <2>6, <2>8, <2>9, <2>10, <2>11, <2>12 DEF Core, Keeps, Linked
<1>4. QED
  BY <1>2, <1>3

\* renderSession: whatever is shown, a page that is active after it has, asks for or
\* awaits a socket.
LEMMA RenderKeeps ==
  ASSUME NEW t, Core(t), NEW session \in Sessions
  PROVE  LET u == RenderSession(t, session)
         IN  /\ Core(u) /\ u.csrf = t.csrf /\ u.id = session.id
             /\ u.polling = t.polling /\ u.gaveUp = t.gaveUp
             /\ t.requests \subseteq u.requests
             /\ Active(u) /\ u.id # 0 => Linked(u)
<1> DEFINE s == IF t.id \notin {0, session.id} THEN StopEventChannel(t) ELSE t
           r == [s EXCEPT !.id = session.id, !.phase = session.phase,
                          !.newest = IF session.id > @ THEN session.id ELSE @,
                          !.wentBack = @ \/ session.id \in 1 .. t.newest - 1]
           shown == [r EXCEPT !.controls = Active(r) /\ ~ Busy(r)]
<1>1. t \in Pages /\ session.id \in Nat /\ session.phase \in Phases
  BY DEF Core, Typed, Sessions
<1>2. /\ s \in Pages /\ s.requests = t.requests /\ s.csrf = t.csrf
      /\ s.connecting = t.connecting /\ s.polling = t.polling
      /\ s.orphans = t.orphans /\ s.newest = t.newest /\ s.wentBack = t.wentBack
      /\ s.gaveUp = t.gaveUp
      /\ \/ s.socket = NoSocket /\ s.timer = 0
         \/ s.socket = t.socket /\ s.timer = t.timer /\ t.id = session.id
  <2>1. CASE t.id \notin {0, session.id}
    BY <1>1, <2>1, Stopped
  <2>2. CASE t.id = session.id
    BY <1>1, <2>2
  <2>3. CASE t.id = 0
    BY <1>1, <2>3 DEF Core, Channel
  <2>4. QED
    BY <2>1, <2>2, <2>3
<1> HIDE DEF s
<1>3. s.newest \in Nat /\ s.wentBack \in BOOLEAN
  BY <1>2, PageFields
<1>4. /\ r \in Pages /\ r.requests = s.requests /\ r.csrf = s.csrf
      /\ r.connecting = s.connecting /\ r.polling = s.polling
      /\ r.orphans = s.orphans /\ r.gaveUp = s.gaveUp
      /\ r.socket = s.socket /\ r.timer = s.timer
      /\ r.id = session.id /\ r.phase = session.phase
      /\ r.newest = IF session.id > s.newest THEN session.id ELSE s.newest
      /\ r.wentBack <=> s.wentBack \/ session.id \in 1 .. t.newest - 1
  BY <1>1, <1>2, <1>3 DEF Pages
<1> HIDE DEF r
<1>5. /\ shown \in Pages /\ shown.requests = r.requests /\ shown.csrf = r.csrf
      /\ shown.connecting = r.connecting /\ shown.polling = r.polling
      /\ shown.orphans = r.orphans /\ shown.gaveUp = r.gaveUp
      /\ shown.socket = r.socket /\ shown.timer = r.timer
      /\ shown.id = r.id /\ shown.phase = r.phase
      /\ shown.newest = r.newest /\ shown.wentBack = r.wentBack
  BY <1>4 DEF Pages
<1> HIDE DEF shown
<1>6. Typed(shown)
  BY <1>2, <1>4, <1>5 DEF Core, Typed
<1>7. Channel(shown)
  BY <1>2, <1>4, <1>5, NoSocketTyped DEF Core, Channel
<1>8. \A id : Asks(shown, id) = Asks(t, id)
  BY <1>2, <1>4, <1>5 DEF Asks
<1>9. Noted(shown)
  BY <1>2, <1>4, <1>5, <1>8 DEF Core, Noted, Asking
<1>10. Tickets(shown)
  <2>1. shown.orphans => shown.wentBack
    BY <1>2, <1>4, <1>5 DEF Core, Tickets
  <2>2. ASSUME ~shown.wentBack
        PROVE  /\ shown.id \in {0, shown.newest}
               /\ \A q \in shown.requests : q.task = "connect" => q.id <= shown.newest
               /\ \A p, q \in Asks(shown, shown.newest) : p = q
               /\ Asking(shown, shown.newest) =>
                    /\ shown.connecting = shown.newest
                    /\ shown.socket.ready \notin {"connecting", "open"}
    <3>1. ~t.wentBack /\ session.id \notin 1 .. t.newest - 1 /\ t.newest \in Nat
      BY <1>1, <1>2, <1>4, <1>5, <2>2, PageFields
    <3>2. /\ \A q \in t.requests : q.task = "connect" => q.id <= t.newest
          /\ \A p, q \in Asks(t, t.newest) : p = q
          /\ Asking(t, t.newest) =>
               t.connecting = t.newest /\ t.socket.ready \notin {"connecting", "open"}
      BY <3>1 DEF Core, Tickets
    <3>3. CASE session.id > t.newest
      <4>1. shown.newest = session.id /\ shown.id = session.id
        BY <1>2, <1>4, <1>5, <3>3
      <4>2. \A q \in t.requests : q.task = "connect" => q.id \in Nat /\ q.id < session.id
        <5>1. \A q \in t.requests : q.id \in Nat
          BY <1>1, PageFields DEF Requests
        <5>2. QED
          BY <1>1, <3>1, <3>2, <3>3, <5>1
      <4>3. Asks(shown, session.id) = {}
        BY <1>1, <1>2, <1>4, <1>5, <4>2 DEF Asks
      <4>4. QED
        BY <1>1, <1>2, <1>4, <1>5, <4>1, <4>2, <4>3 DEF Asking
    <3>4. CASE ~(session.id > t.newest)
      <4>1. shown.newest = t.newest /\ shown.id = session.id /\ session.id \in {0, t.newest}
        BY <1>1, <1>2, <1>4, <1>5, <3>1, <3>4
      <4>2. shown.socket.ready \in {"none", t.socket.ready}
        BY <1>2, <1>4, <1>5, NoSocketTyped
      <4>3. QED
        BY <1>2, <1>4, <1>5, <1>8, <3>2, <4>1, <4>2 DEF Asking
    <3>5. QED
      BY <3>3, <3>4
  <2>3. QED
    BY <2>1, <2>2 DEF Tickets
<1>11. Core(shown)
  BY <1>6, <1>7, <1>9, <1>10 DEF Core
<1>12. RenderSession(t, session) = IF Active(shown) THEN ConnectEvents(shown) ELSE shown
  BY DEF RenderSession, shown, r, s
<1>13. CASE Active(shown)
  <2> DEFINE u == ConnectEvents(shown)
  <2>1. /\ Core(u) /\ Keeps(shown, u)
        /\ shown.csrf # 0 /\ shown.id # 0 => Linked(u)
    BY <1>11, ConnectEventsKeeps
  <2> HIDE DEF u
  <2>2. QED
    BY <1>2, <1>4, <1>5, <1>12, <1>13, <2>1 DEF Keeps, Active, u
<1>14. CASE ~Active(shown)
  BY <1>2, <1>4, <1>5, <1>11, <1>12, <1>14
<1>15. QED
  BY <1>13, <1>14

\* A page without credentials, that is shown a session or none.
LEMMA ShownLocked ==
  ASSUME NEW t, Core(t), t.csrf = 0, NEW session \in Sessions
  PROVE  LET u == RenderSession(t, session) IN PageInv(u) /\ u.csrf = 0
<1> DEFINE u == RenderSession(t, session)
<1>1. Core(u) /\ u.csrf = 0
  BY RenderKeeps
<1> HIDE DEF u
<1>2. PageInv(u)
  BY <1>1 DEF PageInv, Connected, Polled, Active
<1>3. QED
  BY <1>1, <1>2 DEF u

\* setBusy, setFree, the dialogs and the form show what the invariant does not see.
LEMMA ControlsUnseen ==
  ASSUME NEW t, PageInv(t), NEW u \in Pages, Alike(t, u), u.requests = t.requests,
         u.polling = t.polling, u.gaveUp = t.gaveUp
  PROVE  PageInv(u)
<1>1. Typed(u) /\ PollsAlike(t, u)
  BY DEF PageInv, Core, Typed, PollsAlike, Syncing
<1>2. QED
  BY <1>1, AlikeRest

LEMMA ControlsKeep ==
  ASSUME NEW t, PageInv(t)
  PROVE  /\ PageInv(SetFree(t)) /\ PageInv(ShowPairingDialog(t))
         /\ \A from : PageInv(PairingOver(t, from))
         /\ \A confirm \in BOOLEAN : PageInv([t EXCEPT !.confirm = confirm])
<1>1. t \in Pages
  BY DEF PageInv, Core, Typed
<1>2. PageInv(SetFree(t))
  <2>1. PICK a \in BOOLEAN : a = Active(t)
    BY DEF Active
  <2> DEFINE b == IF InPairing(t, "form") THEN FALSE ELSE TRUE
             u == [t EXCEPT !.controls = a, !.submit = b]
  <2>2. b \in BOOLEAN /\ b = ~InPairing(t, "form")
    OBVIOUS
  <2> HIDE DEF b
  <2>3. SetFree(t) = u
    BY <2>1, <2>2 DEF SetFree
  <2>4. /\ u \in Pages /\ Alike(t, u)
        /\ u.requests = t.requests /\ u.polling = t.polling /\ u.gaveUp = t.gaveUp
    BY <1>1, <2>2 DEF Pages, Alike
  <2>5. QED
    BY <2>3, <2>4, ControlsUnseen
<1>3. PageInv(ShowPairingDialog(t))
  <2> DEFINE u == ShowPairingDialog(t)
  <2>1. /\ u \in Pages /\ Alike(t, u)
        /\ u.requests = t.requests /\ u.polling = t.polling /\ u.gaveUp = t.gaveUp
    BY <1>1 DEF ShowPairingDialog, Pages, Alike
  <2>2. QED
    BY <2>1, ControlsUnseen
<1>4. ASSUME NEW from PROVE PageInv(PairingOver(t, from))
  <2> DEFINE u == PairingOver(t, from)
  <2>1. /\ u \in Pages /\ Alike(t, u)
        /\ u.requests = t.requests /\ u.polling = t.polling /\ u.gaveUp = t.gaveUp
    BY <1>1 DEF PairingOver, Pages, Alike
  <2>2. QED
    BY <2>1, ControlsUnseen
<1>5. ASSUME NEW confirm \in BOOLEAN PROVE PageInv([t EXCEPT !.confirm = confirm])
  <2> DEFINE u == [t EXCEPT !.confirm = confirm]
  <2>1. /\ u \in Pages /\ Alike(t, u)
        /\ u.requests = t.requests /\ u.polling = t.polling /\ u.gaveUp = t.gaveUp
    BY <1>1 DEF Pages, Alike
  <2>2. QED
    BY <2>1, ControlsUnseen
<1>6. QED
  BY <1>2, <1>3, <1>4, <1>5

\* The credentials are dropped with socket, timer and polling, before anything is shown.
LEMMA CredentialsDropped ==
  ASSUME NEW t, Core(t), NEW u \in Pages, u.csrf = 0, u.socket = NoSocket, u.timer = 0,
         u.id = t.id, u.connecting = t.connecting, u.requests = t.requests,
         u.orphans = t.orphans, u.newest = t.newest, u.wentBack = t.wentBack
  PROVE  Core(u)
<1>1. \A id : Asks(u, id) = Asks(t, id)
  BY DEF Asks
<1>2. Typed(u) /\ Channel(u) /\ Noted(u)
  BY <1>1, NoSocketTyped DEF Core, Typed, Channel, Noted, Asking
<1>3. Tickets(u)
  BY <1>1, NoSocketTyped DEF Core, Tickets, Asking
<1>4. QED
  BY <1>2, <1>3 DEF Core

\* lockAuthentication, which every answer 401 leads to.
LEMMA LockKeeps ==
  ASSUME NEW t, Core(t)
  PROVE  PageInv(LockAuthentication(t))
<1> DEFINE v == [t EXCEPT !.csrf = 0]
           w == StopEventChannel(v)
           s == StopMetricPolling(w)
           kept == IF t.phase \in {"burning", "idle"} THEN NoSession
                   ELSE [id |-> t.id, phase |-> t.phase]
<1>1. t \in Pages
  BY DEF Core, Typed
<1>2. /\ v \in Pages /\ v.csrf = 0 /\ v.id = t.id /\ v.connecting = t.connecting
      /\ v.requests = t.requests /\ v.orphans = t.orphans /\ v.newest = t.newest
      /\ v.wentBack = t.wentBack
  BY <1>1 DEF Pages
<1> HIDE DEF v
<1>3. /\ w \in Pages /\ w.csrf = 0 /\ w.socket = NoSocket /\ w.timer = 0 /\ w.id = t.id
      /\ w.connecting = t.connecting /\ w.requests = t.requests
      /\ w.orphans = t.orphans /\ w.newest = t.newest /\ w.wentBack = t.wentBack
  BY <1>2, Stopped
<1> HIDE DEF w
<1>4. /\ s \in Pages /\ s.csrf = 0 /\ s.socket = NoSocket /\ s.timer = 0 /\ s.id = t.id
      /\ s.connecting = t.connecting /\ s.requests = t.requests
      /\ s.orphans = t.orphans /\ s.newest = t.newest /\ s.wentBack = t.wentBack
  BY <1>3 DEF StopMetricPolling, Pages
<1>5. kept \in Sessions
  BY <1>1, PageFields DEF NoSession, Sessions, Phases
<1> HIDE DEF s, kept
<1>6. PageInv(RenderSession(s, kept))
  BY <1>4, <1>5, CredentialsDropped, ShownLocked
<1>7. LockAuthentication(t) = ShowPairingDialog(RenderSession(s, kept))
  BY DEF LockAuthentication, s, w, v, kept
<1>8. QED
  BY <1>6, <1>7, ControlsKeep

LEMMA HandleActionErrorKeeps ==
  ASSUME NEW t, PageInv(t), NEW status
  PROVE  PageInv(HandleActionError(t, status))
  BY LockKeeps DEF HandleActionError, PageInv

\* renderSession of a page that polls, or that still waits for its synchronisation.
LEMMA RenderedKeeps ==
  ASSUME NEW t, PageInv(t), NEW session \in Sessions
  PROVE  PageInv(RenderSession(t, session))
<1> DEFINE u == RenderSession(t, session)
<1>1. /\ Core(u) /\ u.csrf = t.csrf
      /\ u.polling = t.polling /\ u.gaveUp = t.gaveUp /\ t.requests \subseteq u.requests
      /\ Active(u) /\ u.id # 0 => Linked(u)
  BY RenderKeeps DEF PageInv
<1> HIDE DEF u
<1>2. PageInv(u)
  BY <1>1 DEF PageInv, Connected, Polled, Syncing
<1>3. QED
  BY <1>2 DEF u

\* One more request that is not for a ticket.
LEMMA SendKeeps ==
  ASSUME NEW t, PageInv(t), NEW r \in Requests, Sound(r), r.task # "connect"
  PROVE  PageInv(Send(t, r))
<1> DEFINE u == [t EXCEPT !.requests = t.requests \cup {r}]
<1>1. t \in Pages /\ t.requests \cup {r} \in SUBSET Requests
  BY PageFields DEF PageInv, Core, Typed
<1>2. /\ u \in Pages /\ u.requests = t.requests \cup {r}
      /\ u.csrf = t.csrf /\ u.cookie = t.cookie /\ u.id = t.id /\ u.phase = t.phase
      /\ u.socket = t.socket /\ u.connecting = t.connecting /\ u.timer = t.timer
      /\ u.polling = t.polling /\ u.orphans = t.orphans /\ u.newest = t.newest
      /\ u.wentBack = t.wentBack /\ u.gaveUp = t.gaveUp
  BY <1>1, Requested
<1> HIDE DEF u
<1>3. Typed(u)
  BY <1>2 DEF PageInv, Core, Typed
<1>4. Alike(t, u)
  BY <1>2 DEF Alike
<1>5. PollsAlike(t, u)
  BY <1>2 DEF PollsAlike, Syncing
<1>6. PageInv(u)
  BY <1>3, <1>4, <1>5, AlikeRest
<1>7. QED
  BY <1>6 DEF Send, u

\* Another socket state of the same session, as its requests and closes make it.
LEMMA SocketMoves ==
  ASSUME NEW t, PageInv(t), t.socket.ready # "none",
         NEW s \in Sockets, s.id = t.socket.id, s.ready # "none",
         s.ready \in {"connecting", "open"} => t.socket.ready \in {"connecting", "open"}
  PROVE  PageInv([t EXCEPT !.socket = s])
<1> DEFINE u == [t EXCEPT !.socket = s]
<1>1. t \in Pages
  BY DEF PageInv, Core, Typed
<1>2. /\ u \in Pages /\ u.socket = s /\ u.requests = t.requests
      /\ u.csrf = t.csrf /\ u.id = t.id /\ u.phase = t.phase
      /\ u.connecting = t.connecting /\ u.timer = t.timer
      /\ u.polling = t.polling /\ u.orphans = t.orphans
      /\ u.newest = t.newest /\ u.wentBack = t.wentBack /\ u.gaveUp = t.gaveUp
  BY <1>1 DEF Pages
<1> HIDE DEF u
<1>3. \A id : Asks(u, id) = Asks(t, id)
  BY <1>2 DEF Asks
<1>4. Typed(u) /\ Channel(u) /\ Noted(u)
  BY <1>2, <1>3 DEF PageInv, Core, Typed, Channel, Noted, Asking
<1>5. Tickets(u)
  BY <1>2, <1>3 DEF PageInv, Core, Tickets, Asking
<1>6. Connected(u) /\ Polled(u)
  BY <1>2, <1>3 DEF PageInv, Connected, Polled, Syncing, Linked, Active, Asking
<1>7. QED
  BY <1>4, <1>5, <1>6 DEF PageInv, Core, u

\* A publication, of which a socket that has not joined sees nothing.
LEMMA PublishKeeps ==
  ASSUME NEW t, PageInv(t), NEW kind \in {"snapshot", "changed", "ended", "rejected"},
         NEW session \in Sessions
  PROVE  PageInv(Publish(t, kind, session))
<1>1. CASE ~ t.socket.joined \/ t.socket.ended
  BY <1>1 DEF Publish
<1>2. CASE ~(~ t.socket.joined \/ t.socket.ended)
  <2> DEFINE e == Event(kind, session)
             all == Append(t.socket.inbox, e)
             inbox == IF Len(all) > Ring THEN Tail(all) ELSE all
  <2>1. t \in Pages /\ t.socket \in Sockets
    BY PageFields DEF PageInv, Core, Typed
  <2>2. e \in Events
    BY DEF Event, Events, Sessions
  <2>3. t.socket.inbox \in Seq(Events)
    BY <2>1 DEF Sockets
  <2> HIDE DEF e
  <2>4. all \in Seq(Events) /\ all # << >>
    <3>1. all \in Seq(Events) /\ Len(all) = Len(t.socket.inbox) + 1
      BY ONLY <2>2, <2>3
    <3>2. Len(t.socket.inbox) \in Nat
      BY ONLY <2>3
    <3> HIDE DEF all
    <3>3. Len(all) # 0
      BY ONLY <3>1, <3>2
    <3>4. QED
      BY ONLY <3>1, <3>3
  <2>5. inbox \in Seq(Events)
    BY <2>4
  <2> HIDE DEF inbox
  <2> DEFINE s == [t.socket EXCEPT !.inbox = inbox]
  <2>6. s \in Sockets /\ s.id = t.socket.id /\ s.ready = t.socket.ready
    BY <2>1, <2>5 DEF Sockets
  <2>7. t.socket.ready # "none"
    BY <1>2, NoSocketTyped DEF PageInv, Core, Channel
  <2>8. Publish(t, kind, session) = [t EXCEPT !.socket = s]
    BY <1>2, <2>1 DEF Publish, inbox, e, Pages, Sockets
  <2> HIDE DEF s
  <2>9. QED
    BY <2>6, <2>7, <2>8, SocketMoves
<1>3. QED
  BY <1>1, <1>2

\* A request that another takes the place of: its answer, or the next attempt.
LEMMA AnswerKeeps ==
  ASSUME NEW t, PageInv(t), NEW r \in t.requests, NEW a \in Requests, Sound(a),
         a.task = r.task, r.task = "connect" => a.id = r.id
  PROVE  PageInv(Send(Done(t, r), a))
<1> DEFINE u == [t EXCEPT !.requests = (t.requests \ {r}) \cup {a}]
<1>1. t \in Pages /\ (t.requests \ {r}) \cup {a} \in SUBSET Requests
  BY PageFields DEF PageInv, Core, Typed
<1>2. /\ u \in Pages /\ u.requests = (t.requests \ {r}) \cup {a}
      /\ u.csrf = t.csrf /\ u.cookie = t.cookie /\ u.id = t.id /\ u.phase = t.phase
      /\ u.socket = t.socket /\ u.connecting = t.connecting /\ u.timer = t.timer
      /\ u.polling = t.polling /\ u.orphans = t.orphans /\ u.newest = t.newest
      /\ u.wentBack = t.wentBack /\ u.gaveUp = t.gaveUp
  BY <1>1, Requested
<1>3. Send(Done(t, r), a) = u
  BY <1>1 DEF Send, Done, Pages
<1> HIDE DEF u
<1>4. \A id : \/ Asks(u, id) = Asks(t, id)
              \/ r \in Asks(t, id) /\ Asks(u, id) = (Asks(t, id) \ {r}) \cup {a}
  BY <1>2 DEF Asks
<1>5. \A id : Asking(u, id) <=> Asking(t, id)
  BY <1>4 DEF Asking
<1>6. Typed(u)
  BY <1>2 DEF PageInv, Core, Typed
<1>7. Channel(u) /\ Noted(u)
  BY <1>2, <1>5 DEF PageInv, Core, Channel, Noted
<1>8. Tickets(u)
  <2>1. u.orphans => u.wentBack
    BY <1>2 DEF PageInv, Core, Tickets
  <2>2. ASSUME ~u.wentBack
        PROVE  /\ u.id \in {0, u.newest}
               /\ \A q \in u.requests : q.task = "connect" => q.id <= u.newest
               /\ Asking(u, u.newest) =>
                    /\ u.connecting = u.newest
                    /\ u.socket.ready \notin {"connecting", "open"}
    BY <1>2, <1>5, <2>2 DEF PageInv, Core, Tickets
  <2>3. ASSUME ~u.wentBack PROVE \A p, q \in Asks(u, u.newest) : p = q
    <3>1. \A p, q \in Asks(t, u.newest) : p = q
      BY <1>2, <2>3 DEF PageInv, Core, Tickets
    <3>2. QED
      BY <1>4, <3>1
  <2>4. QED
    BY <2>1, <2>2, <2>3 DEF Tickets
<1>9. Syncing(t) => Syncing(u)
  BY <1>2 DEF Syncing
<1>10. Connected(u) /\ Polled(u)
  BY <1>2, <1>5, <1>9 DEF PageInv, Connected, Polled, Linked, Active
<1>11. QED
  BY <1>3, <1>6, <1>7, <1>8, <1>10 DEF PageInv, Core

\* The end of a transition concerns none but the request that waited for it.
LEMMA ConcludeKeeps ==
  ASSUME NEW t, PageInv(t), NEW status \in {"ok", "error"}, NEW session \in Sessions
  PROVE  PageInv(Conclude(t, status, session))
<1> DEFINE waiting == {r \in t.requests : r.status = "serving"}
           ended == {[r EXCEPT !.status = status, !.answer = session] : r \in waiting}
           u == [t EXCEPT !.requests = (t.requests \ waiting) \cup ended]
<1>1. t \in Pages /\ t.requests \in SUBSET Requests
      /\ \A r \in waiting : r.task \in {"start", "egress", "burn"}
  BY PageFields DEF PageInv, Core, Typed, Sound
<1>2. \A r \in ended : r \in Requests /\ Sound(r) /\ r.task \in {"start", "egress", "burn"}
  <2>1. ASSUME NEW r \in waiting
        PROVE  LET a == [r EXCEPT !.status = status, !.answer = session]
               IN  a \in Requests /\ a.task = r.task /\ a.status = status
    BY <1>1 DEF Requests
  <2>2. QED
    BY <1>1, <2>1 DEF Sound, Pairing
<1>3. (t.requests \ waiting) \cup ended \in SUBSET Requests
  BY <1>1, <1>2
<1> HIDE DEF ended
<1>4. /\ u \in Pages /\ u.requests = (t.requests \ waiting) \cup ended
      /\ u.csrf = t.csrf /\ u.cookie = t.cookie /\ u.id = t.id /\ u.phase = t.phase
      /\ u.socket = t.socket /\ u.connecting = t.connecting /\ u.timer = t.timer
      /\ u.polling = t.polling /\ u.orphans = t.orphans /\ u.newest = t.newest
      /\ u.wentBack = t.wentBack /\ u.gaveUp = t.gaveUp
  BY <1>1, <1>3, Requested
<1>5. Conclude(t, status, session) = u
  BY DEF Conclude, ended
<1> HIDE DEF u
<1>6. Typed(u)
  BY <1>2, <1>4 DEF PageInv, Core, Typed
<1>7. \A r : r.task \in {"connect", "sync"} => (r \in u.requests <=> r \in t.requests)
  BY <1>1, <1>2, <1>4
<1>8. Alike(t, u)
  BY <1>4, <1>7 DEF Alike
<1>9. PollsAlike(t, u)
  BY <1>4, <1>7 DEF PollsAlike, Syncing
<1>10. QED
  BY <1>5, <1>6, <1>8, <1>9, AlikeRest

-----------------------------------------------------------------------------
\* While the ticket of a session is being dealt with, its id may still be noted
\* although its request is gone; nobody else asks for the newest session then.
Pending(t, id) ==
  /\ Typed(t) /\ Channel(t) /\ Tickets(t)
  /\ t.connecting # 0 => t.connecting = id \/ Asking(t, t.connecting)
  /\ ~t.wentBack => ~(Asking(t, t.newest) /\ id = t.newest)

LEMMA CoreIsPending ==
  ASSUME NEW t
  PROVE  Core(t) <=> Pending(t, 0)
<1>1. Typed(t) => ~Asking(t, 0)
  BY DEF Typed, Sound, Asking, Asks
<1>2. QED
  BY <1>1 DEF Core, Noted, Pending

\* scheduleEventReconnect.
LEMMA ScheduleKeeps ==
  ASSUME NEW t, NEW i, Pending(t, i), Polled(t), NEW id \in Nat
  PROVE  LET u == ScheduleEventReconnect(t, id)
         IN  /\ Pending(u, i) /\ Polled(u)
             /\ Active(u) /\ u.id = id /\ id # 0 => u.timer # 0
             /\ u.csrf = t.csrf /\ u.id = t.id /\ u.phase = t.phase
             /\ u.requests = t.requests /\ u.socket = t.socket
             /\ t.timer # 0 => u.timer = t.timer
<1> DEFINE u == [t EXCEPT !.timer = id]
<1>1. t \in Pages
  BY DEF Pending, Typed
<1>2. CASE ~(t.timer = 0 /\ Active(t) /\ t.id = id)
  <2>1. ScheduleEventReconnect(t, id) = t
    BY <1>2 DEF ScheduleEventReconnect
  <2>2. QED
    BY <1>2, <2>1
<1>3. CASE t.timer = 0 /\ Active(t) /\ t.id = id
  <2>1. /\ u \in Pages /\ u.socket = t.socket /\ u.requests = t.requests
        /\ u.csrf = t.csrf /\ u.id = t.id /\ u.phase = t.phase
        /\ u.connecting = t.connecting /\ u.timer = id
        /\ u.polling = t.polling /\ u.orphans = t.orphans
        /\ u.newest = t.newest /\ u.wentBack = t.wentBack /\ u.gaveUp = t.gaveUp
    BY <1>1 DEF Pages
  <2>2. ScheduleEventReconnect(t, id) = u
    BY <1>3 DEF ScheduleEventReconnect
  <2> HIDE DEF u
  <2>3. \A n : Asks(u, n) = Asks(t, n)
    BY <2>1 DEF Asks
  <2>4. Pending(u, i)
    BY <1>3, <2>1, <2>3 DEF Pending, Typed, Channel, Tickets, Asking, Active
  <2>5. Polled(u)
    BY <2>1 DEF Polled, Syncing
  <2>6. QED
    BY <1>3, <2>1, <2>2, <2>4, <2>5
<1>4. QED
  BY <1>2, <1>3

\* The listener of close: the socket has no name any more, and a page that is still
\* active tries again.
LEMMA CloseKeeps ==
  ASSUME NEW t, PageInv(t), t.socket.ready # "none"
  PROVE  PageInv(CloseEvent(t))
<1> DEFINE v == [t EXCEPT !.socket = NoSocket]
           id == t.socket.id
           u == ScheduleEventReconnect(v, id)
<1>1. t \in Pages /\ id \in Nat /\ id = t.id /\ id # 0
  BY PageFields DEF PageInv, Core, Typed, Channel, Sockets
<1>2. /\ v \in Pages /\ v.socket = NoSocket /\ v.requests = t.requests
      /\ v.csrf = t.csrf /\ v.id = t.id /\ v.phase = t.phase
      /\ v.connecting = t.connecting /\ v.timer = t.timer
      /\ v.polling = t.polling /\ v.orphans = t.orphans
      /\ v.newest = t.newest /\ v.wentBack = t.wentBack /\ v.gaveUp = t.gaveUp
  BY <1>1, NoSocketTyped DEF Pages
<1> HIDE DEF v
<1>3. \A n : Asks(v, n) = Asks(t, n)
  BY <1>2 DEF Asks
<1>4. Core(v) /\ Polled(v)
  BY <1>2, <1>3, NoSocketTyped
  DEF PageInv, Core, Typed, Channel, Tickets, Noted, Asking, Polled, Syncing
<1>5. Pending(v, 0)
  BY <1>4, CoreIsPending
<1>6. /\ Pending(u, 0) /\ Polled(u)
      /\ Active(u) /\ u.id = id /\ id # 0 => u.timer # 0
      /\ u.id = v.id
  BY <1>1, <1>4, <1>5, ScheduleKeeps
<1> HIDE DEF u
<1>7. Core(u)
  BY <1>6, CoreIsPending
<1>8. Connected(u)
  BY <1>1, <1>2, <1>6 DEF Connected, Linked
<1>9. QED
  BY <1>6, <1>7, <1>8 DEF PageInv, CloseEvent, u, v

\* The finally of connectEvents: the id is not noted any more, and a page without a
\* socket asks again if it shows another session by now.
LEMMA FinallyKeeps ==
  ASSUME NEW t, NEW id, Pending(t, id), Connected(t), Polled(t)
  PROVE  PageInv(Finally(t, id))
<1> DEFINE u == IF t.connecting = id THEN [t EXCEPT !.connecting = 0] ELSE t
<1>1. t \in Pages
  BY DEF Pending, Typed
<1>2. /\ u \in Pages /\ u.socket = t.socket /\ u.requests = t.requests
      /\ u.csrf = t.csrf /\ u.id = t.id /\ u.phase = t.phase
      /\ u.connecting = (IF t.connecting = id THEN 0 ELSE t.connecting)
      /\ u.timer = t.timer /\ u.polling = t.polling /\ u.orphans = t.orphans
      /\ u.newest = t.newest /\ u.wentBack = t.wentBack /\ u.gaveUp = t.gaveUp
  BY <1>1 DEF Pages
<1>3. Finally(t, id) = IF u.csrf # 0 /\ u.id \notin {0, id} /\ u.socket = NoSocket
                       THEN ConnectEvents(u) ELSE u
  BY DEF Finally
<1> HIDE DEF u
<1>4. \A n : Asks(u, n) = Asks(t, n)
  BY <1>2 DEF Asks
<1>5. Typed(u) /\ Channel(u) /\ Noted(u)
  BY <1>2, <1>4 DEF Pending, Typed, Channel, Noted, Asking
<1>6. Tickets(u)
  BY <1>2, <1>4 DEF Pending, Tickets, Asking
<1>7. Core(u) /\ Connected(u) /\ Polled(u)
  BY <1>2, <1>4, <1>5, <1>6 DEF Core, Connected, Polled, Syncing, Linked, Asking, Active
<1>8. CASE u.csrf # 0 /\ u.id \notin {0, id} /\ u.socket = NoSocket
  <2> DEFINE w == ConnectEvents(u)
  <2>1. Core(w) /\ Keeps(u, w) /\ Linked(w)
    BY <1>7, <1>8, ConnectEventsKeeps
  <2> HIDE DEF w
  <2>2. PageInv(w)
    BY <1>7, <2>1 DEF PageInv, Connected, Polled, Syncing, Keeps
  <2>3. QED
    BY <1>3, <1>8, <2>2 DEF w
<1>9. CASE ~(u.csrf # 0 /\ u.id \notin {0, id} /\ u.socket = NoSocket)
  BY <1>3, <1>7, <1>9 DEF PageInv
<1>10. QED
  BY <1>8, <1>9

\* A page that has taken a request off its list.
LEMMA Taken ==
  ASSUME NEW t, PageInv(t), NEW r \in t.requests
  PROVE  LET u == Done(t, r)
         IN  /\ u \in Pages /\ u.requests = t.requests \ {r}
             /\ u.csrf = t.csrf /\ u.cookie = t.cookie /\ u.id = t.id /\ u.phase = t.phase
             /\ u.socket = t.socket /\ u.connecting = t.connecting /\ u.timer = t.timer
             /\ u.polling = t.polling /\ u.orphans = t.orphans /\ u.newest = t.newest
             /\ u.wentBack = t.wentBack /\ u.gaveUp = t.gaveUp
             /\ Typed(u) /\ Channel(u)
             /\ r.task # "connect" => Core(u)
             /\ r.task \notin {"connect", "sync"} => PageInv(u)
<1> DEFINE R == t.requests \ {r}
           u == [t EXCEPT !.requests = R]
<1>1. t \in Pages /\ R \in SUBSET Requests
  BY PageFields DEF PageInv, Core, Typed
<1> HIDE DEF R
<1>2. /\ u \in Pages /\ u.requests = R
      /\ u.csrf = t.csrf /\ u.cookie = t.cookie /\ u.id = t.id /\ u.phase = t.phase
      /\ u.socket = t.socket /\ u.connecting = t.connecting /\ u.timer = t.timer
      /\ u.polling = t.polling /\ u.orphans = t.orphans /\ u.newest = t.newest
      /\ u.wentBack = t.wentBack /\ u.gaveUp = t.gaveUp
  BY <1>1, Requested
<1>3. Done(t, r) = u
  BY DEF Done, R
<1> HIDE DEF u
<1>4. Typed(u) /\ Channel(u)
  BY <1>2 DEF PageInv, Core, Typed, Channel, R
<1>5. r.task # "connect" => Alike(t, u)
  BY <1>2 DEF Alike, R
<1>6. r.task # "sync" => PollsAlike(t, u)
  BY <1>2 DEF PollsAlike, Syncing, R
<1>7. r.task # "connect" => Core(u)
  BY <1>4, <1>5, AlikeCore DEF PageInv
<1>8. r.task \notin {"connect", "sync"} => PageInv(u)
  BY <1>4, <1>5, <1>6, AlikeRest
<1>9. QED
  BY <1>2, <1>3, <1>4, <1>7, <1>8 DEF R

\* An answered request as its task takes it up.
Taking(t, r, a) ==
  /\ PageInv(t) /\ r \in t.requests
  /\ a \in Requests /\ Sound(a) /\ a.task = r.task /\ a.id = r.id
  /\ a.status \in {"ok", "auth", "error"}

\* openSocket, at the end of connectEvents: no other socket of the session is left
\* behind, unless the page went back to an older session.
LEMMA SocketOpened ==
  ASSUME NEW t, NEW r, NEW a, Taking(t, r, a), r.task = "connect", t.csrf # 0, t.id = r.id
  PROVE  LET u == OpenSocket(Done(t, r), a)
         IN  Pending(u, r.id) /\ Connected(u) /\ Polled(u)
<1> DEFINE d == Done(t, r)
           s == [NoSocket EXCEPT !.id = a.id, !.ready = "connecting", !.lease = a.lease]
           lost == d.orphans \/ d.socket.ready \in {"connecting", "open"}
<1>1. /\ d \in Pages /\ d.requests = t.requests \ {r}
      /\ d.csrf = t.csrf /\ d.id = t.id /\ d.phase = t.phase
      /\ d.socket = t.socket /\ d.connecting = t.connecting /\ d.timer = t.timer
      /\ d.polling = t.polling /\ d.orphans = t.orphans /\ d.newest = t.newest
      /\ d.wentBack = t.wentBack /\ d.gaveUp = t.gaveUp
      /\ Typed(d) /\ Channel(d)
  BY Taken DEF Taking
<1>2. a.id \in Nat /\ a.lease \in Nat /\ r.id # 0
  BY DEF Taking, PageInv, Core, Typed, Sound, Requests
<1>3. s \in Sockets /\ s.id = a.id /\ s.ready = "connecting"
  BY <1>2, NoSocketTyped DEF Sockets
<1>4. lost \in BOOLEAN
  BY <1>1, PageFields
<1> HIDE DEF d, s
<1>5. PICK b \in BOOLEAN : b = lost
  BY <1>4
<1> DEFINE u == [d EXCEPT !.orphans = b, !.socket = s]
<1>6. OpenSocket(d, a) = u
  BY <1>5 DEF OpenSocket, s
<1>7. /\ u \in Pages /\ u.socket = s /\ u.orphans = b /\ u.requests = d.requests
      /\ u.csrf = d.csrf /\ u.id = d.id /\ u.phase = d.phase
      /\ u.connecting = d.connecting /\ u.timer = d.timer
      /\ u.polling = d.polling
      /\ u.newest = d.newest /\ u.wentBack = d.wentBack /\ u.gaveUp = d.gaveUp
  BY <1>1, <1>3 DEF Pages
<1> HIDE DEF u, lost
<1>8. Asks(u, r.id) = Asks(t, r.id) \ {r} /\ \A n : n # r.id => Asks(u, n) = Asks(t, n)
  BY <1>1, <1>7 DEF Asks
<1>9. Typed(u) /\ Channel(u)
  BY <1>1, <1>2, <1>3, <1>7 DEF Taking, Typed, Channel
<1>10. ASSUME ~u.wentBack
       PROVE  /\ u.id = u.newest /\ r.id = u.newest /\ Asks(u, u.newest) = {}
              /\ ~u.orphans
              /\ \A q \in u.requests : q.task = "connect" => q.id <= u.newest
  <2>1. /\ ~t.wentBack /\ ~t.orphans /\ t.id \in {0, t.newest}
        /\ \A q \in t.requests : q.task = "connect" => q.id <= t.newest
        /\ \A p, q \in Asks(t, t.newest) : p = q
        /\ Asking(t, t.newest) =>
             t.connecting = t.newest /\ t.socket.ready \notin {"connecting", "open"}
    BY <1>1, <1>7, <1>10 DEF Taking, PageInv, Core, Tickets
  <2>2. t.newest = r.id
    BY <1>2, <2>1
  <2>3. r \in Asks(t, t.newest)
    BY <2>2 DEF Taking, Asks
  <2>4. Asks(u, u.newest) = {}
    BY <1>1, <1>7, <1>8, <2>1, <2>2, <2>3
  <2>5. ~u.orphans
    BY <1>1, <1>5, <1>7, <2>1, <2>3 DEF Asking, lost
  <2>6. QED
    BY <1>1, <1>7, <2>1, <2>2, <2>4, <2>5
<1>11. Tickets(u)
  BY <1>10 DEF Tickets, Asking
<1>12. u.connecting # 0 => u.connecting = r.id \/ Asking(u, u.connecting)
  BY <1>1, <1>7, <1>8 DEF Taking, PageInv, Core, Noted, Asking
<1>13. Pending(u, r.id)
  BY <1>9, <1>10, <1>11, <1>12 DEF Pending, Asking
<1>14. Connected(u)
  BY <1>3, <1>7 DEF Connected, Linked
<1>15. Polled(u)
  BY <1>1, <1>7 DEF Taking, PageInv, Polled, Syncing
<1>16. QED
  BY <1>6, <1>13, <1>14, <1>15 DEF d

\* A ticket that came to nothing, while its page shows something else or is to be
\* asked again by the timer.
LEMMA TicketGone ==
  ASSUME NEW t, NEW r, NEW a, Taking(t, r, a), r.task = "connect"
  PROVE  /\ Pending(Done(t, r), r.id) /\ Polled(Done(t, r))
         /\ t.csrf = 0 \/ t.id # r.id => Connected(Done(t, r))
<1> DEFINE d == Done(t, r)
<1>1. /\ d \in Pages /\ d.requests = t.requests \ {r}
      /\ d.csrf = t.csrf /\ d.id = t.id /\ d.phase = t.phase
      /\ d.socket = t.socket /\ d.connecting = t.connecting /\ d.timer = t.timer
      /\ d.polling = t.polling /\ d.orphans = t.orphans /\ d.newest = t.newest
      /\ d.wentBack = t.wentBack /\ d.gaveUp = t.gaveUp
      /\ Typed(d) /\ Channel(d)
  BY Taken DEF Taking
<1> HIDE DEF d
<1>2. Asks(d, r.id) = Asks(t, r.id) \ {r} /\ \A n : n # r.id => Asks(d, n) = Asks(t, n)
  BY <1>1 DEF Asks
<1>3. r \in Asks(t, r.id)
  BY DEF Taking, Asks
<1>4. \A n : Asks(d, n) \subseteq Asks(t, n)
  BY <1>2
<1>5. Tickets(d)
  BY <1>1, <1>4 DEF Taking, PageInv, Core, Tickets, Asking
<1>6. ~d.wentBack => ~(Asking(d, d.newest) /\ r.id = d.newest)
  BY <1>1, <1>2, <1>3 DEF Taking, PageInv, Core, Tickets, Asking
<1>7. d.connecting # 0 => d.connecting = r.id \/ Asking(d, d.connecting)
  BY <1>1, <1>2 DEF Taking, PageInv, Core, Noted, Asking
<1>8. Pending(d, r.id)
  BY <1>1, <1>5, <1>6, <1>7 DEF Pending
<1>9. Syncing(t) => Syncing(d)
  BY <1>1 DEF Syncing
<1>10. Polled(d)
  BY <1>1, <1>9 DEF Taking, PageInv, Polled
<1>11. t.csrf = 0 \/ t.id # r.id => Connected(d)
  BY <1>1, <1>2, <1>9 DEF Taking, PageInv, Connected, Linked, Active, Asking
<1>12. QED
  BY <1>8, <1>10, <1>11 DEF d

\* connectEvents after its await.
LEMMA TicketKeeps ==
  ASSUME NEW t, NEW r, NEW a, Taking(t, r, a), r.task = "connect"
  PROVE  PageInv(Ticket(Done(t, r), a))
<1> DEFINE d == Done(t, r)
<1>1. /\ Pending(d, r.id) /\ Polled(d)
      /\ t.csrf = 0 \/ t.id # r.id => Connected(d)
  BY TicketGone
<1>2. d.csrf = t.csrf /\ d.id = t.id /\ d.phase = t.phase
  BY Taken DEF Taking
<1>3. a.id = r.id /\ r.id \in Nat
  BY DEF Taking, Requests
<1>4. CASE d.csrf = 0 \/ d.id # a.id
  <2>1. PageInv(Finally(d, r.id))
    BY <1>1, <1>2, <1>3, <1>4, FinallyKeeps
  <2>2. QED
    BY <1>3, <1>4, <2>1 DEF Ticket
<1>5. CASE ~(d.csrf = 0 \/ d.id # a.id) /\ a.status = "ok"
  <2> DEFINE u == OpenSocket(d, a)
  <2>1. Pending(u, r.id) /\ Connected(u) /\ Polled(u)
    BY <1>2, <1>3, <1>5, SocketOpened
  <2> HIDE DEF u
  <2>2. PageInv(Finally(u, r.id))
    BY <2>1, FinallyKeeps
  <2>3. QED
    BY <1>3, <1>5, <2>2 DEF Ticket, u
<1>6. CASE ~(d.csrf = 0 \/ d.id # a.id) /\ a.status # "ok"
  <2> DEFINE u == ScheduleEventReconnect(d, r.id)
             f == Finally(u, r.id)
  <2>1. /\ Pending(u, r.id) /\ Polled(u)
        /\ Active(u) /\ u.id = r.id /\ r.id # 0 => u.timer # 0
        /\ u.id = d.id
    BY <1>1, <1>3, ScheduleKeeps
  <2> HIDE DEF u
  <2>2. Connected(u)
    BY <1>3, <1>6, <2>1 DEF Connected, Linked
  <2>3. PageInv(f)
    BY <2>1, <2>2, FinallyKeeps
  <2> HIDE DEF f
  <2>4. PageInv(HandleActionError(f, a.status))
    BY <2>3, HandleActionErrorKeeps
  <2>5. QED
    BY <1>3, <1>6, <2>4 DEF Ticket, u, f
<1>7. QED
  BY <1>4, <1>5, <1>6

\* pair, once the daemon has answered: with new credentials nothing that was shown
\* counts until it has been synchronised.
LEMMA ExchangedKeeps ==
  ASSUME NEW t, NEW r, NEW a, Taking(t, r, a), r.task = "exchange"
  PROVE  PageInv(Exchanged(Done(t, r), a))
<1> DEFINE d == Done(t, r)
<1>1. PageInv(d)
  BY Taken DEF Taking
<1>2. d \in Pages /\ a.lease \in Nat /\ a.from \in {"form", "boot"}
  BY <1>1 DEF PageInv, Core, Typed, Taking, Sound, Pairing, Requests
<1> HIDE DEF d
<1>3. CASE a.status = "ok"
  <2> DEFINE s == [d EXCEPT !.csrf = a.lease, !.cookie = a.lease, !.dialog = FALSE,
                            !.gaveUp = FALSE]
             q0 == Request(s, "sync", 0)
             q == [q0 EXCEPT !.from = a.from]
             u == [s EXCEPT !.requests = s.requests \cup {q}]
  <2>1. a.lease # 0
    BY <1>3 DEF Taking, Sound
  <2>2. /\ s \in Pages /\ s.requests = d.requests /\ s.csrf = a.lease
        /\ s.id = d.id /\ s.phase = d.phase
        /\ s.socket = d.socket /\ s.connecting = d.connecting /\ s.timer = d.timer
        /\ s.polling = d.polling /\ s.orphans = d.orphans /\ s.newest = d.newest
        /\ s.wentBack = d.wentBack
    BY <1>2 DEF Pages
  <2> HIDE DEF s
  <2>3. q0 \in Requests /\ q0.task = "sync" /\ q0.status = "sent"
    <3>1. "sync" \in Actions \cup Pairing \cup {"connect"} /\ 0 \in Nat /\ s \in Pages
      BY <2>2 DEF Pairing
    <3>2. QED
      BY ONLY <3>1, Sent
  <2> HIDE DEF q0
  <2>4. q \in Requests /\ q.task = "sync" /\ q.status = "sent" /\ q.from = a.from
    <3>1. a.from \in {"form", "boot", "ok", "auth", "error"}
      BY <1>2
    <3>2. QED
      BY ONLY <2>3, <3>1, SentFrom DEF q
  <2> HIDE DEF q
  <2>5. s.requests \cup {q} \in SUBSET Requests
    BY <2>2, <2>4, PageFields
  <2>6. /\ u \in Pages /\ u.requests = s.requests \cup {q}
        /\ u.csrf = s.csrf /\ u.id = s.id /\ u.phase = s.phase
        /\ u.socket = s.socket /\ u.connecting = s.connecting /\ u.timer = s.timer
        /\ u.polling = s.polling /\ u.orphans = s.orphans /\ u.newest = s.newest
        /\ u.wentBack = s.wentBack /\ u.gaveUp = s.gaveUp
    BY <2>2, <2>5, Requested
  <2>7. Exchanged(d, a) = u
    BY <1>3 DEF Exchanged, Send, q, q0, s
  <2> HIDE DEF u
  <2>8. \A n : Asks(u, n) = Asks(d, n)
    BY <2>2, <2>4, <2>6 DEF Asks
  <2>9. Typed(u)
    BY <1>1, <1>2, <2>2, <2>4, <2>6 DEF PageInv, Core, Typed, Sound
  <2>10. Channel(u) /\ Noted(u)
    BY <1>1, <2>1, <2>2, <2>6, <2>8 DEF PageInv, Core, Channel, Noted, Asking
  <2>11. Tickets(u)
    <3>1. \A p \in u.requests : p.task = "connect" => p \in d.requests
      BY <2>2, <2>4, <2>6
    <3>2. QED
      BY <1>1, <2>2, <2>6, <2>8, <3>1 DEF PageInv, Core, Tickets, Asking
  <2>12. Syncing(u)
    BY <2>4, <2>6 DEF Syncing
  <2>13. QED
    BY <2>7, <2>9, <2>10, <2>11, <2>12 DEF PageInv, Core, Connected, Polled, d
<1>4. CASE a.status # "ok"
  <2>1. PageInv(IF a.from = "boot" THEN ShowPairingDialog(d) ELSE d)
    BY <1>1, ControlsKeep
  <2>2. QED
    BY <1>4, <2>1, ControlsKeep DEF Exchanged, d
<1>5. QED
  BY <1>3, <1>4

\* syncAfterPairing: it ends with the page polling, locked, or given up.
LEMMA SyncedKeeps ==
  ASSUME NEW t, NEW r, NEW a, Taking(t, r, a), r.task = "sync"
  PROVE  PageInv(Synced(Done(t, r), a))
<1> DEFINE d == Done(t, r)
<1>1. Core(d)
  BY Taken DEF Taking
<1>2. /\ a \in Requests /\ a.answer \in Sessions /\ a.attempt \in Nat
      /\ a.from \in {"form", "boot"} /\ a.task = "sync"
  BY DEF Taking, Sound, Pairing, Requests
<1>3. CASE a.status = "ok"
  <2> DEFINE v == RenderSession(d, a.answer)
             u == [v EXCEPT !.polling = TRUE]
  <2>1. Core(v) /\ (Active(v) /\ v.id # 0 => Linked(v))
    BY <1>1, <1>2, RenderKeeps
  <2>2. Synced(d, a) = PairingOver(u, a.from)
    BY <1>3 DEF Synced, StartMetricPolling
  <2> HIDE DEF v
  <2>3. /\ u \in Pages /\ u.polling = TRUE /\ u.requests = v.requests
        /\ u.csrf = v.csrf /\ u.id = v.id /\ u.phase = v.phase
        /\ u.socket = v.socket /\ u.connecting = v.connecting /\ u.timer = v.timer
        /\ u.orphans = v.orphans /\ u.newest = v.newest
        /\ u.wentBack = v.wentBack /\ u.gaveUp = v.gaveUp
    BY <2>1 DEF Core, Typed, Pages
  <2> HIDE DEF u
  <2>4. Alike(v, u) /\ Typed(u)
    BY <2>1, <2>3 DEF Alike, Core, Typed
  <2>5. Core(u)
    BY <2>1, <2>4, AlikeCore
  <2>6. Connected(u)
    BY <2>1, <2>3, <2>4, AlikeAsks DEF Connected, Linked, Active
  <2>7. PageInv(u)
    BY <2>3, <2>5, <2>6 DEF PageInv, Polled
  <2>8. QED
    BY <2>2, <2>7, ControlsKeep
<1>4. CASE a.status = "auth"
  <2>1. PageInv(LockAuthentication(d))
    BY <1>1, LockKeeps
  <2>2. QED
    BY <1>4, <2>1, ControlsKeep DEF Synced
<1>5. CASE a.status \notin {"ok", "auth"} /\ a.attempt < 2 /\ d.csrf # 0
  <2> DEFINE w == [a EXCEPT !.status = "waiting", !.attempt = @ + 1]
  <2>1. /\ w \in Requests /\ w.task = "sync" /\ w.from = a.from /\ w.status = "waiting"
    <3>1. PICK n \in Nat : n = a.attempt + 1
      BY <1>2
    <3>2. w = [a EXCEPT !.status = "waiting", !.attempt = n]
      BY <3>1
    <3> HIDE DEF w
    <3>3. w \in Requests
      BY <1>2, <3>2 DEF Requests
    <3>4. w.task = "sync" /\ w.from = a.from /\ w.status = "waiting"
      BY <1>2, <3>2 DEF Requests
    <3>5. QED
      BY <3>3, <3>4
  <2> HIDE DEF w
  <2>2. Sound(w)
    BY <1>2, <2>1 DEF Sound
  <2>3. PageInv(Send(Done(t, r), w))
    BY <2>1, <2>2, AnswerKeeps DEF Taking
  <2>4. QED
    BY <1>5, <2>3 DEF Synced, w
<1>6. CASE a.status \notin {"ok", "auth"} /\ ~(a.attempt < 2 /\ d.csrf # 0)
  <2> DEFINE v == RenderSession(d, NoSession)
             u == [v EXCEPT !.gaveUp = TRUE]
  <2>1. NoSession \in Sessions /\ NoSession.id = 0
    BY DEF NoSession, Sessions, Phases
  <2>2. Core(v) /\ v.id = 0
    BY <1>1, <2>1, RenderKeeps
  <2>3. Synced(d, a) = PairingOver(u, a.from)
    BY <1>6 DEF Synced
  <2> HIDE DEF v
  <2>4. /\ u \in Pages /\ u.gaveUp = TRUE /\ u.requests = v.requests
        /\ u.csrf = v.csrf /\ u.id = v.id /\ u.phase = v.phase
        /\ u.socket = v.socket /\ u.connecting = v.connecting /\ u.timer = v.timer
        /\ u.orphans = v.orphans /\ u.newest = v.newest
        /\ u.wentBack = v.wentBack /\ u.polling = v.polling
    BY <2>2 DEF Core, Typed, Pages
  <2> HIDE DEF u
  <2>5. Alike(v, u) /\ Typed(u)
    BY <2>2, <2>4 DEF Alike, Core, Typed
  <2>6. Core(u)
    BY <2>2, <2>5, AlikeCore
  <2>7. PageInv(u)
    BY <2>2, <2>4, <2>6 DEF PageInv, Polled, Connected
  <2>8. QED
    BY <2>3, <2>7, ControlsKeep
<1>7. QED
  BY <1>3, <1>4, <1>5, <1>6

\* A new request of the page that is not for a ticket.
LEMMA AskedKeeps ==
  ASSUME NEW t, PageInv(t), NEW task \in Actions, NEW id \in Nat,
         NEW from \in {"", "ok", "auth", "error"}
  PROVE  /\ PageInv(Send(t, Request(t, task, id)))
         /\ PageInv(Send(t, [Request(t, task, id) EXCEPT !.from = from]))
<1> DEFINE q == Request(t, task, id)
           p == [q EXCEPT !.from = from]
<1>1. q \in Requests /\ q.task = task /\ q.status = "sent"
  <2>1. t \in Pages /\ task \in Actions \cup Pairing \cup {"connect"} /\ id \in Nat
    BY DEF PageInv, Core, Typed
  <2>2. QED
    BY <2>1 DEF Request, Requests, Pages, NoSession, Sessions, Phases
<1> HIDE DEF q
<1>2. p \in Requests /\ p.task = task /\ p.status = "sent"
  BY <1>1 DEF Requests
<1> HIDE DEF p
<1>3. task \notin Pairing /\ task # "connect" /\ task # "exchange"
  BY DEF Actions, Pairing
<1>4. Sound(q) /\ Sound(p)
  BY <1>1, <1>2, <1>3 DEF Sound
<1>5. PageInv(Send(t, q)) /\ PageInv(Send(t, p))
  BY <1>1, <1>2, <1>3, <1>4, SendKeeps
<1>6. QED
  BY <1>5 DEF p, q

\* setBusy and the form's submit, and a burn that asked first.
LEMMA BusyKeeps ==
  ASSUME NEW t, PageInv(t)
  PROVE  PageInv(SetBusy(t)) /\ PageInv([t EXCEPT !.submit = FALSE])
<1>1. t \in Pages
  BY DEF PageInv, Core, Typed
<1>2. PageInv(SetBusy(t))
  <2> DEFINE u == SetBusy(t)
  <2>1. /\ u \in Pages /\ Alike(t, u)
        /\ u.requests = t.requests /\ u.polling = t.polling /\ u.gaveUp = t.gaveUp
    BY <1>1 DEF SetBusy, Pages, Alike
  <2>2. QED
    BY <2>1, ControlsUnseen
<1>3. PageInv([t EXCEPT !.submit = FALSE])
  <2> DEFINE u == [t EXCEPT !.submit = FALSE]
  <2>1. /\ u \in Pages /\ Alike(t, u)
        /\ u.requests = t.requests /\ u.polling = t.polling /\ u.gaveUp = t.gaveUp
    BY <1>1 DEF Pages, Alike
  <2>2. QED
    BY <2>1, ControlsUnseen
<1>4. QED
  BY <1>2, <1>3

\* burn, once the daemon has burnt: the page forgets its credentials.
LEMMA BurntKeeps ==
  ASSUME NEW t, PageInv(t)
  PROVE  LET s == StopMetricPolling(StopEventChannel([t EXCEPT !.csrf = 0, !.cookie = 0]))
         IN  PageInv(SetFree(ShowPairingDialog(RenderSession(s, NoSession))))
<1> DEFINE v == [t EXCEPT !.csrf = 0, !.cookie = 0]
           w == StopEventChannel(v)
           s == StopMetricPolling(w)
           u == RenderSession(s, NoSession)
           shown == ShowPairingDialog(u)
<1>1. t \in Pages /\ Core(t)
  BY DEF PageInv, Core, Typed
<1>2. /\ v \in Pages /\ v.csrf = 0 /\ v.id = t.id /\ v.connecting = t.connecting
      /\ v.requests = t.requests /\ v.orphans = t.orphans /\ v.newest = t.newest
      /\ v.wentBack = t.wentBack
  BY <1>1 DEF Pages
<1> HIDE DEF v
<1>3. /\ w \in Pages /\ w.csrf = 0 /\ w.socket = NoSocket /\ w.timer = 0 /\ w.id = t.id
      /\ w.connecting = t.connecting /\ w.requests = t.requests
      /\ w.orphans = t.orphans /\ w.newest = t.newest /\ w.wentBack = t.wentBack
  BY <1>2, Stopped
<1> HIDE DEF w
<1>4. /\ s \in Pages /\ s.csrf = 0 /\ s.socket = NoSocket /\ s.timer = 0 /\ s.id = t.id
      /\ s.connecting = t.connecting /\ s.requests = t.requests
      /\ s.orphans = t.orphans /\ s.newest = t.newest /\ s.wentBack = t.wentBack
  BY <1>3 DEF StopMetricPolling, Pages
<1>5. NoSession \in Sessions
  BY DEF NoSession, Sessions, Phases
<1> HIDE DEF s
<1>6. PageInv(u)
  BY <1>1, <1>4, <1>5, CredentialsDropped, ShownLocked
<1> HIDE DEF u
<1>7. PageInv(shown)
  BY <1>6, ControlsKeep
<1> HIDE DEF shown
<1>8. PageInv(SetFree(shown))
  BY <1>7, ControlsKeep
<1>9. QED
  BY <1>8 DEF shown, u, s, w, v

\* The actions of the user after their await.
LEMMA ActedKeeps ==
  ASSUME NEW t, NEW r, NEW a, Taking(t, r, a), r.task \in Actions
  PROVE  PageInv(Acted(Done(t, r), a))
<1> DEFINE d == Done(t, r)
<1>1. PageInv(d)
  <2>1. r.task \notin {"connect", "sync"}
    BY DEF Actions
  <2>2. QED
    BY <2>1, Taken DEF Taking
<1>2. a.answer \in Sessions /\ a.task \in Actions /\ a.status \in {"ok", "auth", "error"}
  BY DEF Taking, Requests
<1> HIDE DEF d
<1>3. SUFFICES PageInv(Acted(d, a))
  BY DEF d
<1>4. CASE a.task = "egress" /\ a.status # "ok"
  <2>1. /\ a.status \in {"", "ok", "auth", "error"} /\ "resync" \in Actions /\ 0 \in Nat
        /\ PageInv(d)
    BY <1>1, <1>2 DEF Actions
  <2>2. PageInv(Send(d, [Request(d, "resync", 0) EXCEPT !.from = a.status]))
    BY ONLY <2>1, AskedKeeps
  <2>3. QED
    BY <1>4, <2>2 DEF Acted
<1>5. CASE ~(a.task = "egress" /\ a.status # "ok") /\ a.task = "resync"
  <2> DEFINE s == IF a.status = "ok" THEN RenderSession(d, a.answer)
                  ELSE HandleActionError(d, a.status)
             u == SetFree(s)
  <2>1. PageInv(s)
    BY <1>1, <1>2, RenderedKeeps, HandleActionErrorKeeps
  <2>2. Acted(d, a) = HandleActionError(u, a.from)
    BY <1>5 DEF Acted
  <2> HIDE DEF s
  <2>3. PageInv(u)
    BY <2>1, ControlsKeep
  <2> HIDE DEF u
  <2>4. QED
    BY <2>2, <2>3, HandleActionErrorKeeps
<1>6. CASE a.task # "resync" /\ a.task # "egress" /\ a.status # "ok"
  <2>1. PageInv(SetFree(d))
    BY <1>1, ControlsKeep
  <2>2. QED
    BY <1>6, <2>1, HandleActionErrorKeeps DEF Acted
<1>7. CASE a.task = "burn" /\ a.status = "ok"
  <2>1. Acted(d, a) =
          SetFree(ShowPairingDialog(RenderSession(
            StopMetricPolling(StopEventChannel([d EXCEPT !.csrf = 0, !.cookie = 0])),
            NoSession)))
    BY <1>7 DEF Acted
  <2>2. QED
    BY <1>1, <2>1, BurntKeeps
<1>8. CASE a.task \notin {"resync", "burn"} /\ a.status = "ok"
  <2> DEFINE s == RenderSession(d, a.answer)
  <2>1. PageInv(s)
    BY <1>1, <1>2, RenderedKeeps
  <2>2. Acted(d, a) = SetFree(s)
    BY <1>8 DEF Acted
  <2> HIDE DEF s
  <2>3. QED
    BY <2>1, <2>2, ControlsKeep
<1>9. QED
  BY <1>2, <1>4, <1>5, <1>6, <1>7, <1>8

\* Whatever is answered, in time or not, and however the network fails.
LEMMA ContinueKeeps ==
  ASSUME NEW t, NEW r, NEW a, Taking(t, r, a)
  PROVE  PageInv(Continue(Done(t, r), a))
<1>1. a.task = r.task /\ r.task \in Actions \cup Pairing \cup {"connect"}
  BY DEF Taking, PageInv, Core, Typed, Pages, Requests
<1>2. CASE r.task = "connect"
  BY <1>1, <1>2, TicketKeeps DEF Continue
<1>3. CASE r.task = "exchange"
  BY <1>1, <1>3, ExchangedKeeps DEF Continue
<1>4. CASE r.task = "sync"
  BY <1>1, <1>4, SyncedKeeps DEF Continue
<1>5. CASE r.task \in Actions
  <2>1. a.task \notin {"connect", "exchange", "sync"}
    BY <1>1, <1>5 DEF Actions
  <2>2. Continue(Done(t, r), a) = Acted(Done(t, r), a)
    BY <2>1 DEF Continue
  <2>3. QED
    BY <1>5, <2>2, ActedKeeps
<1>6. QED
  BY <1>1, <1>2, <1>3, <1>4, <1>5 DEF Pairing

-----------------------------------------------------------------------------
\* The requests of the page, one by one.
LEMMA RequestFields ==
  ASSUME ClientInv, NEW r \in page.requests
  PROVE  /\ r \in Requests /\ Sound(r) /\ r.task \in Actions \cup Pairing \cup {"connect"}
         /\ r.id \in Nat /\ r.answer \in Sessions /\ r.attempt \in Nat
<1>1. r \in Requests /\ Sound(r)
  BY PageFields DEF ClientInv, PageInv, Core, Typed
<1>2. QED
  BY <1>1 DEF Requests

\* The daemon of a state, one field by one.
LEMMA DaemonFields ==
  ASSUME ClientInv
  PROVE  /\ daemon.lease \in Nat /\ daemon.offered \in BOOLEAN /\ daemon.leases \in Nat
         /\ daemon.id \in Nat /\ daemon.phase \in Phases /\ daemon.ids \in Nat
         /\ daemon.job \in {"", "start", "egress", "burn", "watchdog"}
         /\ Of(daemon) \in Sessions
  BY DEF ClientInv, Daemons, Of, Sessions

\* An answer of the daemon, of the kind its task has.
LEMMA AnsweredKeeps ==
  ASSUME ClientInv, NEW r \in page.requests, r.status = "sent",
         NEW status \in {"serving", "ok", "auth", "error"},
         NEW session \in Sessions, NEW lease \in Nat,
         status = "serving" => r.task \in {"start", "egress", "burn"},
         r.task = "exchange" /\ status = "ok" => lease # 0
  PROVE  PageInv(Answer(page, r, status, session, lease))
<1> DEFINE a == [r EXCEPT !.status = status, !.answer = session, !.lease = lease,
                          !.cookie = 0, !.csrf = 0]
<1>1. r \in Requests /\ Sound(r)
  BY RequestFields
<1>2. /\ a \in Requests /\ a.task = r.task /\ a.id = r.id /\ a.status = status
      /\ a.lease = lease /\ a.from = r.from
  BY <1>1 DEF Requests
<1>3. Answer(page, r, status, session, lease) = Send(Done(page, r), a)
  BY DEF Answer
<1> HIDE DEF a
<1>4. Sound(a)
  BY <1>1, <1>2 DEF Sound
<1>5. QED
  BY <1>2, <1>3, <1>4, AnswerKeeps DEF ClientInv

LEMMA NoSessionTyped == NoSession \in Sessions /\ NoSession.id = 0
  BY DEF NoSession, Sessions, Phases

LEMMA RefuseKeeps ==
  ASSUME ClientInv, NEW r \in page.requests, r.status = "sent",
         NEW status \in {"auth", "error"}, Refuse(r, status)
  PROVE  ClientInv'
<1>1. PageInv(Answer(page, r, status, NoSession, 0))
  BY NoSessionTyped, AnsweredKeeps
<1>2. QED
  BY <1>1 DEF Refuse, ClientInv

-----------------------------------------------------------------------------
\* One lemma for each action.
LEMMA ServeExchangeKeeps ==
  ASSUME ClientInv, NEW r \in page.requests, r.status = "sent", ServeExchange(r)
  PROVE  ClientInv'
<1>1. CASE Refuse(r, "error")
  BY <1>1, RefuseKeeps
<1>2. CASE /\ daemon' = [daemon EXCEPT !.offered = FALSE, !.leases = @ + 1,
                                       !.lease = daemon.leases + 1]
           /\ page' = Answer(page, r, "ok", NoSession, daemon.leases + 1)
  <2>1. PICK n \in Nat : n = daemon.leases + 1 /\ n # 0
    <3>1. daemon.leases \in Nat
      BY DaemonFields
    <3>2. daemon.leases + 1 \in Nat /\ daemon.leases + 1 # 0
      BY <3>1
    <3>3. QED
      BY <3>2
  <2>2. PageInv(Answer(page, r, "ok", NoSession, n))
    BY <2>1, NoSessionTyped, AnsweredKeeps
  <2>3. daemon' = [daemon EXCEPT !.offered = FALSE, !.leases = n, !.lease = n]
    BY <1>2, <2>1
  <2>4. daemon' \in Daemons
    BY <2>3 DEF ClientInv, Daemons
  <2>5. QED
    BY <1>2, <2>1, <2>2, <2>4 DEF ClientInv
<1>3. QED
  BY <1>1, <1>2 DEF ServeExchange

LEMMA ServeSnapshotKeeps ==
  ASSUME ClientInv, NEW r \in page.requests, r.status = "sent", ServeSnapshot(r)
  PROVE  ClientInv'
<1>1. CASE Refuse(r, "auth")
  BY <1>1, RefuseKeeps
<1>2. CASE page' = Answer(page, r, "ok", Of(daemon), 0) /\ UNCHANGED <<daemon, incidents>>
  <2>1. r.task # "exchange"
    BY DEF ServeSnapshot
  <2>2. PageInv(Answer(page, r, "ok", Of(daemon), 0))
    BY <2>1, DaemonFields, AnsweredKeeps
  <2>3. QED
    BY <1>2, <2>2 DEF ClientInv
<1>3. QED
  BY <1>1, <1>2 DEF ServeSnapshot

\* What a refusal says.
LEMMA Refusals ==
  ASSUME NEW r
  PROVE  (IF Verdict(r) = "ok" THEN "error" ELSE Verdict(r)) \in {"auth", "error"}
  BY DEF Verdict

LEMMA ServeTicketKeeps ==
  ASSUME ClientInv, NEW r \in page.requests, r.status = "sent", ServeTicket(r)
  PROVE  ClientInv'
<1>1. CASE Refuse(r, IF Verdict(r) = "ok" THEN "error" ELSE Verdict(r))
  BY <1>1, Refusals, RefuseKeeps
<1>2. CASE page' = Answer(page, r, "ok", NoSession, daemon.lease)
           /\ UNCHANGED <<daemon, incidents>>
  <2>1. r.task # "exchange"
    BY DEF ServeTicket
  <2>2. PageInv(Answer(page, r, "ok", NoSession, daemon.lease))
    BY <2>1, NoSessionTyped, DaemonFields, AnsweredKeeps
  <2>3. QED
    BY <1>2, <2>2 DEF ClientInv
<1>3. QED
  BY <1>1, <1>2 DEF ServeTicket

LEMMA ServeCommandKeeps ==
  ASSUME ClientInv, NEW r \in page.requests, r.status = "sent", ServeCommand(r)
  PROVE  ClientInv'
<1> DEFINE t == Answer(page, r, "ok", Of(daemon), 0)
<1>1. CASE Refuse(r, IF Verdict(r) = "ok" THEN "error" ELSE Verdict(r))
  BY <1>1, Refusals, RefuseKeeps
<1>2. CASE page' = Publish(t, "changed", Of(daemon)) /\ UNCHANGED <<daemon, incidents>>
  <2>1. r.task # "exchange"
    BY DEF ServeCommand
  <2>2. PageInv(t)
    BY <2>1, DaemonFields, AnsweredKeeps
  <2> HIDE DEF t
  <2>3. PageInv(Publish(t, "changed", Of(daemon)))
    BY <2>2, DaemonFields, PublishKeeps
  <2>4. QED
    BY <1>2, <2>3 DEF ClientInv
<1>3. QED
  BY <1>1, <1>2 DEF ServeCommand

\* The daemon as a transition begins.
Begun(d, task) ==
  IF task = "start"
  THEN [d EXCEPT !.ids = @ + 1, !.id = d.ids + 1, !.phase = "starting", !.job = task]
  ELSE [d EXCEPT !.phase = "burning", !.job = task]

LEMMA BegunTyped ==
  ASSUME ClientInv, NEW task \in {"start", "egress", "burn"}
  PROVE  Begun(daemon, task) \in Daemons /\ Of(Begun(daemon, task)) \in Sessions
<1>1. PICK n \in Nat : n = daemon.ids + 1
  <2>1. daemon.ids \in Nat
    BY DaemonFields
  <2>2. daemon.ids + 1 \in Nat
    BY <2>1
  <2>3. QED
    BY <2>2
<1>2. daemon \in Daemons
  BY DEF ClientInv
<1>3. Begun(daemon, task) \in Daemons
  <2>1. CASE task = "start"
    <3>1. Begun(daemon, task) =
            [daemon EXCEPT !.ids = n, !.id = n, !.phase = "starting", !.job = "start"]
      BY <1>1, <2>1 DEF Begun
    <3>2. QED
      BY <1>2, <3>1 DEF Daemons, Phases
  <2>2. CASE task # "start"
    <3>1. Begun(daemon, task) = [daemon EXCEPT !.phase = "burning", !.job = task]
      BY <2>2 DEF Begun
    <3>2. QED
      BY <1>2, <3>1 DEF Daemons, Phases
  <2>3. QED
    BY <2>1, <2>2
<1>4. QED
  BY <1>3 DEF Daemons, Of, Sessions

LEMMA ServeTransitionKeeps ==
  ASSUME ClientInv, NEW r \in page.requests, r.status = "sent", ServeTransition(r)
  PROVE  ClientInv'
<1> DEFINE t == Answer(page, r, "serving", NoSession, 0)
           d == Begun(daemon, r.task)
<1>1. CASE Refuse(r, IF Verdict(r) = "ok" THEN "error" ELSE Verdict(r))
  BY <1>1, Refusals, RefuseKeeps
<1>2. CASE daemon' = d /\ page' = Publish(t, "changed", Of(d))
  <2>1. r.task \in {"start", "egress", "burn"}
    BY DEF ServeTransition
  <2>2. d \in Daemons /\ Of(d) \in Sessions
    BY <2>1, BegunTyped
  <2>3. PageInv(t)
    BY <2>1, NoSessionTyped, AnsweredKeeps
  <2> HIDE DEF t, d
  <2>4. PageInv(Publish(t, "changed", Of(d)))
    BY <2>2, <2>3, PublishKeeps
  <2>5. QED
    BY <1>2, <2>2, <2>4 DEF ClientInv
<1>3. QED
  BY <1>1, <1>2 DEF ServeTransition, Begun

LEMMA AnswerArrivesKeeps ==
  ASSUME ClientInv, NEW r \in page.requests, AnswerArrives(r)
  PROVE  ClientInv'
<1>1. Taking(page, r, r)
  BY RequestFields DEF Taking, ClientInv, AnswerArrives
<1>2. QED
  BY <1>1, ContinueKeeps DEF ClientInv, AnswerArrives

LEMMA RequestFailsKeeps ==
  ASSUME ClientInv, NEW r \in page.requests, RequestFails(r)
  PROVE  ClientInv'
<1> DEFINE a == [r EXCEPT !.status = "error"]
<1>1. r \in Requests /\ Sound(r)
  BY RequestFields
<1>2. /\ a \in Requests /\ a.task = r.task /\ a.id = r.id /\ a.status = "error"
      /\ a.from = r.from
  BY <1>1 DEF Requests
<1>3. page' = Continue(Done(page, r), a) /\ daemon' = daemon
  BY DEF RequestFails
<1> HIDE DEF a
<1>4. Sound(a)
  BY <1>1, <1>2 DEF Sound
<1>5. Taking(page, r, a)
  BY <1>2, <1>4 DEF Taking, ClientInv
<1>6. QED
  BY <1>3, <1>5, ContinueKeeps DEF ClientInv

LEMMA SyncAgainKeeps ==
  ASSUME ClientInv, NEW r \in page.requests, SyncAgain(r)
  PROVE  ClientInv'
<1> DEFINE q == Request(page, "sync", 0)
           a == [q EXCEPT !.from = r.from, !.attempt = r.attempt]
<1>1. /\ r \in Requests /\ r.task = "sync" /\ r.from \in {"form", "boot"}
      /\ r.attempt \in Nat
  BY RequestFields DEF SyncAgain, Sound, Pairing
<1>2. q \in Requests /\ q.task = "sync" /\ q.status = "sent"
  <2>1. page \in Pages
    BY DEF ClientInv, PageInv, Core, Typed
  <2>2. QED
    BY <2>1 DEF Request, Requests, Pages, NoSession, Sessions, Phases, Pairing
<1>3. page' = Send(Done(page, r), a) /\ daemon' = daemon
  BY DEF SyncAgain
<1> HIDE DEF q
<1>4. a \in Requests /\ a.task = "sync" /\ a.status = "sent" /\ a.from = r.from
  BY <1>1, <1>2 DEF Requests
<1> HIDE DEF a
<1>5. Sound(a)
  BY <1>1, <1>4 DEF Sound
<1>6. QED
  BY <1>1, <1>3, <1>4, <1>5, AnswerKeeps DEF ClientInv

\* The end of a job of the daemon: its request has an answer and the socket an event.
LEMMA JobEnds ==
  ASSUME ClientInv, NEW e \in Daemons, NEW status \in {"ok", "error"},
         NEW kind \in {"changed", "ended"},
         daemon' = e, page' = Publish(Conclude(page, status, Of(e)), kind, Of(e))
  PROVE  ClientInv'
<1> DEFINE t == Conclude(page, status, Of(e))
<1>1. Of(e) \in Sessions
  BY DEF Daemons, Of, Sessions
<1>2. PageInv(t)
  BY <1>1, ConcludeKeeps DEF ClientInv
<1> HIDE DEF t
<1>3. PageInv(Publish(t, kind, Of(e)))
  BY <1>1, <1>2, PublishKeeps
<1>4. QED
  BY <1>3 DEF ClientInv, t

LEMMA TransitionEndsKeeps ==
  ASSUME ClientInv, TransitionEnds
  PROVE  ClientInv'
<1>1. PICK d \in {[daemon EXCEPT !.phase = "active", !.job = ""],
                  [daemon EXCEPT !.phase = "failed", !.job = ""]},
           status \in {"ok", "error"} :
        LET renamed == daemon.job = "egress" /\ d.phase = "active"
            e == IF renamed THEN [d EXCEPT !.ids = @ + 1, !.id = d.ids + 1] ELSE d
        IN  /\ daemon' = e
            /\ page' = Publish(Conclude(page, status, Of(e)), "changed", Of(e))
  BY DEF TransitionEnds
<1> DEFINE renamed == daemon.job = "egress" /\ d.phase = "active"
           e == IF renamed THEN [d EXCEPT !.ids = @ + 1, !.id = d.ids + 1] ELSE d
<1>2. d \in Daemons
  BY DEF ClientInv, Daemons, Phases
<1>3. e \in Daemons
  <2>1. PICK n \in Nat : n = d.ids + 1
    <3>1. d.ids \in Nat
      BY <1>2 DEF Daemons
    <3>2. d.ids + 1 \in Nat
      BY <3>1
    <3>3. QED
      BY <3>2
  <2>2. e = IF renamed THEN [d EXCEPT !.ids = n, !.id = n] ELSE d
    BY <2>1
  <2>3. QED
    BY <1>2, <2>2 DEF Daemons
<1>4. daemon' = e /\ page' = Publish(Conclude(page, status, Of(e)), "changed", Of(e))
  BY <1>1
<1> HIDE DEF e
<1>5. QED
  BY <1>3, <1>4, JobEnds

LEMMA BurnEndsKeeps ==
  ASSUME ClientInv, BurnEnds
  PROVE  ClientInv'
<1>1. PICK phase \in {"idle", "failed"} :
        /\ daemon' = [daemon EXCEPT !.id = 0, !.phase = phase, !.job = "", !.lease = 0,
                                    !.offered = daemon.leases < MaxPairings]
        /\ page' = Publish(Conclude(page, IF phase = "idle" THEN "ok" ELSE "error",
                                    Of(daemon')), "ended", Of(daemon'))
  BY DEF BurnEnds
<1>2. PICK b \in BOOLEAN : b = (daemon.leases < MaxPairings)
  <2>1. daemon.leases \in Nat /\ MaxPairings \in Nat
    BY DaemonFields, WebClientAssumption
  <2>2. CASE daemon.leases < MaxPairings
    <3>1. TRUE = (daemon.leases < MaxPairings)
      BY <2>1, <2>2
    <3>2. QED
      BY <3>1
  <2>3. CASE ~(daemon.leases < MaxPairings)
    <3>1. FALSE = (daemon.leases < MaxPairings)
      BY <2>1, <2>3
    <3>2. QED
      BY <3>1
  <2>4. QED
    BY <2>2, <2>3
<1> DEFINE e == [daemon EXCEPT !.id = 0, !.phase = phase, !.job = "", !.lease = 0,
                               !.offered = b]
           status == IF phase = "idle" THEN "ok" ELSE "error"
<1>3. e \in Daemons
  BY DEF ClientInv, Daemons, Phases
<1>4. daemon' = e
  BY <1>1, <1>2
<1> HIDE DEF e
<1>5. page' = Publish(Conclude(page, status, Of(e)), "ended", Of(e))
  BY <1>1, <1>4
<1>6. QED
  BY <1>3, <1>4, <1>5, JobEnds

LEMMA WatchdogBurnsKeeps ==
  ASSUME ClientInv, WatchdogBurns
  PROVE  ClientInv'
<1> DEFINE e == [daemon EXCEPT !.phase = "burning", !.job = "watchdog"]
<1>1. daemon' = e /\ page' = Publish(page, "changed", Of(daemon'))
  BY DEF WatchdogBurns
<1>2. e \in Daemons
  BY DEF ClientInv, Daemons, Phases
<1> HIDE DEF e
<1>3. Of(e) \in Sessions
  BY <1>2 DEF Daemons, Of, Sessions
<1>4. PageInv(Publish(page, "changed", Of(e)))
  BY <1>3, PublishKeeps DEF ClientInv
<1>5. QED
  BY <1>1, <1>2, <1>4 DEF ClientInv

\* What the daemon does without a word to the page.
LEMMA SilentKeeps ==
  ASSUME ClientInv, HandlerDropped \/ CookieExpires \/ RecoverExpiredAuth
  PROVE  ClientInv'
<1>1. page' = page
  BY DEF HandlerDropped, CookieExpires, RecoverExpiredAuth
<1>2. daemon' \in Daemons
  <2>1. CASE HandlerDropped
    BY <2>1 DEF HandlerDropped, ClientInv, Daemons
  <2>2. CASE CookieExpires
    BY <2>2 DEF CookieExpires, ClientInv, Daemons
  <2>3. CASE RecoverExpiredAuth
    BY <2>3 DEF RecoverExpiredAuth, ClientInv, Daemons
  <2>4. QED
    BY <2>1, <2>2, <2>3
<1>3. QED
  BY <1>1, <1>2 DEF ClientInv

-----------------------------------------------------------------------------
\* The socket the page names, part by part.
LEMMA SocketFields ==
  ASSUME ClientInv
  PROVE  /\ page \in Pages /\ page.socket \in Sockets
         /\ page.socket.id \in Nat /\ page.socket.inbox \in Seq(Events)
         /\ page.socket.ready \in {"none", "connecting", "open", "closing"}
         /\ page.socket.ready = "none" => page.socket.inbox = << >>
<1>1. page \in Pages /\ (page.socket.ready = "none" => page.socket = NoSocket)
  BY DEF ClientInv, PageInv, Core, Typed, Channel
<1>2. page.socket \in Sockets
  BY <1>1, PageFields
<1>3. QED
  BY <1>1, <1>2, NoSocketTyped DEF Sockets

LEMMA EventTyped ==
  ASSUME NEW kind \in {"snapshot", "changed", "ended", "rejected"}, NEW session \in Sessions
  PROVE  << Event(kind, session) >> \in Seq(Events)
<1>1. Event(kind, session) \in Events
  BY DEF Event, Events, Sessions
<1>2. QED
  BY <1>1

LEMMA SocketAuthorizedKeeps ==
  ASSUME ClientInv, SocketAuthorized
  PROVE  ClientInv'
<1>1. page.socket.ready = "connecting" /\ daemon' = daemon
  BY DEF SocketAuthorized
<1>2. page \in Pages /\ page.socket \in Sockets
  BY SocketFields
<1>3. CASE page' = [page EXCEPT !.socket.ready = "open"]
  <2> DEFINE s == [page.socket EXCEPT !.ready = "open"]
  <2>1. s \in Sockets /\ s.id = page.socket.id /\ s.ready = "open"
    BY <1>2 DEF Sockets
  <2>2. page' = [page EXCEPT !.socket = s]
    BY <1>3
  <2> HIDE DEF s
  <2>3. QED
    BY <1>1, <2>1, <2>2, SocketMoves DEF ClientInv
<1>4. CASE page' = [page EXCEPT !.socket.ready = "open", !.socket.ended = TRUE,
                                !.socket.inbox = << Event("rejected", NoSession) >>]
  <2> DEFINE inbox == << Event("rejected", NoSession) >>
             s == [page.socket EXCEPT !.ready = "open", !.ended = TRUE, !.inbox = inbox]
  <2>1. inbox \in Seq(Events)
    BY NoSessionTyped, EventTyped
  <2>2. page' = [page EXCEPT !.socket = s]
    BY <1>2, <1>4 DEF Pages, Sockets
  <2> HIDE DEF inbox
  <2>3. s \in Sockets /\ s.id = page.socket.id /\ s.ready = "open"
    BY <1>2, <2>1 DEF Sockets
  <2> HIDE DEF s
  <2>4. QED
    BY <1>1, <2>2, <2>3, SocketMoves DEF ClientInv
<1>5. CASE page' = CloseEvent(page)
  BY <1>1, <1>5, CloseKeeps DEF ClientInv
<1>6. QED
  BY <1>3, <1>4, <1>5 DEF SocketAuthorized

LEMMA SocketSubscribesKeeps ==
  ASSUME ClientInv, SocketSubscribes
  PROVE  ClientInv'
<1> DEFINE inbox == << Event("snapshot", Of(daemon)) >>
           s == [page.socket EXCEPT !.joined = TRUE, !.inbox = inbox]
<1>1. page.socket.ready = "open" /\ daemon' = daemon
  BY DEF SocketSubscribes
<1>2. page \in Pages /\ page.socket \in Sockets
  BY SocketFields
<1>3. inbox \in Seq(Events)
  BY DaemonFields, EventTyped
<1>4. page' = [page EXCEPT !.socket = s]
  BY <1>2 DEF SocketSubscribes, Pages, Sockets
<1> HIDE DEF inbox
<1>5. s \in Sockets /\ s.id = page.socket.id /\ s.ready = "open"
  BY <1>1, <1>2, <1>3 DEF Sockets
<1> HIDE DEF s
<1>6. QED
  BY <1>1, <1>4, <1>5, SocketMoves DEF ClientInv

LEMMA SocketClosesKeeps ==
  ASSUME ClientInv, SocketCloses
  PROVE  ClientInv'
<1> DEFINE s == [page.socket EXCEPT !.ready = "closing"]
<1>1. page.socket.ready = "open" /\ daemon' = daemon
  BY DEF SocketCloses
<1>2. page \in Pages /\ page.socket \in Sockets
  BY SocketFields
<1>3. page' = [page EXCEPT !.socket = s]
  BY DEF SocketCloses
<1>4. s \in Sockets /\ s.id = page.socket.id /\ s.ready = "closing"
  BY <1>2 DEF Sockets
<1> HIDE DEF s
<1>5. QED
  BY <1>1, <1>3, <1>4, SocketMoves DEF ClientInv

LEMMA SocketGoneKeeps ==
  ASSUME ClientInv, SocketDrops \/ SocketClosed
  PROVE  ClientInv'
<1>1. page.socket.ready # "none" /\ page' = CloseEvent(page) /\ daemon' = daemon
  BY DEF SocketDrops, SocketClosed
<1>2. QED
  BY <1>1, CloseKeeps DEF ClientInv

LEMMA SocketMessageKeeps ==
  ASSUME ClientInv, SocketMessage
  PROVE  ClientInv'
<1>1. page \in Pages /\ page.socket \in Sockets /\ page.socket.ready # "none"
  BY SocketFields DEF SocketMessage
<1>2. PICK m \in Events : m = Head(page.socket.inbox)
  BY SocketFields DEF SocketMessage
<1>3. PICK b \in BOOLEAN : b <=> (page.socket.ended \/ Closes(m))
  OBVIOUS
<1> DEFINE inbox == IF Closes(m) THEN << >> ELSE Tail(page.socket.inbox)
           s == [page.socket EXCEPT !.inbox = inbox, !.ended = b]
           t == [page EXCEPT !.socket = s]
<1>4. inbox \in Seq(Events)
  BY SocketFields DEF SocketMessage
<1>5. t = [page EXCEPT !.socket.inbox = IF Closes(m) THEN << >> ELSE Tail(@),
                       !.socket.ended = @ \/ Closes(m)]
  <2>1. page.socket.ended \in BOOLEAN
    BY <1>1 DEF Sockets
  <2>2. (page.socket.ended \/ Closes(m)) = b
    BY <1>3
  <2>3. QED
    BY <1>1, <2>2 DEF Pages, Sockets
<1>6. /\ daemon' = daemon
      /\ page' = CASE t.id # t.socket.id -> t
                   [] m.event \in {"rejected", "ended"} -> LockAuthentication(t)
                   [] m.id = t.socket.id -> RenderSession(t, [id |-> m.id, phase |-> m.phase])
                   [] OTHER -> t
  <2> HIDE DEF t
  <2>1. QED
    BY <1>2, <1>5 DEF SocketMessage
<1>7. s \in Sockets /\ s.id = page.socket.id /\ s.ready = page.socket.ready
  <2> HIDE DEF inbox
  <2>1. QED
    BY <1>1, <1>4 DEF Sockets
<1> HIDE DEF inbox, s
<1>8. PageInv(t)
  BY <1>1, <1>7, SocketMoves DEF ClientInv
<1> HIDE DEF t
<1>9. [id |-> m.id, phase |-> m.phase] \in Sessions
  BY DEF Events, Sessions
<1>10. PageInv(LockAuthentication(t)) /\ PageInv(RenderSession(t, [id |-> m.id, phase |-> m.phase]))
  BY <1>8, <1>9, LockKeeps, RenderedKeeps DEF PageInv
<1>11. PageInv(page')
  BY <1>6, <1>8, <1>10
<1>12. QED
  BY <1>6, <1>11 DEF ClientInv

LEMMA ReconnectTimerKeeps ==
  ASSUME ClientInv, ReconnectTimer
  PROVE  ClientInv'
<1> DEFINE t == [page EXCEPT !.timer = 0]
           u == ConnectEvents(t)
<1>1. page \in Pages /\ PageInv(page)
  BY DEF ClientInv, PageInv, Core, Typed
<1>2. /\ t \in Pages /\ t.socket = page.socket /\ t.requests = page.requests /\ t.timer = 0
      /\ t.csrf = page.csrf /\ t.id = page.id /\ t.phase = page.phase
      /\ t.connecting = page.connecting
      /\ t.polling = page.polling /\ t.orphans = page.orphans
      /\ t.newest = page.newest /\ t.wentBack = page.wentBack /\ t.gaveUp = page.gaveUp
  BY <1>1 DEF Pages
<1>3. /\ daemon' = daemon /\ page.timer # 0
      /\ page' = IF Active(t) /\ t.id = page.timer THEN ConnectEvents(t) ELSE t
  BY DEF ReconnectTimer
<1> HIDE DEF t
<1>4. \A n : Asks(t, n) = Asks(page, n)
  BY <1>2 DEF Asks
<1>5. Core(t) /\ Polled(t)
  BY <1>1, <1>2, <1>4
  DEF PageInv, Core, Typed, Channel, Tickets, Noted, Asking, Polled, Syncing
<1>6. page.timer = page.id
  BY <1>1, <1>3 DEF PageInv, Core, Channel
<1>7. CASE Active(t) /\ t.id = page.timer
  <2>1. Core(u) /\ Keeps(t, u) /\ Linked(u)
    BY <1>3, <1>5, <1>7, ConnectEventsKeeps DEF Active
  <2> HIDE DEF u
  <2>2. PageInv(u)
    BY <1>5, <2>1 DEF PageInv, Connected, Polled, Syncing, Keeps
  <2>3. QED
    BY <1>3, <1>7, <2>2 DEF ClientInv, u
<1>8. CASE ~(Active(t) /\ t.id = page.timer)
  <2>1. Connected(t)
    BY <1>2, <1>6, <1>8 DEF Connected
  <2>2. QED
    BY <1>3, <1>5, <1>8, <2>1 DEF ClientInv, PageInv
<1>9. QED
  BY <1>7, <1>8

\* A poll that the daemon refuses.
LEMMA MetricsRefusedKeeps ==
  ASSUME ClientInv, MetricsRefused
  PROVE  ClientInv'
  BY LockKeeps DEF ClientInv, PageInv, MetricsRefused

-----------------------------------------------------------------------------
\* The user.
LEMMA SubmitPairingKeeps ==
  ASSUME ClientInv, SubmitPairing
  PROVE  ClientInv'
<1> DEFINE q == Request(page, "exchange", 0)
           a == [q EXCEPT !.from = "form"]
           t == Send(page, a)
<1>1. q \in Requests /\ q.task = "exchange" /\ q.status = "sent"
  <2>1. page \in Pages
    BY SocketFields
  <2>2. QED
    BY <2>1 DEF Request, Requests, Pages, NoSession, Sessions, Phases, Pairing
<1>2. page' = [t EXCEPT !.submit = FALSE] /\ daemon' = daemon
  BY DEF SubmitPairing
<1> HIDE DEF q
<1>3. a \in Requests /\ a.task = "exchange" /\ a.status = "sent" /\ a.from = "form"
  BY <1>1 DEF Requests
<1> HIDE DEF a
<1>4. Sound(a)
  BY <1>3 DEF Sound
<1>5. PageInv(t)
  BY <1>3, <1>4, SendKeeps DEF ClientInv
<1> HIDE DEF t
<1>6. QED
  BY <1>2, <1>5, BusyKeeps DEF ClientInv

\* A request of the user, with its controls taken away until it has ended.
LEMMA UserAsksKeeps ==
  ASSUME ClientInv, NEW task \in Actions, NEW id \in Nat,
         page' = SetBusy(Send(page, Request(page, task, id))), daemon' = daemon
  PROVE  ClientInv'
<1> DEFINE t == Send(page, Request(page, task, id))
<1>1. PageInv(t)
  <2>1. PageInv(page) /\ task \in Actions /\ id \in Nat /\ "" \in {"", "ok", "auth", "error"}
    BY DEF ClientInv
  <2>2. QED
    BY ONLY <2>1, AskedKeeps DEF t
<1> HIDE DEF t
<1>2. PageInv(SetBusy(t))
  BY <1>1, BusyKeeps
<1>3. QED
  BY <1>2 DEF ClientInv, t

LEMMA UserKeeps ==
  ASSUME ClientInv,
         \/ StartSession \/ (\E task \in {"command", "egress"} : Control(task))
         \/ OpenBurnDialog \/ CancelBurn \/ ConfirmBurn
  PROVE  ClientInv'
<1>1. page.id \in Nat /\ {"start", "command", "egress", "burn"} \subseteq Actions
  BY SocketFields, PageFields DEF Actions
<1>2. CASE StartSession
  BY <1>1, <1>2, UserAsksKeeps DEF StartSession
<1>3. CASE \E task \in {"command", "egress"} : Control(task)
  BY <1>1, <1>3, UserAsksKeeps DEF Control
<1>4. CASE ConfirmBurn
  BY <1>1, <1>4, UserAsksKeeps DEF ConfirmBurn
<1>5. CASE OpenBurnDialog \/ CancelBurn
  <2>1. PICK confirm \in BOOLEAN :
          page' = [page EXCEPT !.confirm = confirm] /\ daemon' = daemon
    BY <1>5 DEF OpenBurnDialog, CancelBurn
  <2>2. QED
    BY <2>1, ControlsKeep DEF ClientInv
<1>6. QED
  BY <1>2, <1>3, <1>4, <1>5

-----------------------------------------------------------------------------
\* The page as it is loaded: it pairs at once, or waits for the form.
LEMMA InitInv == ASSUME Init PROVE ClientInv
<1> DEFINE q == Request(Fresh, "exchange", 0)
           a == [q EXCEPT !.from = "boot"]
           f == [Fresh EXCEPT !.dialog = FALSE]
<1>1. daemon \in Daemons
  BY DEF Init, Daemons, Phases
<1>2. Fresh \in Pages /\ f \in Pages /\ Fresh.requests = {}
  BY NoSocketTyped DEF Fresh, Pages, Phases
<1>3. \A t \in {Fresh, f} :
        /\ t.requests = {} /\ t.csrf = 0 /\ t.id = 0 /\ t.connecting = 0 /\ t.timer = 0
        /\ t.socket = NoSocket /\ t.newest = 0 /\ ~t.wentBack /\ ~t.orphans
  BY DEF Fresh
<1>4. q \in Requests /\ q.task = "exchange" /\ q.status = "sent"
  BY <1>2 DEF Request, Requests, Pages, NoSession, Sessions, Phases, Pairing
<1> HIDE DEF q
<1>5. a \in Requests /\ a.task = "exchange" /\ a.status = "sent" /\ a.from = "boot"
  BY <1>4 DEF Requests
<1>6. page = Fresh \/ page = Send(f, a)
  BY DEF Init, q
<1> HIDE DEF a, f
<1>7. Sound(a)
  BY <1>5 DEF Sound
<1>8. ASSUME NEW t \in {Fresh, f} PROVE PageInv(t)
  <2>1. Asks(t, 0) = {}
    BY <1>3 DEF Asks
  <2>2. Typed(t) /\ Channel(t) /\ Noted(t)
    BY <1>2, <1>3, NoSocketTyped DEF Typed, Channel, Noted
  <2>3. Tickets(t)
    BY <1>3, <2>1 DEF Tickets, Asking
  <2>4. QED
    BY <1>3, <2>2, <2>3 DEF PageInv, Core, Connected, Polled, Active
<1>9. PageInv(Send(f, a))
  BY <1>5, <1>7, <1>8, SendKeeps
<1>10. QED
  BY <1>1, <1>6, <1>8, <1>9 DEF ClientInv

LEMMA InvStep ==
  ASSUME ClientInv, [Next]_vars
  PROVE  ClientInv'
<1>1. CASE \E r \in page.requests :
             Serve(r) \/ AnswerArrives(r) \/ RequestFails(r) \/ SyncAgain(r)
  <2>1. PICK r \in page.requests :
          Serve(r) \/ AnswerArrives(r) \/ RequestFails(r) \/ SyncAgain(r)
    BY <1>1
  <2>2. CASE Serve(r)
    BY <2>2, ServeExchangeKeeps, ServeSnapshotKeeps, ServeTicketKeeps,
       ServeCommandKeeps, ServeTransitionKeeps DEF Serve
  <2>3. QED
    BY <2>1, <2>2, AnswerArrivesKeeps, RequestFailsKeeps, SyncAgainKeeps
<1>2. CASE TransitionEnds
  BY <1>2, TransitionEndsKeeps
<1>3. CASE HandlerDropped \/ CookieExpires \/ RecoverExpiredAuth
  BY <1>3, SilentKeeps
<1>4. CASE WatchdogBurns
  BY <1>4, WatchdogBurnsKeeps
<1>5. CASE BurnEnds
  BY <1>5, BurnEndsKeeps
<1>6. CASE SocketAuthorized
  BY <1>6, SocketAuthorizedKeeps
<1>7. CASE SocketSubscribes
  BY <1>7, SocketSubscribesKeeps
<1>8. CASE SocketCloses
  BY <1>8, SocketClosesKeeps
<1>9. CASE SocketDrops \/ SocketClosed
  BY <1>9, SocketGoneKeeps
<1>10. CASE SocketMessage
  BY <1>10, SocketMessageKeeps
<1>11. CASE ReconnectTimer
  BY <1>11, ReconnectTimerKeeps
<1>12. CASE MetricsRefused
  BY <1>12, MetricsRefusedKeeps
<1>13. CASE SubmitPairing
  BY <1>13, SubmitPairingKeeps
<1>14. CASE \/ StartSession \/ (\E task \in {"command", "egress"} : Control(task))
            \/ OpenBurnDialog \/ CancelBurn \/ ConfirmBurn
  BY <1>14, UserKeeps
<1>15. CASE UNCHANGED vars
  BY <1>15 DEF vars, ClientInv
<1>16. QED
  BY <1>1, <1>2, <1>3, <1>4, <1>5, <1>6, <1>7, <1>8, <1>9, <1>10, <1>11, <1>12, <1>13,
     <1>14, <1>15 DEF Next

-----------------------------------------------------------------------------
\* What the handlers of app.js keep true of the page, whatever is answered, lost,
\* published or pressed, in whichever order and however often.
THEOREM Invariance == Spec => []ClientInv
<1>1. Init => ClientInv
  BY InitInv
<1>2. ClientInv /\ [Next]_vars => ClientInv'
  BY InvStep
<1>3. QED
  BY <1>1, <1>2, PTL DEF Spec

\* No socket is left behind beside the one the page names, unless a late snapshot
\* has once shown an older session; and the one it names, like the reconnection it
\* waits for, is of the session it shows and of a page with credentials
\* (stopEventChannel, renderSession, the guards of connectEvents).
THEOREM ChannelIsOurs == Spec => []SocketsAreOurs
<1>1. ClientInv => SocketsAreOurs
  BY NoSocketTyped DEF ClientInv, PageInv, Core, Channel, Tickets, SocketsAreOurs
<1>2. QED
  BY <1>1, Invariance, PTL

\* A page that synchronises is pairing.
LEMMA SyncingIsPairing ==
  ASSUME ClientInv, Syncing(page)
  PROVE  InPairing(page, "form") \/ InPairing(page, "boot")
<1>1. PICK r \in page.requests : r.task = "sync"
  BY DEF Syncing
<1>2. r.task \in Pairing /\ r.from \in {"form", "boot"}
  BY <1>1, RequestFields DEF Sound, Pairing
<1>3. QED
  BY <1>2 DEF InPairing

\* A page that shows an active session, and is not pairing, has an event channel, asks
\* for a ticket or will try again, whatever was lost (connectEvents with its finally,
\* the listener of close, scheduleEventReconnect).
THEOREM StaysConnected == Spec => []ActiveIsConnected
<1>1. ASSUME ClientInv PROVE ActiveIsConnected
  <2>1. SUFFICES ASSUME Active(page), page.id # 0,
                        ~InPairing(page, "form"), ~InPairing(page, "boot")
                 PROVE  \/ page.socket # NoSocket
                        \/ page.timer # 0
                        \/ \E r \in page.requests : r.task = "connect" /\ r.id = page.id
    BY DEF ActiveIsConnected
  <2>2. Linked(page)
    BY <1>1, <2>1, SyncingIsPairing DEF ClientInv, PageInv, Connected
  <2>3. QED
    BY <2>2, NoSocketTyped DEF Linked, Asking, Asks
<1>2. QED
  BY <1>1, Invariance, PTL

\* A page with credentials polls, except while it is pairing and when the
\* synchronisation after its last pairing was given up (syncAfterPairing, stopMetricPolling).
THEOREM StaysPolling == Spec => []PairedPolls
<1>1. ClientInv => PairedPolls
  BY SyncingIsPairing DEF ClientInv, PageInv, Polled, PairedPolls
<1>2. QED
  BY <1>1, Invariance, PTL
=============================================================================
