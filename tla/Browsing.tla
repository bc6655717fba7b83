------------------------------ MODULE Browsing ------------------------------
(***************************************************************************)
(* Navigation: the daemon's calls to the browser helper (src/              *)
(* session.rs through SocketBrowser of src/browser.rs) and the helper      *)
(* itself (src/bin/xanhtab-browser.rs), which serves one connection at     *)
(* a time and keeps a Pipeline with a navigation history of its own.       *)
(*                                                                         *)
(* A request is a connection in the listener's queue.  The daemon stops    *)
(* waiting for it at its deadline, or when the handler is dropped; the     *)
(* request stays in the queue, or was never written.  The mutex holder is  *)
(* call; what it asks of the network helper between two browser calls may  *)
(* fail at will.                                                           *)
(***************************************************************************)
EXTENDS Naturals, Sequences

CONSTANTS
  Url,       \* addresses
  NoUrl,     \* no address
  RingSize,  \* push_history: 128
  MaxQueue,  \* bound: connections waiting for the helper
  MaxDepth   \* bound: pages in the helper's history

ASSUME BrowsingAssumption ==
  /\ NoUrl \notin Url /\ RingSize \in Nat \ {0}
  /\ MaxQueue \in Nat \ {0} /\ MaxDepth \in Nat \ {0}

VARIABLES
  phase, url, visits,  \* SessionData.snapshot and history
  call,                \* the browser call that the mutex holder awaits
  answer,              \* what the helper wrote to that connection
  queue,               \* connections not yet served
  pipe,                \* Pipeline
  moved,               \* history: the page may differ from url with good reason
  crashed              \* history: the daemon restarted and no burn or start worked since

daemonVars == <<phase, url, visits, call>>
ghostVars == <<moved, crashed>>
vars == <<daemonVars, answer, queue, pipe, ghostVars>>

Default == [page |-> NoUrl, history |-> <<>>, position |-> 1]
NoCall == [task |-> "none", step |-> "none", to |-> NoUrl]
Browse == {"navigate", "back", "forward", "reload", "halt"}

TypeOK ==
  /\ phase \in {"idle", "starting", "active", "burning", "failed"}
  /\ url \in Url \cup {NoUrl} /\ visits \in Seq(Url) /\ Len(visits) <= RingSize
  /\ call.task \in {"none", "start", "abort", "burn", "switch", "rollback"} \cup Browse
  /\ call.step \in {"none", "start", "stop"} \cup Browse
  /\ answer \in {"none", "ok", "error"}
  /\ pipe.page \in Url \cup {NoUrl}
  /\ pipe.history \in Seq(Url) /\ pipe.position \in Nat \ {0}
  /\ moved \in BOOLEAN /\ crashed \in BOOLEAN

Init ==
  /\ phase = "idle" /\ url = NoUrl /\ visits = <<>>
  /\ call = NoCall /\ answer = "none" /\ queue = <<>> /\ pipe = Default
  /\ moved = FALSE /\ crashed = FALSE

(***************************************************************************)
(* The helper.                                                             *)
(***************************************************************************)
FaultyVisit(u) ==
  [pipe EXCEPT !.history = Append(@, u), !.position = @ + 1]

\* Navigate forgets the pages ahead of the current one.
Visit(u) ==
  LET past == IF pipe.history = <<>> THEN <<>> ELSE SubSeq(pipe.history, 1, pipe.position) IN
  [pipe EXCEPT !.history = Append(past, u), !.position = Len(past) + 1]

\* The Pipeline before the child is replaced.
Moved(request) ==
  CASE request.step = "start" ->
         [pipe EXCEPT !.history = <<request.to>>, !.position = 1]
    [] request.step = "navigate" -> Visit(request.to)
    [] request.step = "back" /\ pipe.position > 1 ->
         [pipe EXCEPT !.position = @ - 1]
    [] request.step = "forward" /\ pipe.position < Len(pipe.history) ->
         [pipe EXCEPT !.position = @ + 1]
    [] OTHER -> pipe

\* The commands that open a page; one at the end of the history does nothing.
Opens(request) ==
  \/ request.step \in {"start", "navigate"}
  \/ request.step \in {"back", "forward"} /\ Moved(request) # pipe
  \/ request.step = "reload" /\ pipe.position <= Len(pipe.history)

Stops(request) == request.step \in {"halt", "stop"}

\* apply: what the Pipeline may be afterwards, and what is answered.
\* The wait for the old child is the only place where the deadline can pass;
\* a page that cannot be resolved, proxied or launched leaves no child.
Apply(request) ==
  LET next == Moved(request)
      open == [next EXCEPT !.page = IF request.to # NoUrl THEN request.to
                                    ELSE next.history[next.position]]
      shut == [next EXCEPT !.page = NoUrl]
  IN (IF Opens(request) THEN {<<open, "ok">>, <<shut, "error">>}
      ELSE IF Stops(request) THEN {<<shut, "ok">>}
      ELSE {<<pipe, "ok">>})
     \cup IF pipe.page # NoUrl /\ (Opens(request) \/ Stops(request))
          THEN {<<Default, "error">>} ELSE {}

\* handle; nobody reads the answer to a call that was given up.
Serve ==
  /\ queue # <<>>
  /\ queue' = Tail(queue)
  /\ \E outcome \in Apply(Head(queue)) :
       /\ pipe' = outcome[1]
       /\ answer' = IF Head(queue).awaited THEN outcome[2] ELSE answer
  /\ UNCHANGED <<daemonVars, ghostVars>>

\* The GStreamer child dies.
ChildExit ==
  /\ pipe.page # NoUrl
  /\ pipe' = [pipe EXCEPT !.page = NoUrl]
  /\ UNCHANGED <<daemonVars, answer, queue, ghostVars>>

(***************************************************************************)
(* The client side of a call.                                              *)
(***************************************************************************)
Request(step, to) == [step |-> step, to |-> to, awaited |-> TRUE]

\* The queue when the daemon no longer waits: the request stays behind, or
\* was never written.
GivenUp ==
  LET n == Len(queue) IN
  IF n > 0 /\ queue[n].awaited
  THEN {[queue EXCEPT ![n].awaited = FALSE], SubSeq(queue, 1, n - 1)}
  ELSE {queue}

\* The queues with which a call can return ok.
Returned(ok) ==
  IF answer = "none" THEN IF ok THEN {} ELSE GivenUp
  ELSE IF answer = (IF ok THEN "ok" ELSE "error") THEN {queue} ELSE {}

\* The holder goes on to its next browser call.
Send(left, task, step, to) ==
  /\ Len(left) < MaxQueue
  /\ call' = [task |-> task, step |-> step, to |-> to]
  /\ queue' = Append(left, Request(step, to))
  /\ answer' = "none"

\* The holder is done.
Done(left) == call' = NoCall /\ queue' = left /\ answer' = "none"

(***************************************************************************)
(* The session.                                                            *)
(***************************************************************************)
Free == call = NoCall

FaultyRemember(history, u) == Append(history, u)

\* push_history
Remember(history, u) ==
  Append(IF Len(history) = RingSize THEN Tail(history) ELSE history, u)

\* start; egress.apply may fail before the browser is asked for anything.
StartSession(u) ==
  /\ Free /\ phase \in {"idle", "failed"}
  /\ url' = u
  /\ \/ phase' = "starting" /\ Send(queue, "start", "start", u)
     \/ phase' = "failed" /\ UNCHANGED <<call, queue, answer>>
  /\ UNCHANGED <<visits, pipe, ghostVars>>

Started ==
  /\ call.task = "start"
  /\ \E left \in Returned(TRUE) : Done(left)
  /\ phase' = "active" /\ visits' = Remember(visits, call.to)
  /\ moved' = FALSE /\ crashed' = FALSE
  /\ UNCHANGED <<url, pipe>>

StartFailed ==
  /\ call.task = "start"
  /\ \E left \in Returned(FALSE) : Send(left, "abort", "stop", NoUrl)
  /\ UNCHANGED <<phase, url, visits, pipe, ghostVars>>

Aborted ==
  /\ call.task = "abort"
  /\ \E ok \in BOOLEAN : \E left \in Returned(ok) : Done(left)
  /\ phase' = "failed"
  /\ UNCHANGED <<url, visits, pipe, ghostVars>>

Navigate(step, u) ==
  /\ Free /\ phase = "active"
  /\ step \in Browse /\ (u # NoUrl <=> step = "navigate")
  /\ step = "navigate" => pipe.position < MaxDepth
  /\ Send(queue, step, step, u)
  /\ moved' = (moved \/ step \notin {"reload", "halt"})
  /\ UNCHANGED <<phase, url, visits, pipe, crashed>>

FaultyNavigated ==
  /\ call.task \in Browse
  /\ \E ok \in BOOLEAN : \E left \in Returned(ok) : Done(left)
  /\ IF call.task = "navigate"
     THEN url' = call.to /\ visits' = Remember(visits, call.to) /\ moved' = FALSE
     ELSE UNCHANGED <<url, visits, moved>>
  /\ UNCHANGED <<phase, pipe, crashed>>

\* Only a new address is recorded; going back or forward is not.
Navigated ==
  /\ call.task \in Browse
  /\ \E left \in Returned(TRUE) : Done(left)
  /\ IF call.task = "navigate"
     THEN url' = call.to /\ visits' = Remember(visits, call.to) /\ moved' = FALSE
     ELSE UNCHANGED <<url, visits, moved>>
  /\ UNCHANGED <<phase, pipe, crashed>>

NavigateFailed ==
  /\ call.task \in Browse
  /\ \E left \in Returned(FALSE) : Done(left)
  /\ moved' = TRUE
  /\ UNCHANGED <<phase, url, visits, pipe, crashed>>

Switch ==
  /\ Free /\ phase = "active"
  /\ phase' = "burning"
  /\ Send(queue, "switch", "stop", NoUrl)
  /\ UNCHANGED <<url, visits, pipe, ghostVars>>

\* The browser is stopped and the policy changed; the rollback goes on
\* whatever the stop returned.
Respawn ==
  /\ call.task \in {"switch", "rollback"} /\ call.step = "stop"
  /\ \E ok \in BOOLEAN : \E left \in Returned(ok) :
       (ok \/ call.task = "rollback") /\ Send(left, call.task, "start", url)
  /\ UNCHANGED <<phase, url, visits, pipe, ghostVars>>

FaultySwitched ==
  /\ call.task \in {"switch", "rollback"} /\ call.step = "start"
  /\ \E left \in Returned(TRUE) : Done(left)
  /\ phase' = "active" /\ visits' = <<>>
  /\ moved' = FALSE /\ crashed' = FALSE
  /\ UNCHANGED <<url, pipe>>

Switched ==
  /\ call.task \in {"switch", "rollback"} /\ call.step = "start"
  /\ \E left \in Returned(TRUE) : Done(left)
  /\ phase' = "active" /\ visits' = <<url>>
  /\ moved' = FALSE /\ crashed' = FALSE
  /\ UNCHANGED <<url, pipe>>

\* The browser refused, or the network helper did after the browser stopped.
SwitchFailed ==
  /\ call.task = "switch"
  /\ \E left \in Returned(FALSE) \cup IF call.step = "stop" THEN Returned(TRUE) ELSE {} :
       Send(left, "rollback", "stop", NoUrl)
  /\ UNCHANGED <<phase, url, visits, pipe, ghostVars>>

RollbackFailed ==
  /\ call.task = "rollback"
  /\ \E left \in Returned(FALSE) \cup IF call.step = "stop" THEN Returned(TRUE) ELSE {} :
       Done(left)
  /\ phase' = "failed" /\ visits' = <<>>
  /\ UNCHANGED <<url, pipe, ghostVars>>

Burn ==
  /\ Free /\ phase # "idle"
  /\ phase' = "burning"
  /\ Send(queue, "burn", "stop", NoUrl)
  /\ UNCHANGED <<url, visits, pipe, ghostVars>>

FaultyVerdict(ok) == {"idle"}

\* Idle if the browser and everything after it was cleaned up.
Verdict(ok) == {"failed"} \cup IF ok THEN {"idle"} ELSE {}

Burnt ==
  /\ call.task = "burn"
  /\ \E ok \in BOOLEAN : \E left \in Returned(ok) :
       Done(left) /\ phase' \in Verdict(ok)
  /\ url' = NoUrl /\ visits' = <<>>
  /\ crashed' = (crashed /\ phase' # "idle")
  /\ UNCHANGED <<pipe, moved>>

\* The handler that holds the mutex is dropped.
Cancel ==
  /\ ~Free
  /\ \E left \in GivenUp : Done(left)
  /\ moved' = (moved \/ call.task \in Browse)
  /\ UNCHANGED <<phase, url, visits, pipe, crashed>>

\* xanhtabd restarts; helper and queue do not.
Restart ==
  /\ phase # "idle"
  /\ \E left \in GivenUp : Done(left)
  /\ phase' = "idle" /\ url' = NoUrl /\ visits' = <<>>
  /\ crashed' = TRUE
  /\ UNCHANGED <<pipe, moved>>

Next ==
  \/ Serve \/ ChildExit \/ Cancel \/ Restart
  \/ \E u \in Url : StartSession(u)
  \/ \E step \in Browse, u \in Url \cup {NoUrl} : Navigate(step, u)
  \/ Started \/ StartFailed \/ Aborted \/ Navigated \/ NavigateFailed
  \/ Switch \/ Respawn \/ Switched \/ SwitchFailed \/ RollbackFailed
  \/ Burn \/ Burnt

Spec == Init /\ [][Next]_vars

(***************************************************************************)
(* Properties.                                                             *)
(***************************************************************************)

\* burn_unchecked, handle: a command that the daemon gave up on cannot bring a
\* browser back.  When a burn has said idle, no child runs and no command that
\* would open a page waits, however many calls timed out before.
IdleIsStopped ==
  phase = "idle" /\ ~crashed =>
    /\ pipe.page = NoUrl
    /\ \A i \in DOMAIN queue : Stops(queue[i])

\* navigate, Pipeline::apply: between calls the page of an active session is
\* the address the snapshot shows, or none, unless since that address was accepted
\* the client has asked to go back, forward or elsewhere, or a browser command
\* of it failed or was dropped.  Reloading and stopping do not lose the address.
PageIsShown ==
  phase = "active" /\ Free /\ ~moved =>
    pipe.page \in {NoUrl, url} /\ queue = <<>>

\* Pipeline::apply: whatever is visited, gone back to, cut off or reset, the
\* child shows the page at the position, and Back and Forward stay inside.
CursorOnPage ==
  /\ pipe.position <= Len(pipe.history) \/ pipe = Default
  /\ pipe.page # NoUrl => pipe.page = pipe.history[pipe.position]

\* push_history, switch_egress: the RAM history of an active session ends with
\* the address it shows, also when the ring is full.
HistoryEndsHere ==
  phase = "active" => visits # <<>> /\ visits[Len(visits)] = url
=============================================================================
