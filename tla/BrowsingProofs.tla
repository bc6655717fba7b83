---------------------------- MODULE BrowsingProofs ----------------------------
(***************************************************************************)
(* The safety of Browsing, for every set of addresses, every ring and      *)
(* every number of connections that may wait for the helper.               *)
(***************************************************************************)
EXTENDS Browsing, TLAPS

\* What TypeOK says of calls and Pipelines, field by field.
Tasks == {"none", "start", "abort", "burn", "switch", "rollback"} \cup Browse
PageSet == Url \cup {NoUrl}
CallSet == [task : Tasks, step : {"none", "start", "stop"} \cup Browse, to : PageSet]
PipeSet == [page : PageSet, history : Seq(Url), position : Nat \ {0}]

\* The commands that name the page they open.
Named(r) == r.to # NoUrl <=> r.step \in {"start", "navigate"}

Requests == {r \in [step : {"start", "stop"} \cup Browse, to : PageSet,
                    awaited : BOOLEAN] : Named(r)}

\* A queue in which nobody waits for an answer.
Abandoned(q) == q \in Seq(Requests) /\ \A i \in 1 .. Len(q) : ~q[i].awaited

\* The helper serves in order, so what the daemon awaits is last in the queue,
\* and an answer means that nothing given up before is still to come.
QueueInv ==
  /\ queue \in Seq(Requests)
  /\ \A i \in 1 .. Len(queue) :
       queue[i].awaited => i = Len(queue) /\ ~Free /\ answer = "none"
  /\ ~Free /\ answer = "none" =>
       /\ queue # <<>> /\ queue[Len(queue)].awaited
       /\ queue[Len(queue)].step = call.step /\ queue[Len(queue)].to = call.to
  /\ Free => answer = "none"
  /\ answer # "none" => queue = <<>>

\* Each task and the browser call it may be at.
CallInv ==
  /\ call \in CallSet /\ Named(call)
  /\ call.task = "none" => call = NoCall
  /\ call.task = "start" => url # NoUrl /\ call.step = "start" /\ call.to = url
  /\ call.task \in {"switch", "rollback"} =>
       /\ url # NoUrl /\ call.step \in {"start", "stop"}
       /\ call.step = "start" => call.to = url
  /\ call.task \in {"abort", "burn"} => call.step = "stop"
  /\ call.task \in Browse => call.step = call.task

\* CursorOnPage, of any Pipeline.
Cursor(p) ==
  /\ p.position <= Len(p.history) \/ p = Default
  /\ p.page # NoUrl => p.page = p.history[p.position]

\* What an answer tells of the child.
Told(step, to, a, p) ==
  a = "ok" =>
    /\ step = "stop" => p.page = NoUrl
    /\ step \in {"start", "navigate"} => p.history[p.position] = to

\* The Pipeline, and what the answer to the last call says of it.
PipeInv == pipe \in PipeSet /\ Cursor(pipe) /\ Told(call.step, call.to, answer, pipe)

\* The Pipeline is at this page, or was reset.
AtPage(p, u) == p = Default \/ p.history[p.position] = u

\* The client has stayed at the address shown, and no command it gave up on waits.
Settled ==
  phase = "active" /\ ~moved =>
    /\ call.task \in {"none", "reload", "halt"} /\ AtPage(pipe, url)
    /\ \A i \in 1 .. Len(queue) : queue[i].awaited

\* Whatever phase the daemon is in, the calls it may be at and what it shows.
ShownInv ==
  /\ phase = "idle" => Free
  /\ phase = "idle" /\ ~crashed => queue = <<>> /\ pipe.page = NoUrl
  /\ phase = "active" => call.task \in Browse \cup {"none"}
  /\ HistoryEndsHere /\ Settled

\* The types of what is not a record.
DaemonTypes ==
  /\ phase \in {"idle", "starting", "active", "burning", "failed"}
  /\ url \in PageSet /\ visits \in Seq(Url) /\ Len(visits) <= RingSize
  /\ answer \in {"none", "ok", "error"}
  /\ moved \in BOOLEAN /\ crashed \in BOOLEAN

BrowsingInv == DaemonTypes /\ QueueInv /\ CallInv /\ PipeInv /\ ShownInv

-----------------------------------------------------------------------------
\* One more connection in the queue.
LEMMA Appended ==
  \A S : \A q \in Seq(S), r \in S :
    /\ Append(q, r) \in Seq(S) /\ Len(Append(q, r)) = Len(q) + 1
    /\ Append(q, r) # <<>> /\ Append(q, r)[Len(q) + 1] = r
    /\ \A i \in 1 .. Len(q) : Append(q, r)[i] = q[i]
  OBVIOUS

\* The queue without its first connection, or the history without its oldest.
LEMMA Tailed ==
  \A S : \A q \in Seq(S) : q # <<>> =>
    /\ Tail(q) \in Seq(S) /\ Len(Tail(q)) = Len(q) - 1 /\ Len(q) \in Nat \ {0}
    /\ \A i \in 1 .. Len(Tail(q)) : Tail(q)[i] = q[i + 1]
    /\ Head(q) = q[1] /\ q[1] \in S
  OBVIOUS

\* The first connections of a queue, or the first pages of a history.
LEMMA Cut ==
  \A S : \A q \in Seq(S), n \in Nat : n <= Len(q) =>
    /\ SubSeq(q, 1, n) \in Seq(S) /\ Len(SubSeq(q, 1, n)) = n
    /\ \A i \in 1 .. n : SubSeq(q, 1, n)[i] = q[i]
  OBVIOUS

\* push_history keeps to the ring, and ends with the new address.
LEMMA Remembered ==
  ASSUME BrowsingAssumption, visits \in Seq(Url), Len(visits) <= RingSize,
         NEW u \in Url
  PROVE  LET h == Remember(visits, u) IN
         h \in Seq(Url) /\ Len(h) <= RingSize /\ h # <<>> /\ h[Len(h)] = u
<1> USE DEF BrowsingAssumption
<1>1. CASE Len(visits) = RingSize
  <2>1. visits # <<>>
    BY <1>1
  <2>2. Tail(visits) \in Seq(Url) /\ Len(Tail(visits)) = RingSize - 1
    BY <1>1, <2>1, Tailed
  <2>3. Remember(visits, u) = Append(Tail(visits), u)
    BY <1>1 DEF Remember
  <2>4. QED
    BY <2>2, <2>3, Appended
<1>2. CASE Len(visits) # RingSize
  <2>1. Remember(visits, u) = Append(visits, u)
    BY <1>2 DEF Remember
  <2>2. Len(visits) \in Nat
    OBVIOUS
  <2>3. QED
    BY <1>2, <2>1, <2>2, Appended
<1>3. QED
  BY <1>1, <1>2

\* A call given up on leaves nobody waiting.
LEMMA GivenUpIsAbandoned ==
  ASSUME QueueInv, NEW left \in GivenUp
  PROVE  Abandoned(left)
<1>1. PICK n : n = Len(queue)
  OBVIOUS
<1>2. n \in Nat /\ queue \in Seq(Requests)
  BY <1>1 DEF QueueInv
<1>3. CASE n > 0 /\ queue[n].awaited
  <2>1. /\ queue[n] \in Requests
        /\ \A i \in 1 .. n : queue[i].awaited => i = n
    BY <1>1, <1>2, <1>3 DEF QueueInv
  <2>2. [queue[n] EXCEPT !.awaited = FALSE] \in Requests
    BY <2>1 DEF Requests, Named
  <2>3. PICK r \in Requests : r = [queue[n] EXCEPT !.awaited = FALSE] /\ ~r.awaited
    BY <2>1, <2>2 DEF Requests
  <2>4. CASE left = [queue EXCEPT ![n].awaited = FALSE]
    <3>1. left = [queue EXCEPT ![n] = r]
      BY <2>3, <2>4
    <3>2. /\ left \in Seq(Requests) /\ Len(left) = n
          /\ \A i \in 1 .. n : left[i] = IF i = n THEN r ELSE queue[i]
      BY <1>1, <1>2, <1>3, <3>1
    <3>3. QED
      BY <2>1, <2>3, <3>2 DEF Abandoned
  <2>5. CASE left = SubSeq(queue, 1, n - 1)
    <3>1. n - 1 \in Nat /\ n - 1 <= Len(queue)
      BY <1>1, <1>2, <1>3
    <3>2. /\ left \in Seq(Requests) /\ Len(left) = n - 1
          /\ \A i \in 1 .. n - 1 : left[i] = queue[i]
      BY <1>2, <2>5, <3>1, Cut
    <3>3. QED
      BY <1>2, <2>1, <3>2 DEF Abandoned
  <2>6. QED
    BY <1>1, <1>3, <2>4, <2>5 DEF GivenUp
<1>4. CASE ~(n > 0 /\ queue[n].awaited)
  <2>1. left = queue
    BY <1>1, <1>4 DEF GivenUp
  <2>2. \A i \in 1 .. n : ~queue[i].awaited
    BY <1>1, <1>2, <1>4 DEF QueueInv
  <2>3. QED
    BY <1>1, <1>2, <2>1, <2>2 DEF Abandoned
<1>5. QED
  BY <1>3, <1>4

\* So does one that returned; an answer also means that the queue is empty.
LEMMA ReturnedIsAbandoned ==
  ASSUME QueueInv, NEW ok \in BOOLEAN, NEW left \in Returned(ok)
  PROVE  Abandoned(left) /\ (ok => left = <<>> /\ answer = "ok")
<1>1. CASE answer = "none"
  BY <1>1, GivenUpIsAbandoned DEF Returned
<1>2. CASE answer # "none"
  <2>1. left = <<>> /\ (ok => answer = "ok")
    BY <1>2 DEF Returned, QueueInv
  <2>2. QED
    BY <2>1 DEF Abandoned
<1>3. QED
  BY <1>1, <1>2

\* The next call waits behind what was given up before.
LEMMA SendKeeps ==
  ASSUME NEW left, Abandoned(left), NEW task \in Tasks \ {"none"},
         NEW step \in {"start", "stop"} \cup Browse, NEW to \in PageSet,
         to # NoUrl <=> step \in {"start", "navigate"},
         Send(left, task, step, to)
  PROVE  /\ QueueInv' /\ answer' = "none" /\ call' \in CallSet /\ Named(call)'
         /\ call'.task = task /\ call'.step = step /\ call'.to = to
         /\ left = <<>> => \A i \in 1 .. Len(queue') : queue'[i].awaited
<1>1. Request(step, to) \in Requests /\ Request(step, to).awaited
      /\ Request(step, to).step = step /\ Request(step, to).to = to
  BY DEF Request, Requests, Named
<1>2. /\ call' = [task |-> task, step |-> step, to |-> to]
      /\ queue' = Append(left, Request(step, to)) /\ answer' = "none"
  BY DEF Send
<1>3. /\ call' \in CallSet /\ call'.task = task /\ call'.step = step /\ call'.to = to
  BY <1>2 DEF CallSet
<1>4. Free' = FALSE
  BY <1>3 DEF Free, NoCall
<1>5. /\ queue' \in Seq(Requests) /\ Len(queue') = Len(left) + 1 /\ queue' # <<>>
      /\ queue'[Len(left) + 1] = Request(step, to) /\ Len(left) \in Nat
      /\ \A i \in 1 .. Len(left) : queue'[i] = left[i]
  BY <1>1, <1>2, Appended DEF Abandoned
<1>6. \A i \in 1 .. Len(queue') : i \in 1 .. Len(left) \/ i = Len(queue')
  BY <1>5
<1>7. QueueInv'
  BY <1>1, <1>2, <1>3, <1>4, <1>5, <1>6 DEF QueueInv, Abandoned
<1>8. left = <<>> => \A i \in 1 .. Len(queue') : queue'[i].awaited
  BY <1>1, <1>5
<1>9. QED
  BY <1>2, <1>3, <1>7, <1>8 DEF Named

\* The end of a task.
LEMMA DoneKeeps ==
  ASSUME NEW left, Abandoned(left), Done(left)
  PROVE  /\ QueueInv' /\ queue' = left /\ call' = NoCall
         /\ CallInv' /\ answer' = "none" /\ Free'
<1> USE DEF Done, NoCall
<1>1. CallInv'
  BY DEF CallInv, CallSet, Tasks, PageSet, Named, Browse
<1>2. QED
  BY <1>1 DEF QueueInv, Abandoned, Free

-----------------------------------------------------------------------------
\* Visit, on a history that the position is in.
LEMMA Visited ==
  ASSUME pipe \in PipeSet, Cursor(pipe), NEW u \in Url
  PROVE  /\ Visit(u) \in PipeSet /\ Visit(u).position <= Len(Visit(u).history)
         /\ Visit(u).history[Visit(u).position] = u
<1>1. PICK past : past = IF pipe.history = <<>> THEN <<>>
                         ELSE SubSeq(pipe.history, 1, pipe.position)
  OBVIOUS
<1>2. past \in Seq(Url)
  <2>1. pipe.history \in Seq(Url) /\ pipe.position \in Nat \ {0}
    BY DEF PipeSet
  <2>2. CASE pipe.history = <<>>
    BY <1>1, <2>2
  <2>3. CASE pipe.history # <<>>
    <3>1. pipe.position <= Len(pipe.history)
      BY <2>3 DEF Cursor, Default
    <3>2. QED
      BY <1>1, <2>1, <2>3, <3>1, Cut
  <2>4. QED
    BY <2>2, <2>3
<1>3. Visit(u) = [pipe EXCEPT !.history = Append(past, u), !.position = Len(past) + 1]
  BY <1>1 DEF Visit
<1>4. /\ Append(past, u) \in Seq(Url) /\ Len(Append(past, u)) = Len(past) + 1
      /\ Append(past, u)[Len(past) + 1] = u /\ Len(past) + 1 \in Nat \ {0}
  BY <1>2, Appended
<1>5. PICK h, n : h = Append(past, u) /\ n = Len(past) + 1
  OBVIOUS
<1>6. /\ Visit(u) \in PipeSet /\ Visit(u).history = h /\ Visit(u).position = n
  BY <1>3, <1>4, <1>5 DEF PipeSet
<1>7. QED
  BY <1>4, <1>5, <1>6

\* Whatever a command moves, the Pipeline stays inside its history; a command
\* that opens a page is at the page it opens.
LEMMA MovedInside ==
  ASSUME BrowsingAssumption, pipe \in PipeSet, Cursor(pipe), NEW r \in Requests
  PROVE  /\ Moved(r) \in PipeSet
         /\ Moved(r).position <= Len(Moved(r).history) \/ Moved(r) = pipe
         /\ Opens(r) =>
              /\ Moved(r).position <= Len(Moved(r).history)
              /\ r.to # NoUrl => Moved(r).history[Moved(r).position] = r.to
<1>1. /\ pipe.page \in PageSet /\ pipe.history \in Seq(Url)
      /\ pipe.position \in Nat \ {0} /\ Len(pipe.history) \in Nat
      /\ r.to # NoUrl <=> r.step \in {"start", "navigate"}
      /\ r.to # NoUrl => r.to \in Url
      /\ r.step \in {"start", "stop"} \cup Browse
  BY DEF PipeSet, Requests, Named, PageSet
<1>2. CASE r.step = "start"
  <2>1. r.to \in Url /\ <<r.to>> \in Seq(Url) /\ Len(<<r.to>>) = 1 /\ <<r.to>>[1] = r.to
    BY <1>1, <1>2
  <2>2. PICK h \in Seq(Url) : h = <<r.to>> /\ Len(h) = 1 /\ h[1] = r.to
    BY <2>1
  <2>3. PICK n \in Nat \ {0} : n = 1
    OBVIOUS
  <2>4. Moved(r) = [pipe EXCEPT !.history = h, !.position = n]
    BY <1>2, <2>2, <2>3 DEF Moved
  <2>5. Moved(r) \in PipeSet /\ Moved(r).history = h /\ Moved(r).position = n
    BY <2>4 DEF PipeSet
  <2>6. QED
    BY <2>2, <2>3, <2>5
<1>3. CASE r.step = "navigate"
  <2>1. r.to \in Url /\ Moved(r) = Visit(r.to)
    BY <1>1, <1>3 DEF Moved
  <2>2. QED
    BY <2>1, Visited
<1>4. CASE r.step = "back" /\ pipe.position > 1
  <2>1. Moved(r) = [pipe EXCEPT !.position = @ - 1]
    BY <1>4 DEF Moved
  <2>2. pipe.position <= Len(pipe.history)
    BY <1>4 DEF Cursor, Default
  <2>3. /\ Moved(r) \in PipeSet /\ Moved(r).history = pipe.history
        /\ Moved(r).position = pipe.position - 1
    BY <1>1, <1>4, <2>1 DEF PipeSet
  <2>4. QED
    BY <1>1, <1>4, <2>2, <2>3
<1>5. CASE r.step = "forward" /\ pipe.position < Len(pipe.history)
  <2>1. Moved(r) = [pipe EXCEPT !.position = @ + 1]
    BY <1>5 DEF Moved
  <2>2. /\ Moved(r) \in PipeSet /\ Moved(r).history = pipe.history
        /\ Moved(r).position = pipe.position + 1
    BY <1>1, <1>5, <2>1 DEF PipeSet
  <2>3. QED
    BY <1>1, <1>5, <2>2
<1>6. CASE /\ r.step \notin {"start", "navigate"}
           /\ ~(r.step = "back" /\ pipe.position > 1)
           /\ ~(r.step = "forward" /\ pipe.position < Len(pipe.history))
  <2>1. Moved(r) = pipe
    BY <1>6 DEF Moved
  <2>2. QED
    BY <1>1, <1>6, <2>1 DEF Opens
<1>7. QED
  BY <1>2, <1>3, <1>4, <1>5, <1>6

\* apply: whatever it does, the Pipeline shows the page at its position, and
\* the answer is true of the child.
LEMMA ApplyKeeps ==
  ASSUME BrowsingAssumption, pipe \in PipeSet, Cursor(pipe), NEW r \in Requests,
         NEW outcome \in Apply(r)
  PROVE  /\ outcome[1] \in PipeSet /\ Cursor(outcome[1])
         /\ Told(r.step, r.to, outcome[2], outcome[1])
         /\ outcome[2] \in {"ok", "error"}
<1>1. PICK next : next = Moved(r)
  OBVIOUS
<1>2. /\ next \in PipeSet
      /\ next.position <= Len(next.history) \/ next = pipe
      /\ Opens(r) => next.position <= Len(next.history)
      /\ Opens(r) /\ r.to # NoUrl => next.history[next.position] = r.to
  BY <1>1, MovedInside
<1>3. /\ next.page \in PageSet /\ next.history \in Seq(Url)
      /\ next.position \in Nat \ {0}
      /\ r.to # NoUrl <=> r.step \in {"start", "navigate"}
      /\ r.to \in PageSet
  BY <1>2 DEF PipeSet, Requests, Named
<1>4. PICK page : page = IF r.to # NoUrl THEN r.to ELSE next.history[next.position]
  OBVIOUS
<1>5. Opens(r) => page \in Url /\ page = next.history[next.position]
  BY <1>2, <1>3, <1>4 DEF PageSet
<1>6. PICK open, shut : /\ open = [next EXCEPT !.page = page]
                        /\ shut = [next EXCEPT !.page = NoUrl]
  OBVIOUS
<1>7. /\ shut \in PipeSet /\ shut.page = NoUrl /\ shut.history = next.history
      /\ shut.position = next.position
      /\ page \in PageSet => open \in PipeSet
      /\ open.page = page /\ open.history = next.history /\ open.position = next.position
  BY <1>2, <1>6 DEF PipeSet, PageSet
<1>8. \/ Opens(r) /\ outcome \in {<<open, "ok">>, <<shut, "error">>}
      \/ ~Opens(r) /\ Stops(r) /\ outcome = <<shut, "ok">>
      \/ ~Opens(r) /\ ~Stops(r) /\ outcome = <<pipe, "ok">>
      \/ outcome = <<Default, "error">>
  BY <1>1, <1>4, <1>6 DEF Apply
<1>9. Default \in PipeSet /\ Cursor(Default)
  BY DEF Default, PipeSet, PageSet, Cursor
<1>10. CASE Opens(r) /\ outcome = <<open, "ok">>
  <2>1. r.step # "stop"
    BY <1>10 DEF Opens
  <2>2. r.step \in {"start", "navigate"} => page = r.to
    BY <1>3, <1>4
  <2>3. QED
    BY <1>2, <1>5, <1>7, <1>10, <2>1, <2>2 DEF Cursor, Told, PageSet
<1>11. CASE Opens(r) /\ outcome = <<shut, "error">>
  BY <1>2, <1>7, <1>11 DEF Cursor, Told
<1>12. CASE ~Opens(r) /\ Stops(r) /\ outcome = <<shut, "ok">>
  <2>1. next = pipe /\ r.step \notin {"start", "navigate"}
    BY <1>1, <1>12 DEF Stops, Moved
  <2>2. shut.position <= Len(shut.history) \/ shut = Default
    BY <1>6, <1>7, <2>1 DEF Cursor, Default
  <2>3. QED
    BY <1>7, <1>12, <2>1, <2>2 DEF Cursor, Told
<1>13. CASE ~Opens(r) /\ ~Stops(r) /\ outcome = <<pipe, "ok">>
  BY <1>13 DEF Opens, Stops, Told
<1>14. CASE outcome = <<Default, "error">>
  BY <1>9, <1>14 DEF Told
<1>15. QED
  BY <1>8, <1>10, <1>11, <1>12, <1>13, <1>14

\* Reloading and stopping leave the page.
LEMMA ApplyStays ==
  ASSUME BrowsingAssumption, pipe \in PipeSet, NEW r \in Requests,
         r.step \in {"reload", "halt"}, NEW u, AtPage(pipe, u), NEW outcome \in Apply(r)
  PROVE  AtPage(outcome[1], u)
<1>1. Moved(r) = pipe
  BY DEF Moved
<1>2. PICK page : page = IF r.to # NoUrl THEN r.to ELSE pipe.history[pipe.position]
  OBVIOUS
<1>3. PICK open, shut : /\ open = [pipe EXCEPT !.page = page]
                        /\ shut = [pipe EXCEPT !.page = NoUrl]
  OBVIOUS
<1>4. /\ open.history = pipe.history /\ open.position = pipe.position
      /\ shut.history = pipe.history /\ shut.position = pipe.position
  BY <1>3 DEF PipeSet
<1>5. \/ Opens(r) /\ outcome \in {<<open, "ok">>, <<shut, "error">>}
      \/ outcome = <<shut, "ok">>
      \/ outcome = <<pipe, "ok">>
      \/ outcome = <<Default, "error">>
  BY <1>1, <1>2, <1>3 DEF Apply
<1>6. outcome[1] \in {shut, pipe, Default} \/ (Opens(r) /\ outcome[1] = open)
  BY <1>5
<1>7. CASE pipe = Default
  <2>1. ~Opens(r)
    BY <1>1, <1>7 DEF Opens, Default
  <2>2. shut = Default
    BY <1>3, <1>7 DEF Default
  <2>3. QED
    BY <1>6, <1>7, <2>1, <2>2 DEF AtPage
<1>8. CASE pipe.history[pipe.position] = u
  BY <1>4, <1>6, <1>8 DEF AtPage
<1>9. QED
  BY <1>7, <1>8 DEF AtPage

-----------------------------------------------------------------------------
\* What the daemon knows when a call returned ok: the command was served, nothing
\* else waits, and the child is what it asked for.
LEMMA ReturnedTold ==
  ASSUME BrowsingInv, NEW left \in Returned(TRUE)
  PROVE  /\ Abandoned(left) /\ left = <<>>
         /\ call.step = "stop" => pipe.page = NoUrl
         /\ call.step \in {"start", "navigate"} => AtPage(pipe, call.to) /\ call.to \in Url
<1>1. Abandoned(left) /\ left = <<>> /\ answer = "ok"
  BY ReturnedIsAbandoned DEF BrowsingInv
<1>2. Told(call.step, call.to, answer, pipe) /\ Named(call) /\ call \in CallSet
  BY DEF BrowsingInv, PipeInv, CallInv
<1>3. QED
  BY <1>1, <1>2 DEF Told, AtPage, Named, CallSet, PageSet

\* A step of the daemon that leaves the helper alone: what is left to show once
\* its call is sent or its task is done.
LEMMA DaemonStep ==
  ASSUME BrowsingInv, UNCHANGED pipe, answer' = "none",
         DaemonTypes', QueueInv', CallInv', ShownInv'
  PROVE  BrowsingInv'
  BY DEF BrowsingInv, PipeInv, Told, Cursor

\* The helper serves the command at the head of its queue.
LEMMA ServeKeeps ==
  ASSUME BrowsingAssumption, BrowsingInv, Serve
  PROVE  BrowsingInv'
<1>1. /\ DaemonTypes /\ QueueInv /\ CallInv /\ PipeInv /\ ShownInv
      /\ pipe \in PipeSet /\ Cursor(pipe)
  BY DEF BrowsingInv, PipeInv
<1>2. PICK r : r = Head(queue)
  OBVIOUS
<1>3. /\ queue # <<>> /\ queue' = Tail(queue) /\ queue \in Seq(Requests)
      /\ UNCHANGED <<phase, url, visits, call, moved, crashed>>
  BY <1>1 DEF Serve, QueueInv, daemonVars, ghostVars
<1>4. /\ queue' \in Seq(Requests) /\ Len(queue') = Len(queue) - 1
      /\ Len(queue) \in Nat \ {0} /\ r = queue[1] /\ r \in Requests
      /\ \A i \in 1 .. Len(queue') : queue'[i] = queue[i + 1]
  BY <1>2, <1>3, Tailed
<1>5. PICK outcome \in Apply(r) :
        pipe' = outcome[1] /\ answer' = IF r.awaited THEN outcome[2] ELSE answer
  BY <1>2 DEF Serve
<1>6. /\ pipe' \in PipeSet /\ Cursor(pipe')
      /\ Told(r.step, r.to, outcome[2], pipe') /\ outcome[2] \in {"ok", "error"}
  BY <1>1, <1>4, <1>5, ApplyKeeps
<1>7. CASE r.awaited
  <2>1. /\ Len(queue) = 1 /\ ~Free /\ answer = "none"
        /\ r.step = call.step /\ r.to = call.to
    BY <1>1, <1>4, <1>7 DEF QueueInv
  <2>2. queue' = <<>> /\ answer' = outcome[2] /\ ~Free'
    BY <1>3, <1>4, <1>5, <1>7, <2>1 DEF Free
  <2>3. QueueInv'
    <3>1. Len(queue') = 0 /\ answer' # "none"
      BY <1>6, <2>2
    <3>2. \A i \in 1 .. Len(queue') : FALSE
      BY <3>1
    <3>3. QED
      BY <1>4, <2>2, <3>1, <3>2 DEF QueueInv
  <2>4. PipeInv'
    BY <1>3, <1>6, <2>1, <2>2 DEF PipeInv
  <2>5. DaemonTypes' /\ CallInv'
    BY <1>1, <1>3, <1>6, <2>2 DEF DaemonTypes, CallInv, Named
  <2>6. Settled'
    <3>1. ASSUME phase = "active", ~moved PROVE AtPage(pipe', url)
      <4>1. call.task \in {"none", "reload", "halt"} /\ AtPage(pipe, url)
        BY <1>1, <3>1 DEF ShownInv, Settled
      <4>2. r.step \in {"reload", "halt"}
        BY <1>1, <2>1, <4>1 DEF CallInv, Free, Browse
      <4>3. QED
        BY <1>1, <1>4, <1>5, <4>1, <4>2, ApplyStays
    <3>2. \A i \in 1 .. Len(queue') : FALSE
      BY <2>2
    <3>3. QED
      BY <1>1, <1>3, <3>1, <3>2 DEF ShownInv, Settled
  <2>7. ShownInv'
    BY <1>1, <1>3, <2>1, <2>2, <2>6 DEF ShownInv, HistoryEndsHere, Free
  <2>8. QED
    BY <2>3, <2>4, <2>5, <2>7 DEF BrowsingInv
<1>8. CASE ~r.awaited
  <2>1. answer' = answer /\ answer = "none"
    BY <1>1, <1>3, <1>5, <1>8 DEF QueueInv
  <2>2. /\ \A i \in 1 .. Len(queue') : queue'[i].awaited => i = Len(queue') /\ ~Free
        /\ ~Free => Len(queue) # 1
    <3>1. /\ \A i \in 1 .. Len(queue) : queue[i].awaited => i = Len(queue) /\ ~Free
          /\ ~Free => queue[Len(queue)].awaited
      BY <1>1, <2>1 DEF QueueInv
    <3>2. \A i \in 1 .. Len(queue') :
            i + 1 \in 1 .. Len(queue) /\ (i + 1 = Len(queue) => i = Len(queue'))
      BY <1>4
    <3>3. QED
      BY <1>4, <1>8, <3>1, <3>2
  <2>3. /\ Free' = Free
        /\ ~Free => queue' # <<>> /\ queue'[Len(queue')] = queue[Len(queue)]
    <3>1. Free' = Free
      BY <1>3 DEF Free
    <3>2. CASE ~Free
      <4>1. Len(queue') \in Nat \ {0} /\ Len(queue') + 1 = Len(queue)
        BY <1>4, <2>2, <3>2
      <4>2. Len(queue') \in 1 .. Len(queue') /\ queue' # <<>>
        BY <4>1
      <4>3. QED
        BY <1>4, <3>1, <4>1, <4>2
    <3>3. QED
      BY <3>1, <3>2
  <2>4. QueueInv'
    BY <1>1, <1>3, <1>4, <2>1, <2>2, <2>3 DEF QueueInv
  <2>5. PipeInv'
    BY <1>6, <2>1 DEF PipeInv, Told
  <2>6. DaemonTypes' /\ CallInv'
    BY <1>1, <1>3, <2>1 DEF DaemonTypes, CallInv, Named
  <2>7. ShownInv'
    <3>1. ~(phase = "active" /\ ~moved)
      BY <1>1, <1>4, <1>8 DEF ShownInv, Settled
    <3>2. ~(phase = "idle" /\ ~crashed)
      BY <1>1, <1>3 DEF ShownInv
    <3>3. QED
      BY <1>1, <1>3, <3>1, <3>2 DEF ShownInv, HistoryEndsHere, Settled, Free
  <2>8. QED
    BY <2>4, <2>5, <2>6, <2>7 DEF BrowsingInv
<1>9. r.awaited \in BOOLEAN
  BY <1>4 DEF Requests
<1>10. QED
  BY <1>7, <1>8, <1>9

\* The child dies.
LEMMA ChildExitKeeps ==
  ASSUME BrowsingAssumption, BrowsingInv, ChildExit
  PROVE  BrowsingInv'
<1>1. /\ DaemonTypes /\ QueueInv /\ CallInv /\ PipeInv /\ ShownInv
      /\ pipe \in PipeSet /\ Cursor(pipe)
  BY DEF BrowsingInv, PipeInv
<1>2. /\ UNCHANGED <<phase, url, visits, call, answer, queue, moved, crashed>>
      /\ pipe' = [pipe EXCEPT !.page = NoUrl] /\ pipe.page # NoUrl
  BY DEF ChildExit, daemonVars, ghostVars
<1>3. /\ pipe' \in PipeSet /\ pipe'.page = NoUrl /\ pipe'.history = pipe.history
      /\ pipe'.position = pipe.position
  BY <1>1, <1>2 DEF PipeSet, PageSet
<1>4. Cursor(pipe')
  <2>1. pipe # Default
    BY <1>2 DEF Default
  <2>2. QED
    BY <1>1, <1>3, <2>1 DEF Cursor
<1>5. PipeInv'
  BY <1>1, <1>2, <1>3, <1>4 DEF PipeInv, Told
<1>6. DaemonTypes' /\ QueueInv' /\ CallInv'
  BY <1>1, <1>2 DEF DaemonTypes, QueueInv, CallInv, Named, Free
<1>7. ShownInv'
  <2>1. pipe # Default
    BY <1>2 DEF Default
  <2>2. \A u : AtPage(pipe, u) => AtPage(pipe', u)
    BY <1>3, <2>1 DEF AtPage
  <2>3. Settled'
    BY <1>1, <1>2, <2>2 DEF ShownInv, Settled
  <2>4. QED
    BY <1>1, <1>2, <1>3, <2>3 DEF ShownInv, HistoryEndsHere, Free
<1>8. QED
  BY <1>5, <1>6, <1>7 DEF BrowsingInv

-----------------------------------------------------------------------------
\* Without a task nobody waits for an answer.
LEMMA FreeQueue ==
  ASSUME BrowsingInv, Free
  PROVE  Abandoned(queue)
  BY DEF BrowsingInv, QueueInv, Abandoned

\* A task makes a call.
LEMMA SendStep ==
  ASSUME BrowsingInv, UNCHANGED <<pipe, crashed>>,
         NEW left, Abandoned(left), NEW task \in Tasks \ {"none"},
         NEW step \in {"start", "stop"} \cup Browse, NEW to \in PageSet,
         Send(left, task, step, to), to # NoUrl <=> step \in {"start", "navigate"},
         phase' \in {"idle", "starting", "active", "burning", "failed"},
         url' \in PageSet, visits' = visits, moved' \in BOOLEAN,
         phase' # "idle", phase' = "active" => task \in Browse /\ HistoryEndsHere',
         task = "start" => url' # NoUrl /\ step = "start" /\ to = url',
         task \in {"switch", "rollback"} =>
           url' # NoUrl /\ step \in {"start", "stop"} /\ (step = "start" => to = url'),
         task \in {"abort", "burn"} => step = "stop",
         task \in Browse => step = task,
         phase' = "active" /\ ~moved' =>
           task \in {"reload", "halt"} /\ left = <<>> /\ AtPage(pipe, url')
  PROVE  BrowsingInv'
<1>1. /\ QueueInv' /\ answer' = "none" /\ call' \in CallSet /\ Named(call)'
      /\ call'.task = task /\ call'.step = step /\ call'.to = to
      /\ left = <<>> => \A i \in 1 .. Len(queue') : queue'[i].awaited
  BY SendKeeps
<1>2. DaemonTypes'
  BY <1>1 DEF BrowsingInv, DaemonTypes
<1>3. CallInv'
  BY <1>1 DEF CallInv
<1>4. ShownInv'
  <2>1. ~Free'
    BY <1>1 DEF Free, NoCall
  <2>2. Settled'
    BY <1>1 DEF Settled
  <2>3. QED
    BY <1>1, <2>1, <2>2 DEF ShownInv, HistoryEndsHere
<1>5. QED
  BY <1>1, <1>2, <1>3, <1>4, DaemonStep

\* A task ends, or is dropped.
LEMMA DoneStep ==
  ASSUME BrowsingInv, UNCHANGED pipe, NEW left, Abandoned(left), Done(left),
         phase' \in {"idle", "starting", "active", "burning", "failed"},
         url' \in PageSet, visits' \in Seq(Url), Len(visits') <= RingSize,
         moved' \in BOOLEAN, crashed' \in BOOLEAN,
         phase' = "idle" /\ ~crashed' => left = <<>> /\ pipe.page = NoUrl,
         phase' = "active" =>
           /\ visits' # <<>> /\ visits'[Len(visits')] = url'
           /\ moved' \/ (left = <<>> /\ AtPage(pipe, url'))
  PROVE  BrowsingInv'
<1>1. /\ QueueInv' /\ queue' = left /\ call' = NoCall /\ CallInv' /\ answer' = "none"
      /\ Free'
  BY DoneKeeps
<1>2. DaemonTypes'
  BY <1>1 DEF DaemonTypes
<1>3. ShownInv'
  BY <1>1 DEF ShownInv, HistoryEndsHere, Settled, NoCall
<1>4. QED
  BY <1>1, <1>2, <1>3, DaemonStep

\* A session begins, or its policy is refused.
LEMMA StartSessionKeeps ==
  ASSUME BrowsingAssumption, BrowsingInv, NEW u \in Url, StartSession(u)
  PROVE  BrowsingInv'
<1>1. /\ DaemonTypes /\ QueueInv /\ CallInv /\ PipeInv /\ ShownInv /\ Free
      /\ url' = u /\ u \in PageSet /\ u # NoUrl
      /\ UNCHANGED <<visits, pipe, moved, crashed>>
  BY DEF BrowsingInv, StartSession, ghostVars, PageSet, BrowsingAssumption
<1>2. Abandoned(queue)
  BY <1>1, FreeQueue
<1>3. CASE phase' = "starting" /\ Send(queue, "start", "start", u)
  BY <1>1, <1>2, <1>3, SendStep DEF DaemonTypes, Tasks, Browse
<1>4. CASE phase' = "failed" /\ UNCHANGED <<call, queue, answer>>
  <2>1. DaemonTypes' /\ QueueInv' /\ answer' = "none"
    BY <1>1, <1>4 DEF DaemonTypes, QueueInv, Free
  <2>2. CallInv'
    BY <1>1, <1>4 DEF CallInv, Free, NoCall, Named, Browse
  <2>3. ShownInv'
    BY <1>4 DEF ShownInv, HistoryEndsHere, Settled
  <2>4. QED
    BY <1>1, <2>1, <2>2, <2>3, DaemonStep
<1>5. QED
  BY <1>3, <1>4 DEF StartSession

\* The session is there.
LEMMA StartedKeeps ==
  ASSUME BrowsingAssumption, BrowsingInv, Started
  PROVE  BrowsingInv'
<1>1. /\ DaemonTypes /\ CallInv /\ call.step = "start" /\ call.to = url
      /\ phase' = "active" /\ visits' = Remember(visits, url)
      /\ moved' = FALSE /\ crashed' = FALSE /\ UNCHANGED <<url, pipe>>
  BY DEF BrowsingInv, Started, CallInv
<1>2. PICK left \in Returned(TRUE) : Done(left)
  BY DEF Started
<1>3. /\ Abandoned(left) /\ left = <<>>
      /\ AtPage(pipe, url) /\ url \in Url
  BY <1>1, <1>2, ReturnedTold
<1>4. /\ visits' \in Seq(Url) /\ Len(visits') <= RingSize
      /\ visits' # <<>> /\ visits'[Len(visits')] = url
  BY <1>1, <1>3, Remembered DEF DaemonTypes
<1>5. QED
  BY <1>1, <1>2, <1>3, <1>4, DoneStep DEF DaemonTypes

\* A failed start stops the browser, and ends.
LEMMA AbortKeeps ==
  ASSUME BrowsingAssumption, BrowsingInv, StartFailed \/ Aborted
  PROVE  BrowsingInv'
<1>1. DaemonTypes /\ CallInv /\ ShownInv /\ QueueInv
  BY DEF BrowsingInv
<1>2. CASE StartFailed
  <2>1. PICK left \in Returned(FALSE) : Send(left, "abort", "stop", NoUrl)
    BY <1>2 DEF StartFailed
  <2>2. Abandoned(left)
    BY <1>1, <2>1, ReturnedIsAbandoned
  <2>3. /\ UNCHANGED <<phase, url, visits, pipe, moved, crashed>>
        /\ phase \notin {"idle", "active"}
    BY <1>1, <1>2 DEF StartFailed, ghostVars, ShownInv, Free, NoCall, Browse
  <2>4. QED
    BY <1>1, <2>1, <2>2, <2>3, SendStep DEF DaemonTypes, Tasks, Browse, PageSet
<1>3. CASE Aborted
  <2>1. PICK left \in Returned(TRUE) \cup Returned(FALSE) : Done(left)
    BY <1>3 DEF Aborted
  <2>2. Abandoned(left)
    BY <1>1, <2>1, ReturnedIsAbandoned
  <2>3. phase' = "failed" /\ UNCHANGED <<url, visits, pipe, moved, crashed>>
    BY <1>3 DEF Aborted, ghostVars
  <2>4. QED
    BY <1>1, <2>1, <2>2, <2>3, DoneStep DEF DaemonTypes
<1>4. QED
  BY <1>2, <1>3

\* The controller navigates.
LEMMA NavigateKeeps ==
  ASSUME BrowsingAssumption, BrowsingInv, NEW step \in Browse,
         NEW u \in Url \cup {NoUrl}, Navigate(step, u)
  PROVE  BrowsingInv'
<1>1. /\ DaemonTypes /\ ShownInv /\ Abandoned(queue) /\ phase = "active"
      /\ u # NoUrl <=> step = "navigate"
      /\ Send(queue, step, step, u) /\ moved' = (moved \/ step \notin {"reload", "halt"})
      /\ UNCHANGED <<phase, url, visits, pipe, crashed>>
      /\ Free
  BY FreeQueue DEF BrowsingInv, Navigate
<1>2. /\ step \in Tasks \ {"none"} /\ u \in PageSet
      /\ u # NoUrl <=> step \in {"start", "navigate"}
      /\ step \notin {"start", "switch", "rollback", "abort", "burn"}
  BY <1>1 DEF Browse, Tasks, PageSet
<1>3. HistoryEndsHere'
  BY <1>1 DEF ShownInv, HistoryEndsHere
<1>4. moved' \in BOOLEAN
  BY <1>1
<1>5. ASSUME ~moved'
      PROVE  step \in {"reload", "halt"} /\ queue = <<>> /\ AtPage(pipe, url')
  <2>1. /\ ~moved /\ step \in {"reload", "halt"} /\ AtPage(pipe, url)
        /\ \A i \in 1 .. Len(queue) : queue[i].awaited
    BY <1>1, <1>5 DEF ShownInv, Settled
  <2>2. queue \in Seq(Requests) /\ \A i \in 1 .. Len(queue) : ~queue[i].awaited
    BY <1>1 DEF Abandoned
  <2>3. queue = <<>>
    BY <2>1, <2>2
  <2>4. QED
    BY <1>1, <2>1, <2>3
<1>6. QED
  BY <1>1, <1>2, <1>3, <1>4, <1>5, SendStep DEF DaemonTypes

\* The navigation is answered.
LEMMA NavigatedKeeps ==
  ASSUME BrowsingAssumption, BrowsingInv, Navigated \/ NavigateFailed
  PROVE  BrowsingInv'
<1>1. /\ DaemonTypes /\ CallInv /\ ShownInv /\ QueueInv
      /\ call.task \in Browse /\ call.step = call.task
      /\ UNCHANGED <<phase, pipe, crashed>> /\ phase # "idle"
  <2>1. DaemonTypes /\ CallInv /\ ShownInv /\ QueueInv
    BY DEF BrowsingInv
  <2>2. call.task \in Browse /\ UNCHANGED <<phase, pipe, crashed>>
    BY DEF Navigated, NavigateFailed, ghostVars
  <2>3. call.step = call.task
    BY <2>1, <2>2 DEF CallInv
  <2>4. phase # "idle"
    BY <2>1, <2>2 DEF ShownInv, Free, NoCall, Browse
  <2>5. QED
    BY <2>1, <2>2, <2>3, <2>4
<1>2. CASE Navigated
  <2>1. PICK left \in Returned(TRUE) : Done(left)
    BY <1>2 DEF Navigated
  <2>2. Abandoned(left) /\ left = <<>>
    BY <2>1, ReturnedTold
  <2>3. CASE call.task = "navigate"
    <3>1. url' = call.to /\ visits' = Remember(visits, call.to) /\ moved' = FALSE
      BY <1>2, <2>3 DEF Navigated
    <3>2. call.to \in Url /\ AtPage(pipe, call.to)
      BY <1>1, <2>1, <2>3, ReturnedTold
    <3>3. /\ visits' \in Seq(Url) /\ Len(visits') <= RingSize
          /\ visits' # <<>> /\ visits'[Len(visits')] = call.to
      BY <1>1, <3>1, <3>2, Remembered DEF DaemonTypes
    <3>4. QED
      BY <1>1, <2>1, <2>2, <3>1, <3>2, <3>3, DoneStep DEF DaemonTypes, PageSet
  <2>4. CASE call.task # "navigate"
    <3>1. UNCHANGED <<url, visits, moved>>
      BY <1>2, <2>4 DEF Navigated
    <3>2. QED
      BY <1>1, <2>1, <2>2, <3>1, DoneStep DEF DaemonTypes, ShownInv, HistoryEndsHere, Settled
  <2>5. QED
    BY <2>3, <2>4
<1>3. CASE NavigateFailed
  <2>1. PICK left \in Returned(FALSE) : Done(left)
    BY <1>3 DEF NavigateFailed
  <2>2. Abandoned(left) /\ UNCHANGED <<url, visits>> /\ moved' = TRUE
    BY <1>1, <1>3, <2>1, ReturnedIsAbandoned DEF NavigateFailed
  <2>3. QED
    BY <1>1, <2>1, <2>2, DoneStep DEF DaemonTypes, ShownInv, HistoryEndsHere
<1>4. QED
  BY <1>2, <1>3

\* A switch, or a burn, stops the browser.
LEMMA StopKeeps ==
  ASSUME BrowsingAssumption, BrowsingInv, Switch \/ Burn
  PROVE  BrowsingInv'
<1>1. /\ DaemonTypes /\ ShownInv /\ Abandoned(queue) /\ phase' = "burning"
      /\ UNCHANGED <<url, visits, pipe, moved, crashed>>
  BY FreeQueue DEF BrowsingInv, Switch, Burn, ghostVars
<1>2. CASE Switch
  <2>1. url # NoUrl
    <3>1. phase = "active" /\ visits \in Seq(Url) /\ visits # <<>>
          /\ visits[Len(visits)] = url
      BY <1>1, <1>2 DEF Switch, DaemonTypes, ShownInv, HistoryEndsHere
    <3>2. Len(visits) \in 1 .. Len(visits)
      BY <3>1
    <3>3. QED
      BY <3>1, <3>2 DEF BrowsingAssumption
  <2>2. Send(queue, "switch", "stop", NoUrl)
    BY <1>2 DEF Switch
  <2>3. QED
    BY <1>1, <2>1, <2>2, SendStep DEF DaemonTypes, Tasks, Browse, PageSet
<1>3. CASE Burn
  <2>1. Send(queue, "burn", "stop", NoUrl)
    BY <1>3 DEF Burn
  <2>2. QED
    BY <1>1, <2>1, SendStep DEF DaemonTypes, Tasks, Browse, PageSet
<1>4. QED
  BY <1>2, <1>3

\* The browser starts again, or the way back begins.
LEMMA RespawnKeeps ==
  ASSUME BrowsingAssumption, BrowsingInv, Respawn \/ SwitchFailed
  PROVE  BrowsingInv'
<1>1. /\ DaemonTypes /\ CallInv /\ ShownInv /\ QueueInv
      /\ call.task \in {"switch", "rollback"} /\ url # NoUrl
      /\ phase \notin {"idle", "active"}
      /\ UNCHANGED <<phase, url, visits, pipe, moved, crashed>>
  <2>1. DaemonTypes /\ CallInv /\ ShownInv /\ QueueInv
    BY DEF BrowsingInv
  <2>2. /\ call.task \in {"switch", "rollback"}
        /\ UNCHANGED <<phase, url, visits, pipe, moved, crashed>>
    BY DEF Respawn, SwitchFailed, ghostVars
  <2>3. url # NoUrl
    BY <2>1, <2>2 DEF CallInv
  <2>4. phase \notin {"idle", "active"}
    BY <2>1, <2>2 DEF ShownInv, Free, NoCall, Browse
  <2>5. QED
    BY <2>1, <2>2, <2>3, <2>4
<1>2. CASE Respawn
  <2>1. PICK left \in Returned(TRUE) \cup Returned(FALSE) :
          Send(left, call.task, "start", url)
    BY <1>2 DEF Respawn
  <2>2. Abandoned(left)
    BY <1>1, <2>1, ReturnedIsAbandoned
  <2>3. /\ call.task \in Tasks \ {"none"}
        /\ call.task \notin Browse \cup {"start", "abort", "burn"}
    BY <1>1 DEF Tasks, Browse
  <2>4. QED
    BY <1>1, <2>1, <2>2, <2>3, SendStep DEF DaemonTypes
<1>3. CASE SwitchFailed
  <2>1. PICK left \in Returned(TRUE) \cup Returned(FALSE) :
          Send(left, "rollback", "stop", NoUrl)
    BY <1>3 DEF SwitchFailed
  <2>2. Abandoned(left)
    BY <1>1, <2>1, ReturnedIsAbandoned
  <2>3. QED
    BY <1>1, <2>1, <2>2, SendStep DEF DaemonTypes, Tasks, Browse, PageSet
<1>4. QED
  BY <1>2, <1>3

\* The switch, or its rollback, is over.
LEMMA SwitchedKeeps ==
  ASSUME BrowsingAssumption, BrowsingInv, Switched \/ RollbackFailed
  PROVE  BrowsingInv'
<1>1. DaemonTypes /\ CallInv /\ ShownInv /\ QueueInv
  BY DEF BrowsingInv
<1>2. CASE Switched
  <2>1. /\ call.step = "start" /\ call.to = url /\ phase' = "active"
        /\ visits' = <<url>> /\ moved' = FALSE /\ crashed' = FALSE
        /\ UNCHANGED <<url, pipe>>
    BY <1>1, <1>2 DEF Switched, CallInv
  <2>2. PICK left \in Returned(TRUE) : Done(left)
    BY <1>2 DEF Switched
  <2>3. /\ Abandoned(left) /\ left = <<>>
        /\ AtPage(pipe, url) /\ url \in Url
    BY <2>1, <2>2, ReturnedTold
  <2>4. /\ visits' \in Seq(Url) /\ Len(visits') = 1 /\ 1 <= RingSize
        /\ visits' # <<>> /\ visits'[1] = url
    BY <2>1, <2>3 DEF BrowsingAssumption
  <2>5. QED
    BY <1>1, <2>1, <2>2, <2>3, <2>4, DoneStep DEF DaemonTypes
<1>3. CASE RollbackFailed
  <2>1. PICK left \in Returned(TRUE) \cup Returned(FALSE) : Done(left)
    BY <1>3 DEF RollbackFailed
  <2>2. Abandoned(left)
    BY <1>1, <2>1, ReturnedIsAbandoned
  <2>3. /\ phase' = "failed" /\ visits' = <<>> /\ visits' \in Seq(Url)
        /\ Len(visits') <= RingSize /\ UNCHANGED <<url, pipe, moved, crashed>>
    BY <1>3 DEF RollbackFailed, ghostVars, BrowsingAssumption
  <2>4. QED
    BY <1>1, <2>1, <2>2, <2>3, DoneStep DEF DaemonTypes
<1>4. QED
  BY <1>2, <1>3

\* The burn is over.
LEMMA BurntKeeps ==
  ASSUME BrowsingAssumption, BrowsingInv, Burnt
  PROVE  BrowsingInv'
<1>1. /\ DaemonTypes /\ QueueInv /\ call.step = "stop"
      /\ url' = NoUrl /\ visits' = <<>> /\ visits' \in Seq(Url) /\ Len(visits') <= RingSize
      /\ crashed' = (crashed /\ phase' # "idle") /\ UNCHANGED <<pipe, moved>>
  BY DEF BrowsingInv, CallInv, Burnt, BrowsingAssumption
<1>2. PICK ok \in BOOLEAN :
        \E left \in Returned(ok) : Done(left) /\ phase' \in Verdict(ok)
  BY DEF Burnt
<1>3. PICK left \in Returned(ok) : Done(left) /\ phase' \in Verdict(ok)
  BY <1>2
<1>4. /\ Abandoned(left) /\ phase' \in {"idle", "failed"}
      /\ phase' = "idle" => left = <<>> /\ pipe.page = NoUrl
  BY <1>1, <1>2, <1>3, ReturnedIsAbandoned, ReturnedTold DEF Verdict
<1>5. QED
  BY <1>1, <1>3, <1>4, DoneStep DEF DaemonTypes, PageSet

\* The handler is dropped, or the daemon restarts.
LEMMA DroppedKeeps ==
  ASSUME BrowsingAssumption, BrowsingInv, Cancel \/ Restart
  PROVE  BrowsingInv'
<1>1. DaemonTypes /\ CallInv /\ ShownInv /\ QueueInv
  BY DEF BrowsingInv
<1>2. PICK left \in GivenUp : Done(left)
  BY DEF Cancel, Restart
<1>3. Abandoned(left)
  BY <1>1, <1>2, GivenUpIsAbandoned
<1>4. CASE Cancel
  <2>1. /\ UNCHANGED <<phase, url, visits, pipe, crashed>> /\ phase # "idle"
        /\ moved' = (moved \/ call.task \in Browse)
        /\ phase = "active" => call.task \in Browse /\ HistoryEndsHere
    BY <1>1, <1>4 DEF Cancel, ShownInv, CallInv, Free
  <2>2. QED
    BY <1>1, <1>2, <1>3, <2>1, DoneStep DEF DaemonTypes, HistoryEndsHere
<1>5. CASE Restart
  <2>1. /\ phase' = "idle" /\ url' = NoUrl /\ visits' = <<>> /\ crashed' = TRUE
        /\ visits' \in Seq(Url) /\ Len(visits') <= RingSize /\ UNCHANGED <<pipe, moved>>
    BY <1>5 DEF Restart, BrowsingAssumption
  <2>2. QED
    BY <1>1, <1>2, <1>3, <2>1, DoneStep DEF DaemonTypes, PageSet
<1>6. QED
  BY <1>4, <1>5

-----------------------------------------------------------------------------
\* The appliance begins idle, with a Pipeline of the default.
LEMMA InvInit == BrowsingAssumption /\ Init => BrowsingInv
<1> SUFFICES ASSUME BrowsingAssumption, Init PROVE BrowsingInv
  OBVIOUS
<1> USE DEF Init, BrowsingAssumption
<1>1. DaemonTypes
  <2>1. visits \in Seq(Url) /\ Len(visits) <= RingSize
    OBVIOUS
  <2>2. QED
    BY <2>1 DEF DaemonTypes, PageSet
<1>2. QueueInv /\ CallInv
  BY DEF QueueInv, CallInv, CallSet, PageSet, Tasks, Browse, Named, NoCall, Free
<1>3. PipeInv
  BY DEF PipeInv, PipeSet, PageSet, Default, Cursor, Told
<1>4. ShownInv
  BY DEF ShownInv, HistoryEndsHere, Settled, Free, Default, NoCall
<1>5. QED
  BY <1>1, <1>2, <1>3, <1>4 DEF BrowsingInv

\* Every step keeps the invariant.
LEMMA InvStep == BrowsingAssumption /\ BrowsingInv /\ [Next]_vars => BrowsingInv'
<1> SUFFICES ASSUME BrowsingAssumption, BrowsingInv, [Next]_vars PROVE BrowsingInv'
  OBVIOUS
<1>1. CASE UNCHANGED vars
  BY <1>1 DEF vars, daemonVars, ghostVars, BrowsingInv, DaemonTypes, QueueInv, CallInv,
              PipeInv, ShownInv, HistoryEndsHere, Settled, Free, Named, Cursor, Told
<1>2. QED
  BY <1>1, ServeKeeps, ChildExitKeeps, DroppedKeeps, StartSessionKeeps, NavigateKeeps,
     StartedKeeps, AbortKeeps, NavigatedKeeps, StopKeeps, RespawnKeeps, SwitchedKeeps,
     BurntKeeps DEF Next

\* BrowsingInv holds in every behaviour of daemon and helper.
THEOREM Invariance == Spec => []BrowsingInv
  BY InvInit, InvStep, BrowsingAssumption, PTL DEF Spec

\* Every variable keeps its type, and the RAM history its bound.
THEOREM TypeCorrect == Spec => []TypeOK
<1>1. BrowsingInv => TypeOK
  BY DEF BrowsingInv, DaemonTypes, CallInv, CallSet, PipeInv, PipeSet, PageSet, Tasks,
         TypeOK
<1>2. QED
  BY <1>1, Invariance, PTL

\* burn_unchecked: no command given up on brings back a browser that a burn has
\* stopped, however many of them there were.
THEOREM BurnIsFinal == Spec => []IdleIsStopped
<1>1. BrowsingInv => IdleIsStopped
  BY DEF BrowsingInv, ShownInv, IdleIsStopped
<1>2. QED
  BY <1>1, Invariance, PTL

\* navigate: between calls the page of the child is the address the snapshot shows,
\* unless since it was accepted the client asked to go elsewhere or a browser command
\* of it failed or was dropped.
THEOREM SnapshotShowsPage == Spec => []PageIsShown
<1>1. BrowsingInv => PageIsShown
  <2>1. SUFFICES ASSUME BrowsingInv, phase = "active", Free, ~moved
                 PROVE  pipe.page \in {NoUrl, url} /\ queue = <<>>
    BY DEF PageIsShown
  <2>2. AtPage(pipe, url) /\ \A i \in 1 .. Len(queue) : queue[i].awaited
    BY <2>1 DEF BrowsingInv, ShownInv, Settled
  <2>3. queue \in Seq(Requests) /\ \A i \in 1 .. Len(queue) : ~queue[i].awaited
    BY <2>1, FreeQueue DEF Abandoned
  <2>4. queue = <<>>
    BY <2>2, <2>3
  <2>5. pipe.page \in {NoUrl, url}
    BY <2>1, <2>2 DEF BrowsingInv, PipeInv, Cursor, AtPage, Default
  <2>6. QED
    BY <2>4, <2>5
<1>2. QED
  BY <1>1, Invariance, PTL

\* Pipeline::apply: Back and Forward stay inside the pages visited.
THEOREM CursorStaysInside == Spec => []CursorOnPage
<1>1. BrowsingInv => CursorOnPage
  BY DEF BrowsingInv, PipeInv, Cursor, CursorOnPage
<1>2. QED
  BY <1>1, Invariance, PTL

\* push_history: the RAM history ends with the address shown.
THEOREM HistoryIsCurrent == Spec => []HistoryEndsHere
<1>1. BrowsingInv => HistoryEndsHere
  BY DEF BrowsingInv, ShownInv
<1>2. QED
  BY <1>1, Invariance, PTL
=============================================================================
