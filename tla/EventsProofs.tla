---------------------------- MODULE EventsProofs ----------------------------
(***************************************************************************)
(* The safety of Events for every set of sockets, every capacity of the    *)
(* ring and any number of clients and session ids.                         *)
(***************************************************************************)
EXTENDS Events, SequenceTheorems, TLAPS

Phase == {"idle", "starting", "active", "burning", "failed"}
EventSet == [phase : Phase, id : Nat, holder : Nat]
StreamSet == [id : Nat, holder : Nat]
SocketSet ==
  [at : {"closed", "greeting", "claimed", "checked", "admitted", "subscribed", "open"},
   purpose : Purpose, client : Nat, id : Nat,
   queue : Seq(EventSet), seen : Seq(EventSet), upstream : StreamSet]
WorkSet == [task : {"none", "start", "switch", "burn", "watchdog"},
            at : {"none", "announce", "call"}]

\* The types of the variables, those of the session and the lease included.
Types ==
  /\ phase \in Phase /\ id \in Nat /\ controller \in Nat /\ minted \in Nat
  /\ epoch \in Nat \ {0} /\ stage \in {"offered", "owned", "orphaned"} /\ owner \in Nat
  /\ tickets \subseteq Client \X Purpose
  /\ work \in WorkSet /\ late \subseteq EventSet
  /\ stream \in StreamSet /\ last \in EventSet
  /\ sockets \in [Socket -> SocketSet] /\ timely \subseteq Socket

\* Who holds anything does so since this epoch, and whatever tells of a session
\* tells of one that was held in this epoch or before.
Holders ==
  /\ owner \in {0, epoch} /\ controller \in {0, epoch}
  /\ stream.holder <= epoch /\ last.holder <= epoch
  /\ \A event \in late : event.holder <= epoch

\* No event is ahead of the ids handed out, and a session whose burning is the
\* last thing published is still burning.
Published ==
  /\ id <= minted /\ last.id <= minted
  /\ \A event \in late : event.phase = "active" /\ event.id <= minted
  /\ last.phase = "burning" /\ last.id = id /\ last.holder = controller => phase = "burning"

\* What the task of a socket holds, by its purpose and its progress.
Holds(s) ==
  LET x == sockets[s] IN
  /\ x.at # "closed" => x.client > 0
  /\ x.at = "subscribed" => x.purpose = "events"
  /\ x.at \notin {"subscribed", "open"} =>
       x.queue = <<>> /\ x.seen = <<>> /\ x.upstream = NoStream
  /\ x.purpose = "signaling" => x.queue = <<>> /\ x.seen = <<>>
  /\ Len(x.queue) <= Capacity /\ Len(x.seen) <= 1
  /\ \A i \in 1 .. Len(x.queue) : x.queue[i].holder <= epoch
  /\ \A i \in 1 .. Len(x.seen) : x.seen[i].holder <= epoch
  /\ x.upstream.holder <= epoch

\* A queue ends with the last event published; without one, the socket has shown
\* the session, unless it is about to be told of a change.
Drained(s) ==
  LET x == sockets[s] IN
  Hears(s) =>
    /\ x.queue # <<>> => x.queue[Len(x.queue)] = last
    /\ x.at = "open" /\ x.queue = <<>> /\ last = Now => x.seen = <<Now>>

\* A socket that joined in time is of the client that still holds the session,
\* or has the event that will close it in its queue.
EndWaits(s) == \E i \in 1 .. Len(sockets[s].queue) : Ends(sockets[s].queue[i])
Timely(s) ==
  /\ sockets[s].at \in {"subscribed", "open"} /\ sockets[s].purpose = "events"
  /\ InTime(s) \/ EndWaits(s)

EventsInv ==
  /\ Types /\ Holders /\ Published
  /\ \A s \in Socket : Holds(s) /\ Drained(s)
  /\ \A s \in timely : Timely(s)

-----------------------------------------------------------------------------
\* What a full or a growing ring r keeps of a queue q and the event e put into
\* it.
Ringed(r, q, e, n) ==
  /\ r \in Seq(EventSet) /\ r # <<>> /\ Len(r) <= n
  /\ r[Len(r)] = e
  /\ \A i \in 1 .. Len(r) : r[i] = e \/ \E j \in 1 .. Len(q) : r[i] = q[j]
  /\ Len(q) < n => r = Append(q, e)

\* The queues of the bus are such rings.
LEMMA RingKeeps ==
  \A q \in Seq(EventSet), e \in EventSet, n \in Nat \ {0} :
    Ringed(LastOf(Append(q, e), n), q, e, n)
<1> TAKE q \in Seq(EventSet), e \in EventSet, n \in Nat \ {0}
<1> PICK r : r = LastOf(Append(q, e), n)
  OBVIOUS
<1> SUFFICES Ringed(r, q, e, n)
  OBVIOUS
<1> USE DEF Ringed
<1> DEFINE a == Append(q, e)
<1>1. /\ a \in Seq(EventSet) /\ Len(a) = Len(q) + 1 /\ Len(q) \in Nat
      /\ \A i \in 1 .. Len(q) : a[i] = q[i]
      /\ a[Len(q) + 1] = e
  BY AppendProperties, LenProperties
<1>2. CASE Len(a) <= n
  <2>1. r = a
    BY <1>2 DEF LastOf
  <2>2. QED
    BY <1>1, <1>2, <2>1
<1>3. CASE ~ (Len(a) <= n)
  <2> DEFINE m == Len(a) - n + 1
  <2>1. r = SubSeq(a, m, Len(a))
    BY <1>3 DEF LastOf
  <2>2. m \in Int /\ Len(a) \in Int /\ Len(a) - m + 1 = n /\ m <= Len(a)
    BY <1>1, <1>3
  <2>3. /\ r \in Seq(EventSet) /\ Len(r) = n
        /\ \A i \in 1 .. n : r[i] = a[m + i - 1]
    <3>1. \A i \in m .. Len(a) : a[i] \in EventSet
      BY <1>1, <1>3, ElementOfSeq
    <3>2. /\ SubSeq(a, m, Len(a)) \in Seq(EventSet)
          /\ Len(SubSeq(a, m, Len(a))) = IF m <= Len(a) THEN Len(a) - m + 1 ELSE 0
          /\ \A i \in 1 .. Len(a) - m + 1 : SubSeq(a, m, Len(a))[i] = a[m + i - 1]
      <4> HIDE DEF a, m
      <4>1. QED
        BY <2>2, <3>1, SubSeqProperties
    <3>3. QED
      BY <2>1, <2>2, <3>2
  <2>4. r[n] = e
    BY <1>1, <2>3
  <2>5. \A i \in 1 .. n : m + i - 1 \in 1 .. Len(q) + 1
    BY <1>1, <1>3
  <2>6. r # <<>>
    BY <2>3, LenProperties, EmptySeq
  <2>7. QED
    BY <1>1, <1>3, <2>3, <2>4, <2>5, <2>6
<1>4. QED
  BY <1>2, <1>3

\* A queue of events holds events.
LEMMA QueueOfEvents ==
  \A q \in Seq(EventSet) : Len(q) \in Nat /\ \A i \in 1 .. Len(q) : q[i] \in EventSet
<1> TAKE q \in Seq(EventSet)
<1>1. QED
  BY ElementOfSeq, LenProperties

\* The client of a socket that joined in time is the last that took the lease, so
\* all the socket holds is its own.
LEMMA OwnInTime ==
  ASSUME EventsInv, NEW s \in Socket, sockets[s].at # "closed", InTime(s)
  PROVE  Own(s) /\ controller > 0 /\ controller = epoch
<1>1. /\ sockets[s] \in SocketSet /\ controller \in Nat /\ controller \in {0, epoch}
      /\ sockets[s].client > 0 /\ sockets[s].client = controller
  BY DEF EventsInv, Types, Holders, Holds, InTime
<1>2. Len(sockets[s].seen) \in Nat /\ DOMAIN sockets[s].seen = 1 .. Len(sockets[s].seen)
  BY <1>1, LenProperties DEF SocketSet
<1>3. QED
  BY <1>1, <1>2 DEF EventsInv, Holds, Own

\* The rest of the session stands as it does for those who joined in time.
Steady == controller' = controller /\ (phase' = "burning" => work'.at # "call")
InTouch == controller > 0 /\ (phase = "burning" => work.at # "call")

\* An event is put into every queue: what the sockets have stays true, if those
\* who joined in time lose the session only to an event that ends them.
LEMMA PublishKeeps ==
  ASSUME EventsInv, EventsAssumption, NEW event \in EventSet, event.holder <= epoch,
         Publish(event), epoch' = epoch, InTouch => Steady \/ Ends(event)
  PROVE  /\ sockets' \in [Socket -> SocketSet] /\ timely' \subseteq Socket
         /\ last' = event
         /\ \A s \in Socket : Holds(s)' /\ Drained(s)'
         /\ \A s \in timely' : Timely(s)'
<1>0. /\ Types /\ Holders /\ last' = event /\ timely' \subseteq timely
      /\ timely' \subseteq Socket /\ Capacity \in Nat \ {0}
  BY EventsAssumption DEF EventsInv, Types, Publish
<1>1. ASSUME NEW s \in Socket, ~Hears(s)
      PROVE  /\ sockets'[s] = sockets[s] /\ sockets'[s] \in SocketSet
             /\ ~Hears(s)' /\ Holds(s)' /\ Drained(s)'
             /\ s \in timely' => Timely(s)'
  <2>1. sockets'[s] = sockets[s] /\ sockets[s] \in SocketSet /\ ~Hears(s)'
    BY <1>0, <1>1 DEF Publish, Types, Hears
  <2>2. Holds(s)' /\ Drained(s)'
    BY <1>0, <1>1, <2>1 DEF EventsInv, Holds, Drained, Hears
  <2>3. ASSUME s \in timely' PROVE Timely(s)'
    <3>1. Timely(s)
      BY <1>0, <2>3 DEF EventsInv
    <3>2. QED
      BY <1>1, <3>1 DEF Timely, Hears
  <2>4. QED
    BY <2>1, <2>2, <2>3
<1>2. ASSUME NEW s \in Socket, Hears(s)
      PROVE  /\ sockets'[s] \in SocketSet
             /\ Holds(s)' /\ Drained(s)'
             /\ s \in timely' => Timely(s)'
  <2> PICK q : q = sockets[s].queue
    OBVIOUS
  <2> PICK r : r = LastOf(Append(q, event), Capacity)
    OBVIOUS
  <2>1. /\ sockets'[s] = [sockets[s] EXCEPT !.queue = r] /\ sockets[s] \in SocketSet
        /\ q \in Seq(EventSet)
    BY <1>0, <1>2 DEF Publish, Types, SocketSet
  <2>2. /\ r \in Seq(EventSet) /\ r # <<>> /\ Len(r) <= Capacity
        /\ r[Len(r)] = event
        /\ \A i \in 1 .. Len(r) : r[i] = event \/ \E j \in 1 .. Len(q) : r[i] = q[j]
        /\ Len(q) < Capacity => r = Append(q, event)
    <3>1. q \in Seq(EventSet) /\ event \in EventSet /\ Capacity \in Nat \ {0}
      BY <1>0, <2>1
    <3>2. Ringed(r, q, event, Capacity)
      BY <3>1, RingKeeps
    <3>3. QED
      BY <3>2 DEF Ringed
  <2>3. /\ sockets'[s] \in SocketSet /\ sockets'[s].queue = r
        /\ sockets'[s].at = sockets[s].at /\ sockets'[s].purpose = sockets[s].purpose
        /\ sockets'[s].client = sockets[s].client /\ sockets'[s].seen = sockets[s].seen
        /\ sockets'[s].upstream = sockets[s].upstream
    BY <2>1, <2>2 DEF SocketSet
  <2>4. Hears(s)'
    BY <1>2, <2>3 DEF Hears
  <2>5. \A i \in 1 .. Len(r) : r[i].holder <= epoch
    BY <2>2 DEF EventsInv, Holds
  <2>6. Holds(s)'
    BY <1>2, <2>2, <2>3, <2>4, <2>5 DEF EventsInv, Holds, Hears
  <2>7. Drained(s)'
    BY <1>0, <2>2, <2>3 DEF Drained
  <2>8. ASSUME s \in timely' PROVE Timely(s)'
    <3>1. Timely(s) /\ Len(q) < Capacity /\ r = Append(q, event) /\ Len(q) \in Nat
      BY <1>0, <1>2, <2>1, <2>2, <2>8, LenProperties DEF EventsInv, Publish
    <3>2. sockets[s].at \in {"subscribed", "open"} /\ sockets[s].purpose = "events"
      BY <1>2 DEF Hears
    <3>3. /\ Len(r) = Len(q) + 1 /\ r[Len(q) + 1] = event
          /\ \A i \in 1 .. Len(q) : r[i] = q[i]
      BY <2>1, <3>1, AppendProperties
    <3>4. CASE EndWaits(s) \/ Ends(event)
      <4>1. \E i \in 1 .. Len(r) : Ends(r[i])
        BY <3>1, <3>3, <3>4 DEF EndWaits
      <4>2. EndWaits(s)'
        BY <2>3, <4>1 DEF EndWaits, Ends
      <4>3. QED
        BY <2>3, <3>2, <4>2 DEF Timely
    <3>5. CASE InTime(s) /\ Steady
      <4>1. InTime(s)'
        BY <2>3, <3>5 DEF InTime, Steady
      <4>2. QED
        BY <2>3, <3>2, <4>1 DEF Timely
    <3>6. InTime(s) => InTouch
      BY <3>2, OwnInTime DEF InTime, InTouch
    <3>7. QED
      BY <3>1, <3>2, <3>4, <3>5, <3>6 DEF Timely
  <2>9. QED
    BY <2>3, <2>6, <2>7, <2>8
<1>3. sockets' \in [Socket -> SocketSet]
  <2>1. \A s \in Socket : sockets'[s] \in SocketSet
    BY <1>1, <1>2
  <2>2. sockets' = [s \in Socket |-> sockets'[s]]
    BY DEF Publish
  <2>3. QED
    BY <2>1, <2>2
<1>4. QED
  BY <1>0, <1>1, <1>2, <1>3
\* The sockets stand still: what they have stays true, if those who joined in time
\* keep the session and the last event does not come to tell of the present.
LEMMA QuietKeeps ==
  ASSUME EventsInv, Quiet, epoch' \in Nat, epoch' >= epoch, InTouch => Steady,
         last = Now' => last = Now
  PROVE  /\ sockets' \in [Socket -> SocketSet] /\ timely' \subseteq Socket
         /\ \A s \in Socket : Holds(s)' /\ Drained(s)'
         /\ \A s \in timely' : Timely(s)'
<1>1. sockets' = sockets /\ timely' = timely /\ last' = last
  BY DEF Quiet
<1>2. sockets' \in [Socket -> SocketSet] /\ timely' \subseteq Socket
  BY <1>1 DEF EventsInv, Types
<1>3. ASSUME NEW s \in Socket PROVE Holds(s)'
  <2>1. /\ Holds(s) /\ sockets[s] \in SocketSet /\ epoch \in Nat
        /\ Hears(s) <=> Hears(s)'
    BY <1>1 DEF EventsInv, Types, Hears
  <2>2. /\ sockets[s].seen \in Seq(EventSet) /\ sockets[s].queue \in Seq(EventSet)
        /\ sockets[s].upstream.holder \in Nat
    BY <2>1 DEF SocketSet, StreamSet
  <2>3. /\ \A i \in 1 .. Len(sockets[s].queue) : sockets[s].queue[i].holder \in Nat
        /\ \A i \in 1 .. Len(sockets[s].seen) : sockets[s].seen[i].holder \in Nat
    BY <2>2, QueueOfEvents DEF EventSet
  <2>4. /\ \A i \in 1 .. Len(sockets[s].queue) : sockets[s].queue[i].holder <= epoch'
        /\ \A i \in 1 .. Len(sockets[s].seen) : sockets[s].seen[i].holder <= epoch'
        /\ sockets[s].upstream.holder <= epoch'
    BY <2>1, <2>2, <2>3 DEF Holds
  <2>5. QED
    BY <1>1, <2>1, <2>4 DEF Holds
<1>4. ASSUME NEW s \in Socket PROVE Drained(s)'
  BY <1>1 DEF EventsInv, Drained, Hears, Now
<1>5. ASSUME NEW s \in timely' PROVE Timely(s)'
  <2>1. Timely(s) /\ s \in Socket /\ sockets[s].at # "closed"
    BY <1>1 DEF EventsInv, Types, Timely
  <2>2. EndWaits(s)' <=> EndWaits(s)
    BY <1>1 DEF EndWaits, Ends
  <2>3. Own(s)' <=> Own(s)
    BY <1>1 DEF Own
  <2>4. InTime(s) => InTime(s)'
    <3>1. InTime(s) => InTouch
      BY <2>1, OwnInTime DEF InTime, InTouch
    <3>2. QED
      BY <1>1, <3>1 DEF InTime, Steady
  <2>5. QED
    BY <1>1, <2>1, <2>2, <2>3, <2>4 DEF Timely
<1>6. QED
  BY <1>2, <1>3, <1>4, <1>5

\* One socket moves: the others are as they were.
LEMMA SocketKeeps ==
  ASSUME EventsInv, NEW s \in Socket, NEW x \in SocketSet,
         sockets' = [sockets EXCEPT ![s] = x], SocketRest,
         tickets' \subseteq tickets, timely' \subseteq timely \cup {s},
         Holds(s)', Drained(s)', s \in timely' => Timely(s)'
  PROVE  EventsInv'
<1>1. /\ UNCHANGED <<phase, id, controller, minted, epoch, stage, owner>>
      /\ UNCHANGED <<work, late, last, stream>>
  BY DEF SocketRest, phasesVars, phaseVars, leaseVars, busVars
<1>2. Types' /\ Holders' /\ Published'
  BY <1>1 DEF EventsInv, Types, Holders, Published
<1>3. ASSUME NEW t \in Socket, t # s
      PROVE  sockets'[t] = sockets[t] /\ Holds(t)' /\ Drained(t)'
  <2>1. sockets'[t] = sockets[t]
    BY <1>3 DEF EventsInv, Types
  <2>2. QED
    BY <1>1, <2>1 DEF EventsInv, Holds, Drained, Hears, Now
<1>4. ASSUME NEW t \in timely', t # s PROVE Timely(t)'
  <2>1. t \in timely /\ t \in Socket /\ sockets'[t] = sockets[t]
    BY <1>3, <1>4 DEF EventsInv, Types
  <2>2. /\ InTime(t)' <=> InTime(t)
        /\ EndWaits(t)' <=> EndWaits(t)
        /\ Own(t)' <=> Own(t)
    BY <1>1, <2>1 DEF InTime, EndWaits, Ends, Own
  <2>3. QED
    BY <2>1, <2>2 DEF EventsInv, Timely
<1>5. QED
  BY <1>2, <1>3, <1>4 DEF EventsInv

\* A closed socket holds nothing.
LEMMA ClosedHolds ==
  ASSUME EventsAssumption, EventsInv, NEW s \in Socket, sockets'[s] = Closed,
         epoch' \in Nat
  PROVE  Closed \in SocketSet /\ Holds(s)' /\ Drained(s)'
<1>1. /\ Closed \in SocketSet /\ Closed.at = "closed" /\ Closed.queue = <<>>
      /\ Closed.seen = <<>> /\ Closed.purpose = "events" /\ Closed.upstream.holder = 0
  BY EventsAssumption DEF Closed, SocketSet, StreamSet, NoStream, Purpose
<1>2. Len(Closed.queue) = 0 /\ Len(Closed.seen) = 0 /\ Capacity \in Nat
  BY <1>1, EventsAssumption
<1>3. Closed.upstream = NoStream
  BY DEF Closed
<1>4. QED
  BY <1>1, <1>2, <1>3 DEF Holds, Drained, Hears
\* A socket on its way to be admitted has nothing yet.
LEMMA EarlyKeeps ==
  ASSUME EventsAssumption, EventsInv, NEW s \in Socket, NEW x \in SocketSet,
         sockets[s].at \notin {"subscribed", "open"},
         x.at \notin {"subscribed", "open"}, x.at # "closed" => x.client > 0,
         x.queue = <<>>, x.seen = <<>>, x.upstream = NoStream,
         sockets' = [sockets EXCEPT ![s] = x], SocketRest,
         tickets' \subseteq tickets, timely' \subseteq timely
  PROVE  EventsInv'
<1>1. sockets'[s] = x /\ s \notin timely'
  BY DEF EventsInv, Types, Timely
<1>2. Len(x.queue) = 0 /\ Len(x.seen) = 0 /\ Capacity \in Nat /\ NoStream.holder = 0
  BY EventsAssumption DEF NoStream
<1>3. epoch' = epoch /\ epoch \in Nat
  BY DEF SocketRest, phasesVars, leaseVars, EventsInv, Types
<1>4. Holds(s)' /\ Drained(s)'
  BY <1>1, <1>2, <1>3 DEF Holds, Drained, Hears
<1>5. QED
  BY <1>1, <1>4, SocketKeeps

\* Whatever closes a socket.
LEMMA CloseKeeps ==
  ASSUME EventsAssumption, EventsInv, NEW s \in Socket,
         sockets' = [sockets EXCEPT ![s] = Closed], SocketRest,
         tickets' \subseteq tickets, timely' \subseteq timely \ {s}
  PROVE  EventsInv'
<1>1. sockets'[s] = Closed /\ epoch' \in Nat
  BY DEF EventsInv, Types, SocketRest, phasesVars, leaseVars
<1>2. Closed \in SocketSet /\ Holds(s)' /\ Drained(s)'
  BY <1>1, ClosedHolds
<1>3. QED
  BY <1>2, SocketKeeps

\* A connection of a client comes in.
LEMMA ConnectKeeps ==
  ASSUME EventsAssumption, EventsInv, NEW s \in Socket, NEW c \in Client,
         NEW p \in Purpose, Connect(s, c, p)
  PROVE  EventsInv'
<1>1. PICK x : x = [Closed EXCEPT !.at = "greeting", !.purpose = p, !.client = c, !.id = id]
  OBVIOUS
<1>2. NoClient \in Nat /\ NoId \in Nat /\ c \in Nat /\ c > 0 /\ id \in Nat
  BY EventsAssumption DEF EventsInv, Types
<1>3. /\ Closed \in SocketSet /\ Closed.queue = <<>> /\ Closed.seen = <<>>
      /\ Closed.upstream = NoStream
  BY <1>2 DEF Closed, SocketSet, StreamSet, NoStream, Purpose
<1>4. /\ x \in SocketSet /\ x.at = "greeting" /\ x.client = c
      /\ x.queue = <<>> /\ x.seen = <<>> /\ x.upstream = NoStream
  BY <1>1, <1>2, <1>3 DEF SocketSet
<1>5. sockets[s].at = "closed" /\ sockets' = [sockets EXCEPT ![s] = x]
  BY <1>1 DEF Connect
<1>6. QED
  BY <1>2, <1>4, <1>5, EarlyKeeps DEF Connect

\* The steps between the greeting and the admission.
LEMMA AdmissionKeeps ==
  ASSUME EventsAssumption, EventsInv, NEW s \in Socket,
         (\E p \in Purpose : ConsumeTicket(s, p)) \/ CheckId(s) \/ Admit(s)
  PROVE  EventsInv'
<1>1. /\ sockets[s] \in SocketSet /\ s \in DOMAIN sockets /\ Holds(s)
      /\ sockets[s].at \in {"greeting", "claimed", "checked"}
  BY DEF EventsInv, Types, ConsumeTicket, CheckId, Admit, Task
<1>2. /\ sockets[s].client > 0 /\ sockets[s].queue = <<>> /\ sockets[s].seen = <<>>
      /\ sockets[s].upstream = NoStream
  BY <1>1 DEF Holds
<1>3. s \notin timely
  BY <1>1 DEF EventsInv, Timely
<1>4. CASE \E p \in Purpose : ConsumeTicket(s, p)
  <2>1. PICK p \in Purpose : ConsumeTicket(s, p)
    BY <1>4
  <2>2. CASE p = sockets[s].purpose
    <3>1. PICK x : x = [sockets[s] EXCEPT !.at = "claimed"]
      OBVIOUS
    <3>2. /\ x \in SocketSet /\ x.at = "claimed" /\ x.client = sockets[s].client
          /\ x.queue = <<>> /\ x.seen = <<>> /\ x.upstream = NoStream
      BY <1>1, <1>2, <3>1 DEF SocketSet
    <3>3. sockets' = [sockets EXCEPT ![s] = x]
      BY <1>1, <2>1, <2>2, <3>1 DEF ConsumeTicket
    <3>4. QED
      BY <1>1, <1>2, <2>1, <3>2, <3>3, EarlyKeeps DEF ConsumeTicket
  <2>3. CASE p # sockets[s].purpose
    <3>1. sockets' = [sockets EXCEPT ![s] = Closed]
      BY <1>1, <2>1, <2>3 DEF ConsumeTicket
    <3>2. QED
      BY <1>3, <2>1, <3>1, CloseKeeps DEF ConsumeTicket
  <2>4. QED
    BY <2>2, <2>3
<1>5. CASE CheckId(s)
  <2>1. PICK x : x = [sockets[s] EXCEPT !.at = "checked", !.id = NoId]
    OBVIOUS
  <2>a. NoId \in Nat
    BY EventsAssumption
  <2>2. /\ x \in SocketSet /\ x.at = "checked" /\ x.client = sockets[s].client
        /\ x.queue = <<>> /\ x.seen = <<>> /\ x.upstream = NoStream
    BY <1>1, <1>2, <2>a, <2>1 DEF SocketSet
  <2>3. sockets' = [sockets EXCEPT ![s] = x]
    BY <1>1, <1>5, <2>1 DEF CheckId, EventsInv, Types
  <2>4. QED
    BY <1>1, <1>2, <1>5, <2>2, <2>3, EarlyKeeps DEF CheckId
<1>6. CASE Admit(s)
  <2>1. PICK x : x = [sockets[s] EXCEPT !.at = "admitted"]
    OBVIOUS
  <2>2. /\ x \in SocketSet /\ x.at = "admitted" /\ x.client = sockets[s].client
        /\ x.queue = <<>> /\ x.seen = <<>> /\ x.upstream = NoStream
    BY <1>1, <1>2, <2>1 DEF SocketSet
  <2>3. sockets' = [sockets EXCEPT ![s] = x]
    BY <1>1, <1>6, <2>1 DEF Admit, Task
  <2>4. QED
    BY <1>1, <1>2, <1>6, <2>2, <2>3, EarlyKeeps DEF Admit
<1>7. QED
  BY <1>4, <1>5, <1>6
\* The socket subscribes, with nothing in its queue.
LEMMA SubscribeKeeps ==
  ASSUME EventsAssumption, EventsInv, NEW s \in Socket, Subscribe(s)
  PROVE  EventsInv'
<1>1. /\ sockets[s] \in SocketSet /\ s \in DOMAIN sockets /\ Holds(s)
      /\ sockets[s].at = "admitted" /\ sockets[s].purpose = "events" /\ epoch' = epoch
  BY DEF EventsInv, Types, Subscribe, Task, SocketRest, phasesVars, leaseVars
<1>2. PICK x : x = [sockets[s] EXCEPT !.at = "subscribed"]
  OBVIOUS
<1>3. /\ x \in SocketSet /\ x.at = "subscribed" /\ x.client = sockets[s].client
      /\ x.queue = <<>> /\ x.seen = <<>> /\ x.upstream = NoStream
      /\ x.purpose = "events" /\ x.client > 0 /\ NoStream.holder <= epoch
  BY <1>1, <1>2 DEF SocketSet, Holds
<1>4. sockets' = [sockets EXCEPT ![s] = x] /\ sockets'[s] = x
  BY <1>1, <1>2 DEF Subscribe, Task
<1>5. Len(x.queue) <= Capacity /\ Len(x.seen) = 0 /\ Len(x.queue) = 0
  BY <1>3, EventsAssumption
<1>6. Holds(s)'
  BY <1>1, <1>3, <1>4, <1>5 DEF Holds
<1>7. Drained(s)'
  BY <1>3, <1>4 DEF Drained
<1>8. ASSUME s \in timely' PROVE Timely(s)'
  <2>1. s \notin timely
    BY <1>1 DEF EventsInv, Timely
  <2>2. InTime(s) /\ controller' = controller /\ phase' = phase /\ work' = work
    BY <1>8, <2>1 DEF Subscribe, SocketRest, phasesVars, phaseVars, busVars
  <2>3. QED
    BY <1>3, <1>4, <2>2 DEF Timely, InTime
<1>9. QED
  BY <1>3, <1>4, <1>6, <1>7, <1>8, SocketKeeps DEF Subscribe

\* The present is an event of this epoch at the latest.
LEMMA NowIsEvent ==
  ASSUME EventsInv
  PROVE  Now \in EventSet /\ Now.holder = controller /\ controller <= epoch
BY DEF EventsInv, Types, Holders, Now, EventSet

\* An open event socket holds what an event socket may hold.
LEMMA OpenHolds ==
  ASSUME NEW s \in Socket, NEW x, sockets'[s] = x, x.at = "open", x.client > 0,
         x.purpose = "events", Len(x.queue) <= Capacity, Len(x.seen) = 1,
         \A i \in 1 .. Len(x.queue) : x.queue[i].holder <= epoch',
         \A i \in 1 .. Len(x.seen) : x.seen[i].holder <= epoch',
         x.upstream.holder <= epoch'
  PROVE  Holds(s)'
BY DEF Holds

\* A sequence of one.
LEMMA Single ==
  \A e \in EventSet : \A y :
    y = <<e>> => y \in Seq(EventSet) /\ Len(y) = 1 /\ \A i \in 1 .. Len(y) : y[i] = e
<1> TAKE e \in EventSet
<1> TAKE y
<1> HAVE y = <<e>>
<1>1. y \in Seq(EventSet) /\ Len(y) = 1 /\ y[1] = e
  OBVIOUS
<1>2. \A i \in 1 .. Len(y) : i = 1
  BY <1>1
<1>3. QED
  BY <1>1, <1>2

\* The snapshot goes out first, after the subscription.
LEMMA SendSnapshotKeeps ==
  ASSUME EventsAssumption, EventsInv, NEW s \in Socket, SendSnapshot(s)
  PROVE  EventsInv'
<1>1. /\ sockets[s] \in SocketSet /\ s \in DOMAIN sockets /\ Holds(s) /\ Drained(s)
      /\ sockets[s].at = "subscribed" /\ sockets[s].purpose = "events"
      /\ Hears(s) /\ Now \in EventSet /\ Now.holder <= epoch
  BY NowIsEvent DEF EventsInv, Types, SendSnapshot, Holds, Hears
<1>2. PICK y : y = <<Now>>
  OBVIOUS
<1>a. PICK x : x = [sockets[s] EXCEPT !.at = "open", !.seen = y]
  OBVIOUS
<1>3. y \in Seq(EventSet) /\ Len(y) = 1 /\ \A i \in 1 .. Len(y) : y[i] = Now
  BY <1>1, <1>2, Single
<1>4. /\ x \in SocketSet /\ x.at = "open" /\ x.client = sockets[s].client
      /\ x.queue = sockets[s].queue /\ x.seen = y /\ x.upstream = sockets[s].upstream
      /\ x.purpose = "events"
  BY <1>1, <1>a, <1>3 DEF SocketSet
<1>5. sockets' = [sockets EXCEPT ![s] = x] /\ sockets'[s] = x
  BY <1>1, <1>2, <1>a DEF SendSnapshot
<1>6. /\ epoch' = epoch /\ phase' = phase /\ id' = id /\ controller' = controller
      /\ work' = work /\ last' = last
  BY DEF SendSnapshot, SocketRest, phasesVars, phaseVars, leaseVars, busVars
<1>7. Holds(s)'
  <2>1. \A i \in 1 .. Len(y) : y[i].holder <= epoch
    BY <1>1, <1>3
  <2>2. /\ x.client > 0 /\ Len(x.queue) <= Capacity /\ Len(x.seen) = 1
        /\ x.upstream.holder <= epoch'
        /\ \A i \in 1 .. Len(x.queue) : x.queue[i].holder <= epoch'
    BY <1>1, <1>3, <1>4, <1>6 DEF Holds
  <2>3. \A i \in 1 .. Len(x.seen) : x.seen[i].holder <= epoch'
    BY <1>4, <1>6, <2>1
  <2>4. QED
    BY <1>4, <1>5, <2>2, <2>3, OpenHolds
<1>8. Drained(s)'
  <2>1. Now' = Now
    BY <1>6 DEF Now
  <2>2. QED
    BY <1>1, <1>2, <1>4, <1>5, <1>6, <2>1 DEF Drained
<1>9. ASSUME s \in timely' PROVE Timely(s)'
  <2>1. Timely(s)
    BY <1>9 DEF EventsInv, SendSnapshot
  <2>2. /\ InTime(s)' <=> InTime(s)
        /\ EndWaits(s)' <=> EndWaits(s)
    BY <1>4, <1>5, <1>6 DEF InTime, EndWaits, Ends
  <2>3. QED
    BY <1>1, <1>4, <1>5, <2>1, <2>2 DEF Timely
<1>10. QED
  BY <1>4, <1>5, <1>7, <1>8, <1>9, SocketKeeps DEF SendSnapshot

\* An event is shown, or closes the socket.
LEMMA DeliverKeeps ==
  ASSUME EventsAssumption, EventsInv, NEW s \in Socket, Deliver(s)
  PROVE  EventsInv'
<1> PICK q : q = sockets[s].queue
  OBVIOUS
<1> PICK event : event = Head(q)
  OBVIOUS
<1>1. /\ sockets[s] \in SocketSet /\ s \in DOMAIN sockets /\ Holds(s) /\ Drained(s)
      /\ sockets[s].at = "open" /\ sockets[s].purpose = "events"
      /\ Hears(s) /\ q \in Seq(EventSet) /\ q # <<>>
  BY DEF EventsInv, Types, Deliver, Holds, Hears, SocketSet, Purpose
<1>2. CASE Ends(event)
  <2>1. sockets' = [sockets EXCEPT ![s] = Closed] /\ timely' = timely \ {s}
    BY <1>2 DEF Deliver
  <2>2. QED
    BY <2>1, CloseKeeps DEF Deliver
<1>3. CASE ~Ends(event)
  <2>1. PICK t : t = Tail(q)
    OBVIOUS
  <2>2. /\ Len(q) \in Nat /\ Len(q) > 0 /\ event \in EventSet /\ event = q[1]
        /\ t \in Seq(EventSet) /\ Len(t) = Len(q) - 1
        /\ \A i \in 1 .. Len(q) - 1 : t[i] = q[i + 1]
    <3>1. Len(q) \in Nat /\ Len(q) > 0
      BY <1>1, LenProperties, EmptySeq
    <3>2. QED
      BY <1>1, <2>1, <3>1, HeadTailProperties, ElementOfSeq
  <2>3. PICK y : y = <<event>>
    OBVIOUS
  <2>4. y \in Seq(EventSet) /\ Len(y) = 1 /\ \A i \in 1 .. Len(y) : y[i] = event
    BY <2>2, <2>3, Single
  <2>5. PICK x : x = [sockets[s] EXCEPT !.seen = y, !.queue = t]
    OBVIOUS
  <2>6. /\ x \in SocketSet /\ x.at = "open" /\ x.client = sockets[s].client
        /\ x.queue = t /\ x.seen = y /\ x.upstream = sockets[s].upstream
        /\ x.purpose = "events"
    BY <1>1, <2>2, <2>4, <2>5 DEF SocketSet
  <2>7. sockets' = [sockets EXCEPT ![s] = x] /\ sockets'[s] = x
    BY <1>1, <1>3, <2>1, <2>3, <2>5 DEF Deliver
  <2>8. /\ epoch' = epoch /\ phase' = phase /\ id' = id /\ controller' = controller
        /\ work' = work /\ last' = last /\ timely' = timely
    BY <1>3 DEF Deliver, SocketRest, phasesVars, phaseVars, leaseVars, busVars
  <2>9. Holds(s)'
    <3>1. \A i \in 1 .. Len(q) - 1 : i + 1 \in 1 .. Len(q)
      BY <2>2
    <3>2. \A i \in 1 .. Len(q) : q[i].holder <= epoch
      BY <1>1 DEF Holds
    <3>3. \A i \in 1 .. Len(t) : t[i].holder <= epoch
      BY <2>2, <3>1, <3>2
    <3>4. Len(t) <= Capacity /\ \A i \in 1 .. Len(y) : y[i].holder <= epoch
      BY <1>1, <2>2, <2>4, <3>2, EventsAssumption DEF Holds
    <3>5. /\ x.client > 0 /\ Len(x.queue) <= Capacity /\ Len(x.seen) = 1
          /\ x.upstream.holder <= epoch'
      BY <1>1, <2>4, <2>6, <2>8, <3>4 DEF Holds
    <3>6. /\ \A i \in 1 .. Len(x.queue) : x.queue[i].holder <= epoch'
          /\ \A i \in 1 .. Len(x.seen) : x.seen[i].holder <= epoch'
      BY <2>6, <2>8, <3>3, <3>4
    <3>7. QED
      BY <2>6, <2>7, <3>5, <3>6, OpenHolds
  <2>10. Drained(s)'
    <3>1. Now' = Now /\ q[Len(q)] = last
      BY <1>1, <2>8 DEF Now, Drained
    <3>2. CASE Len(q) = 1
      <4>1. event = last /\ t = <<>>
        BY <2>2, <3>1, <3>2, EmptySeq
      <4>2. QED
        BY <2>3, <2>6, <2>7, <2>8, <3>1, <4>1 DEF Drained
    <3>3. CASE Len(q) > 1
      <4>1. Len(t) > 0 /\ Len(t) \in 1 .. Len(q) - 1 /\ Len(t) + 1 = Len(q)
        <5>1. Len(q) \in Nat /\ Len(q) > 0 /\ Len(t) = Len(q) - 1
          BY <2>2
        <5>2. QED
          BY <3>3, <5>1
      <4>2. t[Len(t)] = q[Len(q)] /\ t # <<>>
        BY <2>2, <4>1, EmptySeq
      <4>3. QED
        BY <2>6, <2>7, <2>8, <3>1, <4>2 DEF Drained
    <3>4. Len(q) = 1 \/ Len(q) > 1
      <4>1. \A n \in Nat : n > 0 => n = 1 \/ n > 1
        OBVIOUS
      <4>2. QED
        BY <2>2, <4>1
    <3>5. QED
      BY <3>2, <3>3, <3>4
  <2>11. ASSUME s \in timely' PROVE Timely(s)'
    <3>1. Timely(s)
      BY <2>8, <2>11 DEF EventsInv
    <3>2. InTime(s)' <=> InTime(s)
      BY <2>6, <2>7, <2>8 DEF InTime
    <3>3. ASSUME EndWaits(s) PROVE EndWaits(s)'
      <4>1. PICK i \in 1 .. Len(q) : Ends(q[i])
        BY <3>3 DEF EndWaits
      <4>2. i # 1
        BY <1>3, <2>2, <4>1
      <4>3. i - 1 \in 1 .. Len(q) - 1 /\ (i - 1) + 1 = i
        BY <2>2, <4>1, <4>2
      <4>4. i - 1 \in 1 .. Len(t) /\ t[i - 1] = q[i]
        BY <2>2, <4>3
      <4>5. QED
        BY <2>6, <2>7, <4>1, <4>4 DEF EndWaits, Ends
    <3>4. QED
      BY <1>1, <2>6, <2>7, <3>1, <3>2, <3>3 DEF Timely
  <2>12. QED
    BY <2>6, <2>7, <2>8, <2>9, <2>10, <2>11, SocketKeeps DEF Deliver
<1>4. QED
  BY <1>2, <1>3

\* The relay of the signaling socket is connected.
LEMMA DialKeeps ==
  ASSUME EventsAssumption, EventsInv, NEW s \in Socket, Dial(s)
  PROVE  EventsInv'
<1>1. /\ sockets[s] \in SocketSet /\ s \in DOMAIN sockets /\ Holds(s)
      /\ sockets[s].at = "admitted" /\ sockets[s].purpose = "signaling"
      /\ stream \in StreamSet /\ stream.holder <= epoch
  BY DEF EventsInv, Types, Dial, Holders
<1>2. PICK x : x = [sockets[s] EXCEPT !.at = "open", !.upstream = stream]
  OBVIOUS
<1>3. /\ x \in SocketSet /\ x.at = "open" /\ x.client = sockets[s].client
      /\ x.queue = <<>> /\ x.seen = <<>> /\ x.upstream = stream
      /\ x.purpose = "signaling" /\ x.client > 0
  BY <1>1, <1>2 DEF SocketSet, Holds
<1>4. sockets' = [sockets EXCEPT ![s] = x] /\ sockets'[s] = x
  BY <1>1, <1>2 DEF Dial
<1>5. /\ epoch' = epoch /\ phase' = phase /\ controller' = controller /\ work' = work
  BY DEF Dial, SocketRest, phasesVars, phaseVars, leaseVars, busVars
<1>6. Len(x.queue) <= Capacity /\ Len(x.seen) = 0 /\ Len(x.queue) = 0
  BY <1>3, EventsAssumption
<1>7. Holds(s)' /\ Drained(s)'
  BY <1>1, <1>3, <1>4, <1>5, <1>6 DEF Holds, Drained, Hears
<1>8. ASSUME s \in timely' PROVE Timely(s)'
  <2>1. s \notin timely
    BY <1>1 DEF EventsInv, Timely
  <2>2. QED
    BY <1>8, <2>1 DEF Dial
<1>9. QED
  BY <1>3, <1>4, <1>7, <1>8, SocketKeeps DEF Dial

\* No step of a socket's task breaks what the sockets have.
LEMMA SocketSteps ==
  ASSUME EventsAssumption, EventsInv, NEW s \in Socket,
         Serve(s) \/ HangUp(s) \/ \E c \in Client, p \in Purpose : Connect(s, c, p)
  PROVE  EventsInv'
<1>1. CASE (\E p \in Purpose : ConsumeTicket(s, p)) \/ CheckId(s) \/ Admit(s)
  BY <1>1, AdmissionKeeps
<1>2. CASE HangUp(s)
  BY <1>2, CloseKeeps DEF HangUp
<1>3. CASE RelayEnds(s)
  BY <1>3, CloseKeeps DEF RelayEnds
<1>4. CASE Subscribe(s)
  BY <1>4, SubscribeKeeps
<1>5. CASE SendSnapshot(s)
  BY <1>5, SendSnapshotKeeps
<1>6. CASE Deliver(s)
  BY <1>6, DeliverKeeps
<1>7. CASE Dial(s)
  BY <1>7, DialKeeps
<1>8. CASE \E c \in Client, p \in Purpose : Connect(s, c, p)
  BY <1>8, ConnectKeeps
<1>9. QED
  BY <1>1, <1>2, <1>3, <1>4, <1>5, <1>6, <1>7, <1>8 DEF Serve
\* A session of the client that owns the appliance begins, under a new id.
LEMMA StartKeeps ==
  ASSUME EventsAssumption, EventsInv,
         NEW c \in Client, StartSession(c)
  PROVE  EventsInv'
<1> USE DEF StartSession, Begin, Announce, Rest, phasesVars, phaseVars,
    leaseVars
<1>1. /\ Types /\ Holders /\ Published /\ Quiet
      /\ Client = 1 .. MaxEpoch /\ NoClient = 0 /\ NoId = 0 /\ MaxEpoch \in Nat
  BY EventsAssumption DEF EventsInv
<1>2. epoch' \in Nat /\ epoch' >= epoch
  BY <1>1 DEF Types
<1>3. InTouch => Steady
  BY <1>1 DEF Types, Holders, InTouch, Steady, WorkSet
<1>4. last = Now' => last = Now
  BY <1>1 DEF Types, Published, EventSet, Now
<1>5. /\ sockets' \in [Socket -> SocketSet] /\ timely' \subseteq Socket
      /\ \A s \in Socket : Holds(s)' /\ Drained(s)'
      /\ \A s \in timely' : Timely(s)'
  BY <1>1, <1>2, <1>3, <1>4, QuietKeeps
<1>6. Types'
  BY <1>1, <1>5 DEF Types, Quiet, WorkSet, StreamSet, EventSet, Phase
<1>7. Holders'
  BY <1>1 DEF Types, Holders, Quiet, EventSet, StreamSet
<1>8. Published'
  BY <1>1 DEF Types, Published, Quiet, EventSet
<1>9. QED
  BY <1>5, <1>6, <1>7, <1>8 DEF EventsInv

\* A switch marks an active session.
LEMMA SwitchKeeps ==
  ASSUME EventsAssumption, EventsInv,
         SwitchEgress
  PROVE  EventsInv'
<1> USE DEF SwitchEgress, Switch, Announce, Rest, phasesVars, phaseVars,
    leaseVars
<1>1. /\ Types /\ Holders /\ Published /\ Quiet
      /\ Client = 1 .. MaxEpoch /\ NoClient = 0 /\ NoId = 0 /\ MaxEpoch \in Nat
  BY EventsAssumption DEF EventsInv
<1>2. epoch' \in Nat /\ epoch' >= epoch
  BY <1>1 DEF Types
<1>3. InTouch => Steady
  BY <1>1 DEF Types, Holders, InTouch, Steady, WorkSet
<1>4. last = Now' => last = Now
  BY <1>1 DEF Types, Published, EventSet, Now
<1>5. /\ sockets' \in [Socket -> SocketSet] /\ timely' \subseteq Socket
      /\ \A s \in Socket : Holds(s)' /\ Drained(s)'
      /\ \A s \in timely' : Timely(s)'
  BY <1>1, <1>2, <1>3, <1>4, QuietKeeps
<1>6. Types'
  BY <1>1, <1>5 DEF Types, Quiet, WorkSet, StreamSet, EventSet, Phase
<1>7. Holders'
  BY <1>1 DEF Types, Holders, Quiet, EventSet, StreamSet
<1>8. Published'
  BY <1>1 DEF Types, Published, Quiet, EventSet
<1>9. QED
  BY <1>5, <1>6, <1>7, <1>8 DEF EventsInv

\* A burn marks the session there is.
LEMMA BurnKeeps ==
  ASSUME EventsAssumption, EventsInv,
         Burn \/ AutoBurn
  PROVE  EventsInv'
<1> USE DEF Burn, AutoBurn, Mark, Announce, Rest, phasesVars, phaseVars,
    leaseVars
<1>1. /\ Types /\ Holders /\ Published /\ Quiet
      /\ Client = 1 .. MaxEpoch /\ NoClient = 0 /\ NoId = 0 /\ MaxEpoch \in Nat
  BY EventsAssumption DEF EventsInv
<1>2. epoch' \in Nat /\ epoch' >= epoch
  BY <1>1 DEF Types
<1>3. InTouch => Steady
  BY <1>1 DEF Types, Holders, InTouch, Steady, WorkSet
<1>4. last = Now' => last = Now
  BY <1>1 DEF Types, Published, EventSet, Now
<1>5. /\ sockets' \in [Socket -> SocketSet] /\ timely' \subseteq Socket
      /\ \A s \in Socket : Holds(s)' /\ Drained(s)'
      /\ \A s \in timely' : Timely(s)'
  BY <1>1, <1>2, <1>3, <1>4, QuietKeeps
<1>6. Types'
  BY <1>1, <1>5 DEF Types, Quiet, WorkSet, StreamSet, EventSet, Phase
<1>7. Holders'
  BY <1>1 DEF Types, Holders, Quiet, EventSet, StreamSet
<1>8. Published'
  BY <1>1 DEF Types, Published, Quiet, EventSet
<1>9. QED
  BY <1>5, <1>6, <1>7, <1>8 DEF EventsInv

\* Steps of the holder of the mutex, and of a setting, that nobody is told of.
LEMMA AwaitKeeps ==
  ASSUME EventsAssumption, EventsInv,
         DropWork \/ StreamUp \/ StreamDown \/ RetrySwitch \/ Set
  PROVE  EventsInv'
<1> USE DEF DropWork, StreamUp, StreamDown, RetrySwitch, Retry, Set, Rest,
    Now, Calling, NoWork, NoStream, phasesVars, phaseVars, leaseVars
<1>1. /\ Types /\ Holders /\ Published /\ Quiet
      /\ Client = 1 .. MaxEpoch /\ NoClient = 0 /\ NoId = 0 /\ MaxEpoch \in Nat
  BY EventsAssumption DEF EventsInv
<1>2. epoch' \in Nat /\ epoch' >= epoch
  BY <1>1 DEF Types
<1>3. InTouch => Steady
  BY <1>1 DEF Types, Holders, InTouch, Steady, WorkSet
<1>4. last = Now' => last = Now
  BY <1>1 DEF Types, Published, EventSet, Now
<1>5. /\ sockets' \in [Socket -> SocketSet] /\ timely' \subseteq Socket
      /\ \A s \in Socket : Holds(s)' /\ Drained(s)'
      /\ \A s \in timely' : Timely(s)'
  BY <1>1, <1>2, <1>3, <1>4, QuietKeeps
<1>6. Types'
  BY <1>1, <1>5 DEF Types, Quiet, WorkSet, StreamSet, EventSet, Phase
<1>7. Holders'
  BY <1>1 DEF Types, Holders, Quiet, EventSet, StreamSet
<1>8. Published'
  BY <1>1 DEF Types, Published, Quiet, EventSet
<1>9. QED
  BY <1>5, <1>6, <1>7, <1>8 DEF EventsInv

\* Steps of the authentication manager; a rotation finds no controller.
LEMMA LeaseKeeps ==
  ASSUME EventsAssumption, EventsInv,
         \/ Pair \/ Expire \/ Rotate
         \/ \E c \in Client, p \in Purpose : IssueTicket(c, p)
  PROVE  EventsInv'
<1> USE DEF Pair, Claim, Expire, Orphan, Rotate, Offer, IssueTicket, Rest,
    Lease!Claim, Lease!Orphan, Lease!Offer, phasesVars, phaseVars, leaseVars
<1>1. /\ Types /\ Holders /\ Published /\ Quiet
      /\ Client = 1 .. MaxEpoch /\ NoClient = 0 /\ NoId = 0 /\ MaxEpoch \in Nat
  BY EventsAssumption DEF EventsInv
<1>2. epoch' \in Nat /\ epoch' >= epoch
  BY <1>1 DEF Types
<1>3. InTouch => Steady
  BY <1>1 DEF Types, Holders, InTouch, Steady, WorkSet
<1>4. last = Now' => last = Now
  BY <1>1 DEF Types, Published, EventSet, Now
<1>5. /\ sockets' \in [Socket -> SocketSet] /\ timely' \subseteq Socket
      /\ \A s \in Socket : Holds(s)' /\ Drained(s)'
      /\ \A s \in timely' : Timely(s)'
  BY <1>1, <1>2, <1>3, <1>4, QuietKeeps
<1>6. Types'
  BY <1>1, <1>5 DEF Types, Quiet, WorkSet, StreamSet, EventSet, Phase
<1>7. Holders'
  BY <1>1 DEF Types, Holders, Quiet, EventSet, StreamSet
<1>8. Published'
  BY <1>1 DEF Types, Published, Quiet, EventSet
<1>9. QED
  BY <1>5, <1>6, <1>7, <1>8 DEF EventsInv

\* A phase is announced, or a navigation: the snapshot of the present goes out.
LEMMA PublishPhaseKeeps ==
  ASSUME EventsAssumption, EventsInv,
         PublishPhase \/ Navigated
  PROVE  EventsInv'
<1> USE DEF PublishPhase, Navigated, Rest, phasesVars, phaseVars, leaseVars
<1>1. PICK event : event = Now
  OBVIOUS
<1>2. /\ Types /\ Holders /\ Published /\ Publish(event) /\ NoClient = 0 /\ NoId = 0
      /\ last' = event
  BY <1>1, EventsAssumption DEF EventsInv, Publish
<1>3. epoch' = epoch
  BY <1>2
<1>4. event \in EventSet /\ event.holder <= epoch
  BY <1>1, <1>2 DEF Types, Holders, EventSet, Phase, Now
<1>5. InTouch => Steady \/ Ends(event)
  BY <1>1, <1>2 DEF Types, Holders, InTouch, Steady, WorkSet, Ends, Now
<1>6. /\ sockets' \in [Socket -> SocketSet] /\ timely' \subseteq Socket
      /\ \A s \in Socket : Holds(s)' /\ Drained(s)'
      /\ \A s \in timely' : Timely(s)'
  BY <1>2, <1>3, <1>4, <1>5, PublishKeeps
<1>7. Types'
  BY <1>2, <1>4, <1>6 DEF Types, WorkSet, StreamSet, EventSet, Phase
<1>8. Holders'
  BY <1>2, <1>4 DEF Types, Holders, EventSet, StreamSet
<1>9. Published'
  BY <1>1, <1>2 DEF Types, Published, EventSet, Now
<1>10. QED
  BY <1>6, <1>7, <1>8, <1>9 DEF EventsInv

\* A verdict is published before the mutex is released; the end of a burn comes
\* after its announcement.
LEMMA VerdictKeeps ==
  ASSUME EventsAssumption, EventsInv,
         Started \/ Failed \/ \E p \in {"idle", "failed"} : Burnt(p)
  PROVE  EventsInv'
<1> USE DEF Started, Succeed, Resume, Failed, Fail, Burnt, Forget, Finish,
    Calling, Rest, NoWork, NoStream, phasesVars, phaseVars, leaseVars
<1>1. PICK event : event = Now'
  OBVIOUS
<1>2. /\ Types /\ Holders /\ Published /\ Publish(event) /\ NoClient = 0 /\ NoId = 0
      /\ last' = event
  BY <1>1, EventsAssumption DEF EventsInv, Publish
<1>3. epoch' = epoch
  BY <1>2
<1>4. event \in EventSet /\ event.holder <= epoch
  BY <1>1, <1>2 DEF Types, Holders, EventSet, Phase, Now
<1>5. InTouch => Steady \/ Ends(event)
  BY <1>1, <1>2 DEF Types, Holders, InTouch, Steady, WorkSet, Ends, Now
<1>6. /\ sockets' \in [Socket -> SocketSet] /\ timely' \subseteq Socket
      /\ \A s \in Socket : Holds(s)' /\ Drained(s)'
      /\ \A s \in timely' : Timely(s)'
  BY <1>2, <1>3, <1>4, <1>5, PublishKeeps
<1>7. Types'
  <2>1. stream' \in StreamSet
    BY <1>2 DEF Types, StreamSet
  <2>2. work' \in WorkSet
    BY <1>2 DEF WorkSet
  <2>3. phase' \in Phase /\ id' \in Nat /\ controller' \in Nat
    BY <1>2 DEF Types, Phase
  <2>4. /\ UNCHANGED <<minted, epoch, stage, owner, tickets, late>>
    BY <1>2
  <2>5. QED
    BY <1>2, <1>4, <1>6, <2>1, <2>2, <2>3, <2>4 DEF Types
<1>8. Holders'
  BY <1>2, <1>4 DEF Types, Holders, EventSet, StreamSet
<1>9. Published'
  BY <1>1, <1>2 DEF Types, Published, EventSet, Now
<1>10. QED
  BY <1>6, <1>7, <1>8, <1>9 DEF EventsInv

\* The snapshot of a setting goes out late: it is of an active session.
LEMMA PublishLateKeeps ==
  ASSUME EventsAssumption, EventsInv, PublishLate
  PROVE  EventsInv'
<1> USE DEF phasesVars, phaseVars, leaseVars
<1>1. PICK event \in late : /\ Publish(event) /\ late' = {}
                           /\ UNCHANGED <<phasesVars, work, tickets, stream>>
  BY DEF PublishLate
<1>2. /\ Types /\ Holders /\ Published /\ last' = event
      /\ event \in EventSet /\ event.holder <= epoch
      /\ event.phase = "active" /\ event.id <= minted
  BY <1>1 DEF EventsInv, Types, Holders, Published, Publish
<1>3. InTouch => Steady
  BY <1>1 DEF InTouch, Steady
<1>4. /\ sockets' \in [Socket -> SocketSet] /\ timely' \subseteq Socket
      /\ \A s \in Socket : Holds(s)' /\ Drained(s)'
      /\ \A s \in timely' : Timely(s)'
  BY <1>1, <1>2, <1>3, PublishKeeps
<1>5. Types' /\ Holders' /\ Published'
  BY <1>1, <1>2, <1>4 DEF Types, Holders, Published
<1>6. QED
  BY <1>4, <1>5 DEF EventsInv

\* Sockets that are all closed have nothing to be wrong about.
LEMMA AllClosed ==
  ASSUME EventsAssumption, epoch' \in Nat,
         sockets' = [s \in Socket |-> Closed], timely' = {}
  PROVE  /\ sockets' \in [Socket -> SocketSet]
         /\ \A s \in Socket : Holds(s)' /\ Drained(s)'
<1>1. /\ Closed \in SocketSet /\ Closed.at = "closed" /\ Closed.queue = <<>>
      /\ Closed.seen = <<>> /\ Closed.purpose = "events" /\ Closed.upstream = NoStream
      /\ NoStream.holder = 0
  BY EventsAssumption DEF Closed, SocketSet, StreamSet, NoStream, Purpose
<1>2. Len(Closed.queue) = 0 /\ Len(Closed.seen) = 0 /\ Capacity \in Nat
  BY <1>1, EventsAssumption
<1>3. \A s \in Socket : sockets'[s] = Closed
  OBVIOUS
<1>4. \A s \in Socket : Holds(s)' /\ Drained(s)'
  BY <1>1, <1>2, <1>3 DEF Holds, Drained, Hears
<1>5. QED
  BY <1>1, <1>4

\* A new daemon starts with no socket and no event.
LEMMA RestartKeeps ==
  ASSUME EventsAssumption, EventsInv, Restart
  PROVE  EventsInv'
<1> USE DEF Restart, Reboot, Lease!Offer, phasesVars, phaseVars, leaseVars
<1>1. /\ Types /\ Holders /\ Published /\ NoClient = 0 /\ NoId = 0
      /\ timely' = {}
  BY EventsAssumption DEF EventsInv
<1>2. epoch' \in Nat /\ epoch' = epoch + 1
  BY <1>1 DEF Types
<1>3. /\ sockets' \in [Socket -> SocketSet]
      /\ \A s \in Socket : Holds(s)' /\ Drained(s)'
  BY <1>2, AllClosed
<1>4. Types'
  BY <1>1, <1>2, <1>3 DEF Types, WorkSet, NoWork, EventSet, Phase, Now
<1>5. Holders' /\ Published'
  BY <1>1, <1>2 DEF Types, Holders, Published, StreamSet, Now
<1>6. QED
  BY <1>1, <1>3, <1>4, <1>5 DEF EventsInv

\* The daemon starts with no socket and with the present as its last event.
LEMMA InvInit == EventsAssumption /\ Init => EventsInv
<1> SUFFICES ASSUME EventsAssumption, Init PROVE EventsInv
  OBVIOUS
<1> USE DEF Init, PhasesInit, Lease!LeaseInit
<1>1. /\ NoClient = 0 /\ NoId = 0 /\ Capacity \in Nat
  BY EventsAssumption
<1>2. /\ Closed \in SocketSet /\ Closed.at = "closed" /\ Closed.queue = <<>>
      /\ Closed.seen = <<>> /\ Closed.purpose = "events" /\ Closed.upstream = NoStream
      /\ NoStream.holder = 0 /\ NoStream \in StreamSet
  BY <1>1 DEF Closed, SocketSet, StreamSet, NoStream, Purpose
<1>3. Len(Closed.queue) = 0 /\ Len(Closed.seen) = 0
  BY <1>2
<1>4. Types
  BY <1>1, <1>2 DEF Types, WorkSet, NoWork, EventSet, Phase, Now
<1>5. Holders /\ Published
  BY <1>1, <1>2 DEF Holders, Published, Now
<1>6. \A s \in Socket : sockets[s] = Closed
  OBVIOUS
<1>7. \A s \in Socket : Holds(s) /\ Drained(s)
  BY <1>1, <1>2, <1>3, <1>4, <1>6 DEF Holds, Drained, Hears, Types
<1>8. QED
  BY <1>4, <1>5, <1>7 DEF EventsInv

\* Every step keeps the invariant.
LEMMA InvStep == EventsAssumption /\ EventsInv /\ [Next]_vars => EventsInv'
<1> SUFFICES ASSUME EventsAssumption, EventsInv, [Next]_vars PROVE EventsInv'
  OBVIOUS
<1>1. CASE Lifecycle
  BY <1>1, StartKeeps, SwitchKeeps, BurnKeeps, AwaitKeeps, PublishPhaseKeeps,
     VerdictKeeps, PublishLateKeeps DEF Lifecycle
<1>2. CASE Authorization
  BY <1>2, LeaseKeeps DEF Authorization
<1>3. CASE Restart
  BY <1>3, RestartKeeps
<1>4. CASE \E s \in Socket : Serve(s) \/ HangUp(s)
                             \/ \E c \in Client, p \in Purpose : Connect(s, c, p)
  BY <1>4, SocketSteps
<1>5. CASE UNCHANGED vars
  <2>1. UNCHANGED <<phase, id, controller, minted, epoch, stage, owner>>
        /\ UNCHANGED <<tickets, work, late, stream, sockets, last, timely>>
    BY <1>5 DEF vars, phasesVars, phaseVars, leaseVars, busVars, socketVars
  <2>2. /\ Types' /\ Holders' /\ Published'
        /\ \A s \in Socket : Holds(s)' /\ Drained(s)'
    BY <2>1 DEF EventsInv, Types, Holders, Published, Holds, Drained, Hears, Now
  <2>3. \A s \in timely' : Timely(s)'
    BY <2>1 DEF EventsInv, Timely, InTime, EndWaits, Ends, Own
  <2>4. QED
    BY <2>2, <2>3 DEF EventsInv
<1>6. QED
  BY <1>1, <1>2, <1>3, <1>4, <1>5 DEF Next

\* The invariant holds for every ring, whoever connects.
LEMMA Invariance == Spec => []EventsInv
<1>1. EventsAssumption
  BY EventsAssumption
<1>2. Init => EventsInv
  BY <1>1, InvInit
<1>3. EventsInv /\ [Next]_vars => EventsInv'
  BY <1>1, InvStep
<1>4. QED
  BY <1>2, <1>3, PTL DEF Spec

\* No queue outgrows the ring, and none but an event socket has one.
THEOREM TypeCorrect == Spec => []TypeOK
<1>1. EventsInv => TypeOK
  <2> SUFFICES ASSUME EventsInv PROVE TypeOK
    OBVIOUS
  <2>1. ASSUME NEW s \in Socket
        PROVE  /\ sockets[s].at \in {"closed", "greeting", "claimed", "checked",
                                     "admitted", "subscribed", "open"}
               /\ Len(sockets[s].queue) <= Capacity /\ Len(sockets[s].seen) <= 1
               /\ sockets[s].queue # <<>> => sockets[s].purpose = "events"
    BY DEF EventsInv, Types, Holds, SocketSet, Purpose
  <2>2. QED
    BY <2>1 DEF TypeOK, EventsInv, Types, WorkSet, StreamSet
<1>2. QED
  BY <1>1, Invariance, PTL

\* event_socket subscribes before it reads the snapshot: a socket that has read
\* all there is shows the session as it is.
THEOREM SocketsCatchUp == Spec => []DrainedIsCurrent
<1>1. EventsInv => DrainedIsCurrent
  BY DEF EventsInv, Drained, DrainedIsCurrent, Hears
<1>2. QED
  BY <1>1, Invariance, PTL

\* burn_unchecked publishes the burning phase before it waits for any helper: an
\* event socket that joined in time and has not lagged shows nothing of the next
\* client's session, unless the event that closes it is in its queue.
THEOREM BurnReachesSockets == Spec => []TimelySocketsEnd
<1>1. EventsInv => TimelySocketsEnd
  <2> SUFFICES ASSUME EventsInv, NEW s \in timely
               PROVE  \/ Own(s)
                      \/ \E i \in DOMAIN sockets[s].queue : Ends(sockets[s].queue[i])
    BY DEF TimelySocketsEnd
  <2>1. Timely(s) /\ s \in Socket /\ sockets[s].at # "closed"
    BY DEF EventsInv, Types, Timely
  <2>2. DOMAIN sockets[s].queue = 1 .. Len(sockets[s].queue)
    BY <2>1, LenProperties DEF EventsInv, Types, SocketSet
  <2>3. QED
    BY <2>1, <2>2, OwnInTime DEF Timely, EndWaits
<1>2. QED
  BY <1>1, Invariance, PTL
=============================================================================
