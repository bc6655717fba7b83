---------------------------- MODULE ReadingProofs ----------------------------
(***************************************************************************)
(* What the validators of the installer read, for files and names of every *)
(* length: the line automaton of WireGuardConfig accepts exactly the       *)
(* strict full tunnels, and the blocklist compiled by Blocklist blocks     *)
(* exactly what is listed.  Both are functions of sequences.  The          *)
(* induction over their length is by the least counterexample (Least), a   *)
(* set and not an operator, which is what the provers can be given.        *)
(***************************************************************************)
EXTENDS InstallerProofs, SequenceTheorems, WellFoundedInduction

\* A set of natural numbers has a least one.
LEMMA Least ==
  ASSUME NEW T \in SUBSET Nat, T # {}
  PROVE  \E n \in T : \A m \in T : n <= m
<1> DEFINE R == OpToRel(<, Nat)
<1>1. IsWellFoundedOn(R, Nat)
  BY NatLessThanWellFounded
<1>2. R = {ss \in Nat \X Nat : ss[1] < ss[2]}
  BY DEF OpToRel
<1>3. \A x, y \in Nat : <<x, y>> \in R <=> x < y
  BY <1>2
<1> HIDE DEF R
<1>4. \E x \in T : \A y \in T : ~ (<<y, x>> \in R)
  BY <1>1, WFMin
<1>5. PICK x \in T : \A y \in T : ~ (<<y, x>> \in R)
  BY <1>4
<1>6. ASSUME NEW y \in T  PROVE x <= y
  <2>1. x \in Nat /\ y \in Nat
    OBVIOUS
  <2>2. ~ (y < x)
    BY <2>1, <1>3, <1>5
  <2> QED
    BY <2>1, <2>2
<1> QED
  BY <1>6

-----------------------------------------------------------------------------
(* The automaton of WireGuardConfig.                                       *)

\* f is what the automaton knows after each of the first m lines.
Reads(f, text, m) ==
  f = [i \in 0 .. m |-> IF i = 0 THEN Unread ELSE ReadLine(f[i - 1], text[i])]

\* The recursive function of Validate exists.
LEMMA ReadingExists ==
  ASSUME NEW text, NEW n \in Nat
  PROVE  \E f : Reads(f, text, n)
<1> DEFINE T == {m \in 0 .. n : ~ \E f : Reads(f, text, m)}
<1> SUFFICES ASSUME T # {}  PROVE FALSE
  OBVIOUS
<1>1. T \in SUBSET Nat
  OBVIOUS
<1>2. PICK m \in T : \A k \in T : m <= k
  <2> HIDE DEF T
  <2> QED
    BY <1>1, Least
<1>3. m \in 0 .. n /\ ~ \E f : Reads(f, text, m)
  OBVIOUS
<1>4. CASE m = 0
  <2> DEFINE f == [i \in 0 .. 0 |-> Unread]
  <2>1. f = [i \in 0 .. 0 |-> IF i = 0 THEN Unread ELSE ReadLine(f[i - 1], text[i])]
    OBVIOUS
  <2> QED
    BY <1>3, <1>4, <2>1 DEF Reads
<1>5. CASE m # 0
  <2>1. m - 1 \in 0 .. n /\ m \in Nat
    BY <1>3, <1>5
  <2>2. m - 1 \notin T
    BY <2>1, <1>2
  <2>3. PICK f : Reads(f, text, m - 1)
    BY <2>1, <2>2
  <2> DEFINE g == [i \in 0 .. m |-> IF i = m THEN ReadLine(f[m - 1], text[m]) ELSE f[i]]
  <2>4. ASSUME NEW i \in 0 .. m
        PROVE  g[i] = IF i = 0 THEN Unread ELSE ReadLine(g[i - 1], text[i])
    <3>1. CASE i = 0
      BY <3>1, <1>5, <2>1, <2>3 DEF Reads
    <3>2. CASE i # 0 /\ i # m
      <4>1. i \in 0 .. m - 1 /\ i - 1 \in 0 .. m - 1 /\ i - 1 \in 0 .. m /\ i - 1 # m
        BY <3>2, <2>1
      <4>2. g[i] = f[i] /\ g[i - 1] = f[i - 1]
        BY <4>1, <3>2
      <4>3. f[i] = ReadLine(f[i - 1], text[i])
        BY <4>1, <3>2, <2>3 DEF Reads
      <4> QED
        BY <4>2, <4>3, <3>2
    <3>3. CASE i # 0 /\ i = m
      <4>1. m - 1 \in 0 .. m /\ m - 1 # m
        BY <2>1, <1>5
      <4> QED
        BY <4>1, <3>3
    <3> QED
      BY <3>1, <3>2, <3>3
  <2>5. Reads(g, text, m)
    <3> HIDE DEF g
    <3> DEFINE h == [i \in 0 .. m |-> IF i = 0 THEN Unread ELSE ReadLine(g[i - 1], text[i])]
    <3>1. g = [i \in 0 .. m |-> g[i]]
      BY DEF g
    <3>2. h = [i \in 0 .. m |-> g[i]]
      BY <2>4
    <3> QED
      BY <3>1, <3>2 DEF Reads
  <2> QED
    BY <2>5, <1>3
<1> QED
  BY <1>4, <1>5

\* The verdict of Validate on the state after the last line.
Accepts(end) ==
  /\ ~ end.refused
  /\ PeerFinished(end)
  /\ end.interfaces = 1
  /\ end.interface = Mandatory
  /\ end.peers > 0
  /\ end.routes # {}

\* Validate, without the CHOOSE of its recursive function.
LEMMA ValidateReads ==
  ASSUME NEW text, Len(text) \in Nat
  PROVE  \E f : Reads(f, text, Len(text)) /\ (Validate(text) <=> Accepts(f[Len(text)]))
<1> DEFINE a == CHOOSE f : Reads(f, text, Len(text))
<1>1. Reads(a, text, Len(text))
  BY ReadingExists
<1>2. Validate(text) <=> Accepts(a[Len(text)])
  BY DEF Validate, Accepts, Reads
<1> QED
  BY <1>1, <1>2

-----------------------------------------------------------------------------
States == [refused : BOOLEAN, section : Headers \cup {"none"}, interfaces : Nat, peers : Nat,
           interface : SUBSET Mandatory, peer : SUBSET (PeerLines \ {"PresharedKey"}),
           routes : SUBSET DefaultRoutes]

\* Line i is in the section that line h opens; that section is still open after k
\* lines; it has said a line within the first k; it has all a peer needs.
Header(text, i) == text[i] \in Headers
InBody(text, h, i) == h < i /\ \A g \in h + 1 .. i : ~ Header(text, g)
Last(text, h, k) == Header(text, h) /\ \A g \in h + 1 .. k : ~ Header(text, g)
Said(text, h, k, line) == \E i \in 1 .. k : InBody(text, h, i) /\ text[i] = line
Complete(text, h, k) ==
  /\ Said(text, h, k, "PublicKey") /\ Said(text, h, k, "Endpoint")
  /\ \E line \in AllowedIPs : Said(text, h, k, line)

\* What the first k lines are, if none of them is refused.
Ordered(text, k) ==
  /\ k > 0 => text[1] = "[Interface]" /\ \E h \in 1 .. k : Last(text, h, k)
  /\ \A h \in 2 .. k : Header(text, h) => text[h] = "[Peer]"

Lined(text, k) ==
  /\ \A i \in 1 .. k : InBody(text, 1, i) => text[i] \in InterfaceLines
  /\ \A h, i \in 2 .. k : Header(text, h) /\ InBody(text, h, i) => text[i] \in PeerLines

Single(text, k) ==
  \A h, i, j \in 1 .. k :
    /\ Header(text, h) /\ InBody(text, h, i) /\ InBody(text, h, j)
    /\ text[i] = text[j] /\ text[i] \in GivenOnce
    => i = j

Finished(text, k) ==
  \A h \in 2 .. k : Header(text, h) /\ ~ Last(text, h, k) => Complete(text, h, k)

\* What the flags of the automaton say of them.
Counted(text, k, at) ==
  /\ at \in States /\ ~ at.refused
  /\ at.interfaces = IF k = 0 THEN 0 ELSE 1
  /\ k = 0 => at = Unread
  /\ at.peers > 0 <=> \E h \in 2 .. k : Header(text, h)

Flagged(text, k, at) ==
  /\ \A h \in 1 .. k : Last(text, h, k) => at.section = text[h]
  /\ \A line \in Mandatory : line \in at.interface <=> Said(text, 1, k, line)
  /\ \A h \in 2 .. k : Last(text, h, k) =>
       \A line \in PeerLines \ {"PresharedKey"} :
         line \in at.peer <=> Said(text, h, k, line)
  /\ \A line \in DefaultRoutes :
       line \in at.routes <=> \E h \in 2 .. k : Header(text, h) /\ Said(text, h, k, line)

Knows(text, k, at) ==
  /\ Ordered(text, k) /\ Lined(text, k) /\ Single(text, k) /\ Finished(text, k)
  /\ Counted(text, k, at) /\ Flagged(text, k, at)

\* The sections of the first k + 1 lines, from those of the first k.
LEMMA Positions ==
  ASSUME NEW text, NEW k \in Nat
  PROVE  /\ \A h \in 1 .. k : Last(text, h, k + 1) <=> Last(text, h, k) /\ ~ Header(text, k + 1)
         /\ Last(text, k + 1, k + 1) <=> Header(text, k + 1)
         /\ \A h \in 1 .. k : Header(text, h) =>
              (InBody(text, h, k + 1) <=> Last(text, h, k + 1))
         /\ \A g, h \in 1 .. k : Last(text, g, k) /\ Last(text, h, k) => g = h
         /\ \A h \in 1 .. k + 1 : \A line :
              Said(text, h, k + 1, line) <=>
                Said(text, h, k, line) \/ (InBody(text, h, k + 1) /\ text[k + 1] = line)
         /\ ~ InBody(text, k + 1, k + 1)
         /\ \A line : ~ Said(text, k + 1, k + 1, line)
<1>1. \A h \in 1 .. k : h + 1 .. k + 1 = (h + 1 .. k) \cup {k + 1}
  OBVIOUS
<1>2. \A h \in 1 .. k : Last(text, h, k + 1) <=> Last(text, h, k) /\ ~ Header(text, k + 1)
  BY <1>1 DEF Last
<1>3. (k + 1) + 1 .. k + 1 = {}
  OBVIOUS
<1>4. Last(text, k + 1, k + 1) <=> Header(text, k + 1)
  BY <1>3 DEF Last
<1>5. \A h \in 1 .. k : Header(text, h) => (InBody(text, h, k + 1) <=> Last(text, h, k + 1))
  BY DEF InBody, Last
<1>6. ASSUME NEW g \in 1 .. k, NEW h \in 1 .. k, Last(text, g, k), Last(text, h, k)
      PROVE  g = h
  <2>1. ~ (g < h)
    BY <1>6 DEF Last
  <2>2. ~ (h < g)
    BY <1>6 DEF Last
  <2> QED
    BY <2>1, <2>2
<1>7. 1 .. k + 1 = (1 .. k) \cup {k + 1}
  OBVIOUS
<1>8. ASSUME NEW h \in 1 .. k + 1, NEW line
      PROVE  Said(text, h, k + 1, line) <=>
               Said(text, h, k, line) \/ (InBody(text, h, k + 1) /\ text[k + 1] = line)
  <2> DEFINE P(i) == InBody(text, h, i) /\ text[i] = line
  <2>1. Said(text, h, k + 1, line) <=> \E i \in 1 .. k + 1 : P(i)
    BY DEF Said
  <2>2. Said(text, h, k, line) <=> \E i \in 1 .. k : P(i)
    BY DEF Said
  <2> HIDE DEF P
  <2>3. (\E i \in 1 .. k + 1 : P(i)) <=> (\E i \in 1 .. k : P(i)) \/ P(k + 1)
    BY <1>7
  <2>4. P(k + 1) <=> InBody(text, h, k + 1) /\ text[k + 1] = line
    BY DEF P
  <2> QED
    BY <2>1, <2>2, <2>3, <2>4
<1>9. ~ InBody(text, k + 1, k + 1)
  BY DEF InBody
<1>10. \A line : ~ Said(text, k + 1, k + 1, line)
  BY DEF Said, InBody
<1> QED
  BY <1>2, <1>4, <1>5, <1>6, <1>8, <1>9, <1>10

\* A line that opens a section.
LEMMA OpensSection ==
  ASSUME NEW text, NEW k \in Nat, NEW at, Knows(text, k, at), Header(text, k + 1),
         Takes(at, text[k + 1])
  PROVE  /\ Ordered(text, k + 1) /\ Lined(text, k + 1) /\ Single(text, k + 1)
         /\ Finished(text, k + 1)
         /\ text[k + 1] = IF k = 0 THEN "[Interface]" ELSE "[Peer]"
<1> DEFINE line == text[k + 1]
<1>1. line = IF k = 0 THEN "[Interface]" ELSE "[Peer]"
  <2>1. line \in Headers /\ line \notin InterfaceLines /\ line \notin PeerLines
    BY DEF Header, Headers, InterfaceLines, Mandatory, PeerLines, AllowedIPs, DefaultRoutes
  <2>2. at.interfaces = IF k = 0 THEN 0 ELSE 1
    BY DEF Knows, Counted
  <2> HIDE DEF line
  <2>3. \/ line = "[Interface]" /\ at.interfaces = 0
        \/ line = "[Peer]" /\ at.interfaces = 1
    BY <2>1 DEF Takes, line
  <2> QED
    BY <2>2, <2>3
<1>2. Ordered(text, k + 1)
  <2>1. Last(text, k + 1, k + 1)
    BY Positions
  <2> QED
    BY <1>1, <2>1 DEF Knows, Ordered
<1>3. \A h \in 1 .. k : ~ InBody(text, h, k + 1)
  BY DEF InBody
<1>4. ~ InBody(text, k + 1, k + 1)
  BY Positions
<1>5. \A h \in 1 .. k + 1 : h \in 1 .. k \/ h = k + 1
  OBVIOUS
<1>6. \A h \in 2 .. k + 1 : h \in 2 .. k \/ h = k + 1
  OBVIOUS
<1>7. \A i \in 1 .. k : ~ InBody(text, k + 1, i)
  BY DEF InBody
<1>8. k = 0 \/ 1 \in 1 .. k
  OBVIOUS
<1>9. Lined(text, k + 1)
  BY <1>3, <1>4, <1>5, <1>6, <1>7, <1>8 DEF Knows, Lined
<1>10. Single(text, k + 1)
  BY <1>3, <1>4, <1>5, <1>7 DEF Knows, Single
<1>11. ASSUME NEW h \in 2 .. k, Last(text, h, k)
       PROVE  Complete(text, h, k)
  <2>1. PeerFinished(at) /\ at.peers > 0
    BY <1>11, <1>1 DEF Knows, Counted, Last, Takes, InterfaceLines, Mandatory, PeerLines,
           AllowedIPs, DefaultRoutes
  <2>2. \A l \in PeerLines \ {"PresharedKey"} : l \in at.peer => Said(text, h, k, l)
    BY <1>11 DEF Knows, Flagged
  <2>3. {"PublicKey", "Endpoint"} \subseteq at.peer /\ at.peer \cap AllowedIPs # {}
    BY <2>1 DEF PeerFinished
  <2>4. {"PublicKey", "Endpoint"} \cup AllowedIPs \subseteq PeerLines \ {"PresharedKey"}
    BY DEF PeerLines, AllowedIPs, DefaultRoutes
  <2> QED
    BY <2>2, <2>3, <2>4 DEF Complete
<1>12. \A h \in 2 .. k : Header(text, h) => Complete(text, h, k)
  BY <1>11 DEF Knows, Finished
<1>13. \A h \in 2 .. k : Complete(text, h, k) => Complete(text, h, k + 1)
  <2>1. \A h \in 2 .. k : \A l : Said(text, h, k, l) => Said(text, h, k + 1, l)
    <3>1. \A h \in 2 .. k : h \in 1 .. k + 1
      OBVIOUS
    <3> QED
      BY <3>1, Positions
  <2> QED
    BY <2>1 DEF Complete
<1>14. Last(text, k + 1, k + 1)
  BY Positions
<1>15. Finished(text, k + 1)
  BY <1>6, <1>12, <1>13, <1>14 DEF Finished
<1> QED
  BY <1>1, <1>2, <1>9, <1>10, <1>15

\* A line of the section that is open.
LEMMA StaysInSection ==
  ASSUME NEW text, NEW k \in Nat, NEW at, Knows(text, k, at), ~ Header(text, k + 1),
         Takes(at, text[k + 1])
  PROVE  /\ Ordered(text, k + 1) /\ Lined(text, k + 1) /\ Single(text, k + 1)
         /\ Finished(text, k + 1)
         /\ k > 0
         /\ \E h \in 1 .. k :
              /\ Last(text, h, k)
              /\ text[k + 1] \in IF h = 1 THEN InterfaceLines ELSE PeerLines
              /\ text[k + 1] \in GivenOnce => ~ Said(text, h, k, text[k + 1])
<1> DEFINE line == text[k + 1]
<1>1. \/ /\ at.section = "[Interface]" /\ line \in InterfaceLines
         /\ line \in GivenOnce => line \notin at.interface
      \/ /\ at.section = "[Peer]" /\ line \in PeerLines
         /\ line \in GivenOnce => line \notin at.peer
  BY DEF Takes, Header, Headers
<1>2. k > 0
  BY <1>1 DEF Knows, Counted, Unread
<1>3. PICK h \in 1 .. k : Last(text, h, k)
  BY <1>2 DEF Knows, Ordered
<1>4. at.section = text[h]
  BY <1>3 DEF Knows, Flagged
<1>5. text[1] = "[Interface]" /\ (h # 1 => text[h] = "[Peer]")
  BY <1>2, <1>3 DEF Knows, Ordered, Last
<1>6. line \in IF h = 1 THEN InterfaceLines ELSE PeerLines
  BY <1>1, <1>4, <1>5
<1>7. line \in GivenOnce => ~ Said(text, h, k, line)
  <2>1. CASE h = 1
    <3>1. GivenOnce \cap InterfaceLines \subseteq Mandatory
      BY DEF GivenOnce, InterfaceLines, Mandatory
    <3>2. line \in InterfaceLines /\ (line \in GivenOnce => line \notin at.interface)
      BY <2>1, <1>1, <1>4, <1>5
    <3> QED
      BY <3>1, <3>2, <2>1 DEF Knows, Flagged
  <2>2. CASE h # 1
    <3>1. GivenOnce \cap PeerLines \subseteq PeerLines \ {"PresharedKey"}
      BY DEF GivenOnce
    <3>2. line \in PeerLines /\ (line \in GivenOnce => line \notin at.peer)
      BY <2>2, <1>1, <1>4, <1>5
    <3> QED
      BY <3>1, <3>2, <2>2, <1>3 DEF Knows, Flagged
  <2> QED
    BY <2>1, <2>2
<1> HIDE DEF line
<1>8. /\ \A g \in 1 .. k : Last(text, g, k + 1) <=> Last(text, g, k)
      /\ \A g \in 1 .. k : Last(text, g, k) => g = h
      /\ \A g \in 1 .. k : Header(text, g) /\ InBody(text, g, k + 1) => g = h
  BY <1>3, Positions
<1>9. 1 \in 1 .. k /\ Header(text, 1)
  BY <1>2, <1>5 DEF Header, Headers
<1>10. /\ \A i \in 1 .. k + 1 : i \in 1 .. k \/ i = k + 1
       /\ \A i \in 2 .. k + 1 : i \in 2 .. k \/ i = k + 1
       /\ \A i \in 2 .. k : i \in 1 .. k /\ i # 1
  OBVIOUS
<1>11. Ordered(text, k + 1)
  BY <1>3, <1>5, <1>8, <1>10 DEF Knows, Ordered
<1>12. Lined(text, k + 1)
  <2>1. ASSUME NEW i \in 1 .. k + 1, InBody(text, 1, i)
        PROVE  text[i] \in InterfaceLines
    <3>1. CASE i \in 1 .. k
      BY <3>1, <2>1 DEF Knows, Lined
    <3>2. CASE i = k + 1
      BY <3>2, <2>1, <1>6, <1>8, <1>9 DEF line
    <3> QED
      BY <3>1, <3>2, <1>10
  <2>2. ASSUME NEW g \in 2 .. k + 1, NEW i \in 2 .. k + 1, Header(text, g), InBody(text, g, i)
        PROVE  text[i] \in PeerLines
    <3>1. g \in 2 .. k
      BY <2>2, <1>10
    <3>2. CASE i \in 2 .. k
      BY <3>1, <3>2, <2>2 DEF Knows, Lined
    <3>3. CASE i = k + 1
      BY <3>1, <3>3, <2>2, <1>6, <1>8, <1>10 DEF line
    <3> QED
      BY <3>2, <3>3, <1>10
  <2> QED
    BY <2>1, <2>2 DEF Lined
<1>13. Single(text, k + 1)
  <2>1. ASSUME NEW g \in 1 .. k, NEW i \in 1 .. k, Header(text, g), InBody(text, g, i),
               InBody(text, g, k + 1), text[i] = text[k + 1], text[i] \in GivenOnce
        PROVE  FALSE
    <3>1. g = h
      BY <2>1, <1>8
    <3>2. Said(text, h, k, line)
      BY <3>1, <2>1 DEF Said, line
    <3> QED
      BY <3>2, <2>1, <1>7 DEF line
  <2>2. ASSUME NEW g \in 1 .. k + 1, NEW i \in 1 .. k + 1, NEW j \in 1 .. k + 1,
               Header(text, g), InBody(text, g, i), InBody(text, g, j),
               text[i] = text[j], text[i] \in GivenOnce
        PROVE  i = j
    <3>1. g \in 1 .. k
      BY <2>2, <1>10
    <3>2. CASE i \in 1 .. k /\ j \in 1 .. k
      BY <3>1, <3>2, <2>2 DEF Knows, Single
    <3>3. CASE i = k + 1 /\ j \in 1 .. k
      BY <3>1, <3>3, <2>2, <2>1
    <3>4. CASE j = k + 1 /\ i \in 1 .. k
      BY <3>1, <3>4, <2>2, <2>1
    <3> QED
      BY <3>2, <3>3, <3>4, <1>10
  <2> QED
    BY <2>2 DEF Single
<1>14. Finished(text, k + 1)
  <2>1. ASSUME NEW g \in 2 .. k + 1, Header(text, g), ~ Last(text, g, k + 1)
        PROVE  Complete(text, g, k + 1)
    <3>1. g \in 2 .. k
      BY <2>1, <1>10
    <3>2. Complete(text, g, k)
      BY <3>1, <2>1, <1>8, <1>10 DEF Knows, Finished
    <3>3. \A l : Said(text, g, k, l) => Said(text, g, k + 1, l)
      BY <3>1, Positions
    <3> QED
      BY <3>2, <3>3 DEF Complete
  <2> QED
    BY <2>1 DEF Finished
<1> QED
  BY <1>2, <1>3, <1>6, <1>7, <1>11, <1>12, <1>13, <1>14 DEF line

\* Taken, by what it leaves of each field.
LEMMA TakenFields ==
  ASSUME NEW at \in States, NEW line
  PROVE  LET u == Taken(at, line)
         IN  /\ line = "[Interface]" =>
                  /\ u \in States /\ u.refused = at.refused /\ u.section = line
                  /\ u.interfaces = at.interfaces + 1 /\ u.peers = at.peers
                  /\ u.interface = at.interface /\ u.peer = at.peer /\ u.routes = at.routes
             /\ line = "[Peer]" =>
                  /\ u \in States /\ u.refused = at.refused /\ u.section = line
                  /\ u.interfaces = at.interfaces /\ u.peers = at.peers + 1
                  /\ u.interface = at.interface /\ u.peer = {} /\ u.routes = at.routes
             /\ line \in InterfaceLines =>
                  /\ u \in States /\ u.refused = at.refused /\ u.section = at.section
                  /\ u.interfaces = at.interfaces /\ u.peers = at.peers
                  /\ u.interface = at.interface \cup ({line} \cap Mandatory)
                  /\ u.peer = at.peer /\ u.routes = at.routes
             /\ line \in PeerLines =>
                  /\ u \in States /\ u.refused = at.refused /\ u.section = at.section
                  /\ u.interfaces = at.interfaces /\ u.peers = at.peers
                  /\ u.interface = at.interface
                  /\ u.peer = at.peer \cup ({line} \ {"PresharedKey"})
                  /\ u.routes = at.routes \cup ({line} \cap DefaultRoutes)
<1> DEFINE u == Taken(at, line)
<1>1. /\ at = [refused |-> at.refused, section |-> at.section, interfaces |-> at.interfaces,
               peers |-> at.peers, interface |-> at.interface, peer |-> at.peer,
               routes |-> at.routes]
      /\ at.refused \in BOOLEAN /\ at.section \in Headers \cup {"none"}
      /\ at.interfaces \in Nat /\ at.peers \in Nat
      /\ at.interface \in SUBSET Mandatory /\ at.peer \in SUBSET (PeerLines \ {"PresharedKey"})
      /\ at.routes \in SUBSET DefaultRoutes
  BY DEF States
<1>2. /\ "[Interface]" \in Headers /\ "[Peer]" \in Headers
      /\ \A l \in InterfaceLines : l \notin Headers \cup PeerLines
      /\ \A l \in PeerLines : l \notin Headers
      /\ "[Interface]" # "[Peer]"
  BY DEF InterfaceLines, Mandatory, PeerLines, AllowedIPs, DefaultRoutes, Headers
<1>3. CASE line = "[Interface]"
  <2>1. u = [at EXCEPT !.section = line, !.interfaces = @ + 1]
    BY <1>2, <1>3 DEF Taken
  <2>2. u = [refused |-> at.refused, section |-> line, interfaces |-> at.interfaces + 1,
             peers |-> at.peers, interface |-> at.interface, peer |-> at.peer,
             routes |-> at.routes]
    BY <2>1, <1>1
  <2> HIDE DEF u
  <2>3. u \in States
    BY <2>2, <1>1, <1>2, <1>3 DEF States
  <2> QED
    BY <2>2, <2>3, <1>2, <1>3 DEF u
<1>4. CASE line = "[Peer]"
  <2>1. u = [at EXCEPT !.section = line, !.peers = @ + 1, !.peer = {}]
    BY <1>2, <1>4 DEF Taken
  <2>2. u = [refused |-> at.refused, section |-> line, interfaces |-> at.interfaces,
             peers |-> at.peers + 1, interface |-> at.interface, peer |-> {},
             routes |-> at.routes]
    BY <2>1, <1>1
  <2> HIDE DEF u
  <2>3. u \in States
    BY <2>2, <1>1, <1>2, <1>4 DEF States
  <2> QED
    BY <2>2, <2>3, <1>2, <1>4 DEF u
<1>5. CASE line \in InterfaceLines
  <2>1. u = [at EXCEPT !.interface = @ \cup ({line} \cap Mandatory)]
    BY <1>2, <1>5 DEF Taken
  <2>2. u = [refused |-> at.refused, section |-> at.section, interfaces |-> at.interfaces,
             peers |-> at.peers, interface |-> at.interface \cup ({line} \cap Mandatory),
             peer |-> at.peer, routes |-> at.routes]
    BY <2>1, <1>1
  <2> HIDE DEF u
  <2>3. u \in States
    BY <2>2, <1>1 DEF States
  <2> QED
    BY <2>2, <2>3, <1>2, <1>5 DEF u
<1>6. CASE line \in PeerLines
  <2>1. u = [at EXCEPT !.peer = @ \cup ({line} \ {"PresharedKey"}),
                       !.routes = @ \cup ({line} \cap DefaultRoutes)]
    BY <1>2, <1>6 DEF Taken
  <2>2. u = [refused |-> at.refused, section |-> at.section, interfaces |-> at.interfaces,
             peers |-> at.peers, interface |-> at.interface,
             peer |-> at.peer \cup ({line} \ {"PresharedKey"}),
             routes |-> at.routes \cup ({line} \cap DefaultRoutes)]
    BY <2>1, <1>1
  <2> HIDE DEF u
  <2>3. u \in States
    BY <2>2, <1>1, <1>6 DEF States
  <2> QED
    BY <2>2, <2>3, <1>2, <1>6 DEF u
<1> QED
  <2>1. \/ line \in {"[Interface]", "[Peer]"} \cup InterfaceLines \cup PeerLines
        \/ line \notin {"[Interface]", "[Peer]"} \cup InterfaceLines \cup PeerLines
    OBVIOUS
  <2> QED
    BY <1>3, <1>4, <1>5, <1>6, <2>1, Zenon

\* The flags after a header.
LEMMA FlagsOfHeader ==
  ASSUME NEW text, NEW k \in Nat, NEW at, Knows(text, k, at), Header(text, k + 1),
         Takes(at, text[k + 1])
  PROVE  LET u == Taken(at, text[k + 1])
         IN  Counted(text, k + 1, u) /\ Flagged(text, k + 1, u)
<1> DEFINE line == text[k + 1]
           u == Taken(at, line)
<1>1. line = IF k = 0 THEN "[Interface]" ELSE "[Peer]"
  BY OpensSection
<1>2. at \in States /\ ~ at.refused
  BY DEF Knows, Counted
<1>3. /\ \A h \in 1 .. k : ~ Last(text, h, k + 1)
      /\ \A h \in 1 .. k : \A l : Said(text, h, k + 1, l) <=> Said(text, h, k, l)
      /\ \A l : ~ Said(text, k + 1, k + 1, l)
  <2>1. \A h \in 1 .. k : ~ InBody(text, h, k + 1)
    BY DEF InBody
  <2>2. \A h \in 1 .. k : h \in 1 .. k + 1
    OBVIOUS
  <2> QED
    BY <2>1, <2>2, Positions
<1>4. /\ \A i \in 1 .. k + 1 : i \in 1 .. k \/ i = k + 1
      /\ \A i \in 2 .. k + 1 : i \in 2 .. k \/ i = k + 1
      /\ \A i \in 2 .. k : i \in 1 .. k /\ i \in 2 .. k + 1
  OBVIOUS
<1>5. CASE k = 0
  <2>1. at = Unread /\ line = "[Interface]"
    BY <1>1, <1>5 DEF Knows, Counted
  <2>2. /\ u \in States /\ ~ u.refused /\ u.interfaces = 1 /\ u.peers = 0
        /\ u.section = line /\ u.interface = {} /\ u.routes = {}
    BY <1>2, <2>1, TakenFields DEF Unread
  <2> HIDE DEF u
  <2>3. 2 .. k + 1 = {} /\ k + 1 = 1
    BY <1>5
  <2>4. Counted(text, k + 1, u)
    BY <2>2, <2>3 DEF Counted
  <2>5. Flagged(text, k + 1, u)
    BY <2>2, <2>3, <1>3, <1>4, <1>5 DEF Flagged
  <2> QED
    BY <2>4, <2>5 DEF u
<1>6. CASE k # 0
  <2>1. line = "[Peer]" /\ k + 1 \in 2 .. k + 1 /\ 1 \in 1 .. k
    BY <1>1, <1>6
  <2>2. /\ u \in States /\ ~ u.refused /\ u.interfaces = 1 /\ u.peers > 0
        /\ u.section = line /\ u.interface = at.interface /\ u.peer = {}
        /\ u.routes = at.routes
    <3>1. at.interfaces = 1 /\ at.peers \in Nat
      BY <1>2, <1>6 DEF Knows, Counted, States
    <3> QED
      BY <1>2, <2>1, <3>1, TakenFields
  <2> HIDE DEF u
  <2>3. Counted(text, k + 1, u)
    BY <2>1, <2>2 DEF Counted
  <2>4. \A h \in 1 .. k + 1 : Last(text, h, k + 1) => u.section = text[h]
    BY <1>3, <1>4, <2>2
  <2>5. \A l \in Mandatory : l \in u.interface <=> Said(text, 1, k + 1, l)
    BY <1>3, <2>1, <2>2 DEF Knows, Flagged
  <2>6. \A h \in 2 .. k + 1 : Last(text, h, k + 1) =>
          \A l \in PeerLines \ {"PresharedKey"} : l \in u.peer <=> Said(text, h, k + 1, l)
    BY <1>3, <1>4, <2>2
  <2>7. \A l : (\E h \in 2 .. k + 1 : Header(text, h) /\ Said(text, h, k + 1, l))
               <=> (\E h \in 2 .. k : Header(text, h) /\ Said(text, h, k, l))
    BY <1>3, <1>4
  <2>8. Flagged(text, k + 1, u)
    BY <2>2, <2>4, <2>5, <2>6, <2>7 DEF Knows, Flagged
  <2> QED
    BY <2>3, <2>8 DEF u
<1> QED
  BY <1>5, <1>6

\* The flags after a line of the section that is open.
LEMMA FlagsOfLine ==
  ASSUME NEW text, NEW k \in Nat, NEW at, Knows(text, k, at), ~ Header(text, k + 1),
         Takes(at, text[k + 1])
  PROVE  LET u == Taken(at, text[k + 1])
         IN  Counted(text, k + 1, u) /\ Flagged(text, k + 1, u)
<1> DEFINE line == text[k + 1]
           u == Taken(at, line)
<1>1. PICK h \in 1 .. k : Last(text, h, k) /\ line \in IF h = 1 THEN InterfaceLines ELSE PeerLines
  BY StaysInSection
<1>2. at \in States /\ ~ at.refused /\ at.interfaces = 1
  <2>1. k # 0
    BY <1>1
  <2> QED
    BY <2>1 DEF Knows, Counted
<1>3. /\ u \in States /\ ~ u.refused /\ u.interfaces = 1 /\ u.peers = at.peers
      /\ u.section = at.section
      /\ h = 1 => /\ u.interface = at.interface \cup ({line} \cap Mandatory)
                  /\ u.peer = at.peer /\ u.routes = at.routes
      /\ h # 1 => /\ u.interface = at.interface
                  /\ u.peer = at.peer \cup ({line} \ {"PresharedKey"})
                  /\ u.routes = at.routes \cup ({line} \cap DefaultRoutes)
  BY <1>1, <1>2, TakenFields
<1> HIDE DEF u
<1>4. line \in Lines /\ line = text[k + 1]
  BY <1>1 DEF Lines
<1> HIDE DEF line
<1>5. /\ \A g \in 1 .. k : Last(text, g, k + 1) <=> g = h
      /\ ~ Last(text, k + 1, k + 1)
      /\ \A g \in 1 .. k : Header(text, g) => (InBody(text, g, k + 1) <=> g = h)
  BY <1>1, Positions
<1>6. /\ \A i \in 1 .. k + 1 : i \in 1 .. k \/ i = k + 1
      /\ \A i \in 2 .. k + 1 : i \in 2 .. k \/ i = k + 1
      /\ \A i \in 2 .. k : i \in 1 .. k /\ i \in 2 .. k + 1 /\ i # 1
      /\ \A i \in 1 .. k : i \in 1 .. k + 1
      /\ 1 \in 1 .. k
  OBVIOUS
<1>7. \A g \in 1 .. k : Header(text, g) =>
        \A l : Said(text, g, k + 1, l) <=> Said(text, g, k, l) \/ (g = h /\ l = line)
  BY <1>4, <1>5, <1>6, Positions
<1>8. Header(text, 1) /\ Header(text, h)
  BY <1>1, <1>6 DEF Last, Knows, Ordered, Header, Headers
<1>9. Counted(text, k + 1, u)
  BY <1>3, <1>6 DEF Knows, Counted
<1>10. \A g \in 1 .. k + 1 : Last(text, g, k + 1) => u.section = text[g]
  BY <1>1, <1>3, <1>5, <1>6 DEF Knows, Flagged
<1>11. \A l \in Mandatory : l \in u.interface <=> Said(text, 1, k + 1, l)
  <2>1. \A l \in Mandatory : l \in at.interface <=> Said(text, 1, k, l)
    BY DEF Knows, Flagged
  <2> QED
    BY <2>1, <1>3, <1>6, <1>7, <1>8
<1>12. ASSUME NEW g \in 2 .. k + 1, Last(text, g, k + 1), NEW l \in PeerLines \ {"PresharedKey"}
       PROVE  l \in u.peer <=> Said(text, g, k + 1, l)
  <2>1. g = h /\ h # 1 /\ g \in 2 .. k
    BY <1>12, <1>5, <1>6
  <2>2. l \in at.peer <=> Said(text, h, k, l)
    BY <2>1, <1>1, <1>12 DEF Knows, Flagged
  <2> QED
    BY <2>1, <2>2, <1>3, <1>7, <1>8, <1>12
<1>13. ASSUME NEW l \in DefaultRoutes
       PROVE  l \in u.routes <=> \E g \in 2 .. k + 1 : Header(text, g) /\ Said(text, g, k + 1, l)
  <2>1. l \in at.routes <=> \E g \in 2 .. k : Header(text, g) /\ Said(text, g, k, l)
    BY DEF Knows, Flagged
  <2>2. l \in u.routes <=> l \in at.routes \/ (h # 1 /\ l = line)
    BY <1>3
  <2>3. (\E g \in 2 .. k + 1 : Header(text, g) /\ Said(text, g, k + 1, l))
        <=> (\E g \in 2 .. k : Header(text, g) /\ Said(text, g, k, l)) \/ (h # 1 /\ l = line)
    <3>1. h # 1 => h \in 2 .. k
      OBVIOUS
    <3> QED
      BY <3>1, <1>6, <1>7, <1>8
  <2> QED
    BY <2>1, <2>2, <2>3
<1>14. Flagged(text, k + 1, u)
  BY <1>10, <1>11, <1>12, <1>13 DEF Flagged
<1> QED
  BY <1>9, <1>14 DEF u, line

\* One more line.
LEMMA KnowsMore ==
  ASSUME NEW text, NEW k \in Nat, NEW at, Knows(text, k, at), Takes(at, text[k + 1])
  PROVE  Knows(text, k + 1, Taken(at, text[k + 1]))
<1>1. CASE Header(text, k + 1)
  BY <1>1, OpensSection, FlagsOfHeader DEF Knows
<1>2. CASE ~ Header(text, k + 1)
  BY <1>2, StaysInSection, FlagsOfLine DEF Knows
<1> QED
  BY <1>1, <1>2

\* Before the first line.
LEMMA KnowsNothingYet == \A text : Knows(text, 0, Unread)
<1> SUFFICES ASSUME NEW text  PROVE Knows(text, 0, Unread)
  OBVIOUS
<1>1. 1 .. 0 = {} /\ 2 .. 0 = {}
  OBVIOUS
<1>2. Unread \in States
  BY DEF Unread, States
<1>3. Counted(text, 0, Unread)
  BY <1>1, <1>2 DEF Counted, Unread
<1>4. Flagged(text, 0, Unread)
  BY <1>1 DEF Flagged, Unread, Said
<1>5. Ordered(text, 0) /\ Lined(text, 0) /\ Single(text, 0) /\ Finished(text, 0)
  BY <1>1 DEF Ordered, Lined, Single, Finished
<1> QED
  BY <1>3, <1>4, <1>5 DEF Knows

\* What the automaton knows after k lines, if it has not refused one of them.
LEMMA ReadingKnows ==
  ASSUME NEW text, NEW n \in Nat, NEW f, Reads(f, text, n), NEW k \in 0 .. n
  PROVE  f[k] \in States /\ (~ f[k].refused => Knows(text, k, f[k]))
<1> DEFINE Good(i) == f[i] \in States /\ (~ f[i].refused => Knows(text, i, f[i]))
           T == {i \in 0 .. n : ~ Good(i)}
<1>1. \A i \in 0 .. n : f[i] = IF i = 0 THEN Unread ELSE ReadLine(f[i - 1], text[i])
  BY DEF Reads
<1>2. Good(0)
  BY <1>1, KnowsNothingYet DEF Knows, Counted
<1>3. ASSUME NEW i \in 0 .. n, i # 0, Good(i - 1)  PROVE Good(i)
  <2> DEFINE at == f[i - 1]
  <2>1. i - 1 \in Nat /\ (i - 1) + 1 = i
    BY <1>3
  <2>2. f[i] = ReadLine(at, text[i])
    BY <1>1, <1>3
  <2>3. CASE ~ at.refused /\ Takes(at, text[i])
    <3>1. Knows(text, i, Taken(at, text[i]))
      BY <2>1, <2>3, <1>3, KnowsMore
    <3> QED
      BY <2>2, <2>3, <3>1 DEF ReadLine, Knows, Counted
  <2>4. CASE ~ (~ at.refused /\ Takes(at, text[i]))
    <3>1. f[i] = [at EXCEPT !.refused = TRUE]
      BY <2>2, <2>4 DEF ReadLine
    <3>2. at \in States
      BY <1>3
    <3> HIDE DEF at
    <3>3. f[i] \in States /\ f[i].refused
      BY <3>1, <3>2 DEF States
    <3> QED
      BY <3>3
  <2> QED
    BY <2>3, <2>4
<1> HIDE DEF Good
<1>4. T = {}
  <2> SUFFICES ASSUME T # {}  PROVE FALSE
    OBVIOUS
  <2>1. T \in SUBSET Nat
    OBVIOUS
  <2>2. PICK m \in T : \A i \in T : m <= i
    BY <2>1, Least
  <2>3. m \in 0 .. n /\ m # 0 /\ ~ Good(m)
    BY <1>2
  <2>4. m - 1 \in 0 .. n /\ m - 1 \notin T
    BY <2>2, <2>3
  <2> QED
    BY <2>3, <2>4, <1>3
<1>5. Good(k)
  BY <1>4
<1> QED
  BY <1>5 DEF Good

-----------------------------------------------------------------------------
\* StrictFullTunnel, said line by line.
Strict(text, n) ==
  /\ n > 0 /\ text[1] = "[Interface]"
  /\ \A h \in 2 .. n : Header(text, h) => text[h] = "[Peer]"
  /\ Lined(text, n) /\ Single(text, n)
  /\ \A line \in Mandatory : Said(text, 1, n, line)
  /\ \A h \in 2 .. n : Header(text, h) => Complete(text, h, n)
  /\ \E h \in 2 .. n : Header(text, h) /\ \E line \in DefaultRoutes : Said(text, h, n, line)

\* Which lines have a flag.
LEMMA Flags ==
  /\ Mandatory \subseteq InterfaceLines
  /\ GivenOnce \cap InterfaceLines \subseteq Mandatory
  /\ {"PublicKey", "Endpoint"} \cup AllowedIPs \subseteq PeerLines \ {"PresharedKey"}
  /\ GivenOnce \cap PeerLines \subseteq PeerLines \ {"PresharedKey"}
  /\ DefaultRoutes \subseteq AllowedIPs
  /\ "[Interface]" # "[Peer]"
  /\ \A line \in Headers : line = "[Interface]" \/ line = "[Peer]"
  /\ "[Interface]" \in Headers
  BY DEF InterfaceLines, Mandatory, PeerLines, AllowedIPs, DefaultRoutes, Headers, GivenOnce

\* A strict full tunnel is never refused.
LEMMA StrictIsTaken ==
  ASSUME NEW text, NEW n \in Nat, Strict(text, n), NEW k \in Nat, k < n, NEW at,
         Knows(text, k, at)
  PROVE  Takes(at, text[k + 1])
<1> DEFINE line == text[k + 1]
<1>1. k + 1 \in 1 .. n /\ (k # 0 => k + 1 \in 2 .. n)
  OBVIOUS
<1>2. CASE k = 0
  <2>1. line = "[Interface]" /\ at = Unread
    BY <1>2 DEF Strict, Knows, Counted
  <2> QED
    BY <2>1 DEF Takes, Unread
<1>3. CASE k # 0
  <2>1. PICK h \in 1 .. k : Last(text, h, k)
    BY <1>3 DEF Knows, Ordered
  <2>2. at.interfaces = 1 /\ at.section = text[h]
    BY <1>3, <2>1 DEF Knows, Counted, Flagged
  <2>3. h \in 1 .. n /\ Header(text, h) /\ (h # 1 => h \in 2 .. k /\ h \in 2 .. n)
    BY <2>1 DEF Last
  <2>4. text[h] = IF h = 1 THEN "[Interface]" ELSE "[Peer]"
    BY <2>3 DEF Strict
  <2>5. CASE Header(text, k + 1)
    <3>1. line = "[Peer]"
      BY <1>1, <1>3, <2>5 DEF Strict
    <3>2. ASSUME at.peers > 0
          PROVE  {"PublicKey", "Endpoint"} \subseteq at.peer /\ at.peer \cap AllowedIPs # {}
      <4>1. PICK g \in 2 .. k : Header(text, g)
        BY <3>2 DEF Knows, Counted
      <4>2. h # 1
        BY <2>1, <4>1 DEF Last
      <4>3. Complete(text, h, n)
        BY <2>3, <4>2 DEF Strict
      <4>4. \A l : Said(text, h, n, l) => Said(text, h, k, l)
        <5>1. \A i \in 1 .. n : InBody(text, h, i) => i \in 1 .. k
          BY <2>5 DEF InBody
        <5> QED
          BY <5>1 DEF Said
      <4>5. \A l \in PeerLines \ {"PresharedKey"} : Said(text, h, k, l) => l \in at.peer
        BY <2>1, <2>3, <4>2 DEF Knows, Flagged
      <4> QED
        BY <4>3, <4>4, <4>5, Flags DEF Complete
    <3> QED
      BY <2>2, <3>1, <3>2 DEF Takes, PeerFinished
  <2>6. CASE ~ Header(text, k + 1)
    <3>1. InBody(text, h, k + 1)
      BY <2>1, <2>3, <2>6, Positions
    <3>2. line \in GivenOnce => ~ Said(text, h, k, line)
      <4>1. ASSUME line \in GivenOnce, NEW i \in 1 .. k, InBody(text, h, i), text[i] = line
            PROVE  FALSE
        <5>1. i \in 1 .. n /\ i # k + 1
          OBVIOUS
        <5> QED
          BY <1>1, <2>3, <3>1, <4>1, <5>1 DEF Strict, Single
      <4> QED
        BY <4>1 DEF Said
    <3>3. CASE h = 1
      <4>1. line \in InterfaceLines
        BY <1>1, <3>1, <3>3 DEF Strict, Lined
      <4>2. line \in GivenOnce => line \notin at.interface
        BY <3>2, <3>3, <4>1, Flags DEF Knows, Flagged
      <4> QED
        BY <2>2, <2>4, <3>3, <4>1, <4>2 DEF Takes
    <3>4. CASE h # 1
      <4>1. line \in PeerLines
        BY <1>1, <1>3, <2>3, <3>1, <3>4 DEF Strict, Lined
      <4>2. line \in GivenOnce => line \notin at.peer
        BY <2>1, <2>3, <3>2, <3>4, <4>1, Flags DEF Knows, Flagged
      <4> QED
        BY <2>2, <2>4, <3>4, <4>1, <4>2 DEF Takes
    <3> QED
      BY <3>3, <3>4
  <2> QED
    BY <2>5, <2>6
<1> QED
  BY <1>2, <1>3

\* The verdict at the end of the file.
LEMMA VerdictIsStrict ==
  ASSUME NEW text, NEW n \in Nat, NEW at, Knows(text, n, at)
  PROVE  Accepts(at) <=> Strict(text, n)
<1>1. /\ at \in States /\ ~ at.refused /\ at.interfaces = IF n = 0 THEN 0 ELSE 1
      /\ at.peers > 0 <=> \E h \in 2 .. n : Header(text, h)
      /\ at.interface \subseteq Mandatory /\ at.routes \subseteq DefaultRoutes
  BY DEF Knows, Counted, States
<1>2. /\ \A line \in Mandatory : line \in at.interface <=> Said(text, 1, n, line)
      /\ \A h \in 2 .. n : Last(text, h, n) =>
           \A line \in PeerLines \ {"PresharedKey"} : line \in at.peer <=> Said(text, h, n, line)
      /\ \A line \in DefaultRoutes :
           line \in at.routes <=> \E h \in 2 .. n : Header(text, h) /\ Said(text, h, n, line)
  BY DEF Knows, Flagged
<1>3. /\ n > 0 => text[1] = "[Interface]" /\ \E h \in 1 .. n : Last(text, h, n)
      /\ \A h \in 2 .. n : Header(text, h) => text[h] = "[Peer]"
      /\ Lined(text, n) /\ Single(text, n)
      /\ \A h \in 2 .. n : Header(text, h) /\ ~ Last(text, h, n) => Complete(text, h, n)
  BY DEF Knows, Ordered, Finished
<1>4. ASSUME Accepts(at)  PROVE Strict(text, n)
  <2>1. n > 0 /\ \A line \in Mandatory : Said(text, 1, n, line)
    BY <1>1, <1>2, <1>4 DEF Accepts
  <2>2. \E h \in 2 .. n : Header(text, h) /\ \E line \in DefaultRoutes : Said(text, h, n, line)
    BY <1>1, <1>2, <1>4 DEF Accepts
  <2>3. \A h \in 2 .. n : Last(text, h, n) => Complete(text, h, n)
    BY <1>2, <1>4, Flags DEF Accepts, PeerFinished, Complete
  <2> QED
    BY <1>3, <2>1, <2>2, <2>3 DEF Strict
<1>5. ASSUME Strict(text, n)  PROVE Accepts(at)
  <2>1. at.interfaces = 1 /\ at.peers > 0
    BY <1>1, <1>5 DEF Strict
  <2>2. at.interface = Mandatory /\ at.routes # {}
    BY <1>1, <1>2, <1>5 DEF Strict
  <2>3. PICK h \in 1 .. n : Last(text, h, n)
    BY <1>3, <1>5 DEF Strict
  <2>4. h \in 2 .. n
    <3>1. PICK g \in 2 .. n : Header(text, g)
      BY <1>5 DEF Strict
    <3> QED
      BY <2>3, <3>1 DEF Last
  <2>5. Complete(text, h, n)
    BY <2>3, <2>4, <1>5 DEF Strict, Last
  <2>6. PeerFinished(at)
    BY <2>3, <2>4, <2>5, <1>2, Flags DEF PeerFinished, Complete
  <2> QED
    BY <1>1, <2>1, <2>2, <2>6 DEF Accepts
<1> QED
  BY <1>4, <1>5

\* How often a line is said in a section, as StrictFullTunnel counts it.
LEMMA Counting ==
  ASSUME NEW text, NEW n \in Nat, NEW h, NEW line
  PROVE  LET times == Cardinality({i \in {j \in 1 .. n : InBody(text, h, j)} : text[i] = line})
         IN  /\ times > 0 <=> Said(text, h, n, line)
             /\ times = 1 <=> /\ Said(text, h, n, line)
                              /\ \A i, j \in 1 .. n :
                                   /\ InBody(text, h, i) /\ InBody(text, h, j)
                                   /\ text[i] = line /\ text[j] = line
                                   => i = j
<1> DEFINE S == {i \in {j \in 1 .. n : InBody(text, h, j)} : text[i] = line}
<1>1. IsFiniteSet(S)
  <2>1. IsFiniteSet(1 .. n)
    BY FS_Interval
  <2>2. S \in SUBSET (1 .. n)
    OBVIOUS
  <2> QED
    BY <2>1, <2>2, FS_Subset
<1>2. \A i : i \in S <=> i \in 1 .. n /\ InBody(text, h, i) /\ text[i] = line
  OBVIOUS
<1> HIDE DEF S
<1>3. Cardinality(S) \in Nat /\ (Cardinality(S) = 0 <=> S = {})
  BY <1>1, FS_CardinalityType, FS_EmptySet
<1>4. Cardinality(S) = 1 <=> \E x : S = {x}
  BY <1>1, FS_Singleton
<1>5. Said(text, h, n, line) <=> S # {}
  BY <1>2 DEF Said
<1>6. (\E x : S = {x}) <=> S # {} /\ \A i, j \in S : i = j
  <2>1. ASSUME NEW x \in S, \A i, j \in S : i = j  PROVE S = {x}
    BY <2>1
  <2> QED
    BY <2>1
<1>7. (\A i, j \in S : i = j) <=> \A i, j \in 1 .. n :
                                    /\ InBody(text, h, i) /\ InBody(text, h, j)
                                    /\ text[i] = line /\ text[j] = line
                                    => i = j
  BY <1>2
<1>8. Cardinality(S) > 0 <=> S # {}
  BY <1>3
<1> QED
  BY <1>4, <1>5, <1>6, <1>7, <1>8 DEF S

\* A key given once, in every section.
LEMMA SingleSaid ==
  ASSUME NEW text, NEW n \in Nat, n > 0, text[1] = "[Interface]", Lined(text, n),
         \A h \in 2 .. n : Header(text, h) => text[h] = "[Peer]"
  PROVE  Single(text, n) <=>
           \A h \in 1 .. n : Header(text, h) =>
             \A line \in IF h = 1 THEN {"PrivateKey", "Table off"} ELSE {"PublicKey", "Endpoint"} :
               \A i, j \in 1 .. n :
                 /\ InBody(text, h, i) /\ InBody(text, h, j)
                 /\ text[i] = line /\ text[j] = line
                 => i = j
<1>1. GivenOnce \cap InterfaceLines = {"PrivateKey", "Table off"}
  BY DEF GivenOnce, InterfaceLines, Mandatory
<1>2. GivenOnce \cap PeerLines = {"PublicKey", "Endpoint"}
  BY DEF GivenOnce, PeerLines, AllowedIPs, DefaultRoutes
<1>3. ASSUME NEW h \in 1 .. n, Header(text, h), NEW i \in 1 .. n, InBody(text, h, i)
      PROVE  text[i] \in GivenOnce <=>
               text[i] \in IF h = 1 THEN {"PrivateKey", "Table off"} ELSE {"PublicKey", "Endpoint"}
  <2>1. CASE h = 1
    BY <1>1, <1>3, <2>1 DEF Lined
  <2>2. CASE h # 1
    <3>1. h \in 2 .. n /\ i \in 2 .. n
      BY <1>3, <2>2 DEF InBody
    <3> QED
      BY <1>2, <1>3, <2>2, <3>1 DEF Lined
  <2> QED
    BY <2>1, <2>2
<1> QED
  BY <1>3 DEF Single

\* The reference, which speaks of sets of positions and their cardinality.
LEMMA StrictMeans ==
  ASSUME NEW text \in Seq(Lines)
  PROVE  StrictFullTunnel(text) <=> Strict(text, Len(text))
<1> DEFINE n == Len(text)
           headers == {i \in DOMAIN text : text[i] \in Headers}
           Body(h) == {i \in DOMAIN text : i > h /\ \A g \in headers : g <= h \/ g > i}
           Times(h, line) == Cardinality({i \in Body(h) : text[i] = line})
           Has(h, lines) == \E line \in lines : Times(h, line) > 0
           AtMostOnce(h, line) == \A i, j \in 1 .. n :
                              /\ InBody(text, h, i) /\ InBody(text, h, j)
                              /\ text[i] = line /\ text[j] = line
                              => i = j
<1>1. n \in Nat /\ DOMAIN text = 1 .. n
  OBVIOUS
<1>2. \A i : i \in headers <=> i \in 1 .. n /\ Header(text, i)
  BY <1>1 DEF Header
<1>3. \A h \in headers : Body(h) = {i \in 1 .. n : InBody(text, h, i)}
  <2> SUFFICES ASSUME NEW h \in headers, NEW i \in 1 .. n
               PROVE  (i > h /\ \A g \in headers : g <= h \/ g > i) <=> InBody(text, h, i)
    BY <1>1
  <2>1. h \in 1 .. n
    OBVIOUS
  <2>2. ASSUME i > h, \A g \in headers : g <= h \/ g > i  PROVE InBody(text, h, i)
    <3>1. ASSUME NEW g \in h + 1 .. i  PROVE ~ Header(text, g)
      <4>1. g \in 1 .. n /\ ~ (g <= h \/ g > i)
        BY <2>1, <1>1
      <4> QED
        BY <4>1, <2>2, <1>2
    <3> QED
      BY <2>1, <2>2, <3>1 DEF InBody
  <2>3. ASSUME InBody(text, h, i)  PROVE i > h /\ \A g \in headers : g <= h \/ g > i
    <3>1. ASSUME NEW g \in headers, ~ (g <= h \/ g > i)  PROVE FALSE
      <4>1. g \in h + 1 .. i /\ Header(text, g)
        BY <2>1, <3>1, <1>1, <1>2
      <4> QED
        BY <4>1, <2>3 DEF InBody
    <3> QED
      BY <2>1, <2>3, <3>1, <1>1 DEF InBody
  <2> QED
    BY <2>2, <2>3
<1>4. \A h \in headers : \A line :
        /\ Times(h, line) > 0 <=> Said(text, h, n, line)
        /\ Times(h, line) = 1 <=> Said(text, h, n, line) /\ AtMostOnce(h, line)
  BY <1>1, <1>3, Counting
<1>5. StrictFullTunnel(text) <=>
        /\ 1 \in headers
        /\ \A h \in headers : text[h] = IF h = 1 THEN "[Interface]" ELSE "[Peer]"
        /\ \A i \in Body(1) : text[i] \in InterfaceLines
        /\ Times(1, "PrivateKey") = 1 /\ Times(1, "Table off") = 1
        /\ Times(1, "Address") > 0
        /\ \A p \in headers \ {1} :
             /\ \A i \in Body(p) : text[i] \in PeerLines
             /\ Times(p, "PublicKey") = 1 /\ Times(p, "Endpoint") = 1
             /\ Has(p, AllowedIPs)
        /\ \E p \in headers \ {1} : Has(p, DefaultRoutes)
  BY DEF StrictFullTunnel
<1> DEFINE Ordering == n > 0 /\ text[1] = "[Interface]"
                       /\ \A h \in 2 .. n : Header(text, h) => text[h] = "[Peer]"
<1> HIDE DEF n, headers, Body, Times, AtMostOnce
<1>6. (1 \in headers /\ \A h \in headers : text[h] = IF h = 1 THEN "[Interface]" ELSE "[Peer]")
      <=> Ordering
  <2>1. \A h \in 2 .. n : h \in 1 .. n /\ h # 1
    BY <1>1
  <2>2. n > 0 => 1 \in 1 .. n
    BY <1>1
  <2>3. \A h \in 1 .. n : h = 1 \/ h \in 2 .. n
    BY <1>1
  <2>4. 1 \in 1 .. n => n > 0
    BY <1>1
  <2>5. text[1] = "[Interface]" => Header(text, 1)
    BY DEF Header, Headers
  <2> QED
    BY <1>2, <2>1, <2>2, <2>3, <2>4, <2>5
<1>7. ASSUME Ordering
      PROVE  StrictFullTunnel(text) <=> Strict(text, n)
  <2>1. 1 \in headers /\ \A h : h \in headers \ {1} <=> h \in 2 .. n /\ Header(text, h)
    <3>1. \A h : h \in 2 .. n <=> h \in 1 .. n /\ h # 1
      BY <1>1
    <3> QED
      BY <1>2, <1>6, <1>7, <3>1
  <2>2. (\A i \in Body(1) : text[i] \in InterfaceLines)
        <=> \A i \in 1 .. n : InBody(text, 1, i) => text[i] \in InterfaceLines
    BY <1>3, <2>1
  <2>3. ASSUME NEW p \in headers \ {1}
        PROVE  (\A i \in Body(p) : text[i] \in PeerLines)
               <=> \A i \in 2 .. n : InBody(text, p, i) => text[i] \in PeerLines
    <3>1. p \in 2 .. n /\ Body(p) = {i \in 1 .. n : InBody(text, p, i)}
      BY <1>3, <2>1
    <3>2. \A i \in 1 .. n : InBody(text, p, i) => i \in 2 .. n
      BY <1>1, <3>1 DEF InBody
    <3>3. \A i \in 2 .. n : i \in 1 .. n
      BY <1>1
    <3> QED
      BY <3>1, <3>2, <3>3
  <2>4. Lined(text, n) <=>
          /\ \A i \in Body(1) : text[i] \in InterfaceLines
          /\ \A p \in headers \ {1} : \A i \in Body(p) : text[i] \in PeerLines
    BY <2>1, <2>2, <2>3 DEF Lined
  <2>5. Lined(text, n) =>
          (Single(text, n) <=>
             /\ AtMostOnce(1, "PrivateKey") /\ AtMostOnce(1, "Table off")
             /\ \A p \in headers \ {1} : AtMostOnce(p, "PublicKey") /\ AtMostOnce(p, "Endpoint"))
    <3>1. SUFFICES ASSUME Lined(text, n)
                   PROVE  Single(text, n) <=>
                            /\ AtMostOnce(1, "PrivateKey") /\ AtMostOnce(1, "Table off")
                            /\ \A p \in headers \ {1} :
                                 AtMostOnce(p, "PublicKey") /\ AtMostOnce(p, "Endpoint")
      OBVIOUS
    <3>2. Single(text, n) <=>
            \A h \in 1 .. n : Header(text, h) =>
              \A line \in IF h = 1 THEN {"PrivateKey", "Table off"}
                          ELSE {"PublicKey", "Endpoint"} : AtMostOnce(h, line)
      BY <1>1, <1>7, <3>1, SingleSaid DEF AtMostOnce
    <3>3. \A h : h \in 1 .. n /\ Header(text, h) <=> h = 1 \/ h \in headers \ {1}
      BY <1>2, <2>1
    <3>4. \A p \in headers \ {1} : p # 1
      OBVIOUS
    <3> QED
      BY <3>2, <3>3, <3>4
  <2>6. \A p \in headers \ {1} :
          /\ Has(p, AllowedIPs) <=> \E line \in AllowedIPs : Said(text, p, n, line)
          /\ Has(p, DefaultRoutes) <=> \E line \in DefaultRoutes : Said(text, p, n, line)
    BY <1>4
  <2>7. (\A line \in Mandatory : Said(text, 1, n, line)) <=>
          /\ Said(text, 1, n, "PrivateKey") /\ Said(text, 1, n, "Address")
          /\ Said(text, 1, n, "Table off")
    BY DEF Mandatory
  <2>8. \A line : /\ Times(1, line) > 0 <=> Said(text, 1, n, line)
                  /\ Times(1, line) = 1 <=> Said(text, 1, n, line) /\ AtMostOnce(1, line)
    BY <1>4, <2>1
  <2>9. \A p \in headers \ {1} :
          /\ Times(p, "PublicKey") = 1 <=>
               Said(text, p, n, "PublicKey") /\ AtMostOnce(p, "PublicKey")
          /\ Times(p, "Endpoint") = 1 <=>
               Said(text, p, n, "Endpoint") /\ AtMostOnce(p, "Endpoint")
    BY <1>4
  <2>10. Strict(text, n) <=>
           /\ Lined(text, n) /\ Single(text, n)
           /\ \A line \in Mandatory : Said(text, 1, n, line)
           /\ \A p \in headers \ {1} : Complete(text, p, n)
           /\ \E p \in headers \ {1} : \E line \in DefaultRoutes : Said(text, p, n, line)
    BY <1>7, <2>1 DEF Strict
  <2> HIDE DEF Has
  <2>11. StrictFullTunnel(text) <=>
           /\ Lined(text, n)
           /\ Times(1, "PrivateKey") = 1 /\ Times(1, "Table off") = 1
           /\ Times(1, "Address") > 0
           /\ \A p \in headers \ {1} :
                /\ Times(p, "PublicKey") = 1 /\ Times(p, "Endpoint") = 1
                /\ Has(p, AllowedIPs)
           /\ \E p \in headers \ {1} : Has(p, DefaultRoutes)
    BY <1>5, <1>6, <1>7, <2>4
  <2> QED
    BY <2>5, <2>6, <2>7, <2>8, <2>9, <2>10, <2>11 DEF Complete
<1>8. ASSUME ~ Ordering
      PROVE  ~ StrictFullTunnel(text) /\ ~ Strict(text, n)
  BY <1>5, <1>6, <1>8 DEF Strict
<1> QED
  BY <1>7, <1>8 DEF n

\* The automaton accepts the strict full tunnels and nothing else, whatever the
\* length of the file.
LEMMA ValidatesStrictTunnels ==
  ASSUME NEW text \in Seq(Lines)
  PROVE  Validate(text) <=> StrictFullTunnel(text)
<1> DEFINE n == Len(text)
<1>1. n \in Nat
  OBVIOUS
<1>2. PICK f : Reads(f, text, n) /\ (Validate(text) <=> Accepts(f[n]))
  BY <1>1, ValidateReads
<1> HIDE DEF n
<1>3. \A k \in 0 .. n : f[k] \in States /\ (~ f[k].refused => Knows(text, k, f[k]))
  BY <1>1, <1>2, ReadingKnows
<1>4. n \in 0 .. n
  BY <1>1
<1>5. ASSUME Validate(text)  PROVE Strict(text, n)
  BY <1>1, <1>2, <1>3, <1>4, <1>5, VerdictIsStrict DEF Accepts
<1>6. ASSUME Strict(text, n)  PROVE Validate(text)
  <2> DEFINE T == {k \in 0 .. n : f[k].refused}
  <2>1. T = {}
    <3> SUFFICES ASSUME T # {}  PROVE FALSE
      OBVIOUS
    <3>1. T \in SUBSET Nat
      BY <1>1
    <3>2. PICK m \in T : \A k \in T : m <= k
      BY <3>1, Least
    <3>3. f[0] = Unread /\ 0 \in 0 .. n
      BY <1>1, <1>2 DEF Reads
    <3>4. m \in 0 .. n /\ m # 0 /\ f[m].refused
      BY <3>3 DEF Unread
    <3>5. m - 1 \in 0 .. n /\ m - 1 \in Nat /\ m - 1 < n /\ (m - 1) + 1 = m /\ m - 1 \notin T
      BY <1>1, <3>2, <3>4
    <3>6. Knows(text, m - 1, f[m - 1])
      BY <1>3, <3>5
    <3>7. Takes(f[m - 1], text[m])
      BY <1>1, <1>6, <3>5, <3>6, StrictIsTaken
    <3>8. f[m] = ReadLine(f[m - 1], text[m])
      BY <1>2, <3>4 DEF Reads
    <3>9. f[m] = Taken(f[m - 1], text[m])
      BY <3>5, <3>7, <3>8 DEF ReadLine
    <3>10. Knows(text, m, Taken(f[m - 1], text[m]))
      BY <3>5, <3>6, <3>7, KnowsMore
    <3> QED
      BY <3>4, <3>9, <3>10 DEF Knows, Counted
  <2>2. ~ f[n].refused
    BY <1>4, <2>1
  <2> QED
    BY <1>1, <1>2, <1>3, <1>4, <1>6, <2>2, VerdictIsStrict
<1> QED
  BY <1>5, <1>6, StrictMeans DEF n

-----------------------------------------------------------------------------
(* The names of Blocklist.                                                 *)

\* Every label, the one below among them, said so that the provers know it.
Spellings == STRING \cup {"net"}

\* Where normalize_host cuts a name: after its last label that is not empty.
Cut(name, last) ==
  /\ last \in 0 .. Len(name)
  /\ \A i \in 1 .. Len(name) : i > last => name[i] = EmptyLabel
  /\ last > 0 => name[last] # EmptyLabel

\* A set of positions has a greatest one.
LEMMA Greatest ==
  ASSUME NEW n \in Nat, NEW T \in SUBSET (1 .. n), T # {}
  PROVE  \E m \in T : \A i \in T : i <= m
<1> DEFINE D == {k \in Nat : n - k \in T}
<1>1. \A i \in T : i \in 1 .. n /\ n - i \in Nat /\ n - (n - i) = i
  OBVIOUS
<1>2. D # {} /\ D \in SUBSET Nat
  BY <1>1
<1> HIDE DEF D
<1>3. PICK k \in D : \A j \in D : k <= j
  BY <1>2, Least
<1>4. k \in Nat /\ n - k \in T
  BY <1>2 DEF D
<1>5. ASSUME NEW i \in T  PROVE i <= n - k
  <2>1. n - i \in D /\ i \in 1 .. n
    BY <1>1 DEF D
  <2>2. k <= n - i
    BY <1>3, <2>1
  <2> QED
    BY <1>4, <2>1, <2>2
<1> QED
  BY <1>4, <1>5

\* NormalizeHost cuts and lowers.
LEMMA NormalizesTo ==
  ASSUME NEW name \in Seq(Spellings)
  PROVE  \E last : /\ Cut(name, last)
                   /\ NormalizeHost(name) = [i \in 1 .. last |-> Lower(name[i])]
<1> DEFINE kept == {i \in DOMAIN name : name[i] # EmptyLabel}
           last == IF kept = {} THEN 0 ELSE CHOOSE i \in kept : \A j \in kept : j <= i
<1>1. Len(name) \in Nat /\ DOMAIN name = 1 .. Len(name)
  OBVIOUS
<1>2. NormalizeHost(name) = [i \in 1 .. last |-> Lower(name[i])]
  BY DEF NormalizeHost
<1>3. CASE kept = {}
  <2>1. last = 0
    BY <1>3
  <2>2. Cut(name, last)
    BY <1>1, <1>3, <2>1 DEF Cut
  <2> QED
    BY <1>2, <2>2
<1>4. CASE kept # {}
  <2>1. kept \in SUBSET (1 .. Len(name))
    BY <1>1
  <2>2. \E i \in kept : \A j \in kept : j <= i
    BY <1>1, <1>4, <2>1, Greatest
  <2>3. last \in kept /\ \A j \in kept : j <= last
    BY <1>4, <2>2
  <2>4. \A i \in 1 .. Len(name) : i \in kept <=> name[i] # EmptyLabel
    BY <1>1
  <2> HIDE DEF last, kept
  <2>5. last \in 1 .. Len(name)
    BY <2>1, <2>3
  <2>6. Cut(name, last)
    BY <1>1, <2>3, <2>4, <2>5 DEF Cut
  <2> QED
    BY <1>2, <2>6 DEF last, kept
<1> QED
  BY <1>3, <1>4

\* There is one place to cut.
LEMMA CutIsUnique ==
  ASSUME NEW name \in Seq(Spellings), NEW k, NEW m, Cut(name, k), Cut(name, m)
  PROVE  k = m
<1>1. Len(name) \in Nat /\ k \in 0 .. Len(name) /\ m \in 0 .. Len(name)
  BY DEF Cut
<1>2. ~ (k < m)
  BY <1>1 DEF Cut
<1>3. ~ (m < k)
  BY <1>1 DEF Cut
<1> QED
  BY <1>1, <1>2, <1>3

\* A host is a sequence of labels.
LEMMA HostIsSequence ==
  ASSUME NEW name \in Seq(Spellings)
  PROVE  NormalizeHost(name) \in Seq({Lower(l) : l \in Spellings})
<1>1. PICK last : /\ Cut(name, last)
                  /\ NormalizeHost(name) = [i \in 1 .. last |-> Lower(name[i])]
  BY NormalizesTo
<1>2. last \in Nat /\ \A i \in 1 .. last : name[i] \in Spellings
  BY <1>1 DEF Cut
<1> QED
  BY <1>1, <1>2

\* A name with one more label in front.
LEMMA Subdomain ==
  ASSUME NEW name \in Seq(Spellings)
  PROVE  LET sub == << "net" >> \o name
         IN  /\ sub \in Seq(Spellings) /\ Len(sub) = Len(name) + 1 /\ sub[1] = "net"
             /\ \A i \in 1 .. Len(name) : sub[i + 1] = name[i]
<1>1. "net" \in Spellings
  BY DEF Spellings
<1>2. << "net" >> \in Seq(Spellings) /\ Len(<< "net" >>) = 1 /\ << "net" >>[1] = "net"
  BY <1>1
<1> DEFINE first == << "net" >>
<1> HIDE DEF first
<1>3. first \in Seq(Spellings) /\ Len(first) = 1 /\ first[1] = "net"
  BY <1>2 DEF first
<1>4. /\ first \o name \in Seq(Spellings)
      /\ Len(first \o name) = Len(first) + Len(name)
      /\ \A i \in 1 .. Len(first) + Len(name) :
           (first \o name)[i] = IF i <= Len(first) THEN first[i] ELSE name[i - Len(first)]
  BY <1>3, ConcatProperties
<1>5. Len(name) \in Nat
  OBVIOUS
<1>6. Len(first \o name) = Len(name) + 1 /\ (first \o name)[1] = "net"
  BY <1>3, <1>4, <1>5
<1>7. ASSUME NEW i \in 1 .. Len(name)  PROVE (first \o name)[i + 1] = name[i]
  <2>1. i + 1 \in 1 .. Len(first) + Len(name) /\ ~ (i + 1 <= Len(first)) /\ (i + 1) - Len(first) = i
    BY <1>3, <1>5
  <2> QED
    BY <1>4, <2>1
<1> QED
  BY <1>4, <1>6, <1>7 DEF first

\* A subdomain of a name normalizes to a subdomain of the host.
LEMMA HostBelow ==
  ASSUME NEW name \in Seq(Spellings), NormalizeHost(name) # << >>
  PROVE  LET host == NormalizeHost(name)
             sub == NormalizeHost(<< "net" >> \o name)
         IN  /\ Len(sub) = Len(host) + 1
             /\ \A i \in 1 .. Len(host) : sub[i + 1] = host[i]
<1> DEFINE name1 == << "net" >> \o name
<1>1. /\ name1 \in Seq(Spellings) /\ Len(name1) = Len(name) + 1 /\ name1[1] = "net"
      /\ \A i \in 1 .. Len(name) : name1[i + 1] = name[i]
  BY Subdomain
<1> HIDE DEF name1
<1>2. PICK last : /\ Cut(name, last)
                  /\ NormalizeHost(name) = [i \in 1 .. last |-> Lower(name[i])]
  BY NormalizesTo
<1>3. PICK last1 : /\ Cut(name1, last1)
                   /\ NormalizeHost(name1) = [i \in 1 .. last1 |-> Lower(name1[i])]
  BY <1>1, NormalizesTo
<1>4. Len(name) \in Nat /\ last \in 0 .. Len(name)
  BY <1>2 DEF Cut
<1>5. last # 0
  <2>1. last = 0 => 1 .. last = {}
    BY <1>4
  <2> QED
    BY <1>2, <2>1
<1>6. Cut(name1, last + 1)
  <2>1. ASSUME NEW i \in 1 .. Len(name1), i > last + 1  PROVE name1[i] = EmptyLabel
    <3>1. i - 1 \in 1 .. Len(name) /\ i - 1 > last /\ (i - 1) + 1 = i
      BY <1>1, <1>4, <2>1
    <3> QED
      BY <1>1, <1>2, <3>1 DEF Cut
  <2>2. name1[last + 1] # EmptyLabel
    BY <1>1, <1>2, <1>4, <1>5 DEF Cut
  <2> QED
    BY <1>1, <1>4, <2>1, <2>2 DEF Cut
<1>7. last1 = last + 1
  BY <1>1, <1>3, <1>6, CutIsUnique
<1>8. /\ Len(NormalizeHost(name)) = last /\ Len(NormalizeHost(name1)) = last + 1
  <2>1. NormalizeHost(name) \in Seq({Lower(l) : l \in Spellings})
    BY HostIsSequence
  <2>2. NormalizeHost(name1) \in Seq({Lower(l) : l \in Spellings})
    BY <1>1, HostIsSequence
  <2> QED
    BY <1>2, <1>3, <1>4, <1>7, <2>1, <2>2
<1>9. ASSUME NEW i \in 1 .. last
      PROVE  NormalizeHost(name1)[i + 1] = NormalizeHost(name)[i]
  <2>1. i + 1 \in 1 .. last1 /\ i \in 1 .. Len(name)
    BY <1>4, <1>7
  <2> QED
    BY <1>1, <1>2, <1>3, <2>1
<1> QED
  BY <1>8, <1>9 DEF name1

\* contains: the names of a set and what lies below them.
LEMMA ContainsListed ==
  ASSUME NEW set, NEW name \in Seq(Spellings), NormalizeHost(name) \in set,
         NormalizeHost(name) # << >>
  PROVE  Contains(set, name) /\ Contains(set, << "net" >> \o name)
<1> DEFINE host == NormalizeHost(name)
           name1 == << "net" >> \o name
           sub == NormalizeHost(name1)
<1>1. name1 \in Seq(Spellings)
  BY Subdomain
<1> HIDE DEF name1
<1>2. host \in Seq({Lower(l) : l \in Spellings}) /\ sub \in Seq({Lower(l) : l \in Spellings})
  BY <1>1, HostIsSequence
<1>3. Len(sub) = Len(host) + 1 /\ \A i \in 1 .. Len(host) : sub[i + 1] = host[i]
  BY HostBelow DEF name1
<1> HIDE DEF host, sub
<1>4. host # << >> /\ host \in set
  BY DEF host
<1>5. Len(host) \in Nat \ {0} /\ DOMAIN host = 1 .. Len(host) /\ DOMAIN sub = 1 .. Len(sub)
  BY <1>2, <1>4
<1>6. SubSeq(host, 1, Len(host)) = host /\ 1 \in DOMAIN host
  BY <1>2, <1>5
<1>7. SubSeq(sub, 2, Len(sub)) = host /\ 2 \in DOMAIN sub
  BY <1>2, <1>3, <1>5
<1> QED
  BY <1>4, <1>6, <1>7 DEF Contains, host, sub, name1

\* contains: nothing that is not within a member of the set.
LEMMA ContainsWithin ==
  ASSUME NEW set, NEW name \in Seq(Spellings), Contains(set, name)
  PROVE  \E domain \in set : IsWithin(NormalizeHost(name), domain)
<1> DEFINE host == NormalizeHost(name)
<1>1. host \in Seq({Lower(l) : l \in Spellings})
  BY HostIsSequence
<1>2. PICK i \in DOMAIN host : SubSeq(host, i, Len(host)) \in set
  BY DEF Contains
<1> HIDE DEF host
<1> DEFINE domain == SubSeq(host, i, Len(host))
<1>3. Len(host) \in Nat /\ i \in 1 .. Len(host)
  BY <1>1, <1>2
<1>4. /\ Len(domain) = Len(host) - (i - 1) /\ DOMAIN domain = 1 .. Len(domain)
      /\ \A j \in 1 .. Len(domain) : domain[j] = host[j + (i - 1)]
  BY <1>1, <1>3
<1>5. i - 1 \in 0 .. Len(host)
  BY <1>3
<1> HIDE DEF domain
<1>6. IsWithin(host, domain)
  BY <1>4, <1>5 DEF IsWithin
<1> QED
  BY <1>2, <1>6 DEF domain, host

-----------------------------------------------------------------------------
(* Where install.sh calls the validators and installs what they read.      *)

\* The steps until custom_hosts.txt is written, from then on, and from when the
\* blocklist has been compiled from it.
BeforeHosts == Checking \cup {"stop", "backup", "program", "web", "config", "hosts"}
HostsDone == {"install secrets", "network", "compile", "enable", "health", "committed"}
Compiled == {"enable", "health", "committed"}

\* What was examined has the verdict of the validator.  Custom names have passed
\* the strict check, the hosts file installed is theirs if there are any, and the
\* blocklist is compiled from the base and that file.
ReadInv ==
  /\ \A file \in examined :
       file.text \in WireGuardFiles /\ (file.accepted <=> Validate(file.text))
  /\ \A file \in work.hosts : StrictlyValid(file) /\ IsHosts(file)
  /\ job \in BeforeHosts => \A file \in disk.etc.hosts : IsHosts(file)
  /\ job \in HostsDone =>
       /\ disk.etc.hosts # {} /\ \A file \in disk.etc.hosts : IsHosts(file)
       /\ work.hosts # {} => disk.etc.hosts = work.hosts
  /\ job \in Compiled =>
       disk.data = {MergeHostsWithBase(BaseDomains, The(disk.etc.hosts))}

\* The script begins with nothing read.
LEMMA ReadInit ==
  ASSUME Init, FilesAssumption
  PROVE  ReadInv
<1>1. \A file \in disk.etc.hosts : IsHosts(file)
  BY DEF Init, FilesAssumption
<1>2. job \in {"disable", "sync"} /\ examined = {} /\ work.hosts = {}
  BY DEF Init
<1> QED
  BY <1>1, <1>2 DEF ReadInv, HostsDone, Compiled

\* Steps that touch neither the files nor the work directory, or leave the
\* installation.
LEMMA ReadStands ==
  ASSUME ReadInv, UNCHANGED <<work, examined>>,
         \/ disk' = disk /\ (job' = job \/ job' \notin HostsDone \cup BeforeHosts)
         \/ job' \notin HostsDone \cup BeforeHosts
         \/ disk' = disk /\ job \in Checking /\ job' \in Checking \cup {"stop"}
  PROVE  ReadInv'
<1>1. Checking \cap HostsDone = {} /\ (Checking \cup {"stop"}) \cap HostsDone = {}
      /\ Checking \cup {"stop"} \subseteq BeforeHosts /\ Compiled \subseteq HostsDone
  BY DEF Checking, HostsDone, BeforeHosts, Compiled
<1>2. job' \in HostsDone => job \in HostsDone /\ job' = job /\ disk' = disk
  BY <1>1
<1>3. job' \in BeforeHosts => job \in BeforeHosts /\ disk' = disk
  BY <1>1
<1> QED
  BY <1>1, <1>2, <1>3 DEF ReadInv

\* Every command keeps it.
LEMMA ReadStep ==
  ASSUME FilesAssumption, InstallerInv, ReadInv, [Next]_vars
  PROVE  ReadInv'
<1>1. CASE UNCHANGED vars
  BY <1>1, ReadStands DEF vars
<1>2. ASSUME NEW s \in Services, Crash(s) \/ Restart(s)  PROVE ReadInv'
  BY <1>2, ReadStands DEF Crash, Restart, script
<1>3. CASE CommandFails
  <2>1. UNCHANGED <<work, examined>>
    BY <1>3 DEF CommandFails, script
  <2>2. job' \in {"refused", "rollback stop", "uninstall failed"}
    BY <1>3 DEF CommandFails, GoTo
  <2>3. job' \notin HostsDone \cup BeforeHosts
    BY <2>2 DEF HostsDone, BeforeHosts, Checking
  <2> QED
    BY <2>1, <2>3, ReadStands
<1>4. CASE SyncPublicConfig
  <2>1. job = "sync" /\ disk' = disk
    BY <1>4 DEF SyncPublicConfig, Checked, machine
  <2>2. PICK repository \in Repositories :
          IF /\ \A file \in repository.hosts : StrictlyValid(file)
             /\ \A doc \in repository.config : ParseRemoteConfig(doc)
          THEN /\ work' = [work EXCEPT !.hosts = repository.hosts,
                                       !.effective = {Apply(ReleaseToml, doc) :
                                                        doc \in repository.config}]
               /\ GoTo("secrets")
               /\ UNCHANGED examined
          ELSE Die
    BY <1>4 DEF SyncPublicConfig
  <2>3. CASE Die
    <3>1. job' \notin HostsDone \cup BeforeHosts /\ UNCHANGED <<work, examined>>
      BY <2>3 DEF Die, GoTo, HostsDone, BeforeHosts, Checking
    <3> QED
      BY <3>1, ReadStands
  <2>4. CASE /\ \A file \in repository.hosts : StrictlyValid(file)
             /\ work' = [work EXCEPT !.hosts = repository.hosts,
                                     !.effective = {Apply(ReleaseToml, doc) :
                                                      doc \in repository.config}]
             /\ GoTo("secrets")
             /\ UNCHANGED examined
    <3>1. work'.hosts = repository.hosts
      BY <2>4 DEF InstallerInv, WorkInv, HasFields
    <3>2. \A file \in work'.hosts : StrictlyValid(file) /\ IsHosts(file)
      BY <2>4, <3>1 DEF FilesAssumption
    <3>3. job' = "secrets" /\ examined' = examined
      BY <2>4 DEF GoTo
    <3> QED
      BY <2>1, <3>2, <3>3 DEF ReadInv, HostsDone, Compiled, BeforeHosts, Checking
  <2> QED
    BY <2>2, <2>3, <2>4
<1>5. CASE PrepareSecrets
  <2>1. /\ job = "secrets" /\ job' = "wireguard" /\ disk' = disk /\ examined' = examined
        /\ work'.hosts = work.hosts
    BY <1>5 DEF PrepareSecrets, Checked, machine, GoTo, InstallerInv, WorkInv, HasFields
  <2> QED
    BY <2>1 DEF ReadInv, HostsDone, Compiled, BeforeHosts, Checking
<1>6. CASE CheckWireGuard
  <2>1. job = "wireguard" /\ disk' = disk /\ job' \in {"proxy", "refused"}
    BY <1>6 DEF CheckWireGuard, Checked, machine, GoTo
  <2>2. work'.hosts = work.hosts
    BY <1>6 DEF CheckWireGuard, InstallerInv, WorkInv, HasFields
  <2>3. \A file \in examined' :
          file.text \in WireGuardFiles /\ (file.accepted <=> Validate(file.text))
    <3>1. CASE UNCHANGED examined
      BY <3>1 DEF ReadInv
    <3>2. CASE \E text \in WireGuardFiles :
                 examined' = {[text |-> text, accepted |-> Validate(text)]}
      BY <3>2
    <3> QED
      BY <1>6, <3>1, <3>2 DEF CheckWireGuard
  <2> QED
    BY <2>1, <2>2, <2>3 DEF ReadInv, HostsDone, Compiled, BeforeHosts, Checking
<1>7. CASE CheckProxy
  <2>1. job = "proxy" /\ disk' = disk /\ job' \in {"dependencies", "refused"}
    BY <1>7 DEF CheckProxy, Checked, machine, GoTo, Die
  <2>2. work'.hosts = work.hosts /\ (examined' = {} \/ examined' = examined)
    BY <1>7 DEF CheckProxy, Die, InstallerInv, WorkInv, HasFields
  <2> QED
    BY <2>1, <2>2 DEF ReadInv, HostsDone, Compiled, BeforeHosts, Checking
<1>8. CASE CaptureServiceState
  <2>1. /\ job = "dependencies" /\ job' = "stop" /\ disk' = disk
        /\ UNCHANGED <<work, examined>>
    BY <1>8 DEF CaptureServiceState, Kept, machine
  <2> QED
    BY <2>1, ReadStands DEF Checking
<1>9. CASE StopForInstall
  <2>1. /\ job = "stop" /\ job' \in {"stop", "backup"} /\ disk' = disk
        /\ UNCHANGED <<work, examined>>
    BY <1>9 DEF StopForInstall, Kept, machine, GoTo
  <2> QED
    BY <2>1 DEF ReadInv, HostsDone, Compiled, BeforeHosts
<1>10. CASE BackUp
  <2>1. /\ job = "backup" /\ job' = "program" /\ disk' = disk
        /\ UNCHANGED <<work, examined>>
    BY <1>10 DEF BackUp, Kept, machine, GoTo
  <2> QED
    BY <2>1 DEF ReadInv, HostsDone, Compiled, BeforeHosts
<1>11. CASE InstallPrograms \/ InstallWeb
  <2>1. /\ job \in {"program", "web"} /\ job' \in {"web", "config"} /\ disk'.etc = disk.etc
        /\ UNCHANGED <<work, examined>>
    BY <1>11 DEF InstallPrograms, InstallWeb, Installed, Kept, GoTo, InstallerInv, MachineInv,
           Shaped, HasFields, Targets
  <2> QED
    BY <2>1 DEF ReadInv, HostsDone, Compiled, BeforeHosts
<1>12. CASE InstallConfig
  <2>1. Shaped(disk)
    BY DEF InstallerInv, MachineInv
  <2>2. /\ job = "config" /\ job' = "hosts" /\ disk'.etc.hosts = disk.etc.hosts
        /\ UNCHANGED <<work, examined>>
    BY <1>12, <2>1 DEF InstallConfig, Installed, Kept, GoTo, Shaped, HasFields, Targets, EtcFiles
  <2> QED
    BY <2>2 DEF ReadInv, HostsDone, Compiled, BeforeHosts
<1>13. CASE InstallHosts
  <2>1. Shaped(disk)
    BY DEF InstallerInv, MachineInv
  <2>2. /\ job = "hosts" /\ job' = "install secrets" /\ UNCHANGED <<work, examined>>
        /\ disk'.etc.hosts = IF work.hosts # {} THEN work.hosts
                             ELSE IF options.repair /\ disk.etc.hosts # {} THEN disk.etc.hosts
                             ELSE {{}}
    BY <1>13, <2>1 DEF InstallHosts, Installed, Kept, GoTo, Shaped, HasFields, Targets, EtcFiles
  <2>3. IsHosts({})
    BY DEF IsHosts
  <2>4. disk'.etc.hosts # {} /\ \A file \in disk'.etc.hosts : IsHosts(file)
    BY <2>2, <2>3 DEF ReadInv, BeforeHosts
  <2> QED
    BY <2>2, <2>4 DEF ReadInv, HostsDone, Compiled, BeforeHosts, Checking
<1>14. CASE InstallSecrets \/ SetNetwork
  <2>1. Shaped(disk)
    BY DEF InstallerInv, MachineInv
  <2>2. disk'.etc.hosts = disk.etc.hosts
    <3>1. CASE InstallSecrets
      BY <2>1, <3>1 DEF InstallSecrets, Shaped, HasFields, Targets, EtcFiles
    <3>2. CASE SetNetwork
      BY <2>1, <3>2 DEF SetNetwork, Shaped, HasFields, Targets, EtcFiles
    <3> QED
      BY <1>14, <3>1, <3>2
  <2>3. /\ job \in {"install secrets", "network"} /\ job' \in {"network", "compile"}
        /\ UNCHANGED <<work, examined>>
    BY <1>14 DEF InstallSecrets, SetNetwork, Installed, Kept, GoTo
  <2> QED
    BY <2>2, <2>3 DEF ReadInv, HostsDone, Compiled, BeforeHosts, Checking
<1>15. CASE CompileBlocklist
  <2>1. Shaped(disk)
    BY DEF InstallerInv, MachineInv
  <2>2. /\ job = "compile" /\ job' = "enable" /\ UNCHANGED <<work, examined>>
        /\ disk'.etc = disk.etc
        /\ disk'.data = {MergeHostsWithBase(BaseDomains, The(disk.etc.hosts))}
    BY <1>15, <2>1 DEF CompileBlocklist, Installed, Kept, GoTo, Shaped, HasFields, Targets
  <2> QED
    BY <2>2 DEF ReadInv, HostsDone, Compiled, BeforeHosts, Checking
<1>16. CASE EnableServices \/ HealthCheck
  <2>1. /\ job \in {"enable", "health"} /\ job' \in {"health", "committed", "rollback stop"}
        /\ disk' = disk /\ UNCHANGED <<work, examined>>
    BY <1>16 DEF EnableServices, HealthCheck, Kept, GoTo, machine
  <2> QED
    BY <2>1 DEF ReadInv, HostsDone, Compiled, BeforeHosts, Checking
<1>17. CASE \/ RollbackStop \/ RollbackDisable \/ RollbackRemove \/ RollbackRestore
            \/ RollbackServices
  <2>1. /\ job' \in {"rollback stop", "rollback disable", "rollback remove", "rollback restore",
                     "rollback services", "incomplete", "rolled back"}
        /\ UNCHANGED <<work, examined>>
    BY <1>17 DEF RollbackStop, RollbackDisable, RollbackRemove, RollbackRestore,
           RollbackServices, Outcome, Undo, GoTo
  <2> QED
    BY <2>1, ReadStands DEF HostsDone, BeforeHosts, Checking
<1>18. CASE DisableServices \/ SaveConfiguration \/ RemoveFiles
  <2>1. job' \in {"save", "remove", "uninstalled"} /\ UNCHANGED <<work, examined>>
    BY <1>18 DEF DisableServices, SaveConfiguration, RemoveFiles, Uninstalled, GoTo
  <2> QED
    BY <2>1, ReadStands DEF HostsDone, BeforeHosts, Checking
<1>19. CASE Over
  BY <1>19, ReadStands DEF Over, vars
<1> QED
  BY <1>1, <1>2, <1>3, <1>4, <1>5, <1>6, <1>7, <1>8, <1>9, <1>10, <1>11, <1>12, <1>13, <1>14,
     <1>15, <1>16, <1>17, <1>18, <1>19 DEF Next

\* The invariant of what was read, beside that of InstallerProofs.
LEMMA Readings == Spec => []ReadInv
<1>1. Init => ReadInv
  BY ReadInit, FilesAssumption
<1>2. InstallerInv /\ ReadInv /\ [Next]_vars => ReadInv'
  BY ReadStep, FilesAssumption
<1> QED
  BY <1>1, <1>2, Invariance, PTL DEF Spec

\* A WireGuard file of any length is accepted exactly when it is a strict full
\* tunnel (validate_wireguard_config).
THEOREM StrictTunnelsOnly == Spec => []AcceptsStrictTunnels
<1>1. ReadInv => AcceptsStrictTunnels
  BY FilesAssumption, ValidatesStrictTunnels DEF ReadInv, FilesAssumption, AcceptsStrictTunnels
<1> QED
  BY <1>1, Readings, PTL

\* What the invariant says of the blocklist installed.
LEMMA BlocksListed ==
  ASSUME FilesAssumption, ReadInv
  PROVE  BlocksWhatIsListed
<1> SUFFICES ASSUME job \in Compiled
             PROVE  LET set == The(disk.data)
                        names == BaseDomains \cup Candidates(The(disk.etc.hosts))
                        below == {<< "net" >> \o name : name \in names}
                    IN  /\ work.hosts # {} => \A name \in names \cup below : Contains(set, name)
                        /\ \A host \in names \cup below \cup {Tail(name) : name \in names} :
                             Contains(set, host) => \E name \in names :
                               IsWithin(NormalizeHost(host), NormalizeHost(name))
  BY DEF BlocksWhatIsListed, Compiled
<1> DEFINE file == The(disk.etc.hosts)
           set == The(disk.data)
           names == BaseDomains \cup Candidates(file)
           below == {<< "net" >> \o name : name \in names}
<1>1. job \in HostsDone
  BY DEF Compiled, HostsDone
<1>2. file \in disk.etc.hosts /\ IsHosts(file)
  BY <1>1, TheOne DEF ReadInv
<1>3. set = BaseDomains \cup CompileHosts(file)
  BY TheOnly DEF ReadInv, MergeHostsWithBase
<1>4. work.hosts # {} => StrictlyValid(file)
  BY <1>1, <1>2 DEF ReadInv
<1> HIDE DEF file, set
<1>5. \A name \in names : IsName(name)
  BY <1>2 DEF FilesAssumption, IsHosts, Candidates
<1>6. \A name \in names : name \in Seq(Spellings) /\ name # << >>
  <2>1. \A name \in Seq(STRING) : name \in Seq(Spellings)
    <3>1. STRING \subseteq Spellings
      BY DEF Spellings
    <3> QED
      BY <3>1, SeqMonotonic
  <2> QED
    BY <1>5, <2>1 DEF IsName
<1>7. \A name \in BaseDomains : NormalizeHost(name) = name /\ Len(name) >= 2
  <2>1. \A name \in BaseDomains : name \in NormalizeDomain(name)
    BY DEF FilesAssumption
  <2> QED
    BY <2>1 DEF NormalizeDomain
<1>8. \A name : \A d \in NormalizeDomain(name) : d = NormalizeHost(name) /\ Len(d) >= 2
  BY DEF NormalizeDomain
<1>9. ASSUME work.hosts # {}, NEW name \in names
      PROVE  NormalizeHost(name) \in set /\ NormalizeHost(name) # << >>
  <2>1. \A d : Len(d) >= 2 => d # << >>
    OBVIOUS
  <2>2. CASE name \in BaseDomains
    BY <1>3, <1>7, <2>1, <2>2
  <2>3. CASE name \in Candidates(file)
    <3>1. NormalizeDomain(name) # {}
      BY <1>4, <1>9, <2>3 DEF StrictlyValid, Candidates
    <3>2. PICK d \in NormalizeDomain(name) : TRUE
      BY <3>1
    <3>3. d \in CompileHosts(file)
      BY <2>3, <3>2 DEF CompileHosts
    <3> QED
      BY <1>3, <1>8, <2>1, <3>2, <3>3
  <2> QED
    BY <2>2, <2>3
<1>10. ASSUME work.hosts # {}, NEW host \in names \cup below
       PROVE  Contains(set, host)
  <2>1. PICK name \in names : host = name \/ host = << "net" >> \o name
    BY <1>10
  <2>2. /\ NormalizeHost(name) \in set /\ NormalizeHost(name) # << >>
        /\ name \in Seq(Spellings)
    BY <1>6, <1>9, <1>10
  <2> QED
    BY <2>1, <2>2, ContainsListed
<1>11. \A domain \in set : \E name \in names : domain = NormalizeHost(name)
  BY <1>3, <1>7, <1>8 DEF CompileHosts
<1>12. ASSUME NEW host \in names \cup below \cup {Tail(name) : name \in names}
       PROVE  host \in Seq(Spellings)
  <2>1. PICK name \in names : host = name \/ host = << "net" >> \o name \/ host = Tail(name)
    BY <1>12
  <2>2. name \in Seq(Spellings) /\ name # << >>
    BY <1>6
  <2>3. << "net" >> \o name \in Seq(Spellings)
    BY <2>2, Subdomain
  <2>4. Tail(name) \in Seq(Spellings)
    BY <2>2, HeadTailProperties
  <2> QED
    BY <2>1, <2>2, <2>3, <2>4
<1>13. ASSUME NEW host \in names \cup below \cup {Tail(name) : name \in names},
              Contains(set, host)
       PROVE  \E name \in names : IsWithin(NormalizeHost(host), NormalizeHost(name))
  BY <1>11, <1>12, <1>13, ContainsWithin
<1> QED
  BY <1>10, <1>13 DEF file, set

\* The blocklist blocks what a checked hosts file lists, with all that lies below
\* it, and nothing else, for hosts files and names of any length (contains,
\* compile_hosts, merge_hosts_with_base).
THEOREM BlocklistIsExact == Spec => []BlocksWhatIsListed
<1>1. ReadInv => BlocksWhatIsListed
  BY BlocksListed, FilesAssumption
<1> QED
  BY <1>1, Readings, PTL
=============================================================================
