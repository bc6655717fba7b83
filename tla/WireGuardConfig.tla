--------------------------- MODULE WireGuardConfig ---------------------------
(***************************************************************************)
(* validate_wireguard_config of egress.rs: the automaton that reads a      *)
(* WireGuard file line by line and refuses it at the first line it cannot  *)
(* take, or at its end.  Values are abstracted to what the verdict depends *)
(* on: a file is a sequence of kinds of line, and a line whose value does  *)
(* not parse (key, CIDR, port, MTU, endpoint) or whose key or section is   *)
(* unknown is "unusable".  Comments and blank lines are skipped.           *)
(***************************************************************************)
EXTENDS Naturals, Sequences, FiniteSets

Headers == {"[Interface]", "[Peer]"}
DefaultRoutes == {"AllowedIPs 0.0.0.0/0", "AllowedIPs ::/0"}
AllowedIPs == DefaultRoutes \cup {"AllowedIPs other"}
Mandatory == {"PrivateKey", "Address", "Table off"}
InterfaceLines == Mandatory \cup {"MTU"}
PeerLines == {"PublicKey", "Endpoint", "PresharedKey"} \cup AllowedIPs
Lines == Headers \cup InterfaceLines \cup PeerLines \cup {"hook", "unusable"}

\* The keys a section may give once; the others may be repeated.
GivenOnce == {"PrivateKey", "Table off", "PublicKey", "Endpoint"}

-----------------------------------------------------------------------------
(* The code.  interface_private_key, interface_address and table_off are   *)
(* the set interface, the flags of the current peer the set peer, and      *)
(* ipv4_default and ipv6_default the set routes.                           *)

Unread == [refused |-> FALSE, section |-> "none", interfaces |-> 0, peers |-> 0,
           interface |-> {}, peer |-> {}, routes |-> {}]

\* finish_peer: what is known of the current peer must be enough.
PeerFinished(at) ==
  at.peers > 0 => /\ {"PublicKey", "Endpoint"} \subseteq at.peer
                  /\ at.peer \cap AllowedIPs # {}

Takes(at, line) ==
  \/ line = "[Interface]" /\ at.interfaces = 0 /\ at.peers = 0
  \/ line = "[Peer]" /\ at.interfaces = 1 /\ PeerFinished(at)
  \/ /\ at.section = "[Interface]"
     /\ line \in InterfaceLines
     /\ line \in GivenOnce => line \notin at.interface
  \/ /\ at.section = "[Peer]"
     /\ line \in PeerLines
     /\ line \in GivenOnce => line \notin at.peer

\* A fault to compare with: the flags of a peer outlive it.
TakenWithStaleFlags(at, line) ==
  CASE line = "[Interface]" ->
         [at EXCEPT !.section = line, !.interfaces = @ + 1]
    [] line = "[Peer]" ->
         [at EXCEPT !.section = line, !.peers = @ + 1, !.peer = @ \ GivenOnce]
    [] line \in InterfaceLines ->
         [at EXCEPT !.interface = @ \cup ({line} \cap Mandatory)]
    [] OTHER ->
         [at EXCEPT !.peer = @ \cup ({line} \ {"PresharedKey"}),
                    !.routes = @ \cup ({line} \cap DefaultRoutes)]

Taken(at, line) ==
  CASE line = "[Interface]" ->
         [at EXCEPT !.section = line, !.interfaces = @ + 1]
    [] line = "[Peer]" ->
         [at EXCEPT !.section = line, !.peers = @ + 1, !.peer = {}]
    [] line \in InterfaceLines ->
         [at EXCEPT !.interface = @ \cup ({line} \cap Mandatory)]
    [] OTHER ->
         [at EXCEPT !.peer = @ \cup ({line} \ {"PresharedKey"}),
                    !.routes = @ \cup ({line} \cap DefaultRoutes)]

ReadLine(at, line) ==
  IF ~ at.refused /\ Takes(at, line) THEN Taken(at, line)
  ELSE [at EXCEPT !.refused = TRUE]

Validate(text) ==
  LET after[i \in 0 .. Len(text)] ==
        IF i = 0 THEN Unread ELSE ReadLine(after[i - 1], text[i])
      end == after[Len(text)]
  IN  /\ ~ end.refused
      /\ PeerFinished(end)
      /\ end.interfaces = 1
      /\ end.interface = Mandatory
      /\ end.peers > 0
      /\ end.routes # {}

-----------------------------------------------------------------------------
(* The reference: which files are a strict full tunnel, said of the whole  *)
(* file and not of a reading of it.                                        *)

StrictFullTunnel(text) ==
  LET headers == {i \in DOMAIN text : text[i] \in Headers}
      Body(h) == {i \in DOMAIN text : i > h /\ \A g \in headers : g <= h \/ g > i}
      Times(h, line) == Cardinality({i \in Body(h) : text[i] = line})
      Has(h, lines) == \E line \in lines : Times(h, line) > 0
      peers == headers \ {1}
  IN  /\ 1 \in headers
      /\ \A h \in headers : text[h] = IF h = 1 THEN "[Interface]" ELSE "[Peer]"
      /\ \A i \in Body(1) : text[i] \in InterfaceLines
      /\ Times(1, "PrivateKey") = 1 /\ Times(1, "Table off") = 1
      /\ Times(1, "Address") > 0
      /\ \A p \in peers : /\ \A i \in Body(p) : text[i] \in PeerLines
                          /\ Times(p, "PublicKey") = 1 /\ Times(p, "Endpoint") = 1
                          /\ Has(p, AllowedIPs)
      /\ \E p \in peers : Has(p, DefaultRoutes)
=============================================================================
