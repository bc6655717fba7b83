----------------------------- MODULE MCInstaller -----------------------------
(* A small instance of Installer: machines, secrets and documents to try.   *)
EXTENDS Installer

MCReleaseToml == [url |-> "home", burn |-> 1800, mode |-> "direct", endpoint |-> "default"]
OldToml == [url |-> "web", burn |-> 0, mode |-> "proxy", endpoint |-> "old"]

Proxy(endpoint) == [scheme |-> "socks5h", literal |-> TRUE, suffix |-> FALSE,
                    credentials |-> TRUE, endpoint |-> endpoint]
\* A file with two peers and those that differ from it by one line.
Tunnel == << "[Interface]", "PrivateKey", "Address", "Table off", "[Peer]", "PublicKey",
             "AllowedIPs ::/0", "Endpoint", "[Peer]", "PublicKey", "Endpoint",
             "AllowedIPs other", "PresharedKey" >>
Without(text, i) == SubSeq(text, 1, i - 1) \o SubSeq(text, i + 1, Len(text))
With(text, i, line) == SubSeq(text, 1, i) \o << line >> \o SubSeq(text, i + 1, Len(text))
MCWireGuardFiles ==
  {Tunnel} \cup {Without(Tunnel, i) : i \in DOMAIN Tunnel}
  \cup {With(Tunnel, i, line) : i \in 0 .. Len(Tunnel), line \in Lines}
  \cup {With(Without(Tunnel, i), i - 1, line) : i \in DOMAIN Tunnel, line \in Lines}

Line(names) == [names |-> names]
MCRepositories ==
  {[config |-> {}, hosts |-> {}],
   [config |-> {[url |-> {"web"}, burn |-> {}]},
    hosts |-> {{Line({<< "Ads", "net", "" >>})}}],
   [config |-> {[url |-> {}, burn |-> {59}]}, hosts |-> {}],
   [config |-> {},
    hosts |-> {{Line({<< "ads", "ads", "net" >>, << "10", "0", "0", "1" >>})}}]}
MCBaseDomains == {<< "ads", "ads" >>}

OldFiles(proxy) ==
  [program |-> {"old"}, web |-> {"old"}, data |-> {MCBaseDomains},
   etc |-> [toml |-> {OldToml}, wg |-> {"unchecked"}, proxy |-> proxy,
            hosts |-> {{Line({<< "net", "NET" >>, << "-ads", "net" >>})}}]]

MCOldMachine ==
  {[disk |-> Bare, enabled |-> {}, active |-> {}],
   [disk |-> OldFiles({Proxy("old")}), enabled |-> Services, active |-> Services],
   [disk |-> OldFiles({}), enabled |-> {"netd"}, active |-> {"netd"}],
   [disk |-> OldFiles({}), enabled |-> Services, active |-> {}]}

Install == [uninstall |-> FALSE, repair |-> FALSE, network |-> "direct",
            wg |-> {}, proxy |-> {}]
MCCommandLines ==
  {Install,
   [Install EXCEPT !.uninstall = TRUE],
   [Install EXCEPT !.repair = TRUE],
   [Install EXCEPT !.network = "wireguard", !.wg = {"given"}],
   [Install EXCEPT !.network = "wireguard", !.repair = TRUE],
   [Install EXCEPT !.network = "proxy", !.proxy = {Proxy("given")}],
   [Install EXCEPT !.network = "proxy", !.proxy = {Proxy("given")}, !.repair = TRUE],
   [Install EXCEPT !.network = "proxy", !.repair = TRUE],
   [Install EXCEPT !.proxy = {[Proxy("given") EXCEPT !.literal = FALSE]}]}
=============================================================================
