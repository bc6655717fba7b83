------------------------------ MODULE Blocklist ------------------------------
(***************************************************************************)
(* blocklist.rs: how hosts files are read, strictly and leniently, how the *)
(* compiled set is made and how a host is looked up in it.  A name is the  *)
(* sequence of its labels, from the left; a label is one of a few          *)
(* spellings, upper and lower case, an ill-formed one, and the empty label *)
(* a stray or a trailing dot leaves.                                       *)
(***************************************************************************)
EXTENDS Naturals, Sequences, FiniteSets

\* Spelling of a label -> what to_ascii_lowercase makes of it.
LowerCase == [ads |-> "ads", Ads |-> "ads", net |-> "net", NET |-> "net"]
WellFormedLabels == {"ads", "net"}
EmptyLabel == ""
IllFormedLabel == "-ads"
Lower(label) == IF label \in DOMAIN LowerCase THEN LowerCase[label] ELSE label

\* A name that parses as an IP address.
AddressName == << "10", "0", "0", "1" >>

\* normalize_host: trailing dots go, letters are lowered.
NormalizeHost(name) ==
  LET kept == {i \in DOMAIN name : name[i] # EmptyLabel}
      last == IF kept = {} THEN 0 ELSE CHOOSE i \in kept : \A j \in kept : j <= i
  IN  [i \in 1 .. last |-> Lower(name[i])]

\* normalize_domain: the domains a candidate stands for, one or none.
NormalizeDomain(name) ==
  LET host == NormalizeHost(name)
  IN  {d \in {host} : /\ Len(d) >= 2
                      /\ d # AddressName
                      /\ \A i \in DOMAIN d : d[i] \in WellFormedLabels}

\* A hosts file is a set of lines: an optional leading address and the names
\* after it.  Order and repetition change nothing that is computed here, and
\* a comment or a blank line adds nothing.
Candidates(file) == UNION {line.names : line \in file}

\* validate_hosts_file
StrictlyValid(file) ==
  \A line \in file : /\ line.names # {}
                     /\ \A name \in line.names : NormalizeDomain(name) # {}

\* compile_hosts with parse_hosts_line: what does not normalize is dropped.
CompileHosts(file) == UNION {NormalizeDomain(name) : name \in Candidates(file)}

\* merge_hosts_with_base
MergeHostsWithBase(base, file) == base \cup CompileHosts(file)

\* A fault to compare with: parent domains only.
ContainsParent(set, name) ==
  LET host == NormalizeHost(name)
  IN  \E i \in 2 .. Len(host) : SubSeq(host, i, Len(host)) \in set

\* contains: the host, then each of its parent domains.
Contains(set, name) ==
  LET host == NormalizeHost(name)
  IN  \E i \in DOMAIN host : SubSeq(host, i, Len(host)) \in set

-----------------------------------------------------------------------------
\* The reference: host is domain itself or lies below it.
IsWithin(host, domain) ==
  \E k \in 0 .. Len(host) : /\ Len(domain) = Len(host) - k
                            /\ \A i \in DOMAIN domain : domain[i] = host[i + k]
=============================================================================
