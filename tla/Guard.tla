-------------------------------- MODULE Guard --------------------------------
(***************************************************************************)
(* The check of a URL's host (internal/netguard/guard.go).  A host is the  *)
(* sequence of its labels, a URL a record [scheme, host].  A guard is      *)
(*   [entries, blockPrivate]                                               *)
(* with the entries of an allowlist, [wild, name], in the order given.     *)
(* Ports, letter case and the forms of an IP address are left out: an      *)
(* address used as a host is a host that resolves to itself.               *)
(***************************************************************************)
EXTENDS SequencesExt

CONSTANT AddressesOf    \* from hosts to what they resolve to, "public" or
                        \* "private" each; {} if that fails

HTTPSchemes == {"http", "https"}

\* Blank entries count for nothing.
normalizeAllowlist(entries) ==
    LET named == {entries[i] : i \in {k \in DOMAIN entries : entries[k].name # <<>>}}
    IN [exact  |-> {e.name : e \in {n \in named : ~ n.wild}},
        suffix |-> {e.name : e \in {n \in named : n.wild}}]

isAllowed(guard, host) ==
    LET list == normalizeAllowlist(guard.entries) IN
    \/ list.exact = {} /\ list.suffix = {}
    \/ host \in list.exact
    \/ \E suffix \in list.suffix : IsSuffix(suffix, host)

ValidateHost(guard, host) ==
    /\ host # <<>>
    /\ isAllowed(guard, host)
    /\ guard.blockPrivate => AddressesOf[host] = {"public"}

ValidateURL(guard, url) == url.scheme \in HTTPSchemes /\ ValidateHost(guard, url.host)
=============================================================================
