---------------------------- MODULE MCResolveLink ----------------------------
(***************************************************************************)
(* ResolveLink with the two lists and one of the settings that are not     *)
(* read back (default_route, llmnr, mdns, dnssec and dnsovertls are put    *)
(* alike).                                                                 *)
(***************************************************************************)
EXTENDS ResolveLink

CONSTANTS dns, domains, llmnr, v1, v2

MCOrder == <<dns, domains, llmnr>>

Desired(d, m, l) == [s \in Settings |-> IF s = dns THEN d ELSE IF s = domains THEN m ELSE l]

\* Every setting is set, left out, changed and emptied by some pair of these.
MCWanted == {Desired(v1, Unset, v1), Desired(v2, v1, Unset), Desired(v1, v2, v2),
             Desired(Empty, v1, Empty), Desired(Unset, Empty, v1)}
=============================================================================
