------------------------------ MODULE HostNames ------------------------------
(***************************************************************************)
(* Hostnames as both services treat them: validateHostnames and            *)
(* validateDNSName of the control API, NormalizeHost and ValidHost of the  *)
(* gateway.                                                                *)
(*                                                                         *)
(* A text is a name and the ways in which it is not the plain name: its    *)
(* case, white space around it, a port after it.  kind says what the name  *)
(* is: a DNS name, a DNS name with a trailing dot, an address, or neither. *)
(***************************************************************************)
EXTENDS FiniteSets

Kinds == {"dns", "rooted", "address", "other"}

Text(names) ==
  [name : names, kind : Kinds, case : {"lower", "upper"},
   pad : {"no", "yes"}, port : {"no", "yes"}]

Plain(name) ==
  [name |-> name, kind |-> "dns", case |-> "lower", pad |-> "no", port |-> "no"]

Lower(t) == [t EXCEPT !.case = "lower"]

\* strings.TrimSpace(strings.ToLower(value)).
Trimmed(t) == [Lower(t) EXCEPT !.pad = "no"]

\* Trimmed, and without the port: net.SplitHostPort.
NormalizeHost(t) == [Trimmed(t) EXCEPT !.port = "no"]

\* validateDNSName: lower case letters, digits, hyphens and dots.
IsDNSName(t) == t = Plain(t.name)

\* ValidHost, of the gateway: addresses and a trailing dot pass.
ValidHost(t) == t.kind # "other"

\* validateHostnames: at least one, all DNS names once normalized, no two
\* of them the same.
HostnamesAccepted(ts) ==
  /\ ts # {}
  /\ \A t \in ts : IsDNSName(NormalizeHost(t))
  /\ Cardinality({NormalizeHost(t) : t \in ts}) = Cardinality(ts)
=============================================================================
