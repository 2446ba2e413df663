---------------------------- MODULE Credentials -----------------------------
(***************************************************************************)
(* app/railway_info.py, app/credentials.py and app/credential_generator.py *)
(* as functions: from settings, Railway's variables, the keys and the path *)
(* to the links of an account.                                             *)
(*                                                                         *)
(* A link is a set with at most one element: empty when the code answers   *)
(* with a reason instead. Links as URI and as JSON have the same contents. *)
(* The account's own part of them is left out: Accounts models it.         *)
(***************************************************************************)
EXTENDS Configuration

\* A value of PUBLIC_PROXY_HOST that is not a host name.
UrlAsHost == "https://host"

\* What the platform tells a container. Its proxy is a host of Railway's and a port;
\* a proxy that is deleted and added again has another port.
RailwayInfo(domain, proxy) ==
  [domain |-> domain,
   proxyHost |-> IF proxy = 0 THEN Unset ELSE "railway", proxyPort |-> proxy]

\* Host and port are overridden one by one.
PublicEndpoint(s, r) ==
  [host |-> IF s.proxyHost # Unset THEN s.proxyHost ELSE r.proxyHost,
   port |-> IF s.proxyPort # 0 THEN s.proxyPort ELSE r.proxyPort]

\* Mutant: a missing port is not missed.
ReachableByHost(end) == end.host \notin {Unset, UrlAsHost}

Reachable(end) == end.host \notin {Unset, UrlAsHost} /\ end.port \in PortRange

\* Mutant: the switch is forgotten.
FallbackAlways(s, r) == r.domain # Unset

FallbackAvailable(s, r) == s.fallback /\ r.domain # Unset

\* The path as the link carries it; one with white space inside is refused.
LinkPath(path) ==
  LET trimmed == Trim(path)
  IN IF trimmed # NoPath /\ trimmed[1] = Slash THEN trimmed ELSE <<Slash>> \o trimmed

PathRefused(path) == path = NoPath \/ Contains(LinkPath(path), Blank)

RealityLink(s, r, keys) ==
  LET end == PublicEndpoint(s, r)
  IN IF keys = 0 \/ ~Reachable(end) THEN {}
     ELSE {[kind |-> "reality", keys |-> keys, sni |-> s.sni, host |-> end.host, port |-> end.port]}

WebSocketLink(s, r, path) ==
  IF ~FallbackAvailable(s, r) \/ PathRefused(path) THEN {}
  ELSE {[kind |-> "ws", path |-> LinkPath(path), host |-> r.domain]}
=============================================================================
