--------------------------- MODULE Configuration ----------------------------
(***************************************************************************)
(* app/config.py: what load_settings makes of the environment variables,   *)
(* and when it refuses to (ConfigError), in which case the container does  *)
(* not start.                                                              *)
(*                                                                         *)
(* An environment is a record with a field per variable that matters here. *)
(* A path is a sequence of characters, which are numbers.                  *)
(* Unset and 0 stand for a variable that is not set.                       *)
(***************************************************************************)
EXTENDS Integers, SequencesExt, TLC

Slash == 0
Blank == 1
Query == 2        \* '?' or '#'
Static == 3       \* the word "static"
Escape == 20..39  \* a percent sign and two digits, for the character Unescaped
Unescaped(c) == c - 20

NoPath == <<>>
Unset == "unset"

\* The ports a service listens on unless a variable says otherwise.
DefaultPort ==
  [PORT |-> 8080, XRAY_PORT |-> 2443, XRAY_WS_BACKEND_PORT |-> 2444, XRAY_API_PORT |-> 10085]

Service == DOMAIN DefaultPort
PortRange == 1..65535

\* str.strip().
Trim(s) ==
  LET solid == {i \in DOMAIN s : s[i] # Blank}
  IN IF solid = {} THEN NoPath ELSE SubSeq(s, Min(solid), Max(solid))

\* WS_FALLBACK_PATH with one leading slash, no slash doubled and none at the end.
NormalisePath(raw) ==
  LET given == Trim(raw)
      done[n \in 0..Len(given)] ==
        IF n = 0 THEN <<Slash>>
        ELSE IF given[n] = Slash /\ Last(done[n - 1]) = Slash THEN done[n - 1]
        ELSE Append(done[n - 1], given[n])
      path == done[Len(given)]
  IN IF given = NoPath THEN NoPath
     ELSE IF Len(path) > 1 /\ Last(path) = Slash THEN Front(path) ELSE path

\* A missing password is invented in development only; a short one is refused everywhere.
PasswordRefused(e) == e.passwordLength < 8 /\ (e.passwordLength > 0 \/ e.production)

Ports(e) == e.ports @@ DefaultPort

PortsClash(e) == \E a, b \in Service : a # b /\ Ports(e)[a] = Ports(e)[b]

\* REALITY_DESTINATION is <<>>, <<host>> or <<host, port>>.
Destination(e) ==
  IF e.destination = <<>> THEN <<e.sni, 443>>
  ELSE <<e.destination[1], IF Len(e.destination) = 1 THEN 443 ELSE e.destination[2]>>

\* `malformed` says that some number, boolean or keyword is not one that is accepted.
Refused(e) ==
  \/ e.malformed
  \/ PasswordRefused(e)
  \/ Destination(e)[1] = Unset \/ Destination(e)[2] \notin PortRange
  \/ \E s \in Service : Ports(e)[s] \notin PortRange
  \/ PortsClash(e)

\* What the links and the gateway use of Settings.
Settings(e) ==
  [sni |-> e.sni, fallback |-> e.fallback, override |-> NormalisePath(e.override),
   proxyHost |-> e.proxyHost, proxyPort |-> e.proxyPort]
=============================================================================
