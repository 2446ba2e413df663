------------------------------ MODULE MCLinks -------------------------------
(* Environments for the runs of Links. *)
EXTENDS Links

CONSTANTS c1, c2

OneClient == {c1}
TwoClients == {c1, c2}
ClientSymmetry == Permutations(TwoClients)

Usual ==
  [production |-> TRUE, passwordLength |-> 12, malformed |-> FALSE, ports |-> <<>>,
   destination |-> <<>>, sni |-> "www", fallback |-> TRUE, override |-> <<>>,
   domain |-> "app", proxyHost |-> Unset, proxyPort |-> 0]

\* " /a//static/"
Override == [Usual EXCEPT !.override = <<Blank, Slash, 5, Slash, Slash, Static, Slash>>, !.proxyHost = "vpn"]
NoFallback == [Usual EXCEPT !.fallback = FALSE, !.sni = "cdn", !.destination = <<"www", 8443>>]
Spaced == [Usual EXCEPT !.override = <<5, Blank, 6>>, !.proxyHost = UrlAsHost, !.proxyPort = 1]
Clash == [Usual EXCEPT !.ports = [PORT |-> 2443]]
NoPassword == [Usual EXCEPT !.passwordLength = 0, !.override = <<5>>]

TwoEnvironments == {Usual, Clash}
AllEnvironments == {Usual, Override, NoFallback, Spaced, NoPassword}
=============================================================================
