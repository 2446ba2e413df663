---------------------------- MODULE MCSupervisor ----------------------------
(* Model values for checking Supervisor with TLC. *)
EXTENDS Supervisor

CONSTANTS h1, h2

OneHandler == {h1}
TwoHandlers == {h1, h2}
==============================================================================
