------------------------------ MODULE MCVolume ------------------------------
(* Model values for checking Volume with TLC. *)
EXTENDS Volume

CONSTANTS container, shell

TwoProcs == {container, shell}
OneShell == {shell}
==============================================================================
