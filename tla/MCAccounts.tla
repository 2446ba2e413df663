----------------------------- MODULE MCAccounts -----------------------------
(* Model values for checking Accounts with TLC. *)
EXTENDS Accounts

CONSTANTS s1, s2, bob, Bob

TwoSessions == {s1, s2}
\* bob and Bob differ in case only: the look-up takes them for one.
TwoNames == {bob, Bob}
LowerCase == [name \in TwoNames |-> bob]
==============================================================================
