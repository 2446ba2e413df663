------------------------------- MODULE MCPanel -------------------------------
(* Model values for checking Panel with TLC. *)
EXTENDS Panel, TLC

CONSTANTS w1, w2, c1, c2, t1, t2

Threads == {w1, w2}
Clients == {c1, c2}
Tokens == {t1, t2}
Alike == Permutations(Threads) \union Permutations(Clients) \union Permutations(Tokens)
==============================================================================
