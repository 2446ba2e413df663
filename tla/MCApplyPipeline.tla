--------------------------- MODULE MCApplyPipeline ---------------------------
(* Model values and symmetry for checking ApplyPipeline with TLC. *)
EXTENDS ApplyPipeline, TLC

CONSTANTS p1, p2, u1, u2

OneProc == {p1}
TwoProcs == {p1, p2}
OneUser == {u1}
TwoUsers == {u1, u2}

\* Every process runs the same code and every account is treated alike.  Used
\* only in runs without liveness properties.
ProcAndUserSymmetry == Permutations(Proc) \union Permutations(User)
==============================================================================
