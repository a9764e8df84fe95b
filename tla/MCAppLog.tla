----------------------------- MODULE MCAppLog -----------------------------
(***************************************************************************)
(* An instance of AppLog.                                                  *)
(***************************************************************************)
EXTENDS AppLog, TLC

CONSTANTS p1, p2, p3

MCProcs == {p1, p2, p3}
Symmetry == Permutations(MCProcs)
=============================================================================
