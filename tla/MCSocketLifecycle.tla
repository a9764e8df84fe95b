-------------------------- MODULE MCSocketLifecycle --------------------------
(* SocketLifecycle with few processes and incarnations for TLC. *)
EXTENDS SocketLifecycle, TLC

CONSTANTS p1, p2, d1, d2, d3

OneProc == {p1}
TwoProcs == {p1, p2}
ThreeDaemons == {d1, d2, d3}
Symmetry == Permutations(Procs) \union Permutations(Daemons)
=============================================================================
