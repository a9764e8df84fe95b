--------------------------- MODULE MCSessionLog ---------------------------
(***************************************************************************)
(* An instance of SessionLog: lines of two bytes, of one, and an empty one *)
(***************************************************************************)
EXTENDS SessionLog

MCNewlines == {2, 3, 5, 6}
=============================================================================
