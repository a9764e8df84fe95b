------------------------- MODULE MCScrollbackReplay -------------------------
(* ScrollbackReplay with a ring of four cells for TLC. *)
EXTENDS ScrollbackReplay

MCMaxOut == 11
MCByte == 0 .. MCMaxOut
=============================================================================
