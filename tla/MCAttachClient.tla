-------------------------- MODULE MCAttachClient --------------------------
(***************************************************************************)
(* Instances of AttachClient; their bounds are in the .cfg files.          *)
(***************************************************************************)
EXTENDS AttachClient
=============================================================================
