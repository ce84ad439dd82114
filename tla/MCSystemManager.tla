--------------------------- MODULE MCSystemManager ---------------------------
(* Small instances of SystemManager for TLC. *)
EXTENDS SystemManager
=============================================================================
