---------------------------- MODULE MCSeenCache ----------------------------
(* Small instances of SeenCache for TLC. *)
EXTENDS SeenCache
=============================================================================
