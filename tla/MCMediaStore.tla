---------------------------- MODULE MCMediaStore ----------------------------
(* Model constants of MediaStore. *)
EXTENDS MediaStore

CONSTANTS p1, p2, p3
=============================================================================
