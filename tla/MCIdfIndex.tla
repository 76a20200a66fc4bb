----------------------------- MODULE MCIdfIndex -----------------------------
(* Small instances of IdfIndex for TLC. *)
EXTENDS IdfIndex
=============================================================================
