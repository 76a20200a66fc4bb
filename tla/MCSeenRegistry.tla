--------------------------- MODULE MCSeenRegistry ---------------------------
(* Model constants of SeenRegistry: every post carries every tag. *)
EXTENDS SeenRegistry

MCTagsOf == [p \in Posts |-> Tags]
=============================================================================
