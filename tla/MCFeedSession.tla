--------------------------- MODULE MCFeedSession ---------------------------
(* Small instances of FeedSession for TLC. *)
EXTENDS FeedSession
=============================================================================
