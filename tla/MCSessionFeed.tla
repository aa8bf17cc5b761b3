---------------------------- MODULE MCSessionFeed ----------------------------
(* Instances of SessionFeed for TLC. *)
EXTENDS SessionFeed
=============================================================================
