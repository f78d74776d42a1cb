----------------------------- MODULE MCEventFeed -----------------------------
(* Finite instance of EventFeed for TLC. *)
EXTENDS EventFeed
=============================================================================
