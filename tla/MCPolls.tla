------------------------------ MODULE MCPolls ------------------------------
(* A small instance of Polls. *)
EXTENDS Polls

=============================================================================
