---------------------------- MODULE MCJsWorkers ----------------------------
(***************************************************************************)
(* A small instance of JsWorkers for TLC.                                  *)
(***************************************************************************)
EXTENDS JsWorkers

\* Two jobs of one tenant meet a worker kept for another.
KeptForAnother == [p \in Process |-> IF p = 0 THEN 1 ELSE 2]

=============================================================================
