---------------------------- MODULE MCDeliveries ----------------------------
(***************************************************************************)
(* Small instances of Deliveries for TLC.                                  *)
(***************************************************************************)
EXTENDS Deliveries, TLC

\* Two nodes whose part changes from one document to the other.
Swapping ==
    [d \in {"d1", "d2"} |->
        IF d = "d1" THEN [a |-> "webhook", b |-> "schedule"]
        ELSE [a |-> "event", b |-> "poll"]]

CallerSymmetry == Permutations(Caller)

=============================================================================
