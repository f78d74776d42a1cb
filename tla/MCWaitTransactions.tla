------------------------- MODULE MCWaitTransactions -------------------------
(***************************************************************************)
(* Small instances of WaitTransactions for TLC.                            *)
(***************************************************************************)
EXTENDS WaitTransactions, TLC

\* Calls are interchangeable goroutines.
CallSymmetry == Permutations(Call)

=============================================================================
