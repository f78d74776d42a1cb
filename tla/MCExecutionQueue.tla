-------------------------- MODULE MCExecutionQueue --------------------------
(***************************************************************************)
(* Small instances of ExecutionQueue for TLC.                              *)
(***************************************************************************)
EXTENDS ExecutionQueue, TLC

\* Workers and calls are interchangeable goroutines.
ProcessSymmetry == Permutations(Worker) \cup Permutations(Caller)

\* One fault already puts two workers on one row; the second, on the simpler
\* database, spends the last reclaim.
Faults == [sqlite |-> 2, postgres |-> 1]

=============================================================================
