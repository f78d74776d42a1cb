------------------------ MODULE ExecutionLifecycle ------------------------
(***************************************************************************)
(* What the execution queue promises a caller who cannot see leases,       *)
(* workers or tables: an execution is admitted once, is handed out, may be *)
(* parked and woken, is retried a bounded number of times after a crash,   *)
(* starts its graph at most once per hand-out, and once it is over it      *)
(* stays over.                                                             *)
(***************************************************************************)
EXTENDS Naturals

CONSTANTS
    Exec,       \* execution ids
    MaxRetries  \* how often work that was lost is handed out again

VARIABLES
    phase,    \* where the execution is
    parks,    \* how often it was suspended
    retries,  \* how often it was handed out again after a crash
    starts    \* how often its graph was started

vars == <<phase, parks, retries, starts>>

Init ==
    /\ phase = [e \in Exec |-> "absent"]
    /\ parks = [e \in Exec |-> 0]
    /\ retries = [e \in Exec |-> 0]
    /\ starts = [e \in Exec |-> 0]

Moves(e, from, to) ==
    /\ phase[e] \in from
    /\ phase' = [phase EXCEPT ![e] = to]

Admit(e) == Moves(e, {"absent"}, "queued") /\ UNCHANGED <<parks, retries, starts>>

HandOut(e) == Moves(e, {"queued"}, "held") /\ UNCHANGED <<parks, retries, starts>>

Retry(e) ==
    /\ Moves(e, {"held"}, "held")
    /\ retries[e] < MaxRetries
    /\ retries' = [retries EXCEPT ![e] = @ + 1]
    /\ UNCHANGED <<parks, starts>>

\* One start per hand-out: the first, one per wake-up and one per retry.
Start(e) ==
    /\ phase[e] # "absent"
    /\ starts[e] < 1 + parks[e] + retries[e]
    /\ starts' = [starts EXCEPT ![e] = @ + 1]
    /\ UNCHANGED <<phase, parks, retries>>

Park(e) ==
    /\ Moves(e, {"held"}, "waiting")
    /\ parks' = [parks EXCEPT ![e] = @ + 1]
    /\ UNCHANGED <<retries, starts>>

Wake(e) == Moves(e, {"waiting"}, "queued") /\ UNCHANGED <<parks, retries, starts>>

\* The executions that end in one step: one, or several crashed ones that a
\* claim settles on its way to the next (which it may hand out or retry).
End(over) ==
    /\ over # {}
    /\ \A e \in over : phase[e] \in {"queued", "held", "waiting"}

EndAll(over) ==
    /\ End(over)
    /\ phase' = [e \in Exec |-> IF e \in over THEN "over" ELSE phase[e]]
    /\ UNCHANGED <<parks, retries, starts>>

EndAndHandOut(over, next) ==
    /\ End(over)
    /\ next \notin over
    /\ phase[next] \in {"queued", "held"}
    /\ phase' = [e \in Exec |-> IF e \in over THEN "over"
                                ELSE IF e = next THEN "held" ELSE phase[e]]
    /\ \/ UNCHANGED retries
       \/ /\ phase[next] = "held" /\ retries[next] < MaxRetries
          /\ retries' = [retries EXCEPT ![next] = @ + 1]
    /\ UNCHANGED <<parks, starts>>

Next ==
    \/ \E e \in Exec : \/ Admit(e) \/ HandOut(e) \/ Retry(e) \/ Start(e)
                       \/ Park(e) \/ Wake(e)
    \/ \E over \in SUBSET Exec :
          EndAll(over) \/ \E next \in Exec : EndAndHandOut(over, next)

Spec == Init /\ [][Next]_vars

=============================================================================
