---------------------------- MODULE Idempotency ----------------------------
(***************************************************************************)
(* One row of idempotency_keys and the calls that meet on it: Service.Do   *)
(* and Service.ConsumeOnce, the sweeper and the tenant purge.              *)
(*                                                                         *)
(* No statement runs inside a transaction: each is one step, and the       *)
(* unique index (tenant, key) decides between two inserts. Calls on other  *)
(* keys never touch this row. A call keeps the clock reading it took when  *)
(* it began, however long its statements are delayed.                      *)
(***************************************************************************)
EXTENDS Naturals

CONSTANTS
    Request,    \* the calls; a call's claim token is the call itself
    Body,       \* what distinguishes one request from another (its hash)
    InFlight,   \* lease of a claim
    Retention,  \* how long a recorded outcome is remembered
    Until,      \* end of a one-time key's window
    Attempts,   \* idempotencyClaimAttempts
    MaxClock    \* bound: clock readings

ASSUME Durations ==
    /\ InFlight \in Nat \ {0} /\ Retention \in Nat \ {0}
    /\ Until \in Nat /\ Attempts \in Nat \ {0} /\ MaxClock \in Nat

VARIABLES
    use,      \* which service the key belongs to; ValidKey keeps them apart
    clock,
    rows,     \* the rows stored under the key
    req,      \* where each call is
    sweep,    \* where the sweeper is
    purged    \* the tenant has been purged

keyVars == <<use, clock, rows, req, sweep, purged>>

Claiming == {"clear", "insert", "read"}
Running == {"run", "complete", "release"}
\* "refused" stands for ErrKeyReused, InFlightError and a used one-time key,
\* "failed" for an error of fn or of the store.
Answer == {"none", "ran", "failed", "replayed", "admitted", "refused"}

\* Outcomes are identified with the call that produced them.
Row == [token : Request, body : Body, state : {"in_progress", "completed"},
        expires : Nat]
KeyCall == [pc : {"idle", "done"} \cup Claiming \cup Running, attempt : 1 .. Attempts,
         body : Body, now : Nat, until : Nat, answer : Answer]

NoSweep == [cutoff |-> 0, ids |-> {}]

KeyTypeOK ==
    /\ use \in {"request", "oneTime"}
    /\ clock \in Nat
    /\ rows \subseteq Row
    /\ req \in [Request -> KeyCall]
    /\ sweep \in [cutoff : Nat, ids : SUBSET Request]
    /\ purged \in BOOLEAN

KeyInit ==
    /\ use \in {"request", "oneTime"}
    /\ clock = 0
    /\ rows = {}
    /\ req \in [Request -> {[pc |-> "idle", attempt |-> 1, body |-> b, now |-> 0,
                             until |-> 0, answer |-> "none"] : b \in Body}]
    /\ sweep = NoSweep
    /\ purged = FALSE

Tick ==
    /\ clock < MaxClock
    /\ clock' = clock + 1
    /\ UNCHANGED <<use, rows, req, sweep, purged>>

\* The call returns to its caller and forgets its clock readings.
Answered(r, answer) ==
    req' = [req EXCEPT ![r] = [pc |-> "done", attempt |-> 1, body |-> @.body,
                               now |-> 0, until |-> 0, answer |-> answer]]

-----------------------------------------------------------------------------
(* Starting a call. A purged tenant's keys are locked out first. *)

Do(r) ==
    /\ use = "request" /\ req[r].pc = "idle" /\ ~purged
    /\ req' = [req EXCEPT ![r].pc = "clear", ![r].now = clock,
                          ![r].until = clock + InFlight]
    /\ UNCHANGED <<use, clock, rows, sweep, purged>>

\* Mutant: a key whose window has ended is claimed all the same.
ConsumeOnceAlways(r) ==
    /\ use = "oneTime" /\ req[r].pc = "idle" /\ ~purged
    /\ req' = [req EXCEPT ![r].pc = "clear", ![r].now = clock, ![r].until = Until]
    /\ UNCHANGED <<use, clock, rows, sweep, purged>>

\* until.After(now) is checked before anything is written. The key names its
\* window (a Connect state and its expiry), so every call has the same until.
ConsumeOnce(r) ==
    /\ use = "oneTime" /\ req[r].pc = "idle" /\ ~purged
    /\ IF Until > clock
       THEN req' = [req EXCEPT ![r].pc = "clear", ![r].now = clock,
                               ![r].until = Until]
       ELSE Answered(r, "refused")
    /\ UNCHANGED <<use, clock, rows, sweep, purged>>

-----------------------------------------------------------------------------
(* Claim: delete, insert, read, up to Attempts times. *)

Clear(r) ==
    /\ req[r].pc = "clear"
    /\ rows' = {x \in rows : ~(x.expires <= req[r].now)}
    /\ req' = [req EXCEPT ![r].pc = "insert"]
    /\ UNCHANGED <<use, clock, sweep, purged>>

\* Mutant: a conflicting insert overwrites the row.
InsertUpserts(r) ==
    /\ req[r].pc = "insert"
    /\ rows' = {[token |-> r, body |-> req[r].body, state |-> "in_progress",
                 expires |-> req[r].until]}
    /\ req' = [req EXCEPT ![r].pc = "read"]
    /\ UNCHANGED <<use, clock, sweep, purged>>

\* On conflict do nothing.
Insert(r) ==
    /\ req[r].pc = "insert"
    /\ rows' = IF rows # {} THEN rows
               ELSE {[token |-> r, body |-> req[r].body, state |-> "in_progress",
                      expires |-> req[r].until]}
    /\ req' = [req EXCEPT ![r].pc = "read"]
    /\ UNCHANGED <<use, clock, sweep, purged>>

\* What a call that did not get the key answers: a replay of the recorded
\* outcome to the same request, a refusal to anything else.
Held(r, x) ==
    IF use = "request" /\ x.body = req[r].body /\ x.state = "completed"
    THEN "replayed" ELSE "refused"

\* The row is read back: gone (go round again, or give up), the call's own, or
\* somebody else's.
Read(r) ==
    /\ req[r].pc = "read"
    /\ \/ /\ rows = {} /\ req[r].attempt < Attempts
          /\ req' = [req EXCEPT ![r].pc = "clear", ![r].attempt = @ + 1]
       \/ /\ rows = {} /\ req[r].attempt >= Attempts
          /\ Answered(r, "failed")
       \/ \E x \in rows :
             /\ x.token = r
             /\ IF use = "oneTime" THEN Answered(r, "admitted")
                                   ELSE req' = [req EXCEPT ![r].pc = "run"]
       \/ \E x \in rows : x.token # r /\ Answered(r, Held(r, x))
    /\ UNCHANGED <<use, clock, rows, sweep, purged>>

-----------------------------------------------------------------------------
(* The work, and recording or releasing. *)

\* fn returns: a 2xx outcome that fits the cap is recorded; an error, a panic,
\* a refusal or an oversized outcome gives the claim back.
RunFn(r) ==
    /\ req[r].pc = "run"
    /\ \E next \in {"complete", "release"} : req' = [req EXCEPT ![r].pc = next]
    /\ UNCHANGED <<use, clock, rows, sweep, purged>>

\* The update and the delete that settle a claim match the call's own row
\* while it is in progress.
Mine(r, x) == x.token = r /\ x.state = "in_progress"
Recorded(x) == [token |-> x.token, body |-> x.body, state |-> "completed",
                expires |-> clock + Retention]

\* Mutant: any row under the key is completed.
CompleteAnyRow(r) ==
    /\ req[r].pc = "complete"
    /\ rows' = {Recorded(x) : x \in rows}
    /\ Answered(r, "ran")
    /\ UNCHANGED <<use, clock, sweep, purged>>

\* The caller is answered normally also when the row was lost or the update
\* failed.
Complete(r) ==
    /\ req[r].pc = "complete"
    /\ \/ rows' = {IF Mine(r, x) THEN Recorded(x) ELSE x : x \in rows}
       \/ UNCHANGED rows
    /\ Answered(r, "ran")
    /\ UNCHANGED <<use, clock, sweep, purged>>

\* A failed delete is only logged.
Release(r) ==
    /\ req[r].pc = "release"
    /\ rows' = {x \in rows : ~Mine(r, x)} \/ UNCHANGED rows
    /\ Answered(r, "failed")
    /\ UNCHANGED <<use, clock, sweep, purged>>

\* A statement of the claim fails, or the process serving the call dies: what
\* the call inserted stays for its lease.
Abandon(r) ==
    /\ req[r].pc \in Claiming \cup Running
    /\ Answered(r, "failed")
    /\ UNCHANGED <<use, clock, rows, sweep, purged>>

-----------------------------------------------------------------------------
(* The sweeper and the purge. *)

\* The sweep takes its cutoff and reads the ids of expired rows.
SweepRead ==
    /\ sweep.ids = {}
    /\ \E x \in rows :
          /\ x.expires < clock
          /\ sweep' = [cutoff |-> clock, ids |-> {x.token}]
    /\ UNCHANGED <<use, clock, rows, req, purged>>

\* Mutant: the age predicate is not repeated.
SweepDeleteById ==
    /\ sweep.ids # {}
    /\ rows' = {x \in rows : x.token \notin sweep.ids}
    /\ sweep' = NoSweep
    /\ UNCHANGED <<use, clock, req, purged>>

\* It deletes exactly those, repeating the age predicate.
SweepDelete ==
    /\ sweep.ids # {}
    /\ rows' = {x \in rows : ~(x.token \in sweep.ids /\ x.expires < sweep.cutoff)}
    /\ sweep' = NoSweep
    /\ UNCHANGED <<use, clock, req, purged>>

PurgeTenant ==
    /\ ~purged
    /\ rows' = {} /\ purged' = TRUE
    /\ UNCHANGED <<use, clock, req, sweep>>

-----------------------------------------------------------------------------
Step(r) ==
    \/ Do(r) \/ ConsumeOnce(r)
    \/ Clear(r) \/ Insert(r) \/ Read(r)
    \/ RunFn(r) \/ Complete(r) \/ Release(r) \/ Abandon(r)

KeyNext ==
    \/ \E r \in Request : Step(r)
    \/ SweepRead \/ SweepDelete \/ PurgeTenant \/ Tick

KeySpec == KeyInit /\ [][KeyNext]_keyVars

-----------------------------------------------------------------------------
(* What the claim's guards keep. *)

\* A row knows its call: in progress it expires with the lease of a call that
\* is still under way, and only a call that ran leaves a completed one.
RowsAreClaims ==
    /\ \A x, y \in rows : x = y
    /\ \A x \in rows :
          /\ x.body = req[x.token].body /\ req[x.token].pc # "idle"
          /\ x.state = "in_progress" /\ req[x.token].pc # "done" =>
                x.expires = req[x.token].until
          /\ x.state = "completed" =>
                req[x.token].pc = "done" /\ req[x.token].answer = "ran"

\* Nobody's clock reading is ahead of the clock.
ReadingsArePast ==
    /\ \A r \in Request : req[r].now <= clock
    /\ sweep.cutoff <= clock

\* A call that works under an unexpired lease owns the row.
LeaseHeld ==
    \A r \in Request :
        req[r].pc \in Running /\ clock < req[r].until /\ ~purged =>
            \E x \in rows : x.token = r /\ x.state = "in_progress"

\* A one-time key's row expires with its window, nobody reads a clock past
\* it, and while it lasts the admitted call's row is there.
WindowKept ==
    use = "oneTime" =>
        /\ \A x \in rows : x.expires = Until /\ x.state = "in_progress"
        /\ \A r \in Request :
              /\ req[r].pc \in Claiming => req[r].now < Until /\ req[r].until = Until
              /\ req[r].pc \notin Running
              /\ req[r].answer = "admitted" /\ clock <= Until /\ ~purged =>
                    \E x \in rows : x.token = r

\* Only a call that has ended has an answer, and only ConsumeOnce admits.
AnswersEnd ==
    \A r \in Request :
        /\ req[r].answer # "none" => req[r].pc = "done"
        /\ req[r].answer = "admitted" => use = "oneTime"

-----------------------------------------------------------------------------
(* Properties. *)

\* However claims, releases, sweeps and delayed statements interleave, two
\* calls do the work at the same time only after a lease has run out.
OneRunPerLease ==
    \A r, s \in Request :
        /\ r # s /\ ~purged
        /\ req[r].pc \in Running /\ req[s].pc \in Running
        => clock >= req[r].until \/ clock >= req[s].until

\* A recorded outcome answers retries until its retention ends: no late
\* claim, release, completion or sweep takes it away or replaces it.
RememberedForRetention ==
    [][\A x \in rows : x.state = "completed" /\ clock < x.expires =>
          x \in rows' \/ purged']_keyVars

\* A replay is always the outcome of the same request, and of one that ran.
ReplayIsOfSameRequest ==
    \A r \in Request : req[r].answer = "replayed" =>
        \E s \in Request : req[s].answer = "ran" /\ req[s].body = req[r].body

\* While its window lasts a one-time key admits one call.
AdmittedOnceInWindow ==
    clock <= Until /\ ~purged =>
        \A r, s \in Request :
            req[r].answer = "admitted" /\ req[s].answer = "admitted" => r = s

=============================================================================
