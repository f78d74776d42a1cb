--------------------------- MODULE ExecutionQueue ---------------------------
(***************************************************************************)
(* The durable execution queue: the executions, execution_waits and        *)
(* node_runs tables of internal/repository and the workers of              *)
(* internal/engine that claim, run, suspend and settle executions.         *)
(*                                                                         *)
(* On SQLite the pool has one connection, so a repository transaction is   *)
(* one step. On PostgreSQL, at READ COMMITTED, the SELECT a transaction    *)
(* begins with takes no lock: others commit between what it read and what  *)
(* it writes, and its updates evaluate their WHERE again. The transactions *)
(* that decide by such a read have a second form in two steps, for         *)
(* PostgreSQL only; WaitTransactions takes the waits apart further.        *)
(* Statements the code issues outside one transaction are separate steps   *)
(* on both: the claim and the resume-state load, the trace write and the   *)
(* terminal write, and the read and the write of Cancel.                   *)
(*                                                                         *)
(* Time is abstracted to what the guards read: a lease is live or expired, *)
(* a wait's deadline has passed or has not.                                *)
(***************************************************************************)
EXTENDS Naturals, Sequences, FiniteSets

CONSTANTS
    Exec,        \* execution ids, numbered in (started_at, id) order
    Worker,      \* worker goroutines, of any number of processes
    Caller,      \* concurrent API requests and sweeps
    Steps,       \* nodes one run segment executes
    MaxReclaims, \* MaxExecutionReclaims
    ScanLimit,   \* claimScanLimit
    MaxWaits,    \* bound: suspensions of one execution
    MaxFaults    \* bound, per database: crashes, failed writes and stalled
                 \* heartbeats

ASSUME ExecAssumption == Exec \subseteq Nat \ {0}
ASSUME BoundAssumption ==
    /\ Steps \in Nat \ {0}
    /\ MaxReclaims \in Nat
    /\ ScanLimit \in Nat \ {0}
    /\ MaxWaits \in Nat
    /\ MaxFaults \in [{"sqlite", "postgres"} -> Nat]

VARIABLES
    backend,    \* the database: "sqlite" or "postgres"
    status,     \* executions.status, "absent" before the row exists
    owner,      \* executions.lease_owner, 0 when empty
    lease,      \* executions.lease_expires_at against the clock
    reclaims,   \* executions.reclaim_count
    waits,      \* execution_waits rows of one execution, in id order
    trace,      \* node_runs rows of one execution
    worker,     \* what each worker goroutine holds in memory
    caller,     \* what each call between its read and its write has read
    nextLease,  \* source of fresh lease identifiers
    faults,     \* faults that have happened
    runs,       \* history: how often the graph of an execution was started
    parks,      \* history: how often an execution was made to wait
    settler     \* history: the lease and segment that wrote the last outcome

rowVars == <<status, owner, lease, reclaims>>
vars == <<backend, status, owner, lease, reclaims, waits, trace, worker, caller,
          nextLease, faults, runs, parks, settler>>

Terminal == {"succeeded", "failed", "cancelled"}
Backend == {"sqlite", "postgres"}
Status == {"absent", "queued", "running", "waiting", "cancelling"} \cup Terminal
Outcome == {"succeeded", "failed", "cancelled", "timer", "call"}
Phase == {"idle", "claimed", "recovering", "running", "suspending", "parking",
          "inserting", "flushing", "settling", "finishing"}
\* The phases of a run whose graph was started.
Ahead == {"running", "suspending", "parking", "inserting", "flushing", "settling",
          "finishing"}
\* What a call between its read and its write is about to do.
Intent == {"cancel", "resume", "requeue", "expire"}

\* One row of execution_waits; "open" is consumed_at IS NULL.
Wait == [mode : {"timer", "call"},
         due : BOOLEAN,
         outcome : {"open", "resumed", "expired", "cancelled"}]

\* One row of node_runs: the run segment and the node it belongs to, and the
\* lease that wrote it. Step 0 is the row a cancelled wait leaves.
TraceRow == [seg : Nat, step : Nat, by : Nat]

\* A worker between claims holds nothing.
IdleWorker == [pc |-> "idle", exec |-> 0, lease |-> 0, seg |-> 0, step |-> 0,
               draft |-> {}, out |-> "failed", ctx |-> FALSE]

\* "draft" is the rows a trace transaction that read the fence will insert.
WorkerState == [pc : Phase, exec : Exec \cup {0}, lease : Nat, seg : Nat,
                step : Nat, draft : SUBSET TraceRow, out : Outcome, ctx : BOOLEAN]

FreeCaller == [exec |-> 0, wait |-> 0, does |-> "cancel", seen |-> "absent"]
CallerState == [exec : Exec \cup {0}, wait : Nat, does : Intent, seen : Status]

\* What a worker's memory holds in each phase of a run.
PhaseOK(s) ==
    /\ s.pc # "idle" => s.exec \in Exec
    /\ s.pc \in {"suspending", "parking", "inserting"} => s.out \in {"timer", "call"}
    /\ s.pc \in {"flushing", "settling", "finishing"} => s.out \in Terminal

ColumnsTyped ==
    /\ status \in [Exec -> Status]
    /\ owner \in [Exec -> Nat]
    /\ lease \in [Exec -> {"none", "live", "expired"}]
    /\ reclaims \in [Exec -> Nat]
    /\ runs \in [Exec -> Nat]
    /\ parks \in [Exec -> Nat]
    /\ settler \in [Exec -> [lease : Nat, seg : Nat]]

TablesTyped ==
    /\ waits \in [Exec -> Seq(Wait)]
    /\ trace \in [Exec -> SUBSET TraceRow]

WorkersTyped ==
    /\ worker \in [Worker -> WorkerState]
    /\ \A w \in Worker : PhaseOK(worker[w])

MemoryTyped ==
    /\ WorkersTyped
    /\ caller \in [Caller -> CallerState]
    /\ nextLease \in Nat \ {0}
    /\ faults \in Nat

StateTyped == ColumnsTyped /\ TablesTyped /\ MemoryTyped

TypeOK == backend \in Backend /\ StateTyped

Init ==
    /\ backend \in Backend
    /\ status = [e \in Exec |-> "absent"]
    /\ owner = [e \in Exec |-> 0]
    /\ lease = [e \in Exec |-> "none"]
    /\ reclaims = [e \in Exec |-> 0]
    /\ waits = [e \in Exec |-> <<>>]
    /\ trace = [e \in Exec |-> {}]
    /\ worker = [w \in Worker |-> IdleWorker]
    /\ caller = [c \in Caller |-> FreeCaller]
    /\ nextLease = 1
    /\ faults = 0
    /\ runs = [e \in Exec |-> 0]
    /\ parks = [e \in Exec |-> 0]
    /\ settler = [e \in Exec |-> [lease |-> 0, seg |-> 0]]

-----------------------------------------------------------------------------
(* Row predicates the SQL statements share. *)

\* The fence of every worker write: lease_owner and one of the live statuses.
Fenced(w) ==
    /\ owner[worker[w].exec] = worker[w].lease
    /\ status[worker[w].exec] \in {"running", "cancelling"}

\* The row a worker settles remembers who did, and after which segment.
SettledBy(w) ==
    settler' = [settler EXCEPT ![worker[w].exec] =
                    [lease |-> worker[w].lease, seg |-> worker[w].seg]]

\* Mutant: crashed work is never claimed again.
ClaimableQueuedOnly(e) == status[e] = "queued"

\* Mutant: a cancelling row whose worker died is never claimed again.
ClaimableWithoutCancelling(e) ==
    \/ status[e] = "queued"
    \/ status[e] = "running" /\ lease[e] = "expired"

\* ClaimNext's predicate, the same in its SELECT and its UPDATE.
Claimable(e) ==
    \/ status[e] = "queued"
    \/ status[e] \in {"running", "cancelling"} /\ lease[e] = "expired"

\* Only the reclaim of a running row counts and is capped.
Reclaiming(e) == status[e] = "running"

\* Mutant: off by one at the reclaim cap.
PoisonedOneLate(e) == Claimable(e) /\ Reclaiming(e) /\ reclaims[e] > MaxReclaims

Poisoned(e) == Claimable(e) /\ Reclaiming(e) /\ reclaims[e] + 1 > MaxReclaims

\* The checkpoint a claimed run continues from: the latest wait consumed as
\* resumed; segment 0 is a fresh run.
ResumePoints(e) ==
    {0} \cup {i \in DOMAIN waits[e] : waits[e][i].outcome = "resumed"}

\* The trace rows of the worker's own run that the table does not hold yet.
\* A key already stored is skipped, whoever wrote it.
MissingRows(w) ==
    {[seg |-> worker[w].seg, step |-> k, by |-> worker[w].lease] :
        k \in {j \in 1 .. worker[w].step :
                  \A r \in trace[worker[w].exec] :
                      ~(r.seg = worker[w].seg /\ r.step = j)}}

Goes(w, pc) == worker' = [worker EXCEPT ![w].pc = pc]
Released(w) == worker' = [worker EXCEPT ![w] = IdleWorker]

-----------------------------------------------------------------------------
(* Queueing and claiming. *)

\* queueManual, QueueTriggered and Create insert a queued row.
Queue(e) ==
    /\ status[e] = "absent"
    /\ \A f \in Exec : f < e => status[f] # "absent"
    /\ status' = [status EXCEPT ![e] = "queued"]
    /\ UNCHANGED <<owner, lease, reclaims, waits, trace, worker, caller,
                   nextLease, faults, runs, parks, settler>>

\* The rows one claim walks past: those past the reclaim cap that come before
\* every healthy row, at most ScanLimit of them.
CrashedFront ==
    {p \in Exec : Poisoned(p) /\ \A h \in Exec :
                      (Claimable(h) /\ ~Poisoned(h)) => p < h}
SettledCrashed ==
    {p \in CrashedFront :
        Cardinality({q \in CrashedFront : q < p}) < ScanLimit}

\* The row the claim takes once the scan reached a healthy one.
Candidate(e) ==
    /\ Claimable(e) /\ ~Poisoned(e)
    /\ \A h \in Exec : (Claimable(h) /\ ~Poisoned(h)) => e <= h
    /\ SettledCrashed = CrashedFront
    /\ Cardinality(CrashedFront) < ScanLimit

\* ClaimNext finds a row: crashed rows before it are settled in the same
\* transaction, the row is leased, and the trace of an abandoned attempt is
\* deleted.
ClaimNext(w, e) ==
    /\ worker[w].pc = "idle"
    /\ Candidate(e)
    /\ status' = [f \in Exec |->
                    IF f = e /\ status[e] # "cancelling" THEN "running"
                    ELSE IF f \in SettledCrashed THEN "failed" ELSE status[f]]
    /\ owner' = [f \in Exec |-> IF f = e THEN nextLease
                                ELSE IF f \in SettledCrashed THEN 0 ELSE owner[f]]
    /\ lease' = [f \in Exec |-> IF f = e THEN "live"
                                ELSE IF f \in SettledCrashed THEN "none" ELSE lease[f]]
    /\ reclaims' = [reclaims EXCEPT ![e] = IF Reclaiming(e) THEN @ + 1 ELSE @]
    /\ trace' = [trace EXCEPT ![e] = IF Reclaiming(e) THEN {} ELSE @]
    /\ worker' = [worker EXCEPT ![w] =
                    [IdleWorker EXCEPT !.pc = IF status[e] = "cancelling"
                                              THEN "recovering" ELSE "claimed",
                                       !.exec = e, !.lease = nextLease]]
    /\ nextLease' = nextLease + 1
    /\ UNCHANGED <<waits, caller, faults, runs, parks, settler>>

\* ClaimNext settles crashed rows and finds nothing else to claim before its
\* scan limit.
ClaimSettlesOnly(w) ==
    /\ worker[w].pc = "idle"
    /\ SettledCrashed # {}
    /\ \A e \in Exec : ~Candidate(e)
    /\ status' = [f \in Exec |-> IF f \in SettledCrashed THEN "failed" ELSE status[f]]
    /\ owner' = [f \in Exec |-> IF f \in SettledCrashed THEN 0 ELSE owner[f]]
    /\ lease' = [f \in Exec |-> IF f \in SettledCrashed THEN "none" ELSE lease[f]]
    /\ UNCHANGED <<reclaims, waits, trace, worker, caller, nextLease, faults,
                   runs, parks, settler>>

-----------------------------------------------------------------------------
(* One claimed run. *)

\* UpdateRuntime: a requested cancellation wins over the reported outcome; a
\* row under another lease is left alone.
UpdateRuntime(w, outcome) ==
    LET e == worker[w].exec IN
    /\ IF Fenced(w)
       THEN /\ status' = [status EXCEPT ![e] = IF @ = "cancelling"
                                               THEN "cancelled" ELSE outcome]
            /\ owner' = [owner EXCEPT ![e] = 0]
            /\ lease' = [lease EXCEPT ![e] = "none"]
            /\ SettledBy(w)
       ELSE UNCHANGED <<status, owner, lease, settler>>
    /\ Released(w)
    /\ UNCHANGED <<reclaims, waits, trace, caller, nextLease, faults, runs, parks>>

\* A claimed row that was already cancelling is settled without running.
RecoverCancelled(w) ==
    /\ worker[w].pc = "recovering"
    /\ UpdateRuntime(w, "cancelled")

\* Mutant: the first checkpoint is resumed instead of the latest.
StartFromFirstCheckpoint(w) ==
    LET e == worker[w].exec IN
    /\ worker[w].pc = "claimed"
    /\ worker' = [worker EXCEPT ![w].pc = "running", ![w].seg = 0]
    /\ runs' = [runs EXCEPT ![e] = @ + 1]
    /\ UNCHANGED <<status, owner, lease, reclaims, waits, trace, caller,
                   nextLease, faults, parks, settler>>

\* The resume state is loaded after the claim committed, then the graph starts.
StartRun(w) ==
    LET e == worker[w].exec IN
    /\ worker[w].pc = "claimed"
    /\ \E k \in ResumePoints(e) :
          /\ \A i \in ResumePoints(e) : i <= k
          /\ worker' = [worker EXCEPT ![w].pc = "running", ![w].seg = k]
    /\ runs' = [runs EXCEPT ![e] = @ + 1]
    /\ UNCHANGED <<status, owner, lease, reclaims, waits, trace, caller,
                   nextLease, faults, parks, settler>>

\* The runner executes one node unless its context is cancelled, and the live
\* writer stores its row if it can; the write is best effort.
RunNode(w) ==
    LET e == worker[w].exec
        row == [seg |-> worker[w].seg, step |-> worker[w].step + 1,
                by |-> worker[w].lease] IN
    /\ worker[w].pc = "running" /\ worker[w].draft = {}
    /\ ~worker[w].ctx
    /\ worker[w].step < Steps
    /\ worker' = [worker EXCEPT ![w].step = @ + 1]
    /\ \/ /\ Fenced(w)
          /\ \A r \in trace[e] : ~(r.seg = row.seg /\ r.step = row.step)
          /\ trace' = [trace EXCEPT ![e] = @ \cup {row}]
       \/ UNCHANGED trace
    /\ UNCHANGED <<status, owner, lease, reclaims, waits, caller, nextLease,
                   faults, runs, parks, settler>>

\* The runner returns: the graph is done, a node failed or timed out, the
\* context was cancelled, or a node asked to suspend. What follows is written
\* under a context nothing cancels.
RunEnds(w, outcome) ==
    /\ worker[w].pc = "running" /\ worker[w].draft = {}
    /\ outcome = "succeeded" => worker[w].step = Steps
    /\ outcome = "cancelled" => worker[w].ctx
    /\ outcome \in {"timer", "call"} =>
          Len(waits[worker[w].exec]) < MaxWaits /\ worker[w].step > 0
    /\ worker' = [worker EXCEPT
                    ![w].pc = IF outcome \in {"timer", "call"}
                              THEN "suspending" ELSE "flushing",
                    ![w].out = outcome, ![w].ctx = FALSE]
    /\ UNCHANGED <<status, owner, lease, reclaims, waits, trace, caller,
                   nextLease, faults, runs, parks, settler>>

\* suspend writes the segment's rows one by one; a write past the fence is an
\* error that leaves the row to its lease.
PersistTraceRow(w) ==
    LET e == worker[w].exec IN
    /\ worker[w].pc = "suspending" /\ worker[w].draft = {}
    /\ \/ /\ MissingRows(w) = {}
          /\ Goes(w, "parking")
          /\ UNCHANGED trace
       \/ /\ Fenced(w)
          /\ \E row \in MissingRows(w) :
                /\ \A other \in MissingRows(w) : row.step <= other.step
                /\ trace' = [trace EXCEPT ![e] = @ \cup {row}]
          /\ UNCHANGED worker
       \/ /\ MissingRows(w) # {} /\ ~Fenced(w)
          /\ Released(w)
          /\ UNCHANGED trace
    /\ UNCHANGED <<status, owner, lease, reclaims, waits, caller, nextLease,
                   faults, runs, parks, settler>>

\* The wait SuspendExecution inserts, and what else it writes when its update
\* finds the execution as its read did.
InsertWait(w) ==
    waits' = [waits EXCEPT ![worker[w].exec] =
          Append(@, [mode |-> worker[w].out, due |-> FALSE, outcome |-> "open"])]
Park(w) ==
    LET e == worker[w].exec IN
    /\ status' = [status EXCEPT ![e] = "waiting"]
    /\ parks' = [parks EXCEPT ![e] = @ + 1]

\* Mutant: the suspended row keeps its lease.
SuspendKeepsLease(w) ==
    /\ worker[w].pc = "parking"
    /\ IF Fenced(w) THEN InsertWait(w) /\ Park(w)
                    ELSE UNCHANGED <<waits, status, parks>>
    /\ Released(w)
    /\ UNCHANGED <<owner, lease, reclaims, trace, caller, nextLease, faults,
                   runs, settler>>

\* Mutant: the suspending transaction does not check the fence.
SuspendUnfenced(w) ==
    LET e == worker[w].exec IN
    /\ worker[w].pc = "parking"
    /\ InsertWait(w) /\ Park(w)
    /\ owner' = [owner EXCEPT ![e] = 0]
    /\ lease' = [lease EXCEPT ![e] = "none"]
    /\ Released(w)
    /\ UNCHANGED <<reclaims, trace, caller, nextLease, faults, runs, settler>>

\* SuspendExecution: insert the wait and release the lease, or refuse.
SuspendExecution(w) ==
    LET e == worker[w].exec IN
    /\ worker[w].pc = "parking"
    /\ IF status[e] = "running" /\ owner[e] = worker[w].lease
       THEN /\ InsertWait(w) /\ Park(w)
            /\ owner' = [owner EXCEPT ![e] = 0]
            /\ lease' = [lease EXCEPT ![e] = "none"]
       ELSE UNCHANGED <<waits, status, owner, lease, parks>>
    /\ Released(w)
    /\ UNCHANGED <<reclaims, trace, caller, nextLease, faults, runs, settler>>

\* Mutant: the trace transaction does not check the fence.
CreateNodeRunsUnfenced(w) ==
    LET e == worker[w].exec IN
    /\ worker[w].pc = "flushing" /\ worker[w].draft = {}
    /\ trace' = [trace EXCEPT ![e] = @ \cup MissingRows(w)]
    /\ Goes(w, "settling")
    /\ UNCHANGED <<status, owner, lease, reclaims, waits, caller, nextLease,
                   faults, runs, parks, settler>>

\* Mutant: a failed trace write does not change the outcome.
CreateNodeRunsIgnoresFailure(w) ==
    LET e == worker[w].exec IN
    /\ worker[w].pc = "flushing" /\ worker[w].draft = {}
    /\ \/ Fenced(w) /\ trace' = [trace EXCEPT ![e] = @ \cup MissingRows(w)]
       \/ UNCHANGED trace
    /\ Goes(w, "settling")
    /\ UNCHANGED <<status, owner, lease, reclaims, waits, caller, nextLease,
                   faults, runs, parks, settler>>

\* The whole trace in one fenced transaction; a refused or failed write turns
\* the outcome into failPersist's. A run without rows writes nothing.
CreateNodeRuns(w) ==
    LET e == worker[w].exec IN
    /\ worker[w].pc = "flushing" /\ worker[w].draft = {}
    /\ \/ /\ Fenced(w) \/ worker[w].step = 0
          /\ trace' = [trace EXCEPT ![e] = @ \cup MissingRows(w)]
          /\ Goes(w, "settling")
       \/ /\ worker[w].step > 0
          /\ worker' = [worker EXCEPT ![w].pc = "settling", ![w].out = "failed"]
          /\ UNCHANGED trace
    /\ UNCHANGED <<status, owner, lease, reclaims, waits, caller, nextLease,
                   faults, runs, parks, settler>>

\* The terminal write of a finished run.
Settle(w) ==
    /\ worker[w].pc = "settling"
    /\ UpdateRuntime(w, worker[w].out)

-----------------------------------------------------------------------------
(* What runs beside the graph: heartbeat, cancellation poll, faults. *)

\* A renewal extends the lease while the fence holds and interrupts the graph
\* once it does not.
Heartbeat(w) ==
    LET e == worker[w].exec IN
    /\ worker[w].pc \in Ahead
    /\ \/ /\ Fenced(w) /\ lease[e] # "live"
          /\ lease' = [lease EXCEPT ![e] = "live"]
          /\ UNCHANGED worker
       \/ /\ ~Fenced(w) /\ worker[w].pc = "running" /\ ~worker[w].ctx
          /\ worker' = [worker EXCEPT ![w].ctx = TRUE]
          /\ UNCHANGED lease
    /\ UNCHANGED <<status, owner, reclaims, waits, trace, caller, nextLease,
                   faults, runs, parks, settler>>

\* The cancellation poll, or the notice that outruns it, interrupts the run.
PollCancellation(w) ==
    /\ worker[w].pc = "running"
    /\ ~worker[w].ctx
    /\ status[worker[w].exec] \in {"cancelling", "cancelled"}
    /\ worker' = [worker EXCEPT ![w].ctx = TRUE]
    /\ UNCHANGED <<rowVars, waits, trace, caller, nextLease, faults, runs, parks, settler>>

\* Graceful shutdown cancels every run's context; the run still settles.
Shutdown(w) ==
    /\ worker[w].pc = "running"
    /\ ~worker[w].ctx
    /\ worker' = [worker EXCEPT ![w].ctx = TRUE]
    /\ UNCHANGED <<rowVars, waits, trace, caller, nextLease, faults, runs, parks, settler>>

\* The process dies, or a write of this run fails for good: the row keeps its
\* status and its lease.
Abandon(w) ==
    /\ worker[w].pc # "idle"
    /\ faults < MaxFaults[backend]
    /\ faults' = faults + 1
    /\ Released(w)
    /\ UNCHANGED <<rowVars, waits, trace, caller, nextLease, runs, parks, settler>>

Renewed(e) ==
    \E w \in Worker : worker[w].pc # "idle" /\ worker[w].exec = e
                                            /\ worker[w].lease = owner[e]

\* A lease nobody renews runs out.
LeaseExpires(e) ==
    /\ lease[e] = "live"
    /\ ~Renewed(e)
    /\ lease' = [lease EXCEPT ![e] = "expired"]
    /\ UNCHANGED <<status, owner, reclaims, waits, trace, worker, caller,
                   nextLease, faults, runs, parks, settler>>

\* The holder is alive but its renewals fail for a whole lease.
HolderStalls(e) ==
    /\ lease[e] = "live"
    /\ Renewed(e)
    /\ faults < MaxFaults[backend]
    /\ faults' = faults + 1
    /\ lease' = [lease EXCEPT ![e] = "expired"]
    /\ UNCHANGED <<status, owner, reclaims, waits, trace, worker, caller,
                   nextLease, runs, parks, settler>>

-----------------------------------------------------------------------------
(* Waits. *)

DeadlinePasses(e, i) ==
    /\ i \in DOMAIN waits[e]
    /\ waits[e][i].outcome = "open" /\ ~waits[e][i].due
    /\ waits' = [waits EXCEPT ![e][i].due = TRUE]
    /\ UNCHANGED <<rowVars, trace, worker, caller, nextLease, faults, runs, parks, settler>>

\* ResumeWait: the token of an open wait, before its deadline, re-queues.
ResumeWait(e, i) ==
    /\ i \in DOMAIN waits[e]
    /\ waits[e][i].outcome = "open" /\ ~waits[e][i].due
    /\ status[e] = "waiting"
    /\ waits' = [waits EXCEPT ![e][i].outcome = "resumed"]
    /\ status' = [status EXCEPT ![e] = "queued"]
    /\ owner' = [owner EXCEPT ![e] = 0]
    /\ lease' = [lease EXCEPT ![e] = "none"]
    /\ UNCHANGED <<reclaims, trace, worker, caller, nextLease, faults, runs, parks, settler>>

\* SettleExpiredWait, from the sweep or an armed timer: a timer re-queues,
\* unless its checkpoint is unreadable; a call wait fails the execution.
SettleExpiredWait(e, i) ==
    /\ i \in DOMAIN waits[e]
    /\ waits[e][i].outcome = "open" /\ waits[e][i].due
    /\ status[e] = "waiting"
    /\ \/ /\ waits[e][i].mode = "timer"
          /\ waits' = [waits EXCEPT ![e][i].outcome = "resumed"]
          /\ status' = [status EXCEPT ![e] = "queued"]
       \/ /\ waits' = [waits EXCEPT ![e][i].outcome = "expired"]
          /\ status' = [status EXCEPT ![e] = "failed"]
    /\ owner' = [owner EXCEPT ![e] = 0]
    /\ lease' = [lease EXCEPT ![e] = "none"]
    /\ UNCHANGED <<reclaims, trace, worker, caller, nextLease, faults, runs, parks, settler>>

-----------------------------------------------------------------------------
(* Cancel reads the row, then writes what the status it read calls for. *)

CancelRead(c, e) ==
    /\ caller[c].exec = 0
    /\ status[e] # "absent"
    /\ caller' = [caller EXCEPT ![c] =
                     [FreeCaller EXCEPT !.exec = e, !.seen = status[e]]]
    /\ UNCHANGED <<rowVars, waits, trace, worker, nextLease, faults, runs, parks, settler>>

\* cancelWaiting: guarded by the status, it settles the open wait and leaves a
\* cancelled row for the node that waited.
CancelWaiting(e) ==
    IF status[e] = "waiting"
    THEN /\ status' = [status EXCEPT ![e] = "cancelled"]
         /\ owner' = [owner EXCEPT ![e] = 0]
         /\ lease' = [lease EXCEPT ![e] = "none"]
         /\ waits' = [waits EXCEPT ![e] =
               [i \in DOMAIN @ |->
                  IF @[i].outcome = "open" /\ \A j \in DOMAIN @ :
                        @[j].outcome = "open" => j <= i
                  THEN [@[i] EXCEPT !.outcome = "cancelled"] ELSE @[i]]]
         /\ trace' = [trace EXCEPT ![e] =
               @ \cup {[seg |-> Len(waits[e]), step |-> 0, by |-> 0]}]
    ELSE UNCHANGED <<status, owner, lease, waits, trace>>

\* Queued and running rows are updated by id alone.
CancelQueued(e) ==
    /\ status' = [status EXCEPT ![e] = "cancelled"]
    /\ owner' = [owner EXCEPT ![e] = 0]
    /\ lease' = [lease EXCEPT ![e] = "none"]
    /\ UNCHANGED <<waits, trace>>

CancelRunning(e) ==
    /\ status' = [status EXCEPT ![e] = "cancelling"]
    /\ UNCHANGED <<owner, lease, waits, trace>>

CancelWrite(c) ==
    LET e == caller[c].exec
        seen == caller[c].seen IN
    /\ e # 0 /\ caller[c].does = "cancel"
    /\ \/ seen = "waiting" /\ CancelWaiting(e)
       \/ seen = "queued" /\ CancelQueued(e)
       \/ seen = "running" /\ CancelRunning(e)
       \/ /\ seen \in {"cancelling"} \cup Terminal
          /\ UNCHANGED <<status, owner, lease, waits, trace>>
    /\ caller' = [caller EXCEPT ![c] = FreeCaller]
    /\ UNCHANGED <<reclaims, worker, nextLease, faults, runs, parks, settler>>

-----------------------------------------------------------------------------
(* The same transactions on PostgreSQL when others commit inside them. *)

\* CreateNodeRuns' two reads: the fence, and the keys already stored. The live
\* writer calls it for the node that just ran, suspend row by row, the end of
\* the run for all that is missing.
ReadFence(w) ==
    LET e == worker[w].exec
        next == worker[w].step + 1 IN
    /\ worker[w].pc \in {"running", "suspending", "flushing"}
    /\ worker[w].draft = {} /\ Fenced(w)
    /\ \/ /\ worker[w].pc = "running" /\ ~worker[w].ctx /\ worker[w].step < Steps
          /\ \A r \in trace[e] : ~(r.seg = worker[w].seg /\ r.step = next)
          /\ worker' = [worker EXCEPT ![w].step = next, ![w].draft =
                {[seg |-> worker[w].seg, step |-> next, by |-> worker[w].lease]}]
       \/ /\ worker[w].pc = "suspending"
          /\ \E row \in MissingRows(w) :
                /\ \A other \in MissingRows(w) : row.step <= other.step
                /\ worker' = [worker EXCEPT ![w].draft = {row}]
       \/ /\ worker[w].pc = "flushing" /\ MissingRows(w) # {}
          /\ worker' = [worker EXCEPT ![w].draft = MissingRows(w)]
    /\ UNCHANGED <<rowVars, waits, trace, caller, nextLease, faults, runs, parks,
                   settler>>

\* Its insert. Nobody asks again who holds the lease; a key stored meanwhile
\* fails it, and so may anything else. A live row is best effort, a suspension
\* is given up, a finished run goes on to failPersist.
InsertRows(w) ==
    LET e == worker[w].exec
        free == \A r \in worker[w].draft, s \in trace[e] :
                    ~(r.seg = s.seg /\ r.step = s.step) IN
    /\ worker[w].pc \in {"running", "suspending", "flushing"}
    /\ worker[w].draft # {}
    /\ \/ /\ free
          /\ trace' = [trace EXCEPT ![e] = @ \cup worker[w].draft]
          /\ worker' = [worker EXCEPT ![w].draft = {},
                           ![w].pc = IF @ = "flushing" THEN "settling" ELSE @]
       \/ /\ worker[w].pc = "running"
          /\ worker' = [worker EXCEPT ![w].draft = {}]
          /\ UNCHANGED trace
       \/ /\ worker[w].pc = "suspending" /\ ~free
          /\ Released(w)
          /\ UNCHANGED trace
       \/ /\ worker[w].pc = "flushing"
          /\ worker' = [worker EXCEPT ![w].draft = {}, ![w].pc = "settling",
                                      ![w].out = "failed"]
          /\ UNCHANGED trace
    /\ UNCHANGED <<rowVars, waits, caller, nextLease, faults, runs, parks, settler>>

\* SuspendExecution's read, when it does not refuse.
SuspendRead(w) ==
    /\ worker[w].pc = "parking"
    /\ status[worker[w].exec] = "running" /\ owner[worker[w].exec] = worker[w].lease
    /\ Goes(w, "inserting")
    /\ UNCHANGED <<rowVars, waits, trace, caller, nextLease, faults, runs, parks,
                   settler>>

\* Its insert and its update: the wait is stored though the update may match
\* no row.
SuspendWrite(w) ==
    LET e == worker[w].exec IN
    /\ worker[w].pc = "inserting"
    /\ InsertWait(w)
    /\ IF status[e] = "running" /\ owner[e] = worker[w].lease
       THEN /\ Park(w)
            /\ owner' = [owner EXCEPT ![e] = 0]
            /\ lease' = [lease EXCEPT ![e] = "none"]
       ELSE UNCHANGED <<status, owner, lease, parks>>
    /\ Released(w)
    /\ UNCHANGED <<reclaims, trace, caller, nextLease, faults, runs, settler>>

\* UpdateRuntime's first update matches no row: nobody asked to cancel yet.
SettleFirst(w) ==
    /\ worker[w].pc = "settling"
    /\ ~(Fenced(w) /\ status[worker[w].exec] = "cancelling")
    /\ Goes(w, "finishing")
    /\ UNCHANGED <<rowVars, waits, trace, caller, nextLease, faults, runs, parks,
                   settler>>

\* Its second update: it misses a row that was cancelled in between.
SettleSecond(w) ==
    LET e == worker[w].exec IN
    /\ worker[w].pc = "finishing"
    /\ IF Fenced(w) /\ status[e] = "running"
       THEN /\ status' = [status EXCEPT ![e] = worker[w].out]
            /\ owner' = [owner EXCEPT ![e] = 0]
            /\ lease' = [lease EXCEPT ![e] = "none"]
            /\ SettledBy(w)
       ELSE UNCHANGED <<status, owner, lease, settler>>
    /\ Released(w)
    /\ UNCHANGED <<reclaims, waits, trace, caller, nextLease, faults, runs, parks>>

\* ResumeWait and SettleExpiredWait read the wait and the execution.
EndRead(c, e, i) ==
    /\ caller[c].exec = 0
    /\ i \in DOMAIN waits[e]
    /\ waits[e][i].outcome = "open" /\ status[e] = "waiting"
    /\ \E does \in Intent \ {"cancel"} :
          /\ does = "resume" <=> ~waits[e][i].due
          /\ does = "requeue" => waits[e][i].mode = "timer"
          /\ caller' = [caller EXCEPT ![c] =
                [FreeCaller EXCEPT !.exec = e, !.wait = i, !.does = does]]
    /\ UNCHANGED <<rowVars, waits, trace, worker, nextLease, faults, runs, parks,
                   settler>>

\* Then each row is updated if it still is as it was read: the wait only if it
\* is open, the execution if it waits, on whichever wait.
EndWrite(c) ==
    LET e == caller[c].exec
        i == caller[c].wait
        fails == caller[c].does = "expire" IN
    /\ e # 0 /\ caller[c].does # "cancel"
    /\ waits' = IF waits[e][i].outcome = "open"
                THEN [waits EXCEPT ![e][i].outcome = IF fails THEN "expired"
                                                              ELSE "resumed"]
                ELSE waits
    /\ IF status[e] = "waiting"
       THEN /\ status' = [status EXCEPT ![e] = IF fails THEN "failed" ELSE "queued"]
            /\ owner' = [owner EXCEPT ![e] = 0]
            /\ lease' = [lease EXCEPT ![e] = "none"]
       ELSE UNCHANGED <<status, owner, lease>>
    /\ caller' = [caller EXCEPT ![c] = FreeCaller]
    /\ UNCHANGED <<reclaims, trace, worker, nextLease, faults, runs, parks, settler>>

-----------------------------------------------------------------------------
SplitStep(w) ==
    \/ ReadFence(w) \/ InsertRows(w)
    \/ SuspendRead(w) \/ SuspendWrite(w)
    \/ SettleFirst(w) \/ SettleSecond(w)

\* Steps every live worker keeps taking.
WorkerStep(w) ==
    \/ \E e \in Exec : ClaimNext(w, e)
    \/ ClaimSettlesOnly(w)
    \/ RecoverCancelled(w)
    \/ StartRun(w)
    \/ RunNode(w)
    \/ \E outcome \in Outcome : RunEnds(w, outcome)
    \/ PersistTraceRow(w)
    \/ SuspendExecution(w)
    \/ CreateNodeRuns(w)
    \/ Settle(w)
    \/ backend = "postgres" /\ SplitStep(w)

WaitStep(e) ==
    \E i \in DOMAIN waits[e] : DeadlinePasses(e, i) \/ SettleExpiredWait(e, i)

SplitCall(c) ==
    \/ \E e \in Exec : \E i \in DOMAIN waits[e] : EndRead(c, e, i)
    \/ EndWrite(c)

Step ==
    \/ \E e \in Exec : Queue(e)
    \/ \E w \in Worker : WorkerStep(w)
    \/ \E w \in Worker : Heartbeat(w)
    \/ \E w \in Worker : PollCancellation(w)
    \/ \E w \in Worker : Shutdown(w)
    \/ \E w \in Worker : Abandon(w)
    \/ \E e \in Exec : LeaseExpires(e)
    \/ \E e \in Exec : HolderStalls(e)
    \/ \E e \in Exec : WaitStep(e)
    \/ \E e \in Exec : \E i \in DOMAIN waits[e] : ResumeWait(e, i)
    \/ \E c \in Caller, e \in Exec : CancelRead(c, e)
    \/ \E c \in Caller : CancelWrite(c)
    \/ \E c \in Caller : backend = "postgres" /\ SplitCall(c)

Next == UNCHANGED backend /\ Step

Spec == Init /\ [][Next]_vars

\* Workers poll for ever and every run is bounded by its timeout; a lease
\* nobody renews expires with the clock; deadlines pass and the sweep loop
\* cannot be switched off. Nobody is obliged to queue, resume or cancel.
FairSpec ==
    /\ Spec
    /\ \A w \in Worker : WF_vars(UNCHANGED backend /\ WorkerStep(w))
    /\ \A e \in Exec : WF_vars(UNCHANGED backend /\ LeaseExpires(e))
    /\ \A e \in Exec : WF_vars(UNCHANGED backend /\ WaitStep(e))

-----------------------------------------------------------------------------
(* Properties. *)

RowsFollowTheLease ==
    \A e \in Exec :
        /\ status[e] = "running" => owner[e] # 0
        /\ owner[e] # 0 => status[e] \in {"running", "cancelling"}
        /\ lease[e] # "none" <=> owner[e] # 0
        /\ owner[e] < nextLease

LeasesAreDistinct ==
    \A w \in Worker : worker[w].pc # "idle" =>
        /\ 0 < worker[w].lease /\ worker[w].lease < nextLease
        /\ \A v \in Worker \ {w} : worker[v].pc # "idle" =>
              worker[v].lease # worker[w].lease

\* The lease discipline ClaimNext, ExtendLease and every fenced write rest on:
\* a running row has an owner, an owned row is running or cancelling, exactly
\* the owned rows have a lease clock (so a waiting or finished row is never
\* mistaken for crashed work), and no two workers hold the same lease.
LeaseDiscipline == RowsFollowTheLease /\ LeasesAreDistinct

\* On SQLite a worker that still holds the fence runs the segment after the
\* latest resumed wait: nodes completed before a suspension never execute again,
\* whatever is reclaimed, resumed, swept or cancelled. (On PostgreSQL they may:
\* WaitTransactions!CheckpointRunsOnce.)
HolderRunsLatestSegment ==
    backend = "sqlite" => \A w \in Worker :
        /\ worker[w].pc \in Ahead
        /\ Fenced(w)
        /\ status[worker[w].exec] = "running"
        => worker[w].seg = Len(waits[worker[w].exec])

\* On SQLite the rows of one segment come from one attempt: rows a worker wrote
\* before it lost its lease never mix with its successor's (the fence of
\* CreateNodeRuns and the delete in ClaimNext). On PostgreSQL a claim can commit
\* between the fence and the insert, and they do.
OneAttemptPerSegment ==
    backend = "sqlite" => \A e \in Exec : \A r, s \in trace[e] :
        r.seg = s.seg /\ r.step > 0 /\ s.step > 0 => r.by = s.by

\* A succeeded execution has the whole trace of the segment that ended it,
\* though its rows are written by several transactions under a lease that can be
\* lost between any two; on SQLite that is the last segment, and all rows are
\* written by the very lease that wrote the success.
SucceededTraceIsWhole ==
    \A e \in Exec : status[e] = "succeeded" =>
        \A k \in 1 .. Steps : \E r \in trace[e] :
            /\ r.seg = settler[e].seg /\ r.step = k
            /\ backend = "sqlite" => r.seg = Len(waits[e]) /\ r.by = settler[e].lease

\* A finished execution is never queued, run or suspended again. (A cancel that
\* read the row earlier can still overwrite one terminal status by cancelled
\* or cancelling; see Stranded.)
FinishedNeverRunsAgain ==
    [][\A e \in Exec : status[e] \in Terminal =>
          /\ status'[e] \notin {"absent", "queued", "running", "waiting"}
          /\ owner'[e] = 0]_vars

\* A cancel that loses the race with the end of the run leaves the row
\* cancelling with no lease: no worker will claim it again.
Stranded(e) == status[e] = "cancelling" /\ owner[e] = 0

\* Every queued execution is settled, whatever crashes, stalls, waits and
\* cancels happen, unless a cancel strands it.
QueuedSettles ==
    \A e \in Exec : status[e] = "queued" ~> (status[e] \in Terminal \/ Stranded(e))

\* A cancellation that reached a run whose row is still leased ends cancelled,
\* even when the worker dies before it observes the request.
LeasedCancelCompletes ==
    \A e \in Exec : status[e] = "cancelling" /\ owner[e] # 0 ~>
                        status[e] = "cancelled"

-----------------------------------------------------------------------------
(* The caller's view: leases, workers and tables are hidden. A cancelling row *)
(* without a lease has no future, so it counts as over.                       *)

PhaseOf(e) ==
    CASE status[e] \in {"absent", "queued", "waiting"} -> status[e]
      [] status[e] \in {"running", "cancelling"} /\ owner[e] # 0 -> "held"
      [] OTHER -> "over"

Lifecycle == INSTANCE ExecutionLifecycle WITH
    MaxRetries <- MaxReclaims,
    phase <- [e \in Exec |-> PhaseOf(e)],
    retries <- reclaims,
    starts <- runs

\* The queue implements the lifecycle: every step of a worker, heartbeat,
\* sweep, resume or cancel call, in any interleaving and with any crash, is a
\* step the caller was promised or invisible to him.
ImplementsLifecycle == Lifecycle!Spec

=============================================================================
