----------------------------- MODULE JsWorkers -----------------------------
(***************************************************************************)
(* internal/jsworker: the pool that runs Code-node JavaScript in worker    *)
(* processes, and the framed protocol between a job and its worker.        *)
(*                                                                         *)
(* Server side: Run takes a slot and a worker, exchanges frames with it    *)
(* until the job ends, and puts the worker back; a deadline, a             *)
(* cancellation and an idle timer act beside it, each through a callback   *)
(* that may run late. Worker side: one goroutine routes the server's       *)
(* frames while the code asks questions and makes helper calls.            *)
(*                                                                         *)
(* Starting a worker leaves two callbacks that kill it, for a start that is *)
(* late and for a cancelled one; stopping them when it is ready does not    *)
(* stop one that has begun, and what it does then asks nobody.              *)
(*                                                                         *)
(* A critical section of the pool's mutex is one step. Pipes are FIFO and  *)
(* do not fill. A process started for job j is named j; process 0 is the   *)
(* one Pool.Start keeps for the first job. Which confinement a process     *)
(* starts under is left out: a start succeeds or fails.                    *)
(***************************************************************************)
EXTENDS Integers, Sequences, FiniteSets

CONSTANTS
    Job,       \* calls of Run; the number doubles as the job's nonce
    TenantOf,  \* the tenant each job runs for; TenantOf[0]: an earlier job's
    NoTenant,  \* the tenant of a worker that has run nothing
    Slots,     \* MaxConcurrent
    MaxRuns,   \* jobs one worker runs before it is replaced
    MaxCalls,  \* bound: calls that jobs make
    MaxFaults  \* bound: cancellations, closing the pool, and workers that die,
               \* misbehave, spoil, cannot start or are barely ready in time

ASSUME JobAssumption == Job \subseteq Nat \ {0} /\ IsFiniteSet(Job)
ASSUME BoundAssumption ==
    /\ \A p \in Job \cup {0} : TenantOf[p] # NoTenant
    /\ Slots \in Nat \ {0} /\ MaxRuns \in Nat \ {0}
    /\ MaxCalls \in Nat /\ MaxFaults \in Nat

Process == Job \cup {0}
Tenant == {TenantOf[p] : p \in Process} \cup {NoTenant}
None == -1

VARIABLES
    idle,     \* Pool.idle: workers waiting for a job
    workers,  \* Pool.workers: how many the pool counts against its cap
    closed,   \* Pool.closed
    proc,     \* each worker: its process, the server's record, its link
    job,      \* each call of Run
    calls,    \* calls that have been made
    faults    \* faults that have happened

vars == <<idle, workers, closed, proc, job, calls, faults>>

\* A frame of the protocol; "question" and "helper" are the call frames.
Frame == [type : {"run", "reply", "question", "helper", "done", "bad"},
          nonce : Job, id : Nat]

\* The process (died and bad are its own doing, served the tenants whose jobs
\* it was handed, late a callback of its start that outlived the start), struct
\* worker, its place in Pool.idle (the jobs that were over when it was put
\* there, which orders the list), struct link.
ProcessState ==
    [alive : BOOLEAN, died : BOOLEAN, bad : BOOLEAN, served : SUBSET Tenant,
     late : {"none", "begun", "killed"},
     tenant : Tenant, runs : Nat, healthy : BOOLEAN, since : Nat,
     timer : {"off", "armed"}, retiring : BOOLEAN,
     in : Seq(Frame), out : Seq(Frame),
     current : Job \cup {None}, ended : Job \cup {None}, lastID : Nat,
     waiting : SUBSET (Nat \X {"question", "helper"}), broke : BOOLEAN]

JobState ==
    [pc : {"queued", "starting", "running", "failing", "putting", "over"},
     worker : Process \cup {None},
     attempt : {"running", "finished", "deadline", "cancelled", "broken"},
     deadline : {"armed", "fired", "spent"}, cancel : {"no", "fired", "spent"},
     killer : BOOLEAN, blame : {"none", "eof", "protocol"},
     replies : SUBSET Nat, open : BOOLEAN]

TypeOK ==
    /\ idle \in SUBSET Process
    /\ workers \in 0..Slots
    /\ closed \in BOOLEAN
    /\ proc \in [Process -> ProcessState]
    /\ job \in [Job -> JobState]
    /\ calls \in Nat /\ faults \in Nat

NoProcess ==
    [alive |-> FALSE, died |-> FALSE, bad |-> FALSE, served |-> {},
     late |-> "none", tenant |-> NoTenant, runs |-> 0, healthy |-> TRUE,
     since |-> 0, timer |-> "off", retiring |-> FALSE,
     in |-> <<>>, out |-> <<>>, current |-> None, ended |-> None, lastID |-> 0,
     waiting |-> {}, broke |-> FALSE]

NewJob ==
    [pc |-> "queued", worker |-> None, attempt |-> "running", deadline |-> "armed",
     cancel |-> "no", killer |-> FALSE, blame |-> "none", replies |-> {},
     open |-> FALSE]

\* The pool Pool.Start leaves, with one worker nobody has used; or that pool
\* after one job, with the worker kept for its tenant. Its start may have been
\* barely in time.
Init ==
    /\ idle = {0} /\ workers = 1
    /\ faults \in 0..MaxFaults /\ faults <= 1
    /\ \E runs \in {0, 1} :
          LET tenant == IF runs = 0 THEN NoTenant ELSE TenantOf[0] IN
          proc = [p \in Process |->
                IF p # 0 THEN NoProcess
                ELSE [NoProcess EXCEPT !.alive = TRUE, !.timer = "armed",
                         !.late = IF faults = 1 THEN "begun" ELSE "none",
                         !.runs = runs, !.tenant = tenant,
                         !.served = {tenant} \ {NoTenant}]]
    /\ closed = FALSE
    /\ job = [j \in Job |-> NewJob]
    /\ calls = 0

-----------------------------------------------------------------------------
(* Helpers. *)

Fault == faults < MaxFaults /\ faults' = faults + 1

Msg(type, nonce, id) == [type |-> type, nonce |-> nonce, id |-> id]

\* A slot is held from its acquisition to the end of Run.
HoldsSlot(j) == job[j].pc \in {"starting", "running", "failing", "putting"}

Holds(j, p) == job[j].worker = p /\ job[j].pc \in {"running", "failing", "putting"}

\* kill: the process and its link end; what it wrote can still be read.
Killed(s) ==
    [s EXCEPT !.alive = FALSE, !.in = <<>>, !.current = None, !.ended = None,
              !.lastID = 0, !.waiting = {}]

\* stop: killed, and both pipes are closed. A timer callback that has begun
\* finds the worker in nobody's list and does nothing.
Stopped == NoProcess

\* A frame written to a process that is gone reaches nobody.
Sent(s, frame) == IF s.alive THEN [s EXCEPT !.in = Append(@, frame)] ELSE s

-----------------------------------------------------------------------------
(* Run, up to the job's first frame. *)

\* A slot is free, or the job holds the one it has just acquired.
Acquire(j) ==
    /\ job[j].pc = "queued"
    /\ Cardinality({k \in Job : HoldsSlot(k)}) < Slots

\* A job cancelled while it waits for a slot leaves without one.
GiveUp(j) ==
    /\ job[j].pc = "queued" /\ job[j].cancel = "fired"
    /\ job' = [job EXCEPT ![j].pc = "over", ![j].cancel = "spent"]
    /\ UNCHANGED <<idle, workers, closed, proc, faults, calls>>

\* Mutant: any idle worker will do.
FitsAnyone(p, j) == TRUE

\* A worker runs one tenant's jobs, or has run none.
Fits(p, j) == proc[p].tenant = TenantOf[j] \/ proc[p].runs = 0

\* take walks the idle list from its end: the first live worker that fits is
\* taken, and dead ones that fit, met on the way, are dropped.
Usable(j) == {p \in idle : Fits(p, j) /\ proc[p].alive}
MetDead(j) ==
    {p \in idle : /\ Fits(p, j) /\ ~proc[p].alive
                  /\ \A u \in Usable(j) : proc[u].since < proc[p].since}

\* The job is handed process p and its run frame is written.
Handed(j, p, state) ==
    /\ job' = [job EXCEPT ![j].pc = "running", ![j].worker = p, ![j].open = TRUE]
    /\ proc' = [q \in Process |->
          IF q = p THEN Sent([state EXCEPT !.tenant = TenantOf[j], !.timer = "off", !.since = 0,
                                         !.served = @ \cup {TenantOf[j]}],
                             Msg("run", j, 0))
          ELSE IF q \in MetDead(j) THEN Stopped ELSE proc[q]]

TakeIdle(j) ==
    /\ Acquire(j)
    /\ \E p \in Usable(j) :
          /\ \A u \in Usable(j) : proc[u].since <= proc[p].since
          /\ Handed(j, p, proc[p])
          /\ idle' = idle \ (MetDead(j) \cup {p})
    /\ workers' = workers - Cardinality(MetDead(j))
    /\ UNCHANGED <<closed, calls, faults>>

AtCap(counted) == counted >= Slots

\* What take leaves of the pool once these idle workers are stopped.
Dropped(gone) ==
    /\ idle' = idle \ gone
    /\ proc' = [q \in Process |-> IF q \in gone THEN Stopped ELSE proc[q]]

\* take without a worker to reuse: refused when the pool is closed; at the cap
\* the longest idle worker is stopped and the fresh one takes its place.
TakeFresh(j) ==
    LET rest == idle \ MetDead(j)
        counted == workers - Cardinality(MetDead(j)) IN
    /\ Acquire(j)
    /\ Usable(j) = {}
    /\ job' = [job EXCEPT ![j].pc = IF closed THEN "over" ELSE "starting"]
    /\ \/ /\ closed
          /\ workers' = counted /\ Dropped(MetDead(j))
       \/ /\ ~closed /\ ~(AtCap(counted) /\ rest # {})
          /\ workers' = counted + 1 /\ Dropped(MetDead(j))
       \/ /\ ~closed /\ AtCap(counted)
          /\ \E first \in rest :
                /\ \A p \in rest : proc[first].since <= proc[p].since
                /\ workers' = counted /\ Dropped(MetDead(j) \cup {first})
    /\ UNCHANGED <<closed, faults, calls>>

\* start: the process confined itself and said it is ready, to a job handed it
\* at once. awaitReady's timer, or its callback of the run's context, may have
\* begun to kill it.
StartWorker(j) ==
    /\ job[j].pc = "starting"
    /\ job' = [job EXCEPT ![j].pc = "running", ![j].worker = j, ![j].open = TRUE]
    /\ \E late \in {"none", "begun"} :
          /\ IF late = "begun" /\ job[j].cancel # "fired" THEN Fault
             ELSE UNCHANGED faults
          /\ proc' = [proc EXCEPT ![j] =
                Sent([NoProcess EXCEPT !.alive = TRUE, !.tenant = TenantOf[j],
                                        !.served = {TenantOf[j]}, !.late = late],
                     Msg("run", j, 0))]
    /\ UNCHANGED <<idle, workers, closed, calls>>

\* Mutant: a failed start stays counted.
StartFailsStillCounted(j) ==
    /\ job[j].pc = "starting"
    /\ \/ Fault
       \/ job[j].cancel = "fired" /\ UNCHANGED faults
    /\ job' = [job EXCEPT ![j].pc = "over", ![j].cancel = "spent"]
    /\ UNCHANGED <<idle, workers, closed, proc, calls>>

\* start: no process, or one that was not ready in time, or a cancelled run.
StartFails(j) ==
    /\ job[j].pc = "starting"
    /\ \/ Fault
       \/ job[j].cancel = "fired" /\ UNCHANGED faults
    /\ job' = [job EXCEPT ![j].pc = "over", ![j].cancel = "spent"]
    /\ workers' = workers - 1
    /\ UNCHANGED <<idle, closed, proc, calls>>

-----------------------------------------------------------------------------
(* The job's loop on the server. *)

\* A helper call is answered on its own goroutine, which holds the deadline;
\* a question is answered at once, and fails the job if the worker is gone.
ReadCall(j) ==
    LET p == job[j].worker
        frame == Head(proc[p].out)
        rest == [proc[p] EXCEPT !.out = Tail(@)] IN
    /\ job[j].pc = "running"
    /\ proc[p].out # <<>>
    /\ frame.nonce = j /\ frame.type \in {"question", "helper"}
    /\ \/ /\ frame.type = "helper"
          /\ job' = [job EXCEPT ![j].replies = @ \cup {frame.id}]
          /\ proc' = [proc EXCEPT ![p] = rest]
       \/ /\ frame.type = "question"
          /\ job' = IF proc[p].alive THEN job
                    ELSE [job EXCEPT ![j].pc = "failing", ![j].blame = "eof"]
          /\ proc' = [proc EXCEPT ![p] = Sent(rest, Msg("reply", j, frame.id))]
    /\ UNCHANGED <<idle, workers, closed, faults, calls>>

\* Mutant: a result that arrives after the kill was claimed leaves the worker
\* trusted.
DoneTrustsKilled(j, spoiled, left) == ~spoiled

\* Whether the worker that wrote this result may run another job.
StaysHealthy(j, spoiled, left) ==
    job[j].attempt = "running" /\ ~spoiled /\ ~left

\* The result: nothing more is written for this job, the attempt is claimed
\* unless a kill was, and the worker's health is decided. Whether bytes past
\* the result are noticed depends on what is buffered.
ReadDone(j, spoiled) ==
    LET p == job[j].worker
        rest == Tail(proc[p].out) IN
    /\ job[j].pc = "running"
    /\ proc[p].out # <<>>
    /\ Head(proc[p].out).nonce = j /\ Head(proc[p].out).type = "done"
    /\ IF spoiled THEN Fault ELSE UNCHANGED faults
    /\ \E left \in {FALSE, rest # <<>>} :
          proc' = [proc EXCEPT ![p].out = rest, ![p].runs = @ + 1,
                               ![p].healthy = @ /\ StaysHealthy(j, spoiled, left)]
    /\ job' = [job EXCEPT ![j].pc = "putting", ![j].open = FALSE,
                  ![j].attempt = IF @ = "running" THEN "finished" ELSE @]
    /\ UNCHANGED <<idle, workers, closed, calls>>

\* The stream ended, or carried a frame that is out of turn.
ReadFails(j) ==
    LET p == job[j].worker IN
    /\ job[j].pc = "running"
    /\ \/ /\ proc[p].out = <<>> /\ ~proc[p].alive
          /\ job' = [job EXCEPT ![j].pc = "failing", ![j].blame = "eof"]
       \/ /\ proc[p].out # <<>>
          /\ LET frame == Head(proc[p].out) IN
             frame.nonce # j \/ frame.type \notin {"question", "helper", "done"}
          /\ job' = [job EXCEPT ![j].pc = "failing", ![j].blame = "protocol"]
    /\ UNCHANGED <<idle, workers, closed, proc, faults, calls>>

\* failed: the worker is distrusted and waited for; it is killed here unless
\* the deadline or the cancellation claimed that.
Fail(j) ==
    LET p == job[j].worker IN
    /\ job[j].pc = "failing"
    /\ job[j].attempt # "running" => ~proc[p].alive
    /\ job' = [job EXCEPT ![j].pc = "putting", ![j].open = FALSE,
                  ![j].attempt = IF @ = "running" THEN "broken" ELSE @,
                  ![j].blame = "none"]
    /\ proc' = [proc EXCEPT ![p] = [Killed(@) EXCEPT !.healthy = FALSE]]
    /\ UNCHANGED <<idle, workers, closed, faults, calls>>

\* A worker that may not run another job.
Spent(p) == ~proc[p].healthy \/ proc[p].runs >= MaxRuns \/ ~proc[p].alive

\* The worker is kept or stopped, Run returns and the slot is free. Stopping
\* the deadline and the cancellation does not stop a callback that has begun.
Put(j) ==
    LET p == job[j].worker
        begun == job[j].killer \/ "fired" \in {job[j].deadline, job[j].cancel} IN
    /\ job[j].pc = "putting"
    /\ job' = [job EXCEPT ![j].pc = "over",
          ![j].deadline = IF @ = "fired" THEN @ ELSE "spent",
          ![j].cancel = IF @ = "fired" THEN @ ELSE "spent",
          ![j].worker = IF begun THEN @ ELSE None]
    /\ IF Spent(p) \/ closed
       THEN /\ workers' = workers - 1
            /\ proc' = [proc EXCEPT ![p] = Stopped]
            /\ UNCHANGED idle
       ELSE /\ idle' = idle \cup {p}
            /\ proc' = [proc EXCEPT ![p].timer = "armed", ![p].since =
                  Cardinality({k \in Job : job[k].pc = "over"}) + 1]
            /\ UNCHANGED workers
    /\ UNCHANGED <<closed, faults, calls>>

-----------------------------------------------------------------------------
(* What acts beside the loop. *)

\* Mutant: a late answer is written whatever became of its job.
MayWriteAlways(j) == TRUE

\* jobPipe: once the job is over nothing more is written for it.
MayWrite(j) == job[j].open

HelperAnswers(j, id) ==
    LET p == job[j].worker IN
    /\ id \in job[j].replies
    /\ job' = [job EXCEPT ![j].replies = @ \ {id}]
    /\ proc' = IF MayWrite(j)
               THEN [proc EXCEPT ![p] = Sent(@, Msg("reply", j, id))] ELSE proc
    /\ UNCHANGED <<idle, workers, closed, faults, calls>>

\* Mutant: a deadline held for a call is never released.
DeadlineHeldForGood(j) == proc[job[j].worker].lastID > 0

\* hold and release: the allowance does not run while a call is answered.
DeadlineHeld(j) == job[j].replies # {}

DeadlineFires(j) ==
    /\ job[j].pc \in {"running", "failing"}
    /\ job[j].deadline = "armed" /\ ~DeadlineHeld(j)
    /\ job' = [job EXCEPT ![j].deadline = "fired"]
    /\ UNCHANGED <<idle, workers, closed, proc, faults, calls>>

\* The execution is cancelled or times out.
CancelRun(j) ==
    /\ job[j].pc \in {"queued", "starting", "running"}
    /\ job[j].cancel = "no" /\ Fault
    /\ job' = [job EXCEPT ![j].cancel = "fired"]
    /\ UNCHANGED <<idle, workers, closed, proc, calls>>

\* claim: whichever of finishing, deadline, cancellation and breaking comes
\* first decides.
Claims(j) == job[j].attempt = "running"

\* A fired callback claims the attempt and, if it won, goes on to kill. It may
\* run when the job is long over.
KillClaims(j) ==
    /\ job[j].worker # None
    /\ \/ /\ job[j].deadline = "fired"
          /\ job' = [job EXCEPT ![j].deadline = "spent",
                ![j].attempt = IF Claims(j) THEN "deadline" ELSE @,
                ![j].killer = @ \/ Claims(j)]
       \/ /\ job[j].cancel = "fired"
          /\ job' = [job EXCEPT ![j].cancel = "spent",
                ![j].attempt = IF Claims(j) THEN "cancelled" ELSE @,
                ![j].killer = @ \/ Claims(j)]
    /\ UNCHANGED <<idle, workers, closed, proc, faults, calls>>

Kill(j) ==
    /\ job[j].killer
    /\ job' = [job EXCEPT ![j].killer = FALSE]
    /\ proc' = [proc EXCEPT ![job[j].worker] = Killed(@)]
    /\ UNCHANGED <<idle, workers, closed, faults, calls>>

\* A callback of the process's start that had begun before it was ready. It
\* claims no attempt, and may come while the worker is idle or in a later job;
\* it does nothing to a process that has ended.
StartKills(p) ==
    /\ proc[p].alive /\ proc[p].late = "begun"
    /\ proc' = [proc EXCEPT ![p] = [Killed(@) EXCEPT !.late = "killed"]]
    /\ UNCHANGED <<idle, workers, closed, job, faults, calls>>

\* The idle timer fires; its callback then waits for the mutex, and stopping
\* the timer no longer stops it.
IdleTimerFires(p) ==
    /\ proc[p].timer = "armed" /\ ~proc[p].retiring
    /\ proc' = [proc EXCEPT ![p].timer = "off", ![p].retiring = TRUE]
    /\ UNCHANGED <<idle, workers, closed, job, faults, calls>>

\* retire: only a worker that is still idle is stopped.
Retire(p) ==
    /\ proc[p].retiring
    /\ IF p \in idle
       THEN /\ idle' = idle \ {p}
            /\ workers' = workers - 1
            /\ proc' = [proc EXCEPT ![p] = Stopped]
       ELSE /\ proc' = [proc EXCEPT ![p].retiring = FALSE]
            /\ UNCHANGED <<idle, workers>>
    /\ UNCHANGED <<closed, job, faults, calls>>

Close ==
    /\ ~closed /\ Fault
    /\ closed' = TRUE
    /\ workers' = workers - Cardinality(idle)
    /\ Dropped(idle)
    /\ UNCHANGED <<job, calls>>

-----------------------------------------------------------------------------
(* The worker process. *)

Works(p) == proc[p].alive

\* fail: a broken stream ends the worker.
Broken(s) == [Killed(s) EXCEPT !.died = TRUE, !.broke = TRUE]

\* deliver: a reply fits a call of the running job, or is late for the job
\* that just ended and dropped.
Expects(s, frame) ==
    \/ frame.nonce = s.current /\ \E x \in s.waiting : x[1] = frame.id
    \/ frame.nonce = s.ended

\* read: route one frame of the server's.
Receive(p) ==
    LET frame == Head(proc[p].in)
        rest == [proc[p] EXCEPT !.in = Tail(@)] IN
    /\ Works(p) /\ proc[p].in # <<>>
    /\ proc' = [proc EXCEPT ![p] =
          CASE frame.type = "run" /\ rest.current = None ->
                 [rest EXCEPT !.current = frame.nonce, !.ended = None]
            [] frame.type = "reply" /\ Expects(rest, frame) ->
                 [rest EXCEPT !.waiting = {x \in @ : x[1] # frame.id}]
            [] OTHER -> Broken(rest)]
    /\ UNCHANGED <<idle, workers, closed, job, faults, calls>>

\* ask: the running code makes a call; lastID counts over the worker's life.
AskServer(p, kind) ==
    /\ Works(p) /\ proc[p].current # None
    /\ calls < MaxCalls /\ calls' = calls + 1
    /\ \A x \in proc[p].waiting : x[2] # "question"
    /\ LET id == proc[p].lastID + 1 IN
       proc' = [proc EXCEPT ![p].lastID = id, ![p].waiting = @ \cup {<<id, kind>>},
                            ![p].out = Append(@, Msg(kind, proc[p].current, id))]
    /\ UNCHANGED <<idle, workers, closed, job, faults>>

\* finish, then the done frame: calls still outstanding are abandoned. Code
\* that waits for a question's answer has not finished.
FinishJob(p) ==
    /\ Works(p) /\ proc[p].current # None
    /\ \A x \in proc[p].waiting : x[2] # "question"
    /\ proc' = [proc EXCEPT ![p].ended = proc[p].current, ![p].current = None,
                            ![p].waiting = {},
                            ![p].out = Append(@, Msg("done", proc[p].current, 0))]
    /\ UNCHANGED <<idle, workers, closed, job, faults, calls>>

\* The process exits by itself: out of memory, a crash of the engine.
Die(p) ==
    /\ Works(p) /\ Fault
    /\ proc' = [proc EXCEPT ![p] = [Killed(@) EXCEPT !.died = TRUE]]
    /\ UNCHANGED <<idle, workers, closed, job, calls>>

\* A worker that no longer runs the runtime writes what it likes.
Misbehave(p) ==
    /\ Works(p) /\ Fault
    /\ \E j \in Job : Holds(j, p)
    /\ proc' = [proc EXCEPT ![p].bad = TRUE, ![p].out =
          Append(@, Msg("bad", CHOOSE j \in Job : Holds(j, p), 0))]
    /\ UNCHANGED <<idle, workers, closed, job, calls>>

-----------------------------------------------------------------------------
ServerStep(j) ==
    \/ GiveUp(j) \/ TakeIdle(j) \/ TakeFresh(j)
    \/ StartWorker(j) \/ StartFails(j)
    \/ ReadCall(j) \/ (\E spoiled \in BOOLEAN : ReadDone(j, spoiled))
    \/ ReadFails(j) \/ Fail(j) \/ Put(j)

Next ==
    \/ \E j \in Job : ServerStep(j)
    \/ \E j \in Job : \E id \in job[j].replies : HelperAnswers(j, id)
    \/ \E j \in Job : DeadlineFires(j)
    \/ \E j \in Job : CancelRun(j)
    \/ \E j \in Job : KillClaims(j)
    \/ \E j \in Job : Kill(j)
    \/ \E p \in Process : StartKills(p)
    \/ \E p \in Process : IdleTimerFires(p)
    \/ \E p \in Process : Retire(p)
    \/ Close
    \/ \E p \in Process : Receive(p)
    \/ \E p \in Process : \E kind \in {"question", "helper"} : AskServer(p, kind)
    \/ \E p \in Process : FinishJob(p)
    \/ \E p \in Process : Die(p)
    \/ \E p \in Process : Misbehave(p)

Spec == Init /\ [][Next]_vars

\* The server's goroutines, callbacks and timers run; a helper call ends by
\* its own timeout. Nothing is asked of a worker: it may hang for ever.
FairSpec ==
    /\ Spec
    /\ \A j \in Job :
          /\ WF_vars(ServerStep(j))
          /\ WF_vars(\E id \in job[j].replies : HelperAnswers(j, id))
          /\ WF_vars(DeadlineFires(j))
          /\ WF_vars(KillClaims(j))
          /\ WF_vars(Kill(j))

-----------------------------------------------------------------------------
(* Properties. *)

\* The pool's count is the workers it knows of: idle, starting, or held by a
\* job; it never passes the cap, whatever dies, expires or is evicted, and no
\* process outlives its place in it ("there is always one", take). Types
\* included.
PoolAccounting ==
    /\ TypeOK
    /\ workers = Cardinality(idle) + Cardinality({j \in Job : HoldsSlot(j)})
    /\ \A p \in Process : proc[p].alive => p \in idle \/ \E j \in Job : Holds(j, p)

\* A process is handed jobs of one tenant only, over its whole life, and never
\* two at once: code that stayed behind in a worker never sees another
\* tenant's.
OneTenantPerProcess ==
    /\ \A p \in Process : Cardinality(proc[p].served) <= 1
    /\ \A j, k \in Job : \A p \in Process :
          Holds(j, p) => p \notin idle /\ (Holds(k, p) => j = k)

\* A job's worker is taken from it only by its own deadline or cancellation, by
\* the worker itself, or by a callback of the worker's start that had begun
\* before the worker was ready: never by the idle timer, an eviction, Close, or
\* the deadline or the cancellation of an earlier job's run.
NobodyElseKills ==
    \A j \in Job : job[j].pc = "running" /\ job[j].attempt = "running" =>
        \/ proc[job[j].worker].alive
        \/ proc[job[j].worker].died
        \/ proc[job[j].worker].late = "killed"

\* A worker that keeps to the protocol is never accused of breaking it, and
\* never finds the server breaking it, however late a reply is.
HonestWorkersAreTrusted ==
    /\ \A p \in Process : ~proc[p].broke
    /\ \A j \in Job : job[j].pc = "failing" /\ job[j].blame = "protocol" =>
          proc[job[j].worker].bad

\* Every run returns, even when its worker never answers.
RunsReturn == \A j \in Job : job[j].pc = "queued" ~> job[j].pc = "over"

=============================================================================
