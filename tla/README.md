# Kilas Flow: a TLA+ verification project

Kilas Flow runs workflow graphs for many tenants. Its promise is durability: an
execution that was accepted is run, survives the death of the process that ran
it, can sleep for days on a timer or an approval, can be cancelled at any
moment, and is watched live by browsers. Executions are started by hand, by
webhooks, host events, schedules and polls, each against the one version of the
workflow that is published. This project models the parts of the Go code that
carry these promises, checks them with TLC on small instances, and proves with
TLAPS, for instances of every size, their safety properties.

`PROJECT.json` holds the machine-readable side: which definition models which
lines, what each run checks, the mutants that show each property can fail, the
hazards and the findings.

## 1. Inventory

### How the database behaves

Two facts about `internal/database` decide what is one step in the models.

* On SQLite the pool has one connection (`database.go:60-63`). A transaction is
  one atomic step. Statements outside a transaction interleave.
* On PostgreSQL several processes share the tables at READ COMMITTED. A SELECT
  sees what is committed and takes no lock; an UPDATE waits for the row lock and
  then evaluates its WHERE again on the committed row. A transaction is not
  atomic for others that only read what it is about to change.

GORM's implicit per-statement transaction is switched off, so a store method
that does not call `Transaction` is as many steps as it has statements.

### Components

| Component | State | Operations | Hard behaviour | What makes it correct |
|---|---|---|---|---|
| Execution queue and workers (`repository/executions.go`, `engine/service.go`) | `executions`, `node_runs`, each worker's memory | Queue, ClaimNext, ExtendLease, CreateNodeRuns, UpdateRuntime, Cancel | leases that expire under a live worker, crashes between any two writes, Cancel's read and write | one holder per lease, stale writes refused, bounded re-runs, everything queued settles |
| Durable waits (`repository/waits.go`, `engine/wait_service.go`) | `execution_waits` | SuspendExecution, ResumeWait, SettleExpiredWait, cancelWaiting, sweep, armed timers | resume, expiry and cancel of one wait at once; a late call meeting a later wait | a waiting run can be woken, a wait ends once, a checkpoint runs once |
| Graph runner (`engine/runner.go`, `engine/checkpoint.go`, `nodes/loop.go`) | stack of invocations, last outputs, loop state, trace, checkpoint | runLoop, runNode, complete, fallback, skips, suspend, resume | branches owed behind a wait, batches cut in two, loops re-entered, merges | a suspended run leaves the trace of one that was not, each delivery runs once, runs end |
| Compiler (`workflow/compiler.go`, `workflow/cycle.go`) | none | Compile, cycle check, reachability | which cycles are bounded | the runner's properties on every graph it accepts |
| Workflow versions and activation (`repository/workflows.go`, `workflow_history.go`) | `workflows`, `workflow_versions`, the four routing tables, audit | SaveDraft, RestoreVersion, Publish, Deactivate, Delete, prune | four tables kept in step; a prune that chooses before it deletes | rows route to the published version only, a live workflow's triggers have their rows, nothing that is named is pruned |
| Webhooks (`internal/webhook`, `repository/webhooks.go`), host events (`internal/hostevents`) | bindings, subscriptions, delivery claims | resolve, claim, QueueTriggered, record | retries beside the first attempt, a publish between route and queue | one run per claim, a duplicate is answered from its own delivery, the run executes the version its route was made for |
| Scheduler (`internal/scheduler`, `repository/schedules.go`) | `schedules` | Create, Update, Delete, ClaimDue, Next, tick | claim commits before the run is queued; Update saves the whole row; the repeated hour | one firing per due time, due times fit the expression, lateness is made up |
| Poll triggers (`internal/poller`, `repository/polls.go`, `nodes/rss.go`, `nodes/email.go`) | `poll_cursors` | ClaimDue, fetch, queue, Complete | leases that lapse under their holder, batches that fail part-way | nothing skipped, a cursor forgets only past its cap, arrivals are queued |
| JavaScript workers (`internal/jsworker`) | idle list, worker count, processes, pipes, each job | Run, take, put, exchange, deadline, cancel, idle timer, Close | callbacks that run late, replies after the job, processes that die | the count is right, one tenant per process, nobody kills another's worker, runs return |
| Idempotency (`internal/idempotency`, `repository/idempotency.go`) | `idempotency_keys` | Do, ConsumeOnce, Claim, Complete, Release, Sweep, purge | no transaction at all: every statement may be delayed past a lease | work runs once per lease, outcomes are remembered and replayed only to the same request |
| Live events (`internal/events`, `handlers/executions.go` StreamEvents) | broker streams, subscriptions, the client's Last-Event-ID | Publish, Subscribe, deliver, StreamEvents | fan-out outside the lock, bounded queue and history, reconnects, restarts | order without duplicates, no silent loss, streams of finished runs end |
| Sub-workflows, error workflows, static data, retention, tenant purge, rate limiter, datastore | their tables | | child leases, lost updates, partial deletion, arithmetic at the limit | planned |
| Node implementations, JavaScript runtime, n8n import, credentials, auth, embed, binaries, expressions, HTTP, CLI, MCP, editor | | | I/O, conversion, or one request against stored rows | not modelled, see section 6 |

A trigger (webhook, event, tick) reads a row that a publish wrote, claims what
keeps it from firing twice, and queues an execution. A worker claims the
execution and hands it to the runner, which calls back into the worker's trace
writer and, for code nodes, into the JavaScript pool. Suspending writes both
`node_runs` and `execution_waits`; the HTTP API calls Cancel and ResumeWait from
other processes; every settling path publishes a terminal event to the broker,
which fans out to the SSE handlers.

## 2. Modules

| Module | Models | Step size |
|---|---|---|
| `ExecutionLifecycle` | what a caller may rely on of one execution's life; abstract | one visible change |
| `ExecutionQueue`, `ExecutionQueueProofs` | queue, workers, leases, traces, waits, cancellation; implements `ExecutionLifecycle` | one repository transaction (SQLite), or its reads and its writes apart (PostgreSQL) |
| `WaitTransactions`, `StatementProofs` | the transactions that start and end a wait, for one execution | one SQL statement, with row locks and deadlock detection |
| `Compiler` | ports, edges, cycles and reachability of a document, as operators | none |
| `Runner` (extends `Compiler`), `RunnerProofs` | one run of a compiled graph with and without suspensions | one invocation of a node |
| `Publication` | one workflow's revisions, its publication and the rows that route to it | one transaction, or one statement where the code has no transaction |
| `Deliveries` (extends `Publication`), `DeliveriesProofs` | the callers that start runs from those rows | one database call |
| `Schedules`, `SchedulesProofs` | cron rows, scheduler replicas, the schedules API | one transaction or statement |
| `Polls`, `PollsProofs` | one poll cursor and the replicas that lease it | one call |
| `JsWorkers`, `JsWorkersProofs` | the pool, one job's life on both sides of the pipe | one critical section or frame |
| `Idempotency`, `StatementProofs` | one key, the calls that meet on it, sweeper, purge | one SQL statement |
| `EventFeed`, `EventFeedProofs` | one execution's stream, its publishers, one client | one critical section or one frame |
| `MC*` | instances for TLC: the component, its values and the symmetry it admits | |

Operators whose comment begins with *Mutant* are not part of a model: each is
the wrong form of the definition that follows it, kept so that the property it
breaks can be seen to fail.

### ExecutionQueue and ExecutionLifecycle

`backend` is the database, chosen initially. `status`, `owner`, `lease`,
`reclaims` are columns of `executions`; `waits` and `trace` are the two child
tables; `worker[w]` is what a worker goroutine holds (phase, execution, lease id,
segment, nodes done, the rows it is about to insert, outcome, whether its context
was cancelled); `caller[c]` is what a Cancel, resume or sweep call has read.
`runs`, `parks` and `settler` are history variables.

Time is reduced to what the guards read: a lease is `none`, `live` or `expired`,
a deadline is due or not. A *segment* is the part of a run between two
suspensions; segment 0 is the fresh run, segment k starts at the checkpoint of
wait k. A trace row carries its segment, its node and the lease that wrote it.

`ClaimNext` and `ClaimSettlesOnly` are the two outcomes of one scan: rows past the
reclaim cap in front of the first healthy one are failed in the same
transaction, at most `ScanLimit` of them. `RunNode` may or may not store its row,
because the live trace writer is best effort. `CreateNodeRuns` is the
transactional write at the end of a run, `Settle` the terminal write after it,
`PersistTraceRow` and `SuspendExecution` the path of a suspension. `Abandon` is a
crash, or a write that fails for good; `HolderStalls` is a holder whose renewals
fail for a whole lease. A process crash that takes several workers is several
`Abandon` steps. `CancelRead` and `CancelWrite` are Cancel's two statements.

On PostgreSQL a transaction that decides by a plain SELECT may also be taken in
two steps, with anybody's commits between them: `ReadFence` and `InsertRows`
(CreateNodeRuns, which also the live writer and a suspension call, looks up the
fence and the stored keys and inserts later, executions.go:1080-1118),
`SuspendRead` and `SuspendWrite` (SuspendExecution), `SettleFirst` and
`SettleSecond` (the two updates of UpdateRuntime), `EndRead` and `EndWrite`
(ResumeWait and SettleExpiredWait). The refinement, LeaseDiscipline,
FinishedNeverRunsAgain, both liveness properties and the wholeness of a
successful trace hold on both databases. HolderRunsLatestSegment,
OneAttemptPerSegment and that all rows of a success are of one lease are stated
for SQLite, because they are false on PostgreSQL; see the observations in
section 4.

`ExecutionLifecycle` has four variables: the phase of an execution (absent,
queued, held, waiting, over) and how often it was parked, retried and started.
`ImplementsLifecycle` maps the queue onto it: a running or cancelling row with
an owner is held, and a cancelling row without one is over, since nobody will
ever claim it. The refinement says that leases, crashes, stale workers, sweeps
and cancels are invisible but for the steps the caller was promised: an
execution is admitted once, started at most once per hand-out, retried at most
`MaxReclaims` times and never leaves `over`.

### WaitTransactions

The same operations statement by statement. A call that matched a row holds its
lock (`hitWait`, `hitExec`) until `Commit`, `Blocks` says who waits for whom, and
`Rollback` is the database's answer to a cycle: ResumeWait locks the wait and then
the execution, cancelWaiting the other way round. One worker claims, suspends
and finishes; it may die at any point (`Crash`), after which its lease runs out and
another takes the row over or fails it (`Reclaim`). A live worker does not lose
its lease here; that is ExecutionQueue's matter. `starts` counts the claims from
the queue per checkpoint and `from` is the checkpoint the graph runs from: a
crash starts the same checkpoint once more, which is no second hand-out.

### Compiler and Runner

A document is a sequence of nodes (kind and the settings the runner reads), a
set of edges between ports, the trigger that fires and its items. `Compiles` is
Compile's verdict on ports, cycles, reachability and the cardinality of models;
`PrepareGraph` is what the runner does before its first invocation. The
assumption `Documents` holds what the document format fixes: edges join nodes of
the document, and items are items. A run starts from a trigger that nothing
feeds (`IsUnfed`, manualStartProblem).

A run is a record: `pending` (the stack of invocations owed), `completed` (the
last output of each node), `loops`, `rows` (the trace) and its status. `Advance`
is one turn of runLoop: `HasNext` chooses the top of the stack or, when nothing is
owed, the first Merge that may start; `RunNode` covers disabled and pinned nodes,
empty deliveries, retries, per-item tolerance and the error port; `Complete` stores
the output and pushes the branches. Calls are abstracted to what they do with
their items: pass them on, split odd from even, append, batch, fail on odd ones.
Of the merge modes this is append alone, and a Wait fails on an item whose
parameters do not resolve or ask for too long a pause (`TooLong`, wait.go), with
the node's tolerance and error port as for any failure. What a wait puts out
when it is over is the timer's output, its own items; the outputs of a webhook or
an approval resume, which carry the caller's payload, are not modelled.

The module runs every graph twice. `plain` never suspends. `live` may suspend at
every wait, on each item of a per-item batch; `Snapshot` and `ItemCheckpoint`
are what the checkpoint keeps (the rows of items that failed before the one that
suspends included), `Restored` what a later worker makes of it. The two being
compared, a state the checkpoint forgets shows up as a different trace.

Three of the properties leave out a kind of node, each because the code does
something else there. `OneRunPerDelivery` leaves out a node below the `done` port
of a loop with Always Output Data (`BelowDone`, see Findings). `MergesRunLast`
claims that a Merge runs after what leads to it only of a Merge above which the
fallback starts nothing (`IsFirstMerge`): when several nodes wait for the
fallback it takes the first on the canvas, which may be the lower one.
`LoopsHandOnTheirReturns` is about a loop that runs on its own items and stops
the run when it fails (`IsPlainLoop`).

### Publication and Deliveries

`doc` and `stored` are the revisions appended and not pruned; `active`, `pin`
and `deleted` are columns of `workflows`; `hooks`, `subs`, `scheds` and `polls`
the rows a publish rewrites; `executed` the versions executions refer to;
`audit` the last publish event. SaveDraft, RestoreVersion, Publish, Delete and
the prune after a save hold the workflow's row for their whole transaction and
are one step; Deactivate reads before its transaction; the periodic prune is one
step on SQLite, and on PostgreSQL a `PruneRead` and a later `PruneDelete`, which
a foreign key stops only for versions of executions. `backend` is chosen
initially, so each run covers both.

Schedule rows have other writers than publishes. `CreateSchedule`,
`UpdateSchedule` and `DeleteSchedule` are the schedules API, which does not ask
whether a row belongs to a trigger of a publish (handlers/schedules.go:152-178), and
`RetireSchedule` is a tick that finds the workflow gone or the expression without a
later occurrence (schedules.go:337-368); it may happen to any active row.
`edited` keeps the nodes whose rows they changed since the last publish, and
RoutesFollowPublication promises an active row for the others.

A caller of `Deliveries` resolves a row (`ResolveWebhook`, `ListSubscriptions`,
`ScheduleTick`, `PollTick`), claims its delivery id in three statements
(`ClearExpired`, `InsertClaim`, `ReadClaim`), queues (`QueueTriggered`, and
`QueueCommit` apart from it on PostgreSQL) and records the run on its claim. The
queue call may be refused or fail, after which the claim stays. Each of the
claim's statements may fail too (`InsertFails`, before it took effect or after;
`ClaimFails`), and then `Unclaimed` is what the caller does: the event fan-out
reports an error, the webhook handler runs the delivery without a claim
(webhook.go:334-343). A run without a claim has epoch 0. OneRunPerClaim says what
follows: one run per claim always; one run per delivery id while no database call
fails and no claim expires; and never a run without a claim for a host event.

### Schedules

Time is a number, an expression a predicate on what the wall clock shows, a zone
a function from time to wall clock; the instance has a zone whose clock shows
one hour twice. `NextRun` is scheduler.Next with its guard against the repeated
hour, `CatchUp` the bounded loop of ClaimDue. A tick claims all due rows at a
reading of the clock that may be old, then queues them one by one; a row whose
expression has no further occurrence during catch-up fails the claim of all.
`QueueFails` and `Crash` lose what is claimed. `UpdateRead` and `UpdateSave` are
the two halves of the API's update. `armed` and `started` count, per row and due
time, how often it was given and how often it was queued.

### Polls

A cursor is the set of items it accounts for: everything up to a UID for a
mailbox, the entries seen for a feed. A mailbox's cursor also holds the
UIDVALIDITY it was made under (as a negative number); `Recreate` gives the
mailbox a new one, and the next poll takes all it finds as a new baseline
(email.go:688-691). A feed's cursor keeps the last `SeenCap` entries, those of
the poll just made last (`Kept`, rssPollSeen in rss.go), so an entry it forgets
and the feed still lists is new again. Entries that leave the feed and mail that
is deleted are left out. `FallDue` and `Lapse` are the passing of time. A
replica claims the row, fetches (`PollMailbox`, `PollFeed`), queues item by item
and completes; the first failure ends the batch and leaves the cursor.
`baseline` and `dropped` are the items a committed cursor counts though they
were not queued: what it started from, and what a full feed batch left out.
`forgotten` are those it counted once and left out later. `queued` counts the
runs of an item as far as the properties tell them apart (`Many`).

### JsWorkers

`idle`, `workers` and `closed` are the pool's fields (the idle list is a set
whose members carry in `since` the order in which they were put there);
`proc[p]` joins a process, the server's record of it and its half of the
protocol; `job[j]` is one call of Run. `TakeIdle`, `TakeFresh`, `StartWorker`,
`StartFails` are take; `ReadCall`, `ReadDone` and `ReadFails` the exchange;
`Fail` and `Put` its ends. A deadline, a cancellation and an idle timer fire in
one step and act in a later one (`KillClaims`, `Kill`, `Retire`), because Stop
does not wait for a callback that already runs. The same is true of the timer
and the context callback that guard a worker's start (awaitReady,
pool.go:457-462): they claim no attempt, so one that had begun (`late`) may kill
the worker at any later moment (`StartKills`), in its first job, a later one, or
at rest. On the worker's side, `Receive`, `AskServer`, `FinishJob`, and as
faults `Die` and `Misbehave`.

### Idempotency

`rows` is what the unique index admits for one (tenant, key). A call takes its
reading of the clock when it begins and keeps it; `Clear`, `Insert` and `Read` are
the three statements of one claim attempt, `RunFn` the caller's work, `Complete`
and `Release` its two ends, `Abandon` a crash or a failed statement. `use` says
whether the key belongs to `Do` or to `ConsumeOnce`; the key's validation keeps
the two apart. `PurgeTenant` removes the row whatever its state, which is why
two properties exempt a purged tenant.

### EventFeed

`Assign` is Publish under the broker's lock, `Deliver` what it does after. `Gate`
is the handler's read of the durable record, `Subscribe` the broker's critical
section (the replay is the end of the history after the id the client names),
`Drain`, `SendReplay`, `ReplayDone`, `SendLive` the handler's loop. A `Restart`
forgets the stream and counts event ids from one again. `LoseTerminal` lets the
terminal event be lost before this process has it (a run of another process).
Subscribers do not affect each other, so one client is enough.

## 3. Runs

| Run | Instance | What holds |
|---|---|---|
| `queue_safety` | 1 execution, 2 workers, 1 API or sweep call at a time, 2 nodes, 1 reclaim, 1 wait, 2 faults on SQLite and 1 on PostgreSQL; 1.7 M states | on both: one holder per lease, a success has its whole trace, finished runs stay finished, and every step is one of `ExecutionLifecycle`; on SQLite: the holder runs the latest segment and a segment's rows are one attempt's |
| `queue_liveness` | the same with 1 node; 618 k states | QueuedSettles, LeasedCancelCompletes |
| `waits_concurrent` | 2 calls at a time, 3 waits, 5 calls, crashes at any time; 1.0 M states | a waiting run is wakeable, outcomes are final, finished runs are not re-queued; with calls one at a time, tokens are single use, the queue hands out each checkpoint once and a take-over starts the one handed out last |
| `waits_replay` | 2 calls, 2 waits, 3 calls in all | violated, see Findings |
| `runner` | 2440 graphs: all with a trigger and two nodes that compile, and shapes of up to six nodes; batches of 1, 3 iterations, 2 tries, waits that fail on item 3; 46 k states | suspending anywhere is invisible in the trace, one run per delivery, a Merge runs last, loops hand on what came back, tame graphs end |
| `runner_merges` | one graph | violated, see Findings |
| `deliveries` | 2 nodes that change their part between 2 documents, 2 revisions, 1 kept, 1 Deactivate request, 1 request of the schedules API, 2 callers, 1 delivery id, 2 runs, 1 fault, both databases; 4.8 M states | routes and audit follow the publication, nothing named is pruned, one run per claim and one per delivery without faults, runs start from their trigger |
| `schedules` | 2 replicas, 3 expressions, 2 zones, 2 rows, time to 4, 1 catch-up step, 2 publishes, 1 request, 1 fault; 554 k states | one firing per arming and loss only by disturbance, due times fit, one run per wall clock time, lateness is made up |
| `polls` | 2 replicas, 3 items, batches of 1, 1 fault; a mailbox with 2 UIDVALIDITYs and 2 publishes, a feed with a memory of 2 entries and 1 publish; 801 k states | nothing skipped, repeats explained, a cursor forgets only past its cap, arrivals are queued |
| `js_workers` | 2 jobs of one tenant, a worker kept for another, 2 slots, 2 runs per worker, 1 call, 1 fault; 755 k states | the count is right, one tenant per process, no earlier run kills a job's worker, honest workers are trusted, runs return |
| `idempotency_calls` | 3 calls, 2 bodies, leases of 1, clock to 2; 907 k states | overlap only past a lease, outcomes remembered and replayed to the same request, one-time keys admitted once |
| `feed_stream` | 2 publishers, queue 1, history 2, 4 events, 3 connections, 1 restart; 449 k states | frames in order and once, nothing missed silently, finished streams end |

Where a module's type invariant is not a run's property of its own, it is the
first conjunct of one of them (`FramesInOrder`, `PoolAccounting`,
`OneRunPerClaim`, `NothingIsSkipped`, `DueTimesAreOccurrences`,
`OneRunPerDelivery`) or part of a proved inductive invariant (the queue, the
waits, idempotency).

Why the bounds are enough. Two workers are what a takeover needs: the one that
lost its lease and the one that has it. Two faults allow a crash inside the
recovery from a crash; on PostgreSQL, where a transaction is also taken apart,
one fault (a lost lease or a crash) already puts two workers on one row, and a
second is beyond the time of a run. One counted reclaim reaches the cap from
both sides. One wait gives a segment before and a segment after; two nodes let a
trace be partial. Executions meet only inside ClaimNext's scan; two of them with
faults are beyond the time of a run, so a backlog longer than the scan limit is
not reached. In `waits_concurrent` two calls are enough for every cycle of two
row locks, and three waits let a call be late for a later wait twice. In
`runner`, item values 1 and 2 (or 3) send one item down each arm of an IF and
through each outcome of a failing call; loops of one-item batches go round two
or three times; every wait setting occurs in every shape. In `deliveries` two
revisions are an old and a new one, and the second caller is the retry, or the
tick that races the administrator; one request of the schedules API switches off
or removes a row. In `schedules` times 3 and 4 are the repeated hour, and one
catch-up step leaves a fast row behind after its claim. In `polls` three items
of batch one give a first poll, a capped one and a repeated one, and pass the
memory of two entries. In `js_workers` the kept worker is taken, evicted or
expires, and the pool is full. In `idempotency_calls` the clock passes a lease
and the lease taken after it. In `feed_stream` both the queue and the history
overflow, and the third connection follows a loss and a restart.

Symmetry is used in safety runs only: workers, calls, callers and requests are
interchangeable. CHECK_DEADLOCK is off throughout because every instance may
stop: all executions finished, all calls answered, the client gone, the bounds
reached.

### Fairness

* `ExecutionQueue!FairSpec`: weak fairness of each worker's own steps (the poll
  loop never ends, and each run is bounded by its timeout), of the expiry of a
  lease nobody renews (the clock), and of deadlines and the sweep (a loop that
  the configuration cannot switch off). Nothing obliges anyone to queue, resume
  or cancel; crashes are bounded by `MaxFaults`, not by fairness.
* `EventFeed!Spec`: weak fairness of announcing and delivering (Publish never
  blocks) and of the handler (it runs until its client goes). Nothing obliges a
  client to stay or to return.
* `JsWorkers!FairSpec`: the server's goroutines, timers and callbacks run, and a
  helper call is answered (it has a timeout of its own). Nothing is asked of a
  worker process: RunsReturn holds although it may hang for ever.
* `Polls!FairSpec`: rows fall due, leases lapse, and each replica goes on with its
  tick (the loop's only exit is the end of the process, and the lease is then
  taken over).
* `Schedules!FairSpec`: each replica's ticker goes on firing and reads the
  current time, and queues what it claimed.
* `Runner` has none: that tame graphs end is stated as a bound on the rows of a
  run, which every step extends.

## 4. Findings

Each is a run whose property quotes the repository and is violated by the model
of the code.

1. `waits_replay` (PostgreSQL): ResumeWait and SettleExpiredWait ignore
   RowsAffected. Two calls on one token both report success; the second, delayed
   until the run waits again, re-queues it and the old checkpoint runs twice.
2. `runner_merges`: only the last output of a node is kept for the nodes below
   it, so a Merge under a node that ran twice (both arms of an IF lead to it)
   has the items of the second run only.

Observations without a run of their own. The properties are stated so that they
allow them.

* Cancel updates by id alone: a cancel that read `running` and writes after the
  run settled leaves `cancelling` without a lease, which no worker claims
  (`Stranded`; executions.go:918).
* The reclaim of a resumed run deletes the trace of the segments before its
  suspension too (executions.go:654). ClaimNext fails as a whole, for every
  worker, while a row whose version is missing is first (executions.go:667).
* SuspendExecution ignores RowsAffected (waits.go:208-241), so a cancel between
  its read and its update leaves a wait under an execution that is not waiting;
  FinishedNeverRequeued shows that its token cannot bring the run back. A
  reclaim in between leaves one under an execution that another worker runs: the
  successor's segment is then not the number of waits, and once the run waits
  for itself the stray token is open beside the right one.
* PostgreSQL: CreateNodeRuns reads the fence with a SELECT that locks nothing
  (executions.go:1080) and inserts later (1118). A ClaimNext that takes the row
  over and deletes its trace (636-654) can commit in between, and the stale
  worker's rows then stand beside its successor's, or in the place of some:
  stored keys are skipped. SucceededTraceIsWhole shows that a success has a row
  for every node all the same.
* PostgreSQL: UpdateRuntime's two updates "run inside one transaction so the row
  cannot change status between them" (executions.go:829), which READ COMMITTED
  does not give. When a cancel falls between them neither matches, and the row
  stays cancelling until its lease expires and a worker settles it.
* An idempotency lease is not renewed: a call slower than the lease can have a
  second one beside it. OneRunPerLease is stated accordingly.
* Feed: the loss flags belong to one subscription, so a client that reconnects
  after a loss gets an unmarked terminal frame (handlers/executions.go:468); a
  terminal event that meets a full queue is dropped and holds the stream of a
  client that stays (events.go:282); it can overtake an event of another
  goroutine, which is then never sent (events.go:166).
* Runner: a Merge below an untaken branch of two or more nodes never runs; a
  disabled Merge does not pass its items through; a Merge in a loop's body runs
  once, so the loop stalls; a disabled model leaves its agent silently
  unreached. A loop with Always Output Data puts an empty item on its `done`
  port when it dispatches a batch (runner.go:1464). It is not delivered, but
  when the body filters the batch away the fallback takes it for a delivery and
  starts the node below, although the loop has not ended: the comment on push
  (runner.go:972-976) says of such a node that it is not reached while the loop
  has dispatched a batch. Compile accepts cycles through the `done` ports of
  loops, and bodies that return more than once per batch, which TameRunsEnd
  excludes.
* JsWorkers: a start's timer or context callback that had begun when the worker
  said it was ready (pool.go:457-462) kills it later. The run it then has ends
  as a fault of the engine, not as that run's deadline or cancellation.
* Publication: the schedules API switches off or deletes the row of a live
  workflow's trigger like any other (handlers/schedules.go:152-178), and the
  workflow then no longer fires until it is published again. The periodic prune
  takes no lock on PostgreSQL and can delete a version published meanwhile
  (NothingNamedIsPruned claims less there); QueueTriggered reads the publication
  again without a lock; schedule rows of nodes that are gone survive a publish;
  Deactivate's audit event can name a version that was not the live one.
* Deliveries: a claim is committed before the run is queued, so when queueing
  fails the sender's retry is a duplicate of a delivery that never ran
  (hostevents/service.go:152-176, webhook.go:334-362). A claim whose insert was
  written but reported as failed makes the caller read its own row
  (webhooks.go:448-463): it answers "duplicate" without a run, and so does every
  retry. The webhook handler runs a delivery whose claim call failed, so a
  delivery can then have two runs.
* Schedules: a deleted row comes back through a concurrent Update, which also
  clears the zone (schedules.go:134-138); a row that stops having occurrences
  during catch-up fails the whole claim (schedules.go:375); the guard for the
  repeated hour does not see repetitions of expressions with several times an
  hour.
* Polls: a lease is measured from the start of the tick (poller.go:117), so it
  may lapse under its holder; a feed batch marks the entries it left out as
  seen, and a feed that was empty at first has no baseline (rss.go:195-217). A
  feed that lists more entries than the 200 a cursor keeps has old ones queued
  again at each poll, although "activation emits only what is published
  afterwards" (rss.go:195-196): which entries stay is decided by the feed's
  order, and those of a feed with the newest first are the oldest ones. A
  mailbox that was recreated takes mail not yet polled into its new baseline
  (email.go:688-691), so that mail never runs.

## 5. Proofs

Theorems hold for every value of the constants under the assumptions named in
the modules: execution and job ids are positive naturals, bounds are naturals,
windows and limits are positive, and where something is counted (replicas, jobs)
the set is finite. Schedules assumes nothing of what an expression matches or
what a zone shows, and Runner nothing of a document but its format. History and
bound variables restrict nothing else. `PROJECT.json` lists the theorems with
the properties they state: every safety property of a passing run is proved but
`TameRunsEnd`, which says of the instance's graphs that they end within its
bound.

**ExecutionQueueProofs.** `TypeCorrect` and `LeaseDisciplineHolds` rest on the
conjunction of TypeOK and LeaseDiscipline. The two halves of LeaseDiscipline
need each other: that no two workers hold one lease follows because lease ids
are fresh (`owner[e] < nextLease` and every held lease is below `nextLease`),
and that an owned row is running or cancelling follows because every write that
ends a run clears owner and clock together. The TypeOK lemmas come one per
action; PhaseOK is part of it because the terminal write takes its status from
the worker's memory. `FinishedForEver` follows from TypeOK and LeaseDiscipline:
a finished row has no owner, so every fenced write fails on it, and the
remaining writers check the status or write a terminal or cancelling one.

`HolderIsAtLatestSegment`, `AttemptsNeverMix` and the SQLite half of
`SuccessIsWhole` share `SegmentInv`, an invariant of SQLite. None of the three is
inductive: a stale worker may stand at an
older segment, and nothing in the row alone says that its holder is not that
worker. SegmentInv adds what relates the row, its waits and its trace: a row
that is queued or held was resumed from every wait it had and a waiting one from
all but its last (`RowSegments`); no trace row is ahead of the waits; before a
segment starts the trace holds nothing of it; and a worker that passes the fence
runs segment `Len(waits[e])`, all rows of which are its own (`HolderSegments`). On
PostgreSQL most of this is false. What is left of `SuccessIsWhole` there is
`WholeInv`: as long as a worker owns the row nobody deletes from its trace, so a row
it found stored, whoever wrote it, or inserted is there when it settles; and a
failed insert turns success into failure.

`QueueImplementsLifecycle` is the refinement of ExecutionLifecycle, one lemma
per action: each step is a step of Lifecycle!Next or changes nothing a caller
sees (`Simulated`). The one obligation that is not local is the bound on starts:
a worker can claim a row, lose its lease to a reclaim and start the graph
afterwards. `StartInv` therefore counts the starts so far together with the
workers that claimed the row and have not started it, against the hand-outs so
far.

**StatementProofs** holds the proofs of the two components that are modelled
statement by statement; their state has nothing in common. For the waits the
inductive invariant is TypeOK, `LocksHold` and `Wakeable`. WaitingCanBeWoken
alone is not inductive: a call that has consumed the only open wait and not yet
moved the execution would break it at Commit. LocksHold says that a matched
update keeps its row in the state it matched and is its only holder; Wakeable
that whoever is about to consume the last wait also has the execution.
`WaitOutcomeIsFinal` and `FinishedStaysOut` follow from LocksHold.

`SerialCallsAreExact` is about the histories in which calls do not overlap, and
assumes of them no more than that (`[]OneCallAtATime`). Its invariant,
`SerialInv`, is inductive only over such steps: a run that is queued or running
was resumed from every wait, a waiting one from all but the last
(`ResumedSoFar`); both updates of a call match (`BothMatch`), because the worker
of a waiting run is done and nobody else comes between; hence a run is queued
only with a checkpoint that nothing was handed out from (`StartedOnce`). Crashes do
not disturb this: a run that is running was handed its last checkpoint, and
whoever takes it over starts that one (`FromLast`). The run `waits_replay` shows
that the theorem needs its premise.

For idempotency it is `KeyInv`: KeyTypeOK, `RowsAreClaims`, `ReadingsArePast`,
`LeaseHeld`, `WindowKept` and `AnswersEnd`. The argument of
`LeasesSeparateRuns`: a call at work under an unexpired lease owns the row
(LeaseHeld), there is one row (RowsAreClaims), hence one such call. LeaseHeld is
kept because all deletions compare with a clock reading that is not ahead of the
clock (ReadingsArePast). `OutcomeIsRemembered`, `OneAdmission` and
`ReplaysAreFaithful` take the same invariant.

**DeliveriesProofs** are about a publication and its callers together.
`RoutesAlwaysFollow` and `NamedVersionsStay` need each other and `SweepInv`: a
pruning that runs as single statements (postgres) deletes what an earlier read
chose, and keeps the named versions only because nothing makes the latest
revision, which may be published meanwhile, part of that choice. The rows of
schedule triggers follow for the nodes that no request and no tick touched since
the publish. `ClaimsRunOnce` adds `Unique`: a claim (a key and its epoch) is held by
one call or has one run, and never both; a call that clears a stale claim takes a
new epoch, and while nothing failed or expired no claim is beyond its first
(`FirstClaim`) and no call is without one (`Claimed`).
`RunsStartFromTriggers` adds that what a call carries between its steps was read
from a route that existed (`GoodCall`, `GoodRun`).

**SchedulesProofs.** `SchedInv` follows each row and each claim. `DueTimesOccur`
needs that the request of the API carries a time computed from the expression it
carries (`RequestOK`). `DueTimesFireOnce` counts: firings and claims outstanding
never exceed the times a row was given that due time (`Counts`), with equality
while nothing disturbs (`CountsExactly`); the equality is kept because a claim
moves one unit from the row to a replica. Every action does one of a few things
to a row (leaves it, deletes, writes, rewrites, claims or gives it up), so
counting is proved once per kind of change. `RepeatedHoursRunOnce` needs that
all times a row was given read differently and are no later than the one it has
(`PinnedOK`). The search for the next occurrence and the catching up are
recursive functions cut off at a bound; what they return is proved from the
library's well-founded order on finite sets (`Least`).

**PollsProofs.** `CursorsRemember` rests on `OwnerReads`: whoever holds the
lease read the cursor that is still in the row, so what it writes contains it, but
for what a feed's cap made it forget; a tick whose lease was taken over writes
nothing. That a cursor forgets only once more entries have appeared than it keeps
is counted (`Kept` against `arrived`, in `TickOK`). `NothingSkipped` says that items
below the cursor were queued or are excused, which `Counted` states of the row
and of what each tick will write; and that repeats are explained, which is an
account (`PaidInv`): the times an item was queued, the ticks that may still
queue it and the claim that may still find it unseen are together at most the
faults and publishes so far, for every item no cursor forgot.

**JsWorkersProofs.** `PoolInv` says of each process that it is in the idle list,
or one job's, or gone (`PoolInvariant`); `CountIsTrue` and `TenantsStayApart`
follow. A kill that was begun and comes late is followed to its process: either
the job still has it, or it was distrusted when it came back and is gone. With the
callbacks of a start, which a process remembers (`Excused`), this gives
`OnlyItsOwnKills`. `HonestAreTrusted` needs the protocol: `TalkInv` says that a
worker and its job are in one of four phases: it rests with nothing but late
replies on the way, or its job is the last frame on the way, or the job runs
with each waiting call unread, being answered or answered, in one place only, or
the result is the last thing it said. The nonce tells a late reply from one of
the job that runs, and a worker is put back only in the first phase.

**EventFeedProofs.** The four parts of the argument are about the flow of a
stream: what it was sent, what its subscription still replays and what its queue
holds, in this order. `FeedInv` says that the flow ascends within each publisher
and holds nothing newer than the last id, that a publisher is about to deliver
what comes after everything of its own there (`OrderInv`), that every event
after Last-Event-ID is in the flow or about to be delivered unless the client
was told of a loss (`MissInv`), and that the history is the last ids without a
gap. `EventsArriveInOrder` and `NothingIsMissed` follow; so does
`ReplayIsTheTail`: the model's Subscribe, whose guard picks a part of the
history, is never blocked.

**RunnerProofs** rest on one invariant about the two runs of a graph. The
uninterrupted run is an *orbit*: `Onward`, the model's Advance, applied to NewRun
again and again. `OrbitInv` says that `plain` is the end of an orbit, and that
`live` is at some state of it or is parked with a checkpoint from which resuming
is the orbit's next step (`Follows`). It is not enough to compare the traces, as
`ResumeIsTransparent` does: what a run does next depends on its stack, its
completed nodes and its loops, and a parked run has none of these but in the
checkpoint. The two steps that carry the proof are about a per-item run cut in
two, whose halves must add up to the output of the whole (`SplitItems`,
`ItemsResume`), and about the stack, whose entries lose their skipped mark in
the checkpoint and must get it back from the items they deliver (`Entry`,
`RestoredIs`). `TypeCorrect` and `ResumesTransparently` follow, and whatever
holds of every state of an orbit now holds of both runs.

`DeliveriesRunOnce` is such a fact. `Accounts` says of a run that the rows that
handed items to a node are as many as its runs, the deliveries its stack owes it
and the call a failed run stopped on (`Balanced`). Each invocation changes these
counts in one way: its row feeds certain nodes, and its push owes exactly them.
The fallback would break the balance, since it runs a node without a delivery;
that it never starts a counted node (`FallbackSpares`) needs that what a node is
known to have put out, a row of it did put out (`Backed`), so that such a node
was owed a run or had one. That a run which succeeded owes nothing needs
`Rooted`: an attachment that is not switched off has run or is on the stack.

`MergesComeLast` rests on `Merges`. What leads to a first Merge is done when the
fallback takes it, because the stack is stuck and nothing above is left to the
fallback; `Quiet` says that it stays so: what is on the stack and leads to a
Merge that ran waits for an attachment that is switched off. Whatever is pushed
later is right below a node that does not lead to the Merge, hence does not lead
to it either. This uses that Reaches is closed under edges, which is not how the
code computes it: its walk goes on for as many rounds as there are nodes, and a
round that finds nothing new is the end of it (`ReachableCloses`).

`LoopsHandOn` rests on `Loops`: a loop is on exactly when its runs since the last
one that ended form an open pass (`OpenAt`), and has then collected the inputs of
that pass but the first, in order. Each step of a run is a turn of the loop or
leaves it aside (`LoopTurns`). A pass is a set of rows that the property lists
upwards, so that one row more at the end is one input more at the end is proved
from there being one way to list numbers upwards (`OneOrder`).

The recursive parts of Runner are recursive functions over an interval and folds
of the community modules. What they return is proved without an induction over
data: a walk is a sequence of states, a property of its states is a subset of
the interval, and the least number outside would be a counterexample (`Least`,
`StaysIn`).

Only model-checked: liveness, because fairness and ENABLED are out of the
prover's reach (QueuedSettles, LeasedCancelCompletes, RunsReturn, CatchesUp,
ArrivalsAreQueued, FinishedStreamEnds); and `TameRunsEnd`, because how many rows a
tame graph needs is not bounded by its size alone: the bound is the instance's.
The two violated properties are false by their runs.

## 6. Not modelled

The repository has about 158 000 lines of Go, of which this project maps some
seven thousand that carry state from one step to the next. The rest is of three
kinds, and a model of it would be a transliteration or show nothing:

* sequential computation and conversion: the node implementations
  (`src/nodes`), the JavaScript runtime and its Intl tables
  (`src/internal/jsrun`), the n8n import (`src/internal/interop/n8n`),
  expressions, configuration. To Runner a node is what it does with its items;
* I/O and encryption: binaries, credentials and OAuth, mail, databases reached
  by nodes, confinement of worker processes;
* request mapping and presentation: HTTP handlers other than StreamEvents, the
  CLI, MCP, the web editor.

Within the modelled components: payloads, errors, tenancy checks, metrics and
logging; in the queue, child executions, error workflows and the static data
saved after a run; in the waits, the page a sweep reads and the armed timers as
such (both choose only which due wait is settled when); in idempotency, hashing
and key validation; in the feed, the per-tenant cap on streams, heartbeats, and
Forget, which nothing calls; in the runner, lineage, expression views, partial
executions and whole-batch nodes that report failed items themselves, the merge
modes other than append, and what a webhook or approval resume puts out; in
Publication, optimistic draft revisions, tags and folders; in Deliveries,
authentication, remote registration, waiting for a run's answer, and the fan-out
over several workflows, each of which is claimed by itself; in Schedules, how a
rule becomes an expression; in Polls, the fetching, and entries and mail that
disappear upstream.

## 7. Plan

1. Proofs: a bound on the rows of a tame run in terms of its graph, its items
   and its loops' iterations, which would replace TameRunsEnd by a theorem.
2. Components still to model, in this order: sub-workflows on top of
   ExecutionQueue, static data, the page of the wait sweep (orphan waits can
   fill it), retention and tenant purge, the rate limiter's arithmetic, the
   datastore's row versions.
