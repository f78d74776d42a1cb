-------------------------- MODULE WaitTransactions --------------------------
(***************************************************************************)
(* The transactions that end a durable wait, statement by statement, as    *)
(* PostgreSQL interleaves them at READ COMMITTED: SuspendExecution,        *)
(* ResumeWait, SettleExpiredWait, cancelWaiting, and Cancel's plain        *)
(* updates, on one execution and its rows of execution_waits.              *)
(*                                                                         *)
(* A SELECT reads what is committed and takes no lock. An UPDATE waits for *)
(* the row lock, then re-evaluates its WHERE on the committed row; it      *)
(* keeps the lock until the commit makes its change visible. A statement   *)
(* that matches no row is not an error, and the code does not look at      *)
(* RowsAffected except where noted. (On SQLite the pool holds one          *)
(* connection and each transaction is one step, see ExecutionQueue.)       *)
(*                                                                         *)
(* One worker at a time claims and runs the execution: its lease expires   *)
(* once it has died, never under a live one (see ExecutionQueue for those  *)
(* that lose it).                                                          *)
(***************************************************************************)
EXTENDS Naturals, Sequences

CONSTANTS
    Call,      \* concurrent resume calls, sweeps and cancel requests
    MaxWaits,  \* bound: suspensions of the execution
    MaxCalls   \* bound: calls ever made

ASSUME CallBounds == MaxWaits \in Nat /\ MaxCalls \in Nat

VARIABLES
    status,    \* executions.status, committed
    leased,    \* executions.lease_owner is the worker's lease, not empty
    waits,     \* execution_waits, committed, in id order
    worker,    \* where the worker is in its run
    call,      \* where each call is in its transaction
    made,      \* calls made so far
    starts,    \* history: claims from the queue that started each checkpoint,
               \* 0 a fresh run
    from,      \* history: the checkpoint the graph was started from last
    answers    \* history: calls that reported having ended each wait

vars == <<status, leased, waits, worker, call, made, starts, from, answers>>

Terminal == {"succeeded", "failed", "cancelled"}
Status == {"queued", "running", "waiting", "cancelling"} \cup Terminal
WaitId == 1 .. MaxWaits
Kind == {"resume", "requeue", "expire", "cancel"}
CallPhase == {"free", "readExec", "consume", "settleExec", "settleFirst",
              "findWait", "consumeLast", "commit", "overwrite"}

\* What each kind of call writes to the wait, and to the execution.
OutcomeOf == [resume |-> "resumed", requeue |-> "resumed", expire |-> "expired",
              cancel |-> "cancelled"]
StatusOf == [resume |-> "queued", requeue |-> "queued", expire |-> "failed",
             cancel |-> "cancelled"]

Wait == [mode : {"timer", "call"}, due : BOOLEAN,
         outcome : {"open", "resumed", "expired", "cancelled"}]

\* One call: the wait it works on, the status Cancel read, and which of its
\* updates matched a row, which is also which row locks it holds.
CallState == [pc : CallPhase, kind : Kind, wait : WaitId \cup {0}, seen : Status,
              hitWait : BOOLEAN, hitExec : BOOLEAN]
FreeCall == [pc |-> "free", kind |-> "resume", wait |-> 0, seen |-> "queued",
             hitWait |-> FALSE, hitExec |-> FALSE]

TypeOK ==
    /\ status \in Status
    /\ leased \in BOOLEAN
    /\ waits \in Seq(Wait) /\ Len(waits) <= MaxWaits
    /\ worker \in {"idle", "running", "inserting", "finishing"}
    /\ worker = "inserting" => Len(waits) < MaxWaits
    /\ call \in [Call -> CallState]
    /\ made \in 0 .. MaxCalls
    /\ starts \in [0 .. MaxWaits -> Nat]
    /\ from \in 0 .. MaxWaits
    /\ answers \in [WaitId -> Nat]

Init ==
    /\ status = "queued"
    /\ leased = FALSE
    /\ waits = <<>>
    /\ worker = "idle"
    /\ call = [c \in Call |-> FreeCall]
    /\ made = 0
    /\ starts = [k \in 0 .. MaxWaits |-> 0]
    /\ from = 0
    /\ answers = [i \in WaitId |-> 0]

-----------------------------------------------------------------------------
(* Row locks. *)

ExecLocked == \E c \in Call : call[c].hitExec
WaitLocked(i) == \E c \in Call : call[c].hitWait /\ call[c].wait = i

Open(i) == i \in DOMAIN waits /\ waits[i].outcome = "open"
Newest(S, i) == i \in S /\ \A j \in S : j <= i

-----------------------------------------------------------------------------
(* The worker. *)

\* Mutant: the first resumed wait is loaded instead of the latest.
ClaimFromFirst ==
    /\ worker = "idle" /\ status = "queued" /\ ~ExecLocked
    /\ status' = "running" /\ leased' = TRUE /\ worker' = "running"
    /\ \E k \in {0} \cup {i \in DOMAIN waits : waits[i].outcome = "resumed"} :
          /\ k = 0 <=> \A i \in DOMAIN waits : waits[i].outcome # "resumed"
          /\ \A j \in DOMAIN waits : waits[j].outcome = "resumed" => k <= j
          /\ starts' = [starts EXCEPT ![k] = @ + 1]
          /\ from' = k
    /\ UNCHANGED <<waits, call, made, answers>>

\* LoadResumeState: the latest wait consumed as resumed.
Latest(k) == Newest({0} \cup {i \in DOMAIN waits : waits[i].outcome = "resumed"}, k)

\* ClaimNext skips a locked row; the graph starts where the run stopped.
Claim ==
    /\ worker = "idle" /\ status = "queued" /\ ~ExecLocked
    /\ status' = "running" /\ leased' = TRUE /\ worker' = "running"
    /\ \E k \in 0 .. MaxWaits :
          /\ Latest(k)
          /\ starts' = [starts EXCEPT ![k] = @ + 1]
          /\ from' = k
    /\ UNCHANGED <<waits, call, made, answers>>

\* The worker dies, and with it the transaction it is in; its lease runs out.
Crash ==
    /\ worker # "idle"
    /\ worker' = "idle"
    /\ UNCHANGED <<status, leased, waits, call, made, starts, from, answers>>

\* ClaimNext on an expired lease: the graph starts again, or the row is settled
\* as crashed too often.
Reclaim ==
    /\ worker = "idle" /\ status = "running" /\ leased /\ ~ExecLocked
    /\ \/ /\ worker' = "running"
          /\ \E k \in 0 .. MaxWaits : Latest(k) /\ from' = k
          /\ UNCHANGED <<status, leased>>
       \/ /\ status' = "failed" /\ leased' = FALSE
          /\ UNCHANGED <<worker, from>>
    /\ UNCHANGED <<waits, call, made, starts, answers>>

\* SuspendExecution's read: the execution runs under the worker's lease, or
\* the transaction is refused and the row is left to its lease.
SuspendRead ==
    /\ worker = "running" /\ Len(waits) < MaxWaits
    /\ worker' = IF status = "running" /\ leased THEN "inserting" ELSE "idle"
    /\ UNCHANGED <<status, leased, waits, call, made, starts, from, answers>>

\* Its insert, its update of the execution and its commit: the wait is
\* inserted even when the update matches no row.
SuspendWrite ==
    /\ worker = "inserting" /\ ~ExecLocked
    /\ IF status = "running" /\ leased
       THEN status' = "waiting" /\ leased' = FALSE
       ELSE UNCHANGED <<status, leased>>
    /\ \E mode \in {"timer", "call"} :
          waits' = Append(waits, [mode |-> mode, due |-> FALSE, outcome |-> "open"])
    /\ worker' = "idle"
    /\ UNCHANGED <<call, made, starts, from, answers>>

\* UpdateRuntime's first update settles a requested cancellation.
FinishCancelling ==
    /\ worker = "running" /\ ~ExecLocked
    /\ IF status = "cancelling" /\ leased
       THEN status' = "cancelled" /\ leased' = FALSE /\ worker' = "idle"
       ELSE worker' = "finishing" /\ UNCHANGED <<status, leased>>
    /\ UNCHANGED <<waits, call, made, starts, from, answers>>

\* Its second update settles a running row; matching none is ErrNotFound.
FinishRunning ==
    /\ worker = "finishing" /\ ~ExecLocked
    /\ IF status = "running" /\ leased
       THEN leased' = FALSE /\ \E s \in {"succeeded", "failed"} : status' = s
       ELSE UNCHANGED <<status, leased>>
    /\ worker' = "idle"
    /\ UNCHANGED <<waits, call, made, starts, from, answers>>

\* A cancelling row whose worker is gone is claimed when its lease expires and
\* settled without running; one without a lease is never claimed.
RecoverCancelled ==
    /\ worker = "idle" /\ status = "cancelling" /\ leased /\ ~ExecLocked
    /\ status' = "cancelled" /\ leased' = FALSE
    /\ UNCHANGED <<waits, worker, call, made, starts, from, answers>>

-----------------------------------------------------------------------------
(* ResumeWait and SettleExpiredWait. *)

DeadlinePasses(i) ==
    /\ Open(i) /\ ~waits[i].due
    /\ waits' = [waits EXCEPT ![i].due = TRUE]
    /\ UNCHANGED <<status, leased, worker, call, made, starts, from, answers>>

\* A timer wait that is due re-queues (unless its checkpoint is unreadable),
\* any other fails; the token of a wait that is not due resumes it.
KindFits(kind, i) ==
    \/ kind = "resume" /\ ~waits[i].due
    \/ kind = "requeue" /\ waits[i].due /\ waits[i].mode = "timer"
    \/ kind = "expire" /\ waits[i].due

\* The wait is read by token (ResumeWait) or by id (SettleExpiredWait); a
\* consumed one is refused.
Begin(c, kind, i) ==
    /\ call[c].pc = "free" /\ made < MaxCalls
    /\ Open(i) /\ KindFits(kind, i)
    /\ made' = made + 1
    /\ call' = [call EXCEPT ![c] = [FreeCall EXCEPT !.pc = "readExec",
                                        !.kind = kind, !.wait = i]]
    /\ UNCHANGED <<status, leased, waits, worker, starts, from, answers>>

\* The execution is read; not waiting is refused as already consumed.
ReadExec(c) ==
    /\ call[c].pc = "readExec"
    /\ call' = [call EXCEPT ![c] = IF status = "waiting"
                                   THEN [@ EXCEPT !.pc = "consume"] ELSE FreeCall]
    /\ UNCHANGED <<status, leased, waits, worker, made, starts, from, answers>>

\* Mutant: the wait is updated without its consumed_at IS NULL guard.
ConsumeUnguarded(c) ==
    /\ call[c].pc = "consume" /\ ~WaitLocked(call[c].wait)
    /\ call' = [call EXCEPT ![c].pc = "settleExec", ![c].hitWait = TRUE]
    /\ UNCHANGED <<status, leased, waits, worker, made, starts, from, answers>>

\* UPDATE execution_waits ... WHERE id = ? AND consumed_at IS NULL.
Consume(c) ==
    /\ call[c].pc = "consume" /\ ~WaitLocked(call[c].wait)
    /\ call' = [call EXCEPT ![c].pc = "settleExec", ![c].hitWait = Open(call[c].wait)]
    /\ UNCHANGED <<status, leased, waits, worker, made, starts, from, answers>>

\* Mutant: the execution is updated without its status guard.
SettleExecUnguarded(c) ==
    /\ call[c].pc = "settleExec" /\ ~ExecLocked
    /\ call' = [call EXCEPT ![c].pc = "commit", ![c].hitExec = TRUE]
    /\ UNCHANGED <<status, leased, waits, worker, made, starts, from, answers>>

\* UPDATE executions ... WHERE id = ? AND status = 'waiting'.
SettleExec(c) ==
    /\ call[c].pc = "settleExec" /\ ~ExecLocked
    /\ call' = [call EXCEPT ![c].pc = "commit", ![c].hitExec = status = "waiting"]
    /\ UNCHANGED <<status, leased, waits, worker, made, starts, from, answers>>

\* Mutant: the execution is left waiting by the commit.
CommitKeepsExec(c) ==
    /\ call[c].pc = "commit"
    /\ waits' = IF call[c].hitWait
                THEN [waits EXCEPT ![call[c].wait].outcome = OutcomeOf[call[c].kind]]
                ELSE waits
    /\ call' = [call EXCEPT ![c] = FreeCall]
    /\ UNCHANGED <<status, leased, worker, made, starts, from, answers>>

\* The commit makes both changes visible and the caller is told it succeeded,
\* whichever of its updates matched.
Commit(c) ==
    LET i == call[c].wait IN
    /\ call[c].pc = "commit"
    /\ waits' = IF call[c].hitWait
                THEN [waits EXCEPT ![i].outcome = OutcomeOf[call[c].kind]] ELSE waits
    /\ status' = IF call[c].hitExec THEN StatusOf[call[c].kind] ELSE status
    /\ leased' = (leased /\ ~call[c].hitExec)
    /\ answers' = IF call[c].kind = "cancel" THEN answers
                  ELSE [answers EXCEPT ![i] = @ + 1]
    /\ call' = [call EXCEPT ![c] = FreeCall]
    /\ UNCHANGED <<worker, made, starts, from>>

-----------------------------------------------------------------------------
(* Cancel. *)

\* Cancel reads the row and answers a settled one at once.
CancelRead(c) ==
    /\ call[c].pc = "free" /\ made < MaxCalls
    /\ status \in {"queued", "running", "waiting"}
    /\ made' = made + 1
    /\ call' = [call EXCEPT ![c] = [FreeCall EXCEPT !.kind = "cancel",
                    !.pc = IF status = "waiting" THEN "settleFirst" ELSE "overwrite",
                    !.seen = status]]
    /\ UNCHANGED <<status, leased, waits, worker, starts, from, answers>>

\* A queued or running row is updated by id alone.
Overwrite(c) ==
    /\ call[c].pc = "overwrite" /\ ~ExecLocked
    /\ IF call[c].seen = "queued" THEN status' = "cancelled" /\ leased' = FALSE
                                  ELSE status' = "cancelling" /\ UNCHANGED leased
    /\ call' = [call EXCEPT ![c] = FreeCall]
    /\ UNCHANGED <<waits, worker, made, starts, from, answers>>

\* cancelWaiting updates the execution first and stops when that matched no
\* row.
CancelExec(c) ==
    /\ call[c].pc = "settleFirst" /\ ~ExecLocked
    /\ call' = [call EXCEPT ![c] = IF status = "waiting"
                  THEN [@ EXCEPT !.pc = "findWait", !.hitExec = TRUE] ELSE FreeCall]
    /\ UNCHANGED <<status, leased, waits, worker, made, starts, from, answers>>

\* It then looks up the newest open wait.
CancelFind(c) ==
    LET open == {i \in DOMAIN waits : Open(i)} IN
    /\ call[c].pc = "findWait"
    /\ IF open = {} THEN call' = [call EXCEPT ![c].pc = "commit"]
       ELSE \E i \in open : Newest(open, i) /\
               call' = [call EXCEPT ![c].pc = "consumeLast", ![c].wait = i]
    /\ UNCHANGED <<status, leased, waits, worker, made, starts, from, answers>>

\* And consumes it, unless somebody did meanwhile.
CancelConsume(c) ==
    /\ call[c].pc = "consumeLast" /\ ~WaitLocked(call[c].wait)
    /\ call' = [call EXCEPT ![c].pc = "commit", ![c].hitWait = Open(call[c].wait)]
    /\ UNCHANGED <<status, leased, waits, worker, made, starts, from, answers>>

-----------------------------------------------------------------------------
(* Deadlock detection of the database. *)

\* A call that waits for a row lock, and the call that holds it.
Blocks(d, c) ==
    \/ call[c].pc \in {"settleExec", "settleFirst"} /\ call[d].hitExec
    \/ /\ call[c].pc \in {"consume", "consumeLast"}
       /\ call[d].hitWait /\ call[d].wait = call[c].wait
Deadlocked(c) == \E d \in Call : Blocks(d, c) /\ Blocks(c, d)

\* One of two transactions that wait for each other is rolled back.
Rollback(c) ==
    /\ Deadlocked(c)
    /\ call' = [call EXCEPT ![c] = FreeCall]
    /\ UNCHANGED <<status, leased, waits, worker, made, starts, from, answers>>

-----------------------------------------------------------------------------
WorkerStep ==
    \/ Claim \/ SuspendRead \/ SuspendWrite
    \/ FinishCancelling \/ FinishRunning \/ RecoverCancelled
    \/ Crash \/ Reclaim

CallStep(c) ==
    \/ \E kind \in {"resume", "requeue", "expire"}, i \in WaitId : Begin(c, kind, i)
    \/ ReadExec(c) \/ Consume(c) \/ SettleExec(c) \/ Commit(c)
    \/ CancelRead(c) \/ Overwrite(c) \/ CancelExec(c) \/ CancelFind(c)
    \/ CancelConsume(c) \/ Rollback(c)

Next ==
    \/ WorkerStep
    \/ \E c \in Call : CallStep(c)
    \/ \E i \in WaitId : DeadlinePasses(i)

Spec == Init /\ [][Next]_vars

-----------------------------------------------------------------------------
(* What the row locks and the guards re-evaluated under them give. *)

\* A matched update holds its row in the state it matched until it commits,
\* and a row has one such holder.
LocksHold ==
    /\ \A c \in Call :
          /\ call[c].hitExec => status = "waiting"
          /\ call[c].hitWait => Open(call[c].wait)
          /\ call[c].hitExec => call[c].pc \in {"findWait", "consumeLast", "commit"}
          /\ call[c].hitWait => call[c].pc \in {"settleExec", "commit"}
          /\ call[c].pc \in {"findWait", "consumeLast"} => call[c].hitExec
    /\ \A c, d \in Call : c # d =>
          /\ ~(call[c].hitExec /\ call[d].hitExec)
          /\ ~(call[c].hitWait /\ call[d].hitWait /\ call[c].wait = call[d].wait)

\* A waiting execution has an open wait that no transaction is about to
\* consume without also moving the execution.
Wakeable ==
    status = "waiting" =>
        \E i \in DOMAIN waits :
            /\ Open(i)
            /\ \A c \in Call : call[c].hitWait /\ call[c].wait = i =>
                                call[c].pc = "settleExec" \/ call[c].hitExec

-----------------------------------------------------------------------------
(* Properties. *)

\* However resumes, sweeps and cancels interleave, a wait is consumed once:
\* its outcome never changes again.
ConsumedIsFinal ==
    [][\A i \in DOMAIN waits : waits[i].outcome # "open" =>
          i \in DOMAIN waits' /\ waits'[i].outcome = waits[i].outcome]_vars

\* An execution settled through its wait, or finished, never comes back to the
\* queue: the status guards of the late transactions hold it.
FinishedNeverRequeued ==
    [][(status \in Terminal) => status' \notin {"queued", "running", "waiting"}]_vars

\* A waiting execution always has an open wait behind it that a token or the
\* sweep can end: no interleaving parks it with nobody to wake it.
WaitingCanBeWoken ==
    status = "waiting" => \E i \in DOMAIN waits : Open(i)

\* One call at a time, as on SQLite, whose pool holds one connection.
OneCallAtATime ==
    \A c, d \in Call : call[c].pc # "free" /\ call[d].pc # "free" => c = d

\* The queue hands out each checkpoint once: only a crash starts one again.
CheckpointRunsOnce == \A k \in 0 .. MaxWaits : starts[k] <= 1

\* The graph runs from the newest checkpoint that was ever handed out.
RunsNewestStart ==
    worker # "idle" => Newest({0} \cup {k \in WaitId : starts[k] > 0}, from)

\* While calls do not overlap and no live worker loses its lease, a token or
\* deadline ends a wait for one caller, everybody else being refused; the queue
\* hands out each checkpoint once; and a worker that takes over from a dead one
\* starts the very checkpoint that one had been handed, whatever was suspended,
\* cancelled and refused meanwhile.
SerialCallsRunOnce ==
    []OneCallAtATime => [](/\ CheckpointRunsOnce /\ RunsNewestStart
                           /\ \A i \in WaitId : answers[i] <= 1)

=============================================================================
