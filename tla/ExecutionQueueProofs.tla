------------------------ MODULE ExecutionQueueProofs ------------------------
(***************************************************************************)
(* Proofs about the execution queue for every number of executions,        *)
(* workers, cancel requests, nodes, suspensions and faults.                *)
(***************************************************************************)
EXTENDS ExecutionQueue, FiniteSetTheorems, TLAPS

-----------------------------------------------------------------------------
(* Type correctness, one lemma per kind of step. *)

\* A worker that moves to a well-formed memory leaves the memory well-formed.
LEMMA WorkerMoves ==
  ASSUME StateTyped, NEW w \in Worker, NEW s \in WorkerState, PhaseOK(s),
         worker' = [worker EXCEPT ![w] = s]
  PROVE  WorkersTyped'
  BY DEF StateTyped, MemoryTyped, WorkersTyped

\* Releasing the worker (the end of runOnce) is such a move.
LEMMA ReleasedType ==
  ASSUME StateTyped, NEW w \in Worker, Released(w)
  PROVE  WorkersTyped'
  <1>1. IdleWorker \in WorkerState /\ PhaseOK(IdleWorker)
    BY DEF IdleWorker, WorkerState, PhaseOK, Phase, Outcome
  <1> QED
    BY <1>1, WorkerMoves DEF Released

\* A row that is let go with a status of the table, or left alone.
LEMMA RowType ==
  ASSUME StateTyped, NEW e \in Exec, NEW s \in Status,
         \/ /\ status' = [status EXCEPT ![e] = s]
            /\ owner' = [owner EXCEPT ![e] = 0]
            /\ lease' = [lease EXCEPT ![e] = "none"]
         \/ UNCHANGED <<status, owner, lease>>
  PROVE  /\ status' \in [Exec -> Status]
         /\ owner' \in [Exec -> Nat]
         /\ lease' \in [Exec -> {"none", "live", "expired"}]
  <1>1. /\ status \in [Exec -> Status] /\ owner \in [Exec -> Nat]
        /\ lease \in [Exec -> {"none", "live", "expired"}]
    BY DEF StateTyped, ColumnsTyped
  <1>2. CASE UNCHANGED <<status, owner, lease>>
    BY <1>1, <1>2
  <1>3. CASE /\ status' = [status EXCEPT ![e] = s]
             /\ owner' = [owner EXCEPT ![e] = 0]
             /\ lease' = [lease EXCEPT ![e] = "none"]
    BY <1>1, <1>3
  <1> QED
    BY <1>2, <1>3

\* The outcome a worker leaves behind.
LEMMA SettlerType ==
  ASSUME StateTyped, NEW w \in Worker, worker[w].exec \in Exec,
         SettledBy(w) \/ UNCHANGED settler
  PROVE  settler' \in [Exec -> [lease : Nat, seg : Nat]]
  <1>1. worker[w].lease \in Nat /\ worker[w].seg \in Nat
    BY DEF StateTyped, MemoryTyped, WorkersTyped, WorkerState
  <1>2. [lease |-> worker[w].lease, seg |-> worker[w].seg] \in [lease : Nat, seg : Nat]
    BY <1>1
  <1> QED
    BY <1>2 DEF StateTyped, ColumnsTyped, SettledBy

\* Queueing a row.
LEMMA QueueType ==
  ASSUME StateTyped, NEW e \in Exec, Queue(e)
  PROVE  StateTyped'
  <1>c. ColumnsTyped'
    BY DEF StateTyped, ColumnsTyped, Queue, Status, Terminal
  <1>t. TablesTyped'
    BY DEF StateTyped, TablesTyped, Queue
  <1>m. MemoryTyped'
    BY DEF StateTyped, MemoryTyped, WorkersTyped, Queue
  <1> QED
    BY <1>c, <1>t, <1>m DEF StateTyped

\* The claim transaction; the scan only settles rows of the table.
LEMMA ClaimNextType ==
  ASSUME StateTyped, NEW w \in Worker, NEW e \in Exec, ClaimNext(w, e)
  PROVE  StateTyped'
  <1>1. status' \in [Exec -> Status]
    BY DEF StateTyped, ColumnsTyped, ClaimNext, Status, Terminal
  <1>2. owner' \in [Exec -> Nat] /\ lease' \in [Exec -> {"none", "live", "expired"}]
    BY DEF StateTyped, ColumnsTyped, MemoryTyped, ClaimNext
  <1>3. reclaims' \in [Exec -> Nat]
    BY DEF StateTyped, ColumnsTyped, ClaimNext
  <1>c. ColumnsTyped'
    BY <1>1, <1>2, <1>3 DEF StateTyped, ColumnsTyped, ClaimNext
  <1>t. TablesTyped'
    BY DEF StateTyped, TablesTyped, ClaimNext
  <1>m. MemoryTyped'
    <2> DEFINE s == [IdleWorker EXCEPT !.pc = IF status[e] = "cancelling"
                                              THEN "recovering" ELSE "claimed",
                                       !.exec = e, !.lease = nextLease]
    <2>1. s \in WorkerState /\ PhaseOK(s)
      BY DEF StateTyped, MemoryTyped, IdleWorker, WorkerState, PhaseOK, Phase, Outcome
    <2>2. WorkersTyped'
      BY <2>1, WorkerMoves DEF ClaimNext
    <2> QED
      BY <2>2 DEF StateTyped, MemoryTyped, ClaimNext
  <1> QED
    BY <1>c, <1>t, <1>m DEF StateTyped

\* A claim that only settles crashed rows.
LEMMA ClaimSettlesOnlyType ==
  ASSUME StateTyped, NEW w \in Worker, ClaimSettlesOnly(w)
  PROVE  StateTyped'
  <1>c. ColumnsTyped'
    BY DEF StateTyped, ColumnsTyped, ClaimSettlesOnly, Status, Terminal
  <1>t. TablesTyped'
    BY DEF StateTyped, TablesTyped, ClaimSettlesOnly
  <1>m. MemoryTyped'
    BY DEF StateTyped, MemoryTyped, WorkersTyped, ClaimSettlesOnly
  <1> QED
    BY <1>c, <1>t, <1>m DEF StateTyped

\* The terminal write.
LEMMA UpdateRuntimeType ==
  ASSUME StateTyped, NEW w \in Worker, NEW outcome \in Terminal,
         worker[w].pc # "idle", UpdateRuntime(w, outcome)
  PROVE  StateTyped'
  <1>w. worker[w] \in WorkerState /\ PhaseOK(worker[w]) /\ WorkersTyped
    BY DEF StateTyped, MemoryTyped, WorkersTyped
  <1>e. worker[w].exec \in Exec
    BY <1>w DEF UpdateRuntime, PhaseOK
  <1>c. ColumnsTyped'
    <2>1. PICK s \in Status :
             \/ /\ status' = [status EXCEPT ![worker[w].exec] = s]
                /\ owner' = [owner EXCEPT ![worker[w].exec] = 0]
                /\ lease' = [lease EXCEPT ![worker[w].exec] = "none"]
             \/ UNCHANGED <<status, owner, lease>>
      BY DEF UpdateRuntime, Status, Terminal
    <2>2. settler' \in [Exec -> [lease : Nat, seg : Nat]]
      BY <1>e, SettlerType DEF UpdateRuntime
    <2> QED
      BY <1>e, <2>1, <2>2, RowType DEF StateTyped, ColumnsTyped, UpdateRuntime
  <1>t. TablesTyped'
    BY DEF StateTyped, TablesTyped, UpdateRuntime
  <1>m. MemoryTyped'
    BY ReleasedType DEF StateTyped, MemoryTyped, UpdateRuntime
  <1> QED
    BY <1>c, <1>t, <1>m DEF StateTyped

\* Loading the resume state and starting the graph.
LEMMA StartRunType ==
  ASSUME StateTyped, NEW w \in Worker, StartRun(w)
  PROVE  StateTyped'
  <1>w. worker[w] \in WorkerState /\ PhaseOK(worker[w]) /\ WorkersTyped
    BY DEF StateTyped, MemoryTyped, WorkersTyped
  <1>e. worker[w].exec \in Exec
    BY <1>w DEF StartRun, PhaseOK
  <1>c. ColumnsTyped'
    BY <1>e DEF StateTyped, ColumnsTyped, StartRun
  <1>t. TablesTyped'
    BY DEF StateTyped, TablesTyped, StartRun
  <1>m. MemoryTyped'
    <2>1. ResumePoints(worker[w].exec) \subseteq Nat
      BY <1>e DEF StateTyped, TablesTyped, ResumePoints
    <2>2. PICK k \in ResumePoints(worker[w].exec) :
            worker' = [worker EXCEPT ![w].pc = "running", ![w].seg = k]
      BY DEF StartRun
    <2> DEFINE s == [worker[w] EXCEPT !.pc = "running", !.seg = k]
    <2>3. s \in WorkerState /\ PhaseOK(s)
      BY <1>w, <1>e, <2>1 DEF StartRun, WorkerState, PhaseOK, Phase, Outcome, Terminal
    <2>4. worker' = [worker EXCEPT ![w] = s]
      BY <1>w, <2>2 DEF WorkerState, WorkersTyped
    <2>5. WorkersTyped'
      BY <2>3, <2>4, WorkerMoves
    <2> QED
      BY <2>5 DEF StateTyped, MemoryTyped, StartRun
  <1> QED
    BY <1>c, <1>t, <1>m DEF StateTyped

\* Executing a node and writing its row.
LEMMA RunNodeType ==
  ASSUME StateTyped, NEW w \in Worker, RunNode(w)
  PROVE  StateTyped'
  <1>w. worker[w] \in WorkerState /\ PhaseOK(worker[w]) /\ WorkersTyped
    BY DEF StateTyped, MemoryTyped, WorkersTyped
  <1>e. worker[w].exec \in Exec
    BY <1>w DEF RunNode, PhaseOK
  <1>c. ColumnsTyped'
    BY DEF StateTyped, ColumnsTyped, RunNode
  <1>t. TablesTyped'
    BY <1>w, <1>e DEF StateTyped, TablesTyped, RunNode, TraceRow, WorkerState
  <1>m. MemoryTyped'
    <2> DEFINE s == [worker[w] EXCEPT !.step = @ + 1]
    <2>1. s \in WorkerState /\ PhaseOK(s)
      BY <1>w DEF RunNode, WorkerState, PhaseOK, Phase, Outcome, Terminal
    <2>2. worker' = [worker EXCEPT ![w] = s]
      BY <1>w DEF RunNode, WorkerState, WorkersTyped
    <2>3. WorkersTyped'
      BY <2>1, <2>2, WorkerMoves
    <2> QED
      BY <2>3 DEF StateTyped, MemoryTyped, RunNode
  <1> QED
    BY <1>c, <1>t, <1>m DEF StateTyped

\* The end of a run segment.
LEMMA RunEndsType ==
  ASSUME StateTyped, NEW w \in Worker, NEW outcome \in Outcome, RunEnds(w, outcome)
  PROVE  StateTyped'
  <1>w. worker[w] \in WorkerState /\ PhaseOK(worker[w]) /\ WorkersTyped
    BY DEF StateTyped, MemoryTyped, WorkersTyped
  <1>e. worker[w].exec \in Exec
    BY <1>w DEF RunEnds, PhaseOK
  <1>c. ColumnsTyped'
    BY DEF StateTyped, ColumnsTyped, RunEnds
  <1>t. TablesTyped'
    BY DEF StateTyped, TablesTyped, RunEnds
  <1>m. MemoryTyped'
    <2> DEFINE s == [worker[w] EXCEPT
                       !.pc = IF outcome \in {"timer", "call"}
                              THEN "suspending" ELSE "flushing",
                       !.out = outcome, !.ctx = FALSE]
    <2>1. s \in WorkerState /\ PhaseOK(s)
      BY <1>w DEF RunEnds, WorkerState, PhaseOK, Phase, Outcome, Terminal
    <2>2. worker' = [worker EXCEPT ![w] = s]
      BY <1>w DEF RunEnds, WorkerState, WorkersTyped
    <2>3. WorkersTyped'
      BY <2>1, <2>2, WorkerMoves
    <2> QED
      BY <2>3 DEF StateTyped, MemoryTyped, RunEnds
  <1> QED
    BY <1>c, <1>t, <1>m DEF StateTyped

\* Writing one row of a suspending segment.
LEMMA PersistTraceRowType ==
  ASSUME StateTyped, NEW w \in Worker, PersistTraceRow(w)
  PROVE  StateTyped'
  <1>w. worker[w] \in WorkerState /\ PhaseOK(worker[w]) /\ WorkersTyped
    BY DEF StateTyped, MemoryTyped, WorkersTyped
  <1>e. worker[w].exec \in Exec
    BY <1>w DEF PersistTraceRow, PhaseOK
  <1>r. MissingRows(w) \subseteq TraceRow
    BY <1>w DEF MissingRows, TraceRow, WorkerState
  <1>c. ColumnsTyped'
    BY DEF StateTyped, ColumnsTyped, PersistTraceRow
  <1>t. TablesTyped'
    BY <1>e, <1>r DEF StateTyped, TablesTyped, PersistTraceRow
  <1>m. MemoryTyped'
    <2> DEFINE s == [worker[w] EXCEPT !.pc = "parking"]
    <2>1. s \in WorkerState /\ PhaseOK(s)
      BY <1>w DEF PersistTraceRow, WorkerState, PhaseOK, Phase, Outcome, Terminal
    <2>2. \/ worker' = [worker EXCEPT ![w] = s]
          \/ Released(w)
          \/ UNCHANGED worker
      BY <1>w DEF PersistTraceRow, Goes, WorkerState, WorkersTyped
    <2>3. WorkersTyped'
      BY <1>w, <2>1, <2>2, WorkerMoves, ReleasedType DEF WorkersTyped
    <2> QED
      BY <2>3 DEF StateTyped, MemoryTyped, PersistTraceRow
  <1> QED
    BY <1>c, <1>t, <1>m DEF StateTyped

\* The terminal trace transaction.
LEMMA CreateNodeRunsType ==
  ASSUME StateTyped, NEW w \in Worker, CreateNodeRuns(w)
  PROVE  StateTyped'
  <1>w. worker[w] \in WorkerState /\ PhaseOK(worker[w]) /\ WorkersTyped
    BY DEF StateTyped, MemoryTyped, WorkersTyped
  <1>e. worker[w].exec \in Exec
    BY <1>w DEF CreateNodeRuns, PhaseOK
  <1>r. MissingRows(w) \subseteq TraceRow
    BY <1>w DEF MissingRows, TraceRow, WorkerState
  <1>c. ColumnsTyped'
    BY DEF StateTyped, ColumnsTyped, CreateNodeRuns
  <1>t. TablesTyped'
    BY <1>r DEF StateTyped, TablesTyped, CreateNodeRuns
  <1>m. MemoryTyped'
    <2> DEFINE s == [worker[w] EXCEPT !.pc = "settling"]
               f == [worker[w] EXCEPT !.pc = "settling", !.out = "failed"]
    <2>1. /\ s \in WorkerState /\ PhaseOK(s)
          /\ f \in WorkerState /\ PhaseOK(f)
      BY <1>w DEF CreateNodeRuns, WorkerState, PhaseOK, Phase, Outcome, Terminal
    <2>2. worker' = [worker EXCEPT ![w] = s] \/ worker' = [worker EXCEPT ![w] = f]
      BY <1>w DEF CreateNodeRuns, Goes, WorkerState, WorkersTyped
    <2>3. WorkersTyped'
      BY <2>1, <2>2, WorkerMoves
    <2> QED
      BY <2>3 DEF StateTyped, MemoryTyped, CreateNodeRuns
  <1> QED
    BY <1>c, <1>t, <1>m DEF StateTyped

\* A lease renewal.
LEMMA HeartbeatType ==
  ASSUME StateTyped, NEW w \in Worker, Heartbeat(w)
  PROVE  StateTyped'
  <1>w. worker[w] \in WorkerState /\ PhaseOK(worker[w]) /\ WorkersTyped
    BY DEF StateTyped, MemoryTyped, WorkersTyped
  <1>c. ColumnsTyped'
    BY DEF StateTyped, ColumnsTyped, Heartbeat
  <1>t. TablesTyped'
    BY DEF StateTyped, TablesTyped, Heartbeat
  <1>m. MemoryTyped'
    <2> DEFINE s == [worker[w] EXCEPT !.ctx = TRUE]
    <2>1. s \in WorkerState /\ PhaseOK(s)
      BY <1>w DEF WorkerState, PhaseOK, Phase, Outcome, Terminal
    <2>2. worker' = [worker EXCEPT ![w] = s] \/ UNCHANGED worker
      BY <1>w DEF Heartbeat, WorkerState, WorkersTyped
    <2>3. WorkersTyped'
      BY <1>w, <2>1, <2>2, WorkerMoves DEF WorkersTyped
    <2> QED
      BY <2>3 DEF StateTyped, MemoryTyped, Heartbeat
  <1> QED
    BY <1>c, <1>t, <1>m DEF StateTyped

\* The cancellation poll.
LEMMA PollCancellationType ==
  ASSUME StateTyped, NEW w \in Worker, PollCancellation(w)
  PROVE  StateTyped'
  <1>w. worker[w] \in WorkerState /\ PhaseOK(worker[w]) /\ WorkersTyped
    BY DEF StateTyped, MemoryTyped, WorkersTyped
  <1>c. ColumnsTyped'
    BY DEF StateTyped, ColumnsTyped, PollCancellation, rowVars
  <1>t. TablesTyped'
    BY DEF StateTyped, TablesTyped, PollCancellation
  <1>m. MemoryTyped'
    <2> DEFINE s == [worker[w] EXCEPT !.ctx = TRUE]
    <2>1. s \in WorkerState /\ PhaseOK(s)
      BY <1>w DEF PollCancellation, WorkerState, PhaseOK, Phase, Outcome, Terminal
    <2>2. worker' = [worker EXCEPT ![w] = s]
      BY <1>w DEF PollCancellation, WorkerState, WorkersTyped
    <2>3. WorkersTyped'
      BY <2>1, <2>2, WorkerMoves
    <2> QED
      BY <2>3 DEF StateTyped, MemoryTyped, PollCancellation
  <1> QED
    BY <1>c, <1>t, <1>m DEF StateTyped

\* Graceful shutdown.
LEMMA ShutdownType ==
  ASSUME StateTyped, NEW w \in Worker, Shutdown(w)
  PROVE  StateTyped'
  <1>w. worker[w] \in WorkerState /\ PhaseOK(worker[w]) /\ WorkersTyped
    BY DEF StateTyped, MemoryTyped, WorkersTyped
  <1>c. ColumnsTyped'
    BY DEF StateTyped, ColumnsTyped, Shutdown, rowVars
  <1>t. TablesTyped'
    BY DEF StateTyped, TablesTyped, Shutdown
  <1>m. MemoryTyped'
    <2> DEFINE s == [worker[w] EXCEPT !.ctx = TRUE]
    <2>1. s \in WorkerState /\ PhaseOK(s)
      BY <1>w DEF Shutdown, WorkerState, PhaseOK, Phase, Outcome, Terminal
    <2>2. worker' = [worker EXCEPT ![w] = s]
      BY <1>w DEF Shutdown, WorkerState, WorkersTyped
    <2>3. WorkersTyped'
      BY <2>1, <2>2, WorkerMoves
    <2> QED
      BY <2>3 DEF StateTyped, MemoryTyped, Shutdown
  <1> QED
    BY <1>c, <1>t, <1>m DEF StateTyped

\* A crash or a write that fails for good.
LEMMA AbandonType ==
  ASSUME StateTyped, NEW w \in Worker, Abandon(w)
  PROVE  StateTyped'
  <1>c. ColumnsTyped'
    BY DEF StateTyped, ColumnsTyped, Abandon, rowVars
  <1>t. TablesTyped'
    BY DEF StateTyped, TablesTyped, Abandon
  <1>m. MemoryTyped'
    BY ReleasedType DEF StateTyped, MemoryTyped, Abandon
  <1> QED
    BY <1>c, <1>t, <1>m DEF StateTyped

\* The lease clock running out.
LEMMA LeaseExpiresType ==
  ASSUME StateTyped, NEW e \in Exec, LeaseExpires(e)
  PROVE  StateTyped'
  <1>c. ColumnsTyped'
    BY DEF StateTyped, ColumnsTyped, LeaseExpires
  <1>t. TablesTyped'
    BY DEF StateTyped, TablesTyped, LeaseExpires
  <1>m. MemoryTyped'
    BY DEF StateTyped, MemoryTyped, WorkersTyped, LeaseExpires
  <1> QED
    BY <1>c, <1>t, <1>m DEF StateTyped

\* The lease clock overtaking a stalled holder.
LEMMA HolderStallsType ==
  ASSUME StateTyped, NEW e \in Exec, HolderStalls(e)
  PROVE  StateTyped'
  <1>c. ColumnsTyped'
    BY DEF StateTyped, ColumnsTyped, HolderStalls
  <1>t. TablesTyped'
    BY DEF StateTyped, TablesTyped, HolderStalls
  <1>m. MemoryTyped'
    BY DEF StateTyped, MemoryTyped, WorkersTyped, HolderStalls
  <1> QED
    BY <1>c, <1>t, <1>m DEF StateTyped

\* Rewriting one column of one wait leaves the table well-formed.
LEMMA WaitChanges ==
  ASSUME StateTyped, NEW e \in Exec, NEW i \in DOMAIN waits[e],
         NEW d \in BOOLEAN, NEW o \in {"open", "resumed", "expired", "cancelled"}
  PROVE  /\ [waits EXCEPT ![e][i].due = d] \in [Exec -> Seq(Wait)]
         /\ [waits EXCEPT ![e][i].outcome = o] \in [Exec -> Seq(Wait)]
  <1>1. waits \in [Exec -> Seq(Wait)] /\ waits[e] \in Seq(Wait)
    BY DEF StateTyped, TablesTyped
  <1>2. waits[e][i] \in Wait
    BY <1>1
  <1> DEFINE dued == [waits[e][i] EXCEPT !.due = d]
             ended == [waits[e][i] EXCEPT !.outcome = o]
  <1>3. dued \in Wait /\ ended \in Wait
    BY <1>2 DEF Wait
  <1> HIDE DEF dued, ended
  <1>4. /\ [waits[e] EXCEPT ![i] = dued] \in Seq(Wait)
        /\ [waits[e] EXCEPT ![i] = ended] \in Seq(Wait)
    BY <1>1, <1>3
  <1> QED
    BY <1>1, <1>4 DEF dued, ended

\* The clock reaching the deadline of a wait.
LEMMA DeadlinePassesType ==
  ASSUME StateTyped, NEW e \in Exec, NEW i, DeadlinePasses(e, i)
  PROVE  StateTyped'
  <1>c. ColumnsTyped'
    BY DEF StateTyped, ColumnsTyped, DeadlinePasses, rowVars
  <1>t. TablesTyped'
    BY WaitChanges DEF StateTyped, TablesTyped, DeadlinePasses
  <1>m. MemoryTyped'
    BY DEF StateTyped, MemoryTyped, WorkersTyped, DeadlinePasses
  <1> QED
    BY <1>c, <1>t, <1>m DEF StateTyped

\* A resume by token.
LEMMA ResumeWaitType ==
  ASSUME StateTyped, NEW e \in Exec, NEW i, ResumeWait(e, i)
  PROVE  StateTyped'
  <1>c. ColumnsTyped'
    BY DEF StateTyped, ColumnsTyped, ResumeWait, Status, Terminal
  <1>t. TablesTyped'
    BY WaitChanges DEF StateTyped, TablesTyped, ResumeWait
  <1>m. MemoryTyped'
    BY DEF StateTyped, MemoryTyped, WorkersTyped, ResumeWait
  <1> QED
    BY <1>c, <1>t, <1>m DEF StateTyped

\* The sweep settling a due wait.
LEMMA SettleExpiredWaitType ==
  ASSUME StateTyped, NEW e \in Exec, NEW i, SettleExpiredWait(e, i)
  PROVE  StateTyped'
  <1>1. waits' \in [Exec -> Seq(Wait)]
    <2>1. /\ [waits EXCEPT ![e][i].outcome = "resumed"] \in [Exec -> Seq(Wait)]
          /\ [waits EXCEPT ![e][i].outcome = "expired"] \in [Exec -> Seq(Wait)]
      BY WaitChanges DEF SettleExpiredWait
    <2> QED
      BY <2>1 DEF SettleExpiredWait
  <1>c. ColumnsTyped'
    BY DEF StateTyped, ColumnsTyped, SettleExpiredWait, Status, Terminal
  <1>t. TablesTyped'
    BY <1>1 DEF StateTyped, TablesTyped, SettleExpiredWait
  <1>m. MemoryTyped'
    BY DEF StateTyped, MemoryTyped, WorkersTyped, SettleExpiredWait
  <1> QED
    BY <1>c, <1>t, <1>m DEF StateTyped

\* The read of a cancel request.
LEMMA CancelReadType ==
  ASSUME StateTyped, NEW c \in Caller, NEW e \in Exec, CancelRead(c, e)
  PROVE  StateTyped'
  <1>c. ColumnsTyped'
    BY DEF StateTyped, ColumnsTyped, CancelRead, rowVars
  <1>t. TablesTyped'
    BY DEF StateTyped, TablesTyped, CancelRead
  <1>m. MemoryTyped'
    <2>1. [FreeCaller EXCEPT !.exec = e, !.seen = status[e]] \in CallerState
      BY DEF StateTyped, ColumnsTyped, FreeCaller, CallerState, Intent
    <2> QED
      BY <2>1 DEF StateTyped, MemoryTyped, WorkersTyped, CancelRead
  <1> QED
    BY <1>c, <1>t, <1>m DEF StateTyped

\* cancelWaiting settles the newest open wait and adds a row to the trace.
LEMMA CancelWaitingType ==
  ASSUME StateTyped, NEW e \in Exec, CancelWaiting(e)
  PROVE  /\ waits' \in [Exec -> Seq(Wait)]
         /\ trace' \in [Exec -> SUBSET TraceRow]
         /\ status' \in [Exec -> Status]
         /\ owner' \in [Exec -> Nat]
         /\ lease' \in [Exec -> {"none", "live", "expired"}]
  <1> DEFINE settled == [i \in DOMAIN waits[e] |->
                  IF waits[e][i].outcome = "open" /\ \A j \in DOMAIN waits[e] :
                        waits[e][j].outcome = "open" => j <= i
                  THEN [waits[e][i] EXCEPT !.outcome = "cancelled"] ELSE waits[e][i]]
             row == [seg |-> Len(waits[e]), step |-> 0, by |-> 0]
  <1>1. /\ waits \in [Exec -> Seq(Wait)] /\ waits[e] \in Seq(Wait)
        /\ trace \in [Exec -> SUBSET TraceRow]
    BY DEF StateTyped, TablesTyped
  <1>2. DOMAIN waits[e] = 1 .. Len(waits[e]) /\ Len(waits[e]) \in Nat
    BY <1>1
  <1>3. ASSUME NEW i \in DOMAIN waits[e]
        PROVE  waits[e][i] \in Wait /\ [waits[e][i] EXCEPT !.outcome = "cancelled"] \in Wait
    <2>1. waits[e][i] \in Wait
      BY <1>1
    <2> QED
      BY <2>1 DEF Wait
  <1>4. settled \in [1 .. Len(waits[e]) -> Wait]
    BY <1>2, <1>3
  <1>5. settled \in Seq(Wait) /\ row \in TraceRow
    BY <1>2, <1>4 DEF TraceRow
  <1>6. status[e] = "waiting" =>
          /\ waits' = [waits EXCEPT ![e] = settled]
          /\ trace' = [trace EXCEPT ![e] = @ \cup {row}]
    BY <1>1 DEF CancelWaiting
  <1>7. status[e] # "waiting" => UNCHANGED <<waits, trace>>
    BY DEF CancelWaiting
  <1> HIDE DEF settled, row
  <1>8. waits' \in [Exec -> Seq(Wait)] /\ trace' \in [Exec -> SUBSET TraceRow]
    BY <1>1, <1>5, <1>6, <1>7
  <1>9. /\ status' \in [Exec -> Status]
        /\ owner' \in [Exec -> Nat]
        /\ lease' \in [Exec -> {"none", "live", "expired"}]
    <2>1. CASE status[e] = "waiting"
      <3>1. /\ status' = [status EXCEPT ![e] = "cancelled"]
            /\ owner' = [owner EXCEPT ![e] = 0]
            /\ lease' = [lease EXCEPT ![e] = "none"]
        BY <2>1 DEF CancelWaiting
      <3> QED
        BY <3>1 DEF StateTyped, ColumnsTyped, Status, Terminal
    <2>2. CASE status[e] # "waiting"
      BY <2>2 DEF StateTyped, ColumnsTyped, CancelWaiting
    <2> QED
      BY <2>1, <2>2
  <1> QED
    BY <1>8, <1>9

\* The write of a cancel request, whatever status it read.
LEMMA CancelWriteType ==
  ASSUME StateTyped, NEW c \in Caller, CancelWrite(c)
  PROVE  StateTyped'
  <1> DEFINE e == caller[c].exec
  <1>1. e \in Exec
    BY DEF StateTyped, MemoryTyped, CallerState, CancelWrite
  <1>2. \/ CancelWaiting(e)
        \/ CancelQueued(e)
        \/ CancelRunning(e)
        \/ UNCHANGED <<status, owner, lease, waits, trace>>
    BY DEF CancelWrite
  <1>3. UNCHANGED <<reclaims, runs, parks, settler>>
    BY DEF CancelWrite
  <1> HIDE DEF e
  <1>4. /\ waits' \in [Exec -> Seq(Wait)]
        /\ trace' \in [Exec -> SUBSET TraceRow]
        /\ status' \in [Exec -> Status]
        /\ owner' \in [Exec -> Nat]
        /\ lease' \in [Exec -> {"none", "live", "expired"}]
    <2>1. CASE CancelWaiting(e)
      BY <1>1, <2>1, CancelWaitingType
    <2>2. CASE CancelQueued(e)
      BY <1>1, <2>2 DEF CancelQueued, StateTyped, ColumnsTyped, TablesTyped, Status, Terminal
    <2>3. CASE CancelRunning(e)
      BY <1>1, <2>3 DEF CancelRunning, StateTyped, ColumnsTyped, TablesTyped, Status
    <2>4. CASE UNCHANGED <<status, owner, lease, waits, trace>>
      BY <2>4 DEF StateTyped, ColumnsTyped, TablesTyped
    <2> QED
      BY <1>2, <2>1, <2>2, <2>3, <2>4
  <1>c. ColumnsTyped'
    BY <1>3, <1>4 DEF StateTyped, ColumnsTyped
  <1>t. TablesTyped'
    BY <1>4 DEF TablesTyped
  <1>m. MemoryTyped'
    <2>1. FreeCaller \in CallerState
      BY DEF FreeCaller, CallerState, Status, Intent
    <2> QED
      BY <2>1 DEF StateTyped, MemoryTyped, WorkersTyped, CancelWrite
  <1> QED
    BY <1>c, <1>t, <1>m DEF StateTyped

\* The writes of a resume or of a sweep.
LEMMA EndWriteType ==
  ASSUME StateTyped, NEW c \in Caller, EndWrite(c)
  PROVE  StateTyped'
  <1> DEFINE e == caller[c].exec
             i == caller[c].wait
  <1>1. e \in Exec
    BY DEF StateTyped, MemoryTyped, CallerState, EndWrite
  <1>2. \/ waits' = [waits EXCEPT ![e][i].outcome = "expired"]
        \/ waits' = [waits EXCEPT ![e][i].outcome = "resumed"]
        \/ waits' = waits
    BY DEF EndWrite
  <1>3. UNCHANGED <<reclaims, trace, worker, nextLease, faults, runs, parks, settler>>
    BY DEF EndWrite
  <1>4. \/ /\ \/ status' = [status EXCEPT ![e] = "failed"]
              \/ status' = [status EXCEPT ![e] = "queued"]
           /\ owner' = [owner EXCEPT ![e] = 0]
           /\ lease' = [lease EXCEPT ![e] = "none"]
        \/ UNCHANGED <<status, owner, lease>>
    BY DEF EndWrite
  <1>5. caller' = [caller EXCEPT ![c] = FreeCaller]
    BY DEF EndWrite
  <1> HIDE DEF e, i
  <1>c. ColumnsTyped'
    <2>1. {"failed", "queued"} \subseteq Status
      BY DEF Status, Terminal
    <2>2. /\ status' \in [Exec -> Status]
          /\ owner' \in [Exec -> Nat]
          /\ lease' \in [Exec -> {"none", "live", "expired"}]
      BY <1>1, <1>4, <2>1, RowType
    <2> QED
      BY <1>3, <2>2 DEF StateTyped, ColumnsTyped
  <1>t. TablesTyped'
    <2>1. waits' \in [Exec -> Seq(Wait)]
      <3>1. CASE i \in DOMAIN waits[e]
        <4>1. /\ [waits EXCEPT ![e][i].outcome = "resumed"] \in [Exec -> Seq(Wait)]
              /\ [waits EXCEPT ![e][i].outcome = "expired"] \in [Exec -> Seq(Wait)]
          BY <1>1, <3>1, WaitChanges
        <4> QED
          BY <1>2, <4>1 DEF StateTyped, TablesTyped
      <3>2. CASE i \notin DOMAIN waits[e]
        <4>1. waits \in [Exec -> Seq(Wait)] /\ waits[e] \in Seq(Wait)
          BY <1>1 DEF StateTyped, TablesTyped
        <4>2. ASSUME NEW o
              PROVE  [waits EXCEPT ![e] = [waits[e] EXCEPT ![i].outcome = o]] = waits
          <5> DEFINE same == [waits[e] EXCEPT ![i].outcome = o]
          <5>0. waits[e] \in [1 .. Len(waits[e]) -> Wait]
            BY <4>1
          <5>1. same = waits[e]
            BY <3>2, <5>0
          <5>2. [waits EXCEPT ![e] = waits[e]] = waits
            BY <4>1
          <5> QED
            BY <5>1, <5>2
        <4>3. waits' = waits
          BY <1>2, <4>2
        <4> QED
          BY <4>1, <4>3
      <3> QED
        BY <3>1, <3>2
    <2> QED
      BY <1>3, <2>1 DEF StateTyped, TablesTyped
  <1>m. MemoryTyped'
    <2>1. FreeCaller \in CallerState
      BY DEF FreeCaller, CallerState, Status, Intent
    <2> QED
      BY <1>3, <1>5, <2>1 DEF StateTyped, MemoryTyped, WorkersTyped
  <1> QED
    BY <1>c, <1>t, <1>m DEF StateTyped

\* The initial tables are empty and every worker is idle.
\* The forms that others commit inside: the fence is read and the rows drawn up.
LEMMA ReadFenceType ==
  ASSUME StateTyped, NEW w \in Worker, ReadFence(w)
  PROVE  StateTyped'
  <1>w. worker[w] \in WorkerState /\ PhaseOK(worker[w]) /\ WorkersTyped
    BY DEF StateTyped, MemoryTyped, WorkersTyped
  <1>r. MissingRows(w) \subseteq TraceRow
    BY <1>w DEF MissingRows, TraceRow, WorkerState
  <1>c. ColumnsTyped'
    BY DEF StateTyped, ColumnsTyped, ReadFence, rowVars
  <1>t. TablesTyped'
    BY DEF StateTyped, TablesTyped, ReadFence
  <1>m. MemoryTyped'
    <2> DEFINE next == [seg |-> worker[w].seg, step |-> worker[w].step + 1,
                        by |-> worker[w].lease]
    <2>1. PICK k \in Nat, d \in SUBSET TraceRow :
             worker' = [worker EXCEPT ![w].step = k, ![w].draft = d]
      <3>1. /\ worker[w].step + 1 \in Nat /\ {next} \in SUBSET TraceRow
            /\ worker[w].step \in Nat
        BY <1>w DEF WorkerState, TraceRow
      <3>2. CASE worker' = [worker EXCEPT ![w].step = worker[w].step + 1,
                                          ![w].draft = {next}]
        BY <3>1, <3>2
      <3>3. ASSUME NEW d \in SUBSET TraceRow, worker' = [worker EXCEPT ![w].draft = d]
            PROVE  worker' = [worker EXCEPT ![w].step = worker[w].step, ![w].draft = d]
        BY <1>w, <3>3 DEF WorkerState, WorkersTyped
      <3>4. \/ worker' = [worker EXCEPT ![w].step = worker[w].step + 1,
                                        ![w].draft = {next}]
            \/ \E d \in SUBSET TraceRow : worker' = [worker EXCEPT ![w].draft = d]
        BY <1>r DEF ReadFence
      <3> QED
        BY <3>1, <3>2, <3>3, <3>4
    <2> DEFINE s == [worker[w] EXCEPT !.step = k, !.draft = d]
    <2>2. s \in WorkerState /\ PhaseOK(s)
      BY <1>w DEF WorkerState, PhaseOK
    <2>3. worker' = [worker EXCEPT ![w] = s]
      BY <1>w, <2>1 DEF WorkerState, WorkersTyped
    <2>4. WorkersTyped'
      BY <2>2, <2>3, WorkerMoves
    <2> QED
      BY <2>4 DEF StateTyped, MemoryTyped, ReadFence
  <1> QED
    BY <1>c, <1>t, <1>m DEF StateTyped

\* The insert of the rows drawn up.
LEMMA InsertRowsType ==
  ASSUME StateTyped, NEW w \in Worker, InsertRows(w)
  PROVE  StateTyped'
  <1>w. worker[w] \in WorkerState /\ PhaseOK(worker[w]) /\ WorkersTyped
    BY DEF StateTyped, MemoryTyped, WorkersTyped
  <1>c. ColumnsTyped'
    BY DEF StateTyped, ColumnsTyped, InsertRows, rowVars
  <1>t. TablesTyped'
    <2>1. worker[w].draft \subseteq TraceRow
      BY <1>w DEF WorkerState
    <2>2. \/ trace' = [trace EXCEPT ![worker[w].exec] = @ \cup worker[w].draft]
          \/ UNCHANGED trace
      BY DEF InsertRows
    <2>3. UNCHANGED waits
      BY DEF InsertRows
    <2> QED
      BY <2>1, <2>2, <2>3 DEF StateTyped, TablesTyped
  <1>m. MemoryTyped'
    <2> DEFINE a == [worker[w] EXCEPT !.draft = {}]
               b == [worker[w] EXCEPT !.draft = {}, !.pc = "settling"]
               f == [worker[w] EXCEPT !.draft = {}, !.pc = "settling", !.out = "failed"]
    <2>1. /\ a \in WorkerState /\ PhaseOK(a)
          /\ worker[w].pc = "flushing" => /\ b \in WorkerState /\ PhaseOK(b)
                                          /\ f \in WorkerState /\ PhaseOK(f)
      BY <1>w DEF WorkerState, PhaseOK, Phase, Outcome, Terminal
    <2>2. \/ worker' = [worker EXCEPT ![w] = a]
          \/ worker[w].pc = "flushing" /\ worker' = [worker EXCEPT ![w] = b]
          \/ worker[w].pc = "flushing" /\ worker' = [worker EXCEPT ![w] = f]
          \/ Released(w)
      BY <1>w DEF InsertRows, WorkerState, WorkersTyped
    <2>3. WorkersTyped'
      BY <2>1, <2>2, WorkerMoves, ReleasedType
    <2> QED
      BY <2>3 DEF StateTyped, MemoryTyped, InsertRows
  <1> QED
    BY <1>c, <1>t, <1>m DEF StateTyped

\* A read that only moves the worker on to its write.
LEMMA WorkerReadsType ==
  ASSUME StateTyped, NEW w \in Worker, SuspendRead(w) \/ SettleFirst(w)
  PROVE  StateTyped'
  <1>w. worker[w] \in WorkerState /\ PhaseOK(worker[w]) /\ WorkersTyped
    BY DEF StateTyped, MemoryTyped, WorkersTyped
  <1>c. ColumnsTyped'
    BY DEF StateTyped, ColumnsTyped, SuspendRead, SettleFirst, rowVars
  <1>t. TablesTyped'
    BY DEF StateTyped, TablesTyped, SuspendRead, SettleFirst
  <1>m. MemoryTyped'
    <2> DEFINE a == [worker[w] EXCEPT !.pc = "inserting"]
               b == [worker[w] EXCEPT !.pc = "finishing"]
    <2>1. \/ a \in WorkerState /\ PhaseOK(a) /\ worker' = [worker EXCEPT ![w] = a]
          \/ b \in WorkerState /\ PhaseOK(b) /\ worker' = [worker EXCEPT ![w] = b]
      BY <1>w DEF SuspendRead, SettleFirst, Goes, WorkerState, WorkersTyped, PhaseOK,
                  Phase, Outcome, Terminal
    <2>2. WorkersTyped'
      BY <2>1, WorkerMoves
    <2> QED
      BY <2>2 DEF StateTyped, MemoryTyped, SuspendRead, SettleFirst
  <1> QED
    BY <1>c, <1>t, <1>m DEF StateTyped

\* The insert of a wait appends a well-formed row.
LEMMA InsertWaitType ==
  ASSUME StateTyped, NEW w \in Worker, worker[w].pc \in {"parking", "inserting"},
         InsertWait(w)
  PROVE  waits' \in [Exec -> Seq(Wait)]
  <1> DEFINE row == [mode |-> worker[w].out, due |-> FALSE, outcome |-> "open"]
  <1>w. worker[w] \in WorkerState /\ PhaseOK(worker[w])
    BY DEF StateTyped, MemoryTyped, WorkersTyped
  <1>e. worker[w].exec \in Exec
    BY <1>w DEF PhaseOK
  <1>1. row \in Wait
    BY <1>w DEF PhaseOK, Wait, Terminal
  <1>2. waits[worker[w].exec] \in Seq(Wait) /\ waits \in [Exec -> Seq(Wait)]
    BY <1>e DEF StateTyped, TablesTyped
  <1>3. waits' = [waits EXCEPT ![worker[w].exec] = Append(waits[worker[w].exec], row)]
    BY DEF InsertWait
  <1> HIDE DEF row
  <1>4. Append(waits[worker[w].exec], row) \in Seq(Wait)
    BY <1>1, <1>2
  <1> QED
    BY <1>e, <1>2, <1>3, <1>4

\* Parking the execution.
LEMMA SuspendExecutionType ==
  ASSUME StateTyped, NEW w \in Worker, SuspendExecution(w)
  PROVE  StateTyped'
  <1>w. worker[w] \in WorkerState /\ PhaseOK(worker[w])
    BY DEF StateTyped, MemoryTyped, WorkersTyped
  <1>e. worker[w].exec \in Exec
    BY <1>w DEF SuspendExecution, PhaseOK
  <1>c. ColumnsTyped'
    <2>1. "waiting" \in Status
      BY DEF Status
    <2>2. parks' \in [Exec -> Nat]
      BY <1>e DEF StateTyped, ColumnsTyped, SuspendExecution, Park
    <2> QED
      BY <1>e, <2>1, <2>2, RowType DEF StateTyped, ColumnsTyped, SuspendExecution, Park
  <1>t. TablesTyped'
    BY InsertWaitType DEF StateTyped, TablesTyped, SuspendExecution
  <1>m. MemoryTyped'
    BY ReleasedType DEF StateTyped, MemoryTyped, SuspendExecution
  <1> QED
    BY <1>c, <1>t, <1>m DEF StateTyped

\* The suspension's writes, whether or not the row is still as it was read.
LEMMA SuspendWriteType ==
  ASSUME StateTyped, NEW w \in Worker, SuspendWrite(w)
  PROVE  StateTyped'
  <1>w. worker[w] \in WorkerState /\ PhaseOK(worker[w])
    BY DEF StateTyped, MemoryTyped, WorkersTyped
  <1>e. worker[w].exec \in Exec
    BY <1>w DEF SuspendWrite, PhaseOK
  <1>c. ColumnsTyped'
    <2>1. "waiting" \in Status
      BY DEF Status
    <2>2. parks' \in [Exec -> Nat]
      BY <1>e DEF StateTyped, ColumnsTyped, SuspendWrite, Park
    <2> QED
      BY <1>e, <2>1, <2>2, RowType DEF StateTyped, ColumnsTyped, SuspendWrite, Park
  <1>t. TablesTyped'
    BY InsertWaitType DEF StateTyped, TablesTyped, SuspendWrite
  <1>m. MemoryTyped'
    BY ReleasedType DEF StateTyped, MemoryTyped, SuspendWrite
  <1> QED
    BY <1>c, <1>t, <1>m DEF StateTyped

\* The second update of the terminal write.
LEMMA SettleSecondType ==
  ASSUME StateTyped, NEW w \in Worker, SettleSecond(w)
  PROVE  StateTyped'
  <1>w. worker[w] \in WorkerState /\ PhaseOK(worker[w]) /\ WorkersTyped
    BY DEF StateTyped, MemoryTyped, WorkersTyped
  <1>e. worker[w].exec \in Exec /\ worker[w].out \in Status
    BY <1>w DEF SettleSecond, PhaseOK, Status
  <1>c. ColumnsTyped'
    <2>1. settler' \in [Exec -> [lease : Nat, seg : Nat]]
      BY <1>e, SettlerType DEF SettleSecond
    <2> QED
      BY <1>e, <2>1, RowType DEF StateTyped, ColumnsTyped, SettleSecond
  <1>t. TablesTyped'
    BY DEF StateTyped, TablesTyped, SettleSecond
  <1>m. MemoryTyped'
    BY ReleasedType DEF StateTyped, MemoryTyped, SettleSecond
  <1> QED
    BY <1>c, <1>t, <1>m DEF StateTyped

\* Every step of the second forms.
LEMMA SplitStepType ==
  ASSUME StateTyped, NEW w \in Worker, SplitStep(w)
  PROVE  StateTyped'
  BY ReadFenceType, InsertRowsType, WorkerReadsType, SuspendWriteType,
     SettleSecondType DEF SplitStep

\* The read of a resume or of a sweep.
LEMMA EndReadType ==
  ASSUME StateTyped, NEW c \in Caller, NEW e \in Exec, NEW i \in DOMAIN waits[e],
         EndRead(c, e, i)
  PROVE  StateTyped'
  <1>c. ColumnsTyped'
    BY DEF StateTyped, ColumnsTyped, EndRead, rowVars
  <1>t. TablesTyped'
    BY DEF StateTyped, TablesTyped, EndRead
  <1>m. MemoryTyped'
    <2>1. i \in Nat
      BY DEF StateTyped, TablesTyped
    <2>2. \A does \in Intent :
             [FreeCaller EXCEPT !.exec = e, !.wait = i, !.does = does] \in CallerState
      BY <2>1 DEF FreeCaller, CallerState, Status
    <2>3. caller' \in [Caller -> CallerState]
      BY <2>2 DEF StateTyped, MemoryTyped, EndRead
    <2> QED
      BY <2>3 DEF StateTyped, MemoryTyped, WorkersTyped, EndRead
  <1> QED
    BY <1>c, <1>t, <1>m DEF StateTyped

LEMMA InitType == Init => TypeOK
  <1> SUFFICES ASSUME Init PROVE TypeOK
    OBVIOUS
  <1>1. ColumnsTyped /\ TablesTyped
    BY DEF Init, ColumnsTyped, TablesTyped, Status
  <1>2. IdleWorker \in WorkerState /\ PhaseOK(IdleWorker)
    BY DEF IdleWorker, WorkerState, PhaseOK, Phase, Outcome
  <1>3. WorkersTyped
    BY <1>2 DEF Init, WorkersTyped
  <1>4. MemoryTyped
    BY <1>3 DEF Init, MemoryTyped, FreeCaller, CallerState, Intent, Status
  <1> QED
    BY <1>1, <1>4 DEF Init, TypeOK, StateTyped

LEMMA WorkerStepType ==
  ASSUME StateTyped, NEW w \in Worker, WorkerStep(w)
  PROVE  StateTyped'
  <1>1. ASSUME NEW e \in Exec, ClaimNext(w, e) PROVE StateTyped'
    BY <1>1, ClaimNextType
  <1>2. CASE ClaimSettlesOnly(w)
    BY <1>2, ClaimSettlesOnlyType
  <1>3. CASE RecoverCancelled(w)
    BY <1>3, UpdateRuntimeType DEF RecoverCancelled, Terminal
  <1>4. CASE StartRun(w)
    BY <1>4, StartRunType
  <1>5. CASE RunNode(w)
    BY <1>5, RunNodeType
  <1>6. ASSUME NEW outcome \in Outcome, RunEnds(w, outcome) PROVE StateTyped'
    BY <1>6, RunEndsType
  <1>7. CASE PersistTraceRow(w)
    BY <1>7, PersistTraceRowType
  <1>8. CASE SuspendExecution(w)
    BY <1>8, SuspendExecutionType
  <1>9. CASE CreateNodeRuns(w)
    BY <1>9, CreateNodeRunsType
  <1>10. CASE Settle(w)
    <2>1. worker[w].out \in Terminal /\ worker[w].pc # "idle"
      BY <1>10 DEF Settle, StateTyped, MemoryTyped, WorkersTyped, PhaseOK
    <2> QED
      BY <1>10, <2>1, UpdateRuntimeType DEF Settle
  <1>11. CASE SplitStep(w)
    BY <1>11, SplitStepType
  <1> QED
    BY <1>1, <1>2, <1>3, <1>4, <1>5, <1>6, <1>7, <1>8, <1>9, <1>10, <1>11 DEF WorkerStep

\* Every step of the queue keeps the types.
LEMMA NextStateType == StateTyped /\ [Next]_vars => StateTyped'
  <1> SUFFICES ASSUME StateTyped, [Next]_vars PROVE StateTyped'
    OBVIOUS
  <1>1. ASSUME NEW e \in Exec, Queue(e) PROVE StateTyped'
    BY <1>1, QueueType
  <1>2. ASSUME NEW w \in Worker, WorkerStep(w) PROVE StateTyped'
    BY <1>2, WorkerStepType
  <1>3. ASSUME NEW w \in Worker, Heartbeat(w) PROVE StateTyped'
    BY <1>3, HeartbeatType
  <1>4. ASSUME NEW w \in Worker, PollCancellation(w) PROVE StateTyped'
    BY <1>4, PollCancellationType
  <1>5. ASSUME NEW w \in Worker, Shutdown(w) PROVE StateTyped'
    BY <1>5, ShutdownType
  <1>6. ASSUME NEW w \in Worker, Abandon(w) PROVE StateTyped'
    BY <1>6, AbandonType
  <1>7. ASSUME NEW e \in Exec, LeaseExpires(e) PROVE StateTyped'
    BY <1>7, LeaseExpiresType
  <1>8. ASSUME NEW e \in Exec, HolderStalls(e) PROVE StateTyped'
    BY <1>8, HolderStallsType
  <1>9. ASSUME NEW e \in Exec, WaitStep(e) PROVE StateTyped'
    BY <1>9, DeadlinePassesType, SettleExpiredWaitType DEF WaitStep
  <1>10. ASSUME NEW e \in Exec, NEW i \in DOMAIN waits[e], ResumeWait(e, i) PROVE StateTyped'
    BY <1>10, ResumeWaitType
  <1>11. ASSUME NEW c \in Caller, NEW e \in Exec, CancelRead(c, e) PROVE StateTyped'
    BY <1>11, CancelReadType
  <1>12. ASSUME NEW c \in Caller, CancelWrite(c) PROVE StateTyped'
    BY <1>12, CancelWriteType
  <1>13. ASSUME NEW c \in Caller, SplitCall(c) PROVE StateTyped'
    BY <1>13, EndReadType, EndWriteType DEF SplitCall
  <1>14. CASE UNCHANGED vars
    BY <1>14 DEF vars, StateTyped, ColumnsTyped, TablesTyped, MemoryTyped, WorkersTyped
  <1> QED
    BY <1>1, <1>2, <1>3, <1>4, <1>5, <1>6, <1>7, <1>8, <1>9, <1>10, <1>11, <1>12,
       <1>13, <1>14 DEF Next, Step

LEMMA NextType == TypeOK /\ [Next]_vars => TypeOK'
  BY NextStateType DEF TypeOK, Next, vars

\* The columns, tables and worker memories keep their types, and a worker's
\* memory fits its phase (the outcome settle writes is a terminal status, the
\* outcome suspend parks with is a wait mode).
THEOREM TypeCorrect == Spec => []TypeOK
  BY InitType, NextType, PTL DEF Spec

-----------------------------------------------------------------------------
(* The lease discipline. It is inductive together with the types: only     *)
(* ClaimNext writes an owner, always a fresh lease, and every other write  *)
(* of an owner clears it together with the lease clock and a status that   *)
(* needs none.                                                             *)

\* The two kinds of change a step makes to a row that keep it disciplined.
LEMMA RowsFollowTheLeaseStep ==
  ASSUME StateTyped, LeaseDiscipline,
         nextLease' \in Nat, nextLease <= nextLease',
         \A e \in Exec :
            \/ /\ owner'[e] = 0 /\ lease'[e] = "none" /\ status'[e] # "running"
            \/ /\ owner'[e] \in Nat \ {0} /\ owner'[e] < nextLease'
               /\ lease'[e] # "none"
               /\ status'[e] \in {"running", "cancelling"}
  PROVE  RowsFollowTheLease'
  BY DEF RowsFollowTheLease, StateTyped, MemoryTyped

\* Rows a step leaves alone satisfy the hypothesis of the lemma above.
LEMMA RowKept ==
  ASSUME StateTyped, LeaseDiscipline, NEW e \in Exec
  PROVE  \/ /\ owner[e] = 0 /\ lease[e] = "none" /\ status[e] # "running"
         \/ /\ owner[e] \in Nat \ {0} /\ owner[e] < nextLease
            /\ lease[e] # "none"
            /\ status[e] \in {"running", "cancelling"}
  BY DEF StateTyped, ColumnsTyped, LeaseDiscipline, RowsFollowTheLease

\* A step in which no worker takes a new lease keeps the leases distinct.
LEMMA LeasesAreDistinctStep ==
  ASSUME StateTyped, LeaseDiscipline, nextLease' = nextLease,
         \A w \in Worker : worker'[w].pc # "idle" =>
            worker[w].pc # "idle" /\ worker'[w].lease = worker[w].lease
  PROVE  LeasesAreDistinct'
  BY DEF LeaseDiscipline, LeasesAreDistinct

\* Steps that touch no row and no lease of a worker.
LEMMA DisciplineKept ==
  ASSUME StateTyped, LeaseDiscipline, UNCHANGED <<status, owner, nextLease>>,
         UNCHANGED lease \/ (\E e \in Exec : owner[e] # 0 /\
            (lease' = [lease EXCEPT ![e] = "live"] \/ lease' = [lease EXCEPT ![e] = "expired"])),
         \A w \in Worker : worker'[w].pc # "idle" =>
            worker[w].pc # "idle" /\ worker'[w].lease = worker[w].lease
  PROVE  LeaseDiscipline'
  <1>1. RowsFollowTheLease'
    BY DEF LeaseDiscipline, RowsFollowTheLease, StateTyped, ColumnsTyped
  <1>2. LeasesAreDistinct'
    BY LeasesAreDistinctStep
  <1> QED
    BY <1>1, <1>2 DEF LeaseDiscipline

\* The claim takes a fresh lease; the rows it settles lose theirs.
LEMMA ClaimNextDiscipline ==
  ASSUME StateTyped, LeaseDiscipline, NEW w \in Worker, NEW e \in Exec, ClaimNext(w, e)
  PROVE  LeaseDiscipline'
  <1>1. nextLease \in Nat \ {0} /\ nextLease' = nextLease + 1
    BY DEF StateTyped, MemoryTyped, ClaimNext
  <1>2. ASSUME NEW f \in Exec
        PROVE  \/ /\ owner'[f] = 0 /\ lease'[f] = "none" /\ status'[f] # "running"
               \/ /\ owner'[f] \in Nat \ {0} /\ owner'[f] < nextLease'
                  /\ lease'[f] # "none"
                  /\ status'[f] \in {"running", "cancelling"}
    <2>1. CASE f = e
      BY <1>1, <2>1 DEF ClaimNext, Candidate, SettledCrashed, CrashedFront
    <2>2. CASE f # e /\ f \in SettledCrashed
      BY <2>2 DEF ClaimNext
    <2>3. CASE f # e /\ f \notin SettledCrashed
      BY <1>1, <2>3, RowKept DEF ClaimNext
    <2> QED
      BY <2>1, <2>2, <2>3
  <1>3. RowsFollowTheLease'
    BY <1>1, <1>2, RowsFollowTheLeaseStep
  <1>4. /\ worker'[w].lease = nextLease
        /\ \A v \in Worker \ {w} : worker'[v] = worker[v]
    BY DEF ClaimNext, IdleWorker, StateTyped, MemoryTyped, WorkersTyped
  <1>5. \A v \in Worker : worker[v].lease \in Nat
    BY DEF StateTyped, MemoryTyped, WorkersTyped, WorkerState
  <1>6. LeasesAreDistinct'
    BY <1>1, <1>4, <1>5 DEF LeaseDiscipline, LeasesAreDistinct
  <1> QED
    BY <1>3, <1>6 DEF LeaseDiscipline

\* A queued row has no lease.
LEMMA QueueDiscipline ==
  ASSUME StateTyped, LeaseDiscipline, NEW e \in Exec, Queue(e)
  PROVE  LeaseDiscipline'
  <1>n. nextLease' = nextLease /\ nextLease \in Nat \ {0}
    BY DEF StateTyped, MemoryTyped, Queue
  <1>f. \A v \in Worker : worker'[v].pc # "idle" =>
           worker[v].pc # "idle" /\ worker'[v].lease = worker[v].lease
    BY DEF StateTyped, MemoryTyped, WorkersTyped, WorkerState, Queue
  <1>r. ASSUME NEW f \in Exec
        PROVE  \/ /\ owner'[f] = 0 /\ lease'[f] = "none" /\ status'[f] # "running"
               \/ /\ owner'[f] \in Nat \ {0} /\ owner'[f] < nextLease'
                  /\ lease'[f] # "none"
                  /\ status'[f] \in {"running", "cancelling"}
    BY <1>n, RowKept DEF Queue, StateTyped, ColumnsTyped
  <1>1. RowsFollowTheLease'
    BY <1>n, <1>r, RowsFollowTheLeaseStep
  <1>2. LeasesAreDistinct'
    BY <1>n, <1>f, LeasesAreDistinctStep
  <1> QED
    BY <1>1, <1>2 DEF LeaseDiscipline

\* Settled crashed rows lose their lease.
LEMMA ClaimSettlesOnlyDiscipline ==
  ASSUME StateTyped, LeaseDiscipline, NEW w \in Worker, ClaimSettlesOnly(w)
  PROVE  LeaseDiscipline'
  <1>n. nextLease' = nextLease /\ nextLease \in Nat \ {0}
    BY DEF StateTyped, MemoryTyped, ClaimSettlesOnly
  <1>f. \A v \in Worker : worker'[v].pc # "idle" =>
           worker[v].pc # "idle" /\ worker'[v].lease = worker[v].lease
    BY DEF StateTyped, MemoryTyped, WorkersTyped, WorkerState, ClaimSettlesOnly
  <1>r. ASSUME NEW f \in Exec
        PROVE  \/ /\ owner'[f] = 0 /\ lease'[f] = "none" /\ status'[f] # "running"
               \/ /\ owner'[f] \in Nat \ {0} /\ owner'[f] < nextLease'
                  /\ lease'[f] # "none"
                  /\ status'[f] \in {"running", "cancelling"}
    BY <1>n, RowKept DEF ClaimSettlesOnly, StateTyped, ColumnsTyped
  <1>1. RowsFollowTheLease'
    BY <1>n, <1>r, RowsFollowTheLeaseStep
  <1>2. LeasesAreDistinct'
    BY <1>n, <1>f, LeasesAreDistinctStep
  <1> QED
    BY <1>1, <1>2 DEF LeaseDiscipline

\* The terminal write clears the lease.
LEMMA UpdateRuntimeDiscipline ==
  ASSUME StateTyped, LeaseDiscipline, NEW w \in Worker, NEW outcome \in Terminal, UpdateRuntime(w, outcome)
  PROVE  LeaseDiscipline'
  <1>n. nextLease' = nextLease /\ nextLease \in Nat \ {0}
    BY DEF StateTyped, MemoryTyped, UpdateRuntime
  <1>f. \A v \in Worker : worker'[v].pc # "idle" =>
           worker[v].pc # "idle" /\ worker'[v].lease = worker[v].lease
    BY DEF StateTyped, MemoryTyped, WorkersTyped, WorkerState, UpdateRuntime, Released, IdleWorker
  <1>r. ASSUME NEW f \in Exec
        PROVE  \/ /\ owner'[f] = 0 /\ lease'[f] = "none" /\ status'[f] # "running"
               \/ /\ owner'[f] \in Nat \ {0} /\ owner'[f] < nextLease'
                  /\ lease'[f] # "none"
                  /\ status'[f] \in {"running", "cancelling"}
    BY <1>n, RowKept DEF UpdateRuntime, StateTyped, ColumnsTyped, Terminal
  <1>1. RowsFollowTheLease'
    BY <1>n, <1>r, RowsFollowTheLeaseStep
  <1>2. LeasesAreDistinct'
    BY <1>n, <1>f, LeasesAreDistinctStep
  <1> QED
    BY <1>1, <1>2 DEF LeaseDiscipline

\* Parking clears the lease.
LEMMA SuspendExecutionDiscipline ==
  ASSUME StateTyped, LeaseDiscipline, NEW w \in Worker, SuspendExecution(w)
  PROVE  LeaseDiscipline'
  <1>n. nextLease' = nextLease /\ nextLease \in Nat \ {0}
    BY DEF StateTyped, MemoryTyped, SuspendExecution
  <1>f. \A v \in Worker : worker'[v].pc # "idle" =>
           worker[v].pc # "idle" /\ worker'[v].lease = worker[v].lease
    BY DEF StateTyped, MemoryTyped, WorkersTyped, WorkerState, SuspendExecution, Released, IdleWorker
  <1>r. ASSUME NEW f \in Exec
        PROVE  \/ /\ owner'[f] = 0 /\ lease'[f] = "none" /\ status'[f] # "running"
               \/ /\ owner'[f] \in Nat \ {0} /\ owner'[f] < nextLease'
                  /\ lease'[f] # "none"
                  /\ status'[f] \in {"running", "cancelling"}
    BY <1>n, RowKept DEF SuspendExecution, Park, StateTyped, ColumnsTyped
  <1>1. RowsFollowTheLease'
    BY <1>n, <1>r, RowsFollowTheLeaseStep
  <1>2. LeasesAreDistinct'
    BY <1>n, <1>f, LeasesAreDistinctStep
  <1> QED
    BY <1>1, <1>2 DEF LeaseDiscipline

\* A resumed row is queued without a lease.
LEMMA ResumeWaitDiscipline ==
  ASSUME StateTyped, LeaseDiscipline, NEW e \in Exec, NEW i, ResumeWait(e, i)
  PROVE  LeaseDiscipline'
  <1>n. nextLease' = nextLease /\ nextLease \in Nat \ {0}
    BY DEF StateTyped, MemoryTyped, ResumeWait
  <1>f. \A v \in Worker : worker'[v].pc # "idle" =>
           worker[v].pc # "idle" /\ worker'[v].lease = worker[v].lease
    BY DEF StateTyped, MemoryTyped, WorkersTyped, WorkerState, ResumeWait
  <1>r. ASSUME NEW f \in Exec
        PROVE  \/ /\ owner'[f] = 0 /\ lease'[f] = "none" /\ status'[f] # "running"
               \/ /\ owner'[f] \in Nat \ {0} /\ owner'[f] < nextLease'
                  /\ lease'[f] # "none"
                  /\ status'[f] \in {"running", "cancelling"}
    BY <1>n, RowKept DEF ResumeWait, StateTyped, ColumnsTyped
  <1>1. RowsFollowTheLease'
    BY <1>n, <1>r, RowsFollowTheLeaseStep
  <1>2. LeasesAreDistinct'
    BY <1>n, <1>f, LeasesAreDistinctStep
  <1> QED
    BY <1>1, <1>2 DEF LeaseDiscipline

\* A swept row is queued or failed without a lease.
LEMMA SettleExpiredWaitDiscipline ==
  ASSUME StateTyped, LeaseDiscipline, NEW e \in Exec, NEW i, SettleExpiredWait(e, i)
  PROVE  LeaseDiscipline'
  <1>n. nextLease' = nextLease /\ nextLease \in Nat \ {0}
    BY DEF StateTyped, MemoryTyped, SettleExpiredWait
  <1>f. \A v \in Worker : worker'[v].pc # "idle" =>
           worker[v].pc # "idle" /\ worker'[v].lease = worker[v].lease
    BY DEF StateTyped, MemoryTyped, WorkersTyped, WorkerState, SettleExpiredWait
  <1>r. ASSUME NEW f \in Exec
        PROVE  \/ /\ owner'[f] = 0 /\ lease'[f] = "none" /\ status'[f] # "running"
               \/ /\ owner'[f] \in Nat \ {0} /\ owner'[f] < nextLease'
                  /\ lease'[f] # "none"
                  /\ status'[f] \in {"running", "cancelling"}
    BY <1>n, RowKept DEF SettleExpiredWait, StateTyped, ColumnsTyped
  <1>1. RowsFollowTheLease'
    BY <1>n, <1>r, RowsFollowTheLeaseStep
  <1>2. LeasesAreDistinct'
    BY <1>n, <1>f, LeasesAreDistinctStep
  <1> QED
    BY <1>1, <1>2 DEF LeaseDiscipline

\* A late cancel clears the lease, or leaves it as it found it.
LEMMA CancelWriteDiscipline ==
  ASSUME StateTyped, LeaseDiscipline, NEW c \in Caller, CancelWrite(c)
  PROVE  LeaseDiscipline'
  <1>n. nextLease' = nextLease /\ nextLease \in Nat \ {0}
    BY DEF StateTyped, MemoryTyped, CancelWrite
  <1>f. \A v \in Worker : worker'[v].pc # "idle" =>
           worker[v].pc # "idle" /\ worker'[v].lease = worker[v].lease
    BY DEF StateTyped, MemoryTyped, WorkersTyped, WorkerState, CancelWrite
  <1>r. ASSUME NEW f \in Exec
        PROVE  \/ /\ owner'[f] = 0 /\ lease'[f] = "none" /\ status'[f] # "running"
               \/ /\ owner'[f] \in Nat \ {0} /\ owner'[f] < nextLease'
                  /\ lease'[f] # "none"
                  /\ status'[f] \in {"running", "cancelling"}
    BY <1>n, RowKept DEF CancelWrite, StateTyped, ColumnsTyped, CancelWaiting,
       CancelQueued, CancelRunning
  <1>1. RowsFollowTheLease'
    BY <1>n, <1>r, RowsFollowTheLeaseStep
  <1>2. LeasesAreDistinct'
    BY <1>n, <1>f, LeasesAreDistinctStep
  <1> QED
    BY <1>1, <1>2 DEF LeaseDiscipline

\* Starting the graph changes no lease.
LEMMA StartRunDiscipline ==
  ASSUME StateTyped, LeaseDiscipline, NEW w \in Worker, StartRun(w)
  PROVE  LeaseDiscipline'
  <1>f. \A v \in Worker : worker'[v].pc # "idle" =>
           worker[v].pc # "idle" /\ worker'[v].lease = worker[v].lease
    BY DEF StateTyped, MemoryTyped, WorkersTyped, WorkerState, StartRun
  <1> QED
    BY <1>f, DisciplineKept DEF StartRun, rowVars

\* Executing a node changes no lease.
LEMMA RunNodeDiscipline ==
  ASSUME StateTyped, LeaseDiscipline, NEW w \in Worker, RunNode(w)
  PROVE  LeaseDiscipline'
  <1>f. \A v \in Worker : worker'[v].pc # "idle" =>
           worker[v].pc # "idle" /\ worker'[v].lease = worker[v].lease
    BY DEF StateTyped, MemoryTyped, WorkersTyped, WorkerState, RunNode
  <1> QED
    BY <1>f, DisciplineKept DEF RunNode, rowVars

\* The end of a segment changes no lease.
LEMMA RunEndsDiscipline ==
  ASSUME StateTyped, LeaseDiscipline, NEW w \in Worker, NEW outcome \in Outcome, RunEnds(w, outcome)
  PROVE  LeaseDiscipline'
  <1>f. \A v \in Worker : worker'[v].pc # "idle" =>
           worker[v].pc # "idle" /\ worker'[v].lease = worker[v].lease
    BY DEF StateTyped, MemoryTyped, WorkersTyped, WorkerState, RunEnds
  <1> QED
    BY <1>f, DisciplineKept DEF RunEnds, rowVars

\* A trace row changes no lease; an error drops the worker's.
LEMMA PersistTraceRowDiscipline ==
  ASSUME StateTyped, LeaseDiscipline, NEW w \in Worker, PersistTraceRow(w)
  PROVE  LeaseDiscipline'
  <1>f. \A v \in Worker : worker'[v].pc # "idle" =>
           worker[v].pc # "idle" /\ worker'[v].lease = worker[v].lease
    BY DEF StateTyped, MemoryTyped, WorkersTyped, WorkerState, PersistTraceRow, Goes,
       Released, IdleWorker
  <1> QED
    BY <1>f, DisciplineKept DEF PersistTraceRow, rowVars

\* The trace transaction changes no lease.
LEMMA CreateNodeRunsDiscipline ==
  ASSUME StateTyped, LeaseDiscipline, NEW w \in Worker, CreateNodeRuns(w)
  PROVE  LeaseDiscipline'
  <1>f. \A v \in Worker : worker'[v].pc # "idle" =>
           worker[v].pc # "idle" /\ worker'[v].lease = worker[v].lease
    BY DEF StateTyped, MemoryTyped, WorkersTyped, WorkerState, CreateNodeRuns, Goes
  <1> QED
    BY <1>f, DisciplineKept DEF CreateNodeRuns, rowVars

\* A renewal finds the lease it renews.
LEMMA HeartbeatDiscipline ==
  ASSUME StateTyped, LeaseDiscipline, NEW w \in Worker, Heartbeat(w)
  PROVE  LeaseDiscipline'
  <1>f. \A v \in Worker : worker'[v].pc # "idle" =>
           worker[v].pc # "idle" /\ worker'[v].lease = worker[v].lease
    BY DEF StateTyped, MemoryTyped, WorkersTyped, WorkerState, Heartbeat
  <1>1. Fenced(w) => worker[w].exec \in Exec /\ owner[worker[w].exec] # 0
    BY DEF Fenced, Heartbeat, Ahead, StateTyped, MemoryTyped, WorkersTyped, PhaseOK,
           LeaseDiscipline, LeasesAreDistinct
  <1> QED
    BY <1>1, <1>f, DisciplineKept DEF Heartbeat, rowVars

\* The poll changes no lease.
LEMMA PollCancellationDiscipline ==
  ASSUME StateTyped, LeaseDiscipline, NEW w \in Worker, PollCancellation(w)
  PROVE  LeaseDiscipline'
  <1>f. \A v \in Worker : worker'[v].pc # "idle" =>
           worker[v].pc # "idle" /\ worker'[v].lease = worker[v].lease
    BY DEF StateTyped, MemoryTyped, WorkersTyped, WorkerState, PollCancellation
  <1> QED
    BY <1>f, DisciplineKept DEF PollCancellation, rowVars

\* Shutdown changes no lease.
LEMMA ShutdownDiscipline ==
  ASSUME StateTyped, LeaseDiscipline, NEW w \in Worker, Shutdown(w)
  PROVE  LeaseDiscipline'
  <1>f. \A v \in Worker : worker'[v].pc # "idle" =>
           worker[v].pc # "idle" /\ worker'[v].lease = worker[v].lease
    BY DEF StateTyped, MemoryTyped, WorkersTyped, WorkerState, Shutdown
  <1> QED
    BY <1>f, DisciplineKept DEF Shutdown, rowVars

\* A crash drops the worker's lease and keeps the row's.
LEMMA AbandonDiscipline ==
  ASSUME StateTyped, LeaseDiscipline, NEW w \in Worker, Abandon(w)
  PROVE  LeaseDiscipline'
  <1>f. \A v \in Worker : worker'[v].pc # "idle" =>
           worker[v].pc # "idle" /\ worker'[v].lease = worker[v].lease
    BY DEF StateTyped, MemoryTyped, WorkersTyped, WorkerState, Abandon, Released, IdleWorker
  <1> QED
    BY <1>f, DisciplineKept DEF Abandon, rowVars

\* Only a live lease expires.
LEMMA LeaseExpiresDiscipline ==
  ASSUME StateTyped, LeaseDiscipline, NEW e \in Exec, LeaseExpires(e)
  PROVE  LeaseDiscipline'
  <1>f. \A v \in Worker : worker'[v].pc # "idle" =>
           worker[v].pc # "idle" /\ worker'[v].lease = worker[v].lease
    BY DEF StateTyped, MemoryTyped, WorkersTyped, WorkerState, LeaseExpires
  <1>1. owner[e] # 0
    BY DEF LeaseExpires, LeaseDiscipline, RowsFollowTheLease
  <1> QED
    BY <1>1, <1>f, DisciplineKept DEF LeaseExpires, rowVars

\* Only a live lease expires.
LEMMA HolderStallsDiscipline ==
  ASSUME StateTyped, LeaseDiscipline, NEW e \in Exec, HolderStalls(e)
  PROVE  LeaseDiscipline'
  <1>f. \A v \in Worker : worker'[v].pc # "idle" =>
           worker[v].pc # "idle" /\ worker'[v].lease = worker[v].lease
    BY DEF StateTyped, MemoryTyped, WorkersTyped, WorkerState, HolderStalls
  <1>1. owner[e] # 0
    BY DEF HolderStalls, LeaseDiscipline, RowsFollowTheLease
  <1> QED
    BY <1>1, <1>f, DisciplineKept DEF HolderStalls, rowVars

\* A deadline changes no lease.
LEMMA DeadlinePassesDiscipline ==
  ASSUME StateTyped, LeaseDiscipline, NEW e \in Exec, NEW i, DeadlinePasses(e, i)
  PROVE  LeaseDiscipline'
  <1>f. \A v \in Worker : worker'[v].pc # "idle" =>
           worker[v].pc # "idle" /\ worker'[v].lease = worker[v].lease
    BY DEF StateTyped, MemoryTyped, WorkersTyped, WorkerState, DeadlinePasses
  <1> QED
    BY <1>f, DisciplineKept DEF DeadlinePasses, rowVars

\* Reading changes no lease.
LEMMA CancelReadDiscipline ==
  ASSUME StateTyped, LeaseDiscipline, NEW c \in Caller, NEW e \in Exec, CancelRead(c, e)
  PROVE  LeaseDiscipline'
  <1>f. \A v \in Worker : worker'[v].pc # "idle" =>
           worker[v].pc # "idle" /\ worker'[v].lease = worker[v].lease
    BY DEF StateTyped, MemoryTyped, WorkersTyped, WorkerState, CancelRead
  <1> QED
    BY <1>f, DisciplineKept DEF CancelRead, rowVars

\* One row that is let go, or left alone, by a step that hands out no lease.
LEMMA DisciplineLetsGo ==
  ASSUME StateTyped, LeaseDiscipline, UNCHANGED nextLease, NEW e \in Exec,
         NEW s \in Status \ {"running"},
         \/ /\ status' = [status EXCEPT ![e] = s]
            /\ owner' = [owner EXCEPT ![e] = 0]
            /\ lease' = [lease EXCEPT ![e] = "none"]
         \/ UNCHANGED <<status, owner, lease>>,
         \A v \in Worker : worker'[v].pc # "idle" =>
            worker[v].pc # "idle" /\ worker'[v].lease = worker[v].lease
  PROVE  LeaseDiscipline'
  <1>n. nextLease \in Nat \ {0}
    BY DEF StateTyped, MemoryTyped
  <1>r. ASSUME NEW f \in Exec
        PROVE  \/ /\ owner'[f] = 0 /\ lease'[f] = "none" /\ status'[f] # "running"
               \/ /\ owner'[f] \in Nat \ {0} /\ owner'[f] < nextLease'
                  /\ lease'[f] # "none"
                  /\ status'[f] \in {"running", "cancelling"}
    BY <1>n, RowKept DEF StateTyped, ColumnsTyped
  <1>1. RowsFollowTheLease'
    BY <1>n, <1>r, RowsFollowTheLeaseStep
  <1>2. LeasesAreDistinct'
    BY LeasesAreDistinctStep
  <1> QED
    BY <1>1, <1>2 DEF LeaseDiscipline

\* The forms others commit inside hand out no lease, and let rows go as the
\* atomic forms do.
LEMMA SplitStepDiscipline ==
  ASSUME StateTyped, LeaseDiscipline, NEW w \in Worker, SplitStep(w)
  PROVE  LeaseDiscipline'
  <1>w. worker[w] \in WorkerState /\ PhaseOK(worker[w])
    BY DEF StateTyped, MemoryTyped, WorkersTyped
  <1>1. CASE ReadFence(w)
    <2>f. \A v \in Worker : worker'[v].pc # "idle" =>
             worker[v].pc # "idle" /\ worker'[v].lease = worker[v].lease
      BY <1>1 DEF StateTyped, MemoryTyped, WorkersTyped, WorkerState, ReadFence
    <2> QED
      BY <1>1, <2>f, DisciplineKept DEF ReadFence, rowVars
  <1>2. CASE InsertRows(w)
    <2>f. \A v \in Worker : worker'[v].pc # "idle" =>
             worker[v].pc # "idle" /\ worker'[v].lease = worker[v].lease
      BY <1>2 DEF StateTyped, MemoryTyped, WorkersTyped, WorkerState, InsertRows,
                  Released, IdleWorker
    <2> QED
      BY <1>2, <2>f, DisciplineKept DEF InsertRows, rowVars
  <1>3. CASE SuspendRead(w) \/ SettleFirst(w)
    <2>f. \A v \in Worker : worker'[v].pc # "idle" =>
             worker[v].pc # "idle" /\ worker'[v].lease = worker[v].lease
      BY <1>3 DEF StateTyped, MemoryTyped, WorkersTyped, WorkerState, SuspendRead,
                  SettleFirst, Goes
    <2> QED
      BY <1>3, <2>f, DisciplineKept DEF SuspendRead, SettleFirst, rowVars
  <1>4. CASE SuspendWrite(w)
    <2>1. worker[w].exec \in Exec /\ "waiting" \in Status \ {"running"}
      BY <1>w, <1>4 DEF SuspendWrite, PhaseOK, Status
    <2>f. \A v \in Worker : worker'[v].pc # "idle" =>
             worker[v].pc # "idle" /\ worker'[v].lease = worker[v].lease
      BY <1>4 DEF StateTyped, MemoryTyped, WorkersTyped, SuspendWrite, Released, IdleWorker
    <2> QED
      BY <1>4, <2>1, <2>f, DisciplineLetsGo DEF SuspendWrite, Park
  <1>5. CASE SettleSecond(w)
    <2>1. worker[w].exec \in Exec /\ worker[w].out \in Status \ {"running"}
      BY <1>w, <1>5 DEF SettleSecond, PhaseOK, Status, Terminal
    <2>f. \A v \in Worker : worker'[v].pc # "idle" =>
             worker[v].pc # "idle" /\ worker'[v].lease = worker[v].lease
      BY <1>5 DEF StateTyped, MemoryTyped, WorkersTyped, SettleSecond, Released, IdleWorker
    <2> QED
      BY <1>5, <2>1, <2>f, DisciplineLetsGo DEF SettleSecond
  <1> QED
    BY <1>1, <1>2, <1>3, <1>4, <1>5 DEF SplitStep

\* Nor do those of a resume or of a sweep.
LEMMA SplitCallDiscipline ==
  ASSUME StateTyped, LeaseDiscipline, NEW c \in Caller, SplitCall(c)
  PROVE  LeaseDiscipline'
  <1>1. ASSUME NEW e \in Exec, NEW i, EndRead(c, e, i) PROVE LeaseDiscipline'
    BY <1>1, DisciplineKept DEF EndRead, rowVars
  <1>2. CASE EndWrite(c)
    <2> DEFINE s == IF caller[c].does = "expire" THEN "failed" ELSE "queued"
    <2>1. caller[c].exec \in Exec /\ s \in Status \ {"running"}
      BY <1>2 DEF EndWrite, StateTyped, MemoryTyped, CallerState, Status, Terminal
    <2>2. \/ /\ status' = [status EXCEPT ![caller[c].exec] = s]
             /\ owner' = [owner EXCEPT ![caller[c].exec] = 0]
             /\ lease' = [lease EXCEPT ![caller[c].exec] = "none"]
          \/ UNCHANGED <<status, owner, lease>>
      BY <1>2 DEF EndWrite
    <2>3. UNCHANGED <<worker, nextLease>>
      BY <1>2 DEF EndWrite
    <2> HIDE DEF s
    <2> QED
      BY <2>1, <2>2, <2>3, DisciplineLetsGo
  <1> QED
    BY <1>1, <1>2 DEF SplitCall

LEMMA InitDiscipline == Init => LeaseDiscipline
  BY DEF Init, LeaseDiscipline, RowsFollowTheLease, LeasesAreDistinct, IdleWorker

LEMMA WorkerStepDiscipline ==
  ASSUME StateTyped, LeaseDiscipline, NEW w \in Worker, WorkerStep(w)
  PROVE  LeaseDiscipline'
  <1>1. ASSUME NEW e \in Exec, ClaimNext(w, e) PROVE LeaseDiscipline'
    BY <1>1, ClaimNextDiscipline
  <1>2. CASE ClaimSettlesOnly(w)
    BY <1>2, ClaimSettlesOnlyDiscipline
  <1>3. CASE RecoverCancelled(w)
    BY <1>3, UpdateRuntimeDiscipline DEF RecoverCancelled, Terminal
  <1>4. CASE StartRun(w)
    BY <1>4, StartRunDiscipline
  <1>5. CASE RunNode(w)
    BY <1>5, RunNodeDiscipline
  <1>6. ASSUME NEW outcome \in Outcome, RunEnds(w, outcome) PROVE LeaseDiscipline'
    BY <1>6, RunEndsDiscipline
  <1>7. CASE PersistTraceRow(w)
    BY <1>7, PersistTraceRowDiscipline
  <1>8. CASE SuspendExecution(w)
    BY <1>8, SuspendExecutionDiscipline
  <1>9. CASE CreateNodeRuns(w)
    BY <1>9, CreateNodeRunsDiscipline
  <1>10. CASE Settle(w)
    <2>1. worker[w].out \in Terminal
      BY <1>10 DEF Settle, StateTyped, MemoryTyped, WorkersTyped, PhaseOK
    <2> QED
      BY <1>10, <2>1, UpdateRuntimeDiscipline DEF Settle
  <1>11. CASE SplitStep(w)
    BY <1>11, SplitStepDiscipline
  <1> QED
    BY <1>1, <1>2, <1>3, <1>4, <1>5, <1>6, <1>7, <1>8, <1>9, <1>10, <1>11 DEF WorkerStep

\* Every step of the queue keeps the lease discipline.
LEMMA NextDiscipline == StateTyped /\ LeaseDiscipline /\ [Next]_vars => LeaseDiscipline'
  <1> SUFFICES ASSUME StateTyped, LeaseDiscipline, [Next]_vars PROVE LeaseDiscipline'
    OBVIOUS
  <1>1. ASSUME NEW e \in Exec, Queue(e) PROVE LeaseDiscipline'
    BY <1>1, QueueDiscipline
  <1>2. ASSUME NEW w \in Worker, WorkerStep(w) PROVE LeaseDiscipline'
    BY <1>2, WorkerStepDiscipline
  <1>3. ASSUME NEW w \in Worker, Heartbeat(w) PROVE LeaseDiscipline'
    BY <1>3, HeartbeatDiscipline
  <1>4. ASSUME NEW w \in Worker, PollCancellation(w) PROVE LeaseDiscipline'
    BY <1>4, PollCancellationDiscipline
  <1>5. ASSUME NEW w \in Worker, Shutdown(w) PROVE LeaseDiscipline'
    BY <1>5, ShutdownDiscipline
  <1>6. ASSUME NEW w \in Worker, Abandon(w) PROVE LeaseDiscipline'
    BY <1>6, AbandonDiscipline
  <1>7. ASSUME NEW e \in Exec, LeaseExpires(e) PROVE LeaseDiscipline'
    BY <1>7, LeaseExpiresDiscipline
  <1>8. ASSUME NEW e \in Exec, HolderStalls(e) PROVE LeaseDiscipline'
    BY <1>8, HolderStallsDiscipline
  <1>9. ASSUME NEW e \in Exec, WaitStep(e) PROVE LeaseDiscipline'
    BY <1>9, DeadlinePassesDiscipline, SettleExpiredWaitDiscipline DEF WaitStep
  <1>10. ASSUME NEW e \in Exec, NEW i \in DOMAIN waits[e], ResumeWait(e, i)
         PROVE  LeaseDiscipline'
    BY <1>10, ResumeWaitDiscipline
  <1>11. ASSUME NEW c \in Caller, NEW e \in Exec, CancelRead(c, e)
         PROVE  LeaseDiscipline'
    BY <1>11, CancelReadDiscipline
  <1>12. ASSUME NEW c \in Caller, CancelWrite(c) PROVE LeaseDiscipline'
    BY <1>12, CancelWriteDiscipline
  <1>13. ASSUME NEW c \in Caller, SplitCall(c) PROVE LeaseDiscipline'
    BY <1>13, SplitCallDiscipline
  <1>14. CASE UNCHANGED vars
    BY <1>14 DEF vars, LeaseDiscipline, RowsFollowTheLease, LeasesAreDistinct
  <1> QED
    BY <1>1, <1>2, <1>3, <1>4, <1>5, <1>6, <1>7, <1>8, <1>9, <1>10, <1>11, <1>12,
       <1>13, <1>14 DEF Next, Step

\* The lease discipline holds in every reachable state, for any number of
\* workers, processes and executions: a row without a lease is never mistaken
\* for crashed work and no two workers ever hold the same lease.
THEOREM LeaseDisciplineHolds == Spec => []LeaseDiscipline
  <1>1. StateTyped /\ LeaseDiscipline /\ [Next]_vars => StateTyped' /\ LeaseDiscipline'
    BY NextStateType, NextDiscipline
  <1>2. Init => StateTyped
    BY InitType DEF TypeOK
  <1> QED
    BY <1>2, InitDiscipline, <1>1, PTL DEF Spec

-----------------------------------------------------------------------------
(* A finished row stays finished: no guard of a worker's or a wait's step  *)
(* admits it, and a late cancel leaves it unowned because it was unowned.  *)

LEMMA FinishedStays ==
  ASSUME StateTyped, LeaseDiscipline, Next, NEW e \in Exec, status[e] \in Terminal
  PROVE  /\ status'[e] \notin {"absent", "queued", "running", "waiting"}
         /\ owner'[e] = 0
  <1> DEFINE Stays == /\ status'[e] \notin {"absent", "queued", "running", "waiting"}
                      /\ owner'[e] = 0
  <1>0. /\ owner[e] = 0
        /\ status[e] \notin {"absent", "queued", "running", "waiting", "cancelling"}
        /\ status \in [Exec -> Status] /\ owner \in [Exec -> Nat]
    BY DEF StateTyped, ColumnsTyped, LeaseDiscipline, RowsFollowTheLease, Terminal
  <1>k. UNCHANGED <<status, owner>> => Stays
    BY <1>0
  <1>1. ASSUME NEW f \in Exec, Queue(f) PROVE Stays
    BY <1>0, <1>1 DEF Queue
  <1>2. ASSUME NEW w \in Worker, WorkerStep(w) PROVE Stays
    <2>1. ASSUME NEW f \in Exec, ClaimNext(w, f) PROVE Stays
      BY <1>0, <2>1 DEF ClaimNext, Candidate, Claimable
    <2>2. CASE ClaimSettlesOnly(w)
      BY <1>0, <2>2 DEF ClaimSettlesOnly
    <2>3. ASSUME NEW outcome \in Terminal, UpdateRuntime(w, outcome) PROVE Stays
      BY <1>0, <2>3 DEF UpdateRuntime, Fenced, Terminal
    <2>4. CASE RecoverCancelled(w)
      BY <2>3, <2>4 DEF RecoverCancelled, Terminal
    <2>5. CASE Settle(w)
      <3>1. worker[w].out \in Terminal
        BY <2>5 DEF Settle, StateTyped, MemoryTyped, WorkersTyped, PhaseOK
      <3> QED
        BY <2>3, <2>5, <3>1 DEF Settle
    <2>6. CASE SuspendExecution(w)
      BY <1>0, <2>6 DEF SuspendExecution, Park
    <2>7. CASE \/ StartRun(w) \/ RunNode(w) \/ PersistTraceRow(w) \/ CreateNodeRuns(w)
               \/ \E outcome \in Outcome : RunEnds(w, outcome)
      BY <1>k, <2>7 DEF StartRun, RunNode, PersistTraceRow, CreateNodeRuns, RunEnds
    <2>8. CASE SplitStep(w)
      <3>1. CASE \/ ReadFence(w) \/ InsertRows(w) \/ SuspendRead(w) \/ SettleFirst(w)
        BY <1>k, <3>1 DEF ReadFence, InsertRows, SuspendRead, SettleFirst, rowVars
      <3>2. CASE SuspendWrite(w) \/ SettleSecond(w)
        BY <1>0, <3>2 DEF SuspendWrite, Park, SettleSecond, Fenced
      <3> QED
        BY <2>8, <3>1, <3>2 DEF SplitStep
    <2> QED
      BY <1>2, <2>1, <2>2, <2>4, <2>5, <2>6, <2>7, <2>8 DEF WorkerStep
  <1>3. ASSUME NEW w \in Worker,
               Heartbeat(w) \/ PollCancellation(w) \/ Shutdown(w) \/ Abandon(w)
        PROVE  Stays
    BY <1>k, <1>3 DEF Heartbeat, PollCancellation, Shutdown, Abandon, rowVars
  <1>4. ASSUME NEW f \in Exec, LeaseExpires(f) \/ HolderStalls(f) PROVE Stays
    BY <1>k, <1>4 DEF LeaseExpires, HolderStalls
  <1>5. ASSUME NEW f \in Exec, NEW i, DeadlinePasses(f, i) PROVE Stays
    BY <1>k, <1>5 DEF DeadlinePasses, rowVars
  <1>6. ASSUME NEW f \in Exec, NEW i, ResumeWait(f, i) \/ SettleExpiredWait(f, i)
        PROVE  Stays
    BY <1>0, <1>6 DEF ResumeWait, SettleExpiredWait
  <1>7. ASSUME NEW c \in Caller, NEW f \in Exec, CancelRead(c, f) PROVE Stays
    BY <1>k, <1>7 DEF CancelRead, rowVars
  <1>8. ASSUME NEW c \in Caller, CancelWrite(c) PROVE Stays
    BY <1>0, <1>8 DEF CancelWrite, CancelWaiting, CancelQueued, CancelRunning
  <1>9. ASSUME NEW c \in Caller, SplitCall(c) PROVE Stays
    <2>1. ASSUME NEW f \in Exec, NEW i, EndRead(c, f, i) PROVE Stays
      BY <1>k, <2>1 DEF EndRead, rowVars
    <2>2. CASE EndWrite(c)
      BY <1>0, <2>2 DEF EndWrite
    <2> QED
      BY <1>9, <2>1, <2>2 DEF SplitCall
  <1> QED
    BY <1>1, <1>2, <1>3, <1>4, <1>5, <1>6, <1>7, <1>8, <1>9 DEF Next, Step, WaitStep

\* A finished execution is never queued, run or suspended again, whatever
\* late writes of stale workers and late cancel requests arrive.
THEOREM FinishedForEver == Spec => FinishedNeverRunsAgain
  <1> DEFINE Stays == \A e \in Exec : status[e] \in Terminal =>
                /\ status'[e] \notin {"absent", "queued", "running", "waiting"}
                /\ owner'[e] = 0
  <1>1. StateTyped /\ LeaseDiscipline /\ [Next]_vars => [Stays]_vars
    BY FinishedStays
  <1>2. StateTyped /\ LeaseDiscipline /\ [Next]_vars => StateTyped' /\ LeaseDiscipline'
    BY NextStateType, NextDiscipline
  <1>3. Init => StateTyped
    BY InitType DEF TypeOK
  <1> QED
    BY <1>3, InitDiscipline, <1>1, <1>2, PTL DEF Spec, FinishedNeverRunsAgain

-----------------------------------------------------------------------------
(* Segments and their traces on SQLite, where no transaction is taken      *)
(* apart. The invariants about segments are inductive together with one    *)
(* predicate per row and one per worker.                                   *)

\* The rows of the segment that is running or was the last to run.
LatestRows(e) == {r \in trace[e] : r.step > 0 /\ r.seg = Len(waits[e])}

\* A row that is queued or held was resumed from every wait it had; a waiting
\* one from all but the last. No row of the trace is ahead of the waits, and
\* the latest segment has rows only once it was handed out.
RowSegments(e) ==
    /\ \A i \in DOMAIN waits[e] :
          (\/ status[e] \in {"absent", "queued"}
           \/ owner[e] # 0
           \/ status[e] = "waiting" /\ i # Len(waits[e]))
          => waits[e][i].outcome = "resumed"
    /\ \A r \in trace[e] : r.seg <= Len(waits[e])
    /\ status[e] \in {"absent", "queued", "waiting"} => LatestRows(e) = {}
    /\ status[e] = "running" => \A r \in LatestRows(e) : r.by = owner[e]

\* The rows of one segment come from one attempt, and a success is whole.
RowTraces(e) ==
    /\ \A r, s \in trace[e] :
          r.seg = s.seg /\ r.step > 0 /\ s.step > 0 => r.by = s.by
    /\ status[e] = "succeeded" =>
          /\ settler[e].seg = Len(waits[e])
          /\ \A k \in 1 .. Steps :
                [seg |-> Len(waits[e]), step |-> k, by |-> settler[e].lease] \in trace[e]

\* A worker that holds the fence runs the latest segment and every row of that
\* segment is its own; before it reports success it has written all of them.
HolderSegments(w) ==
    LET s == worker[w]
        e == worker[w].exec IN
    /\ s.pc \in Ahead => s.seg = Len(waits[e])
    /\ s.pc \notin {"idle", "recovering"} => \A r \in LatestRows(e) : r.by = s.lease
    /\ s.pc = "settling" /\ s.out = "succeeded" =>
          \A k \in 1 .. Steps :
             [seg |-> s.seg, step |-> k, by |-> s.lease] \in trace[e]

SuccessRanAll(w) ==
    worker[w].pc = "flushing" /\ worker[w].out = "succeeded" => worker[w].step = Steps

SegmentInv ==
    /\ \A e \in Exec : RowSegments(e) /\ RowTraces(e)
    /\ \A w \in Worker : SuccessRanAll(w) /\
          (worker[w].pc # "idle" /\ Fenced(w) => HolderSegments(w))

\* The invariants the runs check follow from it.
LEMMA SegmentInvImplies ==
  ASSUME StateTyped, SegmentInv
  PROVE  HolderRunsLatestSegment /\ OneAttemptPerSegment
  <1>1. HolderRunsLatestSegment
    BY DEF SegmentInv, HolderSegments, HolderRunsLatestSegment, Ahead
  <1>2. OneAttemptPerSegment
    BY DEF SegmentInv, RowTraces, OneAttemptPerSegment
  <1> QED
    BY <1>1, <1>2

\* What a step leaves alone of a row and of a worker.
RowUntouched(f) ==
    /\ status'[f] = status[f] /\ owner'[f] = owner[f]
    /\ waits'[f] = waits[f] /\ trace'[f] = trace[f] /\ settler'[f] = settler[f]

LEMMA RowKeepsSegments ==
  ASSUME NEW f \in Exec, RowUntouched(f), RowSegments(f) /\ RowTraces(f)
  PROVE  RowSegments(f)' /\ RowTraces(f)'
  BY DEF RowUntouched, RowSegments, RowTraces, LatestRows

LEMMA WorkerKeepsSegments ==
  ASSUME StateTyped, SegmentInv, NEW v \in Worker, worker'[v] = worker[v],
         worker[v].pc # "idle" => RowUntouched(worker[v].exec)
  PROVE  SuccessRanAll(v)' /\ (worker'[v].pc # "idle" /\ Fenced(v)' => HolderSegments(v)')
  BY DEF SegmentInv, SuccessRanAll, Fenced, RowUntouched, HolderSegments, LatestRows

\* A worker that is idle or has lost the fence promises nothing but its outcome.
LEMMA OthersKeepSegments ==
  ASSUME StateTyped, SegmentInv, NEW v \in Worker, worker'[v] = worker[v],
         worker[v].pc # "idle" => RowUntouched(worker[v].exec) \/ ~Fenced(v)'
  PROVE  SuccessRanAll(v)' /\ (worker'[v].pc # "idle" /\ Fenced(v)' => HolderSegments(v)')
  BY WorkerKeepsSegments DEF SegmentInv, SuccessRanAll

\* A step that only moves workers: nobody gets further than the fence allows.
LEMMA WorkersOnlySegments ==
  ASSUME StateTyped, SegmentInv, UNCHANGED <<status, owner, waits, trace, settler>>,
         \A v \in Worker : \/ worker'[v].pc = "idle"
                           \/ /\ worker'[v].exec = worker[v].exec
                              /\ worker'[v].lease = worker[v].lease
                              /\ worker'[v].seg = worker[v].seg
                              /\ worker[v].pc # "idle"
                              /\ worker'[v].pc \in Ahead => worker[v].pc \in Ahead
                              /\ worker'[v].pc \notin {"idle", "recovering"} =>
                                    worker[v].pc \notin {"idle", "recovering"}
                              /\ SuccessRanAll(v)'
                              /\ worker'[v].pc = "settling" /\ worker'[v].out = "succeeded" =>
                                    worker[v].pc = "settling" /\ worker[v].out = "succeeded"
  PROVE  SegmentInv'
  <1>1. ASSUME NEW e \in Exec PROVE RowSegments(e)' /\ RowTraces(e)'
    BY RowKeepsSegments DEF SegmentInv, RowUntouched
  <1>2. ASSUME NEW v \in Worker
        PROVE  SuccessRanAll(v)' /\ (worker'[v].pc # "idle" /\ Fenced(v)' => HolderSegments(v)')
    <2>1. CASE worker'[v].pc = "idle"
      BY <2>1 DEF SuccessRanAll
    <2>2. CASE worker'[v].pc # "idle"
      <3>1. SuccessRanAll(v)'
        BY <2>2
      <3>2. Fenced(v)' => Fenced(v) /\ HolderSegments(v)
        BY <2>2 DEF SegmentInv, Fenced
      <3>3. HolderSegments(v) => HolderSegments(v)'
        BY <2>2 DEF HolderSegments, LatestRows
      <3> QED
        BY <3>1, <3>2, <3>3
    <2> QED
      BY <2>1, <2>2
  <1> QED
    BY <1>1, <1>2 DEF SegmentInv

\* Steps that move workers only.
LEMMA BesideTheGraphSegments ==
  ASSUME StateTyped, SegmentInv, NEW w \in Worker,
         Heartbeat(w) \/ PollCancellation(w) \/ Shutdown(w) \/ Abandon(w)
  PROVE  SegmentInv'
  <1>1. UNCHANGED <<status, owner, waits, trace, settler>>
    BY DEF Heartbeat, PollCancellation, Shutdown, Abandon, rowVars
  <1>2. ASSUME NEW v \in Worker
        PROVE \/ worker'[v].pc = "idle"
              \/ /\ worker[v].pc # "idle" /\ worker'[v].pc = worker[v].pc
                 /\ worker'[v].exec = worker[v].exec /\ worker'[v].lease = worker[v].lease
                 /\ worker'[v].seg = worker[v].seg /\ worker'[v].step = worker[v].step
                 /\ worker'[v].out = worker[v].out
    BY DEF Heartbeat, PollCancellation, Shutdown, Abandon, Released, IdleWorker,
           StateTyped, MemoryTyped, WorkersTyped, WorkerState
  <1>3. \A v \in Worker : SuccessRanAll(v)
    BY DEF SegmentInv
  <1> QED
    BY <1>1, <1>2, <1>3, WorkersOnlySegments DEF SuccessRanAll

LEMMA RunEndsSegments ==
  ASSUME StateTyped, SegmentInv, NEW w \in Worker, NEW outcome \in Outcome, RunEnds(w, outcome)
  PROVE  SegmentInv'
  <1>1. UNCHANGED <<status, owner, waits, trace, settler>>
    BY DEF RunEnds
  <1>2. \A v \in Worker : SuccessRanAll(v)
    BY DEF SegmentInv
  <1>3. ASSUME NEW v \in Worker
        PROVE  /\ worker'[v].exec = worker[v].exec /\ worker'[v].lease = worker[v].lease
               /\ worker'[v].seg = worker[v].seg
               /\ v # w => worker'[v] = worker[v]
               /\ v = w => /\ worker'[v].pc \in {"suspending", "flushing"}
                           /\ worker'[v].out = outcome /\ worker'[v].step = worker[v].step
    BY DEF RunEnds, StateTyped, MemoryTyped, WorkersTyped, WorkerState
  <1>4. worker[w].pc = "running" /\ (outcome = "succeeded" => worker[w].step = Steps)
    BY DEF RunEnds
  <1>5. ASSUME NEW v \in Worker PROVE SuccessRanAll(v)'
    BY <1>2, <1>3, <1>4 DEF SuccessRanAll
  <1> QED
    BY <1>1, <1>3, <1>4, <1>5, WorkersOnlySegments DEF Ahead

\* Steps that change neither the rows nor the workers.
LEMMA QuietSegments ==
  ASSUME StateTyped, SegmentInv, UNCHANGED <<status, owner, waits, trace, settler, worker>>
  PROVE  SegmentInv'
  <1>1. ASSUME NEW e \in Exec PROVE RowSegments(e)' /\ RowTraces(e)'
    BY RowKeepsSegments DEF SegmentInv, RowUntouched
  <1>2. ASSUME NEW v \in Worker
        PROVE  SuccessRanAll(v)' /\ (worker'[v].pc # "idle" /\ Fenced(v)' => HolderSegments(v)')
    BY WorkerKeepsSegments DEF RowUntouched
  <1> QED
    BY <1>1, <1>2 DEF SegmentInv

\* A fresh row has no waits and no trace.
LEMMA QueueSegments ==
  ASSUME StateTyped, SegmentInv, NEW e \in Exec, Queue(e)
  PROVE  SegmentInv'
  <1>1. ASSUME NEW f \in Exec PROVE RowSegments(f)' /\ RowTraces(f)'
    <2>1. CASE f # e
      BY <2>1, RowKeepsSegments DEF SegmentInv, RowUntouched, Queue, StateTyped, ColumnsTyped
    <2>2. CASE f = e
      BY <2>2 DEF SegmentInv, RowSegments, RowTraces, LatestRows, Queue, StateTyped, ColumnsTyped
    <2> QED
      BY <2>1, <2>2
  <1>2. ASSUME NEW v \in Worker
        PROVE  SuccessRanAll(v)' /\ (worker'[v].pc # "idle" /\ Fenced(v)' => HolderSegments(v)')
    <2>1. worker'[v] = worker[v]
      BY DEF Queue
    <2>2. worker[v].pc # "idle" => RowUntouched(worker[v].exec) \/ ~Fenced(v)'
      BY <2>1 DEF Queue, Fenced, RowUntouched, StateTyped, ColumnsTyped, MemoryTyped,
                  WorkersTyped, PhaseOK
    <2> QED
      BY <2>1, <2>2, OthersKeepSegments
  <1> QED
    BY <1>1, <1>2 DEF SegmentInv

\* The claim: a queued row has no rows of its latest segment, the trace of a
\* reclaimed one is deleted, and nobody writes to a cancelling one any more.
LEMMA ClaimNextSegments ==
  ASSUME StateTyped, LeaseDiscipline, SegmentInv, NEW w \in Worker, NEW e \in Exec,
         ClaimNext(w, e)
  PROVE  SegmentInv'
  <1>0. /\ status \in [Exec -> Status] /\ owner \in [Exec -> Nat]
        /\ trace \in [Exec -> SUBSET TraceRow]
        /\ waits' = waits /\ settler' = settler
        /\ nextLease \in Nat \ {0}
    BY DEF StateTyped, ColumnsTyped, TablesTyped, MemoryTyped, ClaimNext
  <1>e. /\ owner'[e] = nextLease
        /\ status'[e] = IF status[e] # "cancelling" THEN "running" ELSE status[e]
        /\ trace'[e] = IF status[e] = "running" THEN {} ELSE trace[e]
        /\ status[e] \in {"queued", "running", "cancelling"}
        /\ status[e] \in {"queued"} \/ owner[e] # 0
        /\ status[e] \in {"queued", "running", "cancelling"}
    BY <1>0 DEF ClaimNext, Candidate, Claimable, Reclaiming, LeaseDiscipline,
                RowsFollowTheLease, SettledCrashed, CrashedFront
  <1>f. ASSUME NEW f \in Exec, f # e
        PROVE  /\ trace'[f] = trace[f]
               /\ \/ RowUntouched(f)
                  \/ owner'[f] = 0 /\ status'[f] = "failed"
    BY <1>0, <1>f DEF ClaimNext, RowUntouched
  <1>1. ASSUME NEW f \in Exec PROVE RowSegments(f)' /\ RowTraces(f)'
    <2>0. RowSegments(f) /\ RowTraces(f)
      BY DEF SegmentInv
    <2>1. CASE f # e
      BY <1>0, <2>0, <2>1, <1>f, RowKeepsSegments DEF RowSegments, RowTraces, LatestRows
    <2>2. CASE f = e
      BY <1>0, <1>e, <2>0, <2>2 DEF RowSegments, RowTraces, LatestRows
    <2> QED
      BY <2>1, <2>2
  <1>2. ASSUME NEW v \in Worker
        PROVE  SuccessRanAll(v)' /\ (worker'[v].pc # "idle" /\ Fenced(v)' => HolderSegments(v)')
    <2>1. CASE v # w
      <3>1. worker'[v] = worker[v]
        BY <2>1 DEF ClaimNext
      <3>2. worker[v].pc # "idle" => worker[v].lease # nextLease /\ worker[v].lease # 0
                                     /\ worker[v].exec \in Exec
        BY <1>0 DEF LeaseDiscipline, LeasesAreDistinct, StateTyped, MemoryTyped, WorkersTyped,
                    PhaseOK, WorkerState
      <3>3. worker[v].pc # "idle" => RowUntouched(worker[v].exec) \/ ~Fenced(v)'
        BY <1>e, <1>f, <3>1, <3>2 DEF Fenced
      <3> QED
        BY <3>1, <3>3, OthersKeepSegments
    <2>2. CASE v = w
      <3>1. /\ worker'[w].pc = IF status[e] = "cancelling" THEN "recovering" ELSE "claimed"
            /\ worker'[w].exec = e /\ worker'[w].lease = nextLease
            /\ worker'[w].out = "failed"
        BY DEF ClaimNext, IdleWorker, StateTyped, MemoryTyped, WorkersTyped
      <3>2. RowSegments(e)'
        BY <1>1
      <3> QED
        BY <1>0, <1>e, <2>2, <3>1, <3>2 DEF SuccessRanAll, HolderSegments, RowSegments, Ahead
    <2> QED
      BY <2>1, <2>2
  <1> QED
    BY <1>1, <1>2 DEF SegmentInv

LEMMA ClaimSettlesOnlySegments ==
  ASSUME StateTyped, LeaseDiscipline, SegmentInv, NEW w \in Worker, ClaimSettlesOnly(w)
  PROVE  SegmentInv'
  <1>0. /\ status \in [Exec -> Status] /\ owner \in [Exec -> Nat]
        /\ waits' = waits /\ settler' = settler /\ trace' = trace
    BY DEF StateTyped, ColumnsTyped, ClaimSettlesOnly
  <1>f. ASSUME NEW f \in Exec
        PROVE  \/ RowUntouched(f)
               \/ owner'[f] = 0 /\ status'[f] = "failed"
    BY <1>0, <1>f DEF ClaimSettlesOnly, RowUntouched
  <1>1. ASSUME NEW f \in Exec PROVE RowSegments(f)' /\ RowTraces(f)'
    <2>0. RowSegments(f) /\ RowTraces(f)
      BY DEF SegmentInv
    <2> QED
      BY <1>0, <2>0, <1>f, RowKeepsSegments DEF RowSegments, RowTraces, LatestRows
  <1>2. ASSUME NEW v \in Worker
        PROVE  SuccessRanAll(v)' /\ (worker'[v].pc # "idle" /\ Fenced(v)' => HolderSegments(v)')
    <2>1. worker'[v] = worker[v]
      BY DEF ClaimSettlesOnly
    <2>2. worker[v].pc # "idle" => worker[v].exec \in Exec
      BY DEF StateTyped, MemoryTyped, WorkersTyped, PhaseOK
    <2>3. worker[v].pc # "idle" => RowUntouched(worker[v].exec) \/ ~Fenced(v)'
      BY <1>f, <2>1, <2>2 DEF Fenced
    <2> QED
      BY <2>1, <2>3, OthersKeepSegments
  <1> QED
    BY <1>1, <1>2 DEF SegmentInv

\* Two workers never hold the fence of one row.
LEMMA OneHolder ==
  ASSUME StateTyped, LeaseDiscipline, NEW w \in Worker, NEW v \in Worker, v # w,
         worker[w].pc # "idle", worker[v].pc # "idle",
         owner[worker[w].exec] = worker[w].lease
  PROVE  /\ worker[v].lease # owner[worker[w].exec]
         /\ worker[v].lease # 0 /\ worker[v].exec \in Exec
         /\ worker[w].lease # 0 /\ worker[w].exec \in Exec
  BY DEF LeaseDiscipline, LeasesAreDistinct, StateTyped, MemoryTyped, WorkersTyped, PhaseOK,
         WorkerState

\* The terminal write: a success is whole because the holder wrote all of it.
LEMMA UpdateRuntimeSegments ==
  ASSUME StateTyped, LeaseDiscipline, SegmentInv, NEW w \in Worker, NEW outcome \in Terminal,
         worker[w].pc \in {"recovering", "settling"}, UpdateRuntime(w, outcome),
         outcome = "succeeded" => worker[w].pc = "settling" /\ worker[w].out = "succeeded"
  PROVE  SegmentInv'
  <1> DEFINE e == worker[w].exec
  <1>0. /\ status \in [Exec -> Status] /\ owner \in [Exec -> Nat]
        /\ settler \in [Exec -> [lease : Nat, seg : Nat]]
        /\ waits' = waits /\ trace' = trace /\ e \in Exec
        /\ worker[w].lease # 0
        /\ worker[w].pc # "idle"
    BY DEF StateTyped, ColumnsTyped, MemoryTyped, WorkersTyped, PhaseOK, UpdateRuntime,
           LeaseDiscipline, LeasesAreDistinct
  <1>f. ASSUME NEW f \in Exec, f # e \/ ~Fenced(w) PROVE RowUntouched(f)
    BY <1>0, <1>f DEF UpdateRuntime, SettledBy, RowUntouched
  <1>e. Fenced(w) => /\ status'[e] = IF status[e] = "cancelling" THEN "cancelled" ELSE outcome
                     /\ owner'[e] = 0
                     /\ settler'[e] = [lease |-> worker[w].lease, seg |-> worker[w].seg]
    BY <1>0 DEF UpdateRuntime, SettledBy
  <1>h. Fenced(w) => HolderSegments(w)
    BY <1>0 DEF SegmentInv
  <1> HIDE DEF e
  <1>1. ASSUME NEW f \in Exec PROVE RowSegments(f)' /\ RowTraces(f)'
    <2>0. RowSegments(f) /\ RowTraces(f)
      BY DEF SegmentInv
    <2>1. CASE f # e \/ ~Fenced(w)
      BY <1>f, <2>0, <2>1, RowKeepsSegments
    <2>2. CASE f = e /\ Fenced(w)
      <3>1. RowSegments(f)'
        BY <1>0, <1>e, <2>0, <2>2 DEF RowSegments, LatestRows, Terminal
      <3>2. outcome = "succeeded" =>
               /\ worker[w].seg = Len(waits[e])
               /\ \A k \in 1 .. Steps :
                     [seg |-> Len(waits[e]), step |-> k, by |-> worker[w].lease] \in trace[e]
        BY <1>h, <2>2 DEF HolderSegments, Ahead, e
      <3>3. RowTraces(f)'
        BY <1>0, <1>e, <2>0, <2>2, <3>2 DEF RowTraces
      <3> QED
        BY <3>1, <3>3
    <2> QED
      BY <2>1, <2>2
  <1>2. ASSUME NEW v \in Worker
        PROVE  SuccessRanAll(v)' /\ (worker'[v].pc # "idle" /\ Fenced(v)' => HolderSegments(v)')
    <2>1. CASE v # w
      <3>1. worker'[v] = worker[v]
        BY <2>1 DEF UpdateRuntime, Released
      <3>2. worker[v].pc # "idle" => worker[v].exec \in Exec /\ worker[v].lease # 0
        BY DEF LeaseDiscipline, LeasesAreDistinct, StateTyped, MemoryTyped, WorkersTyped, PhaseOK
      <3>3. worker[v].pc # "idle" => RowUntouched(worker[v].exec) \/ ~Fenced(v)'
        BY <1>e, <1>f, <3>1, <3>2 DEF Fenced
      <3> QED
        BY <3>1, <3>3, OthersKeepSegments
    <2>2. CASE v = w
      BY <2>2 DEF UpdateRuntime, Released, IdleWorker, SuccessRanAll, StateTyped, MemoryTyped,
                  WorkersTyped
    <2> QED
      BY <2>1, <2>2
  <1> QED
    BY <1>1, <1>2 DEF SegmentInv

\* The resume state a holder loads is that of the last wait.
LEMMA StartRunSegments ==
  ASSUME StateTyped, LeaseDiscipline, SegmentInv, NEW w \in Worker, StartRun(w)
  PROVE  SegmentInv'
  <1> DEFINE e == worker[w].exec
  <1>0. /\ e \in Exec /\ worker[w].pc = "claimed" /\ worker[w].lease # 0
        /\ waits[e] \in Seq(Wait)
        /\ UNCHANGED <<status, owner, waits, trace, settler>>
    BY DEF StateTyped, TablesTyped, MemoryTyped, WorkersTyped, PhaseOK, StartRun, LeaseDiscipline,
           LeasesAreDistinct
  <1>k. PICK k \in ResumePoints(e) :
           /\ \A i \in ResumePoints(e) : i <= k
           /\ worker' = [worker EXCEPT ![w].pc = "running", ![w].seg = k]
    BY DEF StartRun
  <1>1. ASSUME NEW f \in Exec PROVE RowSegments(f)' /\ RowTraces(f)'
    BY <1>0, RowKeepsSegments DEF SegmentInv, RowUntouched
  <1>2. ASSUME NEW v \in Worker
        PROVE  SuccessRanAll(v)' /\ (worker'[v].pc # "idle" /\ Fenced(v)' => HolderSegments(v)')
    <2>1. CASE v # w
      <3>1. worker'[v] = worker[v]
        BY <1>k, <2>1 DEF StateTyped, MemoryTyped, WorkersTyped
      <3> QED
        BY <1>0, <3>1, WorkerKeepsSegments DEF RowUntouched
    <2>2. CASE v = w
      <3>1. /\ worker'[w].pc = "running" /\ worker'[w].seg = k /\ worker'[w].exec = e
            /\ worker'[w].lease = worker[w].lease
        BY <1>k DEF StateTyped, MemoryTyped, WorkersTyped, WorkerState
      <3>2. ASSUME Fenced(w) PROVE k = Len(waits[e])
        <4>1. \A i \in DOMAIN waits[e] : waits[e][i].outcome = "resumed"
          BY <1>0, <3>2 DEF SegmentInv, RowSegments, Fenced
        <4>2. DOMAIN waits[e] = 1 .. Len(waits[e]) /\ Len(waits[e]) \in Nat
          BY <1>0
        <4>3. ResumePoints(e) = 0 .. Len(waits[e])
          BY <4>1, <4>2 DEF ResumePoints
        <4> QED
          BY <1>k, <4>2, <4>3
      <3>3. Fenced(w)' => Fenced(w) /\ HolderSegments(w)
        BY <1>0, <3>1 DEF Fenced, SegmentInv
      <3> QED
        BY <1>0, <2>2, <3>1, <3>2, <3>3 DEF SuccessRanAll, HolderSegments, LatestRows
    <2> QED
      BY <2>1, <2>2
  <1> QED
    BY <1>1, <1>2 DEF SegmentInv

\* A write of the holder: rows of its own attempt, for nodes of its segment
\* that have none yet.
LEMMA HolderWrites ==
  ASSUME StateTyped, LeaseDiscipline, SegmentInv, NEW w \in Worker,
         worker[w].pc \in Ahead, Fenced(w), NEW rows,
         \A r \in rows : r.seg = worker[w].seg /\ r.by = worker[w].lease,
         trace' = [trace EXCEPT ![worker[w].exec] = @ \cup rows],
         UNCHANGED <<status, owner, waits, settler>>
  PROVE  /\ \A f \in Exec : RowSegments(f)' /\ RowTraces(f)'
         /\ \A v \in Worker : v # w /\ worker'[v] = worker[v] =>
               SuccessRanAll(v)' /\ (worker'[v].pc # "idle" /\ Fenced(v)' => HolderSegments(v)')
         /\ \A r \in trace'[worker[w].exec] :
               r.step > 0 /\ r.seg = Len(waits[worker[w].exec]) => r.by = worker[w].lease
  <1> DEFINE e == worker[w].exec
  <1>0. /\ e \in Exec /\ worker[w].pc \notin {"idle", "recovering"} /\ worker[w].lease # 0
        /\ waits[e] \in Seq(Wait) /\ trace \in [Exec -> SUBSET TraceRow]
        /\ worker[w].seg = Len(waits[e]) /\ Len(waits[e]) \in Nat
        /\ \A r \in LatestRows(e) : r.by = worker[w].lease
        /\ owner[e] = worker[w].lease /\ status[e] \in {"running", "cancelling"}
    BY DEF StateTyped, TablesTyped, MemoryTyped, WorkersTyped, PhaseOK, LeaseDiscipline,
           LeasesAreDistinct, Ahead, SegmentInv, HolderSegments, Fenced
  <1>t. trace'[e] = trace[e] \cup rows
    BY <1>0
  <1>h. \A r \in trace'[e] : r.step > 0 /\ r.seg = Len(waits[e]) => r.by = worker[w].lease
    BY <1>0, <1>t DEF LatestRows
  <1>1. ASSUME NEW f \in Exec PROVE RowSegments(f)' /\ RowTraces(f)'
    <2>0. RowSegments(f) /\ RowTraces(f)
      BY DEF SegmentInv
    <2>1. CASE f # e
      BY <1>0, <2>0, <2>1, RowKeepsSegments DEF RowUntouched
    <2>2. CASE f = e
      <3>1. RowSegments(f)'
        BY <1>0, <1>t, <1>h, <2>0, <2>2 DEF RowSegments, LatestRows
      <3>2. RowTraces(f)'
        BY <1>0, <1>t, <1>h, <2>0, <2>2 DEF RowTraces, LatestRows
      <3> QED
        BY <3>1, <3>2
    <2> QED
      BY <2>1, <2>2
  <1>2. ASSUME NEW v \in Worker, v # w, worker'[v] = worker[v]
        PROVE  SuccessRanAll(v)' /\ (worker'[v].pc # "idle" /\ Fenced(v)' => HolderSegments(v)')
    <2>1. worker[v].pc # "idle" => /\ worker[v].exec \in Exec
                                   /\ worker[v].lease # owner[e]
      BY <1>0, <1>2, OneHolder
    <2>2. worker[v].pc # "idle" => RowUntouched(worker[v].exec) \/ ~Fenced(v)'
      BY <1>0, <1>2, <2>1 DEF Fenced, RowUntouched
    <2> QED
      BY <1>2, <2>2, OthersKeepSegments
  <1> QED
    BY <1>1, <1>2, <1>h

LEMMA RunNodeSegments ==
  ASSUME StateTyped, LeaseDiscipline, SegmentInv, NEW w \in Worker, RunNode(w)
  PROVE  SegmentInv'
  <1> DEFINE e == worker[w].exec
             row == [seg |-> worker[w].seg, step |-> worker[w].step + 1,
                     by |-> worker[w].lease]
  <1>0. /\ UNCHANGED <<status, owner, waits, settler>>
        /\ worker[w].pc = "running"
        /\ \A v \in Worker : v # w => worker'[v] = worker[v]
        /\ worker'[w].pc = "running" /\ worker'[w].exec = e
        /\ worker'[w].lease = worker[w].lease /\ worker'[w].seg = worker[w].seg
        /\ worker'[w].out = worker[w].out
    BY DEF RunNode, StateTyped, MemoryTyped, WorkersTyped, WorkerState
  <1>1. CASE UNCHANGED trace
    <2>1. \A v \in Worker : SuccessRanAll(v)
      BY DEF SegmentInv
    <2>2. ASSUME NEW v \in Worker PROVE SuccessRanAll(v)'
      BY <1>0, <2>1 DEF SuccessRanAll
    <2>3. ASSUME NEW v \in Worker, worker'[v].pc # "idle"
          PROVE  worker'[v].exec = worker[v].exec /\ worker'[v].lease = worker[v].lease
                 /\ worker'[v].seg = worker[v].seg /\ worker'[v].pc = worker[v].pc
                 /\ worker'[v].out = worker[v].out
      BY <1>0
    <2> QED
      BY <1>0, <1>1, <2>2, <2>3, WorkersOnlySegments
  <1>2. CASE Fenced(w) /\ trace' = [trace EXCEPT ![e] = @ \cup {row}]
    <2> DEFINE rows == {row}
    <2>1. \A r \in rows : r.seg = worker[w].seg /\ r.by = worker[w].lease
      OBVIOUS
    <2>t. trace' = [trace EXCEPT ![e] = @ \cup rows]
      BY <1>2
    <2> HIDE DEF rows, row
    <2>2. /\ \A f \in Exec : RowSegments(f)' /\ RowTraces(f)'
          /\ \A v \in Worker : v # w =>
               SuccessRanAll(v)' /\ (worker'[v].pc # "idle" /\ Fenced(v)' => HolderSegments(v)')
          /\ \A r \in trace'[e] : r.step > 0 /\ r.seg = Len(waits[e]) => r.by = worker[w].lease
      BY <1>0, <1>2, <2>1, <2>t, HolderWrites DEF Ahead
    <2>3. worker[w].seg = Len(waits[e])
      BY <1>0, <1>2 DEF SegmentInv, HolderSegments, Ahead
    <2>4. SuccessRanAll(w)' /\ HolderSegments(w)'
      BY <1>0, <2>2, <2>3 DEF SuccessRanAll, HolderSegments, LatestRows
    <2> QED
      BY <2>2, <2>4 DEF SegmentInv
  <1> QED
    BY <1>1, <1>2 DEF RunNode

LEMMA PersistTraceRowSegments ==
  ASSUME StateTyped, LeaseDiscipline, SegmentInv, NEW w \in Worker, PersistTraceRow(w)
  PROVE  SegmentInv'
  <1> DEFINE e == worker[w].exec
  <1>0. /\ UNCHANGED <<status, owner, waits, settler>>
        /\ worker[w].pc = "suspending"
        /\ \A v \in Worker : SuccessRanAll(v)
    BY DEF PersistTraceRow, SegmentInv
  <1>1. CASE Goes(w, "parking") /\ UNCHANGED trace
    <2>1. ASSUME NEW v \in Worker
          PROVE  /\ worker'[v].exec = worker[v].exec /\ worker'[v].lease = worker[v].lease
                 /\ worker'[v].seg = worker[v].seg /\ worker'[v].step = worker[v].step
                 /\ worker'[v].out = worker[v].out
                 /\ v # w => worker'[v] = worker[v]
                 /\ v = w => worker'[v].pc = "parking"
      BY <1>1 DEF Goes, StateTyped, MemoryTyped, WorkersTyped, WorkerState
    <2>2. ASSUME NEW v \in Worker PROVE SuccessRanAll(v)'
      BY <1>0, <2>1 DEF SuccessRanAll
    <2> QED
      BY <1>0, <1>1, <2>1, <2>2, WorkersOnlySegments DEF Ahead
  <1>2. CASE Released(w) /\ UNCHANGED trace
    <2>1. ASSUME NEW v \in Worker PROVE worker'[v] = worker[v] \/ worker'[v].pc = "idle"
      BY <1>2 DEF Released, IdleWorker, StateTyped, MemoryTyped, WorkersTyped
    <2>2. ASSUME NEW v \in Worker PROVE SuccessRanAll(v)'
      BY <1>0, <2>1 DEF SuccessRanAll
    <2> QED
      BY <1>0, <1>2, <2>1, <2>2, WorkersOnlySegments
  <1>3. ASSUME NEW row \in MissingRows(w), Fenced(w), UNCHANGED worker,
               trace' = [trace EXCEPT ![e] = @ \cup {row}]
        PROVE  SegmentInv'
    <2> DEFINE rows == {row}
    <2>1. \A r \in rows : r.seg = worker[w].seg /\ r.by = worker[w].lease
      BY DEF MissingRows
    <2>t. trace' = [trace EXCEPT ![e] = @ \cup rows]
      BY <1>3
    <2> HIDE DEF rows
    <2>2. /\ \A f \in Exec : RowSegments(f)' /\ RowTraces(f)'
          /\ \A v \in Worker : v # w =>
               SuccessRanAll(v)' /\ (worker'[v].pc # "idle" /\ Fenced(v)' => HolderSegments(v)')
          /\ \A r \in trace'[e] : r.step > 0 /\ r.seg = Len(waits[e]) => r.by = worker[w].lease
      BY <1>0, <1>3, <2>1, <2>t, HolderWrites DEF Ahead
    <2>3. worker[w].seg = Len(waits[e])
      BY <1>0, <1>3 DEF SegmentInv, HolderSegments, Ahead
    <2>4. SuccessRanAll(w)' /\ HolderSegments(w)'
      BY <1>0, <1>3, <2>2, <2>3 DEF SuccessRanAll, HolderSegments, LatestRows
    <2> QED
      BY <2>2, <2>4 DEF SegmentInv
  <1> QED
    BY <1>1, <1>2, <1>3 DEF PersistTraceRow

\* The terminal trace transaction of a holder leaves its segment whole.
LEMMA CreateNodeRunsSegments ==
  ASSUME StateTyped, LeaseDiscipline, SegmentInv, NEW w \in Worker, CreateNodeRuns(w)
  PROVE  SegmentInv'
  <1> DEFINE e == worker[w].exec
  <1>0. /\ UNCHANGED <<status, owner, waits, settler>>
        /\ worker[w].pc = "flushing"
        /\ \A v \in Worker : SuccessRanAll(v)
        /\ worker[w].step \in Nat /\ e \in Exec
        /\ trace \in [Exec -> SUBSET TraceRow]
    BY DEF CreateNodeRuns, SegmentInv, StateTyped, TablesTyped, MemoryTyped, WorkersTyped,
           WorkerState, PhaseOK
  <1>w. ASSUME NEW v \in Worker
        PROVE  /\ worker'[v].exec = worker[v].exec /\ worker'[v].lease = worker[v].lease
               /\ worker'[v].seg = worker[v].seg /\ worker'[v].step = worker[v].step
               /\ v # w => worker'[v] = worker[v]
               /\ v = w => /\ worker'[v].pc = "settling"
                           /\ worker'[v].out \in {worker[v].out, "failed"}
    BY DEF CreateNodeRuns, Goes, StateTyped, MemoryTyped, WorkersTyped, WorkerState
  <1>s. ASSUME NEW v \in Worker PROVE SuccessRanAll(v)'
    BY <1>0, <1>w DEF SuccessRanAll
  <1>1. CASE UNCHANGED trace /\ (worker'[w].out = "failed" \/ worker[w].step = 0)
    <2>1. worker'[w].out # "succeeded"
      BY <1>0, <1>1, <1>w, BoundAssumption DEF SuccessRanAll
    <2> QED
      BY <1>0, <1>1, <1>w, <1>s, <2>1, WorkersOnlySegments DEF Ahead
  <1>2. CASE Fenced(w) /\ trace' = [trace EXCEPT ![e] = @ \cup MissingRows(w)]
    <2>1. \A r \in MissingRows(w) : r.seg = worker[w].seg /\ r.by = worker[w].lease
      BY DEF MissingRows
    <2>2. /\ \A f \in Exec : RowSegments(f)' /\ RowTraces(f)'
          /\ \A v \in Worker : v # w =>
               SuccessRanAll(v)' /\ (worker'[v].pc # "idle" /\ Fenced(v)' => HolderSegments(v)')
          /\ \A r \in trace'[e] : r.step > 0 /\ r.seg = Len(waits[e]) => r.by = worker[w].lease
      BY <1>0, <1>2, <1>w, <2>1, HolderWrites DEF Ahead
    <2>3. /\ worker[w].seg = Len(waits[e])
          /\ \A r \in LatestRows(e) : r.by = worker[w].lease
      BY <1>0, <1>2 DEF SegmentInv, HolderSegments, Ahead
    <2>4. ASSUME NEW k \in 1 .. Steps, worker'[w].out = "succeeded"
          PROVE  [seg |-> worker[w].seg, step |-> k, by |-> worker[w].lease] \in trace'[e]
      <3>1. worker[w].step = Steps
        BY <1>0, <1>w, <2>4 DEF SuccessRanAll
      <3>2. trace'[e] = trace[e] \cup MissingRows(w)
        BY <1>0, <1>2
      <3>3. CASE \E r \in trace[e] : r.seg = worker[w].seg /\ r.step = k
        <4>1. PICK r \in trace[e] : r.seg = worker[w].seg /\ r.step = k
          BY <3>3
        <4>2. r.by = worker[w].lease /\ r \in TraceRow
          BY <1>0, <2>3, <4>1, BoundAssumption DEF LatestRows
        <4>3. r = [seg |-> worker[w].seg, step |-> k, by |-> worker[w].lease]
          BY <4>1, <4>2 DEF TraceRow
        <4> QED
          BY <3>2, <4>3
      <3>4. CASE \A r \in trace[e] : ~(r.seg = worker[w].seg /\ r.step = k)
        BY <3>1, <3>2, <3>4 DEF MissingRows
      <3> QED
        BY <3>3, <3>4
    <2>5. HolderSegments(w)'
      BY <1>0, <1>w, <2>2, <2>3, <2>4 DEF HolderSegments, LatestRows
    <2> QED
      BY <1>s, <2>2, <2>5 DEF SegmentInv
  <1>3. CASE worker[w].step = 0 /\ trace' = [trace EXCEPT ![e] = @ \cup MissingRows(w)]
    <2>1. MissingRows(w) = {}
      BY <1>3 DEF MissingRows
    <2>2. UNCHANGED trace
      BY <1>0, <1>3, <2>1
    <2> QED
      BY <1>1, <1>3, <2>2
  <1>4. \/ Fenced(w) /\ trace' = [trace EXCEPT ![e] = @ \cup MissingRows(w)]
        \/ worker[w].step = 0 /\ trace' = [trace EXCEPT ![e] = @ \cup MissingRows(w)]
        \/ UNCHANGED trace /\ worker'[w].out = "failed"
    BY DEF CreateNodeRuns, StateTyped, MemoryTyped, WorkersTyped, WorkerState
  <1> QED
    BY <1>1, <1>2, <1>3, <1>4

\* What SuspendExecution does to its row: park it, or refuse.
LEMMA SuspendEffect ==
  ASSUME StateTyped, NEW w \in Worker, SuspendExecution(w)
  PROVE  LET e == worker[w].exec
             row == [mode |-> worker[w].out, due |-> FALSE, outcome |-> "open"] IN
         /\ e \in Exec /\ trace' = trace /\ settler' = settler
         /\ \A f \in Exec : f # e => RowUntouched(f)
         /\ \/ RowUntouched(e)
            \/ /\ status[e] = "running" /\ owner[e] = worker[w].lease
               /\ status'[e] = "waiting" /\ owner'[e] = 0
               /\ waits'[e] = Append(waits[e], row) /\ Len(waits'[e]) = Len(waits[e]) + 1
  <1> DEFINE e == worker[w].exec
             row == [mode |-> worker[w].out, due |-> FALSE, outcome |-> "open"]
             fenced == status[e] = "running" /\ owner[e] = worker[w].lease
  <1>0. /\ status \in [Exec -> Status] /\ owner \in [Exec -> Nat]
        /\ waits \in [Exec -> Seq(Wait)] /\ trace \in [Exec -> SUBSET TraceRow]
        /\ trace' = trace /\ settler' = settler /\ e \in Exec
    BY DEF StateTyped, ColumnsTyped, TablesTyped, MemoryTyped, WorkersTyped, PhaseOK,
           SuspendExecution
  <1>f. ASSUME NEW f \in Exec, f # e \/ ~fenced PROVE RowUntouched(f)
    BY <1>0, <1>f DEF SuspendExecution, InsertWait, Park, RowUntouched
  <1>e. fenced => /\ status'[e] = "waiting" /\ owner'[e] = 0
                  /\ waits'[e] = Append(waits[e], row)
    BY <1>0 DEF SuspendExecution, InsertWait, Park
  <1>l. row \in Wait
    BY DEF SuspendExecution, StateTyped, MemoryTyped, WorkersTyped, PhaseOK, Wait
  <1> HIDE DEF row
  <1>a. Len(Append(waits[e], row)) = Len(waits[e]) + 1
    BY <1>0, <1>l
  <1> QED
    BY <1>0, <1>f, <1>e, <1>a DEF row

LEMMA AppendFacts ==
  ASSUME NEW S, NEW s \in Seq(S), NEW x \in S, NEW t
  PROVE  t = Append(s, x) => /\ Len(t) = Len(s) + 1 /\ Len(s) \in Nat
         /\ DOMAIN s = 1 .. Len(s)
         /\ DOMAIN t = 1 .. (Len(s) + 1)
         /\ \A i \in 1 .. Len(s) : t[i] = s[i]
  OBVIOUS

\* Parking starts a new segment, which has no rows yet.
LEMMA SuspendExecutionSegments ==
  ASSUME StateTyped, LeaseDiscipline, SegmentInv, NEW w \in Worker, SuspendExecution(w)
  PROVE  SegmentInv'
  <1> DEFINE e == worker[w].exec
             row == [mode |-> worker[w].out, due |-> FALSE, outcome |-> "open"]
             fenced == status[e] = "running" /\ owner[e] = worker[w].lease
  <1>0. /\ status \in [Exec -> Status] /\ owner \in [Exec -> Nat]
        /\ waits \in [Exec -> Seq(Wait)] /\ trace \in [Exec -> SUBSET TraceRow]
        /\ trace' = trace /\ settler' = settler
        /\ worker[w].pc = "parking"
        /\ Released(w)
    BY DEF StateTyped, ColumnsTyped, TablesTyped, SuspendExecution
  <1>w. e \in Exec /\ worker[w].lease # 0 /\ row \in Wait
    BY <1>0 DEF StateTyped, MemoryTyped, WorkersTyped, PhaseOK, Wait, LeaseDiscipline,
                LeasesAreDistinct
  <1>f. ASSUME NEW f \in Exec, f # e \/ ~fenced PROVE RowUntouched(f)
    BY <1>0, <1>w, <1>f DEF SuspendExecution, InsertWait, Park, RowUntouched
  <1>e. fenced => /\ status'[e] = "waiting" /\ owner'[e] = 0
                  /\ waits'[e] = Append(waits[e], row)
    BY <1>0, <1>w DEF SuspendExecution, InsertWait, Park
  <1> HIDE DEF e, row, fenced
  <1>1. ASSUME NEW f \in Exec PROVE RowSegments(f)' /\ RowTraces(f)'
    <2>0. RowSegments(f) /\ RowTraces(f)
      BY DEF SegmentInv
    <2>1. CASE f # e \/ ~fenced
      BY <1>f, <2>0, <2>1, RowKeepsSegments
    <2>2. CASE f = e /\ fenced
      <3>0. waits'[f] = Append(waits[f], row) /\ waits[f] \in Seq(Wait)
        BY <1>0, <1>w, <1>e, <2>2
      <3>1. /\ Len(waits'[f]) = Len(waits[f]) + 1 /\ Len(waits[f]) \in Nat
            /\ DOMAIN waits[f] = 1 .. Len(waits[f])
            /\ DOMAIN waits'[f] = 1 .. (Len(waits[f]) + 1)
            /\ \A i \in 1 .. Len(waits[f]) : waits'[f][i] = waits[f][i]
        <4>1. row \in Wait /\ waits[f] \in Seq(Wait) /\ waits'[f] = Append(waits[f], row)
          BY <1>w, <3>0
        <4> QED
          BY <4>1, AppendFacts
      <3>2. \A i \in DOMAIN waits[f] : waits[f][i].outcome = "resumed"
        BY <1>0, <1>w, <2>0, <2>2 DEF RowSegments, fenced, e
      <3>3. \A r \in trace[f] : r \in TraceRow /\ r.seg <= Len(waits[f])
        BY <1>0, <2>0 DEF RowSegments
      <3>4. \A r \in trace'[f] : r.seg \in Nat /\ r.seg < Len(waits'[f])
        BY <1>0, <3>1, <3>3 DEF TraceRow
      <3>5. RowSegments(f)'
        BY <1>e, <2>2, <3>1, <3>2, <3>4 DEF RowSegments, LatestRows
      <3>6. RowTraces(f)'
        BY <1>0, <1>e, <2>0, <2>2 DEF RowTraces
      <3> QED
        BY <3>5, <3>6
    <2> QED
      BY <2>1, <2>2
  <1>2. ASSUME NEW v \in Worker
        PROVE  SuccessRanAll(v)' /\ (worker'[v].pc # "idle" /\ Fenced(v)' => HolderSegments(v)')
    <2>1. CASE v # w
      <3>1. worker'[v] = worker[v]
        BY <1>0, <2>1 DEF Released, StateTyped, MemoryTyped, WorkersTyped
      <3>2. worker[v].pc # "idle" => worker[v].exec \in Exec /\ worker[v].lease # 0
        BY DEF LeaseDiscipline, LeasesAreDistinct, StateTyped, MemoryTyped, WorkersTyped, PhaseOK
      <3>3. worker[v].pc # "idle" => RowUntouched(worker[v].exec) \/ ~Fenced(v)'
        BY <1>e, <1>f, <3>1, <3>2 DEF Fenced
      <3> QED
        BY <3>1, <3>3, OthersKeepSegments
    <2>2. CASE v = w
      BY <1>0, <2>2 DEF Released, IdleWorker, SuccessRanAll, StateTyped, MemoryTyped, WorkersTyped
    <2> QED
      BY <2>1, <2>2
  <1> QED
    BY <1>1, <1>2 DEF SegmentInv

\* Rewriting one column of one wait: what the table holds afterwards.
LEMMA WaitRewritten ==
  ASSUME StateTyped, NEW e \in Exec, NEW i \in DOMAIN waits[e], NEW o,
         \/ waits' = [waits EXCEPT ![e][i].outcome = o]
         \/ waits' = [waits EXCEPT ![e][i].due = TRUE] /\ o = waits[e][i].outcome
  PROVE  /\ \A f \in Exec : f # e => waits'[f] = waits[f]
         /\ Len(waits'[e]) = Len(waits[e]) /\ DOMAIN waits'[e] = DOMAIN waits[e]
         /\ \A j \in DOMAIN waits[e] : j # i => waits'[e][j].outcome = waits[e][j].outcome
         /\ waits'[e][i].outcome = o
  <1>1. waits \in [Exec -> Seq(Wait)] /\ waits[e] \in Seq(Wait) /\ waits[e][i] \in Wait
    BY DEF StateTyped, TablesTyped
  <1>2. DOMAIN waits[e] = 1 .. Len(waits[e]) /\ Len(waits[e]) \in Nat
    BY <1>1
  <1> DEFINE ended == [waits[e][i] EXCEPT !.outcome = o]
             dued == [waits[e][i] EXCEPT !.due = TRUE]
  <1>3. ended.outcome = o /\ dued.outcome = waits[e][i].outcome
    BY <1>1 DEF Wait
  <1>4. \/ waits' = [waits EXCEPT ![e] = [waits[e] EXCEPT ![i] = ended]]
        \/ waits' = [waits EXCEPT ![e] = [waits[e] EXCEPT ![i] = dued]] /\ o = dued.outcome
    BY <1>1, <1>3
  <1> HIDE DEF ended, dued
  <1>5. PICK x : x.outcome = o /\ waits' = [waits EXCEPT ![e] = [waits[e] EXCEPT ![i] = x]]
    BY <1>3, <1>4
  <1>6. /\ waits'[e] = [waits[e] EXCEPT ![i] = x]
        /\ \A f \in Exec : f # e => waits'[f] = waits[f]
    BY <1>1, <1>5
  <1>7. /\ DOMAIN waits'[e] = DOMAIN waits[e]
        /\ waits'[e][i] = x
        /\ \A j \in DOMAIN waits[e] : j # i => waits'[e][j] = waits[e][j]
    BY <1>6, <1>1
  <1>8. Len(waits'[e]) = Len(waits[e])
    BY <1>1, <1>6
  <1> QED
    BY <1>5, <1>6, <1>7, <1>8

\* A row that keeps its length of waits and its trace, and is not handed out.
LEMMA RowLetGo ==
  ASSUME NEW f \in Exec, RowSegments(f) /\ RowTraces(f),
         Len(waits'[f]) = Len(waits[f]), DOMAIN waits'[f] = DOMAIN waits[f],
         trace'[f] = trace[f], settler'[f] = settler[f], owner'[f] = owner[f] \/ owner'[f] = 0,
         \/ status'[f] = status[f]
         \/ status'[f] = "queued" /\ status[f] = "waiting"
         \/ status'[f] \in {"failed", "cancelled", "cancelling"},
         \A i \in DOMAIN waits[f] :
            \/ waits'[f][i].outcome = waits[f][i].outcome /\
                  ~(status'[f] = "queued" /\ status[f] = "waiting" /\ i = Len(waits[f]))
            \/ waits'[f][i].outcome = "resumed"
            \/ status'[f] \in {"failed", "cancelled"} /\ owner'[f] = 0,
         status'[f] = "running" => owner'[f] = owner[f],
         status'[f] = "cancelling" => owner'[f] = owner[f]
  PROVE  RowSegments(f)' /\ RowTraces(f)'
  <1>1. RowSegments(f)'
    BY DEF RowSegments, LatestRows
  <1>2. RowTraces(f)'
    BY DEF RowTraces
  <1> QED
    BY <1>1, <1>2

\* What the clock, a resume and the sweep do to a row and its waits.
LEMMA WaitEffect ==
  ASSUME StateTyped, NEW e \in Exec, NEW i \in DOMAIN waits[e],
         DeadlinePasses(e, i) \/ ResumeWait(e, i) \/ SettleExpiredWait(e, i)
  PROVE  /\ waits[e][i].outcome = "open"
         /\ trace' = trace /\ settler' = settler /\ worker' = worker
         /\ \A f \in Exec : f # e => RowUntouched(f)
         /\ Len(waits'[e]) = Len(waits[e]) /\ DOMAIN waits'[e] = DOMAIN waits[e]
         /\ \A j \in DOMAIN waits[e] : j # i => waits'[e][j].outcome = waits[e][j].outcome
         /\ \/ /\ waits'[e][i].outcome = "open" /\ status' = status /\ owner' = owner
            \/ /\ waits'[e][i].outcome = "resumed"
               /\ status[e] = "waiting" /\ status'[e] = "queued" /\ owner'[e] = 0
            \/ status[e] = "waiting" /\ status'[e] = "failed" /\ owner'[e] = 0
  <1> DEFINE o == waits'[e][i].outcome
  <1>0. /\ status \in [Exec -> Status] /\ owner \in [Exec -> Nat] /\ waits \in [Exec -> Seq(Wait)]
        /\ trace' = trace /\ settler' = settler /\ worker' = worker
        /\ waits[e][i].outcome = "open"
    BY DEF StateTyped, ColumnsTyped, TablesTyped, DeadlinePasses, ResumeWait, SettleExpiredWait,
           rowVars
  <1>1. /\ \A f \in Exec : f # e => waits'[f] = waits[f]
        /\ Len(waits'[e]) = Len(waits[e]) /\ DOMAIN waits'[e] = DOMAIN waits[e]
        /\ \A j \in DOMAIN waits[e] : j # i => waits'[e][j].outcome = waits[e][j].outcome
        /\ \/ o = "open" /\ DeadlinePasses(e, i)
           \/ o = "resumed" /\ status[e] = "waiting" /\ status'[e] = "queued" /\ owner'[e] = 0
           \/ status[e] = "waiting" /\ status'[e] = "failed" /\ owner'[e] = 0
    <2>1. CASE DeadlinePasses(e, i)
      <3>1. waits' = [waits EXCEPT ![e][i].due = TRUE]
        BY <2>1 DEF DeadlinePasses
      <3> QED
        BY <1>0, <2>1, <3>1, WaitRewritten
    <2>2. CASE waits' = [waits EXCEPT ![e][i].outcome = "resumed"] /\ status[e] = "waiting"
               /\ status' = [status EXCEPT ![e] = "queued"] /\ owner' = [owner EXCEPT ![e] = 0]
      BY <1>0, <2>2, WaitRewritten
    <2>3. CASE waits' = [waits EXCEPT ![e][i].outcome = "expired"] /\ status[e] = "waiting"
               /\ status' = [status EXCEPT ![e] = "failed"] /\ owner' = [owner EXCEPT ![e] = 0]
      BY <1>0, <2>3, WaitRewritten
    <2> QED
      BY <2>1, <2>2, <2>3 DEF ResumeWait, SettleExpiredWait
  <1>2. ASSUME NEW f \in Exec, f # e PROVE RowUntouched(f)
    BY <1>0, <1>1, <1>2 DEF RowUntouched, DeadlinePasses, ResumeWait, SettleExpiredWait, rowVars
  <1>d. DeadlinePasses(e, i) => status' = status /\ owner' = owner
    BY DEF DeadlinePasses, rowVars
  <1> QED
    BY <1>0, <1>1, <1>2, <1>d

LEMMA WaitStepSegments ==
  ASSUME StateTyped, LeaseDiscipline, SegmentInv, NEW e \in Exec, NEW i \in DOMAIN waits[e],
         DeadlinePasses(e, i) \/ ResumeWait(e, i) \/ SettleExpiredWait(e, i)
  PROVE  SegmentInv'
  <1>0. /\ waits[e][i].outcome = "open"
        /\ trace' = trace /\ settler' = settler /\ worker' = worker
        /\ Len(waits'[e]) = Len(waits[e]) /\ DOMAIN waits'[e] = DOMAIN waits[e]
        /\ \A j \in DOMAIN waits[e] : j # i => waits'[e][j].outcome = waits[e][j].outcome
        /\ \/ /\ waits'[e][i].outcome = "open" /\ status' = status /\ owner' = owner
           \/ /\ waits'[e][i].outcome = "resumed"
              /\ status[e] = "waiting" /\ status'[e] = "queued" /\ owner'[e] = 0
           \/ status[e] = "waiting" /\ status'[e] = "failed" /\ owner'[e] = 0
    BY WaitEffect
  <1>2. ASSUME NEW f \in Exec, f # e PROVE RowUntouched(f)
    BY <1>2, WaitEffect
  <1>3. RowSegments(e)' /\ RowTraces(e)'
    <2>0. RowSegments(e) /\ RowTraces(e)
      BY DEF SegmentInv
    <2>1. status[e] = "waiting" => i = Len(waits[e])
      BY <1>0, <2>0 DEF RowSegments
    <2> QED
      BY <1>0, <2>0, <2>1, RowLetGo
  <1>4. ASSUME NEW v \in Worker
        PROVE  SuccessRanAll(v)' /\ (worker'[v].pc # "idle" /\ Fenced(v)' => HolderSegments(v)')
    <2>1. worker'[v] = worker[v] /\ (worker[v].pc # "idle" => worker[v].exec \in Exec)
      BY <1>0 DEF StateTyped, MemoryTyped, WorkersTyped, PhaseOK
    <2>2. CASE worker[v].pc = "idle" \/ worker[v].exec # e \/ ~Fenced(v)'
      BY <1>2, <2>1, <2>2, OthersKeepSegments
    <2>3. CASE worker[v].pc # "idle" /\ worker[v].exec = e /\ Fenced(v)'
      <3>1. Fenced(v)
        BY <1>0, <2>1, <2>3 DEF Fenced
      <3>2. SuccessRanAll(v) /\ HolderSegments(v)
        BY <2>3, <3>1 DEF SegmentInv
      <3> QED
        BY <1>0, <2>1, <2>3, <3>2 DEF SuccessRanAll, HolderSegments, LatestRows
    <2> QED
      BY <2>2, <2>3
  <1> QED
    BY <1>2, <1>3, <1>4, RowKeepsSegments DEF SegmentInv

\* What a cancel write may do to its row: end it, ask its holder to stop, or
\* nothing; the row it adds to the trace belongs to no node.
LEMMA CancelEffect ==
  ASSUME StateTyped, NEW c \in Caller, CancelWrite(c)
  PROVE  LET e == caller[c].exec IN
         /\ e \in Exec /\ settler' = settler /\ worker' = worker
         /\ \A f \in Exec : f # e => RowUntouched(f)
         /\ Len(waits'[e]) = Len(waits[e]) /\ DOMAIN waits'[e] = DOMAIN waits[e]
         /\ trace'[e] \in {trace[e], trace[e] \cup {[seg |-> Len(waits[e]), step |-> 0, by |-> 0]}}
         /\ \/ owner'[e] = 0 /\ status'[e] = "cancelled"
            \/ /\ owner'[e] = owner[e] /\ status'[e] \in {status[e], "cancelling"}
               /\ waits'[e] = waits[e] /\ trace'[e] = trace[e]
  <1> DEFINE e == caller[c].exec
             row == [seg |-> Len(waits[e]), step |-> 0, by |-> 0]
  <1>0. /\ status \in [Exec -> Status] /\ owner \in [Exec -> Nat] /\ waits \in [Exec -> Seq(Wait)]
        /\ trace \in [Exec -> SUBSET TraceRow]
        /\ settler' = settler /\ worker' = worker
        /\ e \in Exec
    BY DEF StateTyped, ColumnsTyped, TablesTyped, MemoryTyped, CallerState, CancelWrite
  <1>1. \/ CancelWaiting(e) /\ status[e] = "waiting"
        \/ CancelQueued(e)
        \/ CancelRunning(e)
        \/ UNCHANGED <<status, owner, waits, trace>>
    BY DEF CancelWrite, CancelWaiting
  <1>2. ASSUME NEW f \in Exec, f # e PROVE RowUntouched(f)
    BY <1>0, <1>1, <1>2 DEF RowUntouched, CancelWaiting, CancelQueued, CancelRunning
  <1>e. /\ Len(waits'[e]) = Len(waits[e]) /\ DOMAIN waits'[e] = DOMAIN waits[e]
        /\ trace'[e] \in {trace[e], trace[e] \cup {row}}
        /\ \/ owner'[e] = 0 /\ status'[e] = "cancelled"
           \/ /\ owner'[e] = owner[e] /\ status'[e] \in {status[e], "cancelling"}
              /\ waits'[e] = waits[e] /\ trace'[e] = trace[e]
    <2>1. CASE CancelWaiting(e) /\ status[e] = "waiting"
      <3> DEFINE settled == [i \in DOMAIN waits[e] |->
                  IF waits[e][i].outcome = "open" /\ \A j \in DOMAIN waits[e] :
                        waits[e][j].outcome = "open" => j <= i
                  THEN [waits[e][i] EXCEPT !.outcome = "cancelled"] ELSE waits[e][i]]
      <3>1. /\ waits'[e] = settled /\ owner'[e] = 0 /\ status'[e] = "cancelled"
            /\ trace'[e] = trace[e] \cup {row}
        BY <1>0, <2>1 DEF CancelWaiting
      <3>2. DOMAIN settled = 1 .. Len(waits[e]) /\ DOMAIN waits[e] = 1 .. Len(waits[e])
            /\ Len(waits[e]) \in Nat
        BY <1>0
      <3>3. settled \in Seq(Wait)
        <4>1. waits' \in [Exec -> Seq(Wait)]
          BY <1>0, <2>1, CancelWaitingType
        <4> QED
          BY <1>0, <3>1, <4>1
      <3>4. Len(settled) = Len(waits[e])
        <4> HIDE DEF settled
        <4> QED
          BY <3>2, <3>3
      <3> QED
        BY <3>1, <3>2, <3>4
    <2>2. CASE CancelQueued(e) \/ CancelRunning(e) \/ UNCHANGED <<status, owner, waits, trace>>
      BY <1>0, <2>2 DEF CancelQueued, CancelRunning
    <2> QED
      BY <1>1, <2>1, <2>2
  <1> QED
    BY <1>0, <1>2, <1>e

\* A late cancel may take the row away from its holder, never hand it to one;
\* the row it adds to the trace belongs to no node.
LEMMA CancelWriteSegments ==
  ASSUME StateTyped, LeaseDiscipline, SegmentInv, NEW c \in Caller, CancelWrite(c)
  PROVE  SegmentInv'
  <1> DEFINE e == caller[c].exec
             row == [seg |-> Len(waits[e]), step |-> 0, by |-> 0]
  <1>0. /\ status \in [Exec -> Status] /\ owner \in [Exec -> Nat] /\ waits \in [Exec -> Seq(Wait)]
        /\ trace \in [Exec -> SUBSET TraceRow]
        /\ settler' = settler /\ worker' = worker
        /\ e \in Exec
    BY CancelEffect DEF StateTyped, ColumnsTyped, TablesTyped
  <1>2. ASSUME NEW f \in Exec, f # e PROVE RowUntouched(f)
    BY <1>2, CancelEffect
  <1>e. /\ Len(waits'[e]) = Len(waits[e]) /\ DOMAIN waits'[e] = DOMAIN waits[e]
        /\ trace'[e] \in {trace[e], trace[e] \cup {row}}
        /\ \/ owner'[e] = 0 /\ status'[e] = "cancelled"
           \/ /\ owner'[e] = owner[e] /\ status'[e] \in {status[e], "cancelling"}
              /\ waits'[e] = waits[e] /\ trace'[e] = trace[e]
    BY CancelEffect
  <1> HIDE DEF e
  <1>3. ASSUME NEW f \in Exec PROVE RowSegments(f)' /\ RowTraces(f)'
    <2>0. RowSegments(f) /\ RowTraces(f) /\ Len(waits[f]) \in Nat
      BY <1>0 DEF SegmentInv
    <2>1. CASE f # e
      BY <1>2, <2>0, <2>1, RowKeepsSegments
    <2>2. CASE f = e /\ trace'[f] = trace[f]
      <3>1. \/ status'[f] = status[f]
            \/ status'[f] \in {"cancelled", "cancelling"}
        BY <1>e, <2>2
      <3> QED
        BY <1>0, <1>e, <2>0, <2>2, <3>1, RowLetGo
    <2>3. CASE f = e /\ trace'[f] = trace[f] \cup {row} /\ status'[f] = "cancelled" /\ owner'[f] = 0
      <3>1. RowSegments(f)'
        BY <1>0, <1>e, <2>0, <2>3 DEF RowSegments
      <3>2. RowTraces(f)'
        BY <2>0, <2>3 DEF RowTraces
      <3> QED
        BY <3>1, <3>2
    <2> QED
      BY <1>e, <2>1, <2>2, <2>3
  <1>4. ASSUME NEW v \in Worker
        PROVE  SuccessRanAll(v)' /\ (worker'[v].pc # "idle" /\ Fenced(v)' => HolderSegments(v)')
    <2>1. /\ worker'[v] = worker[v] /\ SuccessRanAll(v)
          /\ worker[v].pc # "idle" => worker[v].exec \in Exec /\ worker[v].lease # 0
      BY <1>0 DEF StateTyped, MemoryTyped, WorkersTyped, PhaseOK, SegmentInv, LeaseDiscipline,
                  LeasesAreDistinct
    <2>2. CASE worker[v].pc = "idle" \/ worker[v].exec # e \/ ~Fenced(v)'
      BY <1>2, <2>1, <2>2, OthersKeepSegments
    <2>3. CASE worker[v].pc # "idle" /\ worker[v].exec = e /\ Fenced(v)'
      <3>1. owner[e] = worker[v].lease /\ waits'[e] = waits[e] /\ trace'[e] = trace[e]
        BY <1>e, <2>1, <2>3 DEF Fenced
      <3>2. Fenced(v)
        BY <1>0, <2>1, <2>3, <3>1, RowKept DEF Fenced
      <3>3. HolderSegments(v)
        BY <2>3, <3>2 DEF SegmentInv
      <3> QED
        BY <2>1, <2>3, <3>1, <3>3 DEF SuccessRanAll, HolderSegments, LatestRows
    <2> QED
      BY <2>2, <2>3
  <1> QED
    BY <1>3, <1>4 DEF SegmentInv

LEMMA InitSegments == Init => SegmentInv
  <1> SUFFICES ASSUME Init PROVE SegmentInv
    OBVIOUS
  <1>1. ASSUME NEW e \in Exec PROVE RowSegments(e) /\ RowTraces(e)
    BY DEF Init, RowSegments, RowTraces, LatestRows
  <1>2. ASSUME NEW w \in Worker PROVE worker[w].pc = "idle" /\ SuccessRanAll(w)
    BY DEF Init, IdleWorker, SuccessRanAll
  <1> QED
    BY <1>1, <1>2 DEF SegmentInv

LEMMA WorkerStepSegments ==
  ASSUME StateTyped, LeaseDiscipline, SegmentInv, backend = "sqlite",
         NEW w \in Worker, WorkerStep(w)
  PROVE  SegmentInv'
  <1>1. ASSUME NEW e \in Exec, ClaimNext(w, e) PROVE SegmentInv'
    BY <1>1, ClaimNextSegments
  <1>2. CASE ClaimSettlesOnly(w)
    BY <1>2, ClaimSettlesOnlySegments
  <1>3. CASE RecoverCancelled(w)
    BY <1>3, UpdateRuntimeSegments DEF RecoverCancelled, Terminal
  <1>4. CASE StartRun(w)
    BY <1>4, StartRunSegments
  <1>5. CASE RunNode(w)
    BY <1>5, RunNodeSegments
  <1>6. ASSUME NEW outcome \in Outcome, RunEnds(w, outcome) PROVE SegmentInv'
    BY <1>6, RunEndsSegments
  <1>7. CASE PersistTraceRow(w)
    BY <1>7, PersistTraceRowSegments
  <1>8. CASE SuspendExecution(w)
    BY <1>8, SuspendExecutionSegments
  <1>9. CASE CreateNodeRuns(w)
    BY <1>9, CreateNodeRunsSegments
  <1>10. CASE Settle(w)
    <2>1. worker[w].out \in Terminal
      BY <1>10 DEF Settle, StateTyped, MemoryTyped, WorkersTyped, PhaseOK
    <2> QED
      BY <1>10, <2>1, UpdateRuntimeSegments DEF Settle
  <1> QED
    BY <1>1, <1>2, <1>3, <1>4, <1>5, <1>6, <1>7, <1>8, <1>9, <1>10 DEF WorkerStep

\* Every step of the queue on SQLite keeps the segments.
LEMMA NextSegments ==
  ASSUME StateTyped, LeaseDiscipline, SegmentInv, backend = "sqlite", [Next]_vars
  PROVE  SegmentInv'
  <1>1. ASSUME NEW e \in Exec, Queue(e) PROVE SegmentInv'
    BY <1>1, QueueSegments
  <1>2. ASSUME NEW w \in Worker, WorkerStep(w) PROVE SegmentInv'
    BY <1>2, WorkerStepSegments
  <1>3. ASSUME NEW w \in Worker,
               Heartbeat(w) \/ PollCancellation(w) \/ Shutdown(w) \/ Abandon(w)
        PROVE  SegmentInv'
    BY <1>3, BesideTheGraphSegments
  <1>4. ASSUME NEW e \in Exec, LeaseExpires(e) \/ HolderStalls(e) PROVE SegmentInv'
    BY <1>4, QuietSegments DEF LeaseExpires, HolderStalls
  <1>5. ASSUME NEW e \in Exec, WaitStep(e) PROVE SegmentInv'
    BY <1>5, WaitStepSegments DEF WaitStep
  <1>6. ASSUME NEW e \in Exec, NEW i \in DOMAIN waits[e], ResumeWait(e, i) PROVE SegmentInv'
    BY <1>6, WaitStepSegments
  <1>7. ASSUME NEW c \in Caller, NEW e \in Exec, CancelRead(c, e) PROVE SegmentInv'
    BY <1>7, QuietSegments DEF CancelRead, rowVars
  <1>8. ASSUME NEW c \in Caller, CancelWrite(c) PROVE SegmentInv'
    BY <1>8, CancelWriteSegments
  <1>9. CASE UNCHANGED vars
    BY <1>9, QuietSegments DEF vars
  <1> QED
    BY <1>1, <1>2, <1>3, <1>4, <1>5, <1>6, <1>7, <1>8, <1>9 DEF Next, Step

SegmentsOnSqlite == backend = "sqlite" => SegmentInv

LEMMA SegmentInvHolds == Spec => [](StateTyped /\ LeaseDiscipline /\ SegmentsOnSqlite)
  <1>1. Init => StateTyped /\ LeaseDiscipline /\ SegmentsOnSqlite
    BY InitType, InitDiscipline, InitSegments DEF TypeOK, SegmentsOnSqlite
  <1>2. ASSUME StateTyped, LeaseDiscipline, SegmentsOnSqlite, [Next]_vars
        PROVE  StateTyped' /\ LeaseDiscipline' /\ SegmentsOnSqlite'
    <2>1. backend' = backend
      BY <1>2 DEF Next, vars
    <2>2. backend = "sqlite" => SegmentInv'
      BY <1>2, NextSegments DEF SegmentsOnSqlite
    <2>3. SegmentsOnSqlite'
      BY <2>1, <2>2 DEF SegmentsOnSqlite
    <2> QED
      BY <1>2, <2>3, NextStateType, NextDiscipline
  <1> QED
    BY <1>1, <1>2, PTL DEF Spec

\* On SQLite a worker that still holds the fence runs the segment after the
\* latest resumed wait, for any number of suspensions, workers and late cancels: what
\* GetResumeState loads after the claim committed is never out of date for the
\* worker that may write.
THEOREM HolderIsAtLatestSegment == Spec => []HolderRunsLatestSegment
  <1>1. StateTyped /\ SegmentsOnSqlite => HolderRunsLatestSegment
    BY SegmentInvImplies DEF SegmentsOnSqlite, HolderRunsLatestSegment
  <1> QED
    BY <1>1, SegmentInvHolds, PTL

\* On SQLite the rows of one segment come from one attempt, however often leases are
\* lost and executions reclaimed in the middle of a segment.
THEOREM AttemptsNeverMix == Spec => []OneAttemptPerSegment
  <1>1. StateTyped /\ SegmentsOnSqlite => OneAttemptPerSegment
    BY SegmentInvImplies DEF SegmentsOnSqlite, OneAttemptPerSegment
  <1> QED
    BY <1>1, SegmentInvHolds, PTL

-----------------------------------------------------------------------------
(* A success is whole on both databases. On PostgreSQL rows of other       *)
(* attempts may lie beside the settler's, so what is counted is that each  *)
(* step of its segment has a row while the settler still owned the row.    *)

Stored(e, s, k) == \E r \in trace[e] : r.seg = s /\ r.step = k

Owns(w) == owner[worker[w].exec] = worker[w].lease

\* A run that succeeded did every step. While its worker owns the row, each
\* step is stored or about to be inserted, and stored once it settles.
HolderWhole(w) ==
    LET s == worker[w] IN
    /\ s.pc = "flushing" /\ s.out = "succeeded" => s.step = Steps
    /\ s.pc = "flushing" /\ s.draft # {} /\ Owns(w) =>
          \A k \in 1 .. s.step :
              Stored(s.exec, s.seg, k) \/ \E r \in s.draft : r.seg = s.seg /\ r.step = k
    /\ s.pc \in {"settling", "finishing"} /\ s.out = "succeeded" /\ Owns(w) =>
          \A k \in 1 .. Steps : Stored(s.exec, s.seg, k)

RowWhole(e) ==
    status[e] = "succeeded" => \A k \in 1 .. Steps : Stored(e, settler[e].seg, k)

WholeInv == (\A e \in Exec : RowWhole(e)) /\ (\A w \in Worker : HolderWhole(w))

\* What steps do to a row that cannot make a trace less whole.
RowGrows(e) ==
    /\ owner'[e] \in {owner[e], 0}
    /\ trace[e] \subseteq trace'[e]
    /\ status'[e] = "succeeded" => status[e] = "succeeded" /\ settler'[e] = settler[e]

LEMMA OthersStayWhole ==
  ASSUME StateTyped, LeaseDiscipline, WholeInv, NEW v \in Worker, worker'[v] = worker[v],
         \/ worker[v].pc = "idle"
         \/ owner'[worker[v].exec] \in {owner[worker[v].exec], 0}
            /\ trace[worker[v].exec] \subseteq trace'[worker[v].exec]
         \/ owner'[worker[v].exec] # worker[v].lease
  PROVE  HolderWhole(v)'
  <1>1. worker[v].pc # "idle" => worker[v].lease # 0
    BY DEF LeaseDiscipline, LeasesAreDistinct
  <1>2. HolderWhole(v)
    BY DEF WholeInv
  <1> QED
    BY <1>1, <1>2 DEF HolderWhole, Owns, Stored

LEMMA WholeGrows ==
  ASSUME StateTyped, LeaseDiscipline, WholeInv, \A e \in Exec : RowGrows(e),
         \A v \in Worker : worker'[v] = worker[v] \/ HolderWhole(v)'
  PROVE  WholeInv'
  <1>1. ASSUME NEW e \in Exec PROVE RowWhole(e)'
    BY DEF WholeInv, RowWhole, RowGrows, Stored
  <1>2. ASSUME NEW v \in Worker PROVE HolderWhole(v)'
    <2>1. worker[v].pc # "idle" => worker[v].exec \in Exec
      BY DEF StateTyped, MemoryTyped, WorkersTyped, PhaseOK
    <2> QED
      BY <2>1, OthersStayWhole DEF RowGrows
  <1> QED
    BY <1>1, <1>2 DEF WholeInv

\* Steps that leave the rows alone, and at most move a worker to where nothing
\* is promised of it.
Unpromising(v) == worker'[v].pc \notin {"flushing", "settling", "finishing"}

LEMMA QuietWhole ==
  ASSUME StateTyped, LeaseDiscipline, WholeInv, UNCHANGED <<status, owner, trace, settler>>,
         \A v \in Worker : worker'[v] = worker[v] \/ Unpromising(v)
  PROVE  WholeInv'
  <1>1. \A e \in Exec : RowGrows(e)
    BY DEF RowGrows
  <1>2. \A v \in Worker : Unpromising(v) => HolderWhole(v)'
    BY DEF Unpromising, HolderWhole
  <1> QED
    BY <1>1, <1>2, WholeGrows

LEMMA ClaimNextWhole ==
  ASSUME StateTyped, LeaseDiscipline, WholeInv, NEW w \in Worker, NEW e \in Exec, ClaimNext(w, e)
  PROVE  WholeInv'
  <1>0. /\ status \in [Exec -> Status] /\ owner \in [Exec -> Nat] /\ nextLease \in Nat
        /\ trace \in [Exec -> SUBSET TraceRow] /\ worker \in [Worker -> WorkerState]
    BY DEF StateTyped, ColumnsTyped, TablesTyped, MemoryTyped, WorkersTyped
  <1>c. status[e] \in {"queued", "running", "cancelling"}
    BY DEF ClaimNext, Candidate, Claimable
  <1>d. /\ \A f \in Exec : status'[f] = IF f = e /\ status[e] # "cancelling" THEN "running"
                                        ELSE IF f \in SettledCrashed THEN "failed" ELSE status[f]
        /\ \A f \in Exec : owner'[f] = IF f = e THEN nextLease
                                       ELSE IF f \in SettledCrashed THEN 0 ELSE owner[f]
        /\ \A f \in Exec : f # e => trace'[f] = trace[f]
        /\ settler' = settler
    BY <1>0 DEF ClaimNext
  <1>1. owner'[e] = nextLease /\ status'[e] # "succeeded"
    BY <1>c, <1>d
  <1>2. ASSUME NEW f \in Exec, f # e PROVE RowGrows(f)
    BY <1>d, <1>2 DEF RowGrows
  <1>3. ASSUME NEW f \in Exec PROVE RowWhole(f)'
    BY <1>1, <1>2 DEF WholeInv, RowWhole, RowGrows, Stored
  <1>4. ASSUME NEW v \in Worker PROVE HolderWhole(v)'
    <2>1. CASE v = w
      BY <1>0, <2>1 DEF ClaimNext, IdleWorker, HolderWhole
    <2>2. CASE v # w
      <3>1. worker'[v] = worker[v]
        BY <1>0, <2>2 DEF ClaimNext
      <3>2. worker[v].pc # "idle" => worker[v].exec \in Exec /\ worker[v].lease < nextLease
                                     /\ worker[v].lease \in Nat
        BY <1>0 DEF StateTyped, MemoryTyped, WorkersTyped, PhaseOK, LeaseDiscipline,
                    LeasesAreDistinct, WorkerState
      <3>3. \/ worker[v].pc = "idle"
            \/ RowGrows(worker[v].exec)
            \/ owner'[worker[v].exec] # worker[v].lease
        BY <1>0, <1>1, <1>2, <3>2
      <3> QED
        BY <3>1, <3>3, OthersStayWhole DEF RowGrows
    <2> QED
      BY <2>1, <2>2
  <1> QED
    BY <1>3, <1>4 DEF WholeInv

\* A worker settles its row: it owned the row, so its segment is stored.
LEMMA SettleWhole ==
  ASSUME StateTyped, LeaseDiscipline, WholeInv, NEW w \in Worker, Released(w), trace' = trace,
         \/ UNCHANGED <<status, owner, settler>>
         \/ /\ Owns(w) /\ SettledBy(w)
            /\ worker[w].pc # "idle"
            /\ owner' = [owner EXCEPT ![worker[w].exec] = 0]
            /\ \E s : /\ status' = [status EXCEPT ![worker[w].exec] = s]
                      /\ s = "succeeded" => /\ worker[w].out = "succeeded"
                                            /\ worker[w].pc \in {"settling", "finishing"}
  PROVE  WholeInv'
  <1> DEFINE e == worker[w].exec
  <1>0. /\ status \in [Exec -> Status] /\ owner \in [Exec -> Nat]
        /\ settler \in [Exec -> [lease : Nat, seg : Nat]]
        /\ worker \in [Worker -> WorkerState]
        /\ worker[w].pc # "idle" => e \in Exec
    BY DEF StateTyped, ColumnsTyped, MemoryTyped, WorkersTyped, PhaseOK
  <1>1. ASSUME NEW f \in Exec PROVE RowGrows(f) \/ (f = e /\ RowWhole(f)')
    <2>0. trace'[f] = trace[f]
      OBVIOUS
    <2>1. CASE UNCHANGED <<status, owner, settler>>
      <3>1. status'[f] = status[f] /\ owner'[f] = owner[f] /\ settler'[f] = settler[f]
        BY <2>1
      <3> QED
        BY <2>0, <3>1 DEF RowGrows
    <2>2. CASE f # e
      <3>1. status'[f] = status[f] /\ owner'[f] = owner[f] /\ settler'[f] = settler[f]
        BY <1>0, <2>2 DEF SettledBy
      <3> QED
        BY <2>0, <3>1 DEF RowGrows
    <2>3. CASE f = e /\ ~UNCHANGED <<status, owner, settler>>
      <3>1. status'[e] = "succeeded" =>
               worker[w].out = "succeeded" /\ worker[w].pc \in {"settling", "finishing"}
        BY <1>0, <2>3
      <3>2. Owns(w) /\ settler'[e].seg = worker[w].seg
        BY <1>0, <2>3 DEF SettledBy
      <3>3. HolderWhole(w)
        BY DEF WholeInv
      <3> QED
        BY <2>3, <3>1, <3>2, <3>3 DEF RowWhole, HolderWhole, Stored
    <2> QED
      BY <2>1, <2>2, <2>3
  <1>2. ASSUME NEW f \in Exec PROVE RowWhole(f)' /\ owner'[f] \in {owner[f], 0}
    BY <1>0, <1>1 DEF WholeInv, RowWhole, RowGrows, Stored
  <1>3. ASSUME NEW v \in Worker PROVE HolderWhole(v)'
    <2>1. CASE v = w
      BY <1>0, <2>1 DEF Released, IdleWorker, HolderWhole
    <2>2. CASE v # w
      <3>1. worker'[v] = worker[v]
        BY <1>0, <2>2 DEF Released
      <3>2. worker[v].pc # "idle" => worker[v].exec \in Exec
        BY DEF StateTyped, MemoryTyped, WorkersTyped, PhaseOK
      <3> QED
        BY <1>2, <3>1, <3>2, OthersStayWhole
    <2> QED
      BY <2>1, <2>2
  <1> QED
    BY <1>2, <1>3 DEF WholeInv

\* A row that is stored, and a row a trace write adds.
LEMMA MissingOrStored ==
  ASSUME StateTyped, NEW w \in Worker, NEW k \in 1 .. worker[w].step
  PROVE  \/ Stored(worker[w].exec, worker[w].seg, k)
         \/ \E r \in MissingRows(w) : r.seg = worker[w].seg /\ r.step = k
  <1> DEFINE row == [seg |-> worker[w].seg, step |-> k, by |-> worker[w].lease]
  <1>1. ASSUME ~Stored(worker[w].exec, worker[w].seg, k) PROVE row \in MissingRows(w)
    BY <1>1 DEF MissingRows, Stored
  <1>2. row.seg = worker[w].seg /\ row.step = k
    OBVIOUS
  <1> QED
    BY <1>1, <1>2

LEMMA CreateNodeRunsWhole ==
  ASSUME StateTyped, LeaseDiscipline, WholeInv, NEW w \in Worker, CreateNodeRuns(w)
  PROVE  WholeInv'
  <1> DEFINE e == worker[w].exec
  <1>0. /\ trace \in [Exec -> SUBSET TraceRow] /\ worker \in [Worker -> WorkerState]
        /\ worker[w].pc = "flushing" /\ e \in Exec
        /\ UNCHANGED <<status, owner, settler>>
        /\ HolderWhole(w)
    BY DEF StateTyped, TablesTyped, MemoryTyped, WorkersTyped, PhaseOK, CreateNodeRuns, WholeInv
  <1>1. ASSUME NEW f \in Exec PROVE RowGrows(f)
    BY <1>0 DEF CreateNodeRuns, RowGrows
  <1>2. ASSUME NEW v \in Worker, v # w PROVE worker'[v] = worker[v]
    BY <1>0, <1>2 DEF CreateNodeRuns, Goes
  <1>3. HolderWhole(w)'
    <2>1. CASE worker'[w].out = "succeeded"
      <3>1. /\ trace' = [trace EXCEPT ![e] = @ \cup MissingRows(w)]
            /\ worker[w].out = "succeeded" /\ worker'[w].exec = e
            /\ worker'[w].seg = worker[w].seg /\ worker'[w].pc = "settling"
        BY <1>0, <2>1 DEF CreateNodeRuns, Goes, WorkerState
      <3>2. worker[w].step = Steps
        BY <1>0, <3>1 DEF HolderWhole
      <3>3. trace'[e] = trace[e] \cup MissingRows(w)
        BY <1>0, <3>1
      <3>4. \A k \in 1 .. Steps : Stored(e, worker[w].seg, k)'
        BY <3>1, <3>2, <3>3, MissingOrStored DEF Stored
      <3> QED
        BY <3>1, <3>4 DEF HolderWhole, Stored
    <2>2. CASE worker'[w].out # "succeeded"
      BY <1>0, <2>2 DEF CreateNodeRuns, Goes, HolderWhole, WorkerState
    <2> QED
      BY <2>1, <2>2
  <1> QED
    BY <1>1, <1>2, <1>3, WholeGrows

LEMMA ReadFenceWhole ==
  ASSUME StateTyped, LeaseDiscipline, WholeInv, NEW w \in Worker, ReadFence(w)
  PROVE  WholeInv'
  <1>0. /\ worker \in [Worker -> WorkerState]
        /\ UNCHANGED <<status, owner, settler, trace>>
        /\ HolderWhole(w)
    BY DEF StateTyped, MemoryTyped, WorkersTyped, ReadFence, rowVars, WholeInv
  <1>1. \A e \in Exec : RowGrows(e)
    BY <1>0 DEF RowGrows
  <1>2. ASSUME NEW v \in Worker, v # w PROVE worker'[v] = worker[v]
    BY <1>0, <1>2 DEF ReadFence
  <1>3. HolderWhole(w)'
    <2>1. CASE worker[w].pc # "flushing"
      BY <1>0, <2>1 DEF ReadFence, HolderWhole, WorkerState
    <2>2. CASE worker[w].pc = "flushing"
      <3>1. worker'[w] = [worker[w] EXCEPT !.draft = MissingRows(w)]
        BY <1>0, <2>2 DEF ReadFence
      <3>2. /\ worker'[w].pc = "flushing" /\ worker'[w].out = worker[w].out
            /\ worker'[w].step = worker[w].step /\ worker'[w].seg = worker[w].seg
            /\ worker'[w].exec = worker[w].exec /\ worker'[w].draft = MissingRows(w)
        BY <1>0, <2>2, <3>1 DEF WorkerState
      <3>3. \A k \in 1 .. worker[w].step :
               \/ Stored(worker[w].exec, worker[w].seg, k)
               \/ \E r \in MissingRows(w) : r.seg = worker[w].seg /\ r.step = k
        BY MissingOrStored
      <3> QED
        BY <1>0, <2>2, <3>2, <3>3 DEF HolderWhole, Stored
    <2> QED
      BY <2>1, <2>2
  <1> QED
    BY <1>1, <1>2, <1>3, WholeGrows

LEMMA InsertRowsWhole ==
  ASSUME StateTyped, LeaseDiscipline, WholeInv, NEW w \in Worker, InsertRows(w)
  PROVE  WholeInv'
  <1> DEFINE e == worker[w].exec
  <1>0. /\ trace \in [Exec -> SUBSET TraceRow] /\ worker \in [Worker -> WorkerState]
        /\ worker[w].pc # "idle" /\ e \in Exec
        /\ UNCHANGED <<status, owner, settler>>
        /\ HolderWhole(w)
    BY DEF StateTyped, TablesTyped, MemoryTyped, WorkersTyped, PhaseOK, InsertRows, rowVars, WholeInv
  <1>1. ASSUME NEW f \in Exec PROVE RowGrows(f)
    BY <1>0 DEF InsertRows, RowGrows
  <1>2. ASSUME NEW v \in Worker, v # w PROVE worker'[v] = worker[v]
    BY <1>0, <1>2 DEF InsertRows, Released
  <1>3. HolderWhole(w)'
    <2>1. CASE worker[w].pc # "flushing"
      BY <1>0, <2>1 DEF InsertRows, Released, IdleWorker, HolderWhole, WorkerState
    <2>2. CASE worker[w].pc = "flushing" /\ worker'[w].out = "succeeded"
      <3>1. /\ trace' = [trace EXCEPT ![e] = @ \cup worker[w].draft]
            /\ worker[w].draft # {}
            /\ worker[w].out = "succeeded" /\ worker'[w].exec = e
            /\ worker'[w].seg = worker[w].seg /\ worker'[w].pc = "settling"
            /\ worker'[w].lease = worker[w].lease
        BY <1>0, <2>2 DEF InsertRows, WorkerState
      <3>2. worker[w].step = Steps
        BY <1>0, <2>2, <3>1 DEF HolderWhole
      <3>3. trace'[e] = trace[e] \cup worker[w].draft
        BY <1>0, <3>1
      <3>4. Owns(w)' => \A k \in 1 .. Steps : Stored(e, worker[w].seg, k)'
        BY <1>0, <2>2, <3>1, <3>2, <3>3 DEF Stored, HolderWhole, Owns
      <3> QED
        BY <3>1, <3>4 DEF HolderWhole, Stored
    <2>3. CASE worker[w].pc = "flushing" /\ worker'[w].out # "succeeded"
      BY <1>0, <2>3 DEF InsertRows, HolderWhole, WorkerState
    <2> QED
      BY <2>1, <2>2, <2>3
  <1> QED
    BY <1>1, <1>2, <1>3, WholeGrows

\* What a suspension does to its row, in one transaction or taken apart.
LEMMA ParkEffect ==
  ASSUME StateTyped, NEW w \in Worker, SuspendExecution(w) \/ SuspendWrite(w)
  PROVE  LET e == worker[w].exec IN
         /\ e \in Exec /\ Released(w) /\ UNCHANGED <<reclaims, runs, caller>>
         /\ \/ UNCHANGED <<status, owner, parks>>
            \/ /\ status[e] = "running" /\ owner[e] = worker[w].lease
               /\ status' = [status EXCEPT ![e] = "waiting"]
               /\ owner' = [owner EXCEPT ![e] = 0]
               /\ parks' = [parks EXCEPT ![e] = @ + 1]
  BY DEF SuspendExecution, SuspendWrite, Park, StateTyped, MemoryTyped, WorkersTyped, PhaseOK

LEMMA WorkerStepWhole ==
  ASSUME StateTyped, LeaseDiscipline, WholeInv, NEW w \in Worker, WorkerStep(w)
  PROVE  WholeInv'
  <1>0. /\ status \in [Exec -> Status] /\ owner \in [Exec -> Nat]
        /\ trace \in [Exec -> SUBSET TraceRow] /\ worker \in [Worker -> WorkerState]
        /\ HolderWhole(w)
    BY DEF StateTyped, ColumnsTyped, TablesTyped, MemoryTyped, WorkersTyped, WholeInv
  <1>1. ASSUME NEW e \in Exec, ClaimNext(w, e) PROVE WholeInv'
    BY <1>1, ClaimNextWhole
  <1>2. CASE ClaimSettlesOnly(w)
    <2>1. \A e \in Exec : RowGrows(e)
      BY <1>0, <1>2 DEF ClaimSettlesOnly, RowGrows
    <2> QED
      BY <1>2, <2>1, WholeGrows DEF ClaimSettlesOnly
  <1>3. CASE RecoverCancelled(w)
    <2>1. worker[w].pc = "recovering" /\ UpdateRuntime(w, "cancelled")
      BY <1>3 DEF RecoverCancelled
    <2>2. \/ UNCHANGED <<status, owner, settler>>
          \/ /\ Owns(w) /\ SettledBy(w)
             /\ owner' = [owner EXCEPT ![worker[w].exec] = 0]
             /\ status' = [status EXCEPT ![worker[w].exec] = "cancelled"]
      BY <2>1 DEF UpdateRuntime, Fenced, Owns
    <2> QED
      BY <2>1, <2>2, SettleWhole DEF UpdateRuntime
  <1>4. CASE StartRun(w)
    BY <1>0, <1>4, QuietWhole DEF StartRun, Unpromising
  <1>5. CASE RunNode(w)
    <2>1. \A e \in Exec : RowGrows(e)
      BY <1>0, <1>5 DEF RunNode, RowGrows
    <2>2. \A v \in Worker : worker'[v] = worker[v] \/ HolderWhole(v)'
      BY <1>0, <1>5 DEF RunNode, HolderWhole, WorkerState
    <2> QED
      BY <2>1, <2>2, WholeGrows
  <1>6. ASSUME NEW outcome \in Outcome, RunEnds(w, outcome) PROVE WholeInv'
    <2>1. \A e \in Exec : RowGrows(e)
      BY <1>6 DEF RunEnds, RowGrows
    <2>2. HolderWhole(w)'
      BY <1>0, <1>6 DEF RunEnds, HolderWhole, WorkerState
    <2>3. \A v \in Worker : v # w => worker'[v] = worker[v]
      BY <1>0, <1>6 DEF RunEnds
    <2> QED
      BY <2>1, <2>2, <2>3, WholeGrows
  <1>7. CASE PersistTraceRow(w)
    <2>1. \A e \in Exec : RowGrows(e)
      BY <1>0, <1>7 DEF PersistTraceRow, RowGrows
    <2>2. \A v \in Worker : worker'[v] = worker[v] \/ HolderWhole(v)'
      BY <1>0, <1>7 DEF PersistTraceRow, Goes, Released, IdleWorker, HolderWhole, WorkerState
    <2> QED
      BY <2>1, <2>2, WholeGrows
  <1>8. CASE SuspendExecution(w) \/ SuspendWrite(w)
    <2>0. trace' = trace /\ settler' = settler
      BY <1>8 DEF SuspendExecution, SuspendWrite
    <2>1. \A e \in Exec : RowGrows(e)
      BY <1>0, <1>8, <2>0, ParkEffect DEF RowGrows
    <2>2. \A v \in Worker : worker'[v] = worker[v] \/ HolderWhole(v)'
      BY <1>0, <1>8, ParkEffect DEF Released, IdleWorker, HolderWhole
    <2> QED
      BY <2>1, <2>2, WholeGrows
  <1>9. CASE CreateNodeRuns(w)
    BY <1>9, CreateNodeRunsWhole
  <1>10. CASE Settle(w)
    <2>1. worker[w].pc = "settling" /\ UpdateRuntime(w, worker[w].out)
      BY <1>10 DEF Settle
    <2>2. \/ UNCHANGED <<status, owner, settler>>
          \/ /\ Owns(w) /\ SettledBy(w)
             /\ owner' = [owner EXCEPT ![worker[w].exec] = 0]
             /\ \/ status' = [status EXCEPT ![worker[w].exec] = "cancelled"]
                \/ status' = [status EXCEPT ![worker[w].exec] = worker[w].out]
      BY <2>1 DEF UpdateRuntime, Fenced, Owns
    <2> QED
      BY <2>1, <2>2, SettleWhole DEF UpdateRuntime
  <1>11. CASE ReadFence(w)
    BY <1>11, ReadFenceWhole
  <1>12. CASE InsertRows(w)
    BY <1>12, InsertRowsWhole
  <1>13. CASE SuspendRead(w)
    BY <1>0, <1>13, QuietWhole DEF SuspendRead, Goes, rowVars, Unpromising
  <1>14. CASE SettleFirst(w)
    <2>1. \A e \in Exec : RowGrows(e)
      BY <1>14 DEF SettleFirst, rowVars, RowGrows
    <2>2. HolderWhole(w)'
      BY <1>0, <1>14 DEF SettleFirst, Goes, rowVars, HolderWhole, Owns, Stored, WorkerState
    <2>3. \A v \in Worker : v # w => worker'[v] = worker[v]
      BY <1>0, <1>14 DEF SettleFirst, Goes
    <2> QED
      BY <2>1, <2>2, <2>3, WholeGrows
  <1>15. CASE SettleSecond(w)
    <2>1. \/ UNCHANGED <<status, owner, settler>>
          \/ /\ Owns(w) /\ SettledBy(w)
             /\ owner' = [owner EXCEPT ![worker[w].exec] = 0]
             /\ status' = [status EXCEPT ![worker[w].exec] = worker[w].out]
      BY <1>15 DEF SettleSecond, Fenced, Owns
    <2> QED
      BY <1>15, <2>1, SettleWhole DEF SettleSecond
  <1> QED
    BY <1>1, <1>2, <1>3, <1>4, <1>5, <1>6, <1>7, <1>8, <1>9, <1>10, <1>11, <1>12, <1>13,
       <1>14, <1>15 DEF WorkerStep, SplitStep

LEMMA NextWhole ==
  ASSUME StateTyped, LeaseDiscipline, WholeInv, [Next]_vars
  PROVE  WholeInv'
  <1>0. /\ status \in [Exec -> Status] /\ owner \in [Exec -> Nat]
        /\ trace \in [Exec -> SUBSET TraceRow] /\ worker \in [Worker -> WorkerState]
    BY DEF StateTyped, ColumnsTyped, TablesTyped, MemoryTyped, WorkersTyped
  <1>1. ASSUME NEW e \in Exec, Queue(e) PROVE WholeInv'
    <2>1. \A f \in Exec : RowGrows(f)
      BY <1>0, <1>1 DEF Queue, RowGrows
    <2> QED
      BY <1>1, <2>1, WholeGrows DEF Queue
  <1>2. ASSUME NEW w \in Worker, WorkerStep(w) PROVE WholeInv'
    BY <1>2, WorkerStepWhole
  <1>3. ASSUME NEW w \in Worker,
               Heartbeat(w) \/ PollCancellation(w) \/ Shutdown(w) \/ Abandon(w)
        PROVE  WholeInv'
    <2>1. UNCHANGED <<status, owner, trace, settler>>
      BY <1>3 DEF Heartbeat, PollCancellation, Shutdown, Abandon, rowVars
    <2>2. \A v \in Worker : worker'[v] = worker[v] \/ Unpromising(v)
      BY <1>0, <1>3 DEF Heartbeat, PollCancellation, Shutdown, Abandon, Released, IdleWorker,
                        Unpromising, WorkerState
    <2> QED
      BY <2>1, <2>2, QuietWhole
  <1>4. ASSUME NEW e \in Exec, LeaseExpires(e) \/ HolderStalls(e) PROVE WholeInv'
    BY <1>4, QuietWhole DEF LeaseExpires, HolderStalls
  <1>5. ASSUME NEW e \in Exec, NEW i \in DOMAIN waits[e],
               DeadlinePasses(e, i) \/ SettleExpiredWait(e, i) \/ ResumeWait(e, i)
        PROVE  WholeInv'
    <2>1. \A f \in Exec : RowGrows(f)
      BY <1>0, <1>5 DEF DeadlinePasses, SettleExpiredWait, ResumeWait, rowVars, RowGrows
    <2>2. worker' = worker
      BY <1>5 DEF DeadlinePasses, SettleExpiredWait, ResumeWait
    <2> QED
      BY <2>1, <2>2, WholeGrows
  <1>6. ASSUME NEW c \in Caller, NEW e \in Exec, CancelRead(c, e) PROVE WholeInv'
    BY <1>6, QuietWhole DEF CancelRead, rowVars
  <1>7. ASSUME NEW c \in Caller, CancelWrite(c) PROVE WholeInv'
    <2>1. \A f \in Exec : RowGrows(f)
      BY <1>0, <1>7 DEF CancelWrite, CancelWaiting, CancelQueued, CancelRunning, RowGrows
    <2>2. worker' = worker
      BY <1>7 DEF CancelWrite
    <2> QED
      BY <2>1, <2>2, WholeGrows
  <1>8. ASSUME NEW c \in Caller, SplitCall(c) PROVE WholeInv'
    <2>1. CASE EndWrite(c)
      <3>1. \A f \in Exec : RowGrows(f)
        BY <1>0, <2>1 DEF EndWrite, RowGrows
      <3> QED
        BY <2>1, <3>1, WholeGrows DEF EndWrite
    <2>2. ASSUME NEW e \in Exec, NEW i \in DOMAIN waits[e], EndRead(c, e, i) PROVE WholeInv'
      BY <2>2, QuietWhole DEF EndRead, rowVars
    <2> QED
      BY <1>8, <2>1, <2>2 DEF SplitCall
  <1>9. CASE UNCHANGED vars
    BY <1>9, QuietWhole DEF vars
  <1> QED
    BY <1>1, <1>2, <1>3, <1>4, <1>5, <1>6, <1>7, <1>8, <1>9 DEF Next, Step, WaitStep

\* A succeeded execution has a row for every step of the segment its last worker
\* ran, on both databases: a failed trace write turns the outcome into a failure,
\* and only the owner of the row can report a success. On SQLite the rows are
\* those of the very lease that wrote the success, of the last segment.
THEOREM SuccessIsWhole == Spec => []SucceededTraceIsWhole
  <1>1. StateTyped /\ SegmentsOnSqlite /\ WholeInv => SucceededTraceIsWhole
    <2> SUFFICES ASSUME StateTyped, SegmentsOnSqlite, WholeInv, NEW e \in Exec,
                        status[e] = "succeeded", NEW k \in 1 .. Steps
                 PROVE  \E r \in trace[e] :
                           /\ r.seg = settler[e].seg /\ r.step = k
                           /\ backend = "sqlite" => r.seg = Len(waits[e])
                                                    /\ r.by = settler[e].lease
      BY DEF SucceededTraceIsWhole
    <2>1. CASE backend # "sqlite"
      BY <2>1 DEF WholeInv, RowWhole, Stored
    <2>2. CASE backend = "sqlite"
      <3> DEFINE r == [seg |-> Len(waits[e]), step |-> k, by |-> settler[e].lease]
      <3>1. r \in trace[e] /\ settler[e].seg = Len(waits[e])
        BY <2>2 DEF SegmentsOnSqlite, SegmentInv, RowTraces
      <3>2. r.seg = Len(waits[e]) /\ r.step = k /\ r.by = settler[e].lease
        OBVIOUS
      <3> QED
        BY <3>1, <3>2
    <2> QED
      BY <2>1, <2>2
  <1>2. Init => WholeInv
    BY DEF Init, WholeInv, RowWhole, HolderWhole, IdleWorker
  <1>3. StateTyped /\ LeaseDiscipline /\ WholeInv /\ [Next]_vars => WholeInv'
    BY NextWhole
  <1> QED
    BY <1>1, <1>2, <1>3, SegmentInvHolds, PTL DEF Spec

-----------------------------------------------------------------------------
(* The queue implements the lifecycle. Besides the lease discipline the    *)
(* step simulation needs that a cancel request has read an existing row,   *)
(* and that every start is one hand-out: a worker that claimed a row and   *)
(* lost its lease before it started may still start the graph later, so    *)
(* the claims not yet started are counted with the starts.                 *)

Claimants(e) == {w \in Worker : worker[w].pc = "claimed" /\ worker[w].exec = e}

\* How often the row was handed out to run, at most.
HandOuts(e) ==
    parks[e] + reclaims[e]
        + IF status[e] \in {"absent", "queued", "waiting"} THEN 0 ELSE 1

StartsCounted(e) ==
    /\ IsFiniteSet(Claimants(e))
    /\ runs[e] + Cardinality(Claimants(e)) <= HandOuts(e)

\* Cancel requests and claims have seen a row.
RowsSeen ==
    /\ \A c \in Caller : caller[c].exec # 0 => status[caller[c].exec] # "absent"
    /\ \A w \in Worker : worker[w].pc = "claimed" => status[worker[w].exec] # "absent"

StartInv == RowsSeen /\ \A e \in Exec : StartsCounted(e)

LEMMA CountTypes ==
  ASSUME StateTyped, NEW e \in Exec
  PROVE  parks[e] \in Nat /\ reclaims[e] \in Nat /\ runs[e] \in Nat /\ HandOuts(e) \in Nat
  <1>1. parks[e] \in Nat /\ reclaims[e] \in Nat /\ runs[e] \in Nat
    BY DEF StateTyped, ColumnsTyped
  <1> QED
    BY <1>1 DEF HandOuts

\* A step that starts nothing and claims nothing to run.
LEMMA CountKept ==
  ASSUME StateTyped, StateTyped', NEW e \in Exec, StartsCounted(e), runs'[e] = runs[e],
         Claimants(e)' \subseteq Claimants(e), HandOuts(e) <= HandOuts(e)'
  PROVE  StartsCounted(e)'
  <1>1. /\ IsFiniteSet(Claimants(e)')
        /\ Cardinality(Claimants(e)') <= Cardinality(Claimants(e))
    BY FS_Subset DEF StartsCounted
  <1>2. Cardinality(Claimants(e)) \in Nat /\ Cardinality(Claimants(e)') \in Nat
    BY <1>1, FS_CardinalityType DEF StartsCounted
  <1>3. parks'[e] \in Nat /\ reclaims'[e] \in Nat
    BY DEF StateTyped, ColumnsTyped, TablesTyped
  <1>4. HandOuts(e)' \in Nat
    BY <1>3 DEF HandOuts
  <1> QED
    BY <1>1, <1>2, <1>4, CountTypes DEF StartsCounted

\* What every step but a claim and a start does, at most.
NobodyClaims == \A v \in Worker : worker'[v].pc = "claimed" => worker'[v] = worker[v]
RowMoves(e) ==
    \/ parks'[e] = parks[e] /\ status'[e] = status[e]
    \/ parks'[e] = parks[e] + 1 /\ status'[e] = "waiting"
    \/ /\ parks'[e] = parks[e]
       /\ status'[e] = "queued" /\ status[e] \in {"absent", "waiting"}
    \/ parks'[e] = parks[e] /\ status'[e] \in Terminal \cup {"cancelling"}
CancelMoves(c) ==
    \/ caller'[c].exec \in {0, caller[c].exec}
    \/ status[caller'[c].exec] # "absent"

LEMMA CountRowMoves ==
  ASSUME StateTyped, StateTyped', StartInv, runs' = runs, reclaims' = reclaims, NobodyClaims,
         \A e \in Exec : RowMoves(e), \A c \in Caller : CancelMoves(c)
  PROVE  StartInv'
  <1>1. ASSUME NEW e \in Exec PROVE StartsCounted(e)'
    <2>1. Claimants(e)' \subseteq Claimants(e)
      BY DEF Claimants, NobodyClaims
    <2>2. HandOuts(e)' >= HandOuts(e)
      <3>1. parks[e] \in Nat /\ reclaims[e] \in Nat /\ RowMoves(e)
        BY CountTypes
      <3>2. CASE parks'[e] = parks[e] + 1
        BY <3>1, <3>2 DEF HandOuts, Terminal, RowMoves
      <3>3. CASE parks'[e] = parks[e]
        BY <3>1, <3>3 DEF HandOuts, Terminal, RowMoves
      <3> QED
        BY <3>1, <3>2, <3>3 DEF RowMoves
    <2> QED
      BY <2>1, <2>2, CountKept, CountTypes DEF StartInv
  <1>2. RowsSeen'
    <2>1. ASSUME NEW c \in Caller, caller'[c].exec # 0
          PROVE  status'[caller'[c].exec] # "absent"
      <3>1. caller'[c].exec \in Exec
        BY <2>1 DEF StateTyped, MemoryTyped, CallerState
      <3>2. status[caller'[c].exec] # "absent"
        BY <2>1 DEF StartInv, RowsSeen, CancelMoves
      <3> QED
        BY <3>1, <3>2 DEF Terminal, RowMoves
    <2>2. ASSUME NEW w \in Worker, worker'[w].pc = "claimed"
          PROVE  status'[worker'[w].exec] # "absent"
      <3>1. worker'[w].exec \in Exec
        BY <2>2 DEF StateTyped, MemoryTyped, WorkersTyped, PhaseOK
      <3>2. status[worker'[w].exec] # "absent"
        BY <2>2 DEF StartInv, RowsSeen, NobodyClaims
      <3> QED
        BY <3>1, <3>2 DEF Terminal, RowMoves
    <2> QED
      BY <2>1, <2>2 DEF RowsSeen
  <1> QED
    BY <1>1, <1>2 DEF StartInv

\* The claim adds one claimant and one hand-out, or neither.
LEMMA ClaimNextStarts ==
  ASSUME StateTyped, StateTyped', StartInv, NEW w \in Worker, NEW e \in Exec, ClaimNext(w, e)
  PROVE  StartInv'
  <1>0. /\ status \in [Exec -> Status] /\ reclaims \in [Exec -> Nat]
        /\ UNCHANGED <<parks, caller, runs>>
        /\ worker[w].pc = "idle" /\ e \notin SettledCrashed
        /\ status[e] \in {"queued", "running", "cancelling"}
        /\ \A f \in Exec : f # e => reclaims'[f] = reclaims[f]
                                   /\ status'[f] \in {status[f], "failed"}
        /\ status'[e] = IF status[e] = "cancelling" THEN "cancelling" ELSE "running"
        /\ reclaims'[e] = IF status[e] = "running" THEN reclaims[e] + 1 ELSE reclaims[e]
    BY DEF ClaimNext, Candidate, Claimable, Reclaiming, SettledCrashed, CrashedFront, Poisoned,
           StateTyped, ColumnsTyped
  <1>w. /\ \A v \in Worker : v # w => worker'[v] = worker[v]
        /\ worker'[w].pc = IF status[e] = "cancelling" THEN "recovering" ELSE "claimed"
        /\ worker'[w].exec = e
    BY DEF ClaimNext, IdleWorker, StateTyped, MemoryTyped, WorkersTyped
  <1>1. ASSUME NEW f \in Exec PROVE StartsCounted(f)'
    <2>1. CASE f # e \/ status[e] = "cancelling"
      <3>1. Claimants(f)' \subseteq Claimants(f)
        BY <1>w, <2>1 DEF Claimants
      <3>2. HandOuts(f)' >= HandOuts(f)
        BY <1>0, <2>1, CountTypes DEF HandOuts
      <3> QED
        BY <1>0, <3>1, <3>2, CountKept, CountTypes DEF StartInv
    <2>2. CASE f = e /\ status[e] # "cancelling"
      <3>0. StartsCounted(e)
        BY DEF StartInv
      <3>1. Claimants(f)' = Claimants(f) \cup {w} /\ w \notin Claimants(f)
        BY <1>0, <1>w, <2>2 DEF Claimants
      <3>2. /\ IsFiniteSet(Claimants(f)')
            /\ Cardinality(Claimants(f)') = Cardinality(Claimants(f)) + 1
        BY <2>2, <3>0, <3>1, FS_AddElement DEF StartsCounted
      <3>3. HandOuts(f)' = HandOuts(f) + 1
        <4>1. parks[f] \in Nat /\ reclaims[f] \in Nat
          BY CountTypes
        <4>2. CASE status[f] = "queued"
          BY <1>0, <2>2, <4>1, <4>2 DEF HandOuts
        <4>3. CASE status[f] = "running"
          BY <1>0, <2>2, <4>1, <4>3 DEF HandOuts
        <4> QED
          BY <1>0, <2>2, <4>2, <4>3
      <3>4. Cardinality(Claimants(f)) \in Nat
        BY <2>2, <3>0, FS_CardinalityType DEF StartsCounted
      <3> QED
        BY <1>0, <2>2, <3>0, <3>2, <3>3, <3>4, CountTypes DEF StartsCounted
    <2> QED
      BY <2>1, <2>2
  <1>2. RowsSeen'
    <2>1. \A c \in Caller : caller[c].exec \in Exec \cup {0}
      BY DEF StateTyped, MemoryTyped, CallerState
    <2>2. \A v \in Worker : worker[v].pc = "claimed" => worker[v].exec \in Exec
      BY DEF StateTyped, MemoryTyped, WorkersTyped, PhaseOK
    <2> QED
      BY <1>0, <1>w, <2>1, <2>2 DEF StartInv, RowsSeen
  <1> QED
    BY <1>1, <1>2 DEF StartInv

\* Starting the graph turns a claimant into a start.
LEMMA StartRunStarts ==
  ASSUME StateTyped, StateTyped', StartInv, NEW w \in Worker, StartRun(w)
  PROVE  /\ StartInv'
         /\ runs[worker[w].exec] < HandOuts(worker[w].exec)
  <1> DEFINE e == worker[w].exec
  <1>0. /\ e \in Exec /\ worker[w].pc = "claimed" /\ runs \in [Exec -> Nat]
        /\ runs' = [runs EXCEPT ![e] = @ + 1]
        /\ UNCHANGED <<status, parks, reclaims, caller>>
    BY DEF StateTyped, ColumnsTyped, MemoryTyped, WorkersTyped, PhaseOK, StartRun
  <1>w. /\ worker'[w].pc = "running"
        /\ \A v \in Worker : v # w => worker'[v] = worker[v]
    BY DEF StartRun, StateTyped, MemoryTyped, WorkersTyped, WorkerState
  <1>h. ASSUME NEW f \in Exec PROVE HandOuts(f)' = HandOuts(f)
    BY <1>0 DEF HandOuts
  <1>c. /\ StartsCounted(e) /\ w \in Claimants(e)
        /\ Cardinality(Claimants(e)) \in Nat /\ Cardinality(Claimants(e)) # 0
    BY <1>0, FS_CardinalityType, FS_EmptySet DEF StartInv, StartsCounted, Claimants
  <1>1. ASSUME NEW f \in Exec PROVE StartsCounted(f)'
    <2>1. CASE f # e
      <3>1. Claimants(f)' \subseteq Claimants(f)
        BY <1>w, <2>1 DEF Claimants
      <3> QED
        BY <1>0, <1>h, <2>1, <3>1, CountKept, CountTypes DEF StartInv
    <2>2. CASE f = e
      <3>1. Claimants(f)' = Claimants(f) \ {w} /\ w \in Claimants(f)
        BY <1>0, <1>w, <1>c, <2>2 DEF Claimants
      <3>2. /\ IsFiniteSet(Claimants(f)')
            /\ Cardinality(Claimants(f)') = Cardinality(Claimants(f)) - 1
        BY <1>c, <2>2, <3>1, FS_RemoveElement DEF StartsCounted
      <3> QED
        BY <1>0, <1>c, <1>h, <2>2, <3>2, CountTypes DEF StartsCounted
    <2> QED
      BY <2>1, <2>2
  <1>2. RowsSeen'
    BY <1>0, <1>w DEF StartInv, RowsSeen
  <1>3. runs[e] < HandOuts(e)
    BY <1>0, <1>c, CountTypes DEF StartsCounted
  <1> QED
    BY <1>1, <1>2, <1>3 DEF StartInv

\* Every other step of a worker, a clock, a wait or a cancel request.
LEMMA QuietStarts ==
  ASSUME StateTyped, StateTyped', StartInv, UNCHANGED <<status, parks, runs, reclaims>>, NobodyClaims,
         \A c \in Caller : CancelMoves(c)
  PROVE  StartInv'
  <1>1. \A e \in Exec : RowMoves(e)
    BY DEF RowMoves
  <1> QED
    BY <1>1, CountRowMoves

\* What the writes of a resume or of a sweep do to its row.
LEMMA EndEffect ==
  ASSUME StateTyped, NEW c \in Caller, EndWrite(c)
  PROVE  LET e == caller[c].exec IN
         /\ e \in Exec /\ UNCHANGED <<reclaims, runs, parks, worker>>
         /\ caller' = [caller EXCEPT ![c] = FreeCaller]
         /\ \/ UNCHANGED <<status, owner>>
            \/ /\ status[e] = "waiting"
               /\ owner' = [owner EXCEPT ![e] = 0]
               /\ \/ status' = [status EXCEPT ![e] = "queued"]
                  \/ status' = [status EXCEPT ![e] = "failed"]
  BY DEF EndWrite, StateTyped, MemoryTyped, CallerState

LEMMA WorkerStepStarts ==
  ASSUME StateTyped, StateTyped', StartInv, NEW w \in Worker, WorkerStep(w)
  PROVE  StartInv'
  <1>0. /\ status \in [Exec -> Status] /\ waits \in [Exec -> Seq(Wait)]
    BY DEF StateTyped, ColumnsTyped, TablesTyped
  <1>1. ASSUME NEW e \in Exec, ClaimNext(w, e) PROVE StartInv'
    BY <1>1, ClaimNextStarts
  <1>2. CASE ClaimSettlesOnly(w)
    <2>1. UNCHANGED <<parks, runs, reclaims, worker, caller>>
      BY <1>2 DEF ClaimSettlesOnly
    <2>2. ASSUME NEW e \in Exec PROVE RowMoves(e)
      BY <1>2, <2>1 DEF ClaimSettlesOnly, RowMoves, Terminal
    <2>3. NobodyClaims /\ \A c \in Caller : CancelMoves(c)
      BY <2>1 DEF NobodyClaims, CancelMoves
    <2> QED
      BY <2>1, <2>2, <2>3, CountRowMoves DEF NobodyClaims, CancelMoves
  <1>3. ASSUME NEW outcome \in Terminal, UpdateRuntime(w, outcome) PROVE StartInv'
    <2>1. UNCHANGED <<parks, runs, reclaims, caller>>
      BY <1>3 DEF UpdateRuntime
    <2>2. ASSUME NEW e \in Exec PROVE RowMoves(e)
      BY <1>0, <1>3, <2>1 DEF UpdateRuntime, Terminal, RowMoves
    <2>3. NobodyClaims
      BY <1>3 DEF NobodyClaims, UpdateRuntime, Released, IdleWorker, StateTyped, MemoryTyped, WorkersTyped
    <2> QED
      BY <2>1, <2>2, <2>3, CountRowMoves DEF NobodyClaims, CancelMoves
  <1>4. CASE StartRun(w)
    BY <1>4, StartRunStarts
  <1>5. CASE RunNode(w)
    <2>1. NobodyClaims
      BY <1>5 DEF NobodyClaims, RunNode, StateTyped, MemoryTyped, WorkersTyped, WorkerState
    <2> QED
      BY <1>5, <2>1, QuietStarts DEF NobodyClaims, CancelMoves, RunNode
  <1>6. ASSUME NEW outcome \in Outcome, RunEnds(w, outcome) PROVE StartInv'
    <2>1. NobodyClaims
      BY <1>6 DEF NobodyClaims, RunEnds, StateTyped, MemoryTyped, WorkersTyped, WorkerState
    <2> QED
      BY <1>6, <2>1, QuietStarts DEF NobodyClaims, CancelMoves, RunEnds
  <1>7. CASE PersistTraceRow(w)
    <2>1. NobodyClaims
      BY <1>7 DEF NobodyClaims, PersistTraceRow, Goes, Released, IdleWorker, StateTyped, MemoryTyped, WorkersTyped,
                  WorkerState
    <2> QED
      BY <1>7, <2>1, QuietStarts DEF NobodyClaims, CancelMoves, PersistTraceRow
  <1>8. CASE SuspendExecution(w) \/ SuspendWrite(w)
    <2>1. NobodyClaims
      BY <1>8, ParkEffect DEF NobodyClaims, Released, IdleWorker, StateTyped, MemoryTyped,
                              WorkersTyped
    <2>2. UNCHANGED <<runs, reclaims, caller>>
      BY <1>8, ParkEffect
    <2>3. ASSUME NEW e \in Exec PROVE RowMoves(e)
      BY <1>8, ParkEffect DEF RowMoves, StateTyped, ColumnsTyped
    <2> QED
      BY <2>1, <2>2, <2>3, CountRowMoves DEF NobodyClaims, CancelMoves
  <1>9. CASE CreateNodeRuns(w)
    <2>1. NobodyClaims
      BY <1>9 DEF NobodyClaims, CreateNodeRuns, Goes, StateTyped, MemoryTyped, WorkersTyped, WorkerState
    <2> QED
      BY <1>9, <2>1, QuietStarts DEF NobodyClaims, CancelMoves, CreateNodeRuns
  <1>10. CASE RecoverCancelled(w)
    BY <1>3, <1>10 DEF RecoverCancelled, Terminal
  <1>11. CASE Settle(w)
    <2>1. worker[w].out \in Terminal
      BY <1>11 DEF Settle, StateTyped, MemoryTyped, WorkersTyped, PhaseOK
    <2> QED
      BY <1>3, <1>11, <2>1 DEF Settle
  <1>12. CASE ReadFence(w) \/ InsertRows(w) \/ SuspendRead(w) \/ SettleFirst(w)
    <2>1. NobodyClaims
      <3>0. worker \in [Worker -> WorkerState]
        BY DEF StateTyped, MemoryTyped, WorkersTyped
      <3>1. CASE ReadFence(w)
        BY <3>0, <3>1 DEF NobodyClaims, ReadFence, WorkerState
      <3>2. CASE InsertRows(w)
        BY <3>0, <3>2 DEF NobodyClaims, InsertRows, Released, IdleWorker, WorkerState
      <3>3. CASE SuspendRead(w) \/ SettleFirst(w)
        BY <3>0, <3>3 DEF NobodyClaims, SuspendRead, SettleFirst, Goes, WorkerState
      <3> QED
        BY <1>12, <3>1, <3>2, <3>3
    <2>2. UNCHANGED <<status, parks, runs, reclaims, caller>>
      BY <1>12 DEF ReadFence, InsertRows, SuspendRead, SettleFirst, rowVars
    <2> QED
      BY <2>1, <2>2, QuietStarts DEF CancelMoves
  <1>13. CASE SettleSecond(w)
    <2>1. UNCHANGED <<parks, runs, reclaims, caller>>
      BY <1>13 DEF SettleSecond
    <2>2. ASSUME NEW e \in Exec PROVE RowMoves(e)
      BY <1>0, <1>13, <2>1 DEF SettleSecond, Terminal, RowMoves, PhaseOK, StateTyped,
                               MemoryTyped, WorkersTyped
    <2>3. NobodyClaims
      BY <1>13 DEF NobodyClaims, SettleSecond, Released, IdleWorker, StateTyped, MemoryTyped,
                   WorkersTyped
    <2> QED
      BY <2>1, <2>2, <2>3, CountRowMoves DEF CancelMoves
  <1> QED
    BY <1>1, <1>2, <1>4, <1>5, <1>6, <1>7, <1>8, <1>9, <1>10, <1>11, <1>12, <1>13
       DEF WorkerStep, SplitStep

LEMMA NextStarts == StateTyped /\ StateTyped' /\ StartInv /\ [Next]_vars => StartInv'
  <1> SUFFICES ASSUME StateTyped, StateTyped', StartInv, [Next]_vars PROVE StartInv'
    OBVIOUS
  <1>0. status \in [Exec -> Status]
    BY DEF StateTyped, ColumnsTyped
  <1>1. ASSUME NEW e \in Exec, Queue(e) PROVE StartInv'
    <2>1. ASSUME NEW f \in Exec PROVE RowMoves(f)
      BY <1>0, <1>1 DEF Queue, RowMoves
    <2>2. UNCHANGED <<parks, runs, reclaims, worker, caller>>
      BY <1>1 DEF Queue
    <2> QED
      BY <2>1, <2>2, CountRowMoves DEF NobodyClaims, CancelMoves
  <1>2. ASSUME NEW w \in Worker, WorkerStep(w) PROVE StartInv'
    BY <1>2, WorkerStepStarts
  <1>3. ASSUME NEW w \in Worker,
               Heartbeat(w) \/ PollCancellation(w) \/ Shutdown(w) \/ Abandon(w)
        PROVE  StartInv'
    <2>1. NobodyClaims
      BY <1>3 DEF NobodyClaims, Heartbeat, PollCancellation, Shutdown, Abandon, Released, IdleWorker,
                  StateTyped, MemoryTyped, WorkersTyped, WorkerState
    <2> QED
      BY <1>3, <2>1, QuietStarts DEF NobodyClaims, CancelMoves, Heartbeat, PollCancellation, Shutdown, Abandon, rowVars
  <1>4. ASSUME NEW e \in Exec, LeaseExpires(e) \/ HolderStalls(e) PROVE StartInv'
    BY <1>4, QuietStarts DEF NobodyClaims, CancelMoves, LeaseExpires, HolderStalls
  <1>5. ASSUME NEW e \in Exec, NEW i \in DOMAIN waits[e],
               DeadlinePasses(e, i) \/ ResumeWait(e, i) \/ SettleExpiredWait(e, i)
        PROVE  StartInv'
    <2>1. ASSUME NEW f \in Exec PROVE RowMoves(f)
      BY <1>5, WaitEffect DEF RowUntouched, RowMoves, Terminal, DeadlinePasses, ResumeWait,
                              SettleExpiredWait
    <2>2. UNCHANGED <<runs, reclaims, worker, caller>>
      BY <1>5 DEF DeadlinePasses, ResumeWait, SettleExpiredWait, rowVars
    <2> QED
      BY <2>1, <2>2, CountRowMoves DEF NobodyClaims, CancelMoves
  <1>6. ASSUME NEW c \in Caller, NEW e \in Exec, CancelRead(c, e) PROVE StartInv'
    <2>1. UNCHANGED <<status, parks, runs, reclaims, worker>> /\ status[e] # "absent"
      BY <1>6 DEF CancelRead, rowVars
    <2>2. ASSUME NEW d \in Caller
          PROVE  CancelMoves(d)
      BY <1>6, <2>1 DEF CancelMoves, CancelRead, FreeCaller, StateTyped, MemoryTyped
    <2> QED
      BY <2>1, <2>2, QuietStarts DEF NobodyClaims, CancelMoves
  <1>7. ASSUME NEW c \in Caller, CancelWrite(c) PROVE StartInv'
    <2>1. ASSUME NEW f \in Exec PROVE RowMoves(f)
      BY <1>7, CancelEffect DEF RowUntouched, RowMoves, Terminal, CancelWrite
    <2>2. UNCHANGED <<runs, reclaims, worker>>
      BY <1>7 DEF CancelWrite
    <2>3. ASSUME NEW d \in Caller PROVE CancelMoves(d)
      BY <1>7 DEF CancelMoves, CancelWrite, FreeCaller, StateTyped, MemoryTyped
    <2> QED
      BY <2>1, <2>2, <2>3, CountRowMoves DEF NobodyClaims, CancelMoves
  <1>8. ASSUME NEW c \in Caller, NEW e \in Exec, NEW i, EndRead(c, e, i) PROVE StartInv'
    <2>1. UNCHANGED <<status, parks, runs, reclaims, worker>> /\ status[e] # "absent"
      BY <1>8 DEF EndRead, rowVars
    <2>2. ASSUME NEW d \in Caller PROVE CancelMoves(d)
      BY <1>8, <2>1 DEF CancelMoves, EndRead, FreeCaller, StateTyped, MemoryTyped
    <2> QED
      BY <2>1, <2>2, QuietStarts DEF NobodyClaims
  <1>9. ASSUME NEW c \in Caller, EndWrite(c) PROVE StartInv'
    <2>1. ASSUME NEW f \in Exec PROVE RowMoves(f)
      BY <1>0, <1>9, EndEffect DEF RowMoves, Terminal
    <2>2. UNCHANGED <<runs, reclaims, worker>>
      BY <1>9, EndEffect
    <2>3. ASSUME NEW d \in Caller PROVE CancelMoves(d)
      BY <1>9, EndEffect DEF CancelMoves, FreeCaller, StateTyped, MemoryTyped
    <2> QED
      BY <2>1, <2>2, <2>3, CountRowMoves DEF NobodyClaims
  <1>10. CASE UNCHANGED vars
    BY <1>10, QuietStarts DEF NobodyClaims, CancelMoves, vars
  <1> QED
    BY <1>1, <1>2, <1>3, <1>4, <1>5, <1>6, <1>7, <1>8, <1>9, <1>10
       DEF Next, Step, WaitStep, SplitCall

LEMMA InitStarts == Init => StartInv
  <1> SUFFICES ASSUME Init PROVE StartInv
    OBVIOUS
  <1>1. ASSUME NEW e \in Exec PROVE StartsCounted(e)
    <2>1. Claimants(e) = {}
      BY DEF Init, Claimants, IdleWorker
    <2>2. HandOuts(e) = 0 /\ runs[e] = 0
      BY DEF Init, HandOuts
    <2> QED
      BY <2>1, <2>2, FS_EmptySet DEF StartsCounted
  <1>2. RowsSeen
    BY DEF Init, RowsSeen, IdleWorker, FreeCaller
  <1> QED
    BY <1>1, <1>2 DEF StartInv

-----------------------------------------------------------------------------
(* The simulation: what the caller sees of a row, and one lemma per kind of *)
(* step of the lifecycle that the queue's steps map to.                     *)

\* The three kinds of row the caller tells apart, before and after a step.
LEMMA PhaseIs ==
  ASSUME NEW e \in Exec
  PROVE  PhaseOf(e) = IF status[e] \in {"absent", "queued", "waiting"} THEN status[e]
                      ELSE IF status[e] \in {"running", "cancelling"} /\ owner[e] # 0
                      THEN "held" ELSE "over"
  BY DEF PhaseOf

LEMMA PhaseIsNext ==
  ASSUME NEW e \in Exec
  PROVE  PhaseOf(e)' = IF status'[e] \in {"absent", "queued", "waiting"} THEN status'[e]
                       ELSE IF status'[e] \in {"running", "cancelling"} /\ owner'[e] # 0
                       THEN "held" ELSE "over"
  BY DEF PhaseOf

\* The counters the caller sees are unchanged.
CountersKept ==
    /\ parks' = parks
    /\ reclaims' = reclaims /\ runs' = runs

LEMMA CallerSeesNothing ==
  ASSUME CountersKept, \A f \in Exec : PhaseOf(f)' = PhaseOf(f)
  PROVE  UNCHANGED Lifecycle!vars
  BY DEF Lifecycle!vars, CountersKept

LEMMA CallerSeesAnEnd ==
  ASSUME CountersKept, NEW over \in SUBSET Exec, over # {},
         \A f \in over : PhaseOf(f) \in {"queued", "held", "waiting"},
         \A f \in Exec : PhaseOf(f)' = IF f \in over THEN "over" ELSE PhaseOf(f)
  PROVE  Lifecycle!Next
  <1>1. Lifecycle!EndAll(over)
    BY DEF Lifecycle!EndAll, Lifecycle!End, CountersKept
  <1> QED
    BY <1>1 DEF Lifecycle!Next

LEMMA CallerSeesAMove ==
  ASSUME CountersKept, NEW e \in Exec,
         \A f \in Exec : f # e => PhaseOf(f)' = PhaseOf(f),
         \/ PhaseOf(e) = "absent" /\ PhaseOf(e)' = "queued"
         \/ PhaseOf(e) = "queued" /\ PhaseOf(e)' = "held"
         \/ PhaseOf(e) = "waiting" /\ PhaseOf(e)' = "queued"
  PROVE  Lifecycle!Next
  <1>1. Lifecycle!Admit(e) \/ Lifecycle!HandOut(e) \/ Lifecycle!Wake(e)
    BY DEF Lifecycle!Admit, Lifecycle!HandOut, Lifecycle!Wake, Lifecycle!Moves, CountersKept
  <1> QED
    BY <1>1 DEF Lifecycle!Next

Simulated == Lifecycle!Next \/ UNCHANGED Lifecycle!vars

\* A step that changes at most one row, which it ends, and no counter.
LEMMA OneRowEnds ==
  ASSUME CountersKept, NEW e \in Exec,
         \A f \in Exec : f # e => status'[f] = status[f] /\ owner'[f] = owner[f],
         \/ status'[e] = status[e] /\ owner'[e] = owner[e]
         \/ status[e] # "absent" /\ status'[e] \in Terminal
         \/ status[e] # "absent" /\ status'[e] = "cancelling" /\ owner'[e] = owner[e]
               /\ (owner[e] # 0 => status[e] \in {"running", "cancelling"}),
         status[e] \in Status
  PROVE  Simulated
  <1>1. \A f \in Exec : f # e => PhaseOf(f)' = PhaseOf(f)
    BY PhaseIs, PhaseIsNext
  <1>2. CASE PhaseOf(e)' = PhaseOf(e)
    BY <1>1, <1>2, CallerSeesNothing DEF Simulated
  <1>3. CASE PhaseOf(e)' # PhaseOf(e)
    <2>1. PhaseOf(e)' = "over" /\ PhaseOf(e) \in {"queued", "held", "waiting"}
      BY <1>3, PhaseIs, PhaseIsNext DEF Status, Terminal
    <2> DEFINE over == {e}
    <2>2. /\ over \in SUBSET Exec /\ over # {}
          /\ \A f \in over : PhaseOf(f) \in {"queued", "held", "waiting"}
          /\ \A f \in Exec : PhaseOf(f)' = IF f \in over THEN "over" ELSE PhaseOf(f)
      BY <1>1, <2>1
    <2> HIDE DEF over
    <2> QED
      BY <2>2, CallerSeesAnEnd DEF Simulated
  <1> QED
    BY <1>2, <1>3

\* Steps the caller cannot see.
LEMMA QuietSimulated ==
  ASSUME UNCHANGED <<status, owner, parks, reclaims, runs>>
  PROVE  Simulated
  <1>1. \A f \in Exec : PhaseOf(f)' = PhaseOf(f)
    BY PhaseIs, PhaseIsNext
  <1>2. CountersKept
    BY DEF CountersKept
  <1> QED
    BY <1>1, <1>2, CallerSeesNothing DEF Simulated

\* A claim hands out or retries one row and ends the crashed ones before it.
LEMMA ClaimNextSimulated ==
  ASSUME StateTyped, LeaseDiscipline, NEW w \in Worker, NEW e \in Exec, ClaimNext(w, e)
  PROVE  Simulated
  <1> DEFINE over == SettledCrashed
  <1>0. /\ status \in [Exec -> Status] /\ owner \in [Exec -> Nat] /\ reclaims \in [Exec -> Nat]
        /\ parks' = parks /\ runs' = runs
        /\ nextLease # 0 /\ over \in SUBSET Exec
    BY DEF StateTyped, ColumnsTyped, MemoryTyped, ClaimNext, SettledCrashed, CrashedFront
  <1>e. /\ e \notin over /\ status[e] \in {"queued", "running", "cancelling"}
        /\ owner'[e] = nextLease
        /\ status'[e] = IF status[e] = "cancelling" THEN "cancelling" ELSE "running"
        /\ status[e] # "queued" => owner[e] # 0
        /\ reclaims' = IF status[e] = "running" THEN [reclaims EXCEPT ![e] = @ + 1] ELSE reclaims
        /\ status[e] = "running" => reclaims[e] < MaxReclaims
    <2>1. Claimable(e) /\ ~Poisoned(e)
      BY DEF ClaimNext, Candidate
    <2>2. e \notin over
      BY <2>1 DEF SettledCrashed, CrashedFront
    <2>3. /\ status[e] \in {"queued", "running", "cancelling"}
          /\ status[e] # "queued" => owner[e] # 0
      BY <2>1 DEF Claimable, LeaseDiscipline, RowsFollowTheLease
    <2>4. status[e] = "running" => reclaims[e] < MaxReclaims
      BY <1>0, <2>1, BoundAssumption DEF Poisoned, Reclaiming
    <2>5. reclaims' = IF status[e] = "running" THEN [reclaims EXCEPT ![e] = @ + 1] ELSE reclaims
      BY <1>0 DEF ClaimNext, Reclaiming
    <2>6. /\ owner'[e] = nextLease
          /\ status'[e] = IF status[e] = "cancelling" THEN "cancelling" ELSE "running"
      BY <2>2 DEF ClaimNext
    <2> QED
      BY <2>2, <2>3, <2>4, <2>5, <2>6
  <1>f. ASSUME NEW f \in Exec, f # e
        PROVE  /\ f \in over => /\ PhaseOf(f) = "held"
                                /\ PhaseOf(f)' = "over"
               /\ f \notin over => PhaseOf(f)' = PhaseOf(f)
    <2>1. CASE f \in over
      <3>1. status[f] = "running" /\ owner[f] # 0
        BY <2>1 DEF SettledCrashed, CrashedFront, Poisoned, Reclaiming, LeaseDiscipline,
                    RowsFollowTheLease
      <3>2. status'[f] = "failed"
        BY <1>f, <2>1 DEF ClaimNext
      <3> QED
        BY <2>1, <3>1, <3>2, PhaseIs, PhaseIsNext
    <2>2. CASE f \notin over
      <3>1. status'[f] = status[f] /\ owner'[f] = owner[f]
        BY <1>f, <2>2 DEF ClaimNext
      <3> QED
        BY <2>2, <3>1, PhaseIs, PhaseIsNext
    <2> QED
      BY <2>1, <2>2
  <1>h. /\ PhaseOf(e)' = "held"
        /\ PhaseOf(e) = IF status[e] = "queued" THEN "queued" ELSE "held"
    BY <1>0, <1>e, PhaseIs, PhaseIsNext
  <1> HIDE DEF over
  <1>1. CASE over # {}
    <2>1. Lifecycle!EndAndHandOut(over, e)
      <3>1. Lifecycle!End(over)
        BY <1>0, <1>1, <1>e, <1>f DEF Lifecycle!End
      <3>2. [f \in Exec |-> PhaseOf(f)]' =
               [f \in Exec |-> IF f \in over THEN "over"
                               ELSE IF f = e THEN "held" ELSE [g \in Exec |-> PhaseOf(g)][f]]
        BY <1>e, <1>f, <1>h
      <3>3. \/ reclaims' = reclaims
            \/ /\ PhaseOf(e) = "held" /\ reclaims[e] < MaxReclaims
               /\ reclaims' = [reclaims EXCEPT ![e] = @ + 1]
        BY <1>e, <1>h
      <3> QED
        BY <1>0, <1>e, <1>h, <3>1, <3>2, <3>3 DEF Lifecycle!EndAndHandOut
    <2> QED
      BY <1>0, <2>1 DEF Lifecycle!Next, Simulated
  <1>2. CASE over = {} /\ status[e] = "running"
    <2>1. Lifecycle!Retry(e)
      BY <1>0, <1>2, <1>e, <1>f, <1>h DEF Lifecycle!Retry, Lifecycle!Moves
    <2> QED
      BY <2>1 DEF Lifecycle!Next, Simulated
  <1>3. CASE over = {} /\ status[e] # "running"
    <2>1. CountersKept
      BY <1>0, <1>3, <1>e DEF CountersKept
    <2>2. CASE status[e] = "queued"
      BY <1>3, <1>f, <1>h, <2>1, <2>2, CallerSeesAMove DEF Simulated
    <2>3. CASE status[e] = "cancelling"
      BY <1>3, <1>f, <1>h, <2>1, <2>3, CallerSeesNothing DEF Simulated
    <2> QED
      BY <1>3, <1>e, <2>2, <2>3
  <1> QED
    BY <1>1, <1>2, <1>3

LEMMA ClaimSettlesOnlySimulated ==
  ASSUME StateTyped, LeaseDiscipline, NEW w \in Worker, ClaimSettlesOnly(w)
  PROVE  Simulated
  <1> DEFINE over == SettledCrashed
  <1>0. over \in SUBSET Exec /\ over # {}
    BY DEF ClaimSettlesOnly, SettledCrashed, CrashedFront
  <1>1. CountersKept
    BY DEF ClaimSettlesOnly, CountersKept
  <1>2. ASSUME NEW f \in Exec, f \in over PROVE PhaseOf(f) = "held" /\ PhaseOf(f)' = "over"
    <2>1. status[f] = "running" /\ owner[f] # 0 /\ status'[f] = "failed"
      BY <1>2 DEF ClaimSettlesOnly, SettledCrashed, CrashedFront, Poisoned, Reclaiming,
                  LeaseDiscipline, RowsFollowTheLease
    <2> QED
      BY <2>1, PhaseIs, PhaseIsNext
  <1>3. ASSUME NEW f \in Exec, f \notin over PROVE PhaseOf(f)' = PhaseOf(f)
    <2>1. status'[f] = status[f] /\ owner'[f] = owner[f]
      BY <1>3 DEF ClaimSettlesOnly
    <2> QED
      BY <2>1, PhaseIs, PhaseIsNext
  <1> HIDE DEF over
  <1> QED
    BY <1>0, <1>1, <1>2, <1>3, CallerSeesAnEnd DEF Simulated

LEMMA UpdateRuntimeSimulated ==
  ASSUME StateTyped, NEW w \in Worker, NEW outcome \in Terminal, worker[w].pc # "idle",
         UpdateRuntime(w, outcome)
  PROVE  Simulated
  <1> DEFINE e == worker[w].exec
  <1>0. /\ e \in Exec /\ status \in [Exec -> Status] /\ owner \in [Exec -> Nat]
        /\ CountersKept
    BY DEF StateTyped, ColumnsTyped, MemoryTyped, WorkersTyped, PhaseOK, UpdateRuntime, CountersKept
  <1>1. /\ \A f \in Exec : f # e => status'[f] = status[f] /\ owner'[f] = owner[f]
        /\ \/ status'[e] = status[e] /\ owner'[e] = owner[e]
           \/ status[e] # "absent" /\ status'[e] \in Terminal
    BY <1>0 DEF UpdateRuntime, Fenced, Terminal
  <1> HIDE DEF e
  <1> QED
    BY <1>0, <1>1, OneRowEnds

\* The start of a graph is one of the hand-outs counted for its row.
LEMMA StartRunSimulated ==
  ASSUME StateTyped, StateTyped', StartInv, NEW w \in Worker, StartRun(w)
  PROVE  Simulated
  <1> DEFINE e == worker[w].exec
  <1>0. /\ e \in Exec /\ runs \in [Exec -> Nat]
        /\ UNCHANGED <<status, owner, parks, reclaims>>
        /\ runs' = [runs EXCEPT ![e] = @ + 1]
        /\ runs[e] < HandOuts(e)
    BY StartRunStarts DEF StateTyped, ColumnsTyped, MemoryTyped, WorkersTyped, PhaseOK, StartRun
  <1>1. \A f \in Exec : PhaseOf(f)' = PhaseOf(f)
    BY <1>0, PhaseIs, PhaseIsNext
  <1>2. PhaseOf(e) # "absent"
    <2>1. status[e] # "absent" /\ status[e] \in Status
      BY <1>0 DEF StartInv, RowsSeen, StartRun, StateTyped, ColumnsTyped
    <2> QED
      BY <1>0, <2>1, PhaseIs
  <1>3. runs[e] < 1 + parks[e] + reclaims[e]
    <2>1. parks[e] \in Nat /\ reclaims[e] \in Nat /\ runs[e] \in Nat
      BY <1>0, CountTypes
    <2>2. HandOuts(e) = parks[e] + reclaims[e] \/ HandOuts(e) = parks[e] + reclaims[e] + 1
      BY <2>1 DEF HandOuts
    <2> QED
      BY <1>0, <2>1, <2>2
  <1> HIDE DEF e
  <1>4. Lifecycle!Start(e)
    BY <1>0, <1>1, <1>2, <1>3 DEF Lifecycle!Start
  <1> QED
    BY <1>0, <1>4 DEF Lifecycle!Next, Simulated

LEMMA ParkSimulated ==
  ASSUME StateTyped, LeaseDiscipline, NEW w \in Worker, worker[w].pc # "idle",
         SuspendExecution(w) \/ SuspendWrite(w)
  PROVE  Simulated
  <1> DEFINE e == worker[w].exec
  <1>0. /\ e \in Exec /\ runs' = runs /\ reclaims' = reclaims
        /\ status \in [Exec -> Status] /\ owner \in [Exec -> Nat] /\ parks \in [Exec -> Nat]
    BY ParkEffect DEF StateTyped, ColumnsTyped
  <1>1. CASE UNCHANGED <<status, owner, parks>>
    BY <1>0, <1>1, QuietSimulated
  <1>2. CASE /\ status[e] = "running" /\ owner[e] = worker[w].lease
             /\ status' = [status EXCEPT ![e] = "waiting"]
             /\ owner' = [owner EXCEPT ![e] = 0]
             /\ parks' = [parks EXCEPT ![e] = @ + 1]
    <2>1. owner[e] # 0
      BY <1>0, <1>2 DEF LeaseDiscipline, RowsFollowTheLease
    <2> HIDE DEF e
    <2>2. /\ PhaseOf(e) = "held"
          /\ \A f \in Exec : PhaseOf(f)' = IF f = e THEN "waiting" ELSE PhaseOf(f)
      BY <1>0, <1>2, <2>1, PhaseIs, PhaseIsNext
    <2>3. \E f \in Exec : Lifecycle!Park(f)
      BY <1>0, <1>2, <2>2 DEF Lifecycle!Park, Lifecycle!Moves
    <2> QED
      BY <2>3 DEF Lifecycle!Next, Simulated
  <1> QED
    BY <1>1, <1>2, ParkEffect

\* The second update of the terminal write ends its row, or finds it changed.
LEMMA SettleSecondSimulated ==
  ASSUME StateTyped, NEW w \in Worker, SettleSecond(w)
  PROVE  Simulated
  <1> DEFINE e == worker[w].exec
  <1>0. /\ e \in Exec /\ status \in [Exec -> Status] /\ owner \in [Exec -> Nat]
        /\ worker[w].out \in Terminal /\ CountersKept
    BY DEF StateTyped, ColumnsTyped, MemoryTyped, WorkersTyped, PhaseOK, SettleSecond,
           CountersKept
  <1>1. /\ \A f \in Exec : f # e => status'[f] = status[f] /\ owner'[f] = owner[f]
        /\ \/ status'[e] = status[e] /\ owner'[e] = owner[e]
           \/ status[e] # "absent" /\ status'[e] \in Terminal
    BY <1>0 DEF SettleSecond
  <1> HIDE DEF e
  <1> QED
    BY <1>0, <1>1, OneRowEnds

LEMMA WaitSimulated ==
  ASSUME StateTyped, NEW e \in Exec, NEW i \in DOMAIN waits[e],
         DeadlinePasses(e, i) \/ ResumeWait(e, i) \/ SettleExpiredWait(e, i)
  PROVE  Simulated
  <1>0. /\ \A f \in Exec : f # e => RowUntouched(f)
        /\ \/ status' = status /\ owner' = owner
           \/ status[e] = "waiting" /\ status'[e] = "queued"
           \/ status[e] = "waiting" /\ status'[e] = "failed"
    BY WaitEffect
  <1>1. CountersKept
    BY DEF CountersKept, DeadlinePasses, ResumeWait, SettleExpiredWait, rowVars
  <1>2. \A f \in Exec : f # e => status'[f] = status[f] /\ owner'[f] = owner[f]
    BY <1>0 DEF RowUntouched
  <1>3. CASE status[e] = "waiting" /\ status'[e] = "queued"
    BY <1>1, <1>2, <1>3, PhaseIs, PhaseIsNext, CallerSeesAMove DEF Simulated
  <1>4. CASE \/ status' = status /\ owner' = owner
             \/ status[e] = "waiting" /\ status'[e] = "failed"
    BY <1>1, <1>2, <1>4, OneRowEnds DEF Terminal, StateTyped, ColumnsTyped
  <1> QED
    BY <1>0, <1>3, <1>4

LEMMA EndWriteSimulated ==
  ASSUME StateTyped, NEW c \in Caller, EndWrite(c)
  PROVE  Simulated
  <1> DEFINE e == caller[c].exec
  <1>0. e \in Exec /\ CountersKept /\ status \in [Exec -> Status] /\ owner \in [Exec -> Nat]
    BY EndEffect DEF CountersKept, StateTyped, ColumnsTyped
  <1>1. \/ UNCHANGED <<status, owner>>
        \/ /\ status[e] = "waiting"
           /\ \A f \in Exec : f # e => status'[f] = status[f] /\ owner'[f] = owner[f]
           /\ status'[e] \in {"queued", "failed"}
    BY <1>0, EndEffect
  <1> HIDE DEF e
  <1>2. CASE status[e] = "waiting" /\ status'[e] = "queued"
    BY <1>0, <1>1, <1>2, PhaseIs, PhaseIsNext, CallerSeesAMove DEF Simulated
  <1>3. CASE ~(status[e] = "waiting" /\ status'[e] = "queued")
    BY <1>0, <1>1, <1>3, OneRowEnds DEF Terminal
  <1> QED
    BY <1>2, <1>3

LEMMA CancelWriteSimulated ==
  ASSUME StateTyped, LeaseDiscipline, StartInv, NEW c \in Caller, CancelWrite(c)
  PROVE  Simulated
  <1> DEFINE e == caller[c].exec
  <1>0. /\ e \in Exec /\ status[e] # "absent" /\ status \in [Exec -> Status]
        /\ owner[e] # 0 => status[e] \in {"running", "cancelling"}
    BY CancelEffect DEF StateTyped, ColumnsTyped, CancelWrite, StartInv, RowsSeen, LeaseDiscipline,
          RowsFollowTheLease
  <1>1. CountersKept
    BY DEF CountersKept, CancelWrite
  <1>2. /\ \A f \in Exec : f # e => status'[f] = status[f] /\ owner'[f] = owner[f]
        /\ \/ owner'[e] = 0 /\ status'[e] = "cancelled"
           \/ owner'[e] = owner[e] /\ status'[e] \in {status[e], "cancelling"}
    BY CancelEffect DEF RowUntouched
  <1> HIDE DEF e
  <1> QED
    BY <1>0, <1>1, <1>2, OneRowEnds DEF Terminal

\* Every step of the queue is a step of the lifecycle or invisible to it.
LEMMA NextSimulated ==
  ASSUME StateTyped, StateTyped', LeaseDiscipline, StartInv, [Next]_vars
  PROVE  Simulated
  <1>1. ASSUME NEW e \in Exec, Queue(e) PROVE Simulated
    <2>1. CountersKept
      BY <1>1 DEF Queue, CountersKept
    <2>2. /\ status[e] = "absent" /\ status'[e] = "queued"
          /\ \A f \in Exec : f # e => status'[f] = status[f] /\ owner'[f] = owner[f]
      BY <1>1 DEF Queue, StateTyped, ColumnsTyped
    <2> QED
      BY <2>1, <2>2, PhaseIs, PhaseIsNext, CallerSeesAMove DEF Simulated
  <1>2. ASSUME NEW w \in Worker, WorkerStep(w) PROVE Simulated
    <2>1. ASSUME NEW e \in Exec, ClaimNext(w, e) PROVE Simulated
      BY <2>1, ClaimNextSimulated
    <2>2. CASE ClaimSettlesOnly(w)
      BY <2>2, ClaimSettlesOnlySimulated
    <2>3. CASE RecoverCancelled(w)
      BY <2>3, UpdateRuntimeSimulated DEF RecoverCancelled, Terminal
    <2>4. CASE StartRun(w)
      BY <2>4, StartRunSimulated
    <2>5. CASE \/ RunNode(w) \/ PersistTraceRow(w) \/ CreateNodeRuns(w)
               \/ \E outcome \in Outcome : RunEnds(w, outcome)
      BY <2>5, QuietSimulated DEF RunNode, PersistTraceRow, CreateNodeRuns, RunEnds
    <2>6. CASE SuspendExecution(w) \/ SuspendWrite(w)
      BY <2>6, ParkSimulated DEF SuspendExecution, SuspendWrite
    <2>7. CASE Settle(w)
      <3>1. worker[w].out \in Terminal /\ worker[w].pc # "idle"
        BY <2>7 DEF Settle, StateTyped, MemoryTyped, WorkersTyped, PhaseOK
      <3> QED
        BY <2>7, <3>1, UpdateRuntimeSimulated DEF Settle
    <2>8. CASE ReadFence(w) \/ InsertRows(w) \/ SuspendRead(w) \/ SettleFirst(w)
      BY <2>8, QuietSimulated DEF ReadFence, InsertRows, SuspendRead, SettleFirst, rowVars
    <2>9. CASE SettleSecond(w)
      BY <2>9, SettleSecondSimulated
    <2> QED
      BY <1>2, <2>1, <2>2, <2>3, <2>4, <2>5, <2>6, <2>7, <2>8, <2>9 DEF WorkerStep, SplitStep
  <1>3. ASSUME NEW w \in Worker,
               Heartbeat(w) \/ PollCancellation(w) \/ Shutdown(w) \/ Abandon(w)
        PROVE  Simulated
    BY <1>3, QuietSimulated DEF Heartbeat, PollCancellation, Shutdown, Abandon, rowVars
  <1>4. ASSUME NEW e \in Exec, LeaseExpires(e) \/ HolderStalls(e) PROVE Simulated
    BY <1>4, QuietSimulated DEF LeaseExpires, HolderStalls
  <1>5. ASSUME NEW e \in Exec, NEW i \in DOMAIN waits[e],
               DeadlinePasses(e, i) \/ ResumeWait(e, i) \/ SettleExpiredWait(e, i)
        PROVE  Simulated
    BY <1>5, WaitSimulated
  <1>6. ASSUME NEW c \in Caller, NEW e \in Exec, CancelRead(c, e) PROVE Simulated
    BY <1>6, QuietSimulated DEF CancelRead, rowVars
  <1>7. ASSUME NEW c \in Caller, CancelWrite(c) PROVE Simulated
    BY <1>7, CancelWriteSimulated
  <1>8. ASSUME NEW c \in Caller, NEW e \in Exec, NEW i, EndRead(c, e, i) PROVE Simulated
    BY <1>8, QuietSimulated DEF EndRead, rowVars
  <1>9. ASSUME NEW c \in Caller, EndWrite(c) PROVE Simulated
    BY <1>9, EndWriteSimulated
  <1>10. CASE UNCHANGED vars
    BY <1>10, QuietSimulated DEF vars
  <1> QED
    BY <1>1, <1>2, <1>3, <1>4, <1>5, <1>6, <1>7, <1>8, <1>9, <1>10
       DEF Next, Step, WaitStep, SplitCall

LEMMA InitSimulated == Init => Lifecycle!Init
  <1> SUFFICES ASSUME Init PROVE Lifecycle!Init
    OBVIOUS
  <1>1. \A e \in Exec : PhaseOf(e) = "absent" /\ parks[e] = 0
    BY PhaseIs DEF Init
  <1> QED
    BY <1>1 DEF Init, Lifecycle!Init

\* The queue implements what its callers were promised, for every number of
\* executions, workers, cancel requests and faults: crashed work is handed out
\* again at most MaxExecutionReclaims times, a graph is started at most once
\* per hand-out, and what is over stays over.
THEOREM QueueImplementsLifecycle == Spec => ImplementsLifecycle
  <1> DEFINE Inv == StateTyped /\ LeaseDiscipline /\ StartInv
  <1>1. Init => Inv
    BY InitType, InitDiscipline, InitStarts DEF TypeOK
  <1>2. Inv /\ [Next]_vars => Inv'
    BY NextStateType, NextDiscipline, NextStarts
  <1>3. Inv /\ [Next]_vars => [Lifecycle!Next]_(Lifecycle!vars)
    BY NextStateType, NextSimulated DEF Simulated
  <1> QED
    BY InitSimulated, <1>1, <1>2, <1>3, PTL DEF Spec, ImplementsLifecycle, Lifecycle!Spec

=============================================================================
