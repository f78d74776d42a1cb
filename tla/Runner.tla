------------------------------- MODULE Runner -------------------------------
(***************************************************************************)
(* One execution of a compiled graph: the stack of invocations the run     *)
(* owes, the fallback that starts a Merge, the trace, and the checkpoint   *)
(* that carries all of it across a durable wait.                           *)
(*                                                                         *)
(* Two runs of the same graph are modelled.  In `plain` no Wait node has   *)
(* anything to wait for (a pause of zero passes its items straight         *)
(* through); in `live` each of them may suspend the run, which then goes   *)
(* on from its checkpoint.  The plain run comes first, as the reference.   *)
(*                                                                         *)
(* Items are numbers.  A node's call is abstracted to what it does with    *)
(* them: a step hands its items on, an IF sends the odd ones to its first  *)
(* output, a flaky call fails on an odd item, a Wait on one it cannot wait *)
(* for, a Merge appends, a loop dispatches batches; a wait that is over    *)
(* hands its items on, as the timer's does.  Lineage, expression views,    *)
(* the console and the execution's own output are left out, and so are     *)
(* whole-batch nodes that report their failed items themselves.  A crash   *)
(* or a cancel of the run is ExecutionQueue's.                             *)
(***************************************************************************)
EXTENDS Compiler, SequencesExt

CONSTANTS
    Graph,         \* documents, each with the trigger that fires (0 for none named)
                   \* and the items it starts with
    Batch,         \* a loop's batchSize
    MaxIterations, \* a loop's maxIterations
    Tries,         \* attempts of a node that retries
    TooLong,       \* items a Wait node's parameters do not resolve on, or ask for a
                   \* pause over the limit
    MaxRows        \* bound: trace rows of one run

ASSUME RunnerBounds ==
    /\ Batch \in Nat \ {0} /\ MaxIterations \in Nat
    /\ Tries \in Nat \ {0} /\ TooLong \in SUBSET Nat /\ MaxRows \in Nat

\* What the document format fixes.
ASSUME Documents ==
    \A d \in Graph :
        /\ d.nodes \in Seq(Node) /\ d.items \in Seq(Nat)
        /\ d.trigger \in 0 .. Len(d.nodes)
        /\ IsFiniteSet(d.edges)
        /\ \A e \in d.edges :
              e \in [from : 1 .. Len(d.nodes), out : Nat, to : 1 .. Len(d.nodes), port : Nat]

VARIABLES
    graph,       \* the prepared graph
    plain,       \* the run that never suspends
    live,        \* the run that may
    checkpoint   \* what live suspended with, or NoCheckpoint

vars == <<graph, plain, live, checkpoint>>

NoCheckpoint == [node |-> 0]
NoInput == <<<<>>, <<>>>>

\* The elements of a finite set, each at the place Before gives it.
Ordered(S, Before(_, _)) ==
    [i \in 1 .. Cardinality(S) |->
        CHOOSE x \in S : Cardinality({y \in S : Before(y, x)}) = i - 1]
Upwards(S) == Ordered(S, LAMBDA n, m : n < m)
Downwards(S) == Ordered(S, LAMBDA n, m : n > m)

-----------------------------------------------------------------------------
(* prepareGraph. *)

\* activeNodes: what the trigger's items can reach, and its attachments.
ActiveNodes(g) ==
    IF g.trigger = 0 THEN DOMAIN g.nodes
    ELSE WithProviders(g, ReachableFrom(g, {e \in g.edges : IsItemEdge(e)}, {g.trigger}))

\* manualStartProblem: a run starts from a node nothing feeds.
IsUnfed(g, n) == \A e \in g.edges : e.to # n

\* A run that names a disabled trigger is refused.
Starts(g) == g.trigger # 0 => ~g.nodes[g.trigger].disabled /\ IsUnfed(g, g.trigger)

PrepareGraph(g) ==
    [nodes |-> g.nodes, items |-> g.items, active |-> ActiveNodes(g),
     edges |-> {e \in g.edges : {e.from, e.to} \subseteq ActiveNodes(g)}]

Incoming(g, n) == {e \in g.edges : e.to = n}
ItemIncoming(g, n) == {e \in Incoming(g, n) : IsItemEdge(e)}
Outgoing(g, n) == {e \in g.edges : e.from = n}
Disabled(g, n) == g.nodes[n].disabled
SeveralInputs(g, n) == ItemInputs[KindOf(g, n)] > 1
NoOutput(g, n) == [o \in 1 .. Outputs(g, n) |-> <<>>]

\* seed: the nodes nothing feeds, the topmost on top of the stack.
Seed(g) ==
    LET roots == {n \in g.active : Incoming(g, n) = {} /\ ~Disabled(g, n) /\ ~IsAnnotation(g, n)}
        order == Downwards(roots)
    IN  [i \in DOMAIN order |-> [node |-> order[i], input |-> NoInput, skipped |-> FALSE]]

NewLoop == [on |-> FALSE, pending |-> <<>>, collected |-> <<>>, iteration |-> 0]

NewRun(g) ==
    [status |-> "running", pending |-> Seed(g), completed |-> <<>>,
     loops |-> [n \in g.active |-> NewLoop], rows |-> <<>>]

-----------------------------------------------------------------------------
(* next: the invocation to run. *)

Completed(run, n) == n \in DOMAIN run.completed

ConfigReady(g, run, n) ==
    \A e \in Incoming(g, n) \ ItemIncoming(g, n) : Completed(run, e.from)

DependenciesComplete(g, run, n) == \A e \in Incoming(g, n) : Completed(run, e.from)

\* delivered, with requiredInputsReceived: some input received items, and in
\* chooseBranch mode both did.
Delivered(g, run, n) ==
    LET received == {e.port : e \in {f \in ItemIncoming(g, n) :
                                        run.completed[f.from][f.out] # <<>>}}
    IN  \/ ItemIncoming(g, n) = {}
        \/ /\ received # {}
           /\ KindOf(g, n) = "choose" => received = {1, 2}

\* The stack's invocations that may run, by position.
Runnable(g, run) == {i \in DOMAIN run.pending : ConfigReady(g, run, run.pending[i].node)}

\* The nodes only the fallback starts, once the stack has nothing to run.
Fallback(g, run) ==
    {n \in g.active : /\ ~Completed(run, n) /\ ~Disabled(g, n) /\ ~IsAnnotation(g, n)
                      /\ DependenciesComplete(g, run, n)
                      /\ Delivered(g, run, n)}

\* Mutant: a Merge runs as soon as its sources have.
HasNextEager(g, run) ==
    LET ready == {n \in Fallback(g, run) : SeveralInputs(g, n)}
    IN  IF ready # {} /\ ready = Fallback(g, run) THEN {0}
        ELSE {i \in Runnable(g, run) : i = Max(Runnable(g, run))}

\* The position next takes, 0 for the fallback, none when the run is over.
HasNext(g, run) ==
    CASE Runnable(g, run) # {} -> {Max(Runnable(g, run))}
      [] Runnable(g, run) = {} /\ Fallback(g, run) # {} -> {0}
      [] OTHER -> {}

\* The edges into a port, in the order of prepareGraph's incoming edges.
Sources(g, n, p) ==
    Ordered({e \in ItemIncoming(g, n) : e.port = p},
            LAMBDA d, e : d.from < e.from \/ (d.from = e.from /\ d.out < e.out))

\* nodeInput: each port gets what its sources last put out.
NodeInput(g, run, n) ==
    [p \in 1 .. 2 |->
        LET sources == Sources(g, n, p)
        IN  FlattenSeq([i \in DOMAIN sources |->
                           run.completed[sources[i].from][sources[i].out]])]

Invocation(g, run, i) ==
    IF i > 0 THEN run.pending[i]
    ELSE LET n == Min(Fallback(g, run))
         IN  [node |-> n, input |-> NodeInput(g, run, n), skipped |-> FALSE]

Taken(run, i) == IF i > 0 THEN [run EXCEPT !.pending = RemoveAt(@, i)] ELSE run

-----------------------------------------------------------------------------
(* What a finished invocation leaves behind. *)

Row(n, input, output, what) == [node |-> n, input |-> input, output |-> output, what |-> what]

\* The edges a node's output goes down.  A loop that dispatched a batch has not
\* reached its `done` port, and a node with several item inputs is left to the
\* fallback.
Feeding(g, n, output) ==
    {e \in Outgoing(g, n) :
        /\ IsItemEdge(e) /\ ~SeveralInputs(g, e.to)
        /\ ~(KindOf(g, n) = "loop" /\ output[2] # <<>> /\ e.out = 1)}

OutputsTo(edges, t) == {e.out : e \in {f \in edges : f.to = t}}

\* What the edges feed: by the first output that does, then down the canvas.
Targets(edges) ==
    Ordered({e.to : e \in edges},
            LAMBDA t, u : \/ Min(OutputsTo(edges, t)) < Min(OutputsTo(edges, u))
                          \/ Min(OutputsTo(edges, t)) = Min(OutputsTo(edges, u)) /\ t < u)

ItemsFor(edges, t, output) ==
    FlattenSeq([o \in DOMAIN output |-> IF o \in OutputsTo(edges, t) THEN output[o] ELSE <<>>])

Delivery(edges, t, output) ==
    [node |-> t, input |-> <<ItemsFor(edges, t, output), <<>>>>,
     skipped |-> ItemsFor(edges, t, output) = <<>>]

\* push: one invocation for each node the output feeds, the first of them on top.
Push(g, n, output) ==
    LET edges == Feeding(g, n, output)
        order == Targets(edges)
    IN  Reverse([i \in DOMAIN order |-> Delivery(edges, order[i], output)])

Put(completed, n, output) ==
    [m \in DOMAIN completed \cup {n} |-> IF m = n THEN output ELSE completed[m]]

Complete(g, run, n, input, output) ==
    [run EXCEPT !.completed = Put(@, n, output),
                !.rows = Append(@, Row(n, input, output, "ran")),
                !.pending = @ \o Push(g, n, output)]

\* Mutant: emptiness travels on.
SkipPushes(g, run, n, input) ==
    [run EXCEPT !.completed = Put(@, n, NoOutput(g, n)),
                !.rows = Append(@, Row(n, input, NoOutput(g, n), "skipped")),
                !.pending = @ \o Push(g, n, NoOutput(g, n))]

\* skip: recorded, and nothing below it is scheduled.
Skip(g, run, n, input) ==
    [run EXCEPT !.completed = Put(@, n, NoOutput(g, n)),
                !.rows = Append(@, Row(n, input, NoOutput(g, n), "skipped"))]

\* recordSkips: a row for every node the run never reached.
RecordSkips(g, run) ==
    LET unreached == {n \in g.active : ~Completed(run, n) /\ ~IsAnnotation(g, n)}
        order == Upwards(unreached)
    IN  [run EXCEPT !.status = "succeeded",
                    !.rows = @ \o [i \in DOMAIN order |->
                        Row(order[i], NoInput, NoOutput(g, order[i]), "unreached")]]

-----------------------------------------------------------------------------
(* The calls. *)

IsOdd(x) == x % 2 = 1
Only(items, Test(_)) ==
    FlattenSeq([i \in DOMAIN items |-> IF Test(items[i]) THEN <<items[i]>> ELSE <<>>])
EmptyItem == 0
ErrorItem(x) == 100 + 2 * x

\* Mutant: a finished loop keeps its state.
ExecuteLoopKeepsState(loop, items) ==
    LET now == IF loop.on THEN [loop EXCEPT !.collected = @ \o items]
                          ELSE [NewLoop EXCEPT !.pending = items]
        size == Min({Batch, Len(now.pending)})
    IN  CASE now.pending = <<>> ->
               [failed |-> FALSE, output |-> <<now.collected, <<>>>>, loop |-> now]
          [] now.pending # <<>> /\ now.iteration >= MaxIterations ->
               [failed |-> TRUE, output |-> NoInput, loop |-> loop]
          [] OTHER ->
               [failed |-> FALSE,
                output |-> <<<<>>, SubSeq(now.pending, 1, size)>>,
                loop |-> [on |-> TRUE, iteration |-> now.iteration + 1,
                          pending |-> SubSeq(now.pending, size + 1, Len(now.pending)),
                          collected |-> now.collected]]

\* executeLoop: the first call takes its input as the work, a later one is the
\* body's return.
ExecuteLoop(loop, items) ==
    LET now == IF loop.on THEN [loop EXCEPT !.collected = @ \o items]
                          ELSE [NewLoop EXCEPT !.pending = items]
        size == Min({Batch, Len(now.pending)})
    IN  CASE now.pending = <<>> ->
               [failed |-> FALSE, output |-> <<now.collected, <<>>>>, loop |-> NewLoop]
          [] now.pending # <<>> /\ now.iteration >= MaxIterations ->
               [failed |-> TRUE, output |-> NoInput, loop |-> loop]
          [] OTHER ->
               [failed |-> FALSE,
                output |-> <<<<>>, SubSeq(now.pending, 1, size)>>,
                loop |-> [on |-> TRUE, iteration |-> now.iteration + 1,
                          pending |-> SubSeq(now.pending, size + 1, Len(now.pending)),
                          collected |-> now.collected]]

\* executeWait reads its parameters against the first item.
FirstItem(items) == IF items = <<>> THEN EmptyItem ELSE Head(items)
WaitFails(input) == FirstItem(input[1]) \in TooLong

\* What a node's executor returns, before the runner adds the error port.
Execute(g, run, n, input) ==
    LET kind == KindOf(g, n)
        Returns(output) == [failed |-> FALSE, output |-> output, loop |-> run.loops[n]]
    IN  CASE kind = "trigger" -> Returns(<<g.items>>)
          [] kind = "model" -> Returns(<<<<EmptyItem>>>>)
          [] kind = "if" -> Returns(<<Only(input[1], IsOdd),
                                      Only(input[1], LAMBDA x : ~IsOdd(x))>>)
          [] kind = "merge" -> Returns(<<input[1] \o input[2]>>)
          [] kind = "loop" -> ExecuteLoop(run.loops[n], input[1])
          [] kind = "flaky" -> [Returns(<<input[1]>>) EXCEPT
                                   !.failed = \E i \in DOMAIN input[1] : IsOdd(input[1][i])]
          [] kind = "wait" -> [Returns(<<input[1]>>) EXCEPT !.failed = WaitFails(input)]
          [] OTHER -> Returns(<<input[1]>>)

\* withErrorPort: padded to the declared outputs.
WithErrorPort(g, n, output) == [o \in 1 .. Outputs(g, n) |->
                                   IF o \in DOMAIN output THEN output[o] ELSE <<>>]

\* Always Output Data: an empty first output carries one empty item.
WithEmptyItem(g, n, output) ==
    IF g.nodes[n].always /\ output # <<>> /\ output[1] = <<>>
      THEN [output EXCEPT ![1] = <<EmptyItem>>] ELSE output

\* Where a tolerated failure's items go.
FailurePort(g, n) == IF g.nodes[n].onError = "branch" THEN Outputs(g, n) ELSE 1

\* toleratedOutput: one error item for each input item.
ToleratedOutput(g, n, input) ==
    LET items == IF input[1] = <<>> THEN <<EmptyItem>> ELSE input[1]
    IN  [NoOutput(g, n) EXCEPT ![FailurePort(g, n)] =
            [i \in DOMAIN items |-> ErrorItem(items[i])]]

\* A failed attempt that is retried is a row of its own.
FailedAttempts(g, n, input) ==
    [i \in 1 .. (IF g.nodes[n].retry THEN Tries ELSE 1) - 1 |->
        Row(n, input, <<>>, "failed")]

\* executeOnce: the node sees the first item.
Seen(g, inv) ==
    IF g.nodes[inv.node].once /\ Len(inv.input[1]) > 1
      THEN [inv.input EXCEPT ![1] = <<Head(@)>>] ELSE inv.input

PerItem(g, n, input) ==
    /\ g.nodes[n].onError # "stop" /\ ~g.nodes[n].once
    /\ KindOf(g, n) # "loop" /\ ItemInputs[KindOf(g, n)] = 1
    /\ input[1] # <<>>

\* resolveItems on the items at positions p to q: what they add to the output
\* and to the trace.
MergeOutput(a, b) == [o \in DOMAIN a |-> a[o] \o (IF o \in DOMAIN b THEN b[o] ELSE <<>>)]

ResolveItem(g, run, n, single, acc) ==
    LET ran == Execute(g, run, n, single)
    IN  IF ran.failed
          THEN [output |-> MergeOutput(acc.output, ToleratedOutput(g, n, single)),
                rows |-> acc.rows \o FailedAttempts(g, n, single)]
          ELSE [acc EXCEPT !.output = MergeOutput(@, ran.output)]

OneItem(input, i) == [input EXCEPT ![1] = <<input[1][i]>>]

ResolveItems(g, run, n, input, p, q, assembled) ==
    LET upTo[i \in 0 .. Len(input[1])] ==
            IF i < p THEN [output |-> assembled, rows |-> run.rows]
            ELSE ResolveItem(g, run, n, OneItem(input, i), upTo[i - 1])
    IN  upTo[q]

-----------------------------------------------------------------------------
(* runNode. *)

InvokeWhole(g, run, n, input) ==
    LET ran == Execute(g, run, n, input)
        tried == [run EXCEPT !.loops[n] = ran.loop,
                             !.rows = IF ran.failed THEN @ \o FailedAttempts(g, n, input) ELSE @]
    IN  CASE ~ran.failed ->
               Complete(g, tried, n, input,
                        WithEmptyItem(g, n, WithErrorPort(g, n, ran.output)))
          [] ran.failed /\ g.nodes[n].onError = "stop" ->
               [tried EXCEPT !.status = "failed",
                             !.rows = Append(@, Row(n, input, <<>>, "failed"))]
          [] OTHER ->
               Complete(g, tried, n, input, WithEmptyItem(g, n, ToleratedOutput(g, n, input)))

\* The per-item run from position p on, completed once its last item is.
FinishItems(g, run, n, input, p, assembled) ==
    LET done == ResolveItems(g, run, n, input, p, Len(input[1]), assembled)
    IN  Complete(g, [run EXCEPT !.rows = done.rows], n, input, WithEmptyItem(g, n, done.output))

PassedThrough(g, n, items) ==
    [o \in 1 .. Outputs(g, n) |-> IF o = 1 THEN items ELSE <<>>]

\* One invocation, when nothing in it suspends.
RunNode(g, run, inv) ==
    LET n == inv.node
        input == Seen(g, inv)
    IN  CASE inv.skipped -> Skip(g, run, n, inv.input)
          [] ~inv.skipped /\ Disabled(g, n) ->
               Complete(g, run, n, inv.input, PassedThrough(g, n, inv.input[1]))
          [] ~inv.skipped /\ ~Disabled(g, n) /\ g.nodes[n].pinned ->
               Complete(g, run, n, inv.input, PassedThrough(g, n, g.items))
          [] OTHER -> IF PerItem(g, n, input)
                        THEN FinishItems(g, run, n, input, 1, NoOutput(g, n))
                        ELSE InvokeWhole(g, run, n, input)

-----------------------------------------------------------------------------
(* Suspension and resume. *)

Suspends(g, inv) ==
    /\ KindOf(g, inv.node) = "wait"
    /\ ~inv.skipped /\ ~Disabled(g, inv.node) /\ ~g.nodes[inv.node].pinned

\* Mutant: the stack is left out of the checkpoint.
SnapshotWithoutStack(run, n, input, whole, position, output) ==
    [node |-> n, input |-> input, whole |-> whole, position |-> position, output |-> output,
     rows |-> run.rows,
     completed |-> run.completed, loops |-> run.loops, pending |-> <<>>]

\* Mutant: the loops' state is left out of the checkpoint.
SnapshotWithoutLoops(run, n, input, whole, position, output) ==
    [node |-> n, input |-> input, whole |-> whole, position |-> position, output |-> output,
     rows |-> run.rows,
     completed |-> run.completed, loops |-> [m \in DOMAIN run.loops |-> NewLoop],
     pending |-> [i \in DOMAIN run.pending |->
                    [node |-> run.pending[i].node, input |-> run.pending[i].input]]]

\* snapshotCheckpoint: what the call was given, how far a per-item run had got
\* (position 0 when it was not one), the run's own state, and with it the rows
\* of what failed so far.  It does not keep which deliveries were skipped.
Snapshot(run, n, input, whole, position, output) ==
    [node |-> n, input |-> input, whole |-> whole, position |-> position, output |-> output,
     rows |-> run.rows,
     completed |-> run.completed, loops |-> run.loops,
     pending |-> [i \in DOMAIN run.pending |->
                    [node |-> run.pending[i].node, input |-> run.pending[i].input]]]

\* The checkpoint of a per-item run that waits on the item at position p; a
\* run of one item has no progress to carry.
ItemCheckpoint(g, run, n, input, p, from, assembled) ==
    LET before == ResolveItems(g, run, n, input, from, p - 1, assembled)
    IN  Snapshot([run EXCEPT !.rows = before.rows], n, OneItem(input, p), input,
                 IF Len(input[1]) > 1 THEN p ELSE 0, before.output)

\* deliveredNothing: how a restored delivery is known to have been empty.
DeliveredNothing(g, inv) ==
    ItemIncoming(g, inv.node) # {} /\ \A p \in DOMAIN inv.input : inv.input[p] = <<>>

\* Resume: the state of the checkpoint, below the node that waited.
Restored(g, cp) ==
    [status |-> "running", completed |-> cp.completed, loops |-> cp.loops, rows |-> cp.rows,
     pending |-> [i \in DOMAIN cp.pending |->
        [node |-> cp.pending[i].node, input |-> cp.pending[i].input,
         skipped |-> DeliveredNothing(g, cp.pending[i])]]]

\* timerResumeOutput: the items the call was given pass through.
ResumeOutput(g, cp) == WithErrorPort(g, cp.node, <<cp.input[1]>>)

\* resumedProgress: what a per-item run holds once its item is resumed.
ResumedOutput(g, cp) == MergeOutput(cp.output, ResumeOutput(g, cp))

-----------------------------------------------------------------------------

Init ==
    /\ \E g \in {d \in Graph : Compiles(d) /\ Starts(d)} : graph = PrepareGraph(g)
    /\ plain = NewRun(graph)
    /\ live = NewRun(graph)
    /\ checkpoint = NoCheckpoint

Ended(run) == run.status \in {"succeeded", "failed"}
Goes(run) == run.status = "running" /\ Len(run.rows) < MaxRows

\* runLoop, once around, without a suspension.
Advance(run) ==
    IF HasNext(graph, run) = {} THEN RecordSkips(graph, run)
    ELSE LET i == Min(HasNext(graph, run))
         IN  RunNode(graph, Taken(run, i), Invocation(graph, run, i))

PlainStep ==
    /\ Goes(plain)
    /\ plain' = Advance(plain)
    /\ UNCHANGED <<graph, live, checkpoint>>

LiveStep ==
    /\ Ended(plain) /\ Goes(live)
    /\ live' = Advance(live)
    /\ UNCHANGED <<graph, plain, checkpoint>>

\* A wait suspends the run on one of its items; the worker lets go of it.
Suspend(cp) ==
    /\ checkpoint' = cp
    /\ live' = [live EXCEPT !.status = "waiting", !.pending = <<>>, !.completed = <<>>,
                            !.loops = [n \in graph.active |-> NewLoop]]
    /\ UNCHANGED <<graph, plain>>

LiveSuspend ==
    /\ Ended(plain) /\ Goes(live)
    /\ \E i \in HasNext(graph, live) :
        LET inv == Invocation(graph, live, i)
            run == Taken(live, i)
            n == inv.node
            input == Seen(graph, inv)
        IN  /\ Suspends(graph, inv)
            /\ IF PerItem(graph, n, input)
                 THEN \E p \in DOMAIN input[1] :
                        /\ ~WaitFails(OneItem(input, p))
                        /\ Suspend(ItemCheckpoint(graph, run, n, input, p, 1, NoOutput(graph, n)))
                 ELSE /\ ~WaitFails(input)
                      /\ Suspend(Snapshot(run, n, input, input, 0, NoOutput(graph, n)))

\* The wait is over: the node completes, or its per-item run goes on.
Resume ==
    /\ live.status = "waiting"
    /\ LET cp == checkpoint
           run == Restored(graph, cp)
       IN  live' = IF cp.position = 0
                     THEN Complete(graph, run, cp.node, cp.input, ResumeOutput(graph, cp))
                     ELSE FinishItems(graph, run, cp.node, cp.whole, cp.position + 1,
                                      ResumedOutput(graph, cp))
    /\ checkpoint' = NoCheckpoint
    /\ UNCHANGED <<graph, plain>>

\* The per-item run waits again, on a later item.
SuspendAgain ==
    /\ live.status = "waiting" /\ checkpoint.position > 0
    /\ LET cp == checkpoint
           run == Restored(graph, cp)
       IN  \E p \in (cp.position + 1) .. Len(cp.whole[1]) :
              /\ ~WaitFails(OneItem(cp.whole, p))
              /\ Suspend(ItemCheckpoint(graph, run, cp.node, cp.whole, p, cp.position + 1,
                                        ResumedOutput(graph, cp)))

Next == PlainStep \/ LiveStep \/ LiveSuspend \/ Resume \/ SuspendAgain

Spec == Init /\ [][Next]_vars

-----------------------------------------------------------------------------
(* Properties. *)

Item == Nat
RowType == [node : graph.active, input : Seq(Seq(Item)), output : Seq(Seq(Item)),
            what : {"ran", "skipped", "failed", "unreached"}]

RunType(run) ==
    /\ run.status \in {"running", "waiting", "succeeded", "failed"}
    /\ \A i \in DOMAIN run.rows : run.rows[i] \in RowType
    /\ \A i \in DOMAIN run.pending :
          run.pending[i] \in [node : graph.active, input : Seq(Seq(Item)), skipped : BOOLEAN]
    /\ DOMAIN run.completed \subseteq graph.active
    /\ \A n \in DOMAIN run.completed :
          DOMAIN run.completed[n] = 1 .. Outputs(graph, n)

\* Runs, rows and stack entries have the shape the runner reads, and a completed
\* node has one stream for every output the compiler declared for it.
TypeOK == RunType(plain) /\ RunType(live) /\ (live.status = "waiting" <=> checkpoint.node # 0)

\* A run that suspends, on any items and any number of times, leaves the trace
\* an uninterrupted run leaves: the same rows in the same order with the same
\* items, and the same end.
ResumeIsTransparent ==
    Ended(plain) => /\ IsPrefix(live.rows, plain.rows)
                    /\ Ended(live) => live.rows = plain.rows /\ live.status = plain.status

\* The rows of a run that handed items to a node.
Feeds(row, n) ==
    /\ row.what = "ran"
    /\ \E e \in ItemIncoming(graph, n) : e.from = row.node /\ row.output[e.out] # <<>>

Count(rows, Test(_)) == Cardinality({i \in DOMAIN rows : Test(rows[i])})

\* The deliveries of items a run, or the checkpoint it waits on, still owes a node.
Owed(run, n) ==
    LET IsOwed(inv) == inv.node = n /\ ~DeliveredNothing(graph, inv)
    IN  IF run.status = "waiting"
          THEN Count(checkpoint.pending, IsOwed) + (IF checkpoint.node = n THEN 1 ELSE 0)
          ELSE Count(run.pending, IsOwed)

\* The invocation a failed run stopped on.
Stopped(run, n) == IF run.status = "failed" /\ Last(run.rows).node = n THEN 1 ELSE 0

NeverConfigured(n) ==
    \E e \in Incoming(graph, n) \ ItemIncoming(graph, n) : Disabled(graph, e.from)

\* A node below the `done` port of a loop with Always Output Data. A dispatch
\* leaves an empty item on that port, which is not delivered and yet lets the
\* fallback start the node.
BelowDone(n) ==
    \E e \in ItemIncoming(graph, n) :
        KindOf(graph, e.from) = "loop" /\ e.out = 1 /\ graph.nodes[e.from].always

\* Every delivery of items to a node with one item input is one run of it: none is
\* lost in the stack or a checkpoint, none runs twice, and a branch that delivered
\* nothing runs nothing.  A run that succeeded owes none, unless the node waits for
\* an attachment that is switched off. Types included.
OneRunPerDelivery ==
    TypeOK /\ \A run \in {plain, live} : \A n \in graph.active :
        ItemInputs[KindOf(graph, n)] = 1 /\ ~BelowDone(n) =>
            /\ Count(run.rows, LAMBDA row : Feeds(row, n))
                 = Count(run.rows, LAMBDA row : row.node = n /\ row.what = "ran")
                     + Owed(run, n) + Stopped(run, n)
            /\ run.status = "succeeded" => Owed(run, n) = 0 \/ NeverConfigured(n)

\* A Merge with nothing above it that the fallback starts.
IsFirstMerge(n) ==
    /\ SeveralInputs(graph, n)
    /\ \A m \in graph.active : Reaches(graph, graph.edges, m, n) =>
          ~SeveralInputs(graph, m) /\ ~BelowDone(m)

\* A Merge runs at most once, and a first one after everything above it: no node
\* that leads to it has a row of its own after the Merge's.
MergesRunLast ==
    \A run \in {plain, live} : \A i \in DOMAIN run.rows :
        LET n == run.rows[i].node
        IN  SeveralInputs(graph, n) /\ run.rows[i].what = "ran" =>
               \A j \in i + 1 .. Len(run.rows) :
                  /\ run.rows[j].node = n => run.rows[j].what # "ran"
                  /\ IsFirstMerge(n) /\ run.rows[j].what \in {"ran", "skipped"} =>
                        ~Reaches(graph, graph.edges, run.rows[j].node, n)

\* What came back to a loop in the pass its run at row i ends: the input of its
\* runs since the last pass that ended, the one that entered it left out.
ReturnedTo(rows, i) ==
    LET mine == {j \in 1 .. i : rows[j].node = rows[i].node /\ rows[j].what = "ran"}
        ended == {j \in mine \ {i} : rows[j].output[2] = <<>>}
        pass == Upwards({j \in mine : \A k \in ended : k < j})
    IN  FlattenSeq([x \in 1 .. Len(pass) - 1 |-> rows[pass[x + 1]].input[1]])

\* A loop that runs, on its own items, and fails the run if it fails.
IsPlainLoop(n) ==
    /\ KindOf(graph, n) = "loop" /\ ~Disabled(graph, n) /\ ~graph.nodes[n].pinned
    /\ ~graph.nodes[n].always /\ graph.nodes[n].onError = "stop"

\* What a loop hands on at its end is what its body returned since the loop was
\* entered, and nothing of an earlier pass, whatever suspended in between.
LoopsHandOnTheirReturns ==
    \A run \in {plain, live} : \A i \in DOMAIN run.rows :
        LET row == run.rows[i]
        IN  IsPlainLoop(row.node) /\ row.what = "ran" /\ row.output[2] = <<>>
              => row.output[1] = ReturnedTo(run.rows, i)

\* A loop whose body comes back once for each batch: its `loop` port feeds one
\* node and, with the entries of the other loops cut, one edge returns to it and
\* no node of its body is fed twice.
ReturnsOnce(l) ==
    LET cut == {e \in graph.edges : KindOf(graph, e.to) # "loop" \/ e.to = l}
        body == {n \in graph.active : Reaches(graph, cut, l, n) /\ Reaches(graph, cut, n, l)}
    IN  /\ Cardinality({e \in Outgoing(graph, l) : e.out = 2}) <= 1
        /\ Cardinality({e \in cut : e.to = l /\ e.from \in body}) <= 1
        /\ \A n \in body \ {l} : Cardinality(ItemIncoming(graph, n)) = 1

\* A graph whose loops are of that shape, and in which no cycle avoids every
\* loop's `loop` port, going round by `done` ports alone.
IsTame ==
    LET batches == {e \in graph.edges : KindOf(graph, e.from) = "loop" /\ e.out = 2}
    IN  /\ \A n \in graph.active : KindOf(graph, n) = "loop" => ReturnsOnce(n)
        /\ \A n \in graph.active : ~Reaches(graph, graph.edges \ batches, n, n)

\* A tame graph is run to an end: every step adds a row or moves a wait on, and
\* neither run comes near the bound on rows.
TameRunsEnd ==
    IsTame => Len(plain.rows) < MaxRows /\ Len(live.rows) < MaxRows

\* A Merge has the items of every run of the nodes wired to it.
MergesCollectEveryRun ==
    \A i \in DOMAIN plain.rows :
        SeveralInputs(graph, plain.rows[i].node) /\ plain.rows[i].what = "ran" =>
            \A e \in ItemIncoming(graph, plain.rows[i].node) : \A j \in 1 .. i - 1 :
                plain.rows[j].node = e.from /\ plain.rows[j].what = "ran" =>
                    Range(plain.rows[j].output[e.out]) \subseteq Range(plain.rows[i].input[e.port])

=============================================================================
