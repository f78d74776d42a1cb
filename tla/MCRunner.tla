------------------------------ MODULE MCRunner ------------------------------
(***************************************************************************)
(* The graphs Runner is checked on: every graph of a trigger and two nodes *)
(* that Compile accepts, and shapes of more nodes.                         *)
(***************************************************************************)
EXTENDS Runner

N(kind) == [kind |-> kind, disabled |-> FALSE, pinned |-> FALSE, once |-> FALSE,
            always |-> FALSE, retry |-> FALSE, onError |-> "stop"]
OnError(node, mode) == [node EXCEPT !.onError = mode]
E(from, out, to, port) == [from |-> from, out |-> out, to |-> to, port |-> port]

T == N("trigger")
Step == N("step")
If == N("if")
Merge == N("merge")
Loop == N("loop")
Wait == N("wait")
WaitEach == OnError(N("wait"), "continue")
Flaky == OnError([N("flaky") EXCEPT !.retry = TRUE], "branch")

-----------------------------------------------------------------------------
(* Every small graph. *)

Pool == {Step, If, Merge, Loop, Wait, WaitEach, Flaky,
         OnError(N("flaky"), "continue"), [N("step") EXCEPT !.disabled = TRUE]}

\* The edges three nodes can have: down the canvas, or back onto a loop.
EdgesAmong(nodes) ==
    UNION {{E(n, o, m, p) : o \in 1 .. Outputs([nodes |-> nodes], n),
                            p \in {q \in 1 .. ItemInputs[nodes[m].kind] :
                                        n < m \/ nodes[m].kind = "loop"}} :
           n \in DOMAIN nodes, m \in DOMAIN nodes}

SmallGraphs ==
    UNION {{[nodes |-> <<T, a, b>>, edges |-> edges, trigger |-> 1, items |-> <<1, 2>>] :
               edges \in SUBSET EdgesAmong(<<T, a, b>>)} : a \in Pool, b \in Pool}

-----------------------------------------------------------------------------
(* Shapes. *)

Chain(nodes) == {E(i, 1, i + 1, 1) : i \in 1 .. Len(nodes) - 1}
Doc(nodes, edges) == [nodes |-> nodes, edges |-> edges, trigger |-> 1, items |-> <<1, 2>>]

Waits == {Wait, WaitEach, OnError(N("wait"), "branch"), [WaitEach EXCEPT !.once = TRUE]}

Shapes ==
    UNION {{
      \* Both arms of an IF into a Merge, one through a wait.
      Doc(<<T, If, w, Merge>>, {E(1,1,2,1), E(2,1,3,1), E(3,1,4,1), E(2,2,4,2)}),
      \* A wait with a whole branch owed behind it, a skipped delivery included.
      Doc(<<T, w, If, Step, Step, Step>>,
          {E(1,1,2,1), E(2,1,4,1), E(1,1,3,1), E(3,1,5,1), E(3,2,6,1)}),
      [Doc(<<T, If, w, Step, Step>>, {E(1,1,2,1), E(2,1,3,1), E(3,1,4,1), E(2,2,5,1)})
         EXCEPT !.items = <<1, 3>>],
      \* The throttle pattern: a wait in a loop's body.
      Doc(<<T, Loop, w, Step>>, {E(1,1,2,1), E(2,2,3,1), E(3,1,2,1), E(2,1,4,1)}),
      [Doc(<<T, Loop, w, Step>>, {E(1,1,2,1), E(2,2,3,1), E(3,1,2,1), E(2,1,4,1)})
         EXCEPT !.items = <<1, 2, 3>>],
      \* A loop in a loop's body.
      Doc(<<T, Loop, Loop, w, Step>>,
          {E(1,1,2,1), E(2,2,3,1), E(3,2,4,1), E(4,1,3,1), E(3,1,2,1), E(2,1,5,1)}),
      \* An agent and its model, above and below the wait on the canvas.
      Doc(<<T, w, N("agent"), N("model"), Step>>,
          {E(1,1,2,1), E(2,1,3,1), E(4,1,3,0), E(3,1,5,1)}),
      Doc(<<T, N("agent"), w, N("model")>>, {E(1,1,2,1), E(2,1,3,1), E(4,1,2,0)}),
      \* An agent whose model is switched off.
      Doc(<<T, w, N("agent"), [N("model") EXCEPT !.disabled = TRUE]>>,
          {E(1,1,2,1), E(2,1,3,1), E(4,1,3,0)}),
      \* A pinned node, and an Always Output Data IF that runs its untaken arm.
      [Doc(<<T, [N("step") EXCEPT !.pinned = TRUE], [If EXCEPT !.always = TRUE], w>>,
           {E(1,1,2,1), E(2,1,3,1), E(3,1,4,1)}) EXCEPT !.items = <<2>>],
      \* A call that fails the run, behind a wait.
      Doc(<<T, w, [N("flaky") EXCEPT !.retry = TRUE], Step>>, Chain(<<T, w, T, Step>>)),
      \* A loop entered twice.
      Doc(<<T, Step, Loop, w, Step>>,
          {E(1,1,2,1), E(1,1,3,1), E(2,1,3,1), E(3,2,4,1), E(4,1,3,1), E(3,1,5,1)}),
      \* Two triggers on one node, one of them fired.
      Doc(<<T, T, w, Merge, N("note")>>, {E(1,1,3,1), E(2,1,3,1), E(3,1,4,1), E(1,1,4,2)}),
      \* A failing call ahead of the wait, its failures on a branch of their own.
      Doc(<<T, Flaky, w, Step>>, {E(1,1,2,1), E(2,1,3,1), E(2,2,4,1)}),
      \* Items the wait refuses, before and behind one it waits on.
      [Doc(<<T, [w EXCEPT !.retry = TRUE], Step>>, {E(1,1,2,1), E(2,1,3,1)})
         EXCEPT !.items = <<3, 1, 2, 3>>],
      \* A choose that has one side only, beside a wait.
      [Doc(<<T, If, w, N("choose")>>, {E(1,1,2,1), E(2,1,3,1), E(3,1,4,1), E(2,2,4,2)})
         EXCEPT !.items = <<1, 3>>],
      \* Two waits, one behind the other and one behind both.
      Doc(<<T, w, WaitEach, Wait, Merge>>,
          {E(1,1,2,1), E(2,1,3,1), E(1,1,4,1), E(3,1,5,1), E(4,1,5,2)})
     } : w \in Waits}

Graphs == SmallGraphs \cup Shapes

\* Both arms of an IF into one node, and that node into a Merge with the trigger.
Converging == {Doc(<<T, If, Step, Step, Step, Merge>>,
                   {E(1,1,2,1), E(2,1,3,1), E(2,2,4,1), E(3,1,5,1), E(4,1,5,1),
                    E(5,1,6,1), E(1,1,6,2)})}

=============================================================================
