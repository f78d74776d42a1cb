------------------------------ MODULE Compiler ------------------------------
(***************************************************************************)
(* The graphs a workflow document may describe, and the ones Compile       *)
(* accepts.                                                                *)
(*                                                                         *)
(* A node is its kind, which fixes its ports, and the shared settings the  *)
(* runner reads.  An edge joins an output to an input port; port 0 is the  *)
(* attachment port, which carries configuration (an agent's model), and    *)
(* the others carry items.  Node ids are also the canvas order.            *)
(*                                                                         *)
(* The catalogue, credentials, parameters and names of a node are not      *)
(* modelled: every node here has a registered type and a valid setup.      *)
(***************************************************************************)
EXTENDS Naturals, FiniteSets, Sequences

Attachment == 0

\* The item ports each kind declares.  A choose is a Merge in chooseBranch
\* mode; a flaky node is a step whose call can fail.
ItemInputs == [trigger |-> 0, step |-> 1, flaky |-> 1, if |-> 1, merge |-> 2,
               choose |-> 2, loop |-> 1, wait |-> 1, agent |-> 1,
               model |-> 0, note |-> 0]
ItemOutputs == [trigger |-> 1, step |-> 1, flaky |-> 1, if |-> 2, merge |-> 1,
                choose |-> 1, loop |-> 2, wait |-> 1, agent |-> 1,
                model |-> 0, note |-> 0]
Kind == DOMAIN ItemInputs

Node == [kind : Kind, disabled : BOOLEAN, pinned : BOOLEAN, once : BOOLEAN,
         always : BOOLEAN, retry : BOOLEAN, onError : {"stop", "continue", "branch"}]

KindOf(g, n) == g.nodes[n].kind
IsItemEdge(e) == e.port # Attachment

\* withErrorPort: a node that branches on error declares one more output.
ErrorPorts(g, n) == IF g.nodes[n].onError = "branch" THEN 1 ELSE 0
Outputs(g, n) ==
    (IF KindOf(g, n) = "model" THEN 1 ELSE ItemOutputs[KindOf(g, n)]) + ErrorPorts(g, n)

\* resolveEdge: both ports are declared, and of the same channel.
Resolves(g, e) ==
    /\ e.out \in 1 .. Outputs(g, e.from)
    /\ IF IsItemEdge(e)
         THEN KindOf(g, e.from) # "model" /\ e.port <= ItemInputs[KindOf(g, e.to)]
         ELSE KindOf(g, e.from) = "model" /\ KindOf(g, e.to) = "agent"

-----------------------------------------------------------------------------
(* Walking a graph. *)

\* The nodes reached from S along edges E, S included.
ReachableFrom(g, E, S) ==
    LET walk[k \in 0 .. Len(g.nodes)] ==
            IF k = 0 THEN S
            ELSE LET seen == walk[k - 1]
                 IN  seen \cup {e.to : e \in {f \in E : f.from \in seen}}
    IN  walk[Len(g.nodes)]

\* reaches: along at least one edge.
Reaches(g, E, n, m) == m \in ReachableFrom(g, E, {e.to : e \in {f \in E : f.from = n}})

\* The attachment providers of S, and the providers attached to those.
WithProviders(g, S) ==
    LET back[k \in 0 .. Len(g.nodes)] ==
            IF k = 0 THEN S
            ELSE LET seen == back[k - 1]
                 IN  seen \cup {e.from : e \in {f \in g.edges :
                                        ~IsItemEdge(f) /\ f.to \in seen}}
    IN  back[Len(g.nodes)]

-----------------------------------------------------------------------------
(* Compile. *)

\* loopClosingEdges: the target is a loop entry that reaches the source.
ClosesLoop(g, e) == KindOf(g, e.to) = "loop" /\ Reaches(g, g.edges, e.to, e.from)

\* illegalCycles: what is left once the returns of the loops are removed.
HasIllegalCycle(g) ==
    LET rest == {e \in g.edges : ~ClosesLoop(g, e)}
    IN  \E n \in DOMAIN g.nodes : Reaches(g, rest, n, n)

IsAnnotation(g, n) == KindOf(g, n) = "note"

\* validateExecutableTopology: every item input is fed, there is a root, and
\* no node is stranded.
IsExecutable(g) ==
    LET roots == {n \in DOMAIN g.nodes : KindOf(g, n) = "trigger"}
    IN  /\ \A n \in DOMAIN g.nodes : \A p \in 1 .. ItemInputs[KindOf(g, n)] :
              \E e \in g.edges : e.to = n /\ e.port = p
        /\ roots # {}
        /\ \A n \in DOMAIN g.nodes :
              \/ IsAnnotation(g, n)
              \/ n \in WithProviders(g, ReachableFrom(g, g.edges, roots))

\* validatePortCardinality: an agent has exactly one model.
HasOneModel(g, n) ==
    KindOf(g, n) = "agent" =>
        Cardinality({e \in g.edges : e.to = n /\ e.port = Attachment}) = 1

Compiles(g) ==
    /\ \A e \in g.edges : Resolves(g, e)
    /\ ~HasIllegalCycle(g)
    /\ IsExecutable(g)
    /\ \A n \in DOMAIN g.nodes : HasOneModel(g, n)

=============================================================================
