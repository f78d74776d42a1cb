---------------------------- MODULE Publication ----------------------------
(***************************************************************************)
(* internal/repository: one workflow's revisions, which of them is         *)
(* published, and the rows that route to it: webhook bindings, host event  *)
(* subscriptions, schedules and poll cursors.                              *)
(*                                                                         *)
(* SaveDraft, RestoreVersion, Publish, Deactivate and Delete hold the      *)
(* workflow's row for their whole transaction, so each commit is one step; *)
(* Deactivate reads the workflow before its transaction. A prune sweep     *)
(* takes no lock on the workflow: it is one step where the database has a  *)
(* single writer (SQLite) and two where it has not (PostgreSQL).           *)
(*                                                                         *)
(* A revision's number is its id. A document is what its nodes trigger on. *)
(* Schedules and polls keep their place here and their time elsewhere: a   *)
(* tick may come at any moment. Two schedules of one node in the same state *)
(* are one row here.                                                       *)
(***************************************************************************)
EXTENDS Integers, Sequences, FiniteSets

CONSTANTS
    Node,         \* ids of trigger nodes
    Doc,          \* documents
    KindOf,       \* KindOf[d][n]: what node n of document d triggers on
    Refused,      \* documents a publish refuses: they do not compile
    MaxRevision,  \* bound: revisions of the workflow
    MaxVersions,  \* RetentionPolicy.MaxVersions
    MaxRequests,  \* bound: requests of the schedules API
    Admin         \* concurrent Deactivate requests

Kind == {"webhook", "event", "schedule", "poll"}
Backend == {"sqlite", "postgres"}

ASSUME DocAssumption ==
    /\ KindOf \in [Doc -> [Node -> Kind \cup {"none"}]]
    /\ Refused \subseteq Doc
ASSUME RevisionAssumption == MaxRevision \in Nat \ {0} /\ MaxVersions \in Nat \ {0}
ASSUME RequestAssumption == MaxRequests \in Nat

VARIABLES
    backend,   \* which database the server runs on
    doc,       \* the document of each revision ever appended
    stored,    \* revisions not pruned
    active,    \* workflows.active
    pin,       \* workflows.active_version_id, 0 when null
    deleted,   \* workflows.deleted_at is set
    hooks,     \* webhook_bindings: node and version
    subs,      \* host_event_subscriptions: node and version
    scheds,    \* schedules: node, and whether the row is active
    polls,     \* poll_cursors: nodes
    edited,    \* nodes whose schedule rows were changed since the last publish,
               \* by a request or by a tick
    requests,  \* requests of the schedules API so far
    executed,  \* versions some execution refers to
    audit,     \* the last published or unpublished event
    admin,     \* what each Deactivate request has read
    sweep      \* versions a prune sweep has decided to delete

pubVars == <<backend, doc, stored, active, pin, deleted, hooks, subs, scheds,
             polls, edited, requests, executed, audit, admin, sweep>>
tables == <<hooks, subs, scheds, polls, edited>>

Version == 1..MaxRevision
Binding == [node : Node, version : Version]
ScheduleRow == [node : Node, on : BOOLEAN]
Event == [action : {"none", "published", "unpublished"}, version : Version \cup {0}]

PubTypeOK ==
    /\ backend \in Backend
    /\ doc \in Seq(Doc) /\ Len(doc) \in Version
    /\ stored \subseteq DOMAIN doc
    /\ active \in BOOLEAN /\ deleted \in BOOLEAN
    /\ pin \in DOMAIN doc \cup {0} /\ (active => pin # 0)
    /\ hooks \subseteq Binding /\ subs \subseteq Binding
    /\ scheds \subseteq ScheduleRow /\ polls \subseteq Node /\ edited \subseteq Node
    /\ requests \in 0..MaxRequests
    /\ executed \subseteq DOMAIN doc
    /\ audit \in Event
    /\ admin \in [Admin -> [read : BOOLEAN, pin : Version \cup {0}]]
    /\ sweep \subseteq DOMAIN doc

\* A workflow just saved for the first time.
PubInit ==
    /\ backend \in Backend
    /\ doc \in {<<d>> : d \in Doc}
    /\ stored = {1} /\ active = FALSE /\ pin = 0 /\ deleted = FALSE
    /\ hooks = {} /\ subs = {} /\ scheds = {} /\ polls = {} /\ edited = {}
    /\ requests = 0 /\ executed = {}
    /\ audit = [action |-> "none", version |-> 0]
    /\ admin = [a \in Admin |-> [read |-> FALSE, pin |-> 0]]
    /\ sweep = {}

-----------------------------------------------------------------------------
(* Revisions. *)

Latest == Len(doc)

\* Nodes of version v that trigger on kind.
Triggers(v, kind) == {n \in Node : KindOf[doc[v]][n] = kind}
Bindings(v, kind) == {[node |-> n, version |-> v] : n \in Triggers(v, kind)}

VersionsOf(rows) == {r.version : r \in rows}

\* Mutant: the versions webhook bindings name are not protected, nor the pin.
ProtectedByRuns(latest) == {latest} \cup executed

\* protectedVersionIDs: the pin, the latest revision, and every version an
\* execution or a webhook binding names.
Protected(latest) == ({pin} \ {0}) \cup {latest} \cup executed \cup VersionsOf(hooks)

\* prunePolicy: of the unprotected versions those with at least MaxVersions
\* newer ones, and those saved before a cutoff, given as a revision.
Doomed(have, latest, cutoff) ==
    {v \in have \ Protected(latest) :
        \/ Cardinality({w \in have : w > v}) >= MaxVersions
        \/ v <= cutoff}

\* appendVersion, and the count bound enforced in the same transaction.
Append1(d) ==
    LET next == Latest + 1 IN
    /\ ~deleted /\ next <= MaxRevision
    /\ doc' = Append(doc, d)
    /\ stored' = (stored \cup {next}) \ Doomed(stored \cup {next}, next, 0)
    /\ UNCHANGED <<backend, active, pin, deleted, tables, requests, executed, audit, admin, sweep>>

SaveDraft(d) == Append1(d)

RestoreVersion(v) == v \in stored /\ Append1(doc[v])

\* PruneAllVersions in one step.
PruneVersions(cutoff) ==
    /\ backend = "sqlite" /\ ~deleted
    /\ stored' = stored \ Doomed(stored, Latest, cutoff)
    /\ UNCHANGED <<backend, doc, active, pin, deleted, tables, requests, executed, audit, admin, sweep>>

\* The same in two: the versions to delete are chosen, and deleted later. An
\* execution queued in between makes the whole delete fail.
PruneRead(cutoff) ==
    /\ backend = "postgres" /\ ~deleted /\ sweep = {}
    /\ sweep' = Doomed(stored, Latest, cutoff)
    /\ UNCHANGED <<backend, doc, stored, active, pin, deleted, tables, requests, executed, audit, admin>>

PruneDelete ==
    /\ sweep # {}
    /\ stored' = IF sweep \cap executed = {} THEN stored \ sweep ELSE stored
    /\ sweep' = {}
    /\ UNCHANGED <<backend, doc, active, pin, deleted, tables, requests, executed, audit, admin>>

-----------------------------------------------------------------------------
(* Publishing. *)

\* removeSchedules: the rows of the document's own schedule triggers, or every
\* row when it has none.
KeptSchedules(nodes) == {r \in scheds : nodes # {} /\ r.node \notin nodes}

\* Mutant: a publish leaves the subscriptions of the version before.
SyncKeepsSubscriptions(v) ==
    /\ hooks' = Bindings(v, "webhook")
    /\ subs' = subs \cup Bindings(v, "event")
    /\ scheds' = KeptSchedules(Triggers(v, "schedule")) \cup
         {[node |-> n, on |-> TRUE] : n \in Triggers(v, "schedule")}
    /\ polls' = Triggers(v, "poll")
    /\ edited' = {}

\* Everything that routes to a workflow follows the version published.
Sync(v) ==
    /\ hooks' = Bindings(v, "webhook")
    /\ subs' = Bindings(v, "event")
    /\ scheds' = KeptSchedules(Triggers(v, "schedule")) \cup
         {[node |-> n, on |-> TRUE] : n \in Triggers(v, "schedule")}
    /\ polls' = Triggers(v, "poll")
    /\ edited' = {}

\* Publish of a named version, or of the latest.
Publish(v) ==
    /\ ~deleted /\ v \in stored /\ doc[v] \notin Refused
    /\ active' = TRUE /\ pin' = v
    /\ Sync(v)
    /\ audit' = [action |-> "published", version |-> v]
    /\ UNCHANGED <<backend, doc, stored, deleted, requests, executed, admin, sweep>>

\* Deactivate first reads the workflow; an inactive one is left alone.
DeactivateRead(a) ==
    /\ ~deleted /\ active /\ ~admin[a].read
    /\ admin' = [admin EXCEPT ![a] = [read |-> TRUE, pin |-> pin]]
    /\ UNCHANGED <<backend, doc, stored, active, pin, deleted, tables, requests, executed, audit, sweep>>

\* The audit event names the version read before the transaction.
Unpublished(a) == [action |-> "unpublished", version |-> admin[a].pin]

\* The transaction: rolled back when the workflow or its pinned version is
\* gone.
DeactivateCommit(a) ==
    /\ admin[a].read
    /\ admin' = [admin EXCEPT ![a] = [read |-> FALSE, pin |-> 0]]
    /\ IF deleted \/ pin \notin stored
       THEN UNCHANGED <<active, tables, audit>>
       ELSE /\ active' = FALSE
            /\ hooks' = {} /\ subs' = {} /\ polls' = {}
            /\ scheds' = KeptSchedules(Triggers(pin, "schedule"))
            /\ audit' = Unpublished(a)
            /\ UNCHANGED edited
    /\ UNCHANGED <<backend, doc, stored, pin, deleted, requests, executed, sweep>>

\* Delete leaves active, the pin, the schedules and the poll cursors behind.
Delete ==
    /\ ~deleted
    /\ deleted' = TRUE
    /\ hooks' = {} /\ subs' = {}
    /\ UNCHANGED <<backend, doc, stored, active, pin, scheds, polls, edited, requests,
                   executed, audit, admin, sweep>>

-----------------------------------------------------------------------------
(* Requests of the schedules API, for the rows of a publish and for others. *)

\* The schedules of one request or tick are written; nothing else is.
SchedulesBecome(rows, node) ==
    /\ scheds' = rows
    /\ edited' = edited \cup node
    /\ UNCHANGED <<backend, doc, stored, active, pin, deleted, hooks, subs, polls,
                   executed, audit, admin, sweep>>

Switched(r, on) == (scheds \ {r}) \cup {[r EXCEPT !.on = on]}

Request == requests < MaxRequests /\ requests' = requests + 1

\* Create, and the save of an Update whose row was removed after it was read:
\* either inserts a row.
CreateSchedule(n, on) ==
    Request /\ SchedulesBecome(scheds \cup {[node |-> n, on |-> on]}, {})

\* Neither asks whose row it is.
UpdateSchedule(r, on) ==
    r \in scheds /\ Request /\ SchedulesBecome(Switched(r, on), {r.node})

DeleteSchedule(r) ==
    r \in scheds /\ Request /\ SchedulesBecome(scheds \ {r}, {r.node})

-----------------------------------------------------------------------------
(* Rows a tick gives up. *)

Live == active /\ ~deleted

\* ClaimDue of schedules switches a row off: its workflow is not active any
\* more, or its expression has no later occurrence.
RetireSchedule(r) ==
    r.on /\ SchedulesBecome(Switched(r, FALSE), {r.node}) /\ UNCHANGED requests

\* ClaimDue of polls drops the row.
RetirePoll(n) ==
    /\ ~Live /\ n \in polls
    /\ polls' = polls \ {n}
    /\ UNCHANGED <<backend, doc, stored, active, pin, deleted, hooks, subs, scheds,
                   edited, requests, executed, audit, admin, sweep>>

-----------------------------------------------------------------------------
PubNext ==
    \/ \E d \in Doc : SaveDraft(d)
    \/ \E v \in Version : RestoreVersion(v)
    \/ \E cutoff \in {0} \cup Version : PruneVersions(cutoff)
    \/ \E cutoff \in {0} \cup Version : PruneRead(cutoff)
    \/ PruneDelete
    \/ \E v \in Version : Publish(v)
    \/ \E a \in Admin : DeactivateRead(a)
    \/ \E a \in Admin : DeactivateCommit(a)
    \/ Delete
    \/ \E n \in Node : \E on \in BOOLEAN : CreateSchedule(n, on)
    \/ \E r \in scheds : \E on \in BOOLEAN : UpdateSchedule(r, on)
    \/ \E r \in scheds : DeleteSchedule(r)
    \/ \E r \in scheds : RetireSchedule(r)
    \/ \E n \in polls : RetirePoll(n)

-----------------------------------------------------------------------------
(* Properties. *)

\* Between any two commits the rows route exactly to the published version: a
\* live workflow answers on every trigger of its pinned document and on no
\* other webhook, event or poll, and one that is not live answers on no webhook
\* and hears no event ("there is never a window where a workflow is active but
\* unroutable, or the reverse", publish). A schedule trigger has its active row
\* unless a request switched it off or removed it since the publish, or a tick
\* found it without a later occurrence. The last publish event says whether the
\* workflow is live ("the audit row is now what says whether the workflow is
\* live", Deactivate), however many requests raced.
RoutesFollowPublication ==
    /\ ~deleted => (active <=> audit.action = "published")
    /\ IF Live
       THEN /\ hooks = Bindings(pin, "webhook")
            /\ subs = Bindings(pin, "event")
            /\ polls = Triggers(pin, "poll")
            /\ \A n \in Triggers(pin, "schedule") \ edited :
                  \E r \in scheds : r.node = n /\ r.on
       ELSE hooks = {} /\ subs = {}

\* No prune deletes a revision something still names. On PostgreSQL only the
\* foreign key of executions guarantees that, since a sweep chooses before it
\* deletes.
NothingNamedIsPruned ==
    /\ Latest \in stored
    /\ executed \subseteq stored
    /\ backend = "sqlite" => ({pin} \ {0}) \cup VersionsOf(hooks \cup subs) \subseteq stored

=============================================================================
