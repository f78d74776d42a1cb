----------------------------- MODULE Deliveries -----------------------------
(***************************************************************************)
(* How a published workflow is started from outside: the webhook handler   *)
(* (internal/webhook), the host event fan-out (internal/hostevents), and   *)
(* the queue step of schedule and poll ticks, beside the administrators of *)
(* Publication.                                                            *)
(*                                                                         *)
(* A caller resolves its route or subscription, claims its delivery id,    *)
(* queues the run and records it on the claim; each database call is a     *)
(* step. A claim call is three statements outside a transaction. The       *)
(* queue's re-check of the publication and its insert are one step with a  *)
(* single writer and two without.                                          *)
(***************************************************************************)
EXTENDS Publication

CONSTANTS
    Caller,      \* calls under way
    DeliveryId,  \* delivery and event ids senders give
    MaxRuns,     \* bound: executions queued
    MaxFaults    \* bound: database calls that fail, claims that expire

ASSUME DeliveryAssumption == MaxRuns \in Nat /\ MaxFaults \in Nat

VARIABLES
    call,    \* each call: how far it is and what it has read
    claims,  \* webhook_deliveries and host_event_deliveries
    runs,    \* executions, in the order they were queued
    faults   \* faults so far

delVars == <<call, claims, runs, faults>>
vars == <<pubVars, delVars>>

\* A claim's key: one workflow and, per id, one route or event.
Key == {"webhook", "event"} \X DeliveryId

NoRun == 0
Call ==
    [pc : {"clear", "insert", "read", "queue", "commit", "record"},
     kind : Kind, id : DeliveryId, node : Node, version : Version,
     run : 0..MaxRuns, epoch : Nat]

\* What a call that is over told its sender.
Answered ==
    [pc : {"over"}, answer : {"ran", "inactive", "error"}] \cup
    [pc : {"over"}, answer : {"duplicate"}, kind : Kind, id : DeliveryId,
     run : 0..MaxRuns]

Idle == [pc |-> "idle"]

\* epoch tells the claims of one key apart; a call or a run without a claim
\* has epoch 0.
Claim == [there : BOOLEAN, expired : BOOLEAN, run : 0..MaxRuns, epoch : Nat]

Run == [kind : Kind, id : DeliveryId, node : Node, version : Version,
        epoch : Nat]

TypeOK ==
    /\ PubTypeOK
    /\ call \in [Caller -> Call \cup Answered \cup {Idle}]
    /\ claims \in [Key -> Claim]
    /\ runs \in Seq(Run) /\ Len(runs) <= MaxRuns
    /\ faults \in 0..MaxFaults

Init ==
    /\ PubInit
    /\ call = [c \in Caller |-> Idle]
    /\ claims = [k \in Key |->
          [there |-> FALSE, expired |-> FALSE, run |-> NoRun, epoch |-> 0]]
    /\ runs = <<>>
    /\ faults = 0

Fault == faults < MaxFaults /\ faults' = faults + 1

Goto(c, pc) == call' = [call EXCEPT ![c].pc = pc]

Answer(c, answer) ==
    call' = [call EXCEPT ![c] = [pc |-> "over", answer |-> answer]]

KeyOf(c) == <<call[c].kind, call[c].id>>

-----------------------------------------------------------------------------
(* A call begins. *)

Begins(c, kind, id, row, pc) ==
    /\ call[c].pc = "idle"
    /\ call' = [call EXCEPT ![c] =
          [pc |-> pc, kind |-> kind, id |-> id, node |-> row.node,
           version |-> row.version, run |-> NoRun, epoch |-> 0]]
    /\ UNCHANGED <<pubVars, claims, runs, faults>>

\* resolveBinding: the binding names its node and version.
ResolveWebhook(c, id) ==
    \E row \in hooks : Begins(c, "webhook", id, row, "clear")

\* HostEventSubscriptions: the first subscription of the workflow.
ListSubscriptions(c, id) ==
    \E row \in subs : Begins(c, "event", id, row, "clear")

\* A schedule tick claims a due row and reads the version its workflow is
\* pinned to.
ScheduleTick(c, id) ==
    /\ Live /\ pin # 0
    /\ \E r \in scheds :
          r.on /\ Begins(c, "schedule", id, [node |-> r.node, version |-> pin], "queue")

\* A poll tick does the same, and reads the version's document for its node.
PollTick(c, id) ==
    /\ Live /\ pin # 0 /\ pin \in stored
    /\ \E n \in polls : Begins(c, "poll", id, [node |-> n, version |-> pin], "queue")

-----------------------------------------------------------------------------
(* ClaimDelivery and ClaimEventDelivery. *)

ClearExpired(c) ==
    LET k == KeyOf(c) IN
    /\ call[c].pc = "clear"
    /\ claims' = [claims EXCEPT ![k].there = @ /\ ~claims[k].expired]
    /\ Goto(c, "insert")
    /\ UNCHANGED <<pubVars, runs, faults>>

\* Mutant: the insert takes the row over instead of failing on it.
InsertUpserts(c) ==
    LET k == KeyOf(c)
        epoch == claims[k].epoch + (IF claims[k].there THEN 0 ELSE 1) IN
    /\ call[c].pc = "insert"
    /\ claims' = [claims EXCEPT ![k] =
          [there |-> TRUE, expired |-> FALSE, run |-> NoRun, epoch |-> epoch]]
    /\ call' = [call EXCEPT ![c].pc = "queue", ![c].epoch = epoch]
    /\ UNCHANGED <<pubVars, runs, faults>>

\* The unique index lets one caller in.
InsertClaim(c) ==
    LET k == KeyOf(c)
        epoch == claims[k].epoch + 1 IN
    /\ call[c].pc = "insert"
    /\ IF claims[k].there
       THEN Goto(c, "read") /\ UNCHANGED claims
       ELSE /\ claims' = [claims EXCEPT ![k] =
                  [there |-> TRUE, expired |-> FALSE, run |-> NoRun, epoch |-> epoch]]
            /\ call' = [call EXCEPT ![c].pc = "queue", ![c].epoch = epoch]
    /\ UNCHANGED <<pubVars, runs, faults>>

\* The insert fails for another reason than the index, before it took effect or
\* after; the row is read all the same.
InsertFails(c) ==
    LET k == KeyOf(c) IN
    /\ call[c].pc = "insert" /\ Fault
    /\ \/ UNCHANGED claims
       \/ /\ ~claims[k].there
          /\ claims' = [claims EXCEPT ![k] =
                [there |-> TRUE, expired |-> FALSE, run |-> NoRun, epoch |-> @.epoch + 1]]
    /\ Goto(c, "read")
    /\ UNCHANGED <<pubVars, runs>>

\* The claim call fails: the webhook handler runs the delivery all the same,
\* the event call is an error.
Unclaimed(c) ==
    IF call[c].kind = "webhook" THEN Goto(c, "queue") ELSE Answer(c, "error")

\* A claim's delete or read fails.
ClaimFails(c) ==
    /\ call[c].pc \in {"clear", "read"} /\ Fault
    /\ Unclaimed(c)
    /\ UNCHANGED <<pubVars, claims, runs>>

\* The loser reads the winner's row. When that is gone the claim call fails.
ReadClaim(c) ==
    LET k == KeyOf(c) IN
    /\ call[c].pc = "read"
    /\ IF claims[k].there
       THEN call' = [call EXCEPT ![c] =
              [pc |-> "over", answer |-> "duplicate", kind |-> call[c].kind,
               id |-> call[c].id, run |-> claims[k].run]]
       ELSE Unclaimed(c)
    /\ UNCHANGED <<pubVars, claims, runs, faults>>

-----------------------------------------------------------------------------
(* QueueTriggered. *)

\* The workflow is active, and on the version the caller read.
StillPublished(c) == Live /\ pin = call[c].version

\* Mutant: the run executes whatever is published when it is inserted.
QueuedOnPin(c) == pin

\* The version a run executes is the one its caller's row was made for.
QueuedVersion(c) == call[c].version

\* The insert of the execution; its foreign key wants the version.
Inserted(c) ==
    /\ Len(runs) < MaxRuns /\ QueuedVersion(c) \in stored
    /\ runs' = Append(runs, [kind |-> call[c].kind, id |-> call[c].id,
          node |-> call[c].node, version |-> QueuedVersion(c),
          epoch |-> call[c].epoch])
    /\ executed' = executed \cup {QueuedVersion(c)}
    /\ call' = [call EXCEPT ![c].pc = "record", ![c].run = Len(runs) + 1]

\* The re-check passes: the run is inserted now, or, without a single writer,
\* a moment later.
QueueTriggered(c) ==
    /\ call[c].pc = "queue" /\ StillPublished(c)
    /\ IF backend = "sqlite" THEN Inserted(c)
       ELSE Goto(c, "commit") /\ UNCHANGED <<runs, executed>>
    /\ UNCHANGED <<backend, doc, stored, active, pin, deleted, tables, requests, audit,
                   admin, sweep, claims, faults>>

QueueCommit(c) ==
    /\ call[c].pc = "commit"
    /\ Inserted(c)
    /\ UNCHANGED <<backend, doc, stored, active, pin, deleted, tables, requests, audit,
                   admin, sweep, claims, faults>>

\* Not published any more: not found, which the event fan-out reports as
\* filtered and the webhook handler as a failure. The claim stays.
QueueRefused(c) ==
    /\ call[c].pc = "queue" /\ ~StillPublished(c)
    /\ Answer(c, IF call[c].kind = "webhook" THEN "error" ELSE "inactive")
    /\ UNCHANGED <<pubVars, claims, runs, faults>>

\* The database refuses the insert, or cannot be reached. The claim stays.
QueueFails(c) ==
    /\ call[c].pc \in {"queue", "commit"}
    /\ \/ Fault
       \/ call[c].pc = "commit" /\ call[c].version \notin stored /\ UNCHANGED faults
    /\ Answer(c, "error")
    /\ UNCHANGED <<pubVars, claims, runs>>

\* RecordDeliveryExecution, RecordEventExecution: by key, whoever holds it. An
\* error is not looked at.
RecordRun(c) ==
    LET k == KeyOf(c) IN
    /\ call[c].pc = "record"
    /\ \/ /\ claims' = IF k \in Key /\ claims[k].there
                       THEN [claims EXCEPT ![k].run = call[c].run] ELSE claims
          /\ UNCHANGED faults
       \/ Fault /\ UNCHANGED claims
    /\ Answer(c, "ran")
    /\ UNCHANGED <<pubVars, runs>>

\* The window of a claim passes.
ClaimExpires(k) ==
    /\ claims[k].there /\ ~claims[k].expired
    /\ Fault
    /\ claims' = [claims EXCEPT ![k].expired = TRUE]
    /\ UNCHANGED <<pubVars, call, runs>>

-----------------------------------------------------------------------------
Queue(c) == QueueTriggered(c) \/ QueueCommit(c) \/ QueueRefused(c) \/ QueueFails(c)

Next ==
    \/ PubNext /\ UNCHANGED delVars
    \/ \E c \in Caller : \E id \in DeliveryId :
          \/ ResolveWebhook(c, id)
          \/ ListSubscriptions(c, id)
          \/ ScheduleTick(c, id)
          \/ PollTick(c, id)
    \/ \E c \in Caller :
          \/ ClearExpired(c) \/ InsertClaim(c) \/ ReadClaim(c)
          \/ InsertFails(c) \/ ClaimFails(c)
          \/ Queue(c) \/ RecordRun(c)
    \/ \E k \in Key : ClaimExpires(k)

Spec == Init /\ [][Next]_vars

-----------------------------------------------------------------------------
(* Properties. *)

\* However many senders retry at once, a claim lets one run through. While no
\* claim expires and no database call fails, that is one run for one delivery;
\* otherwise two runs of one delivery lie on two claims, or one of them is a
\* webhook's whose claim call failed: the handler fails open, the event fan-out
\* never does. A duplicate is answered with a run of the same delivery, or with
\* none. Types included.
OneRunPerClaim ==
    /\ TypeOK
    /\ \A i, j \in DOMAIN runs :
          /\ <<runs[i].kind, runs[i].id>> = <<runs[j].kind, runs[j].id>>
          /\ <<runs[i].kind, runs[i].id>> \in Key
          /\ runs[i].epoch = runs[j].epoch /\ (runs[i].epoch # 0 \/ faults = 0)
          => i = j
    /\ \A i \in DOMAIN runs :
          <<runs[i].kind, runs[i].id>> \in Key /\ (faults = 0 \/ runs[i].kind = "event") =>
              runs[i].epoch # 0 /\ (faults = 0 => runs[i].epoch = 1)
    /\ \A c \in Caller :
          call[c].pc = "over" /\ call[c].answer = "duplicate" /\ call[c].run # NoRun =>
              runs[call[c].run].kind = call[c].kind /\ runs[call[c].run].id = call[c].id

\* A run started by a webhook, an event or a poll starts from a node that
\* triggers on it in the very version the run executes, though the route was
\* read before the workflow was published again.
StartsFromItsTrigger ==
    \A i \in DOMAIN runs :
        runs[i].kind # "schedule" => runs[i].node \in Triggers(runs[i].version, runs[i].kind)

=============================================================================
