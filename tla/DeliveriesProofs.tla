-------------------------- MODULE DeliveriesProofs --------------------------
(***************************************************************************)
(* Proofs about publication and delivery for every set of documents,       *)
(* callers, administrators and delivery ids, and any number of revisions.  *)
(***************************************************************************)
EXTENDS Deliveries, TLAPS

-----------------------------------------------------------------------------
(* Publication. *)

\* What a pending sweep may delete: never the latest revision, which only
\* grows; a database with a single writer has no pending sweep.
SweepInv == Latest \notin sweep /\ (backend = "sqlite" => sweep = {})

PubInv == PubTypeOK /\ RoutesFollowPublication /\ NothingNamedIsPruned /\ SweepInv

\* prunePolicy spares what protectedVersionIDs names.
LEMMA DoomedSpares ==
  ASSUME NEW have, NEW latest, NEW cutoff
  PROVE  Doomed(have, latest, cutoff) \subseteq have \ Protected(latest)
  BY DEF Doomed

\* Numbers of revisions.
LEMMA LatestType ==
  ASSUME PubTypeOK
  PROVE  /\ doc \in Seq(Doc) /\ Latest \in Nat \ {0} /\ Latest <= MaxRevision
         /\ DOMAIN doc = 1 .. Latest /\ Latest \in DOMAIN doc /\ DOMAIN doc \subseteq Version
  BY RevisionAssumption DEF PubTypeOK, Version, Latest

\* A new revision leaves the documents of the others alone.
LEMMA AppendDoc ==
  ASSUME PubTypeOK, NEW d \in Doc, Latest + 1 <= MaxRevision, doc' = Append(doc, d)
  PROVE  /\ doc' \in Seq(Doc) /\ Latest' = Latest + 1 /\ Latest' \in Version
         /\ DOMAIN doc' = DOMAIN doc \cup {Latest + 1} /\ Latest + 1 \notin DOMAIN doc
         /\ \A v \in DOMAIN doc : doc'[v] = doc[v]
  BY LatestType, RevisionAssumption DEF Latest, Version

\* A subscription names the pinned version, so protecting the pin and the
\* webhook bindings protects the subscriptions too.
LEMMA SubsNamePin ==
  ASSUME PubTypeOK, RoutesFollowPublication
  PROVE  VersionsOf(hooks \cup subs) \subseteq ({pin} \ {0}) \cup VersionsOf(hooks)
  <1>1. Live => subs = Bindings(pin, "event") /\ pin # 0
    BY DEF RoutesFollowPublication, PubTypeOK, Live
  <1>2. ~Live => subs = {}
    BY DEF RoutesFollowPublication
  <1>3. VersionsOf(subs) \subseteq {pin} \ {0}
    BY <1>1, <1>2 DEF VersionsOf, Bindings
  <1> QED
    BY <1>3 DEF VersionsOf

\* SaveDraft and RestoreVersion.
LEMMA AppendPub ==
  ASSUME PubInv, NEW d \in Doc, Append1(d)
  PROVE  PubInv'
  <1> DEFINE next == Latest + 1
             dead == Doomed(stored \cup {next}, next, 0)
  <1>0. /\ PubTypeOK /\ RoutesFollowPublication /\ NothingNamedIsPruned /\ SweepInv
        /\ next <= MaxRevision /\ doc' = Append(doc, d) /\ stored' = (stored \cup {next}) \ dead
        /\ UNCHANGED <<backend, active, pin, deleted, hooks, subs, scheds, polls, edited,
                       requests, executed, audit, admin, sweep>>
    BY DEF PubInv, Append1, tables
  <1>1. /\ doc' \in Seq(Doc) /\ Latest' = next /\ next \in Version /\ Latest \in Nat
        /\ DOMAIN doc' = DOMAIN doc \cup {next} /\ next \notin DOMAIN doc
        /\ \A v \in DOMAIN doc : doc'[v] = doc[v]
    BY <1>0, AppendDoc, LatestType
  <1>2. dead \subseteq (stored \cup {next}) \ Protected(next)
    BY DoomedSpares
  <1> HIDE DEF next, dead
  <1>t. PubTypeOK'
    BY <1>0, <1>1 DEF PubTypeOK, Latest
  <1>p. pin \in DOMAIN doc \cup {0} /\ (active => pin \in DOMAIN doc) /\ sweep \subseteq DOMAIN doc
    BY <1>0 DEF PubTypeOK
  <1>r. RoutesFollowPublication'
    <2>1. active => \A kind \in Kind : Triggers(pin, kind)' = Triggers(pin, kind)
      BY <1>0, <1>1, <1>p DEF Triggers
    <2>2. active => \A kind \in Kind : Bindings(pin, kind)' = Bindings(pin, kind)
      BY <1>0, <2>1 DEF Bindings
    <2> QED
      BY <1>0, <2>1, <2>2 DEF RoutesFollowPublication, Live, Kind
  <1>n. NothingNamedIsPruned'
    <2>1. next \in stored' /\ executed \subseteq stored'
      BY <1>0, <1>2 DEF Protected, NothingNamedIsPruned
    <2>2. backend = "sqlite" => ({pin} \ {0}) \cup VersionsOf(hooks \cup subs) \subseteq stored'
      <3>1. ({pin} \ {0}) \cup VersionsOf(hooks) \subseteq Protected(next)
        BY DEF Protected
      <3> QED
        BY <1>0, <1>2, <3>1, SubsNamePin DEF NothingNamedIsPruned
    <2> QED
      BY <1>0, <1>1, <2>1, <2>2 DEF NothingNamedIsPruned, VersionsOf
  <1>s. SweepInv'
    BY <1>0, <1>1, <1>p DEF SweepInv
  <1> QED
    BY <1>t, <1>r, <1>n, <1>s DEF PubInv

\* Steps after which the same version is published, in the same state.
LEMMA RoutesKept ==
  ASSUME RoutesFollowPublication,
         UNCHANGED <<doc, active, pin, deleted, hooks, subs, scheds, polls, edited, audit>>
  PROVE  RoutesFollowPublication'
  BY DEF RoutesFollowPublication, Live, Bindings, Triggers

\* A sweep on a database with a single writer.
LEMMA PruneVersionsPub ==
  ASSUME PubInv, NEW cutoff, PruneVersions(cutoff)
  PROVE  PubInv'
  <1> DEFINE dead == Doomed(stored, Latest, cutoff)
  <1>0. /\ PubTypeOK /\ RoutesFollowPublication /\ NothingNamedIsPruned /\ SweepInv
        /\ stored' = stored \ dead
        /\ UNCHANGED <<backend, doc, active, pin, deleted, hooks, subs, scheds, polls, edited,
                       requests, executed, audit, admin, sweep>>
    BY DEF PubInv, PruneVersions, tables
  <1>1. dead \subseteq stored \ Protected(Latest)
    BY DoomedSpares
  <1> HIDE DEF dead
  <1>t. PubTypeOK'
    BY <1>0 DEF PubTypeOK
  <1>r. RoutesFollowPublication'
    BY <1>0, RoutesKept
  <1>n. NothingNamedIsPruned'
    <2>1. Latest \in stored' /\ executed \subseteq stored'
      BY <1>0, <1>1 DEF Protected, NothingNamedIsPruned
    <2>2. backend = "sqlite" => ({pin} \ {0}) \cup VersionsOf(hooks \cup subs) \subseteq stored'
      <3>1. ({pin} \ {0}) \cup VersionsOf(hooks) \subseteq Protected(Latest)
        BY DEF Protected
      <3> QED
        BY <1>0, <1>1, <3>1, SubsNamePin DEF NothingNamedIsPruned
    <2> QED
      BY <1>0, <2>1, <2>2 DEF NothingNamedIsPruned, VersionsOf, Latest
  <1>s. SweepInv'
    BY <1>0 DEF SweepInv, Latest
  <1> QED
    BY <1>t, <1>r, <1>n, <1>s DEF PubInv

\* A sweep on a database without: the choice, and the delete, which fails as a
\* whole when an execution names a version it chose.
LEMMA PruneReadPub ==
  ASSUME PubInv, NEW cutoff, PruneRead(cutoff)
  PROVE  PubInv'
  <1>0. /\ PubTypeOK /\ RoutesFollowPublication /\ NothingNamedIsPruned /\ SweepInv
        /\ backend = "postgres" /\ sweep' = Doomed(stored, Latest, cutoff)
        /\ UNCHANGED <<backend, doc, stored, active, pin, deleted, hooks, subs, scheds, polls,
                       edited, requests, executed, audit, admin>>
    BY DEF PubInv, PruneRead, tables
  <1>1. sweep' \subseteq stored \ Protected(Latest)
    BY <1>0, DoomedSpares
  <1>t. PubTypeOK'
    BY <1>0, <1>1 DEF PubTypeOK
  <1>r. RoutesFollowPublication'
    BY <1>0, RoutesKept
  <1>n. NothingNamedIsPruned'
    BY <1>0 DEF NothingNamedIsPruned, VersionsOf, Latest
  <1>s. SweepInv'
    BY <1>0, <1>1 DEF SweepInv, Latest, Protected
  <1> QED
    BY <1>t, <1>r, <1>n, <1>s DEF PubInv

LEMMA PruneDeletePub ==
  ASSUME PubInv, PruneDelete
  PROVE  PubInv'
  <1>0. /\ PubTypeOK /\ RoutesFollowPublication /\ NothingNamedIsPruned /\ SweepInv
        /\ sweep # {} /\ sweep' = {}
        /\ stored' = IF sweep \cap executed = {} THEN stored \ sweep ELSE stored
        /\ UNCHANGED <<backend, doc, active, pin, deleted, hooks, subs, scheds, polls,
                       edited, requests, executed, audit, admin>>
    BY DEF PubInv, PruneDelete, tables
  <1>t. PubTypeOK'
    BY <1>0 DEF PubTypeOK
  <1>r. RoutesFollowPublication'
    BY <1>0, RoutesKept
  <1>n. NothingNamedIsPruned'
    BY <1>0 DEF NothingNamedIsPruned, VersionsOf, Latest, SweepInv
  <1>s. SweepInv'
    BY <1>0 DEF SweepInv, Latest
  <1> QED
    BY <1>t, <1>r, <1>n, <1>s DEF PubInv

\* The rows a publish writes are those of its version.
LEMMA SyncType ==
  ASSUME PubTypeOK, NEW v \in Version, Sync(v)
  PROVE  /\ hooks' \subseteq Binding /\ subs' \subseteq Binding
         /\ scheds' \subseteq ScheduleRow /\ polls' \subseteq Node /\ edited' = {}
  <1>1. hooks' \subseteq Binding /\ subs' \subseteq Binding /\ polls' \subseteq Node
    BY DEF Sync, Bindings, Triggers, Binding
  <1>2. {[node |-> n, on |-> TRUE] : n \in Triggers(v, "schedule")} \subseteq ScheduleRow
    <2>1. ASSUME NEW n \in Node PROVE [node |-> n, on |-> TRUE] \in ScheduleRow
      BY DEF ScheduleRow
    <2> QED
      BY <2>1 DEF Triggers
  <1>3. KeptSchedules(Triggers(v, "schedule")) \subseteq ScheduleRow
    BY DEF PubTypeOK, KeptSchedules
  <1> QED
    BY <1>1, <1>2, <1>3 DEF Sync

LEMMA PublishPub ==
  ASSUME PubInv, NEW v \in Version, Publish(v)
  PROVE  PubInv'
  <1>0. /\ PubTypeOK /\ NothingNamedIsPruned /\ SweepInv
        /\ ~deleted /\ v \in stored /\ active' = TRUE /\ pin' = v /\ Sync(v)
        /\ audit' = [action |-> "published", version |-> v]
        /\ UNCHANGED <<backend, doc, stored, deleted, requests, executed, admin, sweep>>
    BY DEF PubInv, Publish
  <1>1. v # 0 /\ v \in DOMAIN doc
    BY <1>0 DEF Version, PubTypeOK
  <1>t. PubTypeOK'
    BY <1>0, <1>1, SyncType DEF PubTypeOK, Event
  <1>r. RoutesFollowPublication'
    <2>1. /\ Bindings(pin, "webhook")' = Bindings(v, "webhook")
          /\ Bindings(pin, "event")' = Bindings(v, "event")
          /\ Triggers(pin, "poll")' = Triggers(v, "poll")
          /\ Triggers(pin, "schedule")' = Triggers(v, "schedule")
      BY <1>0 DEF Bindings, Triggers
    <2>2. ASSUME NEW n \in Triggers(v, "schedule") PROVE \E r \in scheds' : r.node = n /\ r.on
      <3>1. [node |-> n, on |-> TRUE] \in scheds'
        BY <1>0 DEF Sync
      <3> QED
        BY <3>1
    <2> QED
      BY <1>0, <2>1, <2>2 DEF RoutesFollowPublication, Live, Sync
  <1>n. NothingNamedIsPruned'
    BY <1>0 DEF NothingNamedIsPruned, VersionsOf, Latest, Sync, Bindings
  <1>s. SweepInv'
    BY <1>0 DEF SweepInv, Latest
  <1> QED
    BY <1>t, <1>r, <1>n, <1>s DEF PubInv

LEMMA DeactivatePub ==
  ASSUME PubInv, NEW a \in Admin, DeactivateRead(a) \/ DeactivateCommit(a)
  PROVE  PubInv'
  <1>0. /\ PubTypeOK /\ RoutesFollowPublication /\ NothingNamedIsPruned /\ SweepInv
        /\ UNCHANGED <<backend, doc, stored, pin, deleted, requests, executed, sweep>>
    BY DEF PubInv, DeactivateRead, DeactivateCommit, tables
  <1>1. \/ UNCHANGED <<active, hooks, subs, scheds, polls, edited, audit>>
        \/ /\ active' = FALSE /\ hooks' = {} /\ subs' = {} /\ polls' = {}
           /\ scheds' = KeptSchedules(Triggers(pin, "schedule"))
           /\ audit' = Unpublished(a) /\ UNCHANGED edited
    BY DEF DeactivateRead, DeactivateCommit, tables
  <1>2. admin' \in [Admin -> [read : BOOLEAN, pin : Version \cup {0}]]
    <2>1. pin \in Version \cup {0} /\ admin \in [Admin -> [read : BOOLEAN, pin : Version \cup {0}]]
      BY LatestType, <1>0 DEF PubTypeOK
    <2>2. CASE DeactivateRead(a)
      <3>1. admin' = [admin EXCEPT ![a] = [read |-> TRUE, pin |-> pin]]
        BY <2>2 DEF DeactivateRead
      <3> QED
        BY <2>1, <3>1
    <2>3. CASE DeactivateCommit(a)
      <3>1. admin' = [admin EXCEPT ![a] = [read |-> FALSE, pin |-> 0]]
        BY <2>3 DEF DeactivateCommit
      <3> QED
        BY <2>1, <3>1
    <2> QED
      BY <2>2, <2>3
  <1>3. Unpublished(a) \in Event /\ Unpublished(a).action = "unpublished"
    BY <1>0 DEF Unpublished, Event, PubTypeOK
  <1>t. PubTypeOK'
    <2>1. CASE UNCHANGED <<active, hooks, subs, scheds, polls, edited, audit>>
      BY <1>0, <1>2, <2>1 DEF PubTypeOK
    <2>2. CASE ~UNCHANGED <<active, hooks, subs, scheds, polls, edited, audit>>
      <3>1. scheds' \subseteq scheds /\ active' = FALSE /\ hooks' = {} /\ subs' = {} /\ polls' = {}
            /\ audit' = Unpublished(a) /\ UNCHANGED edited
        BY <1>1, <2>2 DEF KeptSchedules
      <3> QED
        BY <1>0, <1>2, <1>3, <3>1 DEF PubTypeOK
    <2> QED
      BY <2>1, <2>2
  <1>r. RoutesFollowPublication'
    <2>1. CASE UNCHANGED <<active, hooks, subs, scheds, polls, edited, audit>>
      BY <1>0, <2>1, RoutesKept
    <2>2. CASE active' = FALSE /\ hooks' = {} /\ subs' = {} /\ audit' = Unpublished(a)
      BY <1>0, <1>3, <2>2 DEF RoutesFollowPublication, Live
    <2> QED
      BY <1>1, <2>1, <2>2
  <1>n. NothingNamedIsPruned'
    BY <1>0, <1>1 DEF NothingNamedIsPruned, VersionsOf, Latest
  <1>s. SweepInv'
    BY <1>0 DEF SweepInv, Latest
  <1> QED
    BY <1>t, <1>r, <1>n, <1>s DEF PubInv

LEMMA DeletePub ==
  ASSUME PubInv, Delete
  PROVE  PubInv'
  <1>t. PubTypeOK'
    BY DEF PubInv, PubTypeOK, Delete
  <1>r. RoutesFollowPublication'
    BY DEF RoutesFollowPublication, Live, Delete
  <1>n. NothingNamedIsPruned'
    BY DEF PubInv, NothingNamedIsPruned, VersionsOf, Latest, Delete
  <1>s. SweepInv'
    BY DEF PubInv, SweepInv, Latest, Delete
  <1> QED
    BY <1>t, <1>r, <1>n, <1>s DEF PubInv

\* Schedules written by a request or a tick: of the rows of other nodes none
\* goes.
LEMMA SchedulesPub ==
  ASSUME PubInv, NEW rows \in SUBSET ScheduleRow, NEW node \in SUBSET Node,
         SchedulesBecome(rows, node), requests' \in 0..MaxRequests,
         \A r \in scheds : r.node \notin node => r \in rows
  PROVE  PubInv'
  <1>0. /\ PubTypeOK /\ RoutesFollowPublication /\ NothingNamedIsPruned /\ SweepInv
        /\ scheds' = rows /\ edited' = edited \cup node
        /\ UNCHANGED <<backend, doc, stored, active, pin, deleted, hooks, subs, polls, executed,
                       audit, admin, sweep>>
    BY DEF PubInv, SchedulesBecome
  <1>t. PubTypeOK'
    BY <1>0 DEF PubTypeOK
  <1>r. RoutesFollowPublication'
    <2>1. /\ \A kind \in Kind : Triggers(pin, kind)' = Triggers(pin, kind)
          /\ \A kind \in Kind : Bindings(pin, kind)' = Bindings(pin, kind)
      BY <1>0 DEF Triggers, Bindings
    <2>2. ASSUME Live, NEW n \in Triggers(pin, "schedule") \ edited'
          PROVE  \E r \in scheds' : r.node = n /\ r.on
      <3>1. PICK r \in scheds : r.node = n /\ r.on
        BY <1>0, <2>2 DEF RoutesFollowPublication
      <3> QED
        BY <1>0, <2>2, <3>1
    <2> QED
      BY <1>0, <2>1, <2>2 DEF RoutesFollowPublication, Live, Kind
  <1>n. NothingNamedIsPruned'
    BY <1>0 DEF NothingNamedIsPruned, VersionsOf, Latest
  <1>s. SweepInv'
    BY <1>0 DEF SweepInv, Latest
  <1> QED
    BY <1>t, <1>r, <1>n, <1>s DEF PubInv

\* The requests of the schedules API, and a tick that gives up a schedule.
LEMMA SchedulePub ==
  ASSUME PubInv,
         \/ \E n \in Node : \E on \in BOOLEAN : CreateSchedule(n, on)
         \/ \E r \in scheds : \E on \in BOOLEAN : UpdateSchedule(r, on)
         \/ \E r \in scheds : DeleteSchedule(r)
         \/ \E r \in scheds : RetireSchedule(r)
  PROVE  PubInv'
  <1>1. scheds \subseteq ScheduleRow /\ requests \in 0..MaxRequests
    BY DEF PubInv, PubTypeOK
  <1>2. Request \/ UNCHANGED requests => requests' \in 0..MaxRequests
    BY <1>1, RequestAssumption DEF Request
  <1>3. ASSUME NEW n \in Node, NEW on \in BOOLEAN, CreateSchedule(n, on) PROVE PubInv'
    <2>1. scheds \cup {[node |-> n, on |-> on]} \in SUBSET ScheduleRow
      BY <1>1 DEF ScheduleRow
    <2>2. \A r \in scheds : r.node \notin {} => r \in scheds \cup {[node |-> n, on |-> on]}
      OBVIOUS
    <2> QED
      BY <1>2, <1>3, <2>1, <2>2, SchedulesPub DEF CreateSchedule
  <1>4. ASSUME NEW r \in scheds, NEW on \in BOOLEAN
        PROVE  /\ Switched(r, on) \in SUBSET ScheduleRow /\ r.node \in Node
               /\ \A q \in scheds : q.node \notin {r.node} => q \in Switched(r, on)
    <2>1. r \in ScheduleRow
      BY <1>1
    <2>2. [r EXCEPT !.on = on] \in ScheduleRow /\ r.node \in Node
      BY <2>1 DEF ScheduleRow
    <2> QED
      BY <1>1, <2>2 DEF Switched
  <1>5. ASSUME NEW r \in scheds, NEW on \in BOOLEAN, UpdateSchedule(r, on) PROVE PubInv'
    BY <1>2, <1>4, <1>5, SchedulesPub DEF UpdateSchedule
  <1>6. ASSUME NEW r \in scheds, RetireSchedule(r) PROVE PubInv'
    <2>1. SchedulesBecome(Switched(r, FALSE), {r.node}) /\ UNCHANGED requests
      BY <1>6 DEF RetireSchedule
    <2>2. /\ Switched(r, FALSE) \in SUBSET ScheduleRow /\ {r.node} \in SUBSET Node
          /\ \A q \in scheds : q.node \notin {r.node} => q \in Switched(r, FALSE)
      BY <1>4
    <2> QED
      BY <1>2, <1>4, <2>1, <2>2, SchedulesPub
  <1>7. ASSUME NEW r \in scheds, DeleteSchedule(r) PROVE PubInv'
    <2>1. SchedulesBecome(scheds \ {r}, {r.node}) /\ Request
      BY <1>7 DEF DeleteSchedule
    <2>2. \A q \in scheds : q.node \notin {r.node} => q \in scheds \ {r}
      OBVIOUS
    <2>3. scheds \ {r} \in SUBSET ScheduleRow /\ {r.node} \in SUBSET Node
      BY <1>1, <1>4
    <2> QED
      BY <1>2, <2>1, <2>2, <2>3, SchedulesPub
  <1> QED
    BY <1>3, <1>5, <1>6, <1>7

\* A poll tick that finds the workflow gone.
LEMMA RetirePollPub ==
  ASSUME PubInv, NEW n \in polls, RetirePoll(n)
  PROVE  PubInv'
  <1>0. /\ PubTypeOK /\ RoutesFollowPublication /\ NothingNamedIsPruned /\ SweepInv /\ ~Live
        /\ polls' \subseteq polls
        /\ UNCHANGED <<backend, doc, stored, active, pin, deleted, hooks, subs, scheds, edited,
                       requests, executed, audit, admin, sweep>>
    BY DEF PubInv, RetirePoll
  <1>t. PubTypeOK'
    BY <1>0 DEF PubTypeOK
  <1>r. RoutesFollowPublication'
    BY <1>0 DEF RoutesFollowPublication, Live
  <1>n. NothingNamedIsPruned'
    BY <1>0 DEF NothingNamedIsPruned, VersionsOf, Latest
  <1>s. SweepInv'
    BY <1>0 DEF SweepInv, Latest
  <1> QED
    BY <1>t, <1>r, <1>n, <1>s DEF PubInv

LEMMA PubNextInv ==
  ASSUME PubInv, PubNext
  PROVE  PubInv'
  <1>1. ASSUME NEW d \in Doc, SaveDraft(d) PROVE PubInv'
    BY <1>1, AppendPub DEF SaveDraft
  <1>2. ASSUME NEW v \in Version, RestoreVersion(v) PROVE PubInv'
    <2>1. doc[v] \in Doc
      BY <1>2, LatestType DEF RestoreVersion, PubInv, PubTypeOK
    <2> QED
      BY <1>2, <2>1, AppendPub DEF RestoreVersion
  <1> QED
    BY <1>1, <1>2, PruneVersionsPub, PruneReadPub, PruneDeletePub, PublishPub, DeactivatePub,
       DeletePub, SchedulePub, RetirePollPub DEF PubNext

\* Steps of callers leave the publication alone, or name a stored version.
LEMMA PubKept ==
  ASSUME PubInv, UNCHANGED <<backend, doc, stored, active, pin, deleted, tables, requests, audit, admin, sweep>>,
         executed \subseteq executed', executed' \subseteq stored
  PROVE  PubInv'
  <1>0. UNCHANGED <<backend, doc, stored, active, pin, deleted, hooks, subs, scheds, polls, edited,
                    requests, audit, admin, sweep>>
    BY DEF tables
  <1>t. PubTypeOK'
    BY <1>0 DEF PubInv, PubTypeOK
  <1>r. RoutesFollowPublication'
    BY <1>0, RoutesKept DEF PubInv
  <1>n. NothingNamedIsPruned'
    BY <1>0 DEF PubInv, NothingNamedIsPruned, VersionsOf, Latest
  <1>s. SweepInv'
    BY <1>0 DEF PubInv, SweepInv, Latest
  <1> QED
    BY <1>t, <1>r, <1>n, <1>s DEF PubInv

LEMMA PubInitInv == PubInit => PubInv
  <1> SUFFICES ASSUME PubInit PROVE PubInv
    OBVIOUS
  <1>1. PICK d \in Doc : doc = <<d>>
    BY DEF PubInit
  <1>2. doc \in Seq(Doc) /\ Len(doc) = 1 /\ DOMAIN doc = {1} /\ 1 \in Version
    BY <1>1, RevisionAssumption DEF Version
  <1>3. requests \in 0..MaxRequests
    BY RequestAssumption DEF PubInit
  <1>t. PubTypeOK
    BY <1>2, <1>3 DEF PubInit, PubTypeOK, Event
  <1>r. RoutesFollowPublication
    BY DEF PubInit, RoutesFollowPublication, Live
  <1>n. NothingNamedIsPruned
    BY <1>2 DEF PubInit, NothingNamedIsPruned, VersionsOf, Latest
  <1>s. SweepInv
    BY DEF PubInit, SweepInv
  <1> QED
    BY <1>t, <1>r, <1>n, <1>s DEF PubInv

-----------------------------------------------------------------------------
(* Deliveries. *)

\* The delivery a call or a run answers.
Served(x) == <<x.kind, x.id>>

\* A call or a run was routed by the version it is for.
Routed(x) ==
  /\ x.version \in DOMAIN doc
  /\ x.kind # "schedule" => x.node \in Triggers(x.version, x.kind)

\* The claim of a call or a run was made.
EpochKnown(x) == x.epoch # 0 => Served(x) \in Key /\ x.epoch <= claims[Served(x)].epoch

\* A webhook or event call queues on a claim; only a webhook's whose claim call
\* failed queues without.
Claimed(x) ==
  x.kind \in {"webhook", "event"} /\ x.epoch = 0 => x.kind = "webhook" /\ faults > 0

\* Run n is of delivery k.
RunIs(n, k) == n \in DOMAIN runs /\ Served(runs[n]) = k

GoodCall(x) ==
  /\ x.pc # "over" => Routed(x) /\ EpochKnown(x)
  /\ x.pc \in {"clear", "insert", "read"} => Served(x) \in Key /\ x.epoch = 0
  /\ x.pc = "read" => faults > 0 \/ claims[Served(x)].there
  /\ x.pc \in {"queue", "commit"} => Claimed(x)
  /\ x.pc = "record" => RunIs(x.run, Served(x))
  /\ x.pc = "over" => (x.answer = "duplicate" /\ x.run # NoRun => RunIs(x.run, Served(x)))

GoodRun(x) == Routed(x) /\ EpochKnown(x) /\ Claimed(x)

\* While nothing fails and no window passes, a delivery's first claim stays.
FirstClaim(q) == ~q.expired /\ q.epoch <= 1 /\ (q.there \/ q.epoch = 0)

GoodClaim(k) ==
  /\ claims[k].run # NoRun => RunIs(claims[k].run, k)
  /\ faults = 0 => FirstClaim(claims[k])

\* A call that owns a claim and has not queued its run.
Holding(x) == x.pc \in {"queue", "commit"} /\ x.epoch # 0

SameClaim(x, y) == Served(x) = Served(y) /\ x.epoch = y.epoch

\* A claim is held by one call, or has one run, and never both.
Unique ==
  /\ \A c, d \in Caller : Holding(call[c]) /\ Holding(call[d]) /\ SameClaim(call[c], call[d]) => c = d
  /\ \A c \in Caller, i \in DOMAIN runs : Holding(call[c]) => ~SameClaim(runs[i], call[c])
  /\ \A i, j \in DOMAIN runs : SameClaim(runs[i], runs[j]) /\ runs[i].epoch # 0 => i = j

DelInv ==
  /\ PubInv /\ TypeOK
  /\ \A c \in Caller : call[c].pc # "idle" => GoodCall(call[c])
  /\ \A i \in DOMAIN runs : GoodRun(runs[i])
  /\ \A k \in Key : GoodClaim(k)
  /\ Unique

\* What every step keeps: the documents of revisions, the runs, the epochs, and
\* while nothing fails the claims.
DocsKept == /\ DOMAIN doc \subseteq DOMAIN doc'
            /\ \A v \in DOMAIN doc : doc'[v] = doc[v]
RunsKept == /\ DOMAIN runs \subseteq DOMAIN runs'
            /\ \A i \in DOMAIN runs : runs'[i] = runs[i]
EpochsKept == /\ claims \in [Key -> Claim] /\ claims' \in [Key -> Claim]
              /\ \A k \in Key : claims[k].epoch <= claims'[k].epoch
              /\ faults \in Nat /\ faults' \in Nat /\ faults <= faults'
              /\ faults' = 0 => \A k \in Key : claims[k].there => claims'[k].there

LEMMA RoutedKept ==
  ASSUME NEW x, Routed(x), DocsKept
  PROVE  Routed(x)'
  BY DEF Routed, DocsKept, Triggers

LEMMA EpochKnownKept ==
  ASSUME NEW x, x.epoch \in Nat, EpochKnown(x), EpochsKept
  PROVE  EpochKnown(x)'
  <1>1. ASSUME NEW k \in Key PROVE claims[k].epoch \in Nat /\ claims'[k].epoch \in Nat
    BY DEF EpochsKept, Claim
  <1> QED
    BY <1>1 DEF EpochKnown, EpochsKept, Served

LEMMA ClaimedKept ==
  ASSUME NEW x, Claimed(x), EpochsKept
  PROVE  Claimed(x)'
  BY DEF Claimed, EpochsKept

LEMMA RunIsKept ==
  ASSUME NEW n, NEW k, RunIs(n, k), RunsKept
  PROVE  RunIs(n, k)'
  BY DEF RunIs, RunsKept, Served

LEMMA GoodCallKept ==
  ASSUME NEW x, x.pc # "over" => x.epoch \in Nat, GoodCall(x), DocsKept, EpochsKept, RunsKept
  PROVE  GoodCall(x)'
  <1>1. x.pc # "over" => Routed(x)' /\ EpochKnown(x)'
    BY RoutedKept, EpochKnownKept DEF GoodCall
  <1>2. \A n, k : RunIs(n, k) => RunIs(n, k)'
    BY RunIsKept
  <1>3. x.pc = "read" => faults' > 0 \/ claims'[Served(x)].there
    BY DEF GoodCall, EpochsKept
  <1>4. x.pc \in {"queue", "commit"} => Claimed(x)'
    BY ClaimedKept DEF GoodCall
  <1> QED
    BY <1>1, <1>2, <1>3, <1>4 DEF GoodCall, Served

LEMMA GoodRunKept ==
  ASSUME NEW x, x.epoch \in Nat, GoodRun(x), DocsKept, EpochsKept
  PROVE  GoodRun(x)'
  BY RoutedKept, EpochKnownKept, ClaimedKept DEF GoodRun

\* A call that is under way is a full record.
LEMMA CallType ==
  ASSUME TypeOK, NEW c \in Caller
  PROVE  /\ call[c].pc \notin {"idle", "over"} => call[c] \in Call
         /\ call[c].pc = "over" => call[c] \in Answered
         /\ call[c].pc # "idle" => call[c] \in Call \cup Answered
  BY DEF TypeOK, Call, Answered, Idle

LEMMA RunType ==
  ASSUME TypeOK, NEW i \in DOMAIN runs
  PROVE  runs[i] \in Run /\ runs[i].epoch \in Nat
  <1>1. runs[i] \in Run
    BY DEF TypeOK
  <1> QED
    BY <1>1 DEF Run

\* The step of a call that queues nothing and takes no claim: it holds after it
\* only what it held before.
LEMMA CallMoves ==
  ASSUME DelInv, NEW c \in Caller, NEW r \in Call \cup Answered,
         call' = [call EXCEPT ![c] = r], PubInv', UNCHANGED <<doc, runs>>, faults' \in 0..MaxFaults,
         EpochsKept, \A k \in Key : GoodClaim(k)', GoodCall(r)',
         Holding(r) => Holding(call[c]) /\ SameClaim(r, call[c])
  PROVE  DelInv'
  <1>1. DocsKept /\ RunsKept
    BY DEF DocsKept, RunsKept
  <1>2. TypeOK'
    BY DEF DelInv, TypeOK, PubInv, EpochsKept
  <1>3. ASSUME NEW d \in Caller, call'[d].pc # "idle" PROVE GoodCall(call[d])'
    <2>1. CASE d = c
      <3>1. call'[d] = r
        BY <2>1 DEF DelInv, TypeOK
      <3> QED
        BY <3>1 DEF GoodCall, Routed, EpochKnown, RunIs, Served, Triggers, Claimed
    <2>2. CASE d # c
      <3>1. call'[d] = call[d]
        BY <2>2 DEF DelInv, TypeOK
      <3>2. PICK x : x = call[d]
        OBVIOUS
      <3>3. GoodCall(x) /\ (x.pc # "over" => x.epoch \in Nat)
        BY <1>3, <3>1, <3>2, CallType DEF DelInv, Call
      <3>4. GoodCall(x)'
        BY <1>1, <3>3, GoodCallKept
      <3> QED
        BY <3>1, <3>2, <3>4 DEF GoodCall, Routed, EpochKnown, RunIs, Served, Triggers, Claimed
    <2> QED
      BY <2>1, <2>2
  <1>4. ASSUME NEW i \in DOMAIN runs' PROVE GoodRun(runs[i])'
    <2>1. PICK x : x = runs[i]
      OBVIOUS
    <2>2. GoodRun(x) /\ x.epoch \in Nat
      BY <2>1, RunType DEF DelInv
    <2>3. GoodRun(x)'
      BY <1>1, <2>2, GoodRunKept
    <2> QED
      BY <2>1, <2>3 DEF GoodRun, Routed, EpochKnown, Served, Triggers, Claimed
  <1>5. Unique'
    <2>1. \A d \in Caller : call'[d] = IF d = c THEN r ELSE call[d]
      BY DEF DelInv, TypeOK
    <2>2. \A d \in Caller : Holding(call'[d]) => Holding(call[d]) /\ SameClaim(call'[d], call[d])
      BY <2>1 DEF SameClaim
    <2> QED
      BY <2>2 DEF DelInv, Unique, Holding, SameClaim, Served
  <1> QED
    BY <1>2, <1>3, <1>4, <1>5 DEF DelInv

\* Calls leave the publication alone.
LEMMA PubSame ==
  ASSUME PubInv, UNCHANGED pubVars
  PROVE  PubInv'
  BY PubKept DEF pubVars, tables, PubInv, NothingNamedIsPruned

LEMMA FaultsType ==
  ASSUME DelInv, Fault \/ UNCHANGED faults
  PROVE  /\ faults \in Nat /\ faults' \in Nat /\ faults <= faults' /\ faults' \in 0..MaxFaults
         /\ Fault => faults' > 0
  BY DeliveryAssumption DEF DelInv, TypeOK, Fault

LEMMA ClaimsSame ==
  ASSUME DelInv, UNCHANGED <<claims, runs>>, Fault \/ UNCHANGED faults
  PROVE  EpochsKept /\ \A k \in Key : GoodClaim(k)'
  <1>1. claims \in [Key -> Claim]
    BY DEF DelInv, TypeOK
  <1>2. \A k \in Key : claims[k].epoch \in Nat
    BY <1>1 DEF Claim
  <1>3. EpochsKept
    BY <1>1, <1>2, FaultsType DEF EpochsKept
  <1>4. faults' = 0 => faults = 0
    BY FaultsType
  <1> QED
    BY <1>3, <1>4 DEF DelInv, GoodClaim, FirstClaim, RunIs, Served

\* A call begins from a row that its version routes.
LEMMA BeginsInv ==
  ASSUME DelInv, NEW c \in Caller, NEW kind \in Kind, NEW id \in DeliveryId,
         NEW row \in Binding, NEW pc \in {"clear", "queue"}, Begins(c, kind, id, row, pc),
         Routed([kind |-> kind, node |-> row.node, version |-> row.version]),
         pc = "clear" <=> kind \in {"webhook", "event"}
  PROVE  DelInv'
  <1>1. PICK r : r = [pc |-> pc, kind |-> kind, id |-> id, node |-> row.node,
                      version |-> row.version, run |-> NoRun, epoch |-> 0]
    OBVIOUS
  <1>2. call' = [call EXCEPT ![c] = r] /\ UNCHANGED <<pubVars, claims, runs, faults>>
    BY <1>1 DEF Begins
  <1>3. r \in Call /\ ~Holding(r)
    BY <1>1, DeliveryAssumption DEF Call, Binding, NoRun, Holding
  <1>4. GoodCall(r)
    BY <1>1 DEF GoodCall, Routed, EpochKnown, Served, Key, Claimed
  <1>5. PubInv' /\ EpochsKept /\ (\A k \in Key : GoodClaim(k)') /\ UNCHANGED doc
    BY <1>2, PubSame, ClaimsSame DEF DelInv, pubVars
  <1>6. DocsKept /\ RunsKept
    BY <1>2, <1>5 DEF DocsKept, RunsKept
  <1>7. GoodCall(r)'
    BY <1>1, <1>4, <1>5, <1>6, GoodCallKept
  <1> QED
    BY <1>2, <1>3, <1>5, <1>7, CallMoves DEF DelInv, TypeOK

\* The routes of a live workflow are those of its pinned version.
LEMMA RowsRouted ==
  ASSUME PubInv
  PROVE  /\ \A row \in hooks : row \in Binding /\
               Routed([kind |-> "webhook", node |-> row.node, version |-> row.version])
         /\ \A row \in subs : row \in Binding /\
               Routed([kind |-> "event", node |-> row.node, version |-> row.version])
         /\ Live => \A n \in polls : Routed([kind |-> "poll", node |-> n, version |-> pin])
         /\ Live => pin \in DOMAIN doc /\ pin \in Version
  <1>1. Live => pin \in DOMAIN doc /\ pin \in Version
    BY LatestType DEF PubInv, PubTypeOK, Live
  <1>2. Live => hooks = Bindings(pin, "webhook") /\ subs = Bindings(pin, "event")
                /\ polls = Triggers(pin, "poll")
    BY DEF PubInv, RoutesFollowPublication
  <1>3. ~Live => hooks = {} /\ subs = {}
    BY DEF PubInv, RoutesFollowPublication
  <1>4. hooks \subseteq Binding /\ subs \subseteq Binding
    BY DEF PubInv, PubTypeOK
  <1>5. ASSUME NEW row \in hooks
        PROVE Routed([kind |-> "webhook", node |-> row.node, version |-> row.version])
    BY <1>1, <1>2, <1>3 DEF Routed, Bindings
  <1>6. ASSUME NEW row \in subs
        PROVE Routed([kind |-> "event", node |-> row.node, version |-> row.version])
    BY <1>1, <1>2, <1>3 DEF Routed, Bindings
  <1>7. ASSUME Live, NEW n \in polls PROVE Routed([kind |-> "poll", node |-> n, version |-> pin])
    BY <1>1, <1>2, <1>7 DEF Routed
  <1> QED
    BY <1>1, <1>4, <1>5, <1>6, <1>7

LEMMA ResolveInv ==
  ASSUME DelInv, NEW c \in Caller, NEW id \in DeliveryId,
         \/ ResolveWebhook(c, id)
         \/ ListSubscriptions(c, id)
         \/ ScheduleTick(c, id)
         \/ PollTick(c, id)
  PROVE  DelInv'
  <1>0. PubInv
    BY DEF DelInv
  <1>1. CASE ResolveWebhook(c, id)
    <2>1. PICK row \in hooks : Begins(c, "webhook", id, row, "clear")
      BY <1>1 DEF ResolveWebhook
    <2> QED
      BY <1>0, <2>1, RowsRouted, BeginsInv DEF Kind
  <1>2. CASE ListSubscriptions(c, id)
    <2>1. PICK row \in subs : Begins(c, "event", id, row, "clear")
      BY <1>2 DEF ListSubscriptions
    <2> QED
      BY <1>0, <2>1, RowsRouted, BeginsInv DEF Kind
  <1>3. CASE ScheduleTick(c, id)
    <2>1. Live
      BY <1>3 DEF ScheduleTick
    <2>2. PICK r \in scheds : Begins(c, "schedule", id, [node |-> r.node, version |-> pin], "queue")
      BY <1>3 DEF ScheduleTick
    <2>3. r.node \in Node
      BY <1>0 DEF PubInv, PubTypeOK, ScheduleRow
    <2>4. PICK row : row = [node |-> r.node, version |-> pin]
      OBVIOUS
    <2>5. row \in Binding /\ Routed([kind |-> "schedule", node |-> row.node, version |-> row.version])
      BY <1>0, <2>1, <2>3, <2>4, RowsRouted DEF Binding, Routed
    <2> QED
      BY <2>2, <2>4, <2>5, BeginsInv DEF Kind
  <1>4. CASE PollTick(c, id)
    <2>1. Live
      BY <1>4 DEF PollTick
    <2>2. PICK n \in polls : Begins(c, "poll", id, [node |-> n, version |-> pin], "queue")
      BY <1>4 DEF PollTick
    <2>3. n \in Node
      BY <1>0 DEF PubInv, PubTypeOK
    <2>4. PICK row : row = [node |-> n, version |-> pin]
      OBVIOUS
    <2>5. row \in Binding /\ Routed([kind |-> "poll", node |-> row.node, version |-> row.version])
      BY <1>0, <2>1, <2>3, <2>4, RowsRouted DEF Binding
    <2> QED
      BY <2>2, <2>4, <2>5, BeginsInv DEF Kind
  <1> QED
    BY <1>1, <1>2, <1>3, <1>4

\* A call that only changes its place, or answers.
LEMMA GotoInv ==
  ASSUME DelInv, NEW c \in Caller, NEW pc \in {"insert", "read", "queue", "commit"},
         call[c].pc \notin {"idle", "over"}, Goto(c, pc), PubInv', UNCHANGED <<doc, runs>>,
         faults' \in 0..MaxFaults, EpochsKept, \A k \in Key : GoodClaim(k)',
         pc \in {"insert", "read"} => call[c].pc \in {"clear", "insert"},
         pc = "read" => faults' > 0 \/ claims'[KeyOf(c)].there,
         pc = "queue" => call[c].pc \in {"clear", "read"} /\ call[c].kind = "webhook" /\ faults' > 0,
         pc = "commit" => call[c].pc = "queue"
  PROVE  DelInv'
  <1>1. PICK x : x = call[c]
    OBVIOUS
  <1>2. PICK r : r = [x EXCEPT !.pc = pc]
    OBVIOUS
  <1>3. x \in Call /\ GoodCall(x) /\ x.pc \notin {"idle", "over"}
    BY <1>1, CallType DEF DelInv
  <1>4. r \in Call /\ r.kind = x.kind /\ r.id = x.id /\ r.node = x.node /\ r.version = x.version
        /\ r.epoch = x.epoch /\ r.pc = pc
    BY <1>2, <1>3 DEF Call
  <1>5. Routed(r) /\ EpochKnown(r) /\ r.epoch \in Nat
    BY <1>3, <1>4 DEF GoodCall, Routed, EpochKnown, Served, Call
  <1>6. DocsKept /\ RunsKept
    BY DEF DocsKept, RunsKept
  <1>7. GoodCall(r)'
    <2>1. Routed(r)' /\ EpochKnown(r)'
      BY <1>5, <1>6, RoutedKept, EpochKnownKept
    <2>2. pc \in {"insert", "read"} => Served(r) \in Key /\ r.epoch = 0
      BY <1>1, <1>3, <1>4 DEF GoodCall, Served
    <2>3. pc = "read" => faults' > 0 \/ claims'[Served(r)].there
      BY <1>1, <1>4 DEF Served, KeyOf
    <2>4. pc = "queue" => Claimed(r)'
      BY <1>1, <1>4 DEF Claimed
    <2>5. pc = "commit" => Claimed(r)'
      <3>1. pc = "commit" => Claimed(x)
        BY <1>1, <1>3 DEF GoodCall
      <3>2. pc = "commit" => Claimed(x)'
        BY <3>1, ClaimedKept
      <3> QED
        BY <1>4, <3>2 DEF Claimed
    <2> QED
      BY <1>4, <2>1, <2>2, <2>3, <2>4, <2>5 DEF GoodCall, Served
  <1>8. Holding(r) => Holding(x) /\ SameClaim(r, x)
    BY <1>1, <1>3, <1>4 DEF Holding, SameClaim, Served, GoodCall
  <1>9. call' = [call EXCEPT ![c] = r]
    BY <1>1, <1>2 DEF Goto
  <1> QED
    BY <1>1, <1>4, <1>7, <1>8, <1>9, CallMoves DEF DelInv, TypeOK

LEMMA AnswerInv ==
  ASSUME DelInv, NEW c \in Caller, NEW a \in {"ran", "inactive", "error"}, Answer(c, a),
         PubInv', UNCHANGED <<doc, runs>>, faults' \in 0..MaxFaults,
         EpochsKept, \A k \in Key : GoodClaim(k)'
  PROVE  DelInv'
  <1>1. PICK r : r = [pc |-> "over", answer |-> a]
    OBVIOUS
  <1>2. r \in Answered /\ ~Holding(r) /\ GoodCall(r)'
    BY <1>1 DEF Answered, Holding, GoodCall
  <1>3. call' = [call EXCEPT ![c] = r]
    BY <1>1 DEF Answer
  <1> QED
    BY <1>2, <1>3, CallMoves

\* Steps on one claim that keep its epoch and its run, or record a run of it.
LEMMA ClaimSteps ==
  ASSUME DelInv, NEW k \in Key, NEW q \in Claim, claims' = [claims EXCEPT ![k] = q],
         UNCHANGED runs, Fault \/ UNCHANGED faults, claims[k].epoch <= q.epoch,
         faults' = 0 => FirstClaim(q) /\ (claims[k].there => q.there),
         q.run \in {NoRun, claims[k].run} \/ RunIs(q.run, k)
  PROVE  EpochsKept /\ \A m \in Key : GoodClaim(m)'
  <1>1. claims \in [Key -> Claim]
    BY DEF DelInv, TypeOK
  <1>2. claims' \in [Key -> Claim] /\ \A m \in Key : claims'[m] = IF m = k THEN q ELSE claims[m]
    BY <1>1
  <1>3. \A m \in Key : claims[m].epoch \in Nat
    BY <1>1 DEF Claim
  <1>4. EpochsKept
    BY <1>1, <1>2, <1>3, FaultsType DEF EpochsKept
  <1>5. ASSUME NEW m \in Key PROVE GoodClaim(m)'
    <2>1. (claims[m].run # NoRun => RunIs(claims[m].run, m))'
      BY <1>2 DEF DelInv, GoodClaim, RunIs, Served, NoRun
    <2>2. faults' = 0 => FirstClaim(claims'[m])
      <3>1. faults' = 0 => faults = 0
        BY FaultsType
      <3> QED
        BY <1>2, <3>1 DEF DelInv, GoodClaim
    <2> QED
      BY <2>1, <2>2 DEF GoodClaim, FirstClaim, RunIs, Served
  <1> QED
    BY <1>4, <1>5

LEMMA ClearExpiredInv ==
  ASSUME DelInv, NEW c \in Caller, ClearExpired(c)
  PROVE  DelInv'
  <1>k. PICK k : k = KeyOf(c)
    OBVIOUS
  <1>1. call[c].pc = "clear" /\ Goto(c, "insert") /\ UNCHANGED <<pubVars, runs, faults>>
        /\ claims' = [claims EXCEPT ![k].there = claims[k].there /\ ~claims[k].expired]
    BY <1>k DEF ClearExpired
  <1>2. k \in Key
    BY <1>k, <1>1 DEF DelInv, GoodCall, Served, KeyOf
  <1>3. claims \in [Key -> Claim]
    BY DEF DelInv, TypeOK
  <1>4. PICK q : q = [claims[k] EXCEPT !.there = claims[k].there /\ ~claims[k].expired]
    OBVIOUS
  <1>5. claims[k] \in Claim
    BY <1>2, <1>3
  <1>6. q \in Claim /\ q.epoch = claims[k].epoch /\ q.run = claims[k].run /\ claims[k].epoch \in Nat
    BY <1>4, <1>5 DEF Claim
  <1>7. claims' = [claims EXCEPT ![k] = q]
    BY <1>1, <1>4
  <1>8. EpochsKept /\ \A m \in Key : GoodClaim(m)'
    <2>1. UNCHANGED <<runs, faults>> /\ claims[k].epoch <= q.epoch /\ q.run \in {NoRun, claims[k].run}
      BY <1>1, <1>6
    <2>2. faults' = 0 => FirstClaim(q) /\ (claims[k].there => q.there)
      <3>1. faults = 0 => FirstClaim(claims[k])
        BY <1>2 DEF DelInv, GoodClaim
      <3>2. q.expired = claims[k].expired /\ q.there = (claims[k].there /\ ~claims[k].expired)
        BY <1>4, <1>5 DEF Claim
      <3> QED
        BY <1>6, <2>1, <3>1, <3>2 DEF FirstClaim
    <2> QED
      BY <1>2, <1>6, <1>7, <2>1, <2>2, ClaimSteps
  <1>9. faults' \in 0..MaxFaults
    BY <1>1, FaultsType
  <1> QED
    BY <1>1, <1>8, <1>9, PubSame, GotoInv DEF DelInv, pubVars

\* The unique index: the call that gets in holds a claim newer than any.
LEMMA InsertClaimInv ==
  ASSUME DelInv, NEW c \in Caller, InsertClaim(c)
  PROVE  DelInv'
  <1>k. PICK k : k = KeyOf(c)
    OBVIOUS
  <1>1. call[c].pc = "insert" /\ UNCHANGED <<pubVars, runs, faults>>
    BY DEF InsertClaim
  <1>2. k \in Key /\ k = Served(call[c]) /\ call[c].epoch = 0 /\ GoodCall(call[c])
    BY <1>k, <1>1 DEF DelInv, GoodCall, Served, KeyOf
  <1>3. claims \in [Key -> Claim] /\ call[c] \in Call /\ claims[k].epoch \in Nat
        /\ call \in [Caller -> Call \cup Answered \cup {Idle}]
    BY <1>1, <1>2, CallType DEF DelInv, TypeOK, Claim
  <1>4. CASE claims[k].there
    <2>1. Goto(c, "read") /\ UNCHANGED claims /\ claims'[KeyOf(c)].there
      BY <1>k, <1>4 DEF InsertClaim
    <2>2. PubInv' /\ EpochsKept /\ (\A m \in Key : GoodClaim(m)') /\ UNCHANGED <<doc, runs>>
          /\ faults' \in 0..MaxFaults
      BY <1>1, <2>1, PubSame, ClaimsSame, FaultsType DEF DelInv, pubVars
    <2> QED
      BY <1>1, <2>1, <2>2, GotoInv
  <1>5. CASE ~claims[k].there
    <2>1. PICK epoch : epoch = claims[k].epoch + 1
      OBVIOUS
    <2>2. PICK q : q = [there |-> TRUE, expired |-> FALSE, run |-> NoRun, epoch |-> epoch]
      OBVIOUS
    <2>3. PICK x : x = call[c]
      OBVIOUS
    <2>4. PICK r : r = [x EXCEPT !.pc = "queue", !.epoch = epoch]
      OBVIOUS
    <2>5. claims' = [claims EXCEPT ![k] = q] /\ call' = [call EXCEPT ![c].pc = "queue", ![c].epoch = epoch]
      BY <1>k, <1>5, <2>1, <2>2 DEF InsertClaim
    <2>6. call' = [call EXCEPT ![c] = r]
      BY <2>3, <2>4, <2>5
    <2>7. q \in Claim /\ q.epoch = epoch /\ q.run = NoRun /\ epoch \in Nat /\ epoch > claims[k].epoch
      BY <1>3, <2>1, <2>2, DeliveryAssumption DEF Claim, NoRun
    <2>8. EpochsKept /\ \A m \in Key : GoodClaim(m)'
      <3>1. UNCHANGED <<runs, faults>> /\ claims[k].epoch <= q.epoch /\ q.run \in {NoRun, claims[k].run}
        BY <1>1, <1>3, <2>7
      <3>2. faults' = 0 => FirstClaim(q) /\ (claims[k].there => q.there)
        <4>1. faults = 0 => claims[k].epoch = 0
          BY <1>2, <1>3, <1>5 DEF DelInv, GoodClaim, FirstClaim
        <4> QED
          BY <1>5, <2>1, <2>2, <3>1, <4>1 DEF FirstClaim
      <3> QED
        BY <1>2, <2>5, <2>7, <3>1, <3>2, ClaimSteps
    <2>9. /\ r \in Call /\ r.kind = x.kind /\ r.id = x.id /\ r.node = x.node
          /\ r.version = x.version /\ r.epoch = epoch /\ r.pc = "queue" /\ Served(r) = k
          /\ Served(r) = Served(x)
      BY <1>2, <1>3, <2>3, <2>4, <2>7 DEF Call, Served
    <2>10. claims'[k].epoch = epoch
      BY <1>2, <1>3, <2>5, <2>7
    <2>p. PubInv' /\ UNCHANGED doc /\ DocsKept /\ RunsKept
      BY <1>1, PubSame DEF DelInv, pubVars, DocsKept, RunsKept
    <2>t. TypeOK'
      BY <1>1, <1>3, <2>6, <2>8, <2>9, <2>p DEF DelInv, TypeOK, PubInv, EpochsKept
    <2>c. ASSUME NEW d \in Caller, call'[d].pc # "idle" PROVE GoodCall(call[d])'
      <3>1. CASE d = c
        <4>1. call'[d] = r
          BY <1>3, <2>6, <3>1
        <4>2. Routed(r)
          BY <1>1, <1>2, <2>3, <2>9 DEF GoodCall, Routed
        <4>3. Routed(r)'
          BY <2>p, <4>2, RoutedKept
        <4>4. EpochKnown(r)'
          BY <1>2, <2>7, <2>9, <2>10 DEF EpochKnown
        <4>5. GoodCall(r)'
          BY <1>3, <2>7, <2>9, <4>3, <4>4 DEF GoodCall, Claimed
        <4> QED
          BY <4>1, <4>5 DEF GoodCall, Routed, EpochKnown, RunIs, Served, Triggers, Claimed
      <3>2. CASE d # c
        <4>1. call'[d] = call[d]
          BY <1>3, <2>6, <3>2
        <4>2. PICK y : y = call[d]
          OBVIOUS
        <4>3. GoodCall(y) /\ (y.pc # "over" => y.epoch \in Nat)
          BY <2>c, <4>1, <4>2, CallType DEF DelInv, Call
        <4>4. GoodCall(y)'
          BY <2>8, <2>p, <4>3, GoodCallKept
        <4> QED
          BY <4>1, <4>2, <4>4 DEF GoodCall, Routed, EpochKnown, RunIs, Served, Triggers, Claimed
      <3> QED
        BY <3>1, <3>2
    <2>r. ASSUME NEW i \in DOMAIN runs' PROVE GoodRun(runs[i])'
      <3>1. PICK y : y = runs[i]
        OBVIOUS
      <3>2. GoodRun(y) /\ y.epoch \in Nat
        BY <1>1, <3>1, RunType DEF DelInv
      <3>3. GoodRun(y)'
        BY <2>8, <2>p, <3>2, GoodRunKept
      <3> QED
        BY <1>1, <3>1, <3>3 DEF GoodRun, Routed, EpochKnown, Served, Triggers, Claimed
    <2>u. Unique'
      <3>1. ASSUME NEW d \in Caller, Holding(call[d]) PROVE ~SameClaim(call[d], r)
        <4>1. EpochKnown(call[d]) /\ call[d].epoch \in Nat /\ call[d].epoch # 0
          BY <3>1, CallType DEF DelInv, GoodCall, Holding, Call
        <4> QED
          BY <1>3, <2>7, <2>9, <4>1 DEF EpochKnown, SameClaim
      <3>2. ASSUME NEW i \in DOMAIN runs PROVE ~SameClaim(runs[i], r)
        <4>1. EpochKnown(runs[i]) /\ runs[i].epoch \in Nat
          BY RunType DEF DelInv, GoodRun
        <4> QED
          BY <1>3, <2>7, <2>9, <4>1 DEF EpochKnown, SameClaim
      <3>3. \A d \in Caller : call'[d] = IF d = c THEN r ELSE call[d]
        BY <1>3, <2>6
      <3>4. \A d, e \in Caller : Holding(call'[d]) /\ Holding(call'[e]) /\ SameClaim(call'[d], call'[e]) => d = e
        <4>1. \A y : SameClaim(r, y) => SameClaim(y, r)
          BY DEF SameClaim
        <4> QED
          BY <3>1, <3>3, <4>1 DEF DelInv, Unique
      <3>5. \A d \in Caller, i \in DOMAIN runs : Holding(call'[d]) => ~SameClaim(runs[i], call'[d])
        BY <3>2, <3>3 DEF DelInv, Unique
      <3> QED
        BY <1>1, <3>4, <3>5 DEF DelInv, Unique, Holding, SameClaim, Served
    <2> QED
      BY <2>8, <2>p, <2>t, <2>c, <2>r, <2>u DEF DelInv
  <1> QED
    BY <1>4, <1>5

\* An insert of unknown outcome: it may have made a claim that no call holds.
LEMMA InsertFailsInv ==
  ASSUME DelInv, NEW c \in Caller, InsertFails(c)
  PROVE  DelInv'
  <1>k. PICK k : k = KeyOf(c)
    OBVIOUS
  <1>1. call[c].pc = "insert" /\ Fault /\ Goto(c, "read") /\ UNCHANGED <<pubVars, runs>>
    BY DEF InsertFails
  <1>2. k \in Key
    BY <1>k, <1>1 DEF DelInv, GoodCall, Served, KeyOf
  <1>3. claims \in [Key -> Claim] /\ claims[k].epoch \in Nat
    BY <1>2 DEF DelInv, TypeOK, Claim
  <1>4. faults' > 0 /\ faults' \in 0..MaxFaults
    BY <1>1, FaultsType
  <1>5. EpochsKept /\ \A m \in Key : GoodClaim(m)'
    <2>1. CASE UNCHANGED claims
      BY <1>1, <2>1, ClaimsSame
    <2>2. CASE ~UNCHANGED claims
      <3>1. PICK q : q = [there |-> TRUE, expired |-> FALSE, run |-> NoRun,
                          epoch |-> claims[k].epoch + 1]
        OBVIOUS
      <3>2. claims' = [claims EXCEPT ![k] = q]
        BY <1>k, <2>2, <3>1 DEF InsertFails
      <3>3. q \in Claim /\ q.run = NoRun /\ claims[k].epoch <= q.epoch
        BY <1>3, <3>1, DeliveryAssumption DEF Claim, NoRun
      <3>4. UNCHANGED runs /\ q.run \in {NoRun, claims[k].run}
        BY <1>1, <3>3
      <3>5. faults' = 0 => FirstClaim(q) /\ (claims[k].there => q.there)
        BY <1>4
      <3> QED
        BY <1>1, <1>2, <3>2, <3>3, <3>4, <3>5, ClaimSteps
    <2> QED
      BY <2>1, <2>2
  <1>6. PubInv' /\ UNCHANGED <<doc, runs>>
    BY <1>1, PubSame DEF DelInv, pubVars
  <1> QED
    BY <1>1, <1>4, <1>5, <1>6, GotoInv

\* A claim call that failed: the webhook handler goes on without a claim.
LEMMA UnclaimedInv ==
  ASSUME DelInv, NEW c \in Caller, call[c].pc \in {"clear", "read"}, Unclaimed(c),
         UNCHANGED <<pubVars, claims, runs>>, Fault \/ UNCHANGED faults, faults' > 0
  PROVE  DelInv'
  <1>1. PubInv' /\ EpochsKept /\ (\A m \in Key : GoodClaim(m)') /\ UNCHANGED <<doc, runs>>
        /\ faults' \in 0..MaxFaults
    BY PubSame, ClaimsSame, FaultsType DEF DelInv, pubVars
  <1>2. CASE call[c].kind = "webhook"
    <2>1. Goto(c, "queue")
      BY <1>2 DEF Unclaimed
    <2> QED
      BY <1>1, <1>2, <2>1, GotoInv
  <1>3. CASE call[c].kind # "webhook"
    <2>1. Answer(c, "error")
      BY <1>3 DEF Unclaimed
    <2> QED
      BY <1>1, <2>1, AnswerInv
  <1> QED
    BY <1>2, <1>3

LEMMA ClaimFailsInv ==
  ASSUME DelInv, NEW c \in Caller, ClaimFails(c)
  PROVE  DelInv'
  <1>1. faults' > 0
    BY FaultsType DEF ClaimFails
  <1> QED
    BY <1>1, UnclaimedInv DEF ClaimFails

LEMMA ReadClaimInv ==
  ASSUME DelInv, NEW c \in Caller, ReadClaim(c)
  PROVE  DelInv'
  <1>k. PICK k : k = KeyOf(c)
    OBVIOUS
  <1>1. call[c].pc = "read" /\ UNCHANGED <<pubVars, claims, runs, faults>>
    BY DEF ReadClaim
  <1>2. k \in Key /\ k = Served(call[c])
    BY <1>k, <1>1 DEF DelInv, GoodCall, Served, KeyOf
  <1>3. PubInv' /\ EpochsKept /\ (\A m \in Key : GoodClaim(m)') /\ UNCHANGED <<doc, runs, faults>>
    BY <1>1, PubSame, ClaimsSame DEF DelInv, pubVars
  <1>4. faults' \in 0..MaxFaults
    BY <1>3, FaultsType
  <1>5. CASE claims[k].there
    <2>1. PICK r : r = [pc |-> "over", answer |-> "duplicate", kind |-> call[c].kind,
                        id |-> call[c].id, run |-> claims[k].run]
      OBVIOUS
    <2>2. call' = [call EXCEPT ![c] = r]
      BY <1>k, <1>5, <2>1 DEF ReadClaim
    <2>3. call[c] \in Call /\ claims[k] \in Claim
      BY <1>1, <1>2, CallType DEF DelInv, TypeOK
    <2>4. r \in Answered /\ ~Holding(r) /\ Served(r) = k
      BY <1>2, <2>1, <2>3 DEF Answered, Call, Claim, Holding, Served
    <2>5. r.run # NoRun => RunIs(r.run, k)'
      BY <1>1, <1>2, <2>1 DEF DelInv, GoodClaim, RunIs, Served
    <2>6. GoodCall(r)'
      BY <2>1, <2>4, <2>5 DEF GoodCall
    <2> QED
      BY <1>3, <1>4, <2>2, <2>4, <2>6, CallMoves
  <1>6. CASE ~claims[k].there
    <2>1. Unclaimed(c)
      BY <1>k, <1>6 DEF ReadClaim
    <2>2. faults > 0
      BY <1>1, <1>2, <1>6 DEF DelInv, GoodCall
    <2> QED
      BY <1>1, <2>1, <2>2, UnclaimedInv
  <1> QED
    BY <1>5, <1>6

\* The insert of the execution: what its caller held becomes the run's.
LEMMA InsertedInv ==
  ASSUME DelInv, NEW c \in Caller, call[c].pc \in {"queue", "commit"}, Inserted(c),
         UNCHANGED <<backend, doc, stored, active, pin, deleted, tables, requests, audit,
                     admin, sweep, claims, faults>>
  PROVE  DelInv'
  <1>1. PICK x : x = call[c]
    OBVIOUS
  <1>2. PICK n : n = Len(runs) + 1
    OBVIOUS
  <1>3. PICK y : y = [kind |-> x.kind, id |-> x.id, node |-> x.node, version |-> x.version,
                      epoch |-> x.epoch]
    OBVIOUS
  <1>4. PICK r : r = [x EXCEPT !.pc = "record", !.run = n]
    OBVIOUS
  <1>5. /\ Len(runs) < MaxRuns /\ x.version \in stored
        /\ runs' = Append(runs, y) /\ executed' = executed \cup {x.version}
        /\ call' = [call EXCEPT ![c] = r]
    BY <1>1, <1>2, <1>3, <1>4 DEF Inserted, QueuedVersion
  <1>6. x \in Call /\ GoodCall(x) /\ x.pc \in {"queue", "commit"}
    BY <1>1, CallType DEF DelInv
  <1>7. runs \in Seq(Run) /\ call \in [Caller -> Call \cup Answered \cup {Idle}]
        /\ claims \in [Key -> Claim]
    BY DEF DelInv, TypeOK
  <1>8. y \in Run /\ y.epoch = x.epoch /\ Served(y) = Served(x) /\ y.version = x.version
        /\ y.kind = x.kind /\ y.node = x.node /\ y.epoch \in Nat
    BY <1>3, <1>6 DEF Call, Run, Served
  <1>9. /\ runs' \in Seq(Run) /\ Len(runs') = n /\ n \in Nat \ {0} /\ n <= MaxRuns
        /\ DOMAIN runs' = DOMAIN runs \cup {n} /\ n \notin DOMAIN runs /\ runs'[n] = y
        /\ \A i \in DOMAIN runs : runs'[i] = runs[i]
    BY <1>2, <1>5, <1>7, <1>8, DeliveryAssumption
  <1>10. /\ r \in Call /\ r.kind = x.kind /\ r.id = x.id /\ r.node = x.node
         /\ r.version = x.version /\ r.epoch = x.epoch /\ r.pc = "record" /\ r.run = n
         /\ Served(r) = Served(x) /\ r.epoch \in Nat
    <2>1. n \in 0..MaxRuns
      BY <1>9, DeliveryAssumption
    <2>2. r \in Call
      BY <1>4, <1>6, <2>1 DEF Call
    <2>3. /\ r.kind = x.kind /\ r.id = x.id /\ r.node = x.node /\ r.version = x.version
          /\ r.epoch = x.epoch /\ r.pc = "record" /\ r.run = n
      BY <1>4, <1>6 DEF Call
    <2> QED
      BY <1>6, <2>2, <2>3 DEF Call, Served
  <1>11. DocsKept /\ RunsKept
    BY <1>9 DEF DocsKept, RunsKept
  <1>12. EpochsKept
    <2>1. \A k \in Key : claims[k].epoch \in Nat
      BY <1>7 DEF Claim
    <2> QED
      BY <1>7, <2>1, FaultsType DEF EpochsKept
  <1>13. PubInv'
    BY <1>5, PubKept DEF DelInv, PubInv, NothingNamedIsPruned
  <1>14. TypeOK'
    BY <1>5, <1>7, <1>9, <1>10, <1>13 DEF DelInv, TypeOK, PubInv
  <1>15. RunIs(n, Served(x))'
    BY <1>1, <1>8, <1>9 DEF RunIs, Served
  <1>16. ASSUME NEW d \in Caller, call'[d].pc # "idle" PROVE GoodCall(call[d])'
    <2>1. CASE d = c
      <3>1. call'[d] = r
        BY <1>5, <1>7, <2>1
      <3>2. Routed(r) /\ EpochKnown(r)
        BY <1>6, <1>10 DEF GoodCall, Routed, EpochKnown
      <3>3. Routed(r)' /\ EpochKnown(r)'
        BY <1>10, <1>11, <1>12, <3>2, RoutedKept, EpochKnownKept
      <3>4. RunIs(n, Served(r))'
        BY <1>10, <1>15
      <3>5. GoodCall(r)'
        BY <1>10, <3>3, <3>4 DEF GoodCall
      <3> QED
        BY <3>1, <3>5 DEF GoodCall, Routed, EpochKnown, RunIs, Served, Triggers, Claimed
    <2>2. CASE d # c
      <3>1. call'[d] = call[d]
        BY <1>5, <1>7, <2>2
      <3>2. PICK z : z = call[d]
        OBVIOUS
      <3>3. GoodCall(z) /\ (z.pc # "over" => z.epoch \in Nat)
        BY <1>16, <3>1, <3>2, CallType DEF DelInv, Call
      <3>4. GoodCall(z)'
        BY <1>11, <1>12, <3>3, GoodCallKept
      <3> QED
        BY <3>1, <3>2, <3>4 DEF GoodCall, Routed, EpochKnown, RunIs, Served, Triggers, Claimed
    <2> QED
      BY <2>1, <2>2
  <1>17. ASSUME NEW i \in DOMAIN runs' PROVE GoodRun(runs[i])'
    <2>1. PICK z : z = runs'[i]
      OBVIOUS
    <2>2. GoodRun(z) /\ z.epoch \in Nat
      <3>1. CASE i = n
        BY <1>6, <1>8, <1>9, <2>1, <3>1 DEF GoodRun, GoodCall, Routed, EpochKnown, Claimed
      <3>2. CASE i # n
        BY <1>9, <2>1, <3>2, RunType DEF DelInv
      <3> QED
        BY <3>1, <3>2
    <2>3. GoodRun(z)'
      BY <1>11, <1>12, <2>2, GoodRunKept
    <2> QED
      BY <2>1, <2>3 DEF GoodRun, Routed, EpochKnown, Served, Triggers, Claimed
  <1>18. ASSUME NEW k \in Key PROVE GoodClaim(k)'
    BY <1>9 DEF DelInv, GoodClaim, FirstClaim, RunIs, Served
  <1>19. Unique'
    <2>1. \A d \in Caller : call'[d] = IF d = c THEN r ELSE call[d]
      BY <1>5, <1>7
    <2>2. ~Holding(r)
      BY <1>10 DEF Holding
    <2>3. y.epoch # 0 => Holding(x) /\ SameClaim(y, x)
      BY <1>6, <1>8 DEF Holding, SameClaim
    <2>s. \A a, b : SameClaim(a, b) => SameClaim(b, a)
      BY DEF SameClaim
    <2>t. \A a, b, e : SameClaim(a, b) /\ SameClaim(b, e) => SameClaim(a, e)
      BY DEF SameClaim
    <2>4. \A d, e \in Caller : Holding(call'[d]) /\ Holding(call'[e]) /\ SameClaim(call'[d], call'[e]) => d = e
      BY <2>1, <2>2 DEF DelInv, Unique
    <2>5. ASSUME NEW d \in Caller, NEW i \in DOMAIN runs', Holding(call'[d]), SameClaim(runs'[i], call'[d])
          PROVE FALSE
      <3>1. d # c /\ call'[d] = call[d]
        BY <2>1, <2>2, <2>5
      <3>2. CASE i = n
        <4>1. call[d].epoch # 0 /\ SameClaim(y, call[d]) /\ Holding(call[d])
          BY <1>9, <2>5, <3>1, <3>2 DEF Holding
        <4>2. Holding(x) /\ SameClaim(x, call[d])
          BY <2>3, <2>s, <2>t, <4>1 DEF SameClaim
        <4> QED
          BY <1>1, <3>1, <4>1, <4>2 DEF DelInv, Unique
      <3>3. CASE i # n
        BY <1>9, <2>5, <3>1, <3>3 DEF DelInv, Unique
      <3> QED
        BY <3>2, <3>3
    <2>6. ASSUME NEW i \in DOMAIN runs', NEW j \in DOMAIN runs', SameClaim(runs'[i], runs'[j]), runs'[i].epoch # 0
          PROVE i = j
      <3>1. ASSUME NEW m \in DOMAIN runs, y.epoch # 0 PROVE ~SameClaim(runs[m], y)
        BY <1>1, <2>3, <2>t, <3>1 DEF DelInv, Unique
      <3>2. runs'[j].epoch # 0
        BY <2>6 DEF SameClaim
      <3>3. CASE i = n /\ j # n
        BY <1>9, <2>6, <2>s, <3>1, <3>3
      <3>4. CASE i # n /\ j = n
        BY <1>9, <2>6, <3>1, <3>2, <3>4
      <3>5. CASE i # n /\ j # n
        BY <1>9, <2>6, <3>5 DEF DelInv, Unique
      <3> QED
        BY <3>3, <3>4, <3>5
    <2>7. /\ \A d, e \in Caller : Holding(call[d])' /\ Holding(call[e])' /\ SameClaim(call[d], call[e])' => d = e
          /\ \A d \in Caller, i \in DOMAIN runs' : Holding(call[d])' => ~SameClaim(runs[i], call[d])'
          /\ \A i, j \in DOMAIN runs' : SameClaim(runs[i], runs[j])' /\ runs'[i].epoch # 0 => i = j
      BY <2>4, <2>5, <2>6 DEF Holding, SameClaim, Served
    <2> QED
      BY <2>7 DEF Unique
  <1> QED
    BY <1>13, <1>14, <1>16, <1>17, <1>18, <1>19 DEF DelInv

LEMMA QueueInv ==
  ASSUME DelInv, NEW c \in Caller, Queue(c)
  PROVE  DelInv'
  <1>1. CASE QueueTriggered(c)
    <2>1. CASE backend = "sqlite"
      BY <1>1, <2>1, InsertedInv DEF QueueTriggered
    <2>2. CASE backend # "sqlite"
      <3>1. call[c].pc = "queue" /\ Goto(c, "commit")
            /\ UNCHANGED <<backend, doc, stored, active, pin, deleted, tables, requests, executed,
                           audit, admin, sweep, claims, faults, runs>>
        BY <1>1, <2>2 DEF QueueTriggered
      <3>2. UNCHANGED pubVars
        BY <3>1 DEF pubVars, tables
      <3>3. PubInv' /\ EpochsKept /\ (\A m \in Key : GoodClaim(m)') /\ UNCHANGED <<doc, runs>>
            /\ faults' \in 0..MaxFaults
        BY <3>1, <3>2, PubSame, ClaimsSame, FaultsType DEF DelInv
      <3> QED
        BY <3>1, <3>3, GotoInv
    <2> QED
      BY <2>1, <2>2
  <1>2. CASE QueueCommit(c)
    BY <1>2, InsertedInv DEF QueueCommit
  <1>3. CASE QueueRefused(c)
    <2>1. PICK a \in {"error", "inactive"} : Answer(c, a)
      BY <1>3 DEF QueueRefused
    <2>2. UNCHANGED <<pubVars, claims, runs, faults>>
      BY <1>3 DEF QueueRefused
    <2>3. PubInv' /\ EpochsKept /\ (\A m \in Key : GoodClaim(m)') /\ UNCHANGED <<doc, runs>>
          /\ faults' \in 0..MaxFaults
      BY <2>2, PubSame, ClaimsSame DEF DelInv, pubVars, TypeOK
    <2> QED
      BY <2>1, <2>3, AnswerInv
  <1>4. CASE QueueFails(c)
    <2>1. Answer(c, "error") /\ UNCHANGED <<pubVars, claims, runs>> /\ (Fault \/ UNCHANGED faults)
      BY <1>4 DEF QueueFails
    <2>2. faults' \in 0..MaxFaults
      BY <2>1, DeliveryAssumption DEF DelInv, TypeOK, Fault
    <2>3. PubInv' /\ EpochsKept /\ (\A m \in Key : GoodClaim(m)') /\ UNCHANGED <<doc, runs>>
      BY <2>1, PubSame, ClaimsSame DEF DelInv, pubVars
    <2> QED
      BY <2>1, <2>2, <2>3, AnswerInv
  <1> QED
    BY <1>1, <1>2, <1>3, <1>4 DEF Queue

\* A run is recorded by key: on whatever claim is there, but of its delivery.
LEMMA RecordRunInv ==
  ASSUME DelInv, NEW c \in Caller, RecordRun(c)
  PROVE  DelInv'
  <1>k. PICK k : k = KeyOf(c)
    OBVIOUS
  <1>1. call[c].pc = "record" /\ Answer(c, "ran") /\ UNCHANGED <<pubVars, runs>>
        /\ (Fault \/ UNCHANGED faults)
    BY DEF RecordRun
  <1>2. RunIs(call[c].run, k) /\ call[c] \in Call
    BY <1>k, <1>1, CallType DEF DelInv, GoodCall, Served, KeyOf
  <1>3. EpochsKept /\ \A m \in Key : GoodClaim(m)'
    <2>1. CASE k \in Key /\ claims[k].there /\ ~UNCHANGED claims
      <3>1. PICK q : q = [claims[k] EXCEPT !.run = call[c].run]
        OBVIOUS
      <3>2. claims' = [claims EXCEPT ![k] = q]
        BY <1>k, <2>1, <3>1 DEF RecordRun
      <3>3. claims[k] \in Claim
        BY <2>1 DEF DelInv, TypeOK
      <3>4. q \in Claim /\ claims[k].epoch <= q.epoch /\ q.run = call[c].run
            /\ q.epoch = claims[k].epoch /\ q.there = claims[k].there
            /\ q.expired = claims[k].expired
        BY <1>2, <3>1, <3>3 DEF Claim, Call
      <3>5. RunIs(q.run, k) /\ UNCHANGED runs
        BY <1>1, <1>2, <3>4
      <3>6. faults' = 0 => FirstClaim(q) /\ (claims[k].there => q.there)
        <4>1. faults' = 0 => faults = 0
          BY <1>1, FaultsType
        <4>2. faults = 0 => FirstClaim(claims[k])
          BY <2>1 DEF DelInv, GoodClaim
        <4> QED
          BY <3>4, <4>1, <4>2 DEF FirstClaim
      <3> QED
        BY <1>1, <2>1, <3>2, <3>4, <3>5, <3>6, ClaimSteps
    <2>2. CASE ~(k \in Key /\ claims[k].there /\ ~UNCHANGED claims)
      <3>1. UNCHANGED claims
        BY <1>k, <2>2 DEF RecordRun
      <3> QED
        BY <1>1, <3>1, ClaimsSame
    <2> QED
      BY <2>1, <2>2
  <1>4. PubInv' /\ UNCHANGED <<doc, runs>> /\ faults' \in 0..MaxFaults
    BY <1>1, PubSame, FaultsType DEF DelInv, pubVars
  <1> QED
    BY <1>1, <1>3, <1>4, AnswerInv

\* Steps that leave every call alone: those of the publication, and a window
\* that passes.
LEMMA CallsStay ==
  ASSUME DelInv, PubInv', DocsKept, UNCHANGED <<call, runs>>, faults' \in 0..MaxFaults,
         EpochsKept, \A k \in Key : GoodClaim(k)'
  PROVE  DelInv'
  <1>1. RunsKept
    BY DEF RunsKept
  <1>2. TypeOK'
    BY DEF DelInv, TypeOK, PubInv, EpochsKept
  <1>3. ASSUME NEW d \in Caller, call'[d].pc # "idle" PROVE GoodCall(call[d])'
    <2>1. PICK x : x = call[d]
      OBVIOUS
    <2>2. GoodCall(x) /\ (x.pc # "over" => x.epoch \in Nat)
      BY <1>3, <2>1, CallType DEF DelInv, Call
    <2>3. GoodCall(x)'
      BY <1>1, <2>2, GoodCallKept
    <2> QED
      BY <2>1, <2>3 DEF GoodCall, Routed, EpochKnown, RunIs, Served, Triggers, Claimed
  <1>4. ASSUME NEW i \in DOMAIN runs' PROVE GoodRun(runs[i])'
    <2>1. PICK x : x = runs[i]
      OBVIOUS
    <2>2. GoodRun(x) /\ x.epoch \in Nat
      BY <2>1, RunType DEF DelInv
    <2>3. GoodRun(x)'
      BY <2>2, GoodRunKept
    <2> QED
      BY <2>1, <2>3 DEF GoodRun, Routed, EpochKnown, Served, Triggers, Claimed
  <1>5. Unique'
    BY DEF DelInv, Unique, Holding, SameClaim, Served
  <1> QED
    BY <1>2, <1>3, <1>4, <1>5 DEF DelInv

LEMMA ClaimExpiresInv ==
  ASSUME DelInv, NEW k \in Key, ClaimExpires(k)
  PROVE  DelInv'
  <1>1. /\ Fault /\ claims' = [claims EXCEPT ![k].expired = TRUE] /\ UNCHANGED <<pubVars, call, runs>>
    BY DEF ClaimExpires
  <1>2. PICK q : q = [claims[k] EXCEPT !.expired = TRUE]
    OBVIOUS
  <1>3. claims[k] \in Claim
    BY DEF DelInv, TypeOK
  <1>4. q \in Claim /\ claims[k].epoch <= q.epoch /\ q.run = claims[k].run
    <2>1. q \in Claim
      BY <1>2, <1>3 DEF Claim
    <2>2. q.epoch = claims[k].epoch /\ q.run = claims[k].run /\ claims[k].epoch \in Nat
      BY <1>2, <1>3 DEF Claim
    <2> QED
      BY <2>1, <2>2
  <1>5. claims' = [claims EXCEPT ![k] = q] /\ UNCHANGED runs /\ q.run \in {NoRun, claims[k].run}
    BY <1>1, <1>2, <1>4
  <1>7. faults' \in 0..MaxFaults /\ faults' > 0
    BY <1>1, FaultsType
  <1>6. EpochsKept /\ \A m \in Key : GoodClaim(m)'
    <2>1. faults' = 0 => FirstClaim(q) /\ (claims[k].there => q.there)
      BY <1>7
    <2> QED
      BY <1>1, <1>4, <1>5, <2>1, ClaimSteps
  <1>8. PubInv' /\ DocsKept /\ UNCHANGED <<call, runs>>
    BY <1>1, PubSame DEF DelInv, pubVars, DocsKept
  <1> QED
    BY <1>6, <1>7, <1>8, CallsStay

\* No step changes the document of a revision.
LEMMA PubDocsKept ==
  ASSUME PubInv, PubNext
  PROVE  DocsKept
  <1>1. ASSUME NEW d \in Doc, Append1(d) PROVE DocsKept
    BY <1>1, AppendDoc DEF Append1, PubInv, DocsKept
  <1>2. ASSUME NEW v \in Version, RestoreVersion(v) PROVE DocsKept
    <2>1. doc[v] \in Doc
      BY <1>2, LatestType DEF RestoreVersion, PubInv, PubTypeOK
    <2> QED
      BY <1>1, <1>2, <2>1 DEF RestoreVersion
  <1>3. \/ \E d \in Doc : Append1(d)
        \/ \E v \in Version : RestoreVersion(v)
        \/ UNCHANGED doc
    BY DEF PubNext, SaveDraft, PruneVersions, PruneRead, PruneDelete, Publish, DeactivateRead,
           DeactivateCommit, Delete, CreateSchedule, UpdateSchedule, DeleteSchedule, RetireSchedule,
           SchedulesBecome, RetirePoll
  <1> QED
    BY <1>1, <1>2, <1>3 DEF DocsKept

LEMMA DelInitInv == Init => DelInv
  <1> SUFFICES ASSUME Init PROVE DelInv
    OBVIOUS
  <1>1. PubInv
    BY PubInitInv DEF Init
  <1>2. call = [c \in Caller |-> Idle] /\ runs = <<>> /\ faults = 0
        /\ claims = [k \in Key |->
              [there |-> FALSE, expired |-> FALSE, run |-> NoRun, epoch |-> 0]]
    BY DEF Init
  <1>3. TypeOK
    BY <1>1, <1>2, DeliveryAssumption DEF PubInv, TypeOK, Claim, NoRun
  <1>4. /\ \A c \in Caller : call[c].pc = "idle"
        /\ DOMAIN runs = {}
        /\ \A k \in Key : claims[k].run = NoRun /\ FirstClaim(claims[k])
    BY <1>2 DEF Idle, FirstClaim
  <1>5. Unique
    BY <1>4 DEF Unique, Holding
  <1> QED
    BY <1>1, <1>3, <1>4, <1>5 DEF DelInv, GoodClaim

LEMMA DelNextInv ==
  ASSUME DelInv, [Next]_vars
  PROVE  DelInv'
  <1>1. ASSUME PubNext, UNCHANGED delVars PROVE DelInv'
    <2>1. PubInv' /\ DocsKept
      BY <1>1, PubNextInv, PubDocsKept DEF DelInv
    <2>2. EpochsKept /\ (\A k \in Key : GoodClaim(k)') /\ UNCHANGED <<call, runs>> /\ faults' \in 0..MaxFaults
      BY <1>1, ClaimsSame DEF delVars, DelInv, TypeOK
    <2> QED
      BY <2>1, <2>2, CallsStay
  <1>2. ASSUME UNCHANGED vars PROVE DelInv'
    <2>1. UNCHANGED pubVars /\ UNCHANGED <<call, claims, runs, faults>>
      BY <1>2 DEF vars, delVars
    <2>2. PubInv' /\ DocsKept
      BY <2>1, PubSame DEF DelInv, pubVars, DocsKept
    <2>3. EpochsKept /\ (\A k \in Key : GoodClaim(k)') /\ UNCHANGED <<call, runs>> /\ faults' \in 0..MaxFaults
      BY <2>1, ClaimsSame DEF DelInv, TypeOK
    <2> QED
      BY <2>2, <2>3, CallsStay
  <1> QED
    BY <1>1, <1>2, ResolveInv, ClearExpiredInv, InsertClaimInv, ReadClaimInv, QueueInv,
       RecordRunInv, ClaimExpiresInv, InsertFailsInv, ClaimFailsInv DEF Next

-----------------------------------------------------------------------------
(* Theorems. *)

\* Between any two commits the routes of a workflow are those of the version
\* published, but for the schedules a request or a tick has changed since, and
\* the last publish event says whether it is live, for any number of
\* administrators, requests, revisions and callers.
THEOREM RoutesAlwaysFollow == Spec => []RoutesFollowPublication
  <1>1. DelInv => RoutesFollowPublication
    BY DEF DelInv, PubInv
  <1> QED
    BY <1>1, DelInitInv, DelNextInv, PTL DEF Spec

\* No prune, in one step or in two, deletes a revision that something names.
THEOREM NamedVersionsStay == Spec => []NothingNamedIsPruned
  <1>1. DelInv => NothingNamedIsPruned
    BY DEF DelInv, PubInv
  <1> QED
    BY <1>1, DelInitInv, DelNextInv, PTL DEF Spec

\* Types, and one run per claim however many senders retry; one run per
\* delivery as long as nothing fails, and an event run never without a claim.
THEOREM ClaimsRunOnce == Spec => []OneRunPerClaim
  <1>1. ASSUME DelInv PROVE OneRunPerClaim
    <2>1. ASSUME NEW i \in DOMAIN runs, Served(runs[i]) \in Key,
                 faults = 0 \/ runs[i].kind = "event"
          PROVE  runs[i].epoch # 0 /\ (faults = 0 => runs[i].epoch = 1)
      <3>1. runs[i].kind \in {"webhook", "event"} /\ runs[i].epoch \in Nat
        BY <1>1, <2>1, RunType DEF DelInv, Served, Key
      <3>2. runs[i].epoch # 0
        BY <1>1, <2>1, <3>1 DEF DelInv, GoodRun, Claimed
      <3>3. faults = 0 => runs[i].epoch <= 1
        <4>1. claims[Served(runs[i])].epoch \in Nat
          BY <1>1, <2>1 DEF DelInv, TypeOK, Claim
        <4> QED
          BY <1>1, <2>1, <3>1, <3>2, <4>1
             DEF DelInv, GoodRun, EpochKnown, GoodClaim, FirstClaim
      <3> QED
        BY <3>1, <3>2, <3>3
    <2>2. ASSUME NEW i \in DOMAIN runs, NEW j \in DOMAIN runs,
                 Served(runs[i]) = Served(runs[j]), Served(runs[i]) \in Key,
                 runs[i].epoch = runs[j].epoch, runs[i].epoch # 0 \/ faults = 0
          PROVE  i = j
      BY <1>1, <2>1, <2>2 DEF DelInv, Unique, SameClaim
    <2>3. ASSUME NEW c \in Caller, call[c].pc = "over", call[c].answer = "duplicate",
                 call[c].run # NoRun
          PROVE  runs[call[c].run].kind = call[c].kind /\ runs[call[c].run].id = call[c].id
      BY <1>1, <2>3 DEF DelInv, GoodCall, RunIs, Served
    <2>4. TypeOK
      BY <1>1 DEF DelInv
    <2> QED
      BY <2>1, <2>2, <2>3, <2>4 DEF OneRunPerClaim, Served
  <1> QED
    BY <1>1, DelInitInv, DelNextInv, PTL DEF Spec

\* A run starts from a trigger of the version it executes, whatever was
\* published between its caller's read and its insert.
THEOREM RunsStartFromTriggers == Spec => []StartsFromItsTrigger
  <1>1. DelInv => StartsFromItsTrigger
    BY DEF DelInv, StartsFromItsTrigger, GoodRun, Routed
  <1> QED
    BY <1>1, DelInitInv, DelNextInv, PTL DEF Spec

=============================================================================
