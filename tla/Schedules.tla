------------------------------ MODULE Schedules ------------------------------
(***************************************************************************)
(* internal/scheduler, repository/schedules.go and api/handlers/           *)
(* schedules.go: cron rows of one workflow, the ticks of scheduler         *)
(* replicas that claim and queue what is due, and the requests that        *)
(* create, change and delete rows beside them.                             *)
(*                                                                         *)
(* A tick claims in one transaction that holds the rows it selects, at a   *)
(* time it read before, and then queues run by run. A request computes the *)
(* due time from its own clock, reads the row, and saves the whole of it.  *)
(* Time is a number; a zone says what a clock on its wall shows.           *)
(***************************************************************************)
EXTENDS Integers, FiniteSets

CONSTANTS
    Replica,          \* scheduler processes
    Cron,             \* expressions
    Fires(_, _),      \* Fires(c, w): c matches the wall clock w
    Pinned,           \* expressions that name their hours (pinnedToAnHour)
    Zone, NoZone,     \* zones; NoZone is a row without one
    WallClock(_, _),  \* WallClock(z, t): what a clock in z shows at t
    Trigger,          \* schedule triggers of documents: expression and zone
    SearchLimit,      \* how far ahead the cron library looks
    MaxCatchUp,       \* maximumCatchUpSteps
    MaxTime,          \* bound: the clock
    MaxRows,          \* bound: rows ever created
    MaxVersion,       \* bound: publishes
    MaxRequests,      \* bound: requests
    MaxFaults         \* bound: queue calls that fail, processes that die

ASSUME ScheduleAssumption ==
    /\ IsFiniteSet(Replica)
    /\ Pinned \subseteq Cron /\ NoZone \in Zone /\ Trigger \subseteq Cron \X Zone
    /\ SearchLimit \in Nat \ {0} /\ MaxCatchUp \in Nat
    /\ MaxTime \in Nat \ {0} /\ MaxRows \in Nat \ {0} /\ MaxVersion \in Nat \ {0}
    /\ MaxRequests \in Nat /\ MaxFaults \in Nat

VARIABLES
    now,        \* the time
    flow,       \* whether the workflow is live
    version,    \* the version last published
    rows,       \* schedules
    created,    \* rows created so far
    pending,    \* what each replica has claimed and not yet queued
    request,    \* what the request under way is doing
    requests,   \* requests so far
    armed,      \* how often each row was given each due time
    started,    \* how often each row's due time was queued
    rewritten,  \* rows saved by a request
    faults      \* faults so far

vars == <<now, flow, version, rows, created, pending, request, requests, armed,
          started, rewritten, faults>>

NoTime == -1     \* a null next_run_at or last_run_at
Never == -2      \* ErrNeverFires
Id == 1..MaxRows
Due == 0..(MaxTime + 2 * SearchLimit)

\* owned: the row's node is the document's schedule trigger.
Row == [there : BOOLEAN, owned : BOOLEAN, cron : Cron, zone : Zone, on : BOOLEAN,
        next : Due \cup {NoTime}, last : Due \cup {NoTime}]
Pending == [id : Id, due : Due, version : 1..MaxVersion]
Idle == [pc |-> "idle"]

\* A request under way, before it reads the row and before it saves it.
Request ==
    {Idle}
        \cup [pc : {"read"}, cron : Cron, on : BOOLEAN, next : Due \cup {NoTime}]
        \cup [pc : {"save"}, id : Id, row : Row, cron : Cron, on : BOOLEAN,
              next : Due \cup {NoTime}]

TypeOK ==
    /\ now \in 1..MaxTime /\ flow \in BOOLEAN /\ version \in 1..MaxVersion
    /\ rows \in [Id -> Row] /\ created \in 0..MaxRows
    /\ \A i \in Id : rows[i].there => i <= created /\ (rows[i].on <=> rows[i].next # NoTime)
    /\ pending \in [Replica -> SUBSET Pending]
    /\ request \in Request /\ requests \in 0..MaxRequests
    /\ armed \in [Id -> [Due -> Nat]] /\ started \in [Id -> [Due -> Nat]]
    /\ rewritten \subseteq Id /\ faults \in 0..MaxFaults

-----------------------------------------------------------------------------
(* Next. *)

Occurs(spec, t) == Fires(spec[1], WallClock(spec[2], t))

\* The library's own search: the first match, or none within its limit.
SearchNext(spec, after) ==
    LET hits == {t \in (after + 1)..(after + SearchLimit) : Occurs(spec, t)} IN
    IF hits = {} THEN Never ELSE CHOOSE t \in hits : \A u \in hits : t <= u

SameWallClock(spec, t, u) == WallClock(spec[2], t) = WallClock(spec[2], u)

\* Mutant: the hour the clocks repeat is not skipped.
NextRunRepeats(spec, after) == SearchNext(spec, after)

\* Next: a schedule that names its hours skips the repeat of the hour just
\* past. Once is enough, since a zone repeats an hour once.
NextRun(spec, after) ==
    LET candidate == SearchNext(spec, after) IN
    IF spec[1] \in Pinned /\ candidate # Never /\ SameWallClock(spec, after, candidate)
    THEN SearchNext(spec, candidate) ELSE candidate

\* The row claimed at due moves past what is missed by at, one occurrence at a
\* time and no more than MaxCatchUp of them; Never when they run out on the way.
CatchUp(spec, due, at) ==
    LET after[n \in 0..MaxCatchUp] ==
          IF n = 0 THEN NextRun(spec, due)
          ELSE IF after[n-1] = Never \/ after[n-1] > at THEN after[n-1]
          ELSE NextRun(spec, after[n-1])
    IN after[MaxCatchUp]

SpecOf(row) == <<row.cron, row.zone>>

\* An expression that fires after t; any other is refused when it is saved.
FiresAfter(spec, t) == NextRun(spec, t) # Never

\* A schedule trigger's row as activation creates it.
Activated(spec) ==
    [there |-> TRUE, owned |-> TRUE, cron |-> spec[1], zone |-> spec[2], on |-> TRUE,
     next |-> NextRun(spec, now), last |-> NoTime]

NoRow == [there |-> FALSE, owned |-> FALSE, cron |-> CHOOSE c \in Cron : TRUE,
          zone |-> NoZone, on |-> FALSE, next |-> NoTime, last |-> NoTime]

\* Rows stored before Next refused an impossible expression: with the zero
\* time, or with a due time that has no successor.
Legacy ==
    {[there |-> TRUE, owned |-> FALSE, cron |-> c, zone |-> NoZone, on |-> TRUE,
      next |-> t, last |-> NoTime] :
     c \in {d \in Cron : ~FiresAfter(<<d, NoZone>>, 1)}, t \in {0, 1}}

Zeros == [i \in Id |-> [d \in Due |-> 0]]

Init ==
    /\ now = 1 /\ flow = TRUE /\ version = 1
    /\ \E row \in {Activated(spec) : spec \in {t \in Trigger : FiresAfter(t, 1)}} \cup Legacy :
          /\ rows = [i \in Id |-> IF i = 1 THEN row ELSE NoRow]
          /\ armed = [Zeros EXCEPT ![1][row.next] = 1]
    /\ created = 1
    /\ pending = [w \in Replica |-> {}]
    /\ request = Idle /\ requests = 0
    /\ started = Zeros /\ rewritten = {} /\ faults = 0

Fault == faults < MaxFaults /\ faults' = faults + 1

Arm(i, d) == armed' = [armed EXCEPT ![i][d] = @ + 1]

-----------------------------------------------------------------------------
(* Time and publication. *)

Advance ==
    /\ now < MaxTime
    /\ now' = now + 1
    /\ UNCHANGED <<flow, version, rows, created, pending, request, requests, armed,
                   started, rewritten, faults>>

\* removeSchedules: the rows of the document's triggers, or every row when it
\* has none.
Removed(owned) == [i \in Id |-> IF owned => rows[i].owned THEN NoRow ELSE rows[i]]

Publish(spec) ==
    LET i == created + 1 IN
    /\ version < MaxVersion /\ created < MaxRows /\ FiresAfter(spec, now)
    /\ flow' = TRUE /\ version' = version + 1
    /\ created' = i
    /\ rows' = [Removed(TRUE) EXCEPT ![i] = Activated(spec)]
    /\ Arm(i, rows'[i].next)
    /\ UNCHANGED <<now, pending, request, requests, started, rewritten, faults>>

\* A version without a schedule trigger.
PublishWithout ==
    /\ version < MaxVersion
    /\ flow' = TRUE /\ version' = version + 1
    /\ rows' = Removed(FALSE)
    /\ UNCHANGED <<now, created, pending, request, requests, armed, started, rewritten, faults>>

Deactivate ==
    /\ flow
    /\ flow' = FALSE
    /\ rows' = Removed(TRUE)
    /\ UNCHANGED <<now, version, created, pending, request, requests, armed, started,
                   rewritten, faults>>

-----------------------------------------------------------------------------
(* Requests. *)

\* nextRun of the handler; an inactive schedule is validated and has no due time.
Begin(cron, on) ==
    /\ request = Idle /\ requests < MaxRequests
    /\ FiresAfter(<<cron, NoZone>>, now)
    /\ requests' = requests + 1
    /\ request' = [pc |-> "read", cron |-> cron, on |-> on,
                   next |-> IF on THEN NextRun(<<cron, NoZone>>, now) ELSE NoTime]
    /\ UNCHANGED <<now, flow, version, rows, created, pending, armed, started, rewritten, faults>>

\* Create.
Create ==
    LET i == created + 1 IN
    /\ request.pc = "read" /\ created < MaxRows
    /\ created' = i
    /\ rows' = [rows EXCEPT ![i] =
          [there |-> TRUE, owned |-> FALSE, cron |-> request.cron, zone |-> NoZone,
           on |-> request.on, next |-> request.next, last |-> NoTime]]
    /\ IF request.on THEN Arm(i, request.next) ELSE UNCHANGED armed
    /\ request' = Idle
    /\ UNCHANGED <<now, flow, version, pending, requests, started, rewritten, faults>>

\* Update's first statement; a row that is not there answers 404.
UpdateRead(i) ==
    /\ request.pc = "read"
    /\ request' = IF rows[i].there
                  THEN [pc |-> "save", id |-> i, row |-> rows[i], cron |-> request.cron,
                        on |-> request.on, next |-> request.next]
                  ELSE Idle
    /\ UNCHANGED <<now, flow, version, rows, created, pending, requests, armed, started,
                   rewritten, faults>>

\* Mutant: the row keeps its zone under a due time computed without one.
SavedInZone(r) == [r.row EXCEPT !.cron = r.cron, !.on = r.on, !.next = r.next]

\* The request names no zone, so the row loses its own.
Saved(r) == [r.row EXCEPT !.cron = r.cron, !.zone = NoZone, !.on = r.on, !.next = r.next]

\* Its second statement writes every column, and inserts the row again when it
\* is gone by now.
UpdateSave ==
    /\ request.pc = "save"
    /\ rows' = [rows EXCEPT ![request.id] = Saved(request)]
    /\ IF request.on THEN Arm(request.id, request.next) ELSE UNCHANGED armed
    /\ rewritten' = rewritten \cup {request.id}
    /\ request' = Idle
    /\ UNCHANGED <<now, flow, version, created, pending, requests, started, faults>>

DeleteRow(i) ==
    /\ rows[i].there /\ requests < MaxRequests
    /\ requests' = requests + 1
    /\ rows' = [rows EXCEPT ![i] = NoRow]
    /\ UNCHANGED <<now, flow, version, created, pending, request, armed, started, rewritten, faults>>

-----------------------------------------------------------------------------
(* Ticks. *)

IsDue(row, at) == row.there /\ row.on /\ row.next <= at

\* ClaimDue retires a row whose workflow is not live, whose due time is the
\* zero time, or which has no further occurrence.
Retires(row) == ~flow \/ row.next = 0 \/ ~FiresAfter(SpecOf(row), row.next)

Retired(row) == [row EXCEPT !.on = FALSE, !.next = NoTime]

Advanced(row, at) ==
    [row EXCEPT !.last = row.next, !.next = CatchUp(SpecOf(row), row.next, at)]

\* Mutant: a row too far behind to catch up in one tick is left for the next.
ClaimableIfCaughtUp(due, at) ==
    {i \in due : ~Retires(rows[i]) /\ CatchUp(SpecOf(rows[i]), rows[i].next, at) > at}

Claimable(due, at) == {i \in due : ~Retires(rows[i])}

\* The transaction; it fails as a whole when the catch-up of one row does.
ClaimDue(w, at) ==
    LET due == {i \in Id : IsDue(rows[i], at)}
        claimed == Claimable(due, at)
    IN  /\ pending[w] = {} /\ due # {}
        /\ \A i \in claimed : CatchUp(SpecOf(rows[i]), rows[i].next, at) # Never
        /\ rows' = [i \in Id |->
              IF i \in claimed THEN Advanced(rows[i], at)
              ELSE IF i \in due /\ Retires(rows[i]) THEN Retired(rows[i]) ELSE rows[i]]
        /\ armed' = [i \in Id |-> IF i \in claimed
                                  THEN [armed[i] EXCEPT ![rows'[i].next] = @ + 1] ELSE armed[i]]
        /\ pending' = [pending EXCEPT ![w] =
              {[id |-> i, due |-> rows[i].next, version |-> version] : i \in claimed}]
        /\ UNCHANGED <<now, flow, version, created, request, requests, started, rewritten, faults>>

\* Claims are queued in the order they fell due.
IsFirst(p, due) ==
    p \in due /\ \A q \in due : p.due < q.due \/ (p.due = q.due /\ p.id <= q.id)

\* QueueScheduled runs only the version that is published; any other is
\* refused, logged and lost.
Accepts(p) == flow /\ version = p.version

Queue(w) ==
    \E p \in pending[w] :
        /\ IsFirst(p, pending[w])
        /\ started' = [started EXCEPT ![p.id][p.due] = IF Accepts(p) THEN @ + 1 ELSE @]
        /\ pending' = [pending EXCEPT ![w] = @ \ {p}]
        /\ UNCHANGED <<now, flow, version, rows, created, request, requests, armed,
                       rewritten, faults>>

\* Mutant: a call that fails after it queued the run is made again.
QueueFailsAndRetries(w) ==
    \E p \in pending[w] :
        /\ IsFirst(p, pending[w]) /\ Fault
        /\ started' = [started EXCEPT ![p.id][p.due] = @ + 1]
        /\ UNCHANGED <<now, flow, version, rows, created, pending, request, requests,
                       armed, rewritten>>

\* The queue call fails: the occurrence is logged and lost.
QueueFails(w) ==
    \E p \in pending[w] :
        /\ IsFirst(p, pending[w]) /\ Fault
        /\ pending' = [pending EXCEPT ![w] = @ \ {p}]
        /\ UNCHANGED <<now, flow, version, rows, created, request, requests, armed,
                       started, rewritten>>

\* The process dies with claims it has not queued.
Crash(w) ==
    /\ pending[w] # {} /\ Fault
    /\ pending' = [pending EXCEPT ![w] = {}]
    /\ UNCHANGED <<now, flow, version, rows, created, request, requests, armed, started, rewritten>>

-----------------------------------------------------------------------------
Next ==
    \/ Advance \/ PublishWithout \/ Deactivate
    \/ \E spec \in Trigger : Publish(spec)
    \/ \E cron \in Cron, on \in BOOLEAN : Begin(cron, on)
    \/ Create \/ UpdateSave
    \/ \E i \in Id : UpdateRead(i)
    \/ \E i \in Id : DeleteRow(i)
    \/ \E w \in Replica, at \in 1..now : ClaimDue(w, at)
    \/ \E w \in Replica : Queue(w)
    \/ \E w \in Replica : QueueFails(w)
    \/ \E w \in Replica : Crash(w)

Spec == Init /\ [][Next]_vars

\* Every replica's ticker keeps firing, and once the clock rests a tick reads
\* what it shows. Requests, publishes, faults and the clock's own advance need
\* not happen.
FairSpec == Spec /\ \A w \in Replica : WF_vars(ClaimDue(w, now)) /\ WF_vars(Queue(w))

-----------------------------------------------------------------------------
(* Properties. *)

\* Claims of the due time d of row i still to be queued, and row i itself while
\* d is its due time.
Outstanding(i, d) ==
    Cardinality({w \in Replica : \E p \in pending[w] : p.id = i /\ p.due = d})
        + (IF rows[i].there /\ rows[i].next = d THEN 1 ELSE 0)

\* Expressions that go on for ever, in every zone.
Lasting == {c \in Cron : \A z \in Zone, t \in 1..MaxTime : FiresAfter(<<c, z>>, t)}

\* "A due time fires exactly once even if two ticks overlap" (ClaimDue): a row
\* is queued for a due time at most as often as it was given that due time,
\* counting the claims still to be queued and the due time it has now. And an
\* occurrence is lost only to a fault, a request or a publish: until one of
\* them comes the two are equal, so claiming before queueing loses nothing by
\* itself.
FiresOncePerArming ==
    /\ \A i \in Id, d \in Due : started[i][d] + Outstanding(i, d) <= armed[i][d]
    /\ faults = 0 /\ requests = 0 /\ version = 1 /\ flow =>
          \A i \in Id, d \in Due : rows[i].cron \in Lasting =>
              started[i][d] + Outstanding(i, d) = armed[i][d]

\* The due time of an active row is an occurrence of its own expression in its
\* own zone, whichever of a publish, a request or a tick wrote which column.
\* Types included: exactly the active rows have a due time.
DueTimesAreOccurrences ==
    /\ TypeOK
    /\ \A i \in Id : rows[i].on =>
          Occurs(SpecOf(rows[i]), rows[i].next) \/ rows[i] \in Legacy

\* Expressions that name their hours and have one time in an hour the clocks
\* repeat: nothing falls between two occurrences that read alike.
OneTimeAnHour ==
    {spec \in Pinned \X Zone : \A d, e, t \in Due :
        d < t /\ t < e /\ SameWallClock(spec, d, e) => \E u \in {d, e, t} : ~Occurs(spec, u)}

\* A schedule that names its hours runs once per time on the wall, the night
\* the clocks go back included (Next), unless a request rewrote it.
PinnedRunsOncePerWallClock ==
    \A i \in Id \ rewritten : rows[i].there /\ SpecOf(rows[i]) \in OneTimeAnHour =>
        \A d, e \in Due : d # e /\ started[i][d] > 0 /\ started[i][e] > 0
            => ~SameWallClock(SpecOf(rows[i]), d, e)

\* A schedule left behind catches up over a few ticks (maximumCatchUpSteps): in
\* the end no active row is due any more.
CatchesUp == <>[](\A i \in Id : ~IsDue(rows[i], now))

=============================================================================
