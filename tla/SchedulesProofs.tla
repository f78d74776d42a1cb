-------------------------- MODULE SchedulesProofs --------------------------
(***************************************************************************)
(* Proofs about schedules, for every set of expressions and zones, whatever *)
(* they match and show, and for every number of replicas, rows and          *)
(* requests.                                                               *)
(***************************************************************************)
EXTENDS Schedules, FiniteSetTheorems, TLAPS

-----------------------------------------------------------------------------
(* Times. *)

\* The least-number principle. The library states it about a predicate, which
\* cannot be given here; this one is about a set, and follows from the order of
\* the intervals 0..n by inclusion.
LEMMA Least ==
    ASSUME NEW T \in SUBSET Nat, T # {}
    PROVE  \E x \in T : \A y \in T : x <= y
<1>1. PICK F : F = {0..n : n \in T}
  OBVIOUS
<1>2. PICK R : R = StrictSubsetOrdering(Nat)
  OBVIOUS
<1>3. \A A \in F : A \in FiniteSubsetsOf(Nat)
  <2>1. SUFFICES ASSUME NEW n \in T PROVE 0..n \in FiniteSubsetsOf(Nat)
    BY <1>1
  <2>2. n \in Int /\ 0..n \in SUBSET Nat
    OBVIOUS
  <2>3. IsFiniteSet(0..n)
    BY <2>2, FS_Interval
  <2> QED BY <2>2, <2>3 DEF FiniteSubsetsOf
<1>4. IsWellFoundedOn(R, FiniteSubsetsOf(Nat)) /\ F # {}
  BY <1>1, <1>2, FS_StrictSubsetOrderingWellFounded
<1>5. PICK A \in F : \A B \in F : <<B, A>> \notin R
  BY <1>3, <1>4, WFMin
<1>6. PICK m \in T : A = 0..m
  BY <1>1
<1>7. ASSUME NEW n \in T PROVE m <= n
  <2>1. 0..n \in F /\ m \in Nat /\ n \in Nat
    BY <1>1
  <2>2. <<0..n, 0..m>> \notin R
    BY <1>5, <1>6, <2>1
  <2>3. SUFFICES ASSUME n < m PROVE FALSE
    BY <2>1
  <2>4. 0..n \subseteq 0..m /\ 0..n # 0..m
    <3>1. m \in 0..m /\ m \notin 0..n
      BY <2>1, <2>3
    <3> QED BY <2>1, <2>3, <3>1
  <2> QED BY <1>2, <2>1, <2>2, <2>4 DEF StrictSubsetOrdering
<1> QED BY <1>7

LEMMA Bounds ==
    /\ SearchLimit \in Nat \ {0} /\ MaxCatchUp \in Nat /\ MaxTime \in Nat \ {0}
    /\ Due = 0..(MaxTime + 2 * SearchLimit) /\ Due \subseteq Nat
    /\ Never \notin Due /\ NoTime \notin Due /\ Never \notin Nat /\ NoTime \notin Nat
BY ScheduleAssumption DEF Due, Never, NoTime

\* The search finds the first occurrence within its limit.
LEMMA SearchIs ==
    ASSUME NEW spec, NEW after \in Nat, SearchNext(spec, after) # Never
    PROVE  /\ SearchNext(spec, after) \in (after + 1)..(after + SearchLimit)
           /\ Occurs(spec, SearchNext(spec, after))
<1>1. PICK hits : hits = {t \in (after + 1)..(after + SearchLimit) : Occurs(spec, t)}
  OBVIOUS
<1>2. SearchNext(spec, after) = IF hits = {} THEN Never
                                ELSE CHOOSE t \in hits : \A u \in hits : t <= u
  BY <1>1 DEF SearchNext
<1>3. hits # {} /\ hits \in SUBSET Nat
  BY <1>1, <1>2, Bounds
<1>4. \E t \in hits : \A u \in hits : t <= u
  BY <1>3, Least
<1>5. SearchNext(spec, after) \in hits
  BY <1>2, <1>3, <1>4
<1> QED BY <1>1, <1>5

LEMMA NextIs ==
    ASSUME NEW spec, NEW after \in Nat, NextRun(spec, after) # Never
    PROVE  /\ NextRun(spec, after) \in (after + 1)..(after + 2 * SearchLimit)
           /\ Occurs(spec, NextRun(spec, after))
<1>1. PICK first : first = SearchNext(spec, after)
  OBVIOUS
<1>2. PICK second : second = SearchNext(spec, first)
  OBVIOUS
<1>3. NextRun(spec, after) = IF spec[1] \in Pinned /\ first # Never
                                /\ SameWallClock(spec, after, first)
                             THEN second ELSE first
  BY <1>1, <1>2 DEF NextRun
<1>4. first # Never
  BY <1>3
<1>5. first \in (after + 1)..(after + SearchLimit) /\ Occurs(spec, first)
  BY <1>1, <1>4, SearchIs
<1>6. CASE NextRun(spec, after) = first
  BY <1>5, <1>6, Bounds
<1>7. CASE NextRun(spec, after) = second
  <2>1. first \in Nat
    BY <1>5, Bounds
  <2>2. second \in (first + 1)..(first + SearchLimit) /\ Occurs(spec, second)
    BY <1>2, <1>7, <2>1, SearchIs
  <2> QED BY <1>5, <1>7, <2>1, <2>2, Bounds
<1> QED BY <1>3, <1>6, <1>7

\* The loop of the catch-up stays in every set that its steps stay in.
LEMMA CatchUpStaysIn ==
    ASSUME NEW spec, NEW due, NEW at, NEW S, NextRun(spec, due) \in S,
           \A t \in S : ~(t = Never \/ t > at) => NextRun(spec, t) \in S
    PROVE  CatchUp(spec, due, at) \in S
<1> DEFINE Body(f, n) == IF n = 0 THEN NextRun(spec, due)
                         ELSE IF f[n-1] = Never \/ f[n-1] > at THEN f[n-1]
                         ELSE NextRun(spec, f[n-1])
           Walk(f, m) == f = [n \in 0..m |-> Body(f, n)]
<1>1. \A m \in 0..MaxCatchUp : \E f : Walk(f, m)
  <2>1. PICK bad : bad = {m \in 0..MaxCatchUp : ~\E f : Walk(f, m)}
    OBVIOUS
  <2>2. SUFFICES ASSUME bad # {} PROVE FALSE
    BY <2>1
  <2>a. bad \in SUBSET Nat
    BY <2>1, Bounds
  <2>3. PICK m \in bad : \A k \in bad : m <= k
    BY <2>a, <2>2, Least
  <2>4. m \in 0..MaxCatchUp /\ m \in Nat
    BY <2>1, Bounds
  <2>5. CASE m = 0
    <3>1. PICK f : f = [n \in 0..0 |-> NextRun(spec, due)]
      OBVIOUS
    <3>2. Walk(f, 0)
      BY <3>1
    <3> QED BY <2>1, <2>5, <3>2
  <2>6. CASE m > 0
    <3>1. m - 1 \in 0..MaxCatchUp /\ m - 1 \notin bad
      BY <2>3, <2>4, <2>6, Bounds
    <3>2. PICK g : Walk(g, m - 1)
      BY <2>1, <3>1
    <3>3. PICK last : last = Body(g, m)
      OBVIOUS
    <3>4. PICK f : f = [n \in 0..m |-> IF n = m THEN last ELSE g[n]]
      OBVIOUS
    <3>5. \A n \in 0..m : f[n] = Body(f, n)
      <4>1. SUFFICES ASSUME NEW n \in 0..m PROVE f[n] = Body(f, n)
        OBVIOUS
      <4>2. n = 0 \/ (n - 1 \in 0..m /\ n - 1 # m)
        BY <2>4, <4>1
      <4>3. n # 0 => f[n-1] = g[n-1]
        BY <3>4, <4>2
      <4>4. n # m => n \in 0..(m - 1)
        BY <2>4, <4>1
      <4>5. n # m => g[n] = Body(g, n)
        BY <3>2, <4>4
      <4> QED BY <3>3, <3>4, <4>3, <4>5
    <3>6. Walk(f, m)
      BY <3>4, <3>5
    <3> QED BY <2>1, <3>6
  <2> QED BY <2>4, <2>5, <2>6
<1>2. PICK f : f = (CHOOSE g : Walk(g, MaxCatchUp))
  OBVIOUS
<1>3. Walk(f, MaxCatchUp)
  <2>1. MaxCatchUp \in 0..MaxCatchUp
    BY Bounds
  <2>2. \E g : Walk(g, MaxCatchUp)
    BY <1>1, <2>1
  <2> HIDE DEF Walk
  <2> QED BY <1>2, <2>2
<1>4. CatchUp(spec, due, at) = f[MaxCatchUp]
  BY <1>2 DEF CatchUp
<1>5. \A m \in 0..MaxCatchUp : f[m] \in S
  <2>1. PICK bad : bad = {m \in 0..MaxCatchUp : f[m] \notin S}
    OBVIOUS
  <2>2. SUFFICES ASSUME bad # {} PROVE FALSE
    BY <2>1
  <2>a. bad \in SUBSET Nat
    BY <2>1, Bounds
  <2>3. PICK m \in bad : \A k \in bad : m <= k
    BY <2>a, <2>2, Least
  <2>4. m \in 0..MaxCatchUp /\ m \in Nat /\ f[m] = Body(f, m)
    BY <1>3, <2>1, Bounds
  <2>5. m # 0
    BY <2>1, <2>4
  <2>6. m - 1 \in 0..MaxCatchUp /\ m - 1 \notin bad
    BY <2>3, <2>4, <2>5, Bounds
  <2>7. f[m-1] \in S
    BY <2>1, <2>6
  <2>8. f[m] \in S
    BY <2>4, <2>5, <2>7
  <2> QED BY <2>1, <2>8
<1> QED BY <1>4, <1>5, Bounds

\* A catch-up that ends, ends at an occurrence no earlier than the next one.
LEMMA CaughtUp ==
    ASSUME NEW spec, NEW due \in Nat, NEW at \in 1..MaxTime, due <= at,
           FiresAfter(spec, due), CatchUp(spec, due, at) # Never
    PROVE  LET r == CatchUp(spec, due, at) IN
           r \in Due /\ r >= NextRun(spec, due) /\ r > due /\ Occurs(spec, r)
<1>1. PICK n : n = NextRun(spec, due)
  OBVIOUS
<1>2. n \in Due /\ n > due /\ Occurs(spec, n)
  <2>1. NextRun(spec, due) # Never
    BY DEF FiresAfter
  <2>2. n \in (due + 1)..(due + 2 * SearchLimit) /\ Occurs(spec, n)
    BY <1>1, <2>1, NextIs
  <2> QED BY <2>2, Bounds
<1>3. PICK S : S = {Never} \cup {t \in Due : t >= n /\ Occurs(spec, t)}
  OBVIOUS
<1>4. \A t \in S : ~(t = Never \/ t > at) => NextRun(spec, t) \in S
  <2>1. SUFFICES ASSUME NEW t \in S, t # Never, ~(t > at) PROVE NextRun(spec, t) \in S
    OBVIOUS
  <2>2. t \in Due /\ t \in Nat /\ t >= n /\ n \in Nat
    BY <1>2, <1>3, <2>1, Bounds
  <2>3. CASE NextRun(spec, t) = Never
    BY <1>3, <2>3
  <2>4. CASE NextRun(spec, t) # Never
    <3>1. PICK u : u = NextRun(spec, t)
      OBVIOUS
    <3>2. u \in (t + 1)..(t + 2 * SearchLimit) /\ Occurs(spec, u)
      BY <2>2, <2>4, <3>1, NextIs
    <3>3. u \in Due /\ u >= n
      BY <2>1, <2>2, <3>2, Bounds
    <3> QED BY <1>3, <3>1, <3>2, <3>3
  <2> QED BY <2>3, <2>4
<1>5. NextRun(spec, due) \in S
  BY <1>1, <1>2, <1>3, Bounds
<1>6. CatchUp(spec, due, at) \in S
  BY <1>4, <1>5, CatchUpStaysIn
<1> QED BY <1>1, <1>2, <1>3, <1>6, Bounds

\* Of a schedule that names its hours, the next occurrence after one reads
\* differently, and so does every later one.
LEMMA NextReadsDifferently ==
    ASSUME NEW spec \in OneTimeAnHour, NEW d \in 0..MaxTime, Occurs(spec, d),
           FiresAfter(spec, d)
    PROVE  ~SameWallClock(spec, d, NextRun(spec, d))
<1>1. PICK first : first = SearchNext(spec, d)
  OBVIOUS
<1>2. PICK second : second = SearchNext(spec, first)
  OBVIOUS
<1>3. spec[1] \in Pinned /\ d \in Nat /\ d \in Due
  BY Bounds DEF OneTimeAnHour
<1>4. NextRun(spec, d) = IF first # Never /\ SameWallClock(spec, d, first)
                         THEN second ELSE first
  BY <1>1, <1>2, <1>3 DEF NextRun
<1>5. NextRun(spec, d) # Never /\ first # Never
  BY <1>4 DEF FiresAfter
<1>6. first \in (d + 1)..(d + SearchLimit) /\ Occurs(spec, first)
  BY <1>1, <1>3, <1>5, SearchIs
<1>7. CASE ~SameWallClock(spec, d, first)
  BY <1>4, <1>7
<1>8. CASE SameWallClock(spec, d, first)
  <2>1. first \in Nat /\ NextRun(spec, d) = second /\ second # Never
    BY <1>3, <1>4, <1>5, <1>6, <1>8, Bounds
  <2>2. second \in (first + 1)..(first + SearchLimit) /\ Occurs(spec, second)
    BY <1>2, <2>1, SearchIs
  <2>3. first \in Due /\ second \in Due /\ d < first /\ first < second
    BY <1>3, <1>6, <2>1, <2>2, Bounds
  <2>4. ~SameWallClock(spec, d, second)
    BY <1>3, <1>6, <2>2, <2>3 DEF OneTimeAnHour
  <2> QED BY <2>1, <2>4
<1> QED BY <1>7, <1>8

LEMMA LaterReadsDifferently ==
    ASSUME NEW spec \in OneTimeAnHour, NEW d \in 0..MaxTime, NEW r \in Due, NEW e \in Due,
           Occurs(spec, e), Occurs(spec, d), Occurs(spec, r), FiresAfter(spec, d),
           e <= d, r >= NextRun(spec, d)
    PROVE  ~SameWallClock(spec, e, r)
<1>1. d \in Due /\ d \in Nat /\ e \in Nat /\ r \in Nat
  BY Bounds
<1>2. PICK n : n = NextRun(spec, d)
  OBVIOUS
<1>3. n \in (d + 1)..(d + 2 * SearchLimit) /\ Occurs(spec, n) /\ n \in Due
  <2>1. n \in (d + 1)..(d + 2 * SearchLimit) /\ Occurs(spec, n)
    BY <1>1, <1>2, NextIs DEF FiresAfter
  <2> QED BY <2>1, Bounds
<1>4. CASE e < d
  <2>1. d < r
    BY <1>1, <1>2, <1>3, Bounds
  <2> QED BY <1>1, <1>4, <2>1 DEF OneTimeAnHour
<1>5. CASE e = d /\ r = n
  BY <1>2, <1>5, NextReadsDifferently
<1>6. CASE e = d /\ r # n
  <2>1. d < n /\ n < r
    BY <1>1, <1>2, <1>3, <1>6, Bounds
  <2> QED BY <1>1, <1>3, <1>6, <2>1 DEF OneTimeAnHour
<1> QED BY <1>1, <1>4, <1>5, <1>6

-----------------------------------------------------------------------------
(* The invariant. *)

\* What an active row's due time is, and that an id is fresh until it is used.
RowOK(i) ==
    /\ rows[i].there \/ rows[i] = NoRow
    /\ rows[i].on => \/ rows[i] \in Legacy
                     \/ rows[i].next > 0 /\ Occurs(SpecOf(rows[i]), rows[i].next)
    /\ i > created => \A d \in Due : armed[i][d] = 0

\* What a request carries to the statement that saves it.
RequestOK ==
    request # Idle =>
        /\ requests > 0
        /\ request.on <=> request.next # NoTime
        /\ request.on => request.next > 0 /\ Occurs(<<request.cron, NoZone>>, request.next)
        /\ request.pc = "save" => request.row.there /\ request.id <= created

\* A replica holds one claim of a row at most, of a version published by then.
ClaimsOK(w) ==
    \A p, q \in pending[w] : p.version <= version /\ (p.id = q.id => p = q)

\* The two clauses of FiresOncePerArming.
Counts(i, d) == started[i][d] + Outstanding(i, d) <= armed[i][d]

Undisturbed == faults = 0 /\ requests = 0 /\ version = 1 /\ flow

CountsExactly(i, d) ==
    Undisturbed /\ rows[i].cron \in Lasting =>
        started[i][d] + Outstanding(i, d) = armed[i][d]

\* A row that no request rewrote was given due times that read differently,
\* all of them occurrences no later than the one it has.
PinnedOK(i) ==
    i \notin rewritten /\ rows[i].there /\ SpecOf(rows[i]) \in OneTimeAnHour =>
        /\ \A d, e \in Due : armed[i][d] > 0 /\ armed[i][e] > 0 /\ d # e
               => ~SameWallClock(SpecOf(rows[i]), d, e)
        /\ rows[i].on /\ rows[i] \notin Legacy =>
               \A d \in Due : armed[i][d] > 0 =>
                   d <= rows[i].next /\ Occurs(SpecOf(rows[i]), d)

RowsInv == \A i \in Id : RowOK(i)
ClaimsInv == \A w \in Replica : ClaimsOK(w)
CountInv == \A i \in Id, d \in Due : Counts(i, d)
ExactInv == \A i \in Id, d \in Due : CountsExactly(i, d)
PinnedInv == \A i \in Id : PinnedOK(i)

SchedInv == TypeOK /\ RowsInv /\ RequestOK /\ ClaimsInv /\ CountInv /\ ExactInv /\ PinnedInv

-----------------------------------------------------------------------------
(* What a step does to a row. *)

Same(i) == rows'[i] = rows[i] /\ armed'[i] = armed[i]
Gone(i) == rows'[i] = NoRow /\ armed'[i] = armed[i]

\* A row written whole: it is armed for its due time when it is active.
Written(i) ==
    /\ rows'[i] \in Row /\ rows'[i].there
    /\ \/ ~rows'[i].on /\ rows'[i].next = NoTime /\ armed'[i] = armed[i]
       \/ /\ rows'[i].on /\ rows'[i].next \in Due /\ rows'[i].next > 0
          /\ Occurs(SpecOf(rows'[i]), rows'[i].next)
          /\ armed'[i] = [armed[i] EXCEPT ![rows'[i].next] = @ + 1]

Fresh(i) == i = created + 1 /\ created' = i /\ Written(i)
Rewritten(i) == i \in rewritten' /\ i <= created /\ Written(i)

\* A row a tick took, and one it gave up.
Taken(i) ==
    /\ rows[i].there /\ rows[i].on /\ ~Retires(rows[i]) /\ rows[i].next <= MaxTime
    /\ \E r \in Due :
          /\ rows'[i] = [rows[i] EXCEPT !.last = rows[i].next, !.next = r]
          /\ r > rows[i].next /\ r >= NextRun(SpecOf(rows[i]), rows[i].next)
          /\ Occurs(SpecOf(rows[i]), r)
          /\ armed'[i] = [armed[i] EXCEPT ![r] = @ + 1]
GivenUp(i) ==
    /\ rows[i].there /\ rows[i].on /\ Retires(rows[i]) /\ rows[i].next <= MaxTime
    /\ rows'[i] = Retired(rows[i]) /\ armed'[i] = armed[i]

Change(i) ==
    \/ Same(i) \/ Gone(i) \/ Fresh(i) \/ Rewritten(i) \/ Taken(i) \/ GivenUp(i)

Bookkept ==
    /\ rows' = [i \in Id |-> rows'[i]] /\ armed' = [i \in Id |-> armed'[i]]
    /\ \A i \in Id : Change(i)

LEMMA Types ==
    ASSUME TypeOK
    PROVE  /\ created \in Nat /\ now \in Nat /\ now \in 1..MaxTime /\ now \in Due
           /\ Id \subseteq Nat /\ 1 \in Id
           /\ \A i \in Id : /\ rows[i] \in Row /\ rows[i].on \in BOOLEAN
                            /\ rows[i].there \in BOOLEAN
                            /\ rows[i].next \in Due \cup {NoTime}
                            /\ armed[i] \in [Due -> Nat] /\ started[i] \in [Due -> Nat]
           /\ Cron # {} /\ NoRow \in Row
<1>1. /\ created \in Nat /\ now \in Nat /\ now \in 1..MaxTime /\ now \in Due
      /\ Id \subseteq Nat /\ 1 \in Id
  BY ScheduleAssumption, Bounds DEF TypeOK, Id
<1>2. \A i \in Id : /\ rows[i] \in Row /\ rows[i].on \in BOOLEAN
                    /\ rows[i].there \in BOOLEAN
                    /\ rows[i].next \in Due \cup {NoTime}
                    /\ armed[i] \in [Due -> Nat] /\ started[i] \in [Due -> Nat]
  BY DEF TypeOK, Row
<1>3. rows[1].cron \in Cron
  BY <1>1, <1>2 DEF Row
<1>4. NoRow \in Row
  BY <1>3, ScheduleAssumption DEF NoRow, Row
<1> QED BY <1>1, <1>2, <1>3, <1>4

\* An active row's due time is a time.
LEMMA ActiveIsDue ==
    ASSUME TypeOK, RowsInv, NEW i \in Id, rows[i].on
    PROVE  rows[i].there /\ rows[i].next \in Due /\ rows[i].next \in Nat
<1>1. rows[i].there
  <2>1. rows[i].there \/ rows[i] = NoRow
    BY DEF RowsInv, RowOK
  <2>2. ~NoRow.on
    BY DEF NoRow
  <2> QED BY <2>1, <2>2
<1>2. rows[i].next # NoTime
  BY <1>1 DEF TypeOK
<1> QED BY <1>1, <1>2, Types, Bounds

\* What activation writes.
LEMMA ActivatedIs ==
    ASSUME now \in 1..MaxTime, NEW spec \in Trigger, FiresAfter(spec, now)
    PROVE  /\ Activated(spec) \in Row /\ Activated(spec).there /\ Activated(spec).on
           /\ Activated(spec).next \in Due /\ Activated(spec).next > 0
           /\ Occurs(SpecOf(Activated(spec)), Activated(spec).next)
<1>1. PICK n : n = NextRun(spec, now)
  OBVIOUS
<1>2. n \in (now + 1)..(now + 2 * SearchLimit) /\ Occurs(spec, n)
  BY <1>1, NextIs, Bounds DEF FiresAfter
<1>3. n \in Due /\ n > 0
  BY <1>2, Bounds
<1>4. spec[1] \in Cron /\ spec[2] \in Zone /\ spec = <<spec[1], spec[2]>>
  BY ScheduleAssumption
<1>5. Activated(spec) = [there |-> TRUE, owned |-> TRUE, cron |-> spec[1], zone |-> spec[2],
                         on |-> TRUE, next |-> n, last |-> NoTime]
  BY <1>1 DEF Activated
<1>6. SpecOf(Activated(spec)) = spec
  BY <1>4, <1>5 DEF SpecOf
<1>7. Activated(spec) \in Row
  BY <1>3, <1>4, <1>5 DEF Row
<1> QED BY <1>2, <1>3, <1>5, <1>6, <1>7

\* Requests carry due times that the handler computed from its own clock.
LEMMA RequestedIs ==
    ASSUME TypeOK, NEW cron \in Cron, NEW on \in BOOLEAN, FiresAfter(<<cron, NoZone>>, now),
           NEW n, n = (IF on THEN NextRun(<<cron, NoZone>>, now) ELSE NoTime)
    PROVE  /\ n \in Due \cup {NoTime} /\ (on <=> n # NoTime)
           /\ on => n > 0 /\ Occurs(<<cron, NoZone>>, n)
<1>1. CASE on
  <2>1. PICK u : u = NextRun(<<cron, NoZone>>, now)
    OBVIOUS
  <2>2. PICK spec : spec = <<cron, NoZone>>
    OBVIOUS
  <2>3. u \in (now + 1)..(now + 2 * SearchLimit) /\ Occurs(spec, u)
    BY <2>1, <2>2, Types, NextIs DEF FiresAfter
  <2>4. u \in Due /\ u > 0 /\ u # NoTime
    BY <2>3, Types, Bounds
  <2> QED BY <1>1, <2>1, <2>2, <2>3, <2>4
<1>2. CASE ~on
  BY <1>2
<1> QED BY <1>1, <1>2

LEMMA WholeRows ==
    ASSUME TypeOK
    PROVE  rows = [i \in Id |-> rows[i]] /\ armed = [i \in Id |-> armed[i]]
BY DEF TypeOK

\* A step that leaves rows and arming alone.
LEMMA SameBookkept ==
    ASSUME TypeOK, UNCHANGED <<rows, armed>>
    PROVE  Bookkept
BY WholeRows DEF Bookkept, Change, Same

\* removeSchedules.
LEMMA RemovedBookkept ==
    ASSUME TypeOK, NEW owned \in BOOLEAN, rows' = Removed(owned), UNCHANGED armed
    PROVE  Bookkept
<1>1. \A i \in Id : rows'[i] = NoRow \/ rows'[i] = rows[i]
  BY DEF Removed
<1>2. rows' = [i \in Id |-> rows'[i]]
  BY DEF Removed
<1> QED BY <1>1, <1>2, WholeRows DEF Bookkept, Change, Same, Gone

LEMMA PublishBookkept ==
    ASSUME TypeOK, NEW spec \in Trigger, Publish(spec)
    PROVE  Bookkept
<1>1. PICK i : i = created + 1
  OBVIOUS
<1>2. PICK row : row = Activated(spec)
  OBVIOUS
<1>3. /\ row \in Row /\ row.there /\ row.on /\ row.next \in Due /\ row.next > 0
      /\ Occurs(SpecOf(row), row.next)
  BY <1>2, ActivatedIs, Types DEF Publish
<1>4. /\ i \in Id /\ created' = i /\ rows' = [Removed(TRUE) EXCEPT ![i] = row]
      /\ rows'[i] = row /\ rows' = [j \in Id |-> rows'[j]]
  <2>1. i \in Id
    BY <1>1, Types, ScheduleAssumption DEF Publish, Id, TypeOK
  <2> QED BY <1>1, <1>2, <2>1 DEF Publish, Removed
<1>5. armed' = [armed EXCEPT ![i][row.next] = @ + 1]
  BY <1>1, <1>4 DEF Publish, Arm
<1>6. armed' = [j \in Id |-> armed'[j]] /\ \A j \in Id : j # i => armed'[j] = armed[j]
  BY <1>5, WholeRows
<1>7. armed'[i] = [armed[i] EXCEPT ![row.next] = @ + 1]
  BY <1>4, <1>5, WholeRows
<1>8. Fresh(i)
  BY <1>1, <1>3, <1>4, <1>7 DEF Fresh, Written
<1>9. ASSUME NEW j \in Id, j # i PROVE Same(j) \/ Gone(j)
  BY <1>4, <1>6, <1>9 DEF Same, Gone, Removed
<1> QED BY <1>4, <1>6, <1>8, <1>9 DEF Bookkept, Change

\* What the request under way is, from where it stands.
LEMMA RequestReads ==
    ASSUME TypeOK, RequestOK, request.pc = "read"
    PROVE  /\ request # Idle
           /\ request.cron \in Cron /\ request.on \in BOOLEAN
           /\ request.next \in Due \cup {NoTime}
           /\ request.on <=> request.next # NoTime
           /\ request.on => request.next > 0 /\ Occurs(<<request.cron, NoZone>>, request.next)
<1>1. request # Idle
  BY DEF Idle
<1>2. request \in [pc : {"read"}, cron : Cron, on : BOOLEAN, next : Due \cup {NoTime}]
  BY <1>1 DEF TypeOK, Request
<1> QED BY <1>1, <1>2 DEF RequestOK

LEMMA RequestSaves ==
    ASSUME TypeOK, RequestOK, request.pc = "save"
    PROVE  /\ request # Idle
           /\ request.id \in Id /\ request.id <= created
           /\ request.row \in Row /\ request.row.there
           /\ request.cron \in Cron /\ request.on \in BOOLEAN
           /\ request.next \in Due \cup {NoTime}
           /\ request.on <=> request.next # NoTime
           /\ request.on => request.next > 0 /\ Occurs(<<request.cron, NoZone>>, request.next)
<1>1. request # Idle
  BY DEF Idle
<1>2. request \in [pc : {"save"}, id : Id, row : Row, cron : Cron, on : BOOLEAN,
                   next : Due \cup {NoTime}]
  BY <1>1 DEF TypeOK, Request
<1> QED BY <1>1, <1>2 DEF RequestOK

LEMMA CreateBookkept ==
    ASSUME TypeOK, RequestOK, Create
    PROVE  Bookkept
<1>1. PICK i : i = created + 1
  OBVIOUS
<1>2. PICK row : row = [there |-> TRUE, owned |-> FALSE, cron |-> request.cron, zone |-> NoZone,
                        on |-> request.on, next |-> request.next, last |-> NoTime]
  OBVIOUS
<1>3. /\ row \in Row /\ row.there /\ row.on = request.on /\ row.next = request.next
      /\ SpecOf(row) = <<request.cron, NoZone>>
  BY <1>2, RequestReads, ScheduleAssumption DEF Create, Row, SpecOf
<1>4. i \in Id
  BY <1>1, Types, ScheduleAssumption DEF Create, Id, TypeOK
<1>5. /\ created' = i /\ rows' = [rows EXCEPT ![i] = row]
      /\ rows'[i] = row /\ \A j \in Id : j # i => rows'[j] = rows[j]
      /\ rows' = [j \in Id |-> rows'[j]]
  BY <1>1, <1>2, <1>4, WholeRows DEF Create
<1>6. CASE request.on
  <2>1. armed' = [armed EXCEPT ![i][row.next] = @ + 1]
    BY <1>1, <1>3, <1>6 DEF Create, Arm
  <2>2. /\ armed' = [j \in Id |-> armed'[j]] /\ \A j \in Id : j # i => armed'[j] = armed[j]
        /\ armed'[i] = [armed[i] EXCEPT ![row.next] = @ + 1]
    BY <1>4, <2>1, WholeRows
  <2>3. row.on /\ row.next \in Due /\ row.next > 0 /\ Occurs(SpecOf(row), row.next)
    BY <1>3, <1>6, RequestReads DEF Create
  <2>4. Fresh(i)
    BY <1>1, <1>3, <1>5, <2>2, <2>3 DEF Fresh, Written
  <2>5. \A j \in Id : j # i => Same(j)
    BY <1>5, <2>2 DEF Same
  <2> QED BY <1>5, <2>2, <2>4, <2>5 DEF Bookkept, Change
<1>7. CASE ~request.on
  <2>1. armed' = armed
    BY <1>7 DEF Create
  <2>2. ~row.on /\ row.next = NoTime
    BY <1>3, <1>7, RequestReads DEF Create
  <2>3. Fresh(i)
    BY <1>1, <1>3, <1>5, <2>1, <2>2 DEF Fresh, Written
  <2>4. \A j \in Id : j # i => Same(j)
    BY <1>5, <2>1 DEF Same
  <2> QED BY <1>5, <2>1, <2>3, <2>4, WholeRows DEF Bookkept, Change
<1> QED BY <1>6, <1>7

LEMMA SaveBookkept ==
    ASSUME TypeOK, RequestOK, UpdateSave
    PROVE  Bookkept
<1>1. PICK i : i = request.id
  OBVIOUS
<1>2. PICK row : row = Saved(request)
  OBVIOUS
<1>3. /\ row \in Row /\ row.there /\ row.on = request.on /\ row.next = request.next
      /\ SpecOf(row) = <<request.cron, NoZone>>
  <2>1. row = [request.row EXCEPT !.cron = request.cron, !.zone = NoZone,
                                  !.on = request.on, !.next = request.next]
    BY <1>2 DEF Saved
  <2>2. request.pc = "save"
    BY DEF UpdateSave
  <2> QED BY <2>1, <2>2, RequestSaves, ScheduleAssumption DEF Row, SpecOf
<1>4. i \in Id /\ i <= created /\ i \in rewritten'
  BY <1>1, RequestSaves DEF UpdateSave
<1>5. /\ rows' = [rows EXCEPT ![i] = row]
      /\ rows'[i] = row /\ \A j \in Id : j # i => rows'[j] = rows[j]
      /\ rows' = [j \in Id |-> rows'[j]]
  BY <1>1, <1>2, <1>4, WholeRows DEF UpdateSave
<1>6. CASE request.on
  <2>1. armed' = [armed EXCEPT ![i][row.next] = @ + 1]
    BY <1>1, <1>3, <1>6 DEF UpdateSave, Arm
  <2>2. /\ armed' = [j \in Id |-> armed'[j]] /\ \A j \in Id : j # i => armed'[j] = armed[j]
        /\ armed'[i] = [armed[i] EXCEPT ![row.next] = @ + 1]
    BY <1>4, <2>1, WholeRows
  <2>3. row.on /\ row.next \in Due /\ row.next > 0 /\ Occurs(SpecOf(row), row.next)
    BY <1>3, <1>6, RequestSaves DEF UpdateSave
  <2>4. Rewritten(i)
    BY <1>3, <1>4, <1>5, <2>2, <2>3 DEF Rewritten, Written
  <2>5. \A j \in Id : j # i => Same(j)
    BY <1>5, <2>2 DEF Same
  <2> QED BY <1>5, <2>2, <2>4, <2>5 DEF Bookkept, Change
<1>7. CASE ~request.on
  <2>1. armed' = armed
    BY <1>7 DEF UpdateSave
  <2>2. ~row.on /\ row.next = NoTime
    BY <1>3, <1>7, RequestSaves DEF UpdateSave
  <2>3. Rewritten(i)
    BY <1>3, <1>4, <1>5, <2>1, <2>2 DEF Rewritten, Written
  <2>4. \A j \in Id : j # i => Same(j)
    BY <1>5, <2>1 DEF Same
  <2> QED BY <1>5, <2>1, <2>3, <2>4, WholeRows DEF Bookkept, Change
<1> QED BY <1>6, <1>7

LEMMA DeleteBookkept ==
    ASSUME TypeOK, NEW i \in Id, DeleteRow(i)
    PROVE  Bookkept
<1>1. /\ rows' = [j \in Id |-> rows'[j]]
      /\ rows'[i] = NoRow /\ \A j \in Id : j # i => rows'[j] = rows[j]
  BY WholeRows DEF DeleteRow
<1>2. armed' = armed
  BY DEF DeleteRow
<1> QED BY <1>1, <1>2, WholeRows DEF Bookkept, Change, Same, Gone

\* The rows a tick at this time claims.
Claimed(at) == Claimable({i \in Id : IsDue(rows[i], at)}, at)

ClaimOf(i) == [id |-> i, due |-> rows[i].next, version |-> version]

LEMMA ClaimBookkept ==
    ASSUME TypeOK, RowsInv, NEW w \in Replica, NEW at \in 1..now, ClaimDue(w, at)
    PROVE  /\ Bookkept
           /\ \A i \in Id : /\ i \in Claimed(at) => Taken(i)
                            /\ i \notin Claimed(at) => Same(i) \/ GivenUp(i)
           /\ pending[w] = {}
           /\ pending' = [pending EXCEPT ![w] = {ClaimOf(i) : i \in Claimed(at)}]
<1>1. PICK due : due = {i \in Id : IsDue(rows[i], at)}
  OBVIOUS
<1>2. PICK claimed : claimed = Claimable(due, at)
  OBVIOUS
<1>3. claimed = Claimed(at)
  BY <1>1, <1>2 DEF Claimed
<1>4. /\ pending[w] = {}
      /\ \A i \in claimed : CatchUp(SpecOf(rows[i]), rows[i].next, at) # Never
      /\ rows' = [i \in Id |->
            IF i \in claimed THEN Advanced(rows[i], at)
            ELSE IF i \in due /\ Retires(rows[i]) THEN Retired(rows[i]) ELSE rows[i]]
      /\ armed' = [i \in Id |-> IF i \in claimed
                                THEN [armed[i] EXCEPT ![rows'[i].next] = @ + 1] ELSE armed[i]]
      /\ pending' = [pending EXCEPT ![w] = {ClaimOf(i) : i \in claimed}]
  BY <1>1, <1>2 DEF ClaimDue, ClaimOf
<1>5. at \in 1..MaxTime /\ at \in Nat /\ MaxTime \in Nat
  BY Types, Bounds
<1>6. \A i \in due : /\ i \in Id /\ rows[i].there /\ rows[i].on
                     /\ rows[i].next \in Nat /\ rows[i].next <= at /\ rows[i].next <= MaxTime
  <2>1. SUFFICES ASSUME NEW i \in due
                 PROVE  /\ i \in Id /\ rows[i].there /\ rows[i].on
                        /\ rows[i].next \in Nat /\ rows[i].next <= at /\ rows[i].next <= MaxTime
    OBVIOUS
  <2>2. i \in Id /\ rows[i].there /\ rows[i].on /\ rows[i].next <= at
    BY <1>1 DEF IsDue
  <2>3. rows[i].next \in Nat
    BY <2>2, ActiveIsDue
  <2> QED BY <1>5, <2>2, <2>3
<1>7. claimed \subseteq due /\ \A i \in due : i \notin claimed => Retires(rows[i])
  BY <1>2 DEF Claimable
<1>8. \A i \in claimed : Taken(i)
  <2>1. SUFFICES ASSUME NEW i \in claimed PROVE Taken(i)
    OBVIOUS
  <2>2. PICK d : d = rows[i].next
    OBVIOUS
  <2>3. PICK spec : spec = SpecOf(rows[i])
    OBVIOUS
  <2>4. PICK r : r = CatchUp(spec, d, at)
    OBVIOUS
  <2>5. i \in due /\ i \in Id /\ d \in Nat /\ d <= at
    BY <1>6, <1>7, <2>2
  <2>6. ~Retires(rows[i])
    BY <1>2 DEF Claimable
  <2>7. FiresAfter(spec, d) /\ CatchUp(spec, d, at) # Never
    BY <1>4, <2>2, <2>3, <2>6 DEF Retires
  <2>8. r \in Due /\ r >= NextRun(spec, d) /\ r > d /\ Occurs(spec, r)
    BY <1>5, <2>4, <2>5, <2>7, CaughtUp
  <2>9. rows'[i] = [rows[i] EXCEPT !.last = rows[i].next, !.next = r]
    BY <1>4, <2>2, <2>3, <2>4, <2>5 DEF Advanced
  <2>10. rows'[i].next = r
    BY <2>5, <2>9, Types DEF Row
  <2>11. armed'[i] = [armed[i] EXCEPT ![r] = @ + 1]
    BY <1>4, <2>5, <2>10
  <2> QED BY <1>6, <2>2, <2>3, <2>5, <2>6, <2>8, <2>9, <2>11 DEF Taken
<1>9. \A i \in Id : i \notin claimed => Same(i) \/ GivenUp(i)
  <2>1. SUFFICES ASSUME NEW i \in Id, i \notin claimed PROVE Same(i) \/ GivenUp(i)
    OBVIOUS
  <2>2. armed'[i] = armed[i]
    BY <1>4, <2>1
  <2>3. CASE i \in due
    BY <1>4, <1>6, <1>7, <2>1, <2>2, <2>3 DEF GivenUp
  <2>4. CASE i \notin due
    BY <1>4, <2>1, <2>2, <2>4 DEF Same
  <2> QED BY <2>3, <2>4
<1>10. rows' = [i \in Id |-> rows'[i]] /\ armed' = [i \in Id |-> armed'[i]]
  <2>1. PICK f : f = rows'
    OBVIOUS
  <2>2. f = [i \in Id |-> f[i]]
    BY <1>4, <2>1
  <2>3. PICK g : g = armed'
    OBVIOUS
  <2>4. g = [i \in Id |-> g[i]]
    BY <1>4, <2>3
  <2> QED BY <2>1, <2>2, <2>3, <2>4
<1> QED BY <1>3, <1>4, <1>8, <1>9, <1>10 DEF Bookkept, Change

\* Every step keeps the books of rows and arming.
LEMMA NextBookkept ==
    ASSUME SchedInv, [Next]_vars
    PROVE  Bookkept
<1> USE DEF SchedInv
<1>1. CASE Next
  <2>1. CASE Advance
    BY <2>1, SameBookkept DEF Advance
  <2>2. CASE PublishWithout
    BY <2>2, RemovedBookkept DEF PublishWithout
  <2>3. CASE Deactivate
    BY <2>3, RemovedBookkept DEF Deactivate
  <2>4. ASSUME NEW spec \in Trigger, Publish(spec) PROVE Bookkept
    BY <2>4, PublishBookkept
  <2>5. ASSUME NEW cron \in Cron, NEW on \in BOOLEAN, Begin(cron, on) PROVE Bookkept
    BY <2>5, SameBookkept DEF Begin
  <2>6. CASE Create
    BY <2>6, CreateBookkept
  <2>7. CASE UpdateSave
    BY <2>7, SaveBookkept
  <2>8. ASSUME NEW i \in Id, UpdateRead(i) PROVE Bookkept
    BY <2>8, SameBookkept DEF UpdateRead
  <2>9. ASSUME NEW i \in Id, DeleteRow(i) PROVE Bookkept
    BY <2>9, DeleteBookkept
  <2>10. ASSUME NEW w \in Replica, NEW at \in 1..now, ClaimDue(w, at) PROVE Bookkept
    BY <2>10, ClaimBookkept
  <2>11. ASSUME NEW w \in Replica, Queue(w) \/ QueueFails(w) \/ Crash(w) PROVE Bookkept
    BY <2>11, SameBookkept DEF Queue, QueueFails, Crash
  <2> QED BY <1>1, <2>1, <2>2, <2>3, <2>4, <2>5, <2>6, <2>7, <2>8, <2>9, <2>10, <2>11 DEF Next
<1>2. CASE UNCHANGED vars
  BY <1>2, SameBookkept DEF vars
<1> QED BY <1>1, <1>2

\* The counters and flags that a step moves.
Onward ==
    /\ now' \in 1..MaxTime /\ flow' \in BOOLEAN
    /\ version' \in 1..MaxVersion /\ version <= version'
    /\ created' \in 0..MaxRows /\ created <= created'
    /\ requests' \in 0..MaxRequests /\ faults' \in 0..MaxFaults
    /\ rewritten \subseteq rewritten' /\ rewritten' \subseteq Id
    /\ started' \in [Id -> [Due -> Nat]]

LEMMA StepsOnward ==
    ASSUME SchedInv, [Next]_vars
    PROVE  Onward /\ (Undisturbed' => Undisturbed)
<1>1. /\ now \in 1..MaxTime /\ flow \in BOOLEAN /\ version \in 1..MaxVersion
      /\ created \in 0..MaxRows /\ requests \in 0..MaxRequests /\ faults \in 0..MaxFaults
      /\ rewritten \subseteq Id /\ started \in [Id -> [Due -> Nat]]
      /\ MaxTime \in Nat /\ MaxVersion \in Nat /\ MaxRows \in Nat /\ MaxRequests \in Nat
      /\ MaxFaults \in Nat
  BY ScheduleAssumption DEF SchedInv, TypeOK
<1>2. TypeOK /\ RequestOK /\ pending \in [Replica -> SUBSET Pending]
  BY DEF SchedInv, TypeOK
<1>3. CASE Next
  <2>1. CASE Advance
    BY <1>1, <2>1 DEF Advance, Onward, Undisturbed
  <2>2. CASE PublishWithout
    BY <1>1, <2>2 DEF PublishWithout, Onward, Undisturbed
  <2>3. CASE Deactivate
    <3>1. ~flow' /\ flow' \in BOOLEAN
      BY <2>3 DEF Deactivate
    <3>2. UNCHANGED <<now, version, created, requests, started, rewritten, faults>>
      BY <2>3 DEF Deactivate
    <3>3. Onward
      BY <1>1, <3>1, <3>2 DEF Onward
    <3> QED BY <3>1, <3>3 DEF Undisturbed
  <2>4. ASSUME NEW spec \in Trigger, Publish(spec)
        PROVE  Onward /\ (Undisturbed' => Undisturbed)
    BY <1>1, <2>4 DEF Publish, Onward, Undisturbed
  <2>5. ASSUME NEW cron \in Cron, NEW on \in BOOLEAN, Begin(cron, on)
        PROVE  Onward /\ (Undisturbed' => Undisturbed)
    BY <1>1, <2>5 DEF Begin, Onward, Undisturbed
  <2>6. CASE Create
    BY <1>1, <2>6 DEF Create, Onward, Undisturbed
  <2>7. CASE UpdateSave
    <3>1. request.id \in Id
      BY <1>2, <2>7, RequestSaves DEF UpdateSave
    <3> QED BY <1>1, <2>7, <3>1 DEF UpdateSave, Onward, Undisturbed
  <2>8. ASSUME NEW i \in Id, UpdateRead(i)
        PROVE  Onward /\ (Undisturbed' => Undisturbed)
    BY <1>1, <2>8 DEF UpdateRead, Onward, Undisturbed
  <2>9. ASSUME NEW i \in Id, DeleteRow(i)
        PROVE  Onward /\ (Undisturbed' => Undisturbed)
    BY <1>1, <2>9 DEF DeleteRow, Onward, Undisturbed
  <2>10. ASSUME NEW w \in Replica, NEW at \in 1..now, ClaimDue(w, at)
         PROVE  Onward /\ (Undisturbed' => Undisturbed)
    BY <1>1, <2>10 DEF ClaimDue, Onward, Undisturbed
  <2>11. ASSUME NEW w \in Replica, Queue(w)
         PROVE  Onward /\ (Undisturbed' => Undisturbed)
    <3>1. PICK p \in pending[w] :
              started' = [started EXCEPT ![p.id][p.due] = IF Accepts(p) THEN @ + 1 ELSE @]
      BY <2>11 DEF Queue
    <3>2. p.id \in Id /\ p.due \in Due
      BY <1>2, <2>11 DEF Pending
    <3>3. started' \in [Id -> [Due -> Nat]]
      <4>1. PICK n : n = IF Accepts(p) THEN started[p.id][p.due] + 1 ELSE started[p.id][p.due]
        OBVIOUS
      <4>2. n \in Nat /\ started' = [started EXCEPT ![p.id][p.due] = n]
        BY <1>1, <3>1, <3>2, <4>1
      <4> QED BY <1>1, <3>2, <4>2
    <3> QED BY <1>1, <2>11, <3>3 DEF Queue, Onward, Undisturbed
  <2>12. ASSUME NEW w \in Replica, QueueFails(w)
         PROVE  Onward /\ (Undisturbed' => Undisturbed)
    BY <1>1, <2>12 DEF QueueFails, Fault, Onward, Undisturbed
  <2>13. ASSUME NEW w \in Replica, Crash(w)
         PROVE  Onward /\ (Undisturbed' => Undisturbed)
    BY <1>1, <2>13 DEF Crash, Fault, Onward, Undisturbed
  <2> QED BY <1>3, <2>1, <2>2, <2>3, <2>4, <2>5, <2>6, <2>7, <2>8, <2>9, <2>10, <2>11,
             <2>12, <2>13 DEF Next
<1>4. CASE UNCHANGED vars
  BY <1>1, <1>4 DEF vars, Onward, Undisturbed
<1> QED BY <1>3, <1>4

\* What a change leaves in a row.
LEMMA ChangeTyped ==
    ASSUME SchedInv, NEW i \in Id, Change(i), Onward
    PROVE  /\ rows'[i] \in Row /\ armed'[i] \in [Due -> Nat]
           /\ rows'[i].there => i <= created' /\ (rows'[i].on <=> rows'[i].next # NoTime)
           /\ RowOK(i)'
<1>1. TypeOK /\ RowsInv /\ RowOK(i) /\ i \in Nat /\ created \in Nat /\ created' \in Nat
  BY Types, ScheduleAssumption DEF SchedInv, RowsInv, Onward
<1>2. /\ rows[i] \in Row /\ armed[i] \in [Due -> Nat] /\ NoRow \in Row
      /\ rows[i].there => i <= created /\ (rows[i].on <=> rows[i].next # NoTime)
      /\ created <= created'
  BY <1>1, Types DEF TypeOK, Onward
<1>3. CASE Same(i)
  BY <1>1, <1>2, <1>3 DEF Same, RowOK
<1>4. CASE Gone(i)
  <2>1. ~NoRow.there /\ ~NoRow.on
    BY DEF NoRow
  <2> QED BY <1>1, <1>2, <1>4, <2>1 DEF Gone, RowOK
<1>5. CASE Written(i) /\ i <= created'
  <2>1. CASE ~rows'[i].on /\ rows'[i].next = NoTime /\ armed'[i] = armed[i]
    BY <1>1, <1>2, <1>5, <2>1 DEF Written, RowOK
  <2>2. CASE /\ rows'[i].on /\ rows'[i].next \in Due /\ rows'[i].next > 0
             /\ Occurs(SpecOf(rows'[i]), rows'[i].next)
             /\ armed'[i] = [armed[i] EXCEPT ![rows'[i].next] = @ + 1]
    <3>1. armed'[i] \in [Due -> Nat]
      BY <1>2, <2>2
    <3>2. rows'[i].next # NoTime
      BY <2>2, Bounds
    <3>3. i > created' => \A d \in Due : armed'[i][d] = 0
      BY <1>1, <1>5
    <3>4. rows'[i] \in Row /\ rows'[i].there
      BY <1>5 DEF Written
    <3>5. RowOK(i)'
      BY <2>2, <3>3, <3>4 DEF RowOK
    <3> QED BY <1>5, <2>2, <3>1, <3>2, <3>4, <3>5
  <2> QED BY <1>5, <2>1, <2>2 DEF Written
<1>6. CASE Fresh(i) \/ Rewritten(i)
  BY <1>1, <1>2, <1>5, <1>6 DEF Fresh, Rewritten
<1>7. CASE Taken(i)
  <2>1. rows[i].there /\ rows[i].on /\ rows[i].next \in Due /\ rows[i].next \in Nat
    BY <1>1, <1>7, ActiveIsDue DEF Taken
  <2>2. PICK r \in Due :
            /\ rows'[i] = [rows[i] EXCEPT !.last = rows[i].next, !.next = r]
            /\ r > rows[i].next /\ Occurs(SpecOf(rows[i]), r)
            /\ armed'[i] = [armed[i] EXCEPT ![r] = @ + 1]
    BY <1>7 DEF Taken
  <2>3. /\ rows'[i] \in Row /\ rows'[i].there /\ rows'[i].on /\ rows'[i].next = r
        /\ SpecOf(rows'[i]) = SpecOf(rows[i])
    BY <1>2, <2>1, <2>2 DEF Row, SpecOf
  <2>4. r \in Nat /\ r > 0 /\ r # NoTime
    BY <2>1, <2>2, Bounds
  <2>5. armed'[i] \in [Due -> Nat]
    BY <1>2, <2>2
  <2>6. i <= created'
    BY <1>1, <1>2, <2>1
  <2> QED BY <1>1, <2>2, <2>3, <2>4, <2>5, <2>6 DEF RowOK
<1>8. CASE GivenUp(i)
  <2>1. rows'[i] = [rows[i] EXCEPT !.on = FALSE, !.next = NoTime] /\ armed'[i] = armed[i]
    BY <1>8 DEF GivenUp, Retired
  <2>2. rows'[i] \in Row /\ rows'[i].there /\ ~rows'[i].on /\ rows'[i].next = NoTime
    BY <1>2, <1>8, <2>1 DEF Row, GivenUp
  <2>3. i <= created'
    BY <1>1, <1>2, <1>8 DEF GivenUp
  <2> QED BY <1>1, <1>2, <2>1, <2>2, <2>3 DEF RowOK
<1> QED BY <1>3, <1>4, <1>6, <1>7, <1>8 DEF Change

-----------------------------------------------------------------------------
(* Requests and claims. *)

LEMMA RequestNext ==
    ASSUME SchedInv, [Next]_vars
    PROVE  request' \in Request /\ RequestOK'
<1>1. TypeOK /\ RowsInv /\ RequestOK /\ request \in Request /\ requests \in Nat /\ created \in Nat
  BY ScheduleAssumption DEF SchedInv, TypeOK
<1>2. created' \in Nat /\ created <= created'
  BY StepsOnward, ScheduleAssumption DEF Onward
<1>3. CASE request' = Idle
  <2>1. Idle \in Request
    BY DEF Request
  <2> QED BY <1>3, <2>1 DEF RequestOK
<1>4. CASE request' = request /\ requests' \in Nat /\ requests <= requests'
  <2>1. CASE request = Idle
    BY <1>3, <1>4, <2>1
  <2>2. CASE request # Idle
    <3>1. /\ requests > 0 /\ (request.on <=> request.next # NoTime)
          /\ request.on => request.next > 0 /\ Occurs(<<request.cron, NoZone>>, request.next)
          /\ request.pc = "save" => request.row.there /\ request.id <= created
      BY <1>1, <2>2 DEF RequestOK
    <3>2. request.pc = "save" => request.id <= created'
      <4>1. request.pc = "save" => request.id \in Id /\ request.id \in Nat
        BY <1>1, RequestSaves, Types
      <4> QED BY <1>1, <1>2, <3>1, <4>1
    <3> QED BY <1>1, <1>4, <3>1, <3>2 DEF RequestOK
  <2> QED BY <2>1, <2>2
<1>5. ASSUME NEW cron \in Cron, NEW on \in BOOLEAN, Begin(cron, on)
      PROVE  request' \in Request /\ RequestOK'
  <2>1. PICK n : n = IF on THEN NextRun(<<cron, NoZone>>, now) ELSE NoTime
    OBVIOUS
  <2>2. request' = [pc |-> "read", cron |-> cron, on |-> on, next |-> n] /\ requests' = requests + 1
    BY <1>5, <2>1 DEF Begin
  <2>3. FiresAfter(<<cron, NoZone>>, now)
    BY <1>5 DEF Begin
  <2>4. /\ n \in Due \cup {NoTime} /\ (on <=> n # NoTime)
        /\ on => n > 0 /\ Occurs(<<cron, NoZone>>, n)
    BY <1>1, <2>1, <2>3, RequestedIs
  <2>5. request' \in Request
    BY <2>2, <2>4 DEF Request
  <2>6. /\ request'.pc = "read" /\ request'.cron = cron /\ request'.on = on /\ request'.next = n
        /\ requests' > 0
    BY <1>1, <2>2
  <2>7. RequestOK'
    BY <2>4, <2>6 DEF RequestOK
  <2> QED BY <2>5, <2>7
<1>6. ASSUME NEW i \in Id, UpdateRead(i) PROVE request' \in Request /\ RequestOK'
  <2>1. CASE ~rows[i].there
    BY <1>3, <1>6, <2>1 DEF UpdateRead
  <2>2. CASE rows[i].there
    <3>1. /\ request.pc = "read" /\ requests' = requests
          /\ request' = [pc |-> "save", id |-> i, row |-> rows[i], cron |-> request.cron,
                         on |-> request.on, next |-> request.next]
      BY <1>6, <2>2 DEF UpdateRead
    <3>2. /\ request # Idle
          /\ request.cron \in Cron /\ request.on \in BOOLEAN
          /\ request.next \in Due \cup {NoTime}
          /\ request.on <=> request.next # NoTime
          /\ request.on => request.next > 0 /\ Occurs(<<request.cron, NoZone>>, request.next)
      BY <1>1, <3>1, RequestReads
    <3>3. rows[i] \in Row /\ i <= created /\ i \in Nat
      BY <1>1, <2>2, Types DEF TypeOK
    <3>4. request' \in Request
      BY <3>1, <3>2, <3>3 DEF Request
    <3>5. /\ request'.pc = "save" /\ request'.id = i /\ request'.row = rows[i]
          /\ request'.cron = request.cron /\ request'.on = request.on
          /\ request'.next = request.next
      BY <3>1
    <3>6. requests' > 0
      BY <1>1, <3>1, <3>2 DEF RequestOK
    <3>7. i <= created'
      BY <1>1, <1>2, <3>3
    <3>8. RequestOK'
      BY <2>2, <3>2, <3>5, <3>6, <3>7 DEF RequestOK
    <3> QED BY <3>4, <3>8
  <2> QED BY <2>1, <2>2
<1>7. CASE Next
  <2>1. CASE Create \/ UpdateSave
    BY <1>3, <2>1 DEF Create, UpdateSave
  <2>2. CASE Advance \/ PublishWithout \/ Deactivate
    <3>1. request' = request /\ requests' = requests
      BY <2>2 DEF Advance, PublishWithout, Deactivate
    <3> QED BY <1>1, <1>4, <3>1
  <2>3. ASSUME NEW spec \in Trigger, Publish(spec) PROVE request' \in Request /\ RequestOK'
    BY <1>1, <1>4, <2>3 DEF Publish
  <2>4. ASSUME NEW i \in Id, DeleteRow(i) PROVE request' \in Request /\ RequestOK'
    BY <1>1, <1>4, <2>4 DEF DeleteRow
  <2>5. ASSUME NEW w \in Replica, NEW at \in 1..now, ClaimDue(w, at)
        PROVE  request' \in Request /\ RequestOK'
    BY <1>1, <1>4, <2>5 DEF ClaimDue
  <2>6. ASSUME NEW w \in Replica, Queue(w) \/ QueueFails(w) \/ Crash(w)
        PROVE  request' \in Request /\ RequestOK'
    <3>1. request' = request /\ requests' = requests
      BY <2>6 DEF Queue, QueueFails, Crash
    <3> QED BY <1>1, <1>4, <3>1
  <2> QED BY <1>5, <1>6, <1>7, <2>1, <2>2, <2>3, <2>4, <2>5, <2>6 DEF Next
<1>8. CASE UNCHANGED vars
  BY <1>1, <1>4, <1>8 DEF vars
<1> QED BY <1>7, <1>8

\* A replica's claims change in three ways only.
Queued(w) ==
    \E p \in pending[w] :
        /\ pending' = [pending EXCEPT ![w] = @ \ {p}]
        /\ rows' = rows /\ armed' = armed
        /\ \/ started' = started
           \/ started' = [started EXCEPT ![p.id][p.due] = @ + 1]

LEMMA ClaimsMove ==
    ASSUME SchedInv, [Next]_vars
    PROVE  \/ pending' = pending /\ started' = started
           \/ \E w \in Replica, at \in 1..now : ClaimDue(w, at)
           \/ \E w \in Replica : Queued(w)
           \/ \E w \in Replica : Crash(w)
<1>1. CASE Next
  <2>1. CASE Advance \/ PublishWithout \/ Deactivate \/ Create \/ UpdateSave
    BY <2>1 DEF Advance, PublishWithout, Deactivate, Create, UpdateSave
  <2>2. ASSUME NEW spec \in Trigger, Publish(spec) PROVE pending' = pending /\ started' = started
    BY <2>2 DEF Publish
  <2>3. ASSUME NEW cron \in Cron, NEW on \in BOOLEAN, Begin(cron, on)
        PROVE  pending' = pending /\ started' = started
    BY <2>3 DEF Begin
  <2>4. ASSUME NEW i \in Id, UpdateRead(i) \/ DeleteRow(i)
        PROVE  pending' = pending /\ started' = started
    BY <2>4 DEF UpdateRead, DeleteRow
  <2>5. ASSUME NEW w \in Replica, Queue(w) PROVE Queued(w)
    <3>1. PICK p \in pending[w] :
              /\ started' = [started EXCEPT ![p.id][p.due] = IF Accepts(p) THEN @ + 1 ELSE @]
              /\ pending' = [pending EXCEPT ![w] = @ \ {p}]
              /\ rows' = rows /\ armed' = armed
      BY <2>5 DEF Queue
    <3>2. CASE Accepts(p)
      BY <3>1, <3>2 DEF Queued
    <3>3. CASE ~Accepts(p)
      <4>1. started \in [Id -> [Due -> Nat]] /\ p.id \in Id /\ p.due \in Due
        BY <2>5 DEF SchedInv, TypeOK, Pending
      <4>2. started' = started
        BY <3>1, <3>3, <4>1
      <4> QED BY <3>1, <4>2 DEF Queued
    <3> QED BY <3>2, <3>3
  <2>6. ASSUME NEW w \in Replica, QueueFails(w) PROVE Queued(w)
    BY <2>6 DEF QueueFails, Queued
  <2> QED BY <1>1, <2>1, <2>2, <2>3, <2>4, <2>5, <2>6 DEF Next
<1>2. CASE UNCHANGED vars
  BY <1>2 DEF vars
<1> QED BY <1>1, <1>2

LEMMA ClaimsNext ==
    ASSUME SchedInv, [Next]_vars
    PROVE  pending' \in [Replica -> SUBSET Pending] /\ ClaimsInv'
<1>1. /\ TypeOK /\ RowsInv /\ ClaimsInv
      /\ pending \in [Replica -> SUBSET Pending] /\ version \in 1..MaxVersion
      /\ version' \in 1..MaxVersion /\ version <= version'
      /\ version \in Nat /\ version' \in Nat
  BY StepsOnward, ScheduleAssumption DEF SchedInv, TypeOK, Onward
<1>2. \A w \in Replica : \A p \in pending[w] : p.version \in Nat /\ p.version <= version'
  <2>1. SUFFICES ASSUME NEW w \in Replica, NEW p \in pending[w]
                 PROVE  p.version \in Nat /\ p.version <= version'
    OBVIOUS
  <2>2. p.version \in Nat
    BY <1>1, ScheduleAssumption DEF Pending
  <2>3. p.version <= version
    BY <1>1 DEF ClaimsInv, ClaimsOK
  <2> QED BY <1>1, <2>2, <2>3
<1>3. CASE pending' = pending
  BY <1>1, <1>2, <1>3 DEF ClaimsInv, ClaimsOK
<1>4. ASSUME NEW w \in Replica, NEW at \in 1..now, ClaimDue(w, at)
      PROVE  pending' \in [Replica -> SUBSET Pending] /\ ClaimsInv'
  <2>1. pending' = [pending EXCEPT ![w] = {ClaimOf(i) : i \in Claimed(at)}]
    BY <1>1, <1>4, ClaimBookkept
  <2>2. \A i \in Claimed(at) : i \in Id /\ rows[i].on /\ ClaimOf(i) \in Pending
    <3>1. SUFFICES ASSUME NEW i \in Claimed(at)
                   PROVE  i \in Id /\ rows[i].on /\ ClaimOf(i) \in Pending
      OBVIOUS
    <3>2. i \in Id /\ rows[i].on
      BY DEF Claimed, Claimable, IsDue
    <3>3. rows[i].next \in Due
      BY <1>1, <3>2, ActiveIsDue
    <3> QED BY <1>1, <3>2, <3>3 DEF ClaimOf, Pending
  <2>3. PICK new : new = {ClaimOf(i) : i \in Claimed(at)}
    OBVIOUS
  <2>4. new \in SUBSET Pending
    BY <2>2, <2>3
  <2>5. \A p, q \in new : p.version <= version' /\ (p.id = q.id => p = q)
    BY <1>1, <2>3 DEF ClaimOf
  <2>6. /\ pending' \in [Replica -> SUBSET Pending] /\ pending'[w] = new
        /\ \A x \in Replica : x # w => pending'[x] = pending[x]
    BY <1>1, <2>1, <2>3, <2>4
  <2>7. ASSUME NEW x \in Replica PROVE ClaimsOK(x)'
    <3>1. CASE x = w
      BY <2>5, <2>6, <3>1 DEF ClaimsOK
    <3>2. CASE x # w
      BY <1>1, <1>2, <2>6, <3>2 DEF ClaimsOK, ClaimsInv
    <3> QED BY <3>1, <3>2
  <2> QED BY <2>6, <2>7 DEF ClaimsInv
<1>5. ASSUME NEW w \in Replica, NEW left \in SUBSET pending[w],
             pending' = [pending EXCEPT ![w] = left]
      PROVE  pending' \in [Replica -> SUBSET Pending] /\ ClaimsInv'
  <2>1. /\ pending' \in [Replica -> SUBSET Pending]
        /\ \A x \in Replica : pending'[x] \subseteq pending[x]
    BY <1>1, <1>5
  <2>2. ASSUME NEW x \in Replica PROVE ClaimsOK(x)'
    BY <1>1, <1>2, <2>1 DEF ClaimsOK, ClaimsInv
  <2> QED BY <2>1, <2>2 DEF ClaimsInv
<1>6. ASSUME NEW w \in Replica, Queued(w) \/ Crash(w)
      PROVE  pending' \in [Replica -> SUBSET Pending] /\ ClaimsInv'
  <2>1. PICK left \in SUBSET pending[w] : pending' = [pending EXCEPT ![w] = left]
    BY <1>1, <1>6 DEF Queued, Crash
  <2> QED BY <1>5, <2>1
<1> QED BY <1>3, <1>4, <1>6, ClaimsMove

-----------------------------------------------------------------------------
(* Counting. *)

Holders(i, d) == {w \in Replica : \E p \in pending[w] : p.id = i /\ p.due = d}
Shown(i, d) == IF rows[i].there /\ rows[i].next = d THEN 1 ELSE 0

LEMMA OutstandingIs ==
    ASSUME NEW i, NEW d
    PROVE  /\ Outstanding(i, d) = Cardinality(Holders(i, d)) + Shown(i, d)
           /\ Outstanding(i, d)' = Cardinality(Holders(i, d)') + Shown(i, d)'
           /\ IsFiniteSet(Holders(i, d)) /\ IsFiniteSet(Holders(i, d)')
           /\ Cardinality(Holders(i, d)) \in Nat /\ Cardinality(Holders(i, d)') \in Nat
           /\ Shown(i, d) \in {0, 1} /\ Shown(i, d)' \in {0, 1}
<1>1. Holders(i, d) \subseteq Replica /\ Holders(i, d)' \subseteq Replica
  BY DEF Holders
<1>2. IsFiniteSet(Replica)
  BY ScheduleAssumption
<1>3. IsFiniteSet(Holders(i, d)) /\ IsFiniteSet(Holders(i, d)')
  BY <1>1, <1>2, FS_Subset
<1>4. Cardinality(Holders(i, d)) \in Nat /\ Cardinality(Holders(i, d)') \in Nat
  BY <1>3, FS_CardinalityType
<1>5. Shown(i, d) \in {0, 1} /\ Shown(i, d)' \in {0, 1}
  BY DEF Shown
<1>6. /\ Outstanding(i, d) = Cardinality(Holders(i, d)) + Shown(i, d)
      /\ Outstanding(i, d)' = Cardinality(Holders(i, d)') + Shown(i, d)'
  BY DEF Outstanding, Holders, Shown
<1> QED BY <1>3, <1>4, <1>5, <1>6

\* A step never takes more from what a row is armed with than it shows less.
LEMMA RowKeepsCount ==
    ASSUME SchedInv, NEW i \in Id, NEW d \in Due, Change(i)
    PROVE  /\ armed[i][d] \in Nat /\ armed'[i][d] \in Nat
           /\ armed[i][d] + Shown(i, d)' <= armed'[i][d] + Shown(i, d)
           /\ Same(i) => armed[i][d] = armed'[i][d] /\ Shown(i, d)' = Shown(i, d)
           /\ Taken(i) => armed[i][d] + Shown(i, d)' + (IF d = rows[i].next THEN 1 ELSE 0)
                             = armed'[i][d] + Shown(i, d)
<1>1. TypeOK /\ RowsInv /\ armed[i] \in [Due -> Nat] /\ rows[i] \in Row /\ d \in Nat
  BY Types, Bounds DEF SchedInv
<1>2. armed[i][d] \in Nat /\ Shown(i, d) \in {0, 1} /\ Shown(i, d)' \in {0, 1}
  BY <1>1, OutstandingIs
<1>3. CASE Same(i)
  <2>1. armed'[i][d] = armed[i][d] /\ Shown(i, d)' = Shown(i, d)
    BY <1>3 DEF Same, Shown
  <2>2. ~Taken(i)
    <3>1. SUFFICES ASSUME Taken(i) PROVE FALSE
      OBVIOUS
    <3>2. rows[i].on /\ rows[i].next \in Nat
      BY <1>1, <3>1, ActiveIsDue DEF Taken
    <3>3. PICK r \in Due : /\ rows'[i] = [rows[i] EXCEPT !.last = rows[i].next, !.next = r]
                           /\ r > rows[i].next
      BY <3>1 DEF Taken
    <3>4. rows'[i].next = r /\ r \in Nat
      BY <1>1, <3>3, Bounds DEF Row
    <3> QED BY <1>3, <3>2, <3>3, <3>4 DEF Same
  <2> QED BY <1>2, <2>1, <2>2
<1>4. CASE Gone(i)
  <2>1. armed'[i][d] = armed[i][d] /\ Shown(i, d)' = 0 /\ ~rows'[i].there
    BY <1>4 DEF Gone, Shown, NoRow
  <2>2. ~Taken(i)
    BY <1>1, <2>1 DEF Taken, Row
  <2>3. Same(i) => Shown(i, d) = 0
    BY <2>1 DEF Same, Shown
  <2> QED BY <1>2, <2>1, <2>2, <2>3
<1>5. CASE Taken(i)
  <2>1. PICK r \in Due : /\ rows'[i] = [rows[i] EXCEPT !.last = rows[i].next, !.next = r]
                         /\ r > rows[i].next
                         /\ armed'[i] = [armed[i] EXCEPT ![r] = @ + 1]
    BY <1>5 DEF Taken
  <2>2. rows[i].there /\ rows[i].next \in Due /\ rows[i].next \in Nat /\ r \in Nat
    BY <1>1, <1>5, <2>1, ActiveIsDue, Bounds DEF Taken
  <2>3. rows'[i].there /\ rows'[i].next = r
    BY <1>1, <2>1, <2>2 DEF Row
  <2>4. Shown(i, d) = (IF d = rows[i].next THEN 1 ELSE 0) /\ Shown(i, d)' = (IF d = r THEN 1 ELSE 0)
    BY <2>2, <2>3 DEF Shown
  <2>5. armed'[i][d] = IF d = r THEN armed[i][d] + 1 ELSE armed[i][d]
    BY <1>1, <2>1
  <2>6. ~Same(i)
    <3>1. Same(i) => rows'[i].next = rows[i].next
      BY DEF Same
    <3>2. r # rows[i].next
      BY <2>1, <2>2
    <3> QED BY <2>3, <3>1, <3>2
  <2> QED BY <1>2, <2>1, <2>2, <2>4, <2>5, <2>6
<1>6. CASE GivenUp(i) /\ ~Same(i) /\ ~Taken(i)
  <2>1. armed'[i] = armed[i] /\ rows'[i].next = NoTime
    BY <1>1, <1>6 DEF GivenUp, Retired, Row
  <2>2. Shown(i, d)' = 0
    BY <2>1, Bounds DEF Shown
  <2> QED BY <1>2, <1>6, <2>1, <2>2
<1>7. CASE Written(i) /\ ~Same(i) /\ ~Taken(i)
  <2>1. CASE ~rows'[i].on /\ rows'[i].next = NoTime /\ armed'[i] = armed[i]
    <3>1. Shown(i, d)' = 0
      BY <2>1, Bounds DEF Shown
    <3> QED BY <1>2, <1>7, <2>1, <3>1
  <2>2. CASE armed'[i] = [armed[i] EXCEPT ![rows'[i].next] = @ + 1] /\ rows'[i].next \in Due
    <3>1. armed'[i][d] = IF d = rows'[i].next THEN armed[i][d] + 1 ELSE armed[i][d]
      BY <1>1, <2>2
    <3>2. d # rows'[i].next => Shown(i, d)' = 0
      BY DEF Shown
    <3> QED BY <1>2, <1>7, <3>1, <3>2
  <2> QED BY <1>7, <2>1, <2>2 DEF Written
<1> QED BY <1>3, <1>4, <1>5, <1>6, <1>7 DEF Change, Fresh, Rewritten

\* A claim moves a row's due time to the replica that holds it.
LEMMA ClaimHolders ==
    ASSUME SchedInv, NEW w \in Replica, NEW at \in 1..now, ClaimDue(w, at),
           NEW i \in Id, NEW d \in Due
    PROVE  Cardinality(Holders(i, d)') =
               Cardinality(Holders(i, d)) + (IF i \in Claimed(at) /\ d = rows[i].next THEN 1 ELSE 0)
<1>1. /\ TypeOK /\ RowsInv /\ pending \in [Replica -> SUBSET Pending] /\ pending[w] = {}
      /\ pending' = [pending EXCEPT ![w] = {ClaimOf(j) : j \in Claimed(at)}]
  BY ClaimBookkept DEF SchedInv, TypeOK
<1>2. PICK H : H = Holders(i, d)
  OBVIOUS
<1>3. IsFiniteSet(H) /\ Cardinality(H) \in Nat /\ w \notin H
  <2>1. w \notin Holders(i, d)
    BY <1>1 DEF Holders
  <2> QED BY <1>2, <2>1, OutstandingIs
<1>4. /\ pending'[w] = {ClaimOf(j) : j \in Claimed(at)}
      /\ \A x \in Replica : x # w => pending'[x] = pending[x]
  BY <1>1
<1>5. \A x \in Replica : x # w => (x \in Holders(i, d)' <=> x \in H)
  BY <1>2, <1>4 DEF Holders
<1>6. w \in Holders(i, d)' <=> i \in Claimed(at) /\ d = rows[i].next
  <2>1. w \in Holders(i, d)' <=> \E p \in pending'[w] : p.id = i /\ p.due = d
    BY DEF Holders
  <2>2. \A j \in Claimed(at) : ClaimOf(j).id = j /\ ClaimOf(j).due = rows[j].next
    BY DEF ClaimOf
  <2>3. ASSUME i \in Claimed(at), d = rows[i].next PROVE \E p \in pending'[w] : p.id = i /\ p.due = d
    <3>1. ClaimOf(i) \in pending'[w]
      BY <1>4, <2>3
    <3> QED BY <2>2, <2>3, <3>1
  <2>4. ASSUME NEW p \in pending'[w], p.id = i, p.due = d PROVE i \in Claimed(at) /\ d = rows[i].next
    <3>1. PICK j \in Claimed(at) : p = ClaimOf(j)
      BY <1>4, <2>4
    <3> QED BY <2>2, <2>4, <3>1
  <2> QED BY <2>1, <2>3, <2>4
<1>7. Holders(i, d)' \subseteq Replica /\ H \subseteq Replica
  BY <1>2 DEF Holders
<1>8. CASE i \in Claimed(at) /\ d = rows[i].next
  <2>1. Holders(i, d)' = H \cup {w}
    BY <1>5, <1>6, <1>7, <1>8
  <2>2. Cardinality(H \cup {w}) = Cardinality(H) + 1
    BY <1>3, FS_AddElement
  <2> QED BY <1>2, <1>8, <2>1, <2>2
<1>9. CASE ~(i \in Claimed(at) /\ d = rows[i].next)
  <2>1. Holders(i, d)' = H
    BY <1>3, <1>5, <1>6, <1>7, <1>9
  <2> QED BY <1>2, <1>3, <1>9, <2>1
<1> QED BY <1>8, <1>9

\* Queueing a claim takes one replica from its holders.
LEMMA QueuedHolders ==
    ASSUME SchedInv, NEW w \in Replica, NEW p \in pending[w],
           pending' = [pending EXCEPT ![w] = @ \ {p}], NEW i \in Id, NEW d \in Due
    PROVE  Cardinality(Holders(i, d)) =
               Cardinality(Holders(i, d)') + (IF i = p.id /\ d = p.due THEN 1 ELSE 0)
<1>1. /\ pending \in [Replica -> SUBSET Pending]
      /\ \A q \in pending[w] : q.id = p.id => q = p
  BY DEF SchedInv, TypeOK, ClaimsInv, ClaimsOK
<1>2. PICK K : K = Holders(i, d)'
  OBVIOUS
<1>3. IsFiniteSet(K) /\ Cardinality(K) \in Nat
  BY <1>2, OutstandingIs
<1>4. pending'[w] = pending[w] \ {p} /\ \A x \in Replica : x # w => pending'[x] = pending[x]
  BY <1>1
<1>5. \A x \in Replica : x # w => (x \in Holders(i, d) <=> x \in K)
  BY <1>2, <1>4 DEF Holders
<1>6. Holders(i, d) \subseteq Replica /\ K \subseteq Replica
  BY <1>2 DEF Holders
<1>7. CASE i = p.id /\ d = p.due
  <2>1. w \in Holders(i, d)
    BY <1>7 DEF Holders
  <2>2. w \notin K
    BY <1>1, <1>2, <1>4, <1>7 DEF Holders
  <2>3. Holders(i, d) = K \cup {w}
    BY <1>5, <1>6, <2>1, <2>2
  <2>4. Cardinality(K \cup {w}) = Cardinality(K) + 1
    BY <1>3, <2>2, FS_AddElement
  <2> QED BY <1>2, <1>7, <2>3, <2>4
<1>8. CASE ~(i = p.id /\ d = p.due)
  <2>1. w \in K <=> w \in Holders(i, d)
    BY <1>2, <1>4, <1>8 DEF Holders
  <2>2. Holders(i, d) = K
    BY <1>5, <1>6, <2>1
  <2> QED BY <1>2, <1>3, <1>8, <2>2
<1> QED BY <1>7, <1>8

LEMMA CountNext ==
    ASSUME SchedInv, [Next]_vars
    PROVE  CountInv'
<1>1. SUFFICES ASSUME NEW i \in Id, NEW d \in Due PROVE Counts(i, d)'
  BY DEF CountInv
<1>2. /\ started \in [Id -> [Due -> Nat]] /\ started' \in [Id -> [Due -> Nat]]
      /\ started[i][d] \in Nat /\ started'[i][d] \in Nat
      /\ TypeOK /\ RowsInv /\ Counts(i, d)
  BY StepsOnward DEF SchedInv, TypeOK, Onward, CountInv
<1>3. Change(i)
  BY NextBookkept DEF Bookkept
<1>4. /\ armed[i][d] \in Nat /\ armed'[i][d] \in Nat
      /\ armed[i][d] + Shown(i, d)' <= armed'[i][d] + Shown(i, d)
      /\ Same(i) => armed[i][d] = armed'[i][d] /\ Shown(i, d)' = Shown(i, d)
      /\ Taken(i) => armed[i][d] + Shown(i, d)' + (IF d = rows[i].next THEN 1 ELSE 0)
                        = armed'[i][d] + Shown(i, d)
  BY <1>3, RowKeepsCount
<1>5. /\ Cardinality(Holders(i, d)) \in Nat /\ Cardinality(Holders(i, d)') \in Nat
      /\ Shown(i, d) \in Nat /\ Shown(i, d)' \in Nat
      /\ started[i][d] + (Cardinality(Holders(i, d)) + Shown(i, d)) <= armed[i][d]
      /\ Outstanding(i, d)' = Cardinality(Holders(i, d)') + Shown(i, d)'
  BY <1>2, OutstandingIs DEF Counts
<1>6. ASSUME started'[i][d] + Cardinality(Holders(i, d)') <=
                 started[i][d] + Cardinality(Holders(i, d))
      PROVE  Counts(i, d)'
  <2>1. started'[i][d] + (Cardinality(Holders(i, d)') + Shown(i, d)') <= armed'[i][d]
    BY <1>2, <1>4, <1>5, <1>6
  <2> QED BY <1>5, <2>1 DEF Counts
<1>7. CASE pending' = pending /\ started' = started
  <2>1. Holders(i, d)' = Holders(i, d)
    BY <1>7 DEF Holders
  <2> QED BY <1>2, <1>5, <1>6, <1>7, <2>1
<1>8. ASSUME NEW w \in Replica, NEW at \in 1..now, ClaimDue(w, at) PROVE Counts(i, d)'
  <2>1. started' = started
    BY <1>8 DEF ClaimDue
  <2>2. i \in Claimed(at) => Taken(i)
    BY <1>2, <1>8, ClaimBookkept
  <2>3. Cardinality(Holders(i, d)') =
            Cardinality(Holders(i, d)) + (IF i \in Claimed(at) /\ d = rows[i].next THEN 1 ELSE 0)
    BY <1>8, ClaimHolders
  <2>4. CASE i \in Claimed(at) /\ d = rows[i].next
    <3>1. started'[i][d] + (Cardinality(Holders(i, d)') + Shown(i, d)') <= armed'[i][d]
      BY <1>2, <1>4, <1>5, <2>1, <2>2, <2>3, <2>4
    <3> QED BY <1>5, <3>1 DEF Counts
  <2>5. CASE ~(i \in Claimed(at) /\ d = rows[i].next)
    BY <1>2, <1>5, <1>6, <2>1, <2>3, <2>5
  <2> QED BY <2>4, <2>5
<1>9. ASSUME NEW w \in Replica, Queued(w) PROVE Counts(i, d)'
  <2>1. PICK p \in pending[w] :
            /\ pending' = [pending EXCEPT ![w] = @ \ {p}]
            /\ \/ started' = started
               \/ started' = [started EXCEPT ![p.id][p.due] = @ + 1]
    BY <1>9 DEF Queued
  <2>2. p.id \in Id /\ p.due \in Due
    BY <1>9, <2>1 DEF SchedInv, TypeOK, Pending
  <2>3. Cardinality(Holders(i, d)) =
            Cardinality(Holders(i, d)') + (IF i = p.id /\ d = p.due THEN 1 ELSE 0)
    BY <2>1, QueuedHolders
  <2>4. started'[i][d] <= started[i][d] + (IF i = p.id /\ d = p.due THEN 1 ELSE 0)
    BY <1>2, <2>1, <2>2
  <2> QED BY <1>2, <1>5, <1>6, <2>3, <2>4
<1>10. ASSUME NEW w \in Replica, Crash(w) PROVE Counts(i, d)'
  <2>1. started' = started /\ pending' = [pending EXCEPT ![w] = {}]
    BY <1>10 DEF Crash
  <2>2. \A x \in Replica : pending'[x] \subseteq pending[x]
    BY <2>1 DEF SchedInv, TypeOK
  <2>3. Holders(i, d)' \subseteq Holders(i, d)
    BY <2>2 DEF Holders
  <2>4. Cardinality(Holders(i, d)') <= Cardinality(Holders(i, d))
    BY <2>3, OutstandingIs, FS_Subset
  <2> QED BY <1>2, <1>5, <1>6, <2>1, <2>4
<1> QED BY <1>7, <1>8, <1>9, <1>10, ClaimsMove

\* Without a fault, a request or a publish there are ticks only.
LEMMA UndisturbedSteps ==
    ASSUME SchedInv, [Next]_vars, Undisturbed'
    PROVE  \/ UNCHANGED <<rows, armed, pending, started>>
           \/ \E w \in Replica, at \in 1..now : ClaimDue(w, at)
           \/ \E w \in Replica : Queue(w)
<1>1. /\ faults' = 0 /\ requests' = 0 /\ version' = 1 /\ flow'
      /\ faults \in Nat /\ requests \in Nat /\ version \in 1..MaxVersion /\ version \in Nat
      /\ RequestOK /\ TypeOK
  BY ScheduleAssumption DEF SchedInv, TypeOK, Undisturbed
<1>2. CASE Next
  <2>1. CASE Advance
    BY <2>1 DEF Advance
  <2>2. CASE PublishWithout
    BY <1>1, <2>2 DEF PublishWithout
  <2>3. CASE Deactivate
    BY <1>1, <2>3 DEF Deactivate
  <2>4. ASSUME NEW spec \in Trigger, Publish(spec) PROVE FALSE
    BY <1>1, <2>4 DEF Publish
  <2>5. ASSUME NEW cron \in Cron, NEW on \in BOOLEAN, Begin(cron, on) PROVE FALSE
    BY <1>1, <2>5 DEF Begin
  <2>6. CASE Create
    <3>1. request # Idle /\ requests' = requests
      BY <1>1, <2>6, RequestReads DEF Create
    <3> QED BY <1>1, <3>1 DEF RequestOK
  <2>7. CASE UpdateSave
    <3>1. request # Idle /\ requests' = requests
      BY <1>1, <2>7, RequestSaves DEF UpdateSave
    <3> QED BY <1>1, <3>1 DEF RequestOK
  <2>8. ASSUME NEW i \in Id, UpdateRead(i) PROVE UNCHANGED <<rows, armed, pending, started>>
    BY <2>8 DEF UpdateRead
  <2>9. ASSUME NEW i \in Id, DeleteRow(i) PROVE FALSE
    BY <1>1, <2>9 DEF DeleteRow
  <2>10. ASSUME NEW w \in Replica, QueueFails(w) \/ Crash(w) PROVE FALSE
    <3>1. faults' = faults + 1
      BY <2>10 DEF QueueFails, Crash, Fault
    <3> QED BY <1>1, <3>1
  <2> QED BY <1>2, <2>1, <2>2, <2>3, <2>4, <2>5, <2>6, <2>7, <2>8, <2>9, <2>10 DEF Next
<1>3. CASE UNCHANGED vars
  BY <1>3 DEF vars
<1> QED BY <1>2, <1>3

LEMMA LegacyRetires ==
    ASSUME NEW row, row \in Legacy
    PROVE  Retires(row) /\ row.cron \notin Lasting
<1>1. PICK c \in Cron, t \in {0, 1} :
          /\ ~FiresAfter(<<c, NoZone>>, 1)
          /\ row = [there |-> TRUE, owned |-> FALSE, cron |-> c, zone |-> NoZone, on |-> TRUE,
                    next |-> t, last |-> NoTime]
  <2>1. PICK C : C = {d \in Cron : ~FiresAfter(<<d, NoZone>>, 1)}
    OBVIOUS
  <2>2. Legacy = {[there |-> TRUE, owned |-> FALSE, cron |-> c, zone |-> NoZone, on |-> TRUE,
                   next |-> t, last |-> NoTime] : c \in C, t \in {0, 1}}
    BY <2>1 DEF Legacy
  <2>3. PICK c \in C, t \in {0, 1} :
            row = [there |-> TRUE, owned |-> FALSE, cron |-> c, zone |-> NoZone, on |-> TRUE,
                   next |-> t, last |-> NoTime]
    BY <2>2
  <2> QED BY <2>1, <2>3
<1>2. row.cron = c /\ row.next = t /\ SpecOf(row) = <<c, NoZone>> /\ ~FiresAfter(<<c, NoZone>>, 1)
  BY <1>1 DEF SpecOf
<1>3. Retires(row)
  BY <1>2 DEF Retires
<1>4. NoZone \in Zone /\ 1 \in 1..MaxTime
  BY ScheduleAssumption
<1>5. row.cron \notin Lasting
  BY <1>2, <1>4 DEF Lasting
<1> QED BY <1>3, <1>5

LEMMA ExactNext ==
    ASSUME SchedInv, [Next]_vars
    PROVE  ExactInv'
<1>1. SUFFICES ASSUME NEW i \in Id, NEW d \in Due, Undisturbed', rows'[i].cron \in Lasting
               PROVE  started'[i][d] + Outstanding(i, d)' = armed'[i][d]
  BY DEF ExactInv, CountsExactly
<1>2. Undisturbed
  BY <1>1, StepsOnward
<1>3. /\ TypeOK /\ RowsInv /\ RowOK(i) /\ rows[i] \in Row
      /\ started \in [Id -> [Due -> Nat]] /\ started[i][d] \in Nat /\ armed[i][d] \in Nat
  <2>1. TypeOK /\ RowsInv /\ RowOK(i) /\ started \in [Id -> [Due -> Nat]]
    BY DEF SchedInv, TypeOK, RowsInv
  <2>2. rows[i] \in Row /\ armed[i] \in [Due -> Nat]
    BY <2>1, Types
  <2> QED BY <2>1, <2>2
<1>4. /\ Cardinality(Holders(i, d)) \in Nat /\ Cardinality(Holders(i, d)') \in Nat
      /\ Shown(i, d) \in Nat /\ Shown(i, d)' \in Nat
      /\ Outstanding(i, d) = Cardinality(Holders(i, d)) + Shown(i, d)
      /\ Outstanding(i, d)' = Cardinality(Holders(i, d)') + Shown(i, d)'
  BY OutstandingIs
<1>5. rows[i].cron \in Lasting =>
          started[i][d] + (Cardinality(Holders(i, d)) + Shown(i, d)) = armed[i][d]
  BY <1>2, <1>4 DEF SchedInv, ExactInv, CountsExactly
<1>6. Change(i)
  BY NextBookkept DEF Bookkept
<1>7. CASE UNCHANGED <<rows, armed, pending, started>>
  <2>1. Holders(i, d)' = Holders(i, d) /\ Shown(i, d)' = Shown(i, d)
    BY <1>7 DEF Holders, Shown
  <2> QED BY <1>1, <1>4, <1>5, <1>7, <2>1
<1>8. ASSUME NEW w \in Replica, NEW at \in 1..now, ClaimDue(w, at)
      PROVE  started'[i][d] + Outstanding(i, d)' = armed'[i][d]
  <2>1. started' = started
    BY <1>8 DEF ClaimDue
  <2>2. /\ i \in Claimed(at) => Taken(i)
        /\ i \notin Claimed(at) => Same(i) \/ GivenUp(i)
    BY <1>3, <1>8, ClaimBookkept
  <2>3. Cardinality(Holders(i, d)') =
            Cardinality(Holders(i, d)) + (IF i \in Claimed(at) /\ d = rows[i].next THEN 1 ELSE 0)
    BY <1>8, ClaimHolders
  <2>4. /\ armed'[i][d] \in Nat
        /\ Same(i) => armed[i][d] = armed'[i][d] /\ Shown(i, d)' = Shown(i, d)
        /\ Taken(i) => armed[i][d] + Shown(i, d)' + (IF d = rows[i].next THEN 1 ELSE 0)
                          = armed'[i][d] + Shown(i, d)
    BY <1>6, RowKeepsCount
  <2>5. ~GivenUp(i)
    <3>1. SUFFICES ASSUME GivenUp(i) PROVE FALSE
      OBVIOUS
    <3>2. rows[i].on /\ Retires(rows[i]) /\ rows[i].next <= MaxTime
      BY <3>1 DEF GivenUp
    <3>3. rows'[i].cron = rows[i].cron
      BY <1>3, <3>1 DEF GivenUp, Retired, Row
    <3>4. rows[i].cron \in Lasting
      BY <1>1, <3>3
    <3>5. rows[i] \notin Legacy
      BY <3>4, LegacyRetires
    <3>6. rows[i].next > 0 /\ rows[i].next \in Nat
      BY <1>3, <3>2, <3>5, ActiveIsDue DEF RowOK
    <3>7. rows[i].next \in 1..MaxTime /\ rows[i].zone \in Zone
      BY <1>3, <3>2, <3>6, Bounds DEF Row
    <3>8. FiresAfter(SpecOf(rows[i]), rows[i].next)
      BY <3>4, <3>7 DEF Lasting, SpecOf
    <3> QED BY <1>2, <3>2, <3>6, <3>8 DEF Retires, Undisturbed
  <2>6. rows[i].cron \in Lasting
    <3>1. CASE Taken(i)
      <4>1. rows'[i].cron = rows[i].cron
        BY <1>3, <3>1 DEF Taken, Row
      <4> QED BY <1>1, <4>1
    <3>2. CASE Same(i)
      BY <1>1, <3>2 DEF Same
    <3> QED BY <2>2, <2>5, <3>1, <3>2
  <2>7. CASE i \in Claimed(at)
    BY <1>3, <1>4, <1>5, <2>1, <2>2, <2>3, <2>4, <2>6, <2>7
  <2>8. CASE i \notin Claimed(at)
    BY <1>3, <1>4, <1>5, <2>1, <2>2, <2>3, <2>4, <2>5, <2>6, <2>8
  <2> QED BY <2>7, <2>8
<1>9. ASSUME NEW w \in Replica, Queue(w)
      PROVE  started'[i][d] + Outstanding(i, d)' = armed'[i][d]
  <2>1. PICK p \in pending[w] :
            /\ started' = [started EXCEPT ![p.id][p.due] = IF Accepts(p) THEN @ + 1 ELSE @]
            /\ pending' = [pending EXCEPT ![w] = @ \ {p}]
            /\ rows' = rows /\ armed' = armed
    BY <1>9 DEF Queue
  <2>2. /\ p.id \in Id /\ p.due \in Due /\ p.version \in 1..MaxVersion
        /\ p.version <= version
    BY <1>9, <2>1 DEF SchedInv, TypeOK, Pending, ClaimsInv, ClaimsOK
  <2>3. Accepts(p)
    BY <1>2, <2>2, ScheduleAssumption DEF Accepts, Undisturbed
  <2>4. started'[i][d] = started[i][d] + (IF i = p.id /\ d = p.due THEN 1 ELSE 0)
    BY <1>3, <2>1, <2>2, <2>3
  <2>5. Cardinality(Holders(i, d)) =
            Cardinality(Holders(i, d)') + (IF i = p.id /\ d = p.due THEN 1 ELSE 0)
    BY <2>1, QueuedHolders
  <2>6. Shown(i, d)' = Shown(i, d) /\ armed'[i][d] = armed[i][d] /\ rows[i].cron \in Lasting
    BY <1>1, <2>1 DEF Shown
  <2> QED BY <1>3, <1>4, <1>5, <2>4, <2>5, <2>6
<1> QED BY <1>1, <1>7, <1>8, <1>9, UndisturbedSteps

LEMMA PinnedNext ==
    ASSUME SchedInv, [Next]_vars
    PROVE  PinnedInv'
<1>1. SUFFICES ASSUME NEW i \in Id, i \notin rewritten', rows'[i].there,
                      NEW spec, spec = SpecOf(rows'[i]), spec \in OneTimeAnHour
               PROVE  /\ \A d, e \in Due : armed'[i][d] > 0 /\ armed'[i][e] > 0 /\ d # e
                             => ~SameWallClock(spec, d, e)
                      /\ rows'[i].on /\ rows'[i] \notin Legacy =>
                             \A d \in Due : armed'[i][d] > 0 =>
                                 d <= rows'[i].next /\ Occurs(spec, d)
  BY DEF PinnedInv, PinnedOK
<1>2. /\ TypeOK /\ RowsInv /\ RowOK(i) /\ rows[i] \in Row /\ armed[i] \in [Due -> Nat]
      /\ i \notin rewritten /\ PinnedOK(i) /\ i \in Nat /\ created \in Nat
  <2>1. TypeOK /\ RowsInv /\ RowOK(i) /\ PinnedOK(i)
    BY DEF SchedInv, RowsInv, PinnedInv
  <2> QED BY <1>1, <2>1, Types, StepsOnward DEF Onward
<1>3. Change(i)
  BY NextBookkept DEF Bookkept
<1>4. CASE Same(i)
  BY <1>1, <1>2, <1>4 DEF Same, PinnedOK
<1>5. CASE Gone(i)
  BY <1>1, <1>5 DEF Gone, NoRow
<1>6. CASE Fresh(i)
  <2>1. \A d \in Due : armed[i][d] = 0
    BY <1>2, <1>6 DEF Fresh, RowOK
  <2>2. CASE ~rows'[i].on /\ armed'[i] = armed[i]
    BY <1>2, <2>1, <2>2
  <2>3. CASE /\ rows'[i].on /\ rows'[i].next \in Due
             /\ Occurs(SpecOf(rows'[i]), rows'[i].next)
             /\ armed'[i] = [armed[i] EXCEPT ![rows'[i].next] = @ + 1]
    <3>1. \A d \in Due : armed'[i][d] > 0 => d = rows'[i].next
      BY <1>2, <2>1, <2>3
    <3>2. rows'[i].next <= rows'[i].next
      BY <2>3, Bounds
    <3> QED BY <1>1, <2>3, <3>1, <3>2
  <2> QED BY <1>6, <2>2, <2>3 DEF Fresh, Written
<1>7. CASE Rewritten(i)
  BY <1>1, <1>7 DEF Rewritten
<1>8. CASE GivenUp(i)
  <2>1. rows'[i] = [rows[i] EXCEPT !.on = FALSE, !.next = NoTime] /\ armed'[i] = armed[i]
    BY <1>8 DEF GivenUp, Retired
  <2>2. ~rows'[i].on /\ SpecOf(rows'[i]) = SpecOf(rows[i]) /\ rows[i].there
    BY <1>2, <1>8, <2>1 DEF Row, SpecOf, GivenUp
  <2>3. \A d, e \in Due : armed[i][d] > 0 /\ armed[i][e] > 0 /\ d # e
            => ~SameWallClock(spec, d, e)
    BY <1>1, <1>2, <2>2 DEF PinnedOK
  <2> QED BY <2>1, <2>2, <2>3
<1>9. CASE Taken(i)
  <2>1. PICK n : n = rows[i].next
    OBVIOUS
  <2>2. PICK r \in Due :
            /\ rows'[i] = [rows[i] EXCEPT !.last = rows[i].next, !.next = r]
            /\ r > n /\ r >= NextRun(SpecOf(rows[i]), n) /\ Occurs(SpecOf(rows[i]), r)
            /\ armed'[i] = [armed[i] EXCEPT ![r] = @ + 1]
    BY <1>9, <2>1 DEF Taken
  <2>3. /\ rows[i].there /\ rows[i].on /\ ~Retires(rows[i]) /\ n <= MaxTime
        /\ n \in Due /\ n \in Nat /\ r \in Nat
    BY <1>2, <1>9, <2>1, ActiveIsDue, Bounds DEF Taken
  <2>4. rows'[i].next = r /\ SpecOf(rows[i]) = spec
    BY <1>1, <1>2, <2>2 DEF Row, SpecOf
  <2>5. rows[i] \notin Legacy
    BY <2>3, LegacyRetires
  <2>6. FiresAfter(spec, n)
    BY <2>1, <2>3, <2>4 DEF Retires
  <2>7. /\ \A d, e \in Due : armed[i][d] > 0 /\ armed[i][e] > 0 /\ d # e
               => ~SameWallClock(spec, d, e)
        /\ \A d \in Due : armed[i][d] > 0 => d <= n /\ Occurs(spec, d)
    BY <1>1, <1>2, <2>1, <2>3, <2>4, <2>5 DEF PinnedOK
  <2>8. Occurs(spec, n)
    BY <1>2, <2>1, <2>3, <2>4, <2>5 DEF RowOK
  <2>9. n \in 0..MaxTime
    BY <2>3, Bounds
  <2>10. \A d \in Due : armed'[i][d] > 0 => d = r \/ (armed[i][d] > 0 /\ d # r)
    BY <1>2, <2>2
  <2>11. \A d \in Due : armed[i][d] > 0 => ~SameWallClock(spec, d, r)
    BY <1>1, <2>2, <2>4, <2>6, <2>7, <2>8, <2>9, LaterReadsDifferently
  <2>12. \A d \in Due : SameWallClock(spec, d, r) <=> SameWallClock(spec, r, d)
    BY DEF SameWallClock
  <2>13. \A d, e \in Due : armed'[i][d] > 0 /\ armed'[i][e] > 0 /\ d # e
             => ~SameWallClock(spec, d, e)
    BY <2>7, <2>10, <2>11, <2>12
  <2>14. \A d \in Due : armed'[i][d] > 0 => d <= r /\ Occurs(spec, d)
    <3>1. SUFFICES ASSUME NEW d \in Due, armed'[i][d] > 0 PROVE d <= r /\ Occurs(spec, d)
      OBVIOUS
    <3>2. d \in Nat
      BY Bounds
    <3>3. d = r \/ (d <= n /\ Occurs(spec, d))
      BY <2>7, <2>10, <3>1
    <3> QED BY <2>2, <2>3, <2>4, <3>2, <3>3
  <2> QED BY <2>4, <2>13, <2>14
<1> QED BY <1>3, <1>4, <1>5, <1>6, <1>7, <1>8, <1>9 DEF Change

-----------------------------------------------------------------------------
(* The theorems. *)

LEMMA FirstRow ==
    ASSUME now = 1,
           NEW row, row \in {Activated(spec) : spec \in {t \in Trigger : FiresAfter(t, 1)}}
                              \cup Legacy
    PROVE  /\ row \in Row /\ row.there /\ row.on /\ row.next \in Due /\ row.cron \in Cron
           /\ row \in Legacy \/ (row.next > 0 /\ Occurs(SpecOf(row), row.next))
<1>1. CASE row \in Legacy
  <2>1. PICK C : C = {d \in Cron : ~FiresAfter(<<d, NoZone>>, 1)}
    OBVIOUS
  <2>2. Legacy = {[there |-> TRUE, owned |-> FALSE, cron |-> c, zone |-> NoZone, on |-> TRUE,
                   next |-> t, last |-> NoTime] : c \in C, t \in {0, 1}}
    BY <2>1 DEF Legacy
  <2>3. PICK c \in C, t \in {0, 1} :
            row = [there |-> TRUE, owned |-> FALSE, cron |-> c, zone |-> NoZone, on |-> TRUE,
                   next |-> t, last |-> NoTime]
    BY <1>1, <2>2
  <2>4. c \in Cron /\ t \in Due /\ NoZone \in Zone
    BY <2>1, Bounds, ScheduleAssumption
  <2> QED BY <1>1, <2>3, <2>4 DEF Row
<1>2. CASE row \notin Legacy
  <2>1. PICK spec \in {t \in Trigger : FiresAfter(t, 1)} : row = Activated(spec)
    BY <1>2
  <2>2. now \in 1..MaxTime /\ FiresAfter(spec, now) /\ spec \in Trigger
    BY <2>1, Bounds
  <2>3. row \in Row /\ row.there /\ row.on /\ row.next \in Due /\ row.next > 0
        /\ Occurs(SpecOf(row), row.next)
    BY <2>1, <2>2, ActivatedIs
  <2> QED BY <2>3 DEF Row
<1> QED BY <1>1, <1>2

LEMMA InitInv ==
    ASSUME Init
    PROVE  SchedInv
<1>1. /\ now = 1 /\ flow = TRUE /\ version = 1 /\ created = 1
      /\ pending = [w \in Replica |-> {}] /\ request = Idle /\ requests = 0
      /\ started = Zeros /\ rewritten = {} /\ faults = 0
  BY DEF Init
<1>2. PICK row \in {Activated(spec) : spec \in {t \in Trigger : FiresAfter(t, 1)}} \cup Legacy :
          /\ rows = [i \in Id |-> IF i = 1 THEN row ELSE NoRow]
          /\ armed = [Zeros EXCEPT ![1][row.next] = 1]
  BY DEF Init
<1>3. /\ row \in Row /\ row.there /\ row.on /\ row.next \in Due /\ row.cron \in Cron
      /\ row \in Legacy \/ (row.next > 0 /\ Occurs(SpecOf(row), row.next))
  BY <1>1, <1>2, FirstRow
<1>4. NoRow \in Row /\ ~NoRow.there /\ ~NoRow.on /\ NoRow.next = NoTime
  BY <1>3, ScheduleAssumption DEF NoRow, Row
<1>5. 1 \in Id /\ Id \subseteq Nat /\ row.next # NoTime /\ row.next \in Nat
  BY <1>3, Bounds, ScheduleAssumption DEF Id
<1>6. /\ rows[1] = row /\ \A i \in Id : i # 1 => rows[i] = NoRow
      /\ rows \in [Id -> Row]
  BY <1>2, <1>3, <1>4, <1>5
<1>7. /\ started \in [Id -> [Due -> Nat]] /\ armed \in [Id -> [Due -> Nat]]
      /\ \A i \in Id, d \in Due : started[i][d] = 0
      /\ \A i \in Id, d \in Due : armed[i][d] = IF i = 1 /\ d = row.next THEN 1 ELSE 0
  <2>1. Zeros \in [Id -> [Due -> Nat]] /\ \A i \in Id, d \in Due : Zeros[i][d] = 0
    BY DEF Zeros
  <2>2. PICK z : z = [Zeros[1] EXCEPT ![row.next] = 1]
    OBVIOUS
  <2>3. z \in [Due -> Nat] /\ \A d \in Due : z[d] = IF d = row.next THEN 1 ELSE 0
    BY <1>3, <1>5, <2>1, <2>2
  <2>4. armed = [Zeros EXCEPT ![1] = z]
    BY <1>2, <2>2
  <2> QED BY <1>1, <1>5, <2>1, <2>3, <2>4
<1>8. TypeOK
  <2>1. /\ now \in 1..MaxTime /\ flow \in BOOLEAN /\ version \in 1..MaxVersion
        /\ created \in 0..MaxRows /\ requests \in 0..MaxRequests /\ faults \in 0..MaxFaults
        /\ rewritten \subseteq Id /\ request \in Request
        /\ pending \in [Replica -> SUBSET Pending]
    BY <1>1, ScheduleAssumption DEF Request
  <2>2. \A i \in Id : rows[i].there => i <= created /\ (rows[i].on <=> rows[i].next # NoTime)
    BY <1>1, <1>3, <1>4, <1>5, <1>6
  <2> QED BY <1>6, <1>7, <2>1, <2>2 DEF TypeOK
<1>9. RowsInv
  <2>1. SUFFICES ASSUME NEW i \in Id PROVE RowOK(i)
    BY DEF RowsInv
  <2>2. CASE i = 1
    BY <1>1, <1>3, <1>6, <2>2 DEF RowOK
  <2>3. CASE i # 1
    <3>1. \A d \in Due : armed[i][d] = 0
      BY <1>7, <2>3
    <3> QED BY <1>4, <1>6, <2>3, <3>1 DEF RowOK
  <2> QED BY <2>2, <2>3
<1>10. RequestOK /\ ClaimsInv
  BY <1>1 DEF RequestOK, ClaimsInv, ClaimsOK
<1>11. \A i \in Id, d \in Due : started[i][d] + Outstanding(i, d) = armed[i][d]
  <2>1. SUFFICES ASSUME NEW i \in Id, NEW d \in Due
                 PROVE  started[i][d] + Outstanding(i, d) = armed[i][d]
    OBVIOUS
  <2>2. Holders(i, d) = {}
    BY <1>1 DEF Holders
  <2>3. Cardinality(Holders(i, d)) = 0
    BY <2>2, FS_EmptySet
  <2>4. Shown(i, d) = armed[i][d]
    BY <1>3, <1>4, <1>6, <1>7 DEF Shown
  <2>5. armed[i][d] \in Nat /\ started[i][d] = 0
    BY <1>7
  <2> QED BY <2>3, <2>4, <2>5, OutstandingIs
<1>12. CountInv /\ ExactInv
  <2>1. \A i \in Id, d \in Due : armed[i][d] \in Nat
    BY <1>7
  <2> QED BY <1>11, <2>1 DEF CountInv, Counts, ExactInv, CountsExactly
<1>13. PinnedInv
  <2>1. SUFFICES ASSUME NEW i \in Id PROVE PinnedOK(i)
    BY DEF PinnedInv
  <2>2. CASE i = 1
    <3>1. \A d \in Due : armed[i][d] > 0 => d = row.next
      BY <1>7, <2>2
    <3>2. row.next <= row.next
      BY <1>5
    <3> QED BY <1>3, <1>6, <2>2, <3>1, <3>2 DEF PinnedOK
  <2>3. CASE i # 1
    BY <1>4, <1>6, <2>3 DEF PinnedOK
  <2> QED BY <2>2, <2>3
<1> QED BY <1>8, <1>9, <1>10, <1>12, <1>13 DEF SchedInv

LEMMA TypeNext ==
    ASSUME SchedInv, [Next]_vars
    PROVE  TypeOK' /\ RowsInv'
<1>1. Onward
  BY StepsOnward
<1>2. /\ rows' = [i \in Id |-> rows'[i]] /\ armed' = [i \in Id |-> armed'[i]]
      /\ \A i \in Id : Change(i)
  BY NextBookkept DEF Bookkept
<1>3. \A i \in Id :
          /\ rows'[i] \in Row /\ armed'[i] \in [Due -> Nat]
          /\ rows'[i].there => i <= created' /\ (rows'[i].on <=> rows'[i].next # NoTime)
          /\ RowOK(i)'
  BY <1>1, <1>2, ChangeTyped
<1>4. rows' \in [Id -> Row] /\ armed' \in [Id -> [Due -> Nat]]
  <2>1. PICK f : f = rows'
    OBVIOUS
  <2>2. PICK g : g = armed'
    OBVIOUS
  <2>3. f \in [Id -> Row] /\ g \in [Id -> [Due -> Nat]]
    BY <1>2, <1>3, <2>1, <2>2
  <2> QED BY <2>1, <2>2, <2>3
<1>5. request' \in Request /\ pending' \in [Replica -> SUBSET Pending]
  BY RequestNext, ClaimsNext
<1>6. TypeOK'
  BY <1>1, <1>3, <1>4, <1>5 DEF TypeOK, Onward
<1> QED BY <1>3, <1>6 DEF RowsInv

\* Schedules stay within what the other theorems rest on, whatever the order of
\* ticks, publishes, requests, crashes and failed calls.
THEOREM ScheduleInvariant == Spec => []SchedInv
<1>1. Init => SchedInv
  BY InitInv
<1>2. SchedInv /\ [Next]_vars => SchedInv'
  BY TypeNext, RequestNext, ClaimsNext, CountNext, ExactNext, PinnedNext DEF SchedInv
<1> QED BY <1>1, <1>2, PTL DEF Spec

\* The due time of an active row is an occurrence of its own expression in its
\* own zone (Next, ClaimDue, activation and the handler's nextRun).
THEOREM DueTimesOccur == Spec => []DueTimesAreOccurrences
<1>1. SchedInv => DueTimesAreOccurrences
  BY DEF SchedInv, RowsInv, RowOK, DueTimesAreOccurrences
<1> QED BY <1>1, ScheduleInvariant, PTL

\* A due time is queued at most as often as a row was given it, and nothing is
\* lost before the first fault, request or publish (ClaimDue, fireDue).
THEOREM DueTimesFireOnce == Spec => []FiresOncePerArming
<1>1. SchedInv => FiresOncePerArming
  BY DEF SchedInv, CountInv, Counts, ExactInv, CountsExactly, Undisturbed, FiresOncePerArming
<1> QED BY <1>1, ScheduleInvariant, PTL

\* A schedule that names its hours runs once per time on the wall, in every zone
\* and for every expression with one time in a repeated hour (Next).
THEOREM RepeatedHoursRunOnce == Spec => []PinnedRunsOncePerWallClock
<1>1. SchedInv => PinnedRunsOncePerWallClock
  <2>1. SUFFICES ASSUME SchedInv, NEW i \in Id \ rewritten, rows[i].there,
                        SpecOf(rows[i]) \in OneTimeAnHour,
                        NEW d \in Due, NEW e \in Due, d # e,
                        started[i][d] > 0, started[i][e] > 0
                 PROVE  ~SameWallClock(SpecOf(rows[i]), d, e)
    BY DEF PinnedRunsOncePerWallClock
  <2>2. \A t \in Due : started[i][t] > 0 => armed[i][t] > 0
    <3>1. SUFFICES ASSUME NEW t \in Due, started[i][t] > 0 PROVE armed[i][t] > 0
      OBVIOUS
    <3>2. started[i][t] + Outstanding(i, t) <= armed[i][t]
      BY <2>1 DEF SchedInv, CountInv, Counts
    <3>3. Outstanding(i, t) \in Nat
      BY OutstandingIs
    <3>4. started[i][t] \in Nat /\ armed[i][t] \in Nat
      BY <2>1 DEF SchedInv, TypeOK
    <3> QED BY <3>1, <3>2, <3>3, <3>4
  <2>3. armed[i][d] > 0 /\ armed[i][e] > 0 /\ PinnedOK(i)
    BY <2>1, <2>2 DEF SchedInv, PinnedInv
  <2> QED BY <2>1, <2>3 DEF PinnedOK
<1> QED BY <1>1, ScheduleInvariant, PTL

=============================================================================
