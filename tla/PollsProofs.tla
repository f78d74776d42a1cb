----------------------------- MODULE PollsProofs -----------------------------
(***************************************************************************)
(* Proofs about poll triggers for every number of replicas, items,         *)
(* publishes and faults.                                                   *)
(***************************************************************************)
EXTENDS Polls, FiniteSetTheorems, TLAPS

-----------------------------------------------------------------------------
(* What cursors count. *)

\* Every item of S was queued, or is accounted for otherwise.
Counted(S, skips, drops) ==
  \A i \in S \cap Item :
     \/ queued[i] > 0 \/ i \in baseline \/ i \in skips
     \/ source = "rss" /\ (i \in dropped \/ i \in drops)

\* S is a cursor over what has appeared so far.
Known(S) == S \cap Item \subseteq 1..arrived /\ (source = "rss" => S \subseteq Item)

\* Only a feed forgets, and only once it has shown more than SeenCap entries.
MayForget == source = "rss" /\ arrived > SeenCap

\* A claim under way writes no more than it will have queued.
TickOK(t) ==
  /\ t \in Tick /\ t.id <= version /\ t.version <= version
  /\ Known(t.old) /\ Known(t.new) /\ t.old \cap Item \subseteq t.new \cup t.lost
  /\ t.items \subseteq (t.new \cup t.lost) \ t.old
  /\ t.lost # {} => MayForget /\ Cardinality(t.new) = SeenCap
  /\ t.pc # "queue" => t.new = t.old /\ t.items = {} /\ t.skips = {} /\ t.drops = {} /\ t.lost = {}
  /\ Counted(t.old, {}, {})
  /\ Counted(t.new \ t.items, t.skips, t.drops)

RowOK(r) == r.id <= version /\ Known(r.seen) /\ Counted(r.seen, {}, {})

\* Whoever holds the lease read the cursor that is still there.
OwnerReads == \A w \in Replica : Holds(w) /\ row.owner = w => replica[w].old = row.seen

CursorInv ==
  /\ TypeOK
  /\ RowOK(row) /\ (There => flow # "off") /\ (~There => row = NoRow)
  /\ (forgotten # {} => MayForget)
  /\ \A w \in Replica : replica[w].pc # "idle" => TickOK(replica[w])
  /\ OwnerReads

\* What only grows.
Grows ==
  /\ source' = source /\ arrived \in Nat /\ arrived' \in Nat /\ arrived <= arrived'
  /\ version \in Nat /\ version' \in Nat /\ version <= version'
  /\ queued \in [Item -> Nat] /\ queued' \in [Item -> Nat] /\ \A i \in Item : queued[i] <= queued'[i]
  /\ baseline \subseteq baseline' /\ dropped \subseteq dropped' /\ forgotten \subseteq forgotten'

LEMMA CountedKept ==
  ASSUME Grows, NEW S, NEW skips, NEW drops, Counted(S, skips, drops)
  PROVE  Counted(S, skips, drops)'
  <1>1. \A i \in Item : queued[i] > 0 => queued'[i] > 0
    BY DEF Grows
  <1> QED
    BY <1>1 DEF Counted, Grows

LEMMA KnownKept ==
  ASSUME Grows, NEW S, Known(S)
  PROVE  Known(S)'
  BY DEF Known, Grows

LEMMA ForgetKept == ASSUME Grows, MayForget PROVE MayForget'
  BY PollAssumption DEF MayForget, Grows

LEMMA TickOKKept ==
  ASSUME Grows, NEW t, TickOK(t)
  PROVE  TickOK(t)'
  <1>1. t \in Tick /\ t.id \in Nat /\ t.version \in Nat
    BY DEF TickOK, Tick
  <1>2. (t.id <= version /\ t.version <= version)'
    BY <1>1 DEF TickOK, Grows
  <1>3. Known(t.old)' /\ Known(t.new)' /\ (t.lost # {} => MayForget')
    BY KnownKept, ForgetKept DEF TickOK
  <1>4. Counted(t.old, {}, {})' /\ Counted(t.new \ t.items, t.skips, t.drops)'
    BY CountedKept DEF TickOK
  <1> QED
    BY <1>1, <1>2, <1>3, <1>4 DEF TickOK

LEMMA RowOKKept ==
  ASSUME Grows, NEW r \in Row, RowOK(r)
  PROVE  RowOK(r)'
  <1>1. r.id \in Nat
    BY DEF Row
  <1>2. Known(r.seen)'
    BY KnownKept DEF RowOK
  <1>3. Counted(r.seen, {}, {})'
    BY CountedKept DEF RowOK
  <1> QED
    BY <1>1, <1>2, <1>3 DEF RowOK, Grows

\* Nothing grows, for the steps that leave these alone.
LEMMA GrowsSame ==
  ASSUME TypeOK, UNCHANGED <<source, arrived, version, queued, baseline, dropped, forgotten>>
  PROVE  Grows
  BY DEF TypeOK, Grows

LEMMA TickType ==
  ASSUME CursorInv, NEW w \in Replica, replica[w].pc # "idle"
  PROVE  replica[w] \in Tick /\ TickOK(replica[w])
  BY DEF CursorInv, TypeOK, Idle

\* Steps that leave every tick alone.
LEMMA TicksStay ==
  ASSUME CursorInv, Grows, UNCHANGED replica, TypeOK', RowOK(row)',
         (There => flow # "off")', (~There => row = NoRow)', (forgotten # {} => MayForget)', OwnerReads'
  PROVE  CursorInv'
  <1>1. ASSUME NEW w \in Replica, replica'[w].pc # "idle" PROVE TickOK(replica[w])'
    <2>1. PICK t : t = replica[w]
      OBVIOUS
    <2>2. TickOK(t)'
      BY <1>1, <2>1, TickOKKept DEF CursorInv
    <2> QED
      BY <2>1, <2>2 DEF TickOK, Known, Counted, MayForget
  <1> QED
    BY <1>1 DEF CursorInv

\* The step of one replica: its tick becomes t, or it is idle.
LEMMA TickMoves ==
  ASSUME CursorInv, Grows, NEW w \in Replica, NEW t, replica' = [replica EXCEPT ![w] = t],
         t = Idle \/ TickOK(t)', TypeOK', RowOK(row)',
         (There => flow # "off")', (~There => row = NoRow)', (forgotten # {} => MayForget)', OwnerReads'
  PROVE  CursorInv'
  <1>0. replica \in [Replica -> Tick \cup {Idle}]
    BY DEF CursorInv, TypeOK
  <1>1. ASSUME NEW u \in Replica, replica'[u].pc # "idle" PROVE TickOK(replica[u])'
    <2>1. PICK x : x = replica'[u]
      OBVIOUS
    <2>2. CASE u = w
      <3>1. x = t
        BY <1>0, <2>1, <2>2
      <3>2. TickOK(t)'
        BY <1>1, <2>1, <3>1 DEF Idle
      <3> QED
        BY <2>1, <3>1, <3>2 DEF TickOK, Known, Counted, MayForget
    <2>3. CASE u # w
      <3>1. x = replica[u]
        BY <1>0, <2>1, <2>3
      <3>2. TickOK(x)'
        BY <1>1, <2>1, <3>1, TickOKKept DEF CursorInv
      <3> QED
        BY <2>1, <3>2 DEF TickOK, Known, Counted, MayForget
    <2> QED
      BY <2>2, <2>3
  <1> QED
    BY <1>1 DEF CursorInv

\* What a handler answers.
LEMMA PollAnswers ==
  ASSUME CursorInv, NEW old, old \in Cursor, Known(old), Counted(old, {}, {}), NEW a \in Poll(old)
  PROVE  /\ a.items \subseteq (a.new \cup a.lost) \ old /\ old \cap Item \subseteq a.new \cup a.lost
         /\ a.items \subseteq Item /\ a.skips \subseteq Item /\ a.drops \subseteq Item
         /\ a.lost \subseteq Item /\ a.new \in Cursor /\ Known(a.new)
         /\ (a.lost # {} => MayForget /\ Cardinality(a.new) = SeenCap)
         /\ Counted(a.new \ a.items, a.skips, a.drops)
  <1>0. arrived \in 0..MaxItems /\ source \in {"imap", "rss"} /\ validity \in 1..MaxValidity
    BY DEF CursorInv, TypeOK
  <1>c. 1..arrived \subseteq Item /\ -validity \notin Item /\ Item \in Cursor /\ {-validity} \in Cursor
    BY <1>0, PollAssumption DEF Item, Cursor
  <1>u. \A S, T \in Cursor : S \cup T \in Cursor
    BY DEF Cursor
  <1>s. \A S \in Cursor : \A T : T \subseteq S => T \in Cursor
    BY DEF Cursor
  <1>f. \A S : FirstBatch(S) \subseteq S /\ (\A T \in Batches(S) : T \subseteq S)
    BY DEF FirstBatch, Batches
  <1>1. CASE source = "imap" /\ -validity \notin old
    <2>1. a = [items |-> {}, new |-> {-validity} \cup 1..arrived, skips |-> (1..arrived) \ old,
               drops |-> {}, lost |-> {}]
      BY <1>1 DEF Poll, PollMailbox, Baseline, Answer
    <2>2. {-validity} \cup 1..arrived \in Cursor
      <3>1. 1..arrived \in Cursor
        BY <1>c, <1>s
      <3> QED
        BY <1>c, <1>u, <3>1
    <2> QED
      BY <1>c, <1>1, <2>1, <2>2 DEF Known, Counted
  <1>2. CASE source = "imap" /\ -validity \in old
    <2>1. PICK b : b = FirstBatch((1..arrived) \ old)
      OBVIOUS
    <2>2. a = [items |-> b, new |-> old \cup b, skips |-> {}, drops |-> {}, lost |-> {}]
      BY <1>2, <2>1 DEF Poll, PollMailbox, Answer
    <2>3. b \subseteq (1..arrived) \ old
      BY <1>f, <2>1
    <2>4. a.new \in Cursor
      BY <1>c, <1>u, <1>s, <2>2, <2>3
    <2> QED
      BY <1>c, <1>2, <2>2, <2>3, <2>4 DEF Known, Counted
  <1>3. CASE source = "rss" /\ old = {}
    <2>1. PICK n \in Kept({}, (1..arrived) \ old) :
             a = [items |-> {}, new |-> n, skips |-> n, drops |-> {}, lost |-> {}]
      BY <1>3 DEF Poll, PollFeed, Answer
    <2>2. n \subseteq 1..arrived
      BY <2>1 DEF Kept
    <2>3. n \in Cursor
      BY <1>c, <1>s, <2>2
    <2> QED
      BY <1>c, <1>3, <2>1, <2>2, <2>3 DEF Known, Counted
  <1>4. CASE source = "rss" /\ old # {}
    <2> DEFINE F == (1..arrived) \ old
    <2>1. PICK b \in Batches(F), n \in Kept(old, F) :
             a = [items |-> b, new |-> n, skips |-> {}, drops |-> (n \cap F) \ b,
                  lost |-> (old \cup b) \ n]
      BY <1>4 DEF Poll, PollFeed, Answer
    <2>2. b \subseteq F
      BY <1>f, <2>1
    <2>3. old \subseteq 1..arrived /\ old \cup F = 1..arrived
      BY <1>4 DEF Known
    <2>4. n \subseteq 1..arrived
      BY <2>1, <2>3 DEF Kept
    <2>5. n \in Cursor
      BY <1>c, <1>s, <2>4
    <2>6. ASSUME (old \cup b) \ n # {} PROVE MayForget /\ Cardinality(n) = SeenCap
      <3>1. n # old \cup F
        BY <2>2, <2>6
      <3>2. ~(Cardinality(old \cup F) <= SeenCap) /\ Cardinality(n) = SeenCap
        BY <2>1, <3>1 DEF Kept
      <3>3. Cardinality(1..arrived) = arrived
        BY <1>0, FS_Interval, PollAssumption
      <3>4. ~(arrived <= SeenCap)
        BY <2>3, <3>2, <3>3
      <3> QED
        BY <1>0, <1>4, <3>2, <3>4, PollAssumption DEF MayForget
    <2>7. Counted(n \ b, {}, (n \cap F) \ b)
      BY <1>4, <2>4 DEF Counted
    <2>8. Known(n)
      BY <1>c, <2>4 DEF Known
    <2> QED
      BY <1>c, <2>1, <2>2, <2>3, <2>4, <2>5, <2>6, <2>7, <2>8
  <1> QED
    BY <1>0, <1>1, <1>2, <1>3, <1>4

-----------------------------------------------------------------------------
(* Each step keeps what cursors count. *)

\* The world outside, and a row that is dropped.
LEMMA ArriveCursor == ASSUME CursorInv, Arrive PROVE CursorInv'
  <1>0. arrived' = arrived + 1 /\ arrived < MaxItems
        /\ UNCHANGED <<source, validity, flow, version, row, replica, queued, baseline, dropped,
                       forgotten, faults>>
    BY DEF Arrive
  <1>1. TypeOK'
    BY <1>0, PollAssumption DEF CursorInv, TypeOK
  <1>2. Grows
    BY <1>0 DEF CursorInv, TypeOK, Grows
  <1>3. PICK r : r = row
    OBVIOUS
  <1>4. RowOK(r)'
    BY <1>2, <1>3, RowOKKept DEF CursorInv, TypeOK
  <1>5. RowOK(row)'
    BY <1>0, <1>3, <1>4 DEF RowOK, Known, Counted
  <1>6. OwnerReads'
    BY <1>0 DEF CursorInv, OwnerReads, Holds
  <1>7. (forgotten # {} => MayForget)'
    BY <1>0, <1>2, ForgetKept DEF CursorInv
  <1>8. (There => flow # "off")' /\ (~There => row = NoRow)'
    BY <1>0 DEF CursorInv, There
  <1> QED
    BY <1>0, <1>1, <1>2, <1>5, <1>6, <1>7, <1>8, TicksStay

\* Steps on the row that leave its cursor and who read it alone.
LEMMA RowSteps ==
  ASSUME CursorInv, Grows, UNCHANGED replica, NEW r \in Row, row' = r,
         r.owner = None => ~r.lapsed,
         r = NoRow \/ (r.id = row.id /\ r.seen = row.seen /\ r.owner = row.owner),
         (There => flow # "off")', (~There => row = NoRow)',
         flow' \in {"live", "off", "deleted"}, version' \in 0..MaxVersion,
         UNCHANGED <<source, arrived, queued, baseline, dropped, forgotten>>,
         validity' \in 1..MaxValidity, faults' \in 0..MaxFaults
  PROVE  CursorInv'
  <1>1. TypeOK'
    BY DEF CursorInv, TypeOK
  <1>2. RowOK(r)
    BY DEF CursorInv, RowOK, NoRow, Known, Counted, TypeOK
  <1>3. RowOK(r)'
    BY <1>2, RowOKKept
  <1>4. RowOK(row)'
    BY <1>3 DEF RowOK, Known, Counted
  <1>5. OwnerReads'
    <2>1. CASE r = NoRow
      BY <2>1, PollAssumption DEF OwnerReads, NoRow
    <2>2. CASE r # NoRow
      BY <2>2 DEF CursorInv, OwnerReads, Holds
    <2> QED
      BY <2>1, <2>2
  <1>6. (forgotten # {} => MayForget)'
    BY DEF CursorInv, MayForget
  <1> QED
    BY <1>1, <1>4, <1>5, <1>6, TicksStay

LEMMA WorldCursor ==
  ASSUME CursorInv, Recreate \/ Deactivate \/ Delete \/ FallDue \/ Lapse \/ \E w \in Replica : DropOrphan(w)
  PROVE  CursorInv'
  <1>0. TypeOK /\ row \in Row /\ faults \in 0..MaxFaults /\ (row.owner = None => ~row.lapsed)
    BY DEF CursorInv, TypeOK
  <1>1. UNCHANGED <<source, arrived, version, replica, queued, baseline, dropped, forgotten>>
        /\ validity' \in 1..MaxValidity
    BY <1>0, PollAssumption DEF TypeOK, Recreate, Deactivate, Delete, FallDue, Lapse, DropOrphan
  <1>2. Grows
    BY <1>0, <1>1, GrowsSame
  <1>3. PICK r : r = row'
    OBVIOUS
  <1>n. NoRow \in Row /\ NoRow.id = 0 /\ ~NoRow.lapsed
    BY PollAssumption DEF NoRow, Row, Cursor
  <1>4. CASE Deactivate
    BY <1>0, <1>1, <1>2, <1>n, <1>4, RowSteps DEF Deactivate, There, TypeOK, CursorInv
  <1>r. CASE Recreate
    BY <1>0, <1>1, <1>2, <1>r, RowSteps DEF Recreate, There, TypeOK, CursorInv
  <1>5. CASE Delete
    BY <1>0, <1>1, <1>2, <1>5, RowSteps DEF Delete, There, TypeOK, CursorInv
  <1>6. CASE FallDue
    <2>1. r = [row EXCEPT !.due = TRUE] /\ There /\ UNCHANGED <<flow, faults>>
      BY <1>3, <1>6 DEF FallDue
    <2>2. r \in Row /\ r.id = row.id /\ r.seen = row.seen /\ r.owner = row.owner /\ r.lapsed = row.lapsed
      BY <1>0, <2>1 DEF Row
    <2> QED
      BY <1>0, <1>1, <1>2, <1>3, <2>1, <2>2, RowSteps DEF There, TypeOK, CursorInv
  <1>7. CASE Lapse
    <2>1. r = [row EXCEPT !.lapsed = TRUE] /\ row.owner # None /\ UNCHANGED flow
      BY <1>3, <1>7 DEF Lapse
    <2>2. r \in Row /\ r.id = row.id /\ r.seen = row.seen /\ r.owner = row.owner
      BY <1>0, <2>1 DEF Row
    <2>3. faults' \in 0..MaxFaults
      BY <1>0, <1>7, PollAssumption DEF Lapse, Fault
    <2>4. There
      BY <2>1 DEF CursorInv, NoRow
    <2> QED
      BY <1>0, <1>1, <1>2, <1>3, <2>1, <2>2, <2>3, <2>4, RowSteps DEF There, TypeOK, CursorInv
  <1>8. CASE \E w \in Replica : DropOrphan(w)
    BY <1>0, <1>1, <1>2, <1>n, <1>8, RowSteps DEF DropOrphan, There, TypeOK, CursorInv
  <1> QED
    BY <1>r, <1>4, <1>5, <1>6, <1>7, <1>8

LEMMA PublishCursor == ASSUME CursorInv, Publish PROVE CursorInv'
  <1>0. TypeOK /\ row \in Row /\ version \in 0..MaxVersion /\ faults \in 0..MaxFaults
    BY DEF CursorInv, TypeOK
  <1>1. /\ flow' = "live" /\ version' = version + 1 /\ version < MaxVersion
        /\ UNCHANGED <<source, arrived, validity, replica, queued, baseline, dropped, forgotten, faults>>
    BY DEF Publish
  <1>2. version' \in 0..MaxVersion /\ version + 1 # 0
    BY <1>0, <1>1, PollAssumption
  <1>3. Grows
    BY <1>0, <1>1, <1>2 DEF TypeOK, Grows
  <1>4. CASE There
    <2>1. row' = row
      BY <1>4 DEF Publish
    <2> QED
      BY <1>0, <1>1, <1>2, <1>3, <1>4, <2>1, RowSteps DEF There, TypeOK
  <1>5. CASE ~There
    <2>1. PICK r : r = [NoRow EXCEPT !.id = version + 1, !.due = TRUE]
      OBVIOUS
    <2>2. row' = r
      BY <1>5, <2>1 DEF Publish
    <2>3. r \in Row /\ r.id = version + 1 /\ r.seen = {} /\ r.owner = None /\ ~r.lapsed
      BY <1>1, <1>2, <2>1, PollAssumption DEF NoRow, Row, Cursor
    <2>4. TypeOK'
      BY <1>0, <1>1, <1>2, <2>2, <2>3 DEF TypeOK
    <2>5. RowOK(row)'
      BY <1>0, <1>1, <2>2, <2>3 DEF RowOK, Known, Counted
    <2>6. OwnerReads'
      BY <2>2, <2>3, PollAssumption DEF OwnerReads
    <2>7. (forgotten # {} => MayForget)'
      BY <1>1 DEF CursorInv, MayForget
    <2>8. There' /\ flow' # "off"
      BY <1>1, <1>2, <2>2, <2>3 DEF There
    <2> QED
      BY <1>1, <1>3, <2>4, <2>5, <2>6, <2>7, <2>8, TicksStay
  <1> QED
    BY <1>4, <1>5

\* The step of one replica that leaves the row alone.
LEMMA TickSteps ==
  ASSUME CursorInv, NEW w \in Replica, NEW t, replica' = [replica EXCEPT ![w] = t],
         replica[w].pc # "idle",
         t = Idle \/ (TickOK(t)' /\ t.old = replica[w].old /\ t.id = replica[w].id),
         Grows, UNCHANGED <<source, arrived, validity, flow, version, row, baseline, dropped, forgotten>>,
         faults' \in 0..MaxFaults
  PROVE  CursorInv'
  <1>m. (forgotten # {} => MayForget)' /\ (There => flow # "off")' /\ (~There => row = NoRow)'
    BY DEF CursorInv, MayForget, There
  <1>0. TypeOK /\ replica \in [Replica -> Tick \cup {Idle}] /\ row \in Row
    BY DEF CursorInv, TypeOK
  <1>1. t \in Tick \cup {Idle}
    BY DEF TickOK
  <1>2. TypeOK'
    BY <1>0, <1>1 DEF TypeOK, Grows
  <1>3. PICK r : r = row
    OBVIOUS
  <1>4. RowOK(r)'
    BY <1>0, <1>3, RowOKKept DEF CursorInv
  <1>5. RowOK(row)'
    BY <1>3, <1>4 DEF RowOK, Known, Counted
  <1>6. OwnerReads'
    <2>1. ASSUME NEW u \in Replica, replica'[u].pc # "idle", replica'[u].id = row.id, row.owner = u
          PROVE replica'[u].old = row.seen
      BY <1>0, <2>1 DEF CursorInv, OwnerReads, Holds, Idle
    <2> QED
      BY <2>1 DEF OwnerReads, Holds
  <1> QED
    BY <1>m, <1>2, <1>5, <1>6, TickMoves

\* Every early return completes the tick with the cursor it read.
LEMMA GivesUpOK ==
  ASSUME NEW t, TickOK(t), NEW u, u = GivesUp(t)
  PROVE  TickOK(u) /\ u.old = t.old /\ u.id = t.id /\ u.version = t.version /\ u.pc = "complete"
         /\ u.new = t.old /\ u.items = {} /\ u.lost = {}
  <1>1. t \in Tick
    BY DEF TickOK
  <1>2. u \in Tick /\ u.old = t.old /\ u.new = t.old /\ u.id = t.id /\ u.version = t.version
        /\ u.items = {} /\ u.skips = {} /\ u.drops = {} /\ u.lost = {} /\ u.pc = "complete"
    BY <1>1 DEF GivesUp, Tick
  <1>3. t.old \ {} = t.old
    OBVIOUS
  <1> QED
    BY <1>2, <1>3 DEF TickOK

LEMMA FetchCursor == ASSUME CursorInv, NEW w \in Replica, Fetch(w) PROVE CursorInv'
  <1>1. PICK t : t = replica[w]
    OBVIOUS
  <1>2. PICK a \in Poll(t.old) :
           Update1(w, [t EXCEPT !.pc = "queue", !.items = a.items, !.new = a.new,
                                !.skips = a.skips, !.drops = a.drops, !.lost = a.lost])
    BY <1>1 DEF Fetch
  <1>3. PICK u : u = [t EXCEPT !.pc = "queue", !.items = a.items, !.new = a.new,
                               !.skips = a.skips, !.drops = a.drops, !.lost = a.lost]
    OBVIOUS
  <1>4. /\ t.pc = "fetch" /\ replica' = [replica EXCEPT ![w] = u]
        /\ UNCHANGED <<source, arrived, validity, flow, version, row, queued, baseline, dropped, forgotten, faults>>
    BY <1>1, <1>2, <1>3 DEF Fetch, Update1
  <1>5. t \in Tick /\ TickOK(t)
    BY <1>1, <1>4, TickType
  <1>o. t.old \in Cursor /\ Known(t.old) /\ Counted(t.old, {}, {})
    BY <1>5 DEF TickOK, Tick
  <1>6. /\ a.items \subseteq (a.new \cup a.lost) \ t.old /\ t.old \cap Item \subseteq a.new \cup a.lost
        /\ a.items \subseteq Item /\ a.skips \subseteq Item /\ a.drops \subseteq Item
        /\ a.lost \subseteq Item /\ a.new \in Cursor /\ Known(a.new)
        /\ (a.lost # {} => MayForget /\ Cardinality(a.new) = SeenCap)
        /\ Counted(a.new \ a.items, a.skips, a.drops)
    BY <1>o, PollAnswers
  <1>7. u \in Tick /\ u.old = t.old /\ u.id = t.id /\ u.version = t.version /\ u.pc = "queue"
        /\ u.items = a.items /\ u.new = a.new /\ u.skips = a.skips /\ u.drops = a.drops
        /\ u.lost = a.lost
    BY <1>3, <1>5, <1>6 DEF Tick
  <1>8. TickOK(u)
    BY <1>5, <1>6, <1>7 DEF TickOK
  <1>9. Grows
    BY <1>4, GrowsSame DEF CursorInv
  <1>10. TickOK(u)'
    BY <1>8, <1>9, TickOKKept
  <1> QED
    BY <1>1, <1>4, <1>7, <1>9, <1>10, TickSteps DEF CursorInv, TypeOK

LEMMA GivesUpCursor ==
  ASSUME CursorInv, NEW w \in Replica, FetchFails(w) \/ QueueFails(w)
  PROVE  CursorInv'
  <1>1. PICK t : t = replica[w]
    OBVIOUS
  <1>2. PICK u : u = GivesUp(t)
    OBVIOUS
  <1>3. /\ t.pc \in {"fetch", "queue"} /\ replica' = [replica EXCEPT ![w] = u]
        /\ UNCHANGED <<source, arrived, validity, flow, version, row, queued, baseline, dropped, forgotten>>
        /\ (Fault \/ UNCHANGED faults)
    BY <1>1, <1>2 DEF FetchFails, QueueFails, Update1
  <1>4. TickOK(t)
    BY <1>1, <1>3, TickType
  <1>5. TickOK(u) /\ u.old = t.old /\ u.id = t.id
    BY <1>2, <1>4, GivesUpOK
  <1>6. Grows
    BY <1>3, GrowsSame DEF CursorInv
  <1>7. TickOK(u)'
    BY <1>5, <1>6, TickOKKept
  <1>8. faults' \in 0..MaxFaults
    BY <1>3, PollAssumption DEF CursorInv, TypeOK, Fault
  <1> QED
    BY <1>1, <1>3, <1>5, <1>6, <1>7, <1>8, TickSteps

LEMMA CrashCursor == ASSUME CursorInv, NEW w \in Replica, Crash(w) PROVE CursorInv'
  <1>1. /\ replica[w].pc # "idle" /\ replica' = [replica EXCEPT ![w] = Idle] /\ Fault
        /\ UNCHANGED <<source, arrived, validity, flow, version, row, queued, baseline, dropped, forgotten>>
    BY DEF Crash, Update1
  <1>2. Grows
    BY <1>1, GrowsSame DEF CursorInv
  <1>3. faults' \in 0..MaxFaults
    BY <1>1, PollAssumption DEF CursorInv, TypeOK, Fault
  <1> QED
    BY <1>1, <1>2, <1>3, TickSteps

LEMMA QueueCursor == ASSUME CursorInv, NEW w \in Replica, Queue(w) PROVE CursorInv'
  <1>1. PICK t : t = replica[w]
    OBVIOUS
  <1>2. PICK i \in t.items :
           /\ queued' = [queued EXCEPT ![i] = IF queued[i] < Many(i) THEN queued[i] + 1 ELSE queued[i]]
           /\ Update1(w, [t EXCEPT !.items = t.items \ {i}])
    BY <1>1 DEF Queue
  <1>3. PICK u : u = [t EXCEPT !.items = t.items \ {i}]
    OBVIOUS
  <1>4. /\ t.pc = "queue" /\ replica' = [replica EXCEPT ![w] = u]
        /\ UNCHANGED <<source, arrived, validity, flow, version, row, baseline, dropped, forgotten, faults>>
    BY <1>1, <1>2, <1>3 DEF Queue, Update1
  <1>5. t \in Tick /\ TickOK(t)
    BY <1>1, <1>4, TickType
  <1>6. i \in Item /\ queued \in [Item -> Nat]
    BY <1>5 DEF Tick, CursorInv, TypeOK
  <1>7. u \in Tick /\ u.old = t.old /\ u.id = t.id /\ u.version = t.version /\ u.pc = "queue"
        /\ u.items = t.items \ {i} /\ u.new = t.new /\ u.skips = t.skips /\ u.drops = t.drops
        /\ u.lost = t.lost
    BY <1>3, <1>4, <1>5 DEF Tick
  <1>8. queued' \in [Item -> Nat] /\ queued'[i] > 0 /\ \A j \in Item : queued[j] <= queued'[j]
    <2>1. Many(i) \in Nat /\ Many(i) > 0
      BY PollAssumption DEF Many
    <2>2. PICK n : n = IF queued[i] < Many(i) THEN queued[i] + 1 ELSE queued[i]
      OBVIOUS
    <2>3. queued[i] \in Nat
      BY <1>6
    <2>4. n \in Nat /\ n > 0 /\ queued[i] <= n
      BY <2>1, <2>2, <2>3
    <2>5. queued' = [queued EXCEPT ![i] = n]
      BY <1>2, <2>2
    <2> QED
      BY <1>6, <2>4, <2>5
  <1>9. Grows
    BY <1>4, <1>6, <1>8 DEF CursorInv, TypeOK, Grows
  <1>10. TickOK(t)'
    BY <1>5, <1>9, TickOKKept
  <1>11. Counted(u.new \ u.items, u.skips, u.drops)'
    BY <1>7, <1>8, <1>10 DEF TickOK, Counted
  <1>12. TickOK(u)'
    BY <1>4, <1>7, <1>10, <1>11 DEF TickOK
  <1> QED
    BY <1>1, <1>4, <1>7, <1>9, <1>12, TickSteps DEF CursorInv, TypeOK

LEMMA ClaimDueCursor == ASSUME CursorInv, NEW w \in Replica, ClaimDue(w) PROVE CursorInv'
  <1>0. TypeOK /\ row \in Row /\ replica \in [Replica -> Tick \cup {Idle}] /\ RowOK(row)
        /\ version \in 0..MaxVersion
    BY DEF CursorInv, TypeOK
  <1>1. PICK r : r = [row EXCEPT !.owner = w, !.lapsed = FALSE]
    OBVIOUS
  <1>2. PICK t : t = [pc |-> "fetch", id |-> row.id, version |-> version, old |-> row.seen,
                      new |-> row.seen, items |-> {}, skips |-> {}, drops |-> {}, lost |-> {}]
    OBVIOUS
  <1>3. /\ replica[w].pc = "idle" /\ There /\ flow = "live" /\ row' = r
        /\ replica' = [replica EXCEPT ![w] = t]
        /\ UNCHANGED <<source, arrived, validity, flow, version, queued, baseline, dropped, forgotten, faults>>
    BY <1>1, <1>2 DEF ClaimDue, Claimable, Update1
  <1>4. r \in Row /\ r.id = row.id /\ r.seen = row.seen /\ r.owner = w /\ ~r.lapsed
    BY <1>0, <1>1 DEF Row
  <1>5. row.id \in 1..MaxVersion /\ version \in 1..MaxVersion /\ row.seen \in Cursor
    BY <1>0, <1>3, PollAssumption DEF Row, RowOK, There
  <1>6. t \in Tick
    BY <1>2, <1>5 DEF Tick
  <1>7. TickOK(t)
    <2>1. row.seen \ {} = row.seen /\ version <= version
      BY <1>5
    <2> QED
      BY <1>0, <1>2, <1>6, <2>1 DEF TickOK, RowOK
  <1>f. (forgotten # {} => MayForget)'
    BY <1>3 DEF CursorInv, MayForget
  <1>8. Grows
    BY <1>0, <1>3, GrowsSame
  <1>9. TickOK(t)'
    BY <1>7, <1>8, TickOKKept
  <1>10. TypeOK'
    BY <1>0, <1>3, <1>4, <1>6, PollAssumption DEF TypeOK
  <1>11. RowOK(r)
    BY <1>0, <1>4 DEF RowOK
  <1>12. RowOK(r)'
    BY <1>4, <1>8, <1>11, RowOKKept
  <1>13. RowOK(row)'
    BY <1>3, <1>12 DEF RowOK, Known, Counted
  <1>14. OwnerReads'
    BY <1>0, <1>2, <1>3, <1>4 DEF OwnerReads
  <1> QED
    BY <1>3, <1>4, <1>8, <1>9, <1>10, <1>13, <1>14, <1>f, TickMoves DEF There

\* The only write of a cursor: by whoever holds the lease of that very row.
LEMMA CompleteWrites ==
  ASSUME CursorInv, NEW w \in Replica, Over(w), MayComplete(w)
  PROVE  /\ replica[w].pc # "idle" /\ replica[w] \in Tick /\ There
         /\ replica[w].old = row.seen /\ replica[w].items = {}
         /\ row.seen \cap Item \subseteq replica[w].new \cup replica[w].lost
         /\ (replica[w].lost # {} => MayForget /\ Cardinality(replica[w].new) = SeenCap)
  <1>1. replica[w].pc # "idle"
    BY DEF Over
  <1>2. replica[w] \in Tick /\ TickOK(replica[w])
    BY <1>1, TickType
  <1>3. Holds(w) /\ row.owner = w /\ There
    BY <1>1, <1>2 DEF MayComplete, Holds, Tick, There
  <1>4. replica[w].old = row.seen
    BY <1>3 DEF CursorInv, OwnerReads
  <1> QED
    BY <1>1, <1>2, <1>3, <1>4 DEF TickOK, Over

LEMMA CompleteCursor == ASSUME CursorInv, NEW w \in Replica, Complete(w) PROVE CursorInv'
  <1>0. TypeOK /\ row \in Row /\ replica \in [Replica -> Tick \cup {Idle}]
    BY DEF CursorInv, TypeOK
  <1>1. PICK t : t = replica[w]
    OBVIOUS
  <1>2. /\ Over(w) /\ replica' = [replica EXCEPT ![w] = Idle]
        /\ UNCHANGED <<source, arrived, validity, flow, version, queued, faults>>
    BY DEF Complete, Update1
  <1>3. t.pc # "idle" /\ t \in Tick /\ TickOK(t)
    BY <1>1, <1>2, TickType DEF Over
  <1>4. CASE ~MayComplete(w)
    <2>1. UNCHANGED <<row, baseline, dropped, forgotten>>
      BY <1>4 DEF Complete
    <2>2. Grows
      BY <1>0, <1>2, <2>1, GrowsSame
    <2> QED
      BY <1>0, <1>1, <1>2, <1>3, <2>1, <2>2, TickSteps DEF TypeOK
  <1>5. CASE MayComplete(w)
    <2>1. PICK r : r = Written(t)
      OBVIOUS
    <2>2. row' = r /\ baseline' = baseline \cup t.skips /\ dropped' = dropped \cup t.drops
          /\ forgotten' = forgotten \cup t.lost
      BY <1>1, <1>5, <2>1 DEF Complete
    <2>3. There /\ t.old = row.seen /\ t.items = {}
      BY <1>1, <1>2, <1>5, CompleteWrites
    <2>4. r \in Row /\ r.id = row.id /\ r.seen = t.new /\ r.owner = None /\ ~r.lapsed
      BY <1>0, <1>3, <2>1 DEF Written, Row, Tick
    <2>5. Grows
      BY <1>0, <1>2, <2>2 DEF TypeOK, Grows
    <2>6. TypeOK'
      BY <1>0, <1>2, <1>3, <2>2, <2>4 DEF TypeOK, Tick
    <2>7. TickOK(t)'
      BY <1>3, <2>5, TickOKKept
    <2>8. Counted(t.new, {}, {})'
      BY <2>2, <2>3, <2>7 DEF TickOK, Counted
    <2>9. RowOK(row)'
      BY <1>2, <2>2, <2>4, <2>7, <2>8 DEF RowOK, TickOK, CursorInv, Counted, Known
    <2>10. OwnerReads'
      BY <2>2, <2>4, PollAssumption DEF OwnerReads
    <2>11. There' /\ flow' # "off"
      BY <1>2, <2>2, <2>3, <2>4 DEF CursorInv, There
    <2>12. (forgotten # {} => MayForget)'
      BY <1>2, <1>3, <2>2 DEF CursorInv, TickOK, MayForget
    <2> QED
      BY <1>2, <2>5, <2>6, <2>9, <2>10, <2>11, <2>12, TickMoves
  <1> QED
    BY <1>4, <1>5

LEMMA CursorNext == ASSUME CursorInv, [Next]_vars PROVE CursorInv'
  <1>1. ASSUME UNCHANGED vars PROVE CursorInv'
    BY <1>1 DEF vars, CursorInv, TypeOK, RowOK, Known, Counted, There, TickOK, OwnerReads, Holds, MayForget
  <1> QED
    BY <1>1, ArriveCursor, WorldCursor, PublishCursor, FetchCursor, GivesUpCursor, CrashCursor,
       QueueCursor, ClaimDueCursor, CompleteCursor DEF Next

LEMMA CursorInit == Init => CursorInv
  <1> SUFFICES ASSUME Init PROVE CursorInv
    OBVIOUS
  <1>1. TypeOK
    BY PollAssumption DEF Init, TypeOK, NoRow, Row, Cursor, Item
  <1>2. RowOK(row) /\ ~There /\ row = NoRow
    BY DEF Init, RowOK, Known, Counted, There, NoRow
  <1>3. \A w \in Replica : replica[w].pc = "idle"
    BY DEF Init, Idle
  <1>4. forgotten = {}
    BY DEF Init
  <1> QED
    BY <1>1, <1>2, <1>3, <1>4 DEF CursorInv, OwnerReads, Holds

\* A cursor of one row never stops to count an item: a mailbox's at no time, a
\* feed's only while it remembers SeenCap entries.
THEOREM CursorsRemember == Spec => CursorNeverRewinds
  <1> DEFINE Remembers == \/ row.seen \cap Item \subseteq row'.seen
                          \/ source = "rss" /\ Cardinality(row'.seen) = SeenCap
  <1>1. ASSUME CursorInv, [Next]_vars, There, row'.id = row.id PROVE Remembers
    <2>1. ASSUME NEW w \in Replica, Complete(w) PROVE Remembers
      <3>1. CASE MayComplete(w)
        <4>1. /\ row.seen \cap Item \subseteq replica[w].new \cup replica[w].lost /\ row \in Row
              /\ (replica[w].lost # {} => source = "rss" /\ Cardinality(replica[w].new) = SeenCap)
          BY <1>1, <2>1, <3>1, CompleteWrites DEF Complete, CursorInv, TypeOK, MayForget
        <4>2. row' = Written(replica[w])
          BY <2>1, <3>1 DEF Complete
        <4>3. row'.seen = replica[w].new
          BY <4>1, <4>2 DEF Written, Row
        <4> QED
          BY <4>1, <4>3
      <3>2. CASE ~MayComplete(w)
        BY <2>1, <3>2 DEF Complete
      <3> QED
        BY <3>1, <3>2
    <2>2. ASSUME NEW w \in Replica, ClaimDue(w) \/ DropOrphan(w) PROVE Remembers
      <3>1. row \in Row
        BY <1>1 DEF CursorInv, TypeOK
      <3>2. row' = [row EXCEPT !.owner = w, !.lapsed = FALSE] \/ row' = NoRow
        BY <2>2 DEF ClaimDue, DropOrphan
      <3>3. row.id # 0 /\ NoRow.id = 0
        BY <1>1 DEF There, NoRow
      <3> QED
        BY <1>1, <3>1, <3>2, <3>3 DEF Row
    <2>3. ASSUME Deactivate \/ FallDue \/ Lapse \/ Publish PROVE Remembers
      <3>1. row \in Row /\ NoRow.id = 0 /\ row.id # 0
        BY <1>1 DEF CursorInv, TypeOK, NoRow, There
      <3>2. row' \in {row, NoRow, [row EXCEPT !.due = TRUE], [row EXCEPT !.lapsed = TRUE]}
        BY <1>1, <2>3 DEF Deactivate, FallDue, Lapse, Publish
      <3> QED
        BY <1>1, <3>1, <3>2 DEF Row
    <2>4. \/ \E w \in Replica : Complete(w) \/ ClaimDue(w) \/ DropOrphan(w)
          \/ Deactivate \/ FallDue \/ Lapse \/ Publish
          \/ UNCHANGED row
      BY <1>1 DEF Next, vars, Arrive, Recreate, Delete, Fetch, FetchFails, Queue, QueueFails, Crash
    <2> QED
      BY <2>1, <2>2, <2>3, <2>4
  <1>2. CursorInv /\ [Next]_vars => [There /\ row'.id = row.id => Remembers]_vars
    BY <1>1
  <1> QED
    BY <1>2, CursorInit, CursorNext, PTL DEF Spec, CursorNeverRewinds

-----------------------------------------------------------------------------
(* How often an item is queued. *)

\* The tick of w may queue i without another claim.
TickMay(w, i) ==
  /\ replica[w].pc # "idle" /\ replica[w].version = version
  /\ \/ replica[w].pc = "fetch" /\ i \notin replica[w].old
     \/ replica[w].pc = "queue" /\ i \in replica[w].items

Ticks(i) == {w \in Replica : TickMay(w, i)}

\* The holder of the lease cannot lose it without a fault.
Secure == row.owner # None /\ ~row.lapsed /\ Holds(row.owner)

\* A later claim may find i unseen, without another fault or publish.
RowMay(i) ==
  /\ There /\ flow = "live"
  /\ IF Secure
     THEN LET t == replica[row.owner] IN
          IF t.version = version THEN i \notin t.new \cup t.lost /\ t.pc # "fetch" ELSE i \notin t.old
     ELSE i \notin row.seen

\* Faults and publishes pay for every time i was queued and for every time it
\* may still be.
Paid(i) == queued[i] + Cardinality(Ticks(i)) + (IF RowMay(i) THEN 1 ELSE 0) <= faults + version

PaidInv == \A i \in Item \ forgotten : Paid(i)

LEMMA TicksFinite ==
  /\ \A i : IsFiniteSet(Ticks(i)) /\ Cardinality(Ticks(i)) \in Nat
  /\ \A i : IsFiniteSet(Ticks(i)') /\ Cardinality(Ticks(i)') \in Nat
  <1>1. \A S \in SUBSET Replica : IsFiniteSet(S) /\ Cardinality(S) \in Nat
    BY FS_Subset, FS_CardinalityType, PollAssumption
  <1>2. \A i : Ticks(i) \in SUBSET Replica /\ Ticks(i)' \in SUBSET Replica
    BY DEF Ticks
  <1> QED
    BY <1>1, <1>2

\* Numbers of the state.
Numbers ==
  /\ faults \in Nat /\ faults' \in Nat /\ version \in Nat /\ version' \in Nat
  /\ \A i \in Item : queued[i] \in Nat /\ queued'[i] \in Nat

LEMMA NumbersHold == ASSUME CursorInv, CursorInv' PROVE Numbers
  BY DEF CursorInv, TypeOK, Numbers

\* What Paid adds up, now and after a step.
PaidSums(i, a, b, q, r, m, n, x, y) ==
  /\ a = Cardinality(Ticks(i)) /\ b = Cardinality(Ticks(i)')
  /\ q = queued[i] /\ r = queued'[i] /\ m = faults + version /\ n = faults' + version'
  /\ x = 1 <=> RowMay(i)
  /\ y = 1 <=> RowMay(i)'
  /\ Paid(i) <=> q + a + x <= m
  /\ Paid(i)' <=> r + b + y <= n

LEMMA PaidParts ==
  ASSUME Numbers, NEW i \in Item
  PROVE  \E a, b \in Nat : \E q, r, m, n \in Nat : \E x, y \in {0, 1} : PaidSums(i, a, b, q, r, m, n, x, y)
  <1>1. Cardinality(Ticks(i)) \in Nat /\ Cardinality(Ticks(i)') \in Nat
    BY TicksFinite
  <1>2. PICK a, b \in Nat : a = Cardinality(Ticks(i)) /\ b = Cardinality(Ticks(i)')
    BY <1>1
  <1>n. /\ queued[i] \in Nat /\ queued'[i] \in Nat
        /\ faults + version \in Nat /\ faults' + version' \in Nat
    <2>1. queued[i] \in Nat /\ queued'[i] \in Nat
      BY DEF Numbers
    <2>2. faults \in Nat /\ version \in Nat /\ faults' \in Nat /\ version' \in Nat
      BY DEF Numbers
    <2>3. \A k, l \in Nat : k + l \in Nat
      OBVIOUS
    <2> QED
      BY <2>1, <2>2, <2>3
  <1>3. PICK q \in Nat, r \in Nat : q = queued[i] /\ r = queued'[i]
    BY <1>n
  <1>4. PICK m \in Nat, n \in Nat : m = faults + version /\ n = faults' + version'
    BY <1>n
  <1>5. PICK x \in {0, 1} : x = IF RowMay(i) THEN 1 ELSE 0
    OBVIOUS
  <1>6. PICK y \in {0, 1} : y = IF RowMay(i)' THEN 1 ELSE 0
    OBVIOUS
  <1>7. Paid(i) <=> q + a + x <= m
    BY <1>2, <1>3, <1>4, <1>5 DEF Paid
  <1>8. Paid(i)' <=> r + b + y <= n
    BY <1>2, <1>3, <1>4, <1>6 DEF Paid
  <1>9. PaidSums(i, a, b, q, r, m, n, x, y)
    BY <1>2, <1>3, <1>4, <1>5, <1>6, <1>7, <1>8 DEF PaidSums
  <1>10. x \in {0, 1} /\ y \in {0, 1}
    OBVIOUS
  <1>11. \E x0, y0 \in {0, 1} : PaidSums(i, a, b, q, r, m, n, x0, y0)
    BY <1>9, <1>10, Zenon
  <1>12. \E q0, r0, m0, n0 \in Nat : \E x0, y0 \in {0, 1} : PaidSums(i, a, b, q0, r0, m0, n0, x0, y0)
    BY <1>11, Zenon
  <1> QED
    BY <1>12, Zenon

\* The arithmetic of debts.
LEMMA Sums ==
  ASSUME NEW a \in Nat, NEW b \in Nat, NEW q \in Nat, NEW r \in Nat, NEW m \in Nat, NEW n \in Nat,
         NEW x \in {0, 1}, NEW y \in {0, 1}, q + a + x <= m,
         \/ b <= a /\ r = q /\ n >= m /\ (y = 1 => x = 1)
         \/ b <= a /\ r = q /\ n >= m + 1
         \/ b <= a - 1 /\ r = q /\ n >= m
         \/ b <= a - 1 /\ r = q + 1 /\ n >= m /\ (y = 1 => x = 1)
         \/ b <= a + 1 /\ r = q /\ n >= m /\ x = 1 /\ y = 0
  PROVE  r + b + y <= n
  OBVIOUS

\* Nothing more is owed than before.
LEMMA PaidSame ==
  ASSUME Numbers, NEW i \in Item, Paid(i), Ticks(i)' \subseteq Ticks(i), queued'[i] = queued[i],
         faults' + version' >= faults + version, RowMay(i)' => RowMay(i)
  PROVE  Paid(i)'
  <1>1. Cardinality(Ticks(i)') <= Cardinality(Ticks(i))
    BY TicksFinite, FS_Subset
  <1>p. PICK a, b \in Nat : \E q, r, m, n \in Nat : \E x, y \in {0, 1} :
                              PaidSums(i, a, b, q, r, m, n, x, y)
    BY PaidParts
  <1>q. PICK q, r, m, n \in Nat : \E x, y \in {0, 1} : PaidSums(i, a, b, q, r, m, n, x, y)
    BY <1>p
  <1>2. PICK x, y \in {0, 1} : PaidSums(i, a, b, q, r, m, n, x, y)
    BY <1>q
  <1>3. b <= a /\ r = q /\ n >= m /\ (y = 1 => x = 1)
    BY <1>1, <1>2 DEF PaidSums
  <1>4. q + a + x <= m
    BY <1>2 DEF PaidSums
  <1>5. r + b + y <= n
    BY <1>3, <1>4, Sums
  <1> QED
    BY <1>2, <1>5 DEF PaidSums

\* A fault or a publish pays for a row that may be claimed again.
LEMMA PaidMore ==
  ASSUME Numbers, NEW i \in Item, Paid(i), Ticks(i)' \subseteq Ticks(i), queued'[i] = queued[i],
         faults' + version' >= faults + version + 1
  PROVE  Paid(i)'
  <1>1. Cardinality(Ticks(i)') <= Cardinality(Ticks(i))
    BY TicksFinite, FS_Subset
  <1>p. PICK a, b \in Nat : \E q, r, m, n \in Nat : \E x, y \in {0, 1} :
                              PaidSums(i, a, b, q, r, m, n, x, y)
    BY PaidParts
  <1>q. PICK q, r, m, n \in Nat : \E x, y \in {0, 1} : PaidSums(i, a, b, q, r, m, n, x, y)
    BY <1>p
  <1>2. PICK x, y \in {0, 1} : PaidSums(i, a, b, q, r, m, n, x, y)
    BY <1>q
  <1>3. b <= a /\ r = q /\ n >= m + 1
    BY <1>1, <1>2 DEF PaidSums
  <1>4. q + a + x <= m
    BY <1>2 DEF PaidSums
  <1>5. r + b + y <= n
    BY <1>3, <1>4, Sums
  <1> QED
    BY <1>2, <1>5 DEF PaidSums

\* A tick queues i, or leaves it to a later claim.
LEMMA PaidByTick ==
  ASSUME Numbers, NEW i \in Item, Paid(i), NEW w \in Ticks(i), Ticks(i)' \subseteq Ticks(i) \ {w},
         faults' + version' >= faults + version,
         \/ queued'[i] = queued[i] + 1 /\ (RowMay(i)' => RowMay(i))
         \/ queued'[i] = queued[i]
  PROVE  Paid(i)'
  <1>0. Cardinality(Ticks(i) \ {w}) = Cardinality(Ticks(i)) - 1 /\ IsFiniteSet(Ticks(i) \ {w})
    BY TicksFinite, FS_RemoveElement
  <1>1. Cardinality(Ticks(i)') <= Cardinality(Ticks(i)) - 1
    BY <1>0, FS_Subset
  <1>p. PICK a, b \in Nat : \E q, r, m, n \in Nat : \E x, y \in {0, 1} :
                              PaidSums(i, a, b, q, r, m, n, x, y)
    BY PaidParts
  <1>q. PICK q, r, m, n \in Nat : \E x, y \in {0, 1} : PaidSums(i, a, b, q, r, m, n, x, y)
    BY <1>p
  <1>2. PICK x, y \in {0, 1} : PaidSums(i, a, b, q, r, m, n, x, y)
    BY <1>q
  <1>3. b <= a - 1 /\ n >= m /\ (r = q \/ (r = q + 1 /\ (y = 1 => x = 1)))
    BY <1>1, <1>2 DEF PaidSums
  <1>4. q + a + x <= m
    BY <1>2 DEF PaidSums
  <1>5. r + b + y <= n
    BY <1>3, <1>4, Sums
  <1> QED
    BY <1>2, <1>5 DEF PaidSums

\* A claim takes over what the row owed.
LEMMA PaidByRow ==
  ASSUME Numbers, NEW i \in Item, Paid(i), NEW w \in Replica, w \notin Ticks(i),
         Ticks(i)' \subseteq Ticks(i) \cup {w},
         faults' + version' >= faults + version, queued'[i] = queued[i], RowMay(i), ~RowMay(i)'
  PROVE  Paid(i)'
  <1>f. IsFiniteSet(Ticks(i))
    BY TicksFinite
  <1>0. Cardinality(Ticks(i) \cup {w}) = Cardinality(Ticks(i)) + 1 /\ IsFiniteSet(Ticks(i) \cup {w})
    BY <1>f, FS_AddElement
  <1>1. Cardinality(Ticks(i)') <= Cardinality(Ticks(i)) + 1
    BY <1>0, FS_Subset
  <1>p. PICK a, b \in Nat : \E q, r, m, n \in Nat : \E x, y \in {0, 1} :
                              PaidSums(i, a, b, q, r, m, n, x, y)
    BY PaidParts
  <1>q. PICK q, r, m, n \in Nat : \E x, y \in {0, 1} : PaidSums(i, a, b, q, r, m, n, x, y)
    BY <1>p
  <1>2. PICK x, y \in {0, 1} : PaidSums(i, a, b, q, r, m, n, x, y)
    BY <1>q
  <1>3. b <= a + 1 /\ r = q /\ n >= m /\ x = 1 /\ y = 0
    BY <1>1, <1>2 DEF PaidSums
  <1>4. q + a + x <= m
    BY <1>2 DEF PaidSums
  <1>5. r + b + y <= n
    BY <1>3, <1>4, Sums
  <1> QED
    BY <1>2, <1>5 DEF PaidSums

LEMMA FaultCounts == ASSUME Numbers, Fault, version' = version
                     PROVE  faults' + version' >= faults + version + 1
  BY DEF Fault, Numbers

-----------------------------------------------------------------------------
(* Each step pays. *)

LEMMA WorldPaid ==
  ASSUME CursorInv, Numbers, NEW i \in Item, Paid(i),
         \/ Arrive \/ Recreate \/ Deactivate \/ Delete \/ FallDue \/ Lapse \/ \E w \in Replica : DropOrphan(w)
  PROVE  Paid(i)'
  <1>1. UNCHANGED <<version, replica, queued>>
    BY DEF Arrive, Recreate, Deactivate, Delete, FallDue, Lapse, DropOrphan
  <1>2. Ticks(i)' \subseteq Ticks(i) /\ queued'[i] = queued[i]
    BY <1>1 DEF Ticks, TickMay
  <1>3. row \in Row
    BY DEF CursorInv, TypeOK
  <1>4. CASE Lapse /\ Holds(row.owner)
    BY <1>1, <1>2, <1>4, FaultCounts, PaidMore DEF Lapse
  <1>5. CASE ~(Lapse /\ Holds(row.owner))
    <2>1. faults' = faults
      BY <1>5 DEF Arrive, Recreate, Deactivate, Delete, FallDue, Lapse, DropOrphan
    <2>2. RowMay(i)' => RowMay(i)
      <3>1. CASE Arrive \/ Recreate
        BY <3>1 DEF Arrive, Recreate, RowMay, There, Secure, Holds
      <3>2. CASE Deactivate \/ Delete
        BY <3>2 DEF Deactivate, Delete, RowMay
      <3>3. CASE FallDue
        <4>1. /\ row'.id = row.id /\ row'.seen = row.seen /\ row'.owner = row.owner
              /\ row'.lapsed = row.lapsed /\ flow' = flow
          BY <1>3, <3>3 DEF FallDue, Row
        <4> QED
          BY <1>1, <4>1 DEF RowMay, There, Secure, Holds
      <3>4. CASE Lapse
        <4>1. /\ row'.id = row.id /\ row'.seen = row.seen /\ row'.lapsed /\ flow' = flow
          BY <1>3, <3>4 DEF Lapse, Row
        <4>2. ~Holds(row.owner)
          BY <1>5, <3>4
        <4> QED
          BY <4>1, <4>2 DEF RowMay, There, Secure
      <3>5. CASE \E w \in Replica : DropOrphan(w)
        BY <3>5 DEF DropOrphan, RowMay, There, NoRow
      <3> QED
        BY <3>1, <3>2, <3>3, <3>4, <3>5
    <2>3. faults' + version' >= faults + version
      BY <1>1, <2>1 DEF Numbers
    <2> QED
      BY <1>2, <2>2, <2>3, PaidSame
  <1> QED
    BY <1>4, <1>5

LEMMA PublishPaid ==
  ASSUME CursorInv, Numbers, NEW i \in Item, Paid(i), Publish
  PROVE  Paid(i)'
  <1>1. version' = version + 1 /\ UNCHANGED <<replica, queued, faults>>
    BY DEF Publish
  <1>2. ASSUME NEW w \in Replica PROVE ~TickMay(w, i)'
    <2>1. replica[w].pc # "idle" => replica[w].version \in Nat /\ replica[w].version <= version
      <3>1. ASSUME replica[w].pc # "idle" PROVE replica[w] \in Tick /\ replica[w].version <= version
        BY <3>1, TickType DEF TickOK
      <3> QED
        BY <3>1 DEF Tick
    <2> QED
      BY <1>1, <2>1 DEF TickMay, Numbers
  <1>3. Ticks(i)' = {}
    BY <1>2 DEF Ticks
  <1>4. faults' + version' >= faults + version + 1
    BY <1>1 DEF Numbers
  <1> QED
    BY <1>1, <1>3, <1>4, PaidMore

LEMMA ClaimDuePaid ==
  ASSUME CursorInv, Numbers, NEW i \in Item, Paid(i), NEW w \in Replica, ClaimDue(w)
  PROVE  Paid(i)'
  <1>0. row \in Row /\ replica \in [Replica -> Tick \cup {Idle}]
    BY DEF CursorInv, TypeOK
  <1>1. PICK t : t = [pc |-> "fetch", id |-> row.id, version |-> version, old |-> row.seen,
                      new |-> row.seen, items |-> {}, skips |-> {}, drops |-> {}, lost |-> {}]
    OBVIOUS
  <1>2. /\ replica[w].pc = "idle" /\ There /\ flow = "live" /\ (row.owner = None \/ row.lapsed)
        /\ row' = [row EXCEPT !.owner = w, !.lapsed = FALSE]
        /\ replica' = [replica EXCEPT ![w] = t]
        /\ UNCHANGED <<flow, version, queued, faults>>
    BY <1>1 DEF ClaimDue, Claimable, Update1
  <1>3. row'.id = row.id /\ row'.seen = row.seen /\ row'.owner = w /\ ~row'.lapsed
    BY <1>0, <1>2 DEF Row
  <1>4. \A u \in Replica : replica'[u] = IF u = w THEN t ELSE replica[u]
    BY <1>0, <1>2
  <1>5. faults' + version' >= faults + version
    BY <1>2 DEF Numbers
  <1>6. Ticks(i)' \subseteq Ticks(i) \cup {w}
    BY <1>2, <1>4 DEF Ticks, TickMay
  <1>u. w \notin Ticks(i)
    BY <1>2 DEF Ticks, TickMay
  <1>7. ~RowMay(i)'
    <2>1. Secure'
      BY <1>1, <1>3, <1>4, PollAssumption DEF Secure, Holds
    <2>2. replica'[row'.owner].version = version' /\ replica'[row'.owner].pc = "fetch"
      BY <1>1, <1>2, <1>3, <1>4
    <2> QED
      BY <2>1, <2>2 DEF RowMay
  <1>8. CASE i \notin row.seen
    <2>1. RowMay(i)
      BY <1>2, <1>8 DEF RowMay, Secure
    <2> QED
      BY <1>2, <1>5, <1>6, <1>u, <1>7, <2>1, PaidByRow
  <1>9. CASE i \in row.seen
    <2>1. Ticks(i)' \subseteq Ticks(i)
      BY <1>1, <1>2, <1>4, <1>9 DEF Ticks, TickMay
    <2> QED
      BY <1>2, <1>5, <1>7, <2>1, PaidSame
  <1> QED
    BY <1>8, <1>9

\* What a step of w's tick leaves of the debt of others.
LEMMA OthersStay ==
  ASSUME CursorInv, NEW i, NEW w \in Replica, NEW t, replica' = [replica EXCEPT ![w] = t],
         UNCHANGED <<version, row, flow>>
  PROVE  /\ Ticks(i)' \ {w} = Ticks(i) \ {w}
         /\ row.owner # w => (RowMay(i)' <=> RowMay(i))
         /\ replica'[w] = t
  <1>0. replica \in [Replica -> Tick \cup {Idle}] /\ row \in Row
    BY DEF CursorInv, TypeOK
  <1>1. \A u \in Replica : replica'[u] = IF u = w THEN t ELSE replica[u]
    BY <1>0
  <1>2. Ticks(i)' \ {w} = Ticks(i) \ {w}
    BY <1>1 DEF Ticks, TickMay
  <1>3. ASSUME row.owner # w PROVE RowMay(i)' <=> RowMay(i)
    <2>1. CASE row.owner = None
      BY <2>1 DEF RowMay, There, Secure
    <2>2. CASE row.owner # None
      <3>1. row.owner \in Replica /\ replica'[row.owner] = replica[row.owner]
        BY <1>0, <1>1, <1>3, <2>2 DEF Row
      <3> QED
        BY <3>1 DEF RowMay, There, Secure, Holds
    <2> QED
      BY <2>1, <2>2
  <1> QED
    BY <1>1, <1>2, <1>3

\* A tick that ends badly pays, and so does its replica.
LEMMA FaultyPaid ==
  ASSUME CursorInv, Numbers, NEW i \in Item, Paid(i), NEW w \in Replica, NEW t,
         replica' = [replica EXCEPT ![w] = t], t.pc \in {"idle", "complete"},
         UNCHANGED <<version, row, flow, queued>>, Fault
  PROVE  Paid(i)'
  <1>1. Ticks(i)' \ {w} = Ticks(i) \ {w} /\ replica'[w] = t
    BY OthersStay
  <1>2. w \notin Ticks(i)'
    BY <1>1 DEF Ticks, TickMay
  <1>3. Ticks(i)' \subseteq Ticks(i)
    BY <1>1, <1>2
  <1> QED
    BY <1>3, FaultCounts, PaidMore

LEMMA FetchPaid ==
  ASSUME CursorInv, Numbers, NEW i \in Item, Paid(i), NEW w \in Replica, Fetch(w)
  PROVE  Paid(i)'
  <1>1. PICK t : t = replica[w]
    OBVIOUS
  <1>2. PICK a \in Poll(t.old) :
           Update1(w, [t EXCEPT !.pc = "queue", !.items = a.items, !.new = a.new,
                                !.skips = a.skips, !.drops = a.drops, !.lost = a.lost])
    BY <1>1 DEF Fetch
  <1>3. PICK u : u = [t EXCEPT !.pc = "queue", !.items = a.items, !.new = a.new,
                               !.skips = a.skips, !.drops = a.drops, !.lost = a.lost]
    OBVIOUS
  <1>4. /\ t.pc = "fetch" /\ replica' = [replica EXCEPT ![w] = u]
        /\ UNCHANGED <<flow, version, row, queued, faults>>
    BY <1>1, <1>2, <1>3 DEF Fetch, Update1
  <1>5. t \in Tick /\ TickOK(t)
    BY <1>1, <1>4, TickType
  <1>o. t.old \in Cursor /\ Known(t.old) /\ Counted(t.old, {}, {})
    BY <1>5 DEF TickOK, Tick
  <1>6. a.items \subseteq (a.new \cup a.lost) \ t.old /\ t.old \cap Item \subseteq a.new \cup a.lost
    BY <1>o, PollAnswers
  <1>7. u.old = t.old /\ u.id = t.id /\ u.version = t.version /\ u.pc = "queue"
        /\ u.items = a.items /\ u.new = a.new /\ u.lost = a.lost
    BY <1>3, <1>5 DEF Tick
  <1>8. /\ Ticks(i)' \ {w} = Ticks(i) \ {w} /\ replica'[w] = u
        /\ (row.owner # w => (RowMay(i)' <=> RowMay(i)))
    BY <1>4, OthersStay
  <1>9. faults' + version' >= faults + version
    BY <1>4 DEF Numbers
  <1>10. w \in Ticks(i) <=> t.version = version /\ i \notin t.old
    BY <1>1, <1>4 DEF Ticks, TickMay
  <1>11. w \in Ticks(i)' <=> t.version = version /\ i \in a.items
    BY <1>4, <1>7, <1>8 DEF Ticks, TickMay
  <1>12. CASE w \in Ticks(i) /\ i \notin a.items
    <2>1. Ticks(i)' \subseteq Ticks(i) \ {w}
      BY <1>8, <1>11, <1>12
    <2> QED
      BY <1>4, <1>9, <1>12, <2>1, PaidByTick
  <1>13. CASE ~(w \in Ticks(i) /\ i \notin a.items)
    <2>1. Ticks(i)' \subseteq Ticks(i)
      BY <1>6, <1>8, <1>10, <1>11
    <2>2. ASSUME row.owner = w PROVE RowMay(i)' => RowMay(i)
      <3>1. Secure' <=> Secure
        BY <1>1, <1>4, <1>7, <1>8, <2>2 DEF Secure, Holds
      <3>2. CASE ~Secure
        BY <1>4, <3>1, <3>2 DEF RowMay, There
      <3>3. CASE Secure /\ t.version # version
        BY <1>1, <1>4, <1>7, <1>8, <2>2, <3>1, <3>3 DEF RowMay, There
      <3>4. CASE Secure /\ t.version = version
        <4>1. i \in a.new \cup a.lost
          BY <1>6, <1>10, <1>13, <3>4
        <4> QED
          BY <1>4, <1>7, <1>8, <2>2, <3>1, <3>4, <4>1 DEF RowMay
      <3> QED
        BY <3>2, <3>3, <3>4
    <2> QED
      BY <1>4, <1>8, <1>9, <2>1, <2>2, PaidSame
  <1> QED
    BY <1>12, <1>13

LEMMA GivesUpPaid ==
  ASSUME CursorInv, Numbers, NEW i \in Item, Paid(i), NEW w \in Replica, FetchFails(w) \/ QueueFails(w)
  PROVE  Paid(i)'
  <1>1. PICK t : t = replica[w]
    OBVIOUS
  <1>2. PICK u : u = GivesUp(t)
    OBVIOUS
  <1>3. /\ t.pc \in {"fetch", "queue"} /\ replica' = [replica EXCEPT ![w] = u]
        /\ UNCHANGED <<flow, version, row, queued>>
        /\ (Fault \/ (~Accepts(t) /\ UNCHANGED faults))
    BY <1>1, <1>2 DEF FetchFails, QueueFails, Update1
  <1>4. TickOK(t)
    BY <1>1, <1>3, TickType
  <1>5. u.old = t.old /\ u.id = t.id /\ u.version = t.version /\ u.pc = "complete" /\ u.new = t.old
        /\ u.lost = {}
    BY <1>2, <1>4, GivesUpOK
  <1>6. CASE Fault
    BY <1>3, <1>5, <1>6, FaultyPaid
  <1>7. CASE ~Accepts(t) /\ UNCHANGED faults
    <2>1. /\ Ticks(i)' \ {w} = Ticks(i) \ {w} /\ replica'[w] = u
          /\ (row.owner # w => (RowMay(i)' <=> RowMay(i)))
      BY <1>3, OthersStay
    <2>2. Ticks(i)' \subseteq Ticks(i)
      BY <1>5, <2>1 DEF Ticks, TickMay
    <2>3. ASSUME row.owner = w PROVE RowMay(i)' => RowMay(i)
      <3>1. CASE flow # "live"
        BY <1>3, <3>1 DEF RowMay
      <3>2. CASE flow = "live"
        <4>1. t.version # version
          BY <1>7, <3>2 DEF Accepts
        <4>2. Secure' <=> Secure
          BY <1>1, <1>3, <1>5, <2>1, <2>3 DEF Secure, Holds
        <4> QED
          BY <1>1, <1>3, <1>5, <2>1, <2>3, <4>1, <4>2 DEF RowMay, There
      <3> QED
        BY <3>1, <3>2
    <2>4. faults' + version' >= faults + version
      BY <1>3, <1>7 DEF Numbers
    <2> QED
      BY <1>3, <2>1, <2>2, <2>3, <2>4, PaidSame
  <1> QED
    BY <1>3, <1>6, <1>7

LEMMA QueuePaid ==
  ASSUME CursorInv, Numbers, NEW i \in Item, Paid(i), NEW w \in Replica, Queue(w)
  PROVE  Paid(i)'
  <1>1. PICK t : t = replica[w]
    OBVIOUS
  <1>2. PICK j \in t.items :
           /\ queued' = [queued EXCEPT ![j] = IF queued[j] < Many(j) THEN queued[j] + 1 ELSE queued[j]]
           /\ Update1(w, [t EXCEPT !.items = t.items \ {j}])
    BY <1>1 DEF Queue
  <1>3. PICK u : u = [t EXCEPT !.items = t.items \ {j}]
    OBVIOUS
  <1>4. /\ t.pc = "queue" /\ replica' = [replica EXCEPT ![w] = u] /\ t.version = version
        /\ UNCHANGED <<flow, version, row, faults>>
    BY <1>1, <1>2, <1>3 DEF Queue, Update1, Accepts
  <1>5. t \in Tick /\ j \in Item /\ queued \in [Item -> Nat]
    BY <1>1, <1>2, <1>4, TickType DEF Tick, CursorInv, TypeOK
  <1>6. u.old = t.old /\ u.id = t.id /\ u.version = t.version /\ u.pc = "queue"
        /\ u.items = t.items \ {j} /\ u.new = t.new /\ u.lost = t.lost
    BY <1>3, <1>4, <1>5 DEF Tick
  <1>7. /\ Ticks(i)' \ {w} = Ticks(i) \ {w} /\ replica'[w] = u
        /\ (row.owner # w => (RowMay(i)' <=> RowMay(i)))
    BY <1>4, OthersStay
  <1>8. faults' + version' >= faults + version
    BY <1>4 DEF Numbers
  <1>9. RowMay(i)' => RowMay(i)
    <2>1. CASE row.owner = w
      <3>1. Secure' <=> Secure
        BY <1>1, <1>4, <1>6, <1>7, <2>1 DEF Secure, Holds
      <3> QED
        BY <1>1, <1>4, <1>6, <1>7, <2>1, <3>1 DEF RowMay, There
    <2> QED
      BY <1>7, <2>1
  <1>10. CASE i = j
    <2>1. w \in Ticks(i) /\ w \notin Ticks(i)'
      BY <1>1, <1>2, <1>4, <1>6, <1>7, <1>10 DEF Ticks, TickMay
    <2>2. Ticks(i)' \subseteq Ticks(i) \ {w}
      BY <1>7, <2>1
    <2>3. queued'[i] = queued[i] + 1 \/ queued'[i] = queued[i]
      BY <1>2, <1>5, <1>10
    <2> QED
      BY <1>8, <1>9, <2>1, <2>2, <2>3, PaidByTick
  <1>11. CASE i # j
    <2>1. w \in Ticks(i)' => w \in Ticks(i)
      BY <1>1, <1>4, <1>6, <1>7 DEF Ticks, TickMay
    <2>2. queued'[i] = queued[i] /\ Ticks(i)' \subseteq Ticks(i)
      BY <1>2, <1>5, <1>7, <1>11, <2>1
    <2> QED
      BY <1>8, <1>9, <2>2, PaidSame
  <1> QED
    BY <1>10, <1>11

LEMMA CompletePaid ==
  ASSUME CursorInv, Numbers, NEW i \in Item, Paid(i), NEW w \in Replica, Complete(w),
         i \notin forgotten'
  PROVE  Paid(i)'
  <1>0. row \in Row /\ replica \in [Replica -> Tick \cup {Idle}]
    BY DEF CursorInv, TypeOK
  <1>1. /\ Over(w) /\ replica' = [replica EXCEPT ![w] = Idle]
        /\ UNCHANGED <<flow, version, queued, faults>>
    BY DEF Complete, Update1
  <1>2. Ticks(i)' \subseteq Ticks(i)
    BY <1>0, <1>1 DEF Ticks, TickMay, Idle
  <1>3. faults' + version' >= faults + version
    BY <1>1 DEF Numbers
  <1>4. CASE MayComplete(w)
    <2>1. /\ replica[w] \in Tick /\ There /\ replica[w].old = row.seen
          /\ row.seen \cap Item \subseteq replica[w].new \cup replica[w].lost
          /\ replica[w].items = {}
      BY <1>1, <1>4, CompleteWrites
    <2>2. row'.seen = replica[w].new /\ row'.owner = None
      BY <1>0, <1>4, <2>1 DEF Complete, Written, Row
    <2>3. RowMay(i)' => i \notin replica[w].new /\ flow = "live"
      BY <1>1, <2>2 DEF RowMay, Secure
    <2>l. i \notin replica[w].lost
      BY <1>4 DEF Complete
    <2>4. i \notin replica[w].new /\ flow = "live" => RowMay(i)
      BY <1>1, <1>4, <2>1, <2>l DEF RowMay, MayComplete, Over
    <2> QED
      BY <1>1, <1>2, <1>3, <2>3, <2>4, PaidSame
  <1>5. CASE ~MayComplete(w)
    <2>1. UNCHANGED row
      BY <1>5 DEF Complete
    <2>2. row.owner # w => (RowMay(i)' <=> RowMay(i))
      BY <1>1, <2>1, OthersStay
    <2>3. ASSUME row.owner = w PROVE RowMay(i)' => RowMay(i)
      <3>1. ~Secure
        BY <1>5, <2>3 DEF MayComplete, Secure, Holds
      <3>2. ~Secure'
        BY <1>0, <1>1, <2>1, <2>3 DEF Secure, Holds, Idle
      <3> QED
        BY <1>1, <2>1, <3>1, <3>2 DEF RowMay, There
    <2> QED
      BY <1>1, <1>2, <1>3, <2>2, <2>3, PaidSame
  <1> QED
    BY <1>4, <1>5

LEMMA PaidNext == ASSUME CursorInv, CursorInv', PaidInv, [Next]_vars PROVE PaidInv'
  <1>0. Numbers
    BY NumbersHold
  <1>f. forgotten \subseteq forgotten'
    BY DEF Next, vars, Arrive, Recreate, Publish, Deactivate, Delete, FallDue, Lapse, DropOrphan,
           ClaimDue, Fetch, FetchFails, Queue, QueueFails, Complete, Crash
  <1>1. ASSUME NEW i \in Item, i \notin forgotten' PROVE Paid(i)'
    <2>0. Paid(i)
      BY <1>1, <1>f DEF PaidInv
    <2>1. ASSUME UNCHANGED vars PROVE Paid(i)'
      BY <2>0, <2>1 DEF vars, Paid, Ticks, TickMay, RowMay, There, Secure, Holds
    <2>2. ASSUME NEW w \in Replica, Crash(w) PROVE Paid(i)'
      BY <1>0, <2>0, <2>2, FaultyPaid DEF Crash, Update1, Idle
    <2> QED
      BY <1>0, <1>1, <2>0, <2>1, <2>2, WorldPaid, PublishPaid, ClaimDuePaid, FetchPaid, GivesUpPaid,
         QueuePaid, CompletePaid DEF Next
  <1> QED
    BY <1>1 DEF PaidInv

LEMMA PaidInit == Init => PaidInv
  <1> SUFFICES ASSUME Init, NEW i \in Item PROVE Paid(i)
    BY DEF PaidInv
  <1>1. Ticks(i) = {}
    BY DEF Init, Ticks, TickMay, Idle
  <1>2. Cardinality(Ticks(i)) = 0
    BY <1>1, FS_EmptySet
  <1>3. ~RowMay(i) /\ queued[i] = 0 /\ faults = 0 /\ version = 0
    BY DEF Init, RowMay, There, NoRow
  <1> QED
    BY <1>2, <1>3 DEF Paid

\* A cursor counts no item that was not queued, bar its starting points and what
\* a full feed batch leaves out; faults and publishes account for every item
\* queued twice that no feed's cursor forgot; none is forgotten before more than
\* SeenCap have appeared. Types included.
THEOREM NothingSkipped == Spec => []NothingIsSkipped
  <1>1. CursorInv /\ PaidInv => NothingIsSkipped
    <2> SUFFICES ASSUME CursorInv, PaidInv PROVE NothingIsSkipped
      OBVIOUS
    <2>1. \A i \in Item \ forgotten : queued[i] <= faults + version
      <3>1. \A i \in Item : queued[i] \in Nat /\ Cardinality(Ticks(i)) \in Nat
        BY TicksFinite DEF CursorInv, TypeOK
      <3>2. faults \in Nat /\ version \in Nat
        BY DEF CursorInv, TypeOK
      <3> QED
        BY <3>1, <3>2 DEF PaidInv, Paid
    <2> QED
      BY <2>1 DEF CursorInv, NothingIsSkipped, RowOK, Counted, MayForget
  <1>2. Init => CursorInv /\ PaidInv
    BY CursorInit, PaidInit
  <1>3. CursorInv /\ PaidInv /\ [Next]_vars => (CursorInv /\ PaidInv)'
    BY CursorNext, PaidNext
  <1> QED
    BY <1>1, <1>2, <1>3, PTL DEF Spec
=============================================================================
