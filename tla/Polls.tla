-------------------------------- MODULE Polls --------------------------------
(***************************************************************************)
(* internal/poller and repository/polls.go: replicas lease one workflow's  *)
(* poll cursor, fetch what is new upstream, queue one run per item and     *)
(* write the cursor back.                                                  *)
(*                                                                         *)
(* Items are numbered in the order they appear upstream, and a cursor is   *)
(* the set of items it accounts for: everything up to a UID for a mailbox  *)
(* (EmailImapPoller), which may be recreated with a new UIDVALIDITY; the   *)
(* last entries seen for a feed (RSSFeedPoller), which lists its entries   *)
(* in an order of its own. Items that leave upstream are left out. Time is *)
(* what it does: it makes a row due and lets a lease lapse. A lease is     *)
(* measured from the start of a tick, which may claim many rows, and       *)
(* nothing bounds the queue calls, so it may lapse under its holder.       *)
(***************************************************************************)
EXTENDS Integers, FiniteSets

CONSTANTS
    Replica,     \* poller processes
    None,        \* no lease owner
    MaxItems,    \* bound: items that appear upstream
    MaxValidity, \* bound: UIDVALIDITYs a mailbox has had
    Batch,       \* imapPollBatch, rssPollBatch
    SeenCap,     \* rssPollSeen
    MaxVersion,  \* bound: publishes
    MaxFeed,     \* bound: publishes of a workflow that polls a feed
    MaxFaults    \* bound: faults, see Fault

ASSUME PollAssumption ==
    /\ IsFiniteSet(Replica) /\ None \notin Replica
    /\ MaxItems \in Nat \ {0} /\ MaxValidity \in Nat \ {0} /\ Batch \in Nat \ {0}
    /\ SeenCap \in Nat \ {0} /\ MaxVersion \in Nat \ {0} /\ MaxFeed \in Nat
    /\ MaxFaults \in Nat

VARIABLES
    source,    \* which handler the node uses
    arrived,   \* items upstream so far
    validity,  \* the mailbox's UIDVALIDITY
    flow,      \* whether the workflow is published, "off" or "deleted"
    version,   \* the version last published
    row,       \* the poll_cursors row
    replica,   \* what each replica is doing
    queued,    \* how often each item was queued, up to Many
    baseline,  \* items a committed cursor took as its starting point
    dropped,   \* items a committed cursor counts though a full batch left them out
    forgotten, \* items a committed cursor ever left out though it had seen them
    faults     \* faults so far

vars == <<source, arrived, validity, flow, version, row, replica, queued, baseline,
          dropped, forgotten, faults>>

Item == 1..MaxItems
\* -v is what a mailbox cursor holds beside its items: its UIDVALIDITY, v.
Cursor == SUBSET ((-MaxValidity)..MaxItems)
Idle == [pc |-> "idle"]

\* id tells a row from the one a later publish creates.
Row == [id : 0..MaxVersion, seen : Cursor, due : BOOLEAN,
        owner : Replica \cup {None}, lapsed : BOOLEAN]
NoRow == [id |-> 0, seen |-> {}, due |-> FALSE, owner |-> None, lapsed |-> FALSE]

\* A claim under way: old is the cursor it read, new the one it will write,
\* items what it has yet to queue, skips and drops the items new counts without
\* their being queued, lost the items of old and of the batch new leaves out.
Tick == [pc : {"fetch", "queue", "complete"}, id : 1..MaxVersion,
         version : 1..MaxVersion, old : Cursor, new : Cursor, items : SUBSET Item,
         skips : SUBSET Item, drops : SUBSET Item, lost : SUBSET Item]

TypeOK ==
    /\ source \in {"imap", "rss"}
    /\ arrived \in 0..MaxItems /\ validity \in 1..MaxValidity
    /\ flow \in {"live", "off", "deleted"} /\ version \in 0..MaxVersion
    /\ row \in Row /\ (row.owner = None => ~row.lapsed)
    /\ replica \in [Replica -> Tick \cup {Idle}]
    /\ queued \in [Item -> Nat]
    /\ baseline \subseteq Item /\ dropped \subseteq Item /\ forgotten \subseteq Item
    /\ faults \in 0..MaxFaults

Init ==
    /\ source \in {"imap", "rss"}
    /\ arrived \in 0..1 /\ validity = 1
    /\ flow = "off" /\ version = 0 /\ row = NoRow
    /\ replica = [w \in Replica |-> Idle]
    /\ queued = [i \in Item |-> 0]
    /\ baseline = {} /\ dropped = {} /\ forgotten = {} /\ faults = 0

\* What counts as a fault: a poll or a queue call that fails, a write that is
\* lost, a process that dies, a tick that outlives its lease.
Fault == faults < MaxFaults /\ faults' = faults + 1

There == row.id # 0

-----------------------------------------------------------------------------
(* The world outside. *)

Arrive ==
    /\ arrived < MaxItems
    /\ arrived' = arrived + 1
    /\ UNCHANGED <<source, validity, flow, version, row, replica, queued, baseline, dropped, forgotten, faults>>

\* The mailbox is recreated behind its name.
Recreate ==
    /\ source = "imap" /\ validity < MaxValidity
    /\ validity' = validity + 1
    /\ UNCHANGED <<source, arrived, flow, version, row, replica, queued, baseline, dropped,
                   forgotten, faults>>

\* syncPolls keeps the row of a node that is still there, cursor, lease and all.
Publish ==
    /\ flow # "deleted" /\ version < MaxVersion
    /\ source = "rss" => version < MaxFeed
    /\ flow' = "live" /\ version' = version + 1
    /\ row' = IF There THEN row ELSE [NoRow EXCEPT !.id = version + 1, !.due = TRUE]
    /\ UNCHANGED <<source, arrived, validity, replica, queued, baseline, dropped, forgotten, faults>>

\* removePolls.
Deactivate ==
    /\ flow = "live"
    /\ flow' = "off" /\ row' = NoRow
    /\ UNCHANGED <<source, arrived, validity, version, replica, queued, baseline, dropped, forgotten, faults>>

Delete ==
    /\ flow # "deleted"
    /\ flow' = "deleted"
    /\ UNCHANGED <<source, arrived, validity, version, row, replica, queued, baseline, dropped, forgotten, faults>>

\* next_poll_at passes.
FallDue ==
    /\ There /\ ~row.due
    /\ row' = [row EXCEPT !.due = TRUE]
    /\ UNCHANGED <<source, arrived, validity, flow, version, replica, queued, baseline, dropped, forgotten, faults>>

Holds(w) == replica[w].pc # "idle" /\ replica[w].id = row.id

\* lease_until passes.
Lapse ==
    /\ row.owner # None /\ ~row.lapsed
    /\ row' = [row EXCEPT !.lapsed = TRUE]
    /\ IF Holds(row.owner) THEN Fault ELSE UNCHANGED faults
    /\ UNCHANGED <<source, arrived, validity, flow, version, replica, queued, baseline, dropped, forgotten>>

-----------------------------------------------------------------------------
(* What a handler answers: the items to queue, the cursor after them. *)

FirstBatch(S) == {i \in S : Cardinality({j \in S : j < i}) < Batch}

Answer(items, new, skips, drops, lost) ==
    [items |-> items, new |-> new, skips |-> skips, drops |-> drops, lost |-> lost]

\* The first poll of a mailbox, or one that finds it recreated, takes all it
\* holds as its baseline.
Baseline(old) == Answer({}, {-validity} \cup 1..arrived, (1..arrived) \ old, {}, {})

\* Mutant: a capped poll moves its watermark to the top of the mailbox.
PollMailboxToTop(old) ==
    IF -validity \notin old THEN {Baseline(old)}
    ELSE {Answer(FirstBatch((1..arrived) \ old), {-validity} \cup 1..arrived, {}, {}, {})}

\* EmailImapPoller.Poll: a capped poll keeps the UID it reached.
PollMailbox(old) ==
    IF -validity \notin old THEN {Baseline(old)}
    ELSE LET items == FirstBatch((1..arrived) \ old) IN
         {Answer(items, old \cup items, {}, {}, {})}

\* cap: of the entries seen the last SeenCap stay, those of this poll last of
\* all; in which order one poll sees entries is up to the feed.
Kept(old, fresh) ==
    {S \in SUBSET (old \cup fresh) :
        IF Cardinality(old \cup fresh) <= SeenCap THEN S = old \cup fresh
        ELSE Cardinality(S) = SeenCap /\ (fresh \subseteq S \/ S \subseteq fresh)}

\* The batch a feed fills first.
Batches(S) == {T \in SUBSET S : Cardinality(T) = Batch \/ (T = S /\ Cardinality(S) < Batch)}

\* RSSFeedPoller.Poll: a cursor that has seen nothing has no baseline yet, and
\* a capped poll counts the entries it leaves out as seen.
PollFeed(old) ==
    LET fresh == (1..arrived) \ old IN
    IF old = {} THEN {Answer({}, new, new, {}, {}) : new \in Kept({}, fresh)}
    ELSE {Answer(items, new, {}, (new \cap fresh) \ items, (old \cup items) \ new) :
            items \in Batches(fresh), new \in Kept(old, fresh)}

Poll(old) == IF source = "imap" THEN PollMailbox(old) ELSE PollFeed(old)

-----------------------------------------------------------------------------
(* A replica's tick. *)

Update1(w, tick) == replica' = [replica EXCEPT ![w] = tick]

\* Mutant: a lease is never given up.
ClaimableUnleased == There /\ row.due /\ row.owner = None

\* dueWhere.
Claimable == There /\ row.due /\ (row.owner = None \/ row.lapsed)

\* ClaimDue drops the row of a workflow that is not active.
DropOrphan(w) ==
    /\ replica[w].pc = "idle" /\ Claimable /\ flow # "live"
    /\ row' = NoRow
    /\ UNCHANGED <<source, arrived, validity, flow, version, replica, queued, baseline, dropped, forgotten, faults>>

ClaimDue(w) ==
    /\ replica[w].pc = "idle" /\ Claimable /\ flow = "live"
    /\ row' = [row EXCEPT !.owner = w, !.lapsed = FALSE]
    /\ Update1(w, [pc |-> "fetch", id |-> row.id, version |-> version, old |-> row.seen,
                   new |-> row.seen, items |-> {}, skips |-> {}, drops |-> {}, lost |-> {}])
    /\ UNCHANGED <<source, arrived, validity, flow, version, queued, baseline, dropped, forgotten, faults>>

Fetch(w) ==
    LET t == replica[w] IN
    /\ t.pc = "fetch"
    /\ \E a \in Poll(t.old) :
          Update1(w, [t EXCEPT !.pc = "queue", !.items = a.items, !.new = a.new,
                               !.skips = a.skips, !.drops = a.drops, !.lost = a.lost])
    /\ UNCHANGED <<source, arrived, validity, flow, version, row, queued, baseline, dropped, forgotten, faults>>

\* Every early return completes the tick with the cursor it read.
GivesUp(t) == [t EXCEPT !.pc = "complete", !.items = {}, !.new = t.old, !.skips = {},
                        !.drops = {}, !.lost = {}]

\* No handler, no version, no such node, or the handler's own failure.
FetchFails(w) ==
    /\ replica[w].pc = "fetch" /\ Fault
    /\ Update1(w, GivesUp(replica[w]))
    /\ UNCHANGED <<source, arrived, validity, flow, version, row, queued, baseline, dropped, forgotten>>

\* QueuePolled runs only the version that is published.
Accepts(t) == flow = "live" /\ version = t.version

\* How far runs of an item are counted: to more than faults and publishes
\* account for, or to one when a cursor forgot it.
Many(i) == IF i \in forgotten THEN 1 ELSE MaxFaults + MaxVersion + 1

\* Mail is queued in its order, entries in the order of their feed.
Queue(w) ==
    LET t == replica[w] IN
    /\ t.pc = "queue" /\ Accepts(t)
    /\ \E i \in t.items :
          /\ source = "imap" => \A j \in t.items : i <= j
          /\ queued' = [queued EXCEPT ![i] = IF @ < Many(i) THEN @ + 1 ELSE @]
          /\ Update1(w, [t EXCEPT !.items = @ \ {i}])
    /\ UNCHANGED <<source, arrived, validity, flow, version, row, baseline, dropped, forgotten, faults>>

QueueFails(w) ==
    LET t == replica[w] IN
    /\ t.pc = "queue" /\ t.items # {}
    /\ IF Accepts(t) THEN Fault ELSE UNCHANGED faults
    /\ Update1(w, GivesUp(t))
    /\ UNCHANGED <<source, arrived, validity, flow, version, row, queued, baseline, dropped, forgotten>>

\* Mutant: the write is not gated on who holds the lease.
MayCompleteAnyone(w) == row.id = replica[w].id

\* Complete's WHERE.
MayComplete(w) == row.id = replica[w].id /\ row.owner = w

\* What Complete writes.
Written(t) == [row EXCEPT !.seen = t.new, !.due = FALSE, !.owner = None, !.lapsed = FALSE]

Over(w) ==
    LET t == replica[w] IN t.pc = "complete" \/ (t.pc = "queue" /\ t.items = {})

Complete(w) ==
    LET t == replica[w] IN
    /\ Over(w)
    /\ Update1(w, Idle)
    /\ IF MayComplete(w)
       THEN /\ row' = Written(t)
            /\ baseline' = baseline \cup t.skips
            /\ dropped' = dropped \cup t.drops
            /\ forgotten' = forgotten \cup t.lost
       ELSE UNCHANGED <<row, baseline, dropped, forgotten>>
    /\ UNCHANGED <<source, arrived, validity, flow, version, queued, faults>>

\* The process dies, or its write of the cursor is lost.
Crash(w) ==
    /\ replica[w].pc # "idle" /\ Fault
    /\ Update1(w, Idle)
    /\ UNCHANGED <<source, arrived, validity, flow, version, row, queued, baseline, dropped, forgotten>>

-----------------------------------------------------------------------------
Step(w) == DropOrphan(w) \/ ClaimDue(w) \/ Fetch(w) \/ Queue(w) \/ Complete(w)

Next ==
    \/ Arrive \/ Recreate \/ Publish \/ Deactivate \/ Delete \/ FallDue \/ Lapse
    \/ \E w \in Replica : DropOrphan(w)
    \/ \E w \in Replica : ClaimDue(w)
    \/ \E w \in Replica : Fetch(w)
    \/ \E w \in Replica : FetchFails(w)
    \/ \E w \in Replica : Queue(w)
    \/ \E w \in Replica : QueueFails(w)
    \/ \E w \in Replica : Complete(w)
    \/ \E w \in Replica : Crash(w)

Spec == Init /\ [][Next]_vars

\* Time passes, and every replica keeps ticking: the loop has no other exit
\* than the process's own end, and another replica then takes over.
FairSpec ==
    /\ Spec /\ WF_vars(FallDue) /\ WF_vars(Lapse)
    /\ \A w \in Replica : WF_vars(Step(w) \/ QueueFails(w))

-----------------------------------------------------------------------------
(* Properties. *)

\* Whatever fails in between, a cursor never counts an item that was not
\* queued, other than what it started from, at the first poll or in a mailbox
\* that was recreated, and what a full feed batch left out ("Advancing after a
\* queue failure would drop mail that never ran", runOne; "a crash mid-poll
\* retries the same cursor", ClaimDue). Nor is an item run again without a
\* reason: once for the publish that let it run, and at most once more for each
\* fault and each later publish, unless a feed's cursor forgot it, and no
\* cursor forgets before more than SeenCap entries have appeared. Types
\* included.
NothingIsSkipped ==
    /\ TypeOK
    /\ \A i \in Item \ forgotten : queued[i] <= faults + version
    /\ forgotten # {} => source = "rss" /\ arrived > SeenCap
    /\ \A i \in row.seen \cap Item :
          queued[i] > 0 \/ i \in baseline \/ (source = "rss" /\ i \in dropped)

\* While its row lives a cursor never stops to count an item ("an expired worker
\* cannot rewind a watermark after another replica has claimed the row",
\* Complete), a new UIDVALIDITY included; but for a feed's, which remembers the
\* last SeenCap entries.
CursorNeverRewinds ==
    [][There /\ row'.id = row.id =>
          \/ row.seen \cap Item \subseteq row'.seen
          \/ source = "rss" /\ Cardinality(row'.seen) = SeenCap]_vars

\* An item that appears after the baseline is queued in the end, as long as
\* the workflow stays published.
ArrivalsAreQueued ==
    \A i \in Item :
        (row.seen # {} /\ i <= arrived /\ i \notin row.seen)
            ~> (queued[i] > 0 \/ i \in baseline \cup dropped \/ flow # "live")

=============================================================================
