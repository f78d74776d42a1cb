-------------------------- MODULE EventFeedProofs --------------------------
(***************************************************************************)
(* Proofs about the live event feed, for every number of publishers and    *)
(* connections and every size of the broker's history and queues.          *)
(*                                                                         *)
(* What a connection has been given, is about to send and still has queued *)
(* is one sequence, its flow. The steps of the handler move events along   *)
(* it and never reorder it; only a delivery extends it. The inductive      *)
(* invariant says that the broker's history is the unbroken end of the     *)
(* ids, that a publisher's event comes after everything of its own in the  *)
(* flow, and that a subscription closed is never delivered to again.       *)
(***************************************************************************)
EXTENDS EventFeed, SequenceTheorems, TLAPS

PubType == [pc : {"idle", "announce", "deliver", "done"}, ev : Event \cup {NoEvent},
            to : 0 .. MaxConns]
StreamType == [pc : {"off", "gated", "drain", "replay", "live"}, record : BOOLEAN,
               after : Nat, cap : Nat, queue : Seq(Event), pending : Seq(Event),
               sent : Seq(Event), lagged : BOOLEAN, truncated : BOOLEAN]
ClientType == [lastEventID : Nat, got : SUBSET (Nat \ {0}), ended : Nat, marked : BOOLEAN]

Open(s) == s.pc \in {"drain", "replay", "live"}

\* What a connection has sent and has yet to send, in order.
Line(sent, pending, queue) == sent \o (pending \o queue)
Flow(s) == Line(s.sent, s.pending, s.queue)

\* The events of one goroutine have ascending ids.
Ascending(f) == \A i, j \in DOMAIN f : i < j /\ f[i].by = f[j].by => f[i].id < f[j].id

\* A handler holds nothing before it subscribes or after it returned, and no
\* replay once it is live.
GoodStream(s) ==
    /\ s \in StreamType /\ Len(s.queue) <= s.cap
    /\ s.pc = "live" => s.pending = <<>>
    /\ ~Open(s) => s.pending = <<>> /\ s.queue = <<>>
    /\ s.pc = "gated" => s.sent = <<>>
    /\ Ascending(Flow(s))

\* The history is the last ids given out, without a gap.
HistoryInv ==
    /\ history \in Seq(Event) /\ Len(history) <= Buffer
    /\ \A k \in DOMAIN history : history[k].id = lastID - Len(history) + k
    /\ lastID > 0 => history # <<>>

\* A publisher delivers an event of its own that has an id, to a connection
\* that was opened.
GoodPub(p) ==
    /\ pub[p] \in PubType /\ pub[p].to <= conn
    /\ pub[p].pc = "deliver" =>
          pub[p].ev \in Event /\ pub[p].ev.by = p /\ pub[p].ev.id <= lastID

\* Nothing in the flow is newer than the stream's last id, and what a publisher
\* is about to deliver comes after what it delivered.
Behind(f, p) == \A i \in DOMAIN f : f[i].by = p => f[i].id < pub[p].ev.id
OrderInv ==
    Subscribed =>
        /\ \A i \in DOMAIN Flow(stream) : Flow(stream)[i].id <= lastID
        /\ \A p \in Publisher : pub[p].pc = "deliver" /\ pub[p].to = conn
                                    => Behind(Flow(stream), p)

\* NothingMissedSilently over the flow.
Arrives(n) ==
    \/ \E i \in DOMAIN Flow(stream) : Flow(stream)[i].id = n
    \/ \E p \in Publisher : pub[p].pc = "deliver" /\ pub[p].to = conn /\ pub[p].ev.id = n
MissInv ==
    Subscribed /\ ~stream.lagged /\ ~stream.truncated =>
        \A n \in stream.after + 1 .. lastID : Arrives(n)

Counters ==
    /\ over \in BOOLEAN /\ published \in Nat /\ lastID \in 0 .. published
    /\ conn \in 0 .. MaxConns /\ restarts \in 0 .. MaxRestarts
    /\ stream.pc = "gated" => conn < MaxConns
    /\ Subscribed => conn >= 1

FeedInv ==
    /\ Counters /\ HistoryInv
    /\ pub = [p \in Publisher |-> pub[p]] /\ \A p \in Publisher : GoodPub(p)
    /\ client \in ClientType
    /\ GoodStream(stream) /\ OrderInv /\ MissInv

-----------------------------------------------------------------------------
(* Sequences. *)

\* Moving the head of one sequence to the end of the one before it leaves their
\* concatenation alone.
LEMMA HeadMoves ==
    ASSUME NEW S, NEW r \in Seq(S), NEW q \in Seq(S), q # <<>>
    PROVE  Append(r, Head(q)) \o Tail(q) = r \o q
<1> DEFINE a == Append(r, Head(q))
           l == a \o Tail(q)
           m == r \o q
<1>1. Head(q) \in S /\ Tail(q) \in Seq(S) /\ Len(Tail(q)) = Len(q) - 1
      /\ \A i \in 1 .. Len(Tail(q)) : Tail(q)[i] = q[i + 1]
  BY HeadTailProperties
<1>2. a \in Seq(S) /\ Len(a) = Len(r) + 1 /\ (\A i \in 1 .. Len(r) : a[i] = r[i])
      /\ a[Len(r) + 1] = Head(q)
  BY <1>1, AppendProperties
<1>3. l \in Seq(S) /\ Len(l) = Len(a) + Len(Tail(q))
      /\ \A i \in 1 .. Len(a) + Len(Tail(q)) :
            l[i] = IF i <= Len(a) THEN a[i] ELSE Tail(q)[i - Len(a)]
  <2> HIDE DEF a
  <2> QED BY <1>1, <1>2, ConcatProperties
<1>4. m \in Seq(S) /\ Len(m) = Len(r) + Len(q)
      /\ \A i \in 1 .. Len(r) + Len(q) : m[i] = IF i <= Len(r) THEN r[i] ELSE q[i - Len(r)]
  BY ConcatProperties
<1>5. Len(r) \in Nat /\ Len(q) \in Nat \ {0} /\ Head(q) = q[1]
  BY LenProperties, EmptySeq
<1> HIDE DEF a, l, m
<1>6. Len(l) = Len(m)
  BY <1>1, <1>2, <1>3, <1>4, <1>5
<1>7. ASSUME NEW i \in 1 .. Len(l) PROVE l[i] = m[i]
  <2>1. i \in Nat /\ 1 <= i /\ i <= Len(r) + Len(q)
    BY <1>4, <1>5, <1>6
  <2>2. CASE i <= Len(r)
    BY <2>1, <2>2, <1>1, <1>2, <1>3, <1>4, <1>5
  <2>3. CASE i = Len(r) + 1
    <3>1. l[i] = q[1] BY <2>1, <2>3, <1>1, <1>2, <1>3, <1>5
    <3>2. m[i] = q[1] BY <2>1, <2>3, <1>4, <1>5
    <3> QED BY <3>1, <3>2
  <2>4. CASE i > Len(r) + 1
    <3>1. l[i] = Tail(q)[i - (Len(r) + 1)] BY <2>1, <2>4, <1>1, <1>2, <1>3, <1>5
    <3>2. Tail(q)[i - (Len(r) + 1)] = q[i - Len(r)]
      <4>1. i - (Len(r) + 1) \in 1 .. Len(Tail(q)) BY <2>1, <2>4, <1>1, <1>5
      <4>2. (i - (Len(r) + 1)) + 1 = i - Len(r) BY <2>1, <1>5
      <4> QED BY <4>1, <4>2, <1>1
    <3>3. m[i] = q[i - Len(r)] BY <2>1, <2>4, <1>4, <1>5
    <3> QED BY <3>1, <3>2, <3>3
  <2> QED BY <2>1, <2>2, <2>3, <2>4, <1>5
<1>8. l = m
  BY <1>3, <1>4, <1>6, <1>7, SeqEqual
<1> QED BY <1>8 DEF l, m, a

\* Concatenation associates, and so only the front of two flows need be equal.
Associates(x, y, z) == (x \o y) \o z = x \o (y \o z)

LEMMA AllAssociate ==
    ASSUME NEW S, NEW x \in Seq(S), NEW y \in Seq(S), NEW z \in Seq(S)
    PROVE  Associates(x, y, z)
BY ConcatAssociative DEF Associates

LEMMA SameFront ==
    ASSUME NEW S, NEW s1 \in Seq(S), NEW r1 \in Seq(S), NEW s2 \in Seq(S), NEW r2 \in Seq(S),
           NEW q \in Seq(S), s1 \o r1 = s2 \o r2
    PROVE  s1 \o (r1 \o q) = s2 \o (r2 \o q)
<1>1. Associates(s1, r1, q) /\ Associates(s2, r2, q)
  BY AllAssociate
<1> QED BY <1>1 DEF Associates

\* The replay's head is sent.
LEMMA HeadOfMiddleMoves ==
    ASSUME NEW S, NEW s \in Seq(S), NEW r \in Seq(S), NEW q \in Seq(S), r # <<>>
    PROVE  Line(Append(s, Head(r)), Tail(r), q) = Line(s, r, q)
<1>1. Head(r) \in S /\ Tail(r) \in Seq(S)
  BY HeadTailProperties
<1>2. Append(s, Head(r)) \in Seq(S)
  BY <1>1, AppendProperties
<1>3. Append(s, Head(r)) \o Tail(r) = s \o r
  BY HeadMoves
<1> QED BY <1>1, <1>2, <1>3, SameFront DEF Line

\* What is delivered comes last.
LEMMA AppendLast ==
    ASSUME NEW S, NEW s \in Seq(S), NEW r \in Seq(S), NEW q \in Seq(S), NEW e \in S
    PROVE  Line(s, r, Append(q, e)) = Append(Line(s, r, q), e)
<1>0. <<e>> \in Seq(S)
  OBVIOUS
<1>1. Append(q, e) = q \o <<e>>
  BY AppendIsConcat
<1>2. r \o (q \o <<e>>) = (r \o q) \o <<e>>
  BY <1>0, AllAssociate DEF Associates
<1>3. PICK rq : rq = r \o q
  OBVIOUS
<1>4. rq \in Seq(S)
  BY <1>3, ConcatProperties
<1>5. s \o (rq \o <<e>>) = (s \o rq) \o <<e>>
  BY <1>0, <1>4, AllAssociate DEF Associates
<1>6. s \o rq \in Seq(S)
  BY <1>4, ConcatProperties
<1>7. Append(s \o rq, e) = (s \o rq) \o <<e>>
  BY <1>6, AppendIsConcat
<1> QED BY <1>1, <1>2, <1>3, <1>5, <1>7 DEF Line

LEMMA FlowIsSeq ==
    ASSUME NEW s \in StreamType
    PROVE  Flow(s) \in Seq(Event)
<1>1. s.sent \in Seq(Event) /\ s.pending \in Seq(Event) /\ s.queue \in Seq(Event)
  BY DEF StreamType
<1>2. s.pending \o s.queue \in Seq(Event)
  BY <1>1, ConcatProperties
<1> QED BY <1>1, <1>2, ConcatProperties DEF Flow, Line

-----------------------------------------------------------------------------
(* One stream, step by step. *)

LEMMA OffIsGood ==
    /\ GoodStream(Off) /\ Flow(Off) = <<>> /\ ~Open(Off)
    /\ \A b \in BOOLEAN : GoodStream([Off EXCEPT !.pc = "gated", !.record = b])
<1>1. <<>> \in Seq(Event) /\ Len(<<>>) = 0 /\ <<>> \o (<<>> \o <<>>) = <<>>
  BY EmptySeq, ConcatEmptySeq
<1>2. Off \in StreamType /\ Flow(Off) = <<>> /\ ~Open(Off)
  BY <1>1 DEF Off, StreamType, Flow, Line, Open
<1>3. Ascending(<<>>)
  BY DEF Ascending
<1>4. GoodStream(Off)
  BY <1>1, <1>2, <1>3 DEF GoodStream, Off
<1>5. ASSUME NEW b \in BOOLEAN
      PROVE  GoodStream([Off EXCEPT !.pc = "gated", !.record = b])
  <2>1. PICK g : g = [Off EXCEPT !.pc = "gated", !.record = b]
    OBVIOUS
  <2>2. g \in StreamType
    BY <1>1, <2>1 DEF Off, StreamType
  <2>3. g.pc = "gated" /\ g.pending = <<>> /\ g.queue = <<>> /\ g.sent = <<>> /\ g.cap = 0
    BY <2>1 DEF Off
  <2>4. Flow(g) = <<>> /\ Len(g.queue) <= g.cap
    BY <1>1, <2>3 DEF Flow, Line
  <2> QED BY <1>3, <2>1, <2>2, <2>3, <2>4 DEF GoodStream
<1> QED BY <1>2, <1>4, <1>5

LEMMA DrainKeepsFlow ==
    ASSUME NEW s, GoodStream(s), s.pc = "drain", s.queue # <<>>,
           NEW t, t = [s EXCEPT !.queue = Tail(@), !.pending = Append(@, Head(s.queue))]
    PROVE  GoodStream(t) /\ Flow(t) = Flow(s)
<1>1. s \in StreamType /\ s.queue \in Seq(Event) /\ s.pending \in Seq(Event)
      /\ s.sent \in Seq(Event) /\ s.cap \in Nat /\ Len(s.queue) <= s.cap
  BY DEF GoodStream, StreamType
<1>2. Head(s.queue) \in Event /\ Tail(s.queue) \in Seq(Event)
      /\ Len(Tail(s.queue)) = Len(s.queue) - 1 /\ Len(s.queue) \in Nat
  BY <1>1, HeadTailProperties, LenProperties
<1>3. Append(s.pending, Head(s.queue)) \in Seq(Event)
  BY <1>1, <1>2, AppendProperties
<1>4. t \in StreamType /\ t.queue = Tail(s.queue)
      /\ t.pending = Append(s.pending, Head(s.queue)) /\ t.sent = s.sent
      /\ t.pc = "drain" /\ t.cap = s.cap
  BY <1>1, <1>2, <1>3 DEF StreamType
<1>5. t.pending \o t.queue = s.pending \o s.queue
  BY <1>1, <1>4, HeadMoves
<1>6. Flow(t) = Flow(s)
  BY <1>4, <1>5 DEF Flow, Line
<1>7. Len(t.queue) <= t.cap
  BY <1>1, <1>2, <1>4
<1> QED BY <1>4, <1>6, <1>7 DEF GoodStream, Open

LEMMA PcKeepsFlow ==
    ASSUME NEW s, GoodStream(s), Open(s), NEW pc \in {"drain", "replay", "live"},
           pc = "live" => s.pending = <<>>, NEW t, t = [s EXCEPT !.pc = pc]
    PROVE  GoodStream(t) /\ Flow(t) = Flow(s)
<1>1. s \in StreamType
  BY DEF GoodStream
<1>2. t \in StreamType /\ t.queue = s.queue /\ t.pending = s.pending /\ t.sent = s.sent
      /\ t.pc = pc /\ t.cap = s.cap
  BY <1>1 DEF StreamType
<1> QED BY <1>2 DEF GoodStream, Flow, Open

LEMMA LagKeepsFlow ==
    ASSUME NEW s, GoodStream(s), NEW t, t = [s EXCEPT !.lagged = TRUE]
    PROVE  GoodStream(t) /\ Flow(t) = Flow(s)
<1>1. s \in StreamType
  BY DEF GoodStream
<1>2. t \in StreamType /\ t.queue = s.queue /\ t.pending = s.pending /\ t.sent = s.sent
      /\ t.pc = s.pc /\ t.cap = s.cap
  BY <1>1 DEF StreamType
<1> QED BY <1>2 DEF GoodStream, Flow, Open

\* A frame that goes out is the next of the flow, from the replay or, once that
\* is empty, from the queue.
LEMMA SendKeepsFlow ==
    ASSUME NEW s, GoodStream(s),
           NEW ev, NEW t,
           \/ /\ s.pc = "replay" /\ s.pending # <<>> /\ ev = Head(s.pending)
              /\ t = [s EXCEPT !.pending = Tail(@), !.sent = Append(@, ev)]
           \/ /\ s.pc = "live" /\ s.queue # <<>> /\ ev = Head(s.queue)
              /\ t = [s EXCEPT !.queue = Tail(@), !.sent = Append(@, ev)]
    PROVE  GoodStream(t) /\ Flow(t) = Flow(s) /\ ev \in Event
<1>1. s \in StreamType /\ s.queue \in Seq(Event) /\ s.pending \in Seq(Event)
      /\ s.sent \in Seq(Event) /\ s.cap \in Nat /\ Len(s.queue) <= s.cap
  BY DEF GoodStream, StreamType
<1>2. CASE /\ s.pc = "replay" /\ s.pending # <<>> /\ ev = Head(s.pending)
           /\ t = [s EXCEPT !.pending = Tail(@), !.sent = Append(@, ev)]
  <2>1. ev \in Event /\ Tail(s.pending) \in Seq(Event)
    BY <1>1, <1>2, HeadTailProperties
  <2>2. Append(s.sent, ev) \in Seq(Event)
    BY <1>1, <2>1, AppendProperties
  <2>3. t \in StreamType /\ t.queue = s.queue /\ t.pending = Tail(s.pending)
        /\ t.sent = Append(s.sent, ev) /\ t.pc = "replay" /\ t.cap = s.cap
    BY <1>1, <1>2, <2>1, <2>2 DEF StreamType
  <2>4. Line(Append(s.sent, ev), Tail(s.pending), s.queue) = Line(s.sent, s.pending, s.queue)
    <3>1. PICK sent, pending, queue :
              sent = s.sent /\ pending = s.pending /\ queue = s.queue
      OBVIOUS
    <3>2. sent \in Seq(Event) /\ pending \in Seq(Event) /\ queue \in Seq(Event)
          /\ pending # <<>>
      BY <1>1, <1>2, <3>1
    <3>3. Line(Append(sent, Head(pending)), Tail(pending), queue) = Line(sent, pending, queue)
      BY <3>2, HeadOfMiddleMoves
    <3> QED BY <1>2, <3>1, <3>3
  <2>5. Flow(t) = Flow(s)
    BY <2>3, <2>4 DEF Flow
  <2> QED BY <1>1, <2>1, <2>3, <2>5 DEF GoodStream, Open
<1>3. CASE /\ s.pc = "live" /\ s.queue # <<>> /\ ev = Head(s.queue)
           /\ t = [s EXCEPT !.queue = Tail(@), !.sent = Append(@, ev)]
  <2>1. ev \in Event /\ Tail(s.queue) \in Seq(Event)
        /\ Len(Tail(s.queue)) = Len(s.queue) - 1 /\ Len(s.queue) \in Nat
    BY <1>1, <1>3, HeadTailProperties, LenProperties
  <2>2. Append(s.sent, ev) \in Seq(Event)
    BY <1>1, <2>1, AppendProperties
  <2>3. t \in StreamType /\ t.queue = Tail(s.queue) /\ t.pending = s.pending
        /\ t.sent = Append(s.sent, ev) /\ t.pc = "live" /\ t.cap = s.cap
    BY <1>1, <1>3, <2>1, <2>2 DEF StreamType
  <2>4. s.pending = <<>>
    BY <1>3 DEF GoodStream
  <2>5. <<>> \o s.queue = s.queue /\ <<>> \o Tail(s.queue) = Tail(s.queue)
    BY <1>1, <2>1, ConcatEmptySeq
  <2>6. Append(s.sent, ev) \o Tail(s.queue) = s.sent \o s.queue
    BY <1>1, <1>3, HeadMoves
  <2>7. Flow(t) = Flow(s)
    BY <2>3, <2>4, <2>5, <2>6 DEF Flow, Line
  <2>8. Len(t.queue) <= t.cap
    BY <1>1, <2>1, <2>3
  <2> QED BY <2>1, <2>3, <2>4, <2>7, <2>8 DEF GoodStream, Open
<1> QED BY <1>2, <1>3

\* After a terminal frame nothing but what was sent is left of the flow.
LEMMA LastFrame ==
    ASSUME NEW s, GoodStream(s), NEW ev,
           \/ s.pc = "replay" /\ s.pending # <<>> /\ ev = Head(s.pending)
           \/ s.pc = "live" /\ s.queue # <<>> /\ ev = Head(s.queue),
           NEW t, t = [Off EXCEPT !.after = s.after, !.sent = Append(s.sent, ev)]
    PROVE  GoodStream(t) /\ ~Open(t) /\ ev \in Event
<1>1. s \in StreamType /\ s.queue \in Seq(Event) /\ s.pending \in Seq(Event)
      /\ s.sent \in Seq(Event) /\ s.after \in Nat
  BY DEF GoodStream, StreamType
<1>2. PICK u : \/ /\ s.pc = "replay" /\ s.pending # <<>> /\ ev = Head(s.pending)
                  /\ u = [s EXCEPT !.pending = Tail(@), !.sent = Append(@, ev)]
               \/ /\ s.pc = "live" /\ s.queue # <<>> /\ ev = Head(s.queue)
                  /\ u = [s EXCEPT !.queue = Tail(@), !.sent = Append(@, ev)]
  OBVIOUS
<1>3. GoodStream(u) /\ ev \in Event
  BY <1>2, SendKeepsFlow
<1>4. u.sent = Append(s.sent, ev) /\ u \in StreamType
  BY <1>1, <1>2, <1>3 DEF StreamType, GoodStream
<1>5. u.sent \in Seq(Event) /\ u.pending \in Seq(Event) /\ u.queue \in Seq(Event)
  BY <1>4 DEF StreamType
<1>6. PICK w : w = u.pending \o u.queue
  OBVIOUS
<1>7. w \in Seq(Event)
  BY <1>5, <1>6, ConcatProperties
<1>8. <<>> \in Seq(Event) /\ <<>> \o <<>> = <<>> /\ u.sent \o <<>> = u.sent /\ Len(<<>>) = 0
  BY <1>5, EmptySeq, ConcatEmptySeq
<1>9. t \in StreamType /\ t.queue = <<>> /\ t.pending = <<>> /\ t.sent = u.sent
      /\ t.pc = "off" /\ t.cap = 0
  BY <1>1, <1>4, <1>5, <1>8 DEF Off, StreamType
<1>10. Flow(t) = u.sent
  BY <1>8, <1>9 DEF Flow, Line
<1>11. Ascending(u.sent \o w)
  BY <1>3, <1>6 DEF GoodStream, Flow, Line
<1>12. Ascending(u.sent)
  <2>1. \A i \in 1 .. Len(u.sent) : (u.sent \o w)[i] = u.sent[i]
        /\ i \in DOMAIN (u.sent \o w)
    BY <1>5, <1>7, ConcatProperties, LenProperties
  <2>2. DOMAIN u.sent = 1 .. Len(u.sent)
    BY <1>5, LenProperties
  <2> QED BY <1>11, <2>1, <2>2 DEF Ascending
<1> QED BY <1>3, <1>8, <1>9, <1>10, <1>12 DEF GoodStream, Open

\* A delivery extends the flow, and keeps it ascending when it comes after
\* everything of the same goroutine.
LEMMA DeliveryExtendsFlow ==
    ASSUME NEW s, GoodStream(s), Open(s), Len(s.queue) < s.cap, NEW ev \in Event,
           \A i \in DOMAIN Flow(s) : Flow(s)[i].by = ev.by => Flow(s)[i].id < ev.id,
           NEW t, t = [s EXCEPT !.queue = Append(@, ev)]
    PROVE  GoodStream(t) /\ Flow(t) = Append(Flow(s), ev)
<1>1. s \in StreamType /\ s.queue \in Seq(Event) /\ s.pending \in Seq(Event)
      /\ s.sent \in Seq(Event) /\ s.cap \in Nat
  BY DEF GoodStream, StreamType
<1>2. Append(s.queue, ev) \in Seq(Event) /\ Len(Append(s.queue, ev)) = Len(s.queue) + 1
      /\ Len(s.queue) \in Nat
  BY <1>1, AppendProperties, LenProperties
<1>3. t \in StreamType /\ t.queue = Append(s.queue, ev) /\ t.pending = s.pending
      /\ t.sent = s.sent /\ t.pc = s.pc /\ t.cap = s.cap
  BY <1>1, <1>2 DEF StreamType
<1>4. Flow(t) = Append(Flow(s), ev)
  <2>1. PICK sent, pending, queue : sent = s.sent /\ pending = s.pending /\ queue = s.queue
    OBVIOUS
  <2>2. sent \in Seq(Event) /\ pending \in Seq(Event) /\ queue \in Seq(Event)
    BY <1>1, <2>1
  <2>3. Line(sent, pending, Append(queue, ev)) = Append(Line(sent, pending, queue), ev)
    BY <2>2, AppendLast
  <2> QED BY <1>3, <2>1, <2>3 DEF Flow
<1>5. Len(t.queue) <= t.cap
  BY <1>1, <1>2, <1>3
<1>6. PICK f : f = Flow(s)
  OBVIOUS
<1>7. f \in Seq(Event) /\ Ascending(f)
  BY <1>1, <1>6, FlowIsSeq DEF GoodStream
<1>8. Ascending(Append(f, ev))
  <2>1. PICK g : g = Append(f, ev)
    OBVIOUS
  <2>2. Len(f) \in Nat /\ DOMAIN f = 1 .. Len(f) /\ DOMAIN g = 1 .. (Len(f) + 1)
        /\ (\A i \in 1 .. Len(f) : g[i] = f[i]) /\ g[Len(f) + 1] = ev
    BY <1>7, <2>1, AppendProperties, LenProperties
  <2>3. ASSUME NEW i \in DOMAIN g, NEW j \in DOMAIN g, i < j, g[i].by = g[j].by
        PROVE  g[i].id < g[j].id
    <3>1. i \in 1 .. Len(f) /\ g[i] = f[i]
      BY <2>2, <2>3
    <3>2. CASE j = Len(f) + 1
      BY <1>6, <2>2, <2>3, <3>1, <3>2
    <3>3. CASE j # Len(f) + 1
      <4>1. j \in 1 .. Len(f) /\ g[j] = f[j]
        BY <2>2, <3>3
      <4> QED BY <1>7, <2>2, <2>3, <3>1, <4>1 DEF Ascending
    <3> QED BY <3>2, <3>3
  <2> QED BY <2>1, <2>3 DEF Ascending
<1> QED BY <1>3, <1>4, <1>5, <1>6, <1>8 DEF GoodStream, Open

-----------------------------------------------------------------------------
(* Every step keeps the invariant. *)

LEMMA FlowIs ==
    ASSUME GoodStream(stream)
    PROVE  /\ Flow(stream) \in Seq(Event) /\ stream \in StreamType
           /\ Len(Flow(stream)) \in Nat
           /\ DOMAIN Flow(stream) = 1 .. Len(Flow(stream))
BY FlowIsSeq, LenProperties DEF GoodStream

\* The handler moves events along and tells the client: nobody else notices.
LEMMA FlowMoves ==
    ASSUME FeedInv, UNCHANGED <<over, published, lastID, history, pub, conn, restarts>>,
           client' \in ClientType, GoodStream(stream'), Open(stream), Open(stream'),
           Flow(stream') = Flow(stream), stream'.after = stream.after,
           stream'.lagged = stream.lagged, stream'.truncated = stream.truncated
    PROVE  FeedInv'
<1>1. Counters' /\ HistoryInv'
  BY DEF FeedInv, Counters, HistoryInv, Open, Subscribed
<1>2. \A p \in Publisher : GoodPub(p)'
  BY DEF FeedInv, GoodPub
<1>3. OrderInv'
  BY DEF FeedInv, OrderInv, Behind, Open, Subscribed
<1>4. MissInv'
  BY DEF FeedInv, MissInv, Arrives, Open, Subscribed
<1> QED BY <1>1, <1>2, <1>3, <1>4 DEF FeedInv

\* A handler that is not subscribed has nothing to lose.
LEMMA StreamIsClosed ==
    ASSUME FeedInv, UNCHANGED <<over, published, lastID, history, pub, conn, restarts>>,
           client' \in ClientType, GoodStream(stream'), ~Open(stream'),
           stream'.pc = "gated" => conn < MaxConns
    PROVE  FeedInv'
<1>1. Counters' /\ HistoryInv'
  BY DEF FeedInv, Counters, HistoryInv, Open, Subscribed
<1>2. \A p \in Publisher : GoodPub(p)'
  BY DEF FeedInv, GoodPub
<1>3. OrderInv' /\ MissInv'
  BY DEF OrderInv, MissInv, Open, Subscribed
<1> QED BY <1>1, <1>2, <1>3 DEF FeedInv

\* The next id is given out: it is newer than everything in the flow, and on
\* its way to the connection that is open.
LEMMA AssignKeeps ==
    ASSUME FeedInv, NEW p \in Publisher, pub[p].pc # "deliver", NEW last \in BOOLEAN,
           Assign(p, last), UNCHANGED <<over, conn, stream, client, restarts>>
    PROVE  FeedInv'
<1>1. PICK ev : ev = [n |-> published + 1, id |-> lastID + 1, last |-> last, by |-> p]
  OBVIOUS
<1>2. published \in Nat /\ lastID \in 0 .. published /\ conn \in 0 .. MaxConns
  BY DEF FeedInv, Counters
<1>3. ev \in Event /\ ev.id = lastID + 1 /\ ev.by = p
  BY <1>1, <1>2 DEF Event
<1>4. published' = published + 1 /\ lastID' = lastID + 1
  BY DEF Assign
<1>5. /\ history' = IF Len(Append(history, ev)) > Buffer THEN Tail(Append(history, ev))
                    ELSE Append(history, ev)
      /\ pub' = [pub EXCEPT ![p] = [pc |-> "deliver", ev |-> ev,
                                    to |-> IF Subscribed THEN conn ELSE 0]]
  BY <1>1 DEF Assign
<1>6. Counters'
  BY <1>2, <1>4 DEF FeedInv, Counters, Subscribed
<1>7. HistoryInv'
  <2>1. history \in Seq(Event) /\ Len(history) <= Buffer /\ Len(history) \in Nat
        /\ DOMAIN history = 1 .. Len(history)
        /\ \A k \in 1 .. Len(history) : history[k].id = lastID - Len(history) + k
    BY LenProperties DEF FeedInv, HistoryInv
  <2>2. PICK all : all = Append(history, ev)
    OBVIOUS
  <2>3. all \in Seq(Event) /\ all # <<>> /\ Len(all) = Len(history) + 1
        /\ (\A i \in 1 .. Len(history) : all[i] = history[i]) /\ all[Len(history) + 1] = ev
    BY <1>3, <2>1, <2>2, AppendProperties
  <2>4. \A k \in 1 .. Len(all) : all[k].id = (lastID + 1) - Len(all) + k
    BY <1>2, <1>3, <2>1, <2>3
  <2>5. Buffer \in Nat \ {0}
    BY FeedBounds
  <2>6. CASE Len(all) > Buffer
    <3>1. history' = Tail(all)
      BY <1>5, <2>2, <2>6
    <3>2. PICK h : h = Tail(all)
      OBVIOUS
    <3>3. h \in Seq(Event) /\ Len(h) = Len(all) - 1
          /\ \A i \in 1 .. Len(h) : h[i] = all[i + 1]
      BY <2>3, <3>2, HeadTailProperties
    <3>4. DOMAIN h = 1 .. Len(h) /\ Len(h) = Len(history)
      BY <2>1, <2>3, <3>3, LenProperties
    <3>5. \A k \in 1 .. Len(h) : h[k].id = (lastID + 1) - Len(h) + k
      <4>1. SUFFICES ASSUME NEW k \in 1 .. Len(h)
                     PROVE  h[k].id = (lastID + 1) - Len(h) + k
        OBVIOUS
      <4>2. k + 1 \in 1 .. Len(all) /\ h[k] = all[k + 1]
        BY <2>1, <2>3, <3>3, <3>4
      <4>3. all[k + 1].id = (lastID + 1) - Len(all) + (k + 1)
        BY <2>4, <4>2
      <4>4. (lastID + 1) - Len(all) + (k + 1) = (lastID + 1) - Len(h) + k
        BY <1>2, <2>1, <2>3, <3>4
      <4> QED BY <4>2, <4>3, <4>4
    <3>6. h # <<>>
      <4>1. Len(h) > 0 BY <2>1, <2>3, <2>5, <2>6, <3>4
      <4> QED BY <4>1, EmptySeq
    <3> QED BY <1>4, <2>1, <3>1, <3>2, <3>3, <3>4, <3>5, <3>6 DEF HistoryInv
  <2>7. CASE ~(Len(all) > Buffer)
    <3>1. history' = all
      BY <1>5, <2>2, <2>7
    <3>2. DOMAIN all = 1 .. Len(all) /\ Len(all) <= Buffer
      BY <2>1, <2>3, <2>5, <2>7, LenProperties
    <3> QED BY <1>4, <2>3, <2>4, <3>1, <3>2 DEF HistoryInv
  <2> QED BY <2>6, <2>7
<1>8. pub' = [q \in Publisher |-> pub'[q]] /\ (\A q \in Publisher \ {p} : pub'[q] = pub[q])
      /\ pub'[p] = [pc |-> "deliver", ev |-> ev, to |-> IF Subscribed THEN conn ELSE 0]
  BY <1>5 DEF FeedInv
<1>9. ASSUME NEW q \in Publisher PROVE GoodPub(q)'
  <2>1. CASE q = p
    <3>1. pub'[p].to \in 0 .. MaxConns /\ pub'[p].to <= conn
      BY <1>2, <1>8, FeedBounds
    <3> QED BY <1>2, <1>3, <1>4, <1>8, <2>1, <3>1 DEF GoodPub, PubType
  <2>2. CASE q # p
    <3>1. pub'[q] = pub[q] /\ GoodPub(q)
      BY <1>8, <2>2 DEF FeedInv
    <3>2. pub[q].pc = "deliver" => pub[q].ev.id \in Nat
      BY <3>1 DEF GoodPub, Event
    <3> QED BY <1>2, <1>4, <3>1, <3>2 DEF GoodPub
  <2> QED BY <2>1, <2>2
<1>10. Flow(stream) \in Seq(Event) /\ \A i \in DOMAIN Flow(stream) : Flow(stream)[i].id \in Nat
  <2>1. PICK f : f = Flow(stream)
    OBVIOUS
  <2>2. f \in Seq(Event) /\ DOMAIN f = 1 .. Len(f)
    BY <2>1, FlowIs DEF FeedInv
  <2>3. \A i \in DOMAIN f : f[i] \in Event
    BY <2>2, ElementOfSeq
  <2> QED BY <2>1, <2>2, <2>3 DEF Event
<1>11. OrderInv'
  <2>1. ASSUME Subscribed
        PROVE  /\ \A i \in DOMAIN Flow(stream) : Flow(stream)[i].id <= lastID'
               /\ \A q \in Publisher : pub'[q].pc = "deliver" /\ pub'[q].to = conn
                      => \A i \in DOMAIN Flow(stream) : Flow(stream)[i].by = q
                             => Flow(stream)[i].id < pub'[q].ev.id
    <3>1. \A i \in DOMAIN Flow(stream) : Flow(stream)[i].id <= lastID
      BY <2>1 DEF FeedInv, OrderInv
    <3>2. \A i \in DOMAIN Flow(stream) : Flow(stream)[i].id < lastID + 1
      BY <1>2, <1>10, <3>1
    <3>3. ASSUME NEW q \in Publisher, pub'[q].pc = "deliver", pub'[q].to = conn,
                 NEW i \in DOMAIN Flow(stream), Flow(stream)[i].by = q
          PROVE  Flow(stream)[i].id < pub'[q].ev.id
      <4>1. CASE q = p
        BY <1>3, <1>8, <3>2, <4>1
      <4>2. CASE q # p
        BY <1>8, <2>1, <3>3, <4>2 DEF FeedInv, OrderInv, Behind
      <4> QED BY <4>1, <4>2
    <3> QED BY <1>2, <1>4, <1>10, <3>2, <3>3
  <2> QED BY <2>1 DEF OrderInv, Behind, Subscribed
<1>12. MissInv'
  <2>1. ASSUME Subscribed, ~stream.lagged, ~stream.truncated,
               NEW n \in stream.after + 1 .. lastID + 1
        PROVE  \/ \E i \in DOMAIN Flow(stream) : Flow(stream)[i].id = n
               \/ \E q \in Publisher : pub'[q].pc = "deliver" /\ pub'[q].to = conn
                                           /\ pub'[q].ev.id = n
    <3>1. CASE n = lastID + 1
      BY <1>3, <1>8, <2>1, <3>1
    <3>2. CASE n # lastID + 1
      <4>1. stream.after \in Nat
        BY DEF FeedInv, GoodStream, StreamType
      <4>2. n \in stream.after + 1 .. lastID
        BY <1>2, <3>2, <4>1
      <4>3. Arrives(n)
        BY <2>1, <4>2 DEF FeedInv, MissInv
      <4> QED BY <1>8, <4>3 DEF Arrives
    <3> QED BY <3>1, <3>2
  <2> QED BY <1>4, <2>1 DEF MissInv, Arrives, Subscribed
<1> QED BY <1>6, <1>7, <1>8, <1>9, <1>11, <1>12 DEF FeedInv

\* A publisher about to announce has nothing under way.
LEMMA PcKeeps ==
    ASSUME FeedInv, NEW p \in Publisher, pub[p].pc # "deliver", NEW pc \in {"announce", "done"},
           pub' = [pub EXCEPT ![p].pc = pc], over' \in BOOLEAN,
           UNCHANGED <<published, lastID, history, conn, stream, client, restarts>>
    PROVE  FeedInv'
<1>1. Counters' /\ HistoryInv'
  BY DEF FeedInv, Counters, HistoryInv, Subscribed
<1>2. pub[p] \in PubType
  BY DEF FeedInv, GoodPub
<1>3. pub' = [q \in Publisher |-> pub'[q]] /\ (\A q \in Publisher \ {p} : pub'[q] = pub[q])
      /\ pub'[p] = [pub[p] EXCEPT !.pc = pc]
  BY DEF FeedInv
<1>4. pub'[p] \in PubType /\ pub'[p].pc = pc /\ pub'[p].to = pub[p].to
  BY <1>2, <1>3 DEF PubType
<1>5. pub'[p].pc # "deliver"
  BY <1>4
<1>6. ASSUME NEW q \in Publisher PROVE GoodPub(q)'
  <2>1. CASE q = p
    BY <1>4, <1>5, <2>1 DEF FeedInv, GoodPub
  <2>2. CASE q # p
    BY <1>3, <2>2 DEF FeedInv, GoodPub
  <2> QED BY <2>1, <2>2
<1>7. \A q \in Publisher : pub'[q].pc = "deliver" => pub'[q] = pub[q] /\ pub[q].pc = "deliver"
  BY <1>3, <1>5
<1>8. \A q \in Publisher : pub[q].pc = "deliver" => pub'[q] = pub[q]
  BY <1>3
<1>9. OrderInv'
  BY <1>7 DEF FeedInv, OrderInv, Behind, Subscribed
<1>10. MissInv'
  BY <1>8 DEF FeedInv, MissInv, Arrives, Subscribed
<1> QED BY <1>1, <1>3, <1>6, <1>9, <1>10 DEF FeedInv

LEMMA DeliverKeeps ==
    ASSUME FeedInv, NEW p \in Publisher, Deliver(p)
    PROVE  FeedInv'
<1>1. pub[p].pc = "deliver" /\ Delivered(p)
      /\ UNCHANGED <<over, published, lastID, history, conn, client, restarts>>
  BY DEF Deliver
<1>2. PICK ev : ev = pub[p].ev
  OBVIOUS
<1>3. ev \in Event /\ ev.by = p /\ ev.id <= lastID /\ pub[p] \in PubType
  BY <1>1, <1>2 DEF FeedInv, GoodPub
<1>4. pub' = [q \in Publisher |-> pub'[q]] /\ (\A q \in Publisher \ {p} : pub'[q] = pub[q])
      /\ pub'[p] = [IdlePub EXCEPT !.pc = IF pub[p].ev.last THEN "done" ELSE "idle"]
  BY <1>1 DEF FeedInv, Delivered
<1>5. pub'[p] \in PubType /\ pub'[p].pc # "deliver" /\ pub'[p].to = 0
  BY <1>4, FeedBounds DEF IdlePub, PubType
<1>6. conn \in Nat
  BY FeedBounds DEF FeedInv, Counters
<1>7. ASSUME NEW q \in Publisher PROVE GoodPub(q)'
  <2>1. CASE q = p
    BY <1>1, <1>5, <1>6, <2>1 DEF GoodPub
  <2>2. CASE q # p
    BY <1>1, <1>4, <2>2 DEF FeedInv, GoodPub
  <2> QED BY <2>1, <2>2
<1>8. HistoryInv'
  BY <1>1 DEF FeedInv, HistoryInv
<1>9. \A q \in Publisher : pub'[q].pc = "deliver" => q # p /\ pub'[q] = pub[q]
  BY <1>4, <1>5
<1>10. stream \in StreamType /\ GoodStream(stream)
  BY DEF FeedInv, GoodStream
<1>11. CASE ~(Subscribed /\ pub[p].to = conn)
  <2>1. UNCHANGED stream
    BY <1>11 DEF Deliver
  <2>2. Counters' /\ GoodStream(stream')
    BY <1>1, <2>1 DEF FeedInv, Counters, Subscribed
  <2>3. OrderInv'
    BY <1>1, <1>9, <2>1 DEF FeedInv, OrderInv, Behind, Subscribed
  <2>4. MissInv'
    BY <1>1, <1>4, <1>11, <2>1 DEF FeedInv, MissInv, Arrives, Subscribed
  <2> QED BY <1>1, <1>4, <1>7, <1>8, <2>2, <2>3, <2>4 DEF FeedInv
<1>12. CASE Subscribed /\ pub[p].to = conn /\ ~(Len(stream.queue) < stream.cap)
  <2>1. stream' = [stream EXCEPT !.lagged = TRUE]
    BY <1>12 DEF Deliver
  <2>2. GoodStream(stream') /\ Flow(stream') = Flow(stream)
    BY <1>10, <2>1, LagKeepsFlow
  <2>3. stream'.pc = stream.pc /\ stream'.lagged
    BY <1>10, <2>1 DEF StreamType
  <2>4. Counters'
    BY <1>1, <2>3 DEF FeedInv, Counters, Subscribed
  <2>5. OrderInv'
    BY <1>1, <1>9, <2>2, <2>3 DEF FeedInv, OrderInv, Behind, Subscribed
  <2>6. MissInv'
    BY <2>3 DEF MissInv
  <2> QED BY <1>1, <1>4, <1>7, <1>8, <2>2, <2>4, <2>5, <2>6 DEF FeedInv
<1>13. CASE Subscribed /\ pub[p].to = conn /\ Len(stream.queue) < stream.cap
  <2>1. stream' = [stream EXCEPT !.queue = Append(@, ev)]
    BY <1>2, <1>13 DEF Deliver
  <2>2. (\A i \in DOMAIN Flow(stream) : Flow(stream)[i].id <= lastID)
        /\ \A q \in Publisher : pub[q].pc = "deliver" /\ pub[q].to = conn
               => \A i \in DOMAIN Flow(stream) :
                      Flow(stream)[i].by = q => Flow(stream)[i].id < pub[q].ev.id
    BY <1>13 DEF FeedInv, OrderInv, Behind
  <2>3. \A i \in DOMAIN Flow(stream) : Flow(stream)[i].by = ev.by => Flow(stream)[i].id < ev.id
    BY <1>1, <1>2, <1>3, <1>13, <2>2
  <2>4. GoodStream(stream') /\ Flow(stream') = Append(Flow(stream), ev)
    BY <1>3, <1>10, <1>13, <2>1, <2>3, DeliveryExtendsFlow DEF Open, Subscribed
  <2>5. stream'.pc = stream.pc /\ stream'.after = stream.after
        /\ stream'.lagged = stream.lagged /\ stream'.truncated = stream.truncated
    BY <1>10, <2>1 DEF StreamType
  <2>6. Counters'
    BY <1>1, <2>5 DEF FeedInv, Counters, Subscribed
  <2>7. PICK f, g : f = Flow(stream) /\ g = Flow(stream')
    OBVIOUS
  <2>8. f \in Seq(Event)
    BY <1>10, <2>7, FlowIs
  <2>9. Len(f) \in Nat /\ DOMAIN f = 1 .. Len(f) /\ DOMAIN g = 1 .. (Len(f) + 1)
        /\ (\A i \in 1 .. Len(f) : g[i] = f[i]) /\ g[Len(f) + 1] = ev
    BY <1>3, <2>4, <2>7, <2>8, AppendProperties, LenProperties
  <2>10. OrderInv'
    <3>1. \A i \in DOMAIN g : g[i].id <= lastID
      BY <1>3, <2>2, <2>7, <2>9
    <3>2. ASSUME NEW q \in Publisher, pub'[q].pc = "deliver", pub'[q].to = conn,
                 NEW i \in DOMAIN g, g[i].by = q
          PROVE  g[i].id < pub'[q].ev.id
      <4>1. q # p /\ pub'[q] = pub[q]
        BY <1>9, <3>2
      <4>2. i \in DOMAIN f /\ g[i] = f[i]
        BY <1>3, <2>9, <3>2, <4>1
      <4> QED BY <2>2, <2>7, <3>2, <4>1, <4>2
    <3> QED BY <1>1, <2>7, <3>1, <3>2 DEF OrderInv, Behind
  <2>11. MissInv'
    <3>1. ASSUME ~stream.lagged, ~stream.truncated, NEW n \in stream.after + 1 .. lastID
          PROVE  \/ \E i \in DOMAIN g : g[i].id = n
                 \/ \E q \in Publisher : pub'[q].pc = "deliver" /\ pub'[q].to = conn
                                             /\ pub'[q].ev.id = n
      <4>1. \/ \E i \in DOMAIN f : f[i].id = n
            \/ \E q \in Publisher : pub[q].pc = "deliver" /\ pub[q].to = conn
                                        /\ pub[q].ev.id = n
        BY <1>13, <2>7, <3>1 DEF FeedInv, MissInv, Arrives
      <4>2. CASE \E i \in DOMAIN f : f[i].id = n
        BY <2>9, <4>2
      <4>3. ASSUME NEW q \in Publisher, pub[q].pc = "deliver", pub[q].to = conn,
                   pub[q].ev.id = n
            PROVE  \/ \E i \in DOMAIN g : g[i].id = n
                   \/ \E r \in Publisher : pub'[r].pc = "deliver" /\ pub'[r].to = conn
                                               /\ pub'[r].ev.id = n
        <5>1. CASE q = p
          BY <1>2, <2>9, <4>3, <5>1
        <5>2. CASE q # p
          BY <1>4, <4>3, <5>2
        <5> QED BY <5>1, <5>2
      <4> QED BY <4>1, <4>2, <4>3
    <3> QED BY <1>1, <2>5, <2>7, <3>1 DEF MissInv, Arrives
  <2> QED BY <1>1, <1>4, <1>7, <1>8, <2>4, <2>6, <2>10, <2>11 DEF FeedInv
<1> QED BY <1>11, <1>12, <1>13

\* A new connection starts with the end of the history, to which nobody is
\* delivering yet.
LEMMA SubscribeKeeps ==
    ASSUME FeedInv, Subscribe
    PROVE  FeedInv'
<1>1. stream.pc = "gated" /\ conn' = conn + 1
      /\ UNCHANGED <<over, published, lastID, history, pub, client, restarts>>
  BY DEF Subscribe
<1>old. PICK old \in 0 .. Len(history) :
         /\ \A i \in DOMAIN history : history[i].id <= client.lastEventID <=> i <= old
         /\ stream' = [stream EXCEPT
                          !.pc = "drain", !.after = client.lastEventID,
                          !.queue = SubSeq(history, old + 1, Len(history)),
                          !.cap = Len(SubSeq(history, old + 1, Len(history))) + SubscriberQueue,
                          !.truncated = /\ SubSeq(history, old + 1, Len(history)) # <<>>
                                        /\ SubSeq(history, old + 1, Len(history))[1].id
                                              > client.lastEventID + 1]
  BY Zenon DEF Subscribe
<1>names. PICK after, replay :
          after = client.lastEventID /\ replay = SubSeq(history, old + 1, Len(history))
  OBVIOUS
<1>2. /\ after = client.lastEventID
      /\ replay = SubSeq(history, old + 1, Len(history))
      /\ \A i \in DOMAIN history : history[i].id <= after <=> i <= old
      /\ stream' = [stream EXCEPT !.pc = "drain", !.after = after, !.queue = replay,
                        !.cap = Len(replay) + SubscriberQueue,
                        !.truncated = replay # <<>> /\ replay[1].id > after + 1]
  BY <1>old, <1>names, Zenon
<1>3. PICK len : len = Len(history)
  OBVIOUS
<1>4. history \in Seq(Event) /\ len \in Nat /\ DOMAIN history = 1 .. len /\ old \in 0 .. len
      /\ (\A k \in 1 .. len : history[k].id = lastID - len + k)
      /\ lastID \in Nat /\ published \in Nat /\ (lastID > 0 => len > 0)
      /\ \A k \in 1 .. len : history[k] \in Event
  <2>1. history \in Seq(Event) /\ Len(history) \in Nat /\ DOMAIN history = 1 .. Len(history)
        /\ (\A k \in DOMAIN history : history[k].id = lastID - Len(history) + k)
        /\ lastID \in Nat /\ published \in Nat /\ (lastID > 0 => history # <<>>)
    BY LenProperties DEF FeedInv, HistoryInv, Counters
  <2>2. history # <<>> => Len(history) \in Nat \ {0}
    BY <2>1, EmptySeq
  <2>3. \A k \in 1 .. Len(history) : history[k] \in Event
    BY <2>1, ElementOfSeq
  <2> QED BY <1>2, <1>3, <2>1, <2>2, <2>3
<1>5. after \in Nat /\ conn \in 0 .. MaxConns /\ conn < MaxConns /\ SubscriberQueue \in Nat \ {0}
      /\ MaxConns \in Nat
  BY <1>1, <1>2, FeedBounds DEF FeedInv, Counters, ClientType
<1>6. /\ replay \in Seq(Event) /\ Len(replay) = len - old /\ DOMAIN replay = 1 .. len - old
      /\ \A i \in 1 .. len - old : replay[i] = history[old + i]
  <2>1. \A i \in old + 1 .. len : history[i] \in Event
    BY <1>4
  <2>2. old + 1 \in Int /\ len \in Int /\ replay = SubSeq(history, old + 1, len)
    BY <1>2, <1>3, <1>4
  <2>3. /\ replay \in Seq(Event)
        /\ Len(replay) = IF old + 1 <= len THEN len - (old + 1) + 1 ELSE 0
        /\ \A i \in 1 .. len - (old + 1) + 1 : replay[i] = history[(old + 1) + i - 1]
    BY <2>1, <2>2, SubSeqProperties
  <2>4. Len(replay) = len - old /\ len - (old + 1) + 1 = len - old
    BY <1>4, <2>3
  <2>5. DOMAIN replay = 1 .. Len(replay)
    BY <2>3, LenProperties
  <2>6. ASSUME NEW i \in 1 .. len - old PROVE replay[i] = history[old + i]
    <3>1. (old + 1) + i - 1 = old + i
      BY <1>4
    <3> QED BY <2>3, <2>4, <3>1
  <2> QED BY <2>3, <2>4, <2>5, <2>6
<1>7. \A i \in 1 .. len - old : replay[i].id = lastID - len + (old + i) /\ old + i \in 1 .. len
  BY <1>4, <1>6
<1>8. stream \in StreamType /\ stream.pending = <<>> /\ stream.sent = <<>>
  BY <1>1 DEF FeedInv, GoodStream, Open
<1>9. PICK s : s = stream'
  OBVIOUS
<1>10. s \in StreamType /\ s.pc = "drain" /\ s.after = after /\ s.queue = replay
       /\ s.pending = <<>> /\ s.sent = <<>> /\ s.cap = (len - old) + SubscriberQueue
       /\ s.truncated = (replay # <<>> /\ replay[1].id > after + 1)
  <2>1. Len(replay) + SubscriberQueue \in Nat /\ len - old \in Nat
    BY <1>4, <1>5, <1>6
  <2>2. (replay # <<>> /\ replay[1].id > after + 1) \in BOOLEAN
    OBVIOUS
  <2>3. s \in StreamType
    BY <1>2, <1>5, <1>6, <1>8, <1>9, <2>1, <2>2 DEF StreamType
  <2>4. s.pc = "drain" /\ s.after = after /\ s.queue = replay /\ s.pending = <<>>
        /\ s.sent = <<>> /\ s.cap = Len(replay) + SubscriberQueue
    BY <1>2, <1>8, <1>9 DEF StreamType
  <2>5. s.truncated = (replay # <<>> /\ replay[1].id > after + 1)
    BY <1>2, <1>8, <1>9 DEF StreamType
  <2> QED BY <1>6, <2>3, <2>4, <2>5
<1>11. Flow(s) = replay
  BY <1>6, <1>10, ConcatEmptySeq DEF Flow, Line
<1>12. Ascending(replay)
  <2>1. ASSUME NEW i \in DOMAIN replay, NEW j \in DOMAIN replay, i < j
        PROVE  replay[i].id < replay[j].id
    <3>1. replay[i].id = lastID - len + (old + i) /\ replay[j].id = lastID - len + (old + j)
      BY <1>6, <1>7
    <3>2. i \in Nat /\ j \in Nat
      BY <1>4, <1>6
    <3> QED BY <1>4, <2>1, <3>1, <3>2
  <2> QED BY <2>1 DEF Ascending
<1>13. GoodStream(s)
  <2>1. Len(s.queue) <= s.cap
    BY <1>4, <1>5, <1>6, <1>10
  <2> QED BY <1>10, <1>11, <1>12, <2>1 DEF GoodStream, Open
<1>14. Counters'
  BY <1>1, <1>5, <1>9, <1>10 DEF FeedInv, Counters
<1>15. HistoryInv'
  BY <1>1 DEF FeedInv, HistoryInv
<1>16. ASSUME NEW p \in Publisher PROVE GoodPub(p)' /\ pub[p].to # conn + 1
  <2>1. GoodPub(p)
    BY DEF FeedInv
  <2>2. pub[p].to \in 0 .. MaxConns /\ pub[p].to <= conn
    BY <2>1 DEF GoodPub, PubType
  <2> QED BY <1>1, <1>5, <2>1, <2>2 DEF GoodPub
<1>17. OrderInv'
  <2>1. \A i \in DOMAIN replay : replay[i].id <= lastID
    BY <1>4, <1>6, <1>7
  <2> QED BY <1>1, <1>9, <1>11, <1>16, <2>1 DEF OrderInv
<1>18. MissInv'
  <2>1. ASSUME ~s.truncated, NEW n \in after + 1 .. lastID
        PROVE  \E i \in DOMAIN replay : replay[i].id = n
    <3>1. len > 0 /\ n \in Nat /\ after < n /\ n <= lastID
      BY <1>4, <1>5
    <3>2. old < len
      <4>1. SUFFICES ASSUME old = len PROVE FALSE
        BY <1>4
      <4>2. history[len].id = lastID
        BY <1>4, <3>1
      <4>3. history[len].id <= after
        BY <1>2, <1>4, <3>1, <4>1
      <4> QED BY <1>4, <1>5, <3>1, <4>2, <4>3
    <3>3. replay # <<>>
      <4>1. Len(replay) > 0
        BY <1>4, <1>6, <3>2
      <4> QED BY <4>1, EmptySeq
    <3>4. ~(replay[1].id > after + 1)
      BY <1>10, <2>1, <3>3
    <3>5. replay[1].id = lastID - len + (old + 1)
      BY <1>4, <1>7, <3>2
    <3>6. lastID - len + old <= after
      BY <1>4, <1>5, <3>4, <3>5
    <3>7. n - (lastID - len + old) \in 1 .. len - old
      BY <1>4, <1>5, <3>1, <3>2, <3>6
    <3>8. PICK i : i = n - (lastID - len + old)
      OBVIOUS
    <3>9. replay[i].id = lastID - len + (old + i)
      BY <1>7, <3>7, <3>8
    <3>10. replay[i].id = n
      BY <1>4, <3>1, <3>8, <3>9
    <3> QED BY <1>6, <3>7, <3>8, <3>10
  <2> QED BY <1>1, <1>9, <1>10, <1>11, <2>1 DEF MissInv, Arrives
<1>19. client' \in ClientType /\ pub' = [p \in Publisher |-> pub'[p]]
  BY <1>1 DEF FeedInv
<1> QED BY <1>9, <1>13, <1>14, <1>15, <1>16, <1>17, <1>18, <1>19 DEF FeedInv

\* What the client is told by a frame.
LEMMA ClientIsTold ==
    ASSUME client \in ClientType, GoodStream(stream), NEW ev \in Event,
           client' = [lastEventID |-> ev.id, got |-> client.got \cup {ev.n},
                      ended |-> IF ev.last THEN ev.n ELSE 0,
                      marked |-> ev.last /\ (stream.lagged \/ stream.truncated)]
    PROVE  client' \in ClientType
<1>1. ev.id \in Nat /\ ev.n \in Nat \ {0} /\ ev.last \in BOOLEAN
  BY DEF Event
<1>2. client.got \cup {ev.n} \in SUBSET (Nat \ {0}) /\ (IF ev.last THEN ev.n ELSE 0) \in Nat
  BY <1>1 DEF ClientType
<1>3. (ev.last /\ (stream.lagged \/ stream.truncated)) \in BOOLEAN
  OBVIOUS
<1> QED BY <1>1, <1>2, <1>3 DEF ClientType

\* Both ways of sending a frame.
LEMMA SendKeeps ==
    ASSUME FeedInv, NEW ev, NEW rest,
           \/ /\ stream.pc = "replay" /\ stream.pending # <<>> /\ ev = Head(stream.pending)
              /\ rest = [stream EXCEPT !.pending = Tail(@)]
           \/ /\ stream.pc = "live" /\ stream.queue # <<>> /\ ev = Head(stream.queue)
              /\ rest = [stream EXCEPT !.queue = Tail(@)],
           Send(ev, rest),
           UNCHANGED <<over, published, lastID, history, pub, conn, restarts>>
    PROVE  FeedInv'
<1>1. GoodStream(stream) /\ client \in ClientType /\ stream \in StreamType
  BY DEF FeedInv, GoodStream
<1>2. CASE ev.last
  <2>1. stream' = [Off EXCEPT !.after = stream.after, !.sent = Append(stream.sent, ev)]
    BY <1>2 DEF Send
  <2>2. GoodStream(stream') /\ ~Open(stream') /\ ev \in Event
    BY <1>1, <2>1, LastFrame
  <2>3. client' \in ClientType
    BY <1>1, <2>2, ClientIsTold DEF Send
  <2>4. stream'.pc = "off"
    BY <2>1 DEF Off
  <2> QED BY <2>2, <2>3, <2>4, StreamIsClosed
<1>3. CASE ~ev.last
  <2>1. stream' = [rest EXCEPT !.sent = Append(@, ev)]
    BY <1>3 DEF Send
  <2>2. PICK t : t = stream'
    OBVIOUS
  <2>3. \/ /\ stream.pc = "replay" /\ stream.pending # <<>> /\ ev = Head(stream.pending)
           /\ t = [stream EXCEPT !.pending = Tail(@), !.sent = Append(@, ev)]
        \/ /\ stream.pc = "live" /\ stream.queue # <<>> /\ ev = Head(stream.queue)
           /\ t = [stream EXCEPT !.queue = Tail(@), !.sent = Append(@, ev)]
    BY <1>1, <2>1, <2>2 DEF StreamType
  <2>4. GoodStream(t) /\ Flow(t) = Flow(stream) /\ ev \in Event
    BY <1>1, <2>3, SendKeepsFlow
  <2>5. t.pc = stream.pc /\ t.after = stream.after /\ t.lagged = stream.lagged
        /\ t.truncated = stream.truncated
    BY <1>1, <2>3 DEF StreamType
  <2>6. Open(stream) /\ Open(t)
    BY <2>5 DEF Open
  <2>7. client' \in ClientType
    BY <1>1, <2>4, ClientIsTold DEF Send
  <2> QED BY <2>2, <2>4, <2>5, <2>6, <2>7, FlowMoves
<1> QED BY <1>2, <1>3

LEMMA HandlerKeeps ==
    ASSUME FeedInv, Drain \/ ReplayDone \/ SendReplay \/ SendLive \/ Gate \/ Disconnect
    PROVE  FeedInv'
<1>1. GoodStream(stream) /\ client \in ClientType /\ stream \in StreamType
      /\ over \in BOOLEAN
  BY DEF FeedInv, GoodStream, Counters
<1>2. CASE Drain
  <2>1. stream.pc = "drain" /\ UNCHANGED client /\ Open(stream)
        /\ UNCHANGED <<over, published, lastID, history, pub, conn, restarts>>
    BY <1>2 DEF Drain, Open
  <2>2. PICK t : t = stream'
    OBVIOUS
  <2>3. CASE stream.queue = <<>>
    <3>1. t = [stream EXCEPT !.pc = "replay"]
      BY <1>2, <2>2, <2>3 DEF Drain
    <3>2. GoodStream(t) /\ Flow(t) = Flow(stream)
      BY <1>1, <2>1, <3>1, PcKeepsFlow
    <3>3. Open(t) /\ t.after = stream.after /\ t.lagged = stream.lagged
          /\ t.truncated = stream.truncated
      BY <1>1, <3>1 DEF StreamType, Open
    <3> QED BY <1>1, <2>1, <2>2, <3>2, <3>3, FlowMoves
  <2>4. CASE stream.queue # <<>>
    <3>1. t = [stream EXCEPT !.queue = Tail(@), !.pending = Append(@, Head(stream.queue))]
      BY <1>2, <2>2, <2>4 DEF Drain
    <3>2. GoodStream(t) /\ Flow(t) = Flow(stream)
      BY <1>1, <2>1, <2>4, <3>1, DrainKeepsFlow
    <3>3. t.pc = stream.pc /\ t.after = stream.after /\ t.lagged = stream.lagged
          /\ t.truncated = stream.truncated
      BY <1>1, <3>1 DEF StreamType
    <3>4. Open(t)
      BY <2>1, <3>3 DEF Open
    <3> QED BY <1>1, <2>1, <2>2, <3>2, <3>3, <3>4, FlowMoves
  <2> QED BY <2>3, <2>4
<1>3. CASE ReplayDone
  <2>1. stream.pc = "replay" /\ stream.pending = <<>> /\ Open(stream)
        /\ UNCHANGED <<over, published, lastID, history, pub, conn, restarts>>
    BY <1>3 DEF ReplayDone, Open
  <2>2. CASE stream.record
    <3>1. stream' = Off /\ client' = [client EXCEPT !.lastEventID = @ + 1, !.ended = MaxEvents,
                                                    !.marked = TRUE]
      BY <1>3, <2>2 DEF ReplayDone
    <3>2. client' \in ClientType
      <4>1. client.lastEventID + 1 \in Nat /\ MaxEvents \in Nat
        BY <1>1, FeedBounds DEF ClientType
      <4> QED BY <1>1, <3>1, <4>1 DEF ClientType
    <3>3. GoodStream(stream') /\ ~Open(stream') /\ stream'.pc = "off"
      BY <3>1, OffIsGood DEF Off
    <3> QED BY <2>1, <3>2, <3>3, StreamIsClosed
  <2>3. CASE ~stream.record
    <3>1. PICK t : t = stream'
      OBVIOUS
    <3>2. t = [stream EXCEPT !.pc = "live"] /\ UNCHANGED client
      BY <1>3, <2>3, <3>1 DEF ReplayDone
    <3>3. GoodStream(t) /\ Flow(t) = Flow(stream)
      BY <1>1, <2>1, <3>2, PcKeepsFlow
    <3>4. Open(t) /\ t.after = stream.after /\ t.lagged = stream.lagged
          /\ t.truncated = stream.truncated
      BY <1>1, <3>2 DEF StreamType, Open
    <3> QED BY <1>1, <2>1, <3>1, <3>2, <3>3, <3>4, FlowMoves
  <2> QED BY <2>2, <2>3
<1>4. CASE SendReplay
  <2>1. PICK ev, rest : ev = Head(stream.pending)
                        /\ rest = [stream EXCEPT !.pending = Tail(@)]
    OBVIOUS
  <2> QED BY <1>4, <2>1, SendKeeps DEF SendReplay
<1>5. CASE SendLive
  <2>1. PICK ev, rest : ev = Head(stream.queue) /\ rest = [stream EXCEPT !.queue = Tail(@)]
    OBVIOUS
  <2> QED BY <1>5, <2>1, SendKeeps DEF SendLive
<1>6. CASE Gate
  <2>1. stream' = [Off EXCEPT !.pc = "gated", !.record = over] /\ conn < MaxConns
        /\ UNCHANGED <<over, published, lastID, history, pub, conn, client, restarts>>
    BY <1>6 DEF Gate
  <2>2. GoodStream(stream')
    BY <1>1, <2>1, OffIsGood
  <2>3. ~Open(stream')
    BY <2>1 DEF Off, Open
  <2> QED BY <1>1, <2>1, <2>2, <2>3, StreamIsClosed
<1>7. CASE Disconnect
  <2>1. stream' = Off
        /\ UNCHANGED <<over, published, lastID, history, pub, conn, client, restarts>>
    BY <1>7 DEF Disconnect
  <2>2. GoodStream(stream') /\ ~Open(stream') /\ stream'.pc = "off"
    BY <2>1, OffIsGood DEF Off
  <2> QED BY <1>1, <2>1, <2>2, StreamIsClosed
<1> QED BY <1>2, <1>3, <1>4, <1>5, <1>6, <1>7

LEMMA RestartKeeps ==
    ASSUME FeedInv, Restart
    PROVE  FeedInv'
<1>1. /\ restarts < MaxRestarts /\ restarts' = restarts + 1
      /\ lastID' = 0 /\ history' = <<>> /\ stream' = Off
      /\ UNCHANGED <<over, published, conn, client>>
  BY DEF Restart
<1>2. GoodStream(Off) /\ ~Open(Off) /\ Off.pc = "off"
  BY OffIsGood DEF Off
<1>3. Counters'
  BY <1>1, <1>2, FeedBounds DEF FeedInv, Counters, Subscribed, Open
<1>4. HistoryInv'
  <2>1. <<>> \in Seq(Event) /\ Len(<<>>) = 0 /\ DOMAIN <<>> = 1 .. 0
    BY EmptySeq, LenProperties
  <2> QED BY <1>1, <2>1, FeedBounds DEF HistoryInv
<1>5. ASSUME NEW p \in Publisher
      PROVE  pub'[p] \in PubType /\ pub'[p].pc # "deliver" /\ pub'[p].to = 0
  BY FeedBounds DEF Restart, IdlePub, PubType
<1>6. conn \in Nat
  BY FeedBounds DEF FeedInv, Counters
<1>7. \A p \in Publisher : GoodPub(p)'
  BY <1>1, <1>5, <1>6 DEF GoodPub
<1>8. pub' = [p \in Publisher |-> pub'[p]]
  BY DEF Restart
<1>9. OrderInv' /\ MissInv'
  BY <1>1, <1>2 DEF OrderInv, MissInv, Open, Subscribed
<1> QED BY <1>1, <1>2, <1>3, <1>4, <1>7, <1>8, <1>9 DEF FeedInv

LEMMA InitFeed ==
    ASSUME Init
    PROVE  FeedInv
<1>1. GoodStream(Off) /\ ~Open(Off) /\ Off.pc = "off"
  BY OffIsGood DEF Off
<1>2. Counters
  <2>1. stream.pc # "gated" /\ ~Subscribed
    BY <1>1 DEF Init, Open, Subscribed
  <2>2. 0 \in 0 .. MaxConns /\ 0 \in 0 .. MaxRestarts /\ 0 \in 0 .. 0
    BY FeedBounds
  <2>3. over \in BOOLEAN /\ published = 0 /\ lastID = 0 /\ conn = 0 /\ restarts = 0
    BY DEF Init
  <2> QED BY <2>1, <2>2, <2>3 DEF Counters
<1>3. HistoryInv
  <2>1. <<>> \in Seq(Event) /\ Len(<<>>) = 0 /\ DOMAIN <<>> = 1 .. 0
    BY EmptySeq, LenProperties
  <2> QED BY <2>1, FeedBounds DEF Init, HistoryInv
<1>4. ASSUME NEW p \in Publisher PROVE GoodPub(p)
  <2>1. pub[p] \in PubType /\ pub[p].pc = "idle" /\ pub[p].to = 0
    BY FeedBounds DEF Init, IdlePub, PubType
  <2> QED BY <2>1 DEF Init, GoodPub
<1>5. client \in ClientType /\ pub = [p \in Publisher |-> pub[p]]
  BY DEF Init, ClientType
<1>6. OrderInv /\ MissInv
  BY <1>1 DEF Init, OrderInv, MissInv, Open, Subscribed
<1> QED BY <1>1, <1>2, <1>3, <1>4, <1>5, <1>6 DEF Init, FeedInv

LEMMA NextFeed ==
    ASSUME FeedInv, [Next]_vars
    PROVE  FeedInv'
<1>1. CASE UNCHANGED vars
  BY <1>1 DEF vars, FeedInv, Counters, HistoryInv, GoodPub, OrderInv, Behind, MissInv,
              Arrives, Subscribed
<1>2. ASSUME NEW p \in Publisher, PublisherStep(p) PROVE FeedInv'
  <2>1. CASE Publish(p)
    BY <2>1, AssignKeeps DEF Publish
  <2>2. CASE Finish(p)
    BY <2>2, PcKeeps DEF Finish
  <2>3. CASE Reannounce(p)
    BY <2>3, PcKeeps DEF Reannounce, FeedInv, Counters
  <2>4. CASE Announce(p)
    BY <2>4, AssignKeeps DEF Announce
  <2>5. CASE TerminalLost(p)
    BY <2>5, PcKeeps DEF TerminalLost, FeedInv, Counters
  <2>6. CASE Deliver(p)
    BY <2>6, DeliverKeeps
  <2> QED BY <1>2, <2>1, <2>2, <2>3, <2>4, <2>5, <2>6 DEF PublisherStep
<1> QED BY <1>1, <1>2, SubscribeKeeps, HandlerKeeps, RestartKeeps DEF Next, HandlerStep

THEOREM FeedInvariant == Spec => []FeedInv
BY InitFeed, NextFeed, PTL DEF Spec

-----------------------------------------------------------------------------
(* What follows. *)

LEMMA FlowIsAll ==
    ASSUME GoodStream(stream)
    PROVE  stream.sent \o InHand = Flow(stream)
BY DEF Flow, Line, InHand

\* A connection sees the events of one goroutine once and in the order of their
\* ids, the replay before what was published while it was being sent, for any
\* number of goroutines publishing at once; the types hold with it.
THEOREM EventsArriveInOrder == Spec => []FramesInOrder
<1>1. FeedInv => FramesInOrder
  <2> SUFFICES ASSUME FeedInv PROVE FramesInOrder
    OBVIOUS
  <2>1. Ascending(stream.sent \o InHand)
    BY FlowIsAll DEF FeedInv, GoodStream
  <2>2. pub \in [Publisher -> PubType]
    BY DEF FeedInv, GoodPub
  <2>3. TypeOK
    BY <2>2 DEF TypeOK, FeedInv, Counters, HistoryInv, GoodStream, PubType, StreamType,
                ClientType
  <2> QED BY <2>1, <2>3 DEF FramesInOrder, Ascending
<1> QED BY <1>1, FeedInvariant, PTL

\* A subscription that was not told it lost something has every event from the
\* point it resumed at: sent, in hand, or in a publisher's hands, whatever falls
\* between the two steps of Publish.
THEOREM NothingIsMissed == Spec => []NothingMissedSilently
<1>1. FeedInv => NothingMissedSilently
  <2> SUFFICES ASSUME FeedInv, Subscribed, ~stream.lagged, ~stream.truncated,
                      NEW n \in stream.after + 1 .. lastID
               PROVE  n \in Ids(stream.sent) \cup Ids(InHand) \cup OnTheWay
    BY DEF NothingMissedSilently
  <2>1. Arrives(n)
    BY DEF FeedInv, MissInv
  <2>2. CASE \E p \in Publisher : pub[p].pc = "deliver" /\ pub[p].to = conn /\ pub[p].ev.id = n
    BY <2>2 DEF OnTheWay
  <2>3. ASSUME NEW i \in DOMAIN Flow(stream), Flow(stream)[i].id = n
        PROVE  n \in Ids(stream.sent) \cup Ids(InHand)
    <3>1. stream.sent \in Seq(Event) /\ stream.pending \in Seq(Event)
          /\ stream.queue \in Seq(Event)
      BY DEF FeedInv, GoodStream, StreamType
    <3>2. PICK a, b : a = stream.sent /\ b = InHand
      OBVIOUS
    <3>3. a \in Seq(Event) /\ b \in Seq(Event) /\ Flow(stream) = a \o b
      BY <3>1, <3>2, ConcatProperties, FlowIsAll DEF InHand, FeedInv
    <3>4. Len(a) \in Nat /\ Len(b) \in Nat /\ DOMAIN a = 1 .. Len(a) /\ DOMAIN b = 1 .. Len(b)
      BY <3>3, LenProperties
    <3>5. i \in 1 .. Len(a) + Len(b)
          /\ (a \o b)[i] = IF i <= Len(a) THEN a[i] ELSE b[i - Len(a)]
      <4>1. a \o b \in Seq(Event) /\ Len(a \o b) = Len(a) + Len(b)
            /\ \A j \in 1 .. Len(a) + Len(b) :
                  (a \o b)[j] = IF j <= Len(a) THEN a[j] ELSE b[j - Len(a)]
        BY <3>3, ConcatProperties
      <4>2. DOMAIN (a \o b) = 1 .. Len(a) + Len(b)
        BY <4>1, LenProperties
      <4> QED BY <2>3, <3>3, <4>1, <4>2
    <3>6. CASE i <= Len(a)
      BY <2>3, <3>2, <3>3, <3>4, <3>5, <3>6 DEF Ids
    <3>7. CASE ~(i <= Len(a))
      <4>1. i - Len(a) \in DOMAIN b /\ b[i - Len(a)].id = n
        BY <2>3, <3>3, <3>4, <3>5, <3>7
      <4> QED BY <3>2, <4>1 DEF Ids
    <3> QED BY <3>6, <3>7
  <2> QED BY <2>1, <2>2, <2>3 DEF Arrives
<1> QED BY <1>1, FeedInvariant, PTL

\* The events after any id are the end of the history, so that Subscribe's replay
\* exists whatever Last-Event-ID the client sends, one from before a restart
\* included.
ReplayExists ==
    \A after \in Nat : \E old \in 0 .. Len(history) :
        \A i \in DOMAIN history : history[i].id <= after <=> i <= old

\* The broker can always answer Subscribe: no Last-Event-ID blocks it.
THEOREM ReplayIsTheTail == Spec => []ReplayExists
<1>1. ASSUME FeedInv, NEW after \in Nat
      PROVE  \E old \in 0 .. Len(history) :
                 \A i \in DOMAIN history : history[i].id <= after <=> i <= old
  <2>1. PICK len : len = Len(history)
    OBVIOUS
  <2>2. len \in Nat /\ DOMAIN history = 1 .. len /\ lastID \in Nat
        /\ \A k \in 1 .. len : history[k].id = lastID - len + k
    BY <1>1, <2>1, LenProperties DEF FeedInv, HistoryInv, Counters
  <2>3. PICK seen : seen = after - (lastID - len)
    OBVIOUS
  <2>4. seen \in Int /\ \A i \in 1 .. len : history[i].id <= after <=> i <= seen
    BY <2>2, <2>3
  <2>5. CASE seen < 0
    <3>1. 0 \in 0 .. len /\ \A i \in 1 .. len : i <= seen <=> i <= 0
      BY <2>2, <2>4, <2>5
    <3> QED BY <2>1, <2>2, <2>4, <3>1
  <2>6. CASE seen > len
    <3>1. len \in 0 .. len /\ \A i \in 1 .. len : i <= seen <=> i <= len
      BY <2>2, <2>4, <2>6
    <3> QED BY <2>1, <2>2, <2>4, <3>1
  <2>7. CASE ~(seen < 0) /\ ~(seen > len)
    <3>1. seen \in 0 .. len
      BY <2>2, <2>4, <2>7
    <3> QED BY <2>1, <2>2, <2>4, <3>1
  <2> QED BY <2>5, <2>6, <2>7
<1>2. FeedInv => ReplayExists
  BY <1>1 DEF ReplayExists
<1> QED BY <1>2, FeedInvariant, PTL

=============================================================================
