----------------------------- MODULE EventFeed -----------------------------
(***************************************************************************)
(* The live feed of one execution: the goroutines that publish its events, *)
(* the Broker's stream (ids, bounded history, fan-out outside the lock),   *)
(* the StreamEvents handler that serves one client over SSE, and the       *)
(* client that reconnects with the Last-Event-ID it saw.                   *)
(*                                                                         *)
(* Publish assigns the id and takes the list of subscribers under the      *)
(* broker's lock, and delivers after it: two steps. Subscribe runs under   *)
(* the lock: one step. Subscribers have queues of their own and do not     *)
(* affect each other, so one client is modelled. Nothing in the program    *)
(* calls Forget.                                                           *)
(***************************************************************************)
EXTENDS Integers, Sequences

CONSTANTS
    Publisher,        \* goroutines publishing: worker, Cancel, sweep, relay
    SubscriberQueue,  \* BrokerOptions.SubscriberQueue
    Buffer,           \* BrokerOptions.BufferPerExecution
    LoseTerminal,     \* whether the terminal event can be lost before a broker has it
    MaxEvents,        \* bound: events published, the terminal one included
    MaxConns,         \* bound: connections of the client
    MaxRestarts       \* bound: restarts of the process

ASSUME FeedBounds ==
    /\ SubscriberQueue \in Nat \ {0} /\ Buffer \in Nat \ {0}
    /\ LoseTerminal \in BOOLEAN /\ MaxEvents \in Nat \ {0} /\ MaxConns \in Nat /\ MaxRestarts \in Nat

VARIABLES
    over,       \* the durable record is terminal
    published,  \* history: events published so far, in all lives of the broker
    lastID,     \* stream.lastID
    history,    \* stream.history
    pub,        \* where each publisher is
    conn,       \* connections opened so far
    stream,     \* the handler serving the current connection
    client,     \* what the client has received
    restarts

vars == <<over, published, lastID, history, pub, conn, stream, client, restarts>>

\* n identifies the occurrence, id is what the broker numbers it; by is the
\* goroutine that published it.
Event == [n : Nat \ {0}, id : Nat \ {0}, last : BOOLEAN, by : Publisher]
NoEvent == [n |-> 0, id |-> 0, last |-> FALSE]

IdlePub == [pc |-> "idle", ev |-> NoEvent, to |-> 0]
Off == [pc |-> "off", record |-> FALSE, after |-> 0, cap |-> 0, queue |-> <<>>,
        pending |-> <<>>, sent |-> <<>>, lagged |-> FALSE, truncated |-> FALSE]
\* A handler whose subscription is in the broker's map.
Subscribed == stream.pc \in {"drain", "replay", "live"}

TypeOK ==
    /\ over \in BOOLEAN
    /\ published \in Nat /\ lastID \in 0 .. published
    /\ history \in Seq(Event) /\ Len(history) <= Buffer
    /\ pub \in [Publisher -> [pc : {"idle", "announce", "deliver", "done"},
                              ev : Event \cup {NoEvent}, to : 0 .. MaxConns]]
    /\ conn \in 0 .. MaxConns
    /\ stream \in [pc : {"off", "gated", "drain", "replay", "live"}, record : BOOLEAN,
                   after : Nat, cap : Nat, queue : Seq(Event), pending : Seq(Event),
                   sent : Seq(Event), lagged : BOOLEAN, truncated : BOOLEAN]
    /\ Len(stream.queue) <= stream.cap
    /\ client \in [lastEventID : Nat, got : SUBSET (Nat \ {0}), ended : Nat,
                   marked : BOOLEAN]
    /\ restarts \in 0 .. MaxRestarts

Init ==
    /\ over = FALSE
    /\ published = 0 /\ lastID = 0 /\ history = <<>>
    /\ pub = [p \in Publisher |-> IdlePub]
    /\ conn = 0 /\ stream = Off
    /\ client = [lastEventID |-> 0, got |-> {}, ended |-> 0, marked |-> FALSE]
    /\ restarts = 0

-----------------------------------------------------------------------------
(* Publish. *)

\* Under the lock: the next id, the bounded history, the subscribers.
Assign(p, last) ==
    LET ev == [n |-> published + 1, id |-> lastID + 1, last |-> last, by |-> p]
        all == Append(history, ev)
    IN  /\ published' = published + 1
        /\ lastID' = lastID + 1
        /\ history' = IF Len(all) > Buffer THEN Tail(all) ELSE all
        /\ pub' = [pub EXCEPT ![p] = [pc |-> "deliver", ev |-> ev,
                                      to |-> IF Subscribed THEN conn ELSE 0]]

Publish(p) ==
    /\ pub[p].pc = "idle" /\ published + 1 < MaxEvents
    /\ Assign(p, FALSE)
    /\ UNCHANGED <<over, conn, stream, client, restarts>>

\* The terminal status is persisted first.
Finish(p) ==
    /\ pub[p].pc = "idle" /\ ~over
    /\ over' = TRUE
    /\ pub' = [pub EXCEPT ![p].pc = "announce"]
    /\ UNCHANGED <<published, lastID, history, conn, stream, client, restarts>>

\* Cancelling a run that is already cancelled announces it again.
Reannounce(p) ==
    /\ pub[p].pc = "idle" /\ over /\ published + 1 < MaxEvents
    /\ pub' = [pub EXCEPT ![p].pc = "announce"]
    /\ UNCHANGED <<over, published, lastID, history, conn, stream, client, restarts>>

Announce(p) ==
    /\ pub[p].pc = "announce"
    /\ Assign(p, TRUE)
    /\ UNCHANGED <<over, conn, stream, client, restarts>>

\* The run is another process's, which dies before it publishes the event, or
\* whose notice is dropped.
TerminalLost(p) ==
    /\ LoseTerminal /\ pub[p].pc = "announce"
    /\ pub' = [pub EXCEPT ![p].pc = "done"]
    /\ UNCHANGED <<over, published, lastID, history, conn, stream, client, restarts>>

Delivered(p) ==
    pub' = [pub EXCEPT ![p] = [IdlePub EXCEPT !.pc = IF pub[p].ev.last THEN "done" ELSE "idle"]]

\* Mutant: a full queue drops the event without a word.
DeliverDropsSilently(p) ==
    /\ pub[p].pc = "deliver"
    /\ IF Subscribed /\ pub[p].to = conn /\ Len(stream.queue) < stream.cap
       THEN stream' = [stream EXCEPT !.queue = Append(@, pub[p].ev)]
       ELSE UNCHANGED stream
    /\ Delivered(p)
    /\ UNCHANGED <<over, published, lastID, history, conn, client, restarts>>

\* A subscription closed meanwhile is skipped, a full queue marks it lagged.
Deliver(p) ==
    /\ pub[p].pc = "deliver"
    /\ IF Subscribed /\ pub[p].to = conn
       THEN stream' = IF Len(stream.queue) < stream.cap
                      THEN [stream EXCEPT !.queue = Append(@, pub[p].ev)]
                      ELSE [stream EXCEPT !.lagged = TRUE]
       ELSE UNCHANGED stream
    /\ Delivered(p)
    /\ UNCHANGED <<over, published, lastID, history, conn, client, restarts>>

-----------------------------------------------------------------------------
(* StreamEvents. *)

\* The gate reads the durable record; a client that saw a terminal frame does
\* not come back.
Gate ==
    /\ stream.pc = "off" /\ conn < MaxConns /\ client.ended = 0
    /\ stream' = [Off EXCEPT !.pc = "gated", !.record = over]
    /\ UNCHANGED <<over, published, lastID, history, pub, conn, client, restarts>>

\* Subscribe: every retained event after the client's last id is queued, in a
\* channel that holds the replay and the live allowance. Ids ascend, so these
\* are the end of the history.
Subscribe ==
    \E old \in 0 .. Len(history) :
        LET after == client.lastEventID
            replay == SubSeq(history, old + 1, Len(history)) IN
        /\ stream.pc = "gated"
        /\ \A i \in DOMAIN history : history[i].id <= after <=> i <= old
        /\ conn' = conn + 1
        /\ stream' = [stream EXCEPT !.pc = "drain", !.after = after, !.queue = replay,
                                    !.cap = Len(replay) + SubscriberQueue,
                                    !.truncated = replay # <<>> /\ replay[1].id > after + 1]
        /\ UNCHANGED <<over, published, lastID, history, pub, client, restarts>>

\* drainQueued moves what the channel holds into a slice until it is empty.
Drain ==
    /\ stream.pc = "drain"
    /\ stream' = IF stream.queue = <<>> THEN [stream EXCEPT !.pc = "replay"]
                 ELSE [stream EXCEPT !.queue = Tail(@),
                                     !.pending = Append(@, Head(stream.queue))]
    /\ UNCHANGED <<over, published, lastID, history, pub, conn, client, restarts>>

\* One frame reaches the client; the handler returns after a terminal one,
\* which carries the marker when this subscription lost something.
Send(ev, rest) ==
    /\ client' = [lastEventID |-> ev.id, got |-> client.got \cup {ev.n},
                  ended |-> IF ev.last THEN ev.n ELSE 0,
                  marked |-> ev.last /\ (stream.lagged \/ stream.truncated)]
    /\ stream' = IF ev.last
                 THEN [Off EXCEPT !.after = stream.after, !.sent = Append(stream.sent, ev)]
                 ELSE [rest EXCEPT !.sent = Append(@, ev)]

\* Mutant: the outcome is supplied only when the replay was empty.
ReplayDoneWhenEmpty ==
    /\ stream.pc = "replay" /\ stream.pending = <<>>
    /\ IF stream.record /\ stream.sent = <<>>
       THEN /\ stream' = Off
            /\ client' = [client EXCEPT !.lastEventID = @ + 1, !.ended = MaxEvents,
                                        !.marked = TRUE]
       ELSE stream' = [stream EXCEPT !.pc = "live"] /\ UNCHANGED client
    /\ UNCHANGED <<over, published, lastID, history, pub, conn, restarts>>

\* The replay held no terminal frame: when the record read at the gate was
\* terminal the frame is rebuilt from it, marked.
ReplayDone ==
    /\ stream.pc = "replay" /\ stream.pending = <<>>
    /\ IF stream.record
       THEN /\ stream' = Off
            /\ client' = [client EXCEPT !.lastEventID = @ + 1, !.ended = MaxEvents,
                                        !.marked = TRUE]
       ELSE stream' = [stream EXCEPT !.pc = "live"] /\ UNCHANGED client
    /\ UNCHANGED <<over, published, lastID, history, pub, conn, restarts>>

SendReplay ==
    /\ stream.pc = "replay" /\ stream.pending # <<>>
    /\ Send(Head(stream.pending), [stream EXCEPT !.pending = Tail(@)])
    /\ UNCHANGED <<over, published, lastID, history, pub, conn, restarts>>

\* Mutant: live frames do not wait for the replay.
SendLiveEarly ==
    /\ stream.pc \in {"replay", "live"} /\ stream.queue # <<>>
    /\ Send(Head(stream.queue), [stream EXCEPT !.queue = Tail(@)])
    /\ UNCHANGED <<over, published, lastID, history, pub, conn, restarts>>

SendLive ==
    /\ stream.pc = "live" /\ stream.queue # <<>>
    /\ Send(Head(stream.queue), [stream EXCEPT !.queue = Tail(@)])
    /\ UNCHANGED <<over, published, lastID, history, pub, conn, restarts>>

\* The client goes away: the handler returns and closes its subscription.
Disconnect ==
    /\ stream.pc # "off"
    /\ stream' = Off
    /\ UNCHANGED <<over, published, lastID, history, pub, conn, client, restarts>>

\* The process restarts: the broker's memory and everything under way is gone.
Restart ==
    /\ restarts < MaxRestarts
    /\ restarts' = restarts + 1
    /\ lastID' = 0 /\ history' = <<>> /\ stream' = Off
    /\ pub' = [p \in Publisher |->
                  [IdlePub EXCEPT !.pc = IF pub[p].pc \in {"announce", "done"} \/ pub[p].ev.last
                                         THEN "done" ELSE "idle"]]
    /\ UNCHANGED <<over, published, conn, client>>

-----------------------------------------------------------------------------
PublisherStep(p) ==
    Publish(p) \/ Finish(p) \/ Reannounce(p) \/ Announce(p) \/ TerminalLost(p) \/ Deliver(p)
HandlerStep == Subscribe \/ Drain \/ ReplayDone \/ SendReplay \/ SendLive

Next ==
    \/ \E p \in Publisher : PublisherStep(p)
    \/ Gate \/ HandlerStep \/ Disconnect \/ Restart

\* Publishing never blocks, and a handler runs until its client goes away.
Fairness ==
    /\ \A p \in Publisher : WF_vars(Announce(p) \/ Deliver(p))
    /\ WF_vars(HandlerStep)

Spec == Init /\ [][Next]_vars /\ Fairness

-----------------------------------------------------------------------------
(* Properties. *)

InHand == stream.pending \o stream.queue
Ids(s) == {s[i].id : i \in DOMAIN s}
OnTheWay == {pub[p].ev.id : p \in {q \in Publisher : pub[q].pc = "deliver" /\ pub[q].to = conn}}

\* Every event after the point a connection resumed from is sent, in hand or
\* on its way, unless the subscription knows that it lost something.
NothingMissedSilently ==
    Subscribed /\ ~stream.lagged /\ ~stream.truncated =>
        stream.after + 1 .. lastID \subseteq Ids(stream.sent) \cup Ids(InHand) \cup OnTheWay

\* A connection sees the events of one goroutine once and in the order of their
\* ids, replay before live, however Subscribe falls between the two steps of
\* Publish, and also when the replay is longer than the queue. (Two goroutines
\* deliver outside the lock and can overtake each other.) Types included.
FramesInOrder ==
    LET all == stream.sent \o InHand
    IN  TypeOK /\ \A i, j \in DOMAIN all :
            i < j /\ all[i].by = all[j].by => all[i].id < all[j].id

\* A stream opened on a finished execution ends, whether or not the broker
\* still has the terminal event: no connection is held for ever.
FinishedStreamEnds == stream.pc = "gated" /\ stream.record ~> stream.pc = "off"

=============================================================================
