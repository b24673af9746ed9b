------------------------- MODULE SourceUpdateStream -------------------------
(***************************************************************************)
(* The stream of source updates: the event bus of                          *)
(* core/source_update_events.py, the websocket handler of core/api.py and  *)
(* the client of ui-react/src/pages/Dashboard.tsx, which reconnects with   *)
(* the last sequence number and polls the list of sources besides.         *)
(*                                                                         *)
(* Every publisher runs on the backend's event loop, so the callbacks that *)
(* offer an event to the queues keep the order of the events; publishing   *)
(* and offering are one step.  Subscribers do not interact: there is one.  *)
(*                                                                         *)
(* Abstractions: an event is its number; what the client knows is the set  *)
(* of events it saw or that a polled list included, by their place in the  *)
(* order of all events ever published.                                     *)
(***************************************************************************)
EXTENDS Integers, Sequences, FiniteSets

CONSTANTS
    HistoryLimit,   \* history_limit
    QueueLimit,     \* queue_maxsize
    WireLimit,      \* bound: messages sent and not received
    MaxEvents,      \* bound: events published
    MaxDrops,       \* bound: connections lost
    MaxRestarts     \* bound: restarts of the backend

ASSUME LimitAssumption == HistoryLimit \in Nat \ {0} /\ QueueLimit \in Nat \ {0}
ASSUME BoundAssumption ==
    /\ WireLimit \in Nat \ {0}
    /\ MaxEvents \in Nat /\ MaxDrops \in Nat /\ MaxRestarts \in Nat

VARIABLES
    published,  \* events published, ever
    born,       \* how many of them before this life of the backend
    history,    \* _history: the numbers of the retained events
    linked,     \* the websocket is open, its queue subscribed
    queue,      \* the subscriber's queue
    backlog,    \* what the handler sends before it serves the queue
    wire,       \* messages sent and not received
    seq,        \* sourceUpdatesSeqRef
    polling,    \* a poll of the list is outstanding
    known,      \* events the client knows of
    drops,      \* bound: connections lost so far
    restarts,   \* bound: restarts so far
    got,        \* history: number this connection's stream has got to
    overflowed  \* history: the queue of this connection overflowed

bus == <<published, born, history>>
client == <<seq, polling, known>>
vars == <<bus, linked, queue, backlog, wire, client, drops, restarts, got,
          overflowed>>

Latest == published - born
Ready(sync) == [event |-> "ready", latest |-> Latest, sync |-> sync]
SyncRequired == [event |-> "sync_required", latest |-> Latest]
Updated(n) == [event |-> "updated", seq |-> n]
IsUpdate(message) == message.event = "updated"

\* The dashboard opens: nothing is known, the first poll is on its way.
Init ==
    /\ published = 0
    /\ born = 0
    /\ history = <<>>
    /\ linked = FALSE
    /\ queue = <<>>
    /\ backlog = <<>>
    /\ wire = <<>>
    /\ seq = 0
    /\ polling = TRUE
    /\ known = {}
    /\ drops = 0
    /\ restarts = 0
    /\ got = 0
    /\ overflowed = FALSE

-----------------------------------------------------------------------------
\* Mutant of Remembered: the history is not bounded.
Remembered_All(events, n) == Append(events, n)

\* The history after one more event
Remembered(events, n) ==
    IF Len(events) < HistoryLimit
    THEN Append(events, n)
    ELSE Append(Tail(events), n)

\* _offer_to_queue: a full queue loses its oldest event.
Offered(events, n) ==
    IF Len(events) < QueueLimit
    THEN Append(events, n)
    ELSE Append(Tail(events), n)

\* publish_source_updated
Publish ==
    /\ published < MaxEvents
    /\ published' = published + 1
    /\ history' = Remembered(history, Latest + 1)
    /\ IF linked
       THEN /\ queue' = Offered(queue, Latest + 1)
            /\ overflowed' = (overflowed \/ Len(queue) = QueueLimit)
       ELSE UNCHANGED <<queue, overflowed>>
    /\ UNCHANGED <<born, linked, backlog, wire, client, drops, restarts, got>>

\* Mutant of IsTooOld: one number too late.
IsTooOld_OffByOne(since) == history # <<>> /\ since < Head(history) - 2

\* replay_since: the client is behind the retained events.
IsTooOld(since) == history # <<>> /\ since < Head(history) - 1

\* replay_since: the retained events the client has not.  Numbers ascend, so
\* the filter leaves out as many events at the front as are not newer.
Missed(since) ==
    LET had == Cardinality({i \in DOMAIN history : history[i] <= since})
    IN  SubSeq(history, had + 1, Len(history))

\* A client that has no number sends none, and nothing is replayed.
ToSend(since) ==
    IF since = 0 THEN <<Ready(FALSE)>>
    ELSE IF IsTooOld(since) THEN <<Ready(TRUE), SyncRequired>>
    ELSE <<Ready(FALSE)>> \o [i \in 1..Len(Missed(since)) |-> Updated(Missed(since)[i])]

\* The socket is accepted; subscribing and replay_since are one step of the
\* event loop.
Connect ==
    /\ ~linked
    /\ linked' = TRUE
    /\ queue' = <<>>
    /\ backlog' = ToSend(seq)
    /\ got' = IF seq \in 1..Latest /\ ~IsTooOld(seq) THEN seq ELSE Latest
    /\ overflowed' = FALSE
    /\ UNCHANGED <<bus, wire, client, drops, restarts>>

\* The handler sends ready, the replay, then what the queue has; a slow
\* client holds it up.
Send ==
    /\ linked
    /\ Len(wire) < WireLimit
    /\ IF backlog # <<>>
       THEN /\ wire' = Append(wire, Head(backlog))
            /\ backlog' = Tail(backlog)
            /\ UNCHANGED queue
       ELSE /\ queue # <<>>
            /\ wire' = Append(wire, Updated(Head(queue)))
            /\ queue' = Tail(queue)
            /\ UNCHANGED backlog
    /\ UNCHANGED <<bus, linked, client, drops, restarts, got, overflowed>>

Larger(m, n) == IF m > n THEN m ELSE n

\* onmessage; pollNow is called for ready with sync_required and again for
\* sync_required, where one poll is already on its way.
Receive ==
    /\ wire # <<>>
    /\ wire' = Tail(wire)
    /\ LET message == Head(wire)
       IN  IF IsUpdate(message)
           THEN /\ seq' = Larger(seq, message.seq)
                /\ known' = known \cup {born + message.seq}
                /\ got' = message.seq
                /\ UNCHANGED polling
           ELSE /\ seq' = Larger(seq, message.latest)
                /\ polling' = (polling \/ message.event = "sync_required" \/ message.sync)
                /\ UNCHANGED <<known, got>>
    /\ UNCHANGED <<bus, linked, queue, backlog, drops, restarts, overflowed>>

\* The connection is lost, with everything the client has not received.
Closed ==
    /\ linked' = FALSE
    /\ queue' = <<>>
    /\ backlog' = <<>>
    /\ wire' = <<>>

Disconnect ==
    /\ linked
    /\ drops < MaxDrops
    /\ drops' = drops + 1
    /\ Closed
    /\ UNCHANGED <<bus, client, restarts, got, overflowed>>

\* The backend starts again: a new bus, numbers begin at 1.
Restart ==
    /\ restarts < MaxRestarts
    /\ restarts' = restarts + 1
    /\ born' = published
    /\ history' = <<>>
    /\ Closed
    /\ UNCHANGED <<published, client, drops, got, overflowed>>

\* Mutant of PollTimer: polling is for the time without a connection.
PollTimer_WhenDown ==
    /\ ~polling
    /\ ~linked
    /\ polling' = TRUE
    /\ UNCHANGED <<bus, linked, queue, backlog, wire, seq, known, drops, restarts,
                   got, overflowed>>

\* The poll interval has passed.
PollTimer ==
    /\ ~polling
    /\ polling' = TRUE
    /\ UNCHANGED <<bus, linked, queue, backlog, wire, seq, known, drops, restarts,
                   got, overflowed>>

\* The list of sources arrives: it has the outcome of every event.
PollArrives ==
    /\ polling
    /\ polling' = FALSE
    /\ known' = 1..published
    /\ UNCHANGED <<bus, linked, queue, backlog, wire, seq, drops, restarts, got,
                   overflowed>>

Next ==
    \/ Publish \/ Connect \/ Send \/ Receive \/ Disconnect \/ Restart
    \/ PollTimer \/ PollArrives

Spec == Init /\ [][Next]_vars

\* The poll timer fires again and again and a poll is answered.  Nothing is
\* assumed of the websocket.
Polls == PollTimer \/ PollArrives

Fairness == WF_vars(Polls)

FairSpec == Spec /\ Fairness

-----------------------------------------------------------------------------
\* Every variable stays in its range; history and queue keep their limits.
TypeOK ==
    /\ published \in 0..MaxEvents
    /\ born \in 0..published
    /\ history \in Seq(1..MaxEvents) /\ Len(history) <= HistoryLimit
    /\ linked \in BOOLEAN
    /\ queue \in Seq(1..MaxEvents) /\ Len(queue) <= QueueLimit
    /\ \A i \in DOMAIN wire : wire[i].event \in {"ready", "sync_required", "updated"}
    /\ Len(wire) <= WireLimit
    /\ seq \in 0..MaxEvents
    /\ polling \in BOOLEAN
    /\ known \subseteq 1..published
    /\ overflowed \in BOOLEAN

\* What is still to reach the client on this connection, in order, and where
\* in it the updates are
ToCome == wire \o backlog \o [i \in DOMAIN queue |-> Updated(queue[i])]
Updates == {i \in DOMAIN ToCome : IsUpdate(ToCome[i])}

\* One connection hands every event over exactly once and in order: replay and
\* queue meet without a gap or a duplicate.  A queue that overflowed loses
\* events, and even then the client sees those of a connection in order.
HandedOverOnce ==
    linked =>
        /\ ~overflowed => {ToCome[i].seq : i \in Updates} = (got + 1)..Latest
        /\ \A i, j \in Updates : i < j => ToCome[i].seq < ToCome[j].seq
        /\ \A i \in Updates : ToCome[i].seq > got

\* After a reconnect the gap is replayed or the client polls: once the
\* connection is up again and idle, nothing is missing silently.
NoSilentGap ==
    drops > 0 /\ linked /\ wire = <<>> /\ backlog = <<>> /\ queue = <<>> /\ ~polling
        => known = 1..published

\* Whatever the websocket loses, the client ends up knowing of every event.
EventuallyKnown == <>[](known = 1..published)

=============================================================================
