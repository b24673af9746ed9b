--------------------------- MODULE Widgets_proofs ---------------------------
(***************************************************************************)
(* Proofs about the stream of source updates, for every limit of history   *)
(* and queue, and any number of events, lost connections and restarts;     *)
(* and about the widgets that are drawn again when it reports: what their  *)
(* charts show, for any number of rows, what widgets show, for any number  *)
(* of them inside one another, and the dialog that adds a widget, for      *)
(* every set of sources and any number of steps of the user.               *)
(***************************************************************************)
EXTENDS SourceUpdateStream, ChartWidgets, WidgetRenderer, AddWidget, Recursion,
        SequenceTheorems, FiniteSetTheorems, TLAPS

-----------------------------------------------------------------------------
(***************************************************************************)
(* The stream.                                                             *)
(***************************************************************************)
Message ==
    [event : {"ready"}, latest : 0..MaxEvents, sync : BOOLEAN]
    \cup [event : {"sync_required"}, latest : 0..MaxEvents]
    \cup [event : {"updated"}, seq : 1..MaxEvents]

\* The types, also of the messages and the bounds
StreamTyped ==
    /\ TypeOK
    /\ wire \in Seq(Message) /\ backlog \in Seq(Message)
    /\ got \in Nat

\* What is retained are the latest numbers of this life of the backend.
HistoryIsRecent ==
    /\ Len(history) <= Latest
    /\ Latest > 0 => history # <<>>
    /\ \A i \in 1..Len(history) : history[i] = (Latest - Len(history)) + i

\* Messages that are first n of the greeting, then updates with ascending
\* numbers between what the client got and the latest, and without a loss every
\* number in between.
Ascending(all, n, from, top, lossy) ==
    /\ \A i \in 1..n : ~IsUpdate(all[i])
    /\ \A i \in (n + 1)..Len(all) : /\ IsUpdate(all[i])
                                    /\ from < all[i].seq
                                    /\ all[i].seq <= top
    /\ \A i, j \in (n + 1)..Len(all) : i < j => all[i].seq < all[j].seq
    /\ ~lossy => /\ Len(all) = n + (top - from)
                 /\ \A i \in (n + 1)..Len(all) : all[i].seq = from + (i - n)

InOrder(all, from, top, lossy) == \E n \in 0..Len(all) : Ascending(all, n, from, top, lossy)

\* A connection delivers in order, and nothing is left of one that is closed.
Delivers ==
    /\ linked => got <= Latest /\ InOrder(ToCome, got, Latest, overflowed)
    /\ ~linked => wire = <<>> /\ backlog = <<>> /\ queue = <<>>

IInv == StreamTyped /\ HistoryIsRecent /\ Delivers

-----------------------------------------------------------------------------
(***************************************************************************)
(* What is to come, message by message.                                    *)
(***************************************************************************)
LEMMA LatestTyped == TypeOK => Latest \in 0..MaxEvents
BY BoundAssumption DEF TypeOK, Latest

\* An update is told from a greeting, and carries its number.
LEMMA UpdatedIs ==
    ASSUME NEW k \in 1..MaxEvents
    PROVE  Updated(k) \in Message /\ IsUpdate(Updated(k)) /\ Updated(k).seq = k
BY DEF Updated, Message, IsUpdate

\* Numbers of messages are numbers of updates that are published.
LEMMA UpdateIs ==
    ASSUME NEW m \in Message
    PROVE  /\ IsUpdate(m) => m.seq \in 1..MaxEvents
           /\ ~IsUpdate(m) => m.latest \in 0..MaxEvents
           /\ ~IsUpdate(m) /\ m.event # "sync_required" => m.sync \in BOOLEAN
BY DEF Message, IsUpdate

\* The greetings of a connection are messages, and no updates.
LEMMA GreetingIs ==
    ASSUME TypeOK, NEW sync \in BOOLEAN
    PROVE  /\ Ready(sync) \in Message /\ ~IsUpdate(Ready(sync))
           /\ SyncRequired \in Message /\ ~IsUpdate(SyncRequired)
BY LatestTyped DEF Ready, SyncRequired, Message, IsUpdate

\* What a wire, a backlog and a queue have for the client
MessagesOf(numbers) == [i \in DOMAIN numbers |-> Updated(numbers[i])]
Coming(sent, greeting, numbers) == (sent \o greeting) \o MessagesOf(numbers)

\* The numbers of a queue stand for as many updates.
LEMMA MessagesAre ==
    ASSUME NEW numbers \in Seq(1..MaxEvents)
    PROVE  /\ MessagesOf(numbers) \in Seq(Message)
           /\ Len(MessagesOf(numbers)) = Len(numbers)
           /\ \A i \in 1..Len(numbers) : MessagesOf(numbers)[i] = Updated(numbers[i])
<1>1. Len(numbers) \in Nat /\ DOMAIN numbers = 1..Len(numbers)
    BY LenProperties
<1>2. \A i \in 1..Len(numbers) : numbers[i] \in 1..MaxEvents
    BY <1>1, ElementOfSeq
<1>3. QED
    BY <1>1, <1>2, UpdatedIs DEF MessagesOf

\* Where the messages of wire, greeting and queue are among those to come.
LEMMA ComingIs ==
    ASSUME NEW sent \in Seq(Message), NEW greeting \in Seq(Message),
           NEW numbers \in Seq(1..MaxEvents)
    PROVE  /\ Coming(sent, greeting, numbers) \in Seq(Message)
           /\ Len(Coming(sent, greeting, numbers)) = Len(sent) + Len(greeting) + Len(numbers)
           /\ \A i \in 1..Len(sent) : Coming(sent, greeting, numbers)[i] = sent[i]
           /\ \A i \in 1..Len(greeting) :
                 Coming(sent, greeting, numbers)[Len(sent) + i] = greeting[i]
           /\ \A i \in 1..Len(numbers) :
                 Coming(sent, greeting, numbers)[Len(sent) + Len(greeting) + i]
                    = Updated(numbers[i])
<1>1. PICK w \in Nat, b \in Nat, q \in Nat :
         w = Len(sent) /\ b = Len(greeting) /\ q = Len(numbers)
    BY LenProperties
<1>2. PICK tail : tail = MessagesOf(numbers)
    OBVIOUS
<1>3. tail \in Seq(Message) /\ Len(tail) = q /\ \A i \in 1..q : tail[i] = Updated(numbers[i])
    BY <1>1, <1>2, MessagesAre
<1>4. PICK front : front = sent \o greeting
    OBVIOUS
<1>5. /\ front \in Seq(Message) /\ Len(front) = w + b
      /\ \A i \in 1..(w + b) : front[i] = IF i <= w THEN sent[i] ELSE greeting[i - w]
    BY <1>1, <1>4, ConcatProperties
<1>6. PICK all : all = front \o tail
    OBVIOUS
<1>7. Coming(sent, greeting, numbers) = all
    BY <1>2, <1>4, <1>6 DEF Coming
<1>8. /\ all \in Seq(Message) /\ Len(all) = w + b + q
      /\ \A i \in 1..(w + b + q) : all[i] = IF i <= w + b THEN front[i] ELSE tail[i - (w + b)]
    <2>1. front \in Seq(Message) /\ tail \in Seq(Message)
        BY <1>3, <1>5
    <2>2. /\ front \o tail \in Seq(Message)
          /\ Len(front \o tail) = Len(front) + Len(tail)
          /\ \A i \in 1..(Len(front) + Len(tail)) :
                (front \o tail)[i] = IF i <= Len(front) THEN front[i] ELSE tail[i - Len(front)]
        BY <2>1, ConcatProperties
    <2>3. Len(front) = w + b /\ Len(tail) = q
        BY <1>3, <1>5
    <2>4. QED
        BY <1>6, <2>2, <2>3
<1>9. \A i \in 1..w : all[i] = sent[i]
    BY <1>5, <1>8
<1>10. \A i \in 1..b : all[w + i] = greeting[i]
    <2>1. ASSUME NEW i \in 1..b
          PROVE  all[w + i] = greeting[i]
        <3>1. w + i \in 1..(w + b) /\ w + i \in 1..(w + b + q) /\ ~(w + i <= w)
              /\ w + i <= w + b /\ (w + i) - w = i
            OBVIOUS
        <3>2. QED
            BY <1>5, <1>8, <3>1
    <2>2. QED
        BY <2>1
<1>11. \A i \in 1..q : all[w + b + i] = Updated(numbers[i])
    <2>1. ASSUME NEW i \in 1..q
          PROVE  all[w + b + i] = Updated(numbers[i])
        <3>1. w + b + i \in 1..(w + b + q) /\ ~(w + b + i <= w + b) /\ (w + b + i) - (w + b) = i
            OBVIOUS
        <3>2. QED
            BY <1>3, <1>8, <3>1
    <2>2. QED
        BY <2>1
<1>12. QED
    BY <1>1, <1>7, <1>8, <1>9, <1>10, <1>11

\* Where a message to come is
LEMMA Places ==
    ASSUME NEW w \in Nat, NEW b \in Nat, NEW q \in Nat, NEW i \in 1..(w + b + q)
    PROVE  \/ i \in 1..w
           \/ \E j \in 1..b : i = w + j
           \/ \E j \in 1..q : i = w + b + j
<1>1. CASE i <= w
    BY <1>1
<1>2. CASE i > w /\ i <= w + b
    <2>1. i - w \in 1..b /\ i = w + (i - w)
        BY <1>2
    <2>2. QED
        BY <2>1
<1>3. CASE i > w + b
    <2>1. i - (w + b) \in 1..q /\ i = w + b + (i - (w + b))
        BY <1>3
    <2>2. QED
        BY <2>1
<1>4. QED
    BY <1>1, <1>2, <1>3

-----------------------------------------------------------------------------
(***************************************************************************)
(* What order means for a sequence that loses its head, or gains an update.*)
(***************************************************************************)
LEMMA OrderlyTail ==
    ASSUME NEW all \in Seq(Message), all # <<>>, NEW n \in 0..Len(all),
           NEW from \in Nat, NEW top \in Nat, NEW lossy \in BOOLEAN,
           Ascending(all, n, from, top, lossy)
    PROVE  /\ n > 0 => /\ ~IsUpdate(Head(all))
                       /\ n - 1 \in 0..Len(Tail(all))
                       /\ Ascending(Tail(all), n - 1, from, top, lossy)
           /\ n = 0 => /\ IsUpdate(Head(all))
                       /\ from < Head(all).seq /\ Head(all).seq <= top
                       /\ Ascending(Tail(all), 0, Head(all).seq, top, lossy)
<1> DEFINE k == Len(all)
           rest == Tail(all)
<1>1. k \in Nat /\ k >= 1
    BY EmptySeq
<1>2. /\ rest \in Seq(Message) /\ Len(rest) = k - 1 /\ Head(all) = all[1]
      /\ \A i \in 1..(k - 1) : rest[i] = all[i + 1]
    BY <1>1
<1>3. \A i \in 1..k : all[i] \in Message
    BY ElementOfSeq
<1>4. \A i \in (n + 1)..k : all[i].seq \in Nat
    BY <1>1, <1>3, UpdateIs DEF Ascending
<1>5. ASSUME n > 0
      PROVE  /\ ~IsUpdate(Head(all))
             /\ n - 1 \in 0..Len(rest)
             /\ Ascending(rest, n - 1, from, top, lossy)
    <2>1. ~IsUpdate(Head(all)) /\ n - 1 \in 0..Len(rest)
        BY <1>1, <1>2, <1>5 DEF Ascending
    <2>2. \A i \in 1..(n - 1) : ~IsUpdate(rest[i])
        BY <1>1, <1>2, <1>5 DEF Ascending
    <2>3. \A i \in n..(k - 1) : i + 1 \in (n + 1)..k /\ rest[i] = all[i + 1]
        BY <1>1, <1>2, <1>5
    <2>4. \A i \in n..(k - 1) : IsUpdate(rest[i]) /\ from < rest[i].seq /\ rest[i].seq <= top
        BY <2>3 DEF Ascending
    <2>5. \A i, j \in n..(k - 1) : i < j => rest[i].seq < rest[j].seq
        BY <1>1, <1>5, <2>3 DEF Ascending
    <2>6. ~lossy => /\ k - 1 = (n - 1) + (top - from)
                    /\ \A i \in n..(k - 1) : rest[i].seq = from + (i - (n - 1))
        BY <1>1, <1>5, <2>3 DEF Ascending
    <2>7. (n - 1) + 1 = n /\ Len(rest) = k - 1
        BY <1>2, <1>5
    <2> HIDE DEF rest
    <2>8. QED
        BY <2>1, <2>2, <2>4, <2>5, <2>6, <2>7 DEF Ascending
<1>6. ASSUME n = 0
      PROVE  /\ IsUpdate(Head(all))
             /\ from < Head(all).seq /\ Head(all).seq <= top
             /\ Ascending(rest, 0, Head(all).seq, top, lossy)
    <2> DEFINE h == all[1].seq
    <2>1. IsUpdate(Head(all)) /\ from < h /\ h <= top /\ Head(all) = all[1] /\ h \in Nat
        BY <1>1, <1>2, <1>4, <1>6 DEF Ascending
    <2>2. \A i \in 1..(k - 1) : i + 1 \in 1..k /\ rest[i] = all[i + 1]
        BY <1>1, <1>2
    <2>3. \A i \in 1..(k - 1) : IsUpdate(rest[i]) /\ rest[i].seq <= top
        BY <1>6, <2>2 DEF Ascending
    <2>4. \A i \in 1..(k - 1) : h < rest[i].seq
        <3>1. \A i \in 1..(k - 1) : 1 < i + 1 /\ 1 \in 1..k
            BY <1>1
        <3>2. QED
            BY <1>6, <2>2, <3>1 DEF Ascending
    <2>5. \A i, j \in 1..(k - 1) : i < j => rest[i].seq < rest[j].seq
        BY <1>1, <1>6, <2>2 DEF Ascending
    <2>6. ~lossy => /\ k - 1 = top - h
                    /\ \A i \in 1..(k - 1) : rest[i].seq = h + i
        <3>1. ~lossy => k = top - from /\ h = from + 1
            BY <1>1, <1>6 DEF Ascending
        <3>2. ~lossy => \A i \in 1..(k - 1) : rest[i].seq = from + (i + 1)
            BY <1>6, <2>2 DEF Ascending
        <3> HIDE DEF rest, h
        <3>3. ASSUME ~lossy
              PROVE  k - 1 = top - h /\ h = from + 1
            BY <1>1, <3>1, <3>3
        <3>4. ASSUME ~lossy, NEW i \in 1..(k - 1)
              PROVE  rest[i].seq = h + i
            BY <3>2, <3>3, <3>4
        <3>5. QED
            BY <3>3, <3>4
    <2>7. Len(rest) = k - 1
        BY <1>2
    <2> HIDE DEF rest, h
    <2>8. Ascending(rest, 0, h, top, lossy)
        BY <1>1, <2>3, <2>4, <2>5, <2>6, <2>7 DEF Ascending
    <2>9. QED
        BY <2>1, <2>8 DEF h
<1>7. QED
    BY <1>5, <1>6

\* The update that is published next comes last, in order.
LEMMA OrderlyAppend ==
    ASSUME NEW all \in Seq(Message), NEW n \in 0..Len(all),
           NEW from \in Nat, NEW top \in Nat, from <= top, top + 1 \in 1..MaxEvents,
           NEW lossy \in BOOLEAN, Ascending(all, n, from, top, lossy)
    PROVE  /\ n \in 0..Len(Append(all, Updated(top + 1)))
           /\ Ascending(Append(all, Updated(top + 1)), n, from, top + 1, lossy)
<1> DEFINE k == Len(all)
           more == Append(all, Updated(top + 1))
<1>1. k \in Nat
    BY LenProperties
<1>2. /\ Len(more) = k + 1
      /\ \A i \in 1..k : more[i] = all[i]
      /\ more[k + 1] = Updated(top + 1)
    BY <1>1, UpdatedIs, AppendProperties
<1>3. IsUpdate(more[k + 1]) /\ more[k + 1].seq = top + 1
    BY <1>2, UpdatedIs
<1> HIDE DEF more
<1>4. \A i \in (n + 1)..k : all[i].seq \in Nat
    BY <1>1, UpdateIs, ElementOfSeq DEF Ascending
<1>5. \A i \in 1..n : ~IsUpdate(more[i])
    BY <1>1, <1>2 DEF Ascending
<1>6. \A i \in (n + 1)..(k + 1) : i = k + 1 \/ (i \in (n + 1)..k /\ more[i] = all[i])
    BY <1>1, <1>2
<1>7. \A i \in (n + 1)..(k + 1) : /\ IsUpdate(more[i])
                                  /\ from < more[i].seq /\ more[i].seq <= top + 1
    BY <1>3, <1>4, <1>6 DEF Ascending
<1>8. \A i, j \in (n + 1)..(k + 1) : i < j => more[i].seq < more[j].seq
    <2>1. ASSUME NEW i \in (n + 1)..(k + 1), NEW j \in (n + 1)..(k + 1), i < j
          PROVE  more[i].seq < more[j].seq
        <3>1. i \in (n + 1)..k /\ more[i] = all[i]
            BY <1>1, <1>6, <2>1
        <3>2. CASE j = k + 1
            BY <1>3, <1>4, <3>1, <3>2 DEF Ascending
        <3>3. CASE j \in (n + 1)..k /\ more[j] = all[j]
            BY <2>1, <3>1, <3>3 DEF Ascending
        <3>4. QED
            BY <1>6, <3>2, <3>3
    <2>2. QED
        BY <2>1
<1>9. ~lossy => /\ k + 1 = n + ((top + 1) - from)
                /\ \A i \in (n + 1)..(k + 1) : more[i].seq = from + (i - n)
    BY <1>1, <1>3, <1>6, SMTT(30) DEF Ascending
<1>10. n \in 0..Len(more)
    BY <1>1, <1>2
<1>11. Ascending(more, n, from, top + 1, lossy)
    BY <1>2, <1>5, <1>7, <1>8, <1>9 DEF Ascending
<1>12. QED
    BY <1>10, <1>11 DEF more

\* An update that is lost and a new one: what is left is in order still.
LEMMA OrderlyDrop ==
    ASSUME NEW all \in Seq(Message), NEW n \in 0..Len(all),
           NEW from \in Nat, NEW top \in Nat, from <= top, top + 1 \in 1..MaxEvents,
           NEW lossy \in BOOLEAN, Ascending(all, n, from, top, lossy),
           NEW p \in 1..Len(all), IsUpdate(all[p]),
           NEW after \in Seq(Message), Len(after) = Len(all),
           \A i \in 1..Len(all) :
              after[i] = IF i < p THEN all[i]
                         ELSE IF i < Len(all) THEN all[i + 1]
                         ELSE Updated(top + 1)
    PROVE  Ascending(after, n, from, top + 1, TRUE)
<1> DEFINE k == Len(all)
<1>1. k \in Nat
    BY LenProperties
<1>2. n < p
    BY <1>1 DEF Ascending
<1>3. \A i \in (n + 1)..k : all[i].seq \in Nat
    BY <1>1, UpdateIs, ElementOfSeq DEF Ascending
<1>4. IsUpdate(Updated(top + 1)) /\ Updated(top + 1).seq = top + 1
    BY UpdatedIs
<1>5. \A i \in 1..n : after[i] = all[i]
    BY <1>1, <1>2
<1>6. \A i \in (n + 1)..k :
         \/ i < p /\ i < k /\ after[i] = all[i]
         \/ i >= p /\ i < k /\ i + 1 \in (n + 1)..k /\ after[i] = all[i + 1]
         \/ i = k /\ after[i] = Updated(top + 1)
    BY <1>1, <1>2
<1>7. \A i \in (n + 1)..k : /\ IsUpdate(after[i])
                            /\ from < after[i].seq /\ after[i].seq <= top + 1
    BY <1>3, <1>4, <1>6 DEF Ascending
<1>8. ASSUME NEW i \in (n + 1)..k, NEW j \in (n + 1)..k, i < j
      PROVE  after[i].seq < after[j].seq
    <2>1. PICK a \in (n + 1)..k : /\ after[i] = all[a]
                                  /\ a = IF i < p THEN i ELSE i + 1
        BY <1>1, <1>6, <1>8
    <2>2. CASE j = k /\ after[j] = Updated(top + 1)
        BY <1>3, <1>4, <2>1, <2>2 DEF Ascending
    <2>3. CASE ~(j = k /\ after[j] = Updated(top + 1))
        <3>1. PICK b \in (n + 1)..k : /\ after[j] = all[b]
                                      /\ b = IF j < p THEN j ELSE j + 1
            BY <1>1, <1>6, <2>3
        <3>2. a < b
            BY <1>8, <2>1, <3>1
        <3>3. QED
            BY <2>1, <3>1, <3>2 DEF Ascending
    <2>4. QED
        BY <2>2, <2>3
<1>9. QED
    BY <1>1, <1>5, <1>7, <1>8 DEF Ascending

-----------------------------------------------------------------------------
(***************************************************************************)
(* What the operations make of what is to come.                            *)
(***************************************************************************)
\* A buffer with a limit, the history or the queue, takes a number: as its
\* last, and at the limit it loses its first.
LEMMA Buffered ==
    ASSUME NEW limit \in Nat \ {0}, NEW S, NEW events \in Seq(S), Len(events) <= limit,
           NEW k \in S, NEW after,
           after = IF Len(events) < limit THEN Append(events, k) ELSE Append(Tail(events), k)
    PROVE  /\ after \in Seq(S) /\ Len(after) <= limit /\ after # <<>>
           /\ Len(events) < limit =>
                 /\ Len(after) = Len(events) + 1
                 /\ \A i \in 1..Len(events) : after[i] = events[i]
                 /\ after[Len(events) + 1] = k
           /\ Len(events) = limit =>
                 /\ Len(after) = Len(events)
                 /\ \A i \in 1..(Len(events) - 1) : after[i] = events[i + 1]
                 /\ after[Len(events)] = k
<1>1. Len(events) \in Nat
    BY LenProperties
<1>2. CASE Len(events) < limit
    <2>1. after = Append(events, k)
        BY <1>2
    <2>2. /\ after \in Seq(S) /\ Len(after) = Len(events) + 1
          /\ \A i \in 1..Len(events) : after[i] = events[i]
          /\ after[Len(events) + 1] = k
        BY <2>1, AppendProperties
    <2>3. QED
        BY <1>1, <1>2, <2>2, EmptySeq
<1>3. CASE Len(events) = limit
    <2> DEFINE rest == Tail(events)
    <2>1. after = Append(rest, k) /\ events # <<>>
        BY <1>1, <1>3, EmptySeq
    <2>2. /\ rest \in Seq(S) /\ Len(rest) = Len(events) - 1
          /\ \A i \in 1..(Len(events) - 1) : rest[i] = events[i + 1]
        BY <1>1, <2>1
    <2> HIDE DEF rest
    <2>3. /\ after \in Seq(S) /\ Len(after) = Len(rest) + 1
          /\ \A i \in 1..Len(rest) : after[i] = rest[i]
          /\ after[Len(rest) + 1] = k
        BY <2>1, <2>2, AppendProperties
    <2>4. Len(rest) + 1 = Len(events) /\ 1..Len(rest) = 1..(Len(events) - 1)
        BY <1>1, <1>3, <2>2
    <2>5. QED
        BY <1>1, <1>3, <2>2, <2>3, <2>4, EmptySeq
<1>4. QED
    BY <1>1, <1>2, <1>3

\* A sequence of messages after a first one, and short ones.
LEMMA PrefixedBy ==
    ASSUME NEW h \in Message, NEW t \in Seq(Message), NEW c, c = <<h>> \o t
    PROVE  /\ c \in Seq(Message) /\ Len(c) = 1 + Len(t)
           /\ c[1] = h
           /\ \A i \in 1..Len(t) : c[i + 1] = t[i]
<1>1. <<h>> \in Seq(Message) /\ Len(<<h>>) = 1 /\ <<h>>[1] = h /\ Len(t) \in Nat
    BY LenProperties
<1>2. <<h>> \in Seq(Message)
    BY <1>1
<1>3. /\ c \in Seq(Message) /\ Len(c) = Len(<<h>>) + Len(t)
      /\ \A i \in 1..(Len(<<h>>) + Len(t)) :
            c[i] = IF i <= Len(<<h>>) THEN <<h>>[i] ELSE t[i - Len(<<h>>)]
    BY <1>2, ConcatProperties
<1>4. Len(c) = 1 + Len(t) /\ c[1] = h
    BY <1>1, <1>3
<1>5. ASSUME NEW i \in 1..Len(t)
      PROVE  c[i + 1] = t[i]
    <2>1. i + 1 \in 1..(1 + Len(t)) /\ ~(i + 1 <= 1) /\ (i + 1) - 1 = i
        BY <1>1
    <2>2. QED
        BY <1>1, <1>3, <2>1
<1>6. QED
    BY <1>3, <1>4, <1>5

\* Sequences of one message and of two.
LEMMA Short ==
    ASSUME NEW a \in Message, NEW b \in Message
    PROVE  /\ <<a>> \in Seq(Message) /\ Len(<<a>>) = 1 /\ <<a>>[1] = a
           /\ <<a, b>> \in Seq(Message) /\ Len(<<a, b>>) = 2
           /\ <<a, b>>[1] = a /\ <<a, b>>[2] = b
OBVIOUS

\* A sequence of messages and its first.
LEMMA Consing ==
    ASSUME NEW h \in Message, NEW t \in Seq(Message)
    PROVE  /\ <<h>> \in Seq(Message)
           /\ <<h>> \o t \in Seq(Message) /\ <<h>> \o t # <<>>
           /\ Head(<<h>> \o t) = h
           /\ Tail(<<h>> \o t) = t
<1> DEFINE c == <<h>> \o t
<1>1. <<h>> \in Seq(Message) /\ Len(<<h>>) = 1 /\ <<h>>[1] = h /\ Len(t) \in Nat
    BY LenProperties
<1>2. /\ c \in Seq(Message) /\ Len(c) = 1 + Len(t)
      /\ \A i \in 1..(1 + Len(t)) : c[i] = IF i <= 1 THEN <<h>>[i] ELSE t[i - 1]
    BY <1>1, ConcatProperties
<1> HIDE DEF c
<1>3. c # <<>> /\ Head(c) = h
    BY <1>1, <1>2, EmptySeq
<1>4. Tail(c) \in Seq(Message) /\ Len(Tail(c)) = Len(t)
    BY <1>1, <1>2, <1>3
<1>5. ASSUME NEW i \in 1..Len(t)
      PROVE  Tail(c)[i] = t[i]
    <2>1. i + 1 \in 1..(1 + Len(t)) /\ ~(i + 1 <= 1) /\ (i + 1) - 1 = i
        BY <1>1
    <2>2. c[i + 1] = t[i]
        BY <1>2, <2>1
    <2>3. QED
        BY <1>1, <1>2, <1>3, <2>2
<1>6. Tail(c) = t
    BY <1>4, <1>5, SeqEqual
<1>7. QED
    BY <1>1, <1>2, <1>3, <1>6 DEF c

\* A sequence of messages is its first and the rest.
LEMMA Splitting ==
    ASSUME NEW s \in Seq(Message), s # <<>>
    PROVE  /\ Head(s) \in Message /\ Tail(s) \in Seq(Message)
           /\ s = <<Head(s)>> \o Tail(s)
<1> DEFINE c == <<Head(s)>> \o Tail(s)
<1>1. /\ Head(s) \in Message /\ Tail(s) \in Seq(Message) /\ Len(Tail(s)) = Len(s) - 1
      /\ Len(s) \in Nat /\ Len(s) >= 1
    BY HeadTailProperties, LenProperties, EmptySeq
<1>2. <<Head(s)>> \in Seq(Message) /\ Len(<<Head(s)>>) = 1 /\ <<Head(s)>>[1] = s[1]
    BY <1>1
<1>3. /\ c \in Seq(Message) /\ Len(c) = Len(s)
      /\ \A i \in 1..Len(s) : c[i] = IF i <= 1 THEN <<Head(s)>>[i] ELSE Tail(s)[i - 1]
    BY <1>1, <1>2, ConcatProperties
<1> HIDE DEF c
<1>4. ASSUME NEW i \in 1..Len(s)
      PROVE  c[i] = s[i]
    <2>1. CASE i = 1
        BY <1>1, <1>2, <1>3, <2>1
    <2>2. CASE i > 1
        <3>1. i - 1 \in 1..(Len(s) - 1) /\ (i - 1) + 1 = i /\ ~(i <= 1)
            BY <1>1, <2>2
        <3>2. Tail(s)[i - 1] = s[i]
            BY <1>1, <3>1
        <3>3. QED
            BY <1>3, <3>1, <3>2
    <2>3. QED
        BY <1>1, <2>1, <2>2
<1>5. c = s
    BY <1>3, <1>4, SeqEqual
<1>6. QED
    BY <1>1, <1>5 DEF c

\* The first number of the queue is the first update to be sent.
LEMMA QueueSplits ==
    ASSUME NEW numbers \in Seq(1..MaxEvents), numbers # <<>>
    PROVE  /\ Head(numbers) \in 1..MaxEvents /\ Tail(numbers) \in Seq(1..MaxEvents)
           /\ MessagesOf(numbers) = <<Updated(Head(numbers))>> \o MessagesOf(Tail(numbers))
<1> DEFINE h == Updated(Head(numbers))
           t == MessagesOf(Tail(numbers))
           c == <<h>> \o t
           q == Len(numbers)
<1>1. /\ Head(numbers) \in 1..MaxEvents /\ Tail(numbers) \in Seq(1..MaxEvents)
      /\ Len(Tail(numbers)) = q - 1 /\ q \in Nat /\ q >= 1
    <2>1. q \in Nat /\ q >= 1
        BY EmptySeq
    <2>2. QED
        BY <2>1, HeadTailProperties
<1>2. h \in Message /\ h = Updated(numbers[1])
    BY <1>1, UpdatedIs
<1>3. /\ t \in Seq(Message) /\ Len(t) = q - 1
      /\ \A i \in 1..(q - 1) : t[i] = Updated(numbers[i + 1])
    <2>1. /\ t \in Seq(Message) /\ Len(t) = q - 1
          /\ \A i \in 1..(q - 1) : t[i] = Updated(Tail(numbers)[i])
        BY <1>1, MessagesAre
    <2>2. \A i \in 1..(q - 1) : Tail(numbers)[i] = numbers[i + 1]
        BY <1>1
    <2>3. QED
        BY <2>1, <2>2
<1>4. /\ MessagesOf(numbers) \in Seq(Message) /\ Len(MessagesOf(numbers)) = q
      /\ \A i \in 1..q : MessagesOf(numbers)[i] = Updated(numbers[i])
    BY MessagesAre
<1> HIDE DEF h, t
<1>5. <<h>> \in Seq(Message) /\ Len(<<h>>) = 1 /\ <<h>>[1] = h
    BY <1>2
<1>6. /\ c \in Seq(Message) /\ Len(c) = q
      /\ \A i \in 1..q : c[i] = IF i <= 1 THEN <<h>>[i] ELSE t[i - 1]
    <2>1. <<h>> \in Seq(Message) /\ t \in Seq(Message)
        BY <1>3, <1>5
    <2>2. /\ c \in Seq(Message) /\ Len(c) = Len(<<h>>) + Len(t)
          /\ \A i \in 1..(Len(<<h>>) + Len(t)) :
                c[i] = IF i <= Len(<<h>>) THEN <<h>>[i] ELSE t[i - Len(<<h>>)]
        BY <2>1, ConcatProperties
    <2>3. Len(<<h>>) = 1 /\ Len(<<h>>) + Len(t) = q
        BY <1>1, <1>3, <1>5
    <2>4. QED
        BY <2>2, <2>3
<1> HIDE DEF c
<1>7. ASSUME NEW i \in 1..q
      PROVE  c[i] = MessagesOf(numbers)[i]
    <2>1. CASE i = 1
        BY <1>1, <1>2, <1>4, <1>5, <1>6, <2>1
    <2>2. CASE i > 1
        <3>1. i - 1 \in 1..(q - 1) /\ (i - 1) + 1 = i /\ ~(i <= 1)
            BY <1>1, <2>2
        <3>2. t[i - 1] = Updated(numbers[i])
            BY <1>3, <3>1
        <3>3. QED
            BY <1>4, <1>6, <3>1, <3>2
    <2>3. QED
        BY <1>1, <2>1, <2>2
<1>8. c = MessagesOf(numbers)
    BY <1>4, <1>6, <1>7, SeqEqual
<1>9. QED
    BY <1>1, <1>8 DEF c, h, t

\* Sending moves a message along, and changes nothing of what is to come.
LEMMA SendingKeeps ==
    ASSUME NEW sent \in Seq(Message), NEW greeting \in Seq(Message),
           NEW numbers \in Seq(1..MaxEvents)
    PROVE  /\ greeting # <<>> =>
                 /\ Append(sent, Head(greeting)) \in Seq(Message)
                 /\ Tail(greeting) \in Seq(Message)
                 /\ Coming(Append(sent, Head(greeting)), Tail(greeting), numbers)
                       = Coming(sent, greeting, numbers)
           /\ greeting = <<>> /\ numbers # <<>> =>
                 /\ Append(sent, Updated(Head(numbers))) \in Seq(Message)
                 /\ Tail(numbers) \in Seq(1..MaxEvents)
                 /\ Coming(Append(sent, Updated(Head(numbers))), greeting, Tail(numbers))
                       = Coming(sent, greeting, numbers)
<1>1. ASSUME greeting # <<>>
      PROVE  /\ Append(sent, Head(greeting)) \in Seq(Message)
             /\ Tail(greeting) \in Seq(Message)
             /\ Coming(Append(sent, Head(greeting)), Tail(greeting), numbers)
                   = Coming(sent, greeting, numbers)
    <2>1. /\ Head(greeting) \in Message /\ Tail(greeting) \in Seq(Message)
          /\ greeting = <<Head(greeting)>> \o Tail(greeting)
        BY <1>1, Splitting
    <2>2. /\ Append(sent, Head(greeting)) \in Seq(Message)
          /\ Append(sent, Head(greeting)) = sent \o <<Head(greeting)>>
        BY <2>1, AppendProperties, AppendIsConcat
    <2>3. (sent \o <<Head(greeting)>>) \o Tail(greeting)
              = sent \o (<<Head(greeting)>> \o Tail(greeting))
        BY <2>1, Consing, ConcatAssociative
    <2>4. QED
        BY <2>1, <2>2, <2>3 DEF Coming
<1>2. ASSUME greeting = <<>>, numbers # <<>>
      PROVE  /\ Append(sent, Updated(Head(numbers))) \in Seq(Message)
             /\ Tail(numbers) \in Seq(1..MaxEvents)
             /\ Coming(Append(sent, Updated(Head(numbers))), greeting, Tail(numbers))
                   = Coming(sent, greeting, numbers)
    <2> DEFINE h == Updated(Head(numbers))
               t == MessagesOf(Tail(numbers))
    <2>1. /\ Head(numbers) \in 1..MaxEvents /\ Tail(numbers) \in Seq(1..MaxEvents)
          /\ MessagesOf(numbers) = <<h>> \o t
        BY <1>2, QueueSplits
    <2>2. h \in Message /\ t \in Seq(Message)
        BY <2>1, UpdatedIs, MessagesAre
    <2> HIDE DEF h, t
    <2>3. Append(sent, h) \in Seq(Message) /\ Append(sent, h) = sent \o <<h>>
        BY <2>2, AppendProperties, AppendIsConcat
    <2>4. (sent \o <<h>>) \o t = sent \o (<<h>> \o t)
        BY <2>2, Consing, ConcatAssociative
    <2>5. sent \o <<>> = sent /\ Append(sent, h) \o <<>> = Append(sent, h)
        BY <2>3, ConcatEmptySeq
    <2>6. Coming(Append(sent, h), greeting, Tail(numbers)) = Coming(sent, greeting, numbers)
        BY <1>2, <2>1, <2>3, <2>4, <2>5 DEF Coming, t
    <2>7. QED
        BY <2>1, <2>3, <2>6 DEF h
<1>3. QED
    BY <1>1, <1>2

\* The client receives the first of what is to come.
LEMMA ReceivingTakes ==
    ASSUME NEW sent \in Seq(Message), NEW greeting \in Seq(Message),
           NEW numbers \in Seq(1..MaxEvents), sent # <<>>
    PROVE  LET all == Coming(sent, greeting, numbers)
           IN  /\ Tail(sent) \in Seq(Message)
               /\ all # <<>> /\ Head(all) = Head(sent)
               /\ Coming(Tail(sent), greeting, numbers) = Tail(all)
<1> DEFINE h == Head(sent)
           t == Tail(sent)
           q == MessagesOf(numbers)
<1>1. h \in Message /\ t \in Seq(Message) /\ sent = <<h>> \o t
    BY Splitting
<1>2. q \in Seq(Message)
    BY MessagesAre
<1> HIDE DEF h, t, q
<1>3. /\ <<h>> \in Seq(Message) /\ t \o greeting \in Seq(Message)
      /\ (t \o greeting) \o q \in Seq(Message)
    BY <1>1, <1>2, Consing, ConcatProperties
<1>4. (<<h>> \o t) \o greeting = <<h>> \o (t \o greeting)
    BY <1>1, <1>3, ConcatAssociative
<1>5. (<<h>> \o (t \o greeting)) \o q = <<h>> \o ((t \o greeting) \o q)
    BY <1>2, <1>3, ConcatAssociative
<1>6. Coming(sent, greeting, numbers) = <<h>> \o ((t \o greeting) \o q)
    BY <1>1, <1>4, <1>5 DEF Coming, q
<1>7. Coming(t, greeting, numbers) = (t \o greeting) \o q
    BY DEF Coming, q
<1>8. QED
    BY <1>1, <1>3, <1>6, <1>7, Consing, SMTT(30) DEF h, t

-----------------------------------------------------------------------------
(***************************************************************************)
(* What replay_since finds.                                                *)
(***************************************************************************)
\* Missed is the filter the code applies: it keeps just the retained numbers
\* that are newer, in their order.
LEMMA MissedIsFilter ==
    ASSUME TypeOK, HistoryIsRecent, NEW since \in Nat
    PROVE  \E had \in 0..Len(history) :
              /\ \A i \in 1..Len(history) : history[i] <= since <=> i <= had
              /\ Missed(since) \in Seq(1..MaxEvents)
              /\ Len(Missed(since)) = Len(history) - had
              /\ \A i \in 1..(Len(history) - had) : Missed(since)[i] = history[had + i]
<1> DEFINE k == Len(history)
           first == Latest - k
           had == IF since < first THEN 0 ELSE IF since - first <= k THEN since - first ELSE k
           older == {i \in DOMAIN history : history[i] <= since}
<1>1. k \in Nat /\ Latest \in Nat /\ first \in Nat /\ DOMAIN history = 1..k
    BY LatestTyped, LenProperties, BoundAssumption DEF TypeOK, HistoryIsRecent
<1>2. had \in 0..k
    BY <1>1
<1>3. \A i \in 1..k : history[i] = first + i
    BY DEF HistoryIsRecent
<1> HIDE DEF first
<1>4. ASSUME NEW i \in 1..k
      PROVE  history[i] <= since <=> i <= had
    BY <1>1, <1>3
<1> HIDE DEF had
<1>5. older = 1..had
    <2>1. \A i \in 1..k : i \in 1..had <=> i <= had
        BY <1>1, <1>2
    <2>2. 1..had \subseteq 1..k
        BY <1>1, <1>2
    <2>3. older = {i \in 1..k : history[i] <= since}
        BY <1>1
    <2>4. QED
        BY <1>4, <2>1, <2>2, <2>3
<1>6. Cardinality(older) = had
    <2>1. had \in Nat /\ had \in Int /\ 1 \in Int
        BY <1>1, <1>2
    <2>2. Cardinality(1..had) = IF 1 > had THEN 0 ELSE had - 1 + 1
        BY <2>1, FS_Interval
    <2>3. Cardinality(1..had) = had
        BY <2>1, <2>2
    <2>4. QED
        BY <1>5, <2>3
<1>7. Missed(since) = SubSeq(history, had + 1, k)
    <2>1. Missed(since) = SubSeq(history, Cardinality(older) + 1, k)
        BY DEF Missed
    <2> HIDE DEF older, k
    <2>2. QED
        BY <1>6, <2>1
<1>8. \A i \in (had + 1)..k : history[i] \in 1..MaxEvents
    <2>1. \A i \in (had + 1)..k : i \in 1..k
        <3>1. k \in Nat /\ had \in 0..k
            BY <1>1, <1>2
        <3> HIDE DEF k
        <3>2. QED
            BY <3>1
    <2>2. \A i \in 1..k : history[i] \in 1..MaxEvents
        BY ElementOfSeq DEF TypeOK
    <2>3. QED
        BY <2>1, <2>2
<1>9. /\ Missed(since) \in Seq(1..MaxEvents)
      /\ Len(Missed(since)) = k - had
      /\ \A i \in 1..(k - had) : Missed(since)[i] = history[had + i]
    <2> DEFINE S == 1..MaxEvents
               kept == SubSeq(history, had + 1, k)
    <2> HIDE DEF S
    <2>1. had + 1 \in Int /\ k \in Int
        BY <1>1, <1>2
    <2>2. \A i \in (had + 1)..k : history[i] \in S
        BY <1>8 DEF S
    <2>3. /\ kept \in Seq(S)
          /\ Len(kept) = IF had + 1 <= k THEN k - (had + 1) + 1 ELSE 0
          /\ \A i \in 1..(k - (had + 1) + 1) : kept[i] = history[(had + 1) + i - 1]
        <3> HIDE DEF k
        <3>1. QED
            BY <2>1, <2>2, SubSeqProperties
    <2> HIDE DEF kept
    <2>4. Len(kept) = k - had /\ k - (had + 1) + 1 = k - had
        <3>1. had \in Nat /\ k \in Nat /\ had <= k
            BY <1>1, <1>2
        <3> HIDE DEF k
        <3>2. QED
            BY <2>3, <3>1
    <2>5. \A i \in 1..(k - had) : (had + 1) + i - 1 = had + i
        BY <1>1, <1>2
    <2>6. QED
        BY <1>7, <2>3, <2>4, <2>5 DEF S, kept
<1>10. QED
    BY <1>2, <1>4, <1>9

\* What the client missed since a number it has got to, unless that is too old:
\* every number from there to the latest.
LEMMA MissedIsRest ==
    ASSUME TypeOK, HistoryIsRecent, NEW since \in Nat, ~IsTooOld(since)
    PROVE  /\ Missed(since) \in Seq(1..MaxEvents)
           /\ Len(Missed(since)) = IF since <= Latest THEN Latest - since ELSE 0
           /\ \A i \in 1..Len(Missed(since)) : Missed(since)[i] = since + i
<1> DEFINE k == Len(history)
           first == Latest - k
<1>1. k \in Nat /\ Latest \in Nat /\ first \in Nat
    BY LatestTyped, LenProperties, BoundAssumption DEF TypeOK, HistoryIsRecent
<1>2. \A i \in 1..k : history[i] = first + i
    BY DEF HistoryIsRecent
<1>3. k = 0 => Latest = 0
    BY <1>1, EmptySeq DEF HistoryIsRecent, TypeOK
<1>4. since >= first
    <2>1. CASE k = 0
        BY <1>1, <1>3, <2>1
    <2>2. CASE k > 0
        <3>1. history # <<>> /\ Head(history) = first + 1
            BY <1>1, <1>2, <2>2 DEF TypeOK
        <3>2. ~(since < Head(history) - 1)
            BY <3>1 DEF IsTooOld
        <3>3. QED
            BY <1>1, <3>1, <3>2
    <2>3. QED
        BY <1>1, <2>1, <2>2
<1>5. PICK had \in 0..k :
         /\ \A i \in 1..k : history[i] <= since <=> i <= had
         /\ Missed(since) \in Seq(1..MaxEvents)
         /\ Len(Missed(since)) = k - had
         /\ \A i \in 1..(k - had) : Missed(since)[i] = history[had + i]
    BY MissedIsFilter
<1> HIDE DEF k, first
<1>6. k = Latest - first
    BY <1>1 DEF k, first
<1>7. had = IF since <= Latest THEN since - first ELSE k
    <2>1. \A i \in 1..k : first + i <= since <=> i <= had
        BY <1>2, <1>5
    <2>2. CASE since <= Latest
        <3>1. since - first \in 0..k
            BY <1>1, <1>4, <1>6, <2>2
        <3>2. had <= since - first
            BY <1>1, <1>5, <2>1, <3>1, SMTT(30)
        <3>3. since - first <= had
            BY <1>1, <1>5, <2>1, <3>1
        <3>4. QED
            BY <1>1, <1>5, <2>2, <3>1, <3>2, <3>3
    <2>3. CASE since > Latest
        BY <1>1, <1>5, <1>6, <2>1, <2>3
    <2>4. QED
        BY <1>1, <2>2, <2>3
<1>8. Len(Missed(since)) = IF since <= Latest THEN Latest - since ELSE 0
    BY <1>1, <1>5, <1>6, <1>7
<1>9. ASSUME NEW i \in 1..Len(Missed(since))
      PROVE  Missed(since)[i] = since + i
    <2>1. i \in 1..(k - had) /\ since <= Latest /\ had = since - first /\ had + i \in 1..k
        BY <1>1, <1>5, <1>6, <1>7, <1>8
    <2>2. Missed(since)[i] = history[had + i] /\ history[had + i] = first + (had + i)
        BY <1>2, <1>5, <2>1
    <2>3. QED
        BY <1>1, <2>1, <2>2
<1>10. QED
    BY <1>5, <1>8, <1>9

\* Where a connection begins, that asks for what came after since
From(since) == IF since \in 1..Latest /\ ~IsTooOld(since) THEN since ELSE Latest

\* Messages without an update are in order, when none is due.
LEMMA GreetingAlone ==
    ASSUME NEW all, NEW n \in Nat, Len(all) = n, \A i \in 1..n : ~IsUpdate(all[i]),
           NEW top \in Nat
    PROVE  n \in 0..Len(all) /\ Ascending(all, n, top, top, FALSE)
<1>1. n \in 0..Len(all)
    OBVIOUS
<1>2. \A i \in (n + 1)..n : FALSE
    OBVIOUS
<1>3. Len(all) = n + (top - top)
    OBVIOUS
<1>4. QED
    BY <1>1, <1>2, <1>3 DEF Ascending

\* A greeting of two messages or less, then the replay: in order, and complete.
LEMMA GreetingOrderly ==
    ASSUME TypeOK, HistoryIsRecent, NEW since \in Nat
    PROVE  /\ ToSend(since) \in Seq(Message)
           /\ From(since) \in 0..Latest
           /\ \E n \in 0..Len(ToSend(since)) :
                 Ascending(ToSend(since), n, From(since), Latest, FALSE)
<1>1. Latest \in Nat
    BY LatestTyped, BoundAssumption
<1>2. From(since) \in 0..Latest
    BY <1>1 DEF From
<1>3. /\ \A sync \in BOOLEAN : Ready(sync) \in Message /\ ~IsUpdate(Ready(sync))
      /\ SyncRequired \in Message /\ ~IsUpdate(SyncRequired)
    BY GreetingIs
<1>4. CASE since = 0
    <2>1. PICK r \in Message : r = Ready(FALSE) /\ ~IsUpdate(r)
        BY <1>3
    <2>2. PICK all : all = <<r>>
        OBVIOUS
    <2>3. ToSend(since) = all /\ From(since) = Latest
        BY <1>1, <1>4, <2>1, <2>2 DEF ToSend, From
    <2>4. all \in Seq(Message) /\ Len(all) = 1 /\ all[1] = r
        BY <2>2, Short
    <2>5. 1 \in 0..Len(all) /\ Ascending(all, 1, Latest, Latest, FALSE)
        <3>1. \A i \in 1..1 : i = 1
            OBVIOUS
        <3>2. \A i \in 1..1 : ~IsUpdate(all[i])
            BY <2>1, <2>4, <3>1
        <3>3. QED
            BY <1>1, <2>4, <3>2, GreetingAlone
    <2>6. QED
        BY <1>2, <2>3, <2>4, <2>5
<1>5. CASE since # 0 /\ IsTooOld(since)
    <2>1. PICK r \in Message : r = Ready(TRUE) /\ ~IsUpdate(r)
        BY <1>3
    <2>2. PICK s \in Message : s = SyncRequired /\ ~IsUpdate(s)
        BY <1>3
    <2>3. PICK all : all = <<r, s>>
        OBVIOUS
    <2>4. ToSend(since) = all /\ From(since) = Latest
        BY <1>5, <2>1, <2>2, <2>3 DEF ToSend, From
    <2>5. all \in Seq(Message) /\ Len(all) = 2 /\ all[1] = r /\ all[2] = s
        BY <2>3, Short
    <2>6. 2 \in 0..Len(all) /\ Ascending(all, 2, Latest, Latest, FALSE)
        <3>1. \A i \in 1..2 : i = 1 \/ i = 2
            OBVIOUS
        <3>2. \A i \in 1..2 : ~IsUpdate(all[i])
            BY <2>1, <2>2, <2>5, <3>1
        <3>3. QED
            BY <1>1, <2>5, <3>2, GreetingAlone
    <2>7. QED
        BY <1>2, <2>4, <2>5, <2>6
<1>6. CASE since # 0 /\ ~IsTooOld(since)
    <2>1. PICK missed : missed = Missed(since)
        OBVIOUS
    <2>2. PICK m : m = Len(missed)
        OBVIOUS
    <2>3. /\ missed \in Seq(1..MaxEvents)
          /\ m = IF since <= Latest THEN Latest - since ELSE 0
          /\ \A i \in 1..m : missed[i] = since + i
        BY <1>6, <2>1, <2>2, MissedIsRest
    <2>4. m \in Nat /\ \A i \in 1..m : missed[i] \in 1..MaxEvents
        BY <2>2, <2>3, LenProperties, ElementOfSeq
    <2>5. PICK replay : replay = MessagesOf(missed)
        OBVIOUS
    <2>6. /\ replay \in Seq(Message) /\ Len(replay) = m
          /\ \A i \in 1..m : replay[i] = Updated(missed[i])
        BY <2>2, <2>3, <2>5, MessagesAre
    <2>7. PICK r \in Message : r = Ready(FALSE) /\ ~IsUpdate(r)
        BY <1>3
    <2>8. PICK all : all = <<r>> \o replay
        OBVIOUS
    <2>9. ToSend(since) = all
        <3>1. DOMAIN missed = 1..Len(missed)
            BY <2>3, LenProperties
        <3>2. ToSend(since) = <<Ready(FALSE)>> \o [i \in 1..Len(missed) |-> Updated(missed[i])]
            BY <1>6, <2>1 DEF ToSend
        <3>3. QED
            BY <2>5, <2>7, <2>8, <3>1, <3>2 DEF MessagesOf
    <2>10. /\ all \in Seq(Message) /\ Len(all) = 1 + m /\ all[1] = r
           /\ \A i \in 1..m : all[i + 1] = replay[i]
        BY <2>6, <2>8, PrefixedBy
    <2>11. ASSUME NEW i \in 2..(1 + m)
           PROVE  IsUpdate(all[i]) /\ all[i].seq = since + (i - 1)
        <3>1. i - 1 \in 1..m /\ (i - 1) + 1 = i
            BY <2>4
        <3>2. all[i] = Updated(missed[i - 1]) /\ missed[i - 1] = since + (i - 1)
            BY <2>3, <2>6, <2>10, <3>1
        <3>3. QED
            BY <2>4, <3>1, <3>2, UpdatedIs
    <2>12. CASE since <= Latest
        <3>1. From(since) = since /\ m = Latest - since
            BY <1>1, <1>6, <2>3, <2>12 DEF From
        <3>2. 1 \in 0..Len(all)
            BY <2>4, <2>10
        <3>3. \A i \in 1..1 : ~IsUpdate(all[i])
            <4>1. \A i \in 1..1 : i = 1
                OBVIOUS
            <4>2. QED
                BY <2>7, <2>10, <4>1
        <3>4. Ascending(all, 1, since, Latest, FALSE)
            BY <1>1, <2>4, <2>10, <2>11, <3>1, <3>3 DEF Ascending
        <3>5. QED
            BY <1>2, <2>9, <2>10, <3>1, <3>2, <3>4
    <2>13. CASE since > Latest
        <3>1. From(since) = Latest /\ m = 0
            BY <1>1, <2>3, <2>13 DEF From
        <3>2. Len(all) = 1 /\ 1 \in 0..Len(all)
            BY <2>10, <3>1
        <3>3. \A i \in 1..1 : ~IsUpdate(all[i])
            <4>1. \A i \in 1..1 : i = 1
                OBVIOUS
            <4>2. QED
                BY <2>7, <2>10, <4>1
        <3>4. Ascending(all, 1, Latest, Latest, FALSE)
            BY <1>1, <3>2, <3>3, GreetingAlone
        <3>5. Ascending(all, 1, From(since), Latest, FALSE)
            BY <3>1, <3>4
        <3>6. \E n \in 0..Len(all) : Ascending(all, n, From(since), Latest, FALSE)
            BY <3>2, <3>5
        <3>7. \E n \in 0..Len(ToSend(since)) :
                 Ascending(ToSend(since), n, From(since), Latest, FALSE)
            BY <2>9, <3>6
        <3>8. ToSend(since) \in Seq(Message)
            BY <2>9, <2>10
        <3>9. QED
            BY <1>2, <3>7, <3>8
    <2>14. since <= Latest \/ since > Latest
        BY <1>1
    <2>15. QED
        BY <2>12, <2>13, <2>14
<1>7. QED
    BY <1>4, <1>5, <1>6

-----------------------------------------------------------------------------
(***************************************************************************)
(* What the operations make of the messages to come.                       *)
(***************************************************************************)
\* A new connection has its greeting to send, and nothing else.
LEMMA ComingFresh ==
    ASSUME NEW greeting \in Seq(Message)
    PROVE  Coming(<<>>, greeting, <<>>) = greeting
<1>1. <<>> \in Seq(1..MaxEvents) /\ Len(<<>>) = 0
    BY EmptySeq
<1>2. MessagesOf(<<>>) \in Seq(Message) /\ Len(MessagesOf(<<>>)) = 0
    BY <1>1, MessagesAre
<1>3. MessagesOf(<<>>) = <<>>
    BY <1>2, EmptySeq
<1>4. QED
    BY <1>3, ConcatEmptySeq DEF Coming

\* A queue with room takes an event: it is the last to come.
LEMMA ComingGrows ==
    ASSUME NEW sent \in Seq(Message), NEW greeting \in Seq(Message),
           NEW numbers \in Seq(1..MaxEvents), NEW k \in 1..MaxEvents,
           NEW after \in Seq(1..MaxEvents), Len(after) = Len(numbers) + 1,
           \A i \in 1..Len(numbers) : after[i] = numbers[i],
           after[Len(numbers) + 1] = k
    PROVE  Coming(sent, greeting, after) = Append(Coming(sent, greeting, numbers), Updated(k))
<1>1. PICK w \in Nat, b \in Nat, q \in Nat :
         w = Len(sent) /\ b = Len(greeting) /\ q = Len(numbers)
    BY LenProperties
<1>2. PICK all : all = Coming(sent, greeting, numbers)
    OBVIOUS
<1>3. /\ all \in Seq(Message) /\ Len(all) = w + b + q
      /\ \A i \in 1..w : all[i] = sent[i]
      /\ \A i \in 1..b : all[w + i] = greeting[i]
      /\ \A i \in 1..q : all[w + b + i] = Updated(numbers[i])
    <2>1. /\ Coming(sent, greeting, numbers) \in Seq(Message)
          /\ Len(Coming(sent, greeting, numbers)) = Len(sent) + Len(greeting) + Len(numbers)
          /\ \A i \in 1..Len(sent) : Coming(sent, greeting, numbers)[i] = sent[i]
          /\ \A i \in 1..Len(greeting) :
                Coming(sent, greeting, numbers)[Len(sent) + i] = greeting[i]
          /\ \A i \in 1..Len(numbers) :
                Coming(sent, greeting, numbers)[Len(sent) + Len(greeting) + i]
                   = Updated(numbers[i])
        BY ComingIs
    <2>2. QED
        BY <1>1, <1>2, <2>1
<1>4. PICK more : more = Coming(sent, greeting, after)
    OBVIOUS
<1>5. /\ more \in Seq(Message) /\ Len(more) = w + b + (q + 1)
      /\ \A i \in 1..w : more[i] = sent[i]
      /\ \A i \in 1..b : more[w + i] = greeting[i]
      /\ \A i \in 1..(q + 1) : more[w + b + i] = Updated(after[i])
    <2>1. /\ Coming(sent, greeting, after) \in Seq(Message)
          /\ Len(Coming(sent, greeting, after)) = Len(sent) + Len(greeting) + Len(after)
          /\ \A i \in 1..Len(sent) : Coming(sent, greeting, after)[i] = sent[i]
          /\ \A i \in 1..Len(greeting) :
                Coming(sent, greeting, after)[Len(sent) + i] = greeting[i]
          /\ \A i \in 1..Len(after) :
                Coming(sent, greeting, after)[Len(sent) + Len(greeting) + i]
                   = Updated(after[i])
        BY ComingIs
    <2>2. QED
        BY <1>1, <1>4, <2>1
<1>6. PICK grown : grown = Append(all, Updated(k))
    OBVIOUS
<1>7. /\ grown \in Seq(Message) /\ Len(grown) = w + b + (q + 1)
      /\ \A i \in 1..(w + b + q) : grown[i] = all[i]
      /\ grown[w + b + (q + 1)] = Updated(k)
    <2>1. Updated(k) \in Message
        BY UpdatedIs
    <2>2. /\ grown \in Seq(Message) /\ Len(grown) = Len(all) + 1
          /\ \A i \in 1..Len(all) : grown[i] = all[i]
          /\ grown[Len(all) + 1] = Updated(k)
        BY <1>3, <1>6, <2>1, AppendProperties
    <2>3. Len(all) = w + b + q /\ (w + b + q) + 1 = w + b + (q + 1)
        BY <1>3
    <2>4. QED
        BY <2>2, <2>3
<1>8. ASSUME NEW i \in 1..(w + b + (q + 1))
      PROVE  more[i] = grown[i]
    <2>1. CASE i \in 1..w
        <3>1. i \in 1..(w + b + q)
            BY <2>1
        <3>2. QED
            BY <1>3, <1>5, <1>7, <2>1, <3>1
    <2>2. ASSUME NEW j \in 1..b, i = w + j
          PROVE  more[i] = grown[i]
        <3>1. w + j \in 1..(w + b + q)
            OBVIOUS
        <3>2. QED
            BY <1>3, <1>5, <1>7, <2>2, <3>1
    <2>3. ASSUME NEW j \in 1..(q + 1), i = w + b + j
          PROVE  more[i] = grown[i]
        <3>1. CASE j = q + 1
            <4>1. more[i] = Updated(after[q + 1]) /\ grown[i] = Updated(k)
                BY <1>5, <1>7, <2>3, <3>1
            <4>2. QED
                BY <1>1, <4>1
        <3>2. CASE j # q + 1
            <4>1. j \in 1..q /\ w + b + j \in 1..(w + b + q)
                BY <3>2
            <4>2. more[i] = Updated(after[j]) /\ after[j] = numbers[j]
                BY <1>1, <1>5, <2>3, <4>1
            <4>3. grown[i] = Updated(numbers[j])
                BY <1>3, <1>7, <2>3, <4>1
            <4>4. QED
                BY <4>2, <4>3
        <3>3. QED
            BY <3>1, <3>2
    <2>4. q + 1 \in Nat
        OBVIOUS
    <2>5. \/ i \in 1..w
          \/ \E j \in 1..b : i = w + j
          \/ \E j \in 1..(q + 1) : i = w + b + j
        BY <2>4, Places
    <2>6. QED
        BY <2>1, <2>2, <2>3, <2>5, Zenon
<1>9. Len(more) = Len(grown) /\ \A i \in 1..Len(more) : more[i] = grown[i]
    BY <1>5, <1>7, <1>8
<1>10. more = grown
    BY <1>5, <1>7, <1>9, SeqEqual
<1>11. QED
    BY <1>2, <1>4, <1>6, <1>10

\* One sequence of messages is another one without one of its updates, and with
\* the update of number k at its end.
DropsOne(all, less, k) ==
    /\ all \in Seq(Message) /\ less \in Seq(Message) /\ Len(less) = Len(all)
    /\ \E p \in 1..Len(all) :
          /\ IsUpdate(all[p])
          /\ \A i \in 1..Len(all) :
                less[i] = IF i < p THEN all[i]
                          ELSE IF i < Len(all) THEN all[i + 1]
                          ELSE Updated(k)

\* A full queue takes an event: the first of the queue is not to come any more.
LEMMA ComingDrops ==
    ASSUME NEW sent \in Seq(Message), NEW greeting \in Seq(Message),
           NEW numbers \in Seq(1..MaxEvents), numbers # <<>>, NEW k \in 1..MaxEvents,
           NEW after \in Seq(1..MaxEvents), Len(after) = Len(numbers),
           \A i \in 1..(Len(numbers) - 1) : after[i] = numbers[i + 1],
           after[Len(numbers)] = k
    PROVE  DropsOne(Coming(sent, greeting, numbers), Coming(sent, greeting, after), k)
<1>1. PICK w \in Nat, b \in Nat, q \in Nat :
         w = Len(sent) /\ b = Len(greeting) /\ q = Len(numbers)
    BY LenProperties
<1>2. q >= 1
    BY <1>1, EmptySeq
<1>3. PICK all : all = Coming(sent, greeting, numbers)
    OBVIOUS
<1>4. /\ all \in Seq(Message) /\ Len(all) = w + b + q
      /\ \A i \in 1..w : all[i] = sent[i]
      /\ \A i \in 1..b : all[w + i] = greeting[i]
      /\ \A i \in 1..q : all[w + b + i] = Updated(numbers[i])
    <2>1. /\ Coming(sent, greeting, numbers) \in Seq(Message)
          /\ Len(Coming(sent, greeting, numbers)) = Len(sent) + Len(greeting) + Len(numbers)
          /\ \A i \in 1..Len(sent) : Coming(sent, greeting, numbers)[i] = sent[i]
          /\ \A i \in 1..Len(greeting) :
                Coming(sent, greeting, numbers)[Len(sent) + i] = greeting[i]
          /\ \A i \in 1..Len(numbers) :
                Coming(sent, greeting, numbers)[Len(sent) + Len(greeting) + i]
                   = Updated(numbers[i])
        BY ComingIs
    <2>2. QED
        BY <1>1, <1>3, <2>1
<1>5. PICK less : less = Coming(sent, greeting, after)
    OBVIOUS
<1>6. /\ less \in Seq(Message) /\ Len(less) = w + b + q
      /\ \A i \in 1..w : less[i] = sent[i]
      /\ \A i \in 1..b : less[w + i] = greeting[i]
      /\ \A i \in 1..q : less[w + b + i] = Updated(after[i])
    <2>1. /\ Coming(sent, greeting, after) \in Seq(Message)
          /\ Len(Coming(sent, greeting, after)) = Len(sent) + Len(greeting) + Len(after)
          /\ \A i \in 1..Len(sent) : Coming(sent, greeting, after)[i] = sent[i]
          /\ \A i \in 1..Len(greeting) :
                Coming(sent, greeting, after)[Len(sent) + i] = greeting[i]
          /\ \A i \in 1..Len(after) :
                Coming(sent, greeting, after)[Len(sent) + Len(greeting) + i]
                   = Updated(after[i])
        BY ComingIs
    <2>2. QED
        BY <1>1, <1>5, <2>1
<1>7. PICK p \in Nat : p = w + b + 1
    OBVIOUS
<1>8. p \in 1..(w + b + q) /\ IsUpdate(all[p])
    <2>1. p \in 1..(w + b + q) /\ 1 \in 1..q
        BY <1>2, <1>7
    <2>2. all[p] = Updated(numbers[1])
        BY <1>4, <1>7, <2>1
    <2>3. numbers[1] \in 1..MaxEvents
        BY <1>1, <2>1, ElementOfSeq
    <2>4. QED
        BY <2>1, <2>2, <2>3, UpdatedIs
<1>9. ASSUME NEW i \in 1..(w + b + q)
      PROVE  /\ i < p => less[i] = all[i]
             /\ ~(i < p) /\ i < w + b + q => less[i] = all[i + 1]
             /\ ~(i < p) /\ ~(i < w + b + q) => less[i] = Updated(k)
    <2>1. CASE i \in 1..w
        <3>1. i < p
            BY <1>7, <2>1
        <3>2. QED
            BY <1>4, <1>6, <2>1, <3>1
    <2>2. ASSUME NEW j \in 1..b, i = w + j
          PROVE  i < p /\ less[i] = all[i]
        <3>1. i < p
            BY <1>7, <2>2
        <3>2. less[w + j] = greeting[j] /\ all[w + j] = greeting[j]
            BY <1>4, <1>6
        <3>3. QED
            BY <2>2, <3>1, <3>2
    <2>3. ASSUME NEW j \in 1..q, i = w + b + j
          PROVE  /\ ~(i < p)
                 /\ i < w + b + q => less[i] = all[i + 1]
                 /\ ~(i < w + b + q) => less[i] = Updated(k)
        <3>1. ~(i < p) /\ less[i] = Updated(after[j])
            BY <1>6, <1>7, <2>3, SMTT(30)
        <3>2. CASE j = q
            <4>1. ~(i < w + b + q)
                BY <2>3, <3>2
            <4>2. QED
                BY <1>1, <3>1, <3>2, <4>1
        <3>3. CASE j # q
            <4>1. j \in 1..(q - 1) /\ j + 1 \in 1..q /\ i + 1 = w + b + (j + 1) /\ i < w + b + q
                BY <2>3, <3>3
            <4>2. after[j] = numbers[j + 1] /\ all[i + 1] = Updated(numbers[j + 1])
                BY <1>1, <1>4, <4>1
            <4>3. QED
                BY <3>1, <4>1, <4>2
        <3>4. QED
            BY <3>2, <3>3
    <2>4. \/ i \in 1..w
          \/ \E j \in 1..b : i = w + j
          \/ \E j \in 1..q : i = w + b + j
        BY Places
    <2>5. QED
        BY <2>1, <2>2, <2>3, <2>4, Zenon
<1>10. \A i \in 1..(w + b + q) :
          less[i] = IF i < p THEN all[i] ELSE IF i < w + b + q THEN all[i + 1] ELSE Updated(k)
    BY <1>9
<1>11. \E r \in 1..Len(all) :
          /\ IsUpdate(all[r])
          /\ \A i \in 1..Len(all) :
                less[i] = IF i < r THEN all[i]
                          ELSE IF i < Len(all) THEN all[i + 1] ELSE Updated(k)
    BY <1>4, <1>8, <1>10
<1>12. Len(less) = Len(all)
    BY <1>4, <1>6
<1>13. DropsOne(all, less, k)
    BY <1>4, <1>6, <1>11, <1>12 DEF DropsOne
<1>14. QED
    BY <1>3, <1>5, <1>13

-----------------------------------------------------------------------------
(***************************************************************************)
(* The invariant is inductive.                                             *)
(***************************************************************************)
\* Messages of the types are of the kinds TypeOK names.
LEMMA MessageKinds ==
    ASSUME NEW sent \in Seq(Message)
    PROVE  \A i \in DOMAIN sent : sent[i].event \in {"ready", "sync_required", "updated"}
<1>1. \A i \in DOMAIN sent : sent[i] \in Message
    BY LenProperties, ElementOfSeq
<1>2. \A m \in Message : m.event \in {"ready", "sync_required", "updated"}
    BY DEF Message
<1>3. QED
    BY <1>1, <1>2

\* ToCome is of wire, backlog and queue.
LEMMA WhatIsToCome == ToCome = Coming(wire, backlog, queue)
BY DEF ToCome, Coming, MessagesOf

\* The parts of the invariant, at hand where a step is looked at
LEMMA InvParts ==
    ASSUME IInv
    PROVE  /\ TypeOK /\ HistoryIsRecent
           /\ Latest \in 0..MaxEvents /\ Latest \in Nat /\ published \in Nat /\ born \in Nat
           /\ wire \in Seq(Message) /\ backlog \in Seq(Message)
           /\ queue \in Seq(1..MaxEvents)
           /\ got \in Nat /\ overflowed \in BOOLEAN
<1>1. TypeOK
    BY DEF IInv, StreamTyped
<1>2. Latest \in 0..MaxEvents
    BY <1>1, LatestTyped
<1>3. published \in Nat /\ born \in Nat /\ Latest \in Nat
    BY <1>1, <1>2, BoundAssumption DEF TypeOK
<1>4. QED
    BY <1>1, <1>2, <1>3 DEF IInv, StreamTyped, TypeOK

\* The empty sequence is of every type and below every limit.
LEMMA Nothing ==
    /\ <<>> \in Seq(1..MaxEvents) /\ <<>> \in Seq(Message)
    /\ Len(<<>>) = 0
    /\ Len(<<>>) <= HistoryLimit /\ Len(<<>>) <= QueueLimit /\ Len(<<>>) <= WireLimit
    /\ \A i \in DOMAIN <<>> : <<>>[i].event \in {"ready", "sync_required", "updated"}
<1>1. Len(<<>>) = 0 /\ DOMAIN <<>> = {}
    BY EmptySeq
<1>2. QED
    BY <1>1, EmptySeq, LimitAssumption, BoundAssumption

\* Init establishes the invariant.
LEMMA StreamInitInv == Init => IInv
<1> SUFFICES ASSUME Init PROVE IInv
    OBVIOUS
<1>1. 0 \in 0..MaxEvents /\ 0 \in 0..0 /\ 0 \in Nat
    BY BoundAssumption
<1>2. published \in 0..MaxEvents /\ born \in 0..published /\ seq \in 0..MaxEvents
    BY <1>1 DEF Init
<1>3. TypeOK
    BY <1>2, Nothing DEF Init, TypeOK
<1>4. StreamTyped
    BY <1>1, <1>3, Nothing DEF Init, StreamTyped
<1>5. HistoryIsRecent
    BY Nothing DEF Init, HistoryIsRecent, Latest
<1>6. Delivers
    BY DEF Init, Delivers
<1>7. QED
    BY <1>4, <1>5, <1>6 DEF IInv

\* A step that leaves the connection, its messages and the events alone leaves
\* what is to come in order.
LEMMA SameConnection ==
    ASSUME Delivers, UNCHANGED <<published, born, linked, queue, backlog, wire, got, overflowed>>
    PROVE  Delivers'
<1>1. Latest' = Latest /\ ToCome' = ToCome
    BY DEF Latest, ToCome
<1>2. QED
    BY <1>1 DEF Delivers

\* What is retained is recent as long as nothing is published.
LEMMA SameHistory ==
    ASSUME HistoryIsRecent, UNCHANGED bus
    PROVE  HistoryIsRecent'
BY DEF HistoryIsRecent, bus, Latest

\* A poll of the list touches neither bus nor connection.
LEMMA PollInv == IInv /\ (PollTimer \/ PollArrives) => IInv'
<1> SUFFICES ASSUME IInv, PollTimer \/ PollArrives PROVE IInv'
    OBVIOUS
<1>1. TypeOK'
    <2>1. CASE PollTimer
        BY <2>1 DEF PollTimer, IInv, StreamTyped, TypeOK, bus
    <2>2. CASE PollArrives
        BY <2>2 DEF PollArrives, IInv, StreamTyped, TypeOK, bus
    <2>3. QED
        BY <2>1, <2>2
<1>2. UNCHANGED <<bus, linked, queue, backlog, wire, got, overflowed>>
    BY DEF PollTimer, PollArrives
<1>3. StreamTyped'
    BY <1>1, <1>2 DEF IInv, StreamTyped
<1>4. HistoryIsRecent'
    BY <1>2, SameHistory DEF IInv
<1>5. Delivers'
    BY <1>2, SameConnection DEF IInv, bus
<1>6. QED
    BY <1>3, <1>4, <1>5 DEF IInv

\* A connection that is closed leaves nothing to come.
LEMMA StreamCloseInv == IInv /\ (Disconnect \/ Restart) => IInv'
<1> SUFFICES ASSUME IInv, Disconnect \/ Restart PROVE IInv'
    OBVIOUS
<1>1. /\ <<>> \in Seq(1..MaxEvents) /\ <<>> \in Seq(Message)
      /\ Len(<<>>) <= HistoryLimit /\ Len(<<>>) <= QueueLimit /\ Len(<<>>) <= WireLimit
      /\ \A i \in DOMAIN <<>> : <<>>[i].event \in {"ready", "sync_required", "updated"}
    BY Nothing
<1>2. /\ linked' = FALSE /\ queue' = <<>> /\ backlog' = <<>> /\ wire' = <<>>
      /\ UNCHANGED <<published, client, got, overflowed>>
    BY DEF Disconnect, Restart, Closed, bus
<1>3. CASE Disconnect
    <2>1. UNCHANGED bus
        BY <1>3 DEF Disconnect
    <2>2. TypeOK'
        BY <1>1, <1>2, <2>1
           DEF IInv, StreamTyped, TypeOK, bus, client
    <2>3. StreamTyped'
        BY <1>1, <1>2, <2>2 DEF IInv, StreamTyped
    <2>4. HistoryIsRecent'
        BY <2>1, SameHistory DEF IInv
    <2>5. Delivers'
        BY <1>2 DEF Delivers
    <2>6. QED
        BY <2>3, <2>4, <2>5 DEF IInv
<1>4. CASE Restart
    <2>1. born' = published /\ history' = <<>>
        BY <1>4 DEF Restart
    <2>2. TypeOK'
        <3>1. published \in 0..MaxEvents /\ published \in Nat
            BY InvParts DEF IInv, StreamTyped, TypeOK
        <3>2. born' \in 0..published
            BY <2>1, <3>1
        <3>3. QED
            BY <1>1, <1>2, <2>1, <3>2
               DEF IInv, StreamTyped, TypeOK, bus, client
    <2>3. StreamTyped'
        BY <1>1, <1>2, <2>2 DEF IInv, StreamTyped
    <2>4. Latest' = 0
        <3>1. Latest' = published - published
            BY <1>2, <2>1 DEF Latest
        <3>2. QED
            BY <3>1, InvParts
    <2>5. HistoryIsRecent'
        BY <2>1, <2>4, Nothing DEF HistoryIsRecent
    <2>6. Delivers'
        BY <1>2 DEF Delivers
    <2>7. QED
        BY <2>3, <2>5, <2>6 DEF IInv
<1>5. QED
    BY <1>3, <1>4

\* The greeting of a new connection is in order.
LEMMA ConnectInv == IInv /\ Connect => IInv'
<1> SUFFICES ASSUME IInv, Connect PROVE IInv'
    OBVIOUS
<1>1. <<>> \in Seq(1..MaxEvents) /\ <<>> \in Seq(Message) /\ Len(<<>>) <= QueueLimit
    BY Nothing
<1>2. /\ linked' = TRUE /\ queue' = <<>> /\ backlog' = ToSend(seq)
      /\ overflowed' = FALSE
      /\ UNCHANGED <<bus, wire, client>>
    BY DEF Connect
<1>3. wire = <<>>
    BY DEF Connect, IInv, Delivers
<1>4. got' = From(seq)
    BY DEF Connect, From
<1>5. seq \in Nat
    BY BoundAssumption DEF IInv, StreamTyped, TypeOK
<1>6. /\ ToSend(seq) \in Seq(Message) /\ From(seq) \in 0..Latest
      /\ InOrder(ToSend(seq), From(seq), Latest, FALSE)
    <2>1. TypeOK /\ HistoryIsRecent
        BY InvParts
    <2>2. QED
        BY <1>5, <2>1, GreetingOrderly DEF InOrder
<1>7. TypeOK'
    BY <1>1, <1>2 DEF IInv, StreamTyped, TypeOK, bus, client
<1>8. StreamTyped'
    <2>1. From(seq) \in Nat
        BY <1>6, InvParts
    <2>2. QED
        BY <1>2, <1>4, <1>6, <1>7, <2>1 DEF IInv, StreamTyped
<1>9. HistoryIsRecent'
    BY <1>2, SameHistory DEF IInv
<1>10. Delivers'
    <2>1. Latest' = Latest
        BY <1>2 DEF Latest, bus
    <2>2. ToCome' = Coming(wire', backlog', queue')
        BY DEF ToCome, Coming, MessagesOf
    <2>3. ToCome' = ToSend(seq)
        BY <1>2, <1>3, <1>6, <2>2, ComingFresh
    <2>4. got' <= Latest
        BY <1>4, <1>6, InvParts
    <2>5. QED
        BY <1>2, <1>4, <1>6, <2>1, <2>3, <2>4 DEF Delivers
<1>11. QED
    BY <1>8, <1>9, <1>10 DEF IInv

\* Sending moves a message, and what is to come stays.
LEMMA SendInv == IInv /\ Send => IInv'
<1> SUFFICES ASSUME IInv, Send PROVE IInv'
    OBVIOUS
<1>1. UNCHANGED <<bus, linked, client, got, overflowed>> /\ Len(wire) < WireLimit
    BY DEF Send
<1>2. /\ wire' \in Seq(Message) /\ Len(wire') = Len(wire) + 1
      /\ backlog' \in Seq(Message)
      /\ queue' \in Seq(1..MaxEvents) /\ Len(queue') <= QueueLimit
      /\ Coming(wire', backlog', queue') = Coming(wire, backlog, queue)
    <2>1. Len(queue) <= QueueLimit /\ Len(queue) \in Nat
        BY InvParts, LenProperties DEF TypeOK
    <2>2. CASE backlog # <<>>
        <3>1. wire' = Append(wire, Head(backlog)) /\ backlog' = Tail(backlog) /\ queue' = queue
            BY <2>2 DEF Send
        <3>2. Head(backlog) \in Message
            BY <2>2, InvParts, Splitting
        <3>3. Len(wire') = Len(wire) + 1
            BY <3>1, <3>2, InvParts, AppendProperties
        <3>4. QED
            BY <2>1, <2>2, <3>1, <3>3, InvParts, SendingKeeps
    <2>3. CASE backlog = <<>>
        <3>1. /\ queue # <<>> /\ wire' = Append(wire, Updated(Head(queue)))
              /\ queue' = Tail(queue) /\ backlog' = backlog
            BY <2>3 DEF Send
        <3>2. Updated(Head(queue)) \in Message
            BY <3>1, InvParts, QueueSplits, UpdatedIs
        <3>3. Len(wire') = Len(wire) + 1
            BY <3>1, <3>2, InvParts, AppendProperties
        <3>4. Len(Tail(queue)) = Len(queue) - 1
            BY <3>1, InvParts, HeadTailProperties
        <3>5. Len(queue') <= QueueLimit
            BY <2>1, <3>1, <3>4, LimitAssumption
        <3>6. QED
            BY <2>3, <3>1, <3>3, <3>5, InvParts, SendingKeeps
    <2>4. QED
        BY <2>2, <2>3
<1>3. Len(wire') <= WireLimit
    BY <1>1, <1>2, InvParts, LenProperties, BoundAssumption
<1>4. TypeOK'
    <2>1. \A i \in DOMAIN wire' : wire'[i].event \in {"ready", "sync_required", "updated"}
        BY <1>2, MessageKinds
    <2>2. QED
        BY <1>1, <1>2, <1>3, <2>1 DEF IInv, StreamTyped, TypeOK, bus, client
<1>5. StreamTyped'
    BY <1>1, <1>2, <1>4 DEF IInv, StreamTyped
<1>6. HistoryIsRecent'
    BY <1>1, SameHistory DEF IInv
<1>7. Delivers'
    <2>1. Latest' = Latest
        BY <1>1 DEF Latest, bus
    <2>2. ToCome' = Coming(wire', backlog', queue')
        BY DEF ToCome, Coming, MessagesOf
    <2>3. ToCome' = ToCome
        BY <1>2, <2>2, WhatIsToCome
    <2>4. linked
        BY DEF Send
    <2>5. QED
        BY <1>1, <2>1, <2>3, <2>4 DEF IInv, Delivers
<1>8. QED
    BY <1>5, <1>6, <1>7 DEF IInv

\* The first of what is to come arrives: an update is of the number after what
\* the client got, as far as nothing was lost.
LEMMA ReceiveInv == IInv /\ Receive => IInv'
<1> SUFFICES ASSUME IInv, Receive PROVE IInv'
    OBVIOUS
<1>1. PICK message : message = Head(wire)
    OBVIOUS
<1>2. /\ wire # <<>> /\ wire' = Tail(wire)
      /\ UNCHANGED <<bus, linked, queue, backlog, overflowed>>
    BY DEF Receive
<1>3. /\ IsUpdate(message) =>
            /\ seq' = Larger(seq, message.seq) /\ known' = known \cup {born + message.seq}
            /\ got' = message.seq /\ polling' = polling
      /\ ~IsUpdate(message) =>
            /\ seq' = Larger(seq, message.latest)
            /\ polling' = (polling \/ message.event = "sync_required" \/ message.sync)
            /\ known' = known /\ got' = got
    BY <1>1 DEF Receive
<1>4. message \in Message
    BY <1>1, <1>2, InvParts, Splitting
<1>5. linked /\ got <= Latest /\ InOrder(ToCome, got, Latest, overflowed)
    BY <1>2 DEF IInv, Delivers
<1>6. PICK all : all = ToCome
    OBVIOUS
<1>7. /\ all \in Seq(Message) /\ all # <<>> /\ Head(all) = message
      /\ Tail(wire) \in Seq(Message)
      /\ Coming(wire', backlog', queue') = Tail(all)
    <2>1. Coming(wire, backlog, queue) \in Seq(Message)
        BY InvParts, ComingIs
    <2>2. /\ Tail(wire) \in Seq(Message)
          /\ Coming(wire, backlog, queue) # <<>>
          /\ Head(Coming(wire, backlog, queue)) = Head(wire)
          /\ Coming(Tail(wire), backlog, queue) = Tail(Coming(wire, backlog, queue))
        BY <1>2, InvParts, ReceivingTakes
    <2>3. QED
        BY <1>1, <1>2, <1>6, <2>1, <2>2, WhatIsToCome
<1>8. PICK n \in 0..Len(all) : Ascending(all, n, got, Latest, overflowed)
    BY <1>5, <1>6 DEF InOrder
<1>9. /\ n > 0 => /\ ~IsUpdate(message)
                  /\ n - 1 \in 0..Len(Tail(all))
                  /\ Ascending(Tail(all), n - 1, got, Latest, overflowed)
      /\ n = 0 => /\ IsUpdate(message)
                  /\ got < message.seq /\ message.seq <= Latest
                  /\ Ascending(Tail(all), 0, message.seq, Latest, overflowed)
    BY <1>7, <1>8, InvParts, OrderlyTail
<1>10. n \in Nat /\ (n > 0 \/ n = 0)
    BY <1>7, <1>8, LenProperties
<1>11. /\ IsUpdate(message) => message.seq \in 1..MaxEvents /\ message.seq <= Latest
       /\ ~IsUpdate(message) => message.latest \in 0..MaxEvents
    BY <1>4, <1>9, <1>10, UpdateIs
<1>12. seq' \in 0..MaxEvents
    <2>1. seq \in 0..MaxEvents
        BY InvParts DEF TypeOK
    <2>2. \A k \in 1..MaxEvents : k \in 0..MaxEvents
        BY BoundAssumption
    <2>3. QED
        BY <1>3, <1>11, <2>1, <2>2 DEF Larger
<1>13. known' \subseteq 1..published
    <2>1. known \subseteq 1..published
        BY InvParts DEF TypeOK
    <2>2. CASE IsUpdate(message)
        <3>1. born + message.seq \in 1..published
            BY <1>11, <2>2, InvParts, BoundAssumption, SMTT(30) DEF Latest
        <3>2. QED
            BY <1>3, <2>1, <2>2, <3>1
    <2>3. QED
        BY <1>3, <2>1, <2>2
<1>14. polling' \in BOOLEAN
    <2>1. polling \in BOOLEAN
        BY InvParts DEF TypeOK
    <2>2. QED
        BY <1>3, <2>1
<1>15. Len(Tail(wire)) <= WireLimit
    <2>1. Len(Tail(wire)) = Len(wire) - 1 /\ Len(wire) \in Nat
        BY <1>2, InvParts, HeadTailProperties, LenProperties
    <2>2. Len(wire) <= WireLimit
        BY InvParts DEF TypeOK
    <2>3. QED
        BY <2>1, <2>2, BoundAssumption
<1>16. TypeOK'
    <2>1. \A i \in DOMAIN wire' : wire'[i].event \in {"ready", "sync_required", "updated"}
        BY <1>2, <1>7, MessageKinds
    <2>2. QED
        BY <1>2, <1>12, <1>13, <1>14, <1>15, <2>1 DEF IInv, StreamTyped, TypeOK, bus
<1>17. StreamTyped'
    <2>1. got' \in Nat
        <3>1. \A k \in 1..MaxEvents : k \in Nat
            BY BoundAssumption
        <3>2. QED
            BY <1>3, <1>11, <3>1, InvParts
    <2>2. QED
        BY <1>2, <1>7, <1>16, <2>1 DEF IInv, StreamTyped
<1>18. HistoryIsRecent'
    BY <1>2, SameHistory DEF IInv
<1>19. Delivers'
    <2>1. Latest' = Latest /\ linked' = linked /\ overflowed' = overflowed
        BY <1>2 DEF Latest, bus
    <2>2. ToCome' = Coming(wire', backlog', queue')
        BY DEF ToCome, Coming, MessagesOf
    <2>3. ToCome' = Tail(all)
        BY <1>7, <2>2
    <2>4. got' <= Latest /\ InOrder(Tail(all), got', Latest, overflowed)
        <3>1. CASE n > 0
            BY <1>3, <1>5, <1>9, <3>1 DEF InOrder
        <3>2. CASE n = 0
            <4>1. 0 \in 0..Len(Tail(all))
                BY <1>7, HeadTailProperties, LenProperties
            <4>2. got' = message.seq /\ message.seq <= Latest
                  /\ Ascending(Tail(all), 0, got', Latest, overflowed)
                BY <1>3, <1>9, <3>2
            <4>3. QED
                BY <4>1, <4>2 DEF InOrder
        <3>3. QED
            BY <1>10, <3>1, <3>2
    <2>5. QED
        BY <1>5, <2>1, <2>3, <2>4 DEF Delivers
<1>20. QED
    BY <1>17, <1>18, <1>19 DEF IInv

\* An event is published: the history retains it, and with a connection it is
\* the last to come.
LEMMA PublishInv == IInv /\ Publish => IInv'
<1> SUFFICES ASSUME IInv, Publish PROVE IInv'
    OBVIOUS
<1>1. /\ published < MaxEvents /\ published' = published + 1
      /\ history' = Remembered(history, Latest + 1)
      /\ linked => /\ queue' = Offered(queue, Latest + 1)
                   /\ overflowed' = (overflowed \/ Len(queue) = QueueLimit)
      /\ ~linked => queue' = queue /\ overflowed' = overflowed
      /\ UNCHANGED <<born, linked, backlog, wire, client, got>>
    BY DEF Publish
<1>2. Latest + 1 \in 1..MaxEvents /\ Latest' = Latest + 1
    <2>1. published \in Nat /\ born \in 0..published /\ MaxEvents \in Nat
        BY InvParts, BoundAssumption DEF TypeOK
    <2>2. QED
        BY <1>1, <2>1 DEF Latest
<1>3. PICK k \in 1..MaxEvents : k = Latest + 1
    BY <1>2
<1>4. PICK h \in Nat : h = Len(history)
    BY InvParts, LenProperties DEF TypeOK
<1>5. PICK q \in Nat : q = Len(queue)
    BY InvParts, LenProperties
<1>6. /\ history' \in Seq(1..MaxEvents) /\ Len(history') <= HistoryLimit /\ history' # <<>>
      /\ h < HistoryLimit => /\ Len(history') = h + 1
                             /\ \A i \in 1..h : history'[i] = history[i]
                             /\ history'[h + 1] = k
      /\ h = HistoryLimit => /\ Len(history') = h
                             /\ \A i \in 1..(h - 1) : history'[i] = history[i + 1]
                             /\ history'[h] = k
    <2> DEFINE S == 1..MaxEvents
    <2>1. history \in Seq(S) /\ Len(history) <= HistoryLimit /\ k \in S
        BY InvParts DEF TypeOK
    <2>2. history' = IF Len(history) < HistoryLimit THEN Append(history, k)
                     ELSE Append(Tail(history), k)
        BY <1>1, <1>3 DEF Remembered
    <2>3. HistoryLimit \in Nat \ {0}
        BY LimitAssumption
    <2> HIDE DEF S
    <2>4. /\ history' \in Seq(S) /\ Len(history') <= HistoryLimit /\ history' # <<>>
          /\ Len(history) < HistoryLimit =>
                /\ Len(history') = Len(history) + 1
                /\ \A i \in 1..Len(history) : history'[i] = history[i]
                /\ history'[Len(history) + 1] = k
          /\ Len(history) = HistoryLimit =>
                /\ Len(history') = Len(history)
                /\ \A i \in 1..(Len(history) - 1) : history'[i] = history[i + 1]
                /\ history'[Len(history)] = k
        BY <2>1, <2>2, <2>3, Buffered
    <2>5. QED
        BY <1>4, <2>4 DEF S
<1>7. HistoryIsRecent'
    <2>1. /\ h <= Latest /\ h <= HistoryLimit
          /\ \A i \in 1..h : history[i] = (Latest - h) + i
        BY <1>4, InvParts DEF HistoryIsRecent, TypeOK
    <2>2. CASE h < HistoryLimit
        <3>1. Len(history') = h + 1 /\ h + 1 <= Latest + 1
            BY <1>6, <2>1, <2>2, InvParts
        <3>2. ASSUME NEW i \in 1..(h + 1)
              PROVE  history'[i] = ((Latest + 1) - (h + 1)) + i
            <4>1. CASE i = h + 1
                BY <1>3, <1>6, <2>2, <4>1, InvParts
            <4>2. CASE i # h + 1
                <5>1. i \in 1..h
                    BY <4>2
                <5>2. history'[i] = history[i] /\ history[i] = (Latest - h) + i
                    BY <1>6, <2>1, <2>2, <5>1
                <5>3. QED
                    BY <5>2, InvParts
            <4>3. QED
                BY <4>1, <4>2
        <3>3. QED
            BY <1>2, <1>6, <3>1, <3>2 DEF HistoryIsRecent
    <2>3. CASE h = HistoryLimit
        <3>1. Len(history') = h /\ h <= Latest + 1
            BY <1>6, <2>1, <2>3, InvParts
        <3>2. ASSUME NEW i \in 1..h
              PROVE  history'[i] = ((Latest + 1) - h) + i
            <4>1. CASE i = h
                BY <1>3, <1>6, <2>3, <4>1, InvParts
            <4>2. CASE i # h
                <5>1. i \in 1..(h - 1) /\ i + 1 \in 1..h
                    BY <4>2
                <5>2. history'[i] = history[i + 1] /\ history[i + 1] = (Latest - h) + (i + 1)
                    BY <1>6, <2>1, <2>3, <5>1
                <5>3. QED
                    BY <5>2, InvParts
            <4>3. QED
                BY <4>1, <4>2
        <3>3. QED
            BY <1>2, <1>6, <3>1, <3>2 DEF HistoryIsRecent
    <2>4. h < HistoryLimit \/ h = HistoryLimit
        BY <2>1, LimitAssumption
    <2>5. QED
        BY <2>2, <2>3, <2>4
<1>8. linked =>
         /\ queue' \in Seq(1..MaxEvents) /\ Len(queue') <= QueueLimit
         /\ q < QueueLimit => /\ Len(queue') = q + 1
                              /\ \A i \in 1..q : queue'[i] = queue[i]
                              /\ queue'[q + 1] = k
         /\ q = QueueLimit => /\ Len(queue') = q
                              /\ \A i \in 1..(q - 1) : queue'[i] = queue[i + 1]
                              /\ queue'[q] = k
    <2> SUFFICES ASSUME linked
                 PROVE  /\ queue' \in Seq(1..MaxEvents) /\ Len(queue') <= QueueLimit
                        /\ q < QueueLimit => /\ Len(queue') = q + 1
                                             /\ \A i \in 1..q : queue'[i] = queue[i]
                                             /\ queue'[q + 1] = k
                        /\ q = QueueLimit => /\ Len(queue') = q
                                             /\ \A i \in 1..(q - 1) : queue'[i] = queue[i + 1]
                                             /\ queue'[q] = k
        OBVIOUS
    <2> DEFINE S == 1..MaxEvents
    <2>1. queue \in Seq(S) /\ Len(queue) <= QueueLimit /\ k \in S
        BY InvParts DEF TypeOK
    <2>2. queue' = IF Len(queue) < QueueLimit THEN Append(queue, k)
                   ELSE Append(Tail(queue), k)
        BY <1>1, <1>3 DEF Offered
    <2>3. QueueLimit \in Nat \ {0}
        BY LimitAssumption
    <2> HIDE DEF S
    <2>4. /\ queue' \in Seq(S) /\ Len(queue') <= QueueLimit
          /\ Len(queue) < QueueLimit =>
                /\ Len(queue') = Len(queue) + 1
                /\ \A i \in 1..Len(queue) : queue'[i] = queue[i]
                /\ queue'[Len(queue) + 1] = k
          /\ Len(queue) = QueueLimit =>
                /\ Len(queue') = Len(queue)
                /\ \A i \in 1..(Len(queue) - 1) : queue'[i] = queue[i + 1]
                /\ queue'[Len(queue)] = k
        BY <2>1, <2>2, <2>3, Buffered
    <2>5. QED
        BY <1>5, <2>4 DEF S
<1>9. q <= QueueLimit /\ QueueLimit \in Nat /\ QueueLimit >= 1
    BY <1>5, InvParts, LimitAssumption DEF TypeOK
<1>10. StreamTyped'
    <2>1. queue' \in Seq(1..MaxEvents) /\ Len(queue') <= QueueLimit
        BY <1>1, <1>5, <1>8, <1>9, InvParts
    <2>2. published' \in 0..MaxEvents /\ born' \in 0..published'
        <3>1. published \in Nat /\ born \in 0..published /\ MaxEvents \in Nat
            BY InvParts, BoundAssumption DEF TypeOK
        <3>2. QED
            BY <1>1, <3>1
    <2>3. known' \subseteq 1..published'
        <3>1. known \subseteq 1..published /\ published \in Nat /\ known' = known
            BY <1>1, InvParts DEF TypeOK, client
        <3>2. 1..published \subseteq 1..(published + 1)
            BY <3>1
        <3>3. QED
            BY <1>1, <3>1, <3>2
    <2>4. overflowed' \in BOOLEAN
        BY <1>1, InvParts
    <2>5. TypeOK'
        BY <1>1, <1>6, <2>1, <2>2, <2>3, <2>4 DEF IInv, StreamTyped, TypeOK, client
    <2>6. QED
        BY <1>1, <2>5 DEF IInv, StreamTyped
<1>11. ToCome' = Coming(wire, backlog, queue')
    BY <1>1 DEF ToCome, Coming, MessagesOf
<1>12. Delivers'
    <2>1. CASE ~linked
        BY <1>1, <2>1 DEF IInv, Delivers
    <2>2. CASE linked
        <3>1. PICK all : all = Coming(wire, backlog, queue)
            OBVIOUS
        <3>2. all \in Seq(Message)
            BY <3>1, InvParts, ComingIs
        <3>3. got <= Latest /\ InOrder(all, got, Latest, overflowed)
            BY <2>2, <3>1, WhatIsToCome DEF IInv, Delivers
        <3>4. PICK n \in 0..Len(all) : Ascending(all, n, got, Latest, overflowed)
            BY <3>3 DEF InOrder
        <3>5. linked' /\ got' <= Latest'
            BY <1>1, <1>2, <2>2, <3>3, InvParts, SMTT(30)
        <3>6. CASE q < QueueLimit
            <4>1. overflowed' = overflowed
                BY <1>1, <1>5, <1>9, <2>2, <3>6, InvParts, SMTT(30)
            <4>2. ToCome' = Append(all, Updated(k))
                <5>1. /\ queue' \in Seq(1..MaxEvents) /\ Len(queue') = Len(queue) + 1
                      /\ \A i \in 1..Len(queue) : queue'[i] = queue[i]
                      /\ queue'[Len(queue) + 1] = k
                    BY <1>5, <1>8, <2>2, <3>6
                <5>2. Coming(wire, backlog, queue')
                         = Append(Coming(wire, backlog, queue), Updated(k))
                    BY <5>1, InvParts, ComingGrows, ZenonT(60)
                <5>3. QED
                    BY <1>11, <3>1, <5>2
            <4>3. /\ n \in 0..Len(Append(all, Updated(Latest + 1)))
                  /\ Ascending(Append(all, Updated(Latest + 1)), n, got, Latest + 1, overflowed)
                BY <1>2, <3>2, <3>3, <3>4, InvParts, OrderlyAppend
            <4>4. InOrder(ToCome', got, Latest + 1, overflowed)
                BY <1>3, <4>2, <4>3 DEF InOrder
            <4>5. QED
                BY <1>1, <1>2, <3>5, <4>1, <4>4 DEF Delivers
        <3>7. CASE q = QueueLimit
            <4>1. overflowed' = TRUE
                BY <1>1, <1>5, <2>2, <3>7
            <4>2. queue # <<>>
                <5>1. Len(queue) >= 1 /\ Len(<<>>) = 0
                    BY <1>5, <1>9, <3>7, Nothing
                <5>2. QED
                    BY <5>1
            <4>3. PICK less : less = Coming(wire, backlog, queue')
                OBVIOUS
            <4>4. DropsOne(all, less, k)
                <5>1. /\ queue' \in Seq(1..MaxEvents) /\ Len(queue') = Len(queue)
                      /\ \A i \in 1..(Len(queue) - 1) : queue'[i] = queue[i + 1]
                      /\ queue'[Len(queue)] = k
                    BY <1>5, <1>8, <2>2, <3>7
                <5>2. DropsOne(Coming(wire, backlog, queue), Coming(wire, backlog, queue'), k)
                    BY <4>2, <5>1, InvParts, ComingDrops
                <5>3. QED
                    BY <3>1, <4>3, <5>2
            <4>5. PICK p \in 1..Len(all) :
                     /\ IsUpdate(all[p])
                     /\ \A i \in 1..Len(all) :
                           less[i] = IF i < p THEN all[i]
                                     ELSE IF i < Len(all) THEN all[i + 1]
                                     ELSE Updated(Latest + 1)
                BY <1>3, <4>4 DEF DropsOne
            <4>6. Ascending(less, n, got, Latest + 1, TRUE)
                <5>1. less \in Seq(Message) /\ Len(less) = Len(all)
                    BY <4>4 DEF DropsOne
                <5>2. QED
                    BY <1>2, <3>2, <3>3, <3>4, <4>5, <5>1, InvParts, OrderlyDrop
            <4>7. InOrder(ToCome', got, Latest + 1, TRUE)
                <5>1. Len(less) = Len(all)
                    BY <4>4 DEF DropsOne
                <5>2. QED
                    BY <1>11, <4>3, <4>6, <5>1 DEF InOrder
            <4>8. QED
                BY <1>1, <1>2, <3>5, <4>1, <4>7 DEF Delivers
        <3>8. q < QueueLimit \/ q = QueueLimit
            BY <1>9
        <3>9. QED
            BY <3>6, <3>7, <3>8
    <2>3. QED
        BY <2>1, <2>2
<1>13. QED
    BY <1>7, <1>10, <1>12 DEF IInv

-----------------------------------------------------------------------------
LEMMA StreamNextInv == IInv /\ [Next]_vars => IInv'
<1> SUFFICES ASSUME IInv, [Next]_vars PROVE IInv'
    OBVIOUS
<1>1. CASE Next
    BY <1>1, PublishInv, ConnectInv, SendInv, ReceiveInv, StreamCloseInv, PollInv DEF Next
<1>2. CASE UNCHANGED vars
    <2>1. TypeOK' /\ StreamTyped'
        BY <1>2 DEF IInv, StreamTyped, TypeOK, vars, bus, client
    <2>2. HistoryIsRecent'
        BY <1>2, SameHistory DEF IInv, vars
    <2>3. Delivers'
        BY <1>2, SameConnection DEF IInv, vars, bus
    <2>4. QED
        BY <2>1, <2>2, <2>3 DEF IInv
<1>3. QED
    BY <1>1, <1>2

\* The types, the history and the order of what is to come, in every state
THEOREM StreamInvariant == Spec => []IInv
BY StreamInitInv, StreamNextInv, PTL DEF Spec

LEMMA StreamInvTyped == IInv => TypeOK
BY DEF IInv, StreamTyped

\* Every variable of bus, handler and client stays in its range, the history
\* and the queue within their limits: publish_source_updated and
\* _offer_to_queue drop before they add.
THEOREM StreamTypeOK == Spec => []TypeOK
BY StreamInvTyped, StreamInvariant, PTL

\* Updates of an orderly connection are handed over once.
LEMMA OrderHandsOver == IInv => HandedOverOnce
<1> SUFFICES ASSUME IInv, linked PROVE HandedOverOnce
    BY DEF HandedOverOnce
<1>1. PICK all : all = ToCome
    OBVIOUS
<1>2. all \in Seq(Message)
    BY <1>1, InvParts, ComingIs, WhatIsToCome
<1>3. PICK k \in Nat : k = Len(all)
    BY <1>2, LenProperties
<1>4. got <= Latest /\ InOrder(all, got, Latest, overflowed)
    BY <1>1 DEF IInv, Delivers
<1>5. PICK n \in 0..k : Ascending(all, n, got, Latest, overflowed)
    BY <1>3, <1>4 DEF InOrder
<1>6. Updates = (n + 1)..k
    <2>1. Updates = {i \in 1..k : IsUpdate(all[i])}
        BY <1>1, <1>2, <1>3, LenProperties DEF Updates
    <2>2. \A i \in 1..k : i \in 1..n \/ i \in (n + 1)..k
        BY <1>3
    <2>3. \A i \in 1..n : ~IsUpdate(all[i])
        BY <1>5 DEF Ascending
    <2>4. \A i \in (n + 1)..k : IsUpdate(all[i]) /\ i \in 1..k
        BY <1>3, <1>5 DEF Ascending
    <2>5. QED
        BY <2>1, <2>2, <2>3, <2>4
<1>7. ASSUME ~overflowed
      PROVE  {all[i].seq : i \in (n + 1)..k} = (got + 1)..Latest
    <2>1. k = n + (Latest - got) /\ \A i \in (n + 1)..k : all[i].seq = got + (i - n)
        BY <1>3, <1>5, <1>7 DEF Ascending
    <2>2. \A i \in (n + 1)..k : got + (i - n) \in (got + 1)..Latest
        BY <1>4, <2>1, InvParts, SMTT(30)
    <2>3. ASSUME NEW m \in (got + 1)..Latest
          PROVE  n + (m - got) \in (n + 1)..k /\ got + ((n + (m - got)) - n) = m
        <3>1. got \in Nat /\ Latest \in Nat /\ n \in Nat /\ k = n + (Latest - got)
            BY <2>1, InvParts
        <3>2. QED
            BY <3>1
    <2>4. \A m \in (got + 1)..Latest : \E i \in (n + 1)..k : m = all[i].seq
        BY <2>1, <2>3
    <2>5. \A i \in (n + 1)..k : all[i].seq \in (got + 1)..Latest
        BY <2>1, <2>2
    <2>6. QED
        BY <2>4, <2>5
<1>8. /\ \A i, j \in (n + 1)..k : i < j => all[i].seq < all[j].seq
      /\ \A i \in (n + 1)..k : all[i].seq > got
    <2>1. /\ \A i, j \in (n + 1)..k : i < j => all[i].seq < all[j].seq
          /\ \A i \in (n + 1)..k : got < all[i].seq
        BY <1>3, <1>5 DEF Ascending
    <2>2. QED
        BY <2>1
<1>9. QED
    BY <1>1, <1>6, <1>7, <1>8 DEF HandedOverOnce

\* One connection hands every event over once and in order: what replay_since
\* put before the queue and what publish_source_updated put into it meet without
\* a gap or a duplicate, whatever the limits of history and queue.
THEOREM HandsOverOnce == Spec => []HandedOverOnce
BY StreamInvariant, OrderHandsOver, PTL

-----------------------------------------------------------------------------
(***************************************************************************)
(* The lines of a chart.  A fold over the rows gives every value of x a    *)
(* bucket.                                                                 *)
(***************************************************************************)
PivotStep(p, k, buckets) == Pivoted(buckets, p.rows[k], p.encoding, p.series)
Pivots == INSTANCE Recursion WITH Step <- PivotStep

LEMMA BucketsAre ==
    ASSUME NEW rows, NEW encoding, NEW series, NEW n \in Nat, DOMAIN rows = 1..n
    PROVE  Buckets(rows, encoding, series)
             = Pivots!Folded([rows |-> rows, encoding |-> encoding, series |-> series], NoBuckets, n, n)
<1>1. Buckets(rows, encoding, series)
        = (CHOOSE g : g = [s \in SUBSET DOMAIN rows |->
              IF s = {} THEN NoBuckets
              ELSE Pivoted(g[s \ {Max(s)}], rows[Max(s)], encoding, series)])[DOMAIN rows]
    BY Zenon DEF Buckets, FoldLeft, MapThenFoldSet
<1>2. PICK p : p = [rows |-> rows, encoding |-> encoding, series |-> series]
    OBVIOUS
<1>3. p.rows = rows /\ p.encoding = encoding /\ p.series = series
    BY <1>2
<1>4. Buckets(rows, encoding, series) = Pivots!Folded(p, NoBuckets, n, n)
    <2>1. Buckets(rows, encoding, series)
            = (CHOOSE g : g = [s \in SUBSET DOMAIN rows |->
                  IF s = {} THEN NoBuckets
                  ELSE Pivoted(g[s \ {Max(s)}], rows[Max(s)], encoding, series)])[1..n]
        BY <1>1, Zenon
    <2>2. Pivots!Folded(p, NoBuckets, n, n)
            = (CHOOSE g : g = [s \in SUBSET (1..n) |->
                  IF s = {} THEN NoBuckets
                  ELSE Pivoted(g[s \ {Max(s)}], rows[Max(s)], encoding, series)])[1..n]
        BY <1>3, ZenonT(60) DEF Pivots!Folded, Pivots!Folds, Pivots!Max, Max, PivotStep
    <2>3. QED
        BY <2>1, <2>2, Zenon
<1>5. QED
    BY <1>2, <1>4

XOf(rows, k) == KeyOf(Cell(rows[k], "x"))
SeriesOf(rows, k) == KeyOf(Cell(rows[k], "s"))
OtherPlace(rows, j, k) == XOf(rows, j) # XOf(rows, k) \/ SeriesOf(rows, j) # SeriesOf(rows, k)

Reads(encoding) == encoding["x"] = "x" /\ encoding["y"] = "y" /\ encoding["series"] = "s"
OwnColumns(series) == "x" \notin series /\ "" \notin series

\* What a bucket has for a series after m rows: the last measurement
LastAt(rows, m, key, s, cell) ==
    \/ /\ cell = "null"
       /\ \A k \in 1..m : ~(XOf(rows, k) = key /\ SeriesOf(rows, k) = s)
    \/ \E k \in 1..m :
          /\ XOf(rows, k) = key /\ SeriesOf(rows, k) = s
          /\ cell = CoerceNumeric(Cell(rows[k], "y"))
          /\ \A j \in 1..m : j > k => OtherPlace(rows, j, k)

PivotOf(rows, series, m, buckets) ==
    /\ DOMAIN buckets = {XOf(rows, k) : k \in 1..m}
    /\ \A key \in DOMAIN buckets :
          /\ DOMAIN buckets[key] = series \cup {"x"}
          /\ KeyOf(buckets[key]["x"]) = key
          /\ \A s \in series : LastAt(rows, m, key, s, buckets[key][s])

LEMMA HoldsOn ==
    ASSUME NEW rows, NEW m \in Nat, NEW key, NEW s, NEW cell, LastAt(rows, m, key, s, cell),
           XOf(rows, m + 1) # key \/ SeriesOf(rows, m + 1) # s
    PROVE  LastAt(rows, m + 1, key, s, cell)
BY OneMore DEF LastAt, OtherPlace

LEMMA HoldsLast ==
    ASSUME NEW rows, NEW m \in Nat
    PROVE  LastAt(rows, m + 1, XOf(rows, m + 1), SeriesOf(rows, m + 1),
                 CoerceNumeric(Cell(rows[m + 1], "y")))
<1>1. m + 1 \in 1..(m + 1) /\ \A j \in 1..(m + 1) : ~(j > m + 1)
    OBVIOUS
<1>2. QED
    BY <1>1 DEF LastAt

LEMMA PivotKeeps ==
    ASSUME NEW rows, NEW series, NEW m \in Nat, NEW buckets, PivotOf(rows, series, m, buckets),
           NEW encoding, Reads(encoding), OwnColumns(series),
           SeriesOf(rows, m + 1) \in series \cup {""}
    PROVE  PivotOf(rows, series, m + 1, Pivoted(buckets, rows[m + 1], encoding, series))
<1> DEFINE row == rows[m + 1]
           new == XOf(rows, m + 1)
           fresh == [column \in series \cup {"x"} |->
                        IF column \in series THEN "null" ELSE Cell(row, "x")]
           existing == IF new \in DOMAIN buckets THEN buckets[new] ELSE fresh
           value == SeriesOf(rows, m + 1)
           bucket == IF value = "" THEN existing
                     ELSE [existing EXCEPT ![value] = CoerceNumeric(Cell(row, "y"))]
           after == [k \in DOMAIN buckets \cup {new} |-> IF k = new THEN bucket ELSE buckets[k]]
<1>1. Pivoted(buckets, row, encoding, series) = after
    BY Zenon DEF Pivoted, XOf, SeriesOf, Reads
<1>2. /\ DOMAIN existing = series \cup {"x"}
      /\ KeyOf(existing["x"]) = new
      /\ \A s \in series : LastAt(rows, m, new, s, existing[s])
    <2>1. CASE new \in DOMAIN buckets
        BY <2>1 DEF PivotOf
    <2>2. CASE new \notin DOMAIN buckets
        <3>1. existing = fresh
            BY <2>2
        <3>2. DOMAIN fresh = series \cup {"x"} /\ fresh["x"] = Cell(row, "x")
              /\ \A s \in series : fresh[s] = "null"
            BY DEF OwnColumns
        <3>3. \A k \in 1..m : XOf(rows, k) # new
            BY <2>2 DEF PivotOf
        <3>4. \A s \in series : LastAt(rows, m, new, s, "null")
            BY <3>3 DEF LastAt
        <3>5. QED
            <4> HIDE DEF existing, fresh
            <4> QED
                BY <3>1, <3>2, <3>4 DEF XOf
    <2>3. QED
        BY <2>1, <2>2
<1>3. /\ DOMAIN bucket = series \cup {"x"}
      /\ KeyOf(bucket["x"]) = new
      /\ \A s \in series : LastAt(rows, m + 1, new, s, bucket[s])
    <2> HIDE DEF existing, row, new, value
    <2>1. CASE value = ""
        <3>1. \A s \in series : s # value
            BY <2>1 DEF OwnColumns
        <3>2. \A s \in series : LastAt(rows, m + 1, new, s, existing[s])
            BY <1>2, <3>1, HoldsOn DEF value
        <3>3. QED
            BY <1>2, <2>1, <3>2
    <2>2. CASE value # ""
        <3>1. value \in series
            BY <2>2 DEF value
        <3>2. /\ DOMAIN bucket = DOMAIN existing
              /\ bucket[value] = CoerceNumeric(Cell(row, "y"))
              /\ \A column \in DOMAIN existing : column # value => bucket[column] = existing[column]
            BY <1>2, <2>2, <3>1
        <3> HIDE DEF bucket
        <3>3. bucket["x"] = existing["x"]
            BY <1>2, <3>1, <3>2 DEF OwnColumns
        <3>4. LastAt(rows, m + 1, new, value, bucket[value])
            BY <3>2, HoldsLast DEF new, value, row
        <3>5. ASSUME NEW s \in series, s # value
              PROVE  LastAt(rows, m + 1, new, s, bucket[s])
            <4>1. bucket[s] = existing[s] /\ LastAt(rows, m, new, s, existing[s])
                BY <1>2, <3>2, <3>5
            <4>2. QED
                BY <3>5, <4>1, HoldsOn DEF value
        <3>6. QED
            BY <1>2, <3>2, <3>3, <3>4, <3>5
    <2>3. QED
        BY <2>1, <2>2
<1>4. DOMAIN after = {XOf(rows, k) : k \in 1..(m + 1)}
    <2>1. DOMAIN after = {XOf(rows, k) : k \in 1..m} \cup {new}
        BY DEF PivotOf
    <2>2. QED
        <3> HIDE DEF after
        <3>1. \A k \in 1..m : k \in 1..(m + 1)
            BY OneMore
        <3>2. \A k \in 1..(m + 1) : k \in 1..m \/ k = m + 1
            BY OneMore
        <3>3. m + 1 \in 1..(m + 1)
            BY OneMore
        <3>4. QED
            BY <2>1, <3>1, <3>2, <3>3, Zenon
<1>5. ASSUME NEW key \in DOMAIN after
      PROVE  /\ DOMAIN after[key] = series \cup {"x"}
             /\ KeyOf(after[key]["x"]) = key
             /\ \A s \in series : LastAt(rows, m + 1, key, s, after[key][s])
    <2>1. CASE key = new
        <3> HIDE DEF bucket, new
        <3>1. after[key] = bucket
            BY <2>1
        <3>2. QED
            BY <1>3, <2>1, <3>1
    <2>2. CASE key # new
        <3>1. key \in DOMAIN buckets /\ after[key] = buckets[key]
            BY <2>2
        <3>2. /\ DOMAIN buckets[key] = series \cup {"x"}
              /\ KeyOf(buckets[key]["x"]) = key
              /\ \A s \in series : LastAt(rows, m, key, s, buckets[key][s])
            BY <3>1 DEF PivotOf
        <3>3. \A s \in series : LastAt(rows, m + 1, key, s, buckets[key][s])
            BY <2>2, <3>2, HoldsOn
        <3>4. QED
            BY <3>1, <3>2, <3>3
    <2>3. QED
        BY <2>1, <2>2
<1>6. QED
    <2> HIDE DEF after
    <2> QED
        BY <1>1, <1>4, <1>5 DEF PivotOf

LEMMA PivotSteps ==
    ASSUME NEW p, NEW n \in Nat
    PROVE  /\ Pivots!Folded(p, NoBuckets, n, 0) = NoBuckets
           /\ \A m \in Nat : m + 1 <= n =>
                 Pivots!Folded(p, NoBuckets, n, m + 1) = PivotStep(p, m + 1, Pivots!Folded(p, NoBuckets, n, m))
BY Pivots!FoldSteps, ZenonT(60)

LEMMA PivotIs ==
    ASSUME NEW rows, NEW series, NEW n \in Nat, DOMAIN rows = 1..n,
           NEW encoding, Reads(encoding), OwnColumns(series),
           \A k \in 1..n : SeriesOf(rows, k) \in series \cup {""}
    PROVE  PivotOf(rows, series, n, Buckets(rows, encoding, series))
<1> DEFINE of == [rows |-> rows, encoding |-> encoding, series |-> series]
<1>1. PICK buckets : buckets = [m \in Nat |-> Pivots!Folded(of, NoBuckets, n, m)]
    OBVIOUS
<1>2. /\ Buckets(rows, encoding, series) = buckets[n] /\ buckets[0] = NoBuckets
      /\ \A m \in Nat : m + 1 <= n =>
            buckets[m + 1] = Pivoted(buckets[m], rows[m + 1], encoding, series)
    <2>1. of.rows = rows /\ of.encoding = encoding /\ of.series = series
        OBVIOUS
    <2>2. Buckets(rows, encoding, series) = buckets[n]
        BY <1>1, BucketsAre
    <2>3. PICK p : p = of
        OBVIOUS
    <2>4. /\ p.rows = rows /\ p.encoding = encoding /\ p.series = series
          /\ buckets = [m \in Nat |-> Pivots!Folded(p, NoBuckets, n, m)]
        BY <1>1, <2>1, <2>3
    <2> HIDE DEF of
    <2>5. /\ Pivots!Folded(p, NoBuckets, n, 0) = NoBuckets
          /\ \A m \in Nat : m + 1 <= n =>
                Pivots!Folded(p, NoBuckets, n, m + 1) = PivotStep(p, m + 1, Pivots!Folded(p, NoBuckets, n, m))
        BY PivotSteps, Zenon
    <2>6. \A m, before : PivotStep(p, m, before) = Pivoted(before, rows[m], encoding, series)
        BY <2>4, Zenon DEF PivotStep
    <2>7. ASSUME NEW m \in Nat, m + 1 <= n
          PROVE  buckets[m + 1] = Pivoted(buckets[m], rows[m + 1], encoding, series)
        <3>1. /\ buckets[m] = Pivots!Folded(p, NoBuckets, n, m)
              /\ buckets[m + 1] = Pivots!Folded(p, NoBuckets, n, m + 1)
            BY <2>4, OneMore, Zenon
        <3>2. QED
            BY <2>5, <2>6, <2>7, <3>1, Zenon
    <2>8. buckets[0] = NoBuckets
        BY <2>4, <2>5
    <2>9. QED
        BY <2>2, <2>7, <2>8
<1> HIDE DEF of
<1> DEFINE S == {m \in Nat : PivotOf(rows, series, m, buckets[m])}
<1>3. 0 \in S
    <2>1. DOMAIN NoBuckets = {} /\ {XOf(rows, k) : k \in {}} = {}
        BY DEF NoBuckets
    <2>2. QED
        BY <1>2, <2>1, NoneFirst DEF PivotOf
<1>4. ASSUME NEW m \in Nat, m + 1 <= n, m \in S
      PROVE  m + 1 \in S
    <2>1. PivotOf(rows, series, m, buckets[m]) /\ SeriesOf(rows, m + 1) \in series \cup {""}
        BY <1>4, UpTo
    <2>2. PivotOf(rows, series, m + 1, buckets[m + 1])
        BY <1>2, <1>4, <2>1, PivotKeeps
    <2>3. m + 1 \in Nat
        BY OneMore, Zenon
    <2>4. QED
        BY <2>2, <2>3, Zenon
<1>5. n \in S
    <2> HIDE DEF S
    <2> QED
        BY <1>3, <1>4, InductionTo
<1>6. QED
    BY <1>2, <1>5

-----------------------------------------------------------------------------
(***************************************************************************)
(* Cells, rows and charts.                                                 *)
(***************************************************************************)
Measurements == {"#1", "'2'", "'x'", "null", "undefined"}
Labels == {"'2024-05-01'", "'east'", "'x'", "null", "undefined"}

LEMMA RowIs ==
    ASSUME NEW row \in QueryRows
    PROVE  /\ DOMAIN row \subseteq {"x", "y", "s"}
           /\ Cell(row, "x") \in Labels /\ Cell(row, "s") \in Labels
           /\ Cell(row, "y") \in Measurements
BY DEF QueryRows, Cell, Labels, Measurements

LEMMA NumbersAre ==
    ASSUME NEW cell \in Measurements
    PROVE  /\ NumericLike(cell) =>
                 CoerceNumeric(cell) \in Numbers /\ KeyOf(CoerceNumeric(cell)) = KeyOf(cell)
           /\ cell \in NoCell => CoerceNumeric(cell) = "null"
           /\ "null" \notin Numbers
BY DEF Measurements, NumericLike, Numbers, NumberTexts, CoerceNumeric, KeyOf, NoCell

LEMMA NamesAre ==
    ASSUME NEW cell \in Labels
    PROVE  KeyOf(cell) = "" <=> cell \in NoCell
BY DEF Labels, KeyOf, NoCell

LEMMA LinesAre ==
    ASSUME NEW w \in Charts, w.type = "Chart.Line"
    PROVE  /\ DOMAIN w.encoding \in {{"x", "y"}, {"x", "y", "series"}}
           /\ w.encoding["x"] = "x" /\ w.encoding["y"] \in {"y", "z"}
           /\ "series" \in DOMAIN w.encoding =>
                 w.encoding["y"] = "y" /\ w.encoding["series"] = "s"
BY DEF Charts, Chart

LEMMA PiesAre ==
    ASSUME NEW w \in Charts, w.type = "Chart.Pie"
    PROVE  DOMAIN w.encoding = {"label", "value"} /\ w.encoding["value"] = "y"
BY DEF Charts, Chart

LEMMA LimitIs == \A w \in Charts : w.limit \in Nat
BY DEF Charts, Chart

\* The fields of a chart that is ready, where they are inferred from its rows
LEMMA ReadyIs ==
    ASSUME NEW w, w.declared = Undeclared, NEW rows, StateOf(w, rows) = "ready",
           w.type # "Chart.Table", NEW channel \in DOMAIN w.encoding
    PROVE  /\ w.encoding[channel] \in UNION {DOMAIN rows[k] : k \in DOMAIN rows}
           /\ ChannelAllows(channel,
                  InferFieldType({Cell(rows[k], w.encoding[channel]) : k \in DOMAIN rows}))
<1>1. ResolveFields(w.declared, rows) = DeriveFields(rows)
    BY DEF ResolveFields, Undeclared
<1>2. Validated(w.type, w.encoding, w.columns, DeriveFields(rows))
    BY <1>1 DEF StateOf, ChartState
<1>3. /\ w.encoding[channel] \in DOMAIN DeriveFields(rows)
      /\ ChannelAllows(channel, DeriveFields(rows)[w.encoding[channel]])
    BY <1>2 DEF Validated
<1>4. QED
    BY <1>3 DEF DeriveFields

LEMMA ValuesAre ==
    ASSUME NEW cells, NEW channel \in {"y", "value"}, ChannelAllows(channel, InferFieldType(cells))
    PROVE  \A cell \in cells \ NoCell : NumericLike(cell)
BY DEF ChannelAllows, InferFieldType

LEMMA NamesThere ==
    ASSUME NEW cells, ChannelAllows("series", InferFieldType(cells))
    PROVE  cells \ NoCell # {}
BY DEF ChannelAllows, InferFieldType

-----------------------------------------------------------------------------
(***************************************************************************)
(* What charts show.                                                       *)
(***************************************************************************)
ChartsInv == chart \in Charts /\ dataset \in Seq(QueryRows) /\ Len(dataset) <= MaxRows

LEMMA RowsAre ==
    ASSUME ChartsInv
    PROVE  \E n \in Nat :
              /\ Len(dataset) = n /\ DOMAIN dataset = 1..n
              /\ \A k \in 1..n : dataset[k] \in QueryRows
BY DEF ChartsInv

\* A line chart that is ready, by its rows
LineReady == ChartsInv /\ chart.type = "Chart.Line" /\ ReadyByRows /\ ~NamesField

LEMMA LineReads ==
    ASSUME LineReady
    PROVE  /\ DOMAIN chart.encoding \in {{"x", "y"}, {"x", "y", "series"}}
           /\ chart.encoding["x"] = "x" /\ chart.encoding["y"] = "y"
           /\ "series" \in DOMAIN chart.encoding =>
                 /\ chart.encoding["series"] = "s"
                 /\ \E k \in DOMAIN dataset : SeriesOf(dataset, k) # ""
           /\ \A k \in Measured :
                 /\ CoerceNumeric(Cell(dataset[k], "y")) \in Numbers
                 /\ KeyOf(CoerceNumeric(Cell(dataset[k], "y"))) = KeyOf(Cell(dataset[k], "y"))
           /\ \A k \in DOMAIN dataset :
                 CoerceNumeric(Cell(dataset[k], "y")) # "null" <=> k \in Measured
<1>1. PICK n \in Nat : /\ DOMAIN dataset = 1..n
                       /\ \A k \in 1..n : dataset[k] \in QueryRows
    BY RowsAre DEF LineReady
<1>2. chart \in Charts /\ chart.type = "Chart.Line" /\ chart.declared = Undeclared
      /\ StateOf(chart, dataset) = "ready" /\ chart.type # "Chart.Table"
    BY DEF LineReady, ReadyByRows, ChartsInv
<1>3. /\ DOMAIN chart.encoding \in {{"x", "y"}, {"x", "y", "series"}}
      /\ chart.encoding["x"] = "x" /\ chart.encoding["y"] \in {"y", "z"}
      /\ "series" \in DOMAIN chart.encoding => chart.encoding["series"] = "s"
    BY <1>2, LinesAre
<1>4. /\ chart.encoding["y"] \in UNION {DOMAIN dataset[k] : k \in DOMAIN dataset}
      /\ ChannelAllows("y", InferFieldType({Cell(dataset[k], chart.encoding["y"])
                                                : k \in DOMAIN dataset}))
    <2>1. "y" \in DOMAIN chart.encoding
        BY <1>3
    <2>2. QED
        BY <1>2, <2>1, ReadyIs
<1>5. chart.encoding["y"] = "y"
    <2>1. \A k \in DOMAIN dataset : DOMAIN dataset[k] \subseteq {"x", "y", "s"}
        BY <1>1, RowIs
    <2>2. QED
        BY <1>3, <1>4, <2>1
<1>6. \A k \in DOMAIN dataset : Cell(dataset[k], "y") \in NoCell \/ NumericLike(Cell(dataset[k], "y"))
    <2>1. \A cell \in {Cell(dataset[k], "y") : k \in DOMAIN dataset} \ NoCell : NumericLike(cell)
        BY <1>4, <1>5, ValuesAre
    <2>2. QED
        BY <2>1
<1>7. \A k \in DOMAIN dataset : Cell(dataset[k], "y") \in Measurements
    BY <1>1, RowIs
<1>8. ASSUME "series" \in DOMAIN chart.encoding
      PROVE  \E k \in DOMAIN dataset : SeriesOf(dataset, k) # ""
    <2>1. ChannelAllows("series", InferFieldType({Cell(dataset[k], "s") : k \in DOMAIN dataset}))
        BY <1>2, <1>3, <1>8, ReadyIs
    <2>2. PICK k \in DOMAIN dataset : Cell(dataset[k], "s") \notin NoCell
        BY <2>1, NamesThere
    <2>3. Cell(dataset[k], "s") \in Labels
        BY <1>1, RowIs
    <2>4. QED
        BY <2>2, <2>3, NamesAre DEF SeriesOf
<1>9. QED
    BY <1>3, <1>5, <1>6, <1>7, <1>8, NumbersAre DEF Measured

\* The points that a line chart draws
Point(x, name, value) == [x |-> x, series |-> name, value |-> value]

LEMMA PointsWithoutSeries ==
    ASSUME LineReady, "series" \notin DOMAIN chart.encoding
    PROVE  Points(dataset, chart.encoding)
             = {Point(XOf(dataset, k), "y", CoerceNumeric(Cell(dataset[k], "y"))) : k \in Measured}
<1>1. Points(dataset, chart.encoding)
        = {p \in {Point(XOf(dataset, k), "y", CoerceNumeric(Cell(dataset[k], "y"))) :
                      k \in DOMAIN dataset} : p.value # "null"}
    BY LineReads DEF Points, Point, XOf
<1>2. \A x, name, value : Point(x, name, value).value = value
    BY DEF Point
<1>3. \A k \in DOMAIN dataset :
         CoerceNumeric(Cell(dataset[k], "y")) # "null" <=> k \in Measured
    BY LineReads
<1>4. Measured \subseteq DOMAIN dataset
    BY DEF Measured
<1>5. QED
    BY <1>1, <1>2, <1>3, <1>4

PointsOf(series, buckets) ==
    UNION {{Point(key, name, buckets[key][name]) : name \in series} : key \in DOMAIN buckets}

LEMMA PointsOfSeries ==
    ASSUME LineReady, "series" \in DOMAIN chart.encoding,
           NEW n \in Nat, DOMAIN dataset = 1..n
    PROVE  \E series, buckets :
              /\ series = {SeriesOf(dataset, k) : k \in 1..n} \ {""}
              /\ PivotOf(dataset, series, n, buckets)
              /\ Points(dataset, chart.encoding)
                   = {p \in PointsOf(series, buckets) : p.value # "null"}
<1>1. PICK series : series = SeriesValues(dataset, "s")
    OBVIOUS
<1>2. series = {SeriesOf(dataset, k) : k \in 1..n} \ {""}
    BY <1>1 DEF SeriesValues, SeriesOf
<1>3. Reads(chart.encoding)
    BY LineReads DEF Reads
<1>4. OwnColumns(series)
    BY <1>2 DEF OwnColumns, LineReady, NamesField, SeriesOf
<1>5. \A k \in 1..n : SeriesOf(dataset, k) \in series \cup {""}
    BY <1>2
<1>6. PICK buckets : buckets = Buckets(dataset, chart.encoding, series)
    OBVIOUS
<1>7. PivotOf(dataset, series, n, buckets)
    BY <1>3, <1>4, <1>5, <1>6, PivotIs
<1>8. series # {}
    BY <1>2, LineReads
<1>9. Points(dataset, chart.encoding)
        = {p \in UNION {{Point(KeyOf(buckets[key][chart.encoding["x"]]), name, buckets[key][name]) :
                             name \in series} : key \in DOMAIN buckets} : p.value # "null"}
    <2>1. series = SeriesValues(dataset, chart.encoding["series"])
        BY <1>1, <1>3 DEF Reads
    <2>2. QED
        BY <1>6, <1>8, <2>1 DEF Points, Point
<1>10. \A key \in DOMAIN buckets : KeyOf(buckets[key][chart.encoding["x"]]) = key
    BY <1>3, <1>7 DEF PivotOf, Reads
<1>11. UNION {{Point(KeyOf(buckets[key][chart.encoding["x"]]), name, buckets[key][name]) :
                  name \in series} : key \in DOMAIN buckets} = PointsOf(series, buckets)
    BY <1>10 DEF PointsOf
<1>12. QED
    BY <1>2, <1>7, <1>9, <1>11

\* A measurement is drawn where it was made, if no later one takes its place.
DrawnAt(p, k) ==
    /\ p = Point(XOf(dataset, k), IF "series" \in DOMAIN chart.encoding
                                  THEN SeriesOf(dataset, k) ELSE "y",
                 CoerceNumeric(Cell(dataset[k], "y")))
Counted == {k \in Measured : Place(dataset[k]).series # "" /\ LastAtPlace(k)}

LEMMA PlacesAre ==
    ASSUME NEW k
    PROVE  /\ "series" \in DOMAIN chart.encoding =>
                 Place(dataset[k]) = [x |-> XOf(dataset, k), series |-> SeriesOf(dataset, k)]
           /\ "series" \notin DOMAIN chart.encoding =>
                 Place(dataset[k]) = [x |-> XOf(dataset, k), series |-> "y"]
BY DEF Place, XOf, SeriesOf

LEMMA PlacesApart ==
    ASSUME "series" \in DOMAIN chart.encoding, NEW j, NEW k
    PROVE  /\ Place(dataset[k]).series = SeriesOf(dataset, k)
           /\ Place(dataset[j]) # Place(dataset[k]) <=> OtherPlace(dataset, j, k)
<1>1. /\ Place(dataset[j]) = [x |-> XOf(dataset, j), series |-> SeriesOf(dataset, j)]
      /\ Place(dataset[k]) = [x |-> XOf(dataset, k), series |-> SeriesOf(dataset, k)]
    BY PlacesAre
<1>2. QED
    BY <1>1 DEF OtherPlace

LEMMA DrawnAre ==
    ASSUME LineReady
    PROVE  /\ \A k \in Counted : \E p \in Points(dataset, chart.encoding) : DrawnAt(p, k)
           /\ \A p \in Points(dataset, chart.encoding) : \E k \in Counted : DrawnAt(p, k)
<1>1. CASE "series" \notin DOMAIN chart.encoding
    <2>1. Counted = Measured
        <3>1. ASSUME NEW k
              PROVE  Place(dataset[k]).series # ""
            <4>1. Place(dataset[k]) = [x |-> XOf(dataset, k), series |-> "y"]
                BY <1>1, PlacesAre
            <4>2. QED
                BY <4>1
        <3>2. \A k : LastAtPlace(k)
            BY <1>1 DEF LastAtPlace
        <3>3. QED
            BY <3>1, <3>2 DEF Counted
    <2>2. QED
        BY <1>1, <2>1, PointsWithoutSeries DEF DrawnAt
<1>2. CASE "series" \in DOMAIN chart.encoding
    <2>1. PICK n \in Nat : DOMAIN dataset = 1..n
        BY RowsAre DEF LineReady
    <2>2. PICK series, buckets :
              /\ series = {SeriesOf(dataset, k) : k \in 1..n} \ {""}
              /\ PivotOf(dataset, series, n, buckets)
              /\ Points(dataset, chart.encoding)
                   = {p \in PointsOf(series, buckets) : p.value # "null"}
        BY <1>2, <2>1, PointsOfSeries
    <2>3. \A k : k \in Counted <=>
             /\ k \in 1..n /\ SeriesOf(dataset, k) \in series
             /\ CoerceNumeric(Cell(dataset[k], "y")) # "null"
             /\ \A j \in 1..n : j > k => OtherPlace(dataset, j, k)
        <3>1. \A k \in 1..n : SeriesOf(dataset, k) \in series <=> SeriesOf(dataset, k) # ""
            BY <2>2
        <3>2. \A k \in 1..n : LastAtPlace(k) <=> \A j \in 1..n : j > k => OtherPlace(dataset, j, k)
            BY <1>2, <2>1, PlacesApart, Zenon DEF LastAtPlace
        <3>3. \A k \in 1..n : Place(dataset[k]).series = SeriesOf(dataset, k)
            BY <1>2, PlacesApart
        <3>4. \A k \in 1..n : CoerceNumeric(Cell(dataset[k], "y")) # "null" <=> k \in Measured
            BY <2>1, LineReads
        <3>5. Measured \subseteq 1..n
            BY <2>1 DEF Measured
        <3>6. QED
            BY <3>1, <3>2, <3>3, <3>4, <3>5 DEF Counted
    <2>4. \A key \in DOMAIN buckets : \A name \in series :
             LastAt(dataset, n, key, name, buckets[key][name])
        BY <2>2 DEF PivotOf
    <2>5. ASSUME NEW k \in Counted
          PROVE  \E p \in Points(dataset, chart.encoding) : DrawnAt(p, k)
        <3> DEFINE key == XOf(dataset, k)
                   name == SeriesOf(dataset, k)
        <3>1. k \in 1..n /\ name \in series /\ key \in DOMAIN buckets
            BY <2>2, <2>3 DEF PivotOf
        <3>2. PICK j \in 1..n :
                 /\ XOf(dataset, j) = key /\ SeriesOf(dataset, j) = name
                 /\ buckets[key][name] = CoerceNumeric(Cell(dataset[j], "y"))
                 /\ \A i \in 1..n : i > j => OtherPlace(dataset, i, j)
            BY <2>4, <3>1 DEF LastAt
        <3>3. j = k
            <4>1. ~(j > k)
                BY <2>3, <3>2 DEF OtherPlace
            <4>2. ~(k > j)
                BY <3>1, <3>2 DEF OtherPlace
            <4>3. QED
                BY <3>1, <4>1, <4>2
        <3>4. Point(key, name, buckets[key][name]) \in PointsOf(series, buckets)
            BY <3>1 DEF PointsOf
        <3>5. Point(key, name, buckets[key][name]).value # "null"
            BY <2>3, <3>2, <3>3 DEF Point
        <3>6. DrawnAt(Point(key, name, buckets[key][name]), k)
            BY <1>2, <3>2, <3>3 DEF DrawnAt
        <3>7. QED
            BY <2>2, <3>4, <3>5, <3>6
    <2>6. ASSUME NEW p \in Points(dataset, chart.encoding)
          PROVE  \E k \in Counted : DrawnAt(p, k)
        <3>1. PICK key \in DOMAIN buckets, name \in series :
                 p = Point(key, name, buckets[key][name]) /\ buckets[key][name] # "null"
            <4>1. p \in PointsOf(series, buckets) /\ p.value # "null"
                BY <2>2
            <4>2. PICK key \in DOMAIN buckets :
                     p \in {Point(key, name, buckets[key][name]) : name \in series}
                BY <4>1 DEF PointsOf
            <4>3. PICK name \in series : p = Point(key, name, buckets[key][name])
                BY <4>2
            <4>4. buckets[key][name] # "null"
                BY <4>1, <4>3 DEF Point
            <4>5. QED
                BY <4>3, <4>4
        <3>2. PICK k \in 1..n :
                 /\ XOf(dataset, k) = key /\ SeriesOf(dataset, k) = name
                 /\ buckets[key][name] = CoerceNumeric(Cell(dataset[k], "y"))
                 /\ \A i \in 1..n : i > k => OtherPlace(dataset, i, k)
            BY <2>4, <3>1 DEF LastAt
        <3>3. k \in Counted
            BY <2>3, <3>1, <3>2
        <3>4. DrawnAt(p, k)
            BY <1>2, <3>1, <3>2 DEF DrawnAt
        <3>5. QED
            BY <3>3, <3>4
    <2>7. QED
        BY <2>5, <2>6
<1>3. QED
    BY <1>1, <1>2

LEMMA LineIs == ChartsInv => LineShowsRows
<1> SUFFICES ASSUME LineReady
             PROVE  /\ \A k \in Counted : \E p \in Points(dataset, chart.encoding) :
                          [x |-> p.x, series |-> p.series] = Place(dataset[k]) /\ p.value \in Numbers
                    /\ \A p \in Points(dataset, chart.encoding) : \E k \in Counted :
                          /\ Place(dataset[k]) = [x |-> p.x, series |-> p.series]
                          /\ KeyOf(Cell(dataset[k], "y")) = KeyOf(p.value)
    BY DEF LineShowsRows, LineReady, Counted, LineShows, ReadyByRows
<1>1. ASSUME NEW k \in Counted, NEW p, DrawnAt(p, k)
      PROVE  /\ [x |-> p.x, series |-> p.series] = Place(dataset[k])
             /\ p.value \in Numbers /\ KeyOf(Cell(dataset[k], "y")) = KeyOf(p.value)
    <2>1. k \in Measured
        BY DEF Counted
    <2>2. p.value = CoerceNumeric(Cell(dataset[k], "y"))
        BY <1>1 DEF DrawnAt, Point
    <2>3. [x |-> p.x, series |-> p.series] = Place(dataset[k])
        BY <1>1, PlacesAre DEF DrawnAt, Point
    <2>4. QED
        BY <2>1, <2>2, <2>3, LineReads
<1>2. QED
    BY <1>1, DrawnAre

LEMMA PieIs == ChartsInv => PieShowsNumbers
<1> SUFFICES ASSUME ChartsInv, chart.type = "Chart.Pie", ReadyByRows,
                    NEW cell \in PieShows(chart, dataset)
             PROVE  CoerceNumeric(cell) \in Numbers
    BY DEF PieShowsNumbers
<1>1. PICK n \in Nat : /\ DOMAIN dataset = 1..n
                       /\ \A k \in 1..n : dataset[k] \in QueryRows
    BY RowsAre
<1>2. chart \in Charts /\ chart.declared = Undeclared
      /\ StateOf(chart, dataset) = "ready" /\ chart.type # "Chart.Table"
    BY DEF ReadyByRows, ChartsInv
<1>3. DOMAIN chart.encoding = {"label", "value"} /\ chart.encoding["value"] = "y"
    BY <1>2, PiesAre
<1>4. ChannelAllows("value", InferFieldType({Cell(dataset[k], "y") : k \in DOMAIN dataset}))
    BY <1>2, <1>3, ReadyIs
<1>5. cell \in {Cell(dataset[k], "y") : k \in DOMAIN dataset} \ NoCell
    BY <1>2, <1>3 DEF PieShows
<1>6. NumericLike(cell)
    BY <1>4, <1>5, ValuesAre
<1>7. cell \in Measurements
    BY <1>1, <1>5, RowIs
<1>8. QED
    BY <1>6, <1>7, NumbersAre

-----------------------------------------------------------------------------
(***************************************************************************)
(* The rows of a table: there is an order to choose.                       *)
(***************************************************************************)
LEMMA RanksAre == \A cell \in Measurements : CompareRank(cell) \in Nat
<1>1. DOMAIN Ordered = 1..7
    BY DEF Ordered
<1>2. ASSUME NEW cell \in Measurements
      PROVE  \E k \in 1..7 : cell \in Ordered[k]
    <2>1. /\ Ordered[1] = NoCell /\ Ordered[2] = {"#1"} /\ Ordered[4] = {"'2'"}
          /\ Ordered[7] = {"'x'"}
        BY DEF Ordered
    <2>2. 1 \in 1..7 /\ 2 \in 1..7 /\ 4 \in 1..7 /\ 7 \in 1..7
        OBVIOUS
    <2>3. QED
        BY <2>1, <2>2 DEF Measurements, NoCell
<1>3. \A cell \in Measurements : CompareRank(cell) \in 1..7
    BY <1>1, <1>2, Zenon DEF CompareRank
<1>4. QED
    BY <1>3

LEMMA LeastOfTwo ==
    ASSUME NEW a \in Nat, NEW b \in Nat
    PROVE  Min({a, b}) \in Nat /\ Min({a, b}) <= b
<1>1. \E x \in {a, b} : \A y \in {a, b} : x <= y
    OBVIOUS
<1>2. Min({a, b}) \in {a, b} /\ \A y \in {a, b} : Min({a, b}) <= y
    BY <1>1, Zenon DEF Min
<1>3. QED
    BY <1>2

RankOf(rows, n) == [k \in 1..n |-> CompareRank(Cell(rows[k], "y"))]

TopRows(rows, limit, places) == [k \in 1..Min({limit, Len(rows)}) |-> rows[places[k]]]

LEMMA ProcessedAre ==
    ASSUME NEW rows, NEW n \in Nat, DOMAIN rows = 1..n, Len(rows) = n, NEW limit,
           \A k \in 1..n : CompareRank(Cell(rows[k], "y")) \in Nat
    PROVE  \E places : /\ Ordering(RankOf(rows, n), 1..n, places)
                       /\ ProcessedRows(rows, "y", limit) = TopRows(rows, limit, places)
<1> DEFINE Rank(k) == CompareRank(Cell(rows[k], "y"))
           Before(i, j) == Rank(i) < Rank(j) \/ (Rank(i) = Rank(j) /\ i < j)
           Sorts(places) == \A i, j \in DOMAIN rows : i < j => Before(places[i], places[j])
           order == CHOOSE places \in [DOMAIN rows -> DOMAIN rows] : Sorts(places)
<1>1. Cardinality(1..n) = n /\ RanksOn(RankOf(rows, n), 1..n)
    BY FirstMany DEF RankOf, RanksOn
<1>2. \A places \in [1..n -> 1..n] : Ordering(RankOf(rows, n), 1..n, places) <=> Sorts(places)
    <2>1. ASSUME NEW places \in [1..n -> 1..n], NEW i \in 1..n, NEW j \in 1..n
          PROVE  Earlier(RankOf(rows, n), places[i], places[j]) <=> Before(places[i], places[j])
        <3>1. places[i] \in 1..n /\ places[j] \in 1..n
            OBVIOUS
        <3>2. RankOf(rows, n)[places[i]] = Rank(places[i])
              /\ RankOf(rows, n)[places[j]] = Rank(places[j])
            BY <3>1 DEF RankOf
        <3>3. QED
            BY <3>2 DEF Earlier
    <2> HIDE DEF Before
    <2>2. ASSUME NEW places \in [1..n -> 1..n]
          PROVE  Ordering(RankOf(rows, n), 1..n, places)
                   <=> \A i, j \in 1..n : i < j => Earlier(RankOf(rows, n), places[i], places[j])
        BY <1>1, <2>2 DEF Ordering
    <2>3. QED
        BY <2>1, <2>2
<1>3. \E places \in [1..n -> 1..n] : Sorts(places)
    BY <1>1, <1>2, OrderExists DEF Ordering
<1>4. order \in [1..n -> 1..n] /\ Sorts(order)
    <2> HIDE DEF Sorts
    <2>1. \E places \in [DOMAIN rows -> DOMAIN rows] : Sorts(places)
        BY <1>3
    <2>2. order \in [DOMAIN rows -> DOMAIN rows] /\ Sorts(order)
        BY <2>1, Zenon
    <2>3. QED
        BY <2>2
<1>5. Ordering(RankOf(rows, n), 1..n, order)
    BY <1>2, <1>4, Zenon
<1>6. ProcessedRows(rows, "y", limit) = TopRows(rows, limit, order)
    BY Zenon DEF ProcessedRows, TopRows
<1>7. QED
    <2> HIDE DEF order
    <2> QED
        BY <1>5, <1>6

LEMMA TableIs == ChartsInv => TableShowsFirst
<1> SUFFICES ASSUME ChartsInv, chart.type = "Chart.Table", StateOf(chart, dataset) = "ready"
             PROVE  /\ Len(TableShows(chart, dataset)) = Min({chart.limit, Len(dataset)})
                    /\ \A k \in DOMAIN dataset, j \in DOMAIN TableShows(chart, dataset) :
                          CompareRank(Cell(dataset[k], "y"))
                             < CompareRank(Cell(TableShows(chart, dataset)[j], "y"))
                          => \E i \in DOMAIN TableShows(chart, dataset) :
                                TableShows(chart, dataset)[i] = dataset[k]
    BY DEF TableShowsFirst
<1>1. PICK n \in Nat : /\ Len(dataset) = n /\ DOMAIN dataset = 1..n
                       /\ \A k \in 1..n : dataset[k] \in QueryRows
    BY RowsAre
<1>2. \A k \in 1..n : CompareRank(Cell(dataset[k], "y")) \in Nat
    BY <1>1, RowIs, RanksAre
<1>3. PICK m : m = Min({chart.limit, n})
    OBVIOUS
<1>4. m \in Nat /\ m <= n
    BY <1>3, LimitIs, LeastOfTwo DEF ChartsInv
<1>5. PICK places : /\ Ordering(RankOf(dataset, n), 1..n, places)
                    /\ ProcessedRows(dataset, "y", chart.limit) = TopRows(dataset, chart.limit, places)
    BY <1>1, <1>2, ProcessedAre
<1>6. PICK shown : shown = [k \in 1..m |-> dataset[places[k]]]
    OBVIOUS
<1>7. TableShows(chart, dataset) = shown
    BY <1>1, <1>3, <1>5, <1>6 DEF TableShows, TopRows
<1>8. /\ Cardinality(1..n) = n
      /\ places \in [1..n -> 1..n]
      /\ \A i \in 1..m : i \in 1..n
    BY <1>4, <1>5, FirstMany, SMTT(30) DEF Ordering
<1>9. \A h \in 1..n : \E i \in 1..n : places[i] = h
    <2>1. HavePlaces(1..n, places)
        BY <1>5, AllHavePlaces
    <2>2. QED
        BY <1>8, <2>1 DEF HavePlaces
<1>10. Len(shown) = m
    <2>1. shown \in [1..m -> QueryRows]
        BY <1>1, <1>6, <1>8
    <2>2. QED
        BY <1>4, <2>1
<1>11. ASSUME NEW k \in 1..n, NEW j \in 1..m,
              CompareRank(Cell(dataset[k], "y")) < CompareRank(Cell(shown[j], "y"))
       PROVE  \E i \in 1..m : shown[i] = dataset[k]
    <2>1. RankOf(dataset, n) \in [1..n -> Nat]
        BY <1>2 DEF RankOf
    <2>2. PICK i \in 1..n : places[i] = k
        BY <1>9
    <2>3. shown[j] = dataset[places[j]] /\ j \in 1..n /\ places[j] \in 1..n
        BY <1>6, <1>8
    <2>4. RankOf(dataset, n)[k] < RankOf(dataset, n)[places[j]]
        BY <1>11, <2>3 DEF RankOf
    <2>5. ~ (j < i)
        <3> SUFFICES ASSUME j < i
                     PROVE  FALSE
            OBVIOUS
        <3>1. Earlier(RankOf(dataset, n), places[j], k)
            BY <1>5, <1>8, <2>2, <2>3 DEF Ordering
        <3>2. RankOf(dataset, n)[k] \in Nat /\ RankOf(dataset, n)[places[j]] \in Nat
            BY <2>1, <2>3
        <3>3. QED
            BY <2>4, <3>1, <3>2 DEF Earlier
    <2>6. i \in 1..m
        BY <1>4, <2>5
    <2>7. QED
        BY <1>6, <2>2, <2>6
<1>12. DOMAIN shown = 1..m
    BY <1>6
<1>13. QED
    BY <1>1, <1>3, <1>7, <1>10, <1>11, <1>12

-----------------------------------------------------------------------------
LEMMA ChartsInitInv == ChartsInit => ChartsInv
BY RowsBound DEF ChartsInit, ChartsInv

LEMMA ChartsNextInv == ChartsInv /\ [AddRow]_chartVars => ChartsInv'
<1> SUFFICES ASSUME ChartsInv, [AddRow]_chartVars PROVE ChartsInv'
    OBVIOUS
<1>1. CASE AddRow
    <2>1. PICK row \in QueryRows : dataset' = Append(dataset, row)
        BY <1>1 DEF AddRow
    <2>2. chart' = chart /\ Len(dataset) < MaxRows /\ MaxRows \in Nat
        BY <1>1, RowsBound DEF AddRow
    <2>3. dataset' \in Seq(QueryRows) /\ Len(dataset') = Len(dataset) + 1 /\ Len(dataset) \in Nat
        <3>1. PICK rows : rows = QueryRows
            OBVIOUS
        <3>2. dataset \in Seq(rows) /\ row \in rows
            BY <3>1 DEF ChartsInv
        <3>3. Append(dataset, row) \in Seq(rows) /\ Len(Append(dataset, row)) = Len(dataset) + 1
              /\ Len(dataset) \in Nat
            BY <3>2
        <3>4. QED
            BY <2>1, <3>1, <3>3
    <2>4. QED
        BY <2>2, <2>3 DEF ChartsInv
<1>2. CASE UNCHANGED chartVars
    BY <1>2 DEF ChartsInv, chartVars
<1>3. QED
    BY <1>1, <1>2

\* The charts and rows that there may be
THEOREM ChartsInvariant == ChartsSpec => []ChartsInv
BY ChartsInitInv, ChartsNextInv, PTL DEF ChartsSpec

LEMMA ChartsInvTyped == ChartsInv => ChartsTypeOK
BY DEF ChartsInv, ChartsTypeOK

LEMMA ChartsInvShows == ChartsInv => ChartsShowRows
BY LineIs, PieIs, TableIs DEF ChartsShowRows

\* What a chart that says it is ready shows is what its rows have, for any number
\* of rows: its lines the last measurement of each place and nothing else, its pie
\* only numbers, its table the rows that come first.
THEOREM ChartsOfRows == ChartsSpec => []ChartsShowRows
BY ChartsInvShows, ChartsInvariant, PTL

-----------------------------------------------------------------------------
(***************************************************************************)
(* What recurs on widgets                                                  *)
(***************************************************************************)
NestStep(p, n, before) == Holding(before)
Nests == INSTANCE Recursion WITH Step <- NestStep
ResolveStep(p, n, before) == ResolveLevel(n, before)
Resolves == INSTANCE Recursion WITH Step <- ResolveStep
CheckStep(p, n, before) == CheckLevel(n, before)
Checks == INSTANCE Recursion WITH Step <- CheckStep
RenderStep(p, n, before) == RenderLevel(n, before)
Renders == INSTANCE Recursion WITH Step <- RenderStep
MeansStep(p, n, before) == MeansLevel(n, before)
Means == INSTANCE Recursion WITH Step <- MeansStep
TextStep(p, k, text) == text \o Interpolated(p.tokens[k], p.data)
Filled == INSTANCE Recursion WITH Step <- TextStep

Depths == 0..Nesting

\* What a function has for the widgets inside
Inner(f, n) == IF n = 0 THEN {} ELSE f[n - 1]

LEMMA DepthRange ==
    /\ Nesting \in Nat
    /\ 0 \in Depths
    /\ \A n \in Depths : n \in Nat /\ n <= Nesting
    /\ \A n \in Depths : n # 0 => n - 1 \in Depths
BY WrapsBound DEF Nesting, Depths

LEMMA NestedSteps == \A n \in Depths : Nested[n] = Holding(Inner(Nested, n))
<1>1. Nested = Nests!Recursive(0, Nesting)
    BY Zenon DEF Nested, Nests!Recursive, Nests!Recurs, NestStep
<1>2. QED
    BY <1>1, DepthRange, Nests!RecursionSteps, ZenonT(60) DEF Depths, Inner, NestStep

LEMMA ResolvingSteps == \A n \in Depths : Resolving[n] = ResolveLevel(n, Inner(Resolving, n))
<1>1. Resolving = Resolves!Recursive(0, Nesting)
    BY Zenon DEF Resolving, Resolves!Recursive, Resolves!Recurs, ResolveStep
<1>2. QED
    BY <1>1, DepthRange, Resolves!RecursionSteps, ZenonT(60) DEF Depths, Inner, ResolveStep

LEMMA CheckedSteps == \A n \in Depths : Checked[n] = CheckLevel(n, Inner(Checked, n))
<1>1. Checked = Checks!Recursive(0, Nesting)
    BY Zenon DEF Checked, Checks!Recursive, Checks!Recurs, CheckStep
<1>2. QED
    BY <1>1, DepthRange, Checks!RecursionSteps, ZenonT(60) DEF Depths, Inner, CheckStep

LEMMA RenderingSteps == \A n \in Depths : Rendering[n] = RenderLevel(n, Inner(Rendering, n))
<1>1. Rendering = Renders!Recursive(0, Nesting)
    BY Zenon DEF Rendering, Renders!Recursive, Renders!Recurs, RenderStep
<1>2. QED
    BY <1>1, DepthRange, Renders!RecursionSteps, ZenonT(60) DEF Depths, Inner, RenderStep

LEMMA MeaningSteps == \A n \in Depths : Meaning[n] = MeansLevel(n, Inner(Meaning, n))
<1>1. Meaning = Means!Recursive(0, Nesting)
    BY Zenon DEF Meaning, Means!Recursive, Means!Recurs, MeansStep
<1>2. QED
    BY <1>1, DepthRange, Means!RecursionSteps, ZenonT(60) DEF Depths, Inner, MeansStep

-----------------------------------------------------------------------------
LEMMA SeqGrows ==
    ASSUME NEW S, NEW T, S \subseteq T
    PROVE  Seq(S) \subseteq Seq(T)
OBVIOUS

\* A sequence with something else in the place of each element
LEMMA SeqMaps ==
    ASSUME NEW S, NEW s \in Seq(S), NEW T, NEW f, DOMAIN f = DOMAIN s,
           \A k \in DOMAIN s : f[k] \in T,
           f = [k \in DOMAIN s |-> f[k]]
    PROVE  f \in Seq(T) /\ Len(f) = Len(s)
OBVIOUS

LEMMA LevelInduction ==
    ASSUME NEW S, 0 \in S, \A n \in Depths : n # 0 /\ n - 1 \in S => n \in S
    PROVE  \A n \in Depths : n \in S
<1> SUFFICES ASSUME NEW n \in Depths
             PROVE  n \in S
    OBVIOUS
<1>1. n \in Nat /\ n <= Nesting /\ Nesting \in Nat
    BY DepthRange
<1>2. \A m \in Nat : m + 1 <= n /\ m \in S => m + 1 \in S
    BY <1>1 DEF Depths
<1>3. QED
    BY <1>1, <1>2, InductionTo

LEMMA NestedGrow == \A n \in Depths : n # 0 => Nested[n - 1] \subseteq Nested[n]
<1> DEFINE S == {n \in Depths : Inner(Nested, n) \subseteq Nested[n]}
<1>1. 0 \in S
    BY DepthRange DEF Inner
<1>2. ASSUME NEW n \in Depths, n # 0, n - 1 \in S
      PROVE  n \in S
    <2>1. n - 1 \in Depths /\ Inner(Nested, n) = Nested[n - 1]
        BY <1>2 DEF Inner
    <2>2. PICK A, B : A = Inner(Nested, n - 1) /\ B = Nested[n - 1]
        OBVIOUS
    <2>3. Holding(A) = B /\ Holding(B) = Nested[n]
        BY <2>1, <2>2, NestedSteps
    <2>4. Seq(A) \subseteq Seq(B)
        BY <1>2, <2>2, SeqGrows
    <2>5. Holding(A) \subseteq Holding(B)
        BY <2>4 DEF Holding
    <2>6. QED
        BY <2>1, <2>2, <2>3, <2>5
<1>3. \A n \in Depths : n \in S
    <2> HIDE DEF S
    <2> QED
        BY <1>1, <1>2, LevelInduction
<1>4. QED
    BY <1>3 DEF Inner

\* What may be in few others may be in many.
LEMMA NestedGrows ==
    \A n \in Depths : \A m \in Depths : m <= n => Nested[m] \subseteq Nested[n]
<1> DEFINE S == {n \in Depths : \A m \in Depths : m <= n => Nested[m] \subseteq Nested[n]}
<1>1. 0 \in S
    BY DepthRange
<1>2. ASSUME NEW n \in Depths, n # 0, n - 1 \in S
      PROVE  n \in S
    <2> SUFFICES ASSUME NEW m \in Depths, m <= n
                 PROVE  Nested[m] \subseteq Nested[n]
        OBVIOUS
    <2>1. m = n \/ m <= n - 1
        BY DepthRange
    <2>2. Nested[n - 1] \subseteq Nested[n]
        BY <1>2, NestedGrow
    <2>3. QED
        BY <1>2, <2>1, <2>2
<1>3. \A n \in Depths : n \in S
    <2> HIDE DEF S
    <2> QED
        BY <1>1, <1>2, LevelInduction
<1>4. QED
    BY <1>3

\* A widget and those inside it
LEMMA WidgetsAre ==
    ASSUME NEW n \in Depths, NEW w \in Nested[n]
    PROVE  /\ w.type \in WidgetTypes /\ w.param \in Values /\ w.alias \in Aliases
           /\ w.items \in Seq(Inner(Nested, n))
           /\ w = [type |-> w.type, param |-> w.param, items |-> w.items, alias |-> w.alias]
           /\ \A k \in DOMAIN w.items :
                 n # 0 /\ n - 1 \in Depths /\ w.items[k] \in Nested[n - 1]
<1>1. w \in Holding(Inner(Nested, n))
    BY NestedSteps
<1>2. PICK A : A = Inner(Nested, n)
    OBVIOUS
<1>3. w \in [type : WidgetTypes, param : Values, items : Seq(A), alias : Aliases]
    BY <1>1, <1>2 DEF Holding
<1>4. w.items \in Seq(A) /\ \A k \in DOMAIN w.items : w.items[k] \in A
    BY <1>3
<1>5. \A k \in DOMAIN w.items : n # 0 /\ w.items[k] \in Nested[n - 1]
    BY <1>2, <1>4 DEF Inner
<1>6. QED
    BY <1>2, <1>3, <1>4, <1>5, DepthRange

-----------------------------------------------------------------------------
(***************************************************************************)
(* Resolved values                                                         *)
(***************************************************************************)
LEMMA WordsAre == \A tokens \in Seq(Tokens) : Words(tokens) \in Values
BY DEF Words, Value, Values, Kinds

LEMMA OneToken == \A token \in Tokens : <<token>> \in Seq(Tokens)
OBVIOUS

LEMMA InterpolatedAre ==
    ASSUME NEW data \in Data, NEW token \in Tokens
    PROVE  Interpolated(token, data) \in Seq(Tokens)
<1>1. CASE token \in Expressions
    <2>1. data[token].tokens \in Seq(Tokens)
        BY <1>1 DEF Data, Values
    <2>2. token # "\\{a\\}"
        BY <1>1 DEF Expressions
    <2>3. Interpolated(token, data) = data[token].tokens
        BY <1>1, <2>2, Zenon DEF Interpolated
    <2>4. QED
        BY <2>1, <2>3
<1>2. CASE token \notin Expressions
    <2>1. CASE token = "\\{a\\}"
        <3>1. Interpolated(token, data) = <<"{a}">>
            BY <1>2, <2>1, Zenon DEF Interpolated
        <3>2. "{a}" \in Tokens
            BY DEF Tokens, Expressions
        <3>3. QED
            BY <3>1, <3>2, OneToken
    <2>2. CASE token # "\\{a\\}"
        <3>1. Interpolated(token, data) = <<token>>
            BY <1>2, <2>2, Zenon DEF Interpolated
        <3>2. QED
            BY <3>1
    <2>3. QED
        BY <2>1, <2>2
<1>3. QED
    BY <1>1, <1>2

LEMMA TextIs ==
    ASSUME NEW tokens \in Seq(Tokens), NEW data \in Data
    PROVE  FoldLeft(LAMBDA text, token : text \o Interpolated(token, data), <<>>, tokens)
             \in Seq(Tokens)
<1>1. PICK n : n = Len(tokens)
    OBVIOUS
<1>2. n \in Nat /\ DOMAIN tokens = 1..n /\ \A k \in 1..n : tokens[k] \in Tokens
    BY <1>1
<1>3. PICK p : p = [tokens |-> tokens, data |-> data]
    OBVIOUS
<1>4. p.tokens = tokens /\ p.data = data
    BY <1>3
<1>5. FoldLeft(LAMBDA text, token : text \o Interpolated(token, data), <<>>, tokens)
        = Filled!Folded(p, <<>>, n, n)
    <2>1. FoldLeft(LAMBDA text, token : text \o Interpolated(token, data), <<>>, tokens)
            = (CHOOSE g : g = [s \in SUBSET DOMAIN tokens |->
                  IF s = {} THEN <<>>
                  ELSE g[s \ {Max(s)}] \o Interpolated(tokens[Max(s)], data)])[DOMAIN tokens]
        BY Zenon DEF FoldLeft, MapThenFoldSet, Max
    <2>2. Filled!Folded(p, <<>>, n, n)
            = (CHOOSE g : g = [s \in SUBSET (1..n) |->
                  IF s = {} THEN <<>>
                  ELSE g[s \ {Max(s)}] \o Interpolated(tokens[Max(s)], data)])[1..n]
        BY <1>4, Zenon DEF Filled!Folded, Filled!Folds, Filled!Max, Max, TextStep
    <2>3. QED
        BY <1>2, <2>1, <2>2, Zenon
<1>6. Filled!Folded(p, <<>>, n, 0) = <<>>
    BY <1>2, Filled!FoldSteps, ZenonT(60)
<1>7. \A m \in Nat : m + 1 <= n =>
         Filled!Folded(p, <<>>, n, m + 1)
           = Filled!Folded(p, <<>>, n, m) \o Interpolated(tokens[m + 1], data)
    BY <1>2, <1>4, Filled!FoldSteps, ZenonT(60) DEF TextStep
<1> DEFINE S == {m \in Nat : m <= n => Filled!Folded(p, <<>>, n, m) \in Seq(Tokens)}
<1>8. 0 \in S
    BY <1>6, EmptySeq
<1>9. ASSUME NEW m \in Nat, m + 1 <= n, m \in S
      PROVE  m + 1 \in S
    <2>1. tokens[m + 1] \in Tokens
        BY <1>2, <1>9, UpTo
    <2>2. Interpolated(tokens[m + 1], data) \in Seq(Tokens)
        BY <2>1, InterpolatedAre
    <2>3. Filled!Folded(p, <<>>, n, m) \in Seq(Tokens)
        BY <1>2, <1>9, UpTo
    <2>4. Filled!Folded(p, <<>>, n, m + 1) \in Seq(Tokens)
        BY <1>7, <1>9, <2>2, <2>3, ConcatProperties
    <2>5. QED
        BY <2>4
<1>10. n \in S
    <2> HIDE DEF S
    <2> QED
        BY <1>2, <1>8, <1>9, InductionTo
<1>11. Filled!Folded(p, <<>>, n, n) \in Seq(Tokens)
    BY <1>2, <1>10
<1>12. QED
    BY <1>5, <1>11, Zenon

LEMMA ResolvedAre ==
    ASSUME NEW value \in Values, NEW data \in Data
    PROVE  Resolved(value, data) \in Values
<1>1. value.tokens \in Seq(Tokens)
    BY DEF Values
<1>2. CASE ~HasTemplateSyntax(value)
    BY <1>2 DEF Resolved
<1>3. CASE HasTemplateSyntax(value)
    <2>1. Resolved(value, data) = EvaluateTemplate(value, data)
        BY <1>3 DEF Resolved
    <2>2. CASE Len(value.tokens) = 1 /\ value.tokens[1] \in Expressions
        <3>1. data[value.tokens[1]] \in Values
            BY <2>2 DEF Data
        <3>2. Words(<<>>) \in Values
            BY WordsAre, EmptySeq
        <3>3. EvaluateTemplate(value, data)
                = IF data[value.tokens[1]] = Undefined THEN Words(<<>>) ELSE data[value.tokens[1]]
            BY <2>2, Zenon DEF EvaluateTemplate
        <3>4. QED
            BY <2>1, <3>1, <3>2, <3>3
    <2>3. CASE ~(Len(value.tokens) = 1 /\ value.tokens[1] \in Expressions)
        <3>1. PICK found :
                 found = FoldLeft(LAMBDA text, token : text \o Interpolated(token, data),
                                 <<>>, value.tokens)
            OBVIOUS
        <3>2. EvaluateTemplate(value, data) = Words(found)
            BY <2>3, <3>1, Zenon DEF EvaluateTemplate
        <3>3. found \in Seq(Tokens)
            BY <1>1, <3>1, TextIs, Zenon
        <3>4. QED
            BY <2>1, <3>2, <3>3, WordsAre
    <2>4. QED
        BY <2>2, <2>3
<1>4. QED
    BY <1>2, <1>3

-----------------------------------------------------------------------------
(***************************************************************************)
(* The items of a list                                                     *)
(***************************************************************************)
LEMMA SlicesAre ==
    ASSUME NEW S, NEW s \in Seq(S), NEW from \in Nat \ {0}, NEW to \in Nat
    PROVE  /\ Slice(s, from, to) \in Seq(S)
           /\ Len(Slice(s, from, to)) <= to
           /\ from <= to /\ from <= Len(s) => Len(Slice(s, from, to)) # 0
<1>1. PICK last : last = IF to < Len(s) THEN to ELSE Len(s)
    OBVIOUS
<1>2. last \in Nat /\ last <= to /\ last <= Len(s)
    BY <1>1
<1>3. \A k \in from..last : s[k] \in S
    BY <1>2
<1>4. /\ SubSeq(s, from, last) \in Seq(S)
      /\ Len(SubSeq(s, from, last)) = IF from <= last THEN last - from + 1 ELSE 0
    BY <1>2, <1>3, SubSeqProperties
<1>5. Slice(s, from, to) = SubSeq(s, from, last)
    BY <1>1 DEF Slice
<1>6. QED
    BY <1>1, <1>2, <1>4, <1>5

Kept(source) ==
    {k \in DOMAIN source : (\E j \in DOMAIN source : source[j].kept = "throws")
                           \/ source[k].kept = "yes"}

\* The items of a list in an order of their places
InPlaces(source, places) == [k \in 1..Cardinality(Kept(source)) |-> source[places[k]]]

LEMMA KeptRanked ==
    ASSUME NEW source \in Seq(RowItems)
    PROVE  /\ Kept(source) \subseteq DOMAIN source
           /\ RanksOn([k \in Kept(source) |-> source[k].rank], Kept(source))
<1>1. PICK n \in Nat : DOMAIN source = 1..n /\ \A k \in 1..n : source[k] \in RowItems
    OBVIOUS
<1>2. PICK K : K = Kept(source)
    OBVIOUS
<1>3. K \subseteq 1..n
    BY <1>1, <1>2 DEF Kept
<1>4. IsFiniteSet(K)
    BY <1>1, <1>3, FirstMany, FS_Subset
<1>5. \A k \in K : source[k].rank \in Nat
    BY <1>1, <1>3 DEF RowItems
<1>6. QED
    BY <1>1, <1>2, <1>3, <1>4, <1>5 DEF RanksOn

LEMMA ListsSort ==
    ASSUME NEW source \in Seq(RowItems)
    PROVE  \E places \in [1..Cardinality(Kept(source)) -> Kept(source)] :
               Processed(source) = Slice(InPlaces(source, places), 1, Limit)
<1> DEFINE Before(i, j) == source[i].rank < source[j].rank
                           \/ (source[i].rank = source[j].rank /\ i < j)
           m == Cardinality(Kept(source))
           Sorts(places) == \A i, j \in 1..m : i < j => Before(places[i], places[j])
           order == CHOOSE places \in [1..m -> Kept(source)] : Sorts(places)
<1>1. PICK rank : rank = [k \in Kept(source) |-> source[k].rank]
    OBVIOUS
<1>2. RanksOn(rank, Kept(source))
    BY <1>1, KeptRanked
<1>3. PICK places : Ordering(rank, Kept(source), places)
    BY <1>2, OrderExists
<1>4. places \in [1..m -> Kept(source)]
    BY <1>3 DEF Ordering
<1>5. \A i, j \in Kept(source) : Earlier(rank, i, j) <=> Before(i, j)
    BY <1>1 DEF Earlier
<1>6. Sorts(places)
    <2> HIDE DEF Before
    <2>1. \A i \in 1..m : places[i] \in Kept(source)
        BY <1>4
    <2>2. QED
        BY <1>3, <1>5, <2>1 DEF Ordering
<1>7. order \in [1..m -> Kept(source)]
    <2> HIDE DEF Sorts, m
    <2> QED
        BY <1>4, <1>6, Zenon
<1>8. Processed(source) = Slice(InPlaces(source, order), 1, Limit)
    BY Zenon DEF Processed, InPlaces, Kept
<1>9. QED
    <2> HIDE DEF order, m
    <2> QED
        BY <1>7, <1>8, Zenon DEF m

LEMMA ProcessedAreItems ==
    ASSUME NEW source \in Seq(RowItems)
    PROVE  Processed(source) \in Seq(RowItems) /\ Len(Processed(source)) <= Limit
<1>1. PICK places \in [1..Cardinality(Kept(source)) -> Kept(source)] :
               Processed(source) = Slice(InPlaces(source, places), 1, Limit)
    BY ListsSort
<1>2. PICK m, K : m = Cardinality(Kept(source)) /\ K = Kept(source)
    OBVIOUS
<1>3. m \in Nat /\ K \subseteq DOMAIN source /\ places \in [1..m -> K]
    BY <1>1, <1>2, KeptRanked, FS_CardinalityType DEF RanksOn
<1>4. InPlaces(source, places) = [k \in 1..m |-> source[places[k]]]
    BY <1>2 DEF InPlaces
<1>5. \A k \in 1..m : source[places[k]] \in RowItems
    <2>1. \A j \in DOMAIN source : source[j] \in RowItems
        OBVIOUS
    <2>2. \A k \in 1..m : places[k] \in DOMAIN source
        BY <1>3
    <2>3. QED
        BY <2>1, <2>2
<1>6. InPlaces(source, places) \in Seq(RowItems)
    BY <1>3, <1>4, <1>5
<1>7. QED
    BY <1>1, <1>6, SlicesAre DEF Limit

LEMMA PagesAre ==
    ASSUME NEW source \in Seq(RowItems), NEW page \in Nat \ {0}
    PROVE  /\ PageData(source, page) \in Seq(RowItems)
           /\ page <= TotalPages(source) /\ Processed(source) # <<>> => PageData(source, page) # <<>>
           /\ TotalPages(source) \in Nat \ {0} /\ TotalPages(source) <= Limit
<1>1. PICK s : s = Processed(source)
    OBVIOUS
<1>2. s \in Seq(RowItems) /\ Len(s) <= 2 /\ Len(s) \in Nat
    BY <1>1, ProcessedAreItems DEF Limit
<1>3. PageData(source, page) = Slice(s, page, page)
    BY <1>1 DEF PageData, PageSize
<1>4. TotalPages(source) = IF Len(s) < 1 THEN 1 ELSE Len(s)
    <2>1. (Len(s) + PageSize - 1) \div PageSize = Len(s)
        BY <1>2 DEF PageSize
    <2>2. QED
        BY <1>1, <2>1 DEF TotalPages
<1>5. PICK q : q = Slice(s, page, page)
    OBVIOUS
<1>6. q \in Seq(RowItems) /\ (page <= Len(s) => Len(q) # 0)
    BY <1>2, <1>5, SlicesAre
<1>7. s # <<>> => Len(s) \in Nat \ {0}
    BY <1>2, EmptySeq
<1>8. Len(<<>>) = 0
    BY EmptySeq
<1>9. page <= TotalPages(source) /\ s # <<>> => q # <<>>
    BY <1>2, <1>4, <1>6, <1>7, <1>8
<1>10. QED
    BY <1>1, <1>2, <1>3, <1>4, <1>5, <1>6, <1>9 DEF Limit

LEMMA ItemDataAre ==
    ASSUME NEW data \in Data, NEW alias \in Aliases, NEW item \in RowItems
    PROVE  ItemData(data, alias, item) \in Data
<1>1. item.value \in ItemValues
    BY DEF RowItems
<1>2. item.value \in Values
    <2>1. <<>> \in Seq(RowItems)
        BY EmptySeq
    <2>2. QED
        BY <1>1, <2>1 DEF ItemValues, Values
<1>3. QED
    BY <1>2 DEF ItemData, Data

-----------------------------------------------------------------------------
(***************************************************************************)
(* Resolved widgets                                                        *)
(***************************************************************************)
Res(n, w, data) == ResolveWidgetParams(n, w, data)

LEMMA ResSteps ==
    ASSUME NEW n \in Depths, NEW w \in Nested[n], NEW data \in Data
    PROVE  /\ Res(n, w, data).type = w.type /\ Res(n, w, data).alias = w.alias
           /\ Res(n, w, data).param = Resolved(w.param, data)
           /\ Res(n, w, data).items =
                 IF Lists(w) THEN w.items
                 ELSE [k \in DOMAIN w.items |-> Res(n - 1, w.items[k], data)]
           /\ Res(n, w, data) = [type |-> w.type, param |-> Resolved(w.param, data),
                                 items |-> Res(n, w, data).items, alias |-> w.alias]
<1>1. PICK inside : inside = Inner(Resolving, n)
    OBVIOUS
<1>2. Resolving[n] = ResolveLevel(n, inside)
    BY <1>1, ResolvingSteps
<1>3. Res(n, w, data) = [w EXCEPT !.param = Resolved(@, data),
                                  !.items = IF Lists(w) THEN @
                                            ELSE [k \in DOMAIN @ |-> inside[@[k]][data]]]
    <2> DEFINE Made(u, d) == [u EXCEPT !.param = Resolved(@, d),
                                       !.items = IF Lists(u) THEN @
                                                 ELSE [k \in DOMAIN @ |-> inside[@[k]][d]]]
    <2>1. ResolveLevel(n, inside) = [u \in Nested[n] |-> [d \in Data |-> Made(u, d)]]
        BY Zenon DEF ResolveLevel
    <2>2. Res(n, w, data) = Made(w, data)
        <3> HIDE DEF Made
        <3> QED
            BY <1>2, <2>1 DEF Res, ResolveWidgetParams
    <2>3. QED
        BY <2>2, Zenon
<1>4. PICK items : items = [k \in DOMAIN w.items |-> inside[w.items[k]][data]]
    OBVIOUS
<1>5. w = [type |-> w.type, param |-> w.param, items |-> w.items, alias |-> w.alias]
    BY WidgetsAre
<1>6. Res(n, w, data) = [type |-> w.type, param |-> Resolved(w.param, data),
                         items |-> IF Lists(w) THEN w.items ELSE items, alias |-> w.alias]
    BY <1>3, <1>4, <1>5
<1>7. items = [k \in DOMAIN w.items |-> Res(n - 1, w.items[k], data)]
    <2>1. \A k \in DOMAIN w.items : inside = Resolving[n - 1]
        BY <1>1, WidgetsAre DEF Inner
    <2>2. \A k \in DOMAIN w.items : inside[w.items[k]][data] = Res(n - 1, w.items[k], data)
        BY <2>1 DEF Res, ResolveWidgetParams
    <2>3. QED
        BY <1>4, <2>2
<1>8. QED
    BY <1>6, <1>7

LEMMA ResAre ==
    \A n \in Depths : \A w \in Nested[n], data \in Data : Res(n, w, data) \in Nested[n]
<1> DEFINE S == {n \in Depths : \A w \in Nested[n], data \in Data : Res(n, w, data) \in Nested[n]}
<1>1. ASSUME NEW n \in Depths, n # 0 => n - 1 \in S
      PROVE  n \in S
    <2> SUFFICES ASSUME NEW w \in Nested[n], NEW data \in Data
                 PROVE  Res(n, w, data) \in Nested[n]
        OBVIOUS
    <2>1. PICK A, items : A = Inner(Nested, n) /\ items = Res(n, w, data).items
        OBVIOUS
    <2>2. items \in Seq(A)
        <3>1. CASE Lists(w)
            <4>1. items = w.items
                BY <2>1, <3>1, ResSteps
            <4>2. QED
                BY <2>1, <4>1, WidgetsAre
        <3>2. CASE ~Lists(w)
            <4>1. items = [k \in DOMAIN w.items |-> Res(n - 1, w.items[k], data)]
                BY <2>1, <3>2, ResSteps
            <4>2. \A k \in DOMAIN w.items : Res(n - 1, w.items[k], data) \in A
                BY <1>1, <2>1, WidgetsAre DEF Inner
            <4>3. \A k \in DOMAIN w.items : items[k] \in A
                BY <4>1, <4>2
            <4>4. w.items \in Seq(A) /\ DOMAIN items = DOMAIN w.items
                BY <2>1, <4>1, WidgetsAre
            <4>5. items = [k \in DOMAIN w.items |-> items[k]]
                BY <4>1
            <4>6. QED
                BY <4>3, <4>4, <4>5, SeqMaps
        <3>3. QED
            BY <3>1, <3>2
    <2>3. Res(n, w, data) = [type |-> w.type, param |-> Resolved(w.param, data),
                             items |-> items, alias |-> w.alias]
        BY <2>1, ResSteps
    <2>4. w.type \in WidgetTypes /\ w.alias \in Aliases /\ Resolved(w.param, data) \in Values
        BY WidgetsAre, ResolvedAre
    <2>5. Res(n, w, data) \in Holding(A)
        BY <2>2, <2>3, <2>4 DEF Holding
    <2>6. QED
        BY <2>1, <2>5, NestedSteps
<1>2. \A n \in Depths : n \in S
    <2> HIDE DEF S
    <2> QED
        BY <1>1, DepthRange, LevelInduction
<1>3. QED
    BY <1>2

\* What is checked of a widget, and of those inside that are drawn with it
PartOf(n, w, part) ==
    \/ part = [type |-> w.type, param |-> w.param]
    \/ ~Lists(w) /\ \E k \in DOMAIN w.items : part \in Checked[n - 1][w.items[k]]

LEMMA PartsAre ==
    ASSUME NEW n \in Depths, NEW w \in Nested[n]
    PROVE  \A part : part \in Checked[n][w] <=> PartOf(n, w, part)
<1>1. PICK inside : inside = Inner(Checked, n)
    OBVIOUS
<1>2. Checked[n] = CheckLevel(n, inside)
    BY <1>1, CheckedSteps
<1>3. Checked[n][w] = {[type |-> w.type, param |-> w.param]}
                      \cup IF Lists(w) THEN {} ELSE UNION {inside[w.items[k]] : k \in DOMAIN w.items}
    BY <1>2 DEF CheckLevel
<1>4. \A k \in DOMAIN w.items : inside[w.items[k]] = Checked[n - 1][w.items[k]]
    BY <1>1, WidgetsAre DEF Inner
<1>5. QED
    BY <1>3, <1>4 DEF PartOf

LEMMA ValidSteps ==
    ASSUME NEW n \in Depths, NEW w \in Nested[n]
    PROVE  Valid(n, w) <=> /\ Takes(w.type, w.param)
                           /\ Lists(w) \/ \A k \in DOMAIN w.items : Valid(n - 1, w.items[k])
<1>1. Valid(n, w) <=> \A part : PartOf(n, w, part) => Takes(part.type, part.param)
    BY PartsAre DEF Valid
<1>2. PICK own : own = [type |-> w.type, param |-> w.param]
    OBVIOUS
<1>3. own.type = w.type /\ own.param = w.param
    BY <1>2
<1>4. \A part : PartOf(n, w, part) <=>
         \/ part = own
         \/ ~Lists(w) /\ \E k \in DOMAIN w.items : part \in Checked[n - 1][w.items[k]]
    BY <1>2 DEF PartOf
<1>5. QED
    BY <1>1, <1>3, <1>4, Zenon DEF Valid

LEMMA BreaksSteps ==
    ASSUME NEW n \in Depths, NEW w \in Nested[n], NEW data \in Data
    PROVE  Breaks(n, w, data) <=>
              \/ ~Takes(w.type, Resolved(w.param, data))
              \/ ~Lists(w) /\ \E k \in DOMAIN w.items : Breaks(n - 1, w.items[k], data)
<1>1. Breaks(n, w, data)
        <=> \E part : PartOf(n, w, part) /\ ~Takes(part.type, Resolved(part.param, data))
    BY PartsAre DEF Breaks
<1>2. PICK own : own = [type |-> w.type, param |-> w.param]
    OBVIOUS
<1>3. own.type = w.type /\ own.param = w.param
    BY <1>2
<1>4. \A part : PartOf(n, w, part) <=>
         \/ part = own
         \/ ~Lists(w) /\ \E k \in DOMAIN w.items : part \in Checked[n - 1][w.items[k]]
    BY <1>2 DEF PartOf
<1>5. QED
    BY <1>1, <1>3, <1>4, Zenon DEF Breaks

\* Resolved parameters are not taken where what was written breaks.
LEMMA ValidIs ==
    \A n \in Depths : \A w \in Nested[n], data \in Data :
        Valid(n, Res(n, w, data)) <=> ~Breaks(n, w, data)
<1> DEFINE S == {n \in Depths : \A w \in Nested[n], data \in Data :
                    Valid(n, Res(n, w, data)) <=> ~Breaks(n, w, data)}
<1>1. ASSUME NEW n \in Depths, n # 0 => n - 1 \in S
      PROVE  n \in S
    <2> SUFFICES ASSUME NEW w \in Nested[n], NEW data \in Data
                 PROVE  Valid(n, Res(n, w, data)) <=> ~Breaks(n, w, data)
        OBVIOUS
    <2>1. PICK v : v = Res(n, w, data)
        OBVIOUS
    <2>2. v \in Nested[n] /\ v.type = w.type /\ v.param = Resolved(w.param, data)
        BY <2>1, ResAre, ResSteps
    <2>3. Lists(v) <=> Lists(w)
        BY <2>2 DEF Lists
    <2>4. CASE Lists(w)
        BY <2>1, <2>2, <2>3, <2>4, ValidSteps, BreaksSteps
    <2>5. CASE ~Lists(w)
        <3>1. v.items = [k \in DOMAIN w.items |-> Res(n - 1, w.items[k], data)]
            BY <2>1, <2>5, ResSteps
        <3>2. \A k \in DOMAIN w.items :
                 Valid(n - 1, v.items[k]) <=> ~Breaks(n - 1, w.items[k], data)
            BY <1>1, <3>1, WidgetsAre
        <3>3. DOMAIN v.items = DOMAIN w.items
            BY <3>1
        <3>4. QED
            BY <2>1, <2>2, <2>3, <2>5, <3>2, <3>3, ValidSteps, BreaksSteps
    <2>6. QED
        BY <2>4, <2>5
<1>2. \A n \in Depths : n \in S
    <2> HIDE DEF S
    <2> QED
        BY <1>1, DepthRange, LevelInduction
<1>3. QED
    BY <1>2

-----------------------------------------------------------------------------
(***************************************************************************)
(* What is drawn is what was meant.                                        *)
(***************************************************************************)
\* A resolved widget as it is drawn
Shown(n, v, data, page, inside) ==
    IF ~Valid(n, v) THEN Invalid(v.type)
    ELSE IF Lists(v) THEN RenderList(v, data, page, inside)
    ELSE Drawn(v.type, v.param,
               [k \in DOMAIN v.items |-> inside[ToRender(v.items[k], data, page, TRUE)]])

LEMMA GivenAre ==
    ASSUME NEW n \in Depths, NEW w \in Nested[n], NEW data \in Data,
           NEW page \in Nat \ {0}, NEW skip \in BOOLEAN
    PROVE  ToRender(w, data, page, skip) \in Given(Nested[n])
BY DEF ToRender, Given

LEMMA RendersAs ==
    ASSUME NEW n \in Depths, NEW w \in Nested[n], NEW data \in Data, NEW page \in Nat \ {0}
    PROVE  /\ Rendering[n][ToRender(w, data, page, FALSE)]
                = Shown(n, Res(n, w, data), data, page, Inner(Rendering, n))
           /\ Rendering[n][ToRender(w, data, page, TRUE)]
                = Shown(n, w, data, page, Inner(Rendering, n))
<1>1. PICK inside : inside = Inner(Rendering, n)
    OBVIOUS
<1>2. Rendering[n] = RenderLevel(n, inside)
    BY <1>1, RenderingSteps
<1>3. ASSUME NEW skip \in BOOLEAN
      PROVE  Rendering[n][ToRender(w, data, page, skip)] = RenderImpl(n, w, data, page, skip, inside)
    <2>1. PICK props : props = ToRender(w, data, page, skip)
        OBVIOUS
    <2>2. props \in Given(Nested[n])
        BY <2>1, GivenAre
    <2>3. props.widget = w /\ props.data = data /\ props.page = page /\ props.skip = skip
        BY <2>1 DEF ToRender
    <2>4. RenderLevel(n, inside)[props] = RenderImpl(n, props.widget, props.data, props.page, props.skip, inside)
        BY <2>2 DEF RenderLevel
    <2>5. QED
        BY <1>2, <2>1, <2>3, <2>4
<1>4. PICK v : v = Res(n, w, data)
    OBVIOUS
<1>5. v.type = w.type /\ (Lists(v) <=> Lists(w))
    BY <1>4, ResSteps DEF Lists
<1>6. RenderImpl(n, w, data, page, FALSE, inside) = Shown(n, v, data, page, inside)
    <2>1. ResolveWidgetParams(n, w, data) = v
        BY <1>4 DEF Res
    <2>2. QED
        BY <1>5, <2>1 DEF RenderImpl, Shown
<1>7. RenderImpl(n, w, data, page, TRUE, inside) = Shown(n, w, data, page, inside)
    BY DEF RenderImpl, Shown
<1>8. QED
    BY <1>1, <1>3, <1>4, <1>6, <1>7

LEMMA MeansAs ==
    ASSUME NEW n \in Depths, NEW w \in Nested[n], NEW data \in Data, NEW page \in Nat \ {0}
    PROVE  Meaning[n][ToRender(w, data, page, FALSE)]
             = MeaningOf(n, w, data, page, Inner(Meaning, n))
<1>1. PICK inside : inside = Inner(Meaning, n)
    OBVIOUS
<1>2. Meaning[n] = MeansLevel(n, inside)
    BY <1>1, MeaningSteps
<1>3. PICK props : props = ToRender(w, data, page, FALSE)
    OBVIOUS
<1>4. props \in Given(Nested[n])
    BY <1>3, GivenAre
<1>5. props.widget = w /\ props.data = data /\ props.page = page
    BY <1>3 DEF ToRender
<1>6. MeansLevel(n, inside)[props] = MeaningOf(n, props.widget, props.data, props.page, inside)
    BY <1>4 DEF MeansLevel
<1>7. QED
    BY <1>1, <1>2, <1>3, <1>5, <1>6

\* The two ways in which a widget is drawn, with n others inside one another
DrawsMeant(n) ==
    \A w \in Nested[n], data \in Data, page \in Nat \ {0} :
        /\ Rendering[n][ToRender(w, data, page, FALSE)] = Meaning[n][ToRender(w, data, page, FALSE)]
        /\ Rendering[n][ToRender(Res(n, w, data), data, page, TRUE)]
             = Meaning[n][ToRender(w, data, page, FALSE)]

LEMMA LayoutsDraw ==
    ASSUME NEW n \in Depths, n # 0 => DrawsMeant(n - 1),
           NEW w \in Nested[n], NEW data \in Data, NEW page \in Nat \ {0}, ~Lists(w)
    PROVE  Shown(n, Res(n, w, data), data, page, Inner(Rendering, n))
             = MeaningOf(n, w, data, page, Inner(Meaning, n))
<1>1. PICK v : v = Res(n, w, data)
    OBVIOUS
<1>2. /\ v.type = w.type /\ v.param = Resolved(w.param, data) /\ ~Lists(v)
      /\ v.items = [k \in DOMAIN w.items |-> Res(n - 1, w.items[k], data)]
    BY <1>1, ResSteps DEF Lists
<1>3. Valid(n, v) <=> ~Breaks(n, w, data)
    BY <1>1, ValidIs
<1>4. PICK R, M : R = Inner(Rendering, n) /\ M = Inner(Meaning, n)
    OBVIOUS
<1>5. ASSUME NEW k \in DOMAIN w.items
      PROVE  R[ToRender(v.items[k], data, page, TRUE)] = M[ToRender(w.items[k], data, page, FALSE)]
    <2>1. n # 0 /\ w.items[k] \in Nested[n - 1]
        BY WidgetsAre
    <2>2. R = Rendering[n - 1] /\ M = Meaning[n - 1]
        BY <1>4, <2>1 DEF Inner
    <2>3. v.items[k] = Res(n - 1, w.items[k], data)
        BY <1>2
    <2>4. DrawsMeant(n - 1)
        BY <2>1
    <2>5. QED
        BY <2>1, <2>2, <2>3, <2>4 DEF DrawsMeant
<1> DEFINE RI(k) == R[ToRender(v.items[k], data, page, TRUE)]
           MI(k) == M[ToRender(w.items[k], data, page, FALSE)]
<1>6. DOMAIN v.items = DOMAIN w.items
    BY <1>2
<1>7. \A k \in DOMAIN w.items : RI(k) = MI(k)
    BY <1>5
<1>8. Shown(n, v, data, page, R)
        = IF Breaks(n, w, data) THEN Invalid(w.type)
          ELSE Drawn(w.type, Resolved(w.param, data), [k \in DOMAIN w.items |-> RI(k)])
    BY <1>2, <1>3, <1>6 DEF Shown
<1>9. MeaningOf(n, w, data, page, M)
        = IF Breaks(n, w, data) THEN Invalid(w.type)
          ELSE Drawn(w.type, Resolved(w.param, data), [k \in DOMAIN w.items |-> MI(k)])
    BY Zenon DEF MeaningOf
<1>10. [k \in DOMAIN w.items |-> RI(k)] = [k \in DOMAIN w.items |-> MI(k)]
    <2> HIDE DEF RI, MI
    <2> QED
        BY <1>7
<1>11. QED
    <2> HIDE DEF RI, MI
    <2> QED
        BY <1>1, <1>4, <1>8, <1>9, <1>10

LEMMA ListsDraw ==
    ASSUME NEW n \in Depths, n # 0 => DrawsMeant(n - 1),
           NEW w \in Nested[n], NEW data \in Data, NEW page \in Nat \ {0}, Lists(w)
    PROVE  Shown(n, Res(n, w, data), data, page, Inner(Rendering, n))
             = MeaningOf(n, w, data, page, Inner(Meaning, n))
<1>1. PICK v : v = Res(n, w, data)
    OBVIOUS
<1>2. PICK value : value = Resolved(w.param, data)
    OBVIOUS
<1>3. /\ v.type = w.type /\ v.param = value /\ Lists(v)
      /\ v.items = w.items /\ v.alias = w.alias
    BY <1>1, <1>2, ResSteps DEF Lists
<1>4. Valid(n, v) <=> ~Breaks(n, w, data)
    BY <1>1, ValidIs
<1>5. PICK R, M : R = Inner(Rendering, n) /\ M = Inner(Meaning, n)
    OBVIOUS
<1>6. PICK shown : shown = PageData(value.items, page)
    OBVIOUS
<1>7. \A h \in DOMAIN shown : shown[h] \in RowItems
    <2>1. w.param \in Values
        BY WidgetsAre
    <2>2. value \in Values
        BY <1>2, <2>1, ResolvedAre
    <2>3. value.items \in Seq(RowItems)
        BY <2>2 DEF Values
    <2>4. shown \in Seq(RowItems)
        BY <1>6, <2>3, PagesAre
    <2>5. QED
        BY <2>4
<1> DEFINE RI(item, k) == R[ToRender(w.items[k], ItemData(data, w.alias, item), 1, FALSE)]
           MI(item, k) == M[ToRender(w.items[k], ItemData(data, w.alias, item), 1, FALSE)]
           RRow(item) == [k \in DOMAIN w.items |-> RI(item, k)]
           MRow(item) == [k \in DOMAIN w.items |-> MI(item, k)]
           RItem(h) == Drawn("Item", Null, RRow(shown[h]))
           MItem(h) == Drawn("Item", Null, MRow(shown[h]))
<1>8. ASSUME NEW item \in RowItems, NEW k \in DOMAIN w.items
      PROVE  RI(item, k) = MI(item, k)
    <2>1. n # 0 /\ w.items[k] \in Nested[n - 1]
        BY WidgetsAre
    <2>2. R = Rendering[n - 1] /\ M = Meaning[n - 1]
        BY <1>5, <2>1 DEF Inner
    <2>3. w.alias \in Aliases
        BY WidgetsAre
    <2>4. ItemData(data, w.alias, item) \in Data
        BY <2>3, ItemDataAre
    <2>5. DrawsMeant(n - 1)
        BY <2>1
    <2>6. PICK d, u : d = ItemData(data, w.alias, item) /\ u = w.items[k]
        OBVIOUS
    <2>7. Rendering[n - 1][ToRender(u, d, 1, FALSE)] = Meaning[n - 1][ToRender(u, d, 1, FALSE)]
        <3>1. d \in Data /\ u \in Nested[n - 1] /\ 1 \in Nat \ {0}
            BY <2>1, <2>4, <2>6
        <3>2. QED
            BY <2>5, <3>1, Zenon DEF DrawsMeant
    <2>8. QED
        BY <2>2, <2>6, <2>7
<1>9. ASSUME NEW item \in RowItems
      PROVE  RRow(item) = MRow(item)
    <2>1. \A k \in DOMAIN w.items : RI(item, k) = MI(item, k)
        BY <1>8
    <2>2. QED
        <3> HIDE DEF RI, MI
        <3> QED
            BY <2>1
<1>10. \A h \in DOMAIN shown : RItem(h) = MItem(h)
    <2> HIDE DEF RRow, MRow
    <2> QED
        BY <1>7, <1>9
<1>11. [h \in DOMAIN shown |-> RItem(h)] = [h \in DOMAIN shown |-> MItem(h)]
    <2> HIDE DEF RItem, MItem
    <2> QED
        BY <1>10
<1>12. RenderList(v, data, page, R)
         = IF Processed(value.items) = <<>> THEN EmptyState
           ELSE Drawn("List", Null, [h \in DOMAIN shown |-> RItem(h)])
    <2>1. RenderList(v, data, page, R)
            = IF Processed(v.param.items) = <<>> THEN EmptyState
              ELSE Drawn("List", Null,
                       [h \in DOMAIN PageData(v.param.items, page) |->
                           Drawn("Item", Null,
                               [k \in DOMAIN v.items |->
                                   R[ToRender(v.items[k],
                                       ItemData(data, v.alias, PageData(v.param.items, page)[h]),
                                       1, FALSE)]])])
        BY Zenon DEF RenderList
    <2>2. QED
        BY <1>3, <1>6, <2>1, Zenon
<1>13. Shown(n, v, data, page, R)
         = IF Breaks(n, w, data) THEN Invalid(w.type)
           ELSE IF Processed(value.items) = <<>> THEN EmptyState
           ELSE Drawn("List", Null, [h \in DOMAIN shown |-> RItem(h)])
    <2> HIDE DEF RItem
    <2> QED
        BY <1>3, <1>4, <1>12 DEF Shown
<1>14. MeaningOf(n, w, data, page, M)
         = IF Breaks(n, w, data) THEN Invalid(w.type)
           ELSE IF Processed(value.items) = <<>> THEN EmptyState
           ELSE Drawn("List", Null, [h \in DOMAIN shown |-> MItem(h)])
    BY <1>2, <1>6, Zenon DEF MeaningOf
<1>15. QED
    <2> HIDE DEF RItem, MItem
    <2> QED
        BY <1>1, <1>5, <1>11, <1>13, <1>14

LEMMA WidgetsDraw == \A n \in Depths : DrawsMeant(n)
<1> DEFINE S == {n \in Depths : DrawsMeant(n)}
<1>1. ASSUME NEW n \in Depths, n # 0 => n - 1 \in S
      PROVE  n \in S
    <2> SUFFICES ASSUME NEW w \in Nested[n], NEW data \in Data, NEW page \in Nat \ {0}
                 PROVE  /\ Rendering[n][ToRender(w, data, page, FALSE)]
                             = Meaning[n][ToRender(w, data, page, FALSE)]
                        /\ Rendering[n][ToRender(Res(n, w, data), data, page, TRUE)]
                             = Meaning[n][ToRender(w, data, page, FALSE)]
        BY DEF DrawsMeant
    <2>1. n # 0 => DrawsMeant(n - 1)
        BY <1>1
    <2>2. Shown(n, Res(n, w, data), data, page, Inner(Rendering, n))
            = MeaningOf(n, w, data, page, Inner(Meaning, n))
        BY <2>1, LayoutsDraw, ListsDraw
    <2>3. PICK v : v = Res(n, w, data)
        OBVIOUS
    <2>4. v \in Nested[n]
        BY <2>3, ResAre
    <2>5. Rendering[n][ToRender(v, data, page, TRUE)] = Shown(n, v, data, page, Inner(Rendering, n))
        BY <2>4, RendersAs
    <2>6. Rendering[n][ToRender(w, data, page, FALSE)] = Shown(n, v, data, page, Inner(Rendering, n))
        BY <2>3, RendersAs
    <2>7. Meaning[n][ToRender(w, data, page, FALSE)] = MeaningOf(n, w, data, page, Inner(Meaning, n))
        BY MeansAs
    <2>8. QED
        BY <2>2, <2>3, <2>5, <2>6, <2>7
<1>2. \A n \in Depths : n \in S
    <2> HIDE DEF S
    <2> QED
        BY <1>1, DepthRange, LevelInduction
<1>3. QED
    BY <1>2

-----------------------------------------------------------------------------
(***************************************************************************)
(* The cards that there may be                                             *)
(***************************************************************************)
LEMMA SourcesAre == Sources \subseteq Data
<1>1. ASSUME NEW a \in Values, NEW rows \in Values
      PROVE  Stored(a, rows) \in Data
    <2>1. Undefined \in Values
        BY EmptySeq DEF Undefined, Value, Values, Kinds
    <2>2. ASSUME NEW name \in Expressions
          PROVE  (CASE name = "{a}" -> a [] name = "{rows}" -> rows [] OTHER -> Undefined) \in Values
        <3>1. CASE name = "{a}"
            BY <3>1
        <3>2. CASE name = "{rows}"
            BY <3>2
        <3>3. CASE name # "{a}" /\ name # "{rows}"
            BY <2>1, <3>3
        <3>4. QED
            BY <3>1, <3>2, <3>3
    <2>3. QED
        BY <2>2, Zenon DEF Stored, Data
<1>2. \A n \in {"50", "150"} : Number(n) \in Values /\ Number(n) \in ItemValues
    <2>1. ASSUME NEW n \in {"50", "150"}
          PROVE  <<n>> \in Seq(Tokens)
        BY OneToken DEF Tokens
    <2>2. QED
        BY <2>1, EmptySeq DEF Number, Value, Values, ItemValues, Kinds
<1>3. \A token \in {"{a}", "{item}"} :
         Words(<<token>>) \in Values /\ Words(<<token>>) \in ItemValues
    <2>1. ASSUME NEW token \in {"{a}", "{item}"}
          PROVE  <<token>> \in Seq(Tokens)
        BY OneToken DEF Tokens, Expressions
    <2>2. QED
        BY <2>1, EmptySeq DEF Words, Value, Values, ItemValues, Kinds
<1>4. Null \in Values /\ Undefined \in Values
    BY EmptySeq DEF Null, Undefined, Value, Values, Kinds
<1>5. \A items \in Seq(RowItems) : ArrayOf(items) \in Values
    BY EmptySeq DEF ArrayOf, Value, Values, Kinds
<1>6. {BigFirst, BraceNext, HalfLeft, BraceThrows} \subseteq RowItems
    <2>1. \A v \in ItemValues, rank \in Nat, kept \in {"yes", "no", "throws"} :
             Item(v, rank, kept) \in RowItems
        BY DEF Item, RowItems
    <2>2. Number("150") \in ItemValues /\ Number("50") \in ItemValues
          /\ Words(<<"{a}">>) \in ItemValues
        BY <1>2, <1>3
    <2>3. BigFirst \in RowItems /\ BraceNext \in RowItems
          /\ HalfLeft \in RowItems /\ BraceThrows \in RowItems
        BY <2>1, <2>2 DEF BigFirst, BraceNext, HalfLeft, BraceThrows
    <2>4. QED
        BY <2>3
<1>7. /\ <<>> \in Seq(RowItems) /\ <<BraceThrows>> \in Seq(RowItems)
      /\ <<BigFirst, BraceNext, HalfLeft>> \in Seq(RowItems)
    BY <1>6, EmptySeq
<1>8. \A a \in SourceTexts : a \in Values
    BY <1>2, <1>3, <1>4 DEF SourceTexts
<1>9. \A rows \in SourceArrays \cup {Undefined} : rows \in Values
    BY <1>4, <1>5, <1>7 DEF SourceArrays
<1>10. QED
    BY <1>1, <1>8, <1>9 DEF Sources

LEMMA ElementsAre == \A n \in Depths : Elements \subseteq Nested[n]
<1> SUFFICES ASSUME NEW n \in Depths
             PROVE  Elements \subseteq Nested[n]
    OBVIOUS
<1>1. ASSUME NEW type \in WidgetTypes, NEW tokens \in Seq(Tokens)
      PROVE  Element(type, tokens) \in Nested[n]
    <2>1. Words(tokens) \in Values /\ <<>> \in Seq(Inner(Nested, n)) /\ "{item}" \in Aliases
        BY WordsAre, EmptySeq DEF Aliases
    <2>2. Element(type, tokens) \in Holding(Inner(Nested, n))
        BY <2>1 DEF Element, Widget, Holding
    <2>3. QED
        BY <2>2, NestedSteps
<1> DEFINE TextsOf == {<<"word">>, <<"{a}">>, <<"{item}">>, <<"{row}">>, <<"\\{a\\}">>, <<"word", "{item}">>}
<1>2. \A tokens \in TextsOf : tokens \in Seq(Tokens)
    <2>1. "word" \in Tokens /\ "{a}" \in Tokens /\ "{item}" \in Tokens /\ "{row}" \in Tokens
          /\ "\\{a\\}" \in Tokens
        BY DEF Tokens, Expressions
    <2>2. \A t, u \in Tokens : <<t, u>> \in Seq(Tokens)
        OBVIOUS
    <2>3. QED
        BY <2>1, <2>2, OneToken
<1>3. \A name \in {"{a}", "{item}"} : <<name>> \in Seq(Tokens)
    BY OneToken DEF Tokens, Expressions
<1>4. Elements = {Element("TextBlock", text) : text \in TextsOf}
                 \cup {Element("Progress", <<name>>) : name \in {"{a}", "{item}"}}
    BY Zenon DEF Elements
<1>5. "TextBlock" \in WidgetTypes /\ "Progress" \in WidgetTypes
    BY DEF WidgetTypes
<1> HIDE DEF TextsOf
<1>6. QED
    BY <1>1, <1>2, <1>3, <1>4, <1>5

\* A widget around another one
LEMMA AroundAre ==
    ASSUME NEW n \in Depths, n + 2 \in Depths, NEW w \in Nested[n], NEW around \in Around(w)
    PROVE  around \in Nested[n + 2]
<1>1. n \in Nat /\ n + 1 \in Depths
    BY DepthRange DEF Depths
<1>2. Nested[n] \subseteq Nested[n + 1] /\ Nested[n + 1] \subseteq Nested[n + 2]
    <2>1. n + 1 # 0 /\ n + 2 # 0 /\ (n + 1) - 1 = n /\ (n + 2) - 1 = n + 1
        BY <1>1
    <2>2. QED
        BY <1>1, <2>1, NestedGrow
<1>3. Nested[n + 1] = Holding(Nested[n]) /\ Nested[n + 2] = Holding(Nested[n + 1])
    <2>1. Inner(Nested, n + 1) = Nested[n] /\ Inner(Nested, n + 2) = Nested[n + 1]
        <3>1. n + 1 # 0 /\ n + 2 # 0 /\ (n + 1) - 1 = n /\ (n + 2) - 1 = n + 1
            BY <1>1
        <3>2. QED
            BY <3>1 DEF Inner
    <2>2. QED
        BY <1>1, <2>1, NestedSteps
<1>4. PICK A, B, e : A = Nested[n] /\ B = Nested[n + 1] /\ e = Element("TextBlock", <<"{a}">>)
    OBVIOUS
<1>5. Null \in Values /\ Words(<<"{rows}">>) \in Values
    <2>1. <<"{rows}">> \in Seq(Tokens)
        BY OneToken DEF Tokens, Expressions
    <2>2. Null \in Values
        BY EmptySeq DEF Null, Value, Values, Kinds
    <2>3. QED
        BY <2>1, <2>2, WordsAre
<1>6. e \in A
    BY <1>4, ElementsAre DEF Elements
<1>7. ASSUME NEW S, NEW items \in Seq(S), NEW type \in WidgetTypes, NEW param \in {Null, Words(<<"{rows}">>)},
             NEW alias \in Aliases
      PROVE  Widget(type, param, items, alias) \in Holding(S)
    BY <1>5 DEF Widget, Holding
<1>8. <<w>> \in Seq(A) /\ <<e, w>> \in Seq(A)
    <2>1. \A u, v \in A : <<u>> \in Seq(A) /\ <<u, v>> \in Seq(A)
        OBVIOUS
    <2>2. QED
        BY <1>4, <1>6, <2>1
<1>9. {"Container", "ColumnSet", "Column", "List"} \subseteq WidgetTypes /\ "{item}" \in Aliases
    BY DEF WidgetTypes, Aliases
<1>10. ASSUME NEW items \in {<<w>>, <<e, w>>}
       PROVE  Widget("Container", Null, items, "{item}") \in B
    <2>1. items \in Seq(A)
        BY <1>8
    <2>2. Widget("Container", Null, items, "{item}") \in Holding(A)
        BY <1>7, <1>9, <2>1
    <2>3. QED
        BY <1>3, <1>4, <2>2
<1>11. PICK column : column = Widget("Column", Null, <<w>>, "{item}")
    OBVIOUS
<1>12. column \in B
    BY <1>3, <1>4, <1>7, <1>8, <1>9, <1>11
<1>13. Widget("ColumnSet", Null, <<column>>, "{item}") \in Nested[n + 2]
    <2>1. <<column>> \in Seq(B)
        BY <1>12
    <2>2. QED
        BY <1>3, <1>4, <1>7, <1>9, <2>1
<1>14. ASSUME NEW alias \in Aliases
       PROVE  Widget("List", Words(<<"{rows}">>), <<w>>, alias) \in B
    BY <1>3, <1>4, <1>7, <1>8, <1>9
<1>15. around \in {Widget("Container", Null, items, "{item}") : items \in {<<w>>, <<e, w>>}}
                  \cup {Widget("ColumnSet", Null, <<column>>, "{item}")}
                  \cup {Widget("List", Words(<<"{rows}">>), <<w>>, alias) : alias \in Aliases}
    BY <1>4, <1>11 DEF Around
<1>16. QED
    BY <1>2, <1>4, <1>10, <1>13, <1>14, <1>15

\* Pages, for any widget
PagesFor(w, data) ==
    IF HasList(Nesting, w) /\ Valid(Nesting, ResolveWidgetParams(Nesting, w, data))
    THEN TotalPages(ListRows(data)) ELSE 1

LEMMA PagesIs == \A data : Pages(data) = PagesFor(widget, data)
BY DEF Pages, Mounted, PagesFor

WidgetsInv ==
    /\ given \in Sources
    /\ wraps \in 0..MaxWraps
    /\ widget \in Nested[2 * wraps]
    /\ currentPage \in Nat \ {0} /\ currentPage <= PagesFor(widget, given)

LEMMA DepthsAre == \A m \in 0..MaxWraps : 2 * m \in Depths
BY WrapsBound DEF Depths, Nesting

LEMMA PagesMany ==
    ASSUME NEW w, NEW data \in Sources
    PROVE  /\ PagesFor(w, data) \in Nat \ {0} /\ PagesFor(w, data) <= Limit
           /\ PagesFor(w, data) <= TotalPages(ListRows(data))
<1>1. data["{rows}"] \in Values
    BY SourcesAre DEF Data, Expressions
<1>2. ListRows(data) \in Seq(RowItems)
    BY <1>1 DEF ListRows, Values
<1>3. /\ TotalPages(ListRows(data)) \in Nat \ {0}
      /\ TotalPages(ListRows(data)) <= Limit
    <2>1. 1 \in Nat \ {0}
        OBVIOUS
    <2>2. QED
        BY <1>2, <2>1, PagesAre
<1>4. QED
    BY <1>3 DEF PagesFor, Limit

LEMMA WidgetsInitInv == WidgetsInit => WidgetsInv
<1> SUFFICES ASSUME WidgetsInit
             PROVE  WidgetsInv
    OBVIOUS
<1>1. given \in Sources /\ wraps \in 0..MaxWraps /\ 2 * wraps = 0
    BY WrapsBound DEF WidgetsInit
<1>2. widget \in Nested[0]
    BY DepthRange, ElementsAre DEF WidgetsInit
<1>3. currentPage \in Nat \ {0} /\ currentPage <= PagesFor(widget, given)
    BY <1>1, PagesMany DEF WidgetsInit
<1>4. QED
    BY <1>1, <1>2, <1>3 DEF WidgetsInv

LEMMA WidgetsNextInv == WidgetsInv /\ [WidgetsNext]_widgetVars => WidgetsInv'
<1> SUFFICES ASSUME WidgetsInv, [WidgetsNext]_widgetVars
             PROVE  WidgetsInv'
    OBVIOUS
<1>1. CASE Wrap
    <2>1. given' = given /\ wraps < MaxWraps /\ wraps' = wraps + 1 /\ currentPage' = 1
          /\ widget' \in Around(widget)
        BY <1>1 DEF Wrap
    <2>2. wraps' \in 0..MaxWraps /\ 2 * wraps' = 2 * wraps + 2 /\ wraps \in 0..MaxWraps
        BY <2>1, WrapsBound DEF WidgetsInv
    <2>3. 2 * wraps \in Depths /\ 2 * wraps + 2 \in Depths
        <3>1. 2 * wraps' \in Depths
            BY <2>2, DepthsAre
        <3>2. QED
            BY <2>2, <3>1, DepthsAre
    <2>4. widget' \in Nested[2 * wraps + 2]
        BY <2>1, <2>3, AroundAre DEF WidgetsInv
    <2>5. currentPage' \in Nat \ {0} /\ currentPage' <= PagesFor(widget', given')
        <3>1. PagesFor(widget', given') \in Nat \ {0}
            BY <2>1, PagesMany DEF WidgetsInv
        <3>2. QED
            BY <2>1, <3>1
    <2>6. QED
        BY <2>1, <2>2, <2>4, <2>5 DEF WidgetsInv
<1>2. CASE Refresh
    <2>1. given' \in Sources /\ widget' = widget /\ wraps' = wraps
          /\ currentPage' = Clamped(currentPage, given')
        BY <1>2 DEF Refresh
    <2>2. PICK many : many = PagesFor(widget', given')
        OBVIOUS
    <2>3. many \in Nat \ {0}
        BY <2>1, <2>2, PagesMany
    <2>4. currentPage' = IF currentPage > many THEN many ELSE currentPage
        BY <2>1, <2>2, PagesIs DEF Clamped
    <2>5. currentPage' \in Nat \ {0} /\ currentPage' <= many
        BY <2>3, <2>4 DEF WidgetsInv
    <2>6. QED
        BY <2>1, <2>2, <2>5 DEF WidgetsInv
<1>3. CASE Turn
    <2>1. currentPage' \in 1..PagesFor(widget, given) /\ UNCHANGED <<widget, given, wraps>>
        BY <1>3, PagesIs DEF Turn
    <2>2. PICK many : many = PagesFor(widget, given)
        OBVIOUS
    <2>3. many \in Nat \ {0}
        BY <2>2, PagesMany DEF WidgetsInv
    <2>4. QED
        BY <2>1, <2>2, <2>3 DEF WidgetsInv
<1>4. CASE UNCHANGED widgetVars
    BY <1>4 DEF widgetVars, WidgetsInv
<1>5. QED
    BY <1>1, <1>2, <1>3, <1>4 DEF WidgetsNext

\* The cards that there may be, for any number of widgets around an element
THEOREM WidgetsInvariant == WidgetsSpec => []WidgetsInv
BY WidgetsInitInv, WidgetsNextInv, PTL DEF WidgetsSpec

LEMMA WidgetsInvTyped == WidgetsInv => WidgetsTypeOK
<1> SUFFICES ASSUME WidgetsInv
             PROVE  WidgetsTypeOK
    OBVIOUS
<1>1. PICK many : many = PagesFor(widget, given)
    OBVIOUS
<1>2. many \in Nat \ {0} /\ many <= 2
    BY <1>1, PagesMany DEF WidgetsInv, Limit
<1>3. currentPage \in 1..2
    BY <1>1, <1>2 DEF WidgetsInv
<1>4. QED
    BY <1>3 DEF WidgetsInv, WidgetsTypeOK, Limit

\* The page is one that a list can have.
THEOREM WidgetsTyped == WidgetsSpec => []WidgetsTypeOK
BY WidgetsInvTyped, WidgetsInvariant, PTL

LEMMA WidgetsInvShows == WidgetsInv => CardShowsData
<1> SUFFICES ASSUME WidgetsInv
             PROVE  CardShowsData
    OBVIOUS
<1>1. given \in Sources /\ given \in Data /\ currentPage \in Nat \ {0}
    BY SourcesAre DEF WidgetsInv
<1>2. widget \in Nested[Nesting] /\ Nesting \in Depths
    <2>1. wraps \in Nat /\ wraps <= MaxWraps
        BY WrapsBound DEF WidgetsInv
    <2>2. 2 * wraps \in Depths /\ Nesting \in Depths /\ 2 * wraps <= Nesting
        BY <2>1, WrapsBound DEF Depths, Nesting
    <2>3. Nested[2 * wraps] \subseteq Nested[Nesting]
        BY <2>2, NestedGrows
    <2>4. QED
        BY <2>2, <2>3 DEF WidgetsInv
<1>3. Rendered[ToRender(widget, given, currentPage, FALSE)]
        = Meant[ToRender(widget, given, currentPage, FALSE)]
    BY <1>1, <1>2, WidgetsDraw DEF DrawsMeant, Rendered, Meant
<1>4. ListRows(given) \in Seq(RowItems)
    BY <1>1 DEF ListRows, Data, Values, Expressions
<1>5. PICK many : many = PagesFor(widget, given)
    OBVIOUS
<1>6. many \in Nat \ {0} /\ many <= TotalPages(ListRows(given)) /\ currentPage <= many
    BY <1>1, <1>5, PagesMany DEF WidgetsInv
<1>7. TotalPages(ListRows(given)) \in Nat \ {0}
    BY <1>1, <1>4, PagesAre
<1>8. currentPage <= TotalPages(ListRows(given))
    BY <1>1, <1>6, <1>7
<1>9. Processed(ListRows(given)) # <<>> => PageData(ListRows(given), currentPage) # <<>>
    BY <1>1, <1>4, <1>8, PagesAre
<1>10. QED
    BY <1>3, <1>9 DEF CardShowsData

\* Every widget is drawn as its author meant it, whatever layouts and lists are
\* around it and whatever the data of the source are, and a list with items
\* shows some of them.
THEOREM CardsShowData == WidgetsSpec => []CardShowsData
BY WidgetsInvShows, WidgetsInvariant, PTL

-----------------------------------------------------------------------------
(***************************************************************************)
(* The dialog that adds a widget                                           *)
(***************************************************************************)
Shows == {<<>>} \cup {TemplatesOf(s) : s \in PickSources}
Dialog == [open : BOOLEAN, listed : BOOLEAN, source : PickSources \cup {NoPick},
           templates : Shows,
           pick : 0..2, loading : BOOLEAN]

\* The lists under way were each asked for by opening the dialog.
PickerTyped ==
    /\ picker \in Dialog
    /\ pickerLists \in Nat /\ pickerEvents \in 0..MaxPickerEvents
    /\ pickerLists <= pickerEvents
    /\ \A c \in pickerCalls : c.of \in PickSources
    /\ crossed \in BOOLEAN

\* A template is picked only of a source whose templates are not loading, and
\* what is on show then is of that source, or nothing.
PickIsOfSource ==
    /\ picker.pick > 0 => ~picker.loading /\ picker.source # NoPick
    /\ ~crossed /\ ~picker.loading /\ picker.source # NoPick
          => picker.templates \in {<<>>, TemplatesOf(picker.source)}

PickerInv == PickerTyped /\ PickIsOfSource /\ WidgetOfItsSource

-----------------------------------------------------------------------------
(***************************************************************************)
(* What the steps make of the dialog.                                      *)
(***************************************************************************)
\* Opening the dialog forgets the source, its templates and the pick.
LEMMA OpenedIs ==
    ASSUME picker \in Dialog
    PROVE  /\ Opened \in Dialog
           /\ Opened.source = NoPick
           /\ Opened.pick = 0
<1>1. NoPick \in PickSources \cup {NoPick} /\ <<>> \in Shows /\ 0 \in 0..2
    BY DEF Shows
<1>2. QED
    BY <1>1 DEF Opened, Dialog

\* Selecting a source forgets the pick, and is loading.
LEMMA SelectedIs ==
    ASSUME picker \in Dialog, NEW s \in PickSources
    PROVE  /\ Selected(s) \in Dialog
           /\ Selected(s).pick = 0
           /\ Selected(s).loading = TRUE
<1>1. s \in PickSources \cup {NoPick} /\ 0 \in 0..2
    OBVIOUS
<1>2. QED
    BY <1>1 DEF Selected, Dialog

\* An answer replaces what is on show, whichever source it is of.
LEMMA AnswerIs ==
    ASSUME picker \in Dialog, NEW s \in PickSources, NEW works \in BOOLEAN
    PROVE  LET after == [picker EXCEPT !.loading = FALSE,
                                       !.templates = IF works THEN TemplatesOf(s) ELSE <<>>]
           IN  /\ after \in Dialog
               /\ after.source = picker.source
               /\ after.pick = picker.pick
               /\ after.loading = FALSE
               /\ after.templates \in {<<>>, TemplatesOf(s)}
<1> DEFINE templates == IF works THEN TemplatesOf(s) ELSE <<>>
           after == [picker EXCEPT !.loading = FALSE, !.templates = templates]
<1>1. templates \in Shows
    BY DEF Shows
<1>2. templates \in {<<>>, TemplatesOf(s)}
    OBVIOUS
<1> HIDE DEF templates
<1>3. /\ after \in Dialog
      /\ after.source = picker.source /\ after.pick = picker.pick
      /\ after.loading = FALSE /\ after.templates = templates
    BY <1>1 DEF Dialog
<1>4. QED
    BY <1>2, <1>3 DEF templates

\* The two templates of a source are its own.
LEMMA TemplatesOwned ==
    ASSUME NEW s \in PickSources, NEW i \in DOMAIN TemplatesOf(s)
    PROVE  TemplatesOf(s)[i].of = s
BY DEF TemplatesOf

-----------------------------------------------------------------------------
(***************************************************************************)
(* Every step keeps the invariant.                                         *)
(***************************************************************************)
LEMMA PickerInitInv == PickerInit => PickerInv
<1> SUFFICES ASSUME PickerInit PROVE PickerInv
    OBVIOUS
<1>1. NoPick \in PickSources \cup {NoPick} /\ <<>> \in Shows /\ 0 \in 0..2
    BY DEF Shows
<1>2. picker \in Dialog /\ picker.source = NoPick /\ picker.pick = 0
    BY <1>1 DEF PickerInit, Dialog
<1>3. PickerTyped
    <2>1. pickerLists = 0 /\ pickerCalls = {} /\ pickerEvents = 0 /\ crossed = FALSE
        BY DEF PickerInit
    <2>2. pickerLists \in Nat /\ pickerEvents \in 0..MaxPickerEvents /\ pickerLists <= pickerEvents
        BY <2>1, PickBound
    <2>3. QED
        BY <1>2, <2>1, <2>2 DEF PickerTyped
<1>4. PickIsOfSource /\ WidgetOfItsSource
    BY <1>2 DEF PickerInit, PickIsOfSource, WidgetOfItsSource
<1>5. QED
    BY <1>3, <1>4 DEF PickerInv

\* An opened picker has neither a source nor a pick.
LEMMA OpenInv == PickerInv /\ OpenPicker => PickerInv'
<1> SUFFICES ASSUME PickerInv, OpenPicker PROVE PickerInv'
    OBVIOUS
<1>1. /\ picker' \in Dialog /\ picker'.source = NoPick /\ picker'.pick = 0
    BY OpenedIs DEF OpenPicker, PickerInv, PickerTyped
<1>2. PickerTyped'
    BY <1>1, PickBound DEF OpenPicker, PickerEvent, PickerInv, PickerTyped
<1>3. PickIsOfSource'
    BY <1>1 DEF PickIsOfSource
<1>4. WidgetOfItsSource'
    BY DEF OpenPicker, PickerInv, WidgetOfItsSource
<1>5. QED
    BY <1>2, <1>3, <1>4 DEF PickerInv

\* A closed picker keeps both, but can no longer add.
LEMMA PickerCloseInv == PickerInv /\ ClosePicker => PickerInv'
<1> SUFFICES ASSUME PickerInv, ClosePicker PROVE PickerInv'
    OBVIOUS
<1>1. /\ picker' \in Dialog
      /\ picker'.source = picker.source /\ picker'.pick = picker.pick
      /\ picker'.loading = picker.loading /\ picker'.templates = picker.templates
    BY DEF ClosePicker, PickerInv, PickerTyped, Dialog
<1>2. PickerTyped'
    BY <1>1, PickBound DEF ClosePicker, PickerEvent, PickerInv, PickerTyped
<1>3. PickIsOfSource' /\ WidgetOfItsSource'
    BY <1>1 DEF ClosePicker, PickerInv, PickIsOfSource, WidgetOfItsSource
<1>4. QED
    BY <1>2, <1>3 DEF PickerInv

\* A source is selected by the user.
LEMMA SelectInv == ASSUME PickerInv, NEW s \in PickSources, SelectSource(s) PROVE PickerInv'
<1>1. picker' \in Dialog /\ picker'.pick = 0 /\ picker'.loading = TRUE
    BY SelectedIs DEF SelectSource, PickerInv, PickerTyped
<1>2. PickerTyped'
    BY <1>1, PickBound DEF SelectSource, PickerEvent, LoadTemplates, PickerInv, PickerTyped
<1>3. PickIsOfSource'
    BY <1>1 DEF PickIsOfSource
<1>4. WidgetOfItsSource'
    BY DEF SelectSource, PickerInv, WidgetOfItsSource
<1>5. QED
    BY <1>2, <1>3, <1>4 DEF PickerInv

\* A list of the sources arrives; the templates of the selected one are asked
\* for once more.
LEMMA ListInv == ASSUME PickerInv, NEW works \in BOOLEAN, SourcesArrive(works) PROVE PickerInv'
<1>1. CASE works /\ picker.source # NoPick
    <2> DEFINE chosen == Selected(picker.source)
    <2>1. picker.source \in PickSources
        BY <1>1 DEF PickerInv, PickerTyped, Dialog
    <2>2. chosen \in Dialog /\ chosen.pick = 0 /\ chosen.loading = TRUE
        BY <2>1, SelectedIs DEF PickerInv, PickerTyped
    <2>3. picker' = [chosen EXCEPT !.listed = TRUE]
        BY <1>1 DEF SourcesArrive
    <2> HIDE DEF chosen
    <2>4. picker' \in Dialog /\ picker'.pick = 0 /\ picker'.loading = TRUE
        BY <2>2, <2>3 DEF Dialog
    <2>5. PickerTyped'
        BY <1>1, <2>1, <2>4, PickBound DEF SourcesArrive, LoadTemplates, PickerInv, PickerTyped
    <2>6. PickIsOfSource'
        BY <2>4 DEF PickIsOfSource
    <2>7. WidgetOfItsSource'
        BY DEF SourcesArrive, PickerInv, WidgetOfItsSource
    <2>8. QED
        BY <2>5, <2>6, <2>7 DEF PickerInv
<1>2. CASE ~(works /\ picker.source # NoPick)
    <2>1. picker' = [picker EXCEPT !.listed = @ \/ works]
        BY <1>2 DEF SourcesArrive
    <2>2. /\ picker' \in Dialog
          /\ picker'.source = picker.source /\ picker'.pick = picker.pick
          /\ picker'.loading = picker.loading /\ picker'.templates = picker.templates
        BY <2>1 DEF PickerInv, PickerTyped, Dialog
    <2>3. PickerTyped'
        BY <1>2, <2>2, PickBound DEF SourcesArrive, PickerInv, PickerTyped
    <2>4. PickIsOfSource' /\ WidgetOfItsSource'
        BY <2>2 DEF SourcesArrive, PickerInv, PickIsOfSource, WidgetOfItsSource
    <2>5. QED
        BY <2>3, <2>4 DEF PickerInv
<1>3. QED
    BY <1>1, <1>2

\* Templates arrive: of the selected source, or the crossing is on record.
LEMMA TemplatesInv ==
    ASSUME PickerInv, NEW c \in pickerCalls, NEW works \in BOOLEAN, TemplatesArrive(c, works)
    PROVE  PickerInv'
<1>1. c.of \in PickSources
    BY DEF PickerInv, PickerTyped
<1>2. /\ picker' \in Dialog
      /\ picker'.source = picker.source /\ picker'.pick = picker.pick
      /\ picker'.loading = FALSE
      /\ picker'.templates \in {<<>>, TemplatesOf(c.of)}
    BY <1>1, AnswerIs DEF TemplatesArrive, PickerInv, PickerTyped
<1>3. crossed' = (crossed \/ picker.source \notin {NoPick, c.of})
    BY DEF TemplatesArrive
<1>4. PickerTyped'
    BY <1>2, <1>3 DEF TemplatesArrive, PickerInv, PickerTyped
<1>5. PickIsOfSource'
    BY <1>2, <1>3 DEF PickerInv, PickerTyped, PickIsOfSource
<1>6. WidgetOfItsSource'
    BY <1>3 DEF TemplatesArrive, PickerInv, WidgetOfItsSource
<1>7. QED
    BY <1>4, <1>5, <1>6 DEF PickerInv

\* A pick is one of the templates that are shown, or is taken back.
LEMMA PickInv == ASSUME PickerInv, NEW i \in 1..2, PickTemplate(i) PROVE PickerInv'
<1> DEFINE pick == IF picker.pick = i THEN 0 ELSE i
<1>1. picker' = [picker EXCEPT !.pick = pick] /\ pick \in 0..2
    BY DEF PickTemplate
<1> HIDE DEF pick
<1>2. /\ picker' \in Dialog
      /\ picker'.source = picker.source /\ picker'.loading = picker.loading
      /\ picker'.templates = picker.templates
    BY <1>1 DEF PickerInv, PickerTyped, Dialog
<1>3. PickerTyped'
    BY <1>2, PickBound DEF PickTemplate, PickerEvent, PickerInv, PickerTyped
<1>4. PickIsOfSource' /\ WidgetOfItsSource'
    BY <1>2 DEF PickTemplate, PickerInv, PickIsOfSource, WidgetOfItsSource
<1>5. QED
    BY <1>3, <1>4 DEF PickerInv

\* The widget is added: of the source on show, as what was picked is.
LEMMA AddInv == PickerInv /\ HandleAdd => PickerInv'
<1> SUFFICES ASSUME PickerInv, HandleAdd PROVE PickerInv'
    OBVIOUS
<1>1. /\ picker' \in Dialog
      /\ picker'.source = picker.source /\ picker'.pick = picker.pick
      /\ picker'.loading = picker.loading /\ picker'.templates = picker.templates
    BY DEF HandleAdd, PickerInv, PickerTyped, Dialog
<1>2. PickerTyped'
    BY <1>1, PickBound DEF HandleAdd, PickerEvent, PickerInv, PickerTyped
<1>3. PickIsOfSource'
    BY <1>1 DEF HandleAdd, PickerInv, PickIsOfSource
<1>4. WidgetOfItsSource'
    <2> DEFINE added == [source |-> picker.source, template |-> picker.templates[picker.pick]]
    <2>1. CASE crossed
        BY <2>1 DEF HandleAdd, WidgetOfItsSource
    <2>2. CASE picker.pick \notin DOMAIN picker.templates
        BY <2>2 DEF HandleAdd, PickerInv, WidgetOfItsSource
    <2>3. CASE ~crossed /\ picker.pick \in DOMAIN picker.templates
        <3>1. picker.source \in PickSources
            BY DEF HandleAdd, PickerInv, PickerTyped, Dialog
        <3>2. picker.templates = TemplatesOf(picker.source)
            BY <2>3 DEF HandleAdd, PickerInv, PickIsOfSource
        <3>3. added.template.of = added.source
            BY <2>3, <3>1, <3>2, TemplatesOwned
        <3>4. widgets' = widgets \cup {added} /\ crossed' = crossed
            BY <2>3 DEF HandleAdd
        <3>5. QED
            BY <2>3, <3>3, <3>4 DEF PickerInv, WidgetOfItsSource
    <2>4. QED
        BY <2>1, <2>2, <2>3
<1>5. QED
    BY <1>2, <1>3, <1>4 DEF PickerInv

LEMMA PickerNextInv == PickerInv /\ [PickerNext]_pickerVars => PickerInv'
<1> SUFFICES ASSUME PickerInv, [PickerNext]_pickerVars PROVE PickerInv'
    OBVIOUS
<1>1. CASE OpenPicker \/ ClosePicker \/ HandleAdd
    BY <1>1, OpenInv, PickerCloseInv, AddInv
<1>2. ASSUME NEW works \in BOOLEAN,
             SourcesArrive(works) \/ \E c \in pickerCalls : TemplatesArrive(c, works)
      PROVE  PickerInv'
    BY <1>2, ListInv, TemplatesInv
<1>3. ASSUME NEW s \in PickSources, SelectSource(s)
      PROVE  PickerInv'
    BY <1>3, SelectInv
<1>4. ASSUME NEW i \in 1..2, PickTemplate(i)
      PROVE  PickerInv'
    BY <1>4, PickInv
<1>5. CASE UNCHANGED pickerVars
    BY <1>5 DEF pickerVars, PickerInv, PickerTyped, PickIsOfSource, WidgetOfItsSource
<1>6. QED
    BY <1>1, <1>2, <1>3, <1>4, <1>5 DEF PickerNext

\* The inductive invariant, in whatever order the user's steps and the answers
\* come.
THEOREM PickerInvariant == PickerSpec => []PickerInv
BY PickerInitInv, PickerNextInv, PTL DEF PickerSpec

LEMMA PickerInvTyped == PickerInv => PickerTypeOK
<1> SUFFICES ASSUME PickerInv PROVE PickerTypeOK
    OBVIOUS
<1>1. picker \in Dialog /\ pickerLists \in Nat /\ pickerEvents \in 0..MaxPickerEvents
      /\ pickerLists <= pickerEvents /\ \A c \in pickerCalls : c.of \in PickSources
    BY DEF PickerInv, PickerTyped
<1>2. Len(picker.templates) <= 2
    <2>1. ASSUME NEW shown \in Shows
          PROVE  Len(shown) <= 2
        <3>1. CASE shown = <<>>
            BY <3>1
        <3>2. ASSUME NEW s, shown = TemplatesOf(s)
              PROVE  Len(shown) <= 2
            <4>1. \A x, y : Len(<<x, y>>) = 2
                OBVIOUS
            <4>2. QED
                BY <3>2, <4>1 DEF TemplatesOf
        <3>3. QED
            BY <3>1, <3>2 DEF Shows
    <2>2. picker.templates \in Shows
        BY <1>1 DEF Dialog
    <2>3. QED
        BY <2>1, <2>2
<1>3. pickerLists \in 0..MaxPickerEvents
    BY <1>1, PickBound
<1>4. picker.source \in PickSources \cup {NoPick} /\ picker.pick \in 0..2
    BY <1>1 DEF Dialog
<1>5. QED
    BY <1>1, <1>2, <1>3, <1>4 DEF PickerTypeOK

LEMMA PickerInvAdds == PickerInv => WidgetOfItsSource
BY DEF PickerInv

\* A widget is added with a template of the source it is added for, unless an
\* answer came for another source than the selected one: neither a list that
\* arrives late nor an answer of an earlier opening can mix them up.
THEOREM AddsWidgetOfItsSource == PickerSpec => []WidgetOfItsSource
BY PickerInvAdds, PickerInvariant, PTL

=============================================================================
