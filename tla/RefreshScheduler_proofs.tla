----------------------- MODULE RefreshScheduler_proofs -----------------------
(***************************************************************************)
(* Proofs about the refresh scheduler, for every finite set of sources,    *)
(* every number of worker loops and fetch slots, every backoff table and   *)
(* refresh interval, and without regard to the bounds of the model.        *)
(***************************************************************************)
EXTENDS RefreshScheduler, FiniteSetTheorems, SequenceTheorems, TLAPS

\* The inductive invariant: who is queued and who is worked on make sense
\* only over records and a queue of the right types.
IInv == TypeOK /\ QueueOwnership

-----------------------------------------------------------------------------
(***************************************************************************)
(* The operators on records and retry windows stay in their types.         *)
(***************************************************************************)
LEMMA StateTyped ==
    ASSUME NEW record \in Record \cup {NoRecord},
           NEW status \in {"active", "refreshing", "failed"},
           NEW code \in Codes \cup {NoCode}, NEW time \in Nat
    PROVE  WithState(record, status, code, time) \in Record
BY DEF WithState, Record, NoTime

\* A success writes a record.
LEMMA SuccessTyped ==
    ASSUME NEW time \in Nat
    PROVE  Succeeded(time) \in Record
BY DEF Succeeded, Record

\* Retry metadata goes into a record, if there is one.
LEMMA MetaTyped ==
    ASSUME NEW record \in Record \cup {NoRecord}, NEW meta \in Meta \cup {NoMeta}
    PROVE  WithMeta(record, meta) \in Record \cup {NoRecord}
BY DEF WithMeta, Record

\* Every backoff is a number of time units.
LEMMA BackoffTyped == \A n \in 1..Len(Backoff) : Backoff[n] \in Nat
BY BackoffAssumption

\* What a tick reads is a window or none.
LEMMA ReadRetryTyped ==
    ASSUME TypeOK, NEW s \in Sources
    PROVE  ReadRetry(s) \in Meta \cup {NoMeta}
BY DEF TypeOK, ReadRetry, Record

\* The window of a retryable failure carries the code of that failure.
LEMMA WindowTyped ==
    ASSUME TypeOK, NEW s \in Sources, Retryable(s)
    PROVE  Window(s) \in Meta
<1>1. latest[s] \in Record /\ latest[s].code \in Codes /\ latest[s].updated \in Nat
    BY RetryCodesAssumption DEF TypeOK, Retryable, Record
<1>2. Backoff[1] \in Nat
    BY BackoffAssumption, BackoffTyped, Len(Backoff) >= 1
<1>3. QED
    BY <1>1, <1>2, ReadRetryTyped DEF Window, Meta

\* One more retry leaves a window, whether a next one follows or not.
LEMMA CountedTyped ==
    ASSUME NEW window \in Meta, now \in Nat
    PROVE  Counted(window) \in Meta
<1> DEFINE n == window.attempts + 1
<1>1. n \in Nat
    BY DEF Meta
<1>2. ASSUME n < Len(Backoff)
      PROVE  now + Backoff[n + 1] \in Nat
    BY <1>1, <1>2, BackoffAssumption, BackoffTyped, n + 1 \in 1..Len(Backoff)
<1>3. QED
    BY <1>1, <1>2 DEF Counted, Meta

\* What a tick leaves is a window or none.
LEMMA RetryTyped ==
    ASSUME TypeOK, NEW s \in Sources
    PROVE  RetryAfterTick(s) \in Meta \cup {NoMeta}
<1>1. CASE Retryable(s)
    <2>1. Window(s) \in Meta
        BY <1>1, WindowTyped
    <2>2. Counted(Window(s)) \in Meta
        BY <2>1, CountedTyped DEF TypeOK
    <2>3. QED
        BY <1>1, <2>1, <2>2 DEF RetryAfterTick
<1>2. CASE ~Retryable(s)
    BY <1>2, ReadRetryTyped DEF RetryAfterTick
<1>3. QED
    BY <1>1, <1>2

\* The history of a streak of failures stays in its type.
LEMMA StreakCounted ==
    ASSUME NEW failures \in [code : Codes \cup {NoCode}, retries : Nat]
    PROVE  [failures EXCEPT !.retries = @ + 1] \in [code : Codes \cup {NoCode}, retries : Nat]
<1>1. failures.retries + 1 \in Nat
    OBVIOUS
<1>2. QED
    BY <1>1

\* The history of the retries of a failure stays in its type.
History == [code : Codes \cup {NoCode}, retries : Nat, succeeded : BOOLEAN]

\* A tick keeps the history in its type, with one retry more or from anew.
LEMMA HistoryTyped ==
    ASSUME TypeOK, NEW s \in Sources
    PROVE  SpentAfterTick(s) \in History
<1> DEFINE soFar == IF spent[s].code = latest[s].code
                    THEN spent[s]
                    ELSE [spent[s] EXCEPT !.code = latest[s].code, !.retries = 0]
<1>1. spent[s] \in History /\ NoneSpent \in History
    BY DEF TypeOK, History, NoneSpent
<1>2. ASSUME Retryable(s)
      PROVE  SpentAfterTick(s) \in History
    <2>1. latest[s].code \in Codes
        BY <1>2, RetryCodesAssumption DEF Retryable
    <2>2. soFar \in History
        BY <1>1, <2>1 DEF History
    <2>3. SpentAfterTick(s) \in {soFar, [soFar EXCEPT !.retries = soFar.retries + 1]}
        BY <1>2 DEF SpentAfterTick
    <2>4. [soFar EXCEPT !.retries = soFar.retries + 1] \in History
        BY <2>2 DEF History
    <2>5. QED
        BY <2>2, <2>3, <2>4
<1>3. QED
    BY <1>1, <1>2 DEF SpentAfterTick

\* The records a step may write about a source, as its record is now.
LEMMA StatesTyped ==
    ASSUME TypeOK, NEW s \in Sources
    PROVE  /\ latest[s] \in Record \cup {NoRecord}
           /\ WithState(latest[s], "refreshing", NoCode, now) \in Record
           /\ WithState(latest[s], "active", NoCode, now) \in Record
           /\ \A code \in Codes \cup {NoCode} :
                 WithState(latest[s], "failed", code, now) \in Record
<1>1. latest[s] \in Record \cup {NoRecord} /\ now \in Nat
    BY BoundsAssumption DEF TypeOK
<1>2. QED
    BY <1>1, StateTyped

-----------------------------------------------------------------------------
(***************************************************************************)
(* The order in which a tick queues the sources that are due.              *)
(***************************************************************************)
\* It names every source that is due, and each of them once.
LEMMA OrderOnce ==
    ASSUME NEW due, IsFiniteSet(due),
           NEW order \in [1..Cardinality(due) -> due], Range(order) = due
    PROVE  /\ order \in Seq(due)
           /\ \A i, j \in DOMAIN order : order[i] = order[j] => i = j
<1> DEFINE n == Cardinality(due)
<1>1. n \in Nat
    BY FS_CardinalityType
<1>2. order \in Seq(due)
    BY <1>1
<1>3. IsFiniteSet(1..n) /\ Cardinality(1..n) = n
    BY <1>1, FS_Interval
<1>4. order \in Surjection(1..n, due)
    BY DEF Surjection, Range
<1>5. order \in Injection(1..n, due)
    BY <1>3, <1>4, FS_SurjSameCardinalityImpliesInj
<1>6. QED
    BY <1>2, <1>5 DEF Injection, IsInjective

\* What a queue gains by a tick: the sources that were due, none of which was
\* queued before.
LEMMA QueueGrows ==
    ASSUME NEW due \in SUBSET Sources, queue \in Seq(Sources),
           \A i, j \in DOMAIN queue : queue[i] = queue[j] => i = j,
           due \cap Range(queue) = {},
           NEW order \in [1..Cardinality(due) -> due], Range(order) = due
    PROVE  /\ queue \o order \in Seq(Sources)
           /\ Range(queue \o order) = Range(queue) \cup due
           /\ \A i, j \in DOMAIN (queue \o order) :
                 (queue \o order)[i] = (queue \o order)[j] => i = j
<1> DEFINE all == queue \o order
           k == Len(queue)
           n == Len(order)
<1>1. IsFiniteSet(due)
    BY SourcesAssumption, FS_Subset
<1>2. order \in Seq(due) /\ \A i, j \in DOMAIN order : order[i] = order[j] => i = j
    BY <1>1, OrderOnce
<1>3. order \in Seq(Sources)
    BY <1>2, SeqMonotonic
<1>4. k \in Nat /\ n \in Nat /\ DOMAIN queue = 1..k /\ DOMAIN order = 1..n
    BY <1>3, LenProperties
<1>5. /\ all \in Seq(Sources)
      /\ DOMAIN all = 1..(k + n)
      /\ \A i \in 1..(k + n) : all[i] = IF i <= k THEN queue[i] ELSE order[i - k]
    BY <1>3, <1>4, ConcatProperties, LenProperties
<1>6. \A i \in 1..k : all[i] = queue[i] /\ all[i] \in Range(queue)
    BY <1>4, <1>5 DEF Range
<1>7. \A i \in 1..(k + n) : i > k => all[i] = order[i - k] /\ i - k \in 1..n /\ all[i] \in due
    BY <1>4, <1>5 DEF Range
<1>8. Range(all) = Range(queue) \cup due
    <2>1. Range(all) \subseteq Range(queue) \cup due
        BY <1>4, <1>5, <1>6, <1>7 DEF Range
    <2>2. ASSUME NEW x \in Range(queue)
          PROVE  x \in Range(all)
        BY <1>4, <1>5, <1>6 DEF Range
    <2>3. ASSUME NEW x \in due
          PROVE  x \in Range(all)
        <3>1. PICK i \in 1..n : order[i] = x
            BY <1>4 DEF Range
        <3>2. k + i \in 1..(k + n) /\ k + i > k /\ (k + i) - k = i
            BY <1>4
        <3>3. QED
            BY <1>5, <1>7, <3>1, <3>2 DEF Range
    <2>4. QED
        BY <2>1, <2>2, <2>3
<1>9. ASSUME NEW i \in 1..(k + n), NEW j \in 1..(k + n), all[i] = all[j]
      PROVE  i = j
    <2>1. CASE i <= k /\ j <= k
        BY <1>4, <1>6, <1>9, <2>1
    <2>2. CASE i > k /\ j > k
        <3>1. order[i - k] = order[j - k] /\ i - k \in 1..n /\ j - k \in 1..n
            BY <1>7, <1>9, <2>2
        <3>2. i - k = j - k
            BY <1>2, <1>4, <3>1
        <3>3. QED
            BY <1>4, <3>2
    <2>3. CASE i <= k /\ j > k
        BY <1>4, <1>6, <1>7, <1>9, <2>3
    <2>4. CASE i > k /\ j <= k
        BY <1>4, <1>6, <1>7, <1>9, <2>4
    <2>5. QED
        BY <1>4, <2>1, <2>2, <2>3, <2>4
<1>10. QED
    BY <1>5, <1>8, <1>9

\* What a queue loses when a worker takes from it: its head, for good.
LEMMA QueueShrinks ==
    ASSUME queue \in Seq(Sources), queue # <<>>,
           \A i, j \in DOMAIN queue : queue[i] = queue[j] => i = j
    PROVE  /\ Tail(queue) \in Seq(Sources)
           /\ Head(queue) \in Sources
           /\ Range(Tail(queue)) = Range(queue) \ {Head(queue)}
           /\ \A i, j \in DOMAIN Tail(queue) : Tail(queue)[i] = Tail(queue)[j] => i = j
<1> DEFINE k == Len(queue)
<1>1. k \in Nat /\ k >= 1 /\ DOMAIN queue = 1..k
    BY EmptySeq, LenProperties
<1>2. /\ Tail(queue) \in Seq(Sources)
      /\ DOMAIN Tail(queue) = 1..(k - 1)
      /\ \A i \in 1..(k - 1) : i + 1 \in 1..k /\ Tail(queue)[i] = queue[i + 1]
    BY <1>1
<1>3. Head(queue) = queue[1] /\ 1 \in 1..k
    BY <1>1
<1>4. \A i \in 2..k : i - 1 \in 1..(k - 1) /\ Tail(queue)[i - 1] = queue[i] /\ i \in 1..k /\ i # 1
    BY <1>1, <1>2
<1>5. Range(Tail(queue)) \subseteq Range(queue) \ {Head(queue)}
    <2>1. ASSUME NEW i \in 1..(k - 1)
          PROVE  Tail(queue)[i] \in Range(queue) \ {Head(queue)}
        <3>1. i + 1 \in 1..k /\ i + 1 # 1 /\ Tail(queue)[i] = queue[i + 1]
            BY <1>1, <1>2
        <3>2. queue[i + 1] # queue[1]
            BY <1>1, <1>3, <3>1
        <3>3. QED
            BY <1>1, <1>3, <3>1, <3>2 DEF Range
    <2>2. QED
        BY <1>2, <2>1 DEF Range
<1>6. Range(queue) \ {Head(queue)} \subseteq Range(Tail(queue))
    <2>1. ASSUME NEW i \in 1..k, queue[i] # queue[1]
          PROVE  queue[i] \in Range(Tail(queue))
        <3>1. i \in 2..k
            BY <1>1, <2>1
        <3>2. i - 1 \in DOMAIN Tail(queue) /\ Tail(queue)[i - 1] = queue[i]
            BY <1>2, <1>4, <3>1
        <3>3. QED
            BY <3>2 DEF Range
    <2>2. QED
        BY <1>1, <1>3, <2>1 DEF Range
<1>7. ASSUME NEW i \in 1..(k - 1), NEW j \in 1..(k - 1), Tail(queue)[i] = Tail(queue)[j]
      PROVE  i = j
    BY <1>1, <1>2, <1>7
<1>8. Head(queue) \in Sources
    BY <1>1, <1>3
<1>9. QED
    BY <1>2, <1>5, <1>6, <1>7, <1>8

\* Calling the executor writes at most the record and the fetch of the source,
\* and the fetch of that source is in flight afterwards.
LEMMA FetchCalled ==
    ASSUME TypeOK, NEW s \in Sources, NEW record \in Record \cup {NoRecord},
           CallFetch(s, record)
    PROVE  /\ latest' \in [Sources -> Record \cup {NoRecord}]
           /\ fetch' \in [Sources -> InFlight \cup {"none"}]
           /\ fetch'[s] \in InFlight
           /\ \A r \in Sources : r # s => fetch'[r] = fetch[r]
<1>1. /\ now \in Nat
      /\ latest \in [Sources -> Record \cup {NoRecord}]
      /\ fetch \in [Sources -> InFlight \cup {"none"}]
    BY DEF TypeOK
<1>2. WithState(record, "active", NoCode, now) \in Record
    BY <1>1, StateTyped
<1>3. "running" \in InFlight /\ "waiting" \in InFlight
    BY DEF InFlight
<1>4. /\ \/ latest' = [latest EXCEPT ![s] = record]
         \/ latest' = [latest EXCEPT ![s] = WithState(record, "active", NoCode, now)]
      /\ \/ fetch[s] \in InFlight /\ fetch' = fetch
         \/ fetch' = [fetch EXCEPT ![s] = "running"]
         \/ fetch' = [fetch EXCEPT ![s] = "waiting"]
    BY DEF CallFetch
<1>5. latest' \in [Sources -> Record \cup {NoRecord}]
    BY <1>1, <1>2, <1>4
<1>6. /\ fetch' \in [Sources -> InFlight \cup {"none"}]
      /\ fetch'[s] \in InFlight
      /\ \A r \in Sources : r # s => fetch'[r] = fetch[r]
    BY <1>1, <1>3, <1>4
<1>7. QED
    BY <1>5, <1>6

-----------------------------------------------------------------------------
(***************************************************************************)
(* Every step keeps the invariant.                                         *)
(***************************************************************************)
LEMMA InitInv == Init => IInv
<1> SUFFICES ASSUME Init PROVE IInv
    OBVIOUS
<1>1. TypeOK
    BY BoundsAssumption DEF Init, TypeOK, NoStreak, NoneSpent
<1>2. QueueOwnership
    <2>1. Range(queue) = {} /\ DOMAIN queue = {}
        BY DEF Init, Range
    <2>2. Cardinality(working) = 0
        BY FS_EmptySet DEF Init
    <2>3. QED
        BY <2>1, <2>2, WorkersAssumption DEF Init, QueueOwnership
<1>3. QED
    BY <1>1, <1>2 DEF IInv

\* A tick queues what is due, and no worker or fetch is concerned.
LEMMA TickInv == IInv /\ Tick => IInv'
<1> SUFFICES ASSUME TypeOK, QueueOwnership, Tick PROVE TypeOK' /\ QueueOwnership'
    BY DEF IInv
<1> DEFINE due == {s \in stored : RetryDue(s) \/ RefreshDue(s)}
<1>1. PICK order \in [1..Cardinality(due) -> due] :
         Range(order) = due /\ queue' = queue \o order
    BY DEF Tick
<1>2. due \in SUBSET Sources /\ due \cap Range(queue) = {} /\ due \cap working = {}
    BY DEF TypeOK, RetryDue, RefreshDue, Enqueueable
<1>3. /\ queue' \in Seq(Sources)
      /\ Range(queue') = Range(queue) \cup due
      /\ \A i, j \in DOMAIN queue' : queue'[i] = queue'[j] => i = j
    <2>1. queue \in Seq(Sources) /\ \A i, j \in DOMAIN queue : queue[i] = queue[j] => i = j
        BY DEF TypeOK, QueueOwnership
    <2>2. QED
        BY <1>1, <1>2, <2>1, QueueGrows
<1>4. TypeOK'
    <2>1. cache' \in [Sources -> Meta \cup {NoMeta}]
        BY RetryTyped DEF Tick, TypeOK
    <2>2. latest' \in [Sources -> Record \cup {NoRecord}]
        <3>1. \A s \in Sources :
                 /\ latest[s] \in Record \cup {NoRecord}
                 /\ WithMeta(latest[s], RetryAfterTick(s)) \in Record \cup {NoRecord}
            BY RetryTyped, MetaTyped DEF TypeOK
        <3>2. QED
            BY <3>1 DEF Tick
    <2>3. streak' \in [Sources -> [code : Codes \cup {NoCode}, retries : Nat]]
        <3>1. \A s \in Sources :
                 [streak[s] EXCEPT !.retries = @ + 1]
                 \in [code : Codes \cup {NoCode}, retries : Nat]
            BY StreakCounted DEF TypeOK
        <3>2. QED
            BY <3>1 DEF Tick, TypeOK
    <2>4. lastRetry' \in [Sources -> Nat \cup {NoTime}]
        BY DEF Tick, TypeOK
    <2>5. spent' \in [Sources -> History]
        BY HistoryTyped DEF Tick, TypeOK, History
    <2>6. QED
        BY <1>3, <2>1, <2>2, <2>3, <2>4, <2>5 DEF TypeOK, Tick, History
<1>5. QueueOwnership'
    BY <1>2, <1>3 DEF QueueOwnership, Tick
<1>6. QED
    BY <1>4, <1>5

\* A worker takes the head of the queue, to drop it ...
LEMMA DropQueuedInv == IInv /\ DropQueued => IInv'
<1> SUFFICES ASSUME TypeOK, QueueOwnership, DropQueued PROVE TypeOK' /\ QueueOwnership'
    BY DEF IInv
<1>1. /\ queue' \in Seq(Sources)
      /\ Range(queue') \subseteq Range(queue)
      /\ \A i, j \in DOMAIN queue' : queue'[i] = queue'[j] => i = j
    BY QueueShrinks DEF DropQueued, TypeOK, QueueOwnership
<1>2. TypeOK'
    BY <1>1 DEF TypeOK, DropQueued
<1>3. QueueOwnership'
    BY <1>1 DEF QueueOwnership, DropQueued
<1>4. QED
    BY <1>2, <1>3

\* ... or to work on it.
LEMMA TakeQueuedInv == IInv /\ TakeQueued => IInv'
<1> SUFFICES ASSUME TypeOK, QueueOwnership, TakeQueued PROVE TypeOK' /\ QueueOwnership'
    BY DEF IInv
<1> DEFINE s == Head(queue)
           busy == IF fetch[s] \in InFlight THEN working ELSE working \cup {s}
<1>1. /\ queue' \in Seq(Sources)
      /\ s \in Sources
      /\ Range(queue') = Range(queue) \ {s}
      /\ \A i, j \in DOMAIN queue' : queue'[i] = queue'[j] => i = j
    BY QueueShrinks DEF TakeQueued, TypeOK, QueueOwnership
<1>2. s \notin working /\ working' = busy
    BY DEF TakeQueued
<1>3. /\ latest' \in [Sources -> Record \cup {NoRecord}]
      /\ fetch' \in [Sources -> InFlight \cup {"none"}]
      /\ fetch'[s] \in InFlight
      /\ \A r \in Sources : r # s => fetch'[r] = fetch[r]
    <2>1. latest[s] \in Record \cup {NoRecord} /\ now \in Nat
        BY <1>1 DEF TypeOK
    <2>2. WithState(latest[s], "refreshing", NoCode, now) \in Record \cup {NoRecord}
        BY <2>1, StateTyped
    <2>3. CallFetch(s, WithState(latest[s], "refreshing", NoCode, now))
        BY DEF TakeQueued
    <2>4. QED
        BY <1>1, <2>2, <2>3, FetchCalled
<1>4. TypeOK'
    BY <1>1, <1>2, <1>3 DEF TypeOK, TakeQueued
<1>5. Range(queue') \cap working' = {}
    BY <1>1, <1>2 DEF QueueOwnership
<1>6. \A r \in working' : fetch'[r] \in InFlight
    BY <1>1, <1>2, <1>3 DEF QueueOwnership, TypeOK
<1>7. Cardinality(working') <= Workers
    <2>1. IsFiniteSet(working)
        BY SourcesAssumption, FS_Subset DEF TypeOK
    <2>2. /\ Cardinality(working) \in Nat
          /\ Cardinality(working \cup {s}) = Cardinality(working) + 1
        BY <1>2, <2>1, FS_AddElement, FS_CardinalityType
    <2>3. Cardinality(working) < Workers
        BY DEF TakeQueued
    <2>4. QED
        BY <1>2, <2>2, <2>3, WorkersAssumption
<1>8. QueueOwnership'
    BY <1>1, <1>5, <1>6, <1>7 DEF QueueOwnership
<1>9. QED
    BY <1>4, <1>8

\* A step that writes records and the counters of the bounds, and leaves the
\* queue, the workers and the fetches alone.
LEMMA RecordStepInv ==
    ASSUME TypeOK, QueueOwnership, NEW s \in Sources,
           \/ RefreshSource(s) \/ ReportMissing(s) \/ StepBegins(s) \/ DeleteSource(s)
           \/ ScraperCompletes(s) \/ \E code \in Codes : ScraperFails(s, code)
    PROVE  TypeOK' /\ QueueOwnership'
<1>1. /\ latest[s] \in Record \cup {NoRecord}
      /\ WithState(latest[s], "refreshing", NoCode, now) \in Record
      /\ WithState(latest[s], "failed", NoCode, now) \in Record
      /\ WithState(latest[s], "active", NoCode, now) \in Record
    BY StatesTyped
<1>2. TypeOK'
    <2>1. CASE RefreshSource(s)
        BY <1>1, <2>1, BoundsAssumption DEF TypeOK, RefreshSource
    <2>2. CASE ReportMissing(s)
        BY <1>1, <2>2, BoundsAssumption DEF TypeOK, ReportMissing
    <2>3. CASE StepBegins(s)
        BY <1>1, <2>3 DEF TypeOK, StepBegins
    <2>4. CASE DeleteSource(s)
        BY <1>1, <2>4 DEF TypeOK, DeleteSource
    <2>5. CASE ScraperCompletes(s)
        <3>1. /\ latest' = [latest EXCEPT ![s] = WithState(latest[s], "refreshing", NoCode, now)]
              /\ scraping' \subseteq Sources
              /\ UNCHANGED <<now, stored, cache, queue, working, fetch, manual, crashes,
                             streak, spent, lastRetry>>
            BY <2>5 DEF TypeOK, ScraperCompletes
        <3>2. scheduled' \in [Sources -> Nat] /\ unresumed' \subseteq Sources
            <4>1. scheduled' = scheduled \/ scheduled' = [scheduled EXCEPT ![s] = scheduled[s] + 1]
                BY <2>5 DEF ScraperCompletes
            <4>2. unresumed' \subseteq unresumed \cup {s}
                BY <2>5 DEF ScraperCompletes
            <4>3. QED
                BY <4>1, <4>2 DEF TypeOK
        <3>3. latest' \in [Sources -> Record \cup {NoRecord}]
            BY <1>1, <3>1 DEF TypeOK
        <3>4. QED
            BY <3>1, <3>2, <3>3 DEF TypeOK
    <2>6. ASSUME NEW code \in Codes, ScraperFails(s, code)
          PROVE  TypeOK'
        <3>1. latest' \in [Sources -> Record \cup {NoRecord}]
            <4>1. WithState(latest[s], "failed", code, now) \in Record
                BY StatesTyped
            <4>2. \/ latest' = [latest EXCEPT ![s] = WithState(latest[s], "failed", code, now)]
                  \/ latest' = latest
                BY <2>6 DEF ScraperFails
            <4>3. QED
                BY <4>1, <4>2 DEF TypeOK
        <3>2. streak' \in [Sources -> [code : Codes \cup {NoCode}, retries : Nat]]
            <4>1. [code |-> code, retries |-> 0] \in [code : Codes \cup {NoCode}, retries : Nat]
                OBVIOUS
            <4>2. \/ streak' = [streak EXCEPT ![s] =
                                   IF streak[s].code = code
                                   THEN streak[s] ELSE [code |-> code, retries |-> 0]]
                  \/ streak' = streak
                BY <2>6 DEF ScraperFails
            <4>3. QED
                BY <4>1, <4>2 DEF TypeOK
        <3>3. /\ scraping' \subseteq Sources
              /\ UNCHANGED <<now, stored, cache, queue, working, fetch, scheduled,
                             manual, crashes, spent, lastRetry, unresumed>>
            BY <2>6 DEF TypeOK, ScraperFails
        <3>4. QED
            BY <3>1, <3>2, <3>3 DEF TypeOK
    <2>7. QED
        BY <2>1, <2>2, <2>3, <2>4, <2>5, <2>6
<1>3. UNCHANGED <<queue, working, fetch>>
    BY DEF RefreshSource, ReportMissing, StepBegins, DeleteSource, ScraperCompletes,
           ScraperFails
<1>4. QED
    BY <1>2, <1>3 DEF QueueOwnership

\* A step of a fetch that stays in flight.
LEMMA FetchStepInv ==
    ASSUME TypeOK, QueueOwnership, NEW s \in Sources,
           RunScheduled(s) \/ Admit(s) \/ TokenRefreshed(s)
    PROVE  TypeOK' /\ QueueOwnership'
<1>1. /\ latest[s] \in Record \cup {NoRecord}
      /\ WithState(latest[s], "refreshing", NoCode, now) \in Record
      /\ WithState(latest[s], "active", NoCode, now) \in Record
    BY StatesTyped
<1>2. /\ latest' \in [Sources -> Record \cup {NoRecord}]
      /\ fetch' \in [Sources -> InFlight \cup {"none"}]
      /\ fetch'[s] \in InFlight
      /\ \A r \in Sources : r # s => fetch'[r] = fetch[r]
    <2>1. CASE RunScheduled(s)
        BY <1>1, <2>1, FetchCalled DEF RunScheduled
    <2>2. CASE Admit(s)
        BY <1>1, <2>2 DEF Admit, TypeOK, InFlight
    <2>3. CASE TokenRefreshed(s)
        BY <1>1, <2>3 DEF TokenRefreshed, TypeOK, InFlight
    <2>4. QED
        BY <2>1, <2>2, <2>3
<1>3. TypeOK'
    <2>1. scheduled' \in [Sources -> Nat]
        <3>1. CASE RunScheduled(s)
            <4>1. scheduled[s] \in Nat /\ scheduled[s] > 0
                BY <3>1 DEF TypeOK, RunScheduled
            <4>2. QED
                BY <3>1, <4>1 DEF TypeOK, RunScheduled
        <3>2. CASE Admit(s) \/ TokenRefreshed(s)
            BY <3>2 DEF TypeOK, Admit, TokenRefreshed
        <3>3. QED
            BY <3>1, <3>2
    <2>2. QED
        BY <1>2, <2>1 DEF TypeOK, RunScheduled, Admit, TokenRefreshed
<1>4. QueueOwnership'
    <2>1. UNCHANGED <<queue, working>>
        BY DEF RunScheduled, Admit, TokenRefreshed
    <2>2. \A r \in working : fetch'[r] \in InFlight
        BY <1>2 DEF QueueOwnership, TypeOK
    <2>3. QED
        BY <2>1, <2>2 DEF QueueOwnership
<1>5. QED
    BY <1>3, <1>4

\* A fetch ends, and with it the work of the worker that ran it.
LEMMA FetchEndInv ==
    ASSUME TypeOK, QueueOwnership, NEW s \in Sources,
           FetchSucceeds(s) \/ \E code \in Codes \cup {NoCode} : FetchFails(s, code)
    PROVE  TypeOK' /\ QueueOwnership'
<1>1. latest' \in [Sources -> Record \cup {NoRecord}]
    <2>1. CASE FetchSucceeds(s)
        BY <2>1, SuccessTyped DEF FetchSucceeds, TypeOK
    <2>2. CASE \E code \in Codes \cup {NoCode} : FetchFails(s, code)
        <3>1. PICK code \in Codes \cup {NoCode} : FetchFails(s, code)
            BY <2>2
        <3>2. WithState(latest[s], "failed", code, now) \in Record
            BY StatesTyped
        <3>3. QED
            BY <3>1, <3>2 DEF FetchFails, TypeOK
    <2>3. QED
        BY <2>1, <2>2
<1>2. streak' \in [Sources -> [code : Codes \cup {NoCode}, retries : Nat]]
    <2>1. CASE FetchSucceeds(s)
        BY <2>1 DEF FetchSucceeds, TypeOK, NoStreak
    <2>2. CASE \E code \in Codes \cup {NoCode} : FetchFails(s, code)
        <3>1. PICK code \in Codes \cup {NoCode} : FetchFails(s, code)
            BY <2>2
        <3>2. [code |-> code, retries |-> 0] \in [code : Codes \cup {NoCode}, retries : Nat]
            OBVIOUS
        <3>3. QED
            BY <3>1, <3>2 DEF FetchFails, TypeOK
    <2>3. QED
        BY <2>1, <2>2
<1>9. spent' \in [Sources -> History]
    <2>1. CASE FetchSucceeds(s)
        <3>1. [spent[s] EXCEPT !.retries = 0, !.succeeded = TRUE] \in History
            BY DEF TypeOK, History
        <3>2. QED
            BY <2>1, <3>1 DEF FetchSucceeds, TypeOK, History
    <2>2. CASE \E code \in Codes \cup {NoCode} : FetchFails(s, code)
        BY <2>2 DEF FetchFails, TypeOK, History
    <2>3. QED
        BY <2>1, <2>2
<1>3. /\ fetch' = [fetch EXCEPT ![s] = "none"]
      /\ working' = working \ {s}
      /\ UNCHANGED <<now, stored, cache, queue, scheduled, crashes, lastRetry,
                     unresumed>>
    BY DEF FetchSucceeds, FetchFails
<1>8. scraping' \subseteq Sources /\ manual' \in 0..MaxManual
    BY BoundsAssumption DEF FetchSucceeds, FetchFails, TypeOK
<1>4. TypeOK'
    BY <1>1, <1>2, <1>3, <1>8, <1>9 DEF TypeOK, History
<1>5. Cardinality(working') <= Workers
    <2>1. IsFiniteSet(working)
        BY SourcesAssumption, FS_Subset DEF TypeOK
    <2>2. Cardinality(working') <= Cardinality(working)
        BY <1>3, <2>1, FS_Subset
    <2>3. Cardinality(working) \in Nat /\ Cardinality(working') \in Nat
        BY <1>3, <2>1, FS_RemoveElement, FS_CardinalityType
    <2>4. QED
        BY <2>2, <2>3, WorkersAssumption DEF QueueOwnership
<1>6. QueueOwnership'
    BY <1>3, <1>5 DEF QueueOwnership, TypeOK
<1>7. QED
    BY <1>4, <1>6

\* After a restart nothing is queued and nobody works.
LEMMA RestartInv == IInv /\ Restart => IInv'
<1> SUFFICES ASSUME TypeOK, QueueOwnership, Restart PROVE TypeOK' /\ QueueOwnership'
    BY DEF IInv
<1>1. TypeOK'
    BY BoundsAssumption DEF TypeOK, Restart
<1>2. Range(queue') = {} /\ DOMAIN queue' = {}
    BY DEF Restart, Range
<1>3. Cardinality(working') = 0
    BY FS_EmptySet DEF Restart
<1>4. QueueOwnership'
    BY <1>2, <1>3, WorkersAssumption DEF QueueOwnership, Restart
<1>5. QED
    BY <1>1, <1>4

\* A fetch that ripens is still in flight.
LEMMA TimePassesInv == IInv /\ TimePasses => IInv'
<1> SUFFICES ASSUME TypeOK, QueueOwnership, TimePasses PROVE TypeOK' /\ QueueOwnership'
    BY DEF IInv
<1>1. fetch' \in [Sources -> InFlight \cup {"none"}]
    BY DEF TimePasses, TypeOK, InFlight
<1>2. \A s \in Sources : fetch[s] \in InFlight => fetch'[s] \in InFlight
    BY DEF TimePasses, TypeOK, InFlight
<1>3. TypeOK'
    BY <1>1, BoundsAssumption DEF TypeOK, TimePasses
<1>4. QueueOwnership'
    BY <1>2 DEF QueueOwnership, TimePasses, TypeOK
<1>5. QED
    BY <1>3, <1>4

-----------------------------------------------------------------------------
(***************************************************************************)
(* The budget of a window.                                                 *)
(***************************************************************************)
\* What ties the retries a failure had to its window: they are on the record,
\* so that no restart loses them, and a window that is dropped because of a
\* success is older than a success that no tick has seen.
Budgeted(record, cached, history, time) ==
    /\ history.retries <= Len(Backoff)
    /\ history.retries > 0 =>
          /\ record # NoRecord
          /\ record.meta # NoMeta
          /\ record.meta.signature = history.code
          /\ history.retries <= record.meta.attempts
    /\ record # NoRecord =>
          /\ record.success <= record.updated
          /\ record.updated <= time
    /\ record # NoRecord /\ ~history.succeeded =>
          /\ record.meta # NoMeta => record.success <= record.meta.first
          /\ cached # NoMeta => record.success <= cached.first

BudgetKept == \A s \in stored : Budgeted(latest[s], cache[s], spent[s], now)

\* A change of the state of a source is no reset.
LEMMA StateBudgeted ==
    ASSUME NEW record \in Record \cup {NoRecord}, NEW cached \in Meta \cup {NoMeta},
           NEW history \in History, NEW time \in Nat,
           Budgeted(record, cached, history, time),
           NEW status \in {"active", "refreshing", "failed"},
           NEW code \in Codes \cup {NoCode}
    PROVE  Budgeted(WithState(record, status, code, time), cached, history, time)
<1>1. CASE record = NoRecord
    <2> DEFINE new == WithState(record, status, code, time)
    <2>1. new.success = -1 /\ new.updated = time /\ new.meta = NoMeta
        BY <1>1 DEF WithState, NoTime
    <2>2. history.retries <= Len(Backoff) /\ ~(history.retries > 0)
        BY <1>1 DEF Budgeted
    <2>3. cached # NoMeta => -1 <= cached.first
        BY DEF Meta
    <2>4. QED
        BY <2>1, <2>2, <2>3 DEF Budgeted
<1>2. CASE record # NoRecord
    <2>1. record \in Record
        BY <1>2
    <2> DEFINE new == WithState(record, status, code, time)
    <2>2. /\ new.success = record.success
          /\ new.updated = time
          /\ new.meta = record.meta
        BY <1>2, <2>1 DEF WithState, Record
    <2>3. new # NoRecord
        BY StateTyped, RecordAssumption
    <2>4. record.success <= time
        BY <1>2, <2>1 DEF Budgeted, Record, NoTime
    <2>5. QED
        BY <1>2, <2>2, <2>3, <2>4 DEF Budgeted
<1>3. QED
    BY <1>1, <1>2

\* A success replaces the record, its window included; the cached one stays.
LEMMA SuccessBudgeted ==
    ASSUME NEW record \in Record \cup {NoRecord}, NEW cached \in Meta \cup {NoMeta},
           NEW history \in History, NEW time \in Nat
    PROVE  Budgeted(Succeeded(time), cached,
                    [history EXCEPT !.retries = 0, !.succeeded = TRUE], time)
<1> DEFINE now_ == [history EXCEPT !.retries = 0, !.succeeded = TRUE]
           new == Succeeded(time)
<1>1. now_.retries = 0 /\ now_.succeeded = TRUE
    BY DEF History
<1>2. new.success = time /\ new.updated = time
    BY DEF Succeeded
<1>3. 0 <= Len(Backoff)
    BY BackoffAssumption
<1>4. QED
    BY <1>1, <1>2, <1>3 DEF Budgeted

\* Neither time nor the loss of the cache changes anything.
LEMMA LaterBudgeted ==
    ASSUME NEW record \in Record \cup {NoRecord}, NEW cached, NEW history \in History,
           NEW time \in Nat, NEW later \in Nat, time <= later,
           Budgeted(record, cached, history, time)
    PROVE  Budgeted(record, cached, history, later) /\ Budgeted(record, NoMeta, history, time)
BY DEF Budgeted, Record

\* The record a tick leaves.
RecordAfterTick(s) ==
    IF RetryAfterTick(s) # ReadRetry(s) THEN WithMeta(latest[s], RetryAfterTick(s)) ELSE latest[s]

\* A tick that sees a retryable failure goes on with the window on the record,
\* if the failure had retries, and counts the one it queues there.
LEMMA FailureBudgeted ==
    ASSUME TypeOK, NEW s \in Sources, Retryable(s),
           Budgeted(latest[s], cache[s], spent[s], now)
    PROVE  Budgeted(RecordAfterTick(s), RetryAfterTick(s), SpentAfterTick(s), now)
<1> DEFINE old == latest[s]
           new == RecordAfterTick(s)
           window == Window(s)
           left == RetryAfterTick(s)
           history == SpentAfterTick(s)
           soFar == IF spent[s].code = latest[s].code
                    THEN spent[s]
                    ELSE [spent[s] EXCEPT !.code = latest[s].code, !.retries = 0]
<1>1. /\ old \in Record /\ old # NoRecord /\ old.code \in Codes
      /\ spent[s] \in History /\ now \in Nat
    BY RetryCodesAssumption DEF TypeOK, Retryable, History
<1>2. window \in Meta /\ window.signature = old.code /\ window # NoMeta
    BY WindowTyped, MetaAssumption DEF Window
<1>3. ReadRetry(s) \in Meta \cup {NoMeta}
    BY ReadRetryTyped
\* the window on record is older than the last success only if that is unseen
<1>4. ~spent[s].succeeded => old.success <= window.first
    <2>1. CASE window = ReadRetry(s)
        BY <1>1, <1>2, <2>1 DEF ReadRetry, Budgeted
    <2>2. CASE window # ReadRetry(s)
        <3>1. window.first = old.updated
            BY <2>2 DEF Window
        <3>2. QED
            BY <1>1, <3>1 DEF Budgeted
    <2>3. QED
        BY <2>1, <2>2
\* retries so far are on that window
<1>5. soFar.retries > 0 =>
          old.meta # NoMeta /\ window = old.meta /\ soFar.retries <= window.attempts
    BY <1>1 DEF Budgeted, Window, ReadRetry, History
<1>6. /\ soFar \in History
      /\ soFar.code = old.code
      /\ soFar.succeeded = spent[s].succeeded
      /\ soFar.retries <= Len(Backoff)
    <2>1. Len(Backoff) \in Nat /\ spent[s].retries <= Len(Backoff)
        BY BackoffAssumption DEF Budgeted
    <2>2. CASE spent[s].code = latest[s].code
        BY <1>1, <2>1, <2>2
    <2>3. CASE spent[s].code # latest[s].code
        <3>1. soFar = [spent[s] EXCEPT !.code = latest[s].code, !.retries = 0]
            BY <2>3
        <3>2. /\ soFar \in History /\ soFar.code = old.code /\ soFar.retries = 0
              /\ soFar.succeeded = spent[s].succeeded
            BY <1>1, <3>1 DEF History
        <3>3. 0 <= Len(Backoff)
            BY <2>1
        <3>4. QED
            BY <3>2, <3>3
    <2>4. QED
        BY <2>2, <2>3
<1>7. CASE RetryDue(s)
    <2>1. left = Counted(window) /\ history = [soFar EXCEPT !.retries = soFar.retries + 1]
        BY <1>7 DEF RetryAfterTick, SpentAfterTick
    <2>2. /\ left \in Meta
          /\ left.signature = window.signature
          /\ left.first = window.first
          /\ left.attempts = window.attempts + 1
        BY <1>1, <1>2, <2>1, CountedTyped DEF Counted, Meta
    <2>3. /\ history.retries = soFar.retries + 1
          /\ history.code = old.code
          /\ history.succeeded = spent[s].succeeded
        BY <1>6, <2>1 DEF History
    <2>4. left # ReadRetry(s)
        <3>1. ASSUME left = ReadRetry(s)
              PROVE  FALSE
            <4>1. left.signature = latest[s].code /\ left # NoMeta
                BY <1>2, <2>2, MetaAssumption
            <4>2. window = left
                BY <3>1, <4>1 DEF Window
            <4>3. QED
                BY <1>2, <2>2, <4>2 DEF Meta
        <3>2. QED
            BY <3>1
    <2>5. new = [old EXCEPT !.meta = left]
        BY <1>1, <2>4 DEF RecordAfterTick, WithMeta
    <2>6. /\ new # NoRecord
          /\ new.meta = left /\ new.success = old.success /\ new.updated = old.updated
        BY <1>1, <2>2, <2>5, RecordAssumption DEF Record
    <2>7. soFar.retries <= window.attempts /\ window.attempts < Len(Backoff)
        BY <1>2, <1>5, <1>6, <1>7 DEF RetryDue, Meta, History
    <2>8. history.retries <= left.attempts /\ history.retries <= Len(Backoff)
        BY <1>2, <1>6, <2>2, <2>3, <2>7, BackoffAssumption DEF Meta, History
    <2>9. left # NoMeta
        BY <2>2, MetaAssumption
    <2>10. old.success <= old.updated /\ old.updated <= now
        BY <1>1 DEF Budgeted
    <2>11. QED
        BY <1>2, <1>4, <2>2, <2>3, <2>6, <2>8, <2>9, <2>10 DEF Budgeted
<1>8. CASE ~RetryDue(s)
    <2>1. left = window /\ history = soFar
        BY <1>8 DEF RetryAfterTick, SpentAfterTick
    <2>2. new = old \/ new = [old EXCEPT !.meta = window]
        BY <1>1, <2>1 DEF RecordAfterTick, WithMeta
    <2>3. /\ new # NoRecord
          /\ new.meta = old.meta \/ new.meta = window
          /\ new.success = old.success /\ new.updated = old.updated
        BY <1>1, <1>2, <2>2, RecordAssumption DEF Record
    <2>4. old.success <= old.updated /\ old.updated <= now
        BY <1>1 DEF Budgeted
    <2>5. ~spent[s].succeeded /\ old.meta # NoMeta => old.success <= old.meta.first
        BY <1>1 DEF Budgeted
    <2>6. QED
        BY <1>2, <1>4, <1>5, <1>6, <2>1, <2>3, <2>4, <2>5 DEF Budgeted
<1>9. QED
    BY <1>7, <1>8

\* Another tick drops the window where it drops the history, and where a
\* success that no tick has seen yet began the history anew.
LEMMA TickBudgeted ==
    ASSUME TypeOK, NEW s \in Sources,
           Budgeted(latest[s], cache[s], spent[s], now)
    PROVE  Budgeted(RecordAfterTick(s), RetryAfterTick(s), SpentAfterTick(s), now)
<1> DEFINE old == latest[s]
           new == RecordAfterTick(s)
           left == RetryAfterTick(s)
           history == SpentAfterTick(s)
           kept == /\ old # NoRecord
                   /\ old.status = "active"
                   /\ ReadRetry(s) # NoMeta
                   /\ old.success <= ReadRetry(s).first
<1>1. /\ old \in Record \cup {NoRecord}
      /\ cache[s] \in Meta \cup {NoMeta}
      /\ spent[s] \in History /\ now \in Nat
    BY DEF TypeOK, History
<1>2. CASE Retryable(s)
    BY <1>2, FailureBudgeted
<1>3. CASE ~Retryable(s) /\ kept
    <2>1. left = ReadRetry(s) /\ new = old
        BY <1>3 DEF RetryAfterTick, RecordAfterTick
    <2>2. (history = spent[s] /\ ~spent[s].succeeded) \/ history = NoneSpent
        BY <1>1, <1>3 DEF SpentAfterTick, History
    <2>3. old.meta = NoMeta \/ ReadRetry(s) = old.meta
        BY <1>3 DEF ReadRetry
    <2>4. old.success <= old.updated /\ old.updated <= now
        BY <1>3 DEF Budgeted
    <2>5. CASE history = spent[s]
        BY <1>3, <2>1, <2>5 DEF Budgeted
    <2>6. CASE history = NoneSpent
        BY <1>3, <2>1, <2>3, <2>4, <2>6, BackoffAssumption DEF Budgeted, NoneSpent
    <2>7. QED
        BY <2>2, <2>5, <2>6
<1>4. CASE ~Retryable(s) /\ ~kept
    <2>1. left = NoMeta
        BY <1>4 DEF RetryAfterTick
    <2>2. CASE old = NoRecord
        <3>1. history = NoneSpent
            BY <1>4, <2>2 DEF SpentAfterTick
        <3>2. new = NoRecord
            BY <2>2 DEF RecordAfterTick, WithMeta
        <3>3. QED
            BY <3>1, <3>2, BackoffAssumption DEF Budgeted, NoneSpent
    <2>3. CASE old # NoRecord
        <3>1. new = old \/ new = [old EXCEPT !.meta = NoMeta]
            BY <2>1, <2>3 DEF RecordAfterTick, WithMeta
        <3>2. ReadRetry(s) = NoMeta => old.meta = NoMeta
            BY <2>3 DEF ReadRetry
        <3>3. new # old => new.meta = NoMeta
            BY <1>1, <2>3, <3>1 DEF Record
        <3>4. ReadRetry(s) # NoMeta => new # old \/ new.meta = NoMeta
            BY <2>1, <2>3, <3>1 DEF RecordAfterTick, WithMeta
        <3>5. new.meta = NoMeta
            BY <3>1, <3>2, <3>3, <3>4
        <3>6. new.success = old.success /\ new.updated = old.updated
            BY <1>1, <2>3, <3>1 DEF Record
        <3>7. history.retries = 0
            <4>1. CASE history = NoneSpent
                BY <4>1 DEF NoneSpent
            <4>2. CASE history # NoneSpent
                <5>1. old.status = "active" /\ ~spent[s].succeeded /\ history = spent[s]
                    BY <1>4, <2>3, <4>2 DEF SpentAfterTick
                <5>2. ASSUME spent[s].retries > 0
                      PROVE  FALSE
                    <6>1. ReadRetry(s) = old.meta /\ old.meta # NoMeta
                        BY <2>3, <5>2 DEF Budgeted, ReadRetry
                    <6>2. old.success <= old.meta.first
                        BY <2>3, <5>1, <6>1 DEF Budgeted
                    <6>3. QED
                        BY <1>4, <2>3, <5>1, <6>1, <6>2
                <5>3. QED
                    BY <1>1, <5>1, <5>2 DEF History
            <4>3. QED
                BY <4>1, <4>2
        <3>8. old.success <= old.updated /\ old.updated <= now
            BY <2>3 DEF Budgeted
        <3>9. QED
            BY <2>1, <3>5, <3>6, <3>7, <3>8, BackoffAssumption DEF Budgeted
    <2>4. QED
        BY <2>2, <2>3
<1>5. QED
    BY <1>2, <1>3, <1>4

\* A tick keeps the budget of every stored source ...
LEMMA TickKeeps == IInv /\ BudgetKept /\ Tick => BudgetKept'
<1> SUFFICES ASSUME TypeOK, BudgetKept, Tick, NEW s \in stored'
             PROVE  Budgeted(latest'[s], cache'[s], spent'[s], now')
    BY DEF IInv, BudgetKept
<1>1. s \in stored /\ s \in Sources /\ now' = now
    BY DEF Tick, TypeOK
<1>2. /\ latest'[s] = RecordAfterTick(s)
      /\ cache'[s] = RetryAfterTick(s)
      /\ spent'[s] = SpentAfterTick(s)
    BY <1>1 DEF Tick, RecordAfterTick
<1>3. Budgeted(latest[s], cache[s], spent[s], now)
    BY <1>1 DEF BudgetKept
<1>4. QED
    BY <1>1, <1>2, <1>3, TickBudgeted

\* ... and so does every step that only changes the states of sources.
StateOnly ==
    /\ \A s \in stored' :
          \/ latest'[s] = latest[s]
          \/ \E status \in {"active", "refreshing", "failed"}, code \in Codes \cup {NoCode} :
                latest'[s] = WithState(latest[s], status, code, now)
          \/ latest'[s] = WithState(WithState(latest[s], "refreshing", NoCode, now),
                                    "active", NoCode, now)
    /\ stored' \subseteq stored
    /\ UNCHANGED <<now, cache, spent, lastRetry>>

\* A change of states keeps the budget of every source.
LEMMA StateKeeps == IInv /\ BudgetKept /\ StateOnly => BudgetKept'
<1> SUFFICES ASSUME TypeOK, BudgetKept, StateOnly, NEW s \in stored'
             PROVE  Budgeted(latest'[s], cache[s], spent[s], now)
    BY DEF IInv, BudgetKept, StateOnly
<1>1. /\ s \in stored /\ s \in Sources
      /\ latest[s] \in Record \cup {NoRecord}
      /\ cache[s] \in Meta \cup {NoMeta}
      /\ spent[s] \in History /\ now \in Nat
    BY DEF StateOnly, TypeOK, History
<1>2. Budgeted(latest[s], cache[s], spent[s], now)
    BY <1>1 DEF BudgetKept
<1>3. \A status \in {"active", "refreshing", "failed"}, code \in Codes \cup {NoCode} :
         Budgeted(WithState(latest[s], status, code, now), cache[s], spent[s], now)
    BY <1>1, <1>2, StateBudgeted
<1> DEFINE taken == WithState(latest[s], "refreshing", NoCode, now)
<1>4. taken \in Record /\ Budgeted(taken, cache[s], spent[s], now)
    BY <1>1, <1>3, StatesTyped
<1>5. Budgeted(WithState(taken, "active", NoCode, now), cache[s], spent[s], now)
    BY <1>1, <1>4, StateBudgeted
<1>6. QED
    BY <1>1, <1>2, <1>3, <1>5 DEF StateOnly

\* These are the steps that only change states.
LEMMA StateSteps ==
    ASSUME TypeOK,
           \/ TakeQueued
           \/ \E s \in Sources :
                 \/ RefreshSource(s) \/ ReportMissing(s) \/ RunScheduled(s) \/ Admit(s)
                 \/ StepBegins(s) \/ TokenRefreshed(s) \/ DeleteSource(s)
                 \/ \E code \in Codes \cup {NoCode} : FetchFails(s, code)
                 \/ ScraperCompletes(s) \/ \E code \in Codes : ScraperFails(s, code)
    PROVE  StateOnly
<1>1. latest \in [Sources -> Record \cup {NoRecord}] /\ stored \subseteq Sources
    BY DEF TypeOK
<1>2. CASE TakeQueued
    <2> DEFINE s == Head(queue)
               taken == WithState(latest[s], "refreshing", NoCode, now)
    <2>1. s \in stored /\ CallFetch(s, taken) /\ UNCHANGED <<now, stored, cache, spent, lastRetry>>
        BY <1>2 DEF TakeQueued
    <2>2. \/ latest' = [latest EXCEPT ![s] = taken]
          \/ latest' = [latest EXCEPT ![s] = WithState(taken, "active", NoCode, now)]
        BY <2>1 DEF CallFetch
    <2>3. QED
        BY <1>1, <2>1, <2>2 DEF StateOnly
<1>3. ASSUME NEW s \in Sources, RunScheduled(s)
      PROVE  StateOnly
    <2>1. \/ latest' = [latest EXCEPT ![s] = latest[s]]
          \/ latest' = [latest EXCEPT ![s] = WithState(latest[s], "active", NoCode, now)]
        BY <1>3 DEF RunScheduled, CallFetch
    <2>2. UNCHANGED <<now, stored, cache, spent, lastRetry>>
        BY <1>3 DEF RunScheduled
    <2>3. QED
        BY <1>1, <2>1, <2>2 DEF StateOnly
<1>4. ASSUME NEW s \in Sources,
             \/ RefreshSource(s) \/ ReportMissing(s) \/ Admit(s) \/ StepBegins(s)
             \/ TokenRefreshed(s) \/ ScraperCompletes(s)
      PROVE  StateOnly
    <2>1. /\ \E status \in {"active", "refreshing", "failed"} :
                latest' = [latest EXCEPT ![s] = WithState(latest[s], status, NoCode, now)]
          /\ UNCHANGED <<now, stored, cache, spent, lastRetry>>
        BY <1>4 DEF RefreshSource, ReportMissing, Admit, StepBegins, TokenRefreshed,
                    ScraperCompletes
    <2>2. QED
        BY <1>1, <2>1 DEF StateOnly
<1>5. ASSUME NEW s \in Sources, NEW code \in Codes \cup {NoCode}, FetchFails(s, code)
      PROVE  StateOnly
    <2>1. /\ latest' = [latest EXCEPT ![s] = WithState(latest[s], "failed", code, now)]
          /\ UNCHANGED <<now, stored, cache, spent, lastRetry>>
        BY <1>5 DEF FetchFails
    <2>2. QED
        BY <1>1, <2>1 DEF StateOnly
<1>6. ASSUME NEW s \in Sources, DeleteSource(s)
      PROVE  StateOnly
    <2>1. /\ latest' = [latest EXCEPT ![s] = NoRecord] /\ stored' = stored \ {s}
          /\ UNCHANGED <<now, cache, spent, lastRetry>>
        BY <1>6 DEF DeleteSource
    <2>2. QED
        BY <1>1, <2>1 DEF StateOnly
<1>7. ASSUME NEW s \in Sources, NEW code \in Codes, ScraperFails(s, code)
      PROVE  StateOnly
    <2>1. /\ \/ latest' = [latest EXCEPT ![s] = WithState(latest[s], "failed", code, now)]
             \/ latest' = latest
          /\ UNCHANGED <<now, stored, cache, spent, lastRetry>>
        BY <1>7 DEF ScraperFails
    <2>2. QED
        BY <1>1, <2>1 DEF StateOnly
<1>8. QED
    BY <1>2, <1>3, <1>4, <1>5, <1>6, <1>7

\* A success, and what is left after a restart or the passing of time.
LEMMA OtherKeeps ==
    /\ IInv /\ BudgetKept /\ (\E s \in Sources : FetchSucceeds(s)) => BudgetKept'
    /\ IInv /\ BudgetKept /\ (Restart \/ TimePasses \/ DropQueued) => BudgetKept'
<1>1. ASSUME TypeOK, BudgetKept, NEW s \in Sources, FetchSucceeds(s)
      PROVE  BudgetKept'
    <2> SUFFICES ASSUME NEW r \in stored
                 PROVE  Budgeted(latest'[r], cache[r], spent'[r], now)
        BY <1>1 DEF BudgetKept, FetchSucceeds
    <2>1. /\ r \in Sources
          /\ latest[r] \in Record \cup {NoRecord}
          /\ cache[r] \in Meta \cup {NoMeta}
          /\ spent[r] \in History /\ now \in Nat
        BY <1>1 DEF TypeOK, History
    <2>2. /\ latest' = [latest EXCEPT ![s] = Succeeded(now)]
          /\ spent' = [spent EXCEPT ![s] = [spent[s] EXCEPT !.retries = 0, !.succeeded = TRUE]]
        BY <1>1 DEF FetchSucceeds
    <2>7. DOMAIN latest = Sources /\ DOMAIN spent = Sources
        BY <1>1 DEF TypeOK
    <2>3. CASE r = s
        <3>1. /\ latest'[r] = Succeeded(now)
              /\ spent'[r] = [spent[r] EXCEPT !.retries = 0, !.succeeded = TRUE]
            BY <2>1, <2>2, <2>3, <2>7
        <3>2. Budgeted(Succeeded(now), cache[r],
                       [spent[r] EXCEPT !.retries = 0, !.succeeded = TRUE], now)
            BY <2>1, SuccessBudgeted
        <3>3. QED
            BY <3>1, <3>2
    <2>4. CASE r # s
        <3>1. latest'[r] = latest[r] /\ spent'[r] = spent[r]
            BY <2>1, <2>2, <2>4, <2>7
        <3>2. QED
            BY <1>1, <3>1 DEF BudgetKept
    <2>5. QED
        BY <2>3, <2>4
<1>2. ASSUME TypeOK, BudgetKept, Restart \/ TimePasses \/ DropQueued
      PROVE  BudgetKept'
    <2> SUFFICES ASSUME NEW s \in stored
                 PROVE  Budgeted(latest[s], cache'[s], spent[s], now')
        BY <1>2 DEF BudgetKept, Restart, TimePasses, DropQueued
    <2>1. /\ s \in Sources
          /\ latest[s] \in Record \cup {NoRecord}
          /\ spent[s] \in History /\ now \in Nat
        BY <1>2 DEF TypeOK, History
    <2>2. /\ now' \in Nat /\ now <= now'
          /\ cache'[s] = cache[s] \/ (now' = now /\ cache'[s] = NoMeta)
        <3>1. CASE Restart
            BY <2>1, <3>1 DEF Restart
        <3>2. CASE TimePasses
            BY <2>1, <3>2 DEF TimePasses
        <3>3. CASE DropQueued
            BY <2>1, <3>3 DEF DropQueued
        <3>4. QED
            BY <1>2, <3>1, <3>2, <3>3
    <2>3. Budgeted(latest[s], cache[s], spent[s], now)
        BY <1>2 DEF BudgetKept
    <2>4. Budgeted(latest[s], cache[s], spent[s], now')
        BY <2>1, <2>2, <2>3, LaterBudgeted
    <2>5. Budgeted(latest[s], NoMeta, spent[s], now)
        BY <2>1, <2>3, LaterBudgeted
    <2>6. QED
        BY <2>2, <2>4, <2>5
<1>3. QED
    BY <1>1, <1>2 DEF IInv

\* The history of a deleted source stands still.
LEMMA BudgetOfAll ==
    ASSUME TypeOK, BudgetKept', WindowBudget, [Next]_vars
    PROVE  WindowBudget'
<1> SUFFICES ASSUME NEW s \in Sources
             PROVE  spent'[s].retries <= Len(Backoff)
    BY DEF WindowBudget
<1>1. 0 <= Len(Backoff) /\ spent[s].retries <= Len(Backoff)
    BY BackoffAssumption DEF WindowBudget
<1>2. s \in stored' \/ spent'[s] = spent[s] \/ spent'[s].retries = 0
    <2>1. CASE Tick
        BY <2>1 DEF Tick
    <2>2. CASE \E r \in Sources : FetchSucceeds(r)
        <3>1. PICK r \in Sources : FetchSucceeds(r)
            BY <2>2
        <3>2. spent' = [spent EXCEPT ![r] = [spent[r] EXCEPT !.retries = 0, !.succeeded = TRUE]]
            BY <3>1 DEF FetchSucceeds
        <3>3. spent[r] \in History /\ spent \in [Sources -> History]
            BY DEF TypeOK, History
        <3>4. [spent[r] EXCEPT !.retries = 0, !.succeeded = TRUE].retries = 0
            BY <3>3 DEF History
        <3>5. QED
            BY <3>2, <3>3, <3>4
    <2>3. CASE ~Tick /\ ~(\E r \in Sources : FetchSucceeds(r))
        <3>1. UNCHANGED spent
            BY <2>3 DEF Next, vars, DropQueued, TakeQueued, RefreshSource, ReportMissing,
                        RunScheduled, Admit, StepBegins, TokenRefreshed, DeleteSource,
                        FetchFails, ScraperCompletes, ScraperFails, Restart, TimePasses
        <3>2. QED
            BY <3>1
    <2>4. QED
        BY <2>1, <2>2, <2>3
<1>3. QED
    BY <1>1, <1>2 DEF BudgetKept, Budgeted

-----------------------------------------------------------------------------
(***************************************************************************)
(* The spacing of the retries.                                             *)
(***************************************************************************)
\* The window on a record or in the cache waits from the last retry on.
Waits(window, last) ==
    window # NoMeta /\ window.attempts < Len(Backoff) =>
        window.next >= last + Backoff[window.attempts + 1]

\* A record older than the last retry is still the failure that was retried,
\* and its window is on it.
Spaced(record, cached, last, time) ==
    last # NoTime =>
        /\ last <= time
        /\ Waits(cached, last)
        /\ record # NoRecord =>
              /\ Waits(record.meta, last)
              /\ \/ record.updated >= last
                 \/ /\ record.status = "failed"
                    /\ record.code \in RetryCodes
                    /\ record.meta # NoMeta
                    /\ record.meta.signature = record.code

RetriesWait == \A s \in stored : Spaced(latest[s], cache[s], lastRetry[s], now)

\* A change of state is newer than the last retry ...
LEMMA StateSpaced ==
    ASSUME NEW record \in Record \cup {NoRecord}, NEW cached, NEW last \in Nat \cup {NoTime},
           NEW time \in Nat, Spaced(record, cached, last, time),
           NEW status \in {"active", "refreshing", "failed"},
           NEW code \in Codes \cup {NoCode}
    PROVE  Spaced(WithState(record, status, code, time), cached, last, time)
<1> DEFINE new == WithState(record, status, code, time)
<1>1. new.updated = time /\ new.meta = IF record = NoRecord THEN NoMeta ELSE record.meta
    BY DEF WithState, Record
<1>2. QED
    BY <1>1 DEF Spaced, Waits

\* ... and so is a success.
LEMMA SuccessSpaced ==
    ASSUME NEW record, NEW cached, NEW last \in Nat \cup {NoTime},
           NEW time \in Nat, Spaced(record, cached, last, time)
    PROVE  Spaced(Succeeded(time), cached, last, time)
<1>1. Succeeded(time).updated = time /\ Succeeded(time).meta = NoMeta
    BY DEF Succeeded
<1>2. QED
    BY <1>1 DEF Spaced, Waits

\* Neither time nor the loss of the cache lets a window wait less.
LEMMA LaterSpaced ==
    ASSUME NEW record, NEW cached, NEW last \in Nat \cup {NoTime},
           NEW time \in Nat, NEW later \in Nat, time <= later,
           Spaced(record, cached, last, time)
    PROVE  Spaced(record, cached, last, later) /\ Spaced(record, NoMeta, last, later)
BY DEF Spaced, Waits

\* The window of a retryable failure, on record or new, waits.
LEMMA WindowWaits ==
    ASSUME TypeOK, NEW s \in Sources, Retryable(s), lastRetry[s] # NoTime,
           Spaced(latest[s], cache[s], lastRetry[s], now)
    PROVE  Waits(Window(s), lastRetry[s])
<1> DEFINE old == latest[s]
           last == lastRetry[s]
<1>1. /\ old \in Record /\ old # NoRecord
      /\ last \in Nat
    BY DEF TypeOK, Retryable
<1>2. CASE Window(s) = ReadRetry(s)
    BY <1>1, <1>2 DEF Spaced, ReadRetry
<1>3. CASE Window(s) # ReadRetry(s)
    <2>1. Window(s) = [signature |-> old.code, attempts |-> 0, first |-> old.updated,
                       next |-> old.updated + Backoff[1]]
        BY <1>3 DEF Window
    <2>2. ~(ReadRetry(s) # NoMeta /\ ReadRetry(s).signature = old.code)
        BY <1>3 DEF Window
    <2>3. old.updated >= last
        BY <1>1, <2>2 DEF Spaced, ReadRetry
    <2>4. Backoff[1] \in Nat
        BY BackoffAssumption, BackoffTyped, Len(Backoff) >= 1
    <2>5. old.updated \in Nat
        BY <1>1 DEF Record
    <2>6. Window(s).attempts = 0 /\ Window(s).next = old.updated + Backoff[1]
        BY <2>1
    <2>7. QED
        BY <1>1, <2>3, <2>4, <2>5, <2>6 DEF Waits
<1>4. QED
    BY <1>2, <1>3

\* A tick counts a retry in a window that waits for the next backoff from now.
LEMMA TickSpaced ==
    ASSUME TypeOK, NEW s \in Sources,
           Spaced(latest[s], cache[s], lastRetry[s], now)
    PROVE  Spaced(RecordAfterTick(s), RetryAfterTick(s),
                  IF RetryDue(s) THEN now ELSE lastRetry[s], now)
<1> DEFINE old == latest[s]
           new == RecordAfterTick(s)
           left == RetryAfterTick(s)
           window == Window(s)
<1>1. /\ old \in Record \cup {NoRecord}
      /\ lastRetry[s] \in Nat \cup {NoTime} /\ now \in Nat
    BY DEF TypeOK
<1>2. CASE RetryDue(s)
    <2>1. Retryable(s) /\ old \in Record /\ old # NoRecord
        BY <1>1, <1>2 DEF RetryDue, Retryable
    <2>2. window \in Meta /\ window.signature = old.code
        BY <2>1, WindowTyped DEF Window
    <2>3. left = Counted(window)
        BY <1>2, <2>1 DEF RetryAfterTick
    <2>4. /\ left \in Meta
          /\ left.signature = old.code
          /\ left.attempts = window.attempts + 1
          /\ left.attempts < Len(Backoff) => left.next = now + Backoff[left.attempts + 1]
        BY <1>1, <2>2, <2>3, CountedTyped DEF Counted, Meta
    <2>5. left # ReadRetry(s)
        <3>1. ASSUME left = ReadRetry(s)
              PROVE  FALSE
            <4>1. left.signature = old.code /\ left # NoMeta
                BY <2>4, MetaAssumption
            <4>2. window = left
                BY <3>1, <4>1 DEF Window
            <4>3. QED
                BY <2>2, <2>4, <4>2 DEF Meta
        <3>2. QED
            BY <3>1
    <2>6. new = [old EXCEPT !.meta = left]
        BY <2>1, <2>5 DEF RecordAfterTick, WithMeta
    <2>7. new.meta = left /\ new.status = old.status /\ new.code = old.code
        BY <2>1, <2>6 DEF Record
    <2>8. left # NoMeta
        BY <2>4, MetaAssumption
    <2>9. Waits(left, now)
        <3>1. ASSUME left.attempts < Len(Backoff)
              PROVE  left.next >= now + Backoff[left.attempts + 1]
            <4>1. left.attempts + 1 \in 1..Len(Backoff)
                BY <2>4, <3>1, BackoffAssumption DEF Meta
            <4>2. Backoff[left.attempts + 1] \in Nat
                BY <4>1, BackoffTyped
            <4>3. QED
                BY <1>1, <2>4, <3>1, <4>2
        <3>2. QED
            BY <3>1 DEF Waits
    <2>10. old.status = "failed" /\ old.code \in RetryCodes
        BY <2>1 DEF Retryable
    <2>11. QED
        BY <1>1, <1>2, <2>4, <2>7, <2>8, <2>9, <2>10 DEF Spaced
<1>3. CASE ~RetryDue(s) /\ lastRetry[s] # NoTime
    <2> DEFINE last == lastRetry[s]
    <2>1. last <= now /\ Waits(cache[s], last) /\ (old # NoRecord => Waits(old.meta, last))
        BY <1>3 DEF Spaced
    <2>2. Waits(ReadRetry(s), last) /\ Waits(NoMeta, last)
        BY <2>1 DEF ReadRetry, Waits
    <2>3. left \in {window, ReadRetry(s), NoMeta} /\ (left = window \/ ~Retryable(s))
        BY <1>3 DEF RetryAfterTick
    <2>4. Retryable(s) => left = window /\ Waits(window, last)
        BY <1>3, WindowWaits DEF RetryAfterTick
    <2>5. ~Retryable(s) => left \in {ReadRetry(s), NoMeta}
        BY DEF RetryAfterTick
    <2>6. Waits(left, last)
        BY <2>2, <2>4, <2>5
    <2>7. CASE old = NoRecord
        <3>1. new = NoRecord
            BY <2>7 DEF RecordAfterTick, WithMeta
        <3>2. QED
            BY <1>3, <2>1, <2>6, <3>1 DEF Spaced
    <2>8. CASE old # NoRecord
        <3>1. new = old \/ new = [old EXCEPT !.meta = left]
            BY <2>8 DEF RecordAfterTick, WithMeta
        <3>2. /\ new.updated = old.updated /\ new.status = old.status /\ new.code = old.code
              /\ new = old \/ new.meta = left
            BY <1>1, <2>8, <3>1 DEF Record
        <3>3. Waits(new.meta, last)
            BY <2>1, <2>6, <2>8, <3>2
        <3>4. ASSUME ~(old.updated >= last)
              PROVE  new.meta # NoMeta /\ new.meta.signature = new.code
            <4>1. Retryable(s) /\ old.meta # NoMeta /\ old.meta.signature = old.code
                BY <1>3, <2>8, <3>4 DEF Spaced, Retryable
            <4>2. window = old.meta
                BY <2>8, <4>1 DEF Window, ReadRetry
            <4>3. QED
                BY <2>4, <3>2, <4>1, <4>2
        <3>5. \/ old.updated >= last
              \/ old.status = "failed" /\ old.code \in RetryCodes
            BY <1>3, <2>8 DEF Spaced
        <3>6. QED
            BY <1>3, <2>1, <2>6, <3>2, <3>3, <3>4, <3>5 DEF Spaced
    <2>9. QED
        BY <2>7, <2>8
<1>4. CASE ~RetryDue(s) /\ lastRetry[s] = NoTime
    BY <1>4 DEF Spaced
<1>5. QED
    BY <1>2, <1>3, <1>4

\* Every step keeps the windows of stored sources waiting.
LEMMA WaitKeeps == IInv /\ RetriesWait /\ [Next]_vars => RetriesWait'
<1> SUFFICES ASSUME TypeOK, RetriesWait, [Next]_vars, NEW s \in stored'
             PROVE  Spaced(latest'[s], cache'[s], lastRetry'[s], now')
    BY DEF IInv, RetriesWait
<1>1. s \in stored
    BY DEF Next, vars, Tick, DropQueued, TakeQueued, RefreshSource, ReportMissing,
           RunScheduled, Admit, StepBegins, TokenRefreshed, FetchSucceeds,
           FetchFails, ScraperCompletes, ScraperFails, DeleteSource, Restart, TimePasses
<1>2. /\ s \in Sources
      /\ latest[s] \in Record \cup {NoRecord}
      /\ lastRetry[s] \in Nat \cup {NoTime} /\ now \in Nat
      /\ latest \in [Sources -> Record \cup {NoRecord}]
    BY <1>1 DEF TypeOK
<1>3. Spaced(latest[s], cache[s], lastRetry[s], now)
    BY <1>1 DEF RetriesWait
<1>4. CASE Tick
    <2>1. /\ latest'[s] = RecordAfterTick(s)
          /\ cache'[s] = RetryAfterTick(s)
          /\ lastRetry'[s] = IF RetryDue(s) THEN now ELSE lastRetry[s]
          /\ now' = now
        BY <1>1, <1>2, <1>4 DEF Tick, RecordAfterTick
    <2>2. QED
        BY <1>2, <1>3, <2>1, TickSpaced
<1>5. CASE StateOnly
    <2>1. \A status \in {"active", "refreshing", "failed"}, code \in Codes \cup {NoCode} :
             Spaced(WithState(latest[s], status, code, now), cache[s], lastRetry[s], now)
        BY <1>2, <1>3, StateSpaced
    <2> DEFINE taken == WithState(latest[s], "refreshing", NoCode, now)
    <2>2. taken \in Record /\ Spaced(taken, cache[s], lastRetry[s], now)
        BY <1>2, <2>1, StatesTyped
    <2>3. Spaced(WithState(taken, "active", NoCode, now), cache[s], lastRetry[s], now)
        BY <1>2, <2>2, StateSpaced
    <2>4. now' = now /\ cache'[s] = cache[s] /\ lastRetry'[s] = lastRetry[s]
        BY <1>5 DEF StateOnly
    <2>5. QED
        BY <1>3, <1>5, <2>1, <2>3, <2>4 DEF StateOnly
<1>6. ASSUME NEW r \in Sources, FetchSucceeds(r)
      PROVE  Spaced(latest'[s], cache'[s], lastRetry'[s], now')
    <2>1. now' = now /\ cache'[s] = cache[s] /\ lastRetry'[s] = lastRetry[s]
        BY <1>6 DEF FetchSucceeds
    <2>2. latest'[s] = latest[s] \/ latest'[s] = Succeeded(now)
        BY <1>2, <1>6 DEF FetchSucceeds
    <2>3. Spaced(Succeeded(now), cache[s], lastRetry[s], now)
        BY <1>2, <1>3, SuccessSpaced
    <2>4. QED
        BY <1>3, <2>1, <2>2, <2>3
<1>7. CASE Restart
    <2>1. /\ latest' = latest /\ cache'[s] = NoMeta
          /\ lastRetry' = lastRetry /\ now' = now
        BY <1>2, <1>7 DEF Restart
    <2>2. now <= now
        BY <1>2
    <2>3. Spaced(latest[s], NoMeta, lastRetry[s], now)
        BY <1>2, <1>3, <2>2, LaterSpaced
    <2>4. QED
        BY <2>1, <2>3
<1>8. CASE TimePasses
    <2>1. /\ latest' = latest /\ cache' = cache /\ lastRetry' = lastRetry
          /\ now' \in Nat /\ now <= now'
        BY <1>2, <1>8 DEF TimePasses
    <2>2. QED
        BY <1>2, <1>3, <2>1, LaterSpaced
<1>9. CASE DropQueued \/ UNCHANGED vars
    <2>1. UNCHANGED <<latest, cache, lastRetry, now>>
        BY <1>9 DEF DropQueued, vars
    <2>2. QED
        BY <1>3, <2>1
<1>10. QED
    BY <1>4, <1>5, <1>6, <1>7, <1>8, <1>9, StateSteps DEF Next

\* Only a tick adds to the retries of a streak: one, when a retry is due.
LEMMA OnlyTicksRetry ==
    ASSUME TypeOK, [Next]_vars, NEW s \in Sources,
           streak'[s].retries > streak[s].retries
    PROVE  Tick /\ s \in stored /\ RetryDue(s)
<1>1. /\ streak \in [Sources -> [code : Codes \cup {NoCode}, retries : Nat]]
      /\ streak[s].retries \in Nat
    BY DEF TypeOK
<1>2. streak'[s] # streak[s] /\ streak'[s].retries # 0
    BY <1>1
<1>3. CASE Tick
    BY <1>2, <1>3 DEF Tick
<1>4. ASSUME NEW r \in Sources, FetchSucceeds(r)
      PROVE  FALSE
    <2>1. streak' = [streak EXCEPT ![r] = NoStreak]
        BY <1>4 DEF FetchSucceeds
    <2>2. QED
        BY <1>1, <1>2, <2>1 DEF NoStreak
<1>5. ASSUME NEW r \in Sources, NEW code \in Codes \cup {NoCode}, FetchFails(r, code)
      PROVE  FALSE
    <2>1. streak' = [streak EXCEPT ![r] =
                        IF streak[r].code = code THEN streak[r]
                                                 ELSE [code |-> code, retries |-> 0]]
        BY <1>5 DEF FetchFails
    <2>2. streak'[s] = streak[s] \/ streak'[s].retries = 0
        BY <1>1, <2>1
    <2>3. QED
        BY <1>2, <2>2
<1>8. ASSUME NEW r \in Sources, NEW code \in Codes, ScraperFails(r, code)
      PROVE  FALSE
    <2>1. \/ streak' = [streak EXCEPT ![r] =
                           IF streak[r].code = code THEN streak[r]
                                                    ELSE [code |-> code, retries |-> 0]]
          \/ streak' = streak
        BY <1>8 DEF ScraperFails
    <2>2. streak'[s] = streak[s] \/ streak'[s].retries = 0
        BY <1>1, <2>1
    <2>3. QED
        BY <1>2, <2>2
<1>6. CASE \/ DropQueued \/ TakeQueued \/ Restart \/ TimePasses \/ UNCHANGED vars
           \/ \E r \in Sources :
                 \/ RefreshSource(r) \/ ReportMissing(r) \/ RunScheduled(r) \/ Admit(r)
                 \/ StepBegins(r) \/ TokenRefreshed(r) \/ DeleteSource(r)
                 \/ ScraperCompletes(r)
    <2>1. UNCHANGED streak
        BY <1>6 DEF vars, DropQueued, TakeQueued, Restart, TimePasses, RefreshSource,
                    ReportMissing, RunScheduled, Admit, StepBegins, TokenRefreshed,
                    DeleteSource, ScraperCompletes
    <2>2. QED
        BY <1>2, <2>1
<1>7. QED
    BY <1>3, <1>4, <1>5, <1>6, <1>8 DEF Next

\* A retry that is due is due after the backoff of its window, which has had at
\* least as many retries as its failure.
LEMMA RetryWaited ==
    ASSUME TypeOK, NEW s \in Sources, RetryDue(s), lastRetry[s] # NoTime,
           Spaced(latest[s], cache[s], lastRetry[s], now),
           Budgeted(latest[s], cache[s], spent[s], now)
    PROVE  now - lastRetry[s] >= Backoff[SpentAfterTick(s).retries]
<1> DEFINE window == Window(s)
           soFar == IF spent[s].code = latest[s].code
                    THEN spent[s]
                    ELSE [spent[s] EXCEPT !.code = latest[s].code, !.retries = 0]
<1>1. /\ Retryable(s) /\ latest[s] \in Record /\ latest[s].code \in Codes
      /\ spent[s] \in History /\ now \in Nat /\ lastRetry[s] \in Nat
    BY RetryCodesAssumption DEF TypeOK, RetryDue, Retryable, History
<1>2. /\ window \in Meta /\ window.attempts \in Nat /\ window.attempts < Len(Backoff)
      /\ now >= window.next
    BY <1>1, WindowTyped DEF RetryDue, Meta
<1>3. soFar \in History
    BY <1>1 DEF History
<1>4. soFar.retries \in Nat /\ soFar.retries <= window.attempts
    <2>1. CASE spent[s].code = latest[s].code
        BY <1>1, <1>2, <2>1 DEF Budgeted, Window, ReadRetry, History
    <2>2. CASE spent[s].code # latest[s].code
        <3>1. soFar.retries = 0
            BY <1>1, <2>2 DEF History
        <3>2. QED
            BY <1>2, <3>1
    <2>3. QED
        BY <2>1, <2>2
<1>5. SpentAfterTick(s).retries = soFar.retries + 1
    <2>1. SpentAfterTick(s) = [soFar EXCEPT !.retries = soFar.retries + 1]
        BY <1>1 DEF SpentAfterTick
    <2>2. QED
        BY <1>3, <2>1 DEF History
<1> DEFINE i == soFar.retries + 1
           j == window.attempts + 1
<1>6. i \in 1..Len(Backoff) /\ j \in 1..Len(Backoff) /\ i <= j
    BY <1>2, <1>4, BackoffAssumption, SMTT(30)
<1>7. Backoff[i] <= Backoff[j] /\ Backoff[i] \in Nat /\ Backoff[j] \in Nat
    BY <1>6, BackoffGrows, BackoffTyped
<1>8. window.next >= lastRetry[s] + Backoff[j]
    <2>1. Waits(window, lastRetry[s])
        BY <1>1, WindowWaits
    <2>2. QED
        BY <1>2, <2>1, MetaAssumption DEF Waits
<1>9. window.next \in Int
    BY <1>2 DEF Meta, NoTime
<1>10. QED
    BY <1>1, <1>2, <1>5, <1>7, <1>8, <1>9, SMTT(30)

-----------------------------------------------------------------------------
\* The inductive invariant holds in every state of every behaviour, whatever
\* the order of ticks, workers, manual refreshes, fetches and restarts.
THEOREM SchedulerInvariant == Spec => []IInv
<1>1. Init => IInv
    BY InitInv
<1>2. IInv /\ [Next]_vars => IInv'
    <2> SUFFICES ASSUME IInv, [Next]_vars PROVE IInv'
        OBVIOUS
    <2>1. CASE Tick
        BY <2>1, TickInv
    <2>2. CASE DropQueued
        BY <2>2, DropQueuedInv
    <2>3. CASE TakeQueued
        BY <2>3, TakeQueuedInv
    <2>4. ASSUME NEW s \in Sources,
                 \/ RefreshSource(s) \/ ReportMissing(s) \/ StepBegins(s)
                 \/ DeleteSource(s) \/ ScraperCompletes(s)
                 \/ \E code \in Codes : ScraperFails(s, code)
          PROVE  IInv'
        BY <2>4, RecordStepInv DEF IInv
    <2>5. ASSUME NEW s \in Sources, RunScheduled(s) \/ Admit(s) \/ TokenRefreshed(s)
          PROVE  IInv'
        BY <2>5, FetchStepInv DEF IInv
    <2>6. ASSUME NEW s \in Sources,
                 FetchSucceeds(s) \/ \E code \in Codes \cup {NoCode} : FetchFails(s, code)
          PROVE  IInv'
        BY <2>6, FetchEndInv DEF IInv
    <2>7. CASE Restart
        BY <2>7, RestartInv
    <2>8. CASE TimePasses
        BY <2>8, TimePassesInv
    <2>9. CASE UNCHANGED vars
        BY <2>9 DEF IInv, TypeOK, QueueOwnership, vars
    <2>10. QED
        BY <2>1, <2>2, <2>3, <2>4, <2>5, <2>6, <2>7, <2>8, <2>9 DEF Next
<1>3. QED
    BY <1>1, <1>2, PTL DEF Spec

\* Records, retry windows, queue and fetches stay in their ranges: no
\* arithmetic of the backoff or of the clock leaves them.
THEOREM SchedulerTypeOK == Spec => []TypeOK
<1>1. IInv => TypeOK
    BY DEF IInv
<1>2. QED
    BY <1>1, SchedulerInvariant, PTL

\* _queued_ids and _inflight_ids do what they are for: interval refreshes and
\* retries never queue a source twice nor one that a worker refreshes, and a
\* worker is never left busy with a fetch that is over.
THEOREM SchedulerQueueOwnership == Spec => []QueueOwnership
<1>1. IInv => QueueOwnership
    BY DEF IInv
<1>2. QED
    BY <1>1, SchedulerInvariant, PTL

\* The windows and the histories of the retries agree in every state.
THEOREM SchedulerRetries == Spec => [](BudgetKept /\ WindowBudget /\ RetriesWait)
<1> DEFINE Inv == BudgetKept /\ WindowBudget /\ RetriesWait
<1>1. Init => Inv
    <2> SUFFICES ASSUME Init PROVE Inv
        OBVIOUS
    <2>1. 0 <= Len(Backoff)
        BY BackoffAssumption
    <2>2. ASSUME NEW s \in Sources
          PROVE  latest[s] = NoRecord /\ spent[s].retries = 0 /\ lastRetry[s] = NoTime
        BY DEF Init, NoneSpent
    <2>3. stored = Sources
        BY DEF Init
    <2>4. QED
        BY <2>1, <2>2, <2>3 DEF BudgetKept, Budgeted, WindowBudget, RetriesWait, Spaced
<1>2. IInv /\ Inv /\ [Next]_vars => Inv'
    <2> SUFFICES ASSUME IInv, Inv, [Next]_vars PROVE Inv'
        OBVIOUS
    <2>1. BudgetKept'
        <3>1. CASE Tick
            BY <3>1, TickKeeps
        <3>2. CASE \E s \in Sources : FetchSucceeds(s)
            BY <3>2, OtherKeeps
        <3>3. CASE Restart \/ TimePasses \/ DropQueued
            BY <3>3, OtherKeeps
        <3>4. CASE UNCHANGED vars
            BY <3>4 DEF BudgetKept, vars
        <3>5. CASE \/ TakeQueued
                   \/ \E s \in Sources :
                         \/ RefreshSource(s) \/ ReportMissing(s) \/ RunScheduled(s) \/ Admit(s)
                         \/ StepBegins(s) \/ TokenRefreshed(s) \/ DeleteSource(s)
                         \/ \E code \in Codes \cup {NoCode} : FetchFails(s, code)
                         \/ ScraperCompletes(s)
                         \/ \E code \in Codes : ScraperFails(s, code)
            BY <3>5, StateSteps, StateKeeps DEF IInv
        <3>6. QED
            BY <3>1, <3>2, <3>3, <3>4, <3>5 DEF Next
    <2>2. WindowBudget'
        BY <2>1, BudgetOfAll DEF IInv
    <2>3. RetriesWait'
        BY WaitKeeps
    <2>4. QED
        BY <2>1, <2>2, <2>3
<1>3. QED
    BY <1>1, <1>2, SchedulerInvariant, PTL DEF Spec

\* The retry window is never lost: not by the loss of the cache in a restart,
\* not by states that change between ticks, not by other sources.  Only what the
\* documentation says ends it, or a tick that sees the source in between: a
\* source gets at most Len(Backoff) automatic retries after a success.
THEOREM SchedulerWindowBudget == Spec => []WindowBudget
BY SchedulerRetries, PTL

\* Automatic retries keep their distance, whatever drops and begins windows in
\* between: the n-th retry of a failure comes no sooner than the n-th backoff
\* after the automatic retry before it.
THEOREM SchedulerRetriesSpaced == Spec => RetriesSpaced
<1> DEFINE Inv == BudgetKept /\ WindowBudget /\ RetriesWait
<1>1. IInv /\ Inv /\ [Next]_vars =>
         [\A s \in Sources :
             streak'[s].retries > streak[s].retries /\ lastRetry[s] # NoTime
             => now - lastRetry[s] >= Backoff[spent'[s].retries]]_vars
    <2> SUFFICES ASSUME IInv, Inv, [Next]_vars, NEW s \in Sources,
                        streak'[s].retries > streak[s].retries, lastRetry[s] # NoTime
                 PROVE  now - lastRetry[s] >= Backoff[spent'[s].retries]
        OBVIOUS
    <2>1. Tick /\ s \in stored /\ RetryDue(s)
        BY OnlyTicksRetry DEF IInv
    <2>2. spent'[s] = SpentAfterTick(s)
        BY <2>1 DEF Tick
    <2>3. /\ Spaced(latest[s], cache[s], lastRetry[s], now)
          /\ Budgeted(latest[s], cache[s], spent[s], now)
        BY <2>1 DEF RetriesWait, BudgetKept
    <2>4. QED
        BY <2>1, <2>2, <2>3, RetryWaited DEF IInv
<1>2. QED
    BY <1>1, SchedulerInvariant, SchedulerRetries, PTL DEF Spec, RetriesSpaced

=============================================================================
