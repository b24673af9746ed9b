-------------------------- MODULE RefreshScheduler --------------------------
(***************************************************************************)
(* Automatic refresh and bounded retry: core/refresh_scheduler.py with the *)
(* fetch admission of core/executor.py (one fetch per source, at most      *)
(* Capacity at a time), the records of the runtime store, and the refresh  *)
(* and delete endpoints of core/api.py that interfere with them.           *)
(*                                                                         *)
(* Everything runs on one asyncio loop.  An action is what happens between *)
(* two awaits that can suspend: putting into the unbounded queue and       *)
(* taking the free in-flight lock do not, waiting for a queue item, for    *)
(* the fetch semaphore or for the flow's I/O do.                           *)
(*                                                                         *)
(* Abstractions: time is counted in units of at most the shortest flow;    *)
(* the effective interval of a source is a constant, in the same units;    *)
(* the ids of deleted sources are not used again.                          *)
(***************************************************************************)
EXTENDS RuntimeRecords, Sequences, FiniteSets, Functions

CONSTANTS
    Sources,
    RetryCodes,     \* _RETRYABLE_RUNTIME_ERROR_CODES
    Backoff,        \* _RETRY_BACKOFF_SECONDS
    Interval,       \* resolve_refresh_interval_minutes, by source; 0 is off
    Workers,        \* how many worker loops take from the queue
    Capacity,       \* how many fetches run at a time
    MaxNow,         \* bound: the clock
    MaxManual,      \* bound: refreshes by hand and scrapes
    MaxCrashes      \* bound: restarts of the backend

ASSUME SourcesAssumption == IsFiniteSet(Sources)
ASSUME WorkersAssumption == Workers \in Nat
ASSUME RetryCodesAssumption == RetryCodes \subseteq Codes
ASSUME BackoffAssumption == Backoff \in Seq(Nat) /\ Backoff # <<>>
ASSUME BackoffGrows ==
    \A i, j \in 1..Len(Backoff) : i <= j => Backoff[i] <= Backoff[j]
ASSUME IntervalAssumption == Interval \in [Sources -> Nat]
ASSUME BoundsAssumption ==
    MaxNow \in Nat /\ MaxManual \in Nat /\ MaxCrashes \in Nat

VARIABLES
    now,
    stored,     \* ids of the stored sources
    latest,     \* runtime_latest: record of every source
    cache,      \* _retry_states
    queue,      \* _queue; _queued_ids is the set of its elements
    working,    \* _inflight_ids: sources a worker loop refreshes
    fetch,      \* the executor's fetch of a source, if it is in flight
    scheduled,  \* background tasks that will call fetch_source
    manual,     \* bound: refreshes by hand and scrapes so far
    crashes,    \* bound: restarts so far
    scraping,   \* sources with a scraper task that a worker may still report on
    streak,     \* history: code of the failures since the last success or
                \* other code, and how many automatic retries they got
    spent,      \* history: the code the ticks see failing, its retries since a
                \* success, and whether a success is not yet seen by a tick
    lastRetry,  \* history: when the last automatic retry was queued
    unresumed   \* history: sources whose last "refreshing" was written for a
                \* scrape that completed and found no source to fetch

vars == <<now, stored, latest, cache, queue, working, fetch, scheduled,
          manual, crashes, scraping, streak, spent, lastRetry, unresumed>>

NoStreak == [code |-> NoCode, retries |-> 0]
NoneSpent == [code |-> NoCode, retries |-> 0, succeeded |-> FALSE]

\* A fetch waits for the semaphore, runs, is ripe once it took some time, and
\* is rerun once if it failed with credentials that could be refreshed.
InFlight == {"waiting", "running", "ripe", "rerun"}

\* The first start: the sources are seeded, their first fetch is scheduled.
Init ==
    /\ now = 0
    /\ stored = Sources
    /\ latest = [s \in Sources |-> NoRecord]
    /\ cache = [s \in Sources |-> NoMeta]
    /\ queue = <<>>
    /\ working = {}
    /\ fetch = [s \in Sources |-> "none"]
    /\ scheduled = [s \in Sources |-> 1]
    /\ manual = 0
    /\ crashes = 0
    /\ scraping = {}
    /\ streak = [s \in Sources |-> NoStreak]
    /\ spent = [s \in Sources |-> NoneSpent]
    /\ lastRetry = [s \in Sources |-> NoTime]
    /\ unresumed = {}

-----------------------------------------------------------------------------
(***************************************************************************)
(* What a tick decides about a stored source, from its record and cache.   *)
(***************************************************************************)
\* Mutant of ReadRetry: only the cache is consulted.
ReadRetry_CacheOnly(s) == cache[s]

\* _read_retry_state: the record's metadata, else the cached one
ReadRetry(s) ==
    IF latest[s] # NoRecord /\ latest[s].meta # NoMeta
    THEN latest[s].meta
    ELSE cache[s]

\* A failure that is retried automatically
Retryable(s) ==
    /\ latest[s] # NoRecord
    /\ latest[s].status = "failed"
    /\ latest[s].code \in RetryCodes

\* Mutant of Window: a new window is written without its signature.
Window_Unsigned(s) ==
    IF ReadRetry(s) # NoMeta /\ ReadRetry(s).signature = latest[s].code
    THEN ReadRetry(s)
    ELSE [signature |-> NoCode, attempts |-> 0,
          first |-> latest[s].updated,
          next |-> latest[s].updated + Backoff[1]]

\* The retry window of a retryable failure: the one on record if it is of the
\* same signature, else a new one that starts with this failure
Window(s) ==
    IF ReadRetry(s) # NoMeta /\ ReadRetry(s).signature = latest[s].code
    THEN ReadRetry(s)
    ELSE [signature |-> latest[s].code, attempts |-> 0,
          first |-> latest[s].updated,
          next |-> latest[s].updated + Backoff[1]]

\* Mutant of Enqueueable: what a worker refreshes may be queued again.
Enqueueable_QueuedOnly(s) == s \notin Range(queue)

\* _enqueue returns True
Enqueueable(s) == s \notin Range(queue) /\ s \notin working

RetryDue(s) ==
    /\ Retryable(s)
    /\ Window(s).attempts < Len(Backoff)
    /\ now >= Window(s).next
    /\ Enqueueable(s)

\* Interval refresh; a source that never succeeded counts from its last update
RefreshDue(s) ==
    /\ latest[s] # NoRecord
    /\ latest[s].status = "active"
    /\ Interval[s] > 0
    /\ now - (IF latest[s].success = NoTime THEN latest[s].updated
                                            ELSE latest[s].success) >= Interval[s]
    /\ Enqueueable(s)

\* Mutant of Counted: the first backoff again and again.
Counted_ConstantBackoff(window) ==
    LET n == window.attempts + 1
    IN  [window EXCEPT !.attempts = n,
                       !.next = IF n < Len(Backoff) THEN now + Backoff[1] ELSE NoTime]

\* The window after one more retry
Counted(window) ==
    LET n == window.attempts + 1
    IN  [window EXCEPT !.attempts = n,
                       !.next = IF n < Len(Backoff) THEN now + Backoff[n + 1] ELSE NoTime]

\* The retry state a tick leaves: it is dropped without a record, by a newer
\* success, and by every other status or code than a retryable failure.
RetryAfterTick(s) ==
    IF Retryable(s)
    THEN IF RetryDue(s) THEN Counted(Window(s)) ELSE Window(s)
    ELSE IF /\ latest[s] # NoRecord
            /\ latest[s].status = "active"
            /\ ReadRetry(s) # NoMeta
            /\ latest[s].success <= ReadRetry(s).first
         THEN ReadRetry(s)
         ELSE NoMeta

\* The history of a failure goes on while ticks see the source failing with its
\* code, or active; the first active one after a success begins it anew.
SpentAfterTick(s) ==
    LET soFar == IF spent[s].code = latest[s].code
                 THEN spent[s]
                 ELSE [spent[s] EXCEPT !.code = latest[s].code, !.retries = 0]
    IN  IF Retryable(s)
        THEN IF RetryDue(s) THEN [soFar EXCEPT !.retries = @ + 1] ELSE soFar
        ELSE IF /\ latest[s] # NoRecord
                /\ latest[s].status = "active"
                /\ ~spent[s].succeeded
             THEN spent[s]
             ELSE NoneSpent

-----------------------------------------------------------------------------
\* _tick_once: every stored source, in the order of the resource store
Tick ==
    LET due == {s \in stored : RetryDue(s) \/ RefreshDue(s)}
    IN  /\ \E order \in [1..Cardinality(due) -> due] :
              /\ Range(order) = due
              /\ queue' = queue \o order
        /\ cache' = [s \in Sources |->
                       IF s \in stored THEN RetryAfterTick(s) ELSE cache[s]]
        /\ latest' = [s \in Sources |->
                        IF s \in stored /\ RetryAfterTick(s) # ReadRetry(s)
                        THEN WithMeta(latest[s], RetryAfterTick(s))
                        ELSE latest[s]]
        /\ streak' = [s \in Sources |->
                        IF s \in stored /\ RetryDue(s)
                        THEN [streak[s] EXCEPT !.retries = @ + 1]
                        ELSE streak[s]]
        /\ spent' = [s \in Sources |->
                       IF s \in stored THEN SpentAfterTick(s) ELSE spent[s]]
        /\ lastRetry' = [s \in Sources |->
                           IF s \in stored /\ RetryDue(s) THEN now ELSE lastRetry[s]]
        /\ UNCHANGED <<now, stored, working, fetch, scheduled, manual, crashes,
                       scraping, unresumed>>

Running == {s \in Sources : fetch[s] \in {"running", "ripe", "rerun"}}
Waiting == {s \in Sources : fetch[s] = "waiting"}

\* fetch_source up to its first await: the fetch of a source in flight is
\* skipped; another one waits for the semaphore or starts ("Starting fetch").
CallFetch(s, record) ==
    IF fetch[s] \in InFlight
    THEN /\ latest' = [latest EXCEPT ![s] = record]
         /\ UNCHANGED fetch
    ELSE IF Cardinality(Running) < Capacity /\ Waiting = {}
    THEN /\ latest' = [latest EXCEPT ![s] = WithState(record, "active", NoCode, now)]
         /\ fetch' = [fetch EXCEPT ![s] = "running"]
    ELSE /\ latest' = [latest EXCEPT ![s] = record]
         /\ fetch' = [fetch EXCEPT ![s] = "waiting"]

\* A worker loop takes a source: its refresh is dropped when another worker
\* refreshes it, when it was deleted, or when its integration is missing.
DropQueued ==
    /\ queue # <<>>
    /\ Cardinality(working) < Workers
    /\ queue' = Tail(queue)
    /\ UNCHANGED <<now, stored, latest, cache, working, fetch, scheduled, manual,
                   crashes, streak, spent, lastRetry, scraping, unresumed>>

\* ... or it sets the state and fetches, and is busy unless that was skipped.
TakeQueued ==
    /\ queue # <<>>
    /\ Cardinality(working) < Workers
    /\ LET s == Head(queue)
       IN  /\ s \notin working
           /\ s \in stored
           /\ queue' = Tail(queue)
           /\ working' = IF fetch[s] \in InFlight THEN working ELSE working \cup {s}
           /\ CallFetch(s, WithState(latest[s], "refreshing", NoCode, now))
           /\ unresumed' = unresumed \ {s}
    /\ UNCHANGED <<now, stored, cache, scheduled, manual, crashes, streak, spent,
                   lastRetry, scraping>>

\* POST /refresh/{id}, and the other endpoints that look for the source before
\* they set its state (refresh all, interact, a reload, OAuth): the fetch follows
\* the response.
RefreshSource(s) ==
    /\ s \in stored
    /\ manual < MaxManual
    /\ manual' = manual + 1
    /\ latest' = [latest EXCEPT ![s] = WithState(@, "refreshing", NoCode, now)]
    /\ scheduled' = [scheduled EXCEPT ![s] = @ + 1]
    /\ unresumed' = unresumed \ {s}
    /\ UNCHANGED <<now, stored, cache, queue, working, fetch, crashes, streak,
                   spent, lastRetry, scraping>>

\* POST /refresh for a source whose integration is missing: an error state
\* without a code, so that the code of an earlier failure stays.
ReportMissing(s) ==
    /\ s \in stored
    /\ manual < MaxManual
    /\ manual' = manual + 1
    /\ latest' = [latest EXCEPT ![s] = WithState(@, "failed", NoCode, now)]
    /\ UNCHANGED <<now, stored, cache, queue, working, fetch, scheduled, crashes,
                   streak, spent, lastRetry, scraping, unresumed>>

\* A background task calls fetch_source.
RunScheduled(s) ==
    /\ scheduled[s] > 0
    /\ scheduled' = [scheduled EXCEPT ![s] = @ - 1]
    /\ CallFetch(s, latest[s])
    /\ UNCHANGED <<now, stored, cache, queue, working, manual, crashes, streak,
                   spent, lastRetry, scraping, unresumed>>

\* A fetch that waited gets the semaphore.
Admit(s) ==
    /\ fetch[s] = "waiting"
    /\ Cardinality(Running) < Capacity
    /\ fetch' = [fetch EXCEPT ![s] = "running"]
    /\ latest' = [latest EXCEPT ![s] = WithState(@, "active", NoCode, now)]
    /\ UNCHANGED <<now, stored, cache, queue, working, scheduled, manual, crashes,
                   streak, spent, lastRetry, scraping, unresumed>>

\* The flow begins its next step.
StepBegins(s) ==
    /\ s \in Running
    /\ latest' = [latest EXCEPT ![s] = WithState(@, "active", NoCode, now)]
    /\ UNCHANGED <<now, stored, cache, queue, working, fetch, scheduled, manual,
                   crashes, streak, spent, lastRetry, scraping, unresumed>>

\* The flow failed with invalid credentials, their refresh succeeded: the flow
\* runs once more, under the state "refreshing".
TokenRefreshed(s) ==
    /\ fetch[s] = "ripe"
    /\ fetch' = [fetch EXCEPT ![s] = "rerun"]
    /\ latest' = [latest EXCEPT ![s] = WithState(@, "refreshing", NoCode, now)]
    /\ unresumed' = unresumed \ {s}
    /\ UNCHANGED <<now, stored, cache, queue, working, scheduled, manual, crashes,
                   streak, spent, lastRetry, scraping>>

\* The flow ends well ...
FetchSucceeds(s) ==
    /\ fetch[s] \in {"ripe", "rerun"}
    /\ latest' = [latest EXCEPT ![s] = Succeeded(now)]
    /\ fetch' = [fetch EXCEPT ![s] = "none"]
    /\ working' = working \ {s}
    /\ streak' = [streak EXCEPT ![s] = NoStreak]
    /\ spent' = [spent EXCEPT ![s] = [@ EXCEPT !.retries = 0, !.succeeded = TRUE]]
    /\ UNCHANGED <<now, stored, cache, queue, scheduled, manual, crashes, lastRetry,
                   scraping, unresumed>>

\* Mutant of FetchFails: an error leaves the source with its worker.
FetchFails_KeepsWorker(s, code) ==
    /\ fetch[s] \in {"ripe", "rerun"}
    /\ latest' = [latest EXCEPT ![s] = WithState(@, "failed", code, now)]
    /\ fetch' = [fetch EXCEPT ![s] = "none"]
    /\ streak' = [streak EXCEPT ![s] =
                    IF @.code = code THEN @ ELSE [code |-> code, retries |-> 0]]
    /\ UNCHANGED <<now, stored, cache, queue, working, scheduled, manual, crashes,
                   spent, lastRetry, scraping, unresumed>>

\* ... or with an error; a source without a flow fails without a code.  A webview
\* step that has no data yet leaves a task for the scraper and fails with a code
\* that is not retried.
FetchFails(s, code) ==
    /\ fetch[s] \in {"ripe", "rerun"}
    /\ latest' = [latest EXCEPT ![s] = WithState(@, "failed", code, now)]
    /\ fetch' = [fetch EXCEPT ![s] = "none"]
    /\ working' = working \ {s}
    /\ streak' = [streak EXCEPT ![s] =
                    IF @.code = code THEN @ ELSE [code |-> code, retries |-> 0]]
    /\ \/ UNCHANGED <<scraping, manual>>
       \/ /\ code \in Codes \ RetryCodes
          /\ manual < MaxManual
          /\ manual' = manual + 1
          /\ scraping' = scraping \cup {s}
    /\ UNCHANGED <<now, stored, cache, queue, scheduled, crashes, spent,
                   lastRetry, unresumed>>

\* POST /internal/scraper/complete: "refreshing" is written before the source is
\* looked for, and stays without a fetch if it was deleted, or its integration
\* is missing.
ScraperCompletes(s) ==
    /\ s \in scraping
    /\ scraping' = scraping \ {s}
    /\ latest' = [latest EXCEPT ![s] = WithState(@, "refreshing", NoCode, now)]
    /\ \/ /\ s \in stored
          /\ scheduled' = [scheduled EXCEPT ![s] = @ + 1]
          /\ unresumed' = unresumed \ {s}
       \/ /\ unresumed' = unresumed \cup {s}
          /\ UNCHANGED scheduled
    /\ UNCHANGED <<now, stored, cache, queue, working, fetch, manual, crashes,
                   streak, spent, lastRetry>>

\* POST /internal/scraper/fail: a failure with its code; one that could be
\* retried does not overwrite a state that waits for the user.
ScraperFails(s, code) ==
    /\ s \in scraping
    /\ scraping' = scraping \ {s}
    /\ \/ /\ latest' = [latest EXCEPT ![s] = WithState(@, "failed", code, now)]
          /\ streak' = [streak EXCEPT ![s] =
                          IF @.code = code THEN @ ELSE [code |-> code, retries |-> 0]]
       \/ /\ code \in RetryCodes
          /\ latest[s] # NoRecord
          /\ latest[s].status = "failed"
          /\ latest[s].code \notin RetryCodes
          /\ UNCHANGED <<latest, streak>>
    /\ UNCHANGED <<now, stored, cache, queue, working, fetch, scheduled, manual,
                   crashes, spent, lastRetry, unresumed>>

\* DELETE /sources/{id}: a fetch in flight, the queue, the cache and the task of
\* the scraper stay.
DeleteSource(s) ==
    /\ s \in stored
    /\ stored' = stored \ {s}
    /\ latest' = [latest EXCEPT ![s] = NoRecord]
    /\ UNCHANGED <<now, cache, queue, working, fetch, scheduled, manual, crashes,
                   streak, spent, lastRetry, scraping, unresumed>>

\* The backend stops, by stop() or by a crash, and starts again: the records
\* are all that is left.
Restart ==
    /\ crashes < MaxCrashes
    /\ crashes' = crashes + 1
    /\ cache' = [s \in Sources |-> NoMeta]
    /\ queue' = <<>>
    /\ working' = {}
    /\ fetch' = [s \in Sources |-> "none"]
    /\ scheduled' = [s \in Sources |-> 0]
    /\ scraping' = {}
    /\ UNCHANGED <<now, stored, latest, manual, streak, spent, lastRetry,
                   unresumed>>

\* The clock; at its bound it stands still, fetches go on.
TimePasses ==
    /\ now' = IF now < MaxNow THEN now + 1 ELSE now
    /\ fetch' = [s \in Sources |-> IF fetch[s] = "running" THEN "ripe" ELSE fetch[s]]
    /\ UNCHANGED <<stored, latest, cache, queue, working, scheduled, manual,
                   crashes, streak, spent, lastRetry, scraping, unresumed>>

Next ==
    \/ Tick
    \/ DropQueued
    \/ TakeQueued
    \/ \E s \in Sources :
          \/ RefreshSource(s) \/ ReportMissing(s) \/ RunScheduled(s) \/ Admit(s)
          \/ StepBegins(s) \/ TokenRefreshed(s) \/ FetchSucceeds(s) \/ DeleteSource(s)
          \/ \E code \in Codes \cup {NoCode} : FetchFails(s, code)
          \/ ScraperCompletes(s)
          \/ \E code \in Codes : ScraperFails(s, code)
    \/ Restart
    \/ TimePasses

Spec == Init /\ [][Next]_vars

\* The loops of the scheduler keep running, background tasks are run, the
\* semaphore serves its waiters in order, and a flow ends, well or badly (its
\* steps have timeouts).
Fairness ==
    /\ WF_vars(Tick)
    /\ WF_vars(DropQueued \/ TakeQueued)
    /\ WF_vars(TimePasses)
    /\ \A s \in Sources :
          /\ WF_vars(RunScheduled(s))
          /\ SF_vars(Admit(s))
          /\ WF_vars(FetchSucceeds(s) \/ \E code \in Codes \cup {NoCode} : FetchFails(s, code))

FairSpec == Spec /\ Fairness

-----------------------------------------------------------------------------
\* Every variable stays in its range, and a source that fails is remembered
\* with the code on its record.
TypeOK ==
    /\ now \in 0..MaxNow
    /\ stored \subseteq Sources
    /\ latest \in [Sources -> Record \cup {NoRecord}]
    /\ cache \in [Sources -> Meta \cup {NoMeta}]
    /\ queue \in Seq(Sources)
    /\ working \subseteq Sources
    /\ fetch \in [Sources -> InFlight \cup {"none"}]
    /\ scheduled \in [Sources -> Nat]
    /\ manual \in 0..MaxManual
    /\ crashes \in 0..MaxCrashes
    /\ scraping \subseteq Sources
    /\ unresumed \subseteq Sources
    /\ streak \in [Sources -> [code : Codes \cup {NoCode}, retries : Nat]]
    /\ spent \in [Sources -> [code : Codes \cup {NoCode}, retries : Nat,
                              succeeded : BOOLEAN]]
    /\ lastRetry \in [Sources -> Nat \cup {NoTime}]

\* Retries and interval refreshes share one queue: a source is queued at most
\* once, never while a worker refreshes it, and a worker is only ever busy
\* with a fetch that is in flight, whatever is refreshed by hand meanwhile.
QueueOwnership ==
    /\ \A i, j \in DOMAIN queue : queue[i] = queue[j] => i = j
    /\ Range(queue) \cap working = {}
    /\ \A s \in working : fetch[s] \in InFlight
    /\ Cardinality(working) <= Workers

\* At most Len(Backoff) automatic retries of a source between two successes
\* or changes of the failure code, over restarts, state churn and refreshes:
\* what the documentation says of the budget, and the code does not keep.
RetryBudget == \A s \in Sources : streak[s].retries <= Len(Backoff)

\* What the code keeps of it: as long as every tick sees the source failed with
\* one code, or active and no success before that, it queues at most Len(Backoff)
\* retries, over restarts that leave only the record of the window, deletions,
\* interval refreshes and records that change between ticks.
WindowBudget == \A s \in Sources : spent[s].retries <= Len(Backoff)

\* Automatic retries of a source are spaced by the growing backoff of their
\* window, the first of a window by the first backoff also from the last of the
\* window before, given up and begun again as windows are.
RetriesSpaced ==
    [][\A s \in Sources :
          streak'[s].retries > streak[s].retries /\ lastRetry[s] # NoTime
          => now - lastRetry[s] >= Backoff[spent'[s].retries]]_vars

Refreshing(s) == latest[s] # NoRecord /\ latest[s].status = "refreshing"

\* What is queued is taken from the queue, however busy the executor is, and a
\* source that shows "refreshing" is refreshed: the state never stays, but where
\* a completed scrape wrote it and found no source to go on with.
Served ==
    \A s \in Sources :
        /\ s \in Range(queue) ~> s \notin Range(queue)
        /\ Refreshing(s) /\ s \notin unresumed ~> ~Refreshing(s)

=============================================================================
