---------------------- MODULE SourceUpdateCoordinator ----------------------
(***************************************************************************)
(* ui-react/src/pages/sourceUpdateCoordinator.ts: it keeps the dashboard's *)
(* list of sources and their details up to date from polls, websocket      *)
(* events and manual refreshes, with one queue of detail requests.         *)
(*                                                                         *)
(* The coordinator runs on the event loop of the page; an action is one    *)
(* callback.  The requests it makes are answered by the backend at any     *)
(* time and the answers arrive in any order.                               *)
(*                                                                         *)
(* Abstractions: every write of the backend gives a source a new version,  *)
(* which stands for its status and its updated_at; an event announces both *)
(* or is lost; among tasks of one boost the order (dashboard priority) is  *)
(* left open; summaryById and the sources of the snapshot are one list:    *)
(* the coordinator always writes both.  A slot of a request stands for its *)
(* id: it is taken while the request lives.                                *)
(***************************************************************************)
EXTENDS Integers, Sequences, FiniteSets

CONSTANTS
    Sources,
    Slots,          \* maxConcurrency places for detail requests
    NoRequest,
    Absent,         \* not there: not stored, not listed, not loaded
    Deleted,        \* a source that was stored
    MaxVersion,     \* bound: writes of a source
    MaxPolls,       \* bound: polls under way
    MaxChanges,     \* bound: sources added or deleted
    MaxFailures,    \* bound: detail requests that fail
    MaxManual       \* bound: manual refreshes

ASSUME SlotAssumption == NoRequest \notin Slots /\ IsFiniteSet(Slots)
ASSUME AbsentAssumption ==
    /\ Absent \notin Int \cup Sources \cup [status : Int, updated : Int]
    /\ Deleted \notin Int \cup {Absent}
ASSUME BoundAssumption ==
    {MaxVersion, MaxPolls, MaxChanges, MaxFailures, MaxManual} \subseteq Nat

VARIABLES
    server,     \* version of the record of every stored source
    polls,      \* lists the backend answered that have not arrived
    events,     \* websocket events on their way
    summary,    \* the listed sources: version of status and of updated_at
    data,       \* dataMap: version of the loaded detail
    runtime,    \* sourceRuntime
    queue,      \* tasks: not queued, queued, or queued with manualBoost
    requests,   \* detail requests in flight, with the version answered
    changes, failures, manuals,     \* bounds
    heard       \* history: newest version a listed source was announced with

backend == <<server, polls, events>>
bounds == <<changes, failures, manuals>>
vars == <<backend, summary, data, runtime, queue, requests, bounds, heard>>

Versions == 0..MaxVersion
Unanswered == -1    \* a request the backend has not read the record for
Failed == -2        \* a request that is answered with an error
Free == [source |-> Absent, detail |-> Unanswered]

\* getOrCreateRuntimeState; inFlight is request # NoRequest, recent is a last
\* submit inside the throttle window, trailing tells the pending timer and
\* whether it forces.
NewRuntime ==
    [request |-> NoRequest, refetch |-> FALSE, boost |-> FALSE,
     recent |-> FALSE, trailing |-> "none"]

Stored(s) == server[s] \in Versions

List == [s \in Sources |-> IF Stored(s) THEN server[s] ELSE Absent]

\* start: the bootstrap poll is under way.
Init ==
    /\ server \in [Sources -> {0, Absent}]
    /\ polls = {[list |-> List, force |-> TRUE]}
    /\ events = <<>>
    /\ summary = [s \in Sources |-> Absent]
    /\ data = [s \in Sources |-> Absent]
    /\ runtime = [s \in Sources |-> NewRuntime]
    /\ queue = [s \in Sources |-> "out"]
    /\ requests = [k \in Slots |-> Free]
    /\ changes = 0 /\ failures = 0 /\ manuals = 0
    /\ heard = [s \in Sources |-> Absent]

-----------------------------------------------------------------------------
\* Mutant of NeedsFetch: a detail that is there is not fetched again.
NeedsFetch_OnlyNew(list, details, s) == details[s] = Absent

\* needsFetch, with the list and the details it looks at
NeedsFetch(list, details, s) ==
    \/ details[s] = Absent
    \/ /\ list[s] # Absent
       /\ details[s] < list[s].updated

\* Mutant of Submitted: what comes while a request is in flight is dropped.
Submitted_NotInFlight(run, task, force, boost, bypass) ==
    IF run.request # NoRequest
    THEN [run |-> run, task |-> task]
    ELSE IF ~bypass /\ ~boost /\ run.recent
    THEN [run |-> [run EXCEPT !.trailing = IF force THEN "force" ELSE @], task |-> task]
    ELSE [run |-> [run EXCEPT !.trailing = "none", !.recent = TRUE],
          task |-> IF boost \/ task = "boosted" THEN "boosted" ELSE "plain"]

\* submitSources for one source that needs it: an in-flight request is
\* repeated, a recent one is put off, else the source is queued.
Submitted(run, task, force, boost, bypass) ==
    IF run.request # NoRequest
    THEN [run |-> [run EXCEPT !.refetch = TRUE, !.boost = @ \/ boost], task |-> task]
    ELSE IF ~bypass /\ ~boost /\ run.recent
    THEN [run |-> [run EXCEPT !.trailing = IF force \/ @ = "force" THEN "force" ELSE "check"],
          task |-> task]
    ELSE [run |-> [run EXCEPT !.trailing = "none", !.recent = TRUE],
          task |-> IF boost \/ task = "boosted" THEN "boosted" ELSE "plain"]

\* pumpQueue and startTask: as many tasks as there are free places, the
\* boosted ones first
Pump(runs, tasks, reqs) ==
    LET free == {k \in Slots : reqs[k] = Free}
        waiting == {s \in Sources : tasks[s] # "out"}
    IN  \E used \in SUBSET free : \E start \in [used -> waiting] :
            LET started == {start[k] : k \in used}
            IN  /\ Cardinality(started) = Cardinality(used)
                /\ used = free \/ started = waiting
                /\ \A s \in started, other \in waiting \ started :
                      tasks[other] = "boosted" => tasks[s] = "boosted"
                /\ runtime' = [s \in Sources |->
                      IF s \in started
                      THEN [runs[s] EXCEPT !.request = CHOOSE k \in used : start[k] = s,
                                           !.refetch = FALSE]
                      ELSE runs[s]]
                /\ queue' = [s \in Sources |-> IF s \in started THEN "out" ELSE tasks[s]]
                /\ requests' = [k \in Slots |->
                      IF k \in used THEN [source |-> start[k], detail |-> Unanswered]
                                    ELSE reqs[k]]

\* submitSources for one source
Submit(s, force, boost, bypass) ==
    LET result == Submitted(runtime[s], queue[s], force, boost, bypass)
    IN  Pump([runtime EXCEPT ![s] = result.run], [queue EXCEPT ![s] = result.task], requests)

-----------------------------------------------------------------------------
\* The backend writes the record of a source; the event may be lost.
Write(s, told) ==
    /\ Stored(s)
    /\ server[s] < MaxVersion
    /\ server' = [server EXCEPT ![s] = @ + 1]
    /\ events' = IF told
                 THEN Append(events, [source |-> s, version |-> server[s] + 1])
                 ELSE events
    /\ UNCHANGED <<polls, summary, data, runtime, queue, requests, bounds, heard>>

\* A source is added, or deleted: its id does not come back.
AddSource(s) ==
    /\ server[s] = Absent
    /\ changes < MaxChanges
    /\ changes' = changes + 1
    /\ server' = [server EXCEPT ![s] = 0]
    /\ UNCHANGED <<polls, events, summary, data, runtime, queue, requests,
                   failures, manuals, heard>>

DeleteSource(s) ==
    /\ Stored(s)
    /\ changes < MaxChanges
    /\ changes' = changes + 1
    /\ server' = [server EXCEPT ![s] = Deleted]
    /\ UNCHANGED <<polls, events, summary, data, runtime, queue, requests,
                   failures, manuals, heard>>

\* pollNow up to its await, and the backend's answer; the timer, the page
\* becoming visible and other handlers call it without waiting for the last.
Poll ==
    /\ Cardinality(polls) < MaxPolls
    /\ polls' = polls \cup {[list |-> List, force |-> FALSE]}
    /\ UNCHANGED <<server, events, summary, data, runtime, queue, requests, bounds, heard>>

\* The rest of pollNow with applySourcesSnapshot
PollArrives(poll) ==
    LET listed == {s \in Sources : poll.list[s] # Absent}
        removed == {s \in Sources \ listed : summary[s] # Absent}
        changed == {s \in listed :
                      \/ summary[s] = Absent
                      \/ poll.force
                      \/ summary[s] # [status |-> poll.list[s], updated |-> poll.list[s]]}
        list == [s \in Sources |-> IF s \in listed
                                   THEN [status |-> poll.list[s], updated |-> poll.list[s]]
                                   ELSE Absent]
        details == [s \in Sources |-> IF s \in listed THEN data[s] ELSE Absent]
        submitted == {s \in changed : poll.force \/ NeedsFetch(list, details, s)}
        result == [s \in Sources |->
                      IF s \in submitted
                      THEN Submitted(runtime[s], queue[s], poll.force, FALSE, FALSE)
                      ELSE IF s \in removed
                      THEN [run |-> NewRuntime, task |-> "out"]
                      ELSE [run |-> runtime[s], task |-> queue[s]]]
    IN  /\ poll \in polls
        /\ polls' = polls \ {poll}
        /\ summary' = list
        /\ data' = details
        /\ heard' = [s \in Sources |-> IF s \in removed THEN Absent ELSE heard[s]]
        /\ Pump([s \in Sources |-> result[s].run], [s \in Sources |-> result[s].task], requests)
        /\ UNCHANGED <<server, events, bounds>>

\* handleWebSocketEvent: the status is shown at once, updated_at is not kept.
EventArrives ==
    /\ events # <<>>
    /\ events' = Tail(events)
    /\ LET event == Head(events)
           s == event.source
       IN  /\ summary' = IF summary[s] = Absent
                         THEN summary
                         ELSE [summary EXCEPT ![s].status = event.version]
           /\ heard' = IF summary[s] = Absent THEN heard ELSE [heard EXCEPT ![s] = event.version]
           /\ Submit(s, TRUE, FALSE, FALSE)
    /\ UNCHANGED <<server, polls, data, bounds>>

\* handleRefreshSource once the backend accepted the refresh
ManualRefresh(s) ==
    /\ summary[s] # Absent
    /\ manuals < MaxManual
    /\ manuals' = manuals + 1
    /\ Submit(s, TRUE, TRUE, FALSE)
    /\ UNCHANGED <<backend, summary, data, changes, failures, heard>>

\* The throttle window of the last submit is over.
ThrottleEnds(s) ==
    /\ runtime[s].recent
    /\ runtime' = [runtime EXCEPT ![s].recent = FALSE]
    /\ UNCHANGED <<backend, summary, data, queue, requests, bounds, heard>>

\* The timer of scheduleTrailingSubmit
TrailingSubmit(s) ==
    /\ runtime[s].trailing # "none"
    /\ ~runtime[s].recent
    /\ LET run == [runtime[s] EXCEPT !.trailing = "none"]
           force == runtime[s].trailing = "force"
           result == IF force \/ NeedsFetch(summary, data, s)
                     THEN Submitted(run, queue[s], force, FALSE, TRUE)
                     ELSE [run |-> run, task |-> queue[s]]
       IN  Pump([runtime EXCEPT ![s] = result.run], [queue EXCEPT ![s] = result.task], requests)
    /\ UNCHANGED <<backend, summary, data, bounds, heard>>

\* The backend reads the record for a detail request, or has none.
Answer(k) ==
    /\ requests[k] # Free
    /\ requests[k].detail = Unanswered
    /\ requests' = [requests EXCEPT ![k].detail =
                      IF Stored(requests[k].source) THEN server[requests[k].source] ELSE Failed]
    /\ UNCHANGED <<backend, summary, data, runtime, queue, bounds, heard>>

FailRequest(k) ==
    /\ requests[k] # Free
    /\ requests[k].detail = Unanswered
    /\ failures < MaxFailures
    /\ failures' = failures + 1
    /\ requests' = [requests EXCEPT ![k].detail = Failed]
    /\ UNCHANGED <<backend, summary, data, runtime, queue, changes, manuals, heard>>

\* Mutant of IsCurrent: the request id is not compared.
IsCurrent_Any(k) == TRUE

\* The request is still the active one of its source.
IsCurrent(k) == runtime[requests[k].source].request = k

\* The detail is older than the list.
IsStale(k) ==
    /\ summary[requests[k].source] # Absent
    /\ requests[k].detail < summary[requests[k].source].updated

\* Mutant of Commits: a failed request is not looked for.
Commits_Failed(k) == IsCurrent(k) /\ ~IsStale(k)

\* commitDetail takes the detail.
Commits(k) == requests[k].detail # Failed /\ IsCurrent(k) /\ ~IsStale(k)

\* Mutant of Ended: the source stays in flight.
Ended_InFlight(run, k, refetch) ==
    [run EXCEPT !.refetch = FALSE, !.boost = IF refetch THEN FALSE ELSE @]

\* What the end of a request leaves of the state of its source
Ended(run, k, refetch) ==
    [run EXCEPT !.request = IF @ = k THEN NoRequest ELSE @,
                !.refetch = FALSE,
                !.boost = IF refetch THEN FALSE ELSE @]

\* runTask after its await: commitDetail, then the request ends and is
\* repeated if something came meanwhile.
DetailArrives(k) ==
    LET s == requests[k].source
        detail == requests[k].detail
        refetch == \/ runtime[s].refetch
                   \/ detail # Failed /\ IsCurrent(k) /\ IsStale(k)
        ended == Ended(runtime[s], k, refetch)
        result == IF refetch
                  THEN Submitted(ended, queue[s], TRUE, runtime[s].boost, FALSE)
                  ELSE [run |-> ended, task |-> queue[s]]
    IN  /\ requests[k] # Free
        /\ detail # Unanswered
        /\ data' = IF Commits(k) THEN [data EXCEPT ![s] = detail] ELSE data
        /\ summary' = IF Commits(k) /\ summary[s] # Absent
                      THEN [summary EXCEPT ![s] = [status |-> detail, updated |-> detail]]
                      ELSE summary
        /\ Pump([runtime EXCEPT ![s] = result.run],
                [queue EXCEPT ![s] = result.task], [requests EXCEPT ![k] = Free])
        /\ UNCHANGED <<backend, bounds, heard>>

Next ==
    \/ \E s \in Sources :
          \/ \E told \in BOOLEAN : Write(s, told)
          \/ AddSource(s) \/ DeleteSource(s)
          \/ ManualRefresh(s) \/ ThrottleEnds(s) \/ TrailingSubmit(s)
    \/ Poll
    \/ \E poll \in polls : PollArrives(poll)
    \/ EventArrives
    \/ \E k \in Slots : Answer(k) \/ FailRequest(k) \/ DetailArrives(k)

Spec == Init /\ [][Next]_vars

\* The poll timer fires, the backend answers, answers arrive, timers fire.
\* Nothing is assumed of events.
Fairness ==
    /\ WF_vars(Poll)
    /\ \A poll \in [list : [Sources -> Versions \cup {Absent}], force : BOOLEAN] :
          WF_vars(PollArrives(poll))
    /\ \A s \in Sources : WF_vars(ThrottleEnds(s)) /\ WF_vars(TrailingSubmit(s))
    /\ \A k \in Slots : WF_vars(Answer(k)) /\ WF_vars(DetailArrives(k))

FairSpec == Spec /\ Fairness

-----------------------------------------------------------------------------
\* Every variable stays in its range.
TypeOK ==
    /\ server \in [Sources -> Versions \cup {Absent, Deleted}]
    /\ polls \subseteq [list : [Sources -> Versions \cup {Absent}], force : BOOLEAN]
    /\ events \in Seq([source : Sources, version : Versions])
    /\ summary \in [Sources -> [status : Versions, updated : Versions] \cup {Absent}]
    /\ data \in [Sources -> Versions \cup {Absent}]
    /\ runtime \in [Sources -> [request : Slots \cup {NoRequest}, refetch : BOOLEAN,
                                boost : BOOLEAN, recent : BOOLEAN,
                                trailing : {"none", "check", "force"}]]
    /\ queue \in [Sources -> {"out", "plain", "boosted"}]
    /\ requests \in [Slots -> {Free} \cup
          [source : Sources, detail : Versions \cup {Unanswered, Failed}]]
    /\ heard \in [Sources -> Versions \cup {Absent}]

\* The request a source waits for is a live request for that source, a source
\* that has one is not queued, and no slot is left free while a source is
\* queued: whatever ends a request or adds a task starts the next one.
SlotsServe ==
    /\ \A s \in Sources : runtime[s].request # NoRequest =>
          /\ requests[runtime[s].request].source = s
          /\ queue[s] = "out"
    /\ (\E s \in Sources : queue[s] # "out") => \A k \in Slots : requests[k] # Free

\* Something will still bring what is wanted for the source.
Pending(s, wanted) ==
    \/ queue[s] # "out"
    \/ runtime[s].refetch
    \/ runtime[s].trailing # "none"
    \/ /\ runtime[s].request # NoRequest
       /\ LET answer == requests[runtime[s].request].detail
          IN  answer = Unanswered \/ answer >= wanted

\* An announced version is never forgotten: if the detail of a listed source
\* is older than the list or than an event, a request that will bring it is
\* in flight, queued or timed, however bursts, throttling and answers in
\* flight interleave (where no request fails).
UpdateNotForgotten ==
    \A s \in Sources : Stored(s) /\ summary[s] # Absent =>
        \A wanted \in {summary[s].updated, heard[s]} \ {Absent} :
            data[s] = Absent \/ data[s] < wanted => Pending(s, wanted)

\* The detail of a source is never replaced by an older one, and a detail that
\* arrives never makes the list older (a list that arrives replaces it).
NeverAged ==
    [][\A s \in Sources :
          /\ data[s] # Absent /\ data'[s] # Absent => data'[s] >= data[s]
          /\ polls' = polls /\ summary[s] # Absent /\ summary'[s] # Absent
              => summary'[s].updated >= summary[s].updated]_vars

\* Older detail responses do not overwrite newer summary state.
StatusNotAgedByDetail ==
    [][polls' = polls =>
          \A s \in Sources : summary[s] # Absent /\ summary'[s] # Absent
              => summary'[s].status >= summary[s].status]_vars

\* The list and the details are those of the backend.
Synchronized ==
    \A s \in Sources :
        IF Stored(s)
        THEN data[s] = server[s] /\ summary[s] = [status |-> server[s], updated |-> server[s]]
        ELSE data[s] = Absent /\ summary[s] = Absent

\* Once the backend is quiet, the dashboard shows what it has, unless a
\* request failed: the coordinator does not ask again for that detail.
Converges == <>[](failures = 0 => Synchronized)

=============================================================================
