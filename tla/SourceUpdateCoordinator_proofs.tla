------------------- MODULE SourceUpdateCoordinator_proofs -------------------
(***************************************************************************)
(* Proofs about the coordinator, for any sources, places for requests and  *)
(* bounds: its types, that its places serve its queue, that details never  *)
(* age and that no announced version is forgotten.                         *)
(***************************************************************************)
EXTENDS SourceUpdateCoordinator, SequenceTheorems, TLAPS

(***************************************************************************)
(* The inductive invariant.                                                *)
(***************************************************************************)
\* A version of a source that is there, or was: no later write undoes it.
Known(stored, s, version) ==
    stored[s] = Deleted \/ (stored[s] \in Versions /\ version <= stored[s])

\* What the coordinator shows of a source, lists hold and events announce was
\* stored, and is not newer than what is stored.
ShownIsKnown ==
    /\ \A s \in Sources :
          /\ summary[s] # Absent =>
                Known(server, s, summary[s].status) /\ Known(server, s, summary[s].updated)
          /\ data[s] # Absent => Known(server, s, data[s])
          /\ heard[s] # Absent => Known(server, s, heard[s]) /\ summary[s] # Absent
    /\ \A poll \in polls, s \in Sources : poll.list[s] # Absent => Known(server, s, poll.list[s])
    /\ \A i \in 1..Len(events) : Known(server, events[i].source, events[i].version)

\* A detail is asked for, at once or later, only of a source that was stored,
\* and the answer tells what is stored or that it is deleted, unless it failed.
AskedIsKnown ==
    /\ \A s \in Sources :
          queue[s] # "out" \/ runtime[s].trailing # "none" => server[s] # Absent
    /\ \A k \in Slots : requests[k] # Free =>
          /\ server[requests[k].source] # Absent
          /\ requests[k].detail \in Versions =>
                Known(server, requests[k].source, requests[k].detail)
          /\ requests[k].detail = Failed =>
                failures > 0 \/ server[requests[k].source] = Deleted

\* What the current request of a source brings is not older than its detail.
DetailsAscend ==
    \A s \in Sources :
        /\ runtime[s].request # NoRequest
        /\ requests[runtime[s].request].detail \in Versions
        /\ data[s] # Absent
        => data[s] <= requests[runtime[s].request].detail

\* The state of a source and its task promise a detail of the wanted version;
\* a timer counts if it is one of these.
Waits(run, task, reqs, wanted, timers) ==
    \/ task # "out"
    \/ run.refetch
    \/ run.trailing \in timers
    \/ /\ run.request # NoRequest
       /\ \/ reqs[run.request].detail = Unanswered
          \/ reqs[run.request].detail >= wanted

Lacks(s, wanted) == data[s] = Absent \/ data[s] < wanted

StillComes(s, wanted, timers) ==
    Lacks(s, wanted) => Waits(runtime[s], queue[s], requests, wanted, timers)

AnyTimer == {"check", "force"}
Forcing == {"force"}

\* UpdateNotForgotten, and more: a timer that only checks looks at the list,
\* which does not tell what an event announced, so for that it must force.
NoneForgotten ==
    failures = 0 => \A s \in Sources : Stored(s) /\ summary[s] # Absent =>
        /\ StillComes(s, summary[s].updated, AnyTimer)
        /\ heard[s] # Absent => StillComes(s, heard[s], Forcing)

\* The coordinator in every reachable state
IInv ==
    /\ TypeOK /\ failures \in Nat
    /\ SlotsServe
    /\ ShownIsKnown
    /\ AskedIsKnown
    /\ DetailsAscend
    /\ NoneForgotten

-----------------------------------------------------------------------------
(***************************************************************************)
(* submitSources and pumpQueue, whatever state they are applied to.        *)
(***************************************************************************)
Run == [request : Slots \cup {NoRequest}, refetch : BOOLEAN, boost : BOOLEAN,
        recent : BOOLEAN, trailing : {"none", "check", "force"}]
Task == {"out", "plain", "boosted"}
Request == {Free} \cup [source : Sources, detail : Versions \cup {Unanswered, Failed}]

\* A submit keeps the request of the source and does not queue a source that
\* has one; it loses no work, and what it submits will be asked for, by force
\* if it was submitted by force.
Kept(run, task, force, result) ==
    /\ result.run \in Run /\ result.task \in Task
    /\ result.run.request = run.request
    /\ run.request # NoRequest => result.task = task
    /\ task # "out" => result.task # "out"
    /\ run.refetch \/ run.request # NoRequest => result.run.refetch
    /\ \/ result.task # "out" \/ result.run.refetch
       \/ result.run.trailing = "force"
       \/ result.run.trailing = "check" /\ ~force /\ run.trailing # "force"

\* Submitting keeps every request that was asked for.
LEMMA SubmittedIs ==
    \A run \in Run, task \in Task, force \in BOOLEAN, boost \in BOOLEAN, bypass \in BOOLEAN :
        Kept(run, task, force, Submitted(run, task, force, boost, bypass))
<1> SUFFICES ASSUME NEW run \in Run, NEW task \in Task, NEW force \in BOOLEAN,
                    NEW boost \in BOOLEAN, NEW bypass \in BOOLEAN,
                    NEW result, result = Submitted(run, task, force, boost, bypass)
             PROVE  Kept(run, task, force, result)
    OBVIOUS
<1>1. CASE run.request # NoRequest
    <2>1. PICK new : new = [run EXCEPT !.refetch = TRUE, !.boost = @ \/ boost]
        OBVIOUS
    <2>2. new \in Run /\ new.request = run.request /\ new.refetch
        BY <2>1 DEF Run
    <2>3. result = [run |-> new, task |-> task]
        BY <1>1, <2>1 DEF Submitted
    <2>4. QED
        BY <1>1, <2>2, <2>3 DEF Kept
<1>2. CASE run.request = NoRequest /\ ~bypass /\ ~boost /\ run.recent
    <2>1. PICK timer \in {"force", "check"} :
             /\ result = [run |-> [run EXCEPT !.trailing = timer], task |-> task]
             /\ timer = "check" => ~force /\ run.trailing # "force"
        BY <1>2 DEF Submitted
    <2>2. PICK new : new = [run EXCEPT !.trailing = timer]
        OBVIOUS
    <2>3. /\ new \in Run /\ new.request = run.request /\ new.refetch = run.refetch
          /\ new.trailing = timer
        BY <2>2 DEF Run
    <2>4. result = [run |-> new, task |-> task]
        BY <2>1, <2>2
    <2>5. QED
        BY <1>2, <2>1, <2>3, <2>4 DEF Kept
<1>3. CASE run.request = NoRequest /\ ~(~bypass /\ ~boost /\ run.recent)
    <2>1. PICK next \in {"plain", "boosted"} :
             result = [run |-> [run EXCEPT !.trailing = "none", !.recent = TRUE], task |-> next]
        BY <1>3 DEF Submitted
    <2>2. PICK new : new = [run EXCEPT !.trailing = "none", !.recent = TRUE]
        OBVIOUS
    <2>3. new \in Run /\ new.request = run.request /\ new.refetch = run.refetch
        BY <2>2 DEF Run
    <2>4. result = [run |-> new, task |-> next] /\ next \in Task /\ next # "out"
        BY <2>1, <2>2 DEF Task
    <2>5. QED
        BY <1>3, <2>3, <2>4 DEF Kept
<1>4. QED
    BY <1>1, <1>2, <1>3

\* The places of requests serve what is asked for in these states.
Served(runs, tasks, reqs) ==
    \A s \in Sources : runs[s].request # NoRequest =>
        /\ runs[s].request \in Slots
        /\ reqs[runs[s].request].source = s
        /\ tasks[s] = "out"

\* What pumpQueue may be given
Pumpable(runs, tasks, reqs) ==
    /\ runs \in [Sources -> Run] /\ tasks \in [Sources -> Task] /\ reqs \in [Slots -> Request]
    /\ Served(runs, tasks, reqs)

\* pumpQueue leaves a source and its request alone, or starts its request.
Pumped(runs, tasks, reqs) ==
    /\ Pumpable(runtime', queue', requests')
    /\ (\E s \in Sources : queue'[s] # "out") => \A k \in Slots : requests'[k] # Free
    /\ \A s \in Sources :
          \/ /\ runtime'[s] = runs[s] /\ queue'[s] = tasks[s]
             /\ runs[s].request # NoRequest =>
                   requests'[runs[s].request] = reqs[runs[s].request]
          \/ /\ tasks[s] # "out" /\ queue'[s] = "out"
             /\ runtime'[s].request # NoRequest
             /\ requests'[runtime'[s].request].detail = Unanswered
             /\ runtime'[s].trailing = runs[s].trailing
    /\ \A k \in Slots :
          \/ requests'[k] = reqs[k]
          \/ \E s \in Sources : /\ tasks[s] # "out"
                                /\ requests'[k] = [source |-> s, detail |-> Unanswered]

\* Pumping is that.
LEMMA PumpIs ==
    ASSUME NEW runs, NEW tasks, NEW reqs, Pumpable(runs, tasks, reqs), Pump(runs, tasks, reqs)
    PROVE  Pumped(runs, tasks, reqs)
<1>1. PICK used \in SUBSET {k \in Slots : reqs[k] = Free} :
      \E start \in [used -> {s \in Sources : tasks[s] # "out"}] :
         LET started == {start[k] : k \in used}
         IN  /\ \/ used = {k \in Slots : reqs[k] = Free}
                \/ started = {s \in Sources : tasks[s] # "out"}
             /\ runtime' = [s \in Sources |->
                   IF s \in started
                   THEN [runs[s] EXCEPT !.request = CHOOSE k \in used : start[k] = s,
                                        !.refetch = FALSE]
                   ELSE runs[s]]
             /\ queue' = [s \in Sources |-> IF s \in started THEN "out" ELSE tasks[s]]
             /\ requests' = [k \in Slots |->
                   IF k \in used THEN [source |-> start[k], detail |-> Unanswered] ELSE reqs[k]]
    BY Zenon DEF Pump
<1>2. PICK start \in [used -> {s \in Sources : tasks[s] # "out"}], started \in SUBSET Sources :
         /\ started = {start[k] : k \in used}
         /\ \/ used = {k \in Slots : reqs[k] = Free}
            \/ started = {s \in Sources : tasks[s] # "out"}
         /\ runtime' = [s \in Sources |->
               IF s \in started
               THEN [runs[s] EXCEPT !.request = CHOOSE k \in used : start[k] = s,
                                    !.refetch = FALSE]
               ELSE runs[s]]
         /\ queue' = [s \in Sources |-> IF s \in started THEN "out" ELSE tasks[s]]
         /\ requests' = [k \in Slots |->
               IF k \in used THEN [source |-> start[k], detail |-> Unanswered] ELSE reqs[k]]
    <2>1. PICK start \in [used -> {s \in Sources : tasks[s] # "out"}] :
             LET started == {start[k] : k \in used}
             IN  /\ \/ used = {k \in Slots : reqs[k] = Free}
                    \/ started = {s \in Sources : tasks[s] # "out"}
                 /\ runtime' = [s \in Sources |->
                       IF s \in started
                       THEN [runs[s] EXCEPT !.request = CHOOSE k \in used : start[k] = s,
                                            !.refetch = FALSE]
                       ELSE runs[s]]
                 /\ queue' = [s \in Sources |-> IF s \in started THEN "out" ELSE tasks[s]]
                 /\ requests' = [k \in Slots |->
                       IF k \in used THEN [source |-> start[k], detail |-> Unanswered]
                                     ELSE reqs[k]]
        BY <1>1
    <2>2. {start[k] : k \in used} \in SUBSET Sources
        BY <2>1
    <2>3. QED
        BY <2>1, <2>2, Zenon
<1>3. PICK place : place = [s \in started |-> CHOOSE k \in used : start[k] = s]
    OBVIOUS
<1>4. ASSUME NEW s \in started
      PROVE  /\ place[s] \in used /\ start[place[s]] = s /\ tasks[s] # "out"
             /\ runtime'[s] = [runs[s] EXCEPT !.request = place[s], !.refetch = FALSE]
    BY <1>2, <1>3
<1>5. \A s \in Sources : (s \notin started => runtime'[s] = runs[s])
                         /\ queue'[s] = IF s \in started THEN "out" ELSE tasks[s]
    BY <1>2
<1>6. \A k \in Slots : requests'[k] =
         IF k \in used THEN [source |-> start[k], detail |-> Unanswered] ELSE reqs[k]
    BY <1>2
<1>7. ASSUME NEW k \in used
      PROVE  k \in Slots /\ reqs[k] = Free /\ start[k] \in Sources /\ tasks[start[k]] # "out"
    BY <1>1, <1>2
<1>8. \A k \in Slots : reqs[k].source \in Sources => k \notin used
    BY <1>7, AbsentAssumption DEF Free
<1>9. ASSUME NEW s \in Sources, s \notin started
      PROVE  /\ runtime'[s] = runs[s] /\ queue'[s] = tasks[s]
             /\ runs[s].request # NoRequest =>
                   requests'[runs[s].request] = reqs[runs[s].request]
    BY <1>5, <1>6, <1>8, <1>9, ZenonT(60) DEF Pumpable, Served
<1>10. ASSUME NEW s \in started
       PROVE  /\ runtime'[s].request = place[s] /\ runtime'[s].trailing = runs[s].trailing
              /\ runtime'[s] \in Run
    <2>1. runs[s] \in Run /\ place[s] \in Slots
        BY <1>4, <1>7 DEF Pumpable
    <2>2. PICK new : new = [runs[s] EXCEPT !.request = place[s], !.refetch = FALSE]
        OBVIOUS
    <2>3. new \in Run /\ new.request = place[s] /\ new.trailing = runs[s].trailing
        BY <2>1, <2>2 DEF Run
    <2>4. runtime'[s] = [runs[s] EXCEPT !.request = place[s], !.refetch = FALSE]
        BY <1>4
    <2>5. runtime'[s] = new
        BY ONLY <2>2, <2>4, Zenon
    <2>6. QED
        BY <2>3, <2>5
<1>11. ASSUME NEW s \in started
       PROVE  /\ tasks[s] # "out" /\ queue'[s] = "out"
              /\ runtime'[s].request \in Slots /\ runtime'[s].request # NoRequest
              /\ requests'[runtime'[s].request] = [source |-> s, detail |-> Unanswered]
    <2>1. place[s] \in used /\ start[place[s]] = s /\ tasks[s] # "out"
        BY <1>4
    <2>2. runtime'[s].request = place[s]
        BY <1>10
    <2>3. place[s] \in Slots /\ place[s] # NoRequest
        BY <1>7, <2>1, SlotAssumption
    <2>4. requests'[place[s]] = [source |-> s, detail |-> Unanswered]
        BY <1>6, <2>1, <2>3
    <2>5. QED
        BY <1>5, <2>1, <2>2, <2>3, <2>4
<1>12. runtime' \in [Sources -> Run]
    BY <1>2, <1>9, <1>10 DEF Pumpable
<1>13. queue' \in [Sources -> Task]
    BY <1>2 DEF Pumpable, Task
<1>14. requests' \in [Slots -> Request]
    <2>1. ASSUME NEW s \in Sources PROVE [source |-> s, detail |-> Unanswered] \in Request
        BY DEF Request
    <2>2. QED
        BY <1>2, <1>6, <1>7, <2>1 DEF Pumpable
<1>15. Served(runtime', queue', requests')
    <2>1. ASSUME NEW s \in Sources, runtime'[s].request # NoRequest
          PROVE  /\ runtime'[s].request \in Slots
                 /\ requests'[runtime'[s].request].source = s
                 /\ queue'[s] = "out"
        <3>1. CASE s \in started
            <4>1. [source |-> s, detail |-> Unanswered].source = s
                OBVIOUS
            <4>2. QED
                BY <1>11, <3>1, <4>1
        <3>2. CASE s \notin started
            BY <1>9, <2>1, <3>2 DEF Pumpable, Served
        <3>3. QED
            BY <3>1, <3>2
    <2>2. QED
        BY <2>1 DEF Served
<1>16. ASSUME NEW s \in Sources, queue'[s] # "out", NEW k \in Slots
       PROVE  requests'[k] # Free
    <2>1. s \notin started /\ tasks[s] # "out"
        BY <1>5, <1>16
    <2>2. used = {l \in Slots : reqs[l] = Free}
        BY <1>2, <2>1
    <2>3. ASSUME NEW t \in Sources PROVE [source |-> t, detail |-> Unanswered] # Free
        BY AbsentAssumption DEF Free
    <2>4. QED
        BY <1>6, <1>7, <2>2, <2>3
<1>17. ASSUME NEW s \in started
       PROVE  requests'[runtime'[s].request].detail = Unanswered
    <2>1. [source |-> s, detail |-> Unanswered].detail = Unanswered
        OBVIOUS
    <2>2. QED
        BY <1>11, <1>17, <2>1
<1>18. Pumpable(runtime', queue', requests')
    BY <1>12, <1>13, <1>14, <1>15 DEF Pumpable
<1>19. ASSUME NEW k \in Slots
       PROVE  \/ requests'[k] = reqs[k]
              \/ \E s \in Sources : /\ tasks[s] # "out"
                                    /\ requests'[k] = [source |-> s, detail |-> Unanswered]
    BY <1>6, <1>7
<1>20. QED
    BY <1>9, <1>10, <1>11, <1>16, <1>17, <1>18, <1>19 DEF Pumped

\* What is submitted is waited for, by force if it was submitted by force or
\* waited for by force before.
LEMMA SubmittedWaits ==
    ASSUME NEW run, NEW task, NEW force, NEW result, Kept(run, task, force, result),
           NEW reqs, NEW wanted
    PROVE  /\ Waits(result.run, result.task, reqs, wanted, AnyTimer)
           /\ force \/ Waits(run, task, reqs, wanted, Forcing) =>
                 Waits(result.run, result.task, reqs, wanted, Forcing)
BY DEF Kept, Waits, AnyTimer, Forcing

-----------------------------------------------------------------------------
(***************************************************************************)
(* What every handler that ends in pumpQueue keeps.                        *)
(***************************************************************************)
\* A handler prepares states and tasks and frees places, then the queue is
\* pumped.  If it leaves the sources that have a request alone, but for what
\* a removal forgets, its end keeps what is known of queue and requests, and
\* nothing that is waited for is lost.
LEMMA HandlerKeeps ==
    ASSUME IInv, NEW runs \in [Sources -> Run], NEW tasks \in [Sources -> Task],
           NEW reqs \in [Slots -> Request], Pump(runs, tasks, reqs),
           UNCHANGED <<server, failures>>,
           \A s \in Sources :
              /\ runs[s].request # NoRequest =>
                    /\ runs[s].request = runtime[s].request /\ tasks[s] = queue[s]
                    /\ reqs[runs[s].request] = requests[runs[s].request]
                    /\ data'[s] = data[s] \/ data'[s] = Absent
              /\ tasks[s] # "out" \/ runs[s].trailing # "none" => server[s] # Absent,
           \A k \in Slots : reqs[k] = requests[k] \/ reqs[k] = Free
    PROVE  /\ runtime' \in [Sources -> Run] /\ queue' \in [Sources -> Task]
           /\ requests' \in [Slots -> Request]
           /\ SlotsServe' /\ AskedIsKnown' /\ DetailsAscend'
           /\ \A s \in Sources : \A wanted, timers :
                 Waits(runs[s], tasks[s], reqs, wanted, timers) =>
                    Waits(runtime'[s], queue'[s], requests', wanted, timers)
<1>1. Pumpable(runs, tasks, reqs)
    <2>1. ASSUME NEW s \in Sources, runs[s].request # NoRequest
          PROVE  /\ runs[s].request \in Slots
                 /\ reqs[runs[s].request].source = s
                 /\ tasks[s] = "out"
        <3>1. runs[s] \in Run /\ runs[s].request \in Slots
            BY <2>1 DEF Run
        <3>2. QED
            BY <2>1, <3>1 DEF IInv, SlotsServe
    <2>2. QED
        BY <2>1 DEF Pumpable, Served
<1>2. Pumped(runs, tasks, reqs)
    BY <1>1, PumpIs
<1>3. SlotsServe'
    BY <1>2 DEF SlotsServe, Pumped, Pumpable, Served
<1>4. AskedIsKnown'
    <2>1. ASSUME NEW s \in Sources, queue'[s] # "out" \/ runtime'[s].trailing # "none"
          PROVE  server'[s] # Absent
        BY <1>2, <2>1 DEF Pumped
    <2>2. ASSUME NEW k \in Slots, requests'[k] # Free
          PROVE  /\ server'[requests'[k].source] # Absent
                 /\ requests'[k].detail \in Versions =>
                       Known(server', requests'[k].source, requests'[k].detail)
                 /\ requests'[k].detail = Failed =>
                       failures' > 0 \/ server'[requests'[k].source] = Deleted
        <3>1. CASE requests'[k] = requests[k]
            BY <2>2, <3>1 DEF IInv, AskedIsKnown
        <3>2. ASSUME NEW s \in Sources, tasks[s] # "out",
                     requests'[k] = [source |-> s, detail |-> Unanswered]
              PROVE  /\ server'[requests'[k].source] # Absent
                     /\ requests'[k].detail \notin Versions /\ requests'[k].detail # Failed
            <4>1. requests'[k].source = s /\ requests'[k].detail = Unanswered
                BY <3>2
            <4>2. Unanswered \notin Versions /\ Unanswered # Failed
                BY DEF Versions, Unanswered, Failed
            <4>3. QED
                BY <3>2, <4>1, <4>2
        <3>3. requests'[k] = reqs[k] => requests'[k] = requests[k]
            BY <2>2
        <3>4. QED
            BY <1>2, <3>1, <3>2, <3>3 DEF Pumped
    <2>3. QED
        BY <2>1, <2>2 DEF AskedIsKnown
<1>5. DetailsAscend'
    <2>1. ASSUME NEW s \in Sources, runtime'[s].request # NoRequest,
                 requests'[runtime'[s].request].detail \in Versions, data'[s] # Absent
          PROVE  data'[s] <= requests'[runtime'[s].request].detail
        <3>1. Unanswered \notin Versions
            BY DEF Versions, Unanswered
        <3>2. QED
            BY <1>2, <2>1, <3>1 DEF IInv, DetailsAscend, Pumped
    <2>2. QED
        BY <2>1 DEF DetailsAscend
<1>6. ASSUME NEW s \in Sources, NEW wanted, NEW timers,
             Waits(runs[s], tasks[s], reqs, wanted, timers)
      PROVE  Waits(runtime'[s], queue'[s], requests', wanted, timers)
    BY <1>2, <1>6 DEF Waits, Pumped
<1>7. QED
    BY <1>2, <1>3, <1>4, <1>5, <1>6 DEF Pumped, Pumpable

\* A handler that submits one source, with the state and the task it leaves it
LEMMA SubmitKeeps ==
    ASSUME IInv, NEW s \in Sources, NEW run \in Run, NEW task \in Task,
           run.request = runtime[s].request, run.request # NoRequest => task = queue[s],
           server[s] # Absent,
           Pump([runtime EXCEPT ![s] = run], [queue EXCEPT ![s] = task], requests),
           UNCHANGED <<server, failures, data>>
    PROVE  /\ runtime' \in [Sources -> Run] /\ queue' \in [Sources -> Task]
           /\ requests' \in [Slots -> Request]
           /\ SlotsServe' /\ AskedIsKnown' /\ DetailsAscend'
           /\ \A wanted, timers :
                 Waits(run, task, requests, wanted, timers) =>
                    Waits(runtime'[s], queue'[s], requests', wanted, timers)
           /\ \A u \in Sources \ {s} : \A wanted, timers :
                 Waits(runtime[u], queue[u], requests, wanted, timers) =>
                    Waits(runtime'[u], queue'[u], requests', wanted, timers)
<1>1. PICK runs, tasks : runs = [runtime EXCEPT ![s] = run] /\ tasks = [queue EXCEPT ![s] = task]
    OBVIOUS
<1>2. /\ runtime \in [Sources -> Run] /\ queue \in [Sources -> Task]
      /\ requests \in [Slots -> Request]
    BY DEF IInv, TypeOK, Run, Task, Request
<1>3. /\ runs \in [Sources -> Run] /\ tasks \in [Sources -> Task]
      /\ runs[s] = run /\ tasks[s] = task
      /\ \A u \in Sources \ {s} : runs[u] = runtime[u] /\ tasks[u] = queue[u]
    BY <1>1, <1>2
<1>4. ASSUME NEW u \in Sources
      PROVE  /\ runs[u].request # NoRequest =>
                    /\ runs[u].request = runtime[u].request /\ tasks[u] = queue[u]
                    /\ requests[runs[u].request] = requests[runs[u].request]
                    /\ data'[u] = data[u] \/ data'[u] = Absent
             /\ tasks[u] # "out" \/ runs[u].trailing # "none" => server[u] # Absent
    BY <1>3 DEF IInv, AskedIsKnown
<1>5. Pump(runs, tasks, requests)
    BY <1>1
<1>6. /\ runtime' \in [Sources -> Run] /\ queue' \in [Sources -> Task]
      /\ requests' \in [Slots -> Request]
      /\ SlotsServe' /\ AskedIsKnown' /\ DetailsAscend'
      /\ \A u \in Sources : \A wanted, timers :
            Waits(runs[u], tasks[u], requests, wanted, timers) =>
               Waits(runtime'[u], queue'[u], requests', wanted, timers)
    BY <1>2, <1>3, <1>4, <1>5, HandlerKeeps
<1>7. QED
    BY <1>3, <1>6

-----------------------------------------------------------------------------
(***************************************************************************)
(* The steps of the backend and of the network.                            *)
(***************************************************************************)
\* A source that was written once is stored or deleted.
LEMMA KnownIs ==
    ASSUME NEW s, NEW version, Known(server, s, version)
    PROVE  server[s] # Absent
BY AbsentAssumption, BoundAssumption DEF Known, Stored, Versions

\* Versions are numbers and nothing else.
LEMMA VersionsAre ==
    /\ \A version \in Versions : version \in Nat /\ version <= version
    /\ Absent \notin Versions /\ Deleted \notin Versions
    /\ Absent # Deleted /\ 0 \in Versions /\ Unanswered \notin Versions
    /\ Failed \notin Versions /\ Failed # Unanswered
BY AbsentAssumption, BoundAssumption DEF Versions, Unanswered, Failed

\* What is stored moves on; the coordinator notices nothing.
LEMMA ServerMoves ==
    ASSUME IInv, UNCHANGED <<summary, data, runtime, queue, requests, heard, failures>>,
           server' \in [Sources -> Versions \cup {Absent, Deleted}],
           \A s \in Sources :
              /\ server[s] # Absent => server'[s] # Absent
              /\ server[s] = Deleted => server'[s] = Deleted
              /\ server[s] \in Versions =>
                    server'[s] = Deleted \/ (server'[s] \in Versions /\ server[s] <= server'[s])
              /\ server'[s] \in Versions => server[s] # Deleted,
           polls' \subseteq [list : [Sources -> Versions \cup {Absent}], force : BOOLEAN],
           \A poll \in polls', s \in Sources :
              poll.list[s] # Absent => poll \in polls \/ server'[s] = poll.list[s],
           events' \in Seq([source : Sources, version : Versions]),
           \A i \in 1..Len(events') :
              \/ i \in 1..Len(events) /\ events'[i] = events[i]
              \/ server'[events'[i].source] = events'[i].version
    PROVE  IInv'
<1>1. ASSUME NEW s \in Sources, NEW version \in Versions, Known(server, s, version)
      PROVE  Known(server', s, version)
    <2>1. server[s] \in Versions \/ server[s] = Deleted
        BY <1>1 DEF Known, Stored
    <2>2. QED
        BY <1>1, <2>1, VersionsAre DEF Known, Stored
<1>2. TypeOK'
    BY DEF IInv, TypeOK
<1>3. SlotsServe' /\ DetailsAscend'
    BY DEF IInv, SlotsServe, DetailsAscend
<1>4. ShownIsKnown'
    <2>1. ASSUME NEW s \in Sources
          PROVE  /\ summary'[s] # Absent => /\ Known(server', s, summary[s].status)
                                            /\ Known(server', s, summary[s].updated)
                 /\ data'[s] # Absent => Known(server', s, data[s])
                 /\ heard'[s] # Absent => Known(server', s, heard[s]) /\ summary'[s] # Absent
        <3>1. summary[s] # Absent =>
                  summary[s].status \in Versions /\ summary[s].updated \in Versions
            BY DEF IInv, TypeOK
        <3>2. /\ data[s] # Absent => data[s] \in Versions
              /\ heard[s] # Absent => heard[s] \in Versions
            BY DEF IInv, TypeOK
        <3>3. /\ summary[s] # Absent =>
                    Known(server, s, summary[s].status) /\ Known(server, s, summary[s].updated)
              /\ data[s] # Absent => Known(server, s, data[s])
              /\ heard[s] # Absent => Known(server, s, heard[s]) /\ summary[s] # Absent
            BY DEF IInv, ShownIsKnown
        <3>4. QED
            BY <1>1, <3>1, <3>2, <3>3 DEF Known, Stored
    <2>2. ASSUME NEW poll \in polls', NEW s \in Sources, poll.list[s] # Absent
          PROVE  Known(server', s, poll.list[s])
        <3>1. poll.list[s] \in Versions
            BY <2>2
        <3>2. CASE poll \in polls
            BY <1>1, <2>2, <3>1, <3>2 DEF IInv, ShownIsKnown, Known, Stored
        <3>3. CASE server'[s] = poll.list[s]
            BY <3>1, <3>3, VersionsAre DEF Known, Stored
        <3>4. QED
            BY <2>2, <3>2, <3>3
    <2>3. ASSUME NEW i \in 1..Len(events')
          PROVE  Known(server', events'[i].source, events'[i].version)
        <3>1. PICK event \in [source : Sources, version : Versions] : event = events'[i]
            BY ElementOfSeq
        <3>2. CASE i \in 1..Len(events) /\ events'[i] = events[i]
            <4>1. Known(server, event.source, event.version)
                BY <3>1, <3>2 DEF IInv, ShownIsKnown
            <4>2. QED
                BY <1>1, <3>1, <4>1
        <3>3. CASE server'[event.source] = event.version
            <4>1. event.version \in Versions /\ event.version <= event.version
                BY <3>1, VersionsAre
            <4>2. QED
                BY <3>1, <3>3, <4>1 DEF Known
        <3>4. QED
            BY <2>3, <3>1, <3>2, <3>3
    <2>4. QED
        BY <2>1, <2>2, <2>3 DEF ShownIsKnown
<1>5. AskedIsKnown'
    <2>1. ASSUME NEW s \in Sources, queue[s] # "out" \/ runtime[s].trailing # "none"
          PROVE  server'[s] # Absent
        BY <2>1 DEF IInv, AskedIsKnown
    <2>2. ASSUME NEW k \in Slots, requests[k] # Free
          PROVE  /\ server'[requests[k].source] # Absent
                 /\ requests[k].detail \in Versions =>
                       Known(server', requests[k].source, requests[k].detail)
                 /\ requests[k].detail = Failed =>
                       failures > 0 \/ server'[requests[k].source] = Deleted
        <3>1. requests[k].source \in Sources
            BY <2>2 DEF IInv, TypeOK
        <3>2. QED
            BY <1>1, <2>2, <3>1 DEF IInv, AskedIsKnown, Known, Stored
    <2>3. QED
        BY <2>1, <2>2 DEF AskedIsKnown
<1>6. NoneForgotten'
    <2>1. ASSUME NEW s \in Sources, server'[s] \in Versions, summary[s] # Absent
          PROVE  Stored(s)
        <3>1. Known(server, s, summary[s].status)
            BY <2>1 DEF IInv, ShownIsKnown
        <3>2. QED
            BY <2>1, <3>1 DEF Known, Stored
    <2>2. QED
        BY <2>1 DEF IInv, NoneForgotten, StillComes, Lacks, Stored
<1>7. QED
    BY <1>2, <1>3, <1>4, <1>5, <1>6 DEF IInv

\* Every step of the backend, with or without its event, and its answer to a
\* poll: the list is what is stored.
LEMMA BackendInv ==
    ASSUME IInv,
           \/ Poll
           \/ \E s \in Sources : \/ \E told \in BOOLEAN : Write(s, told)
                                 \/ AddSource(s) \/ DeleteSource(s)
    PROVE  IInv'
<1>1. /\ server \in [Sources -> Versions \cup {Absent, Deleted}]
      /\ polls \subseteq [list : [Sources -> Versions \cup {Absent}], force : BOOLEAN]
      /\ events \in Seq([source : Sources, version : Versions])
    BY DEF IInv, TypeOK
<1>2. CASE Poll
    <2>1. PICK poll : poll = [list |-> List, force |-> FALSE]
        OBVIOUS
    <2>2. /\ poll \in [list : [Sources -> Versions \cup {Absent}], force : BOOLEAN]
          /\ poll.list = List
        BY <2>1 DEF List, Stored
    <2>3. /\ polls' = polls \cup {poll}
          /\ UNCHANGED <<server, events, summary, data, runtime, queue, requests, heard, failures>>
        BY <1>2, <2>1 DEF Poll, bounds
    <2>4. \A s \in Sources : List[s] # Absent => server[s] = List[s]
        BY DEF List
    <2>5. \A s \in Sources : server[s] \in Versions => server[s] <= server[s] /\ server[s] # Deleted
        BY VersionsAre
    <2>6. QED
        BY <1>1, <2>2, <2>3, <2>4, <2>5, ServerMoves
<1>3. ASSUME NEW s \in Sources, NEW told \in BOOLEAN, Write(s, told) PROVE IInv'
    <2>1. /\ server[s] \in Versions /\ server[s] < MaxVersion
          /\ server' = [server EXCEPT ![s] = server[s] + 1]
          /\ UNCHANGED <<polls, summary, data, runtime, queue, requests, heard, failures>>
        BY <1>3 DEF Write, Stored, bounds
    <2>2. server[s] + 1 \in Versions /\ server[s] <= server[s] + 1
        BY <2>1, BoundAssumption DEF Versions
    <2>3. /\ server' \in [Sources -> Versions \cup {Absent, Deleted}]
          /\ server'[s] = server[s] + 1 /\ \A u \in Sources \ {s} : server'[u] = server[u]
        BY <1>1, <2>1, <2>2
    <2>4. ASSUME NEW u \in Sources
          PROVE  /\ server[u] # Absent => server'[u] # Absent
                 /\ server[u] = Deleted => server'[u] = Deleted
                 /\ server[u] \in Versions =>
                       server'[u] = Deleted \/ (server'[u] \in Versions /\ server[u] <= server'[u])
                 /\ server'[u] \in Versions => server[u] # Deleted
        <3>1. CASE u = s
            BY <2>1, <2>2, <2>3, <3>1, VersionsAre
        <3>2. CASE u # s
            BY <2>3, <3>2, VersionsAre
        <3>3. QED
            BY <3>1, <3>2
    <2>5. PICK event : event = [source |-> s, version |-> server[s] + 1]
        OBVIOUS
    <2>6. event \in [source : Sources, version : Versions] /\ event.source = s
          /\ event.version = server[s] + 1
        BY <2>2, <2>5
    <2>7. events' = events \/ events' = Append(events, event)
        BY <1>3, <2>5 DEF Write
    <2>8. /\ events' \in Seq([source : Sources, version : Versions])
          /\ \A i \in 1..Len(events') : \/ i \in 1..Len(events) /\ events'[i] = events[i]
                                       \/ events'[i] = event
        <3>1. CASE events' = events
            BY <1>1, <3>1
        <3>2. CASE events' = Append(events, event)
            BY <1>1, <2>6, <3>2, AppendProperties
        <3>3. QED
            BY <2>7, <3>1, <3>2
    <2>9. \A i \in 1..Len(events') : \/ i \in 1..Len(events) /\ events'[i] = events[i]
                                    \/ server'[events'[i].source] = events'[i].version
        BY <2>3, <2>6, <2>8
    <2>10. QED
        BY <1>1, <2>1, <2>3, <2>4, <2>8, <2>9, ServerMoves
<1>4. ASSUME NEW s \in Sources, AddSource(s) \/ DeleteSource(s) PROVE IInv'
    <2>1. PICK new : /\ server' = [server EXCEPT ![s] = new]
                     /\ \/ server[s] = Absent /\ new = 0
                        \/ server[s] \in Versions /\ new = Deleted
        BY <1>4 DEF AddSource, DeleteSource, Stored
    <2>2. UNCHANGED <<polls, events, summary, data, runtime, queue, requests, heard, failures>>
        BY <1>4 DEF AddSource, DeleteSource
    <2>3. /\ server' \in [Sources -> Versions \cup {Absent, Deleted}]
          /\ server'[s] = new /\ \A u \in Sources \ {s} : server'[u] = server[u]
        BY <1>1, <2>1, VersionsAre
    <2>4. ASSUME NEW u \in Sources
          PROVE  /\ server[u] # Absent => server'[u] # Absent
                 /\ server[u] = Deleted => server'[u] = Deleted
                 /\ server[u] \in Versions =>
                       server'[u] = Deleted \/ (server'[u] \in Versions /\ server[u] <= server'[u])
                 /\ server'[u] \in Versions => server[u] # Deleted
        <3>1. CASE u = s
            BY <2>1, <2>3, <3>1, VersionsAre
        <3>2. CASE u # s
            BY <2>3, <3>2, VersionsAre
        <3>3. QED
            BY <3>1, <3>2
    <2>5. QED
        BY <1>1, <2>2, <2>3, <2>4, ServerMoves
<1>5. QED
    BY <1>2, <1>3, <1>4

\* What is sent to a request is what is stored, or that it failed.
LEMMA AnswerInv ==
    ASSUME IInv, NEW k \in Slots, Answer(k) \/ FailRequest(k)
    PROVE  IInv'
<1>1. PICK s \in Sources, detail \in Versions \cup {Failed} :
         /\ requests[k] = [source |-> s, detail |-> Unanswered]
         /\ requests' = [requests EXCEPT ![k] = [source |-> s, detail |-> detail]]
         /\ \/ detail \in Versions /\ detail = server[s] /\ failures' = failures
            \/ detail = Failed /\ server[s] \notin Versions /\ failures' = failures
            \/ detail = Failed /\ failures' = failures + 1
    <2>1. PICK s \in Sources : requests[k] = [source |-> s, detail |-> Unanswered]
        <3>1. requests[k] \in [source : Sources, detail : Versions \cup {Unanswered, Failed}]
            BY DEF IInv, TypeOK, Answer, FailRequest
        <3>2. requests[k].detail = Unanswered
            BY DEF Answer, FailRequest
        <3>3. QED
            BY <3>1, <3>2
    <2>2. PICK detail : /\ requests' = [requests EXCEPT ![k].detail = detail]
                        /\ \/ detail = server[s] /\ server[s] \in Versions /\ failures' = failures
                           \/ detail = Failed /\ server[s] \notin Versions /\ failures' = failures
                           \/ detail = Failed /\ failures' = failures + 1
        <3>1. requests[k].source = s
            BY <2>1
        <3>2. CASE Answer(k)
            BY <3>1, <3>2 DEF Answer, Stored, bounds
        <3>3. CASE FailRequest(k)
            BY <3>3 DEF FailRequest
        <3>4. QED
            BY <3>2, <3>3
    <2>3. [requests[k] EXCEPT !.detail = detail] = [source |-> s, detail |-> detail]
        BY <2>1
    <2>4. requests' = [requests EXCEPT ![k] = [source |-> s, detail |-> detail]]
        BY <2>2, <2>3
    <2>5. QED
        BY <2>1, <2>2, <2>4
<1>2. UNCHANGED <<server, polls, events, summary, data, runtime, queue, heard>>
    BY DEF Answer, FailRequest, backend
<1>3. PICK new : new = [source |-> s, detail |-> detail]
    OBVIOUS
<1>4. /\ new \in [source : Sources, detail : Versions \cup {Unanswered, Failed}]
      /\ new.source = s /\ new.detail = detail /\ new # Free
    BY <1>3, AbsentAssumption DEF Free
<1>5. requests \in [Slots -> Request]
    BY DEF IInv, TypeOK, Request
<1>6. /\ requests' \in [Slots -> Request] /\ requests'[k] = new
      /\ \A l \in Slots \ {k} : requests'[l] = requests[l]
    BY <1>1, <1>3, <1>4, <1>5 DEF Request
<1>7. /\ requests[k].source = s /\ requests[k].detail = Unanswered /\ requests[k] # Free
      /\ server[s] # Absent
    BY <1>1, AbsentAssumption DEF Free, IInv, AskedIsKnown
<1>8. \A u \in Sources : runtime[u].request = k => u = s
    <2>1. k # NoRequest
        BY SlotAssumption
    <2>2. QED
        BY <1>7, <2>1 DEF IInv, SlotsServe
<1>9. server[s] \in Versions \cup {Deleted}
    BY <1>7 DEF IInv, TypeOK
<1>10. TypeOK' /\ failures' \in Nat
    <2>1. TypeOK'
        BY <1>2, <1>6 DEF IInv, TypeOK, Request
    <2>2. failures' \in Nat
        BY <1>1 DEF IInv
    <2>3. QED
        BY <2>1, <2>2
<1>11. SlotsServe'
    <2>1. ASSUME NEW u \in Sources, runtime[u].request # NoRequest
          PROVE  requests'[runtime[u].request].source = u /\ queue[u] = "out"
        <3>1. runtime[u].request \in Slots
            BY <2>1 DEF IInv, TypeOK
        <3>2. QED
            BY <1>4, <1>6, <1>8, <2>1, <3>1 DEF IInv, SlotsServe
    <2>2. ASSUME NEW u \in Sources, queue[u] # "out", NEW l \in Slots
          PROVE  requests'[l] # Free
        BY <1>4, <1>6, <2>2 DEF IInv, SlotsServe
    <2>3. QED
        BY <1>2, <2>1, <2>2 DEF SlotsServe
<1>12. ShownIsKnown'
    BY <1>2 DEF IInv, ShownIsKnown
<1>13. AskedIsKnown'
    <2>1. ASSUME NEW l \in Slots, requests'[l] # Free
          PROVE  /\ server[requests'[l].source] # Absent
                 /\ requests'[l].detail \in Versions =>
                       Known(server, requests'[l].source, requests'[l].detail)
                 /\ requests'[l].detail = Failed =>
                       failures' > 0 \/ server[requests'[l].source] = Deleted
        <3>1. CASE l = k
            <4>1. requests'[l].source = s /\ requests'[l].detail = detail
                BY <1>4, <1>6, <3>1
            <4>2. detail \in Versions => Known(server, s, detail)
                BY <1>1, VersionsAre DEF Known
            <4>3. detail = Failed => failures' > 0 \/ server[s] = Deleted
                <5>1. failures' = failures + 1 => failures' > 0
                    BY DEF IInv
                <5>2. QED
                    BY <1>1, <1>9, <5>1, VersionsAre
            <4>4. QED
                BY <1>7, <4>1, <4>2, <4>3
        <3>2. CASE l # k
            <4>1. requests'[l] = requests[l] /\ (failures > 0 => failures' > 0)
                BY <1>1, <1>6, <3>2 DEF IInv
            <4>2. QED
                BY <2>1, <4>1 DEF IInv, AskedIsKnown
        <3>3. QED
            BY <3>1, <3>2
    <2>2. QED
        BY <1>2, <2>1 DEF IInv, AskedIsKnown
<1>14. ASSUME NEW wanted \in Versions, Known(server, s, wanted), detail \in Versions
       PROVE  wanted <= detail
    BY <1>1, <1>14, VersionsAre DEF Known
<1>15. DetailsAscend'
    <2>1. ASSUME NEW u \in Sources, runtime[u].request # NoRequest,
                 requests'[runtime[u].request].detail \in Versions, data[u] # Absent
          PROVE  data[u] <= requests'[runtime[u].request].detail
        <3>1. runtime[u].request \in Slots /\ data[u] \in Versions
            BY <2>1 DEF IInv, TypeOK
        <3>2. CASE runtime[u].request = k
            <4>1. u = s /\ requests'[runtime[u].request].detail = detail
                BY <1>4, <1>6, <1>8, <3>2
            <4>2. Known(server, s, data[s])
                BY <2>1, <4>1 DEF IInv, ShownIsKnown
            <4>3. QED
                BY <1>14, <2>1, <3>1, <4>1, <4>2
        <3>3. CASE runtime[u].request # k
            BY <1>6, <2>1, <3>1, <3>3 DEF IInv, DetailsAscend
        <3>4. QED
            BY <3>2, <3>3
    <2>2. QED
        BY <1>2, <2>1 DEF DetailsAscend
<1>16. NoneForgotten'
    <2>1. ASSUME failures' = 0, NEW u \in Sources, Stored(u), NEW wanted \in Versions,
                 Known(server, u, wanted), NEW timers, StillComes(u, wanted, timers)
          PROVE  StillComes(u, wanted, timers)'
        <3>1. CASE runtime[u].request = k
            <4>1. u = s /\ requests'[k].detail = detail
                BY <1>4, <1>6, <1>8, <3>1
            <4>2. failures' # failures + 1
                BY <2>1 DEF IInv
            <4>3. detail \in Versions
                BY <1>1, <2>1, <4>1, <4>2 DEF Stored
            <4>4. detail >= wanted
                BY <1>14, <2>1, <4>1, <4>3, VersionsAre
            <4>5. QED
                BY <1>2, <3>1, <4>1, <4>4, SlotAssumption DEF StillComes, Waits, Lacks
        <3>2. CASE runtime[u].request # k
            <4>1. runtime[u].request # NoRequest =>
                     requests'[runtime[u].request] = requests[runtime[u].request]
                BY <1>6, <3>2 DEF IInv, TypeOK
            <4>2. QED
                BY <1>2, <2>1, <4>1 DEF StillComes, Waits, Lacks
        <3>3. QED
            BY <3>1, <3>2
    <2>2. failures' = 0 => failures = 0
        BY <1>1 DEF IInv
    <2>3. ASSUME failures' = 0, NEW u \in Sources, Stored(u), summary[u] # Absent
          PROVE  /\ StillComes(u, summary[u].updated, AnyTimer)'
                 /\ heard[u] # Absent => StillComes(u, heard[u], Forcing)'
        <3>1. summary[u].updated \in Versions /\ (heard[u] # Absent => heard[u] \in Versions)
            BY <2>3 DEF IInv, TypeOK
        <3>2. /\ Known(server, u, summary[u].updated)
              /\ heard[u] # Absent => Known(server, u, heard[u])
            BY <2>3 DEF IInv, ShownIsKnown
        <3>3. /\ StillComes(u, summary[u].updated, AnyTimer)
              /\ heard[u] # Absent => StillComes(u, heard[u], Forcing)
            BY <2>2, <2>3 DEF IInv, NoneForgotten
        <3>4. StillComes(u, summary[u].updated, AnyTimer)'
            BY <1>2, <2>1, <2>3, <3>1, <3>2, <3>3 DEF StillComes, Lacks
        <3>5. heard[u] # Absent => StillComes(u, heard[u], Forcing)'
            BY <1>2, <2>1, <2>3, <3>1, <3>2, <3>3 DEF StillComes, Lacks
        <3>6. QED
            BY <3>4, <3>5
    <2>4. QED
        BY <1>2, <2>3 DEF NoneForgotten, Stored
<1>17. QED
    BY <1>10, <1>11, <1>12, <1>13, <1>15, <1>16 DEF IInv

-----------------------------------------------------------------------------
(***************************************************************************)
(* The handlers that submit one source.                                    *)
(***************************************************************************)
\* A submit by force: whatever the source lacks is waited for.
LEMMA ForcedSubmit ==
    ASSUME IInv, NEW s \in Sources, NEW run \in Run, run.request = runtime[s].request,
           NEW boost \in BOOLEAN, NEW bypass \in BOOLEAN,
           NEW result, result = Submitted(run, queue[s], TRUE, boost, bypass),
           Pump([runtime EXCEPT ![s] = result.run], [queue EXCEPT ![s] = result.task], requests),
           server[s] # Absent, UNCHANGED <<server, failures, data>>,
           \A u \in Sources \ {s} : summary'[u] = summary[u] /\ heard'[u] = heard[u]
    PROVE  /\ runtime' \in [Sources -> Run] /\ queue' \in [Sources -> Task]
           /\ requests' \in [Slots -> Request]
           /\ SlotsServe' /\ AskedIsKnown' /\ DetailsAscend' /\ NoneForgotten'
<1>1. PICK force \in BOOLEAN, task \in Task :
         /\ force /\ task = queue[s]
         /\ result = Submitted(run, task, force, boost, bypass)
    <2>1. queue[s] \in Task
        BY DEF IInv, TypeOK, Task
    <2>2. QED
        BY <2>1
<1>2. /\ Kept(run, task, force, result)
      /\ result.run \in Run /\ result.task \in Task
      /\ result.run.request = run.request
      /\ run.request # NoRequest => result.task = queue[s]
    <2>1. Kept(run, task, force, result)
        BY <1>1, SubmittedIs
    <2>2. QED
        BY <1>1, <2>1 DEF Kept
<1>3. \A wanted : /\ Waits(result.run, result.task, requests, wanted, AnyTimer)
                  /\ Waits(result.run, result.task, requests, wanted, Forcing)
    BY <1>1, <1>2, SubmittedWaits
<1>4. /\ runtime' \in [Sources -> Run] /\ queue' \in [Sources -> Task]
      /\ requests' \in [Slots -> Request]
      /\ SlotsServe' /\ AskedIsKnown' /\ DetailsAscend'
      /\ \A wanted, timers :
            Waits(result.run, result.task, requests, wanted, timers) =>
               Waits(runtime'[s], queue'[s], requests', wanted, timers)
      /\ \A u \in Sources \ {s} : \A wanted, timers :
            Waits(runtime[u], queue[u], requests, wanted, timers) =>
               Waits(runtime'[u], queue'[u], requests', wanted, timers)
    BY <1>2, SubmitKeeps
<1>5. NoneForgotten'
    <2>1. ASSUME failures = 0, NEW u \in Sources, Stored(u), summary'[u] # Absent
          PROVE  /\ StillComes(u, summary[u].updated, AnyTimer)'
                 /\ heard'[u] # Absent => StillComes(u, heard[u], Forcing)'
        <3>1. CASE u = s
            BY <1>3, <1>4, <3>1 DEF StillComes
        <3>2. CASE u # s
            BY <1>4, <2>1, <3>2 DEF IInv, NoneForgotten, StillComes, Lacks
        <3>3. QED
            BY <3>1, <3>2
    <2>2. QED
        BY <2>1 DEF NoneForgotten, Stored
<1>6. QED
    BY <1>4, <1>5

\* The status of the event is shown, and its version asked for by force.
LEMMA EventInv == IInv /\ EventArrives => IInv'
<1> SUFFICES ASSUME IInv, EventArrives PROVE IInv'
    OBVIOUS
<1>1. events \in Seq([source : Sources, version : Versions]) /\ events # <<>>
    BY DEF EventArrives, IInv, TypeOK
<1>2. PICK event \in [source : Sources, version : Versions] :
         event = Head(events) /\ event = events[1] /\ 1 \in 1..Len(events)
    <2>1. Head(events) \in [source : Sources, version : Versions]
        BY <1>1, HeadTailProperties
    <2>2. 1 \in 1..Len(events)
        <3>1. Len(events) \in Nat \ {0}
            BY <1>1, EmptySeq
        <3>2. QED
            BY <3>1
    <2>3. Head(events) = events[1]
        OBVIOUS
    <2>4. QED
        BY <2>1, <2>2, <2>3
<1>3. PICK s \in Sources, version \in Versions : s = event.source /\ version = event.version
    BY <1>2
<1>4. Known(server, s, version) /\ server[s] # Absent
    BY <1>2, <1>3, KnownIs DEF IInv, ShownIsKnown
<1>5. /\ events' = Tail(events)
      /\ summary' = IF summary[s] = Absent
                    THEN summary ELSE [summary EXCEPT ![s].status = version]
      /\ heard' = IF summary[s] = Absent THEN heard ELSE [heard EXCEPT ![s] = version]
      /\ Submit(s, TRUE, FALSE, FALSE)
      /\ UNCHANGED <<server, polls, data, failures>>
    BY <1>2, <1>3 DEF EventArrives, bounds
<1>6. PICK result :
         /\ result = Submitted(runtime[s], queue[s], TRUE, FALSE, FALSE)
         /\ Pump([runtime EXCEPT ![s] = result.run], [queue EXCEPT ![s] = result.task], requests)
    BY <1>5 DEF Submit
<1>7. runtime[s] \in Run /\ server \in [Sources -> Versions \cup {Absent, Deleted}]
      /\ heard \in [Sources -> Versions \cup {Absent}]
      /\ summary \in [Sources -> [status : Versions, updated : Versions] \cup {Absent}]
    BY DEF IInv, TypeOK, Run
<1>8. /\ \A u \in Sources \ {s} : summary'[u] = summary[u] /\ heard'[u] = heard[u]
      /\ heard' \in [Sources -> Versions \cup {Absent}]
      /\ summary[s] = Absent => summary' = summary /\ heard' = heard
      /\ summary[s] # Absent => heard'[s] = version
    BY <1>5, <1>7
<1>9. /\ summary' \in [Sources -> [status : Versions, updated : Versions] \cup {Absent}]
      /\ summary[s] # Absent => /\ summary'[s].status = version /\ summary'[s] # Absent
                                /\ summary'[s].updated = summary[s].updated
    <2>1. CASE summary[s] = Absent
        BY <1>7, <1>8, <2>1
    <2>2. CASE summary[s] # Absent
        <3>1. summary[s] \in [status : Versions, updated : Versions]
            BY <1>7, <2>2
        <3>2. PICK new : new = [summary[s] EXCEPT !.status = version]
            OBVIOUS
        <3>3. /\ new \in [status : Versions, updated : Versions]
              /\ new.status = version /\ new.updated = summary[s].updated
            BY <3>1, <3>2
        <3>4. new # Absent
            <4>1. new \in [status : Int, updated : Int]
                BY <3>3, VersionsAre
            <4>2. QED
                BY <4>1, AbsentAssumption
        <3>5. summary' = [summary EXCEPT ![s] = new]
            BY <1>5, <2>2, <3>2
        <3>6. QED
            BY <1>7, <3>3, <3>4, <3>5
    <2>3. QED
        BY <2>1, <2>2
<1>10. /\ runtime' \in [Sources -> Run] /\ queue' \in [Sources -> Task]
       /\ requests' \in [Slots -> Request]
       /\ SlotsServe' /\ AskedIsKnown' /\ DetailsAscend' /\ NoneForgotten'
    BY <1>4, <1>5, <1>6, <1>7, <1>8, ForcedSubmit
<1>11. /\ events' \in Seq([source : Sources, version : Versions])
       /\ \A i \in 1..Len(events') : i + 1 \in 1..Len(events) /\ events'[i] = events[i + 1]
    BY <1>1, <1>5, HeadTailProperties
<1>12. TypeOK' /\ failures' \in Nat
    BY <1>5, <1>8, <1>9, <1>10, <1>11 DEF IInv, TypeOK, Run, Task, Request
<1>13. ShownIsKnown'
    <2>1. ASSUME NEW u \in Sources
          PROVE  /\ summary'[u] # Absent => /\ Known(server, u, summary'[u].status)
                                            /\ Known(server, u, summary'[u].updated)
                 /\ data[u] # Absent => Known(server, u, data[u])
                 /\ heard'[u] # Absent => Known(server, u, heard'[u]) /\ summary'[u] # Absent
        <3>1. CASE u = s /\ summary[s] # Absent
            BY <1>4, <1>8, <1>9, <3>1 DEF IInv, ShownIsKnown
        <3>2. CASE u # s \/ summary[s] = Absent
            BY <1>8, <3>2 DEF IInv, ShownIsKnown
        <3>3. QED
            BY <3>1, <3>2
    <2>2. \A i \in 1..Len(events') : Known(server, events'[i].source, events'[i].version)
        BY <1>11 DEF IInv, ShownIsKnown
    <2>3. QED
        BY <1>5, <2>1, <2>2 DEF IInv, ShownIsKnown
<1>14. QED
    BY <1>10, <1>12, <1>13 DEF IInv

\* A handler that shows nothing new
LEMMA RestKept ==
    ASSUME IInv, UNCHANGED <<server, polls, events, summary, data, failures, heard>>,
           runtime' \in [Sources -> Run], queue' \in [Sources -> Task],
           requests' \in [Slots -> Request],
           SlotsServe', AskedIsKnown', DetailsAscend', NoneForgotten'
    PROVE  IInv'
<1>1. TypeOK' /\ failures' \in Nat
    BY DEF IInv, TypeOK, Run, Task, Request
<1>2. ShownIsKnown'
    BY DEF IInv, ShownIsKnown
<1>3. QED
    BY <1>1, <1>2 DEF IInv

\* A manual refresh is of a listed source, so of one that was stored.
LEMMA ManualInv ==
    ASSUME IInv, NEW s \in Sources, ManualRefresh(s)
    PROVE  IInv'
<1>1. /\ summary[s] # Absent /\ Submit(s, TRUE, TRUE, FALSE)
      /\ UNCHANGED <<server, polls, events, summary, data, failures, heard>>
    BY DEF ManualRefresh, backend
<1>2. server[s] # Absent
    BY <1>1, KnownIs DEF IInv, ShownIsKnown
<1>3. PICK result :
         /\ result = Submitted(runtime[s], queue[s], TRUE, TRUE, FALSE)
         /\ Pump([runtime EXCEPT ![s] = result.run], [queue EXCEPT ![s] = result.task], requests)
    BY <1>1 DEF Submit
<1>4. runtime[s] \in Run
    BY DEF IInv, TypeOK, Run
<1>5. /\ runtime' \in [Sources -> Run] /\ queue' \in [Sources -> Task]
      /\ requests' \in [Slots -> Request]
      /\ SlotsServe' /\ AskedIsKnown' /\ DetailsAscend' /\ NoneForgotten'
    BY <1>1, <1>2, <1>3, <1>4, ForcedSubmit
<1>6. QED
    BY <1>1, <1>5, RestKept

\* The end of the throttle window touches nothing that is waited for.
LEMMA ThrottleInv ==
    ASSUME IInv, NEW s \in Sources, ThrottleEnds(s)
    PROVE  IInv'
<1>1. /\ runtime' = [runtime EXCEPT ![s] = [runtime[s] EXCEPT !.recent = FALSE]]
      /\ UNCHANGED <<server, polls, events, summary, data, queue, requests, failures, heard>>
    BY DEF ThrottleEnds, backend, bounds
<1>2. runtime \in [Sources -> Run]
    BY DEF IInv, TypeOK, Run
<1>3. PICK new : new = [runtime[s] EXCEPT !.recent = FALSE]
    OBVIOUS
<1>4. /\ new \in Run /\ new.request = runtime[s].request /\ new.refetch = runtime[s].refetch
      /\ new.trailing = runtime[s].trailing
    BY <1>2, <1>3 DEF Run
<1>5. /\ runtime' \in [Sources -> Run] /\ runtime'[s] = new
      /\ \A u \in Sources \ {s} : runtime'[u] = runtime[u]
    BY <1>1, <1>2, <1>3, <1>4
<1>6. \A u \in Sources : /\ runtime'[u].request = runtime[u].request
                         /\ runtime'[u].refetch = runtime[u].refetch
                         /\ runtime'[u].trailing = runtime[u].trailing
    BY <1>4, <1>5
<1>7. SlotsServe' /\ AskedIsKnown' /\ DetailsAscend'
    BY <1>1, <1>6 DEF IInv, SlotsServe, AskedIsKnown, DetailsAscend
<1>8. NoneForgotten'
    BY <1>1, <1>6 DEF IInv, NoneForgotten, StillComes, Waits, Lacks, Stored
<1>9. QED
    BY <1>1, <1>5, <1>7, <1>8, RestKept DEF IInv, TypeOK, Task, Request

\* A timer that forces submits again; one that checks submits if the list is
\* newer than the detail, and else only what is not waited for is dropped.
LEMMA TrailingInv ==
    ASSUME IInv, NEW s \in Sources, TrailingSubmit(s)
    PROVE  IInv'
<1>1. PICK run : run = [runtime[s] EXCEPT !.trailing = "none"]
    OBVIOUS
<1>2. runtime[s] \in Run /\ queue[s] \in Task /\ requests \in [Slots -> Request]
    BY DEF IInv, TypeOK, Run, Task, Request
<1>3. /\ run \in Run /\ run.request = runtime[s].request /\ run.refetch = runtime[s].refetch
      /\ run.trailing = "none"
    BY <1>1, <1>2 DEF Run
<1>4. /\ runtime[s].trailing # "none"
      /\ UNCHANGED <<server, polls, events, summary, data, failures, heard>>
    BY DEF TrailingSubmit, backend, bounds
<1>5. server[s] # Absent
    BY <1>4 DEF IInv, AskedIsKnown
<1>6. PICK result :
         /\ result = IF runtime[s].trailing = "force" \/ NeedsFetch(summary, data, s)
                     THEN Submitted(run, queue[s], runtime[s].trailing = "force", FALSE, TRUE)
                     ELSE [run |-> run, task |-> queue[s]]
         /\ Pump([runtime EXCEPT ![s] = result.run], [queue EXCEPT ![s] = result.task], requests)
    BY <1>1 DEF TrailingSubmit
<1>7. CASE runtime[s].trailing = "force"
    <2>1. result = Submitted(run, queue[s], TRUE, FALSE, TRUE)
        BY <1>6, <1>7
    <2>2. /\ runtime' \in [Sources -> Run] /\ queue' \in [Sources -> Task]
          /\ requests' \in [Slots -> Request]
          /\ SlotsServe' /\ AskedIsKnown' /\ DetailsAscend' /\ NoneForgotten'
        BY <1>3, <1>4, <1>5, <1>6, <2>1, ForcedSubmit
    <2>3. QED
        BY <1>4, <2>2, RestKept
<1>8. CASE runtime[s].trailing # "force"
    <2>1. /\ result.run \in Run /\ result.task \in Task
          /\ result.run.request = runtime[s].request
          /\ result.run.request # NoRequest => result.task = queue[s]
          /\ \A wanted :
                Waits(runtime[s], queue[s], requests, wanted, Forcing)
                   => Waits(result.run, result.task, requests, wanted, Forcing)
          /\ \A wanted :
                NeedsFetch(summary, data, s)
                   => Waits(result.run, result.task, requests, wanted, AnyTimer)
        <3>1. \A wanted : Waits(runtime[s], queue[s], requests, wanted, Forcing)
                             => Waits(run, queue[s], requests, wanted, Forcing)
            BY <1>3, <1>8 DEF Waits, Forcing
        <3>2. CASE NeedsFetch(summary, data, s)
            <4>1. PICK task \in Task, force \in BOOLEAN, bypass \in BOOLEAN :
                     /\ task = queue[s] /\ ~force
                     /\ result = Submitted(run, task, force, FALSE, bypass)
                BY <1>2, <1>6, <1>8, <3>2
            <4>2. Kept(run, task, force, result)
                BY <1>3, <4>1, SubmittedIs
            <4>3. /\ result.run \in Run /\ result.task \in Task
                  /\ result.run.request = run.request
                  /\ run.request # NoRequest => result.task = task
                BY <4>2 DEF Kept
            <4>4. \A wanted : /\ Waits(result.run, result.task, requests, wanted, AnyTimer)
                              /\ Waits(run, task, requests, wanted, Forcing) =>
                                    Waits(result.run, result.task, requests, wanted, Forcing)
                BY <4>2, SubmittedWaits
            <4>5. QED
                BY <1>3, <3>1, <4>1, <4>3, <4>4
        <3>3. CASE ~NeedsFetch(summary, data, s)
            <4>1. result.run = run /\ result.task = queue[s]
                BY <1>6, <1>8, <3>3
            <4>2. QED
                BY <1>2, <1>3, <3>1, <3>3, <4>1
        <3>4. QED
            BY <3>2, <3>3
    <2>2. /\ runtime' \in [Sources -> Run] /\ queue' \in [Sources -> Task]
          /\ requests' \in [Slots -> Request]
          /\ SlotsServe' /\ AskedIsKnown' /\ DetailsAscend'
          /\ \A wanted, timers :
                Waits(result.run, result.task, requests, wanted, timers) =>
                   Waits(runtime'[s], queue'[s], requests', wanted, timers)
          /\ \A u \in Sources \ {s} : \A wanted, timers :
                Waits(runtime[u], queue[u], requests, wanted, timers) =>
                   Waits(runtime'[u], queue'[u], requests', wanted, timers)
        BY <1>4, <1>5, <1>6, <2>1, SubmitKeeps
    <2>3. NoneForgotten'
        <3>1. ASSUME failures = 0, NEW u \in Sources, Stored(u), summary[u] # Absent
              PROVE  /\ StillComes(u, summary[u].updated, AnyTimer)'
                     /\ heard[u] # Absent => StillComes(u, heard[u], Forcing)'
            <4>1. /\ StillComes(u, summary[u].updated, AnyTimer)
                  /\ heard[u] # Absent => StillComes(u, heard[u], Forcing)
                BY <3>1 DEF IInv, NoneForgotten
            <4>2. Lacks(u, summary[u].updated) => NeedsFetch(summary, data, u)
                BY <3>1 DEF Lacks, NeedsFetch
            <4>3. CASE u = s
                BY <1>4, <2>1, <2>2, <4>1, <4>2, <4>3 DEF StillComes, Lacks
            <4>4. CASE u # s
                BY <1>4, <2>2, <4>1, <4>4 DEF StillComes, Lacks
            <4>5. QED
                BY <4>3, <4>4
        <3>2. QED
            BY <1>4, <3>1 DEF NoneForgotten, Stored
    <2>4. QED
        BY <1>4, <2>2, <2>3, RestKept
<1>9. QED
    BY <1>7, <1>8

-----------------------------------------------------------------------------
(***************************************************************************)
(* A list arrives: sources it lacks are forgotten, changed ones submitted. *)
(***************************************************************************)
\* A list, as applySourcesSnapshot takes it
ListOf(poll) ==
    [s \in Sources |-> IF poll.list[s] # Absent
                       THEN [status |-> poll.list[s], updated |-> poll.list[s]] ELSE Absent]

\* What a list leaves of a source: forgotten, submitted or left alone.
Applied(poll, s, run, task) ==
    \/ /\ poll.list[s] = Absent
       /\ \/ run = runtime[s] /\ task = queue[s] /\ summary[s] = Absent
          \/ run = NewRuntime /\ task = "out"
    \/ /\ poll.list[s] # Absent
       /\ Kept(runtime[s], queue[s], poll.force, [run |-> run, task |-> task])
    \/ /\ poll.list[s] # Absent
       /\ run = runtime[s] /\ task = queue[s]
       /\ \/ summary[s] # Absent /\ summary[s].updated = poll.list[s]
          \/ ~Lacks(s, poll.list[s])

\* What a list does, source by source
LEMMA PollIs ==
    ASSUME IInv, NEW poll \in polls, PollArrives(poll)
    PROVE  \E runs \in [Sources -> Run], tasks \in [Sources -> Task] :
              /\ Pump(runs, tasks, requests)
              /\ \A s \in Sources : Applied(poll, s, runs[s], tasks[s])
<1>1. /\ runtime \in [Sources -> Run] /\ queue \in [Sources -> Task]
      /\ poll.force \in BOOLEAN
    BY DEF IInv, TypeOK, Run, Task
<1> DEFINE listed == {s \in Sources : poll.list[s] # Absent}
           removed == {s \in Sources \ listed : summary[s] # Absent}
           changed == {s \in listed :
                         \/ summary[s] = Absent
                         \/ poll.force
                         \/ summary[s] # [status |-> poll.list[s], updated |-> poll.list[s]]}
           list == [s \in Sources |-> IF s \in listed
                                      THEN [status |-> poll.list[s], updated |-> poll.list[s]]
                                      ELSE Absent]
           details == [s \in Sources |-> IF s \in listed THEN data[s] ELSE Absent]
           submitted == {s \in changed : poll.force \/ NeedsFetch(list, details, s)}
           result == [s \in Sources |->
                         IF s \in submitted
                         THEN Submitted(runtime[s], queue[s], poll.force, FALSE, FALSE)
                         ELSE IF s \in removed
                         THEN [run |-> NewRuntime, task |-> "out"]
                         ELSE [run |-> runtime[s], task |-> queue[s]]]
           runs == [s \in Sources |-> result[s].run]
           tasks == [s \in Sources |-> result[s].task]
<1>2. Pump(runs, tasks, requests)
    BY Zenon DEF PollArrives
<1>3. ASSUME NEW s \in Sources
      PROVE  /\ Applied(poll, s, result[s].run, result[s].task)
             /\ result[s].run \in Run /\ result[s].task \in Task
    <2>1. runtime[s] \in Run /\ queue[s] \in Task
        BY <1>1
    <2>2. CASE s \in submitted
        <3>1. PICK done : done = Submitted(runtime[s], queue[s], poll.force, FALSE, FALSE)
            OBVIOUS
        <3>2. result[s] = done
            BY <2>2, <3>1
        <3>3. FALSE \in BOOLEAN
            OBVIOUS
        <3>4. Kept(runtime[s], queue[s], poll.force, done)
            BY <1>1, <2>1, <3>1, <3>3, SubmittedIs
        <3>5. Kept(runtime[s], queue[s], poll.force, [run |-> done.run, task |-> done.task])
            BY <3>4 DEF Kept
        <3>6. done.run \in Run /\ done.task \in Task /\ poll.list[s] # Absent
            BY <2>2, <3>4 DEF Kept
        <3> HIDE DEF result, submitted
        <3>7. QED
            BY <3>2, <3>5, <3>6 DEF Applied
    <2>3. CASE s \notin submitted /\ s \in removed
        <3>1. result[s].run = NewRuntime /\ result[s].task = "out" /\ poll.list[s] = Absent
            BY <2>3
        <3>2. NewRuntime \in Run /\ "out" \in Task
            BY DEF NewRuntime, Run, Task
        <3> HIDE DEF result
        <3>3. QED
            BY <3>1, <3>2 DEF Applied
    <2>4. CASE s \notin submitted /\ s \notin removed
        <3>1. result[s].run = runtime[s] /\ result[s].task = queue[s]
            BY <2>4
        <3>2. CASE s \in listed
            <4>1. details[s] = data[s]
                BY <3>2
            <4>2. list[s] = [status |-> poll.list[s], updated |-> poll.list[s]]
                BY <3>2
            <4>3. list[s].updated = poll.list[s]
                BY <4>2
            <4>4. CASE s \in changed
                <5>1. ~NeedsFetch(list, details, s)
                    BY <2>4, <4>4
                <5>2. list[s] # Absent
                    <6>1. poll.list[s] \in Int
                        BY <3>2, VersionsAre DEF IInv, TypeOK
                    <6>2. QED
                        BY <4>2, <6>1, AbsentAssumption
                <5> HIDE DEF list, details
                <5>3. ~Lacks(s, poll.list[s])
                    BY <4>1, <4>3, <5>1, <5>2 DEF NeedsFetch, Lacks
                <5> HIDE DEF result, submitted, changed
                <5>4. QED
                    BY <2>1, <3>1, <3>2, <5>3 DEF Applied
            <4>5. CASE s \notin changed
                <5>1. /\ summary[s] # Absent
                      /\ summary[s] = [status |-> poll.list[s], updated |-> poll.list[s]]
                    BY <3>2, <4>5
                <5>2. summary[s].updated = poll.list[s]
                    BY <5>1
                <5> HIDE DEF result, submitted, changed, list, details
                <5>3. QED
                    BY <2>1, <3>1, <3>2, <5>1, <5>2 DEF Applied
            <4>6. QED
                BY <4>4, <4>5
        <3>3. CASE s \notin listed
            <4>1. summary[s] = Absent /\ poll.list[s] = Absent
                BY <2>4, <3>3
            <4> HIDE DEF result, submitted, changed, list, details
            <4>2. QED
                BY <2>1, <3>1, <4>1 DEF Applied
        <3>4. QED
            BY <3>2, <3>3
    <2>5. QED
        BY <2>2, <2>3, <2>4
<1> HIDE DEF result
<1>4. /\ runs \in [Sources -> Run] /\ tasks \in [Sources -> Task]
      /\ \A s \in Sources : Applied(poll, s, runs[s], tasks[s])
    BY <1>3
<1> HIDE DEF runs, tasks
<1>5. QED
    BY <1>2, <1>4

\* The new list is that of a moment the backend was in, so no source is shown
\* newer than it is stored, and what was announced and is listed still comes.
LEMMA PollInv ==
    ASSUME IInv, NEW poll \in polls, PollArrives(poll)
    PROVE  IInv'
<1>1. PICK runs \in [Sources -> Run], tasks \in [Sources -> Task] :
         /\ Pump(runs, tasks, requests)
         /\ \A s \in Sources : Applied(poll, s, runs[s], tasks[s])
    BY PollIs, SMTT(30)
<1>2. /\ polls' = polls \ {poll} /\ summary' = ListOf(poll)
      /\ data' = [s \in Sources |-> IF poll.list[s] # Absent THEN data[s] ELSE Absent]
      /\ heard' = [s \in Sources |-> IF poll.list[s] = Absent /\ summary[s] # Absent
                                     THEN Absent ELSE heard[s]]
      /\ UNCHANGED <<server, events, failures>>
    BY DEF PollArrives, bounds, ListOf
<1>3. requests \in [Slots -> Request]
    BY DEF IInv, TypeOK, Request
<1>4. poll.list \in [Sources -> Versions \cup {Absent}]
    BY DEF IInv, TypeOK
<1>5. \A s \in Sources : poll.list[s] # Absent => Known(server, s, poll.list[s])
    BY DEF IInv, ShownIsKnown
<1>6. \A s \in Sources : poll.list[s] # Absent => server[s] # Absent
    BY <1>5, KnownIs
<1>7. \A s \in Sources :
         /\ poll.list[s] # Absent => /\ ListOf(poll)[s].status = poll.list[s]
                                     /\ ListOf(poll)[s].updated = poll.list[s]
                                     /\ ListOf(poll)[s] \in [status : Versions, updated : Versions]
                                     /\ ListOf(poll)[s] # Absent
         /\ poll.list[s] = Absent => ListOf(poll)[s] = Absent
    <2>1. ASSUME NEW s \in Sources, poll.list[s] # Absent
          PROVE  /\ ListOf(poll)[s].status = poll.list[s]
                 /\ ListOf(poll)[s].updated = poll.list[s]
                 /\ ListOf(poll)[s] \in [status : Versions, updated : Versions]
                 /\ ListOf(poll)[s] # Absent
        <3>1. PICK version \in Versions : version = poll.list[s]
            BY <1>4, <2>1
        <3>2. ListOf(poll)[s] = [status |-> version, updated |-> version]
            BY <2>1, <3>1 DEF ListOf
        <3>3. [status |-> version, updated |-> version] # Absent
            BY AbsentAssumption, VersionsAre
        <3>4. QED
            BY <3>1, <3>2, <3>3
    <2>2. QED
        BY <2>1 DEF ListOf
<1>8. ASSUME NEW s \in Sources
      PROVE  /\ runs[s].request # NoRequest =>
                    /\ runs[s].request = runtime[s].request /\ tasks[s] = queue[s]
                    /\ requests[runs[s].request] = requests[runs[s].request]
                    /\ data'[s] = data[s] \/ data'[s] = Absent
             /\ tasks[s] # "out" \/ runs[s].trailing # "none" => server[s] # Absent
    <2>1. data'[s] = data[s] \/ data'[s] = Absent
        BY <1>2
    <2>2. CASE runs[s] = runtime[s] /\ tasks[s] = queue[s]
        BY <2>1, <2>2 DEF IInv, AskedIsKnown
    <2>3. CASE runs[s] = NewRuntime /\ tasks[s] = "out"
        BY <2>3 DEF NewRuntime
    <2>4. CASE /\ poll.list[s] # Absent
               /\ Kept(runtime[s], queue[s], poll.force, [run |-> runs[s], task |-> tasks[s]])
        BY <1>6, <2>1, <2>4 DEF Kept
    <2>5. QED
        BY <1>1, <2>2, <2>3, <2>4 DEF Applied
<1>9. /\ runtime' \in [Sources -> Run] /\ queue' \in [Sources -> Task]
      /\ requests' \in [Slots -> Request]
      /\ SlotsServe' /\ AskedIsKnown' /\ DetailsAscend'
      /\ \A s \in Sources : \A wanted, timers :
            Waits(runs[s], tasks[s], requests, wanted, timers) =>
               Waits(runtime'[s], queue'[s], requests', wanted, timers)
    BY <1>1, <1>2, <1>3, <1>8, HandlerKeeps
<1>10. TypeOK' /\ failures' \in Nat
    <2>1. summary' \in [Sources -> [status : Versions, updated : Versions] \cup {Absent}]
        <3>1. ListOf(poll) = [s \in Sources |-> ListOf(poll)[s]]
            BY DEF ListOf
        <3>2. QED
            BY <1>2, <1>7, <3>1
    <2>2. QED
        BY <1>2, <1>9, <2>1 DEF IInv, TypeOK, Run, Task, Request
<1>11. ASSUME NEW s \in Sources, heard'[s] # Absent
       PROVE  heard'[s] = heard[s] /\ summary[s] # Absent /\ poll.list[s] # Absent
    BY <1>2, <1>11 DEF IInv, ShownIsKnown
<1>12. ShownIsKnown'
    <2>1. ASSUME NEW s \in Sources
          PROVE  /\ summary'[s] # Absent => /\ Known(server, s, summary'[s].status)
                                            /\ Known(server, s, summary'[s].updated)
                 /\ data'[s] # Absent => Known(server, s, data'[s])
                 /\ heard'[s] # Absent => Known(server, s, heard'[s]) /\ summary'[s] # Absent
        <3>1. summary'[s] # Absent => /\ Known(server, s, summary'[s].status)
                                      /\ Known(server, s, summary'[s].updated)
            BY <1>2, <1>5, <1>7
        <3>2. data'[s] # Absent => Known(server, s, data'[s])
            BY <1>2 DEF IInv, ShownIsKnown
        <3>3. heard'[s] # Absent => Known(server, s, heard'[s]) /\ summary'[s] # Absent
            BY <1>2, <1>7, <1>11 DEF IInv, ShownIsKnown
        <3>4. QED
            BY <3>1, <3>2, <3>3
    <2>2. QED
        BY <1>2, <2>1 DEF IInv, ShownIsKnown
<1>13. NoneForgotten'
    <2>1. ASSUME failures = 0, NEW s \in Sources, Stored(s), summary'[s] # Absent
          PROVE  /\ StillComes(s, summary[s].updated, AnyTimer)'
                 /\ heard'[s] # Absent => StillComes(s, heard[s], Forcing)'
        <3>1. /\ poll.list[s] # Absent /\ data'[s] = data[s]
              /\ summary'[s].updated = poll.list[s]
            BY <1>2, <1>7, <2>1
        <3>2. summary[s] # Absent => StillComes(s, summary[s].updated, AnyTimer)
            BY <2>1 DEF IInv, NoneForgotten
        <3>3. heard'[s] # Absent => heard'[s] = heard[s] /\ StillComes(s, heard[s], Forcing)
            BY <1>11, <2>1 DEF IInv, NoneForgotten
        <3>4. CASE Kept(runtime[s], queue[s], poll.force, [run |-> runs[s], task |-> tasks[s]])
            <4>1. PICK done : done = [run |-> runs[s], task |-> tasks[s]]
                OBVIOUS
            <4>2. done.run = runs[s] /\ done.task = tasks[s]
                BY <4>1
            <4>3. \A wanted :
                     /\ Waits(runs[s], tasks[s], requests, wanted, AnyTimer)
                     /\ Waits(runtime[s], queue[s], requests, wanted, Forcing) =>
                           Waits(runs[s], tasks[s], requests, wanted, Forcing)
                <5>1. Kept(runtime[s], queue[s], poll.force, done)
                    BY <3>4, <4>1
                <5>2. QED
                    BY <4>2, <5>1, SubmittedWaits
            <4>4. QED
                BY <1>9, <3>1, <3>3, <4>3 DEF StillComes, Lacks
        <3>5. CASE /\ runs[s] = runtime[s] /\ tasks[s] = queue[s]
                   /\ \/ summary[s] # Absent /\ summary[s].updated = poll.list[s]
                      \/ ~Lacks(s, poll.list[s])
            BY <1>9, <3>1, <3>2, <3>3, <3>5 DEF StillComes, Lacks
        <3>6. QED
            BY <1>1, <3>1, <3>4, <3>5 DEF Applied
    <2>2. QED
        BY <1>2, <2>1 DEF NoneForgotten, Stored
<1>14. QED
    BY <1>9, <1>10, <1>12, <1>13 DEF IInv

-----------------------------------------------------------------------------
(***************************************************************************)
(* A detail arrives.                                                       *)
(***************************************************************************)
\* The state that the end of a request leaves
LEMMA EndedIs ==
    ASSUME NEW run \in Run, NEW k \in Slots, NEW refetch \in BOOLEAN,
           NEW ended, ended = Ended(run, k, refetch)
    PROVE  /\ ended \in Run
           /\ ended.request = IF run.request = k THEN NoRequest ELSE run.request
           /\ ended.trailing = run.trailing /\ ~ended.refetch
<1>1. PICK request, boost :
         /\ request = IF run.request = k THEN NoRequest ELSE run.request
         /\ boost = IF refetch THEN FALSE ELSE run.boost
    OBVIOUS
<1>2. request \in Slots \cup {NoRequest} /\ boost \in BOOLEAN
    BY <1>1 DEF Run
<1>3. ended = [run EXCEPT !.request = request, !.refetch = FALSE, !.boost = boost]
    BY <1>1 DEF Ended
<1>4. ended \in Run /\ ended.request = request /\ ended.trailing = run.trailing /\ ~ended.refetch
    BY <1>2, <1>3 DEF Run
<1>5. QED
    BY <1>1, <1>4

\* A detail that is taken is the newest of its source so far; one that is not
\* is asked for again, was forgotten or failed.
LEMMA DetailInv ==
    ASSUME IInv, NEW k \in Slots, DetailArrives(k)
    PROVE  IInv'
<1>1. PICK s \in Sources, detail \in Versions \cup {Failed} :
         /\ requests[k].source = s /\ requests[k].detail = detail /\ requests[k] # Free
    BY DEF DetailArrives, IInv, TypeOK
<1>2. PICK refetch \in BOOLEAN :
         refetch = (runtime[s].refetch \/ (detail # Failed /\ IsCurrent(k) /\ IsStale(k)))
    OBVIOUS
<1>3. PICK ended : ended = Ended(runtime[s], k, refetch)
    OBVIOUS
<1>4. PICK result : result = IF refetch
                             THEN Submitted(ended, queue[s], TRUE, runtime[s].boost, FALSE)
                             ELSE [run |-> ended, task |-> queue[s]]
    OBVIOUS
<1>5. PICK runs, tasks, reqs :
         /\ runs = [runtime EXCEPT ![s] = result.run] /\ tasks = [queue EXCEPT ![s] = result.task]
         /\ reqs = [requests EXCEPT ![k] = Free]
    OBVIOUS
<1>6. Pump(runs, tasks, reqs)
    <2>1. refetch = (runtime[s].refetch \/
                        (requests[k].detail # Failed /\ IsCurrent(k) /\ IsStale(k)))
        BY <1>1, <1>2
    <2>2. QED
        BY <1>1, <1>3, <1>4, <1>5, <2>1 DEF DetailArrives
<1>7. /\ data' = IF Commits(k) THEN [data EXCEPT ![s] = detail] ELSE data
      /\ summary' = IF Commits(k) /\ summary[s] # Absent
                    THEN [summary EXCEPT ![s] = [status |-> detail, updated |-> detail]]
                    ELSE summary
      /\ UNCHANGED <<server, polls, events, heard, failures>>
    BY <1>1 DEF DetailArrives, backend, bounds
<1>8. /\ runtime \in [Sources -> Run] /\ queue \in [Sources -> Task]
      /\ requests \in [Slots -> Request]
      /\ data \in [Sources -> Versions \cup {Absent}]
      /\ summary \in [Sources -> [status : Versions, updated : Versions] \cup {Absent}]
    BY DEF IInv, TypeOK, Run, Task, Request
<1>9. /\ server[s] # Absent /\ (detail \in Versions => Known(server, s, detail))
      /\ detail = Failed => failures > 0 \/ server[s] = Deleted
    BY <1>1 DEF IInv, AskedIsKnown
<1>10. /\ ended \in Run
       /\ ended.request = IF runtime[s].request = k THEN NoRequest ELSE runtime[s].request
       /\ ended.trailing = runtime[s].trailing /\ ~ended.refetch
    BY <1>3, <1>8, EndedIs
<1>11. /\ result.run \in Run /\ result.task \in Task
       /\ result.run.request = ended.request
       /\ ended.request # NoRequest => result.task = queue[s]
       /\ refetch => \A wanted :
             /\ Waits(result.run, result.task, reqs, wanted, AnyTimer)
             /\ Waits(result.run, result.task, reqs, wanted, Forcing)
       /\ ~refetch => result.run = ended /\ result.task = queue[s]
    <2>1. CASE refetch
        <3>1. PICK force \in BOOLEAN, boost \in BOOLEAN, bypass \in BOOLEAN, task \in Task :
                 /\ force /\ task = queue[s]
                 /\ result = Submitted(ended, task, force, boost, bypass)
            <4>1. runtime[s].boost \in BOOLEAN
                BY <1>8 DEF Run
            <4>2. QED
                BY <1>4, <1>8, <2>1, <4>1
        <3>2. Kept(ended, task, force, result)
            BY <1>10, <3>1, SubmittedIs
        <3>3. \A wanted : /\ Waits(result.run, result.task, reqs, wanted, AnyTimer)
                          /\ Waits(result.run, result.task, reqs, wanted, Forcing)
            BY <3>1, <3>2, SubmittedWaits
        <3>4. QED
            BY <2>1, <3>1, <3>2, <3>3 DEF Kept
    <2>2. CASE ~refetch
        <3>1. result.run = ended /\ result.task = queue[s]
            BY <1>4, <2>2
        <3>2. QED
            BY <1>8, <1>10, <2>2, <3>1
    <2>3. QED
        BY <2>1, <2>2
<1>12. /\ runs \in [Sources -> Run] /\ tasks \in [Sources -> Task] /\ reqs \in [Slots -> Request]
       /\ runs[s] = result.run /\ tasks[s] = result.task /\ reqs[k] = Free
       /\ \A u \in Sources \ {s} : runs[u] = runtime[u] /\ tasks[u] = queue[u]
       /\ \A l \in Slots \ {k} : reqs[l] = requests[l]
    BY <1>5, <1>8, <1>11 DEF Request
<1>13. k # NoRequest /\ \A u \in Sources : runtime[u].request = k => u = s
    <2>1. k # NoRequest
        BY SlotAssumption
    <2>2. QED
        BY <1>1, <2>1 DEF IInv, SlotsServe
<1>14. Commits(k) => /\ detail \in Versions /\ runtime[s].request = k
                     /\ summary[s] = Absent \/ ~(detail < summary[s].updated)
    BY <1>1 DEF Commits, IsCurrent, IsStale
<1>15. \A u \in Sources : runs[u].request # NoRequest =>
          /\ runs[u].request \in Slots \ {k}
          /\ runs[u].request = runtime[u].request /\ tasks[u] = queue[u]
    <2>1. \A u \in Sources : runtime[u].request \in Slots \cup {NoRequest}
        BY <1>8 DEF Run
    <2>2. QED
        BY <1>10, <1>11, <1>12, <1>13, <2>1
<1>16. ASSUME NEW u \in Sources
       PROVE  /\ runs[u].request # NoRequest =>
                     /\ runs[u].request = runtime[u].request /\ tasks[u] = queue[u]
                     /\ reqs[runs[u].request] = requests[runs[u].request]
                     /\ data'[u] = data[u] \/ data'[u] = Absent
              /\ tasks[u] # "out" \/ runs[u].trailing # "none" => server[u] # Absent
    <2>1. runs[u].request # NoRequest => data'[u] = data[u]
        <3>1. CASE u = s
            BY <1>7, <1>10, <1>11, <1>12, <1>14, <3>1
        <3>2. CASE u # s
            BY <1>7, <3>2
        <3>3. QED
            BY <3>1, <3>2
    <2>2. tasks[u] # "out" \/ runs[u].trailing # "none" => server[u] # Absent
        BY <1>9, <1>12 DEF IInv, AskedIsKnown
    <2>3. QED
        BY <1>12, <1>15, <2>1, <2>2
<1>17. /\ runtime' \in [Sources -> Run] /\ queue' \in [Sources -> Task]
       /\ requests' \in [Slots -> Request]
       /\ SlotsServe' /\ AskedIsKnown' /\ DetailsAscend'
       /\ \A u \in Sources : \A wanted, timers :
             Waits(runs[u], tasks[u], reqs, wanted, timers) =>
                Waits(runtime'[u], queue'[u], requests', wanted, timers)
    <2>1. \A l \in Slots : reqs[l] = requests[l] \/ reqs[l] = Free
        BY <1>12
    <2>2. UNCHANGED <<server, failures>>
        BY <1>7
    <2>3. QED
        BY <1>6, <1>12, <1>16, <2>1, <2>2, HandlerKeeps
<1>18. /\ \A u \in Sources \ {s} : data'[u] = data[u] /\ summary'[u] = summary[u]
       /\ data' \in [Sources -> Versions \cup {Absent}]
       /\ data'[s] = IF Commits(k) THEN detail ELSE data[s]
    BY <1>7, <1>8, <1>14
<1>19. /\ summary' \in [Sources -> [status : Versions, updated : Versions] \cup {Absent}]
       /\ summary'[s] # Absent <=> summary[s] # Absent
       /\ Commits(k) /\ summary[s] # Absent =>
             summary'[s].status = detail /\ summary'[s].updated = detail
       /\ ~Commits(k) => summary'[s] = summary[s]
    <2>1. CASE Commits(k) /\ summary[s] # Absent
        <3>1. PICK new : new = [status |-> detail, updated |-> detail]
            OBVIOUS
        <3>2. /\ new \in [status : Versions, updated : Versions]
              /\ new.status = detail /\ new.updated = detail
            BY <1>14, <2>1, <3>1
        <3>3. new # Absent
            <4>1. new \in [status : Int, updated : Int]
                BY <3>2, VersionsAre
            <4>2. QED
                BY <4>1, AbsentAssumption
        <3>4. summary' = [summary EXCEPT ![s] = new]
            BY <1>7, <2>1, <3>1
        <3>5. QED
            BY <1>8, <2>1, <3>2, <3>3, <3>4
    <2>2. CASE ~(Commits(k) /\ summary[s] # Absent)
        BY <1>7, <1>8, <2>2
    <2>3. QED
        BY <2>1, <2>2
<1>20. TypeOK' /\ failures' \in Nat
    BY <1>7, <1>17, <1>18, <1>19 DEF IInv, TypeOK, Run, Task, Request
<1>21. ShownIsKnown'
    <2>1. ASSUME NEW u \in Sources
          PROVE  /\ summary'[u] # Absent => /\ Known(server, u, summary'[u].status)
                                            /\ Known(server, u, summary'[u].updated)
                 /\ data'[u] # Absent => Known(server, u, data'[u])
                 /\ heard[u] # Absent => Known(server, u, heard[u]) /\ summary'[u] # Absent
        <3>1. /\ summary[u] # Absent => /\ Known(server, u, summary[u].status)
                                        /\ Known(server, u, summary[u].updated)
              /\ data[u] # Absent => Known(server, u, data[u])
              /\ heard[u] # Absent => Known(server, u, heard[u]) /\ summary[u] # Absent
            BY DEF IInv, ShownIsKnown
        <3>2. CASE u = s /\ Commits(k)
            BY <1>9, <1>14, <1>18, <1>19, <3>1, <3>2
        <3>3. CASE u # s \/ ~Commits(k)
            BY <1>18, <1>19, <3>1, <3>3
        <3>4. QED
            BY <3>2, <3>3
    <2>2. QED
        BY <1>7, <2>1 DEF IInv, ShownIsKnown
<1>22. NoneForgotten'
    <2>1. ASSUME NEW u \in Sources, u # s \/ (~refetch /\ runtime[s].request # k),
                 NEW wanted, NEW timers, Waits(runtime[u], queue[u], requests, wanted, timers)
          PROVE  Waits(runtime'[u], queue'[u], requests', wanted, timers)
        <3>1. /\ runs[u].request = runtime[u].request /\ runs[u].trailing = runtime[u].trailing
              /\ tasks[u] = queue[u]
            BY <1>10, <1>11, <1>12, <2>1
        <3>2. runtime[u].refetch => runs[u].refetch
            BY <1>2, <1>12, <2>1
        <3>3. runs[u].request # NoRequest => reqs[runs[u].request] = requests[runs[u].request]
            BY <1>12, <1>15
        <3>4. Waits(runs[u], tasks[u], reqs, wanted, timers)
            BY <2>1, <3>1, <3>2, <3>3 DEF Waits
        <3>5. QED
            BY <1>17, <3>4
    <2>2. ASSUME failures = 0, NEW u \in Sources, Stored(u), summary'[u] # Absent
          PROVE  /\ StillComes(u, summary[u].updated, AnyTimer)'
                 /\ heard[u] # Absent => StillComes(u, heard[u], Forcing)'
        <3>1. /\ StillComes(u, summary[u].updated, AnyTimer)
              /\ heard[u] # Absent => StillComes(u, heard[u], Forcing)
            BY <1>18, <1>19, <2>2 DEF IInv, NoneForgotten
        <3>2. CASE u # s \/ (~refetch /\ runtime[s].request # k)
            <4>1. data'[u] = data[u] /\ summary'[u] = summary[u]
                BY <1>14, <1>18, <1>19, <3>2
            <4>2. QED
                BY <1>7, <2>1, <3>1, <3>2, <4>1 DEF StillComes, Lacks
        <3>3. CASE u = s /\ refetch
            BY <1>11, <1>12, <1>17, <3>3 DEF StillComes
        <3>4. CASE u = s /\ ~refetch /\ runtime[s].request = k
            <4>1. detail \in Versions
                BY <1>9, <2>2, <3>4, VersionsAre DEF Stored
            <4>2. Commits(k) /\ ~runtime[s].refetch
                <5>1. IsCurrent(k) /\ requests[k].detail # Failed
                    BY <1>1, <3>4, <4>1, VersionsAre DEF IsCurrent
                <5>2. QED
                    BY <1>1, <1>2, <3>4, <5>1 DEF Commits
            <4>3. data'[s] = detail /\ summary'[s].updated = detail
                BY <1>18, <1>19, <2>2, <3>4, <4>2
            <4>4. ~(detail < detail) /\ detail # Absent
                BY <4>1, VersionsAre
            <4>5. StillComes(u, summary[u].updated, AnyTimer)'
                BY <3>4, <4>3, <4>4 DEF StillComes, Lacks
            <4>6. ASSUME heard[s] # Absent, detail < heard[s]
                  PROVE  Waits(runtime'[s], queue'[s], requests', heard[s], Forcing)
                <5>1. heard[s] \in Versions /\ data[s] \in Versions \cup {Absent}
                    BY <4>6 DEF IInv, TypeOK
                <5>2. data[s] # Absent => data[s] <= detail
                    BY <1>1, <1>13, <3>4, <4>1 DEF IInv, DetailsAscend
                <5>3. data[s] = Absent \/ data[s] < heard[s]
                    BY <4>1, <4>6, <5>1, <5>2, VersionsAre
                <5>4. Waits(runtime[s], queue[s], requests, heard[s], Forcing)
                    BY <3>1, <3>4, <4>6, <5>3 DEF StillComes, Lacks
                <5>5. queue[s] = "out"
                    BY <1>13, <3>4 DEF IInv, SlotsServe
                <5>6. ~(detail >= heard[s]) /\ detail # Unanswered
                    BY <4>1, <4>6, <5>1, VersionsAre
                <5>7. runtime[s].trailing \in Forcing
                    BY <1>1, <3>4, <4>2, <5>4, <5>5, <5>6 DEF Waits
                <5>8. Waits(runs[s], tasks[s], reqs, heard[s], Forcing)
                    BY <1>10, <1>11, <1>12, <3>4, <5>7 DEF Waits
                <5>9. QED
                    BY <1>17, <5>8
            <4>7. heard[u] # Absent => StillComes(u, heard[u], Forcing)'
                BY <1>7, <3>4, <4>3, <4>4, <4>6 DEF StillComes, Lacks
            <4>8. QED
                BY <4>5, <4>7
        <3>5. QED
            BY <3>2, <3>3, <3>4
    <2>3. QED
        BY <1>7, <2>2 DEF NoneForgotten, Stored
<1>23. QED
    BY <1>17, <1>20, <1>21, <1>22 DEF IInv

-----------------------------------------------------------------------------
(***************************************************************************)
(* The invariant holds from the start and after every step.                *)
(***************************************************************************)
\* The coordinator starts with nothing and one poll under way.
LEMMA InitInv == Init => IInv
<1> SUFFICES ASSUME Init PROVE IInv
    OBVIOUS
<1>1. /\ server \in [Sources -> {0, Absent}] /\ polls = {[list |-> List, force |-> TRUE]}
      /\ events = <<>> /\ summary = [s \in Sources |-> Absent]
      /\ data = [s \in Sources |-> Absent] /\ runtime = [s \in Sources |-> NewRuntime]
      /\ queue = [s \in Sources |-> "out"] /\ requests = [k \in Slots |-> Free]
      /\ failures = 0 /\ heard = [s \in Sources |-> Absent]
    BY DEF Init
<1>2. NewRuntime \in Run /\ NewRuntime.request = NoRequest /\ NewRuntime.trailing = "none"
    BY DEF NewRuntime, Run
<1>3. PICK poll : poll = [list |-> List, force |-> TRUE]
    OBVIOUS
<1>4. /\ poll \in [list : [Sources -> Versions \cup {Absent}], force : BOOLEAN]
      /\ poll.list = List /\ polls = {poll}
    BY <1>1, <1>3, VersionsAre DEF List, Stored
<1>5. Len(events) = 0 /\ events \in Seq([source : Sources, version : Versions])
    BY <1>1, EmptySeq
<1>6. TypeOK /\ failures \in Nat
    <2>1. server \in [Sources -> Versions \cup {Absent, Deleted}]
        BY <1>1, VersionsAre
    <2>2. runtime \in [Sources -> Run] /\ queue \in [Sources -> Task]
        BY <1>1, <1>2 DEF Task
    <2>3. QED
        BY <1>1, <1>4, <1>5, <2>1, <2>2 DEF TypeOK, Run, Task
<1>7. SlotsServe /\ DetailsAscend
    BY <1>1, <1>2 DEF SlotsServe, DetailsAscend
<1>8. ShownIsKnown
    <2>1. ASSUME NEW s \in Sources, List[s] # Absent
          PROVE  Known(server, s, List[s])
        <3>1. server[s] \in Versions /\ List[s] = server[s]
            BY <2>1 DEF List, Stored
        <3>2. QED
            BY <3>1, VersionsAre DEF Known
    <2>2. \A i \in 1..Len(events) : FALSE
        BY <1>5
    <2>3. QED
        BY <1>1, <1>4, <2>1, <2>2 DEF ShownIsKnown
<1>9. AskedIsKnown
    BY <1>1, <1>2 DEF AskedIsKnown
<1>10. NoneForgotten
    BY <1>1 DEF NoneForgotten
<1>11. QED
    BY <1>6, <1>7, <1>8, <1>9, <1>10 DEF IInv

\* Every step of backend, network and page keeps the invariant.
LEMMA NextInv == IInv /\ [Next]_vars => IInv'
<1> SUFFICES ASSUME IInv, [Next]_vars PROVE IInv'
    OBVIOUS
<1>1. CASE Next
    BY <1>1, BackendInv, AnswerInv, EventInv, ManualInv, ThrottleInv, TrailingInv, PollInv,
       DetailInv DEF Next
<1>2. CASE UNCHANGED vars
    <2>1. UNCHANGED <<server, polls, events, summary, data, runtime, queue, requests, failures,
                      heard>>
        BY <1>2 DEF vars, backend, bounds
    <2>2. /\ runtime' \in [Sources -> Run] /\ queue' \in [Sources -> Task]
          /\ requests' \in [Slots -> Request]
        BY <2>1 DEF IInv, TypeOK, Run, Task, Request
    <2>3. SlotsServe' /\ AskedIsKnown' /\ DetailsAscend'
        BY <2>1 DEF IInv, SlotsServe, AskedIsKnown, DetailsAscend
    <2>4. NoneForgotten'
        BY <2>1 DEF IInv, NoneForgotten, StillComes, Waits, Lacks, Stored
    <2>5. QED
        BY <2>1, <2>2, <2>3, <2>4, RestKept
<1>3. QED
    BY <1>1, <1>2

\* The invariant of the coordinator, in every state
THEOREM CoordinatorInvariant == Spec => []IInv
BY InitInv, NextInv, PTL DEF Spec

\* The records of sourceUpdateCoordinator.ts are well formed.
THEOREM CoordinatorTypeOK == Spec => []TypeOK
<1>1. IInv => TypeOK
    BY DEF IInv
<1>2. QED
    BY <1>1, CoordinatorInvariant, PTL

\* With any number of sources and places: the request a source waits for is
\* its own, it is not queued meanwhile, and pumpQueue never leaves a place
\* free while a source is queued.
THEOREM CoordinatorSlotsServe == Spec => []SlotsServe
<1>1. IInv => SlotsServe
    BY DEF IInv
<1>2. QED
    BY <1>1, CoordinatorInvariant, PTL

\* As long as no request failed, whatever the list or an event announced is
\* there or still comes, in any interleaving of bursts, throttling, polls,
\* refreshes, answers and deletions.
THEOREM AnnouncedComes == Spec => [](failures = 0 => UpdateNotForgotten)
<1>1. ASSUME IInv, failures = 0 PROVE UpdateNotForgotten
    <2>1. ASSUME NEW s \in Sources, NEW wanted, NEW timers \in {AnyTimer, Forcing},
                 Waits(runtime[s], queue[s], requests, wanted, timers)
          PROVE  Pending(s, wanted)
        BY <2>1 DEF Waits, Pending, AnyTimer, Forcing
    <2>2. ASSUME NEW s \in Sources, Stored(s), summary[s] # Absent,
                 NEW wanted \in {summary[s].updated, heard[s]} \ {Absent},
                 data[s] = Absent \/ data[s] < wanted
          PROVE  Pending(s, wanted)
        <3>1. CASE wanted = summary[s].updated
            BY <1>1, <2>1, <2>2, <3>1 DEF IInv, NoneForgotten, StillComes, Lacks
        <3>2. CASE wanted = heard[s] /\ heard[s] # Absent
            BY <1>1, <2>1, <2>2, <3>2 DEF IInv, NoneForgotten, StillComes, Lacks
        <3>3. QED
            BY <2>2, <3>1, <3>2
    <2>3. QED
        BY <2>2 DEF UpdateNotForgotten
<1>2. QED
    BY <1>1, CoordinatorInvariant, PTL

\* Failures are counted, and happen up to their bound.
FewFailures == failures <= MaxFailures

\* No behaviour has more.
LEMMA FailuresBounded == Spec => []FewFailures
<1>1. Init => FewFailures
    BY BoundAssumption, SMTT(30) DEF Init, FewFailures
<1>2. IInv /\ FewFailures /\ [Next]_vars => FewFailures'
    <2> SUFFICES ASSUME IInv, FewFailures, [Next]_vars PROVE FewFailures'
        OBVIOUS
    <2>1. CASE \E k \in Slots : FailRequest(k)
        BY <2>1, BoundAssumption DEF FailRequest, IInv, FewFailures
    <2>2. CASE failures' = failures
        BY <2>2 DEF FewFailures
    <2>3. QED
        BY <2>1, <2>2 DEF Next, vars, bounds, Write, AddSource, DeleteSource, ManualRefresh,
           ThrottleEnds, TrailingSubmit, Poll, PollArrives, EventArrives, Answer, DetailArrives
<1>3. QED
    BY <1>1, <1>2, CoordinatorInvariant, PTL DEF Spec

\* Where requests do not fail, no announced version is ever forgotten.
THEOREM NothingForgotten ==
    ASSUME MaxFailures = 0
    PROVE  Spec => []UpdateNotForgotten
<1>1. IInv /\ FewFailures => failures = 0
    BY DEF IInv, FewFailures
<1>2. QED
    BY <1>1, AnnouncedComes, FailuresBounded, CoordinatorInvariant, PTL

-----------------------------------------------------------------------------
(***************************************************************************)
(* What a step may never do.                                               *)
(***************************************************************************)
\* What a step leaves of the detail of a source and of its place in the list
Ages(s) ==
    /\ data[s] # Absent /\ data'[s] # Absent => data'[s] >= data[s]
    /\ polls' = polls /\ summary[s] # Absent /\ summary'[s] # Absent
        => summary'[s].updated >= summary[s].updated

\* No step goes back to an older detail.
LEMMA StepAges ==
    ASSUME IInv, [Next]_vars, NEW s \in Sources
    PROVE  Ages(s)
<1>1. /\ data[s] # Absent => data[s] \in Nat
      /\ summary[s] # Absent => summary[s].updated \in Nat
    BY VersionsAre DEF IInv, TypeOK
<1>2. CASE data'[s] = data[s] /\ summary'[s] = summary[s]
    BY <1>1, <1>2 DEF Ages
<1>3. ASSUME NEW poll \in polls, PollArrives(poll) PROVE Ages(s)
    <2>1. data'[s] \in {data[s], Absent} /\ polls' # polls
        BY <1>3 DEF PollArrives
    <2>2. QED
        BY <1>1, <2>1 DEF Ages
<1>4. CASE EventArrives
    <2>1. data'[s] = data[s]
        BY <1>4 DEF EventArrives
    <2>2. summary[s] # Absent /\ summary'[s] # Absent => summary'[s].updated = summary[s].updated
        <3>1. PICK source, version :
                 summary' = IF summary[source] = Absent
                            THEN summary ELSE [summary EXCEPT ![source].status = version]
            BY <1>4 DEF EventArrives
        <3>2. CASE summary[source] # Absent /\ source = s
            <4>1. summary \in [Sources -> [status : Versions, updated : Versions] \cup {Absent}]
                BY DEF IInv, TypeOK
            <4>2. summary'[s] = [summary[s] EXCEPT !.status = version]
                BY <3>1, <3>2, <4>1
            <4>3. summary[s] \in [status : Versions, updated : Versions]
                BY <3>2, <4>1
            <4>4. [summary[s] EXCEPT !.status = version].updated = summary[s].updated
                BY <4>3
            <4>5. QED
                BY <4>2, <4>4
        <3>3. CASE summary[source] = Absent \/ source # s
            BY <3>1, <3>3 DEF IInv, TypeOK
        <3>4. QED
            BY <3>2, <3>3
    <2>3. QED
        BY <1>1, <2>1, <2>2 DEF Ages
<1>5. ASSUME NEW k \in Slots, DetailArrives(k) PROVE Ages(s)
    <2>1. PICK source \in Sources, detail \in Versions \cup {Failed} :
             requests[k].source = source /\ requests[k].detail = detail
        BY <1>5 DEF DetailArrives, IInv, TypeOK
    <2>2. /\ data' = IF Commits(k) THEN [data EXCEPT ![source] = detail] ELSE data
          /\ summary' = IF Commits(k) /\ summary[source] # Absent
                        THEN [summary EXCEPT ![source] = [status |-> detail, updated |-> detail]]
                        ELSE summary
        BY <1>5, <2>1 DEF DetailArrives
    <2>3. CASE Commits(k) /\ source = s
        <3>1. detail \in Versions /\ detail \in Nat /\ detail >= detail
            BY <2>1, <2>3, VersionsAre DEF Commits
        <3>2. data'[s] = detail
            BY <2>2, <2>3 DEF IInv, TypeOK
        <3>3. runtime[s].request = k /\ k # NoRequest
            BY <2>1, <2>3, SlotAssumption DEF Commits, IsCurrent
        <3>4. data[s] # Absent => data[s] <= detail
            BY <2>1, <3>1, <3>3 DEF IInv, DetailsAscend
        <3>5. summary[s] # Absent => ~(detail < summary[s].updated)
            BY <2>1, <2>3 DEF Commits, IsStale
        <3>6. summary[s] # Absent => summary'[s].updated = detail
            <4>1. [status |-> detail, updated |-> detail].updated = detail
                OBVIOUS
            <4>2. summary[s] # Absent => summary'[s] = [status |-> detail, updated |-> detail]
                BY <2>2, <2>3 DEF IInv, TypeOK
            <4>3. QED
                BY <4>1, <4>2
        <3>7. data[s] # Absent => detail >= data[s]
            BY <1>1, <3>1, <3>4
        <3>8. summary[s] # Absent => detail >= summary[s].updated
            BY <1>1, <3>1, <3>5
        <3>9. QED
            BY <3>2, <3>6, <3>7, <3>8 DEF Ages
    <2>4. CASE ~(Commits(k) /\ source = s)
        BY <1>2, <2>2, <2>4 DEF IInv, TypeOK
    <2>5. QED
        BY <2>3, <2>4, SMTT(30)
<1>6. CASE UNCHANGED <<data, summary>>
    BY <1>2, <1>6
<1>7. QED
    BY <1>3, <1>4, <1>5, <1>6 DEF Next, vars, Write, AddSource, DeleteSource, ManualRefresh,
       ThrottleEnds, TrailingSubmit, Poll, Answer, FailRequest

\* A detail is never replaced by an older one, and never makes the list older:
\* IsStale compares it with the list, and the request id keeps answers that
\* were overtaken away.
THEOREM DetailsNeverAge == Spec => NeverAged
<1>1. IInv /\ [Next]_vars =>
         [\A s \in Sources :
            /\ data[s] # Absent /\ data'[s] # Absent => data'[s] >= data[s]
            /\ polls' = polls /\ summary[s] # Absent /\ summary'[s] # Absent
                => summary'[s].updated >= summary[s].updated]_vars
    BY StepAges DEF Ages
<1>2. QED
    BY <1>1, CoordinatorInvariant, PTL DEF Spec, NeverAged

=============================================================================
