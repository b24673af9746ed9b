-------------------------- MODULE ScraperTaskStore --------------------------
(***************************************************************************)
(* The in-memory queue of webview scraper tasks of                         *)
(* core/scraper_task_store.py, as the /api/internal/scraper endpoints of   *)
(* core/api.py and the browser step of core/steps/browser_step.py drive    *)
(* it.  Every operation runs under one lock, inside one await-free request *)
(* handler, so an operation is one action.                                 *)
(*                                                                         *)
(* Abstractions:                                                           *)
(*   - a task id is the rank of its creation (a uuid4 in the code).  The   *)
(*     code orders tasks by created_at and breaks ties by insertion; with  *)
(*     a clock that does not run backwards that is the order of the ids;   *)
(*   - url, script, intercept_api and secret_key travel together: config;  *)
(*   - lease_expires_at is kept as the time that is left of the lease,     *)
(*     lease_expires_at - now, 0 when it has expired or is None.           *)
(***************************************************************************)
EXTENDS Integers, FiniteSets

CONSTANTS
    Sources,        \* source ids
    Steps,          \* step ids of webview steps
    Workers,        \* worker ids: one per daemon process
    Configs,        \* url/script/intercept_api/secret_key combinations
    LeaseSeconds,   \* the lease_seconds a daemon asks for
    MaxTasks,       \* bound: tasks ever created
    MaxAttempts,    \* bound: claims of one task
    NoWorker,       \* lease_owner is None
    NoGrant         \* no result was accepted

ASSUME LeaseAssumption == LeaseSeconds \in Int
ASSUME MaxTasksAssumption == MaxTasks \in Nat
ASSUME MaxAttemptsAssumption == MaxAttempts \in Nat
ASSUME NoWorkerAssumption == NoWorker \notin Workers

TaskIds == 1..MaxTasks
Slots == Sources \X Steps

Active == {"pending", "claimed", "running"}
Leased == {"claimed", "running"}
Terminal == {"completed", "failed"}

\* What the store keeps of a task.
Task == [slot: Slots, config: Configs, status: Active \cup Terminal,
         attempt: 0..MaxAttempts, owner: Workers \cup {NoWorker}, left: Nat]

\* What a worker learns when it claims: the arguments of its later calls.
Grant == [worker: Workers, task: TaskIds, attempt: 1..MaxAttempts,
          config: Configs]

ASSUME NoGrantAssumption == NoGrant \notin Grant

VARIABLES
    tasks,      \* _tasks_by_id
    issued,     \* how many ids were ever used
    grants,     \* history: every claim that was ever answered
    resultOf,   \* history: the grant whose result was accepted for a task
    accepted,   \* history: how many completions of a task were accepted
    wanted      \* history: the config last asked for, by slot

vars == <<tasks, issued, grants, resultOf, accepted, wanted>>

Init ==
    /\ tasks = [t \in {} |-> NoGrant]
    /\ issued = 0
    /\ grants = {}
    /\ resultOf = [t \in TaskIds |-> NoGrant]
    /\ accepted = [t \in TaskIds |-> 0]
    /\ wanted \in [Slots -> Configs]

-----------------------------------------------------------------------------
\* max(int(lease_seconds), 1)
Lease == IF LeaseSeconds < 1 THEN 1 ELSE LeaseSeconds

\* What an operation does to the lease of a task
WithLease(task, status, owner, left) ==
    [task EXCEPT !.status = status, !.owner = owner, !.left = left]

Released(task) == WithLease(task, "pending", NoWorker, 0)


\* _release_expired_leases_locked, applied to a whole queue
ReleaseExpired(queue) ==
    [t \in DOMAIN queue |->
        IF queue[t].status \in Leased /\ queue[t].left = 0
        THEN Released(queue[t])
        ELSE queue[t]]

\* Mutant of ActiveIn: only a task that nobody has claimed is reused.
ActiveIn_PendingOnly(queue, slot) ==
    {t \in DOMAIN queue : queue[t].slot = slot /\ queue[t].status = "pending"}

\* The active tasks of a slot, and the tasks that wait to be claimed
ActiveIn(queue, slot) ==
    {t \in DOMAIN queue : queue[t].slot = slot /\ queue[t].status \in Active}

PendingIn(queue) == {t \in DOMAIN queue : queue[t].status = "pending"}

\* min(candidates, key = created_at)
IsOldest(t, ids) == t \in ids /\ \A u \in ids : t <= u

\* Mutant of ForeignLease: the expiry test is the wrong way round.
ForeignLease_Inverted(t, w) ==
    /\ tasks[t].owner \notin {NoWorker, w}
    /\ tasks[t].left = 0

\* Another worker holds a lease that has not expired.
ForeignLease(t, w) ==
    /\ tasks[t].owner \notin {NoWorker, w}
    /\ tasks[t].left > 0

NewTask(slot, config) ==
    [slot |-> slot, config |-> config, status |-> "pending",
     attempt |-> 0, owner |-> NoWorker, left |-> 0]

\* Mutant of Rewritten: a task in progress keeps its config.
Rewritten_PendingOnly(task, config) ==
    IF task.status = "pending" THEN [Released(task) EXCEPT !.config = config] ELSE task

\* The branch of upsert_pending_task that finds an active task: its config is
\* replaced in place, whoever works on it.
Rewritten(task, config) ==
    [(IF task.status = "pending" THEN Released(task) ELSE task)
        EXCEPT !.config = config]

ClaimedBy(task, w) ==
    [WithLease(task, "claimed", w, Lease) EXCEPT !.attempt = task.attempt + 1]

-----------------------------------------------------------------------------
\* Mutant of CreateTask: the id is not used up.
CreateTask_SameId(queue, slot, config) ==
    /\ ActiveIn(queue, slot) = {}
    /\ issued < MaxTasks
    /\ issued' = issued
    /\ tasks' = [t \in DOMAIN queue \cup {issued + 1} |->
                   IF t = issued + 1 THEN NewTask(slot, config) ELSE queue[t]]

\* upsert_pending_task finds no active task of the slot ...
CreateTask(queue, slot, config) ==
    /\ ActiveIn(queue, slot) = {}
    /\ issued < MaxTasks
    /\ issued' = issued + 1
    /\ tasks' = [t \in DOMAIN queue \cup {issued + 1} |->
                   IF t = issued + 1 THEN NewTask(slot, config) ELSE queue[t]]

\* ... or it finds one and gives it the new config.
ReuseTask(queue, slot, config) ==
    \E t \in ActiveIn(queue, slot) :
        /\ IsOldest(t, ActiveIn(queue, slot))
        /\ tasks' = [queue EXCEPT ![t] = Rewritten(queue[t], config)]
        /\ issued' = issued

\* A browser step found no captured data and asks for a scrape.
UpsertPendingTask(slot, config) ==
    /\ \/ CreateTask(ReleaseExpired(tasks), slot, config)
       \/ ReuseTask(ReleaseExpired(tasks), slot, config)
    /\ wanted' = [wanted EXCEPT ![slot] = config]
    /\ UNCHANGED <<grants, resultOf, accepted>>

\* A worker takes the oldest pending task.  When there is none the call changes
\* nothing: an expired lease would have been released, and found.
ClaimNextTask(w) ==
    LET queue == ReleaseExpired(tasks)
    IN  \E t \in PendingIn(queue) :
            /\ IsOldest(t, PendingIn(queue))
            /\ queue[t].attempt < MaxAttempts
            /\ tasks' = [queue EXCEPT ![t] = ClaimedBy(queue[t], w)]
            /\ grants' = grants \cup
                 {[worker |-> w, task |-> t, attempt |-> queue[t].attempt + 1,
                   config |-> queue[t].config]}
            /\ UNCHANGED <<issued, resultOf, accepted, wanted>>

\* A worker renews a lease.  The attempt number it sends is not looked at; a
\* lease that expired, or was released, is taken (back).
HeartbeatTask(g) ==
    /\ g.task \in DOMAIN tasks
    /\ tasks[g.task].status \notin Terminal
    /\ ~ForeignLease(g.task, g.worker)
    /\ tasks' = [tasks EXCEPT ![g.task] = WithLease(@, "running", g.worker, Lease)]
    /\ UNCHANGED <<issued, grants, resultOf, accepted, wanted>>

\* Mutant of CanComplete: the attempt number is not compared.
CanComplete_AnyAttempt(g) ==
    /\ g.task \in DOMAIN tasks
    /\ tasks[g.task].status # "completed"
    /\ ~ForeignLease(g.task, g.worker)

\* The guards of complete_task under which it changes anything
CanComplete(g) ==
    /\ g.task \in DOMAIN tasks
    /\ tasks[g.task].status # "completed"
    /\ tasks[g.task].attempt = g.attempt
    /\ ~ForeignLease(g.task, g.worker)

CompleteTask(g) ==
    /\ CanComplete(g)
    /\ tasks' = [tasks EXCEPT ![g.task] = WithLease(@, "completed", NoWorker, 0)]
    /\ resultOf' = [resultOf EXCEPT ![g.task] = g]
    /\ accepted' = [accepted EXCEPT ![g.task] = @ + 1]
    /\ UNCHANGED <<issued, grants, wanted>>

\* Mutant of FailTask: no early return for a completed task.
FailTask_AfterCompletion(g) ==
    /\ g.task \in DOMAIN tasks
    /\ tasks[g.task].status # "failed"
    /\ tasks[g.task].attempt = g.attempt
    /\ ~ForeignLease(g.task, g.worker)
    /\ tasks' = [tasks EXCEPT ![g.task] = WithLease(@, "failed", NoWorker, 0)]
    /\ UNCHANGED <<issued, grants, resultOf, accepted, wanted>>

\* The guards of fail_task under which it changes anything
CanFail(g) ==
    /\ g.task \in DOMAIN tasks
    /\ tasks[g.task].status \notin Terminal
    /\ tasks[g.task].attempt = g.attempt
    /\ ~ForeignLease(g.task, g.worker)

FailTask(g) ==
    /\ CanFail(g)
    /\ tasks' = [tasks EXCEPT ![g.task] = WithLease(@, "failed", NoWorker, 0)]
    /\ UNCHANGED <<issued, grants, resultOf, accepted, wanted>>

\* The queue snapshot of the UI: a read that releases expired leases.
ListActiveTasks ==
    /\ tasks' = ReleaseExpired(tasks)
    /\ UNCHANGED <<issued, grants, resultOf, accepted, wanted>>

\* Clear the queue, of some sources: of one, or of all when source_id is None
ClearActiveTasks(which) ==
    LET kept == {t \in DOMAIN tasks : \/ tasks[t].status \notin Active
                                      \/ tasks[t].slot[1] \notin which}
    IN  /\ tasks' = [t \in kept |-> tasks[t]]
        /\ UNCHANGED <<issued, grants, resultOf, accepted, wanted>>

\* The clock: one second off every lease that is held
TimePasses ==
    /\ tasks' = [t \in DOMAIN tasks |->
                   IF tasks[t].left > 0
                   THEN [tasks[t] EXCEPT !.left = @ - 1]
                   ELSE tasks[t]]
    /\ UNCHANGED <<issued, grants, resultOf, accepted, wanted>>

Next ==
    \/ \E slot \in Slots, config \in Configs : UpsertPendingTask(slot, config)
    \/ \E w \in Workers : ClaimNextTask(w)
    \/ \E g \in grants : HeartbeatTask(g)
    \/ \E g \in grants : CompleteTask(g)
    \/ \E g \in grants : FailTask(g)
    \/ ListActiveTasks
    \/ \E s \in Sources : ClearActiveTasks({s})
    \/ ClearActiveTasks(Sources)
    \/ TimePasses

Spec == Init /\ [][Next]_vars

-----------------------------------------------------------------------------
\* Every variable stays in its range; ids are handed out in order and a task
\* that was never created has no result.
TypeOK ==
    /\ issued \in 0..MaxTasks
    /\ DOMAIN tasks \subseteq 1..issued
    /\ tasks \in [DOMAIN tasks -> Task]
    /\ grants \subseteq Grant
    /\ resultOf \in [TaskIds -> Grant \cup {NoGrant}]
    /\ accepted \in [TaskIds -> Nat]
    /\ wanted \in [Slots -> Configs]

\* A source and step never have two active tasks: upsert_pending_task reuses
\* the active one, also while a worker holds it, and no operation brings a
\* finished task back into the queue.  Two would scrape the same page twice
\* and the second result would overwrite the first.
OneActiveTaskPerSlot ==
    \A t, u \in DOMAIN tasks :
        /\ tasks[t].status \in Active
        /\ tasks[u].status \in Active
        /\ tasks[t].slot = tasks[u].slot
        => t = u

\* A lease is held exactly by claimed and running tasks: a released, finished
\* or new task keeps neither an owner nor lease time, so that no worker is
\* refused because of somebody who has let go of it.
LeaseOnlyWhileHeld ==
    \A t \in DOMAIN tasks :
        /\ tasks[t].status \in Leased <=> tasks[t].owner # NoWorker
        /\ tasks[t].left > 0 => tasks[t].status \in Leased

\* The attempt number is a fencing token: no two claims of a task were ever
\* answered with the same number, and the current number is that of the last
\* claim.
AttemptIsFencingToken ==
    /\ \A g, h \in grants : g.task = h.task /\ g.attempt = h.attempt => g = h
    /\ \A t \in DOMAIN tasks :
          /\ \A g \in grants : g.task = t => g.attempt <= tasks[t].attempt
          /\ tasks[t].attempt > 0 =>
                \E g \in grants : g.task = t /\ g.attempt = tasks[t].attempt
    /\ \A g \in grants : g.task <= issued

\* The task that stands for a slot in the queue always carries the config its
\* flow asked for last, whatever claims, releases and heartbeats happened
\* since: a later claim never hands out an outdated url or script.
ActiveTaskCarriesLatestConfig ==
    \A t \in DOMAIN tasks :
        tasks[t].status \in Active => tasks[t].config = wanted[tasks[t].slot]

\* A completed task took exactly one result, and took it from the worker of
\* the latest claim: a worker whose lease expired and whose task was claimed
\* again cannot deliver.
ResultIsFromLatestClaim ==
    \A t \in TaskIds :
        /\ resultOf[t] # NoGrant =>
              /\ t \in DOMAIN tasks
              /\ tasks[t].status = "completed"
              /\ resultOf[t] \in grants
              /\ resultOf[t].task = t
              /\ resultOf[t].attempt = tasks[t].attempt
        /\ t \in DOMAIN tasks /\ tasks[t].status = "completed"
              => resultOf[t] # NoGrant

\* However often a worker repeats its completion report, however late it is,
\* the store tells one caller that the task changed: the flow behind a task is
\* resumed once, with the result that was kept.
ResultAcceptedOnce ==
    \A t \in TaskIds : accepted[t] = IF resultOf[t] = NoGrant THEN 0 ELSE 1

\* Fencing as a whole: whichever claims, expiries and late or repeated reports
\* interleave, claims have numbers of their own, a completed task has the result
\* of the latest of them, and its flow is resumed once.
ResultFenced == AttemptIsFencingToken /\ ResultIsFromLatestClaim /\ ResultAcceptedOnce

\* While a lease runs, nobody but its owner ends it: another worker's
\* heartbeat, completion or failure report leaves the owner in place.  Only
\* the owner's own report, or clearing the queue, takes the lease away.
LiveLeaseIsExclusive ==
    [][\A t \in DOMAIN tasks :
          /\ tasks[t].left > 0
          /\ t \in DOMAIN tasks'
          /\ tasks'[t].owner # tasks[t].owner
          => /\ tasks'[t].status \in Terminal
             /\ \E g \in grants : /\ g.worker = tasks[t].owner
                                  /\ g.task = t
                                  /\ g.attempt = tasks[t].attempt]_vars

-----------------------------------------------------------------------------
(***************************************************************************)
(* What the queue promises to the flows and to the daemons, seen as jobs   *)
(* that are handed out under fencing tokens.                               *)
(***************************************************************************)
JobState ==
    [t \in TaskIds |->
        IF t \notin DOMAIN tasks
        THEN IF t <= issued THEN "withdrawn" ELSE "absent"
        ELSE IF tasks[t].status = "completed" THEN "done"
        ELSE IF tasks[t].status = "failed" THEN "failed" ELSE "open"]

JobToken ==
    [t \in TaskIds |-> IF t \in DOMAIN tasks THEN tasks[t].attempt ELSE 0]

JobResult ==
    [t \in TaskIds |-> IF resultOf[t] = NoGrant THEN 0 ELSE resultOf[t].attempt]

Jobs == INSTANCE FencedJobs WITH JobIds <- TaskIds, state <- JobState,
                                 token <- JobToken, result <- JobResult

\* The store implements the job queue: tasks are offered, handed out under
\* growing tokens, closed once with the result of the last token, failed, or
\* withdrawn, and nothing else ever happens to one.
ImplementsFencedJobs == Jobs!Spec

=============================================================================
