--------------------------- MODULE ScraperDaemon ---------------------------
(***************************************************************************)
(* The Tauri side of scraping, ui-react/src-tauri/src/scraper.rs, with the *)
(* timeout of ui-react/src/hooks/useScraper.ts, composed with the task     *)
(* queue of the backend.                                                   *)
(*                                                                         *)
(* A daemon thread claims tasks and sends heartbeats, spawned starts open  *)
(* a hidden window, and commands that the page or the dashboard invokes    *)
(* run on other threads.  They share active_task and handled_results, each *)
(* behind a lock of its own.  Every call of the backend blocks its thread: *)
(* a command reads active_task, calls, and writes active_task afterwards.  *)
(*                                                                         *)
(* Abstractions:                                                           *)
(*   - a call of the backend succeeds, is refused, or is lost before or    *)
(*     after the backend handled it; its effect and the writes after it    *)
(*     are one step, as are the reads before it;                           *)
(*   - a url may parse or not, and a window may be built or not;           *)
(*   - the dashboard sees lifecycle events when they are emitted;          *)
(*   - the foreground window is left out: its task id is new, so what its  *)
(*     page reports never matches the active task.                         *)
(***************************************************************************)
EXTENDS ScraperTaskStore

CONSTANTS
    Daemon,         \* daemon_worker_id
    MaxCalls,       \* bound: commands of pages and users under way
    MaxTroubles     \* bound: calls that are lost, lease time that passes
                    \* while a call is under way, and what users do

ASSUME DaemonAssumption == Daemon \in Workers
ASSUME DaemonBounds == {MaxCalls, MaxTroubles} \subseteq Nat

VARIABLES
    active,     \* active_task: the claim it came from, NoGrant for None
    handled,    \* handled_results
    starting,   \* start_claimed_scraper_task under way: claim and progress
    page,       \* the page in the worker window: the claim it was opened for
    calls,      \* commands that have read active_task and call the backend
    watch,      \* useScraper: the task whose timeout runs, and its timer
    cancels,    \* cancel_scraper_task invoked and not begun: by whom
    handler,    \* the handler of a button that awaits a command
    dropped,    \* history: claims whose timeout a handler dropped that
                \* returned late
    away,       \* the dashboard was left
    troubles,   \* bound
    origin,     \* the source id a claim came with, by task
    source      \* history: the page whose data was accepted for a task

uiVars == <<watch, cancels, handler, dropped, away>>
daemonVars == <<vars, active, handled, starting, page, calls, uiVars, troubles,
                source, origin>>

NoTask == 0
NoWatch == [task |-> NoTask, timer |-> "idle"]

DaemonInit ==
    /\ Init
    /\ active = NoGrant
    /\ handled = {}
    /\ starting = {}
    /\ page = NoGrant
    /\ calls = {}
    /\ watch = NoWatch
    /\ cancels = {}
    /\ handler = "no"
    /\ dropped = {}
    /\ away = FALSE
    /\ troubles = 0
    /\ origin = [t \in TaskIds |-> CHOOSE s \in Sources : TRUE]
    /\ source = [t \in TaskIds |-> NoGrant]

Trouble == troubles < MaxTroubles /\ troubles' = troubles + 1

-----------------------------------------------------------------------------
(***************************************************************************)
(* The dashboard: what it makes of lifecycle events.                       *)
(***************************************************************************)
\* task_claimed: the token changes with the task only, and the timer with it.
Watching(t) ==
    IF away \/ watch.task = t THEN watch ELSE [task |-> t, timer |-> "armed"]

\* A terminal stage, or an event after one, of the task that is watched
Unwatched(t) == IF watch.task = t THEN NoWatch ELSE watch

\* The timer of the watched task fires and the command is invoked; it does
\* not say which task is meant.
TimerFires ==
    /\ watch.timer = "armed"
    /\ watch' = [watch EXCEPT !.timer = "fired"]
    /\ cancels' = cancels \cup {watch.task}
    /\ UNCHANGED <<vars, active, handled, starting, page, calls, handler, dropped,
                   away, troubles, source, origin>>

\* A button of the panel is pressed; its handler awaits commands one by one.
Pressed(awaits) ==
    /\ ~away /\ handler = "no"
    /\ Trouble
    /\ handler' = awaits

\* handleSkipScraper up to its await; handleClearScraperQueue, which cancels
\* first if it knows of an active task
Skip ==
    /\ \/ Pressed("skip")
       \/ Pressed("cancel")
    /\ cancels' = cancels \cup {NoTask}
    /\ UNCHANGED <<vars, active, handled, starting, page, calls, watch, dropped,
                   away, source, origin>>

SkipNothing ==
    /\ Pressed("clear")
    /\ UNCHANGED <<vars, active, handled, starting, page, calls, watch, cancels,
                   dropped, away, source, origin>>

\* The command of a handler is over.
CommandOver ==
    /\ NoTask \notin cancels
    /\ \A c \in calls : c.invoker # NoTask

\* handleClearScraperQueue goes on to clear_scraper_queue ...
CancelReturns ==
    /\ handler = "cancel"
    /\ CommandOver
    /\ handler' = "clear"
    /\ UNCHANGED <<vars, active, handled, starting, page, calls, watch, cancels,
                   dropped, away, troubles, source, origin>>

\* ... which may fail
QueueCleared ==
    /\ handler = "clear"
    /\ handler' = "cleared"
    /\ ClearActiveTasks(Sources) \/ UNCHANGED vars
    /\ UNCHANGED <<active, handled, starting, page, calls, watch, cancels, dropped,
                   away, troubles, source, origin>>

\* The last await of a handler returns: it drops the task that is watched by
\* now, which need not be the one it was called for.  Nothing is dropped if the
\* foreground window of a promotion could not be built.
HandlerReturns ==
    /\ handler \in {"skip", "cleared", "show"}
    /\ CommandOver
    /\ handler' = "no"
    /\ \/ /\ watch' = NoWatch
          /\ dropped' = IF active # NoGrant /\ watch.task = active.task
                        THEN dropped \cup {active} ELSE dropped
       \/ handler = "show" /\ UNCHANGED <<watch, dropped>>
    /\ UNCHANGED <<vars, active, handled, starting, page, calls, cancels, away,
                   troubles, source, origin>>

HandlerGoesOn == CancelReturns \/ QueueCleared \/ HandlerReturns

\* The user leaves the dashboard: its hook and the timer are gone, a handler goes
\* on.
LeaveDashboard ==
    /\ ~away
    /\ Trouble
    /\ away' = TRUE
    /\ watch' = NoWatch
    /\ UNCHANGED <<vars, active, handled, starting, page, calls, cancels, handler,
                   dropped, source, origin>>

-----------------------------------------------------------------------------
(***************************************************************************)
(* The daemon thread and the starts it spawns.                             *)
(***************************************************************************)
Spawned(g) == [grant |-> g, progress |-> "spawned"]
Closing(g) == [grant |-> g, progress |-> "closing"]

\* No active task: one is claimed, unless the answer is lost.
Claim ==
    /\ active = NoGrant
    /\ ClaimNextTask(Daemon)
    /\ \/ /\ starting' = starting \cup {Spawned(g) : g \in grants' \ grants}
          /\ troubles' = troubles
       \/ Trouble /\ starting' = starting
    /\ origin' = [t \in TaskIds |->
          IF \E g \in grants' \ grants : g.task = t
          THEN tasks'[t].slot[1] ELSE origin[t]]
    /\ UNCHANGED <<active, handled, page, calls, uiVars, source>>

\* A heartbeat that is refused or lost changes nothing.
Heartbeat ==
    /\ active # NoGrant
    /\ HeartbeatTask(active)
    /\ UNCHANGED <<active, handled, starting, page, calls, uiVars, troubles, source,
                   origin>>

\* A command that will call the backend about the claim g; invoker is the
\* task whose timer invoked cancel_scraper_task, or NoTask for the user.
Call(kind, g, from, invoker) ==
    [kind |-> kind, grant |-> g, page |-> from, invoker |-> invoker]

Internal == -1    \* not invoked by the dashboard

Makes(c) ==
    /\ Cardinality(calls) < MaxCalls
    /\ calls' = calls \cup {c}

\* Mutant of StartBegins: the task stays in handled_results.
StartBegins_KeepsHandled(x) ==
    /\ x \in starting
    /\ x.progress = "spawned"
    /\ starting' = (starting \ {x}) \cup {Closing(x.grant)}
    /\ active' = x.grant
    /\ watch' = Watching(x.grant.task)
    /\ UNCHANGED <<vars, handled, page, calls, cancels, handler, dropped, away,
                   troubles, source, origin>>

\* The spawned task begins: it becomes the active task.
StartBegins(x) ==
    /\ x \in starting
    /\ x.progress = "spawned"
    /\ starting' = (starting \ {x}) \cup {Closing(x.grant)}
    /\ active' = x.grant
    /\ handled' = handled \ {x.grant.task}
    /\ watch' = Watching(x.grant.task)
    /\ UNCHANGED <<vars, page, calls, cancels, handler, dropped, away, troubles,
                   source, origin>>

\* The old window is closed and the page opened ...
StartOpens(x) ==
    /\ x \in starting
    /\ x.progress = "closing"
    /\ starting' = starting \ {x}
    /\ page' = x.grant
    /\ UNCHANGED <<vars, active, handled, calls, uiVars, troubles, source, origin>>

\* ... or the url does not parse: the daemon reports, the task stays active ...
StartInvalid(x) ==
    /\ x \in starting
    /\ x.progress = "closing"
    /\ starting' = starting \ {x}
    /\ page' = NoGrant
    /\ calls' = calls \cup {Call("report", x.grant, NoGrant, Internal)}
    /\ UNCHANGED <<vars, active, handled, uiVars, troubles, source, origin>>

\* ... or the old window does not close, or the new one cannot be built.
StartFails(x) ==
    /\ x \in starting
    /\ x.progress = "closing"
    /\ starting' = starting \ {x}
    /\ page' \in {page, NoGrant}
    /\ active' = NoGrant
    /\ calls' = calls \cup {Call("report", x.grant, NoGrant, Internal)}
    /\ UNCHANGED <<vars, handled, uiVars, troubles, source, origin>>

-----------------------------------------------------------------------------
(***************************************************************************)
(* Commands, up to their call of the backend.                              *)
(***************************************************************************)
\* Mutants of IsActive: the task of the page is not compared; nothing is.
IsActive_Any(t) == active # NoGrant
IsActive_Always(t) == TRUE

\* The active task is the one that is reported about.
IsActive(t) == active # NoGrant /\ active.task = t

\* handle_scraped_data: only the first report of a task counts; if the task is
\* not active its window is closed.
PageData ==
    /\ page # NoGrant
    /\ page.task \notin handled
    /\ handled' = handled \cup {page.task}
    /\ watch' = Unwatched(page.task)
    /\ IF IsActive(page.task)
       THEN Makes(Call("data", active, page, Internal)) /\ page' = page
       ELSE calls' = calls /\ page' = NoGrant
    /\ UNCHANGED <<vars, active, starting, cancels, handler, dropped, away,
                   troubles, source, origin>>

\* handle_scraper_auth
PageAuth ==
    /\ page # NoGrant
    /\ IF IsActive(page.task)
       THEN Makes(Call("auth", active, page, Internal)) /\ watch' = watch
       ELSE calls' = calls /\ watch' = Unwatched(page.task)
    /\ UNCHANGED <<vars, active, handled, starting, page, cancels, handler, dropped,
                   away, troubles, source, origin>>

\* A page that logs too much is closed: emit_kill_log_and_result.
PageFloods ==
    /\ page # NoGrant
    /\ active # NoGrant
    /\ page' = NoGrant
    /\ watch' = Unwatched(active.task)
    /\ Makes(Call("stop", active, NoGrant, Internal))
    /\ UNCHANGED <<vars, active, handled, starting, cancels, handler, dropped, away,
                   troubles, source, origin>>

\* cancel_scraper_task stops whatever task is active when it begins.
Cancel(invoker) ==
    /\ invoker \in cancels
    /\ cancels' = cancels \ {invoker}
    /\ page' = NoGrant
    /\ watch' = IF active # NoGrant THEN Unwatched(active.task)
                ELSE IF invoker # NoTask THEN Unwatched(invoker) ELSE watch
    /\ IF active # NoGrant
       THEN calls' = calls \cup {Call("stop", active, NoGrant, invoker)}
       ELSE calls' = calls
    /\ UNCHANGED <<vars, active, handled, starting, handler, dropped, away,
                   troubles, source, origin>>

\* promote_active_scraper_to_foreground for the retry of a source, whose answer
\* changes nothing on the page, or for handleShowScraperWindow, which awaits it.
\* Without an active task it does nothing.
Promote ==
    /\ active # NoGrant
    /\ \/ /\ ~away
          /\ Trouble
          /\ handler' = handler
          /\ Makes(Call("promote", active, NoGrant, Internal))
       \/ /\ Pressed("show")
          /\ Makes(Call("promote", active, NoGrant, NoTask))
    /\ UNCHANGED <<vars, active, handled, starting, page, watch, cancels, dropped,
                   away, source, origin>>

-----------------------------------------------------------------------------
(***************************************************************************)
(* Commands, from their call of the backend on.                            *)
(***************************************************************************)
Report(c) == IF c.kind = "data" THEN CompleteTask(c.grant) ELSE FailTask(c.grant)

CanReport(c) == IF c.kind = "data" THEN CanComplete(c.grant) ELSE CanFail(c.grant)

\* A report that comes twice, or of an older attempt, changes nothing, but is
\* answered as accepted.
IsRepeated(c) ==
    /\ c.grant.task \in DOMAIN tasks
    /\ \/ tasks[c.grant.task].status = "completed"
       \/ c.kind # "data" /\ tasks[c.grant.task].status = "failed"
       \/ tasks[c.grant.task].attempt # c.grant.attempt

\* promote clears the queue of the source if its report is not accepted.
AfterRefusal(c) ==
    IF c.kind = "promote" /\ ~IsRepeated(c)
    THEN ClearActiveTasks({origin[c.grant.task]})
    ELSE UNCHANGED vars

\* The report is taken, refused, or lost on one of its ways.
Answered(c) ==
    \/ Report(c) /\ troubles' = troubles
    \/ ~CanReport(c) /\ AfterRefusal(c) /\ troubles' = troubles
    \/ Trouble /\ (Report(c) \/ AfterRefusal(c))


\* clear_active_task, whatever is active by now; a start has cleared before.
LeftActive(c) == IF c.kind = "report" THEN active ELSE NoGrant

\* The window a command closes at its end: the one of the page, or any
LeftPage(c) ==
    IF c.kind \in {"auth", "promote"} \/ c.page = page THEN NoGrant ELSE page

\* scraper_result, the hand-off, or the end of the timer's invocation
LeftWatch(c) ==
    IF c.kind = "data" THEN Unwatched(c.page.task)
    ELSE IF c.kind = "auth" \/ c.invoker = c.grant.task THEN Unwatched(c.grant.task)
    ELSE Unwatched(c.invoker)

Finish(c) ==
    /\ c \in calls
    /\ Answered(c)
    /\ calls' = calls \ {c}
    /\ active' = LeftActive(c)
    /\ page' = LeftPage(c)
    /\ watch' = LeftWatch(c)
    /\ source' = IF accepted' # accepted
                 THEN [source EXCEPT ![c.grant.task] = c.page]
                 ELSE source
    /\ UNCHANGED <<handled, starting, cancels, handler, dropped, away, origin>>

-----------------------------------------------------------------------------
\* The rest of the backend: flows ask for scrapes, and the retry of a source in
\* the foreground clears what the queue has of it when it was not promoted.
Backend ==
    /\ \/ /\ \E slot \in Slots, config \in Configs : UpsertPendingTask(slot, config)
          /\ troubles' = troubles
       \/ /\ \E s \in Sources : ClearActiveTasks({s})
          /\ ~away
          /\ Trouble
    /\ UNCHANGED <<active, handled, starting, page, calls, watch, cancels, handler,
                   dropped, away, source, origin>>

\* The time of a lease is long for a start, and for a call of the backend that
\* is on the same machine.
Clock ==
    /\ TimePasses
    /\ \A x \in starting : x.progress # "spawned"
    /\ IF starting = {} /\ calls = {}
       THEN troubles' = troubles
       ELSE Trouble
    /\ UNCHANGED <<active, handled, starting, page, calls, uiVars, source, origin>>

DaemonNext ==
    \/ Claim \/ Heartbeat
    \/ \E x \in starting :
          StartBegins(x) \/ StartOpens(x) \/ StartInvalid(x) \/ StartFails(x)
    \/ PageData \/ PageAuth \/ PageFloods
    \/ TimerFires \/ Skip \/ SkipNothing \/ HandlerGoesOn \/ LeaveDashboard
    \/ \E invoker \in cancels : Cancel(invoker)
    \/ Promote
    \/ \E c \in calls : Finish(c)
    \/ Backend \/ Clock

DaemonSpec == DaemonInit /\ [][DaemonNext]_daemonVars

\* The threads of the daemon, its starts and commands run, the timer of the
\* dashboard fires, time passes.  Pages and users may do nothing.
DaemonFairness ==
    /\ WF_daemonVars(Claim)
    /\ WF_daemonVars(\E x \in starting :
          StartBegins(x) \/ StartOpens(x) \/ StartInvalid(x) \/ StartFails(x))
    /\ WF_daemonVars(\E c \in calls : Finish(c))
    /\ WF_daemonVars(TimerFires)
    /\ WF_daemonVars(\E invoker \in cancels : Cancel(invoker))
    /\ WF_daemonVars(HandlerGoesOn)
    /\ WF_daemonVars(Clock)

DaemonFairSpec == DaemonSpec /\ DaemonFairness

-----------------------------------------------------------------------------
\* Every variable stays in its range.
DaemonTypeOK ==
    /\ TypeOK
    /\ {active, page} \subseteq grants \cup {NoGrant}
    /\ handled \subseteq TaskIds
    /\ starting \subseteq [grant : grants, progress : {"spawned", "closing"}]
    /\ calls \subseteq [kind : {"data", "auth", "stop", "promote", "report"},
                        grant : grants, page : grants \cup {NoGrant},
                        invoker : TaskIds \cup {NoTask, Internal}]
    /\ watch \in [task : TaskIds \cup {NoTask}, timer : {"idle", "armed", "fired"}]
    /\ cancels \subseteq TaskIds \cup {NoTask}
    /\ handler \in {"no", "skip", "cancel", "clear", "cleared", "show"}
    /\ dropped \subseteq grants
    /\ source \in [TaskIds -> grants \cup {NoGrant}]

\* The result of a task comes from a page that was opened for this task: data
\* that arrives late from an older window never becomes the result of the
\* task that is active by now.
ResultFromPageOfTask ==
    \A t \in TaskIds : source[t] # NoGrant => source[t].task = t

\* The deduplication never swallows the data of a task in progress: if the
\* active task was already reported about, the command is on its way.
ActiveTaskIsHeard ==
    active # NoGrant /\ active.task \in handled =>
        \E c \in calls : c.kind = "data" /\ c.page.task = active.task

\* The timeout of the active task is gone: with the dashboard, or with a handler
\* (skip, clear, show) that returned when this task had been claimed already.
Unguarded == away \/ active \in dropped



\* The daemon keeps claiming: no task stays pending, whether the dashboard is
\* open or not.
KeepsClaiming ==
    \A t \in TaskIds :
        (t \in DOMAIN tasks /\ tasks[t].status = "pending")
            ~> (t \notin DOMAIN tasks \/ tasks[t].status # "pending")

=============================================================================
