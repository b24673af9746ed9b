---------------------------- MODULE ScraperPanel ----------------------------
(***************************************************************************)
(* What the dashboard shows of the scraper, ui-react/src/hooks/            *)
(* useScraper.ts: the active task and the queue, kept up to date by        *)
(* lifecycle events and by snapshots that are taken at most every 500 ms,  *)
(* and its commands, which write the same fields when they return.         *)
(*                                                                         *)
(* The daemon of scraper.rs is here only what the panel can see of it: it  *)
(* announces the end of a task first and clears it afterwards.  A task     *)
(* stands for its source; a snapshot is read in one step; events arrive    *)
(* when they are emitted.                                                  *)
(*                                                                         *)
(* Left out: logs, skippedScrapers, the posting of results; what the       *)
(* window in the foreground reports; the timeout, which is in              *)
(* ScraperDaemon.                                                          *)
(***************************************************************************)
EXTENDS Naturals

CONSTANTS
    MaxScrapes,         \* bound: tasks
    MaxPanelEvents      \* bound: commands, and snapshots that fail

ASSUME PanelBounds == {MaxScrapes, MaxPanelEvents} \subseteq Nat

VARIABLES
    waiting,    \* backend: tasks that are pending or running
    working,    \* scraper.rs: the active task, 0 for none
    asked,      \* number of tasks there were
    endings,    \* scraper.rs: ends of tasks that are announced, not done
    shown,      \* page: activeScraper, activeTaskIdRef and queueSourceIds
    sync,       \* page: the refs of queueSync..., and the throttle
    panelCommands,  \* commands under way
    panelEvents

panelVars == <<waiting, working, asked, endings, shown, sync,
               panelCommands, panelEvents>>

Scrapes == 1..MaxScrapes
Nothing == 0
Unknown == MaxScrapes + 1     \* the id cancel_scraper_task announces for no task
Snapshot == [active |-> working, queue |-> waiting]
NoSnapshot == [active |-> Nothing, queue |-> {}]

PanelInit ==
    /\ waiting = {} /\ working = Nothing /\ asked = 0
    /\ endings = {}
    /\ shown = [active |-> Nothing, task |-> Nothing, queue |-> {}]
    /\ sync = [flight |-> "no", answer |-> NoSnapshot, pending |-> FALSE,
               recent |-> FALSE, timer |-> "none"]
    /\ panelCommands = {}
    /\ panelEvents = 0

PanelEvent == panelEvents < MaxPanelEvents /\ panelEvents' = panelEvents + 1

-----------------------------------------------------------------------------
(***************************************************************************)
(* Snapshots.                                                              *)
(***************************************************************************)
\* scheduleTrailingQueueSnapshotSync
Scheduled(s) == [s EXCEPT !.timer = IF @ = "none" THEN "set" ELSE @]

\* runQueueSnapshotSync up to its await
Run(s) ==
    IF s.flight # "no" THEN [s EXCEPT !.pending = TRUE]
    ELSE [s EXCEPT !.flight = "asked", !.recent = TRUE]

\* requestQueueSnapshotSync
Requested(s) ==
    IF ~s.recent THEN Run(s) ELSE Scheduled([s EXCEPT !.pending = TRUE])

\* Mutant of Landed: a snapshot that fails is still under way.
Landed_IfAnswered(s) ==
    IF s.flight = "failed" THEN s ELSE [s EXCEPT !.flight = "no", !.answer = NoSnapshot]

\* The finally of runQueueSnapshotSync
Landed(s) == [s EXCEPT !.flight = "no", !.answer = NoSnapshot]

\* and what it does for a request that came meanwhile
Repeated(s) ==
    IF s.flight # "no" \/ ~s.pending THEN s
    ELSE IF ~s.recent THEN Run([s EXCEPT !.pending = FALSE])
    ELSE Scheduled(s)

-----------------------------------------------------------------------------
(***************************************************************************)
(* Events.                                                                 *)
(***************************************************************************)
\* An event of another task than the one that is followed
Stale(t) == shown.task # Nothing /\ t # shown.task

Quiet == [shown EXCEPT !.active = Nothing, !.task = Nothing]

\* The listener of scraper_lifecycle_log: task_claimed, or a terminal stage
HearsStage(stage, t) ==
    IF stage = "claimed"
    THEN /\ shown' = [shown EXCEPT !.active = t, !.task = t]
         /\ sync' = Requested(sync)
    ELSE IF Stale(t) THEN UNCHANGED <<shown, sync>>
    ELSE shown' = Quiet /\ sync' = Requested(sync)

\* The listeners of scraper_result, and of scraper_auth_required, which keeps
\* its task
HearsEnd(event, t) ==
    /\ shown' = IF Stale(t) THEN shown
                ELSE IF event = "auth" THEN [Quiet EXCEPT !.task = t] ELSE Quiet
    /\ sync' = sync

-----------------------------------------------------------------------------
(***************************************************************************)
(* The backend and the daemon.                                             *)
(***************************************************************************)
ScrapeAsked ==
    /\ asked < MaxScrapes
    /\ asked' = asked + 1
    /\ waiting' = waiting \cup {asked + 1}
    /\ UNCHANGED <<working, endings, shown, sync, panelCommands, panelEvents>>

ScrapeClaimed(t) ==
    /\ working = Nothing
    /\ t \in waiting /\ \A e \in endings : e.task # t
    /\ working' = t
    /\ HearsStage("claimed", t)
    /\ UNCHANGED <<waiting, asked, endings, panelCommands, panelEvents>>

\* Data of the page, too many logs, or a page that asks for a login
ScrapeEnds(event) ==
    /\ working # Nothing /\ \A e \in endings : e.task # working
    /\ event \in {"result", "auth"}
    /\ endings' = endings \cup {[task |-> working, event |-> event]}
    /\ HearsStage("ended", working)
    /\ UNCHANGED <<waiting, working, asked, panelCommands, panelEvents>>

\* The report, clear_active_task and the event that follows
ScrapeEnded(e) ==
    /\ e \in endings
    /\ endings' = endings \ {e}
    /\ waiting' = waiting \ {e.task}
    /\ working' = Nothing
    /\ HearsEnd(e.event, e.task)
    /\ UNCHANGED <<asked, panelCommands, panelEvents>>

-----------------------------------------------------------------------------
\* The interval of 1.5 s
SyncTick ==
    /\ sync' = Requested(sync)
    /\ UNCHANGED <<waiting, working, asked, endings, shown, panelCommands,
                   panelEvents>>

ThrottleOver ==
    /\ sync.recent
    /\ sync' = [sync EXCEPT !.recent = FALSE,
                            !.timer = IF @ = "set" THEN "due" ELSE @]
    /\ UNCHANGED <<waiting, working, asked, endings, shown, panelCommands,
                   panelEvents>>

TrailingSync ==
    /\ sync.timer = "due"
    /\ LET fired == [sync EXCEPT !.timer = "none"] IN
       sync' = IF fired.pending THEN Run([fired EXCEPT !.pending = FALSE]) ELSE fired
    /\ UNCHANGED <<waiting, working, asked, endings, shown, panelCommands,
                   panelEvents>>

\* get_scraper_queue_snapshot; the backend may not be reached.
TakeSnapshot(works) ==
    /\ sync.flight = "asked"
    /\ IF works
       THEN /\ sync' = [sync EXCEPT !.flight = "answered", !.answer = Snapshot]
            /\ panelEvents' = panelEvents
       ELSE sync' = [sync EXCEPT !.flight = "failed"] /\ PanelEvent
    /\ UNCHANGED <<waiting, working, asked, endings, shown, panelCommands>>

\* syncQueueSnapshotFromRust after its await, and what follows
SyncQueueSnapshotFromRust ==
    /\ sync.flight \in {"answered", "failed"}
    /\ shown' = IF sync.flight = "failed" THEN shown
                ELSE [shown EXCEPT !.active = sync.answer.active, !.queue = sync.answer.queue]
    /\ sync' = Repeated(Landed(sync))
    /\ UNCHANGED <<waiting, working, asked, endings, panelCommands, panelEvents>>

-----------------------------------------------------------------------------
(***************************************************************************)
(* Commands: what is invoked first, on which task, and what has become of  *)
(* it.                                                                     *)
(***************************************************************************)
Invoke(op, t, at) ==
    /\ PanelEvent
    /\ panelCommands' = panelCommands \cup {[op |-> op, task |-> t, at |-> at]}
    /\ UNCHANGED <<waiting, working, asked, endings, shown, sync>>

\* ScraperStatusBanner offers its commands while there is a task.
HasTask == shown.active # Nothing \/ shown.queue # {}

\* handleSkipScraper
HandleSkipScraper == shown.active # Nothing /\ Invoke("skip", Nothing, "cancel")

\* handleClearScraperQueue
HandleClearScraperQueue ==
    /\ HasTask
    /\ Invoke("clear", Nothing, IF shown.active = Nothing THEN "clear" ELSE "cancel")

\* handleShowScraperWindow
HandleShowScraperWindow == HasTask /\ Invoke("show", Nothing, "promote")

\* handlePushToQueue, in the foreground
HandlePushToQueue(t) == Invoke("push", t, "promote")

\* runGlobalRefresh and handleRefreshSource of the dashboard
RefreshCancels == shown.active # Nothing /\ Invoke("refresh", Nothing, "cancel")

Goes(c, next) == panelCommands' = (panelCommands \ {c}) \cup {next}
To(c, at) == [c EXCEPT !.at = at]

\* cancel_scraper_task: the active task, whichever it is, is announced ...
CancelBegins(c) ==
    /\ c \in panelCommands /\ c.at = "cancel"
    /\ Goes(c, [c EXCEPT !.task = working, !.at = "cancelling"])
    /\ HearsStage("ended", IF working = Nothing THEN Unknown ELSE working)
    /\ UNCHANGED <<waiting, working, asked, endings, panelEvents>>

\* ... and failed and cleared.
CancelEnds(c) ==
    /\ c \in panelCommands /\ c.at = "cancelling"
    /\ Goes(c, [c EXCEPT !.task = Nothing, !.at = IF c.op = "clear" THEN "clear" ELSE "done"])
    /\ waiting' = waiting \ {c.task}
    /\ working' = Nothing
    /\ UNCHANGED <<asked, endings, shown, sync, panelEvents>>

\* clear_scraper_queue, of one source or of all; no event tells of it.
ClearQueue(c) ==
    /\ c \in panelCommands /\ c.at = "clear"
    /\ waiting' = IF c.op = "push" THEN waiting \ {c.task} ELSE {}
    /\ IF c.op = "push" THEN panelCommands' = panelCommands \ {c} ELSE Goes(c, To(c, "done"))
    /\ UNCHANGED <<working, asked, endings, shown, sync, panelEvents>>

\* promote_active_scraper_to_foreground
PromoteActive(c) ==
    LET promoted == working # Nothing /\ c.task \in {Nothing, working} IN
    /\ c \in panelCommands /\ c.at = "promote"
    /\ waiting' = IF promoted THEN waiting \ {working} ELSE waiting
    /\ working' = IF promoted THEN Nothing ELSE working
    /\ IF c.op = "push" /\ ~promoted THEN Goes(c, To(c, "clear"))
       ELSE IF c.op = "show" /\ promoted THEN Goes(c, To(c, "done"))
       ELSE panelCommands' = panelCommands \ {c}
    /\ UNCHANGED <<asked, endings, shown, sync, panelEvents>>

\* What the handler writes when all it invoked has returned
CommandReturns(c) ==
    /\ c \in panelCommands /\ c.at = "done"
    /\ panelCommands' = panelCommands \ {c}
    /\ shown' = CASE c.op = "clear" -> [Quiet EXCEPT !.queue = {}]
                  [] c.op = "refresh" -> [shown EXCEPT !.active = Nothing]
                  [] OTHER -> Quiet
    /\ UNCHANGED <<waiting, working, asked, endings, sync, panelEvents>>

CommandGoes ==
    \E c \in panelCommands :
        \/ CancelBegins(c) \/ CancelEnds(c) \/ ClearQueue(c) \/ PromoteActive(c)
        \/ CommandReturns(c)

SyncGoes == TakeSnapshot(TRUE) \/ SyncQueueSnapshotFromRust

PanelNext ==
    \/ ScrapeAsked
    \/ \E t \in Scrapes : ScrapeClaimed(t) \/ HandlePushToQueue(t)
    \/ \E event \in {"result", "auth"} : ScrapeEnds(event)
    \/ \E e \in endings : ScrapeEnded(e)
    \/ SyncTick \/ ThrottleOver \/ TrailingSync
    \/ TakeSnapshot(FALSE) \/ SyncGoes
    \/ HandleSkipScraper \/ HandleClearScraperQueue \/ HandleShowScraperWindow
    \/ RefreshCancels
    \/ CommandGoes

\* The timers of the page fire and a snapshot that is asked for is answered.
\* Nothing is assumed of commands, or of tasks that have ended.
Syncs == SyncTick \/ ThrottleOver \/ TrailingSync \/ SyncGoes

PanelSpec == PanelInit /\ [][PanelNext]_panelVars /\ WF_panelVars(Syncs)

-----------------------------------------------------------------------------
PanelTypeOK ==
    /\ waiting \subseteq Scrapes
    /\ {working, shown.active, shown.task} \subseteq {Nothing} \cup Scrapes
    /\ shown.queue \subseteq Scrapes
    /\ sync.flight \in {"no", "asked", "answered", "failed"}
    /\ sync.timer \in {"none", "set", "due"}
    /\ {sync.pending, sync.recent} \subseteq BOOLEAN

\* Whatever commands that return late and events of tasks that are over write,
\* the panel ends up with the active task and the queue there really are.
PanelConverges == <>[](shown.active = working /\ shown.queue = waiting)

=============================================================================
