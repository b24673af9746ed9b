----------------------------- MODULE LiveState -----------------------------
(***************************************************************************)
(* What changes in the backend and the daemon while the dashboard is open, *)
(* and the two places that show it: the tasks of the scraper, the panel    *)
(* with the active one, and the rows of the sources.  The panel depends on *)
(* the daemon only through its active task, its queue and its events, and  *)
(* a row on the backend only through the record of its source; each has    *)
(* these in an abstract form of its own.  A behaviour therefore follows    *)
(* one of the three, while the others rest.                                *)
(***************************************************************************)
EXTENDS ScraperDaemon, ScraperPanel, SourcesPanel

VARIABLE side       \* the one that is followed

liveVars == <<side, daemonVars, panelVars, rowVars>>

LiveInit ==
    /\ side \in {"tasks", "panel", "rows"}
    /\ DaemonInit
    /\ PanelInit
    /\ SourcesPanelInit

LiveNext ==
    /\ side' = side
    /\ \/ side = "tasks" /\ DaemonNext /\ UNCHANGED <<panelVars, rowVars>>
       \/ side = "panel" /\ PanelNext /\ UNCHANGED <<daemonVars, rowVars>>
       \/ side = "rows" /\ SourcesPanelNext /\ UNCHANGED <<daemonVars, panelVars>>

\* What is fair on the side that is followed
Tasks(action) == side = "tasks" /\ action

LiveFairness ==
    /\ WF_daemonVars(Tasks(Claim))
    /\ WF_daemonVars(Tasks(\E x \in starting :
          StartBegins(x) \/ StartOpens(x) \/ StartInvalid(x) \/ StartFails(x)))
    /\ WF_daemonVars(Tasks(\E c \in calls : Finish(c)))
    /\ WF_daemonVars(Tasks(TimerFires))
    /\ WF_daemonVars(Tasks(\E invoker \in cancels : Cancel(invoker)))
    /\ WF_daemonVars(Tasks(HandlerGoesOn))
    /\ WF_daemonVars(Tasks(Clock))
    /\ WF_panelVars(side = "panel" /\ Syncs)
    /\ WF_rowVars(side = "rows" /\ ListsCome)

LiveSpec == LiveInit /\ [][LiveNext]_liveVars /\ LiveFairness

-----------------------------------------------------------------------------
\* Every variable of the daemon, of its tasks, of the panel and of the rows
\* stays in its range.
LiveTypeOK == DaemonTypeOK /\ PanelTypeOK /\ SourcesPanelTypeOK

=============================================================================
