------------------------------- MODULE StartUp -------------------------------
(***************************************************************************)
(* The start of the application: the gate of App.tsx waits until the       *)
(* backend answers, while the settings are requested already, and the      *)
(* dashboard connects to the stream of updates when it is let in.  They    *)
(* share one wait (ensureBackendReady) and one question for the port of    *)
(* the backend (resolveApiBaseUrl), both in api/client.ts.                 *)
(*                                                                         *)
(* What follows an answer without waiting is one step.  SWR is external:   *)
(* it asks again for settings it could not get.                            *)
(***************************************************************************)
EXTENDS Naturals

CONSTANTS
    MaxPortFailures,    \* bound: questions for the port that fail
    MaxOutages          \* bound: how often the backend goes away

ASSUME StartUpBounds == {MaxPortFailures, MaxOutages} \subseteq Nat

VARIABLES
    up,             \* the backend answers
    onDefaultPort,  \* it has the port the client takes by default
    base,           \* tauriResolvedBaseUrl, and whether its answer is kept
    ready,          \* backendReady
    gate,           \* App
    doing,          \* what the shared wait, the settings and the stream do
    url,            \* the url each of them works with
    troubles        \* counts failures and outages

startVars == <<up, onDefaultPort, base, ready, gate, doing, url, troubles>>

Tasks == {"wait", "settings", "stream"}

\* Where each task goes when it has its url
Reaches == [wait |-> "probing", settings |-> "fetching", stream |-> "connecting"]

Reachable(u) == up /\ (u = "port" \/ onDefaultPort)

StartUpInit ==
    /\ up = FALSE
    /\ onDefaultPort \in BOOLEAN
    /\ base = "none"
    /\ ready = FALSE
    /\ gate = "begins"
    /\ doing = [t \in Tasks |-> "nothing"]
    /\ url = [t \in Tasks |-> "default"]
    /\ troubles = [port |-> 0, outages |-> 0]

-----------------------------------------------------------------------------
\* resolveApiBaseUrl, called by some tasks while others do what d says: the
\* answer is kept, or the question is asked, or is under way.
ResolveApiBaseUrl(callers, d) ==
    IF base = "port"
    THEN /\ doing' = [t \in Tasks |-> IF t \in callers THEN Reaches[t] ELSE d[t]]
         /\ url' = [t \in Tasks |-> IF t \in callers THEN "port" ELSE url[t]]
         /\ base' = base
    ELSE /\ doing' = [t \in Tasks |-> IF t \in callers THEN "resolving" ELSE d[t]]
         /\ url' = url
         /\ base' = IF callers = {} THEN base ELSE "asked"

\* get_runtime_port_info: a failure is not kept, but who waits for the answer
\* works with the default.
PortAnswered(failed) ==
    /\ base = "asked"
    /\ failed => troubles.port < MaxPortFailures
    /\ base' = IF failed THEN "none" ELSE "port"
    /\ doing' = [t \in Tasks |-> IF doing[t] = "resolving" THEN Reaches[t] ELSE doing[t]]
    /\ url' = [t \in Tasks |-> IF doing[t] = "resolving"
                               THEN IF failed THEN "default" ELSE "port"
                               ELSE url[t]]
    /\ troubles' = [troubles EXCEPT !.port = IF failed THEN @ + 1 ELSE @]
    /\ UNCHANGED <<up, onDefaultPort, ready, gate>>

\* ensureBackendReady when the backend is not known to be ready: the first
\* caller begins the wait, the others join it.
Waits(d) ==
    IF doing["wait"] = "nothing" THEN ResolveApiBaseUrl({"wait"}, d)
    ELSE doing' = d /\ UNCHANGED <<url, base>>

-----------------------------------------------------------------------------
\* The effect of App, and its retry: an effect that is over does not count.
GateWaits ==
    /\ gate \in {"begins", "error"}
    /\ IF ready
       THEN gate' = "ready" /\ UNCHANGED <<doing, url, base>>
       ELSE gate' = "waiting" /\ Waits(doing)
    /\ UNCHANGED <<up, onDefaultPort, ready, troubles>>

\* The timer that ends the progress bar
GateOpens ==
    /\ gate = "ready"
    /\ gate' = "open"
    /\ UNCHANGED <<up, onDefaultPort, base, ready, doing, url, troubles>>

\* getSettings, asked for and asked for again
FetchSettings ==
    /\ doing["settings"] = "nothing"
    /\ IF ready THEN ResolveApiBaseUrl({"settings"}, doing)
       ELSE Waits([doing EXCEPT !["settings"] = "waiting"])
    /\ UNCHANGED <<up, onDefaultPort, ready, gate, troubles>>

SettingsFetched ==
    /\ doing["settings"] = "fetching"
    /\ doing' = [doing EXCEPT !["settings"] =
                    IF Reachable(url["settings"]) THEN "done" ELSE "nothing"]
    /\ UNCHANGED <<up, onDefaultPort, base, ready, gate, url, troubles>>

\* connectSourceUpdates, which does not wait for the backend
ConnectSourceUpdates ==
    /\ gate = "open" /\ doing["stream"] = "nothing"
    /\ ResolveApiBaseUrl({"stream"}, doing)
    /\ UNCHANGED <<up, onDefaultPort, ready, gate, troubles>>

StreamConnected ==
    /\ doing["stream"] = "connecting"
    /\ doing' = [doing EXCEPT !["stream"] =
                    IF Reachable(url["stream"]) THEN "done" ELSE "nothing"]
    /\ UNCHANGED <<up, onDefaultPort, base, ready, gate, url, troubles>>

-----------------------------------------------------------------------------
\* probeBackend, which a backend that is up answers in time: everyone who waits
\* goes on, the settings to their request.
ProbeAnswered ==
    /\ doing["wait"] = "probing"
    /\ IF Reachable(url["wait"])
       THEN /\ ready' = TRUE
            /\ gate' = IF gate = "waiting" THEN "ready" ELSE gate
            /\ ResolveApiBaseUrl({t \in {"settings"} : doing[t] = "waiting"},
                                 [doing EXCEPT !["wait"] = "nothing"])
       ELSE /\ doing' = [doing EXCEPT !["wait"] = "sleeping"]
            /\ UNCHANGED <<ready, gate, url, base>>
    /\ UNCHANGED <<up, onDefaultPort, troubles>>

WaitGoesOn ==
    /\ doing["wait"] = "sleeping"
    /\ ResolveApiBaseUrl({"wait"}, doing)
    /\ UNCHANGED <<up, onDefaultPort, ready, gate, troubles>>

\* Mutant of AfterTimeout: the failed promise is kept, and nothing begins a new
\* wait.
AfterTimeout_Kept == "failed"

\* The finally of ensureBackendReady
AfterTimeout == "nothing"

\* The deadline has passed: everyone who waits fails.
WaitTimesOut ==
    /\ doing["wait"] = "sleeping"
    /\ gate' = IF gate = "waiting" THEN "error" ELSE gate
    /\ doing' = [doing EXCEPT !["wait"] = AfterTimeout,
                              !["settings"] = IF @ = "waiting" THEN "nothing" ELSE @]
    /\ UNCHANGED <<up, onDefaultPort, base, ready, url, troubles>>

-----------------------------------------------------------------------------
BackendStarts ==
    /\ ~up /\ up' = TRUE
    /\ UNCHANGED <<onDefaultPort, base, ready, gate, doing, url, troubles>>

\* The stream and the settings that were read are lost with the backend; who
\* asks then is told in the modules of the pages.
BackendStops ==
    /\ up /\ troubles.outages < MaxOutages
    /\ up' = FALSE
    /\ troubles' = [troubles EXCEPT !.outages = @ + 1]
    /\ UNCHANGED <<onDefaultPort, base, ready, gate, doing, url>>

\* What happens without the user and without the backend
Starts ==
    \/ gate = "begins" /\ GateWaits
    \/ GateOpens \/ FetchSettings \/ SettingsFetched
    \/ ConnectSourceUpdates \/ StreamConnected
    \/ ProbeAnswered \/ WaitGoesOn \/ WaitTimesOut
    \/ \E failed \in BOOLEAN : PortAnswered(failed)

StartUpNext == Starts \/ GateWaits \/ BackendStarts \/ BackendStops

StartUpSpec == StartUpInit /\ [][StartUpNext]_startVars /\ WF_startVars(Starts)

-----------------------------------------------------------------------------
StartUpTypeOK ==
    /\ {up, onDefaultPort, ready} \subseteq BOOLEAN
    /\ base \in {"none", "asked", "port"}
    /\ gate \in {"begins", "waiting", "ready", "open", "error"}
    /\ doing \in [Tasks -> {"nothing", "waiting", "resolving", "probing", "sleeping",
                            "fetching", "connecting", "done"}]
    /\ url \in [Tasks -> {"default", "port"}]

\* Whatever failed before, once the backend stays up and the user does not leave
\* the error on the screen, the application opens, has its settings and is
\* connected: neither a failed wait nor a failed question for the port is shared
\* with those who ask later.
StartUpFinishes ==
    <>[]up /\ []<>(gate # "error") =>
        <>[](gate = "open" /\ doing["settings"] = "done" /\ doing["stream"] = "done")

=============================================================================
