------------------------------ MODULE AppUpdate ------------------------------
(***************************************************************************)
(* The update of the application (pages/Settings.tsx): a check, a          *)
(* download that the user may cancel, the installation and the restart,    *)
(* each awaited by one call of handleCheckUpdates.                         *)
(*                                                                         *)
(* The call belongs to the mount of the page it was started in: when the   *)
(* user leaves the page it goes on, and the next mount knows nothing of    *)
(* it.  The refs of a mount change at once, its state is seen by the       *)
(* handlers of its buttons when the page is rendered again.  The updater   *)
(* is external: every step may fail, also because its resource was closed. *)
(***************************************************************************)
EXTENDS Naturals

CONSTANTS
    Mounts,             \* mounts of the page
    NoMount,
    MaxChunks,          \* bound: events of a download
    MaxUpdateClicks     \* bound: what the user does

ASSUME MountsAssumption == NoMount \notin Mounts
ASSUME UpdateBounds == {MaxChunks, MaxUpdateClicks} \subseteq Nat

VARIABLES
    mount,          \* the mount that is on the screen
    entered,        \* the mounts there have been
    update,         \* what a mount's call awaits, its refs, and its history
    updateState,    \* the state of a mount
    updateShown,    \* the state its buttons were rendered with
    updateClicks

updateVars == <<mount, entered, update, updateState, updateShown, updateClicks>>

Awaited == {"nothing", "checking", "downloading", "installing", "restarting"}
Phases == {"idle", "checking", "downloading", "installing", "restarting", "cancelled"}

\* asked: when the user cancelled the call, a history
NoUpdate == [awaits |-> "nothing", cancel |-> FALSE, asked |-> "never"]
InitialState == [phase |-> "idle", checking |-> FALSE, requested |-> FALSE, chunks |-> 0]

UpdateInit ==
    /\ mount = NoMount
    /\ entered = {}
    /\ update = [m \in Mounts |-> NoUpdate]
    /\ updateState = [m \in Mounts |-> InitialState]
    /\ updateShown = InitialState
    /\ updateClicks = 0

UpdateClick == updateClicks < MaxUpdateClicks /\ updateClicks' = updateClicks + 1

-----------------------------------------------------------------------------
EnterAbout(m) ==
    /\ mount = NoMount /\ m \notin entered
    /\ mount' = m
    /\ entered' = entered \cup {m}
    /\ updateShown' = InitialState
    /\ UNCHANGED <<update, updateState, updateClicks>>

LeaveAbout ==
    /\ mount # NoMount
    /\ UpdateClick
    /\ mount' = NoMount
    /\ UNCHANGED <<entered, update, updateState, updateShown>>

RenderUpdate ==
    /\ mount # NoMount
    /\ updateShown # updateState[mount]
    /\ updateShown' = updateState[mount]
    /\ UNCHANGED <<mount, entered, update, updateState, updateClicks>>

\* handleCheckUpdates up to its first await; what a click changes is rendered at
\* once.
HandleCheckUpdates ==
    /\ mount # NoMount /\ ~updateShown.checking
    /\ UpdateClick
    /\ update' = [update EXCEPT ![mount] = [NoUpdate EXCEPT !.awaits = "checking"]]
    /\ updateState' = [updateState EXCEPT ![mount] =
                          [InitialState EXCEPT !.phase = "checking", !.checking = TRUE]]
    /\ updateShown' = updateState'[mount]
    /\ UNCHANGED <<mount, entered>>

\* handleCancelUpdate
HandleCancelUpdate ==
    /\ mount # NoMount
    /\ updateShown.checking /\ ~updateShown.requested /\ updateShown.phase = "downloading"
    /\ UpdateClick
    /\ update' = [update EXCEPT ![mount].cancel = TRUE,
                                ![mount].asked = CASE update[mount].awaits = "downloading" -> "early"
                                                   [] update[mount].awaits = "nothing" -> @
                                                   [] OTHER -> "late"]
    /\ updateState' = [updateState EXCEPT ![mount].requested = TRUE]
    /\ updateShown' = [updateShown EXCEPT !.requested = TRUE]
    /\ UNCHANGED <<mount, entered>>

-----------------------------------------------------------------------------
\* The call ends: its finally block
Over(m, phase) ==
    /\ update' = [update EXCEPT ![m].awaits = "nothing", ![m].cancel = FALSE]
    /\ updateState' = [updateState EXCEPT ![m] =
                          [InitialState EXCEPT !.phase = phase,
                                               !.chunks = IF phase = "idle" THEN 0
                                                          ELSE updateState[m].chunks]]

\* Mutant of Proceeds: the call asks the state it was started with.
Proceeds_Closure(m, phase) ==
    /\ update' = [update EXCEPT ![m].awaits = phase]
    /\ updateState' = [updateState EXCEPT ![m].phase = phase]

\* After an await that succeeded: the next phase, unless the user cancelled
Proceeds(m, phase) ==
    IF update[m].cancel THEN Over(m, "cancelled")
    ELSE /\ update' = [update EXCEPT ![m].awaits = phase]
         /\ updateState' = [updateState EXCEPT ![m].phase = phase]

\* check: no update, one, or an error
CheckAnswered(m, answer) ==
    /\ update[m].awaits = "checking"
    /\ IF answer = "update" THEN Proceeds(m, "downloading") ELSE Over(m, "idle")
    /\ UNCHANGED <<mount, entered, updateShown, updateClicks>>

DownloadEvent(m) ==
    /\ update[m].awaits = "downloading"
    /\ ~update[m].cancel
    /\ updateState[m].chunks < MaxChunks
    /\ updateState' = [updateState EXCEPT ![m].chunks = @ + 1]
    /\ UNCHANGED <<mount, entered, update, updateShown, updateClicks>>

DownloadEnded(m, failed) ==
    /\ update[m].awaits = "downloading"
    /\ IF failed THEN Over(m, "idle") ELSE Proceeds(m, "installing")
    /\ UNCHANGED <<mount, entered, updateShown, updateClicks>>

InstallEnded(m, failed) ==
    /\ update[m].awaits = "installing"
    /\ IF failed THEN Over(m, "idle") ELSE Proceeds(m, "restarting")
    /\ UNCHANGED <<mount, entered, updateShown, updateClicks>>

\* relaunch_app ends the program, and every call with it, or fails.
RelaunchAnswered(m, failed) ==
    /\ update[m].awaits = "restarting"
    /\ IF failed
       THEN Over(m, "idle") /\ UNCHANGED <<mount, updateShown>>
       ELSE /\ mount' = NoMount
            /\ update' = [o \in Mounts |-> NoUpdate]
            /\ updateState' = [o \in Mounts |-> InitialState]
            /\ updateShown' = InitialState
    /\ UNCHANGED <<entered, updateClicks>>

UpdateNext ==
    \/ RenderUpdate \/ HandleCheckUpdates \/ HandleCancelUpdate \/ LeaveAbout
    \/ \E m \in Mounts :
          \/ EnterAbout(m) \/ DownloadEvent(m)
          \/ \E answer \in {"none", "update", "error"} : CheckAnswered(m, answer)
          \/ \E failed \in BOOLEAN :
                DownloadEnded(m, failed) \/ InstallEnded(m, failed) \/ RelaunchAnswered(m, failed)

UpdateSpec == UpdateInit /\ [][UpdateNext]_updateVars

-----------------------------------------------------------------------------
UpdateTypeOK ==
    /\ mount \in Mounts \cup {NoMount} /\ entered \subseteq Mounts
    /\ update \in [Mounts -> [awaits : Awaited, cancel : BOOLEAN,
                             asked : {"never", "early", "late"}]]
    /\ updateState \in [Mounts -> [phase : Phases, checking : BOOLEAN, requested : BOOLEAN,
                                  chunks : 0..MaxChunks]]

\* A call that was cancelled while it downloads, whatever was rendered then and
\* whatever the download does afterwards, never installs and never restarts the
\* program; one that says it was cancelled was, in this very call; and the page
\* offers another check, or says that it cancels, just while that is the case.
UpdateAsAsked ==
    \A m \in Mounts :
        LET call == update[m]
            state == updateState[m]
        IN  /\ call.asked = "early" => call.awaits \notin {"installing", "restarting"}
            /\ state.phase = "cancelled" => call.asked # "never"
            /\ state.checking <=> call.awaits # "nothing"
            /\ state.checking => state.requested = call.cancel

=============================================================================
