-------------------------- MODULE Frontend_proofs --------------------------
(***************************************************************************)
(* Proofs about the frontend as a whole, for any parameters: the dialog    *)
(* and the start of the application, and that what every part keeps by     *)
(* itself is kept when all of them take their steps in one behaviour.      *)
(***************************************************************************)
EXTENDS Frontend, Pages_proofs, Widgets_proofs, Templates_proofs

-----------------------------------------------------------------------------
(***************************************************************************)
(* The dialog.  A request is of the source the dialog was open for, and    *)
(* carries what the sources asked for when it was answered.                *)
(***************************************************************************)
FlowCalls == [op : {"interact", "authorize", "verify", "callback", "auth", "poll"},
              source : FlowSources, payload : DOMAIN Payloads,
              at : {"sent", "ok", "failed", "pending", "code", "device", "client"},
              seen : Asking]

FlowInv ==
    /\ inTauri \in BOOLEAN
    /\ asks \in Asking /\ listed \in Asking
    /\ fetching \subseteq FlowSources /\ tokens \subseteq FlowSources
    /\ popups \subseteq FlowSources /\ channels \subseteq FlowSources
    /\ {dialog, device} \subseteq FlowSources \cup {NoSource}
    /\ flowCalls \subseteq FlowCalls

LEMMA FlowInvTyped == FlowInv => FlowTypeOK
BY DEF FlowInv, FlowTypeOK, FlowCalls

LEMMA FlowInitInv == FlowInit => FlowInv
BY DEF FlowInit, FlowInv, Asking, Steps

LEMMA FlowCallIs ==
    ASSUME NEW op \in {"interact", "authorize", "verify", "callback", "auth", "poll"},
           NEW s \in FlowSources, NEW payload \in DOMAIN Payloads
    PROVE  FlowCall(op, s, payload) \in FlowCalls
BY DEF FlowCall, FlowCalls, NothingAsked, Asking

\* Nothing is a payload.
LEMMA NoneIs == "none" \in DOMAIN Payloads
BY DEF Payloads

LEMMA CheckIs ==
    ASSUME NEW s \in FlowSources, NEW step
    PROVE  Check(s, step) \subseteq FlowCalls
BY FlowCallIs, NoneIs DEF Check

LEMMA ResetKeeps ==
    ASSUME NEW calls \in SUBSET FlowCalls, Reset(calls)
    PROVE  device' = NoSource /\ flowCalls' \subseteq FlowCalls
BY DEF Reset

\* The backend answers a request.
LEMMA HandledKeeps ==
    ASSUME FlowInv, NEW c, FlowHandled(c)
    PROVE  FlowInv'
<1>1. /\ c \in flowCalls /\ c.at = "sent"
      /\ UNCHANGED <<inTauri, listed, dialog, loading, device, popups, channels,
                   flowEvents>>
    BY DEF FlowHandled, dialogVars, oauthVars
<1>2. c \in FlowCalls /\ c.source \in FlowSources
    BY <1>1, SMTT(30) DEF FlowInv, FlowCalls
<1>3. /\ \A at \in {"ok", "failed", "pending", "code", "device", "client"} :
             [c EXCEPT !.at = at] \in FlowCalls
      /\ [c EXCEPT !.at = "ok", !.seen = asks] \in FlowCalls
    BY <1>2 DEF FlowInv, FlowCalls
<1>4. ASSUME Fetches(c.source)
      PROVE  asks' \in Asking /\ fetching' \subseteq FlowSources
    BY <1>2, <1>4 DEF Fetches, FlowInv, Asking
<1>5. CASE Interact(c)
    <2>1. flowCalls' \subseteq FlowCalls
        BY <1>3, <1>5 DEF Interact, FlowInv
    <2>2. asks' \in Asking /\ fetching' \subseteq FlowSources /\ tokens' = tokens
        BY <1>4, <1>5 DEF Interact, FlowInv
    <2>3. QED
        BY <1>1, <2>1, <2>2 DEF FlowInv
<1>6. ASSUME NEW flow, OAuthAuthorize(c, flow)
      PROVE  FlowInv'
    BY <1>1, <1>2, <1>3, <1>6 DEF OAuthAuthorize, FlowInv
<1>7. ASSUME NEW status, Authorized(c, status)
      PROVE  FlowInv'
    <2>1. status \in {"ok", "pending", "failed"}
        BY <1>7 DEF Authorized
    <2>2. asks' \in Asking /\ fetching' \subseteq FlowSources
        BY <1>4, <1>7 DEF Authorized, FlowInv
    <2>3. tokens' \subseteq FlowSources /\ flowCalls' \subseteq FlowCalls
        BY <1>2, <1>3, <1>7, <2>1 DEF Authorized, FlowInv
    <2>4. QED
        BY <1>1, <2>2, <2>3 DEF FlowInv
<1>8. CASE Query(c)
    <2>1. flowCalls' \subseteq FlowCalls
        BY <1>3, <1>8 DEF Query, FlowInv
    <2>2. QED
        BY <1>1, <1>8, <2>1 DEF Query, FlowInv
<1>9. c.op \in {"interact", "authorize", "verify", "callback", "auth", "poll"}
    BY <1>2 DEF FlowCalls
<1>10. QED
    BY <1>5, <1>6, <1>7, <1>8, <1>9 DEF FlowHandled

\* The page takes an answer.
LEMMA AnsweredKeeps ==
    ASSUME FlowInv, NEW c, FlowAnswered(c)
    PROVE  FlowInv'
<1>1. c \in FlowCalls /\ c.source \in FlowSources /\ flowCalls \ {c} \subseteq FlowCalls
    BY DEF FlowAnswered, FlowInv, FlowCalls
<1>2. /\ popups' \subseteq FlowSources /\ channels' \subseteq FlowSources
      /\ UNCHANGED <<inTauri, asks, fetching, tokens, listed>>
    BY <1>1 DEF FlowAnswered, FlowInv
<1>3. {dialog', device'} \subseteq FlowSources \cup {NoSource} /\ flowCalls' \subseteq FlowCalls
    <2>1. CASE Succeeded(c)
        BY <1>1, <2>1, ResetKeeps DEF FlowAnswered, Close
    <2>2. CASE ~Succeeded(c)
        BY <1>1, <2>2 DEF FlowAnswered, FlowInv
    <2>3. QED
        BY <2>1, <2>2
<1>4. QED
    BY <1>2, <1>3 DEF FlowInv

LEMMA FlowNextInv == FlowInv /\ [FlowNext]_flowVars => FlowInv'
<1> SUFFICES ASSUME FlowInv, [FlowNext]_flowVars PROVE FlowInv'
    OBVIOUS
<1>1. ASSUME NEW s \in FlowSources, NEW step \in Steps \cup {NoStep}, Suspend(s, step)
      PROVE  FlowInv'
    BY <1>1 DEF Suspend, FlowInv, Asking, dialogVars, oauthVars
<1>2. ASSUME NEW s \in FlowSources, RefreshSuspended(s)
      PROVE  FlowInv'
    BY <1>2 DEF RefreshSuspended, Fetches, FlowInv, Asking, dialogVars, oauthVars
<1>3. ASSUME NEW s \in FlowSources, Relist(s)
      PROVE  FlowInv'
    <2>1. listed' \in Asking
        BY <1>3, SMTT(30) DEF Relist, FlowInv, Asking
    <2>2. device' \in FlowSources \cup {NoSource} /\ flowCalls' \subseteq FlowCalls
        <3>1. flowCalls \cup Check(s, asks[s]) \subseteq FlowCalls
            BY CheckIs, SMTT(30) DEF FlowInv
        <3>2. QED
            BY <1>3, <3>1, ResetKeeps DEF Relist, FlowInv
    <2>3. QED
        BY <1>3, <2>1, <2>2 DEF Relist, FlowInv, oauthVars
<1>4. ASSUME NEW s \in FlowSources, OpenDialog(s)
      PROVE  FlowInv'
    <2>1. flowCalls \cup Check(s, listed[s]) \subseteq FlowCalls
        BY CheckIs, SMTT(30) DEF FlowInv
    <2>2. device' = NoSource /\ flowCalls' \subseteq FlowCalls
        BY <1>4, <2>1, ResetKeeps DEF OpenDialog
    <2>3. QED
        BY <1>4, <2>2 DEF OpenDialog, FlowInv, oauthVars
<1>5. ASSUME NEW s \in FlowSources, HandleCallback(s)
      PROVE  FlowInv'
    <2>1. FlowCall("callback", s, "none") \in FlowCalls
        BY FlowCallIs, NoneIs
    <2>2. QED
        BY <1>5, <2>1 DEF HandleCallback, FlowInv, dialogVars
<1>6. CASE CloseDialog
    BY <1>6, ResetKeeps DEF CloseDialog, Close, FlowInv, oauthVars
<1>7. dialog # NoSource => dialog \in FlowSources
    BY DEF FlowInv
<1>8. dialog # NoSource => /\ \A op \in {"authorize", "verify", "auth", "poll"} :
                                   FlowCall(op, dialog, "none") \in FlowCalls
                           /\ \A payload \in DOMAIN Payloads :
                                   FlowCall("interact", dialog, payload) \in FlowCalls
    BY <1>7, FlowCallIs, NoneIs
<1>9. CASE Submits
    BY <1>8, <1>9 DEF Submits, CanSubmit, Enabled, FlowInv, oauthVars
<1>10. CASE HandleOAuthStart
    BY <1>7, <1>8, <1>10 DEF HandleOAuthStart, CanAuthorize, Enabled, FlowInv
<1>11. CASE PollDeviceToken
    BY <1>8, <1>11 DEF PollDeviceToken, CanVerify, Enabled, FlowInv, dialogVars, oauthVars
<1>12. CASE CheckSourceState
    BY <1>8, <1>12 DEF CheckSourceState, FlowInv, dialogVars, oauthVars
<1>13. CASE PollAuthStatus
    BY <1>8, <1>13 DEF PollAuthStatus, FlowInv, dialogVars, oauthVars
<1>14. CASE UNCHANGED flowVars
    BY <1>14 DEF flowVars, FlowInv, dialogVars, oauthVars
<1>15. QED
    BY <1>1, <1>2, <1>3, <1>4, <1>5, <1>6, <1>9, <1>10, <1>11, <1>12, <1>13, <1>14,
       HandledKeeps, AnsweredKeeps DEF FlowNext

\* Everything in the dialog stays of its type, whatever is clicked, answered late
\* or suspended anew.
THEOREM FlowTyped == FlowSpec => []FlowTypeOK
BY FlowInitInv, FlowNextInv, FlowInvTyped, PTL DEF FlowSpec

-----------------------------------------------------------------------------
(***************************************************************************)
(* The start.                                                              *)
(***************************************************************************)
Doings == {"nothing", "waiting", "resolving", "probing", "sleeping", "fetching",
           "connecting", "done"}

LEMMA ResolveKeeps ==
    ASSUME StartUpTypeOK, NEW callers, NEW d \in [Tasks -> Doings],
           ResolveApiBaseUrl(callers, d)
    PROVE  /\ base' \in {"none", "asked", "port"}
           /\ doing' \in [Tasks -> Doings]
           /\ url' \in [Tasks -> {"default", "port"}]
<1>1. \A t \in Tasks : Reaches[t] \in Doings
    BY DEF Tasks, Reaches, Doings
<1>2. CASE base = "port"
    BY <1>1, <1>2 DEF ResolveApiBaseUrl, StartUpTypeOK
<1>3. CASE base # "port"
    BY <1>3 DEF ResolveApiBaseUrl, StartUpTypeOK, Doings
<1>4. QED
    BY <1>2, <1>3

LEMMA WaitsKeeps ==
    ASSUME StartUpTypeOK, NEW d \in [Tasks -> Doings], Waits(d)
    PROVE  /\ base' \in {"none", "asked", "port"}
           /\ doing' \in [Tasks -> Doings]
           /\ url' \in [Tasks -> {"default", "port"}]
<1>1. CASE doing["wait"] = "nothing"
    BY <1>1, ResolveKeeps DEF Waits
<1>2. CASE doing["wait"] # "nothing"
    BY <1>2 DEF Waits, StartUpTypeOK
<1>3. QED
    BY <1>1, <1>2

LEMMA StartUpNextInv == StartUpTypeOK /\ [StartUpNext]_startVars => StartUpTypeOK'
<1> SUFFICES ASSUME StartUpTypeOK, [StartUpNext]_startVars PROVE StartUpTypeOK'
    OBVIOUS
<1> USE DEF Doings
<1>1. /\ up \in BOOLEAN /\ onDefaultPort \in BOOLEAN /\ ready \in BOOLEAN
      /\ gate \in {"begins", "waiting", "ready", "open", "error"}
      /\ base \in {"none", "asked", "port"}
      /\ doing \in [Tasks -> Doings] /\ url \in [Tasks -> {"default", "port"}]
    BY DEF StartUpTypeOK
<1>2. ASSUME up' \in BOOLEAN, onDefaultPort' \in BOOLEAN, ready' \in BOOLEAN,
             gate' \in {"begins", "waiting", "ready", "open", "error"},
             base' \in {"none", "asked", "port"},
             doing' \in [Tasks -> Doings], url' \in [Tasks -> {"default", "port"}]
      PROVE  StartUpTypeOK'
    BY <1>2 DEF StartUpTypeOK
<1> HIDE DEF Doings
<1>3. CASE GateWaits
    <2>1. CASE ready
        BY <1>1, <1>2, <1>3, <2>1 DEF GateWaits
    <2>2. CASE ~ready
        BY <1>1, <1>2, <1>3, <2>2, WaitsKeeps DEF GateWaits
    <2>3. QED
        BY <2>1, <2>2
<1>4. CASE GateOpens
    BY <1>1, <1>2, <1>4 DEF GateOpens
<1>5. CASE FetchSettings
    <2>1. [doing EXCEPT !["settings"] = "waiting"] \in [Tasks -> Doings]
        BY <1>1 DEF Doings
    <2>2. QED
        BY <1>1, <1>2, <1>5, <2>1, ResolveKeeps, WaitsKeeps DEF FetchSettings
<1>6. CASE SettingsFetched
    BY <1>1, <1>2, <1>6 DEF SettingsFetched, Doings
<1>7. CASE ConnectSourceUpdates
    BY <1>1, <1>2, <1>7, ResolveKeeps DEF ConnectSourceUpdates
<1>8. CASE StreamConnected
    BY <1>1, <1>2, <1>8 DEF StreamConnected, Doings
<1>9. CASE ProbeAnswered
    <2>1. /\ [doing EXCEPT !["wait"] = "nothing"] \in [Tasks -> Doings]
          /\ [doing EXCEPT !["wait"] = "sleeping"] \in [Tasks -> Doings]
        BY <1>1 DEF Doings
    <2>2. CASE Reachable(url["wait"])
        <3>1. /\ base' \in {"none", "asked", "port"}
              /\ doing' \in [Tasks -> Doings] /\ url' \in [Tasks -> {"default", "port"}]
            BY <1>9, <2>1, <2>2, ResolveKeeps DEF ProbeAnswered
        <3>2. QED
            BY <1>1, <1>2, <1>9, <2>2, <3>1 DEF ProbeAnswered
    <2>3. CASE ~Reachable(url["wait"])
        BY <1>1, <1>2, <1>9, <2>1, <2>3 DEF ProbeAnswered
    <2>4. QED
        BY <2>2, <2>3
<1>10. CASE WaitGoesOn
    BY <1>1, <1>2, <1>10, ResolveKeeps DEF WaitGoesOn
<1>11. CASE WaitTimesOut
    <2>1. doing' \in [Tasks -> Doings]
        BY <1>1, <1>11 DEF WaitTimesOut, AfterTimeout, Doings
    <2>2. QED
        BY <1>1, <1>2, <1>11, <2>1 DEF WaitTimesOut
<1>12. ASSUME NEW failed \in BOOLEAN, PortAnswered(failed)
       PROVE  StartUpTypeOK'
    <2>1. \A t \in Tasks : Reaches[t] \in Doings
        BY DEF Tasks, Reaches, Doings
    <2>2. doing' \in [Tasks -> Doings] /\ url' \in [Tasks -> {"default", "port"}]
        BY <1>1, <1>12, <2>1 DEF PortAnswered
    <2>3. QED
        BY <1>1, <1>2, <1>12, <2>2 DEF PortAnswered
<1>13. CASE BackendStarts \/ BackendStops
    BY <1>1, <1>2, <1>13 DEF BackendStarts, BackendStops
<1>14. CASE UNCHANGED startVars
    BY <1>1, <1>2, <1>14 DEF startVars
<1>15. QED
    BY <1>3, <1>4, <1>5, <1>6, <1>7, <1>8, <1>9, <1>10, <1>11, <1>12, <1>13, <1>14
       DEF StartUpNext, Starts

-----------------------------------------------------------------------------
(***************************************************************************)
(* The parts together.  Each keeps its own invariant, whether it is the    *)
(* one that is followed or one that rests.                                 *)
(***************************************************************************)
FrontendInv ==
    /\ focus \in Parts
    /\ IInv /\ ViewsInv /\ ViewsTyped /\ FlowInv /\ EditorInv /\ SettingsInv
    /\ GridInv /\ ExpressionInvariant /\ WidgetsInv /\ ChartsInv /\ TabsInv
    /\ UpdateInv /\ StartUpTypeOK /\ PickerInv

LEMMA FrontendInitInv == FrontendInit => FrontendInv
<1> SUFFICES ASSUME FrontendInit PROVE FrontendInv
    OBVIOUS
<1>1. /\ focus \in Parts
      /\ Init /\ ViewsInit /\ FlowInit /\ PageInit /\ SettingsInit /\ GridInit
      /\ ExpressionInit /\ WidgetsInit /\ ChartsInit /\ TabsInit /\ UpdateInit
      /\ StartUpInit /\ PickerInit
    BY DEF FrontendInit
<1>2. StartUpTypeOK
    BY <1>1 DEF StartUpInit, StartUpTypeOK
<1>3. QED
    BY <1>1, <1>2, StreamInitInv, ViewsInitInv, ViewsInitTyped, FlowInitInv,
       EditorInitInv, SettingsInitInv, GridInitInv, ExpressionInitInv, WidgetsInitInv,
       ChartsInitInv, TabsInitInv, UpdateInitInv, PickerInitInv DEF FrontendInv

\* A step is one of the part that is followed, and leaves the others alone.
StepOfEach ==
    /\ [Next]_vars /\ [ViewsNext]_viewVars /\ [FlowNext]_flowVars
    /\ [PageNext]_pageVars /\ [SettingsNext]_settingsVars /\ [GridNext]_gridVars
    /\ [Grow]_expressionVars /\ [WidgetsNext]_widgetVars /\ [AddRow]_chartVars
    /\ [TabsNext]_tabVars /\ [UpdateNext]_updateVars /\ [StartUpNext]_startVars
    /\ [PickerNext]_pickerVars

LEMMA StepIsOfOne ==
    ASSUME [FrontendNext]_frontendVars
    PROVE  focus' = focus /\ StepOfEach
<1>1. CASE UNCHANGED frontendVars
    BY <1>1 DEF frontendVars, StepOfEach
<1>2. CASE On("stream", Next)
    BY <1>2 DEF On, Rest, StepOfEach
<1>3. CASE On("views", ViewsNext)
    BY <1>3 DEF On, Rest, StepOfEach
<1>4. CASE On("dialog", FlowNext)
    BY <1>4 DEF On, Rest, StepOfEach
<1>5. CASE On("editor", PageNext)
    BY <1>5 DEF On, Rest, StepOfEach
<1>6. CASE On("settings", SettingsNext)
    BY <1>6 DEF On, Rest, StepOfEach
<1>7. CASE On("layout", GridNext)
    BY <1>7 DEF On, Rest, StepOfEach
<1>8. CASE On("templates", Grow)
    BY <1>8 DEF On, Rest, StepOfEach
<1>9. CASE On("widgets", WidgetsNext)
    BY <1>9 DEF On, Rest, StepOfEach
<1>10. CASE On("charts", AddRow)
    BY <1>10 DEF On, Rest, StepOfEach
<1>11. CASE On("tabs", TabsNext)
    BY <1>11 DEF On, Rest, StepOfEach
<1>12. CASE On("update", UpdateNext)
    BY <1>12 DEF On, Rest, StepOfEach
<1>13. CASE On("startup", StartUpNext)
    BY <1>13 DEF On, Rest, StepOfEach
<1>14. CASE On("adding", PickerNext)
    BY <1>14 DEF On, Rest, StepOfEach
<1>15. QED
    BY <1>1, <1>2, <1>3, <1>4, <1>5, <1>6, <1>7, <1>8, <1>9, <1>10, <1>11, <1>12, <1>13,
       <1>14 DEF FrontendNext

LEMMA FrontendNextInv == FrontendInv /\ [FrontendNext]_frontendVars => FrontendInv'
<1> SUFFICES ASSUME FrontendInv, [FrontendNext]_frontendVars PROVE FrontendInv'
    OBVIOUS
<1>1. focus' = focus /\ StepOfEach
    BY StepIsOfOne
<1>2. focus' \in Parts
    BY <1>1 DEF FrontendInv, Parts
<1>3. IInv' /\ ViewsInv' /\ ViewsTyped' /\ FlowInv'
    BY <1>1, StreamNextInv, ViewsNextInv, ViewsNextTyped, FlowNextInv
       DEF FrontendInv, StepOfEach
<1>4. EditorInv' /\ SettingsInv' /\ GridInv' /\ ExpressionInvariant'
    BY <1>1, EditorNextInv, SettingsNextInv, GridNextInv, ExpressionNextInv
       DEF FrontendInv, StepOfEach
<1>5. WidgetsInv' /\ ChartsInv' /\ TabsInv'
    BY <1>1, WidgetsNextInv, ChartsNextInv, TabsNextInv DEF FrontendInv, StepOfEach
<1>6. UpdateInv' /\ StartUpTypeOK' /\ PickerInv'
    BY <1>1, UpdateNextInv, StartUpNextInv, PickerNextInv DEF FrontendInv, StepOfEach
<1>7. QED
    BY <1>2, <1>3, <1>4, <1>5, <1>6 DEF FrontendInv

\* In every reachable state every part has its invariant, whichever is followed.
THEOREM FrontendInvariant == FrontendSpec => []FrontendInv
BY FrontendInitInv, FrontendNextInv, PTL DEF FrontendSpec

\* Every variable of every part stays in its range, for any parameters: what the
\* pages keep of requests, the positions of widgets, the orders of views, the
\* phases of an update and of the start.
THEOREM FrontendTyped == FrontendSpec => []FrontendTypeOK
<1>1. FrontendInv => FrontendTypeOK
    BY StreamInvTyped, ViewsTypedOK, FlowInvTyped, EditorInvTyped, SettingsInvTyped,
       GridInvTyped, WidgetsInvTyped, ChartsInvTyped, TabsInvTyped, UpdateInvTyped,
       PickerInvTyped
       DEF FrontendInv, FrontendTypeOK
<1>2. QED
    BY <1>1, FrontendInvariant, PTL

\* What each part promises holds for all of them at once, in one behaviour of the
\* frontend: the stream hands every event over once, no edit of a view or file is
\* lost, the settings agree, widgets stay apart, templates mean what is written,
\* cards and charts show their data, the chosen view is shown, an update is done
\* as it was asked for, and a widget is of its source.
THEOREM FrontendSafe ==
    FrontendSpec => [](/\ HandedOverOnce /\ NoEditLost /\ EditorKeepsFiles
                       /\ SettingsAgree /\ GridLegal /\ ParsesAsWritten
                       /\ CardShowsData /\ ChartsShowRows /\ ShownIsChosen
                       /\ UpdateAsAsked /\ WidgetOfItsSource)
<1>1. FrontendInv => /\ HandedOverOnce /\ NoEditLost /\ EditorKeepsFiles
                     /\ SettingsAgree /\ GridLegal /\ ParsesAsWritten
                     /\ CardShowsData /\ ChartsShowRows /\ ShownIsChosen
                     /\ UpdateAsAsked /\ WidgetOfItsSource
    BY OrderHandsOver, ViewsInvKeeps, EditorInvKeeps, SettingsInvAgrees, GridInvLegal,
       ExpressionIsParsed, WidgetsInvShows, ChartsInvShows, TabsInvShows,
       UpdateInvAsked, PickerInvAdds DEF FrontendInv
<1>2. QED
    BY <1>1, FrontendInvariant, PTL

=============================================================================
