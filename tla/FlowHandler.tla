---------------------------- MODULE FlowHandler ----------------------------
(***************************************************************************)
(* The dialog in which a suspended source is answered,                     *)
(* ui-react/src/components/auth/FlowHandler.tsx, opened by Dashboard.tsx,  *)
(* and the endpoints of core/api.py it calls: what a source asks for may   *)
(* change, and dialogs open and close, while requests are under way.       *)
(*                                                                         *)
(* A source asks for the fields of a form, for a decision, or for an OAuth *)
(* authorization.  Two forms of a source may have fields of the same keys. *)
(*                                                                         *)
(* The dialog is that of the web page, or of the desktop.  There the       *)
(* provider is shown by the system's browser, whose messages do not reach  *)
(* it, and the dashboard is rendered anew at every snapshot of the scraper *)
(* queue (1.5 s), which sets the poll of 2 s anew.  The list of the page   *)
(* is brought up to date in one step; SourceUpdateCoordinator has more.    *)
(*                                                                         *)
(* Left out: scraping, which is handed to the queue of the scraper; texts  *)
(* of errors; sources that are deleted; credentials that are typed into    *)
(* the dialog of an authorization, whose request is always refused; a      *)
(* second press of Verify.                                                 *)
(***************************************************************************)
EXTENDS Naturals, FiniteSets

CONSTANTS
    FlowSources,
    NoSource,
    MaxFlowEvents       \* bound: suspensions, refreshes, clicks of the user

ASSUME FlowAssumption == NoSource \notin FlowSources
ASSUME FlowBounds == MaxFlowEvents \in Nat

VARIABLES
    inTauri,    \* the dialog is the one of the desktop
    asks,       \* backend: the step a suspended source waits for
    fetching,   \* backend: sources being fetched
    tokens,     \* backend: sources with an OAuth token
    listed,     \* page: the step of every source in the list
    dialog,     \* page: the source the dialog is open for
    loading,    \* page: the buttons of the dialog are disabled
    device,     \* page: the source whose device code is shown
    flowCalls,  \* requests under way
    popups,     \* sources whose authorization page is open
    channels,   \* sources a BroadcastChannel is open for
    flowEvents

dialogVars == <<dialog, loading, device>>
oauthVars == <<popups, channels>>
flowVars == <<inTauri, asks, fetching, tokens, listed, dialogVars, flowCalls, oauthVars,
              flowEvents>>

Steps == {"form", "decision", "oauth"}
NoStep == "none"
Asking == [FlowSources -> Steps \cup {NoStep}]

\* The page may not know yet what a source asks for: it lists the form that came
\* first.
FlowInit ==
    /\ inTauri \in BOOLEAN
    /\ asks \in [FlowSources -> Steps]
    /\ listed = [s \in FlowSources |-> "form"]
    /\ fetching = {} /\ tokens = {}
    /\ dialog = NoSource /\ loading = FALSE /\ device = NoSource
    /\ flowCalls = {} /\ popups = {} /\ channels = {}
    /\ flowEvents = 0

FlowEvent == flowEvents < MaxFlowEvents /\ flowEvents' = flowEvents + 1

NothingAsked == [s \in FlowSources |-> NoStep]

\* A request for a source: what is sent with it, the list it answers
FlowCall(op, s, payload) ==
    [op |-> op, source |-> s, payload |-> payload, at |-> "sent",
     seen |-> NothingAsked]

\* The effects that check once, when a dialog shows an OAuth step
Check(s, step) == IF step = "oauth" THEN {FlowCall("verify", s, "none")} ELSE {}

\* resetFlowState; an answer to an auth-status poll is ignored after it.
Reset(calls) ==
    /\ loading' = FALSE
    /\ device' = NoSource
    /\ flowCalls' = {c \in calls : c.op # "auth"}

\* handleClose
Close(calls) == dialog' = NoSource /\ Reset(calls)

-----------------------------------------------------------------------------
(***************************************************************************)
(* The backend.                                                            *)
(***************************************************************************)
\* A fetch suspends, or ends.
Suspend(s, step) ==
    /\ s \in fetching
    /\ fetching' = fetching \ {s}
    /\ step = "oauth" => s \notin tokens
    /\ IF step = NoStep THEN flowEvents' = flowEvents ELSE FlowEvent
    /\ asks' = [asks EXCEPT ![s] = step]
    /\ UNCHANGED <<inTauri, tokens, listed, dialogVars, flowCalls, oauthVars>>

\* What is set before a fetch is started: the interaction is gone.
Fetches(s) ==
    /\ asks' = [asks EXCEPT ![s] = NoStep]
    /\ fetching' = fetching \cup {s}

\* A manual refresh of a suspended source
RefreshSuspended(s) ==
    /\ asks[s] # NoStep
    /\ FlowEvent
    /\ Fetches(s)
    /\ UNCHANGED <<inTauri, tokens, listed, dialogVars, flowCalls, oauthVars>>

\* What a payload may contain for the pending step: only keys of it are allowed,
\* but none is required, and a decision names its target.
Payloads == [fields |-> {"form"}, nothing |-> {"form", "decision"},
             decision |-> {"decision"}, none |-> {}]

\* _validate_interaction_source_binding and _validate_interaction_payload_keys,
\* which do not compare the step a payload was entered for
Accepts(c) == asks[c.source] \in Payloads[c.payload]

\* interact_source; the keys may be those of another form, and the request or
\* its answer may be lost.
Interact(c) ==
    /\ \E at \in {"ok", "failed"} :
          /\ flowCalls' = (flowCalls \ {c}) \cup {[c EXCEPT !.at = at]}
          /\ \/ Accepts(c) /\ Fetches(c.source)
             \/ at = "failed" /\ UNCHANGED <<asks, fetching>>
    /\ tokens' = tokens

\* oauth_authorize: what the source needs is a browser, a device code, or
\* nothing; nobody resumes a source that was given its token at once.
OAuthAuthorize(c, flow) ==
    /\ flow \in {"code", "device", "client", "failed"}
    /\ tokens' = IF flow = "client" THEN tokens \cup {c.source} ELSE tokens
    /\ flowCalls' = (flowCalls \ {c}) \cup {[c EXCEPT !.at = flow]}
    /\ UNCHANGED <<asks, fetching>>

\* oauth_device_poll, oauth_device_status, oauth_callback_interact: with the
\* token the source is fetched, by a device only if it waits for it.
Authorized(c, status) ==
    /\ status \in IF c.op = "callback" THEN {"ok", "failed"} ELSE {"ok", "pending", "failed"}
    /\ IF status = "ok" /\ (c.op = "callback" \/ asks[c.source] = "oauth")
       THEN Fetches(c.source)
       ELSE UNCHANGED <<asks, fetching>>
    /\ tokens' = IF status = "ok" THEN tokens \cup {c.source} ELSE tokens
    /\ flowCalls' = (flowCalls \ {c}) \cup {[c EXCEPT !.at = status]}

\* get_auth_status, list_sources
Query(c) ==
    /\ flowCalls' = (flowCalls \ {c}) \cup
          {IF c.op = "poll" THEN [c EXCEPT !.at = "ok", !.seen = asks]
           ELSE [c EXCEPT !.at = IF c.source \in tokens THEN "ok" ELSE "failed"]}
    /\ UNCHANGED <<asks, fetching, tokens>>

FlowHandled(c) ==
    /\ c \in flowCalls /\ c.at = "sent"
    /\ CASE c.op = "interact" -> Interact(c)
         [] c.op = "authorize" ->
                \E flow \in {"code", "device", "client", "failed"} : OAuthAuthorize(c, flow)
         [] c.op \in {"verify", "callback"} ->
                \E status \in {"ok", "pending", "failed"} : Authorized(c, status)
         [] c.op \in {"auth", "poll"} -> Query(c)
    /\ UNCHANGED <<inTauri, listed, dialogVars, oauthVars, flowEvents>>

-----------------------------------------------------------------------------
(***************************************************************************)
(* The page.                                                               *)
(***************************************************************************)
\* The list is brought up to date; another step resets its dialog.
Relist(s) ==
    /\ listed[s] # asks[s]
    /\ listed' = [listed EXCEPT ![s] = asks[s]]
    /\ IF dialog = s THEN Reset(flowCalls \cup Check(s, asks[s]))
       ELSE UNCHANGED <<loading, device, flowCalls>>
    /\ UNCHANGED <<inTauri, asks, fetching, tokens, dialog, oauthVars, flowEvents>>

OpenDialog(s) ==
    /\ dialog = NoSource
    /\ listed[s] # NoStep
    /\ FlowEvent
    /\ dialog' = s
    /\ Reset(flowCalls \cup Check(s, listed[s]))
    /\ UNCHANGED <<inTauri, asks, fetching, tokens, listed, oauthVars>>

CloseDialog ==
    /\ dialog # NoSource
    /\ Close(flowCalls)
    /\ UNCHANGED <<inTauri, asks, fetching, tokens, listed, oauthVars, flowEvents>>

\* The buttons: to submit, to authorize, to verify a device
Enabled(steps) == dialog # NoSource /\ ~loading /\ listed[dialog] \in steps
CanSubmit == Enabled({"form", "decision"})
CanAuthorize == Enabled({"oauth"})
CanVerify == Enabled({"oauth"}) /\ device # NoSource

\* handleSubmit and submitTrustDecision
Submits ==
    /\ CanSubmit
    /\ FlowEvent
    /\ loading' = TRUE
    /\ \E payload \in DOMAIN Payloads :
          /\ listed[dialog] = IF payload = "decision" THEN "decision" ELSE "form"
          /\ payload # "none"
          /\ flowCalls' = flowCalls \cup {FlowCall("interact", dialog, payload)}
    /\ UNCHANGED <<inTauri, asks, fetching, tokens, listed, dialog, device,
                   oauthVars>>

\* handleOAuthStart up to its first await
HandleOAuthStart ==
    /\ CanAuthorize
    /\ FlowEvent
    /\ loading' = TRUE
    /\ channels' = IF inTauri THEN channels ELSE channels \cup {dialog}
    /\ flowCalls' = flowCalls \cup {FlowCall("authorize", dialog, "none")}
    /\ UNCHANGED <<inTauri, asks, fetching, tokens, listed, dialog, device, popups>>

\* pollDeviceToken
PollDeviceToken ==
    /\ CanVerify
    /\ FlowEvent
    /\ flowCalls' = flowCalls \cup {FlowCall("verify", dialog, "none")}
    /\ UNCHANGED <<inTauri, asks, fetching, tokens, listed, dialogVars, oauthVars>>

\* The ticks of the two polls
CheckSourceState ==
    /\ dialog # NoSource
    /\ \A c \in flowCalls : c.op # "poll"
    /\ flowCalls' = flowCalls \cup {FlowCall("poll", dialog, "none")}
    /\ UNCHANGED <<inTauri, asks, fetching, tokens, listed, dialogVars, oauthVars,
                   flowEvents>>

PollAuthStatus ==
    /\ dialog # NoSource /\ loading
    /\ listed[dialog] = "oauth"
    /\ \A c \in flowCalls : c.op # "auth"
    /\ flowCalls' = flowCalls \cup {FlowCall("auth", dialog, "none")}
    /\ UNCHANGED <<inTauri, asks, fetching, tokens, listed, dialogVars, oauthVars,
                   flowEvents>>

\* OAuthCallback: the page of the provider comes back.
HandleCallback(s) ==
    /\ s \in popups
    /\ popups' = popups \ {s}
    /\ flowCalls' = flowCalls \cup {FlowCall("callback", s, "none")}
    /\ UNCHANGED <<inTauri, asks, fetching, tokens, listed, dialogVars, channels,
                   flowEvents>>

\* Mutant of Moved: the dialog of a source that asks for nothing is not closed.
Moved_Steps(seen) == seen[dialog] \in Steps \ {listed[dialog]}

\* The step the dialog was opened for follows the list.
Moved(seen) == seen[dialog] \in {NoStep} \cup (Steps \ {listed[dialog]})

\* A success closes the dialog, whichever it is by now.
Succeeded(c) ==
    \/ c.op \in {"interact", "verify", "auth"} /\ c.at = "ok"
    \/ c.op = "authorize" /\ c.at = "client"
    \/ c.op = "callback" /\ c.at = "ok" /\ c.source \in channels
    \/ c.op = "poll" /\ dialog # NoSource /\ Moved(c.seen)

FlowAnswered(c) ==
    LET calls == flowCalls \ {c} IN
    /\ c \in flowCalls /\ c.at # "sent"
    /\ IF Succeeded(c) THEN Close(calls)
       ELSE /\ dialog' = dialog
            /\ loading' = (loading /\ ~(c.op \in {"interact", "authorize"} /\ c.at # "code"))
            /\ device' = IF c.at \in {"device", "pending"} THEN c.source ELSE device
            /\ flowCalls' = IF loading' = loading THEN calls ELSE {d \in calls : d.op # "auth"}
    /\ popups' = IF c.at = "code" THEN popups \cup {c.source} ELSE popups
    /\ channels' = IF (c.op = "authorize" /\ c.at # "code") \/ (c.op = "callback" /\ c.at = "ok")
                   THEN channels \ {c.source} ELSE channels
    /\ UNCHANGED <<inTauri, asks, fetching, tokens, listed, flowEvents>>

FlowNext ==
    \/ \E s \in FlowSources :
          \/ \E step \in Steps \cup {NoStep} : Suspend(s, step)
          \/ RefreshSuspended(s) \/ Relist(s) \/ OpenDialog(s) \/ HandleCallback(s)
    \/ CloseDialog \/ Submits \/ HandleOAuthStart \/ PollDeviceToken
    \/ CheckSourceState \/ PollAuthStatus
    \/ \E c \in flowCalls : FlowHandled(c) \/ FlowAnswered(c)

\* A poll of the dialog fires and is answered.
Settles(op) == \E c \in flowCalls : c.op = op /\ (FlowHandled(c) \/ FlowAnswered(c))

Polled == CheckSourceState \/ Settles("poll")

AuthPolled == PollAuthStatus \/ Settles("auth")

ListPolled == \E s \in FlowSources : Relist(s)

\* The dashboard polls its list, and the dialog the authorization it waits for, at
\* once whenever it is rendered.  Its other poll fires on the web page only.
FlowFairness ==
    /\ WF_flowVars(ListPolled)
    /\ WF_flowVars(AuthPolled)
    /\ WF_flowVars(~inTauri /\ Polled)

FlowSpec == FlowInit /\ [][FlowNext]_flowVars /\ FlowFairness

-----------------------------------------------------------------------------
FlowTypeOK ==
    /\ inTauri \in BOOLEAN
    /\ asks \in Asking /\ listed \in Asking
    /\ fetching \subseteq FlowSources /\ tokens \subseteq FlowSources
    /\ popups \subseteq FlowSources /\ channels \subseteq FlowSources
    /\ {dialog, device} \subseteq FlowSources \cup {NoSource}
    /\ \A c \in flowCalls : c.source \in FlowSources /\ c.seen \in Asking

\* The dialog shows the step its source waits for
ShowsPending == listed[dialog] = asks[dialog] /\ (inTauri \/ asks[dialog] # NoStep)

\* It waits for an authorization that was given
WaitsInVain == loading /\ listed[dialog] = "oauth" /\ dialog \in tokens

\* A dialog follows its source, whichever answers and messages are late or lost: it
\* closes, or comes to show the step its source waits for; on the web page it does
\* not stay open for a source that waits for nothing; and it does not wait for an
\* authorization that was given elsewhere, as in the browser beside the desktop.
DialogFollowsSource ==
    []<>(dialog = NoSource \/ (ShowsPending /\ ~WaitsInVain))

=============================================================================
