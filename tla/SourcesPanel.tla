---------------------------- MODULE SourcesPanel ----------------------------
(***************************************************************************)
(* What the dashboard says of a source, and what the user does with it:    *)
(* the record of the source in the backend, the row that the list of       *)
(* sources gives of it, the detail that is merged into that row            *)
(* (sourceUpdateCoordinator.ts), statuses that events and clicks write     *)
(* over it, and the badge, the pill and the counters that are drawn.       *)
(*                                                                         *)
(* One source.  Texts are there or not; a record with a status has a       *)
(* message, and the states of errors have one that is not empty.  When a   *)
(* detail is asked for and how often is in SourceUpdateCoordinator: here   *)
(* one request is under way at any time the row is there.  The scraper     *)
(* that a refresh cancels first is in ScraperPanel, the dialog of an       *)
(* interaction in FlowHandler.                                             *)
(***************************************************************************)
EXTENDS Naturals, Sequences, FiniteSets

CONSTANTS
    NoRow,          \* no source, or no detail of it
    MaxWrites,      \* bound: writes of the record
    MaxTold,        \* bound: events on their way
    MaxClicks       \* bound: what the user does, and restarts

ASSUME SourcesPanelBounds == {MaxWrites, MaxTold, MaxClicks} \subseteq Nat

VARIABLES
    record,     \* backend: the latest record of the source, or no source
    runtime,    \* backend: the state in the memory of the executor
    interval,   \* backend: the source has a refresh interval of its own
    row,        \* page: the source in the list
    detail,     \* page: its entry in dataMap
    lists,      \* lists of sources on their way to the page
    answer,     \* the answer of a detail request on its way
    told,       \* statuses of events on their way
    rowCalls,   \* requests of the page that have not reached the backend
    dialogs,    \* page: the error dialog, or the question before a deletion
    clicks

rowVars == <<record, runtime, interval, row, detail, lists, answer, told, rowCalls,
             dialogs, clicks>>

\* No record yet: the list has the default state, the detail no updated_at.
Unwritten == [status |-> "none", error |-> FALSE, interaction |-> FALSE,
          data |-> FALSE, updated |-> 0]
Forgotten == [status |-> "active", message |-> FALSE, interaction |-> FALSE]

-----------------------------------------------------------------------------
(***************************************************************************)
(* The backend.                                                            *)
(***************************************************************************)
\* set_state: an error stays with an error that brings no text of its own.
SetState(r, status, error, interaction) ==
    [r EXCEPT !.status = status,
              !.error = error \/ (@ /\ status = "error"),
              !.interaction = interaction,
              !.updated = @ + 1]

\* list_sources, with the state in memory
ListRow(r, state) ==
    LET status == IF r.status = "none" THEN state.status ELSE r.status
        message == r.status # "none" \/ state.message
    IN  [status |-> status,
         message |-> message,
         error |-> r.error \/ (state.status = "error" /\ state.message),
         details |-> message /\ status = "error",
         interaction |-> r.interaction \/ state.interaction,
         data |-> r.data,
         updated |-> r.updated,
         interval |-> interval]

List == IF record = NoRow THEN NoRow ELSE ListRow(record, runtime)

-----------------------------------------------------------------------------
(***************************************************************************)
(* The page: rows.                                                         *)
(***************************************************************************)
\* Mutant of Merged: an error stays when the detail has none.
Merged_KeepsError(old, d) ==
    LET status == IF d.status = "none" THEN old.status ELSE d.status IN
    [old EXCEPT !.status = status,
                !.message = TRUE,
                !.error = @ \/ d.error,
                !.details = status = "error",
                !.interaction = d.interaction,
                !.data = @ \/ d.data,
                !.updated = IF d = Unwritten THEN @ ELSE d.updated]

\* mergeSummaryWithDetail: what the record has no field for is kept, unless the
\* status says that it is over.  A record of upsert alone has no state; the
\* answer for no record says that there is no data.
Merged(old, d) ==
    LET status == IF d.status = "none" THEN old.status ELSE d.status
        message == old.message \/ d.status # "none" \/ d = Unwritten
    IN  [old EXCEPT !.status = status,
                    !.message = message,
                    !.error = d.error \/ (@ /\ status = "error"),
                    !.details = status = "error" /\ (message \/ @),
                    !.interaction = IF d.status = "none"
                                    THEN @ /\ status \in {"error", "suspended"}
                                    ELSE d.interaction,
                    !.data = d.data \/ (@ /\ d # Unwritten),
                    !.updated = IF d = Unwritten THEN @ ELSE d.updated]

\* hasSourceError
HasSourceError(s, d) ==
    \/ s.error \/ s.details
    \/ s.message /\ s.status = "error"
    \/ d # NoRow /\ d.error

\* hasActionableInteraction
HasActionableInteraction(s) == s.interaction /\ s.status \in {"suspended", "error"}

\* getSourceErrorSummary has more to say than that the execution failed.
HasSummary(s, d) == s.error \/ s.message \/ (d # NoRow /\ d.error)

\* getStatusConfig
StatusConfig(s, d) ==
    CASE s.status = "refreshing" -> "refreshing"
      [] s.status = "suspended" -> "suspended"
      [] s.status = "error" /\ HasActionableInteraction(s) -> "needs_fix"
      [] OTHER -> IF HasSourceError(s, d) THEN "error"
                  ELSE IF s.data THEN "normal" ELSE "waiting"

\* What stands in the sidebar: a button for the interaction, one for the error,
\* or the badge
Badge(s, d) ==
    IF HasActionableInteraction(s)
    THEN IF s.status = "error" THEN "needs_fix" ELSE "suspended"
    ELSE IF HasSourceError(s, d) THEN "error" ELSE StatusConfig(s, d)

\* The pill of BaseSourceCard
Pill(s, d) ==
    CASE s.status = "refreshing" -> "info"
      [] s.status = "suspended" -> "warning"
      [] OTHER -> IF s.status = "error" \/ HasSourceError(s, d) THEN "error"
                  ELSE IF s.data THEN "success" ELSE "disabled"

\* The counters of the collapsed sidebar that count the source
Counters(s, d) ==
    LET idle == s.status \notin {"refreshing", "suspended"}
        error == HasSourceError(s, d)
    IN  {c \in {"refreshing", "suspended", "error", "normal", "waiting"} :
            CASE c = "error" -> idle /\ error
              [] c = "normal" -> idle /\ ~error /\ s.data
              [] c = "waiting" -> idle /\ ~error /\ ~s.data
              [] OTHER -> s.status = c}

-----------------------------------------------------------------------------
Click == clicks < MaxClicks /\ clicks' = clicks + 1

\* The bootstrap poll has arrived.
SourcesPanelInit ==
    /\ record = Unwritten /\ runtime = Forgotten /\ interval = FALSE
    /\ row = List /\ detail = NoRow
    /\ lists = {}
    /\ answer = NoRow /\ told = <<>>
    /\ rowCalls = {}
    /\ dialogs = {}
    /\ clicks = 0

\* _update_state, with the event of the write
Wrote(status, error, interaction) ==
    /\ record' = SetState(record, status, error, interaction)
    /\ runtime' = [status |-> status, message |-> TRUE, interaction |-> interaction]
    /\ told' = Append(told, status)

CanWrite == record # NoRow /\ record.updated < MaxWrites /\ Len(told) < MaxTold

\* The fetch, the scraper and the reload of integrations write states; only a
\* fetch finds that credentials are not valid.
StateWritten(status, error, interaction) ==
    /\ CanWrite
    /\ error => status = "error"
    /\ interaction => \/ status = "suspended"
                      \/ status = "error" /\ record.status = "active"
    /\ status = "suspended" => interaction
    /\ ~(error /\ interaction)
    /\ Wrote(status, error, interaction)
    /\ UNCHANGED <<interval, row, detail, lists, answer, rowCalls, dialogs, clicks>>

\* upsert replaces the whole record, and _update_state adds the state; the
\* backend may stop in between.
FetchSucceeded(stops) ==
    LET upserted == [Unwritten EXCEPT !.data = TRUE, !.updated = record.updated + 1] IN
    /\ CanWrite
    /\ record.status = "active"
    /\ IF stops
       THEN record' = upserted /\ runtime' = Forgotten /\ told' = <<>> /\ Click
       ELSE /\ record' = [SetState(upserted, "active", FALSE, FALSE)
                             EXCEPT !.updated = record.updated + 1]
            /\ runtime' = [Forgotten EXCEPT !.message = TRUE]
            /\ told' = Append(told, "active")
            /\ clicks' = clicks
    /\ UNCHANGED <<interval, row, detail, lists, answer, rowCalls, dialogs>>

-----------------------------------------------------------------------------
\* pollNow, or the revalidation of the cache, up to its await
Fetched(by) == lists' = lists \cup {[of |-> List, by |-> by]}

PollSources ==
    /\ lists = {} /\ Fetched("poll")
    /\ UNCHANGED <<record, runtime, interval, row, detail, answer, told, rowCalls,
                   dialogs, clicks>>

\* Mutant of ShownRow: a row whose record is the same is kept.
ShownRow_IfChanged(list) ==
    IF row # NoRow /\ list.of # NoRow /\ list.of.updated = row.updated THEN row ELSE list.of

\* applySourcesSnapshot shows the list as it came.
ShownRow(list) == list.of

\* A source that is no longer listed loses its detail, and the revalidation of
\* the cache starts with no details (its key holds the state of the hook).
KeptDetail(list) ==
    IF list.of = NoRow \/ list.by = "cache" THEN NoRow ELSE detail

ListArrived(list) ==
    /\ list \in lists
    /\ lists' = lists \ {list}
    /\ row' = ShownRow(list)
    /\ detail' = KeptDetail(list)
    /\ UNCHANGED <<record, runtime, interval, answer, told, rowCalls, dialogs, clicks>>

\* get_data; there is no answer for a source that was deleted.
AskDetail ==
    /\ row # NoRow /\ answer = NoRow /\ record # NoRow
    /\ answer' = record
    /\ UNCHANGED <<record, runtime, interval, row, detail, lists, told, rowCalls,
                   dialogs, clicks>>

\* commitDetail: an older detail is not taken, and no row shows one of a source
\* that is not listed.
DetailArrived ==
    /\ answer # NoRow
    /\ answer' = NoRow
    /\ IF row = NoRow \/ (answer # Unwritten /\ answer.updated < row.updated)
       THEN UNCHANGED <<row, detail>>
       ELSE row' = Merged(row, answer) /\ detail' = answer
    /\ UNCHANGED <<record, runtime, interval, lists, told, rowCalls, dialogs, clicks>>

\* handleWebSocketEvent, up to the request it submits
EventShown ==
    /\ told # <<>>
    /\ told' = Tail(told)
    /\ row' = IF row = NoRow THEN NoRow ELSE [row EXCEPT !.status = Head(told)]
    /\ UNCHANGED <<record, runtime, interval, detail, lists, answer, rowCalls,
                   dialogs, clicks>>

-----------------------------------------------------------------------------
(***************************************************************************)
(* The user.  A request takes effect at once or after a while, or fails.   *)
(***************************************************************************)
Sent(call) == rowCalls' = rowCalls \cup {call}
Optimistic == row' = IF row = NoRow THEN NoRow ELSE [row EXCEPT !.status = "refreshing"]

\* handleRefreshSource up to its await
HandleRefreshSource ==
    /\ row # NoRow /\ Click
    /\ Optimistic /\ Sent("refresh")
    /\ UNCHANGED <<record, runtime, interval, detail, lists, answer, told, dialogs>>

\* runGlobalRefresh up to its await: every source there is
RunGlobalRefresh ==
    /\ Click
    /\ Optimistic /\ Sent("all")
    /\ UNCHANGED <<record, runtime, interval, detail, lists, answer, told, dialogs>>

\* handleUpdateSourceRefreshInterval up to its await
HandleInterval ==
    /\ row # NoRow /\ Click /\ Sent("interval")
    /\ UNCHANGED <<record, runtime, interval, row, detail, lists, answer, told, dialogs>>

\* The question before a deletion; handleDeleteSource up to its await
AskDeletion ==
    /\ row # NoRow /\ dialogs = {}
    /\ Click
    /\ dialogs' = {"deleting"}
    /\ UNCHANGED <<record, runtime, interval, row, detail, lists, answer, told, rowCalls>>

HandleDeleteSource(confirmed) ==
    /\ "deleting" \in dialogs
    /\ dialogs' = {}
    /\ IF confirmed
       THEN row' = NoRow /\ detail' = NoRow /\ Sent("delete")
       ELSE UNCHANGED <<row, detail, rowCalls>>
    /\ UNCHANGED <<record, runtime, interval, lists, answer, told, clicks>>

\* The error dialog: openErrorDialog, its end and its retry
OpenErrorDialog ==
    /\ dialogs = {}
    /\ row # NoRow /\ Badge(row, detail) = "error"
    /\ Click
    /\ dialogs' = {"error"}
    /\ UNCHANGED <<record, runtime, interval, row, detail, lists, answer, told, rowCalls>>

CloseErrorDialog(retry) ==
    /\ "error" \in dialogs
    /\ dialogs' = {}
    /\ IF retry
       THEN row # NoRow /\ Optimistic /\ Sent("refresh")
       ELSE UNCHANGED <<row, rowCalls>>
    /\ UNCHANGED <<record, runtime, interval, detail, lists, answer, told, clicks>>

CallTaken(call) == call \in rowCalls /\ rowCalls' = rowCalls \ {call}

\* The backend starts a refresh, or has no valid integration for the source:
\* then a refresh of all sources writes an error, and one of the source fails.
RefreshAnswered(call) ==
    /\ call \in {"refresh", "all"}
    /\ CallTaken(call)
    /\ CanWrite
    /\ \/ Wrote("refreshing", FALSE, FALSE)
       \/ call = "all" /\ Wrote("error", FALSE, FALSE)
    /\ UNCHANGED <<interval, row, detail, lists, answer, dialogs, clicks>>

\* The interval is stored and the list is fetched again.
IntervalAnswered ==
    /\ CallTaken("interval") /\ record # NoRow
    /\ interval' = ~interval
    /\ lists' = lists \cup {[of |-> [List EXCEPT !.interval = ~@], by |-> "poll"]}
    /\ UNCHANGED <<record, runtime, row, detail, answer, told, dialogs, clicks>>

\* delete_stored_source
DeletionAnswered ==
    /\ CallTaken("delete") /\ record # NoRow
    /\ record' = NoRow
    /\ runtime' = Forgotten
    /\ UNCHANGED <<interval, row, detail, lists, answer, told, dialogs, clicks>>

\* The catch clauses: nothing is undone but by the list that is fetched, and a
\* refresh of all sources or a change of the interval does not fetch it.
CallFailed(call) ==
    /\ CallTaken(call)
    /\ CASE call = "refresh" -> Fetched("poll")
         [] call = "delete" -> Fetched("cache")
         [] OTHER -> lists' = lists
    /\ UNCHANGED <<record, runtime, interval, row, detail, answer, told, dialogs, clicks>>

ListShown == \E list \in lists : ListArrived(list)

SourcesPanelNext ==
    \/ \E status \in {"active", "refreshing", "error", "suspended"},
          error, interaction \in BOOLEAN : StateWritten(status, error, interaction)
    \/ \E stops \in BOOLEAN : FetchSucceeded(stops)
    \/ PollSources \/ ListShown \/ AskDetail \/ DetailArrived \/ EventShown
    \/ HandleRefreshSource \/ RunGlobalRefresh
    \/ \E call \in {"refresh", "all"} : RefreshAnswered(call)
    \/ HandleInterval \/ IntervalAnswered
    \/ AskDeletion \/ DeletionAnswered
    \/ \E confirmed \in BOOLEAN : HandleDeleteSource(confirmed)
    \/ OpenErrorDialog \/ \E retry \in BOOLEAN : CloseErrorDialog(retry)
    \/ \E call \in rowCalls : CallFailed(call)

\* The timer of the coordinator fires and lists arrive.
ListsCome == PollSources \/ ListShown

SourcesPanelSpec ==
    SourcesPanelInit /\ [][SourcesPanelNext]_rowVars /\ WF_rowVars(ListsCome)

-----------------------------------------------------------------------------
SourcesPanelTypeOK ==
    /\ record # NoRow => record.updated \in 0..MaxWrites
    /\ runtime.status \in {"active", "refreshing", "error", "suspended"}
    /\ row # NoRow => row.status \in {"active", "refreshing", "error", "suspended"}
    /\ rowCalls \subseteq {"refresh", "all", "interval", "delete"}
    /\ dialogs \in {{}, {"error"}, {"deleting"}}

\* The kind of state a badge, a pill or a counter stands for
Kind(shown) ==
    CASE shown \in {"needs_fix", "error"} -> "error"
      [] shown \in {"suspended", "warning"} -> "suspended"
      [] shown \in {"refreshing", "info"} -> "refreshing"
      [] shown \in {"normal", "success"} -> "normal"
      [] OTHER -> "waiting"

\* The state in memory when the record was written
StateAt(r) == [status |-> r.status, message |-> TRUE, interaction |-> r.interaction]

\* A row whose detail is there, and whose status nothing has written over since,
\* tells one story wherever it is drawn, and the one the list of the backend
\* tells of that record: whichever of list, detail, event and click came first.
\* A button for an error leads to a dialog that says which.
RowTellsRecord ==
    LET badge == Badge(row, detail)
        written == detail # NoRow /\ row.updated = detail.updated
                                 /\ row.status = detail.status
    IN  row # NoRow =>
        /\ badge = "error" => HasSummary(row, detail)
        /\ written =>
           /\ Kind(badge) = Kind(Badge(ListRow(detail, StateAt(detail)), detail))
           /\ Kind(badge) = Kind(Pill(row, detail))
           /\ {Kind(badge)} = {Kind(c) : c \in Counters(row, detail)}

\* Whatever was shown before its request succeeded or failed, the page ends up
\* with the state and the interval that the backend has, or without the source.
RowSettles ==
    <>[](IF record = NoRow THEN row = NoRow
         ELSE row # NoRow /\ row.status = List.status /\ row.interval = interval)

=============================================================================
