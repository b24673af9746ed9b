--------------------------- MODULE DashboardViews ---------------------------
(***************************************************************************)
(* The views of the dashboard, ui-react/src/pages/Dashboard.tsx: edits of  *)
(* a layout that are shown at once and saved by viewSaveQueue.ts, the      *)
(* commands that create, rename, delete and reorder views, the cache of    *)
(* SWR they share, and the endpoints of core/api.py behind them.           *)
(*                                                                         *)
(* A view is the edits of its layout it contains, its name and its         *)
(* sort_index.  Edits are numbered.  An edit contains the edits of the     *)
(* view it was built from, so that an edit made on an old view is seen to  *)
(* lack the others.                                                        *)
(*                                                                         *)
(* SWR is external: mutate(key, f, false) writes the cache and makes a     *)
(* request under way worthless; mutate(key) starts a request and makes the *)
(* one before it worthless; a failed request is retried.                   *)
(*                                                                         *)
(* Left out: the two steps of deleting a widget, which are one frame       *)
(* apart; the first widget of a dashboard without views.                   *)
(***************************************************************************)
EXTENDS Naturals, FiniteSets, Sequences

CONSTANTS
    Views,              \* ids of views
    FirstViews,         \* the views there are at first
    NoView,             \* not an id
    MaxViewEvents       \* bound: edits, commands, and requests that fail

ASSUME ViewsAssumption == FirstViews \subseteq Views /\ NoView \notin Views
ASSUME ViewsFinite == IsFiniteSet(Views)
ASSUME ViewsBounds == MaxViewEvents \in Nat

VARIABLES
    views,          \* backend: the stored views
    viewCache,      \* SWR: the views shown
    viewFetch,      \* SWR: the request of the views that counts
    viewPending,    \* viewSaveQueue: pending
    viewCalls,      \* requests of the page, and whether they were handled
    reorders,       \* reorderSavePromiseRef: orders not sent yet
    edits,          \* number of edits
    edited,         \* history: the edits made of every view
    overtaken,      \* history: views whose pending edit another view's replaced
    unread,         \* history: the backend was changed, or asked, in a way the
                    \* page does not follow up
    viewCommands,   \* number of commands
    viewFailures    \* number of requests that failed

viewBounds == <<edits, viewCommands, viewFailures>>
viewVars == <<views, viewCache, viewFetch, viewPending, viewCalls, reorders,
              edited, overtaken, unread, viewBounds>>

View == [edits : SUBSET (1..MaxViewEvents), name : 0..MaxViewEvents,
         rank : 0..Cardinality(Views)]
IsStore(store) ==
    /\ DOMAIN store \subseteq Views
    /\ \A v \in DOMAIN store : store[v] \in View

NoViews == [v \in {} |-> NoView]
NoFetch == [at |-> "none", answer |-> NoViews]
Asked == [at |-> "asked", answer |-> NoViews]
NothingPending == [id |-> NoView]

\* A request; its view is the one to store, its answer what the backend says
Request(op, v, view) == [op |-> op, id |-> v, view |-> view, at |-> "sent"]

\* The orders of views
Orders(vs) ==
    {rank \in [vs -> 0..(Cardinality(vs) - 1)] :
        \A v, w \in vs : rank[v] = rank[w] => v = w}

\* The views are in some order, whichever: none is named anywhere.
FirstStore ==
    LET rank == CHOOSE rank \in Orders(FirstViews) : TRUE
    IN  [v \in FirstViews |-> [edits |-> {}, name |-> 0, rank |-> rank[v]]]

ViewsInit ==
    /\ views = FirstStore
    /\ viewCache = views
    /\ viewFetch = NoFetch
    /\ viewPending = NothingPending
    /\ viewCalls = {}
    /\ reorders = <<>>
    /\ edits = 0
    /\ edited = [v \in Views |-> {}]
    /\ overtaken = {}
    /\ unread = FALSE
    /\ viewCommands = 0
    /\ viewFailures = 0

MoreEvents == edits + viewCommands + viewFailures < MaxViewEvents

Command == MoreEvents /\ viewCommands' = viewCommands + 1

Put(store, v, view) ==
    [w \in DOMAIN store \cup {v} |-> IF w = v THEN view ELSE store[w]]

-----------------------------------------------------------------------------
(***************************************************************************)
(* Edits and the save queue.                                               *)
(***************************************************************************)
\* running: a save is under way; onDrained does not wait for what it asks for.
Running == \E c \in viewCalls : c.op = "save"

\* Mutant of Enqueue: every edit is sent at once.
Enqueue_AtOnce(v, view) ==
    /\ viewCalls' = viewCalls \cup {Request("save", v, view)}
    /\ UNCHANGED <<viewPending, overtaken>>

\* Only one view is kept while a save is under way, whichever it is.
Enqueue(v, view) ==
    IF Running
    THEN /\ viewPending' = [id |-> v, view |-> view]
         /\ overtaken' = overtaken \cup ({viewPending.id} \ {v, NoView})
         /\ viewCalls' = viewCalls
    ELSE /\ viewCalls' = viewCalls \cup {Request("save", v, view)}
         /\ UNCHANGED <<viewPending, overtaken>>

\* handleGridChange, handleAddWidget, handleDeleteWidget: the new layout is
\* built from the view in the cache, shown, and enqueued.
EditLayout(v) ==
    LET view == [viewCache[v] EXCEPT !.edits = @ \cup {edits + 1}] IN
    /\ MoreEvents
    /\ edits' = edits + 1
    /\ edited' = [edited EXCEPT ![v] = @ \cup {edits + 1}]
    /\ viewCache' = [viewCache EXCEPT ![v] = view]
    /\ viewFetch' = NoFetch
    /\ Enqueue(v, view)
    /\ UNCHANGED <<views, reorders, unread, viewCommands, viewFailures>>

-----------------------------------------------------------------------------
(***************************************************************************)
(* Commands.                                                               *)
(***************************************************************************)
CreateDashboard(v) ==
    /\ v \notin FirstViews \cup DOMAIN views \cup DOMAIN viewCache
    /\ Command
    /\ viewCalls' = viewCalls \cup {Request("create", v,
          [edits |-> {}, name |-> 0, rank |-> Cardinality(DOMAIN viewCache)])}
    /\ UNCHANGED <<views, viewCache, viewFetch, viewPending, reorders, edits,
                   edited, overtaken, unread, viewFailures>>

\* The whole view is sent as it is in the cache, past the queue.
RenameDashboard(v) ==
    /\ v \in DOMAIN viewCache
    /\ Command
    /\ viewCalls' = viewCalls \cup {Request("rename", v,
          [viewCache[v] EXCEPT !.name = viewCommands + 1])}
    /\ UNCHANGED <<views, viewCache, viewFetch, viewPending, reorders, edits,
                   edited, overtaken, unread, viewFailures>>

DeleteDashboard(v) ==
    /\ v \in DOMAIN viewCache
    /\ Command
    /\ viewCalls' = viewCalls \cup {Request("delete", v, viewCache[v])}
    /\ UNCHANGED <<views, viewCache, viewFetch, viewPending, reorders, edits,
                   edited, overtaken, unread, viewFailures>>

Ranked(store, rank) ==
    [v \in DOMAIN store |->
        IF v \in DOMAIN rank THEN [store[v] EXCEPT !.rank = rank[v]] ELSE store[v]]

Reordering == \E c \in viewCalls : c.op = "reorder"

\* A view is dragged over another.  The order is shown at once; orders are sent
\* one after the other.  The views are dragged in the order of the store of tabs,
\* which need not be that of their ranks: it is set back at once when an order is
\* refused.
ReorderDashboards(rank) ==
    /\ Cardinality(DOMAIN viewCache) > 1
    /\ \E v \in DOMAIN viewCache : rank[v] # viewCache[v].rank
    /\ Command
    /\ viewCache' = Ranked(viewCache, rank)
    /\ viewFetch' = NoFetch
    /\ IF Reordering
       THEN reorders' = Append(reorders, rank) /\ viewCalls' = viewCalls
       ELSE /\ viewCalls' = viewCalls \cup {Request("reorder", NoView, rank)}
            /\ reorders' = reorders
    /\ UNCHANGED <<views, viewPending, edits, edited, overtaken, unread,
                   viewFailures>>

\* If the views are dragged into the order their ranks have already, the cache is
\* written all the same, and nothing is sent or asked for.
ReorderUnchanged ==
    /\ Cardinality(DOMAIN viewCache) > 1
    /\ [v \in DOMAIN viewCache |-> viewCache[v].rank] \in Orders(DOMAIN viewCache)
    /\ Command
    /\ viewFetch' = NoFetch
    /\ unread' = (unread \/ viewFetch # NoFetch)
    /\ UNCHANGED <<views, viewCache, viewPending, viewCalls, reorders, edits,
                   edited, overtaken, viewFailures>>

-----------------------------------------------------------------------------
(***************************************************************************)
(* The backend.                                                            *)
(***************************************************************************)
\* What a request makes of the stored views; PUT and POST store what they get.
Handled(c) ==
    CASE c.op \in {"save", "rename", "create"} -> Put(views, c.id, c.view)
      [] c.op = "delete" -> [v \in DOMAIN views \ {c.id} |-> views[v]]
      [] c.op = "reorder" -> Ranked(views, c.view)

\* 404 for a view that is gone, 400 for an order of other views
Rejected(c) ==
    \/ c.op = "delete" /\ c.id \notin DOMAIN views
    \/ c.op = "reorder" /\ DOMAIN views \notin {DOMAIN c.view, {}}

AnswerOf(c) == IF c.op = "reorder" THEN Handled(c) ELSE c.view

HandleCall(c) ==
    /\ c \in viewCalls
    /\ c.at = "sent"
    /\ ~Rejected(c)
    /\ views' = Handled(c)
    /\ viewCalls' = (viewCalls \ {c}) \cup {[c EXCEPT !.at = "ok", !.view = AnswerOf(c)]}
    /\ UNCHANGED <<viewCache, viewFetch, viewPending, reorders, edited, overtaken,
                   unread, viewBounds>>

\* The request is rejected, or is lost on its way to the backend ...
FailCall(c) ==
    /\ c \in viewCalls
    /\ c.at = "sent"
    /\ IF Rejected(c) THEN viewFailures' = viewFailures
       ELSE MoreEvents /\ viewFailures' = viewFailures + 1
    /\ viewCalls' = (viewCalls \ {c}) \cup {[c EXCEPT !.at = "failed"]}
    /\ UNCHANGED <<views, viewCache, viewFetch, viewPending, reorders, edits,
                   edited, overtaken, unread, viewCommands>>

\* ... or its answer is lost.
LoseAnswer(c) ==
    /\ c \in viewCalls
    /\ c.at = "sent"
    /\ ~Rejected(c)
    /\ MoreEvents /\ viewFailures' = viewFailures + 1
    /\ views' = Handled(c)
    /\ viewCalls' = (viewCalls \ {c}) \cup {[c EXCEPT !.at = "failed"]}
    /\ unread' = (unread \/ c.op \in {"create", "rename", "delete"})
    /\ UNCHANGED <<viewCache, viewFetch, viewPending, reorders, edits, edited,
                   overtaken, viewCommands>>

-----------------------------------------------------------------------------
(***************************************************************************)
(* Answers.                                                                *)
(***************************************************************************)
\* Mutant of AfterDrain: the cache is left as it is.
AfterDrain_Keep == viewFetch

\* onDrained: invalidateViews
AfterDrain == Asked

\* A save that failed is not repeated.
AnswerSave(c) ==
    /\ c \in viewCalls
    /\ c.op = "save" /\ c.at # "sent"
    /\ IF viewPending = NothingPending
       THEN viewCalls' = viewCalls \ {c} /\ viewFetch' = AfterDrain
       ELSE /\ viewCalls' = (viewCalls \ {c})
                \cup {Request("save", viewPending.id, viewPending.view)}
            /\ viewFetch' = viewFetch
    /\ viewPending' = NothingPending
    /\ UNCHANGED <<views, viewCache, reorders, edited, overtaken, unread,
                   viewBounds>>

\* A command that failed leaves the page as it was, and asks for nothing.
AnswerCommand(c) ==
    /\ c \in viewCalls
    /\ c.op \in {"create", "rename", "delete"} /\ c.at # "sent"
    /\ viewCalls' = viewCalls \ {c}
    /\ viewFetch' = IF c.at = "ok" THEN Asked ELSE viewFetch
    /\ viewCache' = IF c.at = "ok" /\ c.op = "create" /\ c.id \notin DOMAIN viewCache
                    THEN Put(viewCache, c.id, c.view) ELSE viewCache
    /\ UNCHANGED <<views, viewPending, reorders, edited, overtaken, unread,
                   viewBounds>>

\* The answer replaces the cache; either way the views are asked for, and the
\* next order is sent.
AnswerReorder(c) ==
    /\ c \in viewCalls
    /\ c.op = "reorder" /\ c.at # "sent"
    /\ viewCache' = IF c.at = "ok" THEN c.view ELSE viewCache
    /\ viewFetch' = Asked
    /\ IF reorders = <<>>
       THEN viewCalls' = viewCalls \ {c} /\ reorders' = reorders
       ELSE /\ viewCalls' = (viewCalls \ {c})
                \cup {Request("reorder", NoView, Head(reorders))}
            /\ reorders' = Tail(reorders)
    /\ UNCHANGED <<views, viewPending, edited, overtaken, unread, viewBounds>>

\* The request of SWR is answered, and the answer arrives.
ListViews ==
    /\ viewFetch.at = "asked"
    /\ viewFetch' = [at |-> "answered", answer |-> views]
    /\ unread' = FALSE
    /\ UNCHANGED <<views, viewCache, viewPending, viewCalls, reorders, edited,
                   overtaken, viewBounds>>

ViewsArrive ==
    /\ viewFetch.at = "answered"
    /\ viewCache' = viewFetch.answer
    /\ viewFetch' = NoFetch
    /\ UNCHANGED <<views, viewPending, viewCalls, reorders, edited, overtaken,
                   unread, viewBounds>>

ViewsAnswer ==
    \/ \E c \in viewCalls : HandleCall(c) \/ FailCall(c) \/ LoseAnswer(c)
    \/ \E c \in viewCalls : AnswerSave(c) \/ AnswerCommand(c) \/ AnswerReorder(c)
    \/ ListViews \/ ViewsArrive

ViewsNext ==
    \/ \E v \in DOMAIN viewCache : EditLayout(v)
    \/ \E v \in Views : CreateDashboard(v)
    \/ \E v \in DOMAIN viewCache : RenameDashboard(v) \/ DeleteDashboard(v)
    \/ \E rank \in Orders(DOMAIN viewCache) : ReorderDashboards(rank)
    \/ ReorderUnchanged
    \/ ViewsAnswer

\* The backend and the network answer: fetch settles.
ViewsFairness == WF_viewVars(ViewsAnswer)

ViewsSpec == ViewsInit /\ [][ViewsNext]_viewVars /\ ViewsFairness

-----------------------------------------------------------------------------
ViewsTypeOK ==
    /\ IsStore(views) /\ IsStore(viewCache) /\ IsStore(viewFetch.answer)
    /\ viewFetch.at \in {"none", "asked", "answered"}
    /\ viewPending # NothingPending => viewPending.id \in Views /\ viewPending.view \in View
    /\ \A c \in viewCalls :
          /\ c.op \in {"save", "create", "rename", "delete", "reorder"}
          /\ c.at \in {"sent", "ok", "failed"}
    /\ Cardinality({c \in viewCalls : c.op = "save"}) <= 1
    /\ overtaken \subseteq Views
    /\ unread \in BOOLEAN

\* No edit of a layout is lost, shown or saved, while a view is edited and
\* nothing else happens: whatever saves, drains of the queue and requests of
\* SWR interleave, every edit is in the cache, and in the backend when the
\* queue is idle.  What breaks it is excluded by name: a failed save, a command
\* that reads or writes past the queue, and an edit of another view that takes
\* the place of the pending one.
NoEditLost ==
    viewFailures = 0 /\ viewCommands = 0 =>
        \A v \in Views \ overtaken :
            /\ edited[v] # {} => edited[v] \subseteq viewCache[v].edits
            /\ edited[v] # {} /\ ~Running => edited[v] \subseteq views[v].edits

\* In the end the page shows what the backend has: optimistic changes, and the
\* requests they make worthless, are reconciled by whatever ends them, be it an
\* answer, a refusal or a loss.  Excluded is what is never followed up: a create,
\* rename or delete whose answer is lost, and a list that is on its way when the
\* views are dragged into the order they have; each until the next list.
ViewsReconciled == <>[](viewCache = views \/ unread)

=============================================================================
