---------------------------- MODULE DashboardTabs ----------------------------
(***************************************************************************)
(* Which dashboard is shown: the order, the active and the selected view   *)
(* that viewTabsState.ts stores, the list of views of SWR, and the swiper  *)
(* that shows them (DashboardSwiper.tsx), which has an index of its own    *)
(* and tells the page of every change of it.                               *)
(*                                                                         *)
(* The stores render synchronously: nothing happens between a change and   *)
(* the effects that follow it.  Swiper is external: it begins with its     *)
(* first slide, keeps its index when its slides change or takes the last   *)
(* one when there are fewer, and announces a new index at once.  How an    *)
(* order is saved and what makes a list is in DashboardViews.              *)
(***************************************************************************)
EXTENDS Naturals, FiniteSets, Sequences, SequencesExt

CONSTANTS
    Dashboards,     \* ids of views, finitely many
    NoDashboard,    \* not an id
    MaxTabEvents    \* bound: what the user, the backend and restarts do

ASSUME TabsAssumption == IsFiniteSet(Dashboards) /\ NoDashboard \notin Dashboards
ASSUME TabsBounds == MaxTabEvents \in Nat

VARIABLES
    swrViews,       \* ids of the views, as the backend orders them
    tabs,           \* the stored state: active, selected, order and mode
    painted,        \* views and active view the swiper was rendered with
    synced,         \* the list syncWithViews has seen
    swiper,         \* index of the slide, and the refs of DashboardSwiper
    underWay,       \* a creation or an order sent, and the order before it
    wanted,         \* history: the view the user chose, while nothing takes it away
    tabEvents

tabVars == <<swrViews, tabs, painted, synced, swiper, underWay, wanted, tabEvents>>

TabLists == {l \in SeqOf(Dashboards, Cardinality(Dashboards)) : IsInjective(l)}

NotMounted == [views |-> <<>>, active |-> NoDashboard]
NotSynced == <<NoDashboard>>
NothingSent == [op |-> "none", order |-> <<>>]

-----------------------------------------------------------------------------
\* One id of either loop; one that is in the result already was seen.
Seen(l, merged, v) ==
    IF Contains(l, v) /\ ~Contains(merged, v) THEN Append(merged, v) ELSE merged

\* The ids that are stored, as long as there is a view, then the other views
MergeOrderedViewIds(l, ids) ==
    FoldLeft(LAMBDA merged, v : Seen(l, merged, v), <<>>, ids \o l)

ResolveActiveViewId(l, v) ==
    CASE l = <<>> -> NoDashboard
      [] Contains(l, v) -> v
      [] OTHER -> Head(l)

SyncWithViews(state) ==
    [state EXCEPT !.active = ResolveActiveViewId(swrViews, @),
                  !.order = MergeOrderedViewIds(swrViews, @)]

\* orderedViews
OrderedViews == MergeOrderedViewIds(swrViews, tabs.order)

\* What the swiper is rendered with: the page falls back to the first view in
\* its own order, the store to the first one of the backend.
Props ==
    IF tabs.mode = "management" THEN NotMounted
    ELSE [views |-> OrderedViews, active |-> ResolveActiveViewId(OrderedViews, tabs.active)]

Settled == painted = Props /\ synced = swrViews

-----------------------------------------------------------------------------
(***************************************************************************)
(* The swiper.                                                             *)
(***************************************************************************)
At(i, v) == [slide |-> i, target |-> i, current |-> i, emitted |-> v]

\* Mutant of ShowsActive: only another active view moves the slide.
ShowsActive_OnChange(props, s) ==
    IF props.active = s.emitted THEN s
    ELSE At(CHOOSE i \in DOMAIN props.views : props.views[i] = props.active, props.active)

\* onSwiper, and the effect for the active view and the views: the slide that is
\* moved to announces a view that counts as told.
ShowsActive(props, s) ==
    At(CHOOSE i \in DOMAIN props.views : props.views[i] = props.active, props.active)

\* onSlideChange
SlideChanged(views, i) == At(i, views[i])

\* emitViewChange, onViewChange
Emitted(views, i, state) ==
    IF views[i] = swiper.emitted THEN state
    ELSE [state EXCEPT !.active = views[i], !.selected = views[i]]

\* A render of the swiper, which may find that it has fewer slides than its
\* index, and the effects: first the one of the swiper, then syncWithViews.
RenderTabs ==
    LET last == Len(Props.views)
        clamped == painted.views # <<>> /\ last > 0 /\ last < swiper.slide
        told == IF clamped THEN Emitted(Props.views, last, tabs) ELSE tabs
        laid == IF clamped THEN SlideChanged(Props.views, last) ELSE swiper
    IN  /\ ~Settled
        /\ painted' = Props
        /\ synced' = swrViews
        /\ swiper' = IF last = 0 THEN At(1, NoDashboard) ELSE ShowsActive(Props, laid)
        /\ tabs' = IF synced = swrViews THEN told ELSE SyncWithViews(told)
        /\ UNCHANGED <<swrViews, underWay, wanted, tabEvents>>

-----------------------------------------------------------------------------
TabsInit ==
    /\ swrViews = <<>>
    /\ tabs = [active |-> NoDashboard, selected |-> NoDashboard, order |-> <<>>,
               mode |-> "single"]
    /\ painted = NotMounted
    /\ synced = NotSynced
    /\ swiper = At(1, NoDashboard)
    /\ underWay = NothingSent
    /\ wanted = NoDashboard
    /\ tabEvents = 0

Event == Settled /\ tabEvents < MaxTabEvents /\ tabEvents' = tabEvents + 1

\* The page starts again with what is stored.
RestartPage ==
    /\ Event
    /\ swrViews' = <<>>
    /\ painted' = NotMounted
    /\ synced' = NotSynced
    /\ swiper' = At(1, NoDashboard)
    /\ underWay' = NothingSent
    /\ wanted' = NoDashboard
    /\ tabs' = tabs

\* Two lists have the views they share in the same order.
SameOrder(k, l) ==
    \A i, j \in DOMAIN k : \A m, n \in DOMAIN l :
        k[i] = l[m] /\ k[j] = l[n] => (i < j <=> m < n)

\* The list brings views and takes one away, or orders them anew.
Gentle(l) ==
    \/ ToSet(swrViews) \subseteq ToSet(l)
    \/ Cardinality(ToSet(swrViews) \ ToSet(l)) = 1 /\ SameOrder(swrViews, l)

\* SWR has another list.  When it lacks several views, or one and has the others
\* in another order, the swiper may have fewer slides than its index and take
\* another slide than the one of the wanted view.
ListChanges(l) ==
    /\ l # swrViews
    /\ Event
    /\ swrViews' = l
    /\ wanted' = IF Contains(l, wanted) /\ Gentle(l) THEN wanted ELSE NoDashboard
    /\ UNCHANGED <<tabs, painted, synced, swiper, underWay>>

\* A dot, a swipe, or an arrow key; a slide that is there already announces
\* nothing.
SlideTo(i) ==
    /\ Len(painted.views) > 1 /\ i \in DOMAIN painted.views
    /\ Event
    /\ IF i = swiper.slide
       THEN /\ swiper' = [swiper EXCEPT !.target = i, !.current = i]
            /\ UNCHANGED <<tabs, wanted>>
       ELSE /\ swiper' = SlideChanged(painted.views, i)
            /\ tabs' = Emitted(painted.views, i, tabs)
            /\ wanted' = painted.views[i]
    /\ UNCHANGED <<swrViews, painted, synced, underWay>>

\* navigateBy
NavigateBy(forward) ==
    /\ forward \/ swiper.target > 1
    /\ SlideTo(IF forward THEN swiper.target + 1 ELSE swiper.target - 1)

-----------------------------------------------------------------------------
HandleEnterManagementMode ==
    /\ tabs.mode = "single"
    /\ Event
    /\ tabs' = [tabs EXCEPT !.mode = "management"]
    /\ UNCHANGED <<swrViews, painted, synced, swiper, underWay, wanted>>

HandleReturnToSingleDashboard ==
    LET fallback == IF tabs.selected # NoDashboard THEN tabs.selected
                    ELSE ResolveActiveViewId(OrderedViews, tabs.active) IN
    /\ tabs.mode = "management"
    /\ Event
    /\ tabs' = IF fallback = NoDashboard THEN [tabs EXCEPT !.mode = "single"]
               ELSE [tabs EXCEPT !.mode = "single", !.active = fallback, !.selected = fallback]
    /\ UNCHANGED <<swrViews, painted, synced, swiper, underWay, wanted>>

HandleSelectDashboard(v) ==
    /\ tabs.mode = "management" /\ Contains(OrderedViews, v)
    /\ Event
    /\ tabs' = [tabs EXCEPT !.mode = "single", !.active = v, !.selected = v]
    /\ wanted' = v
    /\ UNCHANGED <<swrViews, painted, synced, swiper, underWay>>

\* handleDeleteDashboard, when the view is deleted: the list comes later.
DashboardDeleted(v) ==
    /\ tabs.mode = "management" /\ Contains(OrderedViews, v)
    /\ Event
    /\ tabs' = [tabs EXCEPT !.selected = IF @ = v THEN NoDashboard ELSE @]
    /\ UNCHANGED <<swrViews, painted, synced, swiper, underWay, wanted>>

\* handleCreateDashboard up to its await; its dialog may be closed meanwhile.
HandleCreateDashboard ==
    /\ tabs.mode = "management" /\ underWay = NothingSent
    /\ Event
    /\ underWay' = [op |-> "create", order |-> OrderedViews]
    /\ UNCHANGED <<swrViews, tabs, painted, synced, swiper, wanted>>

DashboardCreated(v) ==
    /\ underWay.op = "create" /\ ~Contains(underWay.order, v)
    /\ Settled
    /\ swrViews' = IF Contains(swrViews, v) THEN swrViews ELSE Append(swrViews, v)
    /\ tabs' = [active |-> v, selected |-> v, order |-> Append(underWay.order, v),
                mode |-> "single"]
    /\ underWay' = NothingSent
    /\ wanted' = v
    /\ UNCHANGED <<painted, synced, swiper, tabEvents>>

\* A card is dragged to the place of another; the order is taken back when the
\* request fails.
HandleReorderDashboards(i, j) ==
    /\ tabs.mode = "management" /\ underWay = NothingSent
    /\ {i, j} \subseteq DOMAIN OrderedViews /\ i # j
    /\ Event
    /\ tabs' = [tabs EXCEPT !.order = InsertAt(RemoveAt(OrderedViews, i), j, OrderedViews[i])]
    /\ underWay' = [op |-> "reorder", order |-> OrderedViews]
    /\ UNCHANGED <<swrViews, painted, synced, swiper, wanted>>

RequestEnds(failed) ==
    /\ underWay # NothingSent /\ Settled
    /\ failed \/ underWay.op = "reorder"
    /\ tabs' = IF failed /\ underWay.op = "reorder" THEN [tabs EXCEPT !.order = underWay.order]
               ELSE tabs
    /\ underWay' = NothingSent
    /\ UNCHANGED <<swrViews, painted, synced, swiper, wanted, tabEvents>>

TabsNext ==
    \/ RenderTabs \/ RestartPage
    \/ \E l \in TabLists : ListChanges(l)
    \/ \E i \in 1..Cardinality(Dashboards) : SlideTo(i)
    \/ \E forward \in BOOLEAN : NavigateBy(forward)
    \/ HandleEnterManagementMode \/ HandleReturnToSingleDashboard
    \/ \E v \in Dashboards : HandleSelectDashboard(v) \/ DashboardDeleted(v)
    \/ HandleCreateDashboard
    \/ \E v \in Dashboards : DashboardCreated(v)
    \/ \E i, j \in 1..Cardinality(Dashboards) : HandleReorderDashboards(i, j)
    \/ \E failed \in BOOLEAN : RequestEnds(failed)

TabsSpec == TabsInit /\ [][TabsNext]_tabVars

-----------------------------------------------------------------------------
TabsTypeOK ==
    /\ {swrViews, tabs.order, painted.views, underWay.order} \subseteq TabLists
    /\ {tabs.active, tabs.selected, painted.active, wanted} \subseteq Dashboards \cup {NoDashboard}
    /\ tabs.mode \in {"single", "management"}

\* Whatever the order in which lists, clicks, orders taken back and clamps of
\* the swiper come, once the effects have run the slide, the dot and the next
\* step of an arrow key are those of the view that is active, every view has its
\* slide, and a view the user chose is the one that is shown, whatever views come
\* and go one at a time beside it.
ShownIsChosen ==
    Settled /\ tabs.mode = "single" /\ swrViews # <<>> =>
        /\ ToSet(painted.views) = ToSet(swrViews)
        /\ painted.views[swiper.slide] = painted.active
        /\ swiper = At(swiper.slide, painted.active)
        /\ wanted \in {NoDashboard, painted.active}

=============================================================================
