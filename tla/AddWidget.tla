----------------------------- MODULE AddWidget -----------------------------
(***************************************************************************)
(* The dialog that adds a widget to the dashboard,                         *)
(* ui-react/src/components/AddWidgetDialog.tsx, and the part of            *)
(* Dashboard.tsx it hands the widget to.  The sources are listed when it   *)
(* opens, the templates of a source when the source is selected; answers   *)
(* arrive in any order, also when another source is selected or when the   *)
(* dialog was closed and opened again, since it stays mounted.             *)
(*                                                                         *)
(* Every source has an integration with two templates.  Where the widget   *)
(* is placed is in DashboardLayout, how the view is saved in               *)
(* DashboardViews.                                                         *)
(***************************************************************************)
EXTENDS Naturals, Sequences

CONSTANTS
    PickSources,
    NoPick,             \* no source
    MaxPickerEvents     \* bound: what the user does

ASSUME PickAssumption == NoPick \notin PickSources
ASSUME PickBound == MaxPickerEvents \in Nat

VARIABLES
    picker,         \* the state of the dialog
    pickerLists,    \* requests of the list of sources under way
    pickerCalls,    \* requests of templates under way
    widgets,        \* what was added to the view
    pickerEvents,
    crossed         \* history: an answer came for another source than the selected one

pickerVars == <<picker, pickerLists, pickerCalls, widgets, pickerEvents, crossed>>

TemplatesOf(s) == <<[of |-> s, nr |-> 1], [of |-> s, nr |-> 2]>>

\* What opening the dialog resets
Opened == [picker EXCEPT !.open = TRUE, !.source = NoPick, !.templates = <<>>, !.pick = 0]

PickerInit ==
    /\ picker = [open |-> FALSE, listed |-> FALSE, source |-> NoPick,
                 templates |-> <<>>, pick |-> 0, loading |-> FALSE]
    /\ pickerLists = 0 /\ pickerCalls = {}
    /\ widgets = {}
    /\ pickerEvents = 0 /\ crossed = FALSE

PickerEvent == pickerEvents < MaxPickerEvents /\ pickerEvents' = pickerEvents + 1

\* Mutant of Selected: the template that was picked stays picked.
Selected_Kept(s) == [picker EXCEPT !.source = s, !.loading = TRUE]

\* The effect of a selection, and of a list that arrives after one: the
\* templates on show are there still, behind the sign of the request.
Selected(s) == [picker EXCEPT !.source = s, !.loading = TRUE, !.pick = 0]

\* loadTemplates up to its await
LoadTemplates(s) ==
    pickerCalls' = pickerCalls \cup {[of |-> s, at |-> pickerEvents', lists |-> pickerLists']}

-----------------------------------------------------------------------------
OpenPicker ==
    /\ ~picker.open
    /\ PickerEvent
    /\ picker' = Opened
    /\ pickerLists' = pickerLists + 1
    /\ UNCHANGED <<pickerCalls, widgets, crossed>>

ClosePicker ==
    /\ picker.open
    /\ PickerEvent
    /\ picker' = [picker EXCEPT !.open = FALSE]
    /\ UNCHANGED <<pickerLists, pickerCalls, widgets, crossed>>

\* A new list is another array: the effect of the selection runs again.
SourcesArrive(works) ==
    /\ pickerLists > 0
    /\ pickerLists' = pickerLists - 1
    /\ IF works /\ picker.source # NoPick
       THEN /\ picker' = [Selected(picker.source) EXCEPT !.listed = TRUE]
            /\ pickerEvents' = pickerEvents
            /\ LoadTemplates(picker.source)
       ELSE /\ picker' = [picker EXCEPT !.listed = @ \/ works]
            /\ UNCHANGED <<pickerCalls, pickerEvents>>
    /\ UNCHANGED <<widgets, crossed>>

SelectSource(s) ==
    /\ picker.open /\ picker.listed /\ s # picker.source
    /\ PickerEvent
    /\ picker' = Selected(s)
    /\ pickerLists' = pickerLists
    /\ LoadTemplates(s)
    /\ UNCHANGED <<widgets, crossed>>

\* loadTemplates after its await, whatever is selected by now
TemplatesArrive(c, works) ==
    /\ c \in pickerCalls
    /\ pickerCalls' = pickerCalls \ {c}
    /\ picker' = [picker EXCEPT !.loading = FALSE,
                                !.templates = IF works THEN TemplatesOf(c.of) ELSE <<>>]
    /\ crossed' = (crossed \/ picker.source \notin {NoPick, c.of})
    /\ UNCHANGED <<pickerLists, widgets, pickerEvents>>

\* A click on a template, which may be the one that is picked
PickTemplate(i) ==
    /\ picker.open /\ picker.source # NoPick /\ ~picker.loading
    /\ i \in DOMAIN picker.templates
    /\ PickerEvent
    /\ picker' = [picker EXCEPT !.pick = IF @ = i THEN 0 ELSE i]
    /\ UNCHANGED <<pickerLists, pickerCalls, widgets, crossed>>

\* handleAdd: the button looks at the source and the pick, not at what is loading.
\* A template that is gone makes handleAddWidget throw.
HandleAdd ==
    /\ picker.open /\ picker.source # NoPick /\ picker.pick > 0
    /\ PickerEvent
    /\ picker' = [picker EXCEPT !.open = FALSE]
    /\ widgets' = IF picker.pick \notin DOMAIN picker.templates THEN widgets
                  ELSE widgets \cup {[source |-> picker.source,
                                      template |-> picker.templates[picker.pick]]}
    /\ UNCHANGED <<pickerLists, pickerCalls, crossed>>

PickerNext ==
    \/ OpenPicker \/ ClosePicker \/ HandleAdd
    \/ \E works \in BOOLEAN :
          SourcesArrive(works) \/ \E c \in pickerCalls : TemplatesArrive(c, works)
    \/ \E s \in PickSources : SelectSource(s)
    \/ \E i \in 1..2 : PickTemplate(i)

PickerSpec == PickerInit /\ [][PickerNext]_pickerVars

-----------------------------------------------------------------------------
PickerTypeOK ==
    /\ picker.source \in PickSources \cup {NoPick}
    /\ picker.pick \in 0..2
    /\ Len(picker.templates) <= 2
    /\ pickerLists \in 0..MaxPickerEvents
    /\ \A c \in pickerCalls : c.of \in PickSources

\* A widget shows a template of the source that was selected for it, although
\* the templates of the source before stay in the dialog while others load, a
\* list may arrive and load them again, and answers of an earlier opening come
\* late.  An answer that comes for another source than the selected one breaks
\* it, and is excluded by name.
WidgetOfItsSource ==
    ~crossed => \A w \in widgets : w.template.of = w.source

=============================================================================
