------------------------------ MODULE Frontend ------------------------------
(***************************************************************************)
(* The parts of the frontend in one specification, but for the rows of     *)
(* sources and the scraper panel, which LiveState has.  They share no      *)
(* state: the stream, the views, their tabs and layout and the dialogs of  *)
(* the dashboard have fields, requests and endpoints of their own; cards,  *)
(* charts and templates are functions of what they are given; the pages of *)
(* integrations and settings, the update of the application and its start  *)
(* are not on the dashboard (ui-react/src/App.tsx).  A behaviour therefore *)
(* follows one of them, while the others rest: their interleavings would   *)
(* show nothing more.                                                      *)
(***************************************************************************)
EXTENDS SourceUpdateStream, DashboardViews, FlowHandler, IntegrationsPage,
        SettingsPage, DashboardLayout, TemplateExpression, WidgetRenderer,
        ChartWidgets, DashboardTabs, AppUpdate, StartUp, AddWidget

VARIABLE focus      \* the part that is followed

frontendVars == <<focus, vars, viewVars, flowVars, pageVars, settingsVars, gridVars,
                  expressionVars, widgetVars, chartVars, tabVars, updateVars,
                  startVars, pickerVars>>

Parts == {"stream", "views", "dialog", "editor", "settings", "layout",
          "templates", "widgets", "charts", "tabs", "update", "startup", "adding"}

\* A part that is not followed begins in one of its initial states.
Rests(part, state) == IF focus = part THEN TRUE ELSE state

FrontendInit ==
    /\ focus \in Parts
    /\ Init
    /\ ViewsInit
    /\ Rests("dialog", inTauri = FALSE /\ asks = [s \in FlowSources |-> "form"] /\ listed = asks)
    /\ FlowInit
    /\ PageInit
    /\ Rests("editor", selectedFile = NoFile /\
                       {f \in Files : files[f] # NotThere} = CHOOSE there \in FirstFiles : TRUE)
    /\ Rests("settings", autostart = FALSE) /\ SettingsInit
    /\ Rests("layout", grid = <<>>) /\ GridInit
    /\ ExpressionInit
    /\ Rests("widgets", widget = Element("TextBlock", <<"word">>) /\ given = NullGiven)
    /\ WidgetsInit
    /\ Rests("charts", chart = PlainTable) /\ ChartsInit
    /\ TabsInit
    /\ UpdateInit
    /\ Rests("startup", onDefaultPort = TRUE) /\ StartUpInit
    /\ PickerInit

Rest(part, state) == IF focus = part THEN TRUE ELSE UNCHANGED state

\* A step of the part that is followed
On(part, action) ==
    /\ focus = part
    /\ action
    /\ focus' = focus
    /\ Rest("stream", vars) /\ Rest("views", viewVars) /\ Rest("dialog", flowVars)
    /\ Rest("editor", pageVars) /\ Rest("settings", settingsVars)
    /\ Rest("layout", gridVars) /\ Rest("templates", expressionVars)
    /\ Rest("widgets", widgetVars) /\ Rest("charts", chartVars)
    /\ Rest("tabs", tabVars) /\ Rest("update", updateVars)
    /\ Rest("startup", startVars) /\ Rest("adding", pickerVars)

FrontendNext ==
    \/ On("stream", Next)
    \/ On("views", ViewsNext)
    \/ On("dialog", FlowNext)
    \/ On("editor", PageNext)
    \/ On("settings", SettingsNext)
    \/ On("layout", GridNext)
    \/ On("templates", Grow)
    \/ On("widgets", WidgetsNext)
    \/ On("charts", AddRow)
    \/ On("tabs", TabsNext)
    \/ On("update", UpdateNext)
    \/ On("startup", StartUpNext)
    \/ On("adding", PickerNext)

\* What is fair in the part that is followed
FrontendFairness ==
    /\ WF_vars(focus = "stream" /\ Polls)
    /\ WF_viewVars(focus = "views" /\ ViewsAnswer)
    /\ WF_flowVars(focus = "dialog" /\ ListPolled)
    /\ WF_flowVars(focus = "dialog" /\ AuthPolled)
    /\ WF_flowVars(focus = "dialog" /\ ~inTauri /\ Polled)
    /\ WF_startVars(focus = "startup" /\ Starts)

FrontendSpec == FrontendInit /\ [][FrontendNext]_frontendVars /\ FrontendFairness

-----------------------------------------------------------------------------
\* Every variable of the part that is followed stays in its range; the others
\* keep values with which that part begins.
FrontendTypeOK ==
    /\ focus \in Parts
    /\ focus = "stream" => TypeOK
    /\ focus = "views" => ViewsTypeOK
    /\ focus = "dialog" => FlowTypeOK
    /\ focus = "editor" => PageTypeOK
    /\ focus = "settings" => SettingsTypeOK
    /\ focus = "layout" => GridTypeOK
    /\ focus = "widgets" => WidgetsTypeOK
    /\ focus = "charts" => ChartsTypeOK
    /\ focus = "tabs" => TabsTypeOK
    /\ focus = "update" => UpdateTypeOK
    /\ focus = "startup" => StartUpTypeOK
    /\ focus = "adding" => PickerTypeOK

=============================================================================
