SPECIFICATION FrontendSpec
CONSTANTS
    HistoryLimit = 2
    QueueLimit = 2
    WireLimit = 2
    MaxEvents = 4
    MaxDrops = 2
    MaxRestarts = 1
    Views = {a, b, c}
    FirstViews = {a, b}
    NoView = NoView
    MaxViewEvents = 3
    FlowSources = {a}
    NoSource = NoSource
    MaxFlowEvents = 3
    Files = {f, g}
    NoFile = NoFile
    FirstFiles = {{f, g}}
    MaxPageEvents = 3
    MaxReloadFailures = 1
    MaxChoices = 2
    MaxSettingsFaults = 1
    Columns = 2
    FallbackW = 3
    FallbackH = 2
    NewW = 1
    NewH = 1
    MaxWidgets = 3
    MaxY = 0
    MaxH = 1
    MaxDepth = 3
    MaxWraps = 3
    MaxRows = 2
    Dashboards = {d1, d2, d3}
    NoDashboard = NoDashboard
    MaxTabEvents = 4
    Mounts = {m1, m2}
    NoMount = NoMount
    MaxChunks = 1
    MaxUpdateClicks = 5
    MaxPortFailures = 2
    MaxOutages = 2
    PickSources = {s1, s2}
    NoPick = NoPick
    MaxPickerEvents = 7
INVARIANTS
    FrontendTypeOK
    HandedOverOnce
    NoEditLost
    EditorKeepsFiles
    SettingsAgree
    GridLegal
    ParsesAsWritten
    CardShowsData
    ChartsShowRows
    ShownIsChosen
    UpdateAsAsked
    WidgetOfItsSource
PROPERTIES
    EventuallyKnown
    ViewsReconciled
    DialogFollowsSource
    StartUpFinishes
CHECK_DEADLOCK FALSE
