SPECIFICATION LiveSpec
CONSTANTS
    Sources = {s1}
    Steps = {webview}
    Workers = {d}
    Daemon = d
    Configs = {c1}
    LeaseSeconds = 1
    MaxTasks = 2
    MaxAttempts = 5
    MaxCalls = 1
    MaxTroubles = 1
    NoWorker = NoWorker
    NoGrant = NoGrant
    MaxScrapes = 2
    MaxPanelEvents = 1
    NoRow = NoRow
    MaxWrites = 2
    MaxTold = 1
    MaxClicks = 1
INVARIANTS
    LiveTypeOK
    ResultFromPageOfTask
    ActiveTaskIsHeard
    RowTellsRecord
PROPERTIES
    
    
    PanelConverges
    RowSettles
