SPECIFICATION DaemonFairSpec
CONSTANTS
    Sources = {s1, s2}
    Steps = {webview}
    Workers = {d}
    Daemon = d
    Configs = {c1}
    LeaseSeconds = 1
    MaxTasks = 2
    MaxAttempts = 5
    MaxCalls = 1
    MaxTroubles = 1
    NoWorker = NoWorker
    NoGrant = NoGrant
PROPERTIES
    KeepsClaiming
