SPECIFICATION Spec
CONSTANTS
    Sources = {s1, s2}
    Steps = {webview}
    Workers = {w1, w2}
    Configs = {c1, c2}
    LeaseSeconds = 2
    MaxTasks = 2
    MaxAttempts = 2
    NoWorker = NoWorker
    NoGrant = NoGrant
SYMMETRY StoreSymmetry
INVARIANTS
    TypeOK
    OneActiveTaskPerSlot
    ActiveTaskCarriesLatestConfig
    ResultFenced
PROPERTIES
    LiveLeaseIsExclusive
    ImplementsFencedJobs
