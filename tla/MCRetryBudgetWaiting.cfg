SPECIFICATION Spec
CONSTANTS
    s1 = s1
    s2 = s2
    Sources = {s1, s2}
    Codes = {timeout, other}
    RetryCodes = {timeout}
    Backoff <- OneBackoff
    Interval <- IntervalOfFirst
    Workers = 1
    Capacity = 1
    MaxNow = 4
    MaxManual = 0
    MaxCrashes = 0
    NoCode = NoCode
    NoMeta = NoMeta
    NoRecord = NoRecord
INVARIANTS
    RetryBudget
