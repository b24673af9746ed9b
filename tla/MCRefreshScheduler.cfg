SPECIFICATION Spec
CONSTANTS
    s1 = s1
    s2 = s2
    Sources = {s1, s2}
    Codes = {timeout, other}
    RetryCodes = {timeout}
    Backoff <- GrowingBackoff
    Interval <- IntervalOfFirst
    Workers = 1
    Capacity = 2
    MaxNow = 5
    MaxManual = 0
    MaxCrashes = 1
    NoCode = NoCode
    NoMeta = NoMeta
    NoRecord = NoRecord
INVARIANTS
    TypeOK
    WindowBudget
PROPERTIES
    RetriesSpaced
