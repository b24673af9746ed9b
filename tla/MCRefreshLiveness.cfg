SPECIFICATION FairSpec
CONSTANTS
    s1 = s1
    s2 = s2
    Sources = {s1, s2}
    Codes = {timeout, blocked}
    RetryCodes = {timeout}
    Backoff <- OneBackoff
    Interval <- ShortInterval
    Workers = 1
    Capacity = 1
    MaxNow = 2
    MaxManual = 1
    MaxCrashes = 0
    NoCode = NoCode
    NoMeta = NoMeta
    NoRecord = NoRecord
INVARIANTS
    QueueOwnership
PROPERTIES
    Served
