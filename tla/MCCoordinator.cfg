SPECIFICATION Spec
CONSTANTS
    Sources = {s1}
    Slots = {k1, k2}
    NoRequest = NoRequest
    Absent = Absent
    Deleted = Deleted
    MaxVersion = 2
    MaxPolls = 2
    MaxChanges = 2
    MaxFailures = 0
    MaxManual = 1
INVARIANTS
    TypeOK
    SlotsServe
    UpdateNotForgotten
PROPERTIES
    NeverAged
