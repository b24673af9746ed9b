SPECIFICATION Spec
CONSTANTS
    Sources = {s1}
    Slots = {k1}
    NoRequest = NoRequest
    Absent = Absent
    Deleted = Deleted
    MaxVersion = 2
    MaxPolls = 1
    MaxChanges = 0
    MaxFailures = 0
    MaxManual = 0
PROPERTIES
    StatusNotAgedByDetail
