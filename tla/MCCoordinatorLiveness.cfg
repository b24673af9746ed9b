SPECIFICATION FairSpec
CONSTANTS
    Sources = {s1, s2}
    Slots = {k1}
    NoRequest = NoRequest
    Absent = Absent
    Deleted = Deleted
    MaxVersion = 1
    MaxPolls = 1
    MaxChanges = 0
    MaxFailures = 1
    MaxManual = 0
PROPERTIES
    Converges
