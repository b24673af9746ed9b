\* Connections are lost while nothing else goes wrong.
SPECIFICATION Spec
CONSTANTS
    HistoryLimit = 4
    QueueLimit = 4
    WireLimit = 2
    MaxEvents = 4
    MaxDrops = 2
    MaxRestarts = 0
INVARIANTS
    NoSilentGap
