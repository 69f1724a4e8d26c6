SPECIFICATION Spec
CONSTANTS
    Root = {r1, r2, r3}
    Old = r1
    Sidecar = {s1}
    Client = {c1}
    Line = line
    Handle = {1, 2, 3}
    MaxQueue = 2
    MaxFaults = 1
    SubscriberBuffer = 4
    DeleteAlone = TRUE
    MaxLines = 2
    Mixes <- MCMixes
    None = None
INVARIANTS ReplyWhole OneWriter ShutdownIsFinal
PROPERTIES ChatEnds
CHECK_DEADLOCK FALSE
