SPECIFICATION FairSpec
CONSTANTS
    n1 = n1
    Client = {c1, c2}
    Creators = {c1}
    Name = {n1}
    Object = {o1}
    Msg = {}
    Handlers <- DeleteHandlers
    Waits = {0, 1}
    MaxEntries = 0
    LatencyMayHide = FALSE
    Free = Free
    Nil = Nil
CHECK_DEADLOCK FALSE
PROPERTIES
    Answered
