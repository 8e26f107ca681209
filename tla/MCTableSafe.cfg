SPECIFICATION FairSpec
CONSTANTS
    n1 = n1
    Client = {c1, c2}
    Creators = {c1}
    Name = {n1, n2}
    Object = {o1}
    Msg = {m1, m2}
    Handlers <- LastingHandlers
    Waits = {0, 1}
    MaxEntries = 2
    LatencyMayHide = TRUE
    Free = Free
    Nil = Nil
CHECK_DEADLOCK FALSE
PROPERTIES
    Answered
