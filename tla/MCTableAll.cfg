SPECIFICATION Spec
CONSTANTS
    n1 = n1
    Client = {c1, c2}
    Creators = {c1}
    Name = {n1, n2}
    Object = {o1, o2}
    Msg = {m1}
    Handlers <- MainHandlers
    Waits = {0, 1}
    MaxEntries = 1
    LatencyMayHide = TRUE
    Free = Free
    Nil = Nil
CHECK_DEADLOCK FALSE
SYMMETRY Symmetric
INVARIANTS
    TypeOK
    MutexOwned
    Kept
