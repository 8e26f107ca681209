SPECIFICATION Spec
CONSTANTS
    main = main
    dlq = dlq
    g = g
    h = h
    m2 = m2
    x = x
    Queue = {main}
    Msg = {m1, m2, m3}
    Group = {g, h}
    DedupId = {x}
    Fifo = {main}
    EnableDuplicates = TRUE
    DeduplicationPeriod = 2
    Delays = {0}
    RandomLatency = {0}
    Visibility = {}
    BlankHandles = FALSE
    MaxHandles = 2
    MaxWanted = 1
    MaxBatch = 0
    NoQueue = NoQueue
    NoHandle = NoHandle
    NoDedup = NoDedup
    DeadLetterQueue <- MCDeadLetterQueue
    MaxReceiveCount <- MCMaxReceiveCount
    TimeoutSecs <- MCTimeoutSecs
    DelaySecs <- MCDelaySecs
    GroupID <- MCGroupID
    DeduplicationID <- MCDeduplicationID
SYMMETRY Symmetric
INVARIANTS
    DedupWindow
