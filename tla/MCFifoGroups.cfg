SPECIFICATION Spec
CONSTANTS
    main = main
    dlq = dlq
    a = a
    b = b
    m1 = m1
    m2 = m2
    m3 = m3
    Queue = {main}
    Msg = {m1, m2, m3}
    Group = {a, b}
    DedupId = {}
    Fifo = {main}
    EnableDuplicates = FALSE
    DeduplicationPeriod = 0
    Delays = {0}
    RandomLatency = {0}
    Visibility = {0}
    BlankHandles = FALSE
    MaxHandles = 2
    MaxWanted = 3
    MaxBatch = 0
    NoQueue = NoQueue
    NoHandle = NoHandle
    NoDedup = NoDedup
    DeadLetterQueue <- MCDeadLetterQueue
    MaxReceiveCount <- MCMaxReceiveCount
    TimeoutSecs <- MCTimeoutSecs
    DelaySecs <- MCDelaySecs
    GroupID <- MCGroupID
    DeduplicationID <- MCDeduplicationID
INVARIANTS
    GroupExclusive
