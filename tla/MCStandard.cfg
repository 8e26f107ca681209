SPECIFICATION Spec
CONSTANTS
    main = main
    dlq = dlq
    g = g
    delay = 0
    Queue = {main, dlq}
    Msg = {m1, m2, m3}
    Group = {g}
    DedupId = {}
    Fifo = {}
    EnableDuplicates = FALSE
    DeduplicationPeriod = 0
    Delays = {0}
    RandomLatency = {0}
    Visibility <- TwoVisibility
    BlankHandles = FALSE
    MaxHandles = 3
    MaxWanted = 2
    MaxBatch = 1
    NoQueue = NoQueue
    NoHandle = NoHandle
    NoDedup = NoDedup
    DeadLetterQueue <- MCDeadLetterQueue
    MaxReceiveCount <- MCMaxReceiveCount
    TimeoutSecs <- MCTimeoutSecs
    DelaySecs <- MCDelaySecs
    GroupID <- MCGroupID
    DeduplicationID <- MCDeduplicationID
SYMMETRY Symmetric
INVARIANTS
    TypeOK
PROPERTIES
    LeaseRespected
    DeletedByHolder
    ReleasedFromFlight
    DeadLetterEarned
    Implements
