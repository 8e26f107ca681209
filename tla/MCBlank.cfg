SPECIFICATION Spec
CONSTANTS
    main = main
    dlq = dlq
    g = g
    delay = 1
    Queue = {main, dlq}
    Msg = {m1, m2}
    Group = {g}
    DedupId = {}
    Fifo = {}
    EnableDuplicates = FALSE
    DeduplicationPeriod = 0
    Delays = {0}
    RandomLatency = {0, 1}
    Visibility <- OneVisibility
    BlankHandles = TRUE
    MaxHandles = 3
    MaxWanted = 2
    MaxBatch = 2
    NoQueue = NoQueue
    NoHandle = NoHandle
    NoDedup = NoDedup
    DeadLetterQueue <- MCDeadLetterQueue
    MaxReceiveCount <- MCMaxReceiveCount
    TimeoutSecs <- MCTimeoutSecs
    DelaySecs <- MCDelaySecs
    GroupID <- MCGroupID
    DeduplicationID <- MCDeduplicationID
SYMMETRY Symmetric
INVARIANTS
    NoLossNoDuplication
    DeliveryBound
    DeliveryInv
    LeaseInv
PROPERTIES
    DelayRespected
