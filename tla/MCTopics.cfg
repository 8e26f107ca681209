SPECIFICATION Spec
CONSTANTS
    color = color
    red = red
    Client = {c1, c2}
    c1 = c1
    Name = {t1}
    Arn = {a1, a2}
    a1 = a1
    TopicName <- MCTopicName
    Object = {o1}
    Sub = {s1, s2}
    QueueEndpoint = {q1}
    HttpEndpoint = {h1}
    Handlers <- MCHandlers
    MaxDeletions = 1
    Capacity = {0, 1, 2}
    MaxTokens = 1
    SubscribeInputs <- MCSubscribeInputs
    PublishInputs <- MCPublishInputs
    AttributeInputs <- MCAttributeInputs
    Policy <- MCPolicy
    Loaded <- MCLoaded
    Free = Free
    Nil = Nil
CHECK_DEADLOCK FALSE
INVARIANTS
    TypeOK
    WellFormed
    MutexOwned
PROPERTIES
    SubscribedOnce
    LeavesByName
    PublishedOnce
    Implements
