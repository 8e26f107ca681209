SPECIFICATION Spec
CONSTANTS
    color = color
    red = red
    Client = {c1, c2}
    c1 = c1
    Name = {t1}
    Arn = {a1, a2}
    a1 = a1
    TopicName <- MCTopicName
    Object = {o1}
    Sub = {s1, s2}
    QueueEndpoint = {}
    HttpEndpoint = {h1, h2}
    Handlers <- ConfirmHandlers
    MaxDeletions = 1
    Capacity = {0, 1, 2}
    MaxTokens = 2
    SubscribeInputs <- MCSubscribeInputs
    PublishInputs <- MCPublishInputs
    AttributeInputs <- MCAttributeInputs
    Policy <- MCPolicy
    Loaded <- NothingLoaded
    Free = Free
    Nil = Nil
CHECK_DEADLOCK FALSE
PROPERTIES
    ConfirmationWorks
