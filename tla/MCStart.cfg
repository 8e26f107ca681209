SPECIFICATION Spec
CONSTANTS
    q1 = q1
    q2 = q2
    q3 = q3
    t1 = t1
    NoName = NoName
    Name = {q1, q2, q3}
    TopicName = {t1}
    Configs <- MCConfigs
CHECK_DEADLOCK FALSE
INVARIANTS
    TypeOK
    TargetsInTable
    TablesAsConfigured
PROPERTIES
    ComesUp
