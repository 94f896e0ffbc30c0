SPECIFICATION FairSpec
CONSTANTS
    Users = {anna, guest}
    FirstUser = guest
    Keys = {k}
    kMaxPendingWrites = 2
    MaxWrites = 3
    MaxForeign = 1
    MaxFaults = 2
    anna = anna
    guest = guest
    k = k
CHECK_DEADLOCK FALSE
INVARIANTS
    TypeOK
    PipelineConsistent
    KeptInOrder
    ToldTheTruth
PROPERTIES
    ViewHandedOver
    Delivers
    QueueDrains
