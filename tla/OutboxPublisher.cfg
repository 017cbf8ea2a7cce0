SPECIFICATION FairSpec
CONSTANTS
    e1 = e1
    e2 = e2
    e3 = e3
    x1 = x1
    a1 = a1
    a2 = a2
    Events <- MCEvents
    Aggregates = {a1, a2}
    AggregateOf <- MCAggregateOf
    Locked = {a1}
    Poison = {x1}
    BatchSize = 2
    MaxFaults = 2
INVARIANTS
    PublishedIsInTopic
    DuplicatesNeedFaults
    OvertakenOnlyAfterFailure
PROPERTIES
    ImplementsRelay
    PendingIsPublished
CHECK_DEADLOCK FALSE
