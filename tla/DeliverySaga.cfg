\* One order, two couriers, two assignments of it, one failure.
SPECIFICATION FairSagaSpec
CONSTANTS
    Orders = {o1}
    Couriers = {c1, c2}
    Assignments = {a1, a2}
    None = None
    NoTxn = NoTxn
    Http = http
    Kafka = kafka
    MaxEvents = 8
    MaxPending = 2
    MaxTopic = 4
    MaxFaults = 1
INVARIANTS
    OrderOnlyClaims
    CaughtUpAgrees
PROPERTIES
    DeliveryArrives
CHECK_DEADLOCK FALSE
