\* One order under two HTTP threads and the consumer: the interleavings
\* of three transactions on the same row.
SPECIFICATION Spec
CONSTANTS
    Orders = {o1}
    Couriers = {c1, c2}
    NoCourier = NoCourier
    HttpSessions = {h1, h2}
    ConsumerSessions = {k1}
    NoTxn = NoTxn
    MaxEvents = 5
SYMMETRY Symmetry
INVARIANTS
    StatusIsLastEvent
    HistoryIsValidated
    DeliveryFollowsAssignment
    AssignedMessagesNameCourier
CHECK_DEADLOCK FALSE
