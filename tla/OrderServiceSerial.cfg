\* Two orders, so that transactions overlap, but never two on one order.
SPECIFICATION SerialSpec
CONSTANTS
    Orders = {o1, o2}
    Couriers = {c1, c2}
    NoCourier = NoCourier
    HttpSessions = {h1}
    ConsumerSessions = {k1}
    NoTxn = NoTxn
    MaxEvents = 6
SYMMETRY SerialSymmetry
INVARIANTS
    HistoryIsChain
    DeliveryHasCourier
    CancelledAtIsFinal
    LastMessageIsRow
PROPERTIES
    ImplementsLifecycle
CHECK_DEADLOCK FALSE
