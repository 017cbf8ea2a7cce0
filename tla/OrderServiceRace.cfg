\* One order under one HTTP thread and the consumer, with nothing that keeps
\* their transactions apart.
SPECIFICATION Spec
CONSTANTS
    Orders = {o1}
    Couriers = {c1}
    NoCourier = NoCourier
    HttpSessions = {h1}
    ConsumerSessions = {k1}
    NoTxn = NoTxn
    MaxEvents = 4
PROPERTIES
    StatusTransitionsValidated
CHECK_DEADLOCK FALSE
