\* Two couriers and two orders under transactions that share neither.
SPECIFICATION SerialSpec
CONSTANTS
    Couriers = {c1, c2}
    Orders = {o1, o2}
    Assignments = {a1, a2, a3}
    None = None
    HttpSessions = {h1}
    ConsumerSessions = {k1}
    NoTxn = NoTxn
SYMMETRY Symmetry
INVARIANTS
    LastMessageIsStatus
    OneAssignmentPerOrder
    BusyIsWorking
PROPERTIES
    AssignmentTransitionsValidated
CHECK_DEADLOCK FALSE
