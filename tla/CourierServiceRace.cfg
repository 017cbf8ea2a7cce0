\* An administrator assigns an order while the consumer does.
SPECIFICATION Spec
CONSTANTS
    Couriers = {c1, c2}
    Orders = {o1}
    Assignments = {a1, a2}
    None = None
    HttpSessions = {h1}
    ConsumerSessions = {k1}
    NoTxn = NoTxn
SYMMETRY Symmetry
INVARIANTS
    OneAssignmentPerOrder
CHECK_DEADLOCK FALSE
