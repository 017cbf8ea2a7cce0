\* Two orders under two HTTP threads, with three payments to make.
SPECIFICATION Spec
CONSTANTS
    Payments = {p1, p2, p3}
    Orders = {o1, o2}
    None = None
    Sessions = {h1, h2}
    NoTxn = NoTxn
    Disputed = Disputed
SYMMETRY Symmetry
INVARIANTS
    OneActivePayment
    RowMatchesHistory
PROPERTIES
    ImplementsLedger
CHECK_DEADLOCK FALSE
