CONSTANTS
    Orders = {o1, o2}
    Couriers = {c1, c2}
    NoCourier = NoCourier
    NoRow = NoRow
    MaxEvents = 3
    MaxFaults = 1
    MaxLocations = 1

SPECIFICATION FairAdminSpec

INVARIANTS
    GapHasCause
    SharesAreShares

PROPERTIES
    StrangerOnlyWhileBehind
    TrackingConverges
