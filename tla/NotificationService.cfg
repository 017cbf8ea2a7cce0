\* Four messages about two events, the second message poison, two attempts
\* each.
SPECIFICATION FairNotificationSpec
CONSTANTS
    MaxRetries = 1
    DlqEnabled = TRUE
    Poison = {2}
    MaxLog = 4
    MaxFaults = 3
    e1 = e1
    e2 = e2
    u1 = u1
    Users = {u1}
    NoUser = NoUser
    Events <- MCEvents
    NoEvent = NoEvent
    MaxManual = 1
INVARIANTS
    CommittedHasEffect
    RepeatsNeedFaults
    EffectsInOrder
    OneNotificationPerEvent
    CommittedIsNotified
PROPERTIES
    EveryMessageIsDealtWith
CHECK_DEADLOCK FALSE
