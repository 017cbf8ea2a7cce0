\* The dead letter topic refuses one message.
SPECIFICATION Spec
CONSTANTS
    MaxRetries = 1
    DlqEnabled = TRUE
    Poison = {1}
    MaxLog = 2
    MaxFaults = 1
INVARIANTS
    ExhaustedIsDeadLettered
CHECK_DEADLOCK FALSE
