SPECIFICATION Spec
CONSTANTS
    Attempts = 4
    Request <- Tries
INVARIANTS
    TypeOK
    OneExecution
    NoSilentRepeat
    KeyNotLeaked
PROPERTIES
    ReplayIsCurrent
CHECK_DEADLOCK FALSE
