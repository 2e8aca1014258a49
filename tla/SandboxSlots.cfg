SPECIFICATION Spec
CONSTANTS
    Simulation = {s1, s2, s3}
    Slots = 1
INVARIANTS
    TypeOK
    SlotsConserved
    NothingLeft
    ServersWithinSlots
PROPERTIES
    SlotComesBack
CHECK_DEADLOCK FALSE
