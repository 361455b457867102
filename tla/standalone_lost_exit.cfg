SPECIFICATION FairSpec
CONSTANTS
    Clients = {c1}
    Slots <- MCSlots
    Commands <- TwoDefaults
    Faults = {"register"}
    Habits = {}
PROPERTIES
    IdleHostExits
CHECK_DEADLOCK FALSE
