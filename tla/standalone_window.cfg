SPECIFICATION FairSpec
CONSTANTS
    Clients = {c1}
    Slots <- MCSlots
    Commands <- Defaults
    Faults = {}
    Habits = {}
INVARIANTS
    MultiUseWindowOpen
