SPECIFICATION FairSpec
CONSTANTS
    Clients = {c1, c2}
    Slots <- MCSlots
    Commands <- Defaults
    Faults = {"load"}
    Habits = {}
INVARIANTS
    EndsUnused
