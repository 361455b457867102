SPECIFICATION FairSpec
CONSTANTS
    Clients = {c1}
    Slots <- MCSlots
    ComCounts = {TRUE}
    Faults = {}
PROPERTIES
    WarningIsTrue
