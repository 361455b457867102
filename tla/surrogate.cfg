SPECIFICATION FairSpec
CONSTANTS
    Clients = {c1, c2}
    Slots <- MCSlots
    ComCounts = {TRUE, FALSE}
    Faults = {"surrogate", "register", "revoke", "load"}
INVARIANTS
    AbandonedOnlyIfReopened
    FreedServesNobody
PROPERTIES
    UnusedSurrogateEnds
