SPECIFICATION FairSpec
CONSTANTS
    Clients = {c1, c2}
    Slots <- MCSlots
    Commands <- FullCommands
    Faults = {"original", "register", "revoke", "resume", "load"}
    Habits = {"factory", "control", "lock", "crash"}
INVARIANTS
    TypeOK
    ServerRefsBalanced
    ModalNesting
    GuardLostOnlyUnused
    ReadyMeansRegistered
PROPERTIES
    ExitIsCarriedOut
\* The host may wait for ever for clients that cannot reach it: its exit was
\* lost in a message box of the constructor (run standalone_lost_exit).
CHECK_DEADLOCK FALSE
