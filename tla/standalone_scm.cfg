SPECIFICATION FairSpec
CONSTANTS
    Clients = {c1, c2, c3}
    Slots <- MCSlots
    Commands <- MCCommands
    Faults = {"load", "suspend", "reregister"}
    Habits = {}
INVARIANTS
    ExitGuardArmed
    ImmediateExit
    ExitClosesDoor
    NoInstanceAbandoned
    ReadyMeansReachable
PROPERTIES
    IdleHostExits
    LifetimeSpec
