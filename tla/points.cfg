SPECIFICATION Spec
CONSTANTS
    Points = {p1, p2}
    Sinks = {s1, s2}
    Cookies = {k1}
    None = None
    Wrapper = Wrapper
    MaxObjects = 4
    MaxHeld = 1
    Habits = {"drops", "clones"}
INVARIANTS
    TypeOK
    RefsBalanced
    MapsMatchControl
    ClientSeesOwnSinks
    NoWrapperForLive
    LeftoverIsTheCycle
\* When everything has been released, nothing is called any more.
CHECK_DEADLOCK FALSE
