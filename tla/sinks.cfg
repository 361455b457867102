SPECIFICATION FairSpec
CONSTANTS
    Sinks = {s1, s2}
    NoCookie = NoCookie
    Stray = Stray
    MaxDepth = 3
    Settings <- MCSettings
INVARIANTS
    TypeOK
    GitMatchesSinks
    DeliveredToOwnSink
    HungOnlyLostOrStarved
PROPERTIES
    EveryInvokeReturns
\* An Invoke that hangs, handlers that wait for a thread of the pool, or no
\* sink that has not come and gone.
CHECK_DEADLOCK FALSE
