SPECIFICATION Spec
CONSTANTS
    Requests <- MCRequests
    Faults = {"logfile", "languages", "com", "security", "registry", "surrogate"}
    Char <- Chars
    Backslash = "backslash"
    Quote = "quote"
    Blank = "blank"
    Slash = "slash"
    Special = {"ampersand"}
    Lines <- MCLines
    KeyOrder <- MCKeyOrder
    Controls <- MCControls
    Word = 65536
    Inputs <- MCInputs
INVARIANTS
    TypeOK
    LoggingAsAsked
    ClassesAsDocumented
    NoSilentEnd
    RoundTrip
    LatestVersion
    SourceAsDeclared
\* A process that has ended.
CHECK_DEADLOCK FALSE
