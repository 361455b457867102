SPECIFICATION Spec
CONSTANTS
    c1 = c1
    c2 = c2
    Tools = {t1}
    Classes = {c1, c2}
    AppIds = {}
    None = None
    NoKey = NoKey
    Levels = {debug}
    Dirs = {logs}
    CommandLines <- MCCommandLines
    Faults = {"skips"}
PROPERTY
    UnregisterReportIsTrue
