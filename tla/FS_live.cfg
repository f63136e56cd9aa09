SPECIFICATION FairSpec
CONSTANTS
    t1 = t1
    t2 = t2
    home = home
    c1 = c1
    c2 = c2
    None = None
    Tabs <- MCTabs
    Paths <- OneCopyPaths
    CopyPaths <- OneCopy
    Home = home
    FirstTab = t1
    RequestIds = {1, 2}
    Env = {"saveClose", "ioError", "open", "close", "saveAs", "lateError"}
    MaxData = 1
    MaxSaves = 1
    MaxOutside = 1
    MaxQueue = 1
INVARIANTS
    OneTabPerTrackedPath
    PendingIsInFlight
PROPERTIES
    RequestsAnswered
    ClosingEnds
CHECK_DEADLOCK FALSE
