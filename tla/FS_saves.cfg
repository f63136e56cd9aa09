SPECIFICATION Spec
CONSTANTS
    t1 = t1
    t2 = t2
    home = home
    c1 = c1
    c2 = c2
    None = None
    Tabs <- MCTabs
    Paths <- OneCopyPaths
    CopyPaths <- OneCopy
    Home = home
    FirstTab = t1
    RequestIds = {1}
    Env = {"undo", "saveClose", "rename", "delete", "echo"}
    MaxData = 2
    MaxSaves = 2
    MaxOutside = 1
    MaxQueue = 1
INVARIANTS
    IInv
    ClosingTabAwaitsSave
PROPERTIES
    SaveLineage
    BaselineRecognised
    NoSelfConflict
    DirtyTextKept
    CopyHoldsText
CHECK_DEADLOCK FALSE
