SPECIFICATION FairSpec
CONSTANTS
    t1 = t1
    t2 = t2
    home = home
    c1 = c1
    c2 = c2
    None = None
    Tabs <- MCTabs
    Paths <- OneCopyPaths
    CopyPaths <- OneCopy
    Home = home
    FirstTab = t1
    RequestIds = {1}
    Env = {"saveAs"}
    MaxData = 3
    MaxSaves = 2
    MaxOutside = 1
    MaxQueue = 1
PROPERTIES
    SavedTextIsCurrent
CHECK_DEADLOCK FALSE
