SPECIFICATION Spec
CONSTANTS
    f1 = f1
    f2 = f2
    none = none
    Tabs <- MCTabs
    Paths <- MCPaths
    Ids <- MCIds
    None <- none
    Present <- MCPresent
    MaxTexts = 3
    MaxWrites = 2
    MaxStarts = 2
    MaxFaults = 1
INVARIANTS
    IInv
    KeptTextOnDisk
PROPERTIES
    QuitKeepsAll
    ReplacedWasKnown
CHECK_DEADLOCK FALSE
