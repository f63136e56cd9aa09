SPECIFICATION FairSpec
CONSTANTS
    Notes = {"n1", "n2"}
    Paths = {"a", "b", "c"}
    None = None
    Home <- TwoFiles
    Tabs = {1, 2, 3}
    MaxResident = 1
    Uses = {"save", "trash", "move", "title", "outside", "retry", "switch", "exit", "fault"}
    MaxTexts = 2
    MaxRequests = 1
    MaxSelects = 2
    MaxFaults = 1
INVARIANTS
    IInv
    OneTabPerNote
    TextIsKept
PROPERTIES
    NewerTextWins
    MovedWithItsText
    UnsavedStaysOpen
CHECK_DEADLOCK FALSE
