SPECIFICATION FairSpec
CONSTANTS
    Notes = {"n1"}
    Paths = {"a", "b"}
    None = None
    Home <- OneFile
    Tabs = {1, 2}
    MaxResident = 1
    Uses = {"save", "trash", "title", "retry", "fault"}
    MaxTexts = 2
    MaxRequests = 2
    MaxSelects = 1
    MaxFaults = 1
PROPERTIES
    EditsSettle
    DeferredEnd
CHECK_DEADLOCK FALSE
