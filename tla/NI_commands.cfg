SPECIFICATION Spec
CONSTANTS
    x = x
    y = y
    None = None
    Paths <- FourPaths
    CaseOnly <- MCCaseOnly
    Renamed <- MCRenamed
    Bodies = {x, y}
    Blank = x
    Home <- TwinHome
    Content <- MCContent
    Rank <- MCRank
    Reports = {"paired"}
    Outside = {}
    MaxNotes = 4
    MaxCommands = 3
    MaxFaults = 2
    MaxOutside = 0
INVARIANTS
    IInv
    CatalogMatchesDisk
    UnfinishedRenamesRecoverable
PROPERTIES
    WorkerLosesNoFile
    RemovesTheDeleted
CHECK_DEADLOCK FALSE
