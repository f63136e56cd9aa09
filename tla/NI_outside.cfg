SPECIFICATION FairSpec
CONSTANTS
    x = x
    y = y
    None = None
    Paths <- MCPaths
    CaseOnly <- NoCaseOnly
    Renamed <- MCRenamed
    Bodies = {x, y}
    Blank = x
    Home <- MCHome
    Content <- MCContent
    Rank <- MCRank
    Reports = {"paired"}
    Outside = {"create", "edit", "rename", "delete"}
    MaxNotes = 6
    MaxCommands = 1
    MaxFaults = 0
    MaxOutside = 2
PROPERTIES
    IdentityKept
    IndexSettles
CHECK_DEADLOCK FALSE
