SPECIFICATION Spec
CONSTANTS
    Chars = {"x"}
    Initial <- TwoCharacters
    None = None
    Env = {"save"}
    UndoLimit = 9
    MaxLen = 3
    MaxRevisions = 4
INVARIANT CleanIsSaved
CHECK_DEADLOCK FALSE
