SPECIFICATION Spec
CONSTANTS
    Chars = {"x"}
    Initial <- TwoCharacters
    None = None
    Env = {"deleteAfterUndo"}
    UndoLimit = 9
    MaxLen = 3
    MaxRevisions = 4
INVARIANT UndoIsReversible
CHECK_DEADLOCK FALSE
