SPECIFICATION Spec
CONSTANTS
    Chars = {"x"}
    Initial <- OneCharacter
    None = None
    Env = {"save"}
    UndoLimit = 9
    MaxLen = 2
    MaxRevisions = 3
INVARIANTS
    AnchorIsOnTop
    GenerationsGrow
PROPERTIES
    CompletionsKeepNewText
    ImplementsTimeline
CHECK_DEADLOCK FALSE
