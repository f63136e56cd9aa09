SPECIFICATION FairSpec
CONSTANTS
    s1 = s1
    s2 = s2
    None = None
    Torn = Torn
    Savers <- TwoSavers
    Attempts = 2
    MaxWrites = 3
    MaxNames = 1
INVARIANTS
    NoTornFile
    SuccessIsDurable
PROPERTIES
    ReplacesWhatItChecked
    ImplementsContract
    SavesEnd
