SPECIFICATION Spec
CONSTANTS
    Components <- Two
    Tcbs <- AllFive
    LevelTcbs <- LowLevels
    MaxCerts = 3
    MaxLevels = 3
INVARIANTS
    TypeOK
    FoundIfOneFits
    HighestLevel
    HighestOfComparable
