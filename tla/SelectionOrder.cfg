SPECIFICATION Spec
CONSTANTS
    Components <- Two
    Tcbs <- ChainBeside
    LevelTcbs <- Lowest
    MaxCerts = 4
    MaxLevels = 1
INVARIANTS
    NoneBetterFits
