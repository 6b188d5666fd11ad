SPECIFICATION Spec
CONSTANTS
    Keys <- MCKeys
    Levels <- MCLevels
PROPERTIES FullScanExact ScanMovesOn SeekFindsKey
