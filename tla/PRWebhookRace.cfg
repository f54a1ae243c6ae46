SPECIFICATION Spec
CONSTANTS
    None = 99
    MaxPR = 2
    Settings <- RaceSettings
INVARIANTS
    AdvanceMeansMerged
CHECK_DEADLOCK FALSE
