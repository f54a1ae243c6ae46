SPECIFICATION Spec
CONSTANTS
    None = 99
    MaxPR = 2
    Settings <- MCSettings
INVARIANTS
    AdvanceMeansMerged
PROPERTIES
    WaitSafe
    NoLateMerge
    RejectedMergedIsLive
CHECK_DEADLOCK FALSE
