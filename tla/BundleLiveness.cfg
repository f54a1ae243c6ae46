\* Two Bundles, one slot, events and retries.
SPECIFICATION FairSpec
CONSTANTS
    None = None
    Bundles = {1, 2}
    typeOf <- MCOneType
    carries <- MCCarriesNone
    Held = {}
    Limit = 1
    StepOutcomes = {"running", "failing", "rollingBack", "verified"}
    MaxRejected = 0
    ReadsFail = FALSE
PROPERTIES
    NothingIsForgotten
CHECK_DEADLOCK FALSE
