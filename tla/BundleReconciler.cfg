\* Two Bundles that share an artifact race for one slot; a hold names the first.
SPECIFICATION Spec
CONSTANTS
    None = None
    Bundles = {1, 2}
    typeOf <- MCOneType
    carries <- MCCarriesSame
    Held = {1}
    Limit = 1
    StepOutcomes = {"running", "failing", "rollingBack", "superseded", "verified"}
    MaxRejected = 1
    ReadsFail = TRUE
INVARIANTS
    BundlesSafe
PROPERTIES
    SettledStays
CHECK_DEADLOCK FALSE
