\* Two racing Bundles, one of which may be rejected or held.
SPECIFICATION Spec
CONSTANTS
    None = None
    Bundles = {1, 2}
    MaxStops = 1
    Retires = TRUE
INVARIANTS
    PushSafe
PROPERTIES
    OlderNeverLandsOverNewer
    WithdrawnStaysWithdrawn
CHECK_DEADLOCK FALSE
