\* One controller, a source that moves on and back, a selection that is edited and
\* edited back, and two tags.
SPECIFICATION Spec
CONSTANTS
    Procs = {r1}
    Digests = {"a", "b"}
    Tags = {"v1", "v2"}
    Selections = {"s", "t"}
    MaxMoves = 2
    MaxEdits = 2
INVARIANTS
    NoDuplicate
    OneBundlePerChange
    SeenIsTaken
