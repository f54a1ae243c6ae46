\* One owner and the quota, two concurrent calls; calls finish and time passes.
SPECIFICATION FairSpec
CONSTANTS
    Owners = {o1}
    Quota = Quota
    NoOwner = NoOwner
    Calls = {c1, c2}
    FailureThreshold = 2
    MaxOpenings = 2
INVARIANTS
    RegistrySafe
PROPERTIES
    NoWedge
    BackoffGrowsOnlyByProbes
