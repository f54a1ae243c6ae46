\* Parts as in Safety.cfg: what the queue's comments say of active.
SPECIFICATION PartsSpec
CONSTANTS
    Steps = {1}
    MaxNow = 0
    MaxWait = 1
    Grace = 1
    MaxRestarts = 0
    Configs <- MCConfigs
    Timeout = 2
    Window = 2
    MaxDuration = 5
    AnalysisTimeout = 1
    MaxGap = 2
    MaxErrors = 1
    BakeMaxNow = 20
    MaxNowStale = 7
    Envs = {"a", "b"}
    Regions = {"r1", "r2"}
    RollbackSettings <- MCRollbackSettings
    Hooks = {1, 2}
    First = {1}
    Vers = {1, 2, 3}
    BadVers = {3}
    HookTimeout = 2
    RecordGrace = 1
    HookSettings <- MCHookSettings
    Keys = {"a1", "a2"}
    Home <- MCHome
    Adders = {"x"}
    Workers = {1, 2}
    Span = 10
    Buckets = {1}
    Aging = 1
    FairSettings <- MCFairSettings
    Procs = {1, 2}
    CreateGrace = 2
    Latency = 1
    Lag = 1
    MaxTickets = 2
    ChangeSettings <- MCChangeSettings
    Controllers = {1, 2}
    Limit = 2
    Stories <- MCStories
INVARIANT
    QueueCountsOnce
CHECK_DEADLOCK FALSE
