\* The parts of MCProgress, each in behaviours of its own; three steps and a restart on a branch.
SPECIFICATION PartsSpec
CONSTANTS
    Steps = {1, 2, 3}
    MaxNow = 3
    MaxWait = 1
    Grace = 1
    MaxRestarts = 1
PROPERTIES
    RefusedFirstServedFirst
    OneWriterAtATime
    EveryStepGetsItsTurn
    RollbackIsRecorded
    StartedRunEnds
    DueKeyServed
    EventuallyOne
    AllRecordsWritten
CHECK_DEADLOCK FALSE
