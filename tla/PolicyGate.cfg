SPECIFICATION LiveSpec
CONSTANTS
    person = person
    brief = brief
    agent = agent
    Budgets <- MCBudgets
    Heartbeat = 2
    Recheck = 4
    Overrides = {person, brief, agent}
    Lists <- MCLists
    Expires <- MCExpires
    Ahead = {}
    Agents = {agent}
    Cap = 2
    MaxRecords = 2
    EvalTime = 1
    Never = 99
INVARIANTS
    FreshVerdict
    ResultIsComing
    OverrideWithinCap
    OverrideEndNoticed
PROPERTIES
    PendingStepStarts
CHECK_DEADLOCK FALSE
