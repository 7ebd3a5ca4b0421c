\* One node that two hosts may execute, with fairness.
CONSTANTS
    Agent = {a}
    Check = {}
    Executor = {x, y}
    Caller = {c}
    Concurrency = 1
    NoExecutor = NoExecutor
SPECIFICATION FairSpec
PROPERTY RunningEnds
CHECK_DEADLOCK FALSE
