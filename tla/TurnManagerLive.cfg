\* One thread and detached calls, one permit, with fairness.
CONSTANTS
    Request = {r1, r2}
    Thread = {t1}
    Task = {w1, w2}
    MaxTurns = 1
    NoRequest = NoRequest
    NoThread = NoThread
    NoTask = NoTask
SPECIFICATION FairSpec
PROPERTIES
    HandlesFinish
    CloseReturns
CHECK_DEADLOCK FALSE
