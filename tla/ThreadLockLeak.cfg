\* An interface that raises while it handles an event of the turn.
CONSTANTS
    Run = {a, b}
    Process = {p}
    Thread = {t}
    MaxWrites = 1
    NoRun = NoRun
    NoProcess = NoProcess
    NoThread = NoThread
SPECIFICATION Spec
INVARIANT LockGivenBack
CHECK_DEADLOCK FALSE
