\* Two processes, one thread, three turns of two events each.
CONSTANTS
    Run = {a, b, c}
    Process = {p, q}
    Thread = {t}
    MaxWrites = 2
    NoRun = NoRun
    NoProcess = NoProcess
    NoThread = NoThread
SPECIFICATION Spec
SYMMETRY Symmetry
INVARIANTS
    OneTurnAtATime
    LockHasTurn
    TurnsContiguous
CHECK_DEADLOCK FALSE
