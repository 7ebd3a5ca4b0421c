\* Two threads, detached calls, two permits, aclose at any moment.
CONSTANTS
    Request = {r1, r2, r3}
    Thread = {t1, t2}
    Task = {w1, w2, w3}
    MaxTurns = 2
    NoRequest = NoRequest
    NoThread = NoThread
    NoTask = NoTask
SPECIFICATION Spec
SYMMETRY Symmetry
INVARIANTS
    OneTurnPerThread
    PermitsBalance
    CloseSettles
CHECK_DEADLOCK FALSE
