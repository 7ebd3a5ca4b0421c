\* One thread, four calls, one permit: queues, takeovers and merges.
CONSTANTS
    Request = {r1, r2, r3, r4}
    Thread = {t1}
    Task = {w1, w2}
    MaxTurns = 1
    NoRequest = NoRequest
    NoThread = NoThread
    NoTask = NoTask
SPECIFICATION Spec
SYMMETRY Symmetry
CONSTRAINT ThreadCallsOnly
INVARIANTS
    MessagesInOrder
    TakeoverAnnounced
    NothingLost
    NothingStranded
PROPERTY ImplementsService
CHECK_DEADLOCK FALSE
