\* Two threads with two messages, one of them from an earlier session.
CONSTANTS
    Threads = {"t1", "t2"}
    Stored = {"t2"}
    MaxMessages = 2
    None = None
SPECIFICATION Spec
INVARIANT QueueIsItsThreads
CHECK_DEADLOCK FALSE
