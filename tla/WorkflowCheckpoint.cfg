\* What comes after a checkpoint.
CONSTANTS
    Agent = {a}
    Check = {k}
    Executor = {x}
    Caller = {c}
    Concurrency = 1
    NoExecutor = NoExecutor
SPECIFICATION Spec
CONSTRAINT SmallGraph
INVARIANT CheckpointHolds
CHECK_DEADLOCK FALSE
