\* A node and a checkpoint, two hosts, one call at a time.
CONSTANTS
    Agent = {a}
    Check = {k}
    Executor = {x, y}
    Caller = {c}
    Concurrency = 1
    NoExecutor = NoExecutor
SPECIFICATION Spec
SYMMETRY Symmetry
CONSTRAINT SmallGraph
INVARIANTS
    OneExecution
    CancelledIsQuiet
    DependenciesFirst
PROPERTIES
    LateReportIgnored
CHECK_DEADLOCK FALSE
