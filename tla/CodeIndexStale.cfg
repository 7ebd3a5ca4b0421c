\* A script asks two queries of a file that changes twice.
CONSTANTS
    Scripts = {"p1"}
    Files = {"f1"}
    Queries = {"A", "B"}
    MaxChanges = 2
    MaxSearches = 4
    None = None
SPECIFICATION Spec
INVARIANT AnswerIsCurrent
CHECK_DEADLOCK FALSE
