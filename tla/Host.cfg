\* The services of the host.
CONSTANTS
    None = None
    Daemons = {"p1", "p2", "p3"}
    Schedule = {"once", "often"}
    Kind <- MCKind
    Policy <- MCPolicy
    MaxJobs = 2
    MaxRuns = 2
    MaxTicks = 2
    MaxEdits = 1
    MaxStarts = 2
    Message <- MCMessage
    MaxTries = 2
    Discovered <- MCDiscovered
    Dependencies <- MCDependencies
    Priority <- MCPriority
    Namespace <- MCNamespace
    MayBeDisabled = {"b"}
    MaxTasks = 1
    Clients = {"c1", "c2"}
    ThreadIds = {"t1", "t2"}
    ExternalIds = {"x1"}
    MaxEvents = 3
    Contents = {"c", "d"}
    Uploads = {"u1", "u2", "u3"}
    BlobThreads = {"ta", "tb"}
    NoThread = "nobody"
    Owner <- MCOwner
    Paths = {"a", "b"}
    SomeFiles <- MCFiles
    Patches <- MCPatches
    Texts <- MCTexts
    MaxFileEdits = 2
    Tasks = {"t1", "t2"}
    Branches = {"b1", "b2"}
    Slots = {1, 2}
    MaxOps = 3
    Home = "home"
    Hosts = {"h1", "h2"}
    Scripts = {"s1"}
    MaxCrashes = 1
    MaxRobbed = 1
    Askers = {"p1", "p2"}
    Sources = {"f1"}
    Queries = {"A"}
    MaxChanges = 2
    MaxSearches = 4
    MaxCalls = 2
    MaxWorkers = 2
    Servers = {"s"}
SPECIFICATION Spec
INVARIANTS
    
    RunsAsScheduled
    
    SetUpOnDependencies
    HistoryIsWhole
    
    
    EnvIsPrepared
    AnswerIsCurrent
    WorkerServesItsClient

    
CHECK_DEADLOCK FALSE
