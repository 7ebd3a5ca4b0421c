\* The parts of a conversation and of its terminal.
CONSTANTS
    None = None
    Hosts = {"h1", "h2"}
    MaxTurns = 2
    MaxRounds = 2
    MaxCalls = 2
    MaxPerRound = 2
    MaxCompactions = 1
    MaxJudges = 1
    Sizes = {1, 3}
    Quoting = TRUE
    TagTokens = 1
    SuffixTokens = 2
    NoteTokens = 2
    AskTokens = 1
    SummaryTokens = 1
    UserBudget = 6
    RecentBudget = 7
    ContextWindow = 12
    Threshold = 9
    Candidates = {1, 3}
    Remaining = {5, 60}
    ReadCost = 1
    WriteCost = 4
    MinGain = 1
    MaxItems = 5
    MaxInARow = 2
    MaxBlocks = 2
    MaxPieces = 2
    MaxRetries = 1
    GoalThreads = {"t1"}
    All = "all"
    Objectives = {"none", "ship"}
    Tasks = {"k"}
    MaxCommands = 3
    MaxRestarts = 1
    Chain <- MCChain
    Children <- MCChildren
    AgentFiles <- MCAgentFiles
    Size <- MCSize
    MaxFile = 2
    MaxTotal = 3
    MaxDepth = 2
    MaxEntries = 4
    MaxSteps = 4
    Prompts = {1, 2}
    Permits = 2
    MaxTries = 2
    MaxPosts = 3
    MaxEvents = 6
    MaxReads = 2
    Threads = {"t1", "t2"}
    StoredThreads = {"t2"}
    MaxMessages = 2
    MaxChunks = 3
    MaxVisits = 1
    Rows = 6
    Chrome = {2, 3}
    CellRows = {0, 1, 4}
    FlushRows = {1, 2, 7}
    MaxTranscript = 10
    MaxDraft = 2
    MaxImages = 1
    MaxStarts = 1
SPECIFICATION Spec
INVARIANTS
    
    CompactionKeepsTheNewest
    ClientIsFaithful
    GoalIsKnown
    RulesReachTheModel
    SubagentAnswersItsCaller
    
    WaitingHasStarter
    ScreenMatchesHistory
    TranscriptKept
PROPERTIES
    CtrlCIsAsked
CHECK_DEADLOCK FALSE
