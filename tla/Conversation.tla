------------------------------ MODULE Conversation ------------------------------
(***************************************************************************)
(* The conversation of a thread: what it is rebuilt from, the client of    *)
(* the model, the goal and the rules it is told of, the subagents it asks, *)
(* the view of a script, and the terminal.  Each is a module; a behaviour  *)
(* is one of one part, and the parts share the slots s1, s2, ... for their *)
(* variables.                                                              *)
(***************************************************************************)
EXTENDS Naturals, Sequences

CONSTANTS
    None,                                              \* a model value
    Hosts, MaxTurns, MaxRounds, MaxCalls, MaxPerRound, MaxCompactions, MaxJudges, \* Transcript
    Sizes, Quoting, TagTokens, SuffixTokens, NoteTokens, AskTokens, SummaryTokens, \* Compaction
    UserBudget, RecentBudget, ContextWindow, Threshold, Candidates, Remaining,
    ReadCost, WriteCost, MinGain, MaxItems, MaxInARow,
    MaxBlocks, MaxPieces, MaxRetries,                  \* ModelStream
    GoalThreads, All, Objectives, Tasks, MaxCommands, MaxRestarts, \* Goal
    Chain, Children, AgentFiles, Size, MaxFile, MaxTotal, MaxDepth, MaxEntries, MaxSteps, \* ProjectRules
    Prompts, Permits, MaxTries, MaxPosts,              \* Subagent
    MaxEvents, MaxReads,                               \* History
    Threads, StoredThreads, MaxMessages,               \* Runs
    MaxChunks, MaxVisits,                              \* Screen
    Rows, Chrome, CellRows, FlushRows, MaxTranscript,  \* Renderer
    MaxDraft, MaxImages, MaxStarts                     \* Composer

VARIABLES part, s1, s2, s3, s4, s5, s6, s7, s8, s9, s10, s11, s12, s13, s14

\* The slots beyond those of a part, which it leaves alone.
Beyond3 == <<s4, s5, s6, s7, s8, s9, s10, s11, s12, s13, s14>>
Beyond4 == <<s5, s6, s7, s8, s9, s10, s11, s12, s13, s14>>
Beyond6 == <<s7, s8, s9, s10, s11, s12, s13, s14>>
Beyond9 == <<s10, s11, s12, s13, s14>>
Beyond10 == <<s11, s12, s13, s14>>
Beyond12 == <<s13, s14>>
Beyond13 == <<s14>>
NoneBeyond13 == s14 = None
NoneBeyond12 == s13 = None /\ NoneBeyond13
NoneBeyond10 == s11 = None /\ s12 = None /\ NoneBeyond12
NoneBeyond9 == s10 = None /\ NoneBeyond10
NoneBeyond6 == s7 = None /\ s8 = None /\ s9 = None /\ NoneBeyond9
NoneBeyond4 == s5 = None /\ s6 = None /\ NoneBeyond6
NoneBeyond3 == s4 = None /\ NoneBeyond4

-----------------------------------------------------------------------------
\* A thread, its turns, its hosts.
Tr == INSTANCE Transcript WITH
    Host <- Hosts, base <- s1, compacted <- s2, events <- s3, rules <- s4, live <- s5, turn <- s6,
    calls <- s7, used <- s8, told <- s9, lost <- s10, retried <- s11, resumed <- s12

\* What a compaction keeps, within its budgets.
Cp == INSTANCE Compaction WITH
    Tag <- TagTokens, Suffix <- SuffixTokens, Note <- NoteTokens, Ask <- AskTokens,
    Summary <- SummaryTokens, Window <- ContextWindow, Read <- ReadCost, Write <- WriteCost,
    MaxCompactions <- MaxInARow, Never <- None,
    items <- s1, turn <- s2, usage <- s3, shown <- s4, last <- s5, made <- s6

\* Requests to a provider, and the streams that answer them.
M == INSTANCE ModelStream WITH
    Nothing <- None, items <- s1, api <- s2, request <- s3, answer <- s4, acc <- s5, shown <- s6,
    response <- s7, stage <- s8, rounds <- s9, retries <- s10

\* The text of a turn on its way to the screen.
S == INSTANCE Screen WITH
    phase <- s1, log <- s2, said <- s3, thinking <- s4, round <- s5, chunk <- s6, breaks <- s7,
    view <- s8, here <- s9, visits <- s10

\* The terminal and the program that draws on it.
V == INSTANCE Renderer WITH ren <- s1, term <- s2, written <- s3

-----------------------------------------------------------------------------
\* The goal of a thread.
broker == s1
goal == s2
tasks == s3
index == s4
metadata == s5
full == s6
turnStage == s7
history == s8
fresh == s9
enabledHere == s10
commands == s11
compactions == s12
restarts == s13
G == INSTANCE Goal WITH Threads <- GoalThreads, kept <- enabledHere

-----------------------------------------------------------------------------
\* The rule files of a project.
present == s1
state == s2
kept == s3
cwd == s4
agent == s5
input == s6
behind == s7
gone == s8
steps == s9
Ru == INSTANCE ProjectRules WITH Nowhere <- None

-----------------------------------------------------------------------------
\* Scripts and schedules that have a prompt answered by a turn.
threads == s1
turns == s2
calls == s3
requests == s4
Sa == INSTANCE Subagent WITH Calls <- Prompts, New <- None

-----------------------------------------------------------------------------
\* A thread that is read while it is written.
log == s1
meta == s2
ran == s3
turn == s4
reader == s5
cache == s6
H == INSTANCE History

-----------------------------------------------------------------------------
\* The turns of the terminal.
runs == s1
current == s2
messages == s3
ready == s4
interrupted == s5
attached == s6
listed == s7
view == s8
stopping == s9
R == INSTANCE Runs WITH Stored <- StoredThreads, turns <- messages

-----------------------------------------------------------------------------
\* The keyboard of the terminal.
draft == s1
cursor == s2
images == s3
nextImage == s4
past == s5
recall == s6
palette == s7
armed == s8
paste == s9
running == s10
begun == s11
page == s12
done == s13
asked == s14
C == INSTANCE Composer WITH MaxTurns <- MaxStarts, turns <- begun

-----------------------------------------------------------------------------
(* What the proofs assume of the constants.                                *)

\* None is none of the values it stands for the absence of.
ASSUME ComposerNone == None \notin {"quit", "interrupt"}

\* The directories of a project are a tree below its root, with files in order.
ASSUME RulesTree ==
    /\ Ru!Root \in Ru!Dirs /\ Children \in [Ru!Dirs -> Seq(Ru!Dirs)]
    /\ \A reached \in SUBSET Ru!Dirs :
          (Ru!Root \in reached /\ \A d \in reached : Ru!ToSet(Children[d]) \subseteq reached)
              => reached = Ru!Dirs
    /\ \A d \in Ru!Dirs : AgentFiles[d] \in Seq(Ru!ToSet(AgentFiles[d]))
    /\ MaxDepth \in Nat /\ MaxEntries \in Nat

\* No prompt has the number of nobody.
ASSUME PromptsNumbered == 0 \notin Prompts

\* No thread of the terminal is the absence of one.
ASSUME ThreadsAreThreads == None \notin Threads

\* A broker's queue for everybody is no thread's.
ASSUME AllIsNoThread == All \notin GoalThreads

\* The text of an answer is not the absence of one.
ASSUME AnswersAreTexts == None # "answer"

-----------------------------------------------------------------------------
Init ==
    \/ part = "transcript" /\ Tr!Init /\ NoneBeyond12
    \/ part = "compaction" /\ Cp!Init /\ NoneBeyond6
    \/ part = "stream" /\ M!Init /\ NoneBeyond10
    \/ part = "goal" /\ G!Init /\ NoneBeyond13
    \/ part = "rules" /\ Ru!Init /\ NoneBeyond9
    \/ part = "subagent" /\ Sa!Init /\ NoneBeyond4
    \/ part = "history" /\ H!Init /\ NoneBeyond6
    \/ part = "runs" /\ R!Init /\ NoneBeyond9
    \/ part = "screen" /\ S!Init /\ NoneBeyond10
    \/ part = "renderer" /\ V!Init /\ NoneBeyond3
    \/ part = "composer" /\ C!Init

Next ==
    \/ part = "transcript" /\ Tr!Next /\ UNCHANGED <<part, Beyond12>>
    \/ part = "compaction" /\ Cp!Next /\ UNCHANGED <<part, Beyond6>>
    \/ part = "stream" /\ M!Next /\ UNCHANGED <<part, Beyond10>>
    \/ part = "goal" /\ G!Next /\ UNCHANGED <<part, Beyond13>>
    \/ part = "rules" /\ Ru!Next /\ UNCHANGED <<part, Beyond9>>
    \/ part = "subagent" /\ Sa!Next /\ UNCHANGED <<part, Beyond4>>
    \/ part = "history" /\ H!Next /\ UNCHANGED <<part, Beyond6>>
    \/ part = "runs" /\ R!Next /\ UNCHANGED <<part, Beyond9>>
    \/ part = "screen" /\ S!Next /\ UNCHANGED <<part, Beyond10>>
    \/ part = "renderer" /\ V!Next /\ UNCHANGED <<part, Beyond3>>
    \/ part = "composer" /\ C!Next /\ UNCHANGED part

vars == <<part, s1, s2, s3, s4, s5, s6, s7, s8, s9, s10, s11, s12, s13, s14>>

Spec == Init /\ [][Next]_vars

-----------------------------------------------------------------------------
(* Properties, each with its part; their modules say what they mean. *)

\* The history of a thread is whole: what a turn sends to the model, what the
\* next turn rebuilds from the log and what was ever stored agree.
TranscriptIsWhole == part = "transcript" => Tr!TranscriptIsWhole

\* A compaction keeps what is newest, asks for what fits, and leaves the task in
\* view.
CompactionKeepsTheNewest == part = "compaction" => Cp!CompactionKeepsTheNewest

\* The model client stores and shows the answer that was sent, and sends a
\* conversation a provider accepts.
ClientIsFaithful == part = "stream" => M!ClientIsFaithful

\* The model is told of the goal that is set, and a list of tasks is the tasks.
GoalIsKnown == part = "goal" => G!GoalIsKnown

\* The rules of where the agent works are in front of the model.
RulesReachTheModel == part = "rules" => Ru!RulesReachTheModel

\* A script that asked a subagent is told of a turn on its own prompt.
SubagentAnswersItsCaller == part = "subagent" => Sa!SubagentAnswersItsCaller

\* What scripts and the terminal read of a thread, page by page, is the thread.
ThreadReadsWhole == part = "history" => H!ThreadReadsWhole

\* A message that waits behind a turn has somebody who will start it.
WaitingHasStarter == part = "runs" => R!WaitingHasStarter

\* What the user saw of a turn is what resuming the thread shows of it.
ScreenMatchesHistory == part = "screen" => S!ScreenMatchesHistory

\* Every row of the transcript is on the terminal or in its scrollback, once and
\* in order.
TranscriptKept == part = "renderer" => V!TranscriptKept

\* A second Ctrl+C does what the first one asked about.
CtrlCIsAsked == [][part = "composer" => C!AsAsked]_vars

=============================================================================
