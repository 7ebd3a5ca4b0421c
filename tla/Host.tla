--------------------------------- MODULE Host ---------------------------------
(***************************************************************************)
(* The services around the engine, each a module: a behaviour is one of    *)
(* one part, and the parts share the slots s1, s2, ... for their variables *)
(* (a state that had a hundred would be mostly unused).                    *)
(***************************************************************************)
EXTENDS Naturals, Sequences, FiniteSets

CONSTANTS
    None,                                              \* a model value
    Daemons,                                           \* Daemon
    Schedule, Kind, Policy, MaxJobs, MaxRuns, MaxTicks, MaxEdits, MaxStarts, \* Scheduler
    Message, MaxTries,                                 \* Script
    Discovered, Dependencies, Priority, Namespace, MayBeDisabled, MaxTasks, \* Plugins
    Clients, ThreadIds, ExternalIds, MaxEvents,        \* Store
    Contents, Uploads, BlobThreads, NoThread, Owner,    \* Blobs
    Paths, SomeFiles, Patches, Texts, MaxFileEdits,    \* FileEdits
    Tasks, Branches, Slots, MaxOps, Home,              \* Worktree
    Hosts, Scripts, MaxCrashes, MaxRobbed,             \* ScriptEnv
    Askers, Sources, Queries, MaxChanges, MaxSearches, \* CodeIndex
    MaxCalls, MaxWorkers, Servers                      \* Mcp

VARIABLES part, s1, s2, s3, s4, s5, s6, s7, s8, s9, s10, s11, s12, s13, s14

\* The slots beyond those of a part, which it leaves alone.
Beyond5 == <<s6, s7, s8, s9, s10, s11, s12, s13, s14>>
Beyond6 == <<s7, s8, s9, s10, s11, s12, s13, s14>>
Beyond8 == <<s9, s10, s11, s12, s13, s14>>
Beyond10 == <<s11, s12, s13, s14>>
Beyond11 == <<s12, s13, s14>>
NoneBeyond11 == s12 = None /\ s13 = None /\ s14 = None
NoneBeyond10 == s11 = None /\ NoneBeyond11
NoneBeyond8 == s9 = None /\ s10 = None /\ NoneBeyond10
NoneBeyond6 == s7 = None /\ s8 = None /\ NoneBeyond8
NoneBeyond5 == s6 = None /\ NoneBeyond6

-----------------------------------------------------------------------------
\* Starts of `uv-agent daemon` in a project.
lease == s1
late == s2
daemon == s3
target == s4
overlapped == s5
stalled == s6
D == INSTANCE Daemon WITH Process <- Daemons, NoProcess <- None

-----------------------------------------------------------------------------
\* Schedules, and the daemon that polls them.
host == s1
starts == s2
table == s3
runs == s4
poll == s5
jobs == s6
edit == s7
ticks == s8
edits == s9
fired == s10
crowded == s11
Sc == INSTANCE Scheduler

-----------------------------------------------------------------------------
\* A run of a script, and what it says.
run == s1
child == s2
orphan == s3
session == s4
said == s5
call == s6
workers == s7
captured == s8
record == s9
shown == s10
Sn == INSTANCE Script

-----------------------------------------------------------------------------
\* Plugins, from their discovery to their stop.
pstate == s1
startTask == s2
toStart == s3
settingUp == s4
loaded == s5
namespaces == s6
subscribers == s7
handling == s8
ptasks == s9
cancelled == s10
outlived == s11
created == s12
toStop == s13
stopStage == s14
P == INSTANCE Plugins

-----------------------------------------------------------------------------
\* Threads, their events and their rows.
rows == s1
events == s2
doing == s3
used == s4
crossed == s5
St == INSTANCE Store

-----------------------------------------------------------------------------
\* Uploads of the runs of threads, and their collection.
files == s1
blobs == s2
refs == s3
upload == s4
what == s5
noted == s6
open == s7
victims == s8
unlinked == s9
deleted == s10
raced == s11
B == INSTANCE Blobs WITH Content <- Contents

-----------------------------------------------------------------------------
\* Patches and transactions of files.
disk == s1
editing == s2
patch == s3
base == s4
todo == s5
outcome == s6
snap == s7
fileEdits == s8
F == INSTANCE FileEdits WITH Files <- SomeFiles, MaxEdits <- MaxFileEdits, doing <- editing, edits <- fileEdits

-----------------------------------------------------------------------------
\* Worktrees of threads.
trees == s1
heads == s2
binding == s3
latest == s4
known == s5
told == s6
script == s7
entered == s8
git == s9
torn == s10
count == s11
W == INSTANCE Worktree

-----------------------------------------------------------------------------
\* The environment in which scripts run.
lockfile == s1
at == s2
pyproject == s3
uvlock == s4
venv == s5
saved == s6
back == s7
ok == s8
robbed == s9
crashes == s10
E == INSTANCE ScriptEnv

-----------------------------------------------------------------------------
\* Code queries of scripts, and the index they share.
source == s1
changes == s2
fileRows == s3
captureRows == s4
finder == s5
search == s6
writer == s7
searches == s8
I == INSTANCE CodeIndex WITH Scripts <- Askers, Files <- Sources

-----------------------------------------------------------------------------
\* An MCP client and its workers.
client == s1
threads == s2
serving == s3
requests == s4
ready == s5
answers == s6
probe == s7
published == s8
calls == s9
disturbed == s10
Mc == INSTANCE Mcp WITH workers <- threads, handling <- serving

-----------------------------------------------------------------------------
(* What the proofs assume of the constants.                                *)

\* None is none of the values it stands for the absence of, and nothing is
\* named as what stands for no schedule, no thread and no content.
ASSUME DaemonNone   == None \notin Daemons
ASSUME ScheduleNone == Sc!NoSchedule \notin Schedule
ASSUME StoreNone    == "none" \notin ThreadIds
ASSUME BlobsNone    == B!NoContent \notin Contents
ASSUME EnvNone      == None \notin E!Process \cup E!Projects \cup E!Environments
ASSUME IndexNone ==
    /\ None \notin Nat \cup Sources \cup Queries \cup (Nat \X Nat)
    /\ \A S \in SUBSET Sources : None # S
ASSUME McpNone ==
    /\ None \notin Mc!Workers \cup Mc!CallIds
    /\ None \notin {"connected", "failed", "result", "error", "closed"}
    /\ MaxCalls \in Nat

\* A script says a sequence of messages.
ASSUME MessagesAreASequence == Message \in Seq({Message[i] : i \in DOMAIN Message})

\* There are finitely many paths, and a patch is a sequence of operations on them.
ASSUME PathsAreFinite == IsFiniteSet(Paths)
ASSUME PatchesAreOperations == \A ops \in Patches : F!IsPatch(ops)

\* No plugin's manifest names the plugin itself.
ASSUME NoPluginNeedsItself == \A p \in P!Plugin : p \notin Dependencies[p]

-----------------------------------------------------------------------------
Init ==
    \/ part = "daemon" /\ D!Init /\ NoneBeyond6
    \/ part = "scheduler" /\ Sc!Init /\ NoneBeyond11
    \/ part = "script" /\ Sn!Init /\ NoneBeyond10
    \/ part = "plugins" /\ P!Init
    \/ part = "store" /\ St!Init /\ NoneBeyond5
    \/ part = "blobs" /\ B!Init /\ NoneBeyond11
    \/ part = "edits" /\ F!Init /\ NoneBeyond8
    \/ part = "worktree" /\ W!Init /\ NoneBeyond11
    \/ part = "env" /\ E!Init /\ NoneBeyond10
    \/ part = "index" /\ I!Init /\ NoneBeyond8
    \/ part = "mcp" /\ Mc!Init /\ NoneBeyond10

Next ==
    \/ part = "daemon" /\ D!Next /\ UNCHANGED <<part, Beyond6>>
    \/ part = "scheduler" /\ Sc!Next /\ UNCHANGED <<part, Beyond11>>
    \/ part = "script" /\ Sn!Next /\ UNCHANGED <<part, Beyond10>>
    \/ part = "plugins" /\ P!Next /\ UNCHANGED part
    \/ part = "store" /\ St!Next /\ UNCHANGED <<part, Beyond5>>
    \/ part = "blobs" /\ B!Next /\ UNCHANGED <<part, Beyond11>>
    \/ part = "edits" /\ F!Next /\ UNCHANGED <<part, Beyond8>>
    \/ part = "worktree" /\ W!Next /\ UNCHANGED <<part, Beyond11>>
    \/ part = "env" /\ E!Next /\ UNCHANGED <<part, Beyond10>>
    \/ part = "index" /\ I!Next /\ UNCHANGED <<part, Beyond8>>
    \/ part = "mcp" /\ Mc!Next /\ UNCHANGED <<part, Beyond10>>

vars == <<part, s1, s2, s3, s4, s5, s6, s7, s8, s9, s10, s11, s12, s13, s14>>

Spec == Init /\ [][Next]_vars

-----------------------------------------------------------------------------
(* Properties, each with its part; their modules say what they mean. *)

\* Two daemons do not serve a project at once.
OneDaemon == part = "daemon" => D!OneDaemon

\* What a schedule asks for happens neither twice nor twice at a time.
RunsAsScheduled == part = "scheduler" => Sc!RunsAsScheduled

\* Host, user and log agree on what a script said.
MessagesAreKept == part = "script" => Sn!MessagesAreKept

\* A plugin runs on dependencies that are set up.
SetUpOnDependencies == part = "plugins" => P!SetUpOnDependencies

\* The segments of a thread are a partition of its events.
HistoryIsWhole == part = "store" => St!HistoryIsWhole

\* An upload that was acknowledged can be read as long as its thread exists.
AcknowledgedIsReadable == part = "blobs" => B!AcknowledgedIsReadable

\* A patch is its operations, and a transaction that fails restores what it
\* captured.
EditsAreWhole == [][part = "edits" => F!PatchIsItsOperations /\ F!CapturedIsRestored]_vars

\* A thread said to have an active worktree has one, of its own.
ActiveHasItsTree == part = "worktree" => W!ActiveHasItsTree

\* A script environment that was prepared is locked and has the runtime in it.
EnvIsPrepared == part = "env" => E!EnvIsPrepared

\* A code search answers with what the file holds.
AnswerIsCurrent == part = "index" => I!AnswerIsCurrent

\* An MCP call is answered by the worker of its client, with its own answer.
WorkerServesItsClient == part = "mcp" => Mc!WorkerServesItsClient

=============================================================================
