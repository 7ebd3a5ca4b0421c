----------------------------- MODULE ProjectRules -----------------------------
(***************************************************************************)
(* The instruction files of a project (project_rules.py) on their way to   *)
(* the model.  Every epoch of a thread starts with the rules of the user   *)
(* and of the directories down to the project root, an index of the rule   *)
(* files below it and, when the agent works elsewhere, the rules of that   *)
(* directory; a script that enters a directory brings its rules with its   *)
(* output.  Each host keeps a RuleRuntimeState per thread in memory, reads *)
(* it from the log when it has none, and believes it until it evicts it.   *)
(***************************************************************************)
EXTENDS Naturals, Sequences, SequencesExt, FiniteSetsExt

CONSTANTS
    Hosts,       \* processes with an AgentEngine
    Chain,       \* where the project's rules are looked for: the user's directory, git root to project root
    Children,    \* the sorted subdirectories of each directory of the project
    AgentFiles,  \* the AGENTS files a directory may have, AGENTS.md first
    Size,        \* characters of each
    MaxFile,     \* DEFAULT_MAX_CHARS_PER_FILE
    MaxTotal,    \* DEFAULT_MAX_TOTAL_CHARS
    MaxDepth,    \* DEFAULT_RULE_INDEX_MAX_DEPTH
    MaxEntries,  \* DEFAULT_RULE_INDEX_MAX_ENTRIES
    MaxSteps,    \* bound: turns, calls and compactions in all
    Nowhere      \* stands for None

VARIABLES
    present,     \* the rule files there are
    state,       \* _rule_states of each host, Nowhere or a record
    kept,        \* what the events after the latest compaction say of rules
    cwd,         \* latest_cwd of the thread's metadata
    agent,       \* the turn that runs: who, how far, and a tool result on its way
    input,       \* the rule files in the model's input, and the index
    behind,      \* ghost: hosts whose memory another host's compaction made
                 \* untrue; all of them once one of these has had a turn, or
                 \* one has begun an epoch in a directory another had left
    gone,        \* ghost: rules marked as loaded whose tool output was never stored
    steps

rvars == <<present, state, kept, cwd, agent, input, behind, gone, steps>>

Root == Last(Chain)
Dirs == DOMAIN Children
NoIndex == [paths |-> {}, truncated |-> TRUE]
EmptyEpoch == [loaded |-> {}, index |-> FALSE, notice |-> Nowhere]
EmptyInput == [rules |-> {}, index |-> NoIndex]
Idle == [host |-> Nowhere, pc |-> "idle", result |-> {}]

----------------------------------------------------------------------------
(* project_rules.py *)

\* The rule files of a directory that are among those there are.
RuleFilesInDir(there, d) ==
    LET files == AgentFiles[d]
    IN FlattenSeq([i \in DOMAIN files |-> IF files[i] \in there THEN <<files[i]>> ELSE <<>>])

\* The files a budget of characters leaves: one that begins after it is spent
\* is omitted, one that reaches across a limit is clipped.
Loaded(files) ==
    FoldLeft(LAMBDA acc, f :
                 IF acc.total >= MaxTotal THEN acc
                 ELSE [total |-> acc.total + Min({Size[f], MaxFile, MaxTotal - acc.total}),
                       rules |-> acc.rules \cup {f}],
             [total |-> 0, rules |-> {}], files).rules

LoadProjectRules(there) ==
    Loaded(FlattenSeq([i \in DOMAIN Chain |-> RuleFilesInDir(there, Chain[i])]))
LoadDirectoryRules(there, d) == Loaded(RuleFilesInDir(there, d))

\* Breadth first, one level of directories after the other.
Below(ds) == FlattenSeq([i \in DOMAIN ds |-> Children[ds[i]]])
Level[n \in 0..MaxDepth] == IF n = 0 THEN <<Root>> ELSE Below(Level[n - 1])
Indexed == FlattenSeq([i \in 1..(MaxDepth + 1) |-> Level[i - 1]])

\* discover_workspace_rule_index
RuleIndex(there) ==
    LET found == FlattenSeq([i \in DOMAIN Indexed |-> RuleFilesInDir(there, Indexed[i])])
    IN [paths |-> {found[i] : i \in 1..Min({Len(found), MaxEntries})},
        truncated |-> Len(found) > MaxEntries \/ Below(Level[MaxDepth]) # <<>>]

----------------------------------------------------------------------------
(* RuleRuntimeState *)

\* _rule_state: from memory, or rebuilt from the log.
RuleState(h) ==
    IF state[h] # Nowhere THEN state[h]
    ELSE [cwd |-> cwd, loaded |-> kept.loaded, index |-> kept.index, notice |-> kept.notice]

\* _rule_context_texts: what is sent before the user's message, and the state
\* it leaves.  The notice of the directory is sent when it changed.
RuleContext(s) ==
    LET project == LoadProjectRules(present) \ s.loaded
        here == IF s.cwd = Root THEN {} ELSE LoadDirectoryRules(present, s.cwd) \ (s.loaded \cup project)
        new == IF s.index THEN {} ELSE project \cup here
    IN [new |-> new,
        index |-> ~s.index,
        state |-> [cwd |-> s.cwd, loaded |-> s.loaded \cup new, index |-> TRUE,
                   notice |-> IF s.cwd = Root THEN Nowhere ELSE s.cwd]]

\* Its events; a return to the root is not told.
Noted(epoch, s, c) ==
    [loaded |-> epoch.loaded \cup c.new,
     index |-> epoch.index \/ c.index,
     notice |-> IF c.state.notice \in {Nowhere, s.notice} THEN epoch.notice ELSE c.state.notice]
Told(in, c) ==
    [rules |-> in.rules \cup c.new,
     index |-> IF c.index THEN RuleIndex(present) ELSE in.index]

\* _reset_rule_epoch
ResetEpoch(s) == [cwd |-> s.cwd, loaded |-> {}, index |-> FALSE, notice |-> Nowhere]

----------------------------------------------------------------------------
Init ==
    /\ present \in SUBSET UNION {ToSet(AgentFiles[d]) : d \in DOMAIN AgentFiles}
    /\ state = [h \in Hosts |-> Nowhere]
    /\ kept = EmptyEpoch /\ cwd = Root
    /\ agent = Idle
    /\ input = EmptyInput
    /\ behind = {} /\ gone = {} /\ steps = 0

Counted == steps < MaxSteps /\ steps' = steps + 1

\* What a host remembers of the directory is no longer so: another has entered one.
Elsewhere(s) == s.cwd # cwd

\* _prepare_run_turn_prelude, as far as it is about rules; the thread lock lets
\* one host in.
BeginTurn(h) ==
    /\ agent.pc = "idle" /\ Counted
    /\ LET s == RuleState(h)
           c == RuleContext(s)
       IN /\ state' = [state EXCEPT ![h] = c.state]
          /\ kept' = Noted(kept, s, c)
          /\ input' = Told(input, c)
          /\ behind' = IF h \in behind \/ (c.index /\ Elsewhere(s)) THEN Hosts ELSE behind
    /\ agent' = [Idle EXCEPT !.host = h, !.pc = "asking"]
    /\ UNCHANGED <<present, cwd, gone>>

\* A call that cannot run (another tool, arguments that are no JSON, no code)
\* is answered at once with an error: nothing of this module changes.
Refused(h) ==
    /\ agent = [Idle EXCEPT !.host = h, !.pc = "asking"] /\ Counted
    /\ state' = [state EXCEPT ![h] = RuleState(h)]
    /\ UNCHANGED <<present, kept, cwd, agent, input, behind, gone>>

\* A run that was interrupted raises before its events are read.
RunInterrupted(h) ==
    /\ agent.host = h /\ agent.pc = "asking" /\ Counted
    /\ agent' = Idle
    /\ UNCHANGED <<present, state, kept, cwd, input, behind, gone>>

\* _process_runner_events: the script entered directory d.  State, metadata
\* and the rules_loaded event are written before the output is.
RunCompleted(h, d) ==
    /\ agent.host = h /\ agent.pc = "asking" /\ d \in Dirs /\ Counted
    /\ LET s == RuleState(h)
           new == LoadDirectoryRules(present, d) \ s.loaded
       IN /\ state' = [state EXCEPT ![h] = [s EXCEPT !.cwd = d, !.loaded = @ \cup new]]
          /\ kept' = [kept EXCEPT !.loaded = @ \cup new]
          /\ agent' = [agent EXCEPT !.pc = "result", !.result = new]
    /\ cwd' = d
    /\ UNCHANGED <<present, input, behind, gone>>

\* The tool output, with rules_loaded in it, is stored and sent.
StoreOutput(h) ==
    /\ agent.host = h /\ agent.pc = "result"
    /\ input' = [input EXCEPT !.rules = @ \cup agent.result]
    /\ agent' = [agent EXCEPT !.pc = "asking", !.result = {}]
    /\ UNCHANGED <<present, state, kept, cwd, behind, gone, steps>>

\* An image of the result cannot be registered, or the turn is cancelled
\* before its consumer stores the output.
LoseOutput(h) ==
    /\ agent.host = h /\ agent.pc = "result"
    /\ gone' = gone \cup agent.result
    /\ agent' = Idle
    /\ UNCHANGED <<present, state, kept, cwd, input, behind, steps>>

EndTurn(h) ==
    /\ agent.host = h /\ agent.pc = "asking"
    /\ agent' = Idle
    /\ UNCHANGED <<present, state, kept, cwd, input, behind, gone, steps>>

\* Item.compaction is stored: a new epoch, with nothing but the handoff.
BehindEpoch(h) == (behind \cup {g \in Hosts : state[g] # Nowhere}) \ {h}

\* After the turn: the next one begins the epoch.
CompactAfterTurn(h) ==
    /\ agent.host = h /\ agent.pc = "asking" /\ Counted
    /\ state' = [state EXCEPT ![h] = ResetEpoch(RuleState(h))]
    /\ kept' = EmptyEpoch /\ input' = EmptyInput
    /\ agent' = Idle
    /\ behind' = BehindEpoch(h) /\ gone' = {}
    /\ UNCHANGED <<present, cwd>>

\* Variant: the memory of the old epoch is kept.
CompactInTurnKeeps(h) ==
    /\ agent.host = h /\ agent.pc = "asking" /\ Counted
    /\ LET s == RuleState(h)
           c == RuleContext(s)
       IN /\ state' = [state EXCEPT ![h] = c.state]
          /\ kept' = Noted(EmptyEpoch, s, c)
          /\ input' = Told(EmptyInput, c)
          /\ behind' = IF Elsewhere(s) THEN Hosts ELSE BehindEpoch(h)
    /\ gone' = {}
    /\ UNCHANGED <<present, cwd, agent>>

\* Inside it: _input_after_compaction sends the context again at once.
CompactInTurn(h) ==
    /\ agent.host = h /\ agent.pc = "asking" /\ Counted
    /\ LET s == ResetEpoch(RuleState(h))
           c == RuleContext(s)
       IN /\ state' = [state EXCEPT ![h] = c.state]
          /\ kept' = Noted(EmptyEpoch, s, c)
          /\ input' = Told(EmptyInput, c)
          /\ behind' = IF Elsewhere(s) THEN Hosts ELSE BehindEpoch(h)
    /\ gone' = {}
    /\ UNCHANGED <<present, cwd, agent>>

\* The process ends, or 64 other threads were used since.
Forget(h) ==
    /\ state[h] # Nowhere
    /\ agent.pc = "result" => agent.host # h
    /\ state' = [state EXCEPT ![h] = Nowhere]
    /\ behind' = IF behind = Hosts THEN behind ELSE behind \ {h}
    /\ agent' = IF agent.host = h THEN Idle ELSE agent
    /\ UNCHANGED <<present, kept, cwd, input, gone, steps>>

Next ==
    \E h \in Hosts :
        \/ BeginTurn(h) \/ Refused(h) \/ RunInterrupted(h) \/ (\E d \in Dirs : RunCompleted(h, d))
        \/ StoreOutput(h) \/ LoseOutput(h) \/ EndTurn(h)
        \/ CompactAfterTurn(h) \/ CompactInTurn(h) \/ Forget(h)

Spec == Init /\ [][Next]_rvars

----------------------------------------------------------------------------
(* What holds of every state. *)

IsMemory(s) ==
    /\ s = [cwd |-> s.cwd, loaded |-> s.loaded, index |-> s.index, notice |-> s.notice]
    /\ s.index \in BOOLEAN

TypeOK ==
    /\ state = [h \in Hosts |-> state[h]]
    /\ \A h \in Hosts : state[h] = Nowhere \/ IsMemory(state[h])
    /\ kept = [loaded |-> kept.loaded, index |-> kept.index, notice |-> kept.notice]
    /\ kept.index \in BOOLEAN
    /\ agent = [host |-> agent.host, pc |-> agent.pc, result |-> agent.result]
    /\ agent.pc \in {"idle", "asking", "result"} /\ (agent.pc # "result" => agent.result = {})
    /\ input = [rules |-> input.rules, index |-> input.index]
    /\ behind \subseteq Hosts

\* A memory of the epoch says no more than its log, and has the rules of its place.
Sent(s) ==
    /\ s.loaded \subseteq kept.loaded
    /\ s.index => /\ kept.index
                  /\ LoadProjectRules(present) \subseteq s.loaded
                  /\ s.cwd # Root => LoadDirectoryRules(present, s.cwd) \subseteq s.loaded

\* The log says of the epoch what was sent in it, or is still on its way.
LogIsTrue ==
    behind # Hosts =>
        /\ kept.loaded \subseteq input.rules \cup gone \cup agent.result
        /\ kept.index => input.index = RuleIndex(present)
        /\ Sent([cwd |-> cwd, loaded |-> kept.loaded, index |-> kept.index])
MemoryIsTrue == \A h \in Hosts \ behind : state[h] # Nowhere => Sent(state[h])

\* The host whose turn runs has told its rules.
AgentHasTold ==
    agent.pc # "idle" =>
        /\ agent.host \in Hosts
        /\ agent.host \in behind => behind = Hosts
        /\ agent.host \notin behind => Sent(state[agent.host]) /\ state[agent.host].index

Inv == TypeOK /\ LogIsTrue /\ MemoryIsTrue /\ AgentHasTold

----------------------------------------------------------------------------
(* Properties *)

\* Whenever the model is asked, the rules of the user, of the project and of
\* the directory it works in are in its input, and every other rule file near
\* the root is in the index unless the index says that it is cut; except when
\* a tool result was lost on its way, or another process compacted the thread.
RulesReachTheModel ==
    agent.pc = "asking" /\ agent.host \notin behind =>
        /\ LoadProjectRules(present) \subseteq input.rules \cup gone
        /\ LET here == state[agent.host].cwd
           IN here # Root => LoadDirectoryRules(present, here) \subseteq input.rules \cup gone
        /\ \A d \in Dirs : \A f \in ToSet(RuleFilesInDir(present, d)) :
               f \in input.index.paths \cup input.rules \/ input.index.truncated

=============================================================================
