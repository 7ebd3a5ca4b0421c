------------------------------- MODULE Worktree -------------------------------
(***************************************************************************)
(* Git worktrees of threads (builtin/worktree), made for a new thread of   *)
(* the Agent View or by a script, and removed by the user or by a script.  *)
(* An operation is several git commands in a worker thread followed by the *)
(* thread's metadata on the event loop; several may be under way, a script *)
(* may repeat a call that has not answered yet, and the process may end    *)
(* between two steps.  The engine remembers the directory of each thread   *)
(* and starts scripts in it.                                               *)
(***************************************************************************)
EXTENDS Naturals, FiniteSets

CONSTANTS
    Tasks,      \* the threads that work in worktrees
    Branches,
    Slots,      \* bound: operations under way at a time
    MaxOps,     \* bound: operations in all
    Home        \* the project root

VARIABLES
    trees,      \* branches with a directory .uv-agent/worktrees/<branch>
    heads,      \* local branches
    binding,    \* worktree_status and worktree_branch of each thread's metadata
    latest,     \* its latest_cwd
    known,      \* active_cwd in the engine's memory, Home before it is read
    told,       \* the latest worktree contribution of the plugin
    script,     \* a run of the thread: "none", "runs" or "failed"
    entered,    \* the directory the running script entered last, Home if none
    git,        \* the operations under way
    torn,       \* ghost: branches an operation left half way or took from another thread
    count

wvars == <<trees, heads, binding, latest, known, told, script, entered, git, torn, count>>

Unbound == [status |-> "none", branch |-> Home]
Bound(status, b) == [status |-> status, branch |-> b]
Free == [kind |-> "none", by |-> "tui", of |-> "none", branch |-> Home, pc |-> "idle"]

Init ==
    /\ trees = {} /\ heads = {}
    /\ binding = [t \in Tasks |-> Unbound]
    /\ told = [t \in Tasks |-> Unbound]
    /\ latest = [t \in Tasks |-> Home] /\ known = [t \in Tasks |-> Home]
    /\ script = [t \in Tasks |-> "none"] /\ entered = [t \in Tasks |-> Home]
    /\ git = [i \in Slots |-> Free]
    /\ torn = {} /\ count = 0

Begin(i, kind, by, t, b, pc) ==
    /\ git[i] = Free /\ count < MaxOps
    /\ count' = count + 1
    /\ git' = [git EXCEPT ![i] = [kind |-> kind, by |-> by, of |-> t, branch |-> b, pc |-> pc]]
    /\ UNCHANGED <<trees, heads, binding, latest, known, told, script, entered, torn>>

----------------------------------------------------------------------------
(* create_worktree *)

\* The path must not exist; looked at before git runs.
StartCreate(i, by, t, b) ==
    /\ by = "script" => script[t] = "runs"
    /\ by = "tui" => binding[t] = Unbound /\ script[t] = "none"
    /\ b \notin trees
    /\ Begin(i, "create", by, t, b, "checked")

\* Variant: git worktree add --force -B.
AddTreeForced(i) ==
    /\ git[i].pc = "checked"
    /\ trees' = trees \cup {git[i].branch} /\ heads' = heads \cup {git[i].branch}
    /\ git' = [git EXCEPT ![i].pc = "added"]
    /\ UNCHANGED <<binding, latest, known, told, script, entered, torn, count>>

\* git worktree add -b refuses a branch or a directory that exists.
AddTree(i) ==
    /\ git[i].pc = "checked"
    /\ LET b == git[i].branch
       IN IF b \in trees \cup heads
          THEN git' = [git EXCEPT ![i] = Free] /\ UNCHANGED <<trees, heads>>
          ELSE /\ trees' = trees \cup {b} /\ heads' = heads \cup {b}
               /\ git' = [git EXCEPT ![i].pc = "added"]
    /\ UNCHANGED <<binding, latest, known, told, script, entered, torn, count>>

\* _create_worktree_action, back on the loop.  A worktree the thread had before
\* is forgotten.  The engine's memory of the directory is not touched.
Attach(i) ==
    /\ git[i].pc = "added"
    /\ LET t == git[i].of
           b == git[i].branch
       IN /\ told' = [told EXCEPT ![t] = Bound("active", b)]
          /\ binding' = [binding EXCEPT ![t] = Bound("active", b)]
          /\ latest' = [latest EXCEPT ![t] = b]
    /\ git' = [git EXCEPT ![i] = Free]
    /\ UNCHANGED <<trees, heads, known, script, entered, torn, count>>

----------------------------------------------------------------------------
(* cleanup_worktree *)

\* The branch and path of the metadata, whatever its status, or the ones a
\* script names.
StartCleanup(i, by, t, b) ==
    /\ \/ by = "tui" /\ binding[t].branch = b
       \/ by = "script" /\ script[t] = "runs"
    /\ Begin(i, "cleanup", by, t, b, "remove")

\* Somebody else works in it, or it has just been made.
Wanted(i) ==
    \/ \E u \in Tasks \ {git[i].of} : binding[u] = Bound("active", git[i].branch)
    \/ \E j \in Slots : git[j].pc = "added" /\ git[j].branch = git[i].branch

RemoveTree(i) ==
    /\ git[i].pc = "remove"
    /\ trees' = trees \ {git[i].branch}
    /\ git' = [git EXCEPT ![i] = IF git[i].branch \in trees THEN [git[i] EXCEPT !.pc = "removed"] ELSE Free]
    /\ torn' = IF git[i].branch \in trees /\ Wanted(i) THEN torn \cup {git[i].branch} ELSE torn
    /\ UNCHANGED <<heads, binding, latest, known, told, script, entered, count>>

\* git branch -D, which fails when the branch is checked out elsewhere: the
\* worktree is gone and the metadata stays.
DeleteBranch(i) ==
    /\ git[i].pc = "removed"
    /\ heads' = heads \ {git[i].branch}
    /\ git' = [git EXCEPT ![i] = IF git[i].branch \in heads THEN [git[i] EXCEPT !.pc = "deleted"] ELSE Free]
    /\ torn' = IF git[i].branch \in heads THEN torn ELSE torn \cup {git[i].branch}
    /\ UNCHANGED <<trees, binding, latest, known, told, script, entered, count>>
DeleteBranchFails(i) ==
    /\ git[i].pc = "removed"
    /\ git' = [git EXCEPT ![i] = Free]
    /\ torn' = torn \cup {git[i].branch}
    /\ UNCHANGED <<trees, heads, binding, latest, known, told, script, entered, count>>

\* _cleanup_worktree_action, back on the loop; the terminal interface drops the
\* engine's memory of the thread as well.
Detach(i) ==
    /\ git[i].pc = "deleted"
    /\ LET t == git[i].of
           b == git[i].branch
       IN /\ told' = [told EXCEPT ![t] = Bound("deleted", b)]
          /\ binding' = [binding EXCEPT ![t] = Bound("deleted", b)]
          /\ latest' = [latest EXCEPT ![t] = Home]
          /\ known' = IF git[i].by = "tui" THEN [known EXCEPT ![t] = Home] ELSE known
    /\ git' = [git EXCEPT ![i] = Free]
    /\ UNCHANGED <<trees, heads, script, entered, torn, count>>

----------------------------------------------------------------------------
(* Scripts, as far as their directory is concerned. *)

Directories == trees \cup {Home}

\* A script whose directory is gone cannot be started: the turn fails.
StartScript(t) ==
    /\ script[t] # "runs"
    /\ script' = [script EXCEPT ![t] = IF known[t] \in Directories THEN "runs" ELSE "failed"]
    /\ entered' = [entered EXCEPT ![t] = Home]
    /\ UNCHANGED <<trees, heads, binding, latest, known, told, git, torn, count>>

\* rt.cd
EnterTree(t) ==
    /\ script[t] = "runs"
    /\ \E b \in trees : entered' = [entered EXCEPT ![t] = b]
    /\ UNCHANGED <<trees, heads, binding, latest, known, told, script, git, torn, count>>

\* Its enter_dir events are read when it has ended, after what it called.
EndScript(t) ==
    /\ script[t] = "runs"
    /\ script' = [script EXCEPT ![t] = "none"]
    /\ IF entered[t] = Home THEN UNCHANGED <<known, latest>>
       ELSE known' = [known EXCEPT ![t] = entered[t]] /\ latest' = [latest EXCEPT ![t] = entered[t]]
    /\ UNCHANGED <<trees, heads, binding, told, entered, git, torn, count>>

\* The process ends and another starts: the plugin publishes the active
\* worktrees, the engine reads the directory from the metadata.
Restart ==
    /\ count < MaxOps /\ count' = count + 1
    /\ git' = [i \in Slots |-> Free]
    /\ torn' = torn \cup {git[i].branch : i \in {j \in Slots : git[j].pc \in {"added", "removed", "deleted"}}}
    /\ script' = [t \in Tasks |-> "none"] /\ entered' = [t \in Tasks |-> Home]
    /\ known' = latest
    /\ told' = [t \in Tasks |-> IF binding[t].status = "active" THEN binding[t] ELSE Unbound]
    /\ UNCHANGED <<trees, heads, binding, latest>>

Next ==
    \/ \E i \in Slots, by \in {"tui", "script"}, t \in Tasks, b \in Branches :
           StartCreate(i, by, t, b) \/ StartCleanup(i, by, t, b)
    \/ \E i \in Slots :
           AddTree(i) \/ Attach(i) \/ RemoveTree(i) \/ DeleteBranch(i) \/ DeleteBranchFails(i) \/ Detach(i)
    \/ \E t \in Tasks : StartScript(t) \/ EnterTree(t) \/ EndScript(t)
    \/ Restart

Spec == Init /\ [][Next]_wvars

----------------------------------------------------------------------------
(* Properties *)

Cleaning(b) == \E i \in Slots : git[i].kind = "cleanup" /\ git[i].branch = b /\ git[i].pc # "remove"

\* A thread said to have an active worktree has one, with its branch, that no
\* other thread has, and its model was told of it; except for a branch that an
\* operation was stopped half way at or that was removed for another thread.
ActiveHasItsTree ==
    \A t \in Tasks :
        binding[t].status = "active" /\ binding[t].branch \notin torn /\ ~Cleaning(binding[t].branch) =>
            /\ binding[t].branch \in trees \cap heads
            /\ \A u \in Tasks \ {t} : binding[u] # binding[t]
            /\ told[t] = binding[t]

Bindings == {Unbound} \cup [status : {"active", "deleted"}, branch : Branches]
Operation(kind, pcs) == [kind : {kind}, by : {"tui", "script"}, of : Tasks, branch : Branches, pc : pcs]

TypeOK ==
    /\ binding \in [Tasks -> Bindings] /\ told \in [Tasks -> Bindings]
    /\ git \in [Slots -> {Free} \cup Operation("create", {"checked", "added"})
                               \cup Operation("cleanup", {"remove", "removed", "deleted"})]

\* A thread has a worktree unless an operation of its own that removes it is
\* between the removal and the metadata.
Removes(i, t, b) == git[i].pc \in {"removed", "deleted"} /\ git[i].of = t /\ git[i].branch = b
Has(t, b) == binding[t] = Bound("active", b) /\ ~ \E i \in Slots : Removes(i, t, b)

\* The model of an active thread was told so.
ToldWhenActive == \A t \in Tasks : binding[t].status = "active" => told[t] = binding[t]

\* A branch that no operation left half way: its directory has the branch,
\* whoever has it has the directory and has it alone,
HasOne(b) ==
    /\ b \in trees => b \in heads
    /\ \A t \in Tasks : Has(t, b) => b \in trees
    /\ \A t, u \in Tasks : Has(t, b) /\ Has(u, b) => t = u
\* what was just made for a thread belongs to nobody yet,
MadeForOne(b) ==
    \A i \in Slots : git[i].pc = "added" /\ git[i].branch = b =>
        /\ b \in trees /\ \A t \in Tasks : ~Has(t, b)
        /\ \A j \in Slots : git[j].pc = "added" /\ git[j].branch = b => j = i
\* and between the removal of the directory and of the branch neither comes back.
GoesOnce(b) ==
    \A i \in Slots : git[i].pc = "removed" /\ git[i].branch = b =>
        /\ b \in heads \ trees
        /\ \A j \in Slots : git[j].pc = "removed" /\ git[j].branch = b => j = i

Inv ==
    /\ TypeOK /\ ToldWhenActive
    /\ \A b \in Branches \ torn : HasOne(b) /\ MadeForOne(b) /\ GoesOnce(b)

=============================================================================
