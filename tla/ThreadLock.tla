----------------------------- MODULE ThreadLock -----------------------------
(***************************************************************************)
(* The lock of a thread: a row of the table thread_locks that every        *)
(* process of a project shares, taken by run_turn for as long as the turn  *)
(* lasts (ThreadStore.lock_thread), and the check that every write of an   *)
(* event makes (_assert_thread_write_allowed).                             *)
(*                                                                         *)
(* Permission is not attached to a process but to a context: contextvars   *)
(* hand it to every task and every thread started from the turn, whether   *)
(* that was meant or not.  So the module has the ways a turn can be        *)
(* started from within another one: by a plugin's event handler, and by    *)
(* the interface when it goes on to the next message.                      *)
(***************************************************************************)
EXTENDS Integers, Sequences, FiniteSets

CONSTANTS Run,         \* the turns that may be run
          Process,     \* the processes that have the database open
          Thread,
          MaxWrites,   \* bound: events that one turn writes
          NoRun, NoProcess, NoThread       \* None

ASSUME ConstantsAssumption ==
    /\ MaxWrites \in Nat
    /\ NoRun \notin Run
    /\ NoProcess \notin Process
    /\ NoThread \notin Thread

VARIABLES
    row,         \* thread_locks: the turn whose token is in the row of the thread
    held,        \* held[p]: _held_thread_locks of the store of process p
    pc,
    proc,        \* proc[r], thread[r]: where the turn runs and what it works on
    thread,
    route,       \* who calls run_turn: see Route
    base,        \* base[r]: the token in the context it was started from
    token,       \* token[r]: the lock it works under, its own or its base's
    inHandler,   \* the plugin tasks in whose context _IN_EVENT_HANDLER is set
    prelude,     \* the turns with a prelude thread that is still going
    passed,      \* the turns that were allowed a write and have not made it yet
    followed,    \* the abandoned turns whose next message was started
    log          \* log[t]: thread_events

lockVars == <<row, held>>
runVars  == <<proc, thread, route, base, inHandler>>
vars == <<lockVars, runVars, pc, token, prelude, passed, followed, log>>

\* direct: the TUI or the CLI.  detached: a task of TurnManager's on a thread
\* that the turn creates.  managed: a worker of TurnManager's.
Route == {"none", "direct", "detached", "managed"}

\* task: a plugin's task that will call submit_turn.  waiting: it has not asked
\* for the lock.  locked: ThreadLockedError.  refused: ReentrantSubmitError.
\* abandoned: whoever iterated over the turn raised at one of its yields.
\* dead: its process is.
PC == {"new", "task", "waiting", "inside", "over", "locked", "refused",
       "abandoned", "dead"}

TypeOK ==
    /\ row \in [Thread -> Run \cup {NoRun}]
    /\ held \in [Process -> [Thread -> Run \cup {NoRun}]]
    /\ pc \in [Run -> PC]
    /\ proc \in [Run -> Process \cup {NoProcess}]
    /\ thread \in [Run -> Thread \cup {NoThread}]
    /\ route \in [Run -> Route]
    /\ base \in [Run -> Run \cup {NoRun}]
    /\ token \in [Run -> Run \cup {NoRun}]
    /\ inHandler \subseteq Run
    /\ prelude \subseteq Run
    /\ passed \subseteq Run
    /\ followed \subseteq Run
    /\ log \in [Thread -> Seq([run : Run, stray : BOOLEAN])]

Init ==
    /\ row = [t \in Thread |-> NoRun]
    /\ held = [p \in Process |-> [t \in Thread |-> NoRun]]
    /\ pc = [r \in Run |-> "new"]
    /\ proc = [r \in Run |-> NoProcess]
    /\ thread = [r \in Run |-> NoThread]
    /\ route = [r \in Run |-> "none"]
    /\ base = [r \in Run |-> NoRun]
    /\ token = [r \in Run |-> NoRun]
    /\ inHandler = {} /\ prelude = {} /\ passed = {} /\ followed = {}
    /\ log = [t \in Thread |-> <<>>]

-----------------------------------------------------------------------------
(* Ways to start a turn *)

Place(r, p, t, how, where) ==
    /\ pc[r] = "new"
    /\ pc' = [pc EXCEPT ![r] = where]
    /\ proc' = [proc EXCEPT ![r] = p]
    /\ thread' = [thread EXCEPT ![r] = t]
    /\ route' = [route EXCEPT ![r] = how]

\* A message typed in the TUI, or the prompt of the CLI.
StartDirect(r, p, t) ==
    /\ Place(r, p, t, "direct", "waiting")
    /\ UNCHANGED <<lockVars, base, token, inHandler, prelude, passed, followed, log>>

\* A call without a thread: the turn creates one nobody has used.
StartDetached(r, p, t) ==
    /\ \A s \in Run : thread[s] # t
    /\ Place(r, p, t, "detached", "waiting")
    /\ UNCHANGED <<lockVars, base, token, inHandler, prelude, passed, followed, log>>

\* A plugin's own task, a helper called over RPC: a context with no lock in it.
PluginTask(r, p, t) ==
    /\ Place(r, p, t, "managed", "task")
    /\ UNCHANGED <<lockVars, base, token, inHandler, prelude, passed, followed, log>>

\* Variant: tasks start outside the handler that created them.
HandlerTaskForgets(r, s, t) ==
    /\ pc[s] = "inside"
    /\ Place(r, proc[s], t, "managed", "task")
    /\ base' = [base EXCEPT ![r] = IF t = thread[s] THEN token[s] ELSE NoRun]
    /\ UNCHANGED <<lockVars, inHandler, token, prelude, passed, followed, log>>

\* A handler of an event of turn s calls create_task.  asyncio copies the context
\* of the handler: the lock of s, and the mark of being in an event handler.
HandlerTask(r, s, t) ==
    /\ pc[s] = "inside"
    /\ Place(r, proc[s], t, "managed", "task")
    /\ base' = [base EXCEPT ![r] = IF t = thread[s] THEN token[s] ELSE NoRun]
    /\ inHandler' = inHandler \cup {r}
    /\ UNCHANGED <<lockVars, token, prelude, passed, followed, log>>

\* The turns TurnManager of process p has for the thread: one worker runs them
\* one after the other, in the context of whoever made it start.
Lane(p, t) ==
    {s \in Run : /\ proc[s] = p /\ thread[s] = t /\ route[s] = "managed"
                 /\ pc[s] \in {"waiting", "inside"}}

SubmitRefused(r) ==
    /\ pc[r] = "task"
    /\ r \in inHandler
    /\ pc' = [pc EXCEPT ![r] = "refused"]
    /\ UNCHANGED <<lockVars, runVars, token, prelude, passed, followed, log>>

Submit(r) ==
    LET lane == Lane(proc[r], thread[r])
    IN  /\ pc[r] = "task"
        /\ r \notin inHandler
        /\ pc' = [pc EXCEPT ![r] = "waiting"]
        /\ base' = IF lane = {} THEN base
                   ELSE [base EXCEPT ![r] = base[CHOOSE s \in lane : TRUE]]
        /\ UNCHANGED <<lockVars, proc, thread, route, inHandler, token, prelude,
                       passed, followed, log>>

\* The TUI goes on to the next message of the thread in the task that ran turn s,
\* and the context of that task still has the lock of the abandoned turn.
FollowUp(r, s) ==
    /\ pc[s] = "abandoned" /\ s \notin followed
    /\ Place(r, proc[s], thread[s], "direct", "waiting")
    /\ base' = [base EXCEPT ![r] = token[s]]
    /\ followed' = followed \cup {s}
    /\ UNCHANGED <<lockVars, inHandler, token, prelude, passed, log>>

-----------------------------------------------------------------------------
(* lock_thread, around the turn *)

\* run_turn is called: at once, or when the worker comes to it.
Called(r) ==
    /\ pc[r] = "waiting"
    /\ route[r] = "managed" =>
          \A s \in Lane(proc[r], thread[r]) : pc[s] # "inside"

\* The token in the context is the one this store holds.
Reentrant(r) == base[r] # NoRun /\ held[proc[r]][thread[r]] = base[r]

GoInside(r, lock) ==
    /\ pc' = [pc EXCEPT ![r] = "inside"]
    /\ token' = [token EXCEPT ![r] = lock]
    /\ prelude' = prelude \cup {r}
    /\ UNCHANGED <<runVars, passed, followed, log>>

EnterNested(r) ==
    /\ Called(r)
    /\ Reentrant(r)
    /\ GoInside(r, base[r])
    /\ UNCHANGED lockVars

\* Variant: INSERT OR REPLACE.
EnterReplacing(r) ==
    /\ Called(r)
    /\ ~Reentrant(r)
    /\ row' = [row EXCEPT ![thread[r]] = r]
    /\ held' = [held EXCEPT ![proc[r]][thread[r]] = r]
    /\ GoInside(r, r)

\* INSERT; the thread is the primary key.
Enter(r) ==
    /\ Called(r)
    /\ ~Reentrant(r)
    /\ row[thread[r]] = NoRun
    /\ row' = [row EXCEPT ![thread[r]] = r]
    /\ held' = [held EXCEPT ![proc[r]][thread[r]] = r]
    /\ GoInside(r, r)

EnterLocked(r) ==
    /\ Called(r)
    /\ ~Reentrant(r)
    /\ row[thread[r]] # NoRun
    /\ pc' = [pc EXCEPT ![r] = "locked"]
    /\ UNCHANGED <<lockVars, runVars, token, prelude, passed, followed, log>>

\* The finally block: an inner use of the lock does not release it.
Release(r) ==
    \/ /\ token[r] = r
       /\ held' = [held EXCEPT ![proc[r]][thread[r]] = NoRun]
       /\ row' = [row EXCEPT ![thread[r]] = IF @ = r THEN NoRun ELSE @]
    \/ /\ token[r] # r
       /\ UNCHANGED lockVars

PreludeDone(r) ==
    /\ r \in prelude /\ r \notin passed
    /\ prelude' = prelude \ {r}
    /\ UNCHANGED <<lockVars, runVars, pc, token, passed, followed, log>>

\* The turn ends, one way or another.
Leave(r) ==
    /\ pc[r] = "inside"
    /\ r \notin prelude /\ r \notin passed
    /\ pc' = [pc EXCEPT ![r] = "over"]
    /\ Release(r)
    /\ UNCHANGED <<runVars, token, prelude, passed, followed, log>>

\* Variant: no finally block.
LeaveEarlyKeeping(r) ==
    /\ pc[r] = "inside"
    /\ r \in prelude
    /\ pc' = [pc EXCEPT ![r] = "over"]
    /\ UNCHANGED <<lockVars, runVars, token, prelude, passed, followed, log>>

\* Its task is cancelled while it waits for the prelude, whose thread goes on.
LeaveEarly(r) ==
    /\ pc[r] = "inside"
    /\ r \in prelude
    /\ pc' = [pc EXCEPT ![r] = "over"]
    /\ Release(r)
    /\ UNCHANGED <<runVars, token, prelude, passed, followed, log>>

\* The code that iterates over the turn raises.  The suspended generator is closed
\* by a task of the event loop; reset() of the context variable raises there, and
\* _release_thread_lock, the next statement, is not reached.
Abandon(r) ==
    /\ pc[r] = "inside" /\ route[r] = "direct"
    /\ r \notin prelude /\ r \notin passed
    /\ pc' = [pc EXCEPT ![r] = "abandoned"]
    /\ UNCHANGED <<lockVars, runVars, token, prelude, passed, followed, log>>

\* The process ends; its next incarnation has another owner_id and holds nothing.
Crash(p) ==
    LET gone == {r \in Run : /\ proc[r] = p
                             /\ \/ pc[r] \in {"task", "waiting", "inside", "abandoned"}
                                \/ r \in prelude}
    IN  /\ gone # {}
        /\ pc' = [r \in Run |-> IF r \in gone THEN "dead" ELSE pc[r]]
        /\ held' = [held EXCEPT ![p] = [t \in Thread |-> NoRun]]
        /\ prelude' = prelude \ gone
        /\ passed' = passed \ gone
        /\ UNCHANGED <<row, runVars, token, followed, log>>

-----------------------------------------------------------------------------
(* _write_event: the check and the INSERT are two connections *)

Written(r) ==
    {i \in 1 .. Len(log[thread[r]]) : log[thread[r]][i].run = r}

\* The turn, or the prelude thread it left behind.
MayWrite(r) ==
    /\ pc[r] = "inside" \/ r \in prelude
    /\ r \notin passed
    /\ Cardinality(Written(r)) < MaxWrites

\* Nobody has the lock, or the token of the context is in the row and in held.
Allowed(r) ==
    LET t == thread[r]
    IN  \/ row[t] = NoRun
        \/ row[t] = token[r] /\ held[proc[r]][t] = token[r]

CheckWrite(r) ==
    /\ MayWrite(r)
    /\ Allowed(r)
    /\ passed' = passed \cup {r}
    /\ UNCHANGED <<lockVars, runVars, pc, token, prelude, followed, log>>

\* ThreadLockedError, in a thread nobody waits for any more.
StrayRefused(r) ==
    /\ MayWrite(r)
    /\ ~Allowed(r)
    /\ prelude' = prelude \ {r}
    /\ UNCHANGED <<lockVars, runVars, pc, token, passed, followed, log>>

InsertEvent(r) ==
    /\ r \in passed
    /\ passed' = passed \ {r}
    /\ log' = [log EXCEPT ![thread[r]] =
                  Append(@, [run |-> r, stray |-> pc[r] # "inside"])]
    /\ UNCHANGED <<lockVars, runVars, pc, token, prelude, followed>>

Next ==
    \/ \E r \in Run, p \in Process, t \in Thread :
          StartDirect(r, p, t) \/ StartDetached(r, p, t) \/ PluginTask(r, p, t)
    \/ \E r, s \in Run, t \in Thread : HandlerTask(r, s, t)
    \/ \E r, s \in Run : FollowUp(r, s)
    \/ \E r \in Run :
          \/ SubmitRefused(r) \/ Submit(r)
          \/ EnterNested(r) \/ Enter(r) \/ EnterLocked(r)
          \/ PreludeDone(r) \/ Leave(r) \/ LeaveEarly(r) \/ Abandon(r)
          \/ CheckWrite(r) \/ StrayRefused(r) \/ InsertEvent(r)
    \/ \E p \in Process : Crash(p)

Spec == Init /\ [][Next]_vars

-----------------------------------------------------------------------------
(* What it promises *)

\* Whatever the processes, the routes and the contexts, two turns never work on a
\* thread at once (test_session_store: permission "does not leak to other
\* contexts").
OneTurnAtATime ==
    \A r, s \in Run :
        (pc[r] = "inside" /\ pc[s] = "inside" /\ thread[r] = thread[s]) => r = s

\* A turn works under a lock that is in the table and that its own process holds;
\* a row of the table belongs to a turn that works, that was abandoned, or that
\* died with its process.
LockHasTurn ==
    /\ \A r \in Run : pc[r] = "inside" =>
          /\ row[thread[r]] = token[r]
          /\ held[proc[r]][thread[r]] = token[r]
    /\ \A t \in Thread : row[t] # NoRun =>
          /\ thread[row[t]] = t
          /\ pc[row[t]] \in {"inside", "abandoned", "dead"}

\* In the history of a thread the events of a turn stand together: only what a
\* prelude thread writes after its turn was cancelled can stand between them.
TurnsContiguous ==
    \A t \in Thread : \A i, j, k \in 1 .. Len(log[t]) :
        (/\ i < j /\ j < k
         /\ ~log[t][i].stray /\ ~log[t][j].stray /\ ~log[t][k].stray
         /\ log[t][i].run = log[t][k].run)
            => log[t][j].run = log[t][i].run

\* When the with-block of lock_thread is left, the row is gone, unless the process
\* died (test_session_store: "assert not store._read_lock_owner(thread_id)").
LockGivenBack ==
    \A r \in Run : pc[r] \in {"over", "abandoned"} => row[thread[r]] # r

-----------------------------------------------------------------------------
(* The inductive invariant *)

\* A turn that is waiting was called with the lock of an abandoned one, if any.
StartInv(r) ==
    /\ pc[r] = "new" =>
          thread[r] = NoThread /\ base[r] = NoRun /\ r \notin inHandler
    /\ pc[r] # "new" => thread[r] \in Thread /\ proc[r] \in Process
    /\ pc[r] = "task" /\ r \notin inHandler => base[r] = NoRun
    /\ pc[r] \in {"waiting", "inside"} /\ route[r] = "managed" => base[r] = NoRun
    /\ pc[r] = "waiting" /\ base[r] # NoRun =>
          /\ pc[base[r]] = "abandoned"
          /\ token[base[r]] = base[r]
          /\ thread[base[r]] = thread[r] /\ proc[base[r]] = proc[r]

\* A turn under a lock: the lock is in both places, and is its own or belongs to
\* an abandoned turn of the same process.
TokenInv(r) ==
    pc[r] \in {"inside", "abandoned"} =>
        /\ token[r] \in Run
        /\ row[thread[r]] = token[r]
        /\ held[proc[r]][thread[r]] = token[r]
        /\ thread[token[r]] = thread[r] /\ proc[token[r]] = proc[r]
        /\ token[token[r]] = token[r]
        /\ token[r] # r => pc[token[r]] = "abandoned"

RowInv(t) ==
    row[t] # NoRun =>
        /\ thread[row[t]] = t
        /\ token[row[t]] = row[t]
        /\ pc[row[t]] \in {"inside", "abandoned", "dead"}

\* Whoever works on a thread, may go on with it, or was called to.
AtTip(r) ==
    \/ pc[r] = "inside"
    \/ pc[r] = "abandoned" /\ r \notin followed
    \/ pc[r] = "waiting" /\ base[r] # NoRun

TipInv ==
    \A r, s \in Run : (AtTip(r) /\ AtTip(s) /\ thread[r] = thread[s]) => r = s

\* Only turns that got inside write, and what the turn that works wrote last is at
\* the end of the log.
LogInv(t) ==
    \A i \in 1 .. Len(log[t]) :
        LET r == log[t][i].run
        IN  /\ thread[r] = t
            /\ pc[r] \notin {"new", "task", "waiting", "locked", "refused"}
            /\ (pc[r] = "inside" /\ ~log[t][i].stray) =>
                  \A j \in i .. Len(log[t]) : ~log[t][j].stray => log[t][j].run = r

\* Why there is one turn at a time: permission is handed on, and to one turn only.
Permission ==
    /\ \A r \in Run : StartInv(r) /\ TokenInv(r)
    /\ \A r \in prelude \cup passed : pc[r] \in {"inside", "over"}
    /\ \A t \in Thread : RowInv(t) /\ LogInv(t)
    /\ TipInv

=============================================================================
