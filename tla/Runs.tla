--------------------------------- MODULE Runs ----------------------------------
(***************************************************************************)
(* The turns the terminal runs (tui/app.py): one run state per thread, a   *)
(* queue of messages behind the running turn, the text that still drains   *)
(* when the engine has finished, the agent view that acts on threads in    *)
(* the background.  A task of the event loop is a step: between the task   *)
(* created and the task begun, and between a turn's last event and the end *)
(* of its task, keys and other tasks come in.                              *)
(***************************************************************************)
EXTENDS Naturals, Sequences, FiniteSets, SequencesExt

CONSTANTS
    Threads,
    Stored,         \* threads from earlier, which can be resumed
    MaxMessages,    \* messages the user writes, numbered as they are sent
    None            \* no thread

VARIABLES
    runs,           \* the run states made so far
    current,        \* _thread_runs: the index of a thread's run state, or 0
    turns,          \* per message: thread, stage, the run state and cancel event of its task
    ready,          \* messages whose task has not begun; asyncio begins them in this order
    interrupted,    \* messages whose start made a cancel event that is set
    attached,       \* the thread on the screen
    listed,         \* state.pending_turns: the run state whose queue it is, or 0
    view,           \* transcript or agent view, and the threads the agent view lists
    stopping        \* the tasks the program waits for before it ends

vars == <<runs, current, turns, ready, interrupted, attached, listed, view, stopping>>

Ended == {"completed", "failed", "interrupted"}     \* _RUN_TERMINAL_STATUSES
Messages == 1..MaxMessages
Taken == Stored \cup ({turns[m].thread : m \in Messages} \ {None})

NewRun(t) == [thread |-> t, task |-> 0, event |-> 0, pending |-> <<>>,
              status |-> "working", drain |-> FALSE, finished |-> FALSE]

----------------------------------------------------------------------------
(* The state of a run. *)

Running(r) == r.task # 0 /\ turns[r.task].stage \in {"created", "running", "closing"}
Active(r) == Running(r) /\ r.event \notin interrupted /\ r.status \notin Ended
Busy(r) == Active(r) \/ r.drain

Has(t) == t # None /\ current[t] # 0
Run(t) == runs[current[t]]

\* A turn holds its thread's lock from its first step to its last.
Locked(t) == \E m \in Messages : turns[m].thread = t /\ turns[m].stage \in {"running", "closing"}

\* One state of the variables a helper changes, and its commit.
World == [runs |-> runs, current |-> current, turns |-> turns, ready |-> ready, listed |-> listed]

Commit(w) == /\ runs' = w.runs /\ current' = w.current
             /\ turns' = w.turns /\ ready' = w.ready /\ listed' = w.listed

Stages(w, messages, stage) ==
    [w EXCEPT !.turns = [m \in Messages |->
        IF m \in messages THEN [w.turns[m] EXCEPT !.stage = stage] ELSE w.turns[m]]]

\* _sync_attached_run_state: the list on the screen is the run's own queue;
\* without a run the list is emptied, whosever queue it still is.
Sync(w, t) ==
    IF t # None /\ w.current[t] # 0 THEN [w EXCEPT !.listed = w.current[t]]
    ELSE IF w.listed = 0 THEN w
    ELSE LET cleared == Stages(w, Range(w.runs[w.listed].pending), "lost")
         IN  [cleared EXCEPT !.runs[w.listed].pending = <<>>]

WithRun(w, t) ==
    IF w.current[t] # 0 THEN w
    ELSE [w EXCEPT !.runs = Append(@, NewRun(t)), !.current[t] = Len(w.runs) + 1]

\* _start_turn and _start_turn_for_thread: the run state is taken over.
Start(w, m, t) ==
    LET v == WithRun(w, t)
        begun == [v EXCEPT !.runs[v.current[t]] =
                      [@ EXCEPT !.task = m, !.event = m, !.status = "working",
                                !.drain = FALSE, !.finished = FALSE],
                  !.turns[m] = [@ EXCEPT !.thread = t, !.stage = "created"],
                  !.ready = Append(@, m)]
    IN  IF t = attached THEN Sync(begun, t) ELSE begun

\* A task for _start_turn_for_thread.
Schedule(w, m, t) ==
    [w EXCEPT !.turns[m] = [@ EXCEPT !.thread = t, !.stage = "scheduled"], !.ready = Append(@, m)]

\* Variant: only a turn that completed makes place for the next.
CompleteCompleted(w, i, done) ==
    LET r == w.runs[i]
        over == [w EXCEPT !.runs[i].finished = FALSE]
    IN  IF r.pending # <<>> /\ r.status = "completed"
        THEN Schedule([over EXCEPT !.runs[i].pending = Tail(@)], Head(r.pending), r.thread)
        ELSE over

\* _complete_finished_run_display of run state i: the next message's turn is
\* scheduled, or a run whose task is done is forgotten.
Complete(w, i, done) ==
    LET r == w.runs[i]
        over == [w EXCEPT !.runs[i].finished = FALSE]
    IN  IF r.pending # <<>>
        THEN Schedule([over EXCEPT !.runs[i].pending = Tail(@)], Head(r.pending), r.thread)
        ELSE IF done THEN [over EXCEPT !.current[r.thread] = 0]
        ELSE over

\* The finally of _run_turn, whose task is still running itself.
Finally(w, m) ==
    LET i == w.turns[m].run
        own == w.runs[i].task
        done == own # m /\ w.turns[own].stage \notin {"created", "running", "closing"}
        v == IF w.runs[i].drain THEN [w EXCEPT !.runs[i].finished = TRUE] ELSE Complete(w, i, done)
    IN  [v EXCEPT !.turns[m] = [@ EXCEPT !.stage = "over", !.run = 0, !.event = 0]]

Broken(w, i, status) ==
    [w EXCEPT !.runs[i] = [@ EXCEPT !.status = status, !.drain = FALSE, !.finished = FALSE]]

Rest == UNCHANGED <<interrupted, attached, view, stopping>>

----------------------------------------------------------------------------

Init ==
    /\ runs = <<>> /\ current = [t \in Threads |-> 0]
    /\ turns = [m \in Messages |-> [thread |-> None, stage |-> "composer", run |-> 0, event |-> 0]]
    /\ ready = <<>> /\ interrupted = {} /\ attached = None /\ listed = 0
    /\ view = [mode |-> "transcript", rows |-> {}]
    /\ stopping = <<>>

Open == stopping = <<>>
Unsent(m) == /\ turns[m].stage = "composer"
             /\ m > 1 => turns[m - 1].stage # "composer"
Transcript == Open /\ view.mode = "transcript"
AgentView == Open /\ view.mode = "agent_view"

Queue(w, m, t) ==
    [w EXCEPT !.runs[w.current[t]].pending = Append(@, m),
              !.turns[m] = [@ EXCEPT !.thread = t, !.stage = "pending"]]

\* submit: behind a run that is busy, or at once; without a thread in a new one.
Submit(m) ==
    /\ Transcript /\ Unsent(m)
    /\ IF attached = None
       THEN \E t \in Threads \ Taken : /\ attached' = t
                                       /\ Commit(Sync(Start(World, m, t), t))
       ELSE /\ UNCHANGED attached
            /\ IF Has(attached) /\ Busy(Run(attached))
               THEN Commit(Sync(Queue(World, m, attached), attached))
               ELSE Commit(Start(World, m, attached))
    /\ UNCHANGED <<interrupted, view, stopping>>

\* _reply_to_agent_view_thread
Reply(m, t) ==
    /\ AgentView /\ Unsent(m) /\ t \in view.rows
    /\ IF Has(t) /\ Busy(Run(t))
       THEN Commit(Queue(World, m, t))
       ELSE Commit(Schedule(World, m, t))
    /\ Rest

\* _dispatch_agent_view_prompt: a new thread, whose worktree is made first.
Dispatch(m, t) ==
    /\ AgentView /\ Unsent(m) /\ t \notin Taken
    /\ LET w == WithRun(World, t)
       IN  Commit([w EXCEPT !.runs[w.current[t]].status = "dispatching",
                            !.turns[m] = [@ EXCEPT !.thread = t, !.stage = "dispatching",
                                                   !.run = w.current[t]]])
    /\ view' = [view EXCEPT !.rows = @ \cup {t}]
    /\ UNCHANGED <<interrupted, attached, stopping>>

Dispatched(m) ==
    /\ turns[m].stage = "dispatching"
    /\ Commit(Start(World, m, turns[m].thread))
    /\ Rest

DispatchFails(m) ==
    /\ turns[m].stage = "dispatching"
    /\ Commit(Stages([World EXCEPT !.runs[turns[m].run].status = "failed",
                                !.turns[m].run = 0], {m}, "over"))
    /\ Rest

\* The task created first begins first.
First(m) == ready # <<>> /\ Head(ready) = m
Begun == [World EXCEPT !.ready = Tail(@)]

RunScheduled(m) ==
    /\ turns[m].stage = "scheduled" /\ First(m)
    /\ Commit(Start(Begun, m, turns[m].thread))
    /\ Rest

\* The first step of _run_turn: it takes the thread's run state and its
\* cancel event.  A thread that is locked refuses the turn.
Begin(m) ==
    LET t == turns[m].thread
        i == current[t]
        mine == [Begun EXCEPT !.turns[m] = [@ EXCEPT !.run = i, !.event = runs[i].event]]
    IN  /\ turns[m].stage = "created" /\ First(m)
        /\ IF i = 0 THEN Commit(Stages(Begun, {m}, "dropped"))
           ELSE IF Locked(t) THEN Commit(Finally(Broken(mine, i, "failed"), m))
           ELSE LET begun == Stages(mine, {m}, "running")
                IN  Commit(IF t = attached THEN [begun EXCEPT !.runs[i].status = "working"]
                           ELSE begun)
        /\ Rest

\* Text of the answer, shown at its own pace.
Delta(m) ==
    /\ turns[m].stage = "running" /\ turns[m].thread = attached /\ Has(attached)
    /\ Commit([World EXCEPT !.runs[current[attached]].drain = TRUE])
    /\ Rest

\* turn.completed, turn.error or turn.interrupted: the attached thread's run
\* state is looked up, the others' is the task's own.
Terminal(m, status) ==
    LET t == turns[m].thread
        i == IF t = attached THEN current[t] ELSE turns[m].run
        closing == Stages(World, {m}, "closing")
    IN  /\ turns[m].stage = "running"
        /\ status = "interrupted" => turns[m].event \in interrupted
        /\ Commit(IF i = 0 THEN closing
                  ELSE IF status = "completed" THEN [closing EXCEPT !.runs[i].status = status]
                  ELSE Broken(closing, i, status))
        /\ Rest

Ends(m) ==
    /\ turns[m].stage = "closing"
    /\ Commit(Finally(World, m))
    /\ Rest

Raises(m) ==
    /\ turns[m].stage = "running"
    /\ Commit(Finally(Broken(World, turns[m].run, "failed"), m))
    /\ Rest

\* _advance_streaming_display, for the attached thread only: the last text is
\* shown, and a run that waited for it is complete.
Tick ==
    /\ Has(attached)
    /\ Run(attached).drain \/ Run(attached).finished
    /\ LET i == current[attached]
           shown == [World EXCEPT !.runs[i].drain = FALSE]
       IN  Commit(IF runs[i].finished THEN Complete(shown, i, ~Running(runs[i])) ELSE shown)
    /\ Rest

----------------------------------------------------------------------------
(* The user's keys and commands. *)

\* Ctrl+C twice, or /cancel.
Interrupt ==
    /\ Transcript /\ Has(attached) /\ Active(Run(attached))
    /\ interrupted' = interrupted \cup {Run(attached).event}
    /\ runs' = [runs EXCEPT ![current[attached]].status = "interrupted"]
    /\ UNCHANGED <<current, turns, ready, attached, listed, view, stopping>>

\* _cancel_agent_view_thread, which the worktree's deletion begins with too.
Cancel(t) ==
    /\ AgentView /\ t \in view.rows /\ Has(t) /\ Running(Run(t))
    /\ interrupted' = interrupted \cup {Run(t).event}
    /\ runs' = [runs EXCEPT ![current[t]].status = "interrupted"]
    /\ UNCHANGED <<current, turns, ready, attached, listed, view, stopping>>

\* _hide_agent_view_thread: a running turn's lock refuses the event, and the
\* thread stays in the list.
Hide(t) ==
    LET cancels == Has(t) /\ Running(Run(t))
        w == IF cancels THEN [World EXCEPT !.runs[current[t]].status = "interrupted"] ELSE World
        queue == IF Has(t) THEN Range(Run(t).pending) ELSE {}
        hidden == [Stages(w, queue, "dropped") EXCEPT !.current[t] = 0]
    IN  /\ AgentView /\ t \in view.rows
        /\ interrupted' = IF cancels THEN interrupted \cup {Run(t).event} ELSE interrupted
        /\ IF Locked(t) THEN Commit(w) /\ UNCHANGED <<attached, view>>
           ELSE /\ Commit(IF t = attached THEN [hidden EXCEPT !.listed = 0] ELSE hidden)
                /\ attached' = IF t = attached THEN None ELSE attached
                /\ view' = [view EXCEPT !.rows = @ \ {t}]
        /\ UNCHANGED stopping

\* /clear drops the queue; a text still draining is written out.
Clear ==
    /\ Transcript /\ attached # None
    /\ LET i == current[attached]
           w == IF i = 0 THEN World
                ELSE [Stages(World, Range(runs[i].pending), "dropped") EXCEPT
                         !.runs[i] = [@ EXCEPT !.pending = <<>>, !.drain = FALSE]]
       IN  Commit([w EXCEPT !.listed = 0])
    /\ attached' = None
    /\ UNCHANGED <<interrupted, view, stopping>>

\* _resume_thread, from the picker or the agent view.
Resume(t) ==
    /\ Open /\ t \in Taken /\ view.mode = "agent_view" => t \in view.rows
    /\ LET w == IF t = attached /\ Has(t) THEN [World EXCEPT !.runs[current[t]].drain = FALSE]
                ELSE World
       IN  Commit(Sync(w, t))
    /\ attached' = t
    /\ view' = [view EXCEPT !.mode = "transcript"]
    /\ UNCHANGED <<interrupted, stopping>>

\* Ctrl+A, and /bg, which puts the attached thread among the rows.
OpenAgentView(join) ==
    /\ Transcript
    /\ join => attached # None
    /\ view' = [mode |-> "agent_view", rows |-> view.rows \cup IF join THEN {attached} ELSE {}]
    /\ UNCHANGED <<runs, current, turns, ready, interrupted, attached, listed, stopping>>

CloseAgentView ==
    /\ AgentView
    /\ view' = [view EXCEPT !.mode = "transcript"]
    /\ UNCHANGED <<runs, current, turns, ready, interrupted, attached, listed, stopping>>

\* run_async: every running turn is cancelled and waited for.  With none running
\* the program ends at once, and no state is left to say anything of.
Quit ==
    LET running == {t \in Threads : Has(t) /\ Running(Run(t))}
    IN  /\ Open /\ running # {}
        /\ interrupted' = interrupted \cup {Run(t).event : t \in running}
        /\ stopping' = <<{Run(t).task : t \in running}>>
        /\ UNCHANGED <<runs, current, turns, ready, attached, listed, view>>

\* The engine closes when those are done, whatever else has begun by then.
Stopped == ~Open /\ \A m \in stopping[1] : turns[m].stage \notin {"created", "running", "closing"}

Next ==
    /\ ~Stopped
    /\ \/ \E m \in Messages :
             \/ Submit(m) \/ Dispatched(m) \/ DispatchFails(m) \/ RunScheduled(m)
             \/ Begin(m) \/ Delta(m) \/ Ends(m) \/ Raises(m)
             \/ \E t \in Threads : Reply(m, t) \/ Dispatch(m, t)
             \/ \E status \in Ended : Terminal(m, status)
       \/ Tick
       \/ Interrupt \/ Clear \/ CloseAgentView \/ Quit
       \/ \E t \in Threads : Cancel(t) \/ Hide(t) \/ Resume(t)
       \/ \E join \in BOOLEAN : OpenAgentView(join)

Spec == Init /\ [][Next]_vars

----------------------------------------------------------------------------
(* What holds of every World. *)

Unbegun == {"created", "scheduled"}
Working == {"running", "closing"}
AtWork(w, t) == {m \in Messages : w.turns[m].thread = t /\ w.turns[m].stage \in Working}
TurnStages == {"composer", "pending", "dispatching", "scheduled", "created", "running", "closing",
               "over", "dropped", "lost"}
RunStates == [thread : Threads, task : {0} \cup Messages, event : {0} \cup Messages,
              pending : Seq(Messages), status : {"working", "dispatching"} \cup Ended,
              drain : BOOLEAN, finished : BOOLEAN]
TurnStates == [thread : Threads \cup {None}, stage : TurnStages, run : Nat, event : Nat]

Worlds == [runs : Seq(RunStates), current : [Threads -> Nat], turns : [Messages -> TurnStates],
           ready : Seq(Messages), listed : Nat]

TypeOK(w) ==
    /\ w \in Worlds /\ w.listed \in {0} \cup DOMAIN w.runs
    /\ \A t \in Threads : w.current[t] \in {0} \cup DOMAIN w.runs
    /\ \A m \in Messages : w.turns[m].stage # "composer" => w.turns[m].thread \in Threads
    /\ \A m \in Messages : w.turns[m].stage = "dispatching" => w.turns[m].run \in DOMAIN w.runs

\* A run state is its thread's, and so is its task.
OwnRuns(w) ==
    /\ \A t \in Threads : w.current[t] # 0 => w.runs[w.current[t]].thread = t
    /\ \A i \in DOMAIN w.runs : w.runs[i].task # 0 =>
          /\ w.turns[w.runs[i].task].thread = w.runs[i].thread
          /\ w.turns[w.runs[i].task].stage \in {"created", "over", "dropped"} \cup Working

\* A message waits in one place of one queue, and no task is made of it yet.
WaitsOnce(w) ==
    \A i \in DOMAIN w.runs : \A k \in DOMAIN w.runs[i].pending :
        /\ w.turns[w.runs[i].pending[k]].stage \in {"pending", "dropped", "lost"}
        /\ \A j \in DOMAIN w.runs :
              /\ w.runs[j].task # w.runs[i].pending[k]
              /\ \A l \in DOMAIN w.runs[j].pending :
                    w.runs[j].pending[l] = w.runs[i].pending[k] => i = j /\ k = l

\* Tasks that have not begun are in line, and behind all of a thread's is the one
\* its run state names.
InLine(w) ==
    /\ \A a, b \in DOMAIN w.ready : w.ready[a] = w.ready[b] => a = b
    /\ \A m \in Messages :
          w.turns[m].stage \in Unbegun <=> \E a \in DOMAIN w.ready : w.ready[a] = m
NamedFrom(w, a, i) ==
    \E b \in DOMAIN w.ready : /\ a <= b /\ w.ready[b] = w.runs[i].task
                              /\ w.turns[w.ready[b]].stage = "created"
NewestIsNamed(w) ==
    \A a \in DOMAIN w.ready :
        LET i == w.current[w.turns[w.ready[a]].thread] IN
        w.turns[w.ready[a]].stage = "created" /\ i # 0 => NamedFrom(w, a, i)

\* The turn that holds a thread's lock has the thread's run state, whose task
\* has not ended either if its text had drained.
Goes(w, i) == w.runs[i].task # 0 /\ w.turns[w.runs[i].task].stage \in {"created"} \cup Working
HasRun(w, m) ==
    LET i == w.current[w.turns[m].thread]
    IN  i # 0 /\ w.turns[m].run = i /\ (w.runs[i].finished => Goes(w, i))
LockHasRun(w) ==
    \A m \in Messages : w.turns[m].stage \in Working =>
        AtWork(w, w.turns[m].thread) = {m} /\ HasRun(w, m)

\* What will come to _complete_finished_run_display of run state i.
StarterIn(w, i) ==
    \/ w.runs[i].finished
    \/ \E m \in Messages :
           \/ w.turns[m].stage \in Working /\ w.turns[m].run = i
           \/ w.turns[m].stage \in Unbegun /\ w.turns[m].thread = w.runs[i].thread
HasStarter(w) ==
    \A t \in Threads :
        LET i == w.current[t] IN
        i # 0 /\ (w.runs[i].pending # <<>> \/ w.runs[i].drain) => StarterIn(w, i)

Good(w) == TypeOK(w) /\ OwnRuns(w) /\ WaitsOnce(w) /\ InLine(w) /\ NewestIsNamed(w)
           /\ LockHasRun(w) /\ HasStarter(w)

Views == [mode : {"transcript", "agent_view"}, rows : SUBSET Threads]

Inv == Good(World) /\ attached \in Threads \cup {None} /\ view \in Views

----------------------------------------------------------------------------
(* Correctness. *)

\* What will come to _complete_finished_run_display of run state i.
Starter(i) ==
    \/ runs[i].finished
    \/ \E m \in Messages :
           \/ turns[m].stage \in {"running", "closing"} /\ turns[m].run = i
           \/ turns[m].stage \in {"created", "scheduled"} /\ turns[m].thread = runs[i].thread

\* A message that waits in a thread's queue is not forgotten: a turn of the
\* thread is on its way that starts the next message when it ends, or the
\* text of the finished one still drains, whatever was interrupted, refused,
\* resumed, hidden or left in the background meanwhile.
WaitingHasStarter ==
    \A t \in Threads : Has(t) /\ Run(t).pending # <<>> => Starter(current[t])

\* A queue is one thread's own ("tracks queues per thread",
\* tests/test_tui.py): only its /clear and its hiding drop what waits in it.
QueueIsItsThreads == \A m \in Messages : turns[m].stage # "lost"

=============================================================================
