---------------------------- MODULE TurnManager ----------------------------
(***************************************************************************)
(* The in-memory turn supervisor (turn_manager.py) together with the turn  *)
(* it drives (AgentEngine.run_turn), seen from the supervisor: what the    *)
(* turn needs before it writes, when it writes the user's messages, where  *)
(* it looks at its events, and how it ends.                                *)
(*                                                                         *)
(* All of this runs on one asyncio event loop, so a step is what happens   *)
(* between two awaits.  The supervisor's lock sections contain none; each  *)
(* is one action.  Acquiring the lock counts as an await, although nobody  *)
(* can hold it then, so no cancellation is delivered there.                *)
(***************************************************************************)
EXTENDS Integers, Sequences, FiniteSets

CONSTANTS Request,      \* the calls to submit_turn (each brings one UserInput)
          Thread,       \* the threads the calls may name
          Task,         \* identities for asyncio tasks; reused once a task is gone
          MaxTurns,     \* max_concurrent_turns
          NoRequest, NoThread, NoTask    \* None

ASSUME ConstantsAssumption ==
    /\ MaxTurns \in Nat \ {0}
    /\ IsFiniteSet(Task)
    /\ NoRequest \notin Request
    /\ NoThread \notin Thread
    /\ NoTask \notin Task

VARIABLES
    \* TurnHandle
    status,        \* status[r], "new" before the call, "rejected" if it raised
    inputs,        \* inputs[r]: user_inputs, as the calls that brought them
    thread,        \* thread[r]: thread_id, NoThread for a detached call
    mergedInto,    \* mergedInto[r]
    done,          \* the handles whose _done event is set
    cancelEvent,   \* the handles whose cancel_event is set
    guideEvent,    \* the handles whose guide_event is set
    \* _ThreadState
    active, queue, takeover, takeoverMode, worker,
    \* TurnManager
    semaphore,     \* the value of _semaphore
    \* asyncio tasks: _thread_worker(thread) or, with no thread, _run_detached
    pc,            \* where the task stands
    wthread,       \* its thread_id, NoThread if detached
    wreq,          \* its local variable handle
    kill,          \* the tasks with a cancellation not yet delivered
    \* ThreadStore, as far as run_turn writes it
    record,        \* record[r]: how far the stored turn of r got
    history,       \* history[t]: the item.user events of thread t
    \* aclose
    closing,       \* "open", "closing" (aclose waits), "closed" (it returned)
    awaited,       \* the tasks aclose gathers
    \* history variables, read by properties only
    clock,         \* how many calls with a thread have been accepted
    ticket,        \* ticket[r]: the clock when r was accepted
    known          \* the calls that had been made when aclose began

handleVars == <<status, inputs, thread, mergedInto, done, cancelEvent, guideEvent>>
threadVars == <<active, queue, takeover, takeoverMode, worker>>
taskVars   == <<pc, wthread, wreq, kill>>
storeVars  == <<record, history>>
closeVars  == <<closing, awaited, known>>
ghostVars  == <<clock, ticket>>
vars == <<handleVars, threadVars, semaphore, taskVars, storeVars, closeVars,
          ghostVars>>

-----------------------------------------------------------------------------
(* Types *)

Conflict == {"queue", "reject", "interrupt", "guide"}

Status == {"new", "rejected", "queued", "running", "completed", "failed",
           "interrupted", "cancelled", "merged"}

\* Inside the engine, holding a permit of the semaphore.
Engine == {"opening", "prepared", "rounds", "wrapup"}

\* idle: no such task.  new: created, not started.  next: back at the top of
\* the worker's loop.  waiting: for a permit.  finished: _run_handle is over.
\* over: the task is done, and state.worker may still refer to it.
PC == {"idle", "new", "next", "waiting", "finished", "over"} \cup Engine

\* none, then turn.started, then the user's items, then a terminal event.
Record == {"none", "started", "open", "completed", "interrupted", "error"}

TypeOK ==
    /\ status \in [Request -> Status]
    /\ inputs \in [Request -> Seq(Request)]
    /\ thread \in [Request -> Thread \cup {NoThread}]
    /\ mergedInto \in [Request -> Request \cup {NoRequest}]
    /\ done \subseteq Request
    /\ cancelEvent \subseteq Request
    /\ guideEvent \subseteq Request
    /\ active \in [Thread -> Request \cup {NoRequest}]
    /\ queue \in [Thread -> Seq(Request)]
    /\ takeover \in [Thread -> Request \cup {NoRequest}]
    /\ takeoverMode \in [Thread -> {"none", "guide", "interrupt"}]
    /\ worker \in [Thread -> Task \cup {NoTask}]
    /\ semaphore \in 0 .. MaxTurns
    /\ pc \in [Task -> PC]
    /\ wthread \in [Task -> Thread \cup {NoThread}]
    /\ wreq \in [Task -> Request \cup {NoRequest}]
    /\ kill \subseteq Task
    /\ record \in [Request -> Record]
    /\ history \in [Thread -> Seq(Request)]
    /\ closing \in {"open", "closing", "closed"}
    /\ awaited \subseteq Task
    /\ clock \in Nat
    /\ ticket \in [Request -> Nat]
    /\ known \subseteq Request

Init ==
    /\ status = [r \in Request |-> "new"]
    /\ inputs = [r \in Request |-> <<>>]
    /\ thread = [r \in Request |-> NoThread]
    /\ mergedInto = [r \in Request |-> NoRequest]
    /\ done = {} /\ cancelEvent = {} /\ guideEvent = {}
    /\ active = [t \in Thread |-> NoRequest]
    /\ queue = [t \in Thread |-> <<>>]
    /\ takeover = [t \in Thread |-> NoRequest]
    /\ takeoverMode = [t \in Thread |-> "none"]
    /\ worker = [t \in Thread |-> NoTask]
    /\ semaphore = MaxTurns
    /\ pc = [w \in Task |-> "idle"]
    /\ wthread = [w \in Task |-> NoThread]
    /\ wreq = [w \in Task |-> NoRequest]
    /\ kill = {}
    /\ record = [r \in Request |-> "none"]
    /\ history = [t \in Thread |-> <<>>]
    /\ closing = "open" /\ awaited = {} /\ known = {}
    /\ clock = 0
    /\ ticket = [r \in Request |-> 0]

-----------------------------------------------------------------------------
(* submit_turn *)

Busy(t) == active[t] # NoRequest \/ queue[t] # <<>> \/ takeover[t] # NoRequest

\* _ensure_worker_locked.  pcs is what the rest of the step does to pc.
EnsureWorker(t, pcs) ==
    IF worker[t] = NoTask \/ pc[worker[t]] = "over"
    THEN \E w \in Task :
            /\ pc[w] = "idle"
            /\ worker' = [worker EXCEPT ![t] = w]
            /\ pc' = [x \in Task |-> IF x = w THEN "new"
                                    ELSE IF x = worker[t] THEN "idle" ELSE pcs[x]]
            /\ wthread' = [wthread EXCEPT ![w] = t]
            /\ wreq' = [x \in Task |-> IF x \in {w, worker[t]} THEN NoRequest ELSE wreq[x]]
    ELSE /\ pc' = pcs
         /\ UNCHANGED <<worker, wthread, wreq>>

\* _mark_merged for every handle of S.
MarkMerged(S, target) ==
    /\ mergedInto' = [x \in Request |-> IF x \in S THEN target ELSE mergedInto[x]]
    /\ done' = done \cup S

\* What a call brings: a handle on the thread, and a place in the order of calls.
NewHandle(r, t) ==
    /\ thread' = [thread EXCEPT ![r] = t]
    /\ clock' = clock + 1
    /\ ticket' = [ticket EXCEPT ![r] = clock + 1]

\* The thread has no work: the handle becomes active at once.
SubmitIdle(r, t) ==
    /\ ~Busy(t)
    /\ NewHandle(r, t)
    /\ status' = [status EXCEPT ![r] = "queued"]
    /\ inputs' = [inputs EXCEPT ![r] = <<r>>]
    /\ active' = [active EXCEPT ![t] = r]
    /\ EnsureWorker(t, pc)
    /\ UNCHANGED <<mergedInto, done, cancelEvent, guideEvent, queue, takeover,
                   takeoverMode>>

\* TurnConflictError.
SubmitReject(r, t, conflict) ==
    /\ Busy(t)
    /\ conflict = "reject"
    /\ status' = [status EXCEPT ![r] = "rejected"]
    /\ UNCHANGED <<inputs, thread, mergedInto, done, cancelEvent, guideEvent,
                   threadVars, pc, wthread, wreq, ghostVars>>

SubmitQueue(r, t, conflict) ==
    /\ Busy(t)
    /\ conflict = "queue"
    /\ takeover[t] = NoRequest
    /\ NewHandle(r, t)
    /\ status' = [status EXCEPT ![r] = "queued"]
    /\ inputs' = [inputs EXCEPT ![r] = <<r>>]
    /\ queue' = [queue EXCEPT ![t] = Append(@, r)]
    /\ EnsureWorker(t, pc)
    /\ UNCHANGED <<mergedInto, done, cancelEvent, guideEvent, active, takeover,
                   takeoverMode>>

\* _merge_into_takeover_locked: the waiting takeover carries the new input too.
MergeIntoTakeover(r, t) ==
    /\ takeover[t] # NoRequest
    /\ status' = [status EXCEPT ![r] = "merged"]
    /\ inputs' = [x \in Request |-> IF x = r THEN <<r>>
                                   ELSE IF x = takeover[t] THEN Append(inputs[x], r)
                                   ELSE inputs[x]]
    /\ MarkMerged({r}, takeover[t])

\* A queue call while a takeover waits does not wake anybody.
SubmitJoin(r, t, conflict) ==
    /\ Busy(t)
    /\ conflict = "queue"
    /\ NewHandle(r, t)
    /\ MergeIntoTakeover(r, t)
    /\ UNCHANGED <<cancelEvent, guideEvent, threadVars, pc, wthread, wreq>>

\* Variant: the newest input is put before those it absorbs.
AbsorbNewestFirst(r, t, mode) ==
    LET pending == {queue[t][i] : i \in 1 .. Len(queue[t])}
        merged  == [i \in 1 .. Len(queue[t]) |-> Head(inputs[queue[t][i]])]
    IN  /\ takeover[t] = NoRequest
        /\ takeover' = [takeover EXCEPT ![t] = r]
        /\ takeoverMode' = [takeoverMode EXCEPT ![t] = mode]
        /\ queue' = [queue EXCEPT ![t] = <<>>]
        /\ inputs' = [inputs EXCEPT ![r] = <<r>> \o merged]
        /\ status' = [x \in Request |-> IF x = r THEN "queued"
                                        ELSE IF x \in pending THEN "merged"
                                        ELSE status[x]]
        /\ MarkMerged(pending, r)

\* _absorb_queue_into_takeover_locked with no takeover waiting.  Every queued
\* handle still has exactly the input it came with.
AbsorbQueue(r, t, mode) ==
    LET pending == {queue[t][i] : i \in 1 .. Len(queue[t])}
        merged  == [i \in 1 .. Len(queue[t]) |-> Head(inputs[queue[t][i]])]
    IN  /\ takeover[t] = NoRequest
        /\ takeover' = [takeover EXCEPT ![t] = r]
        /\ takeoverMode' = [takeoverMode EXCEPT ![t] = mode]
        /\ queue' = [queue EXCEPT ![t] = <<>>]
        /\ inputs' = [inputs EXCEPT ![r] = Append(merged, r)]
        /\ status' = [x \in Request |-> IF x = r THEN "queued"
                                        ELSE IF x \in pending THEN "merged"
                                        ELSE status[x]]
        /\ MarkMerged(pending, r)

\* _absorb_queue_into_takeover_locked with one waiting: guide may become
\* interrupt, never the reverse.
JoinTakeover(r, t, mode) ==
    /\ MergeIntoTakeover(r, t)
    /\ takeoverMode' = [takeoverMode EXCEPT
                           ![t] = IF mode = "interrupt" THEN mode ELSE @]
    /\ UNCHANGED <<queue, takeover>>

\* Variant: an interrupt is announced like a guide.
SignalGuideOnly(t) ==
    /\ guideEvent' = guideEvent \cup ({active[t]} \ {NoRequest})
    /\ UNCHANGED cancelEvent

\* The event the running turn is told with depends on the mode now in force.
SignalActive(t) ==
    LET told == {active[t]} \ {NoRequest}
    IN  IF takeoverMode'[t] = "interrupt"
        THEN cancelEvent' = cancelEvent \cup told /\ UNCHANGED guideEvent
        ELSE guideEvent' = guideEvent \cup told /\ UNCHANGED cancelEvent

SubmitTakeover(r, t, conflict) ==
    /\ Busy(t)
    /\ conflict \in {"guide", "interrupt"}
    /\ NewHandle(r, t)
    /\ AbsorbQueue(r, t, conflict) \/ JoinTakeover(r, t, conflict)
    /\ SignalActive(t)
    /\ EnsureWorker(t, pc)
    /\ UNCHANGED active

\* A call that names a thread.
SubmitTurn(r, t, conflict) ==
    /\ status[r] = "new"
    /\ \/ SubmitIdle(r, t)
       \/ SubmitReject(r, t, conflict)
       \/ SubmitQueue(r, t, conflict)
       \/ SubmitJoin(r, t, conflict)
       \/ SubmitTakeover(r, t, conflict)
    /\ UNCHANGED <<semaphore, kill, storeVars, closeVars>>

\* A call that names none: a task of its own, on a thread that run_turn creates.
SubmitDetached(r) ==
    /\ status[r] = "new"
    /\ status' = [status EXCEPT ![r] = "queued"]
    /\ inputs' = [inputs EXCEPT ![r] = <<r>>]
    /\ \E w \in Task :
          /\ pc[w] = "idle"
          /\ pc' = [pc EXCEPT ![w] = "new"]
          /\ wthread' = [wthread EXCEPT ![w] = NoThread]
          /\ wreq' = [wreq EXCEPT ![w] = r]
    /\ UNCHANGED <<thread, mergedInto, done, cancelEvent, guideEvent, threadVars,
                   semaphore, kill, storeVars, closeVars, ghostVars>>

-----------------------------------------------------------------------------
(* _thread_worker and _run_handle, outside the engine *)

\* A task that is done is no longer waited for, nor cancellable.
TaskDone(w) ==
    /\ kill' = kill \ {w}
    /\ awaited' = awaited \ {w}

\* ... and if nothing refers to it either, its identity can be used again.
TaskGone(w) ==
    /\ TaskDone(w)
    /\ pc' = [pc EXCEPT ![w] = "idle"]
    /\ wreq' = [wreq EXCEPT ![w] = NoRequest]

\* The first part of _run_handle, up to the semaphore.
EnterRun(w, r) ==
    /\ status' = [status EXCEPT ![r] = "running"]
    /\ pc' = [pc EXCEPT ![w] = "waiting"]
    /\ wreq' = [wreq EXCEPT ![w] = r]

\* A cancelled task that never ran a step never will: its handle is left as is.
CancelNew(w) ==
    /\ pc[w] = "new" /\ w \in kill
    /\ \/ wthread[w] = NoThread /\ TaskGone(w)
       \/ /\ wthread[w] # NoThread
          /\ TaskDone(w)
          /\ pc' = [pc EXCEPT ![w] = "over"]
          /\ UNCHANGED wreq
    /\ UNCHANGED <<status, done, active, queue, takeover, takeoverMode, worker>>

\* The detached task starts.
RunDetached(w) ==
    /\ pc[w] = "new" /\ w \notin kill
    /\ wthread[w] = NoThread
    /\ EnterRun(w, wreq[w])
    /\ UNCHANGED <<done, active, queue, takeover, takeoverMode, worker, kill,
                   awaited>>

\* The top of the worker's loop: the submitted active handle, or the waiting
\* takeover, or the oldest queued handle.
PickActive(w, t) ==
    /\ active[t] # NoRequest /\ status[active[t]] = "queued"
    /\ EnterRun(w, active[t])
    /\ UNCHANGED <<active, queue, takeover, takeoverMode, worker, kill, awaited>>

LeaveToOther(w, t) ==
    /\ active[t] # NoRequest /\ status[active[t]] # "queued"
    /\ pc' = [pc EXCEPT ![w] = "over"]
    /\ TaskDone(w)
    /\ UNCHANGED <<status, active, queue, takeover, takeoverMode, worker, wreq>>

PickTakeover(w, t) ==
    /\ active[t] = NoRequest /\ takeover[t] # NoRequest
    /\ active' = [active EXCEPT ![t] = takeover[t]]
    /\ takeover' = [takeover EXCEPT ![t] = NoRequest]
    /\ takeoverMode' = [takeoverMode EXCEPT ![t] = "none"]
    /\ EnterRun(w, takeover[t])
    /\ UNCHANGED <<queue, worker, kill, awaited>>

\* Variant: pop instead of popleft.
PickNewest(w, t) ==
    LET n == Len(queue[t]) IN
    /\ active[t] = NoRequest /\ takeover[t] = NoRequest /\ queue[t] # <<>>
    /\ active' = [active EXCEPT ![t] = queue[t][n]]
    /\ queue' = [queue EXCEPT ![t] = SubSeq(@, 1, n - 1)]
    /\ EnterRun(w, queue[t][n])
    /\ UNCHANGED <<takeover, takeoverMode, worker, kill, awaited>>

PickQueued(w, t) ==
    /\ active[t] = NoRequest /\ takeover[t] = NoRequest /\ queue[t] # <<>>
    /\ active' = [active EXCEPT ![t] = Head(queue[t])]
    /\ queue' = [queue EXCEPT ![t] = Tail(@)]
    /\ EnterRun(w, Head(queue[t]))
    /\ UNCHANGED <<takeover, takeoverMode, worker, kill, awaited>>

NothingToPick(w, t) ==
    /\ ~Busy(t)
    /\ worker' = [worker EXCEPT ![t] = NoTask]
    /\ TaskGone(w)
    /\ UNCHANGED <<status, active, queue, takeover, takeoverMode>>

Pick(w) ==
    LET t == wthread[w] IN
    /\ pc[w] = "next" \/ (pc[w] = "new" /\ w \notin kill)
    /\ t # NoThread
    /\ \/ PickActive(w, t)
       \/ LeaveToOther(w, t)
       \/ PickTakeover(w, t)
       \/ PickQueued(w, t)
       \/ NothingToPick(w, t)
    /\ UNCHANGED done

\* Variant: the worker leaves without a look at the takeover.
SettleQueueOnly(w) ==
    LET t == wthread[w]
    IN  /\ pc[w] = "finished"
        /\ active' = [active EXCEPT ![t] = NoRequest]
        /\ IF queue[t] # <<>>
           THEN /\ pc' = [pc EXCEPT ![w] = "next"]
                /\ UNCHANGED <<worker, wthread, wreq, kill, awaited>>
           ELSE /\ worker' = [worker EXCEPT ![t] = NoTask]
                /\ TaskGone(w)
                /\ UNCHANGED wthread
        /\ UNCHANGED <<status, done, queue, takeover, takeoverMode>>

\* The worker's finally block.  CancelledError, if that is how the run ended,
\* goes on out of the loop, except that the return swallows it.
Settle(w) ==
    LET t == wthread[w]
        h == wreq[w]
        raising == status[h] = "cancelled"
    IN  /\ pc[w] = "finished"
        /\ active' = [active EXCEPT ![t] = IF @ = h THEN NoRequest ELSE @]
        /\ IF queue[t] # <<>> \/ takeover[t] # NoRequest
           THEN /\ EnsureWorker(t, [pc EXCEPT ![w] = IF raising THEN "over" ELSE "next"])
                /\ IF raising THEN TaskDone(w) ELSE UNCHANGED <<kill, awaited>>
           ELSE /\ worker' = [worker EXCEPT ![t] = NoTask]
                /\ TaskGone(w)
                /\ UNCHANGED wthread
        /\ UNCHANGED <<status, done, queue, takeover, takeoverMode>>

-----------------------------------------------------------------------------
(* _run_handle inside the semaphore: AgentEngine.run_turn *)

\* Variant: a cancelled run keeps its permit.
EndRunKeepsPermit(w, outcome) ==
    /\ status' = [status EXCEPT ![wreq[w]] = outcome]
    /\ done' = done \cup {wreq[w]}
    /\ semaphore' = IF pc[w] \in Engine /\ w \notin kill THEN semaphore + 1 ELSE semaphore
    /\ \/ wthread[w] = NoThread /\ TaskGone(w)
       \/ /\ wthread[w] # NoThread
          /\ pc' = [pc EXCEPT ![w] = "finished"]
          /\ kill' = kill \ {w}
          /\ UNCHANGED <<wreq, awaited>>

\* _run_handle ends: the status, _finish, and the permit if it was held.
EndRun(w, outcome) ==
    /\ status' = [status EXCEPT ![wreq[w]] = outcome]
    /\ done' = done \cup {wreq[w]}
    /\ semaphore' = IF pc[w] \in Engine THEN semaphore + 1 ELSE semaphore
    /\ \/ wthread[w] = NoThread /\ TaskGone(w)
       \/ /\ wthread[w] # NoThread
          /\ pc' = [pc EXCEPT ![w] = "finished"]
          /\ kill' = kill \ {w}
          /\ UNCHANGED <<wreq, awaited>>

\* The run goes on to another point of the turn.
Advance(w, where) ==
    /\ pc' = [pc EXCEPT ![w] = where]
    /\ UNCHANGED <<status, done, wreq, kill, awaited>>

SetRecord(w, rec) == record' = [record EXCEPT ![wreq[w]] = rec]

Acquire(w) ==
    /\ pc[w] = "waiting" /\ w \notin kill
    /\ semaphore > 0
    /\ semaphore' = semaphore - 1
    /\ Advance(w, "opening")
    /\ UNCHANGED storeVars

\* _prepare_run_turn_prelude: turn.started is stored, if the turn was not
\* cancelled yet and nothing raises.
Prepare(w) ==
    /\ pc[w] = "opening" /\ w \notin kill
    /\ wreq[w] \notin cancelEvent
    /\ SetRecord(w, "started")
    /\ Advance(w, "prepared")
    /\ UNCHANGED <<semaphore, history>>

PrepareInterrupted(w) ==
    /\ pc[w] = "opening" /\ w \notin kill
    /\ wreq[w] \in cancelEvent
    /\ EndRun(w, "interrupted")
    /\ UNCHANGED storeVars

\* The thread is locked by somebody this supervisor does not know of (another
\* process, a direct call of run_turn, the detached turn that created it), an
\* attachment is bad, the disk is full...
PrepareFails(w) ==
    /\ pc[w] = "opening" /\ w \notin kill
    /\ wreq[w] \notin cancelEvent
    /\ \E rec \in {"none", "started"} : SetRecord(w, rec)
    /\ EndRun(w, "failed")
    /\ UNCHANGED history

\* The compaction judge runs before the user's messages are stored, and
\* outside the handlers that would record its interruption or failure.
JudgeInterrupted(w) ==
    /\ pc[w] = "prepared" /\ w \notin kill
    /\ wreq[w] \in cancelEvent
    /\ EndRun(w, "interrupted")
    /\ UNCHANGED storeVars

JudgeFails(w) ==
    /\ pc[w] = "prepared" /\ w \notin kill
    /\ EndRun(w, "failed")
    /\ UNCHANGED storeVars

\* Variant: of merged messages, only the last is stored.
BeginRoundsLastOnly(w) ==
    /\ pc[w] = "prepared" /\ w \notin kill
    /\ SetRecord(w, "open")
    /\ history' = IF wthread[w] = NoThread THEN history
                  ELSE [history EXCEPT ![wthread[w]] =
                            Append(@, inputs[wreq[w]][Len(inputs[wreq[w]])])]
    /\ Advance(w, "rounds")
    /\ UNCHANGED semaphore

\* _append_current_user_items.
BeginRounds(w) ==
    /\ pc[w] = "prepared" /\ w \notin kill
    /\ SetRecord(w, "open")
    /\ history' = IF wthread[w] = NoThread THEN history
                  ELSE [history EXCEPT ![wthread[w]] = @ \o inputs[wreq[w]]]
    /\ Advance(w, "rounds")
    /\ UNCHANGED semaphore

\* The last round has no tool call: turn.completed is stored.
Answer(w) ==
    /\ pc[w] = "rounds" /\ w \notin kill
    /\ wreq[w] \notin cancelEvent
    /\ SetRecord(w, "completed")
    /\ Advance(w, "wrapup")
    /\ UNCHANGED <<semaphore, history>>

\* TurnInterrupted, or guide_event seen after a round of tool calls, or the
\* CancelledError of a cancelled task, which run_turn does not pass on.
RoundsInterrupted(w) ==
    /\ pc[w] = "rounds"
    /\ w \in kill \/ wreq[w] \in cancelEvent \/ wreq[w] \in guideEvent
    /\ SetRecord(w, "interrupted")
    /\ EndRun(w, "interrupted")
    /\ UNCHANGED history

RoundsFail(w) ==
    /\ pc[w] = "rounds" /\ w \notin kill
    /\ SetRecord(w, "error")
    /\ EndRun(w, "failed")
    /\ UNCHANGED history

\* Compaction and the title, after turn.completed is stored.  A cancellation
\* that arrives while the title is awaited is swallowed with it.
Complete(w) ==
    /\ pc[w] = "wrapup"
    /\ EndRun(w, "completed")
    /\ UNCHANGED storeVars

WrapupFails(w) ==
    /\ pc[w] = "wrapup" /\ w \notin kill
    /\ EndRun(w, "failed")
    /\ UNCHANGED storeVars

\* CancelledError at a point where nobody handles it.  The prelude's thread
\* is not stopped by it and may still store turn.started.
Cancelled(w) ==
    /\ w \in kill
    /\ pc[w] \in {"waiting", "opening", "prepared", "wrapup"}
    /\ \/ UNCHANGED record
       \/ pc[w] = "opening" /\ SetRecord(w, "started")
    /\ EndRun(w, "cancelled")
    /\ UNCHANGED history

\* A step of the worker itself, and a step of the turn it drives.
WorkerStep(w) ==
    /\ \/ /\ CancelNew(w) \/ RunDetached(w) \/ Pick(w)
          /\ UNCHANGED wthread
       \/ Settle(w)
    /\ UNCHANGED <<inputs, thread, mergedInto, cancelEvent, guideEvent, semaphore,
                   storeVars, closing, known, ghostVars>>

TurnStep(w) ==
    /\ \/ Acquire(w) \/ Prepare(w) \/ PrepareInterrupted(w) \/ PrepareFails(w)
       \/ JudgeInterrupted(w) \/ JudgeFails(w) \/ BeginRounds(w)
       \/ Answer(w) \/ RoundsInterrupted(w) \/ RoundsFail(w)
       \/ Complete(w) \/ WrapupFails(w) \/ Cancelled(w)
    /\ UNCHANGED <<inputs, thread, mergedInto, cancelEvent, guideEvent, threadVars,
                   wthread, closing, known, ghostVars>>

-----------------------------------------------------------------------------
(* aclose *)

Alive(w) == pc[w] \notin {"idle", "over"}

\* Variant: aclose forgets the threads at once.
AcloseForgetsThreads ==
    LET tasks == {w \in Task : Alive(w)}
    IN  /\ closing = "open"
        /\ closing' = "closing"
        /\ cancelEvent' = cancelEvent \cup ({active[t] : t \in Thread} \ {NoRequest})
        /\ kill' = kill \cup tasks
        /\ awaited' = tasks
        /\ known' = {r \in Request : status[r] # "new"}
        /\ active' = [t \in Thread |-> NoRequest]
        /\ worker' = [t \in Thread |-> NoTask]
        /\ UNCHANGED <<status, inputs, thread, mergedInto, done, guideEvent, queue,
                       takeover, takeoverMode, semaphore, pc, wthread, wreq, storeVars,
                       ghostVars>>

\* Variant: detached tasks are not gathered.
AcloseThreadsOnly ==
    LET tasks == {w \in Task : Alive(w) /\ wthread[w] # NoThread}
    IN  /\ closing = "open"
        /\ closing' = "closing"
        /\ cancelEvent' = cancelEvent \cup ({active[t] : t \in Thread} \ {NoRequest})
        /\ kill' = kill \cup tasks
        /\ awaited' = tasks
        /\ known' = {r \in Request : status[r] # "new"}
        /\ UNCHANGED <<status, inputs, thread, mergedInto, done, guideEvent,
                       threadVars, semaphore, pc, wthread, wreq, storeVars, ghostVars>>

\* One lock section, and then the loop that cancels, without an await between.
Aclose ==
    LET tasks == {w \in Task : /\ Alive(w)
                               /\ \/ wthread[w] = NoThread
                                  \/ w = worker[wthread[w]]}
    IN  /\ closing = "open"
        /\ closing' = "closing"
        /\ cancelEvent' = cancelEvent \cup ({active[t] : t \in Thread} \ {NoRequest})
        /\ kill' = kill \cup tasks
        /\ awaited' = tasks
        /\ known' = {r \in Request : status[r] # "new"}
        /\ UNCHANGED <<status, inputs, thread, mergedInto, done, guideEvent,
                       threadVars, semaphore, pc, wthread, wreq, storeVars, ghostVars>>

\* gather returns.
AcloseReturns ==
    /\ closing = "closing"
    /\ awaited = {}
    /\ closing' = "closed"
    /\ UNCHANGED <<handleVars, threadVars, semaphore, taskVars, storeVars, awaited,
                   known, ghostVars>>

Next ==
    \/ \E r \in Request, t \in Thread, c \in Conflict : SubmitTurn(r, t, c)
    \/ \E r \in Request : SubmitDetached(r)
    \/ \E w \in Task : WorkerStep(w) \/ TurnStep(w)
    \/ Aclose
    \/ AcloseReturns

Spec == Init /\ [][Next]_vars

\* Every coroutine that can run is resumed, a turn comes to an end (rounds are
\* bounded, model calls and scripts have timeouts), and asyncio.Semaphore wakes
\* its waiters in order, so that none is passed over for ever.
Fairness ==
    /\ \A w \in Task : WF_vars(WorkerStep(w)) /\ WF_vars(TurnStep(w))
    /\ \A w \in Task : SF_vars(TurnStep(w) /\ pc[w] = "waiting")
    /\ WF_vars(AcloseReturns)

FairSpec == Spec /\ Fairness

-----------------------------------------------------------------------------
(* What it promises *)

\* The state of the supervisor as TurnService sees it.  A handle that is active
\* but not yet picked up by the worker is still waiting, before the others.
First(t) ==
    IF active[t] # NoRequest /\ status[active[t]] = "queued"
    THEN inputs[active[t]] ELSE <<>>

Rest(t) == IF takeover[t] # NoRequest THEN inputs[takeover[t]] ELSE queue[t]

Inbox(t) == First(t) \o Rest(t)

Unwritten(t) ==
    IF /\ active[t] # NoRequest
       /\ status[active[t]] = "running"
       /\ record[active[t]] \in {"none", "started"}
    THEN inputs[active[t]] ELSE <<>>

InUse(t) == active[t] # NoRequest /\ status[active[t]] # "queued"

ServiceInbox == [t \in Thread |-> Inbox(t)]
ServiceBatch == [t \in Thread |-> Unwritten(t)]
ServiceBusy  == [t \in Thread |-> InUse(t)]

Service == INSTANCE TurnService WITH
    inbox <- ServiceInbox,
    batch <- ServiceBatch,
    busy  <- ServiceBusy,
    log   <- history

\* The supervisor implements TurnService: messages reach the history of their
\* thread in the order of the calls, whole batches at a time, whatever mix of
\* queue, guide and interrupt calls, failures and cancellations there was.
ImplementsService == Service!Spec

\* Counting what is written, being taken and waiting, the messages of a thread
\* are in the order of the calls and none is there twice.
MessagesInOrder == Service!InOrder

\* Two turns never use the same thread at once: there is one live worker per
\* thread although workers are started from three places and replaced when one
\* was cancelled (the class comment: "serializes turns per thread").
OneTurnPerThread ==
    \A v, w \in Task :
        (pc[v] \in Engine /\ pc[w] \in Engine /\ wthread[v] = wthread[w]
            /\ wthread[v] # NoThread) => v = w

\* Until aclose, work is never left without a worker that will come for it.
WorkHasWorker ==
    closing = "open" =>
        \A t \in Thread : Busy(t) =>
            /\ worker[t] # NoTask
            /\ Alive(worker[t])
            /\ wthread[worker[t]] = t

\* Until aclose, every handle that was given out and is not finished can be
\* found by somebody who will finish it.
NoHandleForgotten ==
    closing = "open" =>
        \A r \in Request : status[r] \notin {"new", "rejected"} /\ r \notin done =>
            \/ /\ thread[r] # NoThread
               /\ LET t == thread[r]
                  IN  \/ r = active[t] \/ r = takeover[t]
                      \/ \E i \in 1 .. Len(queue[t]) : queue[t][i] = r
            \/ \E w \in Task : Alive(w) /\ wthread[w] = NoThread /\ wreq[w] = r

\* Both: until aclose nothing is stranded, neither work nor a caller.
NothingStranded == WorkHasWorker /\ NoHandleForgotten

\* A waiting takeover has the queue to itself, and the turn that is running has
\* been told of it, with the strongest of the modes it was asked for.
TakeoverAnnounced ==
    \A t \in Thread : takeover[t] # NoRequest =>
        /\ queue[t] = <<>>
        /\ takeoverMode[t] # "none"
        /\ active[t] # NoRequest =>
              active[t] \in (IF takeoverMode[t] = "interrupt" THEN cancelEvent
                             ELSE guideEvent)

\* A handle finished as merged names the handle that carries its message, and
\* that one was not merged away itself.
MergedIsCarried ==
    \A r \in Request : status[r] = "merged" =>
        LET carrier == mergedInto[r]
        IN  /\ carrier # NoRequest
            /\ status[carrier] \notin {"new", "rejected", "merged"}
            /\ \E i \in 1 .. Len(inputs[carrier]) : inputs[carrier][i] = r

\* A completed turn on a thread left every message it carried in the history.
CompletedIsWritten ==
    \A r \in Request : status[r] = "completed" /\ thread[r] # NoThread =>
        \A i \in 1 .. Len(inputs[r]) : \E j \in 1 .. Len(history[thread[r]]) :
            history[thread[r]][j] = inputs[r][i]

\* Both: no message is lost, neither by a merge nor by the end of its turn.
NothingLost == MergedIsCarried /\ CompletedIsWritten

\* No way out of a turn keeps a permit, or gives back one too many.
PermitsBalance ==
    semaphore + Cardinality({w \in Task : pc[w] \in Engine}) = MaxTurns

\* When aclose returns, and nobody called submit_turn after it began, nothing
\* runs any more and every handle is finished except those no worker ever
\* took up.
CloseSettles ==
    (closing = "closed" /\ known = {r \in Request : status[r] # "new"}) =>
        /\ \A w \in Task : ~Alive(w)
        /\ \A r \in known : r \in done \/ status[r] \in {"queued", "rejected"}

\* Unless the supervisor is closed, whoever waits for a handle is woken.
HandlesFinish ==
    \A r \in Request :
        (status[r] = "queued") ~> (r \in done \/ closing # "open")

\* aclose returns, however much work is queued.
CloseReturns == (closing = "closing") ~> (closing = "closed")

-----------------------------------------------------------------------------
(* The inductive invariant *)

\* Inside _run_handle.
Running(w) == pc[w] \in {"waiting", "finished"} \cup Engine

Terminal == {"completed", "failed", "interrupted", "cancelled"}

\* How far the stored turn is, by the place of the task in it.
RecordAt ==
    [waiting |-> "none", opening |-> "none", prepared |-> "started",
     rounds |-> "open", wrapup |-> "completed"]

\* What is known of a handle from its status alone.
HandleInv(r) ==
    /\ status[r] \in {"new", "rejected"} => thread[r] = NoThread
    /\ status[r] = "new" => ticket[r] = 0
    /\ status[r] \in {"new", "rejected", "queued", "merged"} => record[r] = "none"

\* A handle has one place on its thread, and what that place says of it.
ActiveInv(t) ==
    active[t] # NoRequest =>
        /\ thread[active[t]] = t
        /\ status[active[t]] # "merged"
        /\ inputs[active[t]] # <<>>
        /\ status[active[t]] = "queued" => inputs[active[t]] = <<active[t]>>

TakeoverInv(t) ==
    takeover[t] # NoRequest =>
        /\ thread[takeover[t]] = t
        /\ status[takeover[t]] = "queued"
        /\ inputs[takeover[t]] # <<>>
        /\ takeover[t] # active[t]
        /\ queue[t] = <<>>

QueueInv(t) ==
    \A i \in 1 .. Len(queue[t]) :
        /\ thread[queue[t][i]] = t
        /\ status[queue[t][i]] = "queued"
        /\ inputs[queue[t][i]] = <<queue[t][i]>>
        /\ queue[t][i] # active[t]
        /\ \A j \in 1 .. Len(queue[t]) : queue[t][i] = queue[t][j] => i = j

\* worker refers to a task of the thread, and every task of a thread that is
\* not gone is the one worker refers to.
WorkerInv ==
    /\ \A t \in Thread : worker[t] # NoTask =>
          pc[worker[t]] # "idle" /\ wthread[worker[t]] = t
    /\ \A w \in Task : pc[w] # "idle" /\ wthread[w] # NoThread =>
          worker[wthread[w]] = w

\* The handle a task runs.
TaskInv(w) ==
    /\ Running(w) =>
          /\ wreq[w] \in Request
          /\ thread[wreq[w]] = wthread[w]
          /\ wthread[w] # NoThread => active[wthread[w]] = wreq[w]
    /\ pc[w] \in {"waiting"} \cup Engine =>
          status[wreq[w]] = "running" /\ record[wreq[w]] = RecordAt[pc[w]]
    /\ pc[w] = "finished" => status[wreq[w]] \in Terminal
    /\ pc[w] \in {"next", "finished", "over"} => wthread[w] # NoThread
    /\ pc[w] = "new" /\ wthread[w] = NoThread =>
          /\ wreq[w] \in Request
          /\ thread[wreq[w]] = NoThread
          /\ status[wreq[w]] = "queued"

\* Two detached tasks never run the same handle.
DetachedInv ==
    \A v, w \in Task :
        (pc[v] # "idle" /\ pc[w] # "idle" /\ wthread[v] = NoThread
            /\ wthread[w] = NoThread /\ wreq[v] = wreq[w]) => v = w

\* Why there is one turn per thread and no handle in two places.
Ownership ==
    /\ \A r \in Request : HandleInv(r)
    /\ \A t \in Thread : ActiveInv(t) /\ TakeoverInv(t) /\ QueueInv(t)
    /\ WorkerInv
    /\ \A w \in Task : TaskInv(w)
    /\ DetachedInv

=============================================================================
