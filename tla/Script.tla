-------------------------------- MODULE Script --------------------------------
(***************************************************************************)
(* One managed Python run (runner/runner.py), the RPC session its script   *)
(* talks to (runner/rpc), and the client in the script's process           *)
(* (uv_agent_runtime/transport.py).  The run is a coroutine of the host;   *)
(* each request is served by a thread of its own; the script is another    *)
(* process, which may time out on a request that is still being served,    *)
(* send it again, die, or leave behind a process that holds its pipes.     *)
(***************************************************************************)
EXTENDS Naturals, Sequences, SequencesExt

CONSTANTS
    Message,    \* the UI messages the script emits, in order: a sequence
    MaxTries    \* times the client posts a request

VARIABLES
    run,        \* how far stream_run is
    child,      \* the script's process: "none", "alive" or "dead"
    orphan,     \* a process it started still holds its stdout or stderr
    session,    \* "none", "open", "popped" (its token is gone) or "closed"
    said,       \* messages the script is done with
    call,       \* the attempt it waits for, 0 when it waits for none
    workers,    \* requests being served: [msg, try, pc]
    captured,   \* OutputCapture.structured_events
    record,     \* structured_events_json of the run's row
    shown       \* cells of UI messages in the terminal

vars == <<run, child, orphan, session, said, call, workers, captured, record, shown>>

NoRow == <<"no row">>
Unfinished == <<"unfinished">>

Init ==
    /\ run = "new" /\ child = "none" /\ orphan = FALSE
    /\ session = "none"
    /\ said = 0 /\ call = 0
    /\ workers = {}
    /\ captured = <<>>
    /\ record = NoRow
    /\ shown = <<>>

----------------------------------------------------------------------------
(* The script and its client. *)

Worker(n, try) == [msg |-> n, try |-> try, pc |-> "sent"]
Current == said + 1

\* rt.ui.message: emit_event posts a notification.
Emit ==
    /\ child = "alive" /\ call = 0 /\ said < Len(Message)
    /\ call' = 1
    /\ workers' = workers \cup {Worker(Current, 1)}
    /\ UNCHANGED <<run, child, orphan, session, said, captured, record, shown>>

\* An attempt that failed is made once more; a message that was not delivered
\* is dropped without a word to the script.
Again ==
    IF call < MaxTries
    THEN call' = call + 1 /\ workers' = workers \cup {Worker(Current, call + 1)} /\ UNCHANGED said
    ELSE call' = 0 /\ said' = Current /\ UNCHANGED workers

\* No answer within DEFAULT_TIMEOUT_S: the thread that serves it goes on.
CallTimeout ==
    /\ child = "alive" /\ call > 0
    /\ Again
    /\ UNCHANGED <<run, child, orphan, session, captured, record, shown>>

Waited(w) == child = "alive" /\ w.msg = Current /\ w.try = call

\* A notification is answered 204 whether it was stored or refused; a token
\* that is gone is answered 401.
Answered(w) ==
    /\ w \in workers /\ w.pc \in {"done", "unauthorized"}
    /\ IF Waited(w)
       THEN w.pc = "done" /\ call' = 0 /\ said' = Current
       ELSE UNCHANGED <<call, said>>
    /\ workers' = workers \ {w}
    /\ UNCHANGED <<run, child, orphan, session, captured, record, shown>>
Unauthorized(w) ==
    /\ w \in workers /\ w.pc = "unauthorized" /\ Waited(w)
    /\ IF call < MaxTries
       THEN /\ call' = call + 1 /\ UNCHANGED said
            /\ workers' = (workers \ {w}) \cup {Worker(Current, call + 1)}
       ELSE call' = 0 /\ said' = Current /\ workers' = workers \ {w}
    /\ UNCHANGED <<run, child, orphan, session, captured, record, shown>>

\* The script ends by itself.
ChildExits ==
    /\ child = "alive"
    /\ child' = "dead" /\ orphan' \in BOOLEAN
    /\ UNCHANGED <<run, session, said, call, workers, captured, record, shown>>
OrphanExits ==
    /\ orphan
    /\ orphan' = FALSE
    /\ UNCHANGED <<run, child, session, said, call, workers, captured, record, shown>>

----------------------------------------------------------------------------
(* The threads of the RPC server. *)

Step(w, pc) == (workers \ {w}) \cup {[w EXCEPT !.pc = pc]}

\* _do_POST: the session of the token, looked up under the server's lock.
Lookup(w) ==
    /\ w.pc = "sent"
    /\ workers' = Step(w, IF session = "open" THEN "held" ELSE "unauthorized")
    /\ UNCHANGED <<run, child, orphan, session, said, call, captured, record, shown>>

\* JsonRpcDispatcher._handle reads session.closed without its lock.
Dispatch(w) ==
    /\ w.pc = "held"
    /\ workers' = Step(w, IF session = "closed" THEN "done" ELSE "checked")
    /\ UNCHANGED <<run, child, orphan, session, said, call, captured, record, shown>>

\* Variant: what the dispatcher read decides.
EmitEventUnchecked(w) ==
    /\ w.pc = "checked"
    /\ captured' = Append(captured, Message[w.msg])
    /\ workers' = Step(w, "done")
    /\ UNCHANGED <<run, child, orphan, session, said, call, record, shown>>

\* RunSession.emit_event, under the session's lock.  The row of run_events
\* that is written next is a second copy: a write that fails leaves the event
\* captured.
EmitEvent(w) ==
    /\ w.pc = "checked"
    /\ captured' = IF session = "closed" THEN captured ELSE Append(captured, Message[w.msg])
    /\ workers' = Step(w, "done")
    /\ UNCHANGED <<run, child, orphan, session, said, call, record, shown>>

----------------------------------------------------------------------------
(* stream_run *)

CreateRunRecord ==
    /\ run = "new"
    /\ run' = "created" /\ record' = Unfinished
    /\ UNCHANGED <<child, orphan, session, said, call, workers, captured, shown>>

OpenSession ==
    /\ run = "created"
    /\ run' = "open" /\ session' = "open"
    /\ UNCHANGED <<child, orphan, said, call, workers, captured, record, shown>>

StartProcess ==
    /\ run = "open"
    /\ \/ run' = "running" /\ child' = "alive"
       \/ run' = "failed" /\ UNCHANGED child
    /\ UNCHANGED <<orphan, session, said, call, workers, captured, record, shown>>

\* _flush_runtime_ui_messages: of what a snapshot of the run carries the events
\* whose id was not seen before are shown, in order.
Fresh(messages) ==
    {i \in DOMAIN messages :
        messages[i] \notin ToSet(shown) /\ \A j \in DOMAIN messages : messages[j] = messages[i] => j >= i}
Show(messages) ==
    \E n \in 0..Len(messages) : \E at \in [1..n -> Fresh(messages)] :
        /\ Fresh(messages) = {at[k] : k \in 1..n}
        /\ \A j, k \in 1..n : j < k => at[j] < at[k]
        /\ shown' = shown \o [k \in 1..n |-> messages[at[k]]]

\* emit_partial(reason="interval")
Partial ==
    /\ run = "running" /\ child = "alive"
    /\ Show(captured)
    /\ shown' # shown
    /\ UNCHANGED <<run, child, orphan, session, said, call, workers, captured, record>>

Exited ==
    /\ run = "running" /\ child = "dead"
    /\ run' = "draining"
    /\ UNCHANGED <<child, orphan, session, said, call, workers, captured, record, shown>>

\* The cancel event or the deadline: a last snapshot before the kill.
Interrupted ==
    /\ run = "running"
    /\ run' = "killing"
    /\ Show(captured)
    /\ UNCHANGED <<child, orphan, session, said, call, workers, captured, record>>

\* kill_process_tree kills the group; a process in a session of its own
\* survives it, and so does everything when the script has already exited.
KillProcessTree ==
    /\ run = "killing"
    /\ run' = "draining"
    /\ child' = "dead"
    /\ IF child = "alive" THEN orphan' \in BOOLEAN ELSE UNCHANGED orphan
    /\ UNCHANGED <<session, said, call, workers, captured, record, shown>>

\* gather(stdout_task, stderr_task) waits for the end of both pipes, whatever
\* the deadline says.
Drained ==
    /\ run = "draining" /\ ~orphan
    /\ run' = "drained"
    /\ UNCHANGED <<child, orphan, session, said, call, workers, captured, record, shown>>

\* CancelledError: killed and not waited for.
Cancelled ==
    /\ run \in {"running", "killing", "draining"}
    /\ run' = "cancelled"
    /\ child' = "dead"
    /\ UNCHANGED <<orphan, session, said, call, workers, captured, record, shown>>

\* The finally block: the token goes first, then the session refuses events.
PopSession ==
    /\ run \in {"drained", "failed", "cancelled"} /\ session = "open"
    /\ session' = "popped"
    /\ UNCHANGED <<run, child, orphan, said, call, workers, captured, record, shown>>
CloseSession ==
    /\ session = "popped"
    /\ session' = "closed"
    /\ UNCHANGED <<run, child, orphan, said, call, workers, captured, record, shown>>

\* The result carries the list of the capture itself; the row is a copy.
CompleteRun ==
    /\ run = "drained" /\ session = "closed"
    /\ run' = "recorded"
    /\ record' = captured
    /\ UNCHANGED <<child, orphan, session, said, call, workers, captured, shown>>
Completed ==
    /\ run = "recorded"
    /\ run' = "completed"
    /\ Show(captured)
    /\ UNCHANGED <<child, orphan, session, said, call, workers, captured, record>>

Client == Emit \/ CallTimeout \/ ChildExits \/ OrphanExits
Server ==
    \E w \in workers :
        Lookup(w) \/ Dispatch(w) \/ EmitEvent(w) \/ Answered(w) \/ Unauthorized(w)
Runner ==
    \/ CreateRunRecord \/ OpenSession \/ StartProcess \/ Partial \/ Exited
    \/ Interrupted \/ KillProcessTree \/ Drained \/ Cancelled
    \/ PopSession \/ CloseSession \/ CompleteRun \/ Completed

Next == Client \/ Server \/ Runner

Spec == Init /\ [][Next]_vars

----------------------------------------------------------------------------
(* Properties *)

\* What the host accepted from a script is what the record of its run keeps:
\* no request that is still being served changes it afterwards, and the model,
\* the user and the row agree on it.
RecordIsWhole ==
    run \in {"recorded", "completed"} => record = captured

\* Every message the host accepted is shown once, in the order of arrival,
\* although the client may have sent it twice and every snapshot repeats it.
ShownOnce ==
    /\ \A i, j \in DOMAIN shown : i # j => shown[i] # shown[j]
    /\ run = "completed" => ToSet(shown) = ToSet(captured)

\* Both at once: host, user and log agree on what a script said.
MessagesAreKept == RecordIsWhole /\ ShownOnce

----------------------------------------------------------------------------
(* What every step keeps, which MessagesAreKept follows from *)

Requests == [msg : 1..Len(Message), try : Nat, pc : {"sent", "held", "checked", "done", "unauthorized"}]
TypeOK ==
    /\ said \in 0..Len(Message) /\ call \in Nat /\ (call > 0 => said < Len(Message))
    /\ workers \subseteq Requests
    /\ captured \in Seq(ToSet(Message)) /\ shown \in Seq(ToSet(Message))

\* Nothing is accepted once the session is closed, nor shown that was not accepted.
Inv ==
    /\ TypeOK
    /\ RecordIsWhole /\ (run \in {"recorded", "completed"} => session = "closed")
    /\ ShownOnce /\ ToSet(shown) \subseteq ToSet(captured)

=============================================================================
