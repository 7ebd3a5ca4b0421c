------------------------------- MODULE Subagent -------------------------------
(***************************************************************************)
(* rt.subagent.run: a script posts a call, a thread of the RPC server      *)
(* serves it by a coroutine of the engine's loop, which makes a thread,    *)
(* submits a turn and waits for it, while the client of the script has a   *)
(* timeout of its own and posts again.  A schedule submits its prompt by   *)
(* the same way without a client.  Of the turn supervisor (TurnManager)    *)
(* this keeps the order of a thread, the permits and a takeover that       *)
(* absorbs what waits; of the thread's lock (ThreadLock), that a second    *)
(* turn fails.                                                             *)
(***************************************************************************)
EXTENDS Naturals, Sequences, FiniteSets, FiniteSetsExt

CONSTANTS
    Calls,      \* runs of a prompt, by a script or by a schedule, numbered as they are made
    Permits,    \* turns the supervisor runs at once
    MaxTries,   \* times the client posts a request
    MaxPosts,   \* bound: requests posted or scheduled in all
    New         \* no thread is named

VARIABLES
    threads,    \* the rows: [kind, parent], by number; 1 is the user's
    turns,      \* handles in the order of submission: [thread, call, status, submitted]
    calls,      \* call -> what its caller knows
    requests    \* what the host serves: [call, try, pc, thread, turn]

savars == <<threads, turns, calls, requests>>

Nobody == 0
Unasked == [pc |-> "new", try |-> 0, by |-> Nobody, named |-> New, told |-> Nobody]

(* The user's turn has a permit if it was submitted, by a plugin or a      *)
(* schedule; the terminal's has none.                                      *)
Init ==
    /\ threads = <<[kind |-> "thread", parent |-> Nobody]>>
    /\ \E submitted \in BOOLEAN :
          turns = <<[thread |-> 1, call |-> Nobody, status |-> "running", submitted |-> submitted]>>
    /\ calls = [c \in Calls |-> Unasked]
    /\ requests = {}

Ended == {"completed", "failed", "merged"}
Running == {i \in DOMAIN turns : turns[i].status = "running"}
WaitsFor(c) == calls[c].pc = "posted"

Request(c, try) == [call |-> c, try |-> try, pc |-> "sent", thread |-> Nobody, turn |-> Nobody]
Posts == MapThenSumSet(LAMBDA c : Max({calls[c].try, IF calls[c].pc = "new" THEN 0 ELSE 1}), Calls)
Goes(q, r) == requests' = (requests \ {q}) \cup {r}

-----------------------------------------------------------------------------
(* The caller. *)

Asked(c, by, try) ==
    /\ calls[c].pc = "new" /\ Posts < MaxPosts
    /\ c > 1 => calls[c - 1].pc # "new"
    /\ \E n \in DOMAIN threads \cup {New} :
          calls' = [calls EXCEPT ![c] =
                       [pc |-> "posted", try |-> try, by |-> by, named |-> n, told |-> Nobody]]

\* call_host, by a script of a turn.
Call(c) ==
    /\ \E i \in Running : Asked(c, i, 1)
    /\ requests' = requests \cup {Request(c, 1)}
    /\ UNCHANGED <<threads, turns>>

\* _scheduled_prompt, by the scheduler: no client, and the schedule's thread
\* is one like the user's.
ScheduledPrompt(c) ==
    /\ Asked(c, Nobody, 0)
    /\ requests' = requests \cup {Request(c, 0)}
    /\ UNCHANGED <<threads, turns>>

\* _post_jsonrpc: no answer within DEFAULT_TIMEOUT_S; the request that was
\* posted is served on.
ClientTimeout(c) ==
    /\ WaitsFor(c) /\ calls[c].by # Nobody
    /\ calls[c].try < MaxTries => Posts < MaxPosts
    /\ IF calls[c].try < MaxTries
       THEN /\ calls' = [calls EXCEPT ![c].try = @ + 1]
            /\ requests' = requests \cup {Request(c, calls[c].try + 1)}
       ELSE calls' = [calls EXCEPT ![c].pc = "gone"] /\ UNCHANGED requests
    /\ UNCHANGED <<threads, turns>>

\* The script ends, by its own timeout or with its turn; one that was told of the
\* timeout may end too.
ScriptDies(c) ==
    /\ WaitsFor(c) /\ calls[c].by # Nobody
    /\ calls' = [calls EXCEPT ![c].pc = "gone"]
    /\ UNCHANGED <<threads, turns, requests>>

-----------------------------------------------------------------------------
(* The request. *)

\* The answer reaches the client that waits for it, or nobody.
Answer(q, pc, turn) ==
    /\ requests' = requests \ {q}
    /\ calls' = IF WaitsFor(q.call) /\ calls[q.call].try = q.try
                THEN [calls EXCEPT ![q.call].pc = pc, ![q.call].told = turn]
                ELSE calls
    /\ UNCHANGED <<threads, turns>>

CallerThread(c) == IF calls[c].by = Nobody THEN Nobody ELSE turns[calls[c].by].thread

\* _raise_if_nested_subagent
Nested(c) ==
    /\ CallerThread(c) # Nobody
    /\ threads[CallerThread(c)].kind # "thread"

\* The session of a script that ended is closed, or run refuses.
Refuse(q) ==
    /\ q.pc = "sent"
    /\ Nested(q.call) \/ calls[q.call].pc = "gone"
    /\ Answer(q, "refused", Nobody)

\* run and _run_subagent up to the submission: the thread that is named, or a
\* new one.
Prepare(q) ==
    LET c == q.call IN
    /\ q.pc = "sent" /\ ~Nested(c)
    /\ IF calls[c].named # New
       THEN Goes(q, [q EXCEPT !.pc = "ready", !.thread = calls[c].named]) /\ UNCHANGED threads
       ELSE /\ threads' = Append(threads, [kind |-> IF calls[c].by = Nobody THEN "thread" ELSE "subagent",
                                           parent |-> CallerThread(c)])
            /\ Goes(q, [q EXCEPT !.pc = "ready", !.thread = Len(threads')])
    /\ UNCHANGED <<turns, calls>>

\* TurnManager.submit_turn with conflict "queue".
Submit(q) ==
    /\ q.pc = "ready"
    /\ turns' = Append(turns, [thread |-> q.thread, call |-> q.call, status |-> "queued", submitted |-> TRUE])
    /\ Goes(q, [q EXCEPT !.pc = "submitted", !.turn = Len(turns')])
    /\ UNCHANGED <<threads, calls>>

\* _plugin_submit_turn waits until the turn starts or its handle ends; only
\* then does _wait_for_submitted begin to count timeout_s.
Started(q) == q.pc = "submitted" /\ turns[q.turn].status # "queued"

\* Variant: the wait is for the last turn of the thread.
WaitedOnThread(q) ==
    LET last == Max({i \in DOMAIN turns : turns[i].thread = q.thread}) IN
    /\ Started(q) /\ turns[last].status \in Ended
    /\ Answer(q, turns[last].status, last)

\* _wait_for_submitted; a call with a timeout_s may run out of it.
Waited(q) ==
    /\ Started(q) /\ turns[q.turn].status \in Ended
    /\ Answer(q, turns[q.turn].status, q.turn)
WaitExpires(q) ==
    /\ Started(q)
    /\ Answer(q, "timeout", q.turn)

-----------------------------------------------------------------------------
(* The turns. *)

SetStatus(i, s) == turns' = [turns EXCEPT ![i].status = s]

\* The worker of the thread takes the head of its queue and gets a permit; a
\* turn nobody submitted holds the lock of the thread, and this one fails.
StartTurn(i) ==
    /\ turns[i].status = "queued"
    /\ \A j \in DOMAIN turns :
          (turns[j].thread = turns[i].thread /\ j # i /\ turns[j].submitted) =>
              turns[j].status \in Ended \/ (j > i /\ turns[j].status = "queued")
    /\ Cardinality({j \in Running : turns[j].submitted}) < Permits
    /\ SetStatus(i, IF \E j \in Running : turns[j].thread = turns[i].thread THEN "failed" ELSE "running")
    /\ UNCHANGED <<threads, calls, requests>>

\* A turn does not end before its scripts have; "failed" stands for
\* interrupted and cancelled too.  Nobody here is told how the user's turn ends.
EndTurn(i) ==
    /\ i \in Running
    /\ \A c \in Calls : calls[c].by = i => ~WaitsFor(c)
    /\ \/ SetStatus(i, "completed")
       \/ turns[i].call # Nobody /\ SetStatus(i, "failed")
    /\ UNCHANGED <<threads, calls, requests>>

\* A takeover absorbs what waits behind the active turn of the thread.
Absorb(i) ==
    /\ turns[i].status = "queued"
    /\ \E j \in 1..(i - 1) : /\ turns[j].thread = turns[i].thread /\ turns[j].submitted
                             /\ turns[j].status \notin Ended
    /\ SetStatus(i, "merged")
    /\ UNCHANGED <<threads, calls, requests>>

Next ==
    \/ \E c \in Calls : Call(c) \/ ScheduledPrompt(c) \/ ClientTimeout(c) \/ ScriptDies(c)
    \/ \E q \in requests : Refuse(q) \/ Prepare(q) \/ Submit(q) \/ Waited(q) \/ WaitExpires(q)
    \/ \E i \in DOMAIN turns : StartTurn(i) \/ EndTurn(i) \/ Absorb(i)

Spec == Init /\ [][Next]_savars

-----------------------------------------------------------------------------
(* What holds of every state. *)

Served(c) == {i \in DOMAIN turns : turns[i].call = c}
Ready == {q \in requests : q.pc = "ready"}
Open(c) == {q \in requests : q.call = c /\ q.pc \in {"sent", "ready"}}

Row == [kind : {"thread", "subagent"}, parent : Nat]
Statuses == {"queued", "running"} \cup Ended
Handle == [thread : Nat, call : Calls \cup {Nobody}, status : Statuses, submitted : BOOLEAN]
TypeOK ==
    /\ threads \in Seq(Row) /\ turns \in Seq(Handle)
    /\ calls = [c \in Calls |-> calls[c]]
    /\ \A c \in Calls :
          /\ calls[c] = [pc |-> calls[c].pc, try |-> calls[c].try, by |-> calls[c].by,
                         named |-> calls[c].named, told |-> calls[c].told]
          /\ calls[c].try \in Nat
          /\ calls[c].by = Nobody \/ calls[c].by \in DOMAIN turns
          /\ calls[c].named = New \/ calls[c].named \in DOMAIN threads
    /\ IsFiniteSet(requests)
    /\ \A q \in requests :
          /\ q = [call |-> q.call, try |-> q.try, pc |-> q.pc, thread |-> q.thread, turn |-> q.turn]
          /\ q.call \in Calls

\* A thread that is made for a subagent belongs to one that is not.
ThreadsNestOnce ==
    \A t \in DOMAIN threads : threads[t].kind = "subagent" =>
        threads[t].parent \in DOMAIN threads /\ threads[threads[t].parent].kind = "thread"

\* A turn, and a request on its way to one, is of a prompt that was allowed.
TurnsAreAsked ==
    /\ \A i \in DOMAIN turns :
          /\ turns[i].thread \in DOMAIN threads
          /\ turns[i].call # Nobody => calls[turns[i].call].pc # "new" /\ ~Nested(turns[i].call)
    /\ \A q \in requests :
          /\ calls[q.call].pc # "new"
          /\ q.pc # "sent" => q.thread \in DOMAIN threads /\ ~Nested(q.call)
          /\ q.pc = "submitted" => q.turn \in DOMAIN turns /\ turns[q.turn].call = q.call

\* What is told is the end of the turn that was waited for.
ToldIsSo ==
    \A c \in Calls :
        /\ calls[c].pc = "new" => calls[c] = Unasked
        /\ calls[c].told # Nobody =>
              /\ calls[c].told \in DOMAIN turns /\ turns[calls[c].told].call = c
              /\ calls[c].pc \in Ended \cup {"timeout"}
              /\ calls[c].pc # "timeout" => turns[calls[c].told].status = calls[c].pc

\* No two turns on a prompt without a named thread share one, whenever they are submitted.
ThreadsApart ==
    \A c \in Calls : calls[c].named = New =>
        /\ \A i, j \in Served(c) : i # j => turns[i].thread # turns[j].thread
        /\ \A q \in Ready : q.call = c => \A i \in Served(c) : turns[i].thread # q.thread
        /\ \A q, r \in Ready : q.call = c /\ r.call = c /\ q # r => q.thread # r.thread

\* Every turn on a prompt, and every request that has none yet, was posted.
EachWasPosted ==
    \A c \in Calls :
        Cardinality(Served(c)) + Cardinality(Open(c)) <= IF calls[c].by = Nobody THEN 1 ELSE calls[c].try

Inv == TypeOK /\ ThreadsNestOnce /\ TurnsAreAsked /\ ToldIsSo /\ ThreadsApart /\ EachWasPosted

-----------------------------------------------------------------------------
(* Properties *)

\* What a caller is told of is the end of a turn on its own prompt, on the
\* thread it named or on one made for it; a prompt is submitted once for each
\* time it was posted, hence once unless the client ran out of patience; and a
\* subagent has no subagents, whatever the thread it was put on.
SubagentAnswersItsCaller ==
    /\ \A c \in Calls : calls[c].told # Nobody =>
          LET t == turns[calls[c].told] IN
          /\ t.call = c
          /\ calls[c].pc # "timeout" => t.status = calls[c].pc
          /\ calls[c].named = New => \A i \in DOMAIN turns :
                (turns[i].thread = t.thread /\ i # calls[c].told) => turns[i].call # c
    /\ \A c \in Calls : Cardinality(Served(c)) <= IF calls[c].by = Nobody THEN 1 ELSE calls[c].try
    /\ \A t \in DOMAIN threads : threads[t].kind = "subagent" => threads[threads[t].parent].kind = "thread"
    /\ \A c \in Calls : Nested(c) => Served(c) = {}

=============================================================================
