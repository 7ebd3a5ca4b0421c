--------------------------------- MODULE Mcp ---------------------------------
(***************************************************************************)
(* The synchronous client that scripts use for an MCP server               *)
(* (builtin/mcp/runtime.py): the script's thread puts requests in a queue, *)
(* a worker thread, which has the connection, answers each into a queue of *)
(* its own.  Every wait of the script has a timeout, the worker has none;  *)
(* a closed client may be used again and starts another worker on the same *)
(* queues.  With it the host's probe of the declared servers (probe.py),   *)
(* whose findings the next publication tells the model.                    *)
(***************************************************************************)
EXTENDS Naturals, Sequences, FiniteSets

CONSTANTS
    MaxCalls,   \* bound: calls of the client in all
    MaxWorkers, \* bound: worker threads in all
    Servers,    \* servers declared for the project and the user
    None

VARIABLES
    client,    \* the script's thread: where it is, its worker, the number of its call
    workers,   \* the state of each worker thread
    handling,  \* the request each worker is at
    requests,  \* _requests: numbers of calls, 0 for close
    ready,     \* _ready, of size 1: "connected", "failed" or None
    answers,   \* the response queue of each call, of the latest close at 0
    probe,     \* servers the probe has been at, and those with instructions
    published, \* the servers whose instructions were published
    calls,
    disturbed  \* ghost: a start or a close was given up or outlasted, or ended with an exception

mvars == <<client, workers, handling, requests, ready, answers, probe, published, calls, disturbed>>

Workers == 1..MaxWorkers
Close == 0
Live(w) == workers[w] \notin {"none", "ended"}
UnusedWorker == CHOOSE w \in Workers : workers[w] = "none"

Init ==
    /\ client = [pc |-> "free", thread |-> None, call |-> None]
    /\ workers = [w \in Workers |-> "none"] /\ handling = [w \in Workers |-> None]
    /\ requests = <<>> /\ ready = None
    /\ answers = [c \in 0..MaxCalls |-> None]
    /\ probe = [done |-> {}, found |-> {}] /\ published = {}
    /\ calls = 0 /\ disturbed = FALSE

wholeProbe == <<probe, published>>

----------------------------------------------------------------------------
(* The script's thread. *)

Spawn(call) ==
    /\ \E w \in Workers : workers[w] = "none"
    /\ workers' = [workers EXCEPT ![UnusedWorker] = "connecting"]
    /\ client' = [pc |-> "starting", thread |-> UnusedWorker, call |-> call]

\* start, when the client is entered.
Start ==
    /\ client.pc = "free" /\ client.thread = None
    /\ Spawn(None)
    /\ UNCHANGED <<handling, requests, ready, answers, wholeProbe, calls, disturbed>>

\* Variant: a call always starts a worker.
CallStarts ==
    /\ client.pc = "free" /\ calls < MaxCalls
    /\ calls' = calls + 1
    /\ Spawn(calls') /\ UNCHANGED requests
    /\ UNCHANGED <<handling, ready, answers, wholeProbe, disturbed>>

\* _call
Call ==
    /\ client.pc = "free" /\ calls < MaxCalls
    /\ calls' = calls + 1
    /\ IF client.thread = None THEN Spawn(calls') /\ UNCHANGED requests
       ELSE /\ client' = [client EXCEPT !.pc = "waiting", !.call = calls']
            /\ requests' = Append(requests, calls')
            /\ UNCHANGED workers
    /\ UNCHANGED <<handling, ready, answers, wholeProbe, disturbed>>

\* start goes on: the worker reports, or _ready.get runs out.
Started ==
    /\ client.pc = "starting" /\ ready # None
    /\ ready' = None
    /\ IF ready = "failed"
       THEN client' = [pc |-> "free", thread |-> None, call |-> None] /\ UNCHANGED requests
       ELSE IF client.call = None
            THEN client' = [client EXCEPT !.pc = "free"] /\ UNCHANGED requests
            ELSE client' = [client EXCEPT !.pc = "waiting"] /\ requests' = Append(requests, client.call)
    /\ UNCHANGED <<workers, handling, answers, wholeProbe, calls, disturbed>>

Answered ==
    /\ client.pc \in {"waiting", "closing"} /\ answers[client.call] # None
    /\ client' = [client EXCEPT !.pc = IF @ = "closing" THEN "joining" ELSE "free", !.call = None]
    /\ UNCHANGED <<workers, handling, requests, ready, answers, wholeProbe, calls, disturbed>>

\* thread.join(timeout=2)
Joined ==
    /\ client.pc = "joining"
    /\ client' = [client EXCEPT !.pc = "free"]
    /\ disturbed' = (disturbed \/ \E w \in Workers : Live(w))
    /\ UNCHANGED <<workers, handling, requests, ready, answers, wholeProbe, calls>>

\* queue.Empty: the wait for the worker, an answer or the close is given up.
\* What was put in the queue stays there.
GivesUp ==
    /\ \/ client.pc = "starting" /\ ready = None
       \/ client.pc \in {"waiting", "closing"} /\ answers[client.call] = None
    /\ client' = [client EXCEPT !.pc = "free", !.call = None]
    /\ disturbed' = (disturbed \/ client.pc # "waiting")
    /\ UNCHANGED <<workers, handling, requests, ready, answers, wholeProbe, calls>>

CloseClient ==
    /\ client.pc = "free" /\ client.thread # None
    /\ client' = [pc |-> "closing", thread |-> None, call |-> Close]
    /\ requests' = Append(requests, Close)
    /\ answers' = [answers EXCEPT ![Close] = None]
    /\ UNCHANGED <<workers, handling, ready, wholeProbe, calls, disturbed>>

----------------------------------------------------------------------------
(* The worker. *)

Becomes(w, state) == workers' = [workers EXCEPT ![w] = state]

\* _ready.put blocks the worker's event loop while nobody took what is there.
Connect(w) ==
    /\ workers[w] = "connecting" /\ ready = None
    /\ Becomes(w, "connected") /\ ready' = "connected"
    /\ UNCHANGED <<client, handling, requests, answers, wholeProbe, calls, disturbed>>

\* _run_worker: the exception goes into _ready when that is empty; nobody may
\* be waiting for it.
Fails(w) ==
    /\ Becomes(w, "ended")
    /\ ready' = IF ready = None THEN "failed" ELSE ready
ConnectFails(w) ==
    /\ workers[w] = "connecting"
    /\ Fails(w)
    /\ UNCHANGED <<client, handling, requests, answers, wholeProbe, calls, disturbed>>

Take(w) ==
    /\ workers[w] \in {"connected", "broken"} /\ requests # <<>>
    /\ handling' = [handling EXCEPT ![w] = Head(requests)]
    /\ requests' = Tail(requests)
    /\ Becomes(w, IF workers[w] = "connected" THEN "handling" ELSE "failing")
    /\ UNCHANGED <<client, ready, answers, wholeProbe, calls, disturbed>>

Answer(w, answer, state) ==
    /\ answers' = [answers EXCEPT ![handling[w]] = answer]
    /\ handling' = [handling EXCEPT ![w] = None]
    /\ Becomes(w, state)

\* The server may never answer; then the worker stays here.
Dispatch(w) ==
    /\ workers[w] = "handling" /\ handling[w] # Close
    /\ \E answer \in {"result", "error"} : Answer(w, answer, "connected")
    /\ UNCHANGED <<client, requests, ready, wholeProbe, calls, disturbed>>

\* The wait for a request cannot be cancelled: a connection that broke shows
\* in the answer of the next one, and ends the worker.
Break(w) ==
    /\ workers[w] = "connected"
    /\ Becomes(w, "broken")
    /\ UNCHANGED <<client, handling, requests, ready, answers, wholeProbe, calls, disturbed>>
DispatchBroken(w) ==
    /\ workers[w] = "failing" /\ handling[w] # Close
    /\ Answer(w, "error", "leaving")
    /\ UNCHANGED <<client, requests, ready, wholeProbe, calls, disturbed>>

TakeClose(w) ==
    /\ workers[w] \in {"handling", "failing"} /\ handling[w] = Close
    /\ Answer(w, "closed", "leaving")
    /\ UNCHANGED <<client, requests, ready, wholeProbe, calls, disturbed>>

\* The connection is closed after the close was answered, and may raise.
Leave(w) ==
    /\ workers[w] = "leaving"
    /\ Becomes(w, "ended")
    /\ UNCHANGED <<client, handling, requests, ready, answers, wholeProbe, calls, disturbed>>
LeaveFails(w) ==
    /\ workers[w] = "leaving"
    /\ Fails(w) /\ disturbed' = TRUE
    /\ UNCHANGED <<client, handling, requests, answers, wholeProbe, calls>>

----------------------------------------------------------------------------
(* The probe, once per process, one declared server after the other, each for *)
(* five seconds at most; and the publication, at the start and at each epoch. *)

unchangedClient == <<client, workers, handling, requests, ready, answers, calls, disturbed>>

ProbeServer(s) ==
    /\ s \notin probe.done
    /\ \/ probe' = [done |-> probe.done \cup {s}, found |-> probe.found \cup {s}]
       \/ probe' = [probe EXCEPT !.done = @ \cup {s}]
    /\ UNCHANGED <<unchangedClient, published>>
Publish ==
    /\ published' = probe.found
    /\ UNCHANGED <<unchangedClient, probe>>

Next ==
    \/ Start \/ Call \/ Started \/ Answered \/ Joined \/ GivesUp \/ CloseClient
    \/ \E w \in Workers :
           \/ Connect(w) \/ ConnectFails(w) \/ Take(w) \/ Dispatch(w) \/ Break(w) \/ DispatchBroken(w)
           \/ TakeClose(w) \/ Leave(w) \/ LeaveFails(w)
    \/ \E s \in Servers : ProbeServer(s)
    \/ Publish

Spec == Init /\ [][Next]_mvars

----------------------------------------------------------------------------
(* Properties *)

Phases == {"free", "starting", "waiting", "closing", "joining"}
States == {"none", "connecting", "connected", "handling", "broken", "failing", "leaving", "ended"}
CallIds == 0..MaxCalls

TypeOK ==
    /\ client \in [pc : Phases, thread : Workers \cup {None}, call : CallIds \cup {None}]
    /\ workers \in [Workers -> States]
    /\ handling \in [Workers -> CallIds \cup {None}]
    /\ requests \in Seq(CallIds)
    /\ ready \in {"connected", "failed", None}
    /\ answers \in [CallIds -> {"result", "error", "closed", None}]
    /\ calls \in Nat /\ calls <= MaxCalls
    /\ disturbed \in BOOLEAN

\* A worker has a request in hand only between its taking and its answer.
HandsFree == \A w \in Workers : workers[w] \notin {"handling", "failing"} => handling[w] = None

\* There is one worker at most.
OneLives == \A v, w \in Workers : Live(v) /\ Live(w) => v = w

\* The worker belongs to the client, unless that is closing it, and has
\* reported unless that is starting it.
OwnWorker ==
    /\ client.pc \in {"starting", "waiting"} => client.thread \in Workers
    /\ client.pc \in {"starting", "waiting", "free"} => \A w \in Workers : Live(w) => w = client.thread
    /\ client.pc # "starting" => ready = None /\ \A w \in Workers : workers[w] # "connecting"
Reported ==
    client.pc = "starting" =>
        /\ workers[client.thread] = "connecting" <=> ready = None
        /\ ready = "failed" => ~Live(client.thread)

\* What the script waits for is in the queue, in the worker's hands or answered.
CallIsSomewhere ==
    client.pc = "waiting" =>
        /\ client.call # None
        /\ \/ answers[client.call] # None
           \/ \E i \in DOMAIN requests : requests[i] = client.call
           \/ handling[client.thread] = client.call

Inv == TypeOK /\ HandsFree /\ (~disturbed => OneLives /\ OwnWorker /\ Reported /\ CallIsSomewhere)

\* Calls may run out of time and connections may break: as long as starts and
\* closes are waited for and none ends with an exception, there is one worker
\* at most, it is the client's, what the script waits for is in its hands or in
\* the queue, and start returns only with a connection.  (After a start or a
\* close that was given up two workers share the queues: the second may be
\* ended by the close meant for the first, and start may be answered by it.)
WorkerServesItsClient ==
    ~disturbed =>
        /\ \A v, w \in Workers : Live(v) /\ Live(w) => v = w
        /\ client.pc = "waiting" =>
               \/ answers[client.call] # None
               \/ \E i \in DOMAIN requests : requests[i] = client.call
               \/ handling[client.thread] = client.call
        /\ client.pc = "free" => \A w \in Workers : Live(w) => w = client.thread /\ workers[w] # "connecting"

=============================================================================
