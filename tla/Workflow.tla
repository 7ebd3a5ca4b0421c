------------------------------ MODULE Workflow ------------------------------
(***************************************************************************)
(* One persisted workflow: a graph of nodes that scripts create and change *)
(* (builtin/workflow/service.py) while the hosts of the project execute it *)
(* (builtin/workflow/executor.py).  They share nothing but the database,   *)
(* and a step of the model is one transaction or one query of it.  A host  *)
(* has an event loop, so that what it does between two awaits is never     *)
(* interleaved with the rest of the same host, only with scripts and with  *)
(* other hosts.                                                            *)
(***************************************************************************)
EXTENDS Integers, FiniteSets

CONSTANTS Agent,        \* nodes that are turns (kinds agent and review)
          Check,        \* nodes that are checkpoints
          Executor,     \* an executor_id: a host from its start to its end
          Caller,       \* calls of scripts that can be under way at a time
          Concurrency,  \* of the workflow: nodes claimed per poll
          NoExecutor    \* NULL

Node == Agent \cup Check

ASSUME WorkflowAssumption ==
    /\ Agent \cap Check = {}
    /\ Concurrency \in Nat \ {0}
    /\ NoExecutor \notin Executor

VARIABLES
    workflow,   \* workflows.status
    status,     \* workflow_nodes.status
    deps,       \* workflow_nodes.dependencies_json
    owner,      \* workflow_nodes.executor_id
    expired,    \* the nodes that are running and whose lease_until has passed
    row,        \* workflow_checkpoints.status
    up,         \* which hosts run
    at,         \* at[x]: where the loop of host x is
    seen,       \* seen[x]: the nodes it has read and is going to update
    task,       \* task[x][n]: the task _execute_node of node n in host x
    call,       \* call[c]: the service call under way, and what it has read
    late        \* the nodes that got other dependencies after they were found ready

tables == <<workflow, status, deps, owner, expired, row>>
hosts == <<up, at, seen, task>>
vars == <<tables, hosts, call, late>>

NodeStatus == {"absent", "pending", "running", "completed", "failed", "cancelled"}
NodeTerminal == {"completed", "failed", "cancelled"}
WorkflowStatus == {"running", "checkpoint", "failed", "completed", "cancelled"}

\* idle: between polls.  stale, look, reach, nodes, claim: the queries and
\* transactions of a poll that come next.  close: _complete_if_done.  completed,
\* failed: it found the workflow done and is going to say so.
LoopAt == {"idle", "stale", "look", "see", "reach", "nodes", "claim", "close",
           "completed", "failed"}

TypeOK ==
    /\ workflow \in WorkflowStatus
    /\ status \in [Node -> NodeStatus]
    /\ deps \in [Node -> SUBSET Node]
    /\ owner \in [Node -> Executor \cup {NoExecutor}]
    /\ expired \subseteq Node
    /\ row \in [Check -> {"none", "pending", "unresolved", "resolved"}]
    /\ up \in [Executor -> {"new", "up", "stopping", "down"}]
    /\ at \in [Executor -> LoopAt]
    /\ seen \in [Executor -> SUBSET Node]
    /\ task \in [Executor -> [Agent -> {"none", "working", "ending"}]]
    /\ late \subseteq Node

\* service.start has made an empty workflow.
Init ==
    /\ workflow = "running"
    /\ status = [n \in Node |-> "absent"]
    /\ deps = [n \in Node |-> {}]
    /\ owner = [n \in Node |-> NoExecutor]
    /\ expired = {}
    /\ row = [k \in Check |-> "none"]
    /\ up = [x \in Executor |-> "new"]
    /\ at = [x \in Executor |-> "idle"]
    /\ seen = [x \in Executor |-> {}]
    /\ task = [x \in Executor |-> [n \in Agent |-> "none"]]
    /\ call = [c \in Caller |-> <<"none">>]
    /\ late = {}

Existing == {n \in Node : status[n] # "absent"}
Completed == {n \in Node : status[n] = "completed"}
Unresolved == \E k \in Check : row[k] = "unresolved"
Ready(kind) == {n \in kind : status[n] = "pending" /\ deps[n] \subseteq Completed}

SetStatus(S, to) == [n \in Node |-> IF n \in S THEN to ELSE status[n]]

-----------------------------------------------------------------------------
(* Calls of scripts *)

Free(c) == call[c] = <<"none">>
Returns(c) == call' = [call EXCEPT ![c] = <<"none">>]

\* _create_node: whatever the workflow was, it is running now.
CreateNode(n, D) ==
    /\ status[n] = "absent"
    /\ D \subseteq Existing
    /\ status' = [status EXCEPT ![n] = "pending"]
    /\ deps' = [deps EXCEPT ![n] = D]
    /\ workflow' = "running"
    /\ UNCHANGED <<owner, expired, row, hosts, late>>

AddAgent(c, n, D) ==
    /\ Free(c)
    /\ n \in Agent
    /\ CreateNode(n, D)
    /\ UNCHANGED call

\* The node of a checkpoint first, then its row.
AddCheckpoint(c, k, D) ==
    /\ Free(c)
    /\ CreateNode(k, D)
    /\ call' = [call EXCEPT ![c] = <<"row", k>>]

AddRow(c, k) ==
    /\ call[c] = <<"row", k>>
    /\ row' = [row EXCEPT ![k] = "pending"]
    /\ Returns(c)
    /\ UNCHANGED <<workflow, status, deps, owner, expired, hosts, late>>

\* continue_checkpoint does not ask whether the checkpoint was reached.
Continue(c, k) ==
    /\ Free(c)
    /\ row[k] # "none"
    /\ row' = [row EXCEPT ![k] = "resolved"]
    /\ workflow' = "running"
    /\ UNCHANGED <<status, deps, owner, expired, hosts, call, late>>

\* Variant: the nodes that run are left alone.
CancelPending(c) ==
    /\ Free(c)
    /\ workflow' = "cancelled"
    /\ status' = SetStatus({n \in Node : status[n] = "pending"}, "cancelled")
    /\ UNCHANGED <<deps, owner, expired, row, hosts, call, late>>

\* The executor_id of a running node stays.
Cancel(c) ==
    /\ Free(c)
    /\ workflow' = "cancelled"
    /\ status' = SetStatus({n \in Node : status[n] \in {"pending", "running"}}, "cancelled")
    /\ expired' = {}
    /\ UNCHANGED <<deps, owner, row, hosts, call, late>>

Complete(c) ==
    /\ Free(c)
    /\ workflow' = "completed"
    /\ UNCHANGED <<status, deps, owner, expired, row, hosts, call, late>>

\* remove_node takes one node; with cascade it queries for what depends on what it
\* takes, until a query finds nothing more.
SeeRemove(c, n) ==
    /\ Free(c)
    /\ n \in Existing
    /\ \E how \in {"remove", "cascade"} : call' = [call EXCEPT ![c] = <<how, {n}>>]
    /\ UNCHANGED <<tables, hosts, late>>

Cascade(c, S) ==
    LET more == {n \in Node : deps[n] \cap S # {}} \ S
    IN  /\ call[c] = <<"cascade", S>>
        /\ call' = [call EXCEPT ![c] = IF more = {} THEN <<"remove", S>>
                                                   ELSE <<"cascade", S \cup more>>]
        /\ UNCHANGED <<tables, hosts, late>>

Remove(c, S) ==
    /\ call[c] = <<"remove", S>>
    /\ status' = SetStatus({n \in S : status[n] = "pending"}, "cancelled")
    /\ Returns(c)
    /\ UNCHANGED <<workflow, deps, owner, expired, row, hosts, late>>

\* update_node: a query says that the node is pending, and the update that follows
\* does not ask again.
SeePending(c, n) ==
    /\ Free(c)
    /\ status[n] = "pending"
    /\ call' = [call EXCEPT ![c] = <<"patch", n>>]
    /\ UNCHANGED <<tables, hosts, late>>

Patch(c, n, D) ==
    /\ call[c] = <<"patch", n>>
    /\ D \subseteq Existing
    /\ deps' = [deps EXCEPT ![n] = D]
    /\ late' = IF status[n] # "pending" \/ \E x \in Executor : n \in seen[x]
               THEN late \cup {n} ELSE late
    /\ Returns(c)
    /\ UNCHANGED <<workflow, status, owner, expired, row, hosts>>

\* One turn of the loop of wait(): three queries, and perhaps an update.  Where it
\* returns to its caller and where it sleeps make no difference to the tables.
WaitLook(c) ==
    /\ Free(c)
    /\ workflow \notin {"completed", "cancelled"}
    /\ ~Unresolved
    /\ call' = [call EXCEPT ![c] = <<"wait">>]
    /\ UNCHANGED <<tables, hosts, late>>

Verdict(until) ==
    LET some(st) == \E n \in Node : status[n] = st
    IN  CASE some("running") -> "none"
          [] ~some("running") /\ some("failed")
             /\ (until = "next_yield" \/ ~some("pending")) -> "failed"
          [] ~some("running") /\ ~some("failed") /\ ~some("pending") -> "completed"
          [] OTHER -> "none"

WaitNodes(c, until) ==
    /\ call[c] = <<"wait">>
    /\ call' = [call EXCEPT ![c] =
                   IF Verdict(until) = "none" THEN <<"none">>
                   ELSE <<"set", Verdict(until)>>]
    /\ UNCHANGED <<tables, hosts, late>>

WaitSet(c, to) ==
    /\ call[c] = <<"set", to>>
    /\ workflow' = to
    /\ Returns(c)
    /\ UNCHANGED <<status, deps, owner, expired, row, hosts, late>>

Script(c) ==
    \/ \E n \in Agent, D \in SUBSET Node : AddAgent(c, n, D)
    \/ \E k \in Check, D \in SUBSET Node : AddCheckpoint(c, k, D)
    \/ \E k \in Check : AddRow(c, k) \/ Continue(c, k)
    \/ Cancel(c) \/ Complete(c)
    \/ \E S \in SUBSET Node : Cascade(c, S) \/ Remove(c, S)
    \/ \E n \in Node : SeeRemove(c, n) \/ SeePending(c, n) \/ \E D \in SUBSET Node : Patch(c, n, D)
    \/ WaitLook(c) \/ \E until \in {"next_yield", "completed"} : WaitNodes(c, until)
    \/ \E to \in {"failed", "completed"} : WaitSet(c, to)

-----------------------------------------------------------------------------
(* The poll of a host *)

Loop(x, from) == up[x] \in {"up", "stopping"} /\ at[x] = from
GoTo(x, to) == at' = [at EXCEPT ![x] = to]
Reads(x, S) == seen' = [seen EXCEPT ![x] = S]

Start(x) ==
    /\ up[x] = "new"
    /\ up' = [up EXCEPT ![x] = "up"]
    /\ UNCHANGED <<tables, at, seen, task, call, late>>

Stale == {n \in Node : status[n] = "running" /\ n \in expired}

\* Variant: what is stale is looked for at the start only.
SkipStale(x) ==
    /\ Loop(x, "idle") /\ up[x] = "up"
    /\ GoTo(x, "look")
    /\ UNCHANGED <<tables, up, seen, task, call, late>>

\* cleanup_stale_running, before every poll.
SeeStale(x) ==
    /\ Loop(x, "idle") /\ up[x] = "up"
    /\ Reads(x, Stale)
    /\ GoTo(x, IF Stale = {} THEN "look" ELSE "stale")
    /\ UNCHANGED <<tables, up, task, call, late>>

\* The nodes that are still running; the workflow whatever it is now.
FailStale(x) ==
    LET gone == {n \in seen[x] : status[n] = "running"}
    IN  /\ Loop(x, "stale")
        /\ status' = SetStatus(gone, "failed")
        /\ owner' = [n \in Node |-> IF n \in gone THEN NoExecutor ELSE owner[n]]
        /\ expired' = expired \ gone
        /\ workflow' = IF Unresolved THEN workflow ELSE "failed"
        /\ Reads(x, {})
        /\ GoTo(x, "look")
        /\ UNCHANGED <<deps, row, up, task, call, late>>

\* _running_workflows and _has_unresolved_checkpoint.
Look(x) ==
    /\ Loop(x, "look")
    /\ GoTo(x, IF workflow = "running" /\ ~Unresolved THEN "see" ELSE "idle")
    /\ UNCHANGED <<tables, up, seen, task, call, late>>

SeeCheckpoint(x) ==
    /\ Loop(x, "see")
    /\ \/ \E k \in Ready(Check) : Reads(x, {k}) /\ GoTo(x, "reach")
       \/ Ready(Check) = {} /\ GoTo(x, "nodes") /\ UNCHANGED seen
    /\ UNCHANGED <<tables, up, task, call, late>>

\* _claim_ready_checkpoint.  Without a row the claim returns None, but the node has
\* been completed.
Reach(x, k) ==
    /\ Loop(x, "reach") /\ seen[x] = {k}
    /\ Reads(x, {})
    /\ \/ /\ status[k] = "pending"
          /\ status' = [status EXCEPT ![k] = "completed"]
          /\ owner' = [owner EXCEPT ![k] = x]
          /\ \/ /\ row[k] = "none"
                /\ GoTo(x, "nodes")
                /\ UNCHANGED <<workflow, row>>
             \/ /\ row[k] # "none"
                /\ row' = [row EXCEPT ![k] = IF @ = "pending" THEN "unresolved" ELSE @]
                /\ workflow' = "checkpoint"
                /\ GoTo(x, "idle")
       \/ /\ status[k] # "pending"
          /\ GoTo(x, "nodes")
          /\ UNCHANGED <<workflow, status, owner, row>>
    /\ UNCHANGED <<deps, expired, up, task, call, late>>

\* Variant: dependencies are done when they are over.
SeeNodesOver(x) ==
    LET ready == {n \in Agent : status[n] = "pending"
                                /\ \A d \in deps[n] : status[d] \in NodeTerminal}
    IN  /\ Loop(x, "nodes")
        /\ Reads(x, ready)
        /\ GoTo(x, "claim")
        /\ UNCHANGED <<tables, up, task, call, late>>

\* _ready_nodes, and the first of them.
SeeNodes(x) ==
    /\ Loop(x, "nodes")
    /\ \E S \in SUBSET Ready(Agent) :
          /\ Cardinality(S) <= Concurrency
          /\ S = Ready(Agent) \/ Cardinality(S) = Concurrency
          /\ Reads(x, S)
    /\ GoTo(x, "claim")
    /\ UNCHANGED <<tables, up, task, call, late>>

\* Claims S and makes a task for every node of it.
Claims(x, S) ==
    /\ Loop(x, "claim")
    /\ status' = SetStatus(S, "running")
    /\ owner' = [n \in Node |-> IF n \in S THEN x ELSE owner[n]]
    /\ expired' = expired \ S
    /\ task' = [task EXCEPT ![x] = [n \in Agent |-> IF n \in S THEN "working" ELSE @[n]]]
    /\ Reads(x, {})
    /\ GoTo(x, "close")
    /\ UNCHANGED <<workflow, deps, row, up, call, late>>

\* Variant: the update does not ask whether the node is still pending.
ClaimSeen(x) == Claims(x, seen[x])

\* _claim_ready_agent_nodes: those that are pending still.
Claim(x) == Claims(x, {n \in seen[x] : status[n] = "pending"})

\* _complete_if_done, after a poll and at the end of a task.
SeeDone(x) ==
    LET busy == \E n \in Node : status[n] \in {"pending", "running"}
        verdict == IF \E n \in Node : status[n] = "failed" THEN "failed" ELSE "completed"
    IN  /\ Loop(x, "close")
        /\ GoTo(x, IF Existing = {} \/ busy THEN "idle" ELSE verdict)
        /\ UNCHANGED <<tables, up, seen, task, call, late>>

Finish(x) ==
    /\ \E to \in {"completed", "failed"} :
          /\ Loop(x, to)
          /\ workflow' = IF workflow = "running" THEN to ELSE workflow
    /\ GoTo(x, "idle")
    /\ UNCHANGED <<status, deps, owner, expired, row, up, seen, task, call, late>>

-----------------------------------------------------------------------------
(* The tasks of a host *)

Works(x, n) == Loop(x, "idle") /\ task[x][n] = "working"

\* Time passes; the host is slow, or gone.
Expire(n) ==
    /\ status[n] = "running" /\ n \notin expired
    /\ expired' = expired \cup {n}
    /\ UNCHANGED <<workflow, status, deps, owner, row, hosts, call, late>>

Heartbeat(x, n) ==
    /\ Works(x, n)
    /\ owner[n] = x /\ status[n] = "running" /\ n \in expired
    /\ expired' = expired \ {n}
    /\ UNCHANGED <<workflow, status, deps, owner, row, hosts, call, late>>

\* Variant: any answer is an answer.
ReportAnyway(x, n, st) ==
    /\ Works(x, n)
    /\ status' = [status EXCEPT ![n] = st]
    /\ expired' = expired \ {n}
    /\ task' = [task EXCEPT ![x][n] = "ending"]
    /\ UNCHANGED <<workflow, deps, owner, row, up, at, seen, call, late>>

\* The turn is over, or submitting it failed.  The update asks for the executor_id
\* and not for the status.
Report(x, n, st) ==
    /\ Works(x, n)
    /\ status' = IF owner[n] = x THEN [status EXCEPT ![n] = st] ELSE status
    /\ expired' = IF owner[n] = x THEN expired \ {n} ELSE expired
    /\ task' = [task EXCEPT ![x][n] = "ending"]
    /\ UNCHANGED <<workflow, deps, owner, row, up, at, seen, call, late>>

\* The thread of the node cannot be made, which is outside the try block, or the
\* database refuses both updates.
Lose(x, n) ==
    /\ Works(x, n)
    /\ \E to \in {"none", "ending"} : task' = [task EXCEPT ![x][n] = to]
    /\ UNCHANGED <<tables, up, at, seen, call, late>>

\* The finally block.
EndTask(x, n) ==
    /\ Loop(x, "idle") /\ task[x][n] = "ending"
    /\ task' = [task EXCEPT ![x][n] = "none"]
    /\ GoTo(x, "close")
    /\ UNCHANGED <<tables, up, seen, call, late>>

\* stop() cancels the loop and the tasks; their nodes stay as they are.
Stop(x) ==
    /\ Loop(x, "idle") /\ up[x] = "up"
    /\ up' = [up EXCEPT ![x] = "stopping"]
    /\ task' = [task EXCEPT ![x] =
                   [n \in Agent |-> IF @[n] = "working" THEN "ending" ELSE @[n]]]
    /\ UNCHANGED <<tables, at, seen, call, late>>

\* The process ends, in the middle of whatever it was doing.
Crash(x) ==
    /\ up[x] \in {"up", "stopping"}
    /\ up' = [up EXCEPT ![x] = "down"]
    /\ at' = [at EXCEPT ![x] = "idle"]
    /\ seen' = [seen EXCEPT ![x] = {}]
    /\ task' = [task EXCEPT ![x] = [n \in Agent |-> "none"]]
    /\ UNCHANGED <<tables, call, late>>

\* The database refuses a query; the next poll begins anew.
PollFails(x) ==
    /\ up[x] \in {"up", "stopping"} /\ at[x] # "idle"
    /\ GoTo(x, "idle")
    /\ Reads(x, {})
    /\ UNCHANGED <<tables, up, task, call, late>>

Poll(x) ==
    \/ SeeStale(x) \/ FailStale(x) \/ Look(x) \/ SeeCheckpoint(x)
    \/ \E k \in Check : Reach(x, k)
    \/ SeeNodes(x) \/ Claim(x) \/ SeeDone(x) \/ Finish(x)

Answer(x, n) == \E st \in {"completed", "failed", "cancelled"} : Report(x, n, st)

Host(x) ==
    \/ Start(x) \/ Poll(x) \/ PollFails(x) \/ Stop(x) \/ Crash(x)
    \/ \E n \in Agent : Heartbeat(x, n) \/ Answer(x, n) \/ Lose(x, n) \/ EndTask(x, n)

Next ==
    \/ \E c \in Caller : Script(c)
    \/ \E x \in Executor : Host(x)
    \/ \E n \in Agent : Expire(n)

Spec == Init /\ [][Next]_vars

-----------------------------------------------------------------------------
(* What it promises *)

\* A node is executed by one host at most, and once: nobody else has a task for a
\* node that a host works on, and while the node is running its row says who that
\* is ("SQLite status updates claim work").
OneExecution ==
    \A x, y \in Executor, n \in Agent :
        task[x][n] = "working" =>
            /\ task[y][n] = "working" => x = y
            /\ status[n] \notin {"absent", "pending"}
            /\ status[n] = "running" => owner[n] = x

\* When a workflow is cancelled nothing of it runs, and nothing starts, until a
\* script goes on with it: not even from a poll that was under way.
CancelledIsQuiet ==
    workflow = "cancelled" => \A n \in Node : status[n] \notin {"pending", "running"}

\* A node that started had its dependencies completed, and they stay so; but for
\* dependencies added when a host had already found it ready.
DependenciesFirst ==
    \A n \in Node \ late :
        status[n] \in {"running", "completed", "failed"} => deps[n] \subseteq Completed

\* A node failed because its lease ran out stays failed, whatever the host that
\* was too slow reports later.
LateReportIgnored ==
    [][\A n \in Node : (status[n] = "failed" /\ owner[n] = NoExecutor)
                            => status'[n] = "failed"]_vars

\* What a node produced is not lost: a completed node is never anything else
\* again, even if it is cancelled, replaced or found stale at that moment.
CompletedStays ==
    [][\A n \in Node : status[n] = "completed" => status'[n] = "completed"]_vars

\* A checkpoint "hands control back to the main agent": what comes after it waits
\* until it is resolved.
CheckpointHolds ==
    \A n \in Agent \ late, k \in Check :
        (k \in deps[n] /\ status[n] = "running") => row[k] = "resolved"

\* A node that runs does not run forever, if a host stays up: it is answered for,
\* cancelled, or found stale.
RunningEnds ==
    \A x \in Executor, n \in Agent :
        <>[](up[x] = "up") => (status[n] = "running" ~> status[n] # "running")

\* Turns end and loops go on; the database does not refuse the same update for
\* ever.  An idle loop serves its tasks in turn (asyncio runs ready callbacks in
\* order); a lease that nobody renews runs out.
Fairness ==
    /\ \A x \in Executor : WF_vars(Poll(x)) /\ SF_vars(FailStale(x))
    /\ \A x \in Executor, n \in Agent : SF_vars(Answer(x, n))
    /\ \A n \in Agent :
          WF_vars((\A x \in Executor : task[x][n] # "working") /\ Expire(n))

FairSpec == Spec /\ Fairness

-----------------------------------------------------------------------------
(* The inductive invariant *)

\* A task works on a node that was claimed and that nobody else reported on.
TaskInv ==
    \A x \in Executor, n \in Agent : task[x][n] = "working" =>
        /\ \A y \in Executor : task[y][n] = "working" => x = y
        /\ status[n] \in {"running", "failed", "cancelled"}
        /\ status[n] = "running" => owner[n] = x
        /\ n \notin late => deps[n] \subseteq Completed

\* What a host found ready is ready, or was claimed or cancelled meanwhile, or got
\* other dependencies.
SeenInv ==
    \A x \in Executor : \A n \in seen[x] :
        /\ status[n] # "absent"
        /\ (at[x] \in {"claim", "reach"} /\ n \notin late) => deps[n] \subseteq Completed

=============================================================================
