--------------------------- MODULE WorkflowProofs ---------------------------
(***************************************************************************)
(* Proofs about Workflow, for any graph, any number of hosts and calls.    *)
(***************************************************************************)
EXTENDS Workflow, TLAPS

Inv == TypeOK /\ TaskInv /\ SeenInv /\ CancelledIsQuiet /\ DependenciesFirst

\* The nodes that SetStatus names get the status, and no other does.
LEMMA StatusSet ==
    ASSUME NEW S, NEW to \in NodeStatus, status \in [Node -> NodeStatus]
    PROVE  /\ SetStatus(S, to) \in [Node -> NodeStatus]
           /\ \A n \in Node : SetStatus(S, to)[n] = IF n \in S THEN to ELSE status[n]
  BY DEF SetStatus

\* Init establishes the invariant.
LEMMA InitInv == Init => Inv
  BY DEF Init, Inv, TypeOK, TaskInv, SeenInv, CancelledIsQuiet, DependenciesFirst,
         WorkflowStatus, NodeStatus, LoopAt, Completed

-----------------------------------------------------------------------------

\* A script that makes a node.
LEMMA CreateStep ==
    ASSUME Inv, NEW n \in Node, NEW D \in SUBSET Node, CreateNode(n, D)
    PROVE  Inv'
<1>1. TypeOK'
  BY DEF Inv, CreateNode, TypeOK, hosts, WorkflowStatus, NodeStatus
<1>2. /\ status' \in [Node -> NodeStatus]
      /\ status'[n] = "pending"
      /\ \A m \in Node \ {n} : status'[m] = status[m] /\ deps'[m] = deps[m]
      /\ Completed \subseteq Completed'
  BY <1>1 DEF Inv, CreateNode, TypeOK, Completed, NodeStatus
<1>3. TaskInv'
  BY <1>1, <1>2 DEF Inv, CreateNode, TaskInv, TypeOK, hosts, Node
<1>4. SeenInv'
  BY <1>1, <1>2 DEF Inv, CreateNode, SeenInv, TypeOK, hosts
<1>5. CancelledIsQuiet'
  BY DEF CreateNode, CancelledIsQuiet
<1>6. DependenciesFirst'
  BY <1>1, <1>2 DEF Inv, CreateNode, DependenciesFirst, TypeOK
<1>7. QED
  BY <1>1, <1>3, <1>4, <1>5, <1>6 DEF Inv

\* A step after which some nodes that had not started are cancelled, and some that
\* ran; the workflow is cancelled if they all are.
LEMMA CancelStep ==
    ASSUME Inv, NEW S \in SUBSET Node,
           status' = SetStatus(S, "cancelled"),
           \A n \in S : status[n] \in {"pending", "running"},
           workflow' \in WorkflowStatus,
           workflow' = "cancelled" =>
              workflow = "cancelled"
              \/ S = {n \in Node : status[n] \in {"pending", "running"}},
           expired' \in SUBSET Node,
           UNCHANGED <<deps, owner, row, hosts, late>>
    PROVE  Inv'
<1>1. /\ status' \in [Node -> NodeStatus]
      /\ \A n \in Node : status'[n] = IF n \in S THEN "cancelled" ELSE status[n]
  BY StatusSet DEF Inv, TypeOK, NodeStatus
<1>2. Completed' = Completed
  BY <1>1 DEF Completed
<1>3. TypeOK'
  BY <1>1 DEF Inv, TypeOK, hosts
<1>4. TaskInv'
  BY <1>1, <1>2 DEF Inv, TaskInv, hosts, Node
<1>5. SeenInv'
  BY <1>1, <1>2 DEF Inv, SeenInv, TypeOK, hosts
<1>6. CancelledIsQuiet'
  BY <1>1 DEF Inv, CancelledIsQuiet
<1>7. DependenciesFirst'
  BY <1>1, <1>2 DEF Inv, DependenciesFirst
<1>8. QED
  BY <1>3, <1>4, <1>5, <1>6, <1>7 DEF Inv

\* A step that leaves nodes, tasks and hosts alone, and cancels nothing.
LEMMA RowStep ==
    ASSUME Inv, workflow' \in WorkflowStatus, workflow' # "cancelled" \/ workflow' = workflow,
           row' \in [Check -> {"none", "pending", "unresolved", "resolved"}],
           expired' \in SUBSET Node,
           UNCHANGED <<status, deps, owner, hosts, late>>
    PROVE  Inv'
<1>1. Completed' = Completed
  BY DEF Completed
<1>2. QED
  BY <1>1 DEF Inv, TypeOK, TaskInv, SeenInv, CancelledIsQuiet, DependenciesFirst, hosts

\* New dependencies: of a node that nobody has found ready, or of one that is late.
LEMMA PatchStep ==
    ASSUME Inv, NEW c \in Caller, NEW n \in Node, NEW D \in SUBSET Node, Patch(c, n, D)
    PROVE  Inv'
<1>1. /\ TypeOK'
      /\ \A m \in Node \ {n} : deps'[m] = deps[m]
      /\ late \subseteq late'
      /\ status[n] # "pending" => n \in late'
      /\ \A x \in Executor : n \in seen[x] => n \in late'
  BY DEF Inv, TypeOK, Patch, hosts
<1>2. Completed' = Completed
  BY DEF Patch, Completed
<1>3. TaskInv'
  BY <1>1, <1>2 DEF Inv, TaskInv, Patch, hosts, Node
<1>4. SeenInv'
  BY <1>1, <1>2 DEF Inv, SeenInv, Patch, hosts, TypeOK
<1>5. CancelledIsQuiet'
  BY DEF Inv, Patch, CancelledIsQuiet
<1>6. DependenciesFirst'
  BY <1>1, <1>2 DEF Inv, Patch, DependenciesFirst
<1>7. QED
  BY <1>1, <1>3, <1>4, <1>5, <1>6 DEF Inv

LEMMA ScriptStep ==
    ASSUME Inv, NEW c \in Caller, Script(c)
    PROVE  Inv'
<1>1. ASSUME NEW n \in Agent, NEW D \in SUBSET Node, AddAgent(c, n, D) PROVE Inv'
  BY <1>1, CreateStep DEF AddAgent, Node
<1>2. ASSUME NEW k \in Check, NEW D \in SUBSET Node, AddCheckpoint(c, k, D) PROVE Inv'
  BY <1>2, CreateStep DEF AddCheckpoint, Node
<1>3. ASSUME NEW k \in Check, AddRow(c, k) PROVE Inv'
  BY <1>3, RowStep DEF AddRow, Inv, TypeOK
<1>4. ASSUME NEW k \in Check, Continue(c, k) PROVE Inv'
  BY <1>4, RowStep DEF Continue, Inv, TypeOK, WorkflowStatus
<1>5. CASE Cancel(c)
  <2> DEFINE S == {n \in Node : status[n] \in {"pending", "running"}}
  <2>1. status' = SetStatus(S, "cancelled") /\ workflow' = "cancelled"
    BY <1>5 DEF Cancel
  <2>2. QED
    BY <1>5, <2>1, CancelStep DEF Cancel, WorkflowStatus
<1>6. CASE Complete(c)
  BY <1>6, RowStep DEF Complete, Inv, TypeOK, WorkflowStatus
<1>7. ASSUME NEW R \in SUBSET Node, Remove(c, R) PROVE Inv'
  <2> DEFINE S == {n \in R : status[n] = "pending"}
  <2>1. status' = SetStatus(S, "cancelled") /\ workflow' = workflow
    BY <1>7 DEF Remove
  <2>2. QED
    BY <1>7, <2>1, CancelStep DEF Remove, Inv, TypeOK
<1>8. ASSUME NEW n \in Node, SeePending(c, n) PROVE Inv'
  BY <1>8, RowStep DEF SeePending, tables, Inv, TypeOK
<1>9. ASSUME NEW n \in Node, NEW D \in SUBSET Node, Patch(c, n, D) PROVE Inv'
  BY <1>9, PatchStep
<1>10. CASE WaitLook(c)
  BY <1>10, RowStep DEF WaitLook, tables, Inv, TypeOK
<1>11. ASSUME NEW until \in {"next_yield", "completed"}, WaitNodes(c, until) PROVE Inv'
  BY <1>11, RowStep DEF WaitNodes, tables, Inv, TypeOK
<1>12. ASSUME NEW to \in {"failed", "completed"}, WaitSet(c, to) PROVE Inv'
  BY <1>12, RowStep DEF WaitSet, Inv, TypeOK, WorkflowStatus
<1>13. ASSUME NEW n \in Node, SeeRemove(c, n) PROVE Inv'
  BY <1>13, RowStep DEF SeeRemove, tables, Inv, TypeOK
<1>14. ASSUME NEW R \in SUBSET Node, Cascade(c, R) PROVE Inv'
  BY <1>14, RowStep DEF Cascade, tables, Inv, TypeOK
<1>15. QED
  BY <1>1, <1>2, <1>3, <1>4, <1>5, <1>6, <1>7, <1>8, <1>9, <1>10, <1>11, <1>12, <1>13,
     <1>14
     DEF Script

-----------------------------------------------------------------------------

\* A host goes on without touching the tables or its tasks, and remembers nothing
\* that it is going to claim.
LEMMA LoopStep ==
    ASSUME Inv, NEW x \in Executor, NEW to \in LoopAt, NEW S \in SUBSET Node,
           at' = [at EXCEPT ![x] = to], seen' = [seen EXCEPT ![x] = S],
           \A n \in S : status[n] # "absent",
           to \in {"claim", "reach"} => \A n \in S : deps[n] \subseteq Completed,
           up' \in [Executor -> {"new", "up", "stopping", "down"}],
           task' \in [Executor -> [Agent -> {"none", "working", "ending"}]],
           \A y \in Executor, n \in Agent : task'[y][n] = "working" => task[y][n] = "working",
           UNCHANGED <<tables, late>>
    PROVE  Inv'
<1>1. TypeOK'
  BY DEF Inv, TypeOK, tables
<1>2. Completed' = Completed
  BY DEF Completed, tables
<1>3. TaskInv'
  BY <1>2 DEF Inv, TaskInv, tables
<1>4. SeenInv'
  BY <1>2 DEF Inv, SeenInv, TypeOK, tables
<1>5. CancelledIsQuiet' /\ DependenciesFirst'
  BY <1>2 DEF Inv, CancelledIsQuiet, DependenciesFirst, tables
<1>6. QED
  BY <1>1, <1>3, <1>4, <1>5 DEF Inv

\* Nodes whose lease ran out lose their owner.
LEMMA FailStaleStep ==
    ASSUME Inv, NEW x \in Executor, FailStale(x)
    PROVE  Inv'
<1> DEFINE gone == {n \in seen[x] : status[n] = "running"}
<1>1. status' = SetStatus(gone, "failed")
  BY DEF FailStale
<1>2. /\ status' \in [Node -> NodeStatus]
      /\ \A n \in Node : status'[n] = IF n \in gone THEN "failed" ELSE status[n]
  BY <1>1, StatusSet DEF Inv, TypeOK, NodeStatus
<1>3. Completed' = Completed
  BY <1>2 DEF Completed
<1>4. TypeOK'
  BY <1>2 DEF FailStale, Inv, TypeOK, WorkflowStatus, Reads, GoTo, LoopAt
<1>5. TaskInv'
  BY <1>2, <1>3 DEF FailStale, Inv, TaskInv, TypeOK, Node
<1>6. SeenInv'
  BY <1>2, <1>3 DEF FailStale, Inv, SeenInv, TypeOK, Reads, GoTo
<1>7. CancelledIsQuiet'
  BY <1>2 DEF FailStale, Inv, CancelledIsQuiet
<1>8. DependenciesFirst'
  BY <1>2, <1>3 DEF FailStale, Inv, DependenciesFirst
<1>9. QED
  BY <1>4, <1>5, <1>6, <1>7, <1>8 DEF Inv

\* A checkpoint is reached, with or without a row.
LEMMA ReachStep ==
    ASSUME Inv, NEW x \in Executor, NEW k \in Check, Reach(x, k)
    PROVE  Inv'
<1> USE WorkflowAssumption
<1>1. k \in seen[x] /\ at[x] = "reach" /\ k \in Node /\ k \notin Agent
  BY DEF Reach, Loop, Node
<1>2. TypeOK'
  <2>1. /\ status' \in [Node -> NodeStatus]
        /\ owner' \in [Node -> Executor \cup {NoExecutor}]
        /\ workflow' \in WorkflowStatus
    <3>1. /\ status \in [Node -> NodeStatus] /\ "completed" \in NodeStatus
          /\ owner \in [Node -> Executor \cup {NoExecutor}]
          /\ workflow \in WorkflowStatus /\ "checkpoint" \in WorkflowStatus
      BY DEF Inv, TypeOK, NodeStatus, WorkflowStatus
    <3>2. /\ status' = status \/ status' = [status EXCEPT ![k] = "completed"]
          /\ owner' = owner \/ owner' = [owner EXCEPT ![k] = x]
          /\ workflow' = workflow \/ workflow' = "checkpoint"
      BY DEF Reach
    <3>3. QED
      BY <3>1, <3>2
  <2>2. row' \in [Check -> {"none", "pending", "unresolved", "resolved"}]
    <3>1. row \in [Check -> {"none", "pending", "unresolved", "resolved"}]
      BY DEF Inv, TypeOK
    <3>2. row' = row \/ \E st \in {"none", "pending", "unresolved", "resolved"} :
                            row' = [row EXCEPT ![k] = st]
      BY <3>1 DEF Reach
    <3>3. QED
      BY <3>1, <3>2
  <2>3. at' \in [Executor -> LoopAt] /\ seen' \in [Executor -> SUBSET Node]
    BY DEF Reach, Inv, TypeOK, Reads, GoTo, LoopAt
  <2>4. QED
    BY <2>1, <2>2, <2>3 DEF Reach, Inv, TypeOK
<1>3. /\ \A n \in Node \ {k} : status'[n] = status[n] /\ owner'[n] = owner[n]
      /\ status'[k] = status[k] \/ (status[k] = "pending" /\ status'[k] = "completed")
  BY <1>1 DEF Reach, Inv, TypeOK
<1>4. Completed \subseteq Completed'
  BY <1>3 DEF Completed
<1>5. TaskInv'
  BY <1>1, <1>3, <1>4 DEF Reach, Inv, TaskInv, Node
<1>6. SeenInv'
  BY <1>1, <1>2, <1>3, <1>4 DEF Reach, Inv, SeenInv, TypeOK, Reads, GoTo
<1>7. CancelledIsQuiet'
  BY <1>1, <1>3 DEF Reach, Inv, CancelledIsQuiet
<1>8. DependenciesFirst'
  <2>1. k \notin late => deps[k] \subseteq Completed
    BY <1>1 DEF Inv, SeenInv
  <2>2. QED
    BY <1>3, <1>4, <2>1 DEF Reach, Inv, DependenciesFirst
<1>9. QED
  BY <1>2, <1>5, <1>6, <1>7, <1>8 DEF Inv

\* What is still pending is claimed, and has no task yet.
LEMMA ClaimStep ==
    ASSUME Inv, NEW x \in Executor, Claim(x)
    PROVE  Inv'
<1> DEFINE S == {n \in seen[x] : status[n] = "pending"}
<1>1. Claims(x, S) /\ at[x] = "claim" /\ S \subseteq Node
  BY DEF Claim, Claims, Loop, Inv, TypeOK
<1>2. /\ status' \in [Node -> NodeStatus]
      /\ \A n \in Node : status'[n] = IF n \in S THEN "running" ELSE status[n]
  BY <1>1, StatusSet DEF Claims, Inv, TypeOK, NodeStatus
<1>3. Completed' = Completed
  BY <1>2 DEF Completed
<1>4. TypeOK'
  BY <1>1, <1>2 DEF Claims, Inv, TypeOK, Reads, GoTo, LoopAt
<1>5. \A n \in S : n \notin late => deps[n] \subseteq Completed
  BY <1>1 DEF Inv, SeenInv
<1>6. TaskInv'
  <2> SUFFICES ASSUME NEW y \in Executor, NEW n \in Agent, task'[y][n] = "working"
               PROVE  /\ \A z \in Executor : task'[z][n] = "working" => y = z
                      /\ status'[n] \in {"running", "failed", "cancelled"}
                      /\ status'[n] = "running" => owner'[n] = y
                      /\ n \notin late' => deps'[n] \subseteq Completed'
    BY DEF TaskInv
  <2>1. \A z \in Executor : task'[z][n] =
            IF z = x /\ n \in S THEN "working" ELSE task[z][n]
    BY <1>1 DEF Claims, Inv, TypeOK
  <2>2. n \in Node /\ late' = late /\ deps' = deps
        /\ owner'[n] = IF n \in S THEN x ELSE owner[n]
    BY <1>1 DEF Claims, Node
  <2>3. CASE n \in S
    <3>1. \A z \in Executor : task[z][n] # "working"
      BY <2>3 DEF Inv, TaskInv
    <3>2. QED
      BY <1>2, <1>3, <1>5, <2>1, <2>2, <2>3, <3>1
  <2>4. CASE n \notin S
    BY <1>2, <1>3, <2>1, <2>2, <2>4 DEF Inv, TaskInv
  <2>5. QED
    BY <2>3, <2>4
<1>7. SeenInv'
  BY <1>1, <1>2, <1>3 DEF Claims, Inv, SeenInv, TypeOK, Reads, GoTo
<1>8. CancelledIsQuiet'
  BY <1>1, <1>2 DEF Claims, Inv, CancelledIsQuiet
<1>9. DependenciesFirst'
  BY <1>1, <1>2, <1>3, <1>5 DEF Claims, Inv, DependenciesFirst
<1>10. QED
  BY <1>4, <1>6, <1>7, <1>8, <1>9 DEF Inv

LEMMA PollStep ==
    ASSUME Inv, NEW x \in Executor, Poll(x)
    PROVE  Inv'
<1>1. CASE SeeStale(x)
  <2> DEFINE to == IF Stale = {} THEN "look" ELSE "stale"
  <2>1. at' = [at EXCEPT ![x] = to] /\ to \in LoopAt /\ to \notin {"claim", "reach"}
    BY <1>1 DEF SeeStale, GoTo, LoopAt
  <2>2. seen' = [seen EXCEPT ![x] = Stale] /\ Stale \in SUBSET Node
        /\ \A n \in Stale : status[n] # "absent"
    BY <1>1 DEF SeeStale, Reads, Stale
  <2>3. QED
    BY <1>1, <2>1, <2>2, LoopStep DEF SeeStale, Inv, TypeOK
<1>2. CASE FailStale(x)
  BY <1>2, FailStaleStep
<1>3. CASE Look(x)
  <2> DEFINE to == IF workflow = "running" /\ ~Unresolved THEN "see" ELSE "idle"
  <2>1. at' = [at EXCEPT ![x] = to] /\ to \in LoopAt /\ to \notin {"claim", "reach"}
    BY <1>3 DEF Look, GoTo, LoopAt
  <2>2. seen' = [seen EXCEPT ![x] = seen[x]] /\ seen[x] \in SUBSET Node
        /\ \A n \in seen[x] : status[n] # "absent"
    BY <1>3 DEF Look, Inv, TypeOK, SeenInv
  <2>3. QED
    BY <1>3, <2>1, <2>2, LoopStep DEF Look, Inv, TypeOK
<1>4. CASE SeeCheckpoint(x)
  <2>1. ASSUME NEW k \in Ready(Check), Reads(x, {k}), GoTo(x, "reach") PROVE Inv'
    <3>1. {k} \in SUBSET Node /\ \A n \in {k} : status[n] # "absent" /\ deps[n] \subseteq Completed
      BY DEF Ready, Node
    <3>2. at' = [at EXCEPT ![x] = "reach"] /\ seen' = [seen EXCEPT ![x] = {k}]
      BY <2>1 DEF Reads, GoTo
    <3>3. "reach" \in LoopAt
      BY DEF LoopAt
    <3>4. QED
      BY <1>4, <3>1, <3>2, <3>3, LoopStep DEF SeeCheckpoint, Inv, TypeOK
  <2>2. CASE GoTo(x, "nodes") /\ UNCHANGED seen
    <3>1. at' = [at EXCEPT ![x] = "nodes"] /\ "nodes" \in LoopAt
      BY <2>2 DEF GoTo, LoopAt
    <3>2. seen' = [seen EXCEPT ![x] = seen[x]] /\ seen[x] \in SUBSET Node
          /\ \A n \in seen[x] : status[n] # "absent"
      BY <2>2 DEF Inv, TypeOK, SeenInv
    <3>3. QED
      BY <1>4, <3>1, <3>2, LoopStep DEF SeeCheckpoint, Inv, TypeOK
  <2>3. QED
    BY <1>4, <2>1, <2>2 DEF SeeCheckpoint
<1>5. ASSUME NEW k \in Check, Reach(x, k) PROVE Inv'
  BY <1>5, ReachStep
<1>6. CASE SeeNodes(x)
  <2>1. PICK S \in SUBSET Ready(Agent) : Reads(x, S)
    BY <1>6 DEF SeeNodes
  <2>2. S \in SUBSET Node /\ \A n \in S : status[n] # "absent" /\ deps[n] \subseteq Completed
    BY DEF Ready, Node
  <2>3. at' = [at EXCEPT ![x] = "claim"] /\ "claim" \in LoopAt
        /\ seen' = [seen EXCEPT ![x] = S]
    BY <1>6, <2>1 DEF SeeNodes, Reads, GoTo, LoopAt
  <2>4. QED
    BY <1>6, <2>2, <2>3, LoopStep DEF SeeNodes, Inv, TypeOK
<1>7. CASE Claim(x)
  BY <1>7, ClaimStep
<1>8. CASE SeeDone(x)
  <2>1. PICK to \in LoopAt \ {"claim", "reach"} : at' = [at EXCEPT ![x] = to]
    BY <1>8 DEF SeeDone, GoTo, LoopAt
  <2>2. seen' = [seen EXCEPT ![x] = seen[x]] /\ seen[x] \in SUBSET Node
        /\ \A n \in seen[x] : status[n] # "absent"
    BY <1>8 DEF SeeDone, Inv, TypeOK, SeenInv
  <2>3. QED
    BY <1>8, <2>1, <2>2, LoopStep DEF SeeDone, Inv, TypeOK
<1>9. CASE Finish(x)
  <2>1. Completed' = Completed
    BY <1>9 DEF Finish, Completed
  <2>2. TypeOK'
    BY <1>9 DEF Finish, Inv, TypeOK, GoTo, LoopAt, WorkflowStatus
  <2>3. TaskInv' /\ SeenInv' /\ CancelledIsQuiet' /\ DependenciesFirst'
    BY <1>9, <2>1 DEF Finish, GoTo, Inv, TypeOK, TaskInv, SeenInv, CancelledIsQuiet,
                      DependenciesFirst
  <2>4. QED
    BY <2>2, <2>3 DEF Inv
<1>10. QED
  BY <1>1, <1>2, <1>3, <1>4, <1>5, <1>6, <1>7, <1>8, <1>9 DEF Poll

-----------------------------------------------------------------------------

\* A report counts if the node still belongs to the host that makes it.
LEMMA ReportStep ==
    ASSUME Inv, NEW x \in Executor, NEW n \in Agent,
           NEW st \in {"completed", "failed", "cancelled"}, Report(x, n, st)
    PROVE  Inv'
<1>1. n \in Node /\ task[x][n] = "working"
  BY DEF Report, Works, Node
<1>2. TypeOK'
  BY <1>1 DEF Report, Inv, TypeOK, NodeStatus
<1>3. /\ \A m \in Node \ {n} : status'[m] = status[m]
      /\ status'[n] = status[n] \/ status'[n] = st
      /\ \A y \in Executor, m \in Agent :
            task'[y][m] = IF y = x /\ m = n THEN "ending" ELSE task[y][m]
  BY <1>1 DEF Report, Inv, TypeOK
<1>4. status[n] \in {"running", "failed", "cancelled"}
      /\ (n \notin late => deps[n] \subseteq Completed)
      /\ \A y \in Executor : task[y][n] = "working" => x = y
  BY <1>1 DEF Inv, TaskInv
<1>5. Completed \subseteq Completed'
  BY <1>3, <1>4 DEF Completed
<1>6. TaskInv'
  BY <1>3, <1>4, <1>5 DEF Report, Inv, TaskInv, Node
<1>7. SeenInv'
  BY <1>2, <1>3, <1>4, <1>5 DEF Report, Inv, SeenInv, TypeOK
<1>8. CancelledIsQuiet'
  BY <1>1, <1>3 DEF Report, Inv, CancelledIsQuiet
<1>9. DependenciesFirst'
  BY <1>3, <1>4, <1>5 DEF Report, Inv, DependenciesFirst
<1>10. QED
  BY <1>2, <1>6, <1>7, <1>8, <1>9 DEF Inv

\* Tasks and hosts that end leave the tables as they are.
LEMMA EndStep ==
    ASSUME Inv, NEW x \in Executor,
           \/ Start(x) \/ PollFails(x) \/ Stop(x) \/ Crash(x)
           \/ \E n \in Agent : Lose(x, n) \/ EndTask(x, n)
    PROVE  Inv'
<1>1. Completed' = Completed
  BY DEF Start, PollFails, Stop, Crash, Lose, EndTask, tables, Completed
<1>2. CASE Start(x)
  BY <1>1, <1>2 DEF Start, Inv, TypeOK, tables, TaskInv, SeenInv, CancelledIsQuiet,
                    DependenciesFirst
<1>3. CASE Stop(x)
  BY <1>1, <1>3 DEF Stop, Inv, TypeOK, tables, TaskInv, SeenInv, CancelledIsQuiet,
                    DependenciesFirst
<1>4. CASE Crash(x)
  BY <1>1, <1>4 DEF Crash, Inv, TypeOK, tables, TaskInv, SeenInv, CancelledIsQuiet,
                    DependenciesFirst, LoopAt
<1>5. ASSUME NEW n \in Agent, Lose(x, n) PROVE Inv'
  BY <1>1, <1>5 DEF Lose, Inv, TypeOK, tables, TaskInv, SeenInv, CancelledIsQuiet,
                    DependenciesFirst
<1>6. ASSUME NEW n \in Agent, EndTask(x, n) PROVE Inv'
  BY <1>1, <1>6 DEF EndTask, GoTo, Inv, TypeOK, tables, TaskInv, SeenInv,
                    CancelledIsQuiet, DependenciesFirst, LoopAt
<1>7. CASE PollFails(x)
  BY <1>1, <1>7 DEF PollFails, GoTo, Reads, Inv, TypeOK, tables, TaskInv, SeenInv,
                    CancelledIsQuiet, DependenciesFirst, LoopAt
<1>8. QED
  BY <1>2, <1>3, <1>4, <1>5, <1>6, <1>7

LEMMA NextInv == Inv /\ [Next]_vars => Inv'
<1> SUFFICES ASSUME Inv, [Next]_vars PROVE Inv'
  OBVIOUS
<1>1. ASSUME NEW c \in Caller, Script(c) PROVE Inv'
  BY <1>1, ScriptStep
<1>2. ASSUME NEW x \in Executor, Host(x) PROVE Inv'
  <2>1. ASSUME NEW n \in Agent, Heartbeat(x, n) PROVE Inv'
    BY <2>1, RowStep DEF Heartbeat, Inv, TypeOK
  <2>2. ASSUME NEW n \in Agent, Answer(x, n) PROVE Inv'
    BY <2>2, ReportStep DEF Answer
  <2>3. QED
    BY <1>2, <2>1, <2>2, PollStep, EndStep DEF Host
<1>3. ASSUME NEW n \in Agent, Expire(n) PROVE Inv'
  BY <1>3, RowStep DEF Expire, Inv, TypeOK, Node
<1>4. CASE UNCHANGED vars
  BY <1>4, RowStep DEF vars, tables, Inv, TypeOK
<1>5. QED
  BY <1>1, <1>2, <1>3, <1>4 DEF Next

\* The invariant holds in every state that can be reached.
LEMMA InvKept == Spec => []Inv
  BY InitInv, NextInv, PTL DEF Spec

\* However many hosts poll the database, a node is executed by one and once.
THEOREM ExecutedOnce == Spec => []OneExecution
<1>1. Inv => OneExecution
  BY DEF Inv, TaskInv, OneExecution
<1>2. QED
  BY <1>1, InvKept, PTL

\* A cancelled workflow stays quiet, whatever poll or claim was under way.
THEOREM CancelHolds == Spec => []CancelledIsQuiet
<1>1. Inv => CancelledIsQuiet
  BY DEF Inv
<1>2. QED
  BY <1>1, InvKept, PTL

\* Dependencies are completed before a node starts, and ever after.
THEOREM OrderOfNodes == Spec => []DependenciesFirst
<1>1. Inv => DependenciesFirst
  BY DEF Inv
<1>2. QED
  BY <1>1, InvKept, PTL

\* What a step does to a node that was completed, or failed because it was stale:
\* nothing.
LEMMA Final ==
    ASSUME Inv, [Next]_vars, NEW n \in Node,
           status[n] = "completed" \/ (status[n] = "failed" /\ owner[n] = NoExecutor)
    PROVE  status'[n] = status[n]
<1> USE WorkflowAssumption
<1>1. CASE UNCHANGED status
  BY <1>1
<1>2. ASSUME NEW m \in Node, NEW D \in SUBSET Node, CreateNode(m, D)
      PROVE  status'[n] = status[n]
  BY <1>2 DEF CreateNode, Inv, TypeOK
<1>3. ASSUME NEW S, NEW to \in NodeStatus, status' = SetStatus(S, to), n \notin S
      PROVE  status'[n] = status[n]
  BY <1>3, StatusSet DEF Inv, TypeOK
<1>4. ASSUME NEW c \in Caller, Script(c) PROVE status'[n] = status[n]
  <2>1. CASE Cancel(c)
    BY <1>3, <2>1 DEF Cancel, NodeStatus
  <2>2. ASSUME NEW R \in SUBSET Node, Remove(c, R) PROVE status'[n] = status[n]
    BY <1>3, <2>2 DEF Remove, NodeStatus
  <2>3. QED
    BY <1>1, <1>2, <1>4, <2>1, <2>2
       DEF Script, AddAgent, AddCheckpoint, AddRow, Continue, Complete, SeePending, Patch,
           SeeRemove, Cascade,
           WaitLook, WaitNodes, WaitSet, tables, Node
<1>5. ASSUME NEW x \in Executor, Host(x) PROVE status'[n] = status[n]
  <2>1. CASE FailStale(x)
    BY <1>3, <2>1 DEF FailStale, NodeStatus
  <2>2. CASE Claim(x)
    BY <1>3, <2>2 DEF Claim, Claims, NodeStatus
  <2>3. ASSUME NEW k \in Check, Reach(x, k) PROVE status'[n] = status[n]
    BY <2>3 DEF Reach, Inv, TypeOK, Node
  <2>4. ASSUME NEW m \in Agent, Answer(x, m) PROVE status'[n] = status[n]
    BY <2>4 DEF Answer, Report, Works, Inv, TypeOK, TaskInv, Node
  <2>5. QED
    BY <1>1, <1>5, <2>1, <2>2, <2>3, <2>4
       DEF Host, Poll, Start, PollFails, Stop, Crash, Heartbeat, Lose, EndTask, SeeStale, Look,
           SeeCheckpoint, SeeNodes, SeeDone, Finish, tables
<1>6. QED
  BY <1>1, <1>4, <1>5 DEF Next, Expire, vars, tables

\* A host that was given up cannot bring its node back.
THEOREM LateReports == Spec => LateReportIgnored
<1>1. Inv /\ [Next]_vars =>
        [\A n \in Node : (status[n] = "failed" /\ owner[n] = NoExecutor)
                            => status'[n] = "failed"]_vars
  BY Final
<1>2. QED
  BY <1>1, InvKept, PTL DEF Spec, LateReportIgnored

\* A completed node stays completed.
THEOREM ResultsKept == Spec => CompletedStays
<1>1. Inv /\ [Next]_vars =>
        [\A n \in Node : status[n] = "completed" => status'[n] = "completed"]_vars
  BY Final
<1>2. QED
  BY <1>1, InvKept, PTL DEF Spec, CompletedStays

=============================================================================
