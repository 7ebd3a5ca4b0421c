------------------------- MODULE TurnManagerProofs -------------------------
(***************************************************************************)
(* The turn supervisor, for every number of calls, threads, tasks and      *)
(* permits.  Inv is inductive: the types need the permits (or a release    *)
(* could exceed MaxTurns) and the queue (or merging its handles could read *)
(* an empty input), and one turn per thread needs the whole of Ownership.  *)
(*                                                                         *)
(* The promises to its callers rest on it.  It implements TurnService:     *)
(* every step of TurnManager is a step of TurnService or changes nothing   *)
(* of what TurnService speaks of, and the order of messages, proved of     *)
(* TurnService, follows.  And it loses no message and leaves nobody        *)
(* waiting: what is merged is carried, what is completed is written, and   *)
(* until aclose every handle has somebody who will finish it; each of      *)
(* these is inductive once Inv is known, with a strengthening of its own.  *)
(***************************************************************************)
EXTENDS TurnManager, FiniteSetTheorems, SequenceTheorems, TLAPS

Inv == TypeOK /\ Ownership /\ PermitsBalance

Holders == {w \in Task : pc[w] \in Engine}

LEMMA InitInv == Init => Inv
<1> SUFFICES ASSUME Init PROVE Inv
  OBVIOUS
<1>1. TypeOK
  BY ConstantsAssumption DEF Init, TypeOK, Status, PC, Record
<1>2. Ownership
  BY ConstantsAssumption DEF Init, Ownership, HandleInv, ActiveInv, TakeoverInv,
       QueueInv, WorkerInv, TaskInv, DetachedInv, Running, Engine
<1>3. PermitsBalance
  <2>1. {w \in Task : pc[w] \in Engine} = {}
    BY DEF Init, Engine
  <2>2. semaphore = MaxTurns
    BY DEF Init
  <2>3. Cardinality({}) = 0
    BY FS_EmptySet
  <2>4. QED
    BY <2>1, <2>2, <2>3, ConstantsAssumption DEF PermitsBalance
<1>4. QED
  BY <1>1, <1>2, <1>3 DEF Inv

-----------------------------------------------------------------------------
(* Types *)

\* _ensure_worker_locked leaves the tasks well typed, and touches only a task
\* that was not there and the worker that is over.
LEMMA EnsureWorkerType ==
    ASSUME TypeOK, NEW t \in Thread, NEW pcs \in [Task -> PC], EnsureWorker(t, pcs)
    PROVE  /\ worker' \in [Thread -> Task \cup {NoTask}]
           /\ pc' \in [Task -> PC]
           /\ wthread' \in [Task -> Thread \cup {NoThread}]
           /\ wreq' \in [Task -> Request \cup {NoRequest}]
<1>1. CASE worker[t] = NoTask \/ pc[worker[t]] = "over"
  <2>1. PICK w \in Task :
          /\ worker' = [worker EXCEPT ![t] = w]
          /\ pc' = [x \in Task |-> IF x = w THEN "new"
                                  ELSE IF x = worker[t] THEN "idle" ELSE pcs[x]]
          /\ wthread' = [wthread EXCEPT ![w] = t]
          /\ wreq' = [x \in Task |-> IF x \in {w, worker[t]} THEN NoRequest ELSE wreq[x]]
    BY <1>1 DEF EnsureWorker
  <2>2. pc' \in [Task -> PC]
    BY <2>1 DEF PC
  <2>3. QED
    BY <2>1, <2>2 DEF TypeOK
<1>2. CASE ~(worker[t] = NoTask \/ pc[worker[t]] = "over")
  BY <1>2 DEF EnsureWorker, TypeOK
<1>3. QED
  BY <1>1, <1>2

LEMMA AbsorbQueueType ==
    ASSUME TypeOK, NEW r \in Request, NEW t \in Thread, QueueInv(t)
    PROVE  [i \in 1 .. Len(queue[t]) |-> Head(inputs[queue[t][i]])] = queue[t]
<1>1. queue[t] \in Seq(Request)
  BY DEF TypeOK
<1>2. ASSUME NEW i \in 1 .. Len(queue[t]) PROVE Head(inputs[queue[t][i]]) = queue[t][i]
  <2> DEFINE x == queue[t][i]
  <2>1. inputs[x] = <<x>>
    BY DEF QueueInv
  <2>2. x \in Request
    BY <1>1
  <2> HIDE DEF x
  <2>3. Head(<<x>>) = x
    BY <2>2
  <2>4. Head(inputs[x]) = x
    BY <2>1, <2>3, Zenon
  <2>5. QED
    BY <2>4 DEF x
<1>3. QED
  BY <1>1, <1>2

LEMMA MergeType ==
    ASSUME TypeOK, NEW r \in Request, NEW t \in Thread, MergeIntoTakeover(r, t)
    PROVE  /\ inputs' \in [Request -> Seq(Request)]
           /\ status' \in [Request -> Status]
           /\ mergedInto' \in [Request -> Request \cup {NoRequest}]
           /\ done' \subseteq Request
<1> USE DEF MergeIntoTakeover, MarkMerged, TypeOK
<1>1. takeover[t] \in Request
  OBVIOUS
<1>2. inputs' \in [Request -> Seq(Request)]
  OBVIOUS
<1>3. status' \in [Request -> Status]
  BY DEF Status
<1>4. mergedInto' \in [Request -> Request \cup {NoRequest}] /\ done' \subseteq Request
  BY <1>1
<1>5. QED
  BY <1>2, <1>3, <1>4

LEMMA SubmitType ==
    ASSUME TypeOK, Ownership, NEW r \in Request, NEW t \in Thread,
           NEW c \in Conflict, SubmitTurn(r, t, c)
    PROVE  TypeOK'
<1>1. pc \in [Task -> PC]
  BY DEF TypeOK
<1>2. CASE SubmitIdle(r, t)
  BY <1>1, <1>2, EnsureWorkerType
     DEF SubmitTurn, SubmitIdle, NewHandle, TypeOK, Status, storeVars, closeVars
<1>3. CASE SubmitReject(r, t, c)
  BY <1>3 DEF SubmitTurn, SubmitReject, TypeOK, Status, threadVars, storeVars,
              closeVars, ghostVars
<1>4. CASE SubmitQueue(r, t, c)
  BY <1>1, <1>4, EnsureWorkerType
     DEF SubmitTurn, SubmitQueue, NewHandle, TypeOK, Status, storeVars, closeVars
<1>5. CASE SubmitJoin(r, t, c)
  BY <1>5, MergeType
     DEF SubmitTurn, SubmitJoin, NewHandle, TypeOK, threadVars, storeVars, closeVars
<1>6. CASE SubmitTakeover(r, t, c)
  <2>1. /\ worker' \in [Thread -> Task \cup {NoTask}]
        /\ pc' \in [Task -> PC]
        /\ wthread' \in [Task -> Thread \cup {NoThread}]
        /\ wreq' \in [Task -> Request \cup {NoRequest}]
    BY <1>1, <1>6, EnsureWorkerType DEF SubmitTakeover
  <2>2. cancelEvent' \subseteq Request /\ guideEvent' \subseteq Request
    BY <1>6 DEF SubmitTakeover, SignalActive, TypeOK
  <2>3. /\ clock' \in Nat /\ ticket' \in [Request -> Nat]
        /\ thread' \in [Request -> Thread \cup {NoThread}]
    BY <1>6 DEF SubmitTakeover, NewHandle, TypeOK
  <2>4. /\ inputs' \in [Request -> Seq(Request)]
        /\ status' \in [Request -> Status]
        /\ mergedInto' \in [Request -> Request \cup {NoRequest}]
        /\ done' \subseteq Request
        /\ queue' \in [Thread -> Seq(Request)]
        /\ takeover' \in [Thread -> Request \cup {NoRequest}]
        /\ takeoverMode' \in [Thread -> {"none", "guide", "interrupt"}]
    <3>1. CASE AbsorbQueue(r, t, c)
      <4>1. inputs' = [inputs EXCEPT ![r] = Append(queue[t], r)]
        BY <3>1, AbsorbQueueType DEF AbsorbQueue, Ownership
      <4>2. {queue[t][i] : i \in 1 .. Len(queue[t])} \subseteq Request
        BY DEF TypeOK
      <4>3. status' \in [Request -> Status] /\ mergedInto' \in [Request -> Request \cup {NoRequest}]
        BY <3>1 DEF AbsorbQueue, MarkMerged, TypeOK, Status
      <4>4. done' \subseteq Request
        BY <3>1, <4>2 DEF AbsorbQueue, MarkMerged, TypeOK
      <4>5. takeoverMode' \in [Thread -> {"none", "guide", "interrupt"}]
        BY <3>1, <1>6 DEF AbsorbQueue, SubmitTakeover, TypeOK
      <4>6. QED
        <5>1. inputs' \in [Request -> Seq(Request)]
          BY <4>1 DEF TypeOK
        <5>2. /\ queue' \in [Thread -> Seq(Request)]
              /\ takeover' \in [Thread -> Request \cup {NoRequest}]
          BY <3>1 DEF AbsorbQueue, TypeOK
        <5>3. QED
          BY <5>1, <5>2, <4>3, <4>4, <4>5
    <3>2. CASE JoinTakeover(r, t, c)
      BY <3>2, <1>6, MergeType DEF JoinTakeover, SubmitTakeover, TypeOK, Conflict
    <3>3. QED
      BY <1>6, <3>1, <3>2 DEF SubmitTakeover
  <2>5. QED
    BY <1>6, <2>1, <2>2, <2>3, <2>4
       DEF SubmitTurn, SubmitTakeover, TypeOK, storeVars, closeVars
<1>7. QED
  BY <1>2, <1>3, <1>4, <1>5, <1>6 DEF SubmitTurn

LEMMA DetachedType ==
    ASSUME TypeOK, NEW r \in Request, SubmitDetached(r)
    PROVE  TypeOK'
  BY DEF SubmitDetached, TypeOK, Status, PC, threadVars, storeVars, closeVars, ghostVars

LEMMA WorkerType ==
    ASSUME TypeOK, Ownership, NEW w \in Task, WorkerStep(w)
    PROVE  TypeOK'
<1> USE DEF TypeOK, WorkerStep, storeVars, ghostVars
<1>1. CASE CancelNew(w) /\ UNCHANGED wthread
  BY <1>1 DEF CancelNew, TaskGone, TaskDone, PC
<1>2. CASE RunDetached(w) /\ UNCHANGED wthread
  BY <1>2 DEF RunDetached, EnterRun, PC, Status
<1>3. CASE Pick(w) /\ UNCHANGED wthread
  <2>1. wthread[w] \in Thread
    BY <1>3 DEF Pick
  <2>2. CASE PickActive(w, wthread[w])
    BY <1>3, <2>1, <2>2 DEF Pick, PickActive, EnterRun, PC, Status
  <2>3. CASE LeaveToOther(w, wthread[w])
    BY <1>3, <2>1, <2>3 DEF Pick, LeaveToOther, TaskDone, PC
  <2>4. CASE PickTakeover(w, wthread[w])
    BY <1>3, <2>1, <2>4 DEF Pick, PickTakeover, EnterRun, PC, Status
  <2>5. CASE PickQueued(w, wthread[w])
    BY <1>3, <2>1, <2>5 DEF Pick, PickQueued, EnterRun, PC, Status
  <2>6. CASE NothingToPick(w, wthread[w])
    BY <1>3, <2>1, <2>6 DEF Pick, NothingToPick, TaskGone, TaskDone, PC
  <2>7. QED
    BY <1>3, <2>2, <2>3, <2>4, <2>5, <2>6 DEF Pick
<1>4. CASE Settle(w)
  <2> DEFINE t == wthread[w]
  <2>1. t \in Thread
    BY <1>4 DEF Settle, Ownership, TaskInv
  <2>2. CASE queue[t] # <<>> \/ takeover[t] # NoRequest
    <3>1. \A x \in PC : [pc EXCEPT ![w] = x] \in [Task -> PC]
      OBVIOUS
    <3>2. EnsureWorker(t, [pc EXCEPT ![w] =
              IF status[wreq[w]] = "cancelled" THEN "over" ELSE "next"])
      BY <1>4, <2>2 DEF Settle
    <3>3. /\ worker' \in [Thread -> Task \cup {NoTask}]
          /\ pc' \in [Task -> PC]
          /\ wthread' \in [Task -> Thread \cup {NoThread}]
          /\ wreq' \in [Task -> Request \cup {NoRequest}]
      BY <2>1, <3>1, <3>2, EnsureWorkerType DEF PC
    <3>4. QED
      BY <1>4, <2>1, <2>2, <3>3 DEF Settle, TaskDone
  <2>3. CASE ~(queue[t] # <<>> \/ takeover[t] # NoRequest)
    BY <1>4, <2>1, <2>3 DEF Settle, TaskGone, TaskDone, PC
  <2>4. QED
    BY <2>2, <2>3
<1>5. QED
  BY <1>1, <1>2, <1>3, <1>4

-----------------------------------------------------------------------------
(* The two kinds of step a turn takes *)

\* It goes on to another place of the engine, with the record that belongs there.
Moves(w, where) ==
    /\ pc[w] \in {"waiting"} \cup Engine
    /\ where \in Engine
    /\ Advance(w, where)
    /\ SetRecord(w, RecordAt[where])
    /\ pc[w] = "waiting" => semaphore > 0
    /\ semaphore' = IF pc[w] = "waiting" THEN semaphore - 1 ELSE semaphore

\* It is over.
Ends(w, outcome, rec) ==
    /\ pc[w] \in {"waiting"} \cup Engine
    /\ EndRun(w, outcome)
    /\ SetRecord(w, rec)

\* What no step of a turn touches.
TurnFrame ==
    UNCHANGED <<inputs, thread, mergedInto, cancelEvent, guideEvent, threadVars,
                wthread, closing, known, ghostVars>>

LEMMA TurnShape ==
    ASSUME TypeOK, Ownership, NEW w \in Task, TurnStep(w)
    PROVE  /\ TurnFrame
           /\ history' \in [Thread -> Seq(Request)]
           /\ \/ \E where \in Engine : Moves(w, where)
              \/ \E outcome \in Terminal, rec \in Record : Ends(w, outcome, rec)
<1>1. TurnFrame
  BY DEF TurnStep, TurnFrame
<1>2. pc[w] \in {"waiting"} \cup Engine =>
        /\ wreq[w] \in Request
        /\ record[wreq[w]] = RecordAt[pc[w]]
        /\ record = [record EXCEPT ![wreq[w]] = record[wreq[w]]]
        /\ record[wreq[w]] \in Record
  BY DEF Ownership, TaskInv, Running, TypeOK
<1>3. \A x \in PC : RecordAt["waiting"] = "none" /\ RecordAt["opening"] = "none"
        /\ RecordAt["prepared"] = "started" /\ RecordAt["rounds"] = "open"
        /\ RecordAt["wrapup"] = "completed"
  BY DEF RecordAt
<1>4. CASE Acquire(w)
  <2>1. Moves(w, "opening")
    BY <1>2, <1>3, <1>4 DEF Acquire, Moves, SetRecord, Engine, storeVars, PC
  <2>2. QED
    BY <1>1, <1>4, <2>1 DEF Acquire, storeVars, TypeOK, Engine
<1>5. CASE Prepare(w)
  <2>1. Moves(w, "prepared")
    BY <1>3, <1>5 DEF Prepare, Moves, SetRecord, Engine, PC
  <2>2. QED
    BY <1>1, <1>5, <2>1 DEF Prepare, TypeOK, Engine
<1>6. CASE BeginRounds(w)
  <2>1. Moves(w, "rounds")
    BY <1>3, <1>6 DEF BeginRounds, Moves, SetRecord, Engine, PC
  <2>2. history' \in [Thread -> Seq(Request)]
    BY <1>2, <1>6 DEF BeginRounds, TypeOK, Engine
  <2>3. QED
    BY <1>1, <2>1, <2>2 DEF Engine
<1>7. CASE Answer(w)
  <2>1. Moves(w, "wrapup")
    BY <1>3, <1>7 DEF Answer, Moves, SetRecord, Engine, PC
  <2>2. QED
    BY <1>1, <1>7, <2>1 DEF Answer, TypeOK, Engine
<1>8. CASE PrepareInterrupted(w) \/ JudgeInterrupted(w) \/ JudgeFails(w)
             \/ Complete(w) \/ WrapupFails(w)
  BY <1>1, <1>2, <1>8 DEF PrepareInterrupted, JudgeInterrupted, JudgeFails, Complete,
       WrapupFails, Ends, SetRecord, Terminal, Engine, storeVars, TypeOK
<1>9. CASE PrepareFails(w) \/ RoundsInterrupted(w) \/ RoundsFail(w)
  BY <1>1, <1>9 DEF PrepareFails, RoundsInterrupted, RoundsFail, Ends, Terminal,
       Engine, Record, TypeOK
<1>10. CASE Cancelled(w)
  BY <1>1, <1>2, <1>10 DEF Cancelled, Ends, SetRecord, Terminal, Engine, Record, TypeOK
<1>11. QED
  BY <1>1, <1>4, <1>5, <1>6, <1>7, <1>8, <1>9, <1>10 DEF TurnStep

-----------------------------------------------------------------------------
(* Permits *)

LEMMA HoldersFinite ==
    ASSUME TypeOK
    PROVE  IsFiniteSet(Holders) /\ Cardinality(Holders) \in Nat
  BY ConstantsAssumption, FS_Subset, FS_CardinalityType DEF Holders

LEMMA PermitsIsHolders == PermitsBalance <=> semaphore + Cardinality(Holders) = MaxTurns
  BY DEF PermitsBalance, Holders

\* A step that nobody enters or leaves the engine by.
LEMMA PermitsKept ==
    ASSUME TypeOK, PermitsBalance, semaphore' = semaphore,
           \A w \in Task : pc'[w] \in Engine <=> pc[w] \in Engine
    PROVE  semaphore' \in 0 .. MaxTurns /\ PermitsBalance'
<1>1. {w \in Task : pc'[w] \in Engine} = {w \in Task : pc[w] \in Engine}
  OBVIOUS
<1>2. QED
  BY <1>1 DEF PermitsBalance, TypeOK

LEMMA PermitsTurn ==
    ASSUME TypeOK, Ownership, PermitsBalance, NEW w \in Task, TurnStep(w)
    PROVE  semaphore' \in 0 .. MaxTurns /\ PermitsBalance'
<1>1. /\ semaphore \in Nat /\ MaxTurns \in Nat
      /\ semaphore + Cardinality(Holders) = MaxTurns
      /\ IsFiniteSet(Holders) /\ Cardinality(Holders) \in Nat
  BY ConstantsAssumption, HoldersFinite, PermitsIsHolders DEF TypeOK
<1>2. ASSUME NEW where \in Engine, Moves(w, where)
      PROVE  semaphore' \in 0 .. MaxTurns /\ PermitsBalance'
  <2>1. pc' = [pc EXCEPT ![w] = where]
    BY <1>2 DEF Moves, Advance
  <2>2. CASE pc[w] = "waiting"
    <3>1. Holders' = Holders \cup {w} /\ w \notin Holders
      BY <1>2, <2>1, <2>2 DEF Holders, TypeOK, Engine
    <3>2. Cardinality(Holders') = Cardinality(Holders) + 1
      BY <1>1, <3>1, FS_AddElement
    <3>3. semaphore > 0 /\ semaphore' = semaphore - 1
      BY <1>2, <2>2 DEF Moves
    <3>4. semaphore' \in Nat /\ semaphore' + Cardinality(Holders') = MaxTurns
      BY <1>1, <3>2, <3>3
    <3>5. QED
      BY <1>1, <3>2, <3>4 DEF PermitsBalance, Holders
  <2>3. CASE pc[w] \in Engine
    BY <1>2, <2>1, <2>3, PermitsKept DEF Moves, TypeOK, Engine
  <2>4. QED
    BY <1>2, <2>2, <2>3 DEF Moves
<1>3. ASSUME NEW outcome \in Terminal, NEW rec \in Record, Ends(w, outcome, rec)
      PROVE  semaphore' \in 0 .. MaxTurns /\ PermitsBalance'
  <2>1. \/ pc' = [pc EXCEPT ![w] = "finished"]
        \/ pc' = [pc EXCEPT ![w] = "idle"]
    BY <1>3 DEF Ends, EndRun, TaskGone
  <2>2. CASE pc[w] = "waiting"
    <3>1. semaphore' = semaphore
      BY <1>3, <2>2 DEF Ends, EndRun, Engine
    <3>2. \A v \in Task : pc'[v] \in Engine <=> pc[v] \in Engine
      BY <2>1, <2>2 DEF TypeOK, Engine
    <3>3. QED
      BY <3>1, <3>2, PermitsKept
  <2>3. CASE pc[w] \in Engine
    <3>1. Holders' = Holders \ {w} /\ w \in Holders
      BY <2>1, <2>3 DEF Holders, TypeOK, Engine
    <3>2. Cardinality(Holders') = Cardinality(Holders) - 1
      BY <1>1, <3>1, FS_RemoveElement
    <3>3. semaphore' = semaphore + 1
      BY <1>3, <2>3 DEF Ends, EndRun
    <3>4. Cardinality(Holders') \in Nat
      BY <1>1, <3>1, FS_RemoveElement, FS_CardinalityType
    <3>5. semaphore' + Cardinality(Holders') = MaxTurns /\ semaphore' \in 0 .. MaxTurns
      BY <1>1, <3>2, <3>3, <3>4
    <3>6. QED
      BY <3>5 DEF PermitsBalance, Holders
  <2>4. QED
    BY <1>3, <2>2, <2>3 DEF Ends
<1>4. QED
  BY <1>2, <1>3, TurnShape

LEMMA TurnType ==
    ASSUME Inv, NEW w \in Task, TurnStep(w)
    PROVE  TypeOK'
<1> USE DEF Inv
<1>1. semaphore' \in 0 .. MaxTurns /\ TurnFrame /\ history' \in [Thread -> Seq(Request)]
  BY PermitsTurn, TurnShape
<1>2. wreq[w] \in Request
  BY TurnShape DEF Moves, Ends, Ownership, TaskInv, Running
<1>3. /\ pc' \in [Task -> PC]
      /\ status' \in [Request -> Status]
      /\ record' \in [Request -> Record]
      /\ wreq' \in [Task -> Request \cup {NoRequest}]
      /\ done' \subseteq Request /\ kill' \subseteq Task /\ awaited' \subseteq Task
  <2>1. CASE \E where \in Engine : Moves(w, where)
    <3>1. PICK where \in Engine : Moves(w, where)
      BY <2>1
    <3>2. RecordAt[where] \in Record
      BY DEF RecordAt, Record, Engine
    <3>3. QED
      BY <3>1, <3>2 DEF Moves, Advance, SetRecord, TypeOK, PC
  <2>2. CASE \E outcome \in Terminal, rec \in Record : Ends(w, outcome, rec)
    <3>1. PICK outcome \in Terminal, rec \in Record : Ends(w, outcome, rec)
      BY <2>2
    <3>2. record' \in [Request -> Record] /\ status' \in [Request -> Status]
      BY <3>1 DEF Ends, EndRun, SetRecord, Terminal, TypeOK, Status
    <3>3. QED
      BY <1>2, <3>1, <3>2 DEF Ends, EndRun, TaskGone, TaskDone, TypeOK, PC
  <2>3. QED
    BY <2>1, <2>2, TurnShape
<1>4. QED
  BY <1>1, <1>3 DEF TypeOK, TurnFrame, threadVars, ghostVars

-----------------------------------------------------------------------------
(* Ownership: steps of a turn *)

\* Two tasks inside _run_handle run different handles.
LEMMA DistinctRuns ==
    ASSUME Ownership, NEW v \in Task, NEW w \in Task, v # w, Running(v), Running(w)
    PROVE  wreq[v] # wreq[w]
<1>1. CASE wthread[w] = NoThread
  BY <1>1 DEF Ownership, TaskInv, DetachedInv, Running, Engine
<1>2. CASE wthread[w] # NoThread
  BY <1>2 DEF Ownership, TaskInv, WorkerInv, Running, Engine
<1>3. QED
  BY <1>1, <1>2

\* A turn changes the status and the record of its own handle only, and its
\* handle stays what it was to its thread.
LEMMA TurnOwnership ==
    ASSUME TypeOK, TypeOK', Ownership, NEW w \in Task, TurnStep(w)
    PROVE  Ownership'
<1> DEFINE h == wreq[w]
<1>1. TurnFrame
  BY TurnShape
<1>2. /\ pc[w] \in {"waiting"} \cup Engine /\ Running(w)
      /\ h \in Request /\ thread[h] = wthread[w] /\ status[h] = "running"
      /\ wthread[w] # NoThread => active[wthread[w]] = h
  <2>1. pc[w] \in {"waiting"} \cup Engine
    BY TurnShape DEF Moves, Ends
  <2>2. QED
    BY <2>1 DEF Ownership, TaskInv, Running
<1>3. /\ \A r \in Request \ {h} : status'[r] = status[r] /\ record'[r] = record[r]
      /\ \A v \in Task \ {w} : pc'[v] = pc[v] /\ wreq'[v] = wreq[v]
      /\ \/ /\ status'[h] = "running"
            /\ pc'[w] \in Engine /\ wreq'[w] = h /\ record'[h] = RecordAt[pc'[w]]
         \/ /\ status'[h] \in Terminal
            /\ \/ wthread[w] # NoThread /\ pc'[w] = "finished" /\ wreq'[w] = h
               \/ wthread[w] = NoThread /\ pc'[w] = "idle"
  <2>1. ASSUME NEW where \in Engine, Moves(w, where) PROVE <1>3!:
    BY <1>2, <2>1 DEF Moves, Advance, SetRecord, TypeOK
  <2>2. ASSUME NEW outcome \in Terminal, NEW rec \in Record, Ends(w, outcome, rec)
        PROVE  <1>3!:
    BY <1>2, <2>2 DEF Ends, EndRun, TaskGone, SetRecord, TypeOK
  <2>3. QED
    BY <2>1, <2>2, TurnShape
<1>4. ASSUME NEW r \in Request PROVE HandleInv(r)'
  <2>1. status'[h] \notin {"new", "rejected", "queued", "merged"}
    BY <1>3 DEF Terminal
  <2>2. thread' = thread /\ ticket' = ticket
    BY <1>1 DEF TurnFrame, ghostVars
  <2>3. QED
    BY <1>3, <2>1, <2>2 DEF Ownership, HandleInv
<1>5. ASSUME NEW t \in Thread PROVE (ActiveInv(t) /\ TakeoverInv(t) /\ QueueInv(t))'
  <2>1. /\ ActiveInv(t) /\ TakeoverInv(t) /\ QueueInv(t)
        /\ thread' = thread /\ inputs' = inputs /\ active' = active
        /\ takeover' = takeover /\ queue' = queue
    BY <1>1 DEF TurnFrame, threadVars, Ownership
  <2>2. ActiveInv(t)'
    BY <1>2, <1>3, <2>1 DEF ActiveInv, Terminal, TypeOK
  <2>3. TakeoverInv(t)'
    BY <1>2, <1>3, <2>1 DEF TakeoverInv, TypeOK
  <2>4. QueueInv(t)'
    <3>1. \A i \in 1 .. Len(queue[t]) : queue[t][i] \in Request
      BY DEF TypeOK
    <3>2. \A i \in 1 .. Len(queue[t]) : status'[queue[t][i]] = "queued"
      BY <1>2, <1>3, <2>1, <3>1 DEF QueueInv
    <3>3. QED
      BY <2>1, <3>2 DEF QueueInv
  <2>5. QED
    BY <2>2, <2>3, <2>4
<1>6. WorkerInv'
  <2>1. wthread' = wthread /\ worker' = worker
    BY <1>1 DEF TurnFrame, threadVars
  <2>2. \A v \in Task : pc'[v] # "idle" => pc[v] # "idle"
    BY <1>2, <1>3 DEF Engine
  <2>3. \A v \in Task : wthread[v] # NoThread /\ pc[v] # "idle" => pc'[v] # "idle"
    BY <1>2, <1>3 DEF Engine
  <2>4. QED
    BY <2>1, <2>2, <2>3, ConstantsAssumption DEF Ownership, WorkerInv, TypeOK
<1>7. ASSUME NEW v \in Task PROVE TaskInv(v)'
  <2>1. wthread' = wthread /\ active' = active /\ thread' = thread
    BY <1>1 DEF TurnFrame, threadVars
  <2>2. CASE v = w
    BY <1>2, <1>3, <2>1, <2>2 DEF TaskInv, Running, Engine, Terminal
  <2>3. CASE v # w
    <3>1. TaskInv(v) /\ pc'[v] = pc[v] /\ wreq'[v] = wreq[v]
      BY <1>3, <2>3 DEF Ownership
    <3>2. CASE Running(v)
      <4>1. wreq[v] \in Request \ {h}
        BY <1>2, <2>3, <3>1, <3>2, DistinctRuns DEF TaskInv
      <4>2. QED
        BY <1>3, <2>1, <3>1, <3>2, <4>1 DEF TaskInv, Running, Engine
    <3>3. CASE ~Running(v)
      BY <1>2, <1>3, <2>1, <3>1, <3>3 DEF TaskInv, Running, Engine
    <3>4. QED
      BY <3>2, <3>3
  <2>4. QED
    BY <2>2, <2>3
<1>8. DetachedInv'
  <2>1. wthread' = wthread
    BY <1>1 DEF TurnFrame
  <2>2. \A v \in Task : pc'[v] # "idle" => pc[v] # "idle" /\ wreq'[v] = wreq[v]
    BY <1>2, <1>3 DEF Engine
  <2>3. QED
    BY <2>1, <2>2 DEF Ownership, DetachedInv
<1>9. QED
  BY <1>4, <1>5, <1>6, <1>7, <1>8 DEF Ownership

-----------------------------------------------------------------------------
(* Ownership: calls *)

\* _ensure_worker_locked replaces nothing but a worker that is over.
LEMMA EnsureWorkerCases ==
    ASSUME TypeOK, Ownership, NEW t \in Thread, EnsureWorker(t, pc)
    PROVE  \/ UNCHANGED <<worker, pc, wthread, wreq>>
           \/ \E n \in Task :
                /\ pc[n] = "idle" /\ pc'[n] = "new"
                /\ wthread'[n] = t
                /\ worker' = [worker EXCEPT ![t] = n]
                /\ \A v \in Task \ {n} : wthread'[v] = wthread[v]
                /\ \A v \in Task \ {n} : wthread[v] = t /\ pc[v] # "idle" => pc'[v] = "idle"
                /\ \A v \in Task \ {n} : pc[v] = "idle" => pc'[v] = "idle"
                /\ \A v \in Task \ {n} : wthread[v] # t =>
                      pc'[v] = pc[v] /\ wreq'[v] = wreq[v]
<1>1. CASE worker[t] = NoTask \/ pc[worker[t]] = "over"
  <2>1. PICK n \in Task :
          /\ pc[n] = "idle"
          /\ worker' = [worker EXCEPT ![t] = n]
          /\ pc' = [x \in Task |-> IF x = n THEN "new"
                                  ELSE IF x = worker[t] THEN "idle" ELSE pc[x]]
          /\ wthread' = [wthread EXCEPT ![n] = t]
          /\ wreq' = [x \in Task |-> IF x \in {n, worker[t]} THEN NoRequest ELSE wreq[x]]
    BY <1>1 DEF EnsureWorker
  <2>2. worker[t] # NoTask => wthread[worker[t]] = t /\ worker[t] \in Task
    BY DEF Ownership, WorkerInv, TypeOK
  <2>3. \A v \in Task : pc[v] # "idle" /\ wthread[v] = t => worker[t] = v
    BY ConstantsAssumption DEF Ownership, WorkerInv
  <2>4. \A v \in Task \ {n} : wthread[v] # t => v # worker[t]
    BY <2>2, ConstantsAssumption
  <2>5. /\ pc'[n] = "new" /\ wthread'[n] = t
        /\ \A v \in Task \ {n} :
             /\ wthread'[v] = wthread[v]
             /\ pc'[v] = IF v = worker[t] THEN "idle" ELSE pc[v]
             /\ v # worker[t] => wreq'[v] = wreq[v]
    BY <2>1 DEF TypeOK
  <2>6. QED
    BY <2>1, <2>3, <2>4, <2>5, ZenonT(60)
<1>2. CASE ~(worker[t] = NoTask \/ pc[worker[t]] = "over")
  BY <1>2 DEF EnsureWorker
<1>3. QED
  BY <1>1, <1>2

\* What a call does to the handles the tasks run: nothing.
HandlesOfTasksKept ==
    /\ record' = record
    /\ \A x \in Request :
          \/ status[x] \in {"running"} \cup Terminal
          \/ status[x] = "queued" /\ thread[x] = NoThread
          => status'[x] = status[x] /\ thread'[x] = thread[x]
    /\ \A u \in Thread : active[u] # NoRequest => active'[u] = active[u]

LEMMA CallKeepsTasks ==
    ASSUME TypeOK, Ownership, HandlesOfTasksKept, NEW t \in Thread,
           EnsureWorker(t, pc) \/ UNCHANGED <<worker, pc, wthread, wreq>>
    PROVE  WorkerInv' /\ (\A w \in Task : TaskInv(w)') /\ DetachedInv'
<1>1. ASSUME NEW w \in Task, pc'[w] = pc[w], wreq'[w] = wreq[w], wthread'[w] = wthread[w]
      PROVE  TaskInv(w)'
  <2>1. TaskInv(w)
    BY DEF Ownership
  <2>2. CASE Running(w)
    <3>1. wreq[w] \in Request /\ status[wreq[w]] \in {"running"} \cup Terminal
      BY <2>1, <2>2 DEF TaskInv, Running
    <3>2. /\ status'[wreq[w]] = status[wreq[w]] /\ thread'[wreq[w]] = thread[wreq[w]]
          /\ record' = record
      BY <3>1 DEF HandlesOfTasksKept
    <3>3. wthread[w] # NoThread => active'[wthread[w]] = active[wthread[w]]
      BY <2>1, <2>2, <3>1, ConstantsAssumption DEF TaskInv, HandlesOfTasksKept, TypeOK
    <3>4. QED
      BY <1>1, <2>1, <2>2, <3>1, <3>2, <3>3 DEF TaskInv, Running, Engine
  <2>3. CASE ~Running(w)
    BY <1>1, <2>1, <2>3 DEF TaskInv, Running, Engine, HandlesOfTasksKept
  <2>4. QED
    BY <2>2, <2>3
<1>2. CASE UNCHANGED <<worker, pc, wthread, wreq>>
  BY <1>1, <1>2 DEF Ownership, WorkerInv, DetachedInv
<1>3. CASE EnsureWorker(t, pc) /\ ~UNCHANGED <<worker, pc, wthread, wreq>>
  <2>1. PICK n \in Task :
          /\ pc[n] = "idle" /\ pc'[n] = "new"
          /\ wthread'[n] = t
          /\ worker' = [worker EXCEPT ![t] = n]
          /\ \A v \in Task \ {n} : wthread'[v] = wthread[v]
          /\ \A v \in Task \ {n} : wthread[v] = t /\ pc[v] # "idle" => pc'[v] = "idle"
          /\ \A v \in Task \ {n} : pc[v] = "idle" => pc'[v] = "idle"
          /\ \A v \in Task \ {n} : wthread[v] # t =>
                pc'[v] = pc[v] /\ wreq'[v] = wreq[v]
    BY <1>3, EnsureWorkerCases
  <2>2. t # NoThread
    BY ConstantsAssumption
  <2>3. WorkerInv'
    <3>1. \A u \in Thread : u # t /\ worker[u] # NoTask =>
            worker[u] \in Task /\ worker[u] # n /\ wthread[worker[u]] = u
              /\ pc[worker[u]] # "idle"
      BY <2>1 DEF Ownership, WorkerInv, TypeOK
    <3>2. \A u \in Thread : worker'[u] # NoTask =>
            pc'[worker'[u]] # "idle" /\ wthread'[worker'[u]] = u
      BY <2>1, <3>1 DEF TypeOK
    <3>3. \A v \in Task : pc'[v] # "idle" /\ wthread'[v] # NoThread =>
            worker'[wthread'[v]] = v
      <4> SUFFICES ASSUME NEW v \in Task, pc'[v] # "idle", wthread'[v] # NoThread
                   PROVE  worker'[wthread'[v]] = v
        OBVIOUS
      <4>1. CASE v = n
        BY <2>1, <4>1 DEF TypeOK
      <4>2. CASE v # n
        <5>1. wthread'[v] = wthread[v] /\ wthread[v] # t /\ pc[v] # "idle"
          BY <2>1, <4>2
        <5>2. worker[wthread[v]] = v /\ wthread[v] \in Thread
          BY <5>1 DEF Ownership, WorkerInv, TypeOK
        <5>3. QED
          BY <2>1, <5>1, <5>2 DEF TypeOK
      <4>3. QED
        BY <4>1, <4>2
    <3>4. QED
      BY <3>2, <3>3 DEF WorkerInv
  <2>4. ASSUME NEW w \in Task PROVE TaskInv(w)'
    <3>1. CASE w = n
      BY <2>1, <2>2, <3>1 DEF TaskInv, Running, Engine
    <3>2. CASE w # n /\ wthread[w] = t
      <4>1. pc'[w] = "idle"
        BY <2>1, <3>2
      <4>2. QED
        BY <4>1 DEF TaskInv, Running, Engine
    <3>3. CASE w # n /\ wthread[w] # t
      BY <1>1, <2>1, <3>3
    <3>4. QED
      BY <3>1, <3>2, <3>3
  <2>5. DetachedInv'
    <3> SUFFICES ASSUME NEW v \in Task, NEW w \in Task, pc'[v] # "idle", pc'[w] # "idle",
                        wthread'[v] = NoThread, wthread'[w] = NoThread,
                        wreq'[v] = wreq'[w]
                 PROVE  v = w
      BY DEF DetachedInv
    <3>1. v # n /\ w # n
      BY <2>1, <2>2
    <3>2. QED
      BY <2>1, <2>2, <3>1 DEF Ownership, DetachedInv
  <2>6. QED
    BY <2>3, <2>4, <2>5
<1>4. QED
  BY <1>2, <1>3

\* A handle that has no thread, a new one in particular, is in no place of one.
LEMMA NoThreadNoPlace ==
    ASSUME TypeOK, Ownership, NEW r \in Request, thread[r] = NoThread, NEW u \in Thread
    PROVE  /\ active[u] # r
           /\ takeover[u] # r
           /\ \A i \in 1 .. Len(queue[u]) : queue[u][i] # r /\ queue[u][i] \in Request
<1>1. ActiveInv(u) /\ TakeoverInv(u) /\ QueueInv(u)
  BY DEF Ownership
<1>2. u # NoThread /\ r # NoRequest
  BY ConstantsAssumption
<1>3. \A i \in 1 .. Len(queue[u]) : queue[u][i] \in Request
  BY DEF TypeOK
<1>4. QED
  BY <1>1, <1>2, <1>3 DEF ActiveInv, TakeoverInv, QueueInv

LEMMA SubmitIdleOwnership ==
    ASSUME TypeOK, Ownership, NEW r \in Request, NEW t \in Thread, NEW c \in Conflict,
           status[r] = "new", UNCHANGED record, SubmitIdle(r, t)
    PROVE  Ownership'
<1> USE DEF SubmitIdle, NewHandle
<1>1. thread[r] = NoThread /\ record[r] = "none"
  BY DEF Ownership, HandleInv
<1>2. HandlesOfTasksKept
  BY <1>1 DEF HandlesOfTasksKept, Busy, Terminal, TypeOK
<1>3. WorkerInv' /\ (\A w \in Task : TaskInv(w)') /\ DetachedInv'
  BY <1>2, CallKeepsTasks
<1>4. ASSUME NEW x \in Request PROVE HandleInv(x)'
  BY <1>1 DEF Ownership, HandleInv, TypeOK
<1>5. ASSUME NEW u \in Thread PROVE (ActiveInv(u) /\ TakeoverInv(u) /\ QueueInv(u))'
  <2>1. /\ active[u] # r /\ takeover[u] # r
        /\ \A i \in 1 .. Len(queue[u]) : queue[u][i] # r /\ queue[u][i] \in Request
    BY <1>1, NoThreadNoPlace
  <2>2. CASE u = t
    BY <2>2, ConstantsAssumption DEF Busy, ActiveInv, TakeoverInv, QueueInv, TypeOK
  <2>3. CASE u # t
    BY <2>1, <2>3, SMTT(60) DEF Ownership, ActiveInv, TakeoverInv, QueueInv, TypeOK
  <2>4. QED
    BY <2>2, <2>3
<1>6. QED
  BY <1>3, <1>4, <1>5 DEF Ownership

LEMMA SubmitRejectOwnership ==
    ASSUME TypeOK, Ownership, NEW r \in Request, NEW t \in Thread, NEW c \in Conflict,
           status[r] = "new", UNCHANGED record, SubmitReject(r, t, c)
    PROVE  Ownership'
<1> USE DEF SubmitReject, threadVars, ghostVars
<1>1. thread[r] = NoThread /\ record[r] = "none"
  BY DEF Ownership, HandleInv
<1>2. HandlesOfTasksKept
  BY <1>1 DEF HandlesOfTasksKept, Terminal, TypeOK
<1>3. WorkerInv' /\ (\A w \in Task : TaskInv(w)') /\ DetachedInv'
  BY <1>2, CallKeepsTasks
<1>4. ASSUME NEW x \in Request PROVE HandleInv(x)'
  BY <1>1 DEF Ownership, HandleInv, TypeOK
<1>5. ASSUME NEW u \in Thread PROVE (ActiveInv(u) /\ TakeoverInv(u) /\ QueueInv(u))'
  <2>1. /\ active[u] # r /\ takeover[u] # r
        /\ \A i \in 1 .. Len(queue[u]) : queue[u][i] # r /\ queue[u][i] \in Request
    BY <1>1, NoThreadNoPlace
  <2>2. QED
    <3>1. ActiveInv(u) /\ TakeoverInv(u) /\ QueueInv(u)
      BY DEF Ownership
    <3>2. \A x \in Request \ {r} : status'[x] = status[x]
      BY DEF TypeOK
    <3>3. ActiveInv(u)' /\ TakeoverInv(u)'
      BY <2>1, <3>1, <3>2 DEF ActiveInv, TakeoverInv, TypeOK
    <3>4. QueueInv(u)'
      BY <2>1, <3>1, <3>2, ZenonT(60) DEF QueueInv
    <3>5. QED
      BY <3>3, <3>4
<1>6. QED
  BY <1>3, <1>4, <1>5 DEF Ownership

LEMMA SubmitQueueOwnership ==
    ASSUME TypeOK, Ownership, NEW r \in Request, NEW t \in Thread, NEW c \in Conflict,
           status[r] = "new", UNCHANGED record, SubmitQueue(r, t, c)
    PROVE  Ownership'
<1> USE DEF SubmitQueue, NewHandle
<1>1. thread[r] = NoThread /\ record[r] = "none"
  BY DEF Ownership, HandleInv
<1>2. HandlesOfTasksKept
  BY <1>1 DEF HandlesOfTasksKept, Terminal, TypeOK
<1>3. WorkerInv' /\ (\A w \in Task : TaskInv(w)') /\ DetachedInv'
  BY <1>2, CallKeepsTasks
<1>4. ASSUME NEW x \in Request PROVE HandleInv(x)'
  BY <1>1 DEF Ownership, HandleInv, TypeOK
<1>5. ASSUME NEW u \in Thread PROVE (ActiveInv(u) /\ TakeoverInv(u) /\ QueueInv(u))'
  <2>1. /\ active[u] # r /\ takeover[u] # r
        /\ \A i \in 1 .. Len(queue[u]) : queue[u][i] # r /\ queue[u][i] \in Request
    BY <1>1, NoThreadNoPlace
  <2>2. ActiveInv(u)' /\ TakeoverInv(u)'
    BY <2>1, SMTT(30) DEF Ownership, ActiveInv, TakeoverInv, TypeOK
  <2>3. QueueInv(u)'
    <3>1. CASE u = t
      <4>1. /\ Len(queue'[t]) = Len(queue[t]) + 1
            /\ \A i \in 1 .. Len(queue[t]) : queue'[t][i] = queue[t][i]
            /\ queue'[t][Len(queue[t]) + 1] = r
            /\ Len(queue[t]) \in Nat
        BY DEF TypeOK
      <4>2. \A i \in 1 .. Len(queue'[t]) :
              i \in 1 .. Len(queue[t]) \/ i = Len(queue[t]) + 1
        BY <4>1
      <4>3. QueueInv(t)
        BY DEF Ownership
      <4>4. QED
        BY <2>1, <3>1, <4>1, <4>2, <4>3, SMTT(60) DEF QueueInv, TypeOK
    <3>2. CASE u # t
      BY <2>1, <3>2, SMTT(60) DEF Ownership, QueueInv, TypeOK
    <3>3. QED
      BY <3>1, <3>2
  <2>4. QED
    BY <2>2, <2>3
<1>6. QED
  BY <1>3, <1>4, <1>5 DEF Ownership

LEMMA AppendNotEmpty ==
    ASSUME NEW S, NEW s \in Seq(S), NEW e \in S
    PROVE  Append(s, e) # <<>>
<1>1. Len(Append(s, e)) = Len(s) + 1 /\ Len(s) \in Nat
  OBVIOUS
<1>2. Append(s, e) = <<>> => Len(Append(s, e)) = 0
  OBVIOUS
<1>3. QED
  BY <1>1, <1>2

\* A merged message lengthens the input of the takeover and nothing else.
LEMMA MergeOwnership ==
    ASSUME TypeOK, Ownership, NEW r \in Request, NEW t \in Thread,
           status[r] = "new", MergeIntoTakeover(r, t), NewHandle(r, t),
           UNCHANGED <<record, active, queue, takeover>>,
           EnsureWorker(t, pc) \/ UNCHANGED <<worker, pc, wthread, wreq>>
    PROVE  Ownership'
<1> USE DEF MergeIntoTakeover, NewHandle
<1>1. thread[r] = NoThread /\ record[r] = "none"
  BY DEF Ownership, HandleInv
<1>2. HandlesOfTasksKept
  BY <1>1 DEF HandlesOfTasksKept, Terminal, TypeOK
<1>3. WorkerInv' /\ (\A w \in Task : TaskInv(w)') /\ DetachedInv'
  BY <1>2, CallKeepsTasks
<1>4. ASSUME NEW x \in Request PROVE HandleInv(x)'
  BY <1>1 DEF Ownership, HandleInv, TypeOK
<1>5. ASSUME NEW u \in Thread PROVE (ActiveInv(u) /\ TakeoverInv(u) /\ QueueInv(u))'
  <2>1. /\ active[u] # r /\ takeover[u] # r
        /\ \A i \in 1 .. Len(queue[u]) : queue[u][i] # r /\ queue[u][i] \in Request
    BY <1>1, NoThreadNoPlace
  <2>2. ActiveInv(u) /\ TakeoverInv(u) /\ QueueInv(u) /\ TakeoverInv(t)
    BY DEF Ownership
  <2>3. active[u] # NoRequest => active[u] # takeover[t]
    BY <2>2 DEF ActiveInv, TakeoverInv
  <2>4. \A i \in 1 .. Len(queue[u]) : queue[u][i] # takeover[t]
    <3>1. \A i \in 1 .. Len(queue[u]) : queue[u][i] = takeover[t] => u = t
      BY <2>1, <2>2, ConstantsAssumption DEF QueueInv, TakeoverInv
    <3>2. queue[t] = <<>>
      BY <2>2 DEF TakeoverInv
    <3>3. QED
      BY <3>1, <3>2
  <2>5. ActiveInv(u)'
    BY <2>1, <2>2, <2>3 DEF ActiveInv, TypeOK
  <2>6. TakeoverInv(u)'
    <3>1. \A x \in Request : inputs[x] # <<>> => inputs'[x] # <<>>
      <4> SUFFICES ASSUME NEW x \in Request, inputs[x] # <<>> PROVE inputs'[x] # <<>>
        OBVIOUS
      <4>1. inputs[x] \in Seq(Request)
        BY DEF TypeOK
      <4>2. Append(inputs[x], r) # <<>> /\ <<r>> # <<>>
        BY <4>1, AppendNotEmpty
      <4>3. inputs'[x] \in {<<r>>, Append(inputs[x], r), inputs[x]}
        OBVIOUS
      <4>4. QED
        BY <4>2, <4>3
    <3>2. QED
      BY <2>1, <2>2, <3>1 DEF TakeoverInv, TypeOK
  <2>7. QueueInv(u)'
    BY <2>1, <2>2, <2>4 DEF QueueInv, TypeOK
  <2>8. QED
    BY <2>5, <2>6, <2>7
<1>6. QED
  BY <1>3, <1>4, <1>5 DEF Ownership

\* The queue becomes the input of a new takeover; its handles leave the thread.
LEMMA AbsorbOwnership ==
    ASSUME TypeOK, Ownership, NEW r \in Request, NEW t \in Thread, NEW c \in Conflict,
           status[r] = "new", AbsorbQueue(r, t, c), NewHandle(r, t),
           UNCHANGED <<record, active>>, EnsureWorker(t, pc)
    PROVE  Ownership'
<1> USE DEF AbsorbQueue, NewHandle
<1> DEFINE pending == {queue[t][i] : i \in 1 .. Len(queue[t])}
<1>1. thread[r] = NoThread /\ record[r] = "none"
  BY DEF Ownership, HandleInv
<1>2. /\ inputs' = [inputs EXCEPT ![r] = Append(queue[t], r)]
      /\ inputs'[r] # <<>>
      /\ \A x \in Request \ {r} : inputs'[x] = inputs[x]
  <2>1. inputs' = [inputs EXCEPT ![r] = Append(queue[t], r)]
    BY AbsorbQueueType DEF Ownership
  <2>2. inputs'[r] = Append(queue[t], r) /\ Append(queue[t], r) # <<>>
    <3>1. queue[t] \in Seq(Request)
      BY DEF TypeOK
    <3>2. Append(queue[t], r) # <<>>
      BY <3>1, AppendNotEmpty
    <3>3. inputs'[r] = Append(queue[t], r)
      BY <2>1 DEF TypeOK
    <3>4. QED
      BY <3>2, <3>3
  <2>3. \A x \in Request \ {r} : inputs'[x] = inputs[x]
    BY <2>1 DEF TypeOK
  <2>4. QED
    BY <2>1, <2>2, <2>3
<1>3. /\ \A x \in pending : x \in Request /\ status[x] = "queued" /\ thread[x] = t
      /\ \A x \in pending : x # active[t]
  BY SMTT(30) DEF Ownership, QueueInv, TypeOK
<1>4. \A x \in Request : status'[x] = IF x = r THEN "queued"
                                      ELSE IF x \in pending THEN "merged" ELSE status[x]
  OBVIOUS
<1>5. HandlesOfTasksKept
  <2>1. \A x \in Request \ {r} : thread'[x] = thread[x]
    BY DEF TypeOK
  <2>2. t # NoThread
    BY ConstantsAssumption
  <2> HIDE DEF pending, AbsorbQueue
  <2>3. QED
    BY <1>3, <1>4, <2>1, <2>2 DEF HandlesOfTasksKept, Terminal
<1>6. WorkerInv' /\ (\A w \in Task : TaskInv(w)') /\ DetachedInv'
  BY <1>5, CallKeepsTasks
<1>7. ASSUME NEW x \in Request PROVE HandleInv(x)'
  <2> HIDE DEF pending, AbsorbQueue
  <2>1. QED
    BY <1>1, <1>3, <1>4 DEF Ownership, HandleInv, TypeOK
<1>8. ASSUME NEW u \in Thread PROVE (ActiveInv(u) /\ TakeoverInv(u) /\ QueueInv(u))'
  <2>1. /\ active[u] # r /\ takeover[u] # r
        /\ \A i \in 1 .. Len(queue[u]) : queue[u][i] # r /\ queue[u][i] \in Request
    BY <1>1, NoThreadNoPlace
  <2>2. ActiveInv(u) /\ TakeoverInv(u) /\ QueueInv(u)
    BY DEF Ownership
  <2>3. active[u] # NoRequest => active[u] \in Request \ pending
    <3> HIDE DEF pending, AbsorbQueue
    <3>1. QED
      BY <1>3, <2>2 DEF ActiveInv, TypeOK
  <2>4. /\ takeover' = [takeover EXCEPT ![t] = r] /\ queue' = [queue EXCEPT ![t] = <<>>]
        /\ thread' = [thread EXCEPT ![r] = t] /\ active' = active
    OBVIOUS
  <2>5. ActiveInv(u)'
    <3> HIDE DEF pending, AbsorbQueue
    <3>1. QED
      BY <1>2, <1>4, <2>1, <2>2, <2>3, <2>4 DEF ActiveInv, TypeOK
  <2>6. CASE u = t
    <3>1. TakeoverInv(t)'
      BY <1>2, <1>4, <2>1, <2>4, <2>6 DEF TakeoverInv, TypeOK
    <3>2. QueueInv(t)'
      BY <2>4 DEF QueueInv, TypeOK
    <3>3. QED
      BY <2>5, <2>6, <3>1, <3>2
  <2>7. CASE u # t
    <3> HIDE DEF pending, AbsorbQueue
    <3>1. /\ takeover[u] # NoRequest => takeover[u] \in Request \ pending
          /\ \A i \in 1 .. Len(queue[u]) : queue[u][i] \in Request \ pending
      BY <1>3, <2>1, <2>2, <2>7 DEF TakeoverInv, QueueInv, TypeOK
    <3>2. takeover'[u] = takeover[u] /\ queue'[u] = queue[u]
      BY <2>4, <2>7 DEF TypeOK
    <3>a. \A x \in Request \ pending : x # r =>
            status'[x] = status[x] /\ inputs'[x] = inputs[x] /\ thread'[x] = thread[x]
      BY <1>2, <1>4, <2>4 DEF TypeOK
    <3>3. TakeoverInv(u)'
      BY <2>1, <2>2, <2>4, <3>1, <3>2, <3>a DEF TakeoverInv
    <3>4. QueueInv(u)'
      <4> SUFFICES ASSUME NEW i \in 1 .. Len(queue[u]) PROVE QueueInv(u)!(i)'
        BY <3>2 DEF QueueInv
      <4> DEFINE x == queue[u][i]
      <4>1. /\ thread[x] = u /\ status[x] = "queued" /\ inputs[x] = <<x>>
            /\ x # active[u]
            /\ \A j \in 1 .. Len(queue[u]) : x = queue[u][j] => i = j
        BY <2>2 DEF QueueInv
      <4>2. x \in Request /\ x \notin pending /\ x # r
        BY <2>1, <2>2, <3>1, <4>1
      <4> HIDE DEF x
      <4>3. status'[x] = status[x] /\ inputs'[x] = inputs[x] /\ thread'[x] = thread[x]
        BY <3>a, <4>2
      <4>4. /\ thread'[x] = u /\ status'[x] = "queued" /\ inputs'[x] = <<x>>
            /\ x # active'[u]
        BY <2>4, <4>1, <4>3
      <4>5. QED
        BY <3>2, <4>1, <4>4 DEF x
    <3>5. QED
      BY <2>5, <3>3, <3>4
  <2>8. QED
    BY <2>6, <2>7
<1>9. QED
  BY <1>6, <1>7, <1>8 DEF Ownership

LEMMA SubmitOwnership ==
    ASSUME TypeOK, Ownership, NEW r \in Request, NEW t \in Thread, NEW c \in Conflict,
           SubmitTurn(r, t, c)
    PROVE  Ownership'
<1>1. status[r] = "new" /\ UNCHANGED record
  BY DEF SubmitTurn, storeVars
<1>2. CASE SubmitIdle(r, t)
  BY <1>1, <1>2, SubmitIdleOwnership
<1>3. CASE SubmitReject(r, t, c)
  BY <1>1, <1>3, SubmitRejectOwnership
<1>4. CASE SubmitQueue(r, t, c)
  BY <1>1, <1>4, SubmitQueueOwnership
<1>5. CASE SubmitJoin(r, t, c)
  BY <1>1, <1>5, MergeOwnership DEF SubmitJoin, threadVars
<1>6. CASE SubmitTakeover(r, t, c) /\ AbsorbQueue(r, t, c)
  BY <1>1, <1>6, AbsorbOwnership DEF SubmitTakeover
<1>7. CASE SubmitTakeover(r, t, c) /\ JoinTakeover(r, t, c)
  BY <1>1, <1>7, MergeOwnership DEF SubmitTakeover, JoinTakeover
<1>8. QED
  BY <1>2, <1>3, <1>4, <1>5, <1>6, <1>7 DEF SubmitTurn, SubmitTakeover

LEMMA DetachedOwnership ==
    ASSUME TypeOK, Ownership, NEW r \in Request, SubmitDetached(r)
    PROVE  Ownership'
<1> USE DEF SubmitDetached, threadVars, storeVars, ghostVars
<1>1. /\ status[r] = "new" /\ thread[r] = NoThread /\ record[r] = "none"
      /\ status'[r] = "queued" /\ inputs'[r] = <<r>>
      /\ \A x \in Request \ {r} : status'[x] = status[x] /\ inputs'[x] = inputs[x]
  BY DEF Ownership, HandleInv, TypeOK
<1>2. PICK n \in Task :
        /\ pc[n] = "idle"
        /\ pc' = [pc EXCEPT ![n] = "new"]
        /\ wthread' = [wthread EXCEPT ![n] = NoThread]
        /\ wreq' = [wreq EXCEPT ![n] = r]
  OBVIOUS
<1>3. ASSUME NEW x \in Request PROVE HandleInv(x)'
  BY <1>1 DEF Ownership, HandleInv
<1>4. ASSUME NEW u \in Thread PROVE (ActiveInv(u) /\ TakeoverInv(u) /\ QueueInv(u))'
  <2>1. /\ active[u] # r /\ takeover[u] # r
        /\ \A i \in 1 .. Len(queue[u]) : queue[u][i] # r /\ queue[u][i] \in Request
    BY <1>1, NoThreadNoPlace
  <2>2. ActiveInv(u) /\ TakeoverInv(u) /\ QueueInv(u)
    BY DEF Ownership
  <2>3. ActiveInv(u)' /\ TakeoverInv(u)'
    BY <1>1, <2>1, <2>2 DEF ActiveInv, TakeoverInv, TypeOK
  <2>4. QueueInv(u)'
    <3> SUFFICES ASSUME NEW i \in 1 .. Len(queue[u]) PROVE QueueInv(u)!(i)'
      BY DEF QueueInv
    <3>1. queue' = queue /\ active' = active /\ thread' = thread
      OBVIOUS
    <3>2. queue[u][i] \in Request \ {r}
      BY <2>1
    <3>3. /\ status'[queue[u][i]] = status[queue[u][i]]
          /\ inputs'[queue[u][i]] = inputs[queue[u][i]]
      BY <1>1, <3>2
    <3> HIDE DEF SubmitDetached
    <3>4. QED
      BY <2>2, <3>1, <3>3 DEF QueueInv
  <2>5. QED
    BY <2>3, <2>4
<1>5. WorkerInv'
  <2>1. \A u \in Thread : worker[u] # NoTask => worker[u] \in Task \ {n}
    BY <1>2 DEF Ownership, WorkerInv, TypeOK
  <2>2. QED
    BY <1>2, <2>1 DEF Ownership, WorkerInv, TypeOK
<1>6. ASSUME NEW w \in Task PROVE TaskInv(w)'
  <2>1. CASE w = n
    BY <1>1, <1>2, <2>1 DEF TaskInv, Running, Engine, TypeOK
  <2>2. CASE w # n
    <3>1. /\ TaskInv(w)
          /\ pc'[w] = pc[w] /\ wreq'[w] = wreq[w] /\ wthread'[w] = wthread[w]
      BY <1>2, <2>2 DEF Ownership, TypeOK
    <3>2. CASE Running(w)
      <4>1. wreq[w] \in Request \ {r}
        BY <1>1, <3>1, <3>2 DEF TaskInv, Running, Terminal
      <4>2. QED
        BY <1>1, <3>1, <3>2, <4>1 DEF TaskInv, Running
    <3>3. CASE ~Running(w)
      BY <1>1, <3>1, <3>3 DEF TaskInv, Running, Engine
    <3>4. QED
      BY <3>2, <3>3
  <2>3. QED
    BY <2>1, <2>2
<1>7. DetachedInv'
  <2>1. \A w \in Task : pc[w] # "idle" /\ wthread[w] = NoThread => wreq[w] # r
    BY <1>1 DEF Ownership, TaskInv, Running, Engine, Terminal, TypeOK, PC
  <2>2. QED
    BY <1>2, <2>1 DEF Ownership, DetachedInv, TypeOK
<1>8. QED
  BY <1>3, <1>4, <1>5, <1>6, <1>7 DEF Ownership

-----------------------------------------------------------------------------
(* Ownership: steps of the worker *)

\* A step of w that changes no status but that of a handle nobody else runs, and
\* no task but w, and leaves w with a handle or without one.
LEMMA StepKeepsTasks ==
    ASSUME TypeOK, Ownership, NEW w \in Task,
           thread' = thread, record' = record, wthread' = wthread,
           \A v \in Task \ {w} : pc'[v] = pc[v] /\ wreq'[v] = wreq[v],
           \A x \in Request : status[x] # "queued" => status'[x] = status[x],
           \A v \in Task \ {w} : pc[v] = "new" /\ wthread[v] = NoThread =>
               status'[wreq[v]] = status[wreq[v]],
           \A u \in Thread \ {wthread[w]} : active'[u] = active[u],
           \/ worker' = worker /\ (wthread[w] # NoThread => pc'[w] # "idle")
           \/ /\ pc'[w] = "idle" /\ wthread[w] \in Thread
              /\ worker' = [worker EXCEPT ![wthread[w]] = NoTask],
           pc[w] # "idle",
           wthread[w] = NoThread => pc'[w] = "idle" \/ wreq'[w] = wreq[w]
    PROVE  WorkerInv' /\ (\A v \in Task \ {w} : TaskInv(v)') /\ DetachedInv'
<1>1. ASSUME NEW v \in Task \ {w} PROVE TaskInv(v)'
  <2>1. TaskInv(v) /\ pc'[v] = pc[v] /\ wreq'[v] = wreq[v]
    BY DEF Ownership
  <2>2. CASE Running(v)
    <3>1. wreq[v] \in Request /\ status[wreq[v]] # "queued"
      BY <2>1, <2>2 DEF TaskInv, Running, Terminal
    <3>2. wthread[v] # NoThread => wthread[v] # wthread[w] /\ wthread[v] \in Thread
      BY <2>2 DEF Ownership, WorkerInv, Running, Engine, TypeOK
    <3>3. wthread[v] # NoThread => active'[wthread[v]] = active[wthread[v]]
      BY <3>2
    <3>4. QED
      BY <2>1, <2>2, <3>1, <3>3 DEF TaskInv, Running
  <2>3. CASE ~Running(v)
    BY <2>1, <2>3 DEF TaskInv, Running, Engine
  <2>4. QED
    BY <2>2, <2>3
<1>2. WorkerInv'
  <2>1. CASE worker' = worker /\ (wthread[w] # NoThread => pc'[w] # "idle")
    <3>1. \A u \in Thread : worker'[u] # NoTask =>
            pc'[worker'[u]] # "idle" /\ wthread'[worker'[u]] = u
      BY <2>1, ConstantsAssumption DEF Ownership, WorkerInv, TypeOK
    <3>2. \A v \in Task : pc'[v] # "idle" /\ wthread'[v] # NoThread =>
            worker'[wthread'[v]] = v
      BY <2>1 DEF Ownership, WorkerInv
    <3>3. QED
      BY <3>1, <3>2 DEF WorkerInv
  <2>2. CASE /\ pc'[w] = "idle" /\ wthread[w] \in Thread
             /\ worker' = [worker EXCEPT ![wthread[w]] = NoTask]
    <3>1. \A u \in Thread : worker'[u] # NoTask =>
            worker'[u] = worker[u] /\ worker[u] \in Task \ {w}
      BY <2>2 DEF Ownership, WorkerInv, TypeOK
    <3>2. \A v \in Task \ {w} : pc[v] # "idle" /\ wthread[v] # NoThread =>
            wthread[v] # wthread[w] /\ wthread[v] \in Thread
      BY DEF Ownership, WorkerInv, TypeOK
    <3>3. \A u \in Thread : worker'[u] # NoTask =>
            pc'[worker'[u]] # "idle" /\ wthread'[worker'[u]] = u
      BY <3>1 DEF Ownership, WorkerInv
    <3>4. \A v \in Task : pc'[v] # "idle" /\ wthread'[v] # NoThread =>
            worker'[wthread'[v]] = v
      BY <2>2, <3>2 DEF Ownership, WorkerInv, TypeOK
    <3>5. QED
      BY <3>3, <3>4 DEF WorkerInv
  <2>3. QED
    BY <2>1, <2>2
<1>3. DetachedInv'
  BY DEF Ownership, DetachedInv
<1>4. QED
  BY <1>1, <1>2, <1>3

\* What no step of a worker touches.
WorkerFrame == UNCHANGED <<inputs, thread, record, ticket>>

\* A step of a worker that leaves the handles and their places alone.
LEMMA PlacesKept ==
    ASSUME TypeOK, Ownership, WorkerFrame, UNCHANGED <<status, active, queue, takeover>>
    PROVE  /\ \A r \in Request : HandleInv(r)'
           /\ \A t \in Thread : (ActiveInv(t) /\ TakeoverInv(t) /\ QueueInv(t))'
  BY SMTT(30) DEF WorkerFrame, Ownership, HandleInv, ActiveInv, TakeoverInv, QueueInv

\* A queued handle that starts to run.
LEMMA HandlesStart ==
    ASSUME TypeOK, Ownership, WorkerFrame, NEW h \in Request, status[h] = "queued",
           status' = [status EXCEPT ![h] = "running"]
    PROVE  \A r \in Request : HandleInv(r)'
  BY DEF WorkerFrame, Ownership, HandleInv, TypeOK

LEMMA CancelNewOwnership ==
    ASSUME TypeOK, Ownership, NEW w \in Task, WorkerFrame, UNCHANGED wthread, CancelNew(w)
    PROVE  Ownership'
<1> USE DEF CancelNew, WorkerFrame, TaskGone
<1>1. /\ \A r \in Request : HandleInv(r)'
      /\ \A t \in Thread : (ActiveInv(t) /\ TakeoverInv(t) /\ QueueInv(t))'
  BY PlacesKept
<1>2. /\ \A v \in Task \ {w} : pc'[v] = pc[v] /\ wreq'[v] = wreq[v]
      /\ \/ wthread[w] = NoThread /\ pc'[w] = "idle"
         \/ wthread[w] # NoThread /\ pc'[w] = "over"
  BY DEF TypeOK
<1>3. WorkerInv' /\ (\A v \in Task \ {w} : TaskInv(v)') /\ DetachedInv'
  BY <1>2, StepKeepsTasks
<1>4. TaskInv(w)'
  BY <1>2 DEF TaskInv, Running, Engine
<1>5. QED
  BY <1>1, <1>3, <1>4 DEF Ownership

LEMMA RunDetachedOwnership ==
    ASSUME TypeOK, Ownership, NEW w \in Task, WorkerFrame, UNCHANGED wthread, RunDetached(w)
    PROVE  Ownership'
<1> DEFINE h == wreq[w]
<1>1. /\ pc[w] = "new" /\ wthread[w] = NoThread /\ WorkerFrame
      /\ UNCHANGED <<active, queue, takeover, worker, wthread>>
      /\ status' = [status EXCEPT ![h] = "running"]
      /\ pc' = [pc EXCEPT ![w] = "waiting"]
      /\ wreq' = [wreq EXCEPT ![w] = h]
  BY DEF RunDetached, EnterRun
<1>2. h \in Request /\ thread[h] = NoThread /\ status[h] = "queued" /\ record[h] = "none"
  BY <1>1 DEF Ownership, TaskInv, HandleInv
<1>3. \A r \in Request : HandleInv(r)'
  BY <1>1, <1>2, HandlesStart
<1>4. ASSUME NEW u \in Thread PROVE (ActiveInv(u) /\ TakeoverInv(u) /\ QueueInv(u))'
  <2>1. /\ active[u] # h /\ takeover[u] # h
        /\ \A i \in 1 .. Len(queue[u]) : queue[u][i] # h /\ queue[u][i] \in Request
    BY <1>2, NoThreadNoPlace
  <2>2. ActiveInv(u) /\ TakeoverInv(u) /\ QueueInv(u)
    BY DEF Ownership
  <2>3. \A x \in Request \ {h} : status'[x] = status[x]
    BY <1>1 DEF TypeOK
  <2>4. ActiveInv(u)' /\ TakeoverInv(u)'
    BY <1>1, <2>1, <2>2, <2>3 DEF ActiveInv, TakeoverInv, TypeOK, WorkerFrame
  <2>5. QueueInv(u)'
    <3> SUFFICES ASSUME NEW i \in 1 .. Len(queue[u]) PROVE QueueInv(u)!(i)'
      BY <1>1 DEF QueueInv
    <3>1. QED
      BY <1>1, <2>1, <2>2, <2>3 DEF QueueInv, WorkerFrame
  <2>6. QED
    BY <2>4, <2>5
<1>5. \A v \in Task \ {w} : pc[v] = "new" /\ wthread[v] = NoThread =>
        wreq[v] \in Request \ {h}
  BY <1>1 DEF Ownership, TaskInv, DetachedInv
<1>6. WorkerInv' /\ (\A v \in Task \ {w} : TaskInv(v)') /\ DetachedInv'
  <2>1. \A v \in Task \ {w} : pc'[v] = pc[v] /\ wreq'[v] = wreq[v]
    BY <1>1 DEF TypeOK
  <2>2. \A x \in Request \ {h} : status'[x] = status[x]
    BY <1>1 DEF TypeOK
  <2>3. wreq'[w] = wreq[w]
    BY <1>1 DEF TypeOK
  <2>4. QED
    BY <1>1, <1>2, <1>5, <2>1, <2>2, <2>3, StepKeepsTasks DEF WorkerFrame
<1>7. TaskInv(w)'
  BY <1>1, <1>2 DEF TaskInv, Running, Engine, RecordAt, WorkerFrame, TypeOK
<1>8. QED
  BY <1>3, <1>4, <1>6, <1>7 DEF Ownership

\* The worker w of t picks up h, which was active or becomes so.
PicksUp(w, t, h) ==
    /\ pc[w] \in {"new", "next"} /\ wthread[w] = t
    /\ h \in Request /\ status[h] = "queued" /\ thread[h] = t
    /\ active[t] \in {h, NoRequest}
    /\ active' = [active EXCEPT ![t] = h]
    /\ status' = [status EXCEPT ![h] = "running"]
    /\ pc' = [pc EXCEPT ![w] = "waiting"]
    /\ wreq' = [wreq EXCEPT ![w] = h]
    /\ UNCHANGED <<worker, wthread>>

LEMMA PicksUpKeepsTasks ==
    ASSUME TypeOK, Ownership, WorkerFrame, NEW w \in Task, NEW t \in Thread,
           NEW h \in Request, PicksUp(w, t, h)
    PROVE  /\ \A r \in Request : HandleInv(r)'
           /\ WorkerInv' /\ (\A v \in Task : TaskInv(v)') /\ DetachedInv'
<1> USE DEF PicksUp
<1>1. \A r \in Request : HandleInv(r)'
  BY HandlesStart
<1>2. record[h] = "none" /\ t # NoThread
  BY ConstantsAssumption DEF Ownership, HandleInv
<1>3. \A v \in Task : pc[v] = "new" /\ wthread[v] = NoThread =>
        wreq[v] \in Request \ {h}
  BY <1>2 DEF Ownership, TaskInv
<1>4. WorkerInv' /\ (\A v \in Task \ {w} : TaskInv(v)') /\ DetachedInv'
  <2>1. \A v \in Task \ {w} : pc'[v] = pc[v] /\ wreq'[v] = wreq[v]
    BY DEF TypeOK
  <2>2. \A x \in Request \ {h} : status'[x] = status[x]
    BY DEF TypeOK
  <2>3. pc'[w] # "idle" /\ \A u \in Thread \ {t} : active'[u] = active[u]
    BY DEF TypeOK
  <2>4. QED
    BY <1>2, <1>3, <2>1, <2>2, <2>3, StepKeepsTasks DEF WorkerFrame
<1>5. TaskInv(w)'
  BY <1>2 DEF TaskInv, Running, Engine, RecordAt, WorkerFrame, TypeOK
<1>6. QED
  BY <1>1, <1>4, <1>5

\* A handle of one thread is in no place of another.
LEMMA OwnThreadOnly ==
    ASSUME TypeOK, Ownership, NEW h \in Request, NEW t \in Thread, thread[h] = t,
           NEW u \in Thread, u # t
    PROVE  /\ active[u] # h
           /\ takeover[u] # h
           /\ \A i \in 1 .. Len(queue[u]) : queue[u][i] \in Request \ {h}
<1>1. ActiveInv(u) /\ TakeoverInv(u) /\ QueueInv(u)
  BY DEF Ownership
<1>2. h # NoRequest
  BY ConstantsAssumption
<1>3. \A i \in 1 .. Len(queue[u]) : queue[u][i] \in Request
  BY DEF TypeOK
<1>4. QED
  BY <1>1, <1>2, <1>3 DEF ActiveInv, TakeoverInv, QueueInv

\* The active handle of a thread is not in its queue.
LEMMA ActiveNotQueued ==
    ASSUME TypeOK, Ownership, NEW t \in Thread
    PROVE  \A i \in 1 .. Len(queue[t]) : queue[t][i] \in Request \ {active[t]}
<1>1. QueueInv(t)
  BY DEF Ownership
<1>2. \A i \in 1 .. Len(queue[t]) : queue[t][i] \in Request
  BY DEF TypeOK
<1>3. QED
  BY <1>1, <1>2 DEF QueueInv

LEMMA PickOwnership ==
    ASSUME TypeOK, Ownership, NEW w \in Task, WorkerFrame, UNCHANGED wthread, Pick(w)
    PROVE  Ownership'
<1> DEFINE t == wthread[w]
<1>1. t \in Thread /\ pc[w] \in {"new", "next"}
  BY DEF Pick, TypeOK
<1>2. ActiveInv(t) /\ TakeoverInv(t) /\ QueueInv(t)
  BY <1>1 DEF Ownership
<1>3. CASE PickActive(w, t)
  <2> DEFINE h == active[t]
  <2>1. h \in Request /\ PicksUp(w, t, h)
    BY <1>1, <1>2, <1>3 DEF PickActive, EnterRun, PicksUp, ActiveInv, TypeOK
  <2>2. ASSUME NEW u \in Thread PROVE (ActiveInv(u) /\ TakeoverInv(u) /\ QueueInv(u))'
    <3>1. /\ UNCHANGED <<active, queue, takeover, thread, inputs>>
          /\ \A x \in Request \ {h} : status'[x] = status[x]
          /\ status'[h] = "running"
      BY <1>3, <2>1 DEF PickActive, PicksUp, WorkerFrame, TypeOK
    <3>2. ActiveInv(u) /\ TakeoverInv(u) /\ QueueInv(u)
      BY DEF Ownership
    <3>3. ActiveInv(u)'
      BY <3>1, <3>2 DEF ActiveInv, TypeOK
    <3>4. takeover[u] # NoRequest => takeover[u] \in Request \ {h}
      BY <1>2, <2>1, <3>2 DEF TakeoverInv, ActiveInv, TypeOK
    <3>5. \A i \in 1 .. Len(queue[u]) : queue[u][i] \in Request \ {h}
      BY <1>1, <2>1, ActiveNotQueued, OwnThreadOnly DEF PicksUp
    <3>6. TakeoverInv(u)' /\ QueueInv(u)'
      BY <3>1, <3>2, <3>4, <3>5, ZenonT(60) DEF TakeoverInv, QueueInv
    <3>7. QED
      BY <3>3, <3>6
  <2>3. QED
    BY <1>1, <2>1, <2>2, PicksUpKeepsTasks DEF Ownership
<1>4. CASE LeaveToOther(w, t)
  <2>1. /\ \A r \in Request : HandleInv(r)'
        /\ \A u \in Thread : (ActiveInv(u) /\ TakeoverInv(u) /\ QueueInv(u))'
    BY <1>4, PlacesKept DEF LeaveToOther
  <2>2. /\ \A v \in Task \ {w} : pc'[v] = pc[v] /\ wreq'[v] = wreq[v]
        /\ pc'[w] = "over" /\ worker' = worker /\ active' = active /\ status' = status
    BY <1>4 DEF LeaveToOther, TypeOK
  <2>3. t # NoThread
    BY <1>1, ConstantsAssumption
  <2>4. WorkerInv' /\ (\A v \in Task \ {w} : TaskInv(v)') /\ DetachedInv'
    BY <1>1, <2>2, <2>3, StepKeepsTasks DEF WorkerFrame
  <2>5. TaskInv(w)'
    BY <2>2, <2>3 DEF TaskInv, Running, Engine
  <2>6. QED
    BY <2>1, <2>4, <2>5 DEF Ownership
<1>5. CASE PickTakeover(w, t)
  <2> DEFINE h == takeover[t]
  <2>1. h \in Request /\ PicksUp(w, t, h)
    BY <1>1, <1>2, <1>5 DEF PickTakeover, EnterRun, PicksUp, TakeoverInv, TypeOK
  <2>2. ASSUME NEW u \in Thread PROVE (ActiveInv(u) /\ TakeoverInv(u) /\ QueueInv(u))'
    <3>1. /\ UNCHANGED <<queue, thread, inputs>>
          /\ \A x \in Request \ {h} : status'[x] = status[x]
          /\ status'[h] = "running" /\ active'[t] = h /\ takeover'[t] = NoRequest
      BY <1>1, <1>5, <2>1 DEF PickTakeover, PicksUp, WorkerFrame, TypeOK
    <3>2. ActiveInv(u) /\ TakeoverInv(u) /\ QueueInv(u)
      BY DEF Ownership
    <3>3. CASE u = t
      <4>1. thread[h] = t /\ inputs[h] # <<>> /\ queue[t] = <<>>
        BY <1>2, <2>1, ConstantsAssumption DEF TakeoverInv
      <4>2. ActiveInv(t)' /\ TakeoverInv(t)'
        BY <2>1, <3>1, <4>1 DEF ActiveInv, TakeoverInv
      <4>3. QueueInv(t)'
        BY <3>1, <4>1 DEF QueueInv
      <4>4. QED
        BY <3>3, <4>2, <4>3
    <3>4. CASE u # t
      <4>1. active'[u] = active[u] /\ takeover'[u] = takeover[u]
        BY <1>1, <1>5, <3>4 DEF PickTakeover, TypeOK
      <4>2. /\ active[u] # h /\ takeover[u] # h
            /\ \A i \in 1 .. Len(queue[u]) : queue[u][i] \in Request \ {h}
        BY <1>1, <2>1, <3>4, OwnThreadOnly DEF PicksUp
      <4>3. ActiveInv(u)' /\ TakeoverInv(u)'
        BY <3>1, <3>2, <4>1, <4>2, SMTT(60) DEF ActiveInv, TakeoverInv, TypeOK
      <4>4. QueueInv(u)'
        BY <3>1, <3>2, <4>1, <4>2, ZenonT(60) DEF QueueInv
      <4>5. QED
        BY <4>3, <4>4
    <3>5. QED
      BY <3>3, <3>4
  <2>3. QED
    BY <1>1, <2>1, <2>2, PicksUpKeepsTasks DEF Ownership
<1>6. CASE PickQueued(w, t)
  <2> DEFINE h == Head(queue[t])
  <2>1. /\ queue[t] \in Seq(Request) /\ queue[t] # <<>>
        /\ h = queue[t][1] /\ 1 \in 1 .. Len(queue[t]) /\ h \in Request
    BY <1>1, <1>6 DEF PickQueued, TypeOK
  <2>2. thread[h] = t /\ status[h] = "queued" /\ inputs[h] = <<h>>
    BY <1>2, <2>1 DEF QueueInv
  <2>3. PicksUp(w, t, h)
    BY <1>1, <1>6, <2>1, <2>2 DEF PickQueued, EnterRun, PicksUp
  <2>4. ASSUME NEW u \in Thread PROVE (ActiveInv(u) /\ TakeoverInv(u) /\ QueueInv(u))'
    <3>1. /\ UNCHANGED <<takeover, thread, inputs>>
          /\ \A x \in Request \ {h} : status'[x] = status[x]
          /\ status'[h] = "running" /\ active'[t] = h /\ queue'[t] = Tail(queue[t])
          /\ takeover[t] = NoRequest
      BY <1>1, <1>6, <2>3 DEF PickQueued, PicksUp, WorkerFrame, TypeOK
    <3>2. ActiveInv(u) /\ TakeoverInv(u) /\ QueueInv(u)
      BY DEF Ownership
    <3>3. CASE u = t
      <4>1. ActiveInv(t)' /\ TakeoverInv(t)'
        BY <2>2, <3>1 DEF ActiveInv, TakeoverInv
      <4>2. /\ Len(queue'[t]) = Len(queue[t]) - 1 /\ Len(queue[t]) \in Nat
            /\ \A i \in 1 .. Len(queue'[t]) : queue'[t][i] = queue[t][i + 1]
        BY <2>1, <3>1
      <4>3. \A i \in 1 .. Len(queue'[t]) : i + 1 \in 1 .. Len(queue[t]) /\ i + 1 # 1
        BY <4>2
      <4>4. \A i \in 1 .. Len(queue'[t]) : queue'[t][i] \in Request \ {h}
        <5> TAKE i \in 1 .. Len(queue'[t])
        <5>1. queue[t][i + 1] \in Request
          BY <2>1, <4>3
        <5>2. queue[t][i + 1] # queue[t][1]
          BY <1>2, <2>1, <4>3 DEF QueueInv
        <5>3. QED
          BY <2>1, <4>2, <5>1, <5>2
      <4>5. \A i, j \in 1 .. Len(queue'[t]) : queue'[t][i] = queue'[t][j] => i = j
        <5> SUFFICES ASSUME NEW i \in 1 .. Len(queue'[t]), NEW j \in 1 .. Len(queue'[t]),
                            queue'[t][i] = queue'[t][j]
                     PROVE  i = j
          OBVIOUS
        <5>1. queue[t][i + 1] = queue[t][j + 1]
          BY <4>2
        <5>2. i + 1 = j + 1
          BY <1>2, <4>3, <5>1 DEF QueueInv
        <5>3. QED
          BY <4>2, <5>2
      <4>6. \A i \in 1 .. Len(queue'[t]) :
              /\ thread'[queue'[t][i]] = t /\ status'[queue'[t][i]] = "queued"
              /\ inputs'[queue'[t][i]] = <<queue'[t][i]>>
              /\ queue'[t][i] # active'[t]
        <5> TAKE i \in 1 .. Len(queue'[t])
        <5> DEFINE x == queue'[t][i]
        <5>1. x \in Request \ {h} /\ x = queue[t][i + 1] /\ i + 1 \in 1 .. Len(queue[t])
          BY <4>2, <4>3, <4>4
        <5>2. thread[x] = t /\ status[x] = "queued" /\ inputs[x] = <<x>>
          BY <1>2, <5>1 DEF QueueInv
        <5>3. QED
          BY <3>1, <5>1, <5>2
      <4>7. QED
        BY <3>3, <4>1, <4>5, <4>6 DEF QueueInv
    <3>4. CASE u # t
      <4>1. active'[u] = active[u] /\ queue'[u] = queue[u]
        BY <1>1, <1>6, <3>4 DEF PickQueued, TypeOK
      <4>2. /\ active[u] # h /\ takeover[u] # h
            /\ \A i \in 1 .. Len(queue[u]) : queue[u][i] \in Request \ {h}
        BY <1>1, <2>1, <2>2, <3>4, OwnThreadOnly
      <4>3. ActiveInv(u)' /\ TakeoverInv(u)'
        BY <3>1, <3>2, <4>1, <4>2 DEF ActiveInv, TakeoverInv, TypeOK
      <4>4. QueueInv(u)'
        <5> SUFFICES ASSUME NEW i \in 1 .. Len(queue[u]) PROVE QueueInv(u)!(i)'
          BY <4>1 DEF QueueInv
        <5>1. queue[u][i] \in Request \ {h}
          BY <4>2
        <5>2. status'[queue[u][i]] = status[queue[u][i]]
          BY <3>1, <5>1
        <5>3. QED
          BY <3>1, <3>2, <4>1, <5>2 DEF QueueInv
      <4>5. QED
        BY <4>3, <4>4
    <3>5. QED
      BY <3>3, <3>4
  <2>5. QED
    BY <1>1, <2>1, <2>3, <2>4, PicksUpKeepsTasks DEF Ownership
<1>7. CASE NothingToPick(w, t)
  <2>1. /\ \A r \in Request : HandleInv(r)'
        /\ \A u \in Thread : (ActiveInv(u) /\ TakeoverInv(u) /\ QueueInv(u))'
    BY <1>7, PlacesKept DEF NothingToPick
  <2>2. /\ \A v \in Task \ {w} : pc'[v] = pc[v] /\ wreq'[v] = wreq[v]
        /\ pc'[w] = "idle" /\ worker' = [worker EXCEPT ![t] = NoTask]
        /\ active' = active /\ status' = status
    BY <1>7 DEF NothingToPick, TaskGone, TypeOK
  <2>3. WorkerInv' /\ (\A v \in Task \ {w} : TaskInv(v)') /\ DetachedInv'
    BY <1>1, <2>2, StepKeepsTasks DEF WorkerFrame
  <2>4. TaskInv(w)'
    BY <2>2 DEF TaskInv, Running, Engine
  <2>5. QED
    BY <2>1, <2>3, <2>4 DEF Ownership
<1>8. QED
  BY <1>3, <1>4, <1>5, <1>6, <1>7 DEF Pick

LEMMA SettleOwnership ==
    ASSUME TypeOK, Ownership, NEW w \in Task, WorkerFrame, Settle(w)
    PROVE  Ownership'
<1> DEFINE t == wthread[w]  h == wreq[w]
<1>1. /\ pc[w] = "finished" /\ Running(w) /\ t \in Thread /\ t # NoThread
      /\ h \in Request /\ active[t] = h /\ worker[t] = w
  BY ConstantsAssumption DEF Settle, Ownership, TaskInv, WorkerInv, Running, TypeOK
<1>2. /\ active' = [active EXCEPT ![t] = NoRequest]
      /\ UNCHANGED <<status, queue, takeover>>
  BY <1>1 DEF Settle
<1>3. /\ wthread' = wthread
      /\ \A v \in Task \ {w} : pc'[v] = pc[v] /\ wreq'[v] = wreq[v]
      /\ \/ worker' = worker /\ pc'[w] \in {"over", "next"}
         \/ worker' = [worker EXCEPT ![t] = NoTask] /\ pc'[w] = "idle"
  <2>1. CASE queue[t] # <<>> \/ takeover[t] # NoRequest
    <3>1. EnsureWorker(t, [pc EXCEPT ![w] =
              IF status[h] = "cancelled" THEN "over" ELSE "next"])
      BY <2>1 DEF Settle
    <3>2. worker[t] # NoTask /\ pc[worker[t]] # "over"
      BY <1>1, ConstantsAssumption
    <3>3. /\ pc' = [pc EXCEPT ![w] = IF status[h] = "cancelled" THEN "over" ELSE "next"]
          /\ UNCHANGED <<worker, wthread, wreq>>
      BY <3>1, <3>2 DEF EnsureWorker
    <3>4. QED
      BY <3>3 DEF TypeOK
  <2>2. CASE ~(queue[t] # <<>> \/ takeover[t] # NoRequest)
    BY <2>2 DEF Settle, TaskGone, TypeOK
  <2>3. QED
    BY <2>1, <2>2
<1>4. \A r \in Request : HandleInv(r)'
  BY <1>2 DEF WorkerFrame, Ownership, HandleInv
<1>5. ASSUME NEW u \in Thread PROVE (ActiveInv(u) /\ TakeoverInv(u) /\ QueueInv(u))'
  <2>1. ActiveInv(u) /\ TakeoverInv(u) /\ QueueInv(u)
    BY DEF Ownership
  <2>2. active'[u] \in {active[u], NoRequest}
    BY <1>1, <1>2 DEF TypeOK
  <2>3. ActiveInv(u)'
    BY <1>2, <2>1, <2>2 DEF ActiveInv, WorkerFrame
  <2>4. TakeoverInv(u)'
    BY <1>2, <2>1, <2>2 DEF TakeoverInv, WorkerFrame
  <2>5. \A i \in 1 .. Len(queue[u]) : queue[u][i] # active'[u]
    BY <2>1, <2>2, ConstantsAssumption DEF QueueInv, TypeOK
  <2>6. QueueInv(u)'
    BY <1>2, <2>1, <2>5 DEF QueueInv, WorkerFrame
  <2>7. QED
    BY <2>3, <2>4, <2>6
<1>6. WorkerInv' /\ (\A v \in Task \ {w} : TaskInv(v)') /\ DetachedInv'
  <2>1. \A u \in Thread \ {t} : active'[u] = active[u]
    BY <1>2 DEF TypeOK
  <2>2. QED
    BY <1>1, <1>2, <1>3, <2>1, StepKeepsTasks DEF WorkerFrame
<1>7. TaskInv(w)'
  BY <1>1, <1>3 DEF TaskInv, Running, Engine
<1>8. QED
  BY <1>4, <1>5, <1>6, <1>7 DEF Ownership

LEMMA WorkerOwnership ==
    ASSUME TypeOK, Ownership, NEW w \in Task, WorkerStep(w)
    PROVE  Ownership'
<1>1. WorkerFrame
  BY DEF WorkerStep, WorkerFrame, storeVars, ghostVars
<1>2. QED
  BY <1>1, CancelNewOwnership, RunDetachedOwnership, PickOwnership, SettleOwnership
     DEF WorkerStep

LEMMA OtherOwnership ==
    ASSUME Ownership, Aclose \/ AcloseReturns \/ UNCHANGED vars
    PROVE  Ownership'
<1>1. UNCHANGED <<status, inputs, thread, active, queue, takeover, worker, pc, wthread,
                  wreq, record, ticket>>
  BY DEF Aclose, AcloseReturns, vars, handleVars, threadVars, taskVars, storeVars,
         ghostVars
<1>2. QED
  BY <1>1 DEF Ownership, HandleInv, ActiveInv, TakeoverInv, QueueInv, WorkerInv, TaskInv,
              DetachedInv, Running

-----------------------------------------------------------------------------
(* The invariant and what follows from it *)

\* No call, and no step of a worker, moves a task into the engine or out of it.
LEMMA PermitsSubmit ==
    ASSUME TypeOK, Ownership, PermitsBalance, NEW r \in Request, NEW t \in Thread,
           NEW c \in Conflict, SubmitTurn(r, t, c)
    PROVE  PermitsBalance'
<1>1. semaphore' = semaphore
  BY DEF SubmitTurn
<1>2. EnsureWorker(t, pc) \/ pc' = pc
  BY DEF SubmitTurn, SubmitIdle, SubmitReject, SubmitQueue, SubmitJoin, SubmitTakeover
<1>3. \A w \in Task : pc'[w] \in Engine <=> pc[w] \in Engine
  <2>1. CASE EnsureWorker(t, pc)
    <3>1. TypeOK /\ pc \in [Task -> PC]
      BY DEF TypeOK
    <3>2. CASE worker[t] = NoTask \/ pc[worker[t]] = "over"
      <4>1. PICK n \in Task :
              /\ pc[n] = "idle"
              /\ pc' = [x \in Task |-> IF x = n THEN "new"
                                      ELSE IF x = worker[t] THEN "idle" ELSE pc[x]]
        BY <2>1, <3>2 DEF EnsureWorker
      <4>2. \A x \in Task : x = worker[t] => pc[x] = "over"
        BY <3>2, ConstantsAssumption
      <4>3. QED
        BY <3>1, <4>1, <4>2 DEF Engine
    <3>3. CASE ~(worker[t] = NoTask \/ pc[worker[t]] = "over")
      BY <2>1, <3>3 DEF EnsureWorker
    <3>4. QED
      BY <3>2, <3>3
  <2>2. QED
    BY <1>2, <2>1
<1>4. QED
  BY <1>1, <1>3, PermitsKept

LEMMA PermitsWorker ==
    ASSUME TypeOK, Ownership, PermitsBalance, NEW w \in Task, WorkerStep(w)
    PROVE  PermitsBalance'
<1>1. semaphore' = semaphore
  BY DEF WorkerStep
<1>2. pc[w] \in {"new", "next", "finished"}
  BY DEF WorkerStep, CancelNew, RunDetached, Pick, Settle
<1>3. \E x \in {"over", "idle", "waiting", "next"} : pc' = [pc EXCEPT ![w] = x]
  <2>1. CASE CancelNew(w) \/ RunDetached(w)
    BY <2>1 DEF CancelNew, RunDetached, EnterRun, TaskGone
  <2>2. CASE Pick(w)
    BY <2>2 DEF Pick, PickActive, LeaveToOther, PickTakeover, PickQueued, NothingToPick,
                EnterRun, TaskGone
  <2>3. CASE Settle(w)
    <3>1. worker[wthread[w]] = w /\ w # NoTask /\ pc[w] = "finished"
      BY <2>3, ConstantsAssumption DEF Settle, Ownership, TaskInv, WorkerInv
    <3>2. QED
      BY <2>3, <3>1 DEF Settle, EnsureWorker, TaskGone
  <2>4. QED
    BY <2>1, <2>2, <2>3 DEF WorkerStep
<1>4. \A v \in Task : pc'[v] \in Engine <=> pc[v] \in Engine
  BY <1>2, <1>3 DEF Engine, TypeOK
<1>5. QED
  BY <1>1, <1>4, PermitsKept

LEMMA StepInv == Inv /\ [Next]_vars => Inv'
<1> SUFFICES ASSUME Inv, [Next]_vars PROVE Inv'
  OBVIOUS
<1> USE DEF Inv
<1>1. ASSUME NEW r \in Request, NEW t \in Thread, NEW c \in Conflict, SubmitTurn(r, t, c)
      PROVE  Inv'
  BY <1>1, SubmitType, SubmitOwnership, PermitsSubmit
<1>2. ASSUME NEW r \in Request, SubmitDetached(r) PROVE Inv'
  <2>1. \A w \in Task : pc'[w] \in Engine <=> pc[w] \in Engine
    <3>1. PICK n \in Task : pc[n] = "idle" /\ pc' = [pc EXCEPT ![n] = "new"]
      BY <1>2 DEF SubmitDetached
    <3>2. QED
      BY <3>1 DEF Engine, TypeOK
  <2>2. semaphore' = semaphore
    BY <1>2 DEF SubmitDetached
  <2>3. QED
    BY <1>2, <2>1, <2>2, DetachedType, DetachedOwnership, PermitsKept
<1>3. ASSUME NEW w \in Task, WorkerStep(w) PROVE Inv'
  BY <1>3, WorkerType, WorkerOwnership, PermitsWorker
<1>4. ASSUME NEW w \in Task, TurnStep(w) PROVE Inv'
  BY <1>4, TurnType, TurnOwnership, PermitsTurn
<1>5. ASSUME Aclose \/ AcloseReturns \/ UNCHANGED vars PROVE Inv'
  <2>1. UNCHANGED <<pc, semaphore>>
    BY <1>5 DEF Aclose, AcloseReturns, vars, taskVars
  <2>2. TypeOK'
    <3>1. CASE Aclose
      BY <3>1 DEF Aclose, TypeOK, threadVars, storeVars, ghostVars
    <3>2. CASE AcloseReturns
      BY <3>2 DEF AcloseReturns, TypeOK, handleVars, threadVars, taskVars, storeVars,
                  ghostVars
    <3>3. CASE UNCHANGED vars
      BY <3>3 DEF vars, TypeOK, handleVars, threadVars, taskVars, storeVars, closeVars,
                  ghostVars
    <3>4. QED
      BY <1>5, <3>1, <3>2, <3>3
  <2>3. QED
    BY <1>5, <2>1, <2>2, OtherOwnership DEF PermitsBalance
<1>6. QED
  BY <1>1, <1>2, <1>3, <1>4, <1>5 DEF Next

THEOREM Invariance == Spec => []Inv
  BY InitInv, StepInv, PTL DEF Spec

\* Every variable keeps its type; among them, the semaphore never exceeds the
\* number of permits and never becomes negative.
THEOREM TypesKept == Spec => []TypeOK
<1>1. Inv => TypeOK
  BY DEF Inv
<1>2. QED
  BY <1>1, Invariance, PTL

\* However a turn ends, it gives back its permit once.
THEOREM PermitsReturned == Spec => []PermitsBalance
<1>1. Inv => PermitsBalance
  BY DEF Inv
<1>2. QED
  BY <1>1, Invariance, PTL

\* At most one turn uses a thread: a task inside the engine is the worker its
\* thread refers to.
THEOREM ThreadsSerialized == Spec => []OneTurnPerThread
<1>1. Inv => OneTurnPerThread
  BY DEF Inv, Ownership, WorkerInv, OneTurnPerThread, Engine
<1>2. QED
  BY <1>1, Invariance, PTL

-----------------------------------------------------------------------------
(* The takeover buffer *)

\* A takeover appears or changes mode only in a call that signals the active
\* turn, and no other turn becomes active while it waits.
LEMMA StepAnnounced == Inv /\ TakeoverAnnounced /\ [Next]_vars => TakeoverAnnounced'
<1> SUFFICES ASSUME Inv, TakeoverAnnounced, [Next]_vars, NEW u \in Thread,
                    takeover'[u] # NoRequest
             PROVE  TakeoverAnnounced!(u)!2'
  BY DEF TakeoverAnnounced
<1>1. TypeOK /\ TypeOK'
  BY StepInv DEF Inv
<1>2. queue'[u] = <<>>
  BY StepInv DEF Inv, Ownership, TakeoverInv
<1>3. ASSUME takeover'[u] = takeover[u], takeoverMode'[u] = takeoverMode[u],
             active'[u] \in {active[u], NoRequest},
             cancelEvent \subseteq cancelEvent', guideEvent \subseteq guideEvent'
      PROVE  TakeoverAnnounced!(u)!2'
  BY <1>2, <1>3 DEF TakeoverAnnounced
<1>4. ASSUME NEW r \in Request, NEW t \in Thread, NEW c \in Conflict, SubmitTurn(r, t, c)
      PROVE  TakeoverAnnounced!(u)!2'
  <2>1. CASE SubmitIdle(r, t)
    <3>1. u # t
      BY <2>1 DEF SubmitIdle, Busy
    <3>2. QED
      BY <1>1, <1>3, <2>1, <3>1 DEF SubmitIdle, TypeOK
  <2>2. CASE SubmitReject(r, t, c) \/ SubmitQueue(r, t, c) \/ SubmitJoin(r, t, c)
    BY <1>3, <2>2 DEF SubmitReject, SubmitQueue, SubmitJoin, threadVars
  <2>3. CASE SubmitTakeover(r, t, c)
    <3>1. /\ active' = active /\ c \in {"guide", "interrupt"}
          /\ cancelEvent \subseteq cancelEvent' /\ guideEvent \subseteq guideEvent'
          /\ \A x \in Thread \ {t} : takeover'[x] = takeover[x]
                                     /\ takeoverMode'[x] = takeoverMode[x]
      BY <1>1, <2>3, ZenonT(60) DEF SubmitTakeover, AbsorbQueue, JoinTakeover, SignalActive, TypeOK
    <3>2. CASE u # t
      BY <1>3, <3>1, <3>2
    <3>3. CASE u = t
      <4>1. takeoverMode'[t] # "none"
        BY <1>1, <2>3, <3>3 DEF SubmitTakeover, AbsorbQueue, JoinTakeover, MergeIntoTakeover,
                          TakeoverAnnounced, TypeOK
      <4>2. active'[t] # NoRequest =>
              active'[t] \in (IF takeoverMode'[t] = "interrupt" THEN cancelEvent'
                              ELSE guideEvent')
        BY <2>3, <3>1 DEF SubmitTakeover, SignalActive
      <4>3. QED
        BY <1>2, <3>3, <4>1, <4>2
    <3>4. QED
      BY <3>2, <3>3
  <2>4. QED
    BY <1>4, <2>1, <2>2, <2>3 DEF SubmitTurn
<1>5. ASSUME NEW w \in Task, WorkerStep(w) PROVE TakeoverAnnounced!(u)!2'
  <2>1. UNCHANGED <<cancelEvent, guideEvent>>
    BY <1>5 DEF WorkerStep
  <2>2. CASE CancelNew(w) \/ RunDetached(w)
    BY <1>3, <2>1, <2>2 DEF CancelNew, RunDetached
  <2>3. CASE Pick(w)
    <3> DEFINE t == wthread[w]
    <3>1. t \in Thread
      BY <1>1, <2>3 DEF Pick, TypeOK
    <3>2. CASE PickActive(w, t) \/ LeaveToOther(w, t) \/ NothingToPick(w, t)
      BY <1>3, <2>1, <3>2 DEF PickActive, LeaveToOther, NothingToPick
    <3>3. CASE PickTakeover(w, t) \/ PickQueued(w, t)
      <4>1. u # t
        BY <1>1, <3>1, <3>3 DEF PickTakeover, PickQueued, TypeOK
      <4>2. QED
        BY <1>1, <1>3, <2>1, <3>1, <3>3, <4>1 DEF PickTakeover, PickQueued, TypeOK
    <3>4. QED
      BY <2>3, <3>2, <3>3 DEF Pick
  <2>4. CASE Settle(w)
    BY <1>1, <1>3, <2>1, <2>4 DEF Settle, TypeOK
  <2>5. QED
    BY <1>5, <2>2, <2>3, <2>4 DEF WorkerStep
<1>6. ASSUME NEW w \in Task, TurnStep(w) PROVE TakeoverAnnounced!(u)!2'
  BY <1>3, <1>6 DEF TurnStep, threadVars
<1>7. ASSUME NEW r \in Request, SubmitDetached(r) PROVE TakeoverAnnounced!(u)!2'
  BY <1>3, <1>7 DEF SubmitDetached, threadVars
<1>8. CASE Aclose
  BY <1>3, <1>8 DEF Aclose, threadVars
<1>9. CASE AcloseReturns \/ UNCHANGED vars
  BY <1>3, <1>9 DEF AcloseReturns, vars, threadVars, handleVars
<1>10. QED
  BY <1>4, <1>5, <1>6, <1>7, <1>8, <1>9 DEF Next

\* Whenever a takeover waits, nothing queues behind the running turn, and that
\* turn has been told to make room, by the event of the strongest mode asked for.
THEOREM TakeoversAnnounced == Spec => []TakeoverAnnounced
<1>1. Init => TakeoverAnnounced
  BY DEF Init, TakeoverAnnounced
<1>2. QED
  BY <1>1, Invariance, StepAnnounced, PTL DEF Spec

-----------------------------------------------------------------------------
(* The promises to the callers: TurnService is implemented. *)


\* A thread on which nothing happened, as far as TurnService is concerned.
Same(u) ==
    /\ Inbox(u)' = Inbox(u)
    /\ Unwritten(u)' = Unwritten(u)
    /\ InUse(u)' = InUse(u)

LEMMA Types ==
    ASSUME TypeOK, NEW t \in Thread
    PROVE  /\ First(t) \in Seq(Request) /\ Rest(t) \in Seq(Request)
           /\ Inbox(t) \in Seq(Request) /\ Unwritten(t) \in Seq(Request)
           /\ InUse(t) \in BOOLEAN
<1>1. First(t) \in Seq(Request) /\ Rest(t) \in Seq(Request)
  BY DEF TypeOK, First, Rest
<1>2. Inbox(t) \in Seq(Request)
  BY <1>1 DEF Inbox
<1>3. Unwritten(t) \in Seq(Request) /\ InUse(t) \in BOOLEAN
  BY DEF TypeOK, Unwritten, InUse
<1>4. QED
  BY <1>1, <1>2, <1>3

LEMMA InitMaps == Init => Service!Init
<1> SUFFICES ASSUME Init PROVE Service!Init
  OBVIOUS
<1>1. ASSUME NEW t \in Thread
      PROVE  Inbox(t) = <<>> /\ Unwritten(t) = <<>> /\ InUse(t) = FALSE
  <2>1. First(t) = <<>> /\ Rest(t) = <<>>
    BY DEF Init, First, Rest
  <2>2. QED
    BY <2>1 DEF Init, Inbox, Unwritten, InUse
<1>2. QED
  BY <1>1 DEF Init, Service!Init, ServiceInbox, ServiceBatch, ServiceBusy

-----------------------------------------------------------------------------
(* The steps of TurnService, in terms of Inbox, Unwritten and InUse *)

LEMMA StutterMaps ==
    ASSUME \A u \in Thread : Same(u), UNCHANGED <<clock, ticket, history>>
    PROVE  UNCHANGED Service!vars
  BY DEF Same, Service!vars, ServiceInbox, ServiceBatch, ServiceBusy

LEMMA AcceptMaps ==
    ASSUME NEW t \in Thread, NEW r \in Request, ticket[r] = 0,
           clock' = clock + 1, ticket' = [ticket EXCEPT ![r] = clock + 1],
           history' = history, \A u \in Thread \ {t} : Same(u),
           Inbox(t)' = Append(Inbox(t), r), Unwritten(t)' = Unwritten(t),
           InUse(t)' = InUse(t)
    PROVE  Service!Next
<1>1. Service!Accept(t, r)
  BY DEF Service!Accept, Same, ServiceInbox, ServiceBatch, ServiceBusy
<1>2. QED
  BY <1>1 DEF Service!Next

LEMMA StartMaps ==
    ASSUME NEW t \in Thread, NEW n \in 1 .. Len(Inbox(t)),
           UNCHANGED <<clock, ticket, history>>, \A u \in Thread \ {t} : Same(u),
           ~InUse(t), Unwritten(t) = <<>>, InUse(t)' = TRUE,
           Unwritten(t)' = SubSeq(Inbox(t), 1, n),
           Inbox(t)' = SubSeq(Inbox(t), n + 1, Len(Inbox(t)))
    PROVE  Service!Next
<1>1. Service!Start(t, n)
  BY DEF Service!Start, Same, ServiceInbox, ServiceBatch, ServiceBusy
<1>2. QED
  BY <1>1 DEF Service!Next, ServiceInbox

LEMMA RecordMaps ==
    ASSUME NEW t \in Thread, UNCHANGED <<clock, ticket>>, \A u \in Thread \ {t} : Same(u),
           InUse(t), InUse(t)', Unwritten(t) # <<>>, Unwritten(t)' = <<>>,
           Inbox(t)' = Inbox(t), history' = [history EXCEPT ![t] = @ \o Unwritten(t)],
           InUse(t)' = InUse(t)
    PROVE  Service!Next
<1>1. Service!Record(t)
  BY DEF Service!Record, Same, ServiceInbox, ServiceBatch, ServiceBusy
<1>2. QED
  BY <1>1 DEF Service!Next

LEMMA DropMaps ==
    ASSUME NEW t \in Thread, UNCHANGED <<clock, ticket, history>>,
           \A u \in Thread \ {t} : Same(u),
           InUse(t), Unwritten(t) # <<>>, Unwritten(t)' = <<>>,
           Inbox(t)' = Inbox(t), InUse(t)' = InUse(t)
    PROVE  Service!Next
<1>1. Service!Drop(t)
  BY DEF Service!Drop, Same, ServiceInbox, ServiceBatch, ServiceBusy
<1>2. QED
  BY <1>1 DEF Service!Next

LEMMA ReleaseMaps ==
    ASSUME NEW t \in Thread, UNCHANGED <<clock, ticket, history>>,
           \A u \in Thread \ {t} : Same(u),
           InUse(t), Unwritten(t) = <<>>, Unwritten(t)' = <<>>,
           Inbox(t)' = Inbox(t), InUse(t)' = FALSE
    PROVE  Service!Next
<1>1. Service!Release(t)
  BY DEF Service!Release, Same, ServiceInbox, ServiceBatch, ServiceBusy
<1>2. QED
  BY <1>1 DEF Service!Next

-----------------------------------------------------------------------------
(* Threads a step does not concern *)

LEMMA SameWhen ==
    ASSUME NEW u \in Thread,
           active'[u] = active[u], takeover'[u] = takeover[u], queue'[u] = queue[u],
           active[u] # NoRequest => /\ inputs'[active[u]] = inputs[active[u]]
                                    /\ status'[active[u]] = status[active[u]]
                                    /\ record'[active[u]] = record[active[u]],
           takeover[u] # NoRequest => inputs'[takeover[u]] = inputs[takeover[u]]
    PROVE  Same(u) /\ First(u)' = First(u) /\ Rest(u)' = Rest(u)
<1>1. First(u)' = First(u)
  BY DEF First
<1>2. Rest(u)' = Rest(u)
  BY DEF Rest
<1>3. Unwritten(u)' = Unwritten(u) /\ InUse(u)' = InUse(u)
  BY DEF Unwritten, InUse
<1>4. QED
  BY <1>1, <1>2, <1>3 DEF Same, Inbox

\* A step that leaves the places and the messages of a thread alone.
LEMMA SamePlaces ==
    ASSUME NEW u \in Thread, UNCHANGED <<active, takeover, queue, inputs, status, record>>
    PROVE  Same(u)
  BY SameWhen

-----------------------------------------------------------------------------
(* Calls *)

\* A call concerns its own thread only.
LEMMA CallElsewhere ==
    ASSUME TypeOK, Ownership, NEW t \in Thread, NEW r \in Request, status[r] = "new",
           record' = record,
           \A x \in Request : x # r /\ thread[x] # t =>
               inputs'[x] = inputs[x] /\ status'[x] = status[x],
           NEW u \in Thread \ {t},
           active'[u] = active[u], takeover'[u] = takeover[u], queue'[u] = queue[u]
    PROVE  Same(u)
<1>1. thread[r] = NoThread
  BY DEF Ownership, HandleInv
<1>2. active[u] # NoRequest =>
        active[u] \in Request /\ active[u] # r /\ thread[active[u]] # t
  BY <1>1, NoThreadNoPlace, SMTT(60) DEF Ownership, ActiveInv, TypeOK
<1>3. takeover[u] # NoRequest =>
        takeover[u] \in Request /\ takeover[u] # r /\ thread[takeover[u]] # t
  BY <1>1, NoThreadNoPlace DEF Ownership, TakeoverInv, TypeOK
<1>4. QED
  BY <1>2, <1>3, SameWhen

\* Adding to what waits behind the active handle adds to the inbox.
LEMMA AppendToInbox ==
    ASSUME TypeOK, NEW t \in Thread, NEW r \in Request,
           First(t)' = First(t), Rest(t)' = Append(Rest(t), r)
    PROVE  Inbox(t)' = Append(Inbox(t), r)
<1>1. First(t) \in Seq(Request) /\ Rest(t) \in Seq(Request)
  BY Types
<1>2. \A a, b \in Seq(Request) : a \o Append(b, r) = Append(a \o b, r)
  <2> TAKE a \in Seq(Request), b \in Seq(Request)
  <2> DEFINE x == a \o Append(b, r)  y == Append(a \o b, r)
  <2>1. x \in Seq(Request) /\ y \in Seq(Request) /\ Len(x) = Len(y)
    OBVIOUS
  <2>2. \A i \in 1 .. Len(x) : x[i] = y[i]
    OBVIOUS
  <2> HIDE DEF x, y
  <2>3. x = y
    BY <2>1, <2>2, SeqEqual
  <2>4. QED
    BY <2>3 DEF x, y
<1>3. QED
  BY <1>1, <1>2 DEF Inbox

LEMMA SubmitIdleMaps ==
    ASSUME TypeOK, Ownership, NEW t \in Thread, NEW r \in Request, status[r] = "new",
           UNCHANGED <<record, history>>, SubmitIdle(r, t)
    PROVE  Service!Next
<1> USE DEF SubmitIdle, NewHandle
<1>1. ticket[r] = 0 /\ r # NoRequest
  BY ConstantsAssumption DEF Ownership, HandleInv
<1>2. \A u \in Thread \ {t} : Same(u)
  <2>1. \A x \in Request \ {r} : inputs'[x] = inputs[x] /\ status'[x] = status[x]
    BY DEF TypeOK
  <2>2. \A u \in Thread \ {t} : active'[u] = active[u]
    BY DEF TypeOK
  <2>3. QED
    BY <2>1, <2>2, CallElsewhere
<1>3. active[t] = NoRequest /\ takeover[t] = NoRequest /\ queue[t] = <<>>
  BY DEF Busy
<1>4. Inbox(t) = <<>> /\ Unwritten(t) = <<>> /\ InUse(t) = FALSE
  BY <1>3 DEF Inbox, First, Rest, Unwritten, InUse
<1>5. active'[t] = r /\ status'[r] = "queued" /\ inputs'[r] = <<r>>
  BY DEF TypeOK
<1>6. First(t)' = <<r>> /\ Rest(t)' = <<>>
  BY <1>1, <1>3, <1>5 DEF First, Rest
<1>7. Inbox(t)' = Append(<<>>, r)
  BY <1>6 DEF Inbox
<1>8. Unwritten(t)' = <<>> /\ InUse(t)' = FALSE
  BY <1>5 DEF Unwritten, InUse
<1>9. QED
  BY <1>1, <1>2, <1>4, <1>7, <1>8, AcceptMaps

LEMMA SubmitQueueMaps ==
    ASSUME TypeOK, Ownership, NEW t \in Thread, NEW r \in Request, NEW c \in Conflict,
           status[r] = "new", UNCHANGED <<record, history>>, SubmitQueue(r, t, c)
    PROVE  Service!Next
<1> USE DEF SubmitQueue, NewHandle
<1>1. ticket[r] = 0 /\ thread[r] = NoThread
  BY DEF Ownership, HandleInv
<1>2. \A x \in Request \ {r} : inputs'[x] = inputs[x] /\ status'[x] = status[x]
  BY DEF TypeOK
<1>3. \A u \in Thread \ {t} : Same(u)
  <2>1. \A u \in Thread \ {t} : queue'[u] = queue[u]
    BY DEF TypeOK
  <2>2. QED
    BY <1>2, <2>1, CallElsewhere
<1>4. active[t] # NoRequest => active[t] \in Request \ {r}
  BY <1>1, NoThreadNoPlace DEF TypeOK
<1>5. First(t)' = First(t)
  BY <1>2, <1>4 DEF First
<1>6. Rest(t)' = Append(Rest(t), r)
  BY DEF Rest, TypeOK
<1>7. Unwritten(t)' = Unwritten(t) /\ InUse(t)' = InUse(t)
  BY <1>2, <1>4 DEF Unwritten, InUse
<1>8. QED
  BY <1>1, <1>3, <1>5, <1>6, <1>7, AppendToInbox, AcceptMaps

LEMMA MergeMaps ==
    ASSUME TypeOK, Ownership, NEW t \in Thread, NEW r \in Request,
           status[r] = "new", UNCHANGED <<record, history, active, takeover, queue>>,
           MergeIntoTakeover(r, t), NewHandle(r, t)
    PROVE  Service!Next
<1> USE DEF MergeIntoTakeover, NewHandle
<1>1. /\ ticket[r] = 0 /\ thread[r] = NoThread
      /\ takeover[t] \in Request /\ thread[takeover[t]] = t /\ takeover[t] # active[t]
  BY DEF Ownership, HandleInv, TakeoverInv, TypeOK
<1>2. /\ \A x \in Request \ {r, takeover[t]} : inputs'[x] = inputs[x]
      /\ \A x \in Request \ {r} : status'[x] = status[x]
  BY DEF TypeOK
<1>3. \A u \in Thread \ {t} : Same(u)
  BY <1>1, <1>2, CallElsewhere
<1>4. active[t] # NoRequest => active[t] \in Request \ {r, takeover[t]}
  BY <1>1, NoThreadNoPlace DEF TypeOK
<1>5. First(t)' = First(t)
  BY <1>2, <1>4 DEF First
<1>6. Rest(t)' = Append(Rest(t), r)
  <2>1. takeover[t] # r
    BY <1>1, NoThreadNoPlace
  <2>2. inputs'[takeover[t]] = Append(inputs[takeover[t]], r)
    BY <1>1, <2>1
  <2>3. QED
    BY <2>2 DEF Rest
<1>7. Unwritten(t)' = Unwritten(t) /\ InUse(t)' = InUse(t)
  BY <1>2, <1>4 DEF Unwritten, InUse
<1>8. QED
  BY <1>1, <1>3, <1>5, <1>6, <1>7, AppendToInbox, AcceptMaps

LEMMA AbsorbMaps ==
    ASSUME TypeOK, Ownership, NEW t \in Thread, NEW r \in Request, NEW c \in Conflict,
           status[r] = "new", UNCHANGED <<record, history, active>>,
           AbsorbQueue(r, t, c), NewHandle(r, t)
    PROVE  Service!Next
<1> DEFINE pending == {queue[t][i] : i \in 1 .. Len(queue[t])}
<1>1. ticket[r] = 0 /\ thread[r] = NoThread /\ r # NoRequest /\ takeover[t] = NoRequest
  BY ConstantsAssumption DEF Ownership, HandleInv, AbsorbQueue
<1>2. \A x \in pending : x \in Request /\ thread[x] = t /\ x # active[t]
  BY DEF Ownership, QueueInv, TypeOK
<1>3. /\ inputs' = [inputs EXCEPT ![r] = Append(queue[t], r)]
      /\ takeover' = [takeover EXCEPT ![t] = r] /\ queue' = [queue EXCEPT ![t] = <<>>]
      /\ \A x \in Request \ (pending \cup {r}) : status'[x] = status[x]
  BY AbsorbQueueType DEF AbsorbQueue, Ownership
<1> HIDE DEF pending
<1>4. \A x \in Request \ {r} : inputs'[x] = inputs[x]
  BY <1>3 DEF TypeOK
<1>5. \A u \in Thread \ {t} : Same(u)
  <2>1. \A u \in Thread \ {t} : takeover'[u] = takeover[u] /\ queue'[u] = queue[u]
    BY <1>3 DEF TypeOK
  <2>2. \A x \in Request : x # r /\ thread[x] # t =>
          inputs'[x] = inputs[x] /\ status'[x] = status[x]
    BY <1>2, <1>3, <1>4
  <2>3. QED
    BY <1>2, <2>1, <2>2, CallElsewhere
<1>6. active[t] # NoRequest => active[t] \in Request \ (pending \cup {r})
  BY <1>1, <1>2, NoThreadNoPlace DEF TypeOK
<1>7. First(t)' = First(t)
  BY <1>3, <1>4, <1>6 DEF First
<1>8. Rest(t)' = Append(Rest(t), r)
  <2>1. takeover'[t] = r /\ inputs'[r] = Append(queue[t], r)
    BY <1>3 DEF TypeOK
  <2>2. QED
    BY <1>1, <2>1 DEF Rest
<1>9. Unwritten(t)' = Unwritten(t) /\ InUse(t)' = InUse(t)
  BY <1>3, <1>4, <1>6 DEF Unwritten, InUse
<1>10. QED
  BY <1>1, <1>5, <1>7, <1>8, <1>9, AppendToInbox, AcceptMaps DEF NewHandle

LEMMA SubmitMaps ==
    ASSUME TypeOK, Ownership, NEW t \in Thread, NEW r \in Request, NEW c \in Conflict,
           SubmitTurn(r, t, c)
    PROVE  Service!Next \/ UNCHANGED Service!vars
<1>1. status[r] = "new" /\ UNCHANGED <<record, history>>
  BY DEF SubmitTurn, storeVars
<1>2. CASE SubmitIdle(r, t)
  BY <1>1, <1>2, SubmitIdleMaps
<1>3. CASE SubmitReject(r, t, c)
  <2>1. ASSUME NEW u \in Thread PROVE Same(u)
    <3>1. active[u] # r /\ takeover[u] # r
      BY <1>1, NoThreadNoPlace DEF Ownership, HandleInv
    <3>2. QED
      BY <1>1, <1>3, <3>1, SameWhen DEF SubmitReject, threadVars, TypeOK
  <2>2. QED
    BY <1>1, <1>3, <2>1, StutterMaps DEF SubmitReject, ghostVars
<1>4. CASE SubmitQueue(r, t, c)
  BY <1>1, <1>4, SubmitQueueMaps
<1>5. CASE SubmitJoin(r, t, c)
  BY <1>1, <1>5, MergeMaps DEF SubmitJoin, threadVars
<1>6. CASE SubmitTakeover(r, t, c) /\ AbsorbQueue(r, t, c)
  BY <1>1, <1>6, AbsorbMaps DEF SubmitTakeover
<1>7. CASE SubmitTakeover(r, t, c) /\ JoinTakeover(r, t, c)
  BY <1>1, <1>7, MergeMaps DEF SubmitTakeover, JoinTakeover
<1>8. QED
  BY <1>2, <1>3, <1>4, <1>5, <1>6, <1>7 DEF SubmitTurn, SubmitTakeover

LEMMA DetachedMaps ==
    ASSUME TypeOK, Ownership, NEW r \in Request, SubmitDetached(r)
    PROVE  UNCHANGED Service!vars
<1>1. ASSUME NEW u \in Thread PROVE Same(u)
  <2>1. active[u] # r /\ takeover[u] # r
    BY NoThreadNoPlace DEF Ownership, HandleInv, SubmitDetached
  <2>2. QED
    BY <2>1, SameWhen DEF SubmitDetached, threadVars, storeVars, TypeOK
<1>2. QED
  BY <1>1, StutterMaps DEF SubmitDetached, storeVars, ghostVars

-----------------------------------------------------------------------------
(* The worker *)

\* Starting, cancelling and settling a run concern the handle that runs only.
LEMMA RunElsewhere ==
    ASSUME TypeOK, Ownership, NEW h \in Request, NEW u \in Thread, thread[h] # u,
           inputs' = inputs,
           \A x \in Request \ {h} : status'[x] = status[x] /\ record'[x] = record[x],
           active'[u] = active[u], takeover'[u] = takeover[u], queue'[u] = queue[u]
    PROVE  Same(u)
<1>1. active[u] # NoRequest => active[u] \in Request \ {h}
  BY DEF Ownership, ActiveInv, TypeOK
<1>2. QED
  BY <1>1, SameWhen

\* The worker takes the n oldest messages of the inbox.
LEMMA PicksUpMaps ==
    ASSUME TypeOK, Ownership, WorkerFrame, NEW w \in Task, NEW t \in Thread,
           NEW h \in Request, PicksUp(w, t, h), UNCHANGED <<clock, history>>,
           \A u \in Thread \ {t} : takeover'[u] = takeover[u] /\ queue'[u] = queue[u],
           NEW n \in 1 .. Len(Inbox(t)),
           inputs[h] = SubSeq(Inbox(t), 1, n),
           Rest(t)' = SubSeq(Inbox(t), n + 1, Len(Inbox(t)))
    PROVE  Service!Next
<1> USE DEF PicksUp, WorkerFrame
<1>1. /\ active'[t] = h /\ status'[h] = "running" /\ h # NoRequest /\ record[h] = "none"
      /\ \A x \in Request \ {h} : status'[x] = status[x]
      /\ \A u \in Thread \ {t} : active'[u] = active[u]
  BY ConstantsAssumption DEF TypeOK, Ownership, HandleInv
<1>2. \A u \in Thread \ {t} : Same(u)
  BY <1>1, RunElsewhere
<1>3. InUse(t) = FALSE /\ Unwritten(t) = <<>>
  BY DEF InUse, Unwritten
<1>4. InUse(t)' = TRUE /\ Unwritten(t)' = inputs[h] /\ First(t)' = <<>>
  BY <1>1 DEF InUse, Unwritten, First
<1>5. Inbox(t)' = SubSeq(Inbox(t), n + 1, Len(Inbox(t)))
  <2>1. SubSeq(Inbox(t), n + 1, Len(Inbox(t))) \in Seq(Request)
    BY Types
  <2>2. QED
    BY <1>4, <2>1 DEF Inbox
<1>6. QED
  BY <1>2, <1>3, <1>4, <1>5, StartMaps

\* The head of a sequence and the rest, as StartMaps wants them.
LEMMA HeadAndRest ==
    ASSUME NEW S, NEW h \in S, NEW s \in Seq(S)
    PROVE  /\ 1 \in 1 .. Len(<<h>> \o s)
           /\ SubSeq(<<h>> \o s, 1, 1) = <<h>>
           /\ SubSeq(<<h>> \o s, 1 + 1, Len(<<h>> \o s)) = s
<1> DEFINE l == <<h>> \o s
<1>1. l \in Seq(S) /\ Len(l) = Len(s) + 1 /\ Len(s) \in Nat /\ l[1] = h
      /\ \A i \in 1 .. Len(s) : l[i + 1] = s[i]
  OBVIOUS
<1> HIDE DEF l
<1>2. SubSeq(l, 1, 1) = <<h>>
  <2> DEFINE x == SubSeq(l, 1, 1)  y == <<h>>
  <2>1. /\ x \in Seq(S) /\ y \in Seq(S) /\ Len(x) = Len(y)
        /\ \A i \in 1 .. Len(x) : x[i] = y[i]
    BY <1>1
  <2> HIDE DEF x, y
  <2>2. x = y
    BY <2>1, SeqEqual
  <2>3. QED
    BY <2>2 DEF x, y
<1>3. SubSeq(l, 2, Len(l)) = s
  <2> DEFINE x == SubSeq(l, 2, Len(l))
  <2>1. x \in Seq(S) /\ Len(x) = Len(s) /\ \A i \in 1 .. Len(x) : x[i] = s[i]
    BY <1>1
  <2> HIDE DEF x
  <2>2. x = s
    BY <2>1, SeqEqual
  <2>3. QED
    BY <2>2 DEF x
<1>4. QED
  BY <1>1, <1>2, <1>3 DEF l

LEMMA PickMaps ==
    ASSUME TypeOK, Ownership, NEW w \in Task, WorkerFrame, UNCHANGED <<clock, history, wthread>>,
           Pick(w)
    PROVE  Service!Next \/ UNCHANGED Service!vars
<1> DEFINE t == wthread[w]
<1>1. t \in Thread /\ pc[w] \in {"new", "next"}
  BY DEF Pick, TypeOK
<1>2. ActiveInv(t) /\ TakeoverInv(t) /\ QueueInv(t)
  BY <1>1 DEF Ownership
<1>3. CASE PickActive(w, t)
  <2> DEFINE h == active[t]
  <2>1. h \in Request /\ PicksUp(w, t, h)
    BY <1>1, <1>2, <1>3 DEF PickActive, EnterRun, PicksUp, ActiveInv, TypeOK
  <2>2. inputs[h] = <<h>> /\ First(t) = <<h>>
    BY <1>2, <1>3, <2>1 DEF PickActive, ActiveInv, First
  <2>3. /\ UNCHANGED <<takeover, queue, inputs>>
        /\ Rest(t)' = Rest(t) /\ Rest(t) \in Seq(Request)
    BY <1>1, <1>3, Types DEF PickActive, Rest, WorkerFrame
  <2>4. Inbox(t) = <<h>> \o Rest(t)
    BY <2>2 DEF Inbox
  <2>5. /\ 1 \in 1 .. Len(Inbox(t))
        /\ inputs[h] = SubSeq(Inbox(t), 1, 1)
        /\ Rest(t)' = SubSeq(Inbox(t), 1 + 1, Len(Inbox(t)))
    BY <2>1, <2>2, <2>3, <2>4, HeadAndRest
  <2>6. QED
    BY <1>1, <2>1, <2>3, <2>5, PicksUpMaps
<1>4. CASE LeaveToOther(w, t) \/ NothingToPick(w, t)
  <2>1. ASSUME NEW u \in Thread PROVE Same(u)
    BY <1>4, SamePlaces DEF LeaveToOther, NothingToPick, WorkerFrame
  <2>2. QED
    BY <2>1, StutterMaps DEF WorkerFrame
<1>5. CASE PickTakeover(w, t)
  <2> DEFINE h == takeover[t]
  <2>1. h \in Request /\ PicksUp(w, t, h)
    BY <1>1, <1>2, <1>5 DEF PickTakeover, EnterRun, PicksUp, TakeoverInv, TypeOK
  <2>2. inputs[h] \in Seq(Request) /\ inputs[h] # <<>> /\ queue[t] = <<>>
    BY <1>2, <1>5, <2>1 DEF PickTakeover, TakeoverInv, TypeOK
  <2>3. First(t) = <<>> /\ Rest(t) = inputs[h]
    BY <1>5, <2>1 DEF PickTakeover, First, Rest
  <2>4. Inbox(t) = inputs[h]
    BY <2>2, <2>3 DEF Inbox
  <2>5. takeover'[t] = NoRequest /\ queue' = queue
    BY <1>1, <1>5 DEF PickTakeover, TypeOK
  <2>6. Rest(t)' = <<>>
    BY <2>2, <2>5 DEF Rest
  <2>7. \A u \in Thread \ {t} : takeover'[u] = takeover[u] /\ queue'[u] = queue[u]
    BY <1>1, <1>5 DEF PickTakeover, TypeOK
  <2>8. \A s \in Seq(Request) : s # <<>> =>
          /\ Len(s) \in 1 .. Len(s)
          /\ s = SubSeq(s, 1, Len(s))
          /\ <<>> = SubSeq(s, Len(s) + 1, Len(s))
    BY EmptySeq, SubSeqFull, SubSeqEmpty
  <2>9. /\ Len(Inbox(t)) \in 1 .. Len(Inbox(t))
        /\ inputs[h] = SubSeq(Inbox(t), 1, Len(Inbox(t)))
        /\ Rest(t)' = SubSeq(Inbox(t), Len(Inbox(t)) + 1, Len(Inbox(t)))
    BY <2>2, <2>4, <2>6, <2>8
  <2>10. QED
    BY <1>1, <2>1, <2>7, <2>9, PicksUpMaps
<1>6. CASE PickQueued(w, t)
  <2> DEFINE h == Head(queue[t])
  <2>1. /\ queue[t] \in Seq(Request) /\ queue[t] # <<>>
        /\ h = queue[t][1] /\ 1 \in 1 .. Len(queue[t]) /\ h \in Request
        /\ Tail(queue[t]) \in Seq(Request) /\ queue[t] = <<h>> \o Tail(queue[t])
    BY <1>1, <1>6 DEF PickQueued, TypeOK
  <2>2. thread[h] = t /\ status[h] = "queued" /\ inputs[h] = <<h>>
    BY <1>2, <2>1 DEF QueueInv
  <2>3. PicksUp(w, t, h)
    BY <1>1, <1>6, <2>1, <2>2 DEF PickQueued, EnterRun, PicksUp
  <2>4. First(t) = <<>> /\ Rest(t) = queue[t]
    BY <1>6 DEF PickQueued, First, Rest
  <2>5. Inbox(t) = <<h>> \o Tail(queue[t])
    BY <2>1, <2>4 DEF Inbox
  <2>6. Rest(t)' = Tail(queue[t])
    BY <1>1, <1>6 DEF PickQueued, Rest, TypeOK
  <2>7. \A u \in Thread \ {t} : takeover'[u] = takeover[u] /\ queue'[u] = queue[u]
    BY <1>1, <1>6 DEF PickQueued, TypeOK
  <2>8. /\ 1 \in 1 .. Len(Inbox(t))
        /\ inputs[h] = SubSeq(Inbox(t), 1, 1)
        /\ Rest(t)' = SubSeq(Inbox(t), 1 + 1, Len(Inbox(t)))
    BY <2>1, <2>2, <2>5, <2>6, HeadAndRest
  <2>9. QED
    BY <1>1, <2>1, <2>3, <2>7, <2>8, PicksUpMaps
<1>7. QED
  BY <1>3, <1>4, <1>5, <1>6 DEF Pick

LEMMA SettleMaps ==
    ASSUME TypeOK, Ownership, NEW w \in Task, WorkerFrame, UNCHANGED <<clock, history>>,
           NEW t \in Thread, t = wthread[w], NEW h \in Request, h = wreq[w], Settle(w)
    PROVE  Service!Next
<1>1. /\ t \in Thread /\ h \in Request /\ active[t] = h /\ h # NoRequest
      /\ status[h] \in Terminal
  BY ConstantsAssumption DEF Settle, Ownership, TaskInv, Running, TypeOK
<1>2. /\ active'[t] = NoRequest /\ \A u \in Thread \ {t} : active'[u] = active[u]
      /\ UNCHANGED <<status, queue, takeover>>
  BY <1>1 DEF Settle, TypeOK
<1>3. \A u \in Thread \ {t} : Same(u)
  BY <1>2, SameWhen DEF WorkerFrame
<1>4. InUse(t) = TRUE /\ Unwritten(t) = <<>> /\ First(t) = <<>>
  BY <1>1 DEF InUse, Unwritten, First, Terminal
<1>5. InUse(t)' = FALSE /\ Unwritten(t)' = <<>> /\ First(t)' = <<>>
  BY <1>2 DEF InUse, Unwritten, First
<1>6. Inbox(t)' = Inbox(t)
  BY <1>2, <1>4, <1>5 DEF Inbox, Rest, WorkerFrame
<1>7. QED
  BY <1>1, <1>3, <1>4, <1>5, <1>6, ReleaseMaps DEF WorkerFrame

LEMMA WorkerMaps ==
    ASSUME TypeOK, Ownership, NEW w \in Task, WorkerStep(w)
    PROVE  Service!Next \/ UNCHANGED Service!vars
<1>1. WorkerFrame /\ UNCHANGED <<clock, history>>
  BY DEF WorkerStep, WorkerFrame, storeVars, ghostVars
<1>2. CASE CancelNew(w)
  <2>1. ASSUME NEW u \in Thread PROVE Same(u)
    BY <1>1, <1>2, SamePlaces DEF CancelNew, WorkerFrame
  <2>2. QED
    BY <1>1, <2>1, StutterMaps DEF WorkerFrame
<1>3. CASE RunDetached(w)
  <2>1. /\ wreq[w] \in Request /\ thread[wreq[w]] = NoThread
        /\ \A x \in Request \ {wreq[w]} : status'[x] = status[x]
    BY <1>3 DEF RunDetached, EnterRun, Ownership, TaskInv, TypeOK
  <2>2. ASSUME NEW u \in Thread PROVE Same(u)
    BY <1>1, <1>3, <2>1, RunElsewhere, ConstantsAssumption DEF RunDetached, WorkerFrame
  <2>3. QED
    BY <1>1, <2>2, StutterMaps DEF WorkerFrame
<1>4. CASE Pick(w) /\ UNCHANGED wthread
  BY <1>1, <1>4, PickMaps
<1>5. CASE Settle(w)
  <2>1. wthread[w] \in Thread /\ wreq[w] \in Request
    BY <1>5 DEF Settle, Ownership, TaskInv, Running, TypeOK
  <2>2. QED
    BY <1>1, <1>5, <2>1, SettleMaps
<1>6. QED
  BY <1>2, <1>3, <1>4, <1>5 DEF WorkerStep

-----------------------------------------------------------------------------
(* The turn *)

\* Only the start of the rounds writes to the history.
LEMMA TurnHistory ==
    ASSUME NEW w \in Task, TurnStep(w), ~BeginRounds(w)
    PROVE  history' = history
  BY DEF TurnStep, Acquire, Prepare, PrepareInterrupted, PrepareFails, JudgeInterrupted,
     JudgeFails, Answer, RoundsInterrupted, RoundsFail, Complete, WrapupFails, Cancelled,
     storeVars

\* A turn that goes on without writing its messages has not done so yet, or
\* has done so before.
LEMMA TurnAdvances ==
    ASSUME TypeOK, Ownership, NEW w \in Task, TurnStep(w), ~BeginRounds(w),
           \A outcome \in Terminal, rec \in Record : ~Ends(w, outcome, rec)
    PROVE  /\ status' = status
           /\ record[wreq[w]] \in {"none", "started"}
                <=> record'[wreq[w]] \in {"none", "started"}
<1>1. PICK where \in Engine : Moves(w, where)
  BY TurnShape
<1>2. /\ pc'[w] \in Engine /\ status' = status /\ wreq[w] \in Request
      /\ record[wreq[w]] = RecordAt[pc[w]]
  BY <1>1 DEF Moves, Advance, Ownership, TaskInv, Running, TypeOK
<1>3. ~(\E outcome \in Status : EndRun(w, outcome))
  BY <1>2 DEF EndRun, TaskGone, Engine, TypeOK
<1>4. Acquire(w) \/ Prepare(w) \/ Answer(w)
  BY <1>3 DEF TurnStep, PrepareInterrupted, PrepareFails, JudgeInterrupted, JudgeFails,
     RoundsInterrupted, RoundsFail, Complete, WrapupFails, Cancelled, Status
<1>5. QED
  BY <1>2, <1>4 DEF Acquire, Prepare, Answer, SetRecord, RecordAt, TypeOK, storeVars

\* A step of a turn: the run goes on with history as it is, or writes its
\* messages, or ends.
LEMMA TurnMaps ==
    ASSUME TypeOK, Ownership, NEW w \in Task, TurnStep(w)
    PROVE  Service!Next \/ UNCHANGED Service!vars
<1>1. PICK h \in Request, t \in Thread \cup {NoThread} :
        /\ h = wreq[w] /\ t = wthread[w] /\ thread[h] = t /\ h # NoRequest
        /\ pc[w] \in {"waiting"} \cup Engine
        /\ status[h] = "running" /\ record[h] = RecordAt[pc[w]]
        /\ t \in Thread => active[t] = h
  BY TurnShape, ConstantsAssumption DEF Moves, Ends, Ownership, TaskInv, Running, TypeOK
<1>2. UNCHANGED <<inputs, active, takeover, queue, clock, ticket>>
  BY DEF TurnStep, threadVars, ghostVars
<1>3. \A x \in Request \ {h} : status'[x] = status[x] /\ record'[x] = record[x]
  <2>1. \/ \E where \in Engine : Moves(w, where)
        \/ \E outcome \in Terminal, rec \in Record : Ends(w, outcome, rec)
    BY TurnShape
  <2>2. status \in [Request -> Status] /\ record \in [Request -> Record]
    BY DEF TypeOK
  <2>3. CASE \E where \in Engine : Moves(w, where)
    BY <1>1, <2>2, <2>3 DEF Moves, Advance, SetRecord
  <2>4. CASE \E outcome \in Terminal, rec \in Record : Ends(w, outcome, rec)
    BY <1>1, <2>2, <2>4 DEF Ends, EndRun, SetRecord
  <2>5. QED
    BY <2>1, <2>3, <2>4
<1>4. \A u \in Thread \ {t} : Same(u)
  BY <1>1, <1>2, <1>3, RunElsewhere
<1>5. CASE t = NoThread
  <2>1. history' = history
    BY <1>1, <1>5, TurnHistory DEF BeginRounds
  <2>2. \A u \in Thread : Same(u)
    BY <1>4, <1>5, ConstantsAssumption
  <2>3. QED
    BY <1>2, <2>1, <2>2, StutterMaps
<1>6. CASE t \in Thread
  <2>1. /\ First(t) = <<>> /\ InUse(t) = TRUE
        /\ Unwritten(t) = IF record[h] \in {"none", "started"} THEN inputs[h] ELSE <<>>
    BY <1>1, <1>6 DEF First, InUse, Unwritten
  <2>2. inputs[h] # <<>>
    BY <1>1, <1>6 DEF Ownership, ActiveInv
  <2>3. ASSUME status'[h] # "queued"
        PROVE  Inbox(t)' = Inbox(t) /\ InUse(t)' = TRUE
    <3>1. First(t)' = <<>> /\ InUse(t)' = TRUE
      BY <1>1, <1>2, <1>6, <2>3 DEF First, InUse
    <3>2. Rest(t)' = Rest(t)
      BY <1>2 DEF Rest
    <3>3. QED
      BY <2>1, <3>1, <3>2 DEF Inbox
  <2>4. CASE BeginRounds(w)
    <3>1. /\ status' = status /\ record'[h] = "open" /\ record[h] = "started"
          /\ history' = [history EXCEPT ![t] = @ \o inputs[h]]
      BY <1>1, <1>6, <2>4, ConstantsAssumption
      DEF BeginRounds, SetRecord, Advance, RecordAt, TypeOK
    <3>2. Unwritten(t)' = <<>>
      BY <1>1, <1>2, <1>6, <3>1 DEF Unwritten
    <3>3. QED
      BY <1>1, <1>2, <1>4, <1>6, <2>1, <2>2, <2>3, <3>1, <3>2, RecordMaps
  <2>5. CASE ~BeginRounds(w) /\ \A outcome \in Terminal, rec \in Record :
                                 ~Ends(w, outcome, rec)
    <3>1. history' = history
      BY <2>5, TurnHistory
    <3>2. /\ status' = status
          /\ record[h] \in {"none", "started"} <=> record'[h] \in {"none", "started"}
      BY <1>1, <2>5, TurnAdvances
    <3>3. Unwritten(t)' = Unwritten(t)
      BY <1>1, <1>2, <1>6, <2>1, <3>2 DEF Unwritten
    <3>4. Same(t)
      BY <1>1, <2>1, <2>3, <3>2, <3>3 DEF Same
    <3>5. QED
      BY <1>2, <1>4, <3>1, <3>4, StutterMaps
  <2>6. CASE ~BeginRounds(w) /\ \E outcome \in Terminal, rec \in Record :
                                 Ends(w, outcome, rec)
    <3>1. history' = history
      BY <2>6, TurnHistory
    <3>2. status'[h] \in Terminal
      BY <1>1, <2>6 DEF Ends, EndRun, TypeOK
    <3>3. Unwritten(t)' = <<>>
      BY <1>1, <1>2, <1>6, <3>2 DEF Unwritten, Terminal
    <3>4. Inbox(t)' = Inbox(t) /\ InUse(t)' = TRUE
      BY <2>3, <3>2 DEF Terminal
    <3>5. CASE Unwritten(t) = <<>>
      <4>1. Same(t)
        BY <2>1, <3>3, <3>4, <3>5 DEF Same
      <4>2. QED
        BY <1>2, <1>4, <3>1, <4>1, StutterMaps
    <3>6. CASE Unwritten(t) # <<>>
      BY <1>2, <1>4, <1>6, <2>1, <3>1, <3>3, <3>4, <3>6, DropMaps
    <3>7. QED
      BY <3>5, <3>6
  <2>7. QED
    BY <2>4, <2>5, <2>6
<1>7. QED
  BY <1>1, <1>5, <1>6

-----------------------------------------------------------------------------
(* Every step *)

LEMMA StepMaps == Inv /\ [Next]_vars => [Service!Next]_(Service!vars)
<1> SUFFICES ASSUME Inv, [Next]_vars PROVE Service!Next \/ UNCHANGED Service!vars
  OBVIOUS
<1>1. TypeOK /\ Ownership
  BY DEF Inv
<1>2. CASE \E r \in Request, t \in Thread, c \in Conflict : SubmitTurn(r, t, c)
  BY <1>1, <1>2, SubmitMaps
<1>3. CASE \E r \in Request : SubmitDetached(r)
  BY <1>1, <1>3, DetachedMaps
<1>4. CASE \E w \in Task : WorkerStep(w)
  BY <1>1, <1>4, WorkerMaps
<1>5. CASE \E w \in Task : TurnStep(w)
  BY <1>1, <1>5, TurnMaps
<1>6. CASE Aclose \/ AcloseReturns \/ UNCHANGED vars
  <2>1. UNCHANGED <<active, takeover, queue, inputs, status, record, history, clock,
                    ticket>>
    BY <1>6 DEF Aclose, AcloseReturns, vars, handleVars, threadVars, storeVars, ghostVars
  <2>2. QED
    BY <2>1, SamePlaces, StutterMaps
<1>7. QED
  BY <1>2, <1>3, <1>4, <1>5, <1>6 DEF Next

\* The supervisor of turn_manager.py is a TurnService, for any number of
\* threads, calls, tasks and permits.
THEOREM Refines == Spec => ImplementsService
<1>1. Spec => Service!Init /\ [][Service!Next]_(Service!vars)
  BY InitMaps, StepMaps, Invariance, PTL DEF Spec
<1>2. QED
  BY <1>1 DEF ImplementsService, Service!Spec

-----------------------------------------------------------------------------
(* The order of messages *)

ServiceInv == Service!TypeOK /\ Service!InOrder /\ Service!LanesAccepted

-----------------------------------------------------------------------------
(* Facts about the sequences a lane is made of. *)

\* The elements of a concatenation of three sequences, by position.
LEMMA ConcatElement ==
    ASSUME NEW S, NEW a \in Seq(S), NEW b \in Seq(S), NEW c \in Seq(S)
    PROVE  /\ a \o b \o c \in Seq(S)
           /\ Len(a \o b \o c) = Len(a) + Len(b) + Len(c)
           /\ \A i \in 1 .. Len(a \o b \o c) :
                (a \o b \o c)[i] =
                    IF i <= Len(a) THEN a[i]
                    ELSE IF i <= Len(a) + Len(b) THEN b[i - Len(a)]
                    ELSE c[i - Len(a) - Len(b)]
<1>1. a \o b \in Seq(S) /\ Len(a \o b) = Len(a) + Len(b)
  OBVIOUS
<1>2. \A i \in 1 .. Len(a \o b) :
        (a \o b)[i] = IF i <= Len(a) THEN a[i] ELSE b[i - Len(a)]
  OBVIOUS
<1>3. QED
  BY <1>1, <1>2

\* Appending to the last of three sequences appends to their concatenation.
LEMMA AppendToLane ==
    ASSUME NEW S, NEW a \in Seq(S), NEW b \in Seq(S), NEW c \in Seq(S), NEW x \in S
    PROVE  a \o b \o Append(c, x) = Append(a \o b \o c, x)
<1> DEFINE l == a \o b \o Append(c, x)  r == Append(a \o b \o c, x)
<1>1. l \in Seq(S) /\ r \in Seq(S) /\ Len(l) = Len(r)
  OBVIOUS
<1>2. \A i \in 1 .. Len(l) : l[i] = r[i]
  OBVIOUS
<1> HIDE DEF l, r
<1>3. l = r
  BY <1>1, <1>2, SeqEqual
<1> QED
  BY <1>3 DEF l, r

\* A batch and what follows it can be joined.
LEMMA JoinInLane ==
    ASSUME NEW S, NEW a \in Seq(S), NEW u \in Seq(S), NEW v \in Seq(S)
    PROVE  a \o u \o v = a \o <<>> \o (u \o v)
<1>1. a \o <<>> = a
  OBVIOUS
<1>2. a \o u \o v = a \o (u \o v)
  BY ConcatAssociative
<1>3. QED
  BY <1>1, <1>2

\* Cutting a batch from the front of an inbox does not change the lane.
LEMMA CutInLane ==
    ASSUME NEW S, NEW a \in Seq(S), NEW s \in Seq(S), NEW n \in 1 .. Len(s)
    PROVE  a \o SubSeq(s, 1, n) \o SubSeq(s, n + 1, Len(s)) = a \o <<>> \o s
<1>1. SubSeq(s, 1, n) \in Seq(S) /\ SubSeq(s, n + 1, Len(s)) \in Seq(S)
  OBVIOUS
<1>2. SubSeq(s, 1, n) \o SubSeq(s, n + 1, Len(s)) = s
  OBVIOUS
<1>3. PICK u \in Seq(S), v \in Seq(S) :
        u = SubSeq(s, 1, n) /\ v = SubSeq(s, n + 1, Len(s))
  BY <1>1
<1>4. u \o v = s
  BY <1>2, <1>3
<1>5. a \o u \o v = a \o <<>> \o (u \o v)
  BY JoinInLane, SMTT(60)
<1>6. QED
  BY <1>3, <1>4, <1>5

-----------------------------------------------------------------------------

LEMMA ServiceInitInv == Service!Init => ServiceInv
  BY DEF Service!Init, ServiceInv, Service!TypeOK, Service!InOrder,
     Service!LanesAccepted, Service!Lane

LEMMA ServiceStepTypeOK == Service!TypeOK /\ [Service!Next]_(Service!vars) => Service!TypeOK'
<1> SUFFICES ASSUME Service!TypeOK, [Service!Next]_(Service!vars) PROVE Service!TypeOK'
  OBVIOUS
<1> USE DEF Service!TypeOK
<1>1. ASSUME NEW t \in Thread, NEW r \in Request, Service!Accept(t, r) PROVE Service!TypeOK'
  BY <1>1 DEF Service!Accept
<1>2. ASSUME NEW t \in Thread, NEW n \in 1 .. Len(ServiceInbox[t]), Service!Start(t, n)
      PROVE  Service!TypeOK'
  BY <1>2, SMTT(40) DEF Service!Start
<1>3. ASSUME NEW t \in Thread, Service!Record(t) PROVE Service!TypeOK'
  BY <1>3 DEF Service!Record
<1>4. ASSUME NEW t \in Thread, Service!Drop(t) PROVE Service!TypeOK'
  BY <1>4 DEF Service!Drop
<1>5. ASSUME NEW t \in Thread, Service!Release(t) PROVE Service!TypeOK'
  BY <1>5 DEF Service!Release
<1>6. CASE UNCHANGED Service!vars
  BY <1>6 DEF Service!vars
<1>7. QED
  BY <1>1, <1>2, <1>3, <1>4, <1>5, <1>6 DEF Service!Next

-----------------------------------------------------------------------------
(* The order of a lane. *)

\* Lane t is in order and holds accepted messages only.
LaneOK(t) ==
    /\ \A i \in 1 .. Len(Service!Lane(t)) : ticket[Service!Lane(t)[i]] \in 1 .. clock
    /\ \A i, j \in 1 .. Len(Service!Lane(t)) :
          i < j => ticket[Service!Lane(t)[i]] < ticket[Service!Lane(t)[j]]

LEMMA LaneOKIsServiceInv == ServiceInv <=> Service!TypeOK /\ \A t \in Thread : LaneOK(t)
  BY DEF ServiceInv, Service!InOrder, Service!LanesAccepted, LaneOK

LEMMA LaneType ==
    ASSUME Service!TypeOK, NEW t \in Thread
    PROVE  Service!Lane(t) \in Seq(Request)
  BY ConcatElement DEF Service!TypeOK, Service!Lane

\* A lane that does not change stays in order when the tickets in it do not.
LEMMA LaneKept ==
    ASSUME Service!TypeOK, NEW t \in Thread, LaneOK(t), Service!Lane(t)' = Service!Lane(t),
           clock' \in Nat, clock' >= clock,
           \A i \in 1 .. Len(Service!Lane(t)) : ticket'[Service!Lane(t)[i]] = ticket[Service!Lane(t)[i]]
    PROVE  LaneOK(t)'
  BY LaneType DEF LaneOK, Service!TypeOK

\* A new message is in no lane, so its ticket disturbs none; and it is last.
LEMMA AcceptKeepsLane ==
    ASSUME ServiceInv, NEW t \in Thread, NEW r \in Request, Service!Accept(t, r),
           NEW u \in Thread
    PROVE  LaneOK(u)'
<1> USE DEF Service!Accept, Service!TypeOK
<1>1. Service!TypeOK /\ LaneOK(u) /\ Service!Lane(u) \in Seq(Request)
  BY LaneOKIsServiceInv, LaneType
<1>2. \A i \in 1 .. Len(Service!Lane(u)) :
        Service!Lane(u)[i] # r /\ ticket'[Service!Lane(u)[i]] = ticket[Service!Lane(u)[i]]
  BY <1>1 DEF LaneOK
<1>3. CASE u # t
  <2>1. Service!Lane(u)' = Service!Lane(u)
    BY <1>1, <1>3 DEF Service!Lane
  <2>2. QED
    BY <2>1, <1>1, <1>2, LaneKept
<1>4. CASE u = t
  <2>1. Service!Lane(t)' = history[t] \o ServiceBatch[t] \o Append(ServiceInbox[t], r)
    BY <1>1 DEF Service!Lane
  <2>2. Service!Lane(t)' = Append(Service!Lane(t), r)
    BY <1>1, <2>1, AppendToLane, SMTT(60) DEF Service!Lane
  <2>3. /\ Len(Service!Lane(t)') = Len(Service!Lane(t)) + 1
        /\ Service!Lane(t)'[Len(Service!Lane(t)) + 1] = r
        /\ \A i \in 1 .. Len(Service!Lane(t)) : Service!Lane(t)'[i] = Service!Lane(t)[i]
    BY <2>2, <1>1, <1>4
  <2>4. ticket'[r] = clock + 1 /\ clock' = clock + 1 /\ clock \in Nat
    BY <1>1
  <2> HIDE DEF Service!Accept
  <2>a. /\ LaneOK(t)
        /\ \A i \in 1 .. Len(Service!Lane(t)) : ticket'[Service!Lane(t)'[i]] = ticket[Service!Lane(t)[i]]
    BY <1>1, <1>2, <1>4, <2>3
  <2>5. \A i \in 1 .. Len(Service!Lane(t)) : ticket'[Service!Lane(t)'[i]] \in 1 .. clock
    BY <2>a DEF LaneOK
  <2>6. \A i, j \in 1 .. Len(Service!Lane(t)) :
            i < j => ticket'[Service!Lane(t)'[i]] < ticket'[Service!Lane(t)'[j]]
    BY <2>a DEF LaneOK
  <2>7. \A i \in 1 .. Len(Service!Lane(t)') :
            i \in 1 .. Len(Service!Lane(t)) \/ i = Len(Service!Lane(t)) + 1
    BY <2>3, <1>1, <1>4
  <2>8. \A i \in 1 .. Len(Service!Lane(t)') : ticket'[Service!Lane(t)'[i]] \in 1 .. clock'
    BY <2>3, <2>4, <2>5, <2>7
  <2>9. \A i, j \in 1 .. Len(Service!Lane(t)') :
            i < j => ticket'[Service!Lane(t)'[i]] < ticket'[Service!Lane(t)'[j]]
    <3> SUFFICES ASSUME NEW i \in 1 .. Len(Service!Lane(t)'), NEW j \in 1 .. Len(Service!Lane(t)'),
                        i < j
                 PROVE  ticket'[Service!Lane(t)'[i]] < ticket'[Service!Lane(t)'[j]]
      OBVIOUS
    <3>1. Len(Service!Lane(t)) \in Nat
      BY <1>1, <1>4
    <3>2. i \in 1 .. Len(Service!Lane(t))
      BY <2>3, <2>7, <3>1
    <3>3. CASE j \in 1 .. Len(Service!Lane(t))
      BY <3>2, <3>3, <2>6
    <3>4. CASE j = Len(Service!Lane(t)) + 1
      BY <3>2, <3>4, <2>3, <2>4, <2>5
    <3>5. QED
      BY <2>7, <3>3, <3>4
  <2>10. QED
    BY <2>8, <2>9, <1>4 DEF LaneOK
<1>5. QED
  BY <1>3, <1>4

\* Taking a batch and writing it move a border inside the lane.
LEMMA StartKeepsLane ==
    ASSUME Service!TypeOK, NEW t \in Thread, NEW n \in 1 .. Len(ServiceInbox[t]), Service!Start(t, n),
           NEW u \in Thread
    PROVE  Service!Lane(u)' = Service!Lane(u)
<1>1. CASE u # t
  BY <1>1 DEF Service!Start, Service!TypeOK, Service!Lane
<1>2. CASE u = t
  <2>1. /\ history[t] \in Seq(Request) /\ ServiceInbox[t] \in Seq(Request)
        /\ ServiceBatch[t] = <<>>
        /\ history'[t] = history[t]
        /\ ServiceBatch'[t] = SubSeq(ServiceInbox[t], 1, n)
        /\ ServiceInbox'[t] = SubSeq(ServiceInbox[t], n + 1, Len(ServiceInbox[t]))
    BY DEF Service!Start, Service!TypeOK
  <2>2. history[t] \o SubSeq(ServiceInbox[t], 1, n)
          \o SubSeq(ServiceInbox[t], n + 1, Len(ServiceInbox[t]))
          = history[t] \o <<>> \o ServiceInbox[t]
    BY <2>1, CutInLane
  <2>3. QED
    BY <1>2, <2>1, <2>2 DEF Service!Lane
<1>3. QED
  BY <1>1, <1>2

LEMMA RecordKeepsLane ==
    ASSUME Service!TypeOK, NEW t \in Thread, Service!Record(t), NEW u \in Thread
    PROVE  Service!Lane(u)' = Service!Lane(u)
<1>1. CASE u # t
  BY <1>1 DEF Service!Record, Service!TypeOK, Service!Lane
<1>2. CASE u = t
  <2>1. /\ history[t] \in Seq(Request) /\ ServiceInbox[t] \in Seq(Request)
        /\ ServiceBatch[t] \in Seq(Request)
        /\ history'[t] = history[t] \o ServiceBatch[t] /\ ServiceBatch'[t] = <<>>
        /\ ServiceInbox'[t] = ServiceInbox[t]
    BY DEF Service!Record, Service!TypeOK
  <2>2. history'[t] \o <<>> = history'[t]
    BY <2>1
  <2>3. QED
    BY <1>2, <2>1, <2>2 DEF Service!Lane
<1>3. QED
  BY <1>1, <1>2

\* Dropping a batch takes a piece out of the middle of the lane.
LEMMA DropKeepsLane ==
    ASSUME ServiceInv, NEW t \in Thread, Service!Drop(t), NEW u \in Thread
    PROVE  LaneOK(u)'
<1>1. Service!TypeOK /\ LaneOK(u) /\ Service!Lane(u) \in Seq(Request)
  BY LaneOKIsServiceInv, LaneType
<1>2. ticket' = ticket /\ clock' = clock
  BY DEF Service!Drop
<1>3. CASE u # t
  <2>1. Service!Lane(u)' = Service!Lane(u)
    BY <1>1, <1>3 DEF Service!Drop, Service!TypeOK, Service!Lane
  <2>2. QED
    BY <2>1, <1>1, <1>2 DEF LaneOK
<1>4. CASE u = t
  <2> DEFINE a == history[t]  b == ServiceBatch[t]  c == ServiceInbox[t]
             old(i) == IF i <= Len(a) THEN i ELSE i + Len(b)
  <2>1. a \in Seq(Request) /\ b \in Seq(Request) /\ c \in Seq(Request)
    BY <1>1 DEF Service!TypeOK
  <2>2. Service!Lane(t)' = a \o <<>> \o c /\ Service!Lane(t) = a \o b \o c
    BY <1>1 DEF Service!Drop, Service!TypeOK, Service!Lane
  <2>3. /\ Len(Service!Lane(t)') = Len(a) + Len(c)
        /\ \A i \in 1 .. Len(Service!Lane(t)') :
             Service!Lane(t)'[i] = IF i <= Len(a) THEN a[i] ELSE c[i - Len(a)]
    <3>1. a \o <<>> = a
      BY <2>1
    <3> HIDE DEF a, b, c
    <3>2. QED
      BY <2>1, <2>2, <3>1
  <2>4. /\ Len(Service!Lane(t)) = Len(a) + Len(b) + Len(c)
        /\ \A i \in 1 .. Len(Service!Lane(t)) :
             Service!Lane(t)[i] = IF i <= Len(a) THEN a[i]
                          ELSE IF i <= Len(a) + Len(b) THEN b[i - Len(a)]
                          ELSE c[i - Len(a) - Len(b)]
    <3> HIDE DEF a, b, c
    <3>1. QED
      BY <2>1, <2>2, ConcatElement
  <2>5. \A i \in 1 .. Len(Service!Lane(t)') :
          old(i) \in 1 .. Len(Service!Lane(t)) /\ Service!Lane(t)'[i] = Service!Lane(t)[old(i)]
    <3> HIDE DEF a, b, c
    <3>1. Len(a) \in Nat /\ Len(b) \in Nat /\ Len(c) \in Nat
      BY <2>1
    <3> SUFFICES ASSUME NEW i \in 1 .. Len(Service!Lane(t)')
                 PROVE  old(i) \in 1 .. Len(Service!Lane(t)) /\ Service!Lane(t)'[i] = Service!Lane(t)[old(i)]
      OBVIOUS
    <3>2. old(i) \in 1 .. Len(Service!Lane(t))
      BY <2>3, <2>4, <3>1
    <3>3. CASE i <= Len(a)
      BY <3>1, <3>2, <3>3, <2>3, <2>4
    <3>4. CASE i > Len(a)
      <4>1. old(i) = i + Len(b) /\ (i + Len(b)) - Len(a) - Len(b) = i - Len(a)
        BY <3>1, <3>4, <2>3
      <4>2. ~(old(i) <= Len(a)) /\ ~(old(i) <= Len(a) + Len(b))
        BY <3>1, <3>4, <4>1, <2>3
      <4>3. Service!Lane(t)[old(i)] = c[i - Len(a)]
        BY <3>2, <4>1, <4>2, <2>4
      <4>4. Service!Lane(t)'[i] = c[i - Len(a)]
        BY <3>1, <3>4, <2>3
      <4>5. QED
        BY <3>2, <4>3, <4>4
    <3>5. QED
      BY <3>1, <3>3, <3>4, <2>3
  <2>6. \A i, j \in 1 .. Len(Service!Lane(t)') : i < j => old(i) < old(j)
    <3> HIDE DEF a, b, c
    <3>1. Len(a) \in Nat /\ Len(b) \in Nat /\ Len(c) \in Nat
      BY <2>1
    <3>2. QED
      BY <3>1, <2>3
  <2>7. QED
    <3> HIDE DEF old, a, b, c
    <3>1. QED
      BY <1>1, <1>2, <1>4, <2>5, <2>6, ZenonT(60) DEF LaneOK
<1>5. QED
  BY <1>3, <1>4

LEMMA ServiceStepInv == ServiceInv /\ [Service!Next]_(Service!vars) => ServiceInv'
<1> SUFFICES ASSUME ServiceInv, [Service!Next]_(Service!vars) PROVE ServiceInv'
  OBVIOUS
<1>1. Service!TypeOK /\ Service!TypeOK' /\ \A u \in Thread : LaneOK(u)
  BY ServiceStepTypeOK, LaneOKIsServiceInv DEF ServiceInv
<1> SUFFICES ASSUME NEW u \in Thread PROVE LaneOK(u)'
  BY <1>1 DEF ServiceInv, Service!InOrder, Service!LanesAccepted, LaneOK
<1>2. ASSUME Service!Lane(u)' = Service!Lane(u), ticket' = ticket, clock' = clock PROVE LaneOK(u)'
  BY <1>1, <1>2 DEF LaneOK
<1>3. ASSUME NEW t \in Thread, NEW r \in Request, Service!Accept(t, r) PROVE LaneOK(u)'
  BY <1>3, AcceptKeepsLane
<1>4. ASSUME NEW t \in Thread, NEW n \in 1 .. Len(ServiceInbox[t]), Service!Start(t, n)
      PROVE  LaneOK(u)'
  <2>1. ticket' = ticket /\ clock' = clock
    BY <1>4 DEF Service!Start
  <2>2. QED
    BY <1>1, <1>2, <1>4, <2>1, StartKeepsLane
<1>5. ASSUME NEW t \in Thread, Service!Record(t) PROVE LaneOK(u)'
  <2>1. ticket' = ticket /\ clock' = clock
    BY <1>5 DEF Service!Record
  <2>2. QED
    BY <1>1, <1>2, <1>5, <2>1, RecordKeepsLane
<1>6. ASSUME NEW t \in Thread, Service!Drop(t) PROVE LaneOK(u)'
  BY <1>6, DropKeepsLane
<1>7. ASSUME NEW t \in Thread, Service!Release(t) PROVE LaneOK(u)'
  <2>1. Service!Lane(u)' = Service!Lane(u) /\ ticket' = ticket /\ clock' = clock
    BY <1>7 DEF Service!Release, Service!Lane
  <2>2. QED
    BY <2>1, <1>2
<1>8. CASE UNCHANGED Service!vars
  <2>1. Service!Lane(u)' = Service!Lane(u) /\ ticket' = ticket /\ clock' = clock
    BY <1>8 DEF Service!vars, Service!Lane
  <2>2. QED
    BY <2>1, <1>2
<1>9. QED
  BY <1>3, <1>4, <1>5, <1>6, <1>7, <1>8 DEF Service!Next

-----------------------------------------------------------------------------
\* Written, being taken or waiting, the messages of a thread are in the order of
\* the calls: what submit_turn, the queue and the takeover buffer are for.  The
\* supervisor inherits it from TurnService, which it implements.
THEOREM OrderOfCalls == Spec => []MessagesInOrder
<1>1. ServiceInv => MessagesInOrder
  BY DEF ServiceInv, MessagesInOrder
<1>2. Spec => Service!Init /\ [][Service!Next]_(Service!vars)
  BY Refines DEF ImplementsService, Service!Spec
<1>3. QED
  BY <1>1, <1>2, ServiceInitInv, ServiceStepInv, PTL

-----------------------------------------------------------------------------

\* A step of a worker only starts handles that were queued.
LEMMA WorkerStatus ==
    ASSUME Inv, NEW w \in Task, WorkerStep(w), NEW x \in Request, status'[x] # status[x]
    PROVE  status[x] = "queued" /\ status'[x] = "running"
<1> USE DEF Inv
<1>1. CASE CancelNew(w) \/ Settle(w)
  BY <1>1 DEF CancelNew, Settle
<1>2. CASE RunDetached(w)
  BY <1>2 DEF RunDetached, EnterRun, Ownership, TaskInv, TypeOK
<1>3. CASE Pick(w)
  <2> DEFINE t == wthread[w]
  <2>1. t \in Thread /\ TakeoverInv(t) /\ QueueInv(t)
    BY <1>3 DEF Pick, TypeOK, Ownership
  <2>2. CASE PickActive(w, t)
    BY <2>1, <2>2 DEF PickActive, EnterRun, TypeOK
  <2>3. CASE LeaveToOther(w, t) \/ NothingToPick(w, t)
    BY <2>3 DEF LeaveToOther, NothingToPick
  <2>4. CASE PickTakeover(w, t)
    BY <2>1, <2>4 DEF PickTakeover, EnterRun, TakeoverInv, TypeOK
  <2>5. CASE PickQueued(w, t)
    <3>1. Head(queue[t]) = queue[t][1] /\ 1 \in 1 .. Len(queue[t])
      BY <2>1, <2>5 DEF PickQueued, TypeOK
    <3>2. QED
      BY <2>1, <2>5, <3>1 DEF PickQueued, EnterRun, QueueInv, TypeOK
  <2>6. QED
    BY <1>3, <2>2, <2>3, <2>4, <2>5 DEF Pick
<1>4. QED
  BY <1>1, <1>2, <1>3 DEF WorkerStep

\* A step of a turn only ends the handle it runs, and sets its event.
LEMMA TurnStatus ==
    ASSUME Inv, NEW w \in Task, TurnStep(w), NEW x \in Request, status'[x] # status[x]
    PROVE  /\ x = wreq[w] /\ pc[w] \in {"waiting"} \cup Engine
           /\ status[x] = "running" /\ status'[x] \in Terminal
           /\ x \in done'
<1> USE DEF Inv
<1>1. CASE \E where \in Engine : Moves(w, where)
  BY <1>1 DEF Moves, Advance
<1>2. CASE \E outcome \in Terminal, rec \in Record : Ends(w, outcome, rec)
  <2>1. PICK outcome \in Terminal : Ends(w, outcome, record'[wreq[w]]) \/ EndRun(w, outcome)
    BY <1>2 DEF Ends
  <2>2. EndRun(w, outcome) /\ pc[w] \in {"waiting"} \cup Engine
    BY <1>2, <2>1 DEF Ends
  <2>3. status[wreq[w]] = "running" /\ wreq[w] \in Request
    BY <2>2 DEF Ownership, TaskInv, Running
  <2>4. QED
    BY <2>2, <2>3 DEF EndRun, TypeOK
<1>3. QED
  BY <1>1, <1>2, TurnShape

-----------------------------------------------------------------------------
(* What is merged is carried *)

IsCarried(r) ==
    /\ mergedInto[r] # NoRequest
    /\ status[mergedInto[r]] \notin {"new", "rejected", "merged"}
    /\ \E i \in 1 .. Len(inputs[mergedInto[r]]) : inputs[mergedInto[r]][i] = r

\* A handle that was merged, and whose carrier kept its place and its input.
LEMMA CarriedKept ==
    ASSUME Inv, MergedIsCarried, NEW r \in Request, status[r] = "merged",
           mergedInto'[r] = mergedInto[r],
           status'[mergedInto[r]] \notin {"new", "rejected", "merged"},
           inputs'[mergedInto[r]] = inputs[mergedInto[r]]
    PROVE  IsCarried(r)'
  BY DEF MergedIsCarried, IsCarried

\* A call merges only the handles it puts into the input of a takeover.
LEMMA SubmitCarried ==
    ASSUME Inv, MergedIsCarried, NEW r \in Request, NEW t \in Thread, NEW c \in Conflict,
           SubmitTurn(r, t, c)
    PROVE  MergedIsCarried'
<1> SUFFICES ASSUME NEW x \in Request, status'[x] = "merged" PROVE IsCarried(x)'
  BY DEF MergedIsCarried, IsCarried
<1> USE DEF Inv
<1>1. status[r] = "new"
  BY DEF SubmitTurn
<1>2. status[x] = "merged" =>
        mergedInto[x] \in Request \ {r} /\ x # r
          /\ status[mergedInto[x]] \notin {"new", "rejected", "merged"}
  BY <1>1 DEF MergedIsCarried, TypeOK
<1>3. CASE SubmitIdle(r, t) \/ SubmitReject(r, t, c) \/ SubmitQueue(r, t, c)
  <2>1. status[x] = "merged" /\ UNCHANGED mergedInto
    BY <1>3 DEF SubmitIdle, SubmitReject, SubmitQueue, TypeOK
  <2>2. \A y \in Request \ {r} : status'[y] = status[y] /\ inputs'[y] = inputs[y]
    BY <1>3 DEF SubmitIdle, SubmitReject, SubmitQueue, TypeOK
  <2>3. QED
    BY <1>2, <2>1, <2>2, CarriedKept
<1>4. ASSUME MergeIntoTakeover(r, t) PROVE IsCarried(x)'
  <2>1. /\ takeover[t] \in Request \ {r} /\ status[takeover[t]] = "queued"
        /\ inputs[takeover[t]] \in Seq(Request)
    BY <1>1, <1>4 DEF MergeIntoTakeover, Ownership, TakeoverInv, TypeOK
  <2> DEFINE old == inputs[takeover[t]]
  <2>2. inputs'[takeover[t]] = Append(old, r)
    BY <1>4, <2>1 DEF MergeIntoTakeover
  <2>3. /\ Len(Append(old, r)) = Len(old) + 1 /\ Len(old) \in Nat
        /\ Append(old, r)[Len(old) + 1] = r
        /\ \A i \in 1 .. Len(old) : Append(old, r)[i] = old[i]
    BY <2>1
  <2>4. CASE x = r
    <3>1. mergedInto'[x] = takeover[t] /\ status'[takeover[t]] = "queued"
      BY <1>4, <2>1, <2>4 DEF MergeIntoTakeover, MarkMerged, TypeOK
    <3>2. Len(old) + 1 \in 1 .. Len(inputs'[takeover[t]])
      BY <2>2, <2>3
    <3>3. inputs'[takeover[t]][Len(old) + 1] = r
      BY <2>2, <2>3
    <3>4. QED
      BY <2>1, <2>4, <3>1, <3>2, <3>3, ConstantsAssumption DEF IsCarried
  <2>5. CASE x # r
    <3>1. status[x] = "merged" /\ mergedInto'[x] = mergedInto[x]
      BY <1>4, <2>5 DEF MergeIntoTakeover, MarkMerged, TypeOK
    <3>2. status'[mergedInto[x]] = status[mergedInto[x]]
      BY <1>2, <1>4, <3>1 DEF MergeIntoTakeover, TypeOK
    <3>3. CASE mergedInto[x] = takeover[t]
      <4>1. PICK i \in 1 .. Len(old) : old[i] = x
        BY <3>1, <3>3 DEF MergedIsCarried
      <4>2. i \in 1 .. Len(inputs'[takeover[t]]) /\ inputs'[takeover[t]][i] = x
        BY <2>2, <2>3, <4>1
      <4>3. mergedInto'[x] = takeover[t] /\ takeover[t] # NoRequest
        BY <2>1, <3>1, <3>3, ConstantsAssumption
      <4>4. QED
        BY <1>2, <3>1, <3>2, <4>2, <4>3 DEF IsCarried
    <3>4. CASE mergedInto[x] # takeover[t]
      <4>1. inputs'[mergedInto[x]] = inputs[mergedInto[x]]
        BY <1>2, <1>4, <3>1, <3>4 DEF MergeIntoTakeover, TypeOK
      <4>2. QED
        BY <1>2, <3>1, <3>2, <4>1, CarriedKept
    <3>5. QED
      BY <3>3, <3>4
  <2>6. QED
    BY <2>4, <2>5
<1>5. ASSUME AbsorbQueue(r, t, c) PROVE IsCarried(x)'
  <2> DEFINE pending == {queue[t][i] : i \in 1 .. Len(queue[t])}
  <2>1. QueueInv(t) /\ queue[t] \in Seq(Request)
    BY DEF Ownership, TypeOK
  <2>2. inputs' = [inputs EXCEPT ![r] = Append(queue[t], r)]
    BY <1>5, <2>1, AbsorbQueueType DEF AbsorbQueue
  <2>3. \A y \in pending : y \in Request \ {r} /\ status[y] = "queued" /\ inputs[y] = <<y>>
    <3>1. \A i \in 1 .. Len(queue[t]) :
            queue[t][i] \in Request /\ status[queue[t][i]] = "queued"
              /\ inputs[queue[t][i]] = <<queue[t][i]>>
      BY <2>1 DEF QueueInv
    <3> SUFFICES ASSUME NEW i \in 1 .. Len(queue[t])
                 PROVE  queue[t][i] \in Request \ {r} /\ status[queue[t][i]] = "queued"
                          /\ inputs[queue[t][i]] = <<queue[t][i]>>
      OBVIOUS
    <3>2. QED
      BY <1>1, <3>1
  <2>4. CASE x \in pending
    <3>1. PICK i \in 1 .. Len(queue[t]) : queue[t][i] = x
      BY <2>4
    <3>2. inputs'[r] = Append(queue[t], r)
      BY <2>2 DEF TypeOK
    <3>3. i \in 1 .. Len(inputs'[r]) /\ inputs'[r][i] = x
      BY <2>1, <3>1, <3>2
    <3>4. mergedInto'[x] = r /\ status'[r] = "queued"
      BY <1>5, <2>4 DEF AbsorbQueue, MarkMerged, TypeOK
    <3>5. QED
      BY <3>3, <3>4, ConstantsAssumption DEF IsCarried
  <2>5. CASE x \notin pending
    <3>1. status[x] = "merged" /\ mergedInto'[x] = mergedInto[x]
      BY <1>5, <2>5 DEF AbsorbQueue, MarkMerged, TypeOK
    <3>2. mergedInto[x] \notin pending
      <4>1. PICK i \in 1 .. Len(inputs[mergedInto[x]]) : inputs[mergedInto[x]][i] = x
        BY <3>1 DEF MergedIsCarried
      <4>2. SUFFICES ASSUME mergedInto[x] \in pending PROVE FALSE
        OBVIOUS
      <4>3. inputs[mergedInto[x]] = <<mergedInto[x]>> /\ status[mergedInto[x]] = "queued"
        BY <2>3, <4>2
      <4>4. x = mergedInto[x]
        BY <4>1, <4>3
      <4>5. QED
        BY <3>1, <4>3, <4>4
    <3>3. status'[mergedInto[x]] = status[mergedInto[x]]
      BY <1>2, <1>5, <3>1, <3>2 DEF AbsorbQueue, TypeOK
    <3>4. inputs'[mergedInto[x]] = inputs[mergedInto[x]]
      BY <1>2, <2>2, <3>1 DEF TypeOK
    <3>5. QED
      BY <1>2, <3>1, <3>3, <3>4, CarriedKept
  <2>6. QED
    BY <2>4, <2>5
<1>6. QED
  BY <1>3, <1>4, <1>5 DEF SubmitTurn, SubmitJoin, SubmitTakeover, JoinTakeover

LEMMA StepCarried == Inv /\ MergedIsCarried /\ [Next]_vars => MergedIsCarried'
<1> SUFFICES ASSUME Inv, MergedIsCarried, [Next]_vars PROVE MergedIsCarried'
  OBVIOUS
<1>1. ASSUME UNCHANGED <<inputs, mergedInto>>,
             \A x \in Request : status'[x] = status[x]
                \/ status'[x] \notin {"new", "rejected", "merged"}
      PROVE  MergedIsCarried'
  <2> SUFFICES ASSUME NEW x \in Request, status'[x] = "merged" PROVE IsCarried(x)'
    BY DEF MergedIsCarried, IsCarried
  <2>1. status[x] = "merged" /\ mergedInto[x] \in Request
    BY <1>1 DEF MergedIsCarried, Inv, TypeOK
  <2>2. status'[mergedInto[x]] \notin {"new", "rejected", "merged"}
    BY <1>1, <2>1 DEF MergedIsCarried
  <2>3. QED
    BY <1>1, <2>1, <2>2, CarriedKept
<1>2. ASSUME NEW r \in Request, NEW t \in Thread, NEW c \in Conflict, SubmitTurn(r, t, c)
      PROVE  MergedIsCarried'
  BY <1>2, SubmitCarried
<1>3. ASSUME NEW r \in Request, SubmitDetached(r) PROVE MergedIsCarried'
  <2> SUFFICES ASSUME NEW x \in Request, status'[x] = "merged" PROVE IsCarried(x)'
    BY DEF MergedIsCarried, IsCarried
  <2>1. status[r] = "new" /\ status[x] = "merged" /\ x # r
    BY <1>3 DEF SubmitDetached, Inv, TypeOK
  <2>2. mergedInto[x] \in Request \ {r}
    BY <2>1 DEF MergedIsCarried, Inv, TypeOK
  <2>3. status'[mergedInto[x]] = status[mergedInto[x]]
        /\ inputs'[mergedInto[x]] = inputs[mergedInto[x]] /\ mergedInto'[x] = mergedInto[x]
    BY <1>3, <2>2 DEF SubmitDetached, Inv, TypeOK
  <2>4. QED
    BY <2>1, <2>3, CarriedKept DEF MergedIsCarried
<1>4. ASSUME NEW w \in Task, WorkerStep(w) PROVE MergedIsCarried'
  BY <1>1, <1>4, WorkerStatus DEF WorkerStep
<1>5. ASSUME NEW w \in Task, TurnStep(w) PROVE MergedIsCarried'
  BY <1>1, <1>5, TurnStatus DEF TurnStep, Terminal
<1>6. CASE Aclose \/ AcloseReturns \/ UNCHANGED vars
  BY <1>1, <1>6 DEF Aclose, AcloseReturns, vars, handleVars
<1>7. QED
  BY <1>2, <1>3, <1>4, <1>5, <1>6 DEF Next

\* A call that returns "merged" is answered by another turn: its message is in the
\* input of the handle it names, which was not itself merged away.
THEOREM MergedAreCarried == Spec => []MergedIsCarried
<1>1. Init => MergedIsCarried
  BY DEF Init, MergedIsCarried
<1>2. QED
  BY <1>1, Invariance, StepCarried, PTL DEF Spec

-----------------------------------------------------------------------------
(* What is completed is written *)

\* Every message of the handle is in the history of the thread.
Wrote(r, t) ==
    \A i \in 1 .. Len(inputs[r]) : \E j \in 1 .. Len(history[t]) :
        history[t][j] = inputs[r][i]

\* The turns between the storing of their messages and their end.
WrittenInv ==
    \A w \in Task : pc[w] \in {"rounds", "wrapup"} /\ wthread[w] # NoThread =>
        Wrote(wreq[w], wthread[w])

Written == WrittenInv /\ CompletedIsWritten

\* History only grows, and a message once there stays.
LEMMA WroteKept ==
    ASSUME TypeOK, NEW r \in Request, NEW t \in Thread, Wrote(r, t), inputs'[r] = inputs[r],
           \/ history'[t] = history[t]
           \/ \E s \in Seq(Request) : history'[t] = history[t] \o s
    PROVE  Wrote(r, t)'
<1>1. CASE history'[t] = history[t]
  BY <1>1 DEF Wrote
<1>2. ASSUME NEW s \in Seq(Request), history'[t] = history[t] \o s PROVE Wrote(r, t)'
  <2>1. history[t] \in Seq(Request)
    BY DEF TypeOK
  <2>2. \A j \in 1 .. Len(history[t]) :
          j \in 1 .. Len(history'[t]) /\ history'[t][j] = history[t][j]
    BY <1>2, <2>1
  <2>3. QED
    BY <2>2 DEF Wrote
<1>3. QED
  BY <1>1, <1>2

\* A call changes the input of handles that are new or queued only, and it moves
\* no task into a turn.
LEMMA CallInputs ==
    ASSUME Inv, NEW r \in Request, NEW t \in Thread, NEW c \in Conflict, SubmitTurn(r, t, c)
    PROVE  /\ \A x \in Request : status[x] \in {"running"} \cup Terminal =>
                 inputs'[x] = inputs[x] /\ thread'[x] = thread[x]
           /\ \A x \in Request : status'[x] \in Terminal => status[x] = status'[x]
           /\ \A w \in Task : pc'[w] \in {"rounds", "wrapup"} =>
                 pc[w] = pc'[w] /\ wreq'[w] = wreq[w] /\ wthread'[w] = wthread[w]
<1> USE DEF Inv
<1>1. status[r] = "new"
  BY DEF SubmitTurn
<1>2. ASSUME MergeIntoTakeover(r, t)
      PROVE  /\ \A x \in Request : status[x] \in {"running"} \cup Terminal =>
                   inputs'[x] = inputs[x]
             /\ \A x \in Request : status'[x] \in Terminal => status[x] = status'[x]
  <2>1. status[takeover[t]] = "queued"
    BY <1>2 DEF MergeIntoTakeover, Ownership, TakeoverInv
  <2>2. QED
    BY <1>1, <1>2, <2>1 DEF MergeIntoTakeover, Terminal, TypeOK
<1>3. /\ \A x \in Request : status[x] \in {"running"} \cup Terminal => inputs'[x] = inputs[x]
      /\ \A x \in Request : status'[x] \in Terminal => status[x] = status'[x]
  <2>1. CASE SubmitIdle(r, t) \/ SubmitReject(r, t, c) \/ SubmitQueue(r, t, c)
    BY <1>1, <2>1 DEF SubmitIdle, SubmitReject, SubmitQueue, Terminal, TypeOK
  <2>2. CASE AbsorbQueue(r, t, c)
    <3>1. \A x \in Request \ {r} : inputs'[x] = inputs[x]
      BY <2>2 DEF AbsorbQueue, TypeOK
    <3>2. \A x \in Request : status'[x] \in {"queued", "merged", status[x]}
      BY <2>2 DEF AbsorbQueue, TypeOK
    <3>3. QED
      BY <1>1, <3>1, <3>2 DEF Terminal
  <2>3. QED
    BY <1>2, <2>1, <2>2 DEF SubmitTurn, SubmitJoin, SubmitTakeover, JoinTakeover
<1>4. \A x \in Request \ {r} : thread'[x] = thread[x]
  BY DEF SubmitTurn, SubmitIdle, SubmitReject, SubmitQueue, SubmitJoin, SubmitTakeover,
         NewHandle, TypeOK
<1>5. EnsureWorker(t, pc) \/ UNCHANGED <<pc, wthread, wreq>>
  BY DEF SubmitTurn, SubmitIdle, SubmitReject, SubmitQueue, SubmitJoin, SubmitTakeover
<1>6. \A w \in Task : pc'[w] \in {"rounds", "wrapup"} =>
        pc[w] = pc'[w] /\ wreq'[w] = wreq[w] /\ wthread'[w] = wthread[w]
  <2>1. CASE UNCHANGED <<pc, wthread, wreq>>
    BY <2>1
  <2>2. CASE EnsureWorker(t, pc)
    <3> SUFFICES ASSUME NEW w \in Task, pc'[w] \in {"rounds", "wrapup"}
                 PROVE  pc[w] = pc'[w] /\ wreq'[w] = wreq[w] /\ wthread'[w] = wthread[w]
      OBVIOUS
    <3>1. CASE UNCHANGED <<worker, pc, wthread, wreq>>
      BY <3>1
    <3>2. CASE ~UNCHANGED <<worker, pc, wthread, wreq>>
      <4>1. PICK n \in Task :
              /\ pc'[n] = "new"
              /\ \A v \in Task \ {n} : wthread'[v] = wthread[v]
              /\ \A v \in Task \ {n} : wthread[v] = t /\ pc[v] # "idle" => pc'[v] = "idle"
              /\ \A v \in Task \ {n} : pc[v] = "idle" => pc'[v] = "idle"
              /\ \A v \in Task \ {n} : wthread[v] # t =>
                    pc'[v] = pc[v] /\ wreq'[v] = wreq[v]
        BY <2>2, <3>2, EnsureWorkerCases
      <4>2. QED
        BY <4>1
    <3>3. QED
      BY <3>1, <3>2
  <2>3. QED
    BY <1>5, <2>1, <2>2
<1>7. QED
  BY <1>1, <1>3, <1>4, <1>6, Zenon DEF Terminal

LEMMA StepWritten == Inv /\ Written /\ [Next]_vars => Written'
<1> SUFFICES ASSUME Inv, Written, [Next]_vars PROVE Written'
  OBVIOUS
<1> USE DEF Inv, Written
<1>1. \A w \in Task : pc[w] \in {"rounds", "wrapup"} =>
        wreq[w] \in Request /\ status[wreq[w]] = "running"
          /\ thread[wreq[w]] = wthread[w]
  BY DEF Ownership, TaskInv, Running, Engine
<1>2. ASSUME UNCHANGED history,
             \A x \in Request : status[x] \in {"running"} \cup Terminal =>
                inputs'[x] = inputs[x] /\ thread'[x] = thread[x],
             \A x \in Request : status'[x] = "completed" => status[x] = "completed",
             \A w \in Task : pc'[w] \in {"rounds", "wrapup"} =>
                pc[w] \in {"rounds", "wrapup"} /\ wreq'[w] = wreq[w]
                  /\ wthread'[w] = wthread[w]
      PROVE  Written'
  <2>1. ASSUME NEW w \in Task, pc'[w] \in {"rounds", "wrapup"}, wthread'[w] # NoThread
        PROVE  Wrote(wreq[w], wthread[w])'
    BY <1>1, <1>2, <2>1, WroteKept DEF WrittenInv, TypeOK
  <2>2. ASSUME NEW x \in Request, status'[x] = "completed", thread'[x] # NoThread
        PROVE  Wrote(x, thread[x])'
    <3>1. status[x] = "completed" /\ inputs'[x] = inputs[x] /\ thread'[x] = thread[x]
      BY <1>2, <2>2 DEF Terminal
    <3>2. Wrote(x, thread[x]) /\ thread[x] \in Thread
      BY <2>2, <3>1 DEF CompletedIsWritten, Wrote, TypeOK
    <3>3. QED
      BY <1>2, <3>1, <3>2, WroteKept DEF Wrote
  <2>3. WrittenInv'
    BY <1>2, <2>1 DEF WrittenInv, Wrote
  <2>4. CompletedIsWritten'
    BY <2>2 DEF CompletedIsWritten, Wrote
  <2>5. QED
    BY <2>3, <2>4
<1>3. ASSUME NEW r \in Request, NEW t \in Thread, NEW c \in Conflict, SubmitTurn(r, t, c)
      PROVE  Written'
  BY <1>2, <1>3, CallInputs DEF SubmitTurn, storeVars, Terminal
<1>4. ASSUME NEW r \in Request, SubmitDetached(r) PROVE Written'
  <2>1. \A w \in Task : pc'[w] \in {"rounds", "wrapup"} =>
          pc[w] = pc'[w] /\ wreq'[w] = wreq[w] /\ wthread'[w] = wthread[w]
    BY <1>4 DEF SubmitDetached, TypeOK
  <2>2. \A x \in Request \ {r} : inputs'[x] = inputs[x] /\ status'[x] = status[x]
    BY <1>4 DEF SubmitDetached, TypeOK
  <2>3. status[r] = "new" /\ status'[r] = "queued" /\ UNCHANGED <<thread, history>>
    BY <1>4 DEF SubmitDetached, storeVars, TypeOK
  <2>4. QED
    BY <1>2, <2>1, <2>2, <2>3 DEF Terminal
<1>5. ASSUME NEW w \in Task, WorkerStep(w) PROVE Written'
  <2>1. UNCHANGED <<inputs, thread, history>>
    BY <1>5 DEF WorkerStep, storeVars
  <2>2. \A x \in Request : status'[x] = "completed" => status[x] = "completed"
    BY <1>5, WorkerStatus
  <2>3. \A v \in Task : pc'[v] \in {"rounds", "wrapup"} =>
          pc[v] = pc'[v] /\ wreq'[v] = wreq[v] /\ wthread'[v] = wthread[v]
    <3>1. CASE CancelNew(w) \/ RunDetached(w)
      BY <1>5, <3>1 DEF WorkerStep, CancelNew, RunDetached, EnterRun, TaskGone, Settle, TypeOK
    <3>2. CASE Pick(w)
      BY <1>5, <3>2 DEF WorkerStep, Pick, PickActive, LeaveToOther, PickTakeover, PickQueued,
            NothingToPick, EnterRun, TaskGone, Settle, TypeOK
    <3>3. CASE Settle(w)
      <4>1. worker[wthread[w]] = w /\ w # NoTask /\ pc[w] = "finished"
        BY <3>3, ConstantsAssumption DEF Settle, Ownership, TaskInv, WorkerInv
      <4>2. QED
        BY <3>3, <4>1 DEF Settle, EnsureWorker, TaskGone, TypeOK
    <3>4. QED
      BY <1>5, <3>1, <3>2, <3>3 DEF WorkerStep
  <2>4. QED
    BY <1>2, <2>1, <2>2, <2>3
<1>6. ASSUME NEW w \in Task, TurnStep(w) PROVE Written'
  <2>1. /\ UNCHANGED <<inputs, thread, wthread>>
        /\ \A v \in Task \ {w} : pc'[v] = pc[v] /\ wreq'[v] = wreq[v]
    <3>1. TurnFrame
      BY <1>6, TurnShape
    <3>2. \A v \in Task \ {w} : pc'[v] = pc[v] /\ wreq'[v] = wreq[v]
      <4>1. CASE \E where \in Engine : Moves(w, where)
        BY <4>1 DEF Moves, Advance, TypeOK
      <4>2. CASE \E outcome \in Terminal, rec \in Record : Ends(w, outcome, rec)
        BY <4>2 DEF Ends, EndRun, TaskGone, TypeOK
      <4>3. QED
        BY <1>6, <4>1, <4>2, TurnShape
    <3>3. QED
      BY <3>1, <3>2 DEF TurnFrame
  <2>2. CASE BeginRounds(w)
    <3> DEFINE r == wreq[w]  t == wthread[w]
    <3>4. UNCHANGED <<status, wreq>>
      BY <2>2 DEF BeginRounds, Advance
    <3>1. pc[w] = "prepared" /\ r \in Request /\ inputs[r] \in Seq(Request)
      BY <2>2 DEF BeginRounds, Ownership, TaskInv, Running, Engine, TypeOK
    <3>2. \A u \in Thread : history'[u] = history[u]
                            \/ \E s \in Seq(Request) : history'[u] = history[u] \o s
      BY <2>2, <3>1 DEF BeginRounds, TypeOK
    <3>3. t # NoThread => Wrote(r, t)'
      <4> SUFFICES ASSUME t \in Thread PROVE Wrote(r, t)'
        BY DEF TypeOK
      <4>1. history'[t] = history[t] \o inputs[r] /\ history[t] \in Seq(Request)
        BY <2>2, ConstantsAssumption DEF BeginRounds, TypeOK
      <4> DEFINE a == history[t]  b == inputs[r]
      <4>2. \A i \in 1 .. Len(b) :
              Len(a) + i \in 1 .. Len(a \o b) /\ (a \o b)[Len(a) + i] = b[i]
        <5>1. a \in Seq(Request) /\ b \in Seq(Request)
          BY <3>1, <4>1
        <5> HIDE DEF a, b
        <5>2. QED
          BY <5>1
      <4>3. ASSUME NEW i \in 1 .. Len(b)
            PROVE  \E j \in 1 .. Len(history'[t]) : history'[t][j] = b[i]
        BY <4>1, <4>2
      <4>4. r' = r /\ t' = t /\ inputs' = inputs
        BY <2>1, <3>4
      <4>5. QED
        BY <4>3, <4>4 DEF Wrote
    <3>5. ASSUME NEW v \in Task, pc'[v] \in {"rounds", "wrapup"}, wthread'[v] # NoThread
          PROVE  Wrote(wreq[v], wthread[v])'
      <4>1. CASE v = w
        BY <2>1, <3>3, <3>4, <3>5, <4>1 DEF Wrote
      <4>2. CASE v # w
        <5>1. Wrote(wreq[v], wthread[v]) /\ wreq[v] \in Request /\ wthread[v] \in Thread
          BY <1>1, <2>1, <3>5, <4>2 DEF WrittenInv, TypeOK
        <5>2. /\ inputs'[wreq[v]] = inputs[wreq[v]] /\ wreq'[v] = wreq[v]
              /\ wthread'[v] = wthread[v]
          BY <2>1, <3>4
        <5>3. QED
          <6>1. PICK r0 \in Request, t0 \in Thread : r0 = wreq[v] /\ t0 = wthread[v]
            BY <5>1
          <6>2. Wrote(r0, t0)'
            BY <3>2, <5>1, <5>2, <6>1, WroteKept
          <6>3. QED
            BY <5>2, <6>1, <6>2 DEF Wrote
      <4>3. QED
        BY <4>1, <4>2
    <3>6. ASSUME NEW x \in Request, status'[x] = "completed", thread'[x] # NoThread
          PROVE  Wrote(x, thread[x])'
      <4>1. Wrote(x, thread[x]) /\ thread[x] \in Thread
        BY <2>1, <3>4, <3>6 DEF CompletedIsWritten, Wrote, TypeOK
      <4>2. QED
        BY <2>1, <3>2, <4>1, WroteKept DEF Wrote
    <3>7. WrittenInv'
      BY <3>5 DEF WrittenInv, Wrote
    <3>8. CompletedIsWritten'
      BY <3>6 DEF CompletedIsWritten, Wrote
    <3>9. QED
      BY <3>7, <3>8
  <2>3. CASE Complete(w)
    <3> DEFINE r == wreq[w]
    <3>1. /\ pc[w] = "wrapup" /\ r \in Request /\ UNCHANGED history
          /\ pc'[w] \in {"idle", "finished"}
          /\ \A x \in Request \ {r} : status'[x] = status[x]
      BY <1>1, <2>3 DEF Complete, EndRun, TaskGone, storeVars, TypeOK
    <3>2. ASSUME NEW v \in Task, pc'[v] \in {"rounds", "wrapup"}, wthread'[v] # NoThread
          PROVE  Wrote(wreq[v], wthread[v])'
      <4>1. v # w /\ pc[v] = pc'[v] /\ wreq'[v] = wreq[v] /\ wthread' = wthread
        BY <2>1, <3>1, <3>2
      <4>2. /\ Wrote(wreq[v], wthread[v]) /\ wreq[v] \in Request
            /\ wthread[v] \in Thread
        BY <1>1, <3>2, <4>1 DEF WrittenInv, TypeOK
      <4>3. QED
        BY <2>1, <3>1, <4>1, <4>2, WroteKept DEF Wrote
    <3>3. ASSUME NEW x \in Request, status'[x] = "completed", thread'[x] # NoThread
          PROVE  Wrote(x, thread[x])'
      <4>1. Wrote(x, thread[x]) /\ thread[x] \in Thread
        <5>1. CASE x = r
          BY <1>1, <2>1, <3>1, <3>3, <5>1 DEF WrittenInv, TypeOK
        <5>2. CASE x # r
          BY <2>1, <3>1, <3>3, <5>2 DEF CompletedIsWritten, Wrote, TypeOK
        <5>3. QED
          BY <5>1, <5>2
      <4>2. QED
        BY <2>1, <3>1, <4>1, WroteKept DEF Wrote
    <3>4. WrittenInv'
      BY <3>2 DEF WrittenInv, Wrote
    <3>5. CompletedIsWritten'
      BY <3>3 DEF CompletedIsWritten, Wrote
    <3>6. QED
      BY <3>4, <3>5
  <2>4. CASE ~BeginRounds(w) /\ ~Complete(w)
    <3>1. UNCHANGED history
      BY <1>6, <2>4 DEF TurnStep, Acquire, Prepare, PrepareInterrupted, PrepareFails,
            JudgeInterrupted, JudgeFails, Answer, RoundsInterrupted, RoundsFail,
            WrapupFails, Cancelled, storeVars
    <3>2. /\ pc'[w] \in {"rounds", "wrapup"} => pc[w] = "rounds" /\ wreq'[w] = wreq[w]
          /\ \A x \in Request : status'[x] = "completed" => status[x] = "completed"
      <4>1. CASE Acquire(w) \/ Prepare(w) \/ Answer(w)
        BY <4>1 DEF Acquire, Prepare, Answer, Advance, TypeOK
      <4>2. ASSUME NEW o \in {"failed", "interrupted", "cancelled"}, EndRun(w, o)
            PROVE  /\ pc'[w] \notin {"rounds", "wrapup"}
                   /\ \A x \in Request : status'[x] = "completed" => status[x] = "completed"
        BY <4>2 DEF EndRun, TaskGone, TypeOK
      <4>3. QED
        BY <1>6, <2>4, <4>1, <4>2 DEF TurnStep, PrepareInterrupted, PrepareFails,
              JudgeInterrupted, JudgeFails, RoundsInterrupted, RoundsFail, WrapupFails,
              Cancelled
    <3>3. QED
      BY <1>2, <2>1, <3>1, <3>2
  <2>5. QED
    BY <2>2, <2>3, <2>4
<1>7. CASE Aclose \/ AcloseReturns \/ UNCHANGED vars
  BY <1>2, <1>7 DEF Aclose, AcloseReturns, vars, handleVars, taskVars, storeVars
<1>8. QED
  BY <1>3, <1>4, <1>5, <1>6, <1>7 DEF Next

\* A turn that ends "completed" left every message it carried in the history of its
\* thread, those merged into it while it waited included.
THEOREM CompletedAreWritten == Spec => []CompletedIsWritten
<1>1. Init => Written
  BY DEF Init, Written, WrittenInv, CompletedIsWritten
<1>2. Written => CompletedIsWritten
  BY DEF Written
<1>3. QED
  BY <1>1, <1>2, Invariance, StepWritten, PTL DEF Spec

\* Of every message that was accepted: a merge carries it on, and a turn on a
\* thread that is reported completed has written it (TurnManager.submit_turn,
\* AgentEngine._append_current_user_items).
THEOREM NothingIsLost == Spec => []NothingLost
<1>1. MergedIsCarried /\ CompletedIsWritten => NothingLost
  BY DEF NothingLost
<1>2. QED
  BY <1>1, MergedAreCarried, CompletedAreWritten, PTL

-----------------------------------------------------------------------------
(* Nothing is stranded *)

\* Before aclose nothing is cancelled, and a turn that was taken up is run by the
\* worker of its thread.
OpenInv ==
    closing = "open" =>
        /\ kill = {}
        /\ \A r \in Request : status[r] # "cancelled"
        /\ \A t \in Thread : active[t] # NoRequest /\ status[active[t]] # "queued" =>
              worker[t] # NoTask /\ Running(worker[t])

\* A handle that has a result has its event.
DoneInv == \A r \in Request : status[r] \in Terminal \cup {"merged"} => r \in done

Attended == OpenInv /\ DoneInv /\ NothingStranded

\* Where a handle that is not finished can be found.
OnThread(r, t) ==
    r = active[t] \/ r = takeover[t] \/ \E i \in 1 .. Len(queue[t]) : queue[t][i] = r

Detached(r) == \E w \in Task : Alive(w) /\ wthread[w] = NoThread /\ wreq[w] = r

Waits(r) == status[r] \notin {"new", "rejected"} /\ r \notin done

HasWorker(t) == worker[t] # NoTask /\ Alive(worker[t]) /\ wthread[worker[t]] = t

Findable(r) == (thread[r] # NoThread /\ OnThread(r, thread[r])) \/ Detached(r)

LEMMA StrandedMeans ==
    NothingStranded <=> (closing = "open" =>
        /\ \A t \in Thread : Busy(t) => HasWorker(t)
        /\ \A r \in Request : Waits(r) => Findable(r))
  BY DEF NothingStranded, WorkHasWorker, NoHandleForgotten, HasWorker, Waits, Findable,
         OnThread, Detached

\* A call that starts a worker leaves its thread with a live one, and disturbs
\* neither the workers of other threads that live nor the detached tasks.
LEMMA EnsureWorkerWorks ==
    ASSUME Inv, NEW t \in Thread, EnsureWorker(t, pc)
    PROVE  /\ HasWorker(t)'
           /\ \A u \in Thread \ {t} : HasWorker(u) => HasWorker(u)'
           /\ \A r \in Request : Detached(r) => Detached(r)'
           /\ \A u \in Thread : worker[u] # NoTask /\ Running(worker[u]) =>
                 worker'[u] = worker[u] /\ Running(worker[u])'
<1> USE DEF Inv
<1>1. CASE worker[t] = NoTask \/ pc[worker[t]] = "over"
  <2>1. PICK n \in Task :
          /\ pc[n] = "idle"
          /\ worker' = [worker EXCEPT ![t] = n]
          /\ pc' = [x \in Task |-> IF x = n THEN "new"
                                  ELSE IF x = worker[t] THEN "idle" ELSE pc[x]]
          /\ wthread' = [wthread EXCEPT ![n] = t]
          /\ wreq' = [x \in Task |-> IF x \in {n, worker[t]} THEN NoRequest ELSE wreq[x]]
    BY <1>1 DEF EnsureWorker
  <2>2. n # NoTask /\ t # NoThread
    BY ConstantsAssumption
  <2>3. \A v \in Task : Alive(v) =>
          v # n /\ v # worker[t] /\ pc'[v] = pc[v] /\ wthread'[v] = wthread[v]
            /\ wreq'[v] = wreq[v]
    BY <1>1, <2>1, <2>2, ConstantsAssumption DEF Alive, TypeOK
  <2>4. HasWorker(t)'
    BY <2>1, <2>2 DEF HasWorker, Alive, TypeOK
  <2>5. \A u \in Thread \ {t} : HasWorker(u) => HasWorker(u)'
    BY <2>1, <2>3 DEF HasWorker, Alive, TypeOK
  <2>6. \A r \in Request : Detached(r) => Detached(r)'
    BY <2>3 DEF Detached, Alive
  <2>7. ASSUME NEW u \in Thread, worker[u] # NoTask, Running(worker[u])
        PROVE  worker'[u] = worker[u] /\ Running(worker[u])'
    <3>1. worker[u] \in Task /\ Alive(worker[u])
      BY <2>7 DEF Running, Engine, Alive, TypeOK
    <3>2. u # t
      BY <1>1, <2>7, <3>1 DEF Alive
    <3>3. worker'[u] = worker[u]
      BY <2>1, <3>2 DEF TypeOK
    <3>4. QED
      BY <2>3, <2>7, <3>1, <3>3 DEF Running
  <2>8. QED
    BY <2>4, <2>5, <2>6, <2>7
<1>2. CASE ~(worker[t] = NoTask \/ pc[worker[t]] = "over")
  <2>1. UNCHANGED <<worker, pc, wthread, wreq>>
    BY <1>2 DEF EnsureWorker
  <2>2. HasWorker(t)
    BY <1>2 DEF HasWorker, Alive, Ownership, WorkerInv
  <2>3. QED
    BY <2>1, <2>2 DEF HasWorker, Alive, Detached, Running
<1>3. QED
  BY <1>1, <1>2

\* Where a call leaves the handles: each that waited and was not merged keeps its
\* place, and the new one has one.
LEMMA SubmitPlaces ==
    ASSUME Inv, DoneInv, NEW r \in Request, NEW t \in Thread, NEW c \in Conflict,
           SubmitTurn(r, t, c)
    PROVE  /\ DoneInv'
           /\ \A x \in Request : status'[x] # "cancelled" \/ status[x] = "cancelled"
           /\ \A u \in Thread \ {t} : active'[u] = active[u] /\ takeover'[u] = takeover[u]
                                      /\ queue'[u] = queue[u]
           /\ \A u \in Thread : active'[u] # NoRequest /\ status'[active'[u]] # "queued" =>
                 active'[u] = active[u] /\ status[active[u]] # "queued"
           /\ \A x \in Request : Waits(x)' =>
                 \/ thread'[x] = t /\ OnThread(x, t)'
                 \/ Waits(x) /\ x # r /\ thread'[x] = thread[x]
                      /\ (OnThread(x, t) => OnThread(x, t)')
<1> USE DEF Inv
<1>1. status[r] = "new" /\ thread[r] = NoThread
  BY DEF SubmitTurn, Ownership, HandleInv
<1>2. \A u \in Thread : active[u] # r
  BY <1>1, NoThreadNoPlace
<1>3. CASE SubmitIdle(r, t)
  <2>1. status'[r] = "queued" /\ thread'[r] = t /\ active'[t] = r
    BY <1>3 DEF SubmitIdle, NewHandle, TypeOK
  <2>2. /\ \A x \in Request \ {r} : status'[x] = status[x] /\ thread'[x] = thread[x]
        /\ \A u \in Thread \ {t} : active'[u] = active[u]
        /\ UNCHANGED <<done, takeover, queue>>
    BY <1>3 DEF SubmitIdle, NewHandle, TypeOK
  <2>3. \A x \in Request : ~OnThread(x, t)
    BY <1>3, ConstantsAssumption DEF SubmitIdle, Busy, OnThread
  <2>4. QED
    BY <1>2, <2>1, <2>2, <2>3 DEF DoneInv, Terminal, Waits, OnThread, TypeOK
<1>4. CASE SubmitReject(r, t, c)
  <2>1. /\ status' = [status EXCEPT ![r] = "rejected"]
        /\ UNCHANGED <<thread, done, active, takeover, queue>>
    BY <1>4 DEF SubmitReject, threadVars
  <2>2. QED
    BY <1>2, <2>1 DEF DoneInv, Terminal, Waits, OnThread, TypeOK
<1>5. CASE SubmitQueue(r, t, c)
  <2>1. /\ status'[r] = "queued" /\ thread'[r] = t /\ queue'[t] = Append(queue[t], r)
        /\ queue[t] \in Seq(Request)
    BY <1>5 DEF SubmitQueue, NewHandle, TypeOK
  <2>2. /\ \A x \in Request \ {r} : status'[x] = status[x] /\ thread'[x] = thread[x]
        /\ \A u \in Thread \ {t} : queue'[u] = queue[u]
        /\ UNCHANGED <<done, active, takeover>>
    BY <1>5 DEF SubmitQueue, NewHandle, TypeOK
  <2>3. OnThread(r, t)' /\ \A x \in Request : OnThread(x, t) => OnThread(x, t)'
    <3>1. /\ Len(queue[t]) + 1 \in 1 .. Len(queue'[t])
          /\ queue'[t][Len(queue[t]) + 1] = r
          /\ \A i \in 1 .. Len(queue[t]) : i \in 1 .. Len(queue'[t])
                                           /\ queue'[t][i] = queue[t][i]
      BY <2>1
    <3>2. QED
      BY <2>2, <3>1 DEF OnThread
  <2>4. QED
    BY <1>2, <2>1, <2>2, <2>3 DEF DoneInv, Terminal, Waits, TypeOK
<1>6. ASSUME MergeIntoTakeover(r, t), NewHandle(r, t), UNCHANGED <<active, queue, takeover>>
      PROVE  /\ DoneInv'
             /\ \A x \in Request : status'[x] # "cancelled" \/ status[x] = "cancelled"
             /\ \A u \in Thread : active'[u] # NoRequest /\ status'[active'[u]] # "queued" =>
                   active'[u] = active[u] /\ status[active[u]] # "queued"
             /\ \A x \in Request : Waits(x)' =>
                   Waits(x) /\ x # r /\ thread'[x] = thread[x]
                      /\ (OnThread(x, t) => OnThread(x, t)')
  <2>1. /\ status'[r] = "merged" /\ done' = done \cup {r}
        /\ \A x \in Request \ {r} : status'[x] = status[x] /\ thread'[x] = thread[x]
    BY <1>6 DEF MergeIntoTakeover, MarkMerged, NewHandle, TypeOK
  <2>2. QED
    BY <1>2, <1>6, <2>1 DEF DoneInv, Terminal, Waits, OnThread, TypeOK
<1>7. CASE SubmitJoin(r, t, c)
  BY <1>6, <1>7 DEF SubmitJoin, threadVars
<1>8. CASE SubmitTakeover(r, t, c)
  <2>1. CASE JoinTakeover(r, t, c)
    BY <1>6, <1>8, <2>1 DEF SubmitTakeover, JoinTakeover
  <2>2. CASE AbsorbQueue(r, t, c)
    <3> DEFINE pending == {queue[t][i] : i \in 1 .. Len(queue[t])}
    <3>1. /\ \A x \in Request : status'[x] = IF x = r THEN "queued"
                                             ELSE IF x \in pending THEN "merged"
                                             ELSE status[x]
          /\ done' = done \cup pending
          /\ takeover[t] = NoRequest /\ takeover'[t] = r
          /\ \A u \in Thread \ {t} : takeover'[u] = takeover[u] /\ queue'[u] = queue[u]
          /\ active' = active
          /\ thread'[r] = t
          /\ \A x \in Request \ {r} : thread'[x] = thread[x]
      BY <1>8, <2>2 DEF SubmitTakeover, AbsorbQueue, MarkMerged, NewHandle, TypeOK
    <3>2. DoneInv'
      BY <3>1 DEF DoneInv, Terminal
    <3>3. \A x \in Request : Waits(x)' /\ x # r =>
            Waits(x) /\ thread'[x] = thread[x] /\ (OnThread(x, t) => OnThread(x, t)')
      BY <3>1, ConstantsAssumption DEF Waits, OnThread
    <3>4. OnThread(r, t)'
      BY <3>1 DEF OnThread
    <3>5. ASSUME NEW u \in Thread, active'[u] # NoRequest, status'[active'[u]] # "queued"
          PROVE  active'[u] = active[u] /\ status[active[u]] # "queued"
      <4>1. active[u] \in Request \ {r} /\ status[active[u]] # "merged"
              /\ thread[active[u]] = u
        BY <1>2, <3>1, <3>5 DEF Ownership, ActiveInv, TypeOK
      <4>2. active[u] \notin pending
        <5>1. \A i \in 1 .. Len(queue[t]) : queue[t][i] # active[t] /\ thread[queue[t][i]] = t
          BY DEF Ownership, QueueInv
        <5>2. QED
          BY <4>1, <5>1
      <4>3. QED
        BY <3>1, <3>5, <4>1, <4>2
    <3>6. QED
      BY <3>1, <3>2, <3>3, <3>4, <3>5
  <2>3. QED
    BY <1>8, <2>1, <2>2 DEF SubmitTakeover
<1>9. /\ \A u \in Thread \ {t} : active'[u] = active[u] /\ takeover'[u] = takeover[u]
                                 /\ queue'[u] = queue[u]
  BY DEF SubmitTurn, SubmitIdle, SubmitReject, SubmitQueue, SubmitJoin, SubmitTakeover,
         AbsorbQueue, JoinTakeover, threadVars, TypeOK
<1>10. QED
  BY <1>3, <1>4, <1>5, <1>7, <1>8, <1>9 DEF SubmitTurn

LEMMA SubmitAttended ==
    ASSUME Inv, Attended, NEW r \in Request, NEW t \in Thread, NEW c \in Conflict,
           SubmitTurn(r, t, c)
    PROVE  Attended'
<1> USE DEF Attended
<1>1. SUFFICES ASSUME closing = "open" PROVE OpenInv' /\ NothingStranded'
  BY SubmitPlaces DEF SubmitTurn, closeVars, OpenInv, NothingStranded, WorkHasWorker,
     NoHandleForgotten
<1>2. UNCHANGED <<kill, closing>>
  BY DEF SubmitTurn, closeVars
<1>3. \/ EnsureWorker(t, pc)
      \/ UNCHANGED <<worker, pc, wthread, wreq>> /\ Busy(t)
  BY DEF SubmitTurn, SubmitIdle, SubmitReject, SubmitQueue, SubmitJoin, SubmitTakeover,
         threadVars
<1>4. /\ \A u \in Thread : Busy(u)' => HasWorker(u)'
      /\ \A x \in Request : Detached(x) => Detached(x)'
      /\ \A u \in Thread : worker[u] # NoTask /\ Running(worker[u]) =>
            worker'[u] = worker[u] /\ Running(worker[u])'
  <2>1. \A u \in Thread : Busy(u) => HasWorker(u)
    BY <1>1, StrandedMeans
  <2>2. \A u \in Thread \ {t} : Busy(u)' <=> Busy(u)
    BY SubmitPlaces DEF Busy
  <2>3. CASE EnsureWorker(t, pc)
    BY <2>1, <2>2, <2>3, EnsureWorkerWorks
  <2>4. CASE UNCHANGED <<worker, pc, wthread, wreq>> /\ Busy(t)
    BY <2>1, <2>2, <2>4 DEF HasWorker, Alive, Detached, Running
  <2>5. QED
    BY <1>3, <2>3, <2>4
<1>5. OpenInv'
  <2>1. \A x \in Request : status'[x] # "cancelled"
    BY <1>1, SubmitPlaces DEF OpenInv
  <2>2. ASSUME NEW u \in Thread, active'[u] # NoRequest, status'[active'[u]] # "queued"
        PROVE  worker'[u] # NoTask /\ Running(worker[u])'
    <3>1. worker[u] # NoTask /\ Running(worker[u])
      BY <1>1, <2>2, SubmitPlaces DEF OpenInv
    <3>2. QED
      BY <1>4, <3>1
  <2>3. QED
    BY <1>1, <1>2, <2>1, <2>2 DEF OpenInv
<1>6. ASSUME NEW x \in Request, Waits(x)' PROVE Findable(x)'
  <2>1. CASE thread'[x] = t /\ OnThread(x, t)'
    BY <2>1, ConstantsAssumption DEF Findable, OnThread
  <2>2. CASE Waits(x) /\ thread'[x] = thread[x] /\ (OnThread(x, t) => OnThread(x, t)')
    <3>1. Findable(x)
      BY <1>1, <2>2, StrandedMeans
    <3>2. CASE Detached(x)
      BY <1>4, <3>2 DEF Findable
    <3>3. CASE thread[x] # NoThread /\ OnThread(x, thread[x])
      <4>1. thread[x] \in Thread
        BY <3>3 DEF Inv, TypeOK
      <4>2. CASE thread[x] = t
        BY <2>2, <3>3, <4>2 DEF Findable, OnThread
      <4>3. CASE thread[x] # t
        BY <2>2, <3>3, <4>1, <4>3, SubmitPlaces DEF Findable, OnThread
      <4>4. QED
        BY <4>2, <4>3
    <3>4. QED
      BY <3>1, <3>2, <3>3 DEF Findable
  <2>3. QED
    BY <1>6, <2>1, <2>2, SubmitPlaces
<1>7. NothingStranded'
  <2>1. closing' = "open" =>
          /\ \A u \in Thread : Busy(u)' => HasWorker(u)'
          /\ \A x \in Request : Waits(x)' => Findable(x)'
    BY <1>4, <1>6
  <2>2. QED
    BY <2>1 DEF NothingStranded, WorkHasWorker, NoHandleForgotten, HasWorker, Waits,
                Findable, OnThread, Detached
<1>8. QED
  BY <1>5, <1>7

\* A step of a task w of the thread t (NoThread if detached) that keeps its worker
\* or leaves an idle thread.
LEMMA TaskAttended ==
    ASSUME Inv, OpenInv, NothingStranded, closing = "open", closing' = "open", kill' = {},
           NEW w \in Task, NEW t, t = wthread[w], UNCHANGED <<thread, wthread>>, pc[w] # "idle",
           \A v \in Task \ {w} : pc'[v] = pc[v] /\ wreq'[v] = wreq[v],
           \A x \in Request : status'[x] # status[x] =>
              status[x] \notin {"new", "rejected"} /\ status'[x] # "cancelled",
           done \subseteq done',
           \A u \in Thread \ {t} :
              UNCHANGED <<active[u], takeover[u], queue[u], worker[u]>>,
           \A u \in Thread \ {t} :
              active[u] # NoRequest /\ status'[active[u]] # "queued" =>
                 status[active[u]] # "queued",
           \A x \in Request : x \notin done' /\ t # NoThread
                              /\ OnThread(x, t) => OnThread(x, t)',
           t = NoThread =>
              (Alive(w)' /\ wreq'[w] = wreq[w]) \/ wreq[w] \in done',
           t # NoThread =>
              \/ /\ worker'[t] = w /\ Alive(w)'
                 /\ active'[t] # NoRequest
                    /\ status'[active'[t]] # "queued" => Running(w)'
              \/ ~Busy(t)'
    PROVE  OpenInv' /\ NothingStranded'
<1> USE DEF Inv
<1>1. \A u \in Thread \ {t} : worker[u] # NoTask =>
        worker[u] \in Task \ {w} /\ worker'[u] = worker[u]
  BY DEF Ownership, WorkerInv, TypeOK
<1>2. w # NoTask
  BY ConstantsAssumption
<1>3. OpenInv'
  <2>1. ASSUME NEW u \in Thread, active'[u] # NoRequest, status'[active'[u]] # "queued"
        PROVE  worker'[u] # NoTask /\ Running(worker[u])'
    <3>1. CASE u = t
      <4>1. u # NoThread /\ Busy(u)'
        BY <2>1, ConstantsAssumption DEF Busy
      <4>2. worker'[u] = w /\ Running(w)'
        BY <2>1, <3>1, <4>1
      <4>3. QED
        BY <1>2, <4>2 DEF Running
    <3>2. CASE u # t
      <4>1. worker[u] # NoTask /\ Running(worker[u])
        BY <2>1, <3>2 DEF OpenInv
      <4>2. QED
        BY <1>1, <3>2, <4>1 DEF Running
    <3>3. QED
      BY <3>1, <3>2
  <2>2. \A x \in Request : status'[x] # "cancelled"
    BY DEF OpenInv
  <2>3. QED
    BY <2>1, <2>2 DEF OpenInv
<1>4. ASSUME NEW u \in Thread, Busy(u)' PROVE HasWorker(u)'
  <2>1. CASE u = t
    <3>1. u # NoThread
      BY ConstantsAssumption
    <3>2. worker'[u] = w /\ Alive(w)'
      BY <1>4, <2>1, <3>1
    <3>3. QED
      BY <1>2, <2>1, <3>2 DEF HasWorker, Alive
  <2>2. CASE u # t
    <3>1. HasWorker(u)
      BY <1>4, <2>2, StrandedMeans DEF Busy
    <3>2. QED
      BY <1>1, <2>2, <3>1 DEF HasWorker, Alive
  <2>3. QED
    BY <2>1, <2>2
<1>5. ASSUME NEW x \in Request, Waits(x)' PROVE Findable(x)'
  <2>1. Waits(x) /\ x \notin done'
    BY <1>5 DEF Waits
  <2>2. Findable(x)
    BY <2>1, StrandedMeans
  <2>3. CASE thread[x] # NoThread /\ OnThread(x, thread[x])
    <3>1. thread[x] \in Thread
      BY <2>3 DEF TypeOK
    <3>2. CASE thread[x] = t
      BY <2>1, <2>3, <3>2 DEF Findable, OnThread
    <3>3. CASE thread[x] # t
      BY <2>3, <3>1, <3>3 DEF Findable, OnThread
    <3>4. QED
      BY <3>2, <3>3
  <2>4. CASE Detached(x)
    <3>1. PICK v \in Task : Alive(v) /\ wthread[v] = NoThread /\ wreq[v] = x
      BY <2>4 DEF Detached
    <3>2. CASE v = w
      BY <2>1, <3>1, <3>2 DEF Findable, Detached
    <3>3. CASE v # w
      BY <3>1, <3>3 DEF Findable, Detached, Alive
    <3>4. QED
      BY <3>2, <3>3
  <2>5. QED
    BY <2>2, <2>3, <2>4 DEF Findable
<1>6. NothingStranded'
  BY <1>4, <1>5 DEF NothingStranded, WorkHasWorker, NoHandleForgotten, HasWorker, Waits,
                    Findable, OnThread, Detached
<1>7. QED
  BY <1>3, <1>6

LEMMA PickAttended ==
    ASSUME Inv, Attended, closing = "open", NEW w \in Task, NEW t, t = wthread[w],
           WorkerStep(w), Pick(w)
    PROVE  OpenInv' /\ NothingStranded'
<1> USE DEF Inv, Attended
<1>1. /\ t \in Thread /\ t # NoThread /\ pc[w] \in {"new", "next"}
      /\ ActiveInv(t) /\ TakeoverInv(t) /\ QueueInv(t)
  BY DEF Pick, TypeOK, Ownership
<1>2. worker[t] = w /\ w # NoTask /\ ~Running(w)
  BY <1>1, ConstantsAssumption DEF Ownership, WorkerInv, Running, Engine
<1>3. ~(active[t] # NoRequest /\ status[active[t]] # "queued")
  BY <1>1, <1>2 DEF OpenInv
<1>4. /\ UNCHANGED <<thread, done>> /\ kill = {}
      /\ closing' = "open"
  BY DEF WorkerStep, Pick, OpenInv
<1>5. \A x \in Request : status'[x] # status[x] =>
        status[x] = "queued" /\ status'[x] = "running"
  BY WorkerStatus
<1>6. UNCHANGED wthread
  BY <1>1 DEF WorkerStep, Settle
<1>7. \A u \in Thread \ {t} : active[u] # NoRequest /\ status'[active[u]] # "queued" =>
        status[active[u]] # "queued"
  <2>1. \A x \in Request : status'[x] # status[x] => thread[x] = t
    <3>1. CASE PickActive(w, t) \/ LeaveToOther(w, t) \/ NothingToPick(w, t)
      BY <1>1, <3>1 DEF PickActive, LeaveToOther, NothingToPick, EnterRun, ActiveInv, TypeOK
    <3>2. CASE PickTakeover(w, t)
      BY <1>1, <3>2 DEF PickTakeover, EnterRun, TakeoverInv, TypeOK
    <3>3. CASE PickQueued(w, t)
      <4>1. Head(queue[t]) = queue[t][1] /\ 1 \in 1 .. Len(queue[t])
        BY <1>1, <3>3 DEF PickQueued, TypeOK
      <4>2. thread[Head(queue[t])] = t
        BY <1>1, <4>1 DEF QueueInv
      <4>3. QED
        BY <3>3, <4>2 DEF PickQueued, EnterRun, TypeOK
    <3>4. QED
      BY <3>1, <3>2, <3>3 DEF Pick
  <2>2. \A u \in Thread : active[u] # NoRequest => active[u] \in Request /\ thread[active[u]] = u
    BY DEF Ownership, ActiveInv, TypeOK
  <2>3. QED
    BY <2>1, <2>2
<1>8. ASSUME NEW h \in Request, EnterRun(w, h), active'[t] = h, UNCHANGED worker,
             UNCHANGED kill,
             \A u \in Thread \ {t} : UNCHANGED <<active[u], takeover[u], queue[u]>>,
             \A x \in Request : OnThread(x, t) => OnThread(x, t)'
      PROVE  OpenInv' /\ NothingStranded'
  <2>1. /\ \A v \in Task \ {w} : pc'[v] = pc[v] /\ wreq'[v] = wreq[v]
        /\ Alive(w)' /\ Running(w)'
    BY <1>8 DEF EnterRun, Alive, Running, TypeOK
  <2>2. QED
    BY <1>1, <1>2, <1>4, <1>5, <1>6, <1>7, <1>8, <2>1, TaskAttended
<1>9. CASE PickActive(w, t)
  BY <1>1, <1>8, <1>9 DEF PickActive, OnThread, TypeOK
<1>10. CASE LeaveToOther(w, t)
  BY <1>3, <1>10 DEF LeaveToOther
<1>11. CASE PickTakeover(w, t)
  <2>1. /\ takeover[t] \in Request /\ active'[t] = takeover[t]
        /\ EnterRun(w, takeover[t]) /\ UNCHANGED <<worker, kill, queue>>
        /\ \A u \in Thread \ {t} : UNCHANGED <<active[u], takeover[u]>>
    BY <1>1, <1>11 DEF PickTakeover, TypeOK
  <2>2. \A x \in Request : OnThread(x, t) => OnThread(x, t)'
    BY <1>11, <2>1, ConstantsAssumption DEF PickTakeover, OnThread
  <2>3. QED
    BY <1>8, <2>1, <2>2
<1>12. CASE PickQueued(w, t)
  <2>1. /\ Head(queue[t]) = queue[t][1] /\ Head(queue[t]) \in Request
        /\ \A i \in 1 .. Len(queue[t]) : i # 1 =>
             i - 1 \in 1 .. Len(Tail(queue[t])) /\ Tail(queue[t])[i - 1] = queue[t][i]
    <3>1. queue[t] \in Seq(Request) /\ queue[t] # <<>>
      BY <1>1, <1>12 DEF PickQueued, TypeOK
    <3> DEFINE q == queue[t]
    <3>2. q \in Seq(Request) /\ q # <<>>
      BY <3>1
    <3> HIDE DEF q
    <3>3. /\ Head(q) = q[1] /\ Head(q) \in Request
          /\ \A i \in 1 .. Len(q) : i # 1 =>
               i - 1 \in 1 .. Len(Tail(q)) /\ Tail(q)[i - 1] = q[i]
      BY <3>2
    <3>4. QED
      BY <3>3 DEF q
  <2>2. /\ active'[t] = Head(queue[t]) /\ queue'[t] = Tail(queue[t])
        /\ EnterRun(w, Head(queue[t])) /\ UNCHANGED <<worker, kill, takeover>>
        /\ active[t] = NoRequest
        /\ \A u \in Thread \ {t} : UNCHANGED <<active[u], queue[u]>>
    BY <1>1, <1>12 DEF PickQueued, TypeOK
  <2>3. \A x \in Request : OnThread(x, t) => OnThread(x, t)'
    BY <2>1, <2>2, ConstantsAssumption DEF OnThread
  <2>4. QED
    BY <1>8, <2>1, <2>2, <2>3
<1>13. CASE NothingToPick(w, t)
  <2>1. /\ UNCHANGED <<status, active, queue, takeover>> /\ kill' = {}
        /\ worker' = [worker EXCEPT ![t] = NoTask]
        /\ pc' = [pc EXCEPT ![w] = "idle"] /\ wreq' = [wreq EXCEPT ![w] = NoRequest]
    BY <1>4, <1>13 DEF NothingToPick, TaskGone, TaskDone
  <2>2. ~Busy(t) /\ ~Busy(t)'
    BY <1>13, <2>1 DEF NothingToPick, Busy
  <2>3. \A x \in Request : ~OnThread(x, t)
    BY <2>2, ConstantsAssumption DEF Busy, OnThread
  <2>4. /\ \A v \in Task \ {w} : pc'[v] = pc[v] /\ wreq'[v] = wreq[v]
        /\ \A u \in Thread \ {t} : worker'[u] = worker[u]
    BY <2>1 DEF TypeOK
  <2>5. QED
    BY <1>1, <1>4, <1>6, <2>1, <2>2, <2>3, <2>4, TaskAttended
<1>14. QED
  BY <1>9, <1>10, <1>11, <1>12, <1>13 DEF Pick

LEMMA SettleAttended ==
    ASSUME Inv, Attended, closing = "open", NEW w \in Task, NEW t, t = wthread[w],
           NEW h, h = wreq[w], WorkerStep(w), Settle(w)
    PROVE  OpenInv' /\ NothingStranded'
<1> USE DEF Inv, Attended
<1>1. /\ pc[w] = "finished" /\ t \in Thread /\ t # NoThread /\ h \in Request
      /\ active[t] = h /\ status[h] \in Terminal
  BY ConstantsAssumption DEF Settle, Ownership, TaskInv, Running, TypeOK
<1>2. worker[t] = w /\ w # NoTask
  BY <1>1, ConstantsAssumption DEF Ownership, WorkerInv
<1>3. h \in done /\ status[h] # "cancelled" /\ kill = {}
  BY <1>1 DEF DoneInv, OpenInv
<1>4. /\ UNCHANGED <<thread, status, done, queue, takeover>> /\ closing' = "open"
      /\ active' = [active EXCEPT ![t] = NoRequest]
  BY <1>1 DEF WorkerStep, Settle
<1>5. \A x \in Request : x \notin done' /\ OnThread(x, t) => OnThread(x, t)'
  BY <1>1, <1>3, <1>4 DEF OnThread, TypeOK
<1>6. CASE queue[t] # <<>> \/ takeover[t] # NoRequest
  <2>1. /\ pc' = [pc EXCEPT ![w] = "next"]
        /\ UNCHANGED <<worker, wthread, wreq, kill>>
    BY <1>1, <1>2, <1>3, <1>6 DEF Settle, EnsureWorker
  <2>2. Alive(w)' /\ active'[t] = NoRequest
    BY <1>1, <1>4, <2>1 DEF Alive, TypeOK
  <2>3. /\ \A v \in Task \ {w} : pc'[v] = pc[v] /\ wreq'[v] = wreq[v]
        /\ \A u \in Thread \ {t} : UNCHANGED <<active[u], takeover[u], queue[u], worker[u]>>
    BY <1>4, <2>1 DEF TypeOK
  <2>4. QED
    BY <1>1, <1>2, <1>3, <1>4, <1>5, <2>1, <2>2, <2>3, TaskAttended
<1>7. CASE ~(queue[t] # <<>> \/ takeover[t] # NoRequest)
  <2>1. /\ pc' = [pc EXCEPT ![w] = "idle"] /\ wreq' = [wreq EXCEPT ![w] = NoRequest]
        /\ worker' = [worker EXCEPT ![t] = NoTask]
        /\ UNCHANGED wthread /\ kill' = {}
    BY <1>3, <1>7 DEF Settle, TaskGone, TaskDone
  <2>2. ~Busy(t)'
    BY <1>1, <1>4, <1>7 DEF Busy, TypeOK
  <2>3. /\ \A v \in Task \ {w} : pc'[v] = pc[v] /\ wreq'[v] = wreq[v]
        /\ \A u \in Thread \ {t} : UNCHANGED <<active[u], takeover[u], queue[u], worker[u]>>
    BY <1>4, <2>1 DEF TypeOK
  <2>4. QED
    BY <1>1, <1>4, <1>5, <2>1, <2>2, <2>3, TaskAttended
<1>8. QED
  BY <1>6, <1>7

LEMMA TurnAttended ==
    ASSUME Inv, Attended, closing = "open", NEW w \in Task, NEW t, t = wthread[w],
           NEW h, h = wreq[w], TurnStep(w)
    PROVE  OpenInv' /\ NothingStranded'
<1> USE DEF Inv, Attended
<1>1. /\ pc[w] \in {"waiting"} \cup Engine /\ h \in Request /\ status[h] = "running"
      /\ TurnFrame
      /\ t # NoThread => t \in Thread /\ active[t] = h /\ worker[t] = w
  <2>1. pc[w] \in {"waiting"} \cup Engine /\ TurnFrame
    BY TurnShape DEF Moves, Ends
  <2>2. QED
    BY <2>1 DEF Ownership, TaskInv, Running, WorkerInv, Engine, TypeOK
<1>2. kill = {} /\ closing' = "open"
  BY <1>1 DEF OpenInv, TurnFrame
<1>3. /\ UNCHANGED <<thread, wthread, active, takeover, queue, worker>>
  BY <1>1 DEF TurnFrame, threadVars
<1>4. ~Cancelled(w)
  BY <1>2 DEF Cancelled
<1>5. \/ \E where \in Engine : Advance(w, where)
      \/ \E outcome \in {"completed", "failed", "interrupted"} : EndRun(w, outcome)
  BY <1>4 DEF TurnStep, Acquire, Prepare, PrepareInterrupted, PrepareFails,
     JudgeInterrupted, JudgeFails, BeginRounds, Answer, RoundsInterrupted, RoundsFail,
     Complete, WrapupFails, Engine
<1>6. /\ kill' = {} /\ done \subseteq done'
      /\ \A v \in Task \ {w} : pc'[v] = pc[v] /\ wreq'[v] = wreq[v]
      /\ \A x \in Request : status'[x] # status[x] =>
            status[x] = "running" /\ status'[x] # "cancelled"
      /\ t = NoThread => (Alive(w)' /\ wreq'[w] = wreq[w]) \/ h \in done'
      /\ t # NoThread => pc'[w] \in Engine \cup {"finished"}
  <2>1. ASSUME NEW where \in Engine, Advance(w, where) 
        PROVE  /\ kill' = {} /\ done \subseteq done'
               /\ \A v \in Task \ {w} : pc'[v] = pc[v] /\ wreq'[v] = wreq[v]
               /\ UNCHANGED <<status, wreq>> /\ Alive(w)' /\ pc'[w] \in Engine
    BY <1>2, <2>1 DEF Advance, Alive, Engine, TypeOK
  <2>2. ASSUME NEW outcome \in {"completed", "failed", "interrupted"}, EndRun(w, outcome)
        PROVE  /\ kill' = {} /\ done \subseteq done' /\ h \in done'
               /\ \A v \in Task \ {w} : pc'[v] = pc[v] /\ wreq'[v] = wreq[v]
               /\ \A x \in Request \ {h} : status'[x] = status[x]
               /\ status'[h] = outcome
               /\ t # NoThread => pc'[w] = "finished"
    BY <1>1, <1>2, <2>2 DEF EndRun, TaskGone, TaskDone, TypeOK
  <2>3. CASE \E where \in Engine : Advance(w, where)
    BY <2>1, <2>3
  <2>4. CASE \E outcome \in {"completed", "failed", "interrupted"} : EndRun(w, outcome)
    BY <1>1, <2>2, <2>4
  <2>5. QED
    BY <1>5, <2>3, <2>4
<1>7. t # NoThread => Alive(w)' /\ Running(w)'
  BY <1>6 DEF Alive, Running, Engine
<1>8. \A u \in Thread : UNCHANGED <<active[u], takeover[u], queue[u], worker[u]>>
  BY <1>3
<1>9. \A x \in Request : OnThread(x, t) => OnThread(x, t)'
  BY <1>3 DEF OnThread
<1>10. \A u \in Thread \ {t} : active[u] # NoRequest /\ status'[active[u]] # "queued" =>
         status[active[u]] # "queued"
  BY <1>6 DEF TypeOK
<1>11. pc[w] # "idle"
  BY <1>1 DEF Engine
<1>12. t = NoThread => (Alive(w)' /\ wreq'[w] = wreq[w]) \/ wreq[w] \in done'
  BY <1>6
<1>13. t # NoThread => worker'[t] = w /\ Alive(w)' /\ Running(w)'
  BY <1>1, <1>3, <1>7
<1>14. \A x \in Request : status'[x] # status[x] =>
         status[x] \notin {"new", "rejected"} /\ status'[x] # "cancelled"
  BY <1>6
<1>15. QED
  BY <1>2, <1>3, <1>6, <1>8, <1>9, <1>10, <1>11, <1>12, <1>13, <1>14, TaskAttended

LEMMA StepAttended == Inv /\ Attended /\ [Next]_vars => Attended'
<1> SUFFICES ASSUME Inv, Attended, [Next]_vars PROVE Attended'
  OBVIOUS
<1> USE DEF Inv, Attended
<1>1. ASSUME closing' # "open", DoneInv' PROVE Attended'
  BY <1>1 DEF OpenInv, NothingStranded, WorkHasWorker, NoHandleForgotten
<1>2. ASSUME NEW r \in Request, NEW t \in Thread, NEW c \in Conflict, SubmitTurn(r, t, c)
      PROVE  Attended'
  BY <1>2, SubmitAttended
<1>3. ASSUME NEW r \in Request, SubmitDetached(r) PROVE Attended'
  <2>1. /\ status[r] = "new" /\ status' = [status EXCEPT ![r] = "queued"]
        /\ UNCHANGED <<thread, done, active, queue, takeover, worker, kill, closing>>
    BY <1>3 DEF SubmitDetached, threadVars, closeVars
  <2>2. PICK w \in Task :
          /\ pc[w] = "idle" /\ pc' = [pc EXCEPT ![w] = "new"]
          /\ wthread' = [wthread EXCEPT ![w] = NoThread]
          /\ wreq' = [wreq EXCEPT ![w] = r]
    BY <1>3 DEF SubmitDetached
  <2>3. \A v \in Task \ {w} : pc'[v] = pc[v] /\ wthread'[v] = wthread[v]
                              /\ wreq'[v] = wreq[v]
    BY <2>2 DEF TypeOK
  <2>4. DoneInv'
    BY <2>1 DEF DoneInv, Terminal, TypeOK
  <2>5. ASSUME closing = "open" PROVE OpenInv' /\ NothingStranded'
    <3>1. thread[r] = NoThread
      BY <2>1 DEF Ownership, HandleInv
    <3>2. \A u \in Thread : active[u] # r
      BY <3>1, NoThreadNoPlace
    <3>3. \A u \in Thread : worker[u] # NoTask => worker[u] \in Task \ {w}
      BY <2>2 DEF Ownership, WorkerInv, TypeOK
    <3>4. ASSUME NEW u \in Thread, active[u] # NoRequest, status'[active[u]] # "queued"
          PROVE  worker'[u] # NoTask /\ Running(worker[u])'
      <4>1. status[active[u]] # "queued"
        BY <2>1, <3>2, <3>4 DEF TypeOK
      <4>2. worker[u] # NoTask /\ Running(worker[u])
        BY <2>5, <3>4, <4>1 DEF OpenInv
      <4>3. QED
        BY <2>1, <2>3, <3>3, <4>2 DEF Running
    <3>5. OpenInv'
      BY <2>1, <2>5, <3>4 DEF OpenInv, TypeOK
    <3>6. ASSUME NEW u \in Thread, Busy(u)' PROVE HasWorker(u)'
      <4>1. HasWorker(u)
        BY <2>1, <2>5, <3>6, StrandedMeans DEF Busy
      <4>2. QED
        BY <2>1, <2>3, <3>3, <4>1 DEF HasWorker, Alive
    <3>7. Detached(r)'
      BY <2>2 DEF Detached, Alive, TypeOK
    <3>8. \A x \in Request : Detached(x) => Detached(x)'
      BY <2>2, <2>3 DEF Detached, Alive
    <3>9. ASSUME NEW x \in Request, Waits(x)' PROVE Findable(x)'
      <4>1. CASE x = r
        BY <3>7, <4>1 DEF Findable
      <4>2. CASE x # r
        <5>1. Waits(x)
          BY <2>1, <3>9, <4>2 DEF Waits, TypeOK
        <5>2. Findable(x)
          BY <2>5, <5>1, StrandedMeans
        <5>3. QED
          BY <2>1, <3>8, <5>2 DEF Findable, OnThread
      <4>3. QED
        BY <4>1, <4>2
    <3>10. NothingStranded'
      BY <3>6, <3>9 DEF NothingStranded, WorkHasWorker, NoHandleForgotten, HasWorker,
                        Waits, Findable, OnThread, Detached
    <3>11. QED
      BY <3>5, <3>10
  <2>6. QED
    BY <1>1, <2>1, <2>4, <2>5
<1>4. ASSUME NEW w \in Task, WorkerStep(w) PROVE Attended'
  <2>1. DoneInv'
    <3>1. done' = done
      BY <1>4 DEF WorkerStep, CancelNew, RunDetached, Pick, Settle
    <3>2. QED
      BY <1>4, <3>1, WorkerStatus DEF DoneInv, Terminal
  <2>2. closing' = closing
    BY <1>4 DEF WorkerStep
  <2>3. ASSUME closing = "open" PROVE OpenInv' /\ NothingStranded'
    <3>1. ~CancelNew(w)
      BY <2>3 DEF CancelNew, OpenInv
    <3>2. CASE RunDetached(w) /\ UNCHANGED wthread
      <4>1. /\ pc[w] = "new" /\ wthread[w] = NoThread /\ wreq[w] \in Request
            /\ status[wreq[w]] = "queued" /\ thread[wreq[w]] = NoThread
        BY <3>2 DEF RunDetached, Ownership, TaskInv
      <4>2. /\ UNCHANGED <<thread, done, active, queue, takeover, worker, kill, wreq>>
            /\ status' = [status EXCEPT ![wreq[w]] = "running"]
            /\ pc' = [pc EXCEPT ![w] = "waiting"]
        BY <1>4, <3>2 DEF WorkerStep, RunDetached, EnterRun, TypeOK
      <4>3. \A u \in Thread : active[u] # wreq[w]
        BY <4>1, NoThreadNoPlace
      <4>4. Alive(w)'
        BY <4>2 DEF Alive, TypeOK
      <4>5. \A v \in Task \ {w} : pc'[v] = pc[v] /\ wreq'[v] = wreq[v]
        BY <4>2 DEF TypeOK
      <4>6. \A x \in Request : status'[x] # status[x] =>
              status[x] \notin {"new", "rejected"} /\ status'[x] # "cancelled"
        BY <4>1, <4>2 DEF TypeOK
      <4>7. \A u \in Thread \ {NoThread} :
              active[u] # NoRequest /\ status'[active[u]] # "queued" =>
                 status[active[u]] # "queued"
        BY <4>2, <4>3 DEF TypeOK
      <4>8. kill = {} /\ closing' = "open"
        BY <2>2, <2>3 DEF OpenInv
      <4>9. QED
        BY <2>3, <3>2, <4>1, <4>2, <4>4, <4>5, <4>6, <4>7, <4>8, TaskAttended
    <3>3. QED
      BY <1>4, <2>3, <3>1, <3>2, PickAttended, SettleAttended DEF WorkerStep
  <2>4. QED
    BY <1>1, <2>1, <2>2, <2>3
<1>5. ASSUME NEW w \in Task, TurnStep(w) PROVE Attended'
  <2>1. done \subseteq done'
    BY <1>5, TurnShape DEF Moves, Ends, Advance, EndRun
  <2>2. DoneInv'
    BY <1>5, <2>1, TurnStatus DEF DoneInv, Terminal
  <2>3. closing' = closing
    BY <1>5 DEF TurnStep
  <2>4. QED
    BY <1>1, <1>5, <2>2, <2>3, TurnAttended
<1>6. CASE Aclose \/ AcloseReturns
  <2>1. closing' # "open" /\ UNCHANGED <<status, done>>
    BY <1>6 DEF Aclose, AcloseReturns, handleVars
  <2>2. QED
    BY <1>1, <2>1 DEF DoneInv
<1>7. CASE UNCHANGED vars
  <2>1. /\ UNCHANGED <<status, thread, done, active, queue, takeover, worker, pc, wthread>>
        /\ UNCHANGED <<wreq, kill, closing>>
    BY <1>7 DEF vars, handleVars, threadVars, taskVars, closeVars
  <2>2. OpenInv' /\ DoneInv'
    BY <2>1 DEF OpenInv, DoneInv, Running
  <2>3. NothingStranded'
    BY <2>1 DEF NothingStranded, WorkHasWorker, NoHandleForgotten, Busy, Alive
  <2>4. QED
    BY <2>2, <2>3
<1>8. QED
  BY <1>2, <1>3, <1>4, <1>5, <1>6, <1>7 DEF Next

\* Until aclose, a thread with work has a live worker that will come for it, and
\* every handle not finished is in a place where some task will find it.
THEOREM NothingIsStranded == Spec => []NothingStranded
<1>1. Init => Attended
  BY DEF Init, Attended, OpenInv, DoneInv, Terminal, NothingStranded, WorkHasWorker,
         NoHandleForgotten, Busy
<1>2. Attended => NothingStranded
  BY DEF Attended
<1>3. QED
  BY <1>1, <1>2, Invariance, StepAttended, PTL DEF Spec

-----------------------------------------------------------------------------
(* What aclose leaves *)

\* A handle that runs has a task that runs it.
RunnerInv ==
    \A r \in Request : status[r] = "running" =>
        \E w \in Task : pc[w] \in {"waiting"} \cup Engine /\ wreq[w] = r

\* Nobody called since aclose began.
NoCalls == known = {r \in Request : status[r] # "new"}

\* Aclose waits for every task there is; unless somebody calls, a task that is
\* alive later is one of these, and when none is left there is none.
AwaitedInv ==
    /\ \A r \in known : status[r] # "new"
    /\ closing = "closed" => awaited = {}
    /\ closing # "open" /\ NoCalls => \A w \in Task : Alive(w) => w \in awaited

Closes == RunnerInv /\ AwaitedInv

\* A step of a task starts no other: what is alive afterwards was, and what was
\* waited for is, unless it is over.
LEMMA TaskStepAwaited ==
    ASSUME Inv, NEW w \in Task, WorkerStep(w) \/ TurnStep(w)
    PROVE  /\ awaited' \subseteq awaited
           /\ \A v \in Task : Alive(v)' => Alive(v) /\ (v \in awaited => v \in awaited')
           /\ \A v \in Task \ {w} : pc'[v] = pc[v] /\ wreq'[v] = wreq[v]
<1> USE DEF Inv, Alive
<1>1. CASE CancelNew(w)
  BY <1>1 DEF CancelNew, TaskGone, TaskDone, TypeOK
<1>2. CASE RunDetached(w)
  BY <1>2 DEF RunDetached, EnterRun, TypeOK
<1>3. CASE Pick(w)
  <2> DEFINE t == wthread[w]
  <2>1. CASE PickActive(w, t)
    BY <1>3, <2>1 DEF Pick, PickActive, EnterRun, TypeOK
  <2>2. CASE LeaveToOther(w, t)
    BY <1>3, <2>2 DEF Pick, LeaveToOther, TaskDone, TypeOK
  <2>3. CASE PickTakeover(w, t)
    BY <1>3, <2>3 DEF Pick, PickTakeover, EnterRun, TypeOK
  <2>4. CASE PickQueued(w, t)
    BY <1>3, <2>4 DEF Pick, PickQueued, EnterRun, TypeOK
  <2>5. CASE NothingToPick(w, t)
    BY <1>3, <2>5 DEF Pick, NothingToPick, TaskGone, TaskDone, TypeOK
  <2>6. QED
    BY <1>3, <2>1, <2>2, <2>3, <2>4, <2>5 DEF Pick
<1>4. CASE Settle(w)
  <2> DEFINE t == wthread[w]
             then == IF status[wreq[w]] = "cancelled" THEN "over" ELSE "next"
  <2>1. pc[w] = "finished" /\ t \in Thread /\ worker[t] = w /\ w # NoTask
    BY <1>4, ConstantsAssumption DEF Settle, Ownership, TaskInv, WorkerInv, Running, TypeOK
  <2>2. CASE queue[t] # <<>> \/ takeover[t] # NoRequest
    <3>1. pc' = [pc EXCEPT ![w] = then] /\ wreq' = wreq
      BY <1>4, <2>1, <2>2 DEF Settle, EnsureWorker
    <3>2. IF then = "over" THEN awaited' = awaited \ {w} ELSE awaited' = awaited
      BY <1>4, <2>2 DEF Settle, TaskDone
    <3>3. QED
      BY <2>1, <3>1, <3>2 DEF TypeOK
  <2>3. CASE ~(queue[t] # <<>> \/ takeover[t] # NoRequest)
    BY <1>4, <2>3 DEF Settle, TaskGone, TaskDone, TypeOK
  <2>4. QED
    BY <2>2, <2>3
<1>5. CASE \E where \in Engine : Moves(w, where)
  BY <1>5 DEF Moves, Advance, Engine, TypeOK
<1>6. CASE \E outcome \in Terminal, rec \in Record : Ends(w, outcome, rec)
  BY <1>6 DEF Ends, EndRun, TaskGone, TaskDone, Engine, TypeOK
<1>7. QED
  BY <1>1, <1>2, <1>3, <1>4, <1>5, <1>6, TurnShape DEF WorkerStep

\* A handle that a step of a task leaves running is run: by the task that picked
\* it up, or by the one that ran it, which has not ended it.
LEMMA TaskStepRunner ==
    ASSUME Inv, RunnerInv, NEW w \in Task, WorkerStep(w) \/ TurnStep(w)
    PROVE  RunnerInv'
<1> USE DEF Inv
<1> SUFFICES ASSUME NEW r \in Request, status'[r] = "running"
             PROVE  \E v \in Task : pc'[v] \in {"waiting"} \cup Engine /\ wreq'[v] = r
  BY DEF RunnerInv
<1>1. \A v \in Task \ {w} : pc'[v] = pc[v] /\ wreq'[v] = wreq[v]
  BY TaskStepAwaited
<1>2. CASE WorkerStep(w) /\ status[r] # "running"
  <2>1. CASE CancelNew(w) \/ Settle(w)
    BY <1>2, <2>1 DEF CancelNew, Settle
  <2>2. CASE \E h \in Request : EnterRun(w, h)
    BY <1>2, <2>2 DEF EnterRun, TypeOK
  <2>3. CASE RunDetached(w)
    BY <2>2, <2>3 DEF RunDetached, Ownership, TaskInv
  <2>4. CASE Pick(w)
    <3> DEFINE t == wthread[w]
    <3>1. t \in Thread
      BY <2>4 DEF Pick, TypeOK
    <3>2. CASE LeaveToOther(w, t) \/ NothingToPick(w, t)
      BY <1>2, <3>2 DEF LeaveToOther, NothingToPick
    <3>3. CASE PickActive(w, t) \/ PickTakeover(w, t)
      BY <2>2, <3>1, <3>3 DEF PickActive, PickTakeover, TypeOK
    <3>4. CASE PickQueued(w, t)
      BY <2>2, <3>1, <3>4 DEF PickQueued, TypeOK
    <3>5. QED
      BY <2>4, <3>2, <3>3, <3>4 DEF Pick
  <2>5. QED
    BY <1>2, <2>1, <2>3, <2>4 DEF WorkerStep
<1>3. CASE WorkerStep(w) /\ status[r] = "running"
  <2>1. PICK v \in Task : pc[v] \in {"waiting"} \cup Engine /\ wreq[v] = r
    BY <1>3 DEF RunnerInv
  <2>2. pc[w] \notin {"waiting"} \cup Engine
    BY <1>3 DEF WorkerStep, CancelNew, RunDetached, Pick, Settle, Engine
  <2>3. QED
    BY <1>1, <2>1, <2>2
<1>4. CASE TurnStep(w)
  <2>1. status[r] = "running"
    BY <1>4, TurnStatus DEF Terminal
  <2>2. PICK v \in Task : pc[v] \in {"waiting"} \cup Engine /\ wreq[v] = r
    BY <2>1 DEF RunnerInv
  <2>3. CASE v # w
    BY <1>1, <2>2, <2>3
  <2>4. CASE v = w /\ \E where \in Engine : Moves(w, where)
    BY <2>2, <2>4 DEF Moves, Advance, TypeOK
  <2>5. CASE v = w /\ \E outcome \in Terminal, rec \in Record : Ends(w, outcome, rec)
    BY <2>2, <2>5 DEF Ends, EndRun, Terminal, TypeOK
  <2>6. QED
    BY <1>4, <2>3, <2>4, <2>5, TurnShape
<1>5. QED
  BY <1>2, <1>3, <1>4

\* A call takes a handle that is new, and no handle becomes running by it.
LEMMA CallStatus ==
    ASSUME Inv, NEW r \in Request,
           SubmitDetached(r) \/ \E t \in Thread, c \in Conflict : SubmitTurn(r, t, c)
    PROVE  /\ status[r] = "new" /\ status'[r] # "new" /\ UNCHANGED closeVars
           /\ \A x \in Request : status[x] # "new" => status'[x] # "new"
           /\ \A x \in Request : status'[x] = "running" => status[x] = "running"
<1> USE DEF Inv
<1>1. CASE SubmitDetached(r)
  BY <1>1 DEF SubmitDetached, TypeOK
<1>2. ASSUME NEW t \in Thread, NEW c \in Conflict, SubmitTurn(r, t, c)
      PROVE  /\ status[r] = "new" /\ status'[r] # "new" /\ UNCHANGED closeVars
             /\ \A x \in Request : status[x] # "new" => status'[x] # "new"
             /\ \A x \in Request : status'[x] = "running" => status[x] = "running"
  <2>1. status[r] = "new" /\ UNCHANGED closeVars
    BY <1>2 DEF SubmitTurn
  <2>2. CASE SubmitIdle(r, t) \/ SubmitReject(r, t, c) \/ SubmitQueue(r, t, c)
    BY <2>1, <2>2 DEF SubmitIdle, SubmitReject, SubmitQueue, TypeOK
  <2>3. CASE SubmitJoin(r, t, c) \/ JoinTakeover(r, t, c)
    BY <2>1, <2>3 DEF SubmitJoin, JoinTakeover, MergeIntoTakeover, TypeOK
  <2>4. CASE AbsorbQueue(r, t, c)
    BY <2>1, <2>4 DEF AbsorbQueue, TypeOK
  <2>5. QED
    BY <1>2, <2>1, <2>2, <2>3, <2>4 DEF SubmitTurn, SubmitTakeover
<1>3. QED
  BY <1>1, <1>2

\* A call disturbs no task that runs a handle.
LEMMA CallRunner ==
    ASSUME Inv, NEW r \in Request,
           SubmitDetached(r) \/ \E t \in Thread, c \in Conflict : SubmitTurn(r, t, c),
           NEW v \in Task, pc[v] \in {"waiting"} \cup Engine
    PROVE  pc'[v] = pc[v] /\ wreq'[v] = wreq[v]
<1> USE DEF Inv
<1>1. CASE SubmitDetached(r)
  BY <1>1 DEF SubmitDetached, Engine, TypeOK
<1>2. ASSUME NEW t \in Thread, EnsureWorker(t, pc)
      PROVE  pc'[v] = pc[v] /\ wreq'[v] = wreq[v]
  <2>1. pc[v] # "idle" /\ pc[v] # "over"
    BY DEF Engine
  <2>2. CASE UNCHANGED <<pc, wreq>>
    BY <2>2
  <2>3. CASE worker[t] = NoTask \/ pc[worker[t]] = "over"
    <3>1. PICK w \in Task :
            /\ pc[w] = "idle"
            /\ pc' = [x \in Task |-> IF x = w THEN "new"
                                     ELSE IF x = worker[t] THEN "idle" ELSE pc[x]]
            /\ wreq' = [x \in Task |-> IF x \in {w, worker[t]} THEN NoRequest ELSE wreq[x]]
      BY <1>2, <2>3 DEF EnsureWorker
    <3>2. v # w /\ v # worker[t]
      BY <2>1, <2>3, <3>1, ConstantsAssumption
    <3>3. QED
      BY <3>1, <3>2
  <2>4. QED
    BY <1>2, <2>2, <2>3 DEF EnsureWorker
<1>3. ASSUME NEW t \in Thread, NEW c \in Conflict, SubmitTurn(r, t, c)
      PROVE  pc'[v] = pc[v] /\ wreq'[v] = wreq[v]
  BY <1>2, <1>3 DEF SubmitTurn, SubmitIdle, SubmitReject, SubmitQueue, SubmitJoin, SubmitTakeover
<1>4. QED
  BY <1>1, <1>3

LEMMA StepCloses == Inv /\ Closes /\ [Next]_vars => Closes'
<1> SUFFICES ASSUME Inv, Closes, [Next]_vars PROVE Closes'
  OBVIOUS
<1> USE DEF Inv, Closes
<1>1. ASSUME NEW r \in Request,
             SubmitDetached(r) \/ \E t \in Thread, c \in Conflict : SubmitTurn(r, t, c)
      PROVE  Closes'
  <2>1. RunnerInv'
    BY <1>1, CallStatus, CallRunner DEF RunnerInv
  <2>2. ~NoCalls' /\ \A x \in known' : status'[x] # "new"
    BY <1>1, CallStatus DEF AwaitedInv, NoCalls, closeVars, TypeOK
  <2>3. QED
    BY <1>1, <2>1, <2>2, CallStatus DEF AwaitedInv, closeVars
<1>2. ASSUME NEW w \in Task, WorkerStep(w) \/ TurnStep(w) PROVE Closes'
  <2>1. UNCHANGED <<closing, known>>
    BY <1>2 DEF WorkerStep, TurnStep
  <2>2. \A x \in Request : status'[x] = "new" <=> status[x] = "new"
    BY <1>2, WorkerStatus, TurnStatus DEF Terminal
  <2>3. NoCalls' <=> NoCalls
    BY <2>1, <2>2 DEF NoCalls
  <2>4. QED
    BY <1>2, <2>1, <2>2, <2>3, TaskStepAwaited, TaskStepRunner DEF AwaitedInv, TypeOK
<1>3. CASE Aclose
  <2>1. \A w \in Task : Alive(w) => w \in awaited'
    BY <1>3 DEF Aclose, Alive, Ownership, WorkerInv, TypeOK
  <2>2. UNCHANGED <<status, pc, wreq>> /\ closing' = "closing"
        /\ \A x \in known' : status[x] # "new"
    BY <1>3 DEF Aclose
  <2>3. QED
    BY <2>1, <2>2 DEF RunnerInv, AwaitedInv, Alive
<1>4. CASE AcloseReturns
  BY <1>4 DEF AcloseReturns, RunnerInv, AwaitedInv, NoCalls, Alive, handleVars, taskVars
<1>5. CASE UNCHANGED vars
  BY <1>5 DEF vars, handleVars, taskVars, closeVars, RunnerInv, AwaitedInv, NoCalls, Alive
<1>6. QED
  BY <1>1, <1>2, <1>3, <1>4, <1>5 DEF Next

\* When aclose returns and nobody called meanwhile, no task is left, and every
\* handle is finished but those that no worker ever took up.
THEOREM CloseLeavesNothing == Spec => []CloseSettles
<1>1. Init => Attended /\ Closes
  BY DEF Init, Attended, OpenInv, DoneInv, Terminal, NothingStranded, WorkHasWorker,
         NoHandleForgotten, Busy, Closes, RunnerInv, AwaitedInv
<1>2. Inv /\ Attended /\ Closes => CloseSettles
  <2> SUFFICES ASSUME Inv, Attended, Closes, closing = "closed", NoCalls
               PROVE  /\ \A w \in Task : ~Alive(w)
                      /\ \A r \in known : r \in done \/ status[r] \in {"queued", "rejected"}
    BY DEF CloseSettles, NoCalls
  <2>1. \A w \in Task : ~Alive(w)
    BY DEF Closes, AwaitedInv
  <2>2. \A r \in Request : status[r] # "running"
    BY <2>1 DEF Closes, RunnerInv, Alive, Engine
  <2>3. \A r \in known : r \in Request /\ status[r] \in Status \ {"new", "running"}
    BY <2>2 DEF NoCalls, Inv, TypeOK
  <2>4. QED
    BY <2>1, <2>3 DEF Attended, DoneInv, Status, Terminal
<1>3. QED
  BY <1>1, <1>2, Invariance, StepAttended, StepCloses, PTL DEF Spec

=============================================================================
