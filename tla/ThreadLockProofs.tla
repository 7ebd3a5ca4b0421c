-------------------------- MODULE ThreadLockProofs --------------------------
(***************************************************************************)
(* What holds of the lock of a thread for every number of turns, processes *)
(* and threads.  Permission is inductive.  Its heart is TipInv: of the     *)
(* turns of a thread that work, that may still be followed up, or that     *)
(* were called with the lock in their context, there is one at most.       *)
(***************************************************************************)
EXTENDS ThreadLock, SequenceTheorems, TLAPS

Inv == TypeOK /\ Permission

LEMMA InitInv == Init => Inv
<1> SUFFICES ASSUME Init PROVE Inv
  OBVIOUS
<1>1. TypeOK
  BY DEF Init, TypeOK, PC, Route
<1>2. Permission
  BY ConstantsAssumption
     DEF Init, Permission, StartInv, TokenInv, RowInv, LogInv, TipInv, AtTip
<1>3. QED
  BY <1>1, <1>2 DEF Inv

-----------------------------------------------------------------------------
(* Types *)

\* Setting one entry of held leaves it well typed.
LEMMA HeldType ==
    ASSUME TypeOK, NEW p, NEW t, NEW h \in Run \cup {NoRun},
           held' = [held EXCEPT ![p][t] = h]
    PROVE  held' \in [Process -> [Thread -> Run \cup {NoRun}]]
<1> DEFINE inner == [held[p] EXCEPT ![t] = h]
<1>1. held' = [held EXCEPT ![p] = inner]
  OBVIOUS
<1>2. ASSUME p \in Process PROVE inner \in [Thread -> Run \cup {NoRun}]
  BY <1>2 DEF TypeOK
<1>3. QED
  BY <1>1, <1>2 DEF TypeOK

LEMMA NextType == TypeOK /\ [Next]_vars => TypeOK'
<1> SUFFICES ASSUME TypeOK, [Next]_vars PROVE TypeOK'
  OBVIOUS
<1> USE DEF TypeOK, PC, Route, lockVars, runVars
<1>1. ASSUME NEW r \in Run, NEW p \in Process, NEW t \in Thread,
             StartDirect(r, p, t) \/ StartDetached(r, p, t) \/ PluginTask(r, p, t)
      PROVE  TypeOK'
  <2>1. \E how \in Route, where \in {"waiting", "task"} : Place(r, p, t, how, where)
    BY <1>1 DEF StartDirect, StartDetached, PluginTask
  <2>2. UNCHANGED <<row, held, base, token, inHandler, prelude, passed, followed, log>>
    BY <1>1 DEF StartDirect, StartDetached, PluginTask
  <2>3. QED
    BY <2>1, <2>2 DEF Place
<1>2. ASSUME NEW r \in Run, NEW s \in Run, NEW t \in Thread, HandlerTask(r, s, t)
      PROVE  TypeOK'
  BY <1>2 DEF HandlerTask, Place
<1>3. ASSUME NEW r \in Run, NEW s \in Run, FollowUp(r, s)
      PROVE  TypeOK'
  BY <1>3 DEF FollowUp, Place
<1>4. ASSUME NEW r \in Run, Submit(r)
      PROVE  TypeOK'
  <2>1. base' \in [Run -> Run \cup {NoRun}]
    <3>1. CASE Lane(proc[r], thread[r]) = {}
      BY <1>4, <3>1 DEF Submit
    <3>2. CASE Lane(proc[r], thread[r]) # {}
      BY <1>4, <3>2 DEF Submit, Lane
    <3>3. QED
      BY <3>1, <3>2
  <2>2. QED
    BY <1>4, <2>1 DEF Submit
<1>5. ASSUME NEW r \in Run, EnterNested(r) \/ EnterLocked(r) \/ SubmitRefused(r)
      PROVE  TypeOK'
  BY <1>5 DEF EnterNested, EnterLocked, SubmitRefused, GoInside
<1>12. ASSUME NEW r \in Run, Enter(r)
       PROVE  TypeOK'
  <2>1. held' \in [Process -> [Thread -> Run \cup {NoRun}]]
    BY <1>12, HeldType DEF Enter
  <2>2. QED
    BY <1>12, <2>1 DEF Enter, GoInside
<1>6. ASSUME NEW r \in Run, PreludeDone(r) \/ Abandon(r)
      PROVE  TypeOK'
  BY <1>6 DEF PreludeDone, Abandon
<1>13. ASSUME NEW r \in Run, Leave(r) \/ LeaveEarly(r)
       PROVE  TypeOK'
  <2>1. Release(r) /\ pc' = [pc EXCEPT ![r] = "over"]
    BY <1>13 DEF Leave, LeaveEarly
  <2>2. held' \in [Process -> [Thread -> Run \cup {NoRun}]]
    BY <2>1, HeldType DEF Release
  <2>3. row' \in [Thread -> Run \cup {NoRun}]
    BY <2>1 DEF Release
  <2>4. UNCHANGED <<proc, thread, route, base, inHandler, token, prelude, passed, followed, log>>
    BY <1>13 DEF Leave, LeaveEarly
  <2>5. QED
    BY <2>1, <2>2, <2>3, <2>4
<1>7. ASSUME NEW r \in Run, CheckWrite(r) \/ StrayRefused(r)
      PROVE  TypeOK'
  BY <1>7 DEF CheckWrite, StrayRefused
<1>8. ASSUME NEW r \in Run, InsertEvent(r)
      PROVE  TypeOK'
  <2> DEFINE e == [run |-> r, stray |-> pc[r] # "inside"]
             Entry == [run : Run, stray : BOOLEAN]
  <2>1. e \in Entry
    <3>1. (pc[r] # "inside") \in BOOLEAN
      OBVIOUS
    <3>2. QED
      BY <3>1, Zenon
  <2>2. log' = [log EXCEPT ![thread[r]] = Append(@, e)]
    BY <1>8 DEF InsertEvent
  <2> HIDE DEF e, Entry
  <2>3. log \in [Thread -> Seq(Entry)]
    BY DEF Entry
  <2>4. \A t \in Thread : Append(log[t], e) \in Seq(Entry)
    BY <2>1, <2>3
  <2>5. log' \in [Thread -> Seq(Entry)]
    BY <2>2, <2>3, <2>4
  <2>6. QED
    BY <1>8, <2>5 DEF InsertEvent, Entry
<1>9. ASSUME NEW p \in Process, Crash(p)
      PROVE  TypeOK'
  BY <1>9 DEF Crash
<1>10. CASE UNCHANGED vars
  BY <1>10 DEF vars
<1>11. QED
  BY <1>1, <1>2, <1>3, <1>4, <1>5, <1>6, <1>7, <1>8, <1>9, <1>10,
     <1>12, <1>13 DEF Next

-----------------------------------------------------------------------------
(* Permission *)

\* A turn that was called from within an abandoned one finds its lock held.
LEMMA CalledHolds ==
    ASSUME Inv, NEW r \in Run, pc[r] = "waiting", base[r] # NoRun
    PROVE  /\ base[r] \in Run
           /\ row[thread[r]] = base[r]
           /\ held[proc[r]][thread[r]] = base[r]
  BY DEF Inv, TypeOK, Permission, StartInv, TokenInv

\* A turn at the tip of a thread is on a thread that is locked.
LEMMA TipLocks ==
    ASSUME Inv, NEW r \in Run, AtTip(r)
    PROVE  row[thread[r]] \in Run /\ row[thread[r]] # NoRun
<1>1. CASE pc[r] \in {"inside", "abandoned"}
  BY <1>1, ConstantsAssumption DEF Inv, Permission, TokenInv
<1>2. CASE pc[r] = "waiting" /\ base[r] # NoRun
  BY <1>2, CalledHolds
<1>3. QED
  BY <1>1, <1>2 DEF AtTip

\* What an event of the log is.
LEMMA EventType ==
    ASSUME TypeOK, NEW t \in Thread, NEW i \in 1 .. Len(log[t])
    PROVE  log[t][i].run \in Run
<1> DEFINE Entry == [run : Run, stray : BOOLEAN]
<1>1. log[t] \in Seq(Entry)
  BY DEF TypeOK
<1> HIDE DEF Entry
<1>2. log[t][i] \in Entry
  BY <1>1
<1>3. QED
  BY <1>2 DEF Entry

\* LogInv does not see a step that keeps the log, lets nobody in and changes only
\* turns that never wrote, or that stay where they may have written.
LEMMA LogFrame ==
    ASSUME Inv, log' = log, thread' \in [Run -> Thread \cup {NoThread}],
           \A r \in Run : pc[r] \notin {"new", "task", "waiting", "locked", "refused"} =>
               /\ thread'[r] = thread[r]
               /\ pc'[r] \notin {"new", "task", "waiting", "locked", "refused"}
               /\ pc'[r] = "inside" => pc[r] = "inside"
    PROVE  \A t \in Thread : LogInv(t)'
<1> SUFFICES ASSUME NEW t \in Thread PROVE LogInv(t)'
  OBVIOUS
<1>1. ASSUME NEW i \in 1 .. Len(log[t])
      PROVE  /\ thread'[log[t][i].run] = t
             /\ pc'[log[t][i].run] \notin {"new", "task", "waiting", "locked", "refused"}
             /\ (pc'[log[t][i].run] = "inside" /\ ~log[t][i].stray) =>
                   \A j \in i .. Len(log[t]) :
                       ~log[t][j].stray => log[t][j].run = log[t][i].run
  <2>1. log[t][i].run \in Run
    BY <1>1, EventType DEF Inv
  <2>2. LogInv(t)
    BY DEF Inv, Permission
  <2>3. QED
    BY <1>1, <2>1, <2>2 DEF LogInv
<1>2. QED
  BY <1>1 DEF LogInv

\* TokenInv does not see a step that keeps the locks and lets nobody in.
LEMMA TokenFrame ==
    ASSUME Inv, UNCHANGED <<row, held>>,
           \A r \in Run : pc'[r] \in {"inside", "abandoned"} =>
               /\ pc[r] \in {"inside", "abandoned"}
               /\ proc'[r] = proc[r] /\ thread'[r] = thread[r] /\ token'[r] = token[r],
           \A r \in Run : pc[r] = "abandoned" => pc'[r] = "abandoned",
           \A r \in Run : pc[r] # "new" =>
               proc'[r] = proc[r] /\ thread'[r] = thread[r] /\ token'[r] = token[r]
    PROVE  \A r \in Run : TokenInv(r)'
<1> SUFFICES ASSUME NEW r \in Run PROVE TokenInv(r)'
  OBVIOUS
<1>1. CASE pc'[r] \notin {"inside", "abandoned"}
  BY <1>1 DEF TokenInv
<1>2. CASE pc'[r] \in {"inside", "abandoned"}
  <2>1. TokenInv(r) /\ pc[r] \in {"inside", "abandoned"} /\ token[r] \in Run
    BY <1>2 DEF Inv, Permission, TokenInv
  <2>2. pc[token[r]] # "new"
    BY <2>1 DEF TokenInv
  <2>3. QED
    BY <1>2, <2>1, <2>2 DEF TokenInv
<1>3. QED
  BY <1>1, <1>2

\* A new turn changes nothing for the others.
LEMMA PlaceInv ==
    ASSUME Inv, NEW r \in Run, NEW p \in Process, NEW t \in Thread,
           NEW how \in Route, NEW where \in {"waiting", "task"},
           Place(r, p, t, how, where),
           UNCHANGED <<row, held, token, prelude, passed, log>>
    PROVE  /\ \A s \in Run : TokenInv(s)'
           /\ \A x \in Thread : RowInv(x)' /\ LogInv(x)'
           /\ \A s \in (prelude \cup passed)' : pc'[s] \in {"inside", "over"}
<1>1. pc[r] = "new"
  BY DEF Place
<1>2. \A s \in Run : s # r => pc'[s] = pc[s] /\ proc'[s] = proc[s] /\ thread'[s] = thread[s]
  BY DEF Place, Inv, TypeOK
<1>3. pc'[r] = where /\ where \in {"waiting", "task"}
  BY DEF Place, Inv, TypeOK
<1>4. \A s \in Run : TokenInv(s)'
  BY <1>1, <1>2, <1>3, TokenFrame
<1>5. \A x \in Thread : RowInv(x)'
  <2>1. SUFFICES ASSUME NEW x \in Thread, row[x] # NoRun PROVE RowInv(x)'
    BY DEF RowInv
  <2>2. RowInv(x) /\ row[x] \in Run
    BY <2>1 DEF Inv, TypeOK, Permission
  <2>3. row[x] # r
    BY <1>1, <2>1, <2>2 DEF RowInv
  <2>4. QED
    BY <1>2, <2>1, <2>2, <2>3 DEF RowInv
<1>6. \A x \in Thread : LogInv(x)'
  <2>1. thread' \in [Run -> Thread \cup {NoThread}]
    BY DEF Place, Inv, TypeOK
  <2>2. QED
    BY <1>1, <1>2, <2>1, LogFrame
<1>7. \A s \in (prelude \cup passed)' : pc'[s] \in {"inside", "over"}
  BY <1>1, <1>2 DEF Inv, TypeOK, Permission
<1>8. QED
  BY <1>4, <1>5, <1>6, <1>7

\* Starting a turn from a context that holds no lock.
LEMMA StartPermission ==
    ASSUME Inv, NEW r \in Run, NEW p \in Process, NEW t \in Thread,
           StartDirect(r, p, t) \/ StartDetached(r, p, t) \/ PluginTask(r, p, t)
    PROVE  Permission'
<1>1. PICK how \in Route, where \in {"waiting", "task"} : Place(r, p, t, how, where)
  BY DEF StartDirect, StartDetached, PluginTask, Route
<1>2. UNCHANGED <<row, held, base, token, inHandler, prelude, passed, followed, log>>
  BY DEF StartDirect, StartDetached, PluginTask, lockVars
<1>3. pc[r] = "new" /\ base[r] = NoRun /\ r \notin inHandler
  BY <1>1 DEF Place, Inv, Permission, StartInv
<1>4. \A s \in Run : StartInv(s)'
  <2>1. ASSUME NEW s \in Run PROVE StartInv(s)'
    <3>1. CASE s = r
      BY <1>1, <1>2, <1>3, <3>1 DEF StartInv, Place, Inv, TypeOK
    <3>2. CASE s # r
      <4>1. StartInv(s)
        BY DEF Inv, Permission
      <4>2. pc'[s] = pc[s] /\ proc'[s] = proc[s] /\ thread'[s] = thread[s] /\ route'[s] = route[s]
        BY <1>1, <3>2 DEF Place, Inv, TypeOK
      <4>3. pc[s] = "waiting" /\ base[s] # NoRun => base[s] # r /\ base[s] \in Run
        BY <1>3, <4>1 DEF StartInv, Inv, TypeOK
      <4>4. QED
        BY <1>1, <1>2, <4>1, <4>2, <4>3 DEF StartInv, Place, Inv, TypeOK
    <3>3. QED
      BY <3>1, <3>2
  <2>2. QED
    BY <2>1
<1>5. TipInv'
  BY <1>1, <1>2, <1>3 DEF TipInv, AtTip, Place, Inv, TypeOK, Permission
<1>6. QED
  BY <1>1, <1>2, <1>4, <1>5, PlaceInv DEF Permission

\* A handler's task gets the token of the turn, and is not at the tip.
LEMMA HandlerPermission ==
    ASSUME Inv, NEW r \in Run, NEW q \in Run, NEW t \in Thread, HandlerTask(r, q, t)
    PROVE  Permission'
<1>1. Place(r, proc[q], t, "managed", "task") /\ proc[q] \in Process
  BY DEF HandlerTask, Inv, Permission, StartInv
<1>2. UNCHANGED <<row, held, token, prelude, passed, followed, log>>
  BY DEF HandlerTask, lockVars
<1>3. pc[r] = "new" /\ pc'[r] = "task" /\ r \in inHandler'
  BY <1>1 DEF HandlerTask, Place, Inv, TypeOK
<1>4. \A s \in Run : s # r =>
        /\ pc'[s] = pc[s] /\ proc'[s] = proc[s] /\ thread'[s] = thread[s]
        /\ route'[s] = route[s] /\ base'[s] = base[s]
        /\ s \in inHandler <=> s \in inHandler'
  BY <1>1 DEF HandlerTask, Place, Inv, TypeOK
<1>5. \A s \in Run : StartInv(s)'
  <2>1. ASSUME NEW s \in Run PROVE StartInv(s)'
    <3>1. CASE s = r
      BY <1>1, <1>3, <3>1 DEF StartInv, Place, Inv, TypeOK
    <3>2. CASE s # r
      <4>1. StartInv(s)
        BY DEF Inv, Permission
      <4>2. pc[s] = "waiting" /\ base[s] # NoRun => base[s] # r /\ base[s] \in Run
        BY <1>3, <4>1 DEF StartInv, Inv, TypeOK
      <4>3. QED
        BY <1>2, <1>4, <3>2, <4>1, <4>2 DEF StartInv
    <3>3. QED
      BY <3>1, <3>2
  <2>2. QED
    BY <2>1
<1>6. TipInv'
  BY <1>2, <1>3, <1>4 DEF TipInv, AtTip, Inv, Permission
<1>7. QED
  BY <1>1, <1>2, <1>5, <1>6, PlaceInv DEF Permission, Route

\* The next message takes the place of the abandoned turn at the tip.
LEMMA FollowPermission ==
    ASSUME Inv, NEW r \in Run, NEW q \in Run, FollowUp(r, q)
    PROVE  Permission'
<1>1. /\ Place(r, proc[q], thread[q], "direct", "waiting")
      /\ proc[q] \in Process /\ thread[q] \in Thread
  BY DEF FollowUp, Inv, Permission, StartInv
<1>2. UNCHANGED <<row, held, inHandler, token, prelude, passed, log>>
  BY DEF FollowUp, lockVars
<1>3. /\ pc[r] = "new" /\ pc'[r] = "waiting" /\ r # q
      /\ proc'[r] = proc[q] /\ thread'[r] = thread[q] /\ base'[r] = token[q]
      /\ route'[r] = "direct"
  BY <1>1 DEF FollowUp, Place, Inv, TypeOK
<1>4. \A s \in Run : s # r =>
        /\ pc'[s] = pc[s] /\ proc'[s] = proc[s] /\ thread'[s] = thread[s]
        /\ route'[s] = route[s] /\ base'[s] = base[s]
  BY <1>1 DEF FollowUp, Place, Inv, TypeOK
<1>5. TokenInv(q) /\ pc[q] = "abandoned" /\ q \notin followed /\ q \in followed'
  BY DEF FollowUp, Inv, Permission
<1>6. /\ token[q] \in Run /\ token[q] # r
      /\ pc[token[q]] = "abandoned" /\ token[token[q]] = token[q]
      /\ thread[token[q]] = thread[q] /\ proc[token[q]] = proc[q]
  BY <1>3, <1>5 DEF TokenInv
<1>7. \A s \in Run : StartInv(s)'
  <2>1. ASSUME NEW s \in Run PROVE StartInv(s)'
    <3>1. CASE s = r
      BY <1>1, <1>2, <1>3, <1>4, <1>6, <3>1 DEF StartInv
    <3>2. CASE s # r
      <4>1. StartInv(s)
        BY DEF Inv, Permission
      <4>2. pc[s] = "waiting" /\ base[s] # NoRun => base[s] # r /\ base[s] \in Run
        BY <1>3, <4>1 DEF StartInv, Inv, TypeOK
      <4>3. QED
        BY <1>2, <1>4, <3>2, <4>1, <4>2 DEF StartInv
    <3>3. QED
      BY <3>1, <3>2
  <2>2. QED
    BY <2>1
<1>8. TipInv'
  <2>1. ASSUME NEW s \in Run, s # r, AtTip(s)' PROVE thread'[s] # thread'[r]
    <3>1. AtTip(s) /\ s # q
      BY <1>4, <1>5, <2>1 DEF AtTip, FollowUp, Inv, TypeOK
    <3>2. AtTip(q)
      BY <1>5 DEF AtTip
    <3>3. QED
      BY <1>3, <1>4, <2>1, <3>1, <3>2 DEF Inv, Permission, TipInv
  <2>2. ASSUME NEW s \in Run, s # r, AtTip(s)' PROVE AtTip(s)
    BY <1>4, <2>2 DEF AtTip, FollowUp, Inv, TypeOK
  <2>3. QED
    BY <1>4, <2>1, <2>2 DEF Inv, Permission, TipInv
<1>9. QED
  BY <1>1, <1>2, <1>7, <1>8, PlaceInv DEF Permission, Route

\* submit_turn: every turn of a lane runs in a context that holds no lock.
LEMMA SubmitPermission ==
    ASSUME Inv, NEW r \in Run, SubmitRefused(r) \/ Submit(r) \/ EnterLocked(r)
    PROVE  Permission'
<1>1. /\ pc[r] \in {"task", "waiting"}
      /\ pc' = [pc EXCEPT ![r] = pc'[r]]
      /\ pc'[r] \in {"refused", "waiting", "locked"}
      /\ pc'[r] = "waiting" => pc[r] = "task" /\ r \notin inHandler
      /\ UNCHANGED <<row, held, proc, thread, route, inHandler, token, prelude,
                     passed, followed, log>>
  BY DEF SubmitRefused, Submit, EnterLocked, Called, lockVars, runVars, Inv, TypeOK
<1>2. \A s \in Run : s # r => pc'[s] = pc[s] /\ base'[s] = base[s]
  BY <1>1 DEF SubmitRefused, Submit, EnterLocked, runVars, Inv, TypeOK
<1>3. pc'[r] = "waiting" => base'[r] = NoRun
  <2>1. SUFFICES ASSUME pc'[r] = "waiting" PROVE base'[r] = NoRun
    OBVIOUS
  <2>2. Submit(r) /\ pc[r] = "task" /\ r \notin inHandler /\ base[r] = NoRun
    BY <1>1, <2>1 DEF SubmitRefused, EnterLocked, Submit, Inv, TypeOK, Permission, StartInv
  <2>3. CASE Lane(proc[r], thread[r]) = {}
    BY <2>2, <2>3 DEF Submit
  <2>4. CASE Lane(proc[r], thread[r]) # {}
    <3>1. (CHOOSE s \in Lane(proc[r], thread[r]) : TRUE) \in Lane(proc[r], thread[r])
      BY <2>4
    <3>2. \A s \in Lane(proc[r], thread[r]) : base[s] = NoRun
      BY DEF Lane, Inv, Permission, StartInv
    <3>3. QED
      BY <2>2, <2>4, <3>1, <3>2 DEF Submit, Inv, TypeOK
  <2>5. QED
    BY <2>3, <2>4
<1>4. \A s \in Run : StartInv(s)'
  <2>1. ASSUME NEW s \in Run PROVE StartInv(s)'
    <3>1. CASE s = r
      BY <1>1, <1>3, <3>1 DEF StartInv, Inv, Permission
    <3>2. CASE s # r
      <4>1. StartInv(s)
        BY DEF Inv, Permission
      <4>2. pc[s] = "waiting" /\ base[s] # NoRun => base[s] # r /\ base[s] \in Run
        BY <1>1, <4>1 DEF StartInv, Inv, TypeOK
      <4>3. QED
        BY <1>1, <1>2, <3>2, <4>1, <4>2 DEF StartInv
    <3>3. QED
      BY <3>1, <3>2
  <2>2. QED
    BY <2>1
<1>5. \A s \in Run : TokenInv(s)'
  BY <1>1, <1>2, TokenFrame
<1>6. \A t \in Thread : RowInv(t)'
  <2>1. SUFFICES ASSUME NEW t \in Thread, row[t] # NoRun PROVE RowInv(t)'
    BY <1>1 DEF RowInv
  <2>2. RowInv(t) /\ row[t] \in Run
    BY <2>1 DEF Inv, TypeOK, Permission
  <2>3. row[t] # r
    BY <1>1, <2>1, <2>2 DEF RowInv
  <2>4. QED
    BY <1>1, <1>2, <2>1, <2>2, <2>3 DEF RowInv
<1>7. \A t \in Thread : LogInv(t)'
  <2>1. thread' \in [Run -> Thread \cup {NoThread}]
    BY <1>1 DEF Inv, TypeOK
  <2>2. QED
    BY <1>1, <1>2, <2>1, LogFrame
<1>8. TipInv'
  BY <1>1, <1>2, <1>3 DEF TipInv, AtTip, Inv, Permission
<1>9. \A s \in (prelude \cup passed)' : pc'[s] \in {"inside", "over"}
  BY <1>1, <1>2 DEF Inv, TypeOK, Permission
<1>10. QED
  BY <1>4, <1>5, <1>6, <1>7, <1>8, <1>9 DEF Permission

\* A turn gets inside: everything but its own token and the locks is the same, and
\* nobody was inside, nor will be followed up, on its thread.
LEMMA InsidePermission ==
    ASSUME Inv, NEW r \in Run, NEW lock \in Run,
           pc[r] = "waiting", GoInside(r, lock),
           \A s \in Run : TokenInv(s)',
           \A t \in Thread : RowInv(t)',
           \A s \in Run : AtTip(s) /\ thread[s] = thread[r] => s = r
    PROVE  Permission'
<1>1. /\ \A s \in Run : s # r => pc'[s] = pc[s] /\ token'[s] = token[s]
      /\ pc'[r] = "inside"
      /\ UNCHANGED <<proc, thread, route, base, inHandler, passed, followed, log>>
      /\ prelude' = prelude \cup {r}
  BY DEF GoInside, runVars, Inv, TypeOK
<1>2. \A s \in Run : StartInv(s)'
  <2>1. ASSUME NEW s \in Run PROVE StartInv(s)'
    <3>1. CASE s = r
      BY <1>1, <3>1 DEF StartInv, Inv, Permission
    <3>2. CASE s # r
      <4>1. StartInv(s)
        BY DEF Inv, Permission
      <4>2. pc[s] = "waiting" /\ base[s] # NoRun => base[s] # r /\ base[s] \in Run
        BY <4>1 DEF StartInv, Inv, TypeOK
      <4>3. QED
        BY <1>1, <3>2, <4>1, <4>2 DEF StartInv
    <3>3. QED
      BY <3>1, <3>2
  <2>2. QED
    BY <2>1
<1>3. TipInv'
  BY <1>1 DEF TipInv, AtTip, Inv, Permission
<1>4. \A t \in Thread : LogInv(t)'
  <2>1. ASSUME NEW t \in Thread, NEW i \in 1 .. Len(log[t])
        PROVE  log[t][i].run # r /\ log[t][i].run \in Run
    BY <2>1, EventType DEF LogInv, Inv, Permission
  <2>2. QED
    BY <1>1, <2>1 DEF LogInv, Inv, Permission
<1>5. \A s \in (prelude \cup passed)' : pc'[s] \in {"inside", "over"}
  BY <1>1 DEF Inv, TypeOK, Permission
<1>6. QED
  BY <1>2, <1>3, <1>4, <1>5 DEF Permission

\* A turn with a lock in its context goes in under it.
LEMMA NestedPermission ==
    ASSUME Inv, NEW r \in Run, EnterNested(r)
    PROVE  Permission'
<1>1. /\ pc[r] = "waiting" /\ base[r] # NoRun
      /\ GoInside(r, base[r]) /\ UNCHANGED <<row, held>>
  BY DEF EnterNested, Called, Reentrant, lockVars
<1>2. /\ base[r] \in Run /\ base[r] # r
      /\ row[thread[r]] = base[r] /\ held[proc[r]][thread[r]] = base[r]
      /\ pc[base[r]] = "abandoned" /\ token[base[r]] = base[r]
      /\ thread[base[r]] = thread[r] /\ proc[base[r]] = proc[r]
  BY <1>1, CalledHolds DEF Inv, TypeOK, Permission, StartInv
<1>3. /\ \A s \in Run : s # r => pc'[s] = pc[s] /\ token'[s] = token[s]
      /\ pc'[r] = "inside" /\ token'[r] = base[r]
      /\ UNCHANGED <<proc, thread>>
  BY <1>1 DEF GoInside, runVars, Inv, TypeOK
<1>4. \A s \in Run : TokenInv(s)'
  <2>1. ASSUME NEW s \in Run PROVE TokenInv(s)'
    <3>1. CASE s = r
      BY <1>1, <1>2, <1>3, <3>1 DEF TokenInv
    <3>2. CASE s # r
      <4>1. TokenInv(s)
        BY DEF Inv, Permission
      <4>2. pc[s] \in {"inside", "abandoned"} => token[s] # r
        BY <1>1, <3>2, <4>1 DEF TokenInv
      <4>3. QED
        BY <1>1, <1>3, <3>2, <4>1, <4>2 DEF TokenInv
    <3>3. QED
      BY <3>1, <3>2
  <2>2. QED
    BY <2>1
<1>5. \A t \in Thread : RowInv(t)'
  <2>1. SUFFICES ASSUME NEW t \in Thread, row[t] # NoRun PROVE RowInv(t)'
    BY <1>1 DEF RowInv
  <2>2. RowInv(t) /\ row[t] \in Run
    BY <2>1 DEF Inv, TypeOK, Permission
  <2>3. row[t] # r
    BY <1>1, <2>1, <2>2 DEF RowInv
  <2>4. QED
    BY <1>1, <1>3, <2>1, <2>2, <2>3 DEF RowInv
<1>6. \A s \in Run : AtTip(s) /\ thread[s] = thread[r] => s = r
  BY <1>1 DEF AtTip, TipInv, Inv, Permission
<1>7. QED
  BY <1>1, <1>2, <1>4, <1>5, <1>6, InsidePermission

\* A turn gets the lock when nobody has it.
LEMMA EnterPermission ==
    ASSUME Inv, NEW r \in Run, Enter(r)
    PROVE  Permission'
<1>1. /\ pc[r] = "waiting" /\ row[thread[r]] = NoRun /\ GoInside(r, r)
      /\ row' = [row EXCEPT ![thread[r]] = r]
      /\ held' = [held EXCEPT ![proc[r]][thread[r]] = r]
  BY DEF Enter, Called
<1>2. thread[r] \in Thread /\ proc[r] \in Process
  BY <1>1 DEF Inv, Permission, StartInv
<1>3. /\ \A s \in Run : s # r => pc'[s] = pc[s] /\ token'[s] = token[s]
      /\ pc'[r] = "inside" /\ token'[r] = r
      /\ UNCHANGED <<proc, thread>>
  BY <1>1 DEF GoInside, runVars, Inv, TypeOK
<1>4. /\ row'[thread[r]] = r
      /\ \A t \in Thread : t # thread[r] => row'[t] = row[t]
      /\ held'[proc[r]][thread[r]] = r
      /\ \A p \in Process, t \in Thread : t # thread[r] => held'[p][t] = held[p][t]
  BY <1>1, <1>2 DEF Inv, TypeOK
<1>5. \A s \in Run : AtTip(s) => thread[s] # thread[r]
  BY <1>1, TipLocks
<1>6. \A s \in Run : TokenInv(s)'
  <2>1. ASSUME NEW s \in Run PROVE TokenInv(s)'
    <3>1. CASE s = r
      BY <1>3, <1>4, <3>1 DEF TokenInv
    <3>2. CASE s # r /\ pc[s] \in {"inside", "abandoned"}
      <4>1. TokenInv(s) /\ thread[s] \in Thread /\ proc[s] \in Process
        BY <3>2 DEF Inv, Permission, StartInv
      <4>2. token[s] # r /\ token[s] \in Run
        BY <1>1, <3>2, <4>1 DEF TokenInv
      <4>3. thread[s] # thread[r]
        BY <1>1, <3>2, <4>1, ConstantsAssumption DEF TokenInv
      <4>4. QED
        BY <1>3, <1>4, <3>2, <4>1, <4>2, <4>3 DEF TokenInv
    <3>3. CASE s # r /\ pc[s] \notin {"inside", "abandoned"}
      BY <1>3, <3>3 DEF TokenInv
    <3>4. QED
      BY <3>1, <3>2, <3>3
  <2>2. QED
    BY <2>1
<1>7. \A t \in Thread : RowInv(t)'
  <2>1. ASSUME NEW t \in Thread PROVE RowInv(t)'
    <3>1. CASE t = thread[r]
      BY <1>3, <1>4, <3>1 DEF RowInv
    <3>2. CASE t # thread[r] /\ row[t] # NoRun
      <4>1. RowInv(t) /\ row[t] \in Run /\ row'[t] = row[t]
        BY <1>4, <3>2 DEF Inv, TypeOK, Permission
      <4>2. row[t] # r
        BY <1>1, <3>2, <4>1 DEF RowInv
      <4>3. QED
        BY <1>3, <3>2, <4>1, <4>2 DEF RowInv
    <3>3. CASE t # thread[r] /\ row[t] = NoRun
      BY <1>4, <3>3 DEF RowInv
    <3>4. QED
      BY <3>1, <3>2, <3>3
  <2>2. QED
    BY <2>1
<1>8. QED
  BY <1>1, <1>5, <1>6, <1>7, InsidePermission

\* The turn ends: if it gives the lock back, nobody else relies on it.
LEMMA LeavePermission ==
    ASSUME Inv, NEW r \in Run, Leave(r) \/ LeaveEarly(r)
    PROVE  Permission'
<1>1. /\ pc[r] = "inside" /\ pc' = [pc EXCEPT ![r] = "over"] /\ Release(r)
      /\ UNCHANGED <<proc, thread, route, base, inHandler, token, prelude, passed,
                     followed, log>>
  BY DEF Leave, LeaveEarly, runVars
<1>2. /\ thread[r] \in Thread /\ proc[r] \in Process /\ TokenInv(r)
      /\ row[thread[r]] = token[r] /\ held[proc[r]][thread[r]] = token[r]
  BY <1>1 DEF Inv, Permission, StartInv, TokenInv
<1>3. /\ \A s \in Run : s # r => pc'[s] = pc[s]
      /\ pc'[r] = "over"
  BY <1>1 DEF Inv, TypeOK
<1>4. /\ \A t \in Thread : t # thread[r] => row'[t] = row[t]
      /\ \A p \in Process, t \in Thread : t # thread[r] => held'[p][t] = held[p][t]
      /\ token[r] = r => row'[thread[r]] = NoRun
      /\ token[r] # r => UNCHANGED <<row, held>>
  <2>1. CASE token[r] = r
    <3>1. /\ held' = [held EXCEPT ![proc[r]][thread[r]] = NoRun]
          /\ row' = [row EXCEPT ![thread[r]] = IF @ = r THEN NoRun ELSE @]
          /\ row[thread[r]] = r
      BY <1>1, <1>2, <2>1 DEF Release
    <3>2. row' = [row EXCEPT ![thread[r]] = NoRun]
      BY <3>1
    <3>3. QED
      BY <1>2, <2>1, <3>1, <3>2 DEF Inv, TypeOK
  <2>2. CASE token[r] # r
    BY <1>1, <2>2 DEF Release, lockVars
  <2>3. QED
    BY <2>1, <2>2
<1>5. ASSUME NEW s \in Run, s # r, pc[s] \in {"inside", "abandoned"}
      PROVE  /\ token[s] # r
             /\ thread[s] = thread[r] => token[r] # r
  <2>1. TokenInv(s)
    BY DEF Inv, Permission
  <2>2. token[s] # r
    BY <1>1, <1>5, <2>1 DEF TokenInv
  <2>3. QED
    BY <1>2, <1>5, <2>1, <2>2 DEF TokenInv
<1>6. \A s \in Run : StartInv(s)'
  <2>1. ASSUME NEW s \in Run PROVE StartInv(s)'
    <3>1. CASE s = r
      BY <1>1, <1>3, <3>1 DEF StartInv, Inv, Permission
    <3>2. CASE s # r
      <4>1. StartInv(s)
        BY DEF Inv, Permission
      <4>2. pc[s] = "waiting" /\ base[s] # NoRun => base[s] # r /\ base[s] \in Run
        BY <1>1, <4>1 DEF StartInv, Inv, TypeOK
      <4>3. QED
        BY <1>1, <1>3, <3>2, <4>1, <4>2 DEF StartInv
    <3>3. QED
      BY <3>1, <3>2
  <2>2. QED
    BY <2>1
<1>7. \A s \in Run : TokenInv(s)'
  <2>1. ASSUME NEW s \in Run PROVE TokenInv(s)'
    <3>1. CASE s # r /\ pc[s] \in {"inside", "abandoned"}
      <4>1. /\ TokenInv(s) /\ thread[s] \in Thread /\ proc[s] \in Process
            /\ token[s] # r /\ token[s] \in Run
        BY <1>5, <3>1 DEF Inv, Permission, StartInv, TokenInv
      <4>2. row'[thread[s]] = row[thread[s]] /\ held'[proc[s]][thread[s]] = held[proc[s]][thread[s]]
        BY <1>4, <1>5, <3>1, <4>1
      <4>3. QED
        BY <1>1, <1>3, <3>1, <4>1, <4>2 DEF TokenInv
    <3>2. CASE s = r \/ pc[s] \notin {"inside", "abandoned"}
      BY <1>3, <3>2 DEF TokenInv
    <3>3. QED
      BY <3>1, <3>2
  <2>2. QED
    BY <2>1
<1>8. \A t \in Thread : RowInv(t)'
  <2>1. SUFFICES ASSUME NEW t \in Thread, row'[t] # NoRun PROVE RowInv(t)'
    BY DEF RowInv
  <2>2. row'[t] = row[t] /\ (t = thread[r] => token[r] # r)
    BY <1>4, <2>1
  <2>3. RowInv(t) /\ row[t] \in Run
    BY <2>1, <2>2 DEF Inv, TypeOK, Permission
  <2>4. row[t] # r
    BY <1>2, <2>1, <2>2, <2>3 DEF RowInv
  <2>5. QED
    BY <1>1, <1>3, <2>1, <2>2, <2>3, <2>4 DEF RowInv
<1>9. \A t \in Thread : LogInv(t)'
  <2>1. thread' \in [Run -> Thread \cup {NoThread}]
    BY <1>1 DEF Inv, TypeOK
  <2>2. QED
    BY <1>1, <1>3, <2>1, LogFrame
<1>10. TipInv'
  BY <1>1, <1>3 DEF TipInv, AtTip, Inv, Permission
<1>11. \A s \in (prelude \cup passed)' : pc'[s] \in {"inside", "over"}
  BY <1>1, <1>3 DEF Inv, TypeOK, Permission
<1>12. QED
  BY <1>6, <1>7, <1>8, <1>9, <1>10, <1>11 DEF Permission

\* An abandoned turn stays at the tip, with its lock.
LEMMA AbandonPermission ==
    ASSUME Inv, NEW r \in Run, Abandon(r)
    PROVE  Permission'
<1>1. /\ pc[r] = "inside" /\ r \notin prelude /\ r \notin passed
      /\ UNCHANGED <<row, held, proc, thread, route, base, inHandler, token, prelude,
                     passed, followed, log>>
      /\ \A s \in Run : s # r => pc'[s] = pc[s]
      /\ pc'[r] = "abandoned"
  BY DEF Abandon, lockVars, runVars, Inv, TypeOK
<1>2. \A s \in Run : StartInv(s)'
  <2>1. ASSUME NEW s \in Run PROVE StartInv(s)'
    <3>1. StartInv(s)
      BY DEF Inv, Permission
    <3>2. pc[s] = "waiting" /\ base[s] # NoRun => base[s] # r /\ base[s] \in Run
      BY <1>1, <3>1 DEF StartInv, Inv, TypeOK
    <3>3. QED
      BY <1>1, <3>1, <3>2 DEF StartInv
  <2>2. QED
    BY <2>1
<1>3. \A s \in Run : TokenInv(s)'
  BY <1>1, TokenFrame
<1>4. \A t \in Thread : RowInv(t)'
  <2>1. SUFFICES ASSUME NEW t \in Thread, row[t] # NoRun PROVE RowInv(t)'
    BY <1>1 DEF RowInv
  <2>2. RowInv(t) /\ row[t] \in Run
    BY <2>1 DEF Inv, TypeOK, Permission
  <2>3. QED
    BY <1>1, <2>1, <2>2 DEF RowInv
<1>5. \A t \in Thread : LogInv(t)'
  <2>1. thread' \in [Run -> Thread \cup {NoThread}]
    BY <1>1 DEF Inv, TypeOK
  <2>2. QED
    BY <1>1, <2>1, LogFrame
<1>6. TipInv'
  BY <1>1 DEF TipInv, AtTip, Inv, Permission
<1>7. \A s \in (prelude \cup passed)' : pc'[s] \in {"inside", "over"}
  BY <1>1 DEF Inv, TypeOK, Permission
<1>8. QED
  BY <1>2, <1>3, <1>4, <1>5, <1>6, <1>7 DEF Permission

\* Steps that only change who writes.
LEMMA CheckPermission ==
    ASSUME Inv, NEW r \in Run, PreludeDone(r) \/ CheckWrite(r) \/ StrayRefused(r)
    PROVE  Permission'
<1>1. /\ UNCHANGED <<row, held, proc, thread, route, base, inHandler, pc, token,
                     followed, log>>
      /\ (prelude \cup passed)' \subseteq prelude \cup passed \cup {r}
      /\ r \in (prelude \cup passed)' => pc[r] \in {"inside", "over"}
  BY DEF PreludeDone, CheckWrite, StrayRefused, MayWrite, lockVars, runVars, Inv,
         Permission
<1>2. \A s \in (prelude \cup passed)' : pc'[s] \in {"inside", "over"}
  BY <1>1 DEF Inv, Permission
<1>3. (\A s \in Run : StartInv(s) /\ TokenInv(s))'
  BY <1>1 DEF StartInv, TokenInv, Inv, Permission
<1>4. (\A t \in Thread : RowInv(t) /\ LogInv(t))'
  BY <1>1 DEF RowInv, LogInv, Inv, Permission
<1>5. TipInv'
  BY <1>1 DEF TipInv, AtTip, Inv, Permission
<1>6. QED
  BY <1>2, <1>3, <1>4, <1>5 DEF Permission

\* What is in the log after an event is added to it.
LEMMA Inserted ==
    ASSUME Inv, NEW r \in Run, InsertEvent(r)
    PROVE  /\ thread[r] \in Thread
           /\ \A t \in Thread : t # thread[r] => log'[t] = log[t]
           /\ Len(log[thread[r]]) \in Nat
           /\ Len(log'[thread[r]]) = Len(log[thread[r]]) + 1
           /\ \A i \in 1 .. Len(log[thread[r]]) : log'[thread[r]][i] = log[thread[r]][i]
           /\ log'[thread[r]][Len(log[thread[r]]) + 1]
                 = [run |-> r, stray |-> pc[r] # "inside"]
<1> DEFINE e == [run |-> r, stray |-> pc[r] # "inside"]
           Entry == [run : Run, stray : BOOLEAN]
<1>1. pc[r] # "new"
  BY DEF InsertEvent, Inv, Permission
<1>2. thread[r] \in Thread
  BY <1>1 DEF Inv, Permission, StartInv
<1>3. log' = [log EXCEPT ![thread[r]] = Append(@, e)]
  BY DEF InsertEvent
<1> HIDE DEF e, Entry
<1>4. log \in [Thread -> Seq(Entry)]
  BY DEF Entry, Inv, TypeOK
<1>5. log'[thread[r]] = Append(log[thread[r]], e)
  BY <1>2, <1>3, <1>4
<1>6. log[thread[r]] \in Seq(Entry)
  BY <1>2, <1>4
<1>7. \A t \in Thread : t # thread[r] => log'[t] = log[t]
  BY <1>3, <1>4
<1>8. QED
  BY <1>2, <1>5, <1>6, <1>7 DEF e

\* An event joins the log; only the turn inside writes one that is not stray.
LEMMA InsertPermission ==
    ASSUME Inv, NEW r \in Run, InsertEvent(r)
    PROVE  Permission'
<1>1. /\ UNCHANGED <<row, held, proc, thread, route, base, inHandler, pc, token,
                     prelude, followed>>
      /\ passed' \subseteq passed
      /\ pc[r] \in {"inside", "over"}
  BY DEF InsertEvent, lockVars, runVars, Inv, Permission
<1>2. \A s \in (prelude \cup passed)' : pc'[s] \in {"inside", "over"}
  BY <1>1 DEF Inv, Permission
<1>3. (\A s \in Run : StartInv(s) /\ TokenInv(s))'
  BY <1>1 DEF StartInv, TokenInv, Inv, Permission
<1>4. (\A t \in Thread : RowInv(t))'
  BY <1>1 DEF RowInv, Inv, Permission
<1>5. TipInv'
  BY <1>1 DEF TipInv, AtTip, Inv, Permission
<1>6. \A t \in Thread : LogInv(t)'
  <2>1. ASSUME NEW t \in Thread, t # thread[r] PROVE LogInv(t)'
    <3>1. log'[t] = log[t]
      BY <2>1, Inserted
    <3>2. QED
      BY <1>1, <3>1 DEF LogInv, Inv, Permission
  <2>2. ASSUME NEW t \in Thread, t = thread[r] PROVE LogInv(t)'
    <3> DEFINE n == Len(log[t])
    <3>1. /\ t \in Thread /\ n \in Nat /\ Len(log'[t]) = n + 1 /\ LogInv(t)
          /\ \A i \in 1 .. n : log'[t][i] = log[t][i] /\ log[t][i].run \in Run
          /\ log'[t][n + 1].run = r
          /\ log'[t][n + 1].stray = (pc[r] # "inside")
      <4>1. /\ n \in Nat /\ Len(log'[t]) = n + 1
            /\ \A i \in 1 .. n : log'[t][i] = log[t][i]
            /\ log'[t][n + 1] = [run |-> r, stray |-> pc[r] # "inside"]
        BY <2>2, Inserted
      <4>2. LogInv(t)
        BY DEF Inv, Permission
      <4>3. \A i \in 1 .. n : log[t][i].run \in Run
        BY EventType DEF Inv
      <4>4. QED
        BY <4>1, <4>2, <4>3
    <3>2. ASSUME NEW i \in 1 .. n + 1
          PROVE  /\ thread'[log'[t][i].run] = t
                 /\ pc'[log'[t][i].run] \notin {"new", "task", "waiting", "locked", "refused"}
      <4>1. CASE i = n + 1
        BY <1>1, <2>2, <3>1, <4>1
      <4>2. CASE i \in 1 .. n
        BY <1>1, <3>1, <4>2 DEF LogInv
      <4>3. QED
        BY <3>1, <4>1, <4>2
    <3>3. ASSUME NEW i \in 1 .. n + 1, pc[log'[t][i].run] = "inside", ~log'[t][i].stray,
                 NEW j \in i .. n + 1, ~log'[t][j].stray
          PROVE  log'[t][j].run = log'[t][i].run
      <4>1. CASE i = n + 1
        BY <3>1, <3>3, <4>1
      <4>2. CASE i \in 1 .. n /\ j \in i .. n
        BY <3>1, <3>3, <4>2 DEF LogInv
      <4>3. CASE i \in 1 .. n /\ j = n + 1
        <5>1. pc[r] = "inside"
          BY <3>1, <3>3, <4>3
        <5>2. log[t][i].run \in Run /\ thread[log[t][i].run] = t /\ pc[log[t][i].run] = "inside"
          BY <3>1, <3>3, <4>3 DEF LogInv
        <5>3. log[t][i].run = r
          BY <2>2, <5>1, <5>2 DEF Inv, Permission, TipInv, AtTip
        <5>4. QED
          BY <3>1, <4>3, <5>3
      <4>4. QED
        BY <3>1, <4>1, <4>2, <4>3
    <3>4. QED
      BY <1>1, <3>1, <3>2, <3>3 DEF LogInv
  <2>3. QED
    BY <2>1, <2>2
<1>7. QED
  BY <1>2, <1>3, <1>4, <1>5, <1>6 DEF Permission

\* A process dies: its turns and what its store held are gone, its rows stay.
LEMMA CrashPermission ==
    ASSUME Inv, NEW p \in Process, Crash(p)
    PROVE  Permission'
<1> DEFINE Gone == {r \in Run : /\ proc[r] = p
                                /\ \/ pc[r] \in {"task", "waiting", "inside", "abandoned"}
                                   \/ r \in prelude}
<1>1. /\ \A r \in Gone : pc'[r] = "dead"
      /\ \A r \in Run \ Gone : pc'[r] = pc[r]
      /\ \A q \in Process \ {p} : held'[q] = held[q]
      /\ prelude' = prelude \ Gone /\ passed' = passed \ Gone
      /\ UNCHANGED <<row, proc, thread, route, base, inHandler, token, followed, log>>
  BY DEF Crash, runVars, Inv, TypeOK
<1>2. \A r \in Run : pc[r] \in {"task", "waiting", "inside", "abandoned"} =>
        (r \in Gone <=> proc[r] = p)
  OBVIOUS
<1>3. \A r \in Gone : pc[r] \in {"task", "waiting", "inside", "abandoned", "over"}
  BY DEF Inv, Permission
<1> HIDE DEF Gone
<1>4. \A s \in Run : StartInv(s)'
  <2>1. ASSUME NEW s \in Run PROVE StartInv(s)'
    <3>1. StartInv(s)
      BY DEF Inv, Permission
    <3>2. CASE s \in Gone
      BY <1>1, <1>3, <3>1, <3>2 DEF StartInv
    <3>3. CASE s \notin Gone /\ pc[s] = "waiting" /\ base[s] # NoRun
      <4>1. base[s] \in Run /\ base[s] \notin Gone
        BY <1>2, <3>1, <3>3 DEF StartInv, Inv, TypeOK
      <4>2. QED
        BY <1>1, <3>1, <3>3, <4>1 DEF StartInv
    <3>4. CASE s \notin Gone /\ ~(pc[s] = "waiting" /\ base[s] # NoRun)
      BY <1>1, <3>1, <3>4 DEF StartInv
    <3>5. QED
      BY <3>2, <3>3, <3>4
  <2>2. QED
    BY <2>1
<1>5. \A s \in Run : TokenInv(s)'
  <2>1. ASSUME NEW s \in Run, s \notin Gone, pc[s] \in {"inside", "abandoned"}
        PROVE  TokenInv(s)'
    <3>1. TokenInv(s) /\ token[s] \in Run /\ proc[s] \in Process \ {p}
      BY <1>2, <2>1 DEF Inv, Permission, TokenInv, StartInv
    <3>2. token[s] # s => token[s] \notin Gone
      BY <1>2, <2>1, <3>1 DEF TokenInv
    <3>3. QED
      BY <1>1, <2>1, <3>1, <3>2 DEF TokenInv
  <2>2. ASSUME NEW s \in Run, s \in Gone \/ pc[s] \notin {"inside", "abandoned"}
        PROVE  TokenInv(s)'
    BY <1>1, <2>2 DEF TokenInv
  <2>3. QED
    BY <2>1, <2>2
<1>6. \A t \in Thread : RowInv(t)'
  <2>1. ASSUME NEW t \in Thread, row[t] # NoRun PROVE RowInv(t)'
    <3>1. RowInv(t) /\ row[t] \in Run
      BY <2>1 DEF Inv, TypeOK, Permission
    <3>2. QED
      BY <1>1, <2>1, <3>1 DEF RowInv
  <2>2. QED
    BY <1>1, <2>1 DEF RowInv
<1>7. \A t \in Thread : LogInv(t)'
  <2>1. thread' \in [Run -> Thread \cup {NoThread}]
    BY <1>1 DEF Inv, TypeOK
  <2>2. QED
    BY <1>1, <2>1, LogFrame
<1>8. TipInv'
  BY <1>1 DEF TipInv, AtTip, Inv, Permission
<1>9. \A s \in (prelude \cup passed)' : pc'[s] \in {"inside", "over"}
  BY <1>1 DEF Inv, TypeOK, Permission
<1>10. QED
  BY <1>4, <1>5, <1>6, <1>7, <1>8, <1>9 DEF Permission

-----------------------------------------------------------------------------
(* The theorems *)

LEMMA NextInv == Inv /\ [Next]_vars => Inv'
<1> SUFFICES ASSUME Inv, [Next]_vars PROVE Inv'
  OBVIOUS
<1>1. TypeOK'
  BY NextType DEF Inv
<1>2. Permission'
  <2>1. CASE UNCHANGED vars
    BY <2>1 DEF vars, lockVars, runVars, Inv, Permission, StartInv, TokenInv,
                RowInv, LogInv, TipInv, AtTip
  <2>2. ASSUME Next PROVE Permission'
    BY <2>2, StartPermission, HandlerPermission, FollowPermission, SubmitPermission,
       NestedPermission, EnterPermission, LeavePermission, AbandonPermission,
       CheckPermission, InsertPermission, CrashPermission DEF Next
  <2>3. QED
    BY <2>1, <2>2
<1>3. QED
  BY <1>1, <1>2 DEF Inv

\* Every state has the types and is permitted: what the theorems below rest on.
LEMMA InvKept == Spec => []Inv
  BY InitInv, NextInv, PTL DEF Spec

\* The permission to write to a thread is handed on with a context, and to one
\* turn only.
THEOREM PermissionKept == Spec => []Permission
<1>1. Inv => Permission
  BY DEF Inv
<1>2. QED
  BY <1>1, InvKept, PTL

\* Whatever the number of turns, processes and threads, and however the context of
\* a turn is inherited, two turns never work on a thread at once.
THEOREM OneTurn == Spec => []OneTurnAtATime
<1>1. Inv => OneTurnAtATime
  BY DEF Inv, Permission, TipInv, AtTip, OneTurnAtATime
<1>2. QED
  BY <1>1, InvKept, PTL

\* Turns work under a lock that is both in the table and held by their process,
\* and every row of the table has a turn to blame for it.
THEOREM LocksHaveTurns == Spec => []LockHasTurn
<1>1. Inv => LockHasTurn
  BY DEF Inv, Permission, TokenInv, RowInv, LockHasTurn
<1>2. QED
  BY <1>1, InvKept, PTL

\* InsertEvent is the only step that touches the log.
LEMMA OnlyInsertLogs ==
    ASSUME [Next]_vars
    PROVE  log' = log \/ \E r \in Run : InsertEvent(r)
  BY DEF Next, vars, StartDirect, StartDetached, PluginTask, HandlerTask, FollowUp,
         SubmitRefused, Submit, EnterNested, Enter, EnterLocked, GoInside, PreludeDone,
         Leave, LeaveEarly, Abandon, CheckWrite, StrayRefused, Crash

LEMMA ContiguousStep ==
    ASSUME Inv, TurnsContiguous, [Next]_vars
    PROVE  TurnsContiguous'
<1>1. CASE log' = log
  BY <1>1 DEF TurnsContiguous
<1>2. ASSUME NEW r \in Run, InsertEvent(r) PROVE TurnsContiguous'
  <2> SUFFICES ASSUME NEW t \in Thread,
                      NEW i \in 1 .. Len(log'[t]), NEW j \in 1 .. Len(log'[t]),
                      NEW k \in 1 .. Len(log'[t]),
                      i < j, j < k,
                      ~log'[t][i].stray, ~log'[t][j].stray, ~log'[t][k].stray,
                      log'[t][i].run = log'[t][k].run
               PROVE  log'[t][j].run = log'[t][i].run
    BY DEF TurnsContiguous
  <2> DEFINE n == Len(log[t])
  <2>1. CASE t # thread[r]
    <3>1. log'[t] = log[t]
      BY <1>2, <2>1, Inserted
    <3>2. QED
      BY <3>1 DEF TurnsContiguous
  <2>2. CASE t = thread[r]
    <3>1. /\ n \in Nat /\ Len(log'[t]) = n + 1
          /\ \A x \in 1 .. n : log'[t][x] = log[t][x]
          /\ log'[t][n + 1] = [run |-> r, stray |-> pc[r] # "inside"]
      BY <1>2, <2>2, Inserted
    <3>2. i \in 1 .. n /\ j \in i .. n /\ j \in 1 .. n
      BY <3>1
    <3>3. CASE k \in 1 .. n
      BY <3>1, <3>2, <3>3, ZenonT(60) DEF TurnsContiguous
    <3>4. CASE k = n + 1
      <4>1. log'[t][k] = [run |-> r, stray |-> pc[r] # "inside"]
        BY <3>1, <3>4
      <4>4. log'[t][k].run = r /\ log'[t][k].stray = (pc[r] # "inside")
        BY <4>1
      <4>5. pc[r] = "inside"
        BY <4>4
      <4>6. log[t][i].run = r
        BY <3>1, <3>2, <4>4
      <4>2. LogInv(t)
        BY DEF Inv, Permission
      <4>3. QED
        BY <3>1, <3>2, <4>2, <4>5, <4>6 DEF LogInv
    <3>5. QED
      BY <3>1, <3>3, <3>4
  <2>3. QED
    BY <2>1, <2>2
<1>3. QED
  BY <1>1, <1>2, OnlyInsertLogs

\* In every history the events of a turn stand together, but for what a prelude
\* thread writes after its turn was cancelled.
THEOREM HistoriesContiguous == Spec => []TurnsContiguous
<1>1. Init => TurnsContiguous
  BY DEF Init, TurnsContiguous
<1>2. Inv /\ TurnsContiguous /\ [Next]_vars => TurnsContiguous'
  BY ContiguousStep
<1>3. QED
  BY <1>1, <1>2, InvKept, PTL DEF Spec

=============================================================================
