----------------------------- MODULE RunsProofs -----------------------------
(***************************************************************************)
(* That what the user wrote behind a turn is never forgotten by the        *)
(* terminal interface.  A handler of Runs is a composition of functions    *)
(* from a world (the run states, the newest of each thread, the turns, the *)
(* line of tasks, the one listed) to a world, so there is one lemma per    *)
(* function, from what it needs of its argument to what it gives, then     *)
(* one per action.  Between two functions of a handler Good does not hold  *)
(* of the message the handler has in hand: Apart is what then does.        *)
(***************************************************************************)
EXTENDS Runs, TLAPS

\* The parts of Good, for a world w some of whose messages are in hand: taken from where
\* they were and not yet put where they go; threads in free need no starter for the moment.
LineBut(w, hand) ==
    /\ \A a, b \in DOMAIN w.ready : w.ready[a] = w.ready[b] => a = b
    /\ \A a \in DOMAIN w.ready : w.ready[a] \notin hand
    /\ \A m \in Messages \ hand :
          w.turns[m].stage \in Unbegun <=> \E a \in DOMAIN w.ready : w.ready[a] = m
Alone(w, m, hand) ==
    \A n \in Messages \ hand :
        w.turns[n].stage \in Working /\ w.turns[n].thread = w.turns[m].thread => n = m
LockBut(w, hand) ==
    \A m \in Messages \ hand : w.turns[m].stage \in Working => Alone(w, m, hand) /\ HasRun(w, m)
StarterBut(w, i, hand) ==
    \/ w.runs[i].finished
    \/ \E m \in Messages \ hand :
           \/ w.turns[m].stage \in Working /\ w.turns[m].run = i
           \/ w.turns[m].stage \in Unbegun /\ w.turns[m].thread = w.runs[i].thread
StartersBut(w, hand, free) ==
    \A t \in Threads \ free :
        w.current[t] # 0 /\ (w.runs[w.current[t]].pending # <<>> \/ w.runs[w.current[t]].drain)
            => StarterBut(w, w.current[t], hand)
NewestBut(w, free) ==
    \A a \in DOMAIN w.ready :
        LET t == w.turns[w.ready[a]].thread IN
        t \notin free /\ w.turns[w.ready[a]].stage = "created" /\ w.current[t] # 0
            => NamedFrom(w, a, w.current[t])
\* What each step of a handler keeps, and all of them together.
Shape(w) == TypeOK(w) /\ OwnRuns(w) /\ WaitsOnce(w)
Apart(w, hand, free) ==
    Shape(w) /\ NewestBut(w, free) /\ LineBut(w, hand) /\ LockBut(w, hand) /\ StartersBut(w, hand, free)

\* Message m is neither named by a run state nor waits behind one.
Loose(w, m) == \A i \in DOMAIN w.runs :
    w.runs[i].task # m /\ \A k \in DOMAIN w.runs[i].pending : w.runs[i].pending[k] # m

\* From w to v: message m is put at the end of the line, by thread t's run i or to be started.
Lined(w, v, m, t, i, free) ==
    /\ v \in Worlds /\ v.listed = w.listed /\ v.current = w.current /\ v.ready = Append(w.ready, m)
    /\ \A n \in Messages : n # m => v.turns[n] = w.turns[n]
    /\ v.turns[m].thread = t /\ v.turns[m].stage \in {"scheduled", "created"}
    /\ i = w.current[t] /\ DOMAIN v.runs = DOMAIN w.runs
    /\ \A j \in DOMAIN w.runs : /\ j # i => v.runs[j] = w.runs[j]
                                /\ v.runs[j].thread = w.runs[j].thread
                                /\ v.runs[j].pending = w.runs[j].pending
    /\ \/ v.turns[m].stage = "scheduled" /\ v.runs = w.runs /\ NewestBut(w, free)
       \/ v.turns[m].stage = "created" /\ i # 0 /\ v.runs[i].task = m /\ ~v.runs[i].finished

\* Only run state i is another, which is still of the same thread, task and queue.
OneRun(w, v, i) ==
    /\ v \in Worlds /\ v.current = w.current /\ v.turns = w.turns /\ v.ready = w.ready
    /\ v.listed = w.listed /\ DOMAIN v.runs = DOMAIN w.runs
    /\ \A j \in DOMAIN w.runs : j # i => v.runs[j] = w.runs[j]
    /\ v.runs[i].thread = w.runs[i].thread /\ v.runs[i].task = w.runs[i].task

\* Run state i only changed what it shows; it is not newly ended while its thread works.
Changed(w, v, i, hand, free) ==
    /\ OneRun(w, v, i) /\ v.runs[i].pending = w.runs[i].pending
    /\ \/ v.runs[i].finished => w.runs[i].finished
       \/ \A n \in Messages \ hand : w.turns[n].thread = w.runs[i].thread => w.turns[n].stage \notin Working
    /\ \A t \in Threads \ free : w.current[t] = i /\ (v.runs[i].pending # <<>> \/ v.runs[i].drain)
                                => StarterBut(v, i, hand)

\* The first message of the queue of run i is taken off.
Popped(w, v, i, h) ==
    /\ OneRun(w, v, i) /\ w.runs[i].pending # <<>> /\ h = Head(w.runs[i].pending)
    /\ v.runs[i].pending = Tail(w.runs[i].pending) /\ v.runs[i].finished = FALSE

\* The task of turn m is over, or there is none yet.
Parked(w, v, m, t) ==
    /\ v \in Worlds /\ v.ready = w.ready /\ v.current = w.current /\ v.listed = w.listed
    /\ \A n \in Messages : n # m => v.turns[n] = w.turns[n]
    /\ v.turns[m].stage \in {"dispatching", "over", "dropped"} /\ v.turns[m].thread \in Threads
    /\ v.turns[m].stage = "dispatching" => v.turns[m].run \in DOMAIN w.runs
    /\ w.turns[m].stage \notin {"pending", "dropped", "lost"}
    /\ \/ w.turns[m].stage \in {"composer", "dispatching"}
       \/ v.turns[m].stage \in {"over", "dropped"} /\ v.turns[m].thread = w.turns[m].thread
    /\ DOMAIN v.runs = DOMAIN w.runs
    /\ \A j \in DOMAIN w.runs : /\ v.runs[j].thread = w.runs[j].thread /\ v.runs[j].task = w.runs[j].task
                                /\ v.runs[j].pending = w.runs[j].pending /\ v.runs[j].drain = w.runs[j].drain
                                /\ v.runs[j].finished = w.runs[j].finished
    /\ t = w.turns[m].thread
    /\ \/ w.turns[m].stage \in {"composer", "dispatching"}
       \/ ~w.runs[w.current[t]].finished
       \/ \A n \in Messages : n # m /\ w.turns[n].thread = t => w.turns[n].stage \notin Working

\* Turn m of thread t, which has run i, holds the thread's lock.
Works(w, v, m, t, i) ==
    /\ \A n \in Messages : n # m /\ w.turns[n].thread = t => w.turns[n].stage \notin Working
    /\ w.runs[i].finished => Goes(w, i)
    /\ v \in Worlds /\ v.ready = w.ready /\ v.current = w.current /\ v.listed = w.listed
    /\ \A n \in Messages : n # m => v.turns[n] = w.turns[n]
    /\ v.turns[m].stage \in Working /\ v.turns[m].thread = t /\ v.turns[m].run = i
    /\ DOMAIN v.runs = DOMAIN w.runs /\ \A j \in DOMAIN w.runs : j # i => v.runs[j] = w.runs[j]
    /\ v.runs[i].thread = w.runs[i].thread /\ v.runs[i].task = w.runs[i].task
    /\ v.runs[i].pending = w.runs[i].pending /\ (v.runs[i].finished => w.runs[i].finished)

\* The task of turn m takes its run state and event.
Mine(w, v, m) ==
    /\ v \in Worlds /\ v.runs = w.runs /\ v.current = w.current /\ v.ready = w.ready
    /\ v.listed = w.listed
    /\ \A n \in Messages : n # m => v.turns[n] = w.turns[n]
    /\ v.turns[m].thread = w.turns[m].thread /\ v.turns[m].stage = w.turns[m].stage
    /\ w.turns[m].stage # "dispatching"

\* Turn m of thread t, in hand, can end: it holds the lock, or was refused it.
Ending(w, m, t, i) ==
    /\ t = w.turns[m].thread /\ w.turns[m].stage \in {"created"} \cup Working
    /\ i \in DOMAIN w.runs /\ i = w.current[t] /\ i = w.turns[m].run
    /\ \/ \A n \in Messages : n # m /\ w.turns[n].thread = t => w.turns[n].stage \notin Working
       \/ /\ ~w.runs[i].drain
          /\ \/ w.runs[i].task = m
             \/ w.turns[w.runs[i].task].stage \in {"created", "running", "closing"}

\* The run i of thread t has nothing to show any more; its task is done if over.
Shown(w, t, i, hand, over) ==
    /\ i \in DOMAIN w.runs /\ i = w.current[t] /\ ~w.runs[i].drain /\ over \in BOOLEAN
    /\ \A m \in hand : w.turns[m].stage \in {"created"} \cup Working
    /\ over => \A n \in Messages \ hand : w.turns[n].thread = t => w.turns[n].stage \notin Working

\* Turn m, of thread t with run i, holds the lock.
HoldsLock(w, m, t, i) == t = w.turns[m].thread /\ i = w.current[t] /\ w.turns[m].stage \in Working

\* x is run state i, told something that is not about its thread, task, queue or end.
Told(w, i, x) ==
    /\ x \in RunStates /\ x.thread = w.runs[i].thread /\ x.task = w.runs[i].task
    /\ x.pending = w.runs[i].pending /\ x.finished = w.runs[i].finished
    /\ x.drain => w.runs[i].drain \/ StarterIn(w, i)

\* The run state of thread t is marked.
Marked(w, v, t) == w.current[t] # 0 /\ v = [w EXCEPT !.runs[w.current[t]].status = "interrupted"]

\* What the types say of a world.
LEMMA RunsShape ==
  ASSUME NEW w, TypeOK(w)
  PROVE  /\ w \in Worlds
         /\ w.runs \in Seq(RunStates) /\ Len(w.runs) \in Nat /\ DOMAIN w.runs = 1..Len(w.runs)
         /\ \A i \in DOMAIN w.runs :
               /\ w.runs[i] \in RunStates /\ w.runs[i].thread \in Threads
               /\ w.runs[i].task \in {0} \cup Messages
               /\ w.runs[i].pending \in Seq(Messages)
         /\ w.current \in [Threads -> Nat]
         /\ w.turns \in [Messages -> TurnStates]
         /\ \A m \in Messages : w.turns[m] \in TurnStates
         /\ w.ready \in Seq(Messages) /\ Len(w.ready) \in Nat /\ DOMAIN w.ready = 1..Len(w.ready)
         /\ \A a \in DOMAIN w.ready : w.ready[a] \in Messages
         /\ \A t \in Threads : w.current[t] # 0 => w.current[t] \in DOMAIN w.runs
         /\ w.listed \in {0} \cup DOMAIN w.runs
         /\ 0 \notin Messages /\ 0 \notin DOMAIN w.runs
  <1>1. /\ w \in Worlds /\ w.runs \in Seq(RunStates) /\ w.ready \in Seq(Messages)
        /\ w.current \in [Threads -> Nat] /\ w.turns \in [Messages -> TurnStates]
    BY DEF TypeOK, Worlds
  <1>2. Len(w.runs) \in Nat /\ DOMAIN w.runs = 1..Len(w.runs)
        /\ \A i \in DOMAIN w.runs : w.runs[i] \in RunStates
    BY <1>1
  <1>3. Len(w.ready) \in Nat /\ DOMAIN w.ready = 1..Len(w.ready)
        /\ \A a \in DOMAIN w.ready : w.ready[a] \in Messages
    BY <1>1
  <1>4. \A r \in RunStates : /\ r.thread \in Threads /\ r.task \in {0} \cup Messages
                             /\ r.pending \in Seq(Messages)
    BY DEF RunStates
  <1>5. /\ w.listed \in {0} \cup DOMAIN w.runs
        /\ \A t \in Threads : w.current[t] \in {0} \cup DOMAIN w.runs
    BY DEF TypeOK
  <1>6. 0 \notin Messages
    BY DEF Messages
  <1>7. 0 \notin DOMAIN w.runs
    BY <1>2
  <1> QED BY <1>1, <1>2, <1>3, <1>4, <1>5, <1>6, <1>7

\* With nothing in hand a world is good.
LEMMA RunsGood ==
  ASSUME NEW w
  PROVE  Good(w) <=> Apart(w, {}, {})
  <1>1. InLine(w) <=> LineBut(w, {})
    BY DEF InLine, LineBut
  <1>2. LockHasRun(w) <=> LockBut(w, {})
    <2>1. ASSUME NEW m \in Messages, w.turns[m].stage \in Working
          PROVE  AtWork(w, w.turns[m].thread) = {m} <=> Alone(w, m, {})
      BY <2>1 DEF AtWork, Alone
    <2> QED BY <2>1 DEF LockHasRun, LockBut
  <1>3. \A i : StarterIn(w, i) <=> StarterBut(w, i, {})
    BY DEF StarterIn, StarterBut
  <1>4. HasStarter(w) <=> StartersBut(w, {}, {})
    BY <1>3 DEF HasStarter, StartersBut
  <1>5. NewestIsNamed(w) <=> NewestBut(w, {})
    BY DEF NewestIsNamed, NewestBut
  <1> QED BY <1>1, <1>2, <1>4, <1>5 DEF Good, Apart, Shape

\* A message without a task that waits is taken in hand.
LEMMA RunsTaken ==
  ASSUME NEW w, NEW hand, NEW free, Apart(w, hand, free), NEW m \in Messages, NEW U, free \subseteq U,
         w.turns[m].stage \notin Unbegun,
         w.turns[m].stage \in Working => w.turns[m].thread \in U
  PROVE  Apart(w, hand \cup {m}, U)
  <1>1. Shape(w) /\ NewestBut(w, free) /\ LineBut(w, hand) /\ LockBut(w, hand) /\ StartersBut(w, hand, free)
    BY DEF Apart
  <1>2. TypeOK(w) /\ OwnRuns(w)
    BY <1>1 DEF Shape
  <1>3. \A a \in DOMAIN w.ready : w.ready[a] \in Messages
    BY <1>2, RunsShape
  <1>4. LineBut(w, hand \cup {m})
    BY <1>1, <1>3 DEF LineBut
  <1>5. LockBut(w, hand \cup {m})
    BY <1>1 DEF LockBut, Alone
  <1>6. StartersBut(w, hand \cup {m}, U)
    <2> SUFFICES ASSUME NEW t \in Threads \ U, NEW i, i = w.current[t], i # 0,
                        w.runs[i].pending # <<>> \/ w.runs[i].drain, ~w.runs[i].finished
                 PROVE  StarterBut(w, i, hand \cup {m})
      BY DEF StartersBut, StarterBut
    <2>1. w.runs[i].thread = t
      BY <1>2 DEF OwnRuns
    <2>2. PICK n \in Messages \ hand :
              \/ w.turns[n].stage \in Working /\ w.turns[n].run = i
              \/ w.turns[n].stage \in Unbegun /\ w.turns[n].thread = t
      BY <1>1, <2>1 DEF StartersBut, StarterBut
    <2>3. n # m
      <3> SUFFICES ASSUME n = m PROVE FALSE
        OBVIOUS
      <3>1. w.turns[m].stage \in Working /\ w.turns[m].run = i /\ m \notin hand
        BY <2>2
      <3>2. w.current[w.turns[m].thread] = i /\ w.turns[m].thread \in Threads
        BY <1>1, <1>2, <3>1 DEF LockBut, HasRun, TypeOK, Working
      <3>3. w.turns[m].thread = t
        BY <1>2, <2>1, <3>2 DEF OwnRuns
      <3> QED BY <3>1, <3>3
    <2> QED BY <2>1, <2>2, <2>3 DEF StarterBut
  <1>7. NewestBut(w, U)
    BY <1>1 DEF NewestBut
  <1> QED BY <1>1, <1>4, <1>5, <1>6, <1>7 DEF Apart

\* Who holds a lock is told by the runs, the threads and the turns.
LEMMA RunsLockSame ==
  ASSUME NEW v, NEW w, v.runs = w.runs, v.current = w.current, v.turns = w.turns, NEW hand, LockBut(w, hand)
  PROVE  LockBut(v, hand)
  <1>1. \A i : Goes(v, i) <=> Goes(w, i)
    BY DEF Goes
  <1>2. \A m : HasRun(v, m) <=> HasRun(w, m)
    BY <1>1 DEF HasRun
  <1>3. \A m : Alone(v, m, hand) <=> Alone(w, m, hand)
    BY DEF Alone
  <1> QED BY <1>2, <1>3 DEF LockBut

\* The task that is first in line begins: its message is in hand.
LEMMA RunsFirst ==
  ASSUME NEW w, Good(w), w.ready # <<>>, NEW m, m = Head(w.ready)
  PROVE  /\ m \in Messages /\ w.turns[m].stage \in Unbegun /\ w.turns[m].thread \in Threads
         /\ Apart([w EXCEPT !.ready = Tail(@)], {m}, {w.turns[m].thread})
         /\ NewestIsNamed([w EXCEPT !.ready = Tail(@)])
  <1>1. Apart(w, {}, {})
    BY RunsGood
  <1>2. TypeOK(w) /\ OwnRuns(w) /\ WaitsOnce(w) /\ NewestIsNamed(w)
        /\ LineBut(w, {}) /\ LockBut(w, {}) /\ StartersBut(w, {}, {})
    BY <1>1 DEF Apart, Shape, Good
  <1> DEFINE v == [w EXCEPT !.ready = Tail(@)]
  <1>3. w \in Worlds /\ w.ready \in Seq(Messages) /\ Len(w.ready) \in Nat
        /\ DOMAIN w.ready = 1..Len(w.ready) /\ \A a \in DOMAIN w.ready : w.ready[a] \in Messages
    BY <1>2, RunsShape
  <1>4. v.runs = w.runs /\ v.current = w.current /\ v.turns = w.turns /\ v.listed = w.listed
        /\ v.ready = Tail(w.ready)
    BY <1>3 DEF Worlds
  <1>4a. v \in Worlds
    <2>1. Tail(w.ready) \in Seq(Messages)
      BY <1>3
    <2> QED BY <1>3, <2>1 DEF Worlds
  <1>5. Len(w.ready) >= 1 /\ m = w.ready[1] /\ 1 \in DOMAIN w.ready /\ m \in Messages
    BY <1>3
  <1>6. /\ \A a \in DOMAIN v.ready : a + 1 \in DOMAIN w.ready /\ v.ready[a] = w.ready[a + 1]
                                      /\ a \in Nat /\ a >= 1
        /\ \A a \in DOMAIN w.ready : a # 1 => a - 1 \in DOMAIN v.ready /\ v.ready[a - 1] = w.ready[a]
    BY <1>3, <1>4, <1>5
  <1>7. w.turns[m].stage \in Unbegun
    BY <1>2, <1>5 DEF LineBut
  <1>8. w.turns[m].thread \in Threads
    BY <1>2, <1>5, <1>7 DEF TypeOK, Unbegun
  <1>9. Shape(v)
    BY <1>2, <1>4, <1>4a DEF Shape, TypeOK, OwnRuns, WaitsOnce
  <1>10. LineBut(v, {m})
    <2>1. \A a, b \in DOMAIN v.ready : v.ready[a] = v.ready[b] => a = b
      BY <1>2, <1>6 DEF LineBut
    <2>2. \A a \in DOMAIN v.ready : v.ready[a] # m
      <3> SUFFICES ASSUME NEW a \in DOMAIN v.ready, v.ready[a] = m PROVE FALSE
        OBVIOUS
      <3>1. a + 1 = 1
        BY <1>2, <1>5, <1>6 DEF LineBut
      <3> QED BY <1>3, <1>6, <3>1
    <2>3. ASSUME NEW n \in Messages, n # m
          PROVE  (\E a \in DOMAIN w.ready : w.ready[a] = n) <=> \E a \in DOMAIN v.ready : v.ready[a] = n
      BY <1>5, <1>6, <2>3, Zenon
    <2> HIDE DEF v
    <2> QED BY <1>2, <1>4, <2>1, <2>2, <2>3 DEF LineBut
  <1>11. NewestIsNamed(v)
    <2> HIDE DEF v
    <2> SUFFICES ASSUME NEW a \in DOMAIN v.ready, NEW i, i = w.current[w.turns[v.ready[a]].thread],
                        w.turns[v.ready[a]].stage = "created", i # 0
                 PROVE  NamedFrom(v, a, i)
      BY <1>4 DEF NewestIsNamed
    <2>1. NamedFrom(w, a + 1, i)
      BY <1>2, <1>6 DEF NewestIsNamed
    <2>2. PICK b \in DOMAIN w.ready : /\ a + 1 <= b /\ w.ready[b] = w.runs[i].task
                                      /\ w.turns[w.ready[b]].stage = "created"
      BY <2>1, Zenon DEF NamedFrom
    <2>3. a \in Nat /\ a >= 1 /\ b \in Nat
      BY <1>3, <1>6
    <2>4. b - 1 \in DOMAIN v.ready /\ v.ready[b - 1] = w.ready[b] /\ a <= b - 1
      <3>1. a + 1 <= b
        BY <2>2, Zenon
      <3>2. b # 1 /\ a <= b - 1
        BY <2>3, <3>1
      <3> QED BY <1>6, <3>2
    <2> QED BY <1>4, <2>2, <2>4, Zenon DEF NamedFrom
  <1>12. LockBut(v, {m})
    <2>1. LockBut(w, {m})
      BY <1>2 DEF LockBut, Alone
    <2> QED BY ONLY <2>1, <1>4, RunsLockSame
  <1>13. StartersBut(v, {m}, {w.turns[m].thread})
    <2> HIDE DEF v
    <2> SUFFICES ASSUME NEW t \in Threads, t # w.turns[m].thread, NEW i, i = w.current[t], i # 0,
                        w.runs[i].pending # <<>> \/ w.runs[i].drain, ~w.runs[i].finished
                 PROVE  StarterBut(w, i, {m})
      BY <1>4 DEF StartersBut, StarterBut
    <2>1. StarterBut(w, i, {}) /\ w.runs[i].thread = t
      BY <1>2 DEF StartersBut, OwnRuns
    <2>2. w.turns[m].stage \notin Working
      BY <1>7, SMTT(40) DEF Unbegun, Working
    <2> QED BY <2>1, <2>2 DEF StarterBut
  <1>14. NewestBut(v, {w.turns[m].thread})
    BY <1>11 DEF NewestIsNamed, NewestBut
  <1> QED BY <1>5, <1>7, <1>8, <1>9, <1>10, <1>11, <1>12, <1>13, <1>14 DEF Apart

\* A task is made for a message in hand: it comes last in line, and if it is the
\* run state's it is the one that is named.
LEMMA RunsLined ==
  ASSUME NEW w, NEW hand, NEW free, NEW m \in Messages, m \notin hand, NEW t \in Threads,
         Apart(w, hand \cup {m}, free \cup {t}), Loose(w, m), NEW v, NEW i, Lined(w, v, m, t, i, free)
  PROVE  Apart(v, hand, free)
  <1>1. TypeOK(w) /\ OwnRuns(w) /\ WaitsOnce(w) /\ NewestBut(w, free \cup {t})
        /\ LineBut(w, hand \cup {m}) /\ LockBut(w, hand \cup {m}) /\ StartersBut(w, hand \cup {m}, free \cup {t})
    BY DEF Apart, Shape
  <1>2. /\ w.ready \in Seq(Messages) /\ Len(w.ready) \in Nat
        /\ DOMAIN w.ready = 1..Len(w.ready) /\ \A a \in DOMAIN w.ready : w.ready[a] \in Messages
        /\ \A j \in DOMAIN w.runs : w.runs[j].task \in {0} \cup Messages
        /\ 0 \notin Messages /\ 0 \notin DOMAIN w.runs
        /\ \A j \in DOMAIN w.runs : /\ w.runs[j].pending \in Seq(Messages)
                                    /\ \A k \in DOMAIN w.runs[j].pending : w.runs[j].pending[k] \in Messages
        /\ \A r \in Threads : w.current[r] # 0 => w.current[r] \in DOMAIN w.runs
    BY <1>1, RunsShape
  <1> DEFINE e == Len(w.ready) + 1
  <1>3. /\ DOMAIN v.ready = DOMAIN w.ready \cup {e} /\ e \notin DOMAIN w.ready /\ v.ready[e] = m
        /\ \A a \in DOMAIN w.ready : v.ready[a] = w.ready[a] /\ a <= e
        /\ e <= e /\ m \notin hand
    BY <1>2 DEF Lined
  <1>4. \A a \in DOMAIN w.ready : w.ready[a] # m /\ w.ready[a] \notin hand
    BY <1>1 DEF LineBut
  <1> HIDE DEF e
  <1>5. \A j \in DOMAIN w.runs : w.runs[j].task # m /\ \A k \in DOMAIN w.runs[j].pending : w.runs[j].pending[k] # m
    BY DEF Loose
  <1>6. \A j \in DOMAIN w.runs : w.runs[j].task # 0 => v.turns[w.runs[j].task] = w.turns[w.runs[j].task]
    BY <1>2, <1>5 DEF Lined
  <1>7. TypeOK(v)
    <2>1. \A n \in Messages : v.turns[n].stage = "dispatching" => v.turns[n].run \in DOMAIN v.runs
      BY <1>1 DEF TypeOK, Lined
    <2>2. \A n \in Messages : v.turns[n].stage # "composer" => v.turns[n].thread \in Threads
      BY <1>1 DEF TypeOK, Lined
    <2> QED BY <1>1, <2>1, <2>2 DEF TypeOK, Lined
  <1>8. OwnRuns(v)
    <2>1. ASSUME NEW j \in DOMAIN v.runs, v.runs[j].task # 0
          PROVE  /\ v.turns[v.runs[j].task].thread = v.runs[j].thread
                 /\ v.turns[v.runs[j].task].stage \in {"created", "over", "dropped"} \cup Working
      <3>1. CASE v.runs[j] = w.runs[j]
        BY <1>1, <1>6, <2>1, <3>1 DEF OwnRuns, Lined
      <3>2. CASE v.runs[j] # w.runs[j]
        <4>1. j = i /\ v.runs[j].task = m /\ v.turns[m].stage = "created" /\ w.runs[j].thread = t
          BY <1>1, <2>1, <3>2 DEF OwnRuns, Lined
        <4> QED BY <2>1, <4>1 DEF Lined
      <3> QED BY <3>1, <3>2
    <2>2. \A r \in Threads : v.current[r] # 0 => v.runs[v.current[r]].thread = r
      BY <1>1, <1>2 DEF OwnRuns, Lined
    <2> QED BY <2>1, <2>2 DEF OwnRuns
  <1>9. WaitsOnce(v)
    <2> SUFFICES ASSUME NEW j \in DOMAIN w.runs, NEW k \in DOMAIN w.runs[j].pending, NEW x, x = w.runs[j].pending[k]
                 PROVE  /\ v.turns[x].stage \in {"pending", "dropped", "lost"}
                        /\ \A l \in DOMAIN w.runs :
                              /\ v.runs[l].task # x
                              /\ \A a \in DOMAIN w.runs[l].pending : w.runs[l].pending[a] = x => j = l /\ k = a
      BY DEF WaitsOnce, Lined
    <2>1. x \in Messages /\ x # m
      BY <1>2, <1>5
    <2>2. \A l \in DOMAIN w.runs : v.runs[l].task \in {w.runs[l].task, m}
      BY DEF Lined
    <2> QED BY <1>1, <2>1, <2>2 DEF WaitsOnce, Lined
  <1>10. NewestBut(v, free)
    <2> SUFFICES ASSUME NEW a \in DOMAIN v.ready, NEW n, n = v.ready[a], NEW r, r = v.turns[n].thread, r \notin free,
                        v.turns[n].stage = "created", NEW j, j = w.current[r], j # 0
                 PROVE  NamedFrom(v, a, j)
      BY Zenon DEF NewestBut, Lined
    <2>1. CASE v.turns[m].stage = "created" /\ r = t
      <3>1. v.ready[e] = v.runs[j].task /\ v.turns[v.ready[e]].stage = "created" /\ a <= e /\ e \in DOMAIN v.ready
        BY <1>3, <2>1 DEF Lined
      <3> QED BY <3>1, Zenon DEF NamedFrom
    <2>2. CASE ~(v.turns[m].stage = "created" /\ r = t)
      <3>1. a \in DOMAIN w.ready /\ n = w.ready[a] /\ n # m /\ n \in Messages /\ v.turns[n] = w.turns[n]
        BY <1>2, <1>3, <1>4, <2>2 DEF Lined
      <3>2a. /\ a \in DOMAIN w.ready /\ n = w.ready[a] /\ w.turns[n].stage = "created"
             /\ r = w.turns[n].thread /\ r \notin free /\ j = w.current[r] /\ j # 0
        BY <3>1
      <3>2b. r \in Threads /\ w.current[r] = j
        BY <1>1, <3>1, <3>2a DEF TypeOK
      <3>2c. v.turns[m].stage = "created" => r # t
        BY <2>2
      <3>2. NamedFrom(w, a, j)
        <4>1. CASE NewestBut(w, free)
          BY ONLY <3>2a, <4>1 DEF NewestBut
        <4>2. CASE r # t
          <5>1. NewestBut(w, free \cup {t}) /\ r \notin free \cup {t}
            BY <1>1, <4>2
          <5> QED BY ONLY <3>2a, <5>1 DEF NewestBut
        <4> QED BY <3>2c, <4>1, <4>2 DEF Lined
      <3>3. v.runs[j] = w.runs[j]
        <4>1. j \in DOMAIN w.runs /\ w.runs[j].thread = r
          BY <1>1, <1>2, <3>2b, Zenon DEF OwnRuns
        <4>2. r # t => j # i
          <5> SUFFICES ASSUME r # t, j = i PROVE FALSE
            OBVIOUS
          <5> QED BY <1>1, <4>1 DEF OwnRuns, Lined
        <4> QED BY <3>2c, <4>1, <4>2, Zenon DEF Lined
      <3>4. PICK b \in DOMAIN w.ready : /\ a <= b /\ w.ready[b] = w.runs[j].task
                                        /\ w.turns[w.ready[b]].stage = "created"
        BY <3>2, Zenon DEF NamedFrom
      <3>5. b \in DOMAIN v.ready /\ v.ready[b] = w.ready[b] /\ v.turns[v.ready[b]] = w.turns[w.ready[b]]
        BY <1>2, <1>3, <1>4 DEF Lined
      <3> QED BY <3>3, <3>4, <3>5, Zenon DEF NamedFrom
    <2> QED BY <2>1, <2>2
  <1>11. LineBut(v, hand)
    <2>1. \A a, b \in DOMAIN v.ready : v.ready[a] = v.ready[b] => a = b
      BY <1>1, <1>3, <1>4 DEF LineBut
    <2>2. \A a \in DOMAIN v.ready : v.ready[a] \notin hand
      BY <1>3, <1>4
    <2>3. ASSUME NEW n \in Messages, n \notin hand
          PROVE  v.turns[n].stage \in Unbegun <=> \E a \in DOMAIN v.ready : v.ready[a] = n
      <3>1. CASE n = m
        BY <1>3, <3>1 DEF Unbegun, Lined
      <3>2. CASE n # m
        <4>1. v.turns[n].stage \in Unbegun <=> \E a \in DOMAIN w.ready : w.ready[a] = n
          BY <1>1, <2>3, <3>2 DEF LineBut, Lined
        <4> QED BY <1>3, <3>2, <4>1
      <3> QED BY <3>1, <3>2
    <2> QED BY <2>1, <2>2, <2>3 DEF LineBut
  <1>12. LockBut(v, hand)
    <2> SUFFICES ASSUME NEW n \in Messages, n \notin hand, v.turns[n].stage \in Working
                 PROVE  Alone(v, n, hand) /\ HasRun(v, n)
      BY DEF LockBut
    <2>1. v.turns[m].stage \notin Working
      BY DEF Working, Lined
    <2>2. n # m /\ v.turns[n] = w.turns[n]
      BY <2>1 DEF Lined
    <2>3. Alone(w, n, hand \cup {m}) /\ HasRun(w, n)
      BY <1>1, <2>2 DEF LockBut
    <2>4. Alone(v, n, hand)
      BY <2>1, <2>2, <2>3 DEF Alone, Lined
    <2>5. w.turns[n].thread \in Threads
      BY <1>1, <2>2 DEF TypeOK, Working
    <2>6. ASSUME NEW j \in DOMAIN w.runs, w.runs[j].finished => Goes(w, j) PROVE v.runs[j].finished => Goes(v, j)
      <3> SUFFICES ASSUME v.runs[j].finished PROVE Goes(v, j)
        OBVIOUS
      <3>1. v.runs[j] = w.runs[j]
        BY DEF Lined
      <3>2. Goes(w, j)
        BY <2>6, <3>1
      <3> QED BY <1>6, <3>1, <3>2 DEF Goes
    <2> QED BY <1>2, <2>2, <2>3, <2>4, <2>5, <2>6 DEF HasRun, Lined
  <1>13. StartersBut(v, hand, free)
    <2> SUFFICES ASSUME NEW r \in Threads, r \notin free, NEW j, j = w.current[r], j # 0,
                        v.runs[j].pending # <<>> \/ v.runs[j].drain
                 PROVE  StarterBut(v, j, hand)
      BY DEF StartersBut, Lined
    <2>1. j \in DOMAIN w.runs /\ w.runs[j].thread = r
      BY <1>1, <1>2 DEF OwnRuns
    <2>2. CASE r = t
      <3>1. v.turns[m].stage \in Unbegun /\ v.turns[m].thread = v.runs[j].thread
        BY <2>1, <2>2 DEF Unbegun, Lined
      <3> QED BY <3>1, Zenon DEF StarterBut
    <2>3. CASE r # t
      <3>1. v.runs[j] = w.runs[j]
        BY <1>1, <2>1, <2>3 DEF OwnRuns, Lined
      <3>2. StarterBut(w, j, hand \cup {m})
        BY <1>1, <2>3, <3>1 DEF StartersBut
      <3> QED BY <3>1, <3>2 DEF StarterBut, Lined
    <2> QED BY <2>2, <2>3
  <1> QED BY <1>7, <1>8, <1>9, <1>10, <1>11, <1>12, <1>13 DEF Apart, Shape

\* A task for a message in hand is scheduled.
LEMMA RunsSchedule ==
  ASSUME NEW w, NEW hand, NEW free, NEW m \in Messages, m \notin hand, NEW t \in Threads,
         Apart(w, hand \cup {m}, free \cup {t}), Loose(w, m), NewestBut(w, free)
  PROVE  Apart(Schedule(w, m, t), hand, free)
  <1>1. TypeOK(w)
    BY DEF Apart, Shape
  <1>2. /\ w \in Worlds /\ w.turns \in [Messages -> TurnStates] /\ w.turns[m] \in TurnStates
        /\ w.ready \in Seq(Messages)
    BY <1>1, RunsShape
  <1>3. PICK x : x = [w.turns[m] EXCEPT !.thread = t, !.stage = "scheduled"]
    OBVIOUS
  <1>4. x \in TurnStates /\ x.thread = t /\ x.stage = "scheduled"
    BY <1>2, <1>3 DEF TurnStates, TurnStages
  <1>5. PICK all : all = [w.turns EXCEPT ![m] = x]
    OBVIOUS
  <1>6. all \in [Messages -> TurnStates] /\ all[m] = x
        /\ \A n \in Messages : n # m => all[n] = w.turns[n]
    BY <1>2, <1>4, <1>5
  <1>7. PICK line : line = Append(w.ready, m)
    OBVIOUS
  <1>8. line \in Seq(Messages)
    BY <1>2, <1>7
  <1>9. PICK v : v = [w EXCEPT !.turns = all, !.ready = line]
    OBVIOUS
  <1>10. v = Schedule(w, m, t)
    BY <1>3, <1>5, <1>7, <1>9 DEF Schedule
  <1>11. v \in Worlds /\ v.runs = w.runs /\ v.current = w.current /\ v.listed = w.listed
         /\ v.turns = all /\ v.ready = line
    BY <1>2, <1>6, <1>8, <1>9 DEF Worlds
  <1>12. Apart(v, hand, free)
    <2>1. Lined(w, v, m, t, w.current[t], free)
      BY <1>4, <1>6, <1>7, <1>11 DEF Lined
    <2> QED BY <2>1, RunsLined
  <1> QED BY <1>10, <1>12

\* A thread without a run state is given one.
LEMMA RunsWithRun ==
  ASSUME NEW w, NEW hand, NEW free, NEW t \in Threads, Apart(w, hand, free),
         t \in free \/ \A n \in Messages : w.turns[n].thread = t => w.turns[n].stage # "created"
  PROVE  /\ Apart(WithRun(w, t), hand, free) /\ WithRun(w, t).current[t] # 0
         /\ WithRun(w, t).turns = w.turns /\ WithRun(w, t).ready = w.ready
         /\ \A m \in Messages : Loose(w, m) => Loose(WithRun(w, t), m)
  <1>1. CASE w.current[t] # 0
    BY <1>1 DEF WithRun
  <1>2. CASE w.current[t] = 0
    <2>1. TypeOK(w) /\ OwnRuns(w) /\ WaitsOnce(w) /\ NewestBut(w, free)
          /\ LineBut(w, hand) /\ LockBut(w, hand) /\ StartersBut(w, hand, free)
      BY DEF Apart, Shape
    <2>2. /\ w \in Worlds /\ w.runs \in Seq(RunStates) /\ Len(w.runs) \in Nat /\ DOMAIN w.runs = 1..Len(w.runs)
          /\ w.current \in [Threads -> Nat] /\ w.listed \in {0} \cup DOMAIN w.runs
          /\ \A r \in Threads : w.current[r] # 0 => w.current[r] \in DOMAIN w.runs
          /\ 0 \notin Messages /\ 0 \notin DOMAIN w.runs
          /\ \A a \in DOMAIN w.ready : w.ready[a] \in Messages
      BY <2>1, RunsShape
    <2>3. PICK x : x = NewRun(t)
      OBVIOUS
    <2>4. x \in RunStates /\ x.thread = t /\ x.task = 0 /\ x.pending = <<>> /\ x.drain = FALSE
          /\ x.finished = FALSE
      BY <2>3 DEF NewRun, RunStates
    <2>5. PICK all : all = Append(w.runs, x)
      OBVIOUS
    <2>6. PICK e : e = Len(w.runs) + 1
      OBVIOUS
    <2>7. /\ all \in Seq(RunStates) /\ DOMAIN all = DOMAIN w.runs \cup {e} /\ e \notin DOMAIN w.runs
          /\ all[e] = x /\ \A j \in DOMAIN w.runs : all[j] = w.runs[j] /\ e \in Nat /\ e # 0
      BY <2>2, <2>4, <2>5, <2>6
    <2>7a. e \in Nat /\ e # 0
      BY <2>2, <2>6
    <2>8. PICK now : now = [w.current EXCEPT ![t] = e]
      OBVIOUS
    <2>9. now \in [Threads -> Nat] /\ now[t] = e /\ \A r \in Threads : r # t => now[r] = w.current[r]
      BY <2>2, <2>7a, <2>8
    <2>10. PICK v : v = [w EXCEPT !.runs = all, !.current = now]
      OBVIOUS
    <2>11. v = WithRun(w, t)
      BY <1>2, <2>3, <2>5, <2>6, <2>8, <2>10 DEF WithRun
    <2>12. v \in Worlds /\ v.runs = all /\ v.current = now /\ v.listed = w.listed
           /\ v.turns = w.turns /\ v.ready = w.ready
      BY <2>2, <2>7, <2>9, <2>10 DEF Worlds
    <2>13. \A m \in Messages : Loose(w, m) => Loose(v, m)
      <3> SUFFICES ASSUME NEW m \in Messages, Loose(w, m), NEW j \in DOMAIN all
                   PROVE  all[j].task # m /\ \A k \in DOMAIN all[j].pending : all[j].pending[k] # m
        BY <2>12 DEF Loose
      <3>1. CASE j = e
        BY <2>2, <2>4, <2>7, <3>1
      <3>2. CASE j \in DOMAIN w.runs
        BY <2>7, <3>2 DEF Loose
      <3> QED BY <2>7, <3>1, <3>2
    <2>14. TypeOK(v)
      <3>1. \A r \in Threads : now[r] \in {0} \cup DOMAIN all
        BY <2>2, <2>7, <2>9
      <3>2. v.listed \in {0} \cup DOMAIN all
        BY <2>2, <2>7, <2>12
      <3>3. \A m \in Messages : w.turns[m].stage = "dispatching" => w.turns[m].run \in DOMAIN all
        BY <2>1, <2>7 DEF TypeOK
      <3> QED BY <2>1, <2>12, <3>1, <3>2, <3>3 DEF TypeOK
    <2>15. OwnRuns(v)
      <3>1. \A r \in Threads : now[r] # 0 => all[now[r]].thread = r
        BY <2>1, <2>2, <2>4, <2>7, <2>9 DEF OwnRuns
      <3>2. \A j \in DOMAIN all : all[j].task # 0 =>
                /\ w.turns[all[j].task].thread = all[j].thread
                /\ w.turns[all[j].task].stage \in {"created", "over", "dropped"} \cup Working
        BY <2>1, <2>4, <2>7 DEF OwnRuns
      <3> QED BY <2>12, <3>1, <3>2 DEF OwnRuns
    <2>16. WaitsOnce(v)
      <3> SUFFICES ASSUME NEW j \in DOMAIN all, NEW k \in DOMAIN all[j].pending, NEW y, y = all[j].pending[k]
                   PROVE  /\ w.turns[y].stage \in {"pending", "dropped", "lost"}
                          /\ \A l \in DOMAIN all :
                                /\ all[l].task # y
                                /\ \A a \in DOMAIN all[l].pending : all[l].pending[a] = y => j = l /\ k = a
        BY <2>12 DEF WaitsOnce
      <3>1. j \in DOMAIN w.runs /\ all[j] = w.runs[j]
        BY <2>4, <2>7
      <3>2. y # 0
        <4>1. y \in Messages
          BY <2>1, <3>1, RunsShape
        <4> QED BY <2>2, <4>1
      <3>3. w.turns[y].stage \in {"pending", "dropped", "lost"}
        BY <2>1, <3>1 DEF WaitsOnce
      <3>4. ASSUME NEW l \in DOMAIN all
            PROVE  /\ all[l].task # y
                   /\ \A a \in DOMAIN all[l].pending : all[l].pending[a] = y => j = l /\ k = a
        <4>1. CASE l = e
          BY <2>4, <2>7, <3>2, <4>1
        <4>2. CASE l \in DOMAIN w.runs
          BY <2>1, <2>7, <3>1, <4>2 DEF WaitsOnce
        <4> QED BY <2>7, <4>1, <4>2
      <3> QED BY <3>3, <3>4
    <2>17. NewestBut(v, free)
      <3> SUFFICES ASSUME NEW a \in DOMAIN w.ready, NEW r, r = w.turns[w.ready[a]].thread, r \notin free,
                          w.turns[w.ready[a]].stage = "created", now[r] # 0
                   PROVE  NamedFrom(v, a, now[r])
        BY <2>12 DEF NewestBut
      <3>1. r \in Threads /\ r # t /\ now[r] = w.current[r] /\ w.current[r] \in DOMAIN w.runs
        BY <2>1, <2>2, <2>9 DEF TypeOK
      <3>2. NamedFrom(w, a, w.current[r])
        BY ONLY <2>1, <3>1, r = w.turns[w.ready[a]].thread, a \in DOMAIN w.ready, r \notin free, now[r] # 0,
                w.turns[w.ready[a]].stage = "created" DEF NewestBut
      <3> QED BY <2>7, <2>12, <3>1, <3>2, ZenonT(60) DEF NamedFrom
    <2>18. LineBut(v, hand)
      BY <2>1, <2>12 DEF LineBut
    <2>19. LockBut(v, hand)
      <3> SUFFICES ASSUME NEW n \in Messages, n \notin hand, w.turns[n].stage \in Working
                   PROVE  Alone(v, n, hand) /\ HasRun(v, n)
        BY <2>12 DEF LockBut
      <3>1. Alone(w, n, hand) /\ HasRun(w, n)
        BY <2>1 DEF LockBut
      <3>2. w.turns[n].thread \in Threads
        BY <2>1 DEF TypeOK, Working
      <3>3. w.turns[n].thread # t /\ now[w.turns[n].thread] = w.current[w.turns[n].thread]
        BY <1>2, <2>9, <3>1, <3>2 DEF HasRun
      <3>4. Alone(v, n, hand)
        BY <2>12, <3>1 DEF Alone
      <3>5. \A j \in DOMAIN w.runs : all[j] = w.runs[j] /\ (Goes(w, j) => Goes(v, j))
        BY <2>7, <2>12 DEF Goes
      <3> QED BY <2>2, <2>12, <3>1, <3>2, <3>3, <3>4, <3>5 DEF HasRun
    <2>20. StartersBut(v, hand, free)
      <3> SUFFICES ASSUME NEW r \in Threads, r \notin free, NEW j, j = now[r], j # 0,
                          all[j].pending # <<>> \/ all[j].drain
                   PROVE  StarterBut(v, j, hand)
        BY <2>12 DEF StartersBut
      <3>1. j = w.current[r] /\ j \in DOMAIN w.runs /\ all[j] = w.runs[j]
        BY <2>2, <2>4, <2>7, <2>9
      <3>2. StarterBut(w, j, hand)
        BY <2>1, <3>1 DEF StartersBut
      <3> QED BY <2>12, <3>1, <3>2 DEF StarterBut
    <2>21. Apart(v, hand, free)
      BY <2>14, <2>15, <2>16, <2>17, <2>18, <2>19, <2>20 DEF Apart, Shape
    <2> QED BY <2>7a, <2>9, <2>11, <2>12, <2>13, <2>21
  <1> QED BY <1>1, <1>2

\* What waits in a run state's queue is given up, and the queue may be emptied.
LEMMA RunsDropped ==
  ASSUME NEW w, Good(w), NEW i \in DOMAIN w.runs,
         NEW v, v \in Worlds, v.ready = w.ready, v.current = w.current, v.listed \in {0} \cup DOMAIN w.runs,
         DOMAIN v.runs = DOMAIN w.runs, \A j \in DOMAIN w.runs : j # i => v.runs[j] = w.runs[j],
         v.runs[i].thread = w.runs[i].thread, v.runs[i].task = w.runs[i].task,
         v.runs[i].finished = w.runs[i].finished, v.runs[i].drain => w.runs[i].drain,
         v.runs[i].pending \in {w.runs[i].pending, <<>>},
         \A n \in Messages :
            \/ v.turns[n] = w.turns[n]
            \/ /\ \E k \in DOMAIN w.runs[i].pending : w.runs[i].pending[k] = n
               /\ v.turns[n].stage \in {"dropped", "lost"} /\ v.turns[n].thread = w.turns[n].thread
  PROVE  Good(v)
  <1>1. TypeOK(w) /\ OwnRuns(w) /\ WaitsOnce(w) /\ NewestBut(w, {})
        /\ LineBut(w, {}) /\ LockBut(w, {}) /\ StartersBut(w, {}, {})
    BY RunsGood DEF Apart, Shape
  <1>2. /\ \A j \in DOMAIN w.runs : w.runs[j].task \in {0} \cup Messages
        /\ 0 \notin Messages /\ 0 \notin DOMAIN w.runs
        /\ \A j \in DOMAIN w.runs : \A k \in DOMAIN w.runs[j].pending : w.runs[j].pending[k] \in Messages
        /\ \A r \in Threads : w.current[r] # 0 => w.current[r] \in DOMAIN w.runs
        /\ \A a \in DOMAIN w.ready : w.ready[a] \in Messages
    BY <1>1, RunsShape
  <1>3. \A n \in Messages :
           \/ v.turns[n] = w.turns[n]
           \/ /\ w.turns[n].stage \in {"pending", "dropped", "lost"} /\ v.turns[n].stage \in {"dropped", "lost"}
              /\ v.turns[n].thread = w.turns[n].thread /\ \A j \in DOMAIN w.runs : w.runs[j].task # n
    BY <1>1 DEF WaitsOnce
  <1>4. \A j \in DOMAIN w.runs : /\ v.runs[j].thread = w.runs[j].thread /\ v.runs[j].task = w.runs[j].task
                                 /\ v.runs[j].finished = w.runs[j].finished
                                 /\ v.runs[j].drain => w.runs[j].drain
                                 /\ v.runs[j].pending \in {w.runs[j].pending, <<>>}
    OBVIOUS
  <1>5. \A j \in DOMAIN w.runs : w.runs[j].task # 0 => v.turns[w.runs[j].task] = w.turns[w.runs[j].task]
    BY <1>2, <1>3
  <1>6. \A n \in Messages : /\ v.turns[n].stage \in Working \cup Unbegun => v.turns[n] = w.turns[n]
                            /\ w.turns[n].stage \in Working \cup Unbegun => v.turns[n] = w.turns[n]
    BY <1>3 DEF Working, Unbegun
  <1>7. TypeOK(v)
    <2>1. \A n \in Messages : v.turns[n].stage # "composer" => v.turns[n].thread \in Threads
      BY <1>1, <1>3 DEF TypeOK
    <2>2. \A n \in Messages : v.turns[n].stage = "dispatching" => v.turns[n].run \in DOMAIN v.runs
      BY <1>1, <1>3 DEF TypeOK
    <2> QED BY <1>1, <2>1, <2>2 DEF TypeOK
  <1>8. OwnRuns(v)
    BY <1>1, <1>2, <1>4, <1>5 DEF OwnRuns
  <1>9. WaitsOnce(v)
    <2> SUFFICES ASSUME NEW j \in DOMAIN w.runs, NEW k \in DOMAIN v.runs[j].pending, NEW x, x = v.runs[j].pending[k]
                 PROVE  /\ v.turns[x].stage \in {"pending", "dropped", "lost"}
                        /\ \A l \in DOMAIN w.runs :
                              /\ v.runs[l].task # x
                              /\ \A a \in DOMAIN v.runs[l].pending : v.runs[l].pending[a] = x => j = l /\ k = a
      BY DEF WaitsOnce
    <2>1. \A l \in DOMAIN w.runs : \A a \in DOMAIN v.runs[l].pending : v.runs[l].pending = w.runs[l].pending
      BY <1>4
    <2>2. v.runs[j].pending = w.runs[j].pending /\ x \in Messages
      BY <1>2, <2>1
    <2>3. w.turns[x].stage \in {"pending", "dropped", "lost"}
      BY <1>1, <2>2 DEF WaitsOnce
    <2>4. v.turns[x].stage \in {"pending", "dropped", "lost"}
      BY <1>3, <2>2, <2>3
    <2>5. \A l \in DOMAIN w.runs :
              /\ w.runs[l].task # x
              /\ \A a \in DOMAIN w.runs[l].pending : w.runs[l].pending[a] = x => j = l /\ k = a
      BY <1>1, <2>2 DEF WaitsOnce
    <2> QED BY <1>4, <2>1, <2>4, <2>5
  <1>10. NewestBut(v, {})
    <2> SUFFICES ASSUME NEW a \in DOMAIN w.ready, NEW n, n = w.ready[a], NEW r, r = v.turns[n].thread,
                        v.turns[n].stage = "created", NEW j, j = w.current[r], j # 0
                 PROVE  NamedFrom(v, a, j)
      BY DEF NewestBut
    <2>1. n \in Messages /\ v.turns[n] = w.turns[n]
      BY <1>2, <1>6, SMTT(40) DEF Unbegun
    <2>2. NamedFrom(w, a, j)
      BY <1>1, <2>1 DEF NewestBut
    <2>3. j \in DOMAIN w.runs
      BY <1>1, <1>2, <2>1 DEF TypeOK
    <2>4. PICK b \in DOMAIN w.ready : /\ a <= b /\ w.ready[b] = w.runs[j].task
                                      /\ w.turns[w.ready[b]].stage = "created"
      BY <2>2, Zenon DEF NamedFrom
    <2>5. v.turns[w.ready[b]] = w.turns[w.ready[b]]
      BY <1>2, <1>6, <2>4, ZenonT(60) DEF Unbegun
    <2>6. v.runs[j].task = w.runs[j].task
      BY <1>4, <2>3
    <2> QED BY ONLY <2>4, <2>5, <2>6, v.ready = w.ready DEF NamedFrom
  <1>11. LineBut(v, {})
    BY <1>1, <1>6 DEF LineBut
  <1>12. LockBut(v, {})
    <2> SUFFICES ASSUME NEW n \in Messages, v.turns[n].stage \in Working
                 PROVE  Alone(v, n, {}) /\ HasRun(v, n)
      BY DEF LockBut
    <2>1. v.turns[n] = w.turns[n]
      BY <1>6
    <2>2. Alone(w, n, {}) /\ HasRun(w, n)
      BY <1>1, <2>1 DEF LockBut
    <2>3. w.turns[n].thread \in Threads
      BY <1>1, <2>1 DEF TypeOK, Working
    <2>4. Alone(v, n, {})
      BY <1>6, <2>1, <2>2 DEF Alone
    <2>5. \A j \in DOMAIN w.runs : Goes(w, j) => Goes(v, j)
      BY <1>4, <1>5 DEF Goes
    <2> QED BY <1>2, <1>4, <2>1, <2>2, <2>3, <2>4, <2>5 DEF HasRun
  <1>13. StartersBut(v, {}, {})
    <2> SUFFICES ASSUME NEW r \in Threads, NEW j, j = w.current[r], j # 0,
                        v.runs[j].pending # <<>> \/ v.runs[j].drain
                 PROVE  StarterBut(v, j, {})
      BY DEF StartersBut
    <2>1. j \in DOMAIN w.runs
      BY <1>2
    <2>2. StarterBut(w, j, {})
      BY <1>1, <1>4, <2>1 DEF StartersBut
    <2> QED BY <1>4, <1>6, <2>1, <2>2 DEF StarterBut
  <1> QED BY <1>7, <1>8, <1>9, <1>10, <1>11, <1>12, <1>13, RunsGood DEF Apart, Shape

\* What a run says of its end changes, not its thread, task and queue.
LEMMA RunsChanged ==
  ASSUME NEW w, NEW hand, NEW free, Apart(w, hand, free), NEW i \in DOMAIN w.runs,
         NEW v, Changed(w, v, i, hand, free)
  PROVE  Apart(v, hand, free)
  <1>1. TypeOK(w) /\ OwnRuns(w) /\ WaitsOnce(w) /\ NewestBut(w, free)
        /\ LineBut(w, hand) /\ LockBut(w, hand) /\ StartersBut(w, hand, free)
    BY DEF Apart, Shape
  <1>2. /\ 0 \notin DOMAIN w.runs
        /\ \A r \in Threads : w.current[r] # 0 => w.current[r] \in DOMAIN w.runs
        /\ \A a \in DOMAIN w.ready : w.ready[a] \in Messages
    BY <1>1, RunsShape
  <1>3. \A j \in DOMAIN w.runs : /\ v.runs[j].thread = w.runs[j].thread /\ v.runs[j].task = w.runs[j].task
                                 /\ v.runs[j].pending = w.runs[j].pending
    BY DEF Changed, OneRun
  <1>4. TypeOK(v)
    BY <1>1 DEF TypeOK, Changed, OneRun
  <1>5. OwnRuns(v)
    BY <1>1, <1>2, <1>3 DEF OwnRuns, Changed, OneRun
  <1>6. WaitsOnce(v)
    BY <1>1, <1>3 DEF WaitsOnce, Changed, OneRun
  <1>7. NewestBut(v, free)
    <2> SUFFICES ASSUME NEW a \in DOMAIN w.ready, NEW r, r = w.turns[w.ready[a]].thread, r \notin free,
                        w.turns[w.ready[a]].stage = "created", NEW j, j = w.current[r], j # 0
                 PROVE  NamedFrom(v, a, j)
      BY DEF NewestBut, Changed, OneRun
    <2>1. NamedFrom(w, a, j)
      BY <1>1 DEF NewestBut
    <2>2. j \in DOMAIN w.runs
      BY <1>1, <1>2 DEF TypeOK
    <2> QED BY <1>3, <2>1, <2>2, Zenon DEF NamedFrom, Changed, OneRun
  <1>8. LineBut(v, hand)
    BY <1>1, SMTT(40) DEF LineBut, Changed, OneRun
  <1>9. LockBut(v, hand)
    <2> SUFFICES ASSUME NEW n \in Messages, n \notin hand, w.turns[n].stage \in Working
                 PROVE  Alone(v, n, hand) /\ HasRun(v, n)
      BY DEF LockBut, Changed, OneRun
    <2>1. Alone(w, n, hand) /\ HasRun(w, n)
      BY <1>1 DEF LockBut
    <2>2. PICK j : j = w.current[w.turns[n].thread]
      OBVIOUS
    <2>3. w.turns[n].thread \in Threads
      BY <1>1 DEF TypeOK, Working
    <2>4. j \in DOMAIN w.runs /\ j # 0 /\ w.turns[n].run = j /\ w.runs[j].thread = w.turns[n].thread
          /\ (w.runs[j].finished => Goes(w, j))
      BY <1>1, <1>2, <2>1, <2>2, <2>3 DEF HasRun, OwnRuns
    <2>5. v.runs[j].finished => w.runs[j].finished
      BY <2>4 DEF Changed, OneRun
    <2>6. Goes(w, j) => Goes(v, j)
      BY <1>3, <2>4 DEF Goes, Changed, OneRun
    <2>7. Alone(v, n, hand)
      BY <2>1 DEF Alone, Changed, OneRun
    <2> QED BY <2>2, <2>4, <2>5, <2>6, <2>7 DEF HasRun, Changed, OneRun
  <1>10. StartersBut(v, hand, free)
    <2> SUFFICES ASSUME NEW r \in Threads, r \notin free, NEW j, j = w.current[r], j # 0,
                        v.runs[j].pending # <<>> \/ v.runs[j].drain
                 PROVE  StarterBut(v, j, hand)
      BY DEF StartersBut, Changed, OneRun
    <2>1. CASE j = i
      BY <2>1 DEF Changed, OneRun
    <2>2. CASE j # i
      <3>1. j \in DOMAIN w.runs /\ v.runs[j] = w.runs[j]
        BY <1>2, <2>2 DEF Changed, OneRun
      <3>2. StarterBut(w, j, hand)
        BY <1>1, <3>1 DEF StartersBut
      <3> QED BY <3>1, <3>2 DEF StarterBut, Changed, OneRun
    <2> QED BY <2>1, <2>2
  <1> QED BY <1>4, <1>5, <1>6, <1>7, <1>8, <1>9, <1>10 DEF Apart, Shape

\* A thread nobody works in loses its run state.
LEMMA RunsForgotten ==
  ASSUME NEW w, NEW hand, NEW free, NEW t \in Threads, Apart(w, hand, free \cup {t}),
         \A n \in Messages \ hand : w.turns[n].thread = t => w.turns[n].stage \notin Working,
         NEW v, v \in Worlds, v.ready = w.ready, v.turns = w.turns, v.runs = w.runs,
         v.listed \in {0} \cup DOMAIN w.runs,
         v.current[t] = 0, \A r \in Threads : r # t => v.current[r] = w.current[r]
  PROVE  Apart(v, hand, free)
  <1>1. TypeOK(w) /\ OwnRuns(w) /\ WaitsOnce(w) /\ NewestBut(w, free \cup {t})
        /\ LineBut(w, hand) /\ LockBut(w, hand) /\ StartersBut(w, hand, free \cup {t})
    BY DEF Apart, Shape
  <1>2. TypeOK(v)
    BY <1>1 DEF TypeOK
  <1>3. OwnRuns(v)
    BY <1>1 DEF OwnRuns
  <1>4. WaitsOnce(v)
    BY <1>1 DEF WaitsOnce
  <1>5. NewestBut(v, free)
    <2> SUFFICES ASSUME NEW a \in DOMAIN w.ready, NEW r, r = w.turns[w.ready[a]].thread, r \notin free,
                        w.turns[w.ready[a]].stage = "created", NEW j, j = v.current[r], j # 0
                 PROVE  NamedFrom(v, a, j)
      BY DEF NewestBut
    <2>1. w.ready[a] \in Messages
      BY <1>1, RunsShape
    <2>2. r \in Threads
      BY <1>1, <2>1 DEF TypeOK
    <2>3. r \notin free \cup {t} /\ j = w.current[r]
      BY <2>2
    <2>4. NamedFrom(w, a, j)
      BY ONLY <1>1, <2>3, r = w.turns[w.ready[a]].thread, a \in DOMAIN w.ready, j # 0,
              w.turns[w.ready[a]].stage = "created" DEF NewestBut
    <2> QED BY <2>4, Zenon DEF NamedFrom
  <1>6. LineBut(v, hand)
    BY <1>1 DEF LineBut
  <1>7. LockBut(v, hand)
    <2> SUFFICES ASSUME NEW n \in Messages, n \notin hand, w.turns[n].stage \in Working
                 PROVE  Alone(v, n, hand) /\ HasRun(v, n)
      BY DEF LockBut
    <2>1. Alone(w, n, hand) /\ HasRun(w, n)
      BY <1>1 DEF LockBut
    <2>2. w.turns[n].thread \in Threads
      BY <1>1 DEF TypeOK, Working
    <2>3. v.current[w.turns[n].thread] = w.current[w.turns[n].thread]
      BY <2>2
    <2>4. Alone(v, n, hand)
      BY <2>1 DEF Alone
    <2>5. \A j : Goes(w, j) => Goes(v, j)
      BY DEF Goes
    <2> QED BY <2>1, <2>3, <2>4, <2>5 DEF HasRun
  <1>8. StartersBut(v, hand, free)
    <2> SUFFICES ASSUME NEW r \in Threads, r \notin free, NEW j, j = v.current[r], j # 0,
                        w.runs[j].pending # <<>> \/ w.runs[j].drain
                 PROVE  StarterBut(v, j, hand)
      BY DEF StartersBut
    <2>1. r \notin free \cup {t} /\ j = w.current[r]
      OBVIOUS
    <2>2. StarterBut(w, j, hand)
      BY <1>1, <2>1 DEF StartersBut
    <2> QED BY <2>2 DEF StarterBut
  <1> QED BY <1>2, <1>3, <1>4, <1>5, <1>6, <1>7, <1>8 DEF Apart, Shape

\* The first message of a queue is taken from it.
LEMMA RunsPopped ==
  ASSUME NEW w, NEW hand, NEW free, NEW t \in Threads, Apart(w, hand, free \cup {t}), NewestBut(w, free),
         NEW i, NEW over, Shown(w, t, i, hand, over), NEW v, NEW h, Popped(w, v, i, h)
  PROVE  /\ h \in Messages /\ h \notin hand /\ Loose(v, h) /\ NewestBut(v, free)
         /\ Apart(v, hand \cup {h}, free \cup {t})
  <1>1. TypeOK(w) /\ OwnRuns(w) /\ WaitsOnce(w) /\ NewestBut(w, free \cup {t})
        /\ LineBut(w, hand) /\ LockBut(w, hand) /\ StartersBut(w, hand, free \cup {t})
    BY DEF Apart, Shape
  <1>2. w.runs[i].pending \in Seq(Messages) /\ 0 \notin DOMAIN w.runs
        /\ \A r \in Threads : w.current[r] # 0 => w.current[r] \in DOMAIN w.runs
        /\ \A a \in DOMAIN w.ready : w.ready[a] \in Messages
    BY <1>1, RunsShape DEF Shown, Popped, OneRun
  <1>3. PICK queue : queue = w.runs[i].pending
    OBVIOUS
  <1>4. queue \in Seq(Messages) /\ queue # <<>>
    BY <1>2, <1>3, SMTT(40) DEF Shown, Popped, OneRun
  <1>5. /\ h \in Messages /\ 1 \in DOMAIN queue /\ h = queue[1]
        /\ \A k \in DOMAIN Tail(queue) : k \in Nat /\ k + 1 \in DOMAIN queue /\ Tail(queue)[k] = queue[k + 1]
    BY <1>3, <1>4, SMTT(40) DEF Shown, Popped, OneRun
  <1>5a. /\ WaitsOnce(w) /\ i \in DOMAIN w.runs
         /\ 1 \in DOMAIN w.runs[i].pending /\ h = w.runs[i].pending[1]
    BY <1>1, <1>3, <1>5 DEF Shown
  <1>6. /\ w.turns[h].stage \in {"pending", "dropped", "lost"}
        /\ \A j \in DOMAIN w.runs :
              /\ w.runs[j].task # h
              /\ \A k \in DOMAIN w.runs[j].pending : w.runs[j].pending[k] = h => i = j /\ 1 = k
    BY ONLY <1>5a DEF WaitsOnce
  <1>7. h \notin hand /\ w.turns[h].stage \notin Working \cup Unbegun
    BY <1>6, Zenon DEF Working, Unbegun, Shown, Popped, OneRun
  <1>8. \A j \in DOMAIN w.runs : v.runs[j].thread = w.runs[j].thread /\ v.runs[j].task = w.runs[j].task
                                 /\ (v.runs[j].finished => w.runs[j].finished)
    BY DEF Shown, Popped, OneRun
  <1>9. Loose(v, h)
    <2> SUFFICES ASSUME NEW j \in DOMAIN w.runs, NEW k \in DOMAIN v.runs[j].pending, v.runs[j].pending[k] = h
                 PROVE  FALSE
      BY <1>6, <1>8, ZenonT(60) DEF Loose, Shown, Popped, OneRun
    <2>1. CASE j # i
      BY <1>6, <2>1 DEF Shown, Popped, OneRun
    <2>2. CASE j = i
      <3>1. k \in Nat /\ k + 1 \in DOMAIN queue /\ queue[k + 1] = h
        BY <1>3, <1>5, <2>2, Zenon DEF Shown, Popped, OneRun
      <3>2. k + 1 = 1 /\ k \in DOMAIN Tail(queue)
        BY <1>3, <1>6, <2>2, <3>1, Zenon DEF Shown, Popped, OneRun
      <3>3. 0 \notin DOMAIN Tail(queue)
        BY <1>4
      <3> QED BY <3>1, <3>2, <3>3
    <2> QED BY <2>1, <2>2
  <1>10. TypeOK(v)
    BY <1>1 DEF TypeOK, Shown, Popped, OneRun
  <1>11. OwnRuns(v)
    <2>1. \A r \in Threads : w.current[r] # 0 => v.runs[w.current[r]].thread = r
      BY <1>1, <1>2, <1>8, SMTT(40) DEF OwnRuns
    <2>2. \A j \in DOMAIN w.runs : v.runs[j].task # 0 =>
              /\ w.turns[v.runs[j].task].thread = v.runs[j].thread
              /\ w.turns[v.runs[j].task].stage \in {"created", "over", "dropped"} \cup Working
      BY <1>1, <1>8 DEF OwnRuns
    <2> QED BY <2>1, <2>2, Zenon DEF OwnRuns, Shown, Popped, OneRun
  <1>12. WaitsOnce(v)
    <2>1. \A j \in DOMAIN w.runs : \A k \in DOMAIN v.runs[j].pending :
             \E a \in DOMAIN w.runs[j].pending : /\ v.runs[j].pending[k] = w.runs[j].pending[a]
                                                 /\ a = IF j = i THEN k + 1 ELSE k
      BY <1>3, <1>5 DEF Shown, Popped, OneRun
    <2>2. \A k \in DOMAIN v.runs[i].pending : k \in Nat
      BY <1>3, <1>5 DEF Shown, Popped, OneRun
    <2> SUFFICES ASSUME NEW j \in DOMAIN w.runs, NEW k \in DOMAIN v.runs[j].pending, NEW x, x = v.runs[j].pending[k]
                 PROVE  /\ w.turns[x].stage \in {"pending", "dropped", "lost"}
                        /\ \A l \in DOMAIN w.runs :
                              /\ v.runs[l].task # x
                              /\ \A a \in DOMAIN v.runs[l].pending : v.runs[l].pending[a] = x => j = l /\ k = a
      BY DEF WaitsOnce, Shown, Popped, OneRun
    <2>3. PICK c \in DOMAIN w.runs[j].pending : x = w.runs[j].pending[c] /\ c = IF j = i THEN k + 1 ELSE k
      BY <2>1
    <2>4. /\ w.turns[x].stage \in {"pending", "dropped", "lost"}
          /\ \A l \in DOMAIN w.runs :
                /\ w.runs[l].task # x
                /\ \A a \in DOMAIN w.runs[l].pending : w.runs[l].pending[a] = x => j = l /\ c = a
      BY ONLY <1>5a, <2>3, j \in DOMAIN w.runs DEF WaitsOnce
    <2>5. ASSUME NEW l \in DOMAIN w.runs, NEW a \in DOMAIN v.runs[l].pending, v.runs[l].pending[a] = x
          PROVE  j = l /\ k = a
      <3>1. PICK d \in DOMAIN w.runs[l].pending : x = w.runs[l].pending[d] /\ d = IF l = i THEN a + 1 ELSE a
        BY <2>1, <2>5, SMTT(40)
      <3>2. j = l /\ c = d
        BY <2>4, <3>1
      <3>3. CASE j = i
        <4>1. k \in Nat /\ a \in Nat
          BY ONLY <2>2, <3>2, <3>3, k \in DOMAIN v.runs[j].pending, a \in DOMAIN v.runs[l].pending
        <4> QED BY ONLY <2>3, <3>1, <3>2, <3>3, <4>1
      <3>4. CASE j # i
        BY ONLY <2>3, <3>1, <3>2, <3>4
      <3> QED BY <3>3, <3>4
    <2> QED BY <1>8, <2>4, <2>5
  <1>14. \A a, j : j \in DOMAIN w.runs /\ NamedFrom(w, a, j) => NamedFrom(v, a, j)
    BY <1>8 DEF NamedFrom, Shown, Popped, OneRun
  <1>15. NewestBut(v, free)
    <2> SUFFICES ASSUME NEW a \in DOMAIN w.ready, NEW r, r = w.turns[w.ready[a]].thread, r \notin free,
                        w.turns[w.ready[a]].stage = "created", NEW j, j = w.current[r], j # 0
                 PROVE  NamedFrom(v, a, j)
      BY Zenon DEF NewestBut, Shown, Popped, OneRun
    <2>1. NamedFrom(w, a, j)
      BY ONLY NewestBut(w, free), r = w.turns[w.ready[a]].thread, a \in DOMAIN w.ready, j # 0, j = w.current[r],
              r \notin free, w.turns[w.ready[a]].stage = "created" DEF NewestBut
    <2>2. j \in DOMAIN w.runs
      BY <1>1, <1>2 DEF TypeOK, Shown, Popped, OneRun
    <2> QED BY <1>14, <2>1, <2>2, Zenon
  <1>16. NewestBut(v, free \cup {t})
    BY <1>15, Zenon DEF NewestBut
  <1>17. LineBut(v, hand \cup {h})
    <2>1. \A a \in DOMAIN w.ready : w.ready[a] # h
      BY <1>1, <1>5, <1>7 DEF LineBut
    <2>2. LineBut(w, hand)
      BY <1>1
    <2>3. v.ready = w.ready /\ v.turns = w.turns
      BY DEF Popped, OneRun
    <2> QED BY ONLY <2>1, <2>2, <2>3 DEF LineBut
  <1>18. LockBut(v, hand \cup {h})
    <2> SUFFICES ASSUME NEW n \in Messages, n \notin hand, w.turns[n].stage \in Working
                 PROVE  Alone(v, n, hand \cup {h}) /\ HasRun(v, n)
      BY DEF LockBut, Shown, Popped, OneRun
    <2>1. Alone(w, n, hand) /\ HasRun(w, n)
      BY <1>1 DEF LockBut
    <2>2. w.turns[n].thread \in Threads
      BY <1>1 DEF TypeOK, Working
    <2>3. Alone(v, n, hand \cup {h})
      BY <2>1 DEF Alone, Shown, Popped, OneRun
    <2>4. \A j \in DOMAIN w.runs : Goes(w, j) => Goes(v, j)
      BY <1>8 DEF Goes, Shown, Popped, OneRun
    <2> QED BY <1>2, <1>8, <2>1, <2>2, <2>3, <2>4, Zenon DEF HasRun, Shown, Popped, OneRun
  <1>19. StartersBut(v, hand \cup {h}, free \cup {t})
    <2> SUFFICES ASSUME NEW r \in Threads, r \notin free, r # t, NEW j, j = w.current[r], j # 0,
                        v.runs[j].pending # <<>> \/ v.runs[j].drain
                 PROVE  StarterBut(v, j, hand \cup {h})
      BY DEF StartersBut, Shown, Popped, OneRun
    <2>1. j \in DOMAIN w.runs /\ v.runs[j] = w.runs[j]
      BY <1>1, <1>2 DEF OwnRuns, Shown, Popped, OneRun
    <2>2. StarterBut(w, j, hand)
      BY <1>1, <2>1 DEF StartersBut
    <2> QED BY <1>7, <2>1, <2>2, ZenonT(60) DEF StarterBut, Shown, Popped, OneRun
  <1> QED BY <1>5, <1>7, <1>9, <1>10, <1>11, <1>12, <1>15, <1>16, <1>17, <1>18, <1>19, Zenon DEF Apart, Shape

\* Starters may be asked for in fewer threads.
LEMMA RunsWeaken ==
  ASSUME NEW w, NEW hand, NEW free, Apart(w, hand, free), NEW wider, free \subseteq wider
  PROVE  Apart(w, hand, wider)
  BY DEF Apart, NewestBut, StartersBut

\* A thread that has a starter, or needs none, is asked for one again.
LEMMA RunsWhole ==
  ASSUME NEW w, NEW hand, NEW free, NEW t \in Threads, Apart(w, hand, free \cup {t}), NewestBut(w, free),
         w.current[t] # 0 /\ (w.runs[w.current[t]].pending # <<>> \/ w.runs[w.current[t]].drain)
             => StarterBut(w, w.current[t], hand)
  PROVE  Apart(w, hand, free)
  <1>1. StartersBut(w, hand, free \cup {t})
    BY DEF Apart
  <1>2. StartersBut(w, hand, free)
    BY <1>1 DEF StartersBut
  <1> QED BY <1>2 DEF Apart

\* The list on the screen is nobody's starter.
LEMMA RunsListed ==
  ASSUME NEW w, Good(w), NEW v, v \in Worlds, v.runs = w.runs, v.current = w.current,
         v.turns = w.turns, v.ready = w.ready, v.listed \in {0} \cup DOMAIN w.runs
  PROVE  Good(v)
  <1>1. TypeOK(w) /\ OwnRuns(w) /\ WaitsOnce(w) /\ InLine(w) /\ NewestIsNamed(w)
        /\ LockBut(w, {}) /\ HasStarter(w)
    BY RunsGood DEF Apart, Good
  <1>2. LockBut(v, {})
    BY ONLY <1>1, v.runs = w.runs, v.current = w.current, v.turns = w.turns, RunsLockSame
  <1>3. TypeOK(v) /\ OwnRuns(v) /\ WaitsOnce(v)
    BY <1>1 DEF TypeOK, OwnRuns, WaitsOnce
  <1>4. LineBut(v, {})
    BY <1>1 DEF InLine, LineBut
  <1>5. NewestBut(v, {})
    <2>1. NewestIsNamed(w)
      BY <1>1
    <2>2. \A a, i : NamedFrom(w, a, i) => NamedFrom(v, a, i)
      BY ONLY v.runs = w.runs, v.turns = w.turns, v.ready = w.ready DEF NamedFrom
    <2> QED BY ONLY <2>1, <2>2, v.current = w.current, v.turns = w.turns, v.ready = w.ready
            DEF NewestIsNamed, NewestBut
  <1>6. \A i : StarterIn(w, i) => StarterBut(v, i, {})
    BY DEF StarterIn, StarterBut
  <1>7. StartersBut(v, {}, {})
    BY <1>1, <1>6 DEF HasStarter, StartersBut
  <1> QED BY <1>2, <1>3, <1>4, <1>5, <1>7, RunsGood DEF Apart, Shape

\* Some turns are put to another stage.
LEMMA RunsStages ==
  ASSUME NEW w, w \in Worlds, NEW some, NEW stage \in TurnStages,
         NEW v, v = Stages(w, some, stage)
  PROVE  /\ v \in Worlds /\ v.runs = w.runs /\ v.current = w.current /\ v.ready = w.ready
         /\ v.listed = w.listed
         /\ \A n \in Messages :
               /\ n \notin some => v.turns[n] = w.turns[n]
               /\ n \in some => /\ v.turns[n].stage = stage /\ v.turns[n].thread = w.turns[n].thread
                                /\ v.turns[n].run = w.turns[n].run /\ v.turns[n].event = w.turns[n].event
  <1>1. w.turns \in [Messages -> TurnStates]
    BY DEF Worlds
  <1>2. PICK later : later = [n \in Messages |->
                                 IF n \in some THEN [w.turns[n] EXCEPT !.stage = stage] ELSE w.turns[n]]
    OBVIOUS
  <1>3. \A n \in Messages :
           /\ n \notin some => later[n] = w.turns[n]
           /\ n \in some => /\ later[n].stage = stage /\ later[n].thread = w.turns[n].thread
                            /\ later[n].run = w.turns[n].run /\ later[n].event = w.turns[n].event
                            /\ later[n] \in TurnStates
    BY <1>1, <1>2 DEF TurnStates
  <1>4. later \in [Messages -> TurnStates]
    <2>1. \A n \in Messages : later[n] \in TurnStates
      BY <1>1, <1>3
    <2> QED BY <1>2, <2>1
  <1>5. v = [w EXCEPT !.turns = later]
    BY <1>2 DEF Stages
  <1>6. v \in Worlds /\ v.turns = later /\ v.runs = w.runs /\ v.current = w.current /\ v.ready = w.ready
        /\ v.listed = w.listed
    BY <1>4, <1>5 DEF Worlds
  <1> QED BY <1>3, <1>6

\* One run state is replaced.
LEMMA RunsReplaced ==
  ASSUME NEW w, w \in Worlds, NEW i \in DOMAIN w.runs, NEW x \in RunStates,
         NEW v, v = [w EXCEPT !.runs[i] = x]
  PROVE  /\ v \in Worlds /\ v.current = w.current /\ v.turns = w.turns /\ v.ready = w.ready
         /\ v.listed = w.listed /\ DOMAIN v.runs = DOMAIN w.runs /\ v.runs[i] = x
         /\ \A j \in DOMAIN w.runs : j # i => v.runs[j] = w.runs[j]
  <1>1. w.runs \in Seq(RunStates)
    BY DEF Worlds
  <1>2. PICK all : all = [w.runs EXCEPT ![i] = x]
    OBVIOUS
  <1>3. all \in Seq(RunStates) /\ DOMAIN all = DOMAIN w.runs /\ all[i] = x
        /\ \A j \in DOMAIN w.runs : j # i => all[j] = w.runs[j]
    BY <1>1, <1>2
  <1>4. v = [w EXCEPT !.runs = all]
    BY <1>2
  <1> QED BY <1>3, <1>4 DEF Worlds

\* The screen follows a thread.
LEMMA RunsSync ==
  ASSUME NEW w, Good(w), NEW t \in Threads \cup {None}
  PROVE  Good(Sync(w, t))
  <1>1. TypeOK(w)
    BY DEF Good
  <1>2. /\ w \in Worlds /\ w.listed \in {0} \cup DOMAIN w.runs /\ 0 \notin DOMAIN w.runs
        /\ \A r \in Threads : w.current[r] # 0 => w.current[r] \in DOMAIN w.runs
        /\ \A i \in DOMAIN w.runs : w.runs[i] \in RunStates /\ i \in Nat
    BY <1>1, RunsShape
  <1>3. CASE t # None /\ w.current[t] # 0
    <2>1. PICK i \in DOMAIN w.runs : i = w.current[t] /\ i \in Nat
      BY <1>2, <1>3
    <2>2. PICK v : v = [w EXCEPT !.listed = i]
      OBVIOUS
    <2>3. v \in Worlds /\ v.runs = w.runs /\ v.current = w.current /\ v.turns = w.turns /\ v.ready = w.ready
          /\ v.listed = i
      BY <1>2, <2>1, <2>2 DEF Worlds
    <2>4. Good(v)
      BY <2>3, RunsListed
    <2> QED BY <1>3, <2>1, <2>2, <2>4 DEF Sync
  <1>4. CASE ~(t # None /\ w.current[t] # 0) /\ w.listed = 0
    BY <1>4 DEF Sync
  <1>5. CASE ~(t # None /\ w.current[t] # 0) /\ w.listed # 0
    <2>1. PICK i \in DOMAIN w.runs : i = w.listed
      BY <1>2, <1>5
    <2>2. PICK some : some = Range(w.runs[i].pending)
      OBVIOUS
    <2>3. \A n \in some : \E k \in DOMAIN w.runs[i].pending : w.runs[i].pending[k] = n
      BY <2>2 DEF Range
    <2>4. PICK u : u = Stages(w, some, "lost")
      OBVIOUS
    <2>5. "lost" \in TurnStages
      BY DEF TurnStages
    <2>6. /\ u \in Worlds /\ u.runs = w.runs /\ u.current = w.current /\ u.ready = w.ready
          /\ u.listed = w.listed
          /\ \A n \in Messages :
                /\ n \notin some => u.turns[n] = w.turns[n]
                /\ n \in some => u.turns[n].stage = "lost" /\ u.turns[n].thread = w.turns[n].thread
      BY <1>2, <2>4, <2>5, RunsStages
    <2>7. PICK x : x = [w.runs[i] EXCEPT !.pending = <<>>]
      OBVIOUS
    <2>8. /\ x \in RunStates /\ x.thread = w.runs[i].thread /\ x.task = w.runs[i].task
          /\ x.finished = w.runs[i].finished /\ x.drain = w.runs[i].drain /\ x.pending = <<>>
      <3>1. w.runs[i] \in RunStates /\ <<>> \in Seq(Messages)
        BY <1>2
      <3> QED BY ONLY <2>7, <3>1 DEF RunStates
    <2>9. PICK v : v = [u EXCEPT !.runs[i] = x]
      OBVIOUS
    <2>10. /\ v \in Worlds /\ v.current = u.current /\ v.turns = u.turns /\ v.ready = u.ready
           /\ v.listed = u.listed /\ DOMAIN v.runs = DOMAIN u.runs /\ v.runs[i] = x
           /\ \A j \in DOMAIN u.runs : j # i => v.runs[j] = u.runs[j]
      BY <2>6, <2>8, <2>9, RunsReplaced
    <2>11. Good(v)
      BY <1>2, <2>3, <2>6, <2>8, <2>10, RunsDropped
    <2>12. v = Sync(w, t)
      BY <1>5, <2>1, <2>2, <2>4, <2>6, <2>7, <2>9, Zenon DEF Sync
    <2> QED BY <2>11, <2>12
  <1> QED BY <1>3, <1>4, <1>5

\* No run has to do with a message that is being written, or has no task yet.
LEMMA RunsLoose ==
  ASSUME NEW w, Shape(w), NEW m \in Messages,
         w.turns[m].stage \in {"composer", "dispatching", "scheduled"}
  PROVE  Loose(w, m)
  <1>1. TypeOK(w) /\ OwnRuns(w) /\ WaitsOnce(w)
    BY DEF Shape
  <1>2. \A i \in DOMAIN w.runs : w.runs[i].task # m
    <2> SUFFICES ASSUME NEW i \in DOMAIN w.runs, w.runs[i].task = m PROVE FALSE
      OBVIOUS
    <2>1. m # 0
      BY <1>1, RunsShape
    <2>2. w.turns[m].stage \in {"created", "over", "dropped"} \cup Working
      BY <1>1, <2>1 DEF OwnRuns
    <2> QED BY <2>2 DEF Working
  <1>3. \A i \in DOMAIN w.runs : \A k \in DOMAIN w.runs[i].pending : w.runs[i].pending[k] # m
    <2> SUFFICES ASSUME NEW i \in DOMAIN w.runs, NEW k \in DOMAIN w.runs[i].pending, w.runs[i].pending[k] = m
                 PROVE  FALSE
      OBVIOUS
    <2>1. w.turns[w.runs[i].pending[k]].stage \in {"pending", "dropped", "lost"}
      BY <1>1 DEF WaitsOnce
    <2> QED BY <2>1
  <1> QED BY <1>2, <1>3 DEF Loose

\* A turn in hand is started.
LEMMA RunsStart ==
  ASSUME NEW w, NEW m \in Messages, NEW t \in Threads, Apart(w, {m}, {t}), Loose(w, m)
  PROVE  Good(Start(w, m, t))
  <1>1. PICK u : u = WithRun(w, t)
    OBVIOUS
  <1>2. Apart(u, {m}, {t}) /\ u.current[t] # 0 /\ Loose(u, m)
    BY <1>1, RunsWithRun
  <1>3. TypeOK(u) /\ OwnRuns(u)
    BY <1>2 DEF Apart, Shape
  <1>4. /\ u \in Worlds /\ 0 \notin Messages /\ u.ready \in Seq(Messages)
        /\ u.turns \in [Messages -> TurnStates] /\ u.turns[m] \in TurnStates
        /\ u.current[t] \in DOMAIN u.runs /\ \A j \in DOMAIN u.runs : u.runs[j] \in RunStates
    BY <1>2, <1>3, RunsShape
  <1>5. PICK i \in DOMAIN u.runs : i = u.current[t]
    BY <1>4
  <1>6. PICK x : x = [u.runs[i] EXCEPT !.task = m, !.event = m, !.status = "working",
                                       !.drain = FALSE, !.finished = FALSE]
    OBVIOUS
  <1>7. /\ x \in RunStates /\ x.thread = u.runs[i].thread /\ x.pending = u.runs[i].pending
        /\ x.task = m /\ ~x.finished
    BY <1>4, <1>6 DEF RunStates
  <1>8. PICK y : y = [u.turns[m] EXCEPT !.thread = t, !.stage = "created"]
    OBVIOUS
  <1>9. y \in TurnStates /\ y.thread = t /\ y.stage = "created"
    BY <1>4, <1>8 DEF TurnStates, TurnStages
  <1>10. PICK z : z = [u EXCEPT !.runs[i] = x]
    OBVIOUS
  <1>11. /\ z \in Worlds /\ z.current = u.current /\ z.turns = u.turns /\ z.ready = u.ready
         /\ z.listed = u.listed /\ DOMAIN z.runs = DOMAIN u.runs /\ z.runs[i] = x
         /\ \A j \in DOMAIN u.runs : j # i => z.runs[j] = u.runs[j]
    BY <1>4, <1>7, <1>10, RunsReplaced
  <1>12. PICK later : later = [u.turns EXCEPT ![m] = y]
    OBVIOUS
  <1>13. later \in [Messages -> TurnStates] /\ later[m] = y
         /\ \A n \in Messages : n # m => later[n] = u.turns[n]
    BY <1>4, <1>9, <1>12
  <1>14. PICK line : line = Append(u.ready, m)
    OBVIOUS
  <1>15. line \in Seq(Messages)
    BY <1>4, <1>14
  <1>16. PICK v : v = [z EXCEPT !.turns = later, !.ready = line]
    OBVIOUS
  <1>17. v \in Worlds /\ v.runs = z.runs /\ v.current = u.current /\ v.listed = u.listed
         /\ v.turns = later /\ v.ready = line
    BY <1>11, <1>13, <1>15, <1>16 DEF Worlds
  <1>18. Apart(v, {}, {})
    <2>1. Apart(u, {} \cup {m}, {} \cup {t}) /\ m \notin {} /\ Loose(u, m)
      BY <1>2
    <2>2. Lined(u, v, m, t, i, {})
      BY <1>2, <1>5, <1>7, <1>9, <1>11, <1>13, <1>14, <1>17 DEF Lined
    <2> QED BY <2>1, <2>2, RunsLined
  <1>19. Good(v)
    BY <1>18, RunsGood
  <1>20. Start(w, m, t) = IF t = attached THEN Sync(v, t) ELSE v
    BY <1>1, <1>5, <1>6, <1>8, <1>10, <1>11, <1>12, <1>14, <1>16 DEF Start
  <1> QED BY <1>19, <1>20, RunsSync

\* A finished run makes place: the next message has a task, or the run is forgotten.
LEMMA RunsComplete ==
  ASSUME NEW w, NEW hand, NEW free, NEW t \in Threads, Apart(w, hand, free \cup {t}), NewestBut(w, free),
         NEW i, NEW over, Shown(w, t, i, hand, over), NEW v, v = Complete(w, i, over)
  PROVE  /\ Apart(v, hand, free) /\ \A m \in hand : m \in Messages => v.turns[m] = w.turns[m]
         /\ v.current[t] \in {0, i} /\ (v.current[t] = 0 => over) /\ DOMAIN v.runs = DOMAIN w.runs
         /\ ~v.runs[i].finished
  <1>1. TypeOK(w) /\ OwnRuns(w)
    BY DEF Apart, Shape
  <1>2. /\ w \in Worlds /\ w.runs[i] \in RunStates /\ w.runs[i].pending \in Seq(Messages)
        /\ w.current \in [Threads -> Nat] /\ i # 0 /\ w.runs[i].thread = t
        /\ w.listed \in {0} \cup DOMAIN w.runs /\ w.turns \in [Messages -> TurnStates]
    BY <1>1, RunsShape DEF OwnRuns, Shown
  <1>3. PICK x : x = [w.runs[i] EXCEPT !.finished = FALSE]
    OBVIOUS
  <1>4. /\ x \in RunStates /\ x.thread = w.runs[i].thread /\ x.task = w.runs[i].task
        /\ x.pending = w.runs[i].pending /\ x.drain = w.runs[i].drain /\ x.finished = FALSE
    BY <1>2, <1>3 DEF RunStates
  <1>5. PICK u : u = [w EXCEPT !.runs[i] = x]
    OBVIOUS
  <1>6. /\ u \in Worlds /\ u.current = w.current /\ u.turns = w.turns /\ u.ready = w.ready
        /\ u.listed = w.listed /\ DOMAIN u.runs = DOMAIN w.runs /\ u.runs[i] = x
        /\ \A j \in DOMAIN w.runs : j # i => u.runs[j] = w.runs[j]
    BY <1>2, <1>4, <1>5, RunsReplaced DEF Shown
  <1>7. CASE w.runs[i].pending # <<>>
    <2>1. PICK y : y = [x EXCEPT !.pending = Tail(@)]
      OBVIOUS
    <2>2. Tail(x.pending) \in Seq(Messages)
      BY <1>2, <1>4, <1>7
    <2>3. /\ y \in RunStates /\ y.thread = w.runs[i].thread /\ y.task = w.runs[i].task
          /\ y.pending = Tail(w.runs[i].pending) /\ y.finished = FALSE
      BY <1>4, <2>1, <2>2 DEF RunStates
    <2>4. PICK z : z = [u EXCEPT !.runs[i] = y]
      OBVIOUS
    <2>5. /\ z \in Worlds /\ z.current = u.current /\ z.turns = u.turns /\ z.ready = u.ready
          /\ z.listed = u.listed /\ DOMAIN z.runs = DOMAIN u.runs /\ z.runs[i] = y
          /\ \A j \in DOMAIN u.runs : j # i => z.runs[j] = u.runs[j]
      BY <1>6, <2>3, <2>4, RunsReplaced DEF Shown
    <2>6. PICK h : h = Head(w.runs[i].pending)
      OBVIOUS
    <2>7. /\ h \in Messages /\ h \notin hand /\ Loose(z, h) /\ NewestBut(z, free)
          /\ Apart(z, hand \cup {h}, free \cup {t})
      <3>1. Popped(w, z, i, h)
        BY <1>6, <1>7, <2>3, <2>5, <2>6 DEF Popped, OneRun
      <3> QED BY <3>1, RunsPopped
    <2>8. Apart(Schedule(z, h, t), hand, free)
      BY <2>7, RunsSchedule
    <2>9. v = Schedule(z, h, t)
      BY <1>2, <1>3, <1>5, <1>6, <1>7, <2>1, <2>4, <2>6, Zenon DEF Complete
    <2>10. /\ v.runs = z.runs /\ v.current = z.current
           /\ \A m \in Messages : m # h => v.turns[m] = z.turns[m]
      BY <1>2, <1>6, <2>5, <2>9 DEF Schedule, Worlds
    <2> QED BY <1>2, <1>6, <2>3, <2>5, <2>7, <2>8, <2>9, <2>10 DEF Shown
  <1>8. CASE w.runs[i].pending = <<>>
    <2>1. Apart(u, hand, free \cup {t})
      <3>1. \A r \in Threads \ (free \cup {t}) : w.current[r] # i
        BY <1>1, <1>2 DEF OwnRuns
      <3>2. Changed(w, u, i, hand, free \cup {t})
        BY <1>4, <1>6, <3>1 DEF Changed, OneRun
      <3> QED BY <3>2, RunsChanged DEF Shown
    <2>2. CASE over
      <3>1. PICK now : now = [w.current EXCEPT ![t] = 0]
        OBVIOUS
      <3>2. now \in [Threads -> Nat] /\ now[t] = 0 /\ \A r \in Threads : r # t => now[r] = w.current[r]
        BY <1>2, <3>1
      <3>3. v = [u EXCEPT !.current = now]
        BY <1>2, <1>3, <1>5, <1>6, <1>8, <2>2, <3>1 DEF Complete
      <3>4. v \in Worlds /\ v.current = now /\ v.runs = u.runs /\ v.turns = u.turns /\ v.ready = u.ready
            /\ v.listed = u.listed
        BY <1>6, <3>2, <3>3 DEF Worlds
      <3>5. Apart(v, hand, free)
        <4>1. \A n \in Messages \ hand : u.turns[n].thread = t => u.turns[n].stage \notin Working
          BY <1>6, <2>2 DEF Shown
        <4>2. v.listed \in {0} \cup DOMAIN u.runs
          BY <1>2, <1>6, <3>4
        <4>3. v.current[t] = 0 /\ \A r \in Threads : r # t => v.current[r] = u.current[r]
          BY <1>6, <3>2, <3>4
        <4> QED BY ONLY <2>1, <3>4, <4>1, <4>2, <4>3, t \in Threads, RunsForgotten
      <3> QED BY <1>4, <1>6, <2>2, <3>2, <3>4, <3>5
    <2>3. CASE ~over
      <3>1. v = u
        BY <1>3, <1>5, <1>8, <2>3 DEF Complete
      <3>2. NewestBut(u, free)
        <4>1. \A j \in DOMAIN w.runs : u.runs[j].task = w.runs[j].task
          BY <1>4, <1>6
        <4>2. \A a \in DOMAIN w.ready : \A j \in DOMAIN w.runs : NamedFrom(w, a, j) => NamedFrom(u, a, j)
          BY <1>6, <4>1 DEF NamedFrom
        <4> SUFFICES ASSUME NEW a \in DOMAIN w.ready, NEW r, r = w.turns[w.ready[a]].thread, r \notin free,
                            w.turns[w.ready[a]].stage = "created", NEW j, j = w.current[r], j # 0
                     PROVE  NamedFrom(u, a, j)
          BY <1>6 DEF NewestBut
        <4>3. NamedFrom(w, a, j)
          BY ONLY NewestBut(w, free), a \in DOMAIN w.ready, r = w.turns[w.ready[a]].thread, r \notin free,
                  w.turns[w.ready[a]].stage = "created", j = w.current[r], j # 0 DEF NewestBut
        <4>4. j \in DOMAIN w.runs
          <5>1. w.ready[a] \in Messages
            BY <1>1, RunsShape
          <5>2. r \in Threads
            BY <1>1, <5>1 DEF TypeOK
          <5> QED BY <1>1, <5>2, RunsShape
        <4> QED BY <4>2, <4>3, <4>4, Zenon
      <3>3. Apart(u, hand, free)
        BY <1>4, <1>6, <1>8, <2>1, <3>2, RunsWhole DEF Shown
      <3> QED BY <1>2, <1>4, <1>6, <3>1, <3>3 DEF Shown
    <2> QED BY <2>2, <2>3
  <1> QED BY <1>7, <1>8

\* A turn in hand has no task any more, or none yet.
LEMMA RunsParked ==
  ASSUME NEW w, NEW m \in Messages, Apart(w, {m}, {}), NEW v, NEW t, Parked(w, v, m, t)
  PROVE  Good(v)
  <1>a. v.current = w.current /\ v.ready = w.ready /\ DOMAIN v.runs = DOMAIN w.runs
    BY DEF Parked
  <1>b. \A n \in Messages : n # m => v.turns[n] = w.turns[n]
    BY DEF Parked
  <1>c. \A j \in DOMAIN w.runs : v.runs[j].thread = w.runs[j].thread
    BY DEF Parked
  <1>1. TypeOK(w) /\ OwnRuns(w) /\ WaitsOnce(w) /\ NewestBut(w, {})
        /\ LineBut(w, {m}) /\ LockBut(w, {m}) /\ StartersBut(w, {m}, {}) /\ Shape(w)
    BY DEF Apart, Shape
  <1>2. /\ 0 \notin DOMAIN w.runs /\ 0 \notin Messages
        /\ \A r \in Threads : w.current[r] # 0 => w.current[r] \in DOMAIN w.runs
        /\ \A a \in DOMAIN w.ready : w.ready[a] \in Messages
        /\ \A j \in DOMAIN w.runs : w.runs[j].task \in {0} \cup Messages
        /\ \A j \in DOMAIN w.runs : \A k \in DOMAIN w.runs[j].pending : w.runs[j].pending[k] \in Messages
    BY <1>1, RunsShape
  <1>3. v.turns[m].stage \notin Working \cup Unbegun
    BY DEF Working, Unbegun, Parked
  <1>4. \A a \in DOMAIN w.ready : w.ready[a] # m /\ v.turns[w.ready[a]] = w.turns[w.ready[a]]
    BY <1>1, <1>2 DEF LineBut, Parked
  <1>5. w.turns[m].stage \in {"composer", "dispatching"} => \A j \in DOMAIN w.runs : w.runs[j].task # m
    BY <1>1, RunsLoose DEF Loose
  <1>6. TypeOK(v)
    <2>1. \A n \in Messages : v.turns[n].stage # "composer" => v.turns[n].thread \in Threads
      BY <1>1 DEF TypeOK, Parked
    <2>2. \A n \in Messages : v.turns[n].stage = "dispatching" => v.turns[n].run \in DOMAIN v.runs
      BY <1>1 DEF TypeOK, Parked
    <2> QED BY <1>1, <2>1, <2>2 DEF TypeOK, Parked
  <1>7. OwnRuns(v)
    <2>1. \A r \in Threads : v.current[r] # 0 => v.runs[v.current[r]].thread = r
      BY ONLY <1>1, <1>2, <1>a, <1>c DEF OwnRuns
    <2>2. ASSUME NEW j \in DOMAIN v.runs, v.runs[j].task # 0
          PROVE  /\ v.turns[v.runs[j].task].thread = v.runs[j].thread
                 /\ v.turns[v.runs[j].task].stage \in {"created", "over", "dropped"} \cup Working
      <3>1. /\ w.runs[j].task # 0 /\ w.turns[w.runs[j].task].thread = v.runs[j].thread
            /\ w.turns[w.runs[j].task].stage \in {"created", "over", "dropped"} \cup Working
        BY <1>1, <2>2, Zenon DEF OwnRuns, Parked
      <3>2. CASE w.runs[j].task = m
        BY <1>5, <3>1, <3>2 DEF Parked
      <3>3. CASE w.runs[j].task # m
        BY <1>2, <3>1, <3>3, SMTT(40) DEF Parked
      <3> QED BY <3>2, <3>3
    <2> QED BY <2>1, <2>2, Zenon DEF OwnRuns
  <1>8. WaitsOnce(v)
    <2> SUFFICES ASSUME NEW j \in DOMAIN w.runs, NEW k \in DOMAIN w.runs[j].pending, NEW x, x = w.runs[j].pending[k]
                 PROVE  /\ v.turns[x].stage \in {"pending", "dropped", "lost"}
                        /\ \A l \in DOMAIN w.runs :
                              /\ w.runs[l].task # x
                              /\ \A a \in DOMAIN w.runs[l].pending : w.runs[l].pending[a] = x => j = l /\ k = a
      BY DEF WaitsOnce, Parked
    <2>1. WaitsOnce(w)
      BY <1>1
    <2>2. /\ w.turns[x].stage \in {"pending", "dropped", "lost"}
          /\ \A l \in DOMAIN w.runs :
                /\ w.runs[l].task # x
                /\ \A a \in DOMAIN w.runs[l].pending : w.runs[l].pending[a] = x => j = l /\ k = a
      BY ONLY <2>1, j \in DOMAIN w.runs, k \in DOMAIN w.runs[j].pending, x = w.runs[j].pending[k], SMTT(40)
         DEF WaitsOnce
    <2>3. x # m /\ x \in Messages
      BY <1>2, <2>2 DEF Parked
    <2> QED BY <2>2, <2>3, SMTT(40) DEF Parked
  <1>9. NewestBut(v, {})
    <2>0. (\A a \in DOMAIN w.ready : \A r, j :
              /\ r = w.turns[w.ready[a]].thread /\ w.turns[w.ready[a]].stage = "created"
              /\ j = w.current[r] /\ j # 0
              => NamedFrom(v, a, j)) => NewestBut(v, {})
      BY ONLY <1>4, <1>a DEF NewestBut
    <2> SUFFICES ASSUME NEW a \in DOMAIN w.ready, NEW r, r = w.turns[w.ready[a]].thread,
                        w.turns[w.ready[a]].stage = "created", NEW j, j = w.current[r], j # 0
                 PROVE  NamedFrom(v, a, j)
      BY <2>0, Zenon
    <2>1. NamedFrom(w, a, j)
      BY <1>1, Zenon DEF NewestBut
    <2>2. r \in Threads /\ j \in DOMAIN w.runs
      BY <1>1, <1>2 DEF TypeOK
    <2>3. PICK b \in DOMAIN w.ready : /\ a <= b /\ w.ready[b] = w.runs[j].task
                                      /\ w.turns[w.ready[b]].stage = "created"
      BY <2>1, Zenon DEF NamedFrom
    <2>4. v.runs[j].task = w.runs[j].task /\ v.turns[w.ready[b]] = w.turns[w.ready[b]]
      BY <1>4, <2>2, <2>3, Zenon DEF Parked
    <2> QED BY ONLY <1>a, <2>3, <2>4 DEF NamedFrom
  <1>10. LineBut(v, {})
    <2>1. \A n \in Messages : v.turns[n].stage \in Unbegun <=> \E a \in DOMAIN w.ready : w.ready[a] = n
      <3> SUFFICES ASSUME NEW n \in Messages
                   PROVE  v.turns[n].stage \in Unbegun <=> \E a \in DOMAIN w.ready : w.ready[a] = n
        OBVIOUS
      <3>1. CASE n = m
        BY <1>3, <1>4, <3>1
      <3>2. CASE n # m
        BY <1>1, <3>2 DEF LineBut, Parked
      <3> QED BY <3>1, <3>2
    <2> QED BY <1>1, <2>1 DEF LineBut, Parked
  <1>11. LockBut(v, {})
    <2> SUFFICES ASSUME NEW n \in Messages, v.turns[n].stage \in Working
                 PROVE  Alone(v, n, {}) /\ HasRun(v, n)
      BY DEF LockBut
    <2>1. n # m /\ v.turns[n] = w.turns[n]
      BY <1>3 DEF Parked
    <2>2. Alone(w, n, {m}) /\ HasRun(w, n)
      BY <1>1, <2>1 DEF LockBut
    <2>3. Alone(v, n, {})
      BY <1>3, <2>1, <2>2 DEF Alone, Parked
    <2>4. PICK j : j = w.current[w.turns[n].thread]
      OBVIOUS
    <2>5. w.turns[n].thread \in Threads
      BY <1>1, <2>1 DEF TypeOK, Working
    <2>6. j \in DOMAIN w.runs /\ j # 0 /\ w.turns[n].run = j /\ w.runs[j].thread = w.turns[n].thread
          /\ (w.runs[j].finished => Goes(w, j))
      BY <1>1, <1>2, <2>2, <2>4, <2>5, Zenon DEF HasRun, OwnRuns
    <2>7. w.runs[j].finished => Goes(v, j)
      <3> SUFFICES ASSUME w.runs[j].finished PROVE Goes(v, j)
        OBVIOUS
      <3>1. w.runs[j].task # 0 /\ w.turns[w.runs[j].task].stage \in {"created"} \cup Working
        BY <2>6 DEF Goes
      <3>2. w.runs[j].task # m
        <4> SUFFICES ASSUME w.runs[j].task = m PROVE FALSE
          OBVIOUS
        <4>1. w.turns[m].thread = w.turns[n].thread /\ w.turns[m].stage \notin {"composer", "dispatching"}
          BY <1>1, <1>2, <1>5, <2>6, Zenon DEF OwnRuns
        <4> QED BY <2>1, <2>4, <4>1 DEF Parked
      <3>3. v.runs[j].task = w.runs[j].task /\ v.turns[w.runs[j].task] = w.turns[w.runs[j].task]
        BY <1>2, <2>6, <3>1, <3>2 DEF Parked
      <3> QED BY <3>1, <3>3 DEF Goes
    <2>8. v.runs[j].finished = w.runs[j].finished
      BY <2>6 DEF Parked
    <2> QED BY ONLY <1>a, <2>1, <2>3, <2>4, <2>6, <2>7, <2>8 DEF HasRun
  <1>12. StartersBut(v, {}, {})
    <2> SUFFICES ASSUME NEW r \in Threads, NEW j, j = w.current[r], j # 0,
                        v.runs[j].pending # <<>> \/ v.runs[j].drain
                 PROVE  StarterBut(v, j, {})
      BY DEF StartersBut, Parked
    <2>1. j \in DOMAIN w.runs
      BY <1>2, SMTT(40)
    <2>2. StarterBut(w, j, {m})
      BY <1>1, <2>1 DEF StartersBut, Parked
    <2>3. v.runs[j].finished = w.runs[j].finished /\ v.runs[j].thread = w.runs[j].thread
      BY <2>1 DEF Parked
    <2> QED BY ONLY <1>b, <2>2, <2>3 DEF StarterBut
  <1> QED BY <1>6, <1>7, <1>8, <1>9, <1>10, <1>11, <1>12, RunsGood DEF Apart, Shape

\* The task of a turn in hand takes its run state and its event.
LEMMA RunsMine ==
  ASSUME NEW w, NEW m \in Messages, NEW t, Apart(w, {m}, {t}), NEW v, Mine(w, v, m)
  PROVE  Apart(v, {m}, {t}) /\ (NewestBut(w, {}) => NewestBut(v, {}))
  <1>1. TypeOK(w) /\ OwnRuns(w) /\ WaitsOnce(w) /\ NewestBut(w, {t})
        /\ LineBut(w, {m}) /\ LockBut(w, {m}) /\ StartersBut(w, {m}, {t})
    BY DEF Apart, Shape
  <1>2. /\ 0 \notin Messages /\ \A a \in DOMAIN w.ready : w.ready[a] \in Messages
        /\ \A j \in DOMAIN w.runs : w.runs[j].task \in {0} \cup Messages
        /\ \A j \in DOMAIN w.runs : \A k \in DOMAIN w.runs[j].pending : w.runs[j].pending[k] \in Messages
    BY <1>1, RunsShape
  <1>a. v.runs = w.runs /\ v.current = w.current /\ v.ready = w.ready
    BY DEF Mine
  <1>3. \A n \in Messages : v.turns[n].thread = w.turns[n].thread /\ v.turns[n].stage = w.turns[n].stage
    BY DEF Mine
  <1>4. TypeOK(v)
    BY <1>1, <1>3 DEF TypeOK, Mine
  <1>5. OwnRuns(v)
    BY <1>1, <1>2, <1>3 DEF OwnRuns, Mine
  <1>6. WaitsOnce(v)
    <2>1. WaitsOnce(w)
      BY <1>1
    <2> QED BY ONLY <1>2, <1>3, <1>a, <2>1 DEF WaitsOnce
  <1>7. \A a \in DOMAIN w.ready : \A j : NamedFrom(w, a, j) => NamedFrom(v, a, j)
    BY ONLY <1>2, <1>3, <1>a DEF NamedFrom
  <1>8. \A free : NewestBut(w, free) => NewestBut(v, free)
    BY ONLY <1>2, <1>3, <1>7, <1>a DEF NewestBut
  <1>9. LineBut(v, {m})
    BY <1>1, <1>3 DEF LineBut, Mine
  <1>10. LockBut(v, {m})
    <2> SUFFICES ASSUME NEW n \in Messages, n # m, v.turns[n].stage \in Working
                 PROVE  Alone(v, n, {m}) /\ HasRun(v, n)
      BY DEF LockBut
    <2>1. Alone(w, n, {m}) /\ HasRun(w, n)
      BY <1>1 DEF LockBut, Mine
    <2>2. \A j \in DOMAIN w.runs : Goes(w, j) => Goes(v, j)
      BY <1>2, <1>3 DEF Goes, Mine
    <2>3. w.turns[n].thread \in Threads
      BY <1>1 DEF TypeOK, Working, Mine
    <2>4. w.current[w.turns[n].thread] # 0 => w.current[w.turns[n].thread] \in DOMAIN w.runs
      BY <1>1, <2>3, RunsShape
    <2>5. Alone(v, n, {m})
      BY <1>3, <2>1 DEF Alone
    <2> QED BY <2>1, <2>2, <2>4, <2>5 DEF HasRun, Mine
  <1>11. StartersBut(v, {m}, {t})
    BY <1>1 DEF StartersBut, StarterBut, Mine
  <1> QED BY <1>4, <1>5, <1>6, <1>8, <1>9, <1>10, <1>11 DEF Apart, Shape

\* A turn in hand holds the lock of its thread.
LEMMA RunsWorks ==
  ASSUME NEW w, NEW m \in Messages, NEW t \in Threads, Apart(w, {m}, {t}), NewestBut(w, {}),
         NEW i \in DOMAIN w.runs, i = w.current[t], t = w.turns[m].thread,
         w.turns[m].stage \in {"created"} \cup Working, NEW v, Works(w, v, m, t, i)
  PROVE  Good(v)
  <1>a. v.current = w.current /\ v.ready = w.ready /\ DOMAIN v.runs = DOMAIN w.runs
    BY Zenon DEF Works
  <1>b. \A n \in Messages : n # m => v.turns[n] = w.turns[n]
    BY Zenon DEF Works
  <1>c. v.turns[m].thread = t
    BY Zenon DEF Works
  <1>1. TypeOK(w) /\ OwnRuns(w) /\ WaitsOnce(w)
        /\ LineBut(w, {m}) /\ LockBut(w, {m}) /\ StartersBut(w, {m}, {t})
    BY Zenon DEF Apart, Shape
  <1>2. /\ 0 \notin DOMAIN w.runs /\ 0 \notin Messages
        /\ \A r \in Threads : w.current[r] # 0 => w.current[r] \in DOMAIN w.runs
        /\ \A a \in DOMAIN w.ready : w.ready[a] \in Messages
        /\ \A j \in DOMAIN w.runs : w.runs[j].task \in {0} \cup Messages
        /\ \A j \in DOMAIN w.runs : \A k \in DOMAIN w.runs[j].pending : w.runs[j].pending[k] \in Messages
    BY ONLY <1>1, RunsShape
  <1>3. v.turns[m].stage \notin Unbegun \cup {"composer", "dispatching", "pending", "dropped", "lost"}
        /\ w.turns[m].stage \notin {"composer", "dispatching", "pending", "dropped", "lost"}
    BY Zenon DEF Working, Unbegun, Works
  <1>4. \A a \in DOMAIN w.ready : w.ready[a] # m /\ v.turns[w.ready[a]] = w.turns[w.ready[a]]
    BY <1>1, <1>2, Zenon DEF LineBut, Works
  <1>5. \A j \in DOMAIN w.runs : /\ v.runs[j].thread = w.runs[j].thread /\ v.runs[j].task = w.runs[j].task
                                 /\ v.runs[j].pending = w.runs[j].pending
                                 /\ v.runs[j].finished => w.runs[j].finished
    BY Zenon DEF Works
  <1>6. TypeOK(v)
    <2>1. \A n \in Messages : v.turns[n].stage # "composer" => v.turns[n].thread \in Threads
      BY ONLY <1>1, <1>b, <1>c, t \in Threads DEF TypeOK
    <2>2. \A n \in Messages : v.turns[n].stage = "dispatching" => v.turns[n].run \in DOMAIN v.runs
      BY <1>1, <1>3, Zenon DEF TypeOK, Works
    <2> QED BY <1>1, <2>1, <2>2, Zenon DEF TypeOK, Works
  <1>7. OwnRuns(v)
    <2>1. \A r \in Threads : v.current[r] # 0 => v.runs[v.current[r]].thread = r
      BY ONLY <1>1, <1>2, <1>5, <1>a DEF OwnRuns
    <2>2. ASSUME NEW j \in DOMAIN v.runs, v.runs[j].task # 0
          PROVE  /\ v.turns[v.runs[j].task].thread = v.runs[j].thread
                 /\ v.turns[v.runs[j].task].stage \in {"created", "over", "dropped"} \cup Working
      <3>1. /\ w.runs[j].task # 0 /\ w.turns[w.runs[j].task].thread = v.runs[j].thread
            /\ w.turns[w.runs[j].task].stage \in {"created", "over", "dropped"} \cup Working
            /\ v.runs[j].task = w.runs[j].task
        BY <1>1, <1>5, <2>2, ZenonT(60) DEF OwnRuns, Works
      <3>2. CASE w.runs[j].task = m
        BY <3>1, <3>2, Zenon DEF Works
      <3>3. CASE w.runs[j].task # m
        BY ONLY <1>2, <1>a, <1>b, <3>1, <3>3, j \in DOMAIN v.runs
      <3> QED BY <3>2, <3>3, Zenon
    <2> QED BY <2>1, <2>2, Zenon DEF OwnRuns
  <1>8. WaitsOnce(v)
    <2>0. (\A j \in DOMAIN w.runs : \A k \in DOMAIN w.runs[j].pending : \A x : x = w.runs[j].pending[k] =>
              /\ v.turns[x].stage \in {"pending", "dropped", "lost"}
              /\ \A l \in DOMAIN w.runs :
                    /\ w.runs[l].task # x
                    /\ \A a \in DOMAIN w.runs[l].pending : w.runs[l].pending[a] = x => j = l /\ k = a)
          => WaitsOnce(v)
      BY ONLY <1>5, <1>a DEF WaitsOnce
    <2> SUFFICES ASSUME NEW j \in DOMAIN w.runs, NEW k \in DOMAIN w.runs[j].pending, NEW x, x = w.runs[j].pending[k]
                 PROVE  /\ v.turns[x].stage \in {"pending", "dropped", "lost"}
                        /\ \A l \in DOMAIN w.runs :
                              /\ w.runs[l].task # x
                              /\ \A a \in DOMAIN w.runs[l].pending : w.runs[l].pending[a] = x => j = l /\ k = a
      BY <2>0, Zenon
    <2>1. WaitsOnce(w)
      BY <1>1, Zenon
    <2>2. /\ w.turns[x].stage \in {"pending", "dropped", "lost"}
          /\ \A l \in DOMAIN w.runs :
                /\ w.runs[l].task # x
                /\ \A a \in DOMAIN w.runs[l].pending : w.runs[l].pending[a] = x => j = l /\ k = a
      BY ONLY <2>1, j \in DOMAIN w.runs, k \in DOMAIN w.runs[j].pending, x = w.runs[j].pending[k]
         DEF WaitsOnce
    <2>3. x # m /\ x \in Messages
      BY <1>2, <1>3, <2>2, Zenon
    <2> QED BY <2>2, <2>3, Zenon DEF Works
  <1>9. NewestBut(v, {})
    <2>0. (\A a \in DOMAIN w.ready : \A r, j :
              /\ r = w.turns[w.ready[a]].thread /\ w.turns[w.ready[a]].stage = "created"
              /\ j = w.current[r] /\ j # 0
              => NamedFrom(v, a, j)) => NewestBut(v, {})
      BY ONLY <1>4, <1>a DEF NewestBut
    <2> SUFFICES ASSUME NEW a \in DOMAIN w.ready, NEW r, r = w.turns[w.ready[a]].thread,
                        w.turns[w.ready[a]].stage = "created", NEW j, j = w.current[r], j # 0
                 PROVE  NamedFrom(v, a, j)
      BY <2>0, Zenon
    <2>1. NamedFrom(w, a, j)
      BY ONLY NewestBut(w, {}), a \in DOMAIN w.ready, r = w.turns[w.ready[a]].thread,
              w.turns[w.ready[a]].stage = "created", j = w.current[r], j # 0 DEF NewestBut
    <2>2. r \in Threads /\ j \in DOMAIN w.runs
      BY <1>1, <1>2, Zenon DEF TypeOK
    <2>3. PICK b \in DOMAIN w.ready : /\ a <= b /\ w.ready[b] = w.runs[j].task
                                      /\ w.turns[w.ready[b]].stage = "created"
      BY <2>1, Zenon DEF NamedFrom
    <2>4. v.runs[j].task = w.runs[j].task /\ v.turns[w.ready[b]] = w.turns[w.ready[b]]
      BY <1>4, <1>5, <2>2, <2>3, Zenon
    <2> QED BY ONLY <1>a, <2>3, <2>4 DEF NamedFrom
  <1>10. LineBut(v, {})
    <2>1. \A n \in Messages : v.turns[n].stage \in Unbegun <=> \E a \in DOMAIN w.ready : w.ready[a] = n
      <3> SUFFICES ASSUME NEW n \in Messages
                   PROVE  v.turns[n].stage \in Unbegun <=> \E a \in DOMAIN w.ready : w.ready[a] = n
        BY Zenon
      <3>1. CASE n = m
        BY <1>3, <1>4, <3>1, Zenon
      <3>2. CASE n # m
        BY <1>1, <3>2, Zenon DEF LineBut, Works
      <3> QED BY <3>1, <3>2, Zenon
    <2> QED BY ONLY <1>1, <1>a, <2>1 DEF LineBut
  <1>11. \A j \in DOMAIN w.runs : Goes(w, j) => Goes(v, j)
    <2> SUFFICES ASSUME NEW j \in DOMAIN w.runs, Goes(w, j) PROVE Goes(v, j)
      BY Zenon
    <2>1. /\ w.runs[j].task # 0 /\ w.turns[w.runs[j].task].stage \in {"created"} \cup Working
          /\ v.runs[j].task = w.runs[j].task
      BY <1>5, Zenon DEF Goes
    <2>2. w.runs[j].task = m \/ v.turns[w.runs[j].task] = w.turns[w.runs[j].task]
      BY <1>2, <2>1, Zenon DEF Works
    <2> QED BY <2>1, <2>2, Zenon DEF Goes, Works
  <1>12. LockBut(v, {})
    <2> SUFFICES ASSUME NEW n \in Messages, v.turns[n].stage \in Working
                 PROVE  Alone(v, n, {}) /\ HasRun(v, n)
      BY Zenon DEF LockBut
    <2>1. CASE n = m
      <3>1. Alone(v, n, {})
        BY <2>1, Zenon DEF Alone, Works
      <3>2. HasRun(v, n)
        BY <1>2, <1>11, <2>1, ZenonT(60) DEF HasRun, Works
      <3> QED BY <3>1, <3>2, Zenon
    <2>2. CASE n # m
      <3>1. v.turns[n] = w.turns[n]
        BY <2>2, Zenon DEF Works
      <3>2. Alone(w, n, {m}) /\ HasRun(w, n)
        BY <1>1, <2>2, <3>1, Zenon DEF LockBut
      <3>3. w.turns[n].thread \in Threads /\ w.turns[n].thread # t
        BY <1>1, <2>2, <3>1, Zenon DEF TypeOK, Working, Works
      <3>4. Alone(v, n, {})
        BY ONLY <1>b, <1>c, <3>1, <3>2, <3>3 DEF Alone
      <3> QED BY <1>2, <1>5, <1>11, <3>1, <3>2, <3>3, <3>4, Zenon DEF HasRun, Works
    <2> QED BY <2>1, <2>2, Zenon
  <1>13. StartersBut(v, {}, {})
    <2> SUFFICES ASSUME NEW r \in Threads, NEW j, j = w.current[r], j # 0,
                        v.runs[j].pending # <<>> \/ v.runs[j].drain
                 PROVE  StarterBut(v, j, {})
      BY Zenon DEF StartersBut, Works
    <2>1. CASE r = t
      BY <2>1, Zenon DEF StarterBut, Works
    <2>2. CASE r # t
      <3>1. j \in DOMAIN w.runs /\ j # i
        BY ONLY <1>1, <1>2, <2>2, r \in Threads, j = w.current[r], j # 0, t \in Threads, i = w.current[t]
           DEF OwnRuns
      <3>2. v.runs[j] = w.runs[j]
        BY <3>1, Zenon DEF Works
      <3>3. StarterBut(w, j, {m})
        BY <1>1, <2>2, <3>2, Zenon DEF StartersBut
      <3> QED BY <3>2, <3>3, ZenonT(60) DEF StarterBut, Works
    <2> QED BY <2>1, <2>2, Zenon
  <1> QED BY <1>6, <1>7, <1>8, <1>9, <1>10, <1>12, <1>13, RunsGood, Zenon DEF Apart, Shape

\* The end of a turn's task, which holds the lock or was refused it.
LEMMA RunsFinally ==
  ASSUME NEW w, NEW m \in Messages, NEW t \in Threads, Apart(w, {m}, {t}), NewestBut(w, {}),
         NEW i, Ending(w, m, t, i)
  PROVE  Good(Finally(w, m))
  <1>1. PICK over \in BOOLEAN : over = (w.runs[i].task # m /\
            w.turns[w.runs[i].task].stage \notin {"created", "running", "closing"})
    BY Zenon
  <1>2. TypeOK(w) /\ OwnRuns(w)
    BY DEF Apart, Shape
  <1>3. /\ w \in Worlds /\ w.runs[i] \in RunStates /\ w.turns[m] \in TurnStates
        /\ w.turns \in [Messages -> TurnStates] /\ w.runs[i].thread = t /\ i # 0
        /\ i \in DOMAIN w.runs /\ w.listed \in {0} \cup DOMAIN w.runs
    BY <1>2, RunsShape, ZenonT(60) DEF OwnRuns, Ending
  <1>4. PICK u : u = IF w.runs[i].drain THEN [w EXCEPT !.runs[i].finished = TRUE] ELSE Complete(w, i, over)
    BY Zenon
  <1>5. Apart(u, {m}, {}) /\ u.turns[m] = w.turns[m]
        /\ \/ u.current[t] # 0 /\ ~u.runs[u.current[t]].finished
           \/ \A n \in Messages : n # m /\ u.turns[n].thread = t => u.turns[n].stage \notin Working
    <2>1. CASE w.runs[i].drain
      <3>1. PICK x : x = [w.runs[i] EXCEPT !.finished = TRUE]
        BY Zenon
      <3>2. /\ x \in RunStates /\ x.thread = w.runs[i].thread /\ x.task = w.runs[i].task
            /\ x.pending = w.runs[i].pending /\ x.finished
        BY <1>3, <3>1, Zenon DEF RunStates
      <3>3. u = [w EXCEPT !.runs[i] = x]
        BY <1>4, <2>1, <3>1
      <3>4. /\ u \in Worlds /\ u.current = w.current /\ u.turns = w.turns /\ u.ready = w.ready
            /\ u.listed = w.listed /\ DOMAIN u.runs = DOMAIN w.runs /\ u.runs[i] = x
            /\ \A j \in DOMAIN w.runs : j # i => u.runs[j] = w.runs[j]
        BY ONLY <1>3, <3>2, <3>3, RunsReplaced
      <3>5. \A n \in Messages \ {m} : w.turns[n].thread = w.runs[i].thread => w.turns[n].stage \notin Working
        BY <1>3, <2>1, SMTT(40) DEF Ending
      <3>6. StarterBut(u, i, {m})
        BY <3>2, <3>4 DEF StarterBut
      <3>7. Apart(u, {m}, {t})
        <4>1. Changed(w, u, i, {m}, {t})
          BY <3>2, <3>4, <3>5, <3>6, Zenon DEF Changed, OneRun
        <4> QED BY <4>1, RunsChanged DEF Ending
      <3>8. NewestBut(u, {})
        <4>1. \A j \in DOMAIN w.runs : u.runs[j].task = w.runs[j].task
          BY <3>2, <3>4
        <4>2. \A a \in DOMAIN w.ready : \A j \in DOMAIN w.runs : NamedFrom(w, a, j) => NamedFrom(u, a, j)
          BY <3>4, <4>1, ZenonT(60) DEF NamedFrom
        <4>3. ASSUME NEW a \in DOMAIN w.ready, w.turns[w.ready[a]].stage = "created"
              PROVE  w.current[w.turns[w.ready[a]].thread] # 0 =>
                         w.current[w.turns[w.ready[a]].thread] \in DOMAIN w.runs
          <5>1. w.ready[a] \in Messages
            BY <1>2, RunsShape, SMTT(40)
          <5>2. w.turns[w.ready[a]].thread \in Threads
            BY <1>2, <4>3, <5>1 DEF TypeOK
          <5>3. \A s \in Threads : w.current[s] # 0 => w.current[s] \in DOMAIN w.runs
            BY ONLY <1>2 DEF TypeOK
          <5> QED BY ONLY <5>2, <5>3, Zenon
        <4> QED BY ONLY <3>4, <4>2, <4>3, NewestBut(w, {}), SMTT(40) DEF NewestBut
      <3>9. Apart(u, {m}, {} \cup {t})
        BY <3>7
      <3>10. Apart(u, {m}, {})
        BY <1>3, <3>4, <3>6, <3>8, <3>9, RunsWhole, ZenonT(60) DEF Ending
      <3> QED BY <1>3, <3>4, <3>5, <3>10
    <2>2. CASE ~w.runs[i].drain
      <3>1. u = Complete(w, i, over)
        BY <1>4, <2>2
      <3>2. over => \A n \in Messages \ {m} : w.turns[n].thread = t => w.turns[n].stage \notin Working
        BY <1>1, Zenon DEF Ending
      <3>3. Apart(w, {m}, {} \cup {t}) /\ Shown(w, t, i, {m}, over)
        BY <2>2, <3>2 DEF Shown, Ending
      <3>4. /\ Apart(u, {m}, {}) /\ u.turns[m] = w.turns[m] /\ u.current[t] \in {0, i}
            /\ (u.current[t] = 0 => over) /\ ~u.runs[i].finished
        BY ONLY <3>1, <3>3, NewestBut(w, {}), t \in Threads, RunsComplete, SMTT(40)
      <3>5. CASE u.current[t] = i
        BY <1>3, <3>4, <3>5, SMTT(40)
      <3>6. CASE u.current[t] = 0
        <4>1. over
          BY <3>4, <3>6, SMTT(40)
        <4>2. ASSUME NEW n \in Messages, n # m, u.turns[n].thread = t, u.turns[n].stage \in Working
              PROVE  FALSE
          <5>1. HasRun(u, n)
            BY <3>4, <4>2, SMTT(40) DEF Apart, LockBut
          <5> QED BY <3>6, <4>2, <5>1 DEF HasRun
        <4> QED BY <3>4, <4>2
      <3> QED BY <3>4, <3>5, <3>6, Zenon
    <2> QED BY <2>1, <2>2, Zenon
  <1>6. TypeOK(u)
    BY <1>5, SMTT(40) DEF Apart, Shape
  <1>7. u \in Worlds /\ u.turns \in [Messages -> TurnStates]
    BY <1>6, RunsShape
  <1>8. PICK y : y = [u.turns[m] EXCEPT !.stage = "over", !.run = 0, !.event = 0]
    OBVIOUS
  <1>9. y \in TurnStates /\ y.thread = t /\ y.stage = "over"
    BY <1>3, <1>5, <1>8, Zenon DEF TurnStates, TurnStages, Ending
  <1>10. PICK later : later = [u.turns EXCEPT ![m] = y]
    OBVIOUS
  <1>11. later \in [Messages -> TurnStates] /\ later[m] = y
         /\ \A n \in Messages : n # m => later[n] = u.turns[n]
    BY <1>7, <1>9, <1>10
  <1>12. PICK v : v = [u EXCEPT !.turns = later]
    OBVIOUS
  <1>13. v \in Worlds /\ v.runs = u.runs /\ v.current = u.current /\ v.ready = u.ready
         /\ v.listed = u.listed /\ v.turns = later
    BY <1>7, <1>11, <1>12 DEF Worlds
  <1>14. u.turns[m].stage \notin {"pending", "dropped", "lost"}
    BY <1>5 DEF Working, Ending
  <1>15. Good(v)
    <2>1. Parked(u, v, m, t)
      BY <1>5, <1>9, <1>11, <1>13, <1>14, Zenon DEF Parked, Ending
    <2> QED BY <1>5, <2>1, RunsParked
  <1>16. v = Finally(w, m)
    BY <1>1, <1>4, <1>8, <1>10, <1>12, Zenon DEF Finally, Ending
  <1> QED BY <1>15, <1>16

\* A message waits behind a run that is busy.
LEMMA RunsQueue ==
  ASSUME NEW w, Good(w), NEW m \in Messages, w.turns[m].stage = "composer", NEW t \in Threads,
         w.current[t] # 0, StarterIn(w, w.current[t])
  PROVE  Good(Queue(w, m, t))
  <1>1. PICK i : i = w.current[t]
    OBVIOUS
  <1>2. /\ TypeOK(w) /\ OwnRuns(w) /\ WaitsOnce(w) /\ NewestBut(w, {})
        /\ LineBut(w, {}) /\ LockBut(w, {}) /\ StartersBut(w, {}, {}) /\ Shape(w)
    BY RunsGood DEF Apart, Shape
  <1>3. /\ w \in Worlds /\ i \in DOMAIN w.runs /\ w.runs[i] \in RunStates
        /\ w.runs[i].pending \in Seq(Messages) /\ w.turns[m] \in TurnStates
        /\ w.turns \in [Messages -> TurnStates]
        /\ 0 \notin DOMAIN w.runs /\ 0 \notin Messages
        /\ \A r \in Threads : w.current[r] # 0 => w.current[r] \in DOMAIN w.runs
        /\ \A a \in DOMAIN w.ready : w.ready[a] \in Messages
        /\ \A j \in DOMAIN w.runs : w.runs[j].task \in {0} \cup Messages
        /\ \A j \in DOMAIN w.runs : \A k \in DOMAIN w.runs[j].pending : w.runs[j].pending[k] \in Messages
    BY <1>1, <1>2, RunsShape
  <1>4. PICK x : x = [w.runs[i] EXCEPT !.pending = Append(@, m)]
    OBVIOUS
  <1>5. PICK queue : queue = w.runs[i].pending
    OBVIOUS
  <1>6. PICK e : e = Len(queue) + 1
    OBVIOUS
  <1>7. /\ Append(queue, m) \in Seq(Messages) /\ DOMAIN Append(queue, m) = DOMAIN queue \cup {e}
        /\ e \notin DOMAIN queue /\ Append(queue, m)[e] = m
        /\ \A k \in DOMAIN queue : Append(queue, m)[k] = queue[k]
    BY <1>3, <1>5, <1>6
  <1>8. /\ x \in RunStates /\ x.thread = w.runs[i].thread /\ x.task = w.runs[i].task
        /\ x.pending = Append(queue, m) /\ x.drain = w.runs[i].drain /\ x.finished = w.runs[i].finished
    BY <1>3, <1>4, <1>5, <1>7 DEF RunStates
  <1>9. PICK u : u = [w EXCEPT !.runs[i] = x]
    OBVIOUS
  <1>10. /\ u \in Worlds /\ u.current = w.current /\ u.turns = w.turns /\ u.ready = w.ready
         /\ u.listed = w.listed /\ DOMAIN u.runs = DOMAIN w.runs /\ u.runs[i] = x
         /\ \A j \in DOMAIN w.runs : j # i => u.runs[j] = w.runs[j]
    BY <1>3, <1>8, <1>9, RunsReplaced
  <1>11. PICK y : y = [w.turns[m] EXCEPT !.thread = t, !.stage = "pending"]
    OBVIOUS
  <1>12. y \in TurnStates /\ y.thread = t /\ y.stage = "pending"
    BY <1>3, <1>11 DEF TurnStates, TurnStages
  <1>13. PICK later : later = [w.turns EXCEPT ![m] = y]
    OBVIOUS
  <1>14. later \in [Messages -> TurnStates] /\ later[m] = y
         /\ \A n \in Messages : n # m => later[n] = w.turns[n]
    BY <1>3, <1>12, <1>13
  <1>15. PICK v : v = [u EXCEPT !.turns = later]
    OBVIOUS
  <1>16. v \in Worlds /\ v.runs = u.runs /\ v.current = w.current /\ v.ready = w.ready
         /\ v.listed = w.listed /\ v.turns = later
    BY <1>10, <1>14, <1>15 DEF Worlds
  <1>17. v = Queue(w, m, t)
    BY <1>1, <1>4, <1>9, <1>10, <1>11, <1>13, <1>15 DEF Queue
  <1>18. \A j \in DOMAIN w.runs : /\ v.runs[j].thread = w.runs[j].thread /\ v.runs[j].task = w.runs[j].task
                                  /\ v.runs[j].drain = w.runs[j].drain /\ v.runs[j].finished = w.runs[j].finished
    BY <1>8, <1>10, <1>16
  <1>19. Loose(w, m)
    BY <1>2, RunsLoose
  <1>20. \A n \in Messages : /\ v.turns[n].stage \in Working \cup Unbegun => n # m /\ v.turns[n] = w.turns[n]
                             /\ w.turns[n].stage \in Working \cup Unbegun => n # m /\ v.turns[n] = w.turns[n]
    BY <1>12, <1>14, <1>16 DEF Working, Unbegun
  <1>21. \A j \in DOMAIN w.runs : w.runs[j].task # 0 => v.turns[w.runs[j].task] = w.turns[w.runs[j].task]
    BY <1>3, <1>14, <1>16, <1>19 DEF Loose
  <1>22. TypeOK(v)
    <2>1. \A n \in Messages : v.turns[n].stage # "composer" => v.turns[n].thread \in Threads
      BY <1>2, <1>12, <1>14, <1>16 DEF TypeOK
    <2>2. \A n \in Messages : v.turns[n].stage = "dispatching" => v.turns[n].run \in DOMAIN v.runs
      BY <1>2, <1>10, <1>12, <1>14, <1>16 DEF TypeOK
    <2> QED BY <1>2, <1>10, <1>16, <2>1, <2>2 DEF TypeOK
  <1>23. OwnRuns(v)
    <2>1. \A r \in Threads : v.current[r] # 0 => v.runs[v.current[r]].thread = r
      BY <1>2, <1>3, <1>16, <1>18 DEF OwnRuns
    <2>2. \A j \in DOMAIN w.runs : v.runs[j].task # 0 =>
              /\ v.turns[v.runs[j].task].thread = v.runs[j].thread
              /\ v.turns[v.runs[j].task].stage \in {"created", "over", "dropped"} \cup Working
      BY <1>2, <1>18, <1>21 DEF OwnRuns
    <2> QED BY <1>10, <1>16, <2>1, <2>2 DEF OwnRuns
  <1>24. WaitsOnce(v)
    <2>1. \A l \in DOMAIN w.runs : \A a \in DOMAIN v.runs[l].pending :
             \/ a \in DOMAIN w.runs[l].pending /\ v.runs[l].pending[a] = w.runs[l].pending[a]
             \/ l = i /\ a = e /\ v.runs[l].pending[a] = m
      BY <1>5, <1>7, <1>8, <1>10, <1>16, SMTT(40)
    <2> SUFFICES ASSUME NEW j \in DOMAIN w.runs, NEW k \in DOMAIN v.runs[j].pending, NEW z, z = v.runs[j].pending[k]
                 PROVE  /\ v.turns[z].stage \in {"pending", "dropped", "lost"}
                        /\ \A l \in DOMAIN w.runs :
                              /\ v.runs[l].task # z
                              /\ \A a \in DOMAIN v.runs[l].pending : v.runs[l].pending[a] = z => j = l /\ k = a
      BY <1>10, <1>16 DEF WaitsOnce
    <2>2. \A l \in DOMAIN w.runs :
              w.runs[l].task # m /\ \A a \in DOMAIN w.runs[l].pending : w.runs[l].pending[a] # m
      BY <1>19 DEF Loose
    <2>3. CASE k \in DOMAIN w.runs[j].pending /\ z = w.runs[j].pending[k]
      <3>1. z \in Messages /\ z # m
        BY <1>3, <2>2, <2>3
      <3>2. WaitsOnce(w)
        BY <1>2
      <3>3. /\ w.turns[z].stage \in {"pending", "dropped", "lost"}
            /\ \A l \in DOMAIN w.runs :
                  /\ w.runs[l].task # z
                  /\ \A a \in DOMAIN w.runs[l].pending : w.runs[l].pending[a] = z => j = l /\ k = a
        BY ONLY <2>3, <3>2, j \in DOMAIN w.runs DEF WaitsOnce
      <3>4. v.turns[z] = w.turns[z]
        BY <1>14, <1>16, <3>1
      <3> QED BY <1>18, <2>1, <3>1, <3>3, <3>4
    <2>4. CASE j = i /\ k = e /\ z = m
      <3>1. v.turns[z].stage = "pending"
        BY <1>12, <1>14, <1>16, <2>4
      <3> QED BY <1>18, <2>1, <2>2, <2>4, <3>1
    <2> QED BY <2>1, <2>3, <2>4
  <1>25. NewestBut(v, {})
    <2> SUFFICES ASSUME NEW a \in DOMAIN w.ready, NEW r, r = v.turns[w.ready[a]].thread,
                        v.turns[w.ready[a]].stage = "created", NEW j, j = w.current[r], j # 0
                 PROVE  NamedFrom(v, a, j)
      BY <1>16 DEF NewestBut
    <2>1. v.turns[w.ready[a]] = w.turns[w.ready[a]]
      BY <1>3, <1>20 DEF Unbegun
    <2>2. NamedFrom(w, a, j)
      BY <1>2, <2>1 DEF NewestBut
    <2>3. j \in DOMAIN w.runs
      BY <1>2, <1>3, <2>1 DEF TypeOK
    <2>4. PICK b \in DOMAIN w.ready : /\ a <= b /\ w.ready[b] = w.runs[j].task
                                      /\ w.turns[w.ready[b]].stage = "created"
      BY <2>2, Zenon DEF NamedFrom
    <2>5. v.runs[j].task = w.runs[j].task /\ v.turns[w.ready[b]] = w.turns[w.ready[b]] /\ v.ready = w.ready
      BY <1>3, <1>16, <1>18, <1>20, <2>3, <2>4, Zenon DEF Unbegun
    <2> QED BY ONLY <2>4, <2>5 DEF NamedFrom
  <1>26. LineBut(v, {})
    BY <1>2, <1>16, <1>20 DEF LineBut
  <1>27. LockBut(v, {})
    <2> SUFFICES ASSUME NEW n \in Messages, v.turns[n].stage \in Working
                 PROVE  Alone(v, n, {}) /\ HasRun(v, n)
      BY DEF LockBut
    <2>1. v.turns[n] = w.turns[n]
      BY <1>20
    <2>2. Alone(w, n, {}) /\ HasRun(w, n)
      BY <1>2, <2>1 DEF LockBut
    <2>3. w.turns[n].thread \in Threads
      BY <1>2, <2>1 DEF TypeOK, Working
    <2>4. Alone(v, n, {})
      BY <1>20, <2>1, <2>2 DEF Alone
    <2>5. \A j \in DOMAIN w.runs : Goes(w, j) => Goes(v, j)
      BY <1>18, <1>21 DEF Goes
    <2> QED BY <1>3, <1>16, <1>18, <2>1, <2>2, <2>3, <2>4, <2>5 DEF HasRun
  <1>28. \A j \in DOMAIN w.runs : StarterIn(w, j) => StarterBut(v, j, {})
    BY <1>18, <1>20 DEF StarterIn, StarterBut
  <1>29. StartersBut(v, {}, {})
    <2> SUFFICES ASSUME NEW r \in Threads, NEW j, j = w.current[r], j # 0,
                        v.runs[j].pending # <<>> \/ v.runs[j].drain
                 PROVE  StarterBut(v, j, {})
      BY <1>16 DEF StartersBut
    <2>1. j \in DOMAIN w.runs
      BY <1>3
    <2>2. CASE j = i
      BY <1>1, <1>28, <2>1, <2>2
    <2>3. CASE j # i
      <3>1. v.runs[j] = w.runs[j]
        BY <1>10, <1>16, <2>1, <2>3
      <3>2. StarterIn(w, j)
        BY <3>1 DEF Good, HasStarter
      <3> QED BY <1>28, <2>1, <3>2
    <2> QED BY <2>2, <2>3
  <1>30. Good(v)
    BY <1>22, <1>23, <1>24, <1>25, <1>26, <1>27, <1>29, RunsGood DEF Apart, Shape
  <1> QED BY <1>17, <1>30

\* The world as the variables have it.
LEMMA RunsWorld ==
  /\ World.runs = runs /\ World.current = current /\ World.turns = turns
  /\ World.ready = ready /\ World.listed = listed
  BY DEF World

\* What is committed is the next world.
LEMMA RunsKept ==
  ASSUME NEW v, Good(v), Commit(v), attached' \in Threads \cup {None}, view' \in Views
  PROVE  Inv'
  <1>1. v \in Worlds
    BY DEF Good, TypeOK
  <1>2. v = [runs |-> v.runs, current |-> v.current, turns |-> v.turns, ready |-> v.ready, listed |-> v.listed]
    BY <1>1 DEF Worlds
  <1>3. World' = v
    BY <1>2 DEF Commit, World
  <1>4. Good(World')
    BY <1>3
  <1> QED BY <1>4 DEF Inv

\* A turn that has no place in line is taken in hand.
LEMMA RunsHeld ==
  ASSUME NEW w, Good(w), NEW m \in Messages, w.turns[m].stage \notin Unbegun, NEW free,
         w.turns[m].stage \in Working => w.turns[m].thread \in free
  PROVE  Apart(w, {m}, free) /\ NewestBut(w, {})
  <1>1. Apart(w, {}, {})
    BY RunsGood
  <1>2. Apart(w, {} \cup {m}, free)
    BY <1>1, RunsTaken
  <1> QED BY <1>1, <1>2 DEF Apart

\* Behind a busy run something comes to the queue.
LEMMA RunsBusy ==
  ASSUME Inv, NEW w, w = World, NEW t \in Threads, current[t] # 0, Busy(Run(t))
  PROVE  StarterIn(w, current[t])
  <1>1. Good(w) /\ w.runs = runs /\ w.current = current /\ w.turns = turns
    BY RunsWorld DEF Inv
  <1>2. TypeOK(w) /\ OwnRuns(w) /\ LockBut(w, {}) /\ StartersBut(w, {}, {})
    BY <1>1, RunsGood DEF Apart, Shape
  <1>3. PICK i \in DOMAIN w.runs : i = current[t]
    BY <1>1, <1>2, RunsShape
  <1>4. w.runs[i].thread = t /\ i # 0 /\ w.runs[i].task \in {0} \cup Messages
    BY <1>1, <1>2, <1>3, RunsShape DEF OwnRuns
  <1>5. CASE w.runs[i].drain
    BY <1>1, <1>3, <1>5 DEF Good, HasStarter
  <1>6. CASE ~w.runs[i].drain
    <2>1. PICK m : m = w.runs[i].task
      OBVIOUS
    <2>2. m \in Messages /\ w.turns[m].stage \in {"created", "running", "closing"}
      BY <1>1, <1>3, <1>4, <1>6, <2>1 DEF Busy, Active, Running, Run
    <2>3. w.turns[m].thread = t
      BY <1>2, <1>4, <2>1, <2>2, RunsShape DEF OwnRuns
    <2>4. CASE w.turns[m].stage = "created"
      BY <1>3, <1>4, <2>2, <2>3, <2>4 DEF StarterIn, Unbegun
    <2>5. CASE w.turns[m].stage # "created"
      <3>1. w.turns[m].stage \in Working
        BY <2>2, <2>5 DEF Working
      <3>2. w.turns[m].run = i
        BY <1>1, <1>2, <1>3, <2>2, <2>3, <3>1 DEF LockBut, HasRun
      <3> QED BY <1>3, <2>2, <3>1, <3>2 DEF StarterIn
    <2> QED BY <2>4, <2>5
  <1> QED BY <1>5, <1>6

\* A message is sent.
LEMMA RunsSubmit ==
  ASSUME Inv, NEW m \in Messages, Submit(m)
  PROVE  Inv'
  <1>1. PICK w : w = World
    OBVIOUS
  <1>2. Good(w) /\ w.current = current /\ w.turns = turns
        /\ attached \in Threads \cup {None} /\ view \in Views
    BY <1>1, RunsWorld DEF Inv
  <1>3. w.turns[m].stage = "composer" /\ view' = view
    BY <1>2 DEF Submit, Unsent
  <1>4. w.turns[m].stage \notin Unbegun \cup Working /\ Loose(w, m)
    <2>1. Shape(w)
      BY <1>2 DEF Good, Shape
    <2> QED BY <1>3, <2>1, RunsLoose DEF Unbegun, Working
  <1>5. \A t \in Threads : Good(Start(w, m, t))
    <2> SUFFICES ASSUME NEW t \in Threads PROVE Good(Start(w, m, t))
      OBVIOUS
    <2>1. Apart(w, {m}, {t})
      BY <1>2, <1>4, RunsHeld
    <2> QED BY <1>4, <2>1, RunsStart
  <1>6. CASE attached = None
    <2>1. PICK t \in Threads : attached' = t /\ Commit(Sync(Start(w, m, t), t))
      BY <1>1, <1>6 DEF Submit
    <2>2. PICK v : v = Sync(Start(w, m, t), t)
      OBVIOUS
    <2>3. Good(v)
      BY <1>5, <2>2, RunsSync
    <2> QED BY <1>2, <1>3, <2>1, <2>2, <2>3, RunsKept
  <1>7. CASE attached # None
    <2>1. attached \in Threads /\ attached' = attached
      BY <1>2, <1>7 DEF Submit
    <2>2. PICK t \in Threads : t = attached
      BY <2>1
    <2>3. CASE Has(t) /\ Busy(Run(t))
      <3>1. StarterIn(w, w.current[t]) /\ w.current[t] # 0
        BY <1>1, <1>2, <2>3, RunsBusy DEF Has
      <3>2. PICK v : v = Sync(Queue(w, m, t), t)
        OBVIOUS
      <3>3. Good(v)
        BY <1>2, <1>3, <3>1, <3>2, RunsQueue, RunsSync
      <3>4. Commit(v)
        BY <1>1, <1>7, <2>2, <2>3, <3>2 DEF Submit
      <3> QED BY <1>2, <1>3, <2>1, <3>3, <3>4, RunsKept
    <2>4. CASE ~(Has(t) /\ Busy(Run(t)))
      <3>1. PICK v : v = Start(w, m, t)
        OBVIOUS
      <3>2. Commit(v)
        BY <1>1, <1>7, <2>2, <2>4, <3>1 DEF Submit
      <3> QED BY <1>2, <1>3, <1>5, <2>1, <3>1, <3>2, RunsKept
    <2> QED BY <2>3, <2>4
  <1> QED BY <1>6, <1>7

\* A message is sent to a thread of the agent view.
LEMMA RunsReply ==
  ASSUME Inv, NEW m \in Messages, NEW t \in Threads, Reply(m, t)
  PROVE  Inv'
  <1>1. PICK w : w = World
    OBVIOUS
  <1>2. Good(w) /\ w.current = current /\ w.turns = turns
        /\ attached \in Threads \cup {None} /\ view \in Views
    BY <1>1, RunsWorld DEF Inv
  <1>3. w.turns[m].stage = "composer" /\ view' = view /\ attached' = attached
    BY <1>2 DEF Reply, Unsent, Rest
  <1>4. w.turns[m].stage \notin Unbegun \cup Working /\ Loose(w, m)
    <2>1. Shape(w)
      BY <1>2 DEF Good, Shape
    <2> QED BY <1>3, <2>1, RunsLoose DEF Unbegun, Working
  <1>5. CASE Has(t) /\ Busy(Run(t))
    <2>1. StarterIn(w, w.current[t]) /\ w.current[t] # 0
      BY <1>1, <1>2, <1>5, RunsBusy DEF Has
    <2>2. PICK v : v = Queue(w, m, t)
      OBVIOUS
    <2>3. Good(v) /\ Commit(v)
      BY <1>1, <1>2, <1>3, <1>5, <2>1, <2>2, RunsQueue DEF Reply
    <2> QED BY <1>2, <1>3, <2>3, RunsKept
  <1>6. CASE ~(Has(t) /\ Busy(Run(t)))
    <2>1. Apart(w, {} \cup {m}, {} \cup {t}) /\ NewestBut(w, {}) /\ m \notin {}
      BY <1>2, <1>4, RunsHeld
    <2>2. PICK v : v = Schedule(w, m, t)
      OBVIOUS
    <2>3. Apart(v, {}, {})
      BY <1>4, <2>1, <2>2, RunsSchedule
    <2>4. Good(v) /\ Commit(v)
      BY <1>1, <1>6, <2>2, <2>3, RunsGood DEF Reply
    <2> QED BY <1>2, <1>3, <2>4, RunsKept
  <1> QED BY <1>5, <1>6

\* A new thread is made for a message of the agent view.
LEMMA RunsDispatch ==
  ASSUME None \notin Threads, Inv, NEW m \in Messages, NEW t \in Threads, Dispatch(m, t)
  PROVE  Inv'
  <1>1. PICK w : w = World
    OBVIOUS
  <1>2. Good(w) /\ w.current = current /\ w.turns = turns
        /\ attached \in Threads \cup {None} /\ view \in Views
    BY <1>1, RunsWorld DEF Inv
  <1>3. w.turns[m].stage = "composer" /\ attached' = attached /\ view' \in Views
    <2>1. view' = [view EXCEPT !.rows = @ \cup {t}]
      BY DEF Dispatch
    <2> QED BY <1>2, <2>1 DEF Dispatch, Unsent, Views
  <1>4. w.turns[m].stage \notin Unbegun \cup Working
    BY <1>3 DEF Unbegun, Working
  <1>5. Apart(w, {m}, {})
    BY <1>2, <1>4, RunsHeld
  <1>6. \A n \in Messages : w.turns[n].thread # t
    <2> SUFFICES ASSUME NEW n \in Messages, turns[n].thread = t PROVE FALSE
      BY <1>2
    <2>1. t # None
      OBVIOUS
    <2> QED BY <2>1 DEF Dispatch, Taken
  <1>7. PICK u : u = WithRun(w, t)
    OBVIOUS
  <1>8. Apart(u, {m}, {}) /\ u.current[t] # 0 /\ u.turns = w.turns
    BY <1>5, <1>6, <1>7, RunsWithRun
  <1>9. TypeOK(u)
    BY <1>8 DEF Apart, Shape
  <1>10. /\ u \in Worlds /\ u.current[t] \in DOMAIN u.runs /\ u.turns[m] \in TurnStates
         /\ u.turns \in [Messages -> TurnStates]
         /\ \A j \in DOMAIN u.runs : u.runs[j] \in RunStates /\ j \in Nat
    BY <1>8, <1>9, RunsShape
  <1>11. PICK i \in DOMAIN u.runs : i = u.current[t] /\ i \in Nat
    BY <1>10
  <1>12. PICK x : x = [u.runs[i] EXCEPT !.status = "dispatching"]
    OBVIOUS
  <1>13. /\ x \in RunStates /\ x.thread = u.runs[i].thread /\ x.task = u.runs[i].task
         /\ x.pending = u.runs[i].pending /\ x.drain = u.runs[i].drain /\ x.finished = u.runs[i].finished
    BY <1>10, <1>12 DEF RunStates
  <1>14. PICK z : z = [u EXCEPT !.runs[i] = x]
    OBVIOUS
  <1>15. /\ z \in Worlds /\ z.current = u.current /\ z.turns = u.turns /\ z.ready = u.ready
         /\ z.listed = u.listed /\ DOMAIN z.runs = DOMAIN u.runs /\ z.runs[i] = x
         /\ \A j \in DOMAIN u.runs : j # i => z.runs[j] = u.runs[j]
    BY <1>10, <1>13, <1>14, RunsReplaced
  <1>16. PICK y : y = [u.turns[m] EXCEPT !.thread = t, !.stage = "dispatching", !.run = i]
    OBVIOUS
  <1>17. y \in TurnStates /\ y.thread = t /\ y.stage = "dispatching" /\ y.run = i
    BY <1>10, <1>11, <1>16 DEF TurnStates, TurnStages
  <1>18. PICK later : later = [u.turns EXCEPT ![m] = y]
    OBVIOUS
  <1>19. later \in [Messages -> TurnStates] /\ later[m] = y
         /\ \A n \in Messages : n # m => later[n] = u.turns[n]
    BY <1>10, <1>17, <1>18
  <1>20. PICK v : v = [z EXCEPT !.turns = later]
    OBVIOUS
  <1>21. v \in Worlds /\ v.runs = z.runs /\ v.current = u.current /\ v.ready = u.ready
         /\ v.listed = u.listed /\ v.turns = later
    BY <1>15, <1>19, <1>20 DEF Worlds
  <1>22. Good(v)
    <2>1. Parked(u, v, m, u.turns[m].thread)
      BY <1>3, <1>8, <1>13, <1>15, <1>17, <1>19, <1>21 DEF Parked
    <2> QED BY <1>8, <2>1, RunsParked
  <1>23. Commit(v)
    BY <1>1, <1>7, <1>11, <1>12, <1>14, <1>15, <1>16, <1>18, <1>20 DEF Dispatch
  <1> QED BY <1>2, <1>3, <1>22, <1>23, RunsKept

\* The worktree of a new thread is made: its turn starts.
LEMMA RunsDispatched ==
  ASSUME Inv, NEW m \in Messages, Dispatched(m)
  PROVE  Inv'
  <1>1. PICK w : w = World
    OBVIOUS
  <1>2. Good(w) /\ w.current = current /\ w.turns = turns
        /\ attached \in Threads \cup {None} /\ view \in Views
    BY <1>1, RunsWorld DEF Inv
  <1>3. w.turns[m].stage = "dispatching" /\ view' = view /\ attached' = attached
    BY <1>2 DEF Dispatched, Rest
  <1>4. w.turns[m].stage \notin Unbegun \cup Working /\ Loose(w, m) /\ w.turns[m].thread \in Threads
    <2>1. Shape(w)
      BY <1>2 DEF Good, Shape
    <2> QED BY <1>3, <2>1, RunsLoose DEF Unbegun, Working, Shape, TypeOK
  <1>5. PICK t \in Threads : t = w.turns[m].thread
    BY <1>4
  <1>6. Apart(w, {m}, {t})
    BY <1>2, <1>4, RunsHeld
  <1>7. PICK v : v = Start(w, m, t)
    OBVIOUS
  <1>8. Good(v) /\ Commit(v)
    BY <1>1, <1>2, <1>4, <1>5, <1>6, <1>7, RunsStart DEF Dispatched
  <1> QED BY <1>2, <1>3, <1>8, RunsKept

\* The worktree of a new thread cannot be made: its turn is over.
LEMMA RunsDispatchFails ==
  ASSUME Inv, NEW m \in Messages, DispatchFails(m)
  PROVE  Inv'
  <1>1. PICK w : w = World
    OBVIOUS
  <1>2. Good(w) /\ w.current = current /\ w.turns = turns
        /\ attached \in Threads \cup {None} /\ view \in Views
    BY <1>1, RunsWorld DEF Inv
  <1>3. w.turns[m].stage = "dispatching" /\ view' = view /\ attached' = attached
    BY <1>2 DEF DispatchFails, Rest
  <1>4. w.turns[m].stage \notin Unbegun \cup Working
    BY <1>3 DEF Unbegun, Working
  <1>5. Apart(w, {m}, {})
    BY <1>2, <1>4, RunsHeld
  <1>6. TypeOK(w)
    BY <1>2 DEF Good
  <1>7. /\ w \in Worlds /\ w.turns[m] \in TurnStates /\ w.turns \in [Messages -> TurnStates]
        /\ w.turns[m].thread \in Threads /\ w.turns[m].run \in DOMAIN w.runs
        /\ \A j \in DOMAIN w.runs : w.runs[j] \in RunStates
    BY <1>3, <1>6, RunsShape DEF TypeOK
  <1>8. PICK i \in DOMAIN w.runs : i = w.turns[m].run
    BY <1>7
  <1>9. PICK x : x = [w.runs[i] EXCEPT !.status = "failed"]
    OBVIOUS
  <1>10. /\ x \in RunStates /\ x.thread = w.runs[i].thread /\ x.task = w.runs[i].task
         /\ x.pending = w.runs[i].pending /\ x.drain = w.runs[i].drain /\ x.finished = w.runs[i].finished
    BY <1>7, <1>9 DEF RunStates, Ended
  <1>11. PICK z : z = [w EXCEPT !.runs[i] = x]
    OBVIOUS
  <1>12. /\ z \in Worlds /\ z.current = w.current /\ z.turns = w.turns /\ z.ready = w.ready
         /\ z.listed = w.listed /\ DOMAIN z.runs = DOMAIN w.runs /\ z.runs[i] = x
         /\ \A j \in DOMAIN w.runs : j # i => z.runs[j] = w.runs[j]
    BY <1>7, <1>10, <1>11, RunsReplaced
  <1>13. PICK y : y = [w.turns[m] EXCEPT !.run = 0]
    OBVIOUS
  <1>14. y \in TurnStates /\ y.thread = w.turns[m].thread
    BY <1>7, <1>13 DEF TurnStates
  <1>15. PICK later : later = [w.turns EXCEPT ![m] = y]
    OBVIOUS
  <1>16. later \in [Messages -> TurnStates] /\ later[m] = y
         /\ \A n \in Messages : n # m => later[n] = w.turns[n]
    BY <1>7, <1>14, <1>15
  <1>17. PICK u : u = [z EXCEPT !.turns = later]
    OBVIOUS
  <1>18. u \in Worlds /\ u.runs = z.runs /\ u.current = w.current /\ u.ready = w.ready
         /\ u.listed = w.listed /\ u.turns = later
    BY <1>12, <1>16, <1>17 DEF Worlds
  <1>19. PICK v : v = Stages(u, {m}, "over")
    OBVIOUS
  <1>20. "over" \in TurnStages
    BY DEF TurnStages
  <1>21. /\ v \in Worlds /\ v.runs = u.runs /\ v.current = u.current /\ v.ready = u.ready
         /\ v.listed = u.listed /\ v.turns[m].stage = "over" /\ v.turns[m].thread = u.turns[m].thread
         /\ \A n \in Messages : n # m => v.turns[n] = u.turns[n]
    BY <1>18, <1>19, <1>20, RunsStages
  <1>22. Good(v)
    <2>1. Parked(w, v, m, w.turns[m].thread)
      BY <1>3, <1>7, <1>10, <1>12, <1>14, <1>16, <1>18, <1>21 DEF Parked
    <2> QED BY <1>5, <2>1, RunsParked
  <1>23. Commit(v)
    <2>1. u = [w EXCEPT !.runs[i].status = "failed", !.turns[m].run = 0]
      BY <1>9, <1>11, <1>12, <1>13, <1>15, <1>17
    <2> QED BY <1>1, <1>2, <1>8, <1>19, <2>1 DEF DispatchFails
  <1> QED BY <1>2, <1>3, <1>22, <1>23, RunsKept

\* A scheduled task begins: it starts the turn.
LEMMA RunsRunScheduled ==
  ASSUME Inv, NEW m \in Messages, RunScheduled(m)
  PROVE  Inv'
  <1>1. PICK w : w = World
    OBVIOUS
  <1>2. Good(w) /\ w.turns = turns /\ w.ready = ready
        /\ attached \in Threads \cup {None} /\ view \in Views
    BY <1>1, RunsWorld DEF Inv
  <1>3. w.turns[m].stage = "scheduled" /\ w.ready # <<>> /\ m = Head(w.ready)
        /\ view' = view /\ attached' = attached
    BY <1>2 DEF RunScheduled, First, Rest
  <1>4. PICK u : u = [w EXCEPT !.ready = Tail(@)]
    OBVIOUS
  <1>5. w.turns[m].thread \in Threads /\ Apart(u, {m}, {w.turns[m].thread})
    BY <1>2, <1>3, <1>4, RunsFirst
  <1>6. PICK t \in Threads : t = w.turns[m].thread
    BY <1>5
  <1>7. u.turns = w.turns
    <2>1. w \in Worlds
      BY <1>2 DEF Good, TypeOK
    <2> QED BY <1>4, <2>1 DEF Worlds
  <1>8. Loose(u, m)
    <2>1. Shape(u)
      BY <1>5 DEF Apart
    <2> QED BY <1>3, <1>7, <2>1, RunsLoose
  <1>9. PICK v : v = Start(u, m, t)
    OBVIOUS
  <1>10. Good(v)
    BY <1>5, <1>6, <1>8, <1>9, RunsStart
  <1>11. Commit(v)
    BY <1>1, <1>2, <1>4, <1>6, <1>9 DEF RunScheduled, Begun
  <1> QED BY <1>2, <1>3, <1>10, <1>11, RunsKept

\* A run state is told how its turn ends.
LEMMA RunsBroken ==
  ASSUME NEW w, w \in Worlds, NEW i \in DOMAIN w.runs, NEW status \in Ended,
         NEW v, v = Broken(w, i, status)
  PROVE  /\ v \in Worlds /\ v.current = w.current /\ v.turns = w.turns /\ v.ready = w.ready
         /\ v.listed = w.listed /\ DOMAIN v.runs = DOMAIN w.runs
         /\ \A j \in DOMAIN w.runs : j # i => v.runs[j] = w.runs[j]
         /\ v.runs[i].thread = w.runs[i].thread /\ v.runs[i].task = w.runs[i].task
         /\ v.runs[i].pending = w.runs[i].pending /\ ~v.runs[i].drain /\ ~v.runs[i].finished
  <1>1. w.runs[i] \in RunStates
    BY DEF Worlds
  <1>2. PICK x : x = [w.runs[i] EXCEPT !.status = status, !.drain = FALSE, !.finished = FALSE]
    OBVIOUS
  <1>3. /\ x \in RunStates /\ x.thread = w.runs[i].thread /\ x.task = w.runs[i].task
        /\ x.pending = w.runs[i].pending /\ x.drain = FALSE /\ x.finished = FALSE
    BY <1>1, <1>2 DEF RunStates
  <1>4. v = [w EXCEPT !.runs[i] = x]
    BY <1>2 DEF Broken
  <1> QED BY <1>3, <1>4, RunsReplaced

\* A run state is told how its turn in hand ends.
LEMMA RunsBreaks ==
  ASSUME NEW w, NEW m \in Messages, NEW t \in Threads, Apart(w, {m}, {t}), NewestBut(w, {}),
         NEW i \in DOMAIN w.runs, i = w.current[t], NEW status \in Ended
  PROVE  Apart(Broken(w, i, status), {m}, {t}) /\ NewestBut(Broken(w, i, status), {})
  <1>1. TypeOK(w) /\ OwnRuns(w)
    BY DEF Apart, Shape
  <1>2. w \in Worlds /\ i # 0 /\ w.runs[i].thread = t /\ w.listed \in {0} \cup DOMAIN w.runs
    BY <1>1, RunsShape DEF OwnRuns
  <1>3. PICK v : v = Broken(w, i, status)
    OBVIOUS
  <1>4. /\ v \in Worlds /\ v.current = w.current /\ v.turns = w.turns /\ v.ready = w.ready
        /\ v.listed = w.listed /\ DOMAIN v.runs = DOMAIN w.runs
        /\ \A j \in DOMAIN w.runs : j # i => v.runs[j] = w.runs[j]
        /\ v.runs[i].thread = w.runs[i].thread /\ v.runs[i].task = w.runs[i].task
        /\ v.runs[i].pending = w.runs[i].pending /\ ~v.runs[i].drain /\ ~v.runs[i].finished
    BY <1>2, <1>3, RunsBroken
  <1>5. \A r \in Threads \ {t} : w.current[r] # i
    BY ONLY <1>1, <1>2 DEF OwnRuns
  <1>6. Apart(v, {m}, {t})
    <2>1. Changed(w, v, i, {m}, {t})
      BY <1>4, <1>5, SMTT(40) DEF Changed, OneRun
    <2> QED BY <2>1, RunsChanged
  <1>7. NewestBut(v, {})
    <2>1. \A j \in DOMAIN w.runs : v.runs[j].task = w.runs[j].task
      BY <1>4
    <2>2. \A a \in DOMAIN w.ready : \A j \in DOMAIN w.runs : NamedFrom(w, a, j) => NamedFrom(v, a, j)
      BY <1>4, <2>1 DEF NamedFrom
    <2>3. ASSUME NEW a \in DOMAIN w.ready, w.turns[w.ready[a]].stage = "created"
          PROVE  w.current[w.turns[w.ready[a]].thread] # 0 =>
                     w.current[w.turns[w.ready[a]].thread] \in DOMAIN w.runs
      <3>1. w.ready[a] \in Messages
        BY <1>1, RunsShape
      <3>2. w.turns[w.ready[a]].thread \in Threads
        BY <1>1, <2>3, <3>1 DEF TypeOK
      <3> QED BY <1>1, <3>2, RunsShape
    <2> QED BY ONLY <1>4, <2>2, <2>3, NewestBut(w, {}) DEF NewestBut
  <1> QED BY <1>3, <1>6, <1>7

\* A task of a turn begins: it is dropped, refused, or works.
LEMMA RunsBegin ==
  ASSUME Inv, NEW m \in Messages, Begin(m)
  PROVE  Inv'
  <1>1. PICK w : w = World
    OBVIOUS
  <1>2. Good(w) /\ w.turns = turns /\ w.ready = ready /\ w.current = current /\ w.runs = runs
        /\ attached \in Threads \cup {None} /\ view \in Views
    BY <1>1, RunsWorld DEF Inv
  <1>3. w.turns[m].stage = "created" /\ w.ready # <<>> /\ m = Head(w.ready)
        /\ view' = view /\ attached' = attached
    BY <1>2, Zenon DEF Begin, First, Rest
  <1>4. PICK u : u = [w EXCEPT !.ready = Tail(@)]
    OBVIOUS
  <1>5. w.turns[m].thread \in Threads /\ Apart(u, {m}, {w.turns[m].thread}) /\ NewestIsNamed(u)
    BY <1>2, <1>3, <1>4, RunsFirst
  <1>6. PICK t \in Threads : t = w.turns[m].thread
    BY <1>5
  <1>7. TypeOK(w) /\ TypeOK(u) /\ NewestIsNamed(w)
    BY <1>2, <1>5 DEF Good, Apart, Shape
  <1>8. w \in Worlds /\ u.turns = w.turns /\ u.current = w.current /\ u.runs = w.runs /\ u.listed = w.listed
    BY <1>4, <1>7 DEF TypeOK, Worlds
  <1>9. NewestBut(u, {})
    BY <1>5 DEF NewestIsNamed, NewestBut
  <1>10. /\ u \in Worlds /\ u.turns \in [Messages -> TurnStates] /\ u.turns[m] \in TurnStates
         /\ u.current[t] # 0 => u.current[t] \in DOMAIN u.runs
         /\ \A j \in DOMAIN u.runs : u.runs[j] \in RunStates /\ j \in Nat
         /\ w.ready \in Seq(Messages) /\ 0 \notin Messages /\ 0 \notin DOMAIN u.runs
    BY <1>7, RunsShape
  <1>11. PICK i : i = w.current[t]
    OBVIOUS
  <1>12. CASE i = 0
    <2>1. Apart(u, {m}, {} \cup {t})
      BY <1>5, <1>6
    <2>2. Apart(u, {m}, {})
      BY <1>8, <1>9, <1>11, <1>12, <2>1, RunsWhole
    <2>3. PICK v : v = Stages(u, {m}, "dropped")
      OBVIOUS
    <2>4. "dropped" \in TurnStages
      BY DEF TurnStages
    <2>5. /\ v \in Worlds /\ v.runs = u.runs /\ v.current = u.current /\ v.ready = u.ready
          /\ v.listed = u.listed /\ v.turns[m].stage = "dropped" /\ v.turns[m].thread = u.turns[m].thread
          /\ \A n \in Messages : n # m => v.turns[n] = u.turns[n]
      BY <1>10, <2>3, <2>4, RunsStages
    <2>6. ASSUME NEW n \in Messages, n # m, u.turns[n].thread = t, u.turns[n].stage \in Working
          PROVE  FALSE
      <3>1. HasRun(u, n)
        BY <2>2, <2>6 DEF Apart, LockBut
      <3> QED BY <1>8, <1>11, <1>12, <2>6, <3>1 DEF HasRun
    <2>7. Good(v)
      <3>1. Parked(u, v, m, t)
        BY <1>3, <1>6, <1>8, <2>5, <2>6 DEF Parked
      <3> QED BY <2>2, <3>1, RunsParked
    <2>8. Commit(v)
      BY <1>1, <1>2, <1>4, <1>6, <1>11, <1>12, <2>3 DEF Begin, Begun
    <2> QED BY <1>2, <1>3, <2>7, <2>8, RunsKept
  <1>13. CASE i # 0
    <2>1. i \in DOMAIN u.runs /\ i \in Nat /\ i = u.current[t]
      BY <1>8, <1>10, <1>11, <1>13
    <2>2. w.runs[i].task \in Messages /\ w.turns[w.runs[i].task].stage = "created"
      <3>1. 1 \in DOMAIN w.ready /\ w.ready[1] = m
        BY <1>3, <1>10
      <3>2. NamedFrom(w, 1, i)
        BY <1>3, <1>6, <1>7, <1>11, <1>13, <3>1 DEF NewestIsNamed
      <3> QED BY <1>10, <3>2 DEF NamedFrom
    <2>3. PICK y : y = [u.turns[m] EXCEPT !.run = i, !.event = w.runs[i].event]
      OBVIOUS
    <2>4. w.runs[i].event \in Nat
      BY <1>8, <1>10, <2>1 DEF RunStates, Messages
    <2>5. y \in TurnStates /\ y.thread = t /\ y.stage = "created" /\ y.run = i
      BY <1>3, <1>6, <1>8, <1>10, <2>1, <2>3, <2>4, Zenon DEF TurnStates
    <2>6. PICK later : later = [u.turns EXCEPT ![m] = y]
      OBVIOUS
    <2>7. later \in [Messages -> TurnStates] /\ later[m] = y
          /\ \A n \in Messages : n # m => later[n] = u.turns[n]
      BY <1>10, <2>5, <2>6
    <2>8. PICK mine : mine = [u EXCEPT !.turns = later]
      OBVIOUS
    <2>9. mine \in Worlds /\ mine.runs = u.runs /\ mine.current = u.current /\ mine.ready = u.ready
          /\ mine.listed = u.listed /\ mine.turns = later
      BY <1>10, <2>7, <2>8 DEF Worlds
    <2>10. Apart(mine, {m}, {t}) /\ NewestBut(mine, {})
      <3>1. Mine(u, mine, m)
        BY <1>3, <1>6, <1>8, <2>5, <2>7, <2>9 DEF Mine
      <3> QED BY <1>5, <1>6, <1>9, <3>1, RunsMine
    <2>11. mine = [u EXCEPT !.turns[m] = [@ EXCEPT !.run = i, !.event = runs[i].event]]
      BY <1>2, <2>3, <2>6, <2>8
    <2>12. i \in DOMAIN mine.runs /\ i = mine.current[t] /\ t = mine.turns[m].thread
           /\ mine.turns[m].stage = "created" /\ mine.turns[m].run = i
           /\ mine.turns[mine.runs[i].task].stage = "created" /\ mine.runs[i].task \in Messages
      BY <1>8, <2>1, <2>2, <2>5, <2>7, <2>9
    <2>13. CASE Locked(t)
      <3>1. PICK z : z = Broken(mine, i, "failed")
        OBVIOUS
      <3>2. "failed" \in Ended
        BY DEF Ended
      <3>3. Apart(z, {m}, {t}) /\ NewestBut(z, {})
        BY <2>10, <2>12, <3>1, <3>2, RunsBreaks, Zenon
      <3>4. /\ z.current = mine.current /\ z.turns = mine.turns /\ DOMAIN z.runs = DOMAIN mine.runs
            /\ ~z.runs[i].drain /\ z.runs[i].task = mine.runs[i].task
        BY <2>9, <2>12, <3>1, <3>2, RunsBroken, SMTT(40)
      <3>5. PICK v : v = Finally(z, m)
        OBVIOUS
      <3>6. Good(v)
        <4>1. Ending(z, m, t, i)
          BY <2>12, <3>4, Zenon DEF Ending
        <4> QED BY <3>3, <3>5, <4>1, RunsFinally
      <3>7. Commit(v)
        BY <1>1, <1>2, <1>4, <1>6, <1>11, <1>13, <2>11, <2>13, <3>1, <3>5 DEF Begin, Begun
      <3> QED BY <1>2, <1>3, <3>6, <3>7, RunsKept
    <2>14. CASE ~Locked(t)
      <3>1. \A n \in Messages : n # m /\ mine.turns[n].thread = t => mine.turns[n].stage \notin Working
        BY <1>2, <1>8, <2>7, <2>9, <2>14 DEF Locked, Working
      <3>2. Goes(mine, i)
        BY <1>10, <2>12, Zenon DEF Goes
      <3>3. PICK z : z = Stages(mine, {m}, "running")
        OBVIOUS
      <3>4. "running" \in TurnStages /\ "running" \in Working /\ "working" \in {"working", "dispatching"} \cup Ended
        BY DEF TurnStages, Working
      <3>5. /\ z \in Worlds /\ z.runs = mine.runs /\ z.current = mine.current /\ z.ready = mine.ready
            /\ z.listed = mine.listed /\ z.turns[m].stage = "running" /\ z.turns[m].thread = t
            /\ z.turns[m].run = i /\ \A n \in Messages : n # m => z.turns[n] = mine.turns[n]
        BY <2>9, <2>12, <3>3, <3>4, RunsStages
      <3>6. PICK x : x = [z.runs[i] EXCEPT !.status = "working"]
        OBVIOUS
      <3>7. /\ x \in RunStates /\ x.thread = z.runs[i].thread /\ x.task = z.runs[i].task
            /\ x.pending = z.runs[i].pending /\ x.finished = z.runs[i].finished
        BY <1>10, <2>1, <2>9, <3>4, <3>5, <3>6 DEF RunStates
      <3>8. PICK v : v = IF t = attached THEN [z EXCEPT !.runs[i] = x] ELSE z
        OBVIOUS
      <3>9. /\ v \in Worlds /\ v.current = z.current /\ v.turns = z.turns /\ v.ready = z.ready
            /\ v.listed = z.listed /\ DOMAIN v.runs = DOMAIN z.runs /\ v.runs[i] \in {x, z.runs[i]}
            /\ \A j \in DOMAIN z.runs : j # i => v.runs[j] = z.runs[j]
        <4>1. CASE t = attached
          <5>1. v = [z EXCEPT !.runs[i] = x] /\ i \in DOMAIN z.runs
            BY <2>12, <3>5, <3>8, <4>1
          <5> QED BY <3>5, <3>7, <5>1, RunsReplaced
        <4>2. CASE t # attached
          BY <3>5, <3>8, <4>2
        <4> QED BY <4>1, <4>2
      <3>10. Good(v)
        <4>1. Works(mine, v, m, t, i)
          BY <2>12, <3>1, <3>2, <3>4, <3>5, <3>7, <3>9, Zenon DEF Works
        <4> QED BY <2>10, <2>12, <4>1, RunsWorks, Zenon
      <3>11. Commit(v)
        BY <1>1, <1>2, <1>4, <1>6, <1>11, <1>13, <2>11, <2>14, <3>3, <3>6, <3>8, Zenon DEF Begin, Begun
      <3> QED BY <1>2, <1>3, <3>10, <3>11, RunsKept
    <2> QED BY <2>13, <2>14
  <1> QED BY <1>12, <1>13

\* What is known of a turn that works.
LEMMA RunsAtWork ==
  ASSUME NEW w, Good(w), NEW m \in Messages, NEW t, NEW i, HoldsLock(w, m, t, i)
  PROVE  /\ t \in Threads /\ i \in DOMAIN w.runs /\ i = w.turns[m].run
         /\ Apart(w, {m}, {t}) /\ NewestBut(w, {}) /\ (w.runs[i].finished => Goes(w, i))
         /\ \A n \in Messages : n # m /\ w.turns[n].thread = t => w.turns[n].stage \notin Working
  <1>1. w.turns[m].stage \notin Unbegun
    BY DEF Working, Unbegun, HoldsLock
  <1>2. Apart(w, {m}, {t}) /\ NewestBut(w, {})
    BY <1>1, RunsHeld DEF HoldsLock
  <1>3. TypeOK(w) /\ LockBut(w, {})
    BY RunsGood DEF Apart, Shape
  <1>4. Alone(w, m, {}) /\ HasRun(w, m)
    BY <1>3 DEF LockBut, HoldsLock
  <1>5. t \in Threads
    BY <1>3 DEF TypeOK, Working, HoldsLock
  <1>6. i # 0 /\ i = w.turns[m].run /\ (w.runs[i].finished => Goes(w, i))
    BY <1>4 DEF HasRun, HoldsLock
  <1>7. i \in DOMAIN w.runs
    BY <1>3, <1>5, <1>6, RunsShape, ZenonT(60) DEF HoldsLock
  <1>8. \A n \in Messages : n # m /\ w.turns[n].thread = t => w.turns[n].stage \notin Working
    BY <1>4 DEF Alone, HoldsLock
  <1> QED BY <1>2, <1>5, <1>6, <1>7, <1>8

\* The last event of a turn.
LEMMA RunsTerminal ==
  ASSUME Inv, NEW m \in Messages, NEW status \in Ended, Terminal(m, status)
  PROVE  Inv'
  <1>1. PICK w : w = World
    OBVIOUS
  <1>2. Good(w) /\ w.turns = turns /\ w.current = current /\ w.runs = runs
        /\ attached \in Threads \cup {None} /\ view \in Views
    BY <1>1, RunsWorld DEF Inv
  <1>3. w.turns[m].stage = "running" /\ view' = view /\ attached' = attached /\ w.turns[m].stage \in Working
    BY <1>2 DEF Terminal, Rest, Working
  <1>4. PICK t : t = w.turns[m].thread
    OBVIOUS
  <1>5. PICK i : i = w.current[t]
    OBVIOUS
  <1>6. /\ t \in Threads /\ i \in DOMAIN w.runs /\ i = w.turns[m].run
        /\ Apart(w, {m}, {t}) /\ NewestBut(w, {}) /\ (w.runs[i].finished => Goes(w, i))
        /\ \A n \in Messages : n # m /\ w.turns[n].thread = t => w.turns[n].stage \notin Working
    <2>1. HoldsLock(w, m, t, i)
      BY <1>3, <1>4, <1>5 DEF HoldsLock
    <2> QED BY <1>2, <2>1, RunsAtWork
  <1>7. w \in Worlds /\ i # 0 /\ \A j \in DOMAIN w.runs : w.runs[j] \in RunStates
    <2>1. TypeOK(w)
      BY <1>2 DEF Good
    <2> QED BY <1>6, <2>1, RunsShape
  <1>8. PICK z : z = Stages(w, {m}, "closing")
    OBVIOUS
  <1>9. "closing" \in TurnStages /\ "closing" \in Working
    BY DEF TurnStages, Working
  <1>10. /\ z \in Worlds /\ z.runs = w.runs /\ z.current = w.current /\ z.ready = w.ready
         /\ z.listed = w.listed /\ z.turns[m].stage = "closing" /\ z.turns[m].thread = t
         /\ z.turns[m].run = i /\ \A n \in Messages : n # m => z.turns[n] = w.turns[n]
    BY <1>4, <1>6, <1>7, <1>8, <1>9, RunsStages
  <1>11. PICK x : x = [z.runs[i] EXCEPT !.status = status]
    OBVIOUS
  <1>12. /\ x \in RunStates /\ x.thread = z.runs[i].thread /\ x.task = z.runs[i].task
         /\ x.pending = z.runs[i].pending /\ x.finished = z.runs[i].finished
    BY <1>6, <1>7, <1>10, <1>11 DEF RunStates
  <1>13. PICK v : v = IF status = "completed" THEN [z EXCEPT !.runs[i] = x] ELSE Broken(z, i, status)
    OBVIOUS
  <1>14. /\ v \in Worlds /\ v.current = z.current /\ v.turns = z.turns /\ v.ready = z.ready
         /\ v.listed = z.listed /\ DOMAIN v.runs = DOMAIN z.runs
         /\ \A j \in DOMAIN z.runs : j # i => v.runs[j] = z.runs[j]
         /\ v.runs[i].thread = z.runs[i].thread /\ v.runs[i].task = z.runs[i].task
         /\ v.runs[i].pending = z.runs[i].pending /\ (v.runs[i].finished => z.runs[i].finished)
    <2>1. CASE status = "completed"
      <3>1. v = [z EXCEPT !.runs[i] = x] /\ i \in DOMAIN z.runs
        BY <1>6, <1>10, <1>13, <2>1
      <3>2. /\ v \in Worlds /\ v.current = z.current /\ v.turns = z.turns /\ v.ready = z.ready
            /\ v.listed = z.listed /\ DOMAIN v.runs = DOMAIN z.runs /\ v.runs[i] = x
            /\ \A j \in DOMAIN z.runs : j # i => v.runs[j] = z.runs[j]
        BY <1>10, <1>12, <3>1, RunsReplaced
      <3> QED BY <1>12, <3>2
    <2>2. CASE status # "completed"
      <3>1. v = Broken(z, i, status) /\ i \in DOMAIN z.runs
        BY <1>6, <1>10, <1>13, <2>2
      <3> QED BY <1>10, <3>1, RunsBroken
    <2> QED BY <2>1, <2>2
  <1>15. Good(v)
    <2>1. Works(w, v, m, t, i)
      BY <1>6, <1>9, <1>10, <1>14 DEF Works
    <2> QED BY <1>3, <1>4, <1>5, <1>6, <2>1, RunsWorks
  <1>16. Commit(v)
    <2>1. i = IF t = attached THEN current[t] ELSE turns[m].run
      BY <1>2, <1>5, <1>6
    <2> QED BY <1>1, <1>2, <1>4, <1>7, <1>8, <1>11, <1>13, <2>1 DEF Terminal
  <1> QED BY <1>2, <1>3, <1>15, <1>16, RunsKept

\* A turn's task ends.
LEMMA RunsEnds ==
  ASSUME Inv, NEW m \in Messages, Ends(m)
  PROVE  Inv'
  <1>1. PICK w : w = World
    OBVIOUS
  <1>2. Good(w) /\ w.turns = turns /\ attached \in Threads \cup {None} /\ view \in Views
    BY <1>1, RunsWorld DEF Inv
  <1>3. w.turns[m].stage \in Working /\ view' = view /\ attached' = attached
    BY <1>2 DEF Ends, Rest, Working
  <1>4. PICK t : t = w.turns[m].thread
    OBVIOUS
  <1>5. PICK i : i = w.current[t]
    OBVIOUS
  <1>6. /\ t \in Threads /\ i \in DOMAIN w.runs /\ i = w.turns[m].run
        /\ Apart(w, {m}, {t}) /\ NewestBut(w, {})
        /\ \A n \in Messages : n # m /\ w.turns[n].thread = t => w.turns[n].stage \notin Working
    <2>1. HoldsLock(w, m, t, i)
      BY <1>3, <1>4, <1>5 DEF HoldsLock
    <2> QED BY <1>2, <2>1, RunsAtWork
  <1>7. PICK v : v = Finally(w, m)
    OBVIOUS
  <1>8. Good(v)
    <2>1. Ending(w, m, t, i)
      BY <1>3, <1>4, <1>5, <1>6 DEF Ending
    <2> QED BY <1>6, <1>7, <2>1, RunsFinally
  <1>9. Commit(v)
    BY <1>1, <1>7 DEF Ends
  <1> QED BY <1>2, <1>3, <1>8, <1>9, RunsKept

\* A turn's task ends by an exception.
LEMMA RunsRaises ==
  ASSUME Inv, NEW m \in Messages, Raises(m)
  PROVE  Inv'
  <1>1. PICK w : w = World
    OBVIOUS
  <1>2. Good(w) /\ w.turns = turns /\ attached \in Threads \cup {None} /\ view \in Views
    BY <1>1, RunsWorld DEF Inv
  <1>3. w.turns[m].stage \in Working /\ view' = view /\ attached' = attached
    BY <1>2 DEF Raises, Rest, Working
  <1>4. PICK t : t = w.turns[m].thread
    OBVIOUS
  <1>5. PICK i : i = w.current[t]
    OBVIOUS
  <1>6. /\ t \in Threads /\ i \in DOMAIN w.runs /\ i = w.turns[m].run
        /\ Apart(w, {m}, {t}) /\ NewestBut(w, {})
        /\ \A n \in Messages : n # m /\ w.turns[n].thread = t => w.turns[n].stage \notin Working
    <2>1. HoldsLock(w, m, t, i)
      BY <1>3, <1>4, <1>5 DEF HoldsLock
    <2> QED BY <1>2, <2>1, RunsAtWork
  <1>7. w \in Worlds /\ "failed" \in Ended
    BY <1>2 DEF Good, TypeOK, Ended
  <1>8. PICK z : z = Broken(w, i, "failed")
    OBVIOUS
  <1>9. Apart(z, {m}, {t}) /\ NewestBut(z, {})
    BY <1>5, <1>6, <1>7, <1>8, RunsBreaks
  <1>10. z.current = w.current /\ z.turns = w.turns /\ DOMAIN z.runs = DOMAIN w.runs
    BY <1>6, <1>7, <1>8, RunsBroken
  <1>11. PICK v : v = Finally(z, m)
    OBVIOUS
  <1>12. Good(v)
    <2>1. Ending(z, m, t, i)
      BY <1>3, <1>4, <1>5, <1>6, <1>10 DEF Ending
    <2> QED BY <1>6, <1>9, <1>11, <2>1, RunsFinally
  <1>13. Commit(v)
    BY <1>1, <1>2, <1>6, <1>8, <1>11 DEF Raises
  <1> QED BY <1>2, <1>3, <1>12, <1>13, RunsKept

\* A run state is told something that is not about its thread, task, queue or end.
LEMMA RunsTold ==
  ASSUME NEW w, Good(w), NEW i \in DOMAIN w.runs, NEW x, Told(w, i, x),
         NEW v, v = [w EXCEPT !.runs[i] = x]
  PROVE  /\ Good(v) /\ v.current = w.current /\ v.turns = w.turns /\ v.ready = w.ready
         /\ v.listed = w.listed /\ DOMAIN v.runs = DOMAIN w.runs /\ v.runs[i] = x
         /\ \A j \in DOMAIN w.runs : j # i => v.runs[j] = w.runs[j]
  <1>1. TypeOK(w)
    BY DEF Good
  <1>2. w \in Worlds /\ w.listed \in {0} \cup DOMAIN w.runs /\ 0 \notin DOMAIN w.runs
    BY <1>1, RunsShape
  <1>3. /\ v \in Worlds /\ v.current = w.current /\ v.turns = w.turns /\ v.ready = w.ready
        /\ v.listed = w.listed /\ DOMAIN v.runs = DOMAIN w.runs /\ v.runs[i] = x
        /\ \A j \in DOMAIN w.runs : j # i => v.runs[j] = w.runs[j]
    BY <1>2, RunsReplaced DEF Told
  <1>4. Apart(w, {}, {})
    BY RunsGood
  <1>5. StarterIn(w, i) => StarterBut(v, i, {})
    BY <1>3 DEF StarterIn, StarterBut, Told
  <1>6. \A t \in Threads : w.current[t] = i /\ (x.pending # <<>> \/ x.drain) => StarterIn(w, i)
    BY <1>2 DEF Good, HasStarter, Told
  <1>7. Apart(v, {}, {})
    <2>1. Changed(w, v, i, {}, {})
      BY <1>3, <1>5, <1>6 DEF Changed, OneRun, Told
    <2> QED BY <1>4, <2>1, RunsChanged
  <1> QED BY <1>3, <1>7, RunsGood

\* A thread's run state, if it has one.
LEMMA RunsOf ==
  ASSUME NEW w, Good(w), NEW t \in Threads, w.current[t] # 0
  PROVE  /\ w.current[t] \in DOMAIN w.runs /\ w.runs[w.current[t]] \in RunStates
         /\ w.runs[w.current[t]].thread = t
  <1>1. TypeOK(w) /\ OwnRuns(w)
    BY DEF Good
  <1> QED BY <1>1, RunsShape DEF OwnRuns

\* Text of the answer comes.
LEMMA RunsDelta ==
  ASSUME Inv, NEW m \in Messages, Delta(m)
  PROVE  Inv'
  <1>1. PICK w : w = World
    OBVIOUS
  <1>2. Good(w) /\ w.turns = turns /\ w.current = current
        /\ attached \in Threads \cup {None} /\ view \in Views
    BY <1>1, RunsWorld DEF Inv
  <1>3. w.turns[m].stage \in Working /\ w.turns[m].thread = attached /\ view' = view /\ attached' = attached
    BY <1>2 DEF Delta, Rest, Working
  <1>4. PICK t : t = w.turns[m].thread
    OBVIOUS
  <1>5. PICK i : i = w.current[t]
    OBVIOUS
  <1>6. t \in Threads /\ i \in DOMAIN w.runs /\ i = w.turns[m].run
    <2>1. HoldsLock(w, m, t, i)
      BY <1>3, <1>4, <1>5 DEF HoldsLock
    <2> QED BY <1>2, <2>1, RunsAtWork
  <1>7. w.runs[i] \in RunStates
    <2>1. TypeOK(w)
      BY <1>2 DEF Good
    <2> QED BY <1>6, <2>1, RunsShape
  <1>8. PICK x : x = [w.runs[i] EXCEPT !.drain = TRUE]
    OBVIOUS
  <1>9. /\ x \in RunStates /\ x.thread = w.runs[i].thread /\ x.task = w.runs[i].task
        /\ x.pending = w.runs[i].pending /\ x.finished = w.runs[i].finished
    BY <1>7, <1>8 DEF RunStates
  <1>10. StarterIn(w, i)
    BY <1>3, <1>6 DEF StarterIn
  <1>11. PICK v : v = [w EXCEPT !.runs[i] = x]
    OBVIOUS
  <1>12. Good(v)
    <2>1. Told(w, i, x)
      BY <1>9, <1>10 DEF Told
    <2> QED BY <1>2, <1>6, <1>11, <2>1, RunsTold
  <1>13. Commit(v)
    BY <1>1, <1>2, <1>3, <1>4, <1>5, <1>8, <1>11 DEF Delta
  <1> QED BY <1>2, <1>3, <1>12, <1>13, RunsKept

\* The text that still drained is shown.
LEMMA RunsTick ==
  ASSUME Inv, Tick
  PROVE  Inv'
  <1>1. PICK w : w = World
    OBVIOUS
  <1>2. Good(w) /\ w.turns = turns /\ w.current = current /\ w.runs = runs
        /\ attached \in Threads \cup {None} /\ view \in Views
    BY <1>1, RunsWorld DEF Inv
  <1>3. attached \in Threads /\ w.current[attached] # 0 /\ view' = view /\ attached' = attached
    BY <1>2 DEF Tick, Rest, Has
  <1>4. PICK t \in Threads : t = attached
    BY <1>3
  <1>5. PICK i : i = w.current[t]
    OBVIOUS
  <1>6. i \in DOMAIN w.runs /\ w.runs[i] \in RunStates /\ w.runs[i].thread = t /\ i # 0
    BY <1>2, <1>3, <1>4, <1>5, RunsOf
  <1>7. PICK x : x = [w.runs[i] EXCEPT !.drain = FALSE]
    OBVIOUS
  <1>8. /\ x \in RunStates /\ x.thread = w.runs[i].thread /\ x.task = w.runs[i].task
        /\ x.pending = w.runs[i].pending /\ x.finished = w.runs[i].finished /\ ~x.drain
    BY <1>6, <1>7 DEF RunStates
  <1>9. PICK u : u = [w EXCEPT !.runs[i] = x]
    OBVIOUS
  <1>10. /\ Good(u) /\ u.current = w.current /\ u.turns = w.turns /\ u.ready = w.ready
         /\ u.listed = w.listed /\ DOMAIN u.runs = DOMAIN w.runs /\ u.runs[i] = x
         /\ \A j \in DOMAIN w.runs : j # i => u.runs[j] = w.runs[j]
    <2>1. Told(w, i, x)
      BY <1>8 DEF Told
    <2> QED BY <1>2, <1>6, <1>9, <2>1, RunsTold
  <1>11. PICK over \in BOOLEAN : over = ~Running(runs[i])
    OBVIOUS
  <1>12. PICK v : v = IF w.runs[i].finished THEN Complete(u, i, over) ELSE u
    OBVIOUS
  <1>13. Good(v)
    <2>1. CASE ~w.runs[i].finished
      BY <1>10, <1>12, <2>1
    <2>2. CASE w.runs[i].finished
      <3>1. Apart(u, {}, {})
        BY <1>10, RunsGood
      <3>2. Apart(u, {}, {} \cup {t}) /\ NewestBut(u, {})
        BY <3>1, RunsWeaken DEF Apart
      <3>3. ASSUME over, NEW n \in Messages, u.turns[n].thread = t, u.turns[n].stage \in Working
            PROVE  FALSE
        <4>1. Goes(w, i)
          <5>1. HoldsLock(w, n, t, i)
            BY <1>5, <1>10, <3>3 DEF HoldsLock
          <5> QED BY <1>2, <2>2, <5>1, RunsAtWork
        <4>2. w.runs[i].task # 0 /\ w.turns[w.runs[i].task].stage \in {"created", "running", "closing"}
          BY <4>1 DEF Goes, Working
        <4> QED BY <1>2, <1>11, <3>3, <4>2 DEF Running
      <3>4. v = Complete(u, i, over)
        BY <1>12, <2>2
      <3>5. i \in DOMAIN u.runs /\ i = u.current[t] /\ ~u.runs[i].drain
        BY <1>5, <1>6, <1>8, <1>10
      <3>6. Apart(v, {}, {})
        <4>1. Shown(u, t, i, {}, over)
          BY <3>3, <3>5 DEF Shown
        <4> QED BY <3>2, <3>4, <4>1, RunsComplete
      <3> QED BY <3>6, RunsGood
    <2> QED BY <2>1, <2>2
  <1>14. Commit(v)
    BY <1>1, <1>2, <1>4, <1>5, <1>7, <1>9, <1>11, <1>12 DEF Tick
  <1> QED BY <1>2, <1>3, <1>13, <1>14, RunsKept

\* A run is marked as interrupted.
LEMMA RunsMarked ==
  ASSUME NEW w, Good(w), NEW t \in Threads, NEW v, Marked(w, v, t)
  PROVE  /\ Good(v) /\ v.current = w.current /\ v.turns = w.turns /\ v.ready = w.ready
         /\ v.listed = w.listed /\ \A j \in DOMAIN w.runs : v.runs[j].pending = w.runs[j].pending
         /\ DOMAIN v.runs = DOMAIN w.runs
  <1>1. PICK i : i = w.current[t]
    OBVIOUS
  <1>2. i \in DOMAIN w.runs /\ w.runs[i] \in RunStates
    BY <1>1, RunsOf DEF Marked
  <1>3. PICK x : x = [w.runs[i] EXCEPT !.status = "interrupted"]
    OBVIOUS
  <1>4. /\ x \in RunStates /\ x.thread = w.runs[i].thread /\ x.task = w.runs[i].task
        /\ x.pending = w.runs[i].pending /\ x.finished = w.runs[i].finished /\ x.drain = w.runs[i].drain
    BY <1>2, <1>3 DEF RunStates, Ended
  <1>5. v = [w EXCEPT !.runs[i] = x]
    BY <1>1, <1>3 DEF Marked
  <1>6. /\ Good(v) /\ v.current = w.current /\ v.turns = w.turns /\ v.ready = w.ready
        /\ v.listed = w.listed /\ DOMAIN v.runs = DOMAIN w.runs /\ v.runs[i] = x
        /\ \A j \in DOMAIN w.runs : j # i => v.runs[j] = w.runs[j]
    <2>1. Told(w, i, x)
      BY <1>4 DEF Told
    <2> QED BY ONLY Good(w), <1>2, <1>5, <2>1, RunsTold
  <1>7. \A j \in DOMAIN w.runs : v.runs[j].pending = w.runs[j].pending
    BY ONLY <1>4, <1>6
  <1> QED BY ONLY <1>6, <1>7

\* The user interrupts the turn on the screen, or one of the agent view.
LEMMA RunsInterrupt ==
  ASSUME Inv, NEW t \in Threads, current[t] # 0,
         runs' = [runs EXCEPT ![current[t]].status = "interrupted"],
         UNCHANGED <<current, turns, ready, attached, listed, view>>
  PROVE  Inv'
  <1>1. PICK w : w = World
    OBVIOUS
  <1>2. Good(w) /\ w.turns = turns /\ w.current = current /\ w.runs = runs /\ w.ready = ready
        /\ w.listed = listed /\ attached \in Threads \cup {None} /\ view \in Views
    BY <1>1, RunsWorld DEF Inv
  <1>3. PICK v : v = [w EXCEPT !.runs[w.current[t]].status = "interrupted"]
    OBVIOUS
  <1>4. /\ Good(v) /\ v.current = w.current /\ v.turns = w.turns /\ v.ready = w.ready
        /\ v.listed = w.listed
    <2>1. Marked(w, v, t)
      BY <1>2, <1>3 DEF Marked
    <2> QED BY ONLY <1>2, <2>1, t \in Threads, RunsMarked
  <1>4a. v.runs = [w.runs EXCEPT ![w.current[t]].status = "interrupted"]
    <2>1. w \in Worlds
      BY <1>2 DEF Good, TypeOK
    <2> QED BY <1>3, <2>1 DEF Worlds
  <1>5. Commit(v)
    BY <1>2, <1>4, <1>4a DEF Commit
  <1>6. attached' \in Threads \cup {None} /\ view' \in Views
    BY <1>2
  <1> QED BY <1>4, <1>5, <1>6, RunsKept

\* What waits in a thread's queue is dropped.
LEMMA RunsEmptied ==
  ASSUME NEW w, Good(w), NEW i \in DOMAIN w.runs, NEW v, v = Stages(w, Range(w.runs[i].pending), "dropped")
  PROVE  /\ Good(v) /\ v.runs = w.runs /\ v.current = w.current /\ v.ready = w.ready /\ v.listed = w.listed
         /\ \A n \in Messages :
               \/ v.turns[n] = w.turns[n]
               \/ /\ v.turns[n].stage = "dropped" /\ v.turns[n].thread = w.turns[n].thread
                  /\ w.turns[n].stage \in {"pending", "dropped", "lost"}
  <1>1. w \in Worlds /\ w.listed \in {0} \cup DOMAIN w.runs /\ WaitsOnce(w) /\ "dropped" \in TurnStages
    BY DEF Good, TypeOK, TurnStages
  <1>2. PICK some : some = Range(w.runs[i].pending)
    OBVIOUS
  <1>3. \A n \in some : \E k \in DOMAIN w.runs[i].pending : w.runs[i].pending[k] = n
    BY <1>2 DEF Range
  <1>4. /\ v \in Worlds /\ v.runs = w.runs /\ v.current = w.current /\ v.ready = w.ready
        /\ v.listed = w.listed
        /\ \A n \in Messages :
              /\ n \notin some => v.turns[n] = w.turns[n]
              /\ n \in some => v.turns[n].stage = "dropped" /\ v.turns[n].thread = w.turns[n].thread
    BY <1>1, <1>2, RunsStages
  <1>5. Good(v)
    BY <1>1, <1>3, <1>4, RunsDropped
  <1>6. \A n \in some : w.turns[n].stage \in {"pending", "dropped", "lost"}
    BY <1>1, <1>3 DEF WaitsOnce
  <1> QED BY <1>4, <1>5, <1>6

\* A thread is taken out of the agent view, unless its lock is held.
LEMMA RunsHide ==
  ASSUME None \notin Threads, Inv, NEW t \in Threads, Hide(t)
  PROVE  Inv'
  <1>1. PICK w : w = World
    OBVIOUS
  <1>2. Good(w) /\ w.turns = turns /\ w.current = current /\ w.runs = runs
        /\ attached \in Threads \cup {None} /\ view \in Views
    BY <1>1, RunsWorld DEF Inv
  <1>3. PICK u : u = IF Has(t) /\ Running(Run(t))
                     THEN [w EXCEPT !.runs[current[t]].status = "interrupted"] ELSE w
    OBVIOUS
  <1>4. /\ Good(u) /\ u.current = w.current /\ u.turns = w.turns /\ DOMAIN u.runs = DOMAIN w.runs
        /\ \A j \in DOMAIN w.runs : u.runs[j].pending = w.runs[j].pending
    <2>1. CASE Has(t) /\ Running(Run(t))
      <3>1. Marked(w, u, t)
        BY <1>2, <1>3, <2>1 DEF Has, Marked
      <3> QED BY ONLY <1>2, <3>1, t \in Threads, RunsMarked
    <2>2. CASE ~(Has(t) /\ Running(Run(t)))
      BY <1>2, <1>3, <2>2
    <2> QED BY <2>1, <2>2
  <1>5. CASE Locked(t)
    <2>1. Commit(u) /\ attached' = attached /\ view' = view
      BY <1>1, <1>3, <1>5 DEF Hide
    <2> QED BY <1>2, <1>4, <2>1, RunsKept
  <1>6. CASE ~Locked(t)
    <2>1. PICK some : some = IF Has(t) THEN Range(Run(t).pending) ELSE {}
      OBVIOUS
    <2>2. PICK z : z = Stages(u, some, "dropped")
      OBVIOUS
    <2>3. u \in Worlds /\ t # None
      BY <1>4 DEF Good, TypeOK
    <2>4. /\ Apart(z, {}, {t}) /\ z.current = u.current
          /\ \A n \in Messages : z.turns[n].stage \in Working => z.turns[n] = u.turns[n]
      <3>1. CASE Has(t)
        <4>1. PICK i \in DOMAIN u.runs : i = current[t]
          BY <1>2, <1>4, <3>1, RunsOf DEF Has
        <4>2. some = Range(u.runs[i].pending)
          BY <1>2, <1>4, <2>1, <3>1, <4>1 DEF Run
        <4>3. /\ Good(z) /\ z.current = u.current
              /\ \A n \in Messages : z.turns[n] = u.turns[n] \/ z.turns[n].stage = "dropped"
          BY <1>4, <2>2, <4>2, RunsEmptied
        <4>4. Apart(z, {}, {t})
          BY <4>3, RunsGood, RunsWeaken
        <4> QED BY <4>3, <4>4 DEF Working
      <3>2. CASE ~Has(t)
        <4>1. some = {}
          BY <2>1, <3>2
        <4>2. "dropped" \in TurnStages
          BY DEF TurnStages
        <4>3. /\ z \in Worlds /\ z.runs = u.runs /\ z.current = u.current /\ z.ready = u.ready
              /\ z.listed = u.listed /\ \A n \in Messages : z.turns[n] = u.turns[n]
          BY <2>2, <2>3, <4>1, <4>2, RunsStages
        <4>4. z.turns = u.turns
          BY <2>3, <4>3 DEF Worlds
        <4>5. Good(z)
          BY <1>4, <4>3, <4>4, RunsListed DEF Good, TypeOK
        <4>6. Apart(z, {}, {t})
          BY <4>5, RunsGood, RunsWeaken
        <4> QED BY <4>3, <4>6
      <3> QED BY <3>1, <3>2
    <2>5. TypeOK(z)
      BY <2>4 DEF Apart, Shape
    <2>6. z \in Worlds /\ z.listed \in {0} \cup DOMAIN z.runs /\ z.current \in [Threads -> Nat]
      BY <2>5, RunsShape
    <2>7. PICK now : now = [z.current EXCEPT ![t] = 0]
      OBVIOUS
    <2>8. now \in [Threads -> Nat] /\ now[t] = 0 /\ \A r \in Threads : r # t => now[r] = z.current[r]
      BY <2>6, <2>7
    <2>9. PICK hidden : hidden = [z EXCEPT !.current = now]
      OBVIOUS
    <2>10. hidden \in Worlds /\ hidden.runs = z.runs /\ hidden.turns = z.turns /\ hidden.ready = z.ready
           /\ hidden.listed = z.listed /\ hidden.current = now
      BY <2>6, <2>8, <2>9 DEF Worlds
    <2>11. PICK v : v = IF t = attached THEN [hidden EXCEPT !.listed = 0] ELSE hidden
      OBVIOUS
    <2>12. v \in Worlds /\ v.runs = z.runs /\ v.turns = z.turns /\ v.ready = z.ready
           /\ v.listed \in {0} \cup DOMAIN z.runs /\ v.current = now
      BY <2>6, <2>10, <2>11 DEF Worlds
    <2>13. \A n \in Messages \ {} : z.turns[n].thread = t => z.turns[n].stage \notin Working
      BY <1>2, <1>4, <1>6, <2>4 DEF Locked, Working
    <2>14. Apart(z, {}, {} \cup {t})
      BY <2>4
    <2>15. Apart(v, {}, {})
      BY <2>8, <2>12, <2>13, <2>14, RunsForgotten
    <2>16. Good(v)
      BY <2>15, RunsGood
    <2>17. Commit(v)
      BY <1>1, <1>3, <1>6, <2>1, <2>2, <2>7, <2>9, <2>11 DEF Hide
    <2>18. attached' \in Threads \cup {None} /\ view' \in Views
      <3>1. view' = [view EXCEPT !.rows = @ \ {t}] /\ attached' = IF t = attached THEN None ELSE attached
        BY <1>6 DEF Hide
      <3> QED BY <1>2, <3>1 DEF Views
    <2> QED BY <2>16, <2>17, <2>18, RunsKept
  <1> QED BY <1>5, <1>6

\* The thread on the screen is left, and its queue dropped.
LEMMA RunsClear ==
  ASSUME Inv, Clear
  PROVE  Inv'
  <1>1. PICK w : w = World
    OBVIOUS
  <1>2. Good(w) /\ w.turns = turns /\ w.current = current /\ w.runs = runs
        /\ attached \in Threads \cup {None} /\ view \in Views
    BY <1>1, RunsWorld DEF Inv
  <1>3. attached \in Threads /\ attached' = None /\ view' = view
    BY <1>2 DEF Clear
  <1>4. PICK i : i = current[attached]
    OBVIOUS
  <1>5. PICK u : u = IF i = 0 THEN w
                     ELSE [Stages(w, Range(runs[i].pending), "dropped") EXCEPT
                              !.runs[i] = [@ EXCEPT !.pending = <<>>, !.drain = FALSE]]
    OBVIOUS
  <1>6. Good(u)
    <2>1. CASE i = 0
      BY <1>2, <1>5, <2>1
    <2>2. CASE i # 0
      <3>1. i \in DOMAIN w.runs /\ w.runs[i] \in RunStates
        BY <1>2, <1>3, <1>4, <2>2, RunsOf
      <3>2. w \in Worlds /\ w.listed \in {0} \cup DOMAIN w.runs /\ "dropped" \in TurnStages
        BY <1>2 DEF Good, TypeOK, TurnStages
      <3>3. PICK some : some = Range(w.runs[i].pending)
        OBVIOUS
      <3>4. \A n \in some : \E k \in DOMAIN w.runs[i].pending : w.runs[i].pending[k] = n
        BY <3>3 DEF Range
      <3>5. PICK z : z = Stages(w, some, "dropped")
        OBVIOUS
      <3>6. /\ z \in Worlds /\ z.runs = w.runs /\ z.current = w.current /\ z.ready = w.ready
            /\ z.listed = w.listed
            /\ \A n \in Messages :
                  /\ n \notin some => z.turns[n] = w.turns[n]
                  /\ n \in some => z.turns[n].stage = "dropped" /\ z.turns[n].thread = w.turns[n].thread
        BY <3>2, <3>5, RunsStages
      <3>7. PICK x : x = [z.runs[i] EXCEPT !.pending = <<>>, !.drain = FALSE]
        OBVIOUS
      <3>8. /\ x \in RunStates /\ x.thread = w.runs[i].thread /\ x.task = w.runs[i].task
            /\ x.finished = w.runs[i].finished /\ ~x.drain /\ x.pending = <<>>
        <4>1. z.runs[i] \in RunStates /\ z.runs[i] = w.runs[i] /\ <<>> \in Seq(Messages)
          BY <3>1, <3>6
        <4> QED BY ONLY <3>7, <4>1 DEF RunStates
      <3>9. u = [z EXCEPT !.runs[i] = x]
        BY <1>2, <1>5, <2>2, <3>3, <3>5, <3>7
      <3>10. /\ u \in Worlds /\ u.current = z.current /\ u.turns = z.turns /\ u.ready = z.ready
             /\ u.listed = z.listed /\ DOMAIN u.runs = DOMAIN z.runs /\ u.runs[i] = x
             /\ \A j \in DOMAIN z.runs : j # i => u.runs[j] = z.runs[j]
        BY <3>1, <3>6, <3>8, <3>9, RunsReplaced
      <3> QED BY <1>2, <3>1, <3>2, <3>4, <3>6, <3>8, <3>10, RunsDropped
    <2> QED BY <2>1, <2>2
  <1>7. PICK v : v = [u EXCEPT !.listed = 0]
    OBVIOUS
  <1>8. v \in Worlds /\ v.runs = u.runs /\ v.current = u.current /\ v.turns = u.turns /\ v.ready = u.ready
        /\ v.listed = 0
    <2>1. u \in Worlds
      BY <1>6 DEF Good, TypeOK
    <2> QED BY <1>7, <2>1 DEF Worlds
  <1>9. Good(v)
    BY <1>6, <1>8, RunsListed
  <1>10. Commit(v)
    BY <1>1, <1>4, <1>5, <1>7 DEF Clear
  <1> QED BY <1>2, <1>3, <1>9, <1>10, RunsKept

\* A thread is shown.
LEMMA RunsResume ==
  ASSUME Inv, NEW t \in Threads, Resume(t)
  PROVE  Inv'
  <1>1. PICK w : w = World
    OBVIOUS
  <1>2. Good(w) /\ w.current = current /\ view \in Views
    BY <1>1, RunsWorld DEF Inv
  <1>3. PICK u : u = IF t = attached /\ Has(t) THEN [w EXCEPT !.runs[current[t]].drain = FALSE] ELSE w
    OBVIOUS
  <1>4. Good(u)
    <2>1. CASE Has(t)
      <3>1. PICK i : i = w.current[t]
        OBVIOUS
      <3>2. i \in DOMAIN w.runs /\ w.runs[i] \in RunStates
        BY <1>2, <2>1, <3>1, RunsOf DEF Has
      <3>3. PICK x : x = [w.runs[i] EXCEPT !.drain = FALSE]
        OBVIOUS
      <3>4. /\ x \in RunStates /\ x.thread = w.runs[i].thread /\ x.task = w.runs[i].task
            /\ x.pending = w.runs[i].pending /\ x.finished = w.runs[i].finished /\ ~x.drain
        BY <3>2, <3>3 DEF RunStates
      <3>5. u = w \/ u = [w EXCEPT !.runs[i] = x]
        BY <1>2, <1>3, <3>1, <3>3
      <3>6. Told(w, i, x)
        BY <3>4 DEF Told
      <3> QED BY <1>2, <3>2, <3>5, <3>6, RunsTold
    <2>2. CASE ~Has(t)
      BY <1>2, <1>3, <2>2
    <2> QED BY <2>1, <2>2
  <1>5. PICK v : v = Sync(u, t)
    OBVIOUS
  <1>6. Good(v)
    BY <1>4, <1>5, RunsSync
  <1>7. Commit(v)
    BY <1>1, <1>3, <1>5 DEF Resume
  <1>8. attached' \in Threads \cup {None} /\ view' \in Views
    <2>1. view' = [view EXCEPT !.mode = "transcript"] /\ attached' = t
      BY DEF Resume
    <2> QED BY <1>2, <2>1 DEF Views
  <1> QED BY <1>6, <1>7, <1>8, RunsKept

\* Nothing but the view changes, or what the program waits for.
LEMMA RunsViewed ==
  ASSUME Inv, UNCHANGED <<runs, current, turns, ready, attached, listed>>, view' \in Views
  PROVE  Inv'
  <1>1. PICK w : w = World
    OBVIOUS
  <1>2. Good(w) /\ w.turns = turns /\ w.current = current /\ w.runs = runs /\ w.ready = ready
        /\ w.listed = listed /\ attached \in Threads \cup {None}
    BY <1>1, RunsWorld DEF Inv
  <1>3. Commit(w)
    BY <1>2 DEF Commit
  <1> QED BY <1>2, <1>3, RunsKept

\* At the start nothing runs.
LEMMA RunsInit == Init => Inv
  <1> SUFFICES ASSUME Init PROVE Inv
    OBVIOUS
  <1>1. PICK w : w = World
    OBVIOUS
  <1>2. /\ w.runs = <<>> /\ w.ready = <<>> /\ w.listed = 0 /\ w.current = [t \in Threads |-> 0]
        /\ w.turns = [m \in Messages |-> [thread |-> None, stage |-> "composer", run |-> 0, event |-> 0]]
    BY <1>1, RunsWorld DEF Init
  <1>3. w \in Worlds
    <2>1. [thread |-> None, stage |-> "composer", run |-> 0, event |-> 0] \in TurnStates
      BY DEF TurnStates, TurnStages
    <2>2. w.runs \in Seq(RunStates) /\ w.ready \in Seq(Messages) /\ w.listed \in Nat
          /\ w.current \in [Threads -> Nat]
      BY <1>2
    <2>3. w.turns \in [Messages -> TurnStates]
      BY <1>2, <2>1
    <2>4. w = [runs |-> w.runs, current |-> w.current, turns |-> w.turns, ready |-> w.ready, listed |-> w.listed]
      BY <1>1 DEF World
    <2> QED BY <2>2, <2>3, <2>4 DEF Worlds
  <1>4. /\ DOMAIN w.runs = {} /\ DOMAIN w.ready = {} /\ \A m \in Messages : w.turns[m].stage = "composer"
        /\ \A t \in Threads : w.current[t] = 0
    BY <1>2
  <1>5. TypeOK(w) /\ OwnRuns(w) /\ WaitsOnce(w)
    BY <1>2, <1>3, <1>4 DEF TypeOK, OwnRuns, WaitsOnce
  <1>6. InLine(w) /\ NewestIsNamed(w)
    BY <1>4 DEF InLine, NewestIsNamed, Unbegun
  <1>7. LockHasRun(w) /\ HasStarter(w)
    BY <1>4 DEF LockHasRun, HasStarter, Working
  <1>8. attached \in Threads \cup {None} /\ view \in Views
    BY DEF Init, Views
  <1> QED BY <1>1, <1>5, <1>6, <1>7, <1>8 DEF Inv, Good

\* Each action keeps the invariant.
LEMMA RunsStep ==
  ASSUME None \notin Threads, Inv, [Next]_vars
  PROVE  Inv'
  <1>1. attached \in Threads \cup {None} /\ view \in Views
    BY DEF Inv
  <1>2. CASE UNCHANGED vars
    BY <1>1, <1>2, RunsViewed DEF vars
  <1>3. CASE \E m \in Messages :
                \/ Submit(m) \/ Dispatched(m) \/ DispatchFails(m) \/ RunScheduled(m)
                \/ Begin(m) \/ Delta(m) \/ Ends(m) \/ Raises(m)
    BY <1>3, RunsSubmit, RunsDispatched, RunsDispatchFails, RunsRunScheduled, RunsBegin, RunsDelta, RunsEnds,
       RunsRaises
  <1>4. CASE \E m \in Messages : \E t \in Threads : Reply(m, t) \/ Dispatch(m, t)
    BY <1>4, RunsReply, RunsDispatch
  <1>5. CASE \E m \in Messages : \E status \in Ended : Terminal(m, status)
    BY <1>5, RunsTerminal
  <1>6. CASE Tick
    BY <1>6, RunsTick
  <1>7. CASE Interrupt
    <2>1. attached \in Threads /\ current[attached] # 0
      BY <1>1, <1>7 DEF Interrupt, Has
    <2> QED BY <1>7, <2>1, RunsInterrupt DEF Interrupt
  <1>8. CASE \E t \in Threads : Cancel(t)
    <2>1. PICK t \in Threads : Cancel(t)
      BY <1>8
    <2>2. current[t] # 0
      BY <2>1 DEF Cancel, Has
    <2> QED BY <2>1, <2>2, RunsInterrupt DEF Cancel
  <1>9. CASE Clear
    BY <1>9, RunsClear
  <1>10. CASE \E t \in Threads : Hide(t) \/ Resume(t)
    BY <1>10, RunsHide, RunsResume
  <1>11. CASE CloseAgentView
    <2>1. view' \in Views
      BY <1>1, <1>11 DEF CloseAgentView, Views
    <2> QED BY <1>11, <2>1, RunsViewed DEF CloseAgentView
  <1>12. CASE Quit
    <2>1. view' \in Views
      BY <1>1, <1>12 DEF Quit
    <2> QED BY <1>12, <2>1, RunsViewed DEF Quit
  <1>13. CASE \E join \in BOOLEAN : OpenAgentView(join)
    <2>1. PICK join \in BOOLEAN : OpenAgentView(join)
      BY <1>13
    <2>2. view' \in Views
      BY <1>1, <2>1 DEF OpenAgentView, Views
    <2> QED BY <2>1, <2>2, RunsViewed DEF OpenAgentView
  <1> QED BY <1>2, <1>3, <1>4, <1>5, <1>6, <1>7, <1>8, <1>9, <1>10, <1>11, <1>12, <1>13 DEF Next

\* What waits has a starter.
LEMMA RunsGiven == Inv => WaitingHasStarter
  <1> SUFFICES ASSUME Inv, NEW t \in Threads, Has(t), Run(t).pending # <<>>
               PROVE  Starter(current[t])
    BY DEF WaitingHasStarter
  <1>1. PICK w : w = World
    OBVIOUS
  <1>2. Good(w) /\ w.turns = turns /\ w.current = current /\ w.runs = runs
    BY <1>1, RunsWorld DEF Inv
  <1>3. PICK i : i = current[t]
    OBVIOUS
  <1>4. i # 0 /\ w.runs[i].pending # <<>>
    BY <1>2, <1>3 DEF Has, Run
  <1>5. StarterIn(w, i)
    BY <1>2, <1>3, <1>4 DEF Good, HasStarter
  <1> QED BY <1>2, <1>3, <1>5 DEF StarterIn, Starter, Working, Unbegun

=============================================================================
