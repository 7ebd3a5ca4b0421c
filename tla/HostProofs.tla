------------------------------ MODULE HostProofs ------------------------------
(***************************************************************************)
(* What the services around the engine keep, for every value of the        *)
(* constants.  Each part's invariant is the Inv of its module, with the    *)
(* conjuncts named there; a behaviour of the composition is one of a part, *)
(* and each theorem at the end lifts the three facts proved of the part:   *)
(* the invariant holds at the start, every step keeps it, and it implies   *)
(* the property.                                                           *)
(***************************************************************************)
EXTENDS Host, Sequences, FiniteSetTheorems, WellFoundedInduction, TLAPS

\* Less-than as a set of pairs.
Below == {ss \in Nat \X Nat : ss[1] < ss[2]}

\* Less-than on the naturals is well-founded.
LEMMA BelowWF == IsWellFoundedOn(Below, Nat)
  BY NatLessThanWellFounded DEF OpToRel, Below

\* A set of naturals has a least element.
LEMMA Least == ASSUME NEW S, S \subseteq Nat, S # {} PROVE \E x \in S : \A y \in S : y >= x
  <1>1. PICK x \in S : \A y \in S : <<y, x>> \notin Below
    <2> HIDE DEF Below
    <2> QED BY BelowWF, WFMin
  <1> SUFFICES ASSUME NEW y \in S PROVE y >= x
    BY <1>1
  <1>2. x \in Nat /\ y \in Nat /\ <<y, x>> \notin Below
    BY <1>1
  <1>3. <<y, x>>[1] = y /\ <<y, x>>[2] = x /\ <<y, x>> \in Nat \X Nat
    BY <1>2
  <1>4. ~(y < x)
    BY <1>2, <1>3 DEF Below
  <1> QED BY <1>2, <1>4

\* What is below a bound has a greatest element.
LEMMA Greatest ==
  ASSUME NEW n \in Nat, NEW S, S \subseteq 0..n, S # {}
  PROVE  \E x \in S : \A y \in S : y <= x
  <1> DEFINE T == {n - y : y \in S}
  <1>1. \A y \in S : y \in Nat /\ y <= n /\ n - y \in Nat
    OBVIOUS
  <1>2. T \subseteq Nat /\ T # {}
    BY <1>1
  <1>3. PICK z \in T : \A y \in T : y >= z
    BY <1>2, Least
  <1>4. PICK x \in S : z = n - x
    OBVIOUS
  <1>5. ASSUME NEW y \in S PROVE y <= x
    <2>1. n - y >= n - x
      BY <1>3, <1>4
    <2> QED BY <1>1, <2>1
  <1> QED BY <1>5

\* A function on 1..n with values in T is a sequence over T.
LEMMA SequenceOf ==
  ASSUME NEW T, NEW n \in Nat, NEW f, f = [i \in 1..n |-> f[i]], \A i \in 1..n : f[i] \in T
  PROVE f \in Seq(T) /\ Len(f) = n /\ DOMAIN f = 1..n
  <1>1. f \in [1..n -> T]
    OBVIOUS
  <1> QED BY <1>1

\* A sequence is a function on 1..n.
LEMMA SequenceIs ==
  ASSUME NEW T, NEW f \in Seq(T)
  PROVE /\ Len(f) \in Nat /\ DOMAIN f = 1..Len(f) /\ \A i \in DOMAIN f : f[i] \in T
        /\ f = [i \in 1..Len(f) |-> f[i]]
  OBVIOUS

\* What the tail of a sequence holds.
LEMMA SequenceTail ==
  ASSUME NEW T, NEW f \in Seq(T), f # <<>>
  PROVE /\ Tail(f) \in Seq(T) /\ DOMAIN Tail(f) = 1..(Len(f) - 1)
        /\ \A i \in 1..(Len(f) - 1) : i + 1 \in DOMAIN f /\ Tail(f)[i] = f[i + 1]
        /\ Len(f) # 1 => Tail(f) # <<>>
  <1>1. Len(f) \in Nat /\ Len(f) > 0 /\ DOMAIN f = 1..Len(f)
    OBVIOUS
  <1>2. Tail(f) \in Seq(T) /\ Len(Tail(f)) = Len(f) - 1
    BY <1>1
  <1>3. DOMAIN Tail(f) = 1..(Len(f) - 1)
    BY <1>2
  <1>4. \A i \in 1..(Len(f) - 1) : i + 1 \in DOMAIN f /\ Tail(f)[i] = f[i + 1]
    BY <1>1, <1>2
  <1>5. Len(f) # 1 => Tail(f) # <<>>
    BY <1>1, <1>2
  <1> QED BY <1>2, <1>3, <1>4, <1>5

\* What a concatenation holds.
LEMMA SequenceConcat ==
  ASSUME NEW T, NEW f \in Seq(T), NEW g \in Seq(T)
  PROVE /\ f \o g \in Seq(T) /\ DOMAIN (f \o g) = 1..(Len(f) + Len(g))
        /\ \A i \in 1..Len(f) : (f \o g)[i] = f[i]
        /\ \A i \in (Len(f) + 1)..(Len(f) + Len(g)) : i - Len(f) \in 1..Len(g) /\ (f \o g)[i] = g[i - Len(f)]
  <1>1. Len(f) \in Nat /\ Len(g) \in Nat /\ DOMAIN f = 1..Len(f) /\ DOMAIN g = 1..Len(g)
    OBVIOUS
  <1>2. f \o g \in Seq(T) /\ Len(f \o g) = Len(f) + Len(g)
    OBVIOUS
  <1>3. DOMAIN (f \o g) = 1..(Len(f) + Len(g))
    BY <1>2
  <1>4. \A i \in 1..Len(f) : (f \o g)[i] = f[i]
    BY <1>1
  <1>5. \A i \in (Len(f) + 1)..(Len(f) + Len(g)) : i - Len(f) \in 1..Len(g) /\ (f \o g)[i] = g[i - Len(f)]
    BY <1>1
  <1> QED BY <1>2, <1>3, <1>4, <1>5

-----------------------------------------------------------------------------
(* Daemon.  The lease names whoever serves, and who is about to write a    *)
(* row of its own has seen that nobody does.                               *)

\* The invariant holds at the start.
LEMMA DaemonInit == ASSUME None \notin Daemons, D!Init PROVE D!Inv
  BY DEF D!Init, D!Inv, D!TypeOK, D!LeaseInv, D!OneAcquires, D!ServerHasLease, D!SeenBefore,
     D!Acquiring, D!Serving, D!States

\* Every step keeps the types.
LEMMA DaemonType == D!TypeOK /\ [D!Next]_D!vars => D!TypeOK'
  <1> SUFFICES ASSUME D!TypeOK, [D!Next]_D!vars PROVE D!TypeOK'
      OBVIOUS
  <1> USE DEF D!TypeOK, D!States, D!ghosts
  <1>1. CASE UNCHANGED D!vars
    BY <1>1 DEF D!vars
  <1>2. CASE D!HeartbeatLate
    BY <1>2 DEF D!HeartbeatLate
  <1>3. ASSUME NEW p \in Daemons, NEW replace \in BOOLEAN, D!Look(p, replace)
        PROVE  D!TypeOK'
    BY <1>3 DEF D!Look
  <1>4. ASSUME NEW p \in Daemons, D!OldGone(p) \/ D!GiveUp(p) \/ D!Insert(p) \/ D!Started(p) \/ D!Heartbeat(p)
        PROVE  D!TypeOK'
    BY <1>4 DEF D!OldGone, D!GiveUp, D!Insert, D!Started, D!Heartbeat
  <1>5. ASSUME NEW p \in Daemons, D!Stop(p) \/ D!Closed(p) \/ D!Release(p) \/ D!Crash(p)
        PROVE  D!TypeOK'
    BY <1>5 DEF D!Stop, D!Closed, D!Release, D!Crash
  <1> QED
    BY <1>1, <1>2, <1>3, <1>4, <1>5 DEF D!Next

\* A row stays a row of a process that started, whatever is written next.
LEMMA DaemonLease ==
    ASSUME None \notin Daemons, D!TypeOK, D!TypeOK', D!LeaseInv, [D!Next]_D!vars
    PROVE  D!LeaseInv'
  <1> USE DEF D!TypeOK, D!States, D!ghosts, D!LeaseInv, D!Alive
  <1>1. CASE UNCHANGED D!vars
    BY <1>1 DEF D!vars
  <1>2. CASE D!HeartbeatLate
    BY <1>2 DEF D!HeartbeatLate
  <1>3. ASSUME NEW p \in Daemons, NEW replace \in BOOLEAN, D!Look(p, replace)
        PROVE  D!LeaseInv'
    BY <1>3 DEF D!Look
  <1>4. ASSUME NEW p \in Daemons, D!OldGone(p) \/ D!GiveUp(p) \/ D!Insert(p)
        PROVE  D!LeaseInv'
    BY <1>4 DEF D!OldGone, D!GiveUp, D!Insert
  <1>5. ASSUME NEW p \in Daemons, D!Started(p) \/ D!Heartbeat(p) \/ D!Stop(p)
        PROVE  D!LeaseInv'
    BY <1>5 DEF D!Started, D!Heartbeat, D!Stop
  <1>6. ASSUME NEW p \in Daemons, D!Closed(p) \/ D!Release(p) \/ D!Crash(p)
        PROVE  D!LeaseInv'
    BY <1>6 DEF D!Closed, D!Release, D!Crash
  <1> QED
    BY <1>1, <1>2, <1>3, <1>4, <1>5, <1>6 DEF D!Next

\* Unless two looked across each other or a heartbeat was late, who serves holds the
\* lease and nobody else is about to write it.
LEMMA DaemonServing ==
    ASSUME None \notin Daemons, D!Inv, [D!Next]_D!vars, D!TypeOK',
           ~overlapped', ~stalled'
    PROVE  (D!OneAcquires /\ D!ServerHasLease /\ D!SeenBefore)'
  <1>1. ~overlapped /\ ~stalled
    <2>1. ASSUME NEW p \in Daemons, NEW replace \in BOOLEAN, D!Look(p, replace)
          PROVE  ~overlapped /\ ~stalled
      BY <2>1 DEF D!Look
    <2>2. CASE UNCHANGED D!vars
      BY <2>2 DEF D!vars
    <2>3. CASE D!HeartbeatLate
      BY <2>3 DEF D!HeartbeatLate
    <2>4. ASSUME NEW p \in Daemons,
                 \/ D!OldGone(p) \/ D!GiveUp(p) \/ D!Insert(p) \/ D!Started(p) \/ D!Heartbeat(p)
                 \/ D!Stop(p) \/ D!Closed(p) \/ D!Release(p) \/ D!Crash(p)
          PROVE  ~overlapped /\ ~stalled
      BY <2>4 DEF D!OldGone, D!GiveUp, D!Insert, D!Started, D!Heartbeat, D!Stop, D!Closed,
         D!Release, D!Crash, D!ghosts
    <2> QED
      BY <2>1, <2>2, <2>3, <2>4 DEF D!Next
  <1> USE <1>1 DEF D!Inv, D!TypeOK, D!States, D!LeaseInv, D!OneAcquires, D!ServerHasLease, D!SeenBefore, D!Acquiring,
                   D!Serving, D!ghosts
  <1>2. CASE UNCHANGED D!vars
    BY <1>2 DEF D!vars
  <1>3. CASE D!HeartbeatLate
    BY <1>3 DEF D!HeartbeatLate
  <1>4. ASSUME NEW p \in Daemons, NEW replace \in BOOLEAN, D!Look(p, replace)
        PROVE  (D!OneAcquires /\ D!ServerHasLease /\ D!SeenBefore)'
    \* Nobody is acquiring, and the lease is fresh if anybody serves.
    <2>1. D!Acquiring = {}
      BY <1>4 DEF D!Look
    <2>2. \A q \in D!Serving : D!Fresh /\ lease = q
      BY DEF D!Fresh, D!Alive
    <2> QED
      BY <1>4, <2>1, <2>2 DEF D!Look
  <1>5. ASSUME NEW p \in Daemons, D!OldGone(p)
        PROVE  (D!OneAcquires /\ D!ServerHasLease /\ D!SeenBefore)'
    <2>1. D!Serving = {}
      BY <1>5 DEF D!OldGone, D!Alive
    <2> QED
      BY <1>5, <2>1 DEF D!OldGone
  <1>6. ASSUME NEW p \in Daemons, D!Insert(p)
        PROVE  (D!OneAcquires /\ D!ServerHasLease /\ D!SeenBefore)'
    <2>1. D!Serving = {} /\ D!Acquiring = {p}
      BY <1>6 DEF D!Insert
    <2> QED
      BY <1>6, <2>1 DEF D!Insert
  <1>7. ASSUME NEW p \in Daemons, D!GiveUp(p) \/ D!Started(p) \/ D!Heartbeat(p) \/ D!Stop(p)
        PROVE  (D!OneAcquires /\ D!ServerHasLease /\ D!SeenBefore)'
    BY <1>7 DEF D!GiveUp, D!Started, D!Heartbeat, D!Stop
  <1>8. ASSUME NEW p \in Daemons, D!Closed(p) \/ D!Release(p) \/ D!Crash(p)
        PROVE  (D!OneAcquires /\ D!ServerHasLease /\ D!SeenBefore)'
    BY <1>8 DEF D!Closed, D!Release, D!Crash
  <1> QED
    BY <1>2, <1>3, <1>4, <1>5, <1>6, <1>7, <1>8 DEF D!Next

\* Every step keeps the invariant.
LEMMA DaemonNext == ASSUME None \notin Daemons, D!Inv, [D!Next]_D!vars PROVE D!Inv'
  <1>1. D!TypeOK'
    BY DaemonType DEF D!Inv
  <1>2. D!LeaseInv'
    BY <1>1, DaemonLease DEF D!Inv
  <1> QED
    BY <1>1, <1>2, DaemonServing DEF D!Inv

\* Who serve hold the one lease, hence are one.
LEMMA DaemonGives == ASSUME D!Inv PROVE D!OneDaemon
  BY DEF D!Inv, D!ServerHasLease, D!OneDaemon

-----------------------------------------------------------------------------
(* Scheduler.  A row read by a poll is not read again before the poll is   *)
(* done with it; a one-shot schedule that fired is over; a run's row says  *)
(* what its task is at, so that the look sees every run that acts unless   *)
(* it still waited for its permit.                                         *)

\* The invariant holds at the start.
LEMMA SchedInit == Sc!Init => Sc!Inv
  <1> SUFFICES ASSUME Sc!Init PROVE Sc!Inv
    OBVIOUS
  <1> USE DEF Sc!Init
  <1>1. Sc!TypeOK
    <2>1. poll \in Sc!PollStates /\ poll.pc = "idle"
      BY DEF Sc!PollStates, Sc!Idle
    <2>2. runs \in Seq(Sc!RunRows) /\ table \in [Schedule -> Sc!Rows]
      BY DEF Sc!Rows
    <2> QED BY <2>1, <2>2 DEF Sc!TypeOK
  <1>2. Sc!PolledOnce /\ Sc!FiredIsOver /\ Sc!RowsOfJobs /\ Sc!ReplacesItsOwn /\ Sc!RowSaysSo /\ Sc!OneTask
    BY DEF Sc!Idle, Sc!PolledOnce, Sc!FiredIsOver, Sc!RowsOfJobs, Sc!ReplacesItsOwn, Sc!RowSaysSo,
       Sc!OneTask, Sc!Own
  <1> QED BY <1>1, <1>2 DEF Sc!Inv

\* A poll that reads the rows due reads each once.
LEMMA SchedPollRead == ASSUME Sc!Inv, Sc!PollRead PROVE Sc!Inv'
  <1> DEFINE ReadInto(n, chosen) ==
        /\ \A i, j \in 1..n : chosen[i] = chosen[j] => i = j
        /\ n < MaxJobs => \A s \in Schedule : Sc!Due(s) => \E i \in 1..n : chosen[i] = s
        /\ poll' = [pc |-> "look",
                    rows |-> [i \in 1..n |-> [s |-> chosen[i], row |-> table[chosen[i]]]], running |-> {}]
  <1>1. \E n \in 1..MaxJobs : \E chosen \in [1..n -> {s \in Schedule : Sc!Due(s)}] : ReadInto(n, chosen)
    BY Zenon DEF Sc!PollRead
  <1> PICK n \in 1..MaxJobs : \E chosen \in [1..n -> {s \in Schedule : Sc!Due(s)}] : ReadInto(n, chosen)
    BY <1>1, Zenon
  <1> PICK chosen \in [1..n -> {s \in Schedule : Sc!Due(s)}] : ReadInto(n, chosen)
    OBVIOUS
  <1> DEFINE read == [i \in 1..n |-> [s |-> chosen[i], row |-> table[chosen[i]]]]
  <1>2. n \in Nat /\ n > 0
    OBVIOUS
  <1>3. UNCHANGED <<host, starts, table, runs, jobs, edit, ticks, edits, fired, crowded>>
    BY DEF Sc!PollRead
  <1>4. /\ poll' = [pc |-> "look", rows |-> read, running |-> {}]
        /\ \A i, j \in 1..n : chosen[i] = chosen[j] => i = j
        /\ \A i \in 1..n : chosen[i] \in Schedule /\ Sc!Due(chosen[i])
    OBVIOUS
  <1> HIDE DEF ReadInto
  <1>5. read \in Seq(Sc!PolledRows) /\ DOMAIN read = 1..n /\ read # <<>>
    <2>1. \A i \in 1..n : read[i] \in Sc!PolledRows
      BY <1>4 DEF Sc!Inv, Sc!TypeOK, Sc!PolledRows
    <2> HIDE DEF Sc!PolledRows
    <2>2. read \in Seq(Sc!PolledRows) /\ Len(read) = n /\ DOMAIN read = 1..n
      BY <1>2, <2>1, SequenceOf
    <2> QED BY <1>2, <2>2
  <1>6. \A i \in 1..n : read[i].s = chosen[i]
    OBVIOUS
  <1> HIDE DEF read
  <1>7. Sc!TypeOK'
    <2>1. poll' \in Sc!PollStates
      BY <1>4, <1>5 DEF Sc!PollStates
    <2> QED BY <1>3, <1>4, <1>5, <2>1 DEF Sc!Inv, Sc!TypeOK
  <1>8. Sc!PolledOnce'
    BY <1>4, <1>5, <1>6 DEF Sc!PolledOnce
  <1>9. Sc!FiredIsOver'
    <2>1. \A s \in Sc!Polled' : table[s].next = "due"
      BY <1>4, <1>5, <1>6 DEF Sc!Polled, Sc!Due
    <2> QED BY <1>3, <2>1 DEF Sc!Inv, Sc!FiredIsOver
  <1>10. Sc!RowsOfJobs' /\ Sc!ReplacesItsOwn' /\ Sc!RowSaysSo' /\ Sc!OneTask'
    BY <1>3, <1>4 DEF Sc!Inv, Sc!RowsOfJobs, Sc!ReplacesItsOwn, Sc!RowSaysSo, Sc!OneTask, Sc!Own
  <1> QED BY <1>7, <1>8, <1>9, <1>10 DEF Sc!Inv

\* The row a poll is at.
LEMMA SchedCurrent == ASSUME Sc!Inv, poll.pc # "idle"
  PROVE Sc!Current \in Sc!PolledRows /\ Sc!Current.s \in Schedule /\ Sc!Current.row \in Sc!Rows
        /\ 1 \in DOMAIN poll.rows /\ Sc!Current = poll.rows[1]
        /\ poll.rows \in Seq(Sc!PolledRows) /\ poll.rows # <<>>
  <1>1. poll.rows \in Seq(Sc!PolledRows) /\ poll.rows # <<>>
    BY DEF Sc!Inv, Sc!TypeOK, Sc!PollStates
  <1>2. 1 \in DOMAIN poll.rows /\ Sc!Current = poll.rows[1] /\ Sc!Current \in Sc!PolledRows
    BY <1>1 DEF Sc!Current
  <1> QED BY <1>1, <1>2 DEF Sc!PolledRows

\* The look for runs that overlap writes nothing.
LEMMA SchedLook == ASSUME Sc!Inv, Sc!OverlapLook PROVE Sc!Inv'
  <1> DEFINE cur == Sc!Current.s
  <1>1. UNCHANGED <<host, starts, table, runs, jobs, edit, ticks, edits, fired>> /\ poll.pc = "look"
    BY DEF Sc!OverlapLook
  <1>2. cur \in Schedule /\ poll.rows # <<>> /\ poll.rows \in Seq(Sc!PolledRows)
    BY <1>1, SchedCurrent
  <1>3. poll' = [pc |-> Sc!Overlap(cur), rows |-> poll.rows, running |-> Sc!Running(cur)]
    BY DEF Sc!OverlapLook
  <1>4. /\ Sc!Overlap(cur) \in {"start", "replace", "skip"}
        /\ Sc!Overlap(cur) = "start" => Sc!Running(cur) = {} \/ Policy[cur] = "allow"
        /\ Sc!Overlap(cur) = "replace" => Policy[cur] = "replace"
    BY DEF Sc!Overlap
  <1>5. crowded' \in BOOLEAN /\ (~crowded' => ~crowded /\ ~Sc!Waits(cur))
    BY DEF Sc!OverlapLook, Sc!Inv, Sc!TypeOK
  <1>6. Sc!Running(cur) \subseteq DOMAIN runs /\ DOMAIN runs \subseteq Nat
    BY DEF Sc!Inv, Sc!TypeOK, Sc!Running
  <1>7. Sc!TypeOK'
    <2>1. poll' \in Sc!PollStates
      BY <1>2, <1>3, <1>4, <1>6 DEF Sc!PollStates
    <2> QED BY <1>1, <1>2, <1>3, <1>5, <2>1 DEF Sc!Inv, Sc!TypeOK
  <1>8. Sc!PolledOnce' /\ Sc!FiredIsOver' /\ Sc!RowsOfJobs' /\ Sc!RowSaysSo'
    BY <1>1, <1>3 DEF Sc!Inv, Sc!PolledOnce, Sc!FiredIsOver, Sc!Polled, Sc!RowsOfJobs,
       Sc!RowSaysSo, Sc!Own
  <1>9. Sc!ReplacesItsOwn'
    BY <1>1, <1>3, <1>4, <1>6 DEF Sc!ReplacesItsOwn, Sc!Current, Sc!Running
  <1>10. Sc!OneTask'
    <2> SUFFICES ASSUME ~crowded', NEW s \in Schedule, Sc!Single(s)
                 PROVE /\ table[s].there => \A i, j \in Sc!Own(s) : i = j
                       /\ \A i, j \in Sc!Own(s) : i.pc = "acting" /\ j.pc = "acting" => i = j
                       /\ table[s].there /\ Sc!Overlap(cur) = "start" /\ cur = s => Sc!Own(s) = {}
      BY <1>1, <1>3 DEF Sc!OneTask, Sc!Own, Sc!Current
    <2>1. ASSUME table[s].there, Sc!Overlap(cur) = "start", cur = s, NEW j \in Sc!Own(s) PROVE FALSE
      <3>1. j.pc = "acting"
        BY <1>5, <2>1 DEF Sc!Waits, Sc!Own, Sc!Inv, Sc!TypeOK, Sc!Jobs, Sc!Task
      <3>2. runs[j.run] = [s |-> s, status |-> "running"] /\ j.run \in DOMAIN runs
        BY <2>1, <3>1 DEF Sc!Inv, Sc!RowSaysSo, Sc!RowsOfJobs, Sc!Own
      <3>3. j.run \in Sc!Running(s)
        BY <3>2 DEF Sc!Running
      <3> QED BY <1>4, <2>1, <3>3 DEF Sc!Single
    <2> QED BY <1>5, <2>1 DEF Sc!Inv, Sc!OneTask
  <1> QED BY <1>7, <1>8, <1>9, <1>10 DEF Sc!Inv

\* Replacing cancels runs of the schedule of the row, and of no other.
LEMMA SchedReplace ==
  ASSUME Sc!Inv, Sc!OverlapReplace, Sc!NoSchedule \notin Schedule
  PROVE  Sc!Inv'
  <1>1. UNCHANGED <<host, starts, table, jobs, edit, ticks, edits, fired, crowded>> /\ poll.pc = "replace"
    BY DEF Sc!OverlapReplace
  <1>2. Sc!Current.s \in Schedule /\ poll.rows # <<>> /\ poll.rows \in Seq(Sc!PolledRows)
    BY <1>1, SchedCurrent
  <1>3. poll' = [pc |-> "start", rows |-> poll.rows, running |-> poll.running]
    BY DEF Sc!OverlapReplace, Sc!Inv, Sc!TypeOK, Sc!PollStates
  <1>4. /\ Policy[Sc!Current.s] = "replace"
        /\ \A r \in poll.running : r \in DOMAIN runs /\ runs[r].s \in {Sc!Current.s, Sc!NoSchedule}
    BY <1>1 DEF Sc!Inv, Sc!ReplacesItsOwn
  <1>5. /\ runs' \in Seq(Sc!RunRows) /\ DOMAIN runs' = DOMAIN runs
        /\ \A r \in DOMAIN runs : r \notin poll.running => runs'[r] = runs[r]
    <2>1. runs \in Seq(Sc!RunRows) /\ DOMAIN runs = 1..Len(runs) /\ Len(runs) \in Nat
      BY DEF Sc!Inv, Sc!TypeOK
    <2>2. \A r \in DOMAIN runs : runs[r] \in Sc!RunRows /\ [runs[r] EXCEPT !.status = "cancelled"] \in Sc!RunRows
      <3> TAKE r \in DOMAIN runs
      <3>1. runs[r] \in Sc!RunRows
        BY <2>1, SequenceIs
      <3> QED BY <3>1 DEF Sc!RunRows
    <2>3. runs' = [r \in DOMAIN runs |->
             IF r \in poll.running THEN [runs[r] EXCEPT !.status = "cancelled"] ELSE runs[r]]
      BY DEF Sc!OverlapReplace
    <2>4. /\ runs' = [r \in 1..Len(runs) |-> runs'[r]] /\ \A r \in 1..Len(runs) : runs'[r] \in Sc!RunRows
          /\ \A r \in DOMAIN runs : r \notin poll.running => runs'[r] = runs[r]
      BY <2>1, <2>2, <2>3
    <2> HIDE DEF Sc!RunRows
    <2> QED BY <2>1, <2>4, SequenceOf
  <1>6. Sc!TypeOK'
    BY <1>1, <1>2, <1>3, <1>5 DEF Sc!Inv, Sc!TypeOK, Sc!PollStates
  <1>7. Sc!PolledOnce' /\ Sc!FiredIsOver' /\ Sc!RowsOfJobs' /\ Sc!ReplacesItsOwn'
    BY <1>1, <1>3, <1>5 DEF Sc!Inv, Sc!PolledOnce, Sc!FiredIsOver, Sc!Polled, Sc!RowsOfJobs,
       Sc!ReplacesItsOwn
  <1>8. Sc!RowSaysSo'
    <2> SUFFICES ASSUME NEW s \in Schedule, Sc!Single(s), table[s].there, NEW j \in Sc!Own(s), j.pc = "acting"
                 PROVE runs'[j.run] = [s |-> s, status |-> "running"]
      BY <1>1 DEF Sc!RowSaysSo, Sc!Own
    <2>1. j.run \in DOMAIN runs /\ runs[j.run] = [s |-> s, status |-> "running"]
      BY DEF Sc!Inv, Sc!RowSaysSo, Sc!RowsOfJobs, Sc!Own
    <2>2. s # Sc!Current.s /\ s # Sc!NoSchedule
      BY <1>4 DEF Sc!Single
    <2>3. j.run \notin poll.running
      BY <1>4, <2>1, <2>2
    <2> QED BY <1>5, <2>1, <2>3
  <1>9. Sc!OneTask'
    BY <1>1, <1>2, <1>3, <1>4 DEF Sc!Inv, Sc!OneTask, Sc!Own, Sc!Current, Sc!Single
  <1> QED BY <1>6, <1>7, <1>8, <1>9 DEF Sc!Inv

\* A poll that goes on has one row less, of a schedule it is done with.
LEMMA SchedPolled == ASSUME Sc!Inv, poll.pc # "idle"
  PROVE /\ Sc!PollOn \in Sc!PollStates /\ Sc!PollOn.pc \in {"idle", "look"} /\ (Sc!PollOn.pc # "idle" => Sc!PollOn.rows # <<>>)
        /\ \A i, j \in DOMAIN Sc!PollOn.rows : Sc!PollOn.rows[i].s = Sc!PollOn.rows[j].s => i = j
        /\ \A i \in DOMAIN Sc!PollOn.rows : \E j \in DOMAIN poll.rows : Sc!PollOn.rows[i].s = poll.rows[j].s
        /\ \A i \in DOMAIN Sc!PollOn.rows : Sc!PollOn.rows[i].s # Sc!Current.s
  <1>1. poll.rows \in Seq(Sc!PolledRows) /\ poll.rows # <<>> /\ Sc!PolledOnce /\ 1 \in DOMAIN poll.rows
        /\ Sc!Current = poll.rows[1]
    BY SchedCurrent DEF Sc!Inv
  <1>2. CASE Len(poll.rows) = 1
    BY <1>1, <1>2 DEF Sc!PollOn, Sc!Idle, Sc!PollStates, Sc!Current
  <1>3. CASE Len(poll.rows) # 1
    <2>1. /\ Tail(poll.rows) \in Seq(Sc!PolledRows) /\ DOMAIN Tail(poll.rows) = 1..(Len(poll.rows) - 1)
          /\ \A i \in 1..(Len(poll.rows) - 1) :
                i \in Nat /\ i > 0 /\ i + 1 \in DOMAIN poll.rows /\ Tail(poll.rows)[i] = poll.rows[i + 1]
          /\ Tail(poll.rows) # <<>>
      BY <1>1, <1>3, SequenceTail
    <2>2. Sc!PollOn = [pc |-> "look", rows |-> Tail(poll.rows), running |-> {}]
      BY <1>3 DEF Sc!PollOn
    <2>3. Sc!PollOn \in Sc!PollStates /\ Sc!PollOn.pc = "look" /\ Sc!PollOn.rows = Tail(poll.rows)
      BY <2>1, <2>2 DEF Sc!PollStates
    <2>4. \A i \in DOMAIN Sc!PollOn.rows : i \in Nat /\ i > 0 /\ i + 1 \in DOMAIN poll.rows /\ Sc!PollOn.rows[i] = poll.rows[i + 1]
      BY <2>1, <2>3
    <2>5. \A i, j \in DOMAIN Sc!PollOn.rows : Sc!PollOn.rows[i].s = Sc!PollOn.rows[j].s => i = j
      BY <1>1, <2>4 DEF Sc!PolledOnce
    <2>6. \A i \in DOMAIN Sc!PollOn.rows : Sc!PollOn.rows[i].s # Sc!Current.s
      BY <1>1, <2>4 DEF Sc!PolledOnce
    <2> QED BY <1>1, <2>1, <2>3, <2>4, <2>5, <2>6
  <1> QED BY <1>2, <1>3

\* Advancing fires a row: a one-shot schedule is over before its job is entered.
LEMMA SchedAdvance == ASSUME Sc!Inv, Sc!Advance PROVE Sc!Inv'
  <1> DEFINE cur == Sc!Current.s
             moved == Sc!NextRow(cur, Sc!Current.row)
  <1>1. /\ UNCHANGED <<host, starts, runs, edit, ticks, edits, crowded>>
        /\ poll.pc \in {"start", "skip"} /\ poll' = Sc!PollOn
        /\ table' = [table EXCEPT ![cur] = moved]
    BY DEF Sc!Advance
  <1>2. cur \in Schedule /\ Sc!Current.row \in Sc!Rows /\ 1 \in DOMAIN poll.rows /\ Sc!Current = poll.rows[1]
    BY <1>1, SchedCurrent
  <1>3. moved \in Sc!Rows /\ moved.there = table[cur].there /\ (Kind[cur] = "once" => moved.next = "none")
    BY <1>2 DEF Sc!NextRow, Sc!Rows, Sc!Inv, Sc!TypeOK
  <1> HIDE DEF moved
  <1>4. /\ table' \in [Schedule -> Sc!Rows] /\ \A s \in Schedule : table'[s].there = table[s].there
        /\ table'[cur] = moved /\ \A s \in Schedule : s # cur => table'[s] = table[s]
    BY <1>1, <1>2, <1>3 DEF Sc!Inv, Sc!TypeOK
  <1>5. /\ jobs' = IF poll.pc = "start" THEN jobs \cup {Sc!Task(cur)} ELSE jobs
        /\ fired' = IF poll.pc = "start" THEN [fired EXCEPT ![cur] = @ + 1] ELSE fired
    BY DEF Sc!Advance, Sc!Begun
  <1>6. Sc!TypeOK'
    <2>1. fired' \in [Schedule -> Nat]
      BY <1>2, <1>5 DEF Sc!Inv, Sc!TypeOK
    <2>2. jobs' \subseteq Sc!Jobs
      BY <1>2, <1>5 DEF Sc!Inv, Sc!TypeOK, Sc!Jobs
    <2>3. poll' \in Sc!PollStates /\ (poll'.pc # "idle" => poll'.rows # <<>>)
      BY <1>1, SchedPolled
    <2> QED BY <1>1, <1>4, <2>1, <2>2, <2>3 DEF Sc!Inv, Sc!TypeOK
  <1>7. Sc!PolledOnce'
    BY <1>1, SchedPolled DEF Sc!PolledOnce
  <1>8. Sc!FiredIsOver'
    <2>1. Sc!Polled' \subseteq Sc!Polled /\ cur \notin Sc!Polled'
      BY <1>1, SchedPolled DEF Sc!Polled
    <2> SUFFICES ASSUME NEW s \in Schedule, Kind[s] = "once", fired'[s] # 0
                 PROVE fired'[s] = 1 /\ table'[s].next = "none" /\ s \notin Sc!Polled'
      BY DEF Sc!FiredIsOver
    <2>2. CASE s = cur
      <3>1. fired[s] = 0
        BY <1>2, <2>2 DEF Sc!Inv, Sc!FiredIsOver, Sc!Polled
      <3>2. fired'[s] = 1
        BY <1>5, <2>2, <3>1 DEF Sc!Inv, Sc!TypeOK
      <3> QED BY <1>3, <1>4, <2>1, <2>2, <3>2
    <2>3. CASE s # cur
      BY <1>4, <1>5, <2>1, <2>3 DEF Sc!Inv, Sc!TypeOK, Sc!FiredIsOver
    <2> QED BY <2>2, <2>3
  <1>9. Sc!RowsOfJobs' /\ Sc!ReplacesItsOwn' /\ Sc!RowSaysSo'
    <2>1. poll'.pc \in {"idle", "look"}
      BY <1>1, SchedPolled
    <2>2. \A j \in jobs' : j \in jobs \/ j.pc = "queued"
      BY <1>5 DEF Sc!Task
    <2> QED BY <1>1, <1>4, <2>1, <2>2 DEF Sc!Inv, Sc!RowsOfJobs, Sc!ReplacesItsOwn, Sc!RowSaysSo, Sc!Own
  <1>10. Sc!OneTask'
    <2>1. poll'.pc \in {"idle", "look"}
      BY <1>1, SchedPolled
    <2> SUFFICES ASSUME ~crowded, NEW s \in Schedule, Sc!Single(s)
                 PROVE /\ table'[s].there => \A i, j \in Sc!Own(s)' : i = j
                       /\ \A i, j \in Sc!Own(s)' : i.pc = "acting" /\ j.pc = "acting" => i = j
      BY <1>1, <2>1 DEF Sc!OneTask
    <2>2. Sc!Own(s)' \subseteq Sc!Own(s) \cup {Sc!Task(cur)}
      BY <1>5 DEF Sc!Own
    <2>3. Sc!Task(cur).pc = "queued" /\ Sc!Task(cur).s = cur
      BY DEF Sc!Task
    <2>4. CASE poll.pc = "start" /\ s = cur
      <3>1. table[s].there => Sc!Own(s) = {}
        BY <2>4 DEF Sc!Inv, Sc!OneTask
      <3>2. \A i, j \in Sc!Own(s) : i.pc = "acting" /\ j.pc = "acting" => i = j
        BY DEF Sc!Inv, Sc!OneTask
      <3> QED BY <1>4, <2>2, <2>3, <3>1, <3>2
    <2>5. CASE ~(poll.pc = "start" /\ s = cur)
      <3>1. Sc!Own(s)' = Sc!Own(s)
        BY <1>5, <2>5, <2>3 DEF Sc!Own
      <3> QED BY <1>4, <3>1 DEF Sc!Inv, Sc!OneTask
    <2> QED BY <2>4, <2>5
  <1> QED BY <1>6, <1>7, <1>8, <1>9, <1>10 DEF Sc!Inv

\* A step that leaves the table, the runs and the jobs alone, and the poll or lets it end.
LEMMA SchedIdle ==
  ASSUME Sc!Inv, UNCHANGED <<table, runs, fired, crowded>>, poll' = poll \/ poll' = Sc!Idle,
         jobs' \subseteq jobs, edit' = Sc!NoEdit \/ edit' \in [s : Schedule, row : Sc!Rows]
  PROVE  Sc!Inv'
  <1>1. Sc!Idle \in Sc!PollStates /\ Sc!Idle.pc = "idle" /\ Sc!Idle.rows = <<>>
    BY DEF Sc!Idle, Sc!PollStates
  <1>2. Sc!TypeOK'
    BY <1>1 DEF Sc!Inv, Sc!TypeOK
  <1>3. Sc!PolledOnce' /\ Sc!FiredIsOver'
    BY <1>1 DEF Sc!Inv, Sc!PolledOnce, Sc!FiredIsOver, Sc!Polled
  <1>4. Sc!RowsOfJobs' /\ Sc!ReplacesItsOwn' /\ Sc!RowSaysSo'
    BY <1>1 DEF Sc!Inv, Sc!RowsOfJobs, Sc!ReplacesItsOwn, Sc!RowSaysSo, Sc!Own, Sc!Current
  <1>5. Sc!OneTask'
    BY <1>1 DEF Sc!Inv, Sc!OneTask, Sc!Own, Sc!Current
  <1> QED BY <1>2, <1>3, <1>4, <1>5 DEF Sc!Inv

\* The rows of runs.
LEMMA SchedRows == ASSUME Sc!Inv PROVE
    runs \in Seq(Sc!RunRows) /\ Len(runs) \in Nat /\ DOMAIN runs = 1..Len(runs) /\ \A r \in DOMAIN runs : runs[r] \in Sc!RunRows
  BY DEF Sc!Inv, Sc!TypeOK

\* A job that begins has a row of its own; Single schedules get no second job.
LEMMA SchedBegin ==
  ASSUME Sc!Inv, NEW others, others \subseteq jobs, NEW s \in Schedule, NEW manual \in BOOLEAN, table[s].there,
         Sc!Begin(others, s, manual), UNCHANGED <<table, poll, edit, fired, crowded>>,
         ~manual => Sc!Task(s) \in jobs /\ others = jobs \ {Sc!Task(s)}
  PROVE  Sc!Inv'
  <1> DEFINE row == [s |-> s, status |-> "running"]
             on == [s |-> s, pc |-> "acting", run |-> Len(runs) + 1, manual |-> manual]
  <1>1. jobs' = others \cup {on} /\ runs' = Append(runs, row)
    BY DEF Sc!Begin
  <1>2. runs \in Seq(Sc!RunRows) /\ Len(runs) \in Nat /\ DOMAIN runs = 1..Len(runs)
    BY SchedRows
  <1>3. row \in Sc!RunRows
    BY DEF Sc!RunRows
  <1>4. /\ runs' \in Seq(Sc!RunRows) /\ DOMAIN runs' = 1..(Len(runs) + 1)
        /\ runs'[Len(runs) + 1] = row /\ \A r \in DOMAIN runs : runs'[r] = runs[r]
    BY <1>1, <1>2, <1>3
  <1>5. on.s = s /\ on.pc = "acting" /\ on.run = Len(runs) + 1 /\ on.manual = manual /\ on \in Sc!Jobs
    BY <1>2 DEF Sc!Jobs
  <1> HIDE DEF on
  <1>6. Sc!TypeOK'
    BY <1>1, <1>4, <1>5 DEF Sc!Inv, Sc!TypeOK
  <1>7. Sc!PolledOnce' /\ Sc!FiredIsOver'
    BY DEF Sc!Inv, Sc!PolledOnce, Sc!FiredIsOver, Sc!Polled
  <1>8. Sc!RowsOfJobs'
    <2>1. \A i \in jobs : i.pc = "acting" => i.run \in 1..Len(runs)
      BY <1>2 DEF Sc!Inv, Sc!RowsOfJobs
    <2> QED BY <1>1, <1>2, <1>4, <1>5, <2>1 DEF Sc!Inv, Sc!RowsOfJobs
  <1>9. Sc!ReplacesItsOwn'
    BY <1>2, <1>4 DEF Sc!Inv, Sc!ReplacesItsOwn, Sc!Current
  <1>10. Sc!RowSaysSo'
    <2> SUFFICES ASSUME NEW t \in Schedule, Sc!Single(t), table[t].there, NEW i \in jobs',
                        i.s = t, ~i.manual, i.pc = "acting"
                 PROVE runs'[i.run] = [s |-> t, status |-> "running"]
      BY DEF Sc!RowSaysSo, Sc!Own
    <2>1. CASE i = on
      BY <1>4, <1>5, <2>1
    <2>2. CASE i # on
      <3>1. i \in Sc!Own(t) /\ i \in jobs
        BY <1>1, <2>2 DEF Sc!Own
      <3>2. i.run \in DOMAIN runs /\ runs[i.run] = [s |-> t, status |-> "running"]
        BY <3>1 DEF Sc!Inv, Sc!RowsOfJobs, Sc!RowSaysSo
      <3> QED BY <1>4, <3>2
    <2> QED BY <2>1, <2>2
  <1>11. Sc!OneTask'
    <2> SUFFICES ASSUME ~crowded, NEW t \in Schedule, Sc!Single(t)
                 PROVE /\ table[t].there => \A i, k \in Sc!Own(t)' : i = k
                       /\ \A i, k \in Sc!Own(t)' : i.pc = "acting" /\ k.pc = "acting" => i = k
                       /\ table[t].there /\ poll.pc = "start" /\ Sc!Current.s = t => Sc!Own(t)' = {}
      BY DEF Sc!OneTask, Sc!Current
    <2>1. CASE t # s \/ manual
      <3>1. Sc!Own(t)' \subseteq Sc!Own(t)
        BY <1>1, <1>5, <2>1 DEF Sc!Own
      <3> QED BY <3>1 DEF Sc!Inv, Sc!OneTask
    <2>2. CASE t = s /\ ~manual
      <3>1. Sc!Task(s) \in Sc!Own(t)
        BY <2>2 DEF Sc!Own, Sc!Task
      <3>2. \A i \in Sc!Own(t) : i = Sc!Task(s)
        BY <2>2, <3>1 DEF Sc!Inv, Sc!OneTask
      <3>3. \A i \in Sc!Own(t)' : i = on
        BY <1>1, <2>2, <3>2 DEF Sc!Own
      <3>4. ~(poll.pc = "start" /\ Sc!Current.s = t)
        BY <2>2, <3>1 DEF Sc!Inv, Sc!OneTask
      <3> QED BY <3>3, <3>4
    <2> QED BY <2>1, <2>2
  <1> QED BY <1>6, <1>7, <1>8, <1>9, <1>10, <1>11 DEF Sc!Inv

\* A job that was queued enters.
LEMMA SchedEnter == ASSUME Sc!Inv, NEW j \in jobs, Sc!Enter(j) PROVE Sc!Inv'
  <1>1. /\ UNCHANGED <<host, starts, table, poll, edit, ticks, edits, fired, crowded>>
        /\ j.pc = "queued"
    BY DEF Sc!Enter
  <1>2. j.s \in Schedule /\ j = Sc!Task(j.s)
    BY <1>1 DEF Sc!Inv, Sc!TypeOK, Sc!Jobs, Sc!Task
  <1>3. CASE ~table[j.s].there
    <2>1. jobs' = jobs \ {j} /\ runs' = runs
      BY <1>3 DEF Sc!Enter
    <2> QED BY <1>1, <2>1, SchedIdle DEF Sc!Inv, Sc!TypeOK
  <1>4. CASE table[j.s].there
    <2>1. Sc!Begin(jobs \ {j}, j.s, FALSE)
      BY <1>4 DEF Sc!Enter
    <2> QED BY <1>1, <1>2, <1>4, <2>1, SchedBegin
  <1> QED BY <1>3, <1>4

\* A run asked for by hand begins at once.
LEMMA SchedRunNow == ASSUME Sc!Inv, NEW s \in Schedule, Sc!RunNow(s) PROVE Sc!Inv'
  <1>1. Sc!Begin(jobs, s, TRUE) /\ table[s].there /\ UNCHANGED <<table, poll, edit, fired, crowded>>
    BY DEF Sc!RunNow
  <1> QED BY <1>1, SchedBegin

\* The status of a row changes, which no job of a Single schedule has any more.
LEMMA SchedStatus ==
  ASSUME Sc!Inv, NEW r \in DOMAIN runs, NEW status \in {"completed", "failed", "pruned"},
         runs' = [runs EXCEPT ![r].status = status], jobs' \subseteq jobs,
         \A j \in jobs' : j.pc = "acting" => j.run # r, UNCHANGED <<table, poll, edit, fired, crowded>>
  PROVE  Sc!Inv'
  <1>1. runs \in Seq(Sc!RunRows) /\ Len(runs) \in Nat /\ DOMAIN runs = 1..Len(runs) /\ runs[r] \in Sc!RunRows
    BY SchedRows
  <1>2. /\ runs' \in Seq(Sc!RunRows) /\ DOMAIN runs' = DOMAIN runs
        /\ \A q \in DOMAIN runs : runs'[q].s = runs[q].s /\ (q # r => runs'[q] = runs[q])
    <2> DEFINE row == [runs[r] EXCEPT !.status = status]
    <2>1. row \in Sc!RunRows /\ row.s = runs[r].s
      BY <1>1 DEF Sc!RunRows
    <2>2. runs' = [runs EXCEPT ![r] = row]
      OBVIOUS
    <2> HIDE DEF row
    <2> QED BY <1>1, <2>1, <2>2
  <1>3. Sc!TypeOK'
    BY <1>2 DEF Sc!Inv, Sc!TypeOK
  <1>4. Sc!PolledOnce' /\ Sc!FiredIsOver' /\ Sc!RowsOfJobs' /\ Sc!ReplacesItsOwn'
    BY <1>2 DEF Sc!Inv, Sc!PolledOnce, Sc!FiredIsOver, Sc!Polled, Sc!RowsOfJobs,
       Sc!ReplacesItsOwn, Sc!Current
  <1>5. Sc!RowSaysSo'
    <2> SUFFICES ASSUME NEW s \in Schedule, Sc!Single(s), table[s].there, NEW j \in Sc!Own(s)', j.pc = "acting"
                 PROVE runs'[j.run] = [s |-> s, status |-> "running"]
      BY DEF Sc!RowSaysSo
    <2>1. j \in Sc!Own(s) /\ j \in jobs /\ j.run # r
      BY DEF Sc!Own
    <2>2. j.run \in DOMAIN runs /\ runs[j.run] = [s |-> s, status |-> "running"]
      BY <2>1 DEF Sc!Inv, Sc!RowsOfJobs, Sc!RowSaysSo
    <2> QED BY <1>2, <2>1, <2>2
  <1>6. Sc!OneTask'
    BY DEF Sc!Inv, Sc!OneTask, Sc!Own, Sc!Current
  <1> QED BY <1>3, <1>4, <1>5, <1>6 DEF Sc!Inv

\* A job that ends.
LEMMA SchedFinish ==
  ASSUME Sc!Inv, NEW j \in jobs, NEW status \in {"completed", "failed"}, Sc!Finish(j, status)
  PROVE  Sc!Inv'
  <1>1. /\ UNCHANGED <<table, poll, edit, fired, crowded>> /\ jobs' = jobs \ {j} /\ j.pc = "acting"
        /\ runs' = runs \/ runs' = [runs EXCEPT ![j.run].status = status]
    BY DEF Sc!Finish
  <1>2. j.run \in DOMAIN runs /\ \A i \in jobs' : i.pc = "acting" => i.run # j.run
    BY <1>1 DEF Sc!Inv, Sc!RowsOfJobs
  <1>3. CASE runs' = runs
    BY <1>1, <1>3, SchedIdle DEF Sc!Inv, Sc!TypeOK
  <1>4. CASE runs' = [runs EXCEPT ![j.run].status = status]
    BY <1>1, <1>2, <1>4, SchedStatus
  <1> QED BY <1>1, <1>3, <1>4

\* Old rows that nobody runs go.
LEMMA SchedPrune == ASSUME Sc!Inv, NEW r \in DOMAIN runs, Sc!Prune(r) PROVE Sc!Inv'
  BY SchedStatus DEF Sc!Prune

\* Of the table only what says when a schedule comes due changes, or a row goes.
LEMMA SchedTable ==
  ASSUME Sc!Inv, table' \in [Schedule -> Sc!Rows], fired' \in [Schedule -> Nat],
         \A s \in Schedule : table'[s].there => table[s].there,
         \A s \in Schedule : fired'[s] # 0 => fired'[s] = fired[s] /\ (table[s].next = "none" => table'[s].next = "none"),
         edit' = Sc!NoEdit \/ edit' \in [s : Schedule, row : Sc!Rows], UNCHANGED <<runs, poll, jobs, crowded>>
  PROVE  Sc!Inv'
  <1>1. Sc!TypeOK' /\ Sc!PolledOnce' /\ Sc!FiredIsOver'
    BY DEF Sc!Inv, Sc!TypeOK, Sc!PolledOnce, Sc!FiredIsOver, Sc!Polled
  <1>2. Sc!RowsOfJobs' /\ Sc!ReplacesItsOwn' /\ Sc!RowSaysSo'
    BY DEF Sc!Inv, Sc!RowsOfJobs, Sc!ReplacesItsOwn, Sc!RowSaysSo, Sc!Own, Sc!Current
  <1>3. Sc!OneTask'
    BY DEF Sc!Inv, Sc!OneTask, Sc!Own, Sc!Current
  <1> QED BY <1>1, <1>2, <1>3 DEF Sc!Inv

\* Time passes for a schedule.
LEMMA SchedTick == ASSUME Sc!Inv, NEW s \in Schedule, Sc!Tick(s) PROVE Sc!Inv'
  <1>1. /\ UNCHANGED <<host, starts, runs, poll, jobs, edit, edits, fired, crowded>>
        /\ table' = [table EXCEPT ![s].next = "due"] /\ table[s].next = "later"
    BY DEF Sc!Tick
  <1>2. table[s] \in Sc!Rows /\ table \in [Schedule -> Sc!Rows]
    BY DEF Sc!Inv, Sc!TypeOK
  <1> DEFINE row == [table[s] EXCEPT !.next = "due"]
  <1>3. row \in Sc!Rows /\ row.there = table[s].there
    BY <1>2 DEF Sc!Rows
  <1>4. table' = [table EXCEPT ![s] = row]
    BY <1>1
  <1> HIDE DEF row
  <1>5. table' \in [Schedule -> Sc!Rows] /\ table'[s] = row /\ \A t \in Schedule \ {s} : table'[t] = table[t]
    BY <1>2, <1>3, <1>4
  <1> QED BY <1>1, <1>3, <1>5, SchedTable DEF Sc!Inv, Sc!TypeOK

\* An edit of a schedule keeps what has fired fired.
LEMMA SchedUpdate ==
  ASSUME Sc!Inv, NEW change \in {"pause", "resume", "timing", "text"}, Sc!UpdateWrite(change)
  PROVE  Sc!Inv'
  <1> DEFINE s == edit.s
             row == CASE change = "pause" -> [edit.row EXCEPT !.enabled = FALSE]
                      [] change = "resume" -> [edit.row EXCEPT !.enabled = TRUE]
                      [] change = "timing" -> [edit.row EXCEPT !.next = "later"]
                      [] change = "text" -> edit.row
  <1>1. /\ UNCHANGED <<runs, poll, jobs, crowded>> /\ edit' = Sc!NoEdit
        /\ edit # Sc!NoEdit
        /\ table' = IF table[s].there THEN [table EXCEPT ![s] = row] ELSE table
        /\ fired' = IF change = "timing" \/ table[s] # edit.row \/ change = "resume"
                    THEN [fired EXCEPT ![s] = 0] ELSE fired
    BY DEF Sc!UpdateWrite
  <1>2. s \in Schedule /\ edit.row \in Sc!Rows
    BY <1>1 DEF Sc!Inv, Sc!TypeOK
  <1>3. row \in Sc!Rows /\ (change \notin {"timing"} => row.next = edit.row.next)
    BY <1>2 DEF Sc!Rows
  <1> HIDE DEF row
  <1>4. table \in [Schedule -> Sc!Rows] /\ fired \in [Schedule -> Nat]
    BY DEF Sc!Inv, Sc!TypeOK
  <1>5. table' \in [Schedule -> Sc!Rows] /\ fired' \in [Schedule -> Nat]
    BY <1>1, <1>2, <1>3, <1>4
  <1>6. \A t \in Schedule : table'[t].there => table[t].there
    BY <1>1, <1>2, <1>4
  <1>7. \A t \in Schedule :
          fired'[t] # 0 => fired'[t] = fired[t] /\ (table[t].next = "none" => table'[t].next = "none")
    BY <1>1, <1>2, <1>3, <1>4
  <1> QED BY <1>1, <1>5, <1>6, <1>7, SchedTable

\* A schedule that is deleted takes its rows with it.
LEMMA SchedDelete ==
  ASSUME Sc!Inv, Sc!NoSchedule \notin Schedule, NEW s \in Schedule, Sc!Delete(s)
  PROVE  Sc!Inv'
  <1>1. /\ UNCHANGED <<host, starts, poll, jobs, edit, ticks, fired, crowded>>
        /\ table' = [table EXCEPT ![s].there = FALSE]
        /\ runs' = [r \in DOMAIN runs |-> IF runs[r].s = s THEN [runs[r] EXCEPT !.s = Sc!NoSchedule] ELSE runs[r]]
    BY DEF Sc!Delete
  <1>2. runs \in Seq(Sc!RunRows) /\ Len(runs) \in Nat /\ DOMAIN runs = 1..Len(runs) /\ table \in [Schedule -> Sc!Rows]
    BY SchedRows DEF Sc!Inv, Sc!TypeOK
  <1>3. /\ runs' \in Seq(Sc!RunRows) /\ DOMAIN runs' = DOMAIN runs
        /\ \A r \in DOMAIN runs : runs'[r].s \in {runs[r].s, Sc!NoSchedule} /\ (runs[r].s # s => runs'[r] = runs[r])
    <2>1. \A r \in DOMAIN runs : runs'[r] \in Sc!RunRows /\ runs'[r].s \in {runs[r].s, Sc!NoSchedule}
                                 /\ (runs[r].s # s => runs'[r] = runs[r])
      <3> TAKE r \in DOMAIN runs
      <3>1. runs[r] \in Sc!RunRows
        BY SchedRows
      <3>2. runs'[r] = IF runs[r].s = s THEN [runs[r] EXCEPT !.s = Sc!NoSchedule] ELSE runs[r]
        BY <1>1
      <3> QED BY <3>1, <3>2 DEF Sc!RunRows
    <2>2. runs' = [r \in 1..Len(runs) |-> runs'[r]]
      BY <1>1, <1>2
    <2> QED BY <1>2, <2>1, <2>2, SequenceOf
  <1>4. /\ table' \in [Schedule -> Sc!Rows] /\ ~table'[s].there /\ table'[s].next = table[s].next
        /\ \A t \in Schedule \ {s} : table'[t] = table[t]
    <2> DEFINE row == [table[s] EXCEPT !.there = FALSE]
    <2>1. row \in Sc!Rows /\ ~row.there /\ row.next = table[s].next
      BY <1>2 DEF Sc!Rows
    <2>2. table' = [table EXCEPT ![s] = row]
      BY <1>1
    <2> HIDE DEF row
    <2> QED BY <1>2, <2>1, <2>2
  <1>5. Sc!TypeOK' /\ Sc!PolledOnce' /\ Sc!FiredIsOver'
    BY <1>1, <1>3, <1>4 DEF Sc!Inv, Sc!TypeOK, Sc!PolledOnce, Sc!FiredIsOver, Sc!Polled
  <1>6. Sc!RowsOfJobs' /\ Sc!ReplacesItsOwn'
    BY <1>1, <1>3 DEF Sc!Inv, Sc!RowsOfJobs, Sc!ReplacesItsOwn, Sc!Current
  <1>7. Sc!RowSaysSo'
    BY <1>1, <1>3, <1>4 DEF Sc!Inv, Sc!RowsOfJobs, Sc!RowSaysSo, Sc!Own
  <1>8. Sc!OneTask'
    BY <1>1, <1>4 DEF Sc!Inv, Sc!OneTask, Sc!Own, Sc!Current
  <1> QED BY <1>5, <1>6, <1>7, <1>8 DEF Sc!Inv

\* Every step keeps the invariant.
LEMMA SchedNext == ASSUME Sc!Inv, [Sc!Next]_Sc!vars, Sc!NoSchedule \notin Schedule PROVE Sc!Inv'
  <1>1. CASE Sc!PollRead
    BY <1>1, SchedPollRead
  <1>2. CASE Sc!OverlapLook
    BY <1>2, SchedLook
  <1>3. CASE Sc!OverlapReplace
    BY <1>3, SchedReplace
  <1>4. CASE Sc!Advance
    BY <1>4, SchedAdvance
  <1>5. CASE Sc!AdvanceRaises
    BY <1>5, SchedIdle DEF Sc!AdvanceRaises, Sc!Inv, Sc!TypeOK
  <1>6. CASE \E r \in DOMAIN runs : Sc!Prune(r)
    BY <1>6, SchedPrune
  <1>7. CASE \E j \in jobs : Sc!Enter(j)
    BY <1>7, SchedEnter
  <1>8. CASE \E j \in jobs, status \in {"completed", "failed"} : Sc!Finish(j, status)
    BY <1>8, SchedFinish
  <1>9. CASE \E s \in Schedule : Sc!RunNow(s)
    BY <1>9, SchedRunNow
  <1>10. CASE \E s \in Schedule : Sc!Tick(s)
    BY <1>10, SchedTick
  <1>11. CASE \E s \in Schedule : Sc!UpdateRead(s)
    BY <1>11, SchedIdle DEF Sc!UpdateRead, Sc!Inv, Sc!TypeOK
  <1>12. CASE \E s \in Schedule : Sc!Delete(s)
    BY <1>12, SchedDelete
  <1>13. CASE \E change \in {"pause", "resume", "timing", "text"} : Sc!UpdateWrite(change)
    BY <1>13, SchedUpdate
  <1>14. CASE Sc!Start \/ Sc!StopService \/ Sc!Exit \/ UNCHANGED Sc!vars
    BY <1>14, SchedIdle DEF Sc!Start, Sc!StopService, Sc!Exit, Sc!vars, Sc!Inv, Sc!TypeOK
  <1> QED BY <1>1, <1>2, <1>3, <1>4, <1>5, <1>6, <1>7, <1>8, <1>9, <1>10, <1>11, <1>12, <1>13, <1>14
          DEF Sc!Next, Sc!Poll, Sc!Job, Sc!User

\* The invariant says what RunsAsScheduled asks.
LEMMA SchedGives == Sc!Inv => Sc!RunsAsScheduled
  <1> SUFFICES ASSUME Sc!Inv PROVE Sc!RunsAsScheduled
    OBVIOUS
  <1>1. Sc!OnceOnly
    BY DEF Sc!OnceOnly, Sc!Inv, Sc!FiredIsOver, Sc!TypeOK
  <1>2. Sc!NoOverlap
    <2>1. \A s \in Schedule, i \in Sc!Acting : i.s = s => i \in Sc!Own(s) /\ i.pc = "acting"
      BY DEF Sc!Acting, Sc!Own
    <2> QED BY <2>1 DEF Sc!NoOverlap, Sc!Inv, Sc!OneTask, Sc!Single, Sc!TypeOK
  <1> QED BY <1>1, <1>2 DEF Sc!RunsAsScheduled

-----------------------------------------------------------------------------
(* Script.  The record is what was captured once the session is closed,    *)
(* and nothing is captured after; what is shown was captured, each message *)
(* once.                                                                   *)

\* A snapshot shows what was captured and not shown yet, each message once.
LEMMA ScriptShow == ASSUME Sn!Inv, Sn!Show(captured)
  PROVE /\ shown' \in Seq(Sn!ToSet(Message)) /\ Sn!ToSet(shown') = Sn!ToSet(captured)
        /\ \A i, j \in DOMAIN shown' : i # j => shown'[i] # shown'[j]
  <1> DEFINE M == Sn!ToSet(Message)
             Firsts == Sn!Fresh(captured)
  <1> DEFINE ShownAs(n, pos) ==
        /\ Firsts = {pos[k] : k \in 1..n}
        /\ \A j, k \in 1..n : j < k => pos[j] < pos[k]
        /\ shown' = shown \o [k \in 1..n |-> captured[pos[k]]]
  <1>1. PICK n \in 0..Len(captured) : \E pos \in [1..n -> Firsts] : ShownAs(n, pos)
    BY Zenon DEF Sn!Show
  <1>2. PICK pos \in [1..n -> Firsts] : ShownAs(n, pos)
    BY <1>1
  <1>3. captured \in Seq(M) /\ shown \in Seq(M) /\ n \in Nat /\ Len(shown) \in Nat /\ DOMAIN shown = 1..Len(shown)
    BY DEF Sn!Inv, Sn!TypeOK
  <1>4. \A i \in Firsts : i \in DOMAIN captured /\ captured[i] \in M /\ captured[i] \notin Sn!ToSet(shown)
                     /\ \A j \in DOMAIN captured : captured[j] = captured[i] => j >= i
    BY <1>3 DEF Sn!Fresh
  <1> DEFINE more == [k \in 1..n |-> captured[pos[k]]]
  <1>5. more \in Seq(M) /\ Len(more) = n /\ \A k \in 1..n : more[k] = captured[pos[k]] /\ pos[k] \in Firsts
    BY <1>3, <1>4
  <1>6. \A j, k \in 1..n : j # k => more[j] # more[k]
    <2> SUFFICES ASSUME NEW j \in 1..n, NEW k \in 1..n, j < k PROVE more[j] # more[k]
      OBVIOUS
    <2>1. pos[j] < pos[k] /\ pos[j] \in Firsts /\ pos[k] \in Firsts
      BY <1>2
    <2> HIDE DEF Firsts
    <2>2. DOMAIN captured \subseteq Nat
      BY <1>3
    <2> QED BY <1>4, <1>5, <2>1, <2>2
  <1>7. shown' = shown \o more
    BY <1>2
  <1> HIDE DEF more, Firsts
  <1>8. /\ shown' \in Seq(M) /\ DOMAIN shown' = 1..(Len(shown) + n)
        /\ \A i \in 1..Len(shown) : shown'[i] = shown[i]
        /\ \A i \in (Len(shown) + 1)..(Len(shown) + n) : i - Len(shown) \in 1..n /\ shown'[i] = more[i - Len(shown)]
    <2> DEFINE old == shown
    <2>1. old \in Seq(M) /\ more \in Seq(M) /\ Len(more) = n
      BY <1>3, <1>5
    <2> HIDE DEF M
    <2>2. /\ old \o more \in Seq(M) /\ DOMAIN (old \o more) = 1..(Len(old) + n)
          /\ \A i \in 1..Len(old) : (old \o more)[i] = old[i]
          /\ \A i \in (Len(old) + 1)..(Len(old) + n) : i - Len(old) \in 1..n /\ (old \o more)[i] = more[i - Len(old)]
      BY <2>1, SequenceConcat
    <2> QED BY <1>7, <2>2
  <1>9. \A k \in 1..n : more[k] \notin Sn!ToSet(shown)
    BY <1>4, <1>5
  <1>10. \A i, j \in DOMAIN shown' : i # j => shown'[i] # shown'[j]
    <2>1. \A i, j \in 1..Len(shown) : i # j => shown[i] # shown[j]
      BY <1>3 DEF Sn!Inv, Sn!ShownOnce
    <2>2. \A i \in 1..Len(shown) : shown[i] \in Sn!ToSet(shown)
      BY <1>3 DEF Sn!ToSet
    <2> SUFFICES ASSUME NEW i \in DOMAIN shown', NEW j \in DOMAIN shown', i < j PROVE shown'[i] # shown'[j]
      BY <1>8
    <2>3. CASE j <= Len(shown)
      BY <1>8, <1>3, <2>1, <2>3
    <2>4. CASE j > Len(shown) /\ i <= Len(shown)
      <3>1. i \in 1..Len(shown) /\ j \in (Len(shown) + 1)..(Len(shown) + n)
        BY <1>3, <1>8, <2>4
      <3>2. shown'[i] = shown[i] /\ shown'[j] = more[j - Len(shown)] /\ j - Len(shown) \in 1..n
        BY <1>8, <3>1
      <3> QED BY <1>9, <2>2, <3>1, <3>2
    <2>5. CASE i > Len(shown)
      BY <1>8, <1>3, <1>6, <2>5
    <2> QED BY <1>3, <1>8, <2>3, <2>4, <2>5
  <1>11. Sn!ToSet(shown') \subseteq Sn!ToSet(captured)
    <2> SUFFICES ASSUME NEW i \in DOMAIN shown' PROVE shown'[i] \in Sn!ToSet(captured)
      BY DEF Sn!ToSet
    <2>1. CASE i <= Len(shown)
      <3>1. i \in DOMAIN shown /\ shown'[i] = shown[i]
        BY <1>3, <1>8, <2>1
      <3>2. shown[i] \in Sn!ToSet(shown)
        BY <3>1 DEF Sn!ToSet
      <3> QED BY <3>1, <3>2 DEF Sn!Inv
    <2>2. CASE i > Len(shown)
      BY <1>8, <1>3, <1>4, <1>5, <2>2 DEF Sn!ToSet
    <2> QED BY <1>3, <1>8, <2>1, <2>2
  <1>12. Sn!ToSet(captured) \subseteq Sn!ToSet(shown')
    <2> SUFFICES ASSUME NEW i \in DOMAIN captured PROVE captured[i] \in Sn!ToSet(shown')
      BY DEF Sn!ToSet
    <2>1. CASE captured[i] \in Sn!ToSet(shown)
      <3>1. PICK k \in DOMAIN shown : shown[k] = captured[i]
        BY <2>1 DEF Sn!ToSet
      <3>2. k \in DOMAIN shown' /\ shown'[k] = captured[i]
        BY <1>3, <1>8, <3>1
      <3> QED BY <3>2 DEF Sn!ToSet
    <2>2. CASE captured[i] \notin Sn!ToSet(shown)
      <3> DEFINE S == {j \in DOMAIN captured : captured[j] = captured[i]}
      <3>1. S \subseteq Nat /\ S # {}
        BY <1>3
      <3>2. PICK x \in S : \A y \in S : y >= x
        BY <3>1, Least
      <3>3. x \in Firsts
        BY <2>2, <3>2 DEF Firsts, Sn!Fresh
      <3>4. PICK k \in 1..n : pos[k] = x
        BY <1>2, <3>3
      <3>5. more[k] = captured[i]
        BY <1>5, <3>2, <3>4
      <3> DEFINE place == Len(shown) + k
      <3>6. place \in DOMAIN shown' /\ shown'[place] = more[k]
        <4>1. place \in (Len(shown) + 1)..(Len(shown) + n) /\ place - Len(shown) = k /\ place \in 1..(Len(shown) + n)
          BY <1>3
        <4> HIDE DEF place
        <4> QED BY <1>8, <4>1
      <3> QED BY <3>5, <3>6 DEF Sn!ToSet
    <2> QED BY <2>1, <2>2
  <1> QED BY <1>8, <1>10, <1>11, <1>12

\* The invariant holds at the start.
LEMMA ScriptInit == Sn!Init => Sn!Inv
  BY MessagesAreASequence DEF Sn!Init, Sn!Inv, Sn!TypeOK, Sn!RecordIsWhole, Sn!ShownOnce, Sn!ToSet

\* Every step keeps the invariant.
LEMMA ScriptNext == Sn!Inv /\ [Sn!Next]_Sn!vars => Sn!Inv'
  <1> SUFFICES ASSUME Sn!Inv, [Sn!Next]_Sn!vars PROVE Sn!Inv'
    OBVIOUS
  <1> USE DEF Sn!RecordIsWhole, Sn!ShownOnce
  <1>1. Len(Message) \in Nat /\ DOMAIN Message = 1..Len(Message)
    BY MessagesAreASequence
  <1>2. said \in 0..Len(Message) /\ call \in Nat /\ (call > 0 => said < Len(Message)) /\ workers \subseteq Sn!Requests
    BY DEF Sn!Inv, Sn!TypeOK
  <1>3. \A try \in Nat : said < Len(Message) => Sn!Worker(Sn!Current, try) \in Sn!Requests
    BY <1>1, <1>2 DEF Sn!Worker, Sn!Current, Sn!Requests
  \* Steps that show and capture nothing, and record nothing.
  <1>4. ASSUME said' \in 0..Len(Message), call' \in Nat, call' > 0 => said' < Len(Message), workers' \subseteq Sn!Requests,
               UNCHANGED <<captured, shown, record>>,
               run' \in {"recorded", "completed"} => run' = run /\ session' = session
        PROVE  Sn!Inv'
    BY <1>4 DEF Sn!Inv, Sn!TypeOK
  <1>5. CASE Sn!Emit
    BY <1>1, <1>5, <1>4, <1>2, <1>3 DEF Sn!Emit
  <1>6. CASE Sn!CallTimeout
    BY <1>1, <1>6, <1>4, <1>2, <1>3 DEF Sn!CallTimeout, Sn!Again, Sn!Current
  <1>7. CASE Sn!ChildExits \/ Sn!OrphanExits
    BY <1>7, <1>4, <1>2 DEF Sn!ChildExits, Sn!OrphanExits
  <1>8. ASSUME NEW w \in workers, NEW pc \in {"sent", "held", "checked", "done", "unauthorized"}
        PROVE  Sn!Step(w, pc) \subseteq Sn!Requests /\ w \in Sn!Requests
    BY <1>2 DEF Sn!Step, Sn!Requests
  <1>9. ASSUME NEW w \in workers, Sn!Lookup(w) \/ Sn!Dispatch(w) PROVE Sn!Inv'
    BY <1>8, <1>9, <1>4, <1>2 DEF Sn!Lookup, Sn!Dispatch
  <1>10. ASSUME NEW w \in workers, Sn!Answered(w) PROVE Sn!Inv'
    <2>1. w \in Sn!Requests /\ workers' \subseteq Sn!Requests
      BY <1>10, <1>2 DEF Sn!Answered
    <2>2. CASE Sn!Waited(w)
      <3>1. said' = Sn!Current /\ call' = 0 /\ Sn!Current \in 0..Len(Message)
        BY <1>10, <1>2, <2>1, <2>2 DEF Sn!Answered, Sn!Waited, Sn!Current, Sn!Requests
      <3> QED BY <1>10, <1>4, <2>1, <3>1 DEF Sn!Answered
    <2>3. CASE ~Sn!Waited(w)
      BY <1>10, <1>4, <1>2, <2>1, <2>3 DEF Sn!Answered
    <2> QED BY <2>2, <2>3
  <1>11. ASSUME NEW w \in workers, Sn!Unauthorized(w) PROVE Sn!Inv'
    <2>1. Sn!Current \in 1..Len(Message) /\ said < Len(Message)
      BY <1>1, <1>11, <1>2 DEF Sn!Unauthorized, Sn!Waited, Sn!Requests, Sn!Current
    <2>2. workers' \subseteq Sn!Requests /\ said' \in 0..Len(Message) /\ call' \in Nat /\ (call' > 0 => said' < Len(Message))
      BY <1>11, <1>2, <1>3, <2>1 DEF Sn!Unauthorized
    <2> QED BY <1>11, <1>4, <2>2 DEF Sn!Unauthorized
  <1>12. ASSUME NEW w \in workers, Sn!EmitEvent(w) PROVE Sn!Inv'
    <2>1. workers' \subseteq Sn!Requests /\ w.msg \in DOMAIN Message
      BY <1>1, <1>8, <1>12, <1>2 DEF Sn!EmitEvent, Sn!Requests
    <2>2. UNCHANGED <<run, session, said, call, record, shown>>
      BY <1>12 DEF Sn!EmitEvent
    <2>3. CASE session = "closed"
      BY <1>12, <1>4, <1>2, <2>1, <2>2, <2>3 DEF Sn!EmitEvent
    <2>4. CASE session # "closed"
      <3>1. captured' = Append(captured, Message[w.msg]) /\ run \notin {"recorded", "completed"}
        BY <1>12, <2>4 DEF Sn!EmitEvent, Sn!Inv
      <3>2. Message[w.msg] \in Sn!ToSet(Message) /\ captured \in Seq(Sn!ToSet(Message))
        BY <2>1 DEF Sn!ToSet, Sn!Inv, Sn!TypeOK
      <3>3. captured' \in Seq(Sn!ToSet(Message)) /\ \A i \in DOMAIN captured : i \in DOMAIN captured' /\ captured'[i] = captured[i]
        BY <3>1, <3>2
      <3>4. Sn!ToSet(captured) \subseteq Sn!ToSet(captured')
        BY <3>3 DEF Sn!ToSet
      <3> QED BY <2>1, <2>2, <3>1, <3>3, <3>4 DEF Sn!Inv, Sn!TypeOK
    <2> QED BY <2>3, <2>4
  <1>13. CASE Sn!CreateRunRecord
    BY <1>13 DEF Sn!CreateRunRecord, Sn!Inv, Sn!TypeOK
  <1>14. CASE Sn!OpenSession \/ Sn!StartProcess \/ Sn!Exited \/ Sn!KillProcessTree \/ Sn!Drained \/ Sn!Cancelled \/ Sn!PopSession
    BY <1>14, <1>4, <1>2 DEF Sn!OpenSession, Sn!StartProcess, Sn!Exited, Sn!KillProcessTree,
       Sn!Drained, Sn!Cancelled, Sn!PopSession
  <1>15. CASE Sn!CloseSession
    BY <1>15 DEF Sn!CloseSession, Sn!Inv, Sn!TypeOK
  <1>16. CASE Sn!Partial \/ Sn!Interrupted
    <2>1. Sn!Show(captured) /\ UNCHANGED <<session, said, call, workers, captured, record>> /\ run' \notin {"recorded", "completed"}
      BY <1>16 DEF Sn!Partial, Sn!Interrupted
    <2> QED BY <2>1, ScriptShow DEF Sn!Inv, Sn!TypeOK
  <1>17. CASE Sn!CompleteRun
    BY <1>17 DEF Sn!CompleteRun, Sn!Inv, Sn!TypeOK
  <1>18. CASE Sn!Completed
    <2>1. Sn!Show(captured) /\ UNCHANGED <<session, said, call, workers, captured, record>>
      BY <1>18 DEF Sn!Completed
    <2>2. record = captured /\ session = "closed"
      BY <1>18 DEF Sn!Completed, Sn!Inv
    <2> QED BY <2>1, <2>2, ScriptShow DEF Sn!Inv, Sn!TypeOK
  <1>19. CASE UNCHANGED Sn!vars
    BY <1>19, <1>4, <1>2 DEF Sn!vars
  <1> QED BY <1>5, <1>6, <1>7, <1>9, <1>10, <1>11, <1>12, <1>13, <1>14, <1>15, <1>16, <1>17, <1>18, <1>19
          DEF Sn!Next, Sn!Client, Sn!Server, Sn!Runner

\* The invariant says what MessagesAreKept asks.
LEMMA ScriptGives == Sn!Inv => Sn!MessagesAreKept
  BY DEF Sn!Inv, Sn!MessagesAreKept

-----------------------------------------------------------------------------
(* Plugins.  While a setup runs the start has not ended, so that nothing   *)
(* is stopped, and what it depends on stays as it was when it began.       *)

\* The invariant holds at the start.
LEMMA PluginsInit == P!Init => P!Inv
  BY DEF P!Init, P!Inv, P!States, P!SetUpInTime

\* A setup begins when all the plugin depends on runs; since no plugin depends on itself,
\* its own change of state takes nothing away.
LEMMA PluginsStart ==
    ASSUME \A p \in P!Plugin : p \notin Dependencies[p], P!Inv,
           P!Start \/ P!StartRaises \/ P!StartRecord \/ P!StartDone
    PROVE  P!Inv'
  <1>1. CASE P!Start
    BY <1>1 DEF P!Start, P!Inv, P!States, P!SetUpInTime
  <1>2. CASE P!StartRaises
    BY <1>2 DEF P!StartRaises, P!Inv, P!States, P!SetUpInTime
  <1>3. CASE P!StartRecord
    <2> DEFINE p == Head(toStart)
    <2>1. CASE \A d \in Dependencies[p] : P!Ready(d)
      <3>1. pstate' = [pstate EXCEPT ![p] = "starting"] /\ settingUp' = p
        BY <1>3, <2>1 DEF P!StartRecord
      <3>2. startTask = "starting" /\ startTask' = startTask /\ stopStage' = stopStage
        BY <1>3 DEF P!StartRecord
      <3> HIDE DEF p
      <3>3. \A d \in Dependencies[p] : P!Ready(d)'
        BY <2>1, <3>1 DEF P!Inv, P!Ready
      <3>4. pstate' \in [P!Plugin -> P!States]
        BY <3>1 DEF P!Inv, P!States
      <3> QED
        BY <3>1, <3>2, <3>3, <3>4 DEF P!Inv, P!SetUpInTime
    <2>2. CASE ~ \A d \in Dependencies[p] : P!Ready(d)
      <3>1. pstate' = [pstate EXCEPT ![p] = "failed"] /\ settingUp' = P!NoPlugin
        BY <1>3, <2>2 DEF P!StartRecord
      <3>2. startTask' = startTask /\ stopStage' = stopStage
        BY <1>3 DEF P!StartRecord
      <3> QED
        BY <3>1, <3>2 DEF P!Inv, P!States, P!SetUpInTime
    <2> QED
      BY <2>1, <2>2
  <1>4. CASE P!StartDone
    BY <1>4 DEF P!StartDone, P!Inv, P!SetUpInTime
  <1> QED
    BY <1>1, <1>2, <1>3, <1>4

\* Tasks and handlers turn a plugin that runs into one that runs with a warning at worst.
LEMMA PluginsRun ==
    ASSUME P!Inv, NEW p \in P!Plugin,
           \/ P!Register(p) \/ P!Subscribe(p) \/ P!SetupDone(p) \/ P!SetupFails(p)
           \/ P!CreateTask(p) \/ P!Publish(p) \/ P!HandlerEnds(p) \/ \E task \in P!Slot : P!TaskEnds(p, task)
    PROVE  P!Inv'
  <1> USE DEF P!Inv, P!States, P!SetUpInTime, P!Ready
  <1>1. CASE P!Register(p) \/ P!Subscribe(p) \/ P!CreateTask(p) \/ P!Publish(p)
    BY <1>1 DEF P!Register, P!Subscribe, P!CreateTask, P!Publish
  <1>2. CASE P!SetupDone(p) \/ P!SetupFails(p)
    <2>1. settingUp' = P!NoPlugin /\ UNCHANGED <<startTask, stopStage>>
      BY <1>2 DEF P!SetupDone, P!SetupFails
    <2>2. pstate' \in [P!Plugin -> P!States]
      BY <1>2 DEF P!SetupDone, P!SetupFails
    <2> QED
      BY <2>1, <2>2
  <1>3. CASE P!HandlerEnds(p)
    <2>1. UNCHANGED <<settingUp, startTask, stopStage>>
      BY <1>3 DEF P!HandlerEnds
    <2>2. pstate' \in [P!Plugin -> P!States] /\ \A d : P!Ready(d) => P!Ready(d)'
      BY <1>3 DEF P!HandlerEnds
    <2> QED
      BY <2>1, <2>2
  <1>4. ASSUME NEW task \in P!Slot, P!TaskEnds(p, task)
        PROVE  P!Inv'
    BY <1>4 DEF P!TaskEnds
  <1> QED
    BY <1>1, <1>2, <1>3, <1>4

\* Nothing is stopped before the start has ended.
LEMMA PluginsStop ==
    ASSUME P!Inv, P!Stop \/ P!NextRecord \/ P!HookFails \/ P!CancelTasks \/ P!Stopped \/ P!Drain
    PROVE  P!Inv'
  <1> USE DEF P!Inv, P!States, P!SetUpInTime, P!Ready
  <1>1. CASE P!Stop
    BY <1>1 DEF P!Stop
  <1>2. CASE P!NextRecord \/ P!CancelTasks \/ P!Drain
    BY <1>2 DEF P!NextRecord, P!CancelTasks, P!Drain
  <1>3. CASE P!HookFails
    BY <1>3 DEF P!HookFails
  <1>4. CASE P!Stopped
    BY <1>4 DEF P!Stopped
  <1> QED
    BY <1>1, <1>2, <1>3, <1>4

\* Every step keeps the invariant.
LEMMA PluginsNext ==
    ASSUME \A p \in P!Plugin : p \notin Dependencies[p], P!Inv, [P!Next]_P!pluginVars PROVE P!Inv'
  <1>1. CASE UNCHANGED P!pluginVars
    BY <1>1 DEF P!pluginVars, P!Inv, P!SetUpInTime, P!Ready
  <1> QED
    BY <1>1, PluginsStart, PluginsRun, PluginsStop DEF P!Next

\* The invariant says what SetUpOnDependencies asks.
LEMMA PluginsGives == P!Inv => P!SetUpOnDependencies
  BY DEF P!Inv, P!SetUpInTime, P!SetUpOnDependencies

-----------------------------------------------------------------------------
(* Store.  The row of a thread nobody crossed tells of its last event and  *)
(* its last compaction, and whoever has read it has what it says still.    *)

\* The invariant holds at the start.
LEMMA StoreInit == St!Init => St!Inv
  <1> SUFFICES ASSUME St!Init PROVE St!Inv
    OBVIOUS
  <1>1. St!TypeOK
    BY DEF St!Init, St!TypeOK, St!NoRow, St!Rows, St!Doings
  <1>2. St!UsedFirst /\ St!RowTells
    BY DEF St!Init, St!UsedFirst, St!RowTells, St!Tells, St!Idle, St!NoRow, St!OfThread,
       St!Compactions, St!Reading
  <1> QED BY <1>1, <1>2 DEF St!Inv

\* The parts of the invariant that most steps need.
LEMMA StoreFacts == ASSUME St!Inv PROVE
    /\ rows \in [ThreadIds -> St!Rows] /\ events \in Seq(St!EventRows) /\ Len(events) \in Nat /\ DOMAIN events = 1..Len(events)
    /\ doing \in [Clients -> St!Doings] /\ used \in SUBSET ThreadIds /\ crossed \in SUBSET ThreadIds
    /\ \A t \in ThreadIds : St!OfThread(t) \subseteq 1..Len(events) /\ St!Compactions(t) \subseteq St!OfThread(t)
    /\ St!NoRow \in St!Rows /\ St!NewRow \in St!Rows /\ St!NewRow.exists = TRUE /\ St!NewRow.last = 0 /\ St!NewRow.compaction = 0
    /\ \A t \in ThreadIds : St!ReadRow(t) \in St!Rows /\ St!ReadRow(t).exists
    /\ \A t \in ThreadIds : St!ReadRow(t).exists /\ (St!Tells(t) => St!ReadRow(t).last = rows[t].last /\ St!ReadRow(t).compaction = rows[t].compaction)
  <1>1. /\ rows \in [ThreadIds -> St!Rows] /\ events \in Seq(St!EventRows) /\ Len(events) \in Nat /\ DOMAIN events = 1..Len(events)
        /\ doing \in [Clients -> St!Doings] /\ used \in SUBSET ThreadIds /\ crossed \in SUBSET ThreadIds
    BY DEF St!Inv, St!TypeOK
  <1>2. \A t \in ThreadIds : St!OfThread(t) \subseteq 1..Len(events) /\ St!Compactions(t) \subseteq St!OfThread(t)
    BY <1>1 DEF St!OfThread, St!Compactions
  <1>3. /\ St!NoRow \in St!Rows /\ St!NewRow \in St!Rows /\ St!NewRow.exists = TRUE /\ St!NewRow.last = 0 /\ St!NewRow.compaction = 0
        /\ St!NoRow.last = 0 /\ St!NoRow.compaction = 0
    BY DEF St!NoRow, St!NewRow, St!Rows
  <1>4. \A t \in ThreadIds : St!ReadRow(t) \in St!Rows /\ St!ReadRow(t).exists
    BY <1>1, <1>3 DEF St!ReadRow
  <1>5. \A t \in ThreadIds : St!Tells(t) => St!ReadRow(t).last = rows[t].last /\ St!ReadRow(t).compaction = rows[t].compaction
    BY <1>3 DEF St!ReadRow, St!Tells
  <1> QED BY <1>1, <1>2, <1>3, <1>4, <1>5

\* A step that only takes up or drops work.
LEMMA StoreDoes ==
  ASSUME St!Inv, NEW c \in Clients, NEW d \in St!Doings, St!Does(c, d), UNCHANGED <<rows, events, used, crossed>>,
         d.op # "idle" => d.thread \in used,
         d.op \in {"append", "update"} => d.row = St!ReadRow(d.thread)
  PROVE  St!Inv'
  <1>1. doing' \in [Clients -> St!Doings] /\ doing'[c] = d /\ \A e \in Clients \ {c} : doing'[e] = doing[e]
    BY DEF St!Does, St!Inv, St!TypeOK
  <1>2. St!TypeOK'
    BY <1>1 DEF St!Inv, St!TypeOK
  <1>3. St!UsedFirst'
    BY <1>1 DEF St!Inv, St!UsedFirst, St!OfThread
  <1>4. St!RowTells'
    <2>1. \A t \in ThreadIds : St!Tells(t)' = St!Tells(t) /\ St!ReadRow(t)' = St!ReadRow(t)
      BY DEF St!Tells, St!OfThread, St!Compactions, St!ReadRow
    <2>2. \A t \in ThreadIds : \A e \in St!Reading(t)' : e \in Clients /\ (e # c => e \in St!Reading(t)) /\ (e = c => d.op \in {"append", "update"} /\ d.thread = t)
      BY <1>1 DEF St!Reading
    <2> QED BY <1>1, <2>1, <2>2 DEF St!Inv, St!RowTells
  <1> QED BY <1>2, <1>3, <1>4 DEF St!Inv

\* What a write does: the events of t are appended to or deleted, and its row says so.
LEMMA StoreWrites ==
  ASSUME St!Inv, NEW c \in Clients, NEW t \in ThreadIds, NEW row \in St!Rows, NEW d \in St!Doings, St!Does(c, d),
         rows' = [rows EXCEPT ![t] = row], events' \in Seq(St!EventRows), Len(events') >= Len(events),
         \A s \in ThreadIds \ {t} : St!OfThread(s)' = St!OfThread(s) /\ St!Compactions(s)' = St!Compactions(s),
         t \in used', used \subseteq used', used' \in SUBSET ThreadIds, used' \subseteq used \cup {t},
         crossed \subseteq crossed', crossed' \subseteq crossed \cup {t},
         t \notin crossed' => St!Reading(t) \subseteq {c},
         d.op \in {"idle", "tag"}, d.op = "tag" => d.thread = t,
         t \notin crossed' => St!Tells(t)'
  PROVE  St!Inv'
  <1>1. crossed \in SUBSET ThreadIds /\ rows \in [ThreadIds -> St!Rows] /\ doing \in [Clients -> St!Doings]
    BY StoreFacts
  <1>2. doing' \in [Clients -> St!Doings] /\ doing'[c] = d /\ \A e \in Clients \ {c} : doing'[e] = doing[e]
    BY <1>1 DEF St!Does
  <1>3. rows' \in [ThreadIds -> St!Rows] /\ rows'[t] = row /\ \A s \in ThreadIds \ {t} : rows'[s] = rows[s]
    BY <1>1
  <1>4. St!TypeOK'
    BY <1>1, <1>2, <1>3 DEF St!TypeOK
  <1>5. St!UsedFirst'
    BY <1>2, <1>3 DEF St!Inv, St!UsedFirst
  <1>6. St!RowTells'
    <2> SUFFICES ASSUME NEW s \in ThreadIds, s \notin crossed'
                 PROVE St!Tells(s)' /\ \A e \in St!Reading(s)' : doing'[e].row = St!ReadRow(s)'
      BY DEF St!RowTells
    <2>1. \A e \in St!Reading(s)' : e \in St!Reading(s) /\ e # c
      BY <1>2 DEF St!Reading
    <2>2. CASE s = t
      BY <2>1, <2>2
    <2>3. CASE s # t
      <3>1. St!Tells(s) /\ \A e \in St!Reading(s) : doing[e].row = St!ReadRow(s)
        BY <2>3 DEF St!Inv, St!RowTells
      <3>2. St!ReadRow(s)' = St!ReadRow(s)
        BY <1>3, <2>3 DEF St!ReadRow
      <3>3. St!Tells(s)'
        <4>1. rows'[s] = rows[s] /\ rows[s] \in St!Rows /\ Len(events') \in Nat /\ Len(events) \in Nat /\ rows[s].last \in Nat
          BY <1>3, <2>3, StoreFacts DEF St!Rows
        <4> QED BY <4>1, <2>3, <3>1 DEF St!Tells
      <3>4. \A e \in St!Reading(s)' : doing'[e].row = doing[e].row
        BY <1>2, <2>1 DEF St!Reading
      <3> QED BY <2>1, <3>1, <3>2, <3>3, <3>4
    <2> QED BY <2>2, <2>3
  <1> QED BY <1>4, <1>5, <1>6 DEF St!Inv

\* What an event that is appended changes: the events of its thread.
LEMMA StoreAppends ==
  ASSUME St!Inv, NEW t \in ThreadIds, NEW type \in St!Types, events' = Append(events, [thread |-> t, type |-> type])
  PROVE  /\ events' \in Seq(St!EventRows) /\ Len(events') = Len(events) + 1
         /\ St!OfThread(t)' = St!OfThread(t) \cup {Len(events) + 1}
         /\ St!Compactions(t)' = IF type = "item.compaction" THEN St!Compactions(t) \cup {Len(events) + 1} ELSE St!Compactions(t)
         /\ \A s \in ThreadIds \ {t} : St!OfThread(s)' = St!OfThread(s) /\ St!Compactions(s)' = St!Compactions(s)
  <1> DEFINE e == [thread |-> t, type |-> type]
             n == Len(events)
  <1>1. events \in Seq(St!EventRows) /\ n \in Nat /\ DOMAIN events = 1..n
    BY StoreFacts
  <1>2. e \in St!EventRows /\ e.thread = t /\ e.type = type
    BY DEF St!EventRows
  <1> HIDE DEF e
  <1>3. events' = Append(events, e)
    BY DEF e
  <1>4. /\ events' \in Seq(St!EventRows) /\ Len(events') = n + 1 /\ DOMAIN events' = 1..(n + 1)
        /\ events'[n + 1] = e /\ \A i \in 1..n : events'[i] = events[i]
    BY <1>1, <1>2, <1>3
  <1> HIDE DEF n
  <1>5. 1..(n + 1) = 1..n \cup {n + 1} /\ n + 1 \notin 1..n
    BY <1>1
  <1>6. St!OfThread(t)' = St!OfThread(t) \cup {n + 1}
    BY <1>1, <1>2, <1>4, <1>5 DEF St!OfThread
  <1>7. \A s \in ThreadIds \ {t} : St!OfThread(s)' = St!OfThread(s)
    BY <1>1, <1>2, <1>4, <1>5 DEF St!OfThread
  <1>8. \A s \in ThreadIds : St!OfThread(s) \subseteq 1..n
    BY <1>1 DEF St!OfThread
  <1>9. \A s \in ThreadIds \ {t} : St!Compactions(s)' = St!Compactions(s)
    BY <1>4, <1>7, <1>8 DEF St!Compactions
  <1>10. St!Compactions(t)' = IF type = "item.compaction" THEN St!Compactions(t) \cup {n + 1} ELSE St!Compactions(t)
    BY <1>2, <1>4, <1>5, <1>6, <1>8 DEF St!Compactions
  <1> QED BY <1>4, <1>6, <1>7, <1>9, <1>10 DEF n

\* What applying an event to a row changes.
LEMMA StoreApplied ==
  ASSUME NEW row \in St!Rows, NEW id \in Nat, NEW type
  PROVE  LET r == St!ApplyMetadataEvent(row, id, type)
         IN /\ r \in St!Rows /\ r.last = id /\ r.exists = row.exists /\ r.external = row.external
            /\ r.compaction = IF type = "item.compaction" THEN id ELSE row.compaction
  BY DEF St!ApplyMetadataEvent, St!Rows

\* The row of a thread to which an event is appended tells of it too.
LEMMA StoreTells ==
  ASSUME St!Inv, NEW t \in ThreadIds, NEW type \in St!Types, NEW row \in St!Rows, row.exists,
         events' = Append(events, [thread |-> t, type |-> type]),
         rows' = [rows EXCEPT ![t] = St!ApplyMetadataEvent(row, Len(events) + 1, type)],
         row.compaction \in St!Compactions(t) \cup {0}, \A i \in St!Compactions(t) : i <= row.compaction
  PROVE  St!Tells(t)'
  <1> DEFINE r == St!ApplyMetadataEvent(row, Len(events) + 1, type)
             n == Len(events)
  <1>1. /\ n \in Nat /\ r.last = n + 1 /\ r.exists /\ r \in St!Rows
        /\ r.compaction = IF type = "item.compaction" THEN n + 1 ELSE row.compaction
    BY StoreApplied, StoreFacts
  <1>2. rows'[t] = r
    BY StoreFacts
  <1>3. /\ Len(events') = n + 1 /\ St!OfThread(t)' = St!OfThread(t) \cup {n + 1} /\ St!OfThread(t) \subseteq 1..n
        /\ St!Compactions(t)' = IF type = "item.compaction" THEN St!Compactions(t) \cup {n + 1} ELSE St!Compactions(t)
        /\ St!Compactions(t) \subseteq 1..n
    BY StoreAppends, StoreFacts
  <1> HIDE DEF r, n
  <1>4. \A i \in St!OfThread(t)' : i <= n + 1
    BY <1>1, <1>3
  <1>5. r.compaction \in St!Compactions(t)' \cup {0} /\ \A i \in St!Compactions(t)' : i <= r.compaction
    BY <1>1, <1>3
  <1>6. n + 1 <= n + 1
    BY <1>1
  <1> QED BY <1>1, <1>2, <1>3, <1>4, <1>5, <1>6 DEF St!Tells

\* A thread that is created was unknown: nobody has its row in hand.
LEMMA StoreCreate ==
  ASSUME St!Inv, NEW c \in Clients, NEW t \in ThreadIds, St!Create(c, t), NEW d \in St!Doings, St!Does(c, d),
         d.op \in {"idle", "tag"}, d.op = "tag" => d.thread = t
  PROVE  St!Inv'
  <1>1. /\ t \notin used /\ used' = used \cup {t} /\ crossed' = crossed
        /\ events' = Append(events, [thread |-> t, type |-> "thread.created"])
        /\ rows' = [rows EXCEPT ![t] = St!ApplyMetadataEvent(St!NewRow, Len(events) + 1, "thread.created")]
    BY DEF St!Create
  <1>2. St!NewRow \in St!Rows /\ St!NewRow.exists /\ St!NewRow.compaction = 0 /\ Len(events) \in Nat
    BY StoreFacts
  <1>3. St!OfThread(t) = {} /\ St!Compactions(t) = {} /\ St!Reading(t) = {}
    BY <1>1, StoreFacts DEF St!Inv, St!UsedFirst, St!Compactions, St!Reading
  <1>4. "thread.created" \in St!Types
    BY DEF St!Types
  <1>5. St!Tells(t)'
    BY <1>1, <1>2, <1>3, <1>4, StoreTells
  <1>6. St!ApplyMetadataEvent(St!NewRow, Len(events) + 1, "thread.created") \in St!Rows
    BY <1>2, StoreApplied
  <1>7. /\ events' \in Seq(St!EventRows) /\ Len(events') >= Len(events)
        /\ \A s \in ThreadIds \ {t} : St!OfThread(s)' = St!OfThread(s) /\ St!Compactions(s)' = St!Compactions(s)
    BY <1>1, <1>2, <1>4, StoreAppends
  <1>8. used \in SUBSET ThreadIds
    BY StoreFacts
  <1> QED BY <1>1, <1>3, <1>5, <1>6, <1>7, <1>8, StoreWrites

\* Who has read the row of a thread nobody crossed writes what it tells.
LEMMA StoreHasRead ==
  ASSUME St!Inv, NEW c \in Clients, doing[c].op \in {"append", "update"}
  PROVE  LET a == doing[c]  t == doing[c].thread
         IN /\ t \in used /\ t \in ThreadIds /\ c \in St!Reading(t) /\ a.row \in St!Rows
            /\ a.op = "append" => a.type \in St!Types
            /\ a.op = "update" => a.external \in ExternalIds \cup {"none"}
            /\ t \notin crossed => /\ a.row.exists /\ a.row.last = rows[t].last /\ a.row.compaction = rows[t].compaction
                                  /\ St!Tells(t)
  <1> DEFINE a == doing[c]  t == doing[c].thread
  <1>1. a \in St!Doings
    BY StoreFacts
  <1>2. t \in used /\ t \in ThreadIds
    BY StoreFacts DEF St!Inv, St!UsedFirst
  <1>3. c \in St!Reading(t)
    BY DEF St!Reading
  <1>4. a.row \in St!Rows /\ (a.op = "append" => a.type \in St!Types) /\ (a.op = "update" => a.external \in ExternalIds \cup {"none"})
    BY <1>1 DEF St!Doings, St!Idle
  <1>5. t \notin crossed => a.row = St!ReadRow(t) /\ St!Tells(t)
    BY <1>2, <1>3 DEF St!Inv, St!RowTells
  <1>6. t \notin crossed => a.row.exists /\ a.row.last = rows[t].last /\ a.row.compaction = rows[t].compaction
    BY <1>2, <1>5, StoreFacts
  <1> QED BY <1>2, <1>3, <1>4, <1>5, <1>6

\* A client may be idle.
LEMMA StoreIdle == St!Idle \in St!Doings /\ St!Idle.op = "idle"
  BY DEF St!Idle, St!Doings

\* Who writes a row marks the thread when another client has it in hand.
LEMMA StoreWriteRow ==
  ASSUME NEW c, NEW t, NEW row, St!WriteRow(c, t, row)
  PROVE  /\ rows' = [rows EXCEPT ![t] = row] /\ crossed \subseteq crossed' /\ crossed' \subseteq crossed \cup {t}
         /\ t \notin crossed' => St!Reading(t) \subseteq {c}
  BY DEF St!WriteRow

\* An event is appended by a client that has read the row.
LEMMA StoreAppend == ASSUME St!Inv, NEW c \in Clients, St!AppendWrite(c) PROVE St!Inv'
  <1>1. PICK a, t : a = doing[c] /\ t = doing[c].thread
    OBVIOUS
  <1> DEFINE row == St!ApplyMetadataEvent(a.row, Len(events) + 1, a.type)
  <1>2. /\ a.op = "append" /\ events' = Append(events, [thread |-> t, type |-> a.type]) /\ St!WriteRow(c, t, row)
        /\ St!Does(c, St!Idle) /\ used' = used
    BY <1>1 DEF St!AppendWrite
  <1>3. /\ t \in used /\ t \in ThreadIds /\ a.row \in St!Rows /\ a.type \in St!Types
        /\ t \notin crossed => /\ a.row.exists /\ a.row.last = rows[t].last /\ a.row.compaction = rows[t].compaction
                              /\ St!Tells(t)
    BY <1>1, <1>2, StoreHasRead
  <1>4. row \in St!Rows
    BY <1>3, StoreFacts, StoreApplied
  <1>5. t \notin crossed => St!Tells(t)'
    <2>1. rows' = [rows EXCEPT ![t] = row]
      BY <1>2, StoreWriteRow
    <2>2. ASSUME t \notin crossed
          PROVE  a.row.exists /\ a.row.compaction \in St!Compactions(t) \cup {0} /\ \A i \in St!Compactions(t) : i <= a.row.compaction
      BY <1>3, <2>2 DEF St!Tells
    <2> QED BY <1>2, <1>3, <2>1, <2>2, StoreTells
  <1>6. /\ events' \in Seq(St!EventRows) /\ Len(events') >= Len(events)
        /\ \A s \in ThreadIds \ {t} : St!OfThread(s)' = St!OfThread(s) /\ St!Compactions(s)' = St!Compactions(s)
    BY <1>2, <1>3, StoreAppends, StoreFacts
  <1> HIDE DEF row
  <1>7. /\ rows' = [rows EXCEPT ![t] = row] /\ crossed \subseteq crossed' /\ crossed' \subseteq crossed \cup {t}
        /\ t \notin crossed' => St!Reading(t) \subseteq {c}
    BY <1>2, StoreWriteRow
  <1>8. t \notin crossed' => St!Tells(t)'
    BY <1>5, <1>7
  <1>9. used' = used /\ used \in SUBSET ThreadIds /\ t \in used /\ t \in ThreadIds /\ St!Does(c, St!Idle)
    BY <1>2, <1>3, StoreFacts
  <1> QED BY <1>4, <1>6, <1>7, <1>8, <1>9, StoreIdle, StoreWrites

\* An update writes the row as it was read, but for the tag.
LEMMA StoreUpdate == ASSUME St!Inv, NEW c \in Clients, St!UpdateWrite(c) PROVE St!Inv'
  <1>1. PICK u, t : u = doing[c] /\ t = doing[c].thread
    OBVIOUS
  <1> DEFINE row == St!Tagged(u)
  <1>2. /\ u.op = "update" /\ St!WriteRow(c, t, row) /\ St!Does(c, St!Idle) /\ UNCHANGED <<events, used>>
    BY <1>1 DEF St!UpdateWrite
  <1>3. /\ t \in used /\ t \in ThreadIds /\ u.row \in St!Rows /\ u.external \in ExternalIds \cup {"none"}
        /\ t \notin crossed => /\ u.row.exists /\ u.row.last = rows[t].last /\ u.row.compaction = rows[t].compaction
                              /\ St!Tells(t)
    BY <1>1, <1>2, StoreHasRead
  <1>4. row \in St!Rows /\ row.last = u.row.last /\ row.compaction = u.row.compaction /\ row.exists = u.row.exists
    BY <1>3 DEF St!Tagged, St!Rows
  <1> HIDE DEF row
  <1>5. /\ rows' = [rows EXCEPT ![t] = row] /\ crossed \subseteq crossed' /\ crossed' \subseteq crossed \cup {t}
        /\ t \notin crossed' => St!Reading(t) \subseteq {c}
    BY <1>2, StoreWriteRow
  <1>6. rows'[t] = row
    BY <1>3, <1>5, StoreFacts
  <1>7. \A s \in ThreadIds : St!OfThread(s)' = St!OfThread(s) /\ St!Compactions(s)' = St!Compactions(s)
    BY <1>2 DEF St!OfThread, St!Compactions
  <1>8. t \notin crossed => St!Tells(t)'
    BY <1>2, <1>3, <1>4, <1>6, <1>7 DEF St!Tells
  <1>9. events' \in Seq(St!EventRows) /\ Len(events') >= Len(events) /\ used' = used /\ used \in SUBSET ThreadIds
    BY <1>2, StoreFacts
  <1>10. t \notin crossed' => St!Tells(t)'
    BY <1>5, <1>8
  <1>11. row \in St!Rows /\ St!Does(c, St!Idle) /\ t \in used /\ t \in ThreadIds
    BY <1>2, <1>3, <1>4
  <1> QED BY <1>5, <1>7, <1>9, <1>10, <1>11, StoreIdle, StoreWrites

\* A deletion leaves neither events nor a row.
LEMMA StoreDelete == ASSUME St!Inv, NEW c \in Clients, St!DeleteRows(c) PROVE St!Inv'
  <1>1. PICK t : t = doing[c].thread
    OBVIOUS
  <1>2. /\ doing[c].op = "delete" /\ St!WriteRow(c, t, St!NoRow) /\ St!Does(c, St!Idle) /\ used' = used
        /\ events' = [i \in 1..Len(events) |-> IF events[i].thread = t THEN St!Deleted ELSE events[i]]
    BY <1>1 DEF St!DeleteRows
  <1>3. t \in used /\ t \in ThreadIds
    BY <1>1, <1>2, StoreFacts DEF St!Inv, St!UsedFirst
  <1>4. St!Deleted \in St!EventRows /\ St!Deleted.thread \notin ThreadIds
    BY StoreNone DEF St!Deleted, St!EventRows
  <1>5. Len(events) \in Nat /\ DOMAIN events = 1..Len(events) /\ \A i \in 1..Len(events) : events[i] \in St!EventRows
    BY StoreFacts
  <1>6. /\ \A i \in 1..Len(events) : events'[i] = IF events[i].thread = t THEN St!Deleted ELSE events[i]
        /\ DOMAIN events' = 1..Len(events) /\ events' \in [1..Len(events) -> St!EventRows]
    BY <1>2, <1>4, <1>5
  <1>7. events' \in Seq(St!EventRows) /\ Len(events') = Len(events)
    BY <1>5, <1>6
  <1>8. St!OfThread(t)' = {} /\ St!Compactions(t)' = {}
    BY <1>3, <1>4, <1>6 DEF St!OfThread, St!Compactions
  <1>9. \A s \in ThreadIds \ {t} : St!OfThread(s)' = St!OfThread(s)
    BY <1>4, <1>5, <1>6 DEF St!OfThread
  <1>10. \A s \in ThreadIds \ {t} : St!Compactions(s)' = St!Compactions(s)
    BY <1>4, <1>5, <1>6, <1>9 DEF St!Compactions, St!OfThread
  <1>11. rows'[t] = St!NoRow
    BY <1>2, <1>3, StoreFacts DEF St!WriteRow
  <1>12. St!Tells(t)'
    BY <1>5, <1>7, <1>8, <1>11 DEF St!Tells, St!NoRow
  <1> QED BY <1>2, <1>3, <1>5, <1>7, <1>9, <1>10, <1>12, StoreWriteRow, StoreIdle, StoreFacts, StoreWrites

\* Every step keeps the invariant.
LEMMA StoreNext == St!Inv /\ [St!Next]_St!storeVars => St!Inv'
  <1> SUFFICES ASSUME St!Inv, [St!Next]_St!storeVars PROVE St!Inv'
    OBVIOUS
  <1>1. ASSUME NEW c \in Clients, St!CreateThread(c) PROVE St!Inv'
    BY <1>1, StoreCreate, StoreIdle DEF St!CreateThread
  <1>2. ASSUME NEW c \in Clients, St!AppendWrite(c) \/ St!UpdateWrite(c) \/ St!DeleteRows(c) PROVE St!Inv'
    BY <1>2, StoreAppend, StoreUpdate, StoreDelete
  <1>3. ASSUME NEW c \in Clients, NEW t \in ThreadIds, St!DeleteCheck(c, t) PROVE St!Inv'
    <2> DEFINE d == [op |-> "delete", thread |-> t]
    <2>1. d \in St!Doings /\ d.op = "delete" /\ d.thread = t
      BY DEF St!Doings
    <2>2. t \in used
      BY <1>3 DEF St!DeleteCheck, St!Inv, St!UsedFirst, St!NoRow
    <2>3. St!Does(c, d) /\ UNCHANGED <<rows, events, used, crossed>>
      BY <1>3 DEF St!DeleteCheck
    <2> HIDE DEF d
    <2> QED BY <2>1, <2>2, <2>3, StoreDoes
  <1>4. ASSUME NEW c \in Clients, NEW t \in ThreadIds, NEW type \in St!Types, St!AppendRead(c, t, type) PROVE St!Inv'
    <2> DEFINE d == [op |-> "append", thread |-> t, type |-> type, row |-> St!ReadRow(t)]
    <2>1. d \in St!Doings /\ d.op = "append" /\ d.thread = t /\ d.row = St!ReadRow(t)
      BY StoreFacts DEF St!Doings
    <2>2. St!Does(c, d) /\ UNCHANGED <<rows, events, used, crossed>> /\ t \in used
      BY <1>4 DEF St!AppendRead
    <2> HIDE DEF d
    <2> QED BY <2>1, <2>2, StoreDoes
  <1>5. ASSUME NEW c \in Clients, NEW t \in ThreadIds, NEW x \in ExternalIds \cup {"none"}, St!UpdateRead(c, t, x) PROVE St!Inv'
    <2> DEFINE d == [op |-> "update", thread |-> t, row |-> St!ReadRow(t), external |-> x]
    <2>1. d \in St!Doings /\ d.op = "update" /\ d.thread = t /\ d.row = St!ReadRow(t)
      BY StoreFacts DEF St!Doings
    <2>2. St!Does(c, d) /\ UNCHANGED <<rows, events, used, crossed>> /\ t \in used
      BY <1>5 DEF St!UpdateRead
    <2> HIDE DEF d
    <2> QED BY <2>1, <2>2, StoreDoes
  <1>6. ASSUME NEW c \in Clients, NEW x \in ExternalIds, St!ExternalCreate(c, x) PROVE St!Inv'
    <2>1. PICK t \in ThreadIds : St!Create(c, t) /\ St!Does(c, [op |-> "tag", thread |-> t, external |-> x])
      BY <1>6 DEF St!ExternalCreate
    <2> DEFINE d == [op |-> "tag", thread |-> t, external |-> x]
    <2>2. d \in St!Doings /\ d.op = "tag" /\ d.thread = t
      BY DEF St!Doings
    <2>3. St!Does(c, d)
      BY <2>1
    <2> HIDE DEF d
    <2> QED BY <2>1, <2>2, <2>3, StoreCreate
  <1>7. CASE UNCHANGED St!storeVars
    BY <1>7 DEF St!storeVars, St!Inv, St!TypeOK, St!UsedFirst, St!RowTells, St!Tells, St!Reading,
       St!ReadRow, St!OfThread, St!Compactions
  <1> QED BY <1>1, <1>2, <1>3, <1>4, <1>5, <1>6, <1>7 DEF St!Next

\* The segment before an event begins before it, at a compaction or at the start.
LEMMA StoreEarlier ==
  ASSUME St!Inv, NEW t \in ThreadIds, NEW b \in Nat, b > 0
  PROVE  LET s == St!Segment(t, b)
         IN /\ s[2] = b /\ s[1] \in St!Compactions(t) \cup {0} /\ s[1] < b
            /\ \A i \in St!Compactions(t) : i < b => i <= s[1]
  <1> DEFINE Ends == St!Earlier(t, b)
  <1>1. Ends \subseteq 0..b /\ Ends # {} /\ \A i \in Ends : i < b /\ i \in St!Compactions(t) \cup {0}
    BY StoreFacts DEF St!Earlier
  <1> HIDE DEF Ends
  <1>2. \E i \in Ends : \A j \in Ends : j <= i
    BY <1>1, Greatest
  <1> DEFINE m == CHOOSE i \in Ends : \A j \in Ends : j <= i
  <1>3. m \in Ends /\ \A j \in Ends : j <= m
    BY <1>2
  <1>4. St!Segment(t, b) = <<m, b>>
    BY DEF St!Segment, Ends
  <1> HIDE DEF m
  <1>5. \A i \in St!Compactions(t) : i < b => i \in Ends
    BY DEF Ends, St!Earlier
  <1>6. St!Segment(t, b)[1] = m /\ St!Segment(t, b)[2] = b
    BY <1>4
  <1>7. m \in St!Compactions(t) \cup {0} /\ m < b /\ \A i \in St!Compactions(t) : i < b => i <= m
    BY <1>1, <1>3, <1>5
  <1> QED BY <1>6, <1>7

\* Where reading gets to: to the start of the newest segment, and from the start of each to that of the one before.
LEMMA StoreStarts ==
  ASSUME St!Inv, NEW t \in ThreadIds \ crossed
  PROVE  /\ rows[t].compaction \in St!Starts(t) /\ St!Starts(t) \subseteq St!Compactions(t) \cup {0} /\ St!Starts(t) \subseteq Nat
         /\ \A b \in St!Starts(t) : St!HasMore(t, b) => St!Segment(t, b)[1] \in St!Starts(t)
  <1> DEFINE n == Len(events)
             Whole == St!Compactions(t) \cup {0}
             newest == St!Segment(t, 0)[1]
  <1>1. /\ n \in Nat /\ St!Compactions(t) \subseteq 1..n /\ rows[t].compaction \in Whole /\ Whole \subseteq 0..n
        /\ newest = rows[t].compaction
    <2>1. St!Tells(t)
      BY DEF St!Inv, St!RowTells
    <2>2. rows[t].compaction \in Whole
      BY <2>1 DEF St!Tells
    <2>3. n \in Nat /\ St!Compactions(t) \subseteq 1..n
      BY StoreFacts
    <2>4. newest = rows[t].compaction
      BY DEF St!Segment
    <2> QED BY <2>2, <2>3, <2>4
  <1>2. ASSUME NEW b \in 0..n, St!HasMore(t, b) PROVE St!Segment(t, b)[1] \in Whole
    BY <1>1, <1>2, StoreEarlier DEF St!HasMore
  <1>3. St!ReadOn(t, Whole)
    BY <1>1, <1>2 DEF St!ReadOn
  <1>4. St!Starts(t) \subseteq Whole
    BY <1>1, <1>3 DEF St!Starts
  <1>5. newest \in St!Starts(t)
    BY <1>1 DEF St!Starts, St!ReadOn
  <1>6. ASSUME NEW b \in St!Starts(t), St!HasMore(t, b) PROVE St!Segment(t, b)[1] \in St!Starts(t)
    <2>1. b \in 0..n /\ St!Segment(t, b)[1] \in 0..n
      BY <1>1, <1>2, <1>4, <1>6
    <2>2. ASSUME NEW begun \in SUBSET (0..n), St!ReadOn(t, begun) PROVE St!Segment(t, b)[1] \in begun
      <3>1. b \in begun
        BY <2>2 DEF St!Starts
      <3> QED BY <1>6, <2>2, <3>1 DEF St!ReadOn
    <2> QED BY <2>1, <2>2 DEF St!Starts
  <1> QED BY <1>1, <1>4, <1>5, <1>6

\* Going back from segment to segment visits every event of the thread once: an event
\* before the last compaction is in the segment of the least start above it.
LEMMA StoreGives == St!Inv => St!HistoryIsWhole
  <1> SUFFICES ASSUME St!Inv, NEW t \in ThreadIds \ crossed, rows[t].exists
      PROVE /\ UNION {St!SegmentEvents(t, s) : s \in St!Segments(t)} = St!OfThread(t)
            /\ \A s, z \in St!Segments(t) : s # z => St!SegmentEvents(t, s) \cap St!SegmentEvents(t, z) = {}
            /\ St!Compactions(t) \cap St!AfterLatestCompaction(t) = {}
            /\ rows[t].compaction \in St!Compactions(t) \cup {0}
    BY DEF St!HistoryIsWhole
  <1> DEFINE n == Len(events)  c == rows[t].compaction  last == rows[t].last
             More == {b \in St!Starts(t) : St!HasMore(t, b)}
  <1>1. /\ n \in Nat /\ St!OfThread(t) \subseteq 1..n /\ St!Compactions(t) \subseteq St!OfThread(t)
        /\ c \in St!Compactions(t) \cup {0} /\ c \in Nat /\ last \in Nat
        /\ \A i \in St!OfThread(t) : i \in Nat /\ i > 0 /\ i < last + 1
        /\ \A i \in St!Compactions(t) : i <= c
    <2>1. St!Tells(t)
      BY DEF St!Inv, St!RowTells
    <2>2. rows[t] \in St!Rows /\ n \in Nat /\ St!OfThread(t) \subseteq 1..n /\ St!Compactions(t) \subseteq St!OfThread(t)
      BY StoreFacts
    <2>3. c \in Nat /\ last \in Nat
      BY <2>2 DEF St!Rows
    <2>4. /\ \A i \in St!OfThread(t) : i <= last
          /\ c \in St!Compactions(t) \cup {0} /\ \A i \in St!Compactions(t) : i <= c
      BY <2>1 DEF St!Tells
    <2> QED BY <2>2, <2>3, <2>4
  <1>2. St!Segment(t, 0) = <<c, last + 1>>
    BY DEF St!Segment
  <1>3. \A b \in More :
          /\ b \in St!Starts(t) /\ b \in Nat /\ b > 0 /\ b \in St!Compactions(t) /\ b <= c
          /\ St!Segment(t, b)[2] = b /\ St!Segment(t, b)[1] \in St!Starts(t) /\ St!Segment(t, b)[1] \in Nat /\ St!Segment(t, b)[1] < b
          /\ \A i \in St!Compactions(t) : i < b => i <= St!Segment(t, b)[1]
    BY <1>1, StoreStarts, StoreEarlier DEF St!HasMore
  <1>4. St!Segments(t) = {St!Segment(t, b) : b \in {0} \cup More}
    BY DEF St!Segments
  <1> HIDE DEF More
  <1>5. St!OfThread(t) \subseteq UNION {St!SegmentEvents(t, s) : s \in St!Segments(t)}
    <2> SUFFICES ASSUME NEW i \in St!OfThread(t) PROVE \E s \in St!Segments(t) : i \in St!SegmentEvents(t, s)
      OBVIOUS
    <2>1. CASE c <= i
      <3>1. i \in St!SegmentEvents(t, St!Segment(t, 0))
        BY <1>1, <1>2, <2>1 DEF St!SegmentEvents
      <3> QED BY <1>4, <3>1
    <2>2. CASE i < c
      <3> DEFINE S == {b \in St!Starts(t) : i < b}
      <3>1. S \subseteq Nat /\ S # {}
        BY <2>2, StoreStarts
      <3>2. PICK b \in S : \A z \in S : z >= b
        BY <3>1, Least
      <3>3. b \in More
        BY <1>1, <3>1, <3>2 DEF More, St!HasMore
      <3>4. St!Segment(t, b)[1] <= i
        BY <1>1, <1>3, <3>2, <3>3
      <3>5. i \in St!SegmentEvents(t, St!Segment(t, b))
        BY <1>3, <3>2, <3>3, <3>4 DEF St!SegmentEvents
      <3> QED BY <1>4, <3>3, <3>5
    <2> QED BY <1>1, <2>1, <2>2
  <1>6. UNION {St!SegmentEvents(t, s) : s \in St!Segments(t)} \subseteq St!OfThread(t)
    BY DEF St!SegmentEvents
  <1>7. ASSUME NEW a \in {0} \cup More, NEW b \in More, a = 0 \/ b < a, NEW i \in St!SegmentEvents(t, St!Segment(t, b))
        PROVE  i \notin St!SegmentEvents(t, St!Segment(t, a))
    <2>1. i \in Nat /\ i < b
      BY <1>1, <1>3 DEF St!SegmentEvents
    <2>2. b <= St!Segment(t, a)[1] /\ St!Segment(t, a)[1] \in Nat
      BY <1>1, <1>2, <1>3, <1>7
    <2> QED BY <1>3, <2>1, <2>2 DEF St!SegmentEvents
  <1>8. ASSUME NEW s \in St!Segments(t), NEW z \in St!Segments(t), s # z
        PROVE  St!SegmentEvents(t, s) \cap St!SegmentEvents(t, z) = {}
    <2>1. PICK a \in {0} \cup More : s = St!Segment(t, a)
      BY <1>4
    <2>2. PICK b \in {0} \cup More : z = St!Segment(t, b)
      BY <1>4
    <2>3. a # b /\ a \in Nat /\ b \in Nat
      BY <1>3, <1>8, <2>1, <2>2
    <2>4. CASE b \in More /\ (a = 0 \/ b < a)
      BY <1>7, <2>1, <2>2, <2>4
    <2>5. CASE a \in More /\ (b = 0 \/ a < b)
      BY <1>7, <2>1, <2>2, <2>5
    <2>6. 0 \notin More
      BY <1>3
    <2> QED BY <2>3, <2>4, <2>5, <2>6
  <1>9. St!Compactions(t) \cap St!AfterLatestCompaction(t) = {}
    BY <1>1 DEF St!AfterLatestCompaction
  <1> QED BY <1>1, <1>5, <1>6, <1>8, <1>9

-----------------------------------------------------------------------------
(* Blobs.  A content that never raced with a collection is not in one      *)
(* while an upload of it is under way, and cannot be chosen by one         *)
(* afterwards, because the upload's reference is there.                    *)

\* The invariant holds at the start.
LEMMA BlobsInit == B!Init => B!Inv
  BY DEF B!Init, B!Inv, B!TypeOK, B!Stages, B!Between, B!Safe, B!Kept

\* Every step keeps the types.
LEMMA BlobsType == B!TypeOK /\ [B!Next]_B!blobVars => B!TypeOK'
  <1> SUFFICES ASSUME B!TypeOK, [B!Next]_B!blobVars PROVE B!TypeOK'
      OBVIOUS
  <1> USE DEF B!TypeOK, B!Stages, B!Goes
  <1>1. CASE UNCHANGED B!blobVars
    BY <1>1 DEF B!blobVars
  <1>2. ASSUME NEW u \in Uploads, B!WriteFile(u) \/ B!UpsertRecord(u) \/ B!CheckInfo(u) \/ B!InsertRef(u)
        PROVE  B!TypeOK'
    BY <1>2 DEF B!WriteFile, B!UpsertRecord, B!CheckInfo, B!InsertRef
  <1>3. ASSUME NEW u \in Uploads, B!NoteTemporary(u) \/ B!CloseSession(u)
        PROVE  B!TypeOK'
    BY <1>3 DEF B!NoteTemporary, B!CloseSession
  <1>4. ASSUME NEW t \in BlobThreads, B!DeleteThread(t)
        PROVE  B!TypeOK'
    BY <1>4 DEF B!DeleteThread
  <1>5. ASSUME NEW c \in Contents, B!Unlink(c)
        PROVE  B!TypeOK'
    BY <1>5 DEF B!Unlink
  <1>6. CASE B!DeleteRow
    BY <1>6 DEF B!DeleteRow
  <1> QED
    BY <1>1, <1>2, <1>3, <1>4, <1>5, <1>6 DEF B!Next

\* A step of another upload or of the same one.
LEMMA BlobsUpload ==
    ASSUME B!Inv, B!TypeOK', NEW u \in Uploads, NEW v \in Uploads,
           \/ B!WriteFile(v) \/ B!UpsertRecord(v) \/ B!NoteTemporary(v) \/ B!CheckInfo(v) \/ B!InsertRef(v)
    PROVE  B!Safe(u)' /\ B!Kept(u)'
  <1> USE DEF B!Inv, B!TypeOK, B!Stages, B!Between, B!Safe, B!Kept, B!Collected, B!At, B!Goes, B!Touch
  <1>1. CASE B!WriteFile(v)
    BY <1>1 DEF B!WriteFile
  <1>2. CASE B!UpsertRecord(v)
    BY <1>2 DEF B!UpsertRecord
  <1>3. CASE B!NoteTemporary(v)
    BY <1>3 DEF B!NoteTemporary
  <1>4. CASE B!CheckInfo(v)
    BY <1>4 DEF B!CheckInfo
  <1>5. CASE B!InsertRef(v)
    BY <1>5 DEF B!InsertRef
  <1> QED
    BY <1>1, <1>2, <1>3, <1>4, <1>5

\* A collection chooses nothing that is referenced, and marks what is under way.
LEMMA BlobsCollection ==
    ASSUME B!Inv, B!TypeOK', NEW u \in Uploads,
           \/ \E v \in Uploads : B!CloseSession(v)
           \/ \E t \in BlobThreads : B!DeleteThread(t)
    PROVE  B!Safe(u)' /\ B!Kept(u)'
  <1> USE DEF B!Inv, B!TypeOK, B!Stages, B!Between, B!Safe, B!Kept, B!Collected, B!UnderWay
  <1>1. ASSUME NEW v \in Uploads, B!CloseSession(v)
        PROVE  B!Safe(u)' /\ B!Kept(u)'
    BY <1>1 DEF B!CloseSession, B!Choose, B!Unreferenced
  <1>2. ASSUME NEW t \in BlobThreads, B!DeleteThread(t)
        PROVE  B!Safe(u)' /\ B!Kept(u)'
    BY <1>2 DEF B!DeleteThread, B!RefsOf
  <1> QED
    BY <1>1, <1>2

\* What a collection has chosen no upload under way relies on.
LEMMA BlobsRemoval ==
    ASSUME B!NoContent \notin Contents, B!Inv, B!TypeOK', NEW u \in Uploads,
           B!DeleteRow \/ \E c \in Contents : B!Unlink(c)
    PROVE  B!Safe(u)' /\ B!Kept(u)'
  <1> USE DEF B!Inv, B!TypeOK, B!Stages, B!Between, B!Safe, B!Kept, B!Collected
  <1>1. CASE B!DeleteRow
    BY <1>1 DEF B!DeleteRow
  <1>2. ASSUME NEW c \in Contents, B!Unlink(c)
        PROVE  B!Safe(u)' /\ B!Kept(u)'
    BY <1>2 DEF B!Unlink
  <1> QED
    BY <1>1, <1>2

\* Every step keeps the invariant.
LEMMA BlobsNext == ASSUME B!NoContent \notin Contents, B!Inv, [B!Next]_B!blobVars PROVE B!Inv'
  <1>1. B!TypeOK'
    BY BlobsType DEF B!Inv
  <1>2. ASSUME NEW u \in Uploads
        PROVE  B!Safe(u)' /\ B!Kept(u)'
    <2>1. CASE UNCHANGED B!blobVars
      BY <2>1 DEF B!blobVars, B!Inv, B!Safe, B!Kept, B!Collected
    <2>2. CASE B!Next
      BY <1>1, <2>2, BlobsUpload, BlobsCollection, BlobsRemoval DEF B!Next
    <2> QED
      BY <2>1, <2>2
  <1> QED
    BY <1>1, <1>2 DEF B!Inv

\* The invariant says what AcknowledgedIsReadable asks.
LEMMA BlobsGives == B!Inv => B!AcknowledgedIsReadable
  BY DEF B!Inv, B!Kept, B!AcknowledgedIsReadable, B!At

-----------------------------------------------------------------------------
(* Worktree.  An active binding has its tree and branch, made for one      *)
(* thread; a cleanup under way holds the branch it takes away.             *)

\* The invariant holds at the start.
LEMMA TreesInit == W!Init => W!Inv
  BY DEF W!Init, W!Inv, W!TypeOK, W!Bindings, W!ToldWhenActive, W!HasOne, W!MadeForOne,
     W!GoesOnce, W!Has, W!Removes, W!Unbound, W!Bound, W!Free

\* What an operation is, by where it is.
LEMMA TreesOperation ==
    ASSUME W!TypeOK, NEW i \in Slots
    PROVE  /\ git[i].pc \in {"checked", "added"} => git[i] \in W!Operation("create", {"checked", "added"})
           /\ git[i].pc \in {"remove", "removed", "deleted"} =>
                  git[i] \in W!Operation("cleanup", {"remove", "removed", "deleted"})
           /\ git[i].kind = "cleanup" => git[i] \in W!Operation("cleanup", {"remove", "removed", "deleted"})
  BY DEF W!TypeOK, W!Operation, W!Free

\* A step that changes one operation and no directory, and binds nobody.
LEMMA TreesQuiet ==
    ASSUME W!Inv, NEW i \in Slots, W!TypeOK',
           \A j \in Slots \ {i} : git'[j] = git[j],
           git[i].pc \notin {"removed", "deleted"} \/ git[i].branch \in torn',
           git'[i].pc \notin {"added", "removed", "deleted"},
           torn \subseteq torn', UNCHANGED <<trees, heads, binding, told>>
    PROVE  W!Inv'
  <1>1. W!ToldWhenActive'
    BY DEF W!Inv, W!ToldWhenActive
  <1>2. ASSUME NEW b \in Branches \ torn' PROVE (W!HasOne(b) /\ W!MadeForOne(b) /\ W!GoesOnce(b))'
    <2>1. W!HasOne(b) /\ W!MadeForOne(b) /\ W!GoesOnce(b)
      BY DEF W!Inv
    <2>2. \A t \in Tasks : W!Has(t, b)' <=> W!Has(t, b)
      BY DEF W!Has, W!Removes
    <2> QED
      BY <2>1, <2>2 DEF W!HasOne, W!MadeForOne, W!GoesOnce
  <1> QED
    BY <1>1, <1>2 DEF W!Inv

\* An operation begins and changes nothing yet.
LEMMA TreesStart ==
    ASSUME W!Inv, NEW i \in Slots, NEW by \in {"tui", "script"}, NEW t \in Tasks, NEW b \in Branches,
           W!StartCreate(i, by, t, b) \/ W!StartCleanup(i, by, t, b)
    PROVE  W!Inv'
  <1>1. PICK op \in W!Operation("create", {"checked"}) \cup W!Operation("cleanup", {"remove"}) :
            git' = [git EXCEPT ![i] = op]
    <2>1. CASE W!StartCreate(i, by, t, b)
      BY <2>1 DEF W!StartCreate, W!Begin, W!Operation
    <2>2. CASE W!StartCleanup(i, by, t, b)
      BY <2>2 DEF W!StartCleanup, W!Begin, W!Operation
    <2> QED
      BY <2>1, <2>2
  <1>2. git[i] = W!Free /\ UNCHANGED <<trees, heads, binding, told, torn>>
    BY DEF W!StartCreate, W!StartCleanup, W!Begin
  <1>3. op.pc \in {"checked", "remove"}
    BY DEF W!Operation
  <1>4. W!TypeOK'
    BY <1>1, <1>2 DEF W!Inv, W!TypeOK, W!Operation
  <1> QED
    BY <1>1, <1>2, <1>3, <1>4, TreesQuiet DEF W!Inv, W!TypeOK, W!Free

\* git adds a tree for a branch that had none.
LEMMA TreesAdd ==
    ASSUME W!Inv, NEW i \in Slots, W!AddTree(i)
    PROVE  W!Inv'
  <1> DEFINE b0 == git[i].branch
  <1>1. git[i].pc = "checked" /\ git[i] \in W!Operation("create", {"checked", "added"})
        /\ UNCHANGED <<binding, told, torn>>
    BY TreesOperation DEF W!AddTree, W!Inv
  <1>2. CASE b0 \in trees \cup heads
    <2>1. git' = [git EXCEPT ![i] = W!Free] /\ UNCHANGED <<trees, heads>>
      BY <1>2 DEF W!AddTree
    <2>2. W!TypeOK'
      BY <1>1, <2>1 DEF W!Inv, W!TypeOK
    <2> QED
      BY <1>1, <2>1, <2>2, TreesQuiet DEF W!Inv, W!TypeOK, W!Free
  <1>3. CASE b0 \notin trees \cup heads
    <2>1. trees' = trees \cup {b0} /\ heads' = heads \cup {b0} /\ git' = [git EXCEPT ![i].pc = "added"]
      BY <1>3 DEF W!AddTree
    <2>2. /\ git'[i] \in W!Operation("create", {"checked", "added"})
          /\ git'[i].pc = "added" /\ git'[i].branch = b0
          /\ \A j \in Slots \ {i} : git'[j] = git[j]
      BY <1>1, <2>1 DEF W!Inv, W!TypeOK, W!Operation
    <2>3. W!TypeOK'
      BY <1>1, <2>1, <2>2 DEF W!Inv, W!TypeOK
    <2>4. W!ToldWhenActive'
      BY <1>1 DEF W!Inv, W!ToldWhenActive
    <2>5. ASSUME NEW b \in Branches \ torn' PROVE (W!HasOne(b) /\ W!MadeForOne(b) /\ W!GoesOnce(b))'
      <3>1. W!HasOne(b) /\ W!MadeForOne(b) /\ W!GoesOnce(b)
        BY <1>1 DEF W!Inv
      <3>2. \A t \in Tasks : W!Has(t, b)' <=> W!Has(t, b)
        BY <1>1, <2>2 DEF W!Has, W!Removes
      <3>3. W!HasOne(b)' /\ W!GoesOnce(b)'
        BY <1>1, <1>3, <2>1, <2>2, <3>1, <3>2 DEF W!HasOne, W!GoesOnce
      <3>4. W!MadeForOne(b)'
        BY <1>1, <1>3, <2>1, <2>2, <3>1, <3>2 DEF W!MadeForOne, W!HasOne
      <3> QED
        BY <3>3, <3>4
    <2> QED
      BY <2>3, <2>4, <2>5 DEF W!Inv
  <1> QED
    BY <1>2, <1>3

\* The thread is bound to the tree made for it, and told.
LEMMA TreesAttach ==
    ASSUME W!Inv, NEW i \in Slots, W!Attach(i)
    PROVE  W!Inv'
  <1> DEFINE t0 == git[i].of
             b0 == git[i].branch
  <1>1. git[i].pc = "added" /\ t0 \in Tasks /\ b0 \in Branches
    BY TreesOperation DEF W!Attach, W!Inv, W!Operation
  <1>2. /\ told' = [told EXCEPT ![t0] = W!Bound("active", b0)]
        /\ binding' = [binding EXCEPT ![t0] = W!Bound("active", b0)]
        /\ git' = [git EXCEPT ![i] = W!Free] /\ UNCHANGED <<trees, heads, torn>>
    BY DEF W!Attach
  <1>3. W!Bound("active", b0) \in W!Bindings /\ \A b : W!Bound("active", b) = W!Bound("active", b0) => b = b0
    BY <1>1 DEF W!Bound, W!Bindings
  <1> HIDE DEF t0, b0
  <1>4. W!TypeOK'
    BY <1>1, <1>2, <1>3 DEF W!Inv, W!TypeOK
  <1>5. W!ToldWhenActive'
    BY <1>1, <1>2 DEF W!Inv, W!TypeOK, W!ToldWhenActive
  <1>6. /\ git'[i].pc \notin {"added", "removed", "deleted"}
        /\ \A j \in Slots \ {i} : git'[j] = git[j]
    BY <1>2 DEF W!Inv, W!TypeOK, W!Free
  <1>7. ASSUME NEW b \in Branches \ torn' PROVE (W!HasOne(b) /\ W!MadeForOne(b) /\ W!GoesOnce(b))'
    <2>1. W!HasOne(b) /\ W!MadeForOne(b) /\ W!GoesOnce(b)
      BY <1>2 DEF W!Inv
    <2>2. ASSUME NEW t \in Tasks, W!Has(t, b)' PROVE W!Has(t, b) \/ (t = t0 /\ b = b0)
      BY <1>1, <1>2, <1>3, <1>6, <2>2 DEF W!Has, W!Removes, W!Inv, W!TypeOK
    <2>3. b = b0 => b \in trees /\ \A t \in Tasks : ~W!Has(t, b)
      BY <1>1, <2>1 DEF W!MadeForOne, b0
    <2>4. W!HasOne(b)'
      BY <1>2, <2>1, <2>2, <2>3 DEF W!HasOne
    <2>5. W!MadeForOne(b)'
      BY <1>1, <1>2, <1>6, <2>1, <2>2 DEF W!MadeForOne, b0
    <2>6. W!GoesOnce(b)'
      BY <1>2, <1>6, <2>1 DEF W!GoesOnce
    <2> QED
      BY <2>4, <2>5, <2>6
  <1> QED
    BY <1>4, <1>5, <1>7 DEF W!Inv

\* A cleanup removes a tree whose branch it holds.
LEMMA TreesRemove ==
    ASSUME W!Inv, NEW i \in Slots, W!RemoveTree(i)
    PROVE  W!Inv'
  <1> DEFINE b0 == git[i].branch
  <1>1. git[i].pc = "remove" /\ git[i] \in W!Operation("cleanup", {"remove", "removed", "deleted"})
        /\ UNCHANGED <<heads, binding, told>> /\ torn \subseteq torn'
    BY TreesOperation DEF W!RemoveTree, W!Inv
  <1>2. CASE b0 \notin trees
    <2>1. git' = [git EXCEPT ![i] = W!Free] /\ UNCHANGED <<trees, torn>>
      BY <1>2 DEF W!RemoveTree
    <2>2. W!TypeOK'
      BY <1>1, <2>1 DEF W!Inv, W!TypeOK
    <2> QED
      BY <1>1, <2>1, <2>2, TreesQuiet DEF W!Inv, W!TypeOK, W!Free
  <1>3. CASE b0 \in trees
    <2>1. /\ trees' = trees \ {b0} /\ git' = [git EXCEPT ![i] = [git[i] EXCEPT !.pc = "removed"]]
          /\ W!Wanted(i) => b0 \in torn'
      BY <1>3 DEF W!RemoveTree
    <2>2. /\ git'[i] \in W!Operation("cleanup", {"remove", "removed", "deleted"})
          /\ git'[i].pc = "removed" /\ git'[i].branch = b0 /\ git'[i].of = git[i].of
          /\ \A j \in Slots \ {i} : git'[j] = git[j]
      BY <1>1, <2>1 DEF W!Inv, W!TypeOK, W!Operation
    <2>3. W!TypeOK'
      BY <1>1, <2>1, <2>2 DEF W!Inv, W!TypeOK
    <2>4. W!ToldWhenActive'
      BY <1>1 DEF W!Inv, W!ToldWhenActive
    <2>5. ASSUME NEW b \in Branches \ torn' PROVE (W!HasOne(b) /\ W!MadeForOne(b) /\ W!GoesOnce(b))'
      <3>1. W!HasOne(b) /\ W!MadeForOne(b) /\ W!GoesOnce(b)
        BY <1>1 DEF W!Inv
      <3>2. \A t \in Tasks : W!Has(t, b)' => W!Has(t, b) /\ b # b0
        <4>1. SUFFICES ASSUME NEW t \in Tasks, W!Has(t, b)' PROVE W!Has(t, b) /\ b # b0
          OBVIOUS
        <4>2. W!Has(t, b)
          BY <1>1, <2>2, <4>1 DEF W!Has, W!Removes
        <4>3. ASSUME b = b0 PROVE FALSE
          BY <1>1, <2>1, <2>2, <4>1, <4>3 DEF W!Has, W!Removes, W!Wanted
        <4> QED
          BY <4>2, <4>3
      <3>3. W!HasOne(b)'
        BY <1>1, <2>1, <3>1, <3>2 DEF W!HasOne
      <3>4. b = b0 => \A j \in Slots : ~(git[j].pc = "added" /\ git[j].branch = b)
        BY <2>1 DEF W!Wanted
      <3>5. W!MadeForOne(b)'
        BY <1>1, <2>1, <2>2, <3>1, <3>2, <3>4 DEF W!MadeForOne
      <3>6. W!GoesOnce(b)'
        BY <1>1, <1>3, <2>1, <2>2, <3>1 DEF W!GoesOnce, W!HasOne
      <3> QED
        BY <3>3, <3>5, <3>6
    <2> QED
      BY <2>3, <2>4, <2>5 DEF W!Inv
  <1> QED
    BY <1>2, <1>3

\* A cleanup deletes the branch, or fails to.
LEMMA TreesDelete ==
    ASSUME W!Inv, NEW i \in Slots, W!DeleteBranch(i) \/ W!DeleteBranchFails(i)
    PROVE  W!Inv'
  <1> DEFINE b0 == git[i].branch
  <1>1. git[i].pc = "removed" /\ git[i] \in W!Operation("cleanup", {"remove", "removed", "deleted"})
        /\ UNCHANGED <<trees, binding, told>>
    BY TreesOperation DEF W!DeleteBranch, W!DeleteBranchFails, W!Inv
  <1>2. CASE W!DeleteBranchFails(i) \/ b0 \notin heads
    <2>1. git' = [git EXCEPT ![i] = W!Free] /\ heads' = heads /\ torn' = torn \cup {b0}
      BY <1>2 DEF W!DeleteBranch, W!DeleteBranchFails
    <2>2. W!TypeOK'
      BY <1>1, <2>1 DEF W!Inv, W!TypeOK
    <2> QED
      BY <1>1, <2>1, <2>2, TreesQuiet DEF W!Inv, W!TypeOK, W!Free
  <1>3. CASE W!DeleteBranch(i) /\ b0 \in heads
    <2>1. heads' = heads \ {b0} /\ git' = [git EXCEPT ![i] = [git[i] EXCEPT !.pc = "deleted"]] /\ torn' = torn
      BY <1>3 DEF W!DeleteBranch
    <2>2. /\ git'[i] \in W!Operation("cleanup", {"remove", "removed", "deleted"})
          /\ git'[i].pc = "deleted" /\ git'[i].branch = b0 /\ git'[i].of = git[i].of
          /\ \A j \in Slots \ {i} : git'[j] = git[j]
      BY <1>1, <2>1 DEF W!Inv, W!TypeOK, W!Operation
    <2>3. W!TypeOK'
      BY <1>1, <2>1, <2>2 DEF W!Inv, W!TypeOK
    <2>4. W!ToldWhenActive'
      BY <1>1 DEF W!Inv, W!ToldWhenActive
    <2>5. ASSUME NEW b \in Branches \ torn' PROVE (W!HasOne(b) /\ W!MadeForOne(b) /\ W!GoesOnce(b))'
      <3>1. W!HasOne(b) /\ W!MadeForOne(b) /\ W!GoesOnce(b)
        BY <2>1 DEF W!Inv
      <3>2. \A t \in Tasks : W!Has(t, b)' <=> W!Has(t, b)
        BY <1>1, <2>2 DEF W!Has, W!Removes
      <3>3. b = b0 => b \notin trees /\ \A j \in Slots \ {i} : ~(git[j].pc = "removed" /\ git[j].branch = b)
        BY <1>1, <3>1 DEF W!GoesOnce
      <3>4. W!HasOne(b)' /\ W!MadeForOne(b)'
        BY <1>1, <2>1, <2>2, <3>1, <3>2, <3>3 DEF W!HasOne, W!MadeForOne
      <3>5. W!GoesOnce(b)'
        BY <1>1, <2>1, <2>2, <3>1, <3>3 DEF W!GoesOnce
      <3> QED
        BY <3>4, <3>5
    <2> QED
      BY <2>3, <2>4, <2>5 DEF W!Inv
  <1> QED
    BY <1>2, <1>3

\* The thread is told that its tree is gone.
LEMMA TreesDetach ==
    ASSUME W!Inv, NEW i \in Slots, W!Detach(i)
    PROVE  W!Inv'
  <1> DEFINE t0 == git[i].of
             b0 == git[i].branch
  <1>1. git[i].pc = "deleted" /\ t0 \in Tasks /\ b0 \in Branches
    BY TreesOperation DEF W!Detach, W!Inv, W!Operation
  <1>2. /\ told' = [told EXCEPT ![t0] = W!Bound("deleted", b0)]
        /\ binding' = [binding EXCEPT ![t0] = W!Bound("deleted", b0)]
        /\ git' = [git EXCEPT ![i] = W!Free] /\ UNCHANGED <<trees, heads, torn>>
    BY DEF W!Detach
  <1>3. W!Bound("deleted", b0) \in W!Bindings /\ \A b : W!Bound("deleted", b0) # W!Bound("active", b)
    BY <1>1 DEF W!Bound, W!Bindings
  <1>4. /\ git'[i].pc \notin {"added", "removed", "deleted"}
        /\ \A j \in Slots \ {i} : git'[j] = git[j]
    BY <1>2 DEF W!Inv, W!TypeOK, W!Free
  <1>5. W!TypeOK'
    BY <1>1, <1>2, <1>3 DEF W!Inv, W!TypeOK
  <1>6. W!ToldWhenActive'
    BY <1>1, <1>2 DEF W!Inv, W!TypeOK, W!ToldWhenActive
  <1>7. ASSUME NEW b \in Branches \ torn' PROVE (W!HasOne(b) /\ W!MadeForOne(b) /\ W!GoesOnce(b))'
    <2>1. W!HasOne(b) /\ W!MadeForOne(b) /\ W!GoesOnce(b)
      BY <1>2 DEF W!Inv
    <2>2. ASSUME NEW t \in Tasks, W!Has(t, b)' PROVE W!Has(t, b)
      <3>1. t # t0 /\ binding'[t] = binding[t]
        BY <1>1, <1>2, <1>3, <2>2 DEF W!Has, W!Inv, W!TypeOK
      <3> QED
        BY <1>4, <2>2, <3>1 DEF W!Has, W!Removes
    <2>3. W!HasOne(b)'
      BY <1>2, <2>1, <2>2 DEF W!HasOne
    <2>4. W!MadeForOne(b)' /\ W!GoesOnce(b)'
      BY <1>1, <1>2, <1>4, <2>1, <2>2 DEF W!MadeForOne, W!GoesOnce
    <2> QED
      BY <2>3, <2>4
  <1> QED
    BY <1>5, <1>6, <1>7 DEF W!Inv

\* After a restart nothing is under way; what was is torn.
LEMMA TreesRestart == ASSUME W!Inv, W!Restart PROVE W!Inv'
  <1>1. /\ git' = [i \in Slots |-> W!Free] /\ UNCHANGED <<trees, heads, binding>>
        /\ torn \subseteq torn'
        /\ \A i \in Slots : git[i].pc \in {"added", "removed", "deleted"} => git[i].branch \in torn'
        /\ told' = [t \in Tasks |-> IF binding[t].status = "active" THEN binding[t] ELSE W!Unbound]
    BY DEF W!Restart
  <1>2. W!TypeOK' /\ W!ToldWhenActive'
    BY <1>1 DEF W!Inv, W!TypeOK, W!ToldWhenActive, W!Bindings
  <1>3. \A i \in Slots : git'[i].pc = "idle"
    BY <1>1 DEF W!Free
  <1>4. ASSUME NEW b \in Branches \ torn' PROVE (W!HasOne(b) /\ W!MadeForOne(b) /\ W!GoesOnce(b))'
    <2>1. W!HasOne(b)
      BY <1>1 DEF W!Inv
    <2>2. \A t \in Tasks : W!Has(t, b)' <=> W!Has(t, b)
      BY <1>1, <1>3 DEF W!Has, W!Removes
    <2> QED
      BY <1>1, <1>3, <2>1, <2>2 DEF W!HasOne, W!MadeForOne, W!GoesOnce
  <1> QED
    BY <1>2, <1>4 DEF W!Inv

\* Every step keeps the invariant.
LEMMA TreesNext == W!Inv /\ [W!Next]_W!wvars => W!Inv'
  <1> SUFFICES ASSUME W!Inv, [W!Next]_W!wvars PROVE W!Inv'
      OBVIOUS
  <1>1. CASE UNCHANGED <<trees, heads, binding, told, git, torn>>
    BY <1>1 DEF W!Inv, W!TypeOK, W!ToldWhenActive, W!HasOne, W!MadeForOne, W!GoesOnce, W!Has,
       W!Removes
  <1>2. CASE UNCHANGED W!wvars \/ \E t \in Tasks : W!StartScript(t) \/ W!EnterTree(t) \/ W!EndScript(t)
    BY <1>1, <1>2 DEF W!wvars, W!StartScript, W!EnterTree, W!EndScript
  <1> QED
    BY <1>2, TreesStart, TreesAdd, TreesAttach, TreesRemove, TreesDelete, TreesDetach,
       TreesRestart DEF W!Next

\* The invariant says what ActiveHasItsTree asks.
LEMMA TreesGive == W!Inv => W!ActiveHasItsTree
  <1> SUFFICES ASSUME W!Inv, NEW t \in Tasks, binding[t].status = "active",
                      binding[t].branch \notin torn, ~W!Cleaning(binding[t].branch)
               PROVE  /\ binding[t].branch \in trees \cap heads
                      /\ \A u \in Tasks \ {t} : binding[u] # binding[t]
                      /\ told[t] = binding[t]
      BY DEF W!ActiveHasItsTree
  <1> DEFINE b == binding[t].branch
  <1>1. b \in Branches /\ binding[t] = W!Bound("active", b)
    BY DEF W!Inv, W!TypeOK, W!Bindings, W!Bound, W!Unbound
  <1>2. \A i \in Slots, u \in Tasks : ~W!Removes(i, u, b)
    BY TreesOperation DEF W!Inv, W!Removes, W!Operation, W!Cleaning
  <1>3. \A u \in Tasks : binding[u] = binding[t] => W!Has(u, b)
    BY <1>1, <1>2 DEF W!Has
  <1>4. W!HasOne(b)
    BY <1>1 DEF W!Inv
  <1> QED
    BY <1>3, <1>4 DEF W!HasOne, W!Inv, W!ToldWhenActive

-----------------------------------------------------------------------------
(* ScriptEnv.  Who is in the project holds the lock file unless it was     *)
(* robbed of it, and each place of a process has seen what the command     *)
(* before it made.                                                         *)

\* The invariant holds at the start.
LEMMA EnvInit == E!Init => E!Inv
  <1> SUFFICES ASSUME E!Init PROVE E!Inv
      OBVIOUS
  <1>1. E!Project("pinned", TRUE, FALSE, {}) \in E!Projects
        /\ \A mapped \in BOOLEAN : E!Project("loose", FALSE, mapped, {}) \in E!Projects
    BY DEF E!Project, E!Projects
  <1>2. [agent |-> "old", packages |-> {}] \in E!Environments /\ [agent |-> "new", packages |-> {}] \in E!Environments
    BY DEF E!Environments
  <1>3. pyproject \in E!Projects \cup {None} /\ uvlock \in E!Projects \cup {None} /\ venv \in E!Environments \cup {None}
    BY <1>1, <1>2 DEF E!Init
  <1>4. E!NoFiles \in E!Originals
    BY DEF E!NoFiles, E!Originals
  <1>5. E!TypeOK
    BY <1>3, <1>4 DEF E!Init, E!TypeOK, E!Places
  <1> QED
    BY <1>5 DEF E!Init, E!Inv, E!HoldersAreInside, E!Inside, E!Seen, E!Prepared

\* The lock file, and a process that dies.
LEMMA EnvLockStep ==
    ASSUME E!Inv, NEW p \in E!Process,
           E!Acquire(p) \/ E!LookStale(p) \/ E!RemoveStale(p) \/ E!AcquireTimeout(p) \/ E!Release(p) \/ E!Crash(p)
    PROVE  E!Inv'
  <1> USE EnvNone DEF E!Inv, E!TypeOK, E!Places, E!Goes, E!Fails, E!files
  <1>1. CASE E!Acquire(p)
    BY <1>1 DEF E!Acquire, E!FirstStep, E!HoldersAreInside, E!Inside, E!Seen, E!Prepared
  <1>2. CASE E!LookStale(p)
    BY <1>2 DEF E!LookStale, E!HoldersAreInside, E!Inside, E!Seen, E!Prepared
  <1>3. CASE E!RemoveStale(p)
    BY <1>3 DEF E!RemoveStale, E!HoldersAreInside, E!Inside, E!Seen, E!Prepared
  <1>4. CASE E!AcquireTimeout(p)
    BY <1>4 DEF E!AcquireTimeout, E!HoldersAreInside, E!Inside, E!Seen, E!Prepared
  <1>5. CASE E!Release(p)
    BY <1>5 DEF E!Release, E!HoldersAreInside, E!Inside, E!Seen, E!Prepared
  <1>6. CASE E!Crash(p)
    <2>1. E!NoFiles \in E!Originals
      BY DEF E!NoFiles, E!Originals
    <2> QED
      BY <1>6, <2>1 DEF E!Crash, E!HoldersAreInside, E!Inside, E!Seen, E!Prepared
  <1> QED
    BY <1>1, <1>2, <1>3, <1>4, <1>5, <1>6

\* A command of one that is in the project, which leaves the lock file and what
\* the others are doing alone.
Command(p) ==
    /\ E!Inside(p) /\ UNCHANGED <<lockfile, robbed>>
    /\ \A q \in E!Process \ {p} :
           at'[q] = at[q] /\ ok'[q] = ok[q] /\ saved'[q] = saved[q] /\ back'[q] = back[q]
    /\ pyproject # None => pyproject' # None
    /\ venv # None => venv' # None

\* A command of whoever is in the project keeps what the others have seen.
LEMMA EnvCommand ==
    ASSUME E!Inv, NEW p \in E!Process, Command(p), E!TypeOK', E!Inside(p)', E!Seen(p)', E!Prepared(p)'
    PROVE  E!Inv'
  <1> USE DEF E!Inv, Command
  <1>1. E!HoldersAreInside'
    BY DEF E!HoldersAreInside, E!Inside
  <1>2. ASSUME NEW q \in E!Process PROVE E!Seen(q)' /\ E!Prepared(q)'
    <2>1. CASE q = p
      BY <2>1
    <2>2. CASE q # p
      <3>1. E!Seen(q)'
        BY <2>2 DEF E!Seen
      <3>2. at[q] = "release" => robbed # {}
        BY <2>2 DEF E!HoldersAreInside, E!Inside
      <3>3. E!Prepared(q)'
        BY <2>2, <3>2 DEF E!Prepared
      <3> QED
        BY <3>1, <3>3
    <2> QED
      BY <2>1, <2>2
  <1> QED
    BY <1>1, <1>2

\* What the commands of uv make of a project.
LEMMA EnvProject ==
    ASSUME E!Inv, pyproject # None
    PROVE  /\ [pyproject EXCEPT !.index = TRUE] \in E!Projects
           /\ [pyproject EXCEPT !.source = FALSE] \in E!Projects
           /\ [pyproject EXCEPT !.agent = "pinned"] \in E!Projects
           /\ [pyproject EXCEPT !.agent = IF @ = "no" THEN "loose" ELSE @] \in E!Projects
           /\ \A p \in Scripts : [pyproject EXCEPT !.packages = @ \cup {p}] \in E!Projects
           /\ [agent |-> "old", packages |-> pyproject.packages] \in E!Environments
           /\ [agent |-> "new", packages |-> pyproject.packages] \in E!Environments
           /\ venv # None => [venv EXCEPT !.packages = pyproject.packages] \in E!Environments
  <1>1. pyproject \in E!Projects
    BY DEF E!Inv, E!TypeOK
  <1>2. venv # None => venv \in E!Environments
    BY DEF E!Inv, E!TypeOK
  <1> QED
    BY <1>1, <1>2 DEF E!Projects, E!Environments

\* The commands of a host, one after the other.
LEMMA EnvHostStep ==
    ASSUME E!Inv, NEW p \in Hosts,
           \/ E!UvInit(p) \/ E!EnsureDefaultIndex(p) \/ E!EnsureDeclared(p) \/ E!RemoveSource(p)
           \/ E!EnsureRuntimePackage(p) \/ E!EnsureRuntimeVersion(p) \/ E!EnsureLockCurrent(p)
           \/ E!UvLock(p) \/ E!UvSync(p)
    PROVE  E!Inv'
  <1>1. p \in E!Process
    BY DEF E!Process
  <1>2. E!TypeOK /\ E!Seen(p) /\ E!Prepared(p)
    BY <1>1 DEF E!Inv
  <1>3. /\ E!Project("no", FALSE, FALSE, {}) \in E!Projects
        /\ E!NoFiles \in E!Originals /\ [py |-> pyproject, lock |-> uvlock] \in E!Originals
    BY <1>2 DEF E!Project, E!Projects, E!NoFiles, E!Originals, E!TypeOK
  <1>4. pyproject # None =>
             /\ [pyproject EXCEPT !.index = TRUE] \in E!Projects
             /\ [pyproject EXCEPT !.source = FALSE] \in E!Projects
             /\ [pyproject EXCEPT !.agent = "pinned"] \in E!Projects
             /\ [pyproject EXCEPT !.agent = IF @ = "no" THEN "loose" ELSE @] \in E!Projects
             /\ [agent |-> "old", packages |-> pyproject.packages] \in E!Environments
             /\ [agent |-> "new", packages |-> pyproject.packages] \in E!Environments
    BY EnvProject
  <1> SUFFICES E!TypeOK' /\ Command(p) /\ E!Inside(p)' /\ E!Seen(p)' /\ E!Prepared(p)'
      BY <1>1, EnvCommand
  <1> USE EnvNone, <1>1, <1>2, <1>3, <1>4
          DEF E!Goes, E!Fails, E!Raises, E!files, E!here, E!there, E!LockAndSync
  <1>5. CASE E!UvInit(p)
    <2>1. E!TypeOK'
      BY <1>5 DEF E!UvInit, E!TypeOK, E!Places, E!Seen
    <2>2. Command(p)
      BY <1>5 DEF E!UvInit, E!TypeOK, Command, E!Inside, E!Seen
    <2>3. E!Inside(p)'
      BY <1>5 DEF E!UvInit, E!TypeOK, E!Inside
    <2>4. E!Seen(p)'
      BY <1>5 DEF E!UvInit, E!TypeOK, E!Seen
    <2>5. E!Prepared(p)'
      BY <1>5 DEF E!UvInit, E!TypeOK, E!Prepared, E!Seen
    <2> QED
      BY <2>1, <2>2, <2>3, <2>4, <2>5
  <1>6. CASE E!EnsureDefaultIndex(p)
    <2>1. E!TypeOK'
      BY <1>6 DEF E!EnsureDefaultIndex, E!TypeOK, E!Places, E!Seen
    <2>2. Command(p)
      BY <1>6 DEF E!EnsureDefaultIndex, E!TypeOK, Command, E!Inside, E!Seen
    <2>3. E!Inside(p)'
      BY <1>6 DEF E!EnsureDefaultIndex, E!TypeOK, E!Inside
    <2>4. E!Seen(p)'
      BY <1>6 DEF E!EnsureDefaultIndex, E!TypeOK, E!Seen
    <2>5. E!Prepared(p)'
      BY <1>6 DEF E!EnsureDefaultIndex, E!TypeOK, E!Prepared, E!Seen
    <2> QED
      BY <2>1, <2>2, <2>3, <2>4, <2>5
  <1>7. CASE E!EnsureDeclared(p)
    <2>1. E!TypeOK'
      BY <1>7 DEF E!EnsureDeclared, E!AddRuntimePackage, E!TypeOK, E!Places, E!Seen
    <2>2. Command(p)
      BY <1>7 DEF E!EnsureDeclared, E!AddRuntimePackage, E!TypeOK, Command, E!Inside, E!Seen
    <2>3. E!Inside(p)'
      BY <1>7 DEF E!EnsureDeclared, E!AddRuntimePackage, E!TypeOK, E!Inside
    <2>4. E!Seen(p)'
      BY <1>7 DEF E!EnsureDeclared, E!AddRuntimePackage, E!TypeOK, E!Seen
    <2>5. E!Prepared(p)'
      BY <1>7 DEF E!EnsureDeclared, E!AddRuntimePackage, E!TypeOK, E!Prepared, E!Seen
    <2> QED
      BY <2>1, <2>2, <2>3, <2>4, <2>5
  <1>8. CASE E!RemoveSource(p)
    <2>1. pyproject' \in E!Projects /\ at' \in [E!Process -> E!Places] /\ back' \in [E!Process -> {"none", "package", "check", "release"}]
      BY <1>8 DEF E!RemoveSource, E!TypeOK, E!Places, E!Seen
    <2>2. E!TypeOK'
      BY <1>8, <2>1 DEF E!RemoveSource, E!TypeOK
    <2>3. Command(p)
      BY <1>8 DEF E!RemoveSource, E!TypeOK, Command, E!Inside, E!Seen
    <2>4. E!Inside(p)'
      BY <1>8 DEF E!RemoveSource, E!TypeOK, E!Inside
    <2>5. E!Seen(p)'
      BY <1>8, <2>1 DEF E!RemoveSource, E!TypeOK, E!Seen
    <2>6. E!Prepared(p)'
      BY <1>8 DEF E!RemoveSource, E!TypeOK, E!Prepared, E!Seen
    <2> QED
      BY <2>2, <2>3, <2>4, <2>5, <2>6
  <1>9. CASE E!EnsureRuntimePackage(p)
    <2>1. E!TypeOK'
      BY <1>9 DEF E!EnsureRuntimePackage, E!AddRuntimePackage, E!TypeOK, E!Places, E!Seen
    <2>2. Command(p)
      BY <1>9 DEF E!EnsureRuntimePackage, E!AddRuntimePackage, E!TypeOK, Command, E!Inside, E!Seen
    <2>3. E!Inside(p)'
      BY <1>9 DEF E!EnsureRuntimePackage, E!AddRuntimePackage, E!TypeOK, E!Inside
    <2>4. E!Seen(p)'
      BY <1>9 DEF E!EnsureRuntimePackage, E!AddRuntimePackage, E!TypeOK, E!Seen
    <2>5. E!Prepared(p)'
      BY <1>9 DEF E!EnsureRuntimePackage, E!AddRuntimePackage, E!TypeOK, E!Prepared, E!Seen
    <2> QED
      BY <2>1, <2>2, <2>3, <2>4, <2>5
  <1>10. CASE E!EnsureRuntimeVersion(p)
    <2>1. E!TypeOK'
      BY <1>10 DEF E!EnsureRuntimeVersion, E!TypeOK, E!Places, E!Seen
    <2>2. Command(p)
      BY <1>10 DEF E!EnsureRuntimeVersion, E!TypeOK, Command, E!Inside, E!Seen
    <2>3. E!Inside(p)'
      BY <1>10 DEF E!EnsureRuntimeVersion, E!TypeOK, E!Inside
    <2>4. E!Seen(p)'
      BY <1>10 DEF E!EnsureRuntimeVersion, E!TypeOK, E!Seen
    <2>5. E!Prepared(p)'
      BY <1>10 DEF E!EnsureRuntimeVersion, E!TypeOK, E!Prepared, E!Seen
    <2> QED
      BY <2>1, <2>2, <2>3, <2>4, <2>5
  <1>11. CASE E!EnsureLockCurrent(p)
    <2>1. E!TypeOK'
      BY <1>11 DEF E!EnsureLockCurrent, E!TypeOK, E!Places, E!Seen
    <2>2. Command(p)
      BY <1>11 DEF E!EnsureLockCurrent, E!TypeOK, Command, E!Inside, E!Seen
    <2>3. E!Inside(p)'
      BY <1>11 DEF E!EnsureLockCurrent, E!TypeOK, E!Inside
    <2>4. E!Seen(p)'
      BY <1>11 DEF E!EnsureLockCurrent, E!TypeOK, E!Seen
    <2>5. E!Prepared(p)'
      BY <1>11 DEF E!EnsureLockCurrent, E!TypeOK, E!Prepared, E!Seen
    <2> QED
      BY <2>1, <2>2, <2>3, <2>4, <2>5
  <1>12. CASE E!UvLock(p)
    <2>1. saved[p].py \in E!Projects \cup {None} /\ saved[p].lock \in E!Projects \cup {None}
      BY DEF E!TypeOK, E!Originals
    <2>2. pyproject' \in E!Projects \cup {None} /\ uvlock' \in E!Projects \cup {None} /\ venv' \in E!Environments \cup {None}
      BY <1>12, <2>1 DEF E!UvLock, E!Restore, E!TypeOK, E!Seen, E!Inside
    <2>3. back[p] \in E!Places /\ "sync" \in E!Places
      BY <1>12 DEF E!UvLock, E!TypeOK, E!Places, E!Seen
    <2>4. at' \in [E!Process -> E!Places] /\ ok' \in [E!Process -> BOOLEAN]
      BY <1>12, <2>3 DEF E!UvLock, E!Restore, E!Returns, E!TypeOK
    <2>5. saved' \in [E!Process -> E!Originals] /\ back' \in [E!Process -> {"none", "package", "check", "release"}]
      BY <1>12 DEF E!UvLock, E!Restore, E!Returns, E!TypeOK
    <2>6. E!TypeOK'
      BY <1>12, <2>2, <2>5, <2>4 DEF E!UvLock, E!TypeOK
    <2>7. Command(p)
      BY <1>12 DEF E!UvLock, E!Restore, E!Returns, E!TypeOK, Command, E!Inside, E!Seen
    <2>8. E!Inside(p)'
      BY <1>12 DEF E!UvLock, E!Restore, E!Returns, E!TypeOK, E!Inside
    <2>9. E!Seen(p)'
      BY <1>12 DEF E!UvLock, E!Restore, E!Returns, E!TypeOK, E!Seen
    <2>10. E!Prepared(p)'
      BY <1>12 DEF E!UvLock, E!Restore, E!Returns, E!TypeOK, E!Prepared, E!Seen
    <2> QED
      BY <2>6, <2>7, <2>8, <2>9, <2>10
  <1>13. CASE E!UvSync(p)
    <2>1. saved[p].py \in E!Projects \cup {None} /\ saved[p].lock \in E!Projects \cup {None}
      BY DEF E!TypeOK, E!Originals
    <2>2. pyproject' \in E!Projects \cup {None} /\ uvlock' \in E!Projects \cup {None} /\ venv' \in E!Environments \cup {None}
      BY <1>13, <2>1 DEF E!UvSync, E!Restore, E!TypeOK, E!Seen, E!Inside
    <2>3. back[p] \in E!Places /\ "sync" \in E!Places
      BY <1>13 DEF E!UvSync, E!TypeOK, E!Places, E!Seen
    <2>4. at' \in [E!Process -> E!Places] /\ ok' \in [E!Process -> BOOLEAN]
      BY <1>13, <2>3 DEF E!UvSync, E!Restore, E!Returns, E!TypeOK
    <2>5. saved' \in [E!Process -> E!Originals] /\ back' \in [E!Process -> {"none", "package", "check", "release"}]
      BY <1>13 DEF E!UvSync, E!Restore, E!Returns, E!TypeOK
    <2>6. E!TypeOK'
      BY <1>13, <2>2, <2>5, <2>4 DEF E!UvSync, E!TypeOK
    <2>7. Command(p)
      BY <1>13 DEF E!UvSync, E!Restore, E!Returns, E!TypeOK, Command, E!Inside, E!Seen
    <2>8. E!Inside(p)'
      BY <1>13 DEF E!UvSync, E!Restore, E!Returns, E!TypeOK, E!Inside
    <2>9. E!Seen(p)'
      BY <1>13 DEF E!UvSync, E!Restore, E!Returns, E!TypeOK, E!Seen
    <2>10. E!Prepared(p)'
      BY <1>13 DEF E!UvSync, E!Restore, E!Returns, E!TypeOK, E!Prepared, E!Seen
    <2> QED
      BY <2>6, <2>7, <2>8, <2>9, <2>10
  <1> QED
    BY <1>5, <1>6, <1>7, <1>8, <1>9, <1>10, <1>11, <1>12, <1>13

\* The commands of a script that adds a package.
LEMMA EnvScriptStep ==
    ASSUME E!Inv, NEW p \in Scripts, E!AddDependency(p) \/ E!AddedDependency(p)
    PROVE  E!Inv'
  <1>1. p \in E!Process
    BY DEF E!Process
  <1>2. E!TypeOK /\ E!Seen(p) /\ E!Prepared(p)
    BY <1>1 DEF E!Inv
  <1>3. p \notin Hosts
    BY <1>2 DEF E!AddDependency, E!AddedDependency, E!Seen
  <1> SUFFICES E!TypeOK' /\ Command(p) /\ E!Inside(p)' /\ E!Seen(p)' /\ E!Prepared(p)'
      BY <1>1, EnvCommand
  <1> USE EnvNone, <1>1, <1>2, <1>3 DEF E!Goes, E!Fails, E!Raises, E!files, E!here
  <1>4. CASE E!AddDependency(p)
    <2>1. pyproject # None => [pyproject EXCEPT !.packages = @ \cup {p}] \in E!Projects
      BY EnvProject
    <2>2. E!TypeOK'
      BY <1>4, <2>1 DEF E!AddDependency, E!TypeOK, E!Places
    <2>3. Command(p)
      BY <1>4, <2>1 DEF E!AddDependency, Command, E!Inside, E!TypeOK
    <2>4. E!Inside(p)' /\ E!Seen(p)' /\ E!Prepared(p)'
      BY <1>4, <2>1 DEF E!AddDependency, E!Inside, E!Seen, E!Prepared, E!TypeOK
    <2> QED
      BY <2>2, <2>3, <2>4
  <1>5. CASE E!AddedDependency(p)
    <2>1. [venv EXCEPT !.packages = pyproject.packages] \in E!Environments
      BY <1>5, EnvProject DEF E!AddedDependency, E!Seen
    <2>2. E!TypeOK'
      BY <1>5, <2>1 DEF E!AddedDependency, E!TypeOK, E!Places
    <2>3. Command(p)
      BY <1>5, <2>1 DEF E!AddedDependency, Command, E!Inside, E!TypeOK
    <2>4. E!Inside(p)' /\ E!Seen(p)' /\ E!Prepared(p)'
      BY <1>5, <2>1 DEF E!AddedDependency, E!Inside, E!Seen, E!Prepared, E!TypeOK
    <2> QED
      BY <2>2, <2>3, <2>4
  <1> QED
    BY <1>4, <1>5

\* Every step keeps the invariant.
LEMMA EnvNext == E!Inv /\ [E!Next]_E!evars => E!Inv'
  <1>1. E!Inv /\ UNCHANGED E!evars => E!Inv'
    BY DEF E!evars, E!Inv, E!TypeOK, E!HoldersAreInside, E!Inside, E!Seen, E!Prepared
  <1> QED
    BY <1>1, EnvLockStep, EnvHostStep, EnvScriptStep DEF E!Next

\* The invariant says what EnvIsPrepared asks.
LEMMA EnvGives == E!Inv => E!EnvIsPrepared
  <1> SUFFICES ASSUME E!Inv PROVE E!EnvIsPrepared
      OBVIOUS
  <1>1. venv # None => venv.agent # "no"
    BY DEF E!Inv, E!TypeOK, E!Environments
  <1> QED
    BY <1>1 DEF E!Inv, E!HoldersAreInside, E!Prepared, E!EnvIsPrepared, E!Process

-----------------------------------------------------------------------------
(* CodeIndex.  Every row is of a version the file had, the rows of a file  *)
(* and of its captures fit, and a search that no commit crossed has read   *)
(* them together.                                                          *)

\* A search that did not begin is sound.
LEMMA NoSearchFits == I!NoSearch \in I!Searches /\ (I!Inv => I!Sound(I!NoSearch))
  <1>1. I!NoSearch \in I!Searches
    BY DEF I!NoSearch, I!NoRows, I!Searches, I!Versions
  <1>2. I!Inv => I!Sound(I!NoSearch)
    BY IndexNone DEF I!Inv, I!TypeOK, I!NoSearch, I!NoRows, I!Sound, I!HasNoted, I!ReadTogether,
       I!ParsedSince, I!AnsweredSince, I!Past
  <1> QED BY <1>1, <1>2

\* The invariant holds at the start.
LEMMA IndexInit == I!Init => I!Inv
  <1> SUFFICES ASSUME I!Init PROVE I!Inv
    OBVIOUS
  <1>1. I!TypeOK /\ I!NotedInPast /\ I!RowsFit
    BY NoSearchFits DEF I!Init, I!TypeOK, I!NoRows, I!Versions, I!NotedInPast, I!RowsFit, I!Past,
       I!Fits
  <1>2. I!Sound(I!NoSearch)
    BY <1>1, IndexNone DEF I!TypeOK, I!NoSearch, I!NoRows, I!Sound, I!HasNoted, I!ReadTogether,
       I!ParsedSince, I!AnsweredSince, I!Past
  <1> QED BY <1>1, <1>2 DEF I!Inv, I!Init

\* A step of one query that leaves files and rows alone.
LEMMA IndexMoves ==
  ASSUME I!Inv, NEW p \in Askers, NEW s \in I!Searches, I!Moves(p, s), I!Sound(s),
         finder' \in [Askers -> {None} \cup SUBSET Sources], UNCHANGED <<source, changes, fileRows, captureRows>>
  PROVE  I!Inv'
  <1>1. search' = [search EXCEPT ![p] = s]
    BY DEF I!Moves
  <1>2. I!TypeOK'
    BY <1>1 DEF I!Inv, I!TypeOK
  <1>3. I!NotedInPast' /\ I!RowsFit'
    BY DEF I!Inv, I!NotedInPast, I!RowsFit, I!Past, I!Fits
  <1>4. \A r \in Askers : I!Sound(search[r]) /\ (search'[r] = search[r] \/ search'[r] = s)
    BY <1>1 DEF I!Inv, I!TypeOK
  <1>5. ASSUME NEW r \in Askers PROVE I!Sound(search[r])'
    <2>1. \A z : I!Sound(z) => I!HasNoted(z)' /\ I!ReadTogether(z)' /\ I!ParsedSince(z)' /\ I!AnsweredSince(z)'
      BY DEF I!Sound, I!HasNoted, I!ReadTogether, I!ParsedSince, I!AnsweredSince, I!Past, I!Fits,
         I!Since
    <2> QED BY <1>4, <2>1 DEF I!Sound
  <1> QED BY <1>2, <1>3, <1>5 DEF I!Inv

\* The parts of the invariant that most steps need.
LEMMA IndexFacts == ASSUME I!Inv, NEW p \in Askers PROVE
    /\ search[p] \in I!Searches /\ I!Sound(search[p]) /\ changes \in Nat /\ finder \in [Askers -> {None} \cup SUBSET Sources]
    /\ source \in [Sources -> I!Versions] /\ fileRows \in [Sources -> I!Versions]
    /\ captureRows \in [Queries -> [Sources -> I!Versions]]
    /\ \A f \in Sources : I!Past(source[f]) /\ I!Past(fileRows[f])
  BY DEF I!Inv, I!TypeOK, I!NotedInPast

\* A search begins and notes when.
LEMMA IndexCandidates ==
  ASSUME I!Inv, NEW p \in Askers, NEW q \in Queries, I!CandidateFiles(p, q)
  PROVE  I!Inv'
  <1> DEFINE found == IF finder[p] = None THEN I!Present ELSE finder[p]
             s == [I!NoSearch EXCEPT !.pc = "files", !.query = q, !.todo = found, !.began = changes]
  <1>1. I!Moves(p, s) /\ finder' = [finder EXCEPT ![p] = found] /\ UNCHANGED <<source, changes, fileRows, captureRows>>
    BY DEF I!CandidateFiles
  <1>2. found \in SUBSET Sources /\ changes \in Nat
    BY IndexFacts DEF I!Present
  <1> HIDE DEF found
  <1> DEFINE n == I!NoSearch
  <1>3. /\ n \in I!Searches /\ n.pc = "idle" /\ n.seen = I!NoRows /\ n.file = None /\ n.stat = None /\ n.parsed = None
        /\ n.writes = I!NoRows /\ n.answer = I!NoRows /\ n.crossed = FALSE
    BY NoSearchFits DEF I!NoSearch
  <1> HIDE DEF n
  <1>4. /\ s \in I!Searches /\ s.pc = "files" /\ s.query = q /\ s.began = changes /\ s.seen = I!NoRows /\ s.stat = None
        /\ s.writes = I!NoRows /\ s.answer = I!NoRows /\ s.crossed = FALSE
    <2>1. s = [n EXCEPT !.pc = "files", !.query = q, !.todo = found, !.began = changes]
      BY DEF n
    <2> QED BY <1>2, <1>3, <2>1 DEF I!Searches
  <1> HIDE DEF s
  <1>5. I!Sound(s)
    BY <1>2, <1>4, IndexNone DEF I!NoRows, I!Sound, I!HasNoted, I!ReadTogether, I!ParsedSince,
       I!AnsweredSince, I!Past
  <1>6. finder' \in [Askers -> {None} \cup SUBSET Sources]
    BY <1>1, <1>2, IndexFacts
  <1> QED BY <1>1, <1>4, <1>5, <1>6, IndexMoves

\* It reads the rows of the files,
LEMMA IndexReadFiles == ASSUME I!Inv, NEW p \in Askers, I!ReadFileRows(p) PROVE I!Inv'
  <1> DEFINE o == search[p]
             s == [o EXCEPT !.pc = "captures", !.seen = fileRows]
  <1>1. I!Moves(p, s) /\ UNCHANGED <<source, changes, fileRows, captureRows, finder>> /\ o.pc = "files"
    BY DEF I!ReadFileRows, I!At
  <1>2. o \in I!Searches /\ I!Sound(o) /\ fileRows \in [Sources -> I!Versions] /\ \A f \in Sources : I!Past(fileRows[f])
    BY IndexFacts
  <1> HIDE DEF o
  <1>3. /\ s \in I!Searches /\ s.pc = "captures" /\ s.seen = fileRows /\ s.query = o.query /\ s.began = o.began
        /\ s.stat = o.stat /\ s.writes = o.writes /\ s.answer = o.answer /\ s.crossed = o.crossed
    BY <1>2 DEF I!Searches
  <1> HIDE DEF s
  <1>4. I!HasNoted(s)
    BY <1>1, <1>2, <1>3 DEF I!Sound, I!HasNoted
  <1>5. I!ReadTogether(s) /\ I!ParsedSince(s) /\ I!AnsweredSince(s)
    BY <1>2, <1>3 DEF I!Sound, I!ReadTogether, I!ParsedSince, I!AnsweredSince
  <1> QED BY <1>1, <1>3, <1>4, <1>5, IndexFacts, IndexMoves DEF I!Sound

\* then those of the captures: the two fit unless a commit came between.
LEMMA IndexReadCaptures == ASSUME I!Inv, NEW p \in Askers, I!ReadCaptureRows(p) PROVE I!Inv'
  <1> DEFINE o == search[p]
             s == [o EXCEPT !.pc = "refresh", !.cached = captureRows[o.query]]
  <1>1. I!Moves(p, s) /\ UNCHANGED <<source, changes, fileRows, captureRows, finder>> /\ o.pc = "captures"
    BY DEF I!ReadCaptureRows, I!At
  <1>2. o \in I!Searches /\ I!Sound(o) /\ captureRows \in [Queries -> [Sources -> I!Versions]]
    BY IndexFacts
  <1> HIDE DEF o
  <1>3. o.query \in Queries /\ captureRows[o.query] \in [Sources -> I!Versions]
    BY <1>1, <1>2 DEF I!Sound, I!HasNoted, I!Searches
  <1>4. /\ s \in I!Searches /\ s.pc = "refresh" /\ s.seen = o.seen /\ s.query = o.query /\ s.began = o.began
        /\ s.stat = o.stat /\ s.writes = o.writes /\ s.answer = o.answer /\ s.crossed = o.crossed
        /\ s.cached = captureRows[o.query]
    BY <1>2, <1>3 DEF I!Searches
  <1> HIDE DEF s
  <1>5. I!HasNoted(s) /\ I!ParsedSince(s) /\ I!AnsweredSince(s)
    BY <1>1, <1>2, <1>4 DEF I!Sound, I!HasNoted, I!ParsedSince, I!AnsweredSince
  <1>6. I!ReadTogether(s)
    <2>1. \A f \in Sources : I!Fits(f, fileRows[f], captureRows[o.query][f])
      BY <1>3 DEF I!Inv, I!RowsFit
    <2>2. o.crossed \/ \A f \in Sources : captureRows[o.query][f] # None => o.seen[f] = fileRows[f]
      BY <1>1, <1>2, <1>3 DEF I!Sound, I!ReadTogether
    <2> QED BY <1>4, <2>1, <2>2 DEF I!ReadTogether, I!Fits
  <1> QED BY <1>1, <1>4, <1>5, <1>6, IndexFacts, IndexMoves DEF I!Sound

\* A file is as its row says, or is parsed.
LEMMA IndexStat == ASSUME I!Inv, NEW p \in Askers, NEW f \in Sources, I!Stat(p, f) PROVE I!Inv'
  <1> DEFINE o == search[p]
             s == [o EXCEPT !.todo = @ \ {f}]
  <1>1. UNCHANGED <<source, changes, fileRows, captureRows, finder>> /\ o.pc = "refresh"
    BY DEF I!Stat, I!At
  <1>2. I!Moves(p, IF source[f] = None THEN s
                   ELSE IF s.seen[f] = source[f] /\ s.cached[f] # None
                        THEN [s EXCEPT !.answer[f] = s.cached[f]]
                        ELSE [s EXCEPT !.pc = "parse", !.file = f, !.stat = source[f]])
    BY DEF I!Stat
  <1>3. o \in I!Searches /\ I!Sound(o) /\ source[f] \in I!Versions /\ I!Past(source[f])
    BY IndexFacts
  <1> HIDE DEF o
  <1>4. /\ s \in I!Searches /\ s.pc = "refresh" /\ s.seen = o.seen /\ s.query = o.query /\ s.began = o.began
        /\ s.stat = o.stat /\ s.writes = o.writes /\ s.answer = o.answer /\ s.crossed = o.crossed
        /\ s.cached = o.cached
    BY <1>1, <1>3 DEF I!Searches
  <1> HIDE DEF s
  <1>5. I!Sound(s)
    BY <1>1, <1>3, <1>4 DEF I!Sound, I!HasNoted, I!ReadTogether, I!ParsedSince, I!AnsweredSince
  <1>6. CASE source[f] = None
    BY <1>1, <1>2, <1>4, <1>5, <1>6, IndexFacts, IndexMoves
  <1>7. CASE source[f] # None /\ s.seen[f] = source[f] /\ s.cached[f] # None
    <2> DEFINE t == [s EXCEPT !.answer[f] = s.cached[f]]
    <2>1. /\ t \in I!Searches /\ t.pc = "refresh" /\ t.seen = s.seen /\ t.query = s.query /\ t.began = s.began
          /\ t.stat = s.stat /\ t.writes = s.writes /\ t.answer = [s.answer EXCEPT ![f] = s.cached[f]]
          /\ t.crossed = s.crossed /\ t.cached = s.cached
      BY <1>4 DEF I!Searches
    <2>2. I!Moves(p, t)
      BY <1>2, <1>7
    <2> HIDE DEF t
    <2>3. I!HasNoted(t) /\ I!ReadTogether(t) /\ I!ParsedSince(t)
      BY <1>4, <1>5, <2>1 DEF I!Sound, I!HasNoted, I!ReadTogether, I!ParsedSince
    <2>4. I!AnsweredSince(t)
      <3>1. s.crossed \/ s.cached[f] = source[f]
        BY <1>4, <1>5, <1>7 DEF I!Sound, I!ReadTogether, I!Fits
      <3>2. \A g \in Sources : t.answer[g] = IF g = f THEN s.cached[f] ELSE s.answer[g]
        BY <1>4, <2>1 DEF I!Searches
      <3> QED BY <1>5, <2>1, <3>1, <3>2 DEF I!Sound, I!AnsweredSince, I!Since
    <2> QED BY <1>1, <2>1, <2>2, <2>3, <2>4, IndexFacts, IndexMoves DEF I!Sound
  <1>8. CASE source[f] # None /\ ~(s.seen[f] = source[f] /\ s.cached[f] # None)
    <2> DEFINE t == [s EXCEPT !.pc = "parse", !.file = f, !.stat = source[f]]
    <2>1. /\ t \in I!Searches /\ t.pc = "parse" /\ t.seen = s.seen /\ t.query = s.query /\ t.began = s.began
          /\ t.stat = source[f] /\ t.file = f /\ t.writes = s.writes /\ t.answer = s.answer
          /\ t.crossed = s.crossed /\ t.cached = s.cached
      BY <1>3, <1>4 DEF I!Searches
    <2>2. I!Moves(p, t)
      BY <1>2, <1>8
    <2> HIDE DEF t
    <2>3. I!HasNoted(t)
      BY <1>3, <1>4, <1>5, <1>8, <2>1, IndexNone DEF I!Sound, I!HasNoted
    <2>4. I!ReadTogether(t) /\ I!ParsedSince(t) /\ I!AnsweredSince(t)
      BY <1>4, <1>5, <2>1 DEF I!Sound, I!ReadTogether, I!ParsedSince, I!AnsweredSince
    <2> QED BY <1>1, <2>1, <2>2, <2>3, <2>4, IndexFacts, IndexMoves DEF I!Sound
  <1> QED BY <1>6, <1>7, <1>8

\* What was parsed is what the file held then.
LEMMA IndexParse == ASSUME I!Inv, NEW p \in Askers, I!CapturesForFile(p) PROVE I!Inv'
  <1> DEFINE o == search[p]
             s == [o EXCEPT !.pc = "insert", !.parsed = source[o.file]]
             t == [o EXCEPT !.pc = "refresh", !.file = None, !.stat = None]
  <1>1. UNCHANGED <<source, changes, fileRows, captureRows, finder>> /\ o.pc = "parse"
    BY DEF I!CapturesForFile, I!At
  <1>2. (source[o.file] # None /\ I!Moves(p, s)) \/ I!Moves(p, t)
    BY DEF I!CapturesForFile
  <1>3. o \in I!Searches /\ I!Sound(o) /\ source \in [Sources -> I!Versions]
    BY IndexFacts
  <1> HIDE DEF o
  <1>4. o.file \in Sources /\ o.stat # None /\ source[o.file] \in I!Versions
    BY <1>1, <1>3 DEF I!Sound, I!HasNoted, I!Searches
  <1>5. CASE source[o.file] # None /\ I!Moves(p, s)
    <2>1. /\ s \in I!Searches /\ s.pc = "insert" /\ s.seen = o.seen /\ s.query = o.query /\ s.began = o.began
          /\ s.stat = o.stat /\ s.file = o.file /\ s.writes = o.writes /\ s.answer = o.answer
          /\ s.crossed = o.crossed /\ s.cached = o.cached /\ s.parsed = source[o.file]
      BY <1>3, <1>4 DEF I!Searches
    <2> HIDE DEF s
    <2>2. I!HasNoted(s) /\ I!ReadTogether(s) /\ I!AnsweredSince(s)
      BY <1>1, <1>3, <1>4, <1>5, <2>1, IndexNone DEF I!Sound, I!HasNoted, I!ReadTogether,
         I!AnsweredSince
    <2>3. I!ParsedSince(s)
      BY <1>3, <1>4, <2>1 DEF I!Sound, I!ParsedSince, I!Fits, I!Since
    <2> QED BY <1>1, <1>5, <2>1, <2>2, <2>3, IndexFacts, IndexMoves DEF I!Sound
  <1>6. CASE I!Moves(p, t)
    <2>1. /\ t \in I!Searches /\ t.pc = "refresh" /\ t.seen = o.seen /\ t.query = o.query /\ t.began = o.began
          /\ t.stat = None /\ t.writes = o.writes /\ t.answer = o.answer
          /\ t.crossed = o.crossed /\ t.cached = o.cached
      BY <1>3 DEF I!Searches, I!Versions
    <2> HIDE DEF t
    <2>2. I!HasNoted(t) /\ I!ReadTogether(t) /\ I!AnsweredSince(t) /\ I!ParsedSince(t)
      BY <1>1, <1>3, <2>1 DEF I!Sound, I!HasNoted, I!ReadTogether, I!AnsweredSince, I!ParsedSince,
         I!Past
    <2> QED BY <1>1, <1>6, <2>1, <2>2, IndexFacts, IndexMoves DEF I!Sound
  <1> QED BY <1>2, <1>5, <1>6

\* What was parsed is written, to be committed together.
LEMMA IndexInsert == ASSUME I!Inv, NEW p \in Askers, I!Insert(p) PROVE I!Inv'
  <1> DEFINE o == search[p]
             s == [o EXCEPT !.pc = "refresh", !.file = None, !.stat = None, !.parsed = None,
                            !.writes[o.file] = <<o.stat, o.parsed>>, !.answer[o.file] = o.parsed]
  <1>1. UNCHANGED <<source, changes, fileRows, captureRows, finder>> /\ o.pc = "insert" /\ I!Moves(p, s)
    BY DEF I!Insert, I!At
  <1>2. o \in I!Searches /\ I!Sound(o)
    BY IndexFacts
  <1> HIDE DEF o
  <1>3. o.file \in Sources /\ o.stat \in Nat /\ o.parsed \in Nat /\ I!Past(o.stat)
    BY <1>1, <1>2 DEF I!Sound, I!HasNoted, I!Searches, I!Versions
  <1> DEFINE m == [o EXCEPT !.pc = "refresh", !.file = None, !.stat = None, !.parsed = None]
  <1>4. /\ m \in I!Searches /\ m.pc = "refresh" /\ m.query = o.query /\ m.began = o.began /\ m.seen = o.seen
        /\ m.cached = o.cached /\ m.stat = None /\ m.crossed = o.crossed /\ m.writes = o.writes /\ m.answer = o.answer
    BY <1>2 DEF I!Searches, I!Versions
  <1>5. s = [m EXCEPT !.writes[o.file] = <<o.stat, o.parsed>>, !.answer[o.file] = o.parsed]
    OBVIOUS
  <1> HIDE DEF m, s
  <1>6. /\ s \in I!Searches /\ s.pc = "refresh" /\ s.query = o.query /\ s.began = o.began /\ s.seen = o.seen
        /\ s.cached = o.cached /\ s.stat = None /\ s.crossed = o.crossed
        /\ s.writes = [o.writes EXCEPT ![o.file] = <<o.stat, o.parsed>>]
        /\ s.answer = [o.answer EXCEPT ![o.file] = o.parsed]
    <2> DEFINE w == [o.writes EXCEPT ![o.file] = <<o.stat, o.parsed>>]
               a == [o.answer EXCEPT ![o.file] = o.parsed]
    <2>1. w \in [Sources -> (Nat \X Nat) \cup {None}] /\ a \in [Sources -> I!Versions]
      BY <1>2, <1>3 DEF I!Searches, I!Versions
    <2>2. s = [m EXCEPT !.writes = w, !.answer = a]
      BY <1>4, <1>5
    <2> HIDE DEF w, a
    <2>3. /\ s \in I!Searches /\ s.pc = "refresh" /\ s.query = o.query /\ s.began = o.began /\ s.seen = o.seen
          /\ s.cached = o.cached /\ s.stat = None /\ s.crossed = o.crossed /\ s.writes = w /\ s.answer = a
      BY <1>4, <2>1, <2>2 DEF I!Searches
    <2> QED BY <2>3 DEF w, a
  <1>7. /\ \A f \in Sources : s.writes[f] = IF f = o.file THEN <<o.stat, o.parsed>> ELSE o.writes[f]
        /\ \A f \in Sources : s.answer[f] = IF f = o.file THEN o.parsed ELSE o.answer[f]
    BY <1>2, <1>6 DEF I!Searches
  <1>8. I!HasNoted(s) /\ I!ReadTogether(s)
    BY <1>1, <1>2, <1>3, <1>6, <1>7 DEF I!Sound, I!HasNoted, I!ReadTogether, I!Past
  <1>9. I!ParsedSince(s)
    BY <1>1, <1>2, <1>3, <1>6, <1>7 DEF I!Sound, I!ParsedSince
  <1>10. I!AnsweredSince(s)
    BY <1>1, <1>2, <1>3, <1>6, <1>7 DEF I!Sound, I!ParsedSince, I!AnsweredSince
  <1> QED BY <1>1, <1>6, <1>8, <1>9, <1>10, IndexFacts, IndexMoves DEF I!Sound

\* The query is over, or its process is.
LEMMA IndexEnds ==
  ASSUME I!Inv, NEW p \in Askers, I!Answered(p) \/ I!Raise(p) \/ I!EndScript(p)
  PROVE  I!Inv'
  <1>1. UNCHANGED <<source, changes, fileRows, captureRows>> /\ I!Moves(p, I!NoSearch)
    BY DEF I!Answered, I!Raise, I!EndScript
  <1>2. finder' \in [Askers -> {None} \cup SUBSET Sources]
    BY IndexFacts DEF I!Answered, I!Raise, I!EndScript
  <1> QED BY <1>1, <1>2, NoSearchFits, IndexMoves

\* A file changes: what was noted of it is of the past.
LEMMA IndexChange == ASSUME I!Inv, NEW f \in Sources, I!Change(f) PROVE I!Inv'
  <1>1. UNCHANGED <<fileRows, captureRows, finder, search>> /\ changes' = changes + 1 /\ changes \in Nat
    BY DEF I!Change, I!Inv, I!TypeOK
  <1>2. PICK v \in {None, changes + 1} : source' = [source EXCEPT ![f] = v]
    BY DEF I!Change
  <1>3. /\ source' \in [Sources -> I!Versions] /\ \A g \in Sources : source'[g] = IF g = f THEN v ELSE source[g]
    BY <1>1, <1>2 DEF I!Inv, I!TypeOK, I!Versions
  <1>4. \A w \in I!Versions : I!Past(w) => I!Past(w)' /\ (w # None => w < changes + 1)
    BY <1>1 DEF I!Past, I!Versions
  <1>5. \A g \in Sources : \A t \in I!Versions : \A w : I!Past(t) /\ I!Fits(g, t, w) => I!Fits(g, t, w)'
    BY <1>1, <1>3, <1>4, IndexNone DEF I!Fits
  <1>6. \A g \in Sources : \A b \in Nat : \A w : b <= changes /\ I!Since(g, w, b) => I!Since(g, w, b)'
    BY <1>1, <1>3, IndexNone DEF I!Since
  <1>7. I!TypeOK' /\ I!NotedInPast' /\ I!RowsFit'
    <2>1. I!TypeOK'
      BY <1>1, <1>3 DEF I!Inv, I!TypeOK
    <2>2. I!NotedInPast'
      <3>1. I!Past(v)'
        BY <1>1, <1>2 DEF I!Past
      <3>2. \A g \in Sources : I!Past(source[g]) /\ source[g] \in I!Versions /\ I!Past(fileRows[g]) /\ fileRows[g] \in I!Versions
        BY DEF I!Inv, I!TypeOK, I!NotedInPast
      <3> QED BY <1>1, <1>3, <1>4, <3>1, <3>2 DEF I!NotedInPast, I!Past
    <2>3. I!RowsFit'
      <3>1. \A g \in Sources : I!Past(fileRows[g]) /\ fileRows[g] \in I!Versions /\ \A q \in Queries : I!Fits(g, fileRows[g], captureRows[q][g])
        BY DEF I!Inv, I!TypeOK, I!NotedInPast, I!RowsFit
      <3>2. \A g \in Sources : \A q \in Queries : I!Fits(g, fileRows[g], captureRows[q][g])'
        BY <1>1, <1>5, <3>1 DEF I!Fits
      <3> QED BY <3>2 DEF I!RowsFit
    <2> QED BY <2>1, <2>2, <2>3
  <1>8. ASSUME NEW p \in Askers PROVE I!Sound(search[p])'
    <2> DEFINE s == search[p]
    <2>1. s \in I!Searches /\ I!Sound(s)
      BY IndexFacts
    <2>2. s' = s
      BY <1>1
    <2> HIDE DEF s
    <2>3. /\ s.began \in Nat /\ s.began <= changes /\ s.stat \in I!Versions /\ I!Past(s.stat)
          /\ \A g \in Sources : s.seen[g] \in I!Versions /\ I!Past(s.seen[g])
          /\ \A g \in Sources : s.writes[g] # None => s.writes[g][1] \in I!Versions /\ I!Past(s.writes[g][1])
      BY <2>1 DEF I!Sound, I!HasNoted, I!Searches, I!Versions
    <2>4. I!HasNoted(s)'
      BY <1>1, <1>4, <2>1, <2>2, <2>3 DEF I!Sound, I!HasNoted, I!Past
    <2>5. I!ReadTogether(s)'
      BY <1>1, <1>5, <2>1, <2>2, <2>3 DEF I!Sound, I!ReadTogether
    <2>6. I!ParsedSince(s)'
      <3>1. s.pc = "insert" => s.file \in Sources
        BY <2>1 DEF I!Sound, I!HasNoted, I!Searches
      <3> QED BY <1>5, <1>6, <2>1, <2>2, <2>3, <3>1 DEF I!Sound, I!ParsedSince
    <2>7. I!AnsweredSince(s)'
      BY <1>6, <2>1, <2>2, <2>3 DEF I!Sound, I!AnsweredSince
    <2> QED BY <2>4, <2>5, <2>6, <2>7 DEF I!Sound, s
  <1> QED BY <1>7, <1>8 DEF I!Inv

\* A commit brings the rows of files and captures up to date; with one kind of query
\* they are of one version.
LEMMA IndexCommit ==
  ASSUME \A q, r \in Queries : q = r, I!Inv, NEW p \in Askers, I!Commit(p)
  PROVE  I!Inv'
  <1> DEFINE o == search[p]
             q == o.query
             answered == [I!NoSearch EXCEPT !.pc = "answered", !.query = o.query, !.began = o.began,
                                          !.answer = o.answer, !.crossed = o.crossed]
  <1>1. /\ UNCHANGED <<source, changes, finder>> /\ o.pc = "refresh"
        /\ fileRows' = [f \in Sources |-> IF o.writes[f] = None THEN fileRows[f] ELSE o.writes[f][1]]
        /\ captureRows' = [captureRows EXCEPT ![q] =
               [f \in Sources |-> IF o.writes[f] = None THEN @[f] ELSE o.writes[f][2]]]
        /\ search' = [r \in Askers |-> IF r = p THEN answered
               ELSE [search[r] EXCEPT !.crossed = @ \/ search[r].pc = "captures"]]
    BY DEF I!Commit, I!At
  <1>2. /\ o \in I!Searches /\ I!Sound(o) /\ fileRows \in [Sources -> I!Versions] /\ changes \in Nat
        /\ captureRows \in [Queries -> [Sources -> I!Versions]] /\ \A f \in Sources : I!Past(fileRows[f])
    BY IndexFacts
  <1>3. q \in Queries
    BY <1>1, <1>2 DEF I!Sound, I!HasNoted, I!Searches
  <1> HIDE DEF o, answered
  <1>4. /\ captureRows' \in [Queries -> [Sources -> I!Versions]] /\ fileRows' \in [Sources -> I!Versions]
        /\ \A f \in Sources : fileRows'[f] = IF o.writes[f] = None THEN fileRows[f] ELSE o.writes[f][1]
        /\ \A f \in Sources : captureRows'[q][f] = IF o.writes[f] = None THEN captureRows[q][f] ELSE o.writes[f][2]
    <2>1. \A f \in Sources : o.writes[f] # None => o.writes[f][1] \in Nat /\ o.writes[f][2] \in Nat
      BY <1>2 DEF I!Searches
    <2> QED BY <1>1, <1>2, <1>3, <2>1 DEF I!Versions
  <1>5. /\ answered \in I!Searches /\ answered.pc = "answered" /\ answered.seen = I!NoRows /\ answered.stat = None
        /\ answered.writes = I!NoRows /\ answered.began = o.began /\ answered.answer = o.answer
        /\ answered.crossed = o.crossed
    <2> DEFINE n == I!NoSearch
    <2>1. n \in I!Searches /\ n.seen = I!NoRows /\ n.stat = None /\ n.writes = I!NoRows
      BY NoSearchFits DEF I!NoSearch
    <2>2. answered = [n EXCEPT !.pc = "answered", !.query = o.query, !.began = o.began, !.answer = o.answer,
                               !.crossed = o.crossed]
      BY DEF answered
    <2> HIDE DEF n
    <2> QED BY <1>2, <2>1, <2>2 DEF I!Searches
  <1>6. ASSUME NEW r \in Askers, r # p
        PROVE  /\ search'[r] \in I!Searches
               /\ LET s == search[r]  t == search'[r]
                  IN /\ t.pc = s.pc /\ t.query = s.query /\ t.began = s.began /\ t.seen = s.seen /\ t.cached = s.cached
                     /\ t.file = s.file /\ t.stat = s.stat /\ t.parsed = s.parsed /\ t.writes = s.writes
                     /\ t.answer = s.answer /\ t.crossed = (s.crossed \/ s.pc = "captures")
    <2> DEFINE s == search[r]
    <2>1. s \in I!Searches
      BY IndexFacts
    <2>2. search'[r] = [s EXCEPT !.crossed = (s.crossed \/ s.pc = "captures")]
      BY <1>1, <1>6
    <2> HIDE DEF s
    <2>3. s.crossed \in BOOLEAN /\ (s.crossed \/ s.pc = "captures") \in BOOLEAN
      BY <2>1 DEF I!Searches
    <2> DEFINE x == (s.crossed \/ s.pc = "captures")
    <2> HIDE DEF x
    <2>4. search'[r] = [s EXCEPT !.crossed = x] /\ x \in BOOLEAN
      BY <2>2, <2>3 DEF x
    <2>5. /\ search'[r] \in I!Searches
          /\ LET t == search'[r]
             IN /\ t.pc = s.pc /\ t.query = s.query /\ t.began = s.began /\ t.seen = s.seen /\ t.cached = s.cached
                /\ t.file = s.file /\ t.stat = s.stat /\ t.parsed = s.parsed /\ t.writes = s.writes
                /\ t.answer = s.answer /\ t.crossed = x
      BY <2>1, <2>4 DEF I!Searches
    <2> QED BY <2>5 DEF x, s
  <1>7. I!TypeOK'
    <2>1. search' \in [Askers -> I!Searches]
      BY <1>1, <1>5, <1>6
    <2> QED BY <1>1, <1>4, <2>1 DEF I!Inv, I!TypeOK
  <1>8. I!NotedInPast'
    <2>1. \A f \in Sources : I!Past(fileRows'[f])
      BY <1>2, <1>4 DEF I!Sound, I!HasNoted
    <2> QED BY <1>1, <2>1 DEF I!Inv, I!NotedInPast, I!Past
  <1>9. I!RowsFit'
    <2> SUFFICES ASSUME NEW f \in Sources, NEW z \in Queries PROVE I!Fits(f, fileRows'[f], captureRows'[z][f])
      BY <1>1 DEF I!RowsFit, I!Fits
    <2>1. z = q
      BY <1>3
    <2>2. I!Fits(f, fileRows[f], captureRows[q][f])
      BY <1>3 DEF I!Inv, I!RowsFit
    <2>3. o.writes[f] # None => I!Fits(f, o.writes[f][1], o.writes[f][2])
      BY <1>2 DEF I!Sound, I!ParsedSince
    <2> QED BY <1>4, <2>1, <2>2, <2>3
  <1>10. ASSUME NEW r \in Askers PROVE I!Sound(search[r])'
    <2>1. CASE r = p
      <3>1. PICK s : s = answered
        OBVIOUS
      <3>2. search'[r] = s
        BY <1>1, <2>1, <3>1
      <3>3. I!HasNoted(s)'
        BY <1>1, <1>2, <1>5, <3>1, IndexNone DEF I!Sound, I!HasNoted, I!Past, I!NoRows
      <3>4. I!ReadTogether(s)' /\ I!ParsedSince(s)'
        BY <1>1, <1>5, <3>1 DEF I!ReadTogether, I!ParsedSince, I!NoRows
      <3>5. I!AnsweredSince(s)'
        BY <1>1, <1>2, <1>5, <3>1 DEF I!Sound, I!AnsweredSince, I!Since
      <3> QED BY <3>2, <3>3, <3>4, <3>5 DEF I!Sound
    <2>2. CASE r # p
      <3> DEFINE s == search[r]  t == search'[r]
      <3>1. /\ t.pc = s.pc /\ t.query = s.query /\ t.began = s.began /\ t.seen = s.seen /\ t.cached = s.cached
            /\ t.file = s.file /\ t.stat = s.stat /\ t.parsed = s.parsed /\ t.writes = s.writes
            /\ t.answer = s.answer /\ t.crossed = (s.crossed \/ s.pc = "captures")
        BY <1>6, <2>2
      <3>2. I!Sound(s)
        BY IndexFacts
      <3> HIDE DEF s
      <3>3. I!HasNoted(search[r])'
        BY <1>1, <3>1, <3>2 DEF I!Sound, I!HasNoted, I!Past
      <3>4. I!ReadTogether(search[r])'
        <4>1. s.crossed \in BOOLEAN /\ t.crossed \in BOOLEAN
          BY <1>6, <2>2, IndexFacts DEF I!Searches, s
        <4>2. s.crossed \/ s.pc = "captures" => t.crossed
          BY <3>1, <4>1
        <4>3. CASE ~s.crossed /\ s.pc # "captures"
          <5>1. t.pc \in {"refresh", "parse", "insert"} => \A f \in Sources : I!Fits(f, t.seen[f], t.cached[f])
            BY <3>1, <3>2, <4>3 DEF I!Sound, I!ReadTogether
          <5> QED BY <1>1, <3>1, <4>3, <5>1 DEF I!ReadTogether, I!Fits
        <4> QED BY <4>1, <4>2, <4>3 DEF I!ReadTogether
      <3>5. I!ParsedSince(search[r])'
        BY <1>1, <3>1, <3>2 DEF I!Sound, I!ParsedSince, I!Fits, I!Since
      <3>6. I!AnsweredSince(search[r])'
        BY <1>1, <3>1, <3>2 DEF I!Sound, I!AnsweredSince, I!Since
      <3> QED BY <3>3, <3>4, <3>5, <3>6 DEF I!Sound
    <2> QED BY <2>1, <2>2
  <1> QED BY <1>7, <1>8, <1>9, <1>10 DEF I!Inv

\* A cache that is cleared has no rows.
LEMMA IndexCleared == ASSUME I!Inv, NEW p \in Askers, I!ClearCache(p) PROVE I!Inv'
  <1>1. /\ UNCHANGED <<source, changes, finder, search>> /\ fileRows' = I!NoRows
        /\ captureRows' = [q \in Queries |-> I!NoRows]
    BY DEF I!ClearCache
  <1>2. I!TypeOK' /\ I!NotedInPast' /\ I!RowsFit'
    BY <1>1 DEF I!Inv, I!TypeOK, I!NotedInPast, I!RowsFit, I!Past, I!Fits, I!NoRows, I!Versions
  <1>3. ASSUME NEW r \in Askers PROVE I!Sound(search[r])'
    <2>1. I!Sound(search[r])
      BY IndexFacts
    <2>2. I!HasNoted(search[r])' /\ I!ParsedSince(search[r])' /\ I!AnsweredSince(search[r])'
      BY <1>1, <2>1 DEF I!Sound, I!HasNoted, I!ParsedSince, I!AnsweredSince, I!Past, I!Fits, I!Since
    <2>3. I!ReadTogether(search[r])'
      BY <1>1, <2>1 DEF I!Sound, I!ReadTogether, I!Fits, I!NoRows
    <2> QED BY <2>2, <2>3 DEF I!Sound
  <1> QED BY <1>2, <1>3 DEF I!Inv

\* Every step keeps the invariant.
LEMMA IndexNext == ASSUME \A q, r \in Queries : q = r, I!Inv, [I!Next]_I!cvars PROVE I!Inv'
  <1>1. CASE \E f \in Sources : I!Change(f)
    BY <1>1, IndexChange
  <1>2. ASSUME NEW p \in Askers, NEW q \in Queries, I!CandidateFiles(p, q) PROVE I!Inv'
    BY <1>2, IndexCandidates
  <1>3. ASSUME NEW p \in Askers, I!ReadFileRows(p) \/ I!ReadCaptureRows(p) PROVE I!Inv'
    BY <1>3, IndexReadFiles, IndexReadCaptures
  <1>4. ASSUME NEW p \in Askers, NEW f \in Sources, I!Stat(p, f) PROVE I!Inv'
    BY <1>4, IndexStat
  <1>5. ASSUME NEW p \in Askers, I!CapturesForFile(p) \/ I!Insert(p) \/ I!Commit(p) PROVE I!Inv'
    BY <1>5, IndexParse, IndexInsert, IndexCommit
  <1>6. ASSUME NEW p \in Askers, I!Answered(p) \/ I!Raise(p) \/ I!EndScript(p) \/ I!ClearCache(p) PROVE I!Inv'
    BY <1>6, IndexEnds, IndexCleared
  <1>7. CASE UNCHANGED I!cvars
    BY <1>7 DEF I!cvars, I!Inv, I!TypeOK, I!NotedInPast, I!RowsFit, I!Past, I!Fits, I!Sound,
       I!HasNoted, I!ReadTogether, I!ParsedSince,
       I!AnsweredSince, I!Since
  <1> QED BY <1>1, <1>2, <1>3, <1>4, <1>5, <1>6, <1>7 DEF I!Next

\* The invariant says what AnswerIsCurrent asks.
LEMMA IndexGives == I!Inv => I!AnswerIsCurrent
  BY DEF I!Inv, I!TypeOK, I!Sound, I!AnsweredSince, I!Since, I!AnswerIsCurrent

-----------------------------------------------------------------------------
(* Mcp.  One worker lives at most, it is the client's, and a call that is  *)
(* waited for is in the queue, in its hands or answered.                   *)

\* The invariant holds at the start.
LEMMA McpInit == Mc!Init => Mc!Inv
  <1> SUFFICES ASSUME Mc!Init PROVE Mc!Inv
      OBVIOUS
  <1>1. Mc!TypeOK
    <2>1. client \in [pc : Mc!Phases, thread : Mc!Workers \cup {None}, call : Mc!CallIds \cup {None}]
      BY DEF Mc!Init, Mc!Phases
    <2>2. threads \in [Mc!Workers -> Mc!States] /\ serving \in [Mc!Workers -> Mc!CallIds \cup {None}]
      BY DEF Mc!Init, Mc!States
    <2>3. requests \in Seq(Mc!CallIds) /\ answers \in [Mc!CallIds -> {"result", "error", "closed", None}]
      BY DEF Mc!Init, Mc!CallIds
    <2>4. ready \in {"connected", "failed", None} /\ disturbed \in BOOLEAN
      BY DEF Mc!Init
    <2>5. calls \in Nat /\ calls <= MaxCalls
      <3>1. calls = 0 /\ MaxCalls \in Nat
        BY McpNone DEF Mc!Init
      <3> QED
        BY <3>1
    <2> QED
      BY <2>1, <2>2, <2>3, <2>4, <2>5 DEF Mc!TypeOK
  <1>2. client.pc = "free" /\ ready = None /\ \A w \in Mc!Workers : threads[w] = "none" /\ serving[w] = None
    BY DEF Mc!Init
  <1> QED
    BY <1>1, <1>2 DEF Mc!Inv, Mc!HandsFree, Mc!OneLives, Mc!OwnWorker, Mc!Reported,
       Mc!CallIsSomewhere, Mc!Live

\* A new worker is one that was none.
LEMMA McpUnused ==
    ASSUME \E w \in Mc!Workers : threads[w] = "none"
    PROVE  Mc!UnusedWorker \in Mc!Workers /\ threads[Mc!UnusedWorker] = "none"
  BY DEF Mc!UnusedWorker

\* The script's thread.
LEMMA McpSpawn ==
    ASSUME Mc!Inv, client.pc = "free", client.thread = None, NEW asked \in Mc!CallIds \cup {None}, Mc!Spawn(asked),
           calls' \in Nat, calls' <= MaxCalls,
           UNCHANGED <<serving, requests, ready, answers, disturbed>>
    PROVE  Mc!Inv'
  <1>1. PICK u \in Mc!Workers : threads[u] = "none" /\ u = Mc!UnusedWorker
    BY McpUnused DEF Mc!Spawn
  <1>2. threads' = [threads EXCEPT ![u] = "connecting"] /\ client' = [pc |-> "starting", thread |-> u, call |-> asked]
    BY <1>1 DEF Mc!Spawn
  <1>3. Mc!TypeOK'
    BY <1>1, <1>2 DEF Mc!Inv, Mc!TypeOK, Mc!Phases, Mc!States
  <1>4. Mc!HandsFree'
    BY <1>1, <1>2 DEF Mc!Inv, Mc!TypeOK, Mc!HandsFree
  <1>5. ~disturbed => \A w \in Mc!Workers : ~Mc!Live(w)
    BY McpNone DEF Mc!Inv, Mc!OwnWorker
  <1>6. ~disturbed => ready = None
    BY DEF Mc!Inv, Mc!OwnWorker
  <1>7. ~disturbed => (Mc!OneLives /\ Mc!OwnWorker /\ Mc!Reported /\ Mc!CallIsSomewhere)'
    BY <1>1, <1>2, <1>5, <1>6, McpNone DEF Mc!Inv, Mc!TypeOK, Mc!OneLives, Mc!OwnWorker,
       Mc!Reported, Mc!CallIsSomewhere, Mc!Live
  <1> QED
    BY <1>3, <1>4, <1>7 DEF Mc!Inv

\* The steps of the client.
LEMMA McpClient ==
    ASSUME Mc!Inv, Mc!Start \/ Mc!Call \/ Mc!Started \/ Mc!Answered \/ Mc!Joined \/ Mc!GivesUp \/ Mc!CloseClient
    PROVE  Mc!Inv'
  <1> USE McpNone
  <1>1. CASE Mc!Start
    BY <1>1, McpSpawn DEF Mc!Start, Mc!Inv, Mc!TypeOK
  <1>2. CASE Mc!Call
    <2>1. calls' \in Nat /\ calls' <= MaxCalls /\ calls' \in Mc!CallIds
      BY <1>2 DEF Mc!Call, Mc!Inv, Mc!TypeOK, Mc!CallIds
    <2>2. CASE client.thread = None
      BY <1>2, <2>1, <2>2, McpSpawn DEF Mc!Call
    <2>3. CASE client.thread # None
      <3>1. /\ client' = [client EXCEPT !.pc = "waiting", !.call = calls']
            /\ requests' = Append(requests, calls')
            /\ UNCHANGED <<threads, serving, ready, answers, disturbed>>
            /\ client.pc = "free"
        BY <1>2, <2>3 DEF Mc!Call
      <3>2. Mc!TypeOK'
        <4>1. client' \in [pc : Mc!Phases, thread : Mc!Workers \cup {None}, call : Mc!CallIds \cup {None}]
          BY <2>1, <3>1 DEF Mc!Inv, Mc!TypeOK, Mc!Phases
        <4>2. requests' \in Seq(Mc!CallIds)
          BY <2>1, <3>1 DEF Mc!Inv, Mc!TypeOK
        <4> QED
          BY <2>1, <3>1, <4>1, <4>2 DEF Mc!Inv, Mc!TypeOK
      <3>3. requests'[Len(requests')] = calls' /\ Len(requests') \in DOMAIN requests'
        BY <2>1, <3>1 DEF Mc!Inv, Mc!TypeOK
      <3>4. client'.pc = "waiting" /\ client'.thread = client.thread /\ client'.call = calls'
        <4>1. client \in [pc : Mc!Phases, thread : Mc!Workers \cup {None}, call : Mc!CallIds \cup {None}]
          BY DEF Mc!Inv, Mc!TypeOK
        <4> QED
          BY <3>1, <4>1
      <3>5. Mc!HandsFree' /\ (~disturbed => Mc!OneLives')
        BY <3>1 DEF Mc!Inv, Mc!HandsFree, Mc!OneLives, Mc!Live
      <3>6. ~disturbed => Mc!OwnWorker' /\ Mc!Reported'
        BY <2>3, <3>1, <3>4 DEF Mc!Inv, Mc!TypeOK, Mc!OwnWorker, Mc!Reported, Mc!Live
      <3>7. Mc!CallIsSomewhere'
        BY <2>1, <3>3, <3>4 DEF Mc!CallIsSomewhere, Mc!CallIds
      <3> QED
        BY <3>1, <3>2, <3>5, <3>6, <3>7 DEF Mc!Inv
    <2> QED
      BY <2>2, <2>3
  <1>3. CASE Mc!Started
    <2>1. client.pc = "starting" /\ ready # None /\ ready' = None
          /\ UNCHANGED <<threads, serving, answers, calls, disturbed>>
      BY <1>3 DEF Mc!Started
    <2>2. CASE ready = "failed"
      <3>1. client' = [pc |-> "free", thread |-> None, call |-> None] /\ requests' = requests
        BY <1>3, <2>2 DEF Mc!Started
      <3>2. Mc!TypeOK'
        BY <2>1, <3>1 DEF Mc!Inv, Mc!TypeOK, Mc!Phases
      <3>3. ~disturbed => (Mc!OneLives /\ Mc!OwnWorker /\ Mc!Reported /\ Mc!CallIsSomewhere)'
        BY <2>1, <2>2, <3>1 DEF Mc!Inv, Mc!TypeOK, Mc!OneLives, Mc!OwnWorker, Mc!Reported,
           Mc!CallIsSomewhere, Mc!Live
      <3> QED
        BY <2>1, <3>2, <3>3 DEF Mc!Inv, Mc!HandsFree
    <2>3. CASE ready # "failed" /\ client.call = None
      <3>1. client' = [client EXCEPT !.pc = "free"] /\ requests' = requests
        BY <1>3, <2>3 DEF Mc!Started
      <3>2. Mc!TypeOK' /\ client'.pc = "free" /\ client'.thread = client.thread
        BY <2>1, <3>1 DEF Mc!Inv, Mc!TypeOK, Mc!Phases
      <3>3. ~disturbed => (Mc!OneLives /\ Mc!OwnWorker /\ Mc!Reported /\ Mc!CallIsSomewhere)'
        BY <2>1, <2>3, <3>2 DEF Mc!Inv, Mc!OneLives, Mc!OwnWorker, Mc!Reported,
           Mc!CallIsSomewhere, Mc!Live
      <3> QED
        BY <2>1, <3>2, <3>3 DEF Mc!Inv, Mc!HandsFree
    <2>4. CASE ready # "failed" /\ client.call # None
      <3>1. client' = [client EXCEPT !.pc = "waiting"] /\ requests' = Append(requests, client.call)
        BY <1>3, <2>4 DEF Mc!Started
      <3>2. Mc!TypeOK' /\ client'.pc = "waiting" /\ client'.thread = client.thread /\ client'.call = client.call
        <4>1. client \in [pc : Mc!Phases, thread : Mc!Workers \cup {None}, call : Mc!CallIds \cup {None}] /\ requests \in Seq(Mc!CallIds)
          BY DEF Mc!Inv, Mc!TypeOK
        <4>2. client' \in [pc : Mc!Phases, thread : Mc!Workers \cup {None}, call : Mc!CallIds \cup {None}]
              /\ client'.pc = "waiting" /\ client'.thread = client.thread /\ client'.call = client.call
          BY <3>1, <4>1 DEF Mc!Phases
        <4>3. requests' \in Seq(Mc!CallIds)
          BY <2>4, <3>1, <4>1
        <4> QED
          BY <2>1, <4>2, <4>3 DEF Mc!Inv, Mc!TypeOK
      <3>3. requests'[Len(requests')] = client.call /\ Len(requests') \in DOMAIN requests'
        BY <2>4, <3>1 DEF Mc!Inv, Mc!TypeOK
      <3>4. ~disturbed => (Mc!OneLives /\ Mc!OwnWorker /\ Mc!Reported)'
        BY <2>1, <2>4, <3>2 DEF Mc!Inv, Mc!OneLives, Mc!OwnWorker, Mc!Reported, Mc!Live
      <3>5. Mc!CallIsSomewhere'
        BY <2>4, <3>2, <3>3 DEF Mc!CallIsSomewhere
      <3> QED
        BY <2>1, <3>2, <3>4, <3>5 DEF Mc!Inv, Mc!HandsFree
    <2> QED
      BY <2>2, <2>3, <2>4
  <1>4. CASE Mc!Answered
    <2>1. /\ client.pc \in {"waiting", "closing"}
          /\ client' = [client EXCEPT !.pc = IF @ = "closing" THEN "joining" ELSE "free", !.call = None]
          /\ UNCHANGED <<threads, serving, requests, ready, answers, calls, disturbed>>
      BY <1>4 DEF Mc!Answered
    <2>2. Mc!TypeOK'
      BY <2>1 DEF Mc!Inv, Mc!TypeOK, Mc!Phases
    <2>3. client'.thread = client.thread /\ client'.pc = IF client.pc = "closing" THEN "joining" ELSE "free"
      BY <2>1 DEF Mc!Inv, Mc!TypeOK
    <2>4. ~disturbed => (Mc!OneLives /\ Mc!OwnWorker /\ Mc!Reported /\ Mc!CallIsSomewhere)'
      BY <2>1, <2>3 DEF Mc!Inv, Mc!OneLives, Mc!OwnWorker, Mc!Reported, Mc!CallIsSomewhere, Mc!Live
    <2> QED
      BY <2>1, <2>2, <2>4 DEF Mc!Inv, Mc!HandsFree
  <1>5. CASE Mc!Joined
    <2>1. /\ client.pc = "joining" /\ client' = [client EXCEPT !.pc = "free"]
          /\ UNCHANGED <<threads, serving, requests, ready, answers, calls>>
          /\ disturbed' = (disturbed \/ \E w \in Mc!Workers : Mc!Live(w))
      BY <1>5 DEF Mc!Joined
    <2>2. Mc!TypeOK'
      BY <2>1 DEF Mc!Inv, Mc!TypeOK, Mc!Phases
    <2>3. client'.pc = "free"
      BY <2>1 DEF Mc!Inv, Mc!TypeOK
    <2>4. ~disturbed' => (Mc!OneLives /\ Mc!OwnWorker /\ Mc!Reported /\ Mc!CallIsSomewhere)'
      BY <2>1, <2>3 DEF Mc!Inv, Mc!OneLives, Mc!OwnWorker, Mc!Reported, Mc!CallIsSomewhere, Mc!Live
    <2> QED
      BY <2>1, <2>2, <2>4 DEF Mc!Inv, Mc!HandsFree
  <1>6. CASE Mc!GivesUp
    <2>1. /\ client' = [client EXCEPT !.pc = "free", !.call = None]
          /\ disturbed' = (disturbed \/ client.pc # "waiting")
          /\ UNCHANGED <<threads, serving, requests, ready, answers, calls>>
      BY <1>6 DEF Mc!GivesUp
    <2>2. Mc!TypeOK'
      BY <2>1 DEF Mc!Inv, Mc!TypeOK, Mc!Phases
    <2>3. client'.pc = "free" /\ client'.thread = client.thread
      BY <2>1 DEF Mc!Inv, Mc!TypeOK
    <2>4. ~disturbed' => (Mc!OneLives /\ Mc!OwnWorker /\ Mc!Reported /\ Mc!CallIsSomewhere)'
      BY <2>1, <2>3 DEF Mc!Inv, Mc!OneLives, Mc!OwnWorker, Mc!Reported, Mc!CallIsSomewhere, Mc!Live
    <2> QED
      BY <2>1, <2>2, <2>4 DEF Mc!Inv, Mc!HandsFree
  <1>7. CASE Mc!CloseClient
    <2>1. /\ client.pc = "free" /\ client' = [pc |-> "closing", thread |-> None, call |-> Mc!Close]
          /\ requests' = Append(requests, Mc!Close) /\ answers' = [answers EXCEPT ![Mc!Close] = None]
          /\ UNCHANGED <<threads, serving, ready, calls, disturbed>>
      BY <1>7 DEF Mc!CloseClient
    <2>2. Mc!TypeOK'
      BY <2>1 DEF Mc!Inv, Mc!TypeOK, Mc!Phases, Mc!Close, Mc!CallIds
    <2>3. ~disturbed' => (Mc!OneLives /\ Mc!OwnWorker /\ Mc!Reported /\ Mc!CallIsSomewhere)'
      BY <2>1 DEF Mc!Inv, Mc!OneLives, Mc!OwnWorker, Mc!Reported, Mc!CallIsSomewhere, Mc!Live
    <2> QED
      BY <2>1, <2>2, <2>3 DEF Mc!Inv, Mc!HandsFree
  <1> QED
    BY <1>1, <1>2, <1>3, <1>4, <1>5, <1>6, <1>7

\* The worker.
LEMMA McpConnect ==
    ASSUME Mc!Inv, NEW w \in Mc!Workers, Mc!Connect(w) \/ Mc!ConnectFails(w)
    PROVE  Mc!Inv'
  <1> USE McpNone
  <1>1. Mc!TypeOK'
    BY DEF Mc!Connect, Mc!ConnectFails, Mc!Fails, Mc!Becomes, Mc!Inv, Mc!TypeOK, Mc!States
  <1>2. Mc!HandsFree'
    BY DEF Mc!Connect, Mc!ConnectFails, Mc!Fails, Mc!Becomes, Mc!Inv, Mc!TypeOK, Mc!HandsFree
  <1>3. ASSUME ~disturbed PROVE (Mc!OneLives /\ Mc!OwnWorker /\ Mc!Reported /\ Mc!CallIsSomewhere)'
    <2>1. client.pc = "starting" /\ client.thread = w /\ ready = None /\ UNCHANGED client
      BY <1>3 DEF Mc!Connect, Mc!ConnectFails, Mc!Inv, Mc!OwnWorker, Mc!Reported, Mc!Live
    <2>2. \A v \in Mc!Workers : Mc!Live(v) => v = w
      BY <1>3, <2>1 DEF Mc!Inv, Mc!OwnWorker
    <2>3. \A v \in Mc!Workers \ {w} : threads'[v] = threads[v]
      BY DEF Mc!Connect, Mc!ConnectFails, Mc!Fails, Mc!Becomes, Mc!Inv, Mc!TypeOK
    <2>4. \/ threads'[w] = "connected" /\ ready' = "connected"
          \/ threads'[w] = "ended" /\ ready' = "failed"
      BY <2>1 DEF Mc!Connect, Mc!ConnectFails, Mc!Fails, Mc!Becomes, Mc!Inv, Mc!TypeOK
    <2> QED
      BY <2>1, <2>2, <2>3, <2>4 DEF Mc!OneLives, Mc!OwnWorker, Mc!Reported, Mc!CallIsSomewhere,
         Mc!Live
  <1>4. disturbed' = disturbed
    BY DEF Mc!Connect, Mc!ConnectFails
  <1> QED
    BY <1>1, <1>2, <1>3, <1>4 DEF Mc!Inv

\* A worker takes the request at the head of the queue.
LEMMA McpTake ==
    ASSUME Mc!Inv, NEW w \in Mc!Workers, Mc!Take(w)
    PROVE  Mc!Inv'
  <1> USE McpNone
  <1>1. /\ threads[w] \in {"connected", "broken"} /\ requests # <<>>
        /\ serving' = [serving EXCEPT ![w] = Head(requests)] /\ requests' = Tail(requests)
        /\ threads' = [threads EXCEPT ![w] = IF threads[w] = "connected" THEN "handling" ELSE "failing"]
        /\ UNCHANGED <<client, ready, answers, calls, disturbed>>
    BY DEF Mc!Take, Mc!Becomes
  <1>2. Head(requests) \in Mc!CallIds /\ Tail(requests) \in Seq(Mc!CallIds)
    BY <1>1 DEF Mc!Inv, Mc!TypeOK
  <1>3. Mc!TypeOK'
    BY <1>1, <1>2 DEF Mc!Inv, Mc!TypeOK, Mc!States
  <1>4. Mc!HandsFree'
    BY <1>1 DEF Mc!Inv, Mc!TypeOK, Mc!HandsFree
  <1>5. ASSUME ~disturbed PROVE (Mc!OneLives /\ Mc!OwnWorker /\ Mc!Reported)'
    BY <1>1, <1>5 DEF Mc!Inv, Mc!TypeOK, Mc!OneLives, Mc!OwnWorker, Mc!Reported, Mc!Live
  <1>6. ASSUME ~disturbed PROVE Mc!CallIsSomewhere'
    <2>1. SUFFICES ASSUME client.pc = "waiting", answers[client.call] = None
                   PROVE  \/ \E i \in DOMAIN requests' : requests'[i] = client.call
                          \/ serving'[client.thread] = client.call
      BY <1>1, <1>6 DEF Mc!Inv, Mc!CallIsSomewhere
    <2>2. w = client.thread
      BY <1>1, <1>6, <2>1 DEF Mc!Inv, Mc!OwnWorker, Mc!Live
    <2>3. serving[w] = None /\ client.call # None
      BY <1>1, <1>6, <2>1 DEF Mc!Inv, Mc!HandsFree, Mc!CallIsSomewhere
    <2>4. PICK i \in DOMAIN requests : requests[i] = client.call
      BY <1>6, <2>1, <2>2, <2>3 DEF Mc!Inv, Mc!CallIsSomewhere
    <2>5. CASE i = 1
      BY <1>1, <2>2, <2>4, <2>5 DEF Mc!Inv, Mc!TypeOK
    <2>6. CASE i # 1
      <3>1. i - 1 \in DOMAIN requests' /\ requests'[i - 1] = requests[i]
        BY <1>1, <2>4, <2>6 DEF Mc!Inv, Mc!TypeOK
      <3> QED
        BY <2>4, <3>1
    <2> QED
      BY <2>5, <2>6
  <1> QED
    BY <1>1, <1>3, <1>4, <1>5, <1>6 DEF Mc!Inv

\* A worker answers the request in its hands.
LEMMA McpAnswer ==
    ASSUME Mc!Inv, NEW w \in Mc!Workers, threads[w] \in {"handling", "failing"},
           NEW answer \in {"result", "error", "closed"}, NEW state \in {"connected", "leaving"},
           Mc!Answer(w, answer, state),
           UNCHANGED <<client, requests, ready, calls, disturbed>>
    PROVE  Mc!Inv'
  <1> USE McpNone DEF Mc!Answer, Mc!Becomes
  <1>1. Mc!TypeOK'
    BY DEF Mc!Inv, Mc!TypeOK, Mc!States
  <1>2. Mc!HandsFree'
    BY DEF Mc!Inv, Mc!TypeOK, Mc!HandsFree
  <1>3. ASSUME ~disturbed PROVE (Mc!OneLives /\ Mc!OwnWorker /\ Mc!Reported)'
    BY <1>3 DEF Mc!Inv, Mc!TypeOK, Mc!OneLives, Mc!OwnWorker, Mc!Reported, Mc!Live
  <1>4. ASSUME ~disturbed PROVE Mc!CallIsSomewhere'
    BY <1>4 DEF Mc!Inv, Mc!TypeOK, Mc!CallIsSomewhere, Mc!OwnWorker, Mc!Live
  <1> QED
    BY <1>1, <1>2, <1>3, <1>4 DEF Mc!Inv

\* A worker whose connection broke leaves.
LEMMA McpLeave ==
    ASSUME Mc!Inv, NEW w \in Mc!Workers, Mc!Break(w) \/ Mc!Leave(w) \/ Mc!LeaveFails(w)
    PROVE  Mc!Inv'
  <1> USE McpNone DEF Mc!Break, Mc!Leave, Mc!LeaveFails, Mc!Fails, Mc!Becomes
  <1>1. Mc!TypeOK'
    BY DEF Mc!Inv, Mc!TypeOK, Mc!States
  <1>2. Mc!HandsFree'
    BY DEF Mc!Inv, Mc!TypeOK, Mc!HandsFree
  <1>3. ASSUME ~disturbed' PROVE (Mc!OneLives /\ Mc!OwnWorker /\ Mc!Reported /\ Mc!CallIsSomewhere)'
    BY <1>3 DEF Mc!Inv, Mc!TypeOK, Mc!OneLives, Mc!OwnWorker, Mc!Reported, Mc!CallIsSomewhere,
       Mc!Live
  <1> QED
    BY <1>1, <1>2, <1>3 DEF Mc!Inv

\* Every step keeps the invariant.
LEMMA McpNext == Mc!Inv /\ [Mc!Next]_Mc!mvars => Mc!Inv'
  <1> SUFFICES ASSUME Mc!Inv, [Mc!Next]_Mc!mvars PROVE Mc!Inv'
      OBVIOUS
  <1>1. CASE UNCHANGED <<client, threads, serving, requests, ready, answers, calls, disturbed>>
    BY <1>1 DEF Mc!Inv, Mc!TypeOK, Mc!HandsFree, Mc!OneLives, Mc!OwnWorker, Mc!Reported,
       Mc!CallIsSomewhere, Mc!Live
  <1>2. CASE UNCHANGED Mc!mvars
    BY <1>1, <1>2 DEF Mc!mvars
  <1>3. CASE Mc!Publish \/ \E s \in Servers : Mc!ProbeServer(s)
    BY <1>1, <1>3 DEF Mc!Publish, Mc!ProbeServer, Mc!unchangedClient
  <1>4. ASSUME NEW w \in Mc!Workers, Mc!Dispatch(w) \/ Mc!DispatchBroken(w) \/ Mc!TakeClose(w)
        PROVE  Mc!Inv'
    <2>1. CASE Mc!Dispatch(w)
      BY <2>1, McpAnswer DEF Mc!Dispatch
    <2>2. CASE Mc!DispatchBroken(w)
      BY <2>2, McpAnswer DEF Mc!DispatchBroken
    <2>3. CASE Mc!TakeClose(w)
      BY <2>3, McpAnswer DEF Mc!TakeClose
    <2> QED
      BY <1>4, <2>1, <2>2, <2>3
  <1> QED
    BY <1>2, <1>3, <1>4, McpClient, McpConnect, McpTake, McpLeave DEF Mc!Next

\* The invariant says what WorkerServesItsClient asks.
LEMMA McpGives == Mc!Inv => Mc!WorkerServesItsClient
  BY DEF Mc!Inv, Mc!OneLives, Mc!OwnWorker, Mc!CallIsSomewhere, Mc!WorkerServesItsClient

-----------------------------------------------------------------------------
(* Edits of files.  A patch that is staged and the same patch done one     *)
(* operation after the other stay together: what the one will write is     *)
(* what the other wrote.                                                   *)

\* What holds at 0 and is passed on holds of every natural number.
LEMMA Upwards ==
  ASSUME NEW N, 0 \in N, \A m \in Nat : m \in N => m + 1 \in N
  PROVE  Nat \subseteq N
  <1> DEFINE Out == {m \in Nat : m \notin N}
  <1>1. SUFFICES ASSUME Out # {} PROVE FALSE
    OBVIOUS
  <1>2. PICK m \in Out : \A k \in Out : k >= m
    BY <1>1, Least
  <1>3. m # 0 /\ m \in Nat /\ m \notin N
    OBVIOUS
  <1>4. m - 1 \in Nat /\ ~(m - 1 >= m)
    BY <1>3
  <1>5. m - 1 \in N
    BY <1>2, <1>4
  <1>6. (m - 1) + 1 \in N /\ (m - 1) + 1 = m
    BY <1>4, <1>5
  <1> QED BY <1>3, <1>6

\* What is staged after each operation of a patch.
StagedSteps(st, ops) ==
  /\ st[0] = F!NoPending
  /\ \A i \in 1..Len(ops) : st[i] = F!Stage(st[i - 1], ops[i])
  /\ F!Staged(ops) = st[Len(ops)]

\* There is such a course of the staging.
LEMMA StagedTrace ==
  ASSUME NEW ops, Len(ops) \in Nat
  PROVE  \E st : StagedSteps(st, ops)
  <1> DEFINE n == Len(ops)
             Is(st, k) == st = [i \in 0..k |-> IF i = 0 THEN F!NoPending ELSE F!Stage(st[i - 1], ops[i])]
             Reached == {k \in Nat : \E st : Is(st, k)}
  <1>1. 0 \in Reached
    <2> DEFINE st == [i \in 0..0 |-> F!NoPending]
    <2>1. st = [i \in 0..0 |-> IF i = 0 THEN F!NoPending ELSE F!Stage(st[i - 1], ops[i])]
      <3>1. \A i \in 0..0 : F!NoPending = IF i = 0 THEN F!NoPending ELSE F!Stage(st[i - 1], ops[i])
        OBVIOUS
      <3> QED BY <3>1
    <2> HIDE DEF st
    <2> QED BY <2>1
  <1>2. ASSUME NEW k \in Nat, k \in Reached PROVE k + 1 \in Reached
    <2>1. PICK st : Is(st, k)
      BY <1>2
    <2>2. \A i \in 0..k : st[i] = IF i = 0 THEN F!NoPending ELSE F!Stage(st[i - 1], ops[i])
      BY <2>1
    <2> DEFINE nx == [i \in 0..(k + 1) |-> IF i = k + 1 THEN F!Stage(st[k], ops[k + 1]) ELSE st[i]]
    <2>3. \A i \in 0..(k + 1) : nx[i] = IF i = 0 THEN F!NoPending ELSE F!Stage(nx[i - 1], ops[i])
      <3> SUFFICES ASSUME NEW i \in 0..(k + 1)
          PROVE nx[i] = IF i = 0 THEN F!NoPending ELSE F!Stage(nx[i - 1], ops[i])
        OBVIOUS
      <3>1. CASE i = k + 1
        <4>1. i # 0 /\ i - 1 = k /\ k \in 0..(k + 1) /\ k # k + 1
          BY <3>1
        <4>2. nx[i] = F!Stage(st[k], ops[k + 1]) /\ nx[k] = st[k]
          BY <3>1, <4>1
        <4> HIDE DEF nx
        <4> QED BY <3>1, <4>1, <4>2
      <3>2. CASE i # k + 1
        <4>1. i \in 0..k /\ nx[i] = st[i]
          BY <3>2
        <4>2. i # 0 => i - 1 \in 0..(k + 1) /\ i - 1 # k + 1
          BY <4>1
        <4>3. i # 0 => nx[i - 1] = st[i - 1]
          BY <4>2
        <4> HIDE DEF nx
        <4> QED BY <2>2, <4>1, <4>3
      <3> QED BY <3>1, <3>2
    <2>4. nx = [i \in 0..(k + 1) |-> nx[i]]
      OBVIOUS
    <2>5. Is(nx, k + 1)
      <3> HIDE DEF nx
      <3> QED BY <2>3, <2>4
    <2> HIDE DEF Is, nx
    <2> QED BY <2>5
  <1>3. PICK st : Is(st, n)
    <2> HIDE DEF Reached
    <2>1. n \in Reached
      BY <1>1, <1>2, Upwards
    <2> QED BY <2>1 DEF Reached
  <1> DEFINE ch == CHOOSE f : Is(f, n)
  <1>4. Is(ch, n)
    <2> HIDE DEF Is, n
    <2> QED BY <1>3
  <1>5. F!Staged(ops) = ch[n]
    BY DEF F!Staged
  <1> HIDE DEF ch
  <1>6. \A i \in 0..n : ch[i] = IF i = 0 THEN F!NoPending ELSE F!Stage(ch[i - 1], ops[i])
    BY <1>4
  <1>7. 0 \in 0..n /\ \A i \in 1..n : i \in 0..n /\ i # 0
    OBVIOUS
  <1> HIDE DEF n
  <1>8. ch[0] = F!NoPending /\ \A i \in 1..n : ch[i] = F!Stage(ch[i - 1], ops[i])
    BY <1>6, <1>7
  <1> QED BY <1>5, <1>8 DEF n, StagedSteps

\* The disk after each operation of a patch that is done on d.
DoneSteps(st, d, ops) ==
  /\ st[0] = [done |-> TRUE, disk |-> d]
  /\ \A i \in 1..Len(ops) : st[i] = F!Do(st[i - 1], ops[i])
  /\ F!OneByOne(d, ops) = st[Len(ops)]

\* There is such a course of the operations.
LEMMA DoneTrace ==
  ASSUME NEW d, NEW ops, Len(ops) \in Nat
  PROVE  \E st : DoneSteps(st, d, ops)
  <1> DEFINE n == Len(ops)
             Is(st, k) == st = [i \in 0..k |-> IF i = 0 THEN [done |-> TRUE, disk |-> d] ELSE F!Do(st[i - 1], ops[i])]
             Reached == {k \in Nat : \E st : Is(st, k)}
  <1>1. 0 \in Reached
    <2> DEFINE st == [i \in 0..0 |-> [done |-> TRUE, disk |-> d]]
    <2>1. st = [i \in 0..0 |-> IF i = 0 THEN [done |-> TRUE, disk |-> d] ELSE F!Do(st[i - 1], ops[i])]
      <3>1. \A i \in 0..0 : [done |-> TRUE, disk |-> d] = IF i = 0 THEN [done |-> TRUE, disk |-> d] ELSE F!Do(st[i - 1], ops[i])
        OBVIOUS
      <3> QED BY <3>1
    <2> HIDE DEF st
    <2> QED BY <2>1
  <1>2. ASSUME NEW k \in Nat, k \in Reached PROVE k + 1 \in Reached
    <2>1. PICK st : Is(st, k)
      BY <1>2
    <2>2. \A i \in 0..k : st[i] = IF i = 0 THEN [done |-> TRUE, disk |-> d] ELSE F!Do(st[i - 1], ops[i])
      BY <2>1
    <2> DEFINE nx == [i \in 0..(k + 1) |-> IF i = k + 1 THEN F!Do(st[k], ops[k + 1]) ELSE st[i]]
    <2>3. \A i \in 0..(k + 1) : nx[i] = IF i = 0 THEN [done |-> TRUE, disk |-> d] ELSE F!Do(nx[i - 1], ops[i])
      <3> SUFFICES ASSUME NEW i \in 0..(k + 1)
          PROVE nx[i] = IF i = 0 THEN [done |-> TRUE, disk |-> d] ELSE F!Do(nx[i - 1], ops[i])
        OBVIOUS
      <3>1. CASE i = k + 1
        <4>1. i # 0 /\ i - 1 = k /\ k \in 0..(k + 1) /\ k # k + 1
          BY <3>1
        <4>2. nx[i] = F!Do(st[k], ops[k + 1]) /\ nx[k] = st[k]
          BY <3>1, <4>1
        <4> HIDE DEF nx
        <4> QED BY <3>1, <4>1, <4>2
      <3>2. CASE i # k + 1
        <4>1. i \in 0..k /\ nx[i] = st[i]
          BY <3>2
        <4>2. i # 0 => i - 1 \in 0..(k + 1) /\ i - 1 # k + 1
          BY <4>1
        <4>3. i # 0 => nx[i - 1] = st[i - 1]
          BY <4>2
        <4> HIDE DEF nx
        <4> QED BY <2>2, <4>1, <4>3
      <3> QED BY <3>1, <3>2
    <2>4. nx = [i \in 0..(k + 1) |-> nx[i]]
      OBVIOUS
    <2>5. Is(nx, k + 1)
      <3> HIDE DEF nx
      <3> QED BY <2>3, <2>4
    <2> HIDE DEF Is, nx
    <2> QED BY <2>5
  <1>3. PICK st : Is(st, n)
    <2> HIDE DEF Reached
    <2>1. n \in Reached
      BY <1>1, <1>2, Upwards
    <2> QED BY <2>1 DEF Reached
  <1> DEFINE ch == CHOOSE f : Is(f, n)
  <1>4. Is(ch, n)
    <2> HIDE DEF Is, n
    <2> QED BY <1>3
  <1>5. F!OneByOne(d, ops) = ch[n]
    BY DEF F!OneByOne
  <1> HIDE DEF ch
  <1>6. \A i \in 0..n : ch[i] = IF i = 0 THEN [done |-> TRUE, disk |-> d] ELSE F!Do(ch[i - 1], ops[i])
    BY <1>4
  <1>7. 0 \in 0..n /\ \A i \in 1..n : i \in 0..n /\ i # 0
    OBVIOUS
  <1> HIDE DEF n
  <1>8. ch[0] = [done |-> TRUE, disk |-> d] /\ \A i \in 1..n : ch[i] = F!Do(ch[i - 1], ops[i])
    BY <1>6, <1>7
  <1> QED BY <1>5, <1>8 DEF n, DoneSteps

\* What is staged, and the disk on which the same operations were done.
StagedIs(acc) ==
  /\ acc = [ok |-> acc.ok, order |-> acc.order, text |-> acc.text] /\ acc.ok \in BOOLEAN
  /\ acc.order \in Seq(Paths)
  /\ DOMAIN acc.text = F!Range(acc.order) /\ acc.text = [p \in DOMAIN acc.text |-> acc.text[p]]
DoneIs(e) == e = [done |-> e.done, disk |-> e.disk] /\ e.done \in BOOLEAN /\ F!IsDisk(e.disk)
Agree(acc, e) ==
  /\ StagedIs(acc) /\ DoneIs(e)
  /\ acc.ok = e.done
  /\ e.done => \A p \in Paths : F!Sees(acc, p) = e.disk[p]

\* A text that is put is seen where it was put, and the rest is seen as it was.
LEMMA PutSeen ==
  ASSUME NEW acc, StagedIs(acc), NEW p \in Paths, NEW new
  PROVE  /\ StagedIs(F!Put(acc, p, new)) /\ F!Put(acc, p, new).ok = acc.ok
         /\ \A q \in Paths : F!Sees(F!Put(acc, p, new), q) = IF q = p THEN new ELSE F!Sees(acc, q)
  <1> DEFINE text == [q \in {p} \cup DOMAIN acc.text |-> IF q = p THEN new ELSE acc.text[q]]
             order == IF p \in F!Range(acc.order) THEN acc.order ELSE Append(acc.order, p)
  <1>1. F!Put(acc, p, new) = [ok |-> acc.ok, order |-> order, text |-> text]
    <2>1. PICK k, o, t : acc = [ok |-> k, order |-> o, text |-> t]
      BY DEF StagedIs
    <2>2. acc.ok = k /\ acc.order = o /\ acc.text = t
      BY <2>1
    <2>3. F!Put(acc, p, new) = [[acc EXCEPT !.text = text] EXCEPT !.order = order]
      BY <2>1 DEF F!Put
    <2> HIDE DEF text, order
    <2> QED BY <2>1, <2>2, <2>3
  <1>2. acc.order \in Seq(Paths) /\ DOMAIN acc.text = F!Range(acc.order) /\ acc.ok \in BOOLEAN
    BY DEF StagedIs
  <1>3. order \in Seq(Paths) /\ F!Range(order) = {p} \cup F!Range(acc.order)
    <2>1. CASE p \in F!Range(acc.order)
      BY <1>2, <2>1
    <2>2. CASE p \notin F!Range(acc.order)
      <3>1. order = Append(acc.order, p)
        BY <2>2
      <3>2. PICK s \in Seq(Paths) : s = acc.order
        BY <1>2
      <3>3. /\ Append(s, p) \in Seq(Paths) /\ Len(s) \in Nat /\ DOMAIN s = 1..Len(s)
            /\ DOMAIN Append(s, p) = 1..(Len(s) + 1)
            /\ Append(s, p)[Len(s) + 1] = p /\ \A i \in 1..Len(s) : Append(s, p)[i] = s[i]
        OBVIOUS
      <3>4. F!Range(Append(s, p)) = {p} \cup F!Range(s)
        <4>1. ASSUME NEW x, x \in F!Range(Append(s, p)) PROVE x = p \/ x \in F!Range(s)
          <5>1. PICK i \in 1..(Len(s) + 1) : x = Append(s, p)[i]
            BY <3>3, <4>1 DEF F!Range
          <5>2. i = Len(s) + 1 \/ i \in 1..Len(s)
            BY <3>3, <5>1
          <5> QED BY <3>3, <5>1, <5>2 DEF F!Range
        <4>2. ASSUME NEW x, x = p \/ x \in F!Range(s) PROVE x \in F!Range(Append(s, p))
          <5>1. Len(s) + 1 \in 1..(Len(s) + 1) /\ \A i \in 1..Len(s) : i \in 1..(Len(s) + 1)
            BY <3>3
          <5>2. CASE x = p
            BY <3>3, <5>1, <5>2 DEF F!Range
          <5>3. CASE x \in F!Range(s)
            BY <3>3, <5>1, <5>3 DEF F!Range
          <5> QED BY <4>2, <5>2, <5>3
        <4> QED BY <4>1, <4>2
      <3> HIDE DEF order
      <3> QED BY <3>1, <3>2, <3>3, <3>4
    <2> QED BY <2>1, <2>2
  <1>4. DOMAIN text = {p} \cup DOMAIN acc.text /\ text = [q \in DOMAIN text |-> text[q]]
        /\ \A q \in DOMAIN text : text[q] = IF q = p THEN new ELSE acc.text[q]
    OBVIOUS
  <1> HIDE DEF text, order
  <1>5. PICK put : put = F!Put(acc, p, new)
    OBVIOUS
  <1>6. put.ok = acc.ok /\ put.order = order /\ put.text = text
        /\ put = [ok |-> put.ok, order |-> put.order, text |-> put.text]
    BY <1>1, <1>5
  <1>7. StagedIs(put)
    BY <1>2, <1>3, <1>4, <1>6 DEF StagedIs
  <1>8. \A q \in Paths : F!Sees(put, q) = IF q = p THEN new ELSE F!Sees(acc, q)
    BY <1>2, <1>3, <1>4, <1>6 DEF F!Sees
  <1> QED BY <1>5, <1>6, <1>7, <1>8

\* An operation that is refused leaves both as they were, and refused.
LEMMA RefusedAgree ==
  ASSUME NEW acc, NEW e, Agree(acc, e) PROVE Agree(F!Refuse(acc), F!Undone(e))
  <1>1. F!Refuse(acc) = [ok |-> FALSE, order |-> acc.order, text |-> acc.text]
    <2>1. PICK k, o, t : acc = [ok |-> k, order |-> o, text |-> t]
      BY DEF Agree, StagedIs
    <2>2. acc.order = o /\ acc.text = t
      BY <2>1
    <2>3. PICK no : no = FALSE
      OBVIOUS
    <2>4. F!Refuse(acc) = [acc EXCEPT !.ok = no]
      BY <2>3 DEF F!Refuse
    <2>5. [acc EXCEPT !.ok = no] = [ok |-> no, order |-> o, text |-> t]
      BY ONLY <2>1
    <2> QED BY <2>2, <2>3, <2>4, <2>5
  <1>2. F!Undone(e) = [done |-> FALSE, disk |-> e.disk]
    <2>1. PICK n, d : e = [done |-> n, disk |-> d]
      BY DEF Agree, DoneIs
    <2>2. e.disk = d
      BY <2>1
    <2>3. PICK no : no = FALSE
      OBVIOUS
    <2>4. F!Undone(e) = [e EXCEPT !.done = no]
      BY <2>3 DEF F!Undone
    <2>5. [e EXCEPT !.done = no] = [done |-> no, disk |-> d]
      BY ONLY <2>1
    <2> QED BY <2>2, <2>3, <2>4, <2>5
  <1> QED BY <1>1, <1>2 DEF Agree, StagedIs, DoneIs

\* A text that is put is a text that is written.
LEMMA PutAgree ==
  ASSUME NEW acc, NEW e, Agree(acc, e), e.done, NEW p \in Paths, NEW new
  PROVE  Agree(F!Put(acc, p, new), [e EXCEPT !.disk = [@ EXCEPT ![p] = new]])
  <1>1. StagedIs(acc) /\ DoneIs(e) /\ acc.ok = e.done /\ \A q \in Paths : F!Sees(acc, q) = e.disk[q]
    BY DEF Agree
  <1>2. PICK put : put = F!Put(acc, p, new)
    OBVIOUS
  <1>3. StagedIs(put) /\ put.ok = acc.ok
        /\ \A q \in Paths : F!Sees(put, q) = IF q = p THEN new ELSE F!Sees(acc, q)
    <2>1. StagedIs(acc)
      BY <1>1
    <2>2. /\ StagedIs(F!Put(acc, p, new)) /\ F!Put(acc, p, new).ok = acc.ok
          /\ \A q \in Paths : F!Sees(F!Put(acc, p, new), q) = IF q = p THEN new ELSE F!Sees(acc, q)
      BY ONLY <2>1, p \in Paths, PutSeen
    <2> QED BY <1>2, <2>2
  <1>4. PICK d : d = [e.disk EXCEPT ![p] = new]
    OBVIOUS
  <1>5. F!IsDisk(d) /\ \A q \in Paths : d[q] = IF q = p THEN new ELSE e.disk[q]
    BY <1>1, <1>4 DEF DoneIs, F!IsDisk
  <1>6. PICK f : f = [e EXCEPT !.disk = [@ EXCEPT ![p] = new]]
    OBVIOUS
  <1>7. f = [done |-> e.done, disk |-> d]
    BY <1>1, <1>4, <1>6 DEF DoneIs
  <1>8. DoneIs(f) /\ f.done = e.done /\ f.disk = d
    BY <1>1, <1>5, <1>7 DEF DoneIs
  <1>9. Agree(put, f)
    BY <1>1, <1>3, <1>5, <1>8 DEF Agree
  <1> QED BY <1>2, <1>6, <1>9

\* An operation that is staged is the operation done.
LEMMA StageAgrees ==
  ASSUME NEW acc, NEW e, Agree(acc, e), NEW op, F!IsOperation(op)
  PROVE  Agree(F!Stage(acc, op), F!Do(e, op))
  <1>1. acc.ok = e.done /\ acc.ok \in BOOLEAN
    BY DEF Agree, StagedIs
  <1>2. CASE ~e.done
    BY <1>1, <1>2 DEF F!Stage, F!Do
  <1>3. CASE e.done
    <2>1. acc.ok /\ \A p \in Paths : F!Sees(acc, p) = e.disk[p]
      BY <1>1, <1>3 DEF Agree
    <2>2. op.path \in Paths /\ F!Sees(acc, op.path) = e.disk[op.path]
      BY <2>1 DEF F!IsOperation
    <2>3. Agree(F!Refuse(acc), F!Undone(e))
      BY RefusedAgree
    <2>4. \A new : Agree(F!Put(acc, op.path, new), [e EXCEPT !.disk = [@ EXCEPT ![op.path] = new]])
      BY <1>3, <2>2, PutAgree
    <2>5. CASE op.k = "add"
      <3>1. F!Stage(acc, op) = F!StageAdd(acc, op) /\ F!Do(e, op) = F!DoAdd(e, op)
        BY <1>3, <2>1, <2>5 DEF F!Stage, F!Do
      <3>2. F!DoAdd(e, op) = IF e.disk[op.path] # None THEN F!Undone(e)
                           ELSE [e EXCEPT !.disk = [@ EXCEPT ![op.path] = F!Content(op.lines)]]
        BY DEF F!DoAdd
      <3> QED BY <2>2, <2>3, <2>4, <3>1, <3>2 DEF F!StageAdd
    <2>6. CASE op.k = "delete"
      <3>1. F!Stage(acc, op) = F!StageDelete(acc, op) /\ F!Do(e, op) = F!DoDelete(e, op)
        BY <1>3, <2>1, <2>6 DEF F!Stage, F!Do
      <3>2. F!DoDelete(e, op) = IF e.disk[op.path] = None THEN F!Undone(e)
                              ELSE [e EXCEPT !.disk = [@ EXCEPT ![op.path] = None]]
        BY DEF F!DoDelete
      <3> QED BY <2>2, <2>3, <2>4, <3>1, <3>2 DEF F!StageDelete
    <2>7. CASE op.k = "update"
      <3>1. F!Stage(acc, op) = F!StageUpdate(acc, op) /\ F!Do(e, op) = F!DoUpdate(e, op)
        BY <1>3, <2>1, <2>7 DEF F!Stage, F!Do
      <3>2. op.moveTo \in Paths \cup {None}
        BY <2>7 DEF F!IsOperation
      <3>3. PICK to : to = IF op.moveTo = None THEN op.path ELSE op.moveTo
        OBVIOUS
      <3>4. PICK new : new = F!ApplyHunks(e.disk[op.path], op.hunks)
        OBVIOUS
      <3>5. to \in Paths /\ F!Sees(acc, to) = e.disk[to]
        BY <2>1, <2>2, <3>2, <3>3
      <3>6. F!DoUpdate(e, op) = IF e.disk[op.path] = None \/ (to # op.path /\ e.disk[to] # None) THEN F!Undone(e)
                              ELSE IF ~new.ok THEN F!Undone(e)
                              ELSE [e EXCEPT !.disk = [@ EXCEPT ![op.path] = None, ![to] = new.f]]
        BY <3>3, <3>4 DEF F!DoUpdate
      <3>7. F!StageUpdate(acc, op) = IF F!Sees(acc, op.path) = None THEN F!Refuse(acc)
                                   ELSE IF ~new.ok THEN F!Refuse(acc)
                                   ELSE IF op.moveTo = None THEN F!Put(acc, op.path, new.f)
                                   ELSE IF op.moveTo # op.path /\ F!Sees(acc, op.moveTo) # None THEN F!Refuse(acc)
                                   ELSE F!Put(F!Put(acc, op.path, None), op.moveTo, new.f)
        BY <2>2, <3>4 DEF F!StageUpdate
      <3>8. PICK half : half = [e EXCEPT !.disk = [@ EXCEPT ![op.path] = None]]
        OBVIOUS
      <3>9. Agree(F!Put(acc, op.path, None), half) /\ half.done
        <4>1. half.done
          BY <1>3, <3>8 DEF Agree, DoneIs
        <4> QED BY <2>4, <3>8, <4>1
      <3>10. [half EXCEPT !.disk = [@ EXCEPT ![to] = new.f]]
               = [e EXCEPT !.disk = [@ EXCEPT ![op.path] = None, ![to] = new.f]]
        BY <3>8 DEF Agree, DoneIs
      <3>11. Agree(F!Put(F!Put(acc, op.path, None), to, new.f), [half EXCEPT !.disk = [@ EXCEPT ![to] = new.f]])
        BY <3>5, <3>9, PutAgree
      <3>12. to = op.path =>
               [e EXCEPT !.disk = [@ EXCEPT ![op.path] = None, ![to] = new.f]]
                 = [e EXCEPT !.disk = [@ EXCEPT ![op.path] = new.f]]
        <4> SUFFICES ASSUME to = op.path
            PROVE [e EXCEPT !.disk = [@ EXCEPT ![op.path] = None, ![op.path] = new.f]]
                    = [e EXCEPT !.disk = [@ EXCEPT ![op.path] = new.f]]
          OBVIOUS
        <4>1. [e.disk EXCEPT ![op.path] = None, ![op.path] = new.f] = [e.disk EXCEPT ![op.path] = new.f]
          BY <2>2 DEF Agree, DoneIs, F!IsDisk
        <4> QED BY <4>1
      <3>13. CASE op.moveTo = None
        BY <2>2, <2>3, <2>4, <3>1, <3>3, <3>6, <3>7, <3>12, <3>13
      <3>14. CASE op.moveTo # None
        <4>1. to = op.moveTo
          BY <3>3, <3>14
        <4> QED BY <2>2, <2>3, <3>1, <3>5, <3>6, <3>7, <3>10, <3>11, <3>14, <4>1
      <3> QED BY <3>13, <3>14
    <2> QED BY <2>5, <2>6, <2>7 DEF F!IsOperation
  <1> QED BY <1>1, <1>2, <1>3

\* A patch that is staged is the patch done operation by operation.
LEMMA StagedIsDone ==
  ASSUME NEW ops, Len(ops) \in Nat, \A i \in 1..Len(ops) : F!IsOperation(ops[i]), F!IsDisk(disk)
  PROVE  Agree(F!Staged(ops), F!OneByOne(disk, ops))
  <1>1. PICK st : StagedSteps(st, ops)
    BY StagedTrace
  <1>2. PICK d, on : d = disk /\ DoneSteps(on, d, ops)
    <2>1. PICK d : d = disk
      OBVIOUS
    <2>2. \E on : DoneSteps(on, d, ops)
      BY DoneTrace
    <2> QED BY <2>1, <2>2
  <1>3. /\ st[0] = F!NoPending /\ F!Staged(ops) = st[Len(ops)]
        /\ \A i \in 1..Len(ops) : st[i] = F!Stage(st[i - 1], ops[i])
    BY <1>1 DEF StagedSteps
  <1>4. /\ on[0] = [done |-> TRUE, disk |-> disk] /\ F!OneByOne(disk, ops) = on[Len(ops)]
        /\ \A i \in 1..Len(ops) : on[i] = F!Do(on[i - 1], ops[i])
    BY <1>2 DEF DoneSteps
  <1> DEFINE Reached == {i \in Nat : i <= Len(ops) => Agree(st[i], on[i])}
  <1>5. 0 \in Reached
    <2>1. st[0] = [ok |-> TRUE, order |-> <<>>, text |-> <<>>]
      BY <1>3 DEF F!NoPending
    <2>2. PICK none : none = [ok |-> TRUE, order |-> <<>>, text |-> <<>>]
      OBVIOUS
    <2>3. /\ none = [ok |-> none.ok, order |-> none.order, text |-> none.text]
          /\ none.ok = TRUE /\ none.order = <<>> /\ none.text = <<>>
      BY <2>2
    <2>4. <<>> \in Seq(Paths) /\ DOMAIN <<>> = {} /\ F!Range(<<>>) = {} /\ <<>> = [p \in {} |-> <<>>[p]]
      BY DEF F!Range
    <2>5. StagedIs(none)
      BY <2>3, <2>4 DEF StagedIs
    <2>6. \A p \in Paths : F!Sees(none, p) = disk[p]
      BY <2>3, <2>4 DEF F!Sees
    <2>7. DoneIs(on[0]) /\ on[0].done = TRUE /\ on[0].disk = disk
      BY <1>4 DEF DoneIs
    <2>8. Agree(st[0], on[0])
      BY <2>1, <2>2, <2>3, <2>5, <2>6, <2>7 DEF Agree
    <2> QED BY <2>8
  <1>6. ASSUME NEW i \in Nat, i \in Reached PROVE i + 1 \in Reached
    <2> SUFFICES ASSUME i + 1 <= Len(ops) PROVE Agree(st[i + 1], on[i + 1])
      OBVIOUS
    <2>1. PICK j \in 1..Len(ops) : j = i + 1
      OBVIOUS
    <2>2. j - 1 = i /\ i <= Len(ops)
      BY <2>1
    <2>3. Agree(st[i], on[i])
      BY <1>6, <2>2
    <2>4. st[j] = F!Stage(st[i], ops[j]) /\ on[j] = F!Do(on[i], ops[j])
      BY <1>3, <1>4, <2>2
    <2> QED BY <2>1, <2>3, <2>4, StageAgrees
  <1>7. Len(ops) \in Reached
    <2> HIDE DEF Reached
    <2> QED BY <1>5, <1>6, Upwards
  <1> QED BY <1>3, <1>4, <1>7

\* A sequence is a function of its places, over its range.
LEMMA OverRange ==
  ASSUME NEW n \in Nat, NEW f, f = [i \in 1..n |-> f[i]]
  PROVE  f \in Seq(F!Range(f)) /\ Len(f) = n /\ DOMAIN f = 1..n
  <1>1. DOMAIN f = 1..n
    OBVIOUS
  <1>2. PICK T : T = F!Range(f)
    OBVIOUS
  <1>3. \A i \in 1..n : f[i] \in T
    BY <1>1, <1>2 DEF F!Range
  <1> QED BY <1>2, <1>3, SequenceOf

\* The next write brings its path to what the target holds, and leaves the rest to do.
LEMMA BringsNext ==
  ASSUME NEW writes, NEW d, NEW want, NEW S \in SUBSET Paths, F!Brings(writes, d, want, S), F!IsDisk(d),
         writes # <<>>, NEW f, f = [d EXCEPT ![Head(writes).path] = Head(writes).text]
  PROVE  F!IsDisk(f) /\ F!Brings(Tail(writes), f, want, S)
  <1>1. PICK T : T = F!Range(writes)
    OBVIOUS
  <1>2. writes \in Seq(T)
    BY <1>1 DEF F!Brings
  <1>3. Len(writes) \in Nat /\ DOMAIN writes = 1..Len(writes)
    BY <1>2
  <1>4. Len(writes) # 0
    BY <1>2
  <1>5. 1 \in DOMAIN writes /\ Head(writes) = writes[1]
    BY <1>2, <1>3, <1>4
  <1>6. PICK p, text : p = writes[1].path /\ text = writes[1].text
    OBVIOUS
  <1>7. p \in S /\ p \in Paths /\ text = want[p]
    BY <1>5, <1>6 DEF F!Brings
  <1>8. f = [d EXCEPT ![p] = text]
    BY <1>5, <1>6
  <1>9. F!IsDisk(f) /\ \A q \in Paths : f[q] = IF q = p THEN want[p] ELSE d[q]
    BY <1>7, <1>8 DEF F!IsDisk
  <1>10. PICK rest : rest = Tail(writes)
    OBVIOUS
  <1>11. /\ rest \in Seq(T) /\ DOMAIN rest = 1..(Len(writes) - 1)
         /\ \A i \in 1..(Len(writes) - 1) : i + 1 \in DOMAIN writes /\ rest[i] = writes[i + 1]
    BY <1>2, <1>4, <1>10, SequenceTail
  <1>12. rest \in Seq(F!Range(rest))
    <2>1. PICK n \in Nat : n = Len(rest) /\ rest = [i \in 1..n |-> rest[i]]
      BY <1>11
    <2> QED BY <2>1, OverRange
  <1>13. \A k \in DOMAIN rest : rest[k].path \in S /\ rest[k].text = want[rest[k].path]
    BY <1>11 DEF F!Brings
  <1>14. ASSUME NEW q \in S PROVE f[q] = want[q] \/ \E k \in DOMAIN rest : rest[k].path = q
    <2>1. d[q] = want[q] \/ \E k \in DOMAIN writes : writes[k].path = q
      BY DEF F!Brings
    <2>2. CASE q = p
      BY <1>7, <1>9, <2>2
    <2>3. CASE q # p /\ d[q] = want[q]
      BY <1>9, <2>3
    <2>4. CASE q # p /\ \E k \in DOMAIN writes : writes[k].path = q
      <3>1. PICK k \in DOMAIN writes : writes[k].path = q
        BY <2>4
      <3>2. k # 1
        BY <1>6, <2>4, <3>1
      <3>3. k - 1 \in 1..(Len(writes) - 1) /\ (k - 1) + 1 = k
        BY <1>3, <3>2
      <3> QED BY <1>11, <3>1, <3>3
    <2> QED BY <2>1, <2>2, <2>3, <2>4
  <1> QED BY <1>9, <1>10, <1>12, <1>13, <1>14 DEF F!Brings

\* When nothing is left to write, the paths hold what the target holds.
LEMMA Brought ==
  ASSUME NEW d, NEW want, NEW S, F!Brings(<<>>, d, want, S)
  PROVE  \A p \in S : d[p] = want[p]
  BY DEF F!Brings

\* The writes of what was staged bring the disk to where the operations lead.
LEMMA StagedBrings ==
  ASSUME NEW acc, NEW e, Agree(acc, e), e.done, F!IsDisk(disk),
         NEW writes, writes = [k \in DOMAIN acc.order |-> [path |-> acc.order[k], text |-> acc.text[acc.order[k]]]]
  PROVE  F!IsDisk(e.disk) /\ F!Brings(writes, disk, e.disk, Paths)
  <1>1. acc.order \in Seq(Paths) /\ \A p \in Paths : F!Sees(acc, p) = e.disk[p]
    BY DEF Agree, StagedIs
  <1>2. PICK order : order = acc.order
    OBVIOUS
  <1>3. Len(order) \in Nat /\ DOMAIN order = 1..Len(order) /\ \A k \in DOMAIN order : order[k] \in Paths
    BY <1>1, <1>2
  <1>4. DOMAIN writes = 1..Len(order) /\ writes = [k \in 1..Len(order) |-> writes[k]]
    BY <1>2, <1>3
  <1>5. \A k \in DOMAIN order : writes[k].path = order[k] /\ writes[k].text = acc.text[order[k]]
    BY <1>2
  <1>6. writes \in Seq(F!Range(writes))
    BY <1>3, <1>4, OverRange
  <1>7. \A k \in DOMAIN order : order[k] \in F!Range(order) /\ acc.text[order[k]] = e.disk[order[k]]
    <2> SUFFICES ASSUME NEW k \in DOMAIN order
        PROVE order[k] \in F!Range(order) /\ acc.text[order[k]] = e.disk[order[k]]
      OBVIOUS
    <2>1. order[k] \in F!Range(order) /\ order[k] \in Paths
      BY <1>3 DEF F!Range
    <2> QED BY <1>1, <1>2, <2>1 DEF F!Sees
  <1>8. ASSUME NEW p \in Paths PROVE disk[p] = e.disk[p] \/ \E k \in DOMAIN writes : writes[k].path = p
    <2>1. CASE p \in F!Range(order)
      <3>1. PICK k \in DOMAIN order : p = order[k]
        BY <2>1 DEF F!Range
      <3>2. k \in DOMAIN writes /\ writes[k].path = p
        BY <1>3, <1>4, <1>5, <3>1
      <3> QED BY <3>2
    <2>2. CASE p \notin F!Range(order)
      BY <1>1, <1>2, <2>2 DEF F!Sees
    <2> QED BY <2>1, <2>2
  <1>9. \A k \in DOMAIN writes : writes[k].path \in Paths /\ writes[k].text = e.disk[writes[k].path]
    BY <1>3, <1>4, <1>5, <1>7
  <1>10. F!IsDisk(e.disk)
    BY DEF Agree, DoneIs
  <1> QED BY <1>6, <1>8, <1>9, <1>10 DEF F!Brings

\* The sequence of a finite set has all its elements.
LEMMA SequenceOfSet ==
  ASSUME NEW S, IsFiniteSet(S)
  PROVE  \E n \in Nat : /\ F!SetToSeq(S) \in [1..n -> S]
                        /\ \A x \in S : \E i \in 1..n : F!SetToSeq(S)[i] = x
  <1>1. PICK n : n = Cardinality(S)
    OBVIOUS
  <1>2. n \in Nat /\ ExistsBijection(1..n, S)
    BY <1>1, FS_CardinalityType
  <1>3. \E f \in [1..n -> S] : IsInjective(f)
    BY <1>2 DEF ExistsBijection, Bijection, Injection
  <1>4. F!SetToSeq(S) = CHOOSE f \in [1..n -> S] : IsInjective(f)
    <2>1. F!Cardinality(S) = Cardinality(S)
      BY DEF F!Cardinality, Cardinality
    <2>2. F!SetToSeq(S) = CHOOSE f \in [1..n -> S] : F!IsInjective(f)
      BY <1>1, <2>1 DEF F!SetToSeq
    <2> QED BY <2>2 DEF F!IsInjective, IsInjective
  <1>5. PICK q : q = F!SetToSeq(S)
    OBVIOUS
  <1>6. q \in [1..n -> S] /\ IsInjective(q)
    BY <1>3, <1>4, <1>5
  <1>7. q \in Injection(1..n, S)
    BY <1>6 DEF Injection
  <1>8. Cardinality(1..n) = Cardinality(S)
    <2>1. Cardinality(1..n) = IF 1 > n THEN 0 ELSE n - 1 + 1
      BY <1>2, FS_Interval
    <2> QED BY <1>1, <1>2, <2>1
  <1>9. q \in Surjection(1..n, S)
    BY <1>7, <1>8, FS_Injection
  <1>10. \A x \in S : \E i \in 1..n : q[i] = x
    BY <1>9 DEF Surjection
  <1> QED BY <1>2, <1>5, <1>6, <1>10

\* What a rollback writes brings the captured paths to what was captured.
LEMMA RestoreBrings ==
  ASSUME IsFiniteSet(Paths), DOMAIN snap \subseteq Paths
  PROVE  F!Brings(F!Restore(F!SetToSeq(DOMAIN snap)), disk, snap, DOMAIN snap)
  <1>1. PICK S : S = DOMAIN snap
    OBVIOUS
  <1>2. IsFiniteSet(S)
    BY <1>1, FS_Subset
  <1>3. PICK n \in Nat : /\ F!SetToSeq(S) \in [1..n -> S]
                         /\ \A x \in S : \E i \in 1..n : F!SetToSeq(S)[i] = x
    BY <1>2, SequenceOfSet
  <1>4. PICK q : q = F!SetToSeq(S)
    OBVIOUS
  <1>5. q \in [1..n -> S] /\ \A x \in S : \E i \in 1..n : q[i] = x
    BY <1>3, <1>4
  <1>6. PICK writes : writes = F!Restore(q)
    OBVIOUS
  <1>7. writes = [k \in 1..n |-> [path |-> q[k], text |-> snap[q[k]]]]
    BY <1>5, <1>6 DEF F!Restore
  <1>8. writes = [k \in 1..n |-> writes[k]] /\ DOMAIN writes = 1..n
    BY <1>7
  <1>9. \A k \in 1..n : writes[k].path = q[k] /\ writes[k].text = snap[q[k]]
    BY <1>7
  <1>10. writes \in Seq(F!Range(writes))
    BY <1>8, OverRange
  <1>11. F!Brings(writes, disk, snap, S)
    BY <1>5, <1>8, <1>9, <1>10 DEF F!Brings
  <1> QED BY <1>1, <1>4, <1>6, <1>11

\* The invariant holds at the start.
LEMMA EditsInit == F!Init => F!Inv
  BY DEF F!Init, F!Inv, F!IsDisk, F!PatchInv, F!SnapInv

\* A patch comes, and is checked.
LEMMA EditsApply == ASSUME F!Inv, NEW ops \in Patches, F!ApplyPatch(ops) PROVE F!Inv'
  BY DEF F!ApplyPatch, F!Idle, F!Inv, F!IsDisk, F!PatchInv, F!SnapInv

\* What the check of a patch finds.
LEMMA EditsCheck ==
  ASSUME \A ops \in Patches : F!IsPatch(ops), F!Inv, F!CheckPatch
  PROVE  F!Inv' /\ (patch # <<>> /\ patch' = <<>> => F!PatchIsItsOperations)
  <1>1. editing = "checking" /\ patch \in Patches /\ base = disk /\ F!IsDisk(disk)
    BY DEF F!CheckPatch, F!Inv, F!PatchInv
  <1>2. PICK acc, e : acc = F!Staged(patch) /\ e = F!OneByOne(disk, patch)
    OBVIOUS
  <1>3. Agree(acc, e)
    <2>1. PICK T, ops : ops = patch /\ T = F!Range(ops) /\ ops \in Seq(T)
      BY <1>1 DEF F!IsPatch
    <2>2. Len(ops) \in Nat /\ DOMAIN ops = 1..Len(ops)
      BY <2>1
    <2>3. \A i \in 1..Len(ops) : F!IsOperation(ops[i])
      BY <1>1, <2>1, <2>2 DEF F!IsPatch
    <2> QED BY <1>1, <1>2, <2>1, <2>2, <2>3, StagedIsDone
  <1>4. acc.ok = e.done /\ acc.ok \in BOOLEAN
    BY <1>3 DEF Agree, StagedIs
  <1>5. UNCHANGED <<disk, snap>>
    BY DEF F!CheckPatch
  <1>6. CASE UNCHANGED <<patch, base>> /\ acc.ok /\ editing' = "patching"
             /\ todo' = [k \in DOMAIN acc.order |-> [path |-> acc.order[k], text |-> acc.text[acc.order[k]]]]
    <2>1. F!IsDisk(e.disk) /\ F!Brings(todo', disk, e.disk, Paths)
      BY <1>1, <1>3, <1>4, <1>6, StagedBrings
    <2>2. e = F!OneByOne(base', patch')
      BY <1>1, <1>2, <1>6
    <2>3. F!PatchInv'
      BY <1>4, <1>5, <1>6, <2>1, <2>2 DEF F!PatchInv, F!IsDisk, F!Brings
    <2> QED BY <1>5, <1>6, <2>3 DEF F!Inv, F!SnapInv, F!IsDisk
  <1>7. CASE F!PatchEnds("fits") /\ acc.ok
    <2>1. F!PatchIsItsOperations
      BY <1>1, <1>2, <1>4, <1>5, <1>7 DEF F!PatchIsItsOperations, F!PatchEnds, F!Ends
    <2> QED BY <1>5, <1>7, <2>1 DEF F!Inv, F!PatchInv, F!SnapInv, F!IsDisk, F!PatchEnds
  <1>8. CASE F!PatchEnds("refused") /\ ~acc.ok
    <2>1. F!PatchIsItsOperations
      BY <1>1, <1>2, <1>4, <1>5, <1>8 DEF F!PatchIsItsOperations, F!PatchEnds, F!Ends
    <2> QED BY <1>5, <1>8, <2>1 DEF F!Inv, F!PatchInv, F!SnapInv, F!IsDisk, F!PatchEnds
  <1> QED BY <1>1, <1>2, <1>4, <1>6, <1>7, <1>8 DEF F!CheckPatch

\* A path is written.
LEMMA EditsWrite == ASSUME F!Inv, F!WritePath PROVE F!Inv'
  <1>1. PICK e : e = F!OneByOne(base, patch)
    OBVIOUS
  <1>2. e.done /\ F!IsDisk(e.disk) /\ F!Brings(todo, disk, e.disk, Paths) /\ F!IsDisk(disk)
    BY <1>1 DEF F!WritePath, F!Inv, F!PatchInv
  <1>3. F!IsDisk(disk') /\ F!Brings(todo', disk', e.disk, Paths)
    <2>1. todo # <<>> /\ disk' = [disk EXCEPT ![Head(todo).path] = Head(todo).text] /\ todo' = Tail(todo)
      BY DEF F!WritePath
    <2>2. PICK f, w : f = disk' /\ w = todo'
      OBVIOUS
    <2>3. F!IsDisk(f) /\ F!Brings(Tail(todo), f, e.disk, Paths)
      BY <1>2, <2>1, <2>2, BringsNext
    <2> QED BY <2>1, <2>2, <2>3
  <1>4. UNCHANGED <<editing, patch, base, snap>> /\ editing = "patching"
    BY DEF F!WritePath
  <1>5. e = F!OneByOne(base', patch')
    BY <1>1, <1>4
  <1>6. F!PatchInv'
    BY <1>2, <1>3, <1>4, <1>5 DEF F!PatchInv, F!IsDisk, F!Brings
  <1> QED BY <1>3, <1>4, <1>6 DEF F!Inv, F!SnapInv, F!IsDisk

\* A path cannot be written.
LEMMA EditsFail == ASSUME F!Inv, F!WriteFails PROVE F!Inv'
  <1>1. F!IsDisk(disk')
    <2>1. disk' = disk \/ disk' = [disk EXCEPT ![Head(todo).path] = <<>>]
      BY DEF F!WriteFails
    <2> QED BY <2>1 DEF F!Inv, F!IsDisk
  <1> QED BY <1>1 DEF F!WriteFails, F!PatchEnds, F!Inv, F!PatchInv, F!SnapInv, F!IsDisk

\* Everything is written.
LEMMA EditsPatched ==
  ASSUME F!Inv, F!Patched PROVE F!Inv' /\ F!PatchIsItsOperations
  <1>1. PICK e : e = F!OneByOne(base, patch)
    OBVIOUS
  <1>2. e.done /\ F!IsDisk(e.disk) /\ F!Brings(<<>>, disk, e.disk, Paths) /\ F!IsDisk(disk)
    BY <1>1 DEF F!Patched, F!Inv, F!PatchInv
  <1>3. disk = e.disk
    <2>1. \A p \in Paths : disk[p] = e.disk[p]
      BY <1>2, Brought
    <2> QED BY <1>2, <2>1 DEF F!IsDisk
  <1>4. F!PatchIsItsOperations
    BY <1>1, <1>2, <1>3 DEF F!PatchIsItsOperations, F!Patched, F!PatchEnds, F!Ends
  <1> QED BY <1>4 DEF F!Patched, F!PatchEnds, F!Inv, F!PatchInv, F!SnapInv, F!IsDisk

\* An edit of one file.
LEMMA EditsEdited == ASSUME F!Inv, F!Idle, NEW p \in Paths, NEW new, F!Edited(p, new) PROVE F!Inv'
  <1>1. F!IsDisk(disk')
    BY DEF F!Edited, F!Inv, F!IsDisk
  <1> QED BY <1>1 DEF F!Edited, F!Idle, F!Inv, F!PatchInv, F!SnapInv, F!IsDisk

\* A transaction begins, ends well, or is to be undone.
LEMMA EditsTransaction ==
  ASSUME IsFiniteSet(Paths), F!Inv, (\E named \in BOOLEAN : F!Begin(named)) \/ F!Commit \/ F!Raise PROVE F!Inv'
  <1>1. CASE \E named \in BOOLEAN : F!Begin(named)
    <2>1. PICK named \in BOOLEAN : F!Begin(named)
      BY <1>1
    <2>2. DOMAIN (snap') \subseteq Paths
      BY <2>1 DEF F!Begin, F!Capture
    <2> QED BY <2>1, <2>2 DEF F!Begin, F!Inv, F!PatchInv, F!SnapInv, F!IsDisk
  <1>2. CASE F!Commit
    BY <1>2 DEF F!Commit, F!Inv, F!PatchInv, F!SnapInv, F!IsDisk
  <1>3. CASE F!Raise
    <2>1. DOMAIN snap \subseteq Paths /\ snap # None
      BY <1>3 DEF F!Raise, F!Inv, F!SnapInv
    <2>2. F!Brings(todo', disk, snap, DOMAIN snap)
      BY <1>3, <2>1, RestoreBrings DEF F!Raise
    <2>3. UNCHANGED <<disk, snap, patch, base>> /\ editing = "idle" /\ editing' = "restoring"
      BY <1>3 DEF F!Raise
    <2>4. F!SnapInv'
      BY <2>1, <2>2, <2>3 DEF F!SnapInv, F!Brings
    <2> QED BY <2>3, <2>4 DEF F!Inv, F!PatchInv, F!IsDisk
  <1> QED BY <1>1, <1>2, <1>3

\* A captured path is put back.
LEMMA EditsRestore == ASSUME F!Inv, F!RestorePath PROVE F!Inv'
  <1>1. PICK old : old = snap
    OBVIOUS
  <1>2. DOMAIN old \in SUBSET Paths /\ F!Brings(todo, disk, old, DOMAIN old) /\ F!IsDisk(disk) /\ old # None
    BY <1>1 DEF F!RestorePath, F!Inv, F!SnapInv
  <1>3. F!IsDisk(disk') /\ F!Brings(todo', disk', old, DOMAIN old)
    <2>1. todo # <<>> /\ disk' = [disk EXCEPT ![Head(todo).path] = Head(todo).text] /\ todo' = Tail(todo)
      BY DEF F!RestorePath
    <2>2. PICK f, S : f = disk' /\ S = DOMAIN old
      OBVIOUS
    <2>3. F!IsDisk(f) /\ F!Brings(Tail(todo), f, old, S)
      BY <1>2, <2>1, <2>2, BringsNext
    <2> QED BY <2>1, <2>2, <2>3
  <1>4. UNCHANGED <<editing, patch, base, snap>> /\ editing = "restoring"
    BY DEF F!RestorePath
  <1>5. F!SnapInv'
    BY <1>1, <1>2, <1>3, <1>4 DEF F!SnapInv, F!Brings
  <1> QED BY <1>3, <1>4, <1>5 DEF F!Inv, F!PatchInv, F!IsDisk

\* Everything is put back.
LEMMA EditsRestored ==
  ASSUME F!Inv, F!Restored PROVE F!Inv' /\ F!CapturedIsRestored
  <1>1. F!Brings(<<>>, disk, snap, DOMAIN snap)
    BY DEF F!Restored, F!Inv, F!SnapInv
  <1>2. \A p \in DOMAIN snap : disk'[p] = snap[p]
    BY <1>1, Brought DEF F!Restored
  <1>3. F!CapturedIsRestored
    BY <1>2 DEF F!CapturedIsRestored
  <1> QED BY <1>3 DEF F!Restored, F!Inv, F!PatchInv, F!SnapInv, F!IsDisk

\* Every step keeps the invariant, and does what the properties say.
LEMMA EditsStep ==
  ASSUME IsFiniteSet(Paths), \A ops \in Patches : F!IsPatch(ops), F!Inv, [F!Next]_F!vars
  PROVE  F!Inv' /\ F!PatchIsItsOperations /\ F!CapturedIsRestored
  <1> DEFINE Quiet == (editing = "restoring" => editing' = "restoring")
             Same == patch # <<>> => patch' # <<>>
  <1>1. Quiet => F!CapturedIsRestored
    BY DEF F!CapturedIsRestored
  <1>2. Same => F!PatchIsItsOperations
    BY DEF F!PatchIsItsOperations
  <1>3. CASE UNCHANGED F!vars
    <2>1. F!Inv'
      BY <1>3 DEF F!vars, F!Inv, F!PatchInv, F!SnapInv, F!IsDisk, F!Brings
    <2> QED BY <1>1, <1>2, <1>3, <2>1 DEF F!vars
  <1>4. CASE \E ops \in Patches : F!ApplyPatch(ops)
    <2>1. Quiet /\ Same
      BY <1>4 DEF F!ApplyPatch, F!Idle, F!Inv, F!PatchInv
    <2> QED BY <1>1, <1>2, <1>4, <2>1, EditsApply
  <1>5. CASE F!CheckPatch
    <2>1. Quiet
      BY <1>5 DEF F!CheckPatch
    <2> QED BY <1>1, <1>2, <1>5, <2>1, EditsCheck
  <1>6. CASE F!WritePath
    <2>1. Quiet /\ Same
      BY <1>6 DEF F!WritePath
    <2> QED BY <1>1, <1>2, <1>6, <2>1, EditsWrite
  <1>7. CASE F!WriteFails
    <2>1. Quiet /\ F!PatchIsItsOperations
      BY <1>7 DEF F!WriteFails, F!PatchEnds, F!Ends, F!PatchIsItsOperations
    <2> QED BY <1>1, <1>7, <2>1, EditsFail
  <1>8. CASE F!Patched
    <2>1. Quiet
      BY <1>8 DEF F!Patched
    <2> QED BY <1>1, <1>8, <2>1, EditsPatched
  <1>9. CASE \E p \in Paths, first \in 1..3, last \in 0..2, new \in {<<>>} \cup {<<t>> : t \in Texts} :
               F!EditLines(p, first, last, new)
    <2>1. PICK p \in Paths, first \in 1..3, last \in 0..2, new \in {<<>>} \cup {<<t>> : t \in Texts} :
           F!EditLines(p, first, last, new)
      BY <1>9
    <2>2. F!Idle /\ F!Edited(p, F!EditedLines(disk[p], first, last, new))
      BY <2>1 DEF F!EditLines
    <2>3. Quiet /\ Same
      BY <2>2 DEF F!Idle, F!Edited
    <2> QED BY <1>1, <1>2, <2>2, <2>3, EditsEdited
  <1>10. CASE \E p \in Paths, old \in UNION {F!Range(t) : t \in Texts}, new \in Texts : F!ReplaceText(p, old, new)
    <2>1. PICK p \in Paths, old \in UNION {F!Range(t) : t \in Texts}, new \in Texts : F!ReplaceText(p, old, new)
      BY <1>10
    <2>2. F!Idle /\ F!Edited(p, F!ReplacedText(disk[p], old, new))
      BY <2>1 DEF F!ReplaceText
    <2>3. Quiet /\ Same
      BY <2>2 DEF F!Idle, F!Edited
    <2> QED BY <1>1, <1>2, <2>2, <2>3, EditsEdited
  <1>11. CASE (\E named \in BOOLEAN : F!Begin(named)) \/ F!Commit \/ F!Raise
    <2>1. Quiet /\ Same
      BY <1>11 DEF F!Begin, F!Commit, F!Raise
    <2> QED BY <1>1, <1>2, <1>11, <2>1, EditsTransaction
  <1>12. CASE F!RestorePath
    <2>1. Quiet /\ Same
      BY <1>12 DEF F!RestorePath
    <2> QED BY <1>1, <1>2, <1>12, <2>1, EditsRestore
  <1>13. CASE F!Restored
    <2>1. Same
      BY <1>13 DEF F!Restored
    <2> QED BY <1>2, <1>13, <2>1, EditsRestored
  <1> QED BY <1>3, <1>4, <1>5, <1>6, <1>7, <1>8, <1>9, <1>10, <1>11, <1>12, <1>13 DEF F!Next

-----------------------------------------------------------------------------
(* The theorems *)

\* Two daemons never serve a project at once, for any number of processes that are
\* refused, replaced, released or killed, unless two of them look at the lease across
\* each other or the heartbeat of a live one is late.
THEOREM OneDaemonServes == Spec => []OneDaemon
  <1> DEFINE Holds == part = "daemon" => D!Inv
  <1>1. Init => Holds
    BY DaemonInit, DaemonNone DEF Init
  <1>2. Holds /\ [Next]_vars => Holds'
    <2> SUFFICES ASSUME Holds, [Next]_vars, part' = "daemon" PROVE D!Inv'
      OBVIOUS
    <2>1. D!Inv /\ [D!Next]_(D!vars)
      BY DEF Next, vars, D!vars, lease, late, daemon, target, overlapped, stalled
    <2> QED
      BY <2>1, DaemonNext, DaemonNone
  <1>3. Holds => OneDaemon
    BY DaemonGives DEF OneDaemon
  <1> QED
    BY <1>1, <1>2, <1>3, PTL DEF Spec

\* Whatever the schedules are, however often the daemon restarts and users edit, pause
\* and delete: no one-shot schedule runs twice, and a schedule that does not allow it has
\* no two runs at a time unless two were entered across each other.
THEOREM SchedulesRunAsAsked == Spec => []RunsAsScheduled
  <1> DEFINE Holds == part = "scheduler" => Sc!Inv
  <1>1. Init => Holds
    BY SchedInit DEF Init
  <1>2. Holds /\ [Next]_vars => Holds'
    <2> SUFFICES ASSUME Holds, [Next]_vars, part' = "scheduler" PROVE Sc!Inv'
      OBVIOUS
    <2>1. Sc!Inv /\ [Sc!Next]_(Sc!vars)
      BY DEF Next, vars, Sc!vars, host, starts, table, runs, poll, jobs, edit, ticks, edits,
         fired, crowded
    <2> QED
      BY <2>1, SchedNext, ScheduleNone
  <1>3. Holds => RunsAsScheduled
    BY SchedGives DEF RunsAsScheduled
  <1> QED
    BY <1>1, <1>2, <1>3, PTL DEF Spec

\* For a script that says any sequence of messages, with posts lost, repeated and
\* outlived: what was said is recorded in order and whole, and nothing is shown twice.
THEOREM ScriptIsHeard == Spec => []MessagesAreKept
  <1> DEFINE Holds == part = "script" => Sn!Inv
  <1>1. Init => Holds
    BY ScriptInit DEF Init
  <1>2. Holds /\ [Next]_vars => Holds'
    <2> SUFFICES ASSUME Holds, [Next]_vars, part' = "script" PROVE Sn!Inv'
      OBVIOUS
    <2>1. Sn!Inv /\ [Sn!Next]_(Sn!vars)
      BY DEF Next, vars, Sn!vars, run, child, orphan, session, said, call, workers, captured,
         record, shown
    <2> QED
      BY <2>1, ScriptNext
  <1>3. Holds => MessagesAreKept
    BY ScriptGives DEF MessagesAreKept
  <1> QED
    BY <1>1, <1>2, <1>3, PTL DEF Spec

\* However many plugins depend on each other in whatever way, fail, are disabled and
\* stopped: none is being set up while one it depends on is not running.
THEOREM DependenciesAreSetUp == Spec => []SetUpOnDependencies
  <1> DEFINE Holds == part = "plugins" => P!Inv
  <1>1. Init => Holds
    BY PluginsInit DEF Init
  <1>2. Holds /\ [Next]_vars => Holds'
    <2> SUFFICES ASSUME Holds, [Next]_vars, part' = "plugins" PROVE P!Inv'
      OBVIOUS
    <2>1. P!Inv /\ [P!Next]_(P!pluginVars)
      BY DEF Next, vars, P!pluginVars, pstate, startTask, toStart, settingUp, loaded, namespaces,
         subscribers, handling, ptasks, cancelled, outlived, created, toStop, stopStage
    <2> QED
      BY <2>1, PluginsNext, NoPluginNeedsItself
  <1>3. Holds => SetUpOnDependencies
    BY PluginsGives DEF SetUpOnDependencies
  <1> QED
    BY <1>1, <1>2, <1>3, PTL DEF Spec

\* For any number of clients that write any number of threads: the segments a thread is
\* read in partition its events, and what the engine replays begins after its last
\* compaction, unless two clients wrote the thread across each other.
THEOREM SegmentsPartitionHistory == Spec => []HistoryIsWhole
  <1> DEFINE Holds == part = "store" => St!Inv
  <1>1. Init => Holds
    BY StoreInit DEF Init
  <1>2. Holds /\ [Next]_vars => Holds'
    <2> SUFFICES ASSUME Holds, [Next]_vars, part' = "store" PROVE St!Inv'
      OBVIOUS
    <2>1. St!Inv /\ [St!Next]_(St!storeVars)
      BY DEF Next, vars, St!storeVars, rows, events, doing, used, crossed
    <2> QED
      BY <2>1, StoreNext
  <1>3. Holds => HistoryIsWhole
    BY StoreGives DEF HistoryIsWhole
  <1> QED
    BY <1>1, <1>2, <1>3, PTL DEF Spec

\* What an upload was told is stored can be read as long as its thread exists, for any
\* number of uploads, contents and threads, unless an upload of the content crossed a
\* collection of it.
THEOREM AcknowledgedStays == Spec => []AcknowledgedIsReadable
  <1> DEFINE Holds == part = "blobs" => B!Inv
  <1>1. Init => Holds
    BY BlobsInit DEF Init
  <1>2. Holds /\ [Next]_vars => Holds'
    <2> SUFFICES ASSUME Holds, [Next]_vars, part' = "blobs" PROVE B!Inv'
      OBVIOUS
    <2>1. B!Inv /\ [B!Next]_(B!blobVars)
      BY DEF Next, vars, B!blobVars, files, blobs, refs, upload, what, noted, open, victims,
         unlinked, deleted, raced
    <2> QED
      BY <2>1, BlobsNext, BlobsNone
  <1>3. Holds => AcknowledgedIsReadable
    BY BlobsGives DEF AcknowledgedIsReadable
  <1> QED
    BY <1>1, <1>2, <1>3, PTL DEF Spec

\* For any number of threads, branches and operations that overlap, fail and are cut
\* short: a thread that is told it has an active worktree has one, and no other thread
\* has the same.
THEOREM TreesBelongToThreads == Spec => []ActiveHasItsTree
  <1> DEFINE Holds == part = "worktree" => W!Inv
  <1>1. Init => Holds
    BY TreesInit DEF Init
  <1>2. Holds /\ [Next]_vars => Holds'
    <2> SUFFICES ASSUME Holds, [Next]_vars, part' = "worktree" PROVE W!Inv'
      OBVIOUS
    <2>1. W!Inv /\ [W!Next]_(W!wvars)
      BY DEF Next, vars, W!wvars, trees, heads, binding, latest, known, told, script, entered,
         git, torn, count
    <2> QED
      BY <2>1, TreesNext
  <1>3. Holds => ActiveHasItsTree
    BY TreesGive DEF ActiveHasItsTree
  <1> QED
    BY <1>1, <1>2, <1>3, PTL DEF Spec

\* For any number of hosts and scripts that prepare the environment, add packages, crash
\* and find stale locks: a host that was told it is prepared has an environment and, unless
\* a lock was robbed, one that is locked as the project says.
THEOREM PreparedIsLocked == Spec => []EnvIsPrepared
  <1> DEFINE Holds == part = "env" => E!Inv
  <1>1. Init => Holds
    BY EnvInit DEF Init
  <1>2. Holds /\ [Next]_vars => Holds'
    <2> SUFFICES ASSUME Holds, [Next]_vars, part' = "env" PROVE E!Inv'
      OBVIOUS
    <2>1. E!Inv /\ [E!Next]_(E!evars)
      BY DEF Next, vars, E!evars, lockfile, at, pyproject, uvlock, venv, saved, back, ok, robbed,
         crashes
    <2> QED
      BY <2>1, EnvNext
  <1>3. Holds => EnvIsPrepared
    BY EnvGives DEF EnvIsPrepared
  <1> QED
    BY <1>1, <1>2, <1>3, PTL DEF Spec

\* For any number of scripts that search any number of files while they change: with one
\* kind of query an answer is what the file held at some moment since the search began.
THEOREM SearchesAnswerWhatIsThere ==
    ASSUME \A q, r \in Queries : q = r
    PROVE  Spec => []AnswerIsCurrent
  <1> DEFINE Holds == part = "index" => I!Inv
  <1>1. Init => Holds
    BY IndexInit DEF Init
  <1>2. Holds /\ [Next]_vars => Holds'
    <2> SUFFICES ASSUME Holds, [Next]_vars, part' = "index" PROVE I!Inv'
      OBVIOUS
    <2>1. I!Inv /\ [I!Next]_(I!cvars)
      BY DEF Next, vars, I!cvars, source, changes, fileRows, captureRows, finder, search, writer,
         searches
    <2> QED
      BY <2>1, IndexNext
  <1>3. Holds => AnswerIsCurrent
    BY IndexGives DEF AnswerIsCurrent
  <1> QED
    BY <1>1, <1>2, <1>3, PTL DEF Spec

\* For any number of calls and workers that fail at any point: as long as no start or close
\* was given up, a call is answered by the worker of its client, the only one there is.
THEOREM CallsAreAnsweredByTheirWorker == Spec => []WorkerServesItsClient
  <1> DEFINE Holds == part = "mcp" => Mc!Inv
  <1>1. Init => Holds
    BY McpInit DEF Init
  <1>2. Holds /\ [Next]_vars => Holds'
    <2> SUFFICES ASSUME Holds, [Next]_vars, part' = "mcp" PROVE Mc!Inv'
      OBVIOUS
    <2>1. Mc!Inv /\ [Mc!Next]_(Mc!mvars)
      BY DEF Next, vars, Mc!mvars, client, threads, serving, requests, ready, answers, probe,
         published, calls, disturbed
    <2> QED
      BY <2>1, McpNext
  <1>3. Holds => WorkerServesItsClient
    BY McpGives DEF WorkerServesItsClient
  <1> QED
    BY <1>1, <1>2, <1>3, PTL DEF Spec

\* For any number of files and any patches, edits and transactions over them, whatever
\* write fails: a patch that is refused or only tried leaves the files alone and is told
\* so exactly if its operations could not, or could, be done one after the other; one that
\* is applied leaves what they leave; and a transaction that is undone puts every path it
\* captured back.
THEOREM EditsAreMadeWhole == Spec => EditsAreWhole
  <1> DEFINE Holds == part = "edits" => F!Inv
             Does == part = "edits" => F!PatchIsItsOperations /\ F!CapturedIsRestored
  <1>1. Init => Holds
    BY EditsInit DEF Init
  <1>2. Holds /\ [Next]_vars => Holds' /\ [Does]_vars
    <2> SUFFICES ASSUME Holds, [Next]_vars PROVE Holds' /\ Does
      OBVIOUS
    <2>1. part' = part
      BY DEF Next, vars
    <2>2. CASE part = "edits"
      <3>1. F!Inv /\ [F!Next]_(F!vars)
        BY <2>1, <2>2 DEF Next, vars, F!vars, disk, editing, patch, base, todo, outcome, snap, fileEdits
      <3>2. F!Inv' /\ F!PatchIsItsOperations /\ F!CapturedIsRestored
        BY <3>1, EditsStep, PathsAreFinite, PatchesAreOperations
      <3> QED BY <2>1, <3>2
    <2> QED BY <2>1, <2>2
  <1> QED
    BY <1>1, <1>2, PTL DEF Spec, EditsAreWhole

=============================================================================
