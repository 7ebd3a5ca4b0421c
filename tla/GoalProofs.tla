----------------------------- MODULE GoalProofs -----------------------------
(***************************************************************************)
(* That a goal enabled here is known to the model.  What a thread has been *)
(* told is a fold over what was queued for it, and so is a queue without   *)
(* some of its items: a table of a fold's values is built place by place   *)
(* (TableExists), and what is read off it from one place to the next       *)
(* (HeardTrace, RemovedTrace, WithoutTrace) says what a concatenation of   *)
(* queues tells.  Told is the heart of the invariant.                      *)
(***************************************************************************)
EXTENDS Goal, FiniteSets, SequenceTheorems, WellFoundedInduction, TLAPS

-----------------------------------------------------------------------------
(* The inductive invariant of GoalIsKnown.                                 *)

Histories  == [DOMAIN Untold -> {"on", "off", "unknown"}]
Texts      == Objectives \cup {"none"}
Announced  == {Helpers("publish"), Helpers("remove"), ModeRemoved}
Notices    == {Notice(objective) : objective \in Texts}
Said       == Announced \cup Notices \cup {News}
Remembered == Notices \cup {NoContribution}

\* For everybody there are only the news of the other plugin.
Queues  == {queues \in [Threads \cup {All} -> Seq(Announced \cup {News})] : queues[All] \in Seq({News})}
Brokers == [epoch : Queues, updates : Queues, turn : [Threads -> Seq(Notices)],
            keyed : [Threads -> Remembered], replay : [Threads -> Remembered]]

TypeOK ==
    /\ broker \in Brokers
    /\ goal \in [Threads -> [enabled : BOOLEAN, objective : Texts]]
    /\ DOMAIN tasks = Threads /\ DOMAIN index = Threads /\ full \in [Threads -> BOOLEAN]
    /\ turnStage \in [Threads -> {"idle", "prepared", "sent"}]
    /\ history \in [Threads -> Histories]
    /\ fresh \in [Threads -> BOOLEAN] /\ kept \in [Threads -> BOOLEAN]
    /\ compactions \in [Threads -> Nat]

\* What the epoch queues of a thread are about to tell it.
Pending(t) == IF full[t] THEN broker.updates[t] ELSE broker.epoch[t]

\* A goal enabled here is known, or about to be: the helpers by what is queued
\* or, after a compaction, by the refresher; the mode by a notice that is queued
\* or that the broker sends again.
Told(t) ==
    /\ broker.replay[t] # NoContribution
    /\ full[t] \/ compactions[t] = 0 => Heard(history[t], Pending(t))["goal_helpers"] = "on"
    /\ \/ broker.turn[t] # <<>>
       \/ full[t] /\ Heard(history[t], Pending(t))["goal_mode"] = "on"
       \/ ~full[t] /\ compactions[t] > 0

\* Between the two halves of a turn's context nothing is queued, and after the
\* second one nothing is until something happens.
Settled(t) ==
    /\ turnStage[t] = "prepared" /\ full[t] /\ kept[t] => broker.updates[t] = <<>>
    /\ turnStage[t] = "sent" /\ fresh[t] /\ kept[t] =>
          full[t] /\ broker.updates[t] = <<>> /\ broker.turn[t] = <<>>

\* What is kept of a thread.
Informed(t) == (kept[t] /\ goal[t].enabled => Told(t)) /\ Settled(t)

\* The index has a row for every task.
IndexIsTasks == \A t \in Threads : index[t] = {<<tasks[t][id], id>> : id \in DOMAIN tasks[t]}

Inv == TypeOK /\ IndexIsTasks /\ \A t \in Threads : Informed(t)

-----------------------------------------------------------------------------
(* Numbers, and the values of a fold. *)

\* Less-than as a set of pairs.
Below == {ss \in Nat \X Nat : ss[1] < ss[2]}

\* Less-than on the naturals is well-founded.
LEMMA BelowWF == IsWellFoundedOn(Below, Nat)
  BY NatLessThanWellFounded DEF OpToRel, Below

\* A set of naturals has a least element.
LEMMA Least == ASSUME NEW N, N \subseteq Nat, N # {} PROVE \E x \in N : \A y \in N : y >= x
  <1>1. PICK x \in N : \A y \in N : <<y, x>> \notin Below
    <2> HIDE DEF Below
    <2> QED BY BelowWF, WFMin
  <1> SUFFICES ASSUME NEW y \in N PROVE y >= x
    BY <1>1
  <1>2. x \in Nat /\ y \in Nat /\ <<y, x>> \notin Below
    BY <1>1
  <1>3. <<y, x>>[1] = y /\ <<y, x>>[2] = x /\ <<y, x>> \in Nat \X Nat
    BY <1>2
  <1>4. ~(y < x)
    BY <1>2, <1>3 DEF Below
  <1> QED BY <1>2, <1>4

\* What holds at 0 and is passed on holds of every natural number.
LEMMA Upwards ==
  ASSUME NEW N, 0 \in N, \A m \in Nat : m \in N => m + 1 \in N
  PROVE  Nat \subseteq N
  <1> DEFINE Out == {m \in Nat : m \notin N}
  <1>1. SUFFICES ASSUME Out # {} PROVE FALSE
    OBVIOUS
  <1>2. PICK m \in Out : \A k \in Out : k >= m
    BY <1>1, Least
  <1>3. m # 0 /\ m \in Nat /\ m \notin N
    OBVIOUS
  <1>4. m - 1 \in Nat /\ ~(m - 1 >= m)
    BY <1>3
  <1>5. m - 1 \in N
    BY <1>2, <1>4
  <1>6. (m - 1) + 1 \in N /\ (m - 1) + 1 = m
    BY <1>4, <1>5
  <1> QED BY <1>3, <1>6

\* The greatest of some places.
LEMMA MaxOf == ASSUME NEW n \in Nat, NEW s \in SUBSET (1..n), s # {}
  PROVE Max(s) \in s /\ \A x \in s : x <= Max(s)
<1> DEFINE T == {k \in 0..n : n - k \in s}
<1>1. \A y \in s : y \in 1..n /\ n - y \in 0..n /\ n - (n - y) = y
  OBVIOUS
<1>2. \A y \in s : n - y \in T
  BY <1>1
<1>3. T \in SUBSET Nat /\ T # {}
  <2>1. T \in SUBSET Nat
    OBVIOUS
  <2> HIDE DEF T
  <2> QED BY <2>1, <1>2
<1>4. PICK k \in T : \A m \in T : k <= m
  <2> HIDE DEF T
  <2> QED BY <1>3, Least
<1>5. k \in 0..n /\ n - k \in s
  OBVIOUS
<1>6. \A y \in s : n - k >= y
  <2> SUFFICES ASSUME NEW y \in s PROVE n - k >= y
    OBVIOUS
  <2>1. k <= n - y
    <3> HIDE DEF T
    <3> QED BY <1>2, <1>4
  <2> QED BY <2>1, <1>1, <1>5
<1>7. \E x \in s : \A y \in s : x >= y
  BY <1>5, <1>6
<1>8. Max(s) \in s /\ \A y \in s : Max(s) >= y
  BY <1>7 DEF Max
<1> QED BY <1>8, <1>1

\* The last place.
LEMMA MaxUpTo == ASSUME NEW n \in Nat, n # 0 PROVE Max(1..n) = n
<1>1. 1..n \in SUBSET (1..n) /\ n \in 1..n
  OBVIOUS
<1>2. Max(1..n) \in 1..n /\ n <= Max(1..n)
  BY <1>1, MaxOf
<1> QED BY <1>2

\* A place and those before it.
LEMMA Places == ASSUME NEW n \in Nat, NEW i \in 1..n
  PROVE /\ i \in Nat /\ i # 0 /\ i \in 0..n /\ i - 1 \in 0..n /\ 1..i \in SUBSET (1..n)
        /\ 1..i # {} /\ (1..i) \ {i} = 1..(i - 1)
  <1>1. /\ i \in Nat /\ i # 0 /\ i \in 0..n /\ i - 1 \in 0..n
    OBVIOUS
  <1>2. 1..i \in SUBSET (1..n) /\ i \in 1..i
    OBVIOUS
  <1>3. \A k : k \in (1..i) \ {i} <=> k \in 1..(i - 1)
    OBVIOUS
  <1> QED BY <1>1, <1>2, <1>3

\* The values of a fold from base over 1..n, by the set of the places that are folded.
IsTable(g, base, n, h) == \A s \in SUBSET (1..n) :
    g[s] = IF s = {} THEN base ELSE h[<<g[s \ {Max(s)}], Max(s)>>]

\* What a fold over 1..n computes is there: a table of its values on the sets of places.
LEMMA TableExists ==
  ASSUME NEW T, NEW base \in T, NEW n \in Nat, NEW h \in [T \X (1..n) -> T]
  PROVE  \E g \in [SUBSET (1..n) -> T] : IsTable(g, base, n, h)
  <1> DEFINE Is(g, k) == \A s \in SUBSET (1..k) :
                            g[s] = IF s = {} THEN base ELSE h[<<g[s \ {Max(s)}], Max(s)>>]
             Reached == {k \in Nat : k <= n => \E g \in [SUBSET (1..k) -> T] : Is(g, k)}
  <1>1. \E g \in [SUBSET (1..0) -> T] : Is(g, 0)
    <2>1. [s \in SUBSET (1..0) |-> base] \in [SUBSET (1..0) -> T]
      OBVIOUS
    <2>2. Is([s \in SUBSET (1..0) |-> base], 0)
      <3> SUFFICES ASSUME NEW s \in SUBSET (1..0) PROVE s = {}
        OBVIOUS
      <3> QED OBVIOUS
    <2> QED BY <2>1, <2>2
  <1>2. ASSUME NEW k \in 0..n, k # n, NEW g \in [SUBSET (1..k) -> T], Is(g, k)
        PROVE \E f \in [SUBSET (1..(k + 1)) -> T] : Is(f, k + 1)
    <2> DEFINE f == [s \in SUBSET (1..(k + 1)) |->
                        IF k + 1 \in s THEN h[<<g[s \ {k + 1}], k + 1>>] ELSE g[s]]
    <2>1. \A s \in SUBSET (1..(k + 1)) : s \ {k + 1} \in SUBSET (1..k) OBVIOUS
    <2>2. \A s \in SUBSET (1..(k + 1)) : f[s] \in T
      <3> TAKE s \in SUBSET (1..(k + 1))
      <3>1. CASE k + 1 \in s
        <4>1. g[s \ {k + 1}] \in T /\ k + 1 \in 1..n BY <2>1, <1>2
        <4>2. <<g[s \ {k + 1}], k + 1>> \in T \X (1..n) BY <4>1
        <4>3. h[<<g[s \ {k + 1}], k + 1>>] \in T BY <4>2
        <4> QED BY <3>1, <4>3
      <3>2. CASE k + 1 \notin s
        <4>1. s \in SUBSET (1..k) BY <3>2
        <4> QED BY <3>2, <4>1
      <3> QED BY <3>1, <3>2
    <2>3. f \in [SUBSET (1..(k + 1)) -> T] BY <2>2
    <2>4. ASSUME NEW s \in SUBSET (1..(k + 1)), s # {}
          PROVE f[s] = h[<<f[s \ {Max(s)}], Max(s)>>]
      <3>1. CASE k + 1 \in s
        <4>1. Max(s) = k + 1
          <5>1. k + 1 \in Nat OBVIOUS
          <5>2. Max(s) \in s /\ k + 1 <= Max(s) BY <5>1, <3>1, <2>4, MaxOf
          <5>3. Max(s) \in 1..(k + 1) BY <5>2
          <5> QED BY <5>1, <5>2, <5>3
        <4>2. f[s \ {k + 1}] = g[s \ {k + 1}] BY <2>1
        <4> QED BY <4>1, <4>2, <3>1
      <3>2. CASE k + 1 \notin s
        <4>1. s \in SUBSET (1..k) BY <3>2
        <4>2. g[s] = h[<<g[s \ {Max(s)}], Max(s)>>] BY <4>1, s # {}, <1>2
        <4>3. f[s] = g[s] BY <3>2
        <4>4. s \ {Max(s)} \in SUBSET (1..(k + 1)) /\ k + 1 \notin s \ {Max(s)} BY <3>2
        <4>5. f[s \ {Max(s)}] = g[s \ {Max(s)}] BY <4>4
        <4>6. s # {} BY <2>4
        <4> HIDE DEF f
        <4> QED BY <4>2, <4>3, <4>5
      <3> QED BY <3>1, <3>2
    <2>5. f[{}] = base BY <1>2
    <2>6. Is(f, k + 1) BY <2>4, <2>5
    <2> QED BY <2>3, <2>6
  <1>3. 0 \in Reached
    <2> HIDE DEF Is
    <2> QED BY <1>1
  <1>4. ASSUME NEW k \in Nat, k \in Reached PROVE k + 1 \in Reached
    <2>a. k + 1 \in Nat
      OBVIOUS
    <2> SUFFICES ASSUME k + 1 <= n PROVE \E f \in [SUBSET (1..(k + 1)) -> T] : Is(f, k + 1)
      <3> HIDE DEF Is
      <3> QED BY <2>a, Zenon
    <2>1. k \in 0..n /\ k # n /\ k <= n
      OBVIOUS
    <2>2. PICK g \in [SUBSET (1..k) -> T] : Is(g, k)
      <3> HIDE DEF Is
      <3> QED BY <1>4, <2>1
    <2> HIDE DEF Is
    <2> QED BY <1>2, <2>1, <2>2, Zenon
  <1>5. n \in Reached
    <2> HIDE DEF Reached
    <2> QED BY <1>3, <1>4, Upwards
  <1>6. \E g \in [SUBSET (1..n) -> T] : Is(g, n)
    <2>1. n <= n
      OBVIOUS
    <2> HIDE DEF Is
    <2> QED BY <1>5, <2>1, Zenon
  <1>7. \A g : Is(g, n) => IsTable(g, base, n, h)
    BY DEF IsTable
  <1> HIDE DEF Is
  <1> QED BY <1>6, <1>7

\* What a thread has heard after each of the texts it is sent.
LEMMA HeardTrace ==
  ASSUME NEW base \in Histories, NEW q \in Seq(Said)
  PROVE  \E acc \in [0..Len(q) -> Histories] :
            /\ acc[0] = base
            /\ \A i \in 1..Len(q) : acc[i] = Hear(acc[i - 1], q[i])
            /\ Heard(base, q) = acc[Len(q)]
  <1> DEFINE n == Len(q)
             h == [p \in Histories \X (1..n) |-> Hear(p[1], q[p[2]])]
  <1>0. base \in Histories
    OBVIOUS
  <1>1. n \in Nat /\ DOMAIN q = 1..n
    OBVIOUS
  <1>1a. \A a \in Histories, i \in 1..n : Hear(a, q[i]) \in Histories
    BY DEF Hear, Histories, Untold
  <1>1b. h \in [Histories \X (1..n) -> Histories]
    <2> SUFFICES ASSUME NEW p \in Histories \X (1..n) PROVE Hear(p[1], q[p[2]]) \in Histories
      OBVIOUS
    <2>1. p[1] \in Histories /\ p[2] \in 1..n
      OBVIOUS
    <2> QED BY <1>1a, <2>1
  <1>2. PICK g \in [SUBSET (1..n) -> Histories] : \A s \in SUBSET (1..n) :
           g[s] = IF s = {} THEN base ELSE h[<<g[s \ {Max(s)}], Max(s)>>]
    <2> HIDE DEF n, h
    <2>1. PICK Vals : Vals = Histories
      OBVIOUS
    <2>2. base \in Vals /\ h \in [Vals \X (1..n) -> Vals]
      BY <1>0, <1>1b, <2>1
    <2>3. \E g \in [SUBSET (1..n) -> Vals] : IsTable(g, base, n, h)
      BY ONLY <1>1, <2>2, TableExists
    <2> QED BY <2>1, <2>3 DEF IsTable
  <1>3. \A s \in SUBSET (1..n) : g[s] = IF s = {} THEN base ELSE Hear(g[s \ {Max(s)}], q[Max(s)])
    <2> SUFFICES ASSUME NEW s \in SUBSET (1..n), s # {}
        PROVE g[s] = Hear(g[s \ {Max(s)}], q[Max(s)])
      BY <1>2
    <2>1. Max(s) \in 1..n /\ s \ {Max(s)} \in SUBSET (1..n)
      BY <1>1, MaxOf
    <2>2. PICK p : p = <<g[s \ {Max(s)}], Max(s)>>
      OBVIOUS
    <2>3. p \in Histories \X (1..n) /\ p[1] = g[s \ {Max(s)}] /\ p[2] = Max(s)
      BY <1>2, <2>1, <2>2
    <2>4. h[p] = Hear(p[1], q[p[2]])
      BY <2>3
    <2>5. g[s] = h[p]
      <3> HIDE DEF h, n
      <3> QED BY <1>2, <2>2
    <2> HIDE DEF h, n
    <2> QED BY <2>3, <2>4, <2>5
  <1> DEFINE Counts(f) == f = [s \in SUBSET DOMAIN q |->
            IF s = {} THEN base ELSE Hear(f[s \ {Max(s)}], q[Max(s)])]
             iter == CHOOSE f : Counts(f)
  <1>4. Counts(iter)
    <2>1. Counts(g)
      BY <1>1, <1>2, <1>3
    <2> HIDE DEF Counts
    <2> QED BY <2>1
  <1>5. Heard(base, q) = iter[DOMAIN q]
    BY DEF Heard, FoldLeft, MapThenFoldSet
  <1> HIDE DEF iter
  <1>6. \A s \in SUBSET (1..n) :
            iter[s] = IF s = {} THEN base ELSE Hear(iter[s \ {Max(s)}], q[Max(s)])
    BY <1>1, <1>4
  <1> DEFINE acc == [i \in 0..n |-> iter[1..i]]
  <1>7. acc[0] = base
    <2>1. 1..0 = {} /\ 0 \in 0..n /\ {} \in SUBSET (1..n)
      BY <1>1
    <2> QED BY <1>6, <2>1
  <1>8. \A i \in 1..n : acc[i] = Hear(acc[i - 1], q[i])
    <2> SUFFICES ASSUME NEW i \in 1..n PROVE acc[i] = Hear(acc[i - 1], q[i])
      OBVIOUS
    <2>1. /\ i \in Nat /\ i # 0 /\ i \in 0..n /\ i - 1 \in 0..n /\ 1..i \in SUBSET (1..n)
          /\ 1..i # {} /\ (1..i) \ {i} = 1..(i - 1)
      <3> HIDE DEF n
      <3> QED BY <1>1, Places
    <2>2. Max(1..i) = i
      BY <2>1, MaxUpTo
    <2>3. acc[i] = iter[1..i] /\ acc[i - 1] = iter[1..(i - 1)]
      BY <2>1
    <2> HIDE DEF acc, n
    <2> QED BY <1>6, <2>1, <2>2, <2>3
  <1>9. acc \in [0..n -> Histories]
    <2> DEFINE Reached == {i \in Nat : i <= n => acc[i] \in Histories}
    <2>1. 0 \in Reached
      <3> HIDE DEF acc, n
      <3> QED BY <1>0, <1>7
    <2>2. ASSUME NEW i \in Nat, i \in Reached PROVE i + 1 \in Reached
      <3> HIDE DEF acc, n
      <3> SUFFICES ASSUME i + 1 <= n PROVE acc[i + 1] \in Histories
        OBVIOUS
      <3>1. i + 1 \in 1..n /\ (i + 1) - 1 = i /\ acc[i] \in Histories
        BY <1>1, <2>2
      <3>2. PICK k \in 1..n : k = i + 1
        BY <3>1
      <3>3. k - 1 = i
        BY <3>1, <3>2
      <3> QED BY <1>1a, <1>8, <3>1, <3>2, <3>3
    <2>3. Nat \subseteq Reached
      <3> HIDE DEF Reached
      <3> QED BY <2>1, <2>2, Upwards
    <2>4. \A i \in 0..n : acc[i] \in Histories
      <3> HIDE DEF acc
      <3> QED BY <1>1, <2>3
    <2> QED BY <2>4
  <1>10. Heard(base, q) = acc[n]
    <2>1. acc[n] = iter[1..n]
      BY <1>1
    <2> HIDE DEF n, acc
    <2> QED BY <1>1, <1>5, <2>1
  <1> HIDE DEF acc
  <1> QED BY <1>7, <1>8, <1>9, <1>10

\* A queue without its first item of a value is a queue of the same.
LEMMA RemoveFirstType == ASSUME NEW T, NEW s \in Seq(T), NEW e PROVE RemoveFirst(s, e) \in Seq(T)
  <1> DEFINE I == {i \in 1..Len(s) : s[i] = e}
  <1>1. I \subseteq Nat /\ I \subseteq 1..Len(s)
    OBVIOUS
  <1>2. CASE I = {}
    BY <1>2 DEF RemoveFirst
  <1>3. CASE I # {}
    <2>1. \E x \in I : \A y \in I : y >= x
      <3> HIDE DEF I
      <3> QED BY <1>1, <1>3, Least
    <2>2. \E x \in I : \A y \in I : x =< y
      <3> HIDE DEF I
      <3> QED BY <1>1, <2>1
    <2>3. Min(I) \in I
      <3> HIDE DEF I
      <3> QED BY <2>2 DEF Min
    <2>4. Min(I) \in 1..Len(s) /\ Len(s) \in Nat
      BY <1>1, <2>3
    <2>5. SelectInSeq(s, LAMBDA v : v = e) = Min(I)
      BY <1>3 DEF SelectInSeq
    <2>6. \E i \in 1..Len(s) : s[i] = e
      BY <1>3
    <2>7. RemoveFirst(s, e) = RemoveAt(s, Min(I))
      <3> HIDE DEF I
      <3> QED BY <2>5, <2>6 DEF RemoveFirst
    <2> HIDE DEF I
    <2>8. ASSUME NEW k \in 1..Len(s) PROVE RemoveAt(s, k) \in Seq(T)
      BY DEF RemoveAt
    <2> QED BY <2>4, <2>7, <2>8
  <1> QED BY <1>2, <1>3

\* A queue after each of the items that are taken out of it.
LEMMA RemovedTrace ==
  ASSUME NEW T, NEW base \in Seq(T), NEW U, NEW q \in Seq(U)
  PROVE  \E acc \in [0..Len(q) -> Seq(T)] :
            /\ acc[0] = base
            /\ \A i \in 1..Len(q) : acc[i] = RemoveFirst(acc[i - 1], q[i])
            /\ WithoutItems(base, q) = acc[Len(q)]
  <1> DEFINE n == Len(q)
             h == [p \in Seq(T) \X (1..n) |-> RemoveFirst(p[1], q[p[2]])]
  <1>0. base \in Seq(T)
    OBVIOUS
  <1>1. n \in Nat /\ DOMAIN q = 1..n
    OBVIOUS
  <1>1a. \A a \in Seq(T), i \in 1..n : RemoveFirst(a, q[i]) \in Seq(T)
    BY RemoveFirstType
  <1>1b. h \in [Seq(T) \X (1..n) -> Seq(T)]
    <2> SUFFICES ASSUME NEW p \in Seq(T) \X (1..n) PROVE RemoveFirst(p[1], q[p[2]]) \in Seq(T)
      OBVIOUS
    <2>1. p[1] \in Seq(T) /\ p[2] \in 1..n
      OBVIOUS
    <2> QED BY <1>1a, <2>1
  <1>2. PICK g \in [SUBSET (1..n) -> Seq(T)] : \A s \in SUBSET (1..n) :
           g[s] = IF s = {} THEN base ELSE h[<<g[s \ {Max(s)}], Max(s)>>]
    <2> HIDE DEF n, h
    <2>1. PICK Vals : Vals = Seq(T)
      OBVIOUS
    <2>2. base \in Vals /\ h \in [Vals \X (1..n) -> Vals]
      BY <1>0, <1>1b, <2>1
    <2>3. \E g \in [SUBSET (1..n) -> Vals] : IsTable(g, base, n, h)
      BY ONLY <1>1, <2>2, TableExists
    <2> QED BY <2>1, <2>3 DEF IsTable
  <1>3. \A s \in SUBSET (1..n) :
            g[s] = IF s = {} THEN base ELSE RemoveFirst(g[s \ {Max(s)}], q[Max(s)])
    <2> SUFFICES ASSUME NEW s \in SUBSET (1..n), s # {}
        PROVE g[s] = RemoveFirst(g[s \ {Max(s)}], q[Max(s)])
      BY <1>2
    <2>1. Max(s) \in 1..n /\ s \ {Max(s)} \in SUBSET (1..n)
      BY <1>1, MaxOf
    <2>2. PICK p : p = <<g[s \ {Max(s)}], Max(s)>>
      OBVIOUS
    <2>3. p \in Seq(T) \X (1..n) /\ p[1] = g[s \ {Max(s)}] /\ p[2] = Max(s)
      BY <1>2, <2>1, <2>2
    <2>4. h[p] = RemoveFirst(p[1], q[p[2]])
      BY <2>3
    <2>5. g[s] = h[p]
      <3> HIDE DEF h, n
      <3> QED BY <1>2, <2>2
    <2> HIDE DEF h, n
    <2> QED BY <2>3, <2>4, <2>5
  <1> DEFINE Counts(f) == f = [s \in SUBSET DOMAIN q |->
            IF s = {} THEN base ELSE RemoveFirst(f[s \ {Max(s)}], q[Max(s)])]
             iter == CHOOSE f : Counts(f)
  <1>4. Counts(iter)
    <2>1. Counts(g)
      BY <1>1, <1>2, <1>3
    <2> HIDE DEF Counts
    <2> QED BY <2>1
  <1>5. WithoutItems(base, q) = iter[DOMAIN q]
    BY DEF WithoutItems, FoldLeft, MapThenFoldSet
  <1> HIDE DEF iter
  <1>6. \A s \in SUBSET (1..n) :
            iter[s] = IF s = {} THEN base ELSE RemoveFirst(iter[s \ {Max(s)}], q[Max(s)])
    BY <1>1, <1>4
  <1> DEFINE acc == [i \in 0..n |-> iter[1..i]]
  <1>7. acc[0] = base
    <2>1. 1..0 = {} /\ 0 \in 0..n /\ {} \in SUBSET (1..n)
      BY <1>1
    <2> QED BY <1>6, <2>1
  <1>8. \A i \in 1..n : acc[i] = RemoveFirst(acc[i - 1], q[i])
    <2> SUFFICES ASSUME NEW i \in 1..n PROVE acc[i] = RemoveFirst(acc[i - 1], q[i])
      OBVIOUS
    <2>1. /\ i \in Nat /\ i # 0 /\ i \in 0..n /\ i - 1 \in 0..n /\ 1..i \in SUBSET (1..n)
          /\ 1..i # {} /\ (1..i) \ {i} = 1..(i - 1)
      <3> HIDE DEF n
      <3> QED BY <1>1, Places
    <2>2. Max(1..i) = i
      BY <2>1, MaxUpTo
    <2>3. acc[i] = iter[1..i] /\ acc[i - 1] = iter[1..(i - 1)]
      BY <2>1
    <2> HIDE DEF acc, n
    <2> QED BY <1>6, <2>1, <2>2, <2>3
  <1>9. acc \in [0..n -> Seq(T)]
    <2> DEFINE Reached == {i \in Nat : i <= n => acc[i] \in Seq(T)}
    <2>1. 0 \in Reached
      <3> HIDE DEF acc, n
      <3> QED BY <1>0, <1>7
    <2>2. ASSUME NEW i \in Nat, i \in Reached PROVE i + 1 \in Reached
      <3> HIDE DEF acc, n
      <3> SUFFICES ASSUME i + 1 <= n PROVE acc[i + 1] \in Seq(T)
        OBVIOUS
      <3>1. i + 1 \in 1..n /\ (i + 1) - 1 = i /\ acc[i] \in Seq(T)
        BY <1>1, <2>2
      <3>2. PICK k \in 1..n : k = i + 1
        BY <3>1
      <3>3. k - 1 = i
        BY <3>1, <3>2
      <3> QED BY <1>1a, <1>8, <3>1, <3>2, <3>3
    <2>3. Nat \subseteq Reached
      <3> HIDE DEF Reached
      <3> QED BY <2>1, <2>2, Upwards
    <2>4. \A i \in 0..n : acc[i] \in Seq(T)
      <3> HIDE DEF acc
      <3> QED BY <1>1, <2>3
    <2> QED BY <2>4
  <1>10. WithoutItems(base, q) = acc[n]
    <2>1. acc[n] = iter[1..n]
      BY <1>1
    <2> HIDE DEF n, acc
    <2> QED BY <1>1, <1>5, <2>1
  <1> HIDE DEF acc
  <1> QED BY <1>7, <1>8, <1>9, <1>10

\* A queue of notices, as far as it has been copied without one of them.
LEMMA WithoutTrace ==
  ASSUME NEW base, base = <<>>, NEW c, NEW q \in Seq(Notices)
  PROVE  \E acc \in [0..Len(q) -> Seq(Notices)] :
            /\ acc[0] = base
            /\ \A i \in 1..Len(q) : acc[i] = (IF q[i] = c THEN acc[i - 1] ELSE Append(acc[i - 1], q[i]))
            /\ WithoutTurnItem(q, c) = acc[Len(q)]
  <1> DEFINE n == Len(q)
             h == [p \in Seq(Notices) \X (1..n) |->
                       (IF q[p[2]] = c THEN p[1] ELSE Append(p[1], q[p[2]]))]
  <1>0. base \in Seq(Notices)
    OBVIOUS
  <1>1. n \in Nat /\ DOMAIN q = 1..n
    OBVIOUS
  <1>1a. \A a \in Seq(Notices), i \in 1..n : (IF q[i] = c THEN a ELSE Append(a, q[i])) \in Seq(Notices)
    OBVIOUS
  <1>1b. h \in [Seq(Notices) \X (1..n) -> Seq(Notices)]
    <2> SUFFICES ASSUME NEW p \in Seq(Notices) \X (1..n)
        PROVE (IF q[p[2]] = c THEN p[1] ELSE Append(p[1], q[p[2]])) \in Seq(Notices)
      OBVIOUS
    <2>1. p[1] \in Seq(Notices) /\ p[2] \in 1..n
      OBVIOUS
    <2> QED BY <1>1a, <2>1
  <1>2. PICK g \in [SUBSET (1..n) -> Seq(Notices)] : \A s \in SUBSET (1..n) :
           g[s] = IF s = {} THEN base ELSE h[<<g[s \ {Max(s)}], Max(s)>>]
    <2> HIDE DEF n, h
    <2>1. PICK Vals : Vals = Seq(Notices)
      OBVIOUS
    <2>2. base \in Vals /\ h \in [Vals \X (1..n) -> Vals]
      BY <1>0, <1>1b, <2>1
    <2>3. \E g \in [SUBSET (1..n) -> Vals] : IsTable(g, base, n, h)
      BY ONLY <1>1, <2>2, TableExists
    <2> QED BY <2>1, <2>3 DEF IsTable
  <1>3. \A s \in SUBSET (1..n) :
            g[s] = IF s = {} THEN base ELSE (IF q[Max(s)] = c THEN g[s \ {Max(s)}]
                ELSE Append(g[s \ {Max(s)}], q[Max(s)]))
    <2> SUFFICES ASSUME NEW s \in SUBSET (1..n), s # {}
        PROVE g[s] = (IF q[Max(s)] = c THEN g[s \ {Max(s)}]
                ELSE Append(g[s \ {Max(s)}], q[Max(s)]))
      BY <1>2
    <2>1. Max(s) \in 1..n /\ s \ {Max(s)} \in SUBSET (1..n)
      BY <1>1, MaxOf
    <2>2. PICK p : p = <<g[s \ {Max(s)}], Max(s)>>
      OBVIOUS
    <2>3. p \in Seq(Notices) \X (1..n) /\ p[1] = g[s \ {Max(s)}] /\ p[2] = Max(s)
      BY <1>2, <2>1, <2>2
    <2>4. h[p] = (IF q[p[2]] = c THEN p[1] ELSE Append(p[1], q[p[2]]))
      BY <2>3
    <2>5. g[s] = h[p]
      <3> HIDE DEF h, n
      <3> QED BY <1>2, <2>2
    <2> HIDE DEF h, n
    <2> QED BY <2>3, <2>4, <2>5
  <1> DEFINE Counts(f) == f = [s \in SUBSET DOMAIN q |->
            IF s = {} THEN base ELSE (IF q[Max(s)] = c THEN f[s \ {Max(s)}]
                ELSE Append(f[s \ {Max(s)}], q[Max(s)]))]
             iter == CHOOSE f : Counts(f)
  <1>4. Counts(iter)
    <2>1. Counts(g)
      BY <1>1, <1>2, <1>3
    <2> HIDE DEF Counts
    <2> QED BY <2>1
  <1>5. WithoutTurnItem(q, c) = iter[DOMAIN q]
    BY DEF WithoutTurnItem, FoldLeft, MapThenFoldSet
  <1> HIDE DEF iter
  <1>6. \A s \in SUBSET (1..n) :
            iter[s] = IF s = {} THEN base ELSE (IF q[Max(s)] = c THEN iter[s \ {Max(s)}]
                ELSE Append(iter[s \ {Max(s)}], q[Max(s)]))
    BY <1>1, <1>4
  <1> DEFINE acc == [i \in 0..n |-> iter[1..i]]
  <1>7. acc[0] = base
    <2>1. 1..0 = {} /\ 0 \in 0..n /\ {} \in SUBSET (1..n)
      BY <1>1
    <2> QED BY <1>6, <2>1
  <1>8. \A i \in 1..n : acc[i] = (IF q[i] = c THEN acc[i - 1] ELSE Append(acc[i - 1], q[i]))
    <2> SUFFICES ASSUME NEW i \in 1..n
        PROVE acc[i] = (IF q[i] = c THEN acc[i - 1] ELSE Append(acc[i - 1], q[i]))
      OBVIOUS
    <2>1. /\ i \in Nat /\ i # 0 /\ i \in 0..n /\ i - 1 \in 0..n /\ 1..i \in SUBSET (1..n)
          /\ 1..i # {} /\ (1..i) \ {i} = 1..(i - 1)
      <3> HIDE DEF n
      <3> QED BY <1>1, Places
    <2>2. Max(1..i) = i
      BY <2>1, MaxUpTo
    <2>3. acc[i] = iter[1..i] /\ acc[i - 1] = iter[1..(i - 1)]
      BY <2>1
    <2> HIDE DEF acc, n
    <2> QED BY <1>6, <2>1, <2>2, <2>3
  <1>9. acc \in [0..n -> Seq(Notices)]
    <2> DEFINE Reached == {i \in Nat : i <= n => acc[i] \in Seq(Notices)}
    <2>1. 0 \in Reached
      <3> HIDE DEF acc, n
      <3> QED BY <1>0, <1>7
    <2>2. ASSUME NEW i \in Nat, i \in Reached PROVE i + 1 \in Reached
      <3> HIDE DEF acc, n
      <3> SUFFICES ASSUME i + 1 <= n PROVE acc[i + 1] \in Seq(Notices)
        OBVIOUS
      <3>1. i + 1 \in 1..n /\ (i + 1) - 1 = i /\ acc[i] \in Seq(Notices)
        BY <1>1, <2>2
      <3>2. PICK k \in 1..n : k = i + 1
        BY <3>1
      <3>3. k - 1 = i
        BY <3>1, <3>2
      <3> QED BY <1>1a, <1>8, <3>1, <3>2, <3>3
    <2>3. Nat \subseteq Reached
      <3> HIDE DEF Reached
      <3> QED BY <2>1, <2>2, Upwards
    <2>4. \A i \in 0..n : acc[i] \in Seq(Notices)
      <3> HIDE DEF acc
      <3> QED BY <1>1, <2>3
    <2> QED BY <2>4
  <1>10. WithoutTurnItem(q, c) = acc[n]
    <2>1. acc[n] = iter[1..n]
      BY <1>1
    <2> HIDE DEF n, acc
    <2> QED BY <1>1, <1>5, <2>1
  <1> HIDE DEF acc
  <1> QED BY <1>7, <1>8, <1>9, <1>10

\* What was heard is again a state of what a thread was told.
LEMMA HeardIs == ASSUME NEW told \in Histories, NEW cs \in Seq(Said)
  PROVE Heard(told, cs) \in Histories
  <1>1. Len(cs) \in 0..Len(cs)
    OBVIOUS
  <1> QED BY <1>1, HeardTrace

\* Where the items of a concatenation are.
LEMMA Joined ==
  ASSUME NEW Set, NEW as \in Seq(Set), NEW bs \in Seq(Set)
  PROVE  /\ as \o bs \in Seq(Set) /\ Len(as) \in Nat /\ Len(bs) \in Nat /\ Len(as \o bs) = Len(as) + Len(bs)
         /\ \A k \in 1..Len(as) : (as \o bs)[k] = as[k]
         /\ \A k \in 1..Len(bs) : (as \o bs)[Len(as) + k] = bs[k]
  <1>1. PICK m, n : m = Len(as) /\ n = Len(bs)
    OBVIOUS
  <1>2. m \in Nat /\ n \in Nat
    BY <1>1, LenProperties
  <1>3. /\ as \o bs \in Seq(Set) /\ Len(as \o bs) = m + n
        /\ \A k \in 1..(m + n) : (as \o bs)[k] = IF k <= m THEN as[k] ELSE bs[k - m]
    BY <1>1, ConcatProperties
  <1>4. ASSUME NEW k \in 1..m PROVE (as \o bs)[k] = as[k]
    <2>1. k \in 1..(m + n) /\ k <= m
      BY <1>2
    <2> QED BY <1>3, <2>1
  <1>5. ASSUME NEW k \in 1..n PROVE (as \o bs)[m + k] = bs[k]
    <2>1. PICK l : l = m + k
      OBVIOUS
    <2>2. l \in 1..(m + n) /\ ~(l <= m) /\ l - m = k
      BY <1>2, <2>1
    <2> QED BY <1>3, <2>1, <2>2
  <1> QED BY <1>1, <1>2, <1>3, <1>4, <1>5

\* Nothing heard changes nothing.
LEMMA HeardNothing == ASSUME NEW told \in Histories PROVE Heard(told, <<>>) = told
  <1>1. PICK q : q = <<>>
    OBVIOUS
  <1>2. q \in Seq(Said) /\ Len(q) = 0
    BY <1>1, EmptySeq
  <1>3. PICK acc \in [0..Len(q) -> Histories] :
            /\ acc[0] = told
            /\ \A i \in 1..Len(q) : acc[i] = Hear(acc[i - 1], q[i])
            /\ Heard(told, q) = acc[Len(q)]
    BY <1>2, HeardTrace
  <1>4. Heard(told, q) = told
    BY <1>2, <1>3
  <1> QED BY <1>1, <1>4

\* One message tells what it says.
LEMMA HeardOne == ASSUME NEW told \in Histories, NEW c \in Said
  PROVE Heard(told, <<c>>) = Hear(told, c)
  <1>1. PICK q : q = <<c>>
    OBVIOUS
  <1>2. q \in Seq(Said) /\ Len(q) = 1 /\ q[1] = c
    BY <1>1
  <1>3. PICK acc \in [0..Len(q) -> Histories] :
            /\ acc[0] = told
            /\ \A i \in 1..Len(q) : acc[i] = Hear(acc[i - 1], q[i])
            /\ Heard(told, q) = acc[Len(q)]
    BY <1>2, HeardTrace
  <1>4. 1 \in 1..Len(q) /\ 1 - 1 = 0
    BY <1>2
  <1>5. acc[1] = Hear(told, c)
    BY <1>2, <1>3, <1>4
  <1> QED BY <1>1, <1>2, <1>3, <1>5

\* Messages heard in two goes are heard in one.
LEMMA HeardThen ==
  ASSUME NEW told \in Histories, NEW as \in Seq(Said),
         NEW bs \in Seq(Said)
  PROVE  Heard(told, as \o bs) = Heard(Heard(told, as), bs)
  <1>1. PICK q : q = as \o bs
    OBVIOUS
  <1>2. PICK m, n : m = Len(as) /\ n = Len(bs)
    OBVIOUS
  <1>3. /\ q \in Seq(Said) /\ m \in Nat /\ n \in Nat /\ Len(q) = m + n
        /\ \A k \in 1..m : q[k] = as[k]
    BY <1>1, <1>2, Joined
  <1>3a. \A k \in 1..n : q[m + k] = bs[k]
    <2> TAKE k \in 1..n
    <2>1. PICK Set : Set = Said
      OBVIOUS
    <2>2. as \in Seq(Set) /\ bs \in Seq(Set)
      BY <2>1
    <2>3. \A l \in 1..(m + n) : (as \o bs)[l] = IF l <= m THEN as[l] ELSE bs[l - m]
      BY ONLY <1>2, <2>2, ConcatProperties
    <2>4. PICK l : l = m + k
      OBVIOUS
    <2>5. l \in 1..(m + n) /\ ~(l <= m) /\ l - m = k
      BY ONLY <1>3, <2>4, k \in 1..n
    <2>6. q[l] = bs[k]
      BY ONLY <1>1, <2>3, <2>5
    <2> QED BY <2>4, <2>6
  <1>4. PICK u \in [0..(m + n) -> Histories] :
            /\ u[0] = told
            /\ \A i \in 1..(m + n) : u[i] = Hear(u[i - 1], q[i])
            /\ Heard(told, q) = u[m + n]
    <2>1. PICK l : l = m + n
      OBVIOUS
    <2>2. l = Len(q)
      BY <1>3, <2>1
    <2>3. \E u \in [0..l -> Histories] :
            /\ u[0] = told
            /\ \A i \in 1..l : u[i] = Hear(u[i - 1], q[i])
            /\ Heard(told, q) = u[l]
      BY ONLY <1>3, <2>2, HeardTrace, told \in Histories
    <2> QED BY <2>1, <2>3
  <1>5. PICK v \in [0..m -> Histories] :
            /\ v[0] = told
            /\ \A i \in 1..m : v[i] = Hear(v[i - 1], as[i])
            /\ Heard(told, as) = v[m]
    BY <1>2, HeardTrace
  <1>6. v[m] \in Histories
    BY <1>3, <1>5
  <1>7. PICK w \in [0..n -> Histories] :
            /\ w[0] = v[m]
            /\ \A i \in 1..n : w[i] = Hear(w[i - 1], bs[i])
            /\ Heard(v[m], bs) = w[n]
    BY <1>2, <1>6, HeardTrace
  <1> DEFINE First == {i \in Nat : i <= m => u[i] = v[i]}
             Second == {i \in Nat : i <= n => u[m + i] = w[i]}
  <1>8. Nat \subseteq First
    <2>1. 0 \in First
      BY <1>4, <1>5
    <2>2. ASSUME NEW i \in Nat, i \in First PROVE i + 1 \in First
      <3> SUFFICES ASSUME i + 1 <= m PROVE u[i + 1] = v[i + 1]
        OBVIOUS
      <3>1. PICK k : k = i + 1
        OBVIOUS
      <3>2. k \in 1..m /\ k \in 1..(m + n) /\ k - 1 = i /\ u[i] = v[i]
        BY <1>3, <2>2, <3>1
      <3>3. u[k] = Hear(u[i], q[k]) /\ v[k] = Hear(v[i], as[k]) /\ q[k] = as[k]
        BY <1>3, <1>4, <1>5, <3>2
      <3> QED BY <3>1, <3>2, <3>3
    <2> HIDE DEF First
    <2> QED BY <2>1, <2>2, Upwards
  <1>9. u[m] = w[0]
    <2>1. m \in First /\ m <= m
      BY <1>3, <1>8
    <2> QED BY <1>7, <2>1
  <1>10. Nat \subseteq Second
    <2>1. 0 \in Second
      BY <1>3, <1>9
    <2>2. ASSUME NEW i \in Nat, i \in Second PROVE i + 1 \in Second
      <3> SUFFICES ASSUME i + 1 <= n PROVE u[m + (i + 1)] = w[i + 1]
        OBVIOUS
      <3>1. PICK k, l : k = i + 1 /\ l = m + k
        OBVIOUS
      <3>2. k \in 1..n /\ l \in 1..(m + n) /\ k - 1 = i /\ l - 1 = m + i /\ u[m + i] = w[i]
        BY <1>3, <2>2, <3>1
      <3>3. u[l] = Hear(u[m + i], q[l]) /\ w[k] = Hear(w[i], bs[k]) /\ q[l] = bs[k]
        BY <1>3a, <1>4, <1>7, <3>1, <3>2
      <3> QED BY <3>1, <3>2, <3>3
    <2> HIDE DEF Second
    <2> QED BY <2>1, <2>2, Upwards
  <1>11. u[m + n] = w[n]
    <2>1. n \in Second /\ n <= n
      BY <1>3, <1>10
    <2> QED BY <2>1
  <1> QED BY <1>1, <1>4, <1>5, <1>7, <1>11

\* The last message on a subject is the one that counts.
LEMMA HeardLast ==
  ASSUME NEW told \in Histories, NEW as \in Seq(Said),
         NEW c \in Said
  PROVE  Heard(told, Append(as, c)) = Hear(Heard(told, as), c)
  <1>1. PICK b : b = <<c>>
    OBVIOUS
  <1>2. Append(as, c) = as \o b /\ b \in Seq(Said)
    <2>1. PICK Set : Set = Said
      OBVIOUS
    <2>2. Append(as, c) = as \o b
      BY <1>1, <2>1, AppendIsConcat
    <2>3. <<c>> \in Seq(Set)
      BY <2>1
    <2> QED BY <1>1, <2>1, <2>2, <2>3
  <1>3. Heard(told, as) \in Histories
    BY HeardIs
  <1>4. Heard(told, as \o b) = Heard(Heard(told, as), b)
    BY <1>2, HeardThen
  <1>5. Heard(Heard(told, as), b) = Hear(Heard(told, as), c)
    BY <1>1, <1>3, HeardOne
  <1> QED BY <1>2, <1>4, <1>5

\* The news say nothing of the goal, and the notices nothing of the helpers.
LEMMA HeardNews == ASSUME NEW told \in Histories, NEW cs \in Seq({News}) PROVE Heard(told, cs) = told
  <1>1. PICK n : n = Len(cs)
    OBVIOUS
  <1>2. cs \in Seq(Said) /\ n \in Nat /\ \A i \in 1..n : cs[i] = News
    <2>1. {News} \subseteq Said
      BY DEF Said
    <2>2. cs \in Seq(Said)
      BY <2>1, SeqMonotonic
    <2>3. \A i \in 1..n : cs[i] \in {News}
      BY <1>1, ElementOfSeq
    <2> QED BY <1>1, <2>2, <2>3, LenProperties
  <1>3. PICK acc \in [0..n -> Histories] :
            /\ acc[0] = told
            /\ \A i \in 1..n : acc[i] = Hear(acc[i - 1], cs[i])
            /\ Heard(told, cs) = acc[n]
    BY <1>1, <1>2, HeardTrace
  <1>4. \A h \in Histories : Hear(h, News) = h
    BY DEF Hear, Histories, Untold, News, Contribution
  <1> DEFINE Same == {i \in Nat : i <= n => acc[i] = told}
  <1>5. 0 \in Same
    BY <1>3
  <1>6. ASSUME NEW i \in Nat, i \in Same PROVE i + 1 \in Same
    <2> SUFFICES ASSUME i + 1 <= n PROVE acc[i + 1] = told
      OBVIOUS
    <2>1. PICK k : k = i + 1
      OBVIOUS
    <2>2. k \in 1..n /\ k - 1 = i /\ acc[i] = told
      BY <1>2, <1>6, <2>1
    <2> QED BY <1>2, <1>3, <1>4, <2>1, <2>2
  <1>7. n \in Same /\ n <= n
    <2> HIDE DEF Same
    <2> QED BY <1>2, <1>5, <1>6, Upwards
  <1> QED BY <1>3, <1>7

\* After a notice of the mode the mode is known, and the helpers as they were.
LEMMA HeardNotices ==
  ASSUME NEW told \in Histories, NEW cs \in Seq(Notices)
  PROVE  /\ Heard(told, cs)["goal_helpers"] = told["goal_helpers"]
         /\ cs # <<>> => Heard(told, cs)["goal_mode"] = "on"
  <1>1. PICK n : n = Len(cs)
    OBVIOUS
  <1>2. /\ cs \in Seq(Said) /\ n \in Nat
        /\ \A i \in 1..n : cs[i] \in Notices
    <2>1. Notices \subseteq Said
      BY DEF Said
    <2>2. cs \in Seq(Said)
      BY <2>1, SeqMonotonic
    <2>3. \A i \in 1..n : cs[i] \in Notices
      BY <1>1, ElementOfSeq
    <2> QED BY <1>1, <2>2, <2>3, LenProperties
  <1>3. PICK acc \in [0..n -> Histories] :
            /\ acc[0] = told
            /\ \A i \in 1..n : acc[i] = Hear(acc[i - 1], cs[i])
            /\ Heard(told, cs) = acc[n]
    BY <1>1, <1>2, HeardTrace
  <1>4. ASSUME NEW h \in Histories, NEW c \in Notices
        PROVE  Hear(h, c)["goal_helpers"] = h["goal_helpers"] /\ Hear(h, c)["goal_mode"] = "on"
    <2>1. c.tag = "goal_mode" /\ c.op = "publish"
      BY DEF Notices, Notice, Contribution
    <2>2. DOMAIN h = {"goal_helpers", "goal_mode"}
      BY DEF Histories, Untold
    <2> QED BY <2>1, <2>2 DEF Hear
  <1> DEFINE Same == {i \in Nat : i <= n => acc[i]["goal_helpers"] = told["goal_helpers"]}
  <1>5. 0 \in Same
    BY <1>3
  <1>6. ASSUME NEW i \in Nat, i \in Same PROVE i + 1 \in Same
    <2> SUFFICES ASSUME i + 1 <= n PROVE acc[i + 1]["goal_helpers"] = told["goal_helpers"]
      OBVIOUS
    <2>1. PICK k : k = i + 1
      OBVIOUS
    <2>2. k \in 1..n /\ k - 1 = i /\ acc[i] \in Histories /\ acc[i]["goal_helpers"] = told["goal_helpers"]
      BY <1>2, <1>3, <1>6, <2>1
    <2> QED BY <1>2, <1>3, <1>4, <2>1, <2>2
  <1>7. n \in Same /\ n <= n
    <2> HIDE DEF Same
    <2> QED BY <1>2, <1>5, <1>6, Upwards
  <1>8. ASSUME cs # <<>> PROVE acc[n]["goal_mode"] = "on"
    <2>1. n \in 1..n /\ n - 1 \in 0..n
      BY <1>1, <1>2, <1>8
    <2>2. acc[n - 1] \in Histories /\ cs[n] \in Notices /\ acc[n] = Hear(acc[n - 1], cs[n])
      BY <1>2, <1>3, <2>1
    <2> QED BY <1>4, <2>2
  <1> QED BY <1>3, <1>7, <1>8

-----------------------------------------------------------------------------
\* What a broker holds.
LEMMA BrokerShape ==
  ASSUME NEW b
  PROVE  b \in Brokers <=>
            /\ b = [epoch |-> b.epoch, updates |-> b.updates, turn |-> b.turn, keyed |-> b.keyed,
                    replay |-> b.replay]
            /\ b.epoch \in Queues /\ b.updates \in Queues /\ b.turn \in [Threads -> Seq(Notices)]
            /\ b.keyed \in [Threads -> Remembered] /\ b.replay \in [Threads -> Remembered]
  <1> HIDE DEF Queues, Remembered, Notices
  <1> QED BY DEF Brokers

\* What a broker queues in a place.
LEMMA QueueShape ==
  ASSUME NEW q
  PROVE  q \in Queues <=> /\ q \in [Threads \cup {All} -> Seq(Announced \cup {News})]
                          /\ q[All] \in Seq({News})
  BY DEF Queues

\* One queue is replaced by another of its kind.
LEMMA QueueReplaced ==
  ASSUME All \notin Threads, NEW q \in Queues, NEW t \in Threads, NEW s \in Seq(Announced \cup {News})
  PROVE  [q EXCEPT ![t] = s] \in Queues
  <1>1. q \in [Threads \cup {All} -> Seq(Announced \cup {News})] /\ q[All] \in Seq({News})
    BY QueueShape
  <1>2. t # All /\ t \in Threads \cup {All} /\ All \in Threads \cup {All}
    OBVIOUS
  <1>3. PICK Items : Items = Seq(Announced \cup {News})
    OBVIOUS
  <1>4. [q EXCEPT ![t] = s] \in [Threads \cup {All} -> Items] /\ [q EXCEPT ![t] = s][All] = q[All]
    BY <1>1, <1>2, <1>3
  <1> QED BY <1>1, <1>3, <1>4, QueueShape

\* A queue for everybody may be replaced.
LEMMA QueueOfAll ==
  ASSUME NEW q \in Queues, NEW s \in Seq({News})
  PROVE  [q EXCEPT ![All] = s] \in Queues
  <1>1. q \in [Threads \cup {All} -> Seq(Announced \cup {News})]
    BY QueueShape
  <1>2. All \in Threads \cup {All}
    OBVIOUS
  <1>3. PICK Items : Items = Seq(Announced \cup {News})
    OBVIOUS
  <1>4. s \in Items
    <2>1. {News} \subseteq Announced \cup {News}
      OBVIOUS
    <2> QED BY <1>3, <2>1, SeqMonotonic
  <1>5. [q EXCEPT ![All] = s] \in [Threads \cup {All} -> Items] /\ [q EXCEPT ![All] = s][All] = s
    BY <1>1, <1>2, <1>3, <1>4
  <1> QED BY <1>3, <1>5, QueueShape

\* Nothing that thread u will be told differs between two brokers.
SameFor(b, v, u) == /\ v.epoch[u] = b.epoch[u] /\ v.updates[u] = b.updates[u]
                    /\ v.turn[u] = b.turn[u] /\ v.replay[u] = b.replay[u]

\* A plugin's announcement to a thread, if it is not suppressed.
LEMMA NotifyThread ==
  ASSUME All \notin Threads, NEW b \in Brokers, NEW t \in Threads, NEW c \in Announced,
         NEW suppressed \in BOOLEAN,
         NEW v, v = Notify(b, t, c, suppressed)
  PROVE  /\ v \in Brokers /\ v.turn = b.turn /\ v.replay = b.replay /\ v.keyed = b.keyed
         /\ v.epoch[All] = b.epoch[All] /\ v.updates[All] = b.updates[All]
         /\ ~suppressed => v.epoch[t] = Append(b.epoch[t], c) /\ v.updates[t] = Append(b.updates[t], c)
         /\ suppressed => v = b
         /\ \A u \in Threads \ {t} : SameFor(b, v, u)
  <1>1. CASE suppressed
    BY <1>1 DEF Notify, SameFor
  <1>2. CASE ~suppressed
    <2>1. /\ b = [epoch |-> b.epoch, updates |-> b.updates, turn |-> b.turn, keyed |-> b.keyed,
                    replay |-> b.replay]
          /\ b.epoch \in Queues /\ b.updates \in Queues /\ b.turn \in [Threads -> Seq(Notices)]
          /\ b.keyed \in [Threads -> Remembered] /\ b.replay \in [Threads -> Remembered]
      BY BrokerShape
    <2>2. PICK e, f : /\ e = [b.epoch EXCEPT ![t] = Append(@, c)]
                      /\ f = [b.updates EXCEPT ![t] = Append(@, c)]
      OBVIOUS
    <2>3. v = [b EXCEPT !.epoch = e, !.updates = f]
      BY <1>2, <2>1, <2>2 DEF Notify
    <2>4. /\ v.epoch = e /\ v.updates = f /\ v.turn = b.turn /\ v.replay = b.replay /\ v.keyed = b.keyed
          /\ v = [epoch |-> v.epoch, updates |-> v.updates, turn |-> v.turn, keyed |-> v.keyed,
                  replay |-> v.replay]
      BY ONLY <2>1, <2>3
    <2>5. t # All /\ t \in Threads \cup {All} /\ All \in Threads \cup {All}
      OBVIOUS
    <2>6. ASSUME NEW q \in Queues
          PROVE  /\ [q EXCEPT ![t] = Append(@, c)] \in Queues
                 /\ [q EXCEPT ![t] = Append(@, c)][All] = q[All]
                 /\ [q EXCEPT ![t] = Append(@, c)][t] = Append(q[t], c)
                 /\ \A u \in Threads \ {t} : [q EXCEPT ![t] = Append(@, c)][u] = q[u]
      <3>1. PICK Items, d : Items = Announced \cup {News} /\ d = Append(q[t], c)
        OBVIOUS
      <3>2. q \in [Threads \cup {All} -> Seq(Items)]
        BY <3>1, QueueShape
      <3>3. q[t] \in Seq(Items) /\ c \in Items
        BY <2>5, <3>1, <3>2
      <3>4. d \in Seq(Items)
        BY <3>1, <3>3, AppendProperties
      <3>5. [q EXCEPT ![t] = d] \in Queues
        BY <3>1, <3>4, QueueReplaced
      <3>6. [q EXCEPT ![t] = Append(@, c)] = [q EXCEPT ![t] = d]
        BY <3>1
      <3> QED BY <2>5, <3>1, <3>2, <3>5, <3>6
    <2>7. /\ e \in Queues /\ e[All] = b.epoch[All] /\ e[t] = Append(b.epoch[t], c)
          /\ \A u \in Threads \ {t} : e[u] = b.epoch[u]
      BY <2>1, <2>2, <2>6
    <2>8. /\ f \in Queues /\ f[All] = b.updates[All] /\ f[t] = Append(b.updates[t], c)
          /\ \A u \in Threads \ {t} : f[u] = b.updates[u]
      BY <2>1, <2>2, <2>6
    <2>9. v \in Brokers
      BY ONLY <2>1, <2>4, <2>7, <2>8, BrokerShape
    <2> QED BY <1>2, <2>4, <2>7, <2>8, <2>9 DEF SameFor
  <1> QED BY <1>1, <1>2

\* The news of another plugin, to everybody.
LEMMA NotifyAll ==
  ASSUME All \notin Threads, NEW b \in Brokers, NEW v, v = Notify(b, All, News, FALSE)
  PROVE  v \in Brokers /\ \A u \in Threads : SameFor(b, v, u)
  <1>1. /\ b = [epoch |-> b.epoch, updates |-> b.updates, turn |-> b.turn, keyed |-> b.keyed,
                replay |-> b.replay]
        /\ b.epoch \in Queues /\ b.updates \in Queues /\ b.turn \in [Threads -> Seq(Notices)]
        /\ b.keyed \in [Threads -> Remembered] /\ b.replay \in [Threads -> Remembered]
    BY BrokerShape
  <1>2. PICK e, f : /\ e = [b.epoch EXCEPT ![All] = Append(@, News)]
                    /\ f = [b.updates EXCEPT ![All] = Append(@, News)]
    OBVIOUS
  <1>3. v = [b EXCEPT !.epoch = e, !.updates = f]
    BY <1>1, <1>2 DEF Notify
  <1>4. /\ v.epoch = e /\ v.updates = f /\ v.turn = b.turn /\ v.replay = b.replay /\ v.keyed = b.keyed
        /\ v = [epoch |-> v.epoch, updates |-> v.updates, turn |-> v.turn, keyed |-> v.keyed,
                replay |-> v.replay]
    BY ONLY <1>1, <1>3
  <1>5. ASSUME NEW q \in Queues
        PROVE  /\ [q EXCEPT ![All] = Append(@, News)] \in Queues
               /\ \A u \in Threads : [q EXCEPT ![All] = Append(@, News)][u] = q[u]
    <2>1. PICK Items, d : Items = {News} /\ d = Append(q[All], News)
      OBVIOUS
    <2>2. q[All] \in Seq(Items) /\ News \in Items
      BY <2>1, QueueShape
    <2>3. d \in Seq(Items)
      BY <2>1, <2>2, AppendProperties
    <2>4. [q EXCEPT ![All] = d] \in Queues
      BY <2>1, <2>3, QueueOfAll
    <2>5. [q EXCEPT ![All] = Append(@, News)] = [q EXCEPT ![All] = d]
      BY <2>1
    <2>6. q \in [Threads \cup {All} -> Seq(Announced \cup {News})]
      BY QueueShape
    <2>7. \A u \in Threads : u # All
      OBVIOUS
    <2> QED BY <2>4, <2>5, <2>6, <2>7
  <1>6. e \in Queues /\ f \in Queues
        /\ \A u \in Threads : e[u] = b.epoch[u] /\ f[u] = b.updates[u]
    BY <1>1, <1>2, <1>5
  <1>7. v \in Brokers
    BY ONLY <1>1, <1>4, <1>6, BrokerShape
  <1> QED BY <1>4, <1>6, <1>7 DEF SameFor

\* The queues of a thread are emptied, and everybody's.
LEMMA Dropped ==
  ASSUME All \notin Threads, NEW q \in Queues, NEW t \in Threads
  PROVE  /\ Drop(q, t) \in Queues /\ Drop(q, t)[t] = <<>> /\ Drop(q, t)[All] = <<>>
         /\ \A u \in Threads \ {t} : Drop(q, t)[u] = q[u]
  <1>1. q \in [Threads \cup {All} -> Seq(Announced \cup {News})]
    BY QueueShape
  <1>2. t # All /\ t \in Threads \cup {All} /\ All \in Threads \cup {All}
    OBVIOUS
  <1>3. PICK e, p, d : e = <<>> /\ p = [q EXCEPT ![All] = e] /\ d = [p EXCEPT ![t] = e]
    OBVIOUS
  <1>4. e \in Seq({News}) /\ e \in Seq(Announced \cup {News})
    BY <1>3, EmptySeq
  <1>5. p \in Queues
    BY <1>3, <1>4, QueueOfAll
  <1>6. d \in Queues
    BY <1>3, <1>4, <1>5, QueueReplaced
  <1>7. p \in [Threads \cup {All} -> Seq(Announced \cup {News})]
    BY <1>5, QueueShape
  <1>8. d[t] = e /\ d[All] = p[All] /\ p[All] = e /\ \A u \in Threads \ {t} : d[u] = p[u]
    BY ONLY <1>1, <1>2, <1>3, <1>7
  <1>9. \A u \in Threads \ {t} : p[u] = q[u]
    <2>1. \A u \in Threads : u # All
      OBVIOUS
    <2> QED BY ONLY <1>1, <1>3, <2>1
  <1>10. Drop(q, t) = d
    BY <1>3 DEF Drop
  <1> QED BY <1>3, <1>6, <1>8, <1>9, <1>10

\* What was queued for a thread and for everybody is forgotten.
LEMMA ClearEpochIs ==
  ASSUME All \notin Threads, NEW b \in Brokers, NEW t \in Threads, NEW v, v = ClearEpoch(b, t)
  PROVE  /\ v \in Brokers /\ v.turn = b.turn /\ v.replay = b.replay /\ v.keyed = b.keyed
         /\ v.epoch[t] = <<>> /\ v.updates[t] = <<>> /\ v.epoch[All] = <<>> /\ v.updates[All] = <<>>
         /\ \A u \in Threads \ {t} : SameFor(b, v, u)
  <1>1. /\ b = [epoch |-> b.epoch, updates |-> b.updates, turn |-> b.turn, keyed |-> b.keyed,
                replay |-> b.replay]
        /\ b.epoch \in Queues /\ b.updates \in Queues /\ b.turn \in [Threads -> Seq(Notices)]
        /\ b.keyed \in [Threads -> Remembered] /\ b.replay \in [Threads -> Remembered]
    BY BrokerShape
  <1>2. PICK e, f : e = Drop(b.epoch, t) /\ f = Drop(b.updates, t)
    OBVIOUS
  <1>3. v = [b EXCEPT !.epoch = e, !.updates = f]
    BY <1>1, <1>2 DEF ClearEpoch
  <1>4. /\ v.epoch = e /\ v.updates = f /\ v.turn = b.turn /\ v.replay = b.replay /\ v.keyed = b.keyed
        /\ v = [epoch |-> v.epoch, updates |-> v.updates, turn |-> v.turn, keyed |-> v.keyed,
                replay |-> v.replay]
    BY ONLY <1>1, <1>3
  <1>5. \A q \in Queues : /\ Drop(q, t) \in Queues /\ Drop(q, t)[t] = <<>> /\ Drop(q, t)[All] = <<>>
                          /\ \A u \in Threads \ {t} : Drop(q, t)[u] = q[u]
    BY Dropped
  <1>6. /\ e \in Queues /\ e[t] = <<>> /\ e[All] = <<>> /\ f \in Queues /\ f[t] = <<>> /\ f[All] = <<>>
        /\ \A u \in Threads \ {t} : e[u] = b.epoch[u] /\ f[u] = b.updates[u]
    BY <1>1, <1>2, <1>5
  <1>7. v \in Brokers
    BY ONLY <1>1, <1>4, <1>6, BrokerShape
  <1> QED BY <1>4, <1>6, <1>7 DEF SameFor

\* The turn queue of a thread and what is remembered of it are replaced.
Replaced(b, v, t, q, m, r) == v = [b EXCEPT !.turn[t] = q, !.keyed[t] = m, !.replay[t] = r]

\* A turn queue and what is remembered may be replaced.
LEMMA TurnReplaced ==
  ASSUME NEW b \in Brokers, NEW t \in Threads, NEW q \in Seq(Notices),
         NEW m \in Remembered, NEW r \in Remembered,
         NEW v, Replaced(b, v, t, q, m, r)
  PROVE  /\ v \in Brokers /\ v.epoch = b.epoch /\ v.updates = b.updates
         /\ v.turn[t] = q /\ v.replay[t] = r /\ \A u \in Threads \ {t} : SameFor(b, v, u)
  <1>1. /\ b = [epoch |-> b.epoch, updates |-> b.updates, turn |-> b.turn, keyed |-> b.keyed,
                replay |-> b.replay]
        /\ b.epoch \in Queues /\ b.updates \in Queues /\ b.turn \in [Threads -> Seq(Notices)]
        /\ b.keyed \in [Threads -> Remembered] /\ b.replay \in [Threads -> Remembered]
    BY BrokerShape
  <1>2. PICK Items : Items = Seq(Notices)
    OBVIOUS
  <1>3. b.turn \in [Threads -> Items] /\ q \in Items
    BY <1>1, <1>2
  <1>4. /\ v = [b EXCEPT !.turn = v.turn, !.keyed = v.keyed, !.replay = v.replay]
        /\ v.turn = [b.turn EXCEPT ![t] = q] /\ v.keyed = [b.keyed EXCEPT ![t] = m]
        /\ v.replay = [b.replay EXCEPT ![t] = r]
    BY ONLY <1>1, Replaced(b, v, t, q, m, r) DEF Replaced
  <1>5. /\ v.epoch = b.epoch /\ v.updates = b.updates
        /\ v = [epoch |-> v.epoch, updates |-> v.updates, turn |-> v.turn, keyed |-> v.keyed,
                replay |-> v.replay]
    BY ONLY <1>1, <1>4
  <1>6. /\ v.turn \in [Threads -> Items] /\ v.keyed \in [Threads -> Remembered]
        /\ v.replay \in [Threads -> Remembered]
        /\ v.turn[t] = q /\ v.replay[t] = r
        /\ \A u \in Threads \ {t} : v.turn[u] = b.turn[u] /\ v.replay[u] = b.replay[u]
    BY ONLY <1>1, <1>3, <1>4, t \in Threads, m \in Remembered, r \in Remembered
  <1>7. v \in Brokers
    BY ONLY <1>1, <1>2, <1>5, <1>6, BrokerShape
  <1> QED BY <1>5, <1>6, <1>7 DEF SameFor

\* A queue without some of its items is a queue of the same.
LEMMA WithoutIs == ASSUME NEW q \in Seq(Notices), NEW c PROVE WithoutTurnItem(q, c) \in Seq(Notices)
  <1>1. PICK base : base = <<>>
    OBVIOUS
  <1>2. Len(q) \in 0..Len(q)
    OBVIOUS
  <1>3. PICK Items : Items = Seq(Notices)
    OBVIOUS
  <1>4. \E acc \in [0..Len(q) -> Items] : WithoutTurnItem(q, c) = acc[Len(q)]
    BY <1>1, <1>3, WithoutTrace
  <1> QED BY <1>2, <1>3, <1>4

\* A queue without some of its items is a queue.
LEMMA RemovedIs ==
  ASSUME NEW T, NEW base \in Seq(T), NEW U, NEW q \in Seq(U)
  PROVE  WithoutItems(base, q) \in Seq(T)
  <1>1. Len(q) \in 0..Len(q)
    OBVIOUS
  <1>2. PICK acc \in [0..Len(q) -> Seq(T)] : WithoutItems(base, q) = acc[Len(q)]
    BY RemovedTrace
  <1> QED BY <1>1, <1>2

\* A plugin's turn contribution replaces the one under its key.
LEMMA EnqueueTurnIs ==
  ASSUME NEW b \in Brokers, NEW t \in Threads, NEW c \in Notices, NEW v, v = EnqueueTurn(b, t, c)
  PROVE  /\ v \in Brokers /\ v.epoch = b.epoch /\ v.updates = b.updates
         /\ v.turn[t] # <<>> /\ v.replay[t] = c /\ \A u \in Threads \ {t} : SameFor(b, v, u)
  <1>1. PICK w, q : w = WithoutTurnItem(b.turn[t], b.keyed[t]) /\ q = Append(w, c)
    OBVIOUS
  <1>2. b.turn[t] \in Seq(Notices) /\ c \in Remembered
    BY BrokerShape DEF Remembered
  <1>3. w \in Seq(Notices)
    BY <1>1, <1>2, WithoutIs
  <1>4. PICK Set : Set = Notices
    OBVIOUS
  <1>5. q \in Seq(Set) /\ q # <<>>
    BY <1>1, <1>3, <1>4, AppendProperties
  <1>6. /\ b = [epoch |-> b.epoch, updates |-> b.updates, turn |-> b.turn, keyed |-> b.keyed,
                replay |-> b.replay]
        /\ t \in DOMAIN b.turn /\ t \in DOMAIN b.keyed /\ t \in DOMAIN b.replay
    BY BrokerShape
  <1>7. PICK x : x = [b EXCEPT !.turn[t] = w, !.keyed[t] = c]
    OBVIOUS
  <1>8. v = [x EXCEPT !.turn[t] = Append(@, c), !.replay[t] = c]
    BY <1>1, <1>7 DEF EnqueueTurn, ReplaceKeyed
  <1>9. Replaced(b, v, t, q, c, c)
    BY ONLY <1>1, <1>6, <1>7, <1>8 DEF Replaced
  <1> QED BY <1>2, <1>4, <1>5, <1>9, TurnReplaced

\* Nothing is to be replayed.
LEMMA ClearReplayIs ==
  ASSUME NEW b \in Brokers, NEW t \in Threads, NEW v, v = ClearReplay(b, t)
  PROVE  v \in Brokers /\ \A u \in Threads \ {t} : SameFor(b, v, u)
  <1>1. PICK w, no : w = WithoutTurnItem(b.turn[t], b.keyed[t]) /\ no = NoContribution
    OBVIOUS
  <1>2. b.turn[t] \in Seq(Notices) /\ no \in Remembered
    BY <1>1, BrokerShape DEF Remembered
  <1>3. w \in Seq(Notices)
    BY <1>1, <1>2, WithoutIs
  <1>4. /\ b = [epoch |-> b.epoch, updates |-> b.updates, turn |-> b.turn, keyed |-> b.keyed,
                replay |-> b.replay]
        /\ t \in DOMAIN b.turn /\ t \in DOMAIN b.keyed /\ t \in DOMAIN b.replay
    BY BrokerShape
  <1>5. v = [b EXCEPT !.replay[t] = no, !.keyed[t] = no, !.turn[t] = w]
    BY <1>1 DEF ClearReplay
  <1>6. Replaced(b, v, t, w, no, no)
    BY ONLY <1>4, <1>5 DEF Replaced
  <1> QED BY <1>2, <1>3, <1>6, TurnReplaced

\* After a compaction what is remembered is queued again.
LEMMA ReplayIs ==
  ASSUME NEW b \in Brokers, NEW t \in Threads, NEW v, v = ReplayAfterCompaction(b, t)
  PROVE  /\ v \in Brokers /\ v.epoch = b.epoch /\ v.updates = b.updates
         /\ b.replay[t] # NoContribution => v.turn[t] # <<>>
         /\ v.replay[t] = b.replay[t] /\ \A u \in Threads \ {t} : SameFor(b, v, u)
  <1>1. CASE b.replay[t] = NoContribution
    <2>1. v = b
      BY <1>1 DEF ReplayAfterCompaction
    <2> QED BY <1>1, <2>1 DEF SameFor
  <1>2. CASE b.replay[t] # NoContribution
    <2>1. PICK c : c = b.replay[t]
      OBVIOUS
    <2>2. PICK w, q : w = WithoutTurnItem(b.turn[t], b.keyed[t]) /\ q = Append(w, c)
      OBVIOUS
    <2>3. b.turn[t] \in Seq(Notices) /\ c \in Remembered
      BY <2>1, BrokerShape
    <2>4. c \in Notices
      BY <1>2, <2>1, <2>3 DEF Remembered
    <2>5. w \in Seq(Notices)
      BY <2>2, <2>3, WithoutIs
    <2>6. PICK Set : Set = Notices
      OBVIOUS
    <2>7. q \in Seq(Set) /\ q # <<>>
      BY <2>2, <2>4, <2>5, <2>6, AppendProperties
    <2>8. /\ b = [epoch |-> b.epoch, updates |-> b.updates, turn |-> b.turn, keyed |-> b.keyed,
                  replay |-> b.replay]
          /\ t \in DOMAIN b.turn /\ t \in DOMAIN b.keyed /\ t \in DOMAIN b.replay
          /\ b.replay \in [Threads -> Remembered]
      BY BrokerShape
    <2>9. PICK x : x = [b EXCEPT !.turn[t] = w, !.keyed[t] = c]
      OBVIOUS
    <2>10. v = [x EXCEPT !.turn[t] = Append(@, c)]
      BY <1>2, <2>1, <2>2, <2>9 DEF ReplayAfterCompaction, ReplaceKeyed
    <2>11. Replaced(b, v, t, q, c, c)
      BY ONLY <2>1, <2>2, <2>8, <2>9, <2>10 DEF Replaced
    <2>12. /\ v \in Brokers /\ v.epoch = b.epoch /\ v.updates = b.updates
           /\ v.turn[t] = q /\ v.replay[t] = c /\ \A u \in Threads \ {t} : SameFor(b, v, u)
      BY <2>3, <2>6, <2>7, <2>11, TurnReplaced
    <2> QED BY <2>1, <2>7, <2>12
  <1> QED BY <1>1, <1>2

\* The turn contributions are taken.
LEMMA ConsumeTurnIs ==
  ASSUME NEW b \in Brokers, NEW t \in Threads, NEW v, v = ConsumeTurn(b, t)
  PROVE  /\ v \in Brokers /\ v.epoch = b.epoch /\ v.updates = b.updates
         /\ v.turn[t] = <<>> /\ v.replay[t] = b.replay[t] /\ \A u \in Threads \ {t} : SameFor(b, v, u)
  <1>1. PICK q, m, r : q = <<>> /\ m = b.keyed[t] /\ r = b.replay[t]
    OBVIOUS
  <1>2. m \in Remembered /\ r \in Remembered
    BY <1>1, BrokerShape
  <1>3. q \in Seq(Notices)
    BY <1>1, EmptySeq
  <1>4. /\ b = [epoch |-> b.epoch, updates |-> b.updates, turn |-> b.turn, keyed |-> b.keyed,
                replay |-> b.replay]
        /\ b.turn \in [Threads -> Seq(Notices)]
        /\ b.keyed \in [Threads -> Remembered] /\ b.replay \in [Threads -> Remembered]
    BY BrokerShape
  <1>5. v = [b EXCEPT !.turn[t] = q]
    BY <1>1 DEF ConsumeTurn
  <1>6. Replaced(b, v, t, q, m, r)
    BY ONLY <1>1, <1>4, <1>5 DEF Replaced
  <1>7. /\ v \in Brokers /\ v.epoch = b.epoch /\ v.updates = b.updates
        /\ v.turn[t] = q /\ v.replay[t] = r /\ \A u \in Threads \ {t} : SameFor(b, v, u)
    BY ONLY <1>2, <1>3, <1>6, b \in Brokers, t \in Threads, TurnReplaced
  <1> QED BY <1>1, <1>7

\* The updates are taken, each out of the epoch queues too.
LEMMA ConsumeUpdatesIs ==
  ASSUME All \notin Threads, NEW b \in Brokers, NEW t \in Threads, NEW v, v = ConsumeUpdates(b, t)
  PROVE  /\ v \in Brokers /\ v.turn = b.turn /\ v.replay = b.replay
         /\ v.updates[t] = <<>> /\ \A u \in Threads \ {t} : SameFor(b, v, u)
  <1>1. /\ b = [epoch |-> b.epoch, updates |-> b.updates, turn |-> b.turn, keyed |-> b.keyed,
                replay |-> b.replay]
        /\ b.epoch \in Queues /\ b.updates \in Queues /\ b.turn \in [Threads -> Seq(Notices)]
        /\ b.keyed \in [Threads -> Remembered] /\ b.replay \in [Threads -> Remembered]
    BY BrokerShape
  <1>2. t # All /\ t \in Threads \cup {All} /\ All \in Threads \cup {All}
    OBVIOUS
  <1>3. PICK Items : Items = Announced \cup {News}
    OBVIOUS
  <1>4. /\ b.updates[t] \in Seq(Items) /\ b.updates[All] \in Seq(Items)
        /\ b.epoch[t] \in Seq(Items) /\ b.epoch[All] \in Seq({News})
    BY <1>1, <1>2, <1>3, QueueShape
  <1>5. PICK cs : cs = UpdatesTaken(b, t)
    OBVIOUS
  <1>6. cs \in Seq(Items)
    BY <1>4, <1>5, ConcatProperties DEF UpdatesTaken
  <1>7. PICK x, y : x = WithoutItems(b.epoch[All], cs) /\ y = WithoutItems(b.epoch[t], cs)
    OBVIOUS
  <1>8. x \in Seq({News}) /\ y \in Seq(Items)
    BY <1>4, <1>6, <1>7, RemovedIs
  <1>9. PICK e, f, p : p = [b.epoch EXCEPT ![All] = x] /\ e = [p EXCEPT ![t] = y] /\ f = Drop(b.updates, t)
    OBVIOUS
  <1>10. p \in Queues
    BY <1>1, <1>8, <1>9, QueueOfAll
  <1>11. e \in Queues
    BY <1>3, <1>8, <1>9, <1>10, QueueReplaced
  <1>12. \A u \in Threads \ {t} : e[u] = b.epoch[u]
    <2>1. \A u \in Threads : u # All
      OBVIOUS
    <2>2. b.epoch \in [Threads \cup {All} -> Seq(Announced \cup {News})]
      BY <1>1, QueueShape
    <2> QED BY ONLY <1>9, <2>1, <2>2
  <1>13. f \in Queues /\ f[t] = <<>> /\ \A u \in Threads \ {t} : f[u] = b.updates[u]
    BY <1>1, <1>9, Dropped
  <1>14. v = [b EXCEPT !.updates = f, !.epoch = e]
    <2>1. v = [b EXCEPT !.updates = Drop(@, t), !.epoch[All] = WithoutItems(@, cs),
                        !.epoch[t] = WithoutItems(@, cs)]
      BY <1>5 DEF ConsumeUpdates
    <2>2. t \in DOMAIN b.epoch /\ All \in DOMAIN b.epoch
      BY <1>1, <1>2, QueueShape
    <2> QED BY ONLY <1>1, <1>2, <1>7, <1>9, <2>1, <2>2
  <1>15. /\ v.epoch = e /\ v.updates = f /\ v.turn = b.turn /\ v.replay = b.replay
         /\ v = [epoch |-> v.epoch, updates |-> v.updates, turn |-> v.turn, keyed |-> v.keyed,
                 replay |-> v.replay]
         /\ v.keyed = b.keyed
    BY ONLY <1>1, <1>14
  <1>16. v \in Brokers
    BY ONLY <1>1, <1>11, <1>13, <1>15, BrokerShape
  <1> QED BY <1>12, <1>13, <1>15, <1>16 DEF SameFor

-----------------------------------------------------------------------------
\* A step that tells a thread nothing and changes none of its stored.
LEMMA OtherThread ==
  ASSUME NEW u \in Threads, Informed(u), SameFor(broker, broker', u), goal'[u].enabled = goal[u].enabled,
         history'[u] = history[u], full'[u] = full[u], turnStage'[u] = turnStage[u], fresh'[u] = fresh[u],
         kept'[u] = kept[u], compactions'[u] = compactions[u]
  PROVE  Informed(u)'
  <1>1. Pending(u)' = Pending(u)
    BY DEF Pending, SameFor
  <1>2. Settled(u)'
    BY DEF Informed, Settled, SameFor
  <1>3. ASSUME Told(u) PROVE Told(u)'
    <2>1. Heard(history[u], Pending(u))' = Heard(history[u], Pending(u))
      BY <1>1
    <2> QED BY <1>3, <2>1 DEF Told, SameFor
  <1> QED BY <1>2, <1>3 DEF Informed

\* What is queued for a thread.
LEMMA PendingIs ==
  ASSUME TypeOK, NEW t \in Threads
  PROVE  /\ Pending(t) \in Seq(Said) /\ history[t] \in Histories
         /\ broker.epoch[t] \in Seq(Said) /\ broker.updates[t] \in Seq(Said)
         /\ broker.turn[t] \in Seq(Notices) /\ broker.replay[t] \in Remembered
  <1>1. /\ broker.epoch[t] \in Seq(Announced \cup {News}) /\ broker.updates[t] \in Seq(Announced \cup {News})
        /\ broker.turn[t] \in Seq(Notices) /\ broker.replay[t] \in Remembered
    BY BrokerShape, QueueShape DEF TypeOK
  <1>2. Announced \cup {News} \subseteq Said
    BY DEF Said
  <1>3. broker.epoch[t] \in Seq(Said) /\ broker.updates[t] \in Seq(Said)
    BY <1>1, <1>2, SeqMonotonic
  <1>4. history[t] \in Histories
    BY DEF TypeOK
  <1> QED BY <1>1, <1>3, <1>4 DEF Pending

\* What a thread hears of a queue and of everybody's is what it hears of the queue.
LEMMA HeardOfBoth ==
  ASSUME NEW told \in Histories, NEW q \in Queues, NEW t \in Threads
  PROVE  Heard(told, q[All] \o q[t]) = Heard(told, q[t])
  <1>1. q[All] \in Seq({News}) /\ q[t] \in Seq(Announced \cup {News})
    BY QueueShape
  <1>2. {News} \subseteq Said /\ Announced \cup {News} \subseteq Said
    BY DEF Said
  <1>3. q[All] \in Seq(Said) /\ q[t] \in Seq(Said)
    BY <1>1, <1>2, SeqMonotonic
  <1>4. Heard(told, q[All]) = told
    BY <1>1, HeardNews
  <1>5. Heard(told, q[All] \o q[t]) = Heard(Heard(told, q[All]), q[t])
    BY <1>3, HeardThen
  <1> QED BY <1>4, <1>5

\* A thread that was told last that it has the helpers knows.
LEMMA ToldOfHelpers ==
  ASSUME NEW told \in Histories, NEW as \in Seq(Said)
  PROVE  Heard(told, Append(as, Helpers("publish")))["goal_helpers"] = "on"
  <1>1. PICK c : c = Helpers("publish")
    OBVIOUS
  <1>2. c \in Said /\ c.tag = "goal_helpers" /\ c.op = "publish"
    BY <1>1 DEF Said, Announced, Helpers, Contribution
  <1>3. Heard(told, Append(as, c)) = Hear(Heard(told, as), c)
    BY <1>2, HeardLast
  <1>4. Heard(told, as) \in Histories
    BY HeardIs
  <1>5. \A h \in Histories : Hear(h, c)["goal_helpers"] = "on"
    BY <1>2 DEF Hear, Histories, Untold
  <1> QED BY <1>1, <1>3, <1>4, <1>5

\* A broker without anything.
LEMMA EmptyIsBroker == EmptyBroker \in Brokers
  <1>1. PICK e, f, g, no : /\ e = [place \in Threads \cup {All} |-> <<>>]
                           /\ f = [t \in Threads |-> <<>>]
                           /\ no = NoContribution /\ g = [t \in Threads |-> no]
    OBVIOUS
  <1>2. EmptyBroker = [epoch |-> e, updates |-> e, turn |-> f, keyed |-> g, replay |-> g]
    BY <1>1 DEF EmptyBroker
  <1>3. PICK Items : Items = Announced \cup {News}
    OBVIOUS
  <1>4. e \in [Threads \cup {All} -> Seq(Items)] /\ e[All] \in Seq({News})
    BY <1>1, EmptySeq
  <1>5. e \in Queues
    BY <1>3, <1>4, QueueShape
  <1>6. f \in [Threads -> Seq(Notices)]
    BY <1>1, EmptySeq
  <1>7. g \in [Threads -> Remembered]
    BY <1>1 DEF Remembered
  <1> QED BY ONLY <1>2, <1>5, <1>6, <1>7, BrokerShape

\* The invariant holds at the start.
LEMMA GoalInit == Init => Inv
  <1> SUFFICES ASSUME Init PROVE Inv
    OBVIOUS
  <1>1. EmptyBroker \in Brokers
    BY EmptyIsBroker
  <1>2. TypeOK
    <2>1. NoGoal \in [enabled : BOOLEAN, objective : Texts]
      BY DEF NoGoal, Texts
    <2>2. Untold \in Histories
      BY DEF Untold, Histories
    <2> QED BY <1>1, <2>1, <2>2 DEF Init, TypeOK
  <1>3. IndexIsTasks
    BY DEF Init, IndexIsTasks
  <1>4. \A t \in Threads : Informed(t)
    BY DEF Init, Informed, Settled
  <1> QED BY <1>2, <1>3, <1>4 DEF Inv

\* The goal that a context of a sent turn leaves known is known, and a listed task is a task.
LEMMA GoalImplies == Inv => GoalIsKnown
  <1> SUFFICES ASSUME Inv PROVE GoalIsKnown
    OBVIOUS
  <1>1. GoalIsTold
    <2> SUFFICES ASSUME NEW t \in Threads, turnStage[t] = "sent", fresh[t], kept[t], goal[t].enabled
                 PROVE  \A tag \in DOMAIN Untold : history[t][tag] = "on"
      BY DEF GoalIsTold
    <2>1. Told(t) /\ full[t] /\ broker.updates[t] = <<>> /\ broker.turn[t] = <<>>
      BY DEF Inv, Informed, Settled
    <2>2. Heard(history[t], Pending(t)) = history[t]
      <3>1. Pending(t) = <<>> /\ history[t] \in Histories
        BY <2>1 DEF Pending, Inv, TypeOK
      <3> QED BY <3>1, HeardNothing
    <2>3. history[t]["goal_helpers"] = "on" /\ history[t]["goal_mode"] = "on"
      BY <2>1, <2>2 DEF Told
    <2> QED BY <2>3 DEF Untold
  <1>2. ListIsTheTasks
    <2> SUFFICES ASSUME NEW t \in Threads, NEW status
                 PROVE  ListTasks(t, status) = {id \in DOMAIN tasks[t] : tasks[t][id] = status}
      BY DEF ListIsTheTasks
    <2>1. index[t] = {<<tasks[t][id], id>> : id \in DOMAIN tasks[t]}
      BY DEF Inv, IndexIsTasks
    <2>2. PICK f, rows : f = tasks[t] /\ rows = index[t]
      OBVIOUS
    <2>3. rows = {<<f[id], id>> : id \in DOMAIN f}
      BY <2>1, <2>2
    <2>4. {row[2] : row \in {r \in rows : r[1] = status}} = {id \in DOMAIN f : f[id] = status}
      <3>1. ASSUME NEW id \in DOMAIN f, f[id] = status
            PROVE  id \in {row[2] : row \in {r \in rows : r[1] = status}}
        <4>1. PICK r : r = <<f[id], id>>
          OBVIOUS
        <4>2. r \in rows /\ r[1] = status /\ r[2] = id
          BY <2>3, <3>1, <4>1
        <4> QED BY <4>2
      <3>2. ASSUME NEW row \in rows, row[1] = status
            PROVE  row[2] \in {id \in DOMAIN f : f[id] = status}
        BY <2>3, <3>2
      <3> QED BY <3>1, <3>2
    <2> QED BY <2>2, <2>4 DEF ListTasks
  <1> QED BY <1>1, <1>2 DEF GoalIsKnown

-----------------------------------------------------------------------------
\* Every step keeps the invariant.

\* What a command does besides its own work.
LEMMA CommandIs ==
  ASSUME TypeOK, NEW t \in Threads, NEW enabling \in BOOLEAN, Command(t, enabling)
  PROVE  /\ fresh' \in [Threads -> BOOLEAN] /\ kept' \in [Threads -> BOOLEAN]
         /\ kept'[t] => turnStage[t] # "prepared" /\ (kept[t] \/ enabling)
         /\ full' = full /\ turnStage' = turnStage /\ history' = history /\ compactions' = compactions
         /\ \A u \in Threads \ {t} : fresh'[u] = fresh[u] /\ kept'[u] = kept[u]
         /\ Settled(t)'
  <1>1. fresh \in [Threads -> BOOLEAN] /\ kept \in [Threads -> BOOLEAN]
    BY DEF TypeOK
  <1>2. /\ fresh' = [fresh EXCEPT ![t] = FALSE]
        /\ kept' = [kept EXCEPT ![t] = turnStage[t] # "prepared" /\ (@ \/ enabling)]
        /\ full' = full /\ turnStage' = turnStage /\ history' = history /\ compactions' = compactions
    BY DEF Command
  <1>3. PICK now \in BOOLEAN : now = (turnStage[t] # "prepared" /\ (kept[t] \/ enabling))
    BY <1>1
  <1>4. kept' = [kept EXCEPT ![t] = now]
    BY <1>2, <1>3
  <1>5. fresh'[t] = FALSE /\ kept'[t] = now
    BY <1>1, <1>2, <1>4
  <1>6. Settled(t)'
    <2>1. ~(turnStage'[t] = "prepared" /\ kept'[t]) /\ ~fresh'[t]
      BY <1>2, <1>3, <1>5
    <2> QED BY <2>1 DEF Settled
  <1> QED BY <1>1, <1>2, <1>3, <1>4, <1>5, <1>6

\* A command that leaves the invariant's other parts to be shown.
LEMMA CommandKeeps ==
  ASSUME Inv, NEW t \in Threads, NEW enabling \in BOOLEAN, Command(t, enabling),
         broker' \in Brokers, \A u \in Threads \ {t} : SameFor(broker, broker', u),
         goal' \in [Threads -> [enabled : BOOLEAN, objective : Texts]],
         \A u \in Threads \ {t} : goal'[u].enabled = goal[u].enabled,
         DOMAIN tasks' = Threads, DOMAIN index' = Threads, IndexIsTasks',
         kept'[t] /\ goal'[t].enabled => Told(t)'
  PROVE  Inv'
  <1>1. /\ fresh' \in [Threads -> BOOLEAN] /\ kept' \in [Threads -> BOOLEAN]
        /\ full' = full /\ turnStage' = turnStage /\ history' = history /\ compactions' = compactions
        /\ \A u \in Threads \ {t} : fresh'[u] = fresh[u] /\ kept'[u] = kept[u]
        /\ Settled(t)'
    BY CommandIs DEF Inv
  <1>2. TypeOK'
    BY <1>1 DEF Inv, TypeOK
  <1>3. Informed(t)'
    BY <1>1 DEF Informed
  <1>4. ASSUME NEW u \in Threads \ {t} PROVE Informed(u)'
    <2>1. Informed(u)
      BY DEF Inv
    <2> QED BY <1>1, <2>1, OtherThread
  <1> QED BY <1>2, <1>3, <1>4 DEF Inv

\* With nothing new in the queues what was told stays told.
LEMMA ToldStays ==
  ASSUME NEW t \in Threads, Told(t), SameFor(broker, broker', t), history' = history, full' = full,
         compactions' = compactions
  PROVE  Told(t)'
  <1>1. Pending(t)' = Pending(t)
    BY DEF Pending, SameFor
  <1>2. Heard(history[t], Pending(t))' = Heard(history[t], Pending(t))
    BY <1>1
  <1> QED BY <1>2 DEF Told, SameFor

\* Enabling queues the helpers and a notice, and has the notice replayed.
LEMMA GoalEnable ==
  ASSUME All \notin Threads, Inv, NEW t \in Threads, NEW o \in Objectives, Enable(t, o)
  PROVE  Inv'
  <1>1. PICK resolved : resolved = IF o = "none" THEN goal[t].objective ELSE o
    OBVIOUS
  <1>2. PICK stored : stored = [enabled |-> TRUE, objective |-> resolved]
    OBVIOUS
  <1>3. /\ Command(t, TRUE) /\ goal' = [goal EXCEPT ![t] = stored]
        /\ broker' = EnqueueTurn(Notify(broker, t, Helpers("publish"), FALSE), t, Notice(resolved))
        /\ tasks' = tasks /\ index' = index
    BY <1>1, <1>2 DEF Enable, Recorded
  <1>4. TypeOK /\ IndexIsTasks
    BY DEF Inv
  <1>5. /\ goal \in [Threads -> [enabled : BOOLEAN, objective : Texts]] /\ broker \in Brokers
        /\ DOMAIN tasks = Threads /\ DOMAIN index = Threads
    BY <1>4 DEF TypeOK
  <1>6. resolved \in Texts
    BY <1>1, <1>5 DEF Texts
  <1>7. /\ goal' \in [Threads -> [enabled : BOOLEAN, objective : Texts]]
        /\ \A u \in Threads \ {t} : goal'[u].enabled = goal[u].enabled
    BY <1>2, <1>3, <1>5, <1>6
  <1>8. PICK c, d, no, b : /\ c = Helpers("publish") /\ d = Notice(resolved) /\ no = FALSE
                           /\ b = Notify(broker, t, c, no)
    OBVIOUS
  <1>9. c \in Announced /\ d \in Notices /\ no \in BOOLEAN /\ ~no
    BY <1>6, <1>8 DEF Announced, Notices
  <1>10. /\ b \in Brokers /\ b.epoch[t] = Append(broker.epoch[t], c)
         /\ b.updates[t] = Append(broker.updates[t], c)
         /\ \A u \in Threads \ {t} : SameFor(broker, b, u)
    <2>1. b = Notify(broker, t, c, no)
      BY <1>8
    <2> QED BY ONLY <1>5, <1>9, <2>1, t \in Threads, All \notin Threads, NotifyThread
  <1>11. /\ broker' \in Brokers /\ broker'.epoch = b.epoch /\ broker'.updates = b.updates
         /\ broker'.turn[t] # <<>> /\ broker'.replay[t] = d
         /\ \A u \in Threads \ {t} : SameFor(b, broker', u)
    <2>1. broker' = EnqueueTurn(b, t, d)
      BY <1>3, <1>8
    <2> QED BY ONLY <1>9, <1>10, <2>1, t \in Threads, EnqueueTurnIs
  <1>12. \A u \in Threads \ {t} : SameFor(broker, broker', u)
    BY <1>10, <1>11 DEF SameFor
  <1>13. IndexIsTasks'
    BY <1>3, <1>4 DEF IndexIsTasks
  <1>14. Told(t)'
    <2>1. d # NoContribution
      BY <1>8 DEF Notice, Contribution, NoContribution
    <2>2. history' = history /\ full' = full /\ compactions' = compactions
      BY <1>3 DEF Command
    <2>3. Pending(t)' = Append(Pending(t), c)
      BY <1>10, <1>11, <2>2 DEF Pending
    <2>4. Heard(history[t], Append(Pending(t), c))["goal_helpers"] = "on"
      BY <1>4, <1>8, PendingIs, ToldOfHelpers
    <2>5. Heard(history'[t], Pending(t)')["goal_helpers"] = "on"
      BY <2>2, <2>3, <2>4
    <2> QED BY <1>11, <2>1, <2>5 DEF Told
  <1> QED BY <1>3, <1>5, <1>7, <1>11, <1>12, <1>13, <1>14, CommandKeeps

\* What the removals of a disabled goal leave.
LEMMA RemoveNoticesIs ==
  ASSUME All \notin Threads, NEW b \in Brokers, NEW t \in Threads, NEW v, v = RemoveNotices(b, t)
  PROVE  v \in Brokers /\ \A u \in Threads \ {t} : SameFor(b, v, u)
  <1>1. PICK c, d, w : c = Helpers("remove") /\ d = ModeRemoved /\ w = Notify(b, t, c, FALSE)
    OBVIOUS
  <1>2. c \in Announced /\ d \in Announced /\ FALSE \in BOOLEAN
    BY <1>1 DEF Announced
  <1>3. w \in Brokers /\ \A u \in Threads \ {t} : SameFor(b, w, u)
    BY <1>1, <1>2, NotifyThread
  <1>4. v = Notify(w, t, d, FALSE)
    BY <1>1 DEF RemoveNotices
  <1>5. v \in Brokers /\ \A u \in Threads \ {t} : SameFor(w, v, u)
    BY <1>2, <1>3, <1>4, NotifyThread
  <1> QED BY <1>3, <1>5 DEF SameFor

\* Disabling leaves nothing to be known.
LEMMA GoalDisable == ASSUME All \notin Threads, Inv, NEW t \in Threads, Disable(t) PROVE Inv'
  <1>1. PICK stored : stored = [goal[t] EXCEPT !.enabled = FALSE]
    OBVIOUS
  <1>2. /\ Command(t, FALSE) /\ goal' = [goal EXCEPT ![t] = stored]
        /\ broker' = ClearReplay(RemoveNotices(broker, t), t) /\ tasks' = tasks /\ index' = index
    BY <1>1 DEF Disable, Recorded
  <1>3. TypeOK /\ IndexIsTasks
    BY DEF Inv
  <1>4. /\ goal \in [Threads -> [enabled : BOOLEAN, objective : Texts]] /\ broker \in Brokers
        /\ DOMAIN tasks = Threads /\ DOMAIN index = Threads
    BY <1>3 DEF TypeOK
  <1>5. /\ goal' \in [Threads -> [enabled : BOOLEAN, objective : Texts]] /\ ~goal'[t].enabled
        /\ \A u \in Threads \ {t} : goal'[u].enabled = goal[u].enabled
    BY <1>1, <1>2, <1>4
  <1>6. PICK b : b = RemoveNotices(broker, t)
    OBVIOUS
  <1>7. b \in Brokers /\ \A u \in Threads \ {t} : SameFor(broker, b, u)
    BY <1>4, <1>6, RemoveNoticesIs
  <1>8. broker' \in Brokers /\ \A u \in Threads \ {t} : SameFor(b, broker', u)
    BY <1>2, <1>6, <1>7, ClearReplayIs
  <1>9. \A u \in Threads \ {t} : SameFor(broker, broker', u)
    BY <1>7, <1>8 DEF SameFor
  <1>10. IndexIsTasks'
    BY <1>2, <1>3 DEF IndexIsTasks
  <1>11. FALSE \in BOOLEAN
    OBVIOUS
  <1> QED BY <1>2, <1>4, <1>5, <1>8, <1>9, <1>10, <1>11, CommandKeeps

\* So does resetting.
LEMMA GoalReset ==
  ASSUME All \notin Threads, Inv, NEW t \in Threads, NEW o \in Objectives, Reset(t, o)
  PROVE  Inv'
  <1>1. PICK stored, none : stored = [enabled |-> FALSE, objective |-> o] /\ none = <<>>
    OBVIOUS
  <1>2. /\ Command(t, FALSE) /\ goal' = [goal EXCEPT ![t] = stored]
        /\ broker' = RemoveNotices(broker, t)
        /\ tasks' = [tasks EXCEPT ![t] = none] /\ index' = [index EXCEPT ![t] = {}]
    BY <1>1 DEF Reset, Recorded
  <1>3. TypeOK /\ IndexIsTasks
    BY DEF Inv
  <1>4. /\ goal \in [Threads -> [enabled : BOOLEAN, objective : Texts]] /\ broker \in Brokers
        /\ DOMAIN tasks = Threads /\ DOMAIN index = Threads
    BY <1>3 DEF TypeOK
  <1>5. /\ goal' \in [Threads -> [enabled : BOOLEAN, objective : Texts]] /\ ~goal'[t].enabled
        /\ \A u \in Threads \ {t} : goal'[u].enabled = goal[u].enabled
    <2>1. o \in Texts
      BY DEF Texts
    <2> QED BY <1>1, <1>2, <1>4, <2>1
  <1>6. broker' \in Brokers /\ \A u \in Threads \ {t} : SameFor(broker, broker', u)
    BY <1>2, <1>4, RemoveNoticesIs
  <1>7. DOMAIN tasks' = Threads /\ DOMAIN index' = Threads
    BY <1>2, <1>4
  <1>8. IndexIsTasks'
    <2> SUFFICES ASSUME NEW u \in Threads
                 PROVE  index'[u] = {<<tasks'[u][id], id>> : id \in DOMAIN tasks'[u]}
      BY DEF IndexIsTasks
    <2>1. CASE u = t
      <3>1. index'[u] = {} /\ tasks'[u] = none /\ DOMAIN none = {}
        BY <1>1, <1>2, <1>4, <2>1
      <3> QED BY <3>1
    <2>2. CASE u # t
      <3>1. index'[u] = index[u] /\ tasks'[u] = tasks[u]
        BY <1>2, <2>2
      <3> QED BY <1>3, <3>1 DEF IndexIsTasks
    <2> QED BY <2>1, <2>2
  <1>9. FALSE \in BOOLEAN
    OBVIOUS
  <1> QED BY <1>2, <1>5, <1>6, <1>7, <1>8, <1>9, CommandKeeps

\* The objective alone concerns no queue.
LEMMA GoalSetObjective ==
  ASSUME Inv, NEW t \in Threads, NEW o \in Objectives, SetObjective(t, o) PROVE Inv'
  <1>1. /\ Command(t, FALSE) /\ goal' = [goal EXCEPT ![t].objective = o]
        /\ broker' = broker /\ tasks' = tasks /\ index' = index
    BY DEF SetObjective
  <1>2. TypeOK /\ IndexIsTasks
    BY DEF Inv
  <1>3. /\ goal \in [Threads -> [enabled : BOOLEAN, objective : Texts]] /\ broker \in Brokers
        /\ DOMAIN tasks = Threads /\ DOMAIN index = Threads
    BY <1>2 DEF TypeOK
  <1>4. /\ goal' \in [Threads -> [enabled : BOOLEAN, objective : Texts]]
        /\ \A u \in Threads : goal'[u].enabled = goal[u].enabled
    <2>1. o \in Texts
      BY DEF Texts
    <2> QED BY <1>1, <1>3, <2>1
  <1>5. \A u \in Threads : SameFor(broker, broker', u)
    BY <1>1 DEF SameFor
  <1>6. IndexIsTasks'
    BY <1>1, <1>2 DEF IndexIsTasks
  <1>7. FALSE \in BOOLEAN
    OBVIOUS
  <1>8. ASSUME kept'[t], goal'[t].enabled PROVE Told(t)'
    <2>1. kept[t] /\ history' = history /\ full' = full /\ compactions' = compactions
      BY <1>1, <1>2, <1>7, <1>8, CommandIs
    <2>2. Told(t)
      BY <1>4, <1>8, <2>1 DEF Inv, Informed
    <2> QED BY <1>5, <2>1, <2>2, ToldStays
  <1> QED BY <1>1, <1>3, <1>4, <1>5, <1>6, <1>7, <1>8, CommandKeeps

\* A task is put, or deleted: its row is replaced with it.
LEMMA TasksKeep ==
  ASSUME Inv, NEW t \in Threads, Command(t, FALSE), UNCHANGED <<broker, goal, metadata>>,
         NEW f, NEW rows, tasks' = [tasks EXCEPT ![t] = f], index' = [index EXCEPT ![t] = rows],
         rows = {<<f[i], i>> : i \in DOMAIN f}
  PROVE  Inv'
  <1>1. TypeOK /\ IndexIsTasks
    BY DEF Inv
  <1>2. /\ goal \in [Threads -> [enabled : BOOLEAN, objective : Texts]] /\ broker \in Brokers
        /\ DOMAIN tasks = Threads /\ DOMAIN index = Threads
    BY <1>1 DEF TypeOK
  <1>3. \A u \in Threads : SameFor(broker, broker', u) /\ goal'[u] = goal[u]
    BY DEF SameFor
  <1>4. DOMAIN tasks' = Threads /\ DOMAIN index' = Threads
    BY <1>2
  <1>5. IndexIsTasks'
    <2> SUFFICES ASSUME NEW u \in Threads
                 PROVE  index'[u] = {<<tasks'[u][i], i>> : i \in DOMAIN tasks'[u]}
      BY DEF IndexIsTasks
    <2>1. CASE u = t
      <3>1. index'[u] = rows /\ tasks'[u] = f
        BY <1>2, <2>1
      <3> QED BY <3>1
    <2>2. CASE u # t
      <3>1. index'[u] = index[u] /\ tasks'[u] = tasks[u]
        BY <2>2
      <3> QED BY <1>1, <3>1 DEF IndexIsTasks
    <2> QED BY <2>1, <2>2
  <1>6. FALSE \in BOOLEAN
    OBVIOUS
  <1>7. ASSUME kept'[t], goal'[t].enabled PROVE Told(t)'
    <2>1. kept[t] /\ history' = history /\ full' = full /\ compactions' = compactions
      BY <1>1, <1>6, <1>7, CommandIs
    <2>2. Told(t)
      BY <1>3, <1>7, <2>1 DEF Inv, Informed
    <2> QED BY <1>3, <2>1, <2>2, ToldStays
  <1>8. broker' \in Brokers /\ goal' \in [Threads -> [enabled : BOOLEAN, objective : Texts]]
    BY <1>2
  <1> QED BY <1>3, <1>4, <1>5, <1>6, <1>7, <1>8, CommandKeeps

\* A task is written with its row.
LEMMA GoalPutTask ==
  ASSUME Inv, NEW t \in Threads, NEW id, NEW status, PutTask(t, id, status) PROVE Inv'
  <1>1. PICK f, g, rows :
          /\ g = tasks[t]
          /\ f = [i \in DOMAIN g \cup {id} |-> IF i = id THEN status ELSE g[i]]
          /\ rows = {row \in index[t] : row[2] # id} \cup {<<status, id>>}
    OBVIOUS
  <1>2. /\ Command(t, FALSE) /\ UNCHANGED <<broker, goal, metadata>>
        /\ tasks' = [tasks EXCEPT ![t] = f] /\ index' = [index EXCEPT ![t] = rows]
    <2>1. t \in DOMAIN tasks /\ t \in DOMAIN index
      BY DEF Inv, TypeOK
    <2> QED BY <1>1, <2>1 DEF PutTask
  <1>3. f = [i \in DOMAIN g \cup {id} |-> IF i = id THEN status ELSE g[i]]
    BY <1>1
  <1>4. index[t] = {<<g[i], i>> : i \in DOMAIN g}
    BY <1>1 DEF Inv, IndexIsTasks
  <1>5. rows = {<<f[i], i>> : i \in DOMAIN f}
    <2>1. ASSUME NEW row \in rows PROVE row \in {<<f[i], i>> : i \in DOMAIN f}
      <3>1. CASE row = <<status, id>>
        <4>1. f[id] = status /\ id \in DOMAIN f
          BY <1>3
        <4> QED BY <3>1, <4>1
      <3>2. CASE row # <<status, id>>
        <4>1. row \in index[t] /\ row[2] # id
          BY <1>1, <3>2
        <4>2. PICK i \in DOMAIN g : row = <<g[i], i>>
          BY <1>4, <4>1
        <4>3. i # id
          BY <4>1, <4>2
        <4>4. f[i] = g[i] /\ i \in DOMAIN f
          BY <1>3, <4>2, <4>3
        <4> QED BY <4>2, <4>4
      <3> QED BY <3>1, <3>2
    <2>2. ASSUME NEW i \in DOMAIN f PROVE <<f[i], i>> \in rows
      <3>1. CASE i = id
        <4>1. f[i] = status
          BY <1>3, <3>1
        <4> QED BY <1>1, <3>1, <4>1
      <3>2. CASE i # id
        <4>1. f[i] = g[i] /\ i \in DOMAIN g
          BY <1>3, <3>2
        <4>2. PICK row : row = <<g[i], i>>
          OBVIOUS
        <4>3. row \in index[t] /\ row[2] # id
          BY <1>4, <3>2, <4>1, <4>2
        <4> QED BY <1>1, <4>1, <4>2, <4>3
      <3> QED BY <3>1, <3>2
    <2> QED BY <2>1, <2>2
  <1> QED BY <1>2, <1>5, TasksKeep

\* And deleted with it.
LEMMA GoalDeleteTask == ASSUME Inv, NEW t \in Threads, NEW id, DeleteTask(t, id) PROVE Inv'
  <1>1. PICK f, g, rows : /\ g = tasks[t] /\ f = [i \in DOMAIN g \ {id} |-> g[i]]
          /\ rows = {row \in index[t] : row[2] # id}
    OBVIOUS
  <1>2. /\ Command(t, FALSE) /\ UNCHANGED <<broker, goal, metadata>>
        /\ tasks' = [tasks EXCEPT ![t] = f] /\ index' = [index EXCEPT ![t] = rows]
    <2>1. t \in DOMAIN tasks /\ t \in DOMAIN index
      BY DEF Inv, TypeOK
    <2> QED BY <1>1, <2>1 DEF DeleteTask
  <1>3. index[t] = {<<g[i], i>> : i \in DOMAIN g}
    BY <1>1 DEF Inv, IndexIsTasks
  <1>4. rows = {<<f[i], i>> : i \in DOMAIN f}
    <2>1. ASSUME NEW row \in rows PROVE row \in {<<f[i], i>> : i \in DOMAIN f}
      <3>1. row \in index[t] /\ row[2] # id
        BY <1>1
      <3>2. PICK i \in DOMAIN g : row = <<g[i], i>>
        BY <1>3, <3>1
      <3>3. i # id
        BY <3>1, <3>2
      <3>4. f[i] = g[i] /\ i \in DOMAIN f
        BY <1>1, <3>2, <3>3
      <3> QED BY <3>2, <3>4
    <2>2. ASSUME NEW i \in DOMAIN f PROVE <<f[i], i>> \in rows
      <3>1. f[i] = g[i] /\ i \in DOMAIN g /\ i # id
        BY <1>1
      <3>2. PICK row : row = <<g[i], i>>
        OBVIOUS
      <3>3. row \in index[t] /\ row[2] # id
        BY <1>3, <3>1, <3>2
      <3> QED BY <1>1, <3>1, <3>2, <3>3
    <2> QED BY <2>1, <2>2
  <1> QED BY <1>2, <1>4, TasksKeep

\* News for everybody do not concern the goal.
LEMMA GoalPublishNews == ASSUME All \notin Threads, Inv, PublishNews PROVE Inv'
  <1>1. /\ broker' = Notify(broker, All, News, FALSE)
        /\ goal' = goal /\ tasks' = tasks /\ index' = index /\ full' = full /\ turnStage' = turnStage
        /\ history' = history /\ fresh' = fresh /\ kept' = kept /\ compactions' = compactions
    BY DEF PublishNews
  <1>2. TypeOK /\ IndexIsTasks
    BY DEF Inv
  <1>3. broker' \in Brokers /\ \A u \in Threads : SameFor(broker, broker', u)
    BY <1>1, <1>2, NotifyAll DEF TypeOK
  <1>4. TypeOK'
    BY <1>1, <1>2, <1>3 DEF TypeOK
  <1>5. IndexIsTasks'
    BY <1>1, <1>2 DEF IndexIsTasks
  <1>6. ASSUME NEW u \in Threads PROVE Informed(u)'
    <2>1. Informed(u)
      BY DEF Inv
    <2> QED BY <1>1, <1>3, <2>1, OtherThread
  <1> QED BY <1>4, <1>5, <1>6 DEF Inv

\* The end of a turn queues nothing.
LEMMA GoalEndTurn == ASSUME Inv, NEW t \in Threads, EndTurn(t) PROVE Inv'
  <1>1. /\ broker' = broker /\ goal' = goal /\ tasks' = tasks /\ index' = index /\ full' = full
        /\ history' = history /\ kept' = kept /\ compactions' = compactions
        /\ turnStage' = [turnStage EXCEPT ![t] = "idle"] /\ fresh' = [fresh EXCEPT ![t] = FALSE]
    BY DEF EndTurn
  <1>2. TypeOK /\ IndexIsTasks
    BY DEF Inv
  <1>3. TypeOK'
    BY <1>1, <1>2 DEF TypeOK
  <1>4. IndexIsTasks'
    BY <1>1, <1>2 DEF IndexIsTasks
  <1>5. \A u \in Threads : SameFor(broker, broker', u)
    BY <1>1 DEF SameFor
  <1>6. Informed(t)'
    <2>1. turnStage'[t] = "idle"
      BY <1>1, <1>2 DEF TypeOK
    <2>2. Settled(t)'
      BY <2>1 DEF Settled
    <2>3. Told(t) => Told(t)'
      BY <1>1, <1>5, ToldStays
    <2> QED BY <1>1, <2>2, <2>3 DEF Inv, Informed
  <1>7. ASSUME NEW u \in Threads \ {t} PROVE Informed(u)'
    <2>1. Informed(u)
      BY DEF Inv
    <2>2. turnStage'[u] = turnStage[u] /\ fresh'[u] = fresh[u]
      BY <1>1
    <2> QED BY <1>1, <1>5, <2>1, <2>2, OtherThread
  <1> QED BY <1>3, <1>4, <1>6, <1>7 DEF Inv

\* After a compaction the notice is replayed and the helpers are published again.
LEMMA GoalCompact == ASSUME Inv, NEW t \in Threads, Compact(t) PROVE Inv'
  <1>1. /\ broker' = broker /\ goal' = goal /\ tasks' = tasks /\ index' = index
        /\ turnStage' = turnStage /\ kept' = kept
        /\ compactions' = [compactions EXCEPT ![t] = @ + 1] /\ full' = [full EXCEPT ![t] = FALSE]
        /\ history' = [history EXCEPT ![t] = Untold] /\ fresh' = [fresh EXCEPT ![t] = FALSE]
    BY DEF Compact
  <1>2. TypeOK /\ IndexIsTasks
    BY DEF Inv
  <1>3. /\ full \in [Threads -> BOOLEAN] /\ history \in [Threads -> Histories]
        /\ fresh \in [Threads -> BOOLEAN] /\ compactions \in [Threads -> Nat]
    BY <1>2 DEF TypeOK
  <1>4. /\ full' \in [Threads -> BOOLEAN] /\ ~full'[t]
        /\ fresh' \in [Threads -> BOOLEAN] /\ ~fresh'[t]
        /\ compactions' \in [Threads -> Nat] /\ compactions'[t] > 0
        /\ \A u \in Threads \ {t} : full'[u] = full[u] /\ fresh'[u] = fresh[u]
                                    /\ compactions'[u] = compactions[u]
    BY <1>1, <1>3
  <1>5. /\ history' \in [Threads -> Histories]
        /\ \A u \in Threads \ {t} : history'[u] = history[u]
    <2>1. Untold \in Histories
      BY DEF Untold, Histories
    <2> QED BY <1>1, <1>3, <2>1
  <1>6. TypeOK'
    BY <1>1, <1>2, <1>4, <1>5 DEF TypeOK
  <1>7. IndexIsTasks'
    BY <1>1, <1>2 DEF IndexIsTasks
  <1>8. Informed(t)'
    <2>1. Settled(t)'
      BY <1>4 DEF Settled
    <2>2. Told(t) => Told(t)'
      <3>1. compactions'[t] # 0
        BY <1>4
      <3> QED BY <1>1, <1>4, <3>1 DEF Told
    <2> QED BY <1>1, <2>1, <2>2 DEF Inv, Informed
  <1>9. ASSUME NEW u \in Threads \ {t} PROVE Informed(u)'
    <2>1. Informed(u) /\ SameFor(broker, broker', u)
      BY <1>1 DEF Inv, SameFor
    <2> QED BY <1>1, <1>4, <1>5, <2>1, OtherThread
  <1> QED BY <1>6, <1>7, <1>8, <1>9 DEF Inv

\* A process that starts has enabled no goal.
LEMMA GoalRestart == ASSUME Inv, Restart PROVE Inv'
  <1>1. /\ broker' = EmptyBroker /\ goal' = goal /\ tasks' = tasks /\ index' = index /\ full' = full
        /\ turnStage' = [t \in Threads |-> "idle"] /\ fresh' = [t \in Threads |-> FALSE]
        /\ kept' = [t \in Threads |-> FALSE] /\ history' = history /\ compactions' = compactions
    BY DEF Restart
  <1>2. TypeOK'
    BY <1>1, EmptyIsBroker DEF Inv, TypeOK
  <1>3. IndexIsTasks'
    BY <1>1 DEF Inv, IndexIsTasks
  <1>4. \A t \in Threads : Informed(t)'
    BY <1>1 DEF Informed, Settled
  <1> QED BY <1>2, <1>3, <1>4 DEF Inv

\* The turn's items are the second half of its context: then all is known.
LEMMA GoalTurnItems == ASSUME Inv, NEW t \in Threads, TurnItems(t) PROVE Inv'
  <1>1. /\ turnStage[t] = "prepared" /\ full[t]
        /\ history' = [history EXCEPT ![t] = Heard(history[t], broker.turn[t])]
        /\ broker' = ConsumeTurn(broker, t) /\ turnStage' = [turnStage EXCEPT ![t] = "sent"]
        /\ goal' = goal /\ tasks' = tasks /\ index' = index /\ full' = full /\ fresh' = fresh
        /\ kept' = kept /\ compactions' = compactions
    BY DEF TurnItems, HearAll, TurnTaken
  <1>2. TypeOK /\ IndexIsTasks /\ Informed(t)
    BY DEF Inv
  <1>3. /\ broker \in Brokers /\ history \in [Threads -> Histories]
        /\ turnStage \in [Threads -> {"idle", "prepared", "sent"}]
    BY <1>2 DEF TypeOK
  <1>4. history[t] \in Histories /\ broker.turn[t] \in Seq(Notices)
    BY <1>2, PendingIs
  <1>5. PICK now : now = Heard(history[t], broker.turn[t])
    OBVIOUS
  <1>6. /\ now \in Histories /\ now["goal_helpers"] = history[t]["goal_helpers"]
        /\ broker.turn[t] # <<>> => now["goal_mode"] = "on"
        /\ broker.turn[t] = <<>> => now = history[t]
    <2>1. broker.turn[t] \in Seq(Said)
      <3>1. Notices \subseteq Said
        BY DEF Said
      <3> QED BY <1>4, <3>1, SeqMonotonic
    <2>2. now \in Histories
      BY <1>4, <1>5, <2>1, HeardIs
    <2>3. broker.turn[t] = <<>> => now = history[t]
      BY <1>4, <1>5, HeardNothing
    <2> QED BY <1>4, <1>5, <2>2, <2>3, HeardNotices
  <1>7. /\ broker' \in Brokers /\ broker'.epoch = broker.epoch /\ broker'.updates = broker.updates
        /\ broker'.turn[t] = <<>> /\ broker'.replay[t] = broker.replay[t]
        /\ \A u \in Threads \ {t} : SameFor(broker, broker', u)
    BY <1>1, <1>3, ConsumeTurnIs
  <1>8. /\ history' \in [Threads -> Histories] /\ history'[t] = now
        /\ turnStage' \in [Threads -> {"idle", "prepared", "sent"}] /\ turnStage'[t] = "sent"
        /\ \A u \in Threads \ {t} : history'[u] = history[u] /\ turnStage'[u] = turnStage[u]
    BY <1>1, <1>3, <1>5, <1>6
  <1>9. TypeOK'
    BY <1>1, <1>2, <1>7, <1>8 DEF TypeOK
  <1>10. IndexIsTasks'
    BY <1>1, <1>2 DEF IndexIsTasks
  <1>11. Informed(t)'
    <2> SUFFICES ASSUME kept[t] PROVE Informed(t)'
      BY <1>1, <1>8 DEF Informed, Settled
    <2>1. broker.updates[t] = <<>>
      BY <1>1, <1>2 DEF Informed, Settled
    <2>2. Settled(t)'
      BY <1>1, <1>7, <1>8, <2>1 DEF Settled
    <2>3. ASSUME goal[t].enabled PROVE Told(t)'
      <3>1. Told(t)
        BY <1>2, <2>3 DEF Informed
      <3>2. Pending(t) = <<>> /\ Pending(t)' = <<>>
        BY <1>1, <1>7, <2>1 DEF Pending
      <3>3. Heard(history[t], Pending(t)) = history[t]
        BY <1>4, <3>2, HeardNothing
      <3>4. Heard(history[t], Pending(t))' = now
        <4>1. Heard(now, <<>>) = now
          BY <1>6, HeardNothing
        <4> QED BY <1>8, <3>2, <4>1
      <3>5. history[t]["goal_helpers"] = "on" /\ (broker.turn[t] # <<>> \/ history[t]["goal_mode"] = "on")
        BY <1>1, <3>1, <3>3 DEF Told
      <3>6. now["goal_helpers"] = "on" /\ now["goal_mode"] = "on"
        BY <1>6, <3>5
      <3> QED BY <1>1, <1>7, <3>1, <3>4, <3>6 DEF Told
    <2> QED BY <1>1, <2>2, <2>3 DEF Informed
  <1>12. ASSUME NEW u \in Threads \ {t} PROVE Informed(u)'
    <2>1. Informed(u)
      BY DEF Inv
    <2> QED BY <1>1, <1>7, <1>8, <2>1, OtherThread
  <1> QED BY <1>9, <1>10, <1>11, <1>12 DEF Inv

\* What both halves of the epoch's context do besides telling.
LEMMA EpochKeeps ==
  ASSUME Inv, NEW t \in Threads, turnStage[t] = "idle" \/ ~full[t],
         turnStage' = [turnStage EXCEPT ![t] = IF @ = "idle" THEN "prepared" ELSE @],
         fresh' = [fresh EXCEPT ![t] = turnStage[t] # "sent"],
         UNCHANGED <<goal, tasks, index, metadata, kept, commands, compactions, restarts>>,
         NEW now \in Histories, history' = [history EXCEPT ![t] = now],
         full' = [full EXCEPT ![t] = TRUE], broker' \in Brokers, broker'.updates[t] = <<>>,
         \A u \in Threads \ {t} : SameFor(broker, broker', u),
         kept[t] /\ goal[t].enabled =>
             /\ broker'.replay[t] # NoContribution /\ now["goal_helpers"] = "on"
             /\ broker'.turn[t] # <<>> \/ now["goal_mode"] = "on"
  PROVE  Inv'
  <1>1. TypeOK /\ IndexIsTasks
    BY DEF Inv
  <1>2. /\ full \in [Threads -> BOOLEAN] /\ history \in [Threads -> Histories]
        /\ fresh \in [Threads -> BOOLEAN] /\ turnStage \in [Threads -> {"idle", "prepared", "sent"}]
    BY <1>1 DEF TypeOK
  <1>3. PICK stage, new : /\ stage = (IF turnStage[t] = "idle" THEN "prepared" ELSE turnStage[t])
                          /\ new = (turnStage[t] # "sent")
    OBVIOUS
  <1>4. stage \in {"prepared", "sent"} /\ new \in BOOLEAN /\ (new => stage = "prepared")
    BY <1>2, <1>3
  <1>5. /\ turnStage' = [turnStage EXCEPT ![t] = stage] /\ fresh' = [fresh EXCEPT ![t] = new]
    BY <1>2, <1>3
  <1>6. /\ full' \in [Threads -> BOOLEAN] /\ full'[t] /\ history' \in [Threads -> Histories] /\ history'[t] = now
        /\ fresh' \in [Threads -> BOOLEAN] /\ fresh'[t] = new
        /\ turnStage' \in [Threads -> {"idle", "prepared", "sent"}] /\ turnStage'[t] = stage
        /\ \A u \in Threads \ {t} : /\ full'[u] = full[u] /\ history'[u] = history[u]
                                    /\ fresh'[u] = fresh[u] /\ turnStage'[u] = turnStage[u]
    BY <1>2, <1>4, <1>5
  <1>7. TypeOK'
    BY <1>1, <1>6 DEF TypeOK
  <1>8. IndexIsTasks'
    BY <1>1 DEF IndexIsTasks
  <1>9. Informed(t)'
    <2>1. Settled(t)'
      <3>1. ~(turnStage'[t] = "sent" /\ fresh'[t])
        BY <1>4, <1>6
      <3> QED BY <3>1 DEF Settled
    <2>2. ASSUME kept[t], goal[t].enabled PROVE Told(t)'
      <3>1. Pending(t)' = <<>>
        BY <1>6 DEF Pending
      <3>2. Heard(now, <<>>) = now
        BY HeardNothing
      <3>3. Heard(history[t], Pending(t))' = now
        BY <1>6, <3>1, <3>2
      <3> QED BY <1>6, <2>2, <3>3 DEF Told
    <2> QED BY <2>1, <2>2 DEF Informed
  <1>10. ASSUME NEW u \in Threads \ {t} PROVE Informed(u)'
    <2>1. Informed(u)
      BY DEF Inv
    <2> QED BY <1>6, <2>1, OtherThread
  <1> QED BY <1>7, <1>8, <1>9, <1>10 DEF Inv

\* News of the epoch are heard and leave both queues.
LEMMA GoalEpochUpdate ==
  ASSUME All \notin Threads, Inv, NEW t \in Threads, EpochItems(t), EpochUpdate(t) PROVE Inv'
  <1>1. TypeOK /\ broker \in Brokers /\ full \in [Threads -> BOOLEAN]
    BY DEF Inv, TypeOK
  <1>2. PICK now : now = Heard(history[t], UpdatesTaken(broker, t))
    OBVIOUS
  <1>3. /\ full[t] /\ history' = [history EXCEPT ![t] = now]
        /\ broker' = ConsumeUpdates(broker, t) /\ full' = full
    BY <1>2 DEF EpochUpdate, HearAll
  <1>4. /\ broker' \in Brokers /\ broker'.turn = broker.turn /\ broker'.replay = broker.replay
        /\ broker'.updates[t] = <<>> /\ \A u \in Threads \ {t} : SameFor(broker, broker', u)
    BY <1>1, <1>3, ConsumeUpdatesIs
  <1>5. now = Heard(history[t], Pending(t)) /\ now \in Histories
    <2>1. history[t] \in Histories /\ Pending(t) \in Seq(Said)
      BY <1>1, PendingIs
    <2>2. broker.updates \in Queues
      BY <1>1, BrokerShape
    <2>3. now = Heard(history[t], broker.updates[t])
      BY <1>2, <2>1, <2>2, HeardOfBoth DEF UpdatesTaken
    <2>4. now = Heard(history[t], Pending(t))
      BY <1>3, <2>3 DEF Pending
    <2> QED BY <2>1, <2>4, HeardIs
  <1>6. kept[t] /\ goal[t].enabled =>
             /\ broker'.replay[t] # NoContribution /\ now["goal_helpers"] = "on"
             /\ broker'.turn[t] # <<>> \/ now["goal_mode"] = "on"
    BY <1>3, <1>4, <1>5 DEF Inv, Informed, Told
  <1>7. full' = [full EXCEPT ![t] = TRUE]
    BY <1>1, <1>3
  <1>8. /\ turnStage[t] = "idle" \/ ~full[t]
        /\ turnStage' = [turnStage EXCEPT ![t] = IF @ = "idle" THEN "prepared" ELSE @]
        /\ fresh' = [fresh EXCEPT ![t] = turnStage[t] # "sent"]
        /\ UNCHANGED <<goal, tasks, index, metadata, kept, commands, compactions, restarts>>
    BY DEF EpochItems
  <1> QED BY <1>3, <1>4, <1>5, <1>6, <1>7, <1>8, EpochKeeps

\* What a full epoch context takes from a broker that was made made: of an enabled
\* goal with something to replay, the notice is queued and the helpers are heard.
LEMMA ReadyIs ==
  ASSUME All \notin Threads, Inv, NEW t \in Threads, ~full[t], NEW prepared, NEW made,
         prepared = IF compactions[t] > 0 THEN AfterCompaction(broker, t) ELSE broker,
         made = Refreshed(prepared, t)
  PROVE  /\ made \in Brokers /\ \A u \in Threads \ {t} : SameFor(broker, made, u)
         /\ kept[t] /\ goal[t].enabled =>
               /\ made.replay[t] # NoContribution /\ made.turn[t] # <<>>
               /\ Heard(history[t], made.epoch[t])["goal_helpers"] = "on"
  <1>1. TypeOK /\ broker \in Brokers /\ goal[t].enabled \in BOOLEAN
    BY DEF Inv, TypeOK
  <1>2. /\ prepared \in Brokers /\ \A u \in Threads \ {t} : SameFor(broker, prepared, u)
        /\ prepared.replay[t] = broker.replay[t]
        /\ ~(compactions[t] > 0) => prepared = broker
        /\ compactions[t] > 0 =>
              /\ prepared.epoch[t] = <<>> /\ prepared.epoch[All] = <<>>
              /\ broker.replay[t] # NoContribution => prepared.turn[t] # <<>>
    <2>1. CASE ~(compactions[t] > 0)
      <3>1. prepared = broker
        BY <2>1
      <3> QED BY <1>1, <2>1, <3>1 DEF SameFor
    <2>2. CASE compactions[t] > 0
      <3>1. PICK b : b = ReplayAfterCompaction(broker, t)
        OBVIOUS
      <3>2. prepared = ClearEpoch(b, t)
        BY <2>2, <3>1 DEF AfterCompaction
      <3>3. /\ b \in Brokers /\ (broker.replay[t] # NoContribution => b.turn[t] # <<>>)
            /\ b.replay[t] = broker.replay[t] /\ \A u \in Threads \ {t} : SameFor(broker, b, u)
        BY <1>1, <3>1, ReplayIs
      <3>4. /\ prepared \in Brokers /\ prepared.turn = b.turn /\ prepared.replay = b.replay
            /\ prepared.epoch[t] = <<>> /\ prepared.epoch[All] = <<>>
            /\ \A u \in Threads \ {t} : SameFor(b, prepared, u)
        BY <3>2, <3>3, ClearEpochIs
      <3>5. \A u \in Threads \ {t} : SameFor(broker, prepared, u)
        BY <3>3, <3>4 DEF SameFor
      <3> QED BY <2>2, <3>3, <3>4, <3>5
    <2> QED BY <2>1, <2>2
  <1>3. CASE ~goal[t].enabled
    <2>1. made = prepared
      BY <1>3 DEF Refreshed
    <2> QED BY <1>2, <1>3, <2>1
  <1>4. CASE goal[t].enabled
    <2>1. PICK c, hushed : c = Helpers("publish") /\ hushed = ("goal" \in PluginsWithPendingEpoch(prepared, t))
      OBVIOUS
    <2>2. c \in Announced /\ hushed \in BOOLEAN
      BY <2>1 DEF Announced
    <2>3. made = Notify(prepared, t, c, hushed)
      BY <1>4, <2>1 DEF Refreshed
    <2>4. /\ made \in Brokers /\ made.turn = prepared.turn /\ made.replay = prepared.replay
          /\ ~hushed => made.epoch[t] = Append(prepared.epoch[t], c)
          /\ hushed => made = prepared
          /\ \A u \in Threads \ {t} : SameFor(prepared, made, u)
      BY ONLY <1>2, <2>2, <2>3, t \in Threads, All \notin Threads, NotifyThread
    <2>5. \A u \in Threads \ {t} : SameFor(broker, made, u)
      BY <1>2, <2>4 DEF SameFor
    <2>6. ASSUME kept[t]
          PROVE  /\ made.replay[t] # NoContribution /\ made.turn[t] # <<>>
                 /\ Heard(history[t], made.epoch[t])["goal_helpers"] = "on"
      <3>1. Told(t)
        BY <1>4, <2>6 DEF Inv, Informed
      <3>2. broker.replay[t] # NoContribution
        BY <3>1 DEF Told
      <3>3. made.turn[t] # <<>>
        <4>1. compactions[t] > 0 \/ broker.turn[t] # <<>>
          BY <3>1 DEF Told
        <4> QED BY <1>2, <2>4, <3>2, <4>1
      <3>4. ASSUME ~hushed PROVE Heard(history[t], made.epoch[t])["goal_helpers"] = "on"
        <4>1. prepared.epoch[t] \in Seq(Said) /\ history[t] \in Histories
          <5>1. prepared.epoch[t] \in Seq(Announced \cup {News})
            BY <1>2, BrokerShape, QueueShape
          <5>2. Announced \cup {News} \subseteq Said
            BY DEF Said
          <5> QED BY <1>1, <5>1, <5>2, SeqMonotonic, PendingIs
        <4>2. Heard(history[t], Append(prepared.epoch[t], c))["goal_helpers"] = "on"
          BY <2>1, <4>1, ToldOfHelpers
        <4> QED BY <2>4, <3>4, <4>2
      <3>5. ASSUME hushed PROVE Heard(history[t], made.epoch[t])["goal_helpers"] = "on"
        <4>1. compactions[t] = 0 /\ made = broker
          <5>1. ~(compactions[t] > 0)
            <6> SUFFICES ASSUME compactions[t] > 0 PROVE FALSE
              OBVIOUS
            <6>1. PICK e : e = <<>>
              OBVIOUS
            <6>2. PendingEpoch(prepared, t) = e \o e
              BY <1>2, <6>1 DEF PendingEpoch
            <6>3. e \o e = e
              BY <6>1
            <6>4. ToSet(e) = {}
              BY <6>1 DEF ToSet
            <6>5. PluginsWithPendingEpoch(prepared, t) = {}
              BY <6>2, <6>3, <6>4 DEF PluginsWithPendingEpoch
            <6> QED BY <2>1, <3>5, <6>5
          <5>2. compactions[t] \in Nat
            BY <1>1 DEF TypeOK
          <5> QED BY <1>2, <2>4, <3>5, <5>1, <5>2
        <4>2. Pending(t) = broker.epoch[t]
          BY DEF Pending
        <4> QED BY <3>1, <4>1, <4>2 DEF Told
      <3> QED BY <1>2, <2>4, <3>2, <3>3, <3>4, <3>5
    <2> QED BY <2>4, <2>5, <2>6
  <1> QED BY <1>1, <1>3, <1>4

\* A full context: what is queued, the replay and the helpers.
LEMMA GoalFullEpoch ==
  ASSUME All \notin Threads, Inv, NEW t \in Threads, EpochItems(t), FullEpoch(t) PROVE Inv'
  <1>1. PICK prepared : prepared = IF compactions[t] > 0 THEN AfterCompaction(broker, t) ELSE broker
    OBVIOUS
  <1>2. PICK made, now : made = Refreshed(prepared, t) /\ now = Heard(history[t], EpochTaken(made, t))
    OBVIOUS
  <1>3. /\ ~full[t] /\ history' = [history EXCEPT ![t] = now]
        /\ broker' = ClearEpoch(made, t) /\ full' = [full EXCEPT ![t] = TRUE]
    BY <1>1, <1>2 DEF FullEpoch, HearAll, ConsumeEpoch
  <1>4. /\ made \in Brokers /\ \A u \in Threads \ {t} : SameFor(broker, made, u)
        /\ kept[t] /\ goal[t].enabled =>
              /\ made.replay[t] # NoContribution /\ made.turn[t] # <<>>
              /\ Heard(history[t], made.epoch[t])["goal_helpers"] = "on"
    BY <1>1, <1>2, <1>3, ReadyIs
  <1>5. /\ broker' \in Brokers /\ broker'.turn = made.turn /\ broker'.replay = made.replay
        /\ broker'.updates[t] = <<>> /\ \A u \in Threads \ {t} : SameFor(made, broker', u)
    BY <1>3, <1>4, ClearEpochIs
  <1>6. \A u \in Threads \ {t} : SameFor(broker, broker', u)
    BY <1>4, <1>5 DEF SameFor
  <1>7. now = Heard(history[t], made.epoch[t]) /\ now \in Histories
    <2>1. history[t] \in Histories
      BY DEF Inv, TypeOK
    <2>2. made.epoch \in Queues
      BY <1>4, BrokerShape
    <2>3. now = Heard(history[t], made.epoch[t])
      BY <1>2, <2>1, <2>2, HeardOfBoth DEF EpochTaken, PendingEpoch
    <2>4. made.epoch[t] \in Seq(Said)
      <3>1. made.epoch[t] \in Seq(Announced \cup {News})
        BY <2>2, QueueShape
      <3>2. Announced \cup {News} \subseteq Said
        BY DEF Said
      <3> QED BY <3>1, <3>2, SeqMonotonic
    <2> QED BY <2>1, <2>3, <2>4, HeardIs
  <1>8. kept[t] /\ goal[t].enabled =>
             /\ broker'.replay[t] # NoContribution /\ now["goal_helpers"] = "on"
             /\ broker'.turn[t] # <<>> \/ now["goal_mode"] = "on"
    BY <1>4, <1>5, <1>7
  <1>9. /\ turnStage[t] = "idle" \/ ~full[t]
        /\ turnStage' = [turnStage EXCEPT ![t] = IF @ = "idle" THEN "prepared" ELSE @]
        /\ fresh' = [fresh EXCEPT ![t] = turnStage[t] # "sent"]
        /\ UNCHANGED <<goal, tasks, index, metadata, kept, commands, compactions, restarts>>
    BY DEF EpochItems
  <1> QED BY <1>3, <1>5, <1>6, <1>7, <1>8, <1>9, EpochKeeps

\* Every step keeps the invariant.
LEMMA GoalNext == ASSUME All \notin Threads, Inv, Next PROVE Inv'
  <1>1. ASSUME NEW t \in Threads, NEW o \in Objectives, Enable(t, o) \/ Reset(t, o) \/ SetObjective(t, o)
        PROVE  Inv'
    BY <1>1, GoalEnable, GoalReset, GoalSetObjective
  <1>2. ASSUME NEW t \in Threads, Disable(t) PROVE Inv'
    BY <1>2, GoalDisable
  <1>3. ASSUME NEW t \in Threads, NEW id \in Tasks, AddTask(t, id) \/ UpdateTask(t, id, "done") \/ DeleteTask(t, id)
        PROVE  Inv'
    BY <1>3, GoalPutTask, GoalDeleteTask DEF AddTask, UpdateTask
  <1>4. ASSUME NEW t \in Threads, EpochItems(t) PROVE Inv'
    BY <1>4, GoalFullEpoch, GoalEpochUpdate DEF EpochItems
  <1>5. ASSUME NEW t \in Threads, TurnItems(t) \/ EndTurn(t) \/ Compact(t) PROVE Inv'
    BY <1>5, GoalTurnItems, GoalEndTurn, GoalCompact
  <1>6. PublishNews => Inv'
    BY GoalPublishNews
  <1>7. Restart => Inv'
    BY GoalRestart
  <1> QED BY <1>1, <1>2, <1>3, <1>4, <1>5, <1>6, <1>7 DEF Next

\* And so does standing still.
LEMMA GoalStep == ASSUME All \notin Threads, Inv, [Next]_goalVars PROVE Inv'
  <1> SUFFICES ASSUME Inv, UNCHANGED goalVars PROVE Inv'
    BY GoalNext
  <1>1. /\ broker' = broker /\ goal' = goal /\ tasks' = tasks /\ index' = index /\ full' = full
        /\ turnStage' = turnStage /\ history' = history /\ fresh' = fresh /\ kept' = kept
        /\ compactions' = compactions
    BY DEF goalVars
  <1>2. TypeOK' /\ IndexIsTasks'
    BY <1>1 DEF Inv, TypeOK, IndexIsTasks
  <1>3. ASSUME NEW u \in Threads PROVE Informed(u)'
    <2>1. Informed(u) /\ SameFor(broker, broker', u)
      BY <1>1 DEF Inv, SameFor
    <2> QED BY <1>1, <2>1, OtherThread
  <1> QED BY <1>2, <1>3 DEF Inv

=============================================================================
