-------------------------- MODULE ConversationProofs --------------------------
(***************************************************************************)
(* What the parts of a conversation keep, for every value of the           *)
(* constants.  Each part's invariant is the Inv of its module; a behaviour *)
(* of the composition is one of a part, and each theorem at the end lifts  *)
(* the facts proved of it: the invariant holds at the start, every step    *)
(* keeps it, and it implies the property.                                  *)
(***************************************************************************)
EXTENDS Conversation, FiniteSets, FiniteSetTheorems, WellFoundedInduction, TLAPS

\* Less-than as a set of pairs.
Below == {ss \in Nat \X Nat : ss[1] < ss[2]}

\* Less-than on the naturals is well-founded.
LEMMA BelowWF == IsWellFoundedOn(Below, Nat)
  BY NatLessThanWellFounded DEF OpToRel, Below

\* A set of naturals has a least element.
LEMMA Least == ASSUME NEW N, N \subseteq Nat, N # {} PROVE \E x \in N : \A y \in N : y >= x
  <1>1. PICK x \in N : \A y \in N : <<y, x>> \notin Below
    <2> HIDE DEF Below
    <2> QED BY BelowWF, WFMin
  <1> SUFFICES ASSUME NEW y \in N PROVE y >= x
    BY <1>1
  <1>2. x \in Nat /\ y \in Nat /\ <<y, x>> \notin Below
    BY <1>1
  <1>3. <<y, x>>[1] = y /\ <<y, x>>[2] = x /\ <<y, x>> \in Nat \X Nat
    BY <1>2
  <1>4. ~(y < x)
    BY <1>2, <1>3 DEF Below
  <1> QED BY <1>2, <1>4

\* What holds at 0 and is passed on holds of every natural number.
LEMMA Upwards ==
  ASSUME NEW N, 0 \in N, \A m \in Nat : m \in N => m + 1 \in N
  PROVE  Nat \subseteq N
  <1> DEFINE Out == {m \in Nat : m \notin N}
  <1>1. SUFFICES ASSUME Out # {} PROVE FALSE
    OBVIOUS
  <1>2. PICK m \in Out : \A k \in Out : k >= m
    BY <1>1, Least
  <1>3. m # 0 /\ m \in Nat /\ m \notin N
    OBVIOUS
  <1>4. m - 1 \in Nat /\ ~(m - 1 >= m)
    BY <1>3
  <1>5. m - 1 \in N
    BY <1>2, <1>4
  <1>6. (m - 1) + 1 \in N /\ (m - 1) + 1 = m
    BY <1>4, <1>5
  <1> QED BY <1>3, <1>6

-----------------------------------------------------------------------------
(* Composer.  A confirmation that Ctrl+C armed and that has not run out is *)
(* the question on the screen; every key but Ctrl+C in the transcript      *)
(* takes both away, and time takes the question as it takes the            *)
(* confirmation.                                                           *)

\* The invariant holds at the start.
LEMMA ComposerInit == C!Init => C!Inv
  BY DEF C!Init, C!Inv, C!NotArmed

\* Ctrl+C acts on what is armed, hence on what was asked, or arms what it asks.
LEMMA ComposerCtrlC ==
  ASSUME C!Inv, C!CtrlC
  PROVE  C!Inv' /\ C!AsAsked
  <1> USE ComposerNone DEF C!Reports
  <1>1. CASE running /\ C!Armed("interrupt")
    <2>1. asked = "interrupt" /\ armed' = C!NotArmed /\ done' = "interrupt"
      BY <1>1 DEF C!Inv, C!CtrlC, C!Armed
    <2> QED BY <2>1 DEF C!Inv, C!NotArmed, C!AsAsked
  <1>2. CASE ~running /\ C!Armed("quit")
    <2>1. asked = "quit" /\ armed' = armed /\ asked' = asked /\ done' = "quit"
      BY <1>2 DEF C!Inv, C!CtrlC, C!Armed
    <2> QED BY <2>1 DEF C!Inv, C!AsAsked
  <1>3. CASE ~(running /\ C!Armed("interrupt")) /\ ~(~running /\ C!Armed("quit"))
    <2>1. PICK what \in {"quit", "interrupt"} : C!Arm(what) /\ done' = "ask"
      BY <1>3 DEF C!CtrlC
    <2> QED BY <2>1 DEF C!Inv, C!Arm, C!AsAsked
  <1> QED BY <1>1, <1>2, <1>3

\* A step that quits and interrupts nothing, and takes away or leaves what is armed with
\* what is asked.
LEMMA ComposerQuiet ==
  ASSUME C!Inv, done' \notin {"quit", "interrupt"},
         C!ClearArmed \/ UNCHANGED <<armed, asked>>
  PROVE  C!Inv' /\ C!AsAsked
  <1>1. CASE C!ClearArmed
    BY <1>1 DEF C!Inv, C!ClearArmed, C!NotArmed, C!AsAsked
  <1>2. CASE UNCHANGED <<armed, asked>>
    BY <1>2 DEF C!Inv, C!AsAsked
  <1> QED BY <1>1, <1>2

\* Every step keeps the invariant, and does what was asked.
LEMMA ComposerNext ==
  ASSUME C!Inv, [C!Next]_C!vars
  PROVE  C!Inv' /\ [C!AsAsked]_C!vars
  <1> USE DEF C!Reports
  <1>1. CASE UNCHANGED C!vars
    BY <1>1 DEF C!vars, C!Inv
  <1>2. ASSUME NEW c \in {"x", "space", "at", "slash"}, C!Typed(C!Sym(c)) PROVE C!Inv' /\ C!AsAsked
    BY <1>2, ComposerQuiet DEF C!Typed
  <1>3. CASE C!Pasted
    <2>1. CASE armed.for = "quit"
      BY <1>3, <2>1, ComposerQuiet DEF C!Pasted, C!ClearArmed
    <2>2. CASE armed.for # "quit"
      BY <1>3, <2>2, ComposerQuiet DEF C!Pasted
    <2> QED BY <2>1, <2>2
  <1>4. CASE C!NewLine \/ C!MoveKey \/ C!UpKey \/ C!DownKey \/ C!EscKey \/ C!TabKey
    BY <1>4, ComposerQuiet DEF C!NewLine, C!MoveKey, C!UpKey, C!DownKey, C!EscKey, C!TabKey
  <1>5. CASE C!DeleteKey
    BY <1>5, ComposerQuiet DEF C!DeleteKey, C!Delete
  <1>6. CASE C!PastedEnter \/ C!AcceptMention \/ C!ChooseCommand \/ C!NoMention \/ C!Command \/ C!Submit
    BY <1>6, ComposerQuiet DEF C!PastedEnter, C!AcceptMention, C!ChooseCommand, C!NoMention, C!Command, C!Submit
  <1>7. CASE C!CtrlC
    BY <1>7, ComposerCtrlC
  <1>8. CASE C!TimePasses
    BY <1>8 DEF C!TimePasses, C!Inv, C!AsAsked
  <1>9. CASE C!TurnChanges
    BY <1>9, ComposerQuiet DEF C!TurnChanges
  <1>10. CASE C!OpenView
    BY <1>10, ComposerQuiet DEF C!OpenView
  <1>11. CASE C!CloseView \/ (\E what \in {"hide", "worktree"} : C!AskDelete(what))
    BY <1>11, ComposerQuiet DEF C!CloseView, C!AskDelete, C!ViewVars
  <1>12. CASE C!AnswerYes \/ C!AnswerNo \/ C!ViewMode \/ C!ViewTyped \/ C!ViewDelete \/ C!ViewSubmit
    <2>1. CASE C!ViewMode
      <3>1. UNCHANGED <<armed, asked>> /\ done' = "moved"
        BY <2>1, Zenon DEF C!ViewMode, C!ViewVars
      <3> QED BY <3>1, ComposerQuiet
    <2>2. CASE C!AnswerYes \/ C!AnswerNo \/ C!ViewTyped \/ C!ViewDelete \/ C!ViewSubmit
      <3>1. UNCHANGED <<armed, asked>>
        BY <2>2 DEF C!AnswerYes, C!AnswerNo, C!ViewTyped, C!ViewDelete, C!ViewSubmit, C!ViewVars
      <3>2. done' \in {"deleted", "hidden", "kept", "typed", "sent"}
        BY <2>2 DEF C!AnswerYes, C!AnswerNo, C!ViewTyped, C!ViewDelete, C!ViewSubmit
      <3> QED BY <3>1, <3>2, ComposerQuiet
    <2> QED BY <1>12, <2>1, <2>2
  <1>13. CASE C!HideCurrent
    BY <1>13, ComposerQuiet DEF C!HideCurrent
  <1> QED
    BY <1>1, <1>2, <1>3, <1>4, <1>5, <1>6, <1>7, <1>8, <1>9, <1>10, <1>11, <1>12, <1>13 DEF C!Next

-----------------------------------------------------------------------------
(* The index of rule files.  It is made of concatenations of sequences and *)
(* of the levels of the tree, both of them recursive functions; that these *)
(* are there, and what they hold, is shown upwards from 0.                 *)

\* What FlattenSeq counts up to is there: the concatenations of the first ones.
LEMMA FlattenExists ==
  ASSUME NEW seqs, NEW n \in Nat
  PROVE  \E g : g = [i \in 1..n |-> IF i = 1 THEN seqs[i] ELSE g[i - 1] \o seqs[i]]
  <1> DEFINE Upto(m) == \E g : g = [i \in 1..m |-> IF i = 1 THEN seqs[i] ELSE g[i - 1] \o seqs[i]]
             Reached == {m \in Nat : Upto(m)}
  <1>1. Upto(0)
    <2> DEFINE g == [i \in 1..0 |-> seqs[i]]
    <2>1. g = [i \in 1..0 |-> IF i = 1 THEN seqs[i] ELSE g[i - 1] \o seqs[i]]
      OBVIOUS
    <2> HIDE DEF g
    <2> QED BY <2>1
  <1>2. ASSUME NEW k \in Nat, Upto(k) PROVE Upto(k + 1)
    <2>1. PICK f : f = [i \in 1..k |-> IF i = 1 THEN seqs[i] ELSE f[i - 1] \o seqs[i]]
      BY <1>2
    <2>2. PICK m \in Nat : m = k + 1
      OBVIOUS
    <2> DEFINE g == [i \in 1..m |-> IF i < m THEN f[i] ELSE IF i = 1 THEN seqs[i] ELSE f[i - 1] \o seqs[i]]
    <2>3. ASSUME NEW i \in 1..m PROVE g[i] = IF i = 1 THEN seqs[i] ELSE g[i - 1] \o seqs[i]
      <3>1. CASE i < m
        <4>1. g[i] = f[i] /\ i \in 1..k
          BY <2>2, <3>1
        <4>2. i # 1 => i - 1 \in 1..m /\ i - 1 < m /\ g[i - 1] = f[i - 1]
          BY <3>1
        <4>3. f[i] = IF i = 1 THEN seqs[i] ELSE f[i - 1] \o seqs[i]
          BY <2>1, <4>1
        <4> QED BY <4>1, <4>2, <4>3
      <3>2. CASE ~(i < m)
        <4>1. i = m
          BY <3>2
        <4>2. i # 1 => i - 1 \in 1..m /\ i - 1 < m /\ g[i - 1] = f[i - 1]
          BY <4>1
        <4>3. g[i] = IF i = 1 THEN seqs[i] ELSE f[i - 1] \o seqs[i]
          BY <4>1
        <4> QED BY <4>2, <4>3
      <3> QED BY <3>1, <3>2
    <2>4. g = [i \in 1..m |-> IF i = 1 THEN seqs[i] ELSE g[i - 1] \o seqs[i]]
      <3> DEFINE h == [i \in 1..m |-> IF i = 1 THEN seqs[i] ELSE g[i - 1] \o seqs[i]]
      <3>1. DOMAIN g = 1..m /\ DOMAIN h = 1..m /\ \A i \in 1..m : h[i] = IF i = 1 THEN seqs[i] ELSE g[i - 1] \o seqs[i]
        OBVIOUS
      <3>2. \A i \in 1..m : g[i] = h[i]
        BY <2>3, <3>1
      <3>3. g = [i \in 1..m |-> g[i]] /\ h = [i \in 1..m |-> h[i]]
        OBVIOUS
      <3> HIDE DEF g, h
      <3>4. g = h
        BY <3>2, <3>3
      <3> QED BY <3>4 DEF h
    <2> HIDE DEF g
    <2> QED BY <2>2, <2>4
  <1> HIDE DEF Upto
  <1>3. 0 \in Reached /\ \A k \in Nat : k \in Reached => k + 1 \in Reached
    BY <1>1, <1>2
  <1>4. n \in Reached
    <2> HIDE DEF Reached
    <2> QED BY <1>3, Upwards
  <1> QED BY <1>4 DEF Upto

\* FlattenSeq puts sequences behind each other: what one holds, the whole holds.
LEMMA FlattenHolds ==
  ASSUME NEW T, NEW seqs \in Seq(Seq(T))
  PROVE  /\ Ru!FlattenSeq(seqs) \in Seq(T)
         /\ \A i \in DOMAIN seqs : \A j \in DOMAIN seqs[i] :
               \E k \in DOMAIN Ru!FlattenSeq(seqs) : Ru!FlattenSeq(seqs)[k] = seqs[i][j]
  <1> DEFINE n == Len(seqs)
             flat == CHOOSE g : g = [i \in 1..n |-> IF i = 1 THEN seqs[i] ELSE g[i - 1] \o seqs[i]]
  <1>1. n \in Nat /\ DOMAIN seqs = 1..n /\ \A i \in 1..n : seqs[i] \in Seq(T)
    OBVIOUS
  <1>2. flat = [i \in 1..n |-> IF i = 1 THEN seqs[i] ELSE flat[i - 1] \o seqs[i]]
    <2> DEFINE Counts(g) == g = [i \in 1..n |-> IF i = 1 THEN seqs[i] ELSE g[i - 1] \o seqs[i]]
    <2>1. \E g : Counts(g)
      BY <1>1, FlattenExists
    <2>2. flat = CHOOSE g : Counts(g)
      OBVIOUS
    <2> HIDE DEF Counts, flat
    <2>3. Counts(flat)
      BY <2>1, <2>2
    <2> QED BY <2>3 DEF Counts
  <1>3. Ru!FlattenSeq(seqs) = IF n = 0 THEN seqs ELSE flat[n]
    BY DEF Ru!FlattenSeq
  <1> HIDE DEF flat, n
  <1> DEFINE Good(m) == /\ flat[m] \in Seq(T)
                        /\ \A i \in 1..m : \A j \in DOMAIN seqs[i] :
                              \E k \in DOMAIN flat[m] : flat[m][k] = seqs[i][j]
             Reached == {m \in Nat : m \in 1..n => Good(m)}
  <1>4. ASSUME NEW p \in Nat, p \in 1..n => Good(p), p + 1 \in 1..n PROVE Good(p + 1)
    <2>1. CASE p = 0
      <3>1. flat[1] = seqs[1] /\ 1 \in 1..n
        BY <1>1, <1>2, <1>4, <2>1
      <3> QED BY <1>1, <2>1, <3>1
    <2>2. CASE p # 0
      <3>1. PICK m \in Nat : m = p + 1
        OBVIOUS
      <3>2. m \in 1..n /\ m # 1 /\ p = m - 1 /\ p \in 1..n
        BY <1>1, <1>4, <2>2, <3>1
      <3>3. flat[m] = flat[p] \o seqs[m]
        BY <1>1, <1>2, <3>2
      <3>4. PICK a \in Seq(T) : a = flat[p]
        BY <1>4, <3>2
      <3>5. PICK b \in Seq(T) : b = seqs[m]
        BY <1>1, <3>2
      <3>6. /\ a \o b \in Seq(T) /\ DOMAIN a = 1..Len(a) /\ DOMAIN b = 1..Len(b)
            /\ DOMAIN (a \o b) = 1..(Len(a) + Len(b)) /\ Len(a) \in Nat /\ Len(b) \in Nat
            /\ \A i \in 1..Len(a) : (a \o b)[i] = a[i]
        OBVIOUS
      <3>7. \A j \in 1..Len(b) : Len(a) + j \in DOMAIN (a \o b) /\ (a \o b)[Len(a) + j] = b[j]
        BY <3>6
      <3>8. PICK c \in Seq(T) : c = a \o b
        BY <3>6
      <3>9. ASSUME NEW i \in 1..m, NEW j \in DOMAIN seqs[i] PROVE \E k \in DOMAIN c : c[k] = seqs[i][j]
        <4>1. CASE i = m
          BY <3>5, <3>6, <3>7, <3>8, <4>1
        <4>2. CASE i # m
          <5>1. i \in 1..p
            BY <3>1, <4>2
          <5>2. PICK k \in DOMAIN a : a[k] = seqs[i][j]
            BY <1>4, <3>2, <3>4, <5>1
          <5> QED BY <3>6, <3>8, <5>2
        <4> QED BY <4>1, <4>2
      <3>10. flat[m] = c
        BY <3>3, <3>4, <3>5, <3>8
      <3>11. Good(m)
        BY <3>9, <3>10
      <3> QED BY <3>1, <3>11
    <2> QED BY <2>1, <2>2
  <1> HIDE DEF Good
  <1>5. 0 \in Reached /\ \A p \in Nat : p \in Reached => p + 1 \in Reached
    BY <1>1, <1>4
  <1>6. n \in Reached
    <2> HIDE DEF Reached
    <2> QED BY <1>1, <1>5, Upwards
  <1>7. CASE n = 0
    BY <1>1, <1>3, <1>7
  <1>8. CASE n # 0
    <2>1. n \in 1..n /\ Good(n)
      BY <1>1, <1>6, <1>8
    <2> QED BY <1>1, <1>3, <1>8, <2>1 DEF Good
  <1> QED BY <1>7, <1>8

\* The levels of a project, as far as they are counted, are there.
LEMMA LevelsExist ==
  ASSUME NEW n \in Nat
  PROVE  \E g : g = [i \in 0..n |-> IF i = 0 THEN <<Ru!Root>> ELSE Ru!Below(g[i - 1])]
  <1> DEFINE Upto(m) == \E g : g = [i \in 0..m |-> IF i = 0 THEN <<Ru!Root>> ELSE Ru!Below(g[i - 1])]
             Reached == {m \in Nat : Upto(m)}
  <1>1. Upto(0)
    <2> DEFINE g == [i \in 0..0 |-> <<Ru!Root>>]
    <2>1. g = [i \in 0..0 |-> IF i = 0 THEN <<Ru!Root>> ELSE Ru!Below(g[i - 1])]
      OBVIOUS
    <2> HIDE DEF g
    <2> QED BY <2>1
  <1>2. ASSUME NEW k \in Nat, Upto(k) PROVE Upto(k + 1)
    <2>1. PICK f : f = [i \in 0..k |-> IF i = 0 THEN <<Ru!Root>> ELSE Ru!Below(f[i - 1])]
      BY <1>2
    <2>2. PICK m \in Nat : m = k + 1
      OBVIOUS
    <2> DEFINE g == [i \in 0..m |-> IF i < m THEN f[i] ELSE Ru!Below(f[i - 1])]
    <2>3. ASSUME NEW i \in 0..m PROVE g[i] = IF i = 0 THEN <<Ru!Root>> ELSE Ru!Below(g[i - 1])
      <3>1. i # 0 => i - 1 \in 0..m /\ i - 1 < m /\ g[i - 1] = f[i - 1]
        BY <2>2
      <3>2. CASE i < m
        <4>1. g[i] = f[i] /\ i \in 0..k
          BY <2>2, <3>2
        <4>2. f[i] = IF i = 0 THEN <<Ru!Root>> ELSE Ru!Below(f[i - 1])
          BY <2>1, <4>1
        <4> QED BY <3>1, <4>1, <4>2
      <3>3. CASE ~(i < m)
        <4>1. i = m /\ i # 0 /\ g[i] = Ru!Below(f[i - 1])
          BY <2>2, <3>3
        <4> QED BY <3>1, <4>1
      <3> QED BY <3>2, <3>3
    <2>4. g = [i \in 0..m |-> IF i = 0 THEN <<Ru!Root>> ELSE Ru!Below(g[i - 1])]
      <3> DEFINE h == [i \in 0..m |-> IF i = 0 THEN <<Ru!Root>> ELSE Ru!Below(g[i - 1])]
      <3>1. \A i \in 0..m : h[i] = IF i = 0 THEN <<Ru!Root>> ELSE Ru!Below(g[i - 1])
        OBVIOUS
      <3>2. \A i \in 0..m : g[i] = h[i]
        BY <2>3, <3>1
      <3>3. g = [i \in 0..m |-> g[i]] /\ h = [i \in 0..m |-> h[i]]
        OBVIOUS
      <3> HIDE DEF g, h
      <3>4. g = h
        BY <3>2, <3>3
      <3> QED BY <3>4 DEF h
    <2> HIDE DEF g
    <2> QED BY <2>2, <2>4
  <1> HIDE DEF Upto
  <1>3. 0 \in Reached /\ \A k \in Nat : k \in Reached => k + 1 \in Reached
    BY <1>1, <1>2
  <1>4. n \in Reached
    <2> HIDE DEF Reached
    <2> QED BY <1>3, Upwards
  <1> QED BY <1>4 DEF Upto

\* The subdirectories of directories are in what is below them.
LEMMA RulesBelow ==
  ASSUME NEW ds \in Seq(Ru!Dirs)
  PROVE  /\ Ru!Below(ds) \in Seq(Ru!Dirs)
         /\ \A i \in DOMAIN ds : \A j \in DOMAIN Children[ds[i]] :
               \E k \in DOMAIN Ru!Below(ds) : Ru!Below(ds)[k] = Children[ds[i]][j]
  <1> DEFINE seqs == [i \in DOMAIN ds |-> Children[ds[i]]]
  <1>1. DOMAIN ds = 1..Len(ds) /\ Len(ds) \in Nat /\ \A i \in DOMAIN ds : Children[ds[i]] \in Seq(Ru!Dirs)
    BY RulesTree
  <1>2. seqs \in Seq(Seq(Ru!Dirs)) /\ DOMAIN seqs = DOMAIN ds /\ \A i \in DOMAIN ds : seqs[i] = Children[ds[i]]
    BY <1>1
  <1> HIDE DEF seqs
  <1>3. Ru!Below(ds) = Ru!FlattenSeq(seqs)
    BY DEF Ru!Below, seqs
  <1> QED BY <1>2, <1>3, FlattenHolds

\* The bounds are numbers, and the root is a directory.
LEMMA RulesBounds == MaxDepth \in Nat /\ MaxEntries \in Nat /\ Ru!Root \in Ru!Dirs
  BY ONLY RulesTree, Zenon

\* The levels begin with the root, and each is what is below the one before.
LEMMA RulesLevels ==
  /\ Ru!Level[0] = <<Ru!Root>>
  /\ \A n \in 1..MaxDepth : Ru!Level[n] = Ru!Below(Ru!Level[n - 1])
  /\ \A n \in 0..MaxDepth : Ru!Level[n] \in Seq(Ru!Dirs)
  <1> DEFINE Counts(g) == g = [i \in 0..MaxDepth |-> IF i = 0 THEN <<Ru!Root>> ELSE Ru!Below(g[i - 1])]
  <1>1. \E g : Counts(g)
    BY RulesBounds, LevelsExist
  <1>2. Ru!Level = CHOOSE g : Counts(g)
    BY DEF Ru!Level
  <1>3. PICK f : f = Ru!Level
    OBVIOUS
  <1>4. Counts(f)
    <2> HIDE DEF Counts
    <2> QED BY <1>1, <1>2, <1>3
  <1>5. MaxDepth \in Nat /\ f[0] = <<Ru!Root>> /\ \A n \in 1..MaxDepth : f[n] = Ru!Below(f[n - 1])
    BY <1>4, RulesBounds
  <1> DEFINE Reached == {m \in Nat : m \in 0..MaxDepth => f[m] \in Seq(Ru!Dirs)}
  <1>6. 0 \in Reached
    <2>1. PICK r \in Ru!Dirs : f[0] = <<r>>
      BY <1>5, RulesBounds
    <2>2. f[0] \in Seq(Ru!Dirs)
      BY ONLY <2>1
    <2> QED BY ONLY <2>2
  <1>7. ASSUME NEW m \in Nat, m \in Reached PROVE m + 1 \in Reached
    <2>1. CASE m + 1 \in 0..MaxDepth
      <3>1. m \in 0..MaxDepth /\ m + 1 \in 1..MaxDepth /\ (m + 1) - 1 = m
        BY <1>5, <2>1
      <3>2. f[m] \in Seq(Ru!Dirs) /\ f[m + 1] = Ru!Below(f[m])
        BY <1>5, <1>7, <3>1
      <3> QED BY <3>2, RulesBelow
    <2>2. CASE m + 1 \notin 0..MaxDepth
      BY <2>2
    <2> QED BY <2>1, <2>2
  <1>8. Nat \subseteq Reached
    <2> HIDE DEF Reached
    <2> QED BY <1>6, <1>7, Upwards
  <1> QED BY <1>3, <1>5, <1>8

\* The index looks into every directory, or says that there are more.
LEMMA RulesIndexed ==
  /\ Ru!Indexed \in Seq(Ru!Dirs)
  /\ Ru!Below(Ru!Level[MaxDepth]) = <<>> =>
        \A d \in Ru!Dirs : \E i \in DOMAIN Ru!Indexed : Ru!Indexed[i] = d
  <1>1. MaxDepth \in Nat
    BY RulesBounds
  <1>2. PICK L : L = Ru!Level
    OBVIOUS
  <1>3. \A n \in 0..MaxDepth : L[n] \in Seq(Ru!Dirs)
    BY <1>2, RulesLevels
  <1>4. PICK ss : ss = [i \in 1..(MaxDepth + 1) |-> L[i - 1]]
    OBVIOUS
  <1>5. ss \in Seq(Seq(Ru!Dirs)) /\ DOMAIN ss = 1..(MaxDepth + 1)
    BY <1>1, <1>3, <1>4
  <1>6. ASSUME NEW n \in 0..MaxDepth PROVE n + 1 \in 1..(MaxDepth + 1) /\ ss[n + 1] = Ru!Level[n]
    <2>1. n + 1 \in 1..(MaxDepth + 1) /\ (n + 1) - 1 = n
      BY <1>1
    <2>2. ss[n + 1] = L[n]
      BY <1>4, <2>1
    <2> QED BY <1>2, <2>1, <2>2
  <1>7. Ru!Indexed = Ru!FlattenSeq(ss)
    BY <1>2, <1>4 DEF Ru!Indexed
  <1>8. Ru!Indexed \in Seq(Ru!Dirs)
    BY <1>5, <1>7, FlattenHolds
  <1>9. ASSUME NEW n \in 0..MaxDepth, NEW j \in DOMAIN Ru!Level[n]
        PROVE  \E i \in DOMAIN Ru!Indexed : Ru!Indexed[i] = Ru!Level[n][j]
    <2>1. PICK m \in DOMAIN ss : ss[m] = Ru!Level[n]
      BY <1>5, <1>6
    <2>2. PICK D : D = Ru!Dirs
      OBVIOUS
    <2>3. \A a \in DOMAIN ss : \A b \in DOMAIN ss[a] :
             \E k \in DOMAIN Ru!FlattenSeq(ss) : Ru!FlattenSeq(ss)[k] = ss[a][b]
      <3>1. ss \in Seq(Seq(D))
        BY <1>5, <2>2
      <3> QED BY ONLY <3>1, FlattenHolds
    <2> QED BY <1>7, <2>1, <2>3
  <1>10. ASSUME Ru!Below(Ru!Level[MaxDepth]) = <<>>
        PROVE  \A d \in Ru!Dirs : \E i \in DOMAIN Ru!Indexed : Ru!Indexed[i] = d
    <2> DEFINE Seen == {d \in Ru!Dirs : \E n \in 0..MaxDepth : \E j \in DOMAIN Ru!Level[n] : Ru!Level[n][j] = d}
    <2>1. Ru!Root \in Seen
      <3>1. 0 \in 0..MaxDepth /\ 1 \in DOMAIN Ru!Level[0] /\ Ru!Level[0][1] = Ru!Root
        BY <1>1, RulesLevels
      <3> QED BY <3>1, RulesBounds
    <2>2. ASSUME NEW d \in Seen, NEW c \in Ru!ToSet(Children[d]) PROVE c \in Seen
      <3>1. PICK n \in 0..MaxDepth : \E j \in DOMAIN Ru!Level[n] : Ru!Level[n][j] = d
        BY <2>2
      <3>2. PICK j \in DOMAIN Ru!Level[n] : Ru!Level[n][j] = d
        BY <3>1
      <3>3. PICK e \in DOMAIN Children[d] : Children[d][e] = c
        BY DEF Ru!ToSet
      <3>4. Ru!Level[n] \in Seq(Ru!Dirs) /\ c \in Ru!Dirs
        BY <3>3, RulesLevels, RulesTree
      <3>5. PICK k \in DOMAIN Ru!Below(Ru!Level[n]) : Ru!Below(Ru!Level[n])[k] = c
        BY <3>2, <3>3, <3>4, RulesBelow
      <3>6. n # MaxDepth
        BY <1>10, <3>5
      <3>7. n + 1 \in 1..MaxDepth /\ n + 1 \in 0..MaxDepth /\ (n + 1) - 1 = n
        BY <1>1, <3>6
      <3>8. Ru!Level[n + 1] = Ru!Below(Ru!Level[n])
        BY <3>7, RulesLevels
      <3> QED BY <3>4, <3>5, <3>7, <3>8
    <2>3. Seen = Ru!Dirs
      <3>1. Seen \in SUBSET Ru!Dirs /\ \A d \in Seen : Ru!ToSet(Children[d]) \subseteq Seen
        BY <2>2
      <3> HIDE DEF Seen
      <3> QED BY <2>1, <3>1, RulesTree
    <2> QED BY <1>9, <2>3
  <1> QED BY <1>8, <1>10

\* The rule files of a directory are a sequence of its files.
LEMMA RuleFilesOf ==
  ASSUME NEW there, NEW d \in Ru!Dirs
  PROVE  Ru!RuleFilesInDir(there, d) \in Seq(Ru!ToSet(AgentFiles[d]))
  <1>1. PICK files : files = AgentFiles[d]
    OBVIOUS
  <1>2. PICK F : F = Ru!ToSet(files)
    OBVIOUS
  <1>3. files \in Seq(F)
    BY <1>1, <1>2, RulesTree
  <1> DEFINE seqs == [i \in DOMAIN files |-> IF files[i] \in there THEN <<files[i]>> ELSE <<>>]
  <1>4. DOMAIN files = 1..Len(files) /\ Len(files) \in Nat /\ \A i \in DOMAIN files : seqs[i] \in Seq(F)
    BY <1>3
  <1>5. seqs \in Seq(Seq(F))
    BY <1>4
  <1>6. Ru!RuleFilesInDir(there, d) = Ru!FlattenSeq(seqs)
    BY <1>1 DEF Ru!RuleFilesInDir
  <1> HIDE DEF seqs
  <1> QED BY <1>1, <1>2, <1>5, <1>6, FlattenHolds

\* The index names every rule file near the root, or says that it is cut.
LEMMA RulesIndex ==
  ASSUME NEW there, NEW d \in Ru!Dirs, NEW f \in Ru!ToSet(Ru!RuleFilesInDir(there, d)),
         ~Ru!RuleIndex(there).truncated
  PROVE  f \in Ru!RuleIndex(there).paths
  <1> DEFINE T == UNION {Ru!ToSet(AgentFiles[e]) : e \in Ru!Dirs}
             seqs == [i \in DOMAIN Ru!Indexed |-> Ru!RuleFilesInDir(there, Ru!Indexed[i])]
             found == Ru!FlattenSeq(seqs)
  <1>1. /\ Ru!RuleIndex(there).paths = {found[i] : i \in 1..Ru!Min({Len(found), MaxEntries})}
        /\ ~(Len(found) > MaxEntries) /\ Ru!Below(Ru!Level[MaxDepth]) = <<>>
    BY DEF Ru!RuleIndex
  <1>2. \A e \in Ru!Dirs : Ru!RuleFilesInDir(there, e) \in Seq(T)
    <2> SUFFICES ASSUME NEW e \in Ru!Dirs PROVE Ru!RuleFilesInDir(there, e) \in Seq(T)
      OBVIOUS
    <2>1. Ru!ToSet(AgentFiles[e]) \subseteq T
      OBVIOUS
    <2> HIDE DEF T
    <2> QED BY <2>1, RuleFilesOf
  <1> HIDE DEF T
  <1>3. /\ DOMAIN Ru!Indexed = 1..Len(Ru!Indexed) /\ Len(Ru!Indexed) \in Nat
        /\ \A i \in DOMAIN Ru!Indexed : seqs[i] \in Seq(T)
    BY <1>2, RulesIndexed
  <1>4. seqs \in Seq(Seq(T)) /\ DOMAIN seqs = DOMAIN Ru!Indexed
    BY <1>3
  <1>5. PICK i \in DOMAIN Ru!Indexed : Ru!Indexed[i] = d
    BY <1>1, RulesIndexed
  <1>6. PICK j \in DOMAIN seqs[i] : seqs[i][j] = f
    BY <1>5 DEF Ru!ToSet
  <1> HIDE DEF seqs
  <1>7. found \in Seq(T) /\ \E k \in DOMAIN found : found[k] = f
    BY <1>4, <1>5, <1>6, FlattenHolds
  <1> HIDE DEF found
  <1>8. Len(found) \in Nat /\ DOMAIN found = 1..Len(found) /\ Len(found) <= MaxEntries
    BY <1>1, <1>7, RulesTree
  <1>9. Ru!Min({Len(found), MaxEntries}) = Len(found)
    BY <1>8, RulesTree DEF Ru!Min
  <1> QED BY <1>1, <1>7, <1>8, <1>9

-----------------------------------------------------------------------------
(* Project rules.  What a host remembers of an epoch is in the log of the  *)
(* epoch, what the log says is in the model's input, and the rules of the  *)
(* place are in the memory as soon as the index is; all of it unless the   *)
(* host is behind.                                                         *)

\* What a context is, and that it leaves every rule of the place told.
LEMMA RulesContext ==
  ASSUME NEW s, Ru!IsMemory(s), NEW c, c = Ru!RuleContext(s)
  PROVE  /\ Ru!IsMemory(c.state) /\ c.state.cwd = s.cwd /\ c.state.index = TRUE
         /\ c.state.loaded = s.loaded \cup c.new
         /\ c.index \in BOOLEAN /\ c.index = ~s.index
         /\ c.index => /\ Ru!LoadProjectRules(present) \subseteq s.loaded \cup c.new
                       /\ s.cwd # Ru!Root =>
                             Ru!LoadDirectoryRules(present, s.cwd) \subseteq s.loaded \cup c.new
         /\ ~c.index => c.new = {}
  <1>1. PICK w, l, i, n : s = [cwd |-> w, loaded |-> l, index |-> i, notice |-> n] /\ i \in BOOLEAN
    BY DEF Ru!IsMemory
  <1>2. PICK P : P = Ru!LoadProjectRules(present)
    OBVIOUS
  <1>3. PICK D : D = Ru!LoadDirectoryRules(present, w)
    OBVIOUS
  <1>4. PICK r : r = Ru!Root
    OBVIOUS
  <1>5. PICK here : here = IF w = r THEN {} ELSE D \ (l \cup (P \ l))
    OBVIOUS
  <1>6. PICK new : new = IF i THEN {} ELSE (P \ l) \cup here
    OBVIOUS
  <1>7. PICK m : m = IF w = r THEN None ELSE w
    OBVIOUS
  <1>8. s.cwd = w /\ s.loaded = l /\ s.index = i
    BY <1>1
  <1>9. c = [new |-> new, index |-> ~i, state |-> [cwd |-> w, loaded |-> l \cup new, index |-> TRUE, notice |-> m]]
    BY <1>2, <1>3, <1>4, <1>5, <1>6, <1>7, <1>8, Zenon DEF Ru!RuleContext
  <1>10. /\ c.new = new /\ c.index = ~i
         /\ c.state = [cwd |-> w, loaded |-> l \cup new, index |-> TRUE, notice |-> m]
    BY <1>9
  <1>11. P \subseteq l \cup new \/ i
    BY <1>6
  <1>12. w # r => D \subseteq l \cup new \/ i
    BY <1>5, <1>6
  <1>13. i => new = {}
    BY <1>6
  <1>14. Ru!IsMemory(c.state) /\ c.state.cwd = w /\ c.state.index = TRUE /\ c.state.loaded = l \cup new
    BY <1>10 DEF Ru!IsMemory
  <1> QED BY <1>1, <1>2, <1>3, <1>4, <1>8, <1>10, <1>11, <1>12, <1>13, <1>14

\* What a context adds to the log of the epoch.
LEMMA RulesNoted ==
  ASSUME NEW e, NEW s, NEW c, NEW k, k = Ru!Noted(e, s, c), e.index \in BOOLEAN, c.index \in BOOLEAN
  PROVE  /\ k = [loaded |-> k.loaded, index |-> k.index, notice |-> k.notice]
         /\ k.loaded = e.loaded \cup c.new
         /\ k.index \in BOOLEAN /\ (k.index <=> e.index \/ c.index)
  BY DEF Ru!Noted

\* What a context adds to the input.
LEMMA RulesTold ==
  ASSUME NEW in, NEW c, NEW t, t = Ru!Told(in, c)
  PROVE  /\ t = [rules |-> t.rules, index |-> t.index]
         /\ t.rules = in.rules \cup c.new
         /\ c.index => t.index = Ru!RuleIndex(present)
         /\ ~c.index => t.index = in.index
  BY DEF Ru!Told

\* What a host works with is a memory, and one of the epoch unless it is behind.
LEMMA RulesState ==
  ASSUME Ru!Inv, NEW h \in Hosts, NEW s, s = Ru!RuleState(h)
  PROVE  /\ Ru!IsMemory(s) /\ (h \notin behind => Ru!Sent(s))
         /\ agent.pc # "idle" /\ agent.host = h /\ h \notin behind => s.index
  <1>1. CASE state[h] # None
    BY <1>1 DEF Ru!Inv, Ru!RuleState, Ru!TypeOK, Ru!MemoryIsTrue, Ru!AgentHasTold
  <1>2. CASE state[h] = None
    <2>1. s = [cwd |-> cwd, loaded |-> kept.loaded, index |-> kept.index, notice |-> kept.notice]
      BY <1>2 DEF Ru!RuleState
    <2>2. s.cwd = cwd /\ s.loaded = kept.loaded /\ s.index = kept.index /\ s.notice = kept.notice
      BY <2>1
    <2>3. Ru!IsMemory(s)
      BY <2>1, <2>2 DEF Ru!IsMemory, Ru!Inv, Ru!TypeOK
    <2>4. ASSUME h \notin behind PROVE Ru!Sent(s)
      <3>1. Ru!Sent([cwd |-> cwd, loaded |-> kept.loaded, index |-> kept.index])
        BY <2>4 DEF Ru!Inv, Ru!LogIsTrue
      <3> QED BY <2>2, <3>1 DEF Ru!Sent
    <2>5. agent.pc # "idle" /\ agent.host = h /\ h \notin behind => s.index
      BY <2>2 DEF Ru!Inv, Ru!AgentHasTold, Ru!Sent
    <2> QED BY <2>3, <2>4, <2>5
  <1> QED BY <1>1, <1>2

\* A turn begins.
LEMMA RulesBeginTurn ==
  ASSUME Ru!Inv, NEW h \in Hosts, Ru!BeginTurn(h)
  PROVE  Ru!Inv'
  <1>1. PICK s : s = Ru!RuleState(h)
    OBVIOUS
  <1>2. PICK c : c = Ru!RuleContext(s)
    OBVIOUS
  <1>3. /\ agent.pc = "idle" /\ present' = present /\ cwd' = cwd /\ gone' = gone
        /\ state' = [state EXCEPT ![h] = c.state]
        /\ kept' = Ru!Noted(kept, s, c) /\ input' = Ru!Told(input, c)
        /\ behind' = IF h \in behind \/ (c.index /\ Ru!Elsewhere(s)) THEN Hosts ELSE behind
        /\ agent' = [Ru!Idle EXCEPT !.host = h, !.pc = "asking"]
    BY <1>1, <1>2 DEF Ru!BeginTurn
  <1>4. agent' = [host |-> h, pc |-> "asking", result |-> {}]
    BY <1>3 DEF Ru!Idle
  <1>5. Ru!IsMemory(s) /\ (h \notin behind => Ru!Sent(s))
    BY <1>1, RulesState
  <1>6. /\ Ru!IsMemory(c.state) /\ c.state.cwd = s.cwd /\ c.state.index = TRUE
        /\ c.state.loaded = s.loaded \cup c.new
        /\ c.index \in BOOLEAN /\ c.index = ~s.index
        /\ c.index => /\ Ru!LoadProjectRules(present) \subseteq s.loaded \cup c.new
                      /\ s.cwd # Ru!Root =>
                            Ru!LoadDirectoryRules(present, s.cwd) \subseteq s.loaded \cup c.new
        /\ ~c.index => c.new = {}
    BY <1>2, <1>5, RulesContext
  <1>7. /\ kept' = [loaded |-> kept'.loaded, index |-> kept'.index, notice |-> kept'.notice]
        /\ kept'.loaded = kept.loaded \cup c.new
        /\ kept'.index \in BOOLEAN /\ (kept'.index <=> kept.index \/ c.index)
    <2>1. kept.index \in BOOLEAN
      BY DEF Ru!Inv, Ru!TypeOK
    <2>2. kept' = Ru!Noted(kept, s, c) /\ c.index \in BOOLEAN
      BY <1>3, <1>6
    <2> QED BY ONLY <2>1, <2>2, RulesNoted
  <1>8. /\ input' = [rules |-> input'.rules, index |-> input'.index]
        /\ input'.rules = input.rules \cup c.new
        /\ c.index => input'.index = Ru!RuleIndex(present)
        /\ ~c.index => input'.index = input.index
    <2>1. input' = Ru!Told(input, c)
      BY <1>3
    <2> QED BY ONLY <2>1, RulesTold
  <1>9. /\ state' = [g \in Hosts |-> state'[g]] /\ state'[h] = c.state
        /\ \A g \in Hosts : g # h => state'[g] = state[g]
    BY <1>3 DEF Ru!Inv, Ru!TypeOK
  <1>10. Ru!TypeOK'
    <2>1. \A g \in Hosts : state'[g] = None \/ Ru!IsMemory(state'[g])
      BY <1>6, <1>9 DEF Ru!Inv, Ru!TypeOK
    <2>2. behind' \subseteq Hosts
      BY <1>3 DEF Ru!Inv, Ru!TypeOK
    <2> QED BY ONLY <1>4, <1>7, <1>8, <1>9, <2>1, <2>2 DEF Ru!TypeOK, Ru!IsMemory
  <1>11. CASE behind' = Hosts
    <2>1. Ru!LogIsTrue' /\ Ru!MemoryIsTrue'
      BY <1>11 DEF Ru!LogIsTrue, Ru!MemoryIsTrue
    <2>2. Ru!AgentHasTold'
      BY <1>4, <1>9, <1>11 DEF Ru!AgentHasTold
    <2> QED BY <1>10, <2>1, <2>2 DEF Ru!Inv
  <1>12. CASE behind' # Hosts
    <2>1. h \notin behind /\ behind' = behind /\ (c.index => s.cwd = cwd) /\ behind # Hosts
      BY <1>3, <1>12 DEF Ru!Elsewhere
    <2>2. Ru!Sent(s)
      BY <1>5, <2>1
    <2>3. Ru!Sent(c.state)' /\ c.state.index
      BY <1>3, <1>6, <1>7, <2>2 DEF Ru!Sent
    <2>4. Ru!MemoryIsTrue'
      BY <1>3, <1>7, <1>9, <2>1, <2>3 DEF Ru!Inv, Ru!MemoryIsTrue, Ru!Sent
    <2>5. Ru!AgentHasTold'
      BY <1>4, <1>9, <2>1, <2>3 DEF Ru!AgentHasTold
    <2>6. Ru!LogIsTrue'
      <3>1. /\ kept.loaded \subseteq input.rules \cup gone \cup agent.result
            /\ kept.index => input.index = Ru!RuleIndex(present)
            /\ Ru!Sent([cwd |-> cwd, loaded |-> kept.loaded, index |-> kept.index])
        BY <2>1 DEF Ru!Inv, Ru!LogIsTrue
      <3>2. agent.result = {}
        BY <1>3 DEF Ru!Inv, Ru!TypeOK
      <3>3. kept'.loaded \subseteq input'.rules \cup gone' \cup agent'.result
        BY <1>3, <1>4, <1>7, <1>8, <3>1, <3>2
      <3>4. kept'.index => input'.index = Ru!RuleIndex(present')
        BY <1>3, <1>7, <1>8, <3>1
      <3>5. Ru!Sent([cwd |-> cwd, loaded |-> kept.loaded, index |-> kept.index])'
        BY <1>3, <1>6, <1>7, <2>1, <2>2, <3>1 DEF Ru!Sent
      <3> QED BY <3>3, <3>4, <3>5 DEF Ru!LogIsTrue
    <2> QED BY <1>10, <2>4, <2>5, <2>6 DEF Ru!Inv
  <1> QED BY <1>11, <1>12

\* A call that cannot run is refused.
LEMMA RulesRefused ==
  ASSUME Ru!Inv, NEW h \in Hosts, Ru!Refused(h)
  PROVE  Ru!Inv'
  <1>1. PICK s : s = Ru!RuleState(h)
    OBVIOUS
  <1>2. agent = [host |-> h, pc |-> "asking", result |-> {}]
    BY DEF Ru!Refused, Ru!Idle
  <1>3. /\ present' = present /\ kept' = kept /\ cwd' = cwd /\ agent' = agent /\ input' = input
        /\ behind' = behind /\ gone' = gone /\ state' = [state EXCEPT ![h] = s]
    BY <1>1 DEF Ru!Refused
  <1>4. Ru!IsMemory(s) /\ (h \notin behind => Ru!Sent(s) /\ s.index)
    BY <1>1, <1>2, RulesState
  <1>5. /\ state' = [g \in Hosts |-> state'[g]] /\ state'[h] = s
        /\ \A g \in Hosts : g # h => state'[g] = state[g]
    BY <1>3 DEF Ru!Inv, Ru!TypeOK
  <1>6. Ru!TypeOK'
    <2>1. \A g \in Hosts : state'[g] = None \/ Ru!IsMemory(state'[g])
      BY <1>4, <1>5 DEF Ru!Inv, Ru!TypeOK
    <2> QED BY <1>3, <1>5, <2>1 DEF Ru!Inv, Ru!TypeOK, Ru!IsMemory
  <1>7. Ru!LogIsTrue'
    BY <1>3 DEF Ru!Inv, Ru!LogIsTrue, Ru!Sent
  <1>8. Ru!MemoryIsTrue'
    BY <1>3, <1>4, <1>5 DEF Ru!Inv, Ru!MemoryIsTrue, Ru!Sent
  <1>9. Ru!AgentHasTold'
    BY <1>2, <1>3, <1>4, <1>5 DEF Ru!Inv, Ru!AgentHasTold, Ru!Sent
  <1> QED BY <1>6, <1>7, <1>8, <1>9 DEF Ru!Inv

\* A run is interrupted, or its turn ends.
LEMMA RulesTurnOver ==
  ASSUME Ru!Inv, NEW h \in Hosts, Ru!RunInterrupted(h) \/ Ru!EndTurn(h)
  PROVE  Ru!Inv'
  <1>1. /\ present' = present /\ state' = state /\ kept' = kept /\ cwd' = cwd /\ input' = input
        /\ behind' = behind /\ gone' = gone /\ agent' = Ru!Idle /\ agent.pc = "asking"
    BY DEF Ru!RunInterrupted, Ru!EndTurn
  <1>2. agent' = [host |-> None, pc |-> "idle", result |-> {}]
    BY <1>1 DEF Ru!Idle
  <1>3. agent.result = {} /\ agent'.result = {}
    BY <1>1, <1>2 DEF Ru!Inv, Ru!TypeOK
  <1>4. Ru!TypeOK'
    BY <1>1, <1>2 DEF Ru!Inv, Ru!TypeOK, Ru!IsMemory
  <1>5. Ru!LogIsTrue' /\ Ru!MemoryIsTrue'
    BY <1>1, <1>3 DEF Ru!Inv, Ru!LogIsTrue, Ru!MemoryIsTrue, Ru!Sent
  <1>6. Ru!AgentHasTold'
    BY <1>2 DEF Ru!AgentHasTold
  <1> QED BY <1>4, <1>5, <1>6 DEF Ru!Inv

\* A script has entered a directory.
LEMMA RulesRunCompleted ==
  ASSUME Ru!Inv, NEW h \in Hosts, NEW d \in Ru!Dirs, Ru!RunCompleted(h, d)
  PROVE  Ru!Inv'
  <1>1. PICK s : s = Ru!RuleState(h)
    OBVIOUS
  <1>2. PICK new : new = Ru!LoadDirectoryRules(present, d) \ s.loaded
    OBVIOUS
  <1>3. /\ agent.host = h /\ agent.pc = "asking" /\ present' = present /\ input' = input
        /\ behind' = behind /\ gone' = gone /\ cwd' = d
        /\ state' = [state EXCEPT ![h] = [s EXCEPT !.cwd = d, !.loaded = @ \cup new]]
        /\ kept' = [kept EXCEPT !.loaded = @ \cup new]
        /\ agent' = [agent EXCEPT !.pc = "result", !.result = new]
    BY <1>1, <1>2 DEF Ru!RunCompleted
  <1>4. Ru!IsMemory(s) /\ (h \notin behind => Ru!Sent(s) /\ s.index)
    BY <1>1, <1>3, RulesState
  <1>5. PICK t : t = [s EXCEPT !.cwd = d, !.loaded = @ \cup new]
    OBVIOUS
  <1>6. Ru!IsMemory(t) /\ t.cwd = d /\ t.loaded = s.loaded \cup new /\ t.index = s.index
    BY <1>4, <1>5 DEF Ru!IsMemory
  <1>7. /\ state' = [g \in Hosts |-> state'[g]] /\ state'[h] = t
        /\ \A g \in Hosts : g # h => state'[g] = state[g]
    BY <1>3, <1>5 DEF Ru!Inv, Ru!TypeOK
  <1>8. /\ kept' = [loaded |-> kept'.loaded, index |-> kept'.index, notice |-> kept'.notice]
        /\ kept'.loaded = kept.loaded \cup new /\ kept'.index = kept.index
    BY <1>3 DEF Ru!Inv, Ru!TypeOK
  <1>9. agent' = [host |-> h, pc |-> "result", result |-> new] /\ agent.result = {}
    BY <1>3 DEF Ru!Inv, Ru!TypeOK
  <1>10. Ru!TypeOK'
    <2>1. \A g \in Hosts : state'[g] = None \/ Ru!IsMemory(state'[g])
      BY <1>6, <1>7 DEF Ru!Inv, Ru!TypeOK
    <2> QED BY <1>3, <1>7, <1>8, <1>9, <2>1 DEF Ru!Inv, Ru!TypeOK, Ru!IsMemory
  <1>11. ASSUME h \notin behind PROVE Ru!Sent(t)' /\ t.index
    BY <1>2, <1>3, <1>4, <1>6, <1>8, <1>11 DEF Ru!Sent
  <1>12. Ru!MemoryIsTrue'
    BY <1>3, <1>7, <1>8, <1>11 DEF Ru!Inv, Ru!MemoryIsTrue, Ru!Sent
  <1>13. Ru!AgentHasTold'
    BY <1>3, <1>7, <1>9, <1>11 DEF Ru!Inv, Ru!AgentHasTold
  <1>14. ASSUME behind # Hosts PROVE Ru!LogIsTrue'
    <2>1. h \notin behind
      BY <1>3, <1>14 DEF Ru!Inv, Ru!AgentHasTold
    <2>2. /\ kept.loaded \subseteq input.rules \cup gone
          /\ kept.index => input.index = Ru!RuleIndex(present)
          /\ kept.index => Ru!LoadProjectRules(present) \subseteq kept.loaded
      BY <1>9, <1>14 DEF Ru!Inv, Ru!LogIsTrue, Ru!Sent
    <2>3. s.loaded \subseteq kept.loaded
      BY <1>4, <2>1 DEF Ru!Sent
    <2>4. kept'.loaded \subseteq input'.rules \cup gone' \cup agent'.result
      BY <1>3, <1>8, <1>9, <2>2
    <2>5. kept'.index => input'.index = Ru!RuleIndex(present)
      BY <1>3, <1>8, <2>2
    <2>6. Ru!Sent([cwd |-> cwd, loaded |-> kept.loaded, index |-> kept.index])'
      BY <1>2, <1>3, <1>8, <2>2, <2>3 DEF Ru!Sent
    <2> QED BY <1>3, <2>4, <2>5, <2>6 DEF Ru!LogIsTrue
  <1>15. behind = Hosts => Ru!LogIsTrue'
    BY <1>3 DEF Ru!LogIsTrue
  <1> QED BY <1>10, <1>12, <1>13, <1>14, <1>15 DEF Ru!Inv

\* The output of a tool is stored, or lost.
LEMMA RulesOutput ==
  ASSUME Ru!Inv, NEW h \in Hosts, Ru!StoreOutput(h) \/ Ru!LoseOutput(h)
  PROVE  Ru!Inv'
  <1>1. /\ present' = present /\ state' = state /\ kept' = kept /\ cwd' = cwd /\ behind' = behind
        /\ agent.host = h /\ agent.pc = "result"
    BY DEF Ru!StoreOutput, Ru!LoseOutput
  <1>2. CASE Ru!StoreOutput(h)
    <2>1. input' = [input EXCEPT !.rules = @ \cup agent.result] /\ gone' = gone
          /\ agent' = [agent EXCEPT !.pc = "asking", !.result = {}]
      BY <1>2 DEF Ru!StoreOutput
    <2>2. agent' = [host |-> agent.host, pc |-> "asking", result |-> {}]
      BY <2>1 DEF Ru!Inv, Ru!TypeOK
    <2>3. input' = [rules |-> input.rules \cup agent.result, index |-> input.index]
      BY <2>1 DEF Ru!Inv, Ru!TypeOK
    <2>4. Ru!TypeOK'
      BY <1>1, <2>2, <2>3 DEF Ru!Inv, Ru!TypeOK, Ru!IsMemory
    <2>5. Ru!LogIsTrue' /\ Ru!MemoryIsTrue'
      BY <1>1, <2>1, <2>2, <2>3 DEF Ru!Inv, Ru!LogIsTrue, Ru!MemoryIsTrue, Ru!Sent
    <2>6. Ru!AgentHasTold'
      BY <1>1, <2>2 DEF Ru!Inv, Ru!AgentHasTold, Ru!Sent
    <2> QED BY <2>4, <2>5, <2>6 DEF Ru!Inv
  <1>3. CASE Ru!LoseOutput(h)
    <2>1. input' = input /\ gone' = gone \cup agent.result /\ agent' = Ru!Idle
      BY <1>3 DEF Ru!LoseOutput
    <2>2. agent' = [host |-> None, pc |-> "idle", result |-> {}]
      BY <2>1 DEF Ru!Idle
    <2>3. Ru!TypeOK'
      BY <1>1, <2>1, <2>2 DEF Ru!Inv, Ru!TypeOK, Ru!IsMemory
    <2>4. Ru!LogIsTrue' /\ Ru!MemoryIsTrue'
      BY <1>1, <2>1, <2>2 DEF Ru!Inv, Ru!LogIsTrue, Ru!MemoryIsTrue, Ru!Sent
    <2>5. Ru!AgentHasTold'
      BY <2>2 DEF Ru!AgentHasTold
    <2> QED BY <2>3, <2>4, <2>5 DEF Ru!Inv
  <1> QED BY <1>2, <1>3

\* A compaction after the turn leaves an epoch in which nothing was said.
LEMMA RulesCompactAfterTurn ==
  ASSUME Ru!Inv, NEW h \in Hosts, Ru!CompactAfterTurn(h)
  PROVE  Ru!Inv'
  <1>1. PICK s : s = Ru!ResetEpoch(Ru!RuleState(h))
    OBVIOUS
  <1>2. /\ present' = present /\ cwd' = cwd /\ gone' = {}
        /\ state' = [state EXCEPT ![h] = s]
        /\ kept' = Ru!EmptyEpoch /\ input' = Ru!EmptyInput /\ agent' = Ru!Idle
        /\ behind' = (behind \cup {g \in Hosts : state[g] # None}) \ {h}
    BY <1>1 DEF Ru!CompactAfterTurn, Ru!BehindEpoch
  <1>3. Ru!IsMemory(s) /\ s.loaded = {} /\ s.index = FALSE
    BY <1>1 DEF Ru!ResetEpoch, Ru!IsMemory
  <1>4. agent' = [host |-> None, pc |-> "idle", result |-> {}]
    BY <1>2 DEF Ru!Idle
  <1>5. kept' = [loaded |-> {}, index |-> FALSE, notice |-> None]
    BY <1>2 DEF Ru!EmptyEpoch
  <1>6. input' = [rules |-> input'.rules, index |-> input'.index]
    BY <1>2 DEF Ru!EmptyInput
  <1>7. /\ state' = [g \in Hosts |-> state'[g]] /\ state'[h] = s
        /\ \A g \in Hosts : g # h => state'[g] = state[g]
    BY <1>2 DEF Ru!Inv, Ru!TypeOK
  <1>8. behind' \subseteq Hosts /\ \A g \in Hosts \ behind' : g = h \/ state[g] = None
    BY <1>2 DEF Ru!Inv, Ru!TypeOK
  <1>9. Ru!TypeOK'
    <2>1. \A g \in Hosts : state'[g] = None \/ Ru!IsMemory(state'[g])
      BY <1>3, <1>7 DEF Ru!Inv, Ru!TypeOK
    <2> QED BY <1>4, <1>5, <1>6, <1>7, <1>8, <2>1 DEF Ru!TypeOK, Ru!IsMemory
  <1>10. Ru!LogIsTrue'
    BY <1>5 DEF Ru!LogIsTrue, Ru!Sent
  <1>11. Ru!MemoryIsTrue'
    BY <1>3, <1>7, <1>8 DEF Ru!MemoryIsTrue, Ru!Sent
  <1>12. Ru!AgentHasTold'
    BY <1>4 DEF Ru!AgentHasTold
  <1> QED BY <1>9, <1>10, <1>11, <1>12 DEF Ru!Inv

\* A compaction inside the turn sends the context of the new epoch at once.
LEMMA RulesCompactInTurn ==
  ASSUME Ru!Inv, NEW h \in Hosts, Ru!CompactInTurn(h)
  PROVE  Ru!Inv'
  <1>1. PICK s : s = Ru!ResetEpoch(Ru!RuleState(h))
    OBVIOUS
  <1>2. PICK c : c = Ru!RuleContext(s)
    OBVIOUS
  <1>3. /\ agent.host = h /\ agent.pc = "asking" /\ present' = present /\ cwd' = cwd /\ gone' = {}
        /\ agent' = agent /\ state' = [state EXCEPT ![h] = c.state]
        /\ kept' = Ru!Noted(Ru!EmptyEpoch, s, c) /\ input' = Ru!Told(Ru!EmptyInput, c)
        /\ behind' = IF Ru!Elsewhere(s) THEN Hosts
                     ELSE (behind \cup {g \in Hosts : state[g] # None}) \ {h}
    BY <1>1, <1>2 DEF Ru!CompactInTurn, Ru!BehindEpoch
  <1>4. Ru!IsMemory(s) /\ s.loaded = {} /\ s.index = FALSE
    BY <1>1 DEF Ru!ResetEpoch, Ru!IsMemory
  <1>5. /\ Ru!IsMemory(c.state) /\ c.state.cwd = s.cwd /\ c.state.index = TRUE
        /\ c.state.loaded = c.new /\ c.index = TRUE
        /\ Ru!LoadProjectRules(present) \subseteq c.new
        /\ s.cwd # Ru!Root => Ru!LoadDirectoryRules(present, s.cwd) \subseteq c.new
    <2>1. /\ Ru!IsMemory(c.state) /\ c.state.cwd = s.cwd /\ c.state.index = TRUE
          /\ c.state.loaded = s.loaded \cup c.new
          /\ c.index \in BOOLEAN /\ c.index = ~s.index
          /\ c.index => /\ Ru!LoadProjectRules(present) \subseteq s.loaded \cup c.new
                        /\ s.cwd # Ru!Root =>
                              Ru!LoadDirectoryRules(present, s.cwd) \subseteq s.loaded \cup c.new
      BY <1>2, <1>4, RulesContext
    <2>2. s.loaded \cup c.new = c.new /\ c.index = TRUE
      BY <1>4, <2>1
    <2> QED BY <2>1, <2>2
  <1>6. /\ kept' = [loaded |-> kept'.loaded, index |-> kept'.index, notice |-> kept'.notice]
        /\ kept'.loaded = c.new /\ kept'.index = TRUE
    <2>1. PICK e : e = Ru!EmptyEpoch
      OBVIOUS
    <2>2. e.index \in BOOLEAN
      BY <2>1 DEF Ru!EmptyEpoch
    <2>3. kept' = Ru!Noted(e, s, c) /\ c.index \in BOOLEAN
      BY <1>3, <1>5, <2>1
    <2>4. e.loaded = {}
      BY <2>1 DEF Ru!EmptyEpoch
    <2>5. /\ kept' = [loaded |-> kept'.loaded, index |-> kept'.index, notice |-> kept'.notice]
          /\ kept'.loaded = e.loaded \cup c.new
          /\ kept'.index \in BOOLEAN /\ (kept'.index <=> e.index \/ c.index)
      BY ONLY <2>2, <2>3, RulesNoted
    <2> QED BY <1>5, <2>2, <2>4, <2>5
  <1>7. /\ input' = [rules |-> input'.rules, index |-> input'.index]
        /\ c.new \subseteq input'.rules
        /\ input'.index = Ru!RuleIndex(present)
    <2>1. PICK in : in = Ru!EmptyInput
      OBVIOUS
    <2>2. input' = Ru!Told(in, c)
      BY <1>3, <2>1
    <2>3. /\ input' = [rules |-> input'.rules, index |-> input'.index]
          /\ input'.rules = in.rules \cup c.new
          /\ c.index => input'.index = Ru!RuleIndex(present)
      BY ONLY <2>2, RulesTold
    <2> QED BY <1>5, <2>3
  <1>8. /\ state' = [g \in Hosts |-> state'[g]] /\ state'[h] = c.state
        /\ \A g \in Hosts : g # h => state'[g] = state[g]
    BY <1>3 DEF Ru!Inv, Ru!TypeOK
  <1>9. Ru!TypeOK'
    <2>1. \A g \in Hosts : state'[g] = None \/ Ru!IsMemory(state'[g])
      BY <1>5, <1>8 DEF Ru!Inv, Ru!TypeOK
    <2>2. behind' \subseteq Hosts
      BY <1>3 DEF Ru!Inv, Ru!TypeOK
    <2> QED BY <1>3, <1>6, <1>7, <1>8, <2>1, <2>2 DEF Ru!Inv, Ru!TypeOK, Ru!IsMemory
  <1>10. CASE behind' = Hosts
    <2>1. Ru!LogIsTrue' /\ Ru!MemoryIsTrue'
      BY <1>10 DEF Ru!LogIsTrue, Ru!MemoryIsTrue
    <2>2. Ru!AgentHasTold'
      BY <1>3, <1>10 DEF Ru!AgentHasTold
    <2> QED BY <1>9, <2>1, <2>2 DEF Ru!Inv
  <1>11. CASE behind' # Hosts
    <2>1. s.cwd = cwd /\ h \notin behind' /\ \A g \in Hosts \ behind' : g = h \/ state[g] = None
      BY <1>3, <1>11 DEF Ru!Elsewhere, Ru!Inv, Ru!TypeOK
    <2>2. Ru!Sent(c.state)' /\ c.state.index
      BY <1>3, <1>5, <1>6 DEF Ru!Sent
    <2>3. Ru!MemoryIsTrue'
      BY <1>8, <2>1, <2>2 DEF Ru!MemoryIsTrue
    <2>4. Ru!AgentHasTold'
      BY <1>3, <1>8, <2>1, <2>2 DEF Ru!AgentHasTold
    <2>5. Ru!Sent([cwd |-> cwd, loaded |-> kept.loaded, index |-> kept.index])'
      BY <1>3, <1>5, <1>6, <2>1 DEF Ru!Sent
    <2>6. Ru!LogIsTrue'
      BY <1>3, <1>6, <1>7, <2>5 DEF Ru!LogIsTrue
    <2> QED BY <1>9, <2>3, <2>4, <2>6 DEF Ru!Inv
  <1> QED BY <1>10, <1>11

\* A host forgets the thread.
LEMMA RulesForget ==
  ASSUME Ru!Inv, NEW h \in Hosts, Ru!Forget(h)
  PROVE  Ru!Inv'
  <1>1. /\ present' = present /\ kept' = kept /\ cwd' = cwd /\ input' = input /\ gone' = gone
        /\ agent.pc = "result" => agent.host # h
        /\ state' = [state EXCEPT ![h] = None]
        /\ behind' = IF behind = Hosts THEN behind ELSE behind \ {h}
        /\ agent' = IF agent.host = h THEN Ru!Idle ELSE agent
    BY DEF Ru!Forget
  <1>2. /\ state' = [g \in Hosts |-> state'[g]] /\ state'[h] = None
        /\ \A g \in Hosts : g # h => state'[g] = state[g]
    BY <1>1 DEF Ru!Inv, Ru!TypeOK
  <1>3. (agent' = agent /\ agent.host # h) \/ agent' = [host |-> None, pc |-> "idle", result |-> {}]
    BY <1>1 DEF Ru!Idle
  <1>4. agent'.result = agent.result
    BY <1>1, <1>3 DEF Ru!Inv, Ru!TypeOK
  <1>5. Ru!TypeOK'
    <2>1. \A g \in Hosts : state'[g] = None \/ Ru!IsMemory(state'[g])
      BY <1>2 DEF Ru!Inv, Ru!TypeOK
    <2>2. behind' \subseteq Hosts
      BY <1>1 DEF Ru!Inv, Ru!TypeOK
    <2>3. /\ agent' = [host |-> agent'.host, pc |-> agent'.pc, result |-> agent'.result]
          /\ agent'.pc \in {"idle", "asking", "result"} /\ (agent'.pc # "result" => agent'.result = {})
      BY <1>3 DEF Ru!Inv, Ru!TypeOK
    <2> QED BY <1>1, <1>2, <2>1, <2>2, <2>3 DEF Ru!Inv, Ru!TypeOK, Ru!IsMemory
  <1>6. Ru!LogIsTrue'
    BY <1>1, <1>4 DEF Ru!Inv, Ru!LogIsTrue, Ru!Sent
  <1>7. Ru!MemoryIsTrue'
    BY <1>1, <1>2 DEF Ru!Inv, Ru!MemoryIsTrue, Ru!Sent
  <1>8. Ru!AgentHasTold'
    BY <1>1, <1>2, <1>3 DEF Ru!Inv, Ru!AgentHasTold, Ru!Sent
  <1> QED BY <1>5, <1>6, <1>7, <1>8 DEF Ru!Inv

\* The invariant holds of the first states, whatever files there are.
LEMMA RulesInit ==
  ASSUME Ru!Init
  PROVE  Ru!Inv
  <1>1. kept = [loaded |-> {}, index |-> FALSE, notice |-> None]
    BY DEF Ru!Init, Ru!EmptyEpoch
  <1>2. agent = [host |-> None, pc |-> "idle", result |-> {}]
    BY DEF Ru!Init, Ru!Idle
  <1>3. input = [rules |-> input.rules, index |-> input.index] /\ behind = {} /\ state = [h \in Hosts |-> None]
    BY DEF Ru!Init, Ru!EmptyInput
  <1>4. Ru!TypeOK
    BY <1>1, <1>2, <1>3 DEF Ru!TypeOK
  <1>5. Ru!LogIsTrue /\ Ru!MemoryIsTrue /\ Ru!AgentHasTold
    BY <1>1, <1>2, <1>3 DEF Ru!LogIsTrue, Ru!MemoryIsTrue, Ru!AgentHasTold, Ru!Sent
  <1> QED BY <1>4, <1>5 DEF Ru!Inv

\* Every step keeps the invariant.
LEMMA RulesStep ==
  ASSUME Ru!Inv, [Ru!Next]_(Ru!rvars)
  PROVE  Ru!Inv'
  <1>1. CASE Ru!Next
    <2>1. PICK h \in Hosts :
             \/ Ru!BeginTurn(h) \/ Ru!Refused(h) \/ Ru!RunInterrupted(h)
             \/ (\E d \in Ru!Dirs : Ru!RunCompleted(h, d))
             \/ Ru!StoreOutput(h) \/ Ru!LoseOutput(h) \/ Ru!EndTurn(h)
             \/ Ru!CompactAfterTurn(h) \/ Ru!CompactInTurn(h) \/ Ru!Forget(h)
      BY <1>1 DEF Ru!Next
    <2> QED BY <2>1, RulesBeginTurn, RulesRefused, RulesTurnOver, RulesRunCompleted, RulesOutput,
               RulesCompactAfterTurn, RulesCompactInTurn, RulesForget
  <1>2. CASE UNCHANGED Ru!rvars
    BY <1>2 DEF Ru!rvars, Ru!Inv, Ru!TypeOK, Ru!LogIsTrue, Ru!MemoryIsTrue, Ru!AgentHasTold, Ru!Sent, Ru!IsMemory
  <1> QED BY <1>1, <1>2

\* The rules are in front of the model wherever the invariant holds.
LEMMA RulesGiven ==
  ASSUME Ru!Inv
  PROVE  Ru!RulesReachTheModel
  <1> SUFFICES ASSUME agent.pc = "asking", agent.host \notin behind
               PROVE  Ru!RulesReachTheModel
    BY DEF Ru!RulesReachTheModel
  <1>1. agent.host \in Hosts /\ agent.result = {} /\ behind # Hosts
    BY DEF Ru!Inv, Ru!AgentHasTold, Ru!TypeOK
  <1>2. PICK s : s = state[agent.host]
    OBVIOUS
  <1>3. Ru!Sent(s) /\ s.index
    BY <1>2 DEF Ru!Inv, Ru!AgentHasTold
  <1>4. s.loaded \subseteq kept.loaded /\ kept.index
    BY <1>3 DEF Ru!Sent
  <1>5. kept.loaded \subseteq input.rules \cup gone /\ input.index = Ru!RuleIndex(present)
    BY <1>1, <1>4 DEF Ru!Inv, Ru!LogIsTrue
  <1>6. Ru!LoadProjectRules(present) \subseteq input.rules \cup gone
    BY <1>3, <1>4, <1>5 DEF Ru!Sent
  <1>7. s.cwd # Ru!Root => Ru!LoadDirectoryRules(present, s.cwd) \subseteq input.rules \cup gone
    BY <1>3, <1>4, <1>5 DEF Ru!Sent
  <1>8. ASSUME NEW d \in Ru!Dirs, NEW f \in Ru!ToSet(Ru!RuleFilesInDir(present, d))
        PROVE  f \in input.index.paths \cup input.rules \/ input.index.truncated
    BY <1>5, RulesIndex
  <1> QED BY <1>2, <1>6, <1>7, <1>8 DEF Ru!RulesReachTheModel

-----------------------------------------------------------------------------
(* Subagents.  A request and the turn it becomes keep the prompt they are  *)
(* of; each was posted, so there are no more of them than tries; and the   *)
(* threads made for them are new when they are made.                       *)

\* The finite sets and sizes of the module are those of the library.
LEMMA SubagentSets == ASSUME NEW set PROVE Sa!IsFiniteSet(set) = IsFiniteSet(set) /\ Sa!Cardinality(set) = Cardinality(set)
  <1>1. Sa!IsFiniteSet(set) = IsFiniteSet(set)
    BY DEF Sa!IsFiniteSet, IsFiniteSet
  <1>2. Sa!Cardinality(set) = Cardinality(set)
    BY DEF Sa!Cardinality, Cardinality
  <1> QED BY <1>1, <1>2

\* What the invariant says of the sequences: their domains, and what is in them.
LEMMA SubagentShape ==
  ASSUME Sa!TypeOK
  PROVE  /\ Len(threads) \in Nat /\ DOMAIN threads = 1..Len(threads)
         /\ Len(turns) \in Nat /\ DOMAIN turns = 1..Len(turns)
         /\ \A i \in DOMAIN turns : turns[i].call # 0 => turns[i].call \in Prompts
         /\ \A q \in requests : q.call \in Prompts
         /\ IsFiniteSet(requests)
  <1>1. PICK SomeRows, Handles : SomeRows = Sa!Row /\ Handles = Sa!Handle
    OBVIOUS
  <1>2. threads \in Seq(SomeRows) /\ turns \in Seq(Handles)
    BY <1>1 DEF Sa!TypeOK
  <1>3. \A i \in DOMAIN turns : turns[i] \in Handles
    BY ONLY <1>2
  <1>4. \A h \in Handles : h.call # 0 => h.call \in Prompts
    BY ONLY <1>1 DEF Sa!Handle, Sa!Nobody
  <1>5. Sa!IsFiniteSet(requests) /\ \A q \in requests : q.call \in Prompts
    BY DEF Sa!TypeOK
  <1>6. /\ Len(threads) \in Nat /\ DOMAIN threads = 1..Len(threads)
        /\ Len(turns) \in Nat /\ DOMAIN turns = 1..Len(turns)
    BY ONLY <1>2
  <1>7. IsFiniteSet(requests)
    BY <1>5, SubagentSets
  <1>8. \A i \in DOMAIN turns : turns[i].call # 0 => turns[i].call \in Prompts
    BY ONLY <1>3, <1>4
  <1> QED BY ONLY <1>5, <1>6, <1>7, <1>8, Zenon

\* Whether a caller is a subagent does not change as long as it is the same caller.
LEMMA SubagentNested ==
  ASSUME Sa!TypeOK, Sa!TurnsAreAsked,
         \A t \in DOMAIN threads : threads'[t] = threads[t],
         \A i \in DOMAIN turns : turns'[i].thread = turns[i].thread,
         NEW c \in Prompts, calls'[c].by = calls[c].by
  PROVE  Sa!Nested(c)' = Sa!Nested(c)
  <1>1. CASE calls[c].by = 0
    BY <1>1 DEF Sa!Nested, Sa!CallerThread, Sa!Nobody
  <1>2. CASE calls[c].by # 0
    <2>1. calls[c].by \in DOMAIN turns
      BY <1>2 DEF Sa!TypeOK, Sa!Nobody
    <2>2. turns[calls[c].by].thread \in DOMAIN threads
      BY <2>1 DEF Sa!TurnsAreAsked
    <2>3. turns'[calls'[c].by].thread = turns[calls[c].by].thread
      BY <2>1
    <2>4. threads'[turns'[calls'[c].by].thread] = threads[turns[calls[c].by].thread]
      BY <2>2, <2>3
    <2> QED BY <1>2, <2>3, <2>4 DEF Sa!Nested, Sa!CallerThread, Sa!Nobody
  <1> QED BY <1>1, <1>2

\* There are finitely many turns and requests.
LEMMA SubagentFinite ==
  ASSUME Sa!TypeOK, NEW c
  PROVE  IsFiniteSet(Sa!Served(c)) /\ IsFiniteSet(Sa!Open(c))
  <1>1. IsFiniteSet(1..Len(turns)) /\ Sa!Served(c) \subseteq 1..Len(turns)
    BY SubagentShape, FS_Interval DEF Sa!Served
  <1>2. IsFiniteSet(requests) /\ Sa!Open(c) \subseteq requests
    BY SubagentShape DEF Sa!Open
  <1> QED BY <1>1, <1>2, FS_Subset

\* A turn starts, ends or is absorbed.
LEMMA SubagentStatus ==
  ASSUME Sa!Inv, NEW i \in DOMAIN turns, turns[i].status \notin Sa!Ended, NEW s \in Sa!Statuses,
         Sa!SetStatus(i, s), UNCHANGED <<threads, calls, requests>>
  PROVE  Sa!Inv'
  <1>1. turns' = [turns EXCEPT ![i].status = s]
    BY DEF Sa!SetStatus
  <1>2. Sa!TypeOK
    BY DEF Sa!Inv
  <1>3. turns[i] \in Sa!Handle
    BY <1>2 DEF Sa!TypeOK
  <1>4. [turns[i] EXCEPT !.status = s] \in Sa!Handle
    BY <1>3 DEF Sa!Handle
  <1>5. turns' \in Seq(Sa!Handle) /\ DOMAIN turns' = DOMAIN turns
    BY <1>1, <1>2, <1>4 DEF Sa!TypeOK
  <1>6. \A j \in DOMAIN turns : /\ turns'[j].thread = turns[j].thread /\ turns'[j].call = turns[j].call
                                /\ j # i => turns'[j].status = turns[j].status
    BY <1>1, <1>3 DEF Sa!Handle
  <1>7. Sa!TypeOK'
    BY <1>2, <1>5 DEF Sa!TypeOK
  <1>8. Sa!ThreadsNestOnce'
    BY DEF Sa!Inv, Sa!ThreadsNestOnce
  <1>9. \A c \in Prompts : Sa!Nested(c)' = Sa!Nested(c)
    BY <1>2, <1>6, SubagentNested DEF Sa!Inv
  <1>10. Sa!TurnsAreAsked'
    <2>1. \A j \in DOMAIN turns : turns[j].call # 0 => turns[j].call \in Prompts
      BY <1>2, SubagentShape
    <2>2. \A q \in requests : q.call \in Prompts
      BY <1>2, SubagentShape
    <2> QED BY <1>5, <1>6, <1>9, <2>1, <2>2 DEF Sa!Inv, Sa!TurnsAreAsked, Sa!Nobody
  <1>11. Sa!ToldIsSo'
    BY <1>5, <1>6 DEF Sa!Inv, Sa!ToldIsSo
  <1>12. \A c : Sa!Served(c)' = Sa!Served(c) /\ Sa!Open(c)' = Sa!Open(c)
    BY <1>5, <1>6 DEF Sa!Served, Sa!Open
  <1>13. Sa!ThreadsApart'
    <2>1. \A c : \A j \in Sa!Served(c) : turns'[j].thread = turns[j].thread
      BY <1>6 DEF Sa!Served
    <2> QED BY <1>12, <2>1 DEF Sa!Inv, Sa!ThreadsApart, Sa!Ready
  <1>14. Sa!EachWasPosted'
    BY <1>12 DEF Sa!Inv, Sa!EachWasPosted
  <1> QED BY <1>7, <1>8, <1>10, <1>11, <1>13, <1>14 DEF Sa!Inv

\* A request is answered.
LEMMA SubagentAnswer ==
  ASSUME Sa!Inv, NEW q \in requests, NEW pc, NEW n, Sa!Answer(q, pc, n), pc # "new",
         n # 0 => /\ n \in DOMAIN turns /\ turns[n].call = q.call
                  /\ pc \in Sa!Ended \cup {"timeout"} /\ (pc # "timeout" => turns[n].status = pc)
  PROVE  Sa!Inv'
  <1>1. threads' = threads /\ turns' = turns /\ requests' = requests \ {q}
    BY DEF Sa!Answer
  <1>2. Sa!TypeOK
    BY DEF Sa!Inv
  <1>3. q.call \in Prompts
    BY <1>2 DEF Sa!TypeOK
  <1>4. \/ calls' = calls
        \/ /\ calls[q.call].pc = "posted"
           /\ calls' = [calls EXCEPT ![q.call].pc = pc, ![q.call].told = n]
    BY DEF Sa!Answer, Sa!WaitsFor
  <1>5. /\ calls' = [c \in Prompts |-> calls'[c]]
        /\ \A c \in Prompts :
              /\ calls'[c] = [pc |-> calls'[c].pc, try |-> calls'[c].try, by |-> calls'[c].by,
                              named |-> calls'[c].named, told |-> calls'[c].told]
              /\ calls'[c].try = calls[c].try /\ calls'[c].by = calls[c].by /\ calls'[c].named = calls[c].named
              /\ calls'[c] = calls[c] \/ (c = q.call /\ calls'[c].pc = pc /\ calls'[c].told = n)
              /\ calls'[c].pc = "new" => calls[c].pc = "new" /\ calls'[c] = calls[c]
    <2>1. /\ calls = [c \in Prompts |-> calls[c]]
          /\ \A c \in Prompts :
                calls[c] = [pc |-> calls[c].pc, try |-> calls[c].try, by |-> calls[c].by,
                            named |-> calls[c].named, told |-> calls[c].told]
      BY <1>2 DEF Sa!TypeOK
    <2>2. CASE calls' = calls
      BY <2>1, <2>2
    <2>3. CASE calls' = [calls EXCEPT ![q.call].pc = pc, ![q.call].told = n]
      <3>1. PICK old : old = calls[q.call]
        OBVIOUS
      <3>2. PICK mid : mid = [calls EXCEPT ![q.call].pc = pc]
        OBVIOUS
      <3>3. mid = [c \in Prompts |-> mid[c]] /\ \A c \in Prompts : c # q.call => mid[c] = calls[c]
        BY <1>3, <2>1, <3>2
      <3>4. mid[q.call] = [pc |-> pc, try |-> old.try, by |-> old.by, named |-> old.named, told |-> old.told]
        BY <1>3, <2>1, <3>1, <3>2
      <3>5. calls' = [mid EXCEPT ![q.call].told = n]
        BY <2>3, <3>2
      <3>6. calls' = [c \in Prompts |-> calls'[c]] /\ \A c \in Prompts : c # q.call => calls'[c] = calls[c]
        BY <1>3, <3>3, <3>5
      <3>7. calls'[q.call] = [pc |-> pc, try |-> old.try, by |-> old.by, named |-> old.named, told |-> n]
        BY <1>3, <3>3, <3>4, <3>5
      <3> QED BY <1>3, <2>1, <3>1, <3>6, <3>7
    <2> QED BY <1>4, <2>2, <2>3
  <1>6. requests' \subseteq requests /\ IsFiniteSet(requests')
    BY <1>1, <1>2, SubagentShape, FS_Subset
  <1>7. Sa!TypeOK'
    BY <1>1, <1>2, <1>5, <1>6, SubagentSets DEF Sa!TypeOK
  <1>8. Sa!ThreadsNestOnce'
    BY <1>1 DEF Sa!Inv, Sa!ThreadsNestOnce
  <1>9. \A c \in Prompts : Sa!Nested(c)' = Sa!Nested(c)
    BY <1>1, <1>2, <1>5, SubagentNested DEF Sa!Inv
  <1>10. \A c \in Prompts : calls'[c].pc = "new" => calls[c].pc = "new"
    BY <1>5
  <1>11. Sa!TurnsAreAsked'
    <2>1. \A j \in DOMAIN turns : turns[j].call # 0 => turns[j].call \in Prompts
      BY <1>2, SubagentShape
    <2>2. \A r \in requests : r.call \in Prompts
      BY <1>2, SubagentShape
    <2> QED BY <1>1, <1>6, <1>9, <1>10, <2>1, <2>2 DEF Sa!Inv, Sa!TurnsAreAsked, Sa!Nobody
  <1>12. Sa!ToldIsSo'
    BY <1>1, <1>5 DEF Sa!Inv, Sa!ToldIsSo, Sa!Nobody
  <1>13. \A c : Sa!Served(c)' = Sa!Served(c) /\ Sa!Open(c)' \subseteq Sa!Open(c)
    BY <1>1, <1>6 DEF Sa!Served, Sa!Open
  <1>14. Sa!ThreadsApart'
    BY <1>1, <1>5, <1>6, <1>13 DEF Sa!Inv, Sa!ThreadsApart, Sa!Ready
  <1>15. Sa!EachWasPosted'
    <2> SUFFICES ASSUME NEW c \in Prompts
                 PROVE  Sa!Cardinality(Sa!Served(c)') + Sa!Cardinality(Sa!Open(c)')
                          <= IF calls'[c].by = Sa!Nobody THEN 1 ELSE calls'[c].try
      BY DEF Sa!EachWasPosted
    <2>1. Sa!Cardinality(Sa!Served(c)') = Cardinality(Sa!Served(c))
      BY <1>13, SubagentSets
    <2>2. /\ Sa!Cardinality(Sa!Open(c)') = Cardinality(Sa!Open(c)')
          /\ Sa!Cardinality(Sa!Served(c)) = Cardinality(Sa!Served(c))
          /\ Sa!Cardinality(Sa!Open(c)) = Cardinality(Sa!Open(c))
      BY SubagentSets
    <2>3. /\ Cardinality(Sa!Open(c)') <= Cardinality(Sa!Open(c))
          /\ Cardinality(Sa!Open(c)') \in Nat /\ Cardinality(Sa!Open(c)) \in Nat
          /\ Cardinality(Sa!Served(c)) \in Nat
      <3>1. IsFiniteSet(Sa!Open(c)) /\ IsFiniteSet(Sa!Served(c)) /\ Sa!Open(c)' \subseteq Sa!Open(c)
        BY <1>2, <1>13, SubagentFinite
      <3> QED BY <3>1, FS_Subset, FS_CardinalityType
    <2>4. Sa!Cardinality(Sa!Served(c)) + Sa!Cardinality(Sa!Open(c))
            <= IF calls[c].by = Sa!Nobody THEN 1 ELSE calls[c].try
      BY DEF Sa!Inv, Sa!EachWasPosted
    <2>5. calls'[c].by = calls[c].by /\ calls'[c].try = calls[c].try /\ calls[c].try \in Nat
      BY <1>2, <1>5 DEF Sa!TypeOK
    <2> QED BY <2>1, <2>2, <2>3, <2>4, <2>5
  <1> QED BY <1>7, <1>8, <1>11, <1>12, <1>14, <1>15 DEF Sa!Inv

\* A script or a schedule asks.
LEMMA SubagentAsked ==
  ASSUME Sa!Inv, NEW c \in Prompts, NEW by, NEW try \in Nat, Sa!Asked(c, by, try),
         (by \in DOMAIN turns /\ try = 1) \/ (by = 0 /\ try = 0),
         requests' = requests \cup {Sa!Request(c, try)}, UNCHANGED <<threads, turns>>
  PROVE  Sa!Inv'
  <1>1. Sa!TypeOK
    BY DEF Sa!Inv
  <1>2. calls[c].pc = "new"
    BY DEF Sa!Asked
  <1>3. PICK n : /\ n = None \/ n \in DOMAIN threads
                 /\ calls' = [calls EXCEPT ![c] = [pc |-> "posted", try |-> try, by |-> by, named |-> n, told |-> 0]]
    BY DEF Sa!Asked, Sa!Nobody
  <1>4. /\ calls = [d \in Prompts |-> calls[d]]
        /\ \A d \in Prompts :
              /\ calls[d] = [pc |-> calls[d].pc, try |-> calls[d].try, by |-> calls[d].by,
                             named |-> calls[d].named, told |-> calls[d].told]
              /\ calls[d].try \in Nat
              /\ calls[d].by = 0 \/ calls[d].by \in DOMAIN turns
              /\ calls[d].named = None \/ calls[d].named \in DOMAIN threads
    BY <1>1 DEF Sa!TypeOK, Sa!Nobody
  <1>5. /\ calls' = [d \in Prompts |-> calls'[d]]
        /\ calls'[c] = [pc |-> "posted", try |-> try, by |-> by, named |-> n, told |-> 0]
        /\ \A d \in Prompts : d # c => calls'[d] = calls[d]
    BY <1>3, <1>4
  <1>6. PICK r : r = [call |-> c, try |-> try, pc |-> "sent", thread |-> 0, turn |-> 0]
    OBVIOUS
  <1>7. requests' = requests \cup {r}
    BY <1>6 DEF Sa!Request, Sa!Nobody
  <1>8. IsFiniteSet(requests')
    BY <1>1, <1>7, SubagentShape, FS_AddElement
  <1>9. Sa!TypeOK'
    <2>1. \A q \in requests' :
             /\ q = [call |-> q.call, try |-> q.try, pc |-> q.pc, thread |-> q.thread, turn |-> q.turn]
             /\ q.call \in Prompts
      BY <1>1, <1>6, <1>7 DEF Sa!TypeOK
    <2>2. ASSUME NEW d \in Prompts
          PROVE  /\ calls'[d] = [pc |-> calls'[d].pc, try |-> calls'[d].try, by |-> calls'[d].by,
                                 named |-> calls'[d].named, told |-> calls'[d].told]
                 /\ calls'[d].try \in Nat
                 /\ calls'[d].by = 0 \/ calls'[d].by \in DOMAIN turns
                 /\ calls'[d].named = None \/ calls'[d].named \in DOMAIN threads
      <3>1. CASE d = c
        BY <1>3, <1>5, <3>1
      <3>2. CASE d # c
        BY ONLY <1>4, <1>5, <3>2
      <3> QED BY <3>1, <3>2
    <2> QED BY <1>1, <1>5, <1>8, <2>1, <2>2, SubagentSets DEF Sa!TypeOK, Sa!Nobody
  <1>10. Sa!ThreadsNestOnce'
    BY DEF Sa!Inv, Sa!ThreadsNestOnce
  <1>11. Sa!Served(c) = {} /\ \A q \in requests : q.call # c
    BY <1>2, PromptsNumbered DEF Sa!Inv, Sa!TurnsAreAsked, Sa!Served, Sa!Nobody
  <1>12. \A d \in Prompts : d # c => Sa!Nested(d)' = Sa!Nested(d)
    BY <1>1, <1>5, SubagentNested DEF Sa!Inv
  <1>13. \A i \in DOMAIN turns : turns[i].call # 0 => turns[i].call \in Prompts /\ turns[i].call # c
    BY <1>1, <1>11, SubagentShape DEF Sa!Served
  <1>14. Sa!TurnsAreAsked'
    <2>1. ASSUME NEW i \in DOMAIN turns
          PROVE  /\ turns[i].thread \in DOMAIN threads
                 /\ turns[i].call # 0 => calls'[turns[i].call].pc # "new" /\ ~Sa!Nested(turns[i].call)'
      <3>1. /\ turns[i].thread \in DOMAIN threads
            /\ turns[i].call # 0 => calls[turns[i].call].pc # "new" /\ ~Sa!Nested(turns[i].call)
        BY DEF Sa!Inv, Sa!TurnsAreAsked, Sa!Nobody
      <3> QED BY <1>5, <1>12, <1>13, <3>1
    <2>2. ASSUME NEW q \in requests
          PROVE  /\ calls'[q.call].pc # "new"
                 /\ q.pc # "sent" => q.thread \in DOMAIN threads /\ ~Sa!Nested(q.call)'
                 /\ q.pc = "submitted" => q.turn \in DOMAIN turns /\ turns[q.turn].call = q.call
      <3>1. q.call \in Prompts /\ q.call # c
        BY <1>1, <1>11, SubagentShape
      <3> QED BY <1>5, <1>12, <3>1 DEF Sa!Inv, Sa!TurnsAreAsked
    <2>3. r.call = c /\ r.pc = "sent" /\ calls'[c].pc # "new"
      BY <1>5, <1>6
    <2> QED BY <1>7, <2>1, <2>2, <2>3 DEF Sa!TurnsAreAsked, Sa!Nobody
  <1>15. Sa!ToldIsSo'
    BY <1>5 DEF Sa!Inv, Sa!ToldIsSo, Sa!Nobody
  <1>16. \A d : Sa!Served(d)' = Sa!Served(d)
    BY DEF Sa!Served
  <1>17. Sa!Ready' = Sa!Ready
    BY <1>6, <1>7 DEF Sa!Ready
  <1>18. Sa!ThreadsApart'
    <2>1. Sa!Served(c)' = {} /\ \A q \in Sa!Ready' : q.call # c
      BY <1>11, <1>16, <1>17 DEF Sa!Ready
    <2> QED BY <1>5, <1>16, <1>17, <2>1 DEF Sa!Inv, Sa!ThreadsApart
  <1>19. Sa!EachWasPosted'
    <2> SUFFICES ASSUME NEW d \in Prompts
                 PROVE  Sa!Cardinality(Sa!Served(d)') + Sa!Cardinality(Sa!Open(d)')
                          <= IF calls'[d].by = Sa!Nobody THEN 1 ELSE calls'[d].try
      BY DEF Sa!EachWasPosted
    <2>1. CASE d = c
      <3>1. Sa!Served(d)' = {} /\ Sa!Open(d)' = {r}
        BY <1>6, <1>7, <1>11, <1>16, <2>1 DEF Sa!Open
      <3>2. Sa!Cardinality(Sa!Served(d)') = 0 /\ Sa!Cardinality(Sa!Open(d)') = 1
        BY <3>1, SubagentSets, FS_EmptySet, FS_Singleton
      <3> QED BY <1>5, <2>1, <3>2 DEF Sa!Nobody
    <2>2. CASE d # c
      <3>1. Sa!Served(d)' = Sa!Served(d) /\ Sa!Open(d)' = Sa!Open(d)
        BY <1>6, <1>7, <1>16, <2>2 DEF Sa!Open
      <3> QED BY <1>5, <2>2, <3>1 DEF Sa!Inv, Sa!EachWasPosted
    <2> QED BY <2>1, <2>2
  <1> QED BY <1>9, <1>10, <1>14, <1>15, <1>18, <1>19 DEF Sa!Inv

\* The calls are records, and what they are of.
LEMMA SubagentCalls ==
  ASSUME Sa!TypeOK
  PROVE  /\ calls = [d \in Prompts |-> calls[d]]
         /\ \A d \in Prompts :
               /\ calls[d] = [pc |-> calls[d].pc, try |-> calls[d].try, by |-> calls[d].by,
                              named |-> calls[d].named, told |-> calls[d].told]
               /\ calls[d].try \in Nat
               /\ calls[d].by = 0 \/ calls[d].by \in DOMAIN turns
               /\ calls[d].named = None \/ calls[d].named \in DOMAIN threads
  BY DEF Sa!TypeOK, Sa!Nobody

\* The client of a script is gone.
LEMMA SubagentGone ==
  ASSUME Sa!Inv, NEW c \in Prompts, calls[c].pc = "posted",
         calls' = [calls EXCEPT ![c].pc = "gone"], UNCHANGED <<threads, turns, requests>>
  PROVE  Sa!Inv'
  <1>1. Sa!TypeOK
    BY DEF Sa!Inv
  <1>2. /\ calls' = [d \in Prompts |-> calls'[d]]
        /\ calls'[c] = [pc |-> "gone", try |-> calls[c].try, by |-> calls[c].by,
                        named |-> calls[c].named, told |-> calls[c].told]
        /\ \A d \in Prompts : d # c => calls'[d] = calls[d]
    <2>1. PICK p, t, b, n, u : calls[c] = [pc |-> p, try |-> t, by |-> b, named |-> n, told |-> u]
      BY <1>1, SubagentCalls
    <2>2. calls = [d \in Prompts |-> calls[d]]
      BY <1>1, SubagentCalls
    <2> QED BY <2>1, <2>2
  <1>3. \A d \in Prompts : /\ calls'[d].by = calls[d].by /\ calls'[d].named = calls[d].named
                           /\ calls'[d].try = calls[d].try
                           /\ calls[d].pc # "new" => calls'[d].pc # "new"
    BY <1>2
  <1>4. Sa!TypeOK'
    <2>1. ASSUME NEW d \in Prompts
          PROVE  /\ calls'[d] = [pc |-> calls'[d].pc, try |-> calls'[d].try, by |-> calls'[d].by,
                                 named |-> calls'[d].named, told |-> calls'[d].told]
                 /\ calls'[d].try \in Nat
                 /\ calls'[d].by = 0 \/ calls'[d].by \in DOMAIN turns
                 /\ calls'[d].named = None \/ calls'[d].named \in DOMAIN threads
      BY <1>1, <1>2, <1>3, SubagentCalls
    <2> QED BY <1>1, <1>2, <2>1 DEF Sa!TypeOK, Sa!Nobody
  <1>5. Sa!ThreadsNestOnce'
    BY DEF Sa!Inv, Sa!ThreadsNestOnce
  <1>6. \A d \in Prompts : Sa!Nested(d)' = Sa!Nested(d)
    BY <1>1, <1>3, SubagentNested DEF Sa!Inv
  <1>7. Sa!TurnsAreAsked'
    <2>1. \A i \in DOMAIN turns : turns[i].call # 0 => turns[i].call \in Prompts
      BY <1>1, SubagentShape
    <2>2. \A q \in requests : q.call \in Prompts
      BY <1>1, SubagentShape
    <2> QED BY <1>3, <1>6, <2>1, <2>2 DEF Sa!Inv, Sa!TurnsAreAsked, Sa!Nobody
  <1>8. Sa!ToldIsSo'
    BY <1>2 DEF Sa!Inv, Sa!ToldIsSo, Sa!Nobody, Sa!Ended
  <1>9. \A d : Sa!Served(d)' = Sa!Served(d) /\ Sa!Open(d)' = Sa!Open(d)
    BY DEF Sa!Served, Sa!Open
  <1>10. Sa!ThreadsApart'
    BY <1>3, <1>9 DEF Sa!Inv, Sa!ThreadsApart, Sa!Ready
  <1>11. Sa!EachWasPosted'
    BY <1>3, <1>9 DEF Sa!Inv, Sa!EachWasPosted
  <1> QED BY <1>4, <1>5, <1>7, <1>8, <1>10, <1>11 DEF Sa!Inv

\* The client of a script posts its request again.
LEMMA SubagentRetry ==
  ASSUME Sa!Inv, NEW c \in Prompts, calls[c].pc = "posted", calls[c].by # 0,
         calls' = [calls EXCEPT ![c].try = @ + 1],
         requests' = requests \cup {Sa!Request(c, calls[c].try + 1)}, UNCHANGED <<threads, turns>>
  PROVE  Sa!Inv'
  <1>1. Sa!TypeOK
    BY DEF Sa!Inv
  <1>2. calls[c].try \in Nat /\ calls[c].try + 1 \in Nat
    BY <1>1, SubagentCalls
  <1>3. /\ calls' = [d \in Prompts |-> calls'[d]]
        /\ calls'[c] = [pc |-> "posted", try |-> calls[c].try + 1, by |-> calls[c].by,
                        named |-> calls[c].named, told |-> calls[c].told]
        /\ \A d \in Prompts : d # c => calls'[d] = calls[d]
    <2>1. PICK p, t, b, n, u : calls[c] = [pc |-> p, try |-> t, by |-> b, named |-> n, told |-> u]
      BY <1>1, SubagentCalls
    <2>2. calls = [d \in Prompts |-> calls[d]]
      BY <1>1, SubagentCalls
    <2> QED BY <2>1, <2>2
  <1>4. \A d \in Prompts : /\ calls'[d].by = calls[d].by /\ calls'[d].named = calls[d].named
                           /\ calls'[d].pc = calls[d].pc /\ calls'[d].told = calls[d].told
    BY <1>3
  <1>5. PICK r : r = [call |-> c, try |-> calls[c].try + 1, pc |-> "sent", thread |-> 0, turn |-> 0]
    OBVIOUS
  <1>6. requests' = requests \cup {r}
    BY <1>5 DEF Sa!Request, Sa!Nobody
  <1>7. IsFiniteSet(requests')
    BY <1>1, <1>6, SubagentShape, FS_AddElement
  <1>8. Sa!TypeOK'
    <2>1. \A q \in requests' :
             /\ q = [call |-> q.call, try |-> q.try, pc |-> q.pc, thread |-> q.thread, turn |-> q.turn]
             /\ q.call \in Prompts
      BY <1>1, <1>5, <1>6 DEF Sa!TypeOK
    <2>2. ASSUME NEW d \in Prompts
          PROVE  /\ calls'[d] = [pc |-> calls'[d].pc, try |-> calls'[d].try, by |-> calls'[d].by,
                                 named |-> calls'[d].named, told |-> calls'[d].told]
                 /\ calls'[d].try \in Nat
                 /\ calls'[d].by = 0 \/ calls'[d].by \in DOMAIN turns
                 /\ calls'[d].named = None \/ calls'[d].named \in DOMAIN threads
      BY <1>1, <1>2, <1>3, <1>4, SubagentCalls
    <2> QED BY <1>1, <1>3, <1>7, <2>1, <2>2, SubagentSets DEF Sa!TypeOK, Sa!Nobody
  <1>9. Sa!ThreadsNestOnce'
    BY DEF Sa!Inv, Sa!ThreadsNestOnce
  <1>10. \A d \in Prompts : Sa!Nested(d)' = Sa!Nested(d)
    BY <1>1, <1>4, SubagentNested DEF Sa!Inv
  <1>11. Sa!TurnsAreAsked'
    <2>1. \A i \in DOMAIN turns : turns[i].call # 0 => turns[i].call \in Prompts
      BY <1>1, SubagentShape
    <2>2. \A q \in requests : q.call \in Prompts
      BY <1>1, SubagentShape
    <2>3. r.call = c /\ r.pc = "sent" /\ calls'[c].pc # "new"
      BY <1>3, <1>5
    <2> QED BY <1>4, <1>6, <1>10, <2>1, <2>2, <2>3 DEF Sa!Inv, Sa!TurnsAreAsked, Sa!Nobody
  <1>12. Sa!ToldIsSo'
    BY <1>3, <1>4 DEF Sa!Inv, Sa!ToldIsSo, Sa!Nobody
  <1>13. \A d : Sa!Served(d)' = Sa!Served(d) /\ (d # c => Sa!Open(d)' = Sa!Open(d))
    BY <1>5, <1>6 DEF Sa!Served, Sa!Open
  <1>14. Sa!Open(c)' = Sa!Open(c) \cup {r}
    BY <1>5, <1>6 DEF Sa!Open
  <1>15. Sa!ThreadsApart'
    <2>1. Sa!Ready' = Sa!Ready
      BY <1>5, <1>6 DEF Sa!Ready
    <2> QED BY <1>4, <1>13, <2>1 DEF Sa!Inv, Sa!ThreadsApart
  <1>16. Sa!EachWasPosted'
    <2> SUFFICES ASSUME NEW d \in Prompts
                 PROVE  Sa!Cardinality(Sa!Served(d)') + Sa!Cardinality(Sa!Open(d)')
                          <= IF calls'[d].by = Sa!Nobody THEN 1 ELSE calls'[d].try
      BY DEF Sa!EachWasPosted
    <2>1. CASE d # c
      <3>1. calls'[d] = calls[d] /\ Sa!Served(d)' = Sa!Served(d) /\ Sa!Open(d)' = Sa!Open(d)
        BY <1>3, <1>13, <2>1
      <3> QED BY <3>1 DEF Sa!Inv, Sa!EachWasPosted
    <2>2. CASE d = c
      <3>1. PICK a, b, e : a = Cardinality(Sa!Served(c)) /\ b = Cardinality(Sa!Open(c)) /\ e = Cardinality(Sa!Open(c)')
        OBVIOUS
      <3>2. /\ Sa!Cardinality(Sa!Served(c)') = a /\ Sa!Cardinality(Sa!Open(c)') = e
            /\ Sa!Cardinality(Sa!Served(c)) = a /\ Sa!Cardinality(Sa!Open(c)) = b
        BY <1>13, <3>1, SubagentSets
      <3>3. a + b <= calls[c].try
        BY <3>2 DEF Sa!Inv, Sa!EachWasPosted, Sa!Nobody
      <3>4. IsFiniteSet(Sa!Open(c)) /\ IsFiniteSet(Sa!Served(c))
        BY <1>1, SubagentFinite
      <3>5. a \in Nat /\ b \in Nat /\ (e = b \/ e = b + 1)
        BY <1>14, <3>1, <3>4, FS_AddElement, FS_CardinalityType
      <3>6. calls'[c].by # 0 /\ calls'[c].try = calls[c].try + 1
        BY <1>3
      <3> QED BY <1>2, <2>2, <3>2, <3>3, <3>5, <3>6 DEF Sa!Nobody
    <2> QED BY <2>1, <2>2
  <1> QED BY <1>8, <1>9, <1>11, <1>12, <1>15, <1>16 DEF Sa!Inv

\* A request has its thread, the one that was named or a new one.
LEMMA SubagentPrepare ==
  ASSUME Sa!Inv, NEW q \in requests, Sa!Prepare(q)
  PROVE  Sa!Inv'
  <1>1. Sa!TypeOK
    BY DEF Sa!Inv
  <1>2. PICK c \in Prompts : c = q.call
    BY <1>1, SubagentShape
  <1>3. q.pc = "sent" /\ ~Sa!Nested(c) /\ turns' = turns /\ calls' = calls
    BY <1>2 DEF Sa!Prepare
  <1>4. PICK n : n = Len(threads)
    OBVIOUS
  <1>5. n \in Nat /\ DOMAIN threads = 1..n
    BY <1>1, <1>4, SubagentShape
  <1>6. PICK row : row = [kind |-> IF calls[c].by = 0 THEN "thread" ELSE "subagent", parent |-> Sa!CallerThread(c)]
    OBVIOUS
  <1>7. PICK x : x = IF calls[c].named # None THEN calls[c].named ELSE n + 1
    OBVIOUS
  <1>7a. /\ requests' = (requests \ {q}) \cup {[q EXCEPT !.pc = "ready", !.thread = x]}
         /\ \/ (calls[c].named # None /\ x = calls[c].named /\ threads' = threads)
            \/ (calls[c].named = None /\ x = n + 1 /\ threads' = Append(threads, row))
    <2>1. CASE calls[c].named # None
      <3>1. x = calls[c].named
        BY <1>7, <2>1
      <3>2. requests' = (requests \ {q}) \cup {[q EXCEPT !.pc = "ready", !.thread = calls[c].named]} /\ threads' = threads
        BY <1>2, <2>1, Zenon DEF Sa!Prepare, Sa!Goes
      <3> QED BY <2>1, <3>1, <3>2, Zenon
    <2>2. CASE calls[c].named = None
      <3>1. threads' = Append(threads, row)
            /\ requests' = (requests \ {q}) \cup {[q EXCEPT !.pc = "ready", !.thread = Len(threads')]}
        BY <1>2, <1>6, <2>2, Zenon DEF Sa!Prepare, Sa!Goes, Sa!Nobody
      <3>2. Len(threads') = n + 1
        BY <1>1, <1>4, <3>1 DEF Sa!TypeOK
      <3>3. x = n + 1
        BY <1>7, <2>2
      <3> QED BY <2>2, <3>1, <3>2, <3>3, Zenon
    <2> QED BY <2>1, <2>2
  <1>8. \/ (Sa!CallerThread(c) = 0 /\ calls[c].by = 0)
        \/ (Sa!CallerThread(c) \in DOMAIN threads /\ threads[Sa!CallerThread(c)].kind = "thread")
    <2>1. CASE calls[c].by = 0
      BY <2>1 DEF Sa!CallerThread, Sa!Nobody
    <2>2. CASE calls[c].by # 0
      <3>1. calls[c].by \in DOMAIN turns /\ Sa!CallerThread(c) = turns[calls[c].by].thread
        BY <1>1, <2>2, SubagentCalls DEF Sa!CallerThread, Sa!Nobody
      <3>2. Sa!CallerThread(c) \in DOMAIN threads
        BY <3>1 DEF Sa!Inv, Sa!TurnsAreAsked
      <3> QED BY <1>3, <1>5, <3>2 DEF Sa!Nested, Sa!Nobody
    <2> QED BY <2>1, <2>2
  <1>9. row \in Sa!Row
    BY <1>5, <1>6, <1>8 DEF Sa!Row
  <1>10. /\ threads' \in Seq(Sa!Row) /\ DOMAIN threads \subseteq DOMAIN threads'
         /\ \A t \in DOMAIN threads : threads'[t] = threads[t]
         /\ \A t \in DOMAIN threads' : t \in DOMAIN threads \/ (t = n + 1 /\ threads'[t] = row)
         /\ x \in DOMAIN threads' /\ (calls[c].named = None => x \notin DOMAIN threads)
    <2>1. PICK SomeRows : SomeRows = Sa!Row
      OBVIOUS
    <2>2. threads \in Seq(SomeRows) /\ row \in SomeRows
      BY <1>1, <1>9, <2>1 DEF Sa!TypeOK
    <2>3. CASE threads' = threads
      <3>1. x = calls[c].named /\ calls[c].named # None
        BY <1>5, <1>7a, <2>3
      <3> QED BY <1>1, <2>1, <2>2, <2>3, <3>1, SubagentCalls
    <2>4. CASE threads' = Append(threads, row) /\ x = n + 1
      BY ONLY <1>4, <1>5, <2>1, <2>2, <2>4
    <2> QED BY <1>7a, <2>3, <2>4
  <1>11. PICK r : r = [call |-> c, try |-> q.try, pc |-> "ready", thread |-> x, turn |-> q.turn]
    OBVIOUS
  <1>12. requests' = (requests \ {q}) \cup {r}
    <2>1. q = [call |-> c, try |-> q.try, pc |-> q.pc, thread |-> q.thread, turn |-> q.turn]
      BY <1>1, <1>2 DEF Sa!TypeOK
    <2>2. PICK t, p, h, u : q = [call |-> c, try |-> t, pc |-> p, thread |-> h, turn |-> u]
      BY <2>1
    <2>3. [q EXCEPT !.pc = "ready", !.thread = x] = [call |-> c, try |-> t, pc |-> "ready", thread |-> x, turn |-> u]
      <3>1. PICK mid : mid = [q EXCEPT !.pc = "ready"]
        OBVIOUS
      <3>2. mid = [call |-> c, try |-> t, pc |-> "ready", thread |-> h, turn |-> u]
        BY <2>2, <3>1
      <3>3. [mid EXCEPT !.thread = x] = [call |-> c, try |-> t, pc |-> "ready", thread |-> x, turn |-> u]
        BY <3>2
      <3> QED BY <3>1, <3>3, Zenon
    <2>4. r = [call |-> c, try |-> t, pc |-> "ready", thread |-> x, turn |-> u]
      BY <1>11, <2>2
    <2> QED BY <1>7a, <2>3, <2>4
  <1>13. IsFiniteSet(requests')
    BY <1>1, <1>12, SubagentShape, FS_AddElement, FS_RemoveElement
  <1>14. Sa!TypeOK'
    <2>1. \A p \in requests' :
             /\ p = [call |-> p.call, try |-> p.try, pc |-> p.pc, thread |-> p.thread, turn |-> p.turn]
             /\ p.call \in Prompts
      BY <1>1, <1>11, <1>12 DEF Sa!TypeOK
    <2> QED BY <1>1, <1>3, <1>10, <1>13, <2>1, SubagentSets DEF Sa!TypeOK
  <1>15. Sa!ThreadsNestOnce'
    <2>1. \A t \in DOMAIN threads : threads[t].kind = "subagent" =>
             threads[t].parent \in DOMAIN threads /\ threads[threads[t].parent].kind = "thread"
      BY DEF Sa!Inv, Sa!ThreadsNestOnce
    <2>2. row.kind = "subagent" => row.parent \in DOMAIN threads /\ threads[row.parent].kind = "thread"
      BY <1>6, <1>8
    <2> QED BY <1>10, <2>1, <2>2 DEF Sa!ThreadsNestOnce
  <1>16. \A d \in Prompts : Sa!Nested(d)' = Sa!Nested(d)
    BY <1>1, <1>3, <1>10, SubagentNested DEF Sa!Inv
  <1>17. Sa!TurnsAreAsked'
    <2>1. \A i \in DOMAIN turns : turns[i].call # 0 => turns[i].call \in Prompts
      BY <1>1, SubagentShape
    <2>2. \A p \in requests : p.call \in Prompts
      BY <1>1, SubagentShape
    <2>3. r.call = c /\ r.pc = "ready" /\ r.thread \in DOMAIN threads' /\ calls[c].pc # "new" /\ ~Sa!Nested(c)
      BY <1>2, <1>3, <1>10, <1>11 DEF Sa!Inv, Sa!TurnsAreAsked
    <2> QED BY <1>3, <1>10, <1>12, <1>16, <2>1, <2>2, <2>3 DEF Sa!Inv, Sa!TurnsAreAsked, Sa!Nobody
  <1>18. Sa!ToldIsSo'
    BY <1>3 DEF Sa!Inv, Sa!ToldIsSo
  <1>19. \A d : Sa!Served(d)' = Sa!Served(d) /\ (d # c => Sa!Open(d)' = Sa!Open(d))
    BY <1>2, <1>3, <1>11, <1>12 DEF Sa!Served, Sa!Open
  <1>20. Sa!Open(c)' = (Sa!Open(c) \ {q}) \cup {r} /\ q \in Sa!Open(c)
    BY <1>2, <1>3, <1>11, <1>12 DEF Sa!Open
  <1>21. Sa!ThreadsApart'
    <2>1. Sa!Ready' = Sa!Ready \cup {r} /\ r.call = c /\ r.thread = x
      BY <1>3, <1>11, <1>12 DEF Sa!Ready
    <2>2. \A i \in DOMAIN turns : turns[i].thread \in DOMAIN threads
      BY DEF Sa!Inv, Sa!TurnsAreAsked
    <2>3. \A p \in Sa!Ready : p.thread \in DOMAIN threads
      BY DEF Sa!Inv, Sa!TurnsAreAsked, Sa!Ready
    <2>4. \A i \in Sa!Served(c) : i \in DOMAIN turns
      BY DEF Sa!Served
    <2> QED BY <1>3, <1>10, <1>19, <2>1, <2>2, <2>3, <2>4 DEF Sa!Inv, Sa!ThreadsApart
  <1>22. Sa!EachWasPosted'
    <2> SUFFICES ASSUME NEW d \in Prompts
                 PROVE  Sa!Cardinality(Sa!Served(d)') + Sa!Cardinality(Sa!Open(d)')
                          <= IF calls[d].by = Sa!Nobody THEN 1 ELSE calls[d].try
      BY <1>3 DEF Sa!EachWasPosted
    <2>1. Sa!Cardinality(Sa!Served(d)) + Sa!Cardinality(Sa!Open(d))
            <= IF calls[d].by = Sa!Nobody THEN 1 ELSE calls[d].try
      BY DEF Sa!Inv, Sa!EachWasPosted
    <2>2. CASE d # c
      BY <1>19, <2>1, <2>2
    <2>3. CASE d = c
      <3>1. IsFiniteSet(Sa!Open(c)) /\ IsFiniteSet(Sa!Served(c))
        BY <1>1, SubagentFinite
      <3>2. PICK a, b, e : a = Cardinality(Sa!Served(c)) /\ b = Cardinality(Sa!Open(c)) /\ e = Cardinality(Sa!Open(c)')
        OBVIOUS
      <3>3. /\ Sa!Cardinality(Sa!Served(c)') = a /\ Sa!Cardinality(Sa!Open(c)') = e
            /\ Sa!Cardinality(Sa!Served(c)) = a /\ Sa!Cardinality(Sa!Open(c)) = b
        BY <1>19, <3>2, SubagentSets
      <3>4. PICK O : O = Sa!Open(c) \ {q}
        OBVIOUS
      <3>5. IsFiniteSet(O) /\ Cardinality(O) = b - 1 /\ b \in Nat /\ a \in Nat
        BY <1>20, <3>1, <3>2, <3>4, FS_RemoveElement, FS_CardinalityType
      <3>6. e = Cardinality(O \cup {r})
        BY <1>20, <3>2, <3>4
      <3>7. e = b - 1 \/ e = b
        BY <3>5, <3>6, FS_AddElement
      <3>8. calls[c].try \in Nat
        BY <1>1, SubagentCalls
      <3> QED BY <2>1, <2>3, <3>3, <3>5, <3>7, <3>8 DEF Sa!Nobody
    <2> QED BY <2>2, <2>3
  <1> QED BY <1>14, <1>15, <1>17, <1>18, <1>21, <1>22 DEF Sa!Inv

\* The turn of a request is submitted.
LEMMA SubagentSubmit ==
  ASSUME Sa!Inv, NEW q \in requests, Sa!Submit(q)
  PROVE  Sa!Inv'
  <1>1. Sa!TypeOK
    BY DEF Sa!Inv
  <1>2. PICK c \in Prompts : c = q.call
    BY <1>1, SubagentShape
  <1>3. q.pc = "ready" /\ threads' = threads /\ calls' = calls
    BY DEF Sa!Submit
  <1>4. PICK n : n = Len(turns) + 1
    OBVIOUS
  <1>5. n \in Nat /\ DOMAIN turns = 1..(n - 1) /\ n \notin DOMAIN turns
    BY <1>1, <1>4, SubagentShape
  <1>6. PICK h : h = [thread |-> q.thread, call |-> c, status |-> "queued", submitted |-> TRUE]
    OBVIOUS
  <1>7. turns' = Append(turns, h)
    BY <1>2, <1>6 DEF Sa!Submit
  <1>8. q.thread \in DOMAIN threads /\ ~Sa!Nested(c) /\ calls[c].pc # "new"
    BY <1>2, <1>3 DEF Sa!Inv, Sa!TurnsAreAsked
  <1>9. h \in Sa!Handle
    <2>1. q.thread \in Nat
      BY <1>1, <1>8, SubagentShape
    <2> QED BY <1>6, <2>1 DEF Sa!Handle, Sa!Statuses
  <1>10. /\ turns' \in Seq(Sa!Handle) /\ Len(turns') = n /\ DOMAIN turns' = DOMAIN turns \cup {n}
         /\ \A i \in DOMAIN turns : turns'[i] = turns[i]
         /\ turns'[n] = h
    <2>1. PICK Handles : Handles = Sa!Handle
      OBVIOUS
    <2>2. turns \in Seq(Handles) /\ h \in Handles
      BY <1>1, <1>9, <2>1 DEF Sa!TypeOK
    <2> QED BY ONLY <1>4, <1>7, <2>1, <2>2
  <1>11. PICK r : r = [call |-> c, try |-> q.try, pc |-> "submitted", thread |-> q.thread, turn |-> n]
    OBVIOUS
  <1>12. requests' = (requests \ {q}) \cup {r}
    <2>1. requests' = (requests \ {q}) \cup {[q EXCEPT !.pc = "submitted", !.turn = n]}
      BY <1>10 DEF Sa!Submit, Sa!Goes
    <2>2. q = [call |-> c, try |-> q.try, pc |-> q.pc, thread |-> q.thread, turn |-> q.turn]
      BY <1>1, <1>2 DEF Sa!TypeOK
    <2>3. PICK t, p, x, u : q = [call |-> c, try |-> t, pc |-> p, thread |-> x, turn |-> u]
      BY <2>2
    <2>4. PICK mid : mid = [q EXCEPT !.pc = "submitted"]
      OBVIOUS
    <2>5. mid = [call |-> c, try |-> t, pc |-> "submitted", thread |-> x, turn |-> u]
      BY <2>3, <2>4
    <2>6. [mid EXCEPT !.turn = n] = [call |-> c, try |-> t, pc |-> "submitted", thread |-> x, turn |-> n]
      BY <2>5
    <2>7. r = [call |-> c, try |-> t, pc |-> "submitted", thread |-> x, turn |-> n]
      BY <1>11, <2>3
    <2> QED BY <2>1, <2>4, <2>6, <2>7, Zenon
  <1>13. IsFiniteSet(requests')
    BY <1>1, <1>12, SubagentShape, FS_AddElement, FS_RemoveElement
  <1>14. Sa!TypeOK'
    <2>1. \A p \in requests' :
             /\ p = [call |-> p.call, try |-> p.try, pc |-> p.pc, thread |-> p.thread, turn |-> p.turn]
             /\ p.call \in Prompts
      BY <1>1, <1>11, <1>12 DEF Sa!TypeOK
    <2> QED BY <1>1, <1>3, <1>10, <1>13, <2>1, SubagentSets DEF Sa!TypeOK
  <1>15. Sa!ThreadsNestOnce'
    BY <1>3 DEF Sa!Inv, Sa!ThreadsNestOnce
  <1>16. \A d \in Prompts : Sa!Nested(d)' = Sa!Nested(d)
    BY <1>1, <1>3, <1>10, SubagentNested DEF Sa!Inv
  <1>17. Sa!TurnsAreAsked'
    <2>1. \A i \in DOMAIN turns : turns[i].call # 0 => turns[i].call \in Prompts
      BY <1>1, SubagentShape
    <2>2. \A p \in requests : p.call \in Prompts
      BY <1>1, SubagentShape
    <2>3. /\ r.call = c /\ r.thread = q.thread /\ r.turn = n /\ h.call = c /\ h.thread = q.thread
      BY <1>6, <1>11
    <2> QED BY <1>3, <1>8, <1>10, <1>12, <1>16, <2>1, <2>2, <2>3 DEF Sa!Inv, Sa!TurnsAreAsked, Sa!Nobody
  <1>18. Sa!ToldIsSo'
    BY <1>3, <1>10 DEF Sa!Inv, Sa!ToldIsSo
  <1>19. \A d : d # c => Sa!Served(d)' = Sa!Served(d) /\ Sa!Open(d)' = Sa!Open(d)
    BY <1>2, <1>5, <1>6, <1>10, <1>11, <1>12 DEF Sa!Served, Sa!Open
  <1>20. /\ Sa!Served(c)' = Sa!Served(c) \cup {n} /\ n \notin Sa!Served(c)
         /\ Sa!Open(c)' = Sa!Open(c) \ {q} /\ q \in Sa!Open(c)
    BY <1>2, <1>3, <1>5, <1>6, <1>10, <1>11, <1>12 DEF Sa!Served, Sa!Open
  <1>21. Sa!ThreadsApart'
    <2>1. Sa!Ready' = Sa!Ready \ {q} /\ q \in Sa!Ready
      BY <1>3, <1>11, <1>12 DEF Sa!Ready
    <2>2. \A d : \A i \in Sa!Served(d) : turns'[i].thread = turns[i].thread
      BY <1>10 DEF Sa!Served
    <2>3. turns'[n].thread = q.thread
      BY <1>6, <1>10
    <2> QED BY <1>2, <1>3, <1>19, <1>20, <2>1, <2>2, <2>3 DEF Sa!Inv, Sa!ThreadsApart
  <1>22. Sa!EachWasPosted'
    <2> SUFFICES ASSUME NEW d \in Prompts
                 PROVE  Sa!Cardinality(Sa!Served(d)') + Sa!Cardinality(Sa!Open(d)')
                          <= IF calls[d].by = Sa!Nobody THEN 1 ELSE calls[d].try
      BY <1>3 DEF Sa!EachWasPosted
    <2>1. Sa!Cardinality(Sa!Served(d)) + Sa!Cardinality(Sa!Open(d))
            <= IF calls[d].by = Sa!Nobody THEN 1 ELSE calls[d].try
      BY DEF Sa!Inv, Sa!EachWasPosted
    <2>2. CASE d # c
      BY <1>19, <2>1, <2>2
    <2>3. CASE d = c
      <3>1. IsFiniteSet(Sa!Open(c)) /\ IsFiniteSet(Sa!Served(c))
        BY <1>1, SubagentFinite
      <3>2. PICK a, b : a = Cardinality(Sa!Served(c)) /\ b = Cardinality(Sa!Open(c))
        OBVIOUS
      <3>3. a \in Nat /\ b \in Nat /\ Cardinality(Sa!Served(c)') = a + 1 /\ Cardinality(Sa!Open(c)') = b - 1
        BY <1>20, <3>1, <3>2, FS_AddElement, FS_RemoveElement, FS_CardinalityType
      <3>4. /\ Sa!Cardinality(Sa!Served(c)') = a + 1 /\ Sa!Cardinality(Sa!Open(c)') = b - 1
            /\ Sa!Cardinality(Sa!Served(c)) = a /\ Sa!Cardinality(Sa!Open(c)) = b
        BY <3>2, <3>3, SubagentSets
      <3> QED BY <2>1, <2>3, <3>3, <3>4
    <2> QED BY <2>2, <2>3
  <1> QED BY <1>14, <1>15, <1>17, <1>18, <1>21, <1>22 DEF Sa!Inv

\* The invariant holds before anything was asked.
LEMMA SubagentInit ==
  ASSUME Sa!Init
  PROVE  Sa!Inv
  <1>1. /\ threads = <<[kind |-> "thread", parent |-> 0]>> /\ requests = {}
        /\ calls = [c \in Prompts |-> [pc |-> "new", try |-> 0, by |-> 0, named |-> None, told |-> 0]]
    BY DEF Sa!Init, Sa!Unasked, Sa!Nobody
  <1>2. PICK s \in BOOLEAN : turns = <<[thread |-> 1, call |-> 0, status |-> "running", submitted |-> s]>>
    BY DEF Sa!Init, Sa!Nobody
  <1>3. /\ DOMAIN threads = {1} /\ threads[1].kind = "thread"
        /\ DOMAIN turns = {1} /\ turns[1].thread = 1 /\ turns[1].call = 0
    BY <1>1, <1>2
  <1>4. threads \in Seq(Sa!Row) /\ turns \in Seq(Sa!Handle)
    <2>1. PICK row \in Sa!Row : threads = <<row>>
      BY <1>1 DEF Sa!Row
    <2>2. PICK h \in Sa!Handle : turns = <<h>>
      BY <1>2 DEF Sa!Handle, Sa!Nobody, Sa!Statuses
    <2> QED BY ONLY <2>1, <2>2
  <1>5. Sa!TypeOK
    BY <1>1, <1>4, SubagentSets, FS_EmptySet DEF Sa!TypeOK, Sa!Nobody
  <1>6. Sa!ThreadsNestOnce
    BY <1>3 DEF Sa!ThreadsNestOnce
  <1>7. Sa!TurnsAreAsked
    BY <1>1, <1>3 DEF Sa!TurnsAreAsked, Sa!Nobody
  <1>8. Sa!ToldIsSo
    BY <1>1 DEF Sa!ToldIsSo, Sa!Unasked, Sa!Nobody
  <1>9. \A c \in Prompts : Sa!Served(c) = {} /\ Sa!Open(c) = {}
    BY <1>1, <1>3, PromptsNumbered DEF Sa!Served, Sa!Open
  <1>10. Sa!ThreadsApart
    BY <1>1, <1>9 DEF Sa!ThreadsApart, Sa!Ready
  <1>11. Sa!EachWasPosted
    <2>1. Sa!Cardinality({}) = 0
      BY SubagentSets, FS_EmptySet
    <2> QED BY <1>1, <1>9, <2>1 DEF Sa!EachWasPosted, Sa!Nobody
  <1> QED BY <1>5, <1>6, <1>7, <1>8, <1>10, <1>11 DEF Sa!Inv

\* Every step keeps the invariant.
LEMMA SubagentStep ==
  ASSUME Sa!Inv, [Sa!Next]_(Sa!savars)
  PROVE  Sa!Inv'
  <1>1. ASSUME NEW c \in Prompts, Sa!Call(c) PROVE Sa!Inv'
    <2>1. PICK i \in DOMAIN turns : Sa!Asked(c, i, 1)
      BY <1>1 DEF Sa!Call, Sa!Running
    <2> QED BY <1>1, <2>1, SubagentAsked DEF Sa!Call
  <1>2. ASSUME NEW c \in Prompts, Sa!ScheduledPrompt(c) PROVE Sa!Inv'
    BY <1>2, SubagentAsked DEF Sa!ScheduledPrompt, Sa!Nobody
  <1>3. ASSUME NEW c \in Prompts, Sa!ClientTimeout(c) \/ Sa!ScriptDies(c) PROVE Sa!Inv'
    <2>1. calls[c].pc = "posted" /\ calls[c].by # 0 /\ threads' = threads /\ turns' = turns
      BY <1>3 DEF Sa!ClientTimeout, Sa!ScriptDies, Sa!WaitsFor, Sa!Nobody
    <2>2. \/ calls' = [calls EXCEPT ![c].pc = "gone"] /\ requests' = requests
          \/ /\ calls' = [calls EXCEPT ![c].try = @ + 1]
             /\ requests' = requests \cup {Sa!Request(c, calls[c].try + 1)}
      BY <1>3 DEF Sa!ClientTimeout, Sa!ScriptDies
    <2> QED BY <2>1, <2>2, SubagentGone, SubagentRetry
  <1>4. ASSUME NEW q \in requests, Sa!Refuse(q) PROVE Sa!Inv'
    BY <1>4, SubagentAnswer DEF Sa!Refuse, Sa!Nobody
  <1>5. ASSUME NEW q \in requests, Sa!Waited(q) \/ Sa!WaitExpires(q) PROVE Sa!Inv'
    <2>1. q.turn \in DOMAIN turns /\ turns[q.turn].call = q.call
      BY <1>5 DEF Sa!Waited, Sa!WaitExpires, Sa!Started, Sa!Inv, Sa!TurnsAreAsked
    <2>2. CASE Sa!Waited(q)
      BY <2>1, <2>2, SubagentAnswer DEF Sa!Waited, Sa!Ended
    <2>3. CASE Sa!WaitExpires(q)
      BY <2>1, <2>3, SubagentAnswer DEF Sa!WaitExpires, Sa!Ended
    <2> QED BY <1>5, <2>2, <2>3
  <1>6. ASSUME NEW i \in DOMAIN turns, Sa!StartTurn(i) \/ Sa!EndTurn(i) \/ Sa!Absorb(i) PROVE Sa!Inv'
    <2>1. turns[i].status \notin Sa!Ended /\ UNCHANGED <<threads, calls, requests>>
      BY <1>6 DEF Sa!StartTurn, Sa!EndTurn, Sa!Absorb, Sa!Running, Sa!Ended
    <2>2. \/ Sa!SetStatus(i, "failed") \/ Sa!SetStatus(i, "running")
          \/ Sa!SetStatus(i, "completed") \/ Sa!SetStatus(i, "merged")
      BY <1>6 DEF Sa!StartTurn, Sa!EndTurn, Sa!Absorb
    <2>3. {"failed", "running", "completed", "merged"} \subseteq Sa!Statuses
      BY DEF Sa!Statuses, Sa!Ended
    <2> QED BY <2>1, <2>2, <2>3, SubagentStatus
  <1>7. CASE UNCHANGED Sa!savars
    <2>1. \A c : Sa!Served(c)' = Sa!Served(c) /\ Sa!Open(c)' = Sa!Open(c) /\ Sa!Nested(c)' = Sa!Nested(c)
      BY <1>7 DEF Sa!savars, Sa!Served, Sa!Open, Sa!Nested, Sa!CallerThread
    <2> QED BY <1>7, <2>1 DEF Sa!savars, Sa!Inv, Sa!TypeOK, Sa!ThreadsNestOnce, Sa!TurnsAreAsked, Sa!ToldIsSo,
               Sa!ThreadsApart, Sa!Ready, Sa!EachWasPosted
  <1> QED BY <1>1, <1>2, <1>3, <1>4, <1>5, <1>6, <1>7, SubagentPrepare, SubagentSubmit DEF Sa!Next

\* The invariant is what a caller wants to know, and more.
LEMMA SubagentGiven ==
  ASSUME Sa!Inv
  PROVE  Sa!SubagentAnswersItsCaller
  <1>1. ASSUME NEW c \in Prompts, calls[c].told # 0
        PROVE  /\ turns[calls[c].told].call = c
               /\ calls[c].pc # "timeout" => turns[calls[c].told].status = calls[c].pc
               /\ calls[c].named = None => \A i \in DOMAIN turns :
                     (turns[i].thread = turns[calls[c].told].thread /\ i # calls[c].told) => turns[i].call # c
    <2>1. calls[c].told \in DOMAIN turns /\ turns[calls[c].told].call = c
      BY <1>1 DEF Sa!Inv, Sa!ToldIsSo, Sa!Nobody
    <2>2. calls[c].pc # "timeout" => turns[calls[c].told].status = calls[c].pc
      BY <1>1 DEF Sa!Inv, Sa!ToldIsSo, Sa!Nobody
    <2>3. calls[c].named = None => \A i, j \in Sa!Served(c) : i # j => turns[i].thread # turns[j].thread
      BY DEF Sa!Inv, Sa!ThreadsApart
    <2> QED BY <2>1, <2>2, <2>3 DEF Sa!Served
  <1>2. ASSUME NEW c \in Prompts
        PROVE  Sa!Cardinality(Sa!Served(c)) <= IF calls[c].by = 0 THEN 1 ELSE calls[c].try
    <2>1. PICK a, b : a = Cardinality(Sa!Served(c)) /\ b = Cardinality(Sa!Open(c))
      OBVIOUS
    <2>2. a \in Nat /\ b \in Nat
      BY <2>1, SubagentFinite, FS_CardinalityType DEF Sa!Inv
    <2>3. Sa!Cardinality(Sa!Served(c)) = a /\ Sa!Cardinality(Sa!Open(c)) = b
      BY <2>1, SubagentSets
    <2>4. a + b <= IF calls[c].by = 0 THEN 1 ELSE calls[c].try
      BY <2>3 DEF Sa!Inv, Sa!EachWasPosted, Sa!Nobody
    <2>5. calls[c].try \in Nat
      BY SubagentCalls DEF Sa!Inv
    <2> QED BY <2>2, <2>3, <2>4, <2>5
  <1>3. \A t \in DOMAIN threads : threads[t].kind = "subagent" => threads[threads[t].parent].kind = "thread"
    BY DEF Sa!Inv, Sa!ThreadsNestOnce
  <1>4. ASSUME NEW c \in Prompts, Sa!Nested(c) PROVE Sa!Served(c) = {}
    BY <1>4, PromptsNumbered DEF Sa!Inv, Sa!TurnsAreAsked, Sa!Served, Sa!Nobody
  <1> QED BY <1>1, <1>2, <1>3, <1>4 DEF Sa!SubagentAnswersItsCaller, Sa!Nobody

-----------------------------------------------------------------------------
(* Goal.  GoalProofs proves it of Goal, and the part is a Goal.            *)
GP == INSTANCE GoalProofs WITH Threads <- GoalThreads, kept <- enabledHere

\* What GoalProofs says of a behaviour of Goal it says of the part's.
LEMMA GoalSame ==
  /\ G!Init <=> GP!Init
  /\ [G!Next]_(G!goalVars) => [GP!Next]_(GP!goalVars)
  /\ GP!GoalIsKnown => G!GoalIsKnown
  <1>1. \A b, t, c, hushed : G!Notify(b, t, c, hushed) = GP!Notify(b, t, c, hushed)
    BY DEF G!Notify, GP!Notify
  <1>2. \A queue, c : G!WithoutTurnItem(queue, c) = GP!WithoutTurnItem(queue, c)
    BY DEF G!WithoutTurnItem, GP!WithoutTurnItem, G!FoldLeft, GP!FoldLeft, G!MapThenFoldSet,
      GP!MapThenFoldSet, G!Max, GP!Max
  <1>3. \A queue, cs : G!WithoutItems(queue, cs) = GP!WithoutItems(queue, cs)
    BY DEF G!WithoutItems, GP!WithoutItems, G!FoldLeft, GP!FoldLeft, G!MapThenFoldSet,
      GP!MapThenFoldSet, G!Max, GP!Max, G!RemoveFirst, GP!RemoveFirst, G!SelectInSeq,
      GP!SelectInSeq, G!Min, GP!Min, G!RemoveAt, GP!RemoveAt
  <1>4. \A told, cs : G!Heard(told, cs) = GP!Heard(told, cs)
    BY DEF G!Heard, GP!Heard, G!FoldLeft, GP!FoldLeft, G!MapThenFoldSet, GP!MapThenFoldSet,
      G!Max, GP!Max, G!Hear, GP!Hear
  <1>5. /\ \A op : G!Helpers(op) = GP!Helpers(op)
        /\ \A o : G!Notice(o) = GP!Notice(o)
        /\ G!News = GP!News /\ G!ModeRemoved = GP!ModeRemoved /\ G!Untold = GP!Untold
    BY DEF G!Helpers, GP!Helpers, G!Notice, GP!Notice, G!News, GP!News, G!ModeRemoved,
      GP!ModeRemoved, G!Contribution, GP!Contribution, G!Untold, GP!Untold
  <1>6. G!EmptyBroker = GP!EmptyBroker
    BY DEF G!EmptyBroker, GP!EmptyBroker, G!NoContribution, GP!NoContribution
  <1>7. \A b, t, c : G!ReplaceKeyed(b, t, c) = GP!ReplaceKeyed(b, t, c)
    BY <1>2 DEF G!ReplaceKeyed, GP!ReplaceKeyed
  <1>8. \A b, t, c : G!EnqueueTurn(b, t, c) = GP!EnqueueTurn(b, t, c)
    BY <1>7 DEF G!EnqueueTurn, GP!EnqueueTurn
  <1>9. \A b, t : G!ClearReplay(b, t) = GP!ClearReplay(b, t)
    BY <1>2 DEF G!ClearReplay, GP!ClearReplay, G!NoContribution, GP!NoContribution
  <1>10. \A b, t : G!ReplayAfterCompaction(b, t) = GP!ReplayAfterCompaction(b, t)
    BY <1>7 DEF G!ReplayAfterCompaction, GP!ReplayAfterCompaction, G!NoContribution,
      GP!NoContribution
  <1>11. \A b, t : G!ClearEpoch(b, t) = GP!ClearEpoch(b, t)
    BY DEF G!ClearEpoch, GP!ClearEpoch, G!Drop, GP!Drop
  <1>12. \A b, t : G!PendingEpoch(b, t) = GP!PendingEpoch(b, t)
    BY DEF G!PendingEpoch, GP!PendingEpoch
  <1>13. \A b, t : G!Refreshed(b, t) = GP!Refreshed(b, t)
    BY <1>1, <1>5, <1>12 DEF G!Refreshed, GP!Refreshed, G!PluginsWithPendingEpoch,
      GP!PluginsWithPendingEpoch, G!ToSet, GP!ToSet
  <1>14. \A b, t : G!AfterCompaction(b, t) = GP!AfterCompaction(b, t)
    BY <1>10, <1>11 DEF G!AfterCompaction, GP!AfterCompaction
  <1>15. \A b, t : G!UpdatesTaken(b, t) = GP!UpdatesTaken(b, t)
    BY DEF G!UpdatesTaken, GP!UpdatesTaken
  <1>16. \A b, t : G!ConsumeUpdates(b, t) = GP!ConsumeUpdates(b, t)
    BY <1>3, <1>15 DEF G!ConsumeUpdates, GP!ConsumeUpdates, G!Drop, GP!Drop
  <1>17. \A t, cs : G!HearAll(t, cs) = GP!HearAll(t, cs)
    BY <1>4 DEF G!HearAll, GP!HearAll
  <1>18. \A t, enabling : G!Command(t, enabling) <=> GP!Command(t, enabling)
    BY DEF G!Command, GP!Command
  <1>19. \A t, next : G!Recorded(t, next) <=> GP!Recorded(t, next)
    BY DEF G!Recorded, GP!Recorded
  <1>20. \A b, t : G!RemoveNotices(b, t) = GP!RemoveNotices(b, t)
    BY <1>1, <1>5 DEF G!RemoveNotices, GP!RemoveNotices
  <1>21. \A t, o : G!Enable(t, o) <=> GP!Enable(t, o)
    BY <1>1, <1>5, <1>8, <1>18, <1>19 DEF G!Enable, GP!Enable
  <1>22. \A t : G!Disable(t) <=> GP!Disable(t)
    BY <1>9, <1>18, <1>19, <1>20 DEF G!Disable, GP!Disable
  <1>23. \A t, o : G!Reset(t, o) <=> GP!Reset(t, o)
    BY <1>18, <1>19, <1>20 DEF G!Reset, GP!Reset
  <1>24. \A t, o : G!SetObjective(t, o) <=> GP!SetObjective(t, o)
    BY <1>18 DEF G!SetObjective, GP!SetObjective
  <1>25. \A t, id, status : G!PutTask(t, id, status) <=> GP!PutTask(t, id, status)
    BY <1>18 DEF G!PutTask, GP!PutTask
  <1>26. \A t, id : G!AddTask(t, id) <=> GP!AddTask(t, id)
    BY <1>25 DEF G!AddTask, GP!AddTask
  <1>27. \A t, id, status : G!UpdateTask(t, id, status) <=> GP!UpdateTask(t, id, status)
    BY <1>25 DEF G!UpdateTask, GP!UpdateTask
  <1>28. \A t, id : G!DeleteTask(t, id) <=> GP!DeleteTask(t, id)
    BY <1>18 DEF G!DeleteTask, GP!DeleteTask
  <1>29. G!PublishNews <=> GP!PublishNews
    BY <1>1, <1>5 DEF G!PublishNews, GP!PublishNews
  <1>30. \A t : G!FullEpoch(t) <=> GP!FullEpoch(t)
    BY <1>11, <1>12, <1>13, <1>14, <1>17 DEF G!FullEpoch, GP!FullEpoch, G!EpochTaken,
      GP!EpochTaken, G!ConsumeEpoch, GP!ConsumeEpoch
  <1>31. \A t : G!EpochUpdate(t) <=> GP!EpochUpdate(t)
    BY <1>15, <1>16, <1>17 DEF G!EpochUpdate, GP!EpochUpdate
  <1>32. \A t : G!EpochItems(t) <=> GP!EpochItems(t)
    BY <1>30, <1>31 DEF G!EpochItems, GP!EpochItems
  <1>33. \A t : G!TurnItems(t) <=> GP!TurnItems(t)
    BY <1>17 DEF G!TurnItems, GP!TurnItems, G!TurnTaken, GP!TurnTaken, G!ConsumeTurn,
      GP!ConsumeTurn
  <1>34. \A t : (G!EndTurn(t) <=> GP!EndTurn(t)) /\ (G!Compact(t) <=> GP!Compact(t))
    BY <1>5 DEF G!EndTurn, GP!EndTurn, G!Compact, GP!Compact
  <1>35. G!Restart <=> GP!Restart
    BY <1>6 DEF G!Restart, GP!Restart
  <1>36. G!Next <=> GP!Next
    BY <1>21, <1>22, <1>23, <1>24, <1>26, <1>27, <1>28, <1>29, <1>32, <1>33, <1>34, <1>35
      DEF G!Next, GP!Next
  <1>37. G!Init <=> GP!Init
    BY <1>5, <1>6 DEF G!Init, GP!Init, G!NoGoal, GP!NoGoal
  <1>38. G!GoalIsKnown <=> GP!GoalIsKnown
    BY <1>5 DEF G!GoalIsKnown, GP!GoalIsKnown, G!GoalIsTold, GP!GoalIsTold,
      G!ListIsTheTasks, GP!ListIsTheTasks, G!ListTasks, GP!ListTasks, G!Statuses,
      GP!Statuses
  <1>39. UNCHANGED G!goalVars <=> UNCHANGED GP!goalVars
    BY DEF G!goalVars, GP!goalVars
  <1> QED BY <1>36, <1>37, <1>38, <1>39

-----------------------------------------------------------------------------
(* Runs.  RunsProofs proves of the module by itself that its invariant is  *)
(* inductive; RP is that module over the state of the part, and each       *)
(* operator of RP is the one of R that has its name.                       *)

RP == INSTANCE RunsProofs WITH Stored <- StoredThreads, turns <- messages

\* What RunsProofs says of a behaviour of Runs it says of the part's.
LEMMA RunsSame ==
  /\ R!Init <=> RP!Init
  /\ [R!Next]_(R!vars) => [RP!Next]_(RP!vars)
  /\ RP!WaitingHasStarter => R!WaitingHasStarter
  <1>1. R!Messages = RP!Messages /\ R!Ended = RP!Ended /\ R!World = RP!World
    BY DEF R!Messages, RP!Messages, R!Ended, RP!Ended, R!World, RP!World
  <1>2. /\ R!Open <=> RP!Open
        /\ R!Transcript <=> RP!Transcript
        /\ R!AgentView <=> RP!AgentView
        /\ R!Rest <=> RP!Rest
    BY DEF R!Open, RP!Open, R!Transcript, RP!Transcript, R!AgentView, RP!AgentView, R!Rest,
      RP!Rest
  <1>3. R!Taken = RP!Taken /\ R!Begun = RP!Begun /\ \A m : R!First(m) <=> RP!First(m)
    BY <1>1 DEF R!Taken, RP!Taken, R!Begun, RP!Begun, R!First, RP!First
  <1>4. \A m : R!Unsent(m) <=> RP!Unsent(m)
    BY DEF R!Unsent, RP!Unsent
  <1>5. \A t : /\ R!Has(t) <=> RP!Has(t)
               /\ R!Run(t) = RP!Run(t)
               /\ R!Locked(t) <=> RP!Locked(t)
    BY <1>1 DEF R!Has, RP!Has, R!Run, RP!Run, R!Locked, RP!Locked
  <1>6. \A r : /\ R!Running(r) <=> RP!Running(r)
               /\ R!Active(r) <=> RP!Active(r)
               /\ R!Busy(r) <=> RP!Busy(r)
    BY <1>1 DEF R!Running, RP!Running, R!Active, RP!Active, R!Busy, RP!Busy
  <1>7. \A w : R!Commit(w) <=> RP!Commit(w)
    BY DEF R!Commit, RP!Commit
  <1>8. \A queue : R!Range(queue) = RP!Range(queue)
    BY DEF R!Range, RP!Range
  <1>9. \A w, sent, to : R!Stages(w, sent, to) = RP!Stages(w, sent, to)
    BY <1>1 DEF R!Stages, RP!Stages
  <1>10. \A w, t : R!Sync(w, t) = RP!Sync(w, t)
    BY <1>8, <1>9, Zenon DEF R!Sync, RP!Sync
  <1>11. \A w, t : R!WithRun(w, t) = RP!WithRun(w, t)
    BY DEF R!WithRun, RP!WithRun, R!NewRun, RP!NewRun
  <1>12. \A w, m, t : R!Start(w, m, t) = RP!Start(w, m, t)
    <2> SUFFICES ASSUME NEW w, NEW m, NEW t PROVE R!Start(w, m, t) = RP!Start(w, m, t)
      OBVIOUS
    <2>1. PICK v : v = R!WithRun(w, t) /\ v = RP!WithRun(w, t)
      BY ONLY <1>11
    <2> QED BY ONLY <1>10, <2>1 DEF R!Start, RP!Start
  <1>13. \A w, m, t : R!Queue(w, m, t) = RP!Queue(w, m, t)
    BY DEF R!Queue, RP!Queue
  <1>14. \A w, m, t : R!Schedule(w, m, t) = RP!Schedule(w, m, t)
    BY DEF R!Schedule, RP!Schedule
  <1>15. \A w, i, over : R!Complete(w, i, over) = RP!Complete(w, i, over)
    BY <1>14 DEF R!Complete, RP!Complete
  <1>16. \A w, m : R!Finally(w, m) = RP!Finally(w, m)
    <2> SUFFICES ASSUME NEW w, NEW m PROVE R!Finally(w, m) = RP!Finally(w, m)
      OBVIOUS
    <2> DEFINE own == w.runs[w.turns[m].run].task
    <2>1. PICK over : over = (own # m /\ w.turns[own].stage \notin {"created", "running", "closing"})
      OBVIOUS
    <2>2. PICK v : /\ v = R!Complete(w, w.turns[m].run, over)
                   /\ v = RP!Complete(w, w.turns[m].run, over)
      BY ONLY <1>15
    <2> QED BY ONLY <2>1, <2>2, Zenon DEF R!Finally, RP!Finally
  <1>17. \A w, i, status : R!Broken(w, i, status) = RP!Broken(w, i, status)
    BY DEF R!Broken, RP!Broken
  <1>18. \A m : R!Submit(m) <=> RP!Submit(m)
    BY <1>1, <1>2, <1>3, <1>4, <1>5, <1>6, <1>7, <1>10, <1>12, <1>13 DEF R!Submit, RP!Submit
  <1>19. \A m : R!Dispatched(m) <=> RP!Dispatched(m)
    BY <1>1, <1>2, <1>7, <1>12 DEF R!Dispatched, RP!Dispatched
  <1>20. \A m : R!DispatchFails(m) <=> RP!DispatchFails(m)
    BY <1>1, <1>2, <1>7, <1>9 DEF R!DispatchFails, RP!DispatchFails
  <1>21. \A m : R!RunScheduled(m) <=> RP!RunScheduled(m)
    BY <1>2, <1>3, <1>7, <1>12 DEF R!RunScheduled, RP!RunScheduled
  <1>22. \A m : R!Begin(m) <=> RP!Begin(m)
    <2> SUFFICES ASSUME NEW m PROVE R!Begin(m) <=> RP!Begin(m)
      OBVIOUS
    <2>1. PICK b : b = R!Begun /\ b = RP!Begun
      BY ONLY <1>3
    <2> DEFINE i == current[messages[m].thread]
               mine == [b EXCEPT !.turns[m] = [@ EXCEPT !.run = i, !.event = runs[i].event]]
    <2>2. PICK dropped : dropped = R!Stages(b, {m}, "dropped") /\ dropped = RP!Stages(b, {m}, "dropped")
      BY ONLY <1>9
    <2>3. PICK working : /\ working = R!Stages(mine, {m}, "running")
                         /\ working = RP!Stages(mine, {m}, "running")
      BY ONLY <1>9
    <2>4. R!Broken(mine, i, "failed") = RP!Broken(mine, i, "failed")
      BY ONLY <1>17
    <2>5. PICK failed : /\ failed = R!Finally(R!Broken(mine, i, "failed"), m)
                        /\ failed = RP!Finally(RP!Broken(mine, i, "failed"), m)
      BY ONLY <1>16, <2>4
    <2> QED BY <1>2, <1>3, <1>5, <1>7, <2>1, <2>2, <2>3, <2>5, Zenon DEF R!Begin, RP!Begin
  <1>23. \A m : R!Delta(m) <=> RP!Delta(m)
    BY <1>1, <1>2, <1>5, <1>7 DEF R!Delta, RP!Delta
  <1>24. \A m, status : R!Terminal(m, status) <=> RP!Terminal(m, status)
    <2> SUFFICES ASSUME NEW m, NEW status PROVE R!Terminal(m, status) <=> RP!Terminal(m, status)
      OBVIOUS
    <2>1. PICK ends : ends = R!Stages(R!World, {m}, "closing") /\ ends = RP!Stages(RP!World, {m}, "closing")
      BY ONLY <1>1, <1>9
    <2> QED BY <1>2, <1>7, <1>17, <2>1, Zenon DEF R!Terminal, RP!Terminal
  <1>25. \A m : R!Ends(m) <=> RP!Ends(m)
    BY <1>1, <1>2, <1>7, <1>16 DEF R!Ends, RP!Ends
  <1>26. \A m : R!Raises(m) <=> RP!Raises(m)
    BY <1>1, <1>2, <1>7, <1>16, <1>17 DEF R!Raises, RP!Raises
  <1>27. \A m, t : R!Reply(m, t) <=> RP!Reply(m, t)
    BY <1>1, <1>2, <1>4, <1>5, <1>6, <1>7, <1>13, <1>14 DEF R!Reply, RP!Reply
  <1>28. \A m, t : R!Dispatch(m, t) <=> RP!Dispatch(m, t)
    <2> SUFFICES ASSUME NEW m, NEW t PROVE R!Dispatch(m, t) <=> RP!Dispatch(m, t)
      OBVIOUS
    <2>1. PICK v : v = R!WithRun(R!World, t) /\ v = RP!WithRun(RP!World, t)
      BY ONLY <1>1, <1>11
    <2> QED BY <1>2, <1>3, <1>4, <1>7, <2>1 DEF R!Dispatch, RP!Dispatch
  <1>29. R!Tick <=> RP!Tick
    BY <1>1, <1>2, <1>5, <1>6, <1>7, <1>15, Zenon DEF R!Tick, RP!Tick
  <1>30. R!Interrupt <=> RP!Interrupt
    BY <1>2, <1>5, <1>6 DEF R!Interrupt, RP!Interrupt
  <1>31. R!Clear <=> RP!Clear
    BY <1>1, <1>2, <1>7, <1>8, <1>9 DEF R!Clear, RP!Clear
  <1>32. R!CloseAgentView <=> RP!CloseAgentView
    BY <1>2 DEF R!CloseAgentView, RP!CloseAgentView
  <1>33. R!Quit <=> RP!Quit
    BY <1>2, <1>5, <1>6 DEF R!Quit, RP!Quit
  <1>34. \A t : R!Cancel(t) <=> RP!Cancel(t)
    BY <1>2, <1>5, <1>6 DEF R!Cancel, RP!Cancel
  <1>35. \A t : R!Hide(t) <=> RP!Hide(t)
    <2> SUFFICES ASSUME NEW t PROVE R!Hide(t) <=> RP!Hide(t)
      OBVIOUS
    <2>1. PICK r : r = R!Run(t) /\ r = RP!Run(t)
      BY ONLY <1>5
    <2>2. PICK cancels : /\ cancels = (R!Has(t) /\ R!Running(r))
                         /\ cancels = (RP!Has(t) /\ RP!Running(r))
      BY ONLY <1>5, <1>6, Zenon
    <2>3. PICK queue : /\ queue = IF R!Has(t) THEN R!Range(r.pending) ELSE {}
                       /\ queue = IF RP!Has(t) THEN RP!Range(r.pending) ELSE {}
      BY ONLY <1>5, <1>8, Zenon
    <2>4. PICK w : /\ w = IF cancels THEN [R!World EXCEPT !.runs[current[t]].status = "interrupted"]
                                    ELSE R!World
                   /\ w = IF cancels THEN [RP!World EXCEPT !.runs[current[t]].status = "interrupted"]
                                    ELSE RP!World
      BY ONLY <1>1
    <2>5. PICK hidden : hidden = R!Stages(w, queue, "dropped") /\ hidden = RP!Stages(w, queue, "dropped")
      BY ONLY <1>9
    <2> QED BY <1>2, <1>5, <1>7, <2>1, <2>2, <2>3, <2>4, <2>5, Zenon DEF R!Hide, RP!Hide
  <1>36. \A t : R!Resume(t) <=> RP!Resume(t)
    BY <1>1, <1>2, <1>3, <1>5, <1>7, <1>10 DEF R!Resume, RP!Resume
  <1>37. \A join : R!OpenAgentView(join) <=> RP!OpenAgentView(join)
    BY <1>2 DEF R!OpenAgentView, RP!OpenAgentView
  <1>38. R!Stopped <=> RP!Stopped
    BY <1>2 DEF R!Stopped, RP!Stopped
  <1>39. UNCHANGED R!vars <=> UNCHANGED RP!vars
    BY DEF R!vars, RP!vars
  <1>40. R!Next <=> RP!Next
    BY <1>1, <1>18, <1>19, <1>20, <1>21, <1>22, <1>23, <1>24, <1>25, <1>26, <1>27, <1>28, <1>29,
      <1>30, <1>31, <1>32, <1>33, <1>34, <1>35, <1>36, <1>37, <1>38 DEF R!Next, RP!Next
  <1>41. R!Init <=> RP!Init
    BY <1>1 DEF R!Init, RP!Init
  <1>42. RP!WaitingHasStarter <=> R!WaitingHasStarter
    BY <1>1, <1>5 DEF R!WaitingHasStarter, RP!WaitingHasStarter, R!Starter, RP!Starter
  <1> QED BY <1>39, <1>40, <1>41, <1>42

-----------------------------------------------------------------------------
(* History, by HistoryProofs in the same way.                              *)

HP == INSTANCE HistoryProofs

\* What HistoryProofs says of a behaviour of History it says of the part's.
LEMMA HistorySame ==
  /\ H!Init <=> HP!Init
  /\ [H!Next]_(H!vars) => [HP!Next]_(HP!vars)
  /\ HP!ThreadReadsWhole => H!ThreadReadsWhole
  <1>1. H!ReadRow <=> HP!ReadRow
    BY DEF H!ReadRow, HP!ReadRow
  <1>2. H!ReadSegment <=> HP!ReadSegment
    BY DEF H!ReadSegment, HP!ReadSegment, H!Cached, HP!Cached, H!Max, HP!Max,
      H!Segment, HP!Segment, H!HasMore, HP!HasMore, H!Key, HP!Key, H!Keys, HP!Keys,
      H!Page, HP!Page, H!Last, HP!Last, H!CompactionBefore, HP!CompactionBefore,
      H!Between, HP!Between, H!Visible, HP!Visible, H!Conversation, HP!Conversation,
      H!ProcessRefs, HP!ProcessRefs
  <1>3. H!Leave <=> HP!Leave
    BY DEF H!Leave, HP!Leave, H!NoReader, HP!NoReader
  <1>4. H!Begin <=> HP!Begin
    BY DEF H!Begin, HP!Begin, H!Store, HP!Store, H!Event, HP!Event, H!Applied, HP!Applied,
      H!Conversation, HP!Conversation
  <1>5. \A text, final : H!Respond(text, final) <=> HP!Respond(text, final)
    BY DEF H!Respond, HP!Respond, H!Store, HP!Store, H!Event, HP!Event, H!Applied, HP!Applied,
      H!Conversation, HP!Conversation
  <1>6. H!StartRun <=> HP!StartRun
    BY DEF H!StartRun, HP!StartRun
  <1>7. H!EndRun <=> HP!EndRun
    BY DEF H!EndRun, HP!EndRun
  <1>8. H!StoreResult <=> HP!StoreResult
    BY DEF H!StoreResult, HP!StoreResult, H!Store, HP!Store, H!Event, HP!Event, H!Last, HP!Last,
      H!Applied, HP!Applied, H!Conversation, HP!Conversation
  <1>9. H!Compact <=> HP!Compact
    BY DEF H!Compact, HP!Compact, H!Store, HP!Store, H!Event, HP!Event, H!Applied, HP!Applied,
      H!Conversation, HP!Conversation
  <1>10. H!Complete <=> HP!Complete
    BY DEF H!Complete, HP!Complete, H!Store, HP!Store, H!Event, HP!Event, H!Applied, HP!Applied,
      H!Conversation, HP!Conversation
  <1>11. \A stage : H!Bridge(stage) <=> HP!Bridge(stage)
    BY DEF H!Bridge, HP!Bridge, H!Store, HP!Store, H!Event, HP!Event, H!Applied, HP!Applied,
      H!Conversation, HP!Conversation
  <1>12. H!StorePartial <=> HP!StorePartial
    BY DEF H!StorePartial, HP!StorePartial, H!Store, HP!Store, H!Event, HP!Event,
      H!Applied, HP!Applied, H!Conversation, HP!Conversation
  <1>13. \A type : H!Break(type) <=> HP!Break(type)
    BY DEF H!Break, HP!Break, H!Store, HP!Store, H!Event, HP!Event, H!Applied, HP!Applied,
      H!Conversation, HP!Conversation
  <1>14. UNCHANGED H!vars <=> UNCHANGED HP!vars
    BY DEF H!vars, HP!vars
  <1>15. H!Next <=> HP!Next
    BY <1>1, <1>2, <1>3, <1>4, <1>5, <1>6, <1>7, <1>8, <1>9, <1>10, <1>11, <1>12, <1>13
       DEF H!Next, HP!Next
  <1>16. H!Init <=> HP!Init
    BY DEF H!Init, HP!Init, H!NoMeta, HP!NoMeta, H!NoReader, HP!NoReader
  <1>17. H!PagesAreWhole <=> HP!PagesAreWhole
    BY DEF H!PagesAreWhole, HP!PagesAreWhole, H!Between, HP!Between, H!Last, HP!Last,
      H!Visible, HP!Visible, H!Conversation, HP!Conversation, H!ProcessRefs, HP!ProcessRefs
  <1>18. \A set : H!Cardinality(set) = HP!Cardinality(set)
    BY DEF H!Cardinality, HP!Cardinality, H!IsFiniteSet, HP!IsFiniteSet
  <1>19. \A ids : H!View(ids) = HP!View(ids)
    BY DEF H!View, HP!View, H!Turn, HP!Turn, H!OfTurn, HP!OfTurn, H!AnswerText, HP!AnswerText,
      H!StatusOf, HP!StatusOf, H!ProcessRefs, HP!ProcessRefs, H!Priority, HP!Priority,
      H!Max, HP!Max
  <1>20. H!ViewIsTheThread <=> HP!ViewIsTheThread
    BY <1>18, <1>19 DEF H!ViewIsTheThread, HP!ViewIsTheThread, H!RefStatus, HP!RefStatus,
      H!Detail, HP!Detail
  <1> QED BY <1>14, <1>15, <1>16, <1>17, <1>20
       DEF H!ThreadReadsWhole, HP!ThreadReadsWhole

-----------------------------------------------------------------------------
(* The theorems of the composition.                                        *)

\* Whatever is typed, whichever turns begin and end and however long the user waits: the
\* second Ctrl+C does what the screen asks about at that moment.
THEOREM SecondCtrlCIsAsked == Spec => CtrlCIsAsked
  <1> DEFINE Holds == part = "composer" => C!Inv
  <1>1. Init => Holds
    BY ComposerInit DEF Init
  <1>2. Holds /\ [Next]_vars => Holds' /\ [part = "composer" => C!AsAsked]_vars
    <2> SUFFICES ASSUME Holds, [Next]_vars
                 PROVE Holds' /\ [part = "composer" => C!AsAsked]_vars
      OBVIOUS
    <2>1. CASE part = "composer"
      <3>1. C!Inv /\ [C!Next]_(C!vars)
        BY <2>1 DEF Next, vars, C!vars, draft, cursor, images, nextImage, past, recall, palette,
           armed, paste, running, begun, page, done, asked
      <3>2. C!Inv' /\ [C!AsAsked]_(C!vars)
        BY <3>1, ComposerNext
      <3>3. UNCHANGED part
        BY <2>1 DEF Next, vars
      <3> QED
        BY <2>1, <3>2, <3>3 DEF vars, C!vars, draft, cursor, images, nextImage, past, recall, palette,
           armed, paste, running, begun, page, done, asked
    <2>2. CASE part # "composer"
      BY <2>2 DEF Next, vars
    <2> QED BY <2>1, <2>2
  <1> QED
    BY <1>1, <1>2, PTL DEF Spec, CtrlCIsAsked

\* The rules of where the agent works are in front of the model, whatever the
\* files, the hosts and the turns are.
THEOREM RulesAreGiven == Spec => []RulesReachTheModel
  <1> DEFINE RulesInv == part = "rules" => Ru!Inv
  <1>1. Init => RulesInv
    BY RulesInit DEF Init
  <1>2. RulesInv /\ [Next]_vars => RulesInv'
    <2> SUFFICES ASSUME RulesInv, [Next]_vars, part' = "rules" PROVE Ru!Inv'
      OBVIOUS
    <2>1. part = "rules" /\ [Ru!Next]_(Ru!rvars)
      BY DEF Next, vars, Ru!rvars, present, state, kept, cwd, agent, input, behind, gone, steps
    <2> QED BY <2>1, RulesStep
  <1>3. RulesInv => RulesReachTheModel
    BY RulesGiven DEF RulesReachTheModel
  <1> QED BY <1>1, <1>2, <1>3, PTL DEF Spec

\* A script or a schedule that asked a subagent is told of a turn on its own prompt,
\* which was submitted no oftener than it was asked for, whatever times out.
THEOREM SubagentsAnswerTheirCallers == Spec => []SubagentAnswersItsCaller
  <1> DEFINE SubagentInv == part = "subagent" => Sa!Inv
  <1>1. Init => SubagentInv
    BY SubagentInit DEF Init
  <1>2. SubagentInv /\ [Next]_vars => SubagentInv'
    <2> SUFFICES ASSUME SubagentInv, [Next]_vars, part' = "subagent" PROVE Sa!Inv'
      OBVIOUS
    <2>1. part = "subagent" /\ [Sa!Next]_(Sa!savars)
      BY DEF Next, vars, Sa!savars, threads, turns, calls, requests
    <2> QED BY <2>1, SubagentStep
  <1>3. SubagentInv => SubagentAnswersItsCaller
    BY SubagentGiven DEF SubagentAnswersItsCaller
  <1> QED BY <1>1, <1>2, <1>3, PTL DEF Spec

\* A goal that this process enabled is known to the model when a turn's context was sent,
\* whichever commands, news, compactions and restarts came before; a list of tasks is the tasks.
THEOREM GoalReachesTheModel == Spec => []GoalIsKnown
  <1> DEFINE GoalInv == part = "goal" => GP!Inv
  <1>1. Init => GoalInv
    BY GoalSame, GP!GoalInit DEF Init
  <1>2. GoalInv /\ [Next]_vars => GoalInv'
    <2> SUFFICES ASSUME GoalInv, [Next]_vars, part' = "goal" PROVE GP!Inv'
      OBVIOUS
    <2>1. part = "goal" /\ [G!Next]_(G!goalVars)
      BY DEF Next, vars, G!goalVars, broker, goal, tasks, index, metadata, full, turnStage, history,
         fresh, enabledHere, commands, compactions, restarts
    <2>2. GP!Inv /\ [GP!Next]_(GP!goalVars)
      BY <2>1, GoalSame
    <2> QED BY <2>2, AllIsNoThread, GP!GoalStep
  <1>3. GoalInv => GoalIsKnown
    BY GP!GoalImplies, GoalSame DEF GoalIsKnown
  <1> QED BY <1>1, <1>2, <1>3, PTL DEF Spec

\* What the user has written behind a turn is not forgotten: something is on its way
\* that starts it, whatever is interrupted, hidden, resumed or left.
THEOREM WaitingIsStarted == Spec => []WaitingHasStarter
  <1> DEFINE RunsInv == part = "runs" => RP!Inv
  <1>1. Init => RunsInv
    BY RunsSame, RP!RunsInit DEF Init
  <1>2. RunsInv /\ [Next]_vars => RunsInv'
    <2> SUFFICES ASSUME RunsInv, [Next]_vars, part' = "runs" PROVE RP!Inv'
      OBVIOUS
    <2>1. part = "runs" /\ [R!Next]_(R!vars)
      BY DEF Next, vars, R!vars, runs, current, messages, ready, interrupted, attached, listed, view, stopping
    <2>2. RP!Inv /\ [RP!Next]_(RP!vars)
      BY <2>1, RunsSame
    <2> QED BY <2>2, ThreadsAreThreads, RP!RunsStep
  <1>3. RunsInv => WaitingHasStarter
    BY RP!RunsGiven, RunsSame DEF WaitingHasStarter
  <1> QED BY <1>1, <1>2, <1>3, PTL DEF Spec

\* What scripts and the terminal read of a thread is the thread: the pages join, the view is
\* what the row and the details say, whatever turns append meanwhile.
THEOREM ThreadIsReadWhole == Spec => []ThreadReadsWhole
  <1> DEFINE HistoryInv == part = "history" => HP!Inv
  <1>1. Init => HistoryInv
    BY HistorySame, HP!HistoryInit DEF Init
  <1>2. HistoryInv /\ [Next]_vars => HistoryInv'
    <2> SUFFICES ASSUME HistoryInv, [Next]_vars, part' = "history" PROVE HP!Inv'
      OBVIOUS
    <2>1. part = "history" /\ [H!Next]_(H!vars)
      BY DEF Next, vars, H!vars, log, meta, ran, turn, reader, cache
    <2>2. HP!Inv /\ [HP!Next]_(HP!vars)
      BY <2>1, HistorySame
    <2> QED BY <2>2, AnswersAreTexts, HP!HistoryStep
  <1>3. HistoryInv => ThreadReadsWhole
    BY HP!HistoryGiven, AnswersAreTexts, HistorySame DEF ThreadReadsWhole
  <1> QED BY <1>1, <1>2, <1>3, PTL DEF Spec

=============================================================================
