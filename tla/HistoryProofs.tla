--------------------------- MODULE HistoryProofs ----------------------------
(***************************************************************************)
(* That what scripts and the terminal read of a thread is the thread.  The *)
(* invariant has two halves that meet in the log only: Reading, what a     *)
(* reader has loaded, knows or finds cached, of which every end lies       *)
(* within the log, so that an append changes none of it; and Told, what    *)
(* the turns leave in the log and in the rows, by which the view of a      *)
(* script and the metadata say the same.                                   *)
(***************************************************************************)
EXTENDS History, FiniteSetTheorems, WellFoundedInduction, TLAPS

\* Less-than as a set of pairs.
Below == {ss \in Nat \X Nat : ss[1] < ss[2]}

\* Less-than on the naturals is well-founded.
LEMMA BelowWF == IsWellFoundedOn(Below, Nat)
  BY NatLessThanWellFounded DEF OpToRel, Below

\* A set of naturals has a least element.
LEMMA Least == ASSUME NEW N, N \subseteq Nat, N # {} PROVE \E x \in N : \A y \in N : y >= x
  <1>1. PICK x \in N : \A y \in N : <<y, x>> \notin Below
    <2> HIDE DEF Below
    <2> QED BY BelowWF, WFMin
  <1> SUFFICES ASSUME NEW y \in N PROVE y >= x
    BY <1>1
  <1>2. x \in Nat /\ y \in Nat /\ <<y, x>> \notin Below
    BY <1>1
  <1>3. <<y, x>>[1] = y /\ <<y, x>>[2] = x /\ <<y, x>> \in Nat \X Nat
    BY <1>2
  <1>4. ~(y < x)
    BY <1>2, <1>3 DEF Below
  <1> QED BY <1>2, <1>4

\* The maximum of numbers up to a bound is one of them, and no other is more.
LEMMA MaxOf ==
  ASSUME NEW n \in Nat, NEW N, N \subseteq 0..n, N # {}
  PROVE  Max(N) \in N /\ \A y \in N : y <= Max(N)
  <1> DEFINE Rest == {n - y : y \in N}
  <1>1. \A y \in N : y \in Nat /\ y <= n /\ n - y \in Nat
    OBVIOUS
  <1>2. PICK z \in Rest : \A y \in Rest : y >= z
    <2>1. Rest \subseteq Nat /\ Rest # {}
      BY <1>1
    <2> QED BY <2>1, Least
  <1>3. PICK x \in N : z = n - x
    OBVIOUS
  <1>4. \A y \in N : x >= y
    <2> SUFFICES ASSUME NEW y \in N PROVE x >= y
      OBVIOUS
    <2>1. n - y >= n - x
      BY <1>2, <1>3
    <2> QED BY <1>1, <2>1
  <1>5. Max(N) \in N /\ \A y \in N : Max(N) >= y
    BY <1>4 DEF Max
  <1> QED BY <1>1, <1>5

\* A bound that is reached is the maximum.
LEMMA MaxIs == ASSUME NEW n \in Nat, NEW N, N \subseteq 0..n, n \in N PROVE Max(N) = n
  <1>1. N # {}
    OBVIOUS
  <1>2. PICK m : m = Max(N)
    OBVIOUS
  <1>3. m \in N /\ n <= m
    BY <1>1, <1>2, MaxOf
  <1>4. m \in Nat /\ m <= n
    BY <1>3
  <1> QED BY <1>2, <1>3, <1>4

-----------------------------------------------------------------------------

\* What the types say of the log.
LEMMA LogShape ==
  ASSUME TypeOK
  PROVE  /\ Len(log) \in Nat /\ DOMAIN log = 1..Len(log) /\ \A k \in DOMAIN log : log[k] \in Events
         /\ \A k \in DOMAIN log : log[k].turn \in Nat /\ log[k].run \in Nat
  <1>1. log \in Seq(Events)
    BY DEF TypeOK
  <1>2. \A e \in Events : e.turn \in Nat /\ e.run \in Nat
    BY DEF Events
  <1> QED BY <1>1, <1>2

\* The last compaction before a place.
LEMMA LastCompaction ==
  ASSUME TypeOK, NEW b \in Nat
  PROVE  LET c == CompactionBefore(b) IN
         /\ c \in Nat /\ c <= b /\ c <= Len(log)
         /\ c = 0 \/ (c \in DOMAIN log /\ c < b /\ log[c].type = "compaction")
         /\ \A k \in DOMAIN log : k < b /\ log[k].type = "compaction" => k <= c
  <1> DEFINE Those == {0} \cup {k \in DOMAIN log : k < b /\ log[k].type = "compaction"}
  <1>1. Those \subseteq 0..Len(log) /\ Those # {} /\ Len(log) \in Nat /\ DOMAIN log = 1..Len(log)
    BY LogShape
  <1>2. PICK c : c = Max(Those)
    OBVIOUS
  <1>3. c \in Those /\ \A k \in Those : k <= c
    BY <1>1, <1>2, MaxOf
  <1>4. c = CompactionBefore(b)
    BY <1>2 DEF CompactionBefore
  <1> QED BY <1>1, <1>3, <1>4

\* The log grows at its end.
Longer(e) == TypeOK /\ e \in Events /\ log' = Append(log, e)

\* What an append leaves as it was.
LEMMA Grows ==
  ASSUME NEW e, Longer(e)
  PROVE  /\ log' \in Seq(Events) /\ Len(log') = Len(log) + 1 /\ DOMAIN log' = 1..(Len(log) + 1)
         /\ DOMAIN log' = DOMAIN log \cup {Len(log) + 1}
         /\ log'[Len(log) + 1] = e /\ \A k \in DOMAIN log : log'[k] = log[k]
  BY DEF Longer, TypeOK

\* What lies before a place that was there is what it was.
LEMMA BeforeIsKept ==
  ASSUME NEW e, Longer(e), NEW a, NEW b \in Nat, b <= Len(log) + 1
  PROVE  Between(a, b)' = Between(a, b) /\ CompactionBefore(b)' = CompactionBefore(b)
         /\ HasMore(b)' = HasMore(b)
  <1>1. TypeOK /\ Len(log) \in Nat /\ DOMAIN log = 1..Len(log)
    BY LogShape DEF Longer
  <1>2. \A k \in DOMAIN log' : k < b => k \in DOMAIN log /\ log'[k] = log[k]
    BY <1>1, Grows
  <1>3. \A k \in DOMAIN log : k \in DOMAIN log' /\ log'[k] = log[k]
    BY <1>1, Grows
  <1>4. \A c : Between(c, b)' = Between(c, b)
    BY <1>2, <1>3 DEF Between
  <1>5. {k \in DOMAIN log : k < b /\ log[k].type = "compaction"}'
          = {k \in DOMAIN log : k < b /\ log[k].type = "compaction"}
    BY <1>2, <1>3
  <1>6. CompactionBefore(b)' = CompactionBefore(b)
    BY <1>5 DEF CompactionBefore
  <1> QED BY <1>4, <1>6 DEF HasMore

-----------------------------------------------------------------------------
(* The reader *)

\* What a reader's pages and the cache are right about.
Reading == RowsTell /\ PagesJoin /\ CacheIsKeyed

\* What is read stays so when nothing is appended.
LEMMA ReadingKept ==
  ASSUME Reading, UNCHANGED <<log, meta, reader, cache>>
  PROVE  Reading'
  <1>1. RowsTell'
    BY DEF Reading, RowsTell, Tells, CompactionBefore
  <1>2. PagesJoin'
    BY DEF Reading, PagesJoin, Fits, Between, HasMore
  <1>3. CacheIsKeyed'
    BY ZenonT(60) DEF Reading, CacheIsKeyed, Fits, Keyed, Between, HasMore, CompactionBefore
  <1> QED BY <1>1, <1>2, <1>3 DEF Reading

\* An event and the row that is told of it.
LEMMA RowApplied ==
  ASSUME TypeOK, NEW e \in Events, Store(e)
  PROVE  /\ meta' \in MetaRows /\ meta'.last = Len(log) + 1 /\ Longer(e)
         /\ meta'.compaction = IF e.type = "compaction" THEN Len(log) + 1 ELSE meta.compaction
         /\ meta'.text = IF e.type \in Conversation /\ e.text # None THEN e.text ELSE meta.text
         /\ meta'.turns = meta.turns + (IF e.type = "completed" THEN 1 ELSE 0)
         /\ meta'.interrupted = meta.interrupted + (IF e.type \in {"interrupted", "error"} THEN 1 ELSE 0)
  <1>1. meta' = Applied(meta, e, Len(log) + 1) /\ meta \in MetaRows /\ Longer(e)
    BY DEF Store, TypeOK, Longer
  <1>2. Len(log) + 1 \in Nat
    BY LogShape
  <1>3. e.text \in Texts \cup Outcomes
    BY DEF Events
  <1>4. \A m \in MetaRows : Applied(m, e, Len(log) + 1) \in MetaRows
    BY <1>2, <1>3 DEF MetaRows, Applied
  <1> QED BY <1>1, <1>4 DEF Applied

\* Appending leaves what was read right: a row that was read, the pages and the cache speak
\* of what lies before their ends.
LEMMA ReadingGrows ==
  ASSUME TypeOK, Reading, NEW e \in Events, Store(e), UNCHANGED <<reader, cache>>
  PROVE  Reading'
  <1>1. Longer(e) /\ meta'.last = Len(log) + 1 /\ Len(log') = Len(log) + 1 /\ Len(log) \in Nat
        /\ meta'.compaction = IF e.type = "compaction" THEN Len(log) + 1 ELSE meta.compaction
    BY RowApplied, Grows, LogShape
  <1>2. \A a : \A b \in Nat : b <= Len(log) + 1 =>
            Between(a, b)' = Between(a, b) /\ CompactionBefore(b)' = CompactionBefore(b)
            /\ HasMore(b)' = HasMore(b)
    BY <1>1, BeforeIsKept
  <1>3. Tells(meta)'
    <2>1. PICK c : c = CompactionBefore(Len(log) + 1)
      OBVIOUS
    <2>2. meta.compaction = c
      BY <2>1 DEF Reading, RowsTell, Tells
    <2> DEFINE Old == {0} \cup {k \in DOMAIN log : k < Len(log) + 1 /\ log[k].type = "compaction"}
    <2> DEFINE New == {0} \cup {k \in DOMAIN log' : k < Len(log) + 2 /\ log'[k].type = "compaction"}
    <2>3. New = IF e.type = "compaction" THEN Old \cup {Len(log) + 1} ELSE Old
      <3>1. DOMAIN log = 1..Len(log) /\ DOMAIN log' = DOMAIN log \cup {Len(log) + 1}
            /\ log'[Len(log) + 1] = e /\ \A k \in DOMAIN log : log'[k] = log[k]
        BY <1>1, Grows, LogShape
      <3> QED BY <1>1, <3>1
    <2>4. meta'.last + 1 = Len(log) + 2
      BY <1>1
    <2>5. Tells(meta)' <=> meta'.last <= Len(log') /\ meta'.compaction = Max(New)
      BY <2>4 DEF Tells, CompactionBefore
    <2>6. CompactionBefore(Len(log) + 1) = Max(Old)
      BY DEF CompactionBefore
    <2>7. CASE e.type = "compaction"
      <3>1. New \subseteq 0..(Len(log) + 1) /\ Len(log) + 1 \in New
        BY <1>1, <2>3, <2>7, LogShape
      <3>2. Max(New) = Len(log) + 1
        <4>1. Len(log) + 1 \in Nat
          BY <1>1
        <4> HIDE DEF New
        <4> QED BY <3>1, <4>1, MaxIs
      <3> HIDE DEF New
      <3> QED BY <1>1, <2>5, <2>7, <3>2
    <2>8. CASE e.type # "compaction"
      <3>1. Max(New) = Max(Old)
        BY <2>3, <2>8
      <3> HIDE DEF New, Old
      <3> QED BY <1>1, <2>1, <2>2, <2>5, <2>6, <2>8, <3>1
    <2> QED BY <2>7, <2>8
  <1>4. RowsTell'
    <2>1. reader.knows # None => Tells(reader.knows)'
      <3> SUFFICES ASSUME reader.knows # None PROVE Tells(reader.knows)'
        OBVIOUS
      <3>1. reader.knows \in MetaRows /\ Tells(reader.knows)
        BY DEF Reading, RowsTell, TypeOK, Readers
      <3>2. reader.knows.last \in Nat
        BY <3>1 DEF MetaRows
      <3>3. reader.knows.last + 1 \in Nat /\ reader.knows.last + 1 <= Len(log) + 1
        BY <1>1, <3>1, <3>2 DEF Tells
      <3>4. CompactionBefore(reader.knows.last + 1)' = CompactionBefore(reader.knows.last + 1)
        BY <1>2, <3>3
      <3> QED BY <1>1, <3>1, <3>2, <3>4 DEF Tells
    <2> QED BY <1>1, <1>3, <2>1 DEF Reading, RowsTell
  <1>5. \A page \in Pages : Fits(page) => Fits(page)'
    <2> SUFFICES ASSUME NEW page \in Pages, Fits(page) PROVE Fits(page)'
      OBVIOUS
    <2>1. page.start \in Nat /\ page.end \in Nat
      BY DEF Pages
    <2> QED BY <1>1, <1>2, <2>1 DEF Fits
  <1>6. PagesJoin'
    <2>0. reader.pages \in Seq(Pages)
      BY DEF TypeOK, Readers
    <2>1. \A k \in DOMAIN reader.pages : reader.pages[k] \in Pages
      BY <2>0
    <2>2. reader.pages # <<>> => Last(reader.pages) = reader.pages[Len(reader.pages)]
                                 /\ 1 \in DOMAIN reader.pages /\ Len(reader.pages) \in DOMAIN reader.pages
      BY <2>0 DEF Last
    <2>3. \A page \in Pages : page.start \in Nat /\ page.end \in Nat
      BY DEF Pages
    <2>4. \A k \in DOMAIN reader.pages : Fits(reader.pages[k]) /\ Fits(reader.pages[k])'
      BY <1>5, <2>1 DEF Reading, PagesJoin
    <2>5. \A k \in DOMAIN reader.pages : reader.pages[k].start <= Len(log) + 1 /\ reader.pages[k].end <= Len(log) + 1
      BY <1>1, <2>1, <2>3, <2>4 DEF Fits
    <2>6. reader.pages # <<>> =>
            /\ Between(Last(reader.pages).start, reader.pages[1].end)'
                 = Between(Last(reader.pages).start, reader.pages[1].end)
            /\ HasMore(Last(reader.pages).start)' = HasMore(Last(reader.pages).start)
      BY <1>2, <2>1, <2>2, <2>3, <2>5
    <2> QED BY <2>4, <2>6 DEF Reading, PagesJoin
  <1>7. CacheIsKeyed'
    <2> SUFFICES ASSUME NEW k \in DOMAIN cache PROVE Fits(cache[k].page)' /\ Keyed(cache[k])'
      BY DEF CacheIsKeyed
    <2>0. cache[k] \in Entries
      BY DEF TypeOK
    <2>1. cache[k].page \in Pages /\ Fits(cache[k].page) /\ Keyed(cache[k])
      BY <2>0 DEF Reading, CacheIsKeyed, Entries
    <2>2. cache[k].page.start \in Nat /\ cache[k].page.end \in Nat
      BY <2>1 DEF Pages
    <2>3. cache[k].page.start <= Len(log) + 1 /\ cache[k].page.end <= Len(log) + 1
      BY <1>1, <2>1, <2>2 DEF Fits
    <2>4. CompactionBefore(cache[k].page.end)' = CompactionBefore(cache[k].page.end)
          /\ HasMore(cache[k].page.start)' = HasMore(cache[k].page.start)
      BY <1>2, <2>2, <2>3
    <2> QED BY <1>5, <2>1, <2>4 DEF Keyed
  <1> QED BY <1>4, <1>6, <1>7 DEF Reading

\* What is found in a log that stays as it is.
LEMMA LogKept ==
  ASSUME UNCHANGED log
  PROVE  /\ \A a, b : Between(a, b)' = Between(a, b)
         /\ \A b : HasMore(b)' = HasMore(b) /\ CompactionBefore(b)' = CompactionBefore(b)
         /\ \A page : Fits(page)' <=> Fits(page)
  BY DEF Between, HasMore, CompactionBefore, Fits

\* Pages that stay as they are join as they did.
LEMMA PagesKept ==
  ASSUME PagesJoin, UNCHANGED <<log, reader.pages, reader.more>>
  PROVE  PagesJoin'
  <1>1. PICK pages, more : pages = reader.pages /\ more = reader.more
    OBVIOUS
  <1>2. reader'.pages = pages /\ reader'.more = more
    BY <1>1
  <1> DEFINE read == UNION {pages[k].ids : k \in DOMAIN pages}
  <1> DEFINE Join(between, more2) ==
       /\ \A j, k \in DOMAIN pages : j < k => pages[k].end <= pages[j].start
       /\ pages # <<>> => read = between /\ more = more2
  <1>3. (\A k \in DOMAIN pages : Fits(pages[k])) /\ Join(Between(Last(pages).start, pages[1].end), HasMore(Last(pages).start))
    BY <1>1 DEF PagesJoin
  <1>4. (\A k \in DOMAIN pages : Fits(pages[k])')
        /\ Join(Between(Last(pages).start, pages[1].end)', HasMore(Last(pages).start)')
    <2> HIDE DEF Join
    <2> QED BY <1>3, LogKept
  <1> QED BY <1>2, <1>4 DEF PagesJoin

\* A cache that stays as it is is keyed as it was.
LEMMA CacheKept == ASSUME CacheIsKeyed, UNCHANGED <<log, cache>> PROVE CacheIsKeyed'
  BY ZenonT(60) DEF CacheIsKeyed, Fits, Keyed, Between, HasMore, CompactionBefore

\* Reading the row.
LEMMA HistoryReadRow == ASSUME TypeOK, Reading, ReadRow PROVE TypeOK' /\ Reading'
  <1>1. /\ UNCHANGED <<log, meta, ran, turn, cache>>
        /\ reader' = [reader EXCEPT !.knows = meta]
        /\ reader.more
    BY DEF ReadRow
  <1>2. reader \in Readers /\ meta \in MetaRows
    BY DEF TypeOK
  <1>3. reader' \in Readers
        /\ reader'.knows = meta /\ reader'.pages = reader.pages /\ reader'.more = reader.more
    BY <1>1, <1>2 DEF Readers
  <1>4. TypeOK'
    BY <1>1, <1>3 DEF TypeOK
  <1>5. RowsTell'
    BY <1>1, <1>3 DEF Reading, RowsTell, Tells, CompactionBefore
  <1>6. PagesJoin'
    BY <1>1, <1>3, PagesKept DEF Reading
  <1>7. CacheIsKeyed'
    BY <1>1, CacheKept DEF Reading
  <1> QED BY <1>4, <1>5, <1>6, <1>7 DEF Reading

\* Leaving the thread.
LEMMA HistoryLeave == ASSUME TypeOK, Reading, Leave PROVE TypeOK' /\ Reading'
  <1>1. UNCHANGED <<log, meta, ran, turn, cache>> /\ reader' = NoReader
    BY DEF Leave
  <1>2. <<>> \in Seq(Pages)
    OBVIOUS
  <1>3. reader'.pages = <<>> /\ reader'.knows = None
        /\ reader' \in Readers
    BY <1>1, <1>2 DEF NoReader, Readers
  <1>4. TypeOK'
    BY <1>1, <1>3 DEF TypeOK
  <1>5. RowsTell'
    BY <1>1, <1>3 DEF Reading, RowsTell, Tells, CompactionBefore
  <1>6. PagesJoin'
    BY <1>3 DEF PagesJoin
  <1>7. CacheIsKeyed'
    BY <1>1, CacheKept DEF Reading
  <1> QED BY <1>4, <1>5, <1>6, <1>7 DEF Reading

\* Where the segment that is read ends.
EndOfSegment == IF reader.pages = <<>> THEN reader.knows.last + 1 ELSE Last(reader.pages).start

\* The segment begins with the last compaction before its end, whichever way it is found:
\* the row a reader knows names that compaction.
LEMMA HistorySegment ==
  ASSUME TypeOK, Reading, reader.knows # None
  PROVE  /\ EndOfSegment \in Nat /\ EndOfSegment <= Len(log) + 1
         /\ Segment = Page(CompactionBefore(EndOfSegment), EndOfSegment)
         /\ Segment \in Pages /\ Fits(Segment)
         /\ Key \in Nat \X Nat
         /\ EndOfSegment = IF Key[1] # 0 THEN Key[1] ELSE Key[2] + 1
  <1>1. reader \in Readers /\ Len(log) \in Nat
    BY LogShape DEF TypeOK
  <1>a. reader.pages \in Seq(Pages)
    BY <1>1 DEF Readers
  <1>2. reader.knows \in MetaRows /\ reader.knows.last \in Nat /\ reader.knows.last <= Len(log)
        /\ reader.knows.compaction = CompactionBefore(reader.knows.last + 1) /\ reader.more
    BY <1>1 DEF Reading, RowsTell, Tells, MetaRows, Readers
  <1>3. ASSUME reader.pages # <<>>
        PROVE  /\ Last(reader.pages).start \in Nat /\ Last(reader.pages).start <= Len(log) + 1
               /\ Last(reader.pages).start # 0
    <2>1. Last(reader.pages) = reader.pages[Len(reader.pages)] /\ Len(reader.pages) \in DOMAIN reader.pages
      BY <1>a, <1>3 DEF Last
    <2>2. PICK page \in Pages : page = Last(reader.pages) /\ Fits(page)
      BY <1>a, <2>1 DEF Reading, PagesJoin
    <2>3. page.start \in Nat /\ page.end \in Nat
      BY DEF Pages
    <2>4. HasMore(Last(reader.pages).start)
      BY <1>2, <1>3 DEF Reading, PagesJoin
    <2> QED BY <1>1, <2>2, <2>3, <2>4 DEF Fits, HasMore
  <1>4. PICK end : end = EndOfSegment
    OBVIOUS
  <1>5. end \in Nat /\ end <= Len(log) + 1
    BY <1>1, <1>2, <1>3, <1>4 DEF EndOfSegment
  <1>6. Segment = Page(CompactionBefore(end), end)
    BY <1>2, <1>4 DEF Segment, EndOfSegment
  <1>7. PICK start : start = CompactionBefore(end)
    OBVIOUS
  <1>8. start \in Nat /\ start <= end
    BY <1>5, <1>7, LastCompaction
  <1>9. Between(start, end) \subseteq Nat
    BY LogShape DEF Between
  <1>10. Segment \in Pages /\ Fits(Segment)
    BY <1>5, <1>6, <1>7, <1>8, <1>9 DEF Page, Pages, Fits
  <1>11. Key \in Nat \X Nat /\ end = IF Key[1] # 0 THEN Key[1] ELSE Key[2] + 1
    BY <1>2, <1>3, <1>4 DEF Key, EndOfSegment
  <1> QED BY <1>4, <1>5, <1>6, <1>10, <1>11

\* One more page, which ends where the last one starts.
LEMMA PageJoins ==
  ASSUME TypeOK, PagesJoin, NEW page \in Pages, Fits(page),
         reader.pages # <<>> => page.end = Last(reader.pages).start,
         UNCHANGED log, reader'.pages = Append(reader.pages, page),
         reader'.more = HasMore(page.start)
  PROVE  PagesJoin'
  <1> DEFINE n == Len(reader.pages)
  <1>1. reader.pages \in Seq(Pages) /\ n \in Nat /\ DOMAIN reader.pages = 1..n
        /\ \A k \in 1..n : reader.pages[k] \in Pages
    BY DEF TypeOK, Readers
  <1>2. \A p \in Pages : p.start \in Nat /\ p.end \in Nat
    BY DEF Pages
  <1>3. DOMAIN reader'.pages = 1..(n + 1) /\ Len(reader'.pages) = n + 1 /\ reader'.pages # <<>>
        /\ reader'.pages[n + 1] = page /\ \A k \in 1..n : reader'.pages[k] = reader.pages[k]
    <2>1. PICK seq \in Seq(Pages) : seq = reader.pages
      BY <1>1
    <2>2. PICK more : more = Append(seq, page)
      OBVIOUS
    <2>3. more \in Seq(Pages) /\ Len(more) = Len(seq) + 1 /\ DOMAIN more = 1..(Len(seq) + 1)
          /\ more[Len(seq) + 1] = page /\ \A k \in 1..Len(seq) : more[k] = seq[k]
      BY <2>2
    <2>4. more # <<>>
      BY <2>3
    <2> QED BY <2>1, <2>2, <2>3, <2>4
  <1>4. Last(reader'.pages) = page
    BY <1>3 DEF Last
  <1>5. reader.pages # <<>> =>
          /\ 1 \in 1..n /\ n \in 1..n /\ reader'.pages[1] = reader.pages[1]
          /\ Last(reader.pages) = reader.pages[n]
    BY <1>1, <1>3 DEF Last
  <1>6. \A k \in 1..n : Fits(reader.pages[k]) /\ reader.pages[k].start <= reader.pages[k].end
    BY <1>1 DEF PagesJoin, Fits
  <1>7. \A k \in DOMAIN reader'.pages : Fits(reader'.pages[k])
    BY <1>1, <1>3, <1>6
  <1>8. \A k \in 1..n : page.end <= reader.pages[k].start
    <2> SUFFICES ASSUME NEW k \in 1..n PROVE page.end <= reader.pages[k].start
      OBVIOUS
    <2>1. page.end = reader.pages[n].start /\ n \in 1..n
      BY <1>1, <1>5
    <2>2. CASE k = n
      BY <1>1, <1>2, <2>1, <2>2
    <2>3. CASE k # n
      <3>1. reader.pages[n].end <= reader.pages[k].start
        BY <1>1, <2>1, <2>3 DEF PagesJoin
      <3>2. reader.pages[n].start <= reader.pages[n].end
        BY <1>6, <2>1
      <3> QED BY <1>1, <1>2, <2>1, <3>1, <3>2
    <2> QED BY <2>2, <2>3
  <1>9. \A j, k \in DOMAIN reader'.pages : j < k => reader'.pages[k].end <= reader'.pages[j].start
    <2> SUFFICES ASSUME NEW j \in 1..(n + 1), NEW k \in 1..(n + 1), j < k
                 PROVE  reader'.pages[k].end <= reader'.pages[j].start
      BY <1>3
    <2>1. j \in 1..n
      BY <1>1
    <2>2. CASE k = n + 1
      BY <1>3, <1>8, <2>1, <2>2
    <2>3. CASE k # n + 1
      <3>1. k \in 1..n
        BY <1>1, <2>3
      <3> QED BY <1>1, <1>3, <2>1, <3>1 DEF PagesJoin
    <2> QED BY <2>2, <2>3
  <1>10. UNION {reader'.pages[k].ids : k \in DOMAIN reader'.pages}
           = page.ids \cup UNION {reader.pages[k].ids : k \in DOMAIN reader.pages}
    <2>1. DOMAIN reader'.pages = 1..n \cup {n + 1}
      BY <1>1, <1>3
    <2>2. {reader'.pages[k].ids : k \in DOMAIN reader'.pages}
            = {page.ids} \cup {reader.pages[k].ids : k \in DOMAIN reader.pages}
      BY <1>1, <1>3, <2>1
    <2> QED BY <2>2
  <1>11. UNION {reader'.pages[k].ids : k \in DOMAIN reader'.pages} = Between(page.start, reader'.pages[1].end)
    <2>1. page.ids = Between(page.start, page.end) /\ page.start <= page.end
      BY DEF Fits
    <2>2. CASE reader.pages = <<>>
      <3>1. n = 0 /\ reader'.pages[1] = page /\ DOMAIN reader.pages = {}
        BY <1>1, <1>3, <2>2
      <3> QED BY <1>10, <2>1, <3>1
    <2>3. CASE reader.pages # <<>>
      <3>1. PICK first \in Pages, last \in Pages :
              first = reader.pages[1] /\ last = reader.pages[n] /\ last = Last(reader.pages)
        BY <1>1, <1>5, <2>3
      <3>2. UNION {reader.pages[k].ids : k \in DOMAIN reader.pages} = Between(last.start, first.end)
        BY <2>3, <3>1 DEF PagesJoin
      <3>3. last.start <= first.end
        <4>0. n \in Nat /\ n >= 1
          BY <1>1, <1>5, <2>3
        <4>1. CASE n = 1
          BY <1>5, <1>6, <2>3, <3>1, <4>1
        <4>2. CASE n # 1
          <5>0. 1 < n /\ 1 \in 1..n /\ n \in 1..n
            <6> HIDE DEF n
            <6> QED BY <4>0, <4>2
          <5>1. 1 \in DOMAIN reader.pages /\ n \in DOMAIN reader.pages
            BY <1>1, <5>0
          <5>2. last.end <= first.start /\ last.start <= last.end /\ first.start <= first.end
            BY <1>5, <1>6, <2>3, <3>1, <5>0, <5>1 DEF PagesJoin
          <5> QED BY <1>2, <5>2
        <4> QED BY <4>1, <4>2
      <3>4. page.end = last.start /\ reader'.pages[1].end = first.end
        BY <1>5, <2>3, <3>1
      <3>5. Between(page.start, page.end) \cup Between(last.start, first.end) = Between(page.start, first.end)
        <4>1. DOMAIN log \subseteq Nat
          BY LogShape
        <4> QED BY <1>2, <2>1, <3>3, <3>4, <4>1 DEF Between
      <3> QED BY <1>10, <2>1, <3>2, <3>4, <3>5
    <2> QED BY <2>2, <2>3
  <1>12. PICK pages, more : pages = reader'.pages /\ more = reader'.more
    OBVIOUS
  <1>13. /\ \A k \in DOMAIN pages : Fits(pages[k])'
         /\ UNION {pages[k].ids : k \in DOMAIN pages} = Between(Last(pages).start, pages[1].end)'
         /\ more = HasMore(Last(pages).start)'
    BY <1>4, <1>7, <1>11, <1>12, LogKept, ZenonT(60)
  <1> QED BY <1>9, <1>12, <1>13 DEF PagesJoin

\* Reading the events of a segment, from the cache or from the log: what is cached under the
\* key is what would be read now.
LEMMA HistoryReadSegment == ASSUME TypeOK, Reading, ReadSegment PROVE TypeOK' /\ Reading'
  <1>1. reader.knows # None /\ UNCHANGED <<log, meta, ran, turn>>
    BY DEF ReadSegment, Keys
  <1>2. PICK end \in Nat : /\ end = EndOfSegment /\ end <= Len(log) + 1
                          /\ Segment = Page(CompactionBefore(end), end)
                          /\ Segment \in Pages /\ Fits(Segment) /\ Key \in Nat \X Nat
                          /\ end = IF Key[1] # 0 THEN Key[1] ELSE Key[2] + 1
    BY <1>1, HistorySegment
  <1>3. PICK page, more :
          /\ page = IF Cached # {} THEN cache[Max(Cached)].page ELSE Segment
          /\ more = IF Cached # {} THEN cache[Max(Cached)].more ELSE HasMore(Segment.start)
          /\ reader' = [knows |-> None, pages |-> Append(reader.pages, page), more |-> more]
          /\ cache' = IF Cached # {} THEN cache
                      ELSE Append(cache, [key |-> Key, page |-> page, more |-> more])
    BY DEF ReadSegment
  <1>4. cache \in Seq(Entries) /\ reader \in Readers
    BY DEF TypeOK
  <1>5. /\ page \in Pages /\ Fits(page) /\ page.end = end
        /\ page.start = CompactionBefore(end) /\ more = HasMore(page.start)
    <2>1. CASE Cached # {}
      <3>1. Cached \subseteq 0..Len(cache) /\ Len(cache) \in Nat
        BY <1>4 DEF Cached
      <3>2. PICK k \in Cached : k = Max(Cached)
        BY <2>1, <3>1, MaxOf
      <3>3. k \in DOMAIN cache /\ cache[k].key = Key /\ cache[k] \in Entries
        BY <1>4, <3>2 DEF Cached
      <3>4. PICK entry \in Entries : entry = cache[k]
        BY <3>3
      <3>5. entry.key = Key /\ entry.page \in Pages /\ Fits(entry.page) /\ Keyed(entry)
        BY <3>3, <3>4 DEF Reading, CacheIsKeyed, Entries
      <3>6. page = entry.page /\ more = entry.more
        BY <1>3, <2>1, <3>2, <3>4
      <3> QED BY <1>2, <3>5, <3>6 DEF Keyed
    <2>2. CASE Cached = {}
      <3>1. page = Segment /\ more = HasMore(Segment.start)
        BY <1>3, <2>2
      <3>2. Segment.start = CompactionBefore(end) /\ Segment.end = end
        BY <1>2 DEF Page
      <3> QED BY <1>2, <3>1, <3>2
    <2> QED BY <2>1, <2>2
  <1>6. more \in BOOLEAN
    BY <1>5 DEF HasMore
  <1>7. reader'.knows = None /\ reader'.pages = Append(reader.pages, page) /\ reader'.more = more
    BY <1>3
  <1>8. reader' \in Readers
    <2>1. reader.pages \in Seq(Pages)
      BY <1>4 DEF Readers
    <2>2. Append(reader.pages, page) \in Seq(Pages)
      BY <1>5, <2>1
    <2> QED BY <1>3, <1>6, <2>2 DEF Readers
  <1>9. PICK entry : entry = [key |-> Key, page |-> page, more |-> more]
    OBVIOUS
  <1>10. entry \in Entries /\ entry.key = Key /\ entry.page = page /\ entry.more = more
    BY <1>2, <1>5, <1>6, <1>9 DEF Entries
  <1>11. cache' = cache \/ cache' = Append(cache, entry)
    BY <1>3, <1>9
  <1>12. TypeOK'
    <2>1. cache' \in Seq(Entries)
      BY <1>4, <1>10, <1>11
    <2> QED BY <1>1, <1>8, <2>1 DEF TypeOK
  <1>13. RowsTell'
    BY <1>1, <1>7 DEF Reading, RowsTell, Tells, CompactionBefore
  <1>14. PagesJoin'
    <2>1. reader.pages # <<>> => page.end = Last(reader.pages).start
      BY <1>2, <1>5 DEF EndOfSegment
    <2> QED BY <1>1, <1>5, <1>7, <2>1, PageJoins DEF Reading
  <1>15. CacheIsKeyed'
    <2>1. Keyed(entry) /\ Fits(entry.page)
      BY <1>2, <1>5, <1>10 DEF Keyed
    <2>2. \A k \in DOMAIN cache' : Fits(cache'[k].page) /\ Keyed(cache'[k])
      BY <1>4, <1>11, <2>1 DEF Reading, CacheIsKeyed
    <2>3. PICK c : c = cache'
      OBVIOUS
    <2>4. \A k \in DOMAIN c : Fits(c[k].page)' /\ Keyed(c[k])'
      <3> SUFFICES ASSUME NEW k \in DOMAIN c PROVE Fits(c[k].page)' /\ Keyed(c[k])'
        OBVIOUS
      <3>1. Fits(c[k].page) /\ Keyed(c[k])
        BY <2>2, <2>3
      <3>2. Fits(c[k].page)'
        BY <1>1, <3>1, LogKept
      <3>3. CompactionBefore(c[k].page.end)' = CompactionBefore(c[k].page.end)
            /\ HasMore(c[k].page.start)' = HasMore(c[k].page.start)
        BY <1>1, LogKept
      <3> QED BY <3>1, <3>2, <3>3 DEF Keyed
    <2> QED BY <2>3, <2>4 DEF CacheIsKeyed
  <1> QED BY <1>12, <1>13, <1>14, <1>15 DEF Reading

-----------------------------------------------------------------------------
(* The turns *)

\* What the log and the rows say of the turns.
Told == TurnsEnd /\ RowCounts /\ LastIsTheEnd /\ ResultsAreRows

\* Turns that ended are among those that began.
LEMMA EndedIsFinite == ASSUME TypeOK, NEW types PROVE IsFiniteSet(Ended(types)) /\ Cardinality(Ended(types)) \in Nat
  <1>1. turn.n \in Nat
    BY DEF TypeOK
  <1>2. IsFiniteSet(1..turn.n)
    BY <1>1, FS_Interval
  <1>3. Ended(types) \subseteq 1..turn.n
    BY DEF Ended
  <1>4. IsFiniteSet(Ended(types))
    BY <1>2, <1>3, FS_Subset
  <1> QED BY <1>4, FS_CardinalityType

\* The ends of a turn when an event is appended: the event, if it is one.
LEMMA EndsGrow ==
  ASSUME NEW e, Longer(e), NEW t
  PROVE  EndsOf(t)' = EndsOf(t) \cup (IF e.turn = t /\ e.type \in Ends THEN {Len(log) + 1} ELSE {})
  <1>1. DOMAIN log' = DOMAIN log \cup {Len(log) + 1} /\ log'[Len(log) + 1] = e
        /\ Len(log) + 1 \notin DOMAIN log /\ \A k \in DOMAIN log : log'[k] = log[k]
    BY Grows, LogShape DEF Longer
  <1> QED BY <1>1 DEF EndsOf

\* An event of the turn under way which does not end it.
LEMMA NotEnded ==
  ASSUME TypeOK, Told, NEW e \in Events, Store(e), e.turn = turn.n, e.type \notin Ends,
         turn' \in [n : Nat, stage : Stages, text : Texts], turn'.n = turn.n,
         turn.stage \notin {"none", "running"}, turn'.stage \notin {"none", "running", "result"},
         turn'.stage = "final" => e.type = "response" /\ e.text = "answer" /\ e.text # None,
         e.run # 0 => turn.stage = "result" /\ e.run = Len(ran) /\ e.text = ran[Len(ran)],
         turn.stage = "result" => e.run # 0,
         UNCHANGED ran
  PROVE  Told'
  <1>1. /\ Longer(e) /\ Len(log') = Len(log) + 1 /\ DOMAIN log' = DOMAIN log \cup {Len(log) + 1}
        /\ log'[Len(log) + 1] = e /\ \A k \in DOMAIN log : log'[k] = log[k]
        /\ Len(log) \in Nat /\ DOMAIN log = 1..Len(log)
    BY RowApplied, Grows, LogShape
  <1>2. \A t : EndsOf(t)' = EndsOf(t)
    <2> SUFFICES ASSUME NEW t PROVE EndsOf(t)' = EndsOf(t)
      OBVIOUS
    <2>1. EndsOf(t)' = EndsOf(t) \cup {}
      BY <1>1, EndsGrow
    <2> QED BY <2>1
  <1>3. turn.n \in Nat /\ turn.n # 0 /\ turn.n \in 1..turn.n
    BY DEF TypeOK, Told, TurnsEnd
  <1>4. TurnsEnd'
    <2>1. \A k \in DOMAIN log' : log'[k].turn \in 1..turn'.n
      BY <1>1, <1>3 DEF Told, TurnsEnd
    <2>2. \A t \in 1..turn'.n : \E k \in DOMAIN log' : log'[k].turn = t
      BY <1>1 DEF Told, TurnsEnd
    <2>3. \A t \in 1..turn'.n : IF t = turn'.n /\ turn'.stage # "none" THEN EndsOf(t)' = {}
                                 ELSE \E k \in DOMAIN log' : EndsOf(t)' = {k}
      <3> SUFFICES ASSUME NEW t \in 1..turn.n
                   PROVE  IF t = turn.n THEN EndsOf(t)' = {} ELSE \E k \in DOMAIN log' : EndsOf(t)' = {k}
        OBVIOUS
      <3>1. IF t = turn.n THEN EndsOf(t) = {} ELSE \E k \in DOMAIN log : EndsOf(t) = {k}
        BY DEF Told, TurnsEnd
      <3>2. EndsOf(t)' = EndsOf(t)
        BY <1>2
      <3> QED BY <1>1, <3>1, <3>2
    <2> QED BY <1>3, <2>1, <2>2, <2>3 DEF TurnsEnd
  <1>5. \A types : Ended(types)' = Ended(types)
    BY <1>1, <1>2 DEF Ended, EndsOf
  <1>6. meta'.turns = meta.turns /\ meta'.interrupted = meta.interrupted
    <2>1. meta.turns \in Nat /\ meta.interrupted \in Nat
      BY DEF TypeOK, MetaRows
    <2> QED BY <2>1, RowApplied DEF Ends
  <1>7. RowCounts'
    BY <1>5, <1>6 DEF Told, RowCounts
  <1>8. LastIsTheEnd'
    <2> SUFFICES ASSUME turn'.stage = "final" PROVE Answered(Len(log))'
      BY DEF LastIsTheEnd
    <2>1. meta'.text = "answer"
      BY RowApplied DEF Conversation
    <2> QED BY <1>1, <2>1 DEF Answered
  <1>9. ResultsAreRows'
    <2> SUFFICES ASSUME NEW k \in DOMAIN log', log'[k].run # 0
                 PROVE  log'[k].run \in DOMAIN ran /\ log'[k].text = ran[log'[k].run]
      BY DEF ResultsAreRows
    <2>1. CASE k \in DOMAIN log
      BY <1>1, <2>1 DEF Told, ResultsAreRows
    <2>2. CASE k = Len(log) + 1
      <3>1. ran \in Seq(Outcomes) /\ ran # <<>>
        BY <1>1, <2>2 DEF TypeOK, Told, ResultsAreRows
      <3> QED BY <1>1, <2>2, <3>1
    <2> QED BY <1>1, <2>1, <2>2
  <1> QED BY <1>4, <1>7, <1>8, <1>9 DEF Told

\* The event that ends the turn under way.
LEMMA Ending ==
  ASSUME TypeOK, Told, NEW e \in Events, Store(e), e.turn = turn.n, e.type \in Ends, e.run = 0,
         turn' \in [n : Nat, stage : Stages, text : Texts], turn'.n = turn.n,
         turn.stage \notin {"none", "running", "result"}, turn'.stage = "none",
         e.type = "completed" => turn.stage = "final",
         UNCHANGED ran
  PROVE  Told'
  <1>1. /\ Longer(e) /\ Len(log') = Len(log) + 1 /\ DOMAIN log' = DOMAIN log \cup {Len(log) + 1}
        /\ log'[Len(log) + 1] = e /\ \A k \in DOMAIN log : log'[k] = log[k]
        /\ Len(log) \in Nat /\ DOMAIN log = 1..Len(log) /\ log' \in Seq(Events)
    BY RowApplied, Grows, LogShape
  <1>2. turn.n \in Nat /\ turn.n # 0 /\ turn.n \in 1..turn.n
    BY DEF TypeOK, Told, TurnsEnd
  <1>3. EndsOf(turn.n) = {}
    BY <1>2 DEF Told, TurnsEnd
  <1>4. EndsOf(turn.n)' = {Len(log) + 1}
    <2>1. PICK t : t = turn.n
      OBVIOUS
    <2>2. EndsOf(t)' = {Len(log) + 1}
      BY <1>1, <1>3, <2>1, EndsGrow
    <2> QED BY <2>1, <2>2
  <1>5. ASSUME NEW t, t # turn.n PROVE EndsOf(t)' = EndsOf(t)
    <2>1. EndsOf(t)' = EndsOf(t) \cup {}
      BY <1>1, <1>5, EndsGrow
    <2> QED BY <2>1
  <1>6. TurnsEnd'
    <2>1. \A k \in DOMAIN log' : log'[k].turn \in 1..turn'.n
      BY <1>1, <1>2 DEF Told, TurnsEnd
    <2>2. \A t \in 1..turn'.n : \E k \in DOMAIN log' : log'[k].turn = t
      BY <1>1 DEF Told, TurnsEnd
    <2>3. \A t \in 1..turn'.n : \E k \in DOMAIN log' : EndsOf(t)' = {k}
      <3> SUFFICES ASSUME NEW t \in 1..turn.n PROVE \E k \in DOMAIN log' : EndsOf(t)' = {k}
        OBVIOUS
      <3>1. CASE t = turn.n
        BY <1>1, <1>4, <3>1
      <3>2. CASE t # turn.n
        <4>1. \E k \in DOMAIN log : EndsOf(t) = {k}
          BY <3>2 DEF Told, TurnsEnd
        <4>2. EndsOf(t)' = EndsOf(t)
          BY <1>5, <3>2
        <4> QED BY <1>1, <4>1, <4>2
      <3> QED BY <3>1, <3>2
    <2> QED BY <2>1, <2>2, <2>3 DEF TurnsEnd
  <1>7. ASSUME NEW types
        PROVE  Cardinality(Ended(types))' = Cardinality(Ended(types)) + (IF e.type \in types THEN 1 ELSE 0)
    <2>1. turn.n \notin Ended(types) /\ IsFiniteSet(Ended(types)) /\ Cardinality(Ended(types)) \in Nat
      BY <1>3, EndedIsFinite DEF Ended
    <2>2. Ended(types)' = Ended(types) \cup (IF e.type \in types THEN {turn.n} ELSE {})
      <3>1. ASSUME NEW t \in 1..turn.n, t # turn.n
            PROVE  (\E k \in EndsOf(t)' : log'[k].type \in types) <=> \E k \in EndsOf(t) : log[k].type \in types
        <4>1. EndsOf(t)' = EndsOf(t) /\ EndsOf(t) \subseteq DOMAIN log
          BY <1>5, <3>1 DEF EndsOf
        <4> QED BY <1>1, <4>1
      <3>2. (\E k \in EndsOf(turn.n)' : log'[k].type \in types) <=> e.type \in types
        BY <1>1, <1>4
      <3> QED BY <1>2, <2>1, <3>1, <3>2 DEF Ended
    <2>3. CASE e.type \in types
      <3>1. Ended(types)' = Ended(types) \cup {turn.n}
        BY <2>2, <2>3
      <3> QED BY <2>1, <2>3, <3>1, FS_AddElement, ZenonT(60)
    <2>4. CASE e.type \notin types
      <3>1. Ended(types)' = Ended(types)
        BY <2>2, <2>4
      <3> QED BY <2>1, <2>4, <3>1
    <2> QED BY <2>3, <2>4
  <1>8. RowCounts'
    <2>1. meta'.turns = meta.turns + (IF e.type = "completed" THEN 1 ELSE 0)
          /\ meta'.interrupted = meta.interrupted + (IF e.type \in {"interrupted", "error"} THEN 1 ELSE 0)
      BY RowApplied
    <2>2. e.type \in {"completed"} <=> e.type = "completed"
      OBVIOUS
    <2>3. Cardinality(Ended({"completed"}))' = meta'.turns
      BY <1>7, <2>1, <2>2 DEF Told, RowCounts
    <2>4. Cardinality(Ended({"interrupted", "error"}))' = meta'.interrupted
      BY <1>7, <2>1 DEF Told, RowCounts
    <2> QED BY <2>3, <2>4 DEF RowCounts
  <1>9. LastIsTheEnd'
    <2>1. Last(log') = e /\ turn'.stage # "final"
      BY <1>1 DEF Last
    <2>2. ASSUME e.type = "completed" PROVE Answered(Len(log) - 1)'
      <3>1. Answered(Len(log))
        BY <2>2 DEF Told, LastIsTheEnd
      <3>2. meta'.text = meta.text
        BY <2>2, RowApplied DEF Conversation
      <3>3. Len(log') - 1 = Len(log)
        BY <1>1
      <3> QED BY <1>1, <3>1, <3>2, <3>3, Zenon DEF Answered
    <2> QED BY <2>1, <2>2 DEF LastIsTheEnd
  <1>10. ResultsAreRows'
    <2> SUFFICES ASSUME NEW k \in DOMAIN log', log'[k].run # 0
                 PROVE  log'[k].run \in DOMAIN ran /\ log'[k].text = ran[log'[k].run]
      BY DEF ResultsAreRows
    <2>1. k \in DOMAIN log
      BY <1>1
    <2> QED BY <1>1, <2>1 DEF Told, ResultsAreRows
  <1> QED BY <1>6, <1>8, <1>9, <1>10 DEF Told

\* The question a turn begins with.
LEMMA HistoryBegin ==
  ASSUME TypeOK, Told, Begin
  PROVE  Told'
  <1> DEFINE e == Event("user", turn.n + 1, "question")
  <1>1. turn.n \in Nat /\ turn.stage = "none" /\ Store(e) /\ UNCHANGED ran
        /\ turn' = [n |-> turn.n + 1, stage |-> "model", text |-> None]
    BY DEF TypeOK, Begin
  <1>2. e \in Events /\ e.turn = turn.n + 1 /\ e.type = "user" /\ e.run = 0
    BY <1>1 DEF Event, Events, Visible, Conversation, Texts
  <1> HIDE DEF e
  <1>3. /\ Longer(e) /\ Len(log') = Len(log) + 1 /\ DOMAIN log' = DOMAIN log \cup {Len(log) + 1}
        /\ log'[Len(log) + 1] = e /\ \A k \in DOMAIN log : log'[k] = log[k]
        /\ Len(log) \in Nat /\ DOMAIN log = 1..Len(log)
    BY <1>1, <1>2, RowApplied, Grows, LogShape
  <1>4. \A t : EndsOf(t)' = EndsOf(t)
    <2> SUFFICES ASSUME NEW t PROVE EndsOf(t)' = EndsOf(t)
      OBVIOUS
    <2>1. EndsOf(t)' = EndsOf(t) \cup {}
      BY <1>2, <1>3, EndsGrow DEF Ends
    <2> QED BY <2>1
  <1>5. EndsOf(turn.n + 1) = {}
    BY <1>1 DEF Told, TurnsEnd, EndsOf
  <1>6. 1..(turn.n + 1) = 1..turn.n \cup {turn.n + 1} /\ turn'.n = turn.n + 1 /\ turn'.stage = "model"
    BY <1>1
  <1>7. TurnsEnd'
    <2>1. \A k \in DOMAIN log' : log'[k].turn \in 1..(turn.n + 1)
      BY <1>2, <1>3, <1>6 DEF Told, TurnsEnd
    <2>2. \A t \in 1..(turn.n + 1) : \E k \in DOMAIN log' : log'[k].turn = t
      <3>1. \A t \in 1..turn.n : \E k \in DOMAIN log' : log'[k].turn = t
        BY <1>3 DEF Told, TurnsEnd
      <3>2. log'[Len(log) + 1].turn = turn.n + 1 /\ Len(log) + 1 \in DOMAIN log'
        BY <1>2, <1>3
      <3> QED BY <1>6, <3>1, <3>2
    <2>3. \A t \in 1..(turn.n + 1) : IF t = turn.n + 1 THEN EndsOf(t)' = {}
                                     ELSE \E k \in DOMAIN log' : EndsOf(t)' = {k}
      <3> SUFFICES ASSUME NEW t \in 1..(turn.n + 1)
                   PROVE  IF t = turn.n + 1 THEN EndsOf(t)' = {} ELSE \E k \in DOMAIN log' : EndsOf(t)' = {k}
        OBVIOUS
      <3>1. EndsOf(t)' = EndsOf(t)
        BY <1>4
      <3>2. CASE t = turn.n + 1
        BY <1>5, <3>1, <3>2
      <3>3. CASE t # turn.n + 1
        <4>1. \E k \in DOMAIN log : EndsOf(t) = {k}
          BY <1>1, <1>6, <3>3 DEF Told, TurnsEnd
        <4> QED BY <1>3, <3>1, <3>3, <4>1
      <3> QED BY <3>2, <3>3
    <2> QED BY <1>1, <1>6, <2>1, <2>2, <2>3 DEF TurnsEnd
  <1>8. \A types : Ended(types)' = Ended(types)
    <2> SUFFICES ASSUME NEW types PROVE Ended(types)' = Ended(types)
      OBVIOUS
    <2>1. \A t : EndsOf(t) \subseteq DOMAIN log
      BY DEF EndsOf
    <2>2. \A t : (\E k \in EndsOf(t)' : log'[k].type \in types) <=> \E k \in EndsOf(t) : log[k].type \in types
      BY <1>3, <1>4, <2>1
    <2>3. ~ \E k \in EndsOf(turn.n + 1) : log[k].type \in types
      BY <1>5
    <2> QED BY <1>6, <2>2, <2>3 DEF Ended
  <1>9. RowCounts'
    <2>1. meta'.turns = meta.turns /\ meta'.interrupted = meta.interrupted
      <3>1. meta.turns \in Nat /\ meta.interrupted \in Nat
        BY DEF TypeOK, MetaRows
      <3> QED BY <1>1, <1>2, <3>1, RowApplied
    <2> QED BY <1>8, <2>1 DEF Told, RowCounts
  <1>10. LastIsTheEnd'
    BY <1>6 DEF LastIsTheEnd
  <1>11. ResultsAreRows'
    <2> SUFFICES ASSUME NEW k \in DOMAIN log', log'[k].run # 0
                 PROVE  log'[k].run \in DOMAIN ran /\ log'[k].text = ran[log'[k].run]
      BY <1>1, <1>6 DEF ResultsAreRows
    <2>1. k \in DOMAIN log
      BY <1>2, <1>3
    <2> QED BY <1>3, <2>1 DEF Told, ResultsAreRows
  <1> QED BY <1>7, <1>9, <1>10, <1>11 DEF Told

\* An event of this form is one.
LEMMA EventIs ==
  ASSUME NEW type \in Visible, NEW t \in Nat, NEW text \in Texts \cup Outcomes
  PROVE  /\ Event(type, t, text) \in Events /\ Event(type, t, text).type = type
         /\ Event(type, t, text).turn = t /\ Event(type, t, text).text = text
         /\ Event(type, t, text).run = 0
  BY DEF Event, Events

\* What appending keeps of the types and of what is read.
LEMMA Stored ==
  ASSUME TypeOK, Reading, NEW e \in Events, Store(e), UNCHANGED <<ran, reader, cache>>,
         turn' \in [n : Nat, stage : Stages, text : Texts]
  PROVE  TypeOK' /\ Reading'
  <1>1. log' \in Seq(Events) /\ meta' \in MetaRows
    BY RowApplied, Grows
  <1>2. TypeOK'
    BY <1>1 DEF TypeOK
  <1> QED BY <1>2, ReadingGrows

\* A response, with a call or final.
LEMMA HistoryRespond ==
  ASSUME None # "answer", Inv, NEW text \in {None, "looking", "answer"}, NEW final \in BOOLEAN,
         Respond(text, final)
  PROVE  Inv'
  <1> DEFINE e == Event("response", turn.n, text)
  <1>1. /\ TypeOK /\ Reading /\ Told /\ turn \in [n : Nat, stage : Stages, text : Texts]
        /\ turn.stage = "model" /\ (final <=> text = "answer") /\ Store(e)
        /\ turn' = [turn EXCEPT !.stage = IF final THEN "final" ELSE "call", !.text = text]
        /\ UNCHANGED <<ran, reader, cache>>
    BY DEF Inv, Reading, Told, TypeOK, Respond
  <1>2. e \in Events /\ e.type = "response" /\ e.turn = turn.n /\ e.text = text /\ e.run = 0
    <2>1. "response" \in Visible /\ text \in Texts \cup Outcomes /\ turn.n \in Nat
      BY <1>1 DEF Visible, Conversation, Texts
    <2> QED BY <2>1, EventIs
  <1>3. turn' \in [n : Nat, stage : Stages, text : Texts] /\ turn'.n = turn.n
        /\ turn'.stage = IF final THEN "final" ELSE "call"
    BY <1>1 DEF Stages, Texts
  <1> HIDE DEF e
  <1>4. TypeOK' /\ Reading'
    BY <1>1, <1>2, <1>3, Stored
  <1>5. Told'
    BY <1>1, <1>2, <1>3, NotEnded DEF Ends
  <1> QED BY <1>4, <1>5 DEF Inv, Reading, Told

\* The other events that do not end their turn.
LEMMA HistorySays ==
  ASSUME Inv, NEW type \in {"assistant", "compaction", "partial"}, NEW text \in Texts,
         NEW stage \in {"guided", "compacting", "model", "breaking"},
         turn.stage \in {"model", "compacting"}, Store(Event(type, turn.n, text)),
         turn' = [turn EXCEPT !.stage = stage], UNCHANGED <<ran, reader, cache>>
  PROVE  Inv'
  <1> DEFINE e == Event(type, turn.n, text)
  <1>1. TypeOK /\ Reading /\ Told /\ turn \in [n : Nat, stage : Stages, text : Texts] /\ Store(e)
    BY DEF Inv, Reading, Told, TypeOK
  <1>2. e \in Events /\ e.type = type /\ e.turn = turn.n /\ e.run = 0
    <2>1. type \in Visible /\ text \in Texts \cup Outcomes /\ turn.n \in Nat
      BY <1>1 DEF Visible, Conversation
    <2> QED BY <2>1, EventIs
  <1>3. turn' \in [n : Nat, stage : Stages, text : Texts] /\ turn'.n = turn.n /\ turn'.stage = stage
    BY <1>1 DEF Stages
  <1> HIDE DEF e
  <1>4. TypeOK' /\ Reading'
    BY <1>1, <1>2, <1>3, Stored
  <1>5. Told'
    BY <1>1, <1>2, <1>3, NotEnded DEF Ends
  <1> QED BY <1>4, <1>5 DEF Inv, Reading, Told

\* The events that end it.
LEMMA HistoryEnds ==
  ASSUME Inv, NEW type \in Ends, turn.stage \in {"model", "call", "breaking", "guided", "final"},
         type = "completed" => turn.stage = "final",
         Store(Event(type, turn.n, None)), turn' = [turn EXCEPT !.stage = "none"],
         UNCHANGED <<ran, reader, cache>>
  PROVE  Inv'
  <1> DEFINE e == Event(type, turn.n, None)
  <1>1. TypeOK /\ Reading /\ Told /\ turn \in [n : Nat, stage : Stages, text : Texts] /\ Store(e)
    BY DEF Inv, Reading, Told, TypeOK
  <1>2. e \in Events /\ e.type = type /\ e.turn = turn.n /\ e.run = 0
    <2>1. type \in Visible /\ None \in Texts \cup Outcomes /\ turn.n \in Nat
      BY <1>1 DEF Visible, ProcessRefs, Ends, Texts
    <2> QED BY <2>1, EventIs
  <1>3. turn' \in [n : Nat, stage : Stages, text : Texts] /\ turn'.n = turn.n /\ turn'.stage = "none"
    BY <1>1 DEF Stages
  <1> HIDE DEF e
  <1>4. TypeOK' /\ Reading'
    BY <1>1, <1>2, <1>3, Stored
  <1>5. Told'
    BY <1>1, <1>2, <1>3, Ending
  <1> QED BY <1>4, <1>5 DEF Inv, Reading, Told

\* What the turns say when nothing is appended.
LEMMA ToldKept ==
  ASSUME Told, UNCHANGED <<log, meta, turn, ran>>
  PROVE  Told'
  BY DEF Told, TurnsEnd, RowCounts, LastIsTheEnd, ResultsAreRows, EndsOf, Ended, Answered

\* The row of a run.
LEMMA HistoryRuns ==
  ASSUME Inv, StartRun \/ EndRun
  PROVE  Inv'
  <1>1. /\ TypeOK /\ Reading /\ Told /\ turn \in [n : Nat, stage : Stages, text : Texts]
        /\ ran \in Seq(Outcomes) /\ UNCHANGED <<log, meta, reader, cache>>
        /\ turn.stage \in {"call", "running"}
        /\ turn' = [turn EXCEPT !.stage = IF turn.stage = "call" THEN "running" ELSE "result"]
    BY DEF Inv, Reading, Told, TypeOK, StartRun, EndRun
  <1>2. /\ turn' \in [n : Nat, stage : Stages, text : Texts] /\ turn'.n = turn.n
        /\ turn'.stage \in {"running", "result"}
    BY <1>1 DEF Stages
  <1>3. /\ ran' \in Seq(Outcomes) /\ ran' # <<>>
        /\ \A k \in DOMAIN ran : k # Len(ran) \/ turn.stage = "call" =>
              k \in DOMAIN ran' /\ ran'[k] = ran[k] /\ k # Len(ran')
    <2>1. CASE StartRun
      <3>1. ran' = Append(ran, "pending") /\ "pending" \in Outcomes
        BY <2>1 DEF StartRun, Outcomes
      <3> QED BY <1>1, <3>1
    <2>2. CASE EndRun
      <3>1. turn.stage = "running" /\ ran # <<>>
        BY <1>1, <2>2 DEF EndRun, Told, ResultsAreRows
      <3>2. PICK status \in Outcomes : ran' = [ran EXCEPT ![Len(ran)] = status]
        BY <2>2 DEF EndRun, Outcomes
      <3> QED BY <1>1, <3>1, <3>2
    <2> QED BY <2>1, <2>2
  <1>4. TypeOK' /\ Reading'
    BY <1>1, <1>2, <1>3, ReadingKept DEF TypeOK
  <1>5. TurnsEnd' /\ RowCounts' /\ LastIsTheEnd'
    BY <1>1, <1>2 DEF Told, TurnsEnd, RowCounts, LastIsTheEnd, EndsOf, Ended, Answered
  <1>6. ResultsAreRows'
    <2> SUFFICES ASSUME NEW k \in DOMAIN log, log[k].run # 0
                 PROVE  /\ log[k].run \in DOMAIN ran' /\ log[k].text = ran'[log[k].run]
                        /\ log[k].run # Len(ran')
      BY <1>1, <1>3 DEF ResultsAreRows
    <2>1. log[k].run \in DOMAIN ran /\ log[k].text = ran[log[k].run]
          /\ (log[k].run # Len(ran) \/ turn.stage = "call")
      BY <1>1 DEF Told, ResultsAreRows
    <2> QED BY <1>3, <2>1
  <1> QED BY <1>4, <1>5, <1>6 DEF Inv, Reading

\* The result of a run says what its row says.
LEMMA HistoryStoreResult ==
  ASSUME Inv, StoreResult
  PROVE  Inv'
  <1> DEFINE e == [Event("result", turn.n, Last(ran)) EXCEPT !.run = Len(ran)]
  <1>1. /\ TypeOK /\ Reading /\ Told /\ turn \in [n : Nat, stage : Stages, text : Texts]
        /\ ran \in Seq(Outcomes) /\ UNCHANGED <<ran, reader, cache>> /\ Store(e)
        /\ turn.stage = "result" /\ turn' = [turn EXCEPT !.stage = "model"] /\ ran # <<>>
    BY DEF Inv, Reading, Told, ResultsAreRows, TypeOK, StoreResult
  <1>2. Len(ran) \in Nat /\ Len(ran) # 0 /\ Last(ran) = ran[Len(ran)] /\ Last(ran) \in Outcomes
    BY <1>1 DEF Last
  <1>3. /\ e \in Events /\ e.type = "result" /\ e.turn = turn.n /\ e.run = Len(ran)
        /\ e.text = ran[Len(ran)]
    <2>1. "result" \in Visible
      BY DEF Visible, ProcessRefs
    <2> QED BY <1>1, <1>2, <2>1 DEF Event, Events
  <1>4. turn' \in [n : Nat, stage : Stages, text : Texts] /\ turn'.n = turn.n /\ turn'.stage = "model"
    BY <1>1 DEF Stages
  <1> HIDE DEF e
  <1>5. TypeOK' /\ Reading'
    BY <1>1, <1>3, <1>4, Stored
  <1>6. Told'
    BY <1>1, <1>2, <1>3, <1>4, NotEnded DEF Ends
  <1> QED BY <1>5, <1>6 DEF Inv, Reading, Told

-----------------------------------------------------------------------------
(* The invariant *)

\* An empty thread has no events to be wrong about.
LEMMA HistoryInit == Init => Inv
  <1> SUFFICES ASSUME Init PROVE Inv
    OBVIOUS
  <1>1. /\ log = <<>> /\ meta = NoMeta /\ ran = <<>> /\ reader = NoReader /\ cache = <<>>
        /\ turn = [n |-> 0, stage |-> "none", text |-> None]
        /\ Len(log) = 0 /\ DOMAIN log = {} /\ DOMAIN ran = {} /\ DOMAIN cache = {}
    BY DEF Init
  <1>2. <<>> \in Seq(Events) /\ <<>> \in Seq(Outcomes) /\ <<>> \in Seq(Entries) /\ <<>> \in Seq(Pages)
    OBVIOUS
  <1>3. meta \in MetaRows /\ meta.turns = 0 /\ meta.interrupted = 0 /\ meta.last = 0 /\ meta.compaction = 0
    BY <1>1 DEF NoMeta, MetaRows, Texts
  <1>4. reader \in Readers /\ reader.knows = None /\ reader.pages = <<>>
    BY <1>1, <1>2 DEF NoReader, Readers
  <1>5. turn \in [n : Nat, stage : Stages, text : Texts] /\ turn.n = 0 /\ turn.stage = "none"
    BY <1>1 DEF Stages, Texts
  <1>6. TypeOK
    BY <1>1, <1>2, <1>3, <1>4, <1>5 DEF TypeOK
  <1>7. CompactionBefore(1) = 0
    <2>1. {0} \cup {k \in DOMAIN log : k < 1 /\ log[k].type = "compaction"} = {0}
      BY <1>1
    <2>2. Max({0}) = 0
      BY MaxIs
    <2> QED BY <2>1, <2>2 DEF CompactionBefore
  <1>8. RowsTell
    BY <1>1, <1>3, <1>4, <1>7 DEF RowsTell, Tells
  <1>9. PagesJoin /\ CacheIsKeyed
    BY <1>1, <1>4 DEF PagesJoin, CacheIsKeyed
  <1>10. \A types : Ended(types) = {}
    BY <1>5 DEF Ended
  <1>11. RowCounts
    BY <1>3, <1>10, FS_EmptySet DEF RowCounts
  <1>12. TurnsEnd /\ LastIsTheEnd /\ ResultsAreRows
    BY <1>1, <1>5 DEF TurnsEnd, LastIsTheEnd, ResultsAreRows
  <1> QED BY <1>6, <1>8, <1>9, <1>11, <1>12 DEF Inv

\* Every step keeps the invariant.
LEMMA HistoryStep == ASSUME None # "answer", Inv, [Next]_vars PROVE Inv'
  <1>0. TypeOK /\ Reading /\ Told
    BY DEF Inv, Reading, Told
  <1>1. CASE UNCHANGED vars
    <2>1. UNCHANGED <<log, meta, ran, turn, reader, cache>>
      BY <1>1 DEF vars
    <2>2. TypeOK'
      BY <1>0, <2>1 DEF TypeOK
    <2> QED BY <1>0, <2>1, <2>2, ReadingKept, ToldKept DEF Inv, Reading, Told
  <1>2. CASE ReadRow \/ ReadSegment \/ Leave
    <2>1. UNCHANGED <<log, meta, turn, ran>>
      BY <1>2 DEF ReadRow, ReadSegment, Leave, Keys
    <2>2. Told'
      BY <1>0, <2>1, ToldKept
    <2> QED BY <1>0, <1>2, <2>2, HistoryReadRow, HistoryReadSegment, HistoryLeave DEF Inv, Reading, Told
  <1>3. CASE Begin
    <2> DEFINE e == Event("user", turn.n + 1, "question")
    <2>1. turn \in [n : Nat, stage : Stages, text : Texts] /\ Store(e) /\ UNCHANGED <<ran, reader, cache>>
          /\ turn' = [n |-> turn.n + 1, stage |-> "model", text |-> None]
      BY <1>0, <1>3 DEF TypeOK, Begin
    <2>2. e \in Events
      BY <2>1 DEF Event, Events, Visible, Conversation, Texts
    <2>3. turn' \in [n : Nat, stage : Stages, text : Texts]
      BY <2>1 DEF Stages, Texts
    <2>4. TypeOK' /\ Reading'
      <3> HIDE DEF e
      <3> QED BY <1>0, <2>1, <2>2, <2>3, Stored
    <2>5. Told'
      BY <1>0, <1>3, HistoryBegin
    <2> QED BY <2>4, <2>5 DEF Inv, Reading, Told
  <1>4. CASE \E text \in {None, "looking", "answer"}, final \in BOOLEAN : Respond(text, final)
    BY <1>4, HistoryRespond
  <1>5. CASE StartRun \/ EndRun
    BY <1>5, HistoryRuns
  <1>6. CASE StoreResult
    BY <1>6, HistoryStoreResult
  <1>7. CASE Compact
    <2>1. /\ turn.stage \in {"model", "compacting"} /\ Store(Event("compaction", turn.n, "summary"))
          /\ turn' = [turn EXCEPT !.stage = "model"] /\ UNCHANGED <<ran, reader, cache>>
      BY <1>7 DEF Compact
    <2> QED BY <2>1, HistorySays DEF Texts
  <1>8. CASE \E stage \in {"guided", "compacting"} : Bridge(stage)
    <2>1. PICK stage \in {"guided", "compacting"} :
            /\ turn.stage = "model" /\ Store(Event("assistant", turn.n, "bridge"))
            /\ turn' = [turn EXCEPT !.stage = stage] /\ UNCHANGED <<ran, reader, cache>>
      BY <1>8 DEF Bridge
    <2> QED BY <2>1, HistorySays DEF Texts
  <1>9. CASE StorePartial
    <2>1. /\ turn.stage = "model" /\ Store(Event("partial", turn.n, "part"))
          /\ turn' = [turn EXCEPT !.stage = "breaking"] /\ UNCHANGED <<ran, reader, cache>>
      BY <1>9 DEF StorePartial
    <2> QED BY <2>1, HistorySays DEF Texts
  <1>10. CASE Complete
    <2>1. /\ turn.stage = "final" /\ Store(Event("completed", turn.n, None))
          /\ turn' = [turn EXCEPT !.stage = "none"] /\ UNCHANGED <<ran, reader, cache>>
      BY <1>10 DEF Complete
    <2> QED BY <2>1, HistoryEnds DEF Ends
  <1>11. CASE \E type \in {"interrupted", "error"} : Break(type)
    <2>1. PICK type \in {"interrupted", "error"} :
            /\ turn.stage \in {"model", "call", "breaking", "guided"}
            /\ Store(Event(type, turn.n, None))
            /\ turn' = [turn EXCEPT !.stage = "none"] /\ UNCHANGED <<ran, reader, cache>>
      BY <1>11 DEF Break
    <2> QED BY <2>1, HistoryEnds DEF Ends
  <1> QED BY <1>1, <1>2, <1>3, <1>4, <1>5, <1>6, <1>7, <1>8, <1>9, <1>10, <1>11 DEF Next

-----------------------------------------------------------------------------
(* What the invariant implies *)

\* Pages that join are whole.
LEMMA HistoryPages == ASSUME Inv PROVE PagesAreWhole
  <1>1. TypeOK /\ PagesJoin /\ reader.pages \in Seq(Pages)
    BY DEF Inv, TypeOK, Readers
  <1>2. PICK pages \in Seq(Pages) : pages = reader.pages
    BY <1>1
  <1>3. \A k \in DOMAIN pages : pages[k].start \in Nat /\ pages[k].end \in Nat
    <2>1. \A k \in DOMAIN pages : pages[k] \in Pages
      OBVIOUS
    <2> QED BY <2>1 DEF Pages
  <1>4. DOMAIN log \subseteq Nat
    BY <1>1, LogShape
  <1>5. ASSUME pages # <<>>
        PROVE  /\ UNION {pages[k].ids : k \in DOMAIN pages} = Between(Last(pages).start, pages[1].end)
               /\ reader.more = HasMore(Last(pages).start)
    BY <1>1, <1>2, <1>5 DEF PagesJoin
  <1>6. ASSUME NEW j \in DOMAIN pages, NEW k \in DOMAIN pages, j < k
        PROVE  pages[j].ids \cap pages[k].ids = {}
    <2>1. pages[k].end <= pages[j].start
      BY <1>1, <1>2, <1>6 DEF PagesJoin
    <2>2. pages[j].ids = Between(pages[j].start, pages[j].end) /\ pages[k].ids = Between(pages[k].start, pages[k].end)
      BY <1>1, <1>2 DEF PagesJoin, Fits
    <2>3. PICK a \in Nat, b \in Nat, c \in Nat, d \in Nat :
            a = pages[j].start /\ b = pages[j].end /\ c = pages[k].start /\ d = pages[k].end
      BY <1>3
    <2>4. Between(a, b) \cap Between(c, d) = {}
      BY <1>4, <2>1, <2>3 DEF Between
    <2> QED BY <2>2, <2>3, <2>4
  <1>7. \A j, k \in DOMAIN pages : j # k => pages[j].ids \cap pages[k].ids = {}
    <2> SUFFICES ASSUME NEW j \in DOMAIN pages, NEW k \in DOMAIN pages, j # k
                 PROVE  pages[j].ids \cap pages[k].ids = {}
      OBVIOUS
    <2>1. j < k \/ k < j
      OBVIOUS
    <2>2. CASE j < k
      BY <1>6, <2>2
    <2>3. CASE k < j
      <3>1. pages[k].ids \cap pages[j].ids = {}
        BY <1>6, <2>3
      <3> QED BY <3>1
    <2> QED BY <2>1, <2>2, <2>3
  <1>8. ASSUME pages # <<>>, ~reader.more
        PROVE  Between(Last(pages).start, pages[1].end) = Between(0, pages[1].end)
    <2>1. Last(pages) = pages[Len(pages)] /\ Len(pages) \in DOMAIN pages /\ 1 \in DOMAIN pages
      BY <1>8 DEF Last
    <2>2. PICK a \in Nat, b \in Nat : a = Last(pages).start /\ b = pages[1].end
      BY <1>3, <2>1
    <2>3. a = 0 \/ Between(0, a) = {}
      <3>1. ~HasMore(Last(pages).start)
        BY <1>5, <1>8
      <3>2. ~HasMore(a)
        BY <2>2, <3>1
      <3> QED BY <3>2 DEF HasMore
    <2>4. \A k \in DOMAIN log : 0 <= k /\ (a <= k \/ k < a)
      BY <1>4
    <2>5. Between(a, b) = Between(0, b)
      <3>1. CASE a = 0
        BY <3>1
      <3>2. CASE Between(0, a) = {}
        BY <2>4, <3>2 DEF Between
      <3> QED BY <2>3, <3>1, <3>2
    <2> QED BY <2>2, <2>5
  <1> QED BY <1>2, <1>5, <1>7, <1>8 DEF PagesAreWhole

\* The fields of a turn of the view.
LEMMA TurnIs ==
  ASSUME NEW ids
  PROVE  /\ Turn(ids).answer = AnswerText(ids) /\ Turn(ids).status = StatusOf(ids)
         /\ Turn(ids).refs \subseteq ids
  BY DEF Turn

\* The view is what the turns left in the log, the row and the rows of the runs.
LEMMA HistoryView == ASSUME None # "answer", Inv PROVE ViewIsTheThread
  <1> SUFFICES ASSUME turn.stage = "none", log # <<>>
               PROVE  LET view == View(DOMAIN log) IN
                      /\ view[turn.n].status = "completed" => view[turn.n].answer = meta.text
                      /\ Cardinality({t \in DOMAIN view : view[t].status = "completed"}) = meta.turns
                      /\ Cardinality({t \in DOMAIN view : view[t].status \in {"interrupted", "error"}}) = meta.interrupted
                      /\ \A t \in DOMAIN view : \A k \in view[t].refs : RefStatus(k) = Detail(k)
    BY DEF ViewIsTheThread
  <1>1. /\ TypeOK /\ TurnsEnd /\ RowCounts /\ LastIsTheEnd /\ ResultsAreRows
        /\ log \in Seq(Events) /\ turn.n \in Nat
    BY DEF Inv, TypeOK
  <1>2. DOMAIN log = 1..Len(log) /\ Len(log) \in Nat /\ Len(log) # 0 /\ Last(log) = log[Len(log)]
    BY <1>1, LogShape DEF Last
  <1>3. PICK view : view = View(DOMAIN log)
    OBVIOUS
  <1>4. {log[k].turn : k \in DOMAIN log} = 1..turn.n
    BY <1>1 DEF TurnsEnd
  <1>5. DOMAIN view = 1..turn.n /\ \A t \in 1..turn.n : view[t] = Turn(OfTurn(DOMAIN log, t))
    BY <1>3, <1>4 DEF View
  <1>6. ASSUME NEW t \in 1..turn.n
        PROVE  \E k \in DOMAIN log : EndsOf(t) = {k} /\ view[t].status = log[k].type
    <2>1. PICK k \in DOMAIN log : EndsOf(t) = {k}
      BY <1>1 DEF TurnsEnd
    <2>2. {j \in OfTurn(DOMAIN log, t) : log[j].type \in {"completed", "interrupted", "error"}} = {k}
      BY <2>1 DEF OfTurn, EndsOf, Ends
    <2>3. Max({k}) = k
      <3>1. k \in Nat /\ {k} \subseteq 0..k
        BY <1>2
      <3> QED BY <3>1, MaxIs
    <2>4. StatusOf(OfTurn(DOMAIN log, t)) = log[k].type
      BY <2>2, <2>3 DEF StatusOf
    <2>5. view[t].status = log[k].type
      BY <1>5, <2>4, TurnIs
    <2> QED BY <2>1, <2>5
  <1>7. ASSUME NEW types
        PROVE  {t \in DOMAIN view : view[t].status \in types} = Ended(types)
    BY <1>5, <1>6 DEF Ended
  <1>8. Cardinality({t \in DOMAIN view : view[t].status = "completed"}) = meta.turns
    <2>1. {t \in DOMAIN view : view[t].status = "completed"} = {t \in DOMAIN view : view[t].status \in {"completed"}}
      OBVIOUS
    <2>2. {t \in DOMAIN view : view[t].status \in {"completed"}} = Ended({"completed"})
      BY <1>7
    <2> QED BY <1>1, <2>1, <2>2 DEF RowCounts
  <1>9. Cardinality({t \in DOMAIN view : view[t].status \in {"interrupted", "error"}}) = meta.interrupted
    <2>1. {t \in DOMAIN view : view[t].status \in {"interrupted", "error"}} = Ended({"interrupted", "error"})
      BY <1>7
    <2> QED BY <1>1, <2>1 DEF RowCounts
  <1>10. ASSUME view[turn.n].status = "completed" PROVE view[turn.n].answer = meta.text
    <2>1. log[Len(log)].type \in Ends /\ log[Len(log)].turn = turn.n /\ turn.n \in 1..turn.n
      BY <1>1, <1>2 DEF LastIsTheEnd, TurnsEnd
    <2>2. log[Len(log)].type = "completed"
      <3>1. PICK k \in DOMAIN log : EndsOf(turn.n) = {k} /\ view[turn.n].status = log[k].type
        BY <1>6, <2>1
      <3>2. Len(log) \in EndsOf(turn.n)
        BY <1>2, <2>1 DEF EndsOf
      <3> QED BY <1>10, <3>1, <3>2
    <2>3. PICK k \in Nat : k = Len(log) - 1
      <3>1. PICK n \in Nat : n = Len(log)
        BY <1>2, Zenon
      <3>2. n # 0
        BY <1>2, <3>1
      <3>3. n - 1 \in Nat
        BY <3>2
      <3> QED BY <3>1, <3>3
    <2>4. /\ k \in DOMAIN log /\ log[k].type = "response" /\ log[k].turn = turn.n
          /\ log[k].text = "answer" /\ meta.text = "answer"
      BY <1>1, <1>2, <2>2, <2>3 DEF LastIsTheEnd, Answered
    <2> DEFINE said == {j \in OfTurn(DOMAIN log, turn.n) :
                          log[j].type \in {"assistant", "partial", "response"} /\ log[j].text # None}
               best == {i \in said : \A j \in said : Priority(log[j]) <= Priority(log[i])}
    <2>5. k \in said /\ said \subseteq 0..k
      <3>1. k \in said
        BY <2>4 DEF OfTurn
      <3>2. \A j \in said : j \in DOMAIN log /\ j # Len(log)
        BY <2>2 DEF OfTurn
      <3>3. \A j \in DOMAIN log : j # Len(log) => j \in 0..k
        BY <1>2, <2>3
      <3> QED BY <3>1, <3>2, <3>3
    <2>6. k \in best /\ best \subseteq 0..k
      <3>1. Priority(log[k]) = 2 /\ \A e : Priority(e) = 1 \/ Priority(e) = 2
        BY <2>4 DEF Priority
      <3>2. \A j \in said : Priority(log[j]) <= Priority(log[k])
        BY <3>1
      <3> HIDE DEF said
      <3> QED BY <2>5, <3>2
    <2>7. Max(best) = k
      <3> HIDE DEF best
      <3> QED BY <2>6, MaxIs
    <2>8. AnswerText(OfTurn(DOMAIN log, turn.n)) = IF said = {} THEN None ELSE log[Max(best)].text
      BY DEF AnswerText
    <2>9. AnswerText(OfTurn(DOMAIN log, turn.n)) = "answer"
      <3> HIDE DEF said, best
      <3> QED BY <2>4, <2>5, <2>7, <2>8
    <2> QED BY <1>5, <2>1, <2>4, <2>9, TurnIs
  <1>11. ASSUME NEW t \in DOMAIN view, NEW k \in view[t].refs PROVE RefStatus(k) = Detail(k)
    <2>1. k \in DOMAIN log
      BY <1>5, TurnIs DEF OfTurn
    <2> QED BY <1>1, <2>1 DEF ResultsAreRows, RefStatus, Detail
  <1> QED BY <1>3, <1>8, <1>9, <1>10, <1>11

\* Both.
LEMMA HistoryGiven == ASSUME None # "answer", Inv PROVE ThreadReadsWhole
  BY HistoryPages, HistoryView DEF ThreadReadsWhole

=============================================================================
