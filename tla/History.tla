------------------------------- MODULE History -------------------------------
(***************************************************************************)
(* Reading a thread back: the metadata row that every append keeps up to   *)
(* date and the history segments of the store (session/store.py), and the  *)
(* conversation view, process details and digests a script reads from the  *)
(* same database (uv_agent_runtime/threads.py), while turns append.        *)
(*                                                                         *)
(* An event is its type, its turn and its text (None where it has none);   *)
(* its id is its place in the log.                                         *)
(***************************************************************************)
EXTENDS Naturals, Sequences, SequencesExt, FiniteSets, FiniteSetsExt

CONSTANTS MaxEvents,   \* events of the thread
          MaxTurns,
          MaxReads,    \* segments that are read from the database
          None

VARIABLES
  log,
  meta,      \* the metadata row of the thread
  ran,       \* the rows of the runs: run id (a place in the order) to status
  turn,      \* the turn under way: its number, its stage, its last text
  reader,    \* the pages a reader has loaded, newest first, and what it knows
  cache      \* _history_segment_cache
vars == <<log, meta, ran, turn, reader, cache>>

Event(type, t, text) == [type |-> type, turn |-> t, text |-> text, run |-> 0]
Conversation == {"user", "assistant", "partial", "response"}
ProcessRefs == {"result", "interrupted", "error"}
Visible == Conversation \cup ProcessRefs \cup {"compaction", "started", "completed"}

-----------------------------------------------------------------------------
(* The row of the thread (_apply_metadata_event) *)

NoMeta == [last |-> 0, compaction |-> 0, text |-> None, turns |-> 0, interrupted |-> 0, messages |-> 0]

Applied(m, e, id) ==
  [last |-> id,
   compaction |-> IF e.type = "compaction" THEN id ELSE m.compaction,
   text |-> IF e.type \in Conversation /\ e.text # None THEN e.text ELSE m.text,
   turns |-> m.turns + (IF e.type = "completed" THEN 1 ELSE 0),
   interrupted |-> m.interrupted + (IF e.type \in {"interrupted", "error"} THEN 1 ELSE 0),
   messages |-> m.messages + (IF e.type = "user" THEN 1 ELSE 0)]

\* append: the event and the row in one transaction.
Store(e) ==
  /\ Len(log) < MaxEvents
  /\ log' = Append(log, e) /\ meta' = Applied(meta, e, Len(log) + 1)

-----------------------------------------------------------------------------
(* Segments *)

Between(a, b) == {k \in DOMAIN log : a <= k /\ k < b /\ log[k].type \in Visible}
HasMore(start) == start > 0 /\ Between(0, start) # {}
CompactionBefore(b) == Max({0} \cup {k \in DOMAIN log : k < b /\ log[k].type = "compaction"})

NoReader == [knows |-> None, pages |-> <<>>, more |-> TRUE]
Page(start, end) == [start |-> start, end |-> end, ids |-> Between(start, end)]

Init ==
  /\ log = <<>> /\ meta = NoMeta /\ ran = <<>>
  /\ turn = [n |-> 0, stage |-> "none", text |-> None]
  /\ reader = NoReader /\ cache = <<>>

Keys == <<log, meta, ran, turn>>

\* read_history_segment reads the row first, then the events.
ReadRow ==
  /\ reader.knows = None /\ reader.more
  /\ reader' = [reader EXCEPT !.knows = meta]
  /\ UNCHANGED <<log, meta, ran, turn, cache>>

\* What a cached segment is found by.
Key == <<IF reader.pages = <<>> THEN 0 ELSE Last(reader.pages).start, reader.knows.last>>

\* Variant: the compaction is looked up again when the events are read.
SegmentFromNow ==
  IF reader.pages = <<>>
    THEN Page(meta.compaction, reader.knows.last + 1)
    ELSE LET end == Last(reader.pages).start IN Page(CompactionBefore(end), end)

\* The newest segment, from the compaction the row named to the last event it
\* named; or the one before the oldest page, to the compaction before it.  The
\* compaction belongs to the segment it begins.
Segment ==
  IF reader.pages = <<>>
    THEN Page(reader.knows.compaction, reader.knows.last + 1)
    ELSE LET end == Last(reader.pages).start IN Page(CompactionBefore(end), end)
Cached == {k \in DOMAIN cache : cache[k].key = Key}
ReadSegment ==
  /\ reader.knows # None
  /\ Cached # {} \/ Len(cache) < MaxReads
  /\ LET page == IF Cached # {} THEN cache[Max(Cached)].page ELSE Segment
         more == IF Cached # {} THEN cache[Max(Cached)].more ELSE HasMore(Segment.start)
     IN /\ reader' = [knows |-> None, pages |-> Append(reader.pages, page), more |-> more]
        /\ cache' = IF Cached # {} THEN cache
                    ELSE Append(cache, [key |-> Key, page |-> page, more |-> more])
  /\ UNCHANGED Keys

\* The reader leaves the thread; the cache stays.
Leave ==
  /\ reader # NoReader /\ reader' = NoReader
  /\ UNCHANGED <<log, meta, ran, turn, cache>>

-----------------------------------------------------------------------------
(* The turns that append *)

Begin ==
  /\ turn.stage = "none" /\ turn.n < MaxTurns
  /\ Store(Event("user", turn.n + 1, "question"))
  /\ turn' = [n |-> turn.n + 1, stage |-> "model", text |-> None]
  /\ UNCHANGED <<ran, reader, cache>>

\* A response with a call (and perhaps some text), or the final one.
Respond(text, final) ==
  /\ turn.stage = "model" /\ (final <=> text = "answer")
  /\ Store(Event("response", turn.n, text))
  /\ turn' = [turn EXCEPT !.stage = IF final THEN "final" ELSE "call", !.text = text]
  /\ UNCHANGED <<ran, reader, cache>>

\* The row of the run is written before its script starts.
StartRun ==
  /\ turn.stage = "call"
  /\ ran' = Append(ran, "pending") /\ turn' = [turn EXCEPT !.stage = "running"]
  /\ UNCHANGED <<log, meta, reader, cache>>
EndRun ==
  /\ turn.stage = "running"
  /\ \E status \in {"ok", "error"} : ran' = [ran EXCEPT ![Len(ran)] = status]
  /\ turn' = [turn EXCEPT !.stage = "result"]
  /\ UNCHANGED <<log, meta, reader, cache>>
StoreResult ==
  /\ turn.stage = "result"
  /\ Store([Event("result", turn.n, Last(ran)) EXCEPT !.run = Len(ran)])
  /\ turn' = [turn EXCEPT !.stage = "model"]
  /\ UNCHANGED <<ran, reader, cache>>

\* Two places store a text of their own as the assistant's: a steered turn before
\* it is interrupted, and the automatic compaction after a tool's output.
Bridge(stage) ==
  /\ turn.stage = "model" /\ stage \in {"guided", "compacting"}
  /\ ran # <<>>
  /\ Store(Event("assistant", turn.n, "bridge")) /\ turn' = [turn EXCEPT !.stage = stage]
  /\ UNCHANGED <<ran, reader, cache>>
Compact ==
  /\ turn.stage = "compacting" \/ (turn.stage = "model" /\ log[Len(log)].type = "user")
  /\ Store(Event("compaction", turn.n, "summary")) /\ turn' = [turn EXCEPT !.stage = "model"]
  /\ UNCHANGED <<ran, reader, cache>>

Complete ==
  /\ turn.stage = "final"
  /\ Store(Event("completed", turn.n, None)) /\ turn' = [turn EXCEPT !.stage = "none"]
  /\ UNCHANGED <<ran, reader, cache>>

\* An interrupt stores what of the answer was shown.
StorePartial ==
  /\ turn.stage = "model"
  /\ Store(Event("partial", turn.n, "part")) /\ turn' = [turn EXCEPT !.stage = "breaking"]
  /\ UNCHANGED <<ran, reader, cache>>
Break(type) ==
  /\ turn.stage \in {"model", "call", "breaking", "guided"} /\ (turn.stage = "guided" => type = "interrupted")
  /\ Store(Event(type, turn.n, None)) /\ turn' = [turn EXCEPT !.stage = "none"]
  /\ UNCHANGED <<ran, reader, cache>>

Next ==
  \/ ReadRow \/ ReadSegment \/ Leave
  \/ Begin \/ (\E text \in {None, "looking", "answer"}, final \in BOOLEAN : Respond(text, final))
  \/ StartRun \/ EndRun \/ StoreResult \/ Compact \/ Complete
  \/ (\E stage \in {"guided", "compacting"} : Bridge(stage))
  \/ StorePartial \/ (\E type \in {"interrupted", "error"} : Break(type))

Spec == Init /\ [][Next]_vars

-----------------------------------------------------------------------------
(* The conversation view of a script *)

\* _build_turns over the events with these ids: the user's messages, the text that
\* stands for the answer, the references to the rest, the status.
OfTurn(ids, t) == {k \in ids : log[k].turn = t}
Priority(e) == IF e.type = "partial" THEN 1 ELSE 2

\* A later text replaces an earlier one, a partial one only another partial one.
AnswerText(ids) ==
  LET said == {k \in ids : log[k].type \in {"assistant", "partial", "response"} /\ log[k].text # None}
      best == {k \in said : \A j \in said : Priority(log[j]) <= Priority(log[k])}
  IN IF said = {} THEN None ELSE log[Max(best)].text
StatusOf(ids) ==
  LET ends == {k \in ids : log[k].type \in {"completed", "interrupted", "error"}}
  IN IF ends = {} THEN "unknown" ELSE log[Max(ends)].type
Turn(ids) == [answer |-> AnswerText(ids), status |-> StatusOf(ids),
              asked |-> {k \in ids : log[k].type = "user"},
              refs |-> {k \in ids : log[k].type \in ProcessRefs}]
View(ids) == [t \in {log[k].turn : k \in ids} |-> Turn(OfTurn(ids, t))]

\* thread_detail of a reference: the row of the run, or the event.
Detail(id) == IF log[id].run # 0 THEN ran[log[id].run] ELSE log[id].type
RefStatus(id) == IF log[id].run # 0 THEN log[id].text ELSE log[id].type

-----------------------------------------------------------------------------
(* Properties *)

\* Whatever is appended while a reader pages back, its pages join: no visible event
\* is missing between two of them or in two of them, and once there are no more
\* the first event of the thread is there.
PagesAreWhole ==
  LET pages == reader.pages
      read == UNION {pages[k].ids : k \in DOMAIN pages}
  IN pages # <<>> =>
       /\ read = Between(Last(pages).start, pages[1].end)
       /\ \A j, k \in DOMAIN pages : j # k => pages[j].ids \cap pages[k].ids = {}
       /\ ~reader.more => read = Between(0, pages[1].end)

\* The view, the row and the details agree on a thread no turn of which is under
\* way: the answer the view shows of the last turn is the last text of the row,
\* every turn has ended, as often as the row counts, and what a reference says of
\* its run is what its detail says.
ViewIsTheThread ==
  turn.stage = "none" /\ log # <<>> =>
    LET view == View(DOMAIN log) IN
    /\ view[turn.n].status = "completed" => view[turn.n].answer = meta.text
    /\ Cardinality({t \in DOMAIN view : view[t].status = "completed"}) = meta.turns
    /\ Cardinality({t \in DOMAIN view : view[t].status \in {"interrupted", "error"}}) = meta.interrupted
    /\ \A t \in DOMAIN view : \A k \in view[t].refs : RefStatus(k) = Detail(k)

\* Both at once: what scripts and the terminal read of a thread is the thread.
ThreadReadsWhole == PagesAreWhole /\ ViewIsTheThread

-----------------------------------------------------------------------------
(* The inductive invariant of ThreadReadsWhole *)

Texts == {None, "question", "looking", "answer", "bridge", "summary", "part"}
Outcomes == {"pending", "ok", "error"}
Ends == {"completed", "interrupted", "error"}
Events == [type : Visible, turn : Nat, text : Texts \cup Outcomes, run : Nat]
MetaRows == [last : Nat, compaction : Nat, text : Texts \cup Outcomes, turns : Nat, interrupted : Nat, messages : Nat]
Pages == [start : Nat, end : Nat, ids : SUBSET Nat]
Readers == [knows : {None} \cup MetaRows, pages : Seq(Pages), more : BOOLEAN]
Entries == [key : Nat \X Nat, page : Pages, more : BOOLEAN]
Stages == {"none", "model", "call", "running", "result", "final", "guided", "compacting", "breaking"}

TypeOK ==
  /\ log \in Seq(Events) /\ meta \in MetaRows /\ ran \in Seq(Outcomes)
  /\ turn \in [n : Nat, stage : Stages, text : Texts]
  /\ reader \in Readers /\ cache \in Seq(Entries)

\* A row that names its last event and the compaction before its end.
Tells(row) == row.last <= Len(log) /\ row.compaction = CompactionBefore(row.last + 1)
RowsTell ==
  /\ meta.last = Len(log) /\ Tells(meta)
  /\ reader.knows # None => reader.more /\ Tells(reader.knows)

\* A page is what lies between its ends, neither of which is beyond the log.
Fits(page) == page.start <= page.end /\ page.end <= Len(log) + 1 /\ page.ids = Between(page.start, page.end)

\* Each page ends where the one loaded before it starts.
PagesJoin ==
  LET pages == reader.pages IN
  /\ \A k \in DOMAIN pages : Fits(pages[k])
  /\ \A j, k \in DOMAIN pages : j < k => pages[k].end <= pages[j].start
  /\ pages # <<>> =>
       /\ UNION {pages[k].ids : k \in DOMAIN pages} = Between(Last(pages).start, pages[1].end)
       /\ reader.more = HasMore(Last(pages).start)

\* What is cached under a key is the segment it would be again.
Keyed(entry) ==
  LET older == entry.key[1] # 0 IN
  /\ entry.page.end = IF older THEN entry.key[1] ELSE entry.key[2] + 1
  /\ entry.page.start = CompactionBefore(entry.page.end)
  /\ entry.more = HasMore(entry.page.start)
CacheIsKeyed == \A k \in DOMAIN cache : Fits(cache[k].page) /\ Keyed(cache[k])

\* A turn has events, and ends once unless it is under way.
EndsOf(t) == {k \in DOMAIN log : log[k].turn = t /\ log[k].type \in Ends}
TurnsEnd ==
  /\ turn.stage # "none" => turn.n # 0
  /\ \A k \in DOMAIN log : log[k].turn \in 1..turn.n
  /\ \A t \in 1..turn.n : \E k \in DOMAIN log : log[k].turn = t
  /\ \A t \in 1..turn.n : IF t = turn.n /\ turn.stage # "none" THEN EndsOf(t) = {}
                                                              ELSE \E k \in DOMAIN log : EndsOf(t) = {k}

\* The row counts the turns that ended.
Ended(types) == {t \in 1..turn.n : \E k \in EndsOf(t) : log[k].type \in types}
RowCounts ==
  /\ meta.turns = Cardinality(Ended({"completed"}))
  /\ meta.interrupted = Cardinality(Ended({"interrupted", "error"}))

\* The answer is the last text before the turn completes.
Answered(k) ==
  /\ k \in DOMAIN log /\ log[k].type = "response" /\ log[k].turn = turn.n /\ log[k].text = "answer"
  /\ meta.text = "answer"
LastIsTheEnd ==
  /\ turn.stage = "final" => Answered(Len(log))
  /\ turn.stage = "none" /\ log # <<>> =>
       /\ Last(log).type \in Ends /\ Last(log).turn = turn.n
       /\ Last(log).type = "completed" => Answered(Len(log) - 1)

\* The row of a run no longer changes once its result is in the log.
ResultsAreRows ==
  /\ turn.stage \in {"running", "result"} => ran # <<>>
  /\ \A k \in DOMAIN log : log[k].run # 0 =>
       /\ log[k].run \in DOMAIN ran /\ log[k].text = ran[log[k].run]
       /\ log[k].run = Len(ran) => turn.stage \notin {"running", "result"}

Inv ==
  /\ TypeOK /\ RowsTell /\ PagesJoin /\ CacheIsKeyed
  /\ TurnsEnd /\ RowCounts /\ LastIsTheEnd /\ ResultsAreRows

=============================================================================
