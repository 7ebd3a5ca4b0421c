----------------------------- MODULE Transcript -----------------------------
(***************************************************************************)
(* What the model is told.  A thread is a log of events (thread_events);   *)
(* every turn of agent/engine.py rebuilds the model's input from the       *)
(* events after the latest compaction, keeps a copy of it up to date while *)
(* it asks the model and runs its calls, and appends the same facts to the *)
(* log.  With the Responses API it sends only what is new and names the    *)
(* response the provider already has.  Turns are cut short by interrupts,  *)
(* guidance, errors and abandonment at every await; compactions replace    *)
(* the history before a turn, inside it and after it; two host processes   *)
(* take turns on the thread, each with rule state of its own in memory.    *)
(***************************************************************************)
EXTENDS Naturals, Sequences, SequencesExt, FiniteSets

CONSTANTS
    Host,            \* processes with an AgentEngine
    MaxTurns,        \* bound: turns of the thread
    MaxRounds,       \* runtime.max_agent_rounds
    MaxCalls,        \* bound: tool calls the model makes in all
    MaxPerRound,     \* bound: tool calls of one response
    MaxCompactions,  \* bound: compactions of the thread
    MaxJudges        \* bound: judge exchanges that are kept

VARIABLES
    base,       \* replacement_input of the latest compaction
    compacted,  \* the thread has a compaction
    events,     \* the events after the latest compaction
    rules,      \* _rule_states: what each host believes of the rule index
    live,       \* the locals of the turn that runs: TurnInputState, RetryState
    turn,       \* turns begun
    calls,      \* call ids given out by the model
    used,       \* compactions and judge exchanges so far
    told,       \* ghost: user messages and tool outputs that were persisted
    lost,       \* ghost: calls whose turn died before they were answered
    retried,    \* ghost: retry_turn was used
    resumed     \* ghost: retry_turn went on from a response of the provider

vars == <<base, compacted, events, rules, live, turn, calls, used, told, lost, retried, resumed>>
ghosts == <<told, lost, retried, resumed>>

----------------------------------------------------------------------------
(* Items of the model's input, and events of the log. *)

Item(k, n) == [k |-> k, n |-> n, of |-> {}]
Bridge == Item("bridge", 0)
\* A handoff message stands for everything it summarises.
Handoff(facts) == [k |-> "summary", n |-> 0, of |-> facts]

\* tool_attachment_context_items: a bridge, then one message per image.
Attachments(cs) ==
    IF cs = <<>> THEN <<>>
    ELSE <<Bridge>> \o [i \in 1..Len(cs) |-> Item("attachment", cs[i])]

Event(e, t) == [e |-> e, t |-> t, c |-> 0, out |-> <<>>, api |-> "", partial |-> FALSE, ctx |-> <<>>]
OutputEvent(t, c) == [Event("output", t) EXCEPT !.c = c]
AttachmentEvent(t, c) == [Event("attachment", t) EXCEPT !.c = c]
InterruptEvent(t, p) == [Event("interrupted", t) EXCEPT !.partial = p]

Context == {"rules", "epoch"}
Replayable == {"user", "assistant", "response", "output", "attachment", "judge", "interrupted"}
Has(e) == \E i \in DOMAIN events : events[i].e = e

\* The facts a model that reads these items knows.
Known(items) ==
    UNION {items[i].of : i \in DOMAIN items}
        \cup {<<items[i].k, items[i].n>> : i \in {j \in DOMAIN items : items[j].k \in {"user", "output"}}}

----------------------------------------------------------------------------
(* From events to input: _reconstruct_input and _input_items_after_event. *)

Flush(acc) == [acc EXCEPT !.items = @ \o Attachments(acc.atts), !.atts = <<>>]
Adding(acc, items) == [Flush(acc) EXCEPT !.items = @ \o items]
AddingUser(acc, item) == [Flush(acc) EXCEPT !.items = @ \o acc.pre \o <<item>>, !.pre = <<>>]

\* Variant: an interrupt leaves the calls of its turn as they are.
CompletionMissing(es, e) == IF e.partial THEN <<Bridge>> ELSE <<>>

\* _interrupted_tool_completion_items and the bridges: the calls of the last
\* response of the turn that the given events do not answer are answered with
\* an error.
Completion(es, e) ==
    LET mine == SelectSeq(es, LAMBDA x : x.t = e.t)
        responses == SelectSeq(mine, LAMBDA x : x.e = "response")
        done == {mine[i].c : i \in {j \in DOMAIN mine : mine[j].e = "output"}}
        open == IF responses = <<>> THEN <<>>
                ELSE SelectSeq(Last(responses).out, LAMBDA x : x.k = "call" /\ x.n \notin done)
    IN CASE open # <<>> -> [i \in 1..Len(open) |-> Item("output", open[i].n)] \o <<Bridge>>
         [] open = <<>> /\ e.partial -> <<Bridge>>
         [] OTHER -> <<>>

ReplayEvent(es, acc, e) ==
    CASE e.e \in Context -> [Flush(acc) EXCEPT !.pre = Append(@, Item(e.e, 0))]
      [] e.e \in {"judge", "user"} -> AddingUser(acc, Item(e.e, e.t))
      [] e.e = "response" -> Adding(acc, e.out)
      [] e.e = "output" -> Adding(acc, <<Item("output", e.c)>>)
      [] e.e = "attachment" -> [acc EXCEPT !.atts = Append(@, e.c)]
      [] e.e = "assistant" -> Adding(acc, <<Item("text", 0)>>)
      [] e.e = "interrupted" -> Adding(acc, Completion(es, e))
      [] OTHER -> acc

Replay(es) ==
    Flush(FoldLeft(LAMBDA acc, e : ReplayEvent(es, acc, e),
                   [items |-> <<>>, pre |-> <<>>, atts |-> <<>>], es)).items

\* _reconstruct_input: after a compaction the context events that lead the
\* epoch go before the handoff.
Reconstruct ==
    IF ~compacted THEN Replay(events)
    ELSE LET history == {i \in DOMAIN events : events[i].e \in Replayable}
             first == IF history = {} THEN Len(events) + 1
                      ELSE CHOOSE i \in history : \A j \in history : i <= j
             lead == SelectSeq(SubSeq(events, 1, first - 1), LAMBDA e : e.e \in Context)
         IN [i \in 1..Len(lead) |-> Item(lead[i].e, 0)] \o base
                \o Replay(SubSeq(events, first, Len(events)))

\* _latest_responses_resume: the latest response the provider keeps, and what
\* was added since, unless a bridge is among it.
Resumable == {i \in DOMAIN events : events[i].e = "response" /\ events[i].api = "responses"}
LatestResponse == CHOOSE i \in Resumable : \A j \in Resumable : j <= i
SinceResponse == Replay(SubSeq(events, LatestResponse + 1, Len(events)))
Resumes(api) ==
    /\ api = "responses"
    /\ Resumable # {}
    /\ \A i \in DOMAIN SinceResponse : SinceResponse[i] # Bridge

----------------------------------------------------------------------------
(* The turn that runs. *)

NoTurn == [pc |-> "idle", host |-> "", api |-> "", retry |-> FALSE, input |-> <<>>,
           prev |-> <<>>, resume |-> FALSE, pending |-> <<>>, todo |-> <<>>, atts |-> <<>>,
           rounds |-> 0, saw |-> FALSE, compacted |-> FALSE]

Init ==
    /\ base = <<>> /\ compacted = FALSE /\ events = <<>>
    /\ rules = [h \in Host |-> "unread"]
    /\ live = NoTurn
    /\ turn = 0 /\ calls = 0
    /\ used = [compaction |-> 0, judge |-> 0]
    /\ told = {} /\ lost = {} /\ retried = FALSE /\ resumed = FALSE

\* request_input_items and request_previous_response_id: what the model has in
\* front of it when the turn asks.
Request == IF live.resume THEN live.pending ELSE live.input
Effective == IF live.resume THEN live.prev \o live.pending ELSE live.input

\* _rule_state and _rule_context_texts: a host that has no state of the thread
\* in memory reads it from the events; another believes what it remembers.
RulesDue(h, es) ==
    \/ rules[h] = "due"
    \/ rules[h] = "unread" /\ \A i \in DOMAIN es : es[i].e # "rules"
\* _runtime_context_items
EpochDue(es) == \A i \in DOMAIN es : es[i].e # "epoch"
\* _pre_user_context_items
ContextDue(h, es) ==
    (IF RulesDue(h, es) THEN <<"rules">> ELSE <<>>) \o (IF EpochDue(es) THEN <<"epoch">> ELSE <<>>)
ContextEvents(names) == [i \in 1..Len(names) |-> Event(names[i], turn)]
ContextItems(names) == [i \in 1..Len(names) |-> Item(names[i], 0)]

\* _insert_pre_user_context_before_history
InsertContext(items, new) ==
    LET others == {i \in DOMAIN items : items[i].k \notin Context}
        at == IF others = {} THEN Len(items) ELSE (CHOOSE i \in others : \A j \in others : i <= j) - 1
    IN SubSeq(items, 1, at) \o new \o SubSeq(items, at + 1, Len(items))

\* _prepare_turn_input
TurnInput(api) ==
    [NoTurn EXCEPT !.api = api, !.input = Reconstruct,
        !.prev = IF Resumes(api) THEN events[LatestResponse].ctx ELSE <<>>,
        !.resume = Resumes(api), !.pending = IF Resumes(api) THEN SinceResponse ELSE <<>>]

\* _prepare_run_turn_prelude: rebuild the input, then add the context due.
Begin(h, api) ==
    /\ live.pc = "idle" /\ turn < MaxTurns
    /\ turn' = turn + 1
    /\ LET names == ContextDue(h, events)
           new == ContextItems(names)
       IN /\ live' = [TurnInput(api) EXCEPT !.pc = "judge", !.host = h,
                          !.input = IF compacted THEN InsertContext(@, new) ELSE @ \o new,
                          !.pending = @ \o new]
          /\ events' = events \o [i \in 1..Len(names) |-> Event(names[i], turn')]
    /\ rules' = [rules EXCEPT ![h] = "given"]
    /\ UNCHANGED <<base, compacted, calls, used, ghosts>>

----------------------------------------------------------------------------
(* Compaction: _compact_if_needed. *)

\* strip_compaction_judge_history: from a judge's request to the next message
\* of the user's role nothing reaches the summary.
UserRole == {"user", "rules", "epoch", "attachment", "summary", "continue"}
Stripped(items) ==
    {i \in DOMAIN items : \E j \in 1..i :
        items[j].k = "judge" /\ \A l \in (j+1)..i : items[l].k \notin UserRole}
Summary(items) ==
    Handoff(Known([i \in DOMAIN items |-> IF i \in Stripped(items) THEN Bridge ELSE items[i]]))

\* The checkpoint replaces the events and a new epoch begins for this host
\* (_reset_rule_epoch).
Checkpoint(items) ==
    /\ used.compaction < MaxCompactions
    /\ used' = [used EXCEPT !.compaction = @ + 1]
    /\ base' = <<Summary(items)>> /\ compacted' = TRUE

\* _input_after_compaction: a turn that goes on gives the context again.
CompactAndGoOn(tail, pc) ==
    LET names == <<"rules", "epoch">> IN
    /\ Checkpoint(live.input)
    /\ events' = ContextEvents(names)
    /\ rules' = [rules EXCEPT ![live.host] = "given"]
    /\ live' = [live EXCEPT !.pc = pc, !.compacted = TRUE,
                    !.input = ContextItems(names) \o base' \o tail,
                    !.prev = <<>>, !.resume = FALSE, !.pending = <<>>]

\* _stream_judge_and_compact.  Nothing happens below its thresholds or when the
\* judge's request fails; otherwise the exchange is persisted.
JudgeSkipped ==
    /\ live.pc = "judge"
    /\ live' = [live EXCEPT !.pc = "user"]
    /\ UNCHANGED <<base, compacted, events, rules, turn, calls, used, ghosts>>

\* _persist_judge_interaction: request, answers and outputs, one after another.
JudgeEvent == Event("judge", turn)

\* The exchange is kept: the next request must be a full one.
JudgeKept ==
    /\ live.pc = "judge" /\ used.judge < MaxJudges
    /\ used' = [used EXCEPT !.judge = @ + 1]
    /\ events' = Append(events, JudgeEvent)
    /\ live' = [live EXCEPT !.pc = "user", !.input = Append(@, Item("judge", turn)),
                    !.prev = <<>>, !.resume = FALSE, !.pending = <<>>]
    /\ UNCHANGED <<base, compacted, rules, turn, calls, ghosts>>

JudgeCompacts ==
    /\ live.pc = "judge"
    /\ CompactAndGoOn(<<>>, "user")
    /\ UNCHANGED <<turn, calls, ghosts>>

\* Cancelled, or the compaction's request fails, with the exchange persisted or
\* not: the generator raises and no event says how the turn ended.
JudgeRaises ==
    /\ live.pc = "judge"
    /\ \/ UNCHANGED <<events, used>>
       \/ /\ used.judge < MaxJudges
          /\ used' = [used EXCEPT !.judge = @ + 1]
          /\ events' = Append(events, JudgeEvent)
    /\ live' = NoTurn
    /\ UNCHANGED <<base, compacted, rules, turn, calls, ghosts>>

----------------------------------------------------------------------------
(* The rounds of run_turn and retry_turn. *)

\* _append_current_user_items (and _append_agent_turn_context_items before it).
AppendUser ==
    /\ live.pc = "user"
    /\ events' = Append(events, Event("user", turn))
    /\ told' = told \cup {<<"user", turn>>}
    /\ live' = [live EXCEPT !.pc = "ask", !.input = Append(@, Item("user", turn)),
                    !.pending = Append(@, Item("user", turn))]
    /\ UNCHANGED <<base, compacted, rules, turn, calls, used, lost, retried, resumed>>

\* _stream_and_persist_model_response, then the round takes note of it.  A
\* stream that fails and is retried leaves nothing behind but a notice.
Respond(n) ==
    LET out == IF n = 0 THEN <<Item("text", turn)>>
               ELSE [i \in 1..n |-> Item("call", calls + i)]
        known == Effective \o out
    IN /\ live.pc = "ask"
       /\ calls + n <= MaxCalls
       /\ calls' = calls + n
       /\ LET response == [Event("response", turn) EXCEPT !.out = out, !.api = live.api,
                               !.ctx = IF live.api = "responses" THEN known ELSE <<>>]
          IN events' = events \o (IF n = 0 THEN <<response, Event("completed", turn)>> ELSE <<response>>)
       /\ live' = [live EXCEPT !.pc = IF n = 0 THEN "wrap" ELSE "calls", !.input = @ \o out,
                       !.prev = IF live.api = "responses" THEN known ELSE <<>>,
                       !.resume = live.api = "responses", !.pending = <<>>,
                       !.todo = IF n = 0 THEN <<>> ELSE [i \in 1..n |-> calls + i],
                       !.rounds = @ + 1, !.saw = TRUE]
       /\ UNCHANGED <<base, compacted, rules, turn, used, ghosts>>

\* A stream that failed and is tried again leaves no text behind, but that
\* something was streamed is not forgotten (StreamResponseState.reset).
StreamRetried ==
    /\ live.pc = "ask" /\ ~live.saw
    /\ live' = [live EXCEPT !.saw = TRUE]
    /\ UNCHANGED <<base, compacted, events, rules, turn, calls, used, ghosts>>

\* The next call of the round was run: its output is persisted and noted; a
\* call that looked at an image leaves an attachment for the end of the round.
CallDone(attaches) ==
    /\ live.pc = "calls" /\ live.todo # <<>>
    /\ LET c == Head(live.todo) IN
       /\ events' = Append(events, OutputEvent(turn, c))
       /\ told' = told \cup {<<"output", c>>}
       /\ live' = [live EXCEPT !.todo = Tail(@), !.input = Append(@, Item("output", c)),
                       !.pending = Append(@, Item("output", c)),
                       !.atts = IF attaches THEN Append(@, c) ELSE @]
    /\ UNCHANGED <<base, compacted, rules, turn, calls, used, lost, retried, resumed>>

\* The attachments of the round, at once: a full request follows them.
NoteAttachments ==
    /\ live.pc = "calls" /\ live.todo = <<>> /\ live.atts # <<>>
    /\ events' = events \o [i \in 1..Len(live.atts) |-> AttachmentEvent(turn, live.atts[i])]
    /\ live' = [live EXCEPT !.input = @ \o Attachments(live.atts),
                    !.pending = @ \o Attachments(live.atts), !.resume = FALSE, !.atts = <<>>]
    /\ UNCHANGED <<base, compacted, rules, turn, calls, used, ghosts>>

CallsOver == live.pc = "calls" /\ live.todo = <<>> /\ live.atts = <<>>

\* The next round, if there is one left.  The calls retry_turn begins with
\* are not a round.
NextRound == IF live.rounds < MaxRounds THEN "ask" ELSE "exhausted"

\* A message waits and the turn was asked to make way for it.
Guided ==
    /\ CallsOver
    /\ events' = events \o <<Event("assistant", turn), InterruptEvent(turn, live.saw)>>
    /\ live' = NoTurn
    /\ UNCHANGED <<base, compacted, rules, turn, calls, used, ghosts>>

\* _maybe_compact_after_tool_results: the bridge is persisted, then the model
\* is asked for the summary.
NotCompacting ==
    /\ CallsOver
    /\ live' = [live EXCEPT !.pc = NextRound]
    /\ UNCHANGED <<base, compacted, events, rules, turn, calls, used, ghosts>>
StartCompacting ==
    /\ CallsOver /\ used.compaction < MaxCompactions
    /\ events' = Append(events, Event("assistant", turn))
    /\ live' = [live EXCEPT !.pc = "compacting"]
    /\ UNCHANGED <<base, compacted, rules, turn, calls, used, ghosts>>
CompactInTurn ==
    /\ live.pc = "compacting"
    /\ CompactAndGoOn(<<Item("continue", 0)>>, NextRound)
    /\ UNCHANGED <<turn, calls, ghosts>>

\* The handler of CancelledError and TurnInterrupted.
Interrupt(saw) ==
    /\ live.pc \in {"ask", "calls", "compacting"}
    /\ live.pc # "ask" => saw = live.saw
    /\ events' = Append(events, InterruptEvent(turn, saw \/ live.saw))
    /\ lost' = IF live.retry /\ live.rounds = 0 THEN lost \cup Range(live.todo) ELSE lost
    /\ live' = NoTurn
    /\ UNCHANGED <<base, compacted, rules, turn, calls, used, told, retried, resumed>>

\* The handler of every other exception: a request that fails for good, a call
\* whose arguments or runner raise, rounds that are used up.
Fail ==
    /\ live.pc \in {"ask", "calls", "compacting", "exhausted"}
    /\ events' = Append(events, Event("error", turn))
    /\ lost' = lost \cup Range(live.todo)
    /\ live' = NoTurn
    /\ UNCHANGED <<base, compacted, rules, turn, calls, used, told, retried, resumed>>

\* The code that iterates over the turn stops, or its process ends (and the row
\* of its lock was removed): no event tells of it, and a process that ended
\* forgets its rule state.
Abandon ==
    /\ live.pc # "idle"
    /\ lost' = lost \cup Range(live.todo)
    /\ live' = NoTurn
    /\ rules' \in {rules, [rules EXCEPT ![live.host] = "unread"]}
    /\ UNCHANGED <<base, compacted, events, turn, calls, used, told, retried, resumed>>

\* After turn.completed: _maybe_compact, unless the turn compacted already.
WrapUp ==
    /\ live.pc = "wrap"
    /\ live' = NoTurn
    /\ UNCHANGED <<base, compacted, events, rules, turn, calls, used, ghosts>>
WrapCompacts ==
    /\ live.pc = "wrap" /\ ~live.compacted
    /\ Checkpoint(live.input)
    /\ events' = <<>>
    /\ rules' = [rules EXCEPT ![live.host] = "due"]
    /\ live' = NoTurn
    /\ UNCHANGED <<turn, calls, ghosts>>

----------------------------------------------------------------------------
(* retry_turn *)

\* _pending_tool_calls_after_latest_response
PendingCalls ==
    LET responses == {i \in DOMAIN events : events[i].e = "response"}
        latest == CHOOSE i \in responses : \A j \in responses : j <= i
        done == {events[i].c : i \in {j \in DOMAIN events : j > latest /\ events[j].e = "output"}}
        open == SelectSeq(events[latest].out, LAMBDA x : x.k = "call" /\ x.n \notin done)
    IN IF responses = {} THEN <<>> ELSE [i \in 1..Len(open) |-> open[i].n]

\* _prepare_retry_input: with calls to run, the full history and nothing
\* pending; without, what a turn would send, as its whole input.
RetryInput(api) ==
    LET begun == [TurnInput(api) EXCEPT !.retry = TRUE] IN
    IF PendingCalls # <<>>
    THEN [begun EXCEPT !.pc = "calls", !.todo = PendingCalls, !.pending = <<>>]
    ELSE [begun EXCEPT !.pc = "ask", !.input = IF begun.resume THEN begun.pending ELSE @]

\* retry_turn, for a thread whose last turn ended with an error.
Retry(h, api) ==
    /\ live.pc = "idle" /\ turn < MaxTurns
    /\ events # <<>> /\ Last(events).e = "error"
    /\ turn' = turn + 1
    /\ live' = [RetryInput(api) EXCEPT !.host = h]
    /\ retried' = TRUE
    /\ resumed' = (resumed \/ Resumes(api))
    /\ UNCHANGED <<base, compacted, events, rules, calls, used, told, lost>>

----------------------------------------------------------------------------
\* The loop over rounds, which run_turn and retry_turn share.
Rounds ==
    \/ \E n \in 0..MaxPerRound : Respond(n)
    \/ \E attaches \in BOOLEAN : CallDone(attaches)
    \/ StreamRetried \/ NoteAttachments
    \/ NotCompacting \/ StartCompacting \/ CompactInTurn
    \/ \E saw \in BOOLEAN : Interrupt(saw)
    \/ Fail

RunTurn ==
    /\ ~live.retry
    /\ \/ JudgeSkipped \/ JudgeKept \/ JudgeCompacts \/ JudgeRaises
       \/ AppendUser \/ Rounds \/ Guided
       \/ WrapUp \/ WrapCompacts

RetryTurn == live.retry /\ (Rounds \/ WrapUp)

Next ==
    \/ \E h \in Host, api \in {"responses", "chat"} : Begin(h, api) \/ Retry(h, api)
    \/ RunTurn \/ RetryTurn
    \/ Abandon

Spec == Init /\ [][Next]_vars

----------------------------------------------------------------------------
(* Properties *)

Asking == live.pc = "ask"
Positions(items, k, n) == {i \in DOMAIN items : items[i].k = k /\ items[i].n = n}

\* Providers refuse a request in which a tool call has no output, or two.
\* Whatever turns were interrupted, guided, compacted or resumed before, every
\* call the model has in front of it when it is asked has exactly one output,
\* after it, but for calls of a turn that died while running them (and what
\* retry_turn does about those).
AnsweredOnce ==
    Asking /\ ~retried =>
        \A i \in DOMAIN Effective : Effective[i].k = "call" /\ Effective[i].n \notin lost =>
            /\ Cardinality(Positions(Effective, "output", Effective[i].n)) = 1
            /\ \A j \in Positions(Effective, "output", Effective[i].n) : i < j

\* Every message of the user and every output of a tool that was ever stored in
\* the thread is in front of the model when it is asked, or in a summary that
\* is, however the requests are shortened to what is new: unless a retry went
\* on from a response of the provider.
NothingForgotten == Asking /\ ~resumed => told \subseteq Known(Effective)

\* When a turn has completed, the next one rebuilds from the events the very
\* input the turn ended with, but for where context is placed and the note that
\* asks to go on after a compaction.
Core(items) == SelectSeq(items, LAMBDA x : x.k \notin Context \cup {"continue"})
ReplayIsLive == live.pc = "wrap" /\ ~resumed => Core(Reconstruct) = Core(live.input)

\* The history of a thread is whole: what a turn sends to the model, what the
\* next turn rebuilds from the log, and what was ever stored agree.
TranscriptIsWhole == AnsweredOnce /\ NothingForgotten /\ ReplayIsLive

=============================================================================
