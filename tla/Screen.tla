-------------------------------- MODULE Screen --------------------------------
(***************************************************************************)
(* What the terminal shows of one turn (tui/app.py): the cells that stream *)
(* in, the text that is paced out behind them, the scrollback they are     *)
(* flushed into, and the history a thread is shown from when it is resumed *)
(* (_history_cells_for_thread and tui/timeline.py).  Text is a sequence of *)
(* chunks, each numbered as the model sends it.                            *)
(***************************************************************************)
EXTENDS Naturals, Sequences, SequencesExt

CONSTANTS
    MaxChunks,      \* chunks of text the model sends in the turn
    MaxRounds,      \* responses of the turn
    MaxRetries,     \* attempts at a response that break off
    MaxVisits       \* times the user goes to another thread and comes back

VARIABLES
    phase,          \* how far the engine's turn is
    log,            \* the visible events stored for the thread
    said,           \* text of the current attempt
    thinking,       \* the current attempt streamed reasoning
    round,          \* responses so far
    chunk,          \* chunks sent so far
    breaks,         \* attempts that broke off
    view,           \* ThreadRunState's cells and pacing, and the scrollback
    here,           \* the thread is the attached one
    visits

vars == <<phase, log, said, thinking, round, chunk, breaks, view, here, visits>>

User == [kind |-> "user"]
Thought == [kind |-> "reasoning"]
Answer(text) == [kind |-> "assistant", text |-> text]
Tool(r) == [kind |-> "tool", call |-> r]
Message(r) == [kind |-> "ui_message", call |-> r]
Notice(what) == [kind |-> what]

----------------------------------------------------------------------------
(* The history of a resumed thread. *)

HasResult(r) == \E i \in DOMAIN log : log[i].type = "result" /\ log[i].round = r
EndedWithError == \E i \in DOMAIN log : log[i].type = "error"

If(condition, cells) == IF condition THEN cells ELSE <<>>

\* A response whose call has a result is dropped for the result's sake, with
\* the text beside the call; only its reasoning is kept.
ResponseCells(e) ==
    If(e.thought, <<Thought>>)
    \o If(~(e.call /\ HasResult(e.round)),
          If(e.text # <<>>, <<Answer(e.text)>>) \o If(e.call, <<Tool(e.round)>>))

EventCells(e) ==
    CASE e.type = "user" -> <<User>>
      [] e.type = "response" -> ResponseCells(e)
      [] e.type = "result" -> If(e.message, <<Message(e.round)>>) \o <<Tool(e.round)>>
      [] e.type = "retry" -> If(EndedWithError, <<Notice("stream_retry")>>)
      [] e.type = "reasoning_partial" -> <<Thought>>
      [] e.type = "error" -> <<Notice("error")>>
      [] e.type = "compaction" -> <<Notice("compaction")>>
      [] OTHER -> <<>>      \* assistant_partial, interrupted, completed

HistoryCells == FlattenSeq([i \in DOMAIN log |-> EventCells(log[i])])

----------------------------------------------------------------------------
(* The cells. *)

NewView == [user |-> TRUE, thought |-> FALSE, flushedThought |-> FALSE,
            answer |-> <<>>, tools |-> <<>>, queue |-> <<>>, finish |-> FALSE,
            seen |-> {}, out |-> <<>>]

\* _flush: the turn's user message goes before any other cell.
Flush(v, cell) == [v EXCEPT !.out = @ \o If(v.user, <<User>>) \o <<cell>>, !.user = FALSE]

FinishThought(v) ==
    IF v.thought
    THEN [Flush([v EXCEPT !.thought = FALSE], Thought) EXCEPT !.flushedThought = TRUE]
    ELSE v

\* The whole reasoning arrives with the response: shown unless it was.
FinishThoughtText(v) ==
    IF v.thought THEN FinishThought(v)
    ELSE IF v.flushedThought THEN v
    ELSE [Flush(v, Thought) EXCEPT !.flushedThought = TRUE]

Append2(v, n) ==
    [FinishThought(v) EXCEPT !.queue = Append(@, n),
                             !.answer = IF @ = <<>> THEN <<<<>>>> ELSE @]

FinishAnswerNow(v) ==
    IF v.answer = <<>> THEN [v EXCEPT !.finish = FALSE]
    ELSE Flush([v EXCEPT !.answer = <<>>, !.finish = FALSE], Answer(v.answer[1]))

\* _advance_streaming_display: some of the queue moves into the cell, and a
\* cell whose response is complete is flushed once the queue is empty.
Advance(v, n) ==
    LET text == IF v.answer = <<>> THEN <<>> ELSE v.answer[1]
        w == [v EXCEPT !.answer = IF v.queue = <<>> THEN @ ELSE <<text \o SubSeq(v.queue, 1, n)>>,
                       !.queue = SubSeq(v.queue, n + 1, Len(v.queue))]
    IN  IF w.queue = <<>> /\ w.finish THEN FinishAnswerNow(w) ELSE w

\* Variant: a queue that is cut short is dropped.
FinishAnswerDrops(v, force) ==
    LET w == IF force THEN [v EXCEPT !.queue = <<>>] ELSE v
    IN  FinishAnswerNow([w EXCEPT !.queue = <<>>])

FinishAnswer(v, force) ==
    LET w == IF force /\ v.queue # <<>> THEN Advance([v EXCEPT !.finish = FALSE], Len(v.queue)) ELSE v
    IN  IF w.queue # <<>> THEN [w EXCEPT !.finish = TRUE] ELSE FinishAnswerNow(w)

FinishText(v, force) == FinishAnswer(FinishThought(v), force)

FinishLive(v) ==
    LET text == FinishText(v, FALSE)
        tools == FoldLeft(Flush, [text EXCEPT !.tools = <<>>], text.tools)
    IN  IF tools.user THEN [tools EXCEPT !.user = FALSE, !.out = Append(@, User)] ELSE tools

\* turn.error and turn.interrupted drop the text that still waits.
Broken(v, what) == Flush([v EXCEPT !.queue = <<>>, !.finish = FALSE], Notice(what))

Draining == view.queue # <<>> \/ view.finish

----------------------------------------------------------------------------
(* The engine's events, shown while the thread is attached. *)

Show(v) == view' = IF here THEN v ELSE view
Stored(events) == log' = log \o events

Init ==
    /\ phase = "started" /\ log = <<[type |-> "user"]>>
    /\ said = <<>> /\ thinking = FALSE
    /\ round = 1 /\ chunk = 0 /\ breaks = 0
    /\ view = NewView
    /\ here = TRUE /\ visits = 0

ReasoningDelta ==
    /\ phase = "started"
    /\ ~thinking /\ said = <<>>
    /\ thinking' = TRUE
    /\ Show([view EXCEPT !.thought = TRUE, !.flushedThought = FALSE])
    /\ UNCHANGED <<phase, log, said, round, chunk, breaks, here, visits>>

AssistantDelta ==
    /\ phase = "started" /\ chunk < MaxChunks
    /\ chunk' = chunk + 1
    /\ said' = Append(said, chunk + 1)
    /\ Show(Append2(view, chunk + 1))
    /\ UNCHANGED <<phase, log, thinking, round, breaks, here, visits>>

\* model.stream_retry: the engine starts over, the terminal ignores the event.
StreamRetry ==
    /\ phase = "started" /\ breaks < MaxRetries
    /\ breaks' = breaks + 1
    /\ said' = <<>> /\ thinking' = FALSE
    /\ Stored(<<[type |-> "retry"]>>)
    /\ UNCHANGED <<phase, round, chunk, view, here, visits>>

\* model.response; reasoning the model did not stream may arrive with it.
ModelResponse(call, thought) ==
    /\ phase = "started"
    /\ thinking => thought
    /\ call => round < MaxRounds
    /\ call \/ said # <<>>
    /\ phase' = IF call THEN "call" ELSE "answered"
    /\ Stored(<<[type |-> "response", round |-> round, text |-> said, call |-> call,
                 thought |-> thought]>>)
    /\ LET v == IF thought THEN FinishThoughtText(view) ELSE [view EXCEPT !.thought = FALSE]
       IN  Show(IF call THEN v ELSE FinishAnswer(v, FALSE))
    /\ UNCHANGED <<said, thinking, round, chunk, breaks, here, visits>>

ToolStarted ==
    /\ phase = "call"
    /\ phase' = "running"
    /\ Show([FinishText(view, TRUE) EXCEPT !.tools = <<Tool(round)>>])
    /\ UNCHANGED <<log, said, thinking, round, chunk, breaks, here, visits>>

ShowMessage(v) == IF round \in v.seen THEN v
                  ELSE [Flush(v, Message(round)) EXCEPT !.seen = @ \cup {round}]

\* tool.partial with the script's UI message.
ToolPartial ==
    /\ phase = "running" /\ round \notin view.seen
    /\ phase' = "messaged"
    /\ Show(ShowMessage([view EXCEPT !.tools = <<Tool(round)>>]))
    /\ UNCHANGED <<log, said, thinking, round, chunk, breaks, here, visits>>

\* tool.output: the message again, then the cell of the call.
ToolOutput ==
    /\ phase \in {"running", "messaged"}
    /\ phase' = "started"
    /\ LET messaged == phase = "messaged"
           v == IF messaged THEN ShowMessage(view) ELSE view
       IN  /\ Stored(<<[type |-> "result", round |-> round, message |-> messaged]>>)
           /\ Show([Flush([v EXCEPT !.tools = <<>>], Tool(round)) EXCEPT !.flushedThought = FALSE])
    /\ round' = round + 1
    /\ said' = <<>> /\ thinking' = FALSE
    /\ UNCHANGED <<chunk, breaks, here, visits>>

\* The history is compacted behind the answer.
Compact ==
    /\ phase = "answered"
    /\ phase' = "compacted"
    /\ Stored(<<[type |-> "completed"], [type |-> "compaction"]>>)
    /\ Show(Flush(Flush(view, Notice("compaction started")), Notice("compaction")))
    /\ UNCHANGED <<said, thinking, round, chunk, breaks, here, visits>>

\* turn.completed, and the end of _run_turn.
Completed ==
    /\ phase \in {"answered", "compacted"}
    /\ phase' = "completed"
    /\ Stored(If(phase = "answered", <<[type |-> "completed"]>>))
    /\ Show(FinishLive(view))
    /\ UNCHANGED <<said, thinking, round, chunk, breaks, here, visits>>

Underway == phase \in {"started", "call", "running", "messaged"}

Interrupted ==
    /\ Underway
    /\ phase' = "interrupted"
    /\ Stored(If(said # <<>> /\ phase = "started", <<[type |-> "assistant_partial"]>>)
              \o If(thinking /\ phase = "started", <<[type |-> "reasoning_partial"]>>)
              \o <<[type |-> "interrupted"]>>)
    /\ view' = IF here THEN FinishLive(Broken(view, "interrupted"))
               ELSE [view EXCEPT !.queue = <<>>, !.finish = FALSE]
    /\ UNCHANGED <<said, thinking, round, chunk, breaks, here, visits>>

Error ==
    /\ Underway
    /\ phase' = "failed"
    /\ Stored(<<[type |-> "error"]>>)
    /\ view' = IF here THEN FinishLive(Broken(view, "error"))
               ELSE [view EXCEPT !.queue = <<>>, !.finish = FALSE]
    /\ UNCHANGED <<said, thinking, round, chunk, breaks, here, visits>>

----------------------------------------------------------------------------
(* The ticker and the user. *)

Tick(n) ==
    /\ here /\ Draining
    /\ IF view.queue = <<>> THEN n = 0 ELSE n \in 1..Len(view.queue)
    /\ view' = Advance(view, n)
    /\ UNCHANGED <<phase, log, said, thinking, round, chunk, breaks, here, visits>>

\* _detach_live_run_state: the cells wait in the thread's run state.
Leave ==
    /\ here /\ visits < MaxVisits
    /\ here' = FALSE /\ visits' = visits + 1
    /\ UNCHANGED <<phase, log, said, thinking, round, chunk, breaks, view>>

\* _resume_thread: the history in place of the scrollback, with the waiting
\* cells beneath it.
Return ==
    /\ ~here
    /\ here' = TRUE
    /\ view' = [view EXCEPT !.out = HistoryCells]
    /\ UNCHANGED <<phase, log, said, thinking, round, chunk, breaks, visits>>

Next ==
    \/ ReasoningDelta \/ AssistantDelta \/ StreamRetry
    \/ \E call, thought \in BOOLEAN : ModelResponse(call, thought)
    \/ ToolStarted \/ ToolPartial \/ ToolOutput
    \/ Compact \/ Completed \/ Interrupted \/ Error
    \/ \E n \in 0..MaxChunks : Tick(n)
    \/ Leave \/ Return

Spec == Init /\ [][Next]_vars

----------------------------------------------------------------------------
(* Correctness. *)

\* The text of an answer that is not beside a call.
IsFinal(cell) ==
    /\ cell.text # <<>>
    /\ \E i \in DOMAIN log : /\ log[i].type = "response" /\ ~log[i].call /\ log[i].text # <<>>
                             /\ Last(log[i].text) = Last(cell.text)

\* What both the scrollback and the history are expected to hold.
Lasting(cell) ==
    CASE cell.kind \in {"user", "tool", "ui_message"} -> TRUE
      [] cell.kind = "reasoning" -> breaks = 0
      [] cell.kind = "assistant" -> IsFinal(cell)
      [] OTHER -> FALSE

SameCell(shown, stored) ==
    /\ shown.kind = stored.kind
    /\ shown.kind = "assistant" => IsSuffix(stored.text, shown.text)
    /\ shown.kind \in {"tool", "ui_message"} => shown.call = stored.call

\* A turn that completed while its thread stayed attached leaves in the
\* scrollback, in the same order and each once, the messages, reasoning,
\* calls and final answer a later resume shows, the answer to its last
\* chunk, however the pacing, the early end of a cell and the second report
\* of reasoning and UI messages fell between the events.
ScreenMatchesHistory ==
    (phase = "completed" /\ ~Draining /\ visits = 0) =>
        LET shown == SelectSeq(view.out, Lasting)
            stored == SelectSeq(HistoryCells, Lasting)
        IN  /\ Len(shown) = Len(stored)
            /\ \A i \in DOMAIN shown : SameCell(shown[i], stored[i])

=============================================================================
