------------------------------ MODULE ModelStream ------------------------------
(***************************************************************************)
(* The three provider clients (model/chat.py, model/responses.py,          *)
(* model/anthropic.py) behind UnifiedModelClient.stream_response: how the  *)
(* conversation becomes a request, how the events of a stream become the   *)
(* deltas the engine shows and the one response it stores, and how the     *)
(* engine retries a stream that breaks.                                    *)
(*                                                                         *)
(* Text and arguments are counted in pieces.  A call's arguments are a     *)
(* JSON document exactly when all `size` pieces have arrived; no piece at  *)
(* all stands for the empty document.                                      *)
(***************************************************************************)
EXTENDS Naturals, Sequences, SequencesExt, FiniteSets

CONSTANTS MaxBlocks,    \* blocks of one answer
          MaxPieces,    \* pieces of a block
          MaxRounds,    \* requests of a conversation that are answered
          MaxRetries,   \* runtime.stream_retry.max_retries
          Nothing       \* no response, no failure

VARIABLES
  items,     \* the input items of the conversation, as the engine rebuilds them
  api,       \* ModelConfig.api of the level in use
  request,   \* the messages of the request being answered
  answer,    \* the blocks the provider has sent in this stream
  acc,       \* the local variables of the stream function
  shown,     \* StreamResponseState: what the engine has passed on
  response,  \* the completed ModelResponse
  stage,     \* where the engine's loop is
  rounds, retries
vars == <<items, api, request, answer, acc, shown, response, stage, rounds, retries>>

Apis == {"chat", "responses", "anthropic"}
Kinds == {"thinking", "text", "call"}

-----------------------------------------------------------------------------
(* The items of the conversation *)

User == [kind |-> "user"]
\* A stored assistant message; native is its anthropic_content (<<>>: none).
Message(text, native) == [kind |-> "message", text |-> text, native |-> native]
Call(id, args, size) == [kind |-> "call", id |-> id, args |-> args, size |-> size]
Output(id) == [kind |-> "output", id |-> id]
Parses(call) == call.args \in {0, call.size}

-----------------------------------------------------------------------------
(* anthropic_messages *)

Flushed(m) ==
  [m EXCEPT !.out = @ \o (IF m.open THEN <<[role |-> "assistant", ids |-> m.ids]>> ELSE <<>>),
            !.open = FALSE, !.ids = <<>>, !.native = {}]

ResultsFlushed(m) ==
  [m EXCEPT !.out = @ \o (IF m.results # <<>> THEN <<[role |-> "user", ids |-> m.results]>> ELSE <<>>),
            !.results = <<>>]

\* The tool_use block of the call is in the replayed content: its input is what
\* the arguments parse to, or {} if they do not parse.
Carried(m, call) ==
  \/ call.id \in m.native /\ Parses(call)
  \/ call.id \in ToSet(m.ids) \ m.native

AddItem(m, item) ==
  CASE item.kind = "user" ->
         LET f == ResultsFlushed(Flushed(m)) IN
           [f EXCEPT !.out = Append(@, [role |-> "user", ids |-> <<>>])]
    [] item.kind = "message" ->
         [ResultsFlushed(Flushed(m)) EXCEPT
            !.open = TRUE, !.ids = item.native, !.native = ToSet(item.native)]
    [] item.kind = "call" ->
         LET f == ResultsFlushed(m) IN
           IF Carried(f, item) THEN f
           ELSE IF Parses(item) THEN [f EXCEPT !.open = TRUE, !.ids = Append(@, item.id)]
           ELSE [f EXCEPT !.raised = TRUE]
    [] item.kind = "output" ->
         [Flushed(m) EXCEPT !.results = Append(@, item.id)]

Fresh == [out |-> <<>>, open |-> FALSE, ids |-> <<>>, native |-> {}, results |-> <<>>,
          raised |-> FALSE]

AnthropicMessages(history) ==
  LET m == ResultsFlushed(Flushed(FoldLeft(AddItem, Fresh, history))) IN
    [raised |-> m.raised, out |-> m.out]

-----------------------------------------------------------------------------
(* chat_messages: a message of role tool per result *)

AddChatItem(m, item) ==
  CASE item.kind = "user" ->
         LET f == Flushed(m) IN [f EXCEPT !.out = Append(@, [role |-> "user", ids |-> <<>>])]
    [] item.kind = "message" -> [Flushed(m) EXCEPT !.open = TRUE]
    [] item.kind = "call" -> [m EXCEPT !.open = TRUE, !.ids = Append(@, item.id)]
    [] item.kind = "output" ->
         LET f == Flushed(m) IN
           [f EXCEPT !.out = Append(@, [role |-> "tool", ids |-> <<item.id>>])]

ChatMessages(history) ==
  [raised |-> FALSE, out |-> Flushed(FoldLeft(AddChatItem, Fresh, history)).out]

\* responses_payload sends the items as they are.
ResponsesInput(history) ==
  [raised |-> FALSE,
   out |-> [k \in DOMAIN history |->
              LET item == history[k] IN
                [role |-> CASE item.kind = "output" -> "tool"
                            [] item.kind = "user" -> "user"
                            [] OTHER -> "assistant",
                 ids |-> IF item.kind \in {"call", "output"} THEN <<item.id>> ELSE <<>>]]]

Messages(a, history) ==
  CASE a = "anthropic" -> AnthropicMessages(history)
    [] a = "chat" -> ChatMessages(history)
    [] a = "responses" -> ResponsesInput(history)

-----------------------------------------------------------------------------
(* The local variables of the stream functions *)

NoAcc == [text |-> <<>>,    \* text_parts: the block each piece belongs to
          tools |-> <<>>,   \* tool_acc: pieces of arguments of each call, by index
          blocks |-> <<>>,  \* content_blocks (Anthropic): pieces of each block
          done |-> <<>>]    \* output (Responses): the blocks of output_item.done
NothingShown == [text |-> <<>>, calls |-> <<>>]

Put(f, k, x) == [j \in DOMAIN f \cup {k} |-> IF j = k THEN x ELSE f[j]]
At(f, k) == IF k \in DOMAIN f THEN f[k] ELSE 0

Init ==
  /\ items = <<User>> /\ api \in Apis
  /\ request = <<>> /\ answer = <<>> /\ acc = NoAcc /\ shown = NothingShown
  /\ response = Nothing /\ stage = "ask" /\ rounds = 0 /\ retries = 0

-----------------------------------------------------------------------------
(* A request *)

\* The payload of the request is built before the provider is asked; an
\* exception of the conversion is no provider error and ends the turn.
Ask ==
  /\ stage = "ask" /\ rounds < MaxRounds
  /\ LET m == Messages(api, items) IN
       /\ request' = m.out
       /\ stage' = IF m.raised THEN "failed" ELSE "stream"
  /\ answer' = <<>> /\ acc' = NoAcc /\ response' = Nothing
  /\ UNCHANGED <<items, api, shown, rounds, retries>>

LastBlock == answer[Len(answer)]
Open == answer # <<>> /\ ~LastBlock.ended
Streaming == stage = "stream" /\ response = Nothing

\* The provider begins a block.  An answer's text comes before its calls.
\* content_block_start (Anthropic) and output_item.added (Responses) announce a
\* call; a chat stream announces it with its first delta.
BeginBlock(kind, size) ==
  /\ Streaming /\ ~Open /\ Len(answer) < MaxBlocks
  /\ kind # "call" => \A k \in DOMAIN answer : answer[k].kind # "call"
  /\ kind # "call" => size > 0
  /\ answer' = Append(answer, [kind |-> kind, sent |-> 0, size |-> size, ended |-> FALSE])
  /\ LET k == Len(answer) + 1 IN
       /\ acc' = [acc EXCEPT
            !.tools = IF kind = "call" THEN Put(@, k, 0) ELSE @,
            !.blocks = IF api = "anthropic" THEN Put(@, k, 0) ELSE @]
       /\ shown' = IF kind = "call" THEN [shown EXCEPT !.calls = Put(@, k, 0)] ELSE shown
  /\ UNCHANGED <<items, api, request, response, stage, rounds, retries>>

\* A text delta: kept, and passed on at once.
TextDelta ==
  /\ Streaming /\ Open /\ LastBlock.kind = "text" /\ LastBlock.sent < LastBlock.size
  /\ answer' = [answer EXCEPT ![Len(answer)].sent = @ + 1]
  /\ LET k == Len(answer) IN
       /\ acc' = [acc EXCEPT !.text = Append(@, k),
                             !.blocks = IF api = "anthropic" THEN Put(@, k, At(@, k) + 1) ELSE @]
       /\ shown' = [shown EXCEPT !.text = Append(@, k)]
  /\ UNCHANGED <<items, api, request, response, stage, rounds, retries>>

ThinkingDelta ==
  /\ Streaming /\ Open /\ LastBlock.kind = "thinking" /\ LastBlock.sent < LastBlock.size
  /\ answer' = [answer EXCEPT ![Len(answer)].sent = @ + 1]
  /\ acc' = [acc EXCEPT !.blocks =
               IF api = "anthropic" THEN Put(@, Len(answer), At(@, Len(answer)) + 1) ELSE @]
  /\ UNCHANGED <<items, api, request, shown, response, stage, rounds, retries>>

\* A piece of a call's arguments, by the index of the call.
ArgumentsDelta ==
  /\ Streaming /\ Open /\ LastBlock.kind = "call" /\ LastBlock.sent < LastBlock.size
  /\ answer' = [answer EXCEPT ![Len(answer)].sent = @ + 1]
  /\ LET k == Len(answer) IN
       /\ acc' = [acc EXCEPT !.tools[k] = @ + 1]
       /\ shown' = [shown EXCEPT !.calls[k] = acc.tools[k] + 1]
  /\ UNCHANGED <<items, api, request, response, stage, rounds, retries>>

\* The arguments of a call that a gateway sends whole: as the input of the
\* content_block_start (used when no input_json_delta follows), as the item of
\* an output_item.done, or in one chat delta.
ArgumentsWhole ==
  /\ Streaming /\ Open /\ LastBlock.kind = "call" /\ LastBlock.sent = 0 /\ LastBlock.size > 1
  /\ answer' = [answer EXCEPT ![Len(answer)].sent = LastBlock.size]
  /\ LET k == Len(answer) IN
       /\ acc' = [acc EXCEPT !.tools[k] = IF api = "responses" THEN @ ELSE LastBlock.size]
       /\ shown' = IF api = "chat" THEN [shown EXCEPT !.calls[k] = LastBlock.size] ELSE shown
  /\ UNCHANGED <<items, api, request, response, stage, rounds, retries>>

\* The end of a block.  output_item.done carries the item: its arguments replace
\* the collected ones, and what was not passed on yet is passed on.
EndBlock ==
  /\ Streaming /\ Open /\ LastBlock.sent = LastBlock.size
  /\ answer' = [answer EXCEPT ![Len(answer)].ended = TRUE]
  /\ LET k == Len(answer) IN
       IF api = "responses"
         THEN /\ acc' = [acc EXCEPT
                   !.done = Append(@, k),
                   !.tools = IF LastBlock.kind = "call" THEN Put(@, k, LastBlock.sent) ELSE @]
              /\ shown' = IF LastBlock.kind = "call"
                            THEN [shown EXCEPT !.calls = Put(@, k, LastBlock.sent)] ELSE shown
         ELSE UNCHANGED <<acc, shown>>
  /\ UNCHANGED <<items, api, request, response, stage, rounds, retries>>

-----------------------------------------------------------------------------
(* The end of a stream *)

CallId(k) == rounds * (MaxBlocks + 1) + k
CallIndexes == SetToSortSeq(DOMAIN acc.tools, <)
CallItems == [n \in DOMAIN CallIndexes |->
                Call(CallId(CallIndexes[n]), acc.tools[CallIndexes[n]], answer[CallIndexes[n]].size)]

\* chat_output_items: one message if there is any text, then the calls by index.
ChatOutput == (IF acc.text # <<>> THEN <<Message(acc.text, <<>>)>> ELSE <<>>) \o CallItems

\* _finalize_anthropic_stream_content, anthropic_output_items: the blocks, in
\* the order of their index, as one message; then the calls.
AnthropicText ==
  FlattenSeq([k \in DOMAIN answer |->
                IF answer[k].kind = "text" THEN [j \in 1..At(acc.blocks, k) |-> k] ELSE <<>>])
AnthropicOutput ==
  (IF acc.blocks # <<>>
     THEN <<Message(AnthropicText, [n \in DOMAIN CallIndexes |-> CallId(CallIndexes[n])])>>
     ELSE <<>>) \o CallItems

\* The output of response.completed, or the items done when it is empty, or the
\* text when there are none.  An item of type reasoning is kept and says nothing here.
ItemOf(k) ==
  IF answer[k].kind = "call" THEN <<Call(CallId(k), answer[k].sent, answer[k].size)>>
  ELSE IF answer[k].kind = "text" THEN <<Message([j \in 1..answer[k].sent |-> k], <<>>)>>
  ELSE <<>>
ResponsesOutput(whole) ==
  LET final == FlattenSeq([k \in DOMAIN answer |-> ItemOf(k)])
      items_done == FlattenSeq([n \in DOMAIN acc.done |-> ItemOf(acc.done[n])])
  IN IF whole THEN final
     ELSE IF acc.done # <<>> THEN items_done
     ELSE IF acc.text # <<>> THEN <<Message(acc.text, <<>>)>>
     ELSE <<>>

TextOf(output) ==
  FlattenSeq([n \in DOMAIN output |-> IF output[n].kind = "message" THEN output[n].text ELSE <<>>])

\* Variant: the retry goes on with what was collected.
RetryKeeps ==
  IF retries < MaxRetries
    THEN /\ retries' = retries + 1 /\ stage' = "ask" /\ UNCHANGED shown
    ELSE /\ stage' = "failed" /\ UNCHANGED <<retries, shown>>

\* An answer with neither output nor reasoning is an EmptyModelStreamError, as
\* retryable as a broken connection.  Without a further retry it ends the turn.
\* StreamResponseState.reset drops what was collected for the broken stream.
Retry ==
  IF retries < MaxRetries
    THEN /\ retries' = retries + 1 /\ stage' = "ask" /\ shown' = NothingShown
    ELSE /\ stage' = "failed" /\ UNCHANGED <<retries, shown>>

\* completion_text_delta: what the completed text adds to the text passed on.
Completed(output) ==
  /\ response' = [output |-> output]
  /\ shown' = [shown EXCEPT !.text = IF IsPrefix(@, TextOf(output)) THEN TextOf(output) ELSE @]
  /\ UNCHANGED <<stage, retries>>

Reasoned == \E k \in DOMAIN answer : answer[k].kind = "thinking" /\ answer[k].sent > 0

Complete(output) ==
  /\ IF output = <<>> /\ ~Reasoned THEN Retry /\ UNCHANGED response ELSE Completed(output)
  /\ UNCHANGED <<items, api, request, answer, acc, rounds>>

\* A chat stream is complete when it ends, whatever its finish_reason: at the
\* limit of tokens the last block is cut.
ChatEnds == Streaming /\ api = "chat" /\ Complete(ChatOutput)

\* message_stop; at max_tokens the last block is cut, the API ends the message
\* all the same.
AnthropicStops == Streaming /\ api = "anthropic" /\ Complete(AnthropicOutput)

\* response.completed, with the output or without it.  Only a gateway that sent
\* the items one by one, or nothing but text, leaves the output out.
ResponsesCompletes(whole) ==
  /\ Streaming /\ api = "responses" /\ ~Open
  /\ Complete(ResponsesOutput(whole))

\* The connection breaks: a provider error that is retried.
StreamBreaks ==
  /\ Streaming /\ Retry
  /\ UNCHANGED <<items, api, request, answer, acc, response, rounds>>

\* response.incomplete and response.failed are not read; nor is the end of an
\* Anthropic stream without message_stop: the stream ends, there is no response,
\* and require_response raises an error that is not retried.
StreamEndsEarly ==
  /\ Streaming /\ api # "chat" /\ stage' = "failed"
  /\ UNCHANGED <<items, api, request, answer, acc, shown, response, rounds, retries>>

-----------------------------------------------------------------------------
(* The engine's loop around the stream *)

\* item.model_response, then one output for every call (invalid arguments are
\* answered with an error for the model), and the next request.  A response
\* without a call ends the turn; the user writes again and may have changed the
\* level.
Calls(output) == SelectSeq(output, LAMBDA item : item.kind = "call")

Store ==
  /\ stage = "stream" /\ response # Nothing
  /\ LET calls == Calls(response.output)
         outputs == [n \in DOMAIN calls |-> Output(calls[n].id)]
     IN /\ items' = items \o response.output \o outputs \o
                    (IF calls = <<>> THEN <<User>> ELSE <<>>)
        /\ \E a \in Apis : /\ calls # <<>> => a = api
                           /\ api' = a
  /\ stage' = "ask" /\ rounds' = rounds + 1 /\ retries' = 0
  /\ request' = <<>> /\ answer' = <<>> /\ acc' = NoAcc /\ shown' = NothingShown
  /\ response' = Nothing

\* turn.error: the history stays as it is; the next turn brings a user message.
NextTurn ==
  /\ stage = "failed" /\ rounds < MaxRounds
  /\ items' = Append(items, User) /\ api' \in Apis
  /\ stage' = "ask" /\ rounds' = rounds + 1 /\ retries' = 0
  /\ request' = <<>> /\ answer' = <<>> /\ acc' = NoAcc /\ shown' = NothingShown
  /\ response' = Nothing

Next ==
  \/ Ask
  \/ \E kind \in Kinds, size \in 0..MaxPieces : BeginBlock(kind, size)
  \/ TextDelta \/ ThinkingDelta \/ ArgumentsDelta \/ ArgumentsWhole \/ EndBlock
  \/ ChatEnds \/ AnthropicStops \/ \E whole \in BOOLEAN : ResponsesCompletes(whole)
  \/ StreamBreaks \/ StreamEndsEarly
  \/ Store \/ NextTurn

Spec == Init /\ [][Next]_vars

-----------------------------------------------------------------------------
(* Properties *)

\* What the provider sent in this stream, however it was cut into events.
SentText == FlattenSeq([k \in DOMAIN answer |->
              IF answer[k].kind = "text" THEN [j \in 1..answer[k].sent |-> k] ELSE <<>>])
SentCalls == FlattenSeq([k \in DOMAIN answer |->
               IF answer[k].kind = "call"
                 THEN <<Call(CallId(k), answer[k].sent, answer[k].size)>> ELSE <<>>])

\* The response that is stored is what the provider sent and what was passed on:
\* the text once and in order, every call once with the arguments that arrived,
\* after any mixture of deltas, whole items, empty completions and retries.  (The
\* whole input of an Anthropic content_block_start is stored but not passed on.)
AnswerIsWhole ==
  response # Nothing =>
    /\ TextOf(response.output) = SentText
    /\ shown.text = SentText
    /\ Calls(response.output) = SentCalls
    /\ DOMAIN shown.calls = {k \in DOMAIN answer : answer[k].kind = "call"}
    /\ api # "anthropic" => \A k \in DOMAIN shown.calls : shown.calls[k] = answer[k].sent

\* A request is one a provider accepts, also when the items come from another
\* provider's stream: every call is answered, once, by the messages that follow
\* it directly (all in one message for Anthropic), and nothing else is answered.
Results(messages, n) ==
  LET after == SubSeq(messages, n + 1, Len(messages))
      stop == {j \in DOMAIN after : after[j].role # "tool"}
      last == IF stop = {} THEN Len(after) ELSE (CHOOSE j \in stop : \A i \in stop : j <= i) - 1
  IN IF api = "anthropic"
       THEN IF after = <<>> THEN <<>> ELSE after[1].ids
       ELSE FlattenSeq([j \in 1..last |-> after[j].ids])
RequestIsAnswered ==
  stage = "stream" /\ api # "responses" =>
    /\ \A n \in DOMAIN request :
         request[n].role = "assistant" => Results(request, n) = request[n].ids
    /\ LET used == FlattenSeq([n \in DOMAIN request |->
                     IF request[n].role = "assistant" THEN request[n].ids ELSE <<>>])
       IN /\ IsInjective(used)
          /\ \A k \in DOMAIN items : items[k].kind = "call" => items[k].id \in ToSet(used)

\* The client is faithful in both directions: to the answer it stores and shows,
\* and to the conversation it sends.
ClientIsFaithful == AnswerIsWhole /\ RequestIsAnswered

=============================================================================
