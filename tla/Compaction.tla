----------------------------- MODULE Compaction -----------------------------
(***************************************************************************)
(* When a conversation is compacted and what of it survives word for word. *)
(* The input of the model is a sequence of items with sizes in tokens.     *)
(* agent/engine.py compares what the provider reported, or an estimate,    *)
(* with a threshold, and asks a judge before a turn; agent/compaction.py   *)
(* then puts entries of the newest items, chosen by two budgets, into one  *)
(* handoff message.  What a handoff stands for is Transcript's.            *)
(***************************************************************************)
EXTENDS Integers, Sequences, SequencesExt, FiniteSetsExt, Functions

CONSTANTS
    Sizes,           \* sizes of what users, model and tools write
    Quoting,         \* may a message of a user quote a tag of the handoff
    Tag, Suffix,     \* tokens of an entry's tags and of the mark of a cut
    Note,            \* tokens of a tool output that was left out
    Ask, Summary,    \* tokens of the request for a summary and of the summary
    UserBudget,      \* COMPACTION_USER_MESSAGE_MAX_TOKENS
    RecentBudget,    \* a quarter of the window, for a compaction inside a turn
    Window,          \* the window less the reserve of 5,000
    Threshold,       \* trigger_ratio of the window, and min_tokens
    Candidates,      \* the values of K the judge's gain is computed for
    Remaining,       \* N: rounds the judge may expect
    Read, Write,     \* prices of a cached token and of another
    MinGain,         \* compression.min_gain
    MaxItems,        \* bound: things written: messages, calls, answers, verdicts
    MaxCompactions,  \* bound: compactions
    Never

VARIABLES
    items,   \* the model's input
    turn,    \* [pc, user, times, kept]: the turn, its message, its compactions;
             \* ghost: the message is in the handoff
    usage,   \* the count compaction decides by: [n, of]
    shown,   \* metadata latest_usage_tokens
    last,    \* ghost: what the step before compacted
    made     \* items and compactions so far

cpvars == <<items, turn, usage, shown, last, made>>

Item(k, n) == [k |-> k, n |-> n, id |-> 0, quotes |-> FALSE]
\* POST_TOOL_COMPACTION_BRIDGE, and what stands for the user after it.
Bridge == Item("bridge", 1)
Continue == Item("continue", 1)
Context == Item("context", 1)
Exchange(stray) ==
    <<Item("judge", 1)>>
    \o (IF stray THEN <<Item("call", 1), Item("output", 1)>> ELSE <<>>) \o <<Item("verdict", 1)>>

\* estimate_tokens
SizeOf(its) == FoldLeft(LAMBDA sum, item : sum + item.n, 0, its)

-----------------------------------------------------------------------------
(* Which items may be kept. *)

UserRole == {"user", "context", "handoff", "continue"}

\* strip_compaction_judge_history: from a judge's request to the next message
\* of the user's role, and every answer that reads like a verdict.
FromJudge(its) ==
    {i \in DOMAIN its :
        \/ its[i].k = "verdict"
        \/ \E j \in 1..i : its[j].k = "judge" /\ \A l \in (j + 1)..i : its[l].k \notin UserRole}
Source(its) == DOMAIN its \ FromJudge(its)

\* CONTEXT_SCAFFOLD_MARKERS are looked for anywhere in the text.
Scaffold(item) == item.k \in {"context", "handoff", "continue"} \/ item.quotes

\* retain_item_after_compaction
OfUser(its) == {i \in Source(its) : its[i].k = "bridge" \/ (its[i].k = "user" /\ ~Scaffold(its[i]))}

\* _recent_context_candidate_entry
OfRecent(its) ==
    {i \in Source(its) : its[i].k \in {"user", "assistant", "bridge", "call", "output"} /\ ~Scaffold(its[i])}

-----------------------------------------------------------------------------
(* What is kept of them. *)

EntryTokens(n) == n + Tag

\* truncate_text_to_estimated_tokens: a text that fits without its tags stays
\* whole, and the mark of a cut is never cut.
Cut(n, left) == IF n <= left THEN n ELSE Max({left, Suffix})

\* From the newest backwards; the first that does not fit is cut, and ends it.
Selected(its, candidates, budget) ==
    LET Take(at, acc) ==
            IF acc.left <= 0 \/ at \notin candidates THEN acc
            ELSE IF EntryTokens(its[at].n) <= acc.left
            THEN [kept |-> acc.kept \cup {[at |-> at, n |-> its[at].n]},
                  left |-> acc.left - EntryTokens(its[at].n)]
            ELSE [kept |-> acc.kept \cup {[at |-> at, n |-> Cut(its[at].n, acc.left)]}, left |-> 0]
    IN FoldRight(Take, [i \in 1..Len(its) |-> i], [kept |-> {}, left |-> budget]).kept

\* Variant: the later of two renders of an item wins.
MergedLatest(users, recent) == recent \cup {e \in users : \A f \in recent : f.at # e.at}

\* _merge_retained_history_entries: one render of an item, the longest.
Merged(users, recent) ==
    LET all == users \cup recent IN {e \in all : \A f \in all : f.at = e.at => f.n <= e.n}

\* compaction_replacement_input
Kept(its, k) == Merged(Selected(its, OfUser(its), UserBudget), Selected(its, OfRecent(its), k))

Handoff(kept) == Item("handoff", Summary + MapThenSumSet(LAMBDA e : EntryTokens(e.n), kept))

\* normalize_compaction_replacement_input: what an earlier version stored, kept
\* items and a summary, is read as a handoff that keeps them whole.
Normalized(its) ==
    IF \E i \in DOMAIN its : its[i].k = "handoff" THEN SelectSeq(its, LAMBDA item : item.k = "handoff")
    ELSE IF its = <<>> THEN <<>>
    ELSE <<Handoff({[at |-> i, n |-> its[i].n] : i \in OfRecent(its)})>>

Unreported == [n |-> 0, of |-> "nobody"]
Idle == [pc |-> "idle", user |-> Item("user", 0), times |-> 0, kept |-> FALSE]

Legacy == {<<>>, <<Item("user", Max(Sizes)), Item("context", 1), Item("summary", Summary)>>}

Init ==
    /\ \E stored \in Legacy : items = Normalized(stored)
    /\ turn = Idle /\ usage = Unreported /\ shown = Unreported.n
    /\ last = Never
    /\ made = [item |-> 0, compaction |-> 0]

-----------------------------------------------------------------------------
(* Whether to compact, and the request. *)

\* _compaction_token_count: the latest report since the last compaction, or of
\* it, and an estimate only when there is none.
TokenCount(its) == IF usage.of # "nobody" THEN usage.n ELSE SizeOf(its)
ShouldRun(its) == TokenCount(its) >= Threshold
\* What the footer shows, context_stats.
Used(its) == IF shown # Unreported.n THEN shown ELSE SizeOf(its)

\* truncate_tool_output_for_compaction: both ends of its texts, or a note that it
\* was left out, which may be the longer.
Shortened(n) == (Note..n) \cup {Note}

\* _fit_compaction_input_by_truncating_last_tool_output: six tries, then the note.
Fitted(its, size) ==
    LET outputs == {i \in Source(its) : its[i].k = "output"}
        n == its[Max(outputs)].n
    IN IF size <= Window \/ outputs = {} THEN {size}
       ELSE {size - n + m : m \in {m \in Shortened(n) : size - n + m <= Window} \cup {Note}}

Requests(its, cut) ==
    LET size == SizeOf(its) + Ask - MapThenSumSet(LAMBDA i : its[i].n, FromJudge(its))
    IN IF cut THEN Fitted(its, size) ELSE {size}

Report(n, of) == usage' = [n |-> n, of |-> of] /\ shown' = n

\* _compact_if_needed
Checkpoint(its, k, cut, why) ==
    /\ made.compaction < MaxCompactions
    /\ made' = [made EXCEPT !.compaction = @ + 1]
    /\ \E request \in Requests(its, cut) :
          /\ last' = [before |-> its, kept |-> Kept(its, k), k |-> k, request |-> request,
                      cut |-> cut, why |-> why, by |-> usage.of]
          /\ \/ Report(request + Summary, "checkpoint")
             \/ usage' = Unreported /\ UNCHANGED shown

-----------------------------------------------------------------------------
(* A turn. *)

\* The epoch context is told again at its start, before a handoff.
WithContext(its) == IF \E i \in DOMAIN its : its[i].k = "context" THEN its ELSE <<Context>> \o its

Begin(n, q) ==
    /\ turn.pc = "idle" /\ made.item < MaxItems
    /\ items' = WithContext(items)
    /\ turn' = [pc |-> "judge", user |-> [Item("user", n) EXCEPT !.id = made.item + 1, !.quotes = q],
                times |-> 0, kept |-> FALSE]
    /\ made' = [made EXCEPT !.item = @ + 1] /\ last' = Never
    /\ UNCHANGED <<usage, shown>>

Asks(its) == items' = Append(its, turn.user) /\ turn' = [turn EXCEPT !.pc = "model"]

\* Below judge_min_context_ratio, without prices, or cache_aware is off.
NoJudge == turn.pc = "judge" /\ Asks(items) /\ UNCHANGED <<usage, shown, made>> /\ last' = Never

\* retained_user_messages_after_compaction, without tags.
History == {i \in Source(items) : items[i].k # "context"}
D == MapThenSumSet(LAMBDA i : items[i].n, History)
U == MapThenSumSet(LAMBDA e : e.n, Selected(items, OfUser(items), UserBudget))

\* compute_net_gain, estimate_compact_cost
Cost == (D + Ask) * Write + Summary * Write
NetGain(k, n) ==
    Max({0, D - U}) * n * Read - Summary * (Write + (n - 1) * Read) - (k + U) * (Write - Read) - Cost
\* The best of the candidates above zero, the smallest of equals.
Best(n) ==
    LET good == {k \in Candidates : NetGain(k, n) > 0 /\ \A j \in Candidates : NetGain(j, n) <= NetGain(k, n)}
    IN IF good = {} THEN Never ELSE Min(good)
Worthwhile(n) == Best(n) # Never /\ NetGain(Best(n), n) > Max({MinGain, Cost})

\* The verdict is unreadable, "exact", or compacting does not pay.
JudgeKept ==
    /\ turn.pc = "judge" /\ made.item < MaxItems
    /\ \E stray \in BOOLEAN : Asks(items \o Exchange(stray))
    /\ made' = [made EXCEPT !.item = @ + 1]
    /\ UNCHANGED <<usage, shown>> /\ last' = Never

JudgeCompacts(n) ==
    /\ turn.pc = "judge" /\ Worthwhile(n)
    /\ Checkpoint(items, Best(n), FALSE, "judge")
    /\ Asks(<<Context, Handoff(last'.kept)>>)

\* A response reports what it was asked with and said, or nothing.
Responds(said) ==
    \/ Report(SizeOf(items) + SizeOf(said), "response")
    \/ UNCHANGED <<usage, shown>>

CallTool(n) ==
    LET call == Item("call", 1) IN
    /\ turn.pc = "model" /\ made.item < MaxItems
    /\ items' = items \o <<call, Item("output", n)>>
    /\ Responds(<<call>>)
    /\ turn' = [turn EXCEPT !.pc = "tools"] /\ made' = [made EXCEPT !.item = @ + 1]
    /\ last' = Never

Answer(n) ==
    LET said == Item("assistant", n) IN
    /\ turn.pc = "model" /\ made.item < MaxItems
    /\ items' = Append(items, said)
    /\ Responds(<<said>>)
    /\ turn' = [turn EXCEPT !.pc = "wrap"] /\ made' = [made EXCEPT !.item = @ + 1]
    /\ last' = Never

\* _maybe_compact_after_tool_results
CompactInTurn ==
    LET bridged == Append(items, Bridge) IN
    /\ turn.pc = "tools" /\ ShouldRun(bridged)
    /\ Checkpoint(bridged, RecentBudget, TRUE, "threshold")
    /\ items' = <<Context, Handoff(last'.kept), Continue>>
    /\ turn' = [turn EXCEPT !.pc = "model", !.times = @ + 1,
                    !.kept = \E e \in last'.kept : bridged[e.at] = turn.user]

GoOn ==
    /\ turn.pc = "tools" /\ ~ShouldRun(Append(items, Bridge))
    /\ turn' = [turn EXCEPT !.pc = "model"]
    /\ UNCHANGED <<items, usage, shown, made>> /\ last' = Never

\* _maybe_compact, unless the turn has compacted.
CompactAfterTurn ==
    /\ turn.pc = "wrap" /\ turn.times = 0 /\ ShouldRun(items)
    /\ Checkpoint(items, 0, FALSE, "threshold")
    /\ items' = <<Handoff(last'.kept)>> /\ turn' = Idle

EndTurn ==
    /\ turn.pc = "wrap" /\ (turn.times > 0 \/ ~ShouldRun(items))
    /\ turn' = Idle /\ UNCHANGED <<items, usage, shown, made>> /\ last' = Never

\* An assistant's sentence says so (INTERRUPTED_STREAM_CONTEXT_BRIDGE).
Interrupt ==
    /\ turn.pc \in {"model", "tools"} /\ made.item < MaxItems
    /\ turn' = Idle /\ items' = Append(items, Item("assistant", 1))
    /\ made' = [made EXCEPT !.item = @ + 1]
    /\ UNCHANGED <<usage, shown>> /\ last' = Never

Next ==
    \/ \E n \in Sizes : Begin(n, FALSE) \/ (Quoting /\ Begin(n, TRUE)) \/ CallTool(n) \/ Answer(n)
    \/ NoJudge \/ JudgeKept \/ (\E n \in Remaining : JudgeCompacts(n))
    \/ CompactInTurn \/ GoOn \/ CompactAfterTurn \/ EndTurn \/ Interrupt

Spec == Init /\ [][Next]_cpvars

-----------------------------------------------------------------------------
(* What a compaction promises. *)

\* Tokens of the entries of the candidates from i on.
From(its, candidates, i) ==
    MapThenSumSet(LAMBDA j : EntryTokens(its[j].n), {j \in candidates : j >= i})
Fits(its, candidates, budget, i) == i \in candidates /\ From(its, candidates, i) <= budget
\* The newest that does not fit; nothing is left for it if those after it fill
\* the budget.
Partly(its, candidates, budget, i) ==
    /\ i \in candidates /\ From(its, candidates, i) > budget
    /\ From(its, candidates, i + 1) < budget

HandoffKeepsWhatFits ==
    last # Never =>
    LET its == last.before
        Some(P(_, _, _, _), i) ==
            P(its, OfUser(its), UserBudget, i) \/ P(its, OfRecent(its), last.k, i)
    IN /\ \A i \in DOMAIN its : Some(Fits, i) => [at |-> i, n |-> its[i].n] \in last.kept
       /\ \A e \in last.kept :
             /\ Some(Fits, e.at) \/ Some(Partly, e.at)
             /\ its[e.at].k \notin {"judge", "verdict", "context", "handoff", "continue"}
             /\ \A f \in last.kept : f.at = e.at => f = e
       /\ MapThenSumSet(LAMBDA e : EntryTokens(e.n), last.kept)
             <= UserBudget + last.k + 2 * (Tag + Suffix)

\* The request of a compaction inside a turn is within the window, if leaving out
\* the last tool output is enough for that.
RequestFits ==
    (last # Never /\ last.cut) =>
        LET its == last.before
            output == Max({i \in Source(its) : its[i].k = "output"})
            others == MapThenSumSet(LAMBDA i : its[i].n, Source(its) \ {output})
        IN last.request <= Window \/ others + Note + Ask > Window

\* The turn's task is before the model until its second compaction, or its tags
\* look like the host's.
TaskInView ==
    (turn.pc \in {"model", "tools", "wrap"} /\ turn.times <= 1 /\ ~turn.user.quotes) =>
        \/ \E i \in DOMAIN items : items[i] = turn.user
        \/ turn.kept

\* A threshold compacts what is long; but a compaction's own report counts what
\* it has just replaced, until a response reports.
LongEnough ==
    (last # Never /\ last.why = "threshold" /\ last.by # "checkpoint") =>
        SizeOf(last.before) >= Threshold

\* The footer shows the count compaction decides by, unless a compaction did not
\* report: the footer then shows what was before it.
ShownAsDecided ==
    (usage.of # "nobody" \/ shown = Unreported.n) => Used(items) = TokenCount(items)

\* A compaction keeps the newest of the conversation word for word, as much as
\* its budgets hold and nothing of the host's own; its request fits; it happens
\* to long conversations; and the task goes on.
CompactionKeepsTheNewest ==
    /\ HandoffKeepsWhatFits
    /\ RequestFits
    /\ TaskInView
    /\ LongEnough
    /\ ShownAsDecided
=============================================================================
