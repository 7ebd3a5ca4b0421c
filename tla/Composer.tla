------------------------------- MODULE Composer -------------------------------
(***************************************************************************)
(* The keyboard of the terminal interface (tui/app.py handle_key and       *)
(* _handle_agent_view_key): the draft and its cursor, image tokens, the    *)
(* palette of commands and mentions, the input history, the confirmations  *)
(* of Ctrl+C and of the Agent View.                                        *)
(*                                                                         *)
(* A draft is a sequence of symbols: a letter, a space, a line break, "@", *)
(* "/", and the two halves "[Image " and "#n]" of an image token, between  *)
(* which the cursor may stand.  The cursor counts the symbols before it.   *)
(***************************************************************************)
EXTENDS Naturals, Sequences, SequencesExt, FiniteSets, FiniteSetsExt

CONSTANTS MaxDraft,    \* symbols of a draft
          MaxImages,   \* clipboard images of the session
          MaxTurns,    \* turns that begin and end
          None

VARIABLES
  draft, cursor,
  images,      \* _image_paths_by_number: the numbers that have a path
  nextImage,   \* _image_sequence_next
  past, recall, \* _history (its last entry) and _history_cursor
  palette,     \* the open picker, where its mention starts, whether it has items
  armed,       \* the confirmation Ctrl+C waits for, and whether it ran out
  paste,       \* _last_plain_input_at is recent; _skip_next_lf_after_plain_cr
  running,     \* the turn in the view can be interrupted
  turns,
  page,        \* the Agent View: its mode, its draft and what it asks
  done,        \* what the last key did, for the properties
  asked        \* the question the last Ctrl+C put on the screen
vars == <<draft, cursor, images, nextImage, past, recall, palette, armed, paste,
          running, turns, page, done, asked>>

Sym(c) == [c |-> c, n |-> 0]
Head1(n) == [c |-> "head", n |-> n]
Tail1(n) == [c |-> "tail", n |-> n]
Blank == {"space", "line"}

-----------------------------------------------------------------------------
(* The draft *)

Cut(d, a, b) == SubSeq(d, 1, a) \o SubSeq(d, b + 1, Len(d))
Insert(d, c, s) == SubSeq(d, 1, c) \o s \o SubSeq(d, c + 1, Len(d))
IsSpace(d, k) == k \in DOMAIN d /\ d[k].c = "space"

LineStart(d, c) == Max({0} \cup {k \in 1..c : d[k].c = "line"})
LineEnd(d, c) == Min({Len(d)} \cup {k \in c..Len(d) : k < Len(d) /\ d[k + 1].c = "line"})

\* The first symbols of the image tokens that are whole.
Tokens(d) == {k \in 1..(Len(d) - 1) : d[k].c = "head" /\ d[k + 1] = Tail1(d[k].n)}
Numbers(d) == {d[k].n : k \in Tokens(d)}

\* A token goes with one separating space where that is obvious.
TokenSpan(d, k) ==
  LET before == IsSpace(d, k - 1)
      after == IsSpace(d, k + 2)
  IN IF before /\ after THEN <<k - 1, k + 2>>
     ELSE IF before /\ k + 1 = Len(d) THEN <<k - 2, k + 1>>
     ELSE IF after /\ k = 1 THEN <<0, k + 2>>
     ELSE <<k - 1, k + 1>>

SpacesBefore(d, c) == Min({k \in 0..c : \A j \in (k + 1)..c : IsSpace(d, j)})
SpacesAfter(d, c) == Max({k \in c..Len(d) : \A j \in (c + 1)..k : IsSpace(d, j)})

\* The symbols a backspace at c removes, as the positions around them.
BeforeSpan(d, c) ==
  LET inside == {k \in Tokens(d) : k - 1 < c /\ c <= k + 1}
      left == {k \in Tokens(d) : k + 1 = SpacesBefore(d, c)}
  IN IF c = 0 THEN <<0, 0>>
     ELSE IF inside # {} THEN TokenSpan(d, Min(inside))
     ELSE IF IsSpace(d, c) /\ left # {} THEN <<Min(left) - 1, c>>
     ELSE <<c - 1, c>>
AfterSpan(d, c) ==
  LET inside == {k \in Tokens(d) : k - 1 <= c /\ c < k + 1}
      right == {k \in Tokens(d) : k - 1 = SpacesAfter(d, c)}
  IN IF c = Len(d) THEN <<c, c>>
     ELSE IF inside # {} THEN TokenSpan(d, Min(inside))
     ELSE IF IsSpace(d, c + 1) /\ right # {} THEN <<c, Min(right) + 1>>
     ELSE <<c, c + 1>>

\* _delete_word: back to the last space or line break; the first half of a token
\* ends in a space.
WordStart(d, c) ==
  LET stripped == Max({0} \cup {k \in 1..c : d[k].c \notin Blank})
  IN Max({0} \cup {k \in 1..(stripped - 1) : d[k].c \in Blank \cup {"head"}})

LineEndSpan(d, c) ==
  LET end == LineEnd(d, c) IN IF c = end /\ end < Len(d) THEN <<c, end + 1>> ELSE <<c, end>>

Vertical(d, c, up) ==
  LET start == LineStart(d, c)
      end == LineEnd(d, c)
      column == c - start
      prev == LineStart(d, start - 1)
  IN IF up
       THEN IF start = 0 THEN 0 ELSE prev + Min({column, start - 1 - prev})
       ELSE IF end = Len(d) THEN end
            ELSE end + 1 + Min({column, LineEnd(d, end + 1) - (end + 1)})

Stripped(d) ==
  LET full == {k \in DOMAIN d : d[k].c \notin Blank}
  IN IF full = {} THEN <<>> ELSE SubSeq(d, Min(full), Max(full))

\* _mention_query_at_cursor: where the token under the cursor begins, if it
\* begins with "@".
MentionStart(d, c) ==
  LET start == Max({0} \cup {k \in 1..c : d[k].c \in Blank \cup {"head"}})
  IN IF start < c /\ d[start + 1].c = "at" THEN start ELSE None

-----------------------------------------------------------------------------
(* The state *)

Closed == [mode |-> "closed", start |-> 0, items |-> FALSE]
NotArmed == [for |-> None, late |-> FALSE]
Typing == [recent |-> FALSE, skip |-> FALSE]
NoPage == [mode |-> "closed", draft |-> FALSE, asks |-> None, target |-> "dispatch"]

Init ==
  /\ draft = <<>> /\ cursor = 0 /\ images = {} /\ nextImage = 1
  /\ past = None /\ recall = FALSE
  /\ palette = Closed /\ armed = NotArmed /\ paste = Typing
  /\ running = FALSE /\ turns = 0 /\ page = NoPage
  /\ done = "nothing" /\ asked = None

\* Ctrl+C pressed in the transcript is the only key that keeps a confirmation.
\* A paste forgets the one for quitting but not the one for interrupting.
ClearArmed == armed' = NotArmed /\ asked' = None
Transcript == page.mode = "closed" /\ done # "quit"
Reports(what) == done' = what

\* _after_composer_changed: images whose token is gone are forgotten, the palette
\* follows the text.
AfterChange(d, c) ==
  /\ images' = images \cap Numbers(d)
  /\ palette' \in
       IF d # <<>> /\ d[1].c = "slash" /\ (\A k \in DOMAIN d : d[k].c # "line")
         THEN {[mode |-> "command", start |-> 0, items |-> i] : i \in BOOLEAN}
       ELSE IF MentionStart(d, c) # None
         THEN {[mode |-> "mention", start |-> MentionStart(d, c), items |-> i] : i \in BOOLEAN}
       ELSE {Closed}

Edit(d, c) ==
  /\ Len(d) <= MaxDraft
  /\ draft' = d /\ cursor' = c

\* A key of the transcript that changes the text.
Typed(s) ==
  /\ Transcript
  /\ Edit(Insert(draft, cursor, <<s>>), cursor + 1)
  /\ AfterChange(draft', cursor')
  /\ paste' = [recent |-> TRUE, skip |-> FALSE]
  /\ recall' = FALSE /\ ClearArmed /\ Reports("typed")
  /\ UNCHANGED <<nextImage, past, running, turns, page>>

Pasted ==
  /\ Transcript
  /\ Edit(Insert(draft, cursor, <<Sym("x"), Sym("line")>>), cursor + 2)
  /\ AfterChange(draft', cursor')
  /\ paste' = Typing /\ recall' = FALSE /\ Reports("typed")
  /\ armed' = IF armed.for = "quit" THEN NotArmed ELSE armed
  /\ asked' = IF armed.for = "quit" THEN None ELSE asked
  /\ UNCHANGED <<nextImage, past, running, turns, page>>

NewLine ==
  /\ Transcript
  /\ IF paste.skip
       THEN paste' = [recent |-> TRUE, skip |-> TRUE] /\ UNCHANGED <<draft, cursor, images, palette>>
       ELSE /\ Edit(Insert(draft, cursor, <<Sym("line")>>), cursor + 1)
            /\ AfterChange(draft', cursor') /\ paste' = Typing
  /\ ClearArmed /\ Reports("typed")
  /\ UNCHANGED <<nextImage, past, recall, running, turns, page>>

\* Backspace, Ctrl+D, Ctrl+W, Ctrl+K and Ctrl+U.
Delete(span) ==
  /\ Transcript
  /\ Edit(Cut(draft, span[1], span[2]), span[1])
  /\ AfterChange(draft', cursor') /\ paste' = Typing
  /\ ClearArmed /\ Reports("typed")
  /\ UNCHANGED <<nextImage, past, running, turns, page>>
DeleteKey ==
  \/ recall' = recall /\
       \E span \in {BeforeSpan(draft, cursor), AfterSpan(draft, cursor),
                    <<WordStart(draft, cursor), cursor>>, LineEndSpan(draft, cursor)} : Delete(span)
  \/ recall' = FALSE /\ Delete(<<0, Len(draft)>>)

\* Left, right, Ctrl+A in a draft and Ctrl+E.  The palette stays as it is.
MoveKey ==
  /\ Transcript
  /\ cursor' \in {IF cursor = 0 THEN 0 ELSE cursor - 1, Min({cursor + 1, Len(draft)}),
                  LineEnd(draft, cursor)} \cup
                 (IF draft # <<>> THEN {LineStart(draft, cursor)} ELSE {})
  /\ paste' = Typing /\ ClearArmed /\ Reports("moved")
  /\ UNCHANGED <<draft, images, nextImage, past, recall, palette, running, turns, page>>

Recalled == draft' = past /\ cursor' = Len(past) /\ recall' = TRUE

\* Up: the palette, then the lines of the draft, then the history.
UpKey ==
  /\ Transcript
  /\ IF palette.mode # "closed" THEN UNCHANGED <<draft, cursor, recall>>
     ELSE IF recall THEN Recalled
     ELSE IF draft # <<>> THEN cursor' = Vertical(draft, cursor, TRUE) /\ UNCHANGED <<draft, recall>>
     ELSE IF past = None THEN UNCHANGED <<draft, cursor, recall>>
     ELSE Recalled
  /\ paste' = Typing /\ ClearArmed /\ Reports("moved")
  /\ UNCHANGED <<images, nextImage, past, palette, running, turns, page>>
DownKey ==
  /\ Transcript
  /\ IF palette.mode # "closed" THEN UNCHANGED <<draft, cursor, recall>>
     ELSE IF recall THEN draft' = <<>> /\ cursor' = 0 /\ recall' = FALSE
     ELSE cursor' = Vertical(draft, cursor, FALSE) /\ UNCHANGED <<draft, recall>>
  /\ paste' = Typing /\ ClearArmed /\ Reports("moved")
  /\ UNCHANGED <<images, nextImage, past, palette, running, turns, page>>

EscKey ==
  /\ Transcript
  /\ palette' = Closed /\ paste' = Typing /\ ClearArmed /\ Reports("moved")
  /\ UNCHANGED <<draft, cursor, images, nextImage, past, recall, running, turns, page>>

-----------------------------------------------------------------------------
(* Enter *)

\* _replace_composer_range from the start of the mention to the cursor.
ReplaceMention(d, start, c) ==
  LET end == Max({start, c}) IN
    [text |-> SubSeq(d, 1, start) \o <<Sym("x"), Sym("space")>> \o SubSeq(d, end + 1, Len(d)),
     at |-> start + 2]

\* Tab completes the mention and stays on it.
TabKey ==
  /\ Transcript /\ MentionStart(draft, cursor) # None
  /\ LET new == ReplaceMention(draft, MentionStart(draft, cursor), cursor) IN
       Edit(new.text, new.at)
  /\ palette' = Closed /\ paste' = Typing /\ ClearArmed /\ Reports("typed")
  /\ UNCHANGED <<images, nextImage, past, recall, running, turns, page>>

\* Enter in what looks like a paste without brackets.
PastedEnter ==
  /\ Transcript /\ paste.recent
  /\ Edit(Insert(draft, cursor, <<Sym("line")>>), cursor + 1)
  /\ AfterChange(draft', cursor')
  /\ paste' = [recent |-> TRUE, skip |-> TRUE] /\ recall' = FALSE
  /\ ClearArmed /\ Reports("typed")
  /\ UNCHANGED <<nextImage, past, running, turns, page>>

AcceptMention ==
  /\ Transcript /\ ~paste.recent /\ palette.mode = "mention"
  /\ palette.items
  /\ LET new == ReplaceMention(draft, palette.start, cursor) IN Edit(new.text, new.at)
  /\ palette' = Closed /\ paste' = [paste EXCEPT !.skip = FALSE]
  /\ ClearArmed /\ Reports("accepted")
  /\ UNCHANGED <<images, nextImage, past, recall, running, turns, page>>

\* Tab, and Enter in the palette, take a command that expects an argument: the
\* palette stays open on it.
ChooseCommand ==
  /\ Transcript /\ draft # <<>> /\ draft[1].c = "slash"
  /\ \/ \* Tab
        paste' = Typing
     \/ \* Enter
        ~paste.recent /\ palette.mode = "command" /\ palette.items /\ paste' = [paste EXCEPT !.skip = FALSE]
  /\ Edit(<<Sym("slash"), Sym("space")>>, 2)
  /\ palette' = [mode |-> "command", start |-> 0, items |-> TRUE]
  /\ ClearArmed /\ Reports("accepted")
  /\ UNCHANGED <<images, nextImage, past, recall, running, turns, page>>

\* Enter with an empty list of mentions, or with nothing to send, does nothing.
NoMention ==
  /\ Transcript /\ ~paste.recent
  /\ IF palette.mode = "mention" THEN ~palette.items ELSE Stripped(draft) = <<>>
  /\ paste' = [paste EXCEPT !.skip = FALSE] /\ ClearArmed /\ Reports("moved")
  /\ UNCHANGED <<draft, cursor, images, nextImage, past, recall, palette, running, turns, page>>

\* A command: it clears the draft, and /image puts the token of the new image
\* into it.  (The draft of a command keeps the images of its tokens until the
\* next edit.)
Command ==
  /\ Transcript /\ ~paste.recent /\ palette.mode # "mention"
  /\ draft # <<>> /\ Stripped(draft) # <<>> /\ Stripped(draft)[1].c = "slash"
  /\ past' = Stripped(draft) /\ recall' = FALSE
  /\ palette' = Closed /\ paste' = [paste EXCEPT !.skip = FALSE] /\ ClearArmed
  /\ \/ /\ draft' = <<>> /\ cursor' = 0 /\ Reports("command")
        /\ UNCHANGED <<images, nextImage>>
     \/ /\ nextImage <= MaxImages
        /\ draft' = <<Head1(nextImage), Tail1(nextImage)>> /\ cursor' = 2
        /\ images' = {nextImage} /\ nextImage' = nextImage + 1 /\ Reports("image")
  /\ UNCHANGED <<running, turns, page>>

\* A message: with the images of its tokens, then the draft is empty.  It starts a
\* turn, or waits for the one that runs.
Submit ==
  /\ Transcript /\ ~paste.recent /\ palette.mode # "mention"
  /\ Stripped(draft) # <<>> /\ Stripped(draft)[1].c # "slash"
  /\ running \/ turns < MaxTurns
  /\ past' = Stripped(draft) /\ recall' = FALSE
  /\ draft' = <<>> /\ cursor' = 0 /\ palette' = Closed
  /\ images' = images \ Numbers(draft)
  /\ paste' = [paste EXCEPT !.skip = FALSE] /\ ClearArmed /\ Reports("sent")
  /\ running' = TRUE /\ turns' = IF running THEN turns ELSE turns + 1
  /\ UNCHANGED <<nextImage, page>>

-----------------------------------------------------------------------------
(* Ctrl+C *)

Armed(what) == armed.for = what /\ ~armed.late
Arm(what) == armed' = [for |-> what, late |-> FALSE] /\ asked' = what

\* Variant: asking about the interrupt leaves the question about quitting armed.
CtrlCKeeps ==
  /\ Transcript
  /\ IF running
       THEN IF Armed("interrupt")
              THEN armed' = NotArmed /\ asked' = None /\ Reports("interrupt") /\ running' = FALSE
              ELSE /\ (IF armed.for = "quit" THEN armed' = armed /\ asked' = "interrupt"
                                             ELSE Arm("interrupt"))
                   /\ Reports("ask") /\ UNCHANGED running
       ELSE IF Armed("quit")
              THEN Reports("quit") /\ UNCHANGED <<armed, asked, running>>
              ELSE Arm("quit") /\ Reports("ask") /\ UNCHANGED running
  /\ UNCHANGED <<draft, cursor, images, nextImage, past, recall, palette, paste, turns, page>>

\* The interrupted turn unwinds at once here; Runs.tla has its end.
CtrlC ==
  /\ Transcript
  /\ IF running
       THEN IF Armed("interrupt")
              THEN armed' = NotArmed /\ asked' = None /\ Reports("interrupt") /\ running' = FALSE
              ELSE Arm("interrupt") /\ Reports("ask") /\ UNCHANGED running
       ELSE IF Armed("quit")
              THEN Reports("quit") /\ UNCHANGED <<armed, asked, running>>
              ELSE Arm("quit") /\ Reports("ask") /\ UNCHANGED running
  /\ UNCHANGED <<draft, cursor, images, nextImage, past, recall, palette, paste, turns, page>>

\* Time: a confirmation runs out (the ticker takes its question off the screen),
\* a pause tells typing from pasting.
TimePasses ==
  /\ done # "quit"
  /\ armed' = [armed EXCEPT !.late = armed.for # None]
  /\ asked' = None
  /\ paste' = [paste EXCEPT !.recent = FALSE] /\ Reports("time")
  /\ UNCHANGED <<draft, cursor, images, nextImage, past, recall, palette, running, turns, page>>

\* Turns of the thread in view end, and queued or scheduled ones begin.
TurnChanges ==
  /\ done # "quit" /\ (running \/ turns < MaxTurns)
  /\ running' = ~running /\ turns' = IF running THEN turns ELSE turns + 1
  /\ Reports("turn")
  /\ UNCHANGED <<draft, cursor, images, nextImage, past, recall, palette, armed, paste, page, asked>>

-----------------------------------------------------------------------------
(* The Agent View *)

ViewVars == <<draft, cursor, images, nextImage, past, recall, palette, armed, paste,
              running, turns, asked>>
InView == page.mode # "closed" /\ done # "quit"

\* Ctrl+A with an empty draft.  What a confirmation had asked before is gone with
\* the last _close_agent_view.
OpenView ==
  /\ Transcript /\ draft = <<>>
  /\ page' = [page EXCEPT !.mode = "normal", !.target = "dispatch"]
  /\ palette' = Closed /\ paste' = Typing /\ ClearArmed /\ Reports("moved")
  /\ UNCHANGED <<draft, cursor, images, nextImage, past, recall, running, turns>>

CloseView ==
  /\ page.mode \in {"normal", "help"} /\ page.asks = None /\ InView
  /\ page' = [page EXCEPT !.mode = "closed"]
  /\ Reports("moved") /\ UNCHANGED ViewVars

\* "d" and "D" ask; the question stays until it is answered, whatever else is
\* pressed.
AskDelete(what) ==
  /\ page.mode = "normal" /\ InView /\ what \in {"hide", "worktree"}
  /\ page' = [page EXCEPT !.asks = what]
  /\ Reports("ask") /\ UNCHANGED ViewVars

\* y, and n, Esc or Ctrl+C, are looked at before the mode is.
AnswerYes ==
  /\ InView /\ page.asks # None
  /\ page' = [page EXCEPT !.asks = None]
  /\ Reports(IF page.asks = "worktree" THEN "deleted" ELSE "hidden")
  /\ UNCHANGED ViewVars
AnswerNo ==
  /\ InView /\ page.asks # None
  /\ page' = [page EXCEPT !.asks = None] /\ Reports("kept") /\ UNCHANGED ViewVars

ViewMode ==
  /\ InView
  /\ \/ page.mode = "normal" /\ \E m \in {"help", "model", "input"} :
          page' = [page EXCEPT !.mode = m, !.target = "dispatch"]
     \/ page.mode = "normal" /\ page' = [page EXCEPT !.mode = "input", !.target = "reply"]
     \/ page.mode \in {"help", "model"} /\ page' = [page EXCEPT !.mode = "normal"]
     \/ \* Esc keeps the text, Ctrl+C drops it; a pending question takes both.
        /\ page.mode = "input" /\ page.asks = None
        /\ \E keep \in BOOLEAN : page' = [page EXCEPT !.mode = "normal", !.target = "dispatch",
                                                     !.draft = page.draft /\ keep]
  /\ Reports("moved") /\ UNCHANGED ViewVars

\* A text key other than y and n while a question is pending, any text key else.
ViewTyped ==
  /\ InView /\ page.mode = "input"
  /\ page' = [page EXCEPT !.draft = TRUE] /\ Reports("typed") /\ UNCHANGED ViewVars

ViewDelete ==
  /\ InView /\ page.mode = "input" /\ page.draft
  /\ page' = [page EXCEPT !.draft = FALSE] /\ Reports("typed") /\ UNCHANGED ViewVars

\* Enter in the input: a reply or a dispatch, and back to the normal mode.
ViewSubmit ==
  /\ InView /\ page.mode = "input" /\ page.draft
  /\ page' = [page EXCEPT !.mode = "normal", !.draft = FALSE, !.target = "dispatch"]
  /\ Reports("sent") /\ UNCHANGED ViewVars

\* The row of the current thread is hidden: its draft loses its images.
HideCurrent ==
  /\ InView /\ done = "hidden"
  /\ images' = {} /\ Reports("moved")
  /\ UNCHANGED <<draft, cursor, nextImage, past, recall, palette, armed, paste,
                 running, turns, page, asked>>

Next ==
  \/ \E c \in {"x", "space", "at", "slash"} : Typed(Sym(c))
  \/ Pasted \/ NewLine \/ DeleteKey \/ MoveKey \/ UpKey \/ DownKey \/ EscKey
  \/ TabKey \/ PastedEnter \/ AcceptMention \/ ChooseCommand \/ NoMention \/ Command \/ Submit
  \/ CtrlC \/ TimePasses \/ TurnChanges
  \/ OpenView \/ CloseView \/ (\E what \in {"hide", "worktree"} : AskDelete(what))
  \/ AnswerYes \/ AnswerNo \/ ViewMode \/ ViewTyped \/ ViewDelete \/ ViewSubmit \/ HideCurrent

Spec == Init /\ [][Next]_vars

-----------------------------------------------------------------------------
(* What holds of every state. *)

\* A confirmation that is armed and has not run out is the question on the screen.
Inv ==
  /\ armed \in [for : {None, "quit", "interrupt"}, late : BOOLEAN]
  /\ armed.for # None /\ ~armed.late => asked = armed.for

-----------------------------------------------------------------------------
(* Properties *)

\* Quitting and interrupting are what the screen has just asked about ("Press
\* Ctrl+C again to quit", "... to interrupt", i18n.py): a turn that ends or begins
\* between the two presses, the passing of time or another key never make the
\* second press do something else.
AsAsked == done' \in {"quit", "interrupt"} /\ done # "quit" => asked = done'
CtrlCIsAsked == [][AsAsked]_vars

=============================================================================
