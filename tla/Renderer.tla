------------------------------- MODULE Renderer -------------------------------
(***************************************************************************)
(* The append-only renderer (tui/renderer.py) and the terminal it writes   *)
(* to.  Completed cells are written once, with normal flow; beneath them a *)
(* live frame is drawn, erased and drawn again, by relative moves while    *)
(* the renderer does not know where it stands, by absolute rows when it    *)
(* does.  A row of the terminal holds 0 (nothing that matters), a row of   *)
(* the transcript (its number) or a row of the live frame.                 *)
(***************************************************************************)
EXTENDS Integers, Sequences, SequencesExt

CONSTANTS
    Rows,           \* rows of the terminal
    Chrome,         \* rows of status and composer a live frame may need
    CellRows,       \* rows the live cells may need
    FlushRows,      \* rows a completed cell may have
    MaxTranscript   \* rows of the transcript

VARIABLES
    ren,            \* the fields of Renderer
    term,           \* the terminal: rows scrolled off, the viewport, the cursor's row
    written         \* rows of the transcript written so far

vars == <<ren, term, written>>

PanelRows == 3      \* the least a picker's panel needs
PanelTotal == 5     \* the most it takes
Live == -1
AtLeast(a, b) == IF a > b THEN a ELSE b
AtMost(a, b) == IF a < b THEN a ELSE b

----------------------------------------------------------------------------
(* The terminal. *)

\* A line feed; at the last row the viewport moves up.
LineFeed(t) ==
    IF t.row < Rows THEN [t EXCEPT !.row = @ + 1]
    ELSE [t EXCEPT !.gone = IF t.grid[1] = 0 THEN @ ELSE Append(@, t.grid[1]),
                   !.grid = [i \in 1..Rows |-> IF i < Rows THEN t.grid[i + 1] ELSE 0]]

Scroll(t, n) == FoldLeft(LAMBDA u, i : LineFeed(u), [t EXCEPT !.row = Rows], [i \in 1..n |-> i])
Put(t, x) == [t EXCEPT !.grid[t.row] = x]
Up(t, n) == [t EXCEPT !.row = AtLeast(1, @ - n)]
GoTo(t, row) == [t EXCEPT !.row = AtLeast(1, AtMost(Rows, row))]

\* Lines joined by line feeds.
Write(t, lines) ==
    FoldLeft(LAMBDA u, i : Put(IF i = 1 THEN u ELSE LineFeed(u), lines[i]), t,
             [i \in DOMAIN lines |-> i])

ClearRows(t, top, bottom) ==
    [t EXCEPT !.grid = [i \in 1..Rows |-> IF top <= i /\ i <= bottom THEN 0 ELSE @[i]]]

----------------------------------------------------------------------------
(* The live region: what the state asks for, and the frame that fits. *)

LiveStates == [chrome : Chrome, cells : CellRows, palette : BOOLEAN]

\* The picker's panel: fixed, smaller or not at all in the rows left for it.
Panel(room) == IF room < PanelRows THEN 0 ELSE AtMost(PanelTotal, room)

\* render_live_with_cursor: the rows of the frame and the cursor's row in it.
Frame(s, r, max) ==
    LET preceded == r.last # "none"
        gap == IF ~preceded /\ s.cells = 0 THEN 0
               ELSE IF /\ s.palette /\ s.cells = 0
                       /\ max - s.chrome - 1 < PanelRows /\ PanelRows <= max - s.chrome
               THEN 0 ELSE 1
        room == max - s.chrome - gap - (IF s.cells > 0 THEN 1 ELSE 0)
        panel == IF s.palette THEN Panel(room) ELSE 0
        cells == AtMost(s.cells, AtLeast(1, max - s.chrome - gap - panel))
        above == cells + gap + s.chrome
    IN  [height |-> above + panel, cursor |-> above - 1]

RenderLive(s, r) == Frame(s, r, AtLeast(3, IF s.palette THEN Rows ELSE Rows - 1))

\* _rerender_live_with_height: clipped to the rows that are safe.
Rerender(s, r, height) ==
    LET f == Frame(s, r, AtLeast(3, height))
        dropped == AtLeast(0, f.height - height)
    IN  [height |-> f.height - dropped, cursor |-> AtLeast(0, f.cursor - dropped)]

Lines(f) == [i \in 1..f.height |-> Live]

----------------------------------------------------------------------------
(* The renderer's helpers, on its fields r and the terminal t. *)

LiveTop(r, height) == AtLeast(1, AtMost(r.transcript + 1, Rows - height + 1))

Capped(r, height) == [r EXCEPT !.transcript = AtMost(@, AtLeast(0, Rows - height))]

PreservedOnGrowth(s, r) ==
    IF r.transcript <= 0 THEN 0
    ELSE IF s.palette /\ r.last = "assistant"
    THEN AtMost(r.transcript, AtLeast(1, r.lastRows))
    ELSE AtMost(r.transcript, 1)

ClearFloating(r, t) ==
    IF ~r.has THEN t
    ELSE LET top == Up(t, r.cursor)
             wiped == Write(top, [i \in 1..r.height |-> 0])
         IN  Up(wiped, r.height - 1)

NoFrame(r) == [r EXCEPT !.has = FALSE, !.anchored = FALSE, !.top = 0, !.height = 0, !.cursor = 0]

\* Draws f where the cursor stands: the frame is anchored as soon as the
\* transcript and the frame fill the terminal.
Known(r, f) == r.known \/ r.transcript + f.height >= Rows

Recorded(r, f, anchored) ==
    [r EXCEPT !.has = TRUE, !.anchored = anchored, !.height = f.height, !.cursor = f.cursor,
              !.top = IF anchored THEN LiveTop(r, f.height) ELSE AtLeast(1, r.transcript + 1)]

PlaceCursor(r, t) ==
    IF r.anchored THEN GoTo(t, r.top + r.cursor)
    ELSE Up(t, (r.height - 1) - AtMost(r.height - 1, r.cursor))

AppendFrame(r, t, f) ==
    LET known == Known(r, f)
        capped == IF known THEN Capped([r EXCEPT !.known = TRUE], f.height) ELSE r
        recorded == Recorded(capped, f, known)
    IN  [ren |-> recorded, term |-> PlaceCursor(recorded, Write(t, Lines(f)))]

----------------------------------------------------------------------------
(* flush_cell. *)

\* The old frame makes room: it scrolls before it is erased.
MakeRoom(r, t, replacement) ==
    IF ~r.has THEN [ren |-> r, term |-> t]
    ELSE IF ~r.anchored THEN [ren |-> r, term |-> ClearFloating(r, t)]
    ELSE LET bottom == r.top + r.height - 1
             drawTop == AtLeast(1, AtMost(r.top, Rows - replacement + 1))
             delta == AtLeast(0, r.top - drawTop)
             top == AtLeast(1, r.top - delta)
             moved == IF delta > 0 THEN Scroll(t, delta) ELSE t
             clearBottom == AtLeast(AtLeast(0, bottom - delta), top + replacement - 1)
         IN  [ren |-> [r EXCEPT !.transcript = AtLeast(0, @ - delta)],
              term |-> GoTo(ClearRows(moved, top, clearBottom), top)]

\* Cells of one kind of the middle of a turn follow each other without a gap.
GapBefore(r, kind) == r.last # "none" /\ ~(r.last = "tool" /\ kind = "tool")

FlushCell(rows, kind, live, s) ==
    LET gap == IF GapBefore(ren, kind) THEN 1 ELSE 0
        lines == [i \in 1..gap |-> 0] \o [i \in 1..rows |-> written + i]
        frame == RenderLive(s, ren)
        room == MakeRoom(ren, term, Len(lines) + (IF live THEN frame.height ELSE 0))
        shown == LineFeed(Write(room.term, lines))
        count == room.ren.transcript + Len(lines)
        after == NoFrame([room.ren EXCEPT !.transcript = count,
                                          !.known = @ \/ count >= Rows,
                                          !.last = kind, !.lastRows = rows])
        drawn == IF live THEN AppendFrame(after, shown, frame) ELSE [ren |-> after, term |-> shown]
    IN  /\ written + rows <= MaxTranscript
        /\ written' = written + rows
        /\ ren' = drawn.ren /\ term' = drawn.term

----------------------------------------------------------------------------
(* repaint. *)

\* A picker over a floating frame is clipped to keep the transcript's tail,
\* unless that leaves no room for it.
FloatingFrame(s) ==
    LET f == RenderLive(s, ren)
        preserve == PreservedOnGrowth(s, ren)
        available == AtLeast(1, Rows - preserve)
        clipped == Rerender(s, ren, available)
        expanded == Rerender(s, ren, Rows)
    IN  IF ~s.palette \/ f.height <= available THEN f
        ELSE IF preserve > 0 /\ clipped.height < available /\ expanded.height > clipped.height
        THEN expanded ELSE clipped

RepaintFloating(s) ==
    LET f == FloatingFrame(s)
        drawn == AppendFrame(ren, ClearFloating(ren, term), f)
    IN  ren' = drawn.ren /\ term' = drawn.term

\* Variant: a frame that grows is drawn at once, over what stands there.
GrownOver(s, f) == [delta |-> 0, top |-> LiveTop(ren, f.height), frame |-> f]

\* A frame that grows scrolls the transcript, then is clipped to what is left;
\* a picker that still cannot open takes one more row at a time.
Grown(s, f) ==
    LET desired == ren.top - LiveTop(ren, f.height)
        first == AtMost(desired, AtLeast(0, ren.transcript - PreservedOnGrowth(s, ren)))
        Fits(delta) == Rerender(s, ren, AtLeast(1, Rows - AtLeast(1, ren.top - delta) + 1))
        Stops(delta) ==
            \/ ~s.palette \/ delta >= desired
            \/ AtLeast(0, ren.transcript - delta) = 0
            \/ Fits(delta).height >= AtLeast(1, Rows - AtLeast(1, ren.top - delta) + 1)
        delta == IF first >= desired THEN first
                 ELSE CHOOSE d \in first..desired : Stops(d) /\ \A e \in first..(d - 1) : ~Stops(e)
    IN  [delta |-> delta,
         top |-> IF first < desired THEN AtLeast(1, ren.top - delta) ELSE LiveTop(ren, f.height),
         frame |-> IF first < desired THEN Fits(delta) ELSE f]

GrownOrNot(s, f) ==
    IF LiveTop(ren, f.height) < ren.top THEN Grown(s, f)
    ELSE [delta |-> 0, top |-> LiveTop(ren, f.height), frame |-> f]

RepaintAnchored(s) ==
    LET grown == GrownOrNot(s, RenderLive(s, ren))
        f == grown.frame
        oldTop == AtLeast(1, ren.top - grown.delta)
        oldBottom == AtLeast(0, ren.top + ren.height - 1 - grown.delta)
        moved == IF grown.delta > 0 THEN Scroll(term, grown.delta) ELSE term
        capped == Capped([ren EXCEPT !.transcript = AtLeast(0, @ - grown.delta)], f.height)
        cleared == ClearRows(moved, AtMost(grown.top, oldTop),
                             AtLeast(grown.top + f.height - 1, oldBottom))
        recorded == Recorded(capped, f, TRUE)
    IN  /\ ren' = recorded
        /\ term' = PlaceCursor(recorded, Write(GoTo(cleared, grown.top), Lines(f)))

Repaint(s) ==
    /\ IF ~ren.has
       THEN LET drawn == AppendFrame(ren, term, RenderLive(s, ren))
            IN  ren' = drawn.ren /\ term' = drawn.term
       ELSE IF ren.anchored THEN RepaintAnchored(s) ELSE RepaintFloating(s)
    /\ UNCHANGED written

----------------------------------------------------------------------------

NewRenderer == [transcript |-> 0, top |-> 0, height |-> 0, cursor |-> 0, has |-> FALSE,
                anchored |-> FALSE, known |-> FALSE, last |-> "none", lastRows |-> 0,
                open |-> TRUE]

\* The program starts with the cursor in any row of the terminal.
Init ==
    /\ ren = NewRenderer
    /\ written = 0
    /\ \E row \in 1..Rows : term = [gone |-> <<>>, grid |-> [i \in 1..Rows |-> 0], row |-> row]

\* clear_screen: the transcript of the new thread starts at the top.
ClearScreen ==
    /\ written > 0
    /\ ren' = [NewRenderer EXCEPT !.known = TRUE]
    /\ term' = [gone |-> <<>>, grid |-> [i \in 1..Rows |-> 0], row |-> 1]
    /\ written' = 0

\* close: the shell's prompt takes the place of the live frame.
Close ==
    /\ ren' = [NoFrame(ren) EXCEPT !.last = "none", !.lastRows = 0, !.open = FALSE]
    /\ term' = IF ren.has /\ ren.anchored
               THEN GoTo(ClearRows(term, ren.top, ren.top + ren.height - 1), ren.top)
               ELSE ClearFloating(ren, term)
    /\ UNCHANGED written

Next ==
    /\ ren.open
    /\ \/ \E s \in LiveStates :
             \/ \E rows \in FlushRows, kind \in {"tool", "assistant"}, live \in BOOLEAN :
                    FlushCell(rows, kind, live, s)
             \/ Repaint(s)
       \/ ClearScreen
       \/ Close

Spec == Init /\ [][Next]_vars

----------------------------------------------------------------------------
(* Correctness. *)

\* What the user reads, from the first row scrolled off to the last.
Seen == term.gone \o term.grid

\* "Once a transcript row has been written, later repaints must never clear
\* over it" (renderer.py): every row stays in the scrollback or the viewport,
\* once and in order, and no row of a live frame is scrolled off among them,
\* wherever the program started, whatever cells, frames and pickers follow.
TranscriptKept ==
    /\ SelectSeq(Seen, LAMBDA x : x > 0) = [i \in 1..written |-> i]
    /\ \A i \in DOMAIN term.gone : term.gone[i] # Live

=============================================================================
