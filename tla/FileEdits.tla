------------------------------ MODULE FileEdits ------------------------------
(***************************************************************************)
(* Edits of the workspace by a script of the runtime (uv_agent_runtime/    *)
(* patch.py and textops.py): patches over several files, replace_text and  *)
(* edit_lines on one, and transactions that put files back.                *)
(*                                                                         *)
(* A file is a sequence of lines, each a text with its line ending; a text *)
(* is a sequence of atoms, the empty one a blank line.  Only the last line *)
(* may have no ending, and then it is not blank.                           *)
(***************************************************************************)
EXTENDS Naturals, Sequences, SequencesExt, FiniteSets, FiniteSetsExt

CONSTANTS Paths,
          Files,      \* what a path holds at first
          Patches,    \* sequences of operations
          Texts,      \* the lines a script writes
          MaxEdits,   \* edits of a script
          None

VARIABLES
  disk,      \* what each path holds, None if it does not exist
  doing,     \* what the script is in: idle, checking, patching or restoring
  patch, base, \* the patch under way and the disk it began on
  todo,      \* the paths a patch or a rollback has still to write, in order
  outcome,   \* how the last edit ended
  snap,      \* the transaction: the captured paths with their content
  edits
vars == <<disk, doing, patch, base, todo, outcome, snap, edits>>

Line(t, e) == [t |-> t, e |-> e]

-----------------------------------------------------------------------------
(* Text *)

\* Pieces put together: a piece without an ending runs into the next one.
AddPiece(f, piece) ==
  IF f # <<>> /\ Last(f).e = ""
    THEN Append(Front(f), Line(Last(f).t \o piece.t, piece.e)) ELSE Append(f, piece)
Joined(pieces) ==
  LET f == FoldLeft(AddPiece, <<>>, pieces)
  IN IF f # <<>> /\ Last(f) = Line(<<>>, "") THEN Front(f) ELSE f

Bodies(f) == [k \in DOMAIN f |-> f[k].t]
Ended(f) == f # <<>> /\ Last(f).e # ""
Styles(f) == {f[k].e : k \in DOMAIN f} \ {""}
Style(f) == IF Cardinality(Styles(f)) = 1 THEN CHOOSE e \in Styles(f) : TRUE ELSE None

\* write_text_lossless: one style of line ending where the file had one, and its
\* final line ending, or none, restored.
Stripped(f) ==
  LET full == {k \in DOMAIN f : f[k].t # <<>>}
  IN IF full = {} THEN <<>>
     ELSE [SubSeq(f, 1, Max(full)) EXCEPT ![Max(full)].e = ""]
Written(f, style, final) ==
  LET e(l) == IF l.e = "" \/ style = None THEN l.e ELSE style
      g == [k \in DOMAIN f |-> Line(f[k].t, e(f[k]))]
      newline == IF style # None THEN style ELSE IF Style(g) = "crlf" THEN "crlf" ELSE "lf"
  IN IF final THEN (IF Ended(g) THEN g
                    ELSE IF g = <<>> THEN <<Line(<<>>, newline)>>
                    ELSE [g EXCEPT ![Len(g)].e = newline])
     ELSE Stripped(g)

\* The logical lines joined by line feeds.
FromLines(texts) == Joined([k \in DOMAIN texts |-> Line(texts[k], IF k < Len(texts) THEN "lf" ELSE "")])

\* edit_lines: lines first..last, or an insertion before first if last = first - 1.
InRange(f, first, last) ==
  /\ first >= 1
  /\ IF first = last + 1 THEN first <= Len(f) + 1 ELSE first <= last /\ last <= Len(f)
EditedLines(f, first, last, new) ==
  LET after == SubSeq(Bodies(f), 1, first - 1) \o new \o SubSeq(Bodies(f), last + 1, Len(f))
  IN Written(FromLines(after), Style(f), Ended(f) /\ after # <<>>)

\* replace_text: the first occurrence of an atom.
ReplacedText(f, old, new) ==
  LET k == Min({i \in DOMAIN f : old \in Range(f[i].t)})
      j == Min({i \in DOMAIN f[k].t : f[k].t[i] = old})
      t == SubSeq(f[k].t, 1, j - 1) \o new \o SubSeq(f[k].t, j + 1, Len(f[k].t))
  IN Written(Joined([f EXCEPT ![k].t = t]), Style(f), Ended(f))

-----------------------------------------------------------------------------
(* Patches *)

Expected(hunk) == [k \in DOMAIN SelectSeq(hunk, LAMBDA l : l.k # "+") |-> SelectSeq(hunk, LAMBDA l : l.k # "+")[k].t]

\* _find_subsequence: the first place at or after start (0 for none).
Found(bodies, target, start) ==
  LET at == {k \in start..(Len(bodies) - Len(target) + 1) : SubSeq(bodies, k, k + Len(target) - 1) = target}
  IN IF target = <<>> THEN start ELSE IF at = {} THEN 0 ELSE Min(at)

AddedEnding(f) == LET ended == {k \in DOMAIN f : f[k].e # ""}
                  IN IF ended = {} THEN "lf" ELSE f[Min(ended)].e

\* What a hunk puts in the place of the lines it matched; a line of context keeps
\* its own ending.
Replacement(matched, hunk, e) ==
  LET Step(acc, l) == IF l.k = "+" THEN [acc EXCEPT !.out = Append(@, Line(l.t, e))]
                      ELSE [at |-> acc.at + 1,
                            out |-> IF l.k = "-" THEN acc.out ELSE Append(acc.out, matched[acc.at])]
  IN FoldLeft(Step, [at |-> 1, out |-> <<>>], hunk).out

\* Hunks are looked for after the previous one, then from the top.
ApplyHunk(e, acc, hunk) ==
  LET want == Expected(hunk)
      near == Found(Bodies(acc.f), want, acc.at)
      at == IF near = 0 /\ acc.at > 1 THEN Found(Bodies(acc.f), want, 1) ELSE near
      out == Replacement(SubSeq(acc.f, at, at + Len(want) - 1), hunk, e)
  IN IF ~acc.ok \/ at = 0 THEN [acc EXCEPT !.ok = FALSE]
     ELSE [ok |-> TRUE, at |-> at + Len(out),
           f |-> SubSeq(acc.f, 1, at - 1) \o out \o SubSeq(acc.f, at + Len(want), Len(acc.f))]
ApplyHunks(f, hunks) ==
  LET end == FoldLeft(LAMBDA acc, h : ApplyHunk(AddedEnding(f), acc, h), [ok |-> TRUE, at |-> 1, f |-> f], hunks)
  IN [ok |-> end.ok, f |-> Joined(end.f)]

Content(lines) == Joined([k \in DOMAIN lines |-> Line(lines[k], "lf")])

\* The operations a patch is made of.
IsOperation(op) ==
  /\ op.k \in {"add", "delete", "update"} /\ op.path \in Paths
  /\ op.k = "update" => op.moveTo \in Paths \cup {None}
IsPatch(ops) == ops \in Seq(Range(ops)) /\ \A i \in DOMAIN ops : IsOperation(ops[i])

\* _apply_ops stages every operation before it writes: what a path will hold is
\* what an earlier operation of the patch left it, or what is on the disk.
NoPending == [ok |-> TRUE, order |-> <<>>, text |-> <<>>]
Sees(acc, p) == IF p \in Range(acc.order) THEN acc.text[p] ELSE disk[p]
Put(acc, p, text) ==
  [acc EXCEPT !.text = [q \in {p} \cup DOMAIN @ |-> IF q = p THEN text ELSE @[q]],
              !.order = IF p \in Range(@) THEN @ ELSE Append(@, p)]
Refuse(acc) == [acc EXCEPT !.ok = FALSE]

StageAdd(acc, op) ==
  IF Sees(acc, op.path) # None THEN Refuse(acc) ELSE Put(acc, op.path, Content(op.lines))
StageDelete(acc, op) ==
  IF Sees(acc, op.path) = None THEN Refuse(acc) ELSE Put(acc, op.path, None)
StageUpdate(acc, op) ==
  LET text == Sees(acc, op.path)
      new == ApplyHunks(text, op.hunks)
  IN IF text = None THEN Refuse(acc)
     ELSE IF ~new.ok THEN Refuse(acc)
     ELSE IF op.moveTo = None THEN Put(acc, op.path, new.f)
     ELSE IF op.moveTo # op.path /\ Sees(acc, op.moveTo) # None THEN Refuse(acc)
     ELSE Put(Put(acc, op.path, None), op.moveTo, new.f)
Stage(acc, op) ==
  IF ~acc.ok THEN acc
  ELSE CASE op.k = "add" -> StageAdd(acc, op)
         [] op.k = "delete" -> StageDelete(acc, op)
         [] op.k = "update" -> StageUpdate(acc, op)

\* Variant: an operation is checked against the disk only.
StagedAgainstDisk(ops) ==
  LET Step(acc, op) ==
        LET one == Stage(IF acc.ok THEN NoPending ELSE acc, op) IN
        [ok |-> one.ok, order |-> acc.order \o SelectSeq(one.order, LAMBDA p : p \notin Range(acc.order)),
         text |-> [p \in DOMAIN acc.text \cup DOMAIN one.text |->
                     IF p \in DOMAIN one.text THEN one.text[p] ELSE acc.text[p]]]
  IN FoldLeft(Step, NoPending, ops)

Staged(ops) ==
  LET staged[k \in 0..Len(ops)] == IF k = 0 THEN NoPending ELSE Stage(staged[k - 1], ops[k])
  IN staged[Len(ops)]

-----------------------------------------------------------------------------
(* The script *)

Init ==
  /\ disk \in [Paths -> Files \cup {None}]
  /\ doing = "idle" /\ patch = <<>> /\ base = None /\ todo = <<>>
  /\ outcome = "none" /\ snap = None /\ edits = 0

Idle == doing = "idle" /\ edits < MaxEdits
Ends(how) == outcome' = how /\ edits' = edits + 1
PatchEnds(how) == doing' = "idle" /\ patch' = <<>> /\ base' = None /\ todo' = <<>> /\ Ends(how)

ApplyPatch(ops) ==
  /\ Idle
  /\ doing' = "checking" /\ patch' = ops /\ base' = disk
  /\ outcome' = "none" /\ UNCHANGED <<disk, todo, snap, edits>>

\* A patch that does not fit is refused before anything is written; with dry_run
\* nothing is written of any other either.
CheckPatch ==
  /\ doing = "checking"
  /\ LET end == Staged(patch) IN
       IF end.ok
         THEN \/ /\ doing' = "patching" /\ UNCHANGED <<patch, base, outcome, edits>>
                 /\ todo' = [k \in DOMAIN end.order |-> [path |-> end.order[k], text |-> end.text[end.order[k]]]]
              \/ PatchEnds("fits")
         ELSE PatchEnds("refused")
  /\ UNCHANGED <<disk, snap>>

WritePath ==
  /\ doing = "patching" /\ todo # <<>>
  /\ disk' = [disk EXCEPT ![Head(todo).path] = Head(todo).text]
  /\ todo' = Tail(todo)
  /\ UNCHANGED <<doing, patch, base, outcome, snap, edits>>

\* A path cannot be written: what was written before it stays, and the file itself
\* may be left empty, since it is opened for writing in place.
WriteFails ==
  /\ doing = "patching" /\ todo # <<>>
  /\ disk' \in {disk} \cup (IF Head(todo).text = None THEN {} ELSE {[disk EXCEPT ![Head(todo).path] = <<>>]})
  /\ PatchEnds("failed") /\ UNCHANGED snap

Patched ==
  /\ doing = "patching" /\ todo = <<>>
  /\ PatchEnds("applied") /\ UNCHANGED <<disk, snap>>

\* edit_lines and replace_text write a temporary file and rename it: a failing
\* write leaves the file as it was.
Edited(p, new) ==
  /\ \/ disk' = [disk EXCEPT ![p] = new] /\ Ends("edited")
     \/ UNCHANGED disk /\ Ends("failed")
  /\ UNCHANGED <<doing, patch, base, todo, snap>>
EditLines(p, first, last, new) ==
  /\ Idle /\ disk[p] # None
  /\ InRange(disk[p], first, last)
  /\ Edited(p, EditedLines(disk[p], first, last, new))
ReplaceText(p, old, new) ==
  /\ Idle /\ disk[p] # None
  /\ \E k \in DOMAIN disk[p] : old \in Range(disk[p][k].t)
  /\ Edited(p, ReplacedText(disk[p], old, new))

\* rt.transaction: files are captured by name, missing ones too; a directory
\* captures the files that are in it now.  (Bound: one begins before the first
\* edit.)
Capture(named) == [p \in {q \in Paths : named \/ disk[q] # None} |-> disk[p]]
Begin(named) ==
  /\ doing = "idle" /\ snap = None /\ edits = 0
  /\ snap' = Capture(named)
  /\ UNCHANGED <<disk, doing, patch, base, todo, outcome, edits>>
Commit ==
  /\ doing = "idle" /\ snap # None
  /\ snap' = None /\ outcome' = "committed"
  /\ UNCHANGED <<disk, doing, patch, base, todo, edits>>

\* restore_snapshot: each captured path gets its bytes again, or is removed.
Restore(paths) == [k \in DOMAIN paths |-> [path |-> paths[k], text |-> snap[paths[k]]]]

\* The block raises, whatever the edits in it did.
Raise ==
  /\ doing = "idle" /\ snap # None
  /\ doing' = "restoring" /\ todo' = Restore(SetToSeq(DOMAIN snap))
  /\ UNCHANGED <<disk, patch, base, outcome, snap, edits>>
RestorePath ==
  /\ doing = "restoring" /\ todo # <<>>
  /\ disk' = [disk EXCEPT ![Head(todo).path] = Head(todo).text]
  /\ todo' = Tail(todo)
  /\ UNCHANGED <<doing, patch, base, outcome, snap, edits>>
Restored ==
  /\ doing = "restoring" /\ todo = <<>>
  /\ doing' = "idle" /\ snap' = None /\ outcome' = "restored"
  /\ UNCHANGED <<disk, patch, base, todo, edits>>

Next ==
  \/ \E ops \in Patches : ApplyPatch(ops)
  \/ CheckPatch \/ WritePath \/ WriteFails \/ Patched
  \/ \E p \in Paths, first \in 1..3, last \in 0..2, new \in {<<>>} \cup {<<t>> : t \in Texts} :
       EditLines(p, first, last, new)
  \/ \E p \in Paths, old \in UNION {Range(t) : t \in Texts}, new \in Texts : ReplaceText(p, old, new)
  \/ (\E named \in BOOLEAN : Begin(named)) \/ Commit \/ Raise \/ RestorePath \/ Restored

Spec == Init /\ [][Next]_vars

-----------------------------------------------------------------------------
(* Properties *)

\* The operations of a patch done one after the other on the disk d, as long as
\* each can be.
Undone(e) == [e EXCEPT !.done = FALSE]
DoAdd(e, op) ==
  IF e.disk[op.path] # None THEN Undone(e) ELSE [e EXCEPT !.disk[op.path] = Content(op.lines)]
DoDelete(e, op) ==
  IF e.disk[op.path] = None THEN Undone(e) ELSE [e EXCEPT !.disk[op.path] = None]
DoUpdate(e, op) ==
  LET to == IF op.moveTo = None THEN op.path ELSE op.moveTo
      new == ApplyHunks(e.disk[op.path], op.hunks)
  IN IF e.disk[op.path] = None \/ (to # op.path /\ e.disk[to] # None) THEN Undone(e)
     ELSE IF ~new.ok THEN Undone(e)
     ELSE [e EXCEPT !.disk = [@ EXCEPT ![op.path] = None, ![to] = new.f]]
Do(e, op) ==
  IF ~e.done THEN e
  ELSE CASE op.k = "add" -> DoAdd(e, op)
         [] op.k = "delete" -> DoDelete(e, op)
         [] op.k = "update" -> DoUpdate(e, op)
OneByOne(d, ops) ==
  LET after[k \in 0..Len(ops)] == IF k = 0 THEN [done |-> TRUE, disk |-> d] ELSE Do(after[k - 1], ops[k])
  IN after[Len(ops)]

\* A patch is all or nothing as long as the disk can be written
\* (test_runtime_apply_patch_helper_returns_failure_without_writing): one that is
\* refused left the disk alone and could not have been done operation by
\* operation; one that is applied left what its operations, one after the other,
\* would have left, whatever they do to each other's files.
PatchIsItsOperations ==
  LET end == OneByOne(base, patch) IN
  patch # <<>> /\ patch' = <<>> =>
    \/ outcome' = "applied" /\ end.done /\ disk' = end.disk
    \/ outcome' = "refused" /\ ~end.done /\ disk' = base
    \/ outcome' = "fits" /\ end.done /\ disk' = base
    \/ outcome' = "failed"

\* A transaction that fails puts every path it captured back, whatever the edits,
\* the patches and the failed writes in it did.
CapturedIsRestored ==
  doing = "restoring" /\ doing' # "restoring" => \A p \in DOMAIN snap : disk'[p] = snap[p]

\* The invariant that gives both: the writes that are left bring the paths S of the
\* disk d to what the target holds.
Brings(writes, d, target, S) ==
  /\ writes \in Seq(Range(writes))
  /\ \A k \in DOMAIN writes : writes[k].path \in S /\ writes[k].text = target[writes[k].path]
  /\ \A p \in S : d[p] = target[p] \/ \E k \in DOMAIN writes : writes[k].path = p
IsDisk(d) == d = [p \in Paths |-> d[p]]
PatchInv ==
  /\ doing \in {"idle", "restoring"} => patch = <<>>
  /\ doing = "checking" => patch \in Patches /\ base = disk
  /\ doing = "patching" =>
       LET end == OneByOne(base, patch) IN
       end.done /\ IsDisk(end.disk) /\ Brings(todo, disk, end.disk, Paths)
SnapInv ==
  /\ snap # None => DOMAIN snap \subseteq Paths
  /\ doing = "restoring" => snap # None /\ Brings(todo, disk, snap, DOMAIN snap)
Inv ==
  /\ doing \in {"idle", "checking", "patching", "restoring"} /\ IsDisk(disk)
  /\ PatchInv /\ SnapInv

\* Both, of every step.
EditsAreWhole == [][PatchIsItsOperations /\ CapturedIsRestored]_vars

=============================================================================
