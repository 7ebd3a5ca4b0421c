------------------------------- MODULE MCHost -------------------------------
(* Small services around the engine. *)
EXTENDS Host, Sequences

\* A one-shot schedule that replaces and a cron one that queues.
MCKind == [once |-> "once", often |-> "cron"]
MCPolicy == [once |-> "replace", often |-> "queue"]

\* Two messages.
MCMessage == <<"m1", "m2">>

\* Three plugins, one of which another needs.
MCDiscovered == <<"a", "b", "c">>
MCDependencies == [a |-> {"b"}, b |-> {}, c |-> {}]
MCPriority == [a |-> 2, b |-> 2, c |-> 1]
MCNamespace == [a |-> "m", b |-> "n", c |-> "m"]

\* Two contents, uploaded by the runs of two threads and one without.
MCOwner == [u1 |-> "ta", u2 |-> "tb", u3 |-> "nobody"]

\* Files of one or two lines, and patches of one or two operations.
X == <<"x">>
Y == <<"y">>
Blank == <<>>
MCTexts == {Y, Blank}
Line(text, end) == [t |-> text, e |-> end]
MCFiles == {<<Line(X, "lf")>>, <<Line(X, "crlf"), Line(Y, "")>>, <<Line(X, "lf"), Line(Blank, "lf")>>}
Change(kind, text) == [k |-> kind, t |-> text]
Hunks == {<<>>, <<<<Change(" ", X), Change("+", Y)>>>>, <<<<Change("-", X)>>, <<Change("+", X)>>>>}
Operations ==
    {[k |-> "add", path |-> p, lines |-> <<X>>] : p \in Paths}
    \cup {[k |-> "delete", path |-> p] : p \in Paths}
    \cup {u \in [k : {"update"}, path : Paths, hunks : Hunks, moveTo : Paths \cup {None}] :
             u.moveTo # u.path /\ (u.moveTo = None => u.hunks # <<>>)}
MCPatches == {<<o>> : o \in Operations} \cup (Operations \X Operations)

=============================================================================
