------------------------------ MODULE CodeIndex ------------------------------
(***************************************************************************)
(* Code queries of scripts (uv_agent_runtime/codequery.py, codesearch.py): *)
(* the matches of a tree-sitter query are kept in a database that all the  *)
(* processes of a user share, per file and query, together with the        *)
(* modification time and size the file had.  The database has one row of   *)
(* times for a file and one row of matches for each query about it, read   *)
(* before the transaction that writes them, while files change and other   *)
(* processes commit.                                                       *)
(***************************************************************************)
EXTENDS Naturals

CONSTANTS
    Scripts,     \* processes
    Files,
    Queries,     \* query texts of one language
    MaxChanges,  \* bound: changes of files
    MaxSearches, \* bound: queries in all
    None

VARIABLES
    source,      \* the content of each file: the number of its last change, None if it is absent
    changes,
    fileRows,    \* table files: the time and size of each file, as the change they show
    captureRows, \* table captures: for each query and file the content it was parsed from
    finder,      \* _FINDER_CACHE of each process: the files its index has, or None
    search,      \* the query each process is at
    writer,      \* the process whose transaction holds the database, or None
    searches

cvars == <<source, changes, fileRows, captureRows, finder, search, writer, searches>>

NoRows == [f \in Files |-> None]
NoSearch == [pc |-> "idle", query |-> None, todo |-> {}, began |-> 0, seen |-> NoRows, cached |-> NoRows,
             file |-> None, stat |-> None, parsed |-> None, writes |-> NoRows, answer |-> NoRows,
             crossed |-> FALSE]  \* ghost: another process committed between its two reads
Present == {f \in Files : source[f] # None}

Init ==
    /\ \E there \in SUBSET Files : source = [f \in Files |-> IF f \in there THEN 0 ELSE None]
    /\ changes = 0
    /\ fileRows = NoRows /\ captureRows = [q \in Queries |-> NoRows]
    /\ finder = [p \in Scripts |-> None]
    /\ search = [p \in Scripts |-> NoSearch]
    /\ writer = None /\ searches = 0

\* Editors, scripts and git change files at any time.
Change(f) ==
    /\ changes < MaxChanges /\ changes' = changes + 1
    /\ \/ source' = [source EXCEPT ![f] = changes + 1]
       \/ source[f] # None /\ source' = [source EXCEPT ![f] = None]
    /\ UNCHANGED <<fileRows, captureRows, finder, search, writer, searches>>

At(p, pc) == search[p].pc = pc
Moves(p, s) == search' = [search EXCEPT ![p] = s]

\* _candidate_files: the index of the files is made by the first search of a
\* process and not refreshed.
CandidateFiles(p, q) ==
    /\ At(p, "idle") /\ searches < MaxSearches /\ searches' = searches + 1
    /\ LET found == IF finder[p] = None THEN Present ELSE finder[p]
       IN /\ finder' = [finder EXCEPT ![p] = found]
          /\ Moves(p, [NoSearch EXCEPT !.pc = "files", !.query = q, !.todo = found, !.began = changes])
    /\ UNCHANGED <<source, changes, fileRows, captureRows, writer>>

\* Two SELECTs, each of the rows that are committed by then.
ReadFileRows(p) ==
    /\ At(p, "files")
    /\ Moves(p, [search[p] EXCEPT !.pc = "captures", !.seen = fileRows])
    /\ UNCHANGED <<source, changes, fileRows, captureRows, finder, writer, searches>>
ReadCaptureRows(p) ==
    /\ At(p, "captures")
    /\ Moves(p, [search[p] EXCEPT !.pc = "refresh", !.cached = captureRows[search[p].query]])
    /\ UNCHANGED <<source, changes, fileRows, captureRows, finder, writer, searches>>

\* The file is looked at; its matches are taken from the table when its row
\* shows the same time and size and the query has been asked of it.
Stat(p, f) ==
    /\ At(p, "refresh") /\ f \in search[p].todo
    /\ LET s == [search[p] EXCEPT !.todo = @ \ {f}]
       IN Moves(p, IF source[f] = None THEN s
                   ELSE IF s.seen[f] = source[f] /\ s.cached[f] # None
                        THEN [s EXCEPT !.answer[f] = s.cached[f]]
                        ELSE [s EXCEPT !.pc = "parse", !.file = f, !.stat = source[f]])
    /\ UNCHANGED <<source, changes, fileRows, captureRows, finder, writer, searches>>

\* _captures_for_file; a file that is gone, unreadable or of an unknown
\* language is left out.
CapturesForFile(p) ==
    /\ At(p, "parse")
    /\ LET f == search[p].file
       IN \/ source[f] # None /\ Moves(p, [search[p] EXCEPT !.pc = "insert", !.parsed = source[f]])
          \/ Moves(p, [search[p] EXCEPT !.pc = "refresh", !.file = None, !.stat = None])
    /\ UNCHANGED <<source, changes, fileRows, captureRows, finder, writer, searches>>

\* Variant: the time and size that are stored are taken after the file was read.
InsertStatsAgain(p) ==
    /\ At(p, "insert") /\ writer \in {None, p}
    /\ writer' = p
    /\ LET s == search[p]
       IN Moves(p, [s EXCEPT !.pc = "refresh", !.file = None, !.stat = None, !.parsed = None,
                             !.writes[s.file] = <<source[s.file], s.parsed>>, !.answer[s.file] = s.parsed])
    /\ UNCHANGED <<source, changes, fileRows, captureRows, finder, searches>>

\* The first INSERT takes the database for the transaction.
Insert(p) ==
    /\ At(p, "insert") /\ writer \in {None, p}
    /\ writer' = p
    /\ LET s == search[p]
       IN Moves(p, [s EXCEPT !.pc = "refresh", !.file = None, !.stat = None, !.parsed = None,
                             !.writes[s.file] = <<s.stat, s.parsed>>, !.answer[s.file] = s.parsed])
    /\ UNCHANGED <<source, changes, fileRows, captureRows, finder, searches>>

Commit(p) ==
    /\ At(p, "refresh") /\ search[p].todo = {}
    /\ LET s == search[p]
       IN /\ fileRows' = [f \in Files |-> IF s.writes[f] = None THEN fileRows[f] ELSE s.writes[f][1]]
          /\ captureRows' = [captureRows EXCEPT ![s.query] =
                 [f \in Files |-> IF s.writes[f] = None THEN @[f] ELSE s.writes[f][2]]]
          /\ search' = [r \in Scripts |->
                 IF r = p THEN [NoSearch EXCEPT !.pc = "answered", !.query = s.query, !.began = s.began,
                                                !.answer = s.answer, !.crossed = s.crossed]
                 ELSE [search[r] EXCEPT !.crossed = @ \/ search[r].pc = "captures"]]
    /\ writer' = IF writer = p THEN None ELSE writer
    /\ UNCHANGED <<source, changes, finder, searches>>

\* The answer is used; the script goes on.
Answered(p) ==
    /\ At(p, "answered") /\ Moves(p, NoSearch)
    /\ UNCHANGED <<source, changes, fileRows, captureRows, finder, writer, searches>>

\* "database is locked" after 30 seconds, or the script ends: what the
\* transaction wrote is rolled back.
Raise(p) ==
    /\ At(p, "insert") /\ writer \notin {None, p}
    /\ Moves(p, NoSearch)
    /\ UNCHANGED <<source, changes, fileRows, captureRows, finder, writer, searches>>
EndScript(p) ==
    /\ finder[p] # None
    /\ Moves(p, NoSearch)
    /\ finder' = [finder EXCEPT ![p] = None]
    /\ writer' = IF writer = p THEN None ELSE writer
    /\ UNCHANGED <<source, changes, fileRows, captureRows, searches>>

ClearCache(p) ==
    /\ At(p, "idle") /\ writer = None /\ searches < MaxSearches
    /\ fileRows' = NoRows /\ captureRows' = [q \in Queries |-> NoRows]
    /\ searches' = searches + 1
    /\ UNCHANGED <<source, changes, finder, search, writer>>

Next ==
    \/ \E f \in Files : Change(f)
    \/ \E p \in Scripts :
           \/ \E q \in Queries : CandidateFiles(p, q)
           \/ ReadFileRows(p) \/ ReadCaptureRows(p)
           \/ \E f \in Files : Stat(p, f)
           \/ CapturesForFile(p) \/ Insert(p) \/ Commit(p) \/ Answered(p) \/ Raise(p) \/ EndScript(p)
           \/ ClearCache(p)

Spec == Init /\ [][Next]_cvars

----------------------------------------------------------------------------
(* Properties *)

\* "Results are cached per file by (mtime_ns, size, query_sha) so repeated
\* queries only re-parse files that changed since the previous call."
\* (query_code): the matches of an answer are those of the file as it was when
\* the query was asked, or later; except when another process committed between
\* its two reads.  True while a file is asked about with one query; with two,
\* the second brings the row of the file up to date and the first then takes
\* its old matches for current.
AnswerIsCurrent ==
    \A p \in Scripts : At(p, "answered") /\ ~search[p].crossed =>
        \A f \in Files :
            search[p].answer[f] # None /\ source[f] # None /\ source[f] <= search[p].began =>
                search[p].answer[f] = source[f]

----------------------------------------------------------------------------
(* What every step keeps, which AnswerIsCurrent follows from *)

Versions == Nat \cup {None}
Searches ==
    [pc : {"idle", "files", "captures", "refresh", "parse", "insert", "answered"}, query : Queries \cup {None},
     todo : SUBSET Files, began : Nat, seen : [Files -> Versions], cached : [Files -> Versions],
     file : Files \cup {None}, stat : Versions, parsed : Versions, writes : [Files -> (Nat \X Nat) \cup {None}],
     answer : [Files -> Versions], crossed : BOOLEAN]

TypeOK ==
    /\ source \in [Files -> Versions] /\ changes \in Nat
    /\ fileRows \in [Files -> Versions] /\ captureRows \in [Queries -> [Files -> Versions]]
    /\ finder \in [Scripts -> {None} \cup SUBSET Files]
    /\ search \in [Scripts -> Searches]

\* A change is numbered later than all that was noted of files, so that what
\* was noted of a file that changed never shows it again.
Past(v) == v = None \/ v <= changes
NotedInPast == \A f \in Files : Past(source[f]) /\ Past(fileRows[f])

\* Matches of v, under a row that shows t, are those of t while the file is.
Fits(f, t, v) == v # None /\ t # None /\ source[f] = t => v = t
RowsFit == \A f \in Files : \A q \in Queries : Fits(f, fileRows[f], captureRows[q][f])

\* Matches of v were taken since the query was asked.
Since(f, v, began) == source[f] # None /\ source[f] <= began => v = source[f]

\* What a query has in hand is noted,
HasNoted(s) ==
    /\ s.pc \in {"files", "captures", "refresh", "parse", "insert"} => s.query # None
    /\ s.pc \in {"parse", "insert"} => s.file # None /\ s.stat # None
    /\ s.pc = "insert" => s.parsed # None
    /\ s.began <= changes /\ Past(s.stat)
    /\ \A f \in Files : Past(s.seen[f]) /\ (s.writes[f] # None => Past(s.writes[f][1]))
\* the rows it read belong together, unless another process committed in between,
ReadTogether(s) ==
    s.crossed \/
    /\ s.pc = "captures" =>
          \A f \in Files : \A q \in Queries : captureRows[q][f] # None => s.seen[f] = fileRows[f]
    /\ s.pc \in {"refresh", "parse", "insert"} => \A f \in Files : Fits(f, s.seen[f], s.cached[f])
\* what it parsed was parsed after it looked at the file,
ParsedSince(s) ==
    /\ s.pc = "insert" => Fits(s.file, s.stat, s.parsed) /\ Since(s.file, s.parsed, s.began)
    /\ \A f \in Files : s.writes[f] # None => Fits(f, s.writes[f][1], s.writes[f][2])
\* and so is what it answers with.
AnsweredSince(s) ==
    s.crossed \/ \A f \in Files : s.answer[f] # None => Since(f, s.answer[f], s.began)
Sound(s) == HasNoted(s) /\ ReadTogether(s) /\ ParsedSince(s) /\ AnsweredSince(s)

Inv == TypeOK /\ NotedInPast /\ RowsFit /\ \A p \in Scripts : Sound(search[p])

=============================================================================
