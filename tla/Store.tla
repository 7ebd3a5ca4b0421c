------------------------------- MODULE Store --------------------------------
(***************************************************************************)
(* ThreadStore: events are appended to a thread and the thread's row of    *)
(* metadata is brought up to date.  SQLite makes the writes of one         *)
(* connection a transaction, but the row is read before the transaction    *)
(* begins, so a step of another connection may come between; the whole row *)
(* is written back.  A client is a connection: a process, or a thread of   *)
(* one.                                                                    *)
(***************************************************************************)
EXTENDS Naturals, Sequences, FiniteSets

CONSTANTS
    Clients,
    ThreadIds,          \* ids new_id hands out, in any order
    ExternalIds,        \* conversations of the outside world a plugin gives threads to
    MaxEvents           \* bound: events stored

VARIABLES
    rows,               \* thread -> its row, or NoRow
    events,             \* the table thread_events: event ids are positions
    doing,              \* client -> what it does, with what it read
    used,               \* thread ids given out
    crossed             \* threads written between another client's read and its write

storeVars == <<rows, events, doing, used, crossed>>

NoRow  == [last |-> 0, compaction |-> 0, external |-> "none", exists |-> FALSE]
NewRow == [NoRow EXCEPT !.exists = TRUE]
Idle   == [op |-> "idle"]
Types  == {"thread.created", "item.user", "item.compaction"}
Deleted == [thread |-> "none", type |-> "deleted"]

Init ==
    /\ rows = [t \in ThreadIds |-> NoRow]
    /\ events = <<>>
    /\ doing = [c \in Clients |-> Idle]
    /\ used = {}
    /\ crossed = {}

Does(c, what) == doing' = [doing EXCEPT ![c] = what]

(* Clients that have read the row of t and not written it yet.             *)
Reading(t) == {c \in Clients : doing[c].op \in {"append", "update"} /\ doing[c].thread = t}

-----------------------------------------------------------------------------
(* _write_event: read the row (or start a new one), then in a transaction  *)
(* insert the event and write the row with the event applied.              *)

ApplyMetadataEvent(row, id, type) ==
    [row EXCEPT !.last = id,
                !.compaction = IF type = "item.compaction" THEN id ELSE @]

ReadRow(t) == IF rows[t].exists THEN rows[t] ELSE NewRow

AppendRead(c, t, type) ==
    /\ doing[c] = Idle
    /\ t \in used
    /\ Len(events) + Cardinality({d \in Clients : doing[d].op = "append"}) < MaxEvents
    /\ Does(c, [op |-> "append", thread |-> t, type |-> type, row |-> ReadRow(t)])
    /\ UNCHANGED <<rows, events, used, crossed>>

WriteRow(c, t, row) ==
    /\ rows' = [rows EXCEPT ![t] = row]
    /\ crossed' = IF Reading(t) \ {c} # {} THEN crossed \cup {t} ELSE crossed

AppendWrite(c) ==
    LET a == doing[c]
    IN  /\ a.op = "append"
        /\ events' = Append(events, [thread |-> a.thread, type |-> a.type])
        /\ WriteRow(c, a.thread, ApplyMetadataEvent(a.row, Len(events) + 1, a.type))
        /\ Does(c, Idle)
        /\ UNCHANGED used

(* create_thread: the event thread.created of a thread nobody knows yet;   *)
(* get_or_create_external_thread creates one to tag it.                    *)
Create(c, t) ==
    /\ doing[c] = Idle
    /\ Len(events) < MaxEvents
    /\ t \notin used
    /\ used' = used \cup {t}
    /\ events' = Append(events, [thread |-> t, type |-> "thread.created"])
    /\ rows' = [rows EXCEPT ![t] = ApplyMetadataEvent(NewRow, Len(events) + 1, "thread.created")]
    /\ UNCHANGED crossed

CreateThread(c) == \E t \in ThreadIds : Create(c, t) /\ Does(c, Idle)

(* update_thread_metadata: the row is read and written back, with the      *)
(* columns the events keep (last event, compaction) as they were read.      *)
UpdateRead(c, t, x) ==
    /\ \/ doing[c] = Idle /\ x = "none"
       \/ doing[c] = [op |-> "tag", thread |-> t, external |-> x]
    /\ t \in used
    /\ Does(c, [op |-> "update", thread |-> t, row |-> ReadRow(t), external |-> x])
    /\ UNCHANGED <<rows, events, used, crossed>>

Tagged(u) == IF u.external = "none" THEN u.row ELSE [u.row EXCEPT !.external = u.external]

(* Variant: the update writes the pointer to the compaction as unset.      *)
UpdateWriteForgets(c) ==
    LET u == doing[c]
    IN  /\ u.op = "update"
        /\ WriteRow(c, u.thread, [Tagged(u) EXCEPT !.compaction = 0])
        /\ Does(c, Idle)
        /\ UNCHANGED <<events, used>>

UpdateWrite(c) ==
    LET u == doing[c]
    IN  /\ u.op = "update"
        /\ WriteRow(c, u.thread, Tagged(u))
        /\ Does(c, Idle)
        /\ UNCHANGED <<events, used>>

(* get_or_create_external_thread when the look-up finds no row with the    *)
(* tag: create, then tag.  Nothing keeps a second caller from the same.    *)
ExternalCreate(c, x) ==
    /\ \A t \in ThreadIds : rows[t].external # x
    /\ \E t \in ThreadIds :
        /\ Create(c, t)
        /\ Does(c, [op |-> "tag", thread |-> t, external |-> x])

(* delete_thread: the check that nobody holds the thread's lock (module    *)
(* ThreadLock), then the deletion of events and row in a transaction of    *)
(* another connection: turns may begin in between.                         *)
DeleteCheck(c, t) ==
    /\ doing[c] = Idle
    /\ rows[t].exists
    /\ Does(c, [op |-> "delete", thread |-> t])
    /\ UNCHANGED <<rows, events, used, crossed>>

DeleteRows(c) ==
    LET t == doing[c].thread
    IN  /\ doing[c].op = "delete"
        /\ events' = [i \in 1..Len(events) |-> IF events[i].thread = t THEN Deleted ELSE events[i]]
        /\ WriteRow(c, t, NoRow)
        /\ Does(c, Idle)
        /\ UNCHANGED used

Next ==
    \E c \in Clients :
        \/ CreateThread(c) \/ AppendWrite(c) \/ UpdateWrite(c) \/ DeleteRows(c)
        \/ \E t \in ThreadIds :
            \/ DeleteCheck(c, t)
            \/ \E type \in Types \ {"thread.created"} : AppendRead(c, t, type)
            \/ \E x \in ExternalIds \cup {"none"} : UpdateRead(c, t, x)
        \/ \E x \in ExternalIds : ExternalCreate(c, x)

Spec == Init /\ [][Next]_storeVars

-----------------------------------------------------------------------------
(* Reading: a terminal shows a thread segment by segment, backwards; a     *)
(* segment begins with a compaction or at the beginning.                   *)
OfThread(t) == {i \in DOMAIN events : events[i].thread = t}
Compactions(t) == {i \in OfThread(t) : events[i].type = "item.compaction"}

(* read_history_segment(before), before = 0 for the newest one, as the     *)
(* pair of its first id (inclusive) and its end (exclusive).               *)
Earlier(t, before) == {i \in Compactions(t) : i < before} \cup {0}
Segment(t, before) ==
    IF before = 0 THEN <<rows[t].compaction, rows[t].last + 1>>
    ELSE <<CHOOSE i \in Earlier(t, before) : \A j \in Earlier(t, before) : j <= i, before>>

SegmentEvents(t, s) == {i \in OfThread(t) : s[1] <= i /\ i < s[2]}
HasMore(t, start)   == start > 0 /\ \E i \in OfThread(t) : i < start

(* The segments read one after the other, as long as there are more: where *)
(* one begins the next one ends.                                           *)
ReadOn(t, starts) ==
    /\ Segment(t, 0)[1] \in starts
    /\ \A b \in starts : HasMore(t, b) => Segment(t, b)[1] \in starts
Starts(t) ==
    {b \in 0..Len(events) : \A starts \in SUBSET (0..Len(events)) : ReadOn(t, starts) => b \in starts}
Segments(t) == {Segment(t, b) : b \in {0} \cup {b \in Starts(t) : HasMore(t, b)}}

(* read_after_latest_compaction: what the engine replays.                  *)
AfterLatestCompaction(t) == {i \in OfThread(t) : i > rows[t].compaction}

(* Unless two clients wrote the row of a thread across each other, the     *)
(* segments shown of it are a partition of its events, and the engine      *)
(* replays exactly the events after its last compaction: nothing hidden,   *)
(* nothing twice, whatever other threads are written and deleted.          *)
HistoryIsWhole ==
    \A t \in ThreadIds \ crossed : rows[t].exists =>
        /\ UNION {SegmentEvents(t, s) : s \in Segments(t)} = OfThread(t)
        /\ \A s, z \in Segments(t) : s # z => SegmentEvents(t, s) \cap SegmentEvents(t, z) = {}
        /\ Compactions(t) \cap AfterLatestCompaction(t) = {}
        /\ rows[t].compaction \in Compactions(t) \cup {0}

-----------------------------------------------------------------------------
(* What every step keeps, which HistoryIsWhole follows from.               *)

Rows == [last : Nat, compaction : Nat, external : ExternalIds \cup {"none"}, exists : BOOLEAN]
EventRows == [thread : ThreadIds \cup {"none"}, type : Types \cup {"deleted"}]
Doings ==
    {Idle} \cup [op : {"append"}, thread : ThreadIds, type : Types, row : Rows]
    \cup [op : {"update"}, thread : ThreadIds, row : Rows, external : ExternalIds \cup {"none"}]
    \cup [op : {"tag"}, thread : ThreadIds, external : ExternalIds]
    \cup [op : {"delete"}, thread : ThreadIds]

TypeOK ==
    /\ rows \in [ThreadIds -> Rows] /\ events \in Seq(EventRows)
    /\ doing \in [Clients -> Doings]
    /\ used \in SUBSET ThreadIds /\ crossed \in SUBSET ThreadIds

(* A client is at work on threads that were given out.                     *)
UsedFirst ==
    /\ \A c \in Clients : doing[c].op # "idle" => doing[c].thread \in used
    /\ \A t \in ThreadIds \ used : rows[t] = NoRow /\ OfThread(t) = {}

(* The row of a thread nobody crossed tells of its events, and whoever has *)
(* read it still has what it says.                                         *)
Tells(t) ==
    /\ rows[t].last <= Len(events) /\ \A i \in OfThread(t) : i <= rows[t].last
    /\ rows[t].compaction \in Compactions(t) \cup {0} /\ \A i \in Compactions(t) : i <= rows[t].compaction
    /\ ~rows[t].exists => rows[t] = NoRow
RowTells == \A t \in ThreadIds \ crossed : Tells(t) /\ \A c \in Reading(t) : doing[c].row = ReadRow(t)

Inv == TypeOK /\ UsedFirst /\ RowTells
=============================================================================
