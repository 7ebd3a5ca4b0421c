------------------------------ MODULE Scheduler ------------------------------
(***************************************************************************)
(* Schedules and their runs (builtin/scheduler/service.py) in the daemon.  *)
(* The plugin is loaded by the daemon alone, and Daemon says when there is *)
(* one: here one process serves at a time, is stopped or dies, and is      *)
(* started again.  A poll runs on the event loop, where nothing interrupts *)
(* it but the end of the process; every statement it sends is a            *)
(* transaction of its own, between which scripts change the same rows      *)
(* through the RPC threads.                                                *)
(***************************************************************************)
EXTENDS Naturals, Sequences, FiniteSets

CONSTANTS
    Schedule,   \* schedules, made before the daemon starts
    Kind,       \* Kind[s] \in {"once", "interval", "cron"}
    Policy,     \* overlap policy: Policy[s] \in {"skip", "allow", "queue", "replace"}
    MaxJobs,    \* max_concurrent_jobs
    MaxRuns,    \* bound: rows of schedule_runs
    MaxTicks,   \* bound: times a schedule comes due
    MaxEdits,   \* bound: calls of update and delete
    MaxStarts   \* bound: times the daemon starts

VARIABLES
    host,       \* the daemon: "down", "up" or "stopping"
    starts,
    table,      \* rows of schedules
    runs,       \* rows of schedule_runs
    poll,       \* the rows the poll still has in hand, as it read them
    jobs,       \* _running_tasks, and the calls of run_now: [s, pc, run, manual]
    edit,       \* the row an update read and will write
    ticks, edits,
    fired,      \* ghost: tasks that were started for a schedule since it was last set
    crowded     \* ghost: a poll looked for runs while a task of the schedule had no row yet

vars == <<host, starts, table, runs, poll, jobs, edit, ticks, edits, fired, crowded>>

Idle == [pc |-> "idle", rows |-> <<>>, running |-> {}]
NoSchedule == "null"
NoEdit == [s |-> NoSchedule, row |-> <<>>]

Init ==
    /\ host = "down" /\ starts = 0
    /\ table = [s \in Schedule |-> [there |-> TRUE, enabled |-> TRUE, next |-> "later"]]
    /\ runs = <<>>
    /\ poll = Idle
    /\ jobs = {}
    /\ edit = NoEdit
    /\ ticks = 0 /\ edits = 0
    /\ fired = [s \in Schedule |-> 0]
    /\ crowded = FALSE

Due(s) == table[s].there /\ table[s].enabled /\ table[s].next = "due"
Running(s) == {r \in DOMAIN runs : runs[r].s = s /\ runs[r].status = "running"}

----------------------------------------------------------------------------
(* Time, and what the users of the schedules do. *)

Tick(s) ==
    /\ ticks < MaxTicks /\ table[s].there /\ table[s].next = "later"
    /\ table' = [table EXCEPT ![s].next = "due"]
    /\ ticks' = ticks + 1
    /\ UNCHANGED <<host, starts, runs, poll, jobs, edit, edits, fired, crowded>>

\* update: the row is read, changed and written back whole.
UpdateRead(s) ==
    /\ edit = NoEdit /\ edits < MaxEdits /\ table[s].there
    /\ edit' = [s |-> s, row |-> table[s]]
    /\ edits' = edits + 1
    /\ UNCHANGED <<host, starts, table, runs, poll, jobs, ticks, fired, crowded>>
UpdateWrite(change) ==
    LET s == edit.s
        row == CASE change = "pause" -> [edit.row EXCEPT !.enabled = FALSE]
                 [] change = "resume" -> [edit.row EXCEPT !.enabled = TRUE]
                 [] change = "timing" -> [edit.row EXCEPT !.next = "later"]
                 [] change = "text" -> edit.row
    IN /\ edit # NoEdit
       /\ table' = IF table[s].there THEN [table EXCEPT ![s] = row] ELSE table
       /\ edit' = NoEdit
       /\ fired' = IF change = "timing" \/ table[s] # edit.row \/ change = "resume"
                   THEN [fired EXCEPT ![s] = 0] ELSE fired
       /\ UNCHANGED <<host, starts, runs, poll, jobs, ticks, edits, crowded>>

\* delete; the runs of the schedule stay, with their schedule_id set to NULL.
Delete(s) ==
    /\ table[s].there /\ edits < MaxEdits
    /\ table' = [table EXCEPT ![s].there = FALSE]
    /\ runs' = [r \in DOMAIN runs |-> IF runs[r].s = s THEN [runs[r] EXCEPT !.s = NoSchedule] ELSE runs[r]]
    /\ edits' = edits + 1
    /\ UNCHANGED <<host, starts, poll, jobs, edit, ticks, fired, crowded>>

----------------------------------------------------------------------------
(* run_due_once *)

\* The scheduler of a process is started with its plugins and stopped when the
\* engine closes.  A poll takes as many of the rows that are due as may run at
\* a time.
PollRead ==
    /\ host = "up" /\ poll.pc = "idle"
    /\ \E n \in 1..MaxJobs : \E rows \in [1..n -> {s \in Schedule : Due(s)}] :
          /\ \A i, j \in 1..n : rows[i] = rows[j] => i = j
          /\ n < MaxJobs => \A s \in Schedule : Due(s) => \E i \in 1..n : rows[i] = s
          /\ poll' = [pc |-> "look", rows |-> [i \in 1..n |-> [s |-> rows[i], row |-> table[rows[i]]]],
                      running |-> {}]
    /\ UNCHANGED <<host, starts, table, runs, jobs, edit, ticks, edits, fired, crowded>>

Current == Head(poll.rows)

Waits(s) == \E j \in jobs : j.s = s /\ j.pc = "queued"

\* _handle_overlap: what runs is what has a row that says so.
Overlap(s) ==
    CASE Running(s) = {} \/ Policy[s] = "allow" -> "start"
      [] Running(s) # {} /\ Policy[s] = "replace" -> "replace"
      [] OTHER -> "skip"
OverlapLook ==
    /\ poll.pc = "look"
    /\ poll' = [pc |-> Overlap(Current.s), rows |-> poll.rows, running |-> Running(Current.s)]
    /\ crowded' = (crowded \/ Waits(Current.s))
    /\ UNCHANGED <<host, starts, table, runs, jobs, edit, ticks, edits, fired>>
OverlapReplace ==
    /\ poll.pc = "replace"
    /\ runs' = [r \in DOMAIN runs |-> IF r \in poll.running THEN [runs[r] EXCEPT !.status = "cancelled"] ELSE runs[r]]
    /\ poll' = [poll EXCEPT !.pc = "start"]
    /\ UNCHANGED <<host, starts, table, jobs, edit, ticks, edits, fired, crowded>>

PollOn == IF Len(poll.rows) = 1 THEN Idle
          ELSE [pc |-> "look", rows |-> Tail(poll.rows), running |-> {}]
NextRow(s, row) ==
    IF Kind[s] = "once" THEN [table[s] EXCEPT !.next = "none", !.enabled = FALSE]
    ELSE [table[s] EXCEPT !.next = "later", !.enabled = row.enabled]
Task(s) == [s |-> s, pc |-> "queued", run |-> 0, manual |-> FALSE]
Begun ==
    LET s == Current.s IN
    /\ jobs' = IF poll.pc = "start" THEN jobs \cup {Task(s)} ELSE jobs
    /\ fired' = IF poll.pc = "start" THEN [fired EXCEPT ![s] = @ + 1] ELSE fired

\* Variant: what is started is advanced by the next poll that finds it running.
AdvanceSkipped ==
    /\ poll.pc \in {"start", "skip"}
    /\ table' = IF poll.pc = "start" THEN table
                ELSE [table EXCEPT ![Current.s] = NextRow(Current.s, Current.row)]
    /\ Begun
    /\ poll' = PollOn
    /\ UNCHANGED <<host, starts, runs, edit, ticks, edits, crowded>>

\* _advance_schedule, then create_task: no other code of this process runs in
\* between; a process that ends before the task has its row has advanced for
\* nothing.
Advance ==
    /\ poll.pc \in {"start", "skip"}
    /\ table' = [table EXCEPT ![Current.s] = NextRow(Current.s, Current.row)]
    /\ Begun
    /\ poll' = PollOn
    /\ UNCHANGED <<host, starts, runs, edit, ticks, edits, crowded>>

\* A cron expression without a time in the coming year raises: the poll ends,
\* and the rows after it wait for the next one, where it is first again.
AdvanceRaises ==
    /\ poll.pc \in {"start", "skip"} /\ Kind[Current.s] = "cron"
    /\ poll' = Idle
    /\ UNCHANGED <<host, starts, table, runs, jobs, edit, ticks, edits, fired, crowded>>

----------------------------------------------------------------------------
(* _run_with_semaphore and _run_schedule *)

\* Tasks run on the event loop, between polls; run_now runs in RPC threads.
CanRun(j) == host # "down" /\ (j.manual \/ poll.pc = "idle")
Acting == {j \in jobs : j.pc = "acting" /\ ~j.manual}

\* A job with the row that _insert_run adds for it.
Begin(others, s, manual) ==
    /\ runs' = Append(runs, [s |-> s, status |-> "running"])
    /\ jobs' = others \cup {[s |-> s, pc |-> "acting", run |-> Len(runs) + 1, manual |-> manual]}

\* A task that got the semaphore inserts its row; the row of a schedule that
\* was deleted meanwhile violates the foreign key, and the task ends.
Enter(j) ==
    /\ CanRun(j) /\ Len(runs) < MaxRuns
    /\ j.pc = "queued" /\ Cardinality(Acting) < MaxJobs
    /\ IF table[j.s].there
       THEN Begin(jobs \ {j}, j.s, FALSE)
       ELSE /\ jobs' = jobs \ {j}
            /\ UNCHANGED runs
    /\ UNCHANGED <<host, starts, table, poll, edit, ticks, edits, fired, crowded>>

\* run_now: no semaphore and no overlap policy.
RunNow(s) ==
    /\ host # "down" /\ Len(runs) < MaxRuns /\ table[s].there
    /\ Begin(jobs, s, TRUE)
    /\ UNCHANGED <<host, starts, table, poll, edit, ticks, edits, fired, crowded>>

\* The action returned or raised: the row is updated whatever it says by now.
Finish(j, status) ==
    /\ CanRun(j) /\ j.pc = "acting"
    /\ runs' = IF runs[j.run].status = "pruned" THEN runs ELSE [runs EXCEPT ![j.run].status = status]
    /\ jobs' = jobs \ {j}
    /\ UNCHANGED <<host, starts, table, poll, edit, ticks, edits, fired, crowded>>

\* prune_history deletes the rows of long ago, finished or not.  Nothing acts
\* for days (a bound).
Prune(r) ==
    /\ host # "down" /\ poll.pc = "idle"
    /\ runs[r].status # "pruned" /\ \A j \in jobs : j.run # r
    /\ runs' = [runs EXCEPT ![r].status = "pruned"]
    /\ UNCHANGED <<host, starts, table, poll, jobs, edit, ticks, edits, fired, crowded>>

----------------------------------------------------------------------------
(* The daemon. *)

Start ==
    /\ host = "down" /\ starts < MaxStarts
    /\ host' = "up" /\ starts' = starts + 1
    /\ UNCHANGED <<table, runs, poll, jobs, edit, ticks, edits, fired, crowded>>

\* SchedulerService.stop: no poll begins again and tasks are cancelled where
\* they are; the rows of those that act stay "running".
StopService ==
    /\ host = "up" /\ poll = Idle
    /\ host' = "stopping"
    /\ jobs' = {j \in jobs : j.manual}
    /\ UNCHANGED <<starts, table, runs, poll, edit, ticks, edits, fired, crowded>>

\* The process ends, or dies.
Exit ==
    /\ host # "down"
    /\ host' = "down"
    /\ jobs' = {} /\ poll' = Idle /\ edit' = NoEdit
    /\ UNCHANGED <<starts, table, runs, ticks, edits, fired, crowded>>

Poll ==
    \/ PollRead \/ OverlapLook \/ OverlapReplace \/ Advance \/ AdvanceRaises
    \/ \E r \in DOMAIN runs : Prune(r)

Job ==
    \/ \E j \in jobs : Enter(j) \/ \E status \in {"completed", "failed"} : Finish(j, status)
    \/ \E s \in Schedule : RunNow(s)

User ==
    \/ \E s \in Schedule : Tick(s) \/ UpdateRead(s) \/ Delete(s)
    \/ \E change \in {"pause", "resume", "timing", "text"} : UpdateWrite(change)

Next == Poll \/ Job \/ User \/ Start \/ StopService \/ Exit

Spec == Init /\ [][Next]_vars

----------------------------------------------------------------------------
(* Properties *)

Rows == [there : BOOLEAN, enabled : BOOLEAN, next : {"later", "due", "none"}]
RunRows == [s : Schedule \cup {NoSchedule}, status : {"running", "cancelled", "completed", "failed", "pruned"}]
PolledRows == [s : Schedule, row : Rows]
PollStates == [pc : {"idle", "look", "start", "skip", "replace"}, rows : Seq(PolledRows), running : SUBSET Nat]
Jobs ==
    {Task(s) : s \in Schedule}
    \cup [s : Schedule, pc : {"acting"}, run : Nat, manual : BOOLEAN]

TypeOK ==
    /\ table \in [Schedule -> Rows] /\ runs \in Seq(RunRows)
    /\ poll \in PollStates /\ (poll.pc # "idle" => poll.rows # <<>>)
    /\ jobs \subseteq Jobs
    /\ edit = NoEdit \/ edit \in [s : Schedule, row : Rows]
    /\ fired \in [Schedule -> Nat] /\ crowded \in BOOLEAN

Polled == {poll.rows[i].s : i \in DOMAIN poll.rows}

\* What was started once is neither due nor in the poll's hands any more.
PolledOnce == \A i, j \in DOMAIN poll.rows : poll.rows[i].s = poll.rows[j].s => i = j
FiredIsOver ==
    \A s \in Schedule : Kind[s] = "once" /\ fired[s] # 0 =>
        fired[s] = 1 /\ table[s].next = "none" /\ s \notin Polled

\* Each job that acts has a row of its own.
RowsOfJobs ==
    /\ \A j \in jobs : j.pc = "acting" => j.run \in DOMAIN runs
    /\ \A i, j \in jobs : i.pc = "acting" /\ j.pc = "acting" /\ i.run = j.run => i = j

\* A poll replaces the runs of the schedule it is at, if its policy says so.
ReplacesItsOwn ==
    poll.pc = "replace" =>
        /\ Policy[Current.s] = "replace"
        /\ \A r \in poll.running : r \in DOMAIN runs /\ runs[r].s \in {Current.s, NoSchedule}

\* For a schedule that is not to overlap, as long as it is there: a task that
\* acts has a row that says so, so that a poll which found none, and no task
\* that waits, starts the only one.
Single(s) == Policy[s] \in {"skip", "queue"}
Own(s) == {j \in jobs : j.s = s /\ ~j.manual}
RowSaysSo ==
    \A s \in Schedule : Single(s) /\ table[s].there =>
        \A j \in Own(s) : j.pc = "acting" => runs[j.run] = [s |-> s, status |-> "running"]
OneTask ==
    ~crowded =>
        \A s \in Schedule : Single(s) =>
            /\ table[s].there => \A i, j \in Own(s) : i = j
            /\ \A i, j \in Own(s) : i.pc = "acting" /\ j.pc = "acting" => i = j
            /\ table[s].there /\ poll.pc = "start" /\ Current.s = s => Own(s) = {}

Inv ==
    /\ TypeOK /\ PolledOnce /\ FiredIsOver /\ RowsOfJobs /\ ReplacesItsOwn /\ RowSaysSo /\ OneTask

\* A one-shot schedule runs once for every time it is set, although the poll
\* that starts it and the process that polls may end at any step, as long as
\* nobody edits the row meanwhile.
OnceOnly ==
    \A s \in Schedule : Kind[s] = "once" => fired[s] <= 1

\* Two tasks of a schedule whose policy is not to overlap never act at once,
\* across crashes and restarts, unless the second was due while the first
\* still waited for a permit and had no row to be seen by.
NoOverlap ==
    \A s \in Schedule : Policy[s] \in {"skip", "queue"} =>
        crowded \/ \A i, j \in Acting : i.s = s /\ j.s = s => i = j

\* Both at once: what a schedule asks for happens neither twice nor twice at a time.
RunsAsScheduled == OnceOnly /\ NoOverlap

=============================================================================
