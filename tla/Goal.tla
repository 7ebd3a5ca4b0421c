-------------------------------- MODULE Goal --------------------------------
(***************************************************************************)
(* Goal mode (the builtin.goal plugin) and the way its state reaches the   *)
(* model.  The goal of a thread is stored in the plugin's own table; the   *)
(* model is told of it by three texts that pass through the broker: the    *)
(* helpers (epoch context, published again by the refresher), the notice   *)
(* "goal mode enabled" (turn context, replayed after a compaction) and the *)
(* removals.  history[t] is what the model can still read of them: what    *)
(* was sent since the thread's latest compaction.                          *)
(***************************************************************************)
EXTENDS Broker, Naturals

CONSTANTS
    Objectives,         \* texts a user may set as the objective
    Tasks,              \* ids of tasks
    MaxCommands,        \* bound: commands and helper calls
    MaxCompactions,     \* bound: compactions of a thread
    MaxRestarts         \* bound: ends of the process

VARIABLES
    broker,
    goal,               \* thread -> the state stored under the key "state"
    tasks,              \* thread -> the documents of the collection "tasks": id -> status
    index,              \* thread -> its index rows, pairs of a status and an id
    metadata,           \* thread -> what the terminal shows after resuming it
    full,               \* thread -> it has a full epoch context since its latest compaction
    turnStage,          \* thread -> "idle", "prepared", "sent"
    history,            \* thread -> tag -> "on", "off" or "unknown": the last word on it
    fresh,              \* thread -> nothing happened to it since its turn's context was prepared
    kept,               \* thread -> its goal was enabled by this process, and no command came
                        \* between the two halves of a turn's context since
    commands, compactions, restarts

goalVars == <<broker, goal, tasks, index, metadata, full, turnStage, history, fresh, kept,
              commands, compactions, restarts>>

Statuses == {"todo", "done"}
Untold   == [tag \in {"goal_helpers", "goal_mode"} |-> "unknown"]
NoGoal   == [enabled |-> FALSE, objective |-> "none"]

Helpers(op)       == Contribution("goal", "goal_helpers", "none", op)
ModeRemoved       == Contribution("goal", "goal_mode", "none", "remove")
Notice(objective) == Contribution("goal", "goal_mode", objective, "publish")
News              == Contribution("other", "news", "none", "publish")

Init ==
    /\ broker = EmptyBroker
    /\ goal = [t \in Threads |-> NoGoal]
    /\ tasks = [t \in Threads |-> <<>>]
    /\ index = [t \in Threads |-> {}]
    /\ metadata = [t \in Threads |-> NoGoal]
    /\ full = [t \in Threads |-> FALSE]
    /\ turnStage = [t \in Threads |-> "idle"]
    /\ history = [t \in Threads |-> Untold]
    /\ fresh = [t \in Threads |-> FALSE]
    /\ kept = [t \in Threads |-> FALSE]
    /\ commands = 0
    /\ compactions = [t \in Threads |-> 0]
    /\ restarts = 0

-----------------------------------------------------------------------------
(* Commands of the user (/goal ...) and helper calls of a script           *)
(* (rt.goal); both run on the engine's loop, so each is one step.          *)
Command(t, enabling) ==
    /\ commands < MaxCommands
    /\ commands' = commands + 1
    /\ fresh' = [fresh EXCEPT ![t] = FALSE]
    /\ kept' = [kept EXCEPT ![t] = turnStage[t] # "prepared" /\ (@ \/ enabling)]
    /\ UNCHANGED <<full, turnStage, history, compactions, restarts>>

\* The state is stored, and an event of the same content goes to the metadata.
Recorded(t, state) ==
    /\ goal' = [goal EXCEPT ![t] = state]
    /\ metadata' = [metadata EXCEPT ![t] = state]

Enable(t, objective) ==
    LET resolved == IF objective = "none" THEN goal[t].objective ELSE objective
        state    == [enabled |-> TRUE, objective |-> resolved]
    IN  /\ Command(t, TRUE)
        /\ Recorded(t, state)
        /\ broker' = EnqueueTurn(Notify(broker, t, Helpers("publish"), FALSE), t, Notice(resolved))
        /\ UNCHANGED <<tasks, index>>

RemoveNotices(b, t) == Notify(Notify(b, t, Helpers("remove"), FALSE), t, ModeRemoved, FALSE)

Disable(t) ==
    LET state == [goal[t] EXCEPT !.enabled = FALSE]
    IN  /\ Command(t, FALSE)
        /\ Recorded(t, state)
        /\ broker' = ClearReplay(RemoveNotices(broker, t), t)
        /\ UNCHANGED <<tasks, index>>

(* Reset empties the tasks as well; it does not clear the replay.          *)
Reset(t, objective) ==
    LET state == [enabled |-> FALSE, objective |-> objective]
    IN  /\ Command(t, FALSE)
        /\ Recorded(t, state)
        /\ tasks' = [tasks EXCEPT ![t] = <<>>]
        /\ index' = [index EXCEPT ![t] = {}]
        /\ broker' = RemoveNotices(broker, t)

(* The helper sets the stored objective only: the notice under the replay  *)
(* key and the thread's metadata keep the objective of the last enable.    *)
SetObjective(t, objective) ==
    /\ Command(t, FALSE)
    /\ goal' = [goal EXCEPT ![t].objective = objective]
    /\ UNCHANGED <<broker, tasks, index, metadata>>

(* PluginCollection.put: the document and its index rows, one transaction. *)
PutTask(t, id, status) ==
    /\ Command(t, FALSE)
    /\ tasks' = [tasks EXCEPT ![t] = [i \in DOMAIN @ \cup {id} |-> IF i = id THEN status ELSE @[i]]]
    /\ index' = [index EXCEPT ![t] = {row \in @ : row[2] # id} \cup {<<status, id>>}]
    /\ UNCHANGED <<broker, goal, metadata>>

AddTask(t, id) == id \notin DOMAIN tasks[t] /\ PutTask(t, id, "todo")

UpdateTask(t, id, status) == id \in DOMAIN tasks[t] /\ PutTask(t, id, status)

DeleteTask(t, id) ==
    /\ Command(t, FALSE)
    /\ tasks' = [tasks EXCEPT ![t] = [other \in DOMAIN @ \ {id} |-> @[other]]]
    /\ index' = [index EXCEPT ![t] = {row \in @ : row[2] # id}]
    /\ UNCHANGED <<broker, goal, metadata>>

ListTasks(t, status) == {row[2] : row \in {r \in index[t] : r[1] = status}}

(* Another plugin tells every thread something.                            *)
PublishNews ==
    /\ commands < MaxCommands
    /\ commands' = commands + 1
    /\ broker' = Notify(broker, All, News, FALSE)
    /\ UNCHANGED <<goal, tasks, index, metadata, full, turnStage, history, fresh, kept,
                   compactions, restarts>>

-----------------------------------------------------------------------------
(* The engine builds a turn's input.                                       *)

Hear(told, c) ==
    IF c.tag \in DOMAIN told
    THEN [told EXCEPT ![c.tag] = IF c.op = "remove" THEN "off" ELSE "on"]
    ELSE told

Heard(told, cs) == FoldLeft(Hear, told, cs)
HearAll(t, cs) == [history EXCEPT ![t] = Heard(@, cs)]

(* _refresh_goal_epoch, heard only when the plugin has nothing pending.    *)
Refreshed(b, t) ==
    IF goal[t].enabled
    THEN Notify(b, t, Helpers("publish"), "goal" \in PluginsWithPendingEpoch(b, t))
    ELSE b

(* Variant: what was to be replayed is forgotten.                          *)
AfterCompactionForgets(b, t) == ClearEpoch(b, t)

AfterCompaction(b, t) == ClearEpoch(ReplayAfterCompaction(b, t), t)

FullEpoch(t) ==
    LET prepared == IF compactions[t] > 0 THEN AfterCompaction(broker, t) ELSE broker
        ready    == Refreshed(prepared, t)
    IN  /\ ~full[t]
        /\ history' = HearAll(t, EpochTaken(ready, t))
        /\ broker' = ConsumeEpoch(ready, t)
        /\ full' = [full EXCEPT ![t] = TRUE]

EpochUpdate(t) ==
    /\ full[t]
    /\ history' = HearAll(t, UpdatesTaken(broker, t))
    /\ broker' = ConsumeUpdates(broker, t)
    /\ UNCHANGED full

(* _runtime_context_items: at the start of a turn and after a compaction in  *)
(* it.                                                                     *)
EpochItems(t) ==
    /\ turnStage[t] = "idle" \/ ~full[t]
    /\ FullEpoch(t) \/ EpochUpdate(t)
    /\ turnStage' = [turnStage EXCEPT ![t] = IF @ = "idle" THEN "prepared" ELSE @]
    /\ fresh' = [fresh EXCEPT ![t] = turnStage[t] # "sent"]
    /\ UNCHANGED <<goal, tasks, index, metadata, kept, commands, compactions, restarts>>

(* _append_agent_turn_context_items, just before the user's message.       *)
TurnItems(t) ==
    /\ turnStage[t] = "prepared"
    /\ full[t]
    /\ history' = HearAll(t, TurnTaken(broker, t))
    /\ broker' = ConsumeTurn(broker, t)
    /\ turnStage' = [turnStage EXCEPT ![t] = "sent"]
    /\ UNCHANGED <<goal, tasks, index, metadata, full, fresh, kept, commands, compactions,
                   restarts>>

EndTurn(t) ==
    /\ turnStage[t] = "sent"
    /\ turnStage' = [turnStage EXCEPT ![t] = "idle"]
    /\ fresh' = [fresh EXCEPT ![t] = FALSE]
    /\ UNCHANGED <<broker, goal, tasks, index, metadata, full, history, kept, commands,
                   compactions, restarts>>

(* A compaction, before or in the turn: the texts are no longer read.      *)
Compact(t) ==
    /\ compactions[t] < MaxCompactions
    /\ compactions' = [compactions EXCEPT ![t] = @ + 1]
    /\ full[t]
    /\ full' = [full EXCEPT ![t] = FALSE]
    /\ history' = [history EXCEPT ![t] = Untold]
    /\ fresh' = [fresh EXCEPT ![t] = FALSE]
    /\ UNCHANGED <<broker, goal, tasks, index, metadata, turnStage, kept, commands, restarts>>

(* The process ends: the broker lives in memory only.                      *)
Restart ==
    /\ restarts < MaxRestarts
    /\ restarts' = restarts + 1
    /\ broker' = EmptyBroker
    /\ turnStage' = [t \in Threads |-> "idle"]
    /\ fresh' = [t \in Threads |-> FALSE]
    /\ kept' = [t \in Threads |-> FALSE]
    /\ UNCHANGED <<goal, tasks, index, metadata, full, history, commands, compactions>>

Next ==
    \/ \E t \in Threads :
        \/ \E o \in Objectives : Enable(t, o) \/ Reset(t, o) \/ SetObjective(t, o)
        \/ Disable(t)
        \/ \E id \in Tasks : AddTask(t, id) \/ UpdateTask(t, id, "done") \/ DeleteTask(t, id)
        \/ EpochItems(t) \/ TurnItems(t) \/ EndTurn(t) \/ Compact(t)
    \/ PublishNews
    \/ Restart

Spec == Init /\ [][Next]_goalVars

-----------------------------------------------------------------------------
(* When a turn's context has been sent and nothing happened since, a goal  *)
(* enabled by this process is known to the model: the notice and the       *)
(* helpers were sent since the latest compaction, whichever commands and   *)
(* compactions came before (README: after compaction the model consults    *)
(* the goal plugin's state).                                               *)
GoalIsTold ==
    \A t \in Threads :
        turnStage[t] = "sent" /\ fresh[t] /\ kept[t] /\ goal[t].enabled =>
            \A tag \in DOMAIN Untold : history[t][tag] = "on"

(* A list of the tasks with a status, read from the index, is those tasks. *)
ListIsTheTasks ==
    \A t \in Threads : \A status \in Statuses :
        ListTasks(t, status) = {id \in DOMAIN tasks[t] : tasks[t][id] = status}

(* Both: what the model is told of the goal and what a script reads of it. *)
GoalIsKnown == GoalIsTold /\ ListIsTheTasks

=============================================================================
