------------------------------ MODULE Plugins -------------------------------
(***************************************************************************)
(* PluginManager: discovery, the order in which plugins are set up, their  *)
(* state, the tasks and event handlers that run for them, and the stop.    *)
(* Everything runs on the engine's loop; a step ends where the code        *)
(* awaits.  A plugin's own code is a choice: it may register its           *)
(* namespace, subscribe, create a task, fail.                              *)
(***************************************************************************)
EXTENDS Naturals, Sequences, SequencesExt, FiniteSets

CONSTANTS
    Discovered,         \* the plugins in the order of their entry points
    Dependencies,       \* plugin -> the plugins its manifest names
    Priority,           \* plugin -> priority of its manifest
    Namespace,          \* plugin -> the namespace its setup registers
    MayBeDisabled,      \* plugins the configuration or the activation may leave out
    MaxTasks            \* bound: tasks a plugin creates

VARIABLES
    pstate,             \* plugin -> state of its record ("absent" before discovery)
    startTask,          \* "none", "starting", "done" or "raised": the task of start()
    toStart,            \* plugins of the load order not started yet
    settingUp,          \* the plugin whose setup runs, or NoPlugin
    loaded,             \* plugins in the table of first loads (survives restarts)
    namespaces,         \* namespace -> the plugin it belongs to, or NoPlugin
    subscribers,        \* plugins with a handler on the event bus
    handling,           \* plugins whose async handler runs
    ptasks,             \* plugin -> its tasks that run, as the manager knows them
    cancelled,          \* plugin -> those asked to cancel when it was stopped
    outlived,           \* plugin -> tasks that run although the manager forgot them
    created,            \* plugin -> tasks created so far
    toStop,             \* plugins not stopped yet, once stop() runs
    stopStage           \* "no", "next", "hook", "cancel", "drain", "stopped"

pluginVars == <<pstate, startTask, toStart, settingUp, loaded, namespaces, subscribers, handling,
                ptasks, cancelled, outlived, created, toStop, stopStage>>

NoPlugin == "no plugin"
Plugin   == ToSet(Discovered)
Slot     == 1..MaxTasks

Init ==
    /\ pstate = [p \in Plugin |-> "absent"]
    /\ startTask = "none"
    /\ toStart = <<>>
    /\ settingUp = NoPlugin
    /\ loaded \in SUBSET Plugin
    /\ namespaces = [n \in {Namespace[p] : p \in Plugin} |-> NoPlugin]
    /\ subscribers = {}
    /\ handling = {}
    /\ ptasks = [p \in Plugin |-> {}]
    /\ cancelled = [p \in Plugin |-> {}]
    /\ outlived = [p \in Plugin |-> {}]
    /\ created = [p \in Plugin |-> 0]
    /\ toStop = <<>>
    /\ stopStage = "no"

-----------------------------------------------------------------------------
(* Start.                                                                  *)

(* _load_order: by priority, then id (the order of discovery); a pass      *)
(* takes every plugin whose dependencies were taken, until a pass takes    *)
(* none: the rest follows as it is.                                        *)
Sorted(S) ==
    SetToSortSeq(S, LAMBDA p, q :
        \/ Priority[p] < Priority[q]
        \/ Priority[p] = Priority[q] /\ SelectInSeq(Discovered, LAMBDA x : x = p)
                                          < SelectInSeq(Discovered, LAMBDA x : x = q))

Take(resolved, p) ==
    IF p \notin ToSet(resolved) /\ Dependencies[p] \subseteq ToSet(resolved)
    THEN Append(resolved, p) ELSE resolved

LoadOrder(S) ==
    LET pass(resolved)  == FoldLeft(Take, resolved, Sorted(S))
        passes          == FoldLeft(LAMBDA resolved, p : pass(resolved), <<>>, Sorted(S))
    IN  passes \o SelectSeq(Sorted(S), LAMBDA p : p \notin ToSet(passes))

(* start(): _started is set first; then discovery, whose table of first    *)
(* loads may fail and end the task with what was discovered so far.        *)
Start ==
    /\ startTask = "none" /\ stopStage = "no"
    /\ \E off \in SUBSET MayBeDisabled, why \in {"disabled", "skipped"} :
           pstate' = [p \in Plugin |-> IF p \in off THEN why ELSE "discovered"]
    /\ toStart' = LoadOrder({p \in Plugin : pstate'[p] = "discovered"})
    /\ loaded' = Plugin
    /\ startTask' = "starting"
    /\ UNCHANGED <<settingUp, namespaces, subscribers, handling, ptasks, cancelled, outlived,
                   created, toStop, stopStage>>

StartRaises ==
    /\ startTask = "none" /\ stopStage = "no"
    /\ \E i \in 1..Len(Discovered) :
        LET found == ToSet(SubSeq(Discovered, 1, i - 1))
        IN  /\ Discovered[i] \notin loaded
            /\ pstate' = [p \in Plugin |-> IF p \in found THEN "discovered" ELSE "absent"]
            /\ loaded' = loaded \cup found
    /\ startTask' = "raised"
    /\ UNCHANGED <<toStart, settingUp, namespaces, subscribers, handling, ptasks, cancelled,
                   outlived, created, toStop, stopStage>>

(* A dependency that was not discovered is not there. *)
Ready(p) == p \in Plugin /\ pstate[p] \in {"started", "warning"}

(* _start_record, up to the call of the plugin's setup.                    *)
StartRecord ==
    /\ startTask = "starting" /\ settingUp = NoPlugin /\ toStart # <<>>
    /\ LET p == Head(toStart)
       IN  IF \A d \in Dependencies[p] : Ready(d)
           THEN pstate' = [pstate EXCEPT ![p] = "starting"] /\ settingUp' = p
           ELSE pstate' = [pstate EXCEPT ![p] = "failed"] /\ UNCHANGED settingUp
    /\ toStart' = Tail(toStart)
    /\ UNCHANGED <<startTask, loaded, namespaces, subscribers, handling, ptasks, cancelled,
                   outlived, created, toStop, stopStage>>

(* register_namespace raises for a name that is taken; it is never freed.  *)
Register(p) ==
    /\ settingUp = p
    /\ namespaces[Namespace[p]] = NoPlugin
    /\ namespaces' = [namespaces EXCEPT ![Namespace[p]] = p]
    /\ UNCHANGED <<pstate, startTask, toStart, settingUp, loaded, subscribers, handling, ptasks,
                   cancelled, outlived, created, toStop, stopStage>>

Subscribe(p) ==
    /\ settingUp = p
    /\ subscribers' = subscribers \cup {p}
    /\ UNCHANGED <<pstate, startTask, toStart, settingUp, loaded, namespaces, handling, ptasks,
                   cancelled, outlived, created, toStop, stopStage>>

SetupDone(p) ==
    /\ settingUp = p
    /\ namespaces[Namespace[p]] = p
    /\ \E deprecated \in BOOLEAN :
        pstate' = [pstate EXCEPT ![p] = IF deprecated \/ @ = "warning" THEN "warning" ELSE "started"]
    /\ settingUp' = NoPlugin
    /\ UNCHANGED <<startTask, toStart, loaded, namespaces, subscribers, handling, ptasks,
                   cancelled, outlived, created, toStop, stopStage>>

(* What a setup that raises had registered, subscribed and started stays.  *)
SetupFails(p) ==
    /\ settingUp = p
    /\ pstate' = [pstate EXCEPT ![p] = "failed"]
    /\ settingUp' = NoPlugin
    /\ UNCHANGED <<startTask, toStart, loaded, namespaces, subscribers, handling, ptasks,
                   cancelled, outlived, created, toStop, stopStage>>

StartDone ==
    /\ startTask = "starting" /\ settingUp = NoPlugin /\ toStart = <<>>
    /\ startTask' = "done"
    /\ UNCHANGED <<pstate, toStart, settingUp, loaded, namespaces, subscribers, handling, ptasks,
                   cancelled, outlived, created, toStop, stopStage>>

-----------------------------------------------------------------------------
(* What runs for a plugin.                                                 *)

(* _create_task, from the plugin's setup, a command or a handler.  A       *)
(* plugin that is stopped may do it too: its handlers stay subscribed.     *)
Runs(p) == settingUp = p \/ Ready(p) \/ p \in handling

CreateTask(p) ==
    /\ Runs(p) /\ created[p] < MaxTasks
    /\ created' = [created EXCEPT ![p] = @ + 1]
    /\ ptasks' = [ptasks EXCEPT ![p] = @ \cup {created[p] + 1}]
    /\ UNCHANGED <<pstate, startTask, toStart, settingUp, loaded, namespaces, subscribers,
                   handling, cancelled, outlived, toStop, stopStage>>

(* The done callback: a failure turns the plugin into a warning.           *)
TaskEnds(p, task) ==
    /\ task \in ptasks[p] \cup outlived[p]
    /\ ptasks' = [ptasks EXCEPT ![p] = @ \ {task}]
    /\ outlived' = [outlived EXCEPT ![p] = @ \ {task}]
    /\ \/ UNCHANGED pstate
       \/ /\ pstate[p] \in {"started", "starting"}
          /\ pstate' = [pstate EXCEPT ![p] = "warning"]
    /\ UNCHANGED <<startTask, toStart, settingUp, loaded, namespaces, subscribers, handling,
                   cancelled, created, toStop, stopStage>>

(* EventBus.publish starts the async handlers of an event, those of a      *)
(* plugin that is stopped too: the engine ends its turns after the plugins.*)
Publish(p) ==
    /\ p \in subscribers \ handling
    /\ handling' = handling \cup {p}
    /\ UNCHANGED <<pstate, startTask, toStart, settingUp, loaded, namespaces, subscribers, ptasks,
                   cancelled, outlived, created, toStop, stopStage>>

(* _run_handler and _mark_plugin_warning.                                  *)
HandlerEnds(p) ==
    /\ p \in handling
    /\ handling' = handling \ {p}
    /\ \/ UNCHANGED pstate
       \/ /\ pstate[p] \in {"started", "starting"}
          /\ pstate' = [pstate EXCEPT ![p] = "warning"]
    /\ UNCHANGED <<startTask, toStart, settingUp, loaded, namespaces, subscribers, ptasks,
                   cancelled, outlived, created, toStop, stopStage>>

-----------------------------------------------------------------------------
(* Stop.                                                                   *)

(* Variant: stop() does not wait for the start task.                       *)
StopAtOnce ==
    /\ stopStage = "no"
    /\ toStop' = Reverse(SelectSeq(Discovered, LAMBDA p : pstate[p] # "absent"))
    /\ stopStage' = "next"
    /\ UNCHANGED <<pstate, startTask, toStart, settingUp, loaded, namespaces, subscribers,
                   handling, ptasks, cancelled, outlived, created>>

(* stop() waits for the start task, then takes the records backwards in    *)
(* the order of discovery, not of loading.                                 *)
Stop ==
    /\ stopStage = "no" /\ startTask # "starting"
    /\ toStop' = Reverse(SelectSeq(Discovered, LAMBDA p : pstate[p] # "absent"))
    /\ stopStage' = "next"
    /\ UNCHANGED <<pstate, startTask, toStart, settingUp, loaded, namespaces, subscribers,
                   handling, ptasks, cancelled, outlived, created>>

NextRecord ==
    /\ stopStage = "next"
    /\ IF toStop = <<>>
       THEN stopStage' = "drain" /\ UNCHANGED toStop
       ELSE IF pstate[Head(toStop)] \in {"started", "warning", "failed"}
       THEN stopStage' = "hook" /\ UNCHANGED toStop
       ELSE toStop' = Tail(toStop) /\ UNCHANGED stopStage
    /\ UNCHANGED <<pstate, startTask, toStart, settingUp, loaded, namespaces, subscribers,
                   handling, ptasks, cancelled, outlived, created>>

(* The plugin's stop() raises: the record is failed, its tasks are left.   *)
HookFails ==
    /\ stopStage = "hook"
    /\ pstate' = [pstate EXCEPT ![Head(toStop)] = "failed"]
    /\ toStop' = Tail(toStop)
    /\ stopStage' = "next"
    /\ UNCHANGED <<startTask, toStart, settingUp, loaded, namespaces, subscribers, handling,
                   ptasks, cancelled, outlived, created>>

CancelTasks ==
    /\ stopStage = "hook"
    /\ cancelled' = [cancelled EXCEPT ![Head(toStop)] = ptasks[Head(toStop)]]
    /\ stopStage' = "cancel"
    /\ UNCHANGED <<pstate, startTask, toStart, settingUp, loaded, namespaces, subscribers,
                   handling, ptasks, outlived, created, toStop>>

(* After asyncio.wait, all of them ended or five seconds later: when there *)
(* was a task to cancel the manager forgets whatever runs for the plugin.  *)
Stopped ==
    /\ stopStage = "cancel"
    /\ LET p == Head(toStop)
       IN  /\ outlived' = [outlived EXCEPT ![p] =
                  @ \cup IF cancelled[p] # {} THEN ptasks[p] ELSE {}]
           /\ ptasks' = [ptasks EXCEPT ![p] = IF cancelled[p] # {} THEN {} ELSE @]
           /\ pstate' = [pstate EXCEPT ![p] = "stopped"]
    /\ toStop' = Tail(toStop)
    /\ stopStage' = "next"
    /\ UNCHANGED <<startTask, toStart, settingUp, loaded, namespaces, subscribers, handling,
                   cancelled, created>>

(* drain: the handlers that run end within two seconds or are cancelled.   *)
Drain ==
    /\ stopStage = "drain"
    /\ handling' = {}
    /\ stopStage' = "stopped"
    /\ UNCHANGED <<pstate, startTask, toStart, settingUp, loaded, namespaces, subscribers, ptasks,
                   cancelled, outlived, created, toStop>>

Next ==
    \/ Start \/ StartRaises \/ StartRecord \/ StartDone
    \/ Stop \/ NextRecord \/ HookFails \/ CancelTasks \/ Stopped \/ Drain
    \/ \E p \in Plugin :
        \/ Register(p) \/ Subscribe(p) \/ SetupDone(p) \/ SetupFails(p)
        \/ CreateTask(p) \/ Publish(p) \/ HandlerEnds(p)
        \/ \E task \in Slot : TaskEnds(p, task)

Spec == Init /\ [][Next]_pluginVars

-----------------------------------------------------------------------------
States == {"absent", "discovered", "disabled", "skipped", "starting", "started", "warning", "failed",
           "stopped"}

(* While a setup runs the start has not ended, so that nothing is stopped, *)
(* and what it depends on stays as it was when it began.                   *)
SetUpInTime ==
    /\ startTask = "starting" => stopStage = "no"
    /\ settingUp # NoPlugin =>
           startTask = "starting" /\ \A d \in Dependencies[settingUp] : Ready(d)

Inv == pstate \in [Plugin -> States] /\ SetUpInTime

(* While a plugin's setup runs, however long it awaits, every plugin it    *)
(* depends on is running: set up before it, neither failed nor stopped     *)
(* (docs/plugins.md: "Other plugin ids that must start first").            *)
SetUpOnDependencies ==
    settingUp # NoPlugin => \A d \in Dependencies[settingUp] : Ready(d)
=============================================================================
