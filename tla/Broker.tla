------------------------------- MODULE Broker -------------------------------
(***************************************************************************)
(* PluginContextBroker: the queues through which plugins put text before   *)
(* the model.  The broker keeps nothing that was sent; the engine takes    *)
(* from it when it builds a turn's input.  A broker is a record:           *)
(*   epoch    for everybody (All) and for each thread, what the next full  *)
(*            epoch context will contain                                   *)
(*   updates  the same contributions, for a thread that has its full one   *)
(*   turn     what goes before the next user message of a thread           *)
(*   keyed    the latest turn contribution under each replay key           *)
(*   replay   the ones to send again after a compaction                    *)
(* Everything here is a function from a broker to a broker, so that one    *)
(* step of a plugin or of the engine may use several.                      *)
(***************************************************************************)
EXTENDS Sequences, SequencesExt, TLC

CONSTANTS Threads, All

NoContribution == [plugin |-> "none", tag |-> "none", body |-> "none", op |-> "none"]

Contribution(plugin, tag, body, op) ==
    [plugin |-> plugin, tag |-> tag, body |-> body, op |-> op]

(* One replay key per thread is in use (goal_state), so keys are threads.  *)
EmptyBroker ==
    [epoch   |-> [place \in Threads \cup {All} |-> <<>>],
     updates |-> [place \in Threads \cup {All} |-> <<>>],
     turn    |-> [t \in Threads |-> <<>>],
     keyed   |-> [t \in Threads |-> NoContribution],
     replay  |-> [t \in Threads |-> NoContribution]]

-----------------------------------------------------------------------------
(* publish, update and remove: queued twice; nothing while the plugin is   *)
(* being refreshed only to be heard (suppressed).                          *)
Notify(b, place, c, suppressed) ==
    IF suppressed THEN b
    ELSE [b EXCEPT !.epoch[place] = Append(@, c), !.updates[place] = Append(@, c)]

(* _remove_turn_contribution compares by value, not by identity.           *)
WithoutTurnItem(queue, c) ==
    FoldLeft(LAMBDA others, item : IF item = c THEN others ELSE Append(others, item), <<>>, queue)

ReplaceKeyed(b, t, c) ==
    [b EXCEPT !.turn[t] = WithoutTurnItem(@, b.keyed[t]), !.keyed[t] = c]

(* enqueue_turn with a replay key and replay_after_compaction.             *)
EnqueueTurn(b, t, c) ==
    LET replaced == ReplaceKeyed(b, t, c)
    IN  [replaced EXCEPT !.turn[t] = Append(@, c), !.replay[t] = c]

ClearReplay(b, t) ==
    [b EXCEPT !.replay[t] = NoContribution,
              !.keyed[t]  = NoContribution,
              !.turn[t]   = WithoutTurnItem(@, b.keyed[t])]

ReplayAfterCompaction(b, t) ==
    IF b.replay[t] = NoContribution THEN b
    ELSE LET c == b.replay[t]
         IN  [ReplaceKeyed(b, t, c) EXCEPT !.turn[t] = Append(@, c)]

-----------------------------------------------------------------------------
(* The queues of a thread are its own and everybody's; whoever takes them  *)
(* first takes everybody's for all.                                        *)
Drop(queues, t) == [queues EXCEPT ![All] = <<>>, ![t] = <<>>]

PendingEpoch(b, t) == b.epoch[All] \o b.epoch[t]
PluginsWithPendingEpoch(b, t) == {c.plugin : c \in ToSet(PendingEpoch(b, t))}

ClearEpoch(b, t) == [b EXCEPT !.epoch = Drop(@, t), !.updates = Drop(@, t)]

EpochTaken(b, t)   == PendingEpoch(b, t)
ConsumeEpoch(b, t) == ClearEpoch(b, t)

UpdatesTaken(b, t) == b.updates[All] \o b.updates[t]

(* Each update taken leaves the epoch queues too, one item for one.        *)
WithoutItems(queue, cs) == FoldLeft(RemoveFirst, queue, cs)

ConsumeUpdates(b, t) ==
    LET cs == UpdatesTaken(b, t)
    IN  [b EXCEPT !.updates = Drop(@, t),
                  !.epoch[All] = WithoutItems(@, cs), !.epoch[t] = WithoutItems(@, cs)]

TurnTaken(b, t)   == b.turn[t]
ConsumeTurn(b, t) == [b EXCEPT !.turn[t] = <<>>]
=============================================================================
