---------------------------- MODULE TurnService ----------------------------
(***************************************************************************)
(* What the turn supervisor of uv-agent promises to whoever submits a      *)
(* message to a thread, with nothing said about workers, queues, takeover  *)
(* buffers or semaphores: messages are taken in the order they were        *)
(* accepted, in batches that are prefixes of what is waiting; one turn at  *)
(* a time uses a thread; a batch is written to the history of the thread   *)
(* as a whole, or not at all.  TurnManager implements it.                  *)
(***************************************************************************)
EXTENDS Naturals, Sequences

CONSTANTS Request,   \* the messages that may be submitted
          Thread     \* the conversation threads

VARIABLES clock,     \* how many messages have been accepted so far
          ticket,    \* ticket[r]: when r was accepted, 0 if it has not been
          inbox,     \* inbox[t]: accepted messages no turn has taken yet
          batch,     \* batch[t]: messages a turn took and has not written yet
          busy,      \* busy[t]: a turn is using the thread
          log        \* log[t]: the messages of the thread's history

vars == <<clock, ticket, inbox, batch, busy, log>>

\* The messages of a thread, oldest first: written, being taken, waiting.
Lane(t) == log[t] \o batch[t] \o inbox[t]

TypeOK ==
    /\ clock \in Nat
    /\ ticket \in [Request -> Nat]
    /\ inbox \in [Thread -> Seq(Request)]
    /\ batch \in [Thread -> Seq(Request)]
    /\ busy \in [Thread -> BOOLEAN]
    /\ log \in [Thread -> Seq(Request)]

Init ==
    /\ clock = 0
    /\ ticket = [r \in Request |-> 0]
    /\ inbox = [t \in Thread |-> <<>>]
    /\ batch = [t \in Thread |-> <<>>]
    /\ busy = [t \in Thread |-> FALSE]
    /\ log = [t \in Thread |-> <<>>]

-----------------------------------------------------------------------------
\* A message that was never accepted joins the end of the inbox.
Accept(t, r) ==
    /\ ticket[r] = 0
    /\ clock' = clock + 1
    /\ ticket' = [ticket EXCEPT ![r] = clock + 1]
    /\ inbox' = [inbox EXCEPT ![t] = Append(@, r)]
    /\ UNCHANGED <<batch, busy, log>>

\* A turn takes the thread, and the n oldest waiting messages with it.
Start(t, n) ==
    /\ ~busy[t]
    /\ batch[t] = <<>>
    /\ n \in 1 .. Len(inbox[t])
    /\ busy' = [busy EXCEPT ![t] = TRUE]
    /\ batch' = [batch EXCEPT ![t] = SubSeq(inbox[t], 1, n)]
    /\ inbox' = [inbox EXCEPT ![t] = SubSeq(@, n + 1, Len(@))]
    /\ UNCHANGED <<clock, ticket, log>>

\* The turn writes its messages to the history of the thread.
Record(t) ==
    /\ busy[t]
    /\ batch[t] # <<>>
    /\ log' = [log EXCEPT ![t] = @ \o batch[t]]
    /\ batch' = [batch EXCEPT ![t] = <<>>]
    /\ UNCHANGED <<clock, ticket, inbox, busy>>

\* The turn ends before it wrote anything: its messages are gone.
Drop(t) ==
    /\ busy[t]
    /\ batch[t] # <<>>
    /\ batch' = [batch EXCEPT ![t] = <<>>]
    /\ UNCHANGED <<clock, ticket, inbox, busy, log>>

\* The turn gives the thread back.
Release(t) ==
    /\ busy[t]
    /\ batch[t] = <<>>
    /\ busy' = [busy EXCEPT ![t] = FALSE]
    /\ UNCHANGED <<clock, ticket, inbox, batch, log>>

Next ==
    \E t \in Thread :
        \/ \E r \in Request : Accept(t, r)
        \/ \E n \in 1 .. Len(inbox[t]) : Start(t, n)
        \/ Record(t)
        \/ Drop(t)
        \/ Release(t)

Spec == Init /\ [][Next]_vars

-----------------------------------------------------------------------------
\* The messages of a thread appear in the order they were accepted, none of
\* them twice, whatever was dropped between them.
InOrder ==
    \A t \in Thread :
        \A i, j \in 1 .. Len(Lane(t)) :
            i < j => ticket[Lane(t)[i]] < ticket[Lane(t)[j]]

\* Only accepted messages are in a lane.
LanesAccepted ==
    \A t \in Thread : \A i \in 1 .. Len(Lane(t)) :
        ticket[Lane(t)[i]] \in 1 .. clock

=============================================================================
