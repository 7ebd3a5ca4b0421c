--------------------------- MODULE MCTurnManager ---------------------------
(* The instances of TurnManager that TLC checks. *)
EXTENDS TurnManager, TLC

\* Nothing distinguishes two calls, two threads or two task identities.
Symmetry == Permutations(Request) \cup Permutations(Thread) \cup Permutations(Task)

\* Bound of the runs that look at takeovers: every call names a thread, and
\* aclose is not called.
ThreadCallsOnly ==
    /\ closing = "open"
    /\ \A w \in Task : pc[w] # "idle" => wthread[w] # NoThread

=============================================================================
