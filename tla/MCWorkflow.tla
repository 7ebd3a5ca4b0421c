----------------------------- MODULE MCWorkflow -----------------------------
(* The instances of Workflow that TLC checks. *)
EXTENDS Workflow, TLC

Symmetry == Permutations(Agent) \cup Permutations(Check)
            \cup Permutations(Executor) \cup Permutations(Caller)

\* Bound: a node depends on one other at most.
SmallGraph == \A n \in Node : Cardinality(deps[n]) <= 1 /\ n \notin deps[n]

=============================================================================
