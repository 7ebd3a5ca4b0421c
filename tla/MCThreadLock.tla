---------------------------- MODULE MCThreadLock ----------------------------
(* The instances of ThreadLock that TLC checks. *)
EXTENDS ThreadLock, TLC

Symmetry == Permutations(Run) \cup Permutations(Process) \cup Permutations(Thread)

=============================================================================
