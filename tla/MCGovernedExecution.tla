------------------------ MODULE MCGovernedExecution ------------------------
(* Small instances of GovernedExecution. *)
EXTENDS GovernedExecution, TLC

\* One run that first waits for its user.
Waiting == {[cursor |-> 0, waits |-> TRUE]}

Symmetry == Permutations(Tasks) \cup Permutations(Runs) \cup Permutations(Callers)
=============================================================================
