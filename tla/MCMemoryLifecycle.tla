------------------------- MODULE MCMemoryLifecycle -------------------------
(* MemoryLifecycle on small instances. *)
EXTENDS MemoryLifecycle, TLC

TwoUpdates == [m \in Memories |-> 2]
FourUpdates == [m \in Memories |-> 4]

Symmetry == Permutations(Memories)
=============================================================================
