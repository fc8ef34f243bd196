--------------------------- MODULE MCMemoryIndex ---------------------------
(* Small instances of MemoryIndex for TLC. *)
EXTENDS MemoryIndex, TLC

TwoRows == 1..2

Symmetry == Permutations(Clients) \cup Permutations(Texts) \cup Permutations(Endpoints)
=============================================================================
