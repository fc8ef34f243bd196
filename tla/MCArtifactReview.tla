-------------------------- MODULE MCArtifactReview --------------------------
(* Small instances of ArtifactReview for TLC. *)
EXTENDS ArtifactReview, TLC

Symmetry == Permutations(Artifacts) \cup Permutations(Memories)
            \cup Permutations(Generators) \cup Permutations(Digests)
=============================================================================
