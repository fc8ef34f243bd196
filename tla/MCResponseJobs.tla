---------------------------- MODULE MCResponseJobs ----------------------------
(* Small instances of ResponseJobs. *)
EXTENDS ResponseJobs

\* Every request body talks to the same conversation.
MCOneThread == [f \in Fingerprints |-> CHOOSE t \in Threads : TRUE]
=============================================================================
