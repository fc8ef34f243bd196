--------------------------- MODULE IdempotentCall ---------------------------
(***************************************************************************)
(* What an Idempotency-Key promises a client, without jobs, leases and     *)
(* transactions: the provider is called at most once per key, the outcome  *)
(* is decided once, a reply is only decided after the call, and whatever a *)
(* client is told about a decided key is that outcome.                     *)
(***************************************************************************)
CONSTANTS Keys, Outcomes, Reply, Undecided

VARIABLES
    called,     \* keys the provider was called for
    outcome,    \* the decided outcome of each key, or Undecided
    told        \* <<key, outcome>> pairs clients have received

vars == <<called, outcome, told>>

Init ==
    /\ called = {}
    /\ outcome = [k \in Keys |-> Undecided]
    /\ told = {}

Call(k) ==
    /\ k \notin called
    /\ called' = called \cup {k}
    /\ UNCHANGED <<outcome, told>>

(* The outcome is fixed; the client that caused it may be told at once. *)
Decide(k, o) ==
    /\ outcome[k] = Undecided
    /\ o = Reply => k \in called
    /\ outcome' = [outcome EXCEPT ![k] = o]
    /\ told' \in {told, told \cup {<<k, o>>}}
    /\ UNCHANGED called

Tell(k) ==
    /\ outcome[k] # Undecided
    /\ told' = told \cup {<<k, outcome[k]>>}
    /\ UNCHANGED <<called, outcome>>

Next ==
    \E k \in Keys : Call(k) \/ Tell(k) \/ \E o \in Outcomes : Decide(k, o)

Spec == Init /\ [][Next]_vars
=============================================================================
