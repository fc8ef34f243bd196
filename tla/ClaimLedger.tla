----------------------------- MODULE ClaimLedger -----------------------------
(***************************************************************************)
(* What durable scheduling promises, without time, leases, processes or    *)
(* rows.  A workflow has at most one holder, a run.  Only the holder can   *)
(* publish, once, and what it publishes is a slot nobody published before. *)
(* A run that stops being the holder can only fail.                        *)
(***************************************************************************)
CONSTANTS Workflows, Runs, Slots, None

VARIABLES
    holder,     \* the run that may publish for a workflow, or None
    outcome,    \* "unused", "started", "succeeded" or "failed"
    ledger      \* the <<workflow, slot>> pairs published so far

vars == <<holder, outcome, ledger>>

Init ==
    /\ holder = [w \in Workflows |-> None]
    /\ outcome = [r \in Runs |-> "unused"]
    /\ ledger = {}

(* A fresh run takes the workflow, from an earlier holder too. *)
Take(w, r) ==
    /\ outcome[r] = "unused"
    /\ holder' = [holder EXCEPT ![w] = r]
    /\ outcome' = [outcome EXCEPT ![r] = "started"]
    /\ UNCHANGED ledger

Publish(w, slot) ==
    /\ holder[w] # None
    /\ <<w, slot>> \notin ledger
    /\ outcome[holder[w]] = "started"
    /\ ledger' = ledger \cup {<<w, slot>>}
    /\ outcome' = [outcome EXCEPT ![holder[w]] = "succeeded"]
    /\ holder' = [holder EXCEPT ![w] = None]

(* Some started runs fail and give up whatever they hold. *)
Fail(failed) ==
    /\ \A r \in failed : outcome[r] = "started"
    /\ outcome' = [r \in Runs |-> IF r \in failed THEN "failed" ELSE outcome[r]]
    /\ holder' = [w \in Workflows |-> IF holder[w] \in failed THEN None ELSE holder[w]]
    /\ UNCHANGED ledger

(* The holder loses the workflow and does not know it yet. *)
Revoke(w) ==
    /\ holder' = [holder EXCEPT ![w] = None]
    /\ UNCHANGED <<outcome, ledger>>

Next ==
    \/ \E w \in Workflows, r \in Runs : Take(w, r)
    \/ \E w \in Workflows, slot \in Slots : Publish(w, slot)
    \/ \E failed \in SUBSET Runs : Fail(failed)
    \/ \E w \in Workflows : Revoke(w)

Spec == Init /\ [][Next]_vars
=============================================================================
