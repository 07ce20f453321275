---------------------------- MODULE FirstSuccess ----------------------------
(***************************************************************************)
(* What fetch_metadata_from_peers of src/peer/metadata.rs promises: it     *)
(* returns a metadata that some peer delivered, and it gives up only when  *)
(* every peer in the list has failed.                                      *)
(***************************************************************************)
CONSTANT Peers

VARIABLES
    outcome,    \* outcome[p]: how the attempt with p ended, or "pending"
    result      \* what was returned, or "pending"

Init ==
    /\ outcome = [p \in Peers |-> "pending"]
    /\ result = "pending"

\* An attempt ends.
Settle(p, o) ==
    /\ result = "pending"
    /\ outcome[p] = "pending"
    /\ outcome' = [outcome EXCEPT ![p] = o]
    /\ UNCHANGED result

Succeed ==
    /\ result = "pending"
    /\ \E p \in Peers : outcome[p] = "ok"
    /\ result' = "ok"
    /\ UNCHANGED outcome

GiveUp ==
    /\ result = "pending"
    /\ \A p \in Peers : outcome[p] = "failed"
    /\ result' = "error"
    /\ UNCHANGED outcome

Next ==
    \/ \E p \in Peers, o \in {"ok", "failed"} : Settle(p, o)
    \/ Succeed
    \/ GiveUp

Spec == Init /\ [][Next]_<<outcome, result>>

=============================================================================
