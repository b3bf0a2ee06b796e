------------------------------ MODULE Delivery ------------------------------
(***************************************************************************)
(* What the outbox promises the readers of the stream, whatever the number *)
(* of dispatchers and however they fail: the event of a row is delivered   *)
(* one or more times while the row is pending and never afterwards, and a  *)
(* row is settled as published when its event has been delivered and as    *)
(* failed when it cannot be.                                               *)
(***************************************************************************)
EXTENDS Naturals

CONSTANTS
    Rows,        \* the rows of the outbox
    Invalid      \* rows whose event nobody could read

VARIABLES
    status,      \* "absent", "pending", "published" or "failed"
    sent         \* sent[r]: stream entries with the event of r

vars == <<status, sent>>

Init ==
    /\ status = [r \in Rows |-> "absent"]
    /\ sent = [r \in Rows |-> 0]

Accept(r) ==
    /\ status[r] = "absent"
    /\ status' = [status EXCEPT ![r] = "pending"]
    /\ UNCHANGED sent

Deliver(r) ==
    /\ status[r] = "pending"
    /\ r \notin Invalid
    /\ sent' = [sent EXCEPT ![r] = @ + 1]
    /\ UNCHANGED status

\* Any number of rows is settled at one time.
Settle(published, failed) ==
    /\ \A r \in published \cup failed : status[r] = "pending"
    /\ \A r \in published : sent[r] > 0
    /\ failed \subseteq Invalid
    /\ status' = [r \in Rows |-> IF r \in published THEN "published"
                                 ELSE IF r \in failed THEN "failed"
                                 ELSE status[r]]
    /\ UNCHANGED sent

Next ==
    \/ \E r \in Rows : Accept(r) \/ Deliver(r)
    \/ \E published, failed \in SUBSET Rows : Settle(published, failed)

Spec == Init /\ [][Next]_vars
=============================================================================
