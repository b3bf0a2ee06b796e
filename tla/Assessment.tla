---------------------------- MODULE Assessment ----------------------------
(***************************************************************************)
(* What the risk workers promise their clients, whatever their number and  *)
(* however they crash: a transaction event gets at most one risk decision, *)
(* the decision is final, and a queue message is acknowledged only when    *)
(* the decision for its event is already there.                            *)
(***************************************************************************)
EXTENDS Naturals

CONSTANTS
    Events,      \* transaction.received events, one per transaction
    Decisions,   \* the risk decisions an event may get
    NoDecision,
    Messages     \* positions in the stream

VARIABLES
    stream,      \* stream[m]: the event that message m carries
    result,      \* result[e]: the decision for e, once made
    acked        \* the acknowledged messages

vars == <<stream, result, acked>>

Init ==
    /\ stream \in [Messages -> Events]
    /\ result = [e \in Events |-> NoDecision]
    /\ acked = {}

Decide(e) ==
    /\ result[e] = NoDecision
    /\ \E d \in Decisions : result' = [result EXCEPT ![e] = d]
    /\ UNCHANGED <<stream, acked>>

Acknowledge(m) ==
    /\ result[stream[m]] # NoDecision
    /\ acked' = acked \cup {m}
    /\ UNCHANGED <<stream, result>>

Next ==
    \/ \E e \in Events : Decide(e)
    \/ \E m \in Messages : Acknowledge(m)

Spec == Init /\ [][Next]_vars
=============================================================================
