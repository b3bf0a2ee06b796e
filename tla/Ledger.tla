------------------------------- MODULE Ledger -------------------------------
(***************************************************************************)
(* What POST /v1/transactions promises its clients, whatever the number of *)
(* requests under way and however they fail: the answers are those of one  *)
(* ledger that writes each id once and decides every request in one step.  *)
(***************************************************************************)
CONSTANTS Ids, Payloads, NoPayload

VARIABLES
    stored,      \* stored[i]: the payload written under i, if there is one
    events,      \* ids with an event
    replies      \* the answers given so far

vars == <<stored, events, replies>>

Init ==
    /\ stored = [i \in Ids |-> NoPayload]
    /\ events = {}
    /\ replies = {}

Answer(i, p, answer) ==
    replies' = replies \cup {[id |-> i, payload |-> p, answer |-> answer]}

\* The first payload of an id is written with its event.  The client may not hear
\* of it.
Accept(i, p) ==
    /\ stored[i] = NoPayload
    /\ stored' = [stored EXCEPT ![i] = p]
    /\ events' = events \cup {i}
    /\ \/ Answer(i, p, "accepted")
       \/ Answer(i, p, "error")
       \/ UNCHANGED replies

\* A later one is compared with it.
Compare(i, p) ==
    /\ stored[i] # NoPayload
    /\ Answer(i, p, IF stored[i] = p THEN "already_accepted" ELSE "conflict")
    /\ UNCHANGED <<stored, events>>

\* A request that fails has changed nothing.
Fail(i, p) ==
    /\ Answer(i, p, "error")
    /\ UNCHANGED <<stored, events>>

Next == \E i \in Ids, p \in Payloads : Accept(i, p) \/ Compare(i, p) \/ Fail(i, p)

Spec == Init /\ [][Next]_vars
=============================================================================
