------------------------- MODULE MCOutboxDispatcher -------------------------
(***************************************************************************)
(* Small instances of OutboxDispatcher for TLC.                            *)
(***************************************************************************)
EXTENDS OutboxDispatcher

\* The delays of dispatcher.py:109 (1, 5 and 60 s), scaled down: one that a batch
\* may outlast soon, and two longer ones.
ScaledBackoff == <<1, 2, 2>>

Genuine ==
    [identified |-> TRUE, event_type |-> "transaction.received",
     schema_version |-> 1, occurred_at |-> "aware",
     payload |-> [bounded |-> TRUE, amount |-> 1000, event_time |-> "aware"]]

\* The second row was written for a version this dispatcher does not know.
SomeStored == [r \in Rows |-> IF r = 2 THEN [Genuine EXCEPT !.schema_version = 2]
                                       ELSE Genuine]
=============================================================================
