----------------------------- MODULE Ingestion -----------------------------
(***************************************************************************)
(* Concurrent POST /v1/transactions requests against one database          *)
(* (ingest_transaction in fraudlatch/api/routes.py and the repository      *)
(* functions it calls).                                                    *)
(*                                                                         *)
(* The handler looks the transaction up, and if it is new inserts it with  *)
(* its outbox event and commits both; the primary key of transactions is   *)
(* what decides between concurrent requests.  A request carries an id and  *)
(* a payload, which stands for all the fields matches_payload compares.    *)
(* Clients send the same request any number of times, and different        *)
(* payloads under one id.                                                  *)
(***************************************************************************)
EXTENDS Naturals

CONSTANTS
    Handlers,      \* requests being served at one time
    Ids,           \* transaction ids
    Payloads,
    NoId, NoPayload

ASSUME IngestionAssumption == NoId \notin Ids /\ NoPayload \notin Payloads

VARIABLES
    \* committed rows
    transactions,  \* transactions[i]: payload of the row, if there is one
    outbox,        \* ids with an outbox event
    \* the request handlers
    pc, id, payload,
    holds,         \* holds[h]: h has inserted its transaction row, uncommitted
    \* history
    replies        \* the answers given so far

tables == <<transactions, outbox>>
request == <<id, payload>>
vars == <<tables, pc, request, holds, replies>>

BusyPoints == {"get_transaction", "create_transaction", "create_outbox_event",
               "commit", "rollback", "get_after_conflict"}
Answers == {"accepted", "already_accepted", "conflict", "error"}

Busy(h) == pc[h] \in BusyPoints

TypeOK ==
    /\ transactions \in [Ids -> Payloads \cup {NoPayload}]
    /\ outbox \subseteq Ids
    /\ pc \in [Handlers -> BusyPoints \cup {"idle"}]
    /\ id \in [Handlers -> Ids \cup {NoId}]
    /\ payload \in [Handlers -> Payloads \cup {NoPayload}]
    /\ holds \in [Handlers -> BOOLEAN]
    /\ replies \subseteq [id : Ids, payload : Payloads, answer : Answers]
    /\ \A h \in Handlers : Busy(h) => id[h] \in Ids /\ payload[h] \in Payloads

Init ==
    /\ transactions = [i \in Ids |-> NoPayload]
    /\ outbox = {}
    /\ pc = [h \in Handlers |-> "idle"]
    /\ id = [h \in Handlers |-> NoId]
    /\ payload = [h \in Handlers |-> NoPayload]
    /\ holds = [h \in Handlers |-> FALSE]
    /\ replies = {}

GoTo(h, point) == pc' = [pc EXCEPT ![h] = point]

Reply(h, answer) ==
    replies' = replies \cup {[id |-> id[h], payload |-> payload[h], answer |-> answer]}

\* The handler is over and its session closed, which rolls back what it has not
\* committed.
Close(h) ==
    /\ GoTo(h, "idle")
    /\ holds' = [holds EXCEPT ![h] = FALSE]
    /\ id' = [id EXCEPT ![h] = NoId]
    /\ payload' = [payload EXCEPT ![h] = NoPayload]

End(h, answer) == Close(h) /\ Reply(h, answer)

\* Mutant: an existing row of the same id is taken for the same transaction.
MatchesAnything(h) == transactions[id[h]] # NoPayload

\* matches_payload
Matches(h) == transactions[id[h]] = payload[h]

Exists(h) == transactions[id[h]] # NoPayload

-----------------------------------------------------------------------------

Receive(h) ==
    /\ pc[h] = "idle"
    /\ \E i \in Ids, p \in Payloads :
          /\ id' = [id EXCEPT ![h] = i]
          /\ payload' = [payload EXCEPT ![h] = p]
    /\ GoTo(h, "get_transaction")
    /\ UNCHANGED <<tables, holds, replies>>

\* The lookup before the insert, with its two early returns.
GetTransaction(h) ==
    /\ pc[h] = "get_transaction"
    /\ \/ /\ ~ Exists(h)
          /\ GoTo(h, "create_transaction")
          /\ UNCHANGED <<request, holds, replies>>
       \/ /\ Exists(h) /\ Matches(h)
          /\ End(h, "already_accepted")
       \/ /\ Exists(h) /\ ~ Matches(h)
          /\ End(h, "conflict")
    /\ UNCHANGED tables

\* Mutant: an INSERT ... ON CONFLICT DO UPDATE.
UpsertTransaction(h) ==
    /\ pc[h] = "create_transaction"
    /\ \A other \in Handlers \ {h} : ~ (holds[other] /\ id[other] = id[h])
    /\ holds' = [holds EXCEPT ![h] = TRUE]
    /\ GoTo(h, "commit")
    /\ UNCHANGED <<tables, request, replies>>

\* The flushed INSERT of the transaction row: it waits for a concurrent insert of
\* the same id to end, and is refused if that one was committed.
CreateTransaction(h) ==
    /\ pc[h] = "create_transaction"
    /\ \A other \in Handlers \ {h} : ~ (holds[other] /\ id[other] = id[h])
    /\ \/ /\ ~ Exists(h)
          /\ holds' = [holds EXCEPT ![h] = TRUE]
          /\ GoTo(h, "create_outbox_event")
       \/ /\ Exists(h)
          /\ GoTo(h, "rollback")
          /\ UNCHANGED holds
    /\ UNCHANGED <<tables, request, replies>>

\* Its unique constraint refuses a second event for the id.
CreateOutboxEvent(h) ==
    /\ pc[h] = "create_outbox_event"
    /\ GoTo(h, IF id[h] \in outbox THEN "rollback" ELSE "commit")
    /\ UNCHANGED <<tables, request, holds, replies>>

\* Mutant: the transaction row is committed on its own.
CommitWithoutEvent(h) ==
    /\ transactions' = [transactions EXCEPT ![id[h]] = payload[h]]
    /\ UNCHANGED outbox

\* Mutant: a wrong column is stored as the payload.
CommitWrongColumn(h) ==
    /\ transactions' = [transactions EXCEPT ![id[h]] = id[h]]
    /\ outbox' = outbox \cup {id[h]}

CommitEffect(h) ==
    /\ transactions' = [transactions EXCEPT ![id[h]] = payload[h]]
    /\ outbox' = outbox \cup {id[h]}

Commit(h) ==
    /\ pc[h] = "commit"
    /\ CommitEffect(h)
    /\ End(h, "accepted")

Rollback(h) ==
    /\ pc[h] = "rollback"
    /\ holds' = [holds EXCEPT ![h] = FALSE]
    /\ GoTo(h, "get_after_conflict")
    /\ UNCHANGED <<tables, request, replies>>

\* Mutant: every IntegrityError is answered with a 409.
ConflictWithoutLookup(h) ==
    /\ pc[h] = "get_after_conflict"
    /\ End(h, "conflict")
    /\ UNCHANGED tables

GetAfterConflict(h) ==
    /\ pc[h] = "get_after_conflict"
    /\ End(h, IF Exists(h) /\ Matches(h) THEN "already_accepted" ELSE "conflict")
    /\ UNCHANGED tables

\* Any call fails with another error than IntegrityError: a 500, also when the
\* commit took effect.
Fail(h) ==
    /\ Busy(h)
    /\ \/ UNCHANGED tables
       \/ pc[h] = "commit" /\ CommitEffect(h)
    /\ End(h, "error")

\* The process or the connection dies: no answer.
Crash(h) ==
    /\ Busy(h)
    /\ \/ UNCHANGED tables
       \/ pc[h] = "commit" /\ CommitEffect(h)
    /\ Close(h)
    /\ UNCHANGED replies

Progress(h) ==
    \/ GetTransaction(h)
    \/ CreateTransaction(h)
    \/ CreateOutboxEvent(h)
    \/ Commit(h)
    \/ Rollback(h)
    \/ GetAfterConflict(h)

Next ==
    \E h \in Handlers :
        \/ Receive(h)
        \/ Progress(h)
        \/ Fail(h)
        \/ Crash(h)

Spec == Init /\ [][Next]_vars

-----------------------------------------------------------------------------
(* Properties *)

Answered(i, p, answer) == [id |-> i, payload |-> p, answer |-> answer] \in replies

\* The transactional outbox: a transaction is stored if and only if its event is,
\* wherever the handler fails.
StoredWithEvent == \A i \in Ids : transactions[i] # NoPayload <=> i \in outbox

\* A 202, for a new transaction or a repeated one, is never taken back: the
\* payload it answers is the one stored, so no two payloads of one id are both
\* accepted.
AcceptedIsStored ==
    \A i \in Ids, p \in Payloads :
        Answered(i, p, "accepted") \/ Answered(i, p, "already_accepted")
            => transactions[i] = p

\* A 409 is deserved: another payload is stored under the id.  In particular a
\* retry never conflicts with its own first attempt, even one still under way.
ConflictIsReal ==
    \A i \in Ids, p \in Payloads :
        Answered(i, p, "conflict") => transactions[i] \notin {p, NoPayload}

\* Only one request of an id is told "accepted": nobody has heard it while a
\* handler is about to commit.
AcceptedOnce ==
    \A h \in Handlers, p \in Payloads :
        pc[h] = "commit" => ~ Answered(id[h], p, "accepted")

\* The first payload committed under an id stays, whatever arrives later.
FirstWriteWins ==
    [][\A i \in Ids :
          transactions[i] # NoPayload => transactions'[i] = transactions[i]]_vars

\* Requests are answered as if one at a time: the handlers, with their lookup
\* before the insert and the second one after a refused key, with lost answers and
\* deaths at every await, give no answer that a ledger would not give which reads,
\* compares and writes in the one step of the answer.
OneByOne == INSTANCE Ledger WITH stored <- transactions, events <- outbox
ImplementsLedger == OneByOne!Spec

-----------------------------------------------------------------------------
(* The inductive invariant behind these properties (see IngestionProofs).  *)

\* One handler at a time holds the key of an id, until its commit, and the row
\* it is about to commit is not there yet.
KeyInv ==
    /\ \A g, h \in Handlers : g # h /\ holds[g] /\ holds[h] => id[g] # id[h]
    /\ \A h \in Handlers :
          /\ holds[h] => ~ Exists(h)
          /\ pc[h] \in {"create_outbox_event", "commit"} => holds[h]
          /\ pc[h] \in {"create_transaction", "idle", "get_transaction"} => ~ holds[h]
          /\ pc[h] \in {"rollback", "get_after_conflict"} => Exists(h) /\ ~ holds[h]

IngestionInv == KeyInv /\ StoredWithEvent /\ AcceptedIsStored /\ ConflictIsReal
=============================================================================
