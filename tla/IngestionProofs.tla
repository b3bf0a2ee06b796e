-------------------------- MODULE IngestionProofs --------------------------
(***************************************************************************)
(* Theorems about Ingestion, for any number of concurrent requests, ids    *)
(* and payloads.                                                           *)
(***************************************************************************)
EXTENDS Ingestion, TLAPS

USE IngestionAssumption

\* Closing a session keeps the declared types.
LEMMA CloseType ==
  ASSUME TypeOK, NEW h \in Handlers, Close(h)
  PROVE  /\ pc' \in [Handlers -> BusyPoints \cup {"idle"}]
         /\ id' \in [Handlers -> Ids \cup {NoId}]
         /\ payload' \in [Handlers -> Payloads \cup {NoPayload}]
         /\ holds' \in [Handlers -> BOOLEAN]
         /\ \A g \in Handlers : Busy(g)' => id'[g] \in Ids /\ payload'[g] \in Payloads
BY DEF TypeOK, Close, GoTo, Busy, BusyPoints

\* So does every way a handler ends.
LEMMA ReplyType ==
  ASSUME TypeOK, NEW h \in Handlers, Busy(h), NEW answer \in Answers, Reply(h, answer)
  PROVE  replies' \subseteq [id : Ids, payload : Payloads, answer : Answers]
<1> DEFINE r == [id |-> id[h], payload |-> payload[h], answer |-> answer]
<1>1. r \in [id : Ids, payload : Payloads, answer : Answers]
  BY DEF TypeOK
<1>2. replies' = replies \cup {r}
  BY DEF Reply
<1>3. QED
  BY <1>1, <1>2 DEF TypeOK

\* Every state of a run has the declared types.
THEOREM TypeCorrect == Spec => []TypeOK
<1>1. Init => TypeOK
  BY DEF Init, TypeOK, Busy, BusyPoints
<1>2. TypeOK /\ [Next]_vars => TypeOK'
  <2> SUFFICES ASSUME TypeOK, [Next]_vars PROVE TypeOK'
    OBVIOUS
  <2> USE DEF tables, request
  <2>1. CASE UNCHANGED vars
    BY <2>1 DEF TypeOK, vars, Busy
  <2>2. ASSUME NEW h \in Handlers, Busy(h), CommitEffect(h) \/ UNCHANGED tables
        PROVE  transactions' \in [Ids -> Payloads \cup {NoPayload}] /\ outbox' \subseteq Ids
    BY <2>2 DEF TypeOK, CommitEffect
  <2>3. ASSUME NEW h \in Handlers, Busy(h), CommitEffect(h) \/ UNCHANGED tables,
               NEW answer \in Answers, End(h, answer)
        PROVE  TypeOK'
    BY <2>2, <2>3, CloseType, ReplyType DEF TypeOK, End
  <2>4. ASSUME NEW h \in Handlers, Receive(h) PROVE TypeOK'
    BY <2>4 DEF TypeOK, Receive, GoTo, Busy, BusyPoints
  <2>5. ASSUME NEW h \in Handlers, GetTransaction(h) PROVE TypeOK'
    BY <2>3, <2>5
    DEF TypeOK, GetTransaction, GoTo, Busy, BusyPoints, Answers
  <2>6. ASSUME NEW h \in Handlers,
               CreateTransaction(h) \/ CreateOutboxEvent(h) \/ Rollback(h)
        PROVE  TypeOK'
    BY <2>6
    DEF TypeOK, CreateTransaction, CreateOutboxEvent, Rollback, GoTo, Busy, BusyPoints
  <2>7. ASSUME NEW h \in Handlers, Commit(h) \/ GetAfterConflict(h) \/ Fail(h)
        PROVE  TypeOK'
    BY <2>3, <2>7 DEF Commit, GetAfterConflict, Fail, Busy, BusyPoints, Answers
  <2>8. ASSUME NEW h \in Handlers, Crash(h) PROVE TypeOK'
    BY <2>2, <2>8, CloseType DEF TypeOK, Crash
  <2>9. QED
    BY <2>1, <2>4, <2>5, <2>6, <2>7, <2>8 DEF Next, Progress
<1>3. QED
  BY <1>1, <1>2, PTL DEF Spec

-----------------------------------------------------------------------------
(* Tables *)

\* A handler whose commit takes effect holds the key of its id.
LEMMA TablesStep ==
  ASSUME TypeOK, IngestionInv, [Next]_vars
  PROVE  \/ UNCHANGED tables
         \/ \E h \in Handlers : Busy(h) /\ holds[h] /\ ~ Exists(h) /\ CommitEffect(h)
BY DEF Next, Progress, Receive, GetTransaction, CreateTransaction,
       CreateOutboxEvent, Commit, Rollback, GetAfterConflict, Fail, Crash, vars,
       IngestionInv, KeyInv, Busy, BusyPoints

\* The first payload committed under an id stays.
LEMMA WriteOnce ==
  ASSUME TypeOK, IngestionInv, [Next]_vars, NEW i \in Ids, transactions[i] # NoPayload
  PROVE  transactions'[i] = transactions[i]
BY TablesStep DEF tables, CommitEffect, TypeOK, Exists

\* Every step preserves the invariant that the safety theorems rest on.
LEMMA IngestionStep == TypeOK /\ IngestionInv /\ [Next]_vars => IngestionInv'
<1> SUFFICES ASSUME TypeOK, IngestionInv, [Next]_vars PROVE IngestionInv'
  OBVIOUS
<1>1. StoredWithEvent'
  BY TablesStep DEF tables, CommitEffect, TypeOK, Exists, IngestionInv, StoredWithEvent
<1>2. \A i \in Ids, p \in Payloads, answer \in {"accepted", "already_accepted", "conflict"} :
        Answered(i, p, answer)' =>
          \/ Answered(i, p, answer)
          \/ /\ answer \in {"accepted", "already_accepted"}
             /\ transactions'[i] = p
          \/ /\ answer = "conflict"
             /\ transactions[i] \notin {p, NoPayload}
  <2> SUFFICES ASSUME NEW i \in Ids, NEW p \in Payloads,
                      NEW answer \in {"accepted", "already_accepted", "conflict"},
                      Answered(i, p, answer)', ~ Answered(i, p, answer)
               PROVE  \/ /\ answer \in {"accepted", "already_accepted"}
                         /\ transactions'[i] = p
                      \/ /\ answer = "conflict"
                         /\ transactions[i] \notin {p, NoPayload}
    OBVIOUS
  <2>1. ASSUME NEW h \in Handlers, NEW said, Reply(h, said)
        PROVE  said = answer /\ id[h] = i /\ payload[h] = p
    BY <2>1 DEF Reply, Answered
  <2>2. replies' # replies
    BY DEF Answered
  <2>3. CASE \E h \in Handlers : GetTransaction(h)
    BY <2>1, <2>2, <2>3 DEF GetTransaction, End, Matches, Exists, tables
  <2>4. CASE \E h \in Handlers : Commit(h)
    BY <2>1, <2>4 DEF Commit, CommitEffect, End, TypeOK
  <2>5. CASE \E h \in Handlers : GetAfterConflict(h)
    <3>1. PICK h \in Handlers : GetAfterConflict(h)
      BY <2>5
    <3>2. Exists(h)
      BY <3>1 DEF GetAfterConflict, IngestionInv, KeyInv
    <3>3. QED
      BY <2>1, <3>1, <3>2 DEF GetAfterConflict, End, Matches, Exists, tables
  <2>6. CASE \E h \in Handlers : Fail(h)
    BY <2>1, <2>6 DEF Fail, End
  <2>7. QED
    BY <2>2, <2>3, <2>4, <2>5, <2>6
    DEF Next, Progress, vars, Receive, CreateTransaction, CreateOutboxEvent,
        Rollback, Crash
<1>3. AcceptedIsStored'
  <2> SUFFICES ASSUME NEW i \in Ids, NEW p \in Payloads,
                      NEW answer \in {"accepted", "already_accepted"},
                      Answered(i, p, answer)'
               PROVE  transactions'[i] = p
    BY DEF AcceptedIsStored
  <2>1. CASE Answered(i, p, answer)
    <3>1. transactions[i] = p /\ p # NoPayload
      BY <2>1 DEF IngestionInv, AcceptedIsStored
    <3>2. QED
      BY <3>1, WriteOnce
  <2>2. QED
    BY <1>2, <2>1
<1>4. ConflictIsReal'
  <2> SUFFICES ASSUME NEW i \in Ids, NEW p \in Payloads, Answered(i, p, "conflict")'
               PROVE  transactions'[i] \notin {p, NoPayload}
    BY DEF ConflictIsReal
  <2>1. transactions[i] \notin {p, NoPayload}
    BY <1>2 DEF IngestionInv, ConflictIsReal
  <2>2. QED
    BY <2>1, WriteOnce
<1>5. KeyInv'
  <2> USE DEF KeyInv, Exists, TypeOK, tables, request, GoTo
  <2>1. CASE UNCHANGED vars
    BY <2>1 DEF IngestionInv, vars
  <2>2. ASSUME NEW h \in Handlers, Receive(h) PROVE KeyInv'
    BY <2>2 DEF IngestionInv, Receive
  <2>3. ASSUME NEW h \in Handlers, Close(h), UNCHANGED tables PROVE KeyInv'
    BY <2>3 DEF IngestionInv, Close
  <2>4. ASSUME NEW h \in Handlers, holds[h], Close(h), CommitEffect(h)
        PROVE  KeyInv'
    <3>1. \A g \in Handlers \ {h} : holds[g] => transactions'[id[g]] = transactions[id[g]]
      BY <2>4 DEF IngestionInv, CommitEffect
    <3>2. \A g \in Handlers \ {h} :
             pc[g] \in {"rollback", "get_after_conflict"} => transactions'[id[g]] # NoPayload
      BY <2>4, WriteOnce DEF IngestionInv, Busy, BusyPoints
    <3>3. QED
      BY <2>4, <3>1, <3>2 DEF IngestionInv, Close
  <2>5. ASSUME NEW h \in Handlers, GetTransaction(h) PROVE KeyInv'
    BY <2>3, <2>5 DEF IngestionInv, GetTransaction, End
  <2>6. ASSUME NEW h \in Handlers, CreateTransaction(h) PROVE KeyInv'
    BY <2>6 DEF IngestionInv, CreateTransaction
  <2>7. ASSUME NEW h \in Handlers, CreateOutboxEvent(h) PROVE KeyInv'
    <3>1. id[h] \in Ids /\ id[h] \notin outbox
      BY <2>7 DEF IngestionInv, CreateOutboxEvent, StoredWithEvent, Busy, BusyPoints
    <3>2. QED
      BY <2>7, <3>1 DEF IngestionInv, CreateOutboxEvent
  <2>8. ASSUME NEW h \in Handlers, Rollback(h) PROVE KeyInv'
    BY <2>8 DEF IngestionInv, Rollback
  <2>9. ASSUME NEW h \in Handlers,
               Commit(h) \/ GetAfterConflict(h) \/ Fail(h) \/ Crash(h)
        PROVE  KeyInv'
    BY <2>3, <2>4, <2>9
    DEF IngestionInv, Commit, GetAfterConflict, Fail, Crash, End
  <2>10. QED
    BY <2>1, <2>2, <2>5, <2>6, <2>7, <2>8, <2>9 DEF Next, Progress
<1>6. QED
  BY <1>1, <1>3, <1>4, <1>5 DEF IngestionInv

\* Every reachable state satisfies it.
LEMMA IngestionAlways == Spec => []IngestionInv
<1>1. Init => IngestionInv
  BY DEF Init, IngestionInv, KeyInv, StoredWithEvent, AcceptedIsStored,
         ConflictIsReal, Answered, Exists
<1>2. QED
  BY <1>1, TypeCorrect, IngestionStep, PTL DEF Spec

\* A transaction and its outbox event are stored together or not at all.
THEOREM OutboxIsTransactional == Spec => []StoredWithEvent
BY IngestionAlways, PTL DEF IngestionInv

\* An accepted payload is the stored one.
THEOREM AcceptanceIsDurable == Spec => []AcceptedIsStored
BY IngestionAlways, PTL DEF IngestionInv

\* A conflict is never answered to the payload that is stored.
THEOREM ConflictIsDeserved == Spec => []ConflictIsReal
BY IngestionAlways, PTL DEF IngestionInv

\* Only one request of an id is told that it was the first.
THEOREM SingleAcceptance == Spec => []AcceptedOnce
<1>1. TypeOK /\ IngestionInv => AcceptedOnce
  BY DEF TypeOK, IngestionInv, KeyInv, Exists, AcceptedIsStored, AcceptedOnce,
         Busy, BusyPoints
<1>2. QED
  BY <1>1, TypeCorrect, IngestionAlways, PTL

\* What is stored under an id never changes.
THEOREM FirstWriteStays == Spec => FirstWriteWins
<1>1. TypeOK /\ IngestionInv /\ [Next]_vars
        => [\A i \in Ids :
              transactions[i] # NoPayload => transactions'[i] = transactions[i]]_vars
  BY WriteOnce
<1>2. QED
  BY <1>1, TypeCorrect, IngestionAlways, PTL DEF Spec, FirstWriteWins

-----------------------------------------------------------------------------
(* The ledger *)

\* A commit that takes effect is the step in which the ledger accepts, whatever
\* its client hears of it.
LEMMA CommitAccepts ==
  ASSUME TypeOK, NEW h \in Handlers, Busy(h), ~ Exists(h), CommitEffect(h),
         Reply(h, "accepted") \/ Reply(h, "error") \/ UNCHANGED replies
  PROVE  OneByOne!Next
<1>1. id[h] \in Ids /\ payload[h] \in Payloads
  BY DEF TypeOK
<1>2. OneByOne!Accept(id[h], payload[h])
  BY DEF Exists, CommitEffect, Reply, OneByOne!Accept, OneByOne!Answer
<1>3. QED
  BY <1>1, <1>2 DEF OneByOne!Next

\* The answer to a request that has found a row is the ledger's.
LEMMA LookupCompares ==
  ASSUME TypeOK, NEW h \in Handlers, Busy(h), Exists(h), UNCHANGED tables,
         Reply(h, IF Matches(h) THEN "already_accepted" ELSE "conflict")
  PROVE  OneByOne!Next
<1>1. id[h] \in Ids /\ payload[h] \in Payloads
  BY DEF TypeOK
<1>2. OneByOne!Compare(id[h], payload[h])
  BY DEF Exists, Matches, Reply, tables, OneByOne!Compare, OneByOne!Answer
<1>3. QED
  BY <1>1, <1>2 DEF OneByOne!Next

\* A failure before the commit took effect is the ledger's.
LEMMA FailureFails ==
  ASSUME TypeOK, NEW h \in Handlers, Busy(h), UNCHANGED tables, Reply(h, "error")
  PROVE  OneByOne!Next
<1>1. id[h] \in Ids /\ payload[h] \in Payloads
  BY DEF TypeOK
<1>2. OneByOne!Fail(id[h], payload[h])
  BY DEF Reply, tables, OneByOne!Fail, OneByOne!Answer
<1>3. QED
  BY <1>1, <1>2 DEF OneByOne!Next

\* Every step of the handlers is a step of the ledger or changes nothing of it.
LEMMA StepOfLedger ==
  ASSUME TypeOK, IngestionInv, [Next]_vars
  PROVE  [OneByOne!Next]_(OneByOne!vars)
<1> USE DEF OneByOne!vars
<1>1. CASE UNCHANGED <<tables, replies>>
  BY <1>1 DEF tables
<1>2. ASSUME NEW h \in Handlers, Receive(h) PROVE UNCHANGED <<tables, replies>>
  BY <1>2 DEF Receive
<1>3. ASSUME NEW h \in Handlers,
             CreateTransaction(h) \/ CreateOutboxEvent(h) \/ Rollback(h)
      PROVE  UNCHANGED <<tables, replies>>
  BY <1>3 DEF CreateTransaction, CreateOutboxEvent, Rollback
<1>4. ASSUME NEW h \in Handlers, GetTransaction(h)
      PROVE  OneByOne!Next \/ UNCHANGED <<tables, replies>>
  BY <1>4, LookupCompares DEF GetTransaction, End, Busy, BusyPoints
<1>5. ASSUME NEW h \in Handlers, pc[h] = "commit"
      PROVE  Busy(h) /\ ~ Exists(h)
  BY <1>5 DEF IngestionInv, KeyInv, Busy, BusyPoints
<1>6. ASSUME NEW h \in Handlers, Commit(h) PROVE OneByOne!Next
  BY <1>5, <1>6, CommitAccepts DEF Commit, End
<1>7. ASSUME NEW h \in Handlers, GetAfterConflict(h) PROVE OneByOne!Next
  <2>1. Busy(h) /\ Exists(h)
    BY <1>7 DEF GetAfterConflict, IngestionInv, KeyInv, Busy, BusyPoints
  <2>2. QED
    BY <1>7, <2>1, LookupCompares DEF GetAfterConflict, End
<1>8. ASSUME NEW h \in Handlers, Fail(h) PROVE OneByOne!Next
  BY <1>5, <1>8, CommitAccepts, FailureFails DEF Fail, End
<1>9. ASSUME NEW h \in Handlers, Crash(h)
      PROVE  OneByOne!Next \/ UNCHANGED <<tables, replies>>
  BY <1>5, <1>9, CommitAccepts DEF Crash
<1>10. QED
  BY <1>1, <1>2, <1>3, <1>4, <1>6, <1>7, <1>8, <1>9 DEF Next, Progress, vars

\* Any number of concurrent requests, with lost answers and deaths, is answered as
\* by a ledger that handles one request at a time.
THEOREM HandlersKeepLedger == Spec => ImplementsLedger
<1>1. Init => OneByOne!Init
  BY DEF Init, OneByOne!Init
<1>2. QED
  BY <1>1, TypeCorrect, IngestionAlways, StepOfLedger, PTL
  DEF Spec, ImplementsLedger, OneByOne!Spec
=============================================================================
