---------------------------- MODULE OutboxProofs ----------------------------
(***************************************************************************)
(* Theorems about OutboxDispatcher, for any number of dispatchers and rows *)
(* and any bound on the faults.                                            *)
(***************************************************************************)
EXTENDS OutboxDispatcher, TLAPS

USE OutboxAssumption

-----------------------------------------------------------------------------
(* Types *)

\* Of what publish raises, only the exceptions listed as transient are retried.
LEMMA OutcomeOfType == OutcomeOf("value") = "failed" /\ OutcomeOf("redis") = "retry"
BY DEF OutcomeOf, IsTransient, TransientKinds

\* A committed batch leaves well-typed rows.
LEMMA CommitType ==
  ASSUME TypeOK, NEW d \in Dispatchers, CommitEffect(d)
  PROVE  /\ status' \in [Rows -> RowStatuses]
         /\ attempts' \in [Rows -> 0 .. 3]
         /\ wait' \in [Rows -> Nat]
<1>1. \A r \in Rows : CountAttempt(attempts[r]) \in 1 .. 3
  BY DEF TypeOK, CountAttempt
<1>2. \A delay \in Nat : Remaining(d, delay) \in Nat
  BY DEF TypeOK, Remaining
<1>3. status' \in [Rows -> RowStatuses]
  BY DEF TypeOK, CommitEffect, RowStatuses
<1>4. attempts' \in [Rows -> 0 .. 3]
  BY <1>1 DEF TypeOK, CommitEffect
<1>5. \A r \in Rows : Remaining(d, Backoff[CountAttempt(attempts[r])]) \in Nat
  BY <1>1, <1>2
<1>6. wait' \in [Rows -> Nat]
  BY <1>5 DEF TypeOK, CommitEffect
<1>7. QED
  BY <1>3, <1>4, <1>6

\* The end of a dispatcher's session keeps the declared types.
LEMMA CloseType ==
  ASSUME TypeOK, NEW d \in Dispatchers, NEW point \in {"polling", "down"},
         Close(d, point)
  PROVE  /\ pc' \in [Dispatchers -> {"polling", "publishing", "down"}]
         /\ batch' \in [Dispatchers -> SUBSET Rows]
         /\ outcome' \in [Dispatchers -> [Rows -> Outcomes]]
         /\ age' \in [Dispatchers -> Nat]
BY DEF TypeOK, Close, Outcomes

\* Noting the outcome of a row keeps the declared types.
LEMMA NoteType ==
  ASSUME TypeOK, NEW d \in Dispatchers, NEW r \in Rows,
         NEW result \in Outcomes, Note(d, r, result)
  PROVE  outcome' \in [Dispatchers -> [Rows -> Outcomes]]
BY DEF TypeOK, Note

\* Every state of a run has the declared types.
THEOREM TypeCorrect == Spec => []TypeOK
<1>1. Init => TypeOK
  BY DEF Init, TypeOK, RowStatuses, Outcomes
<1>2. TypeOK /\ [Next]_vars => TypeOK'
  <2> SUFFICES ASSUME TypeOK, [Next]_vars PROVE TypeOK'
    OBVIOUS
  <2> USE DEF TypeOK, outbox, control
  <2>1. CASE UNCHANGED vars
    BY <2>1 DEF vars
  <2>2. ASSUME NEW r \in Rows, Insert(r) PROVE TypeOK'
    BY <2>2 DEF Insert, RowStatuses
  <2>3. ASSUME NEW d \in Dispatchers, Poll(d) PROVE TypeOK'
    BY <2>3 DEF Poll, NextBatch, Due
  <2>4. ASSUME NEW d \in Dispatchers, NEW r \in Rows,
               \/ Publish(d, r) \/ Reject(d, r)
               \/ PublishRefused(d, r) \/ PublishReplyLost(d, r)
        PROVE  TypeOK'
    <3>1. outcome' \in [Dispatchers -> [Rows -> Outcomes]]
      BY <2>4, NoteType, OutcomeOfType
      DEF Publish, Reject, PublishRefused, PublishReplyLost, Outcomes
    <3>2. QED
      BY <2>4, <3>1 DEF Publish, Reject, PublishRefused, PublishReplyLost
  <2>5. ASSUME NEW d \in Dispatchers, Commit(d) PROVE TypeOK'
    BY <2>5, CommitType, CloseType DEF Commit
  <2>6. ASSUME NEW d \in Dispatchers, Crash(d) PROVE TypeOK'
    <3>1. faults' \in 0 .. MaxFaults
      BY <2>6 DEF Crash
    <3>2. /\ status' \in [Rows -> RowStatuses]
          /\ attempts' \in [Rows -> 0 .. 3]
          /\ wait' \in [Rows -> Nat]
      BY <2>6, CommitType DEF Crash
    <3>3. sent' \in [Rows -> Nat] /\ surplus' \in [Rows -> Nat]
      BY <2>6 DEF Crash, AddSurplus
    <3>4. QED
      BY <2>6, <3>1, <3>2, <3>3, CloseType DEF Crash
  <2>7. ASSUME NEW d \in Dispatchers, Stop(d) \/ Restart(d) PROVE TypeOK'
    BY <2>7 DEF Stop, Restart
  <2>8. CASE Tick
    BY <2>8 DEF Tick
  <2>9. QED
    BY <2>1, <2>2, <2>3, <2>4, <2>5, <2>6, <2>7, <2>8 DEF Next, Progress
<1>3. QED
  BY <1>1, <1>2, PTL DEF Spec

-----------------------------------------------------------------------------
(* Locks *)

\* Every step keeps the batches disjoint and their outcomes right.
LEMMA LockStep == TypeOK /\ LockInv /\ [Next]_vars => LockInv'
<1> SUFFICES ASSUME TypeOK, LockInv, [Next]_vars PROVE LockInv'
  OBVIOUS
<1> USE DEF TypeOK, LockInv, BatchesDisjoint, outbox, control
<1>1. CASE UNCHANGED vars
  BY <1>1 DEF vars
<1>2. ASSUME NEW r \in Rows, Insert(r) PROVE LockInv'
  BY <1>2 DEF Insert
<1>3. ASSUME NEW d \in Dispatchers, Poll(d) PROVE LockInv'
  <2>1. NextBatch \subseteq Due
    BY DEF NextBatch
  <2>2. \A c \in Dispatchers : NextBatch \cap batch[c] = {}
    BY DEF NextBatch, Locked
  <2>3. \A r \in NextBatch : status[r] = "pending"
    BY <2>1 DEF Due
  <2>4. QED
    BY <1>3, <2>2, <2>3 DEF Poll
<1>4. ASSUME NEW d \in Dispatchers, NEW r \in Rows,
             \/ Publish(d, r) \/ Reject(d, r)
             \/ PublishRefused(d, r) \/ PublishReplyLost(d, r)
      PROVE  LockInv'
  <2>1. r \in batch[d] /\ UNCHANGED <<pc, batch, status>>
    BY <1>4 DEF Publish, Reject, PublishRefused, PublishReplyLost, IsCurrent
  <2>2. PICK result \in Outcomes :
           Note(d, r, result) /\ (result = "failed" => r \in Malformed)
    BY <1>4, OutcomeOfType
    DEF Publish, Reject, PublishRefused, PublishReplyLost, Outcomes
  <2>3. QED
    BY <2>1, <2>2 DEF Note
<1>5. ASSUME NEW d \in Dispatchers, NEW point \in {"polling", "down"},
             Close(d, point), CommitEffect(d) \/ UNCHANGED status
      PROVE  LockInv'
  <2>1. \A c \in Dispatchers \ {d} : \A r \in batch[c] : status'[r] = status[r]
    <3>1. \A c \in Dispatchers \ {d} : \A r \in batch[c] : r \in Rows /\ outcome[d][r] = "none"
      OBVIOUS
    <3>2. QED
      BY <1>5, <3>1 DEF CommitEffect
  <2>2. QED
    BY <1>5, <2>1 DEF Close
<1>6. ASSUME NEW d \in Dispatchers, Commit(d) \/ Crash(d) PROVE LockInv'
  BY <1>5, <1>6 DEF Commit, Crash
<1>7. ASSUME NEW d \in Dispatchers, Stop(d) \/ Restart(d) PROVE LockInv'
  <2>1. UNCHANGED <<status, batch, outcome>>
    BY <1>7 DEF Stop, Restart
  <2>2. \A c \in Dispatchers : pc'[c] # "publishing" => batch[c] = {}
    BY <1>7 DEF Stop, Restart
  <2>3. QED
    BY <2>1, <2>2
<1>8. CASE Tick
  BY <1>8 DEF Tick
<1>9. QED
  BY <1>1, <1>2, <1>3, <1>4, <1>6, <1>7, <1>8 DEF Next, Progress

\* Every reachable state satisfies LockInv.
LEMMA LockAlways == Spec => []LockInv
<1>1. Init => LockInv
  BY DEF Init, LockInv, BatchesDisjoint
<1>2. QED
  BY <1>1, TypeCorrect, LockStep, PTL DEF Spec

\* No two dispatchers ever work on the same row.
THEOREM Disjointness == Spec => []BatchesDisjoint
BY LockAlways, PTL DEF LockInv

\* Only an invalid event makes a row fail.
THEOREM NoValidRowFails == Spec => []OnlyMalformedFails
<1>1. Init => OnlyMalformedFails
  BY DEF Init, OnlyMalformedFails
<1>2. TypeOK /\ LockInv /\ OnlyMalformedFails /\ [Next]_vars => OnlyMalformedFails'
  <2> SUFFICES ASSUME TypeOK, LockInv, OnlyMalformedFails, [Next]_vars
               PROVE  OnlyMalformedFails'
    OBVIOUS
  <2> USE DEF OnlyMalformedFails, outbox
  <2>1. ASSUME NEW d \in Dispatchers, CommitEffect(d) PROVE OnlyMalformedFails'
    BY <2>1 DEF CommitEffect, LockInv
  <2>2. ASSUME NEW r \in Rows, Insert(r) PROVE OnlyMalformedFails'
    BY <2>2 DEF Insert, TypeOK
  <2>3. CASE status' = status
    BY <2>3
  <2>4. QED
    BY <2>1, <2>2, <2>3
    DEF Next, Progress, vars, Poll, Publish, Reject, PublishRefused,
        PublishReplyLost, Commit, Crash, Stop, Restart, Tick
<1>3. QED
  BY <1>1, <1>2, TypeCorrect, LockAlways, PTL DEF Spec

\* A settled row keeps its status and gets no further stream entry.
THEOREM Finality == Spec => SettledIsFinal
<1>1. TypeOK /\ LockInv /\ [Next]_vars =>
        [\A r \in Rows : status[r] \in {"published", "failed"}
            => status'[r] = status[r] /\ sent'[r] = sent[r]]_vars
  <2> SUFFICES ASSUME TypeOK, LockInv, [Next]_vars, NEW r \in Rows,
                      status[r] \in {"published", "failed"}
               PROVE  status'[r] = status[r] /\ sent'[r] = sent[r]
    OBVIOUS
  <2> USE DEF outbox
  <2>1. \A d \in Dispatchers : r \notin batch[d] /\ outcome[d][r] = "none"
    BY DEF LockInv
  <2>2. status'[r] = status[r]
    BY <2>1
    DEF TypeOK, Next, Progress, vars, Insert, Poll, Publish, Reject, PublishRefused,
        PublishReplyLost, Commit, Crash, Stop, Restart, Tick, CommitEffect
  <2>3. sent'[r] = sent[r]
    <3>1. ASSUME NEW d \in Dispatchers, NEW q \in Rows, IsCurrent(d, q),
                 sent' = [sent EXCEPT ![q] = @ + 1]
          PROVE  sent'[r] = sent[r]
      <4>1. q # r
        BY <2>1, <3>1 DEF IsCurrent
      <4>2. QED
        BY <3>1, <4>1 DEF TypeOK
    <3>2. CASE sent' = sent
      BY <3>2
    <3>3. QED
      BY <3>1, <3>2
      DEF Next, Progress, vars, Insert, Poll, Publish, Reject, PublishRefused,
          PublishReplyLost, Commit, Crash, Stop, Restart, Tick
  <2>4. QED
    BY <2>2, <2>3
<1>2. QED
  BY <1>1, TypeCorrect, LockAlways, PTL DEF Spec, SettledIsFinal

-----------------------------------------------------------------------------
(* Duplicates *)

\* The stream entries of one row, as DuplicatesHaveCause counts them.
Accounted(r) ==
    sent[r] = surplus[r] + (IF status[r] = "published" \/ BeingRecorded(r)
                            THEN 1 ELSE 0)

\* A step that leaves r's entries, its status and its pending outcome alone.
LEMMA UntouchedRow ==
  ASSUME NEW r \in Rows, Accounted(r), sent'[r] = sent[r],
         surplus'[r] = surplus[r], BeingRecorded(r)' <=> BeingRecorded(r),
         (status'[r] = "published") <=> (status[r] = "published")
  PROVE  Accounted(r)'
BY DEF Accounted

\* Every step keeps the account of publications and records of a row.
LEMMA DuplicateStep ==
  TypeOK /\ LockInv /\ LockInv' /\ DuplicatesHaveCause /\ [Next]_vars
      => DuplicatesHaveCause'
<1> SUFFICES ASSUME TypeOK, LockInv, LockInv', DuplicatesHaveCause, [Next]_vars,
                    NEW r \in Rows
             PROVE  Accounted(r)'
  BY DEF DuplicatesHaveCause, Accounted
<1>0. Accounted(r)
  BY DEF DuplicatesHaveCause, Accounted
<1> USE DEF outbox, control
<1>1. \A c, d \in Dispatchers : r \in batch[c] /\ r \in batch[d] => c = d
  BY DEF LockInv, BatchesDisjoint
<1>2. \A d \in Dispatchers : r \in batch[d] => status[r] = "pending"
  BY DEF LockInv
<1>3. CASE UNCHANGED <<sent, surplus, batch, outcome>>
            /\ ((status'[r] = "published") <=> (status[r] = "published"))
  BY <1>0, <1>3, UntouchedRow DEF BeingRecorded, Unrecorded
<1>4. ASSUME NEW d \in Dispatchers, Poll(d) PROVE Accounted(r)'
  <2>1. batch[d] = {}
    BY <1>4 DEF Poll, LockInv
  <2>2. \A c \in Dispatchers : Unrecorded(c)' = Unrecorded(c)
    <3>1. \A q \in Rows : outcome[d][q] = "none"
      BY <2>1 DEF LockInv, TypeOK
    <3>2. NextBatch \subseteq Rows
      BY DEF NextBatch, Due
    <3>3. QED
      BY <1>4, <2>1, <3>1, <3>2 DEF Poll, Unrecorded, TypeOK
  <2>3. QED
    BY <1>0, <1>4, <2>2, UntouchedRow DEF Poll, BeingRecorded
<1>5. ASSUME NEW d \in Dispatchers, NEW q \in Rows, IsCurrent(d, q),
             NEW result \in Outcomes, Note(d, q, result), UNCHANGED <<batch, status>>,
             \/ result # "published" /\ UNCHANGED <<sent, surplus>>
             \/ /\ result # "published"
                /\ sent' = [sent EXCEPT ![q] = @ + 1]
                /\ surplus' = [surplus EXCEPT ![q] = @ + 1]
             \/ /\ result = "published"
                /\ sent' = [sent EXCEPT ![q] = @ + 1]
                /\ surplus' = surplus
      PROVE  Accounted(r)'
  <2>1. CASE q # r
    <3>1. \A c \in Dispatchers : outcome'[c][r] = outcome[c][r]
      BY <1>5, <2>1 DEF Note, TypeOK
    <3>2. BeingRecorded(r)' <=> BeingRecorded(r)
      BY <1>5, <3>1 DEF BeingRecorded, Unrecorded
    <3>3. sent'[r] = sent[r] /\ surplus'[r] = surplus[r]
      BY <1>5, <2>1 DEF TypeOK
    <3>4. QED
      BY <1>0, <1>5, <3>2, <3>3, UntouchedRow
  <2>2. CASE q = r
    <3>1. status[r] = "pending" /\ status'[r] = "pending"
      BY <1>2, <1>5, <2>2 DEF IsCurrent
    <3>2. ~ BeingRecorded(r)
      BY <1>1, <1>5, <2>2 DEF IsCurrent, BeingRecorded, Unrecorded
    <3>3. sent[r] = surplus[r] /\ surplus[r] \in Nat
      BY <1>0, <3>1, <3>2 DEF Accounted, TypeOK
    <3>4. outcome'[d][r] = result /\ r \in batch'[d]
      BY <1>5, <2>2 DEF Note, IsCurrent, TypeOK
    <3>5. BeingRecorded(r)' <=> result = "published"
      <4>1. \A c \in Dispatchers \ {d} : r \notin batch'[c]
        BY <1>1, <1>5, <2>2 DEF IsCurrent
      <4>2. QED
        BY <3>4, <4>1 DEF BeingRecorded, Unrecorded
    <3>6. CASE result = "published"
      <4>1. sent'[r] = sent[r] + 1 /\ surplus'[r] = surplus[r]
        BY <1>5, <2>2, <3>6 DEF TypeOK
      <4>2. QED
        BY <3>3, <3>5, <3>6, <4>1 DEF Accounted
    <3>7. CASE result # "published"
      <4>1. \/ sent'[r] = sent[r] /\ surplus'[r] = surplus[r]
            \/ sent'[r] = sent[r] + 1 /\ surplus'[r] = surplus[r] + 1
        BY <1>5, <2>2, <3>7 DEF TypeOK
      <4>2. QED
        BY <3>1, <3>3, <3>5, <3>7, <4>1 DEF Accounted
    <3>8. QED
      BY <3>6, <3>7
  <2>3. QED
    BY <2>1, <2>2
<1>6. ASSUME NEW d \in Dispatchers, NEW q \in Rows,
             \/ Publish(d, q) \/ Reject(d, q)
             \/ PublishRefused(d, q) \/ PublishReplyLost(d, q)
      PROVE  Accounted(r)'
  BY <1>5, <1>6, OutcomeOfType
  DEF Publish, Reject, PublishRefused, PublishReplyLost, Outcomes
<1>7. ASSUME NEW d \in Dispatchers, NEW point \in {"polling", "down"}, Close(d, point)
      PROVE  BeingRecorded(r)' <=> (BeingRecorded(r) /\ r \notin Unrecorded(d))
  <2>1. r \notin batch'[d]
    BY <1>7 DEF Close, TypeOK
  <2>2. \A c \in Dispatchers \ {d} : batch'[c] = batch[c] /\ outcome'[c] = outcome[c]
    BY <1>7 DEF Close, TypeOK
  <2>3. r \in Unrecorded(d) => \A c \in Dispatchers \ {d} : r \notin Unrecorded(c)
    BY <1>1 DEF Unrecorded
  <2>4. QED
    BY <2>1, <2>2, <2>3 DEF BeingRecorded, Unrecorded
<1>8. ASSUME NEW d \in Dispatchers, NEW point \in {"polling", "down"},
             Close(d, point), CommitEffect(d), UNCHANGED <<sent, surplus>>
      PROVE  Accounted(r)'
  <2>1. CASE r \in Unrecorded(d)
    <3>1. status'[r] = "published" /\ BeingRecorded(r)
      BY <1>8, <2>1 DEF CommitEffect, Unrecorded, BeingRecorded
    <3>2. QED
      BY <1>0, <1>8, <3>1 DEF Accounted
  <2>2. CASE r \notin Unrecorded(d)
    <3>1. outcome[d][r] # "published"
      BY <2>2 DEF Unrecorded, LockInv
    <3>2. outcome[d][r] # "none" => status[r] = "pending"
      BY <1>2 DEF LockInv
    <3>3. (status'[r] = "published") <=> (status[r] = "published")
      BY <1>8, <3>1, <3>2 DEF CommitEffect
    <3>4. BeingRecorded(r)' <=> BeingRecorded(r)
      BY <1>7, <1>8, <2>2
    <3>5. QED
      BY <1>0, <1>8, <3>3, <3>4, UntouchedRow
  <2>3. QED
    BY <2>1, <2>2
<1>9. ASSUME NEW d \in Dispatchers, Close(d, "down"), AddSurplus(Unrecorded(d)),
             UNCHANGED <<status, sent>>
      PROVE  Accounted(r)'
  <2>1. BeingRecorded(r)' <=> (BeingRecorded(r) /\ r \notin Unrecorded(d))
    BY <1>7, <1>9
  <2>2. CASE r \in Unrecorded(d)
    <3>1. status[r] # "published" /\ BeingRecorded(r)
      BY <1>2, <2>2 DEF Unrecorded, BeingRecorded
    <3>2. surplus'[r] = surplus[r] + 1 /\ surplus[r] \in Nat
      BY <1>9, <2>2 DEF AddSurplus, TypeOK
    <3>3. QED
      BY <1>0, <1>9, <2>1, <2>2, <3>1, <3>2 DEF Accounted
  <2>3. CASE r \notin Unrecorded(d)
    BY <1>0, <1>9, <2>1, <2>3, UntouchedRow DEF AddSurplus
  <2>4. QED
    BY <2>2, <2>3
<1>10. ASSUME NEW d \in Dispatchers, Close(d, "down"), NEW q \in Rows,
              IsCurrent(d, q), sent' = [sent EXCEPT ![q] = @ + 1],
              AddSurplus(Unrecorded(d) \cup {q}), UNCHANGED status
       PROVE  Accounted(r)'
  <2>1. BeingRecorded(r)' <=> (BeingRecorded(r) /\ r \notin Unrecorded(d))
    BY <1>7, <1>10
  <2>2. sent[r] \in Nat /\ surplus[r] \in Nat
    BY DEF TypeOK
  <2>3. CASE r = q
    <3>1. status[r] # "published" /\ ~ BeingRecorded(r)
      BY <1>1, <1>2, <1>10, <2>3 DEF IsCurrent, BeingRecorded, Unrecorded
    <3>2. sent'[r] = sent[r] + 1 /\ surplus'[r] = surplus[r] + 1
      BY <1>10, <2>3 DEF AddSurplus, TypeOK
    <3>3. QED
      BY <1>0, <1>10, <2>1, <2>2, <3>1, <3>2 DEF Accounted
  <2>4. CASE r # q /\ r \in Unrecorded(d)
    <3>1. status[r] # "published" /\ BeingRecorded(r)
      BY <1>2, <2>4 DEF Unrecorded, BeingRecorded
    <3>2. surplus'[r] = surplus[r] + 1 /\ sent'[r] = sent[r]
      BY <1>10, <2>4 DEF AddSurplus, TypeOK
    <3>3. QED
      BY <1>0, <1>10, <2>1, <2>2, <2>4, <3>1, <3>2 DEF Accounted
  <2>5. CASE r # q /\ r \notin Unrecorded(d)
    <3>1. surplus'[r] = surplus[r] /\ sent'[r] = sent[r]
      BY <1>10, <2>5 DEF AddSurplus, TypeOK
    <3>2. QED
      BY <1>0, <1>10, <2>1, <2>5, <3>1, UntouchedRow
  <2>6. QED
    BY <2>3, <2>4, <2>5
<1>11. ASSUME NEW d \in Dispatchers, Commit(d) \/ Crash(d) PROVE Accounted(r)'
  BY <1>8, <1>9, <1>10, <1>11 DEF Commit, Crash
<1>12. ASSUME NEW q \in Rows, Insert(q) PROVE Accounted(r)'
  <2>1. (status'[r] = "published") <=> (status[r] = "published")
    BY <1>12 DEF Insert, TypeOK
  <2>2. QED
    BY <1>3, <1>12, <2>1 DEF Insert
<1>13. ASSUME NEW d \in Dispatchers, Stop(d) \/ Restart(d) PROVE Accounted(r)'
  BY <1>3, <1>13 DEF Stop, Restart
<1>14. CASE Tick \/ UNCHANGED vars
  BY <1>3, <1>14 DEF Tick, vars
<1>15. QED
  BY <1>4, <1>6, <1>11, <1>12, <1>13, <1>14 DEF Next, Progress

\* Every surplus stream entry is owed to a publication that was not recorded.
THEOREM CausedDuplicates == Spec => []DuplicatesHaveCause
<1>1. Init => DuplicatesHaveCause
  BY DEF Init, DuplicatesHaveCause, BeingRecorded, Unrecorded
<1>2. QED
  BY <1>1, TypeCorrect, LockAlways, DuplicateStep, PTL DEF Spec

\* A row marked published is in the stream.
THEOREM PublishedIsInStream == Spec => []PublishedReachedStream
<1>1. TypeOK /\ DuplicatesHaveCause => PublishedReachedStream
  BY DEF TypeOK, DuplicatesHaveCause, PublishedReachedStream
<1>2. QED
  BY <1>1, TypeCorrect, CausedDuplicates, PTL

-----------------------------------------------------------------------------
(* The contract with the workers *)

\* Whatever the envelope accepts, deserialize_event accepts.
LEMMA ValidDeserializes ==
  ASSUME NEW e, ValidEnvelope(e)
  PROVE  Deserializes(e)
BY DEF ValidEnvelope, Deserializes, Supported, SupportedVersions

\* Every entry of the stream can be read by a worker.
THEOREM ReadableStream == Spec => []PublishedIsReadable
<1>1. Init => PublishedIsReadable
  BY DEF Init, PublishedIsReadable
<1>2. TypeOK /\ PublishedIsReadable /\ [Next]_vars => PublishedIsReadable'
  <2> SUFFICES ASSUME TypeOK, PublishedIsReadable, [Next]_vars
               PROVE  PublishedIsReadable'
    OBVIOUS
  <2>1. CASE sent' = sent
    BY <2>1 DEF PublishedIsReadable
  <2>2. ASSUME NEW r \in Rows, r \notin Malformed, sent' = [sent EXCEPT ![r] = @ + 1]
        PROVE  PublishedIsReadable'
    <3>1. Deserializes(Stored[r])
      BY <2>2, ValidDeserializes DEF Malformed
    <3>2. QED
      BY <2>2, <3>1 DEF PublishedIsReadable, TypeOK
  <2>3. QED
    BY <2>1, <2>2
    DEF Next, Progress, vars, Insert, Poll, Publish, Reject, PublishRefused,
        PublishReplyLost, Commit, Crash, Stop, Restart, Tick
<1>3. QED
  BY <1>1, <1>2, TypeCorrect, PTL DEF Spec

-----------------------------------------------------------------------------
(* The promise to the readers of the stream *)

\* The commit of a batch settles the rows whose outcomes say so.
LEMMA CommitSettles ==
  ASSUME TypeOK, LockInv, DuplicatesHaveCause, NEW d \in Dispatchers,
         CommitEffect(d), UNCHANGED sent
  PROVE  Promise!Next
<1> DEFINE published == {r \in Rows : outcome[d][r] = "published"}
           failed == {r \in Rows : outcome[d][r] = "failed"}
<1>1. \A r \in published \cup failed : r \in batch[d] /\ status[r] = "pending"
  BY DEF LockInv
<1>2. \A r \in published : sent[r] > 0
  <2> SUFFICES ASSUME NEW r \in published PROVE sent[r] > 0
    OBVIOUS
  <2>1. BeingRecorded(r)
    BY <1>1 DEF BeingRecorded, Unrecorded
  <2>2. sent[r] = surplus[r] + 1
    BY <2>1 DEF DuplicatesHaveCause
  <2>3. QED
    BY <2>2 DEF TypeOK
<1>3. failed \subseteq Malformed
  BY DEF LockInv
<1>4. status' = [r \in Rows |-> IF r \in published THEN "published"
                                ELSE IF r \in failed THEN "failed"
                                ELSE status[r]]
  BY DEF CommitEffect
<1>5. Promise!Settle(published, failed)
  <2> HIDE DEF published, failed
  <2> QED BY <1>1, <1>2, <1>3, <1>4 DEF Promise!Settle
<1>6. QED
  BY <1>5 DEF Promise!Next

\* An entry is added for a valid row that is locked, hence pending.
LEMMA PublishDelivers ==
  ASSUME TypeOK, LockInv, NEW d \in Dispatchers, NEW r \in Rows, IsCurrent(d, r),
         r \notin Malformed, sent' = [sent EXCEPT ![r] = @ + 1], UNCHANGED status
  PROVE  Promise!Next
<1>1. status[r] = "pending"
  BY DEF LockInv, IsCurrent
<1>2. Promise!Deliver(r)
  BY <1>1 DEF Promise!Deliver
<1>3. QED
  BY <1>2 DEF Promise!Next

\* Every step of the outbox is a step of Delivery or changes nothing of it.
LEMMA StepOfPromise ==
  ASSUME TypeOK, LockInv, DuplicatesHaveCause, [Next]_vars
  PROVE  [Promise!Next]_(Promise!vars)
<1> USE DEF outbox, Promise!vars
<1>1. CASE UNCHANGED <<status, sent>>
  BY <1>1
<1>2. ASSUME NEW r \in Rows, Insert(r) PROVE Promise!Next
  BY <1>2 DEF Insert, Promise!Next, Promise!Accept
<1>3. ASSUME NEW d \in Dispatchers, NEW r \in Rows,
             Publish(d, r) \/ PublishReplyLost(d, r)
      PROVE  Promise!Next
  BY <1>3, PublishDelivers DEF Publish, PublishReplyLost
<1>4. ASSUME NEW d \in Dispatchers, Commit(d) PROVE Promise!Next
  BY <1>4, CommitSettles DEF Commit
<1>5. ASSUME NEW d \in Dispatchers, Crash(d)
      PROVE  Promise!Next \/ UNCHANGED <<status, sent>>
  BY <1>5, CommitSettles, PublishDelivers DEF Crash
<1>6. ASSUME NEW d \in Dispatchers,
             \/ Poll(d) \/ Stop(d) \/ Restart(d)
             \/ \E r \in Rows : Reject(d, r) \/ PublishRefused(d, r)
      PROVE  UNCHANGED <<status, sent>>
  BY <1>6 DEF Poll, Stop, Restart, Reject, PublishRefused
<1>7. CASE Tick \/ UNCHANGED vars
  BY <1>7 DEF Tick, vars
<1>8. QED
  BY <1>1, <1>2, <1>3, <1>4, <1>5, <1>6, <1>7 DEF Next, Progress

\* Any number of dispatchers deliver an event only while its row is pending, and
\* settle a row only as what has become of its event.
THEOREM DispatchersKeepPromise == Spec => ImplementsDelivery
<1>1. Init => Promise!Init
  BY DEF Init, Promise!Init
<1>2. QED
  BY <1>1, TypeCorrect, LockAlways, CausedDuplicates, StepOfPromise, PTL
  DEF Spec, ImplementsDelivery, Promise!Spec
=============================================================================
