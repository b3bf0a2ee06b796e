-------------------------- MODULE OutboxDispatcher --------------------------
(***************************************************************************)
(* The transactional outbox and the dispatchers that drain it into the     *)
(* Redis stream (fraudlatch/dispatcher.py).                                *)
(*                                                                         *)
(* A dispatcher reads the clock, locks a batch of due pending rows with    *)
(* FOR UPDATE SKIP LOCKED, publishes them one by one, and commits the      *)
(* outcome of the whole batch at the end.  Whatever has reached the stream *)
(* by then stays there if the commit does not happen.                      *)
(*                                                                         *)
(* Rows are numbered in created_at order.  A row becomes visible when the  *)
(* API commits it, which may be after a later row.  Time is relative:      *)
(* wait[r] is what is left until next_attempt_at, age[d] what has passed   *)
(* since dispatcher d read the clock for its batch.                        *)
(***************************************************************************)
EXTENDS RetryPolicy, EventContract, FiniteSets

CONSTANTS
    Dispatchers,   \* dispatcher processes
    MaxRow,        \* number of outbox rows
    Stored,        \* the event that the API, or another writer, put in each row
    BatchSize,     \* OutboxDispatcher.batch_size
    Backoff,       \* delays after attempt 1, attempt 2 and any later attempt
    MaxFaults      \* bound on refused calls, lost replies, deaths and shutdowns

Rows == 1 .. MaxRow

ASSUME OutboxAssumption ==
    /\ MaxRow \in Nat
    /\ Stored \in [Rows -> Envelopes]
    /\ BatchSize \in Nat \ {0}
    /\ Backoff \in [1 .. 3 -> Nat \ {0}]
    /\ MaxFaults \in Nat

VARIABLES
    \* outbox_events, committed
    status, attempts, wait,
    \* Redis: sent[r] counts the stream entries that carry row r
    sent,
    \* dispatchers: the locked batch, its outcomes so far, and the time it took
    pc, batch, outcome, age,
    \* bounds and history: surplus[r] counts the times row r was added to the
    \* stream without that ever being recorded in its row
    faults, surplus

outbox == <<status, attempts, wait>>
control == <<pc, batch, outcome, age>>
vars == <<outbox, sent, control, faults, surplus>>

\* Rows whose stored event the envelope or its payload refuses.
Malformed == {r \in Rows : ~ ValidEnvelope(Stored[r])}

RowStatuses == {"absent", "pending", "published", "failed"}
Outcomes == {"none", "published", "retry", "failed"}

\* Mutant: one attempt more than there are delays.
CountOneMore(n) == IF n <= 3 THEN n + 1 ELSE 3

\* attempts is unbounded in the code and only compared with 1 and 2.
CountAttempt(n) == IF n < 3 THEN n + 1 ELSE 3

Longest == CHOOSE n \in {Backoff[1], Backoff[2], Backoff[3]} :
              \A i \in 1 .. 3 : n >= Backoff[i]

TypeOK ==
    /\ status \in [Rows -> RowStatuses]
    /\ attempts \in [Rows -> 0 .. 3]
    /\ wait \in [Rows -> Nat]
    /\ sent \in [Rows -> Nat]
    /\ pc \in [Dispatchers -> {"polling", "publishing", "down"}]
    /\ batch \in [Dispatchers -> SUBSET Rows]
    /\ outcome \in [Dispatchers -> [Rows -> Outcomes]]
    /\ age \in [Dispatchers -> Nat]
    /\ faults \in 0 .. MaxFaults
    /\ surplus \in [Rows -> Nat]

Init ==
    /\ status = [r \in Rows |-> "absent"]
    /\ attempts = [r \in Rows |-> 0]
    /\ wait = [r \in Rows |-> 0]
    /\ sent = [r \in Rows |-> 0]
    /\ pc = [d \in Dispatchers |-> "polling"]
    /\ batch = [d \in Dispatchers |-> {}]
    /\ outcome = [d \in Dispatchers |-> [r \in Rows |-> "none"]]
    /\ age = [d \in Dispatchers |-> 0]
    /\ faults = 0
    /\ surplus = [r \in Rows |-> 0]

-----------------------------------------------------------------------------
(* The API commits a new outbox row (api/repository.py).                   *)

Insert(r) ==
    /\ status[r] = "absent"
    /\ status' = [status EXCEPT ![r] = "pending"]
    /\ UNCHANGED <<attempts, wait, sent, control, faults, surplus>>

-----------------------------------------------------------------------------
(* dispatch_once: the SELECT *)

Locked == UNION {batch[d] : d \in Dispatchers}

\* Mutant: the WHERE clause without the status.
DueAnyStatus == {r \in Rows : status[r] # "absent" /\ wait[r] = 0}

Due == {r \in Rows : status[r] = "pending" /\ wait[r] = 0}

\* Mutant: the SELECT without FOR UPDATE SKIP LOCKED.
BatchWithoutLocks ==
    {r \in Due : Cardinality({q \in Due : q < r}) < BatchSize}

\* ORDER BY created_at LIMIT batch_size FOR UPDATE SKIP LOCKED.
NextBatch ==
    LET free == Due \ Locked
    IN  {r \in free : Cardinality({q \in free : q < r}) < BatchSize}

\* An empty batch changes nothing.
Poll(d) ==
    /\ pc[d] = "polling"
    /\ NextBatch # {}
    /\ batch' = [batch EXCEPT ![d] = NextBatch]
    /\ age' = [age EXCEPT ![d] = 0]
    /\ pc' = [pc EXCEPT ![d] = "publishing"]
    /\ UNCHANGED <<outbox, sent, outcome, faults, surplus>>

-----------------------------------------------------------------------------
(* _dispatch_event, for the rows of the batch in turn *)

IsCurrent(d, r) ==
    /\ pc[d] = "publishing"
    /\ r \in batch[d]
    /\ outcome[d][r] = "none"
    /\ \A q \in batch[d] : outcome[d][q] = "none" => r <= q

Note(d, r, result) == outcome' = [outcome EXCEPT ![d][r] = result]

\* The outcome the except branch gives an error.
OutcomeOf(kind) == IF IsTransient(kind) THEN "retry" ELSE "failed"

Publish(d, r) ==
    /\ IsCurrent(d, r)
    /\ r \notin Malformed
    /\ sent' = [sent EXCEPT ![r] = @ + 1]
    /\ Note(d, r, "published")
    /\ UNCHANGED <<outbox, pc, batch, age, faults, surplus>>

\* EventEnvelope or its payload refuses the stored event with a ValueError.
Reject(d, r) ==
    /\ IsCurrent(d, r)
    /\ r \in Malformed
    /\ Note(d, r, OutcomeOf("value"))
    /\ UNCHANGED <<outbox, sent, pc, batch, age, faults, surplus>>

\* ensure_group or XADD raises, and the entry was not added.
PublishRefused(d, r) ==
    /\ IsCurrent(d, r)
    /\ r \notin Malformed
    /\ faults < MaxFaults
    /\ faults' = faults + 1
    /\ Note(d, r, OutcomeOf("redis"))
    /\ UNCHANGED <<outbox, sent, pc, batch, age, surplus>>

\* XADD raises, and the entry was added.
PublishReplyLost(d, r) ==
    /\ IsCurrent(d, r)
    /\ r \notin Malformed
    /\ faults < MaxFaults
    /\ faults' = faults + 1
    /\ sent' = [sent EXCEPT ![r] = @ + 1]
    /\ surplus' = [surplus EXCEPT ![r] = @ + 1]
    /\ Note(d, r, OutcomeOf("redis"))
    /\ UNCHANGED <<outbox, pc, batch, age>>

-----------------------------------------------------------------------------
(* The commit that ends the batch *)

BatchDone(d) ==
    /\ pc[d] = "publishing"
    /\ \A r \in batch[d] : outcome[d][r] # "none"

\* What is left of a delay that began when d read the clock.
Remaining(d, delay) == IF delay > age[d] THEN delay - age[d] ELSE 0

CommitEffect(d) ==
    /\ status' = [r \in Rows |->
          CASE outcome[d][r] = "published" -> "published"
            [] outcome[d][r] = "failed" -> "failed"
            [] OTHER -> status[r]]
    /\ attempts' = [r \in Rows |->
          IF r \in batch[d] THEN CountAttempt(attempts[r]) ELSE attempts[r]]
    /\ wait' = [r \in Rows |->
          IF outcome[d][r] = "retry"
          THEN Remaining(d, Backoff[CountAttempt(attempts[r])])
          ELSE wait[r]]

\* The session is closed: its locks and its uncommitted changes are gone.
Close(d, point) ==
    /\ pc' = [pc EXCEPT ![d] = point]
    /\ batch' = [batch EXCEPT ![d] = {}]
    /\ outcome' = [outcome EXCEPT ![d] = [r \in Rows |-> "none"]]
    /\ age' = [age EXCEPT ![d] = 0]

\* Mutant: the session is closed without the commit.
CommitForgotten(d) ==
    /\ BatchDone(d)
    /\ Close(d, "polling")
    /\ UNCHANGED <<outbox, sent, faults, surplus>>

Commit(d) ==
    /\ BatchDone(d)
    /\ CommitEffect(d)
    /\ Close(d, "polling")
    /\ UNCHANGED <<sent, faults, surplus>>

-----------------------------------------------------------------------------
(* Process death, shutdown and restart *)

\* What d has published in this batch.
Unrecorded(d) == {r \in batch[d] : outcome[d][r] = "published"}

AddSurplus(rows) ==
    surplus' = [r \in Rows |-> IF r \in rows THEN surplus[r] + 1 ELSE surplus[r]]

\* The process is killed, or the commit raises out of run().
Crash(d) ==
    /\ pc[d] = "publishing"
    /\ faults < MaxFaults
    /\ faults' = faults + 1
    /\ \/ /\ AddSurplus(Unrecorded(d))
          /\ UNCHANGED <<outbox, sent>>
       \/ \E r \in Rows \ Malformed :    \* while XADD is in flight
             /\ IsCurrent(d, r)
             /\ sent' = [sent EXCEPT ![r] = @ + 1]
             /\ AddSurplus(Unrecorded(d) \cup {r})
             /\ UNCHANGED outbox
       \/ /\ BatchDone(d)                 \* while COMMIT is in flight
          /\ CommitEffect(d)
          /\ UNCHANGED <<sent, surplus>>
    /\ Close(d, "down")

\* SIGTERM: run() returns between two batches, and after the current one.
Stop(d) ==
    /\ pc[d] = "polling"
    /\ faults < MaxFaults
    /\ faults' = faults + 1
    /\ pc' = [pc EXCEPT ![d] = "down"]
    /\ UNCHANGED <<outbox, sent, batch, outcome, age, surplus>>

Restart(d) ==
    /\ pc[d] = "down"
    /\ pc' = [pc EXCEPT ![d] = "polling"]
    /\ UNCHANGED <<outbox, sent, batch, outcome, age, faults, surplus>>

-----------------------------------------------------------------------------

\* Time passes.  An age beyond the longest delay makes no difference.
Tick ==
    /\ \/ \E r \in Rows : wait[r] > 0
       \/ \E d \in Dispatchers : pc[d] = "publishing" /\ age[d] < Longest
    /\ wait' = [r \in Rows |-> IF wait[r] > 0 THEN wait[r] - 1 ELSE 0]
    /\ age' = [d \in Dispatchers |->
                  IF pc[d] = "publishing" /\ age[d] < Longest
                  THEN age[d] + 1 ELSE age[d]]
    /\ UNCHANGED <<status, attempts, sent, pc, batch, outcome, faults, surplus>>

Progress(d) ==
    \/ Poll(d)
    \/ \E r \in Rows : Publish(d, r) \/ Reject(d, r)
    \/ Commit(d)

Next ==
    \/ \E r \in Rows : Insert(r)
    \/ \E d \in Dispatchers :
          \/ Progress(d)
          \/ \E r \in Rows : PublishRefused(d, r) \/ PublishReplyLost(d, r)
          \/ Crash(d)
          \/ Stop(d)
          \/ Restart(d)
    \/ Tick

Spec == Init /\ [][Next]_vars

\* A dispatcher polls for ever, its calls return, and time passes.  That a dead one
\* is started again is an assumption about its environment.
Fairness ==
    /\ \A d \in Dispatchers : WF_vars(Progress(d)) /\ WF_vars(Restart(d))
    /\ WF_vars(Tick)

FairSpec == Spec /\ Fairness

-----------------------------------------------------------------------------
(* Properties *)

\* A row is marked published only if its event is in the stream
\* (dispatcher.py:117): the mark cannot outlive a publication that failed.
PublishedReachedStream ==
    \A r \in Rows : status[r] = "published" => sent[r] > 0

\* A row is given up only because its event is invalid: an unavailable Redis
\* never makes a row fail, however often it is retried.
OnlyMalformedFails ==
    \A r \in Rows : status[r] = "failed" => r \in Malformed

\* SKIP LOCKED: no row is in the batches of two dispatchers.
BatchesDisjoint ==
    \A c, d \in Dispatchers : c # d => batch[c] \cap batch[d] = {}

\* Nothing a worker cannot read enters the stream: the dispatcher's validation of
\* a row and the worker's reading of the entry agree on the versions they know.
\* An entry that does not deserialize would make consume() raise out of the
\* worker's loop (queue/redis.py:160), with the entry left pending for ever.
PublishedIsReadable ==
    \A r \in Rows : sent[r] > 0 => Deserializes(Stored[r])

\* Some dispatcher has published r and will record it if it commits.
BeingRecorded(r) == \E d \in Dispatchers : r \in Unrecorded(d)

\* Duplicates have a cause: a row is in the stream once for each publication
\* that was not recorded (a lost reply, a death before the commit) and once
\* more if its publication is recorded or about to be.  Concurrent dispatchers
\* and retries add none.
DuplicatesHaveCause ==
    \A r \in Rows :
        sent[r] = surplus[r] + (IF status[r] = "published" \/ BeingRecorded(r)
                                THEN 1 ELSE 0)

\* A settled row is never touched again, not even by the commit of a dispatcher
\* that selected it before it was settled.
SettledIsFinal ==
    [][\A r \in Rows : status[r] \in {"published", "failed"}
                           => status'[r] = status[r] /\ sent'[r] = sent[r]]_vars

\* The dispatchers keep the promise of Delivery: however batches, refusals, lost
\* replies and deaths fall together, an event is delivered only while its row is
\* pending, and a row is settled only as what has become of its event.
Promise == INSTANCE Delivery WITH Invalid <- Malformed
ImplementsDelivery == Promise!Spec

\* At-least-once: every accepted event is published, or found invalid, once the
\* faults end, although rows are retried behind and in front of others.
EveryRowSettles ==
    \A r \in Rows :
        status[r] = "pending" ~>
            status[r] = IF r \in Malformed THEN "failed" ELSE "published"

-----------------------------------------------------------------------------
(* The inductive invariant behind these properties (see OutboxProofs).     *)

\* A locked row is pending, is in one batch, and has outcomes in that batch only.
LockInv ==
    /\ BatchesDisjoint
    /\ \A d \in Dispatchers :
          /\ pc[d] # "publishing" => batch[d] = {}
          /\ \A r \in batch[d] : status[r] = "pending"
          /\ \A r \in Rows :
                /\ outcome[d][r] # "none" => r \in batch[d]
                /\ outcome[d][r] = "failed" => r \in Malformed

OutboxInv == LockInv /\ OnlyMalformedFails /\ DuplicatesHaveCause
=============================================================================
