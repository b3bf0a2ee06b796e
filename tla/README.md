# FraudLatch: a verification project

TLA+ models of the transaction path of FraudLatch, the configurations that
model-check them with TLC, and theorems about them with proofs that TLAPS
checks. Line numbers refer to the repository's files; `PROJECT.json` maps every
definition to the lines it models.

Contents

1. The system
2. Hard behaviours and the properties that answer them
3. The modules, and how they correspond to the code
4. What the runs check: instances and bounds
5. Fairness
6. What is proved, and how
7. Disagreements between the documents and the code
8. What is not modelled
9. Plan, and what is left

## 1. The system

A client posts transactions to an HTTP API. The API stores a transaction and
an outbox event in one PostgreSQL commit. A dispatcher moves outbox events into
a Redis stream. Workers of one consumer group read the stream, score each
transaction with the rules engine (which asks Redis how often the customer and
the merchant occurred in the last window), store the result in PostgreSQL and
acknowledge the stream entry.

    client --POST--> API --commit--> PostgreSQL --poll--> dispatcher
                                        ^                     | XADD
                                        |                     v
                      score, audit row  |               Redis stream
                                        |                     | XREADGROUP
                     velocity sets <--> worker <--------------+
                                        |
                                        +--> retry set / dead-letter stream

| Component | State | Operations | Interacts through |
|---|---|---|---|
| Ingestion (`api/routes.py`, `api/repository.py`) | tables `transactions`, `outbox_events`; one session per request | look up, insert both rows, commit; on a refused key roll back, look up again | primary key of `transactions`, unique key of the outbox |
| Outbox dispatcher (`dispatcher.py`) | status, attempts and next attempt of outbox rows; locks of the batch | lock due rows, publish each, commit the outcomes | `FOR UPDATE SKIP LOCKED`, `XADD` |
| Queue (`queue/redis.py`) | stream, last-delivered position and pending list of the group | publish, consume, ack, nack, reclaim_pending | Redis |
| Retry policy (`queue/retry.py`) | retry sorted set, dead-letter stream | classify an error, decide, record | called by worker and dispatcher |
| Worker (`worker.py`) | tables `risk_assessments`, `processing_events`; local control state | consume, look up, mark processing, calculate, persist, ack, handle a failure | row locks, unique keys, the group |
| Velocity windows (`risk/velocity.py`) | one sorted set with a time-to-live per customer and per merchant | trim, add, expire, count | Redis, shared by all workers |
| Rules engine (`risk/engine.py`, `config.py`, `models.py`) | none | assess | called by the worker |
| Amount baseline (`risk/amount_deviation.py`) | none | build baselines from records | not used by the live worker |
| Query API (`api/routes.py`, `api/risk_repository.py`) | none of its own | transaction, risk, high-risk page, health | reads the tables |
| Event contracts (`contracts/events.py`) | none | validate an envelope, deserialize a stream entry | called by dispatcher and queue |
| Dataset tools (`scripts/validate_dataset.py`, `scripts/prepare_banksim.py`) | the raw CSV, a validation manifest, a Parquet table and its manifest | validate; convert and write table, then manifest | files |
| Replay (`scripts/replay_banksim.py`) | counters of one run | select rows, post them in order, three attempts each, report | the table, the raw CSV, the API |
| Sessions, schema, observability, infrastructure | declarations, counters | - | - |

What makes each correct:

- **Ingestion**: a transaction and its event are stored together; concurrent
  requests for one id agree on one payload; whatever a client has been told
  stays true.
- **Dispatcher**: nothing is marked published that is not in the stream, and
  nothing is in the stream that a worker cannot read; no valid event is given up; duplicates appear only where a failure makes them
  unavoidable; every event leaves the outbox in the end.
- **Worker**: an ack follows a durable decision; an event has at most one
  decision; no delivered message is dropped; a completed assessment stays
  completed.
- **Velocity**: interleaved workers do not lose each other's entries; the sets
  are bounded in time.
- **Rules engine**: the listed reasons explain the score; more evidence never
  lowers it.
- **Baseline**: an amount does not deviate from a short history it belongs to;
  rounding decides nothing but ties.
- **Query API**: answers about one transaction only move forward; a walk through
  the pages misses nothing that was there when it began.
- **Dataset tools**: two programs that read one file agree on it; what passes
  the validation can be converted.
- **Replay**: the report tells the truth, also about requests whose answer was
  lost; fraud rows are the rows the other scripts count as frauds; a replay ends.

## 2. Hard behaviours and the properties that answer them

`PROJECT.json` lists the hazards line by line. They fall in these groups.

- *Concurrent processes on shared rows.* Requests with one id, dispatchers on
  due rows, workers with two deliveries of one event, workers in one velocity
  set. The models interleave at every await and carry the database's rules
  (what a flush holds until commit, what it waits for, which key refuses it) as
  guards. `AcceptedIsStored`, `ConflictIsReal`,
  `ImplementsLedger`, `BatchesDisjoint`, `ImplementsDelivery`, `DecisionIsFinal`,
  `LatestCountIsExact`.
- *Something happened and the answer was lost.* Every commit and every Redis
  write of the models can take effect and raise, or take effect and be followed
  by the death of the process. `DuplicatesHaveCause`, `AckedIsNotDeadLettered`,
  `ConflictIsReal`, `AckImpliesDurable`.
- *Half of a sequence was done.* `StoredWithEvent`, `CompletedHasAudit`,
  `CalculationIsVisible`, `RetentionIsBounded`, `NothingStranded`,
  `ManifestDescribesTable`.
- *Data read earlier is used later.* The status read before the marker is
  written (`CompletedIsStable`), the batch read before it is published
  (`ImplementsDelivery`), the offset of the next page (`WalkMissesNone`), the
  source line stored with a canonical row (`FraudOnlyIsExact`).
- *Something is delivered again.* A completed event (`AnswerNeverRegresses`,
  `DecisionIsFinal`), a batch (`DuplicatesHaveCause`), a request
  (`ConflictIsReal`, `ReportIsTrue`).
- *Events out of order.* `MissingHasCause`, `LatestCountIsExact`.
- *Waiting and retrying must end.* `EveryMessageLeaves`, `EveryRowSettles`,
  `ReplayEnds`.
- *Two programs, one format.* The dispatcher and the queue's reader
  (`PublishedIsReadable`), the two scripts that read the CSV (`ManifestsAgree`,
  `ValidIsConvertible`), the replay that reads it once more
  (`FraudOnlyMissesNone`), the canonical table and the API
  (`CanonicalIsAccepted`).
- *Numbers at their limits.* `ReasonsExplainScore`, `RescoringIsMonotone`,
  `DeployedHighNeedsAll`, `OwnHistoryNeverDeviates`, `RoundingDecidesTiesOnly`.

Some properties cover less than the hazard next to them, and say so:
`NothingStranded` excuses a message whose worker died or whose failure handler
raised (`lost`), which is what `worker_reclaim` is about; `EveryRowSettles` is
about outages that end; `AnswerNeverRegresses` is about one worker, for with two
`worker_regress` is the answer; `ManifestDescribesTable` is about the table whose
digest the manifest holds, not the one on the disk; `ValidIsConvertible` excepts
amounts and steps beyond the table's columns, of which it would be false.

## 3. The modules, and how they correspond to the code

    RetryPolicy <- Worker <- MCWorker            Assessment (abstract)
                   ^ ^  \.................INSTANCE....^
                   | +---- WorkerProofs <-----+
                   +------ HighRiskQuery <- HighRiskProofs
    RetryPolicy, EventContract <- OutboxDispatcher <- MCOutboxDispatcher
                                       .   ^------- OutboxProofs
                                       ...INSTANCE... Delivery (abstract)
    Ingestion  <- MCIngestion, IngestionProofs
        .....INSTANCE..... Ledger (abstract)
    Velocity   <- MCVelocity, VelocityProofs
    RiskEngine <- AmountBaseline <- MCRiskEngine
        ^               ^--------- BaselineProofs
        +------ RiskProofs <-------------+
    Dataset <- Replay <- MCReplay, ReplayProofs

Specifications have no TLC constructs; instance values and symmetry sets are in
the `MC` modules, theorems in the `Proofs` modules. Definitions whose comment
begins with "Mutant" are changed forms of the definition that follows them; they
show, one per property, which mistake in the code the property would catch, and
nothing else uses them.

**Worker**. `pc[w]` names the await at which worker `w` is suspended, with the
name of the function it called; the actions between `Consume` and `Ack` are the
steps of `WorkerProcessor.process`, in its order. `assess`, `score` and `audit`
are the committed columns; what a session has flushed but not committed concerns
its own event only, and is given by `pc`, `loaded` and `wrote`. `Blocked` is the
wait of a flush for another session's row or key. `CallFails`, `ReplyLost` and
`Crash` are the three ways in which a call goes wrong; the `...Effect` operators
are what the servers do, shared by them and by the normal return.
`mark_processing` writes nothing when the row it loaded already says
"processing", because SQLAlchemy emits changed columns only. `DeliveredAttempt`
is always 1: the stream field is written as 0 and never rewritten, and the queue
reads `max(1, attempts)`; so the audit key of an event is the same for each of
its deliveries, which is what makes the decision unique. The stream is chosen in
`Init`: any sequence of events, an event twice if it was published twice.

**Assessment** is the promise to the reader of the results: an event gets at
most one decision, which never changes, and a message is acknowledged only when
its event has one. `Worker` implements it with `result <- score`.

**Ledger** is the promise to the clients of `POST /v1/transactions`: the answers
are those of one ledger that compares, writes and answers in one step.
`Ingestion` implements it with `stored <- transactions`, `events <- outbox`; the
step that decides a request is the one that answers it, and a commit whose answer
is lost is an acceptance that nobody hears of, or hears of as an error.

**Delivery** is the promise to the readers of the stream: an event is delivered,
any number of times, only while its row is pending, and a row is settled as what
has become of its event. `OutboxDispatcher` implements it, with its malformed
rows as the invalid ones; one commit settles the rows of a whole batch.

**OutboxDispatcher**. A row is pending until a batch commits its outcome. `Poll`
is the `SELECT ... FOR UPDATE SKIP LOCKED`, `Publish`, `Reject`,
`PublishRefused` and `PublishReplyLost` are the ends of `_dispatch_event`,
`Commit` is the end of the session block. Time is relative: `wait[r]` is what
is left until `next_attempt_at`, `age[d]` what has passed since the dispatcher
read the clock, which it does once per batch. `attempts` is only ever compared
with 1 and 2, so it is capped at 3. `surplus` is history: stream entries whose
publication never reached its row. `Stored[r]` is the envelope the row's columns
hold; a row is `Malformed` when `_dispatch_event` cannot make a valid envelope of
it.

**EventContract** is the envelope as its fields' checks see it: `ValidEnvelope`
for the constructor, `Deserializes` for `deserialize_event`, which knows its type
and version from a test of its own. Rows with any envelope are dispatched, so
`PublishedIsReadable` compares the two.

**HighRiskQuery** puts the read endpoints and one client beside the workers.
`RiskStatus` is the status code of `query_risk`; `HighRows`, `Before` and `Page`
are the `WHERE`, `ORDER BY`, `OFFSET` and `LIMIT` of `query_high_risk`. A request
is one `SELECT`, hence one step; between two pages the workers go on. `start` is
history: the rows listed when the client began.

**Ingestion**. One handler per concurrent request; `holds` is the flushed and
uncommitted insert. A payload stands for all the fields `matches_payload`
compares. The path after an `IntegrityError` (rollback, second lookup) is the
code's; any other failure, also one after the commit took effect, is a 500.

**Velocity**. Every Redis command of `get_context` is a step; a key's entry
carries the event time of its transaction as score, so a sorted set is a set of
transactions. `ttl` counts down on `Tick` and deletes the key; `recorded`,
`newest` and `stray` are history. Event time and wall clock use one unit.

**RiskEngine**. `assess` as operators, over units of 0.00001: one digit more
than a stored score has, since a configured weight may have it (`Raises` says
when `RiskReason` then refuses the contribution). `ValidRules` is what
`RulesConfig` accepts. The state is one call's arguments, and `Rescore` is a
redelivery in another context.

**AmountBaseline**. The mean and the mean deviation of a customer's amounts as
exact fractions, rounded half up to one unit of `1 / AmountScale`; `Baseline` is
what the deviation rule of `RiskEngine` is then given as context. Amounts are
whole cents, as those of `RiskTransaction`. `ExactExcess` is what the rule would
compare without any rounding.

**Dataset**. A file is its content, a digest identifies the content, and a
script reads a file in one step. `ValidRow` and `ConvertibleRow` are the two
scripts' checks, which differ: an infinite amount and a date beyond the calendar
pass the first only. `WriteTable` and `WriteManifest` are the two writes of
`write_outputs`, and `Interrupt` the end of the process between them; a write by
itself is taken as atomic. `Download` replaces the CSV at any time.
The canonical table is a function on the positions of the rows that were kept, so
that its order is that of the CSV. One conversion runs at a time: of two at once
one could digest the table of the other, and nothing in the repository starts
two.

**Replay**. `Selection` is `selected_rows`, with the labels read again from the
CSV that is there now; `todo` are the chosen positions the loop has not finished
with, of which the lowest is next. `Accepted`, `Refused`, `Retry` and `Exhausted` are the
ends of one pass through the attempt loop. The server is arbitrary: it answers
what it likes, and a request without a good answer may have been stored.
`AcceptedByApi` is `TransactionIn`, used for one statement only.

**RetryPolicy**. Kinds of exceptions, one for each branch of
`classify_processing_error`, and `RetryPolicy.decide`.

## 4. What the runs check: instances and bounds

| Run | Question | Instance |
|---|---|---|
| `worker_pair` | Are acks, decisions, audit rows and markers durable and final under every failure, do the workers implement `Assessment`, and does a message always leave a worker's hands? | 2 workers, 2 events, 2 decisions, 3 messages, the first event twice |
| `outbox_pair` | Are publication and record consistent, is the stream readable, do the dispatchers implement `Delivery`, and does every row settle? | 2 dispatchers, 3 rows (1 malformed), batch of 2, 3 faults |
| `ingestion` | Are stored rows and answers consistent, and do the handlers implement `Ledger`? | 3 handlers, 2 ids, 2 payloads |
| `velocity` | What may be missing from the windows, and why? | 2 workers, 3 transactions, window 2, time-to-live 3, clock to 4 |
| `high_risk` | What does a reader see while a worker writes? | 1 worker, 3 events (1 without transaction row), 3 messages, scores 0 to 2 of which two are high, pages of one row |
| `risk_engine` | Do reasons, scores and levels agree, and what do baselines make of their own history? | each rule just below, at and above its threshold, 3 configurations, histories of up to six amounts |
| `dataset` | Do the scripts agree on every file, do their manifests tell which table they are of, and is a replay's report true? | two successive contents out of 16, three command lines, any server |
| `worker_regress`, `worker_reclaim`, `worker_dbfail`, `replay_refused`, `replay_padded` | Five statements of the documents that the code does not keep (section 7) | 1 or 2 workers, 1 to 3 messages; one file |

Why these bounds are enough for the interesting cases:

- In `worker_pair` an event is in the stream twice and another one between its
  entries or after them (`PairInit`), so there are always duplicates, and two
  workers can hold them at one time or one after the other, before and after a
  death. An event that comes before the pair would only move the workers on. The
  instance has no symmetry set, because a liveness property is checked on it;
  that the repeated event is a fixed one stands for it. Two decisions are needed
  to tell a final decision from a repeated one. The number of failures, lost replies, deaths
  and restarts is not bounded in `Worker`: the stream is finite, and a lost
  message is not delivered again.
- In `OutboxDispatcher`, `MaxFaults` bounds refused calls, lost replies, deaths
  and shutdowns together: three are enough for a row to go through all the
  delays, or for two dispatchers to die over one row. Three rows and a batch of
  two leave a row for the other dispatcher, and a full batch of retried rows in
  front of a third. `ScaledBackoff` stands for 1, 5 and 60 seconds with one short
  delay, which a batch soon outlasts, and two longer ones of one length; which of
  the three a row gets still depends on its attempts.
- Three handlers on one id are a winner, a loser waiting for its key and a
  third that arrives in between.
- In `Velocity` a window of 2 and events at 1, 2 and 3 give one pair within and
  one pair exactly a window apart; the clock passes the last event and the
  time-to-live of the first. `MaxNow` bounds the clock.
- In `RiskEngine` the thresholds are those of the code. Amounts count
  1/10000 there and not the 1/10^8 of `BASELINE_QUANTUM`, because TLC's integers
  have 32 bits; the margin that rounding could use up shrinks with the unit, so
  the coarser one is the harder case. Five is the largest history for which
  `OwnHistoryNeverDeviates` holds: of six amounts one can hit the boundary of the
  rule exactly, and then rounding decides. The instance has such histories, and
  `RoundingDecidesTiesOnly` speaks of them too. Amounts that differ by 1 and by
  44 cents give mean deviations of a few units and of a few hundred.
- In `high_risk` pages of one row give a walk a page per row; two high scores
  and events with equal ones exercise both sort keys, and a row may be inserted
  before, at and after the offset. There is one worker because the property
  needs it: with two, `worker_regress` takes rows out of the list.
- In `dataset` the rows are one of each kind that some check tells apart: a blank
  field, a text, NaN, an infinity, a negative, a zero, a tie of rounding, too
  large, too late, a padded and a wrong label. Pairs suffice because the scripts
  treat rows one by one, except for identities and line numbers, for which there
  are repeated rows and files with a skipped row in front. `MaxEdits` bounds how
  often the CSV is replaced.

`CHECK_DEADLOCK FALSE` is set where the system may stop: in the outbox, when
every row is settled and the fault bound is used up, and in `dataset`, when the
file may not be replaced any more and cannot be converted. Symmetry is used in
`ingestion` and `velocity`, for safety only, over sets whose members the
specification treats alike.

## 5. Fairness

`Worker!Fairness` is weak fairness of `Progress(w)`, the disjunction of the
normal steps of one worker, and of `Restart(w)`. An asyncio task that is not
waiting is scheduled, and the calls have timeouts or servers that answer; a flush
that waits for another session's row is not enabled, so fairness alone does not
make it go through: that the lock is released is what `EveryMessageLeaves` shows
(the holder is itself fair, or dies, and its locks with it). That a dead process
is started again is an assumption about the environment: the repository has no
restart policy, and `milestones/3.2.md:66` says of the dispatcher only that it can
be stopped and restarted. `EveryMessageLeaves` makes no use of it, since a worker
that died has nothing in its hands. It is there for `worker_reclaim`, whose
statement is about what a worker does after its restart. No fairness is asked of
failures, which never have to happen.

`OutboxDispatcher!Fairness` is the same for dispatchers, and for `Tick`: time
passes. `EveryRowSettles` needs the restart, for all dispatchers may have died.
It rests also on the fault bound: after the last fault
Redis is available. A Redis that is refused for ever leaves rows pending for
ever, by design of the dispatcher, which retries without limit.

`Replay!FairSpec` is weak fairness of `Post`, the end of a request: the client
has a timeout of ten seconds, so each ends with an answer or an exception.
Nothing is asked of the server or of the scripts that write the files.

`Ingestion`, `Velocity`, `HighRiskQuery` and `RiskEngine` have no liveness
properties.

## 6. What is proved, and how

The theorems hold for every value of the constants under the assumptions named
in the modules (`WorkerAssumption`, `OutboxAssumption`, `IngestionAssumption`,
`VelocityAssumption`, `RiskAssumption`, `QueryAssumption`, `DatasetAssumption`,
`ReplayAssumption`, `BaselineAssumption`), which say only that constants have the
right types, that the "no value" constants (`NoBaseline` among them) are not values, that a customer's
and a merchant's keys differ (they have different prefixes), and that amounts are
positive whole cents of at least 50 units each (`BASELINE_QUANTUM` makes them a
million).

**WorkerProofs**. For any number of workers, events, decisions and messages:
type correctness, `AckImpliesDurable`, `CompletedHasAudit`,
`CalculationIsVisible`, `AckedIsNotDeadLettered`, `NothingStranded`,
`DecisionIsFinal`, the refinement `ImplementsAssessment`, and
`CompletedIsStable` for a single worker.

  The first three are not inductive: that an ack is preceded by an audit row
  depends on where the worker is, and that no second result is committed on the
  database's locks. `DurableInv` adds
  `OneWriter` (an uncommitted write belongs to a transaction in progress, and no
  two sessions hold writes to one event's rows),
  `DecisionDurable` (score and audit row come together; a result about to be
  committed has neither yet, an ack about to be sent has the audit row) and
  `MarkerDurable` (a worker that skips the write of the marker has seen the
  row). `DeliveryInv` says that a message is in one worker's hands, which has
  neither acknowledged nor dead-lettered it, except when an ack raised after it
  took effect; there the error is a Redis error at attempt 1, which is retried
  and not dead-lettered. The refinement follows from `DurableInv`: the only
  step that changes a score is the commit of a result, and it changes one score
  from `NoDecision`.

  `CompletedIsStable`, which `worker_regress` refutes, is proved for every run in
  which no two workers work on one event at a time (`ExclusiveStability`):
  between a worker's look at the status and its commit the event is then not
  completed. Two conditions give that: a single worker (`SoleWorkerStability`),
  or a stream that holds every event once (`StabilityWithoutDuplicates`). The
  second is what the outbox provides as long as `surplus` is zero, by
  `DuplicatesHaveCause`: so it takes both a fault at the right moment of a
  dispatcher and a second worker to take a completed assessment back.

  Two theorems give the safety part of `EveryMessageLeaves` for any number of
  workers: `EveryStepAdvances`, by which each step of `process()` and each failure
  in it leads to a later one of at most eleven, and `NobodyWaitsForAWaiter`, by
  which a flush that waits for rows waits for one session, itself at its commit or
  rollback. What is left to TLC is that enabled steps are taken.

**OutboxProofs**. For any number of dispatchers and rows, any batch size and
delays, any number of faults: type correctness, `BatchesDisjoint`,
`OnlyMalformedFails`, `SettledIsFinal`, `DuplicatesHaveCause`,
`PublishedReachedStream`, `PublishedIsReadable` (whatever the rows hold).
`LockInv` ties batches to the locks: a locked row is
pending, in one batch, with outcomes in that batch only. From it,
`DuplicatesHaveCause` is inductive: at each row, stream entries equal surplus
plus one if its publication is recorded or about to be. `PublishedReachedStream`
is a consequence of that count. `PublishedIsReadable` rests on
`ValidDeserializes`: the two version tests agree on every valid envelope.
The refinement `ImplementsDelivery` (`DispatchersKeepPromise`) needs both
invariants: that a published entry belongs to a pending row is `LockInv`, and that
a commit marks only rows that are in the stream is the account of
`DuplicatesHaveCause`.

**IngestionProofs**. For any number of requests, ids and payloads: type
correctness, `StoredWithEvent`, `AcceptedIsStored`, `ConflictIsReal`,
`AcceptedOnce`, `FirstWriteWins`. `KeyInv` is the addition: one handler at a
time holds the key of an id, nothing is stored under it until its commit, and a
handler in the conflict path finds a stored row. With it each answer is one step
of the ledger (`HandlersKeepLedger`): a commit finds the id unwritten
(`CommitAccepts`), and both lookups that answer find it written
(`LookupCompares`), the second one because the rollback follows a refused key.

**VelocityProofs**. For any workers, transactions, keys, window, time-to-live
and clock: type correctness, `MissingHasCause`, `RetentionIsBounded`,
`LatestCountIsExact`, which follows from the first of these, and
`NothingFromFuture`, which no run checks: it says no more than that the check of
the event time is made. `VelocityInv` adds `CallIsValid`: the event of a call under way is in the past,
as the check at its start found and the clock preserves.

**RiskProofs**. For every configuration `RulesConfig` accepts and every context:
scores between 0 and 1 (`TypeOK`), `ReasonsExplainScore`, `RescoringIsMonotone`,
`DeployedHighNeedsAll`. They rest on lemmas about the operators: sums are
monotone in the set of reasons, capping and rounding preserve order and range,
rounding leaves numbers of four decimals alone, levels preserve order.

**HighRiskProofs**. For any number of events, messages and scores and any page
size: type correctness, and `WalkMissesNone` and `AnswerNeverRegresses` in every
run in which completed assessments stay completed (`StableWalk`,
`ForwardAnswers`); that is, with one worker, or with several if no event is in
the stream twice (`CompleteWalk`, `CompleteWalkWithoutDuplicates`,
`StableAnswers`). The reader changes nothing the workers see
(`ReaderIsPassive`), so the theorems about `Worker` hold here. A completed
assessment stays completed and a score stays what it is (`FinalDecision`), so
the list only grows and the rank of a row in it never falls (`RanksGrow`).
`WalkInv` follows: what was listed at the start and has not been seen is at the
next offset or behind it; when a page is past the end of the list, nothing is.

**ReplayProofs**. For any contents of the CSV, any seeds, command lines and any
server: type correctness, `ManifestsAgree`, `ManifestDescribesTable`,
`ValidIsConvertible`, `FraudOnlyIsExact`, `ReportIsTrue`. Two inductive invariants
carry them. `Provenance` says that what is in each file is what a script computed
from a content the CSV has had, although the CSV may be another one by now; the
statements about files are then statements about one content: that kept and
skipped rows add up to all of them (`RowCounts`), that no two identities are the
same (`NoCollision`), that a line number means the same row in both scripts.
`FraudOnlyIsExact` compares what is selected with what the other two scripts
count, labels stripped: nothing else is ever selected, and everything is if no
label is padded. That condition is needed (`replay_padded`).
`Counted` says that a replay has counted as sent the rows it has finished with
and not reported, and that these are stored. `FewerPosts` is the safety part of
`ReplayEnds`: each answer and each lost answer leaves fewer posts.

**BaselineProofs**. `OwnHistoryNeverDeviates` for all amounts, histories of up to
five records, every valid multiplier of 3 or more and any precision that
`BaselineAssumption` allows. For exact numbers it is an inequality: an amount's
distance from the mean is at most half the sum of all distances
(`HalfOfDeviations`, for histories of any length), hence 5/2 mean deviations. For
rounded ones it needs that two different amounts are a cent apart (`WholeCents`),
which is more than rounding can use up (`RoundedDeviation`).
`RoundingDecidesTiesOnly` holds for every length and every multiplier
(`ClearDecisions`): each rounded value is within half a unit of the exact one
(`RoundBounds`), which moves the distance from the mean by half a unit
(`DistanceFromMean`) and the bound it is compared with by half a multiplier
(`ClearOfTies`). The sums are folds
over sets; that they satisfy the recursive equation (`SumIsFold`) and what follows
for every number of records is proved by induction (`SetInduction`), which is
itself a theorem here: a set that contains 0 and the successors of its members
contains all naturals, because a map that is not onto cannot be injective on a
finite set (`Induction`).

Only model-checked: the liveness properties `EveryMessageLeaves`,
`EveryRowSettles` and `ReplayEnds` (temporal reasoning under fairness is beyond
TLAPS; for the first and the last the variant is proved), and the five
counterexamples. Every invariant and every action property of a passing run is
proved, and so are the three refinements. `FirstWriteWins` and `SettledIsFinal`,
which `ImplementsLedger` and `ImplementsDelivery` imply, and `AcceptedOnce`, which
says of a handler about to commit what the ledger says of its answer, are proved
and not checked separately.

## 7. Disagreements between the documents and the code

Five runs are expected to end in a violation; each checks one statement of the
documents.

- `worker_regress`. "A completed transaction event is safe to deliver
  repeatedly" (`milestones/6.1.md:56`). Two workers hold two deliveries of one
  event; the second reads no status, the first completes the assessment, the
  second writes "processing" over it. Its own result is refused by the audit
  key, so the assessment stays "processing" with a score. With one worker it
  cannot happen (`SoleWorkerStability`), and the decision itself never changes
  (`FinalDecision`).
- `worker_reclaim`. "Worker restart reclaims unacknowledged work"
  (`milestones/6.1.md:58`). `run()` reads only entries never delivered, and
  nothing calls `reclaim_pending`.
- `worker_dbfail`. "A database or Redis dependency failure is retryable"
  (`milestones/6.1.md:63`). What SQLAlchemy raises is none of the classes
  `classify_processing_error` tests for, so it is a permanent failure.
- `replay_refused`. "Canonical output has all API-required fields"
  (`milestones/7.2.md:59`), "suitable for replay" (`milestones/7.2.md:70`).
  `convert_dataset` stores `source_metadata` as a JSON string
  (`scripts/prepare_banksim.py:93`), the replay posts the string
  (`scripts/replay_banksim.py:71-86`) and the request schema wants an object
  (`api/schemas.py:25`): the API refuses every row. The scripts' and the API's
  tests each use data of their own form.
- `replay_padded`. "Load source row numbers whose evaluation label is fraud"
  (the docstring of `load_fraud_rows`, `scripts/replay_banksim.py:30`).
  `validate_dataset` and `convert_dataset` strip a label before they look at it
  (`scripts/validate_dataset.py:57`, `scripts/prepare_banksim.py:62`), the replay
  compares it as it is (`scripts/replay_banksim.py:37`): a row labelled `" 1"` is
  valid, is counted as a fraud in both manifests, and is not replayed with
  `--fraud-only`. Of files without padded labels, `FraudOnlyIsExact` holds.

Met while reading and not made a run: nothing in the program reads the retry set
(`queue/retry.py:150`), so a scheduled retry is never executed;
`persist_risk_failure` (`api/risk_repository.py:53`) has no caller; one entry
that does not deserialize would make `consume` raise for the whole batch
(`queue/redis.py:148-165`), but none can come from the dispatcher
(`ReadableStream`); an amount below half a cent is not skipped by the conversion
and becomes 0.00, which the API refuses. Velocity counts depend on the order of
delivery: scoring an event removes what an older event, delivered later, should
still count (`risk/velocity.py:56`), which makes "deterministic"
(`milestones/5.2.md:66`) true of one order of events only; `MissingHasCause` and
`LatestCountIsExact` say exactly how far the counts can be relied on.

## 8. What is not modelled

- JSON, logging, metrics, HTTP routing, and the text of ids and names: only
  their outcome matters to the models.
- Of the query API the transaction lookup (the lookup of `Ingestion`), health
  and readiness; migrations and infrastructure, which are declarations. The keys
  and constraints that decide races are in the guards of the models.
- `reclaim_pending`: no step of the program calls it (`worker_reclaim`), so
  nothing in the models could do it either.
- The pacing of a replay, and a Parquet file that is read while it is written.
- A deployment from end to end. The parts are composed by their interfaces
  instead: `Worker` takes any stream of events, with any repetitions, which
  includes every stream `OutboxDispatcher` can produce (`DuplicatesHaveCause`,
  `PublishedIsReadable`); `OutboxDispatcher` takes rows in any order, which
  includes every order `Ingestion` can commit (`StoredWithEvent`). A product of
  the three would have no behaviour that these do not have.
- Loss of Redis or PostgreSQL data. Both servers keep what they acknowledged;
  what may be lost is the acknowledgement.
- In `Worker`, the wake-up of the retry set, which has no reader, and the
  redelivery of lost messages, which nothing asks for.
- PostgreSQL itself is modelled from how the code uses it: `READ COMMITTED`,
  unique keys, row locks until the end of the transaction.

## 9. Plan, and what is left

In the order of importance, what was planned and what is there:

1. `Worker` with `Assessment`, runs and proofs - done.
2. `OutboxDispatcher` with `EventContract`, run and proofs - done.
3. `Ingestion`, run and proofs - done.
4. `Velocity`, `RiskEngine`, runs and proofs - done.
5. `HighRiskQuery`: pages and answers while assessments complete - done, run
   and proofs.
6. `Dataset` and `Replay` - done, run and proofs.
7. `AmountBaseline` - done, run and proof.
8. Stability of completed assessments when no event is published twice - proved.
9. Abstract specifications of ingestion and outbox, `Ledger` and `Delivery` -
   done, checked and proved.

Left: `RedisStream`, the consumer group with its pending list and
`reclaim_pending`, to be written when the worker calls it; an abstract
specification of the whole path, in which the events of `Ledger` are the rows of
`Delivery` and its entries the stream of `Assessment`.
