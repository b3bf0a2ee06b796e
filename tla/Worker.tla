------------------------------- MODULE Worker -------------------------------
(***************************************************************************)
(* Risk workers that share one PostgreSQL database and one Redis consumer  *)
(* group (fraudlatch/worker.py, with the calls it makes into               *)
(* api/risk_repository.py, queue/redis.py and queue/retry.py).             *)
(*                                                                         *)
(* Each worker process runs WorkerLoop.run: it consumes one new message,   *)
(* runs WorkerProcessor.process on it, and consumes again.  pc[w] is the   *)
(* await at which worker w is suspended; every step between two awaits is  *)
(* one action.  The stream is fixed in Init: it holds any sequence of      *)
(* events, the same event twice when the dispatcher published it twice.    *)
(*                                                                         *)
(* The database runs at READ COMMITTED: a SELECT reads committed rows, a   *)
(* flushed INSERT or UPDATE holds its row (or its key) until commit or     *)
(* rollback, and a conflicting flush waits.  A worker's uncommitted writes *)
(* concern only the rows of its own event, so pc, loaded and wrote         *)
(* describe them, and the tables below hold committed data only.           *)
(***************************************************************************)
EXTENDS RetryPolicy

CONSTANTS
    Workers,       \* worker processes
    Events,        \* transaction.received events, one per transaction
    MissingTx,     \* events whose transaction row is not in this database
    Decisions,     \* what the risk engine may return
    NoDecision,    \* the score of a row without a decision
    MaxMessages    \* length of the stream

ASSUME WorkerAssumption ==
    /\ MissingTx \subseteq Events
    /\ NoDecision \notin Decisions
    /\ MaxMessages \in Nat

VARIABLES
    \* risk_assessments and processing_events, committed
    assess,        \* assess[e]: status of the row, "none" when there is no row
    score,         \* score[e]: score, level and reasons of the row
    audit,         \* primary keys of the "completed" processing_events rows
    \* Redis
    stream,        \* stream[m]: event carried by the m-th stream entry
    delivered,     \* the group's last-delivered position
    acked,         \* entries removed from the group's pending list by XACK
    retry,         \* members of the retry sorted set
    dlq,           \* entries of the dead-letter stream
    \* local state of the workers
    pc, msg, loaded, decision, err, wrote,
    \* history
    lost           \* messages that were in the hands of a process that died

db == <<assess, score, audit>>
queue == <<stream, delivered, acked>>
failures == <<retry, dlq>>
locals == <<pc, msg, loaded, decision, err, wrote>>
vars == <<db, queue, failures, locals, lost>>

Messages == 1 .. MaxMessages

Statuses == {"none", "processing", "completed"}

\* The awaits of process(), grouped by what the awaited call may raise.
DbCalls == {"transaction_exists", "assessment_status", "mark_processing",
            "flush_marker", "commit_marker", "persist_decision",
            "commit_result"}
TryCalls == DbCalls \cup {"ack_completed", "risk_handler"}
BusyPoints == TryCalls \cup {"rollback", "handle_failure", "ack"}
Points == BusyPoints \cup {"idle", "down"}

Busy(w) == pc[w] \in BusyPoints

Event(w) == stream[msg[w]]

\* Mutant: the field as it is in the stream, without the max(1, ...).
RawAttempt == 0

\* publish() writes attempts "0" and nothing ever rewrites the field, so every
\* delivery reads max(1, 0).
DeliveredAttempt == 1

\* Mutant: an audit key of the delivery instead of the event.
AuditKeyOfDelivery(m) == <<stream[m], m>>

AuditKey(m) == <<stream[m], DeliveredAttempt>>

TablesTyped ==
    /\ assess \in [Events -> Statuses]
    /\ score \in [Events -> Decisions \cup {NoDecision}]
    /\ audit \subseteq Events \X Attempts
    /\ stream \in [Messages -> Events]
    /\ delivered \in 0 .. MaxMessages
    /\ acked \subseteq 1 .. delivered
    /\ retry \subseteq [event : Events, attempt : Attempts, code : ErrorCodes]
    /\ dlq \subseteq [message : 1 .. delivered, attempt : Attempts, code : ErrorCodes]
    /\ lost \subseteq 1 .. delivered

WorkersTyped ==
    /\ pc \in [Workers -> Points]
    /\ msg \in [Workers -> 0 .. delivered]
    /\ loaded \in [Workers -> Statuses]
    /\ decision \in [Workers -> Decisions \cup {NoDecision}]
    /\ err \in [Workers -> ErrorKinds \cup {"none"}]
    /\ wrote \in [Workers -> BOOLEAN]
    /\ \A w \in Workers :
          /\ Busy(w) => msg[w] # 0
          /\ pc[w] \in {"rollback", "handle_failure"} => err[w] # "none"
          /\ pc[w] \in {"persist_decision", "commit_result"} => decision[w] # NoDecision

TypeOK == TablesTyped /\ WorkersTyped

Init ==
    /\ assess = [e \in Events |-> "none"]
    /\ score = [e \in Events |-> NoDecision]
    /\ audit = {}
    /\ stream \in [Messages -> Events]
    /\ delivered = 0
    /\ acked = {}
    /\ retry = {}
    /\ dlq = {}
    /\ pc = [w \in Workers |-> "idle"]
    /\ msg = [w \in Workers |-> 0]
    /\ loaded = [w \in Workers |-> "none"]
    /\ decision = [w \in Workers |-> NoDecision]
    /\ err = [w \in Workers |-> "none"]
    /\ wrote = [w \in Workers |-> FALSE]
    /\ lost = {}

-----------------------------------------------------------------------------
(* Moves of one worker's control state.                                    *)

GoTo(w, point) == pc' = [pc EXCEPT ![w] = point]

\* process() returned or the process died: its local variables are gone, and so
\* is whatever its session had flushed and not committed.
Leave(w, point) ==
    /\ GoTo(w, point)
    /\ msg' = [msg EXCEPT ![w] = 0]
    /\ loaded' = [loaded EXCEPT ![w] = "none"]
    /\ decision' = [decision EXCEPT ![w] = NoDecision]
    /\ err' = [err EXCEPT ![w] = "none"]
    /\ wrote' = [wrote EXCEPT ![w] = FALSE]

\* The await raised: control moves to `except Exception as error`.  The session
\* keeps its row locks until the rollback there.
Raise(w, kind) ==
    /\ GoTo(w, "rollback")
    /\ err' = [err EXCEPT ![w] = kind]
    /\ loaded' = [loaded EXCEPT ![w] = "none"]
    /\ decision' = [decision EXCEPT ![w] = NoDecision]
    /\ UNCHANGED msg

\* Another session has flushed a write to the rows of w's event and has neither
\* committed nor rolled back.
Blocked(w) == \E v \in Workers \ {w} : wrote[v] /\ Event(v) = Event(w)

-----------------------------------------------------------------------------
(* What the server does when a call of w reaches it.  The reply may be     *)
(* lost after that, so these are shared by the call's normal return, its   *)
(* failure and the death of the process.                                   *)

\* Mutant: the commit after mark_processing is missing.
MarkerNotCommitted(w) == UNCHANGED <<db, queue, failures>>

\* COMMIT of the marker.  mark_processing emits nothing when the row it loaded
\* was already "processing": SQLAlchemy writes changed columns only.
MarkerEffect(w) ==
    /\ assess' = IF wrote[w] THEN [assess EXCEPT ![Event(w)] = "processing"]
                             ELSE assess
    /\ UNCHANGED <<score, audit, queue, failures>>

\* Mutant: the result is committed without its audit row.
ResultWithoutAudit(w) ==
    /\ assess' = [assess EXCEPT ![Event(w)] = "completed"]
    /\ score' = [score EXCEPT ![Event(w)] = decision[w]]
    /\ UNCHANGED <<audit, queue, failures>>

\* COMMIT of the result: the assessment and its audit row together.
ResultEffect(w) ==
    /\ assess' = [assess EXCEPT ![Event(w)] = "completed"]
    /\ score' = [score EXCEPT ![Event(w)] = decision[w]]
    /\ audit' = audit \cup {AuditKey(msg[w])}
    /\ UNCHANGED <<queue, failures>>

AckEffect(w) ==
    /\ acked' = acked \cup {msg[w]}
    /\ UNCHANGED <<db, stream, delivered, failures>>

\* ZADD of the retry record or XADD to the dead-letter stream.  A retry record
\* names the event, not the message: the same record again only moves its score.
FailureEffect(w) ==
    /\ IF ShouldRetry(DeliveredAttempt, err[w])
       THEN /\ retry' = retry \cup {[event |-> Event(w),
                                     attempt |-> DeliveredAttempt + 1,
                                     code |-> ErrorCode(err[w])]}
            /\ UNCHANGED dlq
       ELSE /\ dlq' = dlq \cup {[message |-> msg[w],
                                 attempt |-> DeliveredAttempt,
                                 code |-> ErrorCode(err[w])]}
            /\ UNCHANGED retry
    /\ UNCHANGED <<db, queue>>

-----------------------------------------------------------------------------
(* WorkerLoop.run *)

\* XREADGROUP ">" with count=1: the next entry never delivered to the group.
Consume(w) ==
    /\ pc[w] = "idle"
    /\ delivered < MaxMessages
    /\ delivered' = delivered + 1
    /\ msg' = [msg EXCEPT ![w] = delivered + 1]
    /\ GoTo(w, "transaction_exists")
    /\ UNCHANGED <<db, stream, acked, failures, loaded, decision, err, wrote, lost>>

\* Mutant: SIGTERM ends the process at once.
StopAnywhere(w) ==
    /\ Busy(w)
    /\ Leave(w, "down")
    /\ UNCHANGED <<db, queue, failures, lost>>

\* SIGTERM sets stop_event, which the loop reads between two messages only.
Stop(w) ==
    /\ pc[w] = "idle"
    /\ GoTo(w, "down")
    /\ UNCHANGED <<db, queue, failures, msg, loaded, decision, err, wrote, lost>>

\* The process is started again, under the consumer name it had before.
Restart(w) ==
    /\ pc[w] = "down"
    /\ GoTo(w, "idle")
    /\ UNCHANGED <<db, queue, failures, msg, loaded, decision, err, wrote, lost>>

-----------------------------------------------------------------------------
(* WorkerProcessor.process, the body of its try *)

TransactionExists(w) ==
    /\ pc[w] = "transaction_exists"
    /\ \/ /\ Event(w) \notin MissingTx
          /\ GoTo(w, "assessment_status")
          /\ UNCHANGED <<msg, loaded, decision, err>>
       \/ /\ Event(w) \in MissingTx
          /\ Raise(w, "permanent")
    /\ UNCHANGED <<db, queue, failures, wrote, lost>>

\* Mutant: any row, not only a completed one, is acknowledged.
AckAnyRow(w) ==
    /\ pc[w] = "assessment_status"
    /\ GoTo(w, IF assess[Event(w)] # "none" THEN "ack_completed"
                                            ELSE "mark_processing")
    /\ UNCHANGED <<db, queue, failures, msg, loaded, decision, err, wrote, lost>>

\* Mutant: the completed status is not looked at.
IgnoreCompleted(w) ==
    /\ pc[w] = "assessment_status"
    /\ GoTo(w, "mark_processing")
    /\ UNCHANGED <<db, queue, failures, msg, loaded, decision, err, wrote, lost>>

AssessmentStatus(w) ==
    /\ pc[w] = "assessment_status"
    /\ GoTo(w, IF assess[Event(w)] = "completed" THEN "ack_completed"
                                                 ELSE "mark_processing")
    /\ UNCHANGED <<db, queue, failures, msg, loaded, decision, err, wrote, lost>>

AckCompleted(w) ==
    /\ pc[w] = "ack_completed"
    /\ AckEffect(w)
    /\ Leave(w, "idle")
    /\ UNCHANGED lost

\* mark_processing: the SELECT, whose row the flush compares with.
MarkProcessing(w) ==
    /\ pc[w] = "mark_processing"
    /\ loaded' = [loaded EXCEPT ![w] = assess[Event(w)]]
    /\ GoTo(w, "flush_marker")
    /\ UNCHANGED <<db, queue, failures, msg, decision, err, wrote, lost>>

\* mark_processing: the flush.  No statement when the row loaded was already
\* "processing"; otherwise an INSERT, refused when another worker has inserted
\* the row since, or an UPDATE of whatever the row holds now.
FlushMarker(w) ==
    /\ pc[w] = "flush_marker"
    /\ \/ /\ loaded[w] = "processing"
          /\ GoTo(w, "commit_marker")
          /\ UNCHANGED <<msg, loaded, decision, err, wrote>>
       \/ /\ loaded[w] # "processing"
          /\ ~ Blocked(w)
          /\ loaded[w] = "none" => assess[Event(w)] = "none"
          /\ GoTo(w, "commit_marker")
          /\ wrote' = [wrote EXCEPT ![w] = TRUE]
          /\ UNCHANGED <<msg, loaded, decision, err>>
       \/ /\ loaded[w] = "none"
          /\ ~ Blocked(w)
          /\ assess[Event(w)] # "none"
          /\ Raise(w, "database")
          /\ UNCHANGED wrote
    /\ UNCHANGED <<db, queue, failures, lost>>

CommitMarker(w) ==
    /\ pc[w] = "commit_marker"
    /\ MarkerEffect(w)
    /\ GoTo(w, "risk_handler")
    /\ loaded' = [loaded EXCEPT ![w] = "none"]
    /\ wrote' = [wrote EXCEPT ![w] = FALSE]
    /\ UNCHANGED <<msg, decision, err, lost>>

\* calculate(): the velocity reads make the decision depend on when it runs.
RiskHandler(w) ==
    /\ pc[w] = "risk_handler"
    /\ \E d \in Decisions : decision' = [decision EXCEPT ![w] = d]
    /\ GoTo(w, "persist_decision")
    /\ UNCHANGED <<db, queue, failures, msg, loaded, err, wrote, lost>>

\* Mutant: a refused audit row is waited for instead of raising.
PersistWhenFree(w) ==
    /\ pc[w] = "persist_decision"
    /\ ~ Blocked(w)
    /\ AuditKey(msg[w]) \notin audit
    /\ GoTo(w, "commit_result")
    /\ wrote' = [wrote EXCEPT ![w] = TRUE]
    /\ UNCHANGED <<db, queue, failures, msg, loaded, decision, err, lost>>

\* persist_risk_result: the SELECT and the flush.  The row exists since
\* CommitMarker; the flush updates it and inserts the audit row, whose primary
\* key is refused when a delivery of the same event has already inserted it.
PersistDecision(w) ==
    /\ pc[w] = "persist_decision"
    /\ ~ Blocked(w)
    /\ \/ /\ AuditKey(msg[w]) \notin audit
          /\ GoTo(w, "commit_result")
          /\ wrote' = [wrote EXCEPT ![w] = TRUE]
          /\ UNCHANGED <<msg, loaded, decision, err>>
       \/ /\ AuditKey(msg[w]) \in audit
          /\ Raise(w, "database")
          /\ UNCHANGED wrote
    /\ UNCHANGED <<db, queue, failures, lost>>

CommitResult(w) ==
    /\ pc[w] = "commit_result"
    /\ ResultEffect(w)
    /\ GoTo(w, "ack")
    /\ decision' = [decision EXCEPT ![w] = NoDecision]
    /\ wrote' = [wrote EXCEPT ![w] = FALSE]
    /\ UNCHANGED <<msg, loaded, err, lost>>

\* The final ack, outside the try.
Ack(w) ==
    /\ pc[w] = "ack"
    /\ AckEffect(w)
    /\ Leave(w, "idle")
    /\ UNCHANGED lost

-----------------------------------------------------------------------------
(* Failures of the awaited calls, and the except branch *)

\* What an awaited call may raise: a refused connection surfaces as the
\* ConnectionError it is, any other database failure as a SQLAlchemy error; the
\* risk handler reads Redis and rejects what it cannot score with ValueError.
Failures(point) ==
    CASE point \in DbCalls -> {"connection", "database"}
      [] point = "ack_completed" -> {"redis"}
      [] point = "risk_handler" -> {"redis", "value"}
      [] OTHER -> {}

\* The call raises and had no effect.
CallFails(w) ==
    /\ pc[w] \in TryCalls
    /\ \E kind \in Failures(pc[w]) : Raise(w, kind)
    /\ UNCHANGED <<db, queue, failures, wrote, lost>>

\* The call took effect and its reply was lost.
ReplyLost(w) ==
    /\ \/ pc[w] = "commit_marker" /\ MarkerEffect(w)
       \/ pc[w] = "commit_result" /\ ResultEffect(w)
       \/ pc[w] = "ack_completed" /\ AckEffect(w)
    /\ \E kind \in Failures(pc[w]) : Raise(w, kind)
    /\ wrote' = [wrote EXCEPT ![w] = FALSE]
    /\ UNCHANGED lost

Rollback(w) ==
    /\ pc[w] = "rollback"
    /\ GoTo(w, "handle_failure")
    /\ wrote' = [wrote EXCEPT ![w] = FALSE]
    /\ UNCHANGED <<db, queue, failures, msg, loaded, decision, err, lost>>

\* handle_failure, then nack, which only checks its arguments: the message stays
\* in the pending list.
HandleFailure(w) ==
    /\ pc[w] = "handle_failure"
    /\ FailureEffect(w)
    /\ Leave(w, "idle")
    /\ UNCHANGED lost

\* The process dies: killed, or ended by an exception out of rollback,
\* handle_failure or the final ack.  A call already sent may still take effect.
Crash(w) ==
    /\ Busy(w)
    /\ \/ UNCHANGED <<db, queue, failures>>
       \/ pc[w] = "commit_marker" /\ MarkerEffect(w)
       \/ pc[w] = "commit_result" /\ ResultEffect(w)
       \/ pc[w] \in {"ack_completed", "ack"} /\ AckEffect(w)
       \/ pc[w] = "handle_failure" /\ FailureEffect(w)
    /\ Leave(w, "down")
    /\ lost' = lost \cup {msg[w]}

-----------------------------------------------------------------------------

\* What the worker does by itself, as long as its calls return.
Progress(w) ==
    \/ Consume(w)
    \/ TransactionExists(w)
    \/ AssessmentStatus(w)
    \/ AckCompleted(w)
    \/ MarkProcessing(w)
    \/ FlushMarker(w)
    \/ CommitMarker(w)
    \/ RiskHandler(w)
    \/ PersistDecision(w)
    \/ CommitResult(w)
    \/ Ack(w)
    \/ Rollback(w)
    \/ HandleFailure(w)

Next ==
    \E w \in Workers :
        \/ Progress(w)
        \/ CallFails(w)
        \/ ReplyLost(w)
        \/ Crash(w)
        \/ Stop(w)
        \/ Restart(w)

Spec == Init /\ [][Next]_vars

\* Every awaited call ends, with or without an error.  That a dead worker is started
\* again is an assumption about its environment, of which EveryMessageLeaves makes
\* no use.
Fairness == \A w \in Workers : WF_vars(Progress(w)) /\ WF_vars(Restart(w))

FairSpec == Spec /\ Fairness

-----------------------------------------------------------------------------
(* Properties *)

\* A message whose failure handle_failure has stored: its event's retry record
\* or its own dead letter is in Redis.
Recorded(m) ==
    \/ \E r \in retry : r.event = stream[m]
    \/ \E entry \in dlq : entry.message = m

InFlight(m) == \E w \in Workers : Busy(w) /\ msg[w] = m

\* A message is acknowledged only after a decision for its event is durable:
\* "DB is authoritative" (worker.py:103), on both paths that acknowledge and
\* whichever worker made the decision.
AckImpliesDurable == \A m \in acked : AuditKey(m) \in audit

\* Result and audit row are committed together, whatever fails in between: no
\* event is "completed", and none has a score, without its audit row.
CompletedHasAudit ==
    \A e \in Events :
        assess[e] = "completed" \/ score[e] # NoDecision
            => <<e, DeliveredAttempt>> \in audit

\* process() drops nothing by itself: a delivered message is being processed, is
\* acknowledged, has its failure recorded, or was in the hands of a process
\* that died.  In particular a graceful stop leaves no message behind.
NothingStranded ==
    \A m \in 1 .. delivered :
        m \in acked \/ Recorded(m) \/ InFlight(m) \/ m \in lost

\* The marker is durable before the calculation starts, so that a crash during
\* calculation is visible after restart (worker.py:82-83).
CalculationIsVisible ==
    \A w \in Workers :
        pc[w] \in {"risk_handler", "persist_decision", "commit_result"}
            => assess[Event(w)] # "none"

\* A message is not both acknowledged as processed and dead-lettered as failed,
\* although the ack of a completed event may raise after it took effect.
AckedIsNotDeadLettered == \A entry \in dlq : entry.message \notin acked

\* The decision of an event never changes once committed, although duplicates
\* of the event are scored again, by workers that see other velocity counts.
DecisionIsFinal ==
    [][\A e \in Events : score[e] # NoDecision => score'[e] = score[e]]_vars

\* A completed assessment stays completed when its event is delivered again.
CompletedIsStable ==
    [][\A e \in Events : assess[e] = "completed" => assess'[e] = "completed"]_vars

\* The workers implement the abstract promise, the score column being the
\* decision.
Promise == INSTANCE Assessment WITH result <- score
ImplementsAssessment == Promise!Spec

\* Every message a worker takes is settled, or its process dies: waiting for the
\* row locks of another session never goes on for ever.
EveryMessageLeaves == \A w \in Workers : Busy(w) ~> ~ Busy(w)

\* A message whose worker died is taken up again after the restart
\* ("Worker restart reclaims unacknowledged work", milestones/6.1.md:58).
LostIsReclaimed ==
    \A m \in Messages :
        m \in lost /\ m \notin acked ~> m \in acked \/ Recorded(m)

\* "A database or Redis dependency failure is retryable" (milestones/6.1.md:63):
\* no dead letter is about a failed database call.
DatabaseFailureIsRetried ==
    \A entry \in dlq : entry.code # ErrorCode("database")

-----------------------------------------------------------------------------
(* The inductive invariants behind these properties (see WorkerProofs).    *)

\* A flushed write belongs to a transaction in progress, and two sessions never
\* hold writes to the rows of one event.
OneWriter ==
    /\ \A w \in Workers :
          wrote[w] => pc[w] \in {"commit_marker", "commit_result", "rollback"}
    /\ \A v, w \in Workers : v # w /\ wrote[v] /\ wrote[w] => Event(v) # Event(w)

\* Audit row and score come together, a result about to be committed has
\* neither, and an ack about to be sent has the audit row.
DecisionDurable ==
    /\ \A e \in Events :
          (score[e] # NoDecision) <=> (<<e, DeliveredAttempt>> \in audit)
    /\ \A w \in Workers :
          /\ pc[w] = "commit_result" => wrote[w] /\ AuditKey(msg[w]) \notin audit
          /\ pc[w] \in {"ack", "ack_completed"} => AuditKey(msg[w]) \in audit

\* The row that mark_processing found, or found missing and inserted.
MarkerDurable ==
    \A w \in Workers :
        (\/ pc[w] = "flush_marker" /\ loaded[w] # "none"
         \/ pc[w] = "commit_marker" /\ ~ wrote[w])
            => assess[Event(w)] # "none"

DurableInv ==
    /\ OneWriter
    /\ DecisionDurable
    /\ MarkerDurable
    /\ CompletedHasAudit
    /\ AckImpliesDurable
    /\ CalculationIsVisible

\* A message is in the hands of one worker, which has neither acknowledged nor
\* dead-lettered it, except that an ack may have raised after it took effect.
DeliveryInv ==
    /\ \A v, w \in Workers : v # w /\ Busy(v) /\ Busy(w) => msg[v] # msg[w]
    /\ \A w \in Workers : Busy(w) =>
          /\ \A entry \in dlq : entry.message # msg[w]
          /\ msg[w] \in acked =>
                err[w] = "redis" /\ pc[w] \in {"rollback", "handle_failure"}
    /\ AckedIsNotDeadLettered
=============================================================================
