---------------------------- MODULE WorkerProofs ----------------------------
(***************************************************************************)
(* Theorems about Worker, for any number of workers, events and messages.  *)
(***************************************************************************)
EXTENDS Worker, TLAPS

USE WorkerAssumption

-----------------------------------------------------------------------------
(* The retry policy *)

\* classify_processing_error gives every kind of exception a code.
LEMMA ErrorCodeType == \A kind \in ErrorKinds : ErrorCode(kind) \in ErrorCodes
  BY DEF ErrorKinds, TransientKinds, PermanentKinds, ErrorCode, ErrorCodes

\* Whatever a worker's call may raise is one of the kinds.
LEMMA FailuresType == \A point \in Points : Failures(point) \subseteq ErrorKinds
  BY DEF Points, BusyPoints, TryCalls, DbCalls, Failures, ErrorKinds,
         TransientKinds, PermanentKinds

-----------------------------------------------------------------------------
(* Types *)

\* A busy worker holds a delivered message, which carries an event.
LEMMA BusyType ==
  ASSUME TypeOK, NEW w \in Workers, Busy(w)
  PROVE  msg[w] \in 1 .. delivered /\ msg[w] \in Messages /\ Event(w) \in Events
  BY DEF TypeOK, TablesTyped, WorkersTyped, Event, Messages

\* Raising an exception of a known kind keeps the workers' types.
LEMMA RaiseType ==
  ASSUME TypeOK, NEW w \in Workers, NEW kind \in ErrorKinds, Raise(w, kind),
         Busy(w), delivered' = delivered, wrote' \in [Workers -> BOOLEAN]
  PROVE  WorkersTyped'
<1>1. "none" \notin ErrorKinds
  BY DEF ErrorKinds, TransientKinds, PermanentKinds
<1>2. QED
  BY <1>1
  DEF TypeOK, WorkersTyped, Raise, GoTo, Busy, Points, BusyPoints, TryCalls,
      DbCalls, Statuses

\* So does leaving process().
LEMMA LeaveType ==
  ASSUME TypeOK, NEW w \in Workers, NEW point \in {"idle", "down"},
         Leave(w, point), delivered' = delivered
  PROVE  WorkersTyped'
<1>1. 0 \in 0 .. delivered
  BY DEF TypeOK, TablesTyped
<1>2. QED
  BY <1>1
  DEF TypeOK, WorkersTyped, Leave, GoTo, Busy, Points, BusyPoints, TryCalls,
      DbCalls, Statuses

\* What the servers do on behalf of a busy worker keeps the tables' types, and
\* delivers nothing.
LEMMA EffectType ==
  ASSUME TypeOK, NEW w \in Workers, Busy(w), lost' \subseteq 1 .. delivered,
         \/ UNCHANGED <<db, queue, failures>>
         \/ MarkerEffect(w)
         \/ ResultEffect(w)
         \/ AckEffect(w)
         \/ pc[w] = "handle_failure" /\ FailureEffect(w)
  PROVE  TablesTyped' /\ delivered' = delivered
<1> USE BusyType DEF TypeOK, TablesTyped, db, queue, failures
<1>1. CASE UNCHANGED <<db, queue, failures>>
  BY <1>1
<1>2. CASE MarkerEffect(w)
  BY <1>2 DEF MarkerEffect, Statuses
<1>3. CASE ResultEffect(w)
  <2>1. AuditKey(msg[w]) \in Events \X Attempts
    BY DEF AuditKey, Event, DeliveredAttempt, Attempts, MaxAttempts
  <2>2. QED
    BY <1>3, <2>1 DEF ResultEffect, Statuses, WorkersTyped
<1>4. CASE AckEffect(w)
  BY <1>4 DEF AckEffect
<1>5. CASE pc[w] = "handle_failure" /\ FailureEffect(w)
  <2>1. err[w] \in ErrorKinds
    BY <1>5 DEF WorkersTyped
  <2>2. ErrorCode(err[w]) \in ErrorCodes
    BY <2>1, ErrorCodeType
  <2>3. DeliveredAttempt \in Attempts /\ DeliveredAttempt + 1 \in Attempts
    BY DEF DeliveredAttempt, Attempts, MaxAttempts
  <2>4. QED
    BY <1>5, <2>2, <2>3 DEF FailureEffect
<1>6. QED
  BY <1>1, <1>2, <1>3, <1>4, <1>5

\* Every state of a run has the declared types.
THEOREM TypeCorrect == Spec => []TypeOK
<1>1. Init => TypeOK
  BY DEF Init, TypeOK, TablesTyped, WorkersTyped, Busy, Points, BusyPoints,
         TryCalls, DbCalls, Statuses, Messages
<1>2. TypeOK /\ [Next]_vars => TypeOK'
  <2> SUFFICES ASSUME TypeOK, [Next]_vars
               PROVE  TypeOK'
    OBVIOUS
  <2> USE DEF db, queue, failures, GoTo, Points, BusyPoints, TryCalls, DbCalls
  <2>1. CASE UNCHANGED vars
    BY <2>1 DEF vars, locals, TypeOK, TablesTyped, WorkersTyped, Busy
  <2>2. ASSUME NEW w \in Workers, Consume(w) PROVE TypeOK'
    BY <2>2 DEF Consume, TypeOK, TablesTyped, WorkersTyped, Busy
  <2>3. ASSUME NEW w \in Workers, Stop(w) \/ Restart(w) PROVE TypeOK'
    BY <2>3 DEF Stop, Restart, TypeOK, TablesTyped, WorkersTyped, Busy
  <2>4. ASSUME NEW w \in Workers,
               \/ TransactionExists(w)
               \/ AssessmentStatus(w)
               \/ MarkProcessing(w)
               \/ FlushMarker(w)
               \/ RiskHandler(w)
               \/ PersistDecision(w)
               \/ Rollback(w)
        PROVE  TypeOK'
    <3>1. TablesTyped' /\ Busy(w) /\ delivered' = delivered
      BY <2>4, EffectType
      DEF Busy, TypeOK, TablesTyped, TransactionExists, AssessmentStatus,
          MarkProcessing, FlushMarker, RiskHandler, PersistDecision, Rollback
    <3>2. {"permanent", "database"} \subseteq ErrorKinds
      BY DEF ErrorKinds, PermanentKinds
    <3>3. CASE TransactionExists(w)
      BY <3>1, <3>2, <3>3, RaiseType
      DEF TransactionExists, TypeOK, WorkersTyped, Busy
    <3>4. CASE AssessmentStatus(w)
      BY <3>1, <3>4 DEF AssessmentStatus, TypeOK, WorkersTyped, Busy
    <3>5. CASE MarkProcessing(w)
      <4>1. assess[Event(w)] \in Statuses
        BY <3>1, BusyType DEF TypeOK, TablesTyped
      <4>2. QED
        BY <3>1, <3>5, <4>1 DEF MarkProcessing, TypeOK, WorkersTyped, Busy
    <3>6. CASE FlushMarker(w)
      BY <3>1, <3>2, <3>6, RaiseType
      DEF FlushMarker, TypeOK, WorkersTyped, Busy
    <3>7. CASE RiskHandler(w)
      BY <3>1, <3>7 DEF RiskHandler, TypeOK, WorkersTyped, Busy
    <3>8. CASE PersistDecision(w)
      BY <3>1, <3>2, <3>8, RaiseType
      DEF PersistDecision, TypeOK, WorkersTyped, Busy
    <3>9. CASE Rollback(w)
      BY <3>1, <3>9 DEF Rollback, TypeOK, WorkersTyped, Busy
    <3>10. QED
      BY <2>4, <3>3, <3>4, <3>5, <3>6, <3>7, <3>8, <3>9
  <2>5. ASSUME NEW w \in Workers, CommitMarker(w) \/ CommitResult(w)
        PROVE  TypeOK'
    <3>1. TablesTyped' /\ delivered' = delivered
      BY <2>5, EffectType DEF CommitMarker, CommitResult, Busy, TypeOK, TablesTyped
    <3>2. QED
      BY <2>5, <3>1
      DEF CommitMarker, CommitResult, TypeOK, WorkersTyped, Busy, Statuses
  <2>6. ASSUME NEW w \in Workers, AckCompleted(w) \/ Ack(w) \/ HandleFailure(w)
        PROVE  TypeOK'
    <3>1. TablesTyped' /\ delivered' = delivered /\ Leave(w, "idle")
      BY <2>6, EffectType
      DEF AckCompleted, Ack, HandleFailure, Busy, TypeOK, TablesTyped
    <3>2. QED
      BY <3>1, LeaveType DEF TypeOK
  <2>7. ASSUME NEW w \in Workers, CallFails(w) \/ ReplyLost(w)
        PROVE  TypeOK'
    <3>1. Busy(w)
      BY <2>7 DEF CallFails, ReplyLost, Busy
    <3>2. TablesTyped' /\ delivered' = delivered
      BY <2>7, <3>1, EffectType DEF CallFails, ReplyLost, TypeOK, TablesTyped
    <3>3. PICK kind \in ErrorKinds : Raise(w, kind)
      BY <2>7, <3>1, FailuresType DEF CallFails, ReplyLost, Busy
    <3>4. wrote' \in [Workers -> BOOLEAN]
      BY <2>7 DEF CallFails, ReplyLost, TypeOK, WorkersTyped
    <3>5. QED
      BY <3>1, <3>2, <3>3, <3>4, RaiseType DEF TypeOK
  <2>8. ASSUME NEW w \in Workers, Crash(w) PROVE TypeOK'
    <3>1. Busy(w) /\ Leave(w, "down") /\ lost' \subseteq 1 .. delivered
      BY <2>8, BusyType DEF Crash, TypeOK, TablesTyped
    <3>2. TablesTyped' /\ delivered' = delivered
      BY <2>8, <3>1, EffectType DEF Crash
    <3>3. QED
      BY <3>1, <3>2, LeaveType DEF TypeOK
  <2>9. QED
    BY <2>1, <2>2, <2>3, <2>4, <2>5, <2>6, <2>7, <2>8 DEF Next, Progress
<1>3. QED
  BY <1>1, <1>2, PTL DEF Spec

-----------------------------------------------------------------------------
(* Durability *)

\* Every step keeps decision, audit row and marker durable where they must be.
LEMMA DurableStep == TypeOK /\ TypeOK' /\ DurableInv /\ [Next]_vars => DurableInv'
<1> SUFFICES ASSUME TypeOK, TypeOK', DurableInv, [Next]_vars
             PROVE  DurableInv'
  OBVIOUS
<1> USE DEF DurableInv, OneWriter, DecisionDurable, MarkerDurable,
            CompletedHasAudit, AckImpliesDurable, CalculationIsVisible,
            db, queue, failures, GoTo, Event, AuditKey, TypeOK, TablesTyped, WorkersTyped, Busy, BusyPoints, TryCalls, DbCalls
<1>1. CASE UNCHANGED vars
  BY <1>1 DEF vars, locals
<1>2. ASSUME NEW w \in Workers, Consume(w) PROVE DurableInv'
  BY <1>2 DEF Consume
<1>3. ASSUME NEW w \in Workers, Stop(w) \/ Restart(w) PROVE DurableInv'
  BY <1>3 DEF Stop, Restart
<1>4. ASSUME NEW w \in Workers, TransactionExists(w) PROVE DurableInv'
  BY <1>4 DEF TransactionExists, Raise
<1>5. ASSUME NEW w \in Workers, AssessmentStatus(w) PROVE DurableInv'
  <2>1. Event(w) \in Events
    BY <1>5, BusyType DEF AssessmentStatus
  <2>2. QED
    BY <1>5, <2>1 DEF AssessmentStatus
<1>6. ASSUME NEW w \in Workers, MarkProcessing(w) PROVE DurableInv'
  BY <1>6 DEF MarkProcessing
<1>7. ASSUME NEW w \in Workers, FlushMarker(w) PROVE DurableInv'
  <2>1. OneWriter'
    BY <1>7 DEF FlushMarker, Raise, Blocked
  <2>2. DecisionDurable' /\ CompletedHasAudit' /\ AckImpliesDurable'
    BY <1>7 DEF FlushMarker, Raise
  <2>3. MarkerDurable'
    <3>1. UNCHANGED <<assess, stream, msg>>
      BY <1>7 DEF FlushMarker, Raise
    <3>2. \A v \in Workers \ {w} :
             pc'[v] = pc[v] /\ loaded'[v] = loaded[v] /\ wrote'[v] = wrote[v]
      BY <1>7 DEF FlushMarker, Raise
    <3>3. CASE loaded[w] # "none"
      <4>1. assess[Event(w)] # "none"
        BY <1>7, <3>3 DEF FlushMarker
      <4>2. QED
        BY <3>1, <3>2, <4>1
    <3>4. CASE loaded[w] = "none"
      <4>1. pc'[w] = "rollback" \/ (pc'[w] = "commit_marker" /\ wrote'[w])
        BY <1>7, <3>4 DEF FlushMarker, Raise
      <4>2. QED
        BY <3>1, <3>2, <4>1
    <3>5. QED
      BY <3>3, <3>4
  <2>4. CalculationIsVisible'
    BY <1>7 DEF FlushMarker, Raise
  <2>5. QED
    BY <2>1, <2>2, <2>3, <2>4
<1>8. ASSUME NEW w \in Workers, CommitMarker(w) PROVE DurableInv'
  BY <1>8 DEF CommitMarker, MarkerEffect
<1>9. ASSUME NEW w \in Workers, RiskHandler(w) PROVE DurableInv'
  BY <1>9 DEF RiskHandler
<1>10. ASSUME NEW w \in Workers, PersistDecision(w) PROVE DurableInv'
  BY <1>10 DEF PersistDecision, Raise, Blocked
<1>11. ASSUME NEW w \in Workers, CommitResult(w) PROVE DurableInv'
  BY <1>11 DEF CommitResult, ResultEffect
<1>12. ASSUME NEW w \in Workers, AckCompleted(w) \/ Ack(w) PROVE DurableInv'
  <2>1. AckEffect(w) /\ Leave(w, "idle") /\ AuditKey(msg[w]) \in audit
    BY <1>12 DEF AckCompleted, Ack
  <2>2. AckImpliesDurable'
    BY <2>1 DEF AckEffect
  <2>3. OneWriter'
    BY <2>1 DEF AckEffect, Leave
  <2>4. DecisionDurable' /\ CompletedHasAudit' /\ MarkerDurable' /\ CalculationIsVisible'
    BY <2>1 DEF AckEffect, Leave
  <2>5. QED
    BY <2>2, <2>3, <2>4
<1>13. ASSUME NEW w \in Workers, CallFails(w) PROVE DurableInv'
  BY <1>13 DEF CallFails, Raise
<1>14. ASSUME NEW w \in Workers, ReplyLost(w) PROVE DurableInv'
  <2>1. PICK kind : Raise(w, kind)
    BY <1>14 DEF ReplyLost
  <2>2. CASE pc[w] = "commit_marker" /\ MarkerEffect(w)
    BY <1>14, <2>1, <2>2 DEF ReplyLost, Raise, MarkerEffect
  <2>3. CASE pc[w] = "commit_result" /\ ResultEffect(w)
    BY <1>14, <2>1, <2>3 DEF ReplyLost, Raise, ResultEffect
  <2>4. CASE pc[w] = "ack_completed" /\ AckEffect(w)
    BY <1>14, <2>1, <2>4 DEF ReplyLost, Raise, AckEffect
  <2>5. QED
    BY <1>14, <2>2, <2>3, <2>4 DEF ReplyLost
<1>15. ASSUME NEW w \in Workers, Rollback(w) PROVE DurableInv'
  BY <1>15 DEF Rollback
<1>16. ASSUME NEW w \in Workers, HandleFailure(w) PROVE DurableInv'
  BY <1>16 DEF HandleFailure, FailureEffect, Leave
<1>17. ASSUME NEW w \in Workers, Crash(w) PROVE DurableInv'
  <2>1. Leave(w, "down")
    BY <1>17 DEF Crash
  <2>2. CASE UNCHANGED <<db, queue, failures>>
    BY <2>1, <2>2 DEF Leave
  <2>3. CASE pc[w] = "commit_marker" /\ MarkerEffect(w)
    BY <2>1, <2>3 DEF Leave, MarkerEffect
  <2>4. CASE pc[w] = "commit_result" /\ ResultEffect(w)
    BY <2>1, <2>4 DEF Leave, ResultEffect
  <2>5. CASE pc[w] \in {"ack_completed", "ack"} /\ AckEffect(w)
    BY <2>1, <2>5 DEF Leave, AckEffect
  <2>6. CASE pc[w] = "handle_failure" /\ FailureEffect(w)
    BY <2>1, <2>6 DEF Leave, FailureEffect
  <2>7. QED
    BY <1>17, <2>2, <2>3, <2>4, <2>5, <2>6 DEF Crash
<1>18. QED
  BY <1>1, <1>2, <1>3, <1>4, <1>5, <1>6, <1>7, <1>8, <1>9, <1>10, <1>11,
     <1>12, <1>13, <1>14, <1>15, <1>16, <1>17 DEF Next, Progress

\* Every reachable state satisfies DurableInv.
LEMMA DurableAlways == Spec => []DurableInv
<1>1. Init => DurableInv
  BY DEF Init, DurableInv, OneWriter, DecisionDurable, MarkerDurable,
         CompletedHasAudit, AckImpliesDurable, CalculationIsVisible
<1>2. QED
  BY <1>1, TypeCorrect, DurableStep, PTL DEF Spec

\* No message is acknowledged before the decision for its event is durable.
THEOREM AckDurability == Spec => []AckImpliesDurable
BY DurableAlways, PTL DEF DurableInv

\* No reader ever sees a completed or scored assessment without its audit row.
THEOREM AuditedCompletion == Spec => []CompletedHasAudit
BY DurableAlways, PTL DEF DurableInv

\* A calculation never runs before its marker is durable.
THEOREM VisibleCalculation == Spec => []CalculationIsVisible
BY DurableAlways, PTL DEF DurableInv

-----------------------------------------------------------------------------
(* Delivery *)

\* Every step keeps a message in the hands of one worker, unsettled.
LEMMA DeliveryStep == TypeOK /\ TypeOK' /\ DeliveryInv /\ [Next]_vars => DeliveryInv'
<1> SUFFICES ASSUME TypeOK, TypeOK', DeliveryInv, [Next]_vars
             PROVE  DeliveryInv'
  OBVIOUS
<1> USE DEF DeliveryInv, AckedIsNotDeadLettered, Busy, db, queue, failures, GoTo,
            TypeOK, TablesTyped, WorkersTyped, BusyPoints, TryCalls, DbCalls
<1>1. CASE UNCHANGED vars
  BY <1>1 DEF vars, locals
<1>2. ASSUME NEW w \in Workers, Consume(w) PROVE DeliveryInv'
  BY <1>2 DEF Consume
<1>3. ASSUME NEW w \in Workers,
             \/ Stop(w) \/ Restart(w) \/ AssessmentStatus(w) \/ MarkProcessing(w)
             \/ CommitMarker(w) \/ RiskHandler(w) \/ CommitResult(w) \/ Rollback(w)
      PROVE  DeliveryInv'
  BY <1>3 DEF Stop, Restart, AssessmentStatus, MarkProcessing, CommitMarker,
              RiskHandler, CommitResult, Rollback, MarkerEffect, ResultEffect
<1>4. ASSUME NEW w \in Workers,
             TransactionExists(w) \/ FlushMarker(w) \/ PersistDecision(w)
      PROVE  DeliveryInv'
  BY <1>4 DEF TransactionExists, FlushMarker, PersistDecision, Raise
<1>5. ASSUME NEW w \in Workers, AckCompleted(w) \/ Ack(w) PROVE DeliveryInv'
  BY <1>5 DEF AckCompleted, Ack, AckEffect, Leave
<1>6. ASSUME NEW w \in Workers, CallFails(w) PROVE DeliveryInv'
  BY <1>6 DEF CallFails, Raise
<1>7. ASSUME NEW w \in Workers, ReplyLost(w) PROVE DeliveryInv'
  <2>1. CASE pc[w] \in {"commit_marker", "commit_result"}
    BY <1>7, <2>1 DEF ReplyLost, Raise, MarkerEffect, ResultEffect
  <2>2. CASE pc[w] = "ack_completed"
    <3>1. AckEffect(w) /\ Raise(w, "redis")
      BY <1>7, <2>2 DEF ReplyLost, Failures
    <3>2. QED
      BY <2>2, <3>1 DEF AckEffect, Raise
  <2>3. QED
    BY <1>7, <2>1, <2>2 DEF ReplyLost
<1>8. ASSUME NEW w \in Workers, pc[w] = "handle_failure", FailureEffect(w),
             Leave(w, "idle") \/ Leave(w, "down")
      PROVE  DeliveryInv'
  <2>1. err[w] = "redis" => UNCHANGED dlq
    BY <1>8
    DEF FailureEffect, ShouldRetry, IsTransient, TransientKinds,
        DeliveredAttempt, MaxAttempts
  <2>2. \A entry \in dlq' : entry \in dlq \/ entry.message = msg[w]
    BY <1>8 DEF FailureEffect
  <2>3. QED
    BY <1>8, <2>1, <2>2 DEF FailureEffect, Leave
<1>9. ASSUME NEW w \in Workers, Crash(w) PROVE DeliveryInv'
  <2>1. Leave(w, "down")
    BY <1>9 DEF Crash
  <2>2. CASE UNCHANGED <<acked, dlq>>
    BY <2>1, <2>2 DEF Leave
  <2>3. CASE pc[w] \in {"ack_completed", "ack"} /\ AckEffect(w)
    BY <2>1, <2>3 DEF Leave, AckEffect
  <2>4. QED
    BY <1>8, <1>9, <2>1, <2>2, <2>3 DEF Crash, MarkerEffect, ResultEffect
<1>10. QED
  BY <1>1, <1>2, <1>3, <1>4, <1>5, <1>6, <1>7, <1>8, <1>9
  DEF Next, Progress, HandleFailure

\* No message is both acknowledged and dead-lettered.
THEOREM AckOrDeadLetter == Spec => []AckedIsNotDeadLettered
<1>1. Init => DeliveryInv
  BY DEF Init, DeliveryInv, AckedIsNotDeadLettered, Busy, BusyPoints, TryCalls, DbCalls
<1>2. QED
  BY <1>1, TypeCorrect, DeliveryStep, PTL DEF Spec, DeliveryInv

\* A worker that neither dies nor is still busy has settled its message.
THEOREM NoStrandedMessage == Spec => []NothingStranded
<1>1. Init => NothingStranded
  BY DEF Init, NothingStranded
<1>2. TypeOK /\ TypeOK' /\ NothingStranded /\ [Next]_vars => NothingStranded'
  <2> SUFFICES ASSUME TypeOK, TypeOK', NothingStranded, [Next]_vars,
                      NEW m \in 1 .. delivered'
               PROVE  m \in acked' \/ Recorded(m)' \/ InFlight(m)' \/ m \in lost'
    BY DEF NothingStranded
  <2> USE DEF Recorded, InFlight, Busy, db, queue, failures, GoTo, TypeOK,
              TablesTyped, WorkersTyped, BusyPoints, TryCalls, DbCalls
  <2>1. stream' = stream /\ acked \subseteq acked' /\ retry \subseteq retry'
           /\ dlq \subseteq dlq' /\ lost \subseteq lost'
    BY DEF Next, Progress, vars, Consume, Stop, Restart, TransactionExists,
           AssessmentStatus, AckCompleted, MarkProcessing, FlushMarker,
           CommitMarker, RiskHandler, PersistDecision, CommitResult, Ack,
           CallFails, ReplyLost, Rollback, HandleFailure, Crash, MarkerEffect,
           ResultEffect, AckEffect, FailureEffect
  <2>2. (m \in acked \/ Recorded(m) \/ m \in lost)
           => (m \in acked' \/ Recorded(m)' \/ m \in lost')
    BY <2>1
  <2>3. CASE UNCHANGED vars
    BY <2>3 DEF vars, locals, NothingStranded
  <2>4. ASSUME NEW w \in Workers, Consume(w)
        PROVE  m \in acked' \/ Recorded(m)' \/ InFlight(m)' \/ m \in lost'
    <3>1. CASE m = delivered + 1
      BY <2>4, <3>1 DEF Consume
    <3>2. CASE m \in 1 .. delivered
      <4>1. CASE InFlight(m)
        <5>1. PICK v \in Workers : Busy(v) /\ msg[v] = m
          BY <4>1
        <5>2. v # w /\ pc'[v] = pc[v] /\ msg'[v] = msg[v]
          BY <2>4, <5>1 DEF Consume
        <5>3. QED
          BY <5>1, <5>2
      <4>2. QED
        BY <2>2, <3>2, <4>1 DEF NothingStranded
    <3>3. QED
      BY <2>4, <3>1, <3>2 DEF Consume
  <2>5. ASSUME NEW w \in Workers, delivered' = delivered,
               \A v \in Workers \ {w} : pc'[v] = pc[v] /\ msg'[v] = msg[v],
               \A k : Busy(w) /\ msg[w] = k =>
                        \/ Busy(w)' /\ msg'[w] = k
                        \/ k \in acked' \/ Recorded(k)' \/ k \in lost'
        PROVE  m \in acked' \/ Recorded(m)' \/ InFlight(m)' \/ m \in lost'
    <3>1. CASE InFlight(m)
      <4>1. PICK v \in Workers : Busy(v) /\ msg[v] = m
        BY <3>1
      <4>2. CASE v = w
        BY <2>5, <4>1, <4>2
      <4>3. CASE v # w
        BY <2>5, <4>1, <4>3
      <4>4. QED
        BY <4>2, <4>3
    <3>2. QED
      BY <2>2, <2>5, <3>1 DEF NothingStranded
  <2>6. ASSUME NEW w \in Workers,
               \/ Progress(w) /\ ~ Consume(w)
               \/ CallFails(w) \/ ReplyLost(w) \/ Crash(w) \/ Stop(w) \/ Restart(w)
        PROVE  /\ delivered' = delivered
               /\ \A v \in Workers \ {w} : pc'[v] = pc[v] /\ msg'[v] = msg[v]
               /\ \A k : Busy(w) /\ msg[w] = k =>
                           \/ Busy(w)' /\ msg'[w] = k
                           \/ k \in acked' \/ Recorded(k)' \/ k \in lost'
    <3>1. CASE \/ Stop(w) \/ Restart(w) \/ TransactionExists(w)
               \/ AssessmentStatus(w) \/ MarkProcessing(w) \/ FlushMarker(w)
               \/ CommitMarker(w) \/ RiskHandler(w) \/ PersistDecision(w)
               \/ CommitResult(w) \/ Rollback(w) \/ CallFails(w) \/ ReplyLost(w)
      BY <3>1
      DEF Stop, Restart, TransactionExists, AssessmentStatus, MarkProcessing,
          FlushMarker, CommitMarker, RiskHandler, PersistDecision, CommitResult,
          CallFails, ReplyLost, Rollback, MarkerEffect, ResultEffect, AckEffect,
          Raise
    <3>2. CASE AckCompleted(w) \/ Ack(w)
      BY <3>2 DEF AckCompleted, Ack, AckEffect, Leave
    <3>3. CASE HandleFailure(w)
      <4>1. \A k : msg[w] = k => Recorded(k)'
        <5>1. CASE ShouldRetry(DeliveredAttempt, err[w])
          <6> DEFINE r == [event |-> Event(w), attempt |-> DeliveredAttempt + 1,
                           code |-> ErrorCode(err[w])]
          <6>1. r \in retry'
            BY <3>3, <5>1 DEF HandleFailure, FailureEffect
          <6>2. r.event = stream'[msg[w]]
            BY <2>1 DEF Event
          <6>3. QED
            BY <6>1, <6>2
        <5>2. CASE ~ ShouldRetry(DeliveredAttempt, err[w])
          <6> DEFINE entry == [message |-> msg[w], attempt |-> DeliveredAttempt,
                               code |-> ErrorCode(err[w])]
          <6>1. entry \in dlq'
            BY <3>3, <5>2 DEF HandleFailure, FailureEffect
          <6>2. entry.message = msg[w]
            OBVIOUS
          <6>3. QED
            BY <6>1, <6>2
        <5>3. QED
          BY <5>1, <5>2
      <4>3. QED
        BY <3>3, <4>1 DEF HandleFailure, FailureEffect, Leave
    <3>4. CASE Crash(w)
      BY <3>4
      DEF Crash, Leave, MarkerEffect, ResultEffect, AckEffect, FailureEffect
    <3>5. QED
      BY <2>6, <3>1, <3>2, <3>3, <3>4 DEF Progress
  <2>7. QED
    BY <2>3, <2>4, <2>5, <2>6 DEF Next, Progress
<1>3. QED
  BY <1>1, <1>2, TypeCorrect, PTL DEF Spec

-----------------------------------------------------------------------------
(* The abstract promise *)

\* A step decides one undecided event, acknowledges one decided message, or
\* changes neither the scores nor the acknowledgements.
LEMMA StepOfPromise ==
  ASSUME TypeOK, DurableInv, [Next]_vars
  PROVE  [Promise!Next]_(Promise!vars)
<1> USE DEF db, queue, failures, Promise!vars
<1>1. CASE UNCHANGED vars
  BY <1>1 DEF vars
<1>2. ASSUME NEW w \in Workers, Busy(w), pc[w] = "commit_result", ResultEffect(w)
      PROVE  [Promise!Next]_(Promise!vars)
  <2>1. Event(w) \in Events /\ <<Event(w), DeliveredAttempt>> \notin audit
    BY <1>2, BusyType DEF DurableInv, DecisionDurable, AuditKey, Event
  <2>2. score[Event(w)] = NoDecision
    BY <2>1 DEF DurableInv, DecisionDurable
  <2>3. decision[w] \in Decisions
    BY <1>2 DEF TypeOK, WorkersTyped
  <2>4. Promise!Decide(Event(w))
    BY <1>2, <2>2, <2>3 DEF Promise!Decide, ResultEffect
  <2>5. QED
    BY <2>1, <2>4 DEF Promise!Next
<1>3. ASSUME NEW w \in Workers, Busy(w), pc[w] \in {"ack", "ack_completed"}, AckEffect(w)
      PROVE  [Promise!Next]_(Promise!vars)
  <2>1. Event(w) \in Events /\ msg[w] \in Messages
    BY <1>3, BusyType
  <2>2. score[stream[msg[w]]] # NoDecision
    BY <1>3, <2>1 DEF DurableInv, DecisionDurable, AuditKey, Event
  <2>3. Promise!Acknowledge(msg[w])
    BY <1>3, <2>2 DEF Promise!Acknowledge, AckEffect
  <2>4. QED
    BY <2>1, <2>3 DEF Promise!Next
<1>4. ASSUME NEW w \in Workers, AckCompleted(w) \/ Ack(w) \/ CommitResult(w)
      PROVE  [Promise!Next]_(Promise!vars)
  BY <1>2, <1>3, <1>4
  DEF AckCompleted, Ack, CommitResult, Busy, BusyPoints, TryCalls, DbCalls
<1>5. ASSUME NEW w \in Workers, ReplyLost(w) \/ Crash(w)
      PROVE  [Promise!Next]_(Promise!vars)
  BY <1>2, <1>3, <1>5
  DEF ReplyLost, Crash, MarkerEffect, FailureEffect, Busy, BusyPoints, TryCalls,
      DbCalls
<1>6. ASSUME NEW w \in Workers,
             \/ Consume(w) \/ Stop(w) \/ Restart(w) \/ TransactionExists(w)
             \/ AssessmentStatus(w) \/ MarkProcessing(w) \/ FlushMarker(w)
             \/ CommitMarker(w) \/ RiskHandler(w) \/ PersistDecision(w)
             \/ Rollback(w) \/ HandleFailure(w) \/ CallFails(w)
      PROVE  UNCHANGED (Promise!vars)
  BY <1>6
  DEF Consume, Stop, Restart, TransactionExists, AssessmentStatus,
      MarkProcessing, FlushMarker, CommitMarker, RiskHandler, PersistDecision,
      Rollback, HandleFailure, CallFails, MarkerEffect, FailureEffect
<1>7. QED
  BY <1>1, <1>4, <1>5, <1>6 DEF Next, Progress

\* The workers implement Assessment: at most one decision for an event, never
\* changed, and no acknowledgement without it.
THEOREM WorkersKeepPromise == Spec => ImplementsAssessment
<1>1. Init => Promise!Init
  BY DEF Init, Promise!Init
<1>2. QED
  BY <1>1, TypeCorrect, DurableAlways, StepOfPromise, PTL
  DEF Spec, ImplementsAssessment, Promise!Spec

\* The decision of an event is final.
THEOREM FinalDecision == Spec => DecisionIsFinal
<1>1. TypeOK /\ [Promise!Next]_(Promise!vars)
        => [\A e \in Events : score[e] # NoDecision => score'[e] = score[e]]_vars
  BY DEF TypeOK, TablesTyped, Promise!Next, Promise!Decide, Promise!Acknowledge,
         Promise!vars
<1>2. QED
  BY <1>1, TypeCorrect, WorkersKeepPromise, PTL
  DEF DecisionIsFinal, ImplementsAssessment, Promise!Spec

-----------------------------------------------------------------------------
(* When a completed assessment stays completed *)

\* Two workers never work on one event at the same time.
Exclusive ==
    \A v, w \in Workers : v # w /\ Busy(v) /\ Busy(w) => Event(v) # Event(w)

\* Between its reading of the status and its commit, a worker works on an event
\* that is not completed.
SoleInv ==
    \A w \in Workers :
        pc[w] \in {"mark_processing", "flush_marker", "commit_marker"}
            => assess[Event(w)] # "completed"

\* What a worker has read stays true while it has its event to itself.
LEMMA SoleStep == TypeOK /\ Exclusive /\ SoleInv /\ [Next]_vars => SoleInv'
<1> SUFFICES ASSUME TypeOK, Exclusive, SoleInv, [Next]_vars PROVE SoleInv'
  OBVIOUS
<1> DEFINE Reading == {"mark_processing", "flush_marker", "commit_marker"}
<1> USE DEF SoleInv, TypeOK, TablesTyped, WorkersTyped, db, queue, failures, GoTo
<1>1. \A v \in Workers : pc[v] \in Reading => Busy(v) /\ Event(v) \in Events
  BY BusyType DEF Busy, BusyPoints, TryCalls, DbCalls
\* Steps that leave the assessments and the other workers' messages alone.
<1>2. ASSUME NEW w \in Workers, assess' = assess, stream' = stream,
             \A v \in Workers \ {w} : pc'[v] = pc[v] /\ msg'[v] = msg[v],
             pc'[w] \notin Reading
      PROVE  SoleInv'
  BY <1>2 DEF Event
<1>3. ASSUME NEW w \in Workers, MarkerEffect(w), pc[w] = "commit_marker",
             \A v \in Workers \ {w} : pc'[v] = pc[v] /\ msg'[v] = msg[v],
             pc'[w] \notin Reading
      PROVE  SoleInv'
  BY <1>1, <1>3 DEF MarkerEffect, Event
<1>4. ASSUME NEW w \in Workers, ResultEffect(w), pc[w] = "commit_result",
             \A v \in Workers \ {w} : pc'[v] = pc[v] /\ msg'[v] = msg[v],
             pc'[w] \notin Reading
      PROVE  SoleInv'
  <2>1. Busy(w)
    BY <1>4 DEF Busy, BusyPoints, TryCalls, DbCalls
  <2>2. \A v \in Workers \ {w} : pc[v] \in Reading => Event(v) # Event(w)
    BY <1>1, <2>1 DEF Exclusive
  <2>3. QED
    BY <1>1, <1>4, <2>2 DEF ResultEffect, Event
<1>5. CASE UNCHANGED vars
  BY <1>5 DEF vars, locals, Event
<1>6. ASSUME NEW w \in Workers, Progress(w) PROVE SoleInv'
  <2>1. CASE AssessmentStatus(w) \/ MarkProcessing(w) \/ FlushMarker(w)
    BY <2>1 DEF AssessmentStatus, MarkProcessing, FlushMarker, Raise, Event
  <2>2. CASE CommitMarker(w)
    BY <1>3, <2>2 DEF CommitMarker
  <2>3. CASE CommitResult(w)
    BY <1>4, <2>3 DEF CommitResult
  <2>4. CASE Consume(w) \/ TransactionExists(w) \/ RiskHandler(w) \/ PersistDecision(w) \/ Rollback(w)
    BY <1>2, <2>4 DEF Consume, TransactionExists, RiskHandler, PersistDecision, Rollback, Raise
  <2>5. CASE AckCompleted(w) \/ Ack(w) \/ HandleFailure(w)
    BY <1>2, <2>5 DEF AckCompleted, Ack, HandleFailure, AckEffect, FailureEffect, Leave
  <2>6. QED
    BY <1>6, <2>1, <2>2, <2>3, <2>4, <2>5 DEF Progress
<1>7. ASSUME NEW w \in Workers, CallFails(w) \/ Stop(w) \/ Restart(w)
      PROVE  SoleInv'
  BY <1>2, <1>7 DEF CallFails, Stop, Restart, Raise
<1>8. ASSUME NEW w \in Workers, ReplyLost(w) PROVE SoleInv'
  BY <1>2, <1>3, <1>4, <1>8 DEF ReplyLost, Raise, AckEffect
<1>9. ASSUME NEW w \in Workers, Crash(w) PROVE SoleInv'
  BY <1>2, <1>3, <1>4, <1>9 DEF Crash, Leave, AckEffect, FailureEffect
<1>10. QED
  BY <1>5, <1>6, <1>7, <1>8, <1>9 DEF Next

\* Only a commit of the marker could take a completed assessment back.
LEMMA StableStep ==
  TypeOK /\ SoleInv /\ [Next]_vars
      => [\A e \in Events : assess[e] = "completed" => assess'[e] = "completed"]_vars
<1> SUFFICES ASSUME TypeOK, SoleInv, [Next]_vars, NEW e \in Events,
                    assess[e] = "completed"
             PROVE  assess'[e] = "completed"
  OBVIOUS
<1> USE DEF SoleInv, Event, TypeOK, TablesTyped, WorkersTyped, db, queue, failures, GoTo
<1>1. CASE assess' = assess
  BY <1>1
<1>2. ASSUME NEW w \in Workers, pc[w] = "commit_marker", MarkerEffect(w)
      PROVE  assess'[e] = "completed"
  BY <1>2 DEF MarkerEffect
<1>3. ASSUME NEW w \in Workers, ResultEffect(w)
      PROVE  assess'[e] = "completed"
  BY <1>3 DEF ResultEffect
<1>4. QED
  BY <1>1, <1>2, <1>3
  DEF Next, Progress, vars, Consume, TransactionExists, AssessmentStatus,
      AckCompleted, MarkProcessing, FlushMarker, CommitMarker, RiskHandler,
      PersistDecision, CommitResult, Ack, Rollback, HandleFailure, AckEffect,
      FailureEffect, CallFails, ReplyLost, Crash, Stop, Restart

\* A completed assessment is stable in every run without two workers on one event.
LEMMA ExclusiveStability == Spec /\ []Exclusive => CompletedIsStable
<1>1. Init => SoleInv
  BY DEF Init, SoleInv
<1>2. QED
  BY <1>1, SoleStep, StableStep, TypeCorrect, PTL DEF Spec, CompletedIsStable

\* With one worker process, a completed assessment is never taken back, however
\* often its event is delivered and wherever the worker fails.
THEOREM SoleWorkerStability ==
  ASSUME \A v, w \in Workers : v = w
  PROVE  Spec => CompletedIsStable
<1>1. Exclusive
  BY DEF Exclusive
<1>2. QED
  BY <1>1, ExclusiveStability, PTL

\* Every event is in the stream once.
NoDuplicates == \A m, n \in Messages : m # n => stream[m] # stream[n]

\* Any number of workers take no completed assessment back if the stream holds
\* every event once, which is what it holds as long as no publication goes
\* unrecorded (OutboxDispatcher, DuplicatesHaveCause).
THEOREM StabilityWithoutDuplicates == Spec /\ NoDuplicates => CompletedIsStable
<1>1. Init => DeliveryInv
  BY DEF Init, DeliveryInv, AckedIsNotDeadLettered, Busy, BusyPoints, TryCalls, DbCalls
<1>2. [Next]_vars => stream' = stream
  BY DEF Next, Progress, vars, Consume, TransactionExists, AssessmentStatus,
         AckCompleted, MarkProcessing, FlushMarker, CommitMarker, RiskHandler,
         PersistDecision, CommitResult, Ack, Rollback, HandleFailure, AckEffect,
         FailureEffect, MarkerEffect, ResultEffect, CallFails, ReplyLost, Crash,
         Stop, Restart, queue
<1>3. NoDuplicates /\ [Next]_vars => NoDuplicates'
  BY <1>2 DEF NoDuplicates
<1>4. TypeOK /\ DeliveryInv /\ NoDuplicates => Exclusive
  <2> SUFFICES ASSUME TypeOK, DeliveryInv, NoDuplicates,
                      NEW v \in Workers, NEW w \in Workers, v # w, Busy(v), Busy(w)
               PROVE  Event(v) # Event(w)
    BY DEF Exclusive
  <2>1. msg[v] \in Messages /\ msg[w] \in Messages /\ msg[v] # msg[w]
    BY WorkerAssumption DEF TypeOK, TablesTyped, WorkersTyped, DeliveryInv, Messages
  <2>2. QED
    BY <2>1 DEF NoDuplicates, Event
<1>5. QED
  BY <1>1, <1>3, <1>4, DeliveryStep, TypeCorrect, ExclusiveStability, PTL DEF Spec

-----------------------------------------------------------------------------
(* Why a message leaves (the safety part of EveryMessageLeaves) *)

\* The longest way from an await of process() to its end.
StepsLeft(point) ==
    CASE point = "transaction_exists" -> 11
      [] point = "assessment_status" -> 10
      [] point = "mark_processing" -> 9
      [] point = "flush_marker" -> 8
      [] point = "commit_marker" -> 7
      [] point = "risk_handler" -> 6
      [] point = "persist_decision" -> 5
      [] point = "commit_result" -> 4
      [] point \in {"ack_completed", "ack"} -> 3
      [] point = "rollback" -> 2
      [] point = "handle_failure" -> 1
      [] OTHER -> 0

\* Whatever a call of process() does, it returns or raises to a later point.
LEMMA StepAdvances ==
  ASSUME TypeOK, [Next]_vars, NEW w \in Workers, Busy(w)
  PROVE  \/ pc'[w] = pc[w]
         \/ StepsLeft(pc'[w]) < StepsLeft(pc[w])
<1> USE DEF TypeOK, WorkersTyped, GoTo, Busy, BusyPoints, TryCalls, DbCalls
<1>1. CASE pc' = pc
  BY <1>1
<1>2. ASSUME NEW v \in Workers, v # w,
             \E point \in Points : GoTo(v, point)
      PROVE  pc'[w] = pc[w]
  BY <1>2
<1>3. ASSUME NEW v \in Workers,
             Progress(v) \/ CallFails(v) \/ ReplyLost(v) \/ Crash(v) \/ Stop(v) \/ Restart(v)
      PROVE  \E point \in Points : GoTo(v, point)
  BY <1>3
  DEF Points, Progress, Consume, TransactionExists, AssessmentStatus, AckCompleted,
      MarkProcessing, FlushMarker, CommitMarker, RiskHandler, PersistDecision,
      CommitResult, Ack, Rollback, HandleFailure, CallFails, ReplyLost, Crash, Stop,
      Restart, Raise, Leave
<1>4. CASE Progress(w)
  BY <1>4
  DEF StepsLeft, Progress, Consume, TransactionExists, AssessmentStatus, AckCompleted,
      MarkProcessing, FlushMarker, CommitMarker, RiskHandler, PersistDecision,
      CommitResult, Ack, Rollback, HandleFailure, Raise, Leave
<1>5. CASE CallFails(w) \/ ReplyLost(w)
  BY <1>5 DEF StepsLeft, CallFails, ReplyLost, Raise
<1>6. CASE Crash(w)
  BY <1>6 DEF StepsLeft, Crash, Leave
<1>7. CASE Stop(w) \/ Restart(w)
  BY <1>7 DEF Stop, Restart
<1>8. CASE Next
  <2>1. PICK v \in Workers :
          \/ Progress(v) \/ CallFails(v) \/ ReplyLost(v)
          \/ Crash(v) \/ Stop(v) \/ Restart(v)
    BY <1>8 DEF Next
  <2>2. CASE v # w
    <3>1. \E point \in Points : GoTo(v, point)
      BY <1>3, <2>1
    <3>2. QED
      BY <1>2, <2>2, <3>1
  <2>3. CASE v = w
    BY <1>4, <1>5, <1>6, <1>7, <2>1, <2>3
  <2>4. QED
    BY <2>2, <2>3
<1>9. QED
  BY <1>1, <1>8 DEF vars, locals

\* A worker never goes back: with each step it takes, and however the awaited call
\* ends, what is left of process() gets shorter, so that a message takes at most
\* eleven of them.
THEOREM EveryStepAdvances ==
  Spec => [][\A w \in Workers : Busy(w) =>
                 \/ pc'[w] = pc[w]
                 \/ StepsLeft(pc'[w]) < StepsLeft(pc[w])]_vars
<1>1. TypeOK /\ [Next]_vars =>
        [\A w \in Workers : Busy(w) =>
            \/ pc'[w] = pc[w]
            \/ StepsLeft(pc'[w]) < StepsLeft(pc[w])]_vars
  BY StepAdvances
<1>2. QED
  BY <1>1, TypeCorrect, PTL DEF Spec

\* The flush of w waits for the end of another session.
Waiting(w) ==
    /\ pc[w] \in {"flush_marker", "persist_decision"}
    /\ Blocked(w)

\* There is no deadlock on rows: the session a worker waits for is one only, and it
\* is at its commit or rollback, which wait for nobody.
THEOREM NobodyWaitsForAWaiter ==
  Spec => [](\A w \in Workers : Waiting(w) =>
                \E v \in Workers \ {w} :
                    /\ wrote[v] /\ Event(v) = Event(w)
                    /\ pc[v] \in {"commit_marker", "commit_result", "rollback"}
                    /\ ~ Waiting(v)
                    /\ \A u \in Workers \ {v} : ~ (wrote[u] /\ Event(u) = Event(w)))
<1>1. DurableInv =>
        \A w \in Workers : Waiting(w) =>
            \E v \in Workers \ {w} :
                /\ wrote[v] /\ Event(v) = Event(w)
                /\ pc[v] \in {"commit_marker", "commit_result", "rollback"}
                /\ ~ Waiting(v)
                /\ \A u \in Workers \ {v} : ~ (wrote[u] /\ Event(u) = Event(w))
  <2> SUFFICES ASSUME DurableInv, NEW w \in Workers, Waiting(w)
               PROVE  \E v \in Workers \ {w} :
                          /\ wrote[v] /\ Event(v) = Event(w)
                          /\ pc[v] \in {"commit_marker", "commit_result", "rollback"}
                          /\ ~ Waiting(v)
                          /\ \A u \in Workers \ {v} : ~ (wrote[u] /\ Event(u) = Event(w))
    OBVIOUS
  <2>1. PICK v \in Workers \ {w} : wrote[v] /\ Event(v) = Event(w)
    BY DEF Waiting, Blocked
  <2>2. pc[v] \in {"commit_marker", "commit_result", "rollback"}
    BY <2>1 DEF DurableInv, OneWriter
  <2>3. \A u \in Workers \ {v} : ~ (wrote[u] /\ Event(u) = Event(w))
    BY <2>1 DEF DurableInv, OneWriter
  <2>4. ~ Waiting(v)
    BY <2>2 DEF Waiting
  <2>5. QED
    BY <2>1, <2>2, <2>3, <2>4
<1>2. QED
  BY <1>1, DurableAlways, PTL
=============================================================================
