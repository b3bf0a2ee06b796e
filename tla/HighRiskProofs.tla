--------------------------- MODULE HighRiskProofs ---------------------------
(***************************************************************************)
(* Theorems about HighRiskQuery, for any number of events, messages and    *)
(* scores and any page size.                                               *)
(***************************************************************************)
EXTENDS HighRiskQuery, WorkerProofs, FiniteSetTheorems

USE QueryAssumption

\* The workers do not notice the reader.
LEMMA ReaderIsPassive == QuerySpec => Spec
<1>1. QueryInit => Init
  BY DEF QueryInit
<1>2. [QueryNext]_qvars => [Next]_vars
  BY DEF QueryNext, qvars, vars, StartWalk, ReadPage
<1>3. QED
  BY <1>1, <1>2, PTL DEF QuerySpec, Spec

\* Every state of a run has the declared types.
THEOREM QueryTypeCorrect == QuerySpec => []QueryTypeOK
<1>1. QueryInit /\ TypeOK => QueryTypeOK
  BY DEF QueryInit, QueryTypeOK
<1>2. TypeOK' /\ QueryTypeOK /\ [QueryNext]_qvars => QueryTypeOK'
  <2> SUFFICES ASSUME TypeOK', QueryTypeOK, [QueryNext]_qvars PROVE QueryTypeOK'
    OBVIOUS
  <2> USE DEF QueryTypeOK
  <2>1. CASE UNCHANGED reader
    BY <2>1 DEF reader
  <2>2. CASE StartWalk
    BY <2>2 DEF StartWalk, HighRows
  <2>3. CASE ReadPage
    <3>1. offset + Limit \in Nat /\ Page(offset) \subseteq Events
      BY DEF Page, HighRows
    <3>2. QED
      BY <2>3, <3>1 DEF ReadPage
  <2>4. QED
    BY <2>1, <2>2, <2>3 DEF QueryNext, qvars
<1>3. QED
  BY <1>1, <1>2, ReaderIsPassive, TypeCorrect, PTL DEF QuerySpec

-----------------------------------------------------------------------------
(* Ranks *)

\* The rows before a high-risk row are a proper part of the list.
LEMMA RankBound ==
  /\ IsFiniteSet(HighRows)
  /\ \A e \in Events : Rank(e) \in Nat
  /\ \A e \in HighRows : TypeOK => Rank(e) < Cardinality(HighRows)
<1>1. IsFiniteSet(HighRows)
  BY FS_Subset DEF HighRows
<1>2. ASSUME NEW e \in Events
      PROVE  Rank(e) \in Nat /\ (e \in HighRows /\ TypeOK => Rank(e) < Cardinality(HighRows))
  <2> DEFINE before == {f \in HighRows : Before(f, e)}
  <2>1. IsFiniteSet(before) /\ Cardinality(before) \in Nat
    BY <1>1, FS_Subset, FS_CardinalityType
  <2>2. ASSUME e \in HighRows, TypeOK PROVE Cardinality(before) < Cardinality(HighRows)
    <3>1. score[e] \in Nat
      BY <2>2 DEF HighRows
    <3>2. e \notin before
      BY <3>1 DEF Before
    <3>3. before \in SUBSET HighRows /\ before # HighRows
      BY <2>2, <3>2
    <3>4. QED
      BY <1>1, <3>3, FS_Subset, FS_CardinalityType
  <2>3. QED
    BY <2>1, <2>2 DEF Rank
<1>3. QED
  BY <1>1, <1>2 DEF HighRows

\* A step that neither reopens a completed event nor changes a score.
Grows ==
    \A e \in Events :
        /\ assess[e] = "completed" => assess'[e] = "completed"
        /\ score[e] # NoDecision => score'[e] = score[e]

\* Such a step removes no row from the list and moves none forward.
LEMMA RanksGrow ==
  ASSUME Grows
  PROVE  HighRows \subseteq HighRows' /\ \A e \in HighRows : Rank(e)' >= Rank(e)
<1>1. \A e \in HighRows : e \in HighRows' /\ score'[e] = score[e]
  BY WorkerAssumption DEF Grows, HighRows
<1>2. IsFiniteSet(HighRows')
  BY FS_Subset DEF HighRows
<1>3. ASSUME NEW e \in HighRows PROVE Rank(e)' >= Rank(e)
  <2> DEFINE before == {f \in HighRows : Before(f, e)}
             after == {f \in HighRows' : Before(f, e)'}
  <2>1. before \subseteq after
    BY <1>1 DEF Before
  <2>2. IsFiniteSet(after)
    BY <1>2, FS_Subset
  <2>3. Cardinality(after) >= Cardinality(before)
    BY <2>1, <2>2, FS_Subset, FS_CardinalityType
  <2>4. QED
    BY <2>3 DEF Rank
<1>4. QED
  BY <1>1, <1>3

-----------------------------------------------------------------------------
(* The walk *)

\* Every step keeps what the reader has not seen yet in front of it.
LEMMA WalkStep ==
  ASSUME TypeOK, QueryTypeOK, QueryTypeOK', WalkInv, [QueryNext]_qvars,
         Grows \/ UNCHANGED vars
  PROVE  WalkInv'
<1>1. Grows
  <2>1. CASE UNCHANGED vars
    BY <2>1 DEF Grows, vars, db
  <2>2. QED
    BY <2>1
<1>2. HighRows \subseteq HighRows' /\ \A e \in HighRows : Rank(e)' >= Rank(e)
  BY <1>1, RanksGrow
<1>3. \A e \in HighRows : Rank(e) \in Nat /\ Rank(e)' \in Nat
  <2>1. \A e \in HighRows : Rank(e) \in Nat
    BY RankBound DEF HighRows
  <2>2. IsFiniteSet(HighRows')
    BY FS_Subset DEF HighRows
  <2>3. ASSUME NEW e \in HighRows PROVE Rank(e)' \in Nat
    <3>1. IsFiniteSet({f \in HighRows' : Before(f, e)'})
      BY <2>2, FS_Subset
    <3>2. QED
      BY <3>1, FS_CardinalityType DEF Rank
  <2>4. QED
    BY <2>1, <2>3
<1>4. CASE UNCHANGED reader
  <2>1. \A e \in start \ seen : Rank(e)' >= Rank(e) /\ Rank(e) \in Nat /\ Rank(e)' \in Nat
    BY <1>2, <1>3 DEF WalkInv
  <2>2. QED
    BY <1>2, <1>4, <2>1 DEF WalkInv, WalkMissesNone, reader, QueryTypeOK
<1>5. CASE StartWalk
  <2>1. HighRows' = HighRows
    BY <1>5 DEF StartWalk, HighRows, vars, db
  <2>2. \A e \in HighRows : Rank(e)' >= 0
    BY <1>3
  <2>3. QED
    BY <1>5, <2>1, <2>2 DEF StartWalk, WalkInv, WalkMissesNone
<1>6. CASE ReadPage
  <2>1. \A e \in start \ seen' : e \in HighRows /\ Rank(e) >= offset + Limit
    <3>1. ASSUME NEW e \in start \ seen' PROVE e \in HighRows /\ Rank(e) >= offset + Limit
      <4>1. e \in HighRows /\ e \notin Page(offset) /\ Rank(e) >= offset
        BY <1>6, <3>1 DEF WalkInv, ReadPage
      <4>2. Rank(e) \in Nat
        BY <1>3, <4>1
      <4>3. QED
        BY <4>1, <4>2 DEF Page, QueryTypeOK
    <3>2. QED
      BY <3>1
  <2>2. walk' = "idle" => start' \subseteq seen'
    <3>1. ASSUME walk' = "idle", NEW e \in start \ seen' PROVE FALSE
      <4>1. Cardinality(HighRows) <= offset
        <5>1. Cardinality(HighRows) \in Nat
          BY RankBound, FS_CardinalityType
        <5>2. QED
          BY <1>6, <3>1, <5>1 DEF ReadPage, QueryTypeOK
      <4>2. Rank(e) < Cardinality(HighRows) /\ Rank(e) \in Nat
        BY <2>1, <3>1, RankBound, <1>3
      <4>3. Cardinality(HighRows) \in Nat
        BY RankBound, FS_CardinalityType
      <4>4. QED
        BY <2>1, <3>1, <4>1, <4>2, <4>3 DEF QueryTypeOK
    <3>2. QED
      BY <1>6, <3>1 DEF ReadPage
  <2>3. \A e \in start \ seen' : Rank(e)' >= offset'
    <3>1. ASSUME NEW e \in start \ seen' PROVE Rank(e)' >= offset'
      <4>1. e \in HighRows /\ Rank(e) >= offset + Limit
        BY <2>1, <3>1
      <4>2. Rank(e)' >= Rank(e) /\ Rank(e) \in Nat /\ Rank(e)' \in Nat
        BY <1>2, <1>3, <4>1
      <4>3. QED
        BY <1>6, <4>1, <4>2 DEF ReadPage, QueryTypeOK
    <3>2. QED
      BY <3>1
  <2>4. start' \subseteq HighRows'
    BY <1>2, <1>6 DEF ReadPage, WalkInv
  <2>5. QED
    BY <1>6, <2>2, <2>3, <2>4 DEF WalkInv, WalkMissesNone, ReadPage
<1>7. QED
  BY <1>4, <1>5, <1>6 DEF QueryNext, qvars

\* As long as completed assessments stay completed, a walk through the pages misses
\* no event that was high-risk when it began, however many are completed meanwhile.
THEOREM StableWalk == QuerySpec /\ CompletedIsStable => []WalkMissesNone
<1>1. QueryInit => WalkInv
  BY DEF QueryInit, WalkInv, WalkMissesNone
<1>2. /\ TypeOK /\ QueryTypeOK /\ QueryTypeOK' /\ WalkInv /\ [QueryNext]_qvars
      /\ [\A e \in Events : assess[e] = "completed" => assess'[e] = "completed"]_vars
      /\ [\A e \in Events : score[e] # NoDecision => score'[e] = score[e]]_vars
      => WalkInv'
  BY WalkStep DEF Grows
<1>3. Spec => [][\A e \in Events : score[e] # NoDecision => score'[e] = score[e]]_vars
  BY FinalDecision DEF DecisionIsFinal
<1>4. WalkInv => WalkMissesNone
  BY DEF WalkInv
<1>5. QED
  BY <1>1, <1>2, <1>3, <1>4, ReaderIsPassive, TypeCorrect, QueryTypeCorrect, PTL
  DEF QuerySpec, CompletedIsStable

\* With one worker, a walk through the pages misses no event that was high-risk when
\* it began, whatever is delivered twice.
THEOREM CompleteWalk ==
  ASSUME \A v, w \in Workers : v = w
  PROVE  QuerySpec => []WalkMissesNone
BY SoleWorkerStability, StableWalk, ReaderIsPassive, PTL

\* With any number of workers, a walk misses none if no event is in the stream twice.
THEOREM CompleteWalkWithoutDuplicates ==
  QuerySpec /\ NoDuplicates => []WalkMissesNone
BY StabilityWithoutDuplicates, StableWalk, ReaderIsPassive, PTL

-----------------------------------------------------------------------------
(* The answers *)

\* No step removes an assessment row.
LEMMA RowsStay ==
  TypeOK /\ [Next]_vars
      => [\A e \in Events : assess[e] # "none" => assess'[e] # "none"]_vars
<1> SUFFICES ASSUME TypeOK, [Next]_vars, NEW e \in Events, assess[e] # "none"
             PROVE  assess'[e] # "none"
  OBVIOUS
<1> USE DEF TypeOK, TablesTyped, db
<1>1. CASE assess' = assess
  BY <1>1
<1>2. ASSUME NEW w \in Workers, MarkerEffect(w) PROVE assess'[e] # "none"
  BY <1>2 DEF MarkerEffect
<1>3. ASSUME NEW w \in Workers, ResultEffect(w) PROVE assess'[e] # "none"
  BY <1>3 DEF ResultEffect
<1>4. QED
  BY <1>1, <1>2, <1>3
  DEF Next, Progress, vars, Consume, TransactionExists, AssessmentStatus,
      AckCompleted, MarkProcessing, FlushMarker, CommitMarker, RiskHandler,
      PersistDecision, CommitResult, Ack, Rollback, HandleFailure, AckEffect,
      FailureEffect, CallFails, ReplyLost, Crash, Stop, Restart

\* As long as completed assessments stay completed, the answers a client gets
\* about one transaction only move forward: 404, 202, 200.
THEOREM ForwardAnswers == QuerySpec /\ CompletedIsStable => AnswerNeverRegresses
<1>1. /\ TypeOK
      /\ [\A e \in Events : assess[e] = "completed" => assess'[e] = "completed"]_vars
      /\ [\A e \in Events : assess[e] # "none" => assess'[e] # "none"]_vars
      => [\A e \in Events :
             /\ RiskStatus(e) = 200 => RiskStatus(e)' = 200
             /\ RiskStatus(e) = 202 => RiskStatus(e)' # 404]_qvars
  BY DEF RiskStatus, TypeOK, TablesTyped, Statuses, vars, db
<1>2. QED
  BY <1>1, RowsStay, ReaderIsPassive, TypeCorrect, PTL
  DEF QuerySpec, Spec, CompletedIsStable, AnswerNeverRegresses

\* With one worker, the answers about one transaction only move forward, whatever is
\* delivered twice.
THEOREM StableAnswers ==
  ASSUME \A v, w \in Workers : v = w
  PROVE  QuerySpec => AnswerNeverRegresses
BY SoleWorkerStability, ForwardAnswers, ReaderIsPassive, PTL
=============================================================================
