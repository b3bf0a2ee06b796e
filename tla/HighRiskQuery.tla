--------------------------- MODULE HighRiskQuery ---------------------------
(***************************************************************************)
(* The risk endpoints of the API (query_risk and query_high_risk in        *)
(* fraudlatch/api/routes.py) while the workers write the rows they read,   *)
(* and a client that walks through the high-risk pages.                    *)
(*                                                                         *)
(* Events are numbered in the order of their transaction ids, and the      *)
(* decisions are the scores.  Every request is one SELECT of committed     *)
(* rows; between two pages the workers go on.                              *)
(***************************************************************************)
EXTENDS Worker, FiniteSets

CONSTANTS
    HighScores,    \* the decisions whose level is HIGH
    Limit          \* rows of a page

ASSUME QueryAssumption ==
    /\ Events \subseteq Nat /\ IsFiniteSet(Events)
    /\ Decisions \subseteq Nat
    /\ HighScores \subseteq Decisions
    /\ Limit \in 1 .. 100

VARIABLES
    walk,          \* the client is between its first page and its last, or not
    offset,        \* of the next page
    seen,          \* events on the pages of this walk so far
    start          \* the high-risk events when the walk began (history)

reader == <<walk, offset, seen, start>>
qvars == <<vars, reader>>

-----------------------------------------------------------------------------
(* The requests *)

\* query_risk: no row, a row that is not completed yet, or a decision.
RiskStatus(e) ==
    CASE assess[e] = "none" -> 404
      [] assess[e] = "processing" -> 202
      [] OTHER -> 200

\* WHERE level = 'HIGH' AND status = 'completed'
HighRows == {e \in Events : assess[e] = "completed" /\ score[e] \in HighScores}

\* ORDER BY score DESC, transaction_id
Before(f, e) == score[f] > score[e] \/ (score[f] = score[e] /\ f < e)

\* How many rows come before e.
Rank(e) == Cardinality({f \in HighRows : Before(f, e)})

\* OFFSET and LIMIT
Page(from) == {e \in HighRows : from <= Rank(e) /\ Rank(e) < from + Limit}

-----------------------------------------------------------------------------

QueryTypeOK ==
    /\ TypeOK
    /\ walk \in {"idle", "walking"}
    /\ offset \in Nat
    /\ seen \subseteq Events
    /\ start \subseteq Events

QueryInit ==
    /\ Init
    /\ walk = "idle"
    /\ offset = 0
    /\ seen = {}
    /\ start = {}

\* The client asks for the first page next.
StartWalk ==
    /\ walk = "idle"
    /\ walk' = "walking"
    /\ offset' = 0
    /\ seen' = {}
    /\ start' = HighRows
    /\ UNCHANGED vars

\* One page.  It is empty when OFFSET has skipped all the rows; the client stops
\* at an empty page.
ReadPage ==
    /\ walk = "walking"
    /\ seen' = seen \cup Page(offset)
    /\ offset' = offset + Limit
    /\ walk' = IF Cardinality(HighRows) > offset THEN "walking" ELSE "idle"
    /\ UNCHANGED <<vars, start>>

QueryNext ==
    \/ Next /\ UNCHANGED reader
    \/ StartWalk
    \/ ReadPage

QuerySpec == QueryInit /\ [][QueryNext]_qvars

-----------------------------------------------------------------------------
(* Properties *)

\* A client that polls the risk of a transaction never sees it go back: after
\* 200 there is no 202, and after either no 404.
AnswerNeverRegresses ==
    [][\A e \in Events :
          /\ RiskStatus(e) = 200 => RiskStatus(e)' = 200
          /\ RiskStatus(e) = 202 => RiskStatus(e)' # 404]_qvars

\* Offset pagination over rows that are inserted between two pages repeats rows
\* but misses none: every event that was high-risk when the client asked for the
\* first page is on one of the pages it has read by the last.  With one worker:
\* it takes a row that leaves the list to make the rest move up.
WalkMissesNone == walk = "idle" => start \subseteq seen

-----------------------------------------------------------------------------
(* The inductive invariant behind WalkMissesNone (see HighRiskProofs).     *)

\* Rows only move towards later pages: what was high-risk at the start is still
\* listed, on a page that has been read or at an offset to come.
WalkInv ==
    /\ start \subseteq HighRows
    /\ walk = "walking" => \A e \in start \ seen : Rank(e) >= offset
    /\ WalkMissesNone
=============================================================================
