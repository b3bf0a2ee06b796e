------------------------------- MODULE Replay -------------------------------
(***************************************************************************)
(* scripts/replay_banksim.py: the client that posts the rows of the        *)
(* canonical table of Dataset to the ingestion API, with the row labels    *)
(* read again from the raw CSV when only frauds are wanted.                *)
(*                                                                         *)
(* The server is whatever --api-url names: it may accept a row, refuse it, *)
(* or leave the client without an answer, with or without having stored    *)
(* the row.  AcceptedByApi says what the API of this repository does.      *)
(***************************************************************************)
EXTENDS Dataset

CONSTANTS
    Configs        \* command lines: --fraud-only, --limit and the step range

ASSUME ReplayAssumption ==
    \A c \in Configs :
        /\ DOMAIN c = {"fraud_only", "limit", "start_step", "end_step"}
        /\ c.fraud_only \in BOOLEAN
        /\ c.limit \in Nat
        /\ {c.start_step, c.end_step} \subseteq Int \cup {None}

VARIABLES
    phase,         \* "idle", "posting" or "reported"
    selected,      \* what selected_rows returned, by position in the CSV
    todo,          \* the rows that the loop has not finished with
    attempt,       \* attempt of the first of them
    sent,          \* rows counted as sent
    failures,      \* rows reported as failed
    stored         \* the server: ids of the transactions it has stored

report == <<sent, failures>>
client == <<phase, selected, todo, attempt, report>>
vars == <<files, client, stored>>

MaxPosts == 3

-----------------------------------------------------------------------------
(* selected_rows *)

\* load_fraud_rows compares the label as it is in the file, unstripped.
FraudLines(file) == {LineOf(i) : i \in {i \in DOMAIN file : file[i].fraud = "1"}}

InRange(step, c) ==
    /\ c.start_step # None => step >= c.start_step
    /\ c.end_step # None => step <= c.end_step

Wanted(row, file, c) ==
    /\ InRange(row.source_step, c)
    /\ c.fraud_only => row.source_metadata.source_row \in FraudLines(file)

WantedRows(rows, file, c) == {i \in DOMAIN rows : Wanted(rows[i], file, c)}

\* The first c.limit of them.  A limit of 0 is no limit.
Selection(rows, file, c) ==
    LET wanted == WantedRows(rows, file, c)
    IN  {i \in wanted : c.limit # 0 => Cardinality({j \in wanted : j <= i}) <= c.limit}

-----------------------------------------------------------------------------
(* TransactionIn, the body POST /v1/transactions accepts *)

AcceptedByApi(row) ==
    /\ row.amount > 0
    /\ row.source_step >= 0
    /\ row.source_metadata.type = "object"

-----------------------------------------------------------------------------
(* replay *)

TypeOK ==
    /\ FilesTyped
    /\ phase \in {"idle", "posting", "reported"}
    /\ todo \subseteq DOMAIN selected
    /\ attempt \in 1 .. MaxPosts
    /\ sent \in 0 .. Cardinality(DOMAIN selected \ todo)
    /\ failures \subseteq DOMAIN selected \ todo
    /\ phase = "reported" => todo = {}

Init ==
    /\ FilesInit
    /\ phase = "idle"
    /\ selected = <<>>
    /\ todo = {}
    /\ attempt = 1
    /\ sent = 0
    /\ failures = {}
    /\ stored = {}

\* The whole table is read before the first row is posted.
Start(c) ==
    /\ phase # "posting"
    /\ table # None
    /\ c.fraud_only => raw # None
    /\ phase' = "posting"
    /\ LET chosen == Selection(table, raw, c)
       IN  /\ selected' = [i \in chosen |-> table[i]]
           /\ todo' = chosen
    /\ attempt' = 1
    /\ sent' = 0
    /\ failures' = {}
    /\ UNCHANGED <<files, stored>>

\* The loop is at row i.
Posting(i) ==
    /\ phase = "posting"
    /\ i \in todo
    /\ \A j \in todo : i <= j

\* 200 or 202.
Accepted(i) ==
    /\ Posting(i)
    /\ stored' = stored \cup {selected[i].transaction_id}
    /\ sent' = sent + 1
    /\ todo' = todo \ {i}
    /\ attempt' = 1
    /\ UNCHANGED <<files, phase, selected, failures>>

GiveUp(i) ==
    /\ failures' = failures \cup {i}
    /\ todo' = todo \ {i}
    /\ attempt' = 1
    /\ UNCHANGED <<files, phase, selected, sent>>

\* Any other status below 500.
Refused(i) ==
    /\ Posting(i)
    /\ GiveUp(i)
    /\ UNCHANGED stored

\* A timeout, a network error or a status of 500 and more: the server may have
\* stored the row.
Unstored(i) ==
    stored' = stored \/ stored' = stored \cup {selected[i].transaction_id}

\* Mutant: the delays start again before the last.
RetryForEver(i) ==
    /\ Posting(i)
    /\ attempt < MaxPosts
    /\ Unstored(i)
    /\ attempt' = (attempt % (MaxPosts - 1)) + 1
    /\ UNCHANGED <<files, phase, selected, todo, report>>

\* Mutant: one post too many.
RetryOnceMore(i) ==
    /\ Posting(i)
    /\ attempt <= MaxPosts
    /\ Unstored(i)
    /\ attempt' = attempt + 1
    /\ UNCHANGED <<files, phase, selected, todo, report>>

Retry(i) ==
    /\ Posting(i)
    /\ attempt < MaxPosts
    /\ Unstored(i)
    /\ attempt' = attempt + 1
    /\ UNCHANGED <<files, phase, selected, todo, report>>

\* Mutant: a row whose attempts are used up is not reported.
ExhaustedSilently(i) ==
    /\ Posting(i)
    /\ attempt = MaxPosts
    /\ Unstored(i)
    /\ todo' = todo \ {i}
    /\ attempt' = 1
    /\ UNCHANGED <<files, phase, selected, report>>

Exhausted(i) ==
    /\ Posting(i)
    /\ attempt = MaxPosts
    /\ Unstored(i)
    /\ GiveUp(i)

Report ==
    /\ phase = "posting"
    /\ todo = {}
    /\ phase' = "reported"
    /\ UNCHANGED <<files, selected, todo, attempt, report, stored>>

\* The process is killed: what it has counted is gone.
Killed ==
    /\ phase = "posting"
    /\ phase' = "idle"
    /\ selected' = <<>>
    /\ todo' = {}
    /\ attempt' = 1
    /\ sent' = 0
    /\ failures' = {}
    /\ UNCHANGED <<files, stored>>

Post ==
    \/ \E i \in todo : Accepted(i) \/ Refused(i) \/ Retry(i) \/ Exhausted(i)
    \/ Report

Next ==
    \/ FilesNext /\ UNCHANGED <<client, stored>>
    \/ \E c \in Configs : Start(c)
    \/ Post
    \/ Killed

Spec == Init /\ [][Next]_vars

\* Every request ends within the client's timeout of 10 s.
FairSpec == Spec /\ WF_vars(Post)

-----------------------------------------------------------------------------
(* Properties *)

\* What a replay of frauds only is about: the lines of the CSV that are frauds, as
\* validate_dataset and convert_dataset count them, in the step range.
FraudsInRange(c) ==
    {LineOf(i) : i \in {j \in Kept(raw) : IsFraud(raw[j]) /\ InRange(raw[j].step, c)}}

\* The lines it posts, as their identities record them.
Replayed(c) == {table[k].transaction_id[2] : k \in Selection(table, raw, c)}

\* No label needs to be stripped.
PlainLabels == \A j \in DOMAIN raw : raw[j].fraud = Strip(raw[j].fraud)

\* A row that is replayed because it is a fraud is one, and if no label is padded
\* none is left out: the line numbers that one script stores in the table and
\* another one counts again in the CSV mean the same row, whatever was skipped in
\* between, as long as the CSV is the one the table was made from.
FraudOnlyIsExact ==
    table # None /\ raw = tableFrom =>
        \A c \in Configs : c.fraud_only /\ c.limit = 0 =>
            /\ Replayed(c) \subseteq FraudsInRange(c)
            /\ PlainLabels => FraudsInRange(c) \subseteq Replayed(c)

\* "Load source row numbers whose evaluation label is fraud."
\* (replay_banksim.py:30): a replay of frauds only posts every row of its step
\* range that the other two scripts have counted as a fraud.
FraudOnlyMissesNone ==
    table # None /\ raw = tableFrom =>
        \A c \in Configs :
            c.fraud_only /\ c.limit = 0 => FraudsInRange(c) \subseteq Replayed(c)

\* A replay never mistakes partial failure for success (milestones/7.3.md:57):
\* when it reports, every selected row is counted once, and the ones that are not
\* reported as failed are stored, even if an earlier attempt went unanswered.
ReportIsTrue ==
    phase = "reported" =>
        /\ sent + Cardinality(failures) = Cardinality(DOMAIN selected)
        /\ \A k \in DOMAIN selected \ failures : selected[k].transaction_id \in stored

\* A replay ends, whatever the server does: no row is retried for ever.
ReplayEnds == phase = "posting" ~> phase # "posting"

\* "Canonical output has all API-required fields." (milestones/7.2.md:59): every
\* row of the table is one that POST /v1/transactions accepts.
CanonicalIsAccepted == table # None => \A k \in DOMAIN table : AcceptedByApi(table[k])
=============================================================================
