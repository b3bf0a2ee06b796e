------------------------------ MODULE Dataset ------------------------------
(***************************************************************************)
(* The files of the BankSim data set and the two scripts that read the raw *)
(* CSV: scripts/validate_dataset.py, which writes a validation manifest,   *)
(* and scripts/prepare_banksim.py, which writes the canonical table and    *)
(* then its manifest.                                                      *)
(*                                                                         *)
(* A file is its content, and a SHA-256 digest identifies what it is the   *)
(* digest of.  Amounts are in thousandths, one digit more than a canonical *)
(* amount has; a canonical amount is in hundredths.  A script reads a file *)
(* in one step: nobody edits the CSV while it is being read.               *)
(***************************************************************************)
EXTENDS Integers, Sequences, FiniteSets

CONSTANTS
    SourceRows,    \* rows the CSV may have
    Files,         \* contents the CSV may have
    Seeds,         \* values of --seed
    None,          \* no such file
    Text,          \* a field that is not a number
    NaN, Infinity, \* the other values Decimal() knows
    LastDay,       \* days from EPOCH to the end of datetime's calendar
    MaxAmount,     \* the largest decimal128(18, 2)
    MaxEdits       \* bound on the replacements of the CSV

\* A blank required field is a blank customer here.  A label may be padded with
\* a space, which the two scripts strip.
ASSUME DatasetAssumption ==
    /\ \A row \in SourceRows :
          /\ DOMAIN row = {"customer", "step", "amount", "fraud"}
          /\ row.step \in Int \cup {Text}
          /\ row.amount \in Int \cup {Text, NaN, Infinity}
    /\ Files \subseteq Seq(SourceRows)
    /\ None \notin Files
    /\ {Text, NaN, Infinity} \cap Int = {}
    /\ {LastDay, MaxAmount, MaxEdits} \subseteq Nat

VARIABLES
    raw,           \* data/raw/bs140513_032310.csv
    checked,       \* the validation manifest
    table,         \* the canonical Parquet table
    manifest,      \* the canonical manifest
    pending,       \* the manifest of a prepare run that has written its table
    edits,
    tableFrom, manifestFrom  \* history: the CSV that table and manifest came from

outputs == <<table, manifest, pending, tableFrom, manifestFrom>>
files == <<raw, checked, outputs, edits>>

-----------------------------------------------------------------------------
(* A row of the CSV *)

Strip(label) == IF label = " 1" THEN "1" ELSE label

\* The values both scripts look at.
Values(row) == [row EXCEPT !.fraud = Strip(@)]

Labelled(row) == Strip(row.fraud) \in {"0", "1"}

IsFraud(row) == Strip(row.fraud) = "1"

IsZero(row) == row.amount = 0

\* DictReader's rows are numbered from 2, in every script.
LineOf(i) == i + 1

ZeroRows(file) == {i \in DOMAIN file : IsZero(file[i])}

FraudRows(file) == {i \in DOMAIN file : IsFraud(file[i])}

-----------------------------------------------------------------------------
(* validate_dataset *)

\* The row raises no error.  Comparing a NaN raises InvalidOperation; an
\* infinity is as good as any positive amount.
ValidRow(row) ==
    /\ row.customer # ""
    /\ row.step # Text /\ row.step >= 0
    /\ row.amount \notin {Text, NaN}
    /\ row.amount # Infinity => row.amount >= 0
    /\ Labelled(row)

ValidationManifest(file) ==
    [sha256 |-> file,
     row_count |-> Len(file),
     fraud_count |-> Cardinality(FraudRows(file)),
     valid_row_count |-> Len(file) - Cardinality(ZeroRows(file)),
     skipped_rows |-> {LineOf(i) : i \in ZeroRows(file)},
     duplicate_rows |-> Len(file) - Cardinality({Values(file[i]) : i \in DOMAIN file})]

-----------------------------------------------------------------------------
(* convert_dataset *)

\* quantize(Decimal("0.01")), whose default rounding is half to even.
Cents(amount) ==
    LET cents == amount \div 10
        rest == amount % 10
    IN  IF rest > 5 \/ (rest = 5 /\ cents % 2 = 1) THEN cents + 1 ELSE cents

\* The date and the column that a row which is not skipped needs.
WithinTable(row) ==
    /\ row.amount # Infinity
    /\ Cents(row.amount) <= MaxAmount
    /\ row.step <= LastDay

\* The row raises neither in convert_dataset nor when the table is built.
ConvertibleRow(row) ==
    /\ row.customer # ""
    /\ row.step # Text /\ row.amount # Text
    /\ row.step >= 0
    /\ row.amount # NaN
    /\ row.amount # Infinity => row.amount >= 0
    /\ Labelled(row)
    /\ IsZero(row) \/ WithinTable(row)

\* Mutant: an identity that does not include the source row.
IdOfValues(seed, i, row) == <<seed, Values(row)>>

\* stable_transaction_id: a digest of the seed, the line and the values.
TransactionId(seed, i, row) == <<seed, LineOf(i), Values(row)>>

\* The rows that are not skipped.
Kept(file) == DOMAIN file \ ZeroRows(file)

\* Mutant: the rows are numbered as they are written.
OutputRow(file, i) == LineOf(Cardinality({j \in Kept(file) : j <= i}))

SourceRow(file, i) == LineOf(i)

\* A table is a function: the rows are in the order of the positions they have in
\* the CSV.  source_metadata is what json.dumps returns, a string.
CanonicalRows(file, seed) ==
    [i \in Kept(file) |->
        [transaction_id |-> TransactionId(seed, i, file[i]),
         amount |-> Cents(file[i].amount),
         source_step |-> file[i].step,
         source_metadata |-> [type |-> "string", source_row |-> SourceRow(file, i)]]]

\* "transaction ID collision"
Collides(rows) ==
    \E i, j \in DOMAIN rows : i # j /\ rows[i].transaction_id = rows[j].transaction_id

Converts(file, seed) ==
    /\ \A i \in DOMAIN file : ConvertibleRow(file[i])
    /\ ~ Collides(CanonicalRows(file, seed))

\* Mutant: a row is skipped before its label is counted.
FraudsAmongKept(file) == FraudRows(file) \ ZeroRows(file)

\* The rows whose label convert_dataset has counted, skipped ones included.
CountedFrauds(file) == FraudRows(file)

CanonicalManifest(file, seed) ==
    [seed |-> seed,
     source_row_count |-> Cardinality(Kept(file)) + Cardinality(ZeroRows(file)),
     canonical_row_count |-> Cardinality(Kept(file)),
     skipped_rows |-> {LineOf(i) : i \in ZeroRows(file)},
     source_fraud_count |-> Cardinality(CountedFrauds(file))]

-----------------------------------------------------------------------------

FilesTyped ==
    /\ raw \in Files \cup {None}
    /\ tableFrom \in Files \cup {None}
    /\ manifestFrom \in Files \cup {None}
    /\ edits \in 0 .. MaxEdits
    /\ checked # None => \A i \in DOMAIN checked.sha256 : ValidRow(checked.sha256[i])
    /\ table # None =>
          \A i \in DOMAIN table :
             /\ table[i].amount \in 0 .. MaxAmount
             /\ table[i].source_step \in 0 .. LastDay

FilesInit ==
    /\ raw = None
    /\ checked = None
    /\ table = None
    /\ manifest = None
    /\ pending = None
    /\ edits = 0
    /\ tableFrom = None
    /\ manifestFrom = None

\* The CSV is placed, or replaced, by hand.
Download ==
    /\ edits < MaxEdits
    /\ edits' = edits + 1
    /\ raw' \in Files \ {raw}
    /\ UNCHANGED <<checked, outputs>>

\* A file with an invalid row leaves the manifest of the last valid one.
Validate ==
    /\ raw # None
    /\ \A i \in DOMAIN raw : ValidRow(raw[i])
    /\ checked' = ValidationManifest(raw)
    /\ UNCHANGED <<raw, outputs, edits>>

\* Mutant: an existing table is not overwritten.
WriteTableOnce(seed) ==
    /\ pending = None
    /\ raw # None
    /\ Converts(raw, seed)
    /\ table' = IF table = None THEN CanonicalRows(raw, seed) ELSE table
    /\ tableFrom' = raw
    /\ pending' = CanonicalManifest(raw, seed)
    /\ UNCHANGED <<raw, checked, manifest, edits, manifestFrom>>

\* convert_dataset, and write_outputs up to the table.  A file that cannot be
\* converted leaves both outputs alone.
WriteTable(seed) ==
    /\ pending = None
    /\ raw # None
    /\ Converts(raw, seed)
    /\ table' = CanonicalRows(raw, seed)
    /\ tableFrom' = raw
    /\ pending' = CanonicalManifest(raw, seed)
    /\ UNCHANGED <<raw, checked, manifest, edits, manifestFrom>>

\* write_outputs, the manifest, with the digest of the table read back.
WriteManifest ==
    /\ pending # None
    /\ manifest' = [counts |-> pending, output_sha256 |-> table]
    /\ manifestFrom' = tableFrom
    /\ pending' = None
    /\ UNCHANGED <<raw, checked, table, edits, tableFrom>>

\* prepare_banksim ends between its two writes.
Interrupt ==
    /\ pending # None
    /\ pending' = None
    /\ UNCHANGED <<raw, checked, table, manifest, edits, tableFrom, manifestFrom>>

FilesNext ==
    \/ Download
    \/ Validate
    \/ \E seed \in Seeds : WriteTable(seed)
    \/ WriteManifest
    \/ Interrupt

-----------------------------------------------------------------------------
(* Properties *)

\* Two scripts count the same CSV, each with its own checks and its own order of
\* them: whatever file both have accepted, they report the same rows, the same
\* skipped lines and the same number of frauds, duplicates and padding included.
ManifestsAgree ==
    checked # None /\ manifest # None /\ checked.sha256 = manifestFrom =>
        /\ manifest.counts.source_row_count = checked.row_count
        /\ manifest.counts.canonical_row_count = checked.valid_row_count
        /\ manifest.counts.skipped_rows = checked.skipped_rows
        /\ manifest.counts.source_fraud_count = checked.fraud_count

\* The manifest describes the table whose digest it holds, wherever a conversion
\* was interrupted and however the CSV was replaced since: comparing the digests is
\* enough to find out that a table is there without its manifest.
ManifestDescribesTable ==
    manifest # None =>
        LET rows == manifest.output_sha256
            counts == manifest.counts
        IN  /\ Cardinality(DOMAIN rows) = counts.canonical_row_count
            /\ \A i \in DOMAIN rows :
                  /\ rows[i].transaction_id[1] = counts.seed
                  /\ rows[i].source_metadata.source_row \notin counts.skipped_rows

\* What has been validated can be converted, under every seed, unless it does not
\* fit the table: no two rows collide, however often the same row is repeated.
ValidIsConvertible ==
    checked # None
    /\ (\A i \in DOMAIN checked.sha256 \ ZeroRows(checked.sha256) : WithinTable(checked.sha256[i]))
        => \A seed \in Seeds : Converts(checked.sha256, seed)
=============================================================================
