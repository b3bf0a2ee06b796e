---------------------------- MODULE ReplayProofs ----------------------------
(***************************************************************************)
(* Theorems about Dataset and Replay, for any contents of the CSV, any     *)
(* seeds and any command lines.                                            *)
(***************************************************************************)
EXTENDS Replay, FiniteSetTheorems, TLAPS

\* As many positions as rows.
LEMMA UpTo ==
  ASSUME NEW n \in Nat
  PROVE  IsFiniteSet(1 .. n) /\ Cardinality(1 .. n) = n
BY FS_Interval

USE DatasetAssumption, ReplayAssumption

-----------------------------------------------------------------------------
(* Rows *)

\* The rows of a file are skipped or kept, never both, and no row is lost.
LEMMA RowCounts ==
  ASSUME NEW file \in Files
  PROVE  /\ IsFiniteSet(Kept(file)) /\ IsFiniteSet(ZeroRows(file))
         /\ Cardinality(Kept(file)) \in Nat /\ Cardinality(ZeroRows(file)) \in Nat
         /\ Cardinality(Kept(file)) + Cardinality(ZeroRows(file)) = Len(file)
<1>1. DOMAIN file = 1 .. Len(file) /\ Len(file) \in Nat
  OBVIOUS
<1>2. IsFiniteSet(DOMAIN file) /\ Cardinality(DOMAIN file) = Len(file)
  BY <1>1, UpTo
<1>3. /\ Kept(file) \subseteq DOMAIN file /\ ZeroRows(file) \subseteq DOMAIN file
      /\ Kept(file) \cup ZeroRows(file) = DOMAIN file
      /\ Kept(file) \cap ZeroRows(file) = {}
  BY DEF Kept, ZeroRows
<1>4. IsFiniteSet(Kept(file)) /\ IsFiniteSet(ZeroRows(file))
  BY <1>2, <1>3, FS_Subset
<1>5. Cardinality(Kept(file)) \in Nat /\ Cardinality(ZeroRows(file)) \in Nat
  BY <1>4, FS_CardinalityType
<1>6. Len(file) = Cardinality(Kept(file)) + Cardinality(ZeroRows(file)) - Cardinality({})
  BY <1>2, <1>3, <1>4, FS_Union
<1>7. QED
  BY <1>1, <1>4, <1>5, <1>6, FS_EmptySet

\* A rounded amount is not negative.
LEMMA CentsType ==
  ASSUME NEW amount \in Nat
  PROVE  Cents(amount) \in Nat
BY DEF Cents

\* What both scripts check of a row before it is skipped, validate_dataset and
\* convert_dataset check alike; the table adds its own limits.
LEMMA ValidConverts ==
  ASSUME NEW row \in SourceRows, ValidRow(row), IsZero(row) \/ WithinTable(row)
  PROVE  ConvertibleRow(row)
BY DEF ValidRow, ConvertibleRow

\* A row of the table fits its columns.
LEMMA KeptFits ==
  ASSUME NEW row \in SourceRows, ConvertibleRow(row), ~ IsZero(row)
  PROVE  Cents(row.amount) \in 0 .. MaxAmount /\ row.step \in 0 .. LastDay
<1>1. WithinTable(row)
  BY DEF ConvertibleRow
<1>2. row.amount \in Int /\ row.step \in Int
  <2>1. row.step \in Int \cup {Text} /\ row.amount \in Int \cup {Text, NaN, Infinity}
    OBVIOUS
  <2>2. row.step # Text /\ row.amount \notin {Text, NaN, Infinity}
    BY <1>1 DEF ConvertibleRow, WithinTable
  <2>3. QED
    BY <2>1, <2>2
<1>3. row.amount >= 0 /\ row.step >= 0
  <2>1. row.amount # Infinity
    BY <1>1 DEF WithinTable
  <2>2. QED
    BY <2>1 DEF ConvertibleRow
<1>4. Cents(row.amount) \in Nat
  <2>1. row.amount \in Nat
    BY <1>2, <1>3
  <2>2. QED
    BY <2>1, CentsType
<1>5. QED
  BY <1>1, <1>2, <1>3, <1>4 DEF WithinTable

\* An identity contains its line: no two rows of a file have the same.
LEMMA NoCollision ==
  ASSUME NEW file \in Files, NEW seed
  PROVE  ~ Collides(CanonicalRows(file, seed))
<1>1. Kept(file) \subseteq Nat
  BY DEF Kept
<1> DEFINE rows == CanonicalRows(file, seed)
<1>2. DOMAIN rows = Kept(file)
  BY DEF CanonicalRows
<1>3. ASSUME NEW i \in Kept(file) PROVE rows[i].transaction_id[2] = i + 1
  BY <1>3 DEF CanonicalRows, TransactionId, LineOf
<1>4. QED
  <2> HIDE DEF rows
  <2>1. ASSUME NEW i \in DOMAIN rows, NEW j \in DOMAIN rows, i # j
        PROVE  rows[i].transaction_id # rows[j].transaction_id
    BY <1>1, <1>2, <1>3, <2>1
  <2>2. QED
    BY <2>1 DEF Collides, rows

-----------------------------------------------------------------------------
(* The files *)

\* What is in a file is what one of the scripts computed, from a content the CSV
\* has had.
Provenance ==
    /\ raw \in Files \cup {None}
    /\ edits \in 0 .. MaxEdits
    /\ checked # None =>
          /\ checked.sha256 \in Files
          /\ checked = ValidationManifest(checked.sha256)
          /\ \A i \in DOMAIN checked.sha256 : ValidRow(checked.sha256[i])
    /\ tableFrom \in Files \cup {None}
    /\ table # None =>
          /\ tableFrom \in Files
          /\ \E seed \in Seeds :
                Converts(tableFrom, seed) /\ table = CanonicalRows(tableFrom, seed)
    /\ pending # None =>
          /\ tableFrom \in Files
          /\ \E seed \in Seeds :
                /\ pending = CanonicalManifest(tableFrom, seed)
                /\ table = CanonicalRows(tableFrom, seed)
    /\ manifestFrom \in Files \cup {None}
    /\ manifest # None =>
          /\ manifestFrom \in Files
          /\ \E seed \in Seeds :
                /\ manifest.counts = CanonicalManifest(manifestFrom, seed)
                /\ manifest.output_sha256 = CanonicalRows(manifestFrom, seed)

\* The scripts keep the provenance of their files, whatever is done to the CSV
\* between two of them and wherever a conversion is interrupted.
LEMMA FilesKeepProvenance ==
  ASSUME Provenance, FilesNext \/ UNCHANGED files
  PROVE  Provenance'
<1>1. CASE UNCHANGED files
  BY <1>1 DEF Provenance, files, outputs
<1>2. CASE Download
  BY <1>2 DEF Provenance, Download, outputs
<1>3. CASE Validate
  <2>1. raw \in Files
    BY <1>3 DEF Provenance, Validate
  <2>2. checked'.sha256 = raw
    BY <1>3 DEF Validate, ValidationManifest
  <2>3. QED
    BY <1>3, <2>1, <2>2 DEF Provenance, Validate, outputs
<1>4. ASSUME NEW seed \in Seeds, WriteTable(seed) PROVE Provenance'
  BY <1>4 DEF Provenance, WriteTable
<1>5. CASE WriteManifest
  BY <1>5 DEF Provenance, WriteManifest
<1>6. CASE Interrupt
  BY <1>6 DEF Provenance, Interrupt
<1>7. QED
  BY <1>1, <1>2, <1>3, <1>4, <1>5, <1>6 DEF FilesNext

\* A step of the replay leaves the files alone.
LEMMA ReplayLeavesFiles ==
  ASSUME [Next]_vars
  PROVE  FilesNext \/ UNCHANGED files
BY DEF Next, vars, Start, Post, Accepted, Refused, Retry, Exhausted, GiveUp, Report, Killed

\* So the provenance of the files holds in every state.
LEMMA ProvenanceInvariant == Spec => []Provenance
<1>1. Init => Provenance
  BY DEF Init, FilesInit, Provenance
<1>2. Provenance /\ [Next]_vars => Provenance'
  BY FilesKeepProvenance, ReplayLeavesFiles
<1>3. QED
  BY <1>1, <1>2, PTL DEF Spec

\* The rows of the table are kept rows of the CSV it came from and fit its columns.
LEMMA TableShape ==
  ASSUME Provenance, table # None
  PROVE  /\ IsFiniteSet(DOMAIN table)
         /\ \A i \in DOMAIN table :
               table[i].amount \in 0 .. MaxAmount /\ table[i].source_step \in 0 .. LastDay
<1>1. PICK seed \in Seeds :
        Converts(tableFrom, seed) /\ table = CanonicalRows(tableFrom, seed)
  BY DEF Provenance
<1>2. tableFrom \in Files /\ DOMAIN table = Kept(tableFrom)
  BY <1>1 DEF Provenance, CanonicalRows
<1>3. IsFiniteSet(DOMAIN table)
  BY <1>2, RowCounts
<1>4. ASSUME NEW i \in DOMAIN table
      PROVE  table[i].amount \in 0 .. MaxAmount /\ table[i].source_step \in 0 .. LastDay
  <2>1. /\ i \in DOMAIN tableFrom
        /\ ~ IsZero(tableFrom[i])
        /\ tableFrom[i] \in SourceRows
    BY <1>2, <1>4 DEF Kept, ZeroRows
  <2>2. ConvertibleRow(tableFrom[i])
    BY <1>1, <2>1 DEF Converts
  <2>3. /\ table[i].amount = Cents(tableFrom[i].amount)
        /\ table[i].source_step = tableFrom[i].step
    BY <1>1, <1>2, <1>4 DEF CanonicalRows
  <2>4. QED
    BY <2>1, <2>2, <2>3, KeptFits
<1>5. QED
  BY <1>3, <1>4

-----------------------------------------------------------------------------
(* The two scripts that read the CSV *)

\* Both scripts report the same counts and skipped lines of a CSV that both have
\* accepted: validate_dataset and convert_dataset count in different ways.
THEOREM AgreeingManifests == Spec => []ManifestsAgree
<1>1. Provenance => ManifestsAgree
  <2> SUFFICES ASSUME Provenance, checked # None, manifest # None,
                      checked.sha256 = manifestFrom
               PROVE  /\ manifest.counts.source_row_count = checked.row_count
                      /\ manifest.counts.canonical_row_count = checked.valid_row_count
                      /\ manifest.counts.skipped_rows = checked.skipped_rows
                      /\ manifest.counts.source_fraud_count = checked.fraud_count
    BY DEF ManifestsAgree
  <2>1. manifestFrom \in Files /\ checked = ValidationManifest(manifestFrom)
    BY DEF Provenance
  <2>2. PICK seed \in Seeds : manifest.counts = CanonicalManifest(manifestFrom, seed)
    BY DEF Provenance
  <2>3. /\ checked.row_count = Len(manifestFrom)
        /\ checked.valid_row_count = Len(manifestFrom) - Cardinality(ZeroRows(manifestFrom))
        /\ checked.skipped_rows = {LineOf(i) : i \in ZeroRows(manifestFrom)}
        /\ checked.fraud_count = Cardinality(FraudRows(manifestFrom))
    BY <2>1 DEF ValidationManifest
  <2>4. /\ manifest.counts.source_row_count
              = Cardinality(Kept(manifestFrom)) + Cardinality(ZeroRows(manifestFrom))
        /\ manifest.counts.canonical_row_count = Cardinality(Kept(manifestFrom))
        /\ manifest.counts.skipped_rows = {LineOf(i) : i \in ZeroRows(manifestFrom)}
        /\ manifest.counts.source_fraud_count = Cardinality(FraudRows(manifestFrom))
    BY <2>2 DEF CanonicalManifest, CountedFrauds
  <2>5. QED
    BY <2>1, <2>3, <2>4, RowCounts
<1>2. QED
  BY <1>1, ProvenanceInvariant, PTL

\* A manifest counts the rows of the table whose digest it holds.
THEOREM DescribedTable == Spec => []ManifestDescribesTable
<1>1. Provenance => ManifestDescribesTable
  <2> SUFFICES ASSUME Provenance, manifest # None
               PROVE  /\ Cardinality(DOMAIN manifest.output_sha256)
                            = manifest.counts.canonical_row_count
                      /\ \A i \in DOMAIN manifest.output_sha256 :
                            /\ manifest.output_sha256[i].transaction_id[1]
                                  = manifest.counts.seed
                            /\ manifest.output_sha256[i].source_metadata.source_row
                                  \notin manifest.counts.skipped_rows
    BY DEF ManifestDescribesTable
  <2>1. manifestFrom \in Files
    BY DEF Provenance
  <2>2. PICK seed \in Seeds :
          /\ manifest.counts = CanonicalManifest(manifestFrom, seed)
          /\ manifest.output_sha256 = CanonicalRows(manifestFrom, seed)
    BY DEF Provenance
  <2>3. /\ manifest.counts.seed = seed
        /\ manifest.counts.canonical_row_count = Cardinality(Kept(manifestFrom))
        /\ manifest.counts.skipped_rows = {LineOf(i) : i \in ZeroRows(manifestFrom)}
    BY <2>2 DEF CanonicalManifest
  <2>4. DOMAIN manifest.output_sha256 = Kept(manifestFrom)
    BY <2>2 DEF CanonicalRows
  <2>5. ASSUME NEW i \in Kept(manifestFrom)
        PROVE  /\ manifest.output_sha256[i].transaction_id[1] = seed
               /\ manifest.output_sha256[i].source_metadata.source_row = i + 1
    BY <2>2, <2>5 DEF CanonicalRows, TransactionId, SourceRow, LineOf
  <2>6. ASSUME NEW i \in Kept(manifestFrom)
        PROVE  i + 1 \notin manifest.counts.skipped_rows
    <3>1. i \in Nat /\ ZeroRows(manifestFrom) \subseteq Nat /\ i \notin ZeroRows(manifestFrom)
      BY <2>1, <2>6 DEF Kept, ZeroRows
    <3>2. QED
      BY <2>3, <3>1 DEF LineOf
  <2>7. QED
    BY <2>3, <2>4, <2>5, <2>6
<1>2. QED
  BY <1>1, ProvenanceInvariant, PTL

\* A CSV that validate_dataset has accepted is converted under every seed, unless
\* one of its rows does not fit the table: repeated rows do not collide.
THEOREM ConvertibleWhenValid == Spec => []ValidIsConvertible
<1>1. Provenance => ValidIsConvertible
  <2> SUFFICES ASSUME Provenance, checked # None, NEW seed \in Seeds,
                      \A i \in DOMAIN checked.sha256 \ ZeroRows(checked.sha256) :
                          WithinTable(checked.sha256[i])
               PROVE  Converts(checked.sha256, seed)
    BY DEF ValidIsConvertible
  <2>1. checked.sha256 \in Files
    BY DEF Provenance
  <2>2. ASSUME NEW i \in DOMAIN checked.sha256 PROVE ConvertibleRow(checked.sha256[i])
    <3>1. checked.sha256[i] \in SourceRows /\ ValidRow(checked.sha256[i])
      BY <2>1 DEF Provenance
    <3>2. IsZero(checked.sha256[i]) \/ WithinTable(checked.sha256[i])
      BY DEF ZeroRows
    <3>3. QED
      BY <3>1, <3>2, ValidConverts
  <2>3. QED
    BY <2>1, <2>2, NoCollision DEF Converts
<1>2. QED
  BY <1>1, ProvenanceInvariant, PTL

-----------------------------------------------------------------------------
(* The replay *)

\* The rows that were answered with a success.
Delivered == (DOMAIN selected \ todo) \ failures

\* The rows of a replay: those it has finished with are counted, and the ones
\* that are counted as sent are stored.
Counted ==
    /\ IsFiniteSet(DOMAIN selected)
    /\ todo \subseteq DOMAIN selected
    /\ failures \subseteq DOMAIN selected \ todo
    /\ sent = Cardinality(Delivered)
    /\ \A i \in Delivered : selected[i].transaction_id \in stored
    /\ attempt \in 1 .. MaxPosts
    /\ phase \in {"idle", "posting", "reported"}
    /\ phase = "reported" => todo = {}

\* No row is chosen that is not in the table.
LEMMA SelectionFromTable ==
  ASSUME Provenance, table # None, NEW c
  PROVE  /\ Selection(table, raw, c) \subseteq DOMAIN table
         /\ IsFiniteSet(Selection(table, raw, c))
<1>1. Selection(table, raw, c) \subseteq DOMAIN table
  BY DEF Selection, WantedRows
<1>2. QED
  BY <1>1, TableShape, FS_Subset

\* Starting over leaves nothing counted.
LEMMA NothingCounted ==
  ASSUME IsFiniteSet(DOMAIN selected'), todo' = DOMAIN selected', failures' = {}, sent' = 0,
         attempt' = 1, phase' \in {"idle", "posting"}
  PROVE  Counted'
<1>1. Delivered' = {} /\ todo' \subseteq DOMAIN selected'
  BY DEF Delivered
<1>2. sent' = Cardinality(Delivered')
  BY <1>1, FS_EmptySet
<1>3. QED
  BY <1>1, <1>2 DEF Counted, MaxPosts

\* Giving a row up counts it as failed and as nothing else.
LEMMA GiveUpCounts ==
  ASSUME Counted, NEW i, Posting(i), GiveUp(i), Unstored(i) \/ UNCHANGED stored
  PROVE  Counted'
<1>1. Delivered' = Delivered
  BY DEF Counted, Posting, GiveUp, Delivered
<1>2. stored \subseteq stored'
  BY DEF Unstored
<1>3. QED
  BY <1>1, <1>2 DEF Counted, Posting, GiveUp, MaxPosts

\* Each step of a replay keeps its counts.
LEMMA StepKeepsCounts ==
  ASSUME Provenance, Counted, [Next]_vars
  PROVE  Counted'
<1>1. CASE UNCHANGED <<client, stored>>
  BY <1>1 DEF Counted, Delivered, client, report
<1>2. ASSUME NEW c \in Configs, Start(c) PROVE Counted'
  <2>1. DOMAIN selected' = Selection(table, raw, c) /\ todo' = Selection(table, raw, c)
    BY <1>2 DEF Start
  <2>2. QED
    BY <1>2, <2>1, SelectionFromTable, NothingCounted DEF Start
<1>3. ASSUME NEW i \in todo, Accepted(i) PROVE Counted'
  <2>1. Delivered' = Delivered \cup {i} /\ i \notin Delivered
    BY <1>3 DEF Accepted, Counted, Delivered
  <2>2. IsFiniteSet(Delivered)
    BY FS_Subset DEF Counted, Delivered
  <2>3. Cardinality(Delivered') = Cardinality(Delivered) + 1
    BY <2>1, <2>2, FS_AddElement
  <2>4. QED
    BY <1>3, <2>1, <2>3 DEF Accepted, Posting, Counted, MaxPosts
<1>4. ASSUME NEW i \in todo, Refused(i) PROVE Counted'
  BY <1>4, GiveUpCounts DEF Refused
<1>5. ASSUME NEW i \in todo, Retry(i) PROVE Counted'
  <2>1. stored \subseteq stored'
    BY <1>5 DEF Retry, Unstored
  <2>2. QED
    BY <1>5, <2>1 DEF Retry, Posting, Counted, Delivered, report, MaxPosts
<1>6. ASSUME NEW i \in todo, Exhausted(i) PROVE Counted'
  BY <1>6, GiveUpCounts DEF Exhausted
<1>7. CASE Report
  BY <1>7 DEF Report, Counted, Delivered, report
<1>8. CASE Killed
  <2>1. DOMAIN selected' = {} /\ todo' = {}
    BY <1>8 DEF Killed
  <2>2. QED
    BY <1>8, <2>1, FS_EmptySet, NothingCounted DEF Killed
<1>9. QED
  BY <1>1, <1>2, <1>3, <1>4, <1>5, <1>6, <1>7, <1>8 DEF Next, Post, vars

\* So the counts of a replay are right in every state.
LEMMA CountedInvariant == Spec => []Counted
<1>1. Init => Counted
  <2> SUFFICES ASSUME Init PROVE Counted
    OBVIOUS
  <2>1. DOMAIN selected = {}
    BY DEF Init
  <2>2. Delivered = {} /\ IsFiniteSet(DOMAIN selected)
    BY <2>1, FS_EmptySet DEF Delivered
  <2>3. sent = Cardinality(Delivered)
    BY <2>2, FS_EmptySet DEF Init
  <2>4. QED
    BY <2>1, <2>2, <2>3 DEF Init, Counted, MaxPosts
<1>2. Provenance /\ Counted /\ [Next]_vars => Counted'
  BY StepKeepsCounts
<1>3. QED
  BY <1>1, <1>2, ProvenanceInvariant, PTL DEF Spec

\* Files, table and counters of the scripts have their types in every state.
THEOREM TypeCorrect == Spec => []TypeOK
<1>1. Provenance /\ Counted => TypeOK
  <2> SUFFICES ASSUME Provenance, Counted PROVE TypeOK
    OBVIOUS
  <2>1. FilesTyped
    BY TableShape DEF Provenance, FilesTyped
  <2>2. sent \in 0 .. Cardinality(DOMAIN selected \ todo)
    <3> DEFINE done == DOMAIN selected \ todo
    <3>1. IsFiniteSet(done) /\ Delivered \in SUBSET done
      BY FS_Subset DEF Counted, Delivered
    <3>2. /\ Cardinality(done) \in Nat /\ Cardinality(Delivered) \in Nat
          /\ Cardinality(Delivered) <= Cardinality(done)
      <4> HIDE DEF done
      <4> QED BY <3>1, FS_Subset, FS_CardinalityType
    <3>3. QED
      BY <3>2 DEF Counted
  <2>3. QED
    BY <2>1, <2>2 DEF TypeOK, Counted
<1>2. QED
  BY <1>1, ProvenanceInvariant, CountedInvariant, PTL

\* A reported replay has counted every selected row once, and the rows that it
\* does not list as failed are stored, whatever the server did.
THEOREM TrueReport == Spec => []ReportIsTrue
<1>1. Counted => ReportIsTrue
  <2> SUFFICES ASSUME Counted, phase = "reported" 
               PROVE  /\ sent + Cardinality(failures) = Cardinality(DOMAIN selected)
                      /\ \A k \in DOMAIN selected \ failures :
                            selected[k].transaction_id \in stored
    BY DEF ReportIsTrue
  <2> DEFINE all == DOMAIN selected
  <2>1. /\ IsFiniteSet(all)
        /\ Delivered \subseteq all /\ failures \subseteq all
        /\ Delivered \cup failures = all /\ Delivered \cap failures = {}
        /\ Delivered = all \ failures
    BY DEF Counted, Delivered
  <2>2. Cardinality(all) = Cardinality(Delivered) + Cardinality(failures)
    <3> HIDE DEF all
    <3>1. IsFiniteSet(Delivered) /\ IsFiniteSet(failures)
      BY <2>1, FS_Subset
    <3>2. Cardinality(Delivered) \in Nat /\ Cardinality(failures) \in Nat
      BY <3>1, FS_CardinalityType
    <3>3. Cardinality(all) = Cardinality(Delivered) + Cardinality(failures) - Cardinality({})
      BY <2>1, <3>1, FS_Union
    <3>4. QED
      BY <3>2, <3>3, FS_EmptySet
  <2>3. QED
    BY <2>1, <2>2 DEF Counted
<1>2. QED
  BY <1>1, CountedInvariant, PTL

\* A replay of frauds only posts frauds of its step range, and all of them if no
\* label is padded, as long as the CSV is the one that the table was made from.
\* Being a fraud is what the other two scripts count, with the label stripped.
THEOREM ExactFrauds == Spec => []FraudOnlyIsExact
<1>1. Provenance => FraudOnlyIsExact
  <2> SUFFICES ASSUME Provenance, table # None, raw = tableFrom, NEW c \in Configs,
                      c.fraud_only, c.limit = 0
               PROVE  /\ Replayed(c) \subseteq FraudsInRange(c)
                      /\ PlainLabels => FraudsInRange(c) \subseteq Replayed(c)
    BY DEF FraudOnlyIsExact
  <2>1. PICK seed \in Seeds : table = CanonicalRows(raw, seed)
    BY DEF Provenance
  <2>2. raw \in Files /\ DOMAIN table = Kept(raw) /\ DOMAIN raw \subseteq Nat
    BY <2>1 DEF Provenance, CanonicalRows
  <2>3. ASSUME NEW i \in Kept(raw)
        PROVE  /\ table[i].transaction_id[2] = LineOf(i)
               /\ table[i].source_step = raw[i].step
               /\ table[i].source_metadata.source_row = LineOf(i)
    BY <2>1, <2>3 DEF CanonicalRows, TransactionId, SourceRow
  <2>4. ASSUME NEW i \in DOMAIN raw
        PROVE  LineOf(i) \in FraudLines(raw) <=> raw[i].fraud = "1"
    BY <2>2, <2>4 DEF FraudLines, LineOf
  <2>5. Selection(table, raw, c)
            = {i \in Kept(raw) : raw[i].fraud = "1" /\ InRange(raw[i].step, c)}
    <3>1. Selection(table, raw, c) = WantedRows(table, raw, c)
      BY DEF Selection
    <3>2. ASSUME NEW i \in Kept(raw)
          PROVE  Wanted(table[i], raw, c) <=> raw[i].fraud = "1" /\ InRange(raw[i].step, c)
      BY <2>3, <2>4, <3>2 DEF Wanted, Kept
    <3>3. QED
      BY <2>2, <3>1, <3>2 DEF WantedRows
  <2>6. Replayed(c) = {LineOf(i) : i \in Selection(table, raw, c)}
    BY <2>3, <2>5 DEF Replayed
  <2>7. Replayed(c) \subseteq FraudsInRange(c)
    <3>1. ASSUME NEW i \in Kept(raw), raw[i].fraud = "1" PROVE IsFraud(raw[i])
      BY <3>1 DEF IsFraud, Strip
    <3>2. QED
      BY <2>5, <2>6, <3>1 DEF FraudsInRange
  <2>8. ASSUME PlainLabels PROVE FraudsInRange(c) \subseteq Replayed(c)
    <3>1. ASSUME NEW i \in Kept(raw), IsFraud(raw[i]) PROVE raw[i].fraud = "1"
      BY <2>8, <3>1 DEF PlainLabels, IsFraud, Kept
    <3>2. QED
      BY <2>5, <2>6, <3>1 DEF FraudsInRange
  <2>9. QED
    BY <2>7, <2>8
<1>2. QED
  BY <1>1, ProvenanceInvariant, PTL

\* The posts that a replay may still need.
PostsLeft == MaxPosts * Cardinality(todo) + 1 - attempt

\* A replay does not go on for ever, whatever the server does (the safety part of
\* ReplayEnds): each answer and each lost answer leaves fewer posts, from at most
\* three a row.
THEOREM FewerPosts ==
  Spec => [][phase = "posting" /\ phase' = "posting"
                => \/ UNCHANGED client
                   \/ PostsLeft' < PostsLeft /\ PostsLeft' \in Nat]_vars
<1>1. Provenance /\ Counted /\ [Next]_vars =>
        [phase = "posting" /\ phase' = "posting"
            => \/ UNCHANGED client
               \/ PostsLeft' < PostsLeft /\ PostsLeft' \in Nat]_vars
  <2> SUFFICES ASSUME Counted, Next, phase = "posting", phase' = "posting"
               PROVE  \/ UNCHANGED client
                      \/ PostsLeft' < PostsLeft /\ PostsLeft' \in Nat
    OBVIOUS
  <2> USE DEF MaxPosts
  <2>1. IsFiniteSet(todo) /\ Cardinality(todo) \in Nat /\ attempt \in 1 .. 3
    BY FS_Subset, FS_CardinalityType DEF Counted
  <2>2. ASSUME NEW i \in todo, todo' = todo \ {i}, attempt' = 1
        PROVE  PostsLeft' < PostsLeft /\ PostsLeft' \in Nat
    <3>1. Cardinality(todo') = Cardinality(todo) - 1 /\ Cardinality(todo') \in Nat
      BY <2>1, <2>2, FS_RemoveElement, FS_CardinalityType
    <3>2. QED
      BY <2>1, <2>2, <3>1 DEF PostsLeft
  <2>3. ASSUME NEW i \in todo, Retry(i)
        PROVE  PostsLeft' < PostsLeft /\ PostsLeft' \in Nat
    <3>1. todo' = todo /\ attempt' = attempt + 1 /\ attempt < 3
      BY <2>3 DEF Retry
    <3>2. Cardinality(todo) # 0
      BY <2>1, FS_EmptySet
    <3>3. QED
      BY <2>1, <3>1, <3>2 DEF PostsLeft
  <2>4. CASE Post
    BY <2>2, <2>3, <2>4 DEF Post, Accepted, Refused, Exhausted, GiveUp, Report
  <2>5. QED
    BY <2>4 DEF Next, Start, Killed
<1>2. QED
  BY <1>1, ProvenanceInvariant, CountedInvariant, PTL DEF Spec
=============================================================================
