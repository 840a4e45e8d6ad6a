------------------------- MODULE HaulDeskIngestion -------------------------
(***************************************************************************)
(* One tenant's ingestion of HaulDesk syncs: load snapshots without money, *)
(* an append-only ledger of rate rows, and the versions and projections    *)
(* that combine the two.                                                   *)
(*                                                                         *)
(*   ingestion/coordinator.py  HaulDeskIngestionCoordinator                *)
(*   ingestion/rebuild.py      _apply_load_projection, _hauldesk_totals    *)
(*                                                                         *)
(* A file is ingested in one step: that its transaction is all or nothing  *)
(* is what SnapshotIngestion is about.  A body is a load object without    *)
(* its rates; a version's snapshot hash covers the body and the two totals *)
(* as they are written, and nothing else: a version is identified by them. *)
(***************************************************************************)
EXTENDS Precedence, FiniteSetsExt

CONSTANTS
  Files,        \* contents HaulDesk may deliver, by checksum
  SyncAt,       \* the sync time a file states; also its observed_at
  BodiesIn,     \* the load objects of a file, at most one per load
  RatesIn,      \* the rate rows of a file, at most one per rate id
  Bodies, LoadOf, ModifiedAt, StatusOf,
  Loads, RateIds, Amounts

\* FinancialSide.
Sides == {"BILL", "PAY"}

Rate == [id: RateIds, load: Loads, side: Sides, amount: Amounts]

ASSUME FilesAssumption ==
  /\ SyncAt \in [Files -> Nat]
  /\ BodiesIn \in [Files -> SUBSET Bodies]
  /\ RatesIn \in [Files -> SUBSET Rate]
  /\ \A f \in Files : IsFiniteSet(RatesIn[f])

ASSUME BodiesAssumption ==
  /\ LoadOf \in [Bodies -> Loads]
  /\ ModifiedAt \in [Bodies -> Nat]
  /\ StatusOf \in [Bodies -> Statuses]
  /\ Amounts \subseteq Int

\* parse_hauldesk_file, _require_unique: other files are malformed.
ASSUME UniqueAssumption ==
  \A f \in Files :
    /\ \A b, c \in BodiesIn[f] : LoadOf[b] = LoadOf[c] => b = c
    /\ \A r, q \in RatesIn[f] : r.id = q.id => r = q

VARIABLES
  ingestion_files,     \* the status of each checksum
  source_rate_entries, \* the ledger row of each rate id, or None
  load_versions,       \* the set of version rows
  loads                \* the projection row of each load, or None

vars == <<ingestion_files, source_rate_entries, load_versions, loads>>

\* A side that has no rate row is written "0" and one whose rows sum to nothing
\* "0.00"; the snapshot hash tells the two apart, the money columns do not.
Written == [Sides -> Int \cup {None}]

Totals == [Sides -> Int]

Money(written) ==
  [side \in Sides |-> IF written[side] = None THEN 0 ELSE written[side]]

LedgerRow == [load: Loads, side: Sides, amount: Amounts, file: Files]

Version == [body: Bodies, totals: Written]

VersionRow ==
  [version: Version, file: Files, supersedes: Version \cup {None}]

LoadRow == [current: Version, body: Bodies, totals: Totals, observed: Nat]

ASSUME NoneAssumption ==
  /\ None \notin LedgerRow /\ None \notin VersionRow /\ None \notin LoadRow
  /\ None \notin VersionTiming

Init ==
  /\ ingestion_files = [f \in Files |-> "ABSENT"]
  /\ source_rate_entries = [i \in RateIds |-> None]
  /\ load_versions = {}
  /\ loads = [l \in Loads |-> None]

-----------------------------------------------------------------------------
(* The ledger. *)

\* _insert_rate_entry: a rate id that is known is ignored, whatever the new
\* row says of its load, side or amount.
InsertRates(ledger, f) ==
  [i \in RateIds |->
     IF ledger[i] = None /\ \E r \in RatesIn[f] : r.id = i
     THEN LET r == CHOOSE q \in RatesIn[f] : q.id = i
          IN  [load |-> r.load, side |-> r.side, amount |-> r.amount, file |-> f]
     ELSE ledger[i]]

\* The rows that a sum with this cutoff selects.
RowsAsOf(ledger, l, side, at) ==
  {i \in RateIds : /\ ledger[i] # None
                   /\ ledger[i].load = l
                   /\ ledger[i].side = side
                   /\ SyncAt[ledger[i].file] <= at}

SumOf(ledger, rows) ==
  IF rows = {} THEN None ELSE SumFunction([i \in rows |-> ledger[i].amount])

\* _ledger_totals of the coordinator and _hauldesk_totals of the rebuild.
LedgerTotals(ledger, l, at) ==
  [side \in Sides |-> SumOf(ledger, RowsAsOf(ledger, l, side, at))]

-----------------------------------------------------------------------------
(* Versions and projections. *)

BodyTiming(body, f) ==
  [source_sync_at |-> SyncAt[f], source_modified_at |-> ModifiedAt[body],
   observed_at |-> SyncAt[f], status |-> StatusOf[body]]

Timing(row) == BodyTiming(row.version.body, row.file)

\* The stored row of a version.
RowOf(version) == CHOOSE row \in load_versions : row.version = version

Projection(row, totals) ==
  [current |-> row.version, body |-> row.version.body, totals |-> Money(totals),
   observed |-> SyncAt[row.file]]

HasSnapshot(f, l) == \E b \in BodiesIn[f] : LoadOf[b] = l

\* affected_loads: a rate row affects its load even if its id is known.
Affected(f) ==
  {LoadOf[b] : b \in BodiesIn[f]} \cup {r.load : r \in RatesIn[f]}

\* _persist_hauldesk_version takes the body from the file; for a rate-only
\* sync _persist_ledger_only_version copies that of the current version.
BodyFor(f, l) ==
  IF HasSnapshot(f, l) THEN CHOOSE b \in BodiesIn[f] : LoadOf[b] = l
  ELSE loads[l].current.body

\* Faulty variant of Candidate: the sums are taken before the rows are written.
CandidateBeforeRates(ledger, f, l) ==
  [body |-> BodyFor(f, l),
   totals |-> LedgerTotals(source_rate_entries, l, SyncAt[f])]

\* The version file f would give load l, with its ledger as of the file.
Candidate(ledger, f, l) ==
  [body |-> BodyFor(f, l), totals |-> LedgerTotals(ledger, l, SyncAt[f])]

\* Faulty variant of CandidateRow: a new version keeps the observation of the
\* version it supersedes.
CandidateRowBackdated(ledger, f, l) ==
  [version |-> Candidate(ledger, f, l),
   file |-> IF loads[l] = None THEN f ELSE RowOf(loads[l].current).file,
   supersedes |-> IF loads[l] = None THEN None ELSE loads[l].current]

CandidateRow(ledger, f, l) ==
  [version |-> Candidate(ledger, f, l), file |-> f,
   supersedes |-> IF loads[l] = None THEN None ELSE loads[l].current]

\* _version_exists.
VersionExists(version) == \E row \in load_versions : row.version = version

\* The version rows that file f adds.
NewRows(ledger, f) ==
  {CandidateRow(ledger, f, l) :
     l \in {k \in Affected(f) : ~VersionExists(Candidate(ledger, f, k))}}

BecomesCurrent(row) ==
  LET l == LoadOf[row.version.body]
  IN  ChooseCurrentVersion(
        IF loads[l] = None THEN None ELSE Timing(RowOf(loads[l].current)),
        Timing(row)).becomes_current

\* A row that exists already, or that is out of order, leaves the projection.
ProjectRows(rows) ==
  [l \in Loads |->
     IF \E row \in rows : LoadOf[row.version.body] = l /\ BecomesCurrent(row)
     THEN LET row == CHOOSE r \in rows : LoadOf[r.version.body] = l
          IN  Projection(row, row.version.totals)
     ELSE loads[l]]

\* A rate row must name a load that is known or comes with the same file.
RatesHaveLoads(f) ==
  \A r \in RatesIn[f] : loads[r.load] # None \/ HasSnapshot(f, r.load)

Ingest(f) ==
  /\ ingestion_files[f] = "ABSENT"
  /\ RatesHaveLoads(f)
  /\ ingestion_files' = [ingestion_files EXCEPT ![f] = "COMPLETED"]
  /\ source_rate_entries' = InsertRates(source_rate_entries, f)
  /\ load_versions' = load_versions \cup NewRows(source_rate_entries', f)
  /\ loads' = ProjectRows(NewRows(source_rate_entries', f))

\* Faulty variant of Fail: the ledger rows are not rolled back.
FailKeepingRates(f) ==
  /\ ingestion_files[f] = "ABSENT"
  /\ ingestion_files' = [ingestion_files EXCEPT ![f] = "FAILED"]
  /\ source_rate_entries' = InsertRates(source_rate_entries, f)
  /\ UNCHANGED <<load_versions, loads>>

\* Faulty variant of Fail: the row of the file stays in flight.
FailInFlight(f) ==
  /\ ingestion_files[f] = "ABSENT"
  /\ ingestion_files' = [ingestion_files EXCEPT ![f] = "PROCESSING"]
  /\ UNCHANGED <<source_rate_entries, load_versions, loads>>

\* An unknown load, a malformed file or any other exception: no fact is kept,
\* and the FAILED row takes the checksum for good.
Fail(f) ==
  /\ ingestion_files[f] = "ABSENT"
  /\ ingestion_files' = [ingestion_files EXCEPT ![f] = "FAILED"]
  /\ UNCHANGED <<source_rate_entries, load_versions, loads>>

RowsAbout(rows, l) == {row \in rows : LoadOf[row.version.body] = l}

\* The rows a pass over the versions of a load, in any order, can end with.
Unbeaten(rows) ==
  {row \in rows : \A other \in rows :
     ~ChooseCurrentVersion(Timing(row), Timing(other)).becomes_current}

\* Faulty variant of RebuiltProjection: the sum has no cutoff.
RebuiltWithoutCutoff(row) ==
  Projection(row,
    [side \in Sides |->
       SumOf(source_rate_entries,
       {i \in RateIds : /\ source_rate_entries[i] # None
                        /\ source_rate_entries[i].load = LoadOf[row.version.body]
                        /\ source_rate_entries[i].side = side})])

\* The rebuild computes the totals anew from the ledger; the version keeps its own.
RebuiltProjection(row) ==
  Projection(row, LedgerTotals(source_rate_entries, LoadOf[row.version.body],
                               SyncAt[row.file]))

Rebuild ==
  /\ \E kept \in [Loads -> load_versions \cup {None}] :
       /\ \A l \in Loads :
            IF RowsAbout(load_versions, l) = {} THEN kept[l] = None
            ELSE kept[l] \in Unbeaten(RowsAbout(load_versions, l))
       /\ loads' = [l \in Loads |-> IF kept[l] = None THEN loads[l]
                                    ELSE RebuiltProjection(kept[l])]
  /\ UNCHANGED <<ingestion_files, source_rate_entries, load_versions>>

Next ==
  \/ \E f \in Files : Ingest(f)
  \/ \E f \in Files : Fail(f)
  \/ Rebuild

Spec == Init /\ [][Next]_vars

\* discovery.py hands the files over in the order of their sync times.
InOrder(f) ==
  \A g \in Files : ingestion_files[g] # "ABSENT" => SyncAt[g] < SyncAt[f]

Started(f) == ingestion_files[f] = "ABSENT" /\ ingestion_files'[f] # "ABSENT"

Chronological == \A f \in Files : Started(f) => InOrder(f)

ChronologicalSpec == Init /\ [][Next /\ Chronological]_vars

-----------------------------------------------------------------------------
(* Properties in any order of delivery. *)

\* Every row has its type, and no file is left in flight.
TypeOK ==
  /\ ingestion_files \in [Files -> {"ABSENT", "COMPLETED", "FAILED"}]
  /\ source_rate_entries \in [RateIds -> LedgerRow \cup {None}]
  /\ load_versions \subseteq VersionRow
  /\ loads \in [Loads -> LoadRow \cup {None}]

\* Only completed files own ledger and version rows; each rate id such a file
\* carries is in the ledger, on a load that has a version.
MoneyIsAccountedFor ==
  /\ \A i \in RateIds : source_rate_entries[i] # None =>
       /\ ingestion_files[source_rate_entries[i].file] = "COMPLETED"
       /\ loads[source_rate_entries[i].load] # None
  /\ \A row \in load_versions : ingestion_files[row.file] = "COMPLETED"
  /\ \A f \in Files : ingestion_files[f] = "COMPLETED" =>
       \A r \in RatesIn[f] : source_rate_entries[r.id] # None

-----------------------------------------------------------------------------
(* Properties of what arrives in order. *)

\* The version states the sums of the ledger as of its own observation.
StatesLedger(row) ==
  row.version.totals =
    LedgerTotals(source_rate_entries, LoadOf[row.version.body], SyncAt[row.file])

\* Every version states the ledger sums as of its own observation: only a
\* sync that arrives late can change what those sums are.
VersionsStateTheirLedger ==
  [][Chronological => \A row \in load_versions' :
       StatesLedger(row)' \/ (row \in load_versions /\ ~StatesLedger(row))]_vars

\* No other version of the load could be shown instead of its current one.
Undisputed(l) ==
  \E row \in {RowOf(loads[l].current)} :
    \A other \in RowsAbout(load_versions, l) \ {row} : KeyLess(Timing(other), Timing(row))

\* The load shows the money of its current version, and no rate row of that
\* version's time came after it.
MoneyIsTimely(l) ==
  \E row \in {RowOf(loads[l].current)} :
    StatesLedger(row) /\ loads[l].totals = Money(row.version.totals)

\* A rebuild reproduces what incremental ingestion shows of a load whose version
\* is undisputed, in any order of delivery: all of it but its money, and that
\* too unless a rate row came late.  Then it books the late row, as of the
\* observation the load shows, and not the rows that were observed after it.
RebuildKeepsProjections ==
  [][ingestion_files' = ingestion_files =>
       \A l \in Loads : loads[l] # None /\ Undisputed(l) =>
         loads'[l] =
           [loads[l] EXCEPT !.totals =
              IF MoneyIsTimely(l) THEN @
              ELSE Money(LedgerTotals(source_rate_entries, l, loads[l].observed))]]_vars

\* Some file of the version's observation time or earlier carried its body.
BodyIsPast(row) ==
  \E f \in Files :
    /\ ingestion_files[f] = "COMPLETED"
    /\ row.version.body \in BodiesIn[f]
    /\ SyncAt[f] <= SyncAt[row.file]

\* A version written in order shows a body that had been stated by its time.
VersionsShowThePast ==
  [][Chronological =>
       \A row \in load_versions' \ load_versions : BodyIsPast(row)']_vars

-----------------------------------------------------------------------------
(* What the documentation promises whatever arrives when. *)

\* DECISIONS.md: the carrier total is the PAY ledger sum observed at the
\* requested cutoff.  The totals a load shows are its whole ledger, summed.
CurrentTotalsAreLedgerSums ==
  \A l \in Loads : loads[l] # None =>
    \A at \in {SyncAt[f] : f \in Files} :
      (\A f \in Files : SyncAt[f] <= at) =>
        loads[l].totals = Money(LedgerTotals(source_rate_entries, l, at))
=============================================================================
