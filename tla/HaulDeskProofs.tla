--------------------------- MODULE HaulDeskProofs ---------------------------
(***************************************************************************)
(* What HaulDeskIngestion guarantees for every tenant, whatever its files, *)
(* rate rows and amounts are.                                              *)
(*                                                                         *)
(* One invariant holds in any order of delivery: what the ledger, the      *)
(* versions and the projections owe each other.  That a version states the *)
(* sums of its time, and shows a body of its time, is then a matter of one *)
(* step: a file in order is later than every row that is there.            *)
(***************************************************************************)
EXTENDS HaulDeskIngestion, FiniteFolds

-----------------------------------------------------------------------------
(* The inductive invariant. *)

\* The rate ids that are in the ledger.
Entered == {i \in RateIds : source_rate_entries[i] # None}

Typed ==
  /\ TypeOK
  /\ IsFiniteSet(Entered)

\* A load has a projection when it has a version, and shows one of them.
Shows(l, row) ==
  /\ LoadOf[row.version.body] = l
  /\ loads[l].current = row.version
  /\ loads[l].body = row.version.body
  /\ loads[l].observed = SyncAt[row.file]

Referenced ==
  /\ \A l \in Loads : loads[l] # None => \E row \in load_versions : Shows(l, row)
  /\ \A row \in load_versions : loads[LoadOf[row.version.body]] # None
  /\ \A row, other \in load_versions : row.version = other.version => row = other

\* A version shows a body that some completed file stated.
BodiesAreStated ==
  \A row \in load_versions : \E f \in Files :
    ingestion_files[f] = "COMPLETED" /\ row.version.body \in BodiesIn[f]

HaulDeskInv ==
  /\ Typed
  /\ Referenced
  /\ MoneyIsAccountedFor
  /\ BodiesAreStated

-----------------------------------------------------------------------------
(* The ledger. *)

\* A ledger as it is stored: finitely many rate ids are in it.
Ledgers == [RateIds -> LedgerRow \cup {None}]

Ids(ledger) == {i \in RateIds : ledger[i] # None}

\* What a sum over the ledger may be.
LEMMA TotalsType ==
  ASSUME NEW ledger \in Ledgers, IsFiniteSet(Ids(ledger)), NEW l, NEW at
  PROVE  /\ LedgerTotals(ledger, l, at) \in Written
         /\ Money(LedgerTotals(ledger, l, at)) \in Totals
<1>1. ASSUME NEW side \in Sides
      PROVE  SumOf(ledger, RowsAsOf(ledger, l, side, at)) \in Int \cup {None}
  <2> DEFINE rows == RowsAsOf(ledger, l, side, at)
             fun == [i \in rows |-> ledger[i].amount]
  <2>1. rows \in SUBSET Ids(ledger) /\ IsFiniteSet(rows)
    BY FS_Subset DEF RowsAsOf, Ids
  <2>2. \A i \in rows : ledger[i].amount \in Int
    <3>1. \A i \in rows : ledger[i] \in LedgerRow
      BY <2>1 DEF Ledgers, Ids
    <3>. QED BY <3>1, BodiesAssumption DEF LedgerRow
  <2>3. fun \in [rows -> Int]
    BY <2>2
  <2>4. SumFunction(fun) \in Int
    <3> HIDE DEF fun, rows
    <3>. QED BY <2>1, <2>3, SumIsAnInteger
  <2>. QED BY <2>4 DEF SumOf
<1>2. LedgerTotals(ledger, l, at) \in Written
  BY <1>1 DEF LedgerTotals, Written
<1>3. \A written \in Written : Money(written) \in Totals
  BY DEF Money, Written, Totals
<1>. QED BY <1>2, <1>3

\* Two ledgers with the same rows up to a time have the same sums at it.
LEMMA TotalsLookBack ==
  ASSUME NEW ledger, NEW later, NEW l, NEW at,
         \A i \in RateIds : ledger[i] # None => later[i] = ledger[i],
         \A i \in RateIds : later[i] # ledger[i] => ~(SyncAt[later[i].file] <= at)
  PROVE  LedgerTotals(later, l, at) = LedgerTotals(ledger, l, at)
<1>1. ASSUME NEW side \in Sides
      PROVE  /\ RowsAsOf(later, l, side, at) = RowsAsOf(ledger, l, side, at)
             /\ \A i \in RowsAsOf(ledger, l, side, at) : later[i] = ledger[i]
  BY DEF RowsAsOf
<1>2. ASSUME NEW side \in Sides
      PROVE  SumOf(later, RowsAsOf(later, l, side, at))
               = SumOf(ledger, RowsAsOf(ledger, l, side, at))
  <2> DEFINE rows == RowsAsOf(ledger, l, side, at)
  <2>1. [i \in rows |-> later[i].amount] = [i \in rows |-> ledger[i].amount]
    BY <1>1
  <2>. QED BY <1>1, <2>1 DEF SumOf
<1>. QED BY <1>2 DEF LedgerTotals

\* What a file does to the ledger: its new rate ids are in it, on its name.
LEMMA InsertedRates ==
  ASSUME Typed, NEW f \in Files, NEW ledger, ledger = InsertRates(source_rate_entries, f)
  PROVE  /\ ledger \in Ledgers /\ IsFiniteSet(Ids(ledger))
         /\ \A i \in RateIds :
              \/ ledger[i] = source_rate_entries[i]
              \/ /\ source_rate_entries[i] = None
                 /\ ledger[i].file = f
                 /\ \E r \in RatesIn[f] : r.id = i /\ ledger[i].load = r.load
         /\ \A r \in RatesIn[f] : ledger[r.id] # None
<1>1. source_rate_entries \in Ledgers
  BY DEF Typed, TypeOK, Ledgers
<1>2. RatesIn[f] \in SUBSET Rate /\ IsFiniteSet(RatesIn[f])
  BY FilesAssumption
<1>3. ASSUME NEW i \in RateIds, source_rate_entries[i] = None,
             \E r \in RatesIn[f] : r.id = i
      PROVE  /\ ledger[i] \in LedgerRow /\ ledger[i].file = f
             /\ \E r \in RatesIn[f] : r.id = i /\ ledger[i].load = r.load
  <2>1. PICK r \in RatesIn[f] :
          /\ r.id = i
          /\ ledger[i] = [load |-> r.load, side |-> r.side, amount |-> r.amount, file |-> f]
    BY <1>3 DEF InsertRates
  <2>2. r \in Rate
    BY <1>2
  <2>3. ledger[i] \in LedgerRow
    BY <2>1, <2>2 DEF LedgerRow, Rate
  <2>. QED BY <2>1, <2>3
<1>4. ASSUME NEW i \in RateIds,
             source_rate_entries[i] # None \/ ~\E r \in RatesIn[f] : r.id = i
      PROVE  ledger[i] = source_rate_entries[i]
  BY <1>4 DEF InsertRates
<1>5. ledger \in Ledgers
  <2>1. \A i \in RateIds : ledger[i] \in LedgerRow \cup {None}
    BY <1>1, <1>3, <1>4 DEF Ledgers
  <2>. QED BY <2>1 DEF InsertRates, Ledgers
<1>6. IsFiniteSet(Ids(ledger))
  <2> DEFINE ids == {r.id : r \in RatesIn[f]}
             fun == [r \in RatesIn[f] |-> r.id]
  <2>1. fun \in Surjection(RatesIn[f], ids)
    BY DEF Surjection
  <2>2. IsFiniteSet(ids)
    BY <1>2, <2>1, FS_Surjection
  <2>3. Ids(ledger) \subseteq Entered \cup ids
    BY <1>4 DEF Ids, Entered
  <2>4. IsFiniteSet(Entered \cup ids)
    BY <2>2, FS_Union DEF Typed
  <2>. QED BY <2>3, <2>4, FS_Subset
<1>7. \A r \in RatesIn[f] : ledger[r.id] # None
  BY <1>2, <1>3, <1>4, NoneAssumption DEF Rate
<1>. QED BY <1>3, <1>4, <1>5, <1>6, <1>7

-----------------------------------------------------------------------------
(* The versions of a file. *)

\* A load that a file affects has a body, its own: from the file, or that of
\* the version it shows.
LEMMA BodyForIsKnown ==
  ASSUME HaulDeskInv, NEW f \in Files, RatesHaveLoads(f), NEW l \in Affected(f)
  PROVE  /\ l \in Loads
         /\ BodyFor(f, l) \in Bodies /\ LoadOf[BodyFor(f, l)] = l
         /\ \/ BodyFor(f, l) \in BodiesIn[f]
            \/ /\ loads[l] # None
               /\ \E g \in Files : /\ ingestion_files[g] = "COMPLETED"
                                   /\ BodyFor(f, l) \in BodiesIn[g]
<1>1. BodiesIn[f] \in SUBSET Bodies /\ RatesIn[f] \in SUBSET Rate
  BY FilesAssumption
<1>2. l \in Loads
  BY <1>1, BodiesAssumption DEF Affected, Rate
<1>3. CASE HasSnapshot(f, l)
  <2>1. BodyFor(f, l) \in BodiesIn[f] /\ LoadOf[BodyFor(f, l)] = l
    BY <1>3 DEF BodyFor, HasSnapshot
  <2>. QED BY <1>1, <1>2, <2>1
<1>4. CASE ~HasSnapshot(f, l)
  <2>1. loads[l] # None
    BY <1>4 DEF RatesHaveLoads, Affected, HasSnapshot
  <2>2. PICK row \in load_versions : Shows(l, row)
    BY <1>2, <2>1 DEF HaulDeskInv, Referenced
  <2>3. BodyFor(f, l) = row.version.body
    BY <1>4, <2>2 DEF BodyFor, Shows
  <2>4. row \in VersionRow
    BY DEF HaulDeskInv, Typed, TypeOK
  <2>5. row.version.body \in Bodies
    BY <2>4 DEF VersionRow, Version
  <2>. QED BY <1>2, <2>1, <2>2, <2>3, <2>5 DEF Shows, HaulDeskInv, BodiesAreStated
<1>. QED BY <1>3, <1>4

\* A version row that a file adds.
LEMMA NewRowsFacts ==
  ASSUME HaulDeskInv, NEW f \in Files, RatesHaveLoads(f),
         NEW ledger \in Ledgers, IsFiniteSet(Ids(ledger)), NEW row \in NewRows(ledger, f)
  PROVE  \E l \in Affected(f) :
           /\ row = CandidateRow(ledger, f, l) /\ ~VersionExists(row.version)
           /\ row \in VersionRow /\ row.file = f /\ row.version.body = BodyFor(f, l)
           /\ LoadOf[row.version.body] = l
           /\ row.version.totals = LedgerTotals(ledger, l, SyncAt[f])
<1>1. PICK l \in Affected(f) : /\ row = CandidateRow(ledger, f, l)
                               /\ ~VersionExists(Candidate(ledger, f, l))
  BY DEF NewRows
<1>2. l \in Loads /\ BodyFor(f, l) \in Bodies /\ LoadOf[BodyFor(f, l)] = l
  BY BodyForIsKnown
<1>3. LedgerTotals(ledger, l, SyncAt[f]) \in Written
  BY TotalsType
<1>4. Candidate(ledger, f, l) \in Version
  BY <1>2, <1>3 DEF Candidate, Version
<1>5. loads[l] # None => loads[l].current \in Version
  <2>1. loads[l] \in LoadRow \cup {None}
    BY <1>2 DEF HaulDeskInv, Typed, TypeOK
  <2>. QED BY <2>1 DEF LoadRow
<1>6. row \in VersionRow
  BY <1>1, <1>4, <1>5 DEF CandidateRow, VersionRow
<1>. QED BY <1>1, <1>2, <1>6 DEF CandidateRow, Candidate

\* A file adds one row for a load at most.
LEMMA NewRowsDiffer ==
  ASSUME HaulDeskInv, NEW f \in Files, RatesHaveLoads(f),
         NEW ledger \in Ledgers, IsFiniteSet(Ids(ledger)),
         NEW row \in NewRows(ledger, f), NEW other \in NewRows(ledger, f),
         LoadOf[row.version.body] = LoadOf[other.version.body]
  PROVE  row = other
<1>1. PICK l \in Affected(f) :
        row = CandidateRow(ledger, f, l) /\ LoadOf[row.version.body] = l
  BY NewRowsFacts
<1>2. PICK k \in Affected(f) :
        other = CandidateRow(ledger, f, k) /\ LoadOf[other.version.body] = k
  BY NewRowsFacts
<1>. QED BY <1>1, <1>2

\* A load keeps its projection or shows the new row of its own; a load that the
\* file affects has one in the end.
LEMMA ProjectedLoads ==
  ASSUME HaulDeskInv, NEW f \in Files, RatesHaveLoads(f),
         NEW ledger \in Ledgers, IsFiniteSet(Ids(ledger)),
         NEW new, new = NewRows(ledger, f), NEW l \in Loads
  PROVE  /\ \/ ProjectRows(new)[l] = loads[l]
            \/ \E row \in new :
                 /\ LoadOf[row.version.body] = l
                 /\ ProjectRows(new)[l] = Projection(row, row.version.totals)
                 /\ ProjectRows(new)[l] \in LoadRow
         /\ loads[l] # None \/ l \in Affected(f) => ProjectRows(new)[l] # None
<1> DEFINE Taken == \E row \in new : LoadOf[row.version.body] = l /\ BecomesCurrent(row)
<1>1. CASE ~Taken
  <2>1. ProjectRows(new)[l] = loads[l]
    BY <1>1 DEF ProjectRows
  <2>2. ASSUME l \in Affected(f), loads[l] = None PROVE FALSE
    <3>1. ~VersionExists(Candidate(ledger, f, l))
      <4> SUFFICES ASSUME NEW row \in load_versions, row.version = Candidate(ledger, f, l)
                   PROVE  FALSE
        BY DEF VersionExists
      <4>1. LoadOf[row.version.body] = l
        BY <2>2, BodyForIsKnown DEF Candidate
      <4>. QED BY <2>2, <4>1 DEF HaulDeskInv, Referenced
    <3>2. PICK row \in new : row = CandidateRow(ledger, f, l)
      BY <2>2, <3>1 DEF NewRows
    <3>3. LoadOf[row.version.body] = l
      BY <2>2, <3>2, BodyForIsKnown DEF CandidateRow, Candidate
    <3>4. BecomesCurrent(row)
      BY <2>2, <3>3 DEF BecomesCurrent, ChooseCurrentVersion
    <3>. QED BY <1>1, <3>3, <3>4
  <2>. QED BY <2>1, <2>2
<1>2. CASE Taken
  <2>1. PICK row \in new : /\ LoadOf[row.version.body] = l
                           /\ ProjectRows(new)[l] = Projection(row, row.version.totals)
    BY <1>2 DEF ProjectRows
  <2>2. row \in VersionRow
    BY <2>1, NewRowsFacts
  <2>3. Money(row.version.totals) \in Totals /\ SyncAt[row.file] \in Nat
    BY <2>2, FilesAssumption DEF VersionRow, Version, Written, Money, Totals
  <2>4. Projection(row, row.version.totals) \in LoadRow
    BY <2>2, <2>3 DEF Projection, LoadRow, VersionRow, Version
  <2>. QED BY <2>1, <2>4, NoneAssumption
<1>. QED BY <1>1, <1>2

-----------------------------------------------------------------------------
(* The invariant, one step after the other. *)

\* Nothing is there at first.
LEMMA InitHolds == Init => HaulDeskInv
<1> SUFFICES ASSUME Init PROVE HaulDeskInv
  OBVIOUS
<1>1. TypeOK
  BY DEF Init, TypeOK
<1>2. Entered = {}
  BY DEF Init, Entered
<1>3. IsFiniteSet(Entered)
  BY <1>2, FS_EmptySet
<1>4. Referenced /\ MoneyIsAccountedFor /\ BodiesAreStated
  BY FilesAssumption DEF Init, Referenced, MoneyIsAccountedFor, BodiesAreStated, Rate
<1>. QED BY <1>1, <1>3, <1>4 DEF HaulDeskInv, Typed

\* A file is ingested with all that it brings.
LEMMA IngestKeeps ==
  ASSUME HaulDeskInv, NEW f \in Files, Ingest(f)
  PROVE  HaulDeskInv'
<1>1. /\ ingestion_files[f] = "ABSENT" /\ RatesHaveLoads(f)
      /\ ingestion_files' = [ingestion_files EXCEPT ![f] = "COMPLETED"]
  BY DEF Ingest
<1>2. PICK ledger : ledger = source_rate_entries'
  OBVIOUS
<1>3. ledger = InsertRates(source_rate_entries, f)
  BY <1>2 DEF Ingest
<1>4. /\ ledger \in Ledgers /\ IsFiniteSet(Ids(ledger))
      /\ \A i \in RateIds :
           \/ ledger[i] = source_rate_entries[i]
           \/ /\ source_rate_entries[i] = None
              /\ ledger[i].file = f
              /\ \E r \in RatesIn[f] : r.id = i /\ ledger[i].load = r.load
      /\ \A r \in RatesIn[f] : ledger[r.id] # None
  BY <1>3, InsertedRates DEF HaulDeskInv
<1>5. PICK new : new = NewRows(ledger, f)
  OBVIOUS
<1>6. load_versions' = load_versions \cup new /\ loads' = ProjectRows(new)
  BY <1>2, <1>5 DEF Ingest
<1>7. ASSUME NEW row \in new
      PROVE  /\ row \in VersionRow /\ row.file = f /\ ~VersionExists(row.version)
             /\ LoadOf[row.version.body] \in Affected(f)
             /\ LoadOf[row.version.body] \in Loads
             /\ row.version.body = BodyFor(f, LoadOf[row.version.body])
  BY <1>1, <1>4, <1>5, NewRowsFacts, BodyForIsKnown
<1>8. ASSUME NEW l \in Loads
      PROVE  /\ \/ loads'[l] = loads[l]
                \/ \E row \in new : /\ LoadOf[row.version.body] = l
                                    /\ loads'[l] = Projection(row, row.version.totals)
                                    /\ loads'[l] \in LoadRow
             /\ loads[l] # None \/ l \in Affected(f) => loads'[l] # None
  BY <1>1, <1>4, <1>5, <1>6, ProjectedLoads
<1>9. ingestion_files \in [Files -> {"ABSENT", "COMPLETED", "FAILED"}]
  BY DEF HaulDeskInv, Typed, TypeOK
<1>10. \A g \in Files : /\ ingestion_files[g] = "COMPLETED" => ingestion_files'[g] = "COMPLETED"
                        /\ ingestion_files'[g] = "COMPLETED" <=>
                             ingestion_files[g] = "COMPLETED" \/ g = f
  BY <1>1, <1>9
<1>11. Typed'
  <2>1. (ingestion_files \in [Files -> {"ABSENT", "COMPLETED", "FAILED"}])'
    BY <1>1, <1>9
  <2>2. (source_rate_entries \in [RateIds -> LedgerRow \cup {None}])'
    BY <1>2, <1>4 DEF Ledgers
  <2>3. (load_versions \subseteq VersionRow)'
    BY <1>6, <1>7 DEF HaulDeskInv, Typed, TypeOK
  <2>4. (loads \in [Loads -> LoadRow \cup {None}])'
    <3>1. \A l \in Loads : loads'[l] \in LoadRow \cup {None}
      BY <1>8 DEF HaulDeskInv, Typed, TypeOK
    <3>. QED BY <1>6, <3>1 DEF ProjectRows
  <2>5. Entered' = Ids(ledger)
    BY <1>2 DEF Entered, Ids
  <2>. QED BY <1>4, <2>1, <2>2, <2>3, <2>4, <2>5 DEF Typed, TypeOK
<1>12. Referenced'
  <2>1. ASSUME NEW l \in Loads, loads'[l] # None
        PROVE  \E row \in load_versions' : Shows(l, row)'
    <3>1. CASE loads'[l] = loads[l]
      <4>1. PICK row \in load_versions : Shows(l, row)
        BY <2>1, <3>1 DEF HaulDeskInv, Referenced
      <4>. QED BY <1>6, <3>1, <4>1 DEF Shows
    <3>2. ASSUME NEW row \in new, LoadOf[row.version.body] = l,
                 loads'[l] = Projection(row, row.version.totals)
          PROVE  \E r \in load_versions' : Shows(l, r)'
      BY <1>6, <3>2 DEF Shows, Projection
    <3>. QED BY <1>8, <3>1, <3>2
  <2>2. ASSUME NEW row \in load_versions'
        PROVE  loads'[LoadOf[row.version.body]] # None
    <3>1. CASE row \in load_versions
      <4>1. row \in VersionRow
        BY <3>1 DEF HaulDeskInv, Typed, TypeOK
      <4>2. LoadOf[row.version.body] \in Loads
        BY <4>1, BodiesAssumption DEF VersionRow, Version
      <4>. QED BY <1>8, <3>1, <4>2 DEF HaulDeskInv, Referenced
    <3>. QED BY <1>6, <1>7, <1>8, <3>1
  <2>3. ASSUME NEW row \in load_versions', NEW other \in load_versions',
               row.version = other.version
        PROVE  row = other
    <3>1. ASSUME NEW r \in new, NEW q \in load_versions PROVE r.version # q.version
      BY <1>7 DEF VersionExists
    <3>2. CASE row \in load_versions /\ other \in load_versions
      BY <2>3, <3>2 DEF HaulDeskInv, Referenced
    <3>3. CASE row \in new /\ other \in new
      BY <1>1, <1>4, <1>5, <2>3, <3>3, NewRowsDiffer
    <3>. QED BY <1>6, <2>3, <3>1, <3>2, <3>3
  <2>. QED BY <2>1, <2>2, <2>3 DEF Referenced
<1>13. MoneyIsAccountedFor'
  <2>1. ASSUME NEW i \in RateIds, ledger[i] # None
        PROVE  /\ ingestion_files'[ledger[i].file] = "COMPLETED"
               /\ loads'[ledger[i].load] # None
    <3>1. ledger[i] \in LedgerRow
      BY <1>4, <2>1 DEF Ledgers
    <3>2. ledger[i].file \in Files /\ ledger[i].load \in Loads
      BY <3>1 DEF LedgerRow
    <3>3. CASE ledger[i] = source_rate_entries[i]
      BY <1>8, <1>10, <2>1, <3>2, <3>3 DEF HaulDeskInv, MoneyIsAccountedFor
    <3>4. ASSUME ledger[i].file = f, NEW r \in RatesIn[f], ledger[i].load = r.load
          PROVE  /\ ingestion_files'[ledger[i].file] = "COMPLETED"
                 /\ loads'[ledger[i].load] # None
      <4>1. r.load \in Affected(f)
        BY DEF Affected
      <4>. QED BY <1>8, <1>10, <3>2, <3>4, <4>1
    <3>. QED BY <1>4, <3>3, <3>4
  <2>2. ASSUME NEW row \in load_versions' PROVE ingestion_files'[row.file] = "COMPLETED"
    <3>1. CASE row \in load_versions
      <4>1. row \in VersionRow
        BY <3>1 DEF HaulDeskInv, Typed, TypeOK
      <4>. QED BY <1>10, <3>1, <4>1 DEF HaulDeskInv, MoneyIsAccountedFor, VersionRow
    <3>. QED BY <1>6, <1>7, <1>10, <3>1
  <2>3. ASSUME NEW g \in Files, ingestion_files'[g] = "COMPLETED", NEW r \in RatesIn[g]
        PROVE  ledger[r.id] # None
    <3>1. r.id \in RateIds
      BY FilesAssumption DEF Rate
    <3>2. CASE g = f
      BY <1>4, <3>2
    <3>3. CASE g # f
      BY <1>4, <1>10, <2>3, <3>1, <3>3 DEF HaulDeskInv, MoneyIsAccountedFor
    <3>. QED BY <3>2, <3>3
  <2>. QED BY <1>2, <2>1, <2>2, <2>3 DEF MoneyIsAccountedFor
<1>14. BodiesAreStated'
  <2>1. ASSUME NEW row \in load_versions'
        PROVE  \E g \in Files :
                 ingestion_files'[g] = "COMPLETED" /\ row.version.body \in BodiesIn[g]
    <3>1. CASE row \in load_versions
      BY <1>10, <3>1 DEF HaulDeskInv, BodiesAreStated
    <3>2. CASE row \in new
      BY <1>1, <1>7, <1>10, <3>2, BodyForIsKnown
    <3>. QED BY <1>6, <3>1, <3>2
  <2>. QED BY <2>1 DEF BodiesAreStated
<1>. QED BY <1>11, <1>12, <1>13, <1>14 DEF HaulDeskInv

\* A file that fails leaves its row and nothing else.
LEMMA FailKeeps ==
  ASSUME HaulDeskInv, NEW f \in Files, Fail(f)
  PROVE  HaulDeskInv'
<1>1. /\ ingestion_files[f] = "ABSENT"
      /\ ingestion_files' = [ingestion_files EXCEPT ![f] = "FAILED"]
      /\ UNCHANGED <<source_rate_entries, load_versions, loads>>
  BY DEF Fail
<1>2. ingestion_files \in [Files -> {"ABSENT", "COMPLETED", "FAILED"}]
  BY DEF HaulDeskInv, Typed, TypeOK
<1>3. /\ ingestion_files' \in [Files -> {"ABSENT", "COMPLETED", "FAILED"}]
      /\ \A g \in Files : ingestion_files'[g] = "COMPLETED" <=> ingestion_files[g] = "COMPLETED"
  BY <1>1, <1>2
<1>4. Typed'
  BY <1>1, <1>3 DEF HaulDeskInv, Typed, TypeOK, Entered
<1>5. Referenced'
  BY <1>1 DEF HaulDeskInv, Referenced, Shows
<1>6. MoneyIsAccountedFor'
  <2>1. \A i \in RateIds : source_rate_entries[i] # None => source_rate_entries[i].file \in Files
    BY DEF HaulDeskInv, Typed, TypeOK, LedgerRow
  <2>2. \A row \in load_versions : row.file \in Files
    BY DEF HaulDeskInv, Typed, TypeOK, VersionRow
  <2>. QED BY <1>1, <1>3, <2>1, <2>2 DEF HaulDeskInv, MoneyIsAccountedFor
<1>7. BodiesAreStated'
  BY <1>1, <1>3 DEF HaulDeskInv, BodiesAreStated
<1>. QED BY <1>4, <1>5, <1>6, <1>7 DEF HaulDeskInv

\* What a rebuild shows of a load: nothing new of one without a version, and
\* otherwise a version of it that none of its others beats.
LEMMA RebuiltLoads ==
  ASSUME HaulDeskInv, Rebuild, NEW l \in Loads
  PROVE  \/ loads'[l] = loads[l] /\ RowsAbout(load_versions, l) = {}
         \/ \E row \in Unbeaten(RowsAbout(load_versions, l)) :
              /\ row \in load_versions /\ LoadOf[row.version.body] = l
              /\ loads'[l] = RebuiltProjection(row)
              /\ loads'[l] \in LoadRow
<1>1. PICK kept \in [Loads -> load_versions \cup {None}] :
        /\ \A k \in Loads : IF RowsAbout(load_versions, k) = {} THEN kept[k] = None
                            ELSE kept[k] \in Unbeaten(RowsAbout(load_versions, k))
        /\ loads' = [k \in Loads |-> IF kept[k] = None THEN loads[k]
                                     ELSE RebuiltProjection(kept[k])]
  BY DEF Rebuild
<1>2. CASE RowsAbout(load_versions, l) = {}
  BY <1>1, <1>2
<1>3. CASE RowsAbout(load_versions, l) # {}
  <2>1. PICK row \in Unbeaten(RowsAbout(load_versions, l)) : row = kept[l]
    BY <1>1, <1>3
  <2>2. row \in load_versions /\ LoadOf[row.version.body] = l
    BY DEF Unbeaten, RowsAbout
  <2>3. row \in VersionRow /\ row # None
    BY <2>2, NoneAssumption DEF HaulDeskInv, Typed, TypeOK
  <2>4. loads'[l] = RebuiltProjection(row)
    BY <1>1, <2>1, <2>3
  <2>5. Money(LedgerTotals(source_rate_entries, l, SyncAt[row.file])) \in Totals
    <3>1. source_rate_entries \in Ledgers /\ IsFiniteSet(Ids(source_rate_entries))
      BY DEF HaulDeskInv, Typed, TypeOK, Ledgers, Ids, Entered
    <3>. QED BY <3>1, TotalsType
  <2>6. RebuiltProjection(row) \in LoadRow
    BY <2>2, <2>3, <2>5, FilesAssumption
       DEF RebuiltProjection, Projection, LoadRow, VersionRow, Version
  <2>. QED BY <2>2, <2>4, <2>6
<1>. QED BY <1>2, <1>3

\* A rebuild shows a version of each load that has one.
LEMMA RebuildKeeps ==
  ASSUME HaulDeskInv, Rebuild
  PROVE  HaulDeskInv'
<1>1. UNCHANGED <<ingestion_files, source_rate_entries, load_versions>>
  BY DEF Rebuild
<1>2. ASSUME NEW l \in Loads
      PROVE  /\ loads'[l] \in LoadRow \cup {None}
             /\ loads[l] # None => loads'[l] # None
             /\ loads'[l] # None => \E row \in load_versions' : Shows(l, row)'
  <2>1. CASE loads'[l] = loads[l]
    <3>1. loads[l] # None => \E row \in load_versions : Shows(l, row)
      BY DEF HaulDeskInv, Referenced
    <3>. QED BY <1>1, <2>1, <3>1 DEF HaulDeskInv, Typed, TypeOK, Shows
  <2>2. ASSUME NEW row \in load_versions, LoadOf[row.version.body] = l,
               loads'[l] = RebuiltProjection(row), loads'[l] \in LoadRow
        PROVE  /\ loads'[l] \in LoadRow /\ loads'[l] # None
               /\ \E r \in load_versions' : Shows(l, r)'
    BY <1>1, <2>2, NoneAssumption DEF RebuiltProjection, Projection, Shows
  <2>. QED BY <2>1, <2>2, RebuiltLoads
<1>3. Typed'
  <2>1. loads' \in [Loads -> LoadRow \cup {None}]
    <3>1. \E g : loads' = [l \in Loads |-> g[l]]
      BY DEF Rebuild
    <3>. QED BY <1>2, <3>1
  <2>. QED BY <1>1, <2>1 DEF HaulDeskInv, Typed, TypeOK, Entered
<1>4. Referenced'
  <2>1. \A row \in load_versions : LoadOf[row.version.body] \in Loads
    BY BodiesAssumption DEF HaulDeskInv, Typed, TypeOK, VersionRow, Version
  <2>. QED BY <1>1, <1>2, <2>1 DEF HaulDeskInv, Referenced
<1>5. MoneyIsAccountedFor'
  <2>1. \A i \in RateIds : source_rate_entries[i] # None => source_rate_entries[i].load \in Loads
    BY DEF HaulDeskInv, Typed, TypeOK, LedgerRow
  <2>. QED BY <1>1, <1>2, <2>1 DEF HaulDeskInv, MoneyIsAccountedFor
<1>6. BodiesAreStated'
  BY <1>1 DEF HaulDeskInv, BodiesAreStated
<1>. QED BY <1>3, <1>4, <1>5, <1>6 DEF HaulDeskInv

\* Every step keeps the invariant.
LEMMA NextKeeps == HaulDeskInv /\ [Next]_vars => HaulDeskInv'
<1>1. ASSUME HaulDeskInv, UNCHANGED vars PROVE HaulDeskInv'
  BY <1>1 DEF vars, HaulDeskInv, Typed, TypeOK, Entered, Referenced, Shows, MoneyIsAccountedFor,
              BodiesAreStated
<1>. QED BY <1>1, IngestKeeps, FailKeeps, RebuildKeeps DEF Next

\* What the ledger, the versions and the projections owe each other, in any
\* order of delivery.
THEOREM HaulDeskInvariant == Spec => []HaulDeskInv
BY InitHolds, NextKeeps, PTL DEF Spec

\* Types of the rows, with every total a sum of the ledger's integers; no file
\* is left in flight.
THEOREM HaulDeskTyped == Spec => []TypeOK
<1>1. HaulDeskInv => TypeOK
  BY DEF HaulDeskInv, Typed
<1>. QED BY <1>1, HaulDeskInvariant, PTL

\* Only completed files own ledger and version rows, and each rate id of such a
\* file is in the ledger, on a load that is shown.
THEOREM MoneyIsAlwaysAccountedFor == Spec => []MoneyIsAccountedFor
<1>1. HaulDeskInv => MoneyIsAccountedFor
  BY DEF HaulDeskInv
<1>. QED BY <1>1, HaulDeskInvariant, PTL

-----------------------------------------------------------------------------
(* What a step does. *)

\* A file that arrives in order is later than every row that is there.
LEMMA InOrderIsLater ==
  ASSUME HaulDeskInv, NEW f \in Files, Ingest(f), Chronological
  PROVE  /\ \A g \in Files : ingestion_files[g] = "COMPLETED" => SyncAt[g] < SyncAt[f]
         /\ \A row \in load_versions : row.file \in Files /\ SyncAt[row.file] < SyncAt[f]
<1>1. Started(f)
  <2>1. ingestion_files'[f] = "COMPLETED" /\ ingestion_files[f] = "ABSENT"
    BY DEF Ingest, HaulDeskInv, Typed, TypeOK
  <2>. QED BY <2>1 DEF Started
<1>2. \A g \in Files : ingestion_files[g] = "COMPLETED" => SyncAt[g] < SyncAt[f]
  BY <1>1 DEF Chronological, InOrder
<1>3. \A row \in load_versions : row.file \in Files /\ ingestion_files[row.file] = "COMPLETED"
  BY DEF HaulDeskInv, Typed, TypeOK, VersionRow, MoneyIsAccountedFor
<1>. QED BY <1>2, <1>3

\* A step that ingests nothing leaves the ledger, the versions and the files
\* that stated them.
LEMMA OtherStepsKeep ==
  ASSUME HaulDeskInv, [Next]_vars, \A f \in Files : ~Ingest(f)
  PROVE  /\ source_rate_entries' = source_rate_entries
         /\ load_versions' = load_versions
BY DEF Next, Fail, Rebuild, vars

\* Every version states the ledger sums as of its own observation, and only a
\* sync that arrives late changes what those sums are: rows that a file in
\* order brings lie after the cutoff of every sum that is stated.
THEOREM TotalsStandUnlessLate == Spec => VersionsStateTheirLedger
<1> DEFINE Kept == Chronological => \A row \in load_versions' :
                     StatesLedger(row)' \/ (row \in load_versions /\ ~StatesLedger(row))
<1>1. HaulDeskInv /\ [Next]_vars => Kept
  <2> SUFFICES ASSUME HaulDeskInv, [Next]_vars, Chronological, NEW row \in load_versions',
                      row \in load_versions => StatesLedger(row)
               PROVE  StatesLedger(row)'
    OBVIOUS
  <2>1. PICK ledger : ledger = source_rate_entries'
    OBVIOUS
  <2>2. CASE \A f \in Files : ~Ingest(f)
    <3>1. row \in load_versions /\ source_rate_entries' = source_rate_entries
      BY <2>2, OtherStepsKeep
    <3>. QED BY <3>1 DEF StatesLedger
  <2>3. ASSUME NEW f \in Files, Ingest(f) PROVE StatesLedger(row)'
    <3>1. RatesHaveLoads(f) /\ ledger = InsertRates(source_rate_entries, f)
      BY <2>1, <2>3 DEF Ingest
    <3>2. /\ ledger \in Ledgers /\ IsFiniteSet(Ids(ledger))
          /\ \A i \in RateIds : \/ ledger[i] = source_rate_entries[i]
                                \/ source_rate_entries[i] = None /\ ledger[i].file = f
      BY <3>1, InsertedRates DEF HaulDeskInv
    <3>3. row.version.totals
            = LedgerTotals(ledger, LoadOf[row.version.body], SyncAt[row.file])
      <4>1. CASE row \in load_versions
        <5>1. SyncAt[row.file] < SyncAt[f] /\ row.file \in Files
          BY <2>3, <4>1, InOrderIsLater
        <5>2. ~(SyncAt[f] <= SyncAt[row.file])
          BY <5>1, FilesAssumption
        <5>3. LedgerTotals(ledger, LoadOf[row.version.body], SyncAt[row.file])
                = LedgerTotals(source_rate_entries, LoadOf[row.version.body], SyncAt[row.file])
          BY <3>2, <5>2, TotalsLookBack
        <5>. QED BY <4>1, <5>3 DEF StatesLedger
      <4>2. CASE row \notin load_versions
        <5>1. row \in NewRows(ledger, f)
          BY <2>1, <2>3, <4>2 DEF Ingest
        <5>. QED BY <3>1, <3>2, <5>1, NewRowsFacts
      <4>. QED BY <4>1, <4>2
    <3>. QED BY <2>1, <3>3 DEF StatesLedger
  <2>. QED BY <2>2, <2>3
<1>2. HaulDeskInv /\ [Next]_vars => [Kept]_vars
  BY <1>1
<1>. QED BY <1>2, HaulDeskInvariant, PTL DEF Spec, VersionsStateTheirLedger

\* A version written in order shows a body that some file had stated by its
\* time, that of a rate-only sync included.
THEOREM VersionsAlwaysShowThePast == Spec => VersionsShowThePast
<1> DEFINE Past == Chronological => \A row \in load_versions' \ load_versions : BodyIsPast(row)'
<1>1. HaulDeskInv /\ [Next]_vars => Past
  <2> SUFFICES ASSUME HaulDeskInv, [Next]_vars, Chronological,
                      NEW row \in load_versions', row \notin load_versions
               PROVE  BodyIsPast(row)'
    OBVIOUS
  <2>1. PICK f \in Files : Ingest(f)
    BY OtherStepsKeep
  <2>2. PICK ledger : ledger = source_rate_entries'
    OBVIOUS
  <2>3. RatesHaveLoads(f) /\ ledger = InsertRates(source_rate_entries, f)
    BY <2>1, <2>2 DEF Ingest
  <2>4. ledger \in Ledgers /\ IsFiniteSet(Ids(ledger))
    BY <2>3, InsertedRates DEF HaulDeskInv
  <2>5. row \in NewRows(ledger, f)
    BY <2>1, <2>2 DEF Ingest
  <2>6. PICK l \in Affected(f) : row.file = f /\ row.version.body = BodyFor(f, l)
    BY <2>3, <2>4, <2>5, NewRowsFacts
  <2>7. PICK g \in Files : /\ ingestion_files[g] = "COMPLETED" \/ g = f
                           /\ row.version.body \in BodiesIn[g]
    BY <2>3, <2>6, BodyForIsKnown
  <2>8. ingestion_files'[g] = "COMPLETED"
    BY <2>1, <2>7 DEF Ingest, HaulDeskInv, Typed, TypeOK
  <2>9. SyncAt[g] <= SyncAt[row.file]
    BY <2>1, <2>6, <2>7, InOrderIsLater, FilesAssumption
  <2>. QED BY <2>7, <2>8, <2>9 DEF BodyIsPast
<1>2. HaulDeskInv /\ [Next]_vars => [Past]_vars
  BY <1>1
<1>. QED BY <1>2, HaulDeskInvariant, PTL DEF Spec, VersionsShowThePast

\* A rebuild shows an undisputed load as incremental ingestion did, its money
\* too unless a rate row came late; then the sums as of the load's observation.
THEOREM RebuildsAreFaithful == Spec => RebuildKeepsProjections
<1> DEFINE Kept(l) ==
             [loads[l] EXCEPT !.totals =
                IF MoneyIsTimely(l) THEN @
                ELSE Money(LedgerTotals(source_rate_entries, l, loads[l].observed))]
           Same == ingestion_files' = ingestion_files =>
                     \A l \in Loads : loads[l] # None /\ Undisputed(l) => loads'[l] = Kept(l)
<1>1. HaulDeskInv /\ [Next]_vars => [Same]_vars
  <2> SUFFICES ASSUME HaulDeskInv, Next, ingestion_files' = ingestion_files,
                      NEW l \in Loads, loads[l] # None, Undisputed(l)
               PROVE  loads'[l] = Kept(l)
    OBVIOUS
  <2>1. Rebuild
    BY DEF Next, Ingest, Fail, HaulDeskInv, Typed, TypeOK
  <2>2. PICK row \in load_versions : Shows(l, row)
    BY DEF HaulDeskInv, Referenced
  <2>3. row \in RowsAbout(load_versions, l)
    BY <2>2 DEF Shows, RowsAbout
  <2>4. PICK kept \in Unbeaten(RowsAbout(load_versions, l)) :
          kept \in load_versions /\ LoadOf[kept.version.body] = l
          /\ loads'[l] = RebuiltProjection(kept)
    BY <2>1, <2>3, RebuiltLoads
  <2>5. RowOf(loads[l].current) = row
    <3>1. RowOf(loads[l].current) \in load_versions
          /\ RowOf(loads[l].current).version = row.version
      BY <2>2 DEF RowOf, Shows
    <3>. QED BY <2>2, <3>1 DEF HaulDeskInv, Referenced
  <2>6. kept = row
    <3>1. Timing(kept) \in VersionTiming
      <4>1. kept \in VersionRow
        BY <2>4 DEF HaulDeskInv, Typed, TypeOK
      <4>. QED BY <4>1, FilesAssumption, BodiesAssumption
               DEF Timing, BodyTiming, VersionTiming, VersionRow, Version
    <3>2. Timing(kept) # None
      BY <3>1, NoneAssumption
    <3>3. ~ChooseCurrentVersion(Timing(kept), Timing(row)).becomes_current
      BY <2>3, <2>4 DEF Unbeaten
    <3>4. ~KeyLess(Timing(kept), Timing(row))
      BY <3>2, <3>3 DEF ChooseCurrentVersion
    <3>5. kept \in RowsAbout(load_versions, l)
      BY <2>4 DEF RowsAbout
    <3>. QED BY <2>5, <3>4, <3>5 DEF Undisputed
  <2>7. /\ loads[l] \in LoadRow
        /\ loads[l].current = row.version /\ loads[l].body = row.version.body
        /\ loads[l].observed = SyncAt[row.file] /\ LoadOf[row.version.body] = l
    BY <2>2 DEF HaulDeskInv, Typed, TypeOK, Shows
  <2> DEFINE sums == Money(LedgerTotals(source_rate_entries, l, SyncAt[row.file]))
  <2>8. loads'[l] = [current |-> row.version, body |-> row.version.body, totals |-> sums,
                     observed |-> SyncAt[row.file]]
    BY <2>4, <2>6, <2>7 DEF RebuiltProjection, Projection
  <2>9. MoneyIsTimely(l) => loads[l].totals = sums
    BY <2>5, <2>7 DEF MoneyIsTimely, StatesLedger
  <2> HIDE DEF sums
  <2>10. Kept(l) = [loads[l] EXCEPT !.totals = sums]
    BY <2>7, <2>9 DEF sums, LoadRow
  <2>11. [loads[l] EXCEPT !.totals = sums]
           = [current |-> row.version, body |-> row.version.body, totals |-> sums,
              observed |-> SyncAt[row.file]]
    BY <2>7 DEF LoadRow
  <2> HIDE DEF Kept
  <2>. QED BY <2>8, <2>10, <2>11
<1>. QED BY <1>1, HaulDeskInvariant, PTL DEF Spec, RebuildKeepsProjections
=============================================================================
