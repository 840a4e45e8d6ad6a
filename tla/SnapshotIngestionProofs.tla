---------------------- MODULE SnapshotIngestionProofs ----------------------
(***************************************************************************)
(* What SnapshotIngestion guarantees for every tenant, whatever its files, *)
(* snapshots and timestamps are, and however often the session fails.      *)
(*                                                                         *)
(* The proofs are layered: types first, then the shape of a transaction    *)
(* (how the rows it sees differ from the committed ones), then the rows    *)
(* themselves.  Each layer is an invariant that may use the ones before.   *)
(***************************************************************************)
EXTENDS SnapshotIngestion, FiniteFolds

-----------------------------------------------------------------------------
(* Arithmetic and precedence. *)

\* The precedence of versions is a strict order in which being beaten by a
\* third version is inherited: what "no version outranks it" rests on.
LEMMA KeyLessIsAnOrder ==
  ASSUME NEW a \in VersionTiming, NEW b \in VersionTiming, NEW c \in VersionTiming
  PROVE  /\ ~KeyLess(a, a)
         /\ KeyLess(a, b) => ~KeyLess(b, a)
         /\ KeyLess(a, b) /\ KeyLess(b, c) => KeyLess(a, c)
         /\ KeyLess(a, c) => KeyLess(a, b) \/ KeyLess(b, c)
BY DEF VersionTiming, KeyLess

-----------------------------------------------------------------------------
(* What one snapshot does to the rows. *)

\* A file gives each of its snapshots three times that can be compared.
LEMMA TimingType ==
  ASSUME NEW f \in Files, NEW s \in Snapshots
  PROVE  FileTiming(f, s) \in VersionTiming
BY FilesAssumption, SnapshotsAssumption DEF FileTiming, VersionTiming

\* A stored version came with a file and has its three times.
LEMMA StoredTiming ==
  ASSUME NEW D \in Database, NEW s \in Stored(D)
  PROVE  /\ s \in Snapshots
         /\ D.load_versions[s] \in VersionRow
         /\ D.load_versions[s].file \in Files
         /\ Timing(D, s) \in VersionTiming
<1>1. s \in Snapshots /\ D.load_versions[s] \in VersionRow
  BY DEF Stored, Database
<1>2. D.load_versions[s].file \in Files
  BY <1>1 DEF VersionRow
<1>. QED BY <1>1, <1>2, TimingType DEF Timing

\* Every load that has a row points to a stored version of its own.
Pointed(D) ==
  \A l \in Loads : D.loads[l] # None =>
    /\ D.loads[l].current \in Stored(D)
    /\ LoadOf[D.loads[l].current] = l

\* The decision for a snapshot, spelled out.
LEMMA DecisionFacts ==
  ASSUME NEW D \in Database, Pointed(D), NEW f \in Files, NEW s \in Snapshots
  PROVE  /\ LoadOf[s] \in Loads
         /\ Decision(D, f, s) \in PrecedenceDecision
         /\ D.loads[LoadOf[s]] = None => Decision(D, f, s).becomes_current
         /\ D.loads[LoadOf[s]] # None =>
              (Decision(D, f, s).becomes_current
                 <=> KeyLess(Timing(D, D.loads[LoadOf[s]].current), FileTiming(f, s)))
<1>. LoadOf[s] \in Loads
  BY SnapshotsAssumption
<1>1. CASE D.loads[LoadOf[s]] = None
  BY <1>1 DEF Decision, CurrentTiming, ChooseCurrentVersion, PrecedenceDecision
<1>2. CASE D.loads[LoadOf[s]] # None
  <2>1. Timing(D, D.loads[LoadOf[s]].current) # None
    BY <1>2, StoredTiming, NoneAssumption DEF Pointed
  <2> DEFINE cur == Timing(D, D.loads[LoadOf[s]].current)
             new == FileTiming(f, s)
  <2>2. Decision(D, f, s) = ChooseCurrentVersion(cur, new)
    BY <1>2 DEF Decision, CurrentTiming
  <2>3. KeyLess(cur, new) \in BOOLEAN
    BY DEF KeyLess
  <2> HIDE DEF cur, new
  <2>4. ChooseCurrentVersion(cur, new) \in PrecedenceDecision
        /\ (ChooseCurrentVersion(cur, new).becomes_current <=> KeyLess(cur, new))
    BY <2>1, <2>3 DEF ChooseCurrentVersion, PrecedenceDecision, Anomalies, cur
  <2>. QED BY <1>2, <2>2, <2>4 DEF cur, new
<1>. QED BY <1>1, <1>2

\* Writing the parties of a snapshot gives rows of parties.
LEMMA UpsertType ==
  ASSUME NEW parties \in [Parties -> PartyRow \cup {None}],
         NEW s \in Snapshots, NEW at \in Nat
  PROVE  UpsertParties(parties, s, at) \in [Parties -> PartyRow \cup {None}]
<1> SUFFICES ASSUME NEW p \in Parties
             PROVE  UpsertParties(parties, s, at)[p] \in PartyRow \cup {None}
  BY DEF UpsertParties
<1>1. PartyFacts[s][p] # None =>
        PartyFacts[s][p].name \in Names /\ PartyFacts[s][p].contact \in Contacts
  BY SnapshotsAssumption DEF Facts
<1>. QED BY <1>1 DEF UpsertParties, PartyRow

\* Counting a version gives a row of a file.
LEMMA CountVersionType ==
  ASSUME NEW row \in FileRow, NEW decision
  PROVE  CountVersion(row, decision) \in FileRow
<1>1. row.versions_created + 1 \in Nat /\ row.projections_updated + 1 \in Nat
      /\ row.warnings_count + 1 \in Nat
  BY DEF FileRow
<1>. QED BY <1>1 DEF CountVersion, FileRow

\* The rows after the insertion of a version of s from file f.
Inserted(D, f, s, E) ==
  /\ \A t \in Snapshots :
       E.load_versions[t] = IF t = s THEN NewVersion(D, f, s) ELSE D.load_versions[t]
  /\ \A l \in Loads :
       E.loads[l] = IF l = LoadOf[s] /\ Decision(D, f, s).becomes_current
                    THEN Projection(s, SyncAt[f]) ELSE D.loads[l]
  /\ \A g \in Files :
       E.ingestion_files[g] =
         IF g = f THEN CountVersion(D.ingestion_files[f], Decision(D, f, s))
         ELSE D.ingestion_files[g]

\* Inserting a version adds its row, and counts it in the row of its file.
LEMMA InsertVersionFacts ==
  ASSUME NEW D \in Database, Pointed(D), NEW f \in Files, NEW s \in Snapshots
  PROVE  /\ InsertVersion(D, f, s) \in Database
         /\ Inserted(D, f, s, InsertVersion(D, f, s))
         /\ NewVersion(D, f, s) \in VersionRow
<1> DEFINE d == Decision(D, f, s)
           l == LoadOf[s]
<1>1. l \in Loads /\ d \in PrecedenceDecision
  BY DecisionFacts
<1>2. NewVersion(D, f, s) \in VersionRow
  BY <1>1 DEF NewVersion, VersionRow, Pointed, Stored
<1>3. Projection(s, SyncAt[f]) \in LoadRow
  BY FilesAssumption DEF Projection, LoadRow
<1>4. CountVersion(D.ingestion_files[f], d) \in FileRow
  BY CountVersionType DEF Database
<1> HIDE DEF d, l
<1>5. /\ InsertVersion(D, f, s).load_versions
           = [D.load_versions EXCEPT ![s] = NewVersion(D, f, s)]
      /\ InsertVersion(D, f, s).loads
           = [D.loads EXCEPT ![l] =
                IF d.becomes_current THEN Projection(s, SyncAt[f]) ELSE D.loads[l]]
      /\ InsertVersion(D, f, s).ingestion_files
           = [D.ingestion_files EXCEPT ![f] = CountVersion(D.ingestion_files[f], d)]
      /\ InsertVersion(D, f, s).parties = D.parties
  BY DEF InsertVersion, Database, d, l
<1>6. InsertVersion(D, f, s) \in Database
  BY <1>1, <1>2, <1>3, <1>4 DEF InsertVersion, Database, d, l
<1>7. Inserted(D, f, s, InsertVersion(D, f, s))
  BY <1>1, <1>5 DEF Inserted, Database, d, l
<1>. QED BY <1>2, <1>6, <1>7

\* The loop body starts with the parties, which no other rule looks at.
LEMMA UpsertFacts ==
  ASSUME NEW D \in Database, Pointed(D), NEW f \in Files, NEW s \in Snapshots,
         NEW D1, D1 = [D EXCEPT !.parties = UpsertParties(@, s, SyncAt[f])]
  PROVE  /\ D1 \in Database
         /\ D1.load_versions = D.load_versions
         /\ D1.loads = D.loads
         /\ D1.ingestion_files = D.ingestion_files
         /\ Stored(D1) = Stored(D)
         /\ Pointed(D1)
         /\ Decision(D1, f, s) = Decision(D, f, s)
         /\ NewVersion(D1, f, s) = NewVersion(D, f, s)
<1>1. UpsertParties(D.parties, s, SyncAt[f]) \in [Parties -> PartyRow \cup {None}]
  <2>1. SyncAt[f] \in Nat
    BY FilesAssumption
  <2>. QED BY <2>1, UpsertType DEF Database
<1>2. /\ D1 \in Database
      /\ D1.load_versions = D.load_versions
      /\ D1.loads = D.loads
      /\ D1.ingestion_files = D.ingestion_files
  BY <1>1 DEF Database
<1>3. \A l \in Loads : CurrentTiming(D1, l) = CurrentTiming(D, l)
  BY <1>2 DEF CurrentTiming, Timing
<1>4. Stored(D1) = Stored(D)
  BY <1>2 DEF Stored
<1>5. Pointed(D1)
  BY <1>2, <1>4 DEF Pointed
<1>6. Decision(D1, f, s) = Decision(D, f, s)
  BY <1>2, <1>3, SnapshotsAssumption DEF Decision
<1>7. NewVersion(D1, f, s) = NewVersion(D, f, s)
  BY <1>2, <1>6 DEF NewVersion
<1>. QED BY <1>2, <1>4, <1>5, <1>6, <1>7

\* A snapshot that is known leaves files, versions and loads alone.
LEMMA PersistKnown ==
  ASSUME NEW D \in Database, Pointed(D), NEW f \in Files, NEW s \in Stored(D),
         NEW E, E = PersistSnapshot(D, f, s)
  PROVE  /\ E \in Database
         /\ E.load_versions = D.load_versions
         /\ E.loads = D.loads
         /\ E.ingestion_files = D.ingestion_files
         /\ Stored(E) = Stored(D)
<1> DEFINE D1 == [D EXCEPT !.parties = UpsertParties(@, s, SyncAt[f])]
<1>1. s \in Snapshots
  BY DEF Stored
<1>2. E = IF s \in Stored(D1) THEN D1 ELSE InsertVersion(D1, f, s)
  BY DEF PersistSnapshot
<1> HIDE DEF D1
<1>3. /\ D1 \in Database
      /\ D1.load_versions = D.load_versions
      /\ D1.loads = D.loads
      /\ D1.ingestion_files = D.ingestion_files
      /\ Stored(D1) = Stored(D)
  BY <1>1, UpsertFacts DEF D1
<1>. QED BY <1>2, <1>3

\* A snapshot that is new is inserted.
LEMMA PersistNew ==
  ASSUME NEW D \in Database, Pointed(D), NEW f \in Files,
         NEW s \in Snapshots, s \notin Stored(D),
         NEW E, E = PersistSnapshot(D, f, s)
  PROVE  /\ E \in Database
         /\ Inserted(D, f, s, E)
         /\ NewVersion(D, f, s) \in VersionRow
         /\ Stored(E) = Stored(D) \cup {s}
<1> DEFINE D1 == [D EXCEPT !.parties = UpsertParties(@, s, SyncAt[f])]
<1>1. E = IF s \in Stored(D1) THEN D1 ELSE InsertVersion(D1, f, s)
  BY DEF PersistSnapshot
<1> HIDE DEF D1
<1>2. /\ D1 \in Database
      /\ D1.load_versions = D.load_versions
      /\ D1.loads = D.loads
      /\ D1.ingestion_files = D.ingestion_files
      /\ Stored(D1) = Stored(D)
      /\ Pointed(D1)
      /\ Decision(D1, f, s) = Decision(D, f, s)
      /\ NewVersion(D1, f, s) = NewVersion(D, f, s)
  BY UpsertFacts DEF D1
<1>3. E = InsertVersion(D1, f, s)
  BY <1>1, <1>2
<1>4. E \in Database /\ NewVersion(D, f, s) \in VersionRow
      /\ Inserted(D1, f, s, E)
  BY <1>2, <1>3, InsertVersionFacts
<1>5. Inserted(D, f, s, E)
  BY <1>2, <1>4 DEF Inserted
<1>6. Stored(E) = Stored(D) \cup {s}
  BY <1>4, <1>5, NoneAssumption DEF Stored, Inserted
<1>. QED BY <1>4, <1>5, <1>6

\* The stored rows that were there stay as they were, with their timing.
LEMMA PersistKeepsRows ==
  ASSUME NEW D \in Database, Pointed(D), NEW f \in Files, NEW s \in Snapshots,
         NEW E, E = PersistSnapshot(D, f, s),
         NEW t \in Stored(D)
  PROVE  /\ E.load_versions[t] = D.load_versions[t]
         /\ Timing(E, t) = Timing(D, t)
         /\ ObservedAt(E, t) = ObservedAt(D, t)
<1>1. E.load_versions[t] = D.load_versions[t]
  <2>1. CASE s \in Stored(D)
    BY <2>1, PersistKnown
  <2>2. CASE s \notin Stored(D)
    BY <2>2, PersistNew DEF Inserted, Stored
  <2>. QED BY <2>1, <2>2
<1>. QED BY <1>1 DEF Timing, ObservedAt

\* A new row carries the file, and thereby its timing.
LEMMA PersistNewRow ==
  ASSUME NEW D \in Database, Pointed(D), NEW f \in Files,
         NEW s \in Snapshots, s \notin Stored(D),
         NEW E, E = PersistSnapshot(D, f, s)
  PROVE  /\ E.load_versions[s] = NewVersion(D, f, s)
         /\ E.load_versions[s].file = f
         /\ Timing(E, s) = FileTiming(f, s)
         /\ ObservedAt(E, s) = SyncAt[f]
<1>1. E.load_versions[s] = NewVersion(D, f, s)
  BY PersistNew DEF Inserted
<1>2. NewVersion(D, f, s).file = f
  BY DEF NewVersion
<1>. QED BY <1>1, <1>2 DEF Timing, ObservedAt

\* The load rows after one snapshot: only that of its load may have moved, and
\* if it did, it shows the snapshot.
LEMMA PersistLoads ==
  ASSUME NEW D \in Database, Pointed(D), NEW f \in Files, NEW s \in Snapshots,
         NEW E, E = PersistSnapshot(D, f, s),
         NEW l \in Loads
  PROVE  \/ E.loads[l] = D.loads[l]
         \/ /\ s \notin Stored(D)
            /\ l = LoadOf[s]
            /\ Decision(D, f, s).becomes_current
            /\ E.loads[l] = Projection(s, SyncAt[f])
<1>1. CASE s \in Stored(D)
  BY <1>1, PersistKnown
<1>2. CASE s \notin Stored(D)
  <2>1. Inserted(D, f, s, E)
    BY <1>2, PersistNew
  <2>. QED BY <1>2, <2>1 DEF Inserted
<1>. QED BY <1>1, <1>2

\* A projected load still points to a stored version of its own.
LEMMA PersistKeepsPointed ==
  ASSUME NEW D \in Database, Pointed(D), NEW f \in Files, NEW s \in Snapshots,
         NEW E, E = PersistSnapshot(D, f, s)
  PROVE  /\ E \in Database
         /\ Pointed(E)
         /\ Stored(E) = Stored(D) \cup {s}
<1>1. E \in Database /\ Stored(E) = Stored(D) \cup {s}
  <2>1. CASE s \in Stored(D)
    BY <2>1, PersistKnown
  <2>2. CASE s \notin Stored(D)
    BY <2>2, PersistNew
  <2>. QED BY <2>1, <2>2
<1>2. ASSUME NEW l \in Loads, E.loads[l] # None
      PROVE  E.loads[l].current \in Stored(E) /\ LoadOf[E.loads[l].current] = l
  <2>1. \/ E.loads[l] = D.loads[l]
        \/ l = LoadOf[s] /\ E.loads[l] = Projection(s, SyncAt[f])
    BY PersistLoads
  <2>. QED BY <1>1, <1>2, <2>1 DEF Pointed, Projection
<1>. QED BY <1>1, <1>2 DEF Pointed

-----------------------------------------------------------------------------
(* What a rebuild writes. *)

\* The earliest mention of a party is a time.
LEMMA FirstObservedType ==
  ASSUME NEW D \in Database, NEW p \in Parties, Mentions(D, p) # {}
  PROVE  FirstObserved(D, p) \in Nat
<1> DEFINE T == {ObservedAt(D, s) : s \in Mentions(D, p)}
<1>1. \A s \in Mentions(D, p) : ObservedAt(D, s) \in Nat
  BY StoredTiming, FilesAssumption DEF Mentions, ObservedAt
<1>2. T \in SUBSET Nat /\ T # {}
  BY <1>1
<1>3. PICK x \in T : \A y \in T : x <= y
  BY <1>2, LeastNumber
<1>4. \A s \in Mentions(D, p) : x <= ObservedAt(D, s)
  BY <1>3
<1>5. FirstObserved(D, p) \in T
  BY <1>3, <1>4 DEF FirstObserved
<1>. QED BY <1>2, <1>5

\* A rebuild gives rows of parties.
LEMMA RebuiltPartiesType ==
  ASSUME NEW D \in Database, NEW source \in PartySources(D)
  PROVE  RebuiltParties(D, source) \in [Parties -> PartyRow \cup {None}]
<1> SUFFICES ASSUME NEW p \in Parties
             PROVE  RebuiltParties(D, source)[p] \in PartyRow \cup {None}
  BY DEF RebuiltParties
<1>1. CASE source[p] = None
  BY <1>1 DEF RebuiltParties, Database
<1>2. CASE source[p] # None
  <2>1. source[p] \in Mentions(D, p)
    BY <1>2 DEF PartySources, LatestMentions
  <2>2. source[p] \in Stored(D) /\ PartyFacts[source[p]][p] # None
    BY <2>1 DEF Mentions
  <2>3. /\ PartyFacts[source[p]][p].name \in Names
        /\ PartyFacts[source[p]][p].contact \in Contacts
    BY <2>2, StoredTiming, SnapshotsAssumption DEF Facts
  <2>4. ObservedAt(D, source[p]) \in Nat
    BY <2>2, StoredTiming, FilesAssumption DEF ObservedAt
  <2>5. FirstObserved(D, p) \in Nat
    BY <2>1, FirstObservedType
  <2>. QED BY <1>2, <2>3, <2>4, <2>5 DEF RebuiltParties, PartyRow
<1>. QED BY <1>1, <1>2

\* The rows after a rebuild that chose these versions.
Rebuilt(D, chosen, E) ==
  /\ E.load_versions = D.load_versions
  /\ E.ingestion_files = D.ingestion_files
  /\ \A l \in Loads :
       E.loads[l] = IF chosen[l] = None THEN D.loads[l]
                    ELSE Projection(chosen[l], ObservedAt(D, chosen[l]))

\* A rebuild gives a database whose loads are the versions it chose.
LEMMA RebuildFacts ==
  ASSUME NEW D \in Database, NEW source \in PartySources(D),
         NEW chosen \in [Loads -> Stored(D) \cup {None}],
         NEW E, E = [D EXCEPT !.loads = RebuiltLoads(D, chosen),
                              !.parties = RebuiltParties(D, source)]
  PROVE  E \in Database /\ Rebuilt(D, chosen, E)
<1>1. RebuiltLoads(D, chosen) \in [Loads -> LoadRow \cup {None}]
  <2> SUFFICES ASSUME NEW l \in Loads
               PROVE  RebuiltLoads(D, chosen)[l] \in LoadRow \cup {None}
    BY DEF RebuiltLoads
  <2>1. CASE chosen[l] = None
    BY <2>1 DEF RebuiltLoads, Database
  <2>2. CASE chosen[l] # None
    <3>1. chosen[l] \in Stored(D)
      BY <2>2
    <3>2. chosen[l] \in Snapshots /\ ObservedAt(D, chosen[l]) \in Nat
      BY <3>1, StoredTiming, FilesAssumption DEF ObservedAt
    <3>. QED BY <2>2, <3>2 DEF RebuiltLoads, Projection, LoadRow
  <2>. QED BY <2>1, <2>2
<1>2. RebuiltParties(D, source) \in [Parties -> PartyRow \cup {None}]
  BY RebuiltPartiesType
<1>3. /\ E \in Database
      /\ E.load_versions = D.load_versions
      /\ E.ingestion_files = D.ingestion_files
      /\ E.loads = RebuiltLoads(D, chosen)
  BY <1>1, <1>2 DEF Database
<1>. QED BY <1>3 DEF Rebuilt, RebuiltLoads

-----------------------------------------------------------------------------
(* First layer: types, and what the open transaction may point to. *)

TypeInv ==
  /\ TypeOK
  /\ Pointed(db) /\ Pointed(work)
  /\ session.phase # "ingesting" => work = db
  /\ \A f \in Files : work.ingestion_files[f].status = "PROCESSING" => f = session.file
  /\ session.phase = "rebuilding" =>
       /\ scan.pending \subseteq Stored(db)
       /\ \A l \in Loads : scan.chosen[l] # None =>
            scan.chosen[l] \in Stored(db) /\ LoadOf[scan.chosen[l]] = l

\* An empty database is a database, without versions, loads or files.
LEMMA EmptyFacts ==
  /\ EmptyDatabase \in Database
  /\ Stored(EmptyDatabase) = {}
  /\ \A l \in Loads : EmptyDatabase.loads[l] = None
  /\ \A f \in Files : EmptyDatabase.ingestion_files[f] = NewFileRow("ABSENT")
<1>1. NewFileRow("ABSENT") \in FileRow
  BY DEF NewFileRow, FileRow
<1>. QED BY <1>1 DEF EmptyDatabase, Database, Stored

\* The initial state has the types.
LEMMA TypeInit == Init => TypeInv
<1> SUFFICES ASSUME Init PROVE TypeInv
  OBVIOUS
<1>1. db \in Database /\ work \in Database
  BY EmptyFacts DEF Init
<1>2. Pointed(db) /\ Pointed(work)
  BY EmptyFacts DEF Init, Pointed
<1>3. \A f \in Files : db.ingestion_files[f].status = "ABSENT"
  BY EmptyFacts DEF Init, NewFileRow
<1>4. session \in [phase: Phases, file: Files \cup {None}, next: Nat]
      /\ session.phase = "idle"
  BY DEF Init, Idle, Phases
<1>5. scan \in [pending: SUBSET Snapshots, chosen: [Loads -> Snapshots \cup {None}]]
  BY DEF Init, NoScan
<1>. QED BY <1>1, <1>2, <1>3, <1>4, <1>5 DEF Init, TypeInv, TypeOK

\* The snapshot that PersistNext handles.
LEMMA NextLineType ==
  ASSUME TypeInv, session.phase = "ingesting",
         session.next \in DOMAIN Lines[session.file]
  PROVE  /\ session.file \in Files
         /\ Lines[session.file][session.next] \in Snapshots
<1>1. session.file \in Files
  BY DEF TypeInv, TypeOK
<1>2. Lines[session.file] \in Seq(Snapshots)
  BY <1>1, FilesAssumption
<1>. QED BY <1>1, <1>2

WithRow(D, f, row) == [D EXCEPT !.ingestion_files[f] = row]

\* A file row that a step writes leaves all other rows alone.
LEMMA FileRowFacts ==
  ASSUME NEW D \in Database, NEW f \in Files, NEW row \in FileRow,
         NEW E, E = WithRow(D, f, row)
  PROVE  /\ E \in Database
         /\ E.load_versions = D.load_versions
         /\ E.loads = D.loads
         /\ E.parties = D.parties
         /\ Stored(E) = Stored(D)
         /\ Pointed(D) => Pointed(E)
         /\ \A g \in Files : E.ingestion_files[g] = IF g = f THEN row ELSE D.ingestion_files[g]
<1>1. /\ E \in Database
      /\ E.load_versions = D.load_versions
      /\ E.loads = D.loads
      /\ E.parties = D.parties
      /\ \A g \in Files : E.ingestion_files[g] = IF g = f THEN row ELSE D.ingestion_files[g]
  BY DEF Database, WithRow
<1>. QED BY <1>1 DEF Stored, Pointed

\* A new row of a file has the status it is given.
LEMMA NewFileRowType ==
  ASSUME NEW status \in {"ABSENT", "PROCESSING", "COMPLETED", "FAILED"}
  PROVE  NewFileRow(status) \in FileRow /\ NewFileRow(status).status = status
BY DEF NewFileRow, FileRow

\* Completing a file changes the status of its row and nothing else.
LEMMA CompletedFacts ==
  ASSUME NEW D \in Database, NEW f \in Files, NEW E, E = Completed(D, f)
  PROVE  /\ E \in Database
         /\ E.load_versions = D.load_versions
         /\ E.loads = D.loads
         /\ E.parties = D.parties
         /\ Stored(E) = Stored(D)
         /\ Pointed(D) => Pointed(E)
         /\ E.ingestion_files[f].status = "COMPLETED"
         /\ E.ingestion_files[f].versions_created = D.ingestion_files[f].versions_created
         /\ E.ingestion_files[f].projections_updated = D.ingestion_files[f].projections_updated
         /\ E.ingestion_files[f].warnings_count = D.ingestion_files[f].warnings_count
         /\ \A g \in Files \ {f} : E.ingestion_files[g] = D.ingestion_files[g]
<1> DEFINE row == [D.ingestion_files[f] EXCEPT !.status = "COMPLETED"]
<1>1. /\ row \in FileRow
      /\ row.status = "COMPLETED"
      /\ row.versions_created = D.ingestion_files[f].versions_created
      /\ row.projections_updated = D.ingestion_files[f].projections_updated
      /\ row.warnings_count = D.ingestion_files[f].warnings_count
  BY DEF Database, FileRow
<1>2. E = WithRow(D, f, row)
  BY Zenon DEF Completed, WithRow
<1> HIDE DEF row
<1>3. /\ E \in Database
      /\ E.load_versions = D.load_versions
      /\ E.loads = D.loads
      /\ E.parties = D.parties
      /\ Stored(E) = Stored(D)
      /\ Pointed(D) => Pointed(E)
      /\ \A g \in Files : E.ingestion_files[g] = IF g = f THEN row ELSE D.ingestion_files[g]
  BY <1>1, <1>2, FileRowFacts
<1>4. E.ingestion_files[f] = row
      /\ \A g \in Files \ {f} : E.ingestion_files[g] = D.ingestion_files[g]
  BY <1>3
<1>. QED BY <1>1, <1>3, <1>4

\* What a rebuild's choice is made of, once no row is left to read.
LEMMA ChosenType ==
  ASSUME TypeInv, session.phase = "rebuilding"
  PROVE  scan.chosen \in [Loads -> Stored(db) \cup {None}]
BY DEF TypeInv, TypeOK

\* The file row after the failure record.
FailureRow(row) == IF row.status = "ABSENT" THEN NewFileRow("FAILED") ELSE row

\* Recording a failure changes the row of its file and nothing else.
LEMMA FailureFacts ==
  ASSUME NEW D \in Database, NEW f \in Files,
         NEW E, E = WithRow(D, f, FailureRow(D.ingestion_files[f]))
  PROVE  /\ E \in Database
         /\ E.load_versions = D.load_versions
         /\ E.loads = D.loads
         /\ Stored(E) = Stored(D)
         /\ Pointed(D) => Pointed(E)
         /\ E.ingestion_files[f] = FailureRow(D.ingestion_files[f])
         /\ \A g \in Files \ {f} : E.ingestion_files[g] = D.ingestion_files[g]
<1> DEFINE row == FailureRow(D.ingestion_files[f])
<1>1. row \in FileRow
  BY NewFileRowType DEF Database, FailureRow
<1> HIDE DEF row
<1>2. E = WithRow(D, f, row)
  BY DEF row
<1>3. /\ E \in Database
      /\ E.load_versions = D.load_versions
      /\ E.loads = D.loads
      /\ Stored(E) = Stored(D)
      /\ Pointed(D) => Pointed(E)
      /\ \A g \in Files : E.ingestion_files[g] = IF g = f THEN row ELSE D.ingestion_files[g]
  BY <1>1, <1>2, FileRowFacts
<1>4. E.ingestion_files[f] = row
      /\ \A g \in Files \ {f} : E.ingestion_files[g] = D.ingestion_files[g]
  BY <1>3
<1>. QED BY <1>3, <1>4 DEF row

\* Types are preserved by every step.
LEMMA TypeStep == TypeInv /\ [Next]_vars => TypeInv'
<1> SUFFICES ASSUME TypeInv, [Next]_vars PROVE TypeInv'
  OBVIOUS
<1> USE DEF TypeInv
<1>1. CASE UNCHANGED vars
  <2>1. UNCHANGED <<db, work, session, scan>>
    BY <1>1 DEF vars
  <2>. QED BY <2>1, Zenon DEF TypeOK, Pointed
<1>2. ASSUME NEW f \in Files, OpenFile(f) PROVE TypeInv'
  <2>1. /\ session.phase = "idle"
        /\ session' = [phase |-> "opened", file |-> f, next |-> 1]
        /\ UNCHANGED <<db, work, scan>>
    BY <1>2 DEF OpenFile
  <2>2. session' \in [phase: Phases, file: Files \cup {None}, next: Nat]
        /\ session'.phase = "opened"
        /\ session'.file = f
    BY <2>1 DEF Phases
  <2>3. f # None
    BY NoneAssumption
  <2>. QED BY <2>1, <2>2, <2>3 DEF TypeOK, Pointed
<1>3. CASE ReturnNoOp
  BY <1>3 DEF ReturnNoOp, TypeOK, Phases, Idle, Pointed
<1>4. CASE RejectMalformed
  BY <1>4 DEF RejectMalformed, TypeOK, Phases, Pointed
<1>5. CASE RefuseFailedChecksum
  BY <1>5 DEF RefuseFailedChecksum, TypeOK, Phases, Pointed
<1>6. CASE InsertFile
  <2>1. session.file \in Files /\ work = db /\ db \in Database
    BY <1>6 DEF InsertFile, TypeOK
  <2>2. work' = WithRow(db, session.file, NewFileRow("PROCESSING"))
    BY <1>6, Zenon DEF InsertFile, WithRow
  <2>3. /\ work' \in Database
        /\ Pointed(work')
        /\ \A g \in Files \ {session.file} : work'.ingestion_files[g] = db.ingestion_files[g]
    <3>1. NewFileRow("PROCESSING") \in FileRow
      BY NewFileRowType
    <3>2. Pointed(db)
      OBVIOUS
    <3>. QED BY <2>1, <2>2, <3>1, <3>2, FileRowFacts
  <2>4. session' = [session EXCEPT !.phase = "ingesting"] /\ UNCHANGED <<db, scan>>
    BY <1>6 DEF InsertFile
  <2>5. session' \in [phase: Phases, file: Files \cup {None}, next: Nat]
    BY <2>4 DEF TypeOK, Phases
  <2>6. session'.phase = "ingesting" /\ session'.file = session.file
    BY <2>4 DEF TypeOK
  <2>7. TypeOK'
    BY <2>1, <2>3, <2>4, <2>5, <2>6, NoneAssumption DEF TypeOK
  <2>. QED BY <2>1, <2>3, <2>4, <2>6, <2>7 DEF TypeOK, Pointed
<1>7. CASE PersistNext
  <2>1. /\ session.file \in Files
        /\ Lines[session.file][session.next] \in Snapshots
    BY <1>7, NextLineType DEF PersistNext
  <2> DEFINE s == Lines[session.file][session.next]
  <2>2. work' = PersistSnapshot(work, session.file, s)
    BY <1>7 DEF PersistNext
  <2>3. work \in Database /\ Pointed(work)
    BY DEF TypeOK
  <2>4. work' \in Database /\ Pointed(work')
    BY <2>1, <2>2, <2>3, PersistKeepsPointed
  <2>5. \A g \in Files : g # session.file =>
          work'.ingestion_files[g] = work.ingestion_files[g]
    <3>1. CASE s \in Stored(work)
      BY <2>1, <2>2, <2>3, <3>1, PersistKnown
    <3>2. CASE s \notin Stored(work)
      <4>1. Inserted(work, session.file, s, work')
        BY <2>1, <2>2, <2>3, <3>2, PersistNew
      <4>. QED BY <4>1 DEF Inserted
    <3>. QED BY <3>1, <3>2
  <2>6. /\ session' = [session EXCEPT !.next = @ + 1]
        /\ session.phase = "ingesting"
        /\ UNCHANGED <<db, scan>>
    BY <1>7 DEF PersistNext
  <2>7. session'.phase = "ingesting" /\ session'.file = session.file
    BY <2>6 DEF TypeOK
  <2>8. TypeOK'
    BY <2>4, <2>6 DEF TypeOK, Phases
  <2>. QED BY <2>4, <2>5, <2>6, <2>7, <2>8 DEF Pointed
<1>8. CASE Commit
  <2>1. /\ session.file \in Files
        /\ work \in Database
        /\ db' = Completed(work, session.file)
        /\ work' = db'
        /\ session' = Idle
        /\ scan' = scan
    BY <1>8 DEF Commit, TypeOK
  <2>2. /\ db' \in Database
        /\ Pointed(db')
        /\ db'.ingestion_files[session.file].status = "COMPLETED"
        /\ \A g \in Files \ {session.file} : db'.ingestion_files[g] = work.ingestion_files[g]
    <3>1. Pointed(work)
      OBVIOUS
    <3>. QED BY <2>1, <3>1, CompletedFacts
  <2>3. \A g \in Files : db'.ingestion_files[g].status # "PROCESSING"
    BY <2>2
  <2>4. TypeOK'
    BY <2>1, <2>2, <2>3 DEF TypeOK, Idle, Phases
  <2>. QED BY <2>1, <2>2, <2>3, <2>4 DEF Idle, Pointed
<1>9. CASE RollBack
  BY <1>9 DEF RollBack, TypeOK, Phases, Pointed
<1>10. CASE RecordFailure
  <2>1. /\ session.file \in Files
        /\ db \in Database
        /\ Pointed(db)
        /\ work' = db'
        /\ session' = Idle
        /\ scan' = scan
    BY <1>10 DEF RecordFailure, TypeOK
  <2>2. db' = WithRow(db, session.file, FailureRow(db.ingestion_files[session.file]))
    BY <1>10, Zenon DEF RecordFailure, WithRow, FailureRow
  <2>3. /\ db' \in Database
        /\ Pointed(db')
        /\ db'.ingestion_files[session.file] = FailureRow(db.ingestion_files[session.file])
        /\ \A g \in Files \ {session.file} : db'.ingestion_files[g] = db.ingestion_files[g]
    BY <2>1, <2>2, FailureFacts
  <2>4. \A g \in Files : db'.ingestion_files[g].status # "PROCESSING"
    BY <2>3, NewFileRowType DEF TypeOK, FailureRow
  <2>5. TypeOK'
    BY <2>1, <2>3, <2>4 DEF TypeOK, Idle, Phases
  <2>. QED BY <2>1, <2>3, <2>4, <2>5 DEF Idle
<1>11. CASE Die
  BY <1>11 DEF Die, TypeOK, Phases, Idle, NoScan, Pointed
<1>12. CASE StartRebuild
  <2>1. /\ session.phase = "idle"
        /\ session' = [Idle EXCEPT !.phase = "rebuilding"]
        /\ scan' = [NoScan EXCEPT !.pending = Stored(db)]
        /\ UNCHANGED <<db, work>>
    BY <1>12 DEF StartRebuild
  <2>2. session'.phase = "rebuilding"
        /\ session' \in [phase: Phases, file: Files \cup {None}, next: Nat]
    BY <2>1 DEF Idle, Phases
  <2>3. scan' \in [pending: SUBSET Snapshots, chosen: [Loads -> Snapshots \cup {None}]]
        /\ scan'.pending = Stored(db)
        /\ \A l \in Loads : scan'.chosen[l] = None
    BY <2>1 DEF NoScan, Stored
  <2>. QED BY <2>1, <2>2, <2>3 DEF TypeOK, Pointed, Stored
<1>13. ASSUME NEW s \in Snapshots, ScanVersion(s) PROVE TypeInv'
  <2>1. /\ s \in Stored(db)
        /\ LoadOf[s] \in Loads
        /\ session.phase = "rebuilding"
    BY <1>13, SnapshotsAssumption DEF ScanVersion
  <2>2. scan.chosen \in [Loads -> Snapshots \cup {None}]
    BY DEF TypeOK
  <2>3. Winner(scan.chosen[LoadOf[s]], s) \in {scan.chosen[LoadOf[s]], s} \ {None}
    BY <2>1, <2>2, NoneAssumption DEF Winner
  <2>4. /\ scan'.pending = scan.pending \ {s}
        /\ scan'.chosen = [scan.chosen EXCEPT ![LoadOf[s]] = Winner(@, s)]
        /\ scan' \in [pending: SUBSET Snapshots, chosen: [Loads -> Snapshots \cup {None}]]
        /\ UNCHANGED <<db, work, session>>
    BY <1>13, <2>1, <2>2, <2>3 DEF ScanVersion, TypeOK
  <2>5. \A l \in Loads : scan'.chosen[l] # None =>
          scan'.chosen[l] \in Stored(db) /\ LoadOf[scan'.chosen[l]] = l
    BY <2>1, <2>2, <2>3, <2>4
  <2>. QED BY <2>1, <2>4, <2>5 DEF TypeOK, Pointed, Stored
<1>14. CASE ApplyRebuild
  <2>1. PICK source \in PartySources(db) :
          db' = [db EXCEPT !.loads = RebuiltLoads(db, scan.chosen),
                           !.parties = RebuiltParties(db, source)]
    BY <1>14 DEF ApplyRebuild
  <2>2. /\ session.phase = "rebuilding"
        /\ db \in Database
        /\ work' = db'
        /\ session' = Idle
        /\ scan' = NoScan
    BY <1>14 DEF ApplyRebuild, TypeOK
  <2>3. scan.chosen \in [Loads -> Stored(db) \cup {None}]
    BY <2>2, ChosenType
  <2>4. db' \in Database /\ Rebuilt(db, scan.chosen, db')
    BY <2>1, <2>2, <2>3, RebuildFacts
  <2>5. Stored(db') = Stored(db)
    BY <2>4 DEF Stored, Rebuilt
  <2>6. Pointed(db')
    <3> SUFFICES ASSUME NEW l \in Loads, db'.loads[l] # None
                 PROVE  /\ db'.loads[l].current \in Stored(db')
                        /\ LoadOf[db'.loads[l].current] = l
      BY DEF Pointed
    <3>1. db'.loads[l] = IF scan.chosen[l] = None THEN db.loads[l]
                         ELSE Projection(scan.chosen[l], ObservedAt(db, scan.chosen[l]))
      BY <2>4 DEF Rebuilt
    <3>. QED BY <2>2, <2>5, <3>1 DEF Pointed, Projection
  <2>7. TypeOK'
    BY <2>2, <2>4 DEF TypeOK, Idle, NoScan, Phases, Rebuilt
  <2>. QED BY <2>2, <2>6, <2>7 DEF Idle, TypeOK
<1>. QED
  BY <1>1, <1>2, <1>3, <1>4, <1>5, <1>6, <1>7, <1>8, <1>9, <1>10, <1>11, <1>12,
     <1>13, <1>14 DEF Next

\* The type invariant holds in every reachable state: in particular no
\* PROCESSING row of ingestion_files is ever committed by ingest.
THEOREM TypeCorrect == Spec => []TypeOK
<1>1. TypeInv => TypeOK
  BY DEF TypeInv
<1>. QED BY <1>1, TypeInit, TypeStep, PTL DEF Spec

-----------------------------------------------------------------------------
(* Second layer: how the open transaction differs from what is committed.  *)

\* Every version is one of the snapshots of the file that owns it.
Carried(D) ==
  \A s \in Stored(D) :
    \E i \in DOMAIN Lines[D.load_versions[s].file] :
      Lines[D.load_versions[s].file][i] = s

\* The rows of the transaction that ingests file f, before line n.
Shape(f, n) ==
  /\ db.ingestion_files[f].status = "ABSENT"
  /\ work.ingestion_files[f].status = "PROCESSING"
  /\ \A g \in Files \ {f} : work.ingestion_files[g] = db.ingestion_files[g]
  /\ \A s \in Stored(db) : work.load_versions[s] = db.load_versions[s]
  /\ \A s \in Stored(work) \ Stored(db) : work.load_versions[s].file = f
  /\ n \in 1 .. Len(Lines[f]) + 1
  /\ \A i \in 1 .. n - 1 : Lines[f][i] \in Stored(work)

TxInv ==
  /\ Carried(db) /\ Carried(work)
  /\ FilesAllOrNothing
  /\ session.phase = "opened" => session.next = 1
  /\ session.phase = "ingesting" => Shape(session.file, session.next)

\* Nothing is stored and no transaction is open at first.
LEMMA TxInit == Init => TxInv
<1> SUFFICES ASSUME Init PROVE TxInv
  OBVIOUS
<1>1. db = EmptyDatabase /\ work = EmptyDatabase /\ session.phase = "idle"
  BY DEF Init, Idle
<1>2. Stored(db) = {} /\ \A f \in Files : db.ingestion_files[f].status = "ABSENT"
  BY <1>1, EmptyFacts, NewFileRowType
<1>. QED BY <1>1, <1>2 DEF TxInv, Carried, FilesAllOrNothing

\* One snapshot of the file keeps the shape, one line further.
LEMMA ShapeStep ==
  ASSUME TypeInv, TxInv, PersistNext
  PROVE  /\ Carried(work')
         /\ Shape(session.file, session.next)'
<1> DEFINE f == session.file
           s == Lines[f][session.next]
<1>1. /\ f \in Files
      /\ s \in Snapshots
      /\ session.next \in DOMAIN Lines[f]
      /\ Shape(f, session.next)
  BY NextLineType DEF PersistNext, TxInv
<1>2. /\ work \in Database /\ Pointed(work)
      /\ work' = PersistSnapshot(work, f, s)
      /\ db' = db
  BY DEF PersistNext, TypeInv, TypeOK
<1>3. session'.file = f /\ session'.next = session.next + 1
  BY DEF PersistNext, TypeInv, TypeOK
<1>4. Lines[f] \in Seq(Snapshots)
  BY <1>1, FilesAssumption
<1> HIDE DEF f, s
<1>5. Stored(work') = Stored(work) \cup {s}
  BY <1>1, <1>2, PersistKeepsPointed
<1>6. \A t \in Stored(work) : work'.load_versions[t] = work.load_versions[t]
  BY <1>1, <1>2, PersistKeepsRows
<1>7. s \notin Stored(work) => work'.load_versions[s].file = f
  BY <1>1, <1>2, PersistNewRow
<1>8. \A g \in Files \ {f} : work'.ingestion_files[g] = work.ingestion_files[g]
  <2>1. CASE s \in Stored(work)
    BY <1>1, <1>2, <2>1, PersistKnown
  <2>2. CASE s \notin Stored(work)
    <3>1. Inserted(work, f, s, work')
      BY <1>1, <1>2, <2>2, PersistNew
    <3>. QED BY <3>1 DEF Inserted
  <2>. QED BY <2>1, <2>2
<1>9. work'.ingestion_files[f].status = work.ingestion_files[f].status
  <2>1. CASE s \in Stored(work)
    BY <1>1, <1>2, <2>1, PersistKnown
  <2>2. CASE s \notin Stored(work)
    <3>1. work'.ingestion_files[f]
            = CountVersion(work.ingestion_files[f], Decision(work, f, s))
      BY <1>1, <1>2, <2>2, PersistNew DEF Inserted
    <3>2. work.ingestion_files[f] \in FileRow
      BY <1>1, <1>2 DEF Database
    <3>. QED BY <3>1, <3>2 DEF CountVersion, FileRow
  <2>. QED BY <2>1, <2>2
<1>10. Carried(work')
  <2>1. Carried(work)
    BY DEF TxInv
  <2>2. s = Lines[f][session.next]
    BY DEF s
  <2>3. ASSUME NEW t \in Stored(work')
        PROVE  \E i \in DOMAIN Lines[work'.load_versions[t].file] :
                 Lines[work'.load_versions[t].file][i] = t
    <3>1. CASE t \in Stored(work)
      BY <1>6, <2>1, <3>1 DEF Carried
    <3>2. CASE t \notin Stored(work)
      BY <1>1, <1>5, <1>7, <2>2, <2>3, <3>2
    <3>. QED BY <3>1, <3>2
  <2>. QED BY <2>3 DEF Carried
<1>11. Stored(db) \subseteq Stored(work)
  <2>1. \A t \in Stored(db) : work.load_versions[t] = db.load_versions[t]
    BY <1>1 DEF Shape
  <2>. QED BY <2>1 DEF Stored
<1>12. \A t \in Stored(work') \ Stored(db) : work'.load_versions[t].file = f
  <2>1. \A t \in Stored(work) \ Stored(db) : work.load_versions[t].file = f
    BY <1>1 DEF Shape
  <2>. QED BY <1>5, <1>6, <1>7, <2>1
<1>13. \A i \in 1 .. session'.next - 1 : Lines[f][i] \in Stored(work')
  <2>1. \A i \in 1 .. session.next - 1 : Lines[f][i] \in Stored(work)
    BY <1>1 DEF Shape
  <2>2. session.next \in Nat /\ s = Lines[f][session.next]
    BY DEF s, TypeInv, TypeOK
  <2>. QED BY <1>3, <1>5, <2>1, <2>2
<1>14. session'.next \in 1 .. Len(Lines[f]) + 1
  BY <1>1, <1>3, <1>4
<1>15. /\ db'.ingestion_files[f].status = "ABSENT"
       /\ work'.ingestion_files[f].status = "PROCESSING"
       /\ \A g \in Files \ {f} : work'.ingestion_files[g] = db'.ingestion_files[g]
  BY <1>1, <1>2, <1>8, <1>9 DEF Shape
<1>16. \A t \in Stored(db') : work'.load_versions[t] = db'.load_versions[t]
  <2>1. \A t \in Stored(db) : work.load_versions[t] = db.load_versions[t]
    BY <1>1 DEF Shape
  <2>. QED BY <1>2, <1>6, <1>11, <2>1
<1>17. Stored(db') = Stored(db)
  BY <1>2 DEF Stored
<1>. QED BY <1>3, <1>10, <1>12, <1>13, <1>14, <1>15, <1>16, <1>17 DEF Shape
\* What the commit of a file publishes.
LEMMA CommitFacts ==
  ASSUME TypeInv, Commit
  PROVE  /\ session.file \in Files
         /\ db' \in Database
         /\ work' = db'
         /\ session'.phase = "idle"
         /\ db'.load_versions = work.load_versions
         /\ db'.loads = work.loads
         /\ Stored(db') = Stored(work)
         /\ db'.ingestion_files[session.file].status = "COMPLETED"
         /\ db'.ingestion_files[session.file].versions_created
              = work.ingestion_files[session.file].versions_created
         /\ db'.ingestion_files[session.file].projections_updated
              = work.ingestion_files[session.file].projections_updated
         /\ db'.ingestion_files[session.file].warnings_count
              = work.ingestion_files[session.file].warnings_count
         /\ \A g \in Files \ {session.file} :
              db'.ingestion_files[g] = work.ingestion_files[g]
<1>1. /\ session.file \in Files
      /\ work \in Database
      /\ db' = Completed(work, session.file)
      /\ work' = db'
      /\ session' = Idle
  BY DEF Commit, TypeInv, TypeOK
<1>2. session'.phase = "idle"
  BY <1>1 DEF Idle
<1>. QED BY <1>1, <1>2, CompletedFacts

\* What the record of a failure changes.
LEMMA RecordFailureFacts ==
  ASSUME TypeInv, RecordFailure
  PROVE  /\ session.file \in Files
         /\ db' \in Database
         /\ work' = db'
         /\ session'.phase = "idle"
         /\ db'.load_versions = db.load_versions
         /\ db'.loads = db.loads
         /\ Stored(db') = Stored(db)
         /\ db'.ingestion_files[session.file]
              = FailureRow(db.ingestion_files[session.file])
         /\ \A g \in Files \ {session.file} :
              db'.ingestion_files[g] = db.ingestion_files[g]
<1>1. /\ session.file \in Files
      /\ db \in Database
      /\ work' = db'
      /\ session' = Idle
  BY DEF RecordFailure, TypeInv, TypeOK
<1>2. db' = WithRow(db, session.file, FailureRow(db.ingestion_files[session.file]))
  BY Zenon DEF RecordFailure, WithRow, FailureRow
<1>3. session'.phase = "idle"
  BY <1>1 DEF Idle
<1>. QED BY <1>1, <1>2, <1>3, FailureFacts

\* What a rebuild changes.
LEMMA ApplyRebuildFacts ==
  ASSUME TypeInv, ApplyRebuild
  PROVE  /\ db' \in Database
         /\ work' = db'
         /\ session'.phase = "idle"
         /\ Rebuilt(db, scan.chosen, db')
         /\ Stored(db') = Stored(db)
<1>1. PICK source \in PartySources(db) :
        db' = [db EXCEPT !.loads = RebuiltLoads(db, scan.chosen),
                         !.parties = RebuiltParties(db, source)]
  BY DEF ApplyRebuild
<1>2. /\ session.phase = "rebuilding"
      /\ db \in Database
      /\ work' = db'
      /\ session' = Idle
  BY DEF ApplyRebuild, TypeInv, TypeOK
<1>3. scan.chosen \in [Loads -> Stored(db) \cup {None}]
  BY <1>2, ChosenType
<1>4. db' \in Database /\ Rebuilt(db, scan.chosen, db')
  BY <1>1, <1>2, <1>3, RebuildFacts
<1>5. session'.phase = "idle"
  BY <1>2 DEF Idle
<1>6. Stored(db') = Stored(db)
  BY <1>4 DEF Stored, Rebuilt
<1>. QED BY <1>2, <1>4, <1>5, <1>6

\* What the insertion of the file row changes.
LEMMA InsertFileFacts ==
  ASSUME TypeInv, InsertFile
  PROVE  /\ session.file \in Files
         /\ session.phase = "opened"
         /\ work' \in Database
         /\ db' = db
         /\ work = db
         /\ session'.phase = "ingesting"
         /\ session'.file = session.file
         /\ session'.next = session.next
         /\ work'.load_versions = db.load_versions
         /\ work'.loads = db.loads
         /\ Stored(work') = Stored(db)
         /\ db.ingestion_files[session.file].status = "ABSENT"
         /\ work'.ingestion_files[session.file] = NewFileRow("PROCESSING")
         /\ \A g \in Files \ {session.file} :
              work'.ingestion_files[g] = db.ingestion_files[g]
<1>1. /\ session.phase = "opened"
      /\ session.file \in Files
      /\ work = db
      /\ db \in Database
      /\ db' = db
      /\ db.ingestion_files[session.file].status = "ABSENT"
  BY DEF InsertFile, TypeInv, TypeOK
<1>2. work' = WithRow(db, session.file, NewFileRow("PROCESSING"))
  BY Zenon DEF InsertFile, WithRow
<1>3. /\ session'.phase = "ingesting"
      /\ session'.file = session.file
      /\ session'.next = session.next
  BY DEF InsertFile, TypeInv, TypeOK
<1>4. NewFileRow("PROCESSING") \in FileRow
  BY NewFileRowType
<1>5. /\ work' \in Database
      /\ work'.load_versions = db.load_versions
      /\ work'.loads = db.loads
      /\ Stored(work') = Stored(db)
      /\ \A g \in Files : work'.ingestion_files[g]
           = IF g = session.file THEN NewFileRow("PROCESSING") ELSE db.ingestion_files[g]
  BY <1>1, <1>2, <1>4, FileRowFacts
<1>. QED BY <1>1, <1>3, <1>5

\* The steps that write no row at all, neither in the transaction nor in the
\* database, and leave no transaction open.
Quiet ==
  \/ UNCHANGED vars
  \/ \E f \in Files : OpenFile(f)
  \/ ReturnNoOp
  \/ RejectMalformed
  \/ RefuseFailedChecksum
  \/ RollBack
  \/ Die
  \/ StartRebuild
  \/ \E s \in Snapshots : ScanVersion(s)

\* A quiet step commits nothing: it leaves the open work alone or drops it.
LEMMA QuietFacts ==
  ASSUME TypeInv, Quiet
  PROVE  /\ db' = db
         /\ \/ work' = work /\ session' = session
            \/ work' = db /\ session'.phase # "ingesting"
         /\ session'.phase = "opened" => session'.next = 1 \/ session' = session
<1>1. CASE UNCHANGED vars
  BY <1>1 DEF vars
<1>2. ASSUME NEW f \in Files, OpenFile(f)
      PROVE  db' = db /\ work' = db /\ session'.phase = "opened" /\ session'.next = 1
  BY <1>2 DEF OpenFile, TypeInv
<1>3. CASE ReturnNoOp
  BY <1>3 DEF ReturnNoOp, TypeInv, Idle
<1>4. CASE RejectMalformed
  BY <1>4 DEF RejectMalformed, TypeInv, TypeOK
<1>5. CASE RefuseFailedChecksum
  BY <1>5 DEF RefuseFailedChecksum, TypeInv, TypeOK
<1>6. CASE RollBack
  BY <1>6 DEF RollBack, TypeInv, TypeOK
<1>7. CASE Die
  BY <1>7 DEF Die, Idle
<1>8. CASE StartRebuild
  BY <1>8 DEF StartRebuild, Idle, TypeInv
<1>9. ASSUME NEW s \in Snapshots, ScanVersion(s)
      PROVE  db' = db /\ work' = work /\ session' = session
  BY <1>9 DEF ScanVersion
<1>. QED
  BY <1>1, <1>2, <1>3, <1>4, <1>5, <1>6, <1>7, <1>8, <1>9 DEF Quiet

\* Every step is quiet, or one of the five that write rows.
LEMMA Steps ==
  ASSUME [Next]_vars
  PROVE  Quiet \/ InsertFile \/ PersistNext \/ Commit \/ RecordFailure \/ ApplyRebuild
BY DEF Next, Quiet

\* Every step keeps the shape of the open transaction.
LEMMA TxStep == TypeInv /\ TxInv /\ [Next]_vars => TxInv'
<1> SUFFICES ASSUME TypeInv, TxInv, [Next]_vars PROVE TxInv'
  OBVIOUS
<1>1. CASE Quiet
  <2>1. db' = db
    BY <1>1, QuietFacts
  <2>2. Carried(db') /\ FilesAllOrNothing'
    BY <2>1, Zenon DEF TxInv, Carried, FilesAllOrNothing, Stored
  <2>3. CASE work' = work /\ session' = session
    <3>1. TypeInv /\ TxInv /\ UNCHANGED <<db, work, session>>
      BY <2>1, <2>3
    <3>2. Stored(db)' = Stored(db) /\ Stored(work)' = Stored(work)
      BY <3>1 DEF Stored
    <3>3. Carried(work')
      BY <2>2, <2>3, <3>1 DEF TxInv, Carried, Stored
    <3>4. (session.phase = "opened" => session.next = 1)'
      BY <3>1 DEF TxInv
    <3>5. (session.phase = "ingesting" => Shape(session.file, session.next))'
      <4>1. session.phase = "ingesting" => Shape(session.file, session.next)
        BY <3>1 DEF TxInv
      <4>. QED BY <3>1, <3>2, <4>1 DEF Shape
    <3>. QED BY <2>2, <3>3, <3>4, <3>5 DEF TxInv
  <2>4. CASE work' = db /\ session'.phase # "ingesting"
    <3>1. Carried(work')
      BY <2>1, <2>2, <2>4
    <3>2. session'.phase = "opened" => session'.next = 1
      BY <1>1, QuietFacts DEF TxInv
    <3>. QED BY <2>2, <2>4, <3>1, <3>2 DEF TxInv
  <2>. QED BY <1>1, <2>3, <2>4, QuietFacts
<1>2. CASE InsertFile
  <2>1. db' = db /\ session.next = 1 /\ session.file \in Files
    BY <1>2, InsertFileFacts DEF TxInv
  <2>2. Carried(db') /\ FilesAllOrNothing'
    BY <2>1, Zenon DEF TxInv, Carried, FilesAllOrNothing, Stored
  <2>3. Carried(work')
    BY <1>2, InsertFileFacts DEF TxInv, Carried
  <2>4. Len(Lines[session.file]) \in Nat
    BY <2>1, FilesAssumption
  <2>5. Shape(session.file, session.next)'
    <3>1. /\ db'.ingestion_files[session'.file].status = "ABSENT"
          /\ work'.ingestion_files[session'.file].status = "PROCESSING"
          /\ \A g \in Files \ {session'.file} :
               work'.ingestion_files[g] = db'.ingestion_files[g]
      BY <1>2, <2>1, InsertFileFacts, NewFileRowType
    <3>2. /\ Stored(work') = Stored(db')
          /\ work'.load_versions = db'.load_versions
          /\ session'.file = session.file
          /\ session'.next = 1
      BY <1>2, <2>1, InsertFileFacts DEF Stored
    <3>. QED BY <2>4, <3>1, <3>2 DEF Shape
  <2>6. session'.phase = "ingesting"
    BY <1>2, InsertFileFacts
  <2>. QED BY <2>2, <2>3, <2>5, <2>6 DEF TxInv
<1>3. CASE PersistNext
  <2>1. db' = db /\ session'.phase = "ingesting"
    BY <1>3 DEF PersistNext, TypeInv, TypeOK
  <2>2. Carried(db') /\ FilesAllOrNothing'
    BY <2>1, Zenon DEF TxInv, Carried, FilesAllOrNothing, Stored
  <2>3. Carried(work') /\ Shape(session.file, session.next)'
    BY <1>3, ShapeStep
  <2>. QED BY <2>1, <2>2, <2>3 DEF TxInv
<1>4. CASE Commit
  <2> DEFINE f == session.file
  <2>1. Shape(f, session.next) /\ session.next \notin DOMAIN Lines[f]
    BY <1>4 DEF Commit, TxInv
  <2>2. f \in Files /\ Lines[f] \in Seq(Snapshots)
    BY <1>4, CommitFacts, FilesAssumption
  <2>3. Carried(db') /\ Carried(work')
    BY <1>4, CommitFacts DEF TxInv, Carried
  <2> HIDE DEF f
  <2>4. \A i \in DOMAIN Lines[f] : Lines[f][i] \in Stored(work)
    BY <2>1, <2>2 DEF Shape
  <2>5. Stored(db) \subseteq Stored(work)
    BY <2>1 DEF Shape, Stored
  <2>6. ASSUME NEW g \in Files, g # f
        PROVE  /\ db'.ingestion_files[g] = db.ingestion_files[g]
               /\ (\A s \in Stored(db) : db.load_versions[s].file # g)
                    => \A s \in Stored(db') : db'.load_versions[s].file # g
    <3>1. db'.ingestion_files[g] = db.ingestion_files[g]
      BY <1>4, <2>1, <2>6, CommitFacts DEF Shape, f
    <3>2. ASSUME NEW s \in Stored(work)
          PROVE  \/ work.load_versions[s].file = f
                 \/ s \in Stored(db) /\ work.load_versions[s] = db.load_versions[s]
      BY <2>1, <3>2 DEF Shape
    <3>3. Stored(db') = Stored(work) /\ db'.load_versions = work.load_versions
      BY <1>4, CommitFacts
    <3>. QED BY <2>6, <3>1, <3>2, <3>3
  <2>7. FilesAllOrNothing'
    <3> SUFFICES ASSUME NEW g \in Files
                 PROVE  IF db'.ingestion_files[g].status = "COMPLETED"
                        THEN \A i \in DOMAIN Lines[g] : Lines[g][i] \in Stored(db')
                        ELSE \A s \in Stored(db') : db'.load_versions[s].file # g
      BY DEF FilesAllOrNothing
    <3>1. Stored(db') = Stored(work)
          /\ db'.ingestion_files[f].status = "COMPLETED"
      BY <1>4, CommitFacts DEF f
    <3>2. CASE g = f
      BY <2>4, <3>1, <3>2
    <3>3. CASE g # f
      <4>1. IF db.ingestion_files[g].status = "COMPLETED"
            THEN \A i \in DOMAIN Lines[g] : Lines[g][i] \in Stored(db)
            ELSE \A s \in Stored(db) : db.load_versions[s].file # g
        BY DEF TxInv, FilesAllOrNothing
      <4>. QED BY <2>5, <2>6, <3>1, <3>3, <4>1
    <3>. QED BY <3>2, <3>3
  <2>8. session'.phase = "idle"
    BY <1>4, CommitFacts
  <2>. QED BY <2>3, <2>7, <2>8 DEF TxInv
<1>5. CASE RecordFailure
  <2>1. Carried(db') /\ Carried(work') /\ session'.phase = "idle"
    BY <1>5, RecordFailureFacts DEF TxInv, Carried
  <2>2. FilesAllOrNothing'
    <3>1. \A g \in Files :
            db'.ingestion_files[g].status = "COMPLETED"
              <=> db.ingestion_files[g].status = "COMPLETED"
      BY <1>5, RecordFailureFacts, NewFileRowType DEF FailureRow
    <3>2. Stored(db') = Stored(db) /\ db'.load_versions = db.load_versions
      BY <1>5, RecordFailureFacts
    <3>. QED BY <3>1, <3>2 DEF FilesAllOrNothing, TxInv
  <2>. QED BY <2>1, <2>2 DEF TxInv
<1>6. CASE ApplyRebuild
  <2>1. /\ Stored(db') = Stored(db)
        /\ db'.load_versions = db.load_versions
        /\ db'.ingestion_files = db.ingestion_files
        /\ work' = db'
        /\ session'.phase = "idle"
    BY <1>6, ApplyRebuildFacts DEF Rebuilt
  <2>2. Carried(db')
    BY <2>1 DEF TxInv, Carried
  <2>3. FilesAllOrNothing'
    BY <2>1 DEF TxInv, FilesAllOrNothing
  <2>. QED BY <2>1, <2>2, <2>3 DEF TxInv
<1>. QED BY <1>1, <1>2, <1>3, <1>4, <1>5, <1>6, Steps

\* The first two layers together.
SessionInv == TypeInv /\ TxInv

\* The types and the shape of the transaction hold throughout.
LEMMA SessionCorrect == Spec => []SessionInv
<1>1. Init => SessionInv
  BY TypeInit, TxInit DEF SessionInv
<1>2. SessionInv /\ [Next]_vars => SessionInv'
  BY TypeStep, TxStep DEF SessionInv
<1>. QED BY <1>1, <1>2, PTL DEF Spec

\* A completed file has all its snapshots on record and any other file owns
\* none: no commit, failure or crash leaves part of a file behind.
THEOREM FilesCorrect == Spec => []FilesAllOrNothing
<1>1. SessionInv => FilesAllOrNothing
  BY DEF SessionInv, TxInv
<1>. QED BY <1>1, SessionCorrect, PTL

\* No step changes a committed version.
LEMMA FactsStep ==
  ASSUME TypeInv, TxInv, [Next]_vars
  PROVE  \A s \in Stored(db) : db'.load_versions[s] = db.load_versions[s]
<1>1. CASE Quiet
  BY <1>1, QuietFacts
<1>2. CASE InsertFile
  BY <1>2, InsertFileFacts
<1>3. CASE PersistNext
  BY <1>3 DEF PersistNext
<1>4. CASE Commit
  <2>1. Shape(session.file, session.next)
    BY <1>4 DEF Commit, TxInv
  <2>. QED BY <1>4, <2>1, CommitFacts DEF Shape
<1>5. CASE RecordFailure
  BY <1>5, RecordFailureFacts
<1>6. CASE ApplyRebuild
  BY <1>6, ApplyRebuildFacts DEF Rebuilt
<1>. QED BY <1>1, <1>2, <1>3, <1>4, <1>5, <1>6, Steps

\* No step of an ingestion, a failure record or a rebuild changes, re-owns or
\* removes a committed row of load_versions.
THEOREM FactsNeverChange == Spec => FactsAreImmutable
<1>1. SessionInv /\ [Next]_vars =>
        [\A s \in Stored(db) : db'.load_versions[s] = db.load_versions[s]]_vars
  BY FactsStep DEF SessionInv
<1>. QED BY <1>1, SessionCorrect, PTL DEF Spec, FactsAreImmutable

\* No step changes the row of a file that has one.
LEMMA VerdictStep ==
  ASSUME TypeInv, TxInv, [Next]_vars
  PROVE  \A f \in Files : db.ingestion_files[f].status # "ABSENT" =>
           db'.ingestion_files[f] = db.ingestion_files[f]
<1>1. CASE Quiet
  BY <1>1, QuietFacts
<1>2. CASE InsertFile
  BY <1>2, InsertFileFacts
<1>3. CASE PersistNext
  BY <1>3 DEF PersistNext
<1>4. CASE Commit
  <2>1. Shape(session.file, session.next)
    BY <1>4 DEF Commit, TxInv
  <2>. QED BY <1>4, <2>1, CommitFacts DEF Shape
<1>5. CASE RecordFailure
  BY <1>5, RecordFailureFacts DEF FailureRow
<1>6. CASE ApplyRebuild
  BY <1>6, ApplyRebuildFacts DEF Rebuilt
<1>. QED BY <1>1, <1>2, <1>3, <1>4, <1>5, <1>6, Steps

\* Once a checksum has a committed row in ingestion_files, neither a repeated
\* delivery nor a late failure record ever changes it.
THEOREM VerdictsNeverChange == Spec => VerdictsAreFinal
<1>1. SessionInv /\ [Next]_vars =>
        [\A f \in Files : db.ingestion_files[f].status # "ABSENT" =>
            db'.ingestion_files[f] = db.ingestion_files[f]]_vars
  BY VerdictStep DEF SessionInv
<1>. QED BY <1>1, SessionCorrect, PTL DEF Spec, VerdictsAreFinal

-----------------------------------------------------------------------------
(* Third layer: the rules the rows obey in every state of a transaction.   *)

\* Version x is a right choice among the versions T.
Best(D, T, x) ==
  x \in T /\ \A t \in T : ~KeyLess(Timing(D, x), Timing(D, t))

\* One more version s: the later of the two stays a right choice.
LEMMA BestOfMore ==
  ASSUME NEW D \in Database, NEW T \in SUBSET Stored(D), NEW x, Best(D, T, x),
         NEW s \in Stored(D)
  PROVE  /\ KeyLess(Timing(D, x), Timing(D, s)) => Best(D, T \cup {s}, s)
         /\ ~KeyLess(Timing(D, x), Timing(D, s)) => Best(D, T \cup {s}, x)
<1>1. /\ x \in Stored(D)
      /\ \A t \in Stored(D) : Timing(D, t) \in VersionTiming
  BY StoredTiming DEF Best
<1>2. ASSUME KeyLess(Timing(D, x), Timing(D, s)), NEW t \in T \cup {s}
      PROVE  ~KeyLess(Timing(D, s), Timing(D, t))
  <2>1. CASE t = s
    BY <1>1, <2>1, KeyLessIsAnOrder
  <2>2. CASE t \in T
    <3>1. ~KeyLess(Timing(D, x), Timing(D, t))
      BY <2>2 DEF Best
    <3>2. /\ Timing(D, x) \in VersionTiming
          /\ Timing(D, s) \in VersionTiming
          /\ Timing(D, t) \in VersionTiming
      BY <1>1, <2>2
    <3>. QED BY <1>2, <3>1, <3>2, KeyLessIsAnOrder
  <2>. QED BY <2>1, <2>2
<1>. QED BY <1>2 DEF Best

\* LatestIn, by means of Best.
LEMMA LatestMeansBest ==
  ASSUME NEW D
  PROVE  LatestIn(D) <=>
           \A l \in Loads :
             IF VersionsOf(D, l) = {} THEN D.loads[l] = None
             ELSE D.loads[l] # None /\ Best(D, VersionsOf(D, l), D.loads[l].current)
BY DEF LatestIn, Best

\* After a line is persisted each load still points to a version nothing outranks.
LEMMA PersistKeepsLatest ==
  ASSUME NEW D \in Database, Pointed(D), NEW f \in Files, NEW s \in Snapshots,
         NEW E, E = PersistSnapshot(D, f, s), LatestIn(D)
  PROVE  LatestIn(E)
<1>1. /\ E \in Database
      /\ Pointed(E)
      /\ Stored(E) = Stored(D) \cup {s}
  BY PersistKeepsPointed
<1>2. \A t \in Stored(D) : Timing(E, t) = Timing(D, t)
  BY PersistKeepsRows
<1>3. ASSUME NEW l \in Loads
      PROVE  IF VersionsOf(E, l) = {} THEN E.loads[l] = None
             ELSE E.loads[l] # None /\ Best(E, VersionsOf(E, l), E.loads[l].current)
  <2>1. IF VersionsOf(D, l) = {} THEN D.loads[l] = None
        ELSE D.loads[l] # None /\ Best(D, VersionsOf(D, l), D.loads[l].current)
    BY LatestMeansBest
  <2>2. VersionsOf(D, l) \subseteq Stored(D)
    BY DEF VersionsOf
  <2>3. VersionsOf(D, l) # {} => Best(E, VersionsOf(D, l), D.loads[l].current)
    BY <1>2, <2>1, <2>2 DEF Best
  <2>4. CASE s \in Stored(D) \/ l # LoadOf[s]
    <3>1. E.loads[l] = D.loads[l]
      BY <2>4, PersistLoads
    <3>2. VersionsOf(E, l) = VersionsOf(D, l)
      BY <1>1, <2>4 DEF VersionsOf
    <3>. QED BY <2>1, <2>3, <3>1, <3>2
  <2>5. CASE s \notin Stored(D) /\ l = LoadOf[s]
    <3>1. VersionsOf(E, l) = VersionsOf(D, l) \cup {s}
      BY <1>1, <2>5 DEF VersionsOf
    <3>2. Timing(E, s) = FileTiming(f, s) /\ s \in Stored(E)
      BY <1>1, <2>5, PersistNewRow
    <3>3. E.loads[l] = IF Decision(D, f, s).becomes_current
                       THEN Projection(s, SyncAt[f]) ELSE D.loads[l]
      <4>1. Inserted(D, f, s, E)
        BY <2>5, PersistNew
      <4>. QED BY <2>5, <4>1 DEF Inserted
    <3>4. Projection(s, SyncAt[f]) # None /\ Projection(s, SyncAt[f]).current = s
      BY NoneAssumption, FilesAssumption DEF Projection, LoadRow
    <3>5. CASE VersionsOf(D, l) = {}
      <4>1. D.loads[l] = None
        BY <2>1, <3>5
      <4>2. Decision(D, f, s).becomes_current
        BY <2>5, <4>1, DecisionFacts
      <4>3. ~KeyLess(Timing(E, s), Timing(E, s))
        BY <1>1, <3>2, StoredTiming, KeyLessIsAnOrder
      <4>. QED BY <3>1, <3>3, <3>4, <3>5, <4>2, <4>3 DEF Best
    <3>6. CASE VersionsOf(D, l) # {}
      <4> DEFINE x == D.loads[l].current
                 T == VersionsOf(D, l)
      <4>1. D.loads[l] # None /\ Best(E, T, x) /\ x \in T
        BY <2>1, <2>3, <3>6 DEF Best
      <4>2. Timing(E, x) = Timing(D, x)
        BY <1>2, <2>2, <4>1
      <4>3. Decision(D, f, s).becomes_current <=> KeyLess(Timing(E, x), Timing(E, s))
        BY <2>5, <3>2, <4>1, <4>2, DecisionFacts
      <4>4. T \in SUBSET Stored(E)
        BY <1>1, <2>2
      <4> HIDE DEF x, T
      <4>5. /\ KeyLess(Timing(E, x), Timing(E, s)) => Best(E, T \cup {s}, s)
            /\ ~KeyLess(Timing(E, x), Timing(E, s)) => Best(E, T \cup {s}, x)
        BY <1>1, <3>2, <4>1, <4>4, BestOfMore
      <4>6. E.loads[l] # None /\ Best(E, T \cup {s}, E.loads[l].current)
        BY <3>3, <3>4, <4>1, <4>3, <4>5 DEF x
      <4>. QED BY <3>1, <4>6 DEF T
    <3>. QED BY <3>5, <3>6
  <2>. QED BY <2>4, <2>5
<1>. QED BY <1>3, LatestMeansBest

\* After a line is persisted each load still shows the version it points to.
LEMMA PersistKeepsShown ==
  ASSUME NEW D \in Database, Pointed(D), NEW f \in Files, NEW s \in Snapshots,
         NEW E, E = PersistSnapshot(D, f, s), ShowsCurrentIn(D)
  PROVE  ShowsCurrentIn(E)
<1> SUFFICES ASSUME NEW l \in Loads, E.loads[l] # None
             PROVE  E.loads[l] = Projection(E.loads[l].current,
                                            ObservedAt(E, E.loads[l].current))
  BY DEF ShowsCurrentIn
<1>1. CASE E.loads[l] = D.loads[l]
  <2>1. D.loads[l].current \in Stored(D)
    BY <1>1 DEF Pointed
  <2>2. ObservedAt(E, D.loads[l].current) = ObservedAt(D, D.loads[l].current)
    BY <2>1, PersistKeepsRows
  <2>. QED BY <1>1, <2>2 DEF ShowsCurrentIn
<1>2. CASE s \notin Stored(D) /\ E.loads[l] = Projection(s, SyncAt[f])
  <2>1. ObservedAt(E, s) = SyncAt[f]
    BY <1>2, PersistNewRow
  <2>. QED BY <1>2, <2>1 DEF Projection
<1>. QED BY <1>1, <1>2, PersistLoads

\* The supersession of versions stays a tree: a new version points to an older one.
LEMMA PersistKeepsTree ==
  ASSUME NEW D \in Database, Pointed(D), NEW f \in Files, NEW s \in Snapshots,
         NEW E, E = PersistSnapshot(D, f, s), LatestIn(D), SupersessionIn(D)
  PROVE  SupersessionIn(E)
<1>1. CASE s \in Stored(D)
  <2>1. Stored(E) = Stored(D) /\ E.load_versions = D.load_versions
    BY <1>1, PersistKnown
  <2>. QED BY <2>1 DEF SupersessionIn, Superseded
<1>2. CASE s \notin Stored(D)
  <2>1. Stored(E) = Stored(D) \cup {s}
    BY PersistKeepsPointed
  <2>2. \A t \in Stored(D) : Superseded(E, t) = Superseded(D, t)
    BY PersistKeepsRows DEF Superseded
  <2>3. Superseded(E, s) = IF D.loads[LoadOf[s]] = None
                           THEN None ELSE D.loads[LoadOf[s]].current
    <3>1. E.load_versions[s] = NewVersion(D, f, s)
      BY <1>2, PersistNewRow
    <3>2. NewVersion(D, f, s).supersedes = IF D.loads[LoadOf[s]] = None
                                           THEN None ELSE D.loads[LoadOf[s]].current
      BY Zenon DEF NewVersion
    <3>. QED BY <3>1, <3>2 DEF Superseded
  <2>4. LoadOf[s] \in Loads
    BY SnapshotsAssumption
  <2>5. Superseded(E, s) # None =>
          Superseded(E, s) \in Stored(D) /\ LoadOf[Superseded(E, s)] = LoadOf[s]
    BY <2>3, <2>4 DEF Pointed
  <2>6. Superseded(E, s) = None => \A t \in Stored(D) : LoadOf[t] # LoadOf[s]
    <3>1. ASSUME Superseded(E, s) = None PROVE D.loads[LoadOf[s]] = None
      <4>1. ASSUME D.loads[LoadOf[s]] # None PROVE FALSE
        <5>1. D.loads[LoadOf[s]].current \in Snapshots
          BY <2>4, <4>1 DEF Pointed, Stored
        <5>. QED BY <2>3, <3>1, <4>1, <5>1, NoneAssumption
      <4>. QED BY <4>1
    <3>2. D.loads[LoadOf[s]] = None => VersionsOf(D, LoadOf[s]) = {}
      BY <2>4 DEF LatestIn
    <3>. QED BY <3>1, <3>2 DEF VersionsOf
  <2>7. \A t \in Stored(D) : Superseded(D, t) # None =>
          Superseded(D, t) \in Stored(D) /\ LoadOf[Superseded(D, t)] = LoadOf[t]
    BY DEF SupersessionIn
  <2>8. \A t \in Stored(E) : Superseded(E, t) # None =>
          Superseded(E, t) \in Stored(E) /\ LoadOf[Superseded(E, t)] = LoadOf[t]
    BY <2>1, <2>2, <2>5, <2>7
  <2>9. \A t, u \in Stored(E) :
          LoadOf[t] = LoadOf[u] /\ Superseded(E, t) = None /\ Superseded(E, u) = None
            => t = u
    <3>1. \A t, u \in Stored(D) :
            LoadOf[t] = LoadOf[u] /\ Superseded(D, t) = None /\ Superseded(D, u) = None
              => t = u
      BY DEF SupersessionIn
    <3>. QED BY <2>1, <2>2, <2>6, <3>1
  <2>10. ASSUME NEW S \in SUBSET Stored(E), S # {}
         PROVE  \E t \in S : Superseded(E, t) \notin S
    <3>1. CASE S \ {s} = {}
      BY <1>2, <2>5, <2>10, <3>1, NoneAssumption DEF Stored
    <3>2. CASE S \ {s} # {}
      <4>1. S \ {s} \in SUBSET Stored(D)
        BY <2>1
      <4>2. PICK t \in S \ {s} : Superseded(D, t) \notin S \ {s}
        BY <3>2, <4>1 DEF SupersessionIn
      <4>3. t \in Stored(D) /\ Superseded(D, t) # s
        <5>1. s # None
          BY NoneAssumption
        <5>. QED BY <1>2, <2>7, <4>1, <5>1
      <4>. QED BY <2>2, <4>2, <4>3
    <3>. QED BY <3>1, <3>2
  <2>. QED BY <2>8, <2>9, <2>10 DEF SupersessionIn
<1>. QED BY <1>1, <1>2

Rules(D) == LatestIn(D) /\ ShowsCurrentIn(D) /\ SupersessionIn(D)

\* The rules look at versions and loads only.
LEMMA RulesOfSame ==
  ASSUME NEW D, NEW E, Rules(D),
         E.load_versions = D.load_versions, E.loads = D.loads
  PROVE  Rules(E)
<1>1. Stored(E) = Stored(D)
  BY DEF Stored
<1>2. \A s : Timing(E, s) = Timing(D, s) /\ ObservedAt(E, s) = ObservedAt(D, s)
             /\ Superseded(E, s) = Superseded(D, s)
  BY DEF Timing, ObservedAt, Superseded
<1>3. \A l : VersionsOf(E, l) = VersionsOf(D, l)
  BY <1>1 DEF VersionsOf
<1>4. LatestIn(E)
  BY <1>2, <1>3 DEF LatestIn, Rules
<1>5. ShowsCurrentIn(E)
  BY <1>2 DEF ShowsCurrentIn, Rules
<1>6. SupersessionIn(E)
  BY <1>1, <1>2 DEF SupersessionIn, Rules
<1>. QED BY <1>4, <1>5, <1>6 DEF Rules

-----------------------------------------------------------------------------
(* The rebuild chooses rightly among the rows it has read. *)

Read(l) == VersionsOf(db, l) \ scan.pending

ScanInv ==
  session.phase = "rebuilding" =>
    \A l \in Loads :
      IF Read(l) = {} THEN scan.chosen[l] = None
      ELSE scan.chosen[l] # None /\ Best(db, Read(l), scan.chosen[l])

\* The scan keeps, of what it has read of a load, a version that nothing outranks.
LEMMA ScanStep ==
  ASSUME TypeInv, ScanInv, NEW s \in Snapshots, ScanVersion(s)
  PROVE  ScanInv'
<1>1. /\ session.phase = "rebuilding"
      /\ s \in scan.pending
      /\ s \in Stored(db)
      /\ s # None
      /\ db \in Database
      /\ scan.chosen \in [Loads -> Snapshots \cup {None}]
      /\ LoadOf[s] \in Loads
      /\ db' = db
  BY SnapshotsAssumption, NoneAssumption DEF ScanVersion, TypeInv, TypeOK
<1>2. /\ scan'.pending = scan.pending \ {s}
      /\ scan'.chosen
           = [scan.chosen EXCEPT ![LoadOf[s]] = Winner(scan.chosen[LoadOf[s]], s)]
  BY DEF ScanVersion
<1>3. \A l \in Loads : scan'.chosen[l] =
        IF l = LoadOf[s] THEN Winner(scan.chosen[l], s) ELSE scan.chosen[l]
  BY <1>1, <1>2
<1>4. \A l \in Loads : VersionsOf(db, l) \subseteq Stored(db)
  BY DEF VersionsOf
<1>5. Read(LoadOf[s])' = Read(LoadOf[s]) \cup {s}
  <2>1. s \in VersionsOf(db, LoadOf[s])
    BY <1>1 DEF VersionsOf
  <2>. QED BY <1>1, <1>2, <2>1 DEF Read, VersionsOf, Stored
<1>6. \A l \in Loads \ {LoadOf[s]} : Read(l)' = Read(l)
  <2>1. \A l \in Loads \ {LoadOf[s]} : s \notin VersionsOf(db, l)
    BY DEF VersionsOf
  <2>. QED BY <1>1, <1>2, <2>1 DEF Read, VersionsOf, Stored
<1>7. \A T, x : Best(db, T, x)' <=> Best(db, T, x)
  BY <1>1 DEF Best, Timing
<1>8. ASSUME NEW l \in Loads
      PROVE  IF Read(l)' = {} THEN scan'.chosen[l] = None
             ELSE scan'.chosen[l] # None /\ Best(db, Read(l)', scan'.chosen[l])
  <2>1. IF Read(l) = {} THEN scan.chosen[l] = None
        ELSE scan.chosen[l] # None /\ Best(db, Read(l), scan.chosen[l])
    BY <1>1 DEF ScanInv
  <2>2. CASE l # LoadOf[s]
    BY <1>3, <1>6, <2>1, <2>2
  <2>3. CASE l = LoadOf[s]
    <3>1. Read(l)' = Read(l) \cup {s}
      BY <1>5, <2>3
    <3>2. CASE Read(l) = {}
      <4>1. scan'.chosen[l] = s
        BY <1>3, <2>1, <2>3, <3>2 DEF Winner
      <4>2. ~KeyLess(Timing(db, s), Timing(db, s))
        BY <1>1, StoredTiming, KeyLessIsAnOrder
      <4>. QED BY <1>1, <3>1, <3>2, <4>1, <4>2 DEF Best
    <3>3. CASE Read(l) # {}
      <4> DEFINE x == scan.chosen[l]
                 T == Read(l)
      <4>1. x # None /\ Best(db, T, x) /\ T \in SUBSET Stored(db)
        BY <1>4, <2>1, <3>3 DEF Read
      <4>2. Timing(db, x) # None
        BY <1>1, <4>1, StoredTiming, NoneAssumption DEF Best
      <4>3. scan'.chosen[l] = IF KeyLess(Timing(db, x), Timing(db, s)) THEN s ELSE x
        BY <1>3, <2>3, <4>1, <4>2 DEF Winner, ChooseCurrentVersion
      <4> HIDE DEF x, T
      <4>4. /\ KeyLess(Timing(db, x), Timing(db, s)) => Best(db, T \cup {s}, s)
            /\ ~KeyLess(Timing(db, x), Timing(db, s)) => Best(db, T \cup {s}, x)
        BY <1>1, <4>1, BestOfMore
      <4>5. scan'.chosen[l] # None /\ Best(db, T \cup {s}, scan'.chosen[l])
        BY <1>1, <4>1, <4>3, <4>4
      <4>6. T \cup {s} # {}
        OBVIOUS
      <4>. QED BY <3>1, <4>5, <4>6 DEF T
    <3>. QED BY <3>2, <3>3
  <2>. QED BY <2>2, <2>3
<1>. QED BY <1>7, <1>8 DEF ScanInv

\* A rebuild that has read every row writes what the rules ask for.
LEMMA RebuildObeysRules ==
  ASSUME TypeInv, ScanInv, Rules(db), ApplyRebuild
  PROVE  Rules(db')
<1>1. /\ session.phase = "rebuilding"
      /\ scan.pending = {}
      /\ Rebuilt(db, scan.chosen, db')
      /\ Stored(db') = Stored(db)
      /\ db'.load_versions = db.load_versions
  BY ApplyRebuildFacts DEF ApplyRebuild, Rebuilt
<1>2. \A l \in Loads : Read(l) = VersionsOf(db, l)
  BY <1>1 DEF Read
<1>3. /\ \A l : VersionsOf(db', l) = VersionsOf(db, l)
      /\ \A s : Timing(db', s) = Timing(db, s)
      /\ \A s : ObservedAt(db', s) = ObservedAt(db, s)
      /\ \A s : Superseded(db', s) = Superseded(db, s)
  BY <1>1 DEF VersionsOf, Timing, ObservedAt, Superseded
<1>4. ASSUME NEW l \in Loads
      PROVE  /\ IF VersionsOf(db, l) = {}
                THEN scan.chosen[l] = None /\ db'.loads[l] = None
                ELSE /\ Best(db, VersionsOf(db, l), scan.chosen[l])
                     /\ db'.loads[l] = Projection(scan.chosen[l],
                                                  ObservedAt(db, scan.chosen[l]))
                     /\ db'.loads[l] # None
             /\ db'.loads[l] # None =>
                  db'.loads[l] = Projection(scan.chosen[l],
                                            ObservedAt(db, scan.chosen[l]))
  <2>1. db'.loads[l] = IF scan.chosen[l] = None THEN db.loads[l]
                       ELSE Projection(scan.chosen[l], ObservedAt(db, scan.chosen[l]))
    BY <1>1 DEF Rebuilt
  <2>2. CASE VersionsOf(db, l) = {}
    <3>1. scan.chosen[l] = None
      BY <1>1, <1>2, <2>2 DEF ScanInv
    <3>2. db.loads[l] = None
      BY <2>2 DEF Rules, LatestIn
    <3>. QED BY <2>1, <2>2, <3>1, <3>2
  <2>3. CASE VersionsOf(db, l) # {}
    <3>1. scan.chosen[l] # None /\ Best(db, VersionsOf(db, l), scan.chosen[l])
      BY <1>1, <1>2, <2>3 DEF ScanInv
    <3>2. scan.chosen[l] \in Stored(db) /\ db \in Database
      BY <1>1, <3>1 DEF TypeInv, TypeOK
    <3>3. Projection(scan.chosen[l], ObservedAt(db, scan.chosen[l])) \in LoadRow
      BY <3>2, StoredTiming, FilesAssumption DEF Projection, LoadRow, ObservedAt
    <3>. QED BY <2>1, <2>3, <3>1, <3>3, NoneAssumption
  <2>. QED BY <2>2, <2>3
<1>5. \A s, at : Projection(s, at).current = s
  BY DEF Projection
<1>6. LatestIn(db')
  BY <1>3, <1>4, <1>5 DEF LatestIn, Best
<1>7. ShowsCurrentIn(db')
  BY <1>3, <1>4, <1>5 DEF ShowsCurrentIn
<1>8. SupersessionIn(db')
  BY <1>1, <1>3 DEF SupersessionIn, Rules
<1>. QED BY <1>6, <1>7, <1>8 DEF Rules

RowsInv == Rules(db) /\ Rules(work) /\ ScanInv

\* The rules hold of an empty database.
LEMMA RowsInit == Init => RowsInv
<1> SUFFICES ASSUME Init PROVE RowsInv
  OBVIOUS
<1>1. db = EmptyDatabase /\ work = EmptyDatabase /\ session.phase = "idle"
  BY DEF Init, Idle
<1>2. Rules(EmptyDatabase)
  BY EmptyFacts DEF Rules, LatestIn, ShowsCurrentIn, SupersessionIn, VersionsOf
<1>. QED BY <1>1, <1>2 DEF RowsInv, ScanInv

\* A scan that has read nothing has chosen nothing.
LEMMA StartScan ==
  ASSUME TypeInv, StartRebuild
  PROVE  ScanInv'
<1>1. db' = db /\ scan'.pending = Stored(db) /\ \A l \in Loads : scan'.chosen[l] = None
  BY DEF StartRebuild, NoScan
<1>2. \A l \in Loads : Read(l)' = {}
  BY <1>1 DEF Read, VersionsOf, Stored
<1>. QED BY <1>1, <1>2 DEF ScanInv

\* A quiet step either leaves the scan as it is or ends it.
LEMMA QuietScan ==
  ASSUME TypeInv, ScanInv, Quiet
  PROVE  ScanInv'
<1>1. CASE UNCHANGED vars
  <2>1. UNCHANGED <<db, session, scan>>
    BY <1>1 DEF vars
  <2>. QED BY <2>1, Zenon DEF ScanInv, Read, Best, VersionsOf, Stored, Timing
<1>2. CASE StartRebuild
  BY <1>2, StartScan
<1>3. ASSUME NEW s \in Snapshots, ScanVersion(s) PROVE ScanInv'
  BY <1>3, ScanStep
<1>4. ASSUME NEW f \in Files, OpenFile(f) PROVE session'.phase # "rebuilding"
  BY <1>4 DEF OpenFile
<1>5. CASE ReturnNoOp \/ Die
  BY <1>5 DEF ReturnNoOp, Die, Idle, ScanInv
<1>6. CASE RejectMalformed \/ RefuseFailedChecksum \/ RollBack
  <2>1. session'.phase # "rebuilding"
    BY <1>6 DEF RejectMalformed, RefuseFailedChecksum, RollBack, TypeInv, TypeOK
  <2>. QED BY <2>1 DEF ScanInv
<1>. QED BY <1>1, <1>2, <1>3, <1>4, <1>5, <1>6 DEF Quiet, ScanInv

\* Every step keeps the rules of the committed rows and of the open work.
LEMMA RowsStep == TypeInv /\ RowsInv /\ [Next]_vars => RowsInv'
<1> SUFFICES ASSUME TypeInv, RowsInv, [Next]_vars PROVE RowsInv'
  OBVIOUS
<1>0. Rules(db) /\ Rules(work) /\ ScanInv
  BY DEF RowsInv
<1>1. CASE Quiet
  <2>1. db' = db /\ (work' = work \/ work' = db)
    BY <1>1, QuietFacts
  <2>2. ScanInv'
    BY <1>0, <1>1, QuietScan
  <2>. QED BY <1>0, <2>1, <2>2 DEF RowsInv
<1>2. CASE InsertFile
  <2>1. /\ db' = db
        /\ work'.load_versions = db.load_versions
        /\ work'.loads = db.loads
        /\ session'.phase = "ingesting"
    BY <1>2, InsertFileFacts
  <2>2. Rules(work')
    BY <1>0, <2>1, RulesOfSame
  <2>. QED BY <1>0, <2>1, <2>2 DEF RowsInv, ScanInv
<1>3. CASE PersistNext
  <2> DEFINE f == session.file
             s == Lines[f][session.next]
  <2>1. /\ f \in Files
        /\ s \in Snapshots
        /\ work \in Database
        /\ Pointed(work)
        /\ work' = PersistSnapshot(work, f, s)
        /\ db' = db
        /\ session'.phase # "rebuilding"
    BY <1>3, NextLineType DEF PersistNext, TypeInv, TypeOK
  <2> HIDE DEF f, s
  <2>2. LatestIn(work')
    BY <1>0, <2>1, PersistKeepsLatest DEF Rules
  <2>3. ShowsCurrentIn(work')
    BY <1>0, <2>1, PersistKeepsShown DEF Rules
  <2>4. SupersessionIn(work')
    BY <1>0, <2>1, PersistKeepsTree DEF Rules
  <2>. QED BY <1>0, <2>1, <2>2, <2>3, <2>4 DEF RowsInv, Rules, ScanInv
<1>4. CASE Commit
  <2>1. /\ db'.load_versions = work.load_versions
        /\ db'.loads = work.loads
        /\ work' = db'
        /\ session'.phase = "idle"
    BY <1>4, CommitFacts
  <2>2. Rules(db')
    BY <1>0, <2>1, RulesOfSame
  <2>. QED BY <2>1, <2>2 DEF RowsInv, ScanInv
<1>5. CASE RecordFailure
  <2>1. /\ db'.load_versions = db.load_versions
        /\ db'.loads = db.loads
        /\ work' = db'
        /\ session'.phase = "idle"
    BY <1>5, RecordFailureFacts
  <2>2. Rules(db')
    BY <1>0, <2>1, RulesOfSame
  <2>. QED BY <2>1, <2>2 DEF RowsInv, ScanInv
<1>6. CASE ApplyRebuild
  <2>1. work' = db' /\ session'.phase = "idle"
    BY <1>6, ApplyRebuildFacts
  <2>2. Rules(db')
    BY <1>0, <1>6, RebuildObeysRules
  <2>. QED BY <2>1, <2>2 DEF RowsInv, ScanInv
<1>. QED BY <1>1, <1>2, <1>3, <1>4, <1>5, <1>6, Steps

\* The whole invariant.
Inv == TypeInv /\ TxInv /\ RowsInv

\* Types, transactions and rows together are an invariant.
LEMMA InvCorrect == Spec => []Inv
<1>1. Init => Inv
  BY TypeInit, TxInit, RowsInit DEF Inv
<1>2. Inv /\ [Next]_vars => Inv'
  BY TypeStep, TxStep, RowsStep DEF Inv
<1>. QED BY <1>1, <1>2, PTL DEF Spec

\* Whatever the order of arrival, failures, retries and rebuilds: each load
\* points to a version that no stored version of it outranks.
THEOREM LatestCorrect == Spec => []CurrentIsLatest
<1>1. Inv => CurrentIsLatest
  BY DEF Inv, RowsInv, Rules, CurrentIsLatest
<1>. QED BY <1>1, InvCorrect, PTL

\* A load's columns, stops and observation time are always copied from the
\* version it points to, also after a skipped snapshot or a roll-back.
THEOREM ShownCorrect == Spec => []ProjectionShowsCurrent
<1>1. Inv => ProjectionShowsCurrent
  BY DEF Inv, RowsInv, Rules, ProjectionShowsCurrent
<1>. QED BY <1>1, InvCorrect, PTL

\* The supersedes_id links of every load form one tree.
THEOREM SupersessionCorrect == Spec => []SupersessionIsATree
<1>1. Inv => SupersessionIsATree
  BY DEF Inv, RowsInv, Rules, SupersessionIsATree
<1>. QED BY <1>1, InvCorrect, PTL

-----------------------------------------------------------------------------
(* What follows about rebuilds and about the order of delivery. *)

\* Without ties there is only one right choice.
LEMMA BestIsUnique ==
  ASSUME TypeInv, TxInv,
         NEW l \in Loads, NoTies(l),
         NEW x, Best(db, VersionsOf(db, l), x),
         NEW y, Best(db, VersionsOf(db, l), y)
  PROVE  x = y
<1>1. /\ x \in Stored(db) /\ LoadOf[x] = l
      /\ y \in Stored(db) /\ LoadOf[y] = l
      /\ ~KeyLess(Timing(db, x), Timing(db, y))
      /\ ~KeyLess(Timing(db, y), Timing(db, x))
  BY DEF Best, VersionsOf
<1> DEFINE f == db.load_versions[x].file
           g == db.load_versions[y].file
<1>2. f \in Files /\ g \in Files
  BY <1>1, StoredTiming DEF TypeInv, TypeOK
<1>3. PICK i \in DOMAIN Lines[f] : Lines[f][i] = x
  BY <1>1 DEF TxInv, Carried
<1>4. PICK j \in DOMAIN Lines[g] : Lines[g][j] = y
  BY <1>1 DEF TxInv, Carried
<1>5. Timing(db, x) = FileTiming(f, x) /\ Timing(db, y) = FileTiming(g, y)
  BY DEF Timing
<1> HIDE DEF f, g
<1>6. x # y => \/ KeyLess(FileTiming(f, x), FileTiming(g, y))
               \/ KeyLess(FileTiming(g, y), FileTiming(f, x))
  BY <1>1, <1>2, <1>3, <1>4 DEF NoTies
<1>. QED BY <1>1, <1>5, <1>6

\* A step of a rebuild leaves a load without ties as it was.
LEMMA RebuildStep ==
  ASSUME Inv, [Next]_vars, session.phase = "rebuilding",
         NEW l \in Loads, NoTies(l)
  PROVE  db'.loads[l] = db.loads[l]
<1> USE DEF Inv
<1>1. CASE ApplyRebuild
  <2>1. /\ scan.pending = {}
        /\ db \in Database
        /\ db' \in Database
        /\ Rebuilt(db, scan.chosen, db')
    BY <1>1, ApplyRebuildFacts DEF ApplyRebuild, TypeInv, TypeOK
  <2>2. db'.loads[l] = db.loads[l]
    <3>1. db'.loads[l] = IF scan.chosen[l] = None THEN db.loads[l]
                         ELSE Projection(scan.chosen[l], ObservedAt(db, scan.chosen[l]))
      BY <2>1 DEF Rebuilt
    <3>2. CASE VersionsOf(db, l) = {}
      BY <2>1, <3>1, <3>2 DEF RowsInv, ScanInv, Read
    <3>3. CASE VersionsOf(db, l) # {}
      <4>1. Read(l) = VersionsOf(db, l)
        BY <2>1 DEF Read
      <4>2. scan.chosen[l] # None /\ Best(db, VersionsOf(db, l), scan.chosen[l])
        BY <3>3, <4>1 DEF RowsInv, ScanInv
      <4>3. db.loads[l] # None /\ Best(db, VersionsOf(db, l), db.loads[l].current)
        BY <3>3, LatestMeansBest DEF RowsInv, Rules
      <4>4. scan.chosen[l] = db.loads[l].current
        BY <4>2, <4>3, BestIsUnique
      <4>5. db.loads[l] = Projection(db.loads[l].current,
                                     ObservedAt(db, db.loads[l].current))
        BY <4>3 DEF RowsInv, Rules, ShowsCurrentIn
      <4>. QED BY <3>1, <4>2, <4>4, <4>5
    <3>. QED BY <3>2, <3>3
  <2>. QED BY <2>2
<1>2. CASE Quiet
  BY <1>2, QuietFacts
<1>3. CASE InsertFile \/ PersistNext
  BY <1>3 DEF InsertFile, PersistNext
<1>4. CASE Commit \/ RecordFailure
  BY <1>4 DEF Commit, RecordFailure
<1>. QED BY <1>1, <1>2, <1>3, <1>4, Steps

\* Without ties between the snapshots of a load, rebuild_current_projections
\* writes back the loads and stops that incremental ingestion left, in
\* whatever order the database returns the version rows.
THEOREM RebuildCorrect == Spec => RebuildKeepsLoads
<1>1. Inv /\ [Next]_vars =>
        [\A l \in Loads : session.phase = "rebuilding" /\ NoTies(l)
                            => db'.loads[l] = db.loads[l]]_vars
  BY RebuildStep DEF vars
<1>. QED BY <1>1, InvCorrect, PTL DEF Spec, RebuildKeepsLoads

\* The order in which files are delivered does not matter in the end: once
\* every well-formed file about a load is in, it shows what no other outranks.
THEOREM OrderIrrelevant == Spec => []DeliveryOrderIrrelevant
<1>1. ASSUME Inv, NEW l \in Loads, NoRepeats(l), Delivered(l),
             NEW f \in Files \ Malformed, NEW i \in DOMAIN Lines[f],
             LoadOf[Lines[f][i]] = l
      PROVE  ~KeyLess(Timing(db, db.loads[l].columns), FileTiming(f, Lines[f][i]))
  <2> DEFINE s == Lines[f][i]
  <2>1. s \in Stored(db)
    BY <1>1 DEF Inv, TxInv, FilesAllOrNothing, Delivered
  <2>2. /\ s \in Snapshots
        /\ db.load_versions[s].file \in Files
        /\ LoadOf[s] \in Loads
    BY <1>1, <2>1, StoredTiming, SnapshotsAssumption DEF Inv, TypeInv, TypeOK
  <2>3. PICK j \in DOMAIN Lines[db.load_versions[s].file] :
          Lines[db.load_versions[s].file][j] = s
    BY <1>1, <2>1 DEF Inv, TxInv, Carried
  <2>4. db.load_versions[s].file = f
    BY <1>1, <2>2, <2>3 DEF NoRepeats
  <2>5. Timing(db, s) = FileTiming(f, s)
    BY <2>4 DEF Timing
  <2> HIDE DEF s
  <2>6. s \in VersionsOf(db, LoadOf[s])
    BY <2>1 DEF VersionsOf
  <2>7. /\ db.loads[LoadOf[s]] # None
        /\ ~KeyLess(Timing(db, db.loads[LoadOf[s]].current), Timing(db, s))
    BY <1>1, <2>2, <2>6 DEF Inv, RowsInv, Rules, LatestIn
  <2>8. db.loads[LoadOf[s]].columns = db.loads[LoadOf[s]].current
    <3>1. db.loads[LoadOf[s]] = Projection(db.loads[LoadOf[s]].current,
                                  ObservedAt(db, db.loads[LoadOf[s]].current))
      BY <1>1, <2>2, <2>7 DEF Inv, RowsInv, Rules, ShowsCurrentIn
    <3>. QED BY <3>1 DEF Projection
  <2>. QED BY <1>1, <2>5, <2>7, <2>8 DEF s
<1>2. Inv => DeliveryOrderIrrelevant
  BY <1>1 DEF DeliveryOrderIrrelevant
<1>. QED BY <1>2, InvCorrect, PTL

-----------------------------------------------------------------------------
(* The counters of a file row. *)

\* The counters of file f agree with the versions it owns.
Counted(D, f) ==
  LET row == D.ingestion_files[f]
  IN  /\ IsFiniteSet(VersionsFrom(D, f))
      /\ row.versions_created = Cardinality(VersionsFrom(D, f))
      /\ row.projections_updated <= row.versions_created
      /\ row.versions_created <= row.projections_updated + row.warnings_count

CountInv == \A f \in Files : Counted(db, f) /\ Counted(work, f)

\* Every inserted version became current or was counted as an anomaly.
LEMMA CountVersionFacts ==
  ASSUME NEW row \in FileRow, NEW d,
         d.becomes_current \/ d.anomaly_code # None,
         NEW new, new = CountVersion(row, d)
  PROVE  /\ new.versions_created = row.versions_created + 1
         /\ new.projections_updated \in {row.projections_updated, row.projections_updated + 1}
         /\ new.projections_updated + new.warnings_count
              >= row.projections_updated + row.warnings_count + 1
         /\ new.warnings_count >= row.warnings_count
         /\ d.anomaly_code # None => new.warnings_count = row.warnings_count + 1
<1>1. /\ new.versions_created = row.versions_created + 1
      /\ new.projections_updated =
           IF d.becomes_current THEN row.projections_updated + 1
           ELSE row.projections_updated
      /\ new.warnings_count =
           IF d.anomaly_code = None THEN row.warnings_count ELSE row.warnings_count + 1
  BY Zenon DEF CountVersion, FileRow
<1>2. row.projections_updated \in Nat /\ row.warnings_count \in Nat
  BY DEF FileRow
<1>. QED BY <1>1, <1>2

\* A version that did not become current, or that moves its load back in the
\* lifecycle, is an anomaly.
LEMMA AnomalyFacts ==
  ASSUME NEW D \in Database, Pointed(D), NEW f \in Files, NEW s \in Snapshots
  PROVE  /\ \/ Decision(D, f, s).becomes_current
            \/ Decision(D, f, s).anomaly_code # None
         /\ /\ D.loads[LoadOf[s]] # None
            /\ StatusOrder[StatusOf[s]] < StatusOrder[StatusOf[D.loads[LoadOf[s]].current]]
            => Decision(D, f, s).anomaly_code # None
<1>. LoadOf[s] \in Loads
  BY SnapshotsAssumption
<1>0. "OUT_OF_ORDER_SNAPSHOT" # None /\ "STATUS_REGRESSION_CORRECTION" # None
  BY NoneAssumption DEF Anomalies
<1>1. CASE D.loads[LoadOf[s]] = None
  BY <1>1, DecisionFacts
<1>2. CASE D.loads[LoadOf[s]] # None
  <2> DEFINE cur == Timing(D, D.loads[LoadOf[s]].current)
             new == FileTiming(f, s)
  <2>1. cur # None
    BY <1>2, StoredTiming, NoneAssumption DEF Pointed
  <2>2. Decision(D, f, s) = ChooseCurrentVersion(cur, new)
    BY <1>2 DEF Decision, CurrentTiming
  <2>3. /\ cur.status = StatusOf[D.loads[LoadOf[s]].current]
        /\ new.status = StatusOf[s]
    BY DEF Timing, FileTiming
  <2> HIDE DEF cur, new
  <2>4. /\ ChooseCurrentVersion(cur, new).becomes_current = KeyLess(cur, new)
        /\ ~KeyLess(cur, new) => ChooseCurrentVersion(cur, new).anomaly_code
                                   = "OUT_OF_ORDER_SNAPSHOT"
        /\ KeyLess(cur, new) /\ Regresses(cur, new) =>
             ChooseCurrentVersion(cur, new).anomaly_code = "STATUS_REGRESSION_CORRECTION"
    BY <2>1 DEF ChooseCurrentVersion
  <2>5. StatusOrder[new.status] < StatusOrder[cur.status] => Regresses(cur, new)
    BY DEF Regresses
  <2>. QED BY <1>0, <2>2, <2>3, <2>4, <2>5
<1>. QED BY <1>1, <1>2

\* What a file's counters count depends on the versions and its own row only.
LEMMA CountedOfSame ==
  ASSUME NEW D, NEW E, NEW f, Counted(D, f),
         E.load_versions = D.load_versions,
         E.ingestion_files[f].versions_created = D.ingestion_files[f].versions_created,
         E.ingestion_files[f].projections_updated = D.ingestion_files[f].projections_updated,
         E.ingestion_files[f].warnings_count = D.ingestion_files[f].warnings_count
  PROVE  Counted(E, f)
<1>1. VersionsFrom(E, f) = VersionsFrom(D, f)
  BY DEF VersionsFrom, Stored
<1>. QED BY <1>1 DEF Counted

\* A file row that has counted nothing, of a file that owns nothing.
LEMMA CountedOfNew ==
  ASSUME NEW D, NEW f, NEW status,
         D.ingestion_files[f] = NewFileRow(status), VersionsFrom(D, f) = {}
  PROVE  Counted(D, f)
<1>1. /\ NewFileRow(status).versions_created = 0
      /\ NewFileRow(status).projections_updated = 0
      /\ NewFileRow(status).warnings_count = 0
  BY DEF NewFileRow
<1>. QED BY <1>1, FS_EmptySet DEF Counted

\* Persisting a line keeps the counters of its file equal to what they count.
LEMMA PersistCounts ==
  ASSUME NEW D \in Database, Pointed(D), NEW f \in Files, NEW s \in Snapshots,
         NEW E, E = PersistSnapshot(D, f, s), Counted(D, f)
  PROVE  Counted(E, f)
<1>1. CASE s \in Stored(D)
  <2>1. E.load_versions = D.load_versions /\ E.ingestion_files = D.ingestion_files
    BY <1>1, PersistKnown
  <2>. QED BY <2>1, CountedOfSame
<1>2. CASE s \notin Stored(D)
  <2>1. E.ingestion_files[f] = CountVersion(D.ingestion_files[f], Decision(D, f, s))
    BY <1>2, PersistNew DEF Inserted
  <2>2. VersionsFrom(E, f) = VersionsFrom(D, f) \cup {s}
    <3>1. Stored(E) = Stored(D) \cup {s}
      BY PersistKeepsPointed
    <3>2. \A t \in Stored(D) : E.load_versions[t] = D.load_versions[t]
      BY PersistKeepsRows
    <3>3. E.load_versions[s].file = f
      BY <1>2, PersistNewRow
    <3>. QED BY <3>1, <3>2, <3>3 DEF VersionsFrom
  <2>3. s \notin VersionsFrom(D, f)
    BY <1>2 DEF VersionsFrom
  <2>4. IsFiniteSet(VersionsFrom(D, f))
    BY DEF Counted
  <2>5. /\ IsFiniteSet(VersionsFrom(E, f))
        /\ Cardinality(VersionsFrom(E, f)) = Cardinality(VersionsFrom(D, f)) + 1
    BY <2>2, <2>3, <2>4, FS_AddElement
  <2>6. D.ingestion_files[f] \in FileRow
    BY DEF Database
  <2>7. \/ Decision(D, f, s).becomes_current
        \/ Decision(D, f, s).anomaly_code # None
    BY AnomalyFacts
  <2> DEFINE row == D.ingestion_files[f]
             new == E.ingestion_files[f]
  <2>8. /\ new.versions_created = row.versions_created + 1
        /\ new.projections_updated \in {row.projections_updated, row.projections_updated + 1}
        /\ new.projections_updated + new.warnings_count
             >= row.projections_updated + row.warnings_count + 1
    BY <2>1, <2>6, <2>7, CountVersionFacts
  <2>9. /\ row.versions_created = Cardinality(VersionsFrom(D, f))
        /\ row.projections_updated <= row.versions_created
        /\ row.versions_created <= row.projections_updated + row.warnings_count
        /\ row.versions_created \in Nat /\ row.projections_updated \in Nat
        /\ row.warnings_count \in Nat
    BY <2>6 DEF Counted, FileRow
  <2>10. E \in Database
    BY PersistKeepsPointed
  <2>11. new.projections_updated \in Nat /\ new.warnings_count \in Nat
    BY <2>10 DEF Database, FileRow
  <2> HIDE DEF row, new
  <2>12. /\ new.versions_created = Cardinality(VersionsFrom(E, f))
         /\ new.projections_updated <= new.versions_created
         /\ new.versions_created <= new.projections_updated + new.warnings_count
    BY <2>5, <2>8, <2>9, <2>11
  <2>. QED BY <2>5, <2>12 DEF Counted, new
<1>. QED BY <1>1, <1>2

\* A file that the loop body does not handle keeps its count.
LEMMA PersistKeepsCounts ==
  ASSUME NEW D \in Database, Pointed(D), NEW f \in Files, NEW s \in Snapshots,
         NEW E, E = PersistSnapshot(D, f, s), NEW g \in Files, g # f, Counted(D, g)
  PROVE  Counted(E, g)
<1>1. E.ingestion_files[g] = D.ingestion_files[g]
  <2>1. CASE s \in Stored(D)
    BY <2>1, PersistKnown
  <2>2. CASE s \notin Stored(D)
    BY <2>2, PersistNew DEF Inserted
  <2>. QED BY <2>1, <2>2
<1>2. VersionsFrom(E, g) = VersionsFrom(D, g)
  <2>1. Stored(E) = Stored(D) \cup {s}
    BY PersistKeepsPointed
  <2>2. \A t \in Stored(D) : E.load_versions[t] = D.load_versions[t]
    BY PersistKeepsRows
  <2>3. s \notin Stored(D) => E.load_versions[s].file = f
    BY PersistNewRow
  <2>. QED BY <2>1, <2>2, <2>3 DEF VersionsFrom
<1>. QED BY <1>1, <1>2 DEF Counted

\* Nothing is counted and nothing is stored at first.
LEMMA CountInit == Init => CountInv
<1> SUFFICES ASSUME Init, NEW f \in Files PROVE Counted(db, f) /\ Counted(work, f)
  BY DEF CountInv
<1>1. db = EmptyDatabase /\ work = EmptyDatabase
  BY DEF Init
<1>2. EmptyDatabase.ingestion_files[f] = NewFileRow("ABSENT")
  BY EmptyFacts
<1>3. VersionsFrom(EmptyDatabase, f) = {}
  BY EmptyFacts DEF VersionsFrom
<1>. QED BY <1>1, <1>2, <1>3, CountedOfNew

\* Every step keeps the counters of every file equal to what they count.
LEMMA CountStep == Inv /\ CountInv /\ [Next]_vars => CountInv'
<1> SUFFICES ASSUME Inv, CountInv, [Next]_vars PROVE CountInv'
  OBVIOUS
<1> USE DEF Inv
<1>1. CASE Quiet
  <2>1. db' = db /\ (work' = work \/ work' = db)
    BY <1>1, QuietFacts
  <2>. QED BY <2>1 DEF CountInv
<1>2. CASE InsertFile
  <2>1. ASSUME NEW g \in Files PROVE Counted(work', g)
    <3>1. CASE g = session.file
      <4>1. VersionsFrom(db, g) = {}
        BY <1>2, <3>1, InsertFileFacts DEF TxInv, FilesAllOrNothing, VersionsFrom
      <4>2. VersionsFrom(work', g) = {}
        BY <1>2, <4>1, InsertFileFacts DEF VersionsFrom
      <4>3. work'.ingestion_files[g] = NewFileRow("PROCESSING")
        BY <1>2, <3>1, InsertFileFacts
      <4>. QED BY <4>2, <4>3, CountedOfNew
    <3>2. CASE g # session.file
      <4>1. /\ work'.ingestion_files[g] = db.ingestion_files[g]
            /\ work'.load_versions = db.load_versions
        BY <1>2, <3>2, InsertFileFacts
      <4>. QED BY <4>1, CountedOfSame DEF CountInv
    <3>. QED BY <3>1, <3>2
  <2>2. db' = db
    BY <1>2, InsertFileFacts
  <2>. QED BY <2>1, <2>2 DEF CountInv
<1>3. CASE PersistNext
  <2> DEFINE f == session.file
             s == Lines[f][session.next]
  <2>1. /\ f \in Files
        /\ s \in Snapshots
        /\ work \in Database
        /\ Pointed(work)
        /\ work' = PersistSnapshot(work, f, s)
        /\ db' = db
    BY <1>3, NextLineType DEF PersistNext, TypeInv, TypeOK
  <2> HIDE DEF f, s
  <2>2. ASSUME NEW g \in Files PROVE Counted(work', g)
    <3>1. CASE g = f
      BY <2>1, <3>1, PersistCounts DEF CountInv
    <3>2. CASE g # f
      BY <2>1, <3>2, PersistKeepsCounts DEF CountInv
    <3>. QED BY <3>1, <3>2
  <2>. QED BY <2>1, <2>2 DEF CountInv
<1>4. CASE Commit
  <2>1. ASSUME NEW g \in Files PROVE Counted(db', g)
    <3>1. /\ db'.load_versions = work.load_versions
          /\ db'.ingestion_files[g].versions_created = work.ingestion_files[g].versions_created
          /\ db'.ingestion_files[g].projections_updated
               = work.ingestion_files[g].projections_updated
          /\ db'.ingestion_files[g].warnings_count = work.ingestion_files[g].warnings_count
      BY <1>4, CommitFacts
    <3>. QED BY <3>1, CountedOfSame DEF CountInv
  <2>2. work' = db'
    BY <1>4, CommitFacts
  <2>. QED BY <2>1, <2>2 DEF CountInv
<1>5. CASE RecordFailure
  <2>1. ASSUME NEW g \in Files PROVE Counted(db', g)
    <3>1. db'.load_versions = db.load_versions
      BY <1>5, RecordFailureFacts
    <3>2. CASE db'.ingestion_files[g] = db.ingestion_files[g]
      BY <3>1, <3>2, CountedOfSame DEF CountInv
    <3>3. CASE db'.ingestion_files[g] # db.ingestion_files[g]
      <4>1. /\ g = session.file
            /\ db.ingestion_files[g].status = "ABSENT"
            /\ db'.ingestion_files[g] = NewFileRow("FAILED")
        BY <1>5, <3>3, RecordFailureFacts DEF FailureRow
      <4>2. VersionsFrom(db', g) = {}
        BY <1>5, <4>1, RecordFailureFacts DEF TxInv, FilesAllOrNothing, VersionsFrom
      <4>. QED BY <4>1, <4>2, CountedOfNew
    <3>. QED BY <3>2, <3>3
  <2>2. work' = db'
    BY <1>5, RecordFailureFacts
  <2>. QED BY <2>1, <2>2 DEF CountInv
<1>6. CASE ApplyRebuild
  <2>1. /\ db'.load_versions = db.load_versions
        /\ db'.ingestion_files = db.ingestion_files
        /\ work' = db'
    BY <1>6, ApplyRebuildFacts DEF Rebuilt
  <2>2. ASSUME NEW g \in Files PROVE Counted(db', g)
    BY <2>1, CountedOfSame DEF CountInv
  <2>. QED BY <2>1, <2>2 DEF CountInv
<1>. QED BY <1>1, <1>2, <1>3, <1>4, <1>5, <1>6, Steps

\* The counters a file reports are the versions it owns, each of which became
\* current or was counted as an anomaly, whatever the file repeats.
THEOREM CountersCorrect == Spec => []CountersMatchFacts
<1>1. Init => CountInv
  BY CountInit
<1>2. Inv /\ CountInv /\ [Next]_vars => CountInv'
  BY CountStep
<1>3. CountInv => CountersMatchFacts
  BY DEF CountInv, Counted, CountersMatchFacts
<1>. QED BY <1>1, <1>2, <1>3, InvCorrect, PTL DEF Spec

-----------------------------------------------------------------------------
(* How a transaction moves the loads it found. *)

\* The place of a status in the lifecycle is a number.
LEMMA StatusType ==
  ASSUME NEW s \in Snapshots
  PROVE  StatusOrder[StatusOf[s]] \in Nat
<1>1. StatusOf[s] \in Statuses
  BY SnapshotsAssumption
<1>. QED BY <1>1 DEF Statuses, StatusOrder

\* Load l still shows what the database shows, or a version that outranks it;
\* if that is a step back in the lifecycle, the file has a warning.
Moved(l) ==
  LET was == db.loads[l]
      is == work.loads[l]
  IN  /\ is # None
      /\ \/ is.current = was.current
         \/ KeyLess(Timing(db, was.current), Timing(work, is.current))
      /\ StatusOrder[StatusOf[is.current]] < StatusOrder[StatusOf[was.current]] =>
           work.ingestion_files[session.file].warnings_count > 0

MoveInv ==
  session.phase = "ingesting" =>
    \A l \in Loads : db.loads[l] # None => Moved(l)

\* A line moves a load to a version that outranks the old one, or leaves it;
\* a regression leaves a warning on the file.
LEMMA MoveByPersist ==
  ASSUME Inv, MoveInv, PersistNext, NEW l \in Loads, db.loads[l] # None
  PROVE  Moved(l)'
<1> DEFINE f == session.file
           s == Lines[f][session.next]
           was == db.loads[l].current
           is == work.loads[l].current
<1>1. /\ f \in Files
      /\ s \in Snapshots
      /\ work \in Database
      /\ work' \in Database
      /\ db \in Database
      /\ Pointed(work)
      /\ Pointed(db)
      /\ work' = PersistSnapshot(work, f, s)
      /\ db' = db
      /\ session'.file = f
      /\ session.phase = "ingesting"
  BY NextLineType, PersistKeepsPointed DEF PersistNext, Inv, TypeInv, TypeOK
<1>2. Moved(l)
  BY <1>1 DEF MoveInv
<1>3. /\ work.loads[l] # None
      /\ is \in Stored(work) /\ is \in Snapshots
      /\ was \in Stored(db) /\ was \in Snapshots
      /\ Timing(work, is) \in VersionTiming
      /\ Timing(db, was) \in VersionTiming
  BY <1>1, <1>2, StoredTiming DEF Moved, Pointed
<1>4. /\ \/ is = was
         \/ KeyLess(Timing(db, was), Timing(work, is))
      /\ StatusOrder[StatusOf[is]] < StatusOrder[StatusOf[was]] =>
           work.ingestion_files[f].warnings_count > 0
  BY <1>2 DEF Moved
<1>5. Timing(db, was) = Timing(db, was)' /\ Timing(work', is) = Timing(work, is)
  <2>1. Timing(work', is) = Timing(work, is)
    BY <1>1, <1>3, PersistKeepsRows
  <2>. QED BY <1>1, <2>1 DEF Timing
<1>6. Timing(work, was) = Timing(db, was) /\ was \in Stored(work)
  <2>1. work.load_versions[was] = db.load_versions[was]
    BY <1>1, <1>3 DEF Inv, TxInv, Shape
  <2>. QED BY <1>3, <2>1 DEF Timing, Stored
<1> HIDE DEF f, s, was, is
<1>7. work'.ingestion_files[f].warnings_count >= work.ingestion_files[f].warnings_count
      /\ work.ingestion_files[f].warnings_count \in Nat
      /\ work'.ingestion_files[f].warnings_count \in Nat
  <2>1. work.ingestion_files[f] \in FileRow /\ work'.ingestion_files[f] \in FileRow
    BY <1>1 DEF Database
  <2>2. CASE s \in Stored(work)
    <3>1. work'.ingestion_files = work.ingestion_files
      BY <1>1, <2>2, PersistKnown
    <3>. QED BY <2>1, <3>1 DEF FileRow
  <2>3. CASE s \notin Stored(work)
    <3>1. work'.ingestion_files[f]
            = CountVersion(work.ingestion_files[f], Decision(work, f, s))
      BY <1>1, <2>3, PersistNew DEF Inserted
    <3>2. \/ Decision(work, f, s).becomes_current
          \/ Decision(work, f, s).anomaly_code # None
      BY <1>1, AnomalyFacts
    <3>3. work'.ingestion_files[f].warnings_count >= work.ingestion_files[f].warnings_count
      BY <2>1, <3>1, <3>2, CountVersionFacts
    <3>. QED BY <2>1, <3>3 DEF FileRow
  <2>. QED BY <2>2, <2>3
<1>8. CASE work'.loads[l] = work.loads[l]
  <2>1. work'.loads[l] # None /\ work'.loads[l].current = is
    BY <1>3, <1>8 DEF is
  <2>2. \/ work'.loads[l].current = db'.loads[l].current
        \/ KeyLess(Timing(db', db'.loads[l].current), Timing(work', work'.loads[l].current))
    BY <1>1, <1>4, <1>5, <2>1 DEF was
  <2>3. StatusOrder[StatusOf[work'.loads[l].current]]
          < StatusOrder[StatusOf[db'.loads[l].current]] =>
             work'.ingestion_files[session'.file].warnings_count > 0
    BY <1>1, <1>4, <1>7, <2>1 DEF was
  <2>. QED BY <2>1, <2>2, <2>3 DEF Moved
<1>9. CASE /\ s \notin Stored(work)
           /\ l = LoadOf[s]
           /\ Decision(work, f, s).becomes_current
           /\ work'.loads[l] = Projection(s, SyncAt[f])
  <2>1. work'.loads[l].current = s /\ work'.loads[l] # None
    <3>1. Projection(s, SyncAt[f]) \in LoadRow
      BY <1>1, FilesAssumption DEF Projection, LoadRow
    <3>. QED BY <1>9, <3>1, NoneAssumption DEF Projection
  <2>2. Timing(work', s) = FileTiming(f, s) /\ FileTiming(f, s) \in VersionTiming
    BY <1>1, <1>9, PersistNewRow, TimingType
  <2>3. KeyLess(Timing(work, is), FileTiming(f, s))
    BY <1>1, <1>3, <1>9, DecisionFacts DEF is
  <2>4. KeyLess(Timing(db, was), FileTiming(f, s))
    BY <1>3, <1>4, <1>6, <2>2, <2>3, KeyLessIsAnOrder
  <2>5. KeyLess(Timing(db', db'.loads[l].current), Timing(work', work'.loads[l].current))
    BY <1>1, <2>1, <2>2, <2>4 DEF was
  <2>6. ASSUME StatusOrder[StatusOf[s]] < StatusOrder[StatusOf[was]]
        PROVE  work'.ingestion_files[f].warnings_count > 0
    <3>1. CASE StatusOrder[StatusOf[is]] < StatusOrder[StatusOf[was]]
      BY <1>4, <1>7, <3>1
    <3>2. CASE ~(StatusOrder[StatusOf[is]] < StatusOrder[StatusOf[was]])
      <4>1. StatusOrder[StatusOf[s]] < StatusOrder[StatusOf[is]]
        BY <1>1, <1>3, <2>6, <3>2, StatusType
      <4>2. Decision(work, f, s).anomaly_code # None
        BY <1>1, <1>3, <1>9, <4>1, AnomalyFacts DEF is
      <4>3. work'.ingestion_files[f]
              = CountVersion(work.ingestion_files[f], Decision(work, f, s))
        BY <1>1, <1>9, PersistNew DEF Inserted
      <4>4. work.ingestion_files[f] \in FileRow
        BY <1>1 DEF Database
      <4>5. work'.ingestion_files[f].warnings_count
              = work.ingestion_files[f].warnings_count + 1
        BY <4>2, <4>3, <4>4, CountVersionFacts
      <4>. QED BY <1>7, <4>5
    <3>. QED BY <3>1, <3>2
  <2>7. StatusOrder[StatusOf[work'.loads[l].current]]
          < StatusOrder[StatusOf[db'.loads[l].current]] =>
             work'.ingestion_files[session'.file].warnings_count > 0
    BY <1>1, <2>1, <2>6 DEF was
  <2>. QED BY <2>1, <2>5, <2>7 DEF Moved
<1>. QED BY <1>1, <1>8, <1>9, PersistLoads

\* No transaction is open at first.
LEMMA MoveInit == Init => MoveInv
BY DEF Init, Idle, MoveInv

\* Every step keeps what an open transaction may have done to the loads.
LEMMA MoveStep == Inv /\ MoveInv /\ [Next]_vars => MoveInv'
<1> SUFFICES ASSUME Inv, MoveInv, [Next]_vars PROVE MoveInv'
  OBVIOUS
<1> USE DEF Inv
<1>1. CASE Quiet
  <2>1. db' = db
    BY <1>1, QuietFacts
  <2>2. CASE work' = work /\ session' = session
    <3>1. \A l \in Loads : Moved(l)' <=> Moved(l)
      BY <2>1, <2>2 DEF Moved, Timing
    <3>. QED BY <2>1, <2>2, <3>1 DEF MoveInv
  <2>. QED BY <1>1, <2>2, QuietFacts DEF MoveInv
<1>2. CASE InsertFile
  <2>1. db' = db /\ work'.loads = db.loads
    BY <1>2, InsertFileFacts
  <2>2. ASSUME NEW l \in Loads, db.loads[l] # None PROVE Moved(l)'
    <3>1. db.loads[l].current \in Snapshots
      BY <2>2 DEF TypeInv, Pointed, Stored
    <3>2. ~(StatusOrder[StatusOf[db.loads[l].current]]
              < StatusOrder[StatusOf[db.loads[l].current]])
      BY <3>1, StatusType
    <3>. QED BY <2>1, <2>2, <3>2 DEF Moved
  <2>. QED BY <2>1, <2>2 DEF MoveInv
<1>3. CASE PersistNext
  <2>1. db' = db
    BY <1>3 DEF PersistNext
  <2>. QED BY <1>3, <2>1, MoveByPersist DEF MoveInv
<1>4. CASE Commit
  BY <1>4, CommitFacts DEF MoveInv
<1>5. CASE RecordFailure
  BY <1>5, RecordFailureFacts DEF MoveInv
<1>6. CASE ApplyRebuild
  BY <1>6, ApplyRebuildFacts DEF MoveInv
<1>. QED BY <1>1, <1>2, <1>3, <1>4, <1>5, <1>6, Steps

\* The columns of a projected load are those of its current version.
LEMMA ColumnsAreCurrent ==
  ASSUME NEW D, ShowsCurrentIn(D), NEW l \in Loads, D.loads[l] # None
  PROVE  D.loads[l].columns = D.loads[l].current
<1>1. D.loads[l] = Projection(D.loads[l].current, ObservedAt(D, D.loads[l].current))
  BY DEF ShowsCurrentIn
<1>2. \A s, at : Projection(s, at).columns = s
  BY DEF Projection
<1>. QED BY <1>1, <1>2

\* A commit that moves a load back in its lifecycle has a warning on the file.
LEMMA RegressionStep ==
  ASSUME Inv, MoveInv, [Next]_vars, NEW l \in Loads,
         session.phase = "ingesting", db.loads[l] # None,
         ShownStatus(db', l) < ShownStatus(db, l)
  PROVE  db'.ingestion_files[session.file].warnings_count > 0
<1> USE DEF Inv
<1>0. ShownStatus(db, l) = StatusOrder[StatusOf[db.loads[l].current]]
      /\ ShownStatus(db, l) \in Nat
  <2>1. db.loads[l].columns = db.loads[l].current
    BY ColumnsAreCurrent DEF RowsInv, Rules
  <2>2. db.loads[l].current \in Snapshots
    BY DEF TypeInv, Pointed, Stored
  <2>. QED BY <2>1, <2>2, StatusType DEF ShownStatus
<1>1. CASE db' = db
  BY <1>0, <1>1
<1>2. CASE Commit
  <2>1. Moved(l)
    BY DEF MoveInv
  <2>2. work.loads[l].columns = work.loads[l].current
    BY <2>1, ColumnsAreCurrent DEF RowsInv, Rules, Moved
  <2>3. ShownStatus(db', l) = StatusOrder[StatusOf[work.loads[l].current]]
    BY <1>2, <2>2, CommitFacts DEF ShownStatus
  <2>. QED BY <1>0, <1>2, <2>1, <2>3, CommitFacts DEF Moved
<1>3. CASE RecordFailure \/ ApplyRebuild
  BY <1>3 DEF RecordFailure, ApplyRebuild
<1>4. Quiet \/ InsertFile \/ PersistNext => db' = db
  BY QuietFacts DEF InsertFile, PersistNext
<1>. QED BY <1>1, <1>2, <1>3, <1>4, Steps

\* What a transaction may do to the loads holds throughout.
LEMMA MoveCorrect == Spec => [](Inv /\ MoveInv)
<1>1. Inv /\ MoveInv /\ [Next]_vars => MoveInv'
  BY MoveStep
<1>. QED BY <1>1, MoveInit, InvCorrect, PTL DEF Spec

\* No file moves a load back in its lifecycle without a warning on its row,
\* also when several of its snapshots are about the same load.
THEOREM RegressionsCorrect == Spec => RegressionsAreRecorded
<1>1. Inv /\ MoveInv /\ [Next]_vars =>
        [\A l \in Loads :
           /\ session.phase = "ingesting"
           /\ db.loads[l] # None
           /\ ShownStatus(db', l) < ShownStatus(db, l)
           => db'.ingestion_files[session.file].warnings_count > 0]_vars
  BY RegressionStep
<1>. QED BY <1>1, MoveCorrect, PTL DEF Spec, RegressionsAreRecorded

-----------------------------------------------------------------------------
(* The refinement. *)

\* What the refinement mapping makes of a database.
Visible(D) == {FactOf(D, s) : s \in Stored(D)}

Shown(D) ==
  [l \in Loads |-> IF D.loads[l] = None THEN None
                   ELSE FactOf(D, D.loads[l].current)]

\* A stored version is seen from outside as its snapshot and the file it came with.
LEMMA FactOfFields ==
  ASSUME NEW D, NEW s
  PROVE  /\ FactOf(D, s).snapshot = s
         /\ FactOf(D, s).file = D.load_versions[s].file
BY DEF FactOf

\* The ranking of facts is that of the stored versions.
LEMMA RankOfFacts ==
  ASSUME NEW D, NEW s, NEW E, NEW t
  PROVE  FactOutranks(FactOf(E, t), FactOf(D, s)) <=> KeyLess(Timing(D, s), Timing(E, t))
BY FactOfFields DEF FactOutranks, Timing

\* Rows that obey LatestIn are a right choice among what is visible.
LEMMA ShownIsRight ==
  ASSUME NEW D \in Database, LatestIn(D)
  PROVE  View!Selects(Shown(D), Visible(D))
<1> SUFFICES ASSUME NEW l \in Loads
             PROVE  LET about == {x \in Visible(D) : FactLoad(x) = l}
                    IN  IF about = {} THEN Shown(D)[l] = None
                        ELSE /\ Shown(D)[l] \in about
                             /\ \A x \in about : ~FactOutranks(x, Shown(D)[l])
  BY DEF View!Selects
<1> DEFINE about == {x \in Visible(D) : FactLoad(x) = l}
<1>1. about = {FactOf(D, s) : s \in VersionsOf(D, l)}
  BY FactOfFields DEF Visible, FactLoad, VersionsOf
<1> HIDE DEF about
<1>2. CASE VersionsOf(D, l) = {}
  BY <1>1, <1>2 DEF LatestIn, Shown, about
<1>3. CASE VersionsOf(D, l) # {}
  <2>1. /\ D.loads[l] # None
        /\ D.loads[l].current \in VersionsOf(D, l)
        /\ \A s \in VersionsOf(D, l) : ~KeyLess(Timing(D, D.loads[l].current), Timing(D, s))
    BY <1>3 DEF LatestIn
  <2>2. Shown(D)[l] = FactOf(D, D.loads[l].current)
    BY <2>1 DEF Shown
  <2>3. \A x \in about : ~FactOutranks(x, Shown(D)[l])
    BY <1>1, <2>1, <2>2, RankOfFacts
  <2>4. Shown(D)[l] \in about
    BY <1>1, <2>1, <2>2
  <2>. QED BY <2>3, <2>4 DEF about
<1>. QED BY <1>2, <1>3

\* An empty database shows nothing: the initial states map to initial states.
LEMMA RefineInit == Init => View!Init
<1> SUFFICES ASSUME Init PROVE View!Init
  OBVIOUS
<1>1. db = EmptyDatabase
  BY DEF Init
<1>2. Visible(db) = {} /\ Shown(db) = [l \in Loads |-> None]
  BY <1>1, EmptyFacts DEF Visible, Shown
<1>. QED BY <1>2 DEF View!Init, Visible, Shown

\* The commit of a file publishes its new facts together.
LEMMA RefineCommit ==
  ASSUME Inv, MoveInv, Commit
  PROVE  /\ \A x \in Visible(db) : FactFile(x) # session.file
         /\ Visible(db) \subseteq Visible(db')
         /\ Visible(db') \ Visible(db)
              \subseteq {x \in [snapshot: Snapshots, file: Files] : FactFile(x) = session.file}
         /\ View!Selects(Shown(db'), Visible(db'))
         /\ \A l \in Loads :
              \/ Shown(db')[l] = Shown(db)[l]
              \/ Shown(db)[l] = None
              \/ FactOutranks(Shown(db')[l], Shown(db)[l])
<1> DEFINE f == session.file
<1>1. /\ Shape(f, session.next)
      /\ session.phase = "ingesting"
      /\ f \in Files
      /\ db \in Database
      /\ work \in Database
      /\ db' \in Database
      /\ db'.load_versions = work.load_versions
      /\ db'.loads = work.loads
      /\ Stored(db') = Stored(work)
  BY CommitFacts DEF Commit, Inv, TypeInv, TypeOK, TxInv
<1> HIDE DEF f
<1>2. /\ \A s \in Stored(db) : s \in Stored(db') /\ FactOf(db', s) = FactOf(db, s)
      /\ \A s \in Stored(db') \ Stored(db) : db'.load_versions[s].file = f
  BY <1>1 DEF Shape, Stored, FactOf
<1>3. \A x \in Visible(db) : FactFile(x) # f
  <2>1. \A s \in Stored(db) : db.load_versions[s].file # f
    BY <1>1 DEF Inv, TxInv, FilesAllOrNothing, Shape
  <2>. QED BY <2>1, FactOfFields DEF Visible, FactFile
<1>4. Visible(db) \subseteq Visible(db')
  BY <1>2 DEF Visible
<1>5. ASSUME NEW x \in Visible(db') \ Visible(db)
      PROVE  x \in [snapshot: Snapshots, file: Files] /\ FactFile(x) = f
  <2>1. PICK s \in Stored(db') : x = FactOf(db', s)
    BY DEF Visible
  <2>2. s \notin Stored(db)
    BY <1>2, <1>5, <2>1 DEF Visible
  <2>3. db'.load_versions[s].file = f /\ s \in Snapshots
    BY <1>2, <2>2 DEF Stored
  <2>4. x = [snapshot |-> s, file |-> f]
    BY <2>1, <2>3 DEF FactOf
  <2>. QED BY <1>1, <2>3, <2>4 DEF FactFile
<1>6. View!Selects(Shown(db'), Visible(db'))
  <2>1. Rules(db')
    BY <1>1, RulesOfSame DEF Inv, RowsInv
  <2>. QED BY <1>1, <2>1, ShownIsRight DEF Rules
<1>7. ASSUME NEW l \in Loads, Shown(db)[l] # None
      PROVE  \/ Shown(db')[l] = Shown(db)[l]
             \/ FactOutranks(Shown(db')[l], Shown(db)[l])
  <2>1. db.loads[l] # None
    BY <1>7 DEF Shown
  <2>2. Moved(l)
    BY <1>1, <2>1 DEF MoveInv
  <2>3. /\ Shown(db)[l] = FactOf(db, db.loads[l].current)
        /\ Shown(db')[l] = FactOf(db', db'.loads[l].current)
    BY <1>1, <2>1, <2>2 DEF Shown, Moved
  <2>4. CASE work.loads[l].current = db.loads[l].current
    <3>1. db.loads[l].current \in Stored(db)
      BY <2>1 DEF Inv, TypeInv, Pointed
    <3>. QED BY <1>1, <1>2, <2>3, <2>4, <3>1
  <2>5. CASE KeyLess(Timing(db, db.loads[l].current), Timing(work, work.loads[l].current))
    <3>1. Timing(work, work.loads[l].current) = Timing(db', db'.loads[l].current)
      BY <1>1 DEF Timing
    <3>. QED BY <2>3, <2>5, <3>1, RankOfFacts
  <2>. QED BY <2>2, <2>4, <2>5 DEF Moved
<1>. QED BY <1>3, <1>4, <1>5, <1>6, <1>7 DEF f

\* Steps that keep versions and loads are stutters of the view.
LEMMA SameView ==
  ASSUME NEW D, NEW E, E.load_versions = D.load_versions
  PROVE  /\ Visible(E) = Visible(D)
         /\ E.loads = D.loads => Shown(E) = Shown(D)
<1>1. Stored(E) = Stored(D) /\ \A s : FactOf(E, s) = FactOf(D, s)
  BY DEF Stored, FactOf
<1>. QED BY <1>1 DEF Visible, Shown

\* Every step publishes one whole file, chooses again among equals, or shows nothing new.
LEMMA RefineStep == Inv /\ MoveInv /\ [Next]_vars => [View!Next]_(View!vars)
<1> SUFFICES ASSUME Inv, MoveInv, [Next]_vars PROVE [View!Next]_(View!vars)
  OBVIOUS
<1>1. CASE UNCHANGED <<Visible(db), Shown(db)>>
  BY <1>1 DEF View!vars, Visible, Shown
<1>2. CASE db' = db
  <2>1. UNCHANGED <<Visible(db), Shown(db)>>
    BY <1>2, SameView
  <2>. QED BY <1>1, <2>1
<1>3. CASE RecordFailure
  <2>1. db'.load_versions = db.load_versions /\ db'.loads = db.loads
    BY <1>3, RecordFailureFacts DEF Inv
  <2>2. UNCHANGED <<Visible(db), Shown(db)>>
    BY <2>1, SameView
  <2>. QED BY <1>1, <2>2
<1>4. CASE ApplyRebuild
  <2>1. db' \in Database /\ db'.load_versions = db.load_versions
    BY <1>4, ApplyRebuildFacts DEF Inv, Rebuilt
  <2>2. Visible(db') = Visible(db)
    BY <2>1, SameView
  <2>3. Rules(db')
    BY <1>4, RebuildObeysRules DEF Inv, RowsInv
  <2>4. View!Selects(Shown(db'), Visible(db))
    BY <2>1, <2>2, <2>3, ShownIsRight DEF Rules
  <2>5. View!Reselect
    BY <2>2, <2>4 DEF View!Reselect, Visible, Shown
  <2>. QED BY <2>5 DEF View!Next
<1>5. CASE Commit
  <2>1. PICK b \in Files : b = session.file
    BY <1>5, CommitFacts DEF Inv
  <2>2. View!Publish(b)
    BY <1>5, <2>1, RefineCommit DEF View!Publish, Visible, Shown
  <2>3. View!Next
    BY <2>2 DEF View!Next
  <2>. QED BY <2>3
<1>6. Quiet \/ InsertFile \/ PersistNext => db' = db
  BY QuietFacts DEF InsertFile, PersistNext, Inv
<1>. QED BY <1>2, <1>3, <1>4, <1>5, <1>6, Steps

\* Every behaviour of the coordinators and the rebuild is a behaviour of
\* CurrentView: a half-ingested file is never visible, nothing visible is
\* withdrawn, and a load shows a fact that no visible fact outranks.
THEOREM Refinement == Spec => ImplementsCurrentView
<1>1. Init => View!Init
  BY RefineInit
<1>2. Inv /\ MoveInv /\ [Next]_vars => [View!Next]_(View!vars)
  BY RefineStep
<1>. QED BY <1>1, <1>2, MoveCorrect, PTL DEF Spec, ImplementsCurrentView, View!Spec
=============================================================================
