------------------------- MODULE SnapshotIngestion -------------------------
(***************************************************************************)
(* One tenant's ingestion of complete-snapshot sources (FreightFlow and    *)
(* BrokerOS) and the rebuild of its projections, run by one session.       *)
(*                                                                         *)
(*   ingestion/coordinator.py  FreightFlowIngestionCoordinator and         *)
(*                             BrokerOSIngestionCoordinator                *)
(*   ingestion/rebuild.py      rebuild_current_projections                 *)
(*                                                                         *)
(* A file and a snapshot are identified by their SHA-256, so two files     *)
(* that carry the same load object carry the same element of Snapshots.    *)
(* The facts a snapshot states (equipment, rates, weight, stops, ...) are  *)
(* the snapshot itself; the party names it mentions are kept apart, since  *)
(* they are written to rows that several loads share.                      *)
(***************************************************************************)
EXTENDS Precedence, Sequences, FiniteSets

CONSTANTS
  Files,        \* contents a source may deliver, by checksum
  Malformed,    \* the files the adapter cannot parse or normalize
  SyncAt,       \* the sync time a file states; also its observed_at
  Lines,        \* the load snapshots of a file, in file order
  Snapshots,    \* load objects, by snapshot hash
  LoadOf,       \* the load a snapshot describes
  ModifiedAt,   \* its source_modified_at
  StatusOf,     \* its lifecycle status
  PartyFacts,   \* what it says of each customer and carrier, or None
  Loads, Parties, Names, Contacts

Facts == [name: Names, contact: Contacts]

ASSUME FilesAssumption ==
  /\ Malformed \subseteq Files
  /\ SyncAt \in [Files -> Nat]
  /\ Lines \in [Files -> Seq(Snapshots)]

ASSUME SnapshotsAssumption ==
  /\ LoadOf \in [Snapshots -> Loads]
  /\ ModifiedAt \in [Snapshots -> Nat]
  /\ StatusOf \in [Snapshots -> Statuses]
  /\ PartyFacts \in [Snapshots -> [Parties -> Facts \cup {None}]]

VARIABLES
  db,        \* the tenant's committed rows
  work,      \* the rows as the open transaction sees them
  session,   \* the coordinator call or the rebuild that is running
  scan       \* the rebuild's pass over the version rows

vars == <<db, work, session, scan>>

-----------------------------------------------------------------------------
(* Rows. *)

\* ingestion_files, unique by (tenant, sha256).
FileRow ==
  [status: {"ABSENT", "PROCESSING", "COMPLETED", "FAILED"},
   versions_created: Nat, projections_updated: Nat, warnings_count: Nat]

\* load_versions, unique by (tenant, load, snapshot_hash).
VersionRow == [file: Files, supersedes: Snapshots \cup {None}]

\* loads, with its stops: the version it points to, and the snapshots its
\* columns and its stop rows were copied from.
LoadRow ==
  [current: Snapshots, columns: Snapshots, stops: Snapshots, observed: Nat]

\* customers and carriers; contact stands for mc, dot, phone and home.
PartyRow ==
  [name: Names, contact: Contacts, first_observed: Nat, last_observed: Nat]

ASSUME NoneAssumption ==
  /\ None \notin Snapshots /\ None \notin Files /\ None \notin Facts
  /\ None \notin VersionRow /\ None \notin LoadRow /\ None \notin PartyRow
  /\ None \notin VersionTiming /\ None \notin Anomalies

Database ==
  [ingestion_files: [Files -> FileRow],
   load_versions: [Snapshots -> VersionRow \cup {None}],
   loads: [Loads -> LoadRow \cup {None}],
   parties: [Parties -> PartyRow \cup {None}]]

NewFileRow(status) ==
  [status |-> status, versions_created |-> 0, projections_updated |-> 0,
   warnings_count |-> 0]

EmptyDatabase ==
  [ingestion_files |-> [f \in Files |-> NewFileRow("ABSENT")],
   load_versions |-> [s \in Snapshots |-> None],
   loads |-> [l \in Loads |-> None],
   parties |-> [p \in Parties |-> None]]

Stored(D) == {s \in Snapshots : D.load_versions[s] # None}

FileTiming(f, s) ==
  [source_sync_at |-> SyncAt[f], source_modified_at |-> ModifiedAt[s],
   observed_at |-> SyncAt[f], status |-> StatusOf[s]]

\* rebuild._timing, and the current_timing of _becomes_current.
Timing(D, s) == FileTiming(D.load_versions[s].file, s)

CurrentTiming(D, l) ==
  IF D.loads[l] = None THEN None ELSE Timing(D, D.loads[l].current)

-----------------------------------------------------------------------------
(* One iteration of the coordinator's loop over a file's snapshots. *)

\* _customer and _carrier: the first mention creates the row; a later call
\* overwrites the name and the last observation, whatever their order.
UpsertParties(parties, s, at) ==
  [p \in Parties |->
     IF PartyFacts[s][p] = None THEN parties[p]
     ELSE IF parties[p] = None
          THEN [name |-> PartyFacts[s][p].name,
                contact |-> PartyFacts[s][p].contact,
                first_observed |-> at, last_observed |-> at]
          ELSE [parties[p] EXCEPT !.name = PartyFacts[s][p].name,
                                  !.last_observed = at]]

Decision(D, f, s) ==
  ChooseCurrentVersion(CurrentTiming(D, LoadOf[s]), FileTiming(f, s))

\* Faulty variant of NewVersion: an out-of-order version is not linked.
NewVersionUnlinked(D, f, s) ==
  [file |-> f,
   supersedes |-> IF D.loads[LoadOf[s]] = None \/ ~Decision(D, f, s).becomes_current
                  THEN None ELSE D.loads[LoadOf[s]].current]

\* supersedes_id is the load's current version at the time of the insert.
NewVersion(D, f, s) ==
  [file |-> f,
   supersedes |-> IF D.loads[LoadOf[s]] = None
                  THEN None ELSE D.loads[LoadOf[s]].current]

Projection(s, at) ==
  [current |-> s, columns |-> s, stops |-> s, observed |-> at]

\* Faulty variant of CountVersion: only versions that became current count.
CountCurrentOnly(row, decision) ==
  IF decision.becomes_current
  THEN [row EXCEPT !.versions_created = @ + 1, !.projections_updated = @ + 1]
  ELSE [row EXCEPT !.warnings_count = @ + 1]

CountVersion(row, decision) ==
  [row EXCEPT !.versions_created = @ + 1,
              !.projections_updated =
                 IF decision.becomes_current THEN @ + 1 ELSE @,
              !.warnings_count =
                 IF decision.anomaly_code = None THEN @ ELSE @ + 1]

\* Faulty variant of InsertVersion: the stops are replaced before the
\* precedence decision.
InsertVersionStopsFirst(D, f, s) ==
  [D EXCEPT
     !.load_versions[s] = NewVersion(D, f, s),
     !.loads[LoadOf[s]] =
        IF Decision(D, f, s).becomes_current
        THEN Projection(s, SyncAt[f]) ELSE [@ EXCEPT !.stops = s],
     !.ingestion_files[f] = CountVersion(@, Decision(D, f, s))]

InsertVersion(D, f, s) ==
  [D EXCEPT
     !.load_versions[s] = NewVersion(D, f, s),
     !.loads[LoadOf[s]] =
        IF Decision(D, f, s).becomes_current
        THEN Projection(s, SyncAt[f]) ELSE @,
     !.ingestion_files[f] = CountVersion(@, Decision(D, f, s))]

\* Faulty variant of PersistSnapshot: no look-up of the hash, so a version
\* that is sent again is written again.
PersistAgain(D, f, s) ==
  InsertVersion([D EXCEPT !.parties = UpsertParties(@, s, SyncAt[f])], f, s)

\* The whole loop body.  A snapshot whose hash the load already has is
\* skipped, after its customer and carrier were upserted.
PersistSnapshot(D, f, s) ==
  LET D1 == [D EXCEPT !.parties = UpsertParties(@, s, SyncAt[f])]
  IN  IF s \in Stored(D1) THEN D1 ELSE InsertVersion(D1, f, s)

-----------------------------------------------------------------------------
(* The session: one coordinator call, or one rebuild, at a time. *)

Phases == {"idle", "opened", "ingesting", "failing", "rebuilding"}

Idle == [phase |-> "idle", file |-> None, next |-> 0]

NoScan == [pending |-> {}, chosen |-> [l \in Loads |-> None]]

Init ==
  /\ db = EmptyDatabase
  /\ work = EmptyDatabase
  /\ session = Idle
  /\ scan = NoScan

\* ingest: the command is given a file; any file, in any order, any number
\* of times, also one that was ingested or failed before.
OpenFile(f) ==
  /\ session.phase = "idle"
  /\ session' = [phase |-> "opened", file |-> f, next |-> 1]
  /\ UNCHANGED <<db, work, scan>>

\* A completed row with this checksum: the call returns its report.
ReturnNoOp ==
  /\ session.phase = "opened"
  /\ db.ingestion_files[session.file].status = "COMPLETED"
  /\ session' = Idle
  /\ UNCHANGED <<db, work, scan>>

\* The adapter raises, before any row of this file was written.
RejectMalformed ==
  /\ session.phase = "opened"
  /\ session.file \in Malformed
  /\ session' = [session EXCEPT !.phase = "failing"]
  /\ UNCHANGED <<db, work, scan>>

\* A FAILED row does not stop the call early, but its checksum is taken:
\* the insert violates the unique constraint and the transaction fails.
RefuseFailedChecksum ==
  /\ session.phase = "opened"
  /\ session.file \notin Malformed
  /\ db.ingestion_files[session.file].status = "FAILED"
  /\ session' = [session EXCEPT !.phase = "failing"]
  /\ UNCHANGED <<db, work, scan>>

\* Faulty variant of InsertFile: a failed checksum may be tried again.
InsertFileAgain ==
  /\ session.phase = "opened"
  /\ session.file \notin Malformed
  /\ db.ingestion_files[session.file].status # "COMPLETED"
  /\ work' = [db EXCEPT !.ingestion_files[session.file] =
                          NewFileRow("PROCESSING")]
  /\ session' = [session EXCEPT !.phase = "ingesting"]
  /\ UNCHANGED <<db, scan>>

InsertFile ==
  /\ session.phase = "opened"
  /\ session.file \notin Malformed
  /\ db.ingestion_files[session.file].status = "ABSENT"
  /\ work' = [db EXCEPT !.ingestion_files[session.file] =
                          NewFileRow("PROCESSING")]
  /\ session' = [session EXCEPT !.phase = "ingesting"]
  /\ UNCHANGED <<db, scan>>

\* Faulty variant of PersistNext: every snapshot is committed by itself.
PersistNextAndCommit ==
  /\ session.phase = "ingesting"
  /\ session.next \in DOMAIN Lines[session.file]
  /\ work' = PersistSnapshot(work, session.file,
                             Lines[session.file][session.next])
  /\ db' = work'
  /\ session' = [session EXCEPT !.next = @ + 1]
  /\ UNCHANGED scan

PersistNext ==
  /\ session.phase = "ingesting"
  /\ session.next \in DOMAIN Lines[session.file]
  /\ work' = PersistSnapshot(work, session.file,
                             Lines[session.file][session.next])
  /\ session' = [session EXCEPT !.next = @ + 1]
  /\ UNCHANGED <<db, scan>>

\* Faulty variant of Completed: the status is left as it was inserted.
CompletedUnmarked(D, f) == D

Completed(D, f) == [D EXCEPT !.ingestion_files[f].status = "COMPLETED"]

Commit ==
  /\ session.phase = "ingesting"
  /\ session.next \notin DOMAIN Lines[session.file]
  /\ db' = Completed(work, session.file)
  /\ work' = Completed(work, session.file)
  /\ session' = Idle
  /\ UNCHANGED scan

\* Any exception inside the transaction: the handler rolls it back.
RollBack ==
  /\ session.phase = "ingesting"
  /\ work' = db
  /\ session' = [session EXCEPT !.phase = "failing"]
  /\ UNCHANGED <<db, scan>>

\* _record_failure, a transaction of its own: a row that exists is left as
\* it is, whatever its status.
RecordFailure ==
  /\ session.phase = "failing"
  /\ db' = [db EXCEPT !.ingestion_files[session.file] =
                        IF @.status = "ABSENT" THEN NewFileRow("FAILED") ELSE @]
  /\ work' = db'
  /\ session' = Idle
  /\ UNCHANGED scan

\* The process dies, or the database refuses every further statement: what
\* was not committed is gone and no failure is recorded.
Die ==
  /\ session.phase # "idle"
  /\ work' = db
  /\ session' = Idle
  /\ scan' = NoScan
  /\ UNCHANGED db

-----------------------------------------------------------------------------
(* rebuild_current_projections, in one transaction. *)

StartRebuild ==
  /\ session.phase = "idle"
  /\ session' = [Idle EXCEPT !.phase = "rebuilding"]
  /\ scan' = [NoScan EXCEPT !.pending = Stored(db)]
  /\ UNCHANGED <<db, work>>

\* Faulty variant of Winner: the last row read wins.
LastRowRead(kept, s) == s

\* The version that the pass keeps for a load after it has seen row s.
Winner(kept, s) ==
  IF kept = None THEN s
  ELSE IF ChooseCurrentVersion(Timing(db, kept), Timing(db, s)).becomes_current
       THEN s ELSE kept

\* The rows come in the order the database returns them: any order.
ScanVersion(s) ==
  /\ session.phase = "rebuilding"
  /\ s \in scan.pending
  /\ scan' = [pending |-> scan.pending \ {s},
              chosen |-> [scan.chosen EXCEPT ![LoadOf[s]] = Winner(@, s)]]
  /\ UNCHANGED <<db, work, session>>

ObservedAt(D, s) == SyncAt[D.load_versions[s].file]

Mentions(D, p) == {s \in Stored(D) : PartyFacts[s][p] # None}

\* The version a party row is rebuilt from, max(..., key=observed_at): one of
\* the last observed, and Python's max keeps the first row of a tie.
LatestMentions(D, p) ==
  {s \in Mentions(D, p) :
     \A t \in Mentions(D, p) : ObservedAt(D, t) <= ObservedAt(D, s)}

FirstObserved(D, p) ==
  CHOOSE at \in {ObservedAt(D, s) : s \in Mentions(D, p)} :
    \A s \in Mentions(D, p) : at <= ObservedAt(D, s)

RebuiltParties(D, source) ==
  [p \in Parties |->
     IF source[p] = None THEN D.parties[p]
     ELSE [name |-> PartyFacts[source[p]][p].name,
           contact |-> PartyFacts[source[p]][p].contact,
           first_observed |-> FirstObserved(D, p),
           last_observed |-> ObservedAt(D, source[p])]]

\* _apply_load_projection and _add_stops; a load without a version keeps
\* its row.
RebuiltLoads(D, chosen) ==
  [l \in Loads |->
     IF chosen[l] = None THEN D.loads[l]
     ELSE Projection(chosen[l], ObservedAt(D, chosen[l]))]

PartySources(D) ==
  {source \in [Parties -> Snapshots \cup {None}] :
     \A p \in Parties :
        IF Mentions(D, p) = {} THEN source[p] = None
        ELSE source[p] \in LatestMentions(D, p)}

ApplyRebuild ==
  /\ session.phase = "rebuilding"
  /\ scan.pending = {}
  /\ \E source \in PartySources(db) :
       db' = [db EXCEPT !.loads = RebuiltLoads(db, scan.chosen),
                        !.parties = RebuiltParties(db, source)]
  /\ work' = db'
  /\ session' = Idle
  /\ scan' = NoScan

-----------------------------------------------------------------------------
Next ==
  \/ \E f \in Files : OpenFile(f)
  \/ ReturnNoOp
  \/ RejectMalformed
  \/ RefuseFailedChecksum
  \/ InsertFile
  \/ PersistNext
  \/ Commit
  \/ RollBack
  \/ RecordFailure
  \/ Die
  \/ StartRebuild
  \/ \E s \in Snapshots : ScanVersion(s)
  \/ ApplyRebuild

Spec == Init /\ [][Next]_vars

-----------------------------------------------------------------------------
(* Properties of the committed rows. *)

\* Every row has its type, and no PROCESSING file row is ever committed: the
\* row exists only inside the transaction that will complete it.
TypeOK ==
  /\ db \in Database
  /\ \A f \in Files : db.ingestion_files[f].status # "PROCESSING"
  /\ work \in Database
  /\ session \in [phase: Phases, file: Files \cup {None}, next: Nat]
  /\ session.phase \in {"opened", "ingesting", "failing"} => session.file # None
  /\ scan \in [pending: SUBSET Snapshots, chosen: [Loads -> Snapshots \cup {None}]]

VersionsOf(D, l) == {s \in Stored(D) : LoadOf[s] = l}

LatestIn(D) ==
  \A l \in Loads :
    IF VersionsOf(D, l) = {} THEN D.loads[l] = None
    ELSE /\ D.loads[l] # None
         /\ D.loads[l].current \in VersionsOf(D, l)
         /\ \A s \in VersionsOf(D, l) :
              ~KeyLess(Timing(D, D.loads[l].current), Timing(D, s))

\* In whatever order files arrive, fail, are retried or are followed by a
\* rebuild, a load points to a version that no stored version of it outranks.
CurrentIsLatest == LatestIn(db)

ShowsCurrentIn(D) ==
  \A l \in Loads : D.loads[l] # None =>
    D.loads[l] = Projection(D.loads[l].current, ObservedAt(D, D.loads[l].current))

\* A load's columns, stops and observation time are those of the version it
\* points to: no late, skipped or rolled-back snapshot leaves a trace in them.
ProjectionShowsCurrent == ShowsCurrentIn(db)

\* A completed file has every one of its snapshots on record, whoever stored
\* it first; a file that failed or never ran owns no version at all.
FilesAllOrNothing ==
  \A f \in Files :
    IF db.ingestion_files[f].status = "COMPLETED"
    THEN \A i \in DOMAIN Lines[f] : Lines[f][i] \in Stored(db)
    ELSE \A s \in Stored(db) : db.load_versions[s].file # f

VersionsFrom(D, f) == {s \in Stored(D) : D.load_versions[s].file = f}

\* The counters a file reports are the facts it left behind: the versions it
\* owns, and of those each became current or was recorded as an anomaly.
CountersMatchFacts ==
  \A f \in Files :
    LET row == db.ingestion_files[f]
    IN  /\ row.versions_created = Cardinality(VersionsFrom(db, f))
        /\ row.projections_updated <= row.versions_created
        /\ row.versions_created <= row.projections_updated + row.warnings_count

Superseded(D, s) == D.load_versions[s].supersedes

SupersessionIn(D) ==
  /\ \A s \in Stored(D) : Superseded(D, s) # None =>
       /\ Superseded(D, s) \in Stored(D)
       /\ LoadOf[Superseded(D, s)] = LoadOf[s]
  /\ \A s, t \in Stored(D) :
       /\ LoadOf[s] = LoadOf[t]
       /\ Superseded(D, s) = None
       /\ Superseded(D, t) = None
       => s = t
  /\ \A S \in SUBSET Stored(D) :
       S # {} => \E s \in S : Superseded(D, s) \notin S

\* The supersedes_id links of a load form one tree: a single version replaces
\* nothing, every other leads back to it, and no chain of corrections loops.
SupersessionIsATree == SupersessionIn(db)

-----------------------------------------------------------------------------
(* Properties of the steps. *)

\* A stored version is never changed, re-owned or removed by a later file, a
\* failure or a rebuild.
FactsAreImmutable ==
  [][\A s \in Stored(db) : db'.load_versions[s] = db.load_versions[s]]_vars

\* Once a checksum has a row, its status and counters are final: a completed
\* file never runs again, and a failed one is not retried under its checksum.
VerdictsAreFinal ==
  [][\A f \in Files : db.ingestion_files[f].status # "ABSENT" =>
        db'.ingestion_files[f] = db.ingestion_files[f]]_vars

ShownStatus(D, l) == StatusOrder[StatusOf[D.loads[l].columns]]

\* If ingesting a file moves a load back in its lifecycle, the file's row
\* carries a warning.
RegressionsAreRecorded ==
  [][\A l \in Loads :
       /\ session.phase = "ingesting"
       /\ db.loads[l] # None
       /\ ShownStatus(db', l) < ShownStatus(db, l)
       => db'.ingestion_files[session.file].warnings_count > 0]_vars

\* No two snapshots of load l can tie in the precedence order.
NoTies(l) ==
  \A f, g \in Files : \A i \in DOMAIN Lines[f], j \in DOMAIN Lines[g] :
    LET s == Lines[f][i]
        t == Lines[g][j]
    IN  LoadOf[s] = l /\ LoadOf[t] = l /\ s # t =>
          KeyLess(FileTiming(f, s), FileTiming(g, t))
          \/ KeyLess(FileTiming(g, t), FileTiming(f, s))

\* A rebuild changes no load without ties, whatever order the database
\* returns the version rows in.
RebuildKeepsLoads ==
  [][\A l \in Loads : session.phase = "rebuilding" /\ NoTies(l)
                        => db'.loads[l] = db.loads[l]]_vars

\* No snapshot of load l is delivered by two files.
NoRepeats(l) ==
  \A f, g \in Files : \A i \in DOMAIN Lines[f], j \in DOMAIN Lines[g] :
    LoadOf[Lines[f][i]] = l /\ Lines[f][i] = Lines[g][j] => f = g

\* Every well-formed file that names load l has been completed.
Delivered(l) ==
  \A f \in Files \ Malformed :
    (\E i \in DOMAIN Lines[f] : LoadOf[Lines[f][i]] = l)
      => db.ingestion_files[f].status = "COMPLETED"

\* When every well-formed file about a load has been completed, the load
\* shows what no other snapshot of any of them outranks: the order in which
\* they were delivered has no influence.
DeliveryOrderIrrelevant ==
  \A l \in Loads : NoRepeats(l) /\ Delivered(l) =>
    \A f \in Files \ Malformed : \A i \in DOMAIN Lines[f] :
      LoadOf[Lines[f][i]] = l =>
        ~KeyLess(Timing(db, db.loads[l].columns), FileTiming(f, Lines[f][i]))

-----------------------------------------------------------------------------
(* Refinement: committed rows implement the current view. *)

FactOf(D, s) == [snapshot |-> s, file |-> D.load_versions[s].file]

FactLoad(x) == LoadOf[x.snapshot]

FactFile(x) == x.file

FactOutranks(x, y) ==
  KeyLess(FileTiming(y.file, y.snapshot), FileTiming(x.file, x.snapshot))

View == INSTANCE CurrentView WITH
  Batches <- Files,
  Facts <- [snapshot: Snapshots, file: Files],
  Subject <- FactLoad,
  Origin <- FactFile,
  Outranks <- FactOutranks,
  published <- {FactOf(db, s) : s \in Stored(db)},
  current <- [l \in Loads |-> IF db.loads[l] = None THEN None
                              ELSE FactOf(db, db.loads[l].current)]

\* Every behaviour of the coordinators and the rebuild is, to a reader of the
\* committed rows, a behaviour of the current view: a half-ingested file is
\* never visible and a load only ever moves to a higher-ranked fact, except
\* that a rebuild may choose again among ties.
ImplementsCurrentView == View!Spec
=============================================================================
