------------------------ MODULE ConcurrentIngestion ------------------------
(***************************************************************************)
(* Several commands of one tenant at once: ingest and rebuild-projections. *)
(* Neither ingestion/coordinator.py nor ingestion/rebuild.py takes a lock  *)
(* of its own: what keeps two transactions apart is PostgreSQL's READ      *)
(* COMMITTED isolation, the row locks its statements take and the unique   *)
(* constraints of db/models.py.                                            *)
(*                                                                         *)
(* An action is one SQL statement of a session, or two of which only the   *)
(* first can wait.  A session remembers each row as it first read it (the  *)
(* ORM's identity map) and its UPDATEs name only the columns it changed,   *)
(* so a row that another session changed in between is neither noticed nor *)
(* overwritten as a whole.                                                 *)
(*                                                                         *)
(* Locks.  A written row is locked until its transaction ends.  Inserting  *)
(* a version or a stop locks its load row FOR KEY SHARE through the        *)
(* foreign key, and since current_version_id is unique, the UPDATE that    *)
(* moves it needs the load row FOR UPDATE, which conflicts with the key    *)
(* share of another.  An INSERT of a key that another open transaction     *)
(* inserted waits for it.  A DELETE visits the rows committed when it      *)
(* began, waits for whoever else deletes one, and passes over those that   *)
(* are gone then; rows inserted since are not among them.                  *)
(*                                                                         *)
(* Files, snapshots and rows are those of SnapshotIngestion.  A party row  *)
(* is its last_observed_at: the names never change here.  What a load      *)
(* shows is its status; the other columns behave like it.  The stops of a  *)
(* load are one row: whose snapshot they are of and who inserted them.     *)
(* The counters and malformed files are left to SnapshotIngestion.         *)
(***************************************************************************)
EXTENDS Precedence, SequencesExt

CONSTANTS
  Sessions, Files, Snapshots, Loads, Parties,
  SyncAt, Lines, LoadOf, ModifiedAt, StatusOf,
  PartiesOf,    \* the customer, then the carrier if any, of a snapshot
  Unread,       \* a row the session has not read yet
  Deleted,      \* a row the session's transaction has deleted
  Rebuilders,   \* bound: sessions of which one may run rebuild-projections
  Beside        \* bound: files that may be ingested next to the rebuild

ASSUME ConcurrentAssumption ==
  /\ SyncAt \in [Files -> Nat]
  /\ Lines \in [Files -> Seq(Snapshots)]
  /\ LoadOf \in [Snapshots -> Loads]
  /\ ModifiedAt \in [Snapshots -> Nat]
  /\ StatusOf \in [Snapshots -> Statuses]
  /\ PartiesOf \in [Snapshots -> Seq(Parties)]
  /\ \A s \in Snapshots : PartiesOf[s] # <<>>
  /\ Rebuilders \subseteq Sessions
  /\ Beside \subseteq Files

ASSUME FiniteAssumption ==
  IsFiniteSet(Files) /\ IsFiniteSet(Loads) /\ IsFiniteSet(Parties)

VARIABLES
  db,       \* the committed rows
  call,     \* the statement each session is about to run
  known,    \* the rows a session remembers, as it last saw them
  mine,     \* the rows its open transaction has written
  rebuild   \* "none" yet, or run "alone" or "overlapping" another command

vars == <<db, call, known, mine, rebuild>>

-----------------------------------------------------------------------------
(* Rows. *)

Columns == {"current", "status", "observed"}

LoadRow == [current: Snapshots \cup {None}, status: Statuses, observed: Nat]

StopRow == [of: Snapshots, by: Files \cup {"rebuild"}]

VersionRow == [file: Files, supersedes: Snapshots \cup {None}]

Verdicts == {"ABSENT", "COMPLETED", "FAILED"}

Database ==
  [files: [Files -> Verdicts],
   versions: [Snapshots -> VersionRow \cup {None}],
   loads: [Loads -> LoadRow \cup {None}],
   stops: [Loads -> StopRow \cup {None}],
   parties: [Parties -> Nat \cup {None}]]

ASSUME NoneAssumption ==
  /\ None \notin Snapshots /\ None \notin Files /\ None \notin Nat
  /\ None \notin VersionRow /\ None \notin LoadRow /\ None \notin StopRow
  /\ None \notin VersionTiming
  /\ Unread # None /\ Unread \notin LoadRow /\ Unread \notin StopRow /\ Unread \notin Nat
  /\ Deleted # None /\ Deleted \notin VersionRow /\ Deleted \notin LoadRow
  /\ Deleted \notin StopRow /\ Deleted \notin Nat

NoRows ==
  [versions |-> [s \in Snapshots |-> None],
   loads |-> [l \in Loads |-> None],
   stops |-> [l \in Loads |-> None],
   parties |-> [c \in Parties |-> None]]

NothingKnown ==
  [loads |-> [l \in Loads |-> Unread], stops |-> [l \in Loads |-> Unread],
   parties |-> [c \in Parties |-> Unread]]

FileTiming(f, s) ==
  [source_sync_at |-> SyncAt[f], source_modified_at |-> ModifiedAt[s],
   observed_at |-> SyncAt[f], status |-> StatusOf[s]]

Stored(D) == {s \in Snapshots : D.versions[s] # None}

Projection(s, at) == [current |-> s, status |-> StatusOf[s], observed |-> at]

\* The projection of a stored version.
ProjectionOf(s) == Projection(s, SyncAt[db.versions[s].file])

-----------------------------------------------------------------------------
(* Sessions. *)

\* The statements a session can be about to run, in the order of _ingest.
Writing ==
  {"parties", "write_party", "insert_load", "look_up_version",
   "insert_version", "project", "replace_stops"}

\* And those of a rebuild, in the order of rebuild_current_projections.
Rebuilding == {"find_stops", "delete_stops", "put_parties", "put_loads", "put_stops"}

Statements == {"idle", "look_up", "insert_file", "failing"} \cup Writing \cup Rebuilding

\* What a rebuild is going to write: the version each load will show, and
\* when each party was last observed.
NoPlan ==
  [loads |-> [l \in Loads |-> None], parties |-> [c \in Parties |-> None]]

Idle ==
  [pc |-> "idle", file |-> None, line |-> 1, party |-> 1, todo |-> <<>>, plan |-> NoPlan]

Init ==
  /\ db = [files |-> [f \in Files |-> "ABSENT"], versions |-> NoRows.versions,
            loads |-> NoRows.loads, stops |-> NoRows.stops, parties |-> NoRows.parties]
  /\ call = [p \in Sessions |-> Idle]
  /\ known = [p \in Sessions |-> NothingKnown]
  /\ mine = [p \in Sessions |-> NoRows]
  /\ rebuild = "none"

\* Session p's file, the snapshot it is at, its load and the party it is at.
FileOf(p) == call[p].file
At(p) == Lines[FileOf(p)][call[p].line]
LoadAt(p) == LoadOf[At(p)]
PartyAt(p) == PartiesOf[At(p)][call[p].party]
HasLine(p) == call[p].line \in DOMAIN Lines[FileOf(p)]

\* What a SELECT of session p finds: committed rows and its own.
Visible(p, table, key) ==
  IF mine[p][table][key] # None THEN mine[p][table][key] ELSE db[table][key]

Remembered(p, table, key) ==
  IF known[p][table][key] = Unread THEN Visible(p, table, key)
  ELSE known[p][table][key]

Others(p) == Sessions \ {p}

\* The load or party a rebuild is at, and whether its UPDATE changes anything.
Subject(p) == Head(call[p].todo)

PlannedLoad(p) == call[p].plan.loads[Subject(p)]

MovesParty(p) == db.parties[Subject(p)] # call[p].plan.parties[Subject(p)]

MovesLoad(p) == known[p].loads[Subject(p)] # ProjectionOf(PlannedLoad(p))

SharesLoad(q, l) ==
  \/ \E s \in Snapshots : mine[q].versions[s] # None /\ LoadOf[s] = l
  \/ mine[q].stops[l] \in StopRow

\* The stops p found for a load are still there.
StillThere(p, l) == db.stops[l] # None /\ db.stops[l] = known[p].stops[l]

\* A statement of a rebuild waits for q.
HoldsUpRebuild(p, q) ==
  \/ /\ call[p].pc = "delete_stops"
     /\ StillThere(p, Subject(p))
     /\ mine[q].stops[Subject(p)] # None
  \/ /\ call[p].pc = "put_parties"
     /\ MovesParty(p)
     /\ mine[q].parties[Subject(p)] # None
  \/ /\ call[p].pc = "put_loads"
     /\ MovesLoad(p)
     /\ \/ mine[q].loads[Subject(p)] # None
        \/ PlannedLoad(p) # known[p].loads[Subject(p)].current /\ SharesLoad(q, Subject(p))
  \/ /\ call[p].pc = "put_stops"
     /\ mine[q].loads[Subject(p)] # None

NeedsWrite(p) == known[p].parties[PartyAt(p)] # SyncAt[FileOf(p)]

\* The sessions whose open transactions the statement of p waits for.
Blockers(p) ==
  {q \in Others(p) :
     \/ /\ call[p].pc \in {"insert_file", "failing"}
        /\ call[q].pc \in Writing
        /\ FileOf(q) = FileOf(p)
     \/ /\ call[p].pc = "write_party"
        /\ NeedsWrite(p)
        /\ mine[q].parties[PartyAt(p)] # None
     \/ /\ call[p].pc \in {"insert_load", "insert_version", "project"}
        /\ mine[q].loads[LoadAt(p)] # None
     \/ /\ call[p].pc = "insert_version"
        /\ mine[q].versions[At(p)] # None
     \/ /\ call[p].pc = "project"
        /\ SharesLoad(q, LoadAt(p))
     \/ /\ call[p].pc = "replace_stops"
        /\ mine[q].stops[LoadAt(p)] # None
     \/ /\ call[p].todo # <<>>
        /\ HoldsUpRebuild(p, q)}

\* Session p runs its statement, which no other transaction holds up.
Runs(p, pc) == call[p].pc = pc /\ Blockers(p) = {}

Goto(p, pc) == call' = [call EXCEPT ![p].pc = pc]

NextLine(p) ==
  call' = [call EXCEPT ![p].pc = "parties", ![p].line = @ + 1, ![p].party = 1]

Forget(p) ==
  /\ mine' = [mine EXCEPT ![p] = NoRows]
  /\ known' = [known EXCEPT ![p] = NothingKnown]

\* Faulty variant of Abort: the transaction is left open, with its rows.
AbortLeavingOpen(p) ==
  /\ call' = [call EXCEPT ![p] = IF @.pc \in Rebuilding THEN Idle
                                 ELSE [@ EXCEPT !.pc = "failing"]]
  /\ UNCHANGED <<db, known, mine>>

\* A statement raises and the transaction is rolled back.  An ingest call
\* goes on to record its failure, a rebuild ends.
Abort(p) ==
  /\ call' = [call EXCEPT ![p] = IF @.pc \in Rebuilding THEN Idle
                                 ELSE [@ EXCEPT !.pc = "failing"]]
  /\ Forget(p)
  /\ UNCHANGED db

-----------------------------------------------------------------------------
(* The statements of one call, in order. *)

OpenFile(p, f) ==
  /\ call[p].pc = "idle"
  /\ f \in Beside \/ ~\E q \in Sessions : call[q].pc \in Rebuilding
  /\ call' = [call EXCEPT ![p] = [Idle EXCEPT !.pc = "look_up", !.file = f]]
  /\ rebuild' = IF \E q \in Sessions : call[q].pc \in Rebuilding THEN "overlapping" ELSE rebuild
  /\ UNCHANGED <<db, known, mine>>

\* A completed row of this checksum ends the call as a no-op.
LookUpFile(p) ==
  /\ Runs(p, "look_up")
  /\ call' = [call EXCEPT ![p] = IF db.files[@.file] = "COMPLETED" THEN Idle
                                 ELSE [@ EXCEPT !.pc = "insert_file"]]
  /\ UNCHANGED <<db, known, mine>>

InsertFile(p) ==
  /\ Runs(p, "insert_file")
  /\ \/ /\ db.files[FileOf(p)] = "ABSENT"
        /\ Goto(p, "parties")
        /\ UNCHANGED <<db, known, mine>>
     \/ /\ db.files[FileOf(p)] # "ABSENT"
        /\ Abort(p)

\* _customer and _carrier look a row up ...
SelectParty(p) ==
  /\ Runs(p, "parties")
  /\ HasLine(p)
  /\ call[p].party \in DOMAIN PartiesOf[At(p)]
  /\ known' = [known EXCEPT ![p].parties[PartyAt(p)] =
                  Remembered(p, "parties", PartyAt(p))]
  /\ Goto(p, "write_party")
  /\ UNCHANGED <<db, mine>>

\* Faulty variant of WriteParty: a row that exists is left alone.
WritePartyOnce(p) ==
  /\ Runs(p, "write_party")
  /\ LET c == PartyAt(p)
     IN  IF db.parties[c] # None /\ known[p].parties[c] = None THEN Abort(p)
         ELSE /\ mine' = [mine EXCEPT ![p].parties[c] =
                             IF known[p].parties[c] = None
                             THEN SyncAt[FileOf(p)] ELSE @]
              /\ known' = [known EXCEPT ![p].parties[c] = SyncAt[FileOf(p)]]
              /\ call' = [call EXCEPT ![p].pc = "parties", ![p].party = @ + 1]
              /\ UNCHANGED db

\* ... and the flush before the next SELECT inserts or updates it.  A row
\* that shows this very time already is not written, and not locked.
WriteParty(p) ==
  /\ Runs(p, "write_party")
  /\ LET c == PartyAt(p)
     IN  IF db.parties[c] # None /\ known[p].parties[c] = None THEN Abort(p)
         ELSE /\ mine' = [mine EXCEPT ![p].parties[c] =
                             IF NeedsWrite(p) THEN SyncAt[FileOf(p)] ELSE @]
              /\ known' = [known EXCEPT ![p].parties[c] = SyncAt[FileOf(p)]]
              /\ call' = [call EXCEPT ![p].pc = "parties", ![p].party = @ + 1]
              /\ UNCHANGED db

SelectLoad(p) ==
  /\ Runs(p, "parties")
  /\ HasLine(p)
  /\ call[p].party \notin DOMAIN PartiesOf[At(p)]
  /\ LET row == Remembered(p, "loads", LoadAt(p))
     IN  /\ known' = [known EXCEPT ![p].loads[LoadAt(p)] = row]
         /\ Goto(p, IF row = None THEN "insert_load" ELSE "look_up_version")
  /\ UNCHANGED <<db, mine>>

NewLoad(p) ==
  [current |-> None, status |-> StatusOf[At(p)],
   observed |-> SyncAt[FileOf(p)]]

InsertLoad(p) ==
  /\ Runs(p, "insert_load")
  /\ IF db.loads[LoadAt(p)] # None THEN Abort(p)
     ELSE /\ mine' = [mine EXCEPT ![p].loads[LoadAt(p)] = NewLoad(p)]
          /\ known' = [known EXCEPT ![p].loads[LoadAt(p)] = NewLoad(p)]
          /\ Goto(p, "look_up_version")
          /\ UNCHANGED db

\* A snapshot that is stored already is skipped.
LookUpVersion(p) ==
  /\ Runs(p, "look_up_version")
  /\ IF Visible(p, "versions", At(p)) # None THEN NextLine(p)
     ELSE Goto(p, "insert_version")
  /\ UNCHANGED <<db, known, mine>>

\* _becomes_current asks the load row as this session remembers it.
BecomesCurrent(p) ==
  LET shown == known[p].loads[LoadAt(p)].current
  IN  ChooseCurrentVersion(
        IF shown = None THEN None
        ELSE FileTiming(Visible(p, "versions", shown).file, shown),
        FileTiming(FileOf(p), At(p))).becomes_current

InsertVersion(p) ==
  /\ Runs(p, "insert_version")
  /\ IF db.versions[At(p)] # None THEN Abort(p)
     ELSE /\ mine' = [mine EXCEPT ![p].versions[At(p)] =
                         [file |-> FileOf(p),
                          supersedes |-> known[p].loads[LoadAt(p)].current]]
          /\ IF BecomesCurrent(p) THEN Goto(p, "project") ELSE NextLine(p)
          /\ UNCHANGED <<db, known>>

\* The row after an UPDATE that names the columns this session changed.
Updated(row, seen, new) ==
  [c \in Columns |-> IF new[c] = seen[c] THEN row[c] ELSE new[c]]

\* UPDATE of the load ...
Project(p) ==
  /\ Runs(p, "project")
  /\ LET l == LoadAt(p)
         new == Projection(At(p), SyncAt[FileOf(p)])
     IN  /\ mine' = [mine EXCEPT ![p].loads[l] =
                        Updated(Visible(p, "loads", l), known[p].loads[l], new)]
         /\ known' = [known EXCEPT ![p].loads[l] = new]
  /\ Goto(p, "replace_stops")
  /\ UNCHANGED db

\* Faulty variant of ReplaceStops: the load keeps the stops it had.
KeepStops(p) ==
  /\ Runs(p, "replace_stops")
  /\ mine' = [mine EXCEPT ![p].stops[LoadAt(p)] =
                 IF Visible(p, "stops", LoadAt(p)) = None
                 THEN [of |-> At(p), by |-> FileOf(p)] ELSE @]
  /\ NextLine(p)
  /\ UNCHANGED <<db, known>>

\* ... DELETE and INSERT of its stops.  Who holds the load row FOR UPDATE is
\* the only one to insert stops of it.
ReplaceStops(p) ==
  /\ Runs(p, "replace_stops")
  /\ mine' = [mine EXCEPT ![p].stops[LoadAt(p)] = [of |-> At(p), by |-> FileOf(p)]]
  /\ NextLine(p)
  /\ UNCHANGED <<db, known>>

Merge(rows, written) ==
  [k \in DOMAIN rows |-> CASE written[k] = None -> rows[k]
                         [] written[k] = Deleted -> None
                         [] OTHER -> written[k]]

\* The rows after the transaction of p commits, with these file rows.
Published(p, files) ==
  [files |-> files,
   versions |-> Merge(db.versions, mine[p].versions),
   loads |-> Merge(db.loads, mine[p].loads),
   stops |-> Merge(db.stops, mine[p].stops),
   parties |-> Merge(db.parties, mine[p].parties)]

\* Faulty variant of Commit: the status is left as it was inserted.
CommitUnmarked(p) ==
  /\ Runs(p, "parties")
  /\ ~HasLine(p)
  /\ db' = Published(p, [db.files EXCEPT ![FileOf(p)] = "PROCESSING"])
  /\ call' = [call EXCEPT ![p] = Idle]
  /\ Forget(p)

Commit(p) ==
  /\ Runs(p, "parties")
  /\ ~HasLine(p)
  /\ db' = Published(p, [db.files EXCEPT ![FileOf(p)] = "COMPLETED"])
  /\ call' = [call EXCEPT ![p] = Idle]
  /\ Forget(p)

\* _record_failure: its SELECT finds the row, or its INSERT waits for whoever
\* is inserting it and then fails on the unique checksum or succeeds.
RecordFailure(p) ==
  /\ Runs(p, "failing")
  /\ db' = [db EXCEPT !.files[FileOf(p)] = IF @ = "ABSENT" THEN "FAILED" ELSE @]
  /\ call' = [call EXCEPT ![p] = Idle]
  /\ UNCHANGED <<known, mine>>

-----------------------------------------------------------------------------
(* The statements of a rebuild, in order. *)

VersionsOf(l) == {s \in Stored(db) : LoadOf[s] = l}

TimingOf(s) == FileTiming(db.versions[s].file, s)

Unbeaten(l) == {s \in VersionsOf(l) : \A t \in VersionsOf(l) : ~KeyLess(TimingOf(s), TimingOf(t))}

Mentions(c) == {s \in Stored(db) : c \in ToSet(PartiesOf[s])}

LastObserved(c) ==
  CHOOSE t \in {SyncAt[db.versions[s].file] : s \in Mentions(c)} :
    \A s \in Mentions(c) : SyncAt[db.versions[s].file] <= t

\* Of equal versions of a load, the order the rows come in decides.
Plans ==
  {[loads |-> chosen,
    parties |-> [c \in Parties |-> IF Mentions(c) = {} THEN None ELSE LastObserved(c)]] :
     chosen \in {w \in [Loads -> Stored(db) \cup {None}] :
                  \A l \in Loads : IF VersionsOf(l) = {} THEN w[l] = None
                                   ELSE w[l] \in Unbeaten(l)}}

\* The SELECT of all versions with their load rows.  One rebuild is enough: a
\* second one starts from rows that the first one or a call left.
StartRebuild(p) ==
  /\ call[p].pc = "idle"
  /\ p \in Rebuilders
  /\ rebuild = "none"
  /\ \A q \in Others(p) : FileOf(q) \in Beside \cup {None}
  /\ \E plan \in Plans :
       call' = [call EXCEPT ![p] = [Idle EXCEPT !.pc = "find_stops", !.plan = plan]]
  /\ known' = [known EXCEPT ![p].loads = db.loads]
  /\ rebuild' = IF \E q \in Others(p) : call[q].pc # "idle" THEN "overlapping" ELSE "alone"
  /\ UNCHANGED <<db, mine>>

\* The session goes on with these rows, in some order.
TakeUp(p, pc, S) ==
  \E order \in SetToSeqs(S) :
    call' = [call EXCEPT ![p].pc = pc, ![p].todo = order]

\* The DELETE of all stops begins ...
FindStops(p) ==
  /\ Runs(p, "find_stops")
  /\ known' = [known EXCEPT ![p].stops = db.stops]
  /\ TakeUp(p, "delete_stops", Loads)
  /\ UNCHANGED <<db, mine>>

\* A statement of the rebuild about its next row.
Handles(p, pc) ==
  /\ Runs(p, pc)
  /\ call[p].todo # <<>>

NextSubject(p) == call' = [call EXCEPT ![p].todo = Tail(@)]

\* ... and deletes them one by one.
DeleteStops(p) ==
  /\ Handles(p, "delete_stops")
  /\ mine' = [mine EXCEPT ![p].stops[Subject(p)] =
                 IF StillThere(p, Subject(p)) THEN Deleted ELSE @]
  /\ NextSubject(p)
  /\ UNCHANGED <<db, known>>

\* A party row is read, and updated if that changes it.
PutParty(p) ==
  /\ Handles(p, "put_parties")
  /\ mine' = [mine EXCEPT ![p].parties[Subject(p)] =
                 IF MovesParty(p) THEN call[p].plan.parties[Subject(p)] ELSE @]
  /\ NextSubject(p)
  /\ UNCHANGED <<db, known>>

\* Faulty variant of PutLoad: the loads are left as they are.
PutNoLoad(p) ==
  /\ Handles(p, "put_loads")
  /\ NextSubject(p)
  /\ UNCHANGED <<db, known, mine>>

\* A load row, as the first SELECT read it, is updated if that changes it.
PutLoad(p) ==
  /\ Handles(p, "put_loads")
  /\ mine' = [mine EXCEPT ![p].loads[Subject(p)] =
                 IF MovesLoad(p)
                 THEN Updated(db.loads[Subject(p)], known[p].loads[Subject(p)],
                              ProjectionOf(PlannedLoad(p)))
                 ELSE @]
  /\ NextSubject(p)
  /\ UNCHANGED <<db, known>>

\* Stops that are there already break the unique constraint.
PutStops(p) ==
  /\ Handles(p, "put_stops")
  /\ IF db.stops[Subject(p)] # None /\ mine[p].stops[Subject(p)] # Deleted THEN Abort(p)
     ELSE /\ mine' = [mine EXCEPT ![p].stops[Subject(p)] =
                         [of |-> PlannedLoad(p), by |-> "rebuild"]]
          /\ NextSubject(p)
          /\ UNCHANGED <<db, known>>

\* The parties and the loads that have versions.
PlannedParties(p) == {c \in Parties : call[p].plan.parties[c] # None}

PlannedLoads(p) == {l \in Loads : call[p].plan.loads[l] # None}

NextPhase(p) ==
  /\ call[p].todo = <<>>
  /\ \/ call[p].pc = "delete_stops" /\ TakeUp(p, "put_parties", PlannedParties(p))
     \/ call[p].pc = "put_parties" /\ TakeUp(p, "put_loads", PlannedLoads(p))
     \/ call[p].pc = "put_loads" /\ TakeUp(p, "put_stops", PlannedLoads(p))
  /\ UNCHANGED <<db, known, mine>>

CommitRebuild(p) ==
  /\ call[p].pc = "put_stops"
  /\ call[p].todo = <<>>
  /\ db' = Published(p, db.files)
  /\ call' = [call EXCEPT ![p] = Idle]
  /\ Forget(p)

-----------------------------------------------------------------------------
\* A rebuild that ended and left nothing behind does not count.
RebuildAfter(p) ==
  IF call[p].pc \in Rebuilding /\ call'[p].pc = "idle" /\ db' = db THEN "none" ELSE rebuild

\* The process dies or loses its connection.
Die(p) ==
  /\ call[p].pc # "idle"
  /\ call' = [call EXCEPT ![p] = Idle]
  /\ Forget(p)
  /\ UNCHANGED db
  /\ rebuild' = RebuildAfter(p)

\* A set of sessions none of which can run before another one of it ends.
Circle(S) == \A p \in S : Blockers(p) \cap S # {}

\* PostgreSQL finds a circle of waiting transactions and makes the statement
\* of one of them fail.
BreakDeadlock(p) ==
  /\ \E S \in SUBSET Sessions :
       /\ p \in S
       /\ Circle(S)
       /\ \A R \in SUBSET S : Circle(R) => R = S \/ R = {}
  /\ Abort(p)

IngestStatement(p) ==
  \/ LookUpFile(p)
  \/ InsertFile(p)
  \/ SelectParty(p)
  \/ WriteParty(p)
  \/ SelectLoad(p)
  \/ InsertLoad(p)
  \/ LookUpVersion(p)
  \/ InsertVersion(p)
  \/ Project(p)
  \/ ReplaceStops(p)
  \/ Commit(p)
  \/ RecordFailure(p)

RebuildStatement(p) ==
  \/ FindStops(p)
  \/ DeleteStops(p)
  \/ PutParty(p)
  \/ PutLoad(p)
  \/ PutStops(p)
  \/ NextPhase(p)
  \/ CommitRebuild(p)

Statement(p) ==
  /\ IngestStatement(p) \/ RebuildStatement(p) \/ BreakDeadlock(p)
  /\ rebuild' = RebuildAfter(p)

Next ==
  \E p \in Sessions :
    \/ \E f \in Files : OpenFile(p, f)
    \/ StartRebuild(p)
    \/ Statement(p)
    \/ Die(p)

Spec == Init /\ [][Next]_vars

\* A command that was started goes on, and PostgreSQL grants a lock to the
\* one who waits for it: whoever could run again and again does run.
FairSpec == Spec /\ \A p \in Sessions : SF_vars(Statement(p))

-----------------------------------------------------------------------------
(* Properties. *)

SessionRows ==
  [versions: [Snapshots -> VersionRow \cup {None}],
   loads: [Loads -> LoadRow \cup {None}],
   stops: [Loads -> StopRow \cup {None, Deleted}],
   parties: [Parties -> Nat \cup {None}]]

\* Every row has its type, committed, remembered or written.
TypeOK ==
  /\ db \in Database
  /\ call \in [Sessions ->
       [pc: Statements, file: Files \cup {None}, line: Nat, party: Nat,
        todo: Seq(Loads \cup Parties),
        plan: [loads: [Loads -> Snapshots \cup {None}],
               parties: [Parties -> Nat \cup {None}]]]]
  /\ known \in [Sessions -> [loads: [Loads -> LoadRow \cup {None, Unread}],
                            stops: [Loads -> StopRow \cup {None, Unread}],
                            parties: [Parties -> Nat \cup {None, Unread}]]]
  /\ mine \in [Sessions -> SessionRows]
  /\ rebuild \in {"none", "alone", "overlapping"}

\* The files that write the row of party c.
Writers(c) == {f \in Files : \E s \in ToSet(Lines[f]) : c \in ToSet(PartiesOf[s])}

\* All versions of load l name party c, and no two files write it at one time:
\* every call about l must write that row.
TakesTurns(l, c) ==
  /\ \A s \in Snapshots : LoadOf[s] = l => c \in ToSet(PartiesOf[s])
  /\ \A f, g \in Writers(c) : SyncAt[f] = SyncAt[g] => f = g

\* Besides, no file carries two versions of l that were modified at one time.
Steady(l) ==
  /\ \E c \in Parties : TakesTurns(l, c)
  /\ \A f \in Files : \A s, t \in ToSet(Lines[f]) :
       LoadOf[s] = l /\ LoadOf[t] = l /\ ModifiedAt[s] = ModifiedAt[t] => s = t

SteadyLoads == {l \in Loads : Steady(l)}

\* docs/STATUS.md: a rebuild reconstructs loads and stops from immutable
\* versions, as incremental ingestion left them.  The stops of a load are
\* those of the version it shows.
StopsFollowLoad ==
  \A l \in Loads : db.loads[l] # None =>
    /\ db.stops[l] # None
    /\ db.stops[l].of = db.loads[l].current

\* The row of a steady load is a whole projection of one stored version: no
\* session's columns are mixed with those of another.  And as long as no
\* rebuild ran next to another command, the stops of every load are those of
\* the version it shows, however the ingest calls interleave.
ProjectionsAreWhole ==
  /\ \A l \in SteadyLoads : db.loads[l] # None =>
       \E s \in VersionsOf(l) : db.loads[l] = ProjectionOf(s)
  /\ rebuild # "overlapping" => StopsFollowLoad

ShowsLatest(l) ==
  VersionsOf(l) # {} => db.loads[l] # None /\ db.loads[l].current \in Unbeaten(l)

\* docs/STATUS.md: older source snapshots cannot replace current state.  A
\* load points to a version that no stored version of it outranks.
CurrentIsLatest == \A l \in Loads : ShowsLatest(l)

\* A rebuild that nothing ran next to repairs what interleaved ingest calls
\* did to the other loads: when it commits, every load shows its latest
\* version, whole.
RebuildRepairs ==
  [][\A p \in Sessions :
       call[p].pc = "put_stops" /\ rebuild = "alone" /\ db' # db
         => /\ CurrentIsLatest'
            /\ \A l \in Loads : db'.loads[l] # None =>
                 db'.loads[l] = ProjectionOf(db'.loads[l].current)]_vars

\* Every call comes to an end: no chain of waiting sessions lasts for ever,
\* since a circle of them is broken.
EveryCallEnds == \A p \in Sessions : call[p].pc # "idle" ~> call[p].pc = "idle"

-----------------------------------------------------------------------------
(* Refinement: the committed rows of steady loads are still a current view. *)

FactLoad(x) == LoadOf[x.snapshot]

FactFile(x) == x.file

FactOutranks(x, y) ==
  KeyLess(FileTiming(y.file, y.snapshot), FileTiming(x.file, x.snapshot))

FactOf(s) == [snapshot |-> s, file |-> db.versions[s].file]

View == INSTANCE CurrentView WITH
  Loads <- SteadyLoads,
  Batches <- Files,
  Facts <- [snapshot: {s \in Snapshots : LoadOf[s] \in SteadyLoads}, file: Files],
  Subject <- FactLoad,
  Origin <- FactFile,
  Outranks <- FactOutranks,
  published <- {FactOf(s) : s \in {t \in Stored(db) : LoadOf[t] \in SteadyLoads}},
  current <- [l \in SteadyLoads |-> IF db.loads[l] = None THEN None
                              ELSE FactOf(db.loads[l].current)]

\* For loads whose versions name one customer the lock on that row makes the
\* calls take turns, and readers see what one session would have made: each
\* load moves only to versions that outrank the one it showed.
ImplementsCurrentView == View!Spec
=============================================================================
