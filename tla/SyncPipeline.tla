----------------------------- MODULE SyncPipeline -----------------------------
(***************************************************************************)
(* The commands that move sync files from the generator to the database,   *)
(* `make ingest: generate validate seed-demo-tenants`, run one at a time,  *)
(* killed and run again, over the real catalogue and schedule.             *)
(*                                                                         *)
(*   generator/scheduler.py write_sync_files, generator/manifest.py        *)
(*   generator/validator.py validate_generated_data                        *)
(*   ingestion/discovery.py, cli.py ingest-all                             *)
(*   ingestion/coordinator.py, what one file does to the loads it names    *)
(*                                                                         *)
(* Between two commands a file on disk may be damaged, by a hand edit or a *)
(* faulty producer.  That one file's transaction is all or nothing, and    *)
(* what happens when deliveries overlap or arrive late, is the subject of  *)
(* SnapshotIngestion, HaulDeskIngestion and ConcurrentIngestion.           *)
(***************************************************************************)
EXTENDS SyncFiles, FiniteSetsExt

CONSTANTS
  Spots,         \* the damage that may be done: pairs of a file and a kind
  Pauses,        \* numbers of files left at which a command may be killed
  MaxGenerate, MaxIngest, MaxFaults   \* how often each may happen

Adapter == INSTANCE SourceAdapters

\* "broken" is no JSON; "late" states a sync time a day late; "roles" has a
\* stop type no adapter knows; "orphan" lost the carriers its loads refer to;
\* "twice" repeats its rate ids with other amounts; "stray" has a rate row for
\* a load no file describes, "surcharge" one for a load of earlier files; the
\* loads of "backdated" are two days older than they were.
Damages ==
  {"broken", "late", "roles", "orphan", "twice", "stray", "surcharge", "backdated"}

Contents == {"intact"} \cup Damages

\* The load that an added rate row is for.
RatedLoad(kind) ==
  IF kind = "stray" THEN <<"HAULDESK", 7777>> ELSE Anchors["HAULDESK"][1].load

ASSUME RatedLoadsAssumption ==
  RatedLoad("stray") \notin LoadIds /\ RatedLoad("surcharge") \in LoadIds

\* The generator's rate ids have a tick in this place.
Added == -1

AddedRate(l) == [id |-> <<l, Added>>, load |-> l, amount |-> 100, created |-> 0]

\* None stands for a file that is not there.
ASSUME NoneAssumption == None \notin Contents

ASSUME ParametersAssumption ==
  /\ Spots \subseteq Files \X Damages
  /\ Pauses \subseteq Nat
  /\ \A d \in Spots : d[2] = "roles" => d[1][2] = "FREIGHTFLOW"
  /\ \A d \in Spots : d[2] = "orphan" => d[1][2] # "FREIGHTFLOW"
  /\ \A d \in Spots : d[2] \in {"twice", "stray", "surcharge"} => d[1][2] = "HAULDESK"
  /\ \A d \in Spots : d[2] = "backdated" => d[1][2] # "FREIGHTFLOW"

\* What the damage does to the text of a file.
Damaged(source, text, kind) ==
  CASE kind = "late" /\ source = "FREIGHTFLOW" ->
         [text EXCEPT !.synced_at.local = @ + 24]
    [] kind = "late" /\ source # "FREIGHTFLOW" -> [text EXCEPT !.synced_at = @ + 24]
    [] kind = "roles" ->
         [text EXCEPT !.loads = {[l EXCEPT !.stops[1].type = "Pickup"] : l \in @}]
    [] kind = "orphan" /\ source = "HAULDESK" -> [text EXCEPT !.carriers = {}]
    [] kind = "orphan" /\ source = "BROKEROS" ->
         [text EXCEPT !.references = {r \in @ : r[1] # "Carrier"}]
    [] kind = "twice" ->
         [text EXCEPT !.rates = @ \cup {[rate EXCEPT !.amount = @ + 1] : rate \in @}]
    [] kind \in {"stray", "surcharge"} ->
         [text EXCEPT !.rates = @ \cup {AddedRate(RatedLoad(kind))}]
    [] kind = "backdated" ->
         [text EXCEPT !.loads = {[l EXCEPT !.modified = @ - 48] : l \in @}]
    [] OTHER -> text

Written == {[file |-> f, text |-> SerializeSync(f)] : f \in Files}

\* Every text a file may have, and what its adapter makes of it: whether it
\* parses, its loads as written, and what they normalise to.
Readings ==
  {[file    |-> d.file,
    content |-> d.content,
    ok      |-> d.ok,
    raw     |-> d.text.loads,
    sync    |-> IF d.ok THEN Adapter!Normalize(d.file[2], d.text) ELSE None] :
   d \in {[d EXCEPT !.ok = d.content # "broken" /\ Adapter!Parses(d.file[2], d.text)] :
     d \in UNION {
       {[file    |-> w.file,
         content |-> c,
         text    |-> Damaged(w.file[2], w.text, c),
         ok      |-> TRUE] :
          c \in {c \in Contents : c = "intact" \/ <<w.file, c>> \in Spots}} :
       w \in Written}}}

ReadingOf(f, content) == CHOOSE r \in Readings : r.file = f /\ r.content = content

VARIABLES
  disk,       \* the content of each sync file, or None
  manifest,   \* scenarios.json: "absent", "torn" or "whole"
  command,    \* the command that runs, and the files it has yet to handle
  rows,       \* ingestion_files
  versions,   \* load_versions: what each was made from
  current,    \* loads: the current version of each load, or None
  ledger,     \* source_rate_entries
  report,     \* what the last validation of this disk said
  calls       \* how often each command ran, and faults struck

db == <<rows, versions, current, ledger>>
vars == <<disk, manifest, command, rows, versions, current, ledger, report, calls>>

Idle == [name |-> "idle", todo |-> {}]

Init ==
  /\ disk = [f \in Files |-> None]
  /\ manifest = "absent"
  /\ command = Idle
  /\ rows = {}
  /\ versions = {}
  /\ current = [l \in LoadIds |-> None]
  /\ ledger = {}
  /\ report = "none"
  /\ calls = [generate |-> 0, ingest |-> 0, faults |-> 0]

-----------------------------------------------------------------------------
(* generate: write_sync_files, then write_scenarios_manifest. *)

StartGenerate ==
  /\ command = Idle
  /\ calls.generate < MaxGenerate
  /\ command' = [name |-> "generate", todo |-> Files]
  /\ calls' = [calls EXCEPT !.generate = @ + 1]
  /\ UNCHANGED <<disk, manifest, report, db>>

\* A file is written beside its path and then renamed: never seen half.
WriteFile ==
  /\ command.name = "generate"
  /\ command.todo # {}
  /\ LET f == First(command.todo)
     IN  /\ disk' = [disk EXCEPT ![f] = "intact"]
         /\ command' = [command EXCEPT !.todo = @ \ {f}]
  /\ report' = "none"
  /\ UNCHANGED <<manifest, calls, db>>

\* The manifest is written in place: until it is whole it is torn.
OpenManifest ==
  /\ command = [name |-> "generate", todo |-> {}]
  /\ manifest' = "torn"
  /\ command' = [name |-> "manifest", todo |-> {}]
  /\ report' = "none"
  /\ UNCHANGED <<disk, calls, db>>

WriteManifest ==
  /\ command.name = "manifest"
  /\ manifest' = "whole"
  /\ command' = Idle
  /\ UNCHANGED <<disk, report, calls, db>>

-----------------------------------------------------------------------------
(* validate-data *)

\* Faulty variant of SyncIsPlausible: the file's time is not compared.
SyncTimeIsTrusted(f, sync) ==
  /\ Cardinality(sync.loads) \in 1..3
  /\ sync.warnings = {}

\* _validate_normalized_sync, the checks of one file by itself.
SyncIsPlausible(f, sync) ==
  /\ sync.sync_at = SyncAt(f[1])
  /\ Cardinality(sync.loads) \in 1..3
  /\ sync.warnings = {}
  /\ \A l \in sync.loads :
       /\ l.modified <= SyncAt(f[1])
       /\ \A i \in DOMAIN l.stops : l.stops[i].location \in Locations
  /\ \A e \in sync.entries : e.created <= SyncAt(f[1])
  /\ f[1] = DAY11 => \A l \in sync.loads :
                        l.status = "ACTIVE" /\ l.carrier = None /\ l.carrier_rate = None

\* The checks across the files of a source: a load keeps its customer, pay is
\* not stated before the load was covered, a rate id comes once.
SyncsAgree(read) ==
  /\ \A r \in read : \A l \in r.sync.loads :
       \E told \in {UNION {{m \in q.sync.loads : m.load = l.load} :
                          q \in {q \in read : q.file[1] <= r.file[1]}}} :
         /\ \A m \in told : m.customer = l.customer
         /\ l.carrier_rate # None => \E m \in told : m.status = "COVERED"
  /\ \A r, q \in {r \in read : r.sync.entries # {}} :
       r # q => {e.id : e \in r.sync.entries} \cap {e.id : e \in q.sync.entries} = {}

\* validate_schedule_backtest_readiness: six ordinary loads of each source
\* complete, and its first anchors before any of them becomes active.
ScheduleIsReady ==
  \A s \in Sources :
    LET reached(l, status) ==
          {h.file[1] : h \in {h \in Schedule : h.event.load = l /\ h.event.status = status}}
        ordinary == {Ordinary[s][i].load : i \in DOMAIN Ordinary[s]}
        first    == {Anchors[s][i].load : i \in 1..3}
    IN  /\ Cardinality({l \in ordinary : reached(l, "COMPLETED") # {}}) >= 6
        /\ \A a \in first : /\ reached(a, "COMPLETED") # {}
                            /\ \A l \in ordinary : \A t \in reached(l, "ACTIVE") :
                                 \E c \in reached(a, "COMPLETED") : c < t

\* _validate_manifest_scenarios, for the manifest that is written whole: every
\* scenario is in files, all of them expected.
ManifestIsSound(list) ==
  /\ list = "whole"
  /\ \A scenario \in Scenarios :
       ScenarioFiles(scenario) # {} /\ ScenarioFiles(scenario) \subseteq Files

\* validate_generated_data: every expected file is there, parses and passes.
IsAccepted(files, list) ==
  /\ ScheduleIsReady
  /\ ManifestIsSound(list)
  /\ \A f \in Files : files[f] # None
  /\ \E read \in {{r \in Readings : r.content = files[r.file]}} :
       /\ \A r \in read : r.ok
       /\ \A r \in read : SyncIsPlausible(r.file, r.sync)
       /\ SyncsAgree(read)

Validate ==
  /\ command = Idle
  /\ report = "none"
  /\ report' = IF IsAccepted(disk, manifest) THEN "accepted" ELSE "refused"
  /\ UNCHANGED <<disk, manifest, command, calls, db>>

-----------------------------------------------------------------------------
(* ingest-all *)

\* discover_sync_files, eagerly: the files that are there when it starts.  The
\* directory of each source is in the repository, with or without files.
StartIngestAll ==
  /\ command = Idle
  /\ calls.ingest < MaxIngest
  /\ \E found \in {{f \in Files : disk[f] # None}} :
       command' = [name |-> "ingest", todo |-> found]
  /\ calls' = [calls EXCEPT !.ingest = @ + 1]
  /\ UNCHANGED <<disk, manifest, report, db>>

\* Faulty variant of IsIngestible: the loads of earlier files are not looked up.
NamesOwnLoads(reading) ==
  /\ reading.ok
  /\ {e.load : e \in reading.sync.entries} \subseteq {l.load : l \in reading.sync.loads}

\* A rate row must name a load of its file or one that is known.
IsIngestible(reading) ==
  /\ reading.ok
  /\ {e.load : e \in reading.sync.entries} \subseteq
       {l.load : l \in reading.sync.loads} \cup {l \in LoadIds : current[l] # None}

\* Faulty variant of LedgerWith: a rate id that comes again is entered again.
LedgerAnew(sync) ==
  ledger \cup {[id |-> e.id, load |-> e.load, amount |-> e.amount, observed |-> sync.sync_at] :
                 e \in sync.entries}

\* _insert_rate_entry; the rows are observed at the file's sync time.
LedgerWith(sync) ==
  ledger \cup {[id |-> e.id, load |-> e.load, amount |-> e.amount, observed |-> sync.sync_at] :
                 e \in {e \in sync.entries : \A r \in ledger : r.id # e.id}}

\* _ledger_totals: the pay of a HaulDesk load.
PayOf(entries, l, at) ==
  MapThenSumSet(LAMBDA r : r.amount,
                {r \in entries : r.load = l /\ r.observed <= at})

\* _hauldesk_carrier: a reference without a row is looked up among the known.
CarrierOf(l) ==
  IF l.carrier # None THEN l.carrier
  ELSE IF \E v \in versions : v.body.load[1] = l.load[1] /\ v.carrier = l.carrier_ref
       THEN l.carrier_ref ELSE None

\* The version that a sync makes of one of its loads.
VersionOf(l, reading, entries) ==
  [body    |-> l,
   raw     |-> CHOOSE w \in reading.raw : w.load = l.load,
   sync_at |-> reading.sync.sync_at,
   carrier |-> IF l.load[1] = "HAULDESK" THEN CarrierOf(l) ELSE l.carrier,
   pay     |-> IF l.load[1] = "HAULDESK"
               THEN PayOf(entries, l.load, reading.sync.sync_at)
               ELSE l.carrier_rate]

\* _persist_ledger_only_version: a load that the file has only rate rows for is
\* what its current version says, with the new total.
RateOnlyVersion(l, reading, entries) ==
  [current[l] EXCEPT !.sync_at = reading.sync.sync_at,
                     !.pay = PayOf(entries, l, reading.sync.sync_at)]

\* The versions of the loads that a file lists and of those it only rates.
VersionsOf(reading, entries) ==
  LET listed == {l.load : l \in reading.sync.loads}
      rated  == {e.load : e \in reading.sync.entries}
  IN  {VersionOf(l, reading, entries) : l \in reading.sync.loads}
        \cup {RateOnlyVersion(l, reading, entries) : l \in rated \ listed}

\* The snapshot hash: the load as written, for HaulDesk the canonical load with
\* its carrier and totals.
SameSnapshot(v, w) ==
  /\ v.body.load = w.body.load
  /\ IF v.body.load[1] = "HAULDESK"
     THEN v.body = w.body /\ v.carrier = w.carrier /\ v.pay = w.pay
     ELSE v.raw = w.raw

NewVersions(made) == {v \in made : \A w \in versions : ~SameSnapshot(w, v)}

Timing(v) ==
  [source_sync_at |-> v.sync_at, source_modified_at |-> v.body.modified,
   observed_at |-> v.sync_at, status |-> v.body.status]

\* _becomes_current
Supersedes(v, old) ==
  ChooseCurrentVersion(IF old = None THEN None ELSE Timing(old), Timing(v)).becomes_current

\* _update_hauldesk_projection and its siblings: the loads that a version won
\* show it.
CurrentAfter(wins) ==
  [l \in LoadIds |-> IF \E v \in wins : v.body.load = l
                     THEN CHOOSE v \in wins : v.body.load = l
                     ELSE current[l]]

\* A new snapshot of a load makes a version, and the later version is the one
\* its projection shows.
IngestFile(f, reading) ==
  /\ IsIngestible(reading)
  /\ command' = [command EXCEPT !.todo = @ \ {f}]
  /\ \E entries \in {LedgerWith(reading.sync)} :
     \E new \in {NewVersions(VersionsOf(reading, entries))} :
     \E wins \in {{v \in new : Supersedes(v, current[v.body.load])}} :
       /\ ledger' = entries
       /\ versions' = versions \cup new
       /\ current' = CurrentAfter(wins)
       /\ rows' = rows \cup {[file |-> f, content |-> disk[f], status |-> "COMPLETED",
                              vouched |-> report = "accepted"]}

\* A content that was completed before is not ingested again.
SkipFile(f) ==
  /\ command' = [command EXCEPT !.todo = @ \ {f}]
  /\ UNCHANGED db

\* _record_failure, and the exception ends ingest_all: the files that follow,
\* of every source, stay undelivered.
RejectFile(f, reading) ==
  /\ ~IsIngestible(reading)
  /\ rows' = IF \E r \in rows : r.file = f /\ r.content = disk[f] THEN rows
             ELSE rows \cup {[file |-> f, content |-> disk[f], status |-> "FAILED",
                              vouched |-> report = "accepted"]}
  /\ command' = Idle
  /\ UNCHANGED <<versions, current, ledger>>

\* The next file of ingest-all, read when its turn comes.
TakeFile ==
  /\ command.name = "ingest"
  /\ command.todo # {}
  /\ \E f \in {First(command.todo)} :
       IF \E r \in rows : r.file = f /\ r.content = disk[f] /\ r.status = "COMPLETED"
       THEN SkipFile(f)
       ELSE \E reading \in {ReadingOf(f, disk[f])} :
              IngestFile(f, reading) \/ RejectFile(f, reading)
  /\ UNCHANGED <<disk, manifest, report, calls>>

EndIngest ==
  /\ command = [name |-> "ingest", todo |-> {}]
  /\ command' = Idle
  /\ UNCHANGED <<disk, manifest, report, calls, db>>

-----------------------------------------------------------------------------
(* What happens to the commands and the files from outside. *)

\* A command is interrupted between two files.
KillCommand ==
  /\ command # Idle
  /\ calls.faults < MaxFaults
  /\ Cardinality(command.todo) \in Pauses
  /\ command' = Idle
  /\ calls' = [calls EXCEPT !.faults = @ + 1]
  /\ UNCHANGED <<disk, manifest, report, db>>

DamageFile ==
  /\ command = Idle
  /\ calls.faults < MaxFaults
  /\ \E d \in Spots :
       /\ disk[d[1]] = "intact"
       /\ disk' = [disk EXCEPT ![d[1]] = d[2]]
  /\ calls' = [calls EXCEPT !.faults = @ + 1]
  /\ report' = "none"
  /\ UNCHANGED <<manifest, command, db>>

Next ==
  \/ StartGenerate \/ WriteFile \/ OpenManifest \/ WriteManifest
  \/ Validate
  \/ StartIngestAll \/ TakeFile \/ EndIngest
  \/ KillCommand \/ DamageFile

Spec == Init /\ [][Next]_vars

-----------------------------------------------------------------------------
(* Properties. *)

\* Types; a rate id has one ledger row, and a load shows one of its versions.
TypeOK ==
  /\ disk \in [Files -> Contents \cup {None}]
  /\ manifest \in {"absent", "torn", "whole"}
  /\ command.name \in {"idle", "generate", "manifest", "ingest"}
  /\ command.todo \subseteq Files
  /\ rows \subseteq [file: Files, content: Contents,
                    status: {"COMPLETED", "FAILED"}, vouched: BOOLEAN]
  /\ \A l \in LoadIds : current[l] # None => current[l] \in versions /\ current[l].body.load = l
  /\ \A r, q \in ledger : r.id = q.id => r = q
  /\ report \in {"none", "accepted", "refused"}

Completed == {r \in rows : r.status = "COMPLETED"}

Delivered == {r.file : r \in Completed}

\* ingest-all: whatever was killed, refused, damaged and repaired, the files in
\* the database are the first ones of the global order, none left out; so no
\* load ever shows a state whose past is missing.
DeliveredIsAPrefix ==
  LET missing == Files \ Delivered
  IN  missing # {} => \A f \in Delivered : ~Before(First(missing), f)

\* The loads that a file or an earlier one of its source describes.
DescribedBy(f) ==
  UNION {{e.load : e \in EventsOf(<<tick, f[2]>>)} : tick \in 0..f[1]}

\* validate-data and ingest-all: of a disk that the validator accepted, ingestion
\* refuses a file only for a rate row whose load neither it nor an earlier file
\* describes.  That reference alone is followed by one of the two programs; all
\* others hold for both, in whatever order commands ran and files were edited.
RefusalsAreOfUnknownLoads ==
  \A r \in rows : r.status = "FAILED" /\ r.vouched =>
    \E reading \in {ReadingOf(r.file, r.content)} :
      /\ reading.ok
      /\ \E e \in reading.sync.entries : e.load \notin DescribedBy(r.file)

\* Every file of a source that is in the database was as generated, or was on a
\* disk that the validator accepted.
IsSound(source) ==
  \A r \in Completed : r.file[2] = source => r.content = "intact" \/ r.vouched

Lifecycle == [l \in LoadIds |-> [t \in Ticks |-> LifecycleAfter(l, t)]]

\* The projection of a load: the adapter's load, with the coordinator's carrier
\* and, for HaulDesk, its ledger totals; no BILL row is ever sent.
Shown(l) ==
  [current[l].body EXCEPT
     !.carrier = current[l].carrier,
     !.carrier_rate = current[l].pay,
     !.customer_rate = IF l[1] = "HAULDESK" THEN 0 ELSE @]

\* What the sources can say of a lifecycle state: FreightFlow always states a
\* customer rate, HaulDesk states money only in its ledger, to which an edit may
\* have added.
AddedTo(l) ==
  MapThenSumSet(LAMBDA r : r.amount, {r \in ledger : r.id = <<l, Added>>})

AsTold(l, state) ==
  [status        |-> state.status,
   carrier       |-> state.carrier,
   customer_rate |-> IF l[1] = "HAULDESK" THEN 0
                     ELSE IF l[1] = "FREIGHTFLOW" /\ state.customer_rate = None THEN 1450
                     ELSE state.customer_rate,
   carrier_rate  |-> IF l[1] # "HAULDESK" THEN state.carrier_rate
                     ELSE IF state.carrier_rate = None THEN AddedTo(l)
                     ELSE state.carrier_rate + AddedTo(l)]

\* Generator, serializers, adapters and coordinators together: once sound files
\* up to some tick are in the database, every load shows exactly the lifecycle
\* state, the equipment and the route the generator gave it at that tick; all
\* that an edit which the validator accepts can change is the money it adds.
ProjectionsFollowLifecycle ==
  \A s \in {s \in Sources : IsSound(s)} :
    \A last \in {t \in Ticks : <<t, s>> \in Delivered /\ <<t + 1, s>> \notin Delivered} :
      \A l \in {l \in LoadIds : l[1] = s} :
        \E told \in {AsTold(l, Lifecycle[l][last])} :
          IF told.status = None THEN current[l] = None
          ELSE \E shown \in {Shown(l)} : \E lane \in {LaneOf[l]} :
                 /\ \A field \in DOMAIN told : shown[field] = told[field]
                 /\ \A field \in {"customer", "equipment", "stops"} :
                      shown[field] = lane[field]

=============================================================================
