# A TLA+ model of Carrier Pool

Carrier Pool (`src/README.md`, `src/DECISIONS.md`) ingests the sync files of three
transport management systems (FreightFlow, HaulDesk, BrokerOS) for three tenants,
keeps an immutable history of what each source said of each load, shows a mutable
*current projection* of it, and computes decisions (a rate estimate and a carrier
ranking) from what was known at a given time. This directory holds TLA+ modules for
the parts of it that carry state or decide something, the TLC configurations that check
them on small instances, and proofs, checked by TLAPS, of what holds for every instance.

All paths below are relative to `src/backend/src/carrier_pool/` unless they start
with `docs/` or `src/`.

## 1. Inventory

| Component | State it keeps | Operations | Talks to |
|---|---|---|---|
| Version precedence, `ingestion/precedence.py` | none | `choose_current_version` | coordinators, rebuild |
| Snapshot coordinators, `ingestion/coordinator.py` (FreightFlow, BrokerOS) | `ingestion_files`, `load_versions`, `loads`, `stops`, `customers`, `carriers` of one tenant | `ingest` (no-op, parse, insert the file row, one loop iteration per load, commit, roll back), `_record_failure` | one PostgreSQL transaction per file |
| HaulDesk coordinator, same file | the above and the append-only `source_rate_entries` | `ingest`: rate rows first, then a version per affected load, with ledger totals | as above |
| Rebuild, `ingestion/rebuild.py` | rewrites `loads`, `stops`, `customers`, `carriers` | `rebuild_current_projections` | reads `load_versions` and the ledger in one transaction |
| Source adapters, `ingestion/{freightflow,hauldesk,brokeros,base,conversions,mappings}.py` | none | parse, validate, normalize one file | called by the coordinators |
| Discovery and orchestration, `ingestion/discovery.py`, `cli.py` | none of its own | sort files by time over all tenants, submit them one by one | coordinators |
| Tenant context and row-level security, `db/tenant.py`, migration `20260727_04` | a transaction-local setting | `set_tenant_context` | every query |
| Decision runs, `decisioning/decision_runs.py` | immutable `decision_runs` and `carrier_recommendations` | `run`: pick the input version, estimate, rank, reuse or insert | comparables, pricing, features, scoring |
| Comparables and geography, `geography/*.py` | none | tiered retrieval as of a time | decisions, pricing |
| Pricing and statistics, `decisioning/{pricing,statistics}.py` | none | weighted quantiles, effective sample size, blending | decisions, backtest |
| Carrier features, scoring, explanations, `decisioning/carrier_*.py` | none | features as of a time, scores, ranks | decisions |
| Backtest, baselines, ranking evaluation, `decisioning/{backtest,baselines,ranking_evaluation}.py` | files under `artifacts/` | offline evaluation | pricing, scoring |
| HTTP API, `main.py` | none | read projections and stored decisions | database |
| Generator, `generator/*.py` | files under `data/` | load lifecycle, sync schedule, serializers, validation | produces the sync files |
| Frontend, `src/frontend` | page state | loads, selection | API |

### What is hard about it

* **Order.** A file can be delivered late or again. The projection must follow the
  precedence triple (source sync, source modification, observation) and not the
  arrival; two versions may tie in all three.
* **Partial failure and crashes.** A file is one transaction: when the third load of
  it fails, the rows of the first two must go, and a second transaction records the
  failure. The process can die before, between or after the two.
* **Retries.** The unique key on (tenant, SHA-256) makes a repeated file a no-op, and a
  failed checksum final.
* **Derived rows.** Projections, party rows and ledger totals can be rebuilt from the
  immutable facts; the two ways to compute them must agree.
* **Time travel.** A decision may use only what was known at `as_of`; versions that
  arrive later with an older observation time change what "known at" means.
* **Concurrency.** Nothing keeps two commands from running at once: the code takes no
  lock and compares no version number on update. What separates two transactions is
  PostgreSQL's READ COMMITTED, the row locks of the statements that happen to be issued,
  and the unique constraints of the schema. A rebuild computes what it will write from
  one early SELECT and deletes all stops of the tenant.
* **Two descriptions of one thing.** The generator, its serializers, the validator, the
  adapters and the coordinators each hold their own tables of words, times and rules;
  the backtest ranks again, later, what a decision ranked at the time.

`PROJECT.json` lists each of these as a hazard, at the line where it bites, with the
properties that would catch it, or a note on why none does.

### What makes each component correct

* Precedence: a strict order on versions; status never ranks, a regression is an anomaly.
* Coordinators: all or nothing per file; facts are immutable; the projection shows a
  version no stored version outranks and copies all of it; counters match the facts;
  a checksum's verdict is final; the supersession links form one tree per load.
* HaulDesk: a rate id counts once; every version states the sums of its ledger.
* Rebuild: reproduces the projections, whatever order the rows are read in, and repairs
  what calls that overlapped have torn.
* Generator, validator, adapters, orchestration: what the validator accepts is ingested,
  but for a rate row of an unknown load; delivered files are a prefix of the global order; every load shows the lifecycle state
  the generator gave it.
* Decisions: immutable, reproducible, and blind to what was observed after `as_of`.
* Estimates: within the displayed evidence, explained by it, monotone in the rates.
* Rankings: a load counts once however many components it supports; a ranking made again
  later is the one that was made; every case is ranked or has a reason not to be.
* Tenants: no statement reads or writes rows of another tenant.

## 2. Modules

| Module | Models | Kind |
|---|---|---|
| `Precedence` | `ingestion/precedence.py` | operators, used by all ingestion modules |
| `SnapshotIngestion` | the FreightFlow and BrokerOS coordinators and the rebuild | state machine |
| `CurrentView` | what the projections promise their readers (`docs/architecture/database.md`) | abstract specification |
| `HaulDeskIngestion` | the HaulDesk coordinator, its ledger and its part of the rebuild | state machine |
| `ConcurrentIngestion` | several snapshot-coordinator calls of one tenant and a rebuild at once, statement by statement; implements `CurrentView` under a condition | state machine |
| `ScenarioCatalog` | the authored world of `generator/catalog.py` | data |
| `SyncGenerator` | the schedule of `generator/scheduler.py`: which load changes how in which file | operators, extends `ScenarioCatalog` |
| `SyncFiles` | `generator/{lifecycle,serializers}.py`: a file in the words of its source | operators, extends `SyncGenerator` |
| `SourceAdapters` | `ingestion/{freightflow,hauldesk,brokeros,mappings}.py`: what a file is normalised to | operators |
| `SyncPipeline` | `generate`, `validate-data` and `ingest-all`, killed and repeated, composing the four above with what ingestion does to a load | state machine |
| `Decisions` | `decide-active` and `DecisionRunService.run`, with ingestion going on | state machine |
| `RateEstimation` | tiers, carrier rates, weighted quantiles and the folded estimate (`geography/comparables.py`, `decisioning/{pricing,statistics}.py`) | operators over a growing history |
| `CarrierRanking` | `decisioning/carrier_{features,scoring}.py`: features, scores, order and fit groups as of a time | operators |
| `RankingBacktest` | rankings while history is delivered, late files and rebuilds, and the replay of `decisioning/ranking_evaluation.py` | state machine, extends `CarrierRanking` |
| `MCSnapshotIngestion`, `MCHaulDeskIngestion`, `MCConcurrentIngestion`, `MCSyncPipeline`, `MCDecisions`, `MCRateEstimation`, `MCRankingBacktest` | instances | for TLC |
| `FiniteFolds` | finite sets, sums and folds: what recursion over a finite set defines, how sums grow and split, and what a fold over a sequence has after each step | lemmas the next ones cite |
| `SnapshotIngestionProofs` | every property of `SnapshotIngestion`, the refinement of `CurrentView` among them | proofs |
| `HaulDeskProofs` | every property of `HaulDeskIngestion`, with what does not change a sum over a ledger | proofs |
| `ConcurrentProofs` | every safety property of `ConcurrentIngestion`, and that steady loads implement `CurrentView` | proofs |
| `DecisionsProofs` | every property of `Decisions`, and what its two disagreements need | proofs |
| `RankingProofs` | every property of `RankingBacktest`, with what scores, their order and fit groups are | proofs |
| `PipelineProofs` | types and the prefix of `SyncPipeline` | proofs |
| `RateProofs` | every property of `RateEstimation`, with what quantiles and blending do | proofs |

### SnapshotIngestion

| Variable | In the code |
|---|---|
| `db` | the committed rows of one tenant: `ingestion_files` by checksum, `load_versions` by snapshot hash, `loads` with their stops, `parties` (customers and carriers) |
| `work` | the same rows as the open transaction sees them |
| `session` | the call that runs: its phase, its file and the next snapshot of the file |
| `scan` | the rebuild's pass: the version rows not read yet and the version kept per load |

| Action | In the code |
|---|---|
| `OpenFile` | `ingest_file` / `_ingest_discovered` is called with a file |
| `ReturnNoOp` | a `COMPLETED` row with this checksum exists |
| `RejectMalformed` | the adapter raises |
| `RefuseFailedChecksum` | the insert of the file row violates `uq_ingestion_files_tenant_sha256` |
| `InsertFile` | the `PROCESSING` row is added |
| `PersistNext` | one iteration of the loop: parties, look-up of the hash, version, precedence, projection, stops, counters |
| `Commit` | status `COMPLETED` and the end of the transaction |
| `RollBack`, `RecordFailure` | the `except` branch of `ingest` and the transaction of `_record_failure` |
| `Die` | the process or the connection is lost in any phase |
| `StartRebuild`, `ScanVersion`, `ApplyRebuild` | `rebuild_current_projections` |

Abstractions, all on the side of data: a timestamp is a natural number; a file and a
load object are identified by their SHA-256, so a snapshot *is* its hash and its
facts; an adapter's parsing is a partition of the files into well-formed and malformed
ones, and its per-file warnings (which add to `warnings_count` before the loop) count
as zero; city, weight, rates and stops are part of the snapshot. Party names and
contacts are kept apart from the snapshot because they end in rows that loads share.
One session runs at a time; `ConcurrentIngestion` gives that up.

### HaulDeskIngestion

A HaulDesk file carries bodies without money, and rate rows. `Ingest` is the whole
`_ingest` of one file in one step (a transaction of its own, in a single session):
insert the unseen rate ids, sum the ledger as of the file, write a version per
affected load unless its hash exists, choose the current version. A *rate-only* sync
copies the body of the load's current version. The text of a total is part of the
hash, and a side without rows gives `None` where a side whose rows cancel gives
`"0.00"`; `Written` keeps that difference. `Fail` covers every way a file can fail,
among them a rate row for an unknown load. Customers and carriers are left out, they
follow the same rules as in `SnapshotIngestion`.

### ConcurrentIngestion

The same files, snapshots and rows, with any number of sessions. One session at most
rebuilds the projections, the others ingest; an action is one SQL statement, or two of
which only the first can wait for a lock.

| Variable | In the code |
|---|---|
| `db` | the committed rows; a load's stops are one row, whose snapshot they are of and who inserted them |
| `call` | the statement each session is about to run: file, snapshot and party; for a rebuild, what it is going to write (`plan`) and the rows still to go (`todo`) |
| `known` | the session's SQLAlchemy identity map: a row keeps the attributes it was first read with, so `load.current_version` may be out of date when `_becomes_current` asks for it |
| `mine` | the rows the open transaction has written or deleted; they are also the rows it holds locks on |
| `rebuild` | whether the one rebuild ran, and whether any other session was open while it did |

| Action | In the code |
|---|---|
| `LookUpFile`, `InsertFile` | the look-up by checksum and the flush of the file row |
| `SelectParty`, `WriteParty` | `_customer` and `_carrier`; their writes reach the database with the flush before the next query |
| `SelectLoad`, `InsertLoad`, `LookUpVersion`, `InsertVersion`, `Project`, `ReplaceStops` | one iteration of the loop; `Project` is the UPDATE of the load, `ReplaceStops` the DELETE and INSERT of its stops |
| `StartRebuild` | the SELECTs of `rebuild_current_projections`: all versions, from which the plan is made, then parties and loads |
| `FindStops`, `DeleteStops` | its `DELETE FROM stops`: the rows it sees, then each of them, waiting for whoever holds it |
| `PutParty`, `PutLoad`, `PutStops`, `NextPhase`, `CommitRebuild` | its flush: parties, loads (no UPDATE where nothing changes), stops; a stop that is there again is a unique violation and ends the rebuild |
| `Commit`, `Abort`, `RecordFailure`, `Die` | as in `SnapshotIngestion` |
| `BreakDeadlock` | PostgreSQL aborts a transaction of a circle of waiting ones |

`Blockers` says whom a statement waits for. An INSERT waits for an open transaction that
inserted the same unique key. An UPDATE waits for one that wrote the row. An INSERT of a
version or a stop takes a key-share lock on its load through the foreign key;
`current_version_id` is unique, so PostgreSQL treats the UPDATE that moves it as one of a
key column, which conflicts with key-share locks. An UPDATE names only the columns whose
value differs from what the session read (`Updated`), and a row without a net change is
not written at all (`NeedsWrite`, `MovesParty`, `MovesLoad`); stops are deleted and
inserted in any case. A rebuild's look-up of a party and its write are one step: reading
it earlier allows no outcome this one does not. The warnings and counters, malformed files
and the order of unrelated columns are left to `SnapshotIngestion`, where they do not
depend on other sessions.

What keeps calls apart in practice is the customer row: `_customer` writes
`last_observed_at` before the load is read, so calls whose versions of a load name the
same customer take turns. Nothing in the code says that this is intended, and it is
gone as soon as a load changes its customer (`lost_update`). A rebuild has no such row:
it does not write a party whose time stays the same, and it deletes the stops of a load
whose version it never saw (`rebuild_race`). `RebuildRepairs` says what it is good for:
run alone, it brings every load and its stops back to the current version, whatever the
calls before it left behind.

### The sync pipeline

`ScenarioCatalog`, `SyncGenerator`, `SyncFiles` and `SourceAdapters` hold no state. They
are the real catalogue (60 loads of three sources) and the real schedule (123 files: four
a day for ten days and one on day 11, for each source), not a reduced instance: the
hazard is in the tables and in how they meet. The generator's and the
adapters' tables are translated from different files and never refer to each other;
`SourceAdapters` does not extend the generator.

| Variable of `SyncPipeline` | In the code |
|---|---|
| `disk` | `data/<source>/*.json`: intact, damaged in one of eight ways (`Damages`), or absent |
| `manifest` | `data/scenarios.json`, written in place |
| `command` | the command that runs and the files it has yet to handle |
| `rows` | `ingestion_files`: file, content, status (and whether a validator had accepted the disk, which no action reads) |
| `versions`, `current`, `ledger` | `load_versions`, `loads.current_version_id`, `source_rate_entries` |
| `report` | the result of the last validation of this disk |
| `calls` | how often commands ran and faults struck (a bound) |

| Action | In the code |
|---|---|
| `StartGenerate`, `WriteFile`, `OpenManifest`, `WriteManifest` | `write_sync_files`, a file by temporary name and rename, then `write_scenarios_manifest` |
| `Validate` | `validate_generated_data` |
| `StartIngestAll`, `TakeFile`, `EndIngest` | `discover_sync_files`, which lists eagerly whatever files there are (the source directories are part of the repository), and the loop of `ingest-all`; `TakeFile` reads the file when its turn comes: skip, ingest, or record the failure and stop |
| `KillCommand`, `DamageFile` | the outside: a command is interrupted, a file is edited |

`TakeFile` is one step: that a file is all or nothing is proved of `SnapshotIngestion`
and the order of its statements is `ConcurrentIngestion`'s. It contains what decides
which version a load shows: snapshot identity, precedence, carrier look-up, ledger, and the
version of a load that a file has only rate rows for (`RateOnlyVersion`).
Left out: names, miles, weights, MC numbers, the seed, and text layout. A location stands
for its ZIP code, an external id for what it is the hash of.

### CarrierRanking and RankingBacktest

`CarrierRanking` is `CarrierFeatureService.retrieve` and
`CarrierHistoricalFitScorer.score` as functions of the versions in the database:
evidence tiers, the four components with renormalised weights, Kish's effective sample
size over each load's strongest weight, shrinkage, confidence, order and fit groups.

| Variable of `RankingBacktest` | In the code |
|---|---|
| `now` | the tick of the last sync |
| `story`, `told`, `held` | the environment: what happens to each load, how much is in syncs, and the sync that is delivered late |
| `versions`, `first` | `load_versions` and `carriers.first_observed_at` |
| `live` | stored rankings of decisions |
| `chronological` | whether every file was newer than all before it (no action but the holding reads it) |

| Action | In the code |
|---|---|
| `Sync`, `IngestHeld` | a file with a new version is ingested, now or later; `_carrier` creates the row |
| `Rebuild` | `_rebuild_carriers` |
| `Decide` | a decision on the version an active load shows |

`RankCase` is a case of `RankingBacktestHarness`: a load that was once active and once
booked, ranked as of its first active version against the carrier it was last seen
with, with or without one of the components (`Ablations`). One sync of a tenant is one
tick, and a tick stands for fifteen days, so that few syncs span the half-lives. The
exponentials are tables in percent, shares are percents or per mille and scores
hundredths of a point, each rounded down where the code has 28 digits: the
properties are about what counts, what is there and what follows what, and
`TieScoreMargin` is exact. The tables cover the ages up to `Horizon`, and `Sync` stops
there. `CallOrder` is the code's `sorted`, as the sequence of the candidates in which each
comes before all later ones by the key; the carrier's name ends the key, so there is one.

### Decisions

| Variable | In the code |
|---|---|
| `facts` | the committed `load_versions` of all tenants |
| `shown` | `loads.current_version_id` |
| `decisions` | the committed `decision_runs` |
| `command` | per command: the SELECT it is at, the tenant, the loads still to decide, what the run has read so far, and the rows it has added |

| Action | In the code |
|---|---|
| `Publish` | a file is committed (`SnapshotIngestion` has the details) |
| `Start`, `ListLoads`, `NextTenant`, `Commit` | `decide_active`: one transaction over all tenants, loads listed once per tenant |
| `ChooseInput`, `Refuse` | `_active_input_version`; a raise ends the command without a commit |
| `Price`, `Rank` | the queries of `HierarchicalRateEstimator.estimate` and of `CarrierFeatureService.retrieve`, each of which reads history again |
| `Store` | the look-up by identity, then the insert or the reuse |
| `Die` | the process or the connection is lost |

A decision is its input, its target and the two sets of versions its evidence comes
from; estimates and scores are functions of these (and of distances and model
parameters, which no other process changes) and are left out, as are the queries inside
`estimate` and `retrieve` that fetch columns of versions already chosen. The model
versions and parameters of the identity are constants of the code.

### RateEstimation

| Variable | In the code |
|---|---|
| `known` | the latest version of each other load of the tenant at the decision time (`latest_by_load`) |
| `ledger` | the HaulDesk `PAY` rows observed by then |
| `target` | the version the decision is about |

`ObserveVersion` and `ObserveRate` let history go on; everything else is an operator of
the state. `Matches` and `Retrieved` are `_tier` and its buckets, `Rate` is
`_carrier_rates_at_as_of`, `WeightedQuantile` and `IsSparse` are the statistics, and
`ResolveHierarchy` is the loop from the broadest tier to the narrowest.

A weight is an exponential of distances and age. Quantiles, effective sample size and
blending depend on weights only up to a common factor, and the passing of time
multiplies all of them by one factor, so positive integers stand for them. Where the code
computes in `Decimal` with 28 digits the model is exact: an estimate has one denominator
`den` for point, lower and upper. The epsilon in `_is_sparse`, which absorbs rounding, is
zero. Confidence and warnings are left out.

## 3. Runs

| Run | Checks | Result |
|---|---|---|
| `snapshot` | every invariant, action property and the refinement of `CurrentView`, with ties, re-sent snapshots, malformed files, crashes and rebuilds | hold |
| `hauldesk` | ledger, projections and rebuilds in any order of delivery, and what versions state while delivery is chronological | hold |
| `concurrent` | two sessions, of which one may rebuild: projections, their stops, the refinement of `CurrentView` for the load that keeps its customer, what a rebuild repairs, termination | hold |
| `pipeline` | `generate`, `validate-data`, `ingest-all` over the real schedule, with a kill or a damaged or edited file: prefix, validator against ingestion, projections against the lifecycle | hold |
| `decisions` | a `decide-active` command while files are committed in any order: its decisions can be reproduced, see no future and miss no load | hold |
| `rates` | the estimate over every history of seven loads, for two targets | hold |
| `ranking` | rankings at the time and replayed, over every order of seven syncs, with a late one and rebuilds | hold |
| `hauldesk_revert` | `DECISIONS.md`: the total is the ledger sum | violated when a content returns, even with chronological delivery (`ChronologicalSpec`) |
| `lost_update` | `docs/STATUS.md`: older snapshots cannot replace current state | violated by two calls at once |
| `rebuild_race` | `docs/STATUS.md`: a rebuild reconstructs loads and stops from the versions | violated by an ingest during a rebuild |
| `decisions_refused` | `cli.py`: every active load gets a decision | violated by a tie |
| `decisions_race` | `docs/STATUS.md`: the same identity is reused | violated by two commands |

**Bounds.** `snapshot` has two loads, six snapshots and five files: two files that
tie in all three times, a file that re-sends a snapshot of another, one that moves a
load back in its lifecycle, one malformed. Two versions are enough for a wrong choice,
three for a wrong choice that a later one hides, and each interesting file meets each
other one in both orders. Load `l1` has ties but no snapshot that is sent twice, `l2` the
opposite: each is the premise of one of `RebuildKeepsLoads` (no ties) and
`DeliveryOrderIrrelevant` (neither ties nor repeats) for some load, and the mutants show
that neither is vacuous. The HaulDesk instance has five files
and two loads: line haul, surcharge, an adjustment that takes it back, a later body that
re-sends a rate id with another amount, and a file that needs another one first. There
is no state constraint: the state spaces are finite because facts are.

The concurrent instance has two sessions (a lost update, a torn row and a circle of
waiting all need exactly two), of which one may run a rebuild (`Rebuilders`), and four
files: two that carry versions of the same two loads in opposite order, one with a newer
version of the load that keeps its customer and one with a newer version of the other,
behind a snapshot that the first file sent. Each load needs three files of its own for an
older version to overtake: one that created the row, one that read it and one that
commits in between; with fewer files either the party lock is never what keeps the first
load right, or the second load is never wrong and a rebuild has nothing to repair. While
the rebuild runs the other session may ingest one of the files (`Beside`), in
`rebuild_race` any; a rebuild that leaves nothing behind, because it died or was aborted,
may be started again. `lost_update` and `rebuild_race` have three files with
one snapshot per file. The instance of `Decisions` has two tenants, an active load that
is corrected and then covered, a completed load that is corrected, and a load of the
other tenant with two versions of one sync time, so that a command is refused in
`decisions` too; its two violations leave out the versions they do not need, and
`decisions_race` has two commands.

The instance of `RateEstimation` has four loads that can form a rich tier (effective
sample size exactly four with equal weights), at the boundaries of 25 and 50 miles, a
correction of a rate upward, one to another tier, one that removes a completion and one
that removes a rate, a ledger whose partial sums change sign, and a load of other
equipment. A target of unknown equipment sees all of them but the last in one tier.

`pipeline` lets each of `generate` and `ingest-all` run twice and one fault strike, which
is what "killed and run again" and "damaged, then generated again" need. A kill comes
after the first file (122 left), in the middle of the history (70 left) or at the end.
Damage comes to one file of the three sources, at a tick where a load is covered or
settled, in one of ten ways: no JSON (`broken`), an unknown stop type (`roles`), a time
that is not that of the name (`late`), a lost carrier (`orphan`, in two sources), a rate id
sent twice (`twice`), a rate row for a load nobody knows (`stray`) or for one of earlier
files (`surcharge`), and loads older than they were (`backdated`). The validator accepts
`stray`, `surcharge` and `backdated`; ingestion refuses the first of the three. Two faults
in one behaviour are left out. `ranking` has three carriers and four
loads in two stories: one with a correction of a load's equipment and a load that is a
case of its own, one with a target of unknown equipment, three carriers that are close and
a lane without known geography. One sync may be held back, and every order of the loads'
syncs is explored; three candidates are the least with which a chain of fit groups can go
wrong.

**Deadlock** is checked: a session can always open another file, start a rebuild or start
a command, and a load can always be observed with another version. In `ranking` a rebuild
is always possible. Only `pipeline.cfg` says `CHECK_DEADLOCK FALSE`, because the
operator's commands are counted and the last one may be over.

**Fairness.** Commands are run by hand, so no module promises that one is started. In
`ConcurrentIngestion` a call that was started is a process that goes on: `FairSpec` has
strong fairness of `Statement(p)`, of an ingest or of a rebuild, for each session. Strong,
because a session that waits for a lock is enabled again and again while others come and
go, and PostgreSQL queues the waiting sessions, so the lock does come to it. Dying is not
fair, and neither is opening a file. Without `BreakDeadlock` the property `EveryCallEnds`
is violated: two files about the same loads in opposite order do wait for each other. The
call that is broken ends as a `FAILED` file, and that checksum cannot be ingested again.
`Decisions` states no liveness: a command may die, and a refused one ends without a
decision.

**Order of delivery as a premise.** `VersionsStateTheirLedger` and `VersionsShowThePast`
are about steps that are `Chronological`, the order `ingest-all` uses: the file that is
ingested is newer than all before it. The states they start from may have any past.
`ReplaysMatchLive`, and the half of `EveryHistoryIsRanked` that compares the carrier rows
with a rebuild, speak of behaviours that are `chronological` so far: with a late file they
are false, and section 5 says what then happens. The other half of `EveryHistoryIsRanked`
holds in any order: a late file can hide only a carrier whose row it has left behind.
`RebuildKeepsProjections` holds in any order too. It is about loads whose version is
`Undisputed`; where a rate row came late (`MoneyIsTimely` is false) it says which ledger
sums the rebuild computes, and that nothing but the money changes. That a replay may
not read anything after its cutoff is checked where it is hard, with later corrections of
the evidence and rebuilds in between.
`DecisionsReproduce` excepts a decision whose past has changed under it: each decision
remembers (`known`, a history field no action reads) what was committed when the command
listed its loads, and a file of the tenant that is observed by the decision time and
committed later excuses it (`CameLate`). The stored decision is then deliberately left
as it is. `EveryActiveLoadIsDecided` is about loads without two files of one sync time;
`decisions_refused` is what happens with them.

**What the pipeline promises after damage.** `ProjectionsFollowLifecycle` is about the
sources whose delivered files were intact or on a disk that the validator accepted. A file
that was edited and ingested without `validate-data` may say anything; the property then
says that the other sources are not affected, and that an accepted edit is harmless: the
loads of a `backdated` file still follow their lifecycle, and a `surcharge` changes the
total of its load by just its amount (`AddedTo`).
`RefusalsAreOfUnknownLoads` is the contract between two programs that share no code for it:
of what `validate-data` accepted, `ingest-all` refuses a file only for a rate row of a load
that neither it nor an earlier file describes. That this one case exists is a difference
with the documentation (section 5).

**DeliveryOrderIrrelevant** is about loads whose snapshots neither tie nor come in two
files. When a snapshot does come in two files, the outcome does depend on the order: a
version keeps the timing of the file that
stored it first, so a snapshot that a newer file re-sends unchanged may lose against one
that was observed in between. `CurrentIsLatest`, which is about stored versions, holds
in any case.

**What makes a load steady.** `ProjectionsAreWhole` and the refinement in
`ConcurrentIngestion` are about `SteadyLoads`. The versions of such a load name one common
party, and no two *files that write this party* have one sync time (`TakesTurns`): then the
write of the party's `last_observed_at` is an UPDATE in every call, and its row lock makes
the calls take turns. A file of a different load counts as well: if it names the same
party at the same sync time and commits first, a call about our load finds nothing to
write and takes no lock. An earlier form of `Steady` asked for different sync times only
of the files of the load itself; the proof did not go through, and TLC, given such a file,
showed a row mixed from two versions. Besides, a steady load has no two versions in one
file with one modification time, which would tie. The stops of *every* load follow its
version as long as no rebuild runs beside another command, the other half of
`ProjectionsAreWhole`.

**Mutants.** Each property of a passing run is violated once one definition is replaced
by the faulty variant defined next to it (`Faulty variant of ...` in the modules).

## 4. Proofs

TLAPS proves the theorems below for every value of the constants that satisfies the
modules' assumptions: the types of the constants, `None` being none of the values, and
facts of the code named where they are declared. No theorem rests on a bound of a `.cfg`.
Each state machine has an inductive invariant of named parts; a lemma per action shows that
it is kept, and a temporal theorem then reads off the property. TLC was given each of
them on the instances of the runs before it was proved.

| Module | Properties of its run that are proved | Left to TLC |
|---|---|---|
| `SnapshotIngestion` | all | none |
| `HaulDeskIngestion` | all | none |
| `ConcurrentIngestion` | `TypeOK`, `ProjectionsAreWhole`, `RebuildRepairs`, `ImplementsCurrentView` | `EveryCallEnds` |
| `Decisions` | all | the two violations |
| `RankingBacktest` | all | none |
| `SyncPipeline` | `TypeOK`, `DeliveredIsAPrefix` | `RefusalsAreOfUnknownLoads`, `ProjectionsFollowLifecycle` |
| `RateEstimation` | all | none |

### Snapshot files, one session

The properties are not inductive by themselves. The invariant has layers:

1. `TypeInv`: the types; a load points to a stored version of its own; outside a
   transaction `work` equals `db`; only the session's file may be `PROCESSING`.
2. `TxInv`: the shape of an open transaction (`Shape`): the committed versions are in
   `work` unchanged, the new ones belong to the session's file, the other file rows are
   untouched, the lines before `next` are stored, and the file has no committed row.
   With `Carried` (a stored version is a line of its file) it gives `FilesAllOrNothing`,
   `FactsAreImmutable` and `VerdictsAreFinal`.
3. `RowsInv`: `LatestIn`, `ShowsCurrentIn` and `SupersessionIn` hold of `db` *and* of
   `work`, and the rebuild's scan has kept, per load, a version unbeaten among those it
   read (`ScanInv`). The step of both is `BestOfMore`: the later of an unbeaten version
   and a new one is unbeaten, which rests on `KeyLess` being a strict weak order.
4. `CountInv` (counters and the cardinality of what a file owns) and `MoveInv` (in a
   transaction a load shows what it showed, or something that outranks it, and if that is
   a regression the file has a warning).

| Theorem | States |
|---|---|
| `TypeCorrect` | `Spec => []TypeOK` |
| `FilesCorrect` | `Spec => []FilesAllOrNothing` |
| `FactsNeverChange`, `VerdictsNeverChange` | `Spec => FactsAreImmutable`, `Spec => VerdictsAreFinal` |
| `LatestCorrect`, `ShownCorrect`, `SupersessionCorrect` | `Spec => []CurrentIsLatest`, `[]ProjectionShowsCurrent`, `[]SupersessionIsATree` |
| `RebuildCorrect`, `OrderIrrelevant` | `Spec => RebuildKeepsLoads`, `Spec => []DeliveryOrderIrrelevant` |
| `CountersCorrect`, `RegressionsCorrect` | `Spec => []CountersMatchFacts`, `Spec => RegressionsAreRecorded` |
| `Refinement` | `Spec => ImplementsCurrentView` |

### HaulDesk and its ledger

`HaulDeskInv` is the types with the references of the rows (`Typed`, `Referenced`: a load
that has a version shows one of its own, observed with the file of that version), the
property `MoneyIsAccountedFor`, and `BodiesAreStated` (a version shows a body that a
completed file carried). The last is needed for a rate-only sync, which copies the body of
the load's current version. The action properties follow from it: rows that a file in order
brings lie after the cutoff of every sum that is stated, so no sum moves. A rebuild finds
the current version of an undisputed load in any order (`RebuildsAreFaithful`).

The library has no theorem on sums over a set that the provers could use. `FiniteFolds`
shows that the recursive function behind a sum exists (`RecursionExists`) and gives
integers (`SumIsAnInteger`): if it failed for some set, it would fail for a smallest one
(`SmallestSet`), which is impossible. `SumOf` is the sum of the community module's
`SumFunction`.

| Theorem | States |
|---|---|
| `HaulDeskInvariant`, `HaulDeskTyped` | `Spec => []HaulDeskInv`, `[]TypeOK` |
| `MoneyIsAlwaysAccountedFor` | `Spec => []MoneyIsAccountedFor` |
| `TotalsStandUnlessLate`, `VersionsAlwaysShowThePast` | `Spec => VersionsStateTheirLedger`, `Spec => VersionsShowThePast` |
| `RebuildsAreFaithful` | `Spec => RebuildKeepsProjections` |

### Several sessions

Three invariants, each resting on the one before.

1. `RowsInv`: the types; written rows are locked, so no two sessions have written one
   (`Locked`); one rebuild at most (`Alone`); what belongs to the statement each session
   is about to run (`Stands`); what a session has written and read of facts and loads
   (`WrittenFacts`, `WrittenLoads`), and what a rebuild has done and has still to do
   (`Rebuilt`).
2. `StopsInv`: a session that ingests writes a load and its stops together; a rebuild that
   nothing runs next to has all stops in its list, and deletes and inserts each. It gives
   the stops half of `ProjectionsAreWhole` for all loads, and `RebuildRepairs`.
3. `SteadyInv`: a session that works on a steady load has written the party of
   `TakesTurns` (`HoldsTurns`), so every version of the load it has not written itself is
   one it sees, and the current version it remembers is the committed one (`SeesSteady`).
   A rebuild writes nothing of a steady load (`SparesSteady`): its plan is the row as it
   is, or the row is locked. The committed row is therefore the whole projection of a
   version that nothing outranks.

`ConcurrentRefinement` maps each step to `CurrentView`: a commit to `PublishFile`, a
rebuild's commit and everything else to a stutter or a choice among equals.

| Theorem | States |
|---|---|
| `RowsInvariant`, `ConcurrentTyped` | `Spec => []RowsInv`, `[]TypeOK` |
| `StopsFollowTheirLoad`, `RebuildsAloneRepair` | `Spec => [](rebuild # "overlapping" => StopsFollowLoad)`, `Spec => RebuildRepairs` |
| `SteadyInvariant`, `ProjectionsStayWhole` | `Spec => [](RowsInv /\ SteadyInv)`, `[]ProjectionsAreWhole` |
| `ConcurrentRefinement` | `Spec => ImplementsCurrentView` |

### Decisions

`DecisionsInv` says of each job what was committed when the command listed it (`Listed`)
and that a query at its time finds what it found then unless a file came late (`Targets`,
`Samples`), of each command what it has read so far (`Read`), and of each decision what it
was made from (`DecisionSound`). The step that matters is `Publish`: a new version is either
observed after the job's time, and then no query sees it, or it came late.

Two theorems say what the disagreements of `decisions_refused` and `decisions_race` need:
without files of one load at one sync time no load is refused (`NoTieNoRefusal`), and with
one command no identity is stored twice (`OneCommandReuses`).

| Theorem | States |
|---|---|
| `DecisionsInvariant`, `DecisionsTyped` | `Spec => []DecisionsInv`, `[]TypeOK` |
| `DecisionsLookBack`, `DecisionsAreReproducible` | `Spec => []NothingFromTheFuture`, `[]DecisionsReproduce` |
| `ActiveLoadsAreDecided` | `Spec => []EveryActiveLoadIsDecided` |
| `NoTieNoRefusal`, `OneCommandReuses` | `[]NoActiveLoadIsRefused`, `[]SameIdentityIsReused`, each under its condition |

### Rankings

`RankingInv` has the types, `Named` (a carrier with a version has a row), and, while syncs
come in order, `Chronicle`: a carrier row is as old as its first version, and every stored
ranking is what its target is ranked to now. A carrier whose row says what a rebuild would
say is a candidate in any order (`HistoriesAreCandidates`). `RankingLooksBack` is the reason: two histories
that agree on what was known at a time rank alike, whatever the weights, the tables and the
scores. That proof does not open them, so it holds for every scoring rule that reads history
only through `Features`. The other properties are about the scores themselves, and their
proofs follow the computation:

1. *Numbers.* Every component is a score out of 100 or absent, and a mixture of such is one
   (`QuotientIs`, `ScoresAre`, `RawScoreIs`, `ConfidenceScoreIs`). `KishBounds` says that
   the effective size of positive weights lies between one and their number, from the
   square of a sum against a sum of squares (`SquareGrows`, `DistancesGrow`), and
   `EffectiveHistoryIs` that a carrier has one weight per load, however often a load is
   evidence. `FitIs` puts them together; without evidence the shrinkage leaves 50.
2. *Order.* `Precedes` is a strict total order of the candidates (`KeysAreOrdered`, with the
   carrier to break ties), so the sequence that `CallOrder` chooses exists and has each
   candidate once (`OrderExists`, `CallOrderIs`): none is lost in sorting.
3. *Groups.* `_assign_tie_groups` is a fold. `TieStepIs` and `TieSteps` give what it holds
   after each row; `GroupsHaveHeads` reads off that every member is within the margin of the
   one that opened its group, `GroupsAreNarrow` that groups are therefore narrow and that a
   group opens only where the margin to the one before it is exceeded.
4. *Cases.* Supported candidates come first in the order, so the supported list is a prefix
   of the whole (`SupportedIs`, `SupportedComeFirst`) and a carrier has the same rank in
   both (`RankIs`). Which loads are ranked depends on evidence alone, which no weight
   changes (`RanksLike`, `CaseRanksLike`).

The assumptions are the tables' types (`TablesAssumption`, a decay of one percent or more
among them, so that no weight vanishes) and `NoneAssumption`, which tells `None` from the
numbers and from `NoRankReasons`, the reasons a case may give.

| Theorem | States |
|---|---|
| `RankingInvariant`, `RankingTyped` | `Spec => []RankingInv`, `[]TypeOK` |
| `ReplaysAreFaithful` | `Spec => []ReplaysMatchLive` |
| `HistoryMakesCandidates`, `HistoriesAreRanked` | `Spec => []EveryHistoryIsACandidate`, `[]EveryHistoryIsRanked` |
| `LoadsCountOnce` | `Spec => []EvidenceCountsOnce` |
| `CasesAreAccountedFor` | `Spec => []EveryCaseIsAccountedFor` |
| `FitGroupsNarrow` | `Spec => []FitGroupsAreNarrow` |

### The pipeline

`PipelineInv`: the files on disk are a first part of the global order; a running `generate`
has on disk whatever it need no longer write (`WrittenIsPresent`); a running `ingest-all`
has still to come only what is on disk, and has delivered the rest of it
(`HandledIsDelivered`); what is delivered is a first part. That `generate` writes in the
order in which `ingest-all` delivers is what makes a kill of the former harmless to the
latter. For the types, `TablesInv` adds that a file is readable as what it holds, that a
load shows a version of its own and that a rate id has one row. That no file repeats a rate
id is `EntriesComeOnce`, a fact about the schedule which the code checks when it generates
(`generator/lifecycle.py:63`) and TLC evaluates.

| Theorem | States |
|---|---|
| `PipelineInvariant`, `PipelineTyped` | `Spec => []PipelineInv`, `[]TypeOK` |
| `DeliveryHasNoGaps` | `Spec => []DeliveredIsAPrefix` |

### Estimates

`RateEstimation` changes state only by learning more, and its invariant `History` is small:
each load shows at most one known version, which is its own, and the known versions and
rate rows are finitely many. Its properties are about values computed from such a history,
so the work is in the operators.

1. *Sums* (in `FiniteFolds`). `LeastNumber` and `SmallestSet` give the least number and the
   smallest set of a property; from them `RecursionExists` shows that a function on the
   subsets of a finite set exists whenever each value can be made from that of a smaller set,
   and `SumByParts` that weights and rate rows have sums with which one can calculate.
2. *Quantiles.* `QuantileUnfolds` says what the recursive walk of `WeightedQuantile` has
   passed when it stops, `QuantileIsLeast` that this is the least rate with enough weight,
   whatever order equal rates are walked in.
3. *Blending.* `Sound` (numbers in order, between the rates of what is shown, over a
   positive denominator) holds of one tier (`LocalIsSound`), and `BlendedIsSound` carries it
   through one mixture. `OnwardComesTo` takes it from tier to tier and with it that there is
   one estimate, or none where no tier has evidence.
4. *Less history.* The comparables that are shown are, tier by tier, the evidence of a
   history that knows nothing else (`Displays`), with one exception: the tiers broader than
   one that is not sparse are neither shown nor used.
5. *Higher rates.* A correction puts one version in the place of another (`Swap`), a rate
   row changes one rate. In both cases the tiers keep their members up to that swap, each
   quantile stays or rises (`QuantileRises`), and so does each mixture (`BlendedRises`).

`RatesAssumption` states the types of versions and rate rows, positive weights, and that
`None` is neither a version nor a number.

| Theorem | States |
|---|---|
| `RateInvariant` | `Spec => []History(known, ledger)` |
| `QuantilesAreAlwaysLeast` | `Spec => []QuantilesAreLeast` |
| `EstimatesStayWithinEvidence` | `Spec => []EstimateIsWithinEvidence` |
| `OneEstimateOrNone` | at most one estimate, and none exactly when no tier has evidence |
| `DisplayedEvidenceExplains` | `Spec => []DisplayedEvidenceSuffices` |
| `RaisesAlwaysRaise` | `Spec => []RaisesNeverLower` |

### What stays with TLC, and why

* `EveryCallEnds`: liveness under fairness and `ENABLED` are out of the prover's reach.
* `ProjectionsFollowLifecycle` is about the tables of the catalogue, the serializers and the
  adapters, which TLC evaluates and a prover would have to replay.
* `RefusalsAreOfUnknownLoads` is not proved: it needs an invariant that each load which a
  delivered file describes is known, through serializer, damage and adapter.
* What the library's induction theorems would give is not available, because they take an
  operator as a parameter; a least counterexample replaces them where a proof needs one.

## 5. Findings

The five runs with a violation show where the code and its documentation disagree.
`PROJECT.json` quotes the lines.

* `hauldesk_revert`: a HaulDesk surcharge that is taken back leaves the load's total at
  the surcharged sum.
* `lost_update`: two ingest commands at once can lose the newer version of a load that
  changes its customer.
* `rebuild_race`: an ingest that commits between the SELECT and the DELETE of a rebuild
  leaves a load with a version and no stops, or with the stops of an older version. A
  rebuild that runs alone repairs it (`RebuildRepairs`).
* `decisions_refused`: two versions of one observation time are told apart by a random id
  in decisions and by the modification time in projections; one such load makes
  `decide-active` fail whole.
* `decisions_race`: two `decide-active` commands at once store two decisions of one
  identity.

More differences came up while modelling, which no run of their own shows.

In ingestion:

* Customer and carrier rows follow arrival (`UpsertParties`): a late file moves a name
  back, where `docs/STATUS.md:187-188` has no older snapshot replace current state.
* A HaulDesk rate-only sync that arrives late copies the body of a *newer* version under
  its own, older observation time (`ingestion/coordinator.py:644`, against
  `DECISIONS.md:18-20`).
* The slower of two calls may leave a load row with columns of two versions (`Updated`
  in `ConcurrentIngestion`).
* After a late rate row a rebuild computes other HaulDesk totals than incremental
  ingestion did (the case of `RebuildKeepsProjections` without `MoneyIsTimely`).
* A rebuild takes `first_observed_at` of a party from the oldest version, incremental
  ingestion from the file that created the row; and it updates the contact of a carrier,
  which incremental ingestion never does (`RebuiltParties`, `UpsertParties`).
* `docs/architecture/database.md:293` describes a rebuild with a cutoff that truncates
  customers, carriers and loads. The code has no cutoff and deletes only stops.

In the pipeline:

* The validator accepts a HaulDesk file with a rate row for a load nobody knows, and
  ingestion refuses it, after which `ingest-all` stops at this file on every run
  (`generator/validator.py:322-328`, `ingestion/coordinator.py:409-423`, against
  `docs/STATUS.md:156-158`, where the validator checks the references of the complete
  schedule). The run `pipeline` reaches it with the damage `stray`, and
  `RefusalsAreOfUnknownLoads` names it as the only exception; without the exception TLC
  finds the property violated.
* `docs/DATA_SCENARIOS.md:103-104,150-151` and `src/README.md:119-120` say that
  SC-09 and SC-10 are financial updates of HD-2101. `RateOutcomes` has equal booked and
  final pay for it, so the only row generated is the LINEHAUL of 1150; the corrections of
  SC-07, SC-08 and SC-21 are not generated either.

In estimates and rankings:

* A completed load of the target's equipment without a usable rate keeps loads of other
  equipment out of the estimate, although it is no evidence itself (`Retrieved` looks at
  equipment before `Evidence` looks at rates; `docs/architecture/geography.md:105` has
  the broadest tier apply when no exact-equipment evidence exists).
* A tier with enough evidence is not blended at all (`Resolved`), where the example of
  `docs/architecture/rate-estimation.md:107-109` has one with an effective sample size of
  8 remain partly shrunk.
* A carrier whose completed load is ingested late, after a newer file named the carrier
  first, is no candidate for a cutoff in between (`decisioning/carrier_features.py:111`):
  its row says it was first observed later than its own history.
* A fit group is anchored at its first member (`AssignTieGroups`), so two neighbours
  within two points may be in different groups, where
  `docs/architecture/carrier-ranking.md:199-201` has supported carriers within two
  adjusted-score points share one. `FitGroupsAreNarrow` is the converse, which holds.
* A carrier without loads of the target's equipment has no equipment component, and the
  weights of the others grow; its share is not taken as zero (`EquipmentFit`,
  `RawScore`). A tenant without any completed load of that equipment makes every load
  evidence (tier 6), and so every candidate `SUPPORTED`.
* A carrier without relevant history scores exactly 50 (`EvidenceCountsOnce`), so a
  supported one with a poor record comes with a lower score, though first in the order.

## 6. Plan

In the order of what matters most next:

1. `TenantIsolation`: row-level security with the transaction-local context, which a
   commit or a roll-back ends while the session lives on (`db/tenant.py:9`, the one
   hazard no property covers).
2. The acceptance gates and averages of the ranking evaluation, the backtest of rates
   with its temporal split and its baselines.
3. The freshness check of the API, and the resolution of HaulDesk carrier references
   inside `HaulDeskIngestion` (`SyncPipeline` has it, in order of delivery only).

### Not modelled

* Reporting and demo seeding: read-only summaries and an idempotent insert.
* The HTTP API and the frontend: read-only; what they read is stored before.
* Deployment: configuration.
* Row-level security, see the plan.
* In modelled components: field formats, hashing and decimal text; names, addresses and
  free text of the generator; the distance formula and the ZIP look-up; confidence scores
  and warnings of rates; the wording of explanations; reports under `artifacts/`.
