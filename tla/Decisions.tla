----------------------------- MODULE Decisions -----------------------------
(***************************************************************************)
(* The decide-active command (cli.py) over DecisionRunService.run          *)
(* (decisioning/decision_runs.py), with files being ingested while it runs *)
(* and with several such commands at once, under READ COMMITTED.           *)
(*                                                                         *)
(* One command is one transaction over the active loads of every tenant.   *)
(* Each run is a sequence of SELECTs, an action each here: the input       *)
(* version, the evidence of the price, the evidence of the ranking, and    *)
(* the look-up and insert of the decision.                                 *)
(*                                                                         *)
(* A version is an immutable fact.  The model versions and parameters,     *)
(* constants of the code, are left out of the identity; the evidence is    *)
(* the set of comparable versions, from which the price and the scores are *)
(* computed without further state.                                         *)
(***************************************************************************)
EXTENDS Precedence, Sequences, FiniteSets

CONSTANTS
  Commands,
  Tenants,      \* DEMO_TENANTS, in order
  Versions, Loads,
  TenantOf, LoadOf, SyncAt, ModifiedAt, StatusOf,
  IdOf          \* the random primary key of a version, as a number

ASSUME DecisionsAssumption ==
  /\ Tenants \in Seq({Tenants[i] : i \in DOMAIN Tenants})
  /\ TenantOf \in [Loads -> {Tenants[i] : i \in DOMAIN Tenants}]
  /\ LoadOf \in [Versions -> Loads]
  /\ SyncAt \in [Versions -> Nat]
  /\ ModifiedAt \in [Versions -> Nat]
  /\ StatusOf \in [Versions -> Statuses]
  /\ IdOf \in [Versions -> Nat]
  /\ \A v, w \in Versions : IdOf[v] = IdOf[w] => v = w
  /\ None \notin Versions
  /\ None \notin VersionTiming

VARIABLES
  facts,      \* the committed load_versions
  shown,      \* loads.current_version_id
  decisions,  \* the committed decision_runs
  command     \* what each command is doing

vars == <<facts, shown, decisions, command>>

-----------------------------------------------------------------------------
(* Reading history. *)

\* A version is observed at the sync time of its file.
Observed(v) == SyncAt[v]

\* Faulty variant of KnownAt: the cutoff is forgotten.
KnownEver(l, at) == {v \in facts : LoadOf[v] = l}

KnownAt(l, at) == {v \in facts : LoadOf[v] = l /\ Observed(v) <= at}

\* order_by(observed_at desc, id desc).
ReadBefore(v, w) ==
  \/ Observed(v) > Observed(w)
  \/ Observed(v) = Observed(w) /\ IdOf[v] >= IdOf[w]

FirstRead(V) == CHOOSE v \in V : \A w \in V : ReadBefore(v, w)

\* The input version of a run, and the latest version of a comparable load.
VersionAt(l, at) ==
  IF KnownAt(l, at) = {} THEN None ELSE FirstRead(KnownAt(l, at))

\* Faulty variant of Comparables: the loads as they are shown now.
ComparablesShown(l, at) ==
  {shown[m] : m \in {k \in Loads \ {l} :
                       /\ TenantOf[k] = TenantOf[l]
                       /\ shown[k] # None
                       /\ StatusOf[shown[k]] = "COMPLETED"}}

\* The completed loads of the tenant as they were known at a time.
Comparables(l, at) ==
  {v \in Versions :
     /\ StatusOf[v] = "COMPLETED"
     /\ LoadOf[v] # l
     /\ TenantOf[LoadOf[v]] = TenantOf[l]
     /\ v = VersionAt(LoadOf[v], at)}

-----------------------------------------------------------------------------
(* Ingestion, as seen from here: SnapshotIngestion and CurrentView. *)

Timing(v) ==
  [source_sync_at |-> SyncAt[v], source_modified_at |-> ModifiedAt[v],
   observed_at |-> SyncAt[v], status |-> StatusOf[v]]

\* A file with a version of one load is committed.
Publish(v) ==
  /\ v \notin facts
  /\ facts' = facts \cup {v}
  /\ shown' = [shown EXCEPT ![LoadOf[v]] =
                 IF ChooseCurrentVersion(IF @ = None THEN None ELSE Timing(@),
                                         Timing(v)).becomes_current
                 THEN v ELSE @]
  /\ UNCHANGED <<decisions, command>>

-----------------------------------------------------------------------------
(* The command. *)

\* A load of the list, with the projection columns the command remembers.
\* History: known is what was committed then.  No action reads it.
Jobs == [load: Loads, shown: Versions, as_of: Nat, known: SUBSET Versions]

\* A row of decision_runs with its evidence; by tells apart equal rows, and
\* known is that of its job.
DecisionRow ==
  [load: Loads, input: Versions, as_of: Nat, target: Versions,
   priced: SUBSET Versions, ranked: SUBSET Versions, by: Commands,
   known: SUBSET Versions]

Steps == {"idle", "list", "choose", "price", "rank", "store"}

Idle ==
  [step |-> "idle", tenant |-> 1, todo |-> {}, job |-> None, input |-> None,
   target |-> None, priced |-> {}, ranked |-> {}, listed |-> {}, added |-> {}]

Init ==
  /\ facts = {}
  /\ shown = [l \in Loads |-> None]
  /\ decisions = {}
  /\ command = [c \in Commands |-> Idle]

ReadOnly == UNCHANGED <<facts, shown, decisions>>

Start(c) ==
  /\ command[c].step = "idle"
  /\ command' = [command EXCEPT ![c].step = "list"]
  /\ ReadOnly

\* Faulty variant of ListLoads: the query forgets the tenant.
ListLoadsOfAll(c) ==
  /\ command[c].step = "list"
  /\ command[c].tenant \in DOMAIN Tenants
  /\ LET active == {l \in Loads : /\ shown[l] # None
                                  /\ StatusOf[shown[l]] = "ACTIVE"}
         jobs == {[load |-> l, shown |-> shown[l],
                   as_of |-> Observed(shown[l]), known |-> facts] : l \in active}
     IN  command' = [command EXCEPT ![c].step = "choose", ![c].todo = jobs,
                                    ![c].listed = @ \cup jobs]
  /\ ReadOnly

\* The decision time of a load is the observation time its row shows.
ListLoads(c) ==
  /\ command[c].step = "list"
  /\ command[c].tenant \in DOMAIN Tenants
  /\ LET active == {l \in Loads : /\ TenantOf[l] = Tenants[command[c].tenant]
                                  /\ shown[l] # None
                                  /\ StatusOf[shown[l]] = "ACTIVE"}
         jobs == {[load |-> l, shown |-> shown[l],
                   as_of |-> Observed(shown[l]), known |-> facts] : l \in active}
     IN  command' = [command EXCEPT ![c].step = "choose", ![c].todo = jobs,
                                    ![c].listed = @ \cup jobs]
  /\ ReadOnly

Decidable(job) ==
  /\ VersionAt(job.load, job.as_of) # None
  /\ StatusOf[VersionAt(job.load, job.as_of)] = "ACTIVE"

\* _active_input_version.
ChooseInput(c, job) ==
  /\ command[c].step = "choose"
  /\ job \in command[c].todo
  /\ Decidable(job)
  /\ command' = [command EXCEPT ![c].step = "price", ![c].job = job,
                                ![c].input = VersionAt(job.load, job.as_of)]
  /\ ReadOnly

\* One load that cannot be decided raises, and the command loses every
\* decision it has made, those of other tenants included.
Refuse(c, job) ==
  /\ command[c].step = "choose"
  /\ job \in command[c].todo
  /\ ~Decidable(job)
  /\ command' = [command EXCEPT ![c] = Idle]
  /\ ReadOnly

\* HierarchicalRateEstimator.estimate looks its target up again.
Price(c) ==
  /\ command[c].step = "price"
  /\ LET job == command[c].job
     IN  command' = [command EXCEPT ![c].step = "rank",
                       ![c].target = VersionAt(job.load, job.as_of),
                       ![c].priced = Comparables(job.load, job.as_of)]
  /\ ReadOnly

\* CarrierFeatureService.retrieve reads the history once more.
Rank(c) ==
  /\ command[c].step = "rank"
  /\ LET job == command[c].job
     IN  command' = [command EXCEPT ![c].step = "store",
                       ![c].ranked = Comparables(job.load, job.as_of)]
  /\ ReadOnly

\* Faulty variant of SameIdentity: any decision of the load will do.
SameLoad(d, e) == d.load = e.load

SameIdentity(d, e) ==
  d.load = e.load /\ d.input = e.input /\ d.as_of = e.as_of

Computed(c) ==
  [load |-> command[c].job.load, input |-> command[c].input,
   as_of |-> command[c].job.as_of, target |-> command[c].target,
   priced |-> command[c].priced, ranked |-> command[c].ranked, by |-> c,
   known |-> command[c].job.known]

\* The decision is looked up only now, among the committed rows and those of
\* this command: a known one is returned as it is.
Store(c) ==
  /\ command[c].step = "store"
  /\ LET known == \E d \in decisions \cup command[c].added :
                    SameIdentity(d, Computed(c))
     IN  command' = [command EXCEPT ![c].step = "choose",
                       ![c].todo = @ \ {command[c].job},
                       ![c].added = IF known THEN @ ELSE @ \cup {Computed(c)}]
  /\ ReadOnly

NextTenant(c) ==
  /\ command[c].step = "choose"
  /\ command[c].todo = {}
  /\ command' = [command EXCEPT ![c].step = "list", ![c].tenant = @ + 1]
  /\ ReadOnly

Commit(c) ==
  /\ command[c].step = "list"
  /\ command[c].tenant \notin DOMAIN Tenants
  /\ decisions' = decisions \cup command[c].added
  /\ command' = [command EXCEPT ![c] = Idle]
  /\ UNCHANGED <<facts, shown>>

\* The process dies, or a statement fails: nothing of it was committed.
Die(c) ==
  /\ command[c].step # "idle"
  /\ command' = [command EXCEPT ![c] = Idle]
  /\ ReadOnly

Next ==
  \/ \E v \in Versions : Publish(v)
  \/ \E c \in Commands :
       \/ Start(c)
       \/ ListLoads(c)
       \/ \E job \in command[c].todo : ChooseInput(c, job) \/ Refuse(c, job)
       \/ Price(c)
       \/ Rank(c)
       \/ Store(c)
       \/ NextTenant(c)
       \/ Commit(c)
       \/ Die(c)

Spec == Init /\ [][Next]_vars

-----------------------------------------------------------------------------
(* Properties. *)

\* Every fact, decision and command has its type.
TypeOK ==
  /\ facts \subseteq Versions
  /\ shown \in [Loads -> Versions \cup {None}]
  /\ decisions \subseteq DecisionRow
  /\ DOMAIN command = Commands
  /\ \A c \in Commands :
       /\ command[c].step \in Steps
       /\ command[c].tenant \in 1..(Len(Tenants) + 1)
       /\ command[c].todo \subseteq command[c].listed
       /\ \A job \in command[c].todo :
            TenantOf[job.load] = Tenants[command[c].tenant]
       /\ command[c].listed \subseteq Jobs
       /\ command[c].added \subseteq DecisionRow

Reproduces(d) ==
  /\ d.input = VersionAt(d.load, d.as_of)
  /\ d.target = d.input
  /\ d.priced = Comparables(d.load, d.as_of)
  /\ d.ranked = d.priced

\* A file of the tenant that says something of the time of the decision was
\* committed only after the command had read its list.
CameLate(v, d) ==
  /\ v \in facts \ d.known
  /\ TenantOf[LoadOf[v]] = TenantOf[d.load]
  /\ Observed(v) <= d.as_of

\* A decision computed again at its as_of finds the same input and the same
\* evidence, whatever was ingested during or after the command, unless a file
\* came late: nothing observed later enters an earlier decision.
DecisionsReproduce ==
  \A d \in decisions : Reproduces(d) \/ \E v \in facts : CameLate(v, d)

\* In any order of delivery, with ties, a decision was made from versions that
\* were observed by its as_of and belong to its own tenant.
NothingFromTheFuture ==
  \A d \in decisions :
    /\ LoadOf[d.input] = d.load
    /\ LoadOf[d.target] = d.load
    /\ Observed(d.input) <= d.as_of
    /\ Observed(d.target) <= d.as_of
    /\ \A v \in d.priced \cup d.ranked :
         /\ Observed(v) <= d.as_of
         /\ TenantOf[LoadOf[v]] = TenantOf[d.load]

Untied(l) ==
  \A v, w \in Versions :
    LoadOf[v] = l /\ LoadOf[w] = l /\ SyncAt[v] = SyncAt[w] => v = w

\* cli.py: the command persists or reuses a decision for every active load:
\* for each load it has dealt with, in whatever order the files came, there is
\* a decision on the very version the load showed when it was listed.
EveryActiveLoadIsDecided ==
  \A c \in Commands : \A job \in command[c].listed \ command[c].todo :
    Untied(job.load) =>
      \E d \in decisions \cup command[c].added :
        d.load = job.load /\ d.input = job.shown /\ d.as_of = job.as_of

\* cli.py: no active load makes the command fail.
NoActiveLoadIsRefused ==
  \A c \in Commands : \A job \in command[c].todo : Decidable(job)

\* docs/STATUS.md: the same identity reuses the immutable run.
SameIdentityIsReused ==
  \A d, e \in decisions : SameIdentity(d, e) => d = e
=============================================================================
