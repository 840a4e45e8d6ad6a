-------------------------- MODULE DecisionsProofs --------------------------
(***************************************************************************)
(* What the decide-active command guarantees, for any number of commands,  *)
(* tenants and versions, in whatever order the files are ingested while it *)
(* runs.                                                                   *)
(*                                                                         *)
(* The argument has two parts.  A job remembers what was committed when    *)
(* the command read its list (known); a query at the job's time finds then *)
(* what it found before, unless a file of the tenant came late.  And a     *)
(* job's own version is one of those the query sees, so that the query     *)
(* finds this one when no other version of the load has its sync time.     *)
(***************************************************************************)
EXTENDS Decisions, FiniteFolds

-----------------------------------------------------------------------------
(* The inductive invariant. *)

Command ==
  [step: Steps, tenant: 1..(Len(Tenants) + 1), todo: SUBSET Jobs,
   job: Jobs \cup {None}, input: Versions \cup {None},
   target: Versions \cup {None}, priced: SUBSET Versions,
   ranked: SUBSET Versions, listed: SUBSET Jobs, added: SUBSET DecisionRow]

\* Types, with the references of the rows.
Typed ==
  /\ facts \in SUBSET Versions
  /\ IsFiniteSet(facts)
  /\ shown \in [Loads -> Versions \cup {None}]
  /\ \A l \in Loads :
       shown[l] # None => shown[l] \in facts /\ LoadOf[shown[l]] = l
  /\ decisions \in SUBSET DecisionRow
  /\ command \in [Commands -> Command]

\* Where a command stands: it has jobs only while it works on a tenant.
Staged ==
  \A c \in Commands :
    /\ command[c].step \in {"idle", "list"} => command[c].todo = {}
    /\ command[c].step \notin {"idle", "list"} =>
         command[c].tenant \in DOMAIN Tenants
    /\ command[c].todo \subseteq command[c].listed
    /\ \A job \in command[c].todo :
         TenantOf[job.load] = Tenants[command[c].tenant]

\* A job was listed with the version its load showed, and all it knows stays.
Listed(job) ==
  /\ job.known \subseteq facts
  /\ job.shown \in job.known
  /\ LoadOf[job.shown] = job.load
  /\ Observed(job.shown) = job.as_of
  /\ StatusOf[job.shown] = "ACTIVE"

\* A version a decision of the job may be made from.
Evidence(job) ==
  {v \in facts : Observed(v) <= job.as_of /\ TenantOf[LoadOf[v]] = TenantOf[job.load]}

\* A file of the tenant came late for the job, or the decision.
Disturbed(job) == \E v \in facts : CameLate(v, job)

\* What a query at the job's time may answer, then and later: a version that
\* was known; the one a query finds now, unless a file came late.
Targets(job) ==
  {v \in KnownAt(job.load, job.as_of) :
     v = VersionAt(job.load, job.as_of) \/ Disturbed(job)}

\* Where sync times are not tied, the input is the version the load showed.
Inputs(job) == {v \in Targets(job) : Untied(job.load) => v = job.shown}

Samples(job) ==
  {V \in SUBSET Evidence(job) :
     V = Comparables(job.load, job.as_of) \/ Disturbed(job)}

\* What a command has read of its job so far.
Read(c) ==
  /\ command[c].step \in {"price", "rank", "store"} =>
       command[c].job \in command[c].todo
  /\ \A job \in command[c].todo : job = command[c].job =>
       /\ command[c].step \in {"price", "rank", "store"} =>
            command[c].input \in Inputs(job)
       /\ command[c].step \in {"rank", "store"} =>
            command[c].target \in Targets(job) /\ command[c].priced \in Samples(job)
       /\ command[c].step = "store" => command[c].ranked \in Samples(job)

DecisionSound(d) ==
  /\ d.known \subseteq facts
  /\ d.input \in Targets(d) /\ d.target \in Targets(d)
  /\ d.priced \in Samples(d) /\ d.ranked \in Samples(d)

\* Types, stages, and what every job and every decision was made from.
DecisionsInv ==
  /\ Typed
  /\ Staged
  /\ \A c \in Commands : \A job \in command[c].listed : Listed(job)
  /\ \A c \in Commands : Read(c)
  /\ \A d \in decisions : DecisionSound(d)
  /\ \A c \in Commands : \A d \in command[c].added : DecisionSound(d)
  /\ EveryActiveLoadIsDecided

-----------------------------------------------------------------------------
(* Reading history. *)

\* The order of the query is total and transitive.
LEMMA ReadBeforeIsTotal ==
  ASSUME NEW u \in Versions, NEW v \in Versions, NEW w \in Versions
  PROVE  /\ ReadBefore(u, u)
         /\ ReadBefore(u, v) \/ ReadBefore(v, u)
         /\ ReadBefore(u, v) /\ ReadBefore(v, w) => ReadBefore(u, w)
BY DecisionsAssumption, SMTT(30) DEF ReadBefore, Observed

\* A query that finds anything finds a first row, since it reads a finite
\* table: a smallest set without one would have a smaller one.
LEMMA FirstReadExists ==
  ASSUME NEW V \in SUBSET Versions, IsFiniteSet(V), V # {}
  PROVE  /\ FirstRead(V) \in V
         /\ \A w \in V : ReadBefore(FirstRead(V), w)
<1> DEFINE HasFirst(T) == \E v \in T : \A w \in T : ReadBefore(v, w)
           Bad == {T \in SUBSET V : T # {} /\ ~HasFirst(T)}
           Sizes == {Cardinality(T) : T \in Bad}
<1>1. Bad = {}
  <2> SUFFICES ASSUME Bad # {} PROVE FALSE
    OBVIOUS
  <2>1. \A T \in Bad : IsFiniteSet(T) /\ Cardinality(T) \in Nat
    BY FS_Subset, FS_CardinalityType
  <2>2. Sizes \in SUBSET Nat /\ Sizes # {}
    BY <2>1
  <2>3. PICK n \in Sizes : \A k \in Sizes : n <= k
    <3> HIDE DEF Sizes
    <3>. QED BY <2>2, LeastNumber
  <2>4. PICK T \in Bad : Cardinality(T) = n
    OBVIOUS
  <2>5. PICK x \in T : TRUE
    OBVIOUS
  <2> DEFINE U == T \ {x}
  <2>6. Cardinality(U) = Cardinality(T) - 1
    BY <2>1, <2>5, FS_RemoveElement
  <2>7. U \notin Bad
    <3>1. SUFFICES ASSUME U \in Bad PROVE FALSE
      OBVIOUS
    <3>2. Cardinality(U) \in Sizes /\ Cardinality(U) \in Nat
      BY <3>1, <2>1
    <3>3. n <= Cardinality(U) /\ n \in Nat
      BY <3>2, <2>1, <2>3, <2>4
    <3> HIDE DEF U
    <3>. QED BY <3>2, <3>3, <2>4, <2>6
  <2>8. CASE U = {}
    <3>1. T = {x} /\ x \in Versions
      BY <2>5, <2>8
    <3>. QED BY <3>1, ReadBeforeIsTotal
  <2>9. CASE U # {}
    <3>1. PICK m \in U : \A w \in U : ReadBefore(m, w)
      BY <2>7, <2>9
    <3>2. m \in Versions /\ x \in Versions /\ \A w \in T : w = x \/ w \in U
      BY <2>5
    <3>3. CASE ReadBefore(m, x)
      <4>1. \A w \in T : ReadBefore(m, w)
        BY <3>1, <3>2, <3>3
      <4>. QED BY <4>1
    <3>4. CASE ReadBefore(x, m)
      <4>1. \A w \in T : ReadBefore(x, w)
        BY <3>1, <3>2, <3>4, ReadBeforeIsTotal
      <4>. QED BY <4>1, <2>5
    <3>. QED BY <3>2, <3>3, <3>4, ReadBeforeIsTotal
  <2>. QED BY <2>8, <2>9
<1>2. HasFirst(V)
  BY <1>1
<1>. QED BY <1>2 DEF FirstRead

\* The input version of a run is one that was known then, and the last one.
LEMMA VersionAtIsKnown ==
  ASSUME Typed, NEW l, NEW at, KnownAt(l, at) # {}
  PROVE  /\ VersionAt(l, at) \in KnownAt(l, at)
         /\ \A w \in KnownAt(l, at) : ReadBefore(VersionAt(l, at), w)
<1>1. KnownAt(l, at) \in SUBSET Versions /\ IsFiniteSet(KnownAt(l, at))
  BY FS_Subset DEF KnownAt, Typed
<1>. QED BY <1>1, FirstReadExists DEF VersionAt

\* The same, for a version that is the answer of a query.
LEMMA VersionAtNotNone ==
  ASSUME Typed, NEW l, NEW at
  PROVE  VersionAt(l, at) # None <=> KnownAt(l, at) # {}
<1>1. CASE KnownAt(l, at) = {}
  BY <1>1 DEF VersionAt
<1>2. CASE KnownAt(l, at) # {}
  <2>1. VersionAt(l, at) \in Versions
    BY <1>2, VersionAtIsKnown DEF KnownAt, Typed
  <2>. QED BY <1>2, <2>1, DecisionsAssumption
<1>. QED BY <1>1, <1>2

\* The answer of a query is a version or nothing.
LEMMA VersionAtType ==
  ASSUME Typed, NEW l, NEW at
  PROVE  VersionAt(l, at) \in Versions \cup {None}
<1>1. CASE VersionAt(l, at) # None
  <2>1. VersionAt(l, at) \in KnownAt(l, at)
    BY <1>1, VersionAtNotNone, VersionAtIsKnown
  <2>. QED BY <2>1 DEF KnownAt, Typed
<1>. QED BY <1>1

\* The comparable versions of a load are evidence of its own tenant and time.
LEMMA ComparablesAreEvidence ==
  ASSUME Typed, NEW job, job.load \in Loads, job.as_of \in Nat
  PROVE  Comparables(job.load, job.as_of) \subseteq Evidence(job)
<1> SUFFICES ASSUME NEW v \in Comparables(job.load, job.as_of)
             PROVE  v \in Evidence(job)
  OBVIOUS
<1>1. /\ v \in Versions
      /\ v = VersionAt(LoadOf[v], job.as_of)
      /\ TenantOf[LoadOf[v]] = TenantOf[job.load]
  BY DEF Comparables
<1>2. v # None
  BY <1>1, DecisionsAssumption
<1>3. v \in KnownAt(LoadOf[v], job.as_of)
  BY <1>1, <1>2, VersionAtNotNone, VersionAtIsKnown
<1>. QED BY <1>1, <1>3 DEF Evidence, KnownAt

\* The first version of a set with the greatest sync time of a load is the
\* one the load showed, when no other version of it has that time.
LEMMA ShownIsFound ==
  ASSUME Typed, NEW job \in Jobs, Listed(job), Untied(job.load)
  PROVE  VersionAt(job.load, job.as_of) = job.shown
<1>1. job.shown \in KnownAt(job.load, job.as_of) /\ job.as_of \in Nat
  BY DEF Listed, KnownAt, Jobs
<1> DEFINE w == VersionAt(job.load, job.as_of)
<1>2. w \in KnownAt(job.load, job.as_of) /\ ReadBefore(w, job.shown)
  BY <1>1, VersionAtIsKnown
<1>3. /\ w \in Versions /\ job.shown \in Versions
      /\ LoadOf[w] = job.load /\ LoadOf[job.shown] = job.load
      /\ Observed(w) <= Observed(job.shown)
  BY <1>1, <1>2 DEF KnownAt, Typed, Listed
<1>4. SyncAt[w] = SyncAt[job.shown]
  BY <1>2, <1>3, DecisionsAssumption DEF ReadBefore, Observed
<1>. QED BY <1>3, <1>4 DEF Untied

-----------------------------------------------------------------------------
(* While facts are added, what was read for a job stays right. *)

\* A query at the job's time finds the same again, for every load of the
\* tenant, unless a file came late for the job.
LEMMA HistoryIsStable ==
  ASSUME Typed, facts \subseteq facts', facts' \subseteq Versions, NEW job, 
         job.load \in Loads, job.known \subseteq facts, ~Disturbed(job)'
  PROVE  /\ VersionAt(job.load, job.as_of)' = VersionAt(job.load, job.as_of)
         /\ Comparables(job.load, job.as_of)' = Comparables(job.load, job.as_of)
<1>1. ASSUME NEW l \in Loads, TenantOf[l] = TenantOf[job.load]
      PROVE  KnownAt(l, job.as_of)' = KnownAt(l, job.as_of)
  <2>1. ASSUME NEW v \in facts', LoadOf[v] = l, Observed(v) <= job.as_of
        PROVE  v \in facts
    BY <1>1, <2>1 DEF Disturbed, CameLate
  <2>. QED BY <2>1 DEF KnownAt
<1>2. ASSUME NEW l \in Loads, TenantOf[l] = TenantOf[job.load]
      PROVE  VersionAt(l, job.as_of)' = VersionAt(l, job.as_of)
  BY <1>1, <1>2 DEF VersionAt
<1>3. \A v \in Versions : LoadOf[v] \in Loads
  BY DecisionsAssumption
<1>4. ASSUME NEW v \in Versions, TenantOf[LoadOf[v]] = TenantOf[job.load]
      PROVE  VersionAt(LoadOf[v], job.as_of)' = VersionAt(LoadOf[v], job.as_of)
  BY <1>2, <1>3, <1>4
<1>5. Comparables(job.load, job.as_of)' = Comparables(job.load, job.as_of)
  BY <1>4 DEF Comparables
<1>. QED BY <1>2, <1>5

\* Hence every answer that was right for a job or a decision stays right.
LEMMA AnswersStayRight ==
  ASSUME Typed, facts \subseteq facts', facts' \subseteq Versions, NEW job,
         job.load \in Loads, job.known \subseteq facts
  PROVE  /\ Targets(job) \subseteq Targets(job)'
         /\ Inputs(job) \subseteq Inputs(job)'
         /\ Samples(job) \subseteq Samples(job)'
<1>1. Disturbed(job) => Disturbed(job)'
  BY DEF Disturbed, CameLate
<1>2. KnownAt(job.load, job.as_of) \subseteq KnownAt(job.load, job.as_of)'
  BY DEF KnownAt
<1>3. Evidence(job) \subseteq Evidence(job)'
  BY DEF Evidence
<1>4. Targets(job) \subseteq Targets(job)'
  BY <1>1, <1>2, HistoryIsStable DEF Targets
<1>5. Samples(job) \subseteq Samples(job)'
  BY <1>1, <1>3, HistoryIsStable DEF Samples
<1>. QED BY <1>4, <1>5 DEF Inputs

\* Facts are only added, by every step.
LEMMA FactsGrow ==
  ASSUME Typed, [Next]_vars
  PROVE  facts \subseteq facts' /\ facts' \subseteq Versions /\ IsFiniteSet(facts')
<1>1. CASE facts' = facts
  BY <1>1 DEF Typed
<1>2. ASSUME NEW v \in Versions, Publish(v)
      PROVE  facts \subseteq facts' /\ facts' \subseteq Versions /\ IsFiniteSet(facts')
  BY <1>2, FS_AddElement DEF Publish, Typed
<1>. QED
  BY <1>1, <1>2 DEF Next, Start, ListLoads, ChooseInput, Refuse, Price, Rank, Store,
                    NextTenant, Commit, Die, ReadOnly, vars

-----------------------------------------------------------------------------
(* Types. *)

\* The tenants are taken one after the other.
LEMMA TenantsAreASequence ==
  Len(Tenants) \in Nat /\ DOMAIN Tenants = 1..Len(Tenants)
BY DecisionsAssumption

\* A command starts, and starts again, with nothing.
LEMMA IdleIsACommand == Idle \in Command
BY TenantsAreASequence DEF Idle, Command, Steps

CommandStep(c) ==
  \/ Start(c)
  \/ ListLoads(c)
  \/ \E job \in command[c].todo : ChooseInput(c, job) \/ Refuse(c, job)
  \/ Price(c)
  \/ Rank(c)
  \/ Store(c)
  \/ NextTenant(c)
  \/ Commit(c)
  \/ Die(c)

\* The jobs of a list: the active loads of the command's tenant.
JobsOf(c) ==
  {[load |-> l, shown |-> shown[l], as_of |-> Observed(shown[l]), known |-> facts] :
     l \in {k \in Loads : /\ TenantOf[k] = Tenants[command[c].tenant]
                          /\ shown[k] # None
                          /\ StatusOf[shown[k]] = "ACTIVE"}}

\* Each job of a list holds what its load shows, and belongs to the tenant.
LEMMA JobsAreJobs ==
  ASSUME Typed, NEW c
  PROVE  /\ JobsOf(c) \in SUBSET Jobs
         /\ \A job \in JobsOf(c) :
              Listed(job) /\ TenantOf[job.load] = Tenants[command[c].tenant]
<1> SUFFICES ASSUME NEW l \in Loads, TenantOf[l] = Tenants[command[c].tenant],
                    shown[l] # None, StatusOf[shown[l]] = "ACTIVE",
                    NEW job, job = [load |-> l, shown |-> shown[l],
                                    as_of |-> Observed(shown[l]), known |-> facts]
             PROVE  /\ job \in Jobs
                    /\ Listed(job) /\ TenantOf[job.load] = Tenants[command[c].tenant]
  BY DEF JobsOf
<1>1. /\ shown[l] \in facts /\ shown[l] \in Versions /\ facts \in SUBSET Versions
      /\ LoadOf[shown[l]] = l /\ Observed(shown[l]) \in Nat
  BY DecisionsAssumption DEF Typed, Observed
<1>2. job \in Jobs
  BY <1>1 DEF Jobs
<1>3. Listed(job)
  BY <1>1 DEF Listed
<1>. QED BY <1>2, <1>3

\* A version is shown only after it is stored, for its own load.
LEMMA PublishTyped ==
  ASSUME Typed, NEW v \in Versions, Publish(v)
  PROVE  Typed'
<1>1. /\ facts' \in SUBSET Versions /\ facts \subseteq facts' /\ v \in facts'
      /\ IsFiniteSet(facts')
  BY FS_AddElement DEF Publish, Typed
<1>2. LoadOf[v] \in Loads
  BY DecisionsAssumption
<1>3. /\ shown' \in [Loads -> Versions \cup {None}]
      /\ \A l \in Loads : shown'[l] = shown[l] \/ (l = LoadOf[v] /\ shown'[l] = v)
  BY <1>2 DEF Publish, Typed
<1>4. \A l \in Loads :
        shown'[l] # None => shown'[l] \in facts' /\ LoadOf[shown'[l]] = l
  BY <1>1, <1>3 DEF Typed
<1>5. decisions' = decisions /\ command' = command
  BY DEF Publish
<1>. QED BY <1>1, <1>3, <1>4, <1>5 DEF Typed

\* The command record after each action of a command.
LEMMA CommandTyped ==
  ASSUME Typed, Staged, NEW c \in Commands, Read(c), CommandStep(c)
  PROVE  Typed'
<1>0. command \in [Commands -> Command] /\ command[c] \in Command
  BY DEF Typed
<1>1. CASE Start(c)
  <2>1. command' \in [Commands -> Command]
    BY <1>0, <1>1 DEF Start, Command, Steps
  <2>. QED BY <1>1, <2>1 DEF Start, ReadOnly, Typed
<1>2. CASE ListLoads(c)
  <2>1. command' = [command EXCEPT ![c].step = "choose", ![c].todo = JobsOf(c),
                                   ![c].listed = @ \cup JobsOf(c)]
    BY <1>2 DEF ListLoads, JobsOf
  <2>2. JobsOf(c) \in SUBSET Jobs
    BY JobsAreJobs
  <2>3. command' \in [Commands -> Command]
    BY <1>0, <2>1, <2>2 DEF Command, Steps
  <2>. QED BY <1>2, <2>3 DEF ListLoads, ReadOnly, Typed
<1>3. ASSUME NEW job \in command[c].todo, ChooseInput(c, job)
      PROVE  Typed'
  <2>1. VersionAt(job.load, job.as_of) \in Versions
    BY <1>3, VersionAtType DEF ChooseInput, Decidable
  <2>2. job \in Jobs
    BY <1>0 DEF Command
  <2>3. command' \in [Commands -> Command]
    BY <1>0, <1>3, <2>1, <2>2 DEF ChooseInput, Command, Steps
  <2>. QED BY <1>3, <2>3 DEF ChooseInput, ReadOnly, Typed
<1>4. ASSUME command' = [command EXCEPT ![c] = Idle], facts' = facts, shown' = shown,
             decisions' \in SUBSET DecisionRow
      PROVE  Typed'
  <2>1. command' \in [Commands -> Command]
    BY <1>0, <1>4, IdleIsACommand
  <2>. QED BY <1>4, <2>1 DEF Typed
<1>5. CASE Price(c)
  <2>1. PICK job : job = command[c].job
    OBVIOUS
  <2>2. VersionAt(job.load, job.as_of) \in Versions \cup {None}
    BY VersionAtType
  <2>3. Comparables(job.load, job.as_of) \in SUBSET Versions
    BY DEF Comparables
  <2>4. command' = [command EXCEPT ![c].step = "rank",
                      ![c].target = VersionAt(job.load, job.as_of),
                      ![c].priced = Comparables(job.load, job.as_of)]
    BY <1>5, <2>1 DEF Price
  <2>5. command' \in [Commands -> Command]
    BY <1>0, <2>2, <2>3, <2>4 DEF Command, Steps
  <2>. QED BY <1>5, <2>5 DEF Price, ReadOnly, Typed
<1>6. CASE Rank(c)
  <2>1. PICK job : job = command[c].job
    OBVIOUS
  <2>2. Comparables(job.load, job.as_of) \in SUBSET Versions
    BY DEF Comparables
  <2>3. command' = [command EXCEPT ![c].step = "store",
                      ![c].ranked = Comparables(job.load, job.as_of)]
    BY <1>6, <2>1 DEF Rank
  <2>4. command' \in [Commands -> Command]
    BY <1>0, <2>2, <2>3 DEF Command, Steps
  <2>. QED BY <1>6, <2>4 DEF Rank, ReadOnly, Typed
<1>7. CASE Store(c)
  <2>1. PICK job \in command[c].todo : job = command[c].job
    BY <1>7 DEF Store, Read
  <2>2. /\ command[c].input \in Versions /\ command[c].target \in Versions
        /\ job \in Jobs
    BY <1>0, <1>7, <2>1 DEF Store, Read, Inputs, Targets, KnownAt, Typed, Command
  <2>3. Computed(c) \in DecisionRow
    BY <1>0, <2>1, <2>2 DEF Computed, Jobs, DecisionRow, Command
  <2>4. PICK A \in {command[c].added, command[c].added \cup {Computed(c)}} :
          command' = [command EXCEPT ![c].step = "choose",
                        ![c].todo = @ \ {command[c].job}, ![c].added = A]
    BY <1>7 DEF Store
  <2>5. A \in SUBSET DecisionRow /\ command[c].todo \ {command[c].job} \in SUBSET Jobs
    BY <1>0, <2>3 DEF Command
  <2>6. command' \in [Commands -> Command]
    BY <1>0, <2>4, <2>5 DEF Command, Steps
  <2>. QED BY <1>7, <2>6 DEF Store, ReadOnly, Typed
<1>8. CASE NextTenant(c)
  <2>1. command[c].tenant \in 1..Len(Tenants) /\ Len(Tenants) \in Nat
    BY <1>8, TenantsAreASequence DEF NextTenant, Staged
  <2>2. command' \in [Commands -> Command]
    BY <1>0, <1>8, <2>1 DEF NextTenant, Command, Steps
  <2>. QED BY <1>8, <2>2 DEF NextTenant, ReadOnly, Typed
<1>9. CASE Commit(c)
  <2>1. decisions' \in SUBSET DecisionRow
    BY <1>0, <1>9 DEF Commit, Typed, Command
  <2>. QED BY <1>4, <1>9, <2>1 DEF Commit
<1>. QED
  BY <1>1, <1>2, <1>3, <1>4, <1>5, <1>6, <1>7, <1>8, <1>9
     DEF CommandStep, Refuse, Die, ReadOnly, Typed

-----------------------------------------------------------------------------
(* What a step of a command may change. *)

\* A command touches nothing of the others, adds no facts and removes no
\* decision.
LEMMA CommandFrame ==
  ASSUME Typed, NEW c \in Commands, CommandStep(c)
  PROVE  /\ facts' = facts /\ shown' = shown
         /\ \A b \in Commands : b # c => command'[b] = command[b]
         /\ decisions \subseteq decisions'
         /\ decisions' \subseteq decisions \cup command[c].added
BY DEF CommandStep, Start, ListLoads, ChooseInput, Refuse, Price, Rank, Store, NextTenant,
       Commit, Die, ReadOnly, Typed

\* What each action of a command changes in its record, but for what it has
\* read.
LEMMA CommandFields ==
  ASSUME Typed, NEW c \in Commands, CommandStep(c)
  PROVE  LET r == command[c]
             s == command'[c]
         IN  \/ s = Idle
             \/ /\ s.tenant = r.tenant /\ s.todo = r.todo
                /\ s.listed = r.listed /\ s.added = r.added
                /\ \/ r.step = "idle" /\ s.step = "list"
                   \/ /\ r.step \in {"choose", "price", "rank"}
                      /\ s.step \in {"price", "rank", "store"}
             \/ /\ r.tenant \in DOMAIN Tenants /\ s.tenant = r.tenant
                /\ s.step = "choose" /\ s.todo = JobsOf(c)
                /\ s.listed = r.listed \cup JobsOf(c) /\ s.added = r.added
                /\ r.step = "list"
             \/ /\ Store(c) /\ r.step = "store" /\ s.step = "choose"
                /\ s.tenant = r.tenant /\ s.todo = r.todo \ {r.job}
                /\ s.listed = r.listed
                /\ \/ /\ s.added = r.added
                      /\ \E d \in decisions \cup r.added : SameIdentity(d, Computed(c))
                   \/ s.added = r.added \cup {Computed(c)}
             \/ /\ r.step = "choose" /\ s.step = "list" /\ r.todo = {}
                /\ s.tenant = r.tenant + 1 /\ s.todo = r.todo
                /\ s.listed = r.listed /\ s.added = r.added
<1>0. command \in [Commands -> Command] /\ command[c] \in Command
  BY DEF Typed
<1>1. CASE Start(c)
  BY <1>0, <1>1 DEF Start, Command
<1>2. CASE ListLoads(c)
  <2>1. command' = [command EXCEPT ![c].step = "choose", ![c].todo = JobsOf(c),
                                   ![c].listed = @ \cup JobsOf(c)]
    BY <1>2 DEF ListLoads, JobsOf
  <2>2. command[c].step = "list" /\ command[c].tenant \in DOMAIN Tenants
    BY <1>2 DEF ListLoads
  <2>. QED BY <1>0, <2>1, <2>2 DEF Command
<1>3. CASE \E job \in command[c].todo : ChooseInput(c, job)
  BY <1>0, <1>3 DEF ChooseInput, Command
<1>4. CASE Price(c)
  BY <1>0, <1>4 DEF Price, Command
<1>5. CASE Rank(c)
  BY <1>0, <1>5 DEF Rank, Command
<1>6. CASE Store(c)
  BY <1>0, <1>6 DEF Store, Command
<1>7. CASE NextTenant(c)
  BY <1>0, <1>7 DEF NextTenant, Command
<1>8. CASE command' = [command EXCEPT ![c] = Idle]
  BY <1>0, <1>8
<1>. QED
  BY <1>1, <1>2, <1>3, <1>4, <1>5, <1>6, <1>7, <1>8
     DEF CommandStep, Refuse, Commit, Die

-----------------------------------------------------------------------------
(* Each part of the invariant, over a step of a command. *)

\* A command moves on to the next tenant only when it has no job left.
LEMMA StagedNext ==
  ASSUME Typed, Staged, NEW c \in Commands, Read(c), CommandStep(c)
  PROVE  Staged'
<1>0. command \in [Commands -> Command] /\ command[c] \in Command
  BY DEF Typed
<1>1. \A job \in JobsOf(c) : TenantOf[job.load] = Tenants[command[c].tenant]
  BY JobsAreJobs
<1> DEFINE Stage(r) ==
      /\ r.step \in {"idle", "list"} => r.todo = {}
      /\ r.step \notin {"idle", "list"} => r.tenant \in DOMAIN Tenants
      /\ r.todo \subseteq r.listed
      /\ \A job \in r.todo : TenantOf[job.load] = Tenants[r.tenant]
<1>2. Stage(command[c])
  BY DEF Staged
<1>3. Stage(Idle)
  BY DEF Idle
<1>4. Stage(command'[c])
  <2>1. command[c].tenant + 1 \in Nat
    BY <1>0, TenantsAreASequence DEF Command
  <2>. QED BY <1>0, <1>1, <1>2, <1>3, CommandFields
<1>5. \A b \in Commands : b # c => command'[b] = command[b]
  BY CommandFrame
<1>. QED BY <1>4, <1>5 DEF Staged

\* The list of a tenant is true when it is read, and stays true.
LEMMA ListedNext ==
  ASSUME Typed, NEW c \in Commands, CommandStep(c),
         \A b \in Commands : \A job \in command[b].listed : Listed(job)
  PROVE  \A b \in Commands : \A job \in command'[b].listed : Listed(job)'
<1>0. command[c] \in Command
  BY DEF Typed
<1>1. command'[c].listed \subseteq command[c].listed \cup JobsOf(c)
  BY CommandFields DEF Idle
<1>2. \A b \in Commands : \A job \in command'[b].listed : Listed(job)
  BY <1>1, CommandFrame, JobsAreJobs
<1>. QED BY <1>2, CommandFrame DEF Listed

\* Each query of a command reads what it should, at the moment it runs.
LEMMA ReadNext ==
  ASSUME Typed, Typed', Staged, NEW c \in Commands, CommandStep(c),
         \A b \in Commands : \A job \in command[b].listed : Listed(job),
         \A b \in Commands : Read(b)
  PROVE  \A b \in Commands : Read(b)'
<1>0. command[c] \in Command /\ command'[c] \in Command
  BY DEF Typed
<1>1. ASSUME NEW b \in Commands, NEW job \in command[b].todo
      PROVE  job \in Jobs /\ Listed(job)
  BY DEF Typed, Staged, Command
<1>2. ASSUME NEW b \in Commands, NEW job \in command[b].todo
      PROVE  /\ Targets(job) \subseteq Targets(job)'
             /\ Inputs(job) \subseteq Inputs(job)'
             /\ Samples(job) \subseteq Samples(job)'
  BY <1>1, AnswersStayRight, CommandFrame DEF Jobs, Listed, Typed
<1>3. ASSUME NEW b \in Commands, b # c
      PROVE  Read(b)'
  BY <1>2, <1>3, CommandFrame DEF Read
<1>4. ASSUME NEW job \in command[c].todo, VersionAt(job.load, job.as_of) # None
      PROVE  VersionAt(job.load, job.as_of) \in Inputs(job)
  BY <1>1, <1>4, VersionAtNotNone, VersionAtIsKnown, ShownIsFound DEF Inputs, Targets
<1>5. ASSUME NEW job \in command[c].todo
      PROVE  Comparables(job.load, job.as_of) \in Samples(job)
  BY <1>1, ComparablesAreEvidence DEF Samples, Jobs
<1>6. Read(c)'
  <2>1. CASE command'[c].step \notin {"price", "rank", "store"}
    BY <2>1 DEF Read
  <2>2. ASSUME NEW job \in command[c].todo, ChooseInput(c, job)
        PROVE  Read(c)'
    <3>0. command'[c] = [command[c] EXCEPT !.step = "price", !.job = job,
                           !.input = VersionAt(job.load, job.as_of)]
      BY <2>2 DEF ChooseInput, Typed
    <3>1. VersionAt(job.load, job.as_of) \in Inputs(job)'
      BY <1>2, <1>4, <2>2 DEF ChooseInput, Decidable
    <3>2. command'[c].job = job /\ command'[c].todo = command[c].todo
          /\ command'[c].step = "price" /\ command'[c].input \in Inputs(job)'
      BY <1>0, <3>0, <3>1 DEF Command
    <3>. QED BY <3>2 DEF Read
  <2>3. ASSUME Price(c), NEW job, job = command[c].job
        PROVE  Read(c)'
    <3>0. command'[c] = [command[c] EXCEPT !.step = "rank",
                           !.target = VersionAt(job.load, job.as_of),
                           !.priced = Comparables(job.load, job.as_of)]
      BY <2>3 DEF Price, Typed
    <3>1. job \in command[c].todo /\ command[c].input \in Inputs(job)
      BY <2>3 DEF Read, Price
    <3>2. VersionAt(job.load, job.as_of) # None
      BY <3>1, VersionAtNotNone DEF Inputs, Targets
    <3>3. VersionAt(job.load, job.as_of) \in Inputs(job)
      BY <1>4, <3>1, <3>2
    <3>4. /\ command[c].input \in Inputs(job)'
          /\ VersionAt(job.load, job.as_of) \in Targets(job)'
          /\ Comparables(job.load, job.as_of) \in Samples(job)'
      BY <1>2, <1>5, <3>1, <3>3 DEF Inputs
    <3>5. /\ command'[c].job = job /\ command'[c].todo = command[c].todo
          /\ command'[c].step = "rank" /\ command'[c].input = command[c].input
          /\ command'[c].target = VersionAt(job.load, job.as_of)
          /\ command'[c].priced = Comparables(job.load, job.as_of)
      BY <1>0, <2>3, <3>0 DEF Command
    <3>. QED BY <3>1, <3>4, <3>5 DEF Read
  <2>4. ASSUME Rank(c), NEW job, job = command[c].job
        PROVE  Read(c)'
    <3>0. command'[c] = [command[c] EXCEPT !.step = "store",
                           !.ranked = Comparables(job.load, job.as_of)]
      BY <2>4 DEF Rank, Typed
    <3>1. /\ job \in command[c].todo /\ command[c].input \in Inputs(job)
          /\ command[c].target \in Targets(job) /\ command[c].priced \in Samples(job)
      BY <2>4 DEF Read, Rank
    <3>2. /\ command[c].input \in Inputs(job)'
          /\ command[c].target \in Targets(job)' /\ command[c].priced \in Samples(job)'
          /\ Comparables(job.load, job.as_of) \in Samples(job)'
      BY <1>2, <1>5, <3>1
    <3>3. /\ command'[c].job = job /\ command'[c].todo = command[c].todo
          /\ command'[c].step = "store" /\ command'[c].input = command[c].input
          /\ command'[c].target = command[c].target
          /\ command'[c].priced = command[c].priced
          /\ command'[c].ranked = Comparables(job.load, job.as_of)
      BY <1>0, <2>4, <3>0 DEF Command
    <3>. QED BY <3>1, <3>2, <3>3 DEF Read
  <2>5. Start(c) \/ ListLoads(c) \/ Store(c) \/ NextTenant(c) =>
          command'[c].step \notin {"price", "rank", "store"}
    <3>1. ListLoads(c) =>
            command' = [command EXCEPT ![c].step = "choose", ![c].todo = JobsOf(c),
                                       ![c].listed = @ \cup JobsOf(c)]
      BY DEF ListLoads, JobsOf
    <3>2. ListLoads(c) => command'[c].step = "choose"
      BY <1>0, <3>1 DEF Typed, Command
    <3>. QED BY <1>0, <3>2 DEF Start, Store, NextTenant, Typed, Command
  <2>6. command' = [command EXCEPT ![c] = Idle] =>
          command'[c].step \notin {"price", "rank", "store"}
    BY DEF Idle, Typed
  <2>. QED BY <2>1, <2>2, <2>3, <2>4, <2>5, <2>6 DEF CommandStep, Refuse, Commit, Die
<1>. QED BY <1>3, <1>6

\* What was read for a job is what a decision on it rests on.
LEMMA ComputedIsSound ==
  ASSUME Typed, Staged, NEW c \in Commands, Read(c), Store(c),
         \A job \in command[c].listed : Listed(job)
  PROVE  DecisionSound(Computed(c))
<1>0. command[c] \in Command
  BY DEF Typed
<1>1. PICK job \in command[c].todo : job = command[c].job
  BY DEF Read, Store
<1>2. /\ command[c].input \in Targets(job) /\ command[c].target \in Targets(job)
      /\ command[c].priced \in Samples(job) /\ command[c].ranked \in Samples(job)
  BY <1>1 DEF Read, Store, Inputs
<1>3. job.known \subseteq facts
  BY DEF Staged, Listed
<1>4. PICK d : d = Computed(c)
  OBVIOUS
<1>5. /\ d.load = job.load /\ d.as_of = job.as_of /\ d.known = job.known
      /\ d.input = command[c].input /\ d.target = command[c].target
      /\ d.priced = command[c].priced /\ d.ranked = command[c].ranked
  BY <1>1, <1>4 DEF Computed
<1>6. Disturbed(d) <=> Disturbed(job)
  BY <1>5 DEF Disturbed, CameLate
<1>7. Targets(d) = Targets(job)
  BY <1>5, <1>6 DEF Targets
<1>8. Samples(d) = Samples(job)
  BY <1>5, <1>6 DEF Samples, Evidence
<1>9. DecisionSound(d)
  BY <1>2, <1>3, <1>5, <1>7, <1>8 DEF DecisionSound
<1>. QED BY <1>4, <1>9

\* The only decision a step adds is one computed from what was read.
LEMMA SoundNext ==
  ASSUME Typed, Staged, NEW c \in Commands, CommandStep(c),
         \A b \in Commands : \A job \in command[b].listed : Listed(job),
         \A b \in Commands : Read(b),
         \A d \in decisions : DecisionSound(d),
         \A b \in Commands : \A d \in command[b].added : DecisionSound(d)
  PROVE  /\ \A d \in decisions' : DecisionSound(d)'
         /\ \A b \in Commands : \A d \in command'[b].added : DecisionSound(d)'
<1>0. command[c] \in Command
  BY DEF Typed
<1>1. \/ command'[c].added \subseteq command[c].added
      \/ Store(c) /\ command'[c].added \subseteq command[c].added \cup {Computed(c)}
  BY CommandFields DEF Idle
<1>2. /\ \A d \in decisions' : DecisionSound(d)
      /\ \A b \in Commands : \A d \in command'[b].added : DecisionSound(d)
  BY <1>1, CommandFrame, ComputedIsSound
<1>3. ASSUME NEW d, DecisionSound(d) PROVE DecisionSound(d)'
  <2>1. facts' = facts
    BY CommandFrame
  <2>2. Targets(d)' = Targets(d)
    BY <2>1 DEF Targets, KnownAt, VersionAt, Disturbed, CameLate
  <2>3. Comparables(d.load, d.as_of)' = Comparables(d.load, d.as_of)
    BY <2>1 DEF Comparables, VersionAt, KnownAt
  <2>4. Samples(d)' = Samples(d)
    BY <2>1, <2>3 DEF Samples, Evidence, Disturbed, CameLate
  <2>. QED BY <1>3, <2>1, <2>2, <2>4 DEF DecisionSound
<1>. QED BY <1>2, <1>3

\* A job leaves the list with a decision on the version its load showed.
LEMMA DecidedNext ==
  ASSUME Typed, Staged, NEW c \in Commands, CommandStep(c), Read(c),
         EveryActiveLoadIsDecided
  PROVE  EveryActiveLoadIsDecided'
<1> DEFINE On(D, job) ==
      \E d \in D : d.load = job.load /\ d.input = job.shown /\ d.as_of = job.as_of
<1>1. ASSUME NEW b \in Commands, NEW job \in command[b].listed \ command[b].todo,
             Untied(job.load)
      PROVE  On(decisions \cup command[b].added, job)
  BY <1>1 DEF EveryActiveLoadIsDecided
<1>2. ASSUME NEW b \in Commands, b # c,
             NEW job \in command'[b].listed \ command'[b].todo, Untied(job.load)
      PROVE  On(decisions' \cup command'[b].added, job)
  BY <1>1, <1>2, CommandFrame
<1>3. ASSUME NEW job \in command'[c].listed \ command'[c].todo, Untied(job.load)
      PROVE  On(decisions' \cup command'[c].added, job)
  <2>1. command'[c].listed # {} => command[c].added \subseteq command'[c].added
    BY CommandFields DEF Idle
  <2>2. CASE job \in command[c].listed \ command[c].todo
    BY <1>1, <1>3, <2>1, <2>2, CommandFrame
  <2>3. CASE job \notin command[c].listed \ command[c].todo
    <3>1. /\ Store(c) /\ job = command[c].job /\ job \in command[c].todo
          /\ \/ \E d \in decisions \cup command[c].added : SameIdentity(d, Computed(c))
             \/ command'[c].added = command[c].added \cup {Computed(c)}
      BY <1>3, <2>3, CommandFields DEF Idle, Staged, Read
    <3>2. command[c].input = job.shown
      BY <1>3, <3>1 DEF Read, Store, Inputs
    <3>3. /\ Computed(c).load = job.load /\ Computed(c).input = job.shown
          /\ Computed(c).as_of = job.as_of
      BY <3>1, <3>2 DEF Computed
    <3>. QED BY <2>1, <1>3, <3>1, <3>3, CommandFrame DEF SameIdentity
  <2>. QED BY <2>2, <2>3
<1>. QED BY <1>2, <1>3 DEF EveryActiveLoadIsDecided, Untied

-----------------------------------------------------------------------------
(* A file is committed. *)

\* Facts may be added to what the commands and decisions rest on.
LEMMA FactsNext ==
  ASSUME DecisionsInv, Typed', command' = command, decisions' = decisions,
         facts \subseteq facts'
  PROVE  DecisionsInv'
<1>1. Typed
  BY DEF DecisionsInv
<1>2. facts' \subseteq Versions
  BY DEF Typed
<1>3. Staged' /\ EveryActiveLoadIsDecided'
  BY DEF DecisionsInv, Staged, EveryActiveLoadIsDecided, Untied
<1>4. ASSUME NEW c \in Commands, NEW job \in command[c].listed
      PROVE  job \in Jobs /\ Listed(job) /\ Listed(job)'
  BY <1>1 DEF DecisionsInv, Listed, Typed, Command
<1>5. ASSUME NEW job, job.load \in Loads, job.known \subseteq facts
      PROVE  /\ Targets(job) \subseteq Targets(job)'
             /\ Inputs(job) \subseteq Inputs(job)'
             /\ Samples(job) \subseteq Samples(job)'
  BY <1>1, <1>2, <1>5, AnswersStayRight
<1>6. ASSUME NEW c \in Commands PROVE Read(c)'
  <2>1. \A job \in command[c].todo : job.load \in Loads /\ job.known \subseteq facts
    BY <1>4 DEF DecisionsInv, Staged, Jobs, Listed
  <2>. QED BY <1>5, <2>1 DEF DecisionsInv, Read
<1>7. ASSUME NEW d \in DecisionRow, DecisionSound(d)
      PROVE  DecisionSound(d)'
  BY <1>5, <1>7 DEF DecisionSound, DecisionRow
<1>8. \A d \in decisions' : DecisionSound(d)'
  BY <1>1, <1>7 DEF DecisionsInv, Typed
<1>9. ASSUME NEW c \in Commands, NEW d \in command'[c].added
      PROVE  DecisionSound(d)'
  <2>1. d \in DecisionRow /\ DecisionSound(d)
    BY <1>1, <1>9 DEF DecisionsInv, Typed, Command
  <2>. QED BY <1>7, <2>1
<1>. QED BY <1>3, <1>4, <1>6, <1>8, <1>9 DEF DecisionsInv

-----------------------------------------------------------------------------
(* The invariant. *)

\* Before anything runs there is nothing to be wrong.
LEMMA DecisionsInvInit == Init => DecisionsInv
<1> SUFFICES ASSUME Init PROVE DecisionsInv
  OBVIOUS
<1>1. \A c \in Commands : command[c] = Idle
  BY DEF Init
<1>2. Typed
  BY IdleIsACommand, FS_EmptySet DEF Init, Typed
<1>3. Staged
  BY <1>1 DEF Staged, Idle
<1>4. \A c \in Commands : Read(c)
  BY <1>1 DEF Read, Idle
<1>5. \A c \in Commands : command[c].listed = {} /\ command[c].added = {}
  BY <1>1 DEF Idle
<1>6. EveryActiveLoadIsDecided
  BY <1>5 DEF EveryActiveLoadIsDecided
<1>. QED BY <1>2, <1>3, <1>4, <1>5, <1>6 DEF DecisionsInv, Init

\* Every commit of a file and every step of a command keeps the invariant.
LEMMA DecisionsInvNext == DecisionsInv /\ [Next]_vars => DecisionsInv'
<1> SUFFICES ASSUME DecisionsInv, [Next]_vars PROVE DecisionsInv'
  OBVIOUS
<1>1. ASSUME NEW v \in Versions, Publish(v) PROVE DecisionsInv'
  <2>1. Typed'
    BY <1>1, PublishTyped DEF DecisionsInv
  <2>2. command' = command /\ decisions' = decisions /\ facts \subseteq facts'
    BY <1>1 DEF Publish
  <2>. QED BY <2>1, <2>2, FactsNext
<1>2. ASSUME NEW c \in Commands, CommandStep(c) PROVE DecisionsInv'
  <2>1. /\ Typed /\ Staged /\ EveryActiveLoadIsDecided
        /\ \A b \in Commands : Read(b)
        /\ \A b \in Commands : \A job \in command[b].listed : Listed(job)
        /\ \A d \in decisions : DecisionSound(d)
        /\ \A b \in Commands : \A d \in command[b].added : DecisionSound(d)
    BY DEF DecisionsInv
  <2>2. Typed'
    BY <1>2, <2>1, CommandTyped
  <2>3. Staged' /\ EveryActiveLoadIsDecided'
    BY <1>2, <2>1, StagedNext, DecidedNext
  <2>4. \A b \in Commands : \A job \in command'[b].listed : Listed(job)'
    BY <1>2, <2>1, ListedNext
  <2>5. \A b \in Commands : Read(b)'
    BY <1>2, <2>1, <2>2, ReadNext
  <2>6. /\ \A d \in decisions' : DecisionSound(d)'
        /\ \A b \in Commands : \A d \in command'[b].added : DecisionSound(d)'
    BY <1>2, <2>1, SoundNext
  <2>. QED BY <2>2, <2>3, <2>4, <2>5, <2>6 DEF DecisionsInv
<1>3. CASE UNCHANGED vars
  <2>1. facts' = facts /\ shown' = shown /\ decisions' = decisions /\ command' = command
    BY <1>3 DEF vars
  <2>2. Typed'
    BY <2>1 DEF DecisionsInv, Typed
  <2>. QED BY <2>1, <2>2, FactsNext
<1>. QED BY <1>1, <1>2, <1>3 DEF Next, CommandStep

\* The invariant every result below rests on.
THEOREM DecisionsInvariant == Spec => []DecisionsInv
BY DecisionsInvInit, DecisionsInvNext, PTL DEF Spec

\* Types of the facts, the projections, the decisions and the commands.
THEOREM DecisionsTyped == Spec => []TypeOK
<1>1. DecisionsInv => TypeOK
  <2> SUFFICES ASSUME DecisionsInv PROVE TypeOK
    OBVIOUS
  <2>1. Typed /\ Staged
    BY DEF DecisionsInv
  <2>2. \A c \in Commands : command[c] \in Command
    BY <2>1 DEF Typed
  <2>. QED BY <2>1, <2>2 DEF Typed, Staged, Command, TypeOK
<1>. QED BY <1>1, DecisionsInvariant, PTL

\* A decision is made from versions of its own load and tenant that were
\* observed by its as_of, in every order of delivery.
THEOREM DecisionsLookBack == Spec => []NothingFromTheFuture
<1>1. DecisionsInv => NothingFromTheFuture
  <2> SUFFICES ASSUME DecisionsInv, NEW d \in decisions
               PROVE  /\ d.input \in KnownAt(d.load, d.as_of)
                      /\ d.target \in KnownAt(d.load, d.as_of)
                      /\ d.priced \cup d.ranked \subseteq Evidence(d)
    BY DEF NothingFromTheFuture, KnownAt, Evidence
  <2>1. DecisionSound(d)
    BY DEF DecisionsInv
  <2>. QED BY <2>1 DEF DecisionSound, Targets, Samples
<1>. QED BY <1>1, DecisionsInvariant, PTL

\* A decision computed again at its as_of finds the same input and evidence,
\* unless a file of the tenant came late for the list the command had read.
THEOREM DecisionsAreReproducible == Spec => []DecisionsReproduce
<1>1. DecisionsInv => DecisionsReproduce
  <2> SUFFICES ASSUME DecisionsInv, NEW d \in decisions, ~Disturbed(d)
               PROVE  Reproduces(d)
    BY DEF DecisionsReproduce, Disturbed
  <2>1. DecisionSound(d)
    BY DEF DecisionsInv
  <2>. QED BY <2>1 DEF DecisionSound, Targets, Samples, Reproduces
<1>. QED BY <1>1, DecisionsInvariant, PTL

\* Each load a command has dealt with has a decision on the version it showed.
THEOREM ActiveLoadsAreDecided == Spec => []EveryActiveLoadIsDecided
<1>1. DecisionsInv => EveryActiveLoadIsDecided
  BY DEF DecisionsInv
<1>. QED BY <1>1, DecisionsInvariant, PTL

-----------------------------------------------------------------------------
(* What the two disagreements need. *)

\* No active load makes the command fail where no two files of a load have
\* the same sync time: a refusal needs such a tie.
THEOREM NoTieNoRefusal ==
  ASSUME \A l \in Loads : Untied(l)
  PROVE  Spec => []NoActiveLoadIsRefused
<1>1. DecisionsInv => NoActiveLoadIsRefused
  <2> SUFFICES ASSUME DecisionsInv, NEW c \in Commands, NEW job \in command[c].todo
               PROVE  Decidable(job)
    BY DEF NoActiveLoadIsRefused
  <2>1. Typed /\ job \in Jobs /\ Listed(job)
    BY DEF DecisionsInv, Staged, Typed, Command
  <2>2. VersionAt(job.load, job.as_of) = job.shown
    BY <2>1, ShownIsFound DEF Jobs
  <2>3. job.shown # None /\ StatusOf[job.shown] = "ACTIVE"
    BY <2>1, DecisionsAssumption DEF Jobs, Listed
  <2>. QED BY <2>2, <2>3 DEF Decidable
<1>. QED BY <1>1, DecisionsInvariant, PTL

\* A command finds what it and the commands before it have decided.
OneDecisionPerIdentity ==
  \A c \in Commands :
    \A d, e \in decisions \cup command[c].added : SameIdentity(d, e) => d = e

\* The same identity reuses the immutable run where there is one command: the
\* second row of an identity takes two commands that run at once.
THEOREM OneCommandReuses ==
  ASSUME NEW only, Commands = {only}
  PROVE  Spec => []SameIdentityIsReused
<1>1. Init => OneDecisionPerIdentity
  BY DEF Init, Idle, OneDecisionPerIdentity
<1>2. ASSUME DecisionsInv, OneDecisionPerIdentity, [Next]_vars
      PROVE  OneDecisionPerIdentity'
  <2>1. ASSUME NEW c \in Commands, CommandStep(c) PROVE OneDecisionPerIdentity'
    <3>1. Typed
      BY <1>2 DEF DecisionsInv
    <3>2. \A d, e \in decisions \cup command[c].added : SameIdentity(d, e) => d = e
      BY <1>2 DEF OneDecisionPerIdentity
    <3>3. \A d, e : SameIdentity(d, e) => SameIdentity(e, d)
      BY DEF SameIdentity
    <3>4. \/ command'[c].added \subseteq command[c].added
          \/ /\ command'[c].added = command[c].added \cup {Computed(c)}
             /\ \A d \in decisions \cup command[c].added : ~SameIdentity(d, Computed(c))
             /\ decisions' = decisions
      <4>1. CASE Store(c)
        BY <2>1, <3>1, <4>1 DEF Store, ReadOnly, Typed, Command
      <4>2. CASE ~Store(c)
        BY <2>1, <3>1, <4>2, CommandFields DEF Idle
      <4>. QED BY <4>1, <4>2
    <3>5. \A d, e \in decisions' \cup command'[c].added : SameIdentity(d, e) => d = e
      BY <2>1, <3>1, <3>2, <3>3, <3>4, CommandFrame
    <3>. QED BY <3>5 DEF OneDecisionPerIdentity
  <2>2. CASE command' = command /\ decisions' = decisions
    BY <1>2, <2>2 DEF OneDecisionPerIdentity
  <2>. QED BY <1>2, <2>1, <2>2 DEF Next, CommandStep, Publish, vars
<1>3. OneDecisionPerIdentity => SameIdentityIsReused
  BY DEF OneDecisionPerIdentity, SameIdentityIsReused
<1>. QED BY <1>1, <1>2, <1>3, DecisionsInvariant, PTL DEF Spec
=============================================================================
