-------------------------- MODULE ConcurrentProofs --------------------------
(***************************************************************************)
(* What ConcurrentIngestion guarantees for any number of sessions, files,  *)
(* loads and parties, whatever order the statements come in.               *)
(*                                                                         *)
(* A session is described by what it knows and has written; the steps of   *)
(* another one can only take away what no lock protects.  The row of the   *)
(* party that all versions of a steady load name is such a lock: who has   *)
(* written it sees the load as no other session can change it.             *)
(***************************************************************************)
EXTENDS ConcurrentIngestion, FiniteSetTheorems, SequenceTheorems, TLAPS

-----------------------------------------------------------------------------
(* Types. *)

Plan == [loads: [Loads -> Snapshots \cup {None}], parties: [Parties -> Nat \cup {None}]]

Calls ==
  [pc: Statements, file: Files \cup {None}, line: Nat, party: Nat,
   todo: Seq(Loads \cup Parties), plan: Plan]

Knowledge ==
  [loads: [Loads -> LoadRow \cup {None, Unread}],
   stops: [Loads -> StopRow \cup {None, Unread}],
   parties: [Parties -> Nat \cup {None, Unread}]]

Marks == {"none", "alone", "overlapping"}

Typed ==
  /\ db \in Database
  /\ call \in [Sessions -> Calls]
  /\ known \in [Sessions -> Knowledge]
  /\ mine \in [Sessions -> SessionRows]
  /\ rebuild \in Marks

-----------------------------------------------------------------------------
(* Where a session is. *)

Ingests(p) == call[p].pc \in Writing

Rebuilds(p) == call[p].pc \in Rebuilding

\* The statements about the load of a line, after those about its parties.
LoadWork ==
  {"insert_load", "look_up_version", "insert_version", "project", "replace_stops"}

\* The ones that have the row of the load before them.
VersionWork == LoadWork \ {"insert_load"}

\* The rows that session p sees.
Load(p, l) == Visible(p, "loads", l)

Row(p, s) == Visible(p, "versions", s)

\* File f carries snapshot s.
Carries(f, s) == s \in ToSet(Lines[f])

\* A committed file, or f, observed party c at time t.
Observed(c, t) == \E f \in Writers(c) : db.files[f] = "COMPLETED" /\ SyncAt[f] = t

-----------------------------------------------------------------------------
(* The inductive invariant. *)

\* What belongs to the statement that session p is about to run.
Stands(p) ==
  /\ ~Ingests(p) /\ ~Rebuilds(p) => mine[p] = NoRows /\ known[p] = NothingKnown
  /\ call[p].pc \in {"look_up", "insert_file", "failing"} => FileOf(p) \in Files
  /\ call[p].pc \in {"look_up", "insert_file"} => call[p].line = 1 /\ call[p].party = 1
  /\ ~Rebuilds(p) => call[p].todo = <<>>
  /\ Rebuilds(p) => FileOf(p) = None
  /\ Ingests(p) =>
       /\ FileOf(p) \in Files /\ db.files[FileOf(p)] = "ABSENT"
       /\ call[p].line >= 1 /\ call[p].party >= 1
  /\ Ingests(p) /\ call[p].pc # "parties" => HasLine(p)
  /\ call[p].pc = "write_party" =>
       /\ call[p].party \in DOMAIN PartiesOf[At(p)]
       /\ known[p].parties[PartyAt(p)] # Unread
  /\ call[p].pc \in LoadWork => call[p].party \notin DOMAIN PartiesOf[At(p)]

\* No two sessions ingest one file or rebuild at one time.
Alone ==
  /\ \A p, q \in Sessions : Ingests(p) /\ Ingests(q) /\ FileOf(p) = FileOf(q) => p = q
  /\ \A p, q \in Sessions : Rebuilds(p) /\ Rebuilds(q) => p = q
  /\ \A p \in Sessions : Rebuilds(p) => rebuild # "none"

\* A row is written by one open transaction at a time.
Locked ==
  \A p, q \in Sessions : p # q =>
    /\ \A c \in Parties : mine[p].parties[c] # None => mine[q].parties[c] = None
    /\ \A l \in Loads : mine[p].loads[l] # None => mine[q].loads[l] = None
    /\ \A s \in Snapshots : mine[p].versions[s] # None => mine[q].versions[s] = None

\* A stored version is of a completed file that carries it, and its load shows
\* a version of it; a party was last observed by a completed file.
Committed ==
  /\ \A s \in Stored(db) :
       /\ db.files[db.versions[s].file] = "COMPLETED"
       /\ Carries(db.versions[s].file, s)
       /\ db.loads[LoadOf[s]] # None
  /\ \A l \in Loads : db.loads[l] # None => db.loads[l].current \in VersionsOf(l)
  /\ \A c \in Parties : db.parties[c] # None => Observed(c, db.parties[c])

\* The load that session p has inserted and not yet projected.
Fresh(p, l) ==
  /\ call[p].pc \in {"look_up_version", "insert_version", "project"} /\ l = LoadAt(p)
  /\ known[p].loads[l].current = None /\ mine[p].loads[l] # None
  /\ mine[p].loads[l].current = None /\ db.loads[l] = None

\* The versions and parties that a session has written while it ingests.
WrittenFacts(p) ==
  /\ \A s \in Snapshots : mine[p].versions[s] # None =>
       /\ mine[p].versions[s].file = FileOf(p) /\ Carries(FileOf(p), s)
       /\ db.versions[s] = None
       /\ known[p].loads[LoadOf[s]] \in LoadRow
       /\ \/ known[p].loads[LoadOf[s]].current # None
          \/ call[p].pc = "project" /\ s = At(p)
  /\ \A c \in Parties : mine[p].parties[c] # None =>
       mine[p].parties[c] = SyncAt[FileOf(p)] /\ FileOf(p) \in Writers(c)
  /\ \A c \in Parties : known[p].parties[c] \notin {None, Unread} =>
       \/ mine[p].parties[c] # None
       \/ Observed(c, known[p].parties[c])

\* The loads that it has read or written.
WrittenLoads(p) ==
  /\ \A l \in Loads : known[p].loads[l] = None => call[p].pc = "insert_load" /\ l = LoadAt(p)
  /\ \A l \in Loads : mine[p].loads[l] # None => known[p].loads[l] \in LoadRow
  /\ \A l \in Loads : known[p].loads[l] \in LoadRow =>
       \/ Fresh(p, l)
       \/ /\ Load(p, l) # None
          /\ known[p].loads[l].current \in Snapshots
          /\ LoadOf[known[p].loads[l].current] = l
          /\ Row(p, known[p].loads[l].current) # None
          /\ mine[p].loads[l] # None =>
               /\ mine[p].loads[l].current \in Snapshots
               /\ LoadOf[mine[p].loads[l].current] = l
               /\ Row(p, mine[p].loads[l].current) # None
  /\ call[p].pc = "insert_load" => known[p].loads[LoadAt(p)] = None
  /\ call[p].pc \in VersionWork => known[p].loads[LoadAt(p)] \in LoadRow
  /\ call[p].pc = "insert_version" => mine[p].versions[At(p)] = None
  /\ call[p].pc = "project" =>
       mine[p].versions[At(p)] # None /\ known[p].loads[LoadAt(p)].current # At(p)
  /\ call[p].pc = "replace_stops" =>
       mine[p].loads[LoadAt(p)] # None /\ mine[p].loads[LoadAt(p)].current = At(p)

\* What a rebuild has planned and written.
Rebuilt(p) ==
  /\ mine[p].versions = NoRows.versions
  /\ call[p].pc = "find_stops" => call[p].todo = <<>>
  /\ call[p].pc = "delete_stops" => call[p].todo \in Seq(Loads)
  /\ call[p].pc = "put_parties" => call[p].todo \in Seq(PlannedParties(p))
  /\ call[p].pc \in {"put_loads", "put_stops"} => call[p].todo \in Seq(PlannedLoads(p))
  /\ known[p].loads \in [Loads -> LoadRow \cup {None}]
  /\ \A l \in PlannedLoads(p) :
       /\ call[p].plan.loads[l] \in VersionsOf(l)
       /\ known[p].loads[l] # None /\ known[p].loads[l].current \in VersionsOf(l)
  /\ \A l \in Loads : mine[p].loads[l] # None => mine[p].loads[l].current \in VersionsOf(l)
  /\ \A c \in PlannedParties(p) : Observed(c, call[p].plan.parties[c])
  /\ \A c \in Parties : mine[p].parties[c] # None => Observed(c, mine[p].parties[c])

\* What a session knows is so, whatever the others do.
RowsInv ==
  /\ Typed
  /\ Alone
  /\ Locked
  /\ Committed
  /\ \A p \in Sessions :
       /\ Stands(p)
       /\ Ingests(p) => WrittenFacts(p) /\ WrittenLoads(p)
       /\ Rebuilds(p) => Rebuilt(p)

-----------------------------------------------------------------------------
(* Stops. *)

\* No rebuild that overlapped another command has committed.
Clean == rebuild # "overlapping" \/ \E p \in Sessions : Rebuilds(p)

\* A session that ingests writes a load and its stops together.
StopsWritten(p) ==
  \A l \in Loads :
    /\ mine[p].stops[l] # Deleted
    /\ mine[p].stops[l] # None => mine[p].loads[l] # None
    /\ mine[p].loads[l] # None =>
         \/ /\ mine[p].stops[l] # None
            /\ mine[p].stops[l].of = mine[p].loads[l].current
         \/ Fresh(p, l)
         \/ call[p].pc = "replace_stops" /\ l = LoadAt(p)

\* What a rebuild is going to do with the row of a load.
Pending(p, pc, x) == call[p].pc = pc /\ x \in ToSet(call[p].todo)

\* A rebuild with nothing next to it knows the committed rows, and puts every
\* load that has a version back to its latest one.
RebuildsAlone(p) ==
  /\ \A q \in Others(p) : call[q].pc = "idle"
  /\ known[p].loads = db.loads
  /\ \A l \in Loads : IF VersionsOf(l) = {} THEN call[p].plan.loads[l] = None
                      ELSE call[p].plan.loads[l] \in Unbeaten(l)
  /\ \A l \in PlannedLoads(p) :
       mine[p].loads[l] # None => mine[p].loads[l] = ProjectionOf(call[p].plan.loads[l])
  /\ \A l \in PlannedLoads(p) :
       mine[p].stops[l] \in StopRow => mine[p].stops[l].of = call[p].plan.loads[l]
  /\ call[p].pc # "find_stops" =>
       /\ known[p].stops = db.stops
       /\ \A l \in Loads : db.stops[l] # None =>
            mine[p].stops[l] # None \/ Pending(p, "delete_stops", l)
  /\ call[p].pc \in {"put_loads", "put_stops"} =>
       \A l \in PlannedLoads(p) :
         Load(p, l) = ProjectionOf(call[p].plan.loads[l]) \/ Pending(p, "put_loads", l)
  /\ call[p].pc = "put_stops" =>
       \A l \in PlannedLoads(p) : mine[p].stops[l] \in StopRow \/ Pending(p, "put_stops", l)

StopsInv ==
  /\ Clean => StopsFollowLoad
  /\ \A p \in Sessions :
       /\ Ingests(p) => StopsWritten(p)
       /\ rebuild = "alone" /\ Rebuilds(p) => RebuildsAlone(p)

-----------------------------------------------------------------------------
(* Steady loads. *)

\* The versions of a load that session p sees, and their timing to it.
Seen(p, l) == {s \in Snapshots : LoadOf[s] = l /\ Row(p, s) # None}

SeenTiming(p, s) == FileTiming(Row(p, s).file, s)

\* The version that session p is about to project.
Projects(p, l, s) == call[p].pc = "project" /\ l = LoadAt(p) /\ s = At(p)

\* Who has read a load that takes turns holds the row of its party, whose row
\* the session has written when it is past it.
HoldsTurns(p) ==
  \A l \in Loads, c \in Parties : TakesTurns(l, c) =>
    /\ known[p].loads[l] # Unread => mine[p].parties[c] # None
    /\ HasLine(p) =>
         \A i \in DOMAIN PartiesOf[At(p)] :
           i < call[p].party /\ PartiesOf[At(p)][i] = c => mine[p].parties[c] # None

\* Session p knows load l as it is, and no version of it that p sees outranks
\* the one it shows, but for the one that p is about to project.
SeesLoad(p, l) ==
  /\ known[p].loads[l] # Unread => known[p].loads[l] = Load(p, l)
  /\ known[p].loads[l] \in LoadRow /\ known[p].loads[l].current # None =>
       LET s == known[p].loads[l].current
       IN  /\ known[p].loads[l] = Projection(s, SyncAt[Row(p, s).file])
           /\ \A t \in Seen(p, l) :
                IF Projects(p, l, t) THEN KeyLess(SeenTiming(p, s), SeenTiming(p, t))
                ELSE ~KeyLess(SeenTiming(p, s), SeenTiming(p, t))

SeesSteady(p) == \A l \in SteadyLoads : SeesLoad(p, l)

\* A rebuild finds steady loads as it would leave them, and does not write them.
SparesSteady(p) ==
  \A l \in SteadyLoads :
    /\ mine[p].loads[l] = None
    /\ l \in PlannedLoads(p) => known[p].loads[l] = ProjectionOf(call[p].plan.loads[l])

\* A steady load is a whole projection of the latest version.
ShowsWhole(l) ==
  db.loads[l] # None =>
    /\ db.loads[l].current \in Unbeaten(l)
    /\ db.loads[l] = ProjectionOf(db.loads[l].current)

SteadyRows == \A l \in SteadyLoads : ShowsWhole(l)

SteadyInv ==
  /\ SteadyRows
  /\ \A p \in Sessions :
       /\ Ingests(p) => HoldsTurns(p) /\ SeesSteady(p)
       /\ Rebuilds(p) => SparesSteady(p)

-----------------------------------------------------------------------------
(* Sequences and rows. *)

\* An order of a finite set goes through all of it, and through nothing else.
LEMMA OrderFacts ==
  ASSUME NEW S, IsFiniteSet(S), NEW order \in SetToSeqs(S)
  PROVE  order \in Seq(S) /\ ToSet(order) = S
<1> DEFINE n == Cardinality(S)
<1>1. n \in Nat
  BY FS_CardinalityType
<1>2. order \in [1..n -> S] /\ \A i, j \in 1..n : i # j => order[i] # order[j]
  BY DEF SetToSeqs
<1>3. order \in Seq(S)
  BY <1>1, <1>2, SeqDef
<1>4. ASSUME NEW x \in S, \A i \in 1..n : order[i] # x PROVE FALSE
  <2>1. order \in [1..n -> S \ {x}]
    BY <1>2, <1>4
  <2>2. IsFiniteSet(S \ {x}) /\ Cardinality(S \ {x}) = n - 1
    BY FS_RemoveElement
  <2>3. IsFiniteSet(1..n) /\ Cardinality(1..n) = n
    BY <1>1, FS_Interval
  <2>4. Cardinality(S \ {x}) < Cardinality(1..n)
    BY <1>1, <2>2, <2>3
  <2>5. PICK i, j \in 1..n : i # j /\ order[i] = order[j]
    <3> HIDE DEF n
    <3>. QED BY <2>1, <2>2, <2>3, <2>4, FS_PigeonHole
  <2>. QED BY <1>2, <2>5
<1>. QED BY <1>2, <1>3, <1>4 DEF ToSet

\* What is left of a sequence when its head is done.
LEMMA TailFacts ==
  ASSUME NEW S, NEW todo \in Seq(S), todo # <<>>
  PROVE  /\ Head(todo) \in S /\ Head(todo) \in ToSet(todo)
         /\ Tail(todo) \in Seq(S)
         /\ \A x \in ToSet(todo) : x = Head(todo) \/ x \in ToSet(Tail(todo))
         /\ ToSet(Tail(todo)) \subseteq ToSet(todo)
<1>1. Len(todo) \in Nat \ {0} /\ Head(todo) = todo[1] /\ DOMAIN todo = 1..Len(todo)
      /\ Tail(todo) \in Seq(S) /\ Len(Tail(todo)) = Len(todo) - 1
      /\ DOMAIN Tail(todo) = 1..Len(todo) - 1
      /\ \A i \in 1..Len(todo) - 1 : Tail(todo)[i] = todo[i + 1]
  OBVIOUS
<1>2. ASSUME NEW i \in 1..Len(todo), i # 1 PROVE todo[i] \in ToSet(Tail(todo))
  <2>1. i - 1 \in 1..Len(todo) - 1 /\ Tail(todo)[i - 1] = todo[i]
    BY <1>1, <1>2
  <2>. QED BY <1>1, <2>1 DEF ToSet
<1>3. ASSUME NEW i \in 1..Len(todo) - 1 PROVE Tail(todo)[i] \in ToSet(todo)
  <2>1. i + 1 \in 1..Len(todo)
    BY <1>1
  <2>. QED BY <1>1, <2>1 DEF ToSet
<1>. QED BY <1>1, <1>2, <1>3 DEF ToSet

\* Every finite nonempty set of numbers has a greatest element: one that the
\* fewest others exceed.
LEMMA GreatestOf ==
  ASSUME NEW T \in SUBSET Nat, T # {}, IsFiniteSet(T)
  PROVE  \E x \in T : \A y \in T : y <= x
<1> DEFINE above(x) == {y \in T : y > x}
           R == {ss \in Nat \X Nat : ss[1] < ss[2]}
           Sizes == {Cardinality(above(x)) : x \in T}
<1>1. ASSUME NEW x \in T PROVE IsFiniteSet(above(x)) /\ Cardinality(above(x)) \in Nat
  BY FS_Subset, FS_CardinalityType
<1>2. Sizes \in SUBSET Nat /\ Sizes # {}
  BY <1>1
<1>3. PICK n \in Sizes : \A k \in Sizes : ~(k < n)
  <2>1. IsWellFoundedOn(R, Nat)
    BY NatLessThanWellFounded DEF OpToRel
  <2> HIDE DEF R, Sizes
  <2>2. PICK n \in Sizes : \A k \in Sizes : ~ (<<k, n>> \in R)
    BY <1>2, <2>1, WFMin
  <2>3. \A k \in Sizes : ~(k < n)
    BY <1>2, <2>2 DEF R
  <2>. QED BY <2>3
<1>4. PICK x \in T : n = Cardinality(above(x))
  OBVIOUS
<1>5. ASSUME NEW y \in T, y > x PROVE FALSE
  <2>1. above(y) \subseteq above(x) /\ y \in above(x) /\ y \notin above(y)
    <3>1. x \in Nat /\ y \in Nat /\ ~(y > y)
      OBVIOUS
    <3>2. \A z \in T : z > y => z > x
      BY <1>5, <3>1
    <3>. QED BY <1>5, <3>1, <3>2
  <2>2. above(y) \subseteq above(x) \ {y}
    BY <2>1
  <2>3. IsFiniteSet(above(x) \ {y}) /\ Cardinality(above(x) \ {y}) = n - 1
    BY <1>1, <1>4, <2>1, FS_RemoveElement
  <2>4. Cardinality(above(y)) <= n - 1
    BY <2>2, <2>3, FS_Subset
  <2>5. n \in Nat /\ Cardinality(above(y)) \in Nat /\ ~(Cardinality(above(y)) < n)
    BY <1>1, <1>3, <1>4
  <2> HIDE DEF above
  <2>. QED BY <2>4, <2>5
<1>. QED BY <1>5

\* An UPDATE of the row that the session remembers makes it the new one.
LEMMA UpdatedFacts ==
  ASSUME NEW row \in LoadRow, NEW seen \in LoadRow, NEW new \in LoadRow
  PROVE  /\ Updated(row, seen, new) \in LoadRow
         /\ Updated(row, seen, new).current \in {row.current, new.current}
         /\ new.current # seen.current => Updated(row, seen, new).current = new.current
         /\ row = seen => Updated(row, seen, new) = new
BY DEF Updated, LoadRow, Columns

\* What a commit makes of a table.
LEMMA MergedRows ==
  ASSUME NEW rows, NEW written, NEW k \in DOMAIN rows
  PROVE  /\ DOMAIN Merge(rows, written) = DOMAIN rows
         /\ written[k] = None => Merge(rows, written)[k] = rows[k]
         /\ written[k] \notin {None, Deleted} => Merge(rows, written)[k] = written[k]
         /\ written[k] = Deleted => Merge(rows, written)[k] = None
BY NoneAssumption DEF Merge

-----------------------------------------------------------------------------
(* What the others of a step keep. *)

OthersSame(p) ==
  \A q \in Others(p) : call'[q] = call[q] /\ known'[q] = known[q] /\ mine'[q] = mine[q]

\* What session p has written in the end no other one has.
LocksAgree(p) ==
  \A q \in Others(p) :
    /\ \A c \in Parties : mine'[p].parties[c] # None => mine[q].parties[c] = None
    /\ \A l \in Loads : mine'[p].loads[l] # None => mine[q].loads[l] = None
    /\ \A s \in Snapshots : mine'[p].versions[s] # None => mine[q].versions[s] = None

\* What the committed rows may become by a step of session p.
Grows(p) ==
  /\ \A f \in Files : db.files[f] = "COMPLETED" => db'.files[f] = "COMPLETED"
  /\ \A q \in Others(p) : Ingests(q) => db'.files[FileOf(q)] = "ABSENT"
  /\ \A s \in Snapshots :
       \/ db'.versions[s] = db.versions[s]
       \/ db.versions[s] = None /\ mine[p].versions[s] # None
  /\ \A l \in Loads :
       \/ db'.loads[l] = db.loads[l]
       \/ db'.loads[l] # None /\ mine[p].loads[l] # None

\* What session p does has no bearing on what another session has to itself.
LEMMA OthersKeep ==
  ASSUME RowsInv, NEW p \in Sessions, OthersSame(p), Grows(p), NEW q \in Others(p)
  PROVE  /\ Stands(q)'
         /\ Ingests(q)' => WrittenFacts(q)' /\ WrittenLoads(q)'
         /\ Rebuilds(q)' => Rebuilt(q)'
<1>1. q \in Sessions /\ p # q /\ call'[q] = call[q] /\ known'[q] = known[q] /\ mine'[q] = mine[q]
  BY DEF OthersSame, Others
<1>2. /\ At(q)' = At(q) /\ LoadAt(q)' = LoadAt(q) /\ FileOf(q)' = FileOf(q)
      /\ PartyAt(q)' = PartyAt(q) /\ HasLine(q)' = HasLine(q)
      /\ Ingests(q)' = Ingests(q) /\ Rebuilds(q)' = Rebuilds(q)
      /\ PlannedLoads(q)' = PlannedLoads(q) /\ PlannedParties(q)' = PlannedParties(q)
  BY <1>1 DEF At, LoadAt, FileOf, PartyAt, HasLine, Ingests, Rebuilds, PlannedLoads, PlannedParties
<1>3. \A c, t : Observed(c, t) => Observed(c, t)'
  BY DEF Grows, Observed, Writers
<1>4. Stands(q)'
  <2>1. Stands(q)
    BY <1>1 DEF RowsInv
  <2>. QED BY <1>1, <1>2, <2>1 DEF Stands, Grows
<1>5. ASSUME Ingests(q) PROVE WrittenFacts(q)' /\ WrittenLoads(q)'
  <2>1. WrittenFacts(q) /\ WrittenLoads(q)
    BY <1>1, <1>5 DEF RowsInv
  <2>2. WrittenFacts(q)'
    <3>1. ASSUME NEW s \in Snapshots, mine[q].versions[s] # None PROVE db'.versions[s] = None
      BY <1>1, <2>1, <3>1 DEF RowsInv, Locked, Grows, WrittenFacts
    <3>. QED BY <1>1, <1>2, <1>3, <2>1, <3>1 DEF WrittenFacts
  <2>3. ASSUME NEW l \in Loads PROVE Fresh(q, l) => Fresh(q, l)'
    BY <1>1, <1>2 DEF Fresh, Grows, RowsInv, Locked
  <2>4. \A l \in Loads : Load(q, l) # None => Load(q, l)' # None
    BY <1>1 DEF Load, Visible, Grows
  <2>5. \A s \in Snapshots : Row(q, s) # None => Row(q, s)' # None
    BY <1>1 DEF Row, Visible, Grows
  <2>. QED BY <1>1, <1>2, <2>1, <2>2, <2>3, <2>4, <2>5 DEF WrittenLoads
<1>6. ASSUME Rebuilds(q) PROVE Rebuilt(q)'
  <2>1. Rebuilt(q)
    BY <1>1, <1>6 DEF RowsInv
  <2>2. \A l \in Loads : VersionsOf(l) \subseteq VersionsOf(l)'
    BY DEF Grows, VersionsOf, Stored
  <2>. QED BY <1>1, <1>2, <1>3, <2>1, <2>2 DEF Rebuilt, NoRows, PlannedLoads
<1>. QED BY <1>2, <1>4, <1>5, <1>6

\* What a step has to keep of the rest, once its own session is in order.
LEMMA StepKeeps ==
  ASSUME RowsInv, NEW p \in Sessions, OthersSame(p), Grows(p), Typed', LocksAgree(p),
         Committed',
         Ingests(p)' => \A q \in Others(p) : Ingests(q) => FileOf(q) # FileOf(p)',
         Rebuilds(p)' => \A q \in Others(p) : ~Rebuilds(q),
         \A q \in Sessions : Rebuilds(q)' => rebuild' # "none",
         Stands(p)',
         Ingests(p)' => WrittenFacts(p)' /\ WrittenLoads(p)',
         Rebuilds(p)' => Rebuilt(p)'
  PROVE  RowsInv'
<1>1. \A q \in Others(p) : /\ FileOf(q)' = FileOf(q)
                           /\ Ingests(q)' = Ingests(q) /\ Rebuilds(q)' = Rebuilds(q)
  BY DEF OthersSame, FileOf, Ingests, Rebuilds
<1>2. Alone'
  BY <1>1 DEF Alone, RowsInv, Others
<1>3. Locked'
  BY DEF Locked, LocksAgree, OthersSame, RowsInv, Others
<1>4. \A q \in Sessions : /\ Stands(q)'
                          /\ Ingests(q)' => WrittenFacts(q)' /\ WrittenLoads(q)'
                          /\ Rebuilds(q)' => Rebuilt(q)'
  BY OthersKeep DEF Others
<1>. QED BY <1>2, <1>3, <1>4 DEF RowsInv

\* The mark of the rebuild stands as long as one runs.
LEMMA MarkStands ==
  ASSUME RowsInv, NEW p \in Sessions, OthersSame(p), rebuild' = RebuildAfter(p)
  PROVE  /\ rebuild' \in Marks
         /\ (Rebuilds(p)' => Rebuilds(p)) =>
              \A q \in Sessions : Rebuilds(q)' => rebuild' # "none"
<1>1. \A q \in Others(p) : Rebuilds(q)' = Rebuilds(q)
  BY DEF OthersSame, Rebuilds
<1>2. "idle" \notin Rebuilding
  BY DEF Rebuilding
<1>. QED
  BY <1>1, <1>2 DEF RebuildAfter, RowsInv, Typed, Marks, Alone, Rebuilds, Others

\* A step that leaves the committed rows and what the session has written.
LEMMA QuietKeeps ==
  ASSUME RowsInv, NEW p \in Sessions, OthersSame(p), UNCHANGED db, LocksAgree(p),
         rebuild' = RebuildAfter(p),
         call' \in [Sessions -> Calls], known' \in [Sessions -> Knowledge],
         mine' \in [Sessions -> SessionRows],
         Ingests(p)' => \A q \in Others(p) : Ingests(q) => FileOf(q) # FileOf(p)',
         Rebuilds(p)' => Rebuilds(p),
         Stands(p)',
         Ingests(p)' => WrittenFacts(p)' /\ WrittenLoads(p)',
         Rebuilds(p)' => Rebuilt(p)'
  PROVE  RowsInv'
<1>1. Grows(p)
  BY DEF Grows, RowsInv, Stands, Others
<1>2. Typed'
  BY MarkStands DEF Typed, RowsInv
<1>3. Committed'
  BY DEF RowsInv, Committed, Stored, VersionsOf, Observed
<1>4. Rebuilds(p)' => \A q \in Others(p) : ~Rebuilds(q)
  BY DEF RowsInv, Alone, Others
<1>. QED BY <1>1, <1>2, <1>3, <1>4, MarkStands, StepKeeps

\* A statement that only moves on: nothing is known or written in addition.
LEMMA MoveKeeps ==
  ASSUME RowsInv, NEW p \in Sessions, NEW row \in Calls, call' = [call EXCEPT ![p] = row],
         UNCHANGED <<db, known, mine>>, rebuild' = RebuildAfter(p),
         Ingests(p)' => \A q \in Others(p) : Ingests(q) => FileOf(q) # FileOf(p)',
         Rebuilds(p)' => Rebuilds(p),
         Stands(p)',
         Ingests(p)' => WrittenFacts(p)' /\ WrittenLoads(p)',
         Rebuilds(p)' => Rebuilt(p)'
  PROVE  RowsInv'
<1>1. /\ OthersSame(p) /\ call' \in [Sessions -> Calls] /\ known' \in [Sessions -> Knowledge]
      /\ mine' \in [Sessions -> SessionRows]
  BY DEF OthersSame, Others, RowsInv, Typed
<1>2. LocksAgree(p)
  BY DEF LocksAgree, RowsInv, Locked, Others
<1>. QED BY <1>1, <1>2, QuietKeeps

\* A transaction is rolled back, or a process ends: nothing of it is left.
LEMMA ForgetKeeps ==
  ASSUME RowsInv, NEW p \in Sessions, NEW row \in Calls, call' = [call EXCEPT ![p] = row],
         Forget(p), UNCHANGED db, rebuild' = RebuildAfter(p),
         row.pc = "idle" \/ (row.pc = "failing" /\ row.file \in Files), row.todo = <<>>
  PROVE  RowsInv'
<1>1. /\ OthersSame(p) /\ call' \in [Sessions -> Calls] /\ call'[p] = row
      /\ mine'[p] = NoRows /\ known'[p] = NothingKnown
      /\ NoRows \in SessionRows /\ NothingKnown \in Knowledge
  BY DEF OthersSame, Others, RowsInv, Typed, Forget, NoRows, NothingKnown, SessionRows, Knowledge
<1>2. known' \in [Sessions -> Knowledge] /\ mine' \in [Sessions -> SessionRows]
  BY <1>1 DEF Forget, RowsInv, Typed
<1>3. LocksAgree(p)
  BY <1>1 DEF LocksAgree, NoRows
<1>4. ~Ingests(p)' /\ ~Rebuilds(p)'
  BY <1>1 DEF Ingests, Rebuilds, Writing, Rebuilding
<1>5. Stands(p)'
  BY <1>1, <1>4 DEF Stands, FileOf, LoadWork
<1>. QED BY <1>1, <1>2, <1>3, <1>4, <1>5, QuietKeeps

-----------------------------------------------------------------------------
(* The statements of an ingest call. *)

\* A session with nothing to do.
LEMMA IdleRow == Idle \in Calls /\ Idle.pc = "idle" /\ Idle.todo = <<>>
<1>1. Idle.pc = "idle" /\ Idle.todo = <<>>
  BY DEF Idle
<1>2. NoPlan \in Plan
  BY DEF NoPlan, Plan
<1>3. Idle \in Calls
  BY <1>2 DEF Idle, Calls, Statements
<1>. QED BY <1>1, <1>3

\* A statement that moves on in its line.
LEMMA GotoRow ==
  ASSUME Typed, NEW p \in Sessions, NEW pc \in Statements, Goto(p, pc)
  PROVE  \E row \in Calls :
           /\ call' = [call EXCEPT ![p] = row] /\ call'[p] = row /\ row.pc = pc
           /\ row.file = call[p].file /\ row.line = call[p].line /\ row.party = call[p].party
           /\ row.todo = call[p].todo /\ row.plan = call[p].plan
<1> DEFINE row == [call[p] EXCEPT !.pc = pc]
<1>1. call[p] \in Calls
  BY DEF Typed
<1>2. row \in Calls /\ row.pc = pc /\ row.file = call[p].file /\ row.line = call[p].line
      /\ row.party = call[p].party /\ row.todo = call[p].todo /\ row.plan = call[p].plan
  BY <1>1 DEF Calls
<1>3. call' = [call EXCEPT ![p] = row] /\ call'[p] = row
  BY DEF Goto, Typed
<1>. QED BY <1>2, <1>3

\* A statement that goes on to the next line.
LEMMA NextLineRow ==
  ASSUME Typed, NEW p \in Sessions, NextLine(p)
  PROVE  \E row \in Calls :
           /\ call' = [call EXCEPT ![p] = row] /\ call'[p] = row /\ row.pc = "parties"
           /\ row.file = call[p].file /\ row.line = call[p].line + 1 /\ row.party = 1
           /\ row.todo = call[p].todo /\ row.plan = call[p].plan
<1> DEFINE row == [call[p] EXCEPT !.pc = "parties", !.line = @ + 1, !.party = 1]
<1>1. call[p] \in Calls
  BY DEF Typed
<1>2. call[p].line + 1 \in Nat
  BY <1>1 DEF Calls
<1>3. row \in Calls /\ row.pc = "parties" /\ row.file = call[p].file
      /\ row.line = call[p].line + 1
      /\ row.party = 1 /\ row.todo = call[p].todo /\ row.plan = call[p].plan
  BY <1>1, <1>2 DEF Calls, Statements, Writing
<1>4. call' = [call EXCEPT ![p] = row] /\ call'[p] = row
  BY DEF NextLine, Typed
<1>. QED BY <1>3, <1>4

\* What a session is at stays while its file and line do.
LEMMA SamePlace ==
  ASSUME NEW p, call'[p].file = call[p].file, call'[p].line = call[p].line
  PROVE  /\ FileOf(p)' = FileOf(p) /\ At(p)' = At(p) /\ LoadAt(p)' = LoadAt(p)
         /\ HasLine(p)' = HasLine(p)
         /\ call'[p].party = call[p].party => PartyAt(p)' = PartyAt(p)
BY DEF FileOf, At, LoadAt, HasLine, PartyAt

\* The snapshot, the load and the party that a session is at are what the file
\* and the snapshot name.
LEMMA PlaceType ==
  ASSUME RowsInv, NEW p \in Sessions, Ingests(p), HasLine(p)
  PROVE  /\ FileOf(p) \in Files /\ SyncAt[FileOf(p)] \in Nat
         /\ At(p) \in Snapshots /\ Carries(FileOf(p), At(p)) /\ LoadAt(p) \in Loads
         /\ StatusOf[At(p)] \in Statuses
         /\ PartiesOf[At(p)] \in Seq(Parties)
         /\ call[p].party \in DOMAIN PartiesOf[At(p)] =>
              PartyAt(p) \in Parties /\ FileOf(p) \in Writers(PartyAt(p))
<1>1. FileOf(p) \in Files
  BY DEF RowsInv, Stands
<1>2. Lines[FileOf(p)] \in Seq(Snapshots)
  BY <1>1, ConcurrentAssumption
<1>3. At(p) \in Snapshots /\ Carries(FileOf(p), At(p))
  BY <1>2 DEF At, HasLine, Carries, ToSet
<1>4. PartiesOf[At(p)] \in Seq(Parties)
  BY <1>3, ConcurrentAssumption
<1>5. call[p].party \in DOMAIN PartiesOf[At(p)] =>
        PartyAt(p) \in Parties /\ PartyAt(p) \in ToSet(PartiesOf[At(p)])
  BY <1>4 DEF PartyAt, ToSet
<1>. QED BY <1>1, <1>3, <1>4, <1>5, ConcurrentAssumption DEF LoadAt, Carries, Writers

\* What the tables of a session hold.
LEMMA TableTypes ==
  ASSUME Typed, NEW p \in Sessions
  PROVE  /\ \A l \in Loads : /\ Load(p, l) \in LoadRow \cup {None}
                             /\ db.loads[l] \in LoadRow \cup {None}
                             /\ mine[p].loads[l] \in LoadRow \cup {None}
                             /\ known[p].loads[l] \in LoadRow \cup {None, Unread}
                             /\ db.stops[l] \in StopRow \cup {None}
                             /\ mine[p].stops[l] \in StopRow \cup {None, Deleted}
         /\ \A s \in Snapshots : /\ Row(p, s) \in VersionRow \cup {None}
                                 /\ db.versions[s] \in VersionRow \cup {None}
                                 /\ mine[p].versions[s] \in VersionRow \cup {None}
         /\ \A c \in Parties : /\ Visible(p, "parties", c) \in Nat \cup {None}
                               /\ db.parties[c] \in Nat \cup {None}
                               /\ mine[p].parties[c] \in Nat \cup {None}
                               /\ known[p].parties[c] \in Nat \cup {None, Unread}
<1>1. db \in Database /\ mine[p] \in SessionRows /\ known[p] \in Knowledge
  BY DEF Typed
<1>2. /\ db.loads \in [Loads -> LoadRow \cup {None}]
      /\ mine[p].loads \in [Loads -> LoadRow \cup {None}]
      /\ db.stops \in [Loads -> StopRow \cup {None}]
      /\ mine[p].stops \in [Loads -> StopRow \cup {None, Deleted}]
      /\ db.versions \in [Snapshots -> VersionRow \cup {None}]
      /\ mine[p].versions \in [Snapshots -> VersionRow \cup {None}]
      /\ db.parties \in [Parties -> Nat \cup {None}]
      /\ mine[p].parties \in [Parties -> Nat \cup {None}]
      /\ known[p].loads \in [Loads -> LoadRow \cup {None, Unread}]
      /\ known[p].parties \in [Parties -> Nat \cup {None, Unread}]
  BY <1>1 DEF Database, SessionRows, Knowledge
<1>. QED BY <1>2 DEF Load, Row, Visible

\* A checksum that is looked up.
LEMMA LookUpFileKeeps ==
  ASSUME RowsInv, NEW p \in Sessions, LookUpFile(p), rebuild' = RebuildAfter(p)
  PROVE  RowsInv'
<1>1. call[p].pc = "look_up" /\ call[p] \in Calls
  BY DEF LookUpFile, Runs, RowsInv, Typed
<1>2. PICK row \in Calls : /\ call' = [call EXCEPT ![p] = row] /\ call'[p] = row
                           /\ \/ row = Idle
                              \/ row = [call[p] EXCEPT !.pc = "insert_file"]
  <2>1. Idle \in Calls
    BY IdleRow
  <2>2. [call[p] EXCEPT !.pc = "insert_file"] \in Calls
    BY <1>1 DEF Calls, Statements
  <2>3. \/ call' = [call EXCEPT ![p] = Idle]
        \/ call' = [call EXCEPT ![p] = [call[p] EXCEPT !.pc = "insert_file"]]
    BY DEF LookUpFile
  <2>. QED BY <2>1, <2>2, <2>3 DEF RowsInv, Typed
<1>3. row.pc \in {"idle", "insert_file"} /\ row.todo = <<>>
      /\ (row.pc = "insert_file" => row.file \in Files /\ row.line = 1 /\ row.party = 1)
  BY <1>1, <1>2 DEF Idle, Calls, RowsInv, Stands, FileOf, Rebuilds, Rebuilding
<1>4. mine[p] = NoRows /\ known[p] = NothingKnown
  BY <1>1 DEF RowsInv, Stands, Ingests, Rebuilds, Writing, Rebuilding
<1>5. ~Ingests(p)' /\ ~Rebuilds(p)'
  BY <1>2, <1>3 DEF Ingests, Rebuilds, Writing, Rebuilding
<1>6. UNCHANGED <<db, known, mine>>
  BY DEF LookUpFile
<1>7. Stands(p)'
  BY <1>2, <1>3, <1>4, <1>5, <1>6 DEF Stands, FileOf, LoadWork
<1>. QED BY <1>2, <1>5, <1>6, <1>7, MoveKeeps

\* An ingest call whose statement raises is about to record its failure.
LEMMA AbortKeeps ==
  ASSUME RowsInv, NEW p \in Sessions, Abort(p), call[p].pc # "idle", rebuild' = RebuildAfter(p)
  PROVE  RowsInv'
<1>1. call[p] \in Calls /\ call[p].pc \in Statements
  BY DEF RowsInv, Typed, Calls
<1>2. CASE Rebuilds(p)
  <2>1. call' = [call EXCEPT ![p] = Idle]
    BY <1>2 DEF Abort, Rebuilds
  <2>2. PICK row \in Calls : row = Idle /\ row.pc = "idle" /\ row.todo = <<>>
    BY IdleRow
  <2>3. Forget(p) /\ UNCHANGED db
    BY DEF Abort
  <2>. QED BY <2>1, <2>2, <2>3, ForgetKeeps
<1>3. CASE ~Rebuilds(p)
  <2> DEFINE row == [call[p] EXCEPT !.pc = "failing"]
  <2>1. call' = [call EXCEPT ![p] = row]
    BY <1>3 DEF Abort, Rebuilds
  <2>2. row \in Calls /\ row.pc = "failing" /\ row.file = call[p].file /\ row.todo = call[p].todo
    BY <1>1 DEF Calls, Statements
  <2>3. call[p].todo = <<>> /\ call[p].file \in Files
    BY <1>1, <1>3
       DEF RowsInv, Stands, FileOf, Statements, Ingests, Rebuilds
  <2>4. Forget(p) /\ UNCHANGED db
    BY DEF Abort
  <2> HIDE DEF row
  <2>. QED BY <2>1, <2>2, <2>3, <2>4, ForgetKeeps
<1>. QED BY <1>2, <1>3

\* The row of a file is inserted if nobody else has it.
LEMMA InsertFileKeeps ==
  ASSUME RowsInv, NEW p \in Sessions, InsertFile(p), rebuild' = RebuildAfter(p)
  PROVE  RowsInv'
<1>1. call[p].pc = "insert_file" /\ Blockers(p) = {}
  BY DEF InsertFile, Runs
<1>2. CASE Abort(p)
  BY <1>1, <1>2, AbortKeeps
<1>3. CASE ~Abort(p)
  <2>1. db.files[FileOf(p)] = "ABSENT" /\ Goto(p, "parties") /\ UNCHANGED <<db, known, mine>>
    BY <1>3 DEF InsertFile
  <2>2. "parties" \in Statements
    BY DEF Statements, Writing
  <2>3. PICK row \in Calls :
          /\ call' = [call EXCEPT ![p] = row] /\ call'[p] = row /\ row.pc = "parties"
          /\ row.file = call[p].file /\ row.line = call[p].line /\ row.party = call[p].party
          /\ row.todo = call[p].todo
    BY <2>1, <2>2, GotoRow DEF RowsInv
  <2>4. mine[p] = NoRows /\ known[p] = NothingKnown
        /\ FileOf(p) \in Files /\ call[p].line = 1 /\ call[p].party = 1 /\ call[p].todo = <<>>
    BY <1>1 DEF RowsInv, Stands, Ingests, Rebuilds, Writing, Rebuilding
  <2>5. Ingests(p)' /\ ~Rebuilds(p)' /\ FileOf(p)' = FileOf(p)
    BY <2>3 DEF Ingests, Rebuilds, Writing, Rebuilding, FileOf
  <2>6. \A q \in Others(p) : Ingests(q) => FileOf(q) # FileOf(p)'
    BY <1>1, <2>5 DEF Blockers, Ingests
  <2>7. Stands(p)'
    BY <2>1, <2>3, <2>4, <2>5 DEF Stands, LoadWork
  <2>8. WrittenFacts(p)'
    BY <2>1, <2>4 DEF WrittenFacts, NoRows, NothingKnown
  <2>9. WrittenLoads(p)'
    <3>1. \A l \in Loads : known[p].loads[l] = Unread /\ mine[p].loads[l] = None
      BY <2>4 DEF NoRows, NothingKnown
    <3>. QED BY <2>1, <2>3, <3>1, NoneAssumption DEF WrittenLoads, VersionWork, LoadWork
  <2>. QED BY <2>1, <2>3, <2>5, <2>6, <2>7, <2>8, <2>9, MoveKeeps
<1>. QED BY <1>2, <1>3

\* A party row is read.
LEMMA SelectPartyKeeps ==
  ASSUME RowsInv, NEW p \in Sessions, SelectParty(p), rebuild' = RebuildAfter(p)
  PROVE  RowsInv'
<1>1. /\ call[p].pc = "parties" /\ HasLine(p) /\ call[p].party \in DOMAIN PartiesOf[At(p)]
      /\ Goto(p, "write_party") /\ UNCHANGED <<db, mine>>
      /\ Ingests(p) /\ ~Rebuilds(p)
  BY DEF SelectParty, Runs, Ingests, Rebuilds, Writing, Rebuilding
<1>2. PICK row \in Calls :
        /\ call' = [call EXCEPT ![p] = row] /\ call'[p] = row /\ row.pc = "write_party"
        /\ row.file = call[p].file /\ row.line = call[p].line /\ row.party = call[p].party
        /\ row.todo = call[p].todo
  BY <1>1, GotoRow DEF RowsInv, Statements, Writing
<1>3. PICK c \in Parties : c = PartyAt(p)
  BY <1>1, PlaceType
<1>4. PICK seen \in Nat \cup {None} :
        /\ known' = [known EXCEPT ![p].parties[c] = seen]
        /\ seen = known[p].parties[c]
           \/ (known[p].parties[c] = Unread /\ seen = Visible(p, "parties", c))
  <2>1. Remembered(p, "parties", c) \in Nat \cup {None}
    BY TableTypes DEF Remembered, RowsInv
  <2>. QED BY <1>3, <2>1 DEF SelectParty, Remembered
<1>5. /\ known' \in [Sessions -> Knowledge]
      /\ known'[p].loads = known[p].loads
      /\ known'[p].parties[c] = seen
      /\ \A d \in Parties : d # c => known'[p].parties[d] = known[p].parties[d]
      /\ \A q \in Others(p) : known'[q] = known[q]
  BY <1>4 DEF RowsInv, Typed, Knowledge, Others
<1>6. FileOf(p)' = FileOf(p) /\ At(p)' = At(p) /\ LoadAt(p)' = LoadAt(p)
      /\ HasLine(p)' = HasLine(p) /\ PartyAt(p)' = PartyAt(p)
  BY <1>2, SamePlace
<1>7. Ingests(p)' /\ ~Rebuilds(p)'
  BY <1>2 DEF Ingests, Rebuilds, Writing, Rebuilding
<1>8. Stands(p)'
  BY <1>1, <1>2, <1>3, <1>4, <1>5, <1>6, <1>7, NoneAssumption
     DEF RowsInv, Stands, LoadWork
<1>9. WrittenFacts(p)'
  <2>1. seen # None => mine[p].parties[c] # None \/ Observed(c, seen)
    BY <1>1, <1>4, NoneAssumption DEF RowsInv, WrittenFacts, Visible, Committed
  <2>2. \A d, t : Observed(d, t)' = Observed(d, t)
    BY <1>1 DEF Observed
  <2>. QED BY <1>1, <1>2, <1>5, <1>6, <2>1, <2>2 DEF RowsInv, WrittenFacts
<1>10. WrittenLoads(p)'
  <2>1. \A l \in Loads : ~Fresh(p, l)
    BY <1>1 DEF Fresh
  <2>2. \A l \in Loads : Load(p, l)' = Load(p, l)
    BY <1>1 DEF Load, Visible
  <2>3. \A s : Row(p, s)' = Row(p, s)
    BY <1>1 DEF Row, Visible
  <2>. QED BY <1>1, <1>2, <1>5, <1>6, <2>1, <2>2, <2>3
           DEF RowsInv, WrittenLoads, LoadWork, VersionWork
<1>11. OthersSame(p) /\ LocksAgree(p)
  BY <1>1, <1>2, <1>5 DEF OthersSame, LocksAgree, Others, RowsInv, Typed, Locked
<1>12. \A q \in Others(p) : Ingests(q) => FileOf(q) # FileOf(p)'
  BY <1>1, <1>6 DEF RowsInv, Alone, Others
<1>. QED BY <1>1, <1>2, <1>5, <1>7, <1>8, <1>9, <1>10, <1>11, <1>12, QuietKeeps
         DEF RowsInv, Typed

\* A party row is inserted or updated, unless it shows the time already.
LEMMA WritePartyKeeps ==
  ASSUME RowsInv, NEW p \in Sessions, WriteParty(p), rebuild' = RebuildAfter(p)
  PROVE  RowsInv'
<1>1. /\ call[p].pc = "write_party" /\ Blockers(p) = {} /\ HasLine(p)
      /\ call[p].party \in DOMAIN PartiesOf[At(p)]
      /\ Ingests(p) /\ ~Rebuilds(p)
  BY DEF WriteParty, Runs, RowsInv, Stands, Ingests, Rebuilds, Writing, Rebuilding
<1>2. CASE Abort(p)
  BY <1>1, <1>2, AbortKeeps
<1>3. CASE ~Abort(p)
  <2>1. PICK c \in Parties : c = PartyAt(p) /\ FileOf(p) \in Writers(c)
    BY <1>1, PlaceType
  <2>2. SyncAt[FileOf(p)] \in Nat /\ FileOf(p) \in Files
    BY <1>1, PlaceType
  <2>3. /\ mine' = [mine EXCEPT ![p].parties[c] =
                       IF NeedsWrite(p) THEN SyncAt[FileOf(p)] ELSE @]
        /\ known' = [known EXCEPT ![p].parties[c] = SyncAt[FileOf(p)]]
        /\ call' = [call EXCEPT ![p].pc = "parties", ![p].party = @ + 1]
        /\ UNCHANGED db
    BY <1>3, <2>1 DEF WriteParty
  <2>4. call[p] \in Calls /\ call[p].party + 1 \in Nat
    BY DEF RowsInv, Typed, Calls
  <2>5. call' \in [Sessions -> Calls] /\ call'[p].pc = "parties"
        /\ call'[p].file = call[p].file /\ call'[p].line = call[p].line
        /\ call'[p].party = call[p].party + 1 /\ call'[p].todo = call[p].todo
        /\ \A q \in Others(p) : call'[q] = call[q]
    BY <2>3, <2>4 DEF RowsInv, Typed, Calls, Statements, Writing, Others
  <2>6. /\ known' \in [Sessions -> Knowledge]
        /\ known'[p].loads = known[p].loads
        /\ known'[p].parties[c] = SyncAt[FileOf(p)]
        /\ \A d \in Parties : d # c => known'[p].parties[d] = known[p].parties[d]
        /\ \A q \in Others(p) : known'[q] = known[q]
    BY <2>2, <2>3 DEF RowsInv, Typed, Knowledge, Others
  <2>7. /\ mine' \in [Sessions -> SessionRows]
        /\ mine'[p].loads = mine[p].loads /\ mine'[p].versions = mine[p].versions
        /\ mine'[p].stops = mine[p].stops
        /\ mine'[p].parties[c] = IF NeedsWrite(p) THEN SyncAt[FileOf(p)]
                                 ELSE mine[p].parties[c]
        /\ \A d \in Parties : d # c => mine'[p].parties[d] = mine[p].parties[d]
        /\ \A q \in Others(p) : mine'[q] = mine[q]
    BY <2>2, <2>3 DEF RowsInv, Typed, SessionRows, Others
  <2>8. FileOf(p)' = FileOf(p) /\ At(p)' = At(p) /\ LoadAt(p)' = LoadAt(p)
        /\ HasLine(p)' = HasLine(p)
    BY <2>5, SamePlace
  <2>9. Ingests(p)' /\ ~Rebuilds(p)'
    BY <2>5 DEF Ingests, Rebuilds, Writing, Rebuilding
  <2>10. Stands(p)'
    <3>1. call[p].party + 1 >= 1
      BY <2>4 DEF Calls
    <3>. QED BY <1>1, <2>3, <2>5, <2>8, <2>9, <3>1 DEF RowsInv, Stands, LoadWork
  <2>11. WrittenFacts(p)'
    <3>1. mine'[p].parties[c] # None \/ Observed(c, SyncAt[FileOf(p)])
      BY <1>1, <2>1, <2>2, <2>7, NoneAssumption DEF NeedsWrite, RowsInv, WrittenFacts, Stands
    <3>2. \A d, t : Observed(d, t)' = Observed(d, t)
      BY <2>3 DEF Observed
    <3>. QED BY <1>1, <2>1, <2>3, <2>5, <2>6, <2>7, <2>8, <3>1, <3>2 DEF RowsInv, WrittenFacts
  <2>12. WrittenLoads(p)'
    <3>1. \A l \in Loads : ~Fresh(p, l)
      BY <1>1 DEF Fresh
    <3>2. \A l \in Loads : Load(p, l)' = Load(p, l)
      BY <2>3, <2>7 DEF Load, Visible
    <3>3. \A s : Row(p, s)' = Row(p, s)
      BY <2>3, <2>7 DEF Row, Visible
    <3>. QED BY <1>1, <2>5, <2>6, <2>7, <2>8, <3>1, <3>2, <3>3
             DEF RowsInv, WrittenLoads, LoadWork, VersionWork
  <2>13. OthersSame(p)
    BY <2>5, <2>6, <2>7 DEF OthersSame
  <2>14. LocksAgree(p)
    <3>1. NeedsWrite(p) => \A q \in Others(p) : mine[q].parties[c] = None
      BY <1>1, <2>1 DEF Blockers
    <3>. QED BY <2>7, <3>1 DEF LocksAgree, Others, RowsInv, Locked
  <2>15. \A q \in Others(p) : Ingests(q) => FileOf(q) # FileOf(p)'
    BY <1>1, <2>8 DEF RowsInv, Alone, Others
  <2>. QED BY <2>3, <2>5, <2>6, <2>7, <2>9, <2>10, <2>11, <2>12, <2>13, <2>14, <2>15, QuietKeeps
<1>. QED BY <1>2, <1>3

\* The row of the load is read.
LEMMA SelectLoadKeeps ==
  ASSUME RowsInv, NEW p \in Sessions, SelectLoad(p), rebuild' = RebuildAfter(p)
  PROVE  RowsInv'
<1>1. /\ call[p].pc = "parties" /\ HasLine(p) /\ call[p].party \notin DOMAIN PartiesOf[At(p)]
      /\ UNCHANGED <<db, mine>> /\ Ingests(p) /\ ~Rebuilds(p)
  BY DEF SelectLoad, Runs, Ingests, Rebuilds, Writing, Rebuilding
<1>2. PICK l \in Loads : l = LoadAt(p)
  BY <1>1, PlaceType
<1>3. known[p].loads[l] # None /\ known[p].loads[l] \in LoadRow \cup {None, Unread}
  BY <1>1, TableTypes DEF RowsInv, WrittenLoads
<1>4. PICK seen \in LoadRow \cup {None} :
        /\ known' = [known EXCEPT ![p].loads[l] = seen]
        /\ Goto(p, IF seen = None THEN "insert_load" ELSE "look_up_version")
        /\ IF known[p].loads[l] = Unread THEN seen = Load(p, l) ELSE seen = known[p].loads[l]
  <2>1. Remembered(p, "loads", l) \in LoadRow \cup {None}
    BY <1>3, TableTypes DEF Remembered, Load, RowsInv
  <2>. QED BY <1>2, <2>1 DEF SelectLoad, Remembered, Load
<1>5. PICK pc \in {"insert_load", "look_up_version"} :
        Goto(p, pc) /\ (pc = "insert_load" <=> seen = None)
  BY <1>4
<1>6. PICK row \in Calls :
        /\ call' = [call EXCEPT ![p] = row] /\ call'[p] = row /\ row.pc = pc
        /\ row.file = call[p].file /\ row.line = call[p].line /\ row.party = call[p].party
        /\ row.todo = call[p].todo
  BY <1>5, GotoRow DEF RowsInv, Statements, Writing
<1>7. /\ known' \in [Sessions -> Knowledge]
      /\ known'[p].parties = known[p].parties
      /\ known'[p].loads[l] = seen
      /\ \A k \in Loads : k # l => known'[p].loads[k] = known[p].loads[k]
      /\ \A q \in Others(p) : known'[q] = known[q]
  BY <1>4 DEF RowsInv, Typed, Knowledge, Others
<1>8. FileOf(p)' = FileOf(p) /\ At(p)' = At(p) /\ LoadAt(p)' = LoadAt(p)
      /\ HasLine(p)' = HasLine(p)
  BY <1>6, SamePlace
<1>9. Ingests(p)' /\ ~Rebuilds(p)'
  BY <1>6 DEF Ingests, Rebuilds, Writing, Rebuilding
<1>10. Stands(p)'
  BY <1>1, <1>6, <1>8, <1>9 DEF RowsInv, Stands, LoadWork
<1>11. WrittenFacts(p)'
  <2>1. \A d, t : Observed(d, t)' = Observed(d, t)
    BY <1>1 DEF Observed
  <2>2. ASSUME NEW s \in Snapshots, mine[p].versions[s] # None
        PROVE  known'[p].loads[LoadOf[s]] = known[p].loads[LoadOf[s]]
               /\ known[p].loads[LoadOf[s]].current # None
    BY <1>1, <1>4, <1>7, <2>2, NoneAssumption, ConcurrentAssumption DEF RowsInv, WrittenFacts
  <2>. QED BY <1>1, <1>7, <1>8, <2>1, <2>2 DEF RowsInv, WrittenFacts
<1>12. WrittenLoads(p)'
  <2>1. \A k \in Loads : ~Fresh(p, k)
    BY <1>1 DEF Fresh
  <2>2. \A k \in Loads : Load(p, k)' = Load(p, k)
    BY <1>1 DEF Load, Visible
  <2>3. \A s : Row(p, s)' = Row(p, s)
    BY <1>1 DEF Row, Visible
  <2>4. ASSUME known[p].loads[l] = Unread, seen # None
        PROVE  /\ mine[p].loads[l] = None /\ Load(p, l) # None
               /\ seen.current \in Snapshots /\ LoadOf[seen.current] = l
               /\ Row(p, seen.current) # None
    <3>1. mine[p].loads[l] = None
      BY <1>1, <2>4, NoneAssumption DEF RowsInv, WrittenLoads
    <3>2. seen = db.loads[l] /\ Load(p, l) # None
      BY <1>4, <2>4, <3>1 DEF Load, Visible
    <3>3. seen.current \in VersionsOf(l)
      BY <2>4, <3>2 DEF RowsInv, Committed
    <3>. QED BY <3>1, <3>2, <3>3 DEF VersionsOf, Stored, Row, Visible
  <2>5. seen \in LoadRow =>
          /\ Load(p, l) # None
          /\ seen.current \in Snapshots /\ LoadOf[seen.current] = l
          /\ Row(p, seen.current) # None
          /\ mine[p].loads[l] # None =>
               /\ mine[p].loads[l].current \in Snapshots
               /\ LoadOf[mine[p].loads[l].current] = l
               /\ Row(p, mine[p].loads[l].current) # None
    BY <1>1, <1>3, <1>4, <2>1, <2>4, NoneAssumption DEF RowsInv, WrittenLoads
  <2>6. mine[p].loads[l] # None => seen \in LoadRow
    BY <1>1, <1>4, NoneAssumption DEF RowsInv, WrittenLoads
  <2>7. WrittenLoads(p)
    BY <1>1 DEF RowsInv
  <2>. QED BY <1>1, <1>2, <1>5, <1>6, <1>7, <1>8, <2>1, <2>2, <2>3, <2>5, <2>6, <2>7
           DEF WrittenLoads, VersionWork, LoadWork
<1>13. OthersSame(p) /\ LocksAgree(p)
  BY <1>1, <1>6, <1>7 DEF OthersSame, LocksAgree, Others, RowsInv, Typed, Locked
<1>14. \A q \in Others(p) : Ingests(q) => FileOf(q) # FileOf(p)'
  BY <1>1, <1>8 DEF RowsInv, Alone, Others
<1>. QED BY <1>1, <1>6, <1>7, <1>9, <1>10, <1>11, <1>12, <1>13, <1>14, QuietKeeps
         DEF RowsInv, Typed

\* The row of a load is inserted if nobody else has inserted one.
LEMMA InsertLoadKeeps ==
  ASSUME RowsInv, NEW p \in Sessions, InsertLoad(p), rebuild' = RebuildAfter(p)
  PROVE  RowsInv'
<1>1. /\ call[p].pc = "insert_load" /\ Blockers(p) = {} /\ HasLine(p)
      /\ Ingests(p) /\ ~Rebuilds(p)
  BY DEF InsertLoad, Runs, RowsInv, Stands, Ingests, Rebuilds, Writing, Rebuilding
<1>2. CASE Abort(p)
  BY <1>1, <1>2, AbortKeeps
<1>3. CASE ~Abort(p)
  <2>1. PICK l \in Loads : l = LoadAt(p)
    BY <1>1, PlaceType
  <2>2. PICK new \in LoadRow : new = NewLoad(p) /\ new.current = None
    <3>1. StatusOf[At(p)] \in Statuses /\ SyncAt[FileOf(p)] \in Nat
      BY <1>1, PlaceType
    <3>2. NewLoad(p) \in LoadRow /\ NewLoad(p).current = None
      BY <3>1 DEF NewLoad, LoadRow
    <3>. QED BY <3>2
  <2>3. /\ db.loads[l] = None
        /\ mine' = [mine EXCEPT ![p].loads[l] = new]
        /\ known' = [known EXCEPT ![p].loads[l] = new]
        /\ Goto(p, "look_up_version") /\ UNCHANGED db
    BY <1>3, <2>1, <2>2 DEF InsertLoad
  <2>4. PICK row \in Calls :
          /\ call' = [call EXCEPT ![p] = row] /\ call'[p] = row /\ row.pc = "look_up_version"
          /\ row.file = call[p].file /\ row.line = call[p].line /\ row.party = call[p].party
          /\ row.todo = call[p].todo
    BY <2>3, GotoRow DEF RowsInv, Statements, Writing
  <2>5. /\ known' \in [Sessions -> Knowledge]
        /\ known'[p].parties = known[p].parties
        /\ known'[p].loads[l] = new
        /\ \A k \in Loads : k # l => known'[p].loads[k] = known[p].loads[k]
        /\ \A q \in Others(p) : known'[q] = known[q]
    <3>1. known \in [Sessions -> Knowledge] /\ known[p] \in Knowledge
      BY DEF RowsInv, Typed
    <3>2. [known[p] EXCEPT !.loads[l] = new] \in Knowledge
      BY <3>1 DEF Knowledge
    <3>3. known' = [known EXCEPT ![p] = [known[p] EXCEPT !.loads[l] = new]]
      BY <2>3, <3>1
    <3>4. known'[p] = [known[p] EXCEPT !.loads[l] = new]
      BY <3>1, <3>3
    <3>5. known' \in [Sessions -> Knowledge]
      BY <3>1, <3>2, <3>3
    <3>6. \A q \in Others(p) : known'[q] = known[q]
      BY <3>1, <3>3 DEF Others
    <3>. QED BY <3>1, <3>4, <3>5, <3>6 DEF Knowledge
  <2>6. /\ mine' \in [Sessions -> SessionRows]
        /\ mine'[p].parties = mine[p].parties /\ mine'[p].versions = mine[p].versions
        /\ mine'[p].stops = mine[p].stops
        /\ mine'[p].loads[l] = new
        /\ \A k \in Loads : k # l => mine'[p].loads[k] = mine[p].loads[k]
        /\ \A q \in Others(p) : mine'[q] = mine[q]
    <3>1. mine \in [Sessions -> SessionRows] /\ mine[p] \in SessionRows
      BY DEF RowsInv, Typed
    <3>2. [mine[p] EXCEPT !.loads[l] = new] \in SessionRows
      BY <3>1 DEF SessionRows
    <3>3. mine' = [mine EXCEPT ![p] = [mine[p] EXCEPT !.loads[l] = new]]
      BY <2>3, <3>1
    <3>4. mine'[p] = [mine[p] EXCEPT !.loads[l] = new]
      BY <3>1, <3>3
    <3>5. mine' \in [Sessions -> SessionRows]
      BY <3>1, <3>2, <3>3
    <3>6. \A q \in Others(p) : mine'[q] = mine[q]
      BY <3>1, <3>3 DEF Others
    <3>. QED BY <3>1, <3>4, <3>5, <3>6 DEF SessionRows
  <2>7. FileOf(p)' = FileOf(p) /\ At(p)' = At(p) /\ LoadAt(p)' = LoadAt(p)
        /\ HasLine(p)' = HasLine(p)
    BY <2>4, SamePlace
  <2>8. Ingests(p)' /\ ~Rebuilds(p)'
    BY <2>4 DEF Ingests, Rebuilds, Writing, Rebuilding
  <2>9. Stands(p)'
    BY <1>1, <2>3, <2>4, <2>7, <2>8 DEF RowsInv, Stands, LoadWork
  <2>10. known[p].loads[l] = None /\ mine[p].loads[l] = None
    BY <1>1, <2>1, NoneAssumption DEF RowsInv, WrittenLoads
  <2>11. WrittenFacts(p)'
    <3>1. \A d, t : Observed(d, t)' = Observed(d, t)
      BY <2>3 DEF Observed
    <3>2. ASSUME NEW s \in Snapshots, mine[p].versions[s] # None PROVE LoadOf[s] # l
      BY <1>1, <2>10, <3>2, NoneAssumption DEF RowsInv, WrittenFacts
    <3>. QED BY <1>1, <2>3, <2>4, <2>5, <2>6, <2>7, <3>1, <3>2, ConcurrentAssumption
             DEF RowsInv, WrittenFacts
  <2>12. WrittenLoads(p)'
    <3>1. Fresh(p, l)'
      BY <2>1, <2>2, <2>3, <2>4, <2>5, <2>6, <2>7, NoneAssumption DEF Fresh
    <3>2. \A k \in Loads : k # l => Load(p, k)' = Load(p, k) /\ ~Fresh(p, k)
      BY <1>1, <2>3, <2>6 DEF Load, Visible, Fresh
    <3>3. \A s : Row(p, s)' = Row(p, s)
      BY <2>3, <2>6 DEF Row, Visible
    <3>4. WrittenLoads(p)
      BY <1>1 DEF RowsInv
    <3>. QED BY <1>1, <2>1, <2>4, <2>5, <2>6, <2>7, <2>10, <3>1, <3>2, <3>3, <3>4, NoneAssumption
             DEF WrittenLoads, VersionWork, LoadWork
  <2>13. OthersSame(p)
    BY <2>4, <2>5, <2>6 DEF OthersSame, RowsInv, Typed, Others
  <2>14. LocksAgree(p)
    <3>1. \A q \in Others(p) : mine[q].loads[l] = None
      BY <1>1, <2>1 DEF Blockers
    <3>. QED BY <2>6, <3>1 DEF LocksAgree, Others, RowsInv, Locked
  <2>15. \A q \in Others(p) : Ingests(q) => FileOf(q) # FileOf(p)'
    BY <1>1, <2>7 DEF RowsInv, Alone, Others
  <2>. QED BY <2>3, <2>4, <2>5, <2>6, <2>8, <2>9, <2>11, <2>12, <2>13, <2>14, <2>15, QuietKeeps
           DEF RowsInv, Typed
<1>. QED BY <1>2, <1>3

\* A load that is not yet projected has no version.
LEMMA FreshHasNone ==
  ASSUME RowsInv, NEW p \in Sessions, Ingests(p), NEW l \in Loads, Fresh(p, l),
         call[p].pc # "project", NEW s \in Snapshots, LoadOf[s] = l
  PROVE  Row(p, s) = None
<1>1. mine[p].versions[s] = None
  BY NoneAssumption DEF RowsInv, WrittenFacts, Fresh
<1>2. db.versions[s] = None
  BY DEF Fresh, RowsInv, Committed, Stored
<1>. QED BY <1>1, <1>2 DEF Row, Visible

\* A snapshot is looked up; one that is stored is skipped.
LEMMA LookUpVersionKeeps ==
  ASSUME RowsInv, NEW p \in Sessions, LookUpVersion(p), rebuild' = RebuildAfter(p)
  PROVE  RowsInv'
<1>1. /\ call[p].pc = "look_up_version" /\ HasLine(p) /\ Ingests(p) /\ ~Rebuilds(p)
      /\ UNCHANGED <<db, known, mine>>
      /\ IF Row(p, At(p)) # None THEN NextLine(p) ELSE Goto(p, "insert_version")
  BY DEF LookUpVersion, Runs, RowsInv, Stands, Ingests, Rebuilds, Writing, Rebuilding, Row
<1>2. PICK l \in Loads : l = LoadAt(p)
  BY <1>1, PlaceType
<1>3. PICK row \in Calls :
        /\ call' = [call EXCEPT ![p] = row] /\ call'[p] = row
        /\ row.file = call[p].file /\ row.todo = call[p].todo
        /\ \/ /\ Row(p, At(p)) = None /\ row.pc = "insert_version"
              /\ row.line = call[p].line /\ row.party = call[p].party
           \/ /\ Row(p, At(p)) # None /\ row.pc = "parties"
              /\ row.line = call[p].line + 1 /\ row.party = 1
  BY <1>1, GotoRow, NextLineRow DEF RowsInv, Statements, Writing
<1>4. FileOf(p)' = FileOf(p)
  BY <1>3 DEF FileOf
<1>5. Ingests(p)' /\ ~Rebuilds(p)'
  BY <1>3 DEF Ingests, Rebuilds, Writing, Rebuilding
<1>6. At(p) \in Snapshots /\ LoadOf[At(p)] = l
  BY <1>1, <1>2, PlaceType DEF LoadAt
<1>7. \A d, t : Observed(d, t)' = Observed(d, t)
  BY <1>1 DEF Observed
<1>8. \A k : Load(p, k)' = Load(p, k)
  BY <1>1 DEF Load, Visible
<1>9. \A s : Row(p, s)' = Row(p, s)
  BY <1>1 DEF Row, Visible
<1>10. WrittenFacts(p) /\ WrittenLoads(p)
  BY <1>1 DEF RowsInv
<1>11. WrittenFacts(p)'
  BY <1>1, <1>3, <1>4, <1>7, <1>10 DEF WrittenFacts
<1>12. CASE row.pc = "insert_version"
  <2>1. At(p)' = At(p) /\ LoadAt(p)' = LoadAt(p) /\ HasLine(p)' = HasLine(p)
    BY <1>3, <1>12, SamePlace
  <2>2. Stands(p)'
    BY <1>1, <1>3, <1>4, <1>5, <1>12, <2>1 DEF RowsInv, Stands, LoadWork
  <2>3. \A k \in Loads : Fresh(p, k) => Fresh(p, k)'
    BY <1>1, <1>3, <1>12, <2>1 DEF Fresh
  <2>4. mine[p].versions[At(p)] = None
    BY <1>3, <1>12 DEF Row, Visible
  <2>5. WrittenLoads(p)'
    BY <1>1, <1>3, <1>8, <1>9, <1>10, <1>12, <2>1, <2>3, <2>4
       DEF WrittenLoads, VersionWork, LoadWork
  <2>. QED BY <1>1, <1>3, <1>4, <1>5, <1>11, <2>2, <2>5, MoveKeeps DEF RowsInv, Alone, Others
<1>13. CASE row.pc = "parties"
  <2>1. Stands(p)'
    <3>1. call[p].line + 1 >= 1
      BY DEF RowsInv, Typed, Calls
    <3>. QED BY <1>1, <1>3, <1>4, <1>5, <1>13, <3>1 DEF RowsInv, Stands, LoadWork
  <2>2. \A k \in Loads : ~Fresh(p, k)
    <3>1. \A k \in Loads : Fresh(p, k) => k = l
      BY <1>2 DEF Fresh
    <3>. QED BY <1>1, <1>3, <1>6, <1>13, <3>1, FreshHasNone
  <2>3. WrittenLoads(p)'
    BY <1>1, <1>3, <1>8, <1>9, <1>10, <1>13, <2>2 DEF WrittenLoads, VersionWork, LoadWork
  <2>. QED BY <1>1, <1>3, <1>4, <1>5, <1>11, <2>1, <2>3, MoveKeeps DEF RowsInv, Alone, Others
<1>. QED BY <1>3, <1>12, <1>13

\* A version row is inserted if nobody else has inserted it.
LEMMA InsertVersionKeeps ==
  ASSUME RowsInv, NEW p \in Sessions, InsertVersion(p), rebuild' = RebuildAfter(p)
  PROVE  RowsInv'
<1>1. /\ call[p].pc = "insert_version" /\ Blockers(p) = {} /\ HasLine(p)
      /\ Ingests(p) /\ ~Rebuilds(p)
  BY DEF InsertVersion, Runs, RowsInv, Stands, Ingests, Rebuilds, Writing, Rebuilding
<1>2. CASE Abort(p)
  BY <1>1, <1>2, AbortKeeps
<1>3. CASE ~Abort(p)
  <2>1. PICK s \in Snapshots, l \in Loads : s = At(p) /\ l = LoadAt(p) /\ LoadOf[s] = l
    BY <1>1, PlaceType DEF LoadAt
  <2>2. known[p].loads[l] \in LoadRow /\ mine[p].versions[s] = None
    BY <1>1, <2>1 DEF RowsInv, WrittenLoads, VersionWork, LoadWork
  <2>3. PICK new \in VersionRow : new = [file |-> FileOf(p),
                                         supersedes |-> known[p].loads[l].current]
    BY <1>1, <2>2, PlaceType DEF VersionRow, LoadRow
  <2>4. /\ db.versions[s] = None
        /\ mine' = [mine EXCEPT ![p].versions[s] = new]
        /\ IF BecomesCurrent(p) THEN Goto(p, "project") ELSE NextLine(p)
        /\ UNCHANGED <<db, known>>
    BY <1>3, <2>1, <2>3 DEF InsertVersion
  <2>5. PICK row \in Calls :
          /\ call' = [call EXCEPT ![p] = row] /\ call'[p] = row
          /\ row.file = call[p].file /\ row.todo = call[p].todo
          /\ \/ /\ BecomesCurrent(p) /\ row.pc = "project"
                /\ row.line = call[p].line /\ row.party = call[p].party
             \/ /\ ~BecomesCurrent(p) /\ row.pc = "parties"
                /\ row.line = call[p].line + 1 /\ row.party = 1
    BY <2>4, GotoRow, NextLineRow DEF RowsInv, Statements, Writing
  <2>6. /\ mine' \in [Sessions -> SessionRows]
        /\ mine'[p].parties = mine[p].parties /\ mine'[p].loads = mine[p].loads
        /\ mine'[p].stops = mine[p].stops
        /\ mine'[p].versions[s] = new
        /\ \A v \in Snapshots : v # s => mine'[p].versions[v] = mine[p].versions[v]
        /\ \A q \in Others(p) : mine'[q] = mine[q]
    <3>1. mine \in [Sessions -> SessionRows] /\ mine[p] \in SessionRows
      BY DEF RowsInv, Typed
    <3>2. [mine[p] EXCEPT !.versions[s] = new] \in SessionRows
      BY <3>1 DEF SessionRows
    <3>3. mine' = [mine EXCEPT ![p] = [mine[p] EXCEPT !.versions[s] = new]]
      BY <2>4, <3>1
    <3>4. mine'[p] = [mine[p] EXCEPT !.versions[s] = new]
      BY <3>1, <3>3
    <3>5. mine' \in [Sessions -> SessionRows]
      BY <3>1, <3>2, <3>3
    <3>6. \A q \in Others(p) : mine'[q] = mine[q]
      BY <3>1, <3>3 DEF Others
    <3>. QED BY <3>1, <3>4, <3>5, <3>6 DEF SessionRows
  <2>7. FileOf(p)' = FileOf(p) /\ Ingests(p)' /\ ~Rebuilds(p)'
    BY <2>5 DEF Ingests, Rebuilds, Writing, Rebuilding, FileOf
  <2>8. known[p].loads[l].current = None => BecomesCurrent(p)
    BY <2>1 DEF BecomesCurrent, ChooseCurrentVersion
  <2>9. known[p].loads[l].current # s
    <3>1. Row(p, s) = None /\ s # None
      BY <2>2, <2>4, NoneAssumption DEF Row, Visible
    <3>. QED BY <1>1, <2>1, <2>2, <3>1 DEF RowsInv, WrittenLoads, Fresh
  <2>10. row.pc = "project" => At(p)' = s /\ LoadAt(p)' = l /\ HasLine(p)'
    BY <1>1, <2>1, <2>5, SamePlace
  <2>11. \A d, t : Observed(d, t)' = Observed(d, t)
    BY <2>4 DEF Observed
  <2>12. WrittenFacts(p) /\ WrittenLoads(p)
    BY <1>1 DEF RowsInv
  <2>13. Carries(FileOf(p), s) /\ new.file = FileOf(p) /\ new # None
    BY <1>1, <2>1, <2>3, PlaceType, NoneAssumption
  <2>14. WrittenFacts(p)'
    <3>1. ASSUME NEW v \in Snapshots, mine'[p].versions[v] # None
          PROVE  /\ mine'[p].versions[v].file = FileOf(p)' /\ Carries(FileOf(p)', v)
                 /\ db'.versions[v] = None /\ known'[p].loads[LoadOf[v]] \in LoadRow
                 /\ \/ known'[p].loads[LoadOf[v]].current # None
                    \/ call'[p].pc = "project" /\ v = At(p)'
      <4>1. CASE v = s
        BY <2>1, <2>2, <2>4, <2>5, <2>6, <2>7, <2>8, <2>10, <2>13, <4>1
      <4>2. CASE v # s
        BY <1>1, <2>4, <2>6, <2>7, <2>12, <3>1, <4>2 DEF WrittenFacts
      <4>. QED BY <4>1, <4>2
    <3>. QED BY <2>4, <2>6, <2>7, <2>11, <2>12, <3>1 DEF WrittenFacts
  <2>15. WrittenLoads(p)'
    <3>1. \A k \in Loads : Load(p, k)' = Load(p, k)
      BY <2>4, <2>6 DEF Load, Visible
    <3>2. \A v \in Snapshots : Row(p, v) # None => Row(p, v)' # None
      BY <2>4, <2>6, <2>13 DEF Row, Visible
    <3>3. \A k \in Loads : Fresh(p, k) => Fresh(p, k)'
      <4>1. \A k \in Loads : Fresh(p, k) => k = l /\ row.pc = "project"
        BY <2>1, <2>5, <2>8 DEF Fresh
      <4>. QED BY <2>4, <2>5, <2>6, <2>10, <4>1 DEF Fresh
    <3>. QED BY <1>1, <2>1, <2>2, <2>4, <2>5, <2>6, <2>9, <2>10, <2>12, <2>13, <3>1, <3>2, <3>3
             DEF WrittenLoads, VersionWork, LoadWork
  <2>16. Stands(p)'
    <3>1. call[p].line + 1 >= 1
      BY DEF RowsInv, Typed, Calls
    <3>2. call[p].party \notin DOMAIN PartiesOf[s] /\ db.files[FileOf(p)] = "ABSENT"
          /\ call[p].line >= 1 /\ call[p].party >= 1 /\ call[p].todo = <<>> /\ FileOf(p) \in Files
      BY <1>1, <2>1 DEF RowsInv, Stands, LoadWork
    <3>. QED BY <2>4, <2>5, <2>7, <2>10, <3>1, <3>2 DEF Stands, LoadWork
  <2>17. OthersSame(p) /\ call' \in [Sessions -> Calls]
    BY <2>4, <2>5, <2>6 DEF OthersSame, RowsInv, Typed, Others
  <2>18. LocksAgree(p)
    <3>1. \A q \in Others(p) : mine[q].versions[s] = None
      BY <1>1, <2>1 DEF Blockers
    <3>. QED BY <2>6, <3>1 DEF LocksAgree, Others, RowsInv, Locked
  <2>19. \A q \in Others(p) : Ingests(q) => FileOf(q) # FileOf(p)'
    BY <1>1, <2>7 DEF RowsInv, Alone, Others
  <2>. QED BY <2>4, <2>6, <2>7, <2>14, <2>15, <2>16, <2>17, <2>18, <2>19, QuietKeeps
           DEF RowsInv, Typed
<1>. QED BY <1>2, <1>3

\* The load is moved to the version.
LEMMA ProjectKeeps ==
  ASSUME RowsInv, NEW p \in Sessions, Project(p), rebuild' = RebuildAfter(p)
  PROVE  RowsInv'
<1>1. /\ call[p].pc = "project" /\ Blockers(p) = {} /\ HasLine(p)
      /\ Ingests(p) /\ ~Rebuilds(p)
  BY DEF Project, Runs, RowsInv, Stands, Ingests, Rebuilds, Writing, Rebuilding
<1>2. PICK s \in Snapshots, l \in Loads : s = At(p) /\ l = LoadAt(p) /\ LoadOf[s] = l
  BY <1>1, PlaceType DEF LoadAt
<1>3. WrittenFacts(p) /\ WrittenLoads(p)
  BY <1>1 DEF RowsInv
<1>4. /\ known[p].loads[l] \in LoadRow /\ known[p].loads[l].current # s
      /\ mine[p].versions[s] # None
  BY <1>1, <1>2, <1>3 DEF WrittenLoads, VersionWork, LoadWork
<1>5. Load(p, l) \in LoadRow
  <2>1. Load(p, l) # None
    BY <1>3, <1>4 DEF WrittenLoads, Fresh, Load, Visible
  <2>. QED BY <2>1, TableTypes DEF RowsInv
<1>6. PICK new \in LoadRow : new = Projection(s, SyncAt[FileOf(p)]) /\ new.current = s
  <2>1. StatusOf[s] \in Statuses /\ SyncAt[FileOf(p)] \in Nat
    BY <1>1, <1>2, PlaceType
  <2>2. Projection(s, SyncAt[FileOf(p)]) \in LoadRow
    BY <2>1 DEF Projection, LoadRow
  <2>. QED BY <2>2 DEF Projection
<1>7. PICK put \in LoadRow : put = Updated(Load(p, l), known[p].loads[l], new) /\ put.current = s
  BY <1>4, <1>5, <1>6, UpdatedFacts
<1>8. /\ mine' = [mine EXCEPT ![p].loads[l] = put]
      /\ known' = [known EXCEPT ![p].loads[l] = new]
      /\ Goto(p, "replace_stops") /\ UNCHANGED db
  BY <1>2, <1>6, <1>7 DEF Project, Load
<1>9. PICK row \in Calls :
        /\ call' = [call EXCEPT ![p] = row] /\ call'[p] = row /\ row.pc = "replace_stops"
        /\ row.file = call[p].file /\ row.line = call[p].line /\ row.party = call[p].party
        /\ row.todo = call[p].todo
  BY <1>8, GotoRow DEF RowsInv, Statements, Writing
<1>10. /\ known' \in [Sessions -> Knowledge]
       /\ known'[p].parties = known[p].parties
       /\ known'[p].loads[l] = new
       /\ \A k \in Loads : k # l => known'[p].loads[k] = known[p].loads[k]
       /\ \A q \in Others(p) : known'[q] = known[q]
  BY <1>8 DEF RowsInv, Typed, Knowledge, Others
<1>11. /\ mine' \in [Sessions -> SessionRows]
       /\ mine'[p].parties = mine[p].parties /\ mine'[p].versions = mine[p].versions
       /\ mine'[p].stops = mine[p].stops
       /\ mine'[p].loads[l] = put
       /\ \A k \in Loads : k # l => mine'[p].loads[k] = mine[p].loads[k]
       /\ \A q \in Others(p) : mine'[q] = mine[q]
  BY <1>8 DEF RowsInv, Typed, SessionRows, Others
<1>12. FileOf(p)' = FileOf(p) /\ At(p)' = At(p) /\ LoadAt(p)' = LoadAt(p)
       /\ HasLine(p)' = HasLine(p)
  BY <1>9, SamePlace
<1>13. Ingests(p)' /\ ~Rebuilds(p)'
  BY <1>9 DEF Ingests, Rebuilds, Writing, Rebuilding
<1>14. Stands(p)'
  BY <1>1, <1>8, <1>9, <1>12, <1>13 DEF RowsInv, Stands, LoadWork
<1>15. new # None /\ put # None /\ s # None
  BY NoneAssumption
<1>16. WrittenFacts(p)'
  <2>1. \A d, t : Observed(d, t)' = Observed(d, t)
    BY <1>8 DEF Observed
  <2>2. ASSUME NEW v \in Snapshots, mine[p].versions[v] # None
        PROVE  /\ known'[p].loads[LoadOf[v]] \in LoadRow
               /\ known'[p].loads[LoadOf[v]].current # None
    <3>1. LoadOf[v] \in Loads
      BY ConcurrentAssumption
    <3>2. CASE LoadOf[v] = l
      BY <1>6, <1>10, <1>15, <3>2
    <3>3. CASE LoadOf[v] # l
      BY <1>2, <1>3, <1>10, <2>2, <3>1, <3>3 DEF WrittenFacts
    <3>. QED BY <3>2, <3>3
  <2>. QED BY <1>3, <1>8, <1>10, <1>11, <1>12, <2>1, <2>2 DEF WrittenFacts
<1>17. WrittenLoads(p)'
  <2>1. \A k \in Loads : k # l => Load(p, k)' = Load(p, k) /\ ~Fresh(p, k)
    BY <1>2, <1>8, <1>11 DEF Load, Visible, Fresh
  <2>2. \A v : Row(p, v)' = Row(p, v)
    BY <1>8, <1>11 DEF Row, Visible
  <2>3. Row(p, s) # None
    BY <1>4 DEF Row, Visible
  <2>4. Load(p, l)' # None
    BY <1>11, <1>15 DEF Load, Visible
  <2>. QED BY <1>1, <1>2, <1>3, <1>4, <1>6, <1>7, <1>9, <1>10, <1>11, <1>12, <1>15,
              <2>1, <2>2, <2>3, <2>4
           DEF WrittenLoads, VersionWork, LoadWork
<1>18. OthersSame(p) /\ call' \in [Sessions -> Calls]
  BY <1>9, <1>10, <1>11 DEF OthersSame, RowsInv, Typed, Others
<1>19. LocksAgree(p)
  <2>1. \A q \in Others(p) : mine[q].loads[l] = None
    BY <1>1, <1>2 DEF Blockers
  <2>. QED BY <1>11, <2>1 DEF LocksAgree, Others, RowsInv, Locked
<1>20. \A q \in Others(p) : Ingests(q) => FileOf(q) # FileOf(p)'
  BY <1>1, <1>12 DEF RowsInv, Alone, Others
<1>. QED BY <1>8, <1>10, <1>11, <1>13, <1>14, <1>16, <1>17, <1>18, <1>19, <1>20, QuietKeeps

\* The stops of the load are replaced.
LEMMA ReplaceStopsKeeps ==
  ASSUME RowsInv, NEW p \in Sessions, ReplaceStops(p), rebuild' = RebuildAfter(p)
  PROVE  RowsInv'
<1>1. /\ call[p].pc = "replace_stops" /\ HasLine(p) /\ Ingests(p) /\ ~Rebuilds(p)
  BY DEF ReplaceStops, Runs, RowsInv, Stands, Ingests, Rebuilds, Writing, Rebuilding
<1>2. PICK l \in Loads : l = LoadAt(p)
  BY <1>1, PlaceType
<1>3. PICK put \in StopRow : put = [of |-> At(p), by |-> FileOf(p)]
  BY <1>1, PlaceType DEF StopRow
<1>4. /\ mine' = [mine EXCEPT ![p].stops[l] = put]
      /\ NextLine(p) /\ UNCHANGED <<db, known>>
  BY <1>2, <1>3 DEF ReplaceStops
<1>5. PICK row \in Calls :
        /\ call' = [call EXCEPT ![p] = row] /\ call'[p] = row /\ row.pc = "parties"
        /\ row.file = call[p].file /\ row.line = call[p].line + 1 /\ row.party = 1
        /\ row.todo = call[p].todo
  BY <1>4, NextLineRow DEF RowsInv
<1>6. /\ mine' \in [Sessions -> SessionRows]
      /\ mine'[p].parties = mine[p].parties /\ mine'[p].versions = mine[p].versions
      /\ mine'[p].loads = mine[p].loads
      /\ \A q \in Others(p) : mine'[q] = mine[q]
  BY <1>4 DEF RowsInv, Typed, SessionRows, Others
<1>7. FileOf(p)' = FileOf(p) /\ Ingests(p)' /\ ~Rebuilds(p)'
  BY <1>5 DEF Ingests, Rebuilds, Writing, Rebuilding, FileOf
<1>8. WrittenFacts(p) /\ WrittenLoads(p)
  BY <1>1 DEF RowsInv
<1>9. Stands(p)'
  <2>1. call[p].line + 1 >= 1
    BY DEF RowsInv, Typed, Calls
  <2>. QED BY <1>1, <1>4, <1>5, <1>7, <2>1 DEF RowsInv, Stands, LoadWork
<1>10. WrittenFacts(p)'
  <2>1. \A d, t : Observed(d, t)' = Observed(d, t)
    BY <1>4 DEF Observed
  <2>. QED BY <1>1, <1>4, <1>6, <1>7, <1>8, <2>1 DEF WrittenFacts
<1>11. WrittenLoads(p)'
  <2>1. \A k \in Loads : Load(p, k)' = Load(p, k) /\ ~Fresh(p, k)
    BY <1>1, <1>4, <1>6 DEF Load, Visible, Fresh
  <2>2. \A v : Row(p, v)' = Row(p, v)
    BY <1>4, <1>6 DEF Row, Visible
  <2>. QED BY <1>1, <1>4, <1>5, <1>6, <1>8, <2>1, <2>2 DEF WrittenLoads, VersionWork, LoadWork
<1>12. OthersSame(p) /\ call' \in [Sessions -> Calls]
  BY <1>4, <1>5, <1>6 DEF OthersSame, RowsInv, Typed, Others
<1>13. LocksAgree(p)
  BY <1>6 DEF LocksAgree, Others, RowsInv, Locked
<1>14. \A q \in Others(p) : Ingests(q) => FileOf(q) # FileOf(p)'
  BY <1>1, <1>7 DEF RowsInv, Alone, Others
<1>. QED BY <1>4, <1>6, <1>7, <1>9, <1>10, <1>11, <1>12, <1>13, <1>14, QuietKeeps
         DEF RowsInv, Typed

\* The committed rows after a commit are those that its session saw.
LEMMA PublishedRows ==
  ASSUME Typed, NEW p \in Sessions, NEW files \in [Files -> Verdicts], db' = Published(p, files)
  PROVE  /\ db' \in Database /\ db'.files = files
         /\ \A s \in Snapshots : db'.versions[s] = Row(p, s)
         /\ \A l \in Loads : db'.loads[l] = Load(p, l)
         /\ \A c \in Parties : db'.parties[c] = Visible(p, "parties", c)
         /\ \A l \in Loads :
              db'.stops[l] = IF mine[p].stops[l] = None THEN db.stops[l]
                             ELSE IF mine[p].stops[l] = Deleted THEN None ELSE mine[p].stops[l]
<1>1. /\ db'.files = files /\ db'.versions = Merge(db.versions, mine[p].versions)
      /\ db'.loads = Merge(db.loads, mine[p].loads)
      /\ db'.stops = Merge(db.stops, mine[p].stops)
      /\ db'.parties = Merge(db.parties, mine[p].parties)
  BY DEF Published
<1>2. db \in Database /\ mine[p] \in SessionRows
  BY DEF Typed
<1>3. /\ DOMAIN db.versions = Snapshots /\ DOMAIN db.loads = Loads /\ DOMAIN db.stops = Loads
      /\ DOMAIN db.parties = Parties
  BY <1>2 DEF Database
<1>4. /\ \A s \in Snapshots : db'.versions[s] = Row(p, s)
      /\ \A l \in Loads : db'.loads[l] = Load(p, l)
      /\ \A c \in Parties : db'.parties[c] = Visible(p, "parties", c)
  <2>1. /\ \A s \in Snapshots : mine[p].versions[s] # Deleted
        /\ \A l \in Loads : mine[p].loads[l] # Deleted
        /\ \A c \in Parties : mine[p].parties[c] # Deleted
    BY TableTypes, NoneAssumption
  <2>. QED BY <1>1, <1>3, <2>1, MergedRows DEF Row, Load, Visible
<1>5. \A l \in Loads :
        db'.stops[l] = IF mine[p].stops[l] = None THEN db.stops[l]
                       ELSE IF mine[p].stops[l] = Deleted THEN None ELSE mine[p].stops[l]
  BY <1>1, <1>3, MergedRows
<1>6. db' \in Database
  <2>1. /\ db'.versions = [s \in Snapshots |-> Merge(db.versions, mine[p].versions)[s]]
        /\ db'.loads = [l \in Loads |-> Merge(db.loads, mine[p].loads)[l]]
        /\ db'.stops = [l \in Loads |-> Merge(db.stops, mine[p].stops)[l]]
        /\ db'.parties = [c \in Parties |-> Merge(db.parties, mine[p].parties)[c]]
    BY <1>1, <1>3 DEF Merge
  <2>2. /\ \A s \in Snapshots : db'.versions[s] \in VersionRow \cup {None}
        /\ \A l \in Loads : db'.loads[l] \in LoadRow \cup {None}
        /\ \A l \in Loads : db'.stops[l] \in StopRow \cup {None}
        /\ \A c \in Parties : db'.parties[c] \in Nat \cup {None}
    BY <1>4, <1>5, TableTypes
  <2>3. /\ db'.versions \in [Snapshots -> VersionRow \cup {None}]
        /\ db'.loads \in [Loads -> LoadRow \cup {None}]
        /\ db'.stops \in [Loads -> StopRow \cup {None}]
        /\ db'.parties \in [Parties -> Nat \cup {None}]
    BY <2>1, <2>2
  <2>4. db' = [files |-> files, versions |-> db'.versions, loads |-> db'.loads,
               stops |-> db'.stops, parties |-> db'.parties]
    BY <1>1 DEF Published
  <2>. QED BY <2>3, <2>4 DEF Database
<1>. QED BY <1>1, <1>4, <1>5, <1>6

\* The call returns with its file completed.
LEMMA CommitKeeps ==
  ASSUME RowsInv, NEW p \in Sessions, Commit(p), rebuild' = RebuildAfter(p)
  PROVE  RowsInv'
<1>1. /\ call[p].pc = "parties" /\ Blockers(p) = {} /\ Ingests(p) /\ ~Rebuilds(p)
      /\ call' = [call EXCEPT ![p] = Idle] /\ Forget(p)
  BY DEF Commit, Runs, Ingests, Rebuilds, Writing, Rebuilding
<1>2. FileOf(p) \in Files /\ db.files[FileOf(p)] = "ABSENT" /\ WrittenFacts(p) /\ WrittenLoads(p)
  BY <1>1 DEF RowsInv, Stands
<1>3. PICK files : files = [db.files EXCEPT ![FileOf(p)] = "COMPLETED"]
  OBVIOUS
<1>4. /\ files \in [Files -> Verdicts] /\ files[FileOf(p)] = "COMPLETED"
      /\ \A f \in Files : f # FileOf(p) => files[f] = db.files[f]
      /\ db' = Published(p, files)
  BY <1>2, <1>3 DEF RowsInv, Typed, Database, Verdicts, Commit
<1>5. /\ db' \in Database /\ db'.files = files
      /\ \A s \in Snapshots : db'.versions[s] = Row(p, s)
      /\ \A l \in Loads : db'.loads[l] = Load(p, l)
      /\ \A c \in Parties : db'.parties[c] = Visible(p, "parties", c)
  BY <1>4, PublishedRows DEF RowsInv
<1>6. /\ OthersSame(p) /\ call' \in [Sessions -> Calls] /\ call'[p] = Idle
      /\ mine'[p] = NoRows /\ known'[p] = NothingKnown
      /\ known' \in [Sessions -> Knowledge] /\ mine' \in [Sessions -> SessionRows]
  <2>1. NoRows \in SessionRows /\ NothingKnown \in Knowledge
    BY DEF NoRows, NothingKnown, SessionRows, Knowledge
  <2>. QED BY <1>1, <2>1, IdleRow DEF OthersSame, Others, RowsInv, Typed, Forget
<1>7. \A l \in Loads : ~Fresh(p, l)
  BY <1>1 DEF Fresh
<1>8. Grows(p)
  <2>1. \A q \in Others(p) : Ingests(q) => FileOf(q) # FileOf(p)
    BY <1>1 DEF RowsInv, Alone, Others
  <2>2. \A q \in Others(p) : Ingests(q) => FileOf(q) \in Files /\ db.files[FileOf(q)] = "ABSENT"
    BY DEF RowsInv, Stands, Others
  <2>3. \A s \in Snapshots : mine[p].versions[s] # None => db.versions[s] = None
    BY <1>2 DEF WrittenFacts
  <2>. QED BY <1>2, <1>4, <1>5, <2>1, <2>2, <2>3 DEF Grows, Row, Load, Visible
<1>9. Committed'
  <2>1. ASSUME NEW s \in Snapshots, db'.versions[s] # None
        PROVE  /\ db'.files[db'.versions[s].file] = "COMPLETED"
               /\ Carries(db'.versions[s].file, s) /\ db'.loads[LoadOf[s]] # None
    <3>1. LoadOf[s] \in Loads
      BY ConcurrentAssumption
    <3>2. CASE mine[p].versions[s] # None
      <4>1. db'.versions[s] = mine[p].versions[s]
        BY <1>5, <3>2 DEF Row, Visible
      <4>. QED BY <1>2, <1>4, <1>5, <1>7, <3>1, <3>2, <4>1 DEF WrittenFacts, WrittenLoads
    <3>3. CASE mine[p].versions[s] = None
      <4>1. db'.versions[s] = db.versions[s] /\ s \in Stored(db)
        BY <1>5, <2>1, <3>3 DEF Row, Visible, Stored
      <4>2. db.versions[s].file \in Files
        BY <2>1, <4>1, TableTypes DEF RowsInv, VersionRow
      <4>. QED BY <1>2, <1>4, <1>5, <3>1, <4>1, <4>2 DEF RowsInv, Committed, Load, Visible
    <3>. QED BY <3>2, <3>3
  <2>2. ASSUME NEW l \in Loads, db'.loads[l] # None PROVE db'.loads[l].current \in VersionsOf(l)'
    <3>1. /\ db'.loads[l].current \in Snapshots /\ LoadOf[db'.loads[l].current] = l
          /\ Row(p, db'.loads[l].current) # None
      <4>1. CASE mine[p].loads[l] # None
        BY <1>2, <1>5, <1>7, <4>1 DEF WrittenLoads, Load, Visible
      <4>2. CASE mine[p].loads[l] = None
        <5>1. db'.loads[l] = db.loads[l]
          BY <1>5, <4>2 DEF Load, Visible
        <5>. QED BY <2>2, <5>1 DEF RowsInv, Committed, VersionsOf, Stored, Row, Visible
      <4>. QED BY <4>1, <4>2
    <3>. QED BY <1>5, <3>1 DEF VersionsOf, Stored
  <2>3. ASSUME NEW c \in Parties, NEW t, t = db'.parties[c], t # None PROVE Observed(c, t)'
    <3>1. Observed(c, t) => Observed(c, t)'
      BY <1>8 DEF Grows, Observed, Writers
    <3>2. CASE mine[p].parties[c] # None
      <4>1. t = mine[p].parties[c]
        BY <1>5, <2>3, <3>2 DEF Visible
      <4>2. t = SyncAt[FileOf(p)] /\ FileOf(p) \in Writers(c)
        BY <1>2, <3>2, <4>1 DEF WrittenFacts
      <4>. QED BY <1>2, <1>4, <1>5, <4>2 DEF Observed, Writers
    <3>3. CASE mine[p].parties[c] = None
      BY <1>5, <2>3, <3>1, <3>3 DEF RowsInv, Committed, Visible
    <3>. QED BY <3>2, <3>3
  <2>. QED BY <2>1, <2>2, <2>3 DEF Committed, Stored, Observed
<1>10. ~Ingests(p)' /\ ~Rebuilds(p)' /\ Stands(p)' /\ LocksAgree(p)
  <2>1. ~Ingests(p)' /\ ~Rebuilds(p)'
    BY <1>6, IdleRow DEF Ingests, Rebuilds, Writing, Rebuilding
  <2>. QED BY <1>6, <2>1, IdleRow DEF Stands, LoadWork, LocksAgree, NoRows
<1>11. Typed' /\ \A q \in Sessions : Rebuilds(q)' => rebuild' # "none"
  BY <1>5, <1>6, <1>10, MarkStands DEF Typed
<1>. QED BY <1>6, <1>8, <1>9, <1>10, <1>11, StepKeeps

\* A failure is recorded unless the file has a row.
LEMMA RecordFailureKeeps ==
  ASSUME RowsInv, NEW p \in Sessions, RecordFailure(p), rebuild' = RebuildAfter(p)
  PROVE  RowsInv'
<1>1. /\ call[p].pc = "failing" /\ Blockers(p) = {} /\ ~Ingests(p) /\ ~Rebuilds(p)
      /\ call' = [call EXCEPT ![p] = Idle] /\ UNCHANGED <<known, mine>>
  BY DEF RecordFailure, Runs, Ingests, Rebuilds, Writing, Rebuilding
<1>2. FileOf(p) \in Files /\ mine[p] = NoRows /\ known[p] = NothingKnown
  BY <1>1 DEF RowsInv, Stands
<1>3. /\ db' \in Database /\ db'.versions = db.versions /\ db'.loads = db.loads
      /\ db'.parties = db.parties
      /\ \A f \in Files : db'.files[f] = db.files[f] \/ (f = FileOf(p) /\ db.files[f] = "ABSENT")
  BY <1>2 DEF RecordFailure, RowsInv, Typed, Database, Verdicts
<1>4. OthersSame(p) /\ call' \in [Sessions -> Calls] /\ call'[p] = Idle
  BY <1>1, IdleRow DEF OthersSame, Others, RowsInv, Typed
<1>5. Grows(p)
  <2>1. \A q \in Others(p) : Ingests(q) => FileOf(q) # FileOf(p)
    BY <1>1 DEF Blockers, Ingests
  <2>2. \A q \in Others(p) : Ingests(q) => FileOf(q) \in Files /\ db.files[FileOf(q)] = "ABSENT"
    BY DEF RowsInv, Stands, Others
  <2>. QED BY <1>3, <2>1, <2>2 DEF Grows
<1>6. Committed'
  <2>1. \A f \in Files : db.files[f] = "COMPLETED" => db'.files[f] = "COMPLETED"
    BY <1>3
  <2>2. \A s \in Stored(db) : db.versions[s].file \in Files
    BY TableTypes DEF RowsInv, Stored, VersionRow
  <2>. QED BY <1>3, <2>1, <2>2 DEF RowsInv, Committed, Stored, VersionsOf, Observed, Writers
<1>7. ~Ingests(p)' /\ ~Rebuilds(p)' /\ Stands(p)' /\ LocksAgree(p)
  <2>1. ~Ingests(p)' /\ ~Rebuilds(p)'
    BY <1>4, IdleRow DEF Ingests, Rebuilds, Writing, Rebuilding
  <2>. QED BY <1>1, <1>2, <1>4, <2>1, IdleRow DEF Stands, LoadWork, LocksAgree, NoRows
<1>8. Typed' /\ \A q \in Sessions : Rebuilds(q)' => rebuild' # "none"
  BY <1>1, <1>3, <1>4, <1>7, MarkStands DEF Typed, RowsInv
<1>. QED BY <1>4, <1>5, <1>6, <1>7, <1>8, StepKeeps

-----------------------------------------------------------------------------
(* The statements of a rebuild. *)

\* When a party that some stored version names was last observed: among the
\* finitely many files there is a latest one.
LEMMA LastObservedFacts ==
  ASSUME RowsInv, NEW c \in Parties, Mentions(c) # {}
  PROVE  LastObserved(c) \in Nat /\ Observed(c, LastObserved(c))
<1> DEFINE Times == {SyncAt[db.versions[s].file] : s \in Mentions(c)}
<1>1. ASSUME NEW s \in Mentions(c)
      PROVE  /\ db.versions[s].file \in Files /\ SyncAt[db.versions[s].file] \in Nat
             /\ Observed(c, SyncAt[db.versions[s].file])
  <2>1. s \in Stored(db) /\ s \in Snapshots /\ c \in ToSet(PartiesOf[s])
    BY DEF Mentions, Stored
  <2>2. db.versions[s].file \in Files
    BY <2>1, TableTypes DEF RowsInv, Stored, VersionRow, Typed, Database
  <2>. QED BY <2>1, <2>2, ConcurrentAssumption
           DEF RowsInv, Committed, Observed, Writers, Carries
<1>2. IsFiniteSet(Times)
  <2> DEFINE All == {SyncAt[f] : f \in Files}
             at == [f \in Files |-> SyncAt[f]]
  <2>1. at \in Surjection(Files, All)
    BY DEF Surjection
  <2>2. IsFiniteSet(All)
    BY <2>1, FiniteAssumption, FS_Surjection
  <2>3. Times \subseteq All
    BY <1>1
  <2>. QED BY <2>2, <2>3, FS_Subset
<1>3. Times \in SUBSET Nat /\ Times # {}
  BY <1>1
<1>4. \E t \in Times : \A s \in Mentions(c) : SyncAt[db.versions[s].file] <= t
  <2>1. PICK t \in Times : \A u \in Times : u <= t
    <3> HIDE DEF Times
    <3>. QED BY <1>2, <1>3, GreatestOf
  <2>. QED BY <2>1
<1>5. LastObserved(c) \in Times
  BY <1>4 DEF LastObserved
<1>. QED BY <1>1, <1>5

\* What a rebuild plans: of each load a version that is not outranked, of each
\* party when it was last observed.
LEMMA PlanFacts ==
  ASSUME RowsInv, NEW plan \in Plans
  PROVE  /\ plan \in Plan
         /\ \A l \in Loads : IF VersionsOf(l) = {} THEN plan.loads[l] = None
                             ELSE plan.loads[l] \in Unbeaten(l)
         /\ \A l \in Loads : plan.loads[l] # None => plan.loads[l] \in VersionsOf(l)
         /\ \A c \in Parties : plan.parties[c] # None => Observed(c, plan.parties[c])
<1>1. PICK w \in [Loads -> Stored(db) \cup {None}] :
        /\ \A l \in Loads : IF VersionsOf(l) = {} THEN w[l] = None ELSE w[l] \in Unbeaten(l)
        /\ plan = [loads |-> w,
                   parties |-> [c \in Parties |-> IF Mentions(c) = {} THEN None
                                                  ELSE LastObserved(c)]]
  BY DEF Plans
<1>2. plan.loads = w
  BY <1>1
<1>3. w \in [Loads -> Snapshots \cup {None}]
  BY DEF Stored
<1>4. \A c \in Parties :
        plan.parties[c] = IF Mentions(c) = {} THEN None ELSE LastObserved(c)
  BY <1>1
<1>5. \A c \in Parties : plan.parties[c] \in Nat \cup {None}
  BY <1>4, LastObservedFacts
<1>6. plan.parties \in [Parties -> Nat \cup {None}]
  BY <1>1, <1>5
<1>7. plan \in Plan
  BY <1>1, <1>3, <1>6 DEF Plan
<1>8. \A l \in Loads : plan.loads[l] # None => plan.loads[l] \in VersionsOf(l)
  BY <1>1, <1>2 DEF Unbeaten
<1>9. \A c \in Parties : plan.parties[c] # None => Observed(c, plan.parties[c])
  BY <1>4, LastObservedFacts
<1>. QED BY <1>1, <1>2, <1>7, <1>8, <1>9

\* A call is made.
LEMMA OpenFileKeeps ==
  ASSUME RowsInv, NEW p \in Sessions, NEW f \in Files, OpenFile(p, f)
  PROVE  RowsInv'
<1>1. call[p].pc = "idle" /\ ~Ingests(p) /\ ~Rebuilds(p) /\ UNCHANGED <<db, known, mine>>
  BY DEF OpenFile, Ingests, Rebuilds, Writing, Rebuilding
<1>2. mine[p] = NoRows /\ known[p] = NothingKnown
  BY <1>1 DEF RowsInv, Stands
<1>3. PICK row \in Calls :
        /\ call' = [call EXCEPT ![p] = row] /\ row.pc = "look_up" /\ row.file = f
        /\ row.line = 1 /\ row.party = 1 /\ row.todo = <<>>
  <2> DEFINE row == [Idle EXCEPT !.pc = "look_up", !.file = f]
  <2>1. row \in Calls /\ row.pc = "look_up" /\ row.file = f
        /\ row.line = 1 /\ row.party = 1 /\ row.todo = <<>>
    BY IdleRow DEF Idle, Calls, Statements
  <2>2. call' = [call EXCEPT ![p] = row]
    BY DEF OpenFile
  <2> HIDE DEF row
  <2>. QED BY <2>1, <2>2
<1>4. OthersSame(p) /\ call' \in [Sessions -> Calls] /\ call'[p] = row
  BY <1>1, <1>3 DEF OthersSame, Others, RowsInv, Typed
<1>5. Grows(p)
  BY <1>1 DEF Grows, RowsInv, Stands, Others
<1>6. \A q \in Others(p) : Rebuilds(q)' = Rebuilds(q)
  BY <1>4 DEF OthersSame, Rebuilds
<1>7. ~Ingests(p)' /\ ~Rebuilds(p)'
  BY <1>3, <1>4 DEF Ingests, Rebuilds, Writing, Rebuilding
<1>8. rebuild' \in Marks /\ \A q \in Sessions : Rebuilds(q)' => rebuild' # "none"
  BY <1>6, <1>7 DEF OpenFile, Marks, RowsInv, Typed, Rebuilds, Others
<1>9. Typed'
  BY <1>1, <1>4, <1>8 DEF Typed, RowsInv
<1>10. Committed'
  BY <1>1 DEF RowsInv, Committed, Stored, VersionsOf, Observed
<1>11. Stands(p)'
  BY <1>1, <1>2, <1>3, <1>4, <1>7 DEF Stands, FileOf, LoadWork
<1>12. LocksAgree(p)
  BY <1>1, <1>2 DEF LocksAgree, NoRows
<1>. QED BY <1>4, <1>5, <1>7, <1>8, <1>9, <1>10, <1>11, <1>12, StepKeeps

\* A rebuild reads all versions with their load rows.
LEMMA StartRebuildKeeps ==
  ASSUME RowsInv, NEW p \in Sessions, StartRebuild(p)
  PROVE  RowsInv'
<1>1. /\ call[p].pc = "idle" /\ ~Ingests(p) /\ ~Rebuilds(p) /\ UNCHANGED <<db, mine>>
      /\ rebuild = "none" /\ known' = [known EXCEPT ![p].loads = db.loads]
      /\ rebuild' \in {"alone", "overlapping"}
  BY DEF StartRebuild, Ingests, Rebuilds, Writing, Rebuilding
<1>2. mine[p] = NoRows /\ known[p] = NothingKnown
  BY <1>1 DEF RowsInv, Stands
<1>3. PICK plan \in Plans :
        call' = [call EXCEPT ![p] = [Idle EXCEPT !.pc = "find_stops", !.plan = plan]]
  BY DEF StartRebuild
<1>4. PICK row \in Calls :
        /\ call' = [call EXCEPT ![p] = row] /\ row.pc = "find_stops" /\ row.file = None
        /\ row.todo = <<>> /\ row.plan = plan
  <2> DEFINE row == [Idle EXCEPT !.pc = "find_stops", !.plan = plan]
  <2>1. plan \in Plan
    BY PlanFacts
  <2>2. row \in Calls /\ row.pc = "find_stops" /\ row.file = None /\ row.todo = <<>>
        /\ row.plan = plan
    BY <2>1, IdleRow DEF Idle, Calls, Statements, Rebuilding
  <2>3. call' = [call EXCEPT ![p] = row]
    BY <1>3
  <2> HIDE DEF row
  <2>. QED BY <2>2, <2>3
<1>5. /\ known' \in [Sessions -> Knowledge] /\ known'[p].loads = db.loads
      /\ db.loads \in [Loads -> LoadRow \cup {None}]
      /\ \A q \in Others(p) : known'[q] = known[q]
  <2>1. db.loads \in [Loads -> LoadRow \cup {None}]
    BY DEF RowsInv, Typed, Database
  <2>. QED BY <1>1, <2>1 DEF RowsInv, Typed, Knowledge, Others
<1>6. OthersSame(p) /\ call' \in [Sessions -> Calls] /\ call'[p] = row
  BY <1>1, <1>4, <1>5 DEF OthersSame, Others, RowsInv, Typed
<1>7. Grows(p)
  BY <1>1 DEF Grows, RowsInv, Stands, Others
<1>8. \A q \in Others(p) : ~Rebuilds(q)
  BY <1>1 DEF RowsInv, Alone, Others
<1>9. ~Ingests(p)' /\ Rebuilds(p)'
  BY <1>4, <1>6 DEF Ingests, Rebuilds, Writing, Rebuilding
<1>10. Typed'
  BY <1>1, <1>5, <1>6 DEF Typed, RowsInv, Marks
<1>11. Committed'
  BY <1>1 DEF RowsInv, Committed, Stored, VersionsOf, Observed
<1>12. Stands(p)'
  BY <1>4, <1>6, <1>9 DEF Stands, FileOf, LoadWork, Rebuilds, Rebuilding
<1>13. LocksAgree(p)
  BY <1>1, <1>2 DEF LocksAgree, NoRows
<1>14. Rebuilt(p)'
  <2>1. /\ \A l \in Loads : VersionsOf(l)' = VersionsOf(l)
        /\ \A c, t : Observed(c, t)' = Observed(c, t)
    BY <1>1 DEF VersionsOf, Stored, Observed
  <2>2. /\ \A l \in PlannedLoads(p)' : l \in Loads /\ plan.loads[l] \in VersionsOf(l)
        /\ \A c \in PlannedParties(p)' : Observed(c, plan.parties[c])
    BY <1>4, <1>6, PlanFacts DEF PlannedLoads, PlannedParties
  <2>3. ASSUME NEW l \in Loads, NEW s \in VersionsOf(l)
        PROVE  db.loads[l] # None /\ db.loads[l].current \in VersionsOf(l)
    BY DEF RowsInv, Committed, VersionsOf
  <2>4. mine'[p] = NoRows
    BY <1>1, <1>2
  <2>5. /\ mine'[p].versions = NoRows.versions
        /\ \A l \in Loads : mine'[p].loads[l] = None
        /\ \A c \in Parties : mine'[p].parties[c] = None
    BY <2>4 DEF NoRows
  <2>. QED BY <1>4, <1>5, <1>6, <2>1, <2>2, <2>3, <2>5 DEF Rebuilt, NoRows
<1>. QED BY <1>1, <1>6, <1>7, <1>8, <1>9, <1>10, <1>11, <1>12, <1>13, <1>14, StepKeeps

\* A statement of a rebuild that goes on.
LEMMA RebuildGoesOn ==
  ASSUME RowsInv, NEW p \in Sessions, Rebuilds(p), UNCHANGED db, rebuild' = RebuildAfter(p),
         NEW row \in Calls, call' = [call EXCEPT ![p] = row],
         row.pc \in Rebuilding, row.file = call[p].file, row.plan = call[p].plan,
         known' \in [Sessions -> Knowledge], mine' \in [Sessions -> SessionRows],
         \A q \in Others(p) : known'[q] = known[q] /\ mine'[q] = mine[q],
         LocksAgree(p),
         known'[p].loads = known[p].loads, mine'[p].versions = mine[p].versions,
         \A l \in Loads : \/ mine'[p].loads[l] = mine[p].loads[l]
                          \/ mine'[p].loads[l].current \in VersionsOf(l),
         \A c \in Parties : \/ mine'[p].parties[c] = mine[p].parties[c]
                            \/ Observed(c, mine'[p].parties[c]),
         row.pc # "find_stops",
         row.pc = "delete_stops" => row.todo \in Seq(Loads),
         row.pc = "put_parties" => row.todo \in Seq(PlannedParties(p)),
         row.pc \in {"put_loads", "put_stops"} => row.todo \in Seq(PlannedLoads(p))
  PROVE  RowsInv'
<1>1. OthersSame(p) /\ call' \in [Sessions -> Calls] /\ call'[p] = row
  BY DEF OthersSame, Others, RowsInv, Typed
<1>2. ~Ingests(p)' /\ Rebuilds(p)'
  BY <1>1 DEF Ingests, Rebuilds, Writing, Rebuilding
<1>3. Stands(p)'
  <2>1. FileOf(p) = None
    BY DEF RowsInv, Stands
  <2>2. row.pc \notin {"look_up", "insert_file", "failing", "write_party"} \cup LoadWork
    BY DEF Rebuilding, LoadWork
  <2>. QED BY <1>1, <1>2, <2>1, <2>2 DEF Stands, FileOf
<1>4. Rebuilt(p)'
  <2>1. /\ \A l \in Loads : VersionsOf(l)' = VersionsOf(l)
        /\ \A c, t : Observed(c, t)' = Observed(c, t)
    BY DEF VersionsOf, Stored, Observed
  <2>2. PlannedLoads(p)' = PlannedLoads(p) /\ PlannedParties(p)' = PlannedParties(p)
    BY <1>1 DEF PlannedLoads, PlannedParties
  <2>3. Rebuilt(p)
    BY DEF RowsInv
  <2>4. NoRows' = NoRows
    BY DEF NoRows
  <2>5. \A l \in Loads : mine'[p].loads[l] # None => mine'[p].loads[l].current \in VersionsOf(l)
    BY <2>3 DEF Rebuilt
  <2>6. \A c \in Parties : mine'[p].parties[c] # None => Observed(c, mine'[p].parties[c])
    BY <2>3 DEF Rebuilt
  <2>7. \A l \in PlannedLoads(p) :
          /\ call'[p].plan.loads[l] \in VersionsOf(l)
          /\ known'[p].loads[l] # None /\ known'[p].loads[l].current \in VersionsOf(l)
    BY <1>1, <2>3 DEF Rebuilt
  <2>8. \A l \in PlannedLoads(p) : l \in Loads
    BY DEF PlannedLoads
  <2>. QED BY <1>1, <2>1, <2>2, <2>3, <2>4, <2>5, <2>6, <2>7, <2>8 DEF Rebuilt
<1>. QED BY <1>1, <1>2, <1>3, <1>4, QuietKeeps

\* A session takes rows up, in some order.
LEMMA TakeUpRow ==
  ASSUME Typed, NEW p \in Sessions, NEW pc \in Statements,
         NEW S \in SUBSET (Loads \cup Parties), IsFiniteSet(S), TakeUp(p, pc, S)
  PROVE  \E row \in Calls :
           /\ call' = [call EXCEPT ![p] = row] /\ call'[p] = row /\ row.pc = pc
           /\ row.file = call[p].file /\ row.plan = call[p].plan
           /\ row.todo \in Seq(S) /\ ToSet(row.todo) = S
<1>1. PICK order \in SetToSeqs(S) : call' = [call EXCEPT ![p].pc = pc, ![p].todo = order]
  BY DEF TakeUp
<1>2. order \in Seq(S) /\ ToSet(order) = S
  BY OrderFacts
<1>3. order \in Seq(Loads \cup Parties)
  BY <1>2, SeqDef
<1> DEFINE row == [call[p] EXCEPT !.pc = pc, !.todo = order]
<1>4. row \in Calls /\ row.pc = pc /\ row.file = call[p].file /\ row.plan = call[p].plan
      /\ row.todo = order
  BY <1>3 DEF Calls, Typed
<1>5. call' = [call EXCEPT ![p] = row] /\ call'[p] = row
  BY <1>1 DEF Typed
<1>. QED BY <1>2, <1>4, <1>5

\* A session is done with a row.
LEMMA NextSubjectRow ==
  ASSUME Typed, NEW p \in Sessions, NEW S, call[p].todo \in Seq(S), call[p].todo # <<>>,
         NextSubject(p)
  PROVE  \E row \in Calls :
           /\ call' = [call EXCEPT ![p] = row] /\ call'[p] = row /\ row.pc = call[p].pc
           /\ row.file = call[p].file /\ row.plan = call[p].plan
           /\ row.todo = Tail(call[p].todo) /\ row.todo \in Seq(S)
           /\ Subject(p) \in S /\ Subject(p) \in ToSet(call[p].todo)
           /\ \A x \in ToSet(call[p].todo) : x = Subject(p) \/ x \in ToSet(row.todo)
           /\ ToSet(row.todo) \subseteq ToSet(call[p].todo)
<1>1. PICK todo \in Seq(Loads \cup Parties) : todo = call[p].todo
  BY DEF Typed, Calls
<1>2. Tail(todo) \in Seq(Loads \cup Parties)
  BY <1>1, TailFacts
<1> DEFINE row == [call[p] EXCEPT !.todo = Tail(todo)]
<1>3. row \in Calls /\ row.pc = call[p].pc /\ row.file = call[p].file /\ row.plan = call[p].plan
      /\ row.todo = Tail(call[p].todo)
  BY <1>1, <1>2 DEF Calls, Typed
<1>4. call' = [call EXCEPT ![p] = row] /\ call'[p] = row
  BY <1>1 DEF NextSubject, Typed
<1>5. /\ Head(todo) \in S /\ Head(todo) \in ToSet(todo) /\ Tail(todo) \in Seq(S)
      /\ \A x \in ToSet(todo) : x = Head(todo) \/ x \in ToSet(Tail(todo))
      /\ ToSet(Tail(todo)) \subseteq ToSet(todo)
  BY <1>1, TailFacts
<1> HIDE DEF row
<1>. QED BY <1>1, <1>3, <1>4, <1>5 DEF Subject

\* The DELETE of all stops begins.
LEMMA FindStopsKeeps ==
  ASSUME RowsInv, NEW p \in Sessions, FindStops(p), rebuild' = RebuildAfter(p)
  PROVE  RowsInv'
<1>1. /\ call[p].pc = "find_stops" /\ Rebuilds(p) /\ UNCHANGED <<db, mine>>
      /\ known' = [known EXCEPT ![p].stops = db.stops] /\ TakeUp(p, "delete_stops", Loads)
  BY DEF FindStops, Runs, Rebuilds, Rebuilding
<1>2. PICK row \in Calls :
        /\ call' = [call EXCEPT ![p] = row] /\ row.pc = "delete_stops"
        /\ row.file = call[p].file /\ row.plan = call[p].plan /\ row.todo \in Seq(Loads)
  <2>1. "delete_stops" \in Statements /\ Loads \in SUBSET (Loads \cup Parties)
    BY DEF Statements, Rebuilding
  <2>. QED BY <1>1, <2>1, TakeUpRow, FiniteAssumption DEF RowsInv
<1>3. /\ known' \in [Sessions -> Knowledge] /\ known'[p].loads = known[p].loads
      /\ \A q \in Others(p) : known'[q] = known[q]
  <2>1. db.stops \in [Loads -> StopRow \cup {None}]
    BY DEF RowsInv, Typed, Database
  <2>. QED BY <1>1, <2>1 DEF RowsInv, Typed, Knowledge, Others
<1>4. LocksAgree(p)
  BY <1>1 DEF LocksAgree, Others, RowsInv, Locked
<1>5. row.pc \in Rebuilding
  BY <1>2 DEF Rebuilding
<1>. QED BY <1>1, <1>2, <1>3, <1>4, <1>5, RebuildGoesOn DEF RowsInv, Typed

\* Stops that are still there are deleted.
LEMMA DeleteStopsKeeps ==
  ASSUME RowsInv, NEW p \in Sessions, DeleteStops(p), rebuild' = RebuildAfter(p)
  PROVE  RowsInv'
<1>1. /\ call[p].pc = "delete_stops" /\ Rebuilds(p) /\ UNCHANGED <<db, known>>
      /\ call[p].todo # <<>> /\ call[p].todo \in Seq(Loads) /\ NextSubject(p)
  BY DEF DeleteStops, Handles, Runs, Rebuilds, Rebuilding, RowsInv, Rebuilt
<1>2. PICK row \in Calls :
        /\ call' = [call EXCEPT ![p] = row] /\ row.pc = "delete_stops"
        /\ row.file = call[p].file /\ row.plan = call[p].plan /\ row.todo \in Seq(Loads)
        /\ Subject(p) \in Loads
  BY <1>1, NextSubjectRow DEF RowsInv
<1>3. PICK l \in Loads : l = Subject(p)
  BY <1>2
<1>4. mine' = [mine EXCEPT ![p].stops[l] = IF StillThere(p, l) THEN Deleted ELSE @]
  BY <1>3 DEF DeleteStops
<1>5. /\ mine' \in [Sessions -> SessionRows]
      /\ mine'[p].loads = mine[p].loads /\ mine'[p].versions = mine[p].versions
      /\ mine'[p].parties = mine[p].parties
      /\ \A q \in Others(p) : mine'[q] = mine[q]
  BY <1>4 DEF RowsInv, Typed, SessionRows, Others
<1>6. LocksAgree(p)
  BY <1>5 DEF LocksAgree, Others, RowsInv, Locked
<1>7. row.pc \in Rebuilding
  BY <1>2 DEF Rebuilding
<1>. QED BY <1>1, <1>2, <1>5, <1>6, <1>7, RebuildGoesOn DEF RowsInv, Typed

\* A party row is put back to when it was last observed.
LEMMA PutPartyKeeps ==
  ASSUME RowsInv, NEW p \in Sessions, PutParty(p), rebuild' = RebuildAfter(p)
  PROVE  RowsInv'
<1>1. /\ call[p].pc = "put_parties" /\ Rebuilds(p) /\ UNCHANGED <<db, known>>
      /\ call[p].todo # <<>> /\ call[p].todo \in Seq(PlannedParties(p)) /\ NextSubject(p)
      /\ Blockers(p) = {} /\ Rebuilt(p)
  BY DEF PutParty, Handles, Runs, Rebuilds, Rebuilding, RowsInv, Rebuilt
<1>2. PICK row \in Calls :
        /\ call' = [call EXCEPT ![p] = row] /\ row.pc = "put_parties"
        /\ row.file = call[p].file /\ row.plan = call[p].plan
        /\ row.todo \in Seq(PlannedParties(p)) /\ Subject(p) \in PlannedParties(p)
  BY <1>1, NextSubjectRow DEF RowsInv
<1>3. PICK c \in PlannedParties(p) : c = Subject(p)
  BY <1>2
<1>4. PICK at \in Nat : at = call[p].plan.parties[c] /\ Observed(c, at)
  <2>1. call[p].plan \in Plan /\ c \in Parties /\ call[p].plan.parties[c] # None
    BY <1>3 DEF RowsInv, Typed, Calls, PlannedParties
  <2>. QED BY <1>1, <2>1 DEF Rebuilt, Plan
<1>5. mine' = [mine EXCEPT ![p].parties[c] = IF MovesParty(p) THEN at ELSE @]
  BY <1>3, <1>4 DEF PutParty
<1>6. c \in Parties
  BY DEF PlannedParties
<1>7. /\ mine' \in [Sessions -> SessionRows]
      /\ mine'[p].loads = mine[p].loads /\ mine'[p].versions = mine[p].versions
      /\ mine'[p].parties[c] = IF MovesParty(p) THEN at ELSE mine[p].parties[c]
      /\ \A d \in Parties : d # c => mine'[p].parties[d] = mine[p].parties[d]
      /\ \A q \in Others(p) : mine'[q] = mine[q]
  BY <1>5, <1>6 DEF RowsInv, Typed, SessionRows, Others
<1>8. LocksAgree(p)
  <2>1. MovesParty(p) => \A q \in Others(p) : mine[q].parties[c] = None
    BY <1>1, <1>3 DEF Blockers, HoldsUpRebuild
  <2>. QED BY <1>7, <2>1 DEF LocksAgree, Others, RowsInv, Locked
<1>9. row.pc \in Rebuilding
  BY <1>2 DEF Rebuilding
<1>. QED BY <1>1, <1>2, <1>4, <1>7, <1>8, <1>9, RebuildGoesOn DEF RowsInv, Typed

\* A load row is put back to the version that was planned.
LEMMA PutLoadKeeps ==
  ASSUME RowsInv, NEW p \in Sessions, PutLoad(p), rebuild' = RebuildAfter(p)
  PROVE  RowsInv'
<1>1. /\ call[p].pc = "put_loads" /\ Rebuilds(p) /\ UNCHANGED <<db, known>>
      /\ call[p].todo # <<>> /\ call[p].todo \in Seq(PlannedLoads(p)) /\ NextSubject(p)
      /\ Blockers(p) = {} /\ Rebuilt(p)
  BY DEF PutLoad, Handles, Runs, Rebuilds, Rebuilding, RowsInv, Rebuilt
<1>2. PICK row \in Calls :
        /\ call' = [call EXCEPT ![p] = row] /\ row.pc = "put_loads"
        /\ row.file = call[p].file /\ row.plan = call[p].plan
        /\ row.todo \in Seq(PlannedLoads(p)) /\ Subject(p) \in PlannedLoads(p)
  BY <1>1, NextSubjectRow DEF RowsInv
<1>3. PICK l \in PlannedLoads(p) : l = Subject(p)
  BY <1>2
<1>4. l \in Loads
  BY DEF PlannedLoads
<1>5. PICK s \in VersionsOf(l) : s = call[p].plan.loads[l]
  BY <1>1 DEF Rebuilt
<1>6. known[p].loads[l] \in LoadRow
  BY <1>1, <1>4 DEF Rebuilt
<1>7. PICK new \in LoadRow : new = ProjectionOf(s) /\ new.current = s
  <2>1. s \in Snapshots /\ db.versions[s] # None
    BY DEF VersionsOf, Stored
  <2>2. SyncAt[db.versions[s].file] \in Nat /\ StatusOf[s] \in Statuses
    BY <2>1, TableTypes, ConcurrentAssumption DEF RowsInv, VersionRow
  <2>3. ProjectionOf(s) \in LoadRow /\ ProjectionOf(s).current = s
    BY <2>1, <2>2 DEF ProjectionOf, Projection, LoadRow
  <2>. QED BY <2>3
<1>8. db.loads[l] \in LoadRow /\ db.loads[l].current \in VersionsOf(l)
  BY <1>4, <1>5, TableTypes DEF RowsInv, Committed, VersionsOf
<1>9. PICK put \in LoadRow : put = Updated(db.loads[l], known[p].loads[l], new)
                             /\ put.current \in VersionsOf(l)
  BY <1>5, <1>6, <1>7, <1>8, UpdatedFacts
<1>10. mine' = [mine EXCEPT ![p].loads[l] = IF MovesLoad(p) THEN put ELSE @]
  BY <1>3, <1>5, <1>7, <1>9 DEF PutLoad, PlannedLoad
<1>11. /\ mine' \in [Sessions -> SessionRows]
       /\ mine'[p].parties = mine[p].parties /\ mine'[p].versions = mine[p].versions
       /\ mine'[p].loads[l] = IF MovesLoad(p) THEN put ELSE mine[p].loads[l]
       /\ \A k \in Loads : k # l => mine'[p].loads[k] = mine[p].loads[k]
       /\ \A q \in Others(p) : mine'[q] = mine[q]
  BY <1>4, <1>10 DEF RowsInv, Typed, SessionRows, Others
<1>12. LocksAgree(p)
  <2>1. MovesLoad(p) => \A q \in Others(p) : mine[q].loads[l] = None
    BY <1>1, <1>3 DEF Blockers, HoldsUpRebuild
  <2>. QED BY <1>11, <2>1 DEF LocksAgree, Others, RowsInv, Locked
<1>13. row.pc \in Rebuilding
  BY <1>2 DEF Rebuilding
<1>. QED BY <1>1, <1>2, <1>9, <1>11, <1>12, <1>13, RebuildGoesOn DEF RowsInv, Typed

\* The stops of a load are put back, unless somebody else's are there.
LEMMA PutStopsKeeps ==
  ASSUME RowsInv, NEW p \in Sessions, PutStops(p), rebuild' = RebuildAfter(p)
  PROVE  RowsInv'
<1>1. /\ call[p].pc = "put_stops" /\ Rebuilds(p)
      /\ call[p].todo # <<>> /\ call[p].todo \in Seq(PlannedLoads(p)) /\ Rebuilt(p)
  BY DEF PutStops, Handles, Runs, Rebuilds, Rebuilding, RowsInv, Rebuilt
<1>2. CASE Abort(p)
  BY <1>1, <1>2, AbortKeeps
<1>3. CASE ~Abort(p)
  <2>1. NextSubject(p) /\ UNCHANGED <<db, known>>
    BY <1>3 DEF PutStops
  <2>2. PICK row \in Calls :
          /\ call' = [call EXCEPT ![p] = row] /\ row.pc = "put_stops"
          /\ row.file = call[p].file /\ row.plan = call[p].plan
          /\ row.todo \in Seq(PlannedLoads(p)) /\ Subject(p) \in PlannedLoads(p)
    BY <1>1, <2>1, NextSubjectRow DEF RowsInv
  <2>3. PICK l \in PlannedLoads(p) : l = Subject(p)
    BY <2>2
  <2>4. l \in Loads
    BY DEF PlannedLoads
  <2>5. PICK put \in StopRow : put = [of |-> PlannedLoad(p), by |-> "rebuild"]
    <3>1. PlannedLoad(p) \in Snapshots
      BY <1>1, <2>3 DEF PlannedLoad, Rebuilt, VersionsOf, Stored
    <3>. QED BY <3>1 DEF StopRow
  <2>6. mine' = [mine EXCEPT ![p].stops[l] = put]
    BY <1>3, <2>3, <2>5 DEF PutStops
  <2>7. /\ mine' \in [Sessions -> SessionRows]
        /\ mine'[p].parties = mine[p].parties /\ mine'[p].versions = mine[p].versions
        /\ mine'[p].loads = mine[p].loads
        /\ \A q \in Others(p) : mine'[q] = mine[q]
    BY <2>6 DEF RowsInv, Typed, SessionRows, Others
  <2>8. LocksAgree(p)
    BY <2>7 DEF LocksAgree, Others, RowsInv, Locked
  <2>9. row.pc \in Rebuilding
    BY <2>2 DEF Rebuilding
  <2>. QED BY <1>1, <2>1, <2>2, <2>7, <2>8, <2>9, RebuildGoesOn DEF RowsInv, Typed
<1>. QED BY <1>2, <1>3

\* A rebuild goes on with the next table.
LEMMA NextPhaseKeeps ==
  ASSUME RowsInv, NEW p \in Sessions, NextPhase(p), rebuild' = RebuildAfter(p)
  PROVE  RowsInv'
<1>1. Rebuilds(p) /\ UNCHANGED <<db, known, mine>>
  BY DEF NextPhase, Rebuilds, Rebuilding
<1>2. /\ PlannedParties(p) \in SUBSET Parties /\ IsFiniteSet(PlannedParties(p))
      /\ PlannedLoads(p) \in SUBSET Loads /\ IsFiniteSet(PlannedLoads(p))
  BY FiniteAssumption, FS_Subset DEF PlannedParties, PlannedLoads
<1>3. {"put_parties", "put_loads", "put_stops"} \subseteq Statements \cap Rebuilding
  BY DEF Statements, Rebuilding
<1>4. PICK row \in Calls :
        /\ call' = [call EXCEPT ![p] = row] /\ row.file = call[p].file /\ row.plan = call[p].plan
        /\ \/ row.pc = "put_parties" /\ row.todo \in Seq(PlannedParties(p))
           \/ row.pc = "put_loads" /\ row.todo \in Seq(PlannedLoads(p))
           \/ row.pc = "put_stops" /\ row.todo \in Seq(PlannedLoads(p))
  <2>1. CASE TakeUp(p, "put_parties", PlannedParties(p))
    BY <1>2, <1>3, <2>1, TakeUpRow DEF RowsInv
  <2>2. CASE TakeUp(p, "put_loads", PlannedLoads(p))
    BY <1>2, <1>3, <2>2, TakeUpRow DEF RowsInv
  <2>3. CASE TakeUp(p, "put_stops", PlannedLoads(p))
    BY <1>2, <1>3, <2>3, TakeUpRow DEF RowsInv
  <2>. QED BY <2>1, <2>2, <2>3 DEF NextPhase
<1>5. LocksAgree(p)
  BY <1>1 DEF LocksAgree, Others, RowsInv, Locked
<1>. QED BY <1>1, <1>3, <1>4, <1>5, RebuildGoesOn DEF RowsInv, Typed

\* The rebuild commits.
LEMMA CommitRebuildKeeps ==
  ASSUME RowsInv, NEW p \in Sessions, CommitRebuild(p), rebuild' = RebuildAfter(p)
  PROVE  RowsInv'
<1>1. /\ call[p].pc = "put_stops" /\ ~Ingests(p) /\ Rebuilds(p) /\ Rebuilt(p)
      /\ call' = [call EXCEPT ![p] = Idle] /\ Forget(p) /\ db' = Published(p, db.files)
  BY DEF CommitRebuild, Ingests, Rebuilds, Writing, Rebuilding, RowsInv
<1>2. PICK files \in [Files -> Verdicts] : files = db.files
  BY DEF RowsInv, Typed, Database
<1>3. /\ db' \in Database /\ db'.files = db.files
      /\ \A s \in Snapshots : db'.versions[s] = Row(p, s)
      /\ \A l \in Loads : db'.loads[l] = Load(p, l)
      /\ \A c \in Parties : db'.parties[c] = Visible(p, "parties", c)
  BY <1>1, <1>2, PublishedRows DEF RowsInv
<1>4. \A s \in Snapshots : db'.versions[s] = db.versions[s]
  BY <1>1, <1>3 DEF Rebuilt, NoRows, Row, Visible
<1>5. /\ OthersSame(p) /\ call' \in [Sessions -> Calls] /\ call'[p] = Idle
      /\ mine'[p] = NoRows /\ known'[p] = NothingKnown
      /\ known' \in [Sessions -> Knowledge] /\ mine' \in [Sessions -> SessionRows]
  <2>1. NoRows \in SessionRows /\ NothingKnown \in Knowledge
    BY DEF NoRows, NothingKnown, SessionRows, Knowledge
  <2>. QED BY <1>1, <2>1, IdleRow DEF OthersSame, Others, RowsInv, Typed, Forget
<1>6. Grows(p)
  <2>1. \A q \in Others(p) : Ingests(q) => FileOf(q) \in Files /\ db.files[FileOf(q)] = "ABSENT"
    BY DEF RowsInv, Stands, Others
  <2>. QED BY <1>3, <1>4, <2>1 DEF Grows, Load, Visible
<1>7. \A l \in Loads : VersionsOf(l)' = VersionsOf(l)
  BY <1>4 DEF VersionsOf, Stored
<1>8. \A c, t : Observed(c, t)' = Observed(c, t)
  BY <1>3 DEF Observed
<1>9. Committed'
  <2>1. \A s \in Stored(db) : LoadOf[s] \in Loads /\ s \in Snapshots
    BY ConcurrentAssumption DEF Stored
  <2>2. \A s \in Stored(db)' : /\ db'.files[db'.versions[s].file] = "COMPLETED"
                               /\ Carries(db'.versions[s].file, s)
                               /\ db'.loads[LoadOf[s]] # None
    BY <1>3, <1>4, <2>1 DEF RowsInv, Committed, Stored, Load, Visible
  <2>3. \A l \in Loads : db'.loads[l] # None => db'.loads[l].current \in VersionsOf(l)
    BY <1>1, <1>3 DEF RowsInv, Committed, Rebuilt, Load, Visible
  <2>4. \A c \in Parties : db'.parties[c] # None => Observed(c, db'.parties[c])
    BY <1>1, <1>3 DEF RowsInv, Committed, Rebuilt, Visible
  <2>. QED BY <1>7, <1>8, <2>2, <2>3, <2>4 DEF Committed
<1>10. ~Ingests(p)' /\ ~Rebuilds(p)' /\ Stands(p)' /\ LocksAgree(p)
  <2>1. ~Ingests(p)' /\ ~Rebuilds(p)'
    BY <1>5, IdleRow DEF Ingests, Rebuilds, Writing, Rebuilding
  <2>. QED BY <1>5, <2>1, IdleRow DEF Stands, LoadWork, LocksAgree, NoRows
<1>11. Typed' /\ \A q \in Sessions : Rebuilds(q)' => rebuild' # "none"
  BY <1>3, <1>5, <1>10, MarkStands DEF Typed
<1>. QED BY <1>5, <1>6, <1>9, <1>10, <1>11, StepKeeps

-----------------------------------------------------------------------------
(* Crashes and deadlocks. *)

\* A session with nothing to do waits for nobody.
LEMMA IdleWaitsForNobody ==
  ASSUME RowsInv, NEW p \in Sessions, call[p].pc = "idle"
  PROVE  Blockers(p) = {}
<1>1. call[p].todo = <<>>
  BY DEF RowsInv, Stands, Rebuilds, Rebuilding
<1>. QED BY <1>1 DEF Blockers

\* A process dies.
LEMMA DieKeeps ==
  ASSUME RowsInv, NEW p \in Sessions, Die(p)
  PROVE  RowsInv'
<1>1. PICK row \in Calls : row = Idle /\ row.pc = "idle" /\ row.todo = <<>>
  BY IdleRow
<1>. QED BY <1>1, ForgetKeeps DEF Die

\* The statement of a session in a circle fails.
LEMMA BreakDeadlockKeeps ==
  ASSUME RowsInv, NEW p \in Sessions, BreakDeadlock(p), rebuild' = RebuildAfter(p)
  PROVE  RowsInv'
<1>1. Blockers(p) # {}
  BY DEF BreakDeadlock, Circle
<1>2. call[p].pc # "idle"
  BY <1>1, IdleWaitsForNobody
<1>. QED BY <1>2, AbortKeeps DEF BreakDeadlock

-----------------------------------------------------------------------------
(* Every step. *)

\* A step by which nothing happens.
LEMMA RowsStutter ==
  ASSUME RowsInv, UNCHANGED vars
  PROVE  RowsInv'
<1>1. UNCHANGED <<db, call, known, mine, rebuild>>
  BY DEF vars
<1>2. Typed'
  BY <1>1 DEF RowsInv, Typed
<1>3. ASSUME NEW p
      PROVE  /\ FileOf(p)' = FileOf(p) /\ At(p)' = At(p) /\ LoadAt(p)' = LoadAt(p)
             /\ PartyAt(p)' = PartyAt(p) /\ HasLine(p)' = HasLine(p)
             /\ Ingests(p)' = Ingests(p) /\ Rebuilds(p)' = Rebuilds(p)
             /\ PlannedLoads(p)' = PlannedLoads(p) /\ PlannedParties(p)' = PlannedParties(p)
             /\ \A k : Load(p, k)' = Load(p, k) /\ Row(p, k)' = Row(p, k)
             /\ \A k : Fresh(p, k)' = Fresh(p, k)
  BY <1>1 DEF FileOf, At, LoadAt, PartyAt, HasLine, Ingests, Rebuilds, PlannedLoads,
              PlannedParties, Load, Row, Visible, Fresh
<1>4. /\ \A c, t : Observed(c, t)' = Observed(c, t)
      /\ \A l : VersionsOf(l)' = VersionsOf(l)
      /\ Stored(db)' = Stored(db)
  BY <1>1 DEF Observed, VersionsOf, Stored
<1>5. Alone' /\ Locked'
  BY <1>1, <1>3 DEF RowsInv, Alone, Locked
<1>6. Committed'
  BY <1>1, <1>4 DEF RowsInv, Committed
<1>7. ASSUME NEW p \in Sessions PROVE Stands(p)'
  BY <1>1, <1>3 DEF RowsInv, Stands
<1>8. ASSUME NEW p \in Sessions, Ingests(p) PROVE WrittenFacts(p)' /\ WrittenLoads(p)'
  <2>1. WrittenFacts(p) /\ WrittenLoads(p)
    BY <1>8 DEF RowsInv
  <2>2. WrittenFacts(p)'
    BY <1>1, <1>3, <1>4, <2>1 DEF WrittenFacts
  <2>3. WrittenLoads(p)'
    BY <1>1, <1>3, <2>1 DEF WrittenLoads
  <2>. QED BY <2>2, <2>3
<1>9. ASSUME NEW p \in Sessions, Rebuilds(p) PROVE Rebuilt(p)'
  BY <1>1, <1>3, <1>4, <1>9 DEF RowsInv, Rebuilt, NoRows
<1>. QED BY <1>2, <1>3, <1>5, <1>6, <1>7, <1>8, <1>9 DEF RowsInv

\* What every session knows stays so.
LEMMA RowsStep ==
  ASSUME RowsInv, [Next]_vars
  PROVE  RowsInv'
<1>1. ASSUME NEW p \in Sessions, IngestStatement(p), rebuild' = RebuildAfter(p) PROVE RowsInv'
  BY <1>1, LookUpFileKeeps, InsertFileKeeps, SelectPartyKeeps, WritePartyKeeps, SelectLoadKeeps,
     InsertLoadKeeps, LookUpVersionKeeps, InsertVersionKeeps, ProjectKeeps, ReplaceStopsKeeps,
     CommitKeeps, RecordFailureKeeps
     DEF IngestStatement
<1>2. ASSUME NEW p \in Sessions, RebuildStatement(p), rebuild' = RebuildAfter(p) PROVE RowsInv'
  BY <1>2, FindStopsKeeps, DeleteStopsKeeps, PutPartyKeeps, PutLoadKeeps, PutStopsKeeps,
     NextPhaseKeeps, CommitRebuildKeeps
     DEF RebuildStatement
<1>3. ASSUME NEW p \in Sessions, Statement(p) PROVE RowsInv'
  BY <1>1, <1>2, <1>3, BreakDeadlockKeeps DEF Statement
<1>4. CASE UNCHANGED vars
  BY <1>4, RowsStutter
<1>. QED BY <1>3, <1>4, OpenFileKeeps, StartRebuildKeeps, DieKeeps DEF Next

\* It is so before anything happens.
LEMMA RowsInit == Init => RowsInv
<1> SUFFICES ASSUME Init PROVE RowsInv
  OBVIOUS
<1>1. \A p \in Sessions : /\ call[p] = Idle /\ known[p] = NothingKnown /\ mine[p] = NoRows
                          /\ ~Ingests(p) /\ ~Rebuilds(p)
  BY IdleRow DEF Init, Ingests, Rebuilds, Writing, Rebuilding
<1>2. NoRows \in SessionRows /\ NothingKnown \in Knowledge /\ Idle \in Calls
  BY IdleRow DEF NoRows, NothingKnown, SessionRows, Knowledge
<1>3. /\ db \in Database
      /\ \A s \in Snapshots : db.versions[s] = None
      /\ \A l \in Loads : db.loads[l] = None
      /\ \A c \in Parties : db.parties[c] = None
  BY DEF Init, Database, NoRows, Verdicts
<1>4. Typed
  BY <1>2, <1>3 DEF Init, Typed, Marks
<1>5. Alone
  BY <1>1 DEF Alone
<1>6. Locked
  BY <1>1 DEF Locked, NoRows
<1>7. Committed
  BY <1>3 DEF Committed, Stored
<1>8. \A p \in Sessions : Stands(p)
  BY <1>1, IdleRow DEF Stands, LoadWork
<1>. QED BY <1>1, <1>4, <1>5, <1>6, <1>7, <1>8 DEF RowsInv

\* What the sessions know of the rows is so in every reachable state.
THEOREM RowsInvariant == Spec => []RowsInv
BY RowsInit, RowsStep, PTL DEF Spec

\* TypeOK: every row has its type, committed, remembered or written.
THEOREM ConcurrentTyped == Spec => []TypeOK
<1>1. RowsInv => TypeOK
  BY DEF RowsInv, Typed, TypeOK, Calls, Knowledge, Marks, Plan
<1>. QED BY <1>1, RowsInvariant, PTL

-----------------------------------------------------------------------------
(* The stops of a load are those of the version it shows. *)

\* A step of session p.
StepOf(p) ==
  \/ \E f \in Files : OpenFile(p, f)
  \/ StartRebuild(p)
  \/ Statement(p)
  \/ Die(p)

\* Only the session that takes a step changes.
LEMMA OthersStand ==
  ASSUME RowsInv, NEW p \in Sessions, StepOf(p)
  PROVE  OthersSame(p)
<1>0. /\ call \in [Sessions -> Calls] /\ known \in [Sessions -> Knowledge]
      /\ mine \in [Sessions -> SessionRows]
      /\ \A q \in Others(p) : q \in Sessions /\ q # p
  BY DEF RowsInv, Typed, Others
<1>1. ASSUME NEW pc, Goto(p, pc) PROVE \A q \in Others(p) : call'[q] = call[q]
  BY <1>0, <1>1 DEF Goto
<1>2. ASSUME NextLine(p) \/ NextSubject(p) PROVE \A q \in Others(p) : call'[q] = call[q]
  <2>1. CASE NextLine(p)
    BY <1>0, <2>1 DEF NextLine
  <2>2. CASE NextSubject(p)
    BY <1>0, <2>2 DEF NextSubject
  <2>. QED BY <1>2, <2>1, <2>2
<1>3. ASSUME NEW pc, NEW S, TakeUp(p, pc, S) PROVE \A q \in Others(p) : call'[q] = call[q]
  <2>1. PICK order \in SetToSeqs(S) : call' = [call EXCEPT ![p].pc = pc, ![p].todo = order]
    BY <1>3 DEF TakeUp
  <2>. QED BY <1>0, <2>1
<1>4. ASSUME Forget(p)
      PROVE  \A q \in Others(p) : known'[q] = known[q] /\ mine'[q] = mine[q]
  BY <1>4 DEF Forget, Others
<1>5. ASSUME Abort(p) PROVE OthersSame(p)
  <2>1. \A q \in Others(p) : call'[q] = call[q]
    BY <1>5 DEF Abort, Others
  <2>. QED BY <1>4, <1>5, <2>1 DEF Abort, OthersSame
<1>6. ASSUME NEW f \in Files, OpenFile(p, f) PROVE OthersSame(p)
  BY <1>6 DEF OpenFile, OthersSame, Others
<1>7. ASSUME StartRebuild(p) PROVE OthersSame(p)
  BY <1>7 DEF StartRebuild, OthersSame, Others
<1>8. ASSUME Die(p) PROVE OthersSame(p)
  <2>1. \A q \in Others(p) : call'[q] = call[q]
    BY <1>8 DEF Die, Others
  <2>. QED BY <1>4, <1>8, <2>1 DEF Die, OthersSame
<1>9. ASSUME IngestStatement(p) PROVE OthersSame(p)
  <2>1. CASE LookUpFile(p)
    BY <2>1 DEF LookUpFile, OthersSame, Others
  <2>2. CASE InsertFile(p)
    BY <1>1, <1>5, <2>2 DEF InsertFile, OthersSame
  <2>3. CASE SelectParty(p)
    BY <1>1, <2>3 DEF SelectParty, OthersSame, Others
  <2>4. CASE WriteParty(p)
    <3>1. CASE Abort(p)
      BY <1>5, <3>1
    <3>2. CASE ~Abort(p)
      <4>1. PICK c : c = PartyAt(p)
        OBVIOUS
      <4>2. /\ mine' = [mine EXCEPT ![p].parties[c] = IF NeedsWrite(p) THEN SyncAt[FileOf(p)]
                                                     ELSE @]
            /\ known' = [known EXCEPT ![p].parties[c] = SyncAt[FileOf(p)]]
            /\ call' = [call EXCEPT ![p].pc = "parties", ![p].party = @ + 1]
        BY <2>4, <3>2, <4>1 DEF WriteParty
      <4>. QED BY <1>0, <4>2 DEF OthersSame
    <3>. QED BY <3>1, <3>2
  <2>5. CASE SelectLoad(p)
    <3>1. \A q \in Others(p) : call'[q] = call[q]
      BY <1>1, <2>5 DEF SelectLoad
    <3>. QED BY <2>5, <3>1 DEF SelectLoad, OthersSame, Others
  <2>6. CASE InsertLoad(p)
    <3>1. CASE ~Abort(p)
      <4>1. PICK l, new : /\ mine' = [mine EXCEPT ![p].loads[l] = new]
                          /\ known' = [known EXCEPT ![p].loads[l] = new]
                          /\ Goto(p, "look_up_version")
        BY <2>6, <3>1 DEF InsertLoad
      <4>. QED BY <1>0, <1>1, <4>1 DEF OthersSame
    <3>. QED BY <1>5, <3>1
  <2>7. CASE LookUpVersion(p)
    BY <1>1, <1>2, <2>7 DEF LookUpVersion, OthersSame
  <2>8. CASE InsertVersion(p)
    <3>1. CASE ~Abort(p)
      <4>1. PICK s, new : /\ mine' = [mine EXCEPT ![p].versions[s] = new]
                          /\ Goto(p, "project") \/ NextLine(p)
                          /\ UNCHANGED known
        BY <2>8, <3>1 DEF InsertVersion
      <4>. QED BY <1>0, <1>1, <1>2, <4>1 DEF OthersSame
    <3>. QED BY <1>5, <3>1
  <2>9. CASE Project(p)
    BY <1>1, <2>9 DEF Project, OthersSame, Others
  <2>10. CASE ReplaceStops(p)
    BY <1>2, <2>10 DEF ReplaceStops, OthersSame, Others
  <2>11. CASE Commit(p)
    <3>1. \A q \in Others(p) : call'[q] = call[q]
      BY <2>11 DEF Commit, Others
    <3>. QED BY <1>4, <2>11, <3>1 DEF Commit, OthersSame
  <2>12. CASE RecordFailure(p)
    BY <2>12 DEF RecordFailure, OthersSame, Others
  <2>. QED BY <1>9, <2>1, <2>2, <2>3, <2>4, <2>5, <2>6, <2>7, <2>8, <2>9, <2>10, <2>11, <2>12
           DEF IngestStatement
<1>10. ASSUME RebuildStatement(p) PROVE OthersSame(p)
  <2>1. CASE FindStops(p)
    BY <1>3, <2>1 DEF FindStops, OthersSame, Others
  <2>2. CASE DeleteStops(p)
    BY <1>2, <2>2 DEF DeleteStops, OthersSame, Others
  <2>3. CASE PutParty(p)
    BY <1>2, <2>3 DEF PutParty, OthersSame, Others
  <2>4. CASE PutLoad(p)
    BY <1>2, <2>4 DEF PutLoad, OthersSame, Others
  <2>5. CASE PutStops(p)
    <3>1. CASE ~Abort(p)
      <4>1. PICK l, new : /\ mine' = [mine EXCEPT ![p].stops[l] = new]
                          /\ NextSubject(p) /\ UNCHANGED known
        BY <2>5, <3>1 DEF PutStops
      <4>. QED BY <1>0, <1>2, <4>1 DEF OthersSame
    <3>. QED BY <1>5, <3>1
  <2>6. CASE NextPhase(p)
    BY <1>3, <2>6 DEF NextPhase, OthersSame
  <2>7. CASE CommitRebuild(p)
    <3>1. \A q \in Others(p) : call'[q] = call[q]
      BY <2>7 DEF CommitRebuild, Others
    <3>. QED BY <1>4, <2>7, <3>1 DEF CommitRebuild, OthersSame
  <2>. QED BY <1>10, <2>1, <2>2, <2>3, <2>4, <2>5, <2>6, <2>7 DEF RebuildStatement
<1>. QED BY <1>5, <1>6, <1>7, <1>8, <1>9, <1>10 DEF StepOf, Statement, BreakDeadlock

\* Only a commit and a recorded failure change committed rows, a session that
\* takes a step of a transaction is not idle, and only StartRebuild begins one.
LEMMA StatementFacts ==
  ASSUME RowsInv, NEW p \in Sessions, StepOf(p)
  PROVE  /\ \/ db' = db
            \/ Commit(p) /\ rebuild' = RebuildAfter(p)
            \/ RecordFailure(p) /\ rebuild' = RebuildAfter(p)
            \/ CommitRebuild(p) /\ rebuild' = RebuildAfter(p)
         /\ \/ \E f \in Files : OpenFile(p, f)
            \/ StartRebuild(p)
            \/ call[p].pc # "idle" /\ rebuild' = RebuildAfter(p)
<1>1. Blockers(p) # {} => call[p].pc # "idle"
  BY IdleWaitsForNobody
<1>2. BreakDeadlock(p) => db' = db /\ call[p].pc # "idle"
  BY <1>1 DEF BreakDeadlock, Circle, Abort
<1>3. IngestStatement(p) => \/ db' = db /\ call[p].pc # "idle"
                            \/ Commit(p) /\ call[p].pc # "idle"
                            \/ RecordFailure(p) /\ call[p].pc # "idle"
  BY DEF IngestStatement, LookUpFile, InsertFile, SelectParty, WriteParty, SelectLoad, InsertLoad,
         LookUpVersion, InsertVersion, Project, ReplaceStops, Commit, RecordFailure, Runs, Abort
<1>4. RebuildStatement(p) => \/ db' = db /\ call[p].pc # "idle"
                             \/ CommitRebuild(p) /\ call[p].pc # "idle"
  BY DEF RebuildStatement, FindStops, DeleteStops, PutParty, PutLoad, PutStops, NextPhase,
         CommitRebuild, Handles, Runs, Abort
<1>. QED BY <1>2, <1>3, <1>4 DEF StepOf, OpenFile, StartRebuild, Statement, Die

\* What a step of session p makes of a load row that it has not written.
LEMMA LoadsStand ==
  ASSUME RowsInv, NEW p \in Sessions, StepOf(p), NEW l \in Loads, mine[p].loads[l] = None
  PROVE  db'.loads[l] = db.loads[l]
<1>1. CASE Commit(p) \/ CommitRebuild(p)
  <2>1. PICK files : db' = Published(p, files)
    BY <1>1 DEF Commit, CommitRebuild
  <2>2. DOMAIN db.loads = Loads
    BY DEF RowsInv, Typed, Database
  <2>3. db'.loads = Merge(db.loads, mine[p].loads)
    BY <2>1 DEF Published
  <2>. QED BY <2>2, <2>3, MergedRows
<1>2. CASE RecordFailure(p)
  BY <1>2 DEF RecordFailure, RowsInv, Typed, Database
<1>. QED BY <1>1, <1>2, StatementFacts

\* Only StartRebuild makes a session rebuild.
LEMMA NoNewRebuild ==
  ASSUME RowsInv, NEW p \in Sessions, Statement(p) \/ Die(p), Rebuilds(p)'
  PROVE  Rebuilds(p)
<1>0. /\ call \in [Sessions -> Calls] /\ call'[p].pc \in Rebuilding
      /\ \A pc \in Writing \cup {"idle", "failing", "insert_file"} : pc \notin Rebuilding
  BY DEF RowsInv, Typed, Rebuilds, Rebuilding, Writing
<1>1. ~Abort(p)
  <2>1. ASSUME Abort(p) PROVE call'[p].pc \in {"idle", "failing"}
    BY <1>0, <2>1, IdleRow DEF Abort, Calls
  <2>. QED BY <1>0, <2>1
<1>2. ~Die(p)
  BY <1>0, IdleRow DEF Die
<1>3. ASSUME NEW pc, Goto(p, pc) PROVE call'[p].pc = pc
  BY <1>0, <1>3 DEF Goto, Calls
<1>4. ASSUME NextLine(p) PROVE call'[p].pc = "parties"
  BY <1>0, <1>4 DEF NextLine, Calls
<1>5. ASSUME IngestStatement(p) PROVE FALSE
  <2>1. CASE LookUpFile(p)
    BY <1>0, <2>1, IdleRow DEF LookUpFile, Calls
  <2>2. CASE InsertFile(p) \/ SelectParty(p)
    BY <1>0, <1>1, <1>3, <2>2 DEF InsertFile, SelectParty, Writing
  <2>3. CASE WriteParty(p)
    <3>1. call' = [call EXCEPT ![p].pc = "parties", ![p].party = @ + 1]
      BY <1>1, <2>3 DEF WriteParty
    <3>. QED BY <1>0, <3>1 DEF Writing, Calls
  <2>4. CASE SelectLoad(p)
    <3>1. Goto(p, "insert_load") \/ Goto(p, "look_up_version")
      BY <2>4 DEF SelectLoad
    <3>. QED BY <1>0, <1>3, <3>1 DEF Writing
  <2>5. CASE InsertLoad(p) \/ Project(p)
    BY <1>0, <1>1, <1>3, <2>5 DEF InsertLoad, Project, Writing
  <2>6. CASE LookUpVersion(p) \/ InsertVersion(p) \/ ReplaceStops(p)
    BY <1>0, <1>1, <1>3, <1>4, <2>6 DEF LookUpVersion, InsertVersion, ReplaceStops, Writing
  <2>7. CASE Commit(p) \/ RecordFailure(p)
    BY <1>0, <2>7, IdleRow DEF Commit, RecordFailure
  <2>. QED BY <1>5, <2>1, <2>2, <2>3, <2>4, <2>5, <2>6, <2>7 DEF IngestStatement
<1>6. RebuildStatement(p) => Rebuilds(p)
  BY DEF RebuildStatement, FindStops, DeleteStops, PutParty, PutLoad, PutStops, NextPhase,
         CommitRebuild, Handles, Runs, Rebuilds, Rebuilding
<1>. QED BY <1>1, <1>2, <1>5, <1>6 DEF Statement, BreakDeadlock

\* After an overlapping rebuild nothing makes the stops promise good again.
LEMMA CleanBefore ==
  ASSUME RowsInv, NEW p \in Sessions, StepOf(p), Clean'
  PROVE  Clean
<1>1. OthersSame(p)
  BY OthersStand
<1>2. \A q \in Others(p) : Rebuilds(q)' = Rebuilds(q)
  BY <1>1 DEF OthersSame, Rebuilds
<1>3. CASE \E f \in Files : OpenFile(p, f)
  <2>1. ~Rebuilds(p)'
    BY <1>3, IdleRow DEF OpenFile, Rebuilds, Rebuilding, RowsInv, Typed, Idle
  <2>. QED BY <1>2, <1>3, <2>1 DEF OpenFile, Clean, Rebuilds, Others
<1>4. CASE StartRebuild(p)
  BY <1>4 DEF StartRebuild, Clean
<1>5. CASE Statement(p) \/ Die(p)
  BY <1>2, <1>5, NoNewRebuild DEF Clean, Statement, Die, RebuildAfter, Rebuilds, Others
<1>. QED BY <1>3, <1>4, <1>5 DEF StepOf

\* A session that ingests writes the stops of every load that it projects.
LEMMA StopsWrittenStays ==
  ASSUME RowsInv, RowsInv', NEW p \in Sessions, IngestStatement(p), Ingests(p)',
         Ingests(p) => StopsWritten(p)
  PROVE  StopsWritten(p)'
<1>0. /\ call \in [Sessions -> Calls] /\ mine \in [Sessions -> SessionRows]
      /\ call'[p].pc \in Writing
      /\ {"idle", "failing", "insert_file", "look_up"} \cap Writing = {}
  BY DEF RowsInv, Typed, Ingests, Writing
<1>1. ~Abort(p)
  <2>1. ASSUME Abort(p) PROVE call'[p].pc \in {"idle", "failing"}
    BY <1>0, <2>1, IdleRow DEF Abort, Calls
  <2>. QED BY <1>0, <2>1
<1>2. ASSUME NEW l \in Loads, mine'[p].loads[l] # None, mine'[p].loads[l].current = None
      PROVE  Fresh(p, l)'
  BY <1>2, NoneAssumption DEF RowsInv, WrittenLoads
<1>3. ASSUME Ingests(p), mine'[p].loads = mine[p].loads, mine'[p].stops = mine[p].stops,
             call[p].pc # "replace_stops"
      PROVE  StopsWritten(p)'
  BY <1>2, <1>3 DEF StopsWritten, Fresh
<1>4. CASE InsertFile(p)
  <2>1. mine'[p] = NoRows
    BY <1>1, <1>4 DEF InsertFile, Runs, RowsInv, Stands, Ingests, Rebuilds, Writing, Rebuilding
  <2>. QED BY <2>1, NoneAssumption DEF StopsWritten, NoRows
<1>5. CASE SelectParty(p) \/ SelectLoad(p) \/ LookUpVersion(p)
  BY <1>3, <1>5 DEF SelectParty, SelectLoad, LookUpVersion, Runs, Ingests, Writing
<1>6. CASE WriteParty(p)
  <2>1. call[p].pc = "write_party"
        /\ mine'[p].loads = mine[p].loads /\ mine'[p].stops = mine[p].stops
    BY <1>0, <1>1, <1>6 DEF WriteParty, Runs, SessionRows
  <2>. QED BY <1>3, <2>1 DEF Ingests, Writing
<1>7. CASE InsertVersion(p)
  <2>1. call[p].pc = "insert_version"
        /\ mine'[p].loads = mine[p].loads /\ mine'[p].stops = mine[p].stops
    BY <1>0, <1>1, <1>7 DEF InsertVersion, Runs, SessionRows
  <2>. QED BY <1>3, <2>1 DEF Ingests, Writing
<1>8. CASE InsertLoad(p)
  <2>1. call[p].pc = "insert_load" /\ Ingests(p) /\ HasLine(p)
    BY <1>8 DEF InsertLoad, Runs, Ingests, Writing, RowsInv, Stands
  <2>2. PICK l \in Loads : l = LoadAt(p)
    BY <2>1, PlaceType
  <2>3. mine' = [mine EXCEPT ![p].loads[l] = NewLoad(p)]
    BY <1>1, <1>8, <2>2 DEF InsertLoad
  <2>4. /\ mine'[p].stops = mine[p].stops /\ mine'[p].loads[l] = NewLoad(p)
        /\ \A k \in Loads : k # l => mine'[p].loads[k] = mine[p].loads[k]
    BY <1>0, <2>3 DEF SessionRows
  <2>5. NewLoad(p).current = None /\ NewLoad(p) # None
    <3>1. NewLoad(p) \in LoadRow
      BY <2>1, PlaceType DEF NewLoad, LoadRow
    <3>. QED BY <3>1, NoneAssumption DEF NewLoad
  <2>6. \A k \in Loads : ~Fresh(p, k)
    BY <2>1 DEF Fresh
  <2>. QED BY <1>2, <2>1, <2>4, <2>5, <2>6 DEF StopsWritten
<1>9. CASE Project(p)
  <2>1. call[p].pc = "project" /\ Ingests(p) /\ HasLine(p) /\ Goto(p, "replace_stops")
    BY <1>9 DEF Project, Runs, Ingests, Writing, RowsInv, Stands
  <2>2. PICK l \in Loads : l = LoadAt(p)
    BY <2>1, PlaceType
  <2>3. /\ mine'[p].stops = mine[p].stops
        /\ \A k \in Loads : k # l => mine'[p].loads[k] = mine[p].loads[k]
    BY <1>0, <1>9, <2>2 DEF Project, SessionRows
  <2>4. call'[p].pc = "replace_stops" /\ l = LoadAt(p)'
    BY <1>0, <2>1, <2>2 DEF Goto, Calls, LoadAt, At, FileOf
  <2>5. \A k \in Loads : k # l => ~Fresh(p, k)
    BY <2>2 DEF Fresh
  <2>6. mine'[p].loads[l] # None
    BY <2>4 DEF RowsInv, WrittenLoads
  <2>. QED BY <2>1, <2>3, <2>4, <2>5, <2>6 DEF StopsWritten
<1>10. CASE ReplaceStops(p)
  <2>1. call[p].pc = "replace_stops" /\ Ingests(p) /\ HasLine(p)
    BY <1>10 DEF ReplaceStops, Runs, Ingests, Writing, RowsInv, Stands
  <2>2. PICK l \in Loads : l = LoadAt(p)
    BY <2>1, PlaceType
  <2>3. PICK put \in StopRow : put = [of |-> At(p), by |-> FileOf(p)]
    BY <2>1, PlaceType DEF StopRow
  <2>4. mine' = [mine EXCEPT ![p].stops[l] = put]
    BY <1>10, <2>2, <2>3 DEF ReplaceStops
  <2>5. /\ mine'[p].loads = mine[p].loads /\ mine'[p].stops[l] = put
        /\ \A k \in Loads : k # l => mine'[p].stops[k] = mine[p].stops[k]
    BY <1>0, <2>4 DEF SessionRows
  <2>6. mine[p].loads[l] # None /\ mine[p].loads[l].current = At(p)
    BY <2>1, <2>2 DEF RowsInv, WrittenLoads
  <2>7. put # Deleted /\ put # None /\ put.of = At(p)
    BY <2>3, NoneAssumption
  <2>8. \A k \in Loads : ~Fresh(p, k)
    BY <2>1 DEF Fresh
  <2>. QED BY <2>1, <2>2, <2>5, <2>6, <2>7, <2>8 DEF StopsWritten
<1>11. ~LookUpFile(p)
  BY <1>0, IdleRow DEF LookUpFile, Calls
<1>12. ~Commit(p) /\ ~RecordFailure(p)
  BY <1>0, IdleRow DEF Commit, RecordFailure
<1>. QED BY <1>4, <1>5, <1>6, <1>7, <1>8, <1>9, <1>10, <1>11, <1>12 DEF IngestStatement

\* A rebuild with nothing next to it goes on.
LEMMA AloneGoesOn ==
  ASSUME RowsInv, NEW p \in Sessions, RebuildsAlone(p), OthersSame(p), UNCHANGED db,
         call'[p].plan = call[p].plan, known'[p].loads = known[p].loads,
         NEW plan, plan = call[p].plan.loads,
         \A l \in PlannedLoads(p) :
           /\ mine'[p].loads[l] # None => mine'[p].loads[l] = ProjectionOf(plan[l])
           /\ mine'[p].stops[l] \in StopRow => mine'[p].stops[l].of = plan[l],
         call'[p].pc # "find_stops" =>
           /\ known'[p].stops = db.stops
           /\ \A l \in Loads : db.stops[l] # None =>
                \/ mine'[p].stops[l] # None
                \/ call'[p].pc = "delete_stops" /\ l \in ToSet(call'[p].todo),
         call'[p].pc \in {"put_loads", "put_stops"} =>
           \A l \in PlannedLoads(p) :
             \/ (IF mine'[p].loads[l] # None THEN mine'[p].loads[l] ELSE db.loads[l])
                  = ProjectionOf(plan[l])
             \/ call'[p].pc = "put_loads" /\ l \in ToSet(call'[p].todo),
         call'[p].pc = "put_stops" =>
           \A l \in PlannedLoads(p) :
             mine'[p].stops[l] \in StopRow \/ l \in ToSet(call'[p].todo)
  PROVE  RebuildsAlone(p)'
<1>1. /\ \A l : VersionsOf(l)' = VersionsOf(l)
      /\ \A l : Unbeaten(l)' = Unbeaten(l)
      /\ \A s : ProjectionOf(s)' = ProjectionOf(s)
      /\ PlannedLoads(p)' = PlannedLoads(p)
  BY DEF VersionsOf, Stored, Unbeaten, TimingOf, ProjectionOf, PlannedLoads
<1>2. \A q \in Others(p)' : call'[q].pc = "idle"
  BY DEF RebuildsAlone, OthersSame, Others
<1>3. \A l : Load(p, l)' = IF mine'[p].loads[l] # None THEN mine'[p].loads[l] ELSE db.loads[l]
  BY DEF Load, Visible
<1>. QED BY <1>1, <1>2, <1>3 DEF RebuildsAlone, Pending

\* The statements of such a rebuild.
LEMMA RebuildsAloneStays ==
  ASSUME RowsInv, NEW p \in Sessions, Rebuilds(p), RebuildsAlone(p), OthersSame(p),
         RebuildStatement(p), Rebuilds(p)'
  PROVE  RebuildsAlone(p)'
<1>0. /\ call \in [Sessions -> Calls] /\ mine \in [Sessions -> SessionRows]
      /\ known \in [Sessions -> Knowledge] /\ Rebuilt(p) /\ "idle" \notin Rebuilding
      /\ call'[p].pc # "idle" /\ PlannedLoads(p) \subseteq Loads
      /\ \A l \in PlannedLoads(p) : call[p].plan.loads[l] \in VersionsOf(l)
  BY DEF RowsInv, Typed, Rebuilding, Rebuilds, PlannedLoads, Rebuilt
<1>1. PICK plan : plan = call[p].plan.loads
  OBVIOUS
<1>2. ~Abort(p)
  BY <1>0, IdleRow DEF Abort, Rebuilds
<1>3. CASE FindStops(p)
  <2>1. /\ call[p].pc = "find_stops" /\ UNCHANGED <<db, mine>>
        /\ known' = [known EXCEPT ![p].stops = db.stops] /\ TakeUp(p, "delete_stops", Loads)
    BY <1>3 DEF FindStops, Runs
  <2>2. call'[p].pc = "delete_stops" /\ call'[p].plan = call[p].plan /\ ToSet(call'[p].todo) = Loads
    <3>1. "delete_stops" \in Statements /\ Loads \in SUBSET (Loads \cup Parties)
      BY DEF Statements, Rebuilding
    <3>. QED BY <2>1, <3>1, TakeUpRow, FiniteAssumption DEF RowsInv
  <2>3. known'[p].loads = known[p].loads /\ known'[p].stops = db.stops
    BY <1>0, <2>1 DEF Knowledge
  <2>4. \A k \in PlannedLoads(p) :
          /\ mine[p].loads[k] # None => mine[p].loads[k] = ProjectionOf(plan[k])
          /\ mine[p].stops[k] \in StopRow => mine[p].stops[k].of = plan[k]
    BY <1>1 DEF RebuildsAlone
  <2>. QED BY <1>1, <2>1, <2>2, <2>3, <2>4, AloneGoesOn
<1>4. CASE DeleteStops(p)
  <2>1. /\ call[p].pc = "delete_stops" /\ UNCHANGED <<db, known>>
        /\ call[p].todo # <<>> /\ call[p].todo \in Seq(Loads) /\ NextSubject(p)
    BY <1>0, <1>4 DEF DeleteStops, Handles, Runs, Rebuilt
  <2>2. /\ call'[p].pc = "delete_stops" /\ call'[p].plan = call[p].plan /\ Subject(p) \in Loads
        /\ \A x \in ToSet(call[p].todo) : x = Subject(p) \/ x \in ToSet(call'[p].todo)
    BY <2>1, NextSubjectRow DEF RowsInv
  <2>3. PICK l \in Loads : l = Subject(p)
    BY <2>2
  <2>4. mine' = [mine EXCEPT ![p].stops[l] = IF StillThere(p, l) THEN Deleted ELSE @]
    BY <1>4, <2>3 DEF DeleteStops
  <2>5. /\ mine'[p].loads = mine[p].loads
        /\ mine'[p].stops[l] = IF StillThere(p, l) THEN Deleted ELSE mine[p].stops[l]
        /\ \A k \in Loads : k # l => mine'[p].stops[k] = mine[p].stops[k]
    BY <1>0, <2>4 DEF SessionRows
  <2>6. db.stops[l] # None => StillThere(p, l)
    BY <2>1 DEF RebuildsAlone, StillThere
  <2>7. \A k \in PlannedLoads(p) :
          /\ mine'[p].loads[k] # None => mine'[p].loads[k] = ProjectionOf(plan[k])
          /\ mine'[p].stops[k] \in StopRow => mine'[p].stops[k].of = plan[k]
    BY <1>0, <1>1, <2>5, NoneAssumption DEF RebuildsAlone
  <2>8. /\ known[p].stops = db.stops
        /\ \A k \in Loads : db.stops[k] # None =>
             mine'[p].stops[k] # None \/ k \in ToSet(call'[p].todo)
    BY <2>1, <2>2, <2>3, <2>5, <2>6, NoneAssumption DEF RebuildsAlone, Pending
  <2>. QED BY <1>1, <2>1, <2>2, <2>7, <2>8, AloneGoesOn
<1>5. CASE PutParty(p)
  <2>1. /\ call[p].pc = "put_parties" /\ UNCHANGED <<db, known>>
        /\ call[p].todo # <<>> /\ call[p].todo \in Seq(PlannedParties(p)) /\ NextSubject(p)
    BY <1>0, <1>5 DEF PutParty, Handles, Runs, Rebuilt
  <2>2. call'[p].pc = "put_parties" /\ call'[p].plan = call[p].plan
    BY <2>1, NextSubjectRow DEF RowsInv
  <2>3. mine'[p].loads = mine[p].loads /\ mine'[p].stops = mine[p].stops
    BY <1>0, <1>5 DEF PutParty, SessionRows
  <2>4. \A k \in PlannedLoads(p) :
          /\ mine[p].loads[k] # None => mine[p].loads[k] = ProjectionOf(plan[k])
          /\ mine[p].stops[k] \in StopRow => mine[p].stops[k].of = plan[k]
    BY <1>1 DEF RebuildsAlone
  <2>5. /\ known[p].stops = db.stops
        /\ \A k \in Loads : db.stops[k] # None => mine[p].stops[k] # None
    BY <2>1 DEF RebuildsAlone, Pending
  <2>. QED BY <1>1, <2>1, <2>2, <2>3, <2>4, <2>5, AloneGoesOn
<1>6. CASE PutLoad(p)
  <2>1. /\ call[p].pc = "put_loads" /\ UNCHANGED <<db, known>>
        /\ call[p].todo # <<>> /\ call[p].todo \in Seq(PlannedLoads(p)) /\ NextSubject(p)
    BY <1>0, <1>6 DEF PutLoad, Handles, Runs, Rebuilt
  <2>2. /\ call'[p].pc = "put_loads" /\ call'[p].plan = call[p].plan
        /\ Subject(p) \in PlannedLoads(p)
        /\ \A x \in ToSet(call[p].todo) : x = Subject(p) \/ x \in ToSet(call'[p].todo)
    BY <2>1, NextSubjectRow DEF RowsInv
  <2>3. PICK l \in PlannedLoads(p) : l = Subject(p)
    BY <2>2
  <2>4. PICK s : s = plan[l] /\ s = PlannedLoad(p) /\ s \in VersionsOf(l)
    BY <1>0, <1>1, <2>3 DEF PlannedLoad
  <2>5. db.loads[l] \in LoadRow /\ known[p].loads[l] = db.loads[l]
    BY <1>0, <2>4, TableTypes DEF RebuildsAlone, RowsInv, Committed, VersionsOf
  <2>6. ProjectionOf(s) \in LoadRow
    <3>1. s \in Snapshots /\ db.versions[s] # None
      BY <2>4 DEF VersionsOf, Stored
    <3>2. SyncAt[db.versions[s].file] \in Nat /\ StatusOf[s] \in Statuses
      BY <3>1, TableTypes, ConcurrentAssumption DEF RowsInv, VersionRow
    <3>. QED BY <3>1, <3>2 DEF ProjectionOf, Projection, LoadRow
  <2>7. Updated(db.loads[l], known[p].loads[l], ProjectionOf(s)) = ProjectionOf(s)
    BY <2>5, <2>6, UpdatedFacts
  <2>8. mine' = [mine EXCEPT ![p].loads[l] = IF MovesLoad(p) THEN ProjectionOf(s) ELSE @]
    BY <1>6, <2>3, <2>4, <2>7 DEF PutLoad
  <2>9. /\ mine'[p].stops = mine[p].stops
        /\ mine'[p].loads[l] = IF MovesLoad(p) THEN ProjectionOf(s) ELSE mine[p].loads[l]
        /\ \A k \in Loads : k # l => mine'[p].loads[k] = mine[p].loads[k]
    BY <1>0, <2>8 DEF SessionRows
  <2>10. ~MovesLoad(p) => db.loads[l] = ProjectionOf(s)
    BY <2>3, <2>4, <2>5 DEF MovesLoad
  <2>11. \A k \in PlannedLoads(p) :
           /\ mine'[p].loads[k] # None => mine'[p].loads[k] = ProjectionOf(plan[k])
           /\ mine'[p].stops[k] \in StopRow => mine'[p].stops[k].of = plan[k]
    BY <1>0, <1>1, <2>4, <2>9 DEF RebuildsAlone
  <2>12. \A k \in PlannedLoads(p) :
           \/ (IF mine'[p].loads[k] # None THEN mine'[p].loads[k] ELSE db.loads[k])
                = ProjectionOf(plan[k])
           \/ k \in ToSet(call'[p].todo)
    <3>1. ASSUME NEW k \in PlannedLoads(p), k # l
          PROVE  \/ (IF mine[p].loads[k] # None THEN mine[p].loads[k] ELSE db.loads[k])
                      = ProjectionOf(plan[k])
                 \/ k \in ToSet(call'[p].todo)
      BY <1>1, <2>1, <2>2, <2>3, <3>1 DEF RebuildsAlone, Load, Visible, Pending
    <3>2. mine'[p].loads[l] # None \/ db.loads[l] = ProjectionOf(plan[l])
      BY <2>4, <2>6, <2>9, <2>10, NoneAssumption
    <3>3. \A k \in PlannedLoads(p) : k # l => mine'[p].loads[k] = mine[p].loads[k]
      BY <1>0, <2>9
    <3>. QED BY <2>11, <3>1, <3>2, <3>3
  <2>13. /\ known[p].stops = db.stops
         /\ \A k \in Loads : db.stops[k] # None => mine[p].stops[k] # None
    BY <2>1 DEF RebuildsAlone, Pending
  <2>. QED BY <1>1, <2>1, <2>2, <2>9, <2>11, <2>12, <2>13, AloneGoesOn
<1>7. CASE PutStops(p)
  <2>1. /\ call[p].pc = "put_stops" /\ UNCHANGED <<db, known>>
        /\ call[p].todo # <<>> /\ call[p].todo \in Seq(PlannedLoads(p)) /\ NextSubject(p)
    BY <1>0, <1>2, <1>7 DEF PutStops, Handles, Runs, Rebuilt
  <2>2. /\ call'[p].pc = "put_stops" /\ call'[p].plan = call[p].plan
        /\ Subject(p) \in PlannedLoads(p)
        /\ \A x \in ToSet(call[p].todo) : x = Subject(p) \/ x \in ToSet(call'[p].todo)
    BY <2>1, NextSubjectRow DEF RowsInv
  <2>3. PICK l \in PlannedLoads(p) : l = Subject(p)
    BY <2>2
  <2>4. PICK put \in StopRow : put = [of |-> PlannedLoad(p), by |-> "rebuild"] /\ put.of = plan[l]
    <3>1. PlannedLoad(p) \in Snapshots
      BY <1>0, <2>3 DEF PlannedLoad, VersionsOf, Stored
    <3>2. PlannedLoad(p) = plan[l]
      BY <1>1, <2>3 DEF PlannedLoad
    <3>3. PICK s \in Snapshots : s = PlannedLoad(p)
      BY <3>1
    <3>4. [of |-> s, by |-> "rebuild"] \in StopRow
      BY DEF StopRow
    <3>. QED BY <3>2, <3>3, <3>4
  <2>5. mine' = [mine EXCEPT ![p].stops[l] = put]
    BY <1>2, <1>7, <2>3, <2>4 DEF PutStops
  <2>6. /\ mine'[p].loads = mine[p].loads /\ mine'[p].stops[l] = put
        /\ \A k \in Loads : k # l => mine'[p].stops[k] = mine[p].stops[k]
    BY <1>0, <2>5 DEF SessionRows
  <2>7. \A k \in PlannedLoads(p) :
          /\ mine'[p].loads[k] # None => mine'[p].loads[k] = ProjectionOf(plan[k])
          /\ mine'[p].stops[k] \in StopRow => mine'[p].stops[k].of = plan[k]
    BY <1>0, <1>1, <2>4, <2>6 DEF RebuildsAlone
  <2>8. /\ known[p].stops = db.stops
        /\ \A k \in Loads : db.stops[k] # None => mine'[p].stops[k] # None
    BY <1>0, <2>1, <2>6, NoneAssumption DEF RebuildsAlone, Pending
  <2>9. \A k \in PlannedLoads(p) :
          mine'[p].stops[k] \in StopRow \/ k \in ToSet(call'[p].todo)
    BY <1>0, <2>1, <2>2, <2>3, <2>6 DEF RebuildsAlone, Pending
  <2>10. \A k \in PlannedLoads(p) :
           (IF mine'[p].loads[k] # None THEN mine'[p].loads[k] ELSE db.loads[k])
             = ProjectionOf(plan[k])
    BY <1>1, <2>1, <2>6 DEF RebuildsAlone, Load, Visible, Pending
  <2>. QED BY <1>1, <2>1, <2>2, <2>7, <2>8, <2>9, <2>10, AloneGoesOn
<1>8. CASE NextPhase(p)
  <2>1. UNCHANGED <<db, known, mine>> /\ call[p].todo = <<>> /\ ToSet(call[p].todo) = {}
    BY <1>8 DEF NextPhase, ToSet
  <2>2. /\ PlannedParties(p) \in SUBSET Parties /\ IsFiniteSet(PlannedParties(p))
        /\ PlannedLoads(p) \in SUBSET Loads /\ IsFiniteSet(PlannedLoads(p))
    BY FiniteAssumption, FS_Subset DEF PlannedParties, PlannedLoads
  <2>3. {"put_parties", "put_loads", "put_stops"} \subseteq Statements
    BY DEF Statements, Rebuilding
  <2>4. \/ /\ call[p].pc = "delete_stops" /\ call'[p].pc = "put_parties"
           /\ call'[p].plan = call[p].plan
        \/ /\ call[p].pc = "put_parties" /\ call'[p].pc = "put_loads"
           /\ call'[p].plan = call[p].plan /\ ToSet(call'[p].todo) = PlannedLoads(p)
        \/ /\ call[p].pc = "put_loads" /\ call'[p].pc = "put_stops"
           /\ call'[p].plan = call[p].plan /\ ToSet(call'[p].todo) = PlannedLoads(p)
    <3>1. CASE call[p].pc = "delete_stops" /\ TakeUp(p, "put_parties", PlannedParties(p))
      BY <2>2, <2>3, <3>1, TakeUpRow DEF RowsInv
    <3>2. CASE call[p].pc = "put_parties" /\ TakeUp(p, "put_loads", PlannedLoads(p))
      BY <2>2, <2>3, <3>2, TakeUpRow DEF RowsInv
    <3>3. CASE call[p].pc = "put_loads" /\ TakeUp(p, "put_stops", PlannedLoads(p))
      BY <2>2, <2>3, <3>3, TakeUpRow DEF RowsInv
    <3>. QED BY <1>8, <3>1, <3>2, <3>3 DEF NextPhase
  <2>5. \A k \in PlannedLoads(p) :
          /\ mine[p].loads[k] # None => mine[p].loads[k] = ProjectionOf(plan[k])
          /\ mine[p].stops[k] \in StopRow => mine[p].stops[k].of = plan[k]
    BY <1>1 DEF RebuildsAlone
  <2>6. /\ known[p].stops = db.stops
        /\ \A k \in Loads : db.stops[k] # None => mine[p].stops[k] # None
    BY <2>1, <2>4 DEF RebuildsAlone, Pending
  <2>7. call[p].pc = "put_loads" => \A k \in PlannedLoads(p) :
          (IF mine[p].loads[k] # None THEN mine[p].loads[k] ELSE db.loads[k])
            = ProjectionOf(plan[k])
    BY <1>1, <2>1 DEF RebuildsAlone, Load, Visible, Pending
  <2>. QED BY <1>1, <2>1, <2>4, <2>5, <2>6, <2>7, AloneGoesOn
<1>9. ~CommitRebuild(p)
  BY <1>0, IdleRow DEF CommitRebuild
<1>. QED BY <1>3, <1>4, <1>5, <1>6, <1>7, <1>8, <1>9 DEF RebuildStatement

\* A rebuild that starts with nothing next to it.
LEMMA RebuildStartsAlone ==
  ASSUME RowsInv, NEW p \in Sessions, StartRebuild(p), rebuild' = "alone", OthersSame(p)
  PROVE  RebuildsAlone(p)'
<1>1. /\ call[p].pc = "idle" /\ UNCHANGED <<db, mine>>
      /\ known' = [known EXCEPT ![p].loads = db.loads]
      /\ \A q \in Others(p) : call[q].pc = "idle"
  BY DEF StartRebuild
<1>2. mine[p] = NoRows
  BY <1>1 DEF RowsInv, Stands, Ingests, Rebuilds, Writing, Rebuilding
<1>3. PICK plan \in Plans :
        call' = [call EXCEPT ![p] = [Idle EXCEPT !.pc = "find_stops", !.plan = plan]]
  BY DEF StartRebuild
<1>4. call'[p].pc = "find_stops" /\ call'[p].plan = plan
  BY <1>3 DEF RowsInv, Typed, Idle
<1>5. known'[p].loads = db.loads
  BY <1>1 DEF RowsInv, Typed, Knowledge
<1>6. /\ \A l : VersionsOf(l)' = VersionsOf(l)
      /\ \A l : Unbeaten(l)' = Unbeaten(l)
  BY <1>1 DEF VersionsOf, Stored, Unbeaten, TimingOf
<1>7. \A l \in Loads : IF VersionsOf(l) = {} THEN plan.loads[l] = None
                       ELSE plan.loads[l] \in Unbeaten(l)
  BY PlanFacts
<1>8. \A l \in Loads : mine'[p].loads[l] = None /\ mine'[p].stops[l] = None
  BY <1>1, <1>2 DEF NoRows
<1>9. \A q \in Others(p)' : call'[q].pc = "idle"
  BY <1>1 DEF OthersSame, Others
<1>10. \A l \in PlannedLoads(p)' : l \in Loads
  BY DEF PlannedLoads
<1>. QED BY <1>1, <1>4, <1>5, <1>6, <1>7, <1>8, <1>9, <1>10, NoneAssumption DEF RebuildsAlone

\* A session ingests after a statement of an ingest call only.
LEMMA OnlyCallsIngest ==
  ASSUME RowsInv, NEW p \in Sessions, StepOf(p), Ingests(p)'
  PROVE  IngestStatement(p)
<1>0. /\ call \in [Sessions -> Calls] /\ call'[p].pc \in Writing
      /\ Rebuilding \cap Writing = {}
      /\ {"idle", "failing", "look_up", "find_stops"} \cap Writing = {}
      /\ {"delete_stops", "put_parties", "put_loads", "put_stops"} \subseteq Rebuilding
  BY DEF RowsInv, Typed, Ingests, Rebuilding, Writing
<1>1. ASSUME NEW row \in Calls, call' = [call EXCEPT ![p] = row] PROVE row.pc \in Writing
  BY <1>0, <1>1
<1>2. ~Abort(p)
  <2>1. ASSUME Abort(p) PROVE call'[p].pc \in {"idle", "failing"}
    BY <1>0, <2>1, IdleRow DEF Abort, Calls
  <2>. QED BY <1>0, <2>1
<1>3. ~Die(p) /\ ~CommitRebuild(p)
  BY <1>0, IdleRow DEF Die, CommitRebuild
<1>4. \A f \in Files : ~OpenFile(p, f)
  BY <1>0 DEF OpenFile, Idle
<1>5. ~StartRebuild(p)
  <2>1. ASSUME StartRebuild(p) PROVE call'[p].pc = "find_stops"
    BY <1>0, <2>1 DEF StartRebuild, Idle
  <2>. QED BY <1>0, <2>1
<1>6. ASSUME NextSubject(p) PROVE call'[p].pc = call[p].pc
  BY <1>0, <1>6 DEF NextSubject, Calls
<1>7. ASSUME NEW pc, NEW S, TakeUp(p, pc, S) PROVE call'[p].pc = pc
  <2>1. PICK order \in SetToSeqs(S) : call' = [call EXCEPT ![p].pc = pc, ![p].todo = order]
    BY <1>7 DEF TakeUp
  <2>. QED BY <1>0, <2>1 DEF Calls
<1>8. ~RebuildStatement(p)
  BY <1>0, <1>2, <1>3, <1>6, <1>7
     DEF RebuildStatement, FindStops, DeleteStops, PutParty, PutLoad, PutStops, NextPhase,
         Handles, Runs
<1>. QED BY <1>2, <1>3, <1>4, <1>5, <1>8 DEF StepOf, Statement, BreakDeadlock

\* The committed loads show their stops after a commit.
LEMMA CommitKeepsStops ==
  ASSUME RowsInv, StopsInv, NEW p \in Sessions, Commit(p), StopsFollowLoad
  PROVE  StopsFollowLoad'
<1>1. call[p].pc = "parties" /\ Ingests(p)
  BY DEF Commit, Runs, Ingests, Writing
<1>2. PICK files : files = [db.files EXCEPT ![FileOf(p)] = "COMPLETED"] /\ db' = Published(p, files)
  BY DEF Commit
<1>3. files \in [Files -> Verdicts]
  BY <1>1, <1>2 DEF RowsInv, Stands, Typed, Database, Verdicts
<1>4. \A l \in Loads :
        /\ db'.loads[l] = Load(p, l)
        /\ db'.stops[l] = IF mine[p].stops[l] = None THEN db.stops[l]
                          ELSE IF mine[p].stops[l] = Deleted THEN None ELSE mine[p].stops[l]
  BY <1>2, <1>3, PublishedRows DEF RowsInv
<1>5. StopsWritten(p) /\ \A l \in Loads : ~Fresh(p, l)
  BY <1>1 DEF StopsInv, Fresh
<1>6. ASSUME NEW l \in Loads, db'.loads[l] # None
      PROVE  db'.stops[l] # None /\ db'.stops[l].of = db'.loads[l].current
  <2>1. CASE mine[p].loads[l] # None
    BY <1>1, <1>4, <1>5, <2>1 DEF StopsWritten, Load, Visible
  <2>2. CASE mine[p].loads[l] = None
    <3>1. mine[p].stops[l] = None
      BY <1>5, <2>2 DEF StopsWritten
    <3>. QED BY <1>4, <1>6, <2>2, <3>1 DEF StopsFollowLoad, Load, Visible
  <2>. QED BY <2>1, <2>2
<1>. QED BY <1>6 DEF StopsFollowLoad

\* A rebuild with nothing next to it leaves every load with its latest version,
\* whole, and the stops of it.
LEMMA CommitRebuildPutsBack ==
  ASSUME RowsInv, NEW p \in Sessions, CommitRebuild(p), RebuildsAlone(p)
  PROVE  /\ StopsFollowLoad' /\ CurrentIsLatest'
         /\ \A l \in Loads : db'.loads[l] # None =>
              db'.loads[l] = ProjectionOf(db'.loads[l].current)
<1>1. /\ call[p].pc = "put_stops" /\ Rebuilds(p) /\ Rebuilt(p) /\ ToSet(call[p].todo) = {}
      /\ db' = Published(p, db.files)
  BY DEF CommitRebuild, Rebuilds, Rebuilding, RowsInv, ToSet
<1>2. PICK files \in [Files -> Verdicts] : files = db.files
  BY DEF RowsInv, Typed, Database
<1>3. /\ \A s \in Snapshots : db'.versions[s] = Row(p, s)
      /\ \A l \in Loads : db'.loads[l] = Load(p, l)
      /\ \A l \in Loads :
           db'.stops[l] = IF mine[p].stops[l] = None THEN db.stops[l]
                          ELSE IF mine[p].stops[l] = Deleted THEN None ELSE mine[p].stops[l]
  BY <1>1, <1>2, PublishedRows DEF RowsInv
<1>4. \A s \in Snapshots : db'.versions[s] = db.versions[s]
  BY <1>1, <1>3 DEF Rebuilt, NoRows, Row, Visible
<1>5. /\ \A l : VersionsOf(l)' = VersionsOf(l) /\ VersionsOf(l) \subseteq Snapshots
      /\ \A s \in Snapshots : TimingOf(s)' = TimingOf(s)
  BY <1>4 DEF VersionsOf, Stored, TimingOf
<1>6. \A l : Unbeaten(l)' = Unbeaten(l)
  BY <1>5 DEF Unbeaten
<1>7. ASSUME NEW l \in Loads
      PROVE  IF VersionsOf(l) = {} THEN db'.loads[l] = None
             ELSE \E s \in Unbeaten(l) :
                    /\ s \in Snapshots /\ db'.loads[l] = ProjectionOf(s)
                    /\ db'.loads[l] # None /\ db'.loads[l].current = s
                    /\ db'.stops[l] # None /\ db'.stops[l].of = s
  <2>1. CASE VersionsOf(l) = {}
    BY <1>1, <1>3, <2>1 DEF Rebuilt, RowsInv, Committed, Load, Visible
  <2>2. CASE VersionsOf(l) # {}
    <3>1. PICK s \in Unbeaten(l) : s = call[p].plan.loads[l]
      BY <2>2 DEF RebuildsAlone
    <3>2. s \in Snapshots /\ s \in VersionsOf(l)
      BY DEF Unbeaten, VersionsOf, Stored
    <3>3. l \in PlannedLoads(p)
      BY <3>1, <3>2, NoneAssumption DEF PlannedLoads
    <3>4. Load(p, l) = ProjectionOf(s) /\ mine[p].stops[l] \in StopRow
          /\ mine[p].stops[l].of = s
      BY <1>1, <3>1, <3>3 DEF RebuildsAlone, Pending
    <3>5. Load(p, l) # None
      BY <3>2 DEF RowsInv, Committed, VersionsOf, Load, Visible
    <3>6. ProjectionOf(s).current = s
      BY DEF ProjectionOf, Projection
    <3>7. db'.stops[l] = mine[p].stops[l] /\ mine[p].stops[l] # None
      BY <1>3, <3>4, NoneAssumption
    <3>. QED BY <1>3, <2>2, <3>1, <3>2, <3>4, <3>5, <3>6, <3>7
  <2>. QED BY <2>1, <2>2
<1>8. StopsFollowLoad'
  BY <1>7 DEF StopsFollowLoad
<1>9. CurrentIsLatest'
  BY <1>5, <1>6, <1>7 DEF CurrentIsLatest, ShowsLatest
<1>10. \A l \in Loads : db'.loads[l] # None => db'.loads[l] = ProjectionOf(db'.loads[l].current)
  BY <1>7
<1>. QED BY <1>8, <1>9, <1>10

\* Whatever a session does, loads and stops stay together.
LEMMA StopsStep ==
  ASSUME RowsInv, RowsInv', StopsInv, NEW p \in Sessions, StepOf(p)
  PROVE  StopsInv'
<1>1. OthersSame(p)
  BY OthersStand
<1>2. ASSUME Clean' PROVE StopsFollowLoad'
  <2>1. Clean /\ StopsFollowLoad
    BY <1>2, CleanBefore DEF StopsInv
  <2>2. CASE db' = db
    BY <2>1, <2>2 DEF StopsFollowLoad
  <2>3. CASE Commit(p)
    BY <2>1, <2>3, CommitKeepsStops
  <2>4. CASE RecordFailure(p)
    <3>1. db'.loads = db.loads /\ db'.stops = db.stops
      BY <2>4 DEF RecordFailure, RowsInv, Typed, Database
    <3>. QED BY <2>1, <3>1 DEF StopsFollowLoad
  <2>5. CASE CommitRebuild(p) /\ rebuild' = RebuildAfter(p) /\ db' # db
    <3>1. Rebuilds(p) /\ ~Rebuilds(p)'
      BY <2>5, IdleRow DEF CommitRebuild, Rebuilds, Rebuilding, RowsInv, Typed
    <3>2. \A q \in Sessions : ~Rebuilds(q)'
      BY <1>1, <3>1 DEF RowsInv, Alone, Others, OthersSame, Rebuilds
    <3>3. rebuild = "alone"
      BY <1>2, <2>5, <3>1, <3>2 DEF Clean, RebuildAfter, RowsInv, Alone, Typed, Marks
    <3>. QED BY <2>5, <3>1, <3>3, CommitRebuildPutsBack DEF StopsInv
  <2>. QED BY <2>2, <2>3, <2>4, <2>5, StatementFacts
<1>3. ASSUME NEW q \in Sessions, Ingests(q)' PROVE StopsWritten(q)'
  <2>1. CASE q = p
    BY <1>3, <2>1, OnlyCallsIngest, StopsWrittenStays DEF StopsInv
  <2>2. CASE q # p
    <3>1. call'[q] = call[q] /\ known'[q] = known[q] /\ mine'[q] = mine[q]
      BY <1>1, <2>2 DEF OthersSame, Others
    <3>2. StopsWritten(q)
      BY <1>3, <3>1 DEF StopsInv, Ingests
    <3>3. ASSUME NEW l \in Loads, Fresh(q, l) PROVE Fresh(q, l)'
      BY <1>3, <3>1, <3>3, NoneAssumption DEF RowsInv, WrittenLoads, Fresh
    <3>4. LoadAt(q)' = LoadAt(q)
      BY <3>1, SamePlace
    <3>. QED BY <3>1, <3>2, <3>3, <3>4 DEF StopsWritten
  <2>. QED BY <2>1, <2>2
<1>4. ASSUME NEW q \in Sessions, rebuild' = "alone", Rebuilds(q)' PROVE RebuildsAlone(q)'
  <2>1. CASE q = p /\ StartRebuild(p)
    BY <1>1, <1>4, <2>1, RebuildStartsAlone
  <2>2. CASE q = p /\ (Statement(p) \/ Die(p))
    <3>1. Rebuilds(p) /\ rebuild = "alone"
      BY <1>4, <2>2, NoNewRebuild DEF Statement, Die, RebuildAfter
    <3>2. RebuildsAlone(p) /\ "idle" \notin Rebuilding /\ call'[p].pc # "idle"
      BY <1>4, <2>2, <3>1 DEF StopsInv, Rebuilds, Rebuilding
    <3>3. ~Abort(p) /\ ~Die(p)
      BY <3>1, <3>2, IdleRow DEF Abort, Die, Rebuilds, RowsInv, Typed
    <3>4. ~IngestStatement(p)
      BY <3>1 DEF IngestStatement, LookUpFile, InsertFile, SelectParty, WriteParty, SelectLoad,
                  InsertLoad, LookUpVersion, InsertVersion, Project, ReplaceStops, Commit,
                  RecordFailure, Runs, Rebuilds, Rebuilding
    <3>5. RebuildStatement(p)
      BY <2>2, <3>3, <3>4 DEF Statement, BreakDeadlock
    <3>. QED BY <1>1, <1>4, <2>2, <3>1, <3>2, <3>5, RebuildsAloneStays
  <2>3. CASE q = p /\ \E f \in Files : OpenFile(p, f)
    BY <1>4, <2>3, IdleRow DEF OpenFile, Rebuilds, Rebuilding, RowsInv, Typed, Idle
  <2>4. CASE q # p
    <3>1. Rebuilds(q)
      BY <1>1, <1>4, <2>4 DEF OthersSame, Others, Rebuilds
    <3>2. ~\E f \in Files : OpenFile(p, f)
      BY <1>4, <3>1 DEF OpenFile, Rebuilds
    <3>3. ~StartRebuild(p)
      BY <3>1 DEF StartRebuild, RowsInv, Alone
    <3>4. call[p].pc # "idle" /\ rebuild = "alone"
      BY <1>4, <3>2, <3>3, StatementFacts DEF RebuildAfter
    <3>. QED BY <2>4, <3>1, <3>4 DEF StopsInv, RebuildsAlone, Others
  <2>. QED BY <2>1, <2>2, <2>3, <2>4 DEF StepOf
<1>. QED BY <1>2, <1>3, <1>4 DEF StopsInv

\* A step by which nothing happens keeps the stops.
LEMMA StopsStutter ==
  ASSUME StopsInv, UNCHANGED vars
  PROVE  StopsInv'
<1>1. UNCHANGED <<db, call, known, mine, rebuild>>
  BY DEF vars
<1>2. (Clean => StopsFollowLoad)'
  BY <1>1 DEF StopsInv, Clean, StopsFollowLoad, Rebuilds
<1>3. ASSUME NEW p \in Sessions, Ingests(p)' PROVE StopsWritten(p)'
  BY <1>1, <1>3 DEF StopsInv, Ingests, StopsWritten, Fresh, LoadAt, At, FileOf
<1>4. ASSUME NEW p \in Sessions, rebuild' = "alone", Rebuilds(p)' PROVE RebuildsAlone(p)'
  <2>1. RebuildsAlone(p)
    BY <1>1, <1>4 DEF StopsInv, Rebuilds
  <2>2. /\ \A l : VersionsOf(l)' = VersionsOf(l) /\ Unbeaten(l)' = Unbeaten(l)
        /\ \A s : ProjectionOf(s)' = ProjectionOf(s)
        /\ \A l : Load(p, l)' = Load(p, l)
        /\ \A pc, x : Pending(p, pc, x)' = Pending(p, pc, x)
        /\ PlannedLoads(p)' = PlannedLoads(p) /\ Others(p)' = Others(p)
    BY <1>1 DEF VersionsOf, Unbeaten, Stored, TimingOf, ProjectionOf, Load, Visible, Pending,
                PlannedLoads, Others
  <2>. QED BY <1>1, <2>1, <2>2 DEF RebuildsAlone
<1>. QED BY <1>2, <1>3, <1>4 DEF StopsInv

\* It is so before anything happens.
LEMMA StopsInit == Init => StopsInv
<1> SUFFICES ASSUME Init PROVE StopsInv
  OBVIOUS
<1>1. \A p \in Sessions : ~Ingests(p) /\ ~Rebuilds(p)
  BY IdleRow DEF Init, Ingests, Rebuilds, Writing, Rebuilding
<1>2. \A l \in Loads : db.loads[l] = None
  BY DEF Init, NoRows
<1>. QED BY <1>1, <1>2 DEF StopsInv, StopsFollowLoad

\* Loads and stops stay together in every reachable state.
THEOREM StopsInvariant == Spec => [](RowsInv /\ StopsInv)
<1>1. ASSUME RowsInv, StopsInv, [Next]_vars PROVE RowsInv' /\ StopsInv'
  <2>1. RowsInv'
    BY <1>1, RowsStep
  <2>2. CASE UNCHANGED vars
    BY <1>1, <2>1, <2>2, StopsStutter
  <2>3. ASSUME NEW p \in Sessions, StepOf(p) PROVE StopsInv'
    BY <1>1, <2>1, <2>3, StopsStep
  <2>4. Next => \E p \in Sessions : StepOf(p)
    BY DEF Next, StepOf
  <2>. QED BY <1>1, <2>1, <2>2, <2>3, <2>4
<1>2. Init => RowsInv /\ StopsInv
  BY RowsInit, StopsInit
<1>. QED BY <1>1, <1>2, PTL DEF Spec

\* The half of ProjectionsAreWhole that is about all loads: as long as no
\* rebuild ran next to another command, the stops of every load are those of
\* the version it shows, however the ingest calls interleave.
THEOREM StopsFollowTheirLoad == Spec => [](rebuild # "overlapping" => StopsFollowLoad)
<1>1. StopsInv => (rebuild # "overlapping" => StopsFollowLoad)
  BY DEF StopsInv, Clean
<1>. QED BY <1>1, StopsInvariant, PTL

\* RebuildRepairs: a rebuild that nothing ran next to leaves, when it commits,
\* every load with its latest version, whole.
THEOREM RebuildsAloneRepair == Spec => RebuildRepairs
<1> DEFINE Repaired ==
      \A p \in Sessions :
        call[p].pc = "put_stops" /\ rebuild = "alone" /\ db' # db
          => /\ CurrentIsLatest'
             /\ \A l \in Loads : db'.loads[l] # None =>
                  db'.loads[l] = ProjectionOf(db'.loads[l].current)
<1>1. ASSUME RowsInv, StopsInv, [Next]_vars PROVE Repaired
  <2> SUFFICES ASSUME NEW p \in Sessions,
                      call[p].pc = "put_stops" /\ rebuild = "alone" /\ db' # db
               PROVE  /\ CurrentIsLatest'
                      /\ \A l \in Loads : db'.loads[l] # None =>
                           db'.loads[l] = ProjectionOf(db'.loads[l].current)
    OBVIOUS
  <2>1. Rebuilds(p) /\ RebuildsAlone(p)
    BY <1>1 DEF StopsInv, Rebuilds, Rebuilding
  <2>2. PICK q \in Sessions : StepOf(q)
    BY <1>1 DEF Next, StepOf, vars
  <2>3. call[q].pc # "idle"
    BY <1>1, <2>2, StatementFacts DEF OpenFile, StartRebuild
  <2>4. q = p
    BY <2>1, <2>3 DEF RebuildsAlone, Others
  <2>5. CommitRebuild(p)
    BY <1>1, <2>2, <2>4, StatementFacts DEF Commit, RecordFailure, Runs
  <2>. QED BY <1>1, <2>1, <2>5, CommitRebuildPutsBack
<1>2. ASSUME RowsInv, StopsInv, [Next]_vars PROVE [Repaired]_vars
  BY <1>1, <1>2
<1> HIDE DEF Repaired
<1>3. Spec => [][Repaired]_vars
  BY <1>2, StopsInvariant, PTL DEF Spec
<1>. QED BY <1>3 DEF RebuildRepairs, Repaired

-----------------------------------------------------------------------------
(* Steady loads. *)

\* The ranking of versions is a strict order, up to ties.
LEMMA RankingFacts ==
  ASSUME NEW f \in Files, NEW g \in Files, NEW h \in Files,
         NEW s \in Snapshots, NEW t \in Snapshots, NEW u \in Snapshots
  PROVE  /\ ~KeyLess(FileTiming(f, s), FileTiming(f, s))
         /\ KeyLess(FileTiming(f, s), FileTiming(g, t))
              => (~KeyLess(FileTiming(f, s), FileTiming(h, u))
                    => ~KeyLess(FileTiming(g, t), FileTiming(h, u)))
         /\ ~KeyLess(FileTiming(f, s), FileTiming(g, t))
              => (~KeyLess(FileTiming(g, t), FileTiming(f, s))
                    => SyncAt[f] = SyncAt[g] /\ ModifiedAt[s] = ModifiedAt[t])
<1>1. /\ SyncAt[f] \in Nat /\ SyncAt[g] \in Nat /\ SyncAt[h] \in Nat
      /\ ModifiedAt[s] \in Nat /\ ModifiedAt[t] \in Nat /\ ModifiedAt[u] \in Nat
  BY ConcurrentAssumption
<1>2. \A e, v : /\ FileTiming(e, v).source_sync_at = SyncAt[e]
                /\ FileTiming(e, v).source_modified_at = ModifiedAt[v]
                /\ FileTiming(e, v).observed_at = SyncAt[e]
  BY DEF FileTiming
<1>. QED BY <1>1, <1>2 DEF KeyLess

\* No two versions of a steady load tie: one file carries both.
LEMMA NoTies ==
  ASSUME NEW l \in SteadyLoads, NEW s \in Snapshots, NEW t \in Snapshots,
         LoadOf[s] = l, LoadOf[t] = l,
         NEW f \in Files, NEW g \in Files, Carries(f, s), Carries(g, t),
         ~KeyLess(FileTiming(f, s), FileTiming(g, t)), ~KeyLess(FileTiming(g, t), FileTiming(f, s))
  PROVE  s = t
<1>1. SyncAt[f] = SyncAt[g] /\ ModifiedAt[s] = ModifiedAt[t]
  BY RankingFacts
<1>2. PICK c \in Parties : TakesTurns(l, c)
  BY DEF SteadyLoads, Steady
<1>3. f \in Writers(c) /\ g \in Writers(c)
  BY <1>2 DEF TakesTurns, Writers, Carries
<1>4. f = g
  BY <1>1, <1>2, <1>3 DEF TakesTurns
<1>. QED BY <1>1, <1>4 DEF SteadyLoads, Steady, Carries

\* A steady load has one version that no other one outranks.
LEMMA OneUnbeaten ==
  ASSUME RowsInv, NEW l \in SteadyLoads, NEW s \in Unbeaten(l), NEW t \in Unbeaten(l)
  PROVE  s = t
<1>1. /\ s \in VersionsOf(l) /\ t \in VersionsOf(l)
      /\ ~KeyLess(TimingOf(s), TimingOf(t)) /\ ~KeyLess(TimingOf(t), TimingOf(s))
  BY DEF Unbeaten
<1>2. /\ s \in Snapshots /\ LoadOf[s] = l /\ db.versions[s] # None
      /\ t \in Snapshots /\ LoadOf[t] = l /\ db.versions[t] # None
  BY <1>1 DEF VersionsOf, Stored
<1>3. PICK f \in Files, g \in Files : f = db.versions[s].file /\ g = db.versions[t].file
  BY <1>2, TableTypes DEF RowsInv, VersionRow, Typed, Database
<1>4. Carries(f, s) /\ Carries(g, t)
  BY <1>1, <1>3 DEF RowsInv, Committed, VersionsOf
<1>. QED BY <1>1, <1>2, <1>3, <1>4, NoTies DEF TimingOf

\* Turns that a session has are kept.
LEMMA TurnsGoOn ==
  ASSUME RowsInv', NEW p \in Sessions, HoldsTurns(p), Ingests(p)',
         mine'[p].parties = mine[p].parties,
         \A l \in Loads : known'[p].loads[l] # Unread => known[p].loads[l] # Unread,
         \/ /\ call'[p].file = call[p].file /\ call'[p].line = call[p].line
            /\ call'[p].party = call[p].party
         \/ call'[p].party = 1
  PROVE  HoldsTurns(p)'
<1> SUFFICES ASSUME NEW l \in Loads, NEW c \in Parties, TakesTurns(l, c)
             PROVE  /\ known'[p].loads[l] # Unread => mine'[p].parties[c] # None
                    /\ HasLine(p)' =>
                         \A i \in DOMAIN PartiesOf[At(p)'] :
                           i < call'[p].party /\ PartiesOf[At(p)'][i] = c
                             => mine'[p].parties[c] # None
  BY DEF HoldsTurns, TakesTurns, Writers
<1>1. known'[p].loads[l] # Unread => mine'[p].parties[c] # None
  BY DEF HoldsTurns
<1>2. CASE /\ call'[p].file = call[p].file /\ call'[p].line = call[p].line
           /\ call'[p].party = call[p].party
  <2>1. At(p)' = At(p) /\ HasLine(p)' = HasLine(p)
    BY <1>2, SamePlace
  <2>. QED BY <1>1, <1>2, <2>1 DEF HoldsTurns
<1>3. CASE call'[p].party = 1
  <2>1. ASSUME HasLine(p)' PROVE At(p)' \in Snapshots
    <3>1. FileOf(p)' \in Files
      BY DEF RowsInv, Stands
    <3>. QED BY <2>1, <3>1, ConcurrentAssumption DEF At, HasLine
  <2>2. ASSUME HasLine(p)', NEW i \in DOMAIN PartiesOf[At(p)'] PROVE ~(i < 1)
    <3>1. PartiesOf[At(p)'] \in Seq(Parties)
      BY <2>1, <2>2, ConcurrentAssumption
    <3>. QED BY <3>1, <2>2
  <2>. QED BY <1>1, <1>3, <2>2
<1>. QED BY <1>2, <1>3

\* A session writes the party rows of a load before it reads the load.
LEMMA HoldsTurnsStays ==
  ASSUME RowsInv, RowsInv', NEW p \in Sessions, IngestStatement(p), Ingests(p)',
         Ingests(p) => HoldsTurns(p)
  PROVE  HoldsTurns(p)'
<1>0. /\ call \in [Sessions -> Calls] /\ mine \in [Sessions -> SessionRows]
      /\ known \in [Sessions -> Knowledge] /\ call[p] \in Calls
      /\ call'[p].pc \in Writing
      /\ {"idle", "failing", "insert_file", "look_up"} \cap Writing = {}
  BY DEF RowsInv, Typed, Ingests, Writing
<1>1. ~Abort(p)
  <2>1. ASSUME Abort(p) PROVE call'[p].pc \in {"idle", "failing"}
    BY <1>0, <2>1, IdleRow DEF Abort, Calls
  <2>. QED BY <1>0, <2>1
<1>2. ASSUME NEW pc, Goto(p, pc)
      PROVE  /\ call'[p].file = call[p].file /\ call'[p].line = call[p].line
             /\ call'[p].party = call[p].party
  BY <1>0, <1>2 DEF Goto, Calls
<1>3. ASSUME NextLine(p) PROVE call'[p].party = 1
  BY <1>0, <1>3 DEF NextLine, Calls
<1>4. CASE InsertFile(p)
  <2>1. mine'[p] = NoRows /\ known'[p] = NothingKnown /\ call[p].party = 1
    BY <1>1, <1>4 DEF InsertFile, Runs, RowsInv, Stands, Ingests, Rebuilds, Writing, Rebuilding
  <2>2. HasLine(p) => At(p) \in Snapshots
    <3>1. FileOf(p) \in Files
      BY <1>4 DEF InsertFile, Runs, RowsInv, Stands
    <3>. QED BY <3>1, ConcurrentAssumption DEF At, HasLine
  <2>3. ASSUME HasLine(p), NEW i \in DOMAIN PartiesOf[At(p)] PROVE ~(i < 1)
    <3>1. PartiesOf[At(p)] \in Seq(Parties)
      BY <2>2, <2>3, ConcurrentAssumption
    <3>. QED BY <3>1, <2>3
  <2>4. At(p)' = At(p) /\ HasLine(p)' = HasLine(p) /\ call'[p].party = 1
    BY <1>1, <1>2, <1>4, <2>1, SamePlace DEF InsertFile
  <2>5. \A l \in Loads : known'[p].loads[l] = Unread
    BY <2>1 DEF NothingKnown
  <2>. QED BY <2>3, <2>4, <2>5 DEF HoldsTurns
<1>5. CASE SelectParty(p)
  <2>1. Ingests(p) /\ mine' = mine /\ Goto(p, "write_party")
    BY <1>5 DEF SelectParty, Runs, Ingests, Writing
  <2>2. known'[p].loads = known[p].loads
    BY <1>0, <1>5 DEF SelectParty, Knowledge
  <2>. QED BY <1>2, <2>1, <2>2, TurnsGoOn
<1>6. CASE WriteParty(p)
  <2>1. call[p].pc = "write_party" /\ Ingests(p) /\ HasLine(p) /\ HoldsTurns(p)
        /\ call[p].party \in DOMAIN PartiesOf[At(p)]
    BY <1>6 DEF WriteParty, Runs, Ingests, Writing, RowsInv, Stands
  <2>2. PICK d \in Parties : d = PartyAt(p) /\ FileOf(p) \in Writers(d)
    BY <2>1, PlaceType
  <2>3. SyncAt[FileOf(p)] \in Nat /\ FileOf(p) \in Files
        /\ PartiesOf[At(p)] \in Seq(Parties)
    BY <2>1, PlaceType
  <2>4. /\ mine' = [mine EXCEPT ![p].parties[d] = IF NeedsWrite(p) THEN SyncAt[FileOf(p)] ELSE @]
        /\ known' = [known EXCEPT ![p].parties[d] = SyncAt[FileOf(p)]]
        /\ call' = [call EXCEPT ![p].pc = "parties", ![p].party = @ + 1]
    BY <1>1, <1>6, <2>2 DEF WriteParty
  <2>5. /\ mine'[p].parties[d] = IF NeedsWrite(p) THEN SyncAt[FileOf(p)] ELSE mine[p].parties[d]
        /\ \A c \in Parties : c # d => mine'[p].parties[c] = mine[p].parties[c]
        /\ known'[p].loads = known[p].loads
        /\ call'[p].file = call[p].file /\ call'[p].line = call[p].line
        /\ call'[p].party = call[p].party + 1
    BY <1>0, <2>4 DEF SessionRows, Knowledge, Calls
  <2>6. At(p)' = At(p) /\ HasLine(p)' = HasLine(p)
    BY <2>5, SamePlace
  <2>7. ASSUME NEW l \in Loads, TakesTurns(l, d) PROVE mine'[p].parties[d] # None
    <3>1. CASE NeedsWrite(p)
      BY <2>3, <2>5, <3>1, NoneAssumption
    <3>2. CASE ~NeedsWrite(p)
      <4>1. known[p].parties[d] = SyncAt[FileOf(p)]
        BY <2>2, <3>2 DEF NeedsWrite
      <4>2. ~Observed(d, SyncAt[FileOf(p)])
        <5>1. db.files[FileOf(p)] = "ABSENT"
          BY <2>1 DEF RowsInv, Stands
        <5>. QED BY <2>2, <2>7, <5>1 DEF Observed, TakesTurns, Writers
      <4>. QED BY <2>1, <2>3, <2>5, <3>2, <4>1, <4>2, NoneAssumption DEF RowsInv, WrittenFacts
    <3>. QED BY <3>1, <3>2
  <2>8. ASSUME NEW l \in Loads, NEW c \in Parties, TakesTurns(l, c)
        PROVE  /\ known'[p].loads[l] # Unread => mine'[p].parties[c] # None
               /\ \A i \in DOMAIN PartiesOf[At(p)] :
                    i < call[p].party + 1 /\ PartiesOf[At(p)][i] = c => mine'[p].parties[c] # None
    <3>1. CASE c = d
      BY <2>7, <2>8, <3>1
    <3>2. CASE c # d
      <4>1. \A i \in DOMAIN PartiesOf[At(p)] :
              i < call[p].party + 1 /\ PartiesOf[At(p)][i] = c => i < call[p].party
        <5>1. call[p].party \in Nat /\ \A i \in DOMAIN PartiesOf[At(p)] : i \in Nat
          BY <1>0, <2>3 DEF Calls
        <5>2. PartiesOf[At(p)][call[p].party] # c
          BY <2>2, <3>2 DEF PartyAt
        <5>. QED BY <5>1, <5>2
      <4>. QED BY <2>1, <2>5, <2>8, <3>2, <4>1 DEF HoldsTurns
    <3>. QED BY <3>1, <3>2
  <2>. QED BY <2>5, <2>6, <2>8 DEF HoldsTurns, TakesTurns, Writers
<1>7. CASE SelectLoad(p)
  <2>1. call[p].pc = "parties" /\ Ingests(p) /\ HasLine(p) /\ HoldsTurns(p) /\ mine' = mine
        /\ call[p].party \notin DOMAIN PartiesOf[At(p)]
    BY <1>7 DEF SelectLoad, Runs, Ingests, Writing
  <2>2. PICK k \in Loads : k = LoadAt(p)
    BY <2>1, PlaceType
  <2>3. /\ call'[p].file = call[p].file /\ call'[p].line = call[p].line
        /\ call'[p].party = call[p].party
    <3>1. PICK pc : Goto(p, pc)
      BY <1>7 DEF SelectLoad
    <3>. QED BY <1>2, <3>1
  <2>4. \A l \in Loads : l # k => known'[p].loads[l] = known[p].loads[l]
    BY <1>0, <1>7, <2>2 DEF SelectLoad, Knowledge
  <2>5. At(p)' = At(p) /\ HasLine(p)' = HasLine(p)
    BY <2>3, SamePlace
  <2>6. ASSUME NEW c \in Parties, TakesTurns(k, c) PROVE mine[p].parties[c] # None
    <3>1. At(p) \in Snapshots /\ PartiesOf[At(p)] \in Seq(Parties) /\ LoadOf[At(p)] = k
      BY <2>1, <2>2, PlaceType DEF LoadAt
    <3>2. PICK i \in DOMAIN PartiesOf[At(p)] : PartiesOf[At(p)][i] = c
      BY <2>6, <3>1 DEF TakesTurns, ToSet
    <3>3. i < call[p].party
      <4>1. call[p].party \in Nat /\ call[p].party >= 1
        BY <1>0, <2>1 DEF Calls, RowsInv, Stands
      <4>2. DOMAIN PartiesOf[At(p)] = 1..Len(PartiesOf[At(p)]) /\ Len(PartiesOf[At(p)]) \in Nat
        BY <3>1
      <4>. QED BY <2>1, <4>1, <4>2
    <3>. QED BY <2>1, <2>6, <3>2, <3>3 DEF HoldsTurns
  <2>. QED BY <2>1, <2>3, <2>4, <2>5, <2>6 DEF HoldsTurns, TakesTurns, Writers
<1>8. CASE InsertLoad(p)
  <2>1. call[p].pc = "insert_load" /\ Ingests(p) /\ HasLine(p) /\ HoldsTurns(p)
    BY <1>8 DEF InsertLoad, Runs, Ingests, Writing, RowsInv, Stands
  <2>2. PICK k \in Loads : k = LoadAt(p)
    BY <2>1, PlaceType
  <2>3. /\ mine' = [mine EXCEPT ![p].loads[k] = NewLoad(p)]
        /\ known' = [known EXCEPT ![p].loads[k] = NewLoad(p)]
        /\ Goto(p, "look_up_version")
    BY <1>1, <1>8, <2>2 DEF InsertLoad
  <2>4. /\ mine'[p].parties = mine[p].parties
        /\ \A l \in Loads : l # k => known'[p].loads[l] = known[p].loads[l]
    BY <1>0, <2>3 DEF SessionRows, Knowledge
  <2>5. known[p].loads[k] # Unread
    BY <2>1, <2>2, NoneAssumption DEF RowsInv, WrittenLoads
  <2>. QED BY <1>2, <2>1, <2>3, <2>4, <2>5, TurnsGoOn
<1>9. CASE Project(p)
  <2>1. call[p].pc = "project" /\ Ingests(p) /\ HasLine(p) /\ HoldsTurns(p)
        /\ Goto(p, "replace_stops")
    BY <1>9 DEF Project, Runs, Ingests, Writing, RowsInv, Stands
  <2>2. PICK k \in Loads : k = LoadAt(p)
    BY <2>1, PlaceType
  <2>3. /\ mine'[p].parties = mine[p].parties
        /\ \A l \in Loads : l # k => known'[p].loads[l] = known[p].loads[l]
    BY <1>0, <1>9, <2>2 DEF Project, SessionRows, Knowledge
  <2>4. known[p].loads[k] # Unread
    BY <2>1, <2>2, NoneAssumption DEF RowsInv, WrittenLoads, VersionWork, LoadWork
  <2>. QED BY <1>2, <2>1, <2>3, <2>4, TurnsGoOn
<1>10. CASE LookUpVersion(p)
  <2>1. Ingests(p) /\ UNCHANGED <<known, mine>> /\ (NextLine(p) \/ Goto(p, "insert_version"))
    BY <1>10 DEF LookUpVersion, Runs, Ingests, Writing
  <2>. QED BY <1>2, <1>3, <2>1, TurnsGoOn
<1>11. CASE InsertVersion(p)
  <2>1. Ingests(p) /\ known' = known /\ (NextLine(p) \/ Goto(p, "project"))
    BY <1>1, <1>11 DEF InsertVersion, Runs, Ingests, Writing
  <2>2. mine'[p].parties = mine[p].parties
    BY <1>0, <1>1, <1>11 DEF InsertVersion, SessionRows
  <2>. QED BY <1>2, <1>3, <2>1, <2>2, TurnsGoOn
<1>12. CASE ReplaceStops(p)
  <2>1. Ingests(p) /\ known' = known /\ NextLine(p)
    BY <1>12 DEF ReplaceStops, Runs, Ingests, Writing
  <2>2. mine'[p].parties = mine[p].parties
    BY <1>0, <1>12 DEF ReplaceStops, SessionRows
  <2>. QED BY <1>3, <2>1, <2>2, TurnsGoOn
<1>13. ~LookUpFile(p)
  BY <1>0, IdleRow DEF LookUpFile, Calls
<1>14. ~Commit(p) /\ ~RecordFailure(p)
  BY <1>0, IdleRow DEF Commit, RecordFailure
<1>. QED BY <1>4, <1>5, <1>6, <1>7, <1>8, <1>9, <1>10, <1>11, <1>12, <1>13, <1>14
         DEF IngestStatement

\* What session p sees of a load stays while its rows do.
LEMMA SightGoesOn ==
  ASSUME NEW p \in Sessions, NEW l \in Loads, SeesLoad(p, l),
         known'[p].loads[l] = known[p].loads[l],
         mine'[p].loads[l] = mine[p].loads[l], db'.loads[l] = db.loads[l],
         \A s \in Snapshots : LoadOf[s] = l =>
           /\ mine'[p].versions[s] = mine[p].versions[s] /\ db'.versions[s] = db.versions[s]
           /\ Projects(p, l, s)' <=> Projects(p, l, s),
         known[p].loads[l] \in LoadRow /\ known[p].loads[l].current # None =>
           known[p].loads[l].current \in Snapshots /\ LoadOf[known[p].loads[l].current] = l
  PROVE  SeesLoad(p, l)'
<1>1. Load(p, l)' = Load(p, l)
  BY DEF Load, Visible
<1>2. \A s \in Snapshots : LoadOf[s] = l => Row(p, s)' = Row(p, s)
  BY DEF Row, Visible
<1>3. Seen(p, l)' = Seen(p, l) /\ Seen(p, l) \subseteq {s \in Snapshots : LoadOf[s] = l}
  BY <1>2 DEF Seen
<1>4. \A s \in Snapshots : LoadOf[s] = l => SeenTiming(p, s)' = SeenTiming(p, s)
  BY <1>2 DEF SeenTiming, FileTiming
<1>5. known'[p].loads[l] # Unread => known'[p].loads[l] = Load(p, l)'
  BY <1>1 DEF SeesLoad
<1>6. ASSUME known[p].loads[l] \in LoadRow, known[p].loads[l].current # None,
             NEW s, s = known[p].loads[l].current
      PROVE  /\ known[p].loads[l] = Projection(s, SyncAt[Row(p, s)'.file])
             /\ \A t \in Seen(p, l)' :
                  IF Projects(p, l, t)' THEN KeyLess(SeenTiming(p, s)', SeenTiming(p, t)')
                  ELSE ~KeyLess(SeenTiming(p, s)', SeenTiming(p, t)')
  <2>1. s \in Snapshots /\ LoadOf[s] = l
    BY <1>6
  <2>2. Row(p, s)' = Row(p, s) /\ SeenTiming(p, s)' = SeenTiming(p, s)
    BY <1>2, <1>4, <2>1
  <2>3. known[p].loads[l] = Projection(s, SyncAt[Row(p, s)'.file])
    BY <1>6, <2>2 DEF SeesLoad
  <2>4. ASSUME NEW t \in Seen(p, l)
        PROVE  IF Projects(p, l, t)' THEN KeyLess(SeenTiming(p, s)', SeenTiming(p, t)')
               ELSE ~KeyLess(SeenTiming(p, s)', SeenTiming(p, t)')
    <3>1. SeenTiming(p, t)' = SeenTiming(p, t) /\ (Projects(p, l, t)' <=> Projects(p, l, t))
      BY <1>3, <1>4
    <3>. QED BY <1>6, <2>2, <3>1 DEF SeesLoad
  <2>. QED BY <1>3, <2>3, <2>4
<1>7. PICK row : row = known'[p].loads[l] /\ row = known[p].loads[l]
  OBVIOUS
<1>8. ASSUME row \in LoadRow, row.current # None
      PROVE  /\ row = Projection(row.current, SyncAt[Row(p, row.current)'.file])
             /\ \A t \in Seen(p, l)' :
                  IF Projects(p, l, t)'
                  THEN KeyLess(SeenTiming(p, row.current)', SeenTiming(p, t)')
                  ELSE ~KeyLess(SeenTiming(p, row.current)', SeenTiming(p, t)')
  BY <1>6, <1>7, <1>8
<1>. QED BY <1>5, <1>7, <1>8 DEF SeesLoad, SeenTiming, Row, Visible, Projection, FileTiming

\* The version that a load is known to show, and the files of the rows seen.
LEMMA SightFacts ==
  ASSUME RowsInv, NEW p \in Sessions, Ingests(p), NEW l \in Loads
  PROVE  /\ known[p].loads[l] \in LoadRow /\ known[p].loads[l].current # None =>
              /\ known[p].loads[l].current \in Snapshots
              /\ LoadOf[known[p].loads[l].current] = l
              /\ Row(p, known[p].loads[l].current) # None
         /\ \A s \in Snapshots : Row(p, s) # None => Row(p, s).file \in Files
<1>1. WrittenLoads(p)
  BY DEF RowsInv
<1>2. \A s \in Snapshots : Row(p, s) # None => Row(p, s) \in VersionRow
  BY TableTypes DEF RowsInv
<1>. QED BY <1>1, <1>2 DEF WrittenLoads, Fresh, VersionRow

\* The row of a load is read as it is.
LEMMA SelectLoadSees ==
  ASSUME RowsInv, SteadyRows, NEW p \in Sessions, SelectLoad(p), SeesSteady(p)
  PROVE  SeesSteady(p)'
<1>1. /\ call[p].pc = "parties" /\ Ingests(p) /\ HasLine(p) /\ UNCHANGED <<db, mine>>
      /\ known \in [Sessions -> Knowledge] /\ call \in [Sessions -> Calls]
      /\ WrittenFacts(p) /\ WrittenLoads(p)
  BY DEF SelectLoad, Runs, Ingests, Writing, RowsInv, Typed
<1>2. PICK k \in Loads : k = LoadAt(p)
  BY <1>1, PlaceType
<1>3. PICK seen : /\ seen = Remembered(p, "loads", k)
                  /\ known' = [known EXCEPT ![p].loads[k] = seen]
                  /\ Goto(p, IF seen = None THEN "insert_load" ELSE "look_up_version")
  BY <1>2 DEF SelectLoad
<1>4. call'[p].pc # "project"
  BY <1>1, <1>3 DEF Goto, Calls
<1>5. \A l, s : ~Projects(p, l, s) /\ ~Projects(p, l, s)'
  BY <1>1, <1>4 DEF Projects
<1>6. /\ known'[p].loads[k] = seen
      /\ \A l \in Loads : l # k => known'[p].loads[l] = known[p].loads[l]
  BY <1>1, <1>3 DEF Knowledge
<1>7. ASSUME NEW l \in SteadyLoads, known'[p].loads[l] = known[p].loads[l] PROVE SeesLoad(p, l)'
  BY <1>1, <1>5, <1>7, SightFacts, SightGoesOn DEF SeesSteady, SteadyLoads
<1>8. ASSUME k \in SteadyLoads, known[p].loads[k] = Unread PROVE SeesLoad(p, k)'
  <2>1. mine[p].loads[k] = None /\ \A s \in Snapshots : LoadOf[s] = k => mine[p].versions[s] = None
    BY <1>1, <1>8, NoneAssumption DEF WrittenLoads, WrittenFacts
  <2>2. seen = db.loads[k] /\ Load(p, k)' = seen
    BY <1>1, <1>3, <1>8, <2>1 DEF Remembered, Load, Visible
  <2>3. Seen(p, k)' = VersionsOf(k)
        /\ \A s \in VersionsOf(k) : Row(p, s)' = db.versions[s] /\ SeenTiming(p, s)' = TimingOf(s)
    BY <1>1, <2>1 DEF Seen, VersionsOf, Stored, Row, Visible, SeenTiming, TimingOf, FileTiming
  <2>4. ASSUME NEW s, s = seen.current, seen # None
        PROVE  /\ seen = Projection(s, SyncAt[Row(p, s)'.file])
               /\ \A t \in Seen(p, k)' : ~KeyLess(SeenTiming(p, s)', SeenTiming(p, t)')
    <3>1. s \in Unbeaten(k) /\ seen = ProjectionOf(s)
      BY <1>8, <2>2, <2>4 DEF SteadyRows, ShowsWhole
    <3>2. s \in VersionsOf(k)
      BY <3>1 DEF Unbeaten
    <3>. QED BY <2>3, <3>1, <3>2 DEF Unbeaten, ProjectionOf
  <2>5. seen \in LoadRow => seen # None
    BY NoneAssumption
  <2>. QED BY <1>5, <1>6, <2>2, <2>4, <2>5 DEF SeesLoad, SeenTiming, Row, Visible
<1>9. known[p].loads[k] # Unread => known'[p].loads[k] = known[p].loads[k]
  BY <1>3, <1>6 DEF Remembered
<1>. QED BY <1>6, <1>7, <1>8, <1>9 DEF SeesSteady, SteadyLoads, Steady, TakesTurns, Writers

\* A load that the session has inserted shows nothing yet.
LEMMA InsertLoadSees ==
  ASSUME RowsInv, NEW p \in Sessions, InsertLoad(p), ~Abort(p), SeesSteady(p)
  PROVE  SeesSteady(p)'
<1>1. /\ call[p].pc = "insert_load" /\ Ingests(p) /\ HasLine(p)
      /\ known \in [Sessions -> Knowledge] /\ call \in [Sessions -> Calls]
      /\ mine \in [Sessions -> SessionRows]
  BY DEF InsertLoad, Runs, Ingests, Writing, RowsInv, Stands, Typed
<1>2. PICK k \in Loads : k = LoadAt(p)
  BY <1>1, PlaceType
<1>3. PICK new \in LoadRow : new = NewLoad(p) /\ new.current = None
  <2>1. StatusOf[At(p)] \in Statuses /\ SyncAt[FileOf(p)] \in Nat
    BY <1>1, PlaceType
  <2>2. NewLoad(p) \in LoadRow /\ NewLoad(p).current = None
    BY <2>1 DEF NewLoad, LoadRow
  <2>. QED BY <2>2
<1>4. /\ mine' = [mine EXCEPT ![p].loads[k] = new]
      /\ known' = [known EXCEPT ![p].loads[k] = new]
      /\ Goto(p, "look_up_version") /\ UNCHANGED db
  BY <1>2, <1>3 DEF InsertLoad
<1>5. call'[p].pc # "project"
  BY <1>1, <1>4 DEF Goto, Calls
<1>6. \A l, s : ~Projects(p, l, s) /\ ~Projects(p, l, s)'
  BY <1>1, <1>5 DEF Projects
<1>7. /\ known'[p].loads[k] = new /\ mine'[p].loads[k] = new
      /\ mine'[p].versions = mine[p].versions
      /\ \A l \in Loads : l # k =>
           known'[p].loads[l] = known[p].loads[l] /\ mine'[p].loads[l] = mine[p].loads[l]
  BY <1>1, <1>4 DEF Knowledge, SessionRows
<1>8. ASSUME NEW l \in SteadyLoads, l # k PROVE SeesLoad(p, l)'
  BY <1>1, <1>4, <1>6, <1>7, <1>8, SightFacts, SightGoesOn DEF SeesSteady, SteadyLoads
<1>9. SeesLoad(p, k)'
  <2>1. Load(p, k)' = new
    BY <1>7, NoneAssumption DEF Load, Visible
  <2>. QED BY <1>3, <1>7, <2>1 DEF SeesLoad
<1>. QED BY <1>8, <1>9 DEF SeesSteady, SteadyLoads, Steady, TakesTurns, Writers

\* A version is projected if and only if it outranks the one that the load shows.
LEMMA InsertVersionSees ==
  ASSUME RowsInv, NEW p \in Sessions, InsertVersion(p), ~Abort(p), SeesSteady(p)
  PROVE  SeesSteady(p)'
<1>1. /\ call[p].pc = "insert_version" /\ Ingests(p) /\ HasLine(p) /\ UNCHANGED <<db, known>>
      /\ call \in [Sessions -> Calls] /\ mine \in [Sessions -> SessionRows]
      /\ WrittenFacts(p) /\ WrittenLoads(p)
  BY DEF InsertVersion, Runs, Ingests, Writing, RowsInv, Stands, Typed
<1>2. PICK s \in Snapshots, k \in Loads, f \in Files :
        s = At(p) /\ k = LoadAt(p) /\ LoadOf[s] = k /\ f = FileOf(p)
  BY <1>1, PlaceType DEF LoadAt
<1>3. known[p].loads[k] \in LoadRow /\ mine[p].versions[s] = None
  BY <1>1, <1>2 DEF WrittenLoads, VersionWork, LoadWork
<1>4. PICK new \in VersionRow : new = [file |-> f, supersedes |-> known[p].loads[k].current]
  BY <1>3 DEF VersionRow, LoadRow
<1>5. /\ db.versions[s] = None
      /\ mine' = [mine EXCEPT ![p].versions[s] = new]
      /\ IF BecomesCurrent(p) THEN Goto(p, "project") ELSE NextLine(p)
  BY <1>2, <1>4 DEF InsertVersion
<1>6. /\ mine'[p].loads = mine[p].loads /\ mine'[p].versions[s] = new
      /\ \A t \in Snapshots : t # s => mine'[p].versions[t] = mine[p].versions[t]
  BY <1>1, <1>5 DEF SessionRows
<1>7. \A l, t : Projects(p, l, t)' <=> BecomesCurrent(p) /\ l = k /\ t = s
  <2>1. CASE BecomesCurrent(p)
    <3>1. call'[p].pc = "project" /\ At(p)' = s /\ LoadAt(p)' = k
      BY <1>1, <1>2, <1>5, <2>1 DEF Goto, Calls, At, LoadAt, FileOf
    <3>. QED BY <2>1, <3>1 DEF Projects
  <2>2. CASE ~BecomesCurrent(p)
    <3>1. call'[p].pc = "parties"
      BY <1>1, <1>5, <2>2 DEF NextLine, Calls
    <3>. QED BY <2>2, <3>1 DEF Projects
  <2>. QED BY <2>1, <2>2
<1>8. \A l, t : ~Projects(p, l, t)
  BY <1>1 DEF Projects
<1>9. ASSUME NEW l \in SteadyLoads, l # k PROVE SeesLoad(p, l)'
  BY <1>1, <1>2, <1>6, <1>7, <1>8, <1>9, SightFacts, SightGoesOn DEF SeesSteady, SteadyLoads
<1>10. ASSUME k \in SteadyLoads PROVE SeesLoad(p, k)'
  <2>1. Load(p, k)' = Load(p, k) /\ SeesLoad(p, k)
    BY <1>1, <1>6, <1>10 DEF Load, Visible, SeesSteady
  <2>2. PICK x : x = known[p].loads[k].current
    OBVIOUS
  <2>3. ASSUME x # None
        PROVE  /\ known[p].loads[k] = Projection(x, SyncAt[Row(p, x)'.file])
               /\ \A t \in Seen(p, k)' :
                    IF Projects(p, k, t)' THEN KeyLess(SeenTiming(p, x)', SeenTiming(p, t)')
                    ELSE ~KeyLess(SeenTiming(p, x)', SeenTiming(p, t)')
    <3>1. x \in Snapshots /\ Row(p, x) # None
      BY <1>1, <1>3, <2>2, <2>3, SightFacts
    <3>2. Row(p, s) = None /\ x # s
      BY <1>3, <1>5, <3>1 DEF Row, Visible
    <3>3. \A t \in Snapshots : t # s => Row(p, t)' = Row(p, t)
      BY <1>1, <1>6 DEF Row, Visible
    <3>4. Row(p, s)' = new
      BY <1>6, NoneAssumption DEF Row, Visible
    <3>5. \A t \in Snapshots : t # s => SeenTiming(p, t)' = SeenTiming(p, t)
      BY <3>3 DEF SeenTiming, FileTiming
    <3>6. SeenTiming(p, s)' = FileTiming(f, s)
      BY <1>4, <3>4 DEF SeenTiming, FileTiming
    <3>7. BecomesCurrent(p) <=> KeyLess(SeenTiming(p, x), FileTiming(f, s))
      <4>1. Row(p, x).file \in Files
        BY <1>1, <3>1, SightFacts
      <4>2. SeenTiming(p, x) \in VersionTiming
        BY <3>1, <4>1, ConcurrentAssumption DEF SeenTiming, FileTiming, VersionTiming
      <4>. QED BY <1>2, <2>2, <2>3, <4>2, NoneAssumption
               DEF BecomesCurrent, ChooseCurrentVersion, SeenTiming, Row
    <3>8. known[p].loads[k] = Projection(x, SyncAt[Row(p, x)'.file])
      BY <1>3, <2>1, <2>2, <2>3, <3>1, <3>2, <3>3 DEF SeesLoad
    <3>9. ASSUME NEW t \in Seen(p, k)', t # s
          PROVE  ~Projects(p, k, t)' /\ ~KeyLess(SeenTiming(p, x)', SeenTiming(p, t)')
      <4>1. t \in Snapshots /\ t \in Seen(p, k)
        BY <3>3, <3>9 DEF Seen
      <4>2. ~KeyLess(SeenTiming(p, x), SeenTiming(p, t))
        BY <1>3, <1>8, <2>1, <2>2, <2>3, <4>1 DEF SeesLoad
      <4>. QED BY <1>7, <3>1, <3>2, <3>5, <3>9, <4>1, <4>2
    <3>10. IF Projects(p, k, s)' THEN KeyLess(SeenTiming(p, x)', SeenTiming(p, s)')
           ELSE ~KeyLess(SeenTiming(p, x)', SeenTiming(p, s)')
      BY <1>7, <3>1, <3>2, <3>5, <3>6, <3>7
    <3>. QED BY <3>8, <3>9, <3>10
  <2>4. known'[p].loads[k] # Unread => known'[p].loads[k] = Load(p, k)'
    BY <1>1, <2>1 DEF SeesLoad
  <2>5. PICK row : row = known[p].loads[k] /\ row = known'[p].loads[k] /\ row.current = x
    BY <1>1, <2>2
  <2>. QED BY <2>3, <2>4, <2>5 DEF SeesLoad, SeenTiming, Row, Visible, Projection, FileTiming
<1>. QED BY <1>9, <1>10 DEF SeesSteady, SteadyLoads, Steady, TakesTurns, Writers

\* The version that is projected outranks all that the session sees.
LEMMA ProjectSees ==
  ASSUME RowsInv, NEW p \in Sessions, Project(p), SeesSteady(p)
  PROVE  SeesSteady(p)'
<1>1. /\ call[p].pc = "project" /\ Ingests(p) /\ HasLine(p) /\ UNCHANGED db
      /\ call \in [Sessions -> Calls] /\ mine \in [Sessions -> SessionRows]
      /\ known \in [Sessions -> Knowledge]
      /\ WrittenFacts(p) /\ WrittenLoads(p)
  BY DEF Project, Runs, Ingests, Writing, RowsInv, Stands, Typed
<1>2. PICK s \in Snapshots, k \in Loads, f \in Files :
        s = At(p) /\ k = LoadAt(p) /\ LoadOf[s] = k /\ f = FileOf(p)
  BY <1>1, PlaceType DEF LoadAt
<1>3. PICK seen \in LoadRow : seen = known[p].loads[k]
  BY <1>1, <1>2 DEF WrittenLoads, VersionWork, LoadWork
<1>4. PICK new \in LoadRow : new = Projection(s, SyncAt[f]) /\ new.current = s
  <2>1. StatusOf[s] \in Statuses /\ SyncAt[f] \in Nat
    BY <1>1, <1>2, PlaceType
  <2>2. Projection(s, SyncAt[f]) \in LoadRow
    BY <2>1 DEF Projection, LoadRow
  <2>. QED BY <2>2 DEF Projection
<1>5. PICK put : put = Updated(Load(p, k), seen, new)
  OBVIOUS
<1>6. /\ mine' = [mine EXCEPT ![p].loads[k] = put]
      /\ known' = [known EXCEPT ![p].loads[k] = new]
      /\ Goto(p, "replace_stops")
  BY <1>2, <1>3, <1>4, <1>5 DEF Project, Load
<1>7. /\ mine'[p].loads[k] = put /\ known'[p].loads[k] = new
      /\ mine'[p].versions = mine[p].versions
      /\ \A l \in Loads : l # k =>
           known'[p].loads[l] = known[p].loads[l] /\ mine'[p].loads[l] = mine[p].loads[l]
  BY <1>1, <1>6 DEF Knowledge, SessionRows
<1>8. call'[p].pc = "replace_stops"
  BY <1>1, <1>6 DEF Goto, Calls
<1>9. /\ \A l, t : ~Projects(p, l, t)'
      /\ \A l, t : l # k => ~Projects(p, l, t)
      /\ \A t : Projects(p, k, t) <=> t = s
  BY <1>1, <1>2, <1>8 DEF Projects
<1>10. ASSUME NEW l \in SteadyLoads, l # k PROVE SeesLoad(p, l)'
  BY <1>1, <1>7, <1>9, <1>10, SightFacts, SightGoesOn DEF SeesSteady, SteadyLoads
<1>11. \A t \in Snapshots : Row(p, t)' = Row(p, t) /\ SeenTiming(p, t)' = SeenTiming(p, t)
  BY <1>1, <1>7 DEF Row, Visible, SeenTiming, FileTiming
<1>12. Seen(p, k)' = Seen(p, k)
  BY <1>11 DEF Seen
<1>13. Row(p, s) # None /\ Row(p, s).file = f /\ SeenTiming(p, s) = FileTiming(f, s)
  BY <1>1, <1>2 DEF WrittenLoads, WrittenFacts, Row, Visible, SeenTiming
<1>14. ASSUME k \in SteadyLoads PROVE SeesLoad(p, k)'
  <2>1. SeesLoad(p, k)
    BY <1>14 DEF SeesSteady
  <2>2. seen = Load(p, k)
    BY <1>3, <2>1, NoneAssumption DEF SeesLoad
  <2>3. put = new
    BY <1>5, <2>2, UpdatedFacts
  <2>4. Load(p, k)' = new
    BY <1>7, <2>3, NoneAssumption DEF Load, Visible
  <2>5. ASSUME NEW t \in Seen(p, k) PROVE ~KeyLess(SeenTiming(p, s), SeenTiming(p, t))
    <3>1. t \in Snapshots /\ LoadOf[t] = k /\ Row(p, t) # None
      BY DEF Seen
    <3>2. PICK g \in Files : SeenTiming(p, t) = FileTiming(g, t)
      BY <1>1, <3>1, SightFacts DEF SeenTiming
    <3>3. CASE t = s
      BY <1>13, <3>3, RankingFacts
    <3>4. CASE t # s /\ seen.current = None
      <4>1. Fresh(p, k)
        BY <1>1, <1>3, <3>4, NoneAssumption DEF WrittenLoads
      <4>2. mine[p].versions[t] = None
        BY <1>1, <1>2, <1>3, <3>1, <3>4 DEF WrittenFacts
      <4>3. db.versions[t] = None
        BY <3>1, <4>1 DEF Fresh, RowsInv, Committed, Stored
      <4>. QED BY <3>1, <4>2, <4>3 DEF Row, Visible
    <3>5. CASE t # s /\ seen.current # None
      <4>1. PICK x : x = seen.current
        OBVIOUS
      <4>2. x \in Snapshots /\ Row(p, x) # None
        BY <1>1, <1>3, <3>5, <4>1, SightFacts
      <4>3. PICK h \in Files : SeenTiming(p, x) = FileTiming(h, x)
        BY <1>1, <4>2, SightFacts DEF SeenTiming
      <4>4. s \in Seen(p, k)
        BY <1>2, <1>13 DEF Seen
      <4>5. \A u \in Seen(p, k) :
              IF Projects(p, k, u) THEN KeyLess(SeenTiming(p, x), SeenTiming(p, u))
              ELSE ~KeyLess(SeenTiming(p, x), SeenTiming(p, u))
        BY <1>3, <2>1, <3>5, <4>1 DEF SeesLoad
      <4>6. /\ KeyLess(FileTiming(h, x), FileTiming(f, s))
            /\ ~KeyLess(FileTiming(h, x), FileTiming(g, t))
        BY <1>9, <1>13, <3>2, <3>5, <4>3, <4>4, <4>5
      <4>. QED BY <1>13, <3>1, <3>2, <4>2, <4>6, RankingFacts
    <3>. QED BY <3>3, <3>4, <3>5
  <2>6. new = Projection(s, SyncAt[Row(p, s)'.file])
    BY <1>4, <1>11, <1>13
  <2>7. \A t \in Seen(p, k)' :
          IF Projects(p, k, t)' THEN KeyLess(SeenTiming(p, s)', SeenTiming(p, t)')
          ELSE ~KeyLess(SeenTiming(p, s)', SeenTiming(p, t)')
    <3>1. \A t \in Seen(p, k) : t \in Snapshots
      BY DEF Seen
    <3>. QED BY <1>9, <1>11, <1>12, <2>5, <3>1
  <2>. QED BY <1>4, <1>7, <2>4, <2>6, <2>7 DEF SeesLoad, SeenTiming, Row, Visible, Projection,
              FileTiming
<1>. QED BY <1>10, <1>14 DEF SeesSteady, SteadyLoads, Steady, TakesTurns, Writers

\* A statement by which a session sees no load otherwise than before.
LEMMA SightsGoOn ==
  ASSUME RowsInv, NEW p \in Sessions, Ingests(p), SeesSteady(p), UNCHANGED db,
         known'[p].loads = known[p].loads, mine'[p].loads = mine[p].loads,
         mine'[p].versions = mine[p].versions,
         call[p].pc # "project", call'[p].pc # "project"
  PROVE  SeesSteady(p)'
<1>1. \A l, s : ~Projects(p, l, s) /\ ~Projects(p, l, s)'
  BY DEF Projects
<1>2. ASSUME NEW l \in SteadyLoads PROVE SeesLoad(p, l)'
  BY <1>1, SightFacts, SightGoesOn DEF SeesSteady, SteadyLoads
<1>. QED BY <1>2 DEF SeesSteady, SteadyLoads, Steady, TakesTurns, Writers

\* Who ingests goes on seeing the steady loads it has read as they are.
LEMMA SeesSteadyStays ==
  ASSUME RowsInv, SteadyRows, NEW p \in Sessions, IngestStatement(p), Ingests(p)',
         Ingests(p) => SeesSteady(p)
  PROVE  SeesSteady(p)'
<1>0. /\ call \in [Sessions -> Calls] /\ mine \in [Sessions -> SessionRows]
      /\ known \in [Sessions -> Knowledge] /\ call[p] \in Calls
      /\ call'[p].pc \in Writing
      /\ {"idle", "failing", "insert_file", "look_up"} \cap Writing = {}
  BY DEF RowsInv, Typed, Ingests, Writing
<1>1. ~Abort(p)
  <2>1. ASSUME Abort(p) PROVE call'[p].pc \in {"idle", "failing"}
    BY <1>0, <2>1, IdleRow DEF Abort, Calls
  <2>. QED BY <1>0, <2>1
<1>2. ASSUME NEW pc, Goto(p, pc) PROVE call'[p].pc = pc
  BY <1>0, <1>2 DEF Goto, Calls
<1>3. ASSUME NextLine(p) PROVE call'[p].pc = "parties"
  BY <1>0, <1>3 DEF NextLine, Calls
<1>4. CASE InsertFile(p)
  <2>1. known'[p] = NothingKnown
    BY <1>1, <1>4 DEF InsertFile, Runs, RowsInv, Stands, Ingests, Rebuilds, Writing, Rebuilding
  <2>2. \A l \in SteadyLoads : known'[p].loads[l] = Unread
    BY <2>1 DEF NothingKnown, SteadyLoads
  <2>3. PICK rows : rows = known'[p].loads
    OBVIOUS
  <2>4. \A l \in SteadyLoads : SeesLoad(p, l)'
    BY <2>2, <2>3, NoneAssumption DEF SeesLoad
  <2>. QED BY <2>4 DEF SeesSteady, SteadyLoads, Steady, TakesTurns, Writers
<1>5. CASE SelectParty(p)
  <2>1. Ingests(p) /\ mine' = mine /\ db' = db /\ call[p].pc = "parties"
        /\ call'[p].pc = "write_party"
    BY <1>2, <1>5 DEF SelectParty, Runs, Ingests, Writing
  <2>2. known'[p].loads = known[p].loads
    BY <1>0, <1>5 DEF SelectParty, Knowledge
  <2>. QED BY <2>1, <2>2, SightsGoOn
<1>6. CASE WriteParty(p)
  <2>1. PICK d : d = PartyAt(p)
    OBVIOUS
  <2>2. /\ mine' = [mine EXCEPT ![p].parties[d] = IF NeedsWrite(p) THEN SyncAt[FileOf(p)] ELSE @]
        /\ known' = [known EXCEPT ![p].parties[d] = SyncAt[FileOf(p)]]
        /\ call' = [call EXCEPT ![p].pc = "parties", ![p].party = @ + 1]
        /\ db' = db /\ call[p].pc = "write_party" /\ Ingests(p)
    BY <1>1, <1>6, <2>1 DEF WriteParty, Runs, Ingests, Writing
  <2>3. /\ mine'[p].loads = mine[p].loads /\ mine'[p].versions = mine[p].versions
        /\ known'[p].loads = known[p].loads /\ call'[p].pc = "parties"
    BY <1>0, <2>2 DEF SessionRows, Knowledge, Calls
  <2>. QED BY <2>2, <2>3, SightsGoOn
<1>7. CASE SelectLoad(p)
  <2>1. Ingests(p)
    BY <1>7 DEF SelectLoad, Runs, Ingests, Writing
  <2>. QED BY <1>7, <2>1, SelectLoadSees
<1>8. CASE InsertLoad(p)
  <2>1. Ingests(p)
    BY <1>8 DEF InsertLoad, Runs, Ingests, Writing
  <2>. QED BY <1>1, <1>8, <2>1, InsertLoadSees
<1>9. CASE LookUpVersion(p)
  <2>1. Ingests(p) /\ UNCHANGED <<db, known, mine>> /\ call[p].pc = "look_up_version"
        /\ (NextLine(p) \/ Goto(p, "insert_version"))
    BY <1>9 DEF LookUpVersion, Runs, Ingests, Writing
  <2>2. call'[p].pc \in {"parties", "insert_version"}
    BY <1>2, <1>3, <2>1
  <2>. QED BY <2>1, <2>2, SightsGoOn
<1>10. CASE InsertVersion(p)
  <2>1. Ingests(p)
    BY <1>10 DEF InsertVersion, Runs, Ingests, Writing
  <2>. QED BY <1>1, <1>10, <2>1, InsertVersionSees
<1>11. CASE Project(p)
  <2>1. Ingests(p)
    BY <1>11 DEF Project, Runs, Ingests, Writing
  <2>. QED BY <1>11, <2>1, ProjectSees
<1>12. CASE ReplaceStops(p)
  <2>1. Ingests(p) /\ UNCHANGED <<db, known>> /\ call[p].pc = "replace_stops"
        /\ call'[p].pc = "parties"
    BY <1>3, <1>12 DEF ReplaceStops, Runs, Ingests, Writing
  <2>2. mine'[p].loads = mine[p].loads /\ mine'[p].versions = mine[p].versions
    BY <1>0, <1>12 DEF ReplaceStops, SessionRows
  <2>. QED BY <2>1, <2>2, SightsGoOn
<1>13. ~LookUpFile(p)
  BY <1>0, IdleRow DEF LookUpFile, Calls
<1>14. ~Commit(p) /\ ~RecordFailure(p)
  BY <1>0, IdleRow DEF Commit, RecordFailure
<1>. QED BY <1>4, <1>5, <1>6, <1>7, <1>8, <1>9, <1>10, <1>11, <1>12, <1>13, <1>14
         DEF IngestStatement

\* While a session has a steady load before it, no other one has written the
\* load or a version of it.
LEMMA HeldByOne ==
  ASSUME RowsInv, SteadyInv, NEW p \in Sessions, NEW q \in Sessions, p # q, Ingests(p),
         NEW l \in SteadyLoads, known[p].loads[l] # Unread
  PROVE  /\ mine[q].loads[l] = None
         /\ \A s \in Snapshots : LoadOf[s] = l => mine[q].versions[s] = None
<1>1. l \in Loads
  BY DEF SteadyLoads
<1>2. PICK c \in Parties : TakesTurns(l, c)
  BY DEF SteadyLoads, Steady
<1>3. mine[p].parties[c] # None
  BY <1>1, <1>2 DEF SteadyInv, HoldsTurns
<1>4. mine[q].parties[c] = None
  BY <1>3 DEF RowsInv, Locked
<1>5. CASE Ingests(q)
  <2>1. known[q].loads[l] = Unread
    BY <1>1, <1>2, <1>4, <1>5 DEF SteadyInv, HoldsTurns
  <2>. QED BY <1>1, <1>5, <2>1, NoneAssumption DEF RowsInv, WrittenLoads, WrittenFacts
<1>6. CASE Rebuilds(q)
  BY <1>6 DEF SteadyInv, SparesSteady, RowsInv, Rebuilt, NoRows
<1>7. CASE ~Ingests(q) /\ ~Rebuilds(q)
  <2>1. mine[q] = NoRows
    BY <1>7 DEF RowsInv, Stands
  <2>. QED BY <1>1, <2>1 DEF NoRows
<1>. QED BY <1>5, <1>6, <1>7

\* What a step makes of the versions: it adds those that its session has written.
LEMMA VersionsStand ==
  ASSUME RowsInv, NEW p \in Sessions, StepOf(p), NEW s \in Snapshots
  PROVE  /\ mine[p].versions[s] = None => db'.versions[s] = db.versions[s]
         /\ db.versions[s] # None => db'.versions[s] = db.versions[s]
<1>1. ASSUME mine[p].versions[s] = None PROVE db'.versions[s] = db.versions[s]
  <2>1. CASE Commit(p) \/ CommitRebuild(p)
    <3>1. PICK files : db' = Published(p, files)
      BY <2>1 DEF Commit, CommitRebuild
    <3>2. DOMAIN db.versions = Snapshots
      BY DEF RowsInv, Typed, Database
    <3>3. db'.versions = Merge(db.versions, mine[p].versions)
      BY <3>1 DEF Published
    <3>. QED BY <1>1, <3>2, <3>3, MergedRows
  <2>2. CASE RecordFailure(p)
    BY <2>2 DEF RecordFailure, RowsInv, Typed, Database
  <2>. QED BY <2>1, <2>2, StatementFacts
<1>2. ASSUME db.versions[s] # None PROVE mine[p].versions[s] = None
  <2>1. CASE Ingests(p)
    BY <1>2, <2>1 DEF RowsInv, WrittenFacts
  <2>2. CASE Rebuilds(p)
    BY <2>2 DEF RowsInv, Rebuilt, NoRows
  <2>3. CASE ~Ingests(p) /\ ~Rebuilds(p)
    <3>1. mine[p] = NoRows
      BY <2>3 DEF RowsInv, Stands
    <3>. QED BY <3>1 DEF NoRows
  <2>. QED BY <2>1, <2>2, <2>3
<1>. QED BY <1>1, <1>2

\* While the versions of a load stand, so does their ranking.
LEMMA RankingStands ==
  ASSUME NEW l \in Loads, \A s \in Snapshots : LoadOf[s] = l => db'.versions[s] = db.versions[s]
  PROVE  /\ VersionsOf(l)' = VersionsOf(l) /\ Unbeaten(l)' = Unbeaten(l)
         /\ \A s \in VersionsOf(l) : ProjectionOf(s)' = ProjectionOf(s)
<1>1. VersionsOf(l)' = VersionsOf(l)
  BY DEF VersionsOf, Stored
<1>2. \A s \in VersionsOf(l) : db'.versions[s] = db.versions[s]
  BY DEF VersionsOf, Stored
<1>3. \A s \in VersionsOf(l) : TimingOf(s)' = TimingOf(s) /\ ProjectionOf(s)' = ProjectionOf(s)
  BY <1>2 DEF TimingOf, FileTiming, ProjectionOf, Projection
<1>. QED BY <1>1, <1>3 DEF Unbeaten

\* The steps of another session leave what a session sees of the steady loads.
LEMMA OthersSee ==
  ASSUME RowsInv, RowsInv', SteadyInv, NEW p \in Sessions, StepOf(p),
         NEW q \in Others(p), Ingests(q)
  PROVE  HoldsTurns(q)' /\ SeesSteady(q)'
<1>1. q \in Sessions /\ p # q /\ call'[q] = call[q] /\ known'[q] = known[q] /\ mine'[q] = mine[q]
  BY OthersStand DEF OthersSame, Others
<1>2. Ingests(q)' /\ HoldsTurns(q) /\ SeesSteady(q)
  BY <1>1 DEF Ingests, SteadyInv
<1>3. HoldsTurns(q)'
  BY <1>1, <1>2, TurnsGoOn
<1>4. \A l, s : Projects(q, l, s)' <=> Projects(q, l, s)
  BY <1>1, SamePlace DEF Projects
<1>5. ASSUME NEW l \in SteadyLoads, known[q].loads[l] = Unread PROVE SeesLoad(q, l)'
  <2>1. PICK rows : rows = known'[q] /\ rows.loads[l] = Unread
    BY <1>1, <1>5
  <2>. QED BY <2>1, NoneAssumption DEF SeesLoad
<1>6. ASSUME NEW l \in SteadyLoads, known[q].loads[l] # Unread PROVE SeesLoad(q, l)'
  <2>1. l \in Loads /\ SeesLoad(q, l)
    BY <1>2 DEF SteadyLoads, SeesSteady
  <2>2. /\ mine[p].loads[l] = None
        /\ \A s \in Snapshots : LoadOf[s] = l => mine[p].versions[s] = None
    BY <1>1, <1>6, HeldByOne
  <2>3. db'.loads[l] = db.loads[l]
    BY <2>1, <2>2, LoadsStand
  <2>4. \A s \in Snapshots : LoadOf[s] = l => db'.versions[s] = db.versions[s]
    BY <2>2, VersionsStand
  <2>. QED BY <1>1, <1>4, <2>1, <2>3, <2>4, SightFacts, SightGoesOn
<1>. QED BY <1>3, <1>5, <1>6 DEF SeesSteady, SteadyLoads, Steady, TakesTurns, Writers

\* The committed row of a steady load shows its latest version after every step.
LEMMA SteadyRowsStay ==
  ASSUME RowsInv, SteadyInv, NEW p \in Sessions, StepOf(p)
  PROVE  SteadyRows'
<1>0. \A l \in SteadyLoads : db'.loads[l] = None => ShowsWhole(l)'
  BY DEF ShowsWhole
<1>1. ASSUME NEW l \in SteadyLoads, mine[p].loads[l] = None, db'.loads[l] # None,
             \A s \in Snapshots : LoadOf[s] = l => mine[p].versions[s] = None
      PROVE  ShowsWhole(l)'
  <2>1. l \in Loads
    BY DEF SteadyLoads
  <2>2. db'.loads[l] = db.loads[l]
    BY <1>1, <2>1, LoadsStand
  <2>3. /\ VersionsOf(l)' = VersionsOf(l) /\ Unbeaten(l)' = Unbeaten(l)
        /\ \A s \in VersionsOf(l) : ProjectionOf(s)' = ProjectionOf(s)
    BY <1>1, <2>1, VersionsStand, RankingStands
  <2>4. PICK s : s = db.loads[l].current /\ s = db'.loads[l].current
    BY <2>2
  <2>5. s \in Unbeaten(l) /\ db.loads[l] = ProjectionOf(s)
    BY <1>1, <2>2, <2>4 DEF SteadyInv, SteadyRows, ShowsWhole
  <2>6. ProjectionOf(s)' = ProjectionOf(s)
    BY <2>3, <2>5 DEF Unbeaten
  <2>7. db'.loads[l] = ProjectionOf(s)'
    BY <2>2, <2>5, <2>6
  <2>. QED BY <2>3, <2>4, <2>5, <2>7 DEF ShowsWhole, ProjectionOf
<1>2. ASSUME NEW l \in SteadyLoads, Commit(p), known[p].loads[l] # Unread, db'.loads[l] # None
      PROVE  ShowsWhole(l)'
  <2>1. l \in Loads /\ call[p].pc = "parties" /\ Ingests(p) /\ SeesLoad(p, l)
    BY <1>2 DEF SteadyLoads, Commit, Runs, Ingests, Writing, SteadyInv, SeesSteady
  <2>2. PICK files : files = [db.files EXCEPT ![FileOf(p)] = "COMPLETED"]
                     /\ db' = Published(p, files)
    BY <1>2 DEF Commit
  <2>3. files \in [Files -> Verdicts]
    BY <2>1, <2>2 DEF RowsInv, Stands, Typed, Database, Verdicts
  <2>4. /\ \A s \in Snapshots : db'.versions[s] = Row(p, s)
        /\ db'.loads[l] = Load(p, l)
    BY <2>1, <2>2, <2>3, PublishedRows DEF RowsInv
  <2>5. PICK s : s = known[p].loads[l].current /\ s = db'.loads[l].current
    BY <1>2, <2>1, <2>4 DEF SeesLoad
  <2>6. known[p].loads[l] = db'.loads[l] /\ known[p].loads[l] \in LoadRow
    BY <1>2, <2>1, <2>4, TableTypes DEF SeesLoad, RowsInv
  <2>7. s \in Snapshots /\ s # None /\ LoadOf[s] = l /\ Row(p, s) # None
    BY <2>1, <2>5, <2>6, NoneAssumption DEF RowsInv, WrittenLoads, Fresh
  <2>8. /\ known[p].loads[l] = Projection(s, SyncAt[Row(p, s).file])
        /\ \A t \in Seen(p, l) : ~KeyLess(SeenTiming(p, s), SeenTiming(p, t))
    BY <2>1, <2>5, <2>6, <2>7 DEF SeesLoad, Projects
  <2>9. VersionsOf(l)' = Seen(p, l)
    BY <2>4 DEF VersionsOf, Stored, Seen
  <2>10. \A t \in Seen(p, l) : TimingOf(t)' = SeenTiming(p, t)
    BY <2>4 DEF TimingOf, SeenTiming, FileTiming, Seen
  <2>11. s \in Seen(p, l)
    BY <2>7 DEF Seen
  <2>12. s \in Unbeaten(l)'
    BY <2>8, <2>9, <2>10, <2>11 DEF Unbeaten
  <2>13. db'.loads[l] = ProjectionOf(s)'
    BY <2>4, <2>6, <2>7, <2>8 DEF ProjectionOf, Projection
  <2>. QED BY <2>5, <2>12, <2>13 DEF ShowsWhole, ProjectionOf
<1>3. CASE Commit(p)
  <2>1. Ingests(p)
    BY <1>3 DEF Commit, Runs, Ingests, Writing
  <2>2. ASSUME NEW l \in SteadyLoads, known[p].loads[l] = Unread
        PROVE  /\ mine[p].loads[l] = None
               /\ \A s \in Snapshots : LoadOf[s] = l => mine[p].versions[s] = None
    BY <2>1, <2>2, NoneAssumption DEF RowsInv, WrittenLoads, WrittenFacts, SteadyLoads
  <2>. QED BY <1>0, <1>1, <1>2, <1>3, <2>2 DEF SteadyRows, SteadyLoads, Steady, TakesTurns, Writers
<1>4. CASE CommitRebuild(p)
  <2>1. Rebuilds(p)
    BY <1>4 DEF CommitRebuild, Rebuilds, Rebuilding
  <2>2. \A l \in SteadyLoads :
          /\ mine[p].loads[l] = None
          /\ \A s \in Snapshots : LoadOf[s] = l => mine[p].versions[s] = None
    BY <2>1 DEF SteadyInv, SparesSteady, RowsInv, Rebuilt, NoRows
  <2>. QED BY <1>0, <1>1, <2>2 DEF SteadyRows, SteadyLoads, Steady, TakesTurns, Writers
<1>5. CASE db'.versions = db.versions /\ db'.loads = db.loads
  <2>1. \A l \in SteadyLoads : /\ l \in Loads /\ Unbeaten(l)' = Unbeaten(l)
                               /\ Unbeaten(l) \subseteq VersionsOf(l)
                               /\ \A s \in VersionsOf(l) : ProjectionOf(s)' = ProjectionOf(s)
    BY <1>5, RankingStands DEF SteadyLoads, Unbeaten
  <2>2. ASSUME NEW l \in SteadyLoads, db'.loads[l] # None
        PROVE  ShowsWhole(l)'
    <3>1. PICK s : s = db.loads[l].current /\ s = db'.loads[l].current
      BY <1>5
    <3>2. s \in Unbeaten(l) /\ db'.loads[l] = ProjectionOf(s)
      BY <1>5, <2>2, <3>1 DEF SteadyInv, SteadyRows, ShowsWhole
    <3>3. s \in Unbeaten(l)' /\ db'.loads[l] = ProjectionOf(s)'
      BY <2>1, <3>2
    <3>. QED BY <3>1, <3>3 DEF ShowsWhole, ProjectionOf
  <2>. QED BY <1>0, <2>2 DEF SteadyRows, SteadyLoads, Steady, TakesTurns, Writers
<1>6. RecordFailure(p) => db'.versions = db.versions /\ db'.loads = db.loads
  BY DEF RecordFailure, RowsInv, Typed, Database
<1>. QED BY <1>3, <1>4, <1>5, <1>6, StatementFacts

\* A rebuild that starts would leave the steady loads as they are.
LEMMA RebuildStartsSparing ==
  ASSUME RowsInv, SteadyRows, NEW p \in Sessions, StartRebuild(p)
  PROVE  SparesSteady(p)'
<1>1. /\ call[p].pc = "idle" /\ UNCHANGED <<db, mine>>
      /\ known' = [known EXCEPT ![p].loads = db.loads]
  BY DEF StartRebuild
<1>2. mine[p] = NoRows
  BY <1>1 DEF RowsInv, Stands, Ingests, Rebuilds, Writing, Rebuilding
<1>3. PICK plan \in Plans :
        call' = [call EXCEPT ![p] = [Idle EXCEPT !.pc = "find_stops", !.plan = plan]]
  BY DEF StartRebuild
<1>4. call'[p].plan = plan
  BY <1>3 DEF RowsInv, Typed, Idle
<1>5. known'[p].loads = db.loads
  BY <1>1 DEF RowsInv, Typed, Knowledge
<1>6. ASSUME NEW l \in SteadyLoads, plan.loads[l] # None
      PROVE  db.loads[l] = ProjectionOf(plan.loads[l])
  <2>1. l \in Loads
    BY DEF SteadyLoads
  <2>2. plan.loads[l] \in Unbeaten(l)
    BY <1>6, <2>1, PlanFacts
  <2>3. db.loads[l] # None
    BY <2>2 DEF Unbeaten, VersionsOf, RowsInv, Committed
  <2>4. db.loads[l].current \in Unbeaten(l) /\ db.loads[l] = ProjectionOf(db.loads[l].current)
    BY <2>3 DEF SteadyRows, ShowsWhole
  <2>. QED BY <2>2, <2>4, OneUnbeaten
<1>7. \A s : ProjectionOf(s)' = ProjectionOf(s)
  BY <1>1 DEF ProjectionOf, Projection
<1>8. \A l \in SteadyLoads : mine'[p].loads[l] = None
  BY <1>1, <1>2 DEF NoRows, SteadyLoads
<1>9. \A l \in SteadyLoads : l \in PlannedLoads(p)' => plan.loads[l] # None
  BY <1>4 DEF PlannedLoads
<1>. QED BY <1>4, <1>5, <1>6, <1>7, <1>8, <1>9
         DEF SparesSteady, SteadyLoads, Steady, TakesTurns, Writers

\* And goes on so.
LEMMA RebuildSpares ==
  ASSUME RowsInv, NEW p \in Sessions, Rebuilds(p), SparesSteady(p), RebuildStatement(p),
         Rebuilds(p)'
  PROVE  SparesSteady(p)'
<1>0. /\ call \in [Sessions -> Calls] /\ mine \in [Sessions -> SessionRows]
      /\ known \in [Sessions -> Knowledge] /\ Rebuilt(p)
      /\ "idle" \notin Rebuilding /\ call'[p].pc # "idle"
  BY DEF RowsInv, Typed, Rebuilding, Rebuilds
<1>1. ~Abort(p)
  BY <1>0, IdleRow DEF Abort, Rebuilds
<1>2. ASSUME NEW pc, NEW S, TakeUp(p, pc, S) PROVE call'[p].plan = call[p].plan
  <2>1. PICK order \in SetToSeqs(S) : call' = [call EXCEPT ![p].pc = pc, ![p].todo = order]
    BY <1>2 DEF TakeUp
  <2>. QED BY <1>0, <2>1 DEF Calls
<1>3. ASSUME NextSubject(p) PROVE call'[p].plan = call[p].plan
  BY <1>0, <1>3 DEF NextSubject, Calls
<1>4. ASSUME db' = db, known'[p].loads = known[p].loads, call'[p].plan = call[p].plan,
             \A l \in SteadyLoads : mine'[p].loads[l] = mine[p].loads[l]
      PROVE  SparesSteady(p)'
  <2>1. PlannedLoads(p)' = PlannedLoads(p)
    BY <1>4 DEF PlannedLoads
  <2>2. \A s : ProjectionOf(s)' = ProjectionOf(s)
    BY <1>4 DEF ProjectionOf, Projection
  <2>. QED BY <1>4, <2>1, <2>2 DEF SparesSteady, SteadyLoads, Steady, TakesTurns, Writers
<1>5. CASE FindStops(p)
  <2>1. known'[p].loads = known[p].loads
    BY <1>0, <1>5 DEF FindStops, Knowledge
  <2>. QED BY <1>2, <1>4, <1>5, <2>1 DEF FindStops
<1>6. CASE DeleteStops(p)
  <2>1. mine'[p].loads = mine[p].loads
    BY <1>0, <1>6 DEF DeleteStops, SessionRows
  <2>. QED BY <1>3, <1>4, <1>6, <2>1 DEF DeleteStops
<1>7. CASE PutParty(p)
  <2>1. mine'[p].loads = mine[p].loads
    BY <1>0, <1>7 DEF PutParty, SessionRows
  <2>. QED BY <1>3, <1>4, <1>7, <2>1 DEF PutParty
<1>8. CASE PutLoad(p)
  <2>1. /\ call[p].todo # <<>> /\ call[p].todo \in Seq(PlannedLoads(p)) /\ NextSubject(p)
        /\ UNCHANGED <<db, known>>
    BY <1>0, <1>8 DEF PutLoad, Handles, Runs, Rebuilt
  <2>2. PICK k \in PlannedLoads(p) : k = Subject(p)
    BY <2>1, NextSubjectRow DEF RowsInv
  <2>3. PICK put : mine' = [mine EXCEPT ![p].loads[k] = IF MovesLoad(p) THEN put ELSE @]
    BY <1>8, <2>2 DEF PutLoad
  <2>4. k \in SteadyLoads => ~MovesLoad(p)
    BY <2>2 DEF SparesSteady, MovesLoad, PlannedLoad
  <2>5. \A l \in SteadyLoads : mine'[p].loads[l] = mine[p].loads[l]
    BY <1>0, <2>3, <2>4 DEF SessionRows, SteadyLoads
  <2>. QED BY <1>3, <1>4, <2>1, <2>5
<1>9. CASE PutStops(p)
  <2>1. PICK l, put : /\ mine' = [mine EXCEPT ![p].stops[l] = put]
                      /\ NextSubject(p) /\ UNCHANGED <<db, known>>
    BY <1>1, <1>9 DEF PutStops
  <2>2. mine'[p].loads = mine[p].loads
    BY <1>0, <2>1 DEF SessionRows
  <2>. QED BY <1>3, <1>4, <2>1, <2>2
<1>10. CASE NextPhase(p)
  BY <1>2, <1>4, <1>10 DEF NextPhase
<1>11. ~CommitRebuild(p)
  BY <1>0, IdleRow DEF CommitRebuild
<1>. QED BY <1>5, <1>6, <1>7, <1>8, <1>9, <1>10, <1>11 DEF RebuildStatement

\* Whichever session takes a step, a rebuild spares the steady loads.
LEMMA SparesSteadyStays ==
  ASSUME RowsInv, SteadyInv, NEW p \in Sessions, StepOf(p), NEW q \in Sessions, Rebuilds(q)'
  PROVE  SparesSteady(q)'
<1>1. CASE q # p
  <2>1. call'[q] = call[q] /\ known'[q] = known[q] /\ mine'[q] = mine[q]
    BY <1>1, OthersStand DEF OthersSame, Others
  <2>2. Rebuilds(q) /\ Rebuilt(q) /\ SparesSteady(q) /\ PlannedLoads(q)' = PlannedLoads(q)
    BY <2>1 DEF Rebuilds, RowsInv, SteadyInv, PlannedLoads
  <2>3. ASSUME NEW l \in PlannedLoads(q), NEW s, s = call[q].plan.loads[l]
        PROVE  ProjectionOf(s)' = ProjectionOf(s)
    <3>1. s \in Snapshots /\ db.versions[s] # None
      BY <2>2, <2>3 DEF Rebuilt, VersionsOf, Stored
    <3>2. db'.versions[s] = db.versions[s]
      BY <3>1, VersionsStand
    <3>. QED BY <3>2 DEF ProjectionOf, Projection
  <2>. QED BY <2>1, <2>2, <2>3 DEF SparesSteady, SteadyLoads, Steady, TakesTurns, Writers
<1>2. CASE q = p /\ StartRebuild(p)
  BY <1>2, RebuildStartsSparing DEF SteadyInv
<1>3. CASE q = p /\ \E f \in Files : OpenFile(p, f)
  BY <1>3, IdleRow DEF OpenFile, Rebuilds, Rebuilding, RowsInv, Typed, Idle
<1>4. CASE q = p /\ (Statement(p) \/ Die(p))
  <2>1. Rebuilds(p) /\ "idle" \notin Rebuilding /\ call'[p].pc # "idle"
    BY <1>4, NoNewRebuild DEF Rebuilds, Rebuilding
  <2>2. ~Abort(p) /\ ~Die(p)
    BY <2>1, IdleRow DEF Abort, Die, Rebuilds, RowsInv, Typed
  <2>3. ~IngestStatement(p)
    BY <2>1 DEF IngestStatement, LookUpFile, InsertFile, SelectParty, WriteParty, SelectLoad,
                InsertLoad, LookUpVersion, InsertVersion, Project, ReplaceStops, Commit,
                RecordFailure, Runs, Rebuilds, Rebuilding
  <2>4. RebuildStatement(p)
    BY <1>4, <2>2, <2>3 DEF Statement, BreakDeadlock
  <2>. QED BY <1>4, <2>1, <2>4, RebuildSpares DEF SteadyInv
<1>. QED BY <1>1, <1>2, <1>3, <1>4 DEF StepOf

\* What is known of steady loads stays so by every step ...
LEMMA SteadyStep ==
  ASSUME RowsInv, RowsInv', SteadyInv, NEW p \in Sessions, StepOf(p)
  PROVE  SteadyInv'
<1>1. SteadyRows'
  BY SteadyRowsStay
<1>2. ASSUME NEW q \in Sessions, Ingests(q)' PROVE HoldsTurns(q)' /\ SeesSteady(q)'
  <2>1. CASE q = p
    <3>1. IngestStatement(p)
      BY <1>2, <2>1, OnlyCallsIngest
    <3>. QED BY <1>2, <2>1, <3>1, HoldsTurnsStays, SeesSteadyStays DEF SteadyInv
  <2>2. CASE q # p
    <3>1. q \in Others(p) /\ Ingests(q)
      BY <1>2, <2>2, OthersStand DEF OthersSame, Others, Ingests
    <3>. QED BY <3>1, OthersSee
  <2>. QED BY <2>1, <2>2
<1>3. ASSUME NEW q \in Sessions, Rebuilds(q)' PROVE SparesSteady(q)'
  BY <1>3, SparesSteadyStays
<1>. QED BY <1>1, <1>2, <1>3 DEF SteadyInv

\* ... by a step by which nothing happens ...
LEMMA SteadyStutter ==
  ASSUME SteadyInv, UNCHANGED vars
  PROVE  SteadyInv'
<1>1. UNCHANGED <<db, call, known, mine, rebuild>>
  BY DEF vars
<1>2. SteadyRows'
  <2>1. ASSUME NEW l \in SteadyLoads PROVE ShowsWhole(l)'
    <3>1. /\ \A k : VersionsOf(k)' = VersionsOf(k) /\ Unbeaten(k)' = Unbeaten(k)
          /\ \A s : ProjectionOf(s)' = ProjectionOf(s)
      BY <1>1 DEF VersionsOf, Unbeaten, Stored, TimingOf, ProjectionOf
    <3>. QED BY <1>1, <3>1 DEF SteadyInv, SteadyRows, ShowsWhole
  <2>. QED BY <2>1 DEF SteadyRows, SteadyLoads, Steady, TakesTurns, Writers
<1>3. ASSUME NEW p \in Sessions, Ingests(p)' PROVE HoldsTurns(p)' /\ SeesSteady(p)'
  <2>1. HoldsTurns(p) /\ SeesSteady(p)
    BY <1>1, <1>3 DEF SteadyInv, Ingests
  <2>2. HasLine(p)' = HasLine(p) /\ At(p)' = At(p)
    BY <1>1 DEF HasLine, At, FileOf
  <2>3. HoldsTurns(p)'
    BY <1>1, <2>1, <2>2 DEF HoldsTurns, TakesTurns, Writers
  <2>4. ASSUME NEW l \in SteadyLoads PROVE SeesLoad(p, l)'
    <3>1. SeesLoad(p, l)
      BY <2>1 DEF SeesSteady
    <3>. QED BY <1>1, <3>1
             DEF SeesLoad, Load, Row, Visible, Seen, SeenTiming, Projects, LoadAt, At, FileOf
  <2>. QED BY <2>3, <2>4 DEF SeesSteady, SteadyLoads, Steady, TakesTurns, Writers
<1>4. ASSUME NEW p \in Sessions, Rebuilds(p)' PROVE SparesSteady(p)'
  <2>1. SparesSteady(p)
    BY <1>1, <1>4 DEF SteadyInv, Rebuilds
  <2>2. PlannedLoads(p)' = PlannedLoads(p) /\ \A s : ProjectionOf(s)' = ProjectionOf(s)
    BY <1>1 DEF PlannedLoads, ProjectionOf
  <2>. QED BY <1>1, <2>1, <2>2 DEF SparesSteady, SteadyLoads, Steady, TakesTurns, Writers
<1>. QED BY <1>2, <1>3, <1>4 DEF SteadyInv

\* ... and before anything happens.
LEMMA SteadyInit == Init => SteadyInv
<1> SUFFICES ASSUME Init PROVE SteadyInv
  OBVIOUS
<1>1. \A p \in Sessions : ~Ingests(p) /\ ~Rebuilds(p)
  BY IdleRow DEF Init, Ingests, Rebuilds, Writing, Rebuilding
<1>2. \A l \in SteadyLoads : db.loads[l] = None
  BY DEF Init, NoRows, SteadyLoads
<1>. QED BY <1>1, <1>2 DEF SteadyInv, SteadyRows, ShowsWhole

\* The inductive invariant of the steady loads holds in every reachable state.
THEOREM SteadyInvariant == Spec => [](RowsInv /\ SteadyInv)
<1>1. ASSUME RowsInv, SteadyInv, [Next]_vars PROVE RowsInv' /\ SteadyInv'
  <2>1. RowsInv'
    BY <1>1, RowsStep
  <2>2. CASE UNCHANGED vars
    BY <1>1, <2>1, <2>2, SteadyStutter
  <2>3. ASSUME NEW p \in Sessions, StepOf(p) PROVE SteadyInv'
    BY <1>1, <2>1, <2>3, SteadyStep
  <2>4. Next => \E p \in Sessions : StepOf(p)
    BY DEF Next, StepOf
  <2>. QED BY <1>1, <2>1, <2>2, <2>3, <2>4
<1>2. Init => RowsInv /\ SteadyInv
  BY RowsInit, SteadyInit
<1>. QED BY <1>1, <1>2, PTL DEF Spec

\* ProjectionsAreWhole: the row of a steady load is a whole projection of one
\* stored version, and as long as no rebuild ran next to another command the
\* stops of every load are those of the version it shows.
THEOREM ProjectionsStayWhole == Spec => []ProjectionsAreWhole
<1>1. ASSUME SteadyInv, rebuild # "overlapping" => StopsFollowLoad PROVE ProjectionsAreWhole
  <2>1. ASSUME NEW l \in SteadyLoads, db.loads[l] # None
        PROVE  \E s \in VersionsOf(l) : db.loads[l] = ProjectionOf(s)
    <3>1. /\ db.loads[l].current \in Unbeaten(l)
          /\ db.loads[l] = ProjectionOf(db.loads[l].current)
      BY <1>1, <2>1 DEF SteadyInv, SteadyRows, ShowsWhole
    <3>2. db.loads[l].current \in VersionsOf(l)
      BY <3>1 DEF Unbeaten
    <3>. QED BY <3>1, <3>2
  <2>. QED BY <1>1, <2>1 DEF ProjectionsAreWhole
<1>. QED BY <1>1, SteadyInvariant, StopsFollowTheirLoad, PTL

-----------------------------------------------------------------------------
(* The refinement. *)

\* What the refinement mapping makes of committed rows.
FactIn(D, s) == [snapshot |-> s, file |-> D.versions[s].file]

AllSteadyFacts == [snapshot: {s \in Snapshots : LoadOf[s] \in SteadyLoads}, file: Files]

SteadyFacts(D) == {FactIn(D, s) : s \in {t \in Stored(D) : LoadOf[t] \in SteadyLoads}}

SteadyChoice(D) ==
  [l \in SteadyLoads |-> IF D.loads[l] = None THEN None ELSE FactIn(D, D.loads[l].current)]

\* The ranking of a stored version.
RankIn(D, s) == FileTiming(D.versions[s].file, s)

\* Every steady load shows a stored version of it that none outranks.
ChoosesLatest(D) ==
  \A l \in SteadyLoads :
    /\ D.loads[l] = None => \A s \in Stored(D) : LoadOf[s] # l
    /\ D.loads[l] # None =>
         /\ D.loads[l].current \in Stored(D) /\ LoadOf[D.loads[l].current] = l
         /\ \A t \in Stored(D) :
              LoadOf[t] = l => ~KeyLess(RankIn(D, D.loads[l].current), RankIn(D, t))

\* The fields of a fact.
LEMMA FactFields ==
  ASSUME NEW D, NEW s
  PROVE  FactIn(D, s).snapshot = s /\ FactIn(D, s).file = D.versions[s].file
BY DEF FactIn

\* The ranking of facts is that of the stored versions.
LEMMA FactsRank ==
  ASSUME NEW D, NEW s, NEW E, NEW t
  PROVE  FactOutranks(FactIn(E, t), FactIn(D, s)) <=> KeyLess(RankIn(D, s), RankIn(E, t))
BY FactFields DEF FactOutranks, RankIn

\* Rows that show the latest versions are a right choice among the facts.
LEMMA ChoiceIsRight ==
  ASSUME NEW D, ChoosesLatest(D)
  PROVE  View!Selects(SteadyChoice(D), SteadyFacts(D))
<1> SUFFICES ASSUME NEW l \in SteadyLoads
             PROVE  LET about == {x \in SteadyFacts(D) : FactLoad(x) = l}
                    IN  IF about = {} THEN SteadyChoice(D)[l] = None
                        ELSE /\ SteadyChoice(D)[l] \in about
                             /\ \A x \in about : ~FactOutranks(x, SteadyChoice(D)[l])
  BY DEF View!Selects
<1> DEFINE about == {x \in SteadyFacts(D) : FactLoad(x) = l}
<1>1. about = {FactIn(D, s) : s \in {t \in Stored(D) : LoadOf[t] = l}}
  BY FactFields DEF SteadyFacts, FactLoad
<1> HIDE DEF about
<1>2. CASE D.loads[l] = None
  <2>1. about = {}
    BY <1>1, <1>2 DEF ChoosesLatest
  <2>2. SteadyChoice(D)[l] = None
    BY <1>2 DEF SteadyChoice
  <2>. QED BY <2>1, <2>2 DEF about
<1>3. CASE D.loads[l] # None
  <2>1. /\ D.loads[l].current \in Stored(D) /\ LoadOf[D.loads[l].current] = l
        /\ \A t \in Stored(D) :
             LoadOf[t] = l => ~KeyLess(RankIn(D, D.loads[l].current), RankIn(D, t))
    BY <1>3 DEF ChoosesLatest
  <2>2. SteadyChoice(D)[l] = FactIn(D, D.loads[l].current)
    BY <1>3 DEF SteadyChoice
  <2>3. SteadyChoice(D)[l] \in about
    BY <1>1, <2>1, <2>2
  <2>4. \A x \in about : ~FactOutranks(x, SteadyChoice(D)[l])
    BY <1>1, <2>1, <2>2, FactsRank
  <2>. QED BY <2>3, <2>4 DEF about
<1>. QED BY <1>2, <1>3

\* The committed rows are such rows after every step.
LEMMA RowsChooseLatest ==
  ASSUME RowsInv', SteadyRows'
  PROVE  ChoosesLatest(db')
<1> SUFFICES ASSUME NEW l \in SteadyLoads
             PROVE  /\ db'.loads[l] = None => \A s \in Stored(db') : LoadOf[s] # l
                    /\ db'.loads[l] # None =>
                         /\ db'.loads[l].current \in Stored(db')
                         /\ LoadOf[db'.loads[l].current] = l
                         /\ \A t \in Stored(db') : LoadOf[t] = l =>
                              ~KeyLess(RankIn(db', db'.loads[l].current), RankIn(db', t))
  BY DEF ChoosesLatest
<1>1. \A s \in Stored(db') : db'.loads[LoadOf[s]] # None
  BY DEF RowsInv, Committed
<1>2. ASSUME db'.loads[l] # None, NEW x, x = db'.loads[l].current
      PROVE  /\ x \in Stored(db') /\ LoadOf[x] = l
             /\ \A t \in Stored(db') : LoadOf[t] = l => ~KeyLess(RankIn(db', x), RankIn(db', t))
  <2>1. x \in Unbeaten(l)'
    BY <1>2 DEF SteadyRows, ShowsWhole, SteadyLoads, Steady, TakesTurns, Writers
  <2>. QED BY <2>1 DEF Unbeaten, VersionsOf, TimingOf, RankIn
<1>. QED BY <1>1, <1>2

\* Rows of which versions and steady loads are the same look the same.
LEMMA SameFacts ==
  ASSUME NEW D, NEW E, \A s \in Snapshots : E.versions[s] = D.versions[s],
         \A l \in SteadyLoads : E.loads[l] = D.loads[l],
         \A l \in SteadyLoads : D.loads[l] # None => D.loads[l].current \in Snapshots
  PROVE  SteadyFacts(E) = SteadyFacts(D) /\ SteadyChoice(E) = SteadyChoice(D)
<1>1. \A s \in Snapshots : FactIn(E, s) = FactIn(D, s)
  BY DEF FactIn
<1>2. Stored(E) = Stored(D) /\ Stored(D) \subseteq Snapshots
  BY DEF Stored
<1>. QED BY <1>1, <1>2 DEF SteadyFacts, SteadyChoice

\* Before anything happens nothing is visible.
LEMMA RefineInit == Init => View!Init
<1> SUFFICES ASSUME Init PROVE View!Init
  OBVIOUS
<1>1. /\ \A s \in Snapshots : db.versions[s] = None
      /\ \A l \in SteadyLoads : db.loads[l] = None
  BY DEF Init, NoRows, SteadyLoads
<1>2. SteadyFacts(db) = {} /\ SteadyChoice(db) = [l \in SteadyLoads |-> None]
  BY <1>1 DEF SteadyFacts, SteadyChoice, Stored
<1>. QED BY <1>2 DEF View!Init, SteadyFacts, SteadyChoice, FactIn, FactOf

\* The commit of a call publishes the new facts of its file together.
LEMMA RefineCommit ==
  ASSUME RowsInv, RowsInv', SteadyRows, SteadyRows', NEW p \in Sessions, StepOf(p), Commit(p)
  PROVE  /\ FileOf(p) \in Files
         /\ \A x \in SteadyFacts(db) : FactFile(x) # FileOf(p)
         /\ SteadyFacts(db) \subseteq SteadyFacts(db')
         /\ SteadyFacts(db') \ SteadyFacts(db)
              \subseteq {x \in AllSteadyFacts : FactFile(x) = FileOf(p)}
         /\ View!Selects(SteadyChoice(db'), SteadyFacts(db'))
         /\ \A l \in SteadyLoads :
              \/ SteadyChoice(db')[l] = SteadyChoice(db)[l]
              \/ SteadyChoice(db)[l] = None
              \/ FactOutranks(SteadyChoice(db')[l], SteadyChoice(db)[l])
<1>1. Ingests(p) /\ FileOf(p) \in Files /\ db.files[FileOf(p)] = "ABSENT"
  BY DEF Commit, Runs, Ingests, Writing, RowsInv, Stands
<1>2. PICK f \in Files : f = FileOf(p)
  BY <1>1
<1>3. \A s \in Stored(db) : s \in Stored(db') /\ FactIn(db', s) = FactIn(db, s)
  BY VersionsStand DEF Stored, FactIn
<1>4. ASSUME NEW x \in SteadyFacts(db) PROVE FactFile(x) # f
  <2>1. PICK s \in Stored(db) : x = FactIn(db, s)
    BY DEF SteadyFacts
  <2>. QED BY <1>1, <1>2, <2>1, FactFields DEF FactFile, RowsInv, Committed
<1>5. SteadyFacts(db) \subseteq SteadyFacts(db')
  BY <1>3 DEF SteadyFacts
<1>6. ASSUME NEW x \in SteadyFacts(db') \ SteadyFacts(db)
      PROVE  /\ x \in AllSteadyFacts
             /\ FactFile(x) = f
  <2>1. PICK s \in Stored(db') : x = FactIn(db', s) /\ LoadOf[s] \in SteadyLoads
    BY DEF SteadyFacts
  <2>2. s \in Snapshots /\ s \notin Stored(db)
    BY <1>3, <1>6, <2>1 DEF SteadyFacts, Stored
  <2>3. mine[p].versions[s] # None
    BY <2>1, <2>2, VersionsStand DEF Stored
  <2>4. db'.versions[s] = mine[p].versions[s]
    <3>1. PICK files : files = [db.files EXCEPT ![FileOf(p)] = "COMPLETED"]
                       /\ db' = Published(p, files)
      BY DEF Commit
    <3>2. files \in [Files -> Verdicts]
      BY <1>1, <3>1 DEF RowsInv, Typed, Database, Verdicts
    <3>. QED BY <2>2, <2>3, <3>1, <3>2, PublishedRows DEF RowsInv, Row, Visible
  <2>5. db'.versions[s].file = f
    BY <1>1, <1>2, <2>2, <2>3, <2>4 DEF RowsInv, WrittenFacts
  <2>. QED BY <2>1, <2>2, <2>5 DEF FactIn, FactFile, AllSteadyFacts
<1>7. View!Selects(SteadyChoice(db'), SteadyFacts(db'))
  BY RowsChooseLatest, ChoiceIsRight
<1>8. ASSUME NEW l \in SteadyLoads, SteadyChoice(db)[l] # None
      PROVE  \/ SteadyChoice(db')[l] = SteadyChoice(db)[l]
             \/ FactOutranks(SteadyChoice(db')[l], SteadyChoice(db)[l])
  <2>1. db.loads[l] # None
    BY <1>8 DEF SteadyChoice
  <2>2. PICK s : s = db.loads[l].current
    OBVIOUS
  <2>3. s \in Stored(db) /\ LoadOf[s] = l
    BY <2>1, <2>2 DEF SteadyRows, ShowsWhole, Unbeaten, VersionsOf
  <2>4. s \in Stored(db') /\ FactIn(db', s) = FactIn(db, s) /\ s \in Snapshots
    BY <1>3, <2>3 DEF Stored
  <2>5. db'.loads[l] # None
    BY <2>3, <2>4 DEF RowsInv, Committed
  <2>6. PICK t : t = db'.loads[l].current
    OBVIOUS
  <2>7. /\ t \in Stored(db') /\ t \in Snapshots /\ LoadOf[t] = l
        /\ ~KeyLess(RankIn(db', t), RankIn(db', s))
    BY <2>3, <2>4, <2>5, <2>6, RowsChooseLatest DEF ChoosesLatest, Stored
  <2>8. SteadyChoice(db)[l] = FactIn(db', s) /\ SteadyChoice(db')[l] = FactIn(db', t)
    BY <2>1, <2>2, <2>4, <2>5, <2>6 DEF SteadyChoice
  <2>9. CASE KeyLess(RankIn(db', s), RankIn(db', t))
    BY <2>8, <2>9, FactsRank
  <2>10. CASE ~KeyLess(RankIn(db', s), RankIn(db', t))
    <3>1. PICK g \in Files, h \in Files :
            /\ g = db'.versions[s].file /\ Carries(g, s)
            /\ h = db'.versions[t].file /\ Carries(h, t)
      <4>1. \A u \in Stored(db') :
              db'.versions[u] \in VersionRow /\ Carries(db'.versions[u].file, u)
        BY DEF RowsInv, Typed, Database, Committed, Stored, Carries
      <4>. QED BY <2>4, <2>7, <4>1 DEF VersionRow
    <3>2. s = t
      BY <2>3, <2>4, <2>7, <2>10, <3>1, NoTies DEF RankIn
    <3>. QED BY <2>8, <3>2
  <2>. QED BY <2>9, <2>10
<1>. QED BY <1>1, <1>2, <1>4, <1>5, <1>6, <1>7, <1>8

\* Every other step is a stutter of the view.
LEMMA RefineStep ==
  RowsInv /\ SteadyInv /\ RowsInv' /\ SteadyInv' /\ [Next]_vars => [View!Next]_(View!vars)
<1> SUFFICES ASSUME RowsInv, SteadyInv, RowsInv', SteadyInv', [Next]_vars
             PROVE  [View!Next]_(View!vars)
  OBVIOUS
<1>1. CASE UNCHANGED <<SteadyFacts(db), SteadyChoice(db)>>
  BY <1>1 DEF View!vars, SteadyFacts, SteadyChoice, FactIn, FactOf
<1>2. CASE db' = db
  BY <1>1, <1>2 DEF SteadyFacts, SteadyChoice
<1>3. ASSUME \A s \in Snapshots : db'.versions[s] = db.versions[s],
             \A l \in SteadyLoads : db'.loads[l] = db.loads[l]
      PROVE  UNCHANGED <<SteadyFacts(db), SteadyChoice(db)>>
  <2>1. \A l \in SteadyLoads : db.loads[l] # None => db.loads[l].current \in Snapshots
    BY DEF SteadyInv, SteadyRows, ShowsWhole, Unbeaten, VersionsOf, Stored
  <2>. QED BY <1>3, <2>1, SameFacts
<1>4. ASSUME NEW p \in Sessions, StepOf(p) PROVE [View!Next]_(View!vars)
  <2>1. CASE RecordFailure(p)
    <3>1. db'.versions = db.versions /\ db'.loads = db.loads
      BY <2>1 DEF RecordFailure, RowsInv, Typed, Database
    <3>. QED BY <1>1, <1>3, <3>1
  <2>2. CASE CommitRebuild(p)
    <3>1. Rebuilds(p)
      BY <2>2 DEF CommitRebuild, Rebuilds, Rebuilding
    <3>2. \A s \in Snapshots : db'.versions[s] = db.versions[s]
      BY <1>4, <3>1, VersionsStand DEF RowsInv, Rebuilt, NoRows
    <3>3. \A l \in SteadyLoads : db'.loads[l] = db.loads[l]
      BY <1>4, <3>1, LoadsStand DEF SteadyInv, SparesSteady, SteadyLoads
    <3>. QED BY <1>1, <1>3, <3>2, <3>3
  <2>3. CASE Commit(p)
    <3>1. PICK b \in Files : b = FileOf(p)
      BY <1>4, <2>3, RefineCommit DEF SteadyInv
    <3>2. View!Publish(b)
      BY <1>4, <2>3, <3>1, RefineCommit
         DEF SteadyInv, View!Publish, SteadyFacts, SteadyChoice, FactIn, FactOf, AllSteadyFacts
    <3>3. View!Next
      BY <3>2 DEF View!Next
    <3>. QED BY <3>3
  <2>. QED BY <1>2, <1>4, <2>1, <2>2, <2>3, StatementFacts
<1>5. Next => \E p \in Sessions : StepOf(p)
  BY DEF Next, StepOf
<1>6. UNCHANGED vars => db' = db
  BY DEF vars
<1>. QED BY <1>2, <1>4, <1>5, <1>6

\* ImplementsCurrentView: whatever the sessions do, readers of the steady loads
\* see what one session would have made: files appear whole, and each load
\* moves only to a version that outranks the one it showed.
THEOREM ConcurrentRefinement == Spec => ImplementsCurrentView
<1>1. Init => View!Init
  BY RefineInit
<1>2. RowsInv /\ SteadyInv /\ RowsInv' /\ SteadyInv' /\ [Next]_vars => [View!Next]_(View!vars)
  BY RefineStep
<1>. QED BY <1>1, <1>2, SteadyInvariant, PTL DEF Spec, ImplementsCurrentView, View!Spec
=============================================================================
