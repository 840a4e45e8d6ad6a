---------------------------- MODULE PipelineProofs ----------------------------
(***************************************************************************)
(* Proofs about SyncPipeline: for any damage, any points at which commands *)
(* are killed and any number of runs, what the database holds is always a  *)
(* first part of the global order of the files.                            *)
(*                                                                         *)
(* The property is about rows, but two commands make it true.  generate    *)
(* must leave a first part of the order on disk whenever it is killed, or  *)
(* ingest-all would deliver across the gap; and while ingest-all runs,     *)
(* what is on disk and no longer before it must be delivered.  Those are   *)
(* the conjuncts of the inductive invariant.                               *)
(***************************************************************************)
EXTENDS SyncPipeline, WellFoundedInduction, TLAPS

-----------------------------------------------------------------------------
(* The global order of the files. *)

\* A file's place in the order of build_schedule, as a number.
Place(f) == 3 * f[1] + SourceRank[f[2]]

\* Sync time and source name order the files like their places.
LEMMA BeforeIsByPlace ==
  ASSUME NEW f \in Files, NEW g \in Files
  PROVE  /\ Place(f) \in Nat
         /\ Before(f, g) <=> Place(f) < Place(g)
         /\ Place(f) = Place(g) => f = g
<1>1. /\ f = <<f[1], f[2]>> /\ f[1] \in 0..40 /\ f[2] \in Sources
      /\ g = <<g[1], g[2]>> /\ g[1] \in 0..40 /\ g[2] \in Sources
  BY DEF Files, Ticks, DAY11
<1>2. \A s \in Sources : SourceRank[s] \in 1..3
  BY DEF Sources, SourceRank
<1>3. \A s, t \in Sources : SourceRank[s] = SourceRank[t] => s = t
  BY DEF Sources, SourceRank
<1>4. SyncAt(f[1]) < SyncAt(g[1]) <=> f[1] < g[1]
  BY <1>1 DEF SyncAt, DAY11, SlotHours
<1>5. SourceRank[f[2]] \in 1..3 /\ SourceRank[g[2]] \in 1..3
  BY <1>1, <1>2
<1>6. PICK a, b, r, s \in Int :
        /\ a = f[1] /\ b = g[1] /\ a \in 0..40 /\ b \in 0..40
        /\ r = SourceRank[f[2]] /\ s = SourceRank[g[2]] /\ r \in 1..3 /\ s \in 1..3
  BY <1>1, <1>5
<1>7. Place(f) \in Nat /\ (Before(f, g) <=> Place(f) < Place(g))
  <2>1. Before(f, g) <=> a < b \/ (a = b /\ r < s)
    BY <1>4, <1>6 DEF Before
  <2>2. Place(f) = 3 * a + r /\ Place(g) = 3 * b + s
    BY <1>6 DEF Place
  <2>3. 3 * a + r < 3 * b + s <=> a < b \/ (a = b /\ r < s)
    <3>1. a \in Int /\ b \in Int /\ r \in 1..3 /\ s \in 1..3
      BY <1>6
    <3>. QED BY ONLY <3>1
  <2>4. 3 * a + r \in Nat
    BY <1>6
  <2>. QED BY <2>1, <2>2, <2>3, <2>4
<1>8. ASSUME Place(f) = Place(g) PROVE f = g
  <2>1. f[1] = g[1] /\ SourceRank[f[2]] = SourceRank[g[2]]
    BY <1>1, <1>5, <1>8 DEF Place
  <2>. QED BY <1>1, <1>3, <2>1
<1>. QED BY <1>7, <1>8

\* Any files that are left have a first one, which is before the others.
LEMMA FirstIsFirst ==
  ASSUME NEW S \in SUBSET Files, S # {}
  PROVE  First(S) \in S /\ \A g \in S \ {First(S)} : Before(First(S), g)
<1> DEFINE R == {ss \in Nat \X Nat : ss[1] < ss[2]}
           P == {Place(f) : f \in S}
<1>1. IsWellFoundedOn(R, Nat)
  BY NatLessThanWellFounded DEF OpToRel
<1>2. P \in SUBSET Nat /\ P # {}
  BY BeforeIsByPlace
<1>3. \A x, y \in P : <<y, x>> \in R <=> y < x
  BY <1>2
<1> HIDE DEF R, P
<1>4. PICK x \in P : \A y \in P : ~ (<<y, x>> \in R)
  BY <1>1, <1>2, WFMin
<1>5. PICK f \in S : x = Place(f)
  BY <1>4 DEF P
<1>6. ASSUME NEW g \in S \ {f} PROVE Before(f, g)
  <2>1. Place(g) \in P
    BY DEF P
  <2>2. ~(Place(g) < Place(f))
    BY <1>3, <1>4, <1>5, <2>1
  <2>. QED BY <2>2, BeforeIsByPlace
<1>. QED BY <1>6 DEF First

\* A set of files with every file that comes before one of its members.
IsFirstPart(S) == \A f \in S : \A g \in Files : Before(g, f) => g \in S

\* A first part with the first file that it lacks is a first part.
LEMMA FirstPartGrows ==
  ASSUME NEW S \in SUBSET Files, NEW f \in Files, IsFirstPart(S),
         \A g \in Files : Before(g, f) => g \in S
  PROVE  IsFirstPart(S \cup {f})
BY DEF IsFirstPart

\* Of the files that are left, none comes before the first.
LEMMA NoneBeforeFirst ==
  ASSUME NEW S \in SUBSET Files, S # {}, NEW g \in Files, Before(g, First(S))
  PROVE  g \notin S
<1>1. First(S) \in S /\ \A h \in S \ {First(S)} : Before(First(S), h)
  BY FirstIsFirst
<1>2. SUFFICES ASSUME g \in S PROVE FALSE
  OBVIOUS
<1>3. First(S) \in Files
  BY <1>1
<1>4. Place(g) < Place(First(S)) /\ Place(g) \in Nat /\ Place(First(S)) \in Nat
  BY <1>3, BeforeIsByPlace
<1>5. g # First(S)
  BY <1>4
<1>6. Before(First(S), g)
  BY <1>1, <1>2, <1>5
<1>7. Place(First(S)) < Place(g)
  BY <1>3, <1>6, BeforeIsByPlace
<1>. QED BY <1>4, <1>7

-----------------------------------------------------------------------------
(* The inductive invariant. *)

\* The files on disk.
Present == {f \in Files : disk[f] # None}

RowType ==
  [file: Files, content: Contents, status: {"COMPLETED", "FAILED"}, vouched: BOOLEAN]

\* The part of the types that the order of the files depends on.
Typed ==
  /\ disk \in [Files -> Contents \cup {None}]
  /\ manifest \in {"absent", "torn", "whole"}
  /\ command \in [name: {"idle", "generate", "manifest", "ingest"}, todo: SUBSET Files]
  /\ rows \subseteq RowType
  /\ report \in {"none", "accepted", "refused"}

\* generate: what it need no longer write is on disk.
WrittenIsPresent ==
  command.name = "generate" => Files \ command.todo \subseteq Present

\* ingest-all: what is still to come is on disk, the rest of the disk delivered.
HandledIsDelivered ==
  command.name = "ingest" =>
    command.todo \subseteq Present /\ Present \ command.todo \subseteq Delivered

PipelineInv ==
  /\ Typed
  /\ IsFirstPart(Present)
  /\ WrittenIsPresent
  /\ HandledIsDelivered
  /\ Delivered \subseteq Files
  /\ IsFirstPart(Delivered)

\* Nothing is on disk or in the database at first.
LEMMA PipelineInvInit == Init => PipelineInv
<1> SUFFICES ASSUME Init PROVE PipelineInv
  OBVIOUS
<1>1. Typed
  BY DEF Init, Typed, Idle
<1>2. Present = {} /\ Delivered = {}
  BY DEF Init, Present, Delivered, Completed
<1>. QED BY <1>1, <1>2 DEF Init, Idle, PipelineInv, IsFirstPart, WrittenIsPresent,
              HandledIsDelivered

\* generate writes the first file that is left: all before it are there.
LEMMA GenerateKeeps ==
  ASSUME PipelineInv, StartGenerate \/ WriteFile \/ OpenManifest \/ WriteManifest
  PROVE  PipelineInv'
<1> USE DEF PipelineInv
<1>1. CASE StartGenerate
  <2>1. Typed' /\ Present' = Present /\ Delivered' = Delivered
    BY <1>1 DEF StartGenerate, Typed, Present, Delivered, Completed, db
  <2>2. WrittenIsPresent' /\ HandledIsDelivered'
    BY <1>1 DEF StartGenerate, WrittenIsPresent, HandledIsDelivered
  <2>. QED BY <2>1, <2>2 DEF IsFirstPart
<1>2. CASE WriteFile
  <2>1. command.todo \in SUBSET Files /\ command.todo # {}
    BY <1>2 DEF WriteFile, Typed
  <2>2. PICK f : f = First(command.todo)
    OBVIOUS
  <2>3. f \in command.todo /\ f \in Files
    BY <2>1, <2>2, FirstIsFirst
  <2>4. /\ disk' = [disk EXCEPT ![f] = "intact"]
        /\ command' = [command EXCEPT !.todo = @ \ {f}]
        /\ rows' = rows /\ manifest' = manifest /\ report' = "none"
    BY <1>2, <2>2 DEF WriteFile, db
  <2>5. "intact" \in Contents /\ "intact" # None
    BY NoneAssumption DEF Contents
  <2>6. Typed'
    BY <2>4, <2>5 DEF Typed
  <2>7. Present' = Present \cup {f}
    BY <2>3, <2>4, <2>5 DEF Present, Typed
  <2>8. Delivered' = Delivered
    BY <2>4 DEF Delivered, Completed
  <2>9. \A g \in Files : Before(g, f) => g \in Present
    BY <1>2, <2>1, <2>2, NoneBeforeFirst DEF WriteFile, WrittenIsPresent
  <2>10. IsFirstPart(Present')
    BY <2>3, <2>7, <2>9, FirstPartGrows DEF Present
  <2>11. command'.name = "generate" /\ command'.todo = command.todo \ {f}
    BY <1>2, <2>4 DEF WriteFile, Typed
  <2>12. WrittenIsPresent' /\ HandledIsDelivered'
    BY <1>2, <2>7, <2>11 DEF WriteFile, WrittenIsPresent, HandledIsDelivered
  <2>. QED BY <2>6, <2>8, <2>10, <2>12 DEF IsFirstPart
<1>3. CASE OpenManifest
  <2>1. Typed' /\ Present' = Present /\ Delivered' = Delivered
    BY <1>3 DEF OpenManifest, Typed, Present, Delivered, Completed, db
  <2>2. WrittenIsPresent' /\ HandledIsDelivered'
    BY <1>3 DEF OpenManifest, WrittenIsPresent, HandledIsDelivered
  <2>. QED BY <2>1, <2>2 DEF IsFirstPart
<1>4. CASE WriteManifest
  <2>1. Typed' /\ Present' = Present /\ Delivered' = Delivered
    BY <1>4 DEF WriteManifest, Idle, Typed, Present, Delivered, Completed, db
  <2>2. WrittenIsPresent' /\ HandledIsDelivered'
    BY <1>4 DEF WriteManifest, Idle, WrittenIsPresent, HandledIsDelivered
  <2>. QED BY <2>1, <2>2 DEF IsFirstPart
<1>. QED BY <1>1, <1>2, <1>3, <1>4

\* validate-data only reads, and a kill ends the command where it is.
LEMMA ReadOnlyKeeps ==
  ASSUME PipelineInv, Validate \/ KillCommand \/ EndIngest
  PROVE  PipelineInv'
<1> USE DEF PipelineInv
<1>1. CASE Validate
  <2>1. Typed' /\ Present' = Present /\ Delivered' = Delivered /\ command' = command
    BY <1>1 DEF Validate, Typed, Present, Delivered, Completed, db
  <2>. QED BY <2>1 DEF IsFirstPart, WrittenIsPresent, HandledIsDelivered
<1>2. CASE KillCommand \/ EndIngest
  <2>1. Typed' /\ Present' = Present /\ Delivered' = Delivered /\ command' = Idle
    BY <1>2 DEF KillCommand, EndIngest, Idle, Typed, Present, Delivered, Completed, db
  <2>. QED BY <2>1 DEF Idle, IsFirstPart, WrittenIsPresent, HandledIsDelivered
<1>. QED BY <1>1, <1>2

\* Damage changes what a file holds, not which files there are.
LEMMA DamageKeeps == PipelineInv /\ DamageFile => PipelineInv'
<1> SUFFICES ASSUME PipelineInv, DamageFile PROVE PipelineInv'
  OBVIOUS
<1> USE DEF PipelineInv
<1>1. PICK d \in Spots : disk[d[1]] = "intact" /\ disk' = [disk EXCEPT ![d[1]] = d[2]]
  BY DEF DamageFile
<1>2. d[1] \in Files /\ d[2] \in Contents
  BY ParametersAssumption DEF Contents
<1>3. Typed'
  BY <1>1, <1>2 DEF DamageFile, Typed, db
<1>4. Present' = Present
  BY <1>1, <1>2, NoneAssumption DEF Present, Typed, Contents
<1>5. Delivered' = Delivered /\ command' = command
  BY DEF DamageFile, Delivered, Completed, db
<1>. QED BY <1>3, <1>4, <1>5 DEF IsFirstPart, WrittenIsPresent, HandledIsDelivered

\* ingest-all starts with all that is on disk.
LEMMA StartIngestKeeps == PipelineInv /\ StartIngestAll => PipelineInv'
<1> SUFFICES ASSUME PipelineInv, StartIngestAll PROVE PipelineInv'
  OBVIOUS
<1> USE DEF PipelineInv
<1>1. command' = [name |-> "ingest", todo |-> Present]
  BY DEF StartIngestAll, Present
<1>2. Typed' /\ Present' = Present /\ Delivered' = Delivered
  BY <1>1 DEF StartIngestAll, Typed, Present, Delivered, Completed, db
<1>. QED BY <1>1, <1>2 DEF IsFirstPart, WrittenIsPresent, HandledIsDelivered

\* What became of the file whose turn it is: it is in the database, or the run
\* ends without it.
LEMMA TakeFileOutcome ==
  ASSUME PipelineInv, TakeFile
  PROVE  \E f \in command.todo :
           /\ f = First(command.todo)
           /\ UNCHANGED <<disk, manifest, report>>
           /\ rows' \subseteq RowType
           /\ \/ /\ command' = [command EXCEPT !.todo = @ \ {f}]
                 /\ Delivered' = Delivered \cup {f}
              \/ command' = Idle /\ Delivered' = Delivered
<1>1. command.todo \in SUBSET Files /\ command.todo # {} /\ command.todo \subseteq Present
  BY DEF PipelineInv, Typed, TakeFile, HandledIsDelivered
<1>2. PICK f : f = First(command.todo)
  OBVIOUS
<1>3. f \in command.todo /\ f \in Files /\ disk[f] \in Contents
  BY <1>1, <1>2, FirstIsFirst DEF Present, PipelineInv, Typed
<1>4. UNCHANGED <<disk, manifest, report>>
  BY DEF TakeFile
<1>5. rows \subseteq RowType
  BY DEF PipelineInv, Typed
<1>6. CASE \E r \in rows : r.file = f /\ r.content = disk[f] /\ r.status = "COMPLETED"
  <2>1. SkipFile(f)
    BY <1>2, <1>6 DEF TakeFile
  <2>2. f \in Delivered
    BY <1>6 DEF Delivered, Completed
  <2>3. Delivered' = Delivered
    BY <2>1 DEF SkipFile, Delivered, Completed, db
  <2>4. rows' = rows /\ command' = [command EXCEPT !.todo = @ \ {f}]
    BY <2>1 DEF SkipFile, db
  <2>. QED BY <1>2, <1>3, <1>4, <1>5, <2>2, <2>3, <2>4
<1>7. CASE ~\E r \in rows : r.file = f /\ r.content = disk[f] /\ r.status = "COMPLETED"
  <2>1. PICK reading : IngestFile(f, reading) \/ RejectFile(f, reading)
    BY <1>2, <1>7 DEF TakeFile
  <2>2. CASE IngestFile(f, reading)
    <3>1. PICK row : /\ row = [file |-> f, content |-> disk[f], status |-> "COMPLETED",
                               vouched |-> report = "accepted"]
                     /\ rows' = rows \cup {row}
                     /\ command' = [command EXCEPT !.todo = @ \ {f}]
      BY <2>2 DEF IngestFile
    <3>2. row \in RowType /\ row.file = f /\ row.status = "COMPLETED"
      BY <1>3, <3>1 DEF RowType
    <3>3. Delivered' = Delivered \cup {f}
      BY <3>1, <3>2 DEF Delivered, Completed
    <3>. QED BY <1>2, <1>3, <1>4, <1>5, <3>1, <3>2, <3>3
  <2>3. CASE RejectFile(f, reading)
    <3>1. PICK row : /\ row = [file |-> f, content |-> disk[f], status |-> "FAILED",
                               vouched |-> report = "accepted"]
                     /\ rows' = rows \/ rows' = rows \cup {row}
                     /\ command' = Idle
      BY <2>3 DEF RejectFile
    <3>2. row \in RowType /\ row.status # "COMPLETED"
      BY <1>3, <3>1 DEF RowType
    <3>3. Delivered' = Delivered
      BY <3>1, <3>2 DEF Delivered, Completed
    <3>. QED BY <1>2, <1>3, <1>4, <1>5, <3>1, <3>2, <3>3
  <2>. QED BY <2>1, <2>2, <2>3
<1>. QED BY <1>6, <1>7

\* The file that is delivered next has all the files before it on disk, and
\* none of those is still to come.
LEMMA TakeFileKeeps == PipelineInv /\ TakeFile => PipelineInv'
<1> SUFFICES ASSUME PipelineInv, TakeFile PROVE PipelineInv'
  OBVIOUS
<1>1. PICK f \in command.todo :
        /\ f = First(command.todo)
        /\ UNCHANGED <<disk, manifest, report>>
        /\ rows' \subseteq RowType
        /\ \/ /\ command' = [command EXCEPT !.todo = @ \ {f}]
              /\ Delivered' = Delivered \cup {f}
           \/ command' = Idle /\ Delivered' = Delivered
  BY TakeFileOutcome
<1>2. command.todo \in SUBSET Files /\ command.todo # {} /\ command.name = "ingest"
  BY DEF PipelineInv, Typed, TakeFile
<1>3. Present' = Present
  BY <1>1 DEF Present
<1>4. Typed'
  BY <1>1 DEF PipelineInv, Typed, Idle
<1>5. CASE command' = [command EXCEPT !.todo = @ \ {f}] /\ Delivered' = Delivered \cup {f}
  <2>1. command'.name = "ingest" /\ command'.todo = command.todo \ {f}
    BY <1>2, <1>5 DEF PipelineInv, Typed
  <2>2. f \in Present /\ Present \ command.todo \subseteq Delivered
    BY <1>2 DEF PipelineInv, HandledIsDelivered
  <2>3. \A g \in Files : Before(g, f) => g \in Delivered
    BY <1>1, <1>2, <2>2, NoneBeforeFirst DEF PipelineInv, IsFirstPart
  <2>4. IsFirstPart(Delivered')
    BY <1>2, <1>5, <2>3, FirstPartGrows DEF PipelineInv
  <2>5. WrittenIsPresent' /\ HandledIsDelivered'
    BY <1>2, <1>3, <1>5, <2>1 DEF PipelineInv, WrittenIsPresent, HandledIsDelivered
  <2>. QED BY <1>2, <1>3, <1>4, <1>5, <2>4, <2>5 DEF PipelineInv, IsFirstPart
<1>6. CASE command' = Idle /\ Delivered' = Delivered
  <2>1. WrittenIsPresent' /\ HandledIsDelivered'
    BY <1>6 DEF Idle, WrittenIsPresent, HandledIsDelivered
  <2>. QED BY <1>3, <1>4, <1>6, <2>1 DEF PipelineInv, IsFirstPart
<1>. QED BY <1>1, <1>5, <1>6

\* Every step keeps the invariant.
LEMMA PipelineInvNext == PipelineInv /\ [Next]_vars => PipelineInv'
<1>1. ASSUME PipelineInv, UNCHANGED vars PROVE PipelineInv'
  BY <1>1 DEF vars, db, PipelineInv, Typed, IsFirstPart, WrittenIsPresent,
              HandledIsDelivered, Present, Delivered, Completed
<1>. QED BY <1>1, GenerateKeeps, ReadOnlyKeeps, DamageKeeps, StartIngestKeeps, TakeFileKeeps
         DEF Next

-----------------------------------------------------------------------------
(* The theorems. *)

\* Whatever is killed and damaged, generate leaves a first part of the order on
\* disk and ingest-all one in the database, and both know what is left to do.
THEOREM PipelineInvariant == Spec => []PipelineInv
BY PipelineInvInit, PipelineInvNext, PTL DEF Spec

\* ingest-all: the files in the database are the first ones of the global order
\* of build_schedule, none left out, for any damage, kills and runs.
THEOREM DeliveryHasNoGaps == Spec => []DeliveredIsAPrefix
<1>1. ASSUME PipelineInv PROVE DeliveredIsAPrefix
  <2> DEFINE missing == Files \ Delivered
  <2>1. SUFFICES ASSUME missing # {}, NEW f \in Delivered, Before(First(missing), f)
                 PROVE  FALSE
    BY DEF DeliveredIsAPrefix
  <2>2. First(missing) \in missing
    BY <2>1, FirstIsFirst
  <2>3. First(missing) \in Files /\ First(missing) \notin Delivered
    BY <2>2
  <2>. QED BY <1>1, <2>1, <2>3 DEF PipelineInv, IsFirstPart
<1>. QED BY <1>1, PipelineInvariant, PTL
-----------------------------------------------------------------------------
(* What the files and the tables hold. *)

\* What a file may hold when it is on disk: what the generator wrote, or damage
\* that may be done to it.
MayHold(f, content) == content = "intact" \/ <<f, content>> \in Spots

\* Every content that a file may have has a reading.
LEMMA ContentIsRead ==
  ASSUME NEW f \in Files, NEW c \in Contents, MayHold(f, c)
  PROVE  ReadingOf(f, c) \in Readings
<1> DEFINE w == [file |-> f, text |-> SerializeSync(f)]
           d == [file |-> w.file, content |-> c,
                 text |-> Damaged(w.file[2], w.text, c), ok |-> TRUE]
           e == [d EXCEPT !.ok = d.content # "broken" /\ Adapter!Parses(d.file[2], d.text)]
           r == [file |-> e.file, content |-> e.content, ok |-> e.ok, raw |-> e.text.loads,
                 sync |-> IF e.ok THEN Adapter!Normalize(e.file[2], e.text) ELSE None]
           Dirty(v) ==
             {[file |-> v.file, content |-> k, text |-> Damaged(v.file[2], v.text, k),
               ok |-> TRUE] :
                k \in {k \in Contents : k = "intact" \/ <<v.file, k>> \in Spots}}
           All == UNION {Dirty(v) : v \in Written}
<1>1. w \in Written /\ w.file = f
  BY DEF Written
<1>2. c \in {k \in Contents : k = "intact" \/ <<w.file, k>> \in Spots}
  BY <1>1 DEF MayHold
<1>3. d \in All
  <2> HIDE DEF w
  <2>1. d \in Dirty(w)
    BY <1>2
  <2> HIDE DEF d, Dirty
  <2>. QED BY <1>1, <2>1
<1>4. r \in Readings
  <2>1. Readings =
          {[file |-> x.file, content |-> x.content, ok |-> x.ok, raw |-> x.text.loads,
            sync |-> IF x.ok THEN Adapter!Normalize(x.file[2], x.text) ELSE None] :
             x \in {[y EXCEPT !.ok = y.content # "broken"
                                     /\ Adapter!Parses(y.file[2], y.text)] : y \in All}}
    BY DEF Readings
  <2> HIDE DEF All, d
  <2>2. e \in {[y EXCEPT !.ok = y.content # "broken"
                                /\ Adapter!Parses(y.file[2], y.text)] : y \in All}
    BY <1>3
  <2> HIDE DEF e
  <2>. QED BY <2>1, <2>2
<1>5. r.file = f /\ r.content = c
  BY <1>1
<1> HIDE DEF r
<1>. QED BY <1>4, <1>5 DEF ReadingOf

\* Every rate row in the text of a HaulDesk file has an id, damaged or not.
LEMMA RatesHaveIds ==
  ASSUME NEW f \in Files, f[2] = "HAULDESK", NEW c
  PROVE  \A r \in Damaged("HAULDESK", SerializeSync(f), c).rates : "id" \in DOMAIN r
<1> DEFINE text == SerializeSync(f)
           more == [id |-> <<RatedLoad(c), Added>>, load |-> RatedLoad(c), amount |-> 100,
                    created |-> 0]
<1>1. text.rates = HaulDeskRates(f[1])
  BY DEF SerializeSync, HaulDeskFile
<1>2. text = [text EXCEPT !.synced_at = @] /\ "rates" \in DOMAIN text
  BY DEF SerializeSync, HaulDeskFile
<1> HIDE DEF text
<1>3. \/ Damaged("HAULDESK", text, c).rates = text.rates
      \/ Damaged("HAULDESK", text, c).rates = text.rates \cup {more}
      \/ Damaged("HAULDESK", text, c).rates =
           text.rates \cup {[rate EXCEPT !.amount = @ + 1] : rate \in text.rates}
  BY <1>2 DEF Damaged, AddedRate
<1>4. \A r \in HaulDeskRates(f[1]) : "id" \in DOMAIN r
  BY DEF HaulDeskRates
<1>5. "id" \in DOMAIN more
  OBVIOUS
<1>6. \A rate \in text.rates : "id" \in DOMAIN [rate EXCEPT !.amount = @ + 1]
  BY <1>1, <1>4
<1> HIDE DEF more
<1>. QED BY <1>1, <1>3, <1>4, <1>5, <1>6 DEF text

\* What an adapter makes of a file that parses names a ledger entry once.
LEMMA EntriesAreDistinct ==
  ASSUME NEW reading \in Readings, reading.ok
  PROVE  \A d, e \in reading.sync.entries : d.id = e.id => d = e
<1>1. PICK f \in Files, c \in Contents :
        LET text == Damaged(f[2], SerializeSync(f), c)
        IN  Adapter!Parses(f[2], text) /\ reading.sync = Adapter!Normalize(f[2], text)
  <2>1. PICK w \in Written, c \in Contents :
          /\ Adapter!Parses(w.file[2], Damaged(w.file[2], w.text, c))
          /\ reading.sync = Adapter!Normalize(w.file[2], Damaged(w.file[2], w.text, c))
    <3> DEFINE Dirty(v) ==
                 {[file |-> v.file, content |-> k, text |-> Damaged(v.file[2], v.text, k),
                   ok |-> TRUE] :
                    k \in {k \in Contents : k = "intact" \/ <<v.file, k>> \in Spots}}
               Judged(y) ==
                 [y EXCEPT !.ok = y.content # "broken" /\ Adapter!Parses(y.file[2], y.text)]
               Read(x) ==
                 [file |-> x.file, content |-> x.content, ok |-> x.ok, raw |-> x.text.loads,
                  sync |-> IF x.ok THEN Adapter!Normalize(x.file[2], x.text) ELSE None]
    <3>1. Readings =
            {Read(x) : x \in {Judged(y) : y \in UNION {Dirty(v) : v \in Written}}}
      BY DEF Readings
    <3> HIDE DEF Dirty, Judged, Read
    <3>2. PICK w \in Written : \E y \in Dirty(w) : reading = Read(Judged(y))
      BY <3>1
    <3>3. PICK y \in Dirty(w) : reading = Read(Judged(y))
      BY <3>2
    <3>4. PICK c \in Contents :
            y = [file |-> w.file, content |-> c, text |-> Damaged(w.file[2], w.text, c),
                 ok |-> TRUE]
      BY DEF Dirty
    <3>5. PICK x : x = Judged(y)
      OBVIOUS
    <3>6. /\ x.file = w.file /\ x.text = Damaged(w.file[2], w.text, c)
          /\ x.ok => Adapter!Parses(x.file[2], x.text)
      BY <3>4, <3>5 DEF Judged
    <3>7. /\ reading.ok = x.ok
          /\ reading.sync = IF x.ok THEN Adapter!Normalize(x.file[2], x.text) ELSE None
      BY <3>3, <3>5 DEF Read
    <3>. QED BY <3>6, <3>7
  <2>2. PICK f \in Files : w = [file |-> f, text |-> SerializeSync(f)]
    BY DEF Written
  <2>. QED BY <2>1, <2>2
<1>2. PICK text : /\ text = Damaged(f[2], SerializeSync(f), c)
                  /\ Adapter!Parses(f[2], text)
                  /\ reading.sync = Adapter!Normalize(f[2], text)
  BY <1>1
<1>3. f[2] \in Sources
  BY DEF Files
<1>4. CASE f[2] = "HAULDESK"
  <2>1. reading.sync.entries = {[r EXCEPT !.created = Adapter!FromNaive(@)] : r \in text.rates}
    BY <1>2, <1>4 DEF Adapter!Normalize, Adapter!HaulDeskNormalize
  <2>2. \A r, q \in text.rates : "id" \in DOMAIN r /\ (r.id = q.id => r = q)
    BY <1>2, <1>4, RatesHaveIds DEF Adapter!Parses, Adapter!HaulDeskParses
  <2>3. ASSUME NEW d \in reading.sync.entries, NEW e \in reading.sync.entries, d.id = e.id
        PROVE  d = e
    <3>1. PICK r \in text.rates : d = [r EXCEPT !.created = Adapter!FromNaive(@)]
      BY <2>1
    <3>2. PICK q \in text.rates : e = [q EXCEPT !.created = Adapter!FromNaive(@)]
      BY <2>1
    <3>3. "id" \in DOMAIN r /\ "id" \in DOMAIN q
      BY <2>2
    <3>4. d.id = r.id
      BY <3>1, <3>3
    <3>5. e.id = q.id
      BY <3>2, <3>3
    <3>6. r = q
      BY <2>2, <2>3, <3>4, <3>5
    <3>. QED BY <3>1, <3>2, <3>6
  <2>. QED BY <2>3
<1>5. CASE f[2] = "FREIGHTFLOW"
  <2>1. reading.sync = Adapter!FreightFlowNormalize(text)
    BY <1>2, <1>5 DEF Adapter!Normalize
  <2>2. PICK at, loads, warnings :
          Adapter!FreightFlowNormalize(text) =
            [sync_at |-> at, loads |-> loads, entries |-> {}, warnings |-> warnings]
    BY Zenon DEF Adapter!FreightFlowNormalize
  <2>. QED BY <2>1, <2>2
<1>6. CASE f[2] = "BROKEROS"
  <2>1. reading.sync = Adapter!BrokerOSNormalize(text)
    BY <1>2, <1>6 DEF Adapter!Normalize
  <2>. QED BY <2>1 DEF Adapter!BrokerOSNormalize
<1>. QED BY <1>3, <1>4, <1>5, <1>6 DEF Sources

-----------------------------------------------------------------------------
(* The loads and the ledger. *)

\* What the types ask of the contents, the loads and the ledger.
TablesInv ==
  /\ \A f \in Files : disk[f] # None => MayHold(f, disk[f])
  /\ \A l \in LoadIds : current[l] # None => current[l] \in versions /\ current[l].body.load = l
  /\ \A r, q \in ledger : r.id = q.id => r = q

\* The tables are empty at first.
LEMMA TablesInvInit == Init => TablesInv
BY DEF Init, TablesInv

\* A sync adds no second row under a rate id.
LEMMA LedgerStaysUnique ==
  ASSUME NEW reading \in Readings, reading.ok, TablesInv
  PROVE  \A r, q \in LedgerWith(reading.sync) : r.id = q.id => r = q
<1> DEFINE Row(e) == [id |-> e.id, load |-> e.load, amount |-> e.amount,
                      observed |-> reading.sync.sync_at]
           added == {e \in reading.sync.entries : \A r \in ledger : r.id # e.id}
<1>1. LedgerWith(reading.sync) = ledger \cup {Row(e) : e \in added}
  BY DEF LedgerWith
<1>2. \A d, e \in reading.sync.entries : d.id = e.id => d = e
  BY EntriesAreDistinct
<1>3. \A e \in added : /\ Row(e).id = e.id /\ e \in reading.sync.entries
                      /\ \A r \in ledger : r.id # e.id
  OBVIOUS
<1>4. \A r, q \in ledger : r.id = q.id => r = q
  BY DEF TablesInv
<1> HIDE DEF Row, added
<1>. QED BY <1>1, <1>2, <1>3, <1>4

\* A file that is ingested gives each load it wins one of its new versions, and
\* a file that is skipped or refused touches no table.
LEMMA TakeFileKeepsTables ==
  ASSUME PipelineInv, TablesInv, TakeFile
  PROVE  TablesInv'
<1>1. disk' = disk
  BY DEF TakeFile
<1>2. PICK f : f = First(command.todo)
  OBVIOUS
<1>3. f \in Files /\ disk[f] \in Contents /\ MayHold(f, disk[f])
  <2>1. command.todo \in SUBSET Files /\ command.todo # {} /\ command.todo \subseteq Present
    BY DEF PipelineInv, Typed, TakeFile, HandledIsDelivered
  <2>2. f \in command.todo
    BY <1>2, <2>1, FirstIsFirst
  <2>. QED BY <2>1, <2>2 DEF Present, PipelineInv, Typed, TablesInv
<1>4. ASSUME UNCHANGED <<versions, current, ledger>> PROVE TablesInv'
  BY <1>1, <1>4 DEF TablesInv, MayHold
<1>5. CASE SkipFile(f)
  BY <1>4, <1>5 DEF SkipFile, db
<1>6. ASSUME NEW reading, reading = ReadingOf(f, disk[f]), IngestFile(f, reading)
      PROVE  TablesInv'
  <2>1. reading \in Readings /\ reading.ok
    BY <1>3, <1>6, ContentIsRead DEF IngestFile, IsIngestible
  <2>2. PICK new, wins :
          /\ wins \subseteq new
          /\ versions' = versions \cup new
          /\ current' = CurrentAfter(wins)
    BY <1>6 DEF IngestFile
  <2>3. ledger' = LedgerWith(reading.sync)
    BY <1>6 DEF IngestFile
  <2>4. \A r, q \in ledger' : r.id = q.id => r = q
    BY <2>1, <2>3, LedgerStaysUnique
  <2>5. ASSUME NEW l \in LoadIds, current'[l] # None
        PROVE  current'[l] \in versions' /\ current'[l].body.load = l
    <3>1. CASE \E v \in wins : v.body.load = l
      <4>1. current'[l] = CHOOSE v \in wins : v.body.load = l
        BY <2>2, <3>1 DEF CurrentAfter
      <4>2. current'[l] \in wins /\ current'[l].body.load = l
        BY <3>1, <4>1
      <4>. QED BY <2>2, <4>2
    <3>2. CASE ~\E v \in wins : v.body.load = l
      <4>1. current'[l] = current[l]
        BY <2>2, <3>2 DEF CurrentAfter
      <4>. QED BY <2>2, <2>5, <4>1 DEF TablesInv
    <3>. QED BY <3>1, <3>2
  <2>. QED BY <1>1, <2>4, <2>5 DEF TablesInv, MayHold
<1>7. ASSUME NEW reading, RejectFile(f, reading) PROVE TablesInv'
  BY <1>4, <1>7 DEF RejectFile
<1>. QED BY <1>2, <1>5, <1>6, <1>7 DEF TakeFile

\* Every step keeps the tables in order.
LEMMA TablesInvNext == PipelineInv /\ TablesInv /\ [Next]_vars => TablesInv'
<1> SUFFICES ASSUME PipelineInv, TablesInv, [Next]_vars PROVE TablesInv'
  OBVIOUS
<1>1. ASSUME UNCHANGED <<versions, current, ledger>>,
             \A f \in Files : disk'[f] # None => disk'[f] = disk[f] \/ MayHold(f, disk'[f])
      PROVE  TablesInv'
  BY <1>1 DEF TablesInv, MayHold
<1>2. CASE UNCHANGED disk /\ UNCHANGED db
  BY <1>1, <1>2 DEF db
<1>3. CASE WriteFile
  BY <1>1, <1>3 DEF WriteFile, db, MayHold, PipelineInv, Typed
<1>4. CASE DamageFile
  <2>1. PICK d \in Spots : disk' = [disk EXCEPT ![d[1]] = d[2]]
    BY <1>4 DEF DamageFile
  <2>2. d = <<d[1], d[2]>>
    BY ParametersAssumption
  <2>3. disk \in [Files -> Contents \cup {None}]
    BY DEF PipelineInv, Typed
  <2>4. ASSUME NEW f \in Files PROVE disk'[f] = disk[f] \/ MayHold(f, disk'[f])
    BY <2>1, <2>2, <2>3 DEF MayHold
  <2>. QED BY <1>1, <1>4, <2>4 DEF DamageFile, db
<1>5. CASE TakeFile
  BY <1>5, TakeFileKeepsTables
<1>. QED BY <1>2, <1>3, <1>4, <1>5
         DEF Next, vars, db, StartGenerate, OpenManifest, WriteManifest, Validate,
             StartIngestAll, EndIngest, KillCommand

\* The types, and with them that a rate id has one ledger row and a load shows a
\* version of its own, in every reachable state.
THEOREM PipelineTyped == Spec => []TypeOK
<1>1. PipelineInv /\ TablesInv => TypeOK
  BY DEF PipelineInv, Typed, TablesInv, RowType, TypeOK
<1>2. Init => PipelineInv /\ TablesInv
  BY PipelineInvInit, TablesInvInit
<1>3. PipelineInv /\ TablesInv /\ [Next]_vars => (PipelineInv /\ TablesInv)'
  BY PipelineInvNext, TablesInvNext
<1>. QED BY <1>1, <1>2, <1>3, PTL DEF Spec
=============================================================================
