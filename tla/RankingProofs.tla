--------------------------- MODULE RankingProofs ---------------------------
(***************************************************************************)
(* Why a ranking that is made again after the fact is the one the decision *)
(* had, for every set of carriers, every story of the loads, and every     *)
(* history that is delivered in order.                                     *)
(*                                                                         *)
(* A ranking reads the history and the carriers only through what was      *)
(* known at its time.  While syncs come in order, a new version is later   *)
(* than every decision, and so is the row of a carrier it names first; and *)
(* the rebuild finds each row as it is.                                    *)
(***************************************************************************)
EXTENDS RankingBacktest, FiniteFolds

-----------------------------------------------------------------------------
(* The inductive invariant. *)

Typed ==
  /\ story \in Stories
  /\ now \in 0..Horizon
  /\ told \in [Loads -> Nat]
  /\ versions \in SUBSET Row
  /\ IsFiniteSet(versions)
  /\ held \in SUBSET Row
  /\ versions \cap held = {}
  /\ \A v, w \in versions \cup held : v.observed = w.observed => v = w
  /\ first \in [Carriers -> Nat \cup {None}]
  /\ chronological \in BOOLEAN
  /\ \A d \in live : d.load \in Loads /\ d.at \in 1..now

\* A carrier has a row when a version names it, in order or not.
Named ==
  \A c \in Carriers : first[c] # None <=> \E v \in versions : v.carrier = c

\* The row of a carrier says when it was first named.
Earliest ==
  \A c \in Carriers : first[c] # None =>
    /\ \E v \in versions : v.carrier = c /\ v.observed = first[c]
    /\ \A v \in versions : v.carrier = c => first[c] <= v.observed

\* A decision is on an active version that is there, and would be the same now.
Standing(d) ==
  \E target \in versions :
    /\ target.load = d.load /\ target.observed = d.at /\ target.status = "ACTIVE"
    /\ d.ranking = Ranking(versions, first, target, d.at, ScoringWeights)

\* In order, all of that holds.
Chronicle == chronological => Earliest /\ \A d \in live : Standing(d)

RankingInv == Typed /\ Named /\ Chronicle

-----------------------------------------------------------------------------
(* What a ranking depends on. *)

\* The carriers that are known at a time.
KnownCarriers(First, at) == {c \in Carriers : First[c] # None /\ First[c] <= at}

\* Two histories that agree on what was known at a time rank alike.
LEMMA RankingLooksBack ==
  ASSUME NEW H, NEW G, NEW First, NEW Second, NEW target, NEW at, NEW weights,
         KnownAt(H, at) = KnownAt(G, at),
         KnownCarriers(First, at) = KnownCarriers(Second, at)
  PROVE  Ranking(H, First, target, at, weights) = Ranking(G, Second, target, at, weights)
<1>1. Completed(H, target, at) = Completed(G, target, at)
  BY DEF Completed
<1>2. Features(H, First, target, at) = Features(G, Second, target, at)
  BY <1>1 DEF Features, KnownCarriers
<1>. QED BY <1>2 DEF Ranking

-----------------------------------------------------------------------------
(* Least and greatest ticks. *)

\* Every nonempty set of versions has an oldest and a newest one.
LEMMA OldestAndNewest ==
  ASSUME Typed, NEW V \in SUBSET versions, V # {}
  PROVE  /\ Oldest(V) \in V /\ \A w \in V : Oldest(V).observed <= w.observed
         /\ Newest(V) \in V /\ \A w \in V : w.observed <= Newest(V).observed
<1>1. \A v \in V : v.observed \in 1..now
  BY DEF Typed, Row
<1>2. \E v \in V : \A w \in V : v.observed <= w.observed
  <2> DEFINE T == {v.observed : v \in V}
  <2>1. T \in SUBSET Nat /\ T # {}
    BY <1>1
  <2>2. PICK x \in T : \A y \in T : x <= y
    <3> HIDE DEF T
    <3>. QED BY <2>1, LeastNumber
  <2>. QED BY <2>2
<1>3. \E v \in V : \A w \in V : w.observed <= v.observed
  <2> DEFINE T == {now - v.observed : v \in V}
  <2>1. now \in Nat /\ \A v \in V : now - v.observed \in Nat
    BY <1>1 DEF Typed
  <2>2. T \in SUBSET Nat /\ T # {}
    BY <2>1
  <2>3. PICK x \in T : \A y \in T : x <= y
    <3> HIDE DEF T
    <3>. QED BY <2>2, LeastNumber
  <2>4. PICK v \in V : x = now - v.observed
    OBVIOUS
  <2>5. \A w \in V : now - v.observed <= now - w.observed
    BY <2>3, <2>4
  <2>6. ASSUME NEW w \in V PROVE w.observed <= v.observed
    BY <1>1, <2>1, <2>5
  <2>. QED BY <2>6
<1>. QED BY <1>2, <1>3 DEF Oldest, Newest

\* What the rebuild computes for a carrier that is named.
LEMMA FirstObservedIsLeast ==
  ASSUME Typed, NEW c \in Carriers, \E v \in versions : v.carrier = c
  PROVE  /\ FirstObserved(c) \in Nat
         /\ \E v \in versions : v.carrier = c /\ v.observed = FirstObserved(c)
         /\ \A v \in versions : v.carrier = c => FirstObserved(c) <= v.observed
<1> DEFINE T == {v.observed : v \in {v \in versions : v.carrier = c}}
<1>1. T \in SUBSET Nat /\ T # {}
  BY DEF Typed, Row
<1>2. Min(T) \in T /\ \A y \in T : Min(T) <= y
  <2> HIDE DEF T
  <2>. QED BY <1>1, LeastNumber DEF Min
<1>3. FirstObserved(c) = Min(T)
  BY DEF FirstObserved
<1>. QED BY <1>1, <1>2, <1>3

\* In order, it computes what is there already.
LEMMA RebuildFindsTheRows ==
  ASSUME Typed, Named, Earliest, NEW c \in Carriers
  PROVE  FirstObserved(c) = first[c]
<1>1. CASE \E v \in versions : v.carrier = c
  <2>1. /\ first[c] \in Nat
        /\ \E v \in versions : v.carrier = c /\ v.observed = first[c]
        /\ \A v \in versions : v.carrier = c => first[c] <= v.observed
    BY <1>1 DEF Earliest, Named, Typed
  <2>2. FirstObserved(c) <= first[c] /\ first[c] <= FirstObserved(c)
        /\ FirstObserved(c) \in Nat
    BY <1>1, <2>1, FirstObservedIsLeast
  <2>. QED BY <2>1, <2>2
<1>2. CASE ~\E v \in versions : v.carrier = c
  BY <1>2 DEF FirstObserved
<1>. QED BY <1>1, <1>2

-----------------------------------------------------------------------------
(* What ingestion and the rebuild do to the rows. *)

\* A version is ingested whose tick no other version has.
Fresh(v) == \A w \in versions : w.observed # v.observed

\* The row of a carrier is written once, by the first version that names it.
LEMMA FirstWithIs ==
  ASSUME Typed, NEW v, v.observed \in Nat, v.carrier \in Carriers \cup {None}
  PROVE  /\ FirstWith(v) \in [Carriers -> Nat \cup {None}]
         /\ \A c \in Carriers :
              FirstWith(v)[c] = IF c = v.carrier /\ first[c] = None
                                THEN v.observed ELSE first[c]
<1>1. \A c \in Carriers : c # None
  BY CarriersAssumption, NoneAssumption
<1>. QED BY <1>1 DEF FirstWith, Typed

\* Rows of carriers keep to the versions that name them.
LEMMA IngestNames ==
  ASSUME Typed, Named, NEW v, v.observed \in Nat, v.carrier \in Carriers \cup {None},
         Ingest(v)
  PROVE  Named'
<1>1. \A c \in Carriers :
        first'[c] = IF c = v.carrier /\ first[c] = None THEN v.observed ELSE first[c]
  BY FirstWithIs DEF Ingest
<1>2. v.observed # None
  BY NoneAssumption
<1>3. versions' = versions \cup {v}
  BY DEF Ingest
<1>. QED BY <1>1, <1>2, <1>3 DEF Named

\* In order, a new version changes nothing that was known before it.
LEMMA IngestKeepsChronicle ==
  ASSUME Typed, Named, Chronicle, NEW v, v.observed \in Nat,
         v.carrier \in Carriers \cup {None}, Ingest(v), live' = live
  PROVE  Chronicle'
<1> SUFFICES ASSUME chronological' PROVE Earliest' /\ \A d \in live : Standing(d)'
  BY DEF Chronicle
<1>1. /\ chronological /\ Earliest
      /\ \A w \in versions : w.observed < v.observed
      /\ versions' = versions \cup {v}
  BY DEF Ingest, Chronicle, Typed
<1>2. \A c \in Carriers :
        first'[c] = IF c = v.carrier /\ first[c] = None THEN v.observed ELSE first[c]
  BY FirstWithIs DEF Ingest
<1>3. \A w \in versions : w.observed \in Nat
  BY DEF Typed, Row
<1>4. Earliest'
  <2> SUFFICES ASSUME NEW c \in Carriers, first'[c] # None
               PROVE  /\ \E w \in versions' : w.carrier = c /\ w.observed = first'[c]
                      /\ \A w \in versions' : w.carrier = c => first'[c] <= w.observed
    BY DEF Earliest
  <2>1. CASE first[c] = None
    <3>1. c = v.carrier /\ first'[c] = v.observed
      BY <1>2, <2>1
    <3>2. \A w \in versions : w.carrier # c
      BY <2>1 DEF Named
    <3>. QED BY <1>1, <3>1, <3>2
  <2>2. CASE first[c] # None
    <3>1. first'[c] = first[c]
      BY <1>2, <2>2
    <3>2. PICK w \in versions : w.carrier = c /\ w.observed = first[c]
      BY <1>1, <2>2 DEF Earliest
    <3>3. first[c] <= v.observed
      BY <1>1, <1>3, <3>2
    <3>. QED BY <1>1, <2>2, <3>1, <3>2, <3>3 DEF Earliest
  <2>. QED BY <2>1, <2>2
<1>5. ASSUME NEW d \in live PROVE Standing(d)'
  <2>1. Standing(d)
    BY <1>1 DEF Chronicle
  <2>2. PICK target \in versions :
          /\ target.load = d.load /\ target.observed = d.at /\ target.status = "ACTIVE"
          /\ d.ranking = Ranking(versions, first, target, d.at, ScoringWeights)
    BY <2>1 DEF Standing
  <2>3. d.at < v.observed /\ d.at \in Nat
    BY <1>1, <1>3, <2>2
  <2>4. KnownAt(versions', d.at) = KnownAt(versions, d.at)
    BY <1>1, <2>3 DEF KnownAt
  <2>5. KnownCarriers(first', d.at) = KnownCarriers(first, d.at)
    BY <1>2, <2>3, NoneAssumption DEF KnownCarriers
  <2>6. d.ranking = Ranking(versions', first', target, d.at, ScoringWeights)
    BY <2>2, <2>4, <2>5, RankingLooksBack
  <2>. QED BY <1>1, <2>2, <2>6 DEF Standing
<1>. QED BY <1>4, <1>5

\* Types are kept by a sync, at once or held back.
LEMMA SyncTyped ==
  ASSUME Typed, NEW l \in Loads, Sync(l)
  PROVE  Typed'
<1>0. PICK v : v = VersionOf(l, story[l][told[l] + 1], now + 1)
  OBVIOUS
<1>1. /\ now \in Nat /\ now + 1 \in 0..Horizon /\ now' = now + 1
      /\ story' = story /\ live' = live
  BY TablesAssumption DEF Sync, Typed
<1>2. story[l] \in Seq(Snapshot) /\ told[l] \in Nat
  BY StoriesAssumption DEF Typed
<1>3. story[l][told[l] + 1] \in Snapshot
  BY <1>2 DEF Sync
<1>4. v \in Row' /\ v.observed = now + 1 /\ v.carrier \in Carriers \cup {None}
  <2>1. now + 1 \in 1..now' /\ l \in Loads
    BY <1>1 DEF Typed
  <2>2. PICK state \in Snapshot : state = story[l][told[l] + 1]
    BY <1>3
  <2>. QED BY <1>0, <2>1, <2>2 DEF VersionOf, Snapshot, Row
<1>5. Row \subseteq Row'
  BY <1>1 DEF Row, Typed
<1>6. \A w \in versions \cup held : w.observed < now + 1
  BY DEF Typed, Row
<1>7. told' \in [Loads -> Nat]
  BY <1>2 DEF Sync, Typed
<1>8. \A d \in live' : d.load \in Loads /\ d.at \in 1..now'
  BY <1>1 DEF Typed
<1>9. CASE Ingest(v) /\ held' = held
  <2>1. first' \in [Carriers -> Nat \cup {None}] /\ chronological' \in BOOLEAN
    BY <1>1, <1>4, <1>9, FirstWithIs DEF Ingest, Typed
  <2>2. versions' = versions \cup {v}
    BY <1>9 DEF Ingest
  <2>3. \A w, x \in versions' \cup held' : w.observed = x.observed => w = x
    BY <1>4, <1>6, <1>9, <2>2 DEF Typed
  <2>4. versions' \cap held' = {}
    BY <1>1, <1>4, <1>6, <1>9, <2>2 DEF Typed
  <2>5. versions' \in SUBSET Row' /\ held' \in SUBSET Row' /\ IsFiniteSet(versions')
    BY <1>4, <1>5, <1>9, <2>2, FS_AddElement DEF Typed
  <2>. QED BY <1>1, <1>7, <1>8, <2>1, <2>3, <2>4, <2>5 DEF Typed
<1>10. CASE /\ held' = held \cup {v}
            /\ UNCHANGED <<versions, first, chronological>>
  <2>3. \A w, x \in versions' \cup held' : w.observed = x.observed => w = x
    BY <1>4, <1>6, <1>10 DEF Typed
  <2>4. versions' \cap held' = {}
    BY <1>1, <1>4, <1>6, <1>10 DEF Typed
  <2>5. versions' \in SUBSET Row' /\ held' \in SUBSET Row'
    BY <1>4, <1>5, <1>10 DEF Typed
  <2>. QED BY <1>1, <1>7, <1>8, <1>10, <2>3, <2>4, <2>5 DEF Typed
<1>. QED BY <1>0, <1>9, <1>10 DEF Sync

-----------------------------------------------------------------------------
(* Each action. *)

\* A sync that is held back changes no row; one that is ingested comes last.
LEMMA SyncKeeps ==
  ASSUME RankingInv, NEW l \in Loads, Sync(l)
  PROVE  RankingInv'
<1>1. Typed /\ Named /\ Chronicle /\ Typed'
  BY SyncTyped DEF RankingInv
<1>2. PICK v : v = VersionOf(l, story[l][told[l] + 1], now + 1)
  OBVIOUS
<1>3. v.observed \in Nat /\ v.carrier \in Carriers \cup {None}
  <2>1. story[l] \in Seq(Snapshot) /\ told[l] \in Nat /\ now \in Nat
    BY <1>1, StoriesAssumption DEF Typed
  <2>2. story[l][told[l] + 1] \in Snapshot
    BY <2>1 DEF Sync
  <2>. QED BY <1>2, <2>1, <2>2 DEF VersionOf, Snapshot
<1>4. live' = live
  BY DEF Sync
<1>5. CASE Ingest(v)
  BY <1>1, <1>3, <1>4, <1>5, IngestNames, IngestKeepsChronicle DEF RankingInv
<1>6. CASE UNCHANGED <<versions, first, chronological>>
  BY <1>1, <1>4, <1>6 DEF RankingInv, Named, Chronicle, Earliest, Standing
<1>. QED BY <1>2, <1>5, <1>6 DEF Sync

\* A sync that comes late ends the order, and nothing else is lost.
LEMMA IngestHeldKeeps ==
  ASSUME RankingInv, NEW v \in held, IngestHeld(v)
  PROVE  RankingInv'
<1>1. Typed /\ Named /\ Chronicle /\ v \in Row
  BY DEF RankingInv, Typed
<1>2. v.observed \in Nat /\ v.carrier \in Carriers \cup {None}
  BY <1>1 DEF Row
<1>3. Ingest(v) /\ live' = live /\ held' = held \ {v} /\ now' = now
  BY DEF IngestHeld
<1>4. first' \in [Carriers -> Nat \cup {None}] /\ chronological' \in BOOLEAN
  BY <1>1, <1>2, <1>3, FirstWithIs DEF Ingest, Typed
<1>5. /\ versions' = versions \cup {v} /\ versions' \cup held' = versions \cup held
      /\ IsFiniteSet(versions')
  BY <1>1, <1>3, FS_AddElement DEF Ingest, Typed
<1>6. versions' \cap held' = {}
  BY <1>1, <1>3, <1>5 DEF Typed
<1>7. Typed'
  BY <1>1, <1>3, <1>4, <1>5, <1>6 DEF Typed, Row, IngestHeld
<1>. QED
  BY <1>1, <1>2, <1>3, <1>7, IngestNames, IngestKeepsChronicle DEF RankingInv

\* In order the rebuild leaves every row as it is.
LEMMA RebuildKeeps ==
  ASSUME RankingInv, Rebuild
  PROVE  RankingInv' /\ (chronological => first' = first)
<1>1. Typed /\ Named /\ Chronicle
  BY DEF RankingInv
<1>2. ASSUME NEW c \in Carriers
      PROVE  first'[c] = IF \E v \in versions : v.carrier = c
                         THEN FirstObserved(c) ELSE first[c]
  BY DEF Rebuild, FirstObserved
<1>3. first' \in [Carriers -> Nat \cup {None}]
  <2>1. \A c \in Carriers : FirstObserved(c) \in Nat \cup {None}
    BY <1>1, FirstObservedIsLeast DEF FirstObserved, Typed
  <2>. QED BY <2>1 DEF Rebuild
<1>4. Typed'
  BY <1>1, <1>3 DEF Rebuild, Typed, Row
<1>5. Named'
  <2>1. ASSUME NEW c \in Carriers
        PROVE  first'[c] # None <=> \E v \in versions : v.carrier = c
    BY <1>1, <1>2, FirstObservedIsLeast, NoneAssumption DEF Named
  <2>. QED BY <2>1 DEF Rebuild, Named
<1>6. ASSUME chronological PROVE first' = first
  <2>1. ASSUME NEW c \in Carriers PROVE first'[c] = first[c]
    <3>1. FirstObserved(c) = first[c]
      BY <1>1, <1>6, RebuildFindsTheRows DEF Chronicle
    <3>. QED BY <3>1, <1>2
  <2>. QED BY <1>1, <1>3, <2>1 DEF Typed
<1>7. Chronicle'
  BY <1>1, <1>6 DEF Rebuild, Chronicle, Earliest, Standing
<1>. QED BY <1>4, <1>5, <1>6, <1>7 DEF RankingInv

\* A decision is on the newest version of its load.
LEMMA DecideKeeps ==
  ASSUME RankingInv, NEW l \in Loads, Decide(l)
  PROVE  RankingInv'
<1>1. Typed /\ Named /\ Chronicle
  BY DEF RankingInv
<1>2. PICK target : /\ target = Newest(VersionsOf(l)) /\ target.status = "ACTIVE"
                    /\ live' = live \cup
                         {[load    |-> l,
                           at      |-> target.observed,
                           ranking |-> Ranking(versions, first, target, target.observed,
                                               ScoringWeights)]}
  BY DEF Decide
<1>3. target \in versions /\ target.load = l /\ target.observed \in 1..now
  <2>1. VersionsOf(l) \in SUBSET versions /\ VersionsOf(l) # {}
    BY DEF Decide, VersionsOf
  <2>. QED BY <1>1, <1>2, <2>1, OldestAndNewest DEF VersionsOf, Typed, Row
<1>4. UNCHANGED <<story, now, told, held, versions, first, chronological>>
  BY DEF Decide
<1>5. Typed'
  <2>1. \A d \in live' : d.load \in Loads /\ d.at \in 1..now'
    BY <1>1, <1>2, <1>3, <1>4 DEF Typed
  <2>. QED BY <1>1, <1>4, <2>1 DEF Typed, Row
<1>6. Named'
  BY <1>1, <1>4 DEF Named
<1>7. Chronicle'
  <2>1. ASSUME chronological, NEW d \in live' PROVE Standing(d)'
    <3>1. CASE d \in live
      BY <1>1, <1>4, <2>1, <3>1 DEF Chronicle, Standing
    <3>2. CASE d \notin live
      BY <1>2, <1>3, <1>4, <2>1, <3>2 DEF Standing
    <3>. QED BY <3>1, <3>2
  <2>. QED BY <1>1, <1>4, <2>1 DEF Chronicle, Earliest
<1>. QED BY <1>5, <1>6, <1>7 DEF RankingInv

-----------------------------------------------------------------------------
(* The invariant, and what follows from it. *)

\* Before the first sync there is nothing.
LEMMA RankingInvInit == Init => RankingInv
<1> SUFFICES ASSUME Init PROVE RankingInv
  OBVIOUS
<1>1. Typed
  BY NoneAssumption, TablesAssumption, FS_EmptySet DEF Init, Typed
<1>2. Named /\ Chronicle
  BY DEF Init, Named, Chronicle, Earliest
<1>. QED BY <1>1, <1>2 DEF RankingInv

\* Every action keeps the invariant.
LEMMA RankingInvNext == RankingInv /\ [Next]_vars => RankingInv'
<1> SUFFICES ASSUME RankingInv, [Next]_vars PROVE RankingInv'
  OBVIOUS
<1>1. CASE UNCHANGED vars
  BY <1>1 DEF vars, RankingInv, Typed, Row, Named, Chronicle, Earliest, Standing
<1>. QED
  BY <1>1, SyncKeeps, IngestHeldKeeps, RebuildKeeps, DecideKeeps DEF Next

\* The invariant every result below rests on.
THEOREM RankingInvariant == Spec => []RankingInv
BY RankingInvInit, RankingInvNext, PTL DEF Spec

\* Types; a tick has one sync, and a carrier with a version has a row.
THEOREM RankingTyped == Spec => []TypeOK
<1>1. RankingInv => TypeOK
  <2> SUFFICES ASSUME RankingInv PROVE TypeOK
    OBVIOUS
  <2>1. \A v \in versions : v.carrier # None => v.carrier \in Carriers
    BY DEF RankingInv, Typed, Row
  <2>. QED BY <2>1 DEF RankingInv, Typed, Named, TypeOK
<1>. QED BY <1>1, RankingInvariant, PTL

\* As long as syncs come in order, the evaluation ranks a case exactly as the
\* decision at its first ACTIVE did, whatever happened since.
THEOREM ReplaysAreFaithful == Spec => []ReplaysMatchLive
<1>1. RankingInv => ReplaysMatchLive
  <2> SUFFICES ASSUME RankingInv, chronological, NEW l \in CaseLoads, NEW d \in live,
                      d.load = l, d.at = Oldest(Active(l)).observed
               PROVE  d.ranking = RankCase(l, ScoringWeights).scored
    BY DEF ReplaysMatchLive, EvaluatedCases, RankCase
  <2>1. PICK target \in versions :
          /\ target.load = d.load /\ target.observed = d.at /\ target.status = "ACTIVE"
          /\ d.ranking = Ranking(versions, first, target, d.at, ScoringWeights)
    BY DEF RankingInv, Chronicle, Standing
  <2>2. Oldest(Active(l)) \in Active(l)
    BY OldestAndNewest DEF RankingInv, CaseLoads, Active, VersionsOf
  <2>3. Oldest(Active(l)) = target
    BY <2>1, <2>2 DEF RankingInv, Typed, Active, VersionsOf
  <2>. QED BY <2>1, <2>3 DEF RankCase
<1>. QED BY <1>1, RankingInvariant, PTL

\* In order, a rebuild would leave the row of every carrier as it is.  Where it
\* would, in order or not, a carrier with a load that was completed by the
\* cutoff of a case is one of those the case is ranked from.
EveryHistoryIsACandidate ==
  /\ chronological => \A c \in Carriers : first[c] = FirstObserved(c)
  /\ \A l \in CaseLoads : \A target \in {Oldest(Active(l))} : \A c \in Carriers :
       first[c] = FirstObserved(c) /\ HasHistory(c, l, target.observed) =>
         \E f \in Features(versions, first, target, target.observed) : f.carrier = c

\* The candidates of a case follow the history, where the carrier rows do.
LEMMA HistoriesAreCandidates == RankingInv => EveryHistoryIsACandidate
<1> SUFFICES ASSUME RankingInv
             PROVE  EveryHistoryIsACandidate
  OBVIOUS
<1>1. chronological => \A c \in Carriers : first[c] = FirstObserved(c)
  BY RebuildFindsTheRows DEF RankingInv, Chronicle
<1>2. ASSUME NEW l \in CaseLoads, NEW target, target = Oldest(Active(l)),
             NEW c \in Carriers, first[c] = FirstObserved(c),
             NEW v \in Completed(versions, target, target.observed), v.carrier = c
      PROVE  \E f \in Features(versions, first, target, target.observed) : f.carrier = c
  <2>1. v \in versions /\ v.observed <= target.observed
    BY <1>2 DEF Completed, KnownAt
  <2>2. target \in versions
    BY <1>2, OldestAndNewest DEF RankingInv, CaseLoads, Active, VersionsOf
  <2>3. first[c] \in Nat /\ first[c] <= v.observed
    BY <1>2, <2>1, FirstObservedIsLeast DEF RankingInv
  <2>4. first[c] # None /\ first[c] <= target.observed
    BY <2>1, <2>2, <2>3, NoneAssumption DEF RankingInv, Typed, Row
  <2>5. FeaturesOf(c, Completed(versions, target, target.observed), target)
          \in Features(versions, first, target, target.observed)
    BY <1>2, <2>4 DEF Features
  <2>. QED BY <2>5 DEF FeaturesOf
<1>. QED BY <1>1, <1>2 DEF EveryHistoryIsACandidate, HasHistory

\* So do those of every case there ever is.
THEOREM HistoryMakesCandidates == Spec => []EveryHistoryIsACandidate
BY HistoriesAreCandidates, RankingInvariant, PTL

-----------------------------------------------------------------------------
(* The numbers of a score. *)

\* A quotient of natural numbers is one.
LEMMA QuotientIs ==
  ASSUME NEW a \in Nat, NEW b \in Nat, b # 0
  PROVE  a \div b \in Nat
OBVIOUS

\* A quotient is at least what fits into the dividend.
LEMMA QuotientAtLeast ==
  ASSUME NEW a \in Nat, NEW b \in Nat, b # 0, NEW k \in Nat, k * b <= a
  PROVE  k <= a \div b
<1> DEFINE q == a \div b
<1>1. q \in Nat /\ a < b * q + b
  OBVIOUS
<1> HIDE DEF q
<1>2. SUFFICES ASSUME q < k PROVE FALSE
  BY <1>1 DEF q
<1>3. q + 1 <= k
  BY <1>1, <1>2
<1>4. (q + 1) * b <= k * b
  BY <1>1, <1>3
<1>5. (q + 1) * b = b * q + b
  BY <1>1
<1>. QED BY <1>1, <1>4, <1>5

\* A quotient is at most what the dividend fits into.
LEMMA QuotientAtMost ==
  ASSUME NEW a \in Nat, NEW b \in Nat, b # 0, NEW k \in Nat, a <= k * b
  PROVE  a \div b <= k
<1> DEFINE q == a \div b
<1>1. q \in Nat /\ b * q <= a
  OBVIOUS
<1> HIDE DEF q
<1>2. SUFFICES ASSUME k < q PROVE FALSE
  BY <1>1 DEF q
<1>3. k + 1 <= q
  BY <1>1, <1>2
<1>4. b * (k + 1) <= b * q
  BY <1>1, <1>3
<1>5. b * (k + 1) = k * b + b
  OBVIOUS
<1>. QED BY <1>1, <1>4, <1>5

\* The greater of two numbers.
LEMMA GreaterOf ==
  ASSUME NEW a \in Int, NEW b \in Int
  PROVE  Max({a, b}) = IF a <= b THEN b ELSE a
<1>1. PICK m : m = IF a <= b THEN b ELSE a
  OBVIOUS
<1>2. m \in {a, b} /\ \A y \in {a, b} : m >= y
  BY <1>1
<1>3. \A x \in {a, b} : (\A y \in {a, b} : x >= y) => x = m
  BY <1>1
<1>. QED BY <1>1, <1>2, <1>3 DEF Max

\* The lesser of two numbers.
LEMMA LesserOf ==
  ASSUME NEW a \in Int, NEW b \in Int
  PROVE  Min({a, b}) = IF a <= b THEN a ELSE b
<1>1. PICK m : m = IF a <= b THEN a ELSE b
  OBVIOUS
<1>2. m \in {a, b} /\ \A y \in {a, b} : m <= y
  BY <1>1
<1>3. \A x \in {a, b} : (\A y \in {a, b} : x <= y) => x = m
  BY <1>1
<1>. QED BY <1>1, <1>2, <1>3 DEF Min

\* What is left of a weight with the age of a version.
LEMMA DecayIs ==
  ASSUME NEW v, v.observed \in Nat, NEW at \in 0..Horizon, NEW days \in {14, 30, 45}
  PROVE  Decay[days][Age(v, at)] \in 1..100
<1>1. at \in Nat /\ at - v.observed \in Int /\ at - v.observed <= Horizon /\ Horizon \in Nat
  BY TablesAssumption
<1>2. Age(v, at) = IF 0 <= at - v.observed THEN at - v.observed ELSE 0
  BY <1>1, GreaterOf DEF Age
<1>3. Age(v, at) \in 0..Horizon
  BY <1>1, <1>2
<1>4. Decay[days] \in [0..Horizon -> 1..100]
  BY TablesAssumption
<1>. QED BY <1>3, <1>4

\* Weights of evidence are worth one load or more, and no more than they are.
LEMMA EffectiveSampleSizeIs ==
  ASSUME NEW S, IsFiniteSet(S), NEW w \in [S -> Nat \ {0}]
  PROVE  /\ S = {} => EffectiveSampleSize(w) = 0
         /\ S # {} => EffectiveSampleSize(w) \in 100..(100 * Cardinality(S))
         /\ EffectiveSampleSize(w) \in Nat
<1>1. DOMAIN w = S
  OBVIOUS
<1>2. CASE S = {}
  BY <1>1, <1>2 DEF EffectiveSampleSize
<1>3. CASE S # {}
  <2>1. PICK total : total = SumFunction([v \in S |-> w[v]])
    OBVIOUS
  <2>2. PICK squares : squares = SumFunction([v \in S |-> w[v] * w[v]])
    OBVIOUS
  <2>3. /\ total \in Nat \ {0} /\ squares \in Nat \ {0}
        /\ squares <= total * total
        /\ total * total <= Cardinality(S) * squares
    BY <1>3, <2>1, <2>2, KishBounds
  <2>4. w = [v \in S |-> w[v]]
    OBVIOUS
  <2>5. EffectiveSampleSize(w) = (100 * total * total) \div squares
    BY <1>1, <1>3, <2>1, <2>2, <2>4 DEF EffectiveSampleSize
  <2>6. PICK n : n = Cardinality(S)
    OBVIOUS
  <2>7. n \in Nat
    BY <2>6, FS_CardinalityType
  <2> DEFINE a == total * total
  <2>8. a \in Nat /\ 100 * total * total = 100 * a
    BY <2>3
  <2>9. squares <= a /\ a <= n * squares
    BY <2>3, <2>6
  <2> HIDE DEF a
  <2>10. (100 * n) * squares = 100 * (n * squares) /\ n * squares \in Nat
    BY <2>3, <2>7
  <2>11. 100 * a \in Nat /\ 100 * squares <= 100 * a /\ 100 * a <= (100 * n) * squares
    BY <2>3, <2>8, <2>9, <2>10
  <2>12. 100 <= (100 * a) \div squares
    <3>1. PICK b \in Nat : b = 100 * a
      BY <2>11
    <3>2. 100 * squares <= b /\ squares \in Nat /\ squares # 0 /\ 100 \in Nat
      BY <2>3, <2>11, <3>1
    <3>3. 100 <= b \div squares
      BY <3>2, QuotientAtLeast
    <3>. QED BY <3>1, <3>3
  <2>13. (100 * a) \div squares <= 100 * n
    <3>1. PICK b \in Nat : b = 100 * a
      BY <2>11
    <3>2. PICK k \in Nat : k = 100 * n
      BY <2>7
    <3>3. b <= k * squares /\ squares \in Nat /\ squares # 0
      BY <2>3, <2>11, <3>1, <3>2
    <3>4. b \div squares <= k
      BY <3>3, QuotientAtMost
    <3>. QED BY <3>1, <3>2, <3>4
  <2>14. (100 * a) \div squares \in Nat
    BY <2>3, <2>11, QuotientIs
  <2>. QED BY <1>3, <2>5, <2>6, <2>7, <2>8, <2>12, <2>13, <2>14
<1>. QED BY <1>2, <1>3

-----------------------------------------------------------------------------
(* The features of a carrier. *)

\* What the features of a carrier are.
IsFeature(f) ==
  /\ f.carrier \in Nat
  /\ IsFiniteSet(f.history) /\ f.history # {}
  /\ \A v \in f.history : v.observed \in Nat /\ v.lane \in Lanes
  /\ DOMAIN f.lane \subseteq f.history
  /\ \A v \in DOMAIN f.lane : f.lane[v] \in LaneTier
  /\ f.equipment \subseteq f.history
  /\ f.relevant = DOMAIN f.lane \cup f.equipment
  /\ f.last \in f.history /\ f.recent \in f.history

\* The features of a carrier that completed a load are.
LEMMA FeatureIs ==
  ASSUME Typed, NEW target, target.lane \in Lanes, NEW completed \in SUBSET versions,
         NEW c \in Carriers, \E v \in completed : v.carrier = c
  PROVE  IsFeature(FeaturesOf(c, completed, target))
<1> DEFINE history == {v \in completed : v.carrier = c}
           lane == {v \in history : Tier(v, target, completed) # None}
           equipment == {v \in history : ~IsUnknown(target) /\ v.equipment = target.equipment}
           relevant == lane \cup equipment
           f == FeaturesOf(c, completed, target)
<1>1. history \in SUBSET versions /\ history # {} /\ IsFiniteSet(history)
  BY FS_Subset DEF Typed
<1>2. \A v \in history : v.observed \in Nat /\ v.lane \in Lanes
  BY <1>1 DEF Typed, Row
<1>3. \A v \in lane : Tier(v, target, completed) \in LaneTier
  <2> SUFFICES ASSUME NEW v \in history, Tier(v, target, completed) # None
               PROVE  Tier(v, target, completed) \in LaneTier
    OBVIOUS
  <2>1. Closeness[<<v.lane, target.lane>>] \in 1..5
    BY <1>2, TablesAssumption
  <2>. QED BY <2>1 DEF Tier, LaneTier
<1>4. Newest(history) \in history
  <2> HIDE DEF history
  <2>. QED BY <1>1, OldestAndNewest
<1>5. Newest(IF relevant # {} THEN relevant ELSE history) \in history
  <2>1. CASE relevant # {}
    <3>1. relevant \in SUBSET versions
      BY <1>1
    <3>2. Newest(relevant) \in relevant
      <4> HIDE DEF relevant
      <4>. QED BY <2>1, <3>1, OldestAndNewest
    <3>. QED BY <2>1, <3>2
  <2>. QED BY <1>4, <2>1
<1>6. f = [carrier   |-> c,
           history   |-> history,
           lane      |-> [v \in lane |-> Tier(v, target, completed)],
           equipment |-> equipment,
           relevant  |-> relevant,
           last      |-> Newest(history),
           recent    |-> Newest(IF relevant # {} THEN relevant ELSE history)]
  BY DEF FeaturesOf
<1>7. c \in Nat
  BY CarriersAssumption
<1>8. lane \subseteq history /\ equipment \subseteq history
  OBVIOUS
<1>9. /\ f.carrier = c /\ f.history = history /\ f.equipment = equipment
      /\ f.relevant = lane \cup equipment /\ DOMAIN f.lane = lane
      /\ \A v \in lane : f.lane[v] = Tier(v, target, completed)
      /\ f.last = Newest(history)
      /\ f.recent = Newest(IF relevant # {} THEN relevant ELSE history)
  <2>1. PICK tiers : tiers = [v \in lane |-> Tier(v, target, completed)]
    OBVIOUS
  <2>2. PICK last : last = Newest(history)
    OBVIOUS
  <2>3. PICK recent : recent = Newest(IF relevant # {} THEN relevant ELSE history)
    OBVIOUS
  <2>4. f = [carrier |-> c, history |-> history, lane |-> tiers, equipment |-> equipment,
             relevant |-> relevant, last |-> last, recent |-> recent]
    BY <1>6, <2>1, <2>2, <2>3
  <2>5. relevant = lane \cup equipment
    OBVIOUS
  <2> HIDE DEF history, lane, equipment, relevant, f
  <2>6. DOMAIN tiers = lane /\ \A v \in lane : tiers[v] = Tier(v, target, completed)
    BY <2>1
  <2>. QED BY <2>2, <2>3, <2>4, <2>5, <2>6
<1>10. f.last \in f.history /\ f.recent \in f.history
  <2> HIDE DEF history, relevant, f
  <2>. QED BY <1>4, <1>5, <1>9
<1> HIDE DEF history, lane, equipment, relevant, f
<1>11. \A v \in DOMAIN f.lane : f.lane[v] \in LaneTier
  BY <1>3, <1>9
<1>12. /\ IsFiniteSet(f.history) /\ f.history # {}
       /\ \A v \in f.history : v.observed \in Nat /\ v.lane \in Lanes
  BY <1>1, <1>2, <1>9
<1>13. /\ DOMAIN f.lane \subseteq f.history /\ f.equipment \subseteq f.history
       /\ f.relevant = DOMAIN f.lane \cup f.equipment /\ f.carrier \in Nat
  BY <1>7, <1>8, <1>9
<1>. QED BY <1>10, <1>11, <1>12, <1>13 DEF IsFeature, f

\* Weights of what is relevant in the features of a carrier.
LEMMA WeightsAre ==
  ASSUME NEW f, IsFeature(f), NEW target, target.lane \in Lanes, NEW at \in 0..Horizon
  PROVE  /\ IsFiniteSet(DOMAIN f.lane) /\ IsFiniteSet(f.equipment) /\ IsFiniteSet(f.relevant)
         /\ LaneWeights(f, target, at) \in [DOMAIN f.lane -> Nat \ {0}]
         /\ \A v \in f.history : LaneWeight(v, target, at) \in Nat \ {0}
<1>1. ASSUME NEW v \in f.history PROVE LaneWeight(v, target, at) \in Nat \ {0}
  <2>1. Nearness[<<v.lane, target.lane>>] \in 1..100
    BY TablesAssumption DEF IsFeature
  <2>2. Decay[30][Age(v, at)] \in 1..100
    BY DecayIs DEF IsFeature
  <2>3. PICK a \in Nat : a = Nearness[<<v.lane, target.lane>>] * Decay[30][Age(v, at)]
    <3>1. PICK x \in Nat, y \in Nat :
            x = Nearness[<<v.lane, target.lane>>] /\ y = Decay[30][Age(v, at)]
      BY <2>1, <2>2
    <3>2. x * y \in Nat
      BY ProductIsNatural
    <3>. QED BY <3>1, <3>2
  <2>4. a \div 100 \in Nat
    OBVIOUS
  <2>5. LaneWeight(v, target, at) = Max({1, a \div 100})
    BY <2>3 DEF LaneWeight
  <2>. QED BY <2>4, <2>5, GreaterOf
<1>2. IsFiniteSet(DOMAIN f.lane) /\ IsFiniteSet(f.equipment) /\ IsFiniteSet(f.relevant)
  <2>1. f.relevant \subseteq f.history
    BY DEF IsFeature
  <2>. QED BY <2>1, FS_Subset DEF IsFeature
<1>3. LaneWeights(f, target, at) \in [DOMAIN f.lane -> Nat \ {0}]
  BY <1>1 DEF LaneWeights, IsFeature
<1>. QED BY <1>1, <1>2, <1>3

\* The evidence of a carrier is worth one load or more, when there is some, and
\* no more than the loads in its history.
LEMMA EffectiveHistoryIs ==
  ASSUME NEW f, IsFeature(f), NEW target, target.lane \in Lanes, NEW at \in 0..Horizon
  PROVE  /\ f.relevant = {} => EffectiveHistory(f, target, at) = 0
         /\ f.relevant # {} =>
              EffectiveHistory(f, target, at) \in 100..(100 * Cardinality(f.history))
         /\ EffectiveHistory(f, target, at) \in Nat
<1> DEFINE strongest(v) ==
             Max({LaneWeight(w, target, at) : w \in {v} \cap DOMAIN f.lane}
                   \cup {Decay[45][Age(w, at)] : w \in {v} \cap f.equipment})
           w == [v \in f.relevant |-> strongest(v)]
<1>1. ASSUME NEW v \in f.relevant PROVE strongest(v) \in Nat \ {0}
  <2> DEFINE a == LaneWeight(v, target, at)
             b == Decay[45][Age(v, at)]
             T == {LaneWeight(x, target, at) : x \in {v} \cap DOMAIN f.lane}
                    \cup {Decay[45][Age(x, at)] : x \in {v} \cap f.equipment}
  <2>1. v \in f.history
    BY DEF IsFeature
  <2>2. a \in Nat \ {0}
    BY <2>1, WeightsAre
  <2>3. b \in Nat \ {0}
    <3>1. Decay[45][Age(v, at)] \in 1..100
      BY <2>1, DecayIs DEF IsFeature
    <3>. QED BY <3>1
  <2>4. T = {a} \/ T = {b} \/ T = {a, b}
    BY DEF IsFeature
  <2> HIDE DEF a, b, T
  <2>5. Max(T) \in Nat \ {0}
    <3>1. Max({a, a}) = a /\ Max({b, b}) = b /\ Max({a, b}) \in {a, b}
      BY <2>2, <2>3, GreaterOf
    <3>2. {a, a} = {a} /\ {b, b} = {b}
      OBVIOUS
    <3>. QED BY <2>2, <2>3, <2>4, <3>1, <3>2
  <2>. QED BY <2>5 DEF T
<1>2. w \in [f.relevant -> Nat \ {0}] /\ EffectiveHistory(f, target, at) = EffectiveSampleSize(w)
  BY <1>1 DEF EffectiveHistory
<1>3. IsFiniteSet(f.relevant) /\ f.relevant \subseteq f.history /\ IsFiniteSet(f.history)
  BY WeightsAre DEF IsFeature
<1>4. /\ Cardinality(f.relevant) \in Nat /\ Cardinality(f.history) \in Nat
      /\ Cardinality(f.relevant) <= Cardinality(f.history)
  BY <1>3, FS_Subset, FS_CardinalityType
<1> HIDE DEF w
<1>. QED BY <1>2, <1>3, <1>4, EffectiveSampleSizeIs

-----------------------------------------------------------------------------
(* The score of a carrier. *)

\* A quotient of integers is one.
LEMMA QuotientIsInteger ==
  ASSUME NEW a \in Int, NEW b \in Nat, b # 0
  PROVE  a \div b \in Int
OBVIOUS

\* A component of a score is a number, or there is none.
LEMMA ScoresAre ==
  ASSUME NEW f, IsFeature(f), NEW target, target.lane \in Lanes, NEW at \in 0..Horizon
  PROVE  ComponentScores(f, target, at) \in [Components -> Int \cup {None}]
<1>1. LaneScore(f, target, at) \in Int \cup {None}
  <2> DEFINE w == LaneWeights(f, target, at)
  <2>1. CASE DOMAIN w = {}
    BY <2>1 DEF LaneScore
  <2>2. CASE DOMAIN w # {}
    <3>1. w \in [DOMAIN f.lane -> Nat \ {0}] /\ IsFiniteSet(DOMAIN f.lane)
      BY WeightsAre
    <3> HIDE DEF w
    <3>2. PICK S : S = DOMAIN f.lane
      OBVIOUS
    <3>3. DOMAIN w = S /\ w \in [S -> Nat \ {0}] /\ IsFiniteSet(S) /\ S # {}
      BY <2>2, <3>1, <3>2
    <3>4. \A v \in S : w[v] * Quality[f.lane[v]] \in Int
      <4> SUFFICES ASSUME NEW v \in S PROVE w[v] * Quality[f.lane[v]] \in Int
        OBVIOUS
      <4>1. PICK tier \in 1..6 : tier = f.lane[v]
        BY <3>2 DEF IsFeature, LaneTier
      <4>2. Quality[tier] \in Int
        BY DEF Quality
      <4>. QED BY <3>3, <4>1, <4>2
    <3>5. PICK q \in Int : q = SumFunction([v \in S |-> w[v] * Quality[f.lane[v]]])
      BY <3>3, <3>4, SumIsAnInteger
    <3>6. PICK total \in Nat \ {0} : total = SumFunction(w)
      <4>1. w = [v \in S |-> w[v]]
        BY <3>3
      <4>2. SumFunction([v \in S |-> w[v]]) \in Nat \ {0}
        BY <3>3, KishBounds
      <4>. QED BY <4>1, <4>2
    <3>7. PICK m \in Int : m = Min({400, EffectiveSampleSize(w)})
      <4>1. EffectiveSampleSize(w) \in Int
        BY <3>3, EffectiveSampleSizeIs
      <4>. QED BY <4>1, LesserOf
    <3>8. (q * m) \div (400 * total) \in Int
      <4>1. q * m \in Int /\ 400 * total \in Nat /\ 400 * total # 0
        BY <3>5, <3>6, <3>7
      <4>. QED BY <4>1, QuotientIsInteger
    <3>9. LaneScore(f, target, at) = (q * m) \div (400 * total)
      BY <2>2, <3>3, <3>5, <3>6, <3>7 DEF LaneScore, w
    <3>. QED BY <3>8, <3>9
  <2>. QED BY <2>1, <2>2
<1>2. EquipmentFit(f, target, at) \in Int \cup {None}
  <2> DEFINE share(S) == SumFunction([v \in S |-> Decay[45][Age(v, at)]])
  <2>1. ASSUME NEW S \in SUBSET f.history
        PROVE  share(S) \in Int /\ (S # {} => share(S) \in Nat \ {0})
    <3>1. [v \in S |-> Decay[45][Age(v, at)]] \in [S -> Nat \ {0}]
      <4> SUFFICES ASSUME NEW v \in S PROVE Decay[45][Age(v, at)] \in Nat \ {0}
        OBVIOUS
      <4>1. Decay[45][Age(v, at)] \in 1..100
        BY DecayIs DEF IsFeature
      <4>. QED BY <4>1
    <3>2. PICK w \in [S -> Nat \ {0}] : w = [v \in S |-> Decay[45][Age(v, at)]]
      BY <3>1
    <3>3. w = [v \in S |-> w[v]] /\ w \in [S -> Int]
      OBVIOUS
    <3>4. IsFiniteSet(S)
      BY FS_Subset DEF IsFeature
    <3>5. SumFunction(w) \in Int
      BY <3>3, <3>4, SumIsAnInteger
    <3>6. S # {} => SumFunction([v \in S |-> w[v]]) \in Nat \ {0}
      BY <3>4, KishBounds
    <3>. QED BY <3>2, <3>3, <3>5, <3>6
  <2>2. PICK a \in Int : a = share(f.equipment)
    BY <2>1 DEF IsFeature
  <2>3. PICK b \in Nat \ {0} : b = share(f.history)
    BY <2>1 DEF IsFeature
  <2>4. (1000 * a) \div b \in Int
    BY QuotientIsInteger
  <2>5. EquipmentFit(f, target, at) \in {500, None, (1000 * a) \div b}
    BY <2>2, <2>3 DEF EquipmentFit
  <2>. QED BY <2>4, <2>5
<1>3. DeadheadFit(f, target, at) \in Int \cup {None}
  <2>1. Proximity[<<f.last.lane, target.lane>>] \in (0..100) \cup {None}
    BY TablesAssumption DEF IsFeature
  <2>2. PICK d \in 1..100 : d = Decay[14][Age(f.last, at)]
    BY DecayIs DEF IsFeature
  <2>3. PICK p \in (0..100) \cup {None} : p = Proximity[<<f.last.lane, target.lane>>]
    BY <2>1
  <2>4. DeadheadFit(f, target, at) = IF p = None THEN None ELSE (p * d) \div 10
    BY <2>2, <2>3 DEF DeadheadFit
  <2>5. p \in 0..100 => p * d \in Int
    OBVIOUS
  <2>6. p \in 0..100 => (p * d) \div 10 \in Int
    BY <2>5
  <2>. QED BY <2>4, <2>6
<1>4. RecencyFit(f, at) \in Int \cup {None}
  <2>1. PICK d \in 1..100 : d = Decay[30][Age(f.recent, at)]
    BY DecayIs DEF IsFeature
  <2>. QED BY <2>1 DEF RecencyFit
<1>. QED BY <1>1, <1>2, <1>3, <1>4 DEF ComponentScores, Components

\* The scores that are there make a number, whatever their weights.
LEMMA RawScoreIs ==
  ASSUME NEW scores \in [Components -> Int \cup {None}], NEW weights \in [Components -> Nat]
  PROVE  RawScore(scores, weights) \in Int
<1> DEFINE available == {n \in Components : scores[n] # None /\ weights[n] > 0}
<1>1. CASE available = {}
  BY <1>1 DEF RawScore
<1>2. CASE available # {}
  <2>1. IsFiniteSet(Components)
    <3>1. IsFiniteSet({"lane"}) /\ IsFiniteSet({"equipment"})
          /\ IsFiniteSet({"deadhead"}) /\ IsFiniteSet({"recency"})
      BY FS_Singleton
    <3>2. Components = (({"lane"} \cup {"equipment"}) \cup {"deadhead"}) \cup {"recency"}
      BY DEF Components
    <3>. QED BY <3>1, <3>2, FS_Union
  <2>2. IsFiniteSet(available)
    BY <2>1, FS_Subset
  <2>3. ASSUME NEW n \in available
        PROVE  weights[n] * scores[n] \in Int /\ weights[n] \in Nat \ {0}
    <3>1. scores[n] \in Int /\ weights[n] \in Nat /\ weights[n] > 0
      OBVIOUS
    <3>. QED BY <3>1
  <2>4. PICK S : S = available
    OBVIOUS
  <2>5. PICK a \in Int : a = SumFunction([n \in S |-> weights[n] * scores[n]])
    <3>1. [n \in S |-> weights[n] * scores[n]] \in [S -> Int]
      BY <2>3, <2>4
    <3>. QED BY <2>2, <2>4, <3>1, SumIsAnInteger
  <2>6. PICK b \in Nat \ {0} : b = SumFunction([n \in S |-> weights[n]])
    <3>1. PICK w \in [S -> Nat \ {0}] : w = [n \in S |-> weights[n]]
      BY <2>3, <2>4
    <3>2. w = [n \in S |-> w[n]]
      OBVIOUS
    <3>3. SumFunction([n \in S |-> w[n]]) \in Nat \ {0}
      BY <1>2, <2>2, <2>4, KishBounds
    <3>. QED BY <3>1, <3>2, <3>3
  <2>7. RawScore(scores, weights) = (10 * a) \div b
    BY <1>2, <2>4, <2>5, <2>6 DEF RawScore
  <2>. QED BY <2>7, QuotientIsInteger
<1>. QED BY <1>1, <1>2

\* A confidence is a number.
LEMMA ConfidenceScoreIs ==
  ASSUME NEW f, IsFiniteSet(f.equipment), NEW target, NEW ess \in Nat,
         NEW scores \in [Components -> Int \cup {None}]
  PROVE  ConfidenceScore(f, scores, ess, target) \in Int
<1> DEFINE stated(n) == IF scores[n] = None THEN 0 ELSE scores[n]
           coverage == IF IsUnknown(target) THEN 50
                       ELSE (100 * Min({3, Cardinality(f.equipment)})) \div 3
           located == IF \E v \in DOMAIN f.lane : Proximity[<<v.lane, target.lane>>] # None
                      THEN 100 ELSE 0
           score == (450 * Min({600, ess})) \div 600 + stated("lane") \div 5
                      + (3 * stated("recency")) \div 20 + coverage + located
<1>1. ConfidenceScore(f, scores, ess, target)
        = IF IsUnknown(target) \/ ess < 100 THEN Min({score, 440}) ELSE score
  BY Zenon DEF ConfidenceScore
<1>2. stated("lane") \in Int /\ stated("recency") \in Int
  BY DEF Components
<1>3. coverage \in Int
  <2>1. Cardinality(f.equipment) \in Int
    BY FS_CardinalityType
  <2>2. PICK m \in Int : m = Min({3, Cardinality(f.equipment)})
    BY <2>1, LesserOf
  <2>. QED BY <2>2
<1>4. located \in Int
  OBVIOUS
<1>5. Min({600, ess}) \in Int
  BY LesserOf
<1>6. \A a, b, c, d, e \in Int : (450 * a) \div 600 + b \div 5 + (3 * c) \div 20 + d + e \in Int
  <2>1. \A a \in Int : (450 * a) \div 600 \in Int
    OBVIOUS
  <2>2. \A b \in Int : b \div 5 \in Int /\ (3 * b) \div 20 \in Int
    OBVIOUS
  <2>. QED BY <2>1, <2>2
<1> HIDE DEF stated, coverage, located
<1>7. score \in Int
  BY <1>2, <1>3, <1>4, <1>5, <1>6
<1> HIDE DEF score
<1>8. Min({score, 440}) \in Int
  BY <1>7, LesserOf
<1>. QED BY <1>1, <1>7, <1>8

\* What a carrier shows in a ranking, besides its group.
Shows(row, fit) ==
  /\ row.carrier = fit.carrier /\ row.adjusted_score = fit.adjusted_score
  /\ row.evidence_status = fit.evidence_status
  /\ row.effective_history = fit.effective_history /\ row.evidence = fit.evidence

\* What can be compared, and what a score without support is.
IsFit(fit) ==
  /\ fit.carrier \in Nat /\ fit.adjusted_score \in Int /\ fit.confidence_score \in Int
  /\ fit.effective_history \in Nat /\ fit.relevant_at \in Nat
  /\ fit.evidence_status \in {"SUPPORTED", "LIMITED"}
  /\ IF fit.evidence_status = "SUPPORTED"
     THEN fit.effective_history \in 100..(100 * Cardinality(fit.evidence))
     ELSE fit.effective_history = 0 /\ fit.adjusted_score = 5000

\* Only its group changes when it is given one.
TakesGroup(fit) ==
  \A g : Shows([fit EXCEPT !.tie_group = g], fit) /\ [fit EXCEPT !.tie_group = g].tie_group = g

\* The weights of the components, with or without one of them.
LEMMA WeightsAreNumbers ==
  ASSUME NEW weights \in {ScoringWeights} \cup Ablations
  PROVE  weights \in [Components -> Nat]
<1>1. ScoringWeights \in [Components -> Nat]
  BY DEF ScoringWeights, Components
<1>2. \A component \in Components : Without(component) \in [Components -> Nat]
  BY <1>1 DEF Without
<1>. QED BY <1>1, <1>2 DEF Ablations

\* A historical fit is one, of the carrier of its features.
LEMMA FitIs ==
  ASSUME NEW f, IsFeature(f), NEW target, target.lane \in Lanes, NEW at \in 0..Horizon,
         NEW weights \in [Components -> Nat]
  PROVE  /\ IsFit(HistoricalFit(f, target, at, weights))
         /\ TakesGroup(HistoricalFit(f, target, at, weights))
         /\ HistoricalFit(f, target, at, weights).carrier = f.carrier
         /\ HistoricalFit(f, target, at, weights).evidence_status
              = EvidenceStatus(f, ScoringWeights)
<1>1. PICK scores \in [Components -> Int \cup {None}] : scores = ComponentScores(f, target, at)
  BY ScoresAre
<1>2. PICK ess \in Nat : ess = EffectiveHistory(f, target, at)
  BY EffectiveHistoryIs
<1>3. PICK confidence \in Int : confidence = ConfidenceScore(f, scores, ess, target)
  BY WeightsAre, ConfidenceScoreIs
<1>4. PICK raw \in Int : raw = RawScore(scores, weights)
  BY RawScoreIs
<1>5. Adjusted(raw, ess) \in Int /\ (ess = 0 => Adjusted(raw, ess) = 5000)
  <2>1. PICK product \in Int : product = ess * raw
    OBVIOUS
  <2>2. PICK strength \in Nat : strength = ess + 600 /\ strength # 0
    OBVIOUS
  <2>3. PICK sum \in Int : sum = product + 600 * 5000
    OBVIOUS
  <2>4. Adjusted(raw, ess) = sum \div strength
    BY <2>1, <2>2, <2>3 DEF Adjusted
  <2>5. sum \div strength \in Int
    BY <2>2, QuotientIsInteger
  <2>6. ess = 0 => sum = 3000000 /\ strength = 600
    BY <2>1, <2>2, <2>3
  <2>. QED BY <2>4, <2>5, <2>6
<1>6. PICK adjusted \in Int :
        adjusted = Adjusted(raw, ess) /\ (ess = 0 => adjusted = 5000)
  BY <1>5
<1>7. PICK status \in {"SUPPORTED", "LIMITED"} :
        /\ status = EvidenceStatus(f, weights) /\ status = EvidenceStatus(f, ScoringWeights)
        /\ status = "SUPPORTED" <=> f.relevant # {}
  BY DEF EvidenceStatus, IsFeature
<1>8. PICK relevant_at \in Nat : relevant_at = f.recent.observed
  BY DEF IsFeature
<1>9. PICK band : band = Confidence(confidence)
  OBVIOUS
<1>10. HistoricalFit(f, target, at, weights)
         = [carrier           |-> f.carrier,
            scores            |-> scores,
            adjusted_score    |-> adjusted,
            confidence_score  |-> confidence,
            confidence        |-> band,
            effective_history |-> ess,
            evidence_status   |-> status,
            relevant_at       |-> relevant_at,
            evidence          |-> f.history,
            tie_group         |-> None]
  BY <1>1, <1>2, <1>3, <1>4, <1>6, <1>7, <1>8, <1>9 DEF HistoricalFit
<1>11. PICK fit : fit = HistoricalFit(f, target, at, weights)
  OBVIOUS
<1>12. /\ fit.carrier = f.carrier /\ fit.adjusted_score = adjusted
       /\ fit.confidence_score = confidence /\ fit.effective_history = ess
       /\ fit.evidence_status = status /\ fit.relevant_at = relevant_at
       /\ fit.evidence = f.history
  BY <1>10, <1>11
<1>13. IF status = "SUPPORTED" THEN ess \in 100..(100 * Cardinality(f.history))
       ELSE ess = 0 /\ adjusted = 5000
  BY <1>2, <1>6, <1>7, EffectiveHistoryIs
<1>14. IsFit(fit)
  <2>1. f.carrier \in Nat
    BY DEF IsFeature
  <2>. QED BY <1>12, <1>13, <2>1 DEF IsFit
<1>15. TakesGroup(fit)
  <2> SUFFICES ASSUME NEW g, NEW row, row = [fit EXCEPT !.tie_group = g]
               PROVE  Shows(row, fit) /\ row.tie_group = g
    BY DEF TakesGroup
  <2>1. row = [carrier           |-> f.carrier,
               scores            |-> scores,
               adjusted_score    |-> adjusted,
               confidence_score  |-> confidence,
               confidence        |-> band,
               effective_history |-> ess,
               evidence_status   |-> status,
               relevant_at       |-> relevant_at,
               evidence          |-> f.history,
               tie_group         |-> g]
    BY <1>10, <1>11
  <2>2. /\ row.carrier = f.carrier /\ row.adjusted_score = adjusted
        /\ row.effective_history = ess /\ row.evidence_status = status
        /\ row.evidence = f.history /\ row.tie_group = g
    BY <2>1
  <2>. QED BY <1>12, <2>2 DEF Shows
<1>. QED BY <1>7, <1>11, <1>12, <1>14, <1>15

-----------------------------------------------------------------------------
(* The call order. *)

\* One key comes before another.
Before(k, l) == \E i \in 1..6 : k[i] < l[i] /\ \A j \in 1..(i - 1) : k[j] = l[j]

\* Keys are ordered, and their first two parts are.
LEMMA KeysAreOrdered ==
  ASSUME NEW k \in [1..6 -> Int], NEW l \in [1..6 -> Int]
  PROVE  /\ k[6] # l[6] => Before(k, l) \/ Before(l, k)
         /\ Before(k, l) => k[1] <= l[1] /\ (k[1] = l[1] => k[2] <= l[2])
         /\ \A m \in [1..6 -> Int] : Before(k, l) /\ Before(l, m) => Before(k, m)
<1>1. ASSUME k[6] # l[6] PROVE Before(k, l) \/ Before(l, k)
  <2> DEFINE T == {i \in 1..6 : k[i] # l[i]}
  <2>1. T \in SUBSET Nat /\ 6 \in T
    BY <1>1
  <2>2. PICK i \in T : \A j \in T : i <= j
    <3> HIDE DEF T
    <3>. QED BY <2>1, LeastNumber
  <2>3. \A j \in 1..(i - 1) : k[j] = l[j] /\ l[j] = k[j]
    BY <2>2
  <2>4. k[i] < l[i] \/ l[i] < k[i]
    OBVIOUS
  <2>. QED BY <2>3, <2>4 DEF Before
<1>2. ASSUME Before(k, l) PROVE k[1] <= l[1] /\ (k[1] = l[1] => k[2] <= l[2])
  <2>1. PICK i \in 1..6 : k[i] < l[i] /\ \A j \in 1..(i - 1) : k[j] = l[j]
    BY <1>2 DEF Before
  <2>2. CASE i = 1
    BY <2>1, <2>2
  <2>3. CASE i = 2
    BY <2>1, <2>3
  <2>4. CASE i > 2
    <3>1. 1 \in 1..(i - 1) /\ 2 \in 1..(i - 1)
      BY <2>4
    <3>2. k[1] = l[1] /\ k[2] = l[2] /\ k[1] \in Int /\ k[2] \in Int
      BY <2>1, <3>1
    <3>. QED BY <3>2
  <2>. QED BY <2>2, <2>3, <2>4
<1>3. ASSUME NEW m \in [1..6 -> Int], Before(k, l), Before(l, m) PROVE Before(k, m)
  <2>1. PICK i \in 1..6 : k[i] < l[i] /\ \A j \in 1..(i - 1) : k[j] = l[j]
    BY <1>3 DEF Before
  <2>2. PICK h \in 1..6 : l[h] < m[h] /\ \A j \in 1..(h - 1) : l[j] = m[j]
    BY <1>3 DEF Before
  <2>3. CASE i <= h
    <3>1. \A j \in 1..(i - 1) : k[j] = m[j]
      BY <2>1, <2>2, <2>3
    <3>2. k[i] < m[i]
      <4>1. i = h \/ i \in 1..(h - 1)
        BY <2>3
      <4>2. l[i] <= m[i]
        BY <2>2, <4>1
      <4>. QED BY <2>1, <4>2
    <3>. QED BY <3>1, <3>2 DEF Before
  <2>4. CASE h < i
    <3>1. \A j \in 1..(h - 1) : k[j] = m[j]
      BY <2>1, <2>2, <2>4
    <3>2. k[h] < m[h]
      <4>1. h \in 1..(i - 1)
        BY <2>4
      <4>. QED BY <2>1, <2>2, <4>1
    <3>. QED BY <3>1, <3>2 DEF Before
  <2>. QED BY <2>3, <2>4
<1>. QED BY <1>1, <1>2, <1>3

\* The key a fit is sorted by.
LEMMA SortKeyIs ==
  ASSUME NEW fit, IsFit(fit)
  PROVE  /\ SortKey(fit) \in [1..6 -> Int] /\ SortKey(fit)[6] = fit.carrier
         /\ SortKey(fit)[1] = IF fit.evidence_status = "SUPPORTED" THEN 0 ELSE 1
         /\ SortKey(fit)[2] = -fit.adjusted_score
<1>1. PICK s \in Int : s = IF fit.evidence_status = "SUPPORTED" THEN 0 ELSE 1
  OBVIOUS
<1>2. PICK a \in Int : a = -fit.adjusted_score
  BY DEF IsFit
<1>3. PICK b \in Int : b = -fit.confidence_score
  BY DEF IsFit
<1>4. PICK c \in Int : c = -fit.effective_history
  BY DEF IsFit
<1>5. PICK d \in Int : d = -fit.relevant_at
  BY DEF IsFit
<1>6. PICK e \in Int : e = fit.carrier
  BY DEF IsFit
<1>7. SortKey(fit) = <<s, a, b, c, d, e>>
  BY <1>1, <1>2, <1>3, <1>4, <1>5, <1>6 DEF SortKey
<1>8. <<s, a, b, c, d, e>> \in [1..6 -> Int]
  OBVIOUS
<1>. QED BY <1>1, <1>2, <1>6, <1>7, <1>8

\* The order of the fits of different carriers.
LEMMA CallOrderIs ==
  ASSUME NEW fits, IsFiniteSet(fits), \A p \in fits : IsFit(p),
         \A p, q \in fits : p.carrier = q.carrier => p = q
  PROVE  /\ CallOrder(fits) \in SetToSeqs(fits)
         /\ \A i, j \in DOMAIN CallOrder(fits) :
              i < j => Precedes(CallOrder(fits)[i], CallOrder(fits)[j])
<1> DEFINE R == {p \in fits \X fits : Precedes(p[1], p[2])}
<1>1. \A p, q \in fits : <<p, q>> \in R <=> Precedes(p, q)
  OBVIOUS
<1>2. \A p, q : Precedes(p, q) <=> Before(SortKey(p), SortKey(q))
  BY DEF Precedes, Before
<1>3. \A p \in fits : SortKey(p) \in [1..6 -> Int] /\ SortKey(p)[6] = p.carrier
  BY SortKeyIs
<1> HIDE DEF R
<1>4. Orders(R, fits)
  <2>1. ASSUME NEW x \in fits, NEW y \in fits, x # y
        PROVE  <<x, y>> \in R \/ <<y, x>> \in R
    <3>1. SortKey(x)[6] # SortKey(y)[6]
      BY <1>3, <2>1
    <3>2. Before(SortKey(x), SortKey(y)) \/ Before(SortKey(y), SortKey(x))
      BY <1>3, <3>1, KeysAreOrdered
    <3>. QED BY <1>1, <1>2, <3>2
  <2>2. ASSUME NEW x \in fits, NEW y \in fits, NEW z \in fits,
               <<x, y>> \in R, <<y, z>> \in R
        PROVE  <<x, z>> \in R
    <3>1. Before(SortKey(x), SortKey(y)) /\ Before(SortKey(y), SortKey(z))
      BY <1>1, <1>2, <2>2
    <3>2. Before(SortKey(x), SortKey(z))
      BY <1>3, <3>1, KeysAreOrdered
    <3>. QED BY <1>1, <1>2, <3>2
  <2>. QED BY <2>1, <2>2 DEF Orders
<1>5. PICK s \in SetToSeqs(fits) : Runs(s, R)
  BY <1>4, OrderExists
<1>6. \A i \in DOMAIN s : s[i] \in fits
  BY ElementsOfSeq
<1>7. \A i, j \in DOMAIN s : i < j => Precedes(s[i], s[j])
  BY <1>1, <1>5, <1>6 DEF Runs
<1>. QED BY <1>7 DEF CallOrder

-----------------------------------------------------------------------------
(* Groups, one carrier after the other. *)

\* What AssignTieGroups does with a carrier.
TieStep(done, fit) ==
  IF fit.evidence_status # "SUPPORTED"
  THEN [done EXCEPT !.list = Append(@, fit)]
  ELSE LET opens == \/ done.anchor = None
                    \/ done.anchor - fit.adjusted_score > TieScoreMargin
           group == IF opens THEN done.group + 1 ELSE done.group
       IN  [list   |-> Append(done.list, [fit EXCEPT !.tie_group = group]),
            group  |-> group,
            anchor |-> IF opens THEN fit.adjusted_score ELSE done.anchor]

NoGroups == [list |-> <<>>, group |-> 0, anchor |-> None]

\* done[i] is what it has after the first i carriers of r.
Groups(done, r, n) ==
  /\ done[0] = NoGroups
  /\ \A i \in 1..n : done[i] = TieStep(done[i - 1], r[i])

\* Rows of a ranking of W, and what AssignTieGroups keeps.
Rows(W) == W \cup {[fit EXCEPT !.tie_group = g] : fit \in W, g \in Nat}

Progress(W) == [list: Seq(Rows(W)), group: Nat, anchor: Int \cup {None}]

\* A carrier that is not in the group so far.
Opens(was, fit) == was.anchor = None \/ was.anchor - fit.adjusted_score > TieScoreMargin

\* The difference a step makes.
Progresses(was, fit, next) ==
  IF fit.evidence_status = "SUPPORTED"
  THEN /\ next.group = IF Opens(was, fit) THEN was.group + 1 ELSE was.group
       /\ next.anchor = IF Opens(was, fit) THEN fit.adjusted_score ELSE was.anchor
       /\ next.list = Append(was.list, [fit EXCEPT !.tie_group = next.group])
  ELSE /\ next.group = was.group /\ next.anchor = was.anchor
       /\ next.list = Append(was.list, fit)

\* What a step does.
LEMMA TieStepIs ==
  ASSUME NEW W, NEW was \in Progress(W), NEW fit \in W, fit.adjusted_score \in Int,
         NEW next, next = TieStep(was, fit)
  PROVE  next \in Progress(W) /\ Progresses(was, fit, next)
<1>1. fit \in Rows(W) /\ \A g \in Nat : [fit EXCEPT !.tie_group = g] \in Rows(W)
  BY DEF Rows
<1>2. PICK list \in Seq(Rows(W)), k \in Nat, anchor \in Int \cup {None} :
        was = [list |-> list, group |-> k, anchor |-> anchor]
  BY DEF Progress
<1>3. Append(list, fit) \in Seq(Rows(W))
      /\ \A g \in Nat : Append(list, [fit EXCEPT !.tie_group = g]) \in Seq(Rows(W))
  BY <1>1
<1>4. was.list = list /\ was.group = k /\ was.anchor = anchor
  BY <1>2
<1>5. CASE fit.evidence_status = "SUPPORTED"
  <2> DEFINE g == IF Opens(was, fit) THEN was.group + 1 ELSE was.group
             a == IF Opens(was, fit) THEN fit.adjusted_score ELSE was.anchor
  <2>1. g \in Nat /\ a \in Int \cup {None}
    BY <1>4
  <2>2. next = [list |-> Append(was.list, [fit EXCEPT !.tie_group = g]),
                group |-> g, anchor |-> a]
    BY <1>5, Zenon DEF TieStep, Opens
  <2> HIDE DEF g, a
  <2>3. PICK longer \in Seq(Rows(W)) : longer = Append(was.list, [fit EXCEPT !.tie_group = g])
    BY <1>3, <1>4, <2>1
  <2>4. next = [list |-> longer, group |-> g, anchor |-> a]
    BY <2>2, <2>3
  <2>5. next \in Progress(W) /\ next.group = g /\ next.anchor = a /\ next.list = longer
    BY <2>1, <2>4 DEF Progress
  <2>. QED BY <1>5, <2>3, <2>5 DEF g, a, Progresses
<1>6. CASE fit.evidence_status # "SUPPORTED"
  <2>1. PICK longer \in Seq(Rows(W)) : longer = Append(list, fit)
    BY <1>3
  <2>2. next = [was EXCEPT !.list = longer]
    BY <1>4, <1>6, <2>1 DEF TieStep
  <2>3. [[list |-> list, group |-> k, anchor |-> anchor] EXCEPT !.list = longer]
          = [list |-> longer, group |-> k, anchor |-> anchor]
    OBVIOUS
  <2>4. next = [list |-> longer, group |-> k, anchor |-> anchor]
    BY <1>2, <2>2, <2>3, Zenon
  <2>5. /\ next \in Progress(W) /\ next.group = k /\ next.anchor = anchor
        /\ next.list = longer
    BY <2>4 DEF Progress
  <2>. QED BY <1>4, <1>6, <2>1, <2>5 DEF Progresses
<1>. QED BY <1>5, <1>6

\* AssignTieGroups takes these steps.
LEMMA TieSteps ==
  ASSUME NEW n \in Nat, NEW W, \A fit \in W : fit.adjusted_score \in Int, NEW r \in [1..n -> W]
  PROVE  \E done : Groups(done, r, n) /\ AssignTieGroups(r) = done[n].list
<1> DEFINE D == 1..n
           V == Progress(W)
           comb == [p \in V \X D |-> TieStep(p[1], r[p[2]])]
           Step(s, h) == IF s = {} THEN NoGroups ELSE TieStep(h[s \ {Max(s)}], r[Max(s)])
           iter == CHOOSE h : h = [s \in SUBSET D |-> Step(s, h)]
           done == [i \in 0..n |-> iter[1..i]]
<1>1. NoGroups \in V
  BY DEF NoGroups, Progress
<1>2. \A was \in V, fit \in W : TieStep(was, fit) \in V
  BY TieStepIs
<1> HIDE DEF V
<1>3. comb \in [V \X D -> V]
  <2>1. \A p \in V \X D : p[1] \in V /\ r[p[2]] \in W
    OBVIOUS
  <2>. QED BY <1>2, <2>1
<1>4. PICK g \in [SUBSET D -> V] : Folds(g, NoGroups, comb, n)
  <2> HIDE DEF comb
  <2>. QED BY <1>1, <1>3, FoldExists DEF D
<1>5. ASSUME NEW s \in SUBSET D PROVE g[s] = Step(s, g)
  <2> HIDE DEF comb
  <2>0. g[s] = IF s = {} THEN NoGroups ELSE comb[<<g[s \ {Max(s)}], Max(s)>>]
    BY <1>4 DEF Folds
  <2>1. CASE s = {}
    BY <2>0, <2>1
  <2>2. CASE s # {}
    <3>1. Max(s) \in D
      <4>1. Max(s) \in s
        BY <2>2, MaxIs
      <4>. QED BY <4>1
    <3>2. g[s] = comb[<<g[s \ {Max(s)}], Max(s)>>]
      BY <2>0, <2>2
    <3>3. g[s \ {Max(s)}] \in V
      <4> HIDE DEF D
      <4>. QED OBVIOUS
    <3> HIDE DEF D
    <3>4. comb[<<g[s \ {Max(s)}], Max(s)>>] = TieStep(g[s \ {Max(s)}], r[Max(s)])
      BY <3>1, <3>3 DEF comb
    <3>. QED BY <2>2, <3>2, <3>4
  <2>. QED BY <2>1, <2>2
<1>6. g = [s \in SUBSET D |-> Step(s, g)]
  <2> HIDE DEF Step, comb, D
  <2>. QED BY <1>5
<1> HIDE DEF comb
<1>7. iter = [s \in SUBSET D |-> Step(s, iter)]
  BY <1>6
<1>8. AssignTieGroups(r) = iter[D].list
  <2>1. DOMAIN r = D
    OBVIOUS
  <2>. QED BY <2>1 DEF AssignTieGroups, FoldLeft, MapThenFoldSet, TieStep, NoGroups
<1> HIDE DEF iter
<1>9. iter[1..0] = NoGroups
  BY <1>7
<1>10. ASSUME NEW i \in 1..n PROVE iter[1..i] = TieStep(iter[1..(i - 1)], r[i])
  <2>1. Max(1..i) = i /\ (1..i) \ {Max(1..i)} = 1..(i - 1) /\ 1..i # {}
    <3>1. i \in Nat /\ i # 0
      OBVIOUS
    <3>. QED BY <3>1, LastOfFirst
  <2>2. 1..i \in SUBSET D
    OBVIOUS
  <2>3. iter[1..i] = Step(1..i, iter)
    <3> HIDE DEF Step
    <3>. QED BY <1>7, <2>2
  <2>. QED BY <2>1, <2>3
<1>11. Groups(done, r, n) /\ AssignTieGroups(r) = done[n].list
  <2>1. done[0] = iter[1..0] /\ done[n] = iter[D]
    OBVIOUS
  <2>2. \A i \in 1..n : done[i] = iter[1..i] /\ done[i - 1] = iter[1..(i - 1)]
    OBVIOUS
  <2> HIDE DEF done, D
  <2>. QED BY <1>8, <1>9, <1>10, <2>1, <2>2 DEF Groups
<1>. QED BY <1>11

\* Carriers in order: the supported first, by falling scores.
Sorted(r, n) ==
  \A i, j \in 1..n : i < j /\ r[j].evidence_status = "SUPPORTED" =>
    /\ r[i].evidence_status = "SUPPORTED"
    /\ r[j].adjusted_score <= r[i].adjusted_score

\* After i steps there is a row for each carrier so far, as it is or with the
\* group the step left it in.
RowsSoFar(done, r, W, i) ==
  /\ done[i] \in Progress(W) /\ Len(done[i].list) = i
  /\ \A j \in 1..i :
       done[i].list[j] = IF r[j].evidence_status = "SUPPORTED"
                         THEN [r[j] EXCEPT !.tie_group = done[j].group] ELSE r[j]

\* The steps make these rows.
LEMMA GroupedRows ==
  ASSUME NEW n \in Nat, NEW W, \A fit \in W : fit.adjusted_score \in Int,
         NEW r \in [1..n -> W], NEW done, Groups(done, r, n)
  PROVE  \A i \in 0..n : RowsSoFar(done, r, W, i)
<1> DEFINE row(j) == IF r[j].evidence_status = "SUPPORTED"
                     THEN [r[j] EXCEPT !.tie_group = done[j].group] ELSE r[j]
           P(i) == /\ done[i] \in Progress(W) /\ Len(done[i].list) = i
                   /\ \A j \in 1..i : done[i].list[j] = row(j)
           T == {i \in 0..n : P(i)}
<1>1. P(0)
  BY DEF Groups, NoGroups, Progress
<1>2. ASSUME NEW i \in 1..n, P(i - 1) PROVE P(i)
  <2>1. r[i] \in W /\ r[i].adjusted_score \in Int /\ done[i] = TieStep(done[i - 1], r[i])
    BY DEF Groups
  <2> HIDE DEF row
  <2>2. done[i] \in Progress(W) /\ done[i].list = Append(done[i - 1].list, row(i))
    <3>1. done[i - 1] \in Progress(W)
      BY <1>2
    <3>2. done[i] \in Progress(W) /\ Progresses(done[i - 1], r[i], done[i])
      BY <2>1, <3>1, TieStepIs
    <3>. QED BY <3>2 DEF row, Progresses
  <2>3. PICK list \in Seq(Rows(W)) : list = done[i - 1].list
    BY <1>2 DEF Progress
  <2>4. Len(list) = i - 1 /\ done[i].list = Append(list, row(i))
    BY <1>2, <2>2, <2>3
  <2>5. \A j \in 1..(i - 1) : list[j] = row(j)
    BY <1>2, <2>3
  <2>6. Len(done[i].list) = i /\ \A j \in 1..i : done[i].list[j] = row(j)
    BY <2>4, <2>5
  <2>. QED BY <2>2, <2>6
<1> HIDE DEF P
<1>3. 0 \in T /\ \A i \in 1..n : i - 1 \in T => i \in T
  BY <1>1, <1>2
<1>4. \A i \in 0..n : i \in T
  <2> HIDE DEF T
  <2>. QED BY <1>3, CountUp
<1>. QED BY <1>4 DEF P, row, RowsSoFar

\* A supported carrier is in the group that the one at h opened.
InGroup(done, r, i, h) ==
  /\ h \in 1..i /\ done[i].anchor = r[h].adjusted_score
  /\ r[h].adjusted_score - r[i].adjusted_score <= TieScoreMargin
  /\ \A m \in h..i : done[m].group = done[i].group
  /\ \A m \in 1..(h - 1) : done[m].group < done[i].group

\* Each supported carrier is in a group that one at or before it opened.
LEMMA GroupsHaveHeads ==
  ASSUME NEW n \in Nat, NEW W, \A fit \in W : fit.adjusted_score \in Int,
         NEW r \in [1..n -> W], Sorted(r, n), NEW done, Groups(done, r, n)
  PROVE  \A i \in 1..n : r[i].evidence_status = "SUPPORTED" => \E h : InGroup(done, r, i, h)
<1> DEFINE P(i) == i # 0 /\ r[i].evidence_status = "SUPPORTED" => \E h : InGroup(done, r, i, h)
           T == {i \in 0..n : P(i)}
<1>1. \A i \in 0..n : done[i] \in Progress(W) /\ done[i].group \in Nat
  BY GroupedRows DEF Progress, RowsSoFar
<1>2. ASSUME NEW i \in 1..n, P(i - 1), r[i].evidence_status = "SUPPORTED"
      PROVE  \E h : InGroup(done, r, i, h)
  <2>1. /\ r[i] \in W /\ r[i].adjusted_score \in Int
        /\ done[i - 1] \in Progress(W) /\ done[i] = TieStep(done[i - 1], r[i])
    BY <1>1 DEF Groups
  <2>2. /\ done[i].group = IF Opens(done[i - 1], r[i]) THEN done[i - 1].group + 1
                           ELSE done[i - 1].group
        /\ done[i].anchor = IF Opens(done[i - 1], r[i]) THEN r[i].adjusted_score
                            ELSE done[i - 1].anchor
    <3>1. Progresses(done[i - 1], r[i], done[i])
      BY <2>1, TieStepIs
    <3>. QED BY <1>2, <3>1 DEF Progresses
  <2>3. CASE i = 1
    <3>1. done[0].anchor = None
      BY DEF Groups, NoGroups
    <3>2. Opens(done[i - 1], r[i])
      BY <2>3, <3>1 DEF Opens
    <3>3. InGroup(done, r, i, 1)
      BY <2>1, <2>2, <2>3, <3>2 DEF InGroup, TieScoreMargin
    <3>. QED BY <3>3
  <2>4. CASE i # 1
    <3>1. r[i - 1].evidence_status = "SUPPORTED" /\ i - 1 # 0
      BY <1>2, <2>4 DEF Sorted
    <3>2. PICK h : InGroup(done, r, i - 1, h)
      BY <1>2, <3>1
    <3>3. h \in 1..(i - 1) /\ r[h].adjusted_score \in Int
      BY <3>2 DEF InGroup
    <3>4. \A m \in 1..(i - 1) : done[m].group <= done[i - 1].group
      <4>1. \A m \in 1..(i - 1) : m \in h..(i - 1) \/ m \in 1..(h - 1)
        BY <3>3
      <4>2. PICK top : top = done[i - 1].group
        OBVIOUS
      <4>3. \A m \in h..(i - 1) : done[m].group = top
        BY <3>2, <4>2 DEF InGroup
      <4>4. \A m \in 1..(h - 1) : done[m].group < top
        BY <3>2, <4>2 DEF InGroup
      <4>5. top \in Nat
        BY <1>1, <4>2
      <4>6. SUFFICES ASSUME NEW m \in 1..(i - 1) PROVE done[m].group <= top
        BY <4>2
      <4>7. CASE m \in h..(i - 1)
        BY <4>3, <4>5, <4>7
      <4>8. CASE m \in 1..(h - 1)
        <5>1. done[m].group \in Nat
          BY <1>1
        <5>. QED BY <4>4, <4>5, <4>8, <5>1
      <4>. QED BY <4>1, <4>7, <4>8
    <3>5. CASE Opens(done[i - 1], r[i])
      <4>1. done[i].group = done[i - 1].group + 1 /\ done[i].anchor = r[i].adjusted_score
        BY <2>2, <3>5
      <4>2. \A m \in 1..(i - 1) : done[m].group < done[i].group
        BY <1>1, <3>4, <4>1
      <4>3. InGroup(done, r, i, i)
        BY <2>1, <4>1, <4>2 DEF InGroup, TieScoreMargin
      <4>. QED BY <4>3
    <3>6. CASE ~Opens(done[i - 1], r[i])
      <4>1. done[i].group = done[i - 1].group /\ done[i].anchor = r[h].adjusted_score
        BY <2>2, <3>2, <3>6 DEF InGroup
      <4>2. r[h].adjusted_score - r[i].adjusted_score <= TieScoreMargin
        BY <2>1, <3>2, <3>3, <3>6 DEF Opens, InGroup, TieScoreMargin
      <4>3. \A m \in h..i : m = i \/ m \in h..(i - 1)
        BY <3>3
      <4>4. InGroup(done, r, i, h)
        BY <3>2, <3>3, <4>1, <4>2, <4>3 DEF InGroup
      <4>. QED BY <4>4
    <3>. QED BY <3>5, <3>6
  <2>. QED BY <2>3, <2>4
<1>3. 0 \in T /\ \A i \in 1..n : i - 1 \in T => i \in T
  BY <1>2
<1>4. \A i \in 0..n : i \in T
  <2> HIDE DEF T
  <2>. QED BY <1>3, CountUp
<1>. QED BY <1>4

\* Groups follow the order and are narrow, and their first carriers are apart.
NarrowGroups(done, r, i, j) ==
  /\ done[i].group <= done[j].group
  /\ done[i].group = done[j].group =>
       r[i].adjusted_score - r[j].adjusted_score <= TieScoreMargin
  /\ (/\ \A k \in 1..(i - 1) : done[k].group # done[i].group
      /\ \A k \in 1..(j - 1) : done[k].group # done[j].group)
       => r[i].adjusted_score - r[j].adjusted_score > TieScoreMargin
  /\ i = 1 /\ j = 2 =>
       (done[i].group = done[j].group <=>
          r[i].adjusted_score - r[j].adjusted_score <= TieScoreMargin)

\* The groups of a ranking are, of the supported.
LEMMA GroupsAreNarrow ==
  ASSUME NEW n \in Nat, NEW W, \A fit \in W : fit.adjusted_score \in Int,
         NEW r \in [1..n -> W], Sorted(r, n), NEW done, Groups(done, r, n),
         NEW i \in 1..n, NEW j \in 1..n, i < j, r[j].evidence_status = "SUPPORTED"
  PROVE  NarrowGroups(done, r, i, j)
<1>1. \A m \in 0..n : done[m] \in Progress(W) /\ done[m].group \in Nat
  BY GroupedRows DEF Progress, RowsSoFar
<1>2. \A m \in 1..n : r[m].adjusted_score \in Int
  OBVIOUS
<1>3. \A m \in 1..j : r[m].evidence_status = "SUPPORTED"
  BY DEF Sorted
<1>4. PICK h : InGroup(done, r, j, h)
  BY GroupsHaveHeads
<1>5. h \in 1..j
  BY <1>4 DEF InGroup
<1>6. done[i].group <= done[j].group
  <2>1. i \in h..j \/ i \in 1..(h - 1)
    BY <1>5
  <2>. QED BY <1>1, <1>4, <2>1 DEF InGroup
<1>7. ASSUME done[i].group = done[j].group
      PROVE  r[i].adjusted_score - r[j].adjusted_score <= TieScoreMargin
  <2>1. h <= i
    <3>1. i \in 1..(h - 1) => FALSE
      BY <1>1, <1>4, <1>7 DEF InGroup
    <3>. QED BY <1>5, <3>1
  <2>2. r[i].adjusted_score <= r[h].adjusted_score
    <3>1. h = i \/ h < i
      BY <1>5, <2>1
    <3>. QED BY <1>2, <1>3, <1>5, <3>1 DEF Sorted
  <2>. QED BY <1>2, <1>4, <1>5, <2>2 DEF InGroup, TieScoreMargin
<1>8. j - 1 \in 1..n /\ r[j - 1].evidence_status = "SUPPORTED"
  BY <1>3
<1>9. PICK g : InGroup(done, r, j - 1, g)
  BY <1>8, GroupsHaveHeads
<1>10. g \in 1..(j - 1) /\ done[j - 1].anchor = r[g].adjusted_score
  BY <1>8, <1>9 DEF InGroup
<1>11. done[j].group = IF r[g].adjusted_score - r[j].adjusted_score > TieScoreMargin
                       THEN done[j - 1].group + 1 ELSE done[j - 1].group
  <2>1. done[j] = TieStep(done[j - 1], r[j]) /\ r[j] \in W /\ r[j].adjusted_score \in Int
    BY DEF Groups
  <2>2. done[j - 1] \in Progress(W)
    BY <1>1, <1>8
  <2>3. done[j].group = IF Opens(done[j - 1], r[j]) THEN done[j - 1].group + 1
                        ELSE done[j - 1].group
    <3>1. Progresses(done[j - 1], r[j], done[j])
      BY <2>1, <2>2, TieStepIs
    <3>. QED BY <3>1 DEF Progresses
  <2>4. done[j - 1].anchor # None
    BY <1>2, <1>10, NoneAssumption
  <2>. QED BY <1>10, <2>3, <2>4 DEF Opens
<1>12. ASSUME \A k \in 1..(i - 1) : done[k].group # done[i].group,
              \A k \in 1..(j - 1) : done[k].group # done[j].group
       PROVE  r[i].adjusted_score - r[j].adjusted_score > TieScoreMargin
  <2>1. done[j - 1].group # done[j].group
    BY <1>8, <1>12
  <2>2. r[g].adjusted_score - r[j].adjusted_score > TieScoreMargin
    BY <1>11, <2>1
  <2>3. i <= g
    <3> SUFFICES ASSUME g < i PROVE FALSE
      BY <1>10
    <3>1. i \in g..(j - 1) /\ g \in g..(j - 1) /\ g \in 1..(i - 1)
      BY <1>10
    <3>2. done[i].group = done[j - 1].group /\ done[g].group = done[j - 1].group
      BY <1>9, <3>1 DEF InGroup
    <3>. QED BY <1>12, <3>1, <3>2
  <2>4. r[g].adjusted_score <= r[i].adjusted_score
    <3>1. g = i \/ i < g
      BY <1>10, <2>3
    <3>2. g \in 1..n /\ r[g].evidence_status = "SUPPORTED"
      BY <1>3, <1>10
    <3>. QED BY <1>2, <3>1, <3>2 DEF Sorted
  <2>. QED BY <1>2, <1>10, <2>2, <2>4 DEF TieScoreMargin
<1>13. ASSUME i = 1, j = 2
       PROVE  done[i].group = done[j].group <=>
                r[i].adjusted_score - r[j].adjusted_score <= TieScoreMargin
  <2>1. g = 1 /\ j - 1 = i
    BY <1>10, <1>13
  <2>. QED BY <1>1, <1>2, <1>11, <1>13, <2>1 DEF TieScoreMargin
<1>. QED BY <1>6, <1>7, <1>12, <1>13 DEF NarrowGroups

-----------------------------------------------------------------------------
(* The supported carriers of a ranking. *)

\* What Supported does with a carrier.
Filtered(list, fit) == IF fit.evidence_status = "SUPPORTED" THEN Append(list, fit) ELSE list

\* Supported takes these steps.
LEMMA SupportedSteps ==
  ASSUME NEW n \in Nat, NEW X, NEW s \in [1..n -> X]
  PROVE  \E list : /\ list[0] = <<>> /\ list[n] = Supported(s)
                   /\ \A i \in 1..n : list[i] = Filtered(list[i - 1], s[i])
<1> DEFINE D == 1..n
           V == Seq(X)
           comb == [p \in V \X D |-> Filtered(p[1], s[p[2]])]
           Step(d, h) == IF d = {} THEN <<>> ELSE Filtered(h[d \ {Max(d)}], s[Max(d)])
           iter == CHOOSE h : h = [d \in SUBSET D |-> Step(d, h)]
           list == [i \in 0..n |-> iter[1..i]]
<1>1. <<>> \in V
  OBVIOUS
<1>2. \A was \in V, fit \in X : Filtered(was, fit) \in V
  BY DEF Filtered
<1> HIDE DEF V
<1>3. comb \in [V \X D -> V]
  <2>1. \A p \in V \X D : p[1] \in V /\ s[p[2]] \in X
    OBVIOUS
  <2>. QED BY <1>2, <2>1
<1>4. PICK g \in [SUBSET D -> V] : Folds(g, <<>>, comb, n)
  <2> HIDE DEF comb
  <2>. QED BY <1>1, <1>3, FoldExists DEF D
<1>5. ASSUME NEW d \in SUBSET D PROVE g[d] = Step(d, g)
  <2> HIDE DEF comb
  <2>0. g[d] = IF d = {} THEN <<>> ELSE comb[<<g[d \ {Max(d)}], Max(d)>>]
    BY <1>4 DEF Folds
  <2>1. CASE d = {}
    BY <2>0, <2>1
  <2>2. CASE d # {}
    <3>1. Max(d) \in D
      <4>1. Max(d) \in d
        BY <2>2, MaxIs
      <4>. QED BY <4>1
    <3>2. g[d] = comb[<<g[d \ {Max(d)}], Max(d)>>]
      BY <2>0, <2>2
    <3>3. g[d \ {Max(d)}] \in V
      <4> HIDE DEF D
      <4>. QED OBVIOUS
    <3> HIDE DEF D
    <3>4. comb[<<g[d \ {Max(d)}], Max(d)>>] = Filtered(g[d \ {Max(d)}], s[Max(d)])
      BY <3>1, <3>3 DEF comb
    <3>. QED BY <2>2, <3>2, <3>4
  <2>. QED BY <2>1, <2>2
<1>6. g = [d \in SUBSET D |-> Step(d, g)]
  <2> HIDE DEF Step, comb, D
  <2>. QED BY <1>5
<1> HIDE DEF comb
<1>7. iter = [d \in SUBSET D |-> Step(d, iter)]
  BY <1>6
<1>8. Supported(s) = iter[D]
  <2>1. DOMAIN s = D
    OBVIOUS
  <2>. QED BY <2>1 DEF Supported, FoldLeft, MapThenFoldSet, Filtered
<1> HIDE DEF iter
<1>9. iter[1..0] = <<>>
  BY <1>7
<1>10. ASSUME NEW i \in 1..n PROVE iter[1..i] = Filtered(iter[1..(i - 1)], s[i])
  <2>1. Max(1..i) = i /\ (1..i) \ {Max(1..i)} = 1..(i - 1) /\ 1..i # {}
    <3>1. i \in Nat /\ i # 0
      OBVIOUS
    <3>. QED BY <3>1, LastOfFirst
  <2>2. 1..i \in SUBSET D
    OBVIOUS
  <2>3. iter[1..i] = Step(1..i, iter)
    <3> HIDE DEF Step
    <3>. QED BY <1>7, <2>2
  <2>. QED BY <2>1, <2>3
<1>11. list[0] = iter[1..0] /\ list[n] = iter[D]
  OBVIOUS
<1>12. \A i \in 1..n : list[i] = iter[1..i] /\ list[i - 1] = iter[1..(i - 1)]
  OBVIOUS
<1> HIDE DEF list, D
<1>. QED BY <1>8, <1>9, <1>10, <1>11, <1>12

\* The supported carriers come first, and are a ranking of their own.
LEMMA SupportedIs ==
  ASSUME NEW n \in Nat, NEW X, NEW s \in [1..n -> X],
         \A i, j \in 1..n : i < j /\ s[j].evidence_status = "SUPPORTED" =>
           s[i].evidence_status = "SUPPORTED"
  PROVE  \E k \in 0..n :
           /\ Supported(s) \in Seq(X) /\ Len(Supported(s)) = k /\ DOMAIN Supported(s) = 1..k
           /\ \A i \in 1..k : Supported(s)[i] = s[i]
           /\ \A i \in 1..n : s[i].evidence_status = "SUPPORTED" <=> i <= k
<1>1. PICK list : /\ list[0] = <<>> /\ list[n] = Supported(s)
                  /\ \A i \in 1..n : list[i] = Filtered(list[i - 1], s[i])
  BY SupportedSteps
<1> DEFINE P(i) == /\ list[i] \in Seq(X) /\ Len(list[i]) <= i
                   /\ \A j \in 1..Len(list[i]) : list[i][j] = s[j]
                   /\ \A j \in 1..i : s[j].evidence_status = "SUPPORTED" <=> j <= Len(list[i])
           T == {i \in 0..n : P(i)}
<1>2. P(0)
  BY <1>1
<1>3. ASSUME NEW i \in 1..n, P(i - 1) PROVE P(i)
  <2>1. PICK was \in Seq(X) : was = list[i - 1]
    BY <1>3
  <2>2. PICK k \in Nat : k = Len(was)
    OBVIOUS
  <2>3. /\ k <= i - 1 /\ \A j \in 1..k : was[j] = s[j]
        /\ \A j \in 1..(i - 1) : s[j].evidence_status = "SUPPORTED" <=> j <= k
    BY <1>3, <2>1, <2>2
  <2>4. list[i] = Filtered(was, s[i]) /\ s[i] \in X
    BY <1>1, <2>1
  <2>5. CASE s[i].evidence_status = "SUPPORTED"
    <3>1. k = i - 1
      <4>1. \A j \in 1..(i - 1) : j <= k
        BY <2>3, <2>5
      <4>2. i - 1 # 0 => i - 1 \in 1..(i - 1)
        OBVIOUS
      <4>. QED BY <2>3, <4>1, <4>2
    <3>2. list[i] = Append(was, s[i])
      BY <2>4, <2>5 DEF Filtered
    <3>3. /\ Append(was, s[i]) \in Seq(X) /\ Len(Append(was, s[i])) = i
          /\ \A j \in 1..i : Append(was, s[i])[j] = IF j = i THEN s[i] ELSE was[j]
      <4>1. PICK fit \in X : fit = s[i]
        BY <2>4
      <4>2. Len(was) = i - 1
        BY <2>2, <3>1
      <4>3. /\ Append(was, fit) \in Seq(X) /\ Len(Append(was, fit)) = i
            /\ \A j \in 1..i : Append(was, fit)[j] = IF j = i THEN fit ELSE was[j]
        BY <4>2
      <4>. QED BY <4>1, <4>3
    <3>4. \A j \in 1..i : s[j].evidence_status = "SUPPORTED"
      BY <2>3, <2>5, <3>1
    <3>5. \A j \in 1..i : list[i][j] = s[j]
      BY <2>3, <3>1, <3>2, <3>3
    <3>. QED BY <3>2, <3>3, <3>4, <3>5
  <2>6. CASE s[i].evidence_status # "SUPPORTED"
    <3>1. list[i] = was
      BY <2>4, <2>6 DEF Filtered
    <3>2. \A j \in 1..i : s[j].evidence_status = "SUPPORTED" <=> j <= k
      BY <2>3, <2>6
    <3>. QED BY <2>2, <2>3, <3>1, <3>2
  <2>. QED BY <2>5, <2>6
<1> HIDE DEF P
<1>4. 0 \in T /\ \A i \in 1..n : i - 1 \in T => i \in T
  BY <1>2, <1>3
<1>5. \A i \in 0..n : i \in T
  <2> HIDE DEF T
  <2>. QED BY <1>4, CountUp
<1>6. P(n)
  BY <1>5
<1>7. PICK k : k = Len(Supported(s))
  OBVIOUS
<1>8. Supported(s) \in Seq(X) /\ k \in 0..n /\ DOMAIN Supported(s) = 1..k
  BY <1>1, <1>6, <1>7 DEF P
<1>. QED BY <1>1, <1>6, <1>7, <1>8 DEF P

-----------------------------------------------------------------------------
(* A ranking. *)

\* Whether a row before another in a ranking s may stand where it does.
StandsBefore(s, i, j) ==
  s[j].evidence_status = "SUPPORTED" =>
    /\ s[i].evidence_status = "SUPPORTED"
    /\ s[i].tie_group <= s[j].tie_group
    /\ s[i].tie_group = s[j].tie_group =>
         s[i].adjusted_score - s[j].adjusted_score <= TieScoreMargin
    /\ (/\ \A k \in 1..(i - 1) : s[k].tie_group # s[i].tie_group
        /\ \A k \in 1..(j - 1) : s[k].tie_group # s[j].tie_group)
         => s[i].adjusted_score - s[j].adjusted_score > TieScoreMargin
    /\ i = 1 /\ j = 2 =>
         (s[i].tie_group = s[j].tie_group <=>
            s[i].adjusted_score - s[j].adjusted_score <= TieScoreMargin)

\* Evidence is worth what it may, and nothing when there is none.
IsWorth(fit) ==
  IF fit.evidence_status = "SUPPORTED"
  THEN fit.effective_history \in 100..(100 * Cardinality(fit.evidence))
  ELSE fit.effective_history = 0 /\ fit.adjusted_score = 5000

\* The row of a carrier with some features.
IsRowOf(row, f) ==
  row.carrier = f.carrier /\ row.evidence_status = EvidenceStatus(f, ScoringWeights)

\* s ranks the carriers of the features F, each once.
IsRanking(s, n, F) ==
  /\ n \in Nat /\ Len(s) = n /\ DOMAIN s = 1..n /\ s \in [1..n -> ToSet(s)]
  /\ \A i \in 1..n : IsWorth(s[i]) /\ \E f \in F : IsRowOf(s[i], f)
  /\ \A f \in F : \E i \in 1..n : IsRowOf(s[i], f)
  /\ \A i, j \in 1..n : s[i].carrier = s[j].carrier => i = j
  /\ \A i, j \in 1..n : i < j => StandsBefore(s, i, j)

\* Precedence of fits puts the supported first, by falling scores.
LEMMA PrecedesSorts ==
  ASSUME NEW p, IsFit(p), NEW q, IsFit(q), Precedes(p, q), q.evidence_status = "SUPPORTED"
  PROVE  p.evidence_status = "SUPPORTED" /\ q.adjusted_score <= p.adjusted_score
<1>1. PICK k \in [1..6 -> Int] : k = SortKey(p)
  BY SortKeyIs
<1>2. PICK l \in [1..6 -> Int] : l = SortKey(q)
  BY SortKeyIs
<1>3. Before(k, l)
  BY <1>1, <1>2 DEF Precedes, Before
<1>4. k[1] <= l[1] /\ (k[1] = l[1] => k[2] <= l[2])
  BY <1>3, KeysAreOrdered
<1>5. /\ k[1] = IF p.evidence_status = "SUPPORTED" THEN 0 ELSE 1
      /\ l[1] = 0 /\ k[2] = -p.adjusted_score /\ l[2] = -q.adjusted_score
  BY <1>1, <1>2, SortKeyIs
<1>6. p.evidence_status = "SUPPORTED" /\ k[2] <= l[2]
  BY <1>4, <1>5
<1>7. p.adjusted_score \in Int /\ q.adjusted_score \in Int
  BY DEF IsFit
<1>. QED BY <1>5, <1>6, <1>7

\* What the score of features of different carriers is.
LEMMA ScoreIsARanking ==
  ASSUME NEW F, IsFiniteSet(F), \A f \in F : IsFeature(f),
         \A f, g \in F : f.carrier = g.carrier => f = g,
         NEW target, target.lane \in Lanes, NEW at \in 0..Horizon,
         NEW weights \in [Components -> Nat]
  PROVE  \E n : IsRanking(Score(F, target, at, weights), n, F)
<1> DEFINE fit(f) == HistoricalFit(f, target, at, weights)
           fits == {fit(f) : f \in F}
           n == Cardinality(fits)
           r == CallOrder(fits)
           s == Score(F, target, at, weights)
<1>1. \A f \in F : /\ IsFit(fit(f)) /\ TakesGroup(fit(f)) /\ fit(f).carrier = f.carrier
                   /\ fit(f).evidence_status = EvidenceStatus(f, ScoringWeights)
  BY FitIs
<1>2. s = AssignTieGroups(r)
  BY DEF Score
<1>3. IsFiniteSet(fits)
  <2> DEFINE g == [f \in F |-> fit(f)]
  <2>1. g \in Surjection(F, fits)
    <3> HIDE DEF fit
    <3>. QED BY DEF Surjection
  <2> HIDE DEF g, fits
  <2>. QED BY <2>1, FS_Surjection DEF ExistsSurjection
<1> HIDE DEF fit, r, s
<1>4. \A p \in fits : IsFit(p) /\ TakesGroup(p) /\ \E f \in F : IsRowOf(p, f)
  BY <1>1 DEF IsRowOf
<1>5. \A f \in F : \E p \in fits : IsRowOf(p, f)
  BY <1>1 DEF IsRowOf
<1>6. \A p, q \in fits : p.carrier = q.carrier => p = q
  <2> SUFFICES ASSUME NEW f \in F, NEW g \in F, fit(f).carrier = fit(g).carrier
               PROVE  fit(f) = fit(g)
    OBVIOUS
  <2>. QED BY <1>1
<1> HIDE DEF fits
<1>7. /\ r \in SetToSeqs(fits)
      /\ \A i, j \in DOMAIN r : i < j => Precedes(r[i], r[j])
  BY <1>3, <1>4, <1>6, CallOrderIs DEF r
<1>8. /\ n \in Nat /\ DOMAIN r = 1..n /\ r \in [1..n -> fits]
      /\ \A i, j \in 1..n : r[i] = r[j] => i = j
      /\ \A p \in fits : \E i \in 1..n : r[i] = p
  <2> HIDE DEF n
  <2>1. /\ n \in Nat /\ r \in Seq(fits) /\ Len(r) = n /\ DOMAIN r = 1..n
        /\ \A i, j \in DOMAIN r : r[i] = r[j] => i = j
        /\ \A p \in fits : \E i \in DOMAIN r : r[i] = p
    BY <1>3, <1>7, ElementsOfSeq DEF n
  <2>. QED BY <2>1
<1> HIDE DEF n
<1>9. \A i \in 1..n : /\ r[i] \in fits /\ IsFit(r[i]) /\ TakesGroup(r[i])
                      /\ r[i].adjusted_score \in Int
  BY <1>4, <1>8 DEF IsFit
<1>10. Sorted(r, n)
  <2> SUFFICES ASSUME NEW i \in 1..n, NEW j \in 1..n, i < j,
                      r[j].evidence_status = "SUPPORTED"
               PROVE  /\ r[i].evidence_status = "SUPPORTED"
                      /\ r[j].adjusted_score <= r[i].adjusted_score
    BY DEF Sorted
  <2>1. Precedes(r[i], r[j])
    BY <1>7, <1>8
  <2>. QED BY <1>9, <2>1, PrecedesSorts
<1>11. \A p \in fits : p.adjusted_score \in Int
  BY <1>4 DEF IsFit
<1>12. PICK done : Groups(done, r, n) /\ s = done[n].list
  BY <1>2, <1>8, <1>11, TieSteps
<1>13. /\ done[n] \in Progress(fits) /\ Len(s) = n
       /\ \A j \in 1..n : s[j] = IF r[j].evidence_status = "SUPPORTED"
                                 THEN [r[j] EXCEPT !.tie_group = done[j].group] ELSE r[j]
  <2>1. \A i \in 0..n : RowsSoFar(done, r, fits, i)
    BY <1>8, <1>11, <1>12, GroupedRows
  <2>2. n \in 0..n
    BY <1>8
  <2>. QED BY <1>12, <2>1, <2>2 DEF RowsSoFar
<1>14. s \in Seq(Rows(fits))
  BY <1>12, <1>13 DEF Progress
<1>15. DOMAIN s = 1..n /\ s \in [1..n -> ToSet(s)]
  BY <1>13, <1>14 DEF ToSet
<1>16. ASSUME NEW i \in 1..n
       PROVE  /\ Shows(s[i], r[i])
              /\ r[i].evidence_status = "SUPPORTED" => s[i].tie_group = done[i].group
  <2>1. CASE r[i].evidence_status = "SUPPORTED"
    <3>1. s[i] = [r[i] EXCEPT !.tie_group = done[i].group]
      BY <1>13, <2>1
    <3>. QED BY <1>9, <3>1 DEF TakesGroup
  <2>2. CASE r[i].evidence_status # "SUPPORTED"
    <3>1. s[i] = r[i]
      BY <1>13, <2>2
    <3>. QED BY <2>2, <3>1 DEF Shows
  <2>. QED BY <2>1, <2>2
<1>17. ASSUME NEW i \in 1..n PROVE IsWorth(s[i]) /\ \E f \in F : IsRowOf(s[i], f)
  <2>1. IsWorth(s[i])
    BY <1>9, <1>16 DEF Shows, IsFit, IsWorth
  <2>2. PICK f \in F : IsRowOf(r[i], f)
    BY <1>4, <1>9
  <2>. QED BY <1>16, <2>1, <2>2 DEF Shows, IsRowOf
<1>18. ASSUME NEW f \in F PROVE \E i \in 1..n : IsRowOf(s[i], f)
  <2>1. PICK i \in 1..n : IsRowOf(r[i], f)
    BY <1>5, <1>8
  <2>. QED BY <1>16, <2>1 DEF Shows, IsRowOf
<1>19. \A i, j \in 1..n : s[i].carrier = s[j].carrier => i = j
  <2> SUFFICES ASSUME NEW i \in 1..n, NEW j \in 1..n, s[i].carrier = s[j].carrier
               PROVE  i = j
    OBVIOUS
  <2>1. r[i].carrier = r[j].carrier
    BY <1>16 DEF Shows
  <2>. QED BY <1>6, <1>8, <1>9, <2>1
<1>20. ASSUME NEW i \in 1..n, NEW j \in 1..n, i < j PROVE StandsBefore(s, i, j)
  <2> SUFFICES ASSUME r[j].evidence_status = "SUPPORTED" PROVE StandsBefore(s, i, j)
    BY <1>16 DEF StandsBefore, Shows
  <2>1. NarrowGroups(done, r, i, j)
    BY <1>8, <1>10, <1>11, <1>12, <1>20, GroupsAreNarrow
  <2>2. \A k \in 1..j : k \in 1..n /\ r[k].evidence_status = "SUPPORTED"
    <3>1. \A k \in 1..j : k \in 1..n /\ (k = j \/ k < j)
      BY <1>8
    <3>. QED BY <1>10, <3>1 DEF Sorted
  <2>3. \A k \in 1..j : /\ s[k].tie_group = done[k].group
                        /\ s[k].adjusted_score = r[k].adjusted_score
                        /\ s[k].evidence_status = "SUPPORTED"
    BY <1>16, <2>2 DEF Shows
  <2>4. /\ i \in 1..j /\ j \in 1..j
        /\ \A k \in 1..(i - 1) : k \in 1..j
        /\ \A k \in 1..(j - 1) : k \in 1..j
    BY <1>20
  <2>. QED BY <2>1, <2>3, <2>4 DEF StandsBefore, NarrowGroups
<1>21. IsRanking(s, n, F)
  BY <1>8, <1>13, <1>15, <1>17, <1>18, <1>19, <1>20 DEF IsRanking
<1>. QED BY <1>21 DEF s

-----------------------------------------------------------------------------
(* The cases of the evaluation. *)

\* The version a case is ranked at, and the features it is ranked from.
TargetOf(l) == Oldest(Active(l))

CandidatesOf(l) == Features(versions, first, TargetOf(l), TargetOf(l).observed)

\* The features of a case are those of different carriers.
LEMMA CandidatesAre ==
  ASSUME RankingInv, NEW l \in CaseLoads
  PROVE  /\ TargetOf(l).lane \in Lanes /\ TargetOf(l).observed \in 0..Horizon
         /\ IsFiniteSet(CandidatesOf(l)) /\ \A f \in CandidatesOf(l) : IsFeature(f)
         /\ \A f, g \in CandidatesOf(l) : f.carrier = g.carrier => f = g
<1>1. Typed
  BY DEF RankingInv
<1>2. PICK target \in versions : target = TargetOf(l)
  <2>1. Active(l) \in SUBSET versions /\ Active(l) # {}
    BY DEF CaseLoads, Active, VersionsOf
  <2>. QED BY <1>1, <2>1, OldestAndNewest DEF TargetOf
<1>3. target.lane \in Lanes /\ target.observed \in 0..Horizon
  BY <1>1, TablesAssumption DEF Typed, Row
<1> DEFINE at == target.observed
           completed == Completed(versions, target, at)
           known == {c \in Carriers : first[c] # None /\ first[c] <= at}
           chosen == known \cap {v.carrier : v \in completed}
           feature(c) == FeaturesOf(c, completed, target)
           F == {feature(c) : c \in chosen}
<1>4. F = CandidatesOf(l)
  BY <1>2 DEF CandidatesOf, Features
<1>5. completed \in SUBSET versions /\ IsFiniteSet(completed)
  <2>1. completed \in SUBSET versions
    BY DEF Completed, KnownAt
  <2>. QED BY <1>1, <2>1, FS_Subset DEF Typed
<1> HIDE DEF completed
<1>6. ASSUME NEW c \in chosen PROVE IsFeature(feature(c)) /\ feature(c).carrier = c
  <2>1. c \in Carriers /\ \E v \in completed : v.carrier = c
    OBVIOUS
  <2>2. IsFeature(feature(c))
    BY <1>1, <1>3, <1>5, <2>1, FeatureIs
  <2>3. feature(c).carrier = c
    BY DEF FeaturesOf
  <2>. QED BY <2>2, <2>3
<1>7. IsFiniteSet(F)
  <2> DEFINE V == {v \in completed : v.carrier \in known}
             g == [v \in V |-> feature(v.carrier)]
  <2>1. IsFiniteSet(V)
    BY <1>5, FS_Subset
  <2>2. g \in Surjection(V, F)
    <3> HIDE DEF feature, known
    <3>. QED BY DEF Surjection
  <2> HIDE DEF g, V, F
  <2>. QED BY <2>1, <2>2, FS_Surjection DEF ExistsSurjection
<1>8. \A f \in F : IsFeature(f)
  BY <1>6
<1>9. \A f, g \in F : f.carrier = g.carrier => f = g
  <2> SUFFICES ASSUME NEW c \in chosen, NEW d \in chosen,
                      feature(c).carrier = feature(d).carrier
               PROVE  feature(c) = feature(d)
    OBVIOUS
  <2> HIDE DEF feature, chosen
  <2>. QED BY <1>6
<1>. QED BY <1>2, <1>3, <1>4, <1>7, <1>8, <1>9

\* A case is ranked.
LEMMA CaseIsRanked ==
  ASSUME RankingInv, NEW l \in CaseLoads, NEW weights \in {ScoringWeights} \cup Ablations
  PROVE  \E n : IsRanking(RankCase(l, weights).scored, n, CandidatesOf(l))
<1>1. weights \in [Components -> Nat]
  BY WeightsAreNumbers
<1>2. \E n : IsRanking(Score(CandidatesOf(l), TargetOf(l), TargetOf(l).observed, weights), n,
                       CandidatesOf(l))
  BY <1>1, CandidatesAre, ScoreIsARanking
<1>3. RankCase(l, weights).scored
        = Score(CandidatesOf(l), TargetOf(l), TargetOf(l).observed, weights)
  BY DEF RankCase, Ranking, CandidatesOf, TargetOf
<1>. QED BY <1>2, <1>3

\* The supported of a ranking are its first.
LEMMA SupportedComeFirst ==
  ASSUME NEW s, NEW n, NEW F, IsRanking(s, n, F)
  PROVE  \E k \in 0..n :
           /\ Len(Supported(s)) = k /\ DOMAIN Supported(s) = 1..k
           /\ Supported(s) \in Seq(ToSet(s))
           /\ \A i \in 1..k : Supported(s)[i] = s[i]
           /\ \A i \in 1..n : s[i].evidence_status = "SUPPORTED" <=> i <= k
<1>1. n \in Nat /\ s \in [1..n -> ToSet(s)]
  BY DEF IsRanking
<1>2. \A i, j \in 1..n : i < j /\ s[j].evidence_status = "SUPPORTED" =>
        s[i].evidence_status = "SUPPORTED"
  BY DEF IsRanking, StandsBefore
<1>. QED BY <1>1, <1>2, SupportedIs

\* A load counts once however many components it is evidence of.
THEOREM LoadsCountOnce == Spec => []EvidenceCountsOnce
<1>1. RankingInv => EvidenceCountsOnce
  <2> SUFFICES ASSUME RankingInv, NEW l \in CaseLoads, NEW s,
                      s = RankCase(l, ScoringWeights).scored, NEW fit \in ToSet(s)
               PROVE  IsWorth(fit)
    BY DEF EvidenceCountsOnce, Fits, EvaluatedCases, IsWorth
  <2>1. PICK n : IsRanking(s, n, CandidatesOf(l))
    BY CaseIsRanked
  <2>2. PICK i \in 1..n : fit = s[i]
    BY <2>1 DEF IsRanking, ToSet
  <2>. QED BY <2>1, <2>2 DEF IsRanking
<1>. QED BY <1>1, RankingInvariant, PTL

\* Each carrier with a load that was completed by the cutoff of a case is in
\* its ranking, while files come in order, and a rebuild changes no row.
THEOREM HistoriesAreRanked == Spec => []EveryHistoryIsRanked
<1>1. RankingInv => EveryHistoryIsRanked
  <2> SUFFICES ASSUME RankingInv PROVE EveryHistoryIsRanked
    OBVIOUS
  <2>1. EveryHistoryIsACandidate
    BY HistoriesAreCandidates
  <2>2. ASSUME NEW l \in CaseLoads, NEW c \in Carriers, first[c] = FirstObserved(c),
               HasHistory(c, l, TargetOf(l).observed),
               NEW s, s = RankCase(l, ScoringWeights).scored
        PROVE  \E fit \in ToSet(s) : fit.carrier = c
    <3>1. PICK f \in CandidatesOf(l) : f.carrier = c
      BY <2>1, <2>2 DEF EveryHistoryIsACandidate, CandidatesOf, TargetOf
    <3>2. PICK n : IsRanking(s, n, CandidatesOf(l))
      BY <2>2, CaseIsRanked
    <3>3. PICK i \in 1..n : IsRowOf(s[i], f)
      BY <3>1, <3>2 DEF IsRanking
    <3>4. s[i] \in ToSet(s)
      BY <3>2 DEF IsRanking
    <3>. QED BY <3>1, <3>3, <3>4 DEF IsRowOf
  <2>3. ASSUME NEW case \in EvaluatedCases(ScoringWeights), NEW c \in Carriers,
               first[c] = FirstObserved(c),
               HasHistory(c, case.load, Oldest(Active(case.load)).observed)
        PROVE  c \in {fit.carrier : fit \in ToSet(case.scored)}
    <3>1. PICK l \in CaseLoads : case = RankCase(l, ScoringWeights)
      BY DEF EvaluatedCases
    <3>2. case.load = l
      BY <3>1 DEF RankCase
    <3>3. \E fit \in ToSet(case.scored) : fit.carrier = c
      BY <2>2, <2>3, <3>1, <3>2 DEF TargetOf
    <3>. QED BY <3>3
  <2>. QED BY <2>1, <2>3 DEF EveryHistoryIsRanked, EveryHistoryIsACandidate
<1>. QED BY <1>1, RankingInvariant, PTL

\* What a case says of its load.
CaseSays(case, l) ==
  LET label == {fit \in ToSet(case.scored) : fit.carrier = case.booked}
  IN  /\ case.load = l /\ case.booked = Newest(Booked(l)).carrier
      /\ case.supported = Supported(case.scored)
      /\ case.tied <=> /\ Len(case.supported) > 1
                       /\ case.supported[1].tie_group = case.supported[2].tie_group
      /\ case.all_candidate_no_rank_reason # None <=> case.scored = <<>> \/ label = {}
      /\ case.supported_no_rank_reason # None
           <=> ~\E fit \in label : fit.evidence_status = "SUPPORTED"

\* Every case does.
LEMMA CaseIs ==
  ASSUME NEW l, NEW weights
  PROVE  CaseSays(RankCase(l, weights), l)
<1> DEFINE case == RankCase(l, weights)
           booked == Newest(Booked(l)).carrier
           s == Ranking(versions, first, Oldest(Active(l)), Oldest(Active(l)).observed, weights)
           p == Supported(s)
           seen == {fit \in ToSet(s) : fit.carrier = booked}
           tied == Len(p) > 1 /\ p[1].tie_group = p[2].tie_group
           one == IF s = <<>> THEN "NO_CANDIDATES_AT_CUTOFF"
                  ELSE IF seen = {} THEN "BOOKED_CARRIER_NOT_CANDIDATE_AT_CUTOFF" ELSE None
           other == IF \E fit \in seen : fit.evidence_status = "SUPPORTED" THEN None
                    ELSE IF seen # {} THEN "BOOKED_CARRIER_LIMITED_RELEVANT_HISTORY"
                    ELSE IF p = <<>> THEN "NO_SUPPORTED_CANDIDATES_AT_CUTOFF"
                    ELSE "BOOKED_CARRIER_NOT_SUPPORTED_AT_CUTOFF"
<1>1. case = [load |-> l, booked |-> booked, scored |-> s, supported |-> p, tied |-> tied,
              all_candidate_no_rank_reason |-> one, supported_no_rank_reason |-> other]
  BY Zenon DEF RankCase
<1>2. one # None <=> s = <<>> \/ seen = {}
  <2>1. /\ "NO_CANDIDATES_AT_CUTOFF" # None
        /\ "BOOKED_CARRIER_NOT_CANDIDATE_AT_CUTOFF" # None
    BY NoneAssumption DEF NoRankReasons
  <2> HIDE DEF s, seen
  <2>. QED BY <2>1
<1>3. other # None <=> ~\E fit \in seen : fit.evidence_status = "SUPPORTED"
  <2>1. /\ "BOOKED_CARRIER_LIMITED_RELEVANT_HISTORY" # None
        /\ "NO_SUPPORTED_CANDIDATES_AT_CUTOFF" # None
        /\ "BOOKED_CARRIER_NOT_SUPPORTED_AT_CUTOFF" # None
    BY NoneAssumption DEF NoRankReasons
  <2> HIDE DEF seen, p
  <2>. QED BY <2>1
<1> HIDE DEF one, other, tied, case
<1>4. /\ case.load = l /\ case.booked = booked /\ case.scored = s /\ case.supported = p
      /\ case.tied = tied /\ case.all_candidate_no_rank_reason = one
      /\ case.supported_no_rank_reason = other
  <2> HIDE DEF s, p, booked
  <2>. QED BY <1>1
<1>5. {fit \in ToSet(case.scored) : fit.carrier = case.booked} = seen
  BY <1>4
<1>6. case.tied <=> Len(case.supported) > 1
                    /\ case.supported[1].tie_group = case.supported[2].tie_group
  BY <1>4 DEF tied
<1> HIDE DEF s, p, booked, seen
<1>7. CaseSays(case, l)
  BY <1>2, <1>3, <1>4, <1>5, <1>6 DEF CaseSays, p, booked
<1>. QED BY <1>7 DEF case

\* Where a carrier is in a list that has it at most once.
LEMMA RankIs ==
  ASSUME NEW case, NEW list, NEW m \in Nat, DOMAIN list = 1..m,
         \A i, j \in 1..m : list[i].carrier = list[j].carrier => i = j
  PROVE  /\ Rank(case, list) = None <=> ~\E i \in 1..m : list[i].carrier = case.booked
         /\ \A i \in 1..m : list[i].carrier = case.booked => Rank(case, list) = i
<1> DEFINE found == {i \in DOMAIN list : list[i].carrier = case.booked}
<1>1. ASSUME NEW i \in 1..m, list[i].carrier = case.booked PROVE Rank(case, list) = i
  <2>1. found = {i}
    BY <1>1
  <2>2. Min({i}) = i
    BY DEF Min
  <2>. QED BY <2>1, <2>2 DEF Rank
<1>2. ASSUME ~\E i \in 1..m : list[i].carrier = case.booked PROVE Rank(case, list) = None
  <2>1. found = {}
    BY <1>2
  <2>. QED BY <2>1 DEF Rank
<1>3. \A i \in 1..m : i # None
  BY NoneAssumption
<1>. QED BY <1>1, <1>2, <1>3

\* Whether a case is ranked is a matter of the features, not of the weights.
RanksLike(case, F) ==
  /\ Rank(case, case.scored) = None <=> case.all_candidate_no_rank_reason # None
  /\ Rank(case, case.supported) = None <=> case.supported_no_rank_reason # None
  /\ Rank(case, case.supported) \in {None, Rank(case, case.scored)}
  /\ Rank(case, case.scored) # None <=> \E f \in F : f.carrier = case.booked
  /\ Rank(case, case.supported) # None <=>
       \E f \in F : /\ f.carrier = case.booked
                    /\ EvidenceStatus(f, ScoringWeights) = "SUPPORTED"

\* Every case does.
LEMMA CaseRanksLike ==
  ASSUME RankingInv, NEW l \in CaseLoads, NEW weights \in {ScoringWeights} \cup Ablations,
         NEW case, case = RankCase(l, weights)
  PROVE  RanksLike(case, CandidatesOf(l))
<1>1. PICK n : IsRanking(case.scored, n, CandidatesOf(l))
  BY CaseIsRanked
<1>2. PICK s : s = case.scored
  OBVIOUS
<1>3. PICK k \in 0..n :
        /\ DOMAIN Supported(s) = 1..k
        /\ \A i \in 1..k : Supported(s)[i] = s[i]
        /\ \A i \in 1..n : s[i].evidence_status = "SUPPORTED" <=> i <= k
  BY <1>1, <1>2, SupportedComeFirst
<1>4. PICK p : p = Supported(s)
  OBVIOUS
<1>5. PICK booked : booked = case.booked
  OBVIOUS
<1>6. PICK label : label = {fit \in ToSet(s) : fit.carrier = booked}
  OBVIOUS
<1>7. /\ case.booked = booked /\ case.supported = p
      /\ case.all_candidate_no_rank_reason # None <=> s = <<>> \/ label = {}
      /\ case.supported_no_rank_reason # None
           <=> ~\E fit \in label : fit.evidence_status = "SUPPORTED"
  <2>1. CaseSays(case, l)
    BY CaseIs
  <2>. QED BY <1>2, <1>4, <1>5, <1>6, <2>1 DEF CaseSays
<1>8. /\ n \in Nat /\ DOMAIN s = 1..n
      /\ \A i, j \in 1..n : s[i].carrier = s[j].carrier => i = j
      /\ \A i \in 1..n : \E f \in CandidatesOf(l) : IsRowOf(s[i], f)
      /\ \A f \in CandidatesOf(l) : \E i \in 1..n : IsRowOf(s[i], f)
  BY <1>1, <1>2 DEF IsRanking
<1>9. ToSet(s) = {s[i] : i \in 1..n}
  BY <1>8 DEF ToSet
<1>10. /\ Rank(case, s) = None <=> ~\E i \in 1..n : s[i].carrier = booked
       /\ \A i \in 1..n : s[i].carrier = booked => Rank(case, s) = i
  BY <1>7, <1>8, RankIs
<1>11. /\ k \in Nat /\ DOMAIN p = 1..k /\ \A i \in 1..k : i \in 1..n /\ p[i] = s[i]
       /\ \A i, j \in 1..k : p[i].carrier = p[j].carrier => i = j
  <2>1. k \in Nat /\ \A i \in 1..k : i \in 1..n
    BY <1>8
  <2>2. DOMAIN p = 1..k /\ \A i \in 1..k : p[i] = s[i]
    BY <1>3, <1>4
  <2>3. ASSUME NEW i \in 1..k, NEW j \in 1..k, p[i].carrier = p[j].carrier PROVE i = j
    BY <1>8, <2>1, <2>2, <2>3
  <2>. QED BY <2>1, <2>2, <2>3
<1>12. /\ Rank(case, p) = None <=> ~\E i \in 1..k : p[i].carrier = booked
       /\ \A i \in 1..k : p[i].carrier = booked => Rank(case, p) = i
  BY <1>7, <1>11, RankIs
<1>13. Rank(case, s) = None <=> s = <<>> \/ label = {}
  <2>1. label = {} <=> ~\E i \in 1..n : s[i].carrier = booked
    BY <1>6, <1>9
  <2>2. s = <<>> => label = {}
    <3>1. s = <<>> => ToSet(s) = {}
      BY DEF ToSet
    <3>. QED BY <1>6, <3>1
  <2>. QED BY <1>10, <2>1, <2>2
<1>14. \A i \in 1..n : i <= k <=> i \in 1..k
  BY <1>11
<1>15. Rank(case, p) = None <=> ~\E fit \in label : fit.evidence_status = "SUPPORTED"
  BY <1>3, <1>6, <1>9, <1>11, <1>12, <1>14
<1>16. Rank(case, p) \in {None, Rank(case, s)}
  BY <1>10, <1>11, <1>12
<1>17. Rank(case, s) # None <=> \E f \in CandidatesOf(l) : f.carrier = booked
  BY <1>8, <1>10 DEF IsRowOf
<1>18. Rank(case, p) # None <=>
         \E f \in CandidatesOf(l) : /\ f.carrier = booked
                                    /\ EvidenceStatus(f, ScoringWeights) = "SUPPORTED"
  <2>1. Rank(case, p) # None <=>
          \E i \in 1..n : s[i].carrier = booked /\ s[i].evidence_status = "SUPPORTED"
    BY <1>3, <1>11, <1>12, <1>14
  <2>. QED BY <1>8, <2>1 DEF IsRowOf
<1>. QED BY <1>2, <1>7, <1>13, <1>15, <1>16, <1>17, <1>18 DEF RanksLike

\* The loads of the cases that are ranked.
RankedLoads(weights, only) ==
  {l \in CaseLoads : \E case \in {RankCase(l, weights)} :
                       Rank(case, IF only THEN case.supported ELSE case.scored) # None}

\* Whatever weight is taken away, a case is ranked or has a reason not to be.
THEOREM CasesAreAccountedFor == Spec => []EveryCaseIsAccountedFor
<1>1. RankingInv => EveryCaseIsAccountedFor
  <2> SUFFICES ASSUME RankingInv PROVE EveryCaseIsAccountedFor
    OBVIOUS
  <2>1. ASSUME NEW weights, NEW only \in BOOLEAN
        PROVE  {case.load : case \in ScoredCases(EvaluatedCases(weights), only)}
                 = RankedLoads(weights, only)
    <3>1. \A l : RankCase(l, weights).load = l
      BY DEF RankCase
    <3> DEFINE ranked(case) == Rank(case, IF only THEN case.supported ELSE case.scored) # None
    <3>2. ScoredCases(EvaluatedCases(weights), only)
            = {case \in {RankCase(l, weights) : l \in CaseLoads} : ranked(case)}
      BY DEF ScoredCases, EvaluatedCases
    <3>3. RankedLoads(weights, only) = {l \in CaseLoads : ranked(RankCase(l, weights))}
      BY DEF RankedLoads
    <3> HIDE DEF ranked
    <3>. QED BY <3>1, <3>2, <3>3
  <2>2. ASSUME NEW weights \in {ScoringWeights} \cup Ablations, NEW only \in BOOLEAN
        PROVE  RankedLoads(weights, only) = RankedLoads(ScoringWeights, only)
    <3> SUFFICES ASSUME NEW l \in CaseLoads, NEW case, case = RankCase(l, weights),
                        NEW plain, plain = RankCase(l, ScoringWeights)
                 PROVE  /\ Rank(case, case.scored) = None <=> Rank(plain, plain.scored) = None
                        /\ Rank(case, case.supported) = None
                             <=> Rank(plain, plain.supported) = None
      BY DEF RankedLoads
    <3>1. RanksLike(case, CandidatesOf(l)) /\ RanksLike(plain, CandidatesOf(l))
      BY CaseRanksLike
    <3>2. case.booked = plain.booked
      <4>1. CaseSays(case, l) /\ CaseSays(plain, l)
        BY CaseIs
      <4>. QED BY <4>1 DEF CaseSays
    <3>. QED BY <3>1, <3>2 DEF RanksLike
  <2>3. ASSUME NEW weights \in {ScoringWeights} \cup Ablations,
               NEW case \in EvaluatedCases(weights)
        PROVE  /\ Rank(case, case.scored) = None <=> case.all_candidate_no_rank_reason # None
               /\ Rank(case, case.supported) = None <=> case.supported_no_rank_reason # None
               /\ Rank(case, case.supported) \in {None, Rank(case, case.scored)}
    <3>1. PICK l \in CaseLoads : case = RankCase(l, weights)
      BY DEF EvaluatedCases
    <3>2. RanksLike(case, CandidatesOf(l))
      BY <3>1, CaseRanksLike
    <3>. QED BY <3>2 DEF RanksLike
  <2>4. ASSUME NEW weights \in {ScoringWeights} \cup Ablations, NEW only \in BOOLEAN
        PROVE  {case.load : case \in ScoredCases(EvaluatedCases(weights), only)}
                 = {case.load : case \in ScoredCases(EvaluatedCases(ScoringWeights), only)}
    BY <2>1, <2>2
  <2>. QED BY <2>3, <2>4, Zenon DEF EveryCaseIsAccountedFor
<1>. QED BY <1>1, RankingInvariant, PTL

\* Fit groups are narrow, follow the order, and are apart; the first two
\* carriers of a case are tied when they are within the margin.
THEOREM FitGroupsNarrow == Spec => []FitGroupsAreNarrow
<1>1. RankingInv => FitGroupsAreNarrow
  <2> SUFFICES ASSUME RankingInv, NEW l \in CaseLoads,
                      NEW case, case = RankCase(l, ScoringWeights)
               PROVE  /\ case.tied <=>
                           /\ Len(case.supported) > 1
                           /\ case.supported[1].adjusted_score
                                - case.supported[2].adjusted_score <= TieScoreMargin
                      /\ \A i, j \in DOMAIN case.supported : i < j =>
                           LET one   == case.supported[i]
                               other == case.supported[j]
                               heads ==
                                 \A k \in DOMAIN case.supported :
                                   /\ k < i => case.supported[k].tie_group # one.tie_group
                                   /\ k < j => case.supported[k].tie_group # other.tie_group
                           IN  /\ one.tie_group <= other.tie_group
                               /\ one.tie_group = other.tie_group =>
                                    one.adjusted_score - other.adjusted_score <= TieScoreMargin
                               /\ heads =>
                                    one.adjusted_score - other.adjusted_score > TieScoreMargin
    BY Zenon DEF FitGroupsAreNarrow, EvaluatedCases
  <2>1. PICK s : s = case.scored
    OBVIOUS
  <2>2. PICK n : IsRanking(s, n, CandidatesOf(l))
    BY <2>1, CaseIsRanked
  <2>3. PICK p : p = case.supported
    OBVIOUS
  <2>4. /\ p = Supported(s)
        /\ case.tied <=> Len(p) > 1 /\ p[1].tie_group = p[2].tie_group
    <3>1. CaseSays(case, l)
      BY CaseIs
    <3>. QED BY <2>1, <2>3, <3>1 DEF CaseSays
  <2>5. PICK k \in 0..n :
          /\ Len(p) = k /\ DOMAIN p = 1..k
          /\ \A i \in 1..k : p[i] = s[i]
          /\ \A i \in 1..n : s[i].evidence_status = "SUPPORTED" <=> i <= k
    BY <2>2, <2>4, SupportedComeFirst
  <2>6. n \in Nat /\ \A i, j \in 1..n : i < j => StandsBefore(s, i, j)
    BY <2>2 DEF IsRanking
  <2>7. k \in Nat /\ \A i \in 1..k : i \in 1..n /\ s[i].evidence_status = "SUPPORTED"
    BY <2>5, <2>6
  <2>8. case.tied <=>
          Len(p) > 1 /\ p[1].adjusted_score - p[2].adjusted_score <= TieScoreMargin
    <3>1. k > 1 => 1 \in 1..k /\ 2 \in 1..k
      BY <2>7
    <3>2. k > 1 => StandsBefore(s, 1, 2)
      BY <2>6, <2>7, <3>1
    <3>3. k > 1 => (s[1].tie_group = s[2].tie_group <=>
                      s[1].adjusted_score - s[2].adjusted_score <= TieScoreMargin)
      BY <2>7, <3>1, <3>2 DEF StandsBefore
    <3>. QED BY <2>4, <2>5, <3>1, <3>3
  <2>9. ASSUME NEW i \in DOMAIN p, NEW j \in DOMAIN p, i < j
        PROVE  /\ p[i].tie_group <= p[j].tie_group
               /\ p[i].tie_group = p[j].tie_group =>
                    p[i].adjusted_score - p[j].adjusted_score <= TieScoreMargin
               /\ (\A m \in DOMAIN p : /\ m < i => p[m].tie_group # p[i].tie_group
                                       /\ m < j => p[m].tie_group # p[j].tie_group)
                    => p[i].adjusted_score - p[j].adjusted_score > TieScoreMargin
    <3>1. i \in 1..k /\ j \in 1..k
      BY <2>5
    <3>2. StandsBefore(s, i, j) /\ s[j].evidence_status = "SUPPORTED"
      BY <2>6, <2>7, <2>9, <3>1
    <3>3. \A m \in 1..(j - 1) : m \in DOMAIN p /\ m < j /\ p[m] = s[m]
      BY <2>5, <2>7, <3>1
    <3>4. \A m \in 1..(i - 1) : m \in DOMAIN p /\ m < i /\ p[m] = s[m]
      BY <2>5, <2>7, <3>1
    <3>5. p[i] = s[i] /\ p[j] = s[j]
      BY <2>5, <3>1
    <3>6. ASSUME \A m \in DOMAIN p : /\ m < i => p[m].tie_group # p[i].tie_group
                                     /\ m < j => p[m].tie_group # p[j].tie_group
          PROVE  p[i].adjusted_score - p[j].adjusted_score > TieScoreMargin
      <4>1. \A m \in 1..(i - 1) : s[m].tie_group # s[i].tie_group
        BY <3>4, <3>5, <3>6
      <4>2. \A m \in 1..(j - 1) : s[m].tie_group # s[j].tie_group
        BY <3>3, <3>5, <3>6
      <4>. QED BY <3>2, <3>5, <4>1, <4>2 DEF StandsBefore
    <3>7. /\ p[i].tie_group <= p[j].tie_group
          /\ p[i].tie_group = p[j].tie_group =>
               p[i].adjusted_score - p[j].adjusted_score <= TieScoreMargin
      BY <3>2, <3>5 DEF StandsBefore
    <3>. QED BY <3>6, <3>7
  <2>. QED BY <2>3, <2>8, <2>9
<1>. QED BY <1>1, RankingInvariant, PTL
=============================================================================
