---------------------------- MODULE RankingBacktest ----------------------------
(***************************************************************************)
(* Rankings that are made while the history of a tenant is delivered, and  *)
(* the evaluation that makes them again afterwards                         *)
(* (decisioning/ranking_evaluation.py): every load that was once active    *)
(* and once had a carrier is a case, ranked as of its first active version *)
(* and judged by the carrier it was last seen with.                        *)
(*                                                                         *)
(* A sync carries one new version of one load and takes a tick.  It is     *)
(* ingested at once, or held back and ingested later.  What a version does *)
(* to the projections is SnapshotIngestion's subject; here the versions    *)
(* and the first observation of the carriers are enough.                   *)
(***************************************************************************)
EXTENDS CarrierRanking

CONSTANTS
  Loads,
  Stories,    \* what may happen to the loads: to each, a sequence of states
  MaxHeld     \* how many syncs are held back, until one of them comes late

Snapshot == [status: STRING, carrier: Carriers \cup {None}, equipment: STRING, lane: Lanes]

ASSUME StoriesAssumption == Stories \subseteq [Loads -> Seq(Snapshot)]

\* Why a case may have no rank.
NoRankReasons ==
  {"NO_CANDIDATES_AT_CUTOFF", "BOOKED_CARRIER_NOT_CANDIDATE_AT_CUTOFF",
   "BOOKED_CARRIER_LIMITED_RELEVANT_HISTORY", "NO_SUPPORTED_CANDIDATES_AT_CUTOFF",
   "BOOKED_CARRIER_NOT_SUPPORTED_AT_CUTOFF"}

ASSUME NoneAssumption == None \notin Int \cup NoRankReasons

VARIABLES
  story,
  now,             \* the tick of the last sync
  told,            \* how much of each load's story is in the syncs so far
  held,            \* versions whose sync is held back
  versions,        \* load_versions
  first,           \* carriers.first_observed_at, None where there is no row
  chronological,   \* no sync was ingested after a newer one
  live             \* the rankings of the decisions so far

vars == <<story, now, told, held, versions, first, chronological, live>>

Init ==
  /\ story \in Stories
  /\ now = 0
  /\ told = [l \in Loads |-> 0]
  /\ held = {}
  /\ versions = {}
  /\ first = [c \in Carriers |-> None]
  /\ chronological = TRUE
  /\ live = {}

-----------------------------------------------------------------------------
(* What ingestion and the rebuild do to the rows that a ranking reads. *)

\* Faulty variant of FirstWith: each mention is the first.
FirstWithEach(v) ==
  IF v.carrier = None THEN first ELSE [first EXCEPT ![v.carrier] = v.observed]

\* Faulty variant of FirstWith: a booked carrier is not known yet.
FirstWithCompleted(v) ==
  IF v.status # "COMPLETED" \/ first[v.carrier] # None THEN first
  ELSE [first EXCEPT ![v.carrier] = v.observed]

\* _carrier: the row is created with the time of the file that names it first.
FirstWith(v) ==
  IF v.carrier = None \/ first[v.carrier] # None THEN first
  ELSE [first EXCEPT ![v.carrier] = v.observed]

Ingest(v) ==
  /\ versions' = versions \cup {v}
  /\ first' = FirstWith(v)
  /\ chronological' = (chronological /\ \A w \in versions : w.observed < v.observed)

\* The version that a sync makes of a state of a load.
VersionOf(l, state, tick) ==
  [load |-> l, observed |-> tick, status |-> state.status, carrier |-> state.carrier,
   equipment |-> state.equipment, lane |-> state.lane]

\* The next state of a load, in the sync of this tick.
Sync(l) ==
  /\ told[l] < Len(story[l])
  /\ now < Horizon
  /\ told' = [told EXCEPT ![l] = @ + 1]
  /\ now' = now + 1
  /\ \E v \in {VersionOf(l, story[l][told[l] + 1], now + 1)} :
       \/ Ingest(v) /\ UNCHANGED held
       \/ /\ Cardinality(held) < MaxHeld
          /\ chronological
          /\ held' = held \cup {v}
          /\ UNCHANGED <<versions, first, chronological>>
  /\ UNCHANGED <<story, live>>

IngestHeld(v) ==
  /\ v \in held
  /\ held' = held \ {v}
  /\ Ingest(v)
  /\ UNCHANGED <<story, now, told, live>>

FirstObserved(c) ==
  IF \E v \in versions : v.carrier = c
  THEN Min({v.observed : v \in {v \in versions : v.carrier = c}})
  ELSE first[c]

\* _rebuild_carriers: the earliest version that names the carrier.
Rebuild ==
  /\ first' = [c \in Carriers |-> FirstObserved(c)]
  /\ UNCHANGED <<story, now, told, held, versions, chronological, live>>

VersionsOf(l) == {v \in versions : v.load = l}

\* A decision on the version an active load shows; one that is there is reused.
Decide(l) ==
  /\ VersionsOf(l) # {}
  /\ \E target \in {Newest(VersionsOf(l))} :
       /\ target.status = "ACTIVE"
       /\ \A d \in live : d.load = l => d.at # target.observed
       /\ live' = live \cup
            {[load    |-> l,
              at      |-> target.observed,
              ranking |-> Ranking(versions, first, target, target.observed, ScoringWeights)]}
  /\ UNCHANGED <<story, now, told, held, versions, first, chronological>>

Next ==
  \/ \E l \in Loads : Sync(l)
  \/ \E v \in held : IngestHeld(v)
  \/ Rebuild
  \/ \E l \in Loads : Decide(l)

Spec == Init /\ [][Next]_vars

-----------------------------------------------------------------------------
(* The evaluation: RankingBacktestHarness.run. *)

Oldest(S) == CHOOSE v \in S : \A w \in S : v.observed <= w.observed

Active(l) == {v \in VersionsOf(l) : v.status = "ACTIVE"}

Booked(l) == {v \in VersionsOf(l) : v.carrier # None}

CaseLoads == {l \in Loads : Active(l) # {} /\ Booked(l) # {}}

Supported(scored) ==
  FoldLeft(LAMBDA list, fit :
             IF fit.evidence_status = "SUPPORTED" THEN Append(list, fit) ELSE list,
           <<>>, scored)

\* A case ranked with some weights, at its first ACTIVE.
RankCase(l, weights) ==
  LET target    == Oldest(Active(l))
      booked    == Newest(Booked(l)).carrier
      scored    == Ranking(versions, first, target, target.observed, weights)
      supported == Supported(scored)
      label     == {fit \in ToSet(scored) : fit.carrier = booked}
  IN  [load      |-> l,
       booked    |-> booked,
       scored    |-> scored,
       supported |-> supported,
       tied      |-> Len(supported) > 1 /\ supported[1].tie_group = supported[2].tie_group,
       all_candidate_no_rank_reason |->
         IF scored = <<>> THEN "NO_CANDIDATES_AT_CUTOFF"
         ELSE IF label = {} THEN "BOOKED_CARRIER_NOT_CANDIDATE_AT_CUTOFF" ELSE None,
       supported_no_rank_reason |->
         IF \E fit \in label : fit.evidence_status = "SUPPORTED" THEN None
         ELSE IF label # {} THEN "BOOKED_CARRIER_LIMITED_RELEVANT_HISTORY"
         ELSE IF supported = <<>> THEN "NO_SUPPORTED_CANDIDATES_AT_CUTOFF"
         ELSE "BOOKED_CARRIER_NOT_SUPPORTED_AT_CUTOFF"]

\* Where the booked carrier is in the order, or None.
Rank(case, list) ==
  LET found == {i \in DOMAIN list : list[i].carrier = case.booked}
  IN  IF found = {} THEN None ELSE Min(found)

ScoredCases(cases, supported_only) ==
  {case \in cases :
     Rank(case, IF supported_only THEN case.supported ELSE case.scored) # None}

Ablations == {Without(component) : component \in Components}

EvaluatedCases(weights) == {RankCase(l, weights) : l \in CaseLoads}

-----------------------------------------------------------------------------
(* Properties. *)

Row == [load: Loads, observed: 1..now, status: STRING, carrier: Carriers \cup {None},
        equipment: STRING, lane: Lanes]

\* Types; a tick has one sync, and a carrier with a version has a row.
TypeOK ==
  /\ versions \cup held \subseteq Row
  /\ \A v, w \in versions \cup held : v.observed = w.observed => v = w
  /\ versions \cap held = {}
  /\ \A v \in versions : v.carrier # None => first[v.carrier] # None
  /\ \A d \in live : d.load \in Loads /\ d.at \in 1..now

\* ranking_evaluation.py is "leakage-safe": as long as files come in order, a
\* case is ranked after the fact exactly as the decision at its first ACTIVE
\* ranked it, scores, groups and evidence, whatever happened since.
ReplaysMatchLive ==
  chronological =>
    \A case \in EvaluatedCases(ScoringWeights) : \A d \in live :
      d.load = case.load /\ d.at = Oldest(Active(d.load)).observed
        => d.ranking = case.scored

HasHistory(c, l, at) ==
  \E target \in {Oldest(Active(l))} :
    \E v \in Completed(versions, target, at) : v.carrier = c

\* While files come in order the row of a carrier says what a rebuild would say
\* of its first observation.  In any order, each carrier whose row says so and
\* that had a completed load by the cutoff is a candidate: a late file can hide
\* those alone whose row it has left behind, until the next rebuild.
EveryHistoryIsRanked ==
  /\ chronological => \A c \in Carriers : first[c] = FirstObserved(c)
  /\ \A case \in EvaluatedCases(ScoringWeights) :
       \A c \in Carriers :
         /\ first[c] = FirstObserved(c)
         /\ HasHistory(c, case.load, Oldest(Active(case.load)).observed)
         => c \in {fit.carrier : fit \in ToSet(case.scored)}

Fits == UNION {ToSet(case.scored) : case \in EvaluatedCases(ScoringWeights)}

\* A load counts once however many components it is evidence of: the history
\* of a carrier is worth one load or more, and no more than it has loads; one
\* without support stays exactly neutral.
EvidenceCountsOnce ==
  \A fit \in Fits :
    IF fit.evidence_status = "SUPPORTED"
    THEN fit.effective_history \in 100..(100 * Cardinality(fit.evidence))
    ELSE fit.effective_history = 0 /\ fit.adjusted_score = 5000

\* Whatever weight is taken away, a case is ranked or has a reason not to be,
\* the same cases are, of the same candidates, and among the supported a
\* carrier has the rank it has among all.
EveryCaseIsAccountedFor ==
  \E plain \in {EvaluatedCases(ScoringWeights)} :
    \A weights \in {ScoringWeights} \cup Ablations :
      \E cases \in {EvaluatedCases(weights)} :
        /\ \A case \in cases :
             /\ Rank(case, case.scored) = None <=> case.all_candidate_no_rank_reason # None
             /\ Rank(case, case.supported) = None <=> case.supported_no_rank_reason # None
             /\ Rank(case, case.supported) \in {None, Rank(case, case.scored)}
        /\ \A only \in BOOLEAN : {case.load : case \in ScoredCases(cases, only)} =
                                 {case.load : case \in ScoredCases(plain, only)}

\* Supported carriers of one fit group are within the margin of two points, and
\* groups follow the order; the first ones of two groups are further apart.  A
\* case counts as tied when its first two carriers are within the margin.
FitGroupsAreNarrow ==
  \A case \in EvaluatedCases(ScoringWeights) :
    /\ case.tied <=>
         /\ Len(case.supported) > 1
         /\ case.supported[1].adjusted_score - case.supported[2].adjusted_score
              <= TieScoreMargin
    /\ \A i, j \in DOMAIN case.supported : i < j =>
      LET one   == case.supported[i]
          other == case.supported[j]
          heads == \A k \in DOMAIN case.supported :
                     /\ k < i => case.supported[k].tie_group # one.tie_group
                     /\ k < j => case.supported[k].tie_group # other.tie_group
      IN  /\ one.tie_group <= other.tie_group
          /\ one.tie_group = other.tie_group =>
               one.adjusted_score - other.adjusted_score <= TieScoreMargin
          /\ heads => one.adjusted_score - other.adjusted_score > TieScoreMargin

=============================================================================
