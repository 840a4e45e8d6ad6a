---------------------------- MODULE CarrierRanking ----------------------------
(***************************************************************************)
(* Which carriers of a tenant fit an active load best, by what its history *)
(* said at a time: the features of a carrier                               *)
(* (decisioning/carrier_features.py), its score and its place in the call  *)
(* order (decisioning/carrier_scoring.py).                                 *)
(*                                                                         *)
(* The operators are functions of a history H, the versions in the         *)
(* database, and of First, when the row of each carrier says it was first  *)
(* observed.  One sync of a tenant is one tick, so a version is told by    *)
(* its load and its tick, and no two versions of a load tie.               *)
(*                                                                         *)
(* The exponentials are tables.  Shares are whole percents or per mille,   *)
(* scores hundredths of a point, sample sizes hundredths: what the code    *)
(* computes in Decimal is rounded down here.                               *)
(***************************************************************************)
EXTENDS Integers, SequencesExt

CONSTANTS
  Carriers,          \* their external ids, which are ordered: numbers
  Lanes,
  Closeness,         \* the narrowest tier two lanes share, of one equipment
  Nearness,          \* what is left of a weight of 100 over their distances
  Proximity,         \* the same from a delivery to a pickup, or None
  Decay,             \* what is left of 100 after some ticks, by the constant
  Horizon,           \* how many ticks the tables cover
  UnknownEquipment,  \* absent, or UNKNOWN
  None

Components == {"lane", "equipment", "deadhead", "recency"}

LaneTier == 1..6

ASSUME CarriersAssumption == Carriers \subseteq Nat

ASSUME TablesAssumption ==
  /\ Horizon \in Nat
  /\ Closeness \in [Lanes \X Lanes -> 1..5]
  /\ Nearness \in [Lanes \X Lanes -> 1..100]
  /\ Proximity \in [Lanes \X Lanes -> (0..100) \cup {None}]
  /\ \A a, b \in Lanes : \* the ends of a lane are known, both or none
       Proximity[<<a, b>>] = None <=> None \in {Proximity[<<a, a>>], Proximity[<<b, b>>]}
  /\ Decay \in [{14, 30, 45} -> [0..Horizon -> 1..100]]

ScoringWeights == [lane |-> 40, equipment |-> 20, deadhead |-> 20, recency |-> 20]

Without(component) == [ScoringWeights EXCEPT ![component] = 0]

-----------------------------------------------------------------------------
(* Features: what a carrier did, as of a time. *)

\* Faulty variant of KnownAt: all that is known now.
KnownNow(H, at) == H

KnownAt(H, at) == {v \in H : v.observed <= at}

\* The latest version of each other load, where that is completed.
Completed(H, target, at) ==
  LET known == {v \in KnownAt(H, at) : v.load # target.load}
  IN  {v \in known : /\ v.status = "COMPLETED"
                     /\ \A w \in known : w.load = v.load => w.observed <= v.observed}

IsUnknown(target) == target.equipment \in UnknownEquipment

\* The tier of a completed load, None when it is no evidence.
Tier(v, target, completed) ==
  IF v.equipment = target.equipment THEN Closeness[<<v.lane, target.lane>>]
  ELSE IF IsUnknown(target) \/ ~\E w \in completed : w.equipment = target.equipment
       THEN 6
       ELSE None

Newest(S) == CHOOSE v \in S : \A w \in S : w.observed <= v.observed

\* A CarrierFeatureSet, of the loads the carrier completed.
FeaturesOf(carrier, completed, target) ==
  LET history   == {v \in completed : v.carrier = carrier}
      lane      == {v \in history : Tier(v, target, completed) # None}
      equipment == {v \in history : ~IsUnknown(target) /\ v.equipment = target.equipment}
      relevant  == lane \cup equipment
  IN  [carrier   |-> carrier,
       history   |-> history,
       lane      |-> [v \in lane |-> Tier(v, target, completed)],
       equipment |-> equipment,
       relevant  |-> relevant,
       last      |-> Newest(history),
       recent    |-> Newest(IF relevant # {} THEN relevant ELSE history)]

\* Every carrier of the tenant that is known and has history is a candidate.
Features(H, First, target, at) ==
  LET completed == Completed(H, target, at)
      known     == {c \in Carriers : First[c] # None /\ First[c] <= at}
  IN  {FeaturesOf(c, completed, target) :
         c \in known \cap {v.carrier : v \in completed}}

-----------------------------------------------------------------------------
(* The components of a score, and how much evidence there is. *)

\* Kish's effective sample size of a function to weights.
EffectiveSampleSize(w) ==
  LET total == SumFunction(w)
  IN  IF DOMAIN w = {} THEN 0
      ELSE (100 * total * total) \div SumFunction([v \in DOMAIN w |-> w[v] * w[v]])

Age(v, at) == Max({0, at - v.observed})

Quality == <<1000, 800, 600, 450, 300, 150>>

LaneWeight(v, target, at) ==
  Max({1, (Nearness[<<v.lane, target.lane>>] * Decay[30][Age(v, at)]) \div 100})

LaneWeights(f, target, at) == [v \in DOMAIN f.lane |-> LaneWeight(v, target, at)]

LaneScore(f, target, at) ==
  LET w       == LaneWeights(f, target, at)
      quality == SumFunction([v \in DOMAIN w |-> w[v] * Quality[f.lane[v]]])
  IN  IF DOMAIN w = {} THEN None
      ELSE (quality * Min({400, EffectiveSampleSize(w)})) \div (400 * SumFunction(w))

EquipmentFit(f, target, at) ==
  LET share(S) == SumFunction([v \in S |-> Decay[45][Age(v, at)]])
  IN  IF IsUnknown(target) THEN 500
      ELSE IF f.equipment = {} THEN None
           ELSE (1000 * share(f.equipment)) \div share(f.history)

\* From the last delivery of the carrier to the pickup of the load.
DeadheadFit(f, target, at) ==
  LET proximity == Proximity[<<f.last.lane, target.lane>>]
  IN  IF proximity = None THEN None
      ELSE (proximity * Decay[14][Age(f.last, at)]) \div 10

RecencyFit(f, at) == 10 * Decay[30][Age(f.recent, at)]

ComponentScores(f, target, at) ==
  [lane      |-> LaneScore(f, target, at),
   equipment |-> EquipmentFit(f, target, at),
   deadhead  |-> DeadheadFit(f, target, at),
   recency   |-> RecencyFit(f, at)]

\* The components that are there, their weights renormalised.
RawScore(scores, weights) ==
  LET available == {n \in Components : scores[n] # None /\ weights[n] > 0}
  IN  IF available = {} THEN 5000
      ELSE (10 * SumFunction([n \in available |-> weights[n] * scores[n]]))
             \div SumFunction([n \in available |-> weights[n]])

\* Faulty variant of EffectiveHistory: the calculation of v4, where a load
\* counts once for every component it is evidence of.
LegacyEffectiveHistory(f, target, at) ==
  Min({800, EffectiveSampleSize(LaneWeights(f, target, at))
              + 50 * Cardinality(f.equipment) + 50 * Cardinality(f.relevant)})

\* Each completed version once, by its strongest weight.
EffectiveHistory(f, target, at) ==
  EffectiveSampleSize(
    [v \in f.relevant |->
       Max({LaneWeight(w, target, at) : w \in {v} \cap DOMAIN f.lane}
             \cup {Decay[45][Age(w, at)] : w \in {v} \cap f.equipment})])

\* Shrinkage towards a neutral 50 with a strength of 6.
Adjusted(raw, ess) == (ess * raw + 600 * 5000) \div (ess + 600)

ConfidenceScore(f, scores, ess, target) ==
  LET told(n)  == IF scores[n] = None THEN 0 ELSE scores[n]
      coverage == IF IsUnknown(target) THEN 50
                  ELSE (100 * Min({3, Cardinality(f.equipment)})) \div 3
      located  == IF \E v \in DOMAIN f.lane : Proximity[<<v.lane, target.lane>>] # None
                  THEN 100 ELSE 0
      score    == (450 * Min({600, ess})) \div 600 + told("lane") \div 5
                    + (3 * told("recency")) \div 20 + coverage + located
  IN  IF IsUnknown(target) \/ ess < 100 THEN Min({score, 440}) ELSE score

Confidence(score) ==
  IF score >= 750 THEN "HIGH" ELSE IF score >= 450 THEN "MEDIUM" ELSE "LOW"

\* Faulty variant of EvidenceStatus: a component that has no weight is no
\* support.
WeighedStatus(f, weights) ==
  IF \/ DOMAIN f.lane # {} /\ weights.lane > 0
     \/ f.equipment # {} /\ weights.equipment > 0
  THEN "SUPPORTED" ELSE "LIMITED"

EvidenceStatus(f, weights) ==
  IF DOMAIN f.lane # {} \/ f.equipment # {} THEN "SUPPORTED" ELSE "LIMITED"

HistoricalFit(f, target, at, weights) ==
  LET scores     == ComponentScores(f, target, at)
      ess        == EffectiveHistory(f, target, at)
      confidence == ConfidenceScore(f, scores, ess, target)
  IN  [carrier           |-> f.carrier,
       scores            |-> scores,
       adjusted_score    |-> Adjusted(RawScore(scores, weights), ess),
       confidence_score  |-> confidence,
       confidence        |-> Confidence(confidence),
       effective_history |-> ess,
       evidence_status   |-> EvidenceStatus(f, weights),
       relevant_at       |-> f.recent.observed,
       evidence          |-> f.history,
       tie_group         |-> None]

-----------------------------------------------------------------------------
(* The order, and groups of scores with no meaningful difference. *)

SortKey(fit) ==
  <<IF fit.evidence_status = "SUPPORTED" THEN 0 ELSE 1,
    -fit.adjusted_score, -fit.confidence_score, -fit.effective_history,
    -fit.relevant_at, fit.carrier>>

Precedes(fit, other) ==
  \E i \in 1..6 : /\ SortKey(fit)[i] < SortKey(other)[i]
                  /\ \A j \in 1..(i - 1) : SortKey(fit)[j] = SortKey(other)[j]

TieScoreMargin == 200

\* Faulty variant of AssignTieGroups: each score is compared with its neighbour.
ChainTieGroups(ranking) ==
  FoldLeft(LAMBDA done, fit :
             IF fit.evidence_status # "SUPPORTED"
             THEN [done EXCEPT !.list = Append(@, fit)]
             ELSE LET group == IF \/ done.anchor = None
                                  \/ done.anchor - fit.adjusted_score > TieScoreMargin
                               THEN done.group + 1 ELSE done.group
                  IN  [list   |-> Append(done.list, [fit EXCEPT !.tie_group = group]),
                       group  |-> group,
                       anchor |-> fit.adjusted_score],
           [list |-> <<>>, group |-> 0, anchor |-> None], ranking).list

\* A supported carrier opens a group when it is more than the margin behind the
\* first of the group before.
AssignTieGroups(ranking) ==
  FoldLeft(LAMBDA done, fit :
             IF fit.evidence_status # "SUPPORTED"
             THEN [done EXCEPT !.list = Append(@, fit)]
             ELSE LET opens == \/ done.anchor = None
                               \/ done.anchor - fit.adjusted_score > TieScoreMargin
                      group == IF opens THEN done.group + 1 ELSE done.group
                  IN  [list   |-> Append(done.list, [fit EXCEPT !.tie_group = group]),
                       group  |-> group,
                       anchor |-> IF opens THEN fit.adjusted_score ELSE done.anchor],
           [list |-> <<>>, group |-> 0, anchor |-> None], ranking).list

CallOrder(fits) ==
  CHOOSE order \in SetToSeqs(fits) :
    \A i, j \in DOMAIN order : i < j => Precedes(order[i], order[j])

\* CarrierHistoricalFitScorer.score.
Score(features, target, at, weights) ==
  AssignTieGroups(CallOrder({HistoricalFit(f, target, at, weights) : f \in features}))

\* The order of the carriers, of the features retrieved.
Ranking(H, First, target, at, weights) ==
  Score(Features(H, First, target, at), target, at, weights)
=============================================================================
