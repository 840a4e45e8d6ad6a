--------------------------- MODULE RateEstimation ---------------------------
(***************************************************************************)
(* The price of a load: which completed loads of the tenant compare with   *)
(* it and in which tier (geography/comparables.py), what each paid, and    *)
(* the estimate folded over the tiers (decisioning/pricing.py on           *)
(* decisioning/statistics.py), while history goes on.                      *)
(*                                                                         *)
(* The state is what the tenant's history says at a decision time.  The    *)
(* operators take it as arguments K (the latest version of each load) and  *)
(* L (the ledger rows), so that properties can ask about other histories.  *)
(*                                                                         *)
(* The weight of a comparable decays exponentially with distance and age.  *)
(* Shares are all that matters of weights, and time changes no share, so   *)
(* weights are positive integers.  Decimal arithmetic is exact here: an    *)
(* estimate is a numerator over den.                                       *)
(***************************************************************************)
EXTENDS Integers, FiniteSetsExt

CONSTANTS
  Loads, HaulDesk,   \* the tenant's other loads, and those with a ledger
  Versions,          \* load versions and what an estimate asks of them
  RateRows,          \* PAY rows in USD
  Targets,           \* what an estimate asks of the version it is about
  UnknownEquipment,  \* absent, or UNKNOWN
  None

Version ==
  [load: Loads, completed: BOOLEAN, equipment: STRING,
   miles: (Nat \X Nat) \cup {None},   \* from its ends to those of the target
   metros: (STRING \X STRING) \cup {None}, distance: Nat \cup {None},
   weight: Nat \ {0}, amount: Int \cup {None}]

RateRow == [id: STRING, load: HaulDesk, amount: Int]

ASSUME RatesAssumption ==
  /\ HaulDesk \subseteq Loads
  /\ Versions \subseteq Version
  /\ RateRows \subseteq RateRow
  /\ None \notin Versions \cup Int

VARIABLES
  known,    \* the latest version of each load
  ledger,   \* the rate rows observed
  target

vars == <<known, ledger, target>>

-----------------------------------------------------------------------------
(* Tiers: 1 NEAR_EXACT, 2 REGIONAL, 3 METRO_CORRIDOR,                      *)
(* 4 DISTANCE_EQUIPMENT, 5 TENANT_EQUIPMENT, 6 TENANT_ALL_EQUIPMENT.       *)

LaneTier == 1..6

Completed(K) ==
  {v \in Versions : K[v.load] = v /\ v.completed}

SameEquipment(v) == v.equipment = target.equipment

WithinMiles(v, n) ==
  v.miles # None /\ \A i \in {1, 2} : v.miles[i] <= n

Distant(v) == IF v.distance >= target.distance
              THEN v.distance - target.distance
              ELSE target.distance - v.distance

\* 15% of the target's miles, at least 25 and at most 75; all in percent.
ComparableLength(v) ==
  /\ target.distance # None
  /\ v.distance # None
  /\ 100 * Distant(v) <= Min({7500, Max({2500, 15 * target.distance})})

Matches(v, t, exact) ==
  IF t = 6 THEN target.equipment \in UnknownEquipment \/ ~exact
  ELSE /\ SameEquipment(v)
       /\ \/ t = 1 /\ WithinMiles(v, 25)
          \/ t = 2 /\ WithinMiles(v, 50)
          \/ t = 3 /\ target.metros # None /\ v.metros = target.metros
          \/ t = 4 /\ ComparableLength(v)
          \/ t = 5

\* A completed load is evidence of the narrowest tier it matches, if of any.
Retrieved(t, K) ==
  LET completed == Completed(K)
      exact == \E v \in completed : SameEquipment(v)
  IN  {v \in completed : /\ Matches(v, t, exact)
                         /\ \A u \in 1..(t - 1) : ~Matches(v, u, exact)}

-----------------------------------------------------------------------------
(* What a comparable paid, and weighted statistics. *)

\* Faulty variant of Rate: one ledger row is taken for the total.
RateOfOneRow(v, L) ==
  LET rows  == {r \in L : r.load = v.load}
      total == Min({r.amount : r \in rows})
  IN  IF v.load \in HaulDesk
      THEN IF rows # {} /\ total >= 0 THEN total ELSE None
      ELSE IF v.amount # None /\ v.amount >= 0
           THEN v.amount ELSE None

\* The replacement snapshot states the rate; HaulDesk sums its ledger.
Rate(v, L) ==
  LET rows  == {r \in L : r.load = v.load}
      total == SumFunction([r \in rows |-> r.amount])
  IN  IF v.load \in HaulDesk
      THEN IF rows # {} /\ total >= 0 THEN total ELSE None
      ELSE IF v.amount # None /\ v.amount >= 0
           THEN v.amount ELSE None

Evidence(t, K, L) == {v \in Retrieved(t, K) : Rate(v, L) # None}

WeightOf(S) == SumFunction([v \in S |-> v.weight])

SquaresOf(S) == SumFunction([v \in S |-> v.weight * v.weight])

\* Faulty variant of FirstOf: the observations in order of their weights.
LightestOf(R, L) ==
  CHOOSE v \in R : \A w \in R : v.weight <= w.weight

\* The observations are sorted by value.
FirstOf(R, L) == CHOOSE v \in R : \A w \in R : Rate(v, L) <= Rate(w, L)

\* The first value at which the cumulative weight reaches n quarters.
WeightedQuantile(S, n, L) ==
  LET from[R \in SUBSET S] ==
        LET v == FirstOf(R, L)
        IN  IF 4 * WeightOf((S \ R) \cup {v}) >= n * WeightOf(S)
            THEN Rate(v, L)
            ELSE from[R \ {v}]
  IN  from[S]

\* Kish's effective sample size, a numerator and a denominator.
EffectiveSampleSize(S) == <<WeightOf(S) * WeightOf(S), SquaresOf(S)>>

\* The epsilon of the code absorbs Decimal rounding, which is absent here.
IsSparse(ess) == ess[1] < 4 * ess[2]

-----------------------------------------------------------------------------
(* The estimate. *)

\* A tier by itself.
Local(t, S, L) ==
  [tier |-> t, broader |-> None, den |-> 1, shown |-> S,
   ess |-> EffectiveSampleSize(S),
   point |-> WeightedQuantile(S, 2, L), lower |-> WeightedQuantile(S, 1, L),
   upper |-> WeightedQuantile(S, 3, L)]

\* Faulty variant of Blended: only the tier's own comparables are explained.
BlendedShowingLocal(local, resolved) ==
  LET own  == local.ess[1]
      rest == 6 * local.ess[2]
      Mix(x, y) == own * x * resolved.den + rest * y
      point == Mix(local.point, resolved.point)
  IN  [tier |-> local.tier, broader |-> resolved.tier, ess |-> local.ess,
       den |-> (own + rest) * resolved.den, shown |-> local.shown,
       point |-> point,
       lower |-> Min({Mix(local.lower, resolved.lower), point}),
       upper |-> Max({Mix(local.upper, resolved.upper), point})]

\* Faulty variant of Blended: the broader share is not scaled down.
BlendedTwice(local, resolved) ==
  LET own  == local.ess[1]
      rest == 6 * local.ess[2]
      Mix(x, y) == own * x * resolved.den + (own + rest) * y
      point == Mix(local.point, resolved.point)
  IN  [tier |-> local.tier, broader |-> resolved.tier, ess |-> local.ess,
       den |-> (own + rest) * resolved.den,
       shown |-> local.shown \cup resolved.shown,
       point |-> point,
       lower |-> Min({Mix(local.lower, resolved.lower), point}),
       upper |-> Max({Mix(local.upper, resolved.upper), point})]

\* alpha * local + (1 - alpha) * broader with alpha = ESS / (ESS + 6).
Blended(local, resolved) ==
  LET own  == local.ess[1]
      rest == 6 * local.ess[2]
      Mix(x, y) == own * x * resolved.den + rest * y
      point == Mix(local.point, resolved.point)
  IN  [tier |-> local.tier, broader |-> resolved.tier, ess |-> local.ess,
       den |-> (own + rest) * resolved.den,
       shown |-> local.shown \cup resolved.shown,
       point |-> point,
       lower |-> Min({Mix(local.lower, resolved.lower), point}),
       upper |-> Max({Mix(local.upper, resolved.upper), point})]

Resolved(local, broader) ==
  IF broader = {} \/ ~IsSparse(local.ess) THEN {local}
  ELSE {Blended(local, b) : b \in broader}

\* The tiers with evidence, each by itself.
Summaries(K, L) ==
  LET tiers == {<<t, Evidence(t, K, L)>> : t \in LaneTier}
  IN  {Local(p[1], p[2], L) : p \in {q \in tiers : q[2] # {}}}

\* From the broadest tier to the narrowest: a set of one estimate, or the
\* empty set, which is NO_HISTORICAL_EVIDENCE.
ResolveHierarchy(K, L) ==
  LET summaries == Summaries(K, L)
      from[t \in 1..7] ==
        LET here == {s \in summaries : s.tier = t}
        IN  IF t = 7 THEN {}
            ELSE IF here = {} THEN from[t + 1]
            ELSE UNION {Resolved(s, from[t + 1]) : s \in here}
  IN  from[1]

Estimate == ResolveHierarchy(known, ledger)

-----------------------------------------------------------------------------
(* History. *)

Init ==
  /\ known = [l \in Loads |-> None]
  /\ ledger = {}
  /\ target \in Targets

ObserveVersion(v) ==
  /\ known[v.load] # v
  /\ known' = [known EXCEPT ![v.load] = v]
  /\ UNCHANGED <<ledger, target>>

\* A rate row needs its load: HaulDeskIngestion.
ObserveRate(r) ==
  /\ r \notin ledger
  /\ known[r.load] # None
  /\ ledger' = ledger \cup {r}
  /\ UNCHANGED <<known, target>>

Next ==
  \/ \E v \in Versions : ObserveVersion(v)
  \/ \E r \in RateRows : ObserveRate(r)

Spec == Init /\ [][Next]_vars

-----------------------------------------------------------------------------
(* Properties. *)

\* docs/architecture/rate-estimation.md: a quantile is the least value up to
\* which the evidence has its share of the weight; equal rates count together.
QuantilesAreLeast ==
  \A t \in LaneTier, n \in 1..3 :
    LET S == Evidence(t, known, ledger)
        UpTo(x) == {v \in S : Rate(v, ledger) <= x}
        Enough == {x \in {Rate(v, ledger) : v \in S} :
                     4 * WeightOf(UpTo(x)) >= n * WeightOf(S)}
    IN  S # {} => WeightedQuantile(S, n, ledger) = Min(Enough)

\* Through all blending the range holds the point, and no number of it is
\* outside what some displayed comparable was paid.
EstimateIsWithinEvidence ==
  \A e \in Estimate :
    LET paid == {Rate(v, ledger) : v \in e.shown}
    IN  /\ Min(paid) * e.den <= e.lower
        /\ e.lower <= e.point
        /\ e.point <= e.upper
        /\ e.upper <= Max(paid) * e.den

\* The displayed comparables explain the estimate: with nothing else in the
\* history it would be the same.
DisplayedEvidenceSuffices ==
  \A e \in Estimate :
    LET displayed == [l \in Loads |->
                        IF known[l] \in e.shown THEN known[l] ELSE None]
    IN  ResolveHierarchy(displayed, ledger) = {e}

\* v is known as u but for a higher amount.
Raises(u, v) ==
  /\ u # None
  /\ Rate(u, ledger) # None
  /\ v = [u EXCEPT !.amount = v.amount]
  /\ Rate(v, ledger) # None
  /\ Rate(v, ledger) > Rate(u, ledger)

Raised ==
  {<<[known EXCEPT ![v.load] = v], ledger>> :
     v \in {w \in Versions : Raises(known[w.load], w)}}
    \cup
  {<<known, ledger \cup {r}>> :
     r \in {q \in RateRows : /\ known[q.load] # None
                            /\ Rate(known[q.load], ledger) # None
                            /\ q.amount >= 0}}

\* A correction or a rate row that raises what a comparable was paid, and
\* changes nothing else of it, lowers no number of the estimate.
RaisesNeverLower ==
  \A e \in Estimate, h \in Raised :
    \E r \in ResolveHierarchy(h[1], h[2]) :
      /\ r.den = e.den
      /\ r.point >= e.point
      /\ r.lower >= e.lower
      /\ r.upper >= e.upper

=============================================================================
