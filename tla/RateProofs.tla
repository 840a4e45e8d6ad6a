----------------------------- MODULE RateProofs -----------------------------
(***************************************************************************)
(* What an estimate of RateEstimation guarantees for every tenant, history *)
(* and target.                                                             *)
(***************************************************************************)
EXTENDS RateEstimation, FiniteFolds

-----------------------------------------------------------------------------
(* What a comparable paid and weighs. *)

\* Evidence as it is collected: finitely many versions, each with what it paid.
Priced(S, L) ==
  /\ S \subseteq Versions
  /\ IsFiniteSet(S)
  /\ \A v \in S : Rate(v, L) \in Nat

\* A rate that is known is a number and not negative.
LEMMA RateType ==
  ASSUME NEW L \in SUBSET RateRows, IsFiniteSet(L),
         NEW v \in Versions, Rate(v, L) # None
  PROVE  Rate(v, L) \in Nat
<1> DEFINE rows == {r \in L : r.load = v.load}
           f == [r \in rows |-> r.amount]
<1>1. v \in Version /\ L \subseteq RateRow
  BY RatesAssumption
<1>2. SumFunction(f) \in Int
  <2>1. IsFiniteSet(rows)
    BY FS_Subset
  <2>2. f \in [rows -> Int]
    BY <1>1 DEF RateRow
  <2>3. f = [r \in rows |-> f[r]]
    OBVIOUS
  <2> HIDE DEF rows, f
  <2>4. PICK g \in [SUBSET rows -> Int] : HasSums(g, f, rows)
    BY <2>1, <2>2, SumByParts
  <2>5. SumFunction([r \in rows |-> f[r]]) = g[rows]
    BY <2>4 DEF HasSums
  <2>. QED BY <2>3, <2>5
<1>3. CASE v.load \in HaulDesk
  <2>1. Rate(v, L) = SumFunction(f) /\ SumFunction(f) >= 0
    BY <1>3 DEF Rate
  <2> HIDE DEF f
  <2>. QED BY <1>2, <2>1
<1>4. CASE v.load \notin HaulDesk
  <2>1. Rate(v, L) = v.amount /\ v.amount # None /\ v.amount >= 0
    BY <1>4 DEF Rate
  <2>2. v.amount \in Int
    BY <1>1, <2>1 DEF Version
  <2>. QED BY <2>1, <2>2
<1>. QED BY <1>3, <1>4

\* Versions weigh something, and more versions weigh more.
LEMMA WeightsGrow ==
  ASSUME NEW S \in SUBSET Versions, IsFiniteSet(S), NEW R \in SUBSET S
  PROVE  /\ WeightOf(S) \in Nat /\ WeightOf(R) \in Nat
         /\ WeightOf(S) = 0 <=> S = {}
         /\ WeightOf(R) = 0 <=> R = {}
         /\ WeightOf(R) <= WeightOf(S)
<1> DEFINE f == [v \in S |-> v.weight]
<1>1. f \in [S -> Nat \ {0}]
  BY RatesAssumption DEF Version
<1>2. \A T \in SUBSET S : [v \in T |-> f[v]] = [v \in T |-> v.weight]
  OBVIOUS
<1> HIDE DEF f
<1>3. PICK g \in [SUBSET S -> Nat] : HasPositiveSums(g, f, S)
  BY <1>1, SumGrows
<1>4. \A T \in SUBSET S : WeightOf(T) = g[T]
  BY <1>2, <1>3 DEF WeightOf, HasPositiveSums
<1>. QED BY <1>3, <1>4 DEF HasPositiveSums

\* The same of the squares of weights.
LEMMA SquaresArePositive ==
  ASSUME NEW S \in SUBSET Versions, IsFiniteSet(S)
  PROVE  SquaresOf(S) \in Nat
<1> DEFINE f == [v \in S |-> v.weight * v.weight]
<1>1. f \in [S -> Nat \ {0}]
  <2>1. ASSUME NEW v \in S PROVE v.weight * v.weight \in Nat \ {0}
    <3>1. v.weight \in Nat \ {0}
      BY RatesAssumption DEF Version
    <3>2. \A n \in Nat \ {0} : n * n \in Nat \ {0}
      OBVIOUS
    <3>. QED BY <3>1, <3>2
  <2>. QED BY <2>1
<1>2. \A T \in SUBSET S : [v \in T |-> f[v]] = [v \in T |-> v.weight * v.weight]
  OBVIOUS
<1> HIDE DEF f
<1>3. PICK g \in [SUBSET S -> Nat] : HasPositiveSums(g, f, S)
  BY <1>1, SumGrows
<1>4. SquaresOf(S) = g[S]
  BY <1>2, <1>3 DEF SquaresOf, HasPositiveSums
<1>. QED BY <1>4

\* The observation that comes first paid least.
LEMMA FirstPaidLeast ==
  ASSUME NEW L, NEW R, R # {}, \A v \in R : Rate(v, L) \in Nat
  PROVE  /\ FirstOf(R, L) \in R
         /\ \A w \in R : Rate(FirstOf(R, L), L) <= Rate(w, L)
<1> DEFINE Rates == {Rate(v, L) : v \in R}
<1>1. Rates \in SUBSET Nat /\ Rates # {}
  OBVIOUS
<1> HIDE DEF Rates
<1>2. PICK x \in Rates : \A y \in Rates : x <= y
  BY <1>1, LeastNumber
<1>3. \E v \in R : \A w \in R : Rate(v, L) <= Rate(w, L)
  BY <1>2 DEF Rates
<1>. QED BY <1>3 DEF FirstOf

-----------------------------------------------------------------------------
(* Quantiles. *)

\* The observations R that are left reach n quarters with their first one.
Reached(S, R, n, L) == 4 * WeightOf((S \ R) \cup {FirstOf(R, L)}) >= n * WeightOf(S)

\* The value at which R, what is left of S, reaches n quarters of its weight.
GoesUp(from, S, n, L) ==
  \A R \in (SUBSET S) \ {{}} :
    from[R] = IF Reached(S, R, n, L) THEN Rate(FirstOf(R, L), L)
              ELSE from[R \ {FirstOf(R, L)}]

\* A quantile is found by going up the observations.
LEMMA QuantileUnfolds ==
  ASSUME NEW L, NEW S, Priced(S, L), NEW n
  PROVE  \E from : GoesUp(from, S, n, L) /\ WeightedQuantile(S, n, L) = from[S]
<1> DEFINE Stop == {R \in SUBSET S : R = {} \/ Reached(S, R, n, L)}
           pick == [R \in SUBSET S |-> FirstOf(R, L)]
           base == [R \in SUBSET S |-> Rate(FirstOf(R, L), L)]
           V == {Rate(FirstOf(R, L), L) : R \in SUBSET S}
           comb == [p \in (SUBSET S) \X V |-> p[2]]
           Step(R, h) == IF Reached(S, R, n, L) THEN Rate(FirstOf(R, L), L)
                         ELSE h[R \ {FirstOf(R, L)}]
           from == CHOOSE h : h = [R \in SUBSET S |-> Step(R, h)]
<1>1. \A R \in (SUBSET S) \ Stop : pick[R] \in R
  BY FirstPaidLeast DEF Priced
<1>2. base \in [SUBSET S -> V]
  OBVIOUS
<1>3. comb \in [(SUBSET S) \X V -> V]
  OBVIOUS
<1>4. Stop \in SUBSET SUBSET S /\ {} \in Stop
  OBVIOUS
<1>5. PICK g \in [SUBSET S -> V] : Recursive(g, S, Stop, pick, base, comb)
  <2>1. IsFiniteSet(S)
    BY DEF Priced
  <2> HIDE DEF pick, base, comb, Stop, V
  <2>. QED BY <1>1, <1>2, <1>3, <1>4, <2>1, RecursionExists
<1>6. ASSUME NEW R \in SUBSET S PROVE g[R] = Step(R, g)
  <2>1. CASE R = {}
    <3>1. g[R] = base[R]
      BY <1>4, <1>5, <2>1 DEF Recursive
    <3>2. g[R] = Rate(FirstOf(R, L), L) /\ R \ {FirstOf(R, L)} = R
      BY <2>1, <3>1
    <3>. QED BY <3>2
  <2>2. CASE R # {} /\ R \in Stop
    <3>1. g[R] = base[R]
      BY <1>5, <2>2 DEF Recursive
    <3>. QED BY <2>2, <3>1
  <2>3. CASE R \notin Stop
    <3>1. g[R] = comb[<<R, g[R \ {pick[R]}]>>]
      BY <1>5, <2>3 DEF Recursive
    <3>2. R \ {pick[R]} \in SUBSET S /\ pick[R] = FirstOf(R, L)
      OBVIOUS
    <3>3. g[R \ {pick[R]}] \in V
      <4> HIDE DEF pick, V
      <4>. QED BY <1>5, <3>2
    <3>4. comb[<<R, g[R \ {pick[R]}]>>] = g[R \ {pick[R]}]
      <4> HIDE DEF pick, V
      <4>. QED BY <3>3
    <3>5. ~Reached(S, R, n, L)
      BY <2>3
    <3>. QED BY <3>1, <3>2, <3>4, <3>5
  <2>. QED BY <2>1, <2>2, <2>3
<1>7. g = [R \in SUBSET S |-> Step(R, g)]
  <2> HIDE DEF Step, V
  <2>. QED BY <1>5, <1>6
<1>8. from = [R \in SUBSET S |-> Step(R, from)]
  BY <1>7
<1>9. WeightedQuantile(S, n, L) = from[S]
  BY DEF WeightedQuantile, Reached
<1> HIDE DEF from
<1>10. GoesUp(from, S, n, L)
  BY <1>8 DEF GoesUp
<1>. QED BY <1>9, <1>10

\* The last observation reaches every share.
LEMMA LastReaches ==
  ASSUME NEW L, NEW S, Priced(S, L), NEW n \in 1..3,
         NEW R \in (SUBSET S) \ {{}}, ~Reached(S, R, n, L)
  PROVE  R \ {FirstOf(R, L)} \in (SUBSET S) \ {{}}
<1> DEFINE v == FirstOf(R, L)
<1>1. v \in R
  BY FirstPaidLeast DEF Priced
<1>2. ASSUME R \ {v} = {} PROVE FALSE
  <2>1. (S \ R) \cup {v} = S
    BY <1>1, <1>2
  <2>2. WeightOf(S) \in Nat
    BY WeightsGrow DEF Priced
  <2>3. ~(4 * WeightOf(S) >= n * WeightOf(S))
    BY <2>1 DEF Reached
  <2>. QED BY <2>2, <2>3
<1>. QED BY <1>2

\* What is found among some observations is what one of them paid.
LEMMA FoundIsPaid ==
  ASSUME NEW L, NEW S, Priced(S, L), NEW n \in 1..3, NEW from, GoesUp(from, S, n, L),
         NEW R \in (SUBSET S) \ {{}}
  PROVE  \E v \in R : from[R] = Rate(v, L)
<1> DEFINE F == {T \in (SUBSET S) \ {{}} : ~\E v \in T : from[T] = Rate(v, L)}
<1> SUFFICES ASSUME F # {} PROVE FALSE
  OBVIOUS
<1>1. F \in SUBSET SUBSET S /\ IsFiniteSet(S)
  BY DEF Priced
<1>2. PICK T \in F : \A x \in T : T \ {x} \notin F
  <2> HIDE DEF F
  <2>. QED BY <1>1, SmallestSet
<1> DEFINE v == FirstOf(T, L)
<1>3. v \in T
  BY FirstPaidLeast DEF Priced
<1>4. from[T] = IF Reached(S, T, n, L) THEN Rate(v, L) ELSE from[T \ {v}]
  BY DEF GoesUp
<1>5. ~Reached(S, T, n, L)
  BY <1>3, <1>4
<1>6. T \ {v} \in (SUBSET S) \ {{}}
  BY <1>5, LastReaches
<1>7. \E w \in T \ {v} : from[T \ {v}] = Rate(w, L)
  BY <1>2, <1>3, <1>6
<1>. QED BY <1>4, <1>5, <1>7

\* A quantile is what some observation paid.
LEMMA QuantileIsPaid ==
  ASSUME NEW L, NEW S, Priced(S, L), S # {}, NEW n \in 1..3
  PROVE  \E v \in S : WeightedQuantile(S, n, L) = Rate(v, L)
<1>1. PICK from : GoesUp(from, S, n, L) /\ WeightedQuantile(S, n, L) = from[S]
  BY QuantileUnfolds
<1>. QED BY <1>1, FoundIsPaid

\* A larger share is reached later.
LEMMA QuantilesAscend ==
  ASSUME NEW L, NEW S, Priced(S, L), S # {}, NEW n \in 1..3, NEW m \in 1..3, n <= m
  PROVE  WeightedQuantile(S, n, L) <= WeightedQuantile(S, m, L)
<1>1. PICK low : GoesUp(low, S, n, L) /\ WeightedQuantile(S, n, L) = low[S]
  BY QuantileUnfolds
<1>2. PICK high : GoesUp(high, S, m, L) /\ WeightedQuantile(S, m, L) = high[S]
  BY QuantileUnfolds
<1> DEFINE F == {T \in (SUBSET S) \ {{}} : ~(low[T] <= high[T])}
<1> SUFFICES ASSUME F # {} PROVE FALSE
  BY <1>1, <1>2
<1>3. F \in SUBSET SUBSET S /\ IsFiniteSet(S)
  BY DEF Priced
<1>4. PICK T \in F : \A x \in T : T \ {x} \notin F
  <2> HIDE DEF F
  <2>. QED BY <1>3, SmallestSet
<1> DEFINE v == FirstOf(T, L)
<1>5. v \in T /\ \A w \in T : Rate(v, L) <= Rate(w, L)
  BY FirstPaidLeast DEF Priced
<1>6. /\ low[T] = IF Reached(S, T, n, L) THEN Rate(v, L) ELSE low[T \ {v}]
      /\ high[T] = IF Reached(S, T, m, L) THEN Rate(v, L) ELSE high[T \ {v}]
  BY <1>1, <1>2 DEF GoesUp
<1>7. \E w \in T : high[T] = Rate(w, L)
  BY <1>2, FoundIsPaid
<1>8. ~Reached(S, T, n, L)
  BY <1>5, <1>6, <1>7
<1>9. ~Reached(S, T, m, L)
  <2>1. WeightOf((S \ T) \cup {v}) \in Nat /\ WeightOf(S) \in Nat
    <3>1. (S \ T) \cup {v} \in SUBSET S
      BY <1>5
    <3>. QED BY <3>1, WeightsGrow DEF Priced
  <2>2. n * WeightOf(S) <= m * WeightOf(S)
    BY <2>1
  <2>3. ~(4 * WeightOf((S \ T) \cup {v}) >= n * WeightOf(S))
    BY <1>8 DEF Reached
  <2> HIDE DEF v
  <2>4. ~(4 * WeightOf((S \ T) \cup {v}) >= m * WeightOf(S))
    BY <2>1, <2>2, <2>3
  <2>. QED BY <2>4 DEF Reached, v
<1>10. T \ {v} \in (SUBSET S) \ {{}}
  BY <1>8, LastReaches
<1>11. low[T \ {v}] <= high[T \ {v}]
  BY <1>4, <1>5, <1>10
<1>. QED BY <1>6, <1>8, <1>9, <1>11

\* The observations that paid no more than x.
UpTo(S, x, L) == {v \in S : Rate(v, L) <= x}

\* q is paid by some observation, has n quarters up to it, and nothing less has.
IsQuantile(q, S, n, L) ==
  /\ \E v \in S : q = Rate(v, L)
  /\ 4 * WeightOf(UpTo(S, q, L)) >= n * WeightOf(S)
  /\ \A v \in S : 4 * WeightOf(UpTo(S, Rate(v, L), L)) >= n * WeightOf(S) =>
                    q <= Rate(v, L)

\* The observations before R pay no more than those in R and reach less.
Passed(S, R, n, L) ==
  /\ \A u \in S \ R, w \in R : Rate(u, L) <= Rate(w, L)
  /\ ~(4 * WeightOf(S \ R) >= n * WeightOf(S))

\* The first observation that reaches the share is the quantile.
LEMMA FirstThatReaches ==
  ASSUME NEW L, NEW S, Priced(S, L), NEW n \in 1..3,
         NEW R \in (SUBSET S) \ {{}}, Passed(S, R, n, L), Reached(S, R, n, L)
  PROVE  IsQuantile(Rate(FirstOf(R, L), L), S, n, L)
<1> DEFINE v == FirstOf(R, L)
           q == Rate(v, L)
<1>1. v \in R /\ \A w \in R : q <= Rate(w, L)
  BY FirstPaidLeast DEF Priced
<1>2. \A u \in S : Rate(u, L) \in Nat
  BY DEF Priced
<1>3. 4 * WeightOf(UpTo(S, q, L)) >= n * WeightOf(S)
  <2>1. (S \ R) \cup {v} \in SUBSET UpTo(S, q, L)
    BY <1>1, <1>2 DEF UpTo, Passed
  <2>2. UpTo(S, q, L) \in SUBSET Versions /\ IsFiniteSet(UpTo(S, q, L))
    BY FS_Subset DEF Priced, UpTo
  <2>3. /\ WeightOf((S \ R) \cup {v}) \in Nat
        /\ WeightOf(UpTo(S, q, L)) \in Nat
        /\ WeightOf((S \ R) \cup {v}) <= WeightOf(UpTo(S, q, L))
    BY <2>1, <2>2, WeightsGrow
  <2>4. WeightOf(S) \in Nat
    BY WeightsGrow DEF Priced
  <2>5. 4 * WeightOf((S \ R) \cup {v}) >= n * WeightOf(S)
    BY DEF Reached
  <2> HIDE DEF v, q
  <2>. QED BY <2>3, <2>4, <2>5
<1>4. ASSUME NEW u \in S, 4 * WeightOf(UpTo(S, Rate(u, L), L)) >= n * WeightOf(S)
      PROVE  q <= Rate(u, L)
  <2> SUFFICES ASSUME ~(q <= Rate(u, L)) PROVE FALSE
    OBVIOUS
  <2>1. UpTo(S, Rate(u, L), L) \in SUBSET (S \ R)
    BY <1>1, <1>2 DEF UpTo
  <2>2. S \ R \in SUBSET Versions /\ IsFiniteSet(S \ R)
    BY FS_Subset DEF Priced
  <2>3. /\ WeightOf(UpTo(S, Rate(u, L), L)) \in Nat
        /\ WeightOf(S \ R) \in Nat
        /\ WeightOf(UpTo(S, Rate(u, L), L)) <= WeightOf(S \ R)
    BY <2>1, <2>2, WeightsGrow
  <2>4. WeightOf(S) \in Nat
    BY WeightsGrow DEF Priced
  <2>5. ~(4 * WeightOf(S \ R) >= n * WeightOf(S))
    BY DEF Passed
  <2> HIDE DEF v, q
  <2>. QED BY <1>4, <2>3, <2>4, <2>5
<1>5. \E u \in S : q = Rate(u, L)
  BY <1>1
<1> HIDE DEF v, q
<1>6. IsQuantile(q, S, n, L)
  BY <1>3, <1>4, <1>5 DEF IsQuantile
<1>. QED BY <1>6 DEF q, v

\* The quantile of the evidence is the least value up to which it has its share.
LEMMA QuantileIsLeast ==
  ASSUME NEW L, NEW S, Priced(S, L), S # {}, NEW n \in 1..3
  PROVE  IsQuantile(WeightedQuantile(S, n, L), S, n, L)
<1>1. PICK from : GoesUp(from, S, n, L) /\ WeightedQuantile(S, n, L) = from[S]
  BY QuantileUnfolds
<1> DEFINE F == {T \in (SUBSET S) \ {{}} :
                   Passed(S, T, n, L) /\ ~IsQuantile(from[T], S, n, L)}
<1>2. F = {}
  <2> SUFFICES ASSUME F # {} PROVE FALSE
    OBVIOUS
  <2>1. F \in SUBSET SUBSET S /\ IsFiniteSet(S)
    BY DEF Priced
  <2>2. PICK T \in F : \A x \in T : T \ {x} \notin F
    <3> HIDE DEF F
    <3>. QED BY <2>1, SmallestSet
  <2> DEFINE v == FirstOf(T, L)
  <2>3. v \in T /\ \A w \in T : Rate(v, L) <= Rate(w, L)
    BY FirstPaidLeast DEF Priced
  <2>4. from[T] = IF Reached(S, T, n, L) THEN Rate(v, L) ELSE from[T \ {v}]
    BY <1>1 DEF GoesUp
  <2>5. ~Reached(S, T, n, L)
    BY <2>4, FirstThatReaches
  <2>6. T \ {v} \in (SUBSET S) \ {{}}
    BY <2>5, LastReaches
  <2>7. Passed(S, T \ {v}, n, L)
    <3>1. S \ (T \ {v}) = (S \ T) \cup {v}
      BY <2>3
    <3>2. ~(4 * WeightOf(S \ (T \ {v})) >= n * WeightOf(S))
      BY <2>5, <3>1 DEF Reached
    <3>3. \A u \in S \ (T \ {v}), w \in T \ {v} : Rate(u, L) <= Rate(w, L)
      BY <2>3, <3>1 DEF Passed
    <3>. QED BY <3>2, <3>3 DEF Passed
  <2>8. IsQuantile(from[T \ {v}], S, n, L)
    BY <2>2, <2>3, <2>6, <2>7
  <2>. QED BY <2>4, <2>5, <2>8
<1>3. Passed(S, S, n, L)
  <2>1. S \ S = {} /\ {} \in SUBSET S
    OBVIOUS
  <2>2. WeightOf({}) = 0 /\ WeightOf(S) \in Nat /\ WeightOf(S) # 0
    BY <2>1, WeightsGrow DEF Priced
  <2>3. ~(4 * WeightOf({}) >= n * WeightOf(S))
    BY <2>2
  <2>. QED BY <2>1, <2>3 DEF Passed
<1>4. S \in (SUBSET S) \ {{}}
  OBVIOUS
<1>. QED BY <1>1, <1>2, <1>3, <1>4

-----------------------------------------------------------------------------
(* The evidence of an estimate. *)

\* A history as it is known: finitely many versions are the latest of their
\* load, and finitely many rate rows are there.
History(K, L) ==
  /\ K \in [Loads -> Versions \cup {None}]
  /\ IsFiniteSet({v \in Versions : K[v.load] = v})
  /\ L \in SUBSET RateRows
  /\ IsFiniteSet(L)

\* The evidence of a tier can be priced.
LEMMA EvidenceIsPriced ==
  ASSUME NEW K, NEW L, History(K, L), NEW t
  PROVE  Priced(Evidence(t, K, L), L)
<1>1. Evidence(t, K, L) \subseteq {v \in Versions : K[v.load] = v}
  BY DEF Evidence, Retrieved, Completed
<1>2. \A v \in Evidence(t, K, L) : Rate(v, L) # None
  BY DEF Evidence
<1>3. \A v \in Evidence(t, K, L) : Rate(v, L) \in Nat
  BY <1>1, <1>2, RateType DEF History
<1>4. IsFiniteSet(Evidence(t, K, L))
  BY <1>1, FS_Subset DEF History
<1>. QED BY <1>1, <1>3, <1>4 DEF Priced

\* Of some comparables one was paid most.
LEMMA OnePaidMost ==
  ASSUME NEW L, NEW S, Priced(S, L), S # {}
  PROVE  \E v \in S : \A w \in S : Rate(w, L) <= Rate(v, L)
<1> DEFINE F == {T \in (SUBSET S) \ {{}} :
                   ~\E v \in T : \A w \in T : Rate(w, L) <= Rate(v, L)}
<1> SUFFICES ASSUME F # {} PROVE FALSE
  OBVIOUS
<1>1. F \in SUBSET SUBSET S /\ IsFiniteSet(S)
  BY DEF Priced
<1>2. PICK T \in F : \A x \in T : T \ {x} \notin F
  <2> HIDE DEF F
  <2>. QED BY <1>1, SmallestSet
<1>3. \A v \in T : Rate(v, L) \in Nat
  BY DEF Priced
<1>4. PICK x \in T : TRUE
  OBVIOUS
<1>5. CASE T \ {x} = {}
  <2>1. \A w \in T : w = x
    BY <1>4, <1>5
  <2>. QED BY <1>3, <1>4, <2>1
<1>6. CASE T \ {x} # {}
  <2>1. PICK v \in T \ {x} : \A w \in T \ {x} : Rate(w, L) <= Rate(v, L)
    BY <1>2, <1>4, <1>6
  <2>2. CASE Rate(x, L) <= Rate(v, L)
    BY <2>1, <2>2
  <2>3. CASE ~(Rate(x, L) <= Rate(v, L))
    <3>1. \A w \in T : Rate(w, L) <= Rate(x, L)
      BY <1>3, <1>4, <2>1, <2>3
    <3>. QED BY <1>4, <3>1
  <2>. QED BY <2>2, <2>3
<1>. QED BY <1>5, <1>6

-----------------------------------------------------------------------------
(* Blending. *)

\* No number of e is outside what a comparable it shows was paid.
Sound(e, L) ==
  /\ Priced(e.shown, L)
  /\ e.den \in Nat \ {0}
  /\ e.lower \in Int /\ e.point \in Int /\ e.upper \in Int
  /\ e.lower <= e.point /\ e.point <= e.upper
  /\ \E v \in e.shown : Rate(v, L) * e.den <= e.lower
  /\ \E v \in e.shown : e.upper <= Rate(v, L) * e.den

\* A weighted mean is not below what bounds both of its parts from below.
LEMMA MixAbove ==
  ASSUME NEW own \in Nat, NEW rest \in Nat, NEW d \in Nat,
         NEW m \in Int, NEW x \in Int, NEW y \in Int, m <= x, m * d <= y
  PROVE  m * ((own + rest) * d) <= own * x * d + rest * y
<1>1. \A k \in Nat, i, j \in Int : i <= j => k * i <= k * j
  OBVIOUS
<1>2. own * d \in Nat
  OBVIOUS
<1>3. (own * d) * m <= (own * d) * x
  BY <1>1, <1>2
<1>4. rest * (m * d) <= rest * y
  <2>1. m * d \in Int
    OBVIOUS
  <2>. QED BY <1>1, <2>1
<1>5. m * ((own + rest) * d) = (own * d) * m + rest * (m * d)
  OBVIOUS
<1>6. (own * d) * x = own * x * d
  OBVIOUS
<1>7. /\ (own * d) * m \in Int /\ (own * d) * x \in Int
      /\ rest * (m * d) \in Int /\ rest * y \in Int
  OBVIOUS
<1>8. \A a, b, c, e \in Int : a <= b /\ c <= e => a + c <= b + e
  OBVIOUS
<1>9. (own * d) * m + rest * (m * d) <= (own * d) * x + rest * y
  BY <1>3, <1>4, <1>7, <1>8
<1>. QED BY <1>5, <1>6, <1>9

\* Nor is it above what bounds both of its parts from above.
LEMMA MixBelow ==
  ASSUME NEW own \in Nat, NEW rest \in Nat, NEW d \in Nat,
         NEW m \in Int, NEW x \in Int, NEW y \in Int, x <= m, y <= m * d
  PROVE  own * x * d + rest * y <= m * ((own + rest) * d)
<1>1. \A k \in Nat, i, j \in Int : i <= j => k * i <= k * j
  OBVIOUS
<1>2. own * d \in Nat
  OBVIOUS
<1>3. (own * d) * x <= (own * d) * m
  BY <1>1, <1>2
<1>4. rest * y <= rest * (m * d)
  <2>1. m * d \in Int
    OBVIOUS
  <2>. QED BY <1>1, <2>1
<1>5. m * ((own + rest) * d) = (own * d) * m + rest * (m * d)
  OBVIOUS
<1>6. (own * d) * x = own * x * d
  OBVIOUS
<1>7. /\ (own * d) * m \in Int /\ (own * d) * x \in Int
      /\ rest * (m * d) \in Int /\ rest * y \in Int
  OBVIOUS
<1>8. \A a, b, c, e \in Int : a <= b /\ c <= e => a + c <= b + e
  OBVIOUS
<1>9. (own * d) * x + rest * y <= (own * d) * m + rest * (m * d)
  BY <1>3, <1>4, <1>7, <1>8
<1>. QED BY <1>5, <1>6, <1>9

\* The lesser and the greater of two numbers.
LEMMA OfTwo ==
  ASSUME NEW i \in Int, NEW j \in Int
  PROVE  /\ Min({i, j}) \in {i, j} /\ Min({i, j}) <= i /\ Min({i, j}) <= j
         /\ Max({i, j}) \in {i, j} /\ i <= Max({i, j}) /\ j <= Max({i, j})
<1>1. \E x \in {i, j} : \A y \in {i, j} : x =< y
  OBVIOUS
<1>2. \E x \in {i, j} : \A y \in {i, j} : x >= y
  OBVIOUS
<1>3. Min({i, j}) \in {i, j} /\ \A y \in {i, j} : Min({i, j}) <= y
  BY <1>1 DEF Min
<1>4. Max({i, j}) \in {i, j} /\ \A y \in {i, j} : Max({i, j}) >= y
  BY <1>2 DEF Max
<1>. QED BY <1>3, <1>4

\* A tier by itself is sound, and has an effective sample size.
LEMMA LocalIsSound ==
  ASSUME NEW L, NEW S, Priced(S, L), S # {}, NEW t
  PROVE  /\ Sound(Local(t, S, L), L)
         /\ Local(t, S, L).den = 1
         /\ Local(t, S, L).ess[1] \in Nat \ {0}
         /\ Local(t, S, L).ess[2] \in Nat
<1> DEFINE e == Local(t, S, L)
<1>1. /\ e.shown = S /\ e.den = 1 /\ e.ess = EffectiveSampleSize(S)
      /\ e.point = WeightedQuantile(S, 2, L)
      /\ e.lower = WeightedQuantile(S, 1, L)
      /\ e.upper = WeightedQuantile(S, 3, L)
  BY DEF Local
<1>2. e.ess[1] \in Nat \ {0} /\ e.ess[2] \in Nat
  <2>1. WeightOf(S) \in Nat \ {0} /\ SquaresOf(S) \in Nat
    BY WeightsGrow, SquaresArePositive DEF Priced
  <2>2. \A n \in Nat \ {0} : n * n \in Nat \ {0}
    OBVIOUS
  <2>. QED BY <1>1, <2>1, <2>2 DEF EffectiveSampleSize
<1>3. PICK v \in S : e.lower = Rate(v, L)
  BY <1>1, QuantileIsPaid
<1>4. PICK w \in S : e.upper = Rate(w, L)
  BY <1>1, QuantileIsPaid
<1>5. PICK u \in S : e.point = Rate(u, L)
  BY <1>1, QuantileIsPaid
<1>6. e.lower \in Nat /\ e.point \in Nat /\ e.upper \in Nat
  BY <1>3, <1>4, <1>5 DEF Priced
<1>7. e.lower <= e.point /\ e.point <= e.upper
  BY <1>1, QuantilesAscend
<1>8. Rate(v, L) * e.den <= e.lower /\ e.upper <= Rate(w, L) * e.den
  BY <1>1, <1>3, <1>4, <1>6
<1>9. 1 \in Nat \ {0}
  OBVIOUS
<1> HIDE DEF e
<1>10. Sound(e, L)
  BY <1>1, <1>6, <1>7, <1>8, <1>9 DEF Sound
<1>. QED BY <1>1, <1>2, <1>10 DEF e

\* Blending a sound tier with a sound estimate of broader ones is sound.
LEMMA BlendedIsSound ==
  ASSUME NEW L, NEW local, NEW resolved, Sound(local, L), Sound(resolved, L),
         local.den = 1, local.ess[1] \in Nat \ {0}, local.ess[2] \in Nat
  PROVE  Sound(Blended(local, resolved), L)
<1> DEFINE own == local.ess[1]
           rest == 6 * local.ess[2]
           d == resolved.den
           Mix(x, y) == own * x * d + rest * y
           shown == local.shown \cup resolved.shown
           den == (own + rest) * d
           e == Blended(local, resolved)
           point == Mix(local.point, resolved.point)
           low == Mix(local.lower, resolved.lower)
           high == Mix(local.upper, resolved.upper)
<1>1. /\ e.den = den /\ e.shown = shown /\ e.point = point
      /\ e.lower = Min({low, point}) /\ e.upper = Max({high, point})
  BY DEF Blended
<1>2. own \in Nat /\ own # 0 /\ rest \in Nat /\ d \in Nat /\ d # 0
  BY DEF Sound
<1>3. den \in Nat \ {0}
  <2>1. \A i, j, k \in Nat : i # 0 /\ k # 0 => (i + j) * k \in Nat \ {0}
    OBVIOUS
  <2>. QED BY <1>2, <2>1
<1>4. \A x, y \in Int : Mix(x, y) \in Int
  BY <1>2
<1>5. /\ local.lower \in Int /\ local.point \in Int /\ local.upper \in Int
      /\ resolved.lower \in Int /\ resolved.point \in Int /\ resolved.upper \in Int
      /\ local.lower <= local.point /\ local.point <= local.upper
      /\ resolved.lower <= resolved.point /\ resolved.point <= resolved.upper
  BY DEF Sound
<1>6. point \in Int /\ low \in Int /\ high \in Int
  <2> HIDE DEF own, rest, d, Mix
  <2>. QED BY <1>4, <1>5
<1>7. Priced(shown, L)
  <2>1. IsFiniteSet(shown)
    BY FS_Union DEF Sound, Priced
  <2>. QED BY <2>1 DEF Sound, Priced
<1>8. \E v \in shown : Rate(v, L) * den <= low /\ Rate(v, L) * den <= point
  <2>1. PICK a \in local.shown : Rate(a, L) * 1 <= local.lower
    BY DEF Sound
  <2>2. PICK b \in resolved.shown : Rate(b, L) * d <= resolved.lower
    BY DEF Sound
  <2>3. PICK v \in {a, b} : Rate(v, L) <= Rate(a, L) /\ Rate(v, L) <= Rate(b, L)
    <3>1. Rate(a, L) \in Nat /\ Rate(b, L) \in Nat
      BY DEF Sound, Priced
    <3>. QED BY <3>1
  <2>4. Rate(a, L) \in Nat /\ Rate(b, L) \in Nat /\ Rate(v, L) \in Nat
    BY DEF Sound, Priced
  <2>5. Rate(v, L) * d <= resolved.lower
    <3>1. \A i, j, k \in Nat : i <= j => i * k <= j * k
      OBVIOUS
    <3>2. Rate(v, L) * d <= Rate(b, L) * d
      BY <1>2, <2>3, <2>4, <3>1
    <3>3. Rate(v, L) * d \in Int /\ Rate(b, L) * d \in Int
      BY <1>2, <2>4
    <3> HIDE DEF d
    <3>. QED BY <1>5, <2>2, <3>2, <3>3
  <2>6. Rate(v, L) <= local.lower
    BY <1>5, <2>1, <2>3, <2>4
  <2>7. Rate(v, L) * d \in Int
    BY <1>2, <2>4
  <2>8. Rate(v, L) <= local.point /\ Rate(v, L) * d <= resolved.point
    <3> HIDE DEF d
    <3>. QED BY <1>5, <2>4, <2>5, <2>6, <2>7
  <2> HIDE DEF own, rest, d
  <2>9. Rate(v, L) * ((own + rest) * d) <= own * local.lower * d + rest * resolved.lower
    <3>1. /\ own \in Nat /\ rest \in Nat /\ d \in Nat /\ Rate(v, L) \in Int
          /\ local.lower \in Int /\ resolved.lower \in Int
      BY <1>2, <1>5, <2>4
    <3>. QED BY <2>5, <2>6, <3>1, MixAbove
  <2>10. Rate(v, L) * ((own + rest) * d) <= own * local.point * d + rest * resolved.point
    <3>1. /\ own \in Nat /\ rest \in Nat /\ d \in Nat /\ Rate(v, L) \in Int
          /\ local.point \in Int /\ resolved.point \in Int
      BY <1>2, <1>5, <2>4
    <3>. QED BY <2>8, <3>1, MixAbove
  <2>11. Rate(v, L) * den <= low
    BY <2>9
  <2>12. Rate(v, L) * den <= point
    BY <2>10
  <2>13. v \in shown
    OBVIOUS
  <2> HIDE DEF den, low, point, shown
  <2>. QED BY <2>11, <2>12, <2>13
<1>9. \E v \in shown : high <= Rate(v, L) * den /\ point <= Rate(v, L) * den
  <2>1. PICK a \in local.shown : local.upper <= Rate(a, L) * 1
    BY DEF Sound
  <2>2. PICK b \in resolved.shown : resolved.upper <= Rate(b, L) * d
    BY DEF Sound
  <2>3. PICK v \in {a, b} : Rate(a, L) <= Rate(v, L) /\ Rate(b, L) <= Rate(v, L)
    <3>1. Rate(a, L) \in Nat /\ Rate(b, L) \in Nat
      BY DEF Sound, Priced
    <3>. QED BY <3>1
  <2>4. Rate(a, L) \in Nat /\ Rate(b, L) \in Nat /\ Rate(v, L) \in Nat
    BY DEF Sound, Priced
  <2>5. resolved.upper <= Rate(v, L) * d
    <3>1. \A i, j, k \in Nat : i <= j => i * k <= j * k
      OBVIOUS
    <3>2. Rate(b, L) * d <= Rate(v, L) * d
      BY <1>2, <2>3, <2>4, <3>1
    <3>3. Rate(v, L) * d \in Int /\ Rate(b, L) * d \in Int
      BY <1>2, <2>4
    <3> HIDE DEF d
    <3>. QED BY <1>5, <2>2, <3>2, <3>3
  <2>6. local.upper <= Rate(v, L)
    BY <1>5, <2>1, <2>3, <2>4
  <2>7. Rate(v, L) * d \in Int
    BY <1>2, <2>4
  <2>8. local.point <= Rate(v, L) /\ resolved.point <= Rate(v, L) * d
    <3> HIDE DEF d
    <3>. QED BY <1>5, <2>4, <2>5, <2>6, <2>7
  <2> HIDE DEF own, rest, d
  <2>9. own * local.upper * d + rest * resolved.upper <= Rate(v, L) * ((own + rest) * d)
    <3>1. /\ own \in Nat /\ rest \in Nat /\ d \in Nat /\ Rate(v, L) \in Int
          /\ local.upper \in Int /\ resolved.upper \in Int
      BY <1>2, <1>5, <2>4
    <3>. QED BY <2>5, <2>6, <3>1, MixBelow
  <2>10. own * local.point * d + rest * resolved.point <= Rate(v, L) * ((own + rest) * d)
    <3>1. /\ own \in Nat /\ rest \in Nat /\ d \in Nat /\ Rate(v, L) \in Int
          /\ local.point \in Int /\ resolved.point \in Int
      BY <1>2, <1>5, <2>4
    <3>. QED BY <2>8, <3>1, MixBelow
  <2>11. high <= Rate(v, L) * den
    BY <2>9
  <2>12. point <= Rate(v, L) * den
    BY <2>10
  <2>13. v \in shown
    OBVIOUS
  <2> HIDE DEF den, high, point, shown
  <2>. QED BY <2>11, <2>12, <2>13
<1> HIDE DEF own, rest, d, Mix, shown, den, e, point, low, high
<1>10. /\ e.lower \in {low, point} /\ e.lower <= point
       /\ e.upper \in {high, point} /\ point <= e.upper
  BY <1>1, <1>6, OfTwo
<1>11. \E v \in e.shown : Rate(v, L) * e.den <= e.lower
  BY <1>1, <1>8, <1>10
<1>12. \E v \in e.shown : e.upper <= Rate(v, L) * e.den
  BY <1>1, <1>9, <1>10
<1>13. e.lower \in Int /\ e.upper \in Int
  BY <1>6, <1>10
<1>14. Sound(e, L)
  BY <1>1, <1>3, <1>6, <1>7, <1>10, <1>11, <1>12, <1>13 DEF Sound
<1>. QED BY <1>14 DEF e

-----------------------------------------------------------------------------
(* The tiers from the broadest to the narrowest. *)

\* One tier further, when x is what the broader ones came to.
Onward(summaries, t, x) ==
  LET here == {s \in summaries : s.tier = t}
  IN  IF here = {} THEN x ELSE UNION {Resolved(s, x) : s \in here}

\* The hierarchy is resolved one tier after the other.
LEMMA HierarchyUnfolds ==
  ASSUME NEW K, NEW L
  PROVE  \E from : /\ from[7] = {}
                   /\ \A t \in 1..6 : from[t] = Onward(Summaries(K, L), t, from[t + 1])
                   /\ ResolveHierarchy(K, L) = from[1]
<1> DEFINE S == Summaries(K, L)
           x6 == Onward(S, 6, {})
           x5 == Onward(S, 5, x6)
           x4 == Onward(S, 4, x5)
           x3 == Onward(S, 3, x4)
           x2 == Onward(S, 2, x3)
           x1 == Onward(S, 1, x2)
           Step(t, h) == IF t = 7 THEN {} ELSE Onward(S, t, h[t + 1])
           g == [t \in 1..7 |-> IF t = 7 THEN {} ELSE IF t = 6 THEN x6
                                ELSE IF t = 5 THEN x5 ELSE IF t = 4 THEN x4
                                ELSE IF t = 3 THEN x3 ELSE IF t = 2 THEN x2 ELSE x1]
           from == CHOOSE h : h = [t \in 1..7 |-> Step(t, h)]
<1>1. /\ g[7] = {} /\ g[6] = x6 /\ g[5] = x5 /\ g[4] = x4
      /\ g[3] = x3 /\ g[2] = x2 /\ g[1] = x1
  <2> HIDE DEF x1, x2, x3, x4, x5, x6
  <2>. QED OBVIOUS
<1>2. ASSUME NEW t \in 1..7 PROVE g[t] = Step(t, g)
  <2> HIDE DEF g, S
  <2>1. t \in {1, 2, 3, 4, 5, 6, 7}
    OBVIOUS
  <2>. QED BY <1>1, <2>1
<1>3. g = [t \in 1..7 |-> Step(t, g)]
  <2>1. g = [t \in 1..7 |-> g[t]]
    <3> HIDE DEF x1, x2, x3, x4, x5, x6
    <3>. QED OBVIOUS
  <2> HIDE DEF g, Step
  <2>. QED BY <1>2, <2>1
<1>4. from = [t \in 1..7 |-> Step(t, from)]
  <2> HIDE DEF g, Step
  <2>. QED BY <1>3
<1>5. ResolveHierarchy(K, L) = from[1]
  BY DEF ResolveHierarchy, Onward
<1> HIDE DEF from, S
<1>6. from[7] = {} /\ \A t \in 1..6 : from[t] = Onward(S, t, from[t + 1])
  BY <1>4
<1>. QED BY <1>5, <1>6 DEF S

\* A tier has one summary, if it has evidence.
LEMMA SummaryOf ==
  ASSUME NEW K, NEW L, NEW t \in LaneTier
  PROVE  {s \in Summaries(K, L) : s.tier = t} =
           IF Evidence(t, K, L) = {} THEN {} ELSE {Local(t, Evidence(t, K, L), L)}
<1>1. ASSUME NEW s
      PROVE  s \in Summaries(K, L) <=>
               \E u \in LaneTier : /\ Evidence(u, K, L) # {}
                                   /\ s = Local(u, Evidence(u, K, L), L)
  <2> DEFINE tiers == {<<u, Evidence(u, K, L)>> : u \in LaneTier}
             full == {q \in tiers : q[2] # {}}
  <2>1. s \in Summaries(K, L) <=> \E p \in full : s = Local(p[1], p[2], L)
    BY DEF Summaries
  <2>2. \A p : p \in full <=> \E u \in LaneTier : /\ Evidence(u, K, L) # {}
                                                /\ p = <<u, Evidence(u, K, L)>>
    OBVIOUS
  <2>3. \A u, S : <<u, S>>[1] = u /\ <<u, S>>[2] = S
    OBVIOUS
  <2> HIDE DEF full
  <2>4. ASSUME NEW p \in full, s = Local(p[1], p[2], L)
        PROVE  \E u \in LaneTier : /\ Evidence(u, K, L) # {}
                                   /\ s = Local(u, Evidence(u, K, L), L)
    <3>1. PICK u \in LaneTier : Evidence(u, K, L) # {} /\ p = <<u, Evidence(u, K, L)>>
      BY <2>2
    <3>. QED BY <2>3, <2>4, <3>1
  <2>5. ASSUME NEW u \in LaneTier, Evidence(u, K, L) # {},
               s = Local(u, Evidence(u, K, L), L)
        PROVE  \E p \in full : s = Local(p[1], p[2], L)
    <3>1. <<u, Evidence(u, K, L)>> \in full
      BY <2>2, <2>5
    <3>. QED BY <2>3, <2>5, <3>1
  <2>. QED BY <2>1, <2>4, <2>5
<1>2. \A u, S : Local(u, S, L).tier = u
  BY DEF Local
<1>. QED BY <1>1, <1>2

\* x is what the tiers from t on come to: one sound estimate, or none because
\* none of them has evidence.
ComesTo(x, t, K, L) ==
  /\ \A e \in x : Sound(e, L)
  /\ \A d, e \in x : d = e
  /\ x = {} <=> \A u \in t..6 : Evidence(u, K, L) = {}

\* One tier further it is the same.
LEMMA OnwardComesTo ==
  ASSUME NEW K, NEW L, History(K, L), NEW t \in 1..6, NEW x, ComesTo(x, t + 1, K, L)
  PROVE  ComesTo(Onward(Summaries(K, L), t, x), t, K, L)
<1> DEFINE S == Evidence(t, K, L)
           here == {s \in Summaries(K, L) : s.tier = t}
           local == Local(t, S, L)
           next == Onward(Summaries(K, L), t, x)
<1>1. \A u \in t..6 : u = t \/ u \in (t + 1)..6
  OBVIOUS
<1>2. t \in t..6 /\ \A u \in (t + 1)..6 : u \in t..6
  OBVIOUS
<1>3. here = IF S = {} THEN {} ELSE {local}
  BY SummaryOf DEF LaneTier
<1>4. CASE S = {}
  <2>1. next = x
    BY <1>3, <1>4 DEF Onward
  <2>. QED BY <1>1, <1>2, <1>4, <2>1 DEF ComesTo
<1>5. CASE S # {}
  <2>1. next = Resolved(local, x)
    <3> HIDE DEF local, S
    <3>1. here = {local}
      BY <1>3, <1>5
    <3>. QED BY <3>1 DEF Onward
  <2>2. /\ Sound(local, L) /\ local.den = 1
        /\ local.ess[1] \in Nat \ {0} /\ local.ess[2] \in Nat
    BY <1>5, EvidenceIsPriced, LocalIsSound
  <2> HIDE DEF local, next
  <2>3. CASE x = {} \/ ~IsSparse(local.ess)
    <3>1. next = {local}
      BY <2>1, <2>3 DEF Resolved
    <3>. QED BY <1>2, <1>5, <2>2, <3>1 DEF ComesTo, next
  <2>4. CASE ~(x = {} \/ ~IsSparse(local.ess))
    <3>1. next = {Blended(local, b) : b \in x}
      BY <2>1, <2>4 DEF Resolved
    <3>2. \A e \in next : Sound(e, L)
      BY <2>2, <3>1, BlendedIsSound DEF ComesTo
    <3>3. \A d, e \in next : d = e
      BY <3>1 DEF ComesTo
    <3>4. next # {}
      BY <2>4, <3>1
    <3>. QED BY <1>2, <1>5, <3>2, <3>3, <3>4 DEF ComesTo, next
  <2>. QED BY <2>3, <2>4
<1>. QED BY <1>4, <1>5

\* What a history comes to.
LEMMA HierarchyComesTo ==
  ASSUME NEW K, NEW L, History(K, L)
  PROVE  ComesTo(ResolveHierarchy(K, L), 1, K, L)
<1>1. PICK from : /\ from[7] = {}
                  /\ \A t \in 1..6 : from[t] = Onward(Summaries(K, L), t, from[t + 1])
                  /\ ResolveHierarchy(K, L) = from[1]
  BY HierarchyUnfolds
<1>2. ASSUME NEW t \in 1..6, ComesTo(from[t + 1], t + 1, K, L)
      PROVE  ComesTo(from[t], t, K, L)
  BY <1>1, <1>2, OnwardComesTo
<1>3. ComesTo(from[7], 7, K, L)
  BY <1>1 DEF ComesTo
<1>4. ComesTo(from[6], 6, K, L)
  BY <1>2, <1>3
<1>5. ComesTo(from[5], 5, K, L)
  BY <1>2, <1>4
<1>6. ComesTo(from[4], 4, K, L)
  BY <1>2, <1>5
<1>7. ComesTo(from[3], 3, K, L)
  BY <1>2, <1>6
<1>8. ComesTo(from[2], 2, K, L)
  BY <1>2, <1>7
<1>9. ComesTo(from[1], 1, K, L)
  BY <1>2, <1>8
<1>. QED BY <1>1, <1>9

-----------------------------------------------------------------------------
(* The theorems. *)

\* What is known stays finite: each step adds one version or one rate row.
LEMMA HistoryStep == History(known, ledger) /\ [Next]_vars => History(known, ledger)'
<1> SUFFICES ASSUME History(known, ledger), [Next]_vars PROVE History(known', ledger')
  OBVIOUS
<1> USE DEF History
<1>1. ASSUME NEW v \in Versions, ObserveVersion(v) PROVE History(known', ledger')
  <2>1. v.load \in Loads
    BY RatesAssumption DEF Version
  <2>2. known' = [known EXCEPT ![v.load] = v] /\ ledger' = ledger
    BY <1>1 DEF ObserveVersion
  <2>3. known' \in [Loads -> Versions \cup {None}]
    BY <2>1, <2>2
  <2>4. {w \in Versions : known'[w.load] = w}
          \subseteq {w \in Versions : known[w.load] = w} \cup {v}
    <3>1. \A w \in Versions : w.load \in Loads
      BY RatesAssumption DEF Version
    <3>. QED BY <2>1, <2>2, <3>1
  <2>5. IsFiniteSet({w \in Versions : known'[w.load] = w})
    BY <2>4, FS_AddElement, FS_Subset
  <2>. QED BY <2>2, <2>3, <2>5
<1>2. ASSUME NEW r \in RateRows, ObserveRate(r) PROVE History(known', ledger')
  BY <1>2, FS_AddElement DEF ObserveRate
<1>3. CASE UNCHANGED vars
  BY <1>3 DEF vars
<1>. QED BY <1>1, <1>2, <1>3 DEF Next

\* In every reachable state the history is one that can be priced: each known
\* version is of its load, and versions and rate rows are finitely many.
THEOREM RateInvariant == Spec => []History(known, ledger)
<1>1. Init => History(known, ledger)
  <2> SUFFICES ASSUME Init PROVE History(known, ledger)
    OBVIOUS
  <2>1. {v \in Versions : known[v.load] = v} = {}
    BY RatesAssumption DEF Init, Version
  <2>. QED BY <2>1, FS_EmptySet DEF Init, History
<1>. QED BY <1>1, HistoryStep, PTL DEF Spec

\* WeightedQuantile finds the least rate up to which the evidence of a tier has
\* its share of the weight, whatever order equal rates come in.
THEOREM QuantilesAreAlwaysLeast == Spec => []QuantilesAreLeast
<1>1. History(known, ledger) => QuantilesAreLeast
  <2> SUFFICES ASSUME History(known, ledger), NEW t \in LaneTier, NEW n \in 1..3,
                      NEW S, S = Evidence(t, known, ledger), S # {},
                      NEW Enough,
                      Enough = {x \in {Rate(v, ledger) : v \in S} :
                                  4 * WeightOf({v \in S : Rate(v, ledger) <= x})
                                    >= n * WeightOf(S)}
               PROVE  WeightedQuantile(S, n, ledger) = Min(Enough)
    BY DEF QuantilesAreLeast
  <2>1. Priced(S, ledger)
    BY EvidenceIsPriced
  <2> DEFINE q == WeightedQuantile(S, n, ledger)
  <2>2. IsQuantile(q, S, n, ledger)
    BY <2>1, QuantileIsLeast
  <2> HIDE DEF q
  <2>3. q \in Enough /\ \A x \in Enough : q <= x
    BY <2>2 DEF IsQuantile, UpTo
  <2>4. Enough \subseteq Nat
    BY <2>1 DEF Priced
  <2>5. Min(Enough) = q
    <3>1. \E x \in Enough : \A y \in Enough : x =< y
      BY <2>3
    <3>2. Min(Enough) \in Enough /\ \A y \in Enough : Min(Enough) <= y
      BY <3>1 DEF Min
    <3>3. Min(Enough) <= q /\ q <= Min(Enough) /\ Min(Enough) \in Nat /\ q \in Nat
      BY <2>3, <2>4, <3>2
    <3>. QED BY <3>3
  <2>. QED BY <2>5 DEF q
<1>. QED BY <1>1, RateInvariant, PTL

\* Whatever tiers are blended, no number of an estimate lies outside what the
\* comparables it shows were paid, and its range holds its point.
THEOREM EstimatesStayWithinEvidence == Spec => []EstimateIsWithinEvidence
<1>1. History(known, ledger) => EstimateIsWithinEvidence
  <2> SUFFICES ASSUME History(known, ledger), NEW e \in Estimate,
                      NEW paid, paid = {Rate(v, ledger) : v \in e.shown}
               PROVE  /\ Min(paid) * e.den <= e.lower
                      /\ e.lower <= e.point
                      /\ e.point <= e.upper
                      /\ e.upper <= Max(paid) * e.den
    BY DEF EstimateIsWithinEvidence
  <2>1. Sound(e, ledger)
    BY HierarchyComesTo DEF Estimate, ComesTo
  <2>2. PICK v \in e.shown : Rate(v, ledger) * e.den <= e.lower
    BY <2>1 DEF Sound
  <2>3. PICK w \in e.shown : e.upper <= Rate(w, ledger) * e.den
    BY <2>1 DEF Sound
  <2>4. paid \subseteq Nat /\ paid # {}
    BY <2>1, <2>2 DEF Sound, Priced
  <2>5. Min(paid) \in Nat /\ Min(paid) <= Rate(v, ledger)
    <3>1. \E x \in paid : \A y \in paid : x =< y
      BY <2>4, LeastNumber
    <3>2. Min(paid) \in paid /\ \A y \in paid : Min(paid) <= y
      BY <3>1 DEF Min
    <3>. QED BY <2>4, <3>2
  <2>6. Max(paid) \in Nat /\ Rate(w, ledger) <= Max(paid)
    <3>1. PICK u \in e.shown : \A x \in e.shown : Rate(x, ledger) <= Rate(u, ledger)
      BY <2>1, <2>2, OnePaidMost DEF Sound
    <3>2. \E x \in paid : \A y \in paid : x >= y
      BY <2>4, <3>1
    <3>3. Max(paid) \in paid /\ \A y \in paid : Max(paid) >= y
      BY <3>2 DEF Max
    <3>. QED BY <2>4, <3>3
  <2>7. Rate(v, ledger) \in Nat /\ Rate(w, ledger) \in Nat /\ e.den \in Nat
    BY <2>1 DEF Sound, Priced
  <2>8. \A i, j, k \in Nat : i <= j => i * k <= j * k
    OBVIOUS
  <2>9. /\ Min(paid) * e.den <= Rate(v, ledger) * e.den
        /\ Rate(w, ledger) * e.den <= Max(paid) * e.den
    BY <2>5, <2>6, <2>7, <2>8
  <2>10. /\ Min(paid) * e.den \in Nat /\ Max(paid) * e.den \in Nat
         /\ Rate(v, ledger) * e.den \in Nat /\ Rate(w, ledger) * e.den \in Nat
    BY <2>5, <2>6, <2>7
  <2>11. /\ e.lower \in Int /\ e.point \in Int /\ e.upper \in Int
         /\ e.lower <= e.point /\ e.point <= e.upper
    BY <2>1 DEF Sound
  <2>12. \A i, j, k \in Int : i <= j /\ j <= k => i <= k
    OBVIOUS
  <2>13. Min(paid) * e.den <= e.lower
    BY <2>2, <2>9, <2>10, <2>11, <2>12
  <2>14. e.upper <= Max(paid) * e.den
    BY <2>3, <2>9, <2>10, <2>11, <2>12
  <2>. QED BY <2>11, <2>13, <2>14
<1>. QED BY <1>1, RateInvariant, PTL

\* estimate answers once, and says NO_HISTORICAL_EVIDENCE exactly when no tier
\* has a comparable with a rate.
THEOREM OneEstimateOrNone ==
  Spec => [](/\ \A d, e \in Estimate : d = e
             /\ Estimate = {} <=> \A t \in LaneTier : Evidence(t, known, ledger) = {})
<1>1. History(known, ledger) =>
        /\ \A d, e \in Estimate : d = e
        /\ Estimate = {} <=> \A t \in LaneTier : Evidence(t, known, ledger) = {}
  BY HierarchyComesTo DEF Estimate, ComesTo, LaneTier
<1>. QED BY <1>1, RateInvariant, PTL

-----------------------------------------------------------------------------
(* The displayed comparables explain the estimate. *)

\* All that the estimates in x display.
ShownBy(x) == UNION {e.shown : e \in x}

\* A comparable is evidence of one tier only, the narrowest that it matches.
LEMMA TiersAreDisjoint ==
  ASSUME NEW K, NEW L, NEW t \in LaneTier, NEW u \in LaneTier, t # u
  PROVE  Evidence(t, K, L) \cap Evidence(u, K, L) = {}
<1> DEFINE exact == \E v \in Completed(K) : SameEquipment(v)
<1> SUFFICES ASSUME NEW v \in Evidence(t, K, L), v \in Evidence(u, K, L) PROVE FALSE
  OBVIOUS
<1>1. /\ Matches(v, t, exact) /\ \A w \in 1..(t - 1) : ~Matches(v, w, exact)
      /\ Matches(v, u, exact) /\ \A w \in 1..(u - 1) : ~Matches(v, w, exact)
  BY DEF Evidence, Retrieved
<1>2. t \in 1..(u - 1) \/ u \in 1..(t - 1)
  BY DEF LaneTier
<1>. QED BY <1>1, <1>2

\* Displayed are only comparables of the tiers that were blended.
LEMMA ShownIsEvidence ==
  ASSUME NEW K, NEW L, NEW t \in 1..6, NEW x,
         ShownBy(x) \subseteq UNION {Evidence(u, K, L) : u \in (t + 1)..6}
  PROVE  ShownBy(Onward(Summaries(K, L), t, x))
           \subseteq UNION {Evidence(u, K, L) : u \in t..6}
<1> DEFINE S == Evidence(t, K, L)
           here == {s \in Summaries(K, L) : s.tier = t}
           next == Onward(Summaries(K, L), t, x)
<1>1. t \in t..6 /\ (t + 1)..6 \subseteq t..6
  OBVIOUS
<1>2. here = {} \/ here = {Local(t, S, L)}
  BY SummaryOf DEF LaneTier
<1>3. next \subseteq x \cup {Local(t, S, L)} \cup {Blended(Local(t, S, L), b) : b \in x}
  BY <1>2 DEF Onward, Resolved
<1>4. Local(t, S, L).shown = S
  BY DEF Local
<1>5. \A b : Blended(Local(t, S, L), b).shown = S \cup b.shown
  BY <1>4 DEF Blended
<1>6. \A e \in next : e.shown \subseteq S \cup ShownBy(x)
  BY <1>3, <1>4, <1>5 DEF ShownBy
<1>7. S \cup ShownBy(x) \subseteq UNION {Evidence(u, K, L) : u \in t..6}
  BY <1>1
<1> HIDE DEF next
<1>8. ShownBy(next) \subseteq S \cup ShownBy(x)
  BY <1>6 DEF ShownBy
<1>. QED BY <1>7, <1>8 DEF next

\* M has of each tier from t on what x displays of it.
Displays(x, t, K, M, L) ==
  \A u \in t..6 : Evidence(u, M, L) = Evidence(u, K, L) \cap ShownBy(x)

\* If the broader tiers of a history that has what they display come to the
\* same, so do the tiers from t on.
LEMMA OnwardDisplays ==
  ASSUME NEW K, NEW M, NEW L, History(K, L), History(M, L), NEW t \in 1..6,
         NEW x, ComesTo(x, t + 1, K, L), NEW y, ComesTo(y, t + 1, M, L),
         Displays(x, t + 1, K, M, L) => y = x,
         Displays(Onward(Summaries(K, L), t, x), t, K, M, L)
  PROVE  Onward(Summaries(M, L), t, y) = Onward(Summaries(K, L), t, x)
<1> DEFINE S == Evidence(t, K, L)
           local == Local(t, S, L)
           next == Onward(Summaries(K, L), t, x)
           other == Onward(Summaries(M, L), t, y)
<1>1. t \in t..6 /\ \A u \in (t + 1)..6 : u \in t..6 /\ u # t /\ u \in LaneTier
  BY DEF LaneTier
<1>2. t \in LaneTier
  BY DEF LaneTier
<1>3. Evidence(t, M, L) = S \cap ShownBy(next)
  BY <1>1 DEF Displays
<1>4. \A u \in (t + 1)..6 : Evidence(u, M, L) = Evidence(u, K, L) \cap ShownBy(next)
  BY <1>1 DEF Displays
<1>5. CASE S = {}
  <2>1. next = x
    BY <1>2, <1>5, SummaryOf DEF Onward
  <2>2. Evidence(t, M, L) = {}
    BY <1>3, <1>5
  <2>3. other = y
    BY <1>2, <2>2, SummaryOf DEF Onward
  <2>4. y = x
    BY <1>4, <2>1 DEF Displays
  <2>. QED BY <2>1, <2>3, <2>4
<1>6. CASE S # {}
  <2>1. next = Resolved(local, x)
    <3>1. {s \in Summaries(K, L) : s.tier = t} = {local}
      BY <1>2, <1>6, SummaryOf
    <3> HIDE DEF local, S
    <3>. QED BY <3>1 DEF Onward
  <2>2. local.shown = S
    BY DEF Local
  <2>3. \A b : Blended(local, b).shown = S \cup b.shown
    BY <2>2 DEF Blended
  <2>4. next # {} /\ \A e \in next : S \subseteq e.shown
    <3> HIDE DEF local
    <3>. QED BY <2>1, <2>2, <2>3 DEF Resolved
  <2>5. Evidence(t, M, L) = S
    <3>1. S \subseteq ShownBy(next)
      BY <2>4 DEF ShownBy
    <3>. QED BY <1>3, <3>1
  <2>6. other = Resolved(local, y)
    <3>1. {s \in Summaries(M, L) : s.tier = t} = {local}
      BY <1>2, <1>6, <2>5, SummaryOf
    <3> HIDE DEF local, S
    <3>. QED BY <3>1 DEF Onward
  <2>7. \A u \in (t + 1)..6 : Evidence(u, K, L) \cap S = {}
    BY <1>1, <1>2, TiersAreDisjoint
  <2>8. CASE x = {} \/ ~IsSparse(local.ess)
    <3>1. next = {local}
      BY <2>1, <2>8 DEF Resolved
    <3>2. ShownBy(next) = S
      BY <2>2, <3>1 DEF ShownBy
    <3>3. \A u \in (t + 1)..6 : Evidence(u, M, L) = {}
      BY <1>4, <2>7, <3>2
    <3>4. y = {}
      BY <3>3 DEF ComesTo
    <3>5. other = {local}
      BY <2>6, <3>4 DEF Resolved
    <3>. QED BY <3>1, <3>5
  <2>9. CASE ~(x = {} \/ ~IsSparse(local.ess))
    <3>1. next = {Blended(local, b) : b \in x}
      BY <2>1, <2>9 DEF Resolved
    <3>2. ShownBy(next) = S \cup ShownBy(x)
      <4> HIDE DEF local, S, next
      <4>1. \A v : v \in ShownBy(next) <=> \E b \in x : v \in S \cup b.shown
        <5>1. \A v : v \in ShownBy(next) <=> \E e \in next : v \in e.shown
          BY DEF ShownBy
        <5>2. \A b \in x : Blended(local, b) \in next
          BY <3>1
        <5>3. \A e \in next : \E b \in x : e = Blended(local, b)
          BY <3>1
        <5>. QED BY <2>3, <5>1, <5>2, <5>3
      <4>2. x # {}
        BY <2>9
      <4>. QED BY <4>1, <4>2 DEF ShownBy
    <3>3. \A u \in (t + 1)..6 : Evidence(u, M, L) = Evidence(u, K, L) \cap ShownBy(x)
      BY <1>4, <2>7, <3>2
    <3>4. y = x
      BY <3>3 DEF Displays
    <3>. QED BY <2>1, <2>6, <3>4
  <2>. QED BY <2>8, <2>9
<1>. QED BY <1>5, <1>6

\* A history that has what an estimate displays, and nothing else in any tier,
\* comes to the same estimate.
LEMMA DisplayedSuffices ==
  ASSUME NEW K, NEW M, NEW L, History(K, L), History(M, L),
         Displays(ResolveHierarchy(K, L), 1, K, M, L)
  PROVE  ResolveHierarchy(M, L) = ResolveHierarchy(K, L)
<1>1. PICK from : /\ from[7] = {}
                  /\ \A t \in 1..6 : from[t] = Onward(Summaries(K, L), t, from[t + 1])
                  /\ ResolveHierarchy(K, L) = from[1]
  BY HierarchyUnfolds, ZenonT(40)
<1>2. PICK other : /\ other[7] = {}
                   /\ \A t \in 1..6 : other[t] = Onward(Summaries(M, L), t, other[t + 1])
                   /\ ResolveHierarchy(M, L) = other[1]
  BY HierarchyUnfolds
<1> DEFINE Same(t) == /\ ComesTo(from[t], t, K, L) /\ ComesTo(other[t], t, M, L)
                      /\ Displays(from[t], t, K, M, L) => other[t] = from[t]
<1>3. Same(7)
  BY <1>1, <1>2 DEF ComesTo
<1>4. ASSUME NEW t \in 1..6, Same(t + 1) PROVE Same(t)
  <2>1. ComesTo(from[t], t, K, L) /\ ComesTo(other[t], t, M, L)
    BY <1>1, <1>2, <1>4, OnwardComesTo
  <2>2. Displays(from[t], t, K, M, L) => other[t] = from[t]
    BY <1>1, <1>2, <1>4, OnwardDisplays
  <2>. QED BY <2>1, <2>2
<1> HIDE DEF Same
<1>5. Same(6)
  BY <1>3, <1>4
<1>6. Same(5)
  BY <1>4, <1>5
<1>7. Same(4)
  BY <1>4, <1>6
<1>8. Same(3)
  BY <1>4, <1>7
<1>9. Same(2)
  BY <1>4, <1>8
<1>10. Same(1)
  BY <1>4, <1>9
<1>. QED BY <1>1, <1>2, <1>10 DEF Same

\* What an estimate displays is evidence of its history.
LEMMA EstimateShowsEvidence ==
  ASSUME NEW K, NEW L
  PROVE  ShownBy(ResolveHierarchy(K, L)) \subseteq UNION {Evidence(u, K, L) : u \in LaneTier}
<1>1. PICK from : /\ from[7] = {}
                  /\ \A t \in 1..6 : from[t] = Onward(Summaries(K, L), t, from[t + 1])
                  /\ ResolveHierarchy(K, L) = from[1]
  BY HierarchyUnfolds
<1> DEFINE Within(t) ==
             ShownBy(from[t]) \subseteq UNION {Evidence(u, K, L) : u \in t..6}
<1>2. Within(7)
  BY <1>1 DEF ShownBy
<1>3. ASSUME NEW t \in 1..6, Within(t + 1) PROVE Within(t)
  BY <1>1, <1>3, ShownIsEvidence
<1> HIDE DEF Within
<1>4. Within(6)
  BY <1>2, <1>3
<1>5. Within(5)
  BY <1>3, <1>4
<1>6. Within(4)
  BY <1>3, <1>5
<1>7. Within(3)
  BY <1>3, <1>6
<1>8. Within(2)
  BY <1>3, <1>7
<1>9. Within(1)
  BY <1>3, <1>8
<1>. QED BY <1>1, <1>9 DEF Within, LaneTier

\* What remains of a history when only D, some of its evidence, is known.
Only(K, D) == [l \in Loads |-> IF K[l] \in D THEN K[l] ELSE None]

\* Of each tier there remains what D has of it.
LEMMA OnlyKeepsTiers ==
  ASSUME NEW K, NEW L, History(K, L),
         NEW D, D \subseteq UNION {Evidence(u, K, L) : u \in LaneTier},
         NEW t \in LaneTier
  PROVE  /\ History(Only(K, D), L)
         /\ Evidence(t, Only(K, D), L) = Evidence(t, K, L) \cap D
<1> DEFINE M == Only(K, D)
           exact == \E v \in Completed(K) : SameEquipment(v)
           rest == \E v \in Completed(M) : SameEquipment(v)
<1>1. \A v \in Versions : v.load \in Loads /\ v # None
  BY RatesAssumption DEF Version
<1>2. \A v \in Versions : M[v.load] = v <=> K[v.load] = v /\ v \in D
  BY <1>1 DEF Only
<1>3. History(M, L)
  <2>1. M \in [Loads -> Versions \cup {None}]
    BY DEF Only, History
  <2>2. {v \in Versions : M[v.load] = v} \subseteq {v \in Versions : K[v.load] = v}
    BY <1>2
  <2>3. IsFiniteSet({v \in Versions : M[v.load] = v})
    BY <2>2, FS_Subset DEF History
  <2>. QED BY <2>1, <2>3 DEF History
<1>4. Completed(M) = Completed(K) \cap D
  BY <1>2 DEF Completed
<1>5. ASSUME NEW v \in D, NEW u \in LaneTier
      PROVE  Matches(v, u, rest) <=> Matches(v, u, exact)
  <2>1. PICK w \in LaneTier : v \in Evidence(w, K, L)
    OBVIOUS
  <2>2. v \in Completed(K) /\ Matches(v, w, exact)
    BY <2>1 DEF Evidence, Retrieved
  <2>3. rest => exact
    BY <1>4
  <2>4. CASE exact /\ ~rest
    <3>1. ~SameEquipment(v)
      BY <1>4, <2>2, <2>4
    <3>2. target.equipment \in UnknownEquipment
      BY <2>2, <2>4, <3>1 DEF Matches
    <3>. QED BY <3>1, <3>2 DEF Matches
  <2>5. CASE rest = exact
    BY <2>5
  <2> HIDE DEF rest, exact
  <2>. QED BY <2>3, <2>4, <2>5 DEF Matches
<1>6. Retrieved(t, M) = Retrieved(t, K) \cap D
  <2>1. \A u \in 1..(t - 1) : u \in LaneTier
    BY DEF LaneTier
  <2>2. Retrieved(t, M) = {v \in Completed(M) : /\ Matches(v, t, rest)
                                                /\ \A u \in 1..(t - 1) : ~Matches(v, u, rest)}
    BY DEF Retrieved
  <2>3. Retrieved(t, K) = {v \in Completed(K) : /\ Matches(v, t, exact)
                                                /\ \A u \in 1..(t - 1) : ~Matches(v, u, exact)}
    BY DEF Retrieved
  <2> HIDE DEF rest, exact, M
  <2>. QED BY <1>4, <1>5, <2>1, <2>2, <2>3
<1>7. Evidence(t, M, L) = Evidence(t, K, L) \cap D
  BY <1>6 DEF Evidence
<1>. QED BY <1>3, <1>7

\* An estimate follows from the comparables it displays: a history of these
\* alone gives the same tiers, the same blending and the same numbers.
THEOREM DisplayedEvidenceExplains == Spec => []DisplayedEvidenceSuffices
<1>1. History(known, ledger) => DisplayedEvidenceSuffices
  <2> SUFFICES ASSUME History(known, ledger), NEW e \in Estimate
               PROVE  ResolveHierarchy(Only(known, e.shown), ledger) = {e}
    BY DEF DisplayedEvidenceSuffices, Only
  <2>1. Estimate = {e} /\ Estimate = ResolveHierarchy(known, ledger)
    BY HierarchyComesTo DEF Estimate, ComesTo
  <2>2. ShownBy(Estimate) = e.shown
    BY <2>1 DEF ShownBy
  <2>3. e.shown \subseteq UNION {Evidence(u, known, ledger) : u \in LaneTier}
    BY <2>1, <2>2, EstimateShowsEvidence, SMTT(30)
  <2>4. 1 \in LaneTier /\ LaneTier = 1..6
    BY DEF LaneTier
  <2>5. History(Only(known, e.shown), ledger)
    BY <2>3, <2>4, OnlyKeepsTiers
  <2>6. Displays(Estimate, 1, known, Only(known, e.shown), ledger)
    BY <2>2, <2>3, <2>4, OnlyKeepsTiers DEF Displays
  <2>. QED BY <2>1, <2>5, <2>6, DisplayedSuffices
<1>. QED BY <1>1, RateInvariant, PTL

-----------------------------------------------------------------------------
(* What raises a comparable lowers no number of the estimate. *)

\* The comparables S with v in the place of u.
Swap(S, u, v) == IF u \in S THEN (S \ {u}) \cup {v} ELSE S

\* Swapping a comparable for one of the same weight changes no sum of weights.
LEMMA SwapKeepsWeight ==
  ASSUME NEW u \in Versions, NEW v \in Versions, u.weight = v.weight,
         NEW S \in SUBSET Versions, IsFiniteSet(S), v \notin S \/ v = u
  PROVE  /\ Swap(S, u, v) \in SUBSET Versions
         /\ IsFiniteSet(Swap(S, u, v))
         /\ WeightOf(Swap(S, u, v)) = WeightOf(S)
         /\ SquaresOf(Swap(S, u, v)) = SquaresOf(S)
<1> DEFINE U == S \cup {v}
           T == (S \ {u}) \cup {v}
           f == [w \in U |-> w.weight]
           h == [w \in U |-> w.weight * w.weight]
<1>1. IsFiniteSet(U) /\ IsFiniteSet(S \ {u}) /\ IsFiniteSet(T)
  BY FS_Subset, FS_AddElement
<1>2. CASE u \notin S \/ u = v
  BY <1>2 DEF Swap
<1>3. CASE u \in S /\ u # v
  <2>1. Swap(S, u, v) = T
    BY <1>3 DEF Swap
  <2>2. \A w \in U : w.weight \in Int /\ w.weight * w.weight \in Int
    BY RatesAssumption DEF Version
  <2>3. f \in [U -> Int] /\ h \in [U -> Int]
    BY <2>2
  <2>4. /\ S \in SUBSET U /\ T \in SUBSET U
        /\ u \in S /\ v \in T /\ T \ {v} = S \ {u}
    BY <1>3
  <2>5. f[u] = f[v] /\ h[u] = h[v]
    BY <2>4
  <2>6. /\ \A R \in SUBSET U : WeightOf(R) = SumFunction([w \in R |-> f[w]])
        /\ \A R \in SUBSET U : SquaresOf(R) = SumFunction([w \in R |-> h[w]])
    <3>1. ASSUME NEW R \in SUBSET U
          PROVE  /\ [w \in R |-> f[w]] = [w \in R |-> w.weight]
                 /\ [w \in R |-> h[w]] = [w \in R |-> w.weight * w.weight]
      OBVIOUS
    <3> HIDE DEF f, h
    <3>. QED BY <3>1 DEF WeightOf, SquaresOf
  <2> HIDE DEF f, h, U, T
  <2>7. PICK g \in [SUBSET U -> Int] : HasSums(g, f, U)
    BY <1>1, <2>3, SumByParts
  <2>8. PICK k \in [SUBSET U -> Int] : HasSums(k, h, U)
    BY <1>1, <2>3, SumByParts
  <2>9. g[S] = f[u] + g[S \ {u}] /\ g[T] = f[v] + g[T \ {v}]
    BY <2>4, <2>7 DEF HasSums
  <2>10. k[S] = h[u] + k[S \ {u}] /\ k[T] = h[v] + k[T \ {v}]
    BY <2>4, <2>8 DEF HasSums
  <2>11. WeightOf(S) = WeightOf(T)
    BY <2>4, <2>5, <2>6, <2>7, <2>9 DEF HasSums
  <2>12. SquaresOf(S) = SquaresOf(T)
    BY <2>4, <2>5, <2>6, <2>8, <2>10 DEF HasSums
  <2>13. T \in SUBSET Versions
    BY DEF T
  <2>. QED BY <1>1, <2>1, <2>11, <2>12, <2>13
<1>. QED BY <1>2, <1>3

\* With the ledger P and v in the place of u, no comparable of S paid less.
Pays(S, u, v, L, P) ==
  /\ \A w \in S \ {u} : Rate(w, L) <= Rate(w, P)
  /\ u \in S => Rate(u, L) <= Rate(v, P)

\* Then no quantile is lower.
LEMMA QuantileRises ==
  ASSUME NEW u \in Versions, NEW v \in Versions, u.weight = v.weight,
         NEW L, NEW P, NEW S, S # {}, Priced(S, L), Priced(Swap(S, u, v), P),
         v \notin S \/ v = u, Pays(S, u, v, L, P), NEW n \in 1..3
  PROVE  WeightedQuantile(S, n, L) <= WeightedQuantile(Swap(S, u, v), n, P)
<1> DEFINE T == Swap(S, u, v)
           q == WeightedQuantile(S, n, L)
           p == WeightedQuantile(T, n, P)
           A == UpTo(T, p, P)
           B == {w \in S : IF w = u THEN Rate(v, P) <= p ELSE Rate(w, P) <= p}
           C == UpTo(S, p, L)
<1>1. T # {} /\ S \in SUBSET Versions /\ IsFiniteSet(S)
  BY DEF Swap, Priced
<1>2. IsQuantile(q, S, n, L) /\ IsQuantile(p, T, n, P)
  BY <1>1, QuantileIsLeast
<1>3. q \in Nat /\ p \in Nat
  BY <1>2 DEF IsQuantile, Priced
<1> HIDE DEF q, p
<1>4. B \in SUBSET S /\ A = Swap(B, u, v)
  <2>1. CASE u \in S
    <3>1. T = (S \ {u}) \cup {v}
      BY <2>1 DEF Swap
    <3>2. CASE Rate(v, P) <= p
      BY <2>1, <3>1, <3>2 DEF Swap, UpTo
    <3>3. CASE ~(Rate(v, P) <= p)
      BY <2>1, <3>1, <3>3 DEF Swap, UpTo
    <3>. QED BY <3>2, <3>3
  <2>2. CASE u \notin S
    BY <2>2 DEF Swap, UpTo
  <2>. QED BY <2>1, <2>2
<1>5. B \in SUBSET C
  <2>1. ASSUME NEW w \in B PROVE Rate(w, L) <= p
    <3>1. Rate(w, L) \in Nat
      BY <1>4 DEF Priced
    <3>2. CASE w = u
      <4>1. v \in T /\ Rate(u, L) <= Rate(v, P) /\ Rate(v, P) <= p
        BY <3>2 DEF Pays, Swap
      <4>2. Rate(v, P) \in Nat
        BY <4>1 DEF Priced
      <4>. QED BY <1>3, <3>1, <3>2, <4>1, <4>2
    <3>3. CASE w # u
      <4>1. w \in T /\ Rate(w, L) <= Rate(w, P) /\ Rate(w, P) <= p
        BY <3>3 DEF Pays, Swap
      <4>2. Rate(w, P) \in Nat
        BY <4>1 DEF Priced
      <4>. QED BY <1>3, <3>1, <4>1, <4>2
    <3>. QED BY <3>2, <3>3
  <2>. QED BY <1>4, <2>1 DEF UpTo
<1> HIDE DEF A, B
<1>6. WeightOf(T) = WeightOf(S)
  BY <1>1, SwapKeepsWeight
<1>7. WeightOf(A) = WeightOf(B)
  <2>1. B \in SUBSET Versions /\ IsFiniteSet(B) /\ (v \notin B \/ v = u)
    BY <1>1, <1>4, FS_Subset
  <2>. QED BY <1>4, <2>1, SwapKeepsWeight
<1>8. C \in SUBSET S /\ C \in SUBSET Versions /\ IsFiniteSet(C)
  BY <1>1, FS_Subset DEF UpTo
<1>9. /\ WeightOf(B) \in Nat /\ WeightOf(C) \in Nat /\ WeightOf(B) <= WeightOf(C)
      /\ WeightOf(C) = 0 <=> C = {}
  BY <1>5, <1>8, WeightsGrow
<1>10. WeightOf(S) \in Nat /\ WeightOf(S) # 0
  BY <1>1, WeightsGrow
<1>11. 4 * WeightOf(A) >= n * WeightOf(T)
  BY <1>2 DEF IsQuantile, A
<1>12. 4 * WeightOf(C) >= n * WeightOf(S) /\ C # {}
  <2>1. 4 * WeightOf(C) >= n * WeightOf(S)
    <3> HIDE DEF C, T
    <3>. QED BY <1>6, <1>7, <1>9, <1>10, <1>11
  <2>2. WeightOf(C) # 0
    <3> HIDE DEF C, T
    <3>. QED BY <1>9, <1>10, <2>1
  <2>. QED BY <1>9, <2>1, <2>2
<1>13. PICK x \in C : \A w \in C : Rate(w, L) <= Rate(x, L)
  <2>1. Priced(C, L)
    BY <1>8 DEF Priced
  <2> HIDE DEF C
  <2>. QED BY <1>12, <2>1, OnePaidMost
<1>14. x \in S /\ Rate(x, L) \in Nat /\ Rate(x, L) <= p
  BY DEF UpTo, Priced
<1>15. UpTo(S, Rate(x, L), L) = C
  <2>1. \A w \in S : Rate(w, L) \in Nat
    BY DEF Priced
  <2>2. \A w \in S : Rate(w, L) <= Rate(x, L) => Rate(w, L) <= p
    BY <1>3, <1>14, <2>1
  <2>. QED BY <1>13, <2>2 DEF UpTo
<1>16. q <= Rate(x, L)
  BY <1>2, <1>12, <1>14, <1>15 DEF IsQuantile
<1>17. q <= p
  BY <1>3, <1>14, <1>16
<1>. QED BY <1>17 DEF q, p

\* T is made of S by swaps and rates that rise: what the estimate reads of a
\* tier weighs the same, and no quantile of it is lower.
Above(T, P, S, L) ==
  /\ T = {} <=> S = {}
  /\ S # {} => /\ EffectiveSampleSize(T) = EffectiveSampleSize(S)
               /\ \A n \in 1..3 : WeightedQuantile(S, n, L) <= WeightedQuantile(T, n, P)

\* Swapped evidence is above what it was.
LEMMA SwapIsAbove ==
  ASSUME NEW u \in Versions, NEW v \in Versions, u.weight = v.weight,
         NEW L, NEW P, NEW S, Priced(S, L), Priced(Swap(S, u, v), P),
         v \notin S \/ v = u, Pays(S, u, v, L, P)
  PROVE  Above(Swap(S, u, v), P, S, L)
<1>1. Swap(S, u, v) = {} <=> S = {}
  BY DEF Swap
<1>2. EffectiveSampleSize(Swap(S, u, v)) = EffectiveSampleSize(S)
  BY SwapKeepsWeight DEF Priced, EffectiveSampleSize
<1>3. ASSUME S # {}, NEW n \in 1..3
      PROVE  WeightedQuantile(S, n, L) <= WeightedQuantile(Swap(S, u, v), n, P)
  BY <1>3, QuantileRises
<1>. QED BY <1>1, <1>2, <1>3 DEF Above

\* The numbers of d are not below those of e, over the same denominator.
Rises(e, d) ==
  d.den = e.den /\ d.point >= e.point /\ d.lower >= e.lower /\ d.upper >= e.upper

\* A weighted mean rises with its parts.
LEMMA MixRises ==
  ASSUME NEW own \in Nat, NEW rest \in Nat, NEW d \in Nat,
         NEW x \in Int, NEW y \in Int, NEW i \in Int, NEW j \in Int, x <= i, y <= j
  PROVE  own * x * d + rest * y <= own * i * d + rest * j
<1>1. \A k \in Nat, a, b \in Int : a <= b => k * a <= k * b
  OBVIOUS
<1>2. own * d \in Nat
  OBVIOUS
<1>3. (own * d) * x <= (own * d) * i
  BY <1>1, <1>2
<1>4. rest * y <= rest * j
  BY <1>1
<1>5. (own * d) * x = own * x * d /\ (own * d) * i = own * i * d
  OBVIOUS
<1>6. /\ (own * d) * x \in Int /\ (own * d) * i \in Int
      /\ rest * y \in Int /\ rest * j \in Int
  OBVIOUS
<1>7. \A a, b, c, e \in Int : a <= b /\ c <= e => a + c <= b + e
  OBVIOUS
<1>8. (own * d) * x + rest * y <= (own * d) * i + rest * j
  BY <1>3, <1>4, <1>6, <1>7
<1>. QED BY <1>5, <1>8

\* Blending what has risen gives an estimate that has risen.
LEMMA BlendedRises ==
  ASSUME NEW L, NEW P, NEW local, NEW other, NEW b, NEW c,
         Sound(local, L), Sound(other, P), Sound(b, L), Sound(c, P),
         other.ess = local.ess, local.ess[1] \in Nat, local.ess[2] \in Nat,
         Rises(local, other), Rises(b, c)
  PROVE  Rises(Blended(local, b), Blended(other, c))
<1> DEFINE own == local.ess[1]
           rest == 6 * local.ess[2]
           d == b.den
           Mix(x, y) == own * x * d + rest * y
           point == Mix(local.point, b.point)
           low == Mix(local.lower, b.lower)
           high == Mix(local.upper, b.upper)
           point1 == Mix(other.point, c.point)
           low1 == Mix(other.lower, c.lower)
           high1 == Mix(other.upper, c.upper)
<1>1. c.den = d /\ own \in Nat /\ rest \in Nat /\ d \in Nat
  BY DEF Rises, Sound
<1>2. /\ local.lower \in Int /\ local.point \in Int /\ local.upper \in Int
      /\ other.lower \in Int /\ other.point \in Int /\ other.upper \in Int
      /\ b.lower \in Int /\ b.point \in Int /\ b.upper \in Int
      /\ c.lower \in Int /\ c.point \in Int /\ c.upper \in Int
  BY DEF Sound
<1>3. /\ local.lower <= other.lower /\ local.point <= other.point
      /\ local.upper <= other.upper /\ b.lower <= c.lower /\ b.point <= c.point
      /\ b.upper <= c.upper
  BY <1>2 DEF Rises
<1>4. /\ Blended(local, b).den = (own + rest) * d
      /\ Blended(local, b).point = point
      /\ Blended(local, b).lower = Min({low, point})
      /\ Blended(local, b).upper = Max({high, point})
  BY DEF Blended
<1>5. /\ Blended(other, c).den = (own + rest) * d
      /\ Blended(other, c).point = point1
      /\ Blended(other, c).lower = Min({low1, point1})
      /\ Blended(other, c).upper = Max({high1, point1})
  BY <1>1 DEF Blended
<1> HIDE DEF own, rest, d
<1>6. \A x, y \in Int : Mix(x, y) \in Int
  BY <1>1
<1>7. \A x, y, i, j \in Int : x <= i /\ y <= j => Mix(x, y) <= Mix(i, j)
  <2> SUFFICES ASSUME NEW x \in Int, NEW y \in Int, NEW i \in Int, NEW j \in Int,
                      x <= i, y <= j
               PROVE  own * x * d + rest * y <= own * i * d + rest * j
    OBVIOUS
  <2>. QED BY <1>1, MixRises
<1> HIDE DEF Mix
<1>8. /\ point \in Int /\ low \in Int /\ high \in Int
      /\ point1 \in Int /\ low1 \in Int /\ high1 \in Int
  BY <1>2, <1>6
<1>9. point <= point1 /\ low <= low1 /\ high <= high1
  BY <1>2, <1>3, <1>7
<1> HIDE DEF point, low, high, point1, low1, high1
<1>10. /\ Min({low, point}) <= low /\ Min({low, point}) <= point
       /\ Min({low1, point1}) \in {low1, point1} /\ Min({low, point}) \in {low, point}
  BY <1>8, OfTwo
<1>11. /\ high1 <= Max({high1, point1}) /\ point1 <= Max({high1, point1})
       /\ Max({high, point}) \in {high, point} /\ Max({high1, point1}) \in {high1, point1}
  BY <1>8, OfTwo
<1>12. Min({low1, point1}) >= Min({low, point})
  BY <1>8, <1>9, <1>10
<1>13. Max({high1, point1}) >= Max({high, point})
  BY <1>8, <1>9, <1>11
<1>14. point1 >= point
  BY <1>8, <1>9
<1>. QED BY <1>4, <1>5, <1>12, <1>13, <1>14 DEF Rises

\* y is what x has come to, and has not fallen.
RisesTo(x, y) ==
  /\ x = {} <=> y = {}
  /\ \A e \in x, d \in y : Rises(e, d)

\* One tier further it has not fallen either.
LEMMA OnwardRises ==
  ASSUME NEW K, NEW L, NEW M, NEW P, History(K, L), History(M, P), NEW t \in 1..6,
         NEW x, ComesTo(x, t + 1, K, L), NEW y, ComesTo(y, t + 1, M, P), RisesTo(x, y),
         Above(Evidence(t, M, P), P, Evidence(t, K, L), L)
  PROVE  RisesTo(Onward(Summaries(K, L), t, x), Onward(Summaries(M, P), t, y))
<1> DEFINE S == Evidence(t, K, L)
           T == Evidence(t, M, P)
           local == Local(t, S, L)
           other == Local(t, T, P)
           next == Onward(Summaries(K, L), t, x)
           after == Onward(Summaries(M, P), t, y)
<1>1. t \in LaneTier
  BY DEF LaneTier
<1>2. T = {} <=> S = {}
  BY DEF Above
<1>3. CASE S = {}
  <2>1. next = x /\ after = y
    BY <1>1, <1>2, <1>3, SummaryOf DEF Onward
  <2>. QED BY <2>1
<1>4. CASE S # {}
  <2>1. /\ {s \in Summaries(K, L) : s.tier = t} = {local}
        /\ {s \in Summaries(M, P) : s.tier = t} = {other}
    BY <1>1, <1>2, <1>4, SummaryOf
  <2>2. next = Resolved(local, x) /\ after = Resolved(other, y)
    <3> HIDE DEF local, other
    <3>. QED BY <2>1 DEF Onward
  <2>3. /\ Sound(local, L) /\ local.den = 1
        /\ local.ess[1] \in Nat \ {0} /\ local.ess[2] \in Nat
    BY <1>4, EvidenceIsPriced, LocalIsSound
  <2>4. Sound(other, P) /\ other.den = 1
    BY <1>2, <1>4, EvidenceIsPriced, LocalIsSound
  <2>5. other.ess = local.ess
    BY <1>4 DEF Local, Above
  <2>6. local.point <= other.point /\ local.lower <= other.lower
        /\ local.upper <= other.upper
    BY <1>4 DEF Local, Above
  <2> HIDE DEF local, other, next, after
  <2>7. Rises(local, other)
    BY <2>3, <2>4, <2>6 DEF Rises, Sound
  <2>8. CASE x = {} \/ ~IsSparse(local.ess)
    <3>1. next = {local} /\ after = {other}
      BY <2>2, <2>5, <2>8 DEF Resolved, RisesTo
    <3>. QED BY <2>7, <3>1 DEF RisesTo, next, after
  <2>9. CASE ~(x = {} \/ ~IsSparse(local.ess))
    <3>1. /\ next = {Blended(local, b) : b \in x}
          /\ after = {Blended(other, c) : c \in y}
      BY <2>2, <2>5, <2>9 DEF Resolved, RisesTo
    <3>2. ASSUME NEW b \in x, NEW c \in y
          PROVE  Rises(Blended(local, b), Blended(other, c))
      <4>1. Sound(b, L) /\ Sound(c, P) /\ Rises(b, c)
        BY DEF ComesTo, RisesTo
      <4>. QED BY <2>3, <2>4, <2>5, <2>7, <4>1, BlendedRises
    <3>3. next # {} /\ after # {}
      BY <2>9, <3>1 DEF RisesTo
    <3>. QED BY <3>1, <3>2, <3>3 DEF RisesTo, next, after
  <2>. QED BY <2>8, <2>9
<1>. QED BY <1>3, <1>4

\* When the evidence of each tier is above what it was, so is the estimate.
LEMMA HierarchyRises ==
  ASSUME NEW K, NEW L, NEW M, NEW P, History(K, L), History(M, P),
         \A t \in LaneTier : Above(Evidence(t, M, P), P, Evidence(t, K, L), L)
  PROVE  RisesTo(ResolveHierarchy(K, L), ResolveHierarchy(M, P))
<1>1. PICK from : /\ from[7] = {}
                  /\ \A t \in 1..6 : from[t] = Onward(Summaries(K, L), t, from[t + 1])
                  /\ ResolveHierarchy(K, L) = from[1]
  BY HierarchyUnfolds, ZenonT(40)
<1>2. PICK other : /\ other[7] = {}
                   /\ \A t \in 1..6 : other[t] = Onward(Summaries(M, P), t, other[t + 1])
                   /\ ResolveHierarchy(M, P) = other[1]
  BY HierarchyUnfolds, ZenonT(40)
<1> DEFINE Risen(t) == /\ ComesTo(from[t], t, K, L) /\ ComesTo(other[t], t, M, P)
                       /\ RisesTo(from[t], other[t])
<1>3. Risen(7)
  BY <1>1, <1>2 DEF ComesTo, RisesTo
<1>4. ASSUME NEW t \in 1..6, Risen(t + 1) PROVE Risen(t)
  <2>1. ComesTo(from[t], t, K, L) /\ ComesTo(other[t], t, M, P)
    BY <1>1, <1>2, <1>4, OnwardComesTo
  <2>2. Above(Evidence(t, M, P), P, Evidence(t, K, L), L)
    BY DEF LaneTier
  <2>3. RisesTo(from[t], other[t])
    BY <1>1, <1>2, <1>4, <2>2, OnwardRises
  <2>. QED BY <2>1, <2>3
<1> HIDE DEF Risen
<1>5. Risen(6)
  BY <1>3, <1>4
<1>6. Risen(5)
  BY <1>4, <1>5
<1>7. Risen(4)
  BY <1>4, <1>6
<1>8. Risen(3)
  BY <1>4, <1>7
<1>9. Risen(2)
  BY <1>4, <1>8
<1>10. Risen(1)
  BY <1>4, <1>9
<1>. QED BY <1>1, <1>2, <1>10 DEF Risen

\* What v shares with u when it is known as u but for a higher amount.
LEMMA RaisedIsAlike ==
  ASSUME History(known, ledger),
         NEW u \in Versions, NEW v \in Versions, Raises(u, v)
  PROVE  /\ v.load = u.load /\ v.completed = u.completed /\ v.weight = u.weight
         /\ v # u
         /\ SameEquipment(v) <=> SameEquipment(u)
         /\ \A t, x : Matches(v, t, x) <=> Matches(u, t, x)
         /\ Rate(u, ledger) # None /\ Rate(v, ledger) # None
         /\ Rate(u, ledger) <= Rate(v, ledger)
<1>1. u \in Version /\ v \in Version
  BY RatesAssumption
<1>2. v = [u EXCEPT !.amount = v.amount]
  BY DEF Raises
<1>3. /\ v.load = u.load /\ v.completed = u.completed /\ v.weight = u.weight
      /\ v.equipment = u.equipment /\ v.miles = u.miles /\ v.metros = u.metros
      /\ v.distance = u.distance
  BY <1>1, <1>2 DEF Version
<1>4. /\ Rate(u, ledger) # None /\ Rate(v, ledger) # None
      /\ Rate(v, ledger) > Rate(u, ledger)
  BY DEF Raises
<1> HIDE DEF Raises
<1>5. ASSUME NEW t, NEW x PROVE Matches(v, t, x) <=> Matches(u, t, x)
  <2>1. \A n : WithinMiles(v, n) <=> WithinMiles(u, n)
    BY <1>3 DEF WithinMiles
  <2>2. ComparableLength(v) <=> ComparableLength(u)
    BY <1>3 DEF ComparableLength, Distant
  <2>. QED BY <1>3, <2>1, <2>2 DEF Matches, SameEquipment
<1>6. Rate(u, ledger) \in Nat /\ Rate(v, ledger) \in Nat
  BY <1>4, RateType DEF History
<1>7. Rate(u, ledger) <= Rate(v, ledger) /\ v # u
  BY <1>4, <1>6
<1>. QED BY <1>3, <1>4, <1>5, <1>7 DEF SameEquipment

\* A correction puts v in the place of u in the evidence of its tier.
LEMMA CorrectionSwaps ==
  ASSUME History(known, ledger), NEW v \in Versions, NEW u, u = known[v.load],
         Raises(u, v), NEW M, M = [known EXCEPT ![v.load] = v], NEW t \in LaneTier
  PROVE  /\ History(M, ledger)
         /\ Above(Evidence(t, M, ledger), ledger, Evidence(t, known, ledger), ledger)
<1> DEFINE exact(K) == \E w \in Completed(K) : SameEquipment(w)
<1>1. \A w \in Versions : w.load \in Loads
  BY RatesAssumption DEF Version
<1>2. u \in Versions
  BY <1>1 DEF History, Raises
<1>3. /\ v.load = u.load /\ v.completed = u.completed /\ v.weight = u.weight
      /\ v # u
      /\ SameEquipment(v) <=> SameEquipment(u)
      /\ \A n, x : Matches(v, n, x) <=> Matches(u, n, x)
      /\ Rate(u, ledger) # None /\ Rate(v, ledger) # None
      /\ Rate(u, ledger) <= Rate(v, ledger)
  BY <1>2, RaisedIsAlike
<1>4. \A w \in Versions : M[w.load] = w <=> w = v \/ (known[w.load] = w /\ w # u)
  BY <1>1, <1>2, <1>3 DEF History
<1>5. History(M, ledger)
  <2>1. M \in [Loads -> Versions \cup {None}]
    BY DEF History
  <2>2. {w \in Versions : M[w.load] = w}
          \subseteq {w \in Versions : known[w.load] = w} \cup {v}
    BY <1>4
  <2>3. IsFiniteSet({w \in Versions : M[w.load] = w})
    BY <2>2, FS_AddElement, FS_Subset DEF History
  <2>. QED BY <2>1, <2>3 DEF History
<1>6. v \notin Completed(known) /\ (u \in Completed(known) <=> v \in Completed(M))
  BY <1>2, <1>3, <1>4 DEF Completed
<1>7. Completed(M) = Swap(Completed(known), u, v)
  <2>1. \A w : w \in Completed(M) <=>
                 IF w = v THEN u \in Completed(known)
                 ELSE w \in Completed(known) /\ w # u
    BY <1>4, <1>6 DEF Completed
  <2>2. \A w : w \in Swap(Completed(known), u, v) <=>
                 IF w = v THEN u \in Completed(known)
                 ELSE w \in Completed(known) /\ w # u
    BY <1>3, <1>6 DEF Swap
  <2>. QED BY <2>1, <2>2
<1>8. exact(M) = exact(known)
  BY <1>3, <1>7 DEF Swap
<1>9. ASSUME NEW w
      PROVE  w \in Evidence(t, M, ledger) <=>
               IF w = v THEN u \in Evidence(t, known, ledger)
               ELSE w \in Evidence(t, known, ledger) /\ w # u
  <2>1. \A K, z : z \in Evidence(t, K, ledger) <=>
          /\ z \in Completed(K) /\ Rate(z, ledger) # None
          /\ Matches(z, t, exact(K)) /\ \A n \in 1..(t - 1) : ~Matches(z, n, exact(K))
    BY DEF Evidence, Retrieved
  <2> DEFINE Fits(z) == /\ Rate(z, ledger) # None
                        /\ Matches(z, t, exact(known))
                        /\ \A n \in 1..(t - 1) : ~Matches(z, n, exact(known))
  <2>2. /\ \A z : z \in Evidence(t, M, ledger) <=> z \in Completed(M) /\ Fits(z)
        /\ \A z : z \in Evidence(t, known, ledger) <=> z \in Completed(known) /\ Fits(z)
    <3> HIDE DEF exact
    <3>. QED BY <1>8, <2>1
  <2>3. Fits(v) <=> Fits(u)
    <3> HIDE DEF exact
    <3>. QED BY <1>3
  <2> HIDE DEF Fits
  <2>. QED BY <1>3, <1>6, <1>7, <2>2, <2>3 DEF Swap
<1> DEFINE S == Evidence(t, known, ledger)
           T == Evidence(t, M, ledger)
<1>10. v \notin S
  BY <1>6 DEF Evidence, Retrieved
<1>11. T = Swap(S, u, v)
  <2>1. \A w : w \in Swap(S, u, v) <=> IF w = v THEN u \in S ELSE w \in S /\ w # u
    BY <1>3, <1>10 DEF Swap
  <2> HIDE DEF S, T
  <2>2. \A w : w \in T <=> IF w = v THEN u \in S ELSE w \in S /\ w # u
    BY <1>9 DEF S, T
  <2>. QED BY <2>1, <2>2
<1>12. Priced(S, ledger) /\ Priced(T, ledger)
  BY <1>5, EvidenceIsPriced
<1>13. Pays(S, u, v, ledger, ledger)
  <2>1. \A w \in S : Rate(w, ledger) <= Rate(w, ledger)
    BY <1>12 DEF Priced
  <2> HIDE DEF S
  <2>. QED BY <1>3, <2>1 DEF Pays
<1> HIDE DEF S, T
<1>14. Above(T, ledger, S, ledger)
  BY <1>2, <1>3, <1>10, <1>11, <1>12, <1>13, SwapIsAbove
<1>. QED BY <1>5, <1>14 DEF S, T

\* One more rate row adds to what its load was paid, and to nothing else.
LEMMA RowAdds ==
  ASSUME NEW L \in SUBSET RateRows, IsFiniteSet(L),
         NEW r \in RateRows, r.amount >= 0,
         NEW w \in Versions, w.load = r.load => Rate(w, L) # None
  PROVE  /\ Rate(w, L) # None <=> Rate(w, L \cup {r}) # None
         /\ Rate(w, L) # None => Rate(w, L) <= Rate(w, L \cup {r})
<1> DEFINE P == L \cup {r}
           rows == {q \in L : q.load = w.load}
           more == {q \in P : q.load = w.load}
<1>1. IsFiniteSet(P) /\ P \in SUBSET RateRows
  BY FS_AddElement
<1>2. Rate(w, L) # None => Rate(w, L) \in Nat
  BY RateType
<1>3. CASE w.load # r.load \/ r \in L
  <2>1. more = rows
    BY <1>3
  <2>2. Rate(w, P) = Rate(w, L)
    BY <2>1 DEF Rate
  <2>. QED BY <1>2, <2>2
<1>4. CASE w.load = r.load /\ r \notin L
  <2> DEFINE f == [q \in more |-> q.amount]
  <2>1. w.load \in HaulDesk /\ r.amount \in Nat
    BY <1>4, RatesAssumption DEF RateRow
  <2>2. more \ {r} = rows /\ r \in more /\ IsFiniteSet(more)
    BY <1>1, <1>4, FS_Subset
  <2>3. f \in [more -> Int]
    BY <1>1, RatesAssumption DEF RateRow
  <2>4. /\ [q \in more |-> f[q]] = [q \in more |-> q.amount]
        /\ [q \in rows |-> f[q]] = [q \in rows |-> q.amount]
        /\ f[r] = r.amount
    BY <2>2
  <2>5. PICK g \in [SUBSET more -> Int] : HasSums(g, f, more)
    <3> HIDE DEF more, f
    <3>. QED BY <2>2, <2>3, SumByParts
  <2>6. /\ SumFunction([q \in more |-> q.amount]) = g[more]
        /\ SumFunction([q \in rows |-> q.amount]) = g[rows]
        /\ g[more] = r.amount + g[rows]
        /\ g[rows] \in Int /\ g[more] \in Int
    <3>1. rows \in SUBSET more
      OBVIOUS
    <3> HIDE DEF more, rows, f
    <3>. QED BY <2>2, <2>4, <2>5, <3>1 DEF HasSums
  <2>7. Rate(w, L) = IF rows # {} /\ g[rows] >= 0 THEN g[rows] ELSE None
    BY <2>1, <2>6 DEF Rate
  <2>8. Rate(w, P) = IF more # {} /\ g[more] >= 0 THEN g[more] ELSE None
    BY <2>1, <2>6 DEF Rate
  <2> HIDE DEF more, rows, f, P
  <2>9. Rate(w, L) = g[rows] /\ g[rows] >= 0
    BY <1>4, <2>7
  <2>10. g[more] >= g[rows] /\ g[more] >= 0
    BY <2>1, <2>6, <2>9
  <2>11. Rate(w, P) = g[more]
    BY <2>2, <2>8, <2>10
  <2>12. g[more] # None
    BY <2>6, RatesAssumption
  <2>. QED BY <1>4, <2>6, <2>9, <2>10, <2>11, <2>12 DEF P
<1>. QED BY <1>3, <1>4

\* A rate row that raises what a comparable was paid leaves the tiers as they
\* are.
LEMMA RowRaises ==
  ASSUME History(known, ledger), NEW r \in RateRows, r.amount >= 0,
         known[r.load] # None, Rate(known[r.load], ledger) # None,
         NEW P, P = ledger \cup {r}, NEW t \in LaneTier
  PROVE  /\ History(known, P)
         /\ Above(Evidence(t, known, P), P, Evidence(t, known, ledger), ledger)
<1> DEFINE S == Evidence(t, known, ledger)
           u == known[r.load]
<1>1. History(known, P)
  BY FS_AddElement DEF History
<1>2. u \in Versions
  <2>1. r.load \in Loads
    BY RatesAssumption DEF RateRow
  <2>. QED BY <2>1 DEF History
<1>3. ASSUME NEW w \in Completed(known)
      PROVE  /\ Rate(w, ledger) # None <=> Rate(w, P) # None
             /\ Rate(w, ledger) # None => Rate(w, ledger) <= Rate(w, P)
  <2>1. w \in Versions /\ (w.load = r.load => Rate(w, ledger) # None)
    BY DEF Completed
  <2>. QED BY <2>1, RowAdds DEF History
<1>4. Retrieved(t, known) \subseteq Completed(known)
  BY DEF Retrieved
<1>5. Evidence(t, known, P) = S
  BY <1>3, <1>4 DEF Evidence
<1>6. \A w \in S : Rate(w, ledger) <= Rate(w, P)
  BY <1>3, <1>4 DEF Evidence
<1>7. Priced(S, ledger) /\ Priced(S, P)
  BY <1>1, <1>5, EvidenceIsPriced
<1> HIDE DEF S, u
<1>8. Swap(S, u, u) = S /\ Pays(S, u, u, ledger, P)
  BY <1>6 DEF Swap, Pays
<1>9. Above(S, P, S, ledger)
  BY <1>2, <1>7, <1>8, SwapIsAbove
<1>. QED BY <1>1, <1>5, <1>9 DEF S

\* A correction or a rate row that raises what one comparable was paid, and
\* changes nothing else, lowers neither the point of the estimate nor an end of
\* its range, through the quantiles of its tier and every blending above.
THEOREM RaisesAlwaysRaise == Spec => []RaisesNeverLower
<1>1. History(known, ledger) => RaisesNeverLower
  <2> SUFFICES ASSUME History(known, ledger), NEW e \in Estimate, NEW h \in Raised
               PROVE  \E r \in ResolveHierarchy(h[1], h[2]) : Rises(e, r)
    BY DEF RaisesNeverLower, Rises
  <2>1. PICK K, L : h = <<K, L>> /\ RisesTo(Estimate, ResolveHierarchy(K, L))
    <3>1. CASE \E v \in Versions : /\ Raises(known[v.load], v)
                                   /\ h = <<[known EXCEPT ![v.load] = v], ledger>>
      <4>1. PICK v \in Versions : /\ Raises(known[v.load], v)
                                  /\ h = <<[known EXCEPT ![v.load] = v], ledger>>
        BY <3>1
      <4> DEFINE M == [known EXCEPT ![v.load] = v]
                 u == known[v.load]
      <4>2. u = known[v.load] /\ M = [known EXCEPT ![v.load] = v] /\ Raises(u, v)
        BY <4>1
      <4> HIDE DEF M, u
      <4>3. \A t \in LaneTier :
              /\ History(M, ledger)
              /\ Above(Evidence(t, M, ledger), ledger, Evidence(t, known, ledger), ledger)
        BY <4>2, CorrectionSwaps
      <4>4. 1 \in LaneTier
        BY DEF LaneTier
      <4>5. RisesTo(Estimate, ResolveHierarchy(M, ledger))
        BY <4>3, <4>4, HierarchyRises DEF Estimate
      <4>. QED BY <4>1, <4>2, <4>5
    <3>2. CASE \E r \in RateRows : /\ known[r.load] # None
                                   /\ Rate(known[r.load], ledger) # None
                                   /\ r.amount >= 0
                                   /\ h = <<known, ledger \cup {r}>>
      <4>1. PICK r \in RateRows : /\ known[r.load] # None
                                  /\ Rate(known[r.load], ledger) # None
                                  /\ r.amount >= 0
                                  /\ h = <<known, ledger \cup {r}>>
        BY <3>2
      <4> DEFINE P == ledger \cup {r}
      <4>2. P = ledger \cup {r}
        OBVIOUS
      <4> HIDE DEF P
      <4>3. \A t \in LaneTier :
              /\ History(known, P)
              /\ Above(Evidence(t, known, P), P, Evidence(t, known, ledger), ledger)
        BY <4>1, <4>2, RowRaises
      <4>4. 1 \in LaneTier
        BY DEF LaneTier
      <4>5. RisesTo(Estimate, ResolveHierarchy(known, P))
        BY <4>3, <4>4, HierarchyRises DEF Estimate
      <4>. QED BY <4>1, <4>2, <4>5
    <3>. QED BY <3>1, <3>2 DEF Raised
  <2>2. h[1] = K /\ h[2] = L
    BY <2>1
  <2>. QED BY <2>1, <2>2 DEF RisesTo
<1>. QED BY <1>1, RateInvariant, PTL
=============================================================================
