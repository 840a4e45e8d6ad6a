----------------------------- MODULE FiniteFolds -----------------------------
(***************************************************************************)
(* What the proofs need about finite sets, sums and folds, and does not    *)
(* depend on any component.  The recursions behind the community modules'  *)
(* operators go down a finite set one element at a time: that such a       *)
(* function exists, and what it computes, is shown by least                *)
(* counterexamples over the sizes of sets.                                 *)
(***************************************************************************)
EXTENDS Integers, SequencesExt, FiniteSetTheorems, TLAPS

-----------------------------------------------------------------------------
(* Recursion over finite sets. *)

\* Every nonempty set of numbers has a least element.
LEMMA LeastNumber ==
  ASSUME NEW T \in SUBSET Nat, T # {}
  PROVE  \E x \in T : \A y \in T : x <= y
<1> DEFINE R == {ss \in Nat \X Nat : ss[1] < ss[2]}
<1>1. IsWellFoundedOn(R, Nat)
  BY NatLessThanWellFounded DEF OpToRel
<1> HIDE DEF R
<1>2. PICK x \in T : \A y \in T : ~ (<<y, x>> \in R)
  BY <1>1, WFMin
<1>3. \A y \in T : ~(y < x)
  BY <1>2 DEF R
<1>. QED BY <1>3

\* A property of all finite sets that are reached by dropping elements: in a
\* nonempty family of finite sets one has no smaller one in the family.
LEMMA SmallestSet ==
  ASSUME NEW S, IsFiniteSet(S), NEW F \in SUBSET SUBSET S, F # {}
  PROVE  \E s \in F : /\ IsFiniteSet(s)
                      /\ \A x \in s : s \ {x} \notin F
<1> DEFINE Sizes == {Cardinality(s) : s \in F}
<1>1. ASSUME NEW s \in SUBSET S PROVE IsFiniteSet(s) /\ Cardinality(s) \in Nat
  BY FS_Subset, FS_CardinalityType
<1>2. Sizes \in SUBSET Nat /\ Sizes # {}
  BY <1>1
<1>3. PICK n \in Sizes : \A k \in Sizes : n <= k
  <2> HIDE DEF Sizes
  <2>. QED BY <1>2, LeastNumber
<1>4. PICK s \in F : Cardinality(s) = n
  OBVIOUS
<1>5. ASSUME NEW x \in s, s \ {x} \in F PROVE FALSE
  <2>1. Cardinality(s \ {x}) = Cardinality(s) - 1
    BY <1>1, FS_RemoveElement
  <2>2. n <= Cardinality(s \ {x})
    BY <1>3, <1>5
  <2>. QED BY <1>1, <1>4, <2>1, <2>2
<1>. QED BY <1>1, <1>4, <1>5

\* g is base on the sets of Stop and elsewhere made from one element less.
Recursive(g, S, Stop, pick, base, comb) ==
  \A s \in SUBSET S :
    g[s] = IF s \in Stop THEN base[s] ELSE comb[<<s, g[s \ {pick[s]}]>>]

\* A function on the subsets of a finite set may be defined by what it is on
\* the sets of Stop, and elsewhere from what it is with one element less.
LEMMA RecursionExists ==
  ASSUME NEW S, IsFiniteSet(S), NEW V, NEW Stop \in SUBSET SUBSET S, {} \in Stop,
         NEW pick, \A s \in (SUBSET S) \ Stop : pick[s] \in s,
         NEW base \in [SUBSET S -> V], NEW comb \in [(SUBSET S) \X V -> V]
  PROVE  \E g \in [SUBSET S -> V] : Recursive(g, S, Stop, pick, base, comb)
<1> DEFINE Step(s, g) == IF s \in Stop THEN base[s] ELSE comb[<<s, g[s \ {pick[s]}]>>]
           Upto(n, g) == \A s \in SUBSET S : Cardinality(s) <= n => g[s] = Step(s, g)
           Bad == {n \in Nat : ~\E g \in [SUBSET S -> V] : Upto(n, g)}
<1>1. ASSUME NEW s \in SUBSET S
      PROVE  /\ Cardinality(s) \in Nat
             /\ Cardinality(s) <= Cardinality(S)
             /\ Cardinality(s) = 0 <=> s = {}
             /\ s \notin Stop => /\ s \ {pick[s]} \in SUBSET S
                                 /\ Cardinality(s \ {pick[s]}) = Cardinality(s) - 1
  <2>1. IsFiniteSet(s) /\ Cardinality(s) \in Nat /\ Cardinality(s) <= Cardinality(S)
    BY FS_Subset, FS_CardinalityType
  <2>2. Cardinality(s) = 0 <=> s = {}
    BY <2>1, FS_EmptySet
  <2>3. ASSUME s \notin Stop
        PROVE  /\ s \ {pick[s]} \in SUBSET S
               /\ Cardinality(s \ {pick[s]}) = Cardinality(s) - 1
    <3>1. pick[s] \in s
      BY <2>3
    <3>2. PICK x \in s : x = pick[s]
      BY <3>1
    <3>3. Cardinality(s \ {x}) = Cardinality(s) - 1
      <4> HIDE DEF Step, Upto, Bad
      <4>. QED BY <2>1, FS_RemoveElement
    <3>4. Cardinality(s \ {pick[s]}) = Cardinality(s) - 1
      BY <3>2, <3>3
    <3>. QED BY <3>4
  <2>. QED BY <2>1, <2>2, <2>3
<1>2. ASSUME NEW s \in SUBSET S, NEW g \in [SUBSET S -> V] PROVE Step(s, g) \in V
  BY <1>1, <1>2
<1>3. Bad = {}
  <2> SUFFICES ASSUME Bad # {} PROVE FALSE
    OBVIOUS
  <2>1. PICK n \in Bad : \A k \in Bad : n <= k
    <3> HIDE DEF Bad
    <3>1. Bad \in SUBSET Nat
      BY DEF Bad
    <3>. QED BY <3>1, LeastNumber
  <2>2. n # 0
    <3>1. ASSUME NEW s \in SUBSET S, Cardinality(s) <= 0 PROVE base[s] = Step(s, base)
      <4>1. Cardinality(s) \in Nat /\ (Cardinality(s) = 0 => s = {})
        BY <1>1
      <4>2. s = {}
        BY <3>1, <4>1
      <4>. QED BY <4>2
    <3> HIDE DEF Step
    <3>2. 0 \notin Bad
      BY <3>1
    <3>. QED BY <2>1, <3>2
  <2>3. n \in Nat /\ n - 1 \in Nat /\ n - 1 \notin Bad
    <3>1. n \in Nat
      BY <2>1
    <3> HIDE DEF Bad
    <3>. QED BY <2>1, <2>2, <3>1
  <2>4. PICK g \in [SUBSET S -> V] : Upto(n - 1, g)
    BY <2>3
  <2> DEFINE h == [s \in SUBSET S |-> IF Cardinality(s) <= n - 1 THEN g[s] ELSE Step(s, g)]
  <2>5. h \in [SUBSET S -> V]
    <3> HIDE DEF Step
    <3>. QED BY <1>2
  <2>6. ASSUME NEW s \in SUBSET S, Cardinality(s) <= n PROVE h[s] = Step(s, g)
    <3> HIDE DEF Step
    <3>. QED BY <2>4, <2>6
  <2>7. ASSUME NEW s \in SUBSET S, Cardinality(s) <= n PROVE Step(s, h) = Step(s, g)
    <3>1. CASE s \in Stop
      BY <3>1
    <3>2. CASE s \notin Stop
      <4> DEFINE t == s \ {pick[s]}
      <4>1. t \in SUBSET S /\ Cardinality(t) <= n - 1
        BY <1>1, <2>3, <2>7, <3>2
      <4>2. h[t] = g[t]
        BY <4>1
      <4>. QED BY <3>2, <4>2
    <3>. QED BY <3>1, <3>2
  <2>8. Upto(n, h)
    <3> HIDE DEF h, Step
    <3>. QED BY <2>6, <2>7
  <2>. QED BY <2>1, <2>5, <2>8
<1>4. Cardinality(S) \in Nat
  BY <1>1
<1>5. PICK g \in [SUBSET S -> V] : Upto(Cardinality(S), g)
  BY <1>3, <1>4
<1>6. \A s \in SUBSET S : g[s] = Step(s, g)
  <2> HIDE DEF Step
  <2>. QED BY <1>1, <1>5
<1>. QED BY <1>6 DEF Recursive

-----------------------------------------------------------------------------
(* Sums. *)

\* g gives each subset of T the sum of f over it, one element at a time.
AddsUp(g, f, T) ==
  \A s \in SUBSET T :
    g[s] = IF s = {} THEN 0
           ELSE LET x == CHOOSE y \in s : TRUE IN f[x] + g[s \ {x}]

\* There are sums of integers over the subsets of a finite set.
LEMMA SumsExist ==
  ASSUME NEW S, IsFiniteSet(S), NEW f \in [S -> Int]
  PROVE  \E g \in [SUBSET S -> Int] : AddsUp(g, f, S)
<1> DEFINE pick == [s \in SUBSET S |-> CHOOSE y \in s : TRUE]
           base == [s \in SUBSET S |-> 0]
           comb == [p \in (SUBSET S) \X Int |->
                      IF p[1] = {} THEN 0 ELSE f[pick[p[1]]] + p[2]]
           Stop == {{}}
<1>1. \A s \in (SUBSET S) \ Stop : pick[s] \in s
  OBVIOUS
<1>2. base \in [SUBSET S -> Int]
  OBVIOUS
<1>3. comb \in [(SUBSET S) \X Int -> Int]
  <2>1. ASSUME NEW s \in SUBSET S, s # {} PROVE f[pick[s]] \in Int
    BY <1>1, <2>1
  <2> HIDE DEF pick
  <2>. QED BY <2>1
<1>4. Stop \in SUBSET SUBSET S /\ {} \in Stop
  OBVIOUS
<1>5. PICK g \in [SUBSET S -> Int] : Recursive(g, S, Stop, pick, base, comb)
  <2> HIDE DEF pick, base, comb, Stop
  <2>. QED BY <1>1, <1>2, <1>3, <1>4, RecursionExists
<1>6. ASSUME NEW s \in SUBSET S, s # {}
      PROVE  g[s] = f[pick[s]] + g[s \ {pick[s]}]
  <2>1. g[s] = comb[<<s, g[s \ {pick[s]}]>>]
    BY <1>5, <1>6 DEF Recursive
  <2>2. g[s \ {pick[s]}] \in Int
    OBVIOUS
  <2> HIDE DEF pick
  <2>. QED BY <1>6, <2>1, <2>2
<1>7. g[{}] = 0
  BY <1>5 DEF Recursive
<1>. QED BY <1>6, <1>7 DEF AddsUp

\* Sums over the same elements agree, whichever larger set they come from.
LEMMA SumsAgree ==
  ASSUME NEW S, IsFiniteSet(S), NEW T \in SUBSET S, NEW f, NEW g, NEW e, NEW h,
         AddsUp(g, f, S), AddsUp(h, e, T), \A x \in T : e[x] = f[x]
  PROVE  \A s \in SUBSET T : g[s] = h[s]
<1> DEFINE F == {s \in SUBSET T : g[s] # h[s]}
<1> SUFFICES ASSUME F # {} PROVE FALSE
  OBVIOUS
<1>1. F \in SUBSET SUBSET S
  OBVIOUS
<1>2. PICK s \in F : \A x \in s : s \ {x} \notin F
  <2> HIDE DEF F
  <2>. QED BY <1>1, SmallestSet
<1>3. s # {}
  BY DEF AddsUp
<1> DEFINE c == CHOOSE y \in s : TRUE
<1>4. c \in s /\ s \ {c} \in SUBSET T
  BY <1>3
<1>5. g[s] = f[c] + g[s \ {c}] /\ h[s] = e[c] + h[s \ {c}]
  BY <1>3 DEF AddsUp
<1>6. g[s \ {c}] = h[s \ {c}]
  BY <1>2, <1>4
<1>7. e[c] = f[c]
  <2> HIDE DEF c
  <2>. QED BY <1>4
<1>. QED BY <1>5, <1>6, <1>7

\* What SumFunction computes.
LEMMA SumIs ==
  ASSUME NEW S, IsFiniteSet(S), NEW f, NEW g, AddsUp(g, f, S), NEW T \in SUBSET S
  PROVE  SumFunction([x \in T |-> f[x]]) = g[T]
<1> DEFINE e == [x \in T |-> f[x]]
           Step(s, h) == IF s = {} THEN 0
                         ELSE e[CHOOSE y \in s : TRUE] + h[s \ {CHOOSE y \in s : TRUE}]
           iter == CHOOSE h : h = [s \in SUBSET T |-> Step(s, h)]
           g0 == [s \in SUBSET T |-> g[s]]
<1>1. ASSUME NEW s \in SUBSET T PROVE g0[s] = Step(s, g0)
  <2>1. CASE s = {}
    BY <2>1 DEF AddsUp
  <2>2. CASE s # {}
    <3> DEFINE c == CHOOSE y \in s : TRUE
    <3>1. c \in s /\ s \ {c} \in SUBSET T
      BY <2>2
    <3>2. g[s] = f[c] + g[s \ {c}]
      BY <2>2 DEF AddsUp
    <3>3. e[c] = f[c] /\ g0[s] = g[s] /\ g0[s \ {c}] = g[s \ {c}]
      <4> HIDE DEF c
      <4>. QED BY <3>1
    <3>. QED BY <2>2, <3>2, <3>3
  <2>. QED BY <2>1, <2>2
<1>2. g0 = [s \in SUBSET T |-> Step(s, g0)]
  <2> HIDE DEF Step
  <2>. QED BY <1>1
<1>3. iter = [s \in SUBSET T |-> Step(s, iter)]
  BY <1>2
<1>4. SumFunction(e) = iter[T]
  <2>1. DOMAIN e = T
    OBVIOUS
  <2>. QED
    BY <2>1 DEF SumFunction, SumFunctionOnSet, FoldFunction, FoldFunctionOnSet, MapThenFoldSet
<1> HIDE DEF iter
<1>5. AddsUp(iter, e, T)
  BY <1>3 DEF AddsUp
<1>6. g[T] = iter[T]
  <2>1. \A x \in T : e[x] = f[x]
    OBVIOUS
  <2> HIDE DEF e
  <2>. QED BY <1>5, <2>1, SumsAgree
<1>. QED BY <1>4, <1>6

\* g has the sums of f over the subsets of S: nothing sums up to zero, and any
\* element may be taken out of a sum.
HasSums(g, f, S) ==
  /\ \A T \in SUBSET S : SumFunction([x \in T |-> f[x]]) = g[T]
  /\ g[{}] = 0
  /\ \A T \in SUBSET S : \A x \in T : g[T] = f[x] + g[T \ {x}]

\* Integers can be summed up over the subsets of a finite set.
LEMMA SumByParts ==
  ASSUME NEW S, IsFiniteSet(S), NEW f \in [S -> Int]
  PROVE  \E g \in [SUBSET S -> Int] : HasSums(g, f, S)
<1>1. PICK g \in [SUBSET S -> Int] : AddsUp(g, f, S)
  BY SumsExist
<1> DEFINE F == {s \in SUBSET S : \E x \in s : g[s] # f[x] + g[s \ {x}]}
<1>2. F = {}
  <2> SUFFICES ASSUME F # {} PROVE FALSE
    OBVIOUS
  <2>1. F \in SUBSET SUBSET S
    OBVIOUS
  <2>2. PICK s \in F : \A x \in s : s \ {x} \notin F
    <3> HIDE DEF F
    <3>. QED BY <2>1, SmallestSet
  <2>3. PICK x \in s : g[s] # f[x] + g[s \ {x}]
    OBVIOUS
  <2> DEFINE c == CHOOSE y \in s : TRUE
  <2>4. c \in s
    OBVIOUS
  <2>5. g[s] = f[c] + g[s \ {c}]
    BY <1>1, <2>3 DEF AddsUp
  <2> HIDE DEF c
  <2>6. c # x
    BY <2>3, <2>5
  <2>7. g[s \ {c}] = f[x] + g[(s \ {c}) \ {x}]
    BY <2>2, <2>4, <2>6
  <2>8. g[s \ {x}] = f[c] + g[(s \ {x}) \ {c}]
    BY <2>2, <2>4, <2>6
  <2>9. (s \ {c}) \ {x} = (s \ {x}) \ {c} /\ (s \ {x}) \ {c} \in SUBSET S
    OBVIOUS
  <2>10. f[c] \in Int /\ f[x] \in Int /\ g[(s \ {x}) \ {c}] \in Int
    BY <2>4, <2>9
  <2>11. g[s] = f[x] + g[s \ {x}]
    <3>1. g[s] = f[c] + (f[x] + g[(s \ {x}) \ {c}])
      BY <2>5, <2>7, <2>9
    <3>2. g[s \ {x}] = f[c] + g[(s \ {x}) \ {c}]
      BY <2>8
    <3> HIDE DEF F
    <3>. QED BY <2>10, <3>1, <3>2
  <2>. QED BY <2>3, <2>11
<1>3. g[{}] = 0
  BY <1>1 DEF AddsUp
<1>4. \A T \in SUBSET S : SumFunction([x \in T |-> f[x]]) = g[T]
  BY <1>1, SumIs
<1>. QED BY <1>2, <1>3, <1>4 DEF HasSums

\* A sum over a finite set of integers is an integer.
LEMMA SumIsAnInteger ==
  ASSUME NEW S, IsFiniteSet(S), NEW fun \in [S -> Int]
  PROVE  SumFunction(fun) \in Int
<1>1. PICK g \in [SUBSET S -> Int] : HasSums(g, fun, S)
  BY SumByParts
<1>2. SumFunction([x \in S |-> fun[x]]) = g[S]
  BY <1>1 DEF HasSums
<1>. QED BY <1>2

\* g has the sums of positive numbers: positive, and larger over a larger set.
HasPositiveSums(g, f, S) ==
  /\ \A T \in SUBSET S : SumFunction([x \in T |-> f[x]]) = g[T]
  /\ \A T \in SUBSET S : g[T] = 0 <=> T = {}
  /\ \A T \in SUBSET S : \A R \in SUBSET T : g[R] <= g[T]

\* Positive numbers can be summed up over the subsets of a finite set.
LEMMA SumGrows ==
  ASSUME NEW S, IsFiniteSet(S), NEW f \in [S -> Nat \ {0}]
  PROVE  \E g \in [SUBSET S -> Nat] : HasPositiveSums(g, f, S)
<1>1. PICK g \in [SUBSET S -> Int] : HasSums(g, f, S)
  <2>1. f \in [S -> Int]
    OBVIOUS
  <2>. QED BY <2>1, SumByParts
<1>2. ASSUME NEW R \in SUBSET S
      PROVE  \A T \in SUBSET S : R \subseteq T => g[R] <= g[T]
  <2> DEFINE F == {T \in SUBSET S : R \subseteq T /\ ~(g[R] <= g[T])}
  <2> SUFFICES ASSUME F # {} PROVE FALSE
    OBVIOUS
  <2>1. F \in SUBSET SUBSET S
    OBVIOUS
  <2>2. PICK s \in F : \A x \in s : s \ {x} \notin F
    <3> HIDE DEF F
    <3>. QED BY <2>1, SmallestSet
  <2>3. g[R] \in Int /\ g[s] \in Int
    OBVIOUS
  <2>4. PICK x \in s : x \notin R
    <3>1. s # R
      BY <2>3
    <3>. QED BY <3>1
  <2>5. g[s] = f[x] + g[s \ {x}] /\ f[x] \in Nat \ {0}
    BY <1>1 DEF HasSums
  <2>6. g[R] <= g[s \ {x}] /\ g[s \ {x}] \in Int
    BY <2>2, <2>4
  <2>7. ~(g[R] <= g[s])
    OBVIOUS
  <2>. QED BY <2>3, <2>5, <2>6, <2>7
<1>3. ASSUME NEW T \in SUBSET S PROVE g[T] >= 0
  BY <1>1, <1>2 DEF HasSums
<1>4. ASSUME NEW T \in SUBSET S, NEW x \in T PROVE g[T] # 0
  <2>1. g[T] = f[x] + g[T \ {x}] /\ f[x] \in Nat \ {0}
    BY <1>1 DEF HasSums
  <2>2. g[T \ {x}] \in Int /\ g[T \ {x}] >= 0
    BY <1>3
  <2>. QED BY <2>1, <2>2
<1>5. g \in [SUBSET S -> Nat]
  BY <1>3
<1>. QED BY <1>1, <1>2, <1>4, <1>5 DEF HasSums, HasPositiveSums

-----------------------------------------------------------------------------
(* Counting up. *)

\* What holds at the start and goes on from one number to the next holds of all
\* numbers up to a bound.
LEMMA CountUp ==
  ASSUME NEW n \in Nat, NEW T, 0 \in T, \A i \in 1..n : i - 1 \in T => i \in T
  PROVE  \A i \in 0..n : i \in T
<1> DEFINE Bad == {i \in 0..n : i \notin T}
<1> SUFFICES ASSUME Bad # {} PROVE FALSE
  OBVIOUS
<1>1. PICK i \in Bad : \A j \in Bad : i <= j
  <2>1. Bad \in SUBSET Nat
    OBVIOUS
  <2> HIDE DEF Bad
  <2>. QED BY <2>1, LeastNumber
<1>2. i \in 1..n /\ i - 1 \in 0..n
  OBVIOUS
<1>3. i - 1 \in T
  BY <1>1, <1>2
<1>. QED BY <1>2, <1>3

-----------------------------------------------------------------------------
(* Effective sample sizes. *)

\* The product of two natural numbers is one.
LEMMA ProductIsNatural ==
  ASSUME NEW x \in Nat, NEW y \in Nat
  PROVE  x * y \in Nat
OBVIOUS

\* One more number in the inequality of Kish's denominator.
LEMMA SquareGrows ==
  ASSUME NEW x \in Nat, NEW g \in Nat, NEW h \in Nat, h <= g * g
  PROVE  h + x * x <= (x + g) * (x + g)
<1>1. (x + g) * (x + g) = x * x + x * g + x * g + g * g
  OBVIOUS
<1>2. x * g \in Nat
  OBVIOUS
<1>. QED BY <1>1, <1>2

\* One more number in the sum of the squares of the distances to w.
LEMMA DistancesGrow ==
  ASSUME NEW x \in Nat, NEW g \in Nat, NEW h \in Nat, NEW c \in Nat, NEW w \in Nat,
         2 * (w * g) <= h + c * (w * w)
  PROVE  2 * (w * (x + g)) <= (h + x * x) + (c + 1) * (w * w)
<1>1. 2 * (w * x) <= x * x + w * w
  <2>1. (x - w) * (x - w) = x * x + w * w - 2 * (w * x)
    OBVIOUS
  <2>2. \A i \in Int : i * i >= 0
    OBVIOUS
  <2>3. (x - w) * (x - w) >= 0
    BY <2>2
  <2> DEFINE a == x * x
             b == w * w
             d == w * x
             e == (x - w) * (x - w)
  <2>4. a \in Int /\ b \in Int /\ d \in Int /\ e \in Int
    OBVIOUS
  <2>5. e = a + b - 2 * d /\ e >= 0
    BY <2>1, <2>3
  <2> HIDE DEF a, b, d, e
  <2>6. 2 * d <= a + b
    BY <2>4, <2>5
  <2>. QED BY <2>6 DEF a, b, d
<1>2. w * (x + g) = w * x + w * g /\ (c + 1) * (w * w) = c * (w * w) + w * w
  OBVIOUS
<1> DEFINE a == x * x
           b == w * w
           d == w * x
           e == w * g
           k == c * (w * w)
<1>3. a \in Int /\ b \in Int /\ d \in Int /\ e \in Int /\ k \in Int
  OBVIOUS
<1>4. 2 * d <= a + b /\ 2 * e <= h + k
  BY <1>1
<1> HIDE DEF a, b, d, e, k
<1>5. 2 * (d + e) <= (h + a) + (k + b)
  BY <1>3, <1>4
<1>. QED BY <1>2, <1>5 DEF a, b, d, e, k

\* One more number in the inequality of Cauchy and Schwarz.
LEMMA ProductGrows ==
  ASSUME NEW x \in Nat, NEW g \in Nat, NEW h \in Nat, NEW c \in Nat,
         g * g <= c * h, 2 * (x * g) <= h + c * (x * x)
  PROVE  (x + g) * (x + g) <= (c + 1) * (h + x * x)
<1> DEFINE a == x * x
           b == x * g
           d == g * g
           e == c * h
           k == c * (x * x)
<1>1. a \in Int /\ b \in Int /\ d \in Int /\ e \in Int /\ k \in Int
  OBVIOUS
<1>2. (x + g) * (x + g) = a + 2 * b + d
  OBVIOUS
<1>3. (c + 1) * (h + x * x) = e + k + h + a
  OBVIOUS
<1>4. d <= e /\ 2 * b <= h + k
  OBVIOUS
<1> HIDE DEF a, b, d, e, k
<1>5. a + 2 * b + d <= e + k + h + a
  BY <1>1, <1>4
<1>. QED BY <1>2, <1>3, <1>5

\* Of positive numbers, the square of the sum is no less than the sum of the
\* squares, and no more than that times how many they are.
LEMMA KishBounds ==
  ASSUME NEW S, IsFiniteSet(S), S # {}, NEW f \in [S -> Nat \ {0}],
         NEW total, total = SumFunction([x \in S |-> f[x]]),
         NEW squares, squares = SumFunction([x \in S |-> f[x] * f[x]])
  PROVE  /\ total \in Nat \ {0} /\ squares \in Nat \ {0}
         /\ squares <= total * total
         /\ total * total <= Cardinality(S) * squares
<1> DEFINE q == [x \in S |-> f[x] * f[x]]
<1>1. q \in [S -> Nat \ {0}]
  <2>1. \A i \in Nat \ {0} : i * i \in Nat \ {0}
    OBVIOUS
  <2>. QED BY <2>1
<1>2. PICK g \in [SUBSET S -> Int] : HasSums(g, f, S)
  <2>1. f \in [S -> Int]
    OBVIOUS
  <2>. QED BY <2>1, SumByParts
<1>3. PICK h \in [SUBSET S -> Int] : HasSums(h, q, S)
  <2>1. q \in [S -> Int]
    BY <1>1
  <2> HIDE DEF q
  <2>. QED BY <2>1, SumByParts
<1>4. total = g[S] /\ squares = h[S]
  <2>1. [x \in S |-> f[x] * f[x]] = [x \in S |-> q[x]]
    OBVIOUS
  <2>. QED BY <1>2, <1>3, <2>1 DEF HasSums
<1>5. ASSUME NEW s \in SUBSET S, NEW x \in s
      PROVE  /\ g[s] = f[x] + g[s \ {x}] /\ h[s] = h[s \ {x}] + f[x] * f[x]
             /\ s \ {x} \in SUBSET S /\ f[x] \in Nat \ {0}
             /\ Cardinality(s) = Cardinality(s \ {x}) + 1
             /\ Cardinality(s \ {x}) \in Nat
  <2>1. q[x] = f[x] * f[x] /\ f[x] \in Nat \ {0} /\ q[x] \in Int
    BY <1>1
  <2>2. h[s] = q[x] + h[s \ {x}] /\ h[s \ {x}] \in Int
    BY <1>3 DEF HasSums
  <2>3. IsFiniteSet(s) /\ IsFiniteSet(s \ {x})
    BY FS_Subset
  <2>4. Cardinality(s) = Cardinality(s \ {x}) + 1 /\ Cardinality(s \ {x}) \in Nat
    BY <2>3, FS_RemoveElement, FS_CardinalityType
  <2>5. g[s] = f[x] + g[s \ {x}]
    BY <1>2 DEF HasSums
  <2>6. h[s] = h[s \ {x}] + f[x] * f[x]
    <3> HIDE DEF q
    <3>. QED BY <2>1, <2>2
  <2>. QED BY <2>1, <2>4, <2>5, <2>6
<1>6. g[{}] = 0 /\ h[{}] = 0 /\ Cardinality({}) = 0
  BY <1>2, <1>3, FS_EmptySet DEF HasSums
<1> HIDE DEF q
<1> DEFINE Fine(s) == /\ g[s] \in Nat /\ h[s] \in Nat
                      /\ s # {} => g[s] > 0 /\ h[s] > 0
                      /\ h[s] <= g[s] * g[s]
                      /\ \A w \in Nat : 2 * (w * g[s]) <= h[s] + Cardinality(s) * (w * w)
                      /\ g[s] * g[s] <= Cardinality(s) * h[s]
           Odd == {s \in SUBSET S : ~Fine(s)}
<1>7. Odd = {}
  <2> SUFFICES ASSUME Odd # {} PROVE FALSE
    OBVIOUS
  <2>1. PICK s \in Odd : \A x \in s : s \ {x} \notin Odd
    <3>1. Odd \in SUBSET SUBSET S
      OBVIOUS
    <3> HIDE DEF Odd
    <3>. QED BY <3>1, SmallestSet
  <2>2. s # {}
    <3>1. \A w \in Nat : 2 * (w * 0) <= 0 + 0 * (w * w)
      OBVIOUS
    <3>2. Fine({})
      BY <1>6, <3>1
    <3> HIDE DEF Fine
    <3>. QED BY <3>2
  <2>3. PICK x \in s : TRUE
    BY <2>2
  <2> DEFINE t == s \ {x}
             c == Cardinality(t)
  <2>4. Fine(t)
    BY <1>5, <2>1, <2>3
  <2>5. /\ g[s] = f[x] + g[t] /\ h[s] = h[t] + f[x] * f[x]
        /\ f[x] \in Nat \ {0} /\ Cardinality(s) = c + 1 /\ c \in Nat
    BY <1>5, <2>3
  <2> HIDE DEF t, c
  <2>6. g[t] \in Nat /\ h[t] \in Nat
    BY <2>4
  <2>7. h[s] <= g[s] * g[s]
    <3>1. h[t] <= g[t] * g[t]
      BY <2>4
    <3>2. h[t] + f[x] * f[x] <= (f[x] + g[t]) * (f[x] + g[t])
      BY <2>5, <2>6, <3>1, SquareGrows
    <3>. QED BY <2>5, <3>2
  <2>8. ASSUME NEW w \in Nat
        PROVE  2 * (w * g[s]) <= h[s] + Cardinality(s) * (w * w)
    <3>1. 2 * (w * g[t]) <= h[t] + c * (w * w)
      BY <2>4 DEF c
    <3>. QED BY <2>5, <2>6, <3>1, DistancesGrow
  <2>9. g[s] * g[s] <= Cardinality(s) * h[s]
    <3>1. g[t] * g[t] <= c * h[t] /\ 2 * (f[x] * g[t]) <= h[t] + c * (f[x] * f[x])
      BY <2>4, <2>5 DEF c
    <3>. QED BY <2>5, <2>6, <3>1, ProductGrows
  <2>10. g[s] \in Nat /\ h[s] \in Nat /\ g[s] > 0 /\ h[s] > 0
    <3>1. f[x] * f[x] \in Nat \ {0}
      BY <2>5
    <3>. QED BY <2>5, <2>6, <3>1
  <2>11. Fine(s)
    BY <2>7, <2>8, <2>9, <2>10
  <2> HIDE DEF Fine
  <2>. QED BY <2>1, <2>11
<1>8. Fine(S)
  <2> HIDE DEF Fine
  <2>. QED BY <1>7
<1>. QED BY <1>4, <1>8

-----------------------------------------------------------------------------
(* Sequences of the elements of a set. *)

\* A sequence of the elements of a finite set has each of them once.
LEMMA ElementsOfSeq ==
  ASSUME NEW S, IsFiniteSet(S), NEW s \in SetToSeqs(S)
  PROVE  /\ Cardinality(S) \in Nat
         /\ s \in Seq(S) /\ Len(s) = Cardinality(S) /\ DOMAIN s = 1..Cardinality(S)
         /\ \A i, j \in DOMAIN s : s[i] = s[j] => i = j
         /\ \A x \in S : \E i \in DOMAIN s : s[i] = x
<1> DEFINE n == Cardinality(S)
<1>1. n \in Nat
  BY FS_CardinalityType
<1>2. s \in [1..n -> S] /\ \A i, j \in 1..n : i # j => s[i] # s[j]
  BY DEF SetToSeqs
<1>3. \A x \in S : \E i \in 1..n : s[i] = x
  <2> SUFFICES ASSUME NEW x \in S, \A i \in 1..n : s[i] # x PROVE FALSE
    OBVIOUS
  <2>1. s \in [1..n -> S \ {x}]
    BY <1>2
  <2>2. IsFiniteSet(S \ {x}) /\ Cardinality(S \ {x}) = n - 1
    BY FS_RemoveElement
  <2>3. IsFiniteSet(1..n) /\ Cardinality(1..n) = n
    BY <1>1, FS_Interval
  <2>4. n - 1 < n
    BY <1>1
  <2> HIDE DEF n
  <2>5. Cardinality(S \ {x}) < Cardinality(1..n)
    BY <2>2, <2>3, <2>4
  <2>6. \E i, j \in 1..n : i # j /\ s[i] = s[j]
    <3> DEFINE D == 1..n
               E == S \ {x}
    <3> HIDE DEF D, E
    <3>1. /\ IsFiniteSet(D) /\ IsFiniteSet(E) /\ s \in [D -> E]
          /\ Cardinality(E) < Cardinality(D)
      BY <2>1, <2>2, <2>3, <2>5 DEF D, E
    <3>2. \E i, j \in D : i # j /\ s[i] = s[j]
      BY <3>1, FS_PigeonHole
    <3>. QED BY <3>2 DEF D
  <2>. QED BY <1>2, <2>6
<1>4. s \in Seq(S) /\ Len(s) = n
  <2> HIDE DEF n
  <2>. QED BY <1>1, <1>2
<1>. QED BY <1>1, <1>2, <1>3, <1>4

\* R orders the elements of S.
Orders(R, S) ==
  /\ \A x, y \in S : x # y => <<x, y>> \in R \/ <<y, x>> \in R
  /\ \A x, y, z \in S : <<x, y>> \in R /\ <<y, z>> \in R => <<x, z>> \in R

\* The sequence s runs in the order of R.
Runs(s, R) == \A i, j \in DOMAIN s : i < j => <<s[i], s[j]>> \in R

\* Some element of a finite set comes last.
LEMMA LastExists ==
  ASSUME NEW S, IsFiniteSet(S), S # {}, NEW R, Orders(R, S)
  PROVE  \E x \in S : \A y \in S \ {x} : <<y, x>> \in R
<1> DEFINE HasLast(T) == \E x \in T : \A y \in T \ {x} : <<y, x>> \in R
           Bad == {T \in SUBSET S : T # {} /\ ~HasLast(T)}
<1>1. Bad = {}
  <2> SUFFICES ASSUME Bad # {} PROVE FALSE
    OBVIOUS
  <2>1. PICK T \in Bad : \A x \in T : T \ {x} \notin Bad
    <3>1. Bad \in SUBSET SUBSET S
      OBVIOUS
    <3> HIDE DEF Bad
    <3>. QED BY <3>1, SmallestSet
  <2>2. T \in SUBSET S /\ T # {} /\ ~HasLast(T)
    OBVIOUS
  <2>3. PICK x \in T : TRUE
    BY <2>2
  <2>4. T # {x}
    BY <2>2
  <2>5. HasLast(T \ {x})
    BY <2>1, <2>2, <2>3, <2>4
  <2>6. PICK z \in T \ {x} : \A y \in (T \ {x}) \ {z} : <<y, z>> \in R
    BY <2>5
  <2>7. CASE <<x, z>> \in R
    <3>1. \A y \in T \ {z} : <<y, z>> \in R
      BY <2>6, <2>7
    <3>. QED BY <2>2, <2>6, <3>1
  <2>8. CASE <<z, x>> \in R
    <3>1. ASSUME NEW y \in T \ {x} PROVE <<y, x>> \in R
      <4>1. y = z \/ <<y, z>> \in R
        BY <2>6
      <4>. QED BY <2>2, <2>3, <2>6, <2>8, <4>1 DEF Orders
    <3>. QED BY <2>2, <2>3, <3>1
  <2>. QED BY <2>2, <2>3, <2>6, <2>7, <2>8 DEF Orders
<1> HIDE DEF HasLast
<1>2. HasLast(S)
  BY <1>1
<1>. QED BY <1>2 DEF HasLast

\* The elements of a finite set can be put in their order.
LEMMA OrderExists ==
  ASSUME NEW S, IsFiniteSet(S), NEW R, Orders(R, S)
  PROVE  \E s \in SetToSeqs(S) : Runs(s, R)
<1> DEFINE Runnable(T) == \E s \in SetToSeqs(T) : Runs(s, R)
           Bad == {T \in SUBSET S : ~Runnable(T)}
<1>1. Bad = {}
  <2> SUFFICES ASSUME Bad # {} PROVE FALSE
    OBVIOUS
  <2>1. PICK T \in Bad : \A x \in T : T \ {x} \notin Bad
    <3>1. Bad \in SUBSET SUBSET S
      OBVIOUS
    <3> HIDE DEF Bad
    <3>. QED BY <3>1, SmallestSet
  <2>2. T \in SUBSET S /\ ~Runnable(T) /\ IsFiniteSet(T)
    BY FS_Subset
  <2>3. T # {}
    <3>1. Cardinality({}) = 0 /\ 1..0 = {}
      BY FS_EmptySet
    <3>2. <<>> \in [1..0 -> {}] /\ DOMAIN <<>> = {}
      OBVIOUS
    <3>3. <<>> \in SetToSeqs({}) /\ Runs(<<>>, R)
      BY <3>1, <3>2 DEF SetToSeqs, Runs
    <3>. QED BY <2>2, <3>3
  <2>4. PICK x \in T : \A y \in T \ {x} : <<y, x>> \in R
    <3>1. Orders(R, T)
      BY <2>2 DEF Orders
    <3>. QED BY <2>2, <2>3, <3>1, LastExists
  <2> DEFINE U == T \ {x}
             n == Cardinality(U)
  <2>5. IsFiniteSet(U) /\ n \in Nat /\ Cardinality(T) = n + 1
    <3>1. IsFiniteSet(U) /\ Cardinality(U) = Cardinality(T) - 1
      BY <2>2, <2>4, FS_RemoveElement
    <3>2. Cardinality(T) \in Nat /\ Cardinality(U) \in Nat
      BY <2>2, <3>1, FS_CardinalityType
    <3>. QED BY <3>1, <3>2
  <2>6. PICK s \in SetToSeqs(U) : Runs(s, R)
    BY <2>1, <2>2, <2>4
  <2>7. s \in [1..n -> U] /\ \A i, j \in 1..n : i # j => s[i] # s[j]
    BY DEF SetToSeqs
  <2> DEFINE r == [i \in 1..(n + 1) |-> IF i = n + 1 THEN x ELSE s[i]]
  <2> HIDE DEF n
  <2>8. r \in [1..(n + 1) -> T]
    BY <2>5, <2>7
  <2>9. \A i, j \in 1..(n + 1) : i # j => r[i] # r[j]
    BY <2>5, <2>7
  <2>10. Runs(r, R)
    <3> SUFFICES ASSUME NEW i \in 1..(n + 1), NEW j \in 1..(n + 1), i < j
                 PROVE  <<r[i], r[j]>> \in R
      BY <2>8 DEF Runs
    <3>1. i \in 1..n /\ r[i] = s[i] /\ s[i] \in U
      BY <2>5, <2>7
    <3>2. CASE j = n + 1
      BY <2>4, <3>1, <3>2
    <3>3. CASE j # n + 1
      <4>1. j \in 1..n /\ r[j] = s[j]
        BY <2>5, <3>3
      <4>. QED BY <2>6, <2>7, <3>1, <4>1 DEF Runs
    <3>. QED BY <3>2, <3>3
  <2> HIDE DEF r
  <2>11. r \in SetToSeqs(T)
    BY <2>5, <2>8, <2>9 DEF SetToSeqs
  <2>. QED BY <2>2, <2>10, <2>11
<1> HIDE DEF Runnable
<1>2. Runnable(S)
  BY <1>1
<1>. QED BY <1>2 DEF Runnable

-----------------------------------------------------------------------------
(* Folding a sequence from the left. *)

\* Every nonempty set of numbers up to n has a greatest one.
LEMMA MaxIs ==
  ASSUME NEW n \in Nat, NEW s \in SUBSET (1..n), s # {}
  PROVE  Max(s) \in s /\ \A i \in s : i <= Max(s)
<1> DEFINE T == {k \in Nat : \E i \in s : k = n - i}
<1>1. T \in SUBSET Nat /\ T # {}
  <2>1. PICK i \in s : TRUE
    OBVIOUS
  <2>2. n - i \in Nat
    OBVIOUS
  <2>3. n - i \in T
    BY <2>2
  <2>. QED BY <2>3
<1>2. PICK x \in T : \A y \in T : x <= y
  <2> HIDE DEF T
  <2>. QED BY <1>1, LeastNumber
<1>3. PICK m \in s : x = n - m
  OBVIOUS
<1>4. ASSUME NEW i \in s PROVE i <= m
  <2>1. n - m <= n - i
    BY <1>2, <1>3
  <2>. QED BY <2>1
<1>5. \A i \in s : m >= i
  BY <1>4
<1>. QED BY <1>5 DEF Max

\* The first i numbers are the first i - 1 and i.
LEMMA LastOfFirst ==
  ASSUME NEW i \in Nat, i # 0
  PROVE  Max(1..i) = i /\ (1..i) \ {Max(1..i)} = 1..(i - 1) /\ 1..i # {}
<1>1. Max(1..i) \in 1..i /\ i <= Max(1..i)
  <2> DEFINE s == 1..i
  <2>1. s \in SUBSET (1..i) /\ s # {} /\ i \in s
    OBVIOUS
  <2> HIDE DEF s
  <2>2. Max(s) \in s /\ \A k \in s : k <= Max(s)
    BY <2>1, MaxIs
  <2>. QED BY <2>1, <2>2 DEF s
<1>2. Max(1..i) = i
  BY <1>1
<1>3. (1..i) \ {i} = 1..(i - 1)
  OBVIOUS
<1>. QED BY <1>2, <1>3

\* g folds the numbers of a set, the greatest last, with comb from base.
Folds(g, base, comb, n) ==
  \A s \in SUBSET (1..n) :
    g[s] = IF s = {} THEN base ELSE comb[<<g[s \ {Max(s)}], Max(s)>>]

\* There is a function that does.
LEMMA FoldExists ==
  ASSUME NEW n \in Nat, NEW V, NEW base \in V, NEW comb \in [V \X (1..n) -> V]
  PROVE  \E g \in [SUBSET (1..n) -> V] : Folds(g, base, comb, n)
<1> DEFINE S == 1..n
           pick == [s \in SUBSET S |-> Max(s)]
           bases == [s \in SUBSET S |-> base]
           combs == [p \in (SUBSET S) \X V |->
                      IF p[1] = {} THEN base ELSE comb[<<p[2], Max(p[1])>>]]
           Stop == {{}}
<1>1. \A s \in SUBSET S : s # {} => Max(s) \in s
  BY MaxIs
<1>2. IsFiniteSet(S)
  BY FS_Interval
<1>3. combs \in [(SUBSET S) \X V -> V]
  BY <1>1
<1>4. /\ Stop \in SUBSET SUBSET S /\ {} \in Stop /\ bases \in [SUBSET S -> V]
      /\ \A s \in (SUBSET S) \ Stop : pick[s] \in s
  BY <1>1
<1>5. PICK g \in [SUBSET S -> V] : Recursive(g, S, Stop, pick, bases, combs)
  <2> HIDE DEF S, pick, bases, combs, Stop
  <2>. QED BY <1>2, <1>3, <1>4, RecursionExists
<1>6. ASSUME NEW s \in SUBSET S, s # {}
      PROVE  g[s] = comb[<<g[s \ {Max(s)}], Max(s)>>]
  <2>1. g[s] = combs[<<s, g[s \ {Max(s)}]>>]
    BY <1>5, <1>6 DEF Recursive
  <2>2. g[s \ {Max(s)}] \in V
    OBVIOUS
  <2>. QED BY <1>6, <2>1, <2>2
<1>7. g[{}] = base
  BY <1>5 DEF Recursive
<1>. QED BY <1>6, <1>7 DEF Folds
=============================================================================
