---------------------------- MODULE SumTheorems ----------------------------
(***************************************************************************)
(* Facts about the sums the modules take with the folds of the community   *)
(* modules.  A fold is a recursive function on the subsets of a set, which *)
(* takes away one element at a time; that there is such a function, and    *)
(* only one whatever element it takes, is shown by induction over the size *)
(* of the sets.  The last part does the same for sequences strung together.*)
(***************************************************************************)
EXTENDS Integers, Sequences, FiniteSets, SequencesExt, FiniteSetTheorems,
        WellFoundedInduction, TLAPS

(* g gives every subset of S the sum of f over it. *)
Adds(g, f, S) ==
  /\ g \in [SUBSET S -> Int] /\ g[{}] = 0
  /\ \A T \in SUBSET S : \A x \in T : g[T] = f[x] + g[T \ {x}]

(* h is a fold of f that takes an element c[T] of T first: it gets from the  *)
(* sum without that element to the sum with it.                             *)
FoldSteps(h, g, f, c, S) ==
  /\ h[{}] = g[{}]
  /\ \A T \in SUBSET S : T # {} =>
       /\ c[T] \in T
       /\ h[T \ {c[T]}] = g[T \ {c[T]}] => h[T] = f[c[T]] + g[T \ {c[T]}]

(* A nonempty set of naturals has a least element. *)
LEMMA LeastOf ==
  ASSUME NEW T \in SUBSET Nat, T # {}
  PROVE  \E x \in T : \A y \in T : x <= y
<1> DEFINE R == {ss \in Nat \X Nat : ss[1] < ss[2]}
<1>1. IsWellFoundedOn(R, Nat)
  BY NatLessThanWellFounded DEF OpToRel
<1>2. \E x \in T : \A y \in T : ~ (<<y, x>> \in R)
  <2> HIDE DEF R
  <2> QED BY <1>1, WFMin
<1>3. \A x, y \in T : y < x => <<y, x>> \in R
  OBVIOUS
<1>4. PICK x \in T : \A y \in T : ~ (<<y, x>> \in R)
  BY <1>2
<1> HIDE DEF R
<1>5. \A y \in T : ~ (y < x)
  BY <1>3, <1>4
<1>6. \A y \in T : x <= y
  BY <1>5
<1> QED BY <1>6

(* One element more: its value is added wherever it is in the set. *)
LEMMA SumStep ==
  ASSUME NEW S, NEW f, NEW x \in S, f[x] \in Int, \A y \in S : f[y] \in Int,
         NEW g, Adds(g, f, S \ {x})
  PROVE  \E h : Adds(h, f, S)
<1> DEFINE R == S \ {x}
           h == [T \in SUBSET S |-> IF x \in T THEN f[x] + g[T \ {x}] ELSE g[T]]
<1>1. \A T \in SUBSET S : T \ {x} \in SUBSET R /\ (x \notin T => T \in SUBSET R /\ T \ {x} = T)
  OBVIOUS
<1>2. /\ g \in [SUBSET R -> Int] /\ g[{}] = 0
      /\ \A T \in SUBSET R : \A y \in T : g[T] = f[y] + g[T \ {y}]
  BY DEF Adds
<1> HIDE DEF R
<1>3. \A T \in SUBSET S : g[T \ {x}] \in Int
  BY <1>1, <1>2
<1>4. \A T \in SUBSET S : h[T] = IF x \in T THEN f[x] + g[T \ {x}] ELSE g[T]
  OBVIOUS
<1>5. h \in [SUBSET S -> Int]
  <2>1. \A T \in SUBSET S : (IF x \in T THEN f[x] + g[T \ {x}] ELSE g[T]) \in Int
    BY <1>1, <1>2, <1>3
  <2> QED BY <2>1
<1>6. h[{}] = 0
  BY <1>2, <1>4
<1> HIDE DEF h
<1>7. ASSUME NEW T \in SUBSET S, NEW y \in T
      PROVE  h[T] = f[y] + h[T \ {y}]
  <2>1. T \ {y} \in SUBSET S
    OBVIOUS
  <2>2. CASE x \notin T
    <3>1. h[T] = g[T] /\ h[T \ {y}] = g[T \ {y}]
      BY <1>4, <2>1, <2>2
    <3>2. T \in SUBSET R
      BY <1>1, <2>2
    <3> QED BY <1>2, <3>1, <3>2
  <2>3. CASE x \in T /\ y = x
    <3>1. h[T \ {y}] = g[T \ {x}] /\ h[T] = f[x] + g[T \ {x}]
      BY <1>4, <2>1, <2>3
    <3> QED BY <2>3, <3>1
  <2>4. CASE x \in T /\ y # x
    <3>1. h[T] = f[x] + g[T \ {x}] /\ h[T \ {y}] = f[x] + g[(T \ {y}) \ {x}]
      BY <1>4, <2>1, <2>4
    <3>2. (T \ {x}) \ {y} = (T \ {y}) \ {x}
      OBVIOUS
    <3>3. T \ {x} \in SUBSET R /\ y \in T \ {x}
      BY <1>1, <2>4
    <3>4. g[T \ {x}] = f[y] + g[(T \ {x}) \ {y}]
      BY <1>2, <3>3
    <3>5. f[y] \in Int /\ g[(T \ {x}) \ {y}] \in Int
      BY <1>2, <1>3, <2>1, <3>2
    <3>6. h[T] = f[x] + (f[y] + g[(T \ {x}) \ {y}]) /\ h[T \ {y}] = f[x] + g[(T \ {x}) \ {y}]
      BY <3>1, <3>2, <3>4
    <3>7. \A a, b, d \in Int : a + (b + d) = b + (a + d)
      OBVIOUS
    <3>8. f[x] \in Int
      OBVIOUS
    <3> QED BY ONLY <3>5, <3>6, <3>7, <3>8
  <2> QED BY <2>2, <2>3, <2>4
<1>8. Adds(h, f, S)
  BY <1>5, <1>6, <1>7 DEF Adds
<1> QED BY <1>8

(* Over a finite set there are sums. *)
LEMMA SumExists ==
  ASSUME NEW S, IsFiniteSet(S), NEW f, \A x \in S : f[x] \in Int
  PROVE  \E g : Adds(g, f, S)
<1> DEFINE Sums(T) == \E g : Adds(g, f, T)
           Bad == {n \in Nat : \E T \in SUBSET S : Cardinality(T) = n /\ ~Sums(T)}
<1>1. SUFFICES ASSUME Bad # {} PROVE FALSE
  <2>1. S \in SUBSET S /\ Cardinality(S) \in Nat
    BY FS_CardinalityType
  <2> HIDE DEF Sums
  <2>2. Sums(S)
    BY <1>1, <2>1
  <2> QED BY <2>2 DEF Sums
<1>2. PICK n \in Bad : \A m \in Bad : n <= m
  BY <1>1, LeastOf
<1>3. PICK T \in SUBSET S : Cardinality(T) = n /\ ~Sums(T)
  BY <1>2
<1>4. IsFiniteSet(T) /\ n \in Nat
  BY <1>2, FS_Subset
<1>5. CASE T = {}
  <2> DEFINE g == [U \in SUBSET {} |-> 0]
  <2>1. g \in [SUBSET {} -> Int] /\ g[{}] = 0
    OBVIOUS
  <2> HIDE DEF g
  <2>2. Adds(g, f, {})
    BY <2>1 DEF Adds
  <2> QED BY <1>3, <1>5, <2>2
<1>6. CASE T # {}
  <2>1. PICK x \in T : TRUE
    BY <1>6
  <2>2. IsFiniteSet(T \ {x}) /\ Cardinality(T \ {x}) = n - 1 /\ Cardinality(T \ {x}) \in Nat
    BY <1>3, <1>4, <2>1, FS_RemoveElement, FS_CardinalityType
  <2>3. T \ {x} \in SUBSET S
    OBVIOUS
  <2> HIDE DEF Sums
  <2>4. Sums(T \ {x})
    <3>1. ~(n <= n - 1)
      BY <1>4
    <3>2. n - 1 \notin Bad
      BY <1>2, <3>1
    <3> QED BY <2>2, <2>3, <3>2
  <2>5. PICK g : Adds(g, f, T \ {x})
    BY <2>4 DEF Sums
  <2>6. \A y \in T : f[y] \in Int
    OBVIOUS
  <2>7. Sums(T)
    BY <2>1, <2>5, <2>6, SumStep DEF Sums
  <2> QED BY <1>3, <2>7
<1> QED BY <1>5, <1>6

(* And a fold, whatever element it takes first, computes them. *)
LEMMA FoldIsSum ==
  ASSUME NEW S, IsFiniteSet(S), NEW f, NEW g, Adds(g, f, S),
         NEW c, NEW h, FoldSteps(h, g, f, c, S)
  PROVE  \A T \in SUBSET S : h[T] = g[T]
<1> DEFINE Bad == {n \in Nat : \E T \in SUBSET S : Cardinality(T) = n /\ h[T] # g[T]}
<1>1. SUFFICES ASSUME Bad # {} PROVE FALSE
  <2>1. \A T \in SUBSET S : Cardinality(T) \in Nat
    BY FS_Subset, FS_CardinalityType
  <2> QED BY <1>1, <2>1
<1>2. PICK n \in Bad : \A m \in Bad : n <= m
  BY <1>1, LeastOf
<1>3. PICK T \in SUBSET S : Cardinality(T) = n /\ h[T] # g[T]
  BY <1>2
<1>4. IsFiniteSet(T) /\ n \in Nat
  BY <1>2, FS_Subset
<1>5. T # {}
  BY <1>3 DEF FoldSteps
<1> DEFINE x == c[T]
<1>7. x \in T
  BY <1>5 DEF FoldSteps
<1> HIDE DEF x
<1>8. g[T] = f[x] + g[T \ {x}]
  BY <1>7 DEF Adds
<1>9. IsFiniteSet(T \ {x}) /\ Cardinality(T \ {x}) = n - 1 /\ Cardinality(T \ {x}) \in Nat
  BY <1>3, <1>4, <1>7, FS_RemoveElement, FS_CardinalityType
<1>10. T \ {x} \in SUBSET S
  OBVIOUS
<1>11. h[T \ {x}] = g[T \ {x}]
  <2>1. ~(n <= n - 1)
    BY <1>4
  <2>2. n - 1 \notin Bad
    BY <1>2, <2>1
  <2> QED BY <1>9, <1>10, <2>2
<1> QED BY <1>3, <1>5, <1>8, <1>11 DEF x, FoldSteps

(* There is one sum only, and it does not see what f is elsewhere. *)
LEMMA SumUnique ==
  ASSUME NEW S, IsFiniteSet(S), NEW f, NEW e, \A x \in S : f[x] = e[x],
         NEW g, Adds(g, f, S), NEW h, Adds(h, e, S)
  PROVE  \A T \in SUBSET S : h[T] = g[T]
<1> DEFINE c == [T \in SUBSET S |-> CHOOSE x \in T : TRUE]
<1>1. \A T \in SUBSET S : T # {} => c[T] \in T
  OBVIOUS
<1> HIDE DEF c
<1>2. h[{}] = g[{}] /\ \A T \in SUBSET S : T # {} => h[T] = f[c[T]] + h[T \ {c[T]}]
  BY <1>1 DEF Adds
<1>3. FoldSteps(h, g, f, c, S)
  BY <1>1, <1>2 DEF FoldSteps
<1> QED BY <1>3, FoldIsSum

(* Sums over a set are sums over its subsets. *)
LEMMA SumRestricted ==
  ASSUME NEW S, NEW R \in SUBSET S, NEW f, NEW g, Adds(g, f, S),
         NEW h, h = [T \in SUBSET R |-> g[T]]
  PROVE  Adds(h, f, R)
<1>1. \A T \in SUBSET R : T \in SUBSET S /\ g[T] \in Int /\ h[T] = g[T]
  BY DEF Adds
<1>2. h \in [SUBSET R -> Int] /\ h[{}] = 0
  BY <1>1 DEF Adds
<1>3. \A T \in SUBSET R : \A x \in T : h[T] = f[x] + h[T \ {x}]
  <2> SUFFICES ASSUME NEW T \in SUBSET R, NEW x \in T PROVE h[T] = f[x] + h[T \ {x}]
    OBVIOUS
  <2>1. T \ {x} \in SUBSET R /\ T \in SUBSET S
    OBVIOUS
  <2> QED BY <1>1, <2>1 DEF Adds
<1> QED BY <1>2, <1>3 DEF Adds

-----------------------------------------------------------------------------
(* The sum of a sequence, which FoldLeft takes from its last element down.  *)
SeqTotal(s) == FoldLeft(LAMBDA x, y : x + y, 0, s)

(* A nonempty finite set of integers has a greatest element. *)
LEMMA MaxIsIn ==
  ASSUME NEW n \in Nat, NEW T \in SUBSET (1 .. n), T # {}
  PROVE  Max(T) \in T /\ \A y \in T : Max(T) >= y
<1> DEFINE D == {d \in Nat : n - d \in T}
<1>1. D \in SUBSET Nat /\ D # {}
  <2>1. PICK x \in T : TRUE
    OBVIOUS
  <2>2. n - x \in Nat /\ n - (n - x) = x
    OBVIOUS
  <2> QED BY <2>1, <2>2
<1>2. PICK d \in D : \A e \in D : d <= e
  BY <1>1, LeastOf
<1>3. n - d \in T /\ \A y \in T : n - d >= y
  <2>1. \A y \in T : n - y \in D
    <3>1. \A y \in T : n - y \in Nat /\ n - (n - y) = y
      OBVIOUS
    <3> QED BY <3>1
  <2>2. d \in Nat /\ n - d \in T
    BY <1>2
  <2>3. ASSUME NEW y \in T PROVE n - d >= y
    <3>1. d <= n - y
      BY <1>2, <2>1
    <3>2. y \in Nat
      OBVIOUS
    <3> QED BY <2>2, <3>1, <3>2
  <2> QED BY <2>2, <2>3
<1>4. Max(T) = CHOOSE x \in T : \A y \in T : x >= y
  BY DEF Max
<1> QED BY <1>3, <1>4

LEMMA TotalIsSum ==
  ASSUME NEW n \in Nat, NEW s \in [1 .. n -> Int], NEW g, Adds(g, s, 1 .. n)
  PROVE  SeqTotal(s) = g[1 .. n]
<1> DEFINE c == [T \in SUBSET (1 .. n) |-> Max(T)]
           Is(h) == h = [T \in SUBSET (1 .. n) |-> IF T = {} THEN 0 ELSE h[T \ {Max(T)}] + s[Max(T)]]
           iter == CHOOSE h : Is(h)
<1>1. \A T \in SUBSET (1 .. n) : T # {} => c[T] \in T
  BY MaxIsIn
<1>2. IsFiniteSet(1 .. n)
  BY FS_Interval
<1>3. DOMAIN s = 1 .. n
  OBVIOUS
<1>4. SeqTotal(s) = iter[1 .. n]
  BY <1>3 DEF SeqTotal, FoldLeft, MapThenFoldSet
<1>5. \A T \in SUBSET (1 .. n) : T # {} => s[Max(T)] \in Int /\ c[T] = Max(T)
  BY <1>1
<1>6. Is(g)
  <2>1. \A T \in SUBSET (1 .. n) : g[T] = IF T = {} THEN 0 ELSE g[T \ {Max(T)}] + s[Max(T)]
    <3> SUFFICES ASSUME NEW T \in SUBSET (1 .. n), T # {}
        PROVE  g[T] = g[T \ {Max(T)}] + s[Max(T)]
      BY DEF Adds
    <3>1. g[T] = s[Max(T)] + g[T \ {Max(T)}]
      BY MaxIsIn DEF Adds
    <3>2. g[T \ {Max(T)}] \in Int /\ s[Max(T)] \in Int
      BY <1>5 DEF Adds
    <3> QED BY <3>1, <3>2
  <2>2. g = [T \in SUBSET (1 .. n) |-> g[T]]
    BY DEF Adds
  <2> QED BY <2>1, <2>2
<1>7. Is(iter)
  BY <1>6
<1> HIDE DEF iter
<1>8. iter[{}] = g[{}]
  BY <1>7 DEF Adds
<1>9. ASSUME NEW T \in SUBSET (1 .. n), T # {}, iter[T \ {c[T]}] = g[T \ {c[T]}]
      PROVE  iter[T] = s[c[T]] + g[T \ {c[T]}]
  <2>1. iter[T] = iter[T \ {Max(T)}] + s[Max(T)]
    BY <1>7, <1>9
  <2>2. g[T \ {c[T]}] \in Int /\ s[c[T]] \in Int
    BY <1>5, <1>9 DEF Adds
  <2> QED BY <1>5, <1>9, <2>1, <2>2
<1>10. \A x \in 1 .. n : s[x] \in Int
  OBVIOUS
<1> HIDE DEF c
<1>11. FoldSteps(iter, g, s, c, 1 .. n)
  BY <1>1, <1>8, <1>9 DEF FoldSteps
<1>12. \A T \in SUBSET (1 .. n) : iter[T] = g[T]
  <2> DEFINE S == 1 .. n
  <2>1. IsFiniteSet(S) /\ Adds(g, s, S) /\ FoldSteps(iter, g, s, c, S)
    BY <1>2, <1>11
  <2> HIDE DEF S
  <2>2. \A T \in SUBSET S : iter[T] = g[T]
    BY ONLY <2>1, FoldIsSum
  <2> QED BY <2>2 DEF S
<1> QED BY <1>4, <1>12

(* What one element more adds to the sum of a sequence.                     *)
LEMMA TotalNone ==
  ASSUME NEW s \in [1 .. 0 -> Int]
  PROVE  SeqTotal(s) = 0
<1>1. 1 .. 0 = {} /\ IsFiniteSet({})
  BY FS_EmptySet
<1>2. PICK g : Adds(g, s, {})
  BY <1>1, SumExists
<1>3. SeqTotal(s) = g[1 .. 0]
  BY <1>1, <1>2, TotalIsSum
<1> QED BY <1>1, <1>2, <1>3 DEF Adds

LEMMA TotalMore ==
  ASSUME NEW n \in Nat, NEW s \in [1 .. n -> Int], NEW t \in [1 .. n + 1 -> Int],
         \A i \in 1 .. n : t[i] = s[i]
  PROVE  SeqTotal(s) \in Int /\ SeqTotal(t) = SeqTotal(s) + t[n + 1]
<1> DEFINE S == 1 .. n
           R == 1 .. n + 1
<1>1. IsFiniteSet(S) /\ IsFiniteSet(R) /\ S \in SUBSET R /\ n + 1 \in R /\ R \ {n + 1} = S
  <2>1. 1 \in Int /\ n \in Int /\ n + 1 \in Int
    OBVIOUS
  <2>2. IsFiniteSet(S) /\ IsFiniteSet(R)
    BY <2>1, FS_Interval
  <2>3. S \in SUBSET R /\ n + 1 \in R /\ R \ {n + 1} = S
    OBVIOUS
  <2> QED BY <2>2, <2>3
<1>2. (\A x \in R : t[x] \in Int) /\ (\A x \in S : s[x] \in Int) /\ \A x \in S : t[x] = s[x]
  OBVIOUS
<1>3. n + 1 \in Nat
  OBVIOUS
<1> HIDE DEF S, R
<1>4. PICK g : Adds(g, t, R)
  BY <1>1, <1>2, SumExists
<1>5. PICK h : Adds(h, s, S)
  BY <1>1, <1>2, SumExists
<1> DEFINE k == [T \in SUBSET S |-> g[T]]
<1>6. Adds(k, t, S)
  <2>1. S \in SUBSET R /\ Adds(g, t, R)
    BY <1>1, <1>4
  <2>2. k = [T \in SUBSET S |-> g[T]]
    OBVIOUS
  <2> HIDE DEF k
  <2> QED BY ONLY <2>1, <2>2, SumRestricted
<1>7. k[S] = g[S]
  OBVIOUS
<1> HIDE DEF k
<1>8. k[S] = h[S]
  BY <1>1, <1>2, <1>5, <1>6, SumUnique
<1>9. SeqTotal(s) = h[S]
  BY <1>5, TotalIsSum DEF S
<1>10. SeqTotal(t) = g[R]
  BY <1>3, <1>4, TotalIsSum DEF R
<1>11. g[R] = t[n + 1] + g[S]
  BY <1>1, <1>4 DEF Adds
<1>12. h[S] \in Int /\ t[n + 1] \in Int
  BY <1>1, <1>2, <1>5 DEF Adds
<1>13. SeqTotal(s) = h[S] /\ SeqTotal(t) = t[n + 1] + h[S]
  BY <1>7, <1>8, <1>9, <1>10, <1>11
<1>14. \A a, b \in Int : a + b = b + a
  OBVIOUS
<1> QED BY ONLY <1>12, <1>13, <1>14

-----------------------------------------------------------------------------
(* The sum of a function over a finite set, SumFunctionOnSet(f, S).         *)
LEMMA SetSumIs ==
  ASSUME NEW S, IsFiniteSet(S), NEW f, \A x \in S : f[x] \in Int,
         NEW g, Adds(g, f, S)
  PROVE  SumFunctionOnSet(f, S) = g[S]
<1> DEFINE c == [T \in SUBSET S |-> CHOOSE x \in T : TRUE]
           Is(h) == h = [T \in SUBSET S |->
                          IF T = {} THEN 0
                          ELSE f[CHOOSE x \in T : TRUE] + h[T \ {CHOOSE x \in T : TRUE}]]
           iter == CHOOSE h : Is(h)
<1>1. \A T \in SUBSET S : T # {} => c[T] \in T /\ c[T] = CHOOSE x \in T : TRUE
  OBVIOUS
<1>2. SumFunctionOnSet(f, S) = iter[S]
  BY DEF SumFunctionOnSet, FoldFunctionOnSet, MapThenFoldSet
<1>3. Is(g)
  <2>1. \A T \in SUBSET S :
          g[T] = IF T = {} THEN 0
                 ELSE f[CHOOSE x \in T : TRUE] + g[T \ {CHOOSE x \in T : TRUE}]
    BY <1>1, ZenonT(30) DEF Adds
  <2>2. g = [T \in SUBSET S |-> g[T]]
    BY DEF Adds
  <2> QED BY <2>1, <2>2
<1>4. Is(iter)
  BY <1>3
<1> HIDE DEF iter
<1>5. iter[{}] = g[{}]
  BY <1>4 DEF Adds
<1>6. \A T \in SUBSET S : T # {} => iter[T] = f[c[T]] + iter[T \ {c[T]}]
  BY <1>1, <1>4
<1> HIDE DEF c
<1>7. FoldSteps(iter, g, f, c, S)
  BY <1>1, <1>5, <1>6 DEF FoldSteps
<1>8. \A T \in SUBSET S : iter[T] = g[T]
  BY ONLY <1>7, FoldIsSum, IsFiniteSet(S), Adds(g, f, S)
<1> QED BY <1>2, <1>8

LEMMA SetSumType ==
  ASSUME NEW S, IsFiniteSet(S), NEW f, \A x \in S : f[x] \in Int
  PROVE  SumFunctionOnSet(f, S) \in Int
<1>1. PICK g : Adds(g, f, S)
  BY SumExists
<1>2. SumFunctionOnSet(f, S) = g[S]
  BY <1>1, SetSumIs
<1> QED BY <1>1, <1>2 DEF Adds

LEMMA SetSumNone == ASSUME NEW f PROVE SumFunctionOnSet(f, {}) = 0
<1>1. IsFiniteSet({}) /\ \A x \in {} : f[x] \in Int
  BY FS_EmptySet
<1>2. PICK g : Adds(g, f, {})
  BY <1>1, SumExists
<1>3. SumFunctionOnSet(f, {}) = g[{}]
  BY <1>1, <1>2, SetSumIs
<1> QED BY <1>2, <1>3 DEF Adds

(* It is the same for functions that are the same on the set.               *)
LEMMA SetSumSame ==
  ASSUME NEW S, IsFiniteSet(S), NEW f, \A x \in S : f[x] \in Int,
         NEW e, \A x \in S : f[x] = e[x]
  PROVE  SumFunctionOnSet(e, S) = SumFunctionOnSet(f, S)
<1>1. \A x \in S : e[x] \in Int
  OBVIOUS
<1>2. PICK g : Adds(g, f, S)
  BY SumExists
<1>3. PICK h : Adds(h, e, S)
  BY <1>1, SumExists
<1>4. h[S] = g[S]
  BY <1>2, <1>3, SumUnique
<1> QED BY <1>1, <1>2, <1>3, <1>4, SetSumIs

(* What one element adds to it.                                             *)
LEMMA SetSumLess ==
  ASSUME NEW S, IsFiniteSet(S), NEW f, \A x \in S : f[x] \in Int, NEW x \in S
  PROVE  SumFunctionOnSet(f, S) = f[x] + SumFunctionOnSet(f, S \ {x})
<1> DEFINE R == S \ {x}
<1>1. PICK g : Adds(g, f, S)
  BY SumExists
<1> DEFINE k == [T \in SUBSET R |-> g[T]]
<1>2. R \in SUBSET S /\ R \in SUBSET R
  OBVIOUS
<1>3. IsFiniteSet(R) /\ \A y \in R : f[y] \in Int
  BY FS_Subset
<1>4. k = [T \in SUBSET R |-> g[T]] /\ k[R] = g[R]
  BY <1>2
<1> HIDE DEF k, R
<1>5. Adds(k, f, R)
  BY <1>1, <1>2, <1>4, SumRestricted
<1>6. SumFunctionOnSet(f, S) = g[S] /\ SumFunctionOnSet(f, R) = k[R]
  BY <1>1, <1>3, <1>5, SetSumIs
<1>7. g[S] = f[x] + g[R]
  BY <1>1 DEF Adds, R
<1> QED BY <1>4, <1>6, <1>7 DEF R

LEMMA SetSumMore ==
  ASSUME NEW S, IsFiniteSet(S), NEW x, x \notin S, NEW f, f[x] \in Int,
         \A y \in S : f[y] \in Int
  PROVE  SumFunctionOnSet(f, S \union {x}) = f[x] + SumFunctionOnSet(f, S)
<1> DEFINE R == S \union {x}
<1>1. IsFiniteSet(R)
  BY FS_AddElement
<1>2. x \in R /\ R \ {x} = S /\ \A y \in R : f[y] \in Int
  OBVIOUS
<1> HIDE DEF R
<1>3. SumFunctionOnSet(f, R) = f[x] + SumFunctionOnSet(f, R \ {x})
  BY <1>1, <1>2, SetSumLess
<1> QED BY <1>2, <1>3 DEF R

(* What a change of one value does to it.                                   *)
LEMMA SetSumChanged ==
  ASSUME NEW S, IsFiniteSet(S), NEW x \in S,
         NEW f, \A y \in S : f[y] \in Int, NEW e, e[x] \in Int,
         \A y \in S : y # x => e[y] = f[y]
  PROVE  SumFunctionOnSet(e, S) = SumFunctionOnSet(f, S) + (e[x] - f[x])
<1> DEFINE R == S \ {x}
<1>1. IsFiniteSet(R) /\ (\A y \in R : f[y] \in Int /\ e[y] = f[y]) /\ \A y \in S : e[y] \in Int
  BY FS_Subset
<1> HIDE DEF R
<1>2. SumFunctionOnSet(e, R) = SumFunctionOnSet(f, R)
  BY <1>1, SetSumSame
<1>3. SumFunctionOnSet(f, S) = f[x] + SumFunctionOnSet(f, R)
  BY SetSumLess DEF R
<1>4. SumFunctionOnSet(e, S) = e[x] + SumFunctionOnSet(e, R)
  BY <1>1, SetSumLess DEF R
<1>5. SumFunctionOnSet(f, R) \in Int /\ f[x] \in Int /\ e[x] \in Int
  BY <1>1, SetSumType
<1>6. \A a, b, d \in Int : b + a = (d + a) + (b - d)
  OBVIOUS
<1> QED BY ONLY <1>2, <1>3, <1>4, <1>5, <1>6

(* A greater function has no smaller sum.                                   *)
LEMMA SetSumAtMost ==
  ASSUME NEW S, IsFiniteSet(S), NEW f, NEW e,
         \A x \in S : f[x] \in Int /\ e[x] \in Int /\ f[x] <= e[x]
  PROVE  SumFunctionOnSet(f, S) <= SumFunctionOnSet(e, S)
<1> DEFINE Good(T) == SumFunctionOnSet(f, T) <= SumFunctionOnSet(e, T)
           Bad == {n \in Nat : \E T \in SUBSET S : Cardinality(T) = n /\ ~Good(T)}
<1>1. SUFFICES ASSUME Bad # {} PROVE FALSE
  <2>1. S \in SUBSET S /\ Cardinality(S) \in Nat
    BY FS_CardinalityType
  <2> HIDE DEF Good
  <2>2. Good(S)
    BY <1>1, <2>1
  <2> QED BY <2>2 DEF Good
<1>2. PICK n \in Bad : \A m \in Bad : n <= m
  BY <1>1, LeastOf
<1>3. PICK T \in SUBSET S : Cardinality(T) = n /\ ~Good(T)
  BY <1>2
<1>4. IsFiniteSet(T) /\ n \in Nat
  BY <1>2, FS_Subset
<1>5. T # {}
  <2>1. SumFunctionOnSet(f, {}) = 0 /\ SumFunctionOnSet(e, {}) = 0
    BY SetSumNone
  <2> QED BY <1>3, <2>1
<1>6. PICK x \in T : TRUE
  BY <1>5
<1> DEFINE R == T \ {x}
<1>7. IsFiniteSet(R) /\ Cardinality(R) = n - 1 /\ Cardinality(R) \in Nat
  BY <1>3, <1>4, <1>6, FS_RemoveElement, FS_CardinalityType
<1>8. R \in SUBSET S /\ \A y \in R : f[y] \in Int /\ e[y] \in Int
  OBVIOUS
<1>9. \A y \in T : f[y] \in Int /\ e[y] \in Int
  OBVIOUS
<1>10. SumFunctionOnSet(f, T) = f[x] + SumFunctionOnSet(f, R)
       /\ SumFunctionOnSet(e, T) = e[x] + SumFunctionOnSet(e, R)
  <2>1. IsFiniteSet(T) /\ x \in T /\ (\A y \in T : f[y] \in Int) /\ \A y \in T : e[y] \in Int
    BY <1>4, <1>6, <1>9
  <2> QED BY ONLY <2>1, SetSumLess DEF R
<1> HIDE DEF R
<1>11. SumFunctionOnSet(f, R) \in Int /\ SumFunctionOnSet(e, R) \in Int
  BY <1>7, <1>8, SetSumType
<1>12. Good(R)
  <2>1. n - 1 \notin Bad
    BY <1>2, <1>4
  <2> HIDE DEF Good
  <2> QED BY <1>7, <1>8, <2>1
<1>13. f[x] \in Int /\ e[x] \in Int /\ f[x] <= e[x]
  BY <1>6
<1>14. Good(T)
  BY ONLY <1>10, <1>11, <1>12, <1>13 DEF Good
<1> QED BY <1>3, <1>14

(* Zeros add up to zero.                                                    *)
LEMMA SetSumZero ==
  ASSUME NEW S, IsFiniteSet(S), NEW f, \A x \in S : f[x] = 0
  PROVE  SumFunctionOnSet(f, S) = 0
<1> DEFINE g == [T \in SUBSET S |-> 0]
<1>1. Adds(g, f, S)
  <2>1. g \in [SUBSET S -> Int] /\ \A T \in SUBSET S : g[T] = 0
    OBVIOUS
  <2>2. {} \in SUBSET S /\ \A T \in SUBSET S : \A x \in T : T \ {x} \in SUBSET S /\ f[x] = 0
    OBVIOUS
  <2> HIDE DEF g
  <2>3. \A T \in SUBSET S : \A x \in T : g[T] = f[x] + g[T \ {x}]
    BY <2>1, <2>2
  <2> QED BY <2>1, <2>2, <2>3 DEF Adds
<1>2. S \in SUBSET S /\ g[S] = 0
  OBVIOUS
<1> HIDE DEF g
<1> QED BY <1>1, <1>2, SetSumIs

LEMMA SetSumNat ==
  ASSUME NEW S, IsFiniteSet(S), NEW f, \A x \in S : f[x] \in Nat
  PROVE  SumFunctionOnSet(f, S) \in Nat
<1> DEFINE z == [x \in S |-> 0]
<1>1. (\A x \in S : z[x] = 0) /\ \A x \in S : z[x] \in Int /\ f[x] \in Int /\ z[x] <= f[x]
  OBVIOUS
<1> HIDE DEF z
<1>2. SumFunctionOnSet(z, S) = 0
  BY <1>1, SetSumZero
<1>3. SumFunctionOnSet(z, S) <= SumFunctionOnSet(f, S)
  BY <1>1, SetSumAtMost
<1>4. SumFunctionOnSet(f, S) \in Int
  BY <1>1, SetSumType
<1> QED BY <1>2, <1>3, <1>4

-----------------------------------------------------------------------------
(* A set with 0 in it, and with k + 1 for each k < n in it, holds n.        *)
LEMMA UpTo ==
  ASSUME NEW n \in Nat, NEW P, 0 \in P, \A k \in 0 .. n - 1 : k \in P => k + 1 \in P
  PROVE  n \in P
<1> DEFINE Bad == {k \in 0 .. n : k \notin P}
<1>1. SUFFICES ASSUME Bad # {} PROVE FALSE
  BY <1>1
<1>2. PICK m \in Bad : \A k \in Bad : m <= k
  <2>1. Bad \in SUBSET Nat
    OBVIOUS
  <2> HIDE DEF Bad
  <2> QED BY <1>1, <2>1, LeastOf
<1>3. m \in 1 .. n
  BY <1>2
<1>4. m - 1 \in 0 .. n - 1 /\ ~(m <= m - 1) /\ m - 1 + 1 = m
  BY <1>3
<1>5. m - 1 \in P
  BY <1>2, <1>4
<1> QED BY <1>2, <1>4, <1>5

(* f is what comes of the first sequences of ss, strung together.           *)
Strings(f, ss, n) == f = [i \in 1 .. n |-> IF i = 1 THEN ss[i] ELSE f[i - 1] \o ss[i]]

(* The function that FlattenSeq chooses exists.                             *)
LEMMA StringsExist ==
  ASSUME NEW ss, NEW n \in Nat
  PROVE  \E f : Strings(f, ss, n)
<1> DEFINE P == {k \in 0 .. n : \E f : Strings(f, ss, k)}
<1>1. 0 \in P
  <2> DEFINE f == [i \in {} |-> IF i = 1 THEN ss[i] ELSE <<>>]
  <2>1. 1 .. 0 = {} /\ f = [i \in {} |-> IF i = 1 THEN ss[i] ELSE f[i - 1] \o ss[i]]
    OBVIOUS
  <2> HIDE DEF f
  <2>2. Strings(f, ss, 0)
    BY <2>1 DEF Strings
  <2>3. 0 \in 0 .. n
    OBVIOUS
  <2> QED BY <2>2, <2>3
<1>2. ASSUME NEW k \in 0 .. n - 1, k \in P PROVE k + 1 \in P
  <2>1. PICK f : Strings(f, ss, k)
    BY <1>2
  <2> DEFINE g == [i \in 1 .. k + 1 |->
                     IF i = k + 1 THEN (IF i = 1 THEN ss[i] ELSE f[k] \o ss[i]) ELSE f[i]]
  <2>2. k \in Nat /\ k + 1 \in 0 .. n /\ (k + 1) - 1 = k
    OBVIOUS
  <2>3. ASSUME NEW i \in 1 .. k + 1
        PROVE  g[i] = IF i = 1 THEN ss[i] ELSE g[i - 1] \o ss[i]
    <3>1. CASE i = k + 1
      <4>1. g[i] = IF i = 1 THEN ss[i] ELSE f[k] \o ss[i]
        BY <3>1
      <4>2. i # 1 => i - 1 = k /\ i - 1 \in 1 .. k + 1 /\ i - 1 # k + 1
        BY <2>2, <3>1
      <4>3. i # 1 => g[i - 1] = f[k]
        BY <4>2
      <4> HIDE DEF g
      <4> QED BY <4>1, <4>3
    <3>2. CASE i # k + 1
      <4>1. i \in 1 .. k /\ g[i] = f[i]
        BY <2>2, <3>2
      <4>2. i # 1 => i - 1 \in 1 .. k + 1 /\ i - 1 # k + 1
        BY <2>2, <4>1
      <4>3. i # 1 => g[i - 1] = f[i - 1]
        BY <4>2
      <4> HIDE DEF g
      <4>4. f[i] = IF i = 1 THEN ss[i] ELSE f[i - 1] \o ss[i]
        BY <2>1, <4>1 DEF Strings
      <4> QED BY <4>1, <4>3, <4>4
    <3> QED BY <3>1, <3>2
  <2>4. g = [i \in 1 .. k + 1 |-> g[i]]
    OBVIOUS
  <2> HIDE DEF g
  <2>5. Strings(g, ss, k + 1)
    BY <2>3, <2>4, Zenon DEF Strings
  <2> QED BY <2>2, <2>5
<1>3. n \in P
  <2> HIDE DEF P
  <2> QED BY <1>1, <1>2, UpTo
<1> QED BY <1>3

(* Flattening sequences over a set gives a sequence over it.                *)
LEMMA FlattenType ==
  ASSUME NEW V, NEW ss \in Seq(Seq(V))
  PROVE  FlattenSeq(ss) \in Seq(V)
<1> DEFINE n == Len(ss)
           Is(f) == f = [i \in 1 .. n |-> IF i = 1 THEN ss[i] ELSE f[i - 1] \o ss[i]]
           flatten == CHOOSE f : Is(f)
<1>1. n \in Nat /\ \A i \in 1 .. n : ss[i] \in Seq(V)
  OBVIOUS
<1>2. CASE n = 0
  <2>1. ss = <<>> /\ FlattenSeq(ss) = ss
    BY <1>2 DEF FlattenSeq
  <2>2. <<>> \in Seq(V)
    OBVIOUS
  <2> QED BY ONLY <2>1, <2>2
<1>3. CASE n # 0
  <2>1. FlattenSeq(ss) = flatten[n]
    BY <1>3 DEF FlattenSeq
  <2>2. \E f : Strings(f, ss, n)
    BY <1>1, StringsExist
  <2>3. Is(flatten)
    BY <2>2 DEF Strings
  <2> HIDE DEF flatten
  <2>4. \A i \in 1 .. n : flatten[i] = IF i = 1 THEN ss[i] ELSE flatten[i - 1] \o ss[i]
    BY <2>3, Zenon
  <2> DEFINE P == {k \in 0 .. n : k = 0 \/ flatten[k] \in Seq(V)}
  <2> HIDE DEF n
  <2>5. 0 \in P
    BY <1>1
  <2>6. ASSUME NEW k \in 0 .. n - 1, k \in P PROVE k + 1 \in P
    <3>1. k + 1 \in 1 .. n /\ (k + 1) - 1 = k /\ k + 1 \in 0 .. n
      BY <1>1
    <3>2. CASE k = 0
      <4>1. flatten[k + 1] = ss[k + 1]
        BY <2>4, <3>1, <3>2
      <4> QED BY <1>1, <3>1, <4>1
    <3>3. CASE k # 0
      <4>1. flatten[k + 1] = flatten[k] \o ss[k + 1]
        <5>1. flatten[k + 1] = IF k + 1 = 1 THEN ss[k + 1] ELSE flatten[(k + 1) - 1] \o ss[k + 1]
          BY ONLY <2>4, <3>1, Zenon
        <5>2. k + 1 # 1
          BY <3>3
        <5>3. flatten[k + 1] = flatten[(k + 1) - 1] \o ss[k + 1]
          BY ONLY <5>1, <5>2, Zenon
        <5> QED BY ONLY <3>1, <5>3, Zenon
      <4>2. flatten[k] \in Seq(V) /\ ss[k + 1] \in Seq(V)
        BY <1>1, <2>6, <3>1, <3>3
      <4>3. flatten[k] \o ss[k + 1] \in Seq(V)
        <5> DEFINE a == flatten[k]
                   b == ss[k + 1]
        <5>1. a \in Seq(V) /\ b \in Seq(V)
          BY <4>2
        <5> HIDE DEF a, b
        <5>2. a \o b \in Seq(V)
          BY <5>1
        <5> QED BY <5>2 DEF a, b
      <4> QED BY <3>1, <4>1, <4>3
    <3> QED BY <3>2, <3>3
  <2>7. n \in P
    <3> HIDE DEF P
    <3> QED BY <1>1, <2>5, <2>6, UpTo
  <2> QED BY <1>3, <2>1, <2>7
<1> QED BY <1>2, <1>3

(* There is only one.                                                       *)
LEMMA StringsUnique ==
  ASSUME NEW ss, NEW n \in Nat, NEW m \in 0 .. n, NEW f, NEW tt, NEW g, Strings(f, ss, n), Strings(g, tt, m),
         \A i \in 1 .. m : tt[i] = ss[i]
  PROVE  \A i \in 1 .. m : g[i] = f[i]
<1> SUFFICES ASSUME NEW j \in 1 .. m PROVE g[j] = f[j]
  OBVIOUS
<1> DEFINE P == {k \in 0 .. m : k = 0 \/ g[k] = f[k]}
<1>1. m \in Nat /\ m <= n
  OBVIOUS
<1>2. 0 \in P
  BY <1>1
<1>3. ASSUME NEW k \in 0 .. j - 1, k \in P PROVE k + 1 \in P
  <2>1. k + 1 \in 1 .. m /\ k + 1 \in 1 .. n /\ k + 1 \in 0 .. m /\ (k + 1) - 1 = k
    BY <1>1
  <2>2. g[k + 1] = (IF k + 1 = 1 THEN tt[k + 1] ELSE g[(k + 1) - 1] \o tt[k + 1])
    BY <2>1 DEF Strings
  <2>3. f[k + 1] = (IF k + 1 = 1 THEN ss[k + 1] ELSE f[(k + 1) - 1] \o ss[k + 1])
    BY <2>1 DEF Strings
  <2>4. k # 0 => g[k] = f[k]
    BY <1>3
  <2>5. k + 1 # 1 => k # 0
    OBVIOUS
  <2>6. tt[k + 1] = ss[k + 1]
    BY <2>1
  <2>7. k + 1 # 1 => g[(k + 1) - 1] = f[(k + 1) - 1]
    BY <2>1, <2>4, <2>5
  <2>8. g[k + 1] = f[k + 1]
    BY ONLY <2>2, <2>3, <2>6, <2>7, Zenon
  <2> QED BY <2>1, <2>8
<1>4. j \in P
  <2>1. j \in Nat
    OBVIOUS
  <2> HIDE DEF P
  <2> QED BY <1>2, <1>3, <2>1, UpTo
<1> QED BY <1>4

(* One sequence more is put behind the others.                              *)
LEMMA FlattenMore ==
  ASSUME NEW V, NEW ss \in Seq(Seq(V)), NEW x \in Seq(V)
  PROVE  FlattenSeq(Append(ss, x)) = FlattenSeq(ss) \o x
<1> DEFINE m == Len(ss)
           n == m + 1
           tt == Append(ss, x)
           Is(f) == f = [i \in 1 .. n |-> IF i = 1 THEN tt[i] ELSE f[i - 1] \o tt[i]]
           Was(f) == f = [i \in 1 .. m |-> IF i = 1 THEN ss[i] ELSE f[i - 1] \o ss[i]]
           f1 == CHOOSE f : Is(f)
           g1 == CHOOSE f : Was(f)
<1>1. m \in Nat /\ n \in Nat /\ n # 0 /\ Len(tt) = n /\ tt[n] = x /\ \A i \in 1 .. m : tt[i] = ss[i]
  OBVIOUS
<1>2. FlattenSeq(tt) = f1[n]
  <2>1. FlattenSeq(tt) = (CHOOSE f : f = [i \in 1 .. Len(tt) |-> IF i = 1 THEN tt[i] ELSE f[i - 1] \o tt[i]])[Len(tt)]
    BY <1>1 DEF FlattenSeq
  <2> HIDE DEF tt, n
  <2> QED BY <1>1, <2>1
<1>3. m # 0 => FlattenSeq(ss) = g1[m]
  BY DEF FlattenSeq
<1> HIDE DEF m, n, tt
<1>4. Strings(f1, tt, n) /\ Strings(g1, ss, m)
  <2>1. (\E f : Is(f)) /\ \E f : Was(f)
    BY <1>1, StringsExist DEF Strings
  <2>2. Is(f1) /\ Was(g1)
    BY <2>1
  <2> HIDE DEF f1, g1
  <2> QED BY <2>2 DEF Strings
<1> HIDE DEF f1, g1
<1>5. n - 1 = m /\ m \in 0 .. n /\ n \in 1 .. n
  BY <1>1 DEF n
<1>6. f1[n] = (IF n = 1 THEN tt[n] ELSE f1[n - 1] \o tt[n])
  BY <1>4, <1>5 DEF Strings
<1>7. CASE m = 0
  <2>1. ss = <<>> /\ FlattenSeq(ss) = <<>>
    BY <1>7 DEF m, FlattenSeq
  <2>2. n = 1
    BY <1>7 DEF n
  <2>3. <<>> \o x = x
    OBVIOUS
  <2>4. FlattenSeq(tt) = x
    BY <1>1, <1>2, <1>6, <2>2
  <2> QED BY <2>1, <2>3, <2>4 DEF tt
<1>8. CASE m # 0
  <2>1. n # 1 /\ m \in 1 .. m
    BY <1>1, <1>5, <1>8
  <2>2. \A i \in 1 .. m : ss[i] = tt[i]
    BY <1>1
  <2>3. \A i \in 1 .. m : g1[i] = f1[i]
    BY <1>1, <1>4, <1>5, <2>2, StringsUnique
  <2>4. g1[m] = f1[m]
    BY <2>1, <2>3
  <2>5. FlattenSeq(tt) = f1[m] \o x
    BY <1>1, <1>2, <1>5, <1>6, <2>1
  <2> QED BY <1>3, <1>8, <2>4, <2>5 DEF tt
<1> QED BY <1>7, <1>8
=============================================================================
