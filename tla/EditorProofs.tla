---------------------------- MODULE EditorProofs ----------------------------
(***************************************************************************)
(* Proofs about the two line editors, LineEditor (5_35) and, as S,         *)
(* CompletingEditor (5_34): for every set of letters, every dictionary,    *)
(* every set of inputs, any number of reads and every buffer that has room *)
(* for them, the terminal shows the line, and each key does to the line    *)
(* what TextLine says.                                                     *)
(***************************************************************************)
EXTENDS MCLineEditor, SumTheorems, SequenceTheorems

-----------------------------------------------------------------------------
(***************************************************************************)
(* What a sequence of characters does to the terminal: a fold, by the      *)
(* function it chooses                                                     *)
(***************************************************************************)

Put(t, s) == FoldLeft(Emit, t, s)

(* h takes the fold over every subset of 1 .. n.                            *)
Folds(h, t, s, n) ==
  h = [T \in SUBSET (1 .. n) |-> IF T = {} THEN t ELSE Emit(h[T \ {Max(T)}], s[Max(T)])]

(* There is only one such function.                                         *)
LEMMA FoldUnique ==
  ASSUME NEW n \in Nat, NEW t, NEW s, NEW h, NEW e, Folds(h, t, s, n), Folds(e, t, s, n)
  PROVE  \A T \in SUBSET (1 .. n) : h[T] = e[T]
<1> DEFINE Bad == {m \in 0 .. n : \E T \in SUBSET (1 .. m) : h[T] # e[T]}
<1>1. SUFFICES ASSUME Bad # {} PROVE FALSE
  <2>1. n \in 0 .. n
    OBVIOUS
  <2> QED BY <1>1, <2>1
<1>2. Bad \in SUBSET Nat
  OBVIOUS
<1>3. PICK m \in Bad : \A k \in Bad : m <= k
  BY <1>1, <1>2, LeastOf
<1>4. PICK T \in SUBSET (1 .. m) : h[T] # e[T]
  BY <1>3
<1>5. m \in 0 .. n /\ T \in SUBSET (1 .. n)
  BY <1>3
<1>6. T # {}
  BY <1>4, <1>5 DEF Folds
<1>7. Max(T) \in T /\ \A y \in T : Max(T) >= y
  BY <1>5, <1>6, MaxIsIn
<1> DEFINE p == Max(T)
           k == p - 1
<1>8. k \in 0 .. n /\ k < m /\ T \ {p} \in SUBSET (1 .. k)
  <2>1. p \in 1 .. m /\ m \in 0 .. n /\ \A y \in T : y \in Int /\ y >= 1 /\ p >= y
    <3> HIDE DEF Bad, p
    <3>1. p \in T /\ \A y \in T : p >= y
      BY <1>7, Zenon DEF p
    <3>2. \A y \in T : y \in 1 .. m
      OBVIOUS
    <3> QED BY <1>5, <3>1, <3>2
  <2> HIDE DEF p
  <2>2. k \in 0 .. n /\ k < m
    BY <2>1
  <2>3. \A y \in T \ {p} : y \in 1 .. k
    BY <2>1
  <2> QED BY <2>2, <2>3
<1>9. k \notin Bad
  BY <1>3, <1>5, <1>8
<1>10. h[T \ {Max(T)}] = e[T \ {Max(T)}]
  BY <1>8, <1>9
<1>11. h[T] = Emit(h[T \ {Max(T)}], s[Max(T)]) /\ e[T] = Emit(e[T \ {Max(T)}], s[Max(T)])
  BY <1>5, <1>6 DEF Folds
<1> QED BY <1>4, <1>10, <1>11

(* One character more.                                                      *)
LEMMA FoldOneMore ==
  ASSUME NEW n \in Nat, NEW t, NEW s, NEW h, Folds(h, t, s, n)
  PROVE  Folds([T \in SUBSET (1 .. n + 1) |->
                  IF n + 1 \in T THEN Emit(h[T \ {n + 1}], s[n + 1]) ELSE h[T]], t, s, n + 1)
<1> DEFINE g == [T \in SUBSET (1 .. n + 1) |->
                  IF n + 1 \in T THEN Emit(h[T \ {n + 1}], s[n + 1]) ELSE h[T]]
<1>1. ASSUME NEW T \in SUBSET (1 .. n + 1)
      PROVE  g[T] = IF T = {} THEN t ELSE Emit(g[T \ {Max(T)}], s[Max(T)])
  <2>0. g[T] = IF n + 1 \in T THEN Emit(h[T \ {n + 1}], s[n + 1]) ELSE h[T]
    OBVIOUS
  <2>1. CASE T = {}
    <3>1. n + 1 \notin T /\ T \in SUBSET (1 .. n)
      BY <2>1
    <3> QED BY <2>0, <2>1, <3>1 DEF Folds
  <2>2. CASE T # {}
    <3>1. n + 1 \in Nat
      OBVIOUS
    <3>2. Max(T) \in T /\ \A y \in T : Max(T) >= y
      BY <2>2, <3>1, MaxIsIn
    <3>3. T \ {Max(T)} \in SUBSET (1 .. n)
      <4> DEFINE p == Max(T)
      <4>1. \A y \in T : y \in 1 .. n + 1 /\ p >= y
        BY <3>2
      <4>2. p \in 1 .. n + 1
        BY <3>2
      <4> HIDE DEF p
      <4>3. \A y \in T \ {p} : y \in 1 .. n
        BY <4>1, <4>2
      <4> QED BY <4>3 DEF p
    <3>4. g[T \ {Max(T)}] = h[T \ {Max(T)}]
      <4>1. n + 1 \notin T \ {Max(T)} /\ T \ {Max(T)} \in SUBSET (1 .. n + 1)
        BY <3>3
      <4> QED BY <4>1
    <3>5. CASE n + 1 \in T
      <4>1. Max(T) = n + 1
        <5> DEFINE p == Max(T)
        <5>1. p \in 1 .. n + 1 /\ p >= n + 1
          BY <3>2, <3>5
        <5> HIDE DEF p
        <5>2. p = n + 1
          BY <5>1
        <5> QED BY <5>2 DEF p
      <4> QED BY <2>0, <2>2, <3>4, <3>5, <4>1
    <3>6. CASE n + 1 \notin T
      <4>1. T \in SUBSET (1 .. n)
        BY <3>6
      <4>2. h[T] = Emit(h[T \ {Max(T)}], s[Max(T)])
        BY <2>2, <4>1 DEF Folds
      <4> QED BY <2>0, <2>2, <3>4, <3>6, <4>2
    <3> QED BY <3>5, <3>6
  <2> QED BY <2>1, <2>2
<1>2. g = [T \in SUBSET (1 .. n + 1) |-> g[T]]
  OBVIOUS
<1> HIDE DEF g
<1>3. Folds(g, t, s, n + 1)
  BY <1>1, <1>2 DEF Folds
<1> QED BY <1>3 DEF g

(* There is such a function for every number of characters.                 *)
LEMMA FoldExists ==
  ASSUME NEW n \in Nat, NEW t, NEW s
  PROVE  \E h : Folds(h, t, s, n)
<1> DEFINE Bad == {m \in Nat : ~ \E h : Folds(h, t, s, m)}
<1>1. SUFFICES ASSUME Bad # {} PROVE FALSE
  BY <1>1
<1>2. PICK m \in Bad : \A k \in Bad : m <= k
  BY <1>1, LeastOf
<1>3. CASE m = 0
  <2> DEFINE h == [T \in SUBSET {} |-> t]
  <2>1. 1 .. 0 = {} /\ h = [T \in SUBSET {} |-> IF T = {} THEN t ELSE Emit(h[T \ {Max(T)}], s[Max(T)])]
    OBVIOUS
  <2> HIDE DEF h
  <2>2. Folds(h, t, s, 0)
    BY <2>1 DEF Folds
  <2> QED BY <1>2, <1>3, <2>2
<1>4. CASE m # 0
  <2>1. m - 1 \in Nat /\ ~(m <= m - 1) /\ m - 1 + 1 = m
    BY <1>2, <1>4
  <2>2. PICK h : Folds(h, t, s, m - 1)
    BY <1>2, <2>1
  <2>3. \E g : Folds(g, t, s, m - 1 + 1)
    BY <2>1, <2>2, FoldOneMore
  <2>4. \E g : Folds(g, t, s, m)
    BY <2>1, <2>3
  <2> QED BY <1>2, <2>4
<1> QED BY <1>3, <1>4

(* The fold of a sequence is what any such function gives for all of it.    *)
LEMMA PutIs ==
  ASSUME NEW n \in Nat, NEW t, NEW s, DOMAIN s = 1 .. n, NEW g, Folds(g, t, s, n)
  PROVE  Put(t, s) = g[1 .. n]
<1> DEFINE Is(h) == h = [T \in SUBSET (1 .. n) |-> IF T = {} THEN t ELSE Emit(h[T \ {Max(T)}], s[Max(T)])]
           iter == CHOOSE h : Is(h)
<1>1. Put(t, s) = iter[1 .. n]
  BY DEF Put, FoldLeft, MapThenFoldSet
<1>2. Is(g)
  BY DEF Folds
<1>3. Is(iter)
  BY <1>2
<1> HIDE DEF iter
<1>4. Folds(iter, t, s, n)
  BY <1>3 DEF Folds
<1>5. \A T \in SUBSET (1 .. n) : iter[T] = g[T]
  BY <1>4, FoldUnique
<1> QED BY <1>1, <1>5

(* No characters leave the terminal as it is.                               *)
LEMMA PutNone == ASSUME NEW t PROVE Put(t, <<>>) = t
<1>1. 1 .. 0 = {} /\ DOMAIN <<>> = 1 .. 0 /\ 0 \in Nat
  OBVIOUS
<1>2. PICK g : Folds(g, t, <<>>, 0)
  BY <1>1, FoldExists
<1>3. Put(t, <<>>) = g[1 .. 0]
  BY <1>1, <1>2, PutIs
<1>4. g[{}] = t
  BY <1>1, <1>2 DEF Folds
<1> QED BY <1>1, <1>3, <1>4

(* The last character of a sequence acts last.                              *)
LEMMA PutMore ==
  ASSUME NEW V, NEW t, NEW s \in Seq(V), NEW c \in V
  PROVE  Put(t, Append(s, c)) = Emit(Put(t, s), c)
<1> DEFINE n == Len(s)
           u == Append(s, c)
<1>1. n \in Nat /\ DOMAIN s = 1 .. n /\ DOMAIN u = 1 .. n + 1 /\ u[n + 1] = c
      /\ \A i \in 1 .. n : u[i] = s[i]
  OBVIOUS
<1> HIDE DEF n, u
<1>2. PICK g : Folds(g, t, u, n)
  BY <1>1, FoldExists
<1> DEFINE h == [T \in SUBSET (1 .. n + 1) |->
                  IF n + 1 \in T THEN Emit(g[T \ {n + 1}], u[n + 1]) ELSE g[T]]
<1>3. Folds(h, t, u, n + 1)
  <2>1. n \in Nat
    BY <1>1
  <2> QED BY ONLY <1>2, <2>1, FoldOneMore, Zenon
<1>4. n + 1 \in Nat
  BY <1>1
<1>5. h[1 .. n + 1] = Emit(g[1 .. n], u[n + 1])
  <2>1. n + 1 \in 1 .. n + 1 /\ (1 .. n + 1) \ {n + 1} = 1 .. n
    BY <1>1
  <2> QED BY <2>1
<1> HIDE DEF h
<1>6. Put(t, u) = h[1 .. n + 1]
  BY <1>1, <1>3, <1>4, PutIs
<1>7. Folds(g, t, s, n)
  <2>1. \A T \in SUBSET (1 .. n) : T # {} => u[Max(T)] = s[Max(T)]
    BY <1>1, MaxIsIn
  <2>2. \A T \in SUBSET (1 .. n) :
          (IF T = {} THEN t ELSE Emit(g[T \ {Max(T)}], u[Max(T)]))
            = (IF T = {} THEN t ELSE Emit(g[T \ {Max(T)}], s[Max(T)]))
    BY <2>1
  <2>3. [T \in SUBSET (1 .. n) |-> IF T = {} THEN t ELSE Emit(g[T \ {Max(T)}], u[Max(T)])]
        = [T \in SUBSET (1 .. n) |-> IF T = {} THEN t ELSE Emit(g[T \ {Max(T)}], s[Max(T)])]
    BY <2>2, Zenon
  <2> QED BY <1>2, <2>3, Zenon DEF Folds
<1>8. Put(t, s) = g[1 .. n]
  BY <1>1, <1>7, PutIs
<1> QED BY <1>1, <1>5, <1>6, <1>8 DEF u

(* One character.                                                           *)
LEMMA PutOne == ASSUME NEW t, NEW c PROVE Put(t, <<c>>) = Emit(t, c)
<1> DEFINE W == {c}
           e == <<>>
<1>1. e \in Seq(W) /\ c \in W
  OBVIOUS
<1>3. Append(<<>>, c) = <<c>>
  OBVIOUS
<1>2. Put(t, Append(e, c)) = Emit(Put(t, e), c)
  <2> HIDE DEF W, e
  <2> QED BY <1>1, PutMore
<1> QED BY <1>2, <1>3, PutNone

-----------------------------------------------------------------------------
(***************************************************************************)
(* Lines of the terminal and writing over them                             *)
(***************************************************************************)

(* r is s with u behind it.                                                 *)
IsCat(r, s, u) ==
  /\ Len(r) = Len(s) + Len(u)
  /\ \A i \in 1 .. Len(s) : r[i] = s[i]
  /\ \A i \in 1 .. Len(u) : r[Len(s) + i] = u[i]

(* What a concatenation holds.                                              *)
LEMMA Cat ==
  ASSUME NEW V, NEW s \in Seq(V), NEW u \in Seq(V)
  PROVE  s \o u \in Seq(V) /\ IsCat(s \o u, s, u)
BY ConcatProperties DEF IsCat

(* A sequence of one.                                                       *)
LEMMA OneType ==
  ASSUME NEW V, NEW c \in V
  PROVE  <<c>> \in Seq(V) /\ Len(<<c>>) = 1 /\ <<c>>[1] = c
OBVIOUS

Controls == {"BS", "CR", "LF"}
At(l, k) == [line |-> l, col |-> k]

(* The line l with u written over it from column k on.                      *)
Longer(m, n) == IF m >= n THEN m ELSE n
Over(l, k, u) ==
  [i \in 1 .. Longer(Len(l), k + Len(u)) |-> IF i \in k + 1 .. k + Len(u) THEN u[i - k] ELSE l[i]]

IsOver(o, l, k, u) ==
  /\ Len(o) >= Len(l) /\ Len(o) >= k + Len(u) /\ (Len(o) = Len(l) \/ Len(o) = k + Len(u))
  /\ \A i \in 1 .. Len(u) : o[k + i] = u[i]
  /\ \A i \in 1 .. Len(o) : i <= k \/ i > k + Len(u) => o[i] = l[i]

(* A line written over has characters of the same set.                      *)
LEMMA OverType ==
  ASSUME NEW V, NEW l \in Seq(V), NEW k \in 0 .. Len(l), NEW u \in Seq(V)
  PROVE  Over(l, k, u) \in Seq(V) /\ IsOver(Over(l, k, u), l, k, u)
<1> DEFINE n == Longer(Len(l), k + Len(u))
           o == Over(l, k, u)
<1>1. n \in Nat /\ k \in Nat /\ Len(l) \in Nat /\ Len(u) \in Nat /\ n >= Len(l) /\ n >= k + Len(u)
      /\ (n = Len(l) \/ n = k + Len(u)) /\ k <= Len(l)
  BY DEF Longer
<1>2. o = [i \in 1 .. n |-> IF i \in k + 1 .. k + Len(u) THEN u[i - k] ELSE l[i]]
  BY DEF Over
<1> HIDE DEF n, o
<1>3. \A i \in 1 .. n : (IF i \in k + 1 .. k + Len(u) THEN u[i - k] ELSE l[i]) \in V
  <2> SUFFICES ASSUME NEW i \in 1 .. n
      PROVE  (IF i \in k + 1 .. k + Len(u) THEN u[i - k] ELSE l[i]) \in V
    OBVIOUS
  <2>1. CASE i \in k + 1 .. k + Len(u)
    <3>1. i - k \in 1 .. Len(u)
      BY <1>1, <2>1
    <3> QED BY <2>1, <3>1
  <2>2. CASE i \notin k + 1 .. k + Len(u)
    <3>1. i \in 1 .. Len(l)
      BY <1>1, <2>2
    <3> QED BY <2>2, <3>1
  <2> QED BY <2>1, <2>2
<1>4. o \in [1 .. n -> V]
  BY <1>2, <1>3
<1>5. o \in Seq(V) /\ Len(o) = n
  BY <1>1, <1>4, IsASeq, LenProperties
<1>6. \A i \in 1 .. Len(u) : o[k + i] = u[i]
  <2>1. \A i \in 1 .. Len(u) : k + i \in 1 .. n /\ k + i \in k + 1 .. k + Len(u) /\ (k + i) - k = i
    BY <1>1
  <2> QED BY <1>2, <2>1
<1>7. \A i \in 1 .. n : i <= k \/ i > k + Len(u) => o[i] = l[i]
  <2>1. \A i \in 1 .. n : i <= k \/ i > k + Len(u) => i \notin k + 1 .. k + Len(u)
    BY <1>1
  <2> QED BY <1>2, <2>1
<1> QED BY <1>1, <1>5, <1>6, <1>7 DEF o, IsOver

(* A character that is not a control character is written over the line.    *)
LEMMA EmitText ==
  ASSUME NEW V, NEW l \in Seq(V), NEW k \in 0 .. Len(l), NEW c \in V \ Controls
  PROVE  Emit(At(l, k), c) = At(Over(l, k, <<c>>), k + 1)
<1> DEFINE a == SubSeq(l, 1, k)
           b == SubSeq(l, k + 2, Len(l))
           q == <<c>>
           o == Over(l, k, q)
           d == a \o q
           e == d \o b
<1>1. Emit(At(l, k), c) = At(e, k + 1)
  BY DEF Emit, At, Controls
<1>2. a \in Seq(V) /\ Len(a) = k /\ \A i \in 1 .. k : a[i] = l[i]
  OBVIOUS
<1>3. q \in Seq(V) /\ Len(q) = 1 /\ q[1] = c
  BY OneType
<1>4. b \in Seq(V) /\ Len(b) = (IF k + 2 <= Len(l) THEN Len(l) - k - 1 ELSE 0)
      /\ \A i \in 1 .. Len(b) : b[i] = l[k + 1 + i]
  OBVIOUS
<1> HIDE DEF a, b, q
<1>5. o \in Seq(V) /\ IsOver(o, l, k, q)
  BY <1>3, OverType, Zenon
<1> HIDE DEF o
<1>6. d \in Seq(V) /\ IsCat(d, a, q)
  BY <1>2, <1>3, Cat, Zenon
<1> HIDE DEF d
<1>7. e \in Seq(V) /\ IsCat(e, d, b)
  BY <1>4, <1>6, Cat, Zenon
<1> HIDE DEF e
<1> USE DEF IsCat, IsOver
<1>8. /\ Len(e) = Len(d) + Len(b) /\ Len(d) = k + 1 /\ Len(e) = Len(o)
      /\ Len(e) \in Nat /\ Len(b) \in Nat /\ k \in Nat /\ k <= Len(l) /\ Len(l) \in Nat
  <2>1. /\ Len(d) = Len(a) + Len(q) /\ Len(e) = Len(d) + Len(b) /\ Len(a) = k /\ Len(q) = 1
        /\ Len(o) >= Len(l) /\ Len(o) >= k + 1 /\ (Len(o) = Len(l) \/ Len(o) = k + 1)
    BY <1>2, <1>3, <1>5, <1>6, <1>7
  <2>2. Len(b) = IF k + 2 <= Len(l) THEN Len(l) - k - 1 ELSE 0
    BY <1>4
  <2>3. k \in Nat /\ k <= Len(l) /\ Len(l) \in Nat
    OBVIOUS
  <2>4. Len(b) \in Nat /\ Len(o) \in Nat
    BY <1>4, <1>5
  <2>5. \A L, O, B \in Nat :
          B = (IF k + 2 <= L THEN L - k - 1 ELSE 0) /\ k <= L
          /\ O >= L /\ O >= k + 1 /\ (O = L \/ O = k + 1) => (k + 1) + B = O
    BY <2>3
  <2>6. (k + 1) + Len(b) = Len(o)
    BY ONLY <2>1, <2>2, <2>3, <2>4, <2>5, Zenon
  <2>7. Len(d) = k + 1
    BY <2>1
  <2> QED BY ONLY <2>1, <2>3, <2>4, <2>6, <2>7
<1>9. \A i \in 1 .. Len(e) : e[i] = o[i]
  <2> SUFFICES ASSUME NEW i \in 1 .. Len(e) PROVE e[i] = o[i]
    OBVIOUS
  <2>1. CASE i <= k
    <3>1. i \in 1 .. Len(d) /\ i \in 1 .. Len(a) /\ i \in 1 .. k /\ i \in 1 .. Len(o)
      BY <1>2, <1>5, <1>8, <2>1
    <3> QED BY <1>2, <1>5, <1>6, <1>7, <2>1, <3>1
  <2>2. CASE i = k + 1
    <3>1. i \in 1 .. Len(d) /\ i = Len(a) + 1 /\ 1 \in 1 .. Len(q)
      BY <1>2, <1>3, <1>8, <2>2
    <3>2. e[i] = d[i] /\ d[Len(a) + 1] = q[1] /\ o[k + 1] = q[1]
      BY <1>5, <1>6, <1>7, <3>1
    <3> QED BY <2>2, <3>1, <3>2
  <2>3. CASE i > k + 1
    <3> DEFINE j == i - (k + 1)
    <3>1. j \in 1 .. Len(b) /\ i = Len(d) + j /\ i = k + 1 + j /\ i \in 1 .. Len(o) /\ i > k + Len(q)
      BY ONLY <1>3, <1>8, <2>3, i \in 1 .. Len(e)
    <3> HIDE DEF j
    <3>2. e[Len(d) + j] = b[j] /\ b[j] = l[k + 1 + j] /\ o[i] = l[i]
      BY <1>4, <1>5, <1>7, <3>1
    <3> QED BY <3>1, <3>2
  <2> QED BY <2>1, <2>2, <2>3
<1>10. e = o
  BY <1>5, <1>7, <1>8, <1>9, SeqEqual
<1> QED BY <1>1, <1>10 DEF o, e, d, q

(* Writing over a line character by character.                              *)
LEMMA OverMore ==
  ASSUME NEW V, NEW l \in Seq(V), NEW k \in 0 .. Len(l), NEW u \in Seq(V), NEW c \in V
  PROVE  Over(Over(l, k, u), k + Len(u), <<c>>) = Over(l, k, Append(u, c))
<1> DEFINE o == Over(l, k, u)
           m == k + Len(u)
           x == Append(u, c)
           q == <<c>>
           a == Over(o, m, q)
           b == Over(l, k, x)
<1>1. o \in Seq(V) /\ IsOver(o, l, k, u)
  BY OverType, Zenon
<1>2. q \in Seq(V) /\ Len(q) = 1 /\ q[1] = c
  BY OneType
<1>3. x \in Seq(V) /\ Len(x) = Len(u) + 1 /\ x[Len(u) + 1] = c /\ \A i \in 1 .. Len(u) : x[i] = u[i]
  OBVIOUS
<1>4. Len(u) \in Nat /\ Len(l) \in Nat /\ k \in Nat /\ m = k + Len(u) /\ k <= Len(l)
  OBVIOUS
<1> HIDE DEF o, x, q
<1>5. m \in 0 .. Len(o)
  BY <1>1, <1>4 DEF IsOver
<1> HIDE DEF m
<1>6. a \in Seq(V) /\ IsOver(a, o, m, q)
  BY <1>1, <1>2, <1>5, OverType, Zenon
<1>7. b \in Seq(V) /\ IsOver(b, l, k, x)
  BY <1>3, OverType, Zenon
<1> HIDE DEF a, b
<1> USE DEF IsOver
<1>8. Len(a) = Len(b) /\ Len(a) \in Nat
  BY <1>1, <1>2, <1>3, <1>4, <1>6, <1>7
<1>9. \A i \in 1 .. Len(a) : a[i] = b[i]
  <2> SUFFICES ASSUME NEW i \in 1 .. Len(a) PROVE a[i] = b[i]
    OBVIOUS
  <2>1. CASE i = m + 1
    <3>1. i = k + (Len(u) + 1) /\ Len(u) + 1 \in 1 .. Len(x) /\ 1 \in 1 .. Len(q)
      BY <1>2, <1>3, <1>4, <2>1
    <3>2. a[m + 1] = q[1] /\ b[k + (Len(u) + 1)] = x[Len(u) + 1]
      BY <1>6, <1>7, <3>1
    <3> QED BY <1>2, <1>3, <2>1, <3>1, <3>2
  <2>2. CASE i > k /\ i <= m
    <3> DEFINE j == i - k
    <3>1. j \in 1 .. Len(u) /\ j \in 1 .. Len(x) /\ i = k + j
      BY <1>3, <1>4, <2>2
    <3> HIDE DEF j
    <3>2. a[i] = o[i] /\ o[k + j] = u[j] /\ b[k + j] = x[j] /\ x[j] = u[j]
      BY <1>1, <1>3, <1>6, <1>7, <2>2, <3>1
    <3> QED BY <3>1, <3>2
  <2>3. CASE i <= k \/ i > m + 1
    <3>0. /\ Len(q) = 1 /\ Len(x) = Len(u) + 1 /\ m = k + Len(u) /\ Len(u) \in Nat /\ k \in Nat
          /\ Len(o) \in Nat /\ (Len(a) = Len(o) \/ Len(a) = m + 1) /\ k <= Len(l) /\ Len(l) <= Len(o)
          /\ Len(l) \in Nat /\ Len(a) = Len(b)
      BY <1>1, <1>2, <1>3, <1>4, <1>6, <1>8
    <3>1. (i <= m \/ i > m + Len(q)) /\ (i <= k \/ i > m) /\ (i <= k \/ i > k + Len(x)) /\ i \in 1 .. Len(o) /\ i \in 1 .. Len(b)
      BY ONLY <3>0, <2>3, i \in 1 .. Len(a)
    <3>2. a[i] = o[i] /\ o[i] = l[i] /\ b[i] = l[i]
      BY <1>1, <1>6, <1>7, <3>0, <3>1
    <3> QED BY <3>2
  <2>4. i = m + 1 \/ (i > k /\ i <= m) \/ i <= k \/ i > m + 1
    BY <1>4
  <2> QED BY <2>1, <2>2, <2>3, <2>4
<1>10. a = b
  BY <1>6, <1>7, <1>8, <1>9, SeqEqual
<1> QED BY <1>10 DEF a, b, o, m, x, q

(* The beginnings of a sequence.                                            *)
LEMMA Beginnings ==
  ASSUME NEW V, NEW u \in Seq(V)
  PROVE  /\ SubSeq(u, 1, 0) = <<>>
         /\ SubSeq(u, 1, Len(u)) = u
         /\ \A k \in 0 .. Len(u) - 1 :
              /\ SubSeq(u, 1, k) \in Seq(V) /\ Len(SubSeq(u, 1, k)) = k
              /\ u[k + 1] \in V
              /\ SubSeq(u, 1, k + 1) = Append(SubSeq(u, 1, k), u[k + 1])
<1>1. SubSeq(u, 1, 0) = <<>> /\ SubSeq(u, 1, Len(u)) = u
  OBVIOUS
<1>2. ASSUME NEW k \in 0 .. Len(u) - 1
      PROVE  /\ SubSeq(u, 1, k) \in Seq(V) /\ Len(SubSeq(u, 1, k)) = k
             /\ u[k + 1] \in V
             /\ SubSeq(u, 1, k + 1) = Append(SubSeq(u, 1, k), u[k + 1])
  <2> DEFINE a == SubSeq(u, 1, k)
             b == SubSeq(u, 1, k + 1)
             c == u[k + 1]
  <2>1. c \in V /\ a \in Seq(V) /\ Len(a) = k /\ (\A i \in 1 .. k : a[i] = u[i])
    OBVIOUS
  <2>2. b \in Seq(V) /\ Len(b) = k + 1 /\ (\A i \in 1 .. k + 1 : b[i] = u[i])
    OBVIOUS
  <2>3. c = u[k + 1]
    OBVIOUS
  <2> HIDE DEF a, b, c
  <2>4. Append(a, c) \in Seq(V) /\ Len(Append(a, c)) = k + 1
        /\ (\A i \in 1 .. k : Append(a, c)[i] = a[i]) /\ Append(a, c)[k + 1] = c
    BY <2>1
  <2>5. \A i \in 1 .. k + 1 : i \in 1 .. k \/ i = k + 1
    OBVIOUS
  <2>6. \A i \in 1 .. k + 1 : b[i] = Append(a, c)[i]
    BY <2>1, <2>2, <2>3, <2>4, <2>5
  <2>7. b = Append(a, c)
    BY <2>2, <2>4, <2>6, SeqEqual
  <2> QED BY <2>1, <2>7 DEF a, b, c
<1> QED BY <1>1, <1>2

(* One sequence of characters after another.                                *)
LEMMA PutTwo ==
  ASSUME NEW V, NEW t, NEW s \in Seq(V), NEW u \in Seq(V)
  PROVE  Put(t, s \o u) = Put(Put(t, s), u)
<1> DEFINE P == {k \in 0 .. Len(u) : Put(t, s \o SubSeq(u, 1, k)) = Put(Put(t, s), SubSeq(u, 1, k))}
           e == <<>>
<1>1. 0 \in P
  <2>1. SubSeq(u, 1, 0) = e
    BY Beginnings
  <2>2. s \o e = s
    OBVIOUS
  <2>3. Put(Put(t, s), e) = Put(t, s)
    BY PutNone
  <2> HIDE DEF e
  <2>4. 0 \in 0 .. Len(u)
    OBVIOUS
  <2> QED BY <2>1, <2>2, <2>3, <2>4
<1>2. ASSUME NEW k \in 0 .. Len(u) - 1, k \in P PROVE k + 1 \in P
  <2> DEFINE a == SubSeq(u, 1, k)
             c == u[k + 1]
             b == SubSeq(u, 1, k + 1)
             d == s \o a
  <2>1. a \in Seq(V) /\ c \in V /\ b = Append(a, c)
    BY Beginnings
  <2>2. Put(t, d) = Put(Put(t, s), a)
    BY <1>2
  <2>3. k + 1 \in 0 .. Len(u)
    OBVIOUS
  <2> HIDE DEF a, b, c
  <2>4. d \in Seq(V) /\ s \o Append(a, c) = Append(d, c)
    BY <2>1
  <2> HIDE DEF d
  <2>8. a \in Seq(V) /\ c \in V /\ d \in Seq(V)
    BY <2>1, <2>4
  <2>5. Put(t, Append(d, c)) = Emit(Put(t, d), c)
    BY ONLY <2>8, PutMore
  <2>6. Put(Put(t, s), Append(a, c)) = Emit(Put(Put(t, s), a), c)
    BY ONLY <2>8, PutMore
  <2>7. Put(t, s \o b) = Put(Put(t, s), b)
    BY <2>1, <2>2, <2>4, <2>5, <2>6, Zenon
  <2> QED BY <2>3, <2>7 DEF b
<1>3. Len(u) \in Nat /\ SubSeq(u, 1, Len(u)) = u
  BY Beginnings
<1>4. Len(u) \in P
  <2> HIDE DEF P
  <2> QED BY <1>1, <1>2, <1>3, UpTo
<1> QED BY <1>3, <1>4

(* No characters change nothing.                                            *)
LEMMA OverNone ==
  ASSUME NEW V, NEW l \in Seq(V), NEW k \in 0 .. Len(l), NEW e, e = <<>>
  PROVE  Over(l, k, e) = l
<1>1. e \in Seq(V) /\ Len(e) = 0
  OBVIOUS
<1> DEFINE o == Over(l, k, e)
<1>2. o \in Seq(V) /\ IsOver(o, l, k, e)
  BY <1>1, OverType, Zenon
<1> HIDE DEF o
<1>3. Len(o) >= Len(l) /\ (Len(o) = Len(l) \/ Len(o) = k)
  BY <1>1, <1>2 DEF IsOver
<1>4. Len(o) = Len(l) /\ Len(o) \in Nat
  BY <1>2, <1>3
<1>5. \A i \in 1 .. Len(o) : o[i] = l[i]
  <2>1. \A i \in 1 .. Len(o) : i <= k \/ i > k + Len(e)
    BY <1>1, <1>4
  <2> QED BY <1>2, <2>1 DEF IsOver
<1>6. o = l
  BY <1>2, <1>4, <1>5, SeqEqual
<1> QED BY <1>6 DEF o

(* Characters that are not control characters are written over the line.    *)
LEMMA PutText ==
  ASSUME NEW V, NEW l \in Seq(V), NEW k \in 0 .. Len(l), NEW u \in Seq(V \ Controls)
  PROVE  Put(At(l, k), u) = At(Over(l, k, u), k + Len(u))
<1> DEFINE W == V \ Controls
           P == {j \in 0 .. Len(u) :
                   Put(At(l, k), SubSeq(u, 1, j)) = At(Over(l, k, SubSeq(u, 1, j)), k + j)}
           e == <<>>
<1>1. 0 \in P
  <2>1. SubSeq(u, 1, 0) = e
    BY Beginnings
  <2>2. Over(l, k, e) = l
    BY OverNone
  <2>3. Put(At(l, k), e) = At(l, k)
    BY PutNone
  <2>4. 0 \in 0 .. Len(u) /\ k + 0 = k
    OBVIOUS
  <2> HIDE DEF e
  <2> QED BY <2>1, <2>2, <2>3, <2>4
<1>2. ASSUME NEW j \in 0 .. Len(u) - 1, j \in P PROVE j + 1 \in P
  <2> DEFINE a == SubSeq(u, 1, j)
             c == u[j + 1]
             b == SubSeq(u, 1, j + 1)
             o == Over(l, k, a)
             m == k + j
  <2>1. a \in Seq(W) /\ c \in W /\ b = Append(a, c) /\ Len(a) = j
    BY Beginnings
  <2>2. Put(At(l, k), a) = At(o, m)
    BY <1>2
  <2>3. j + 1 \in 0 .. Len(u) /\ k + (j + 1) = m + 1 /\ j \in Nat /\ k \in Nat
    OBVIOUS
  <2> HIDE DEF a, b, c
  <2>4. a \in Seq(V) /\ c \in V
    BY <2>1
  <2>5. o \in Seq(V) /\ IsOver(o, l, k, a)
    BY <2>4, OverType, Zenon
  <2>6. Over(o, k + Len(a), <<c>>) = Over(l, k, Append(a, c))
    BY <2>4, OverMore, Zenon
  <2> HIDE DEF o
  <2>7. m \in 0 .. Len(o)
    BY <2>1, <2>3, <2>5 DEF IsOver
  <2>8. Emit(At(o, m), c) = At(Over(o, m, <<c>>), m + 1)
    BY <2>1, <2>5, <2>7, EmitText, Zenon
  <2>9. Put(At(l, k), Append(a, c)) = Emit(Put(At(l, k), a), c)
    BY ONLY <2>4, PutMore
  <2>10. Over(o, m, <<c>>) = Over(l, k, Append(a, c))
    BY <2>1, <2>6
  <2>11. Put(At(l, k), b) = At(Over(l, k, b), k + (j + 1))
    BY <2>1, <2>2, <2>3, <2>8, <2>9, <2>10, Zenon
  <2> QED BY <2>3, <2>11 DEF b
<1>3. Len(u) \in Nat /\ SubSeq(u, 1, Len(u)) = u
  BY Beginnings
<1>4. Len(u) \in P
  <2> HIDE DEF P
  <2> QED BY <1>1, <1>2, <1>3, UpTo
<1> QED BY <1>3, <1>4

(* The same character n times and once more.                                *)
LEMMA TimesMore ==
  ASSUME NEW n \in Nat, NEW c
  PROVE  Times(n, c) \in Seq({c}) /\ Len(Times(n, c)) = n /\ Times(n + 1, c) = Append(Times(n, c), c)
<1> DEFINE a == Times(n, c)
           b == Times(n + 1, c)
           x == Append(a, c)
           W == {c}
<1>1. \A m \in Nat : Times(m, c) \in Seq(W) /\ Len(Times(m, c)) = m /\ \A i \in 1 .. m : Times(m, c)[i] = c
  <2> SUFFICES ASSUME NEW m \in Nat
      PROVE  Times(m, c) \in Seq(W) /\ Len(Times(m, c)) = m /\ \A i \in 1 .. m : Times(m, c)[i] = c
    OBVIOUS
  <2>1. Times(m, c) \in [1 .. m -> W] /\ \A i \in 1 .. m : Times(m, c)[i] = c
    BY DEF Times
  <2> HIDE DEF W
  <2>2. Times(m, c) \in Seq(W)
    BY <2>1, IsASeq
  <2> QED BY <2>1, <2>2, LenProperties
<1>2. n + 1 \in Nat /\ c \in W
  OBVIOUS
<1>3. a \in Seq(W) /\ Len(a) = n /\ \A i \in 1 .. n : a[i] = c
  BY <1>1
<1>4. b \in Seq(W) /\ Len(b) = n + 1 /\ \A i \in 1 .. n + 1 : b[i] = c
  BY <1>1, <1>2
<1> HIDE DEF W, a, b
<1>5. x \in Seq(W) /\ Len(x) = n + 1 /\ x[n + 1] = c /\ \A i \in 1 .. n : x[i] = a[i]
  BY <1>2, <1>3
<1> HIDE DEF x
<1>6. \A i \in 1 .. n + 1 : i \in 1 .. n \/ i = n + 1
  OBVIOUS
<1>7. \A i \in 1 .. n + 1 : b[i] = x[i]
  BY <1>3, <1>4, <1>5, <1>6
<1>8. b = x
  BY <1>2, <1>4, <1>5, <1>7, SeqEqual
<1> QED BY <1>3, <1>8 DEF a, b, x, W

(* A character repeated is a sequence of it.                                *)
LEMMA TimesType ==
  ASSUME NEW V, NEW c \in V, NEW n \in Nat
  PROVE  Times(n, c) \in Seq(V) /\ Len(Times(n, c)) = n
<1>1. Times(n, c) \in [1 .. n -> V]
  BY DEF Times
<1>2. Times(n, c) \in Seq(V)
  BY <1>1, IsASeq
<1> QED BY <1>1, <1>2, LenProperties

(* Backspaces move the cursor back.                                         *)
LEMMA PutBack ==
  ASSUME NEW l, NEW k \in Nat, NEW n \in 0 .. k
  PROVE  Put(At(l, k), Times(n, "BS")) = At(l, k - n)
<1> DEFINE P == {j \in 0 .. n : Put(At(l, k), Times(j, "BS")) = At(l, k - j)}
           e == <<>>
<1>1. 0 \in P
  <2>1. Times(0, "BS") = e
    BY DEF Times
  <2>2. Put(At(l, k), e) = At(l, k)
    BY PutNone
  <2>3. 0 \in 0 .. n /\ k - 0 = k
    OBVIOUS
  <2> HIDE DEF e
  <2> QED BY <2>1, <2>2, <2>3
<1>2. ASSUME NEW j \in 0 .. n - 1, j \in P PROVE j + 1 \in P
  <2> DEFINE a == Times(j, "BS")
             W == {"BS"}
             c == "BS"
             m == k - j
  <2>1. a \in Seq(W) /\ Times(j + 1, c) = Append(a, c) /\ c \in W
    <3>1. j \in Nat
      OBVIOUS
    <3>2. Times(j, "BS") \in Seq({"BS"}) /\ Times(j + 1, "BS") = Append(Times(j, "BS"), "BS")
      BY <3>1, TimesMore, Zenon
    <3>3. c \in W
      OBVIOUS
    <3> QED BY <3>2, <3>3, Zenon DEF a, W, c
  <2>2. Put(At(l, k), a) = At(l, m)
    BY <1>2
  <2>3. Emit(At(l, m), c) = At(l, m - 1)
    <3>1. m > 0
      OBVIOUS
    <3> HIDE DEF m
    <3> QED BY <3>1 DEF Emit, At
  <2>4. Put(At(l, k), Append(a, c)) = Emit(Put(At(l, k), a), c)
    <3> HIDE DEF a, W, c
    <3>1. a \in Seq(W) /\ c \in W
      BY <2>1
    <3> QED BY ONLY <3>1, PutMore
  <2>5. m - 1 = k - (j + 1) /\ j + 1 \in 0 .. n
    OBVIOUS
  <2> HIDE DEF a, c, m
  <2>6. Put(At(l, k), Times(j + 1, c)) = At(l, k - (j + 1))
    BY <2>1, <2>2, <2>3, <2>4, <2>5, Zenon
  <2> QED BY <2>5, <2>6 DEF c
<1>3. n \in Nat
  OBVIOUS
<1>4. n \in P
  <2> HIDE DEF P
  <2> QED BY <1>1, <1>2, <1>3, UpTo
<1> QED BY <1>4

(* A carriage return moves the cursor to the start of the line.             *)
LEMMA PutCR == ASSUME NEW l, NEW k \in Nat PROVE Put(At(l, k), <<"CR">>) = At(l, 0)
<1>1. Emit(At(l, k), "CR") = At(l, 0)
  BY DEF Emit, At
<1> QED BY <1>1, PutOne

(* A line feed starts an empty line.                                        *)
LEMMA PutLF == ASSUME NEW t PROVE Put(t, <<"LF">>) = At(<<>>, 0)
<1>1. Emit(t, "LF") = At(<<>>, 0)
  BY DEF Emit, At
<1> QED BY <1>1, PutOne

(* One backspace.                                                           *)
LEMMA PutBS == ASSUME NEW l, NEW k \in Nat, k > 0 PROVE Put(At(l, k), <<"BS">>) = At(l, k - 1)
<1>1. Emit(At(l, k), "BS") = At(l, k - 1)
  BY DEF Emit, At
<1> QED BY <1>1, PutOne

-----------------------------------------------------------------------------
(***************************************************************************)
(* A terminal that shows a text                                            *)
(***************************************************************************)

(* Nothing but spaces on the line behind m; the text on the line.           *)
Blank(l, m) == \A i \in m + 1 .. Len(l) : l[i] = Space
OnLine(l, s) == Len(s) <= Len(l) /\ (\A i \in 1 .. Len(s) : l[i] = s[i]) /\ Blank(l, Len(s))

(* The terminal shows s with its cursor behind the first k characters.      *)
Shown(V, t, s, k) == \E l \in Seq(V) : t = At(l, k) /\ OnLine(l, s)

(* Spaces behind a column are spaces behind a later one.                    *)
LEMMA BlankBehind ==
  ASSUME NEW V, NEW l \in Seq(V), NEW m \in Nat, NEW n \in Nat, m <= n, Blank(l, m)
  PROVE  Blank(l, n)
BY DEF Blank

(* Writing before the spaces leaves them.                                   *)
LEMMA OverBlank ==
  ASSUME NEW V, NEW l \in Seq(V), NEW k \in 0 .. Len(l), NEW u \in Seq(V),
         NEW m \in Nat, k + Len(u) <= m, Blank(l, m)
  PROVE  Blank(Over(l, k, u), m)
<1> DEFINE o == Over(l, k, u)
<1>1. o \in Seq(V) /\ IsOver(o, l, k, u)
  BY OverType, Zenon
<1> HIDE DEF o
<1>2. ASSUME NEW i \in m + 1 .. Len(o) PROVE o[i] = Space
  <2>1. Len(o) \in Nat /\ Len(l) \in Nat /\ Len(u) \in Nat /\ k \in Nat /\ (Len(o) = Len(l) \/ Len(o) = k + Len(u))
    BY <1>1 DEF IsOver
  <2>2. i \in 1 .. Len(o) /\ i > k + Len(u) /\ i \in m + 1 .. Len(l)
    BY <2>1
  <2> QED BY <1>1, <2>2 DEF IsOver, Blank
<1> QED BY <1>2 DEF o, Blank

(* Writing spaces up to the spaces makes more of them.                      *)
LEMMA OverSpaces ==
  ASSUME NEW V, Space \in V, NEW l \in Seq(V), NEW k \in 0 .. Len(l), NEW n \in Nat, Blank(l, k + n)
  PROVE  Blank(Over(l, k, Times(n, Space)), k)
<1> DEFINE u == Times(n, Space)
           o == Over(l, k, u)
<1>1. u \in Seq(V) /\ Len(u) = n
  BY TimesType
<1>2. \A i \in 1 .. n : u[i] = Space
  BY DEF Times
<1> HIDE DEF u
<1>4. o \in Seq(V) /\ IsOver(o, l, k, u)
  BY <1>1, OverType, Zenon
<1> HIDE DEF o
<1>5. ASSUME NEW i \in k + 1 .. Len(o) PROVE o[i] = Space
  <2>1. Len(o) \in Nat /\ Len(l) \in Nat /\ k \in Nat /\ (Len(o) = Len(l) \/ Len(o) = k + n)
    BY <1>1, <1>4 DEF IsOver
  <2>2. CASE i <= k + n
    <3> DEFINE j == i - k
    <3>1. j \in 1 .. n /\ i = k + j
      BY <2>1, <2>2
    <3> HIDE DEF j
    <3>2. o[k + j] = u[j]
      BY <1>1, <1>4, <3>1 DEF IsOver
    <3> QED BY <1>2, <3>1, <3>2
  <2>3. CASE i > k + n
    <3>1. i \in 1 .. Len(o) /\ i > k + Len(u) /\ i \in k + n + 1 .. Len(l)
      BY <1>1, <2>1, <2>3
    <3>2. o[i] = l[i]
      BY <1>4, <3>1 DEF IsOver
    <3> QED BY <3>1, <3>2 DEF Blank
  <2>4. i <= k + n \/ i > k + n
    BY <2>1
  <2> QED BY <2>2, <2>3, <2>4
<1> QED BY <1>5 DEF o, u, Blank

(* Writing a text over a shorter one that ends in spaces shows the text.    *)
LEMMA OverAll ==
  ASSUME NEW V, NEW l \in Seq(V), NEW u \in Seq(V), Blank(l, Len(u))
  PROVE  Over(l, 0, u) \in Seq(V) /\ OnLine(Over(l, 0, u), u)
<1> DEFINE o == Over(l, 0, u)
<1>1. 0 \in 0 .. Len(l) /\ 0 + Len(u) = Len(u) /\ Len(u) \in Nat
  OBVIOUS
<1>2. o \in Seq(V) /\ IsOver(o, l, 0, u)
  BY <1>1, OverType, Zenon
<1>3. Blank(o, Len(u))
  BY <1>1, OverBlank
<1> HIDE DEF o
<1>4. Len(o) >= Len(u)
  BY <1>1, <1>2 DEF IsOver
<1>5. \A i \in 1 .. Len(u) : o[i] = u[i]
  <2>1. \A i \in 1 .. Len(u) : o[0 + i] = u[i]
    BY <1>2 DEF IsOver
  <2>2. \A i \in 1 .. Len(u) : 0 + i = i
    OBVIOUS
  <2> QED BY <2>1, <2>2
<1> QED BY <1>2, <1>3, <1>4, <1>5 DEF OnLine, o

-----------------------------------------------------------------------------

(* After a line feed the empty text is shown.                               *)
LEMMA ShownLF == ASSUME NEW V, NEW t, NEW e, e = <<>> PROVE Shown(V, Put(t, <<"LF">>), e, 0)
<1>1. e \in Seq(V) /\ Len(e) = 0
  OBVIOUS
<1>2. Put(t, <<"LF">>) = At(e, 0)
  BY PutLF
<1>3. OnLine(e, e)
  BY <1>1 DEF OnLine, Blank
<1> QED BY <1>1, <1>2, <1>3 DEF Shown

(* Back to the start of the line, and the text written again.               *)
LEMMA ShownAgain ==
  ASSUME NEW V, NEW l \in Seq(V), NEW k \in Nat, NEW s \in Seq(V \ Controls),
         Blank(l, Len(s)), NEW n \in 0 .. Len(s), Controls \subseteq V
  PROVE  Shown(V, Put(At(l, k), <<"CR">> \o s \o Times(n, "BS")), s, Len(s) - n)
<1> DEFINE a == <<"CR">>
           b == a \o s
           x == Times(n, "BS")
           o == Over(l, 0, s)
<1>1. "CR" \in V /\ "BS" \in V /\ n \in Nat /\ Len(s) \in Nat /\ 0 + Len(s) = Len(s) /\ 0 \in 0 .. Len(l)
  BY DEF Controls
<1>2. s \in Seq(V)
  OBVIOUS
<1>3. a \in Seq(V)
  BY <1>1
<1>4. x \in Seq(V)
  BY <1>1, TimesType
<1>5. Put(At(l, k), a) = At(l, 0)
  BY PutCR
<1> HIDE DEF a, x
<1>6. b \in Seq(V) /\ Put(At(l, k), b) = Put(Put(At(l, k), a), s)
  BY <1>2, <1>3, PutTwo
<1>7. Put(At(l, 0), s) = At(o, 0 + Len(s))
  BY <1>1, PutText
<1> HIDE DEF b
<1>8. Put(At(l, k), b \o x) = Put(Put(At(l, k), b), x)
  BY <1>4, <1>6, PutTwo
<1>9. Put(At(o, Len(s)), x) = At(o, Len(s) - n)
  BY <1>1, PutBack DEF x
<1>10. o \in Seq(V) /\ OnLine(o, s)
  BY <1>2, OverAll
<1> HIDE DEF o
<1>11. Put(At(l, k), b \o x) = At(o, Len(s) - n)
  BY <1>1, <1>5, <1>6, <1>7, <1>8, <1>9
<1> QED BY <1>10, <1>11 DEF Shown, b, a, x

(* The same after its end has been wiped out.                               *)
LEMMA ShownShorter ==
  ASSUME NEW V, Space \in V, Controls \subseteq V,
         NEW t, NEW s0 \in Seq(V), NEW k \in Nat, Shown(V, t, s0, k),
         NEW s \in Seq(V \ Controls), NEW n \in Nat, Len(s) + n >= Len(s0), NEW m \in 0 .. Len(s)
  PROVE  Shown(V, Put(t, <<"CR">> \o s \o Times(n, Space) \o Times(n, "BS")
                         \o <<"CR">> \o s \o Times(m, "BS")), s, Len(s) - m)
<1>1. PICK l \in Seq(V) : t = At(l, k) /\ OnLine(l, s0)
  BY DEF Shown
<1> DEFINE a == <<"CR">>
           b == a \o s
           x == Times(n, Space)
           c == b \o x
           y == Times(n, "BS")
           d == c \o y
           e == d \o a
           f == e \o s
           z == Times(m, "BS")
           l1 == Over(l, 0, s)
           l2 == Over(l1, Len(s), x)
<1>2. "CR" \in V /\ "BS" \in V /\ Len(s) \in Nat /\ 0 + Len(s) = Len(s) /\ 0 \in 0 .. Len(l) /\ m \in Nat
  BY DEF Controls
<1>3. s \in Seq(V)
  OBVIOUS
<1>4. a \in Seq(V)
  BY <1>2
<1>5. Space \in V \ Controls
  BY DEF Controls, Space
<1>6. x \in Seq(V) /\ x \in Seq(V \ Controls) /\ Len(x) = n
  BY <1>5, TimesType
<1>7. y \in Seq(V)
  BY <1>2, TimesType
<1>8. z \in Seq(V)
  BY <1>2, TimesType
<1>9. Put(t, a) = At(l, 0)
  BY <1>1, PutCR
<1> HIDE DEF a, y, z
<1>10. b \in Seq(V) /\ Put(t, b) = Put(Put(t, a), s)
  BY <1>3, <1>4, PutTwo
<1> HIDE DEF b
<1>11. c \in Seq(V) /\ Put(t, c) = Put(Put(t, b), x)
  BY <1>6, <1>10, PutTwo
<1> HIDE DEF c
<1>12. d \in Seq(V) /\ Put(t, d) = Put(Put(t, c), y)
  BY <1>7, <1>11, PutTwo
<1> HIDE DEF d
<1>13. Put(At(l, 0), s) = At(l1, 0 + Len(s))
  BY <1>2, PutText
<1>14. l1 \in Seq(V) /\ IsOver(l1, l, 0, s)
  BY <1>2, <1>3, OverType, Zenon
<1>15. Blank(l1, Len(s) + n)
  <2>1. Len(s0) \in Nat /\ Len(s) + n \in Nat /\ Blank(l, Len(s0)) /\ 0 + Len(s) <= Len(s) + n
    BY <1>1, <1>2 DEF OnLine
  <2>2. Blank(l, Len(s) + n)
    BY <2>1, BlankBehind
  <2> QED BY <1>2, <1>3, <2>1, <2>2, OverBlank
<1> HIDE DEF l1
<1>16. Len(s) \in 0 .. Len(l1)
  BY <1>2, <1>14 DEF IsOver
<1>17. Put(At(l1, Len(s)), x) = At(l2, Len(s) + n)
  <2> HIDE DEF x, l2
  <2>1. Put(At(l1, Len(s)), x) = At(Over(l1, Len(s), x), Len(s) + Len(x))
    BY <1>6, <1>14, <1>16, PutText
  <2> QED BY <1>6, <2>1 DEF l2
<1>18. l2 \in Seq(V) /\ Blank(l2, Len(s))
  <2>1. l2 \in Seq(V)
    BY <1>6, <1>14, <1>16, OverType
  <2>2. Blank(l2, Len(s))
    BY <1>14, <1>15, <1>16, OverSpaces
  <2> QED BY <2>1, <2>2
<1> HIDE DEF x, l2
<1>19. Put(At(l2, Len(s) + n), y) = At(l2, Len(s))
  <2>1. Len(s) + n \in Nat /\ n \in 0 .. Len(s) + n /\ (Len(s) + n) - n = Len(s)
    BY <1>2
  <2> QED BY <2>1, PutBack DEF y
<1>20. Put(t, d) = At(l2, Len(s))
  BY <1>2, <1>9, <1>10, <1>11, <1>12, <1>13, <1>17, <1>19
<1>21. e \in Seq(V) /\ Put(t, e) = Put(Put(t, d), a)
  BY <1>4, <1>12, PutTwo
<1> HIDE DEF e
<1>22. f \in Seq(V) /\ Put(t, f) = Put(Put(t, e), s)
  BY <1>3, <1>21, PutTwo
<1> HIDE DEF f
<1>23. Put(t, f \o z) = Put(Put(t, f), z)
  BY <1>8, <1>22, PutTwo
<1> DEFINE g == a \o s
<1>24. g \in Seq(V) /\ Put(At(l2, Len(s)), g) = Put(Put(At(l2, Len(s)), a), s)
  BY <1>3, <1>4, PutTwo
<1> HIDE DEF g
<1>25. Put(At(l2, Len(s)), g \o z) = Put(Put(At(l2, Len(s)), g), z)
  BY <1>8, <1>24, PutTwo
<1>26. Shown(V, Put(At(l2, Len(s)), g \o z), s, Len(s) - m)
  BY <1>2, <1>18, ShownAgain DEF g, a, z
<1>27. Put(t, f \o z) = Put(At(l2, Len(s)), g \o z)
  BY <1>20, <1>21, <1>22, <1>23, <1>24, <1>25
<1> QED BY <1>26, <1>27 DEF f, e, d, c, b, a, x, y, z

(* A character typed at the end of the text.                                *)
LEMMA ShownMore ==
  ASSUME NEW V, NEW t, NEW s \in Seq(V), Shown(V, t, s, Len(s)), NEW c \in V \ Controls
  PROVE  Shown(V, Put(t, <<c>>), Append(s, c), Len(s) + 1)
<1>1. PICK l \in Seq(V) : t = At(l, Len(s)) /\ OnLine(l, s)
  BY DEF Shown
<1> DEFINE q == <<c>>
           o == Over(l, Len(s), q)
           x == Append(s, c)
<1>2. Len(s) \in 0 .. Len(l)
  BY <1>1 DEF OnLine
<1>3. Put(t, q) = At(o, Len(s) + 1)
  <2>1. Emit(At(l, Len(s)), c) = At(o, Len(s) + 1)
    BY <1>2, EmitText
  <2> QED BY <1>1, <2>1, PutOne
<1>4. q \in Seq(V) /\ Len(q) = 1 /\ q[1] = c
  BY OneType
<1>5. x \in Seq(V) /\ Len(x) = Len(s) + 1 /\ x[Len(s) + 1] = c /\ \A i \in 1 .. Len(s) : x[i] = s[i]
  OBVIOUS
<1> HIDE DEF q, x
<1>6. o \in Seq(V) /\ IsOver(o, l, Len(s), q)
  BY <1>2, <1>4, OverType, Zenon
<1>7. Blank(o, Len(x))
  <2>1. Len(s) \in Nat /\ Len(x) \in Nat /\ Len(s) <= Len(x) /\ Blank(l, Len(s)) /\ Len(s) + Len(q) <= Len(x)
    BY <1>1, <1>4, <1>5 DEF OnLine
  <2>2. Blank(l, Len(x))
    BY <2>1, BlankBehind
  <2> QED BY <1>2, <1>4, <2>1, <2>2, OverBlank
<1> HIDE DEF o
<1>8. Len(x) <= Len(o)
  BY <1>4, <1>5, <1>6 DEF IsOver
<1>9. \A i \in 1 .. Len(x) : o[i] = x[i]
  <2> SUFFICES ASSUME NEW i \in 1 .. Len(x) PROVE o[i] = x[i]
    OBVIOUS
  <2>1. CASE i \in 1 .. Len(s)
    <3>1. i \in 1 .. Len(o) /\ i <= Len(s)
      BY <1>5, <1>6, <1>8, <2>1
    <3> QED BY <1>1, <1>5, <1>6, <2>1, <3>1 DEF IsOver, OnLine
  <2>2. CASE i = Len(s) + 1
    <3>1. 1 \in 1 .. Len(q)
      BY <1>4
    <3> QED BY <1>4, <1>5, <1>6, <2>2, <3>1 DEF IsOver
  <2>3. i \in 1 .. Len(s) \/ i = Len(s) + 1
    BY <1>5
  <2> QED BY <2>1, <2>2, <2>3
<1> QED BY <1>3, <1>6, <1>7, <1>8, <1>9 DEF Shown, OnLine, q, x

(* The cursor one to the left; one to the right, by writing what is there.  *)
LEMMA ShownLeft ==
  ASSUME NEW V, NEW t, NEW s, NEW k \in Nat, k > 0, Shown(V, t, s, k)
  PROVE  Shown(V, Put(t, <<"BS">>), s, k - 1)
<1>1. PICK l \in Seq(V) : t = At(l, k) /\ OnLine(l, s)
  BY DEF Shown
<1> QED BY <1>1, PutBS DEF Shown

(* Writing the character under the cursor again moves the cursor right.     *)
LEMMA ShownRight ==
  ASSUME NEW V, NEW t, NEW s \in Seq(V), NEW k \in 0 .. Len(s) - 1, Shown(V, t, s, k),
         NEW c \in V \ Controls, c = s[k + 1]
  PROVE  Shown(V, Put(t, <<c>>), s, k + 1)
<1>1. PICK l \in Seq(V) : t = At(l, k) /\ OnLine(l, s)
  BY DEF Shown
<1> DEFINE q == <<c>>
           o == Over(l, k, q)
<1>2. k \in 0 .. Len(l) /\ k + 1 \in 1 .. Len(l)
  BY <1>1 DEF OnLine
<1>3. Put(t, q) = At(o, k + 1)
  <2>1. Emit(At(l, k), c) = At(o, k + 1)
    BY <1>2, EmitText
  <2> QED BY <1>1, <2>1, PutOne
<1>4. q \in Seq(V) /\ Len(q) = 1 /\ q[1] = c
  BY OneType
<1> HIDE DEF q
<1>6. o \in Seq(V) /\ IsOver(o, l, k, q)
  BY <1>2, <1>4, OverType, Zenon
<1> HIDE DEF o
<1>7. Len(o) = Len(l) /\ Len(o) \in Nat
  BY <1>2, <1>4, <1>6 DEF IsOver
<1>8. \A i \in 1 .. Len(o) : o[i] = l[i]
  <2> SUFFICES ASSUME NEW i \in 1 .. Len(o) PROVE o[i] = l[i]
    OBVIOUS
  <2>1. CASE i = k + 1
    <3>1. 1 \in 1 .. Len(q) /\ k + 1 \in 1 .. Len(s)
      BY <1>4
    <3> QED BY <1>1, <1>4, <1>6, <2>1, <3>1 DEF IsOver, OnLine
  <2>2. CASE i # k + 1
    <3>1. i <= k \/ i > k + Len(q)
      BY <1>4, <2>2
    <3> QED BY <1>6, <3>1 DEF IsOver
  <2> QED BY <2>1, <2>2
<1>9. o = l
  BY <1>6, <1>7, <1>8, SeqEqual
<1> QED BY <1>1, <1>3, <1>9 DEF Shown, q

(* The character before the cursor wiped out, the rest moved over it.       *)
LEMMA ShownErased ==
  ASSUME NEW V, Space \in V, Controls \subseteq V,
         NEW t, NEW s \in Seq(V \ Controls), NEW k \in 1 .. Len(s), Shown(V, t, s, k),
         NEW u \in Seq(V \ Controls), Len(u) = Len(s) - k, \A i \in 1 .. Len(u) : u[i] = s[k + i],
         NEW r \in Seq(V), Len(r) = Len(s) - 1, \A i \in 1 .. k - 1 : r[i] = s[i],
         \A i \in 1 .. Len(u) : r[k - 1 + i] = u[i]
  PROVE  Shown(V, Put(t, <<"BS">> \o u \o <<Space, "BS">> \o Times(Len(u), "BS")), r, k - 1)
<1>1. PICK l \in Seq(V) : t = At(l, k) /\ OnLine(l, s)
  BY DEF Shown
<1> DEFINE a == <<"BS">>
           b == a \o u
           q == <<Space>>
           x == <<Space, "BS">>
           c == b \o x
           y == Times(Len(u), "BS")
           j == k - 1
           l1 == Over(l, j, u)
           l2 == Over(l1, j + Len(u), q)
<1>2. /\ "BS" \in V /\ Len(u) \in Nat /\ k > 0 /\ k \in Nat /\ j \in 0 .. Len(l) /\ Len(s) \in Nat
      /\ j + Len(u) = Len(s) - 1 /\ Len(s) >= 1 /\ Space \in V \ Controls /\ Len(s) <= Len(l) /\ j \in Nat
  BY <1>1 DEF Controls, OnLine, Space
<1>3. u \in Seq(V)
  OBVIOUS
<1>4. a \in Seq(V) /\ x \in Seq(V)
  BY <1>2
<1>5. q \in Seq(V) /\ Len(q) = 1 /\ q[1] = Space
  BY OneType
<1>6. y \in Seq(V)
  BY <1>2, TimesType
<1>7. Put(t, a) = At(l, j)
  BY <1>1, <1>2, PutBS
<1>8. x = Append(q, "BS")
  OBVIOUS
<1> HIDE DEF a, x, q, y, j
<1>9. b \in Seq(V) /\ Put(t, b) = Put(Put(t, a), u)
  BY <1>3, <1>4, PutTwo
<1> HIDE DEF b
<1>10. c \in Seq(V) /\ Put(t, c) = Put(Put(t, b), x)
  BY <1>4, <1>9, PutTwo
<1> HIDE DEF c
<1>11. Put(t, c \o y) = Put(Put(t, c), y)
  BY <1>6, <1>10, PutTwo
<1>12. Put(At(l, j), u) = At(l1, j + Len(u))
  BY <1>2, PutText
<1>13. l1 \in Seq(V) /\ IsOver(l1, l, j, u)
  BY <1>2, <1>3, OverType, Zenon
<1>14. Blank(l1, Len(s))
  <2>1. Blank(l, Len(s)) /\ j + Len(u) <= Len(s)
    BY <1>1, <1>2 DEF OnLine
  <2> QED BY <1>2, <1>3, <2>1, OverBlank
<1> HIDE DEF l1
<1> DEFINE n == j + Len(u)
<1>15. n \in 0 .. Len(l1) /\ n + 1 = Len(s) /\ n \in Nat
  BY <1>2, <1>13 DEF IsOver
<1>16. l2 \in Seq(V) /\ IsOver(l2, l1, n, q)
  BY <1>5, <1>13, <1>15, OverType, Zenon
<1>17. Put(At(l1, n), x) = At(l2, n)
  <2>1. Put(At(l1, n), x) = Emit(Put(At(l1, n), q), "BS")
    BY <1>2, <1>5, <1>8, PutMore
  <2>2. Put(At(l1, n), q) = At(l2, n + 1)
    <3>1. Emit(At(l1, n), Space) = At(l2, n + 1)
      BY <1>2, <1>13, <1>15, EmitText DEF q
    <3> QED BY <3>1, PutOne DEF q
  <2> HIDE DEF l2
  <2>3. Emit(At(l2, n + 1), "BS") = At(l2, n)
    <3>1. n + 1 > 0 /\ (n + 1) - 1 = n
      BY <1>15
    <3> HIDE DEF n
    <3> QED BY <3>1 DEF Emit, At
  <2> QED BY <2>1, <2>2, <2>3
<1> HIDE DEF l2
<1>18. Put(At(l2, n), y) = At(l2, j)
  <2>1. Len(u) \in 0 .. n /\ n - Len(u) = j
    BY <1>2
  <2> HIDE DEF n
  <2> QED BY <1>15, <2>1, PutBack DEF y
<1>19. Put(t, c \o y) = At(l2, j)
  BY <1>7, <1>9, <1>10, <1>11, <1>12, <1>17, <1>18
<1>20. OnLine(l2, r)
  <2>1. Len(r) = n /\ n <= Len(l2)
    BY <1>2, <1>5, <1>15, <1>16 DEF IsOver
  <2>2. ASSUME NEW i \in 1 .. n PROVE l2[i] = r[i]
    <3>1. i \in 1 .. Len(l2) /\ i <= n /\ i \in 1 .. Len(l1)
      BY <1>15, <2>1, SMTT(30)
    <3>2. l2[i] = l1[i]
      BY <1>16, <3>1 DEF IsOver
    <3>3. CASE i <= j
      <4>1. l1[i] = l[i]
        BY <1>13, <3>1, <3>3 DEF IsOver
      <4>2. i \in 1 .. k - 1 /\ i \in 1 .. Len(s)
        BY <1>2, <3>3 DEF j
      <4> QED BY <1>1, <3>2, <4>1, <4>2 DEF OnLine
    <3>4. CASE i > j
      <4> DEFINE h == i - j
      <4>1. h \in 1 .. Len(u) /\ i = j + h
        BY <1>2, <3>4
      <4> HIDE DEF h
      <4>2. l1[j + h] = u[h] /\ r[j + h] = u[h]
        BY <1>13, <4>1 DEF IsOver, j
      <4> QED BY <3>2, <4>1, <4>2
    <3>5. i <= j \/ i > j
      BY <1>2
    <3> QED BY <3>3, <3>4, <3>5
  <2>3. ASSUME NEW i \in n + 1 .. Len(l2) PROVE l2[i] = Space
    <3>0. Len(l2) \in Nat /\ Len(l1) \in Nat /\ (Len(l2) = Len(l1) \/ Len(l2) = n + 1)
      BY <1>5, <1>13, <1>16 DEF IsOver
    <3>1. CASE i = n + 1
      <4>1. 1 \in 1 .. Len(q)
        BY <1>5
      <4> QED BY <1>5, <1>16, <3>1, <4>1 DEF IsOver
    <3>2. CASE i # n + 1
      <4>1. i \in 1 .. Len(l2) /\ i > n + Len(q) /\ i \in Len(s) + 1 .. Len(l1)
        BY <1>5, <1>15, <3>0, <3>2
      <4>2. l2[i] = l1[i]
        BY <1>16, <4>1 DEF IsOver
      <4> QED BY <1>14, <4>1, <4>2 DEF Blank
    <3> QED BY <3>1, <3>2
  <2> QED BY <2>1, <2>2, <2>3 DEF OnLine, Blank
<1> QED BY <1>16, <1>19, <1>20 DEF Shown, c, b, a, x, y, j

(* A list of words, and then the text on a line of its own.                 *)
LEMMA ShownBelow ==
  ASSUME NEW V, Controls \subseteq V, NEW t, NEW x \in Seq(V),
         NEW s \in Seq(V \ Controls), NEW n \in 0 .. Len(s)
  PROVE  Shown(V, Put(t, <<"LF">> \o x \o <<"LF">> \o s \o Times(n, "BS")), s, Len(s) - n)
<1> DEFINE f == <<"LF">>
           e == <<>>
           a == f \o x
           b == a \o f
           c == b \o s
           y == Times(n, "BS")
           o == Over(e, 0, s)
<1>1. "LF" \in V /\ "BS" \in V /\ n \in Nat /\ Len(s) \in Nat /\ 0 + Len(s) = Len(s)
  BY DEF Controls
<1>2. s \in Seq(V)
  OBVIOUS
<1>3. f \in Seq(V) /\ e \in Seq(V) /\ Len(e) = 0
  BY <1>1
<1>4. y \in Seq(V)
  BY <1>1, TimesType
<1>5. Put(Put(t, a), f) = At(e, 0)
  BY PutLF
<1> HIDE DEF f, e, y
<1>6. a \in Seq(V)
  BY <1>3
<1> HIDE DEF a
<1>7. b \in Seq(V) /\ Put(t, b) = Put(Put(t, a), f)
  BY <1>3, <1>6, PutTwo
<1> HIDE DEF b
<1>8. c \in Seq(V) /\ Put(t, c) = Put(Put(t, b), s)
  BY <1>2, <1>7, PutTwo
<1> HIDE DEF c
<1>9. Put(t, c \o y) = Put(Put(t, c), y)
  BY <1>4, <1>8, PutTwo
<1>10. 0 \in 0 .. Len(e) /\ Blank(e, Len(s))
  BY <1>3 DEF Blank
<1>11. Put(At(e, 0), s) = At(o, 0 + Len(s))
  BY <1>3, <1>10, PutText
<1>12. o \in Seq(V) /\ OnLine(o, s)
  BY <1>2, <1>3, <1>10, OverAll
<1> HIDE DEF o
<1>13. Put(At(o, Len(s)), y) = At(o, Len(s) - n)
  BY <1>1, PutBack DEF y
<1>14. Put(t, c \o y) = At(o, Len(s) - n)
  BY <1>1, <1>5, <1>7, <1>8, <1>9, <1>11, <1>13
<1> QED BY <1>12, <1>14 DEF Shown, c, b, a, f, y

(* What is emitted never leaves the line behind the cursor.                 *)
LEMMA PutType ==
  ASSUME NEW V, NEW t, NEW l \in Seq(V), NEW k \in 0 .. Len(l), t = At(l, k),
         NEW s \in Seq(V \union {"BS", "CR"})
  PROVE  \E m \in Seq(V) : \E i \in 0 .. Len(m) : Put(t, s) = At(m, i)
<1> DEFINE W == V \union {"BS", "CR"}
           Fine(r) == \E m \in Seq(V) : \E i \in 0 .. Len(m) : r = At(m, i)
           P == {j \in 0 .. Len(s) : Fine(Put(t, SubSeq(s, 1, j)))}
           e == <<>>
<1>1. 0 \in P
  <2>1. SubSeq(s, 1, 0) = e
    BY Beginnings
  <2>2. Put(t, e) = t
    BY PutNone
  <2>3. Fine(t)
    OBVIOUS
  <2>4. 0 \in 0 .. Len(s)
    OBVIOUS
  <2> HIDE DEF e, Fine
  <2> QED BY <2>1, <2>2, <2>3, <2>4
<1>2. ASSUME NEW r, Fine(r), NEW c \in W PROVE Fine(Emit(r, c))
  <2>1. PICK m \in Seq(V) : \E i \in 0 .. Len(m) : r = At(m, i)
    BY <1>2
  <2>2. PICK i \in 0 .. Len(m) : r = At(m, i)
    BY <2>1
  <2>3. CASE c = "BS"
    <3>1. Emit(r, c) = At(m, IF i > 0 THEN i - 1 ELSE 0)
      BY <2>2, <2>3 DEF Emit, At
    <3>2. (IF i > 0 THEN i - 1 ELSE 0) \in 0 .. Len(m)
      OBVIOUS
    <3> QED BY <3>1, <3>2
  <2>4. CASE c = "CR"
    <3>1. Emit(r, c) = At(m, 0)
      BY <2>2, <2>4 DEF Emit, At
    <3>2. 0 \in 0 .. Len(m)
      OBVIOUS
    <3> QED BY <3>1, <3>2
  <2>5. CASE c = "LF"
    <3>1. Emit(r, c) = At(e, 0)
      BY <2>5 DEF Emit, At
    <3>2. e \in Seq(V) /\ 0 \in 0 .. Len(e)
      OBVIOUS
    <3> HIDE DEF e
    <3> QED BY <3>1, <3>2
  <2>6. CASE c \notin Controls
    <3> DEFINE q == <<c>>
               o == Over(m, i, q)
    <3>1. c \in V \ Controls
      BY <2>6 DEF Controls
    <3>2. Emit(r, c) = At(o, i + 1)
      BY <2>2, <3>1, EmitText
    <3>3. q \in Seq(V) /\ Len(q) = 1
      BY <3>1, OneType
    <3> HIDE DEF q
    <3>4. o \in Seq(V) /\ IsOver(o, m, i, q)
      BY <3>3, OverType, Zenon
    <3> HIDE DEF o
    <3>5. i + 1 \in 0 .. Len(o)
      BY <3>3, <3>4 DEF IsOver
    <3> QED BY <3>2, <3>4, <3>5
  <2> QED BY <2>3, <2>4, <2>5, <2>6 DEF Controls
<1>3. ASSUME NEW j \in 0 .. Len(s) - 1, j \in P PROVE j + 1 \in P
  <2> DEFINE a == SubSeq(s, 1, j)
             c == s[j + 1]
             b == SubSeq(s, 1, j + 1)
  <2>1. a \in Seq(W) /\ c \in W /\ b = Append(a, c)
    BY Beginnings
  <2>2. Fine(Put(t, a))
    BY <1>3
  <2>3. j + 1 \in 0 .. Len(s)
    OBVIOUS
  <2> HIDE DEF a, c, b, W
  <2>4. Put(t, Append(a, c)) = Emit(Put(t, a), c)
    BY <2>1, PutMore
  <2> HIDE DEF Fine
  <2>5. Fine(Put(t, b))
    BY <1>2, <2>1, <2>2, <2>4
  <2> QED BY <2>3, <2>5 DEF b
<1>4. Len(s) \in Nat /\ SubSeq(s, 1, Len(s)) = s
  BY Beginnings
<1>5. Len(s) \in P
  <2> HIDE DEF P
  <2> QED BY <1>1, <1>3, <1>4, UpTo
<1> QED BY <1>4, <1>5

-----------------------------------------------------------------------------
(***************************************************************************)
(* Prefixes, matches and the list of matches                               *)
(***************************************************************************)

(* The greatest number of a bounded set.                                    *)
LEMMA MaxOf ==
  ASSUME NEW n \in Nat, NEW T \in SUBSET (0 .. n), T # {}
  PROVE  Max(T) \in T /\ \A y \in T : Max(T) >= y
<1> DEFINE D == {d \in Nat : n - d \in T}
<1>1. D \in SUBSET Nat /\ D # {}
  <2>1. PICK x \in T : TRUE
    OBVIOUS
  <2>2. n - x \in Nat /\ n - (n - x) = x
    OBVIOUS
  <2> QED BY <2>1, <2>2
<1>2. PICK d \in D : \A e \in D : d <= e
  <2> HIDE DEF D
  <2> QED BY <1>1, LeastOf
<1>3. n - d \in T /\ \A y \in T : n - d >= y
  <2>1. \A y \in T : n - y \in D
    <3>1. \A y \in T : n - y \in Nat /\ n - (n - y) = y
      OBVIOUS
    <3> QED BY <3>1
  <2>2. d \in Nat /\ n - d \in T
    BY <1>2
  <2>3. ASSUME NEW y \in T PROVE n - d >= y
    <3>1. d <= n - y
      BY <1>2, <2>1
    <3>2. y \in Nat
      OBVIOUS
    <3> QED BY <2>2, <3>1, <3>2
  <2> QED BY <2>2, <2>3
<1>4. Max(T) = CHOOSE x \in T : \A y \in T : x >= y
  BY DEF Max
<1> QED BY <1>3, <1>4

(* The least number of a set.                                               *)
LEMMA MinOf ==
  ASSUME NEW T \in SUBSET Nat, T # {}
  PROVE  Min(T) \in T /\ \A y \in T : Min(T) <= y
<1>1. Min(T) = CHOOSE x \in T : \A y \in T : x <= y
  BY DEF Min
<1> QED BY <1>1, LeastOf

(* A line that is looked through for a prefix is found to begin with it.    *)
Begins(p, w) == Len(p) <= Len(w) /\ \A i \in 1 .. Len(p) : w[i] = p[i]

(* A prefix is found in a word exactly when the word begins with it.        *)
LEMMA FoundBegins ==
  ASSUME NEW V, NEW p \in Seq(V), NEW w \in Seq(V), Len(p) > 0
  PROVE  Found(p, w) \in Nat /\ (Found(p, w) >= 1 <=> Begins(p, w))
<1> DEFINE n == Len(p)
           K == {k \in 0 .. Len(w) : k * n <= Len(w) /\
                                     \A i \in 1 .. k * n : w[i] = p[((i - 1) % n) + 1]}
<1>1. n \in Nat \ {0} /\ Len(w) \in Nat
  OBVIOUS
<1>2. Found(p, w) = Max(K)
  BY DEF Found
<1>3. K \in SUBSET (0 .. Len(w)) /\ 0 \in K
  <2>1. 0 * n = 0 /\ 0 \in 0 .. Len(w) /\ 0 <= Len(w)
    BY <1>1
  <2>2. \A i \in 1 .. 0 * n : w[i] = p[((i - 1) % n) + 1]
    BY <2>1
  <2> QED BY <2>1, <2>2
<1>4. Max(K) \in K /\ \A y \in K : Max(K) >= y
  <2> HIDE DEF K
  <2> QED BY <1>1, <1>3, MaxOf
<1>5. \A i \in 1 .. n : ((i - 1) % n) + 1 = i
  <2> HIDE DEF n
  <2>1. \A a \in Nat : a < n => a % n = a
    BY <1>1
  <2>2. \A i \in 1 .. n : i - 1 \in Nat /\ i - 1 < n /\ (i - 1) + 1 = i
    BY <1>1
  <2> QED BY <2>1, <2>2
<1>6. ASSUME NEW k \in K, k >= 1 PROVE Begins(p, w)
  <2>1. k \in Nat /\ k * n <= Len(w) /\ \A i \in 1 .. k * n : w[i] = p[((i - 1) % n) + 1]
    OBVIOUS
  <2>2. k * n >= n
    <3> HIDE DEF n
    <3> QED BY <1>1, <1>6, <2>1
  <2>3. k * n \in Nat
    <3> HIDE DEF n
    <3> QED BY <1>1, <2>1
  <2> DEFINE kn == k * n
  <2> HIDE DEF n, kn, K
  <2>4. \A i \in 1 .. n : i \in 1 .. kn
    BY <1>1, <2>2, <2>3 DEF kn
  <2>5. \A i \in 1 .. n : w[i] = p[i]
    BY <1>5, <2>1, <2>4 DEF kn
  <2>6. n <= Len(w)
    <3>1. kn >= n /\ kn <= Len(w) /\ kn \in Nat
      BY <2>1, <2>2, <2>3, Zenon DEF kn
    <3> QED BY <1>1, <3>1
  <2> QED BY <2>5, <2>6 DEF Begins, n
<1>7. ASSUME Begins(p, w) PROVE 1 \in K
  <2>1. 1 * n = n /\ 1 \in 0 .. Len(w) /\ n <= Len(w)
    BY <1>1, <1>7 DEF Begins
  <2>2. \A i \in 1 .. n : w[i] = p[((i - 1) % n) + 1]
    BY <1>5, <1>7 DEF Begins
  <2> QED BY <2>1, <2>2
<1> HIDE DEF K
<1>8. Max(K) \in Nat
  <2>1. \A k \in K : k \in Nat
    BY <1>3
  <2> QED BY <1>4, <2>1, Zenon
<1>9. Max(K) >= 1 <=> Begins(p, w)
  BY <1>4, <1>6, <1>7
<1> QED BY <1>2, <1>8, <1>9

(* One is the sum of one 1 and noughts.                                     *)
LEMMA CountOne ==
  ASSUME NEW n \in Nat, NEW m \in [1 .. n -> Nat], SeqTotal(m) = 1
  PROVE  \E x \in 1 .. n : m[x] = 1 /\ \A y \in 1 .. n : y # x => m[y] = 0
<1> DEFINE D == 1 .. n
<1>1. IsFiniteSet(D)
  BY FS_Interval
<1>2. \A x \in D : m[x] \in Int /\ m[x] \in Nat
  OBVIOUS
<1>3. m \in [1 .. n -> Int]
  OBVIOUS
<1>4. SumFunctionOnSet(m, D) = 1
  <2>1. PICK g : Adds(g, m, D)
    <3> HIDE DEF D
    <3> QED BY <1>1, <1>2, SumExists
  <2>2. SeqTotal(m) = g[D]
    BY <1>3, <2>1, TotalIsSum
  <2>3. SumFunctionOnSet(m, D) = g[D]
    <3> HIDE DEF D
    <3> QED BY <1>1, <1>2, <2>1, SetSumIs
  <2> QED BY <2>2, <2>3
<1> HIDE DEF D
<1>5. PICK x \in D : m[x] # 0
  BY <1>1, <1>4, SetSumZero
<1> DEFINE R == D \ {x}
<1>6. IsFiniteSet(R) /\ \A y \in R : m[y] \in Int /\ m[y] \in Nat
  BY <1>1, <1>2, FS_Subset
<1>7. SumFunctionOnSet(m, D) = m[x] + SumFunctionOnSet(m, R)
  BY <1>1, <1>2, SetSumLess
<1> HIDE DEF R
<1>8. SumFunctionOnSet(m, R) \in Nat
  BY <1>6, SetSumNat
<1>9. m[x] = 1 /\ SumFunctionOnSet(m, R) = 0
  <2>1. m[x] \in Nat
    BY <1>2
  <2> QED BY <1>4, <1>5, <1>7, <1>8, <2>1
<1>10. ASSUME NEW y \in R PROVE m[y] = 0
  <2> DEFINE Q == R \ {y}
  <2>1. IsFiniteSet(Q) /\ \A z \in Q : m[z] \in Nat
    BY <1>6, FS_Subset
  <2>2. SumFunctionOnSet(m, R) = m[y] + SumFunctionOnSet(m, Q)
    BY <1>6, SetSumLess
  <2> HIDE DEF Q
  <2>3. SumFunctionOnSet(m, Q) \in Nat
    BY <2>1, SetSumNat
  <2>4. m[y] \in Nat
    BY <1>6
  <2> QED BY <1>9, <2>2, <2>3, <2>4
<1> QED BY <1>9, <1>10 DEF R, D

-----------------------------------------------------------------------------
(***************************************************************************)
(* The editor without arrow keys, 5_34                                     *)
(***************************************************************************)

Glyphs == Bytes \union {"BS", "CR"}

(* The operators that CompletingEditor and TextLine take from the community *)
(* modules are the ones this module takes.                                  *)
LEMMA ShortPut == ASSUME NEW s PROVE S!Shows(s) <=> screen' = Put(screen, s)
BY DEF S!Shows, Put, S!FoldLeft, FoldLeft, S!MapThenFoldSet, MapThenFoldSet, S!Emit, Emit, S!Max, Max

LEMMA ShortFound == ASSUME NEW p, NEW w PROVE S!Found(p, w) = Found(p, w)
BY DEF S!Found, Found, S!Max, Max

LEMMA ShortFlatten == ASSUME NEW s PROVE S!FlattenSeq(s) = FlattenSeq(s)
BY DEF S!FlattenSeq, FlattenSeq

LEMMA ShortTimes == ASSUME NEW n, NEW c PROVE S!Times(n, c) = Times(n, c)
BY DEF S!Times, Times

LEMMA ShortCount == ASSUME NEW m PROVE S!FoldLeft(LAMBDA a, k : a + k, 0, m) = SeqTotal(m)
BY DEF S!FoldLeft, FoldLeft, S!MapThenFoldSet, MapThenFoldSet, SeqTotal, S!Max, Max

LEMMA LongCount == ASSUME NEW m PROVE Count(m) = SeqTotal(m)
BY DEF Count, FoldLeft, MapThenFoldSet, SeqTotal

LEMMA ShortWords == ASSUME NEW s, NEW t, NEW T PROVE
  /\ S!Front(s) = SubSeq(s, 1, Len(s) - 1) /\ S!Max(T) = Max(T) /\ S!Separators = Separators /\ S!Space = Space
  /\ S!Ideal!Front(s) = SubSeq(s, 1, Len(s) - 1) /\ S!Ideal!Max(T) = Max(T) /\ S!ToSet(s) = ToSet(s)
  /\ S!Ideal!IsPrefix(s, t) <=> Len(s) <= Len(t) /\ SubSeq(s, 1, Len(s)) = SubSeq(t, 1, Len(s))
  /\ Ideal!Front(s) = SubSeq(s, 1, Len(s) - 1) /\ Ideal!Max(T) = Max(T) /\ Ideal!Last(s) = s[Len(s)]
  /\ Ideal!IsPrefix(s, t) <=> Len(s) <= Len(t) /\ SubSeq(s, 1, Len(s)) = SubSeq(t, 1, Len(s))
BY DEF S!Front, S!Max, Max, S!Separators, Separators, S!Space, Space, S!Ideal!Front, S!Ideal!Max,
  S!ToSet, ToSet, S!Ideal!IsPrefix, Ideal!Front, Ideal!Max, Ideal!Last, Ideal!IsPrefix

L1 == Letters \union {Space}

SInv ==
  /\ typed \in Seq(L1)
  /\ stale \in Seq({"a", "b", Space}) /\ (stale = <<>> \/ typed = <<>>)
  /\ dirty \in BOOLEAN
  /\ ~dirty => Shown(Glyphs, screen, typed, Len(typed))

(* Which sets of characters contain which.                                  *)
LEMMA GlyphFacts ==
  /\ L1 \subseteq Glyphs \ Controls /\ Space \in Glyphs /\ Controls \subseteq Glyphs
  /\ Printing \subseteq Glyphs \ Controls /\ Letters \subseteq Printing /\ L1 \subseteq Printing
  /\ Letters \subseteq Glyphs /\ NUL \notin Printing
BY BytesAssumption DEF L1, Glyphs, Bytes, Printing, Controls, Separators, Space, NUL, Keys

(* A sequence over a set is one over any larger set.                        *)
LEMMA SubSeqOf ==
  ASSUME NEW V, NEW W, V \subseteq W, NEW s \in Seq(V)
  PROVE  s \in Seq(W)
OBVIOUS

(* Type and length of a concatenation.                                      *)
LEMMA CatLen ==
  ASSUME NEW V, NEW s \in Seq(V), NEW u \in Seq(V)
  PROVE  s \o u \in Seq(V) /\ Len(s \o u) = Len(s) + Len(u)
BY ConcatProperties

(* Pieces of a sequence of three characters.                                *)
LEMMA Three ==
  ASSUME NEW V, NEW a \in V, NEW b \in V, NEW c \in V
  PROVE  <<a>> \o <<>> \o <<b, c>> \o <<>> = <<a, b, c>>
<1> DEFINE x == <<a>>
           y == <<b, c>>
           z == <<a, b, c>>
           e == <<>>
<1>1. x \in Seq(V) /\ Len(x) = 1 /\ x[1] = a
  OBVIOUS
<1>2. y \in Seq(V) /\ Len(y) = 2 /\ y[1] = b /\ y[2] = c
  OBVIOUS
<1>3. z \in Seq(V) /\ Len(z) = 3 /\ z[1] = a /\ z[2] = b /\ z[3] = c
  OBVIOUS
<1>4. x \o e = x
  <2> HIDE DEF x
  <2> QED BY <1>1, ConcatEmptySeq
<1>5. (x \o y) \o e = x \o y
  <2> HIDE DEF x, y
  <2>1. x \o y \in Seq(V)
    BY <1>1, <1>2
  <2> QED BY <2>1, ConcatEmptySeq
<1>6. x \o y = z
  <2> HIDE DEF x, y, z
  <2> DEFINE w == x \o y
  <2>1. w \in Seq(V) /\ IsCat(w, x, y)
    BY <1>1, <1>2, Cat
  <2> HIDE DEF w
  <2>2. Len(w) = 3 /\ w[1] = a /\ w[2] = b /\ w[3] = c
    BY <1>1, <1>2, <2>1 DEF IsCat
  <2>3. \A i \in 1 .. Len(w) : w[i] = z[i]
    <3>1. \A i \in 1 .. Len(w) : i = 1 \/ i = 2 \/ i = 3
      BY <2>2
    <3> QED BY <1>3, <2>2, <3>1
  <2> QED BY <1>3, <2>1, <2>2, <2>3, SeqEqual DEF w
<1>7. x \o e \o y \o e = z
  <2> HIDE DEF x, y, z, e
  <2> QED BY <1>4, <1>5, <1>6
<1> QED BY <1>7

(* A subsequence.                                                           *)
LEMMA Piece ==
  ASSUME NEW V, NEW s \in Seq(V), NEW m \in Nat, m > 0, NEW n \in Int, m - 1 <= n, n <= Len(s)
  PROVE  /\ SubSeq(s, m, n) \in Seq(V) /\ Len(SubSeq(s, m, n)) = n - m + 1
         /\ \A i \in 1 .. n - m + 1 : SubSeq(s, m, n)[i] = s[m + i - 1]
<1>1. \A i \in m .. n : s[i] \in V
  BY ElementOfSeq
<1>2. m <= n \/ n - m + 1 = 0
  OBVIOUS
<1>3. SubSeq(s, m, n) \in Seq(V)
      /\ Len(SubSeq(s, m, n)) = (IF m <= n THEN n - m + 1 ELSE 0)
      /\ \A i \in 1 .. n - m + 1 : SubSeq(s, m, n)[i] = s[m + i - 1]
  BY <1>1, SubSeqProperties
<1> DEFINE r == SubSeq(s, m, n)
<1> HIDE DEF r
<1> QED BY <1>2, <1>3

(* The beginning of a sequence.                                             *)
LEMMA Start ==
  ASSUME NEW V, NEW s \in Seq(V), NEW n \in 0 .. Len(s)
  PROVE  /\ SubSeq(s, 1, n) \in Seq(V) /\ Len(SubSeq(s, 1, n)) = n
         /\ \A i \in 1 .. n : SubSeq(s, 1, n)[i] = s[i]
<1> DEFINE r == SubSeq(s, 1, n)
<1>1. r \in Seq(V) /\ Len(r) = n - 1 + 1 /\ \A i \in 1 .. n - 1 + 1 : r[i] = s[1 + i - 1]
  BY Piece
<1> HIDE DEF r
<1>2. n - 1 + 1 = n /\ \A i \in 1 .. n : 1 + i - 1 = i
  OBVIOUS
<1> QED BY <1>1, <1>2 DEF r

(* The prefix is the end of the text behind the last separator.             *)
LEMMA ShortPrefixIs ==
  ASSUME typed \in Seq(L1)
  PROVE  /\ S!get_prefix_start \in 0 .. Len(typed)
         /\ S!Prefix = S!Ideal!LastWord(typed)
         /\ S!Prefix = SubSeq(typed, S!get_prefix_start + 1, Len(typed))
         /\ S!Prefix \in Seq(L1) /\ Len(S!Prefix) = Len(typed) - S!get_prefix_start
<1> DEFINE T == {0} \union {i \in DOMAIN typed : typed[i] \in Separators}
           p == S!get_prefix_start
<1>1. DOMAIN typed = 1 .. Len(typed) /\ Len(typed) \in Nat
  OBVIOUS
<1>2. p = Max(T)
  BY ShortWords DEF S!get_prefix_start
<1>3. T \in SUBSET (0 .. Len(typed)) /\ T # {}
  BY <1>1
<1>4. p \in 0 .. Len(typed)
  <2> HIDE DEF T, p
  <2> QED BY <1>1, <1>2, <1>3, MaxOf
<1>5. T = {0} \union {i \in 1 .. Len(typed) : typed[i] \in Separators}
  BY <1>1
<1>6. S!Ideal!LastWord(typed) = SubSeq(typed, 1 + p, Len(typed))
  BY <1>2, <1>5, ShortWords DEF S!Ideal!LastWord
<1>7. S!Prefix = SubSeq(typed, p + 1, Len(typed))
  BY DEF S!Prefix
<1> HIDE DEF p, T
<1>8. 1 + p = p + 1
  BY <1>4
<1>9. SubSeq(typed, p + 1, Len(typed)) \in Seq(L1) /\ Len(SubSeq(typed, p + 1, Len(typed))) = Len(typed) - p
  BY <1>4
<1> QED BY <1>4, <1>6, <1>7, <1>8, <1>9 DEF p

(* The words of the dictionary are sequences of letters.                    *)
LEMMA WordsFacts ==
  /\ DOMAIN Words = 1 .. Len(Words) /\ Len(Words) \in Nat
  /\ \A w \in DOMAIN Words : Words[w] \in Seq(Letters)
BY WordsAssumption

(* One match: it goes on from the prefix, and no other word does.           *)
Matching(m, p) == m = [w \in DOMAIN Words |-> Found(p, Words[w])]
OneOf(m) == CHOOSE w \in DOMAIN m : m[w] = 1

(* When the matches add up to one, just one word begins with the prefix.    *)
LEMMA OnlyMatch ==
  ASSUME NEW p \in Seq(Printing), Len(p) > 0,
         NEW m, Matching(m, p), SeqTotal(m) = 1, NEW k, k = OneOf(m)
  PROVE  /\ k \in DOMAIN Words /\ Words[k] \in Seq(Letters) /\ Begins(p, Words[k])
         /\ \A v \in ToSet(Words) : Begins(p, v) <=> v = Words[k]
<1> DEFINE n == Len(Words)
<1>1. n \in Nat /\ DOMAIN Words = 1 .. n
  BY WordsFacts
<1>2. \A w \in 1 .. n : Words[w] \in Seq(Letters) /\ Words[w] \in Seq(Printing)
  BY <1>1, WordsFacts, GlyphFacts
<1> HIDE DEF n
<1>3. \A w \in 1 .. n : Found(p, Words[w]) \in Nat /\ (Found(p, Words[w]) >= 1 <=> Begins(p, Words[w]))
  BY <1>2, FoundBegins
<1>4. m \in [1 .. n -> Nat] /\ DOMAIN m = 1 .. n /\ \A w \in 1 .. n : m[w] = Found(p, Words[w])
  BY <1>1, <1>3 DEF Matching
<1>5. PICK x \in 1 .. n : m[x] = 1 /\ \A y \in 1 .. n : y # x => m[y] = 0
  BY <1>1, <1>4, CountOne
<1>6. k \in 1 .. n /\ m[k] = 1
  BY <1>4, <1>5 DEF OneOf
<1>7. k = x
  <2>1. SUFFICES ASSUME k # x PROVE FALSE
    OBVIOUS
  <2>2. m[k] = 0 /\ m[k] = 1
    BY ONLY <1>5, <1>6, <2>1, Zenon
  <2> QED BY ONLY <2>2
<1>8. Begins(p, Words[k])
  BY <1>3, <1>4, <1>6
<1>9. \A y \in 1 .. n : y # k => ~Begins(p, Words[y])
  BY <1>3, <1>4, <1>5, <1>7
<1>10. ToSet(Words) = {Words[y] : y \in 1 .. n}
  BY <1>1 DEF ToSet
<1>11. \A v \in ToSet(Words) : Begins(p, v) <=> v = Words[k]
  BY <1>6, <1>8, <1>9, <1>10
<1> QED BY <1>1, <1>2, <1>6, <1>8, <1>11

(* IsPrefix of the community modules is Begins.                             *)
LEMMA PrefixBegins ==
  ASSUME NEW V, NEW p \in Seq(V), NEW w \in Seq(V)
  PROVE  (Len(p) <= Len(w) /\ SubSeq(p, 1, Len(p)) = SubSeq(w, 1, Len(p))) <=> Begins(p, w)
<1> SUFFICES ASSUME Len(p) <= Len(w)
             PROVE  SubSeq(p, 1, Len(p)) = SubSeq(w, 1, Len(p)) <=> \A i \in 1 .. Len(p) : w[i] = p[i]
  BY DEF Begins
<1> DEFINE a == SubSeq(p, 1, Len(p))
           b == SubSeq(w, 1, Len(p))
<1>1. a \in Seq(V) /\ Len(a) = Len(p) /\ \A i \in 1 .. Len(p) : a[i] = p[i]
  OBVIOUS
<1>2. b \in Seq(V) /\ Len(b) = Len(p) /\ \A i \in 1 .. Len(p) : b[i] = w[i]
  OBVIOUS
<1> HIDE DEF a, b
<1>3. ASSUME \A i \in 1 .. Len(p) : w[i] = p[i] PROVE a = b
  <2>1. \A i \in 1 .. Len(p) : a[i] = b[i]
    BY <1>1, <1>2, <1>3
  <2> QED BY <1>1, <1>2, <2>1, SeqEqual
<1>4. ASSUME a = b PROVE \A i \in 1 .. Len(p) : w[i] = p[i]
  BY <1>1, <1>2, <1>4
<1> QED BY <1>3, <1>4 DEF a, b

Stored == stale # <<>> /\ typed = <<>> /\ stored' = stale
SStep == SInv' /\ (Stored \/ S!Ideal!Next \/ UNCHANGED S!Ideal!line)

(* The list of matches consists of characters a terminal shows.             *)
LEMMA ListType ==
  ASSUME NEW m \in [DOMAIN Words -> Nat]
  PROVE  FlattenSeq([w \in DOMAIN m |-> FlattenSeq(Times(m[w], Append(Words[w], Space)))]) \in Seq(Glyphs)
<1> DEFINE n == Len(Words)
           f == [w \in DOMAIN m |-> FlattenSeq(Times(m[w], Append(Words[w], Space)))]
           G == Glyphs
<1>1. n \in Nat /\ DOMAIN Words = 1 .. n /\ DOMAIN m = 1 .. n
  BY WordsFacts
<1> HIDE DEF n
<1>2. ASSUME NEW w \in 1 .. n PROVE FlattenSeq(Times(m[w], Append(Words[w], Space))) \in Seq(G)
  <2> DEFINE x == Append(Words[w], Space)
             k == m[w]
             W == Seq(G)
  <2>1. Words[w] \in Seq(Letters) /\ k \in Nat
    BY <1>1, WordsFacts
  <2>2. Words[w] \in Seq(G) /\ Space \in G
    BY <2>1, GlyphFacts
  <2>3. x \in W
    BY <2>2
  <2> HIDE DEF x, k, W, G
  <2>4. Times(k, x) \in Seq(W)
    BY <2>1, <2>3, TimesType
  <2>5. FlattenSeq(Times(k, x)) \in Seq(G)
    BY <2>4, FlattenType DEF W
  <2> QED BY <2>5 DEF x, k
<1> DEFINE W == Seq(G)
<1>3. f \in [1 .. n -> W]
  BY <1>1, <1>2
<1> HIDE DEF f, W, G
<1>4. f \in Seq(W)
  BY <1>1, <1>3, IsASeq
<1>5. FlattenSeq(f) \in Seq(G)
  BY <1>4, FlattenType DEF W
<1> QED BY <1>5 DEF f, G

(* Enter in the editor without arrow keys.                                  *)
LEMMA ShortEnter == ASSUME SInv, S!Enter PROVE SStep
<1> DEFINE e == <<>>
<1>1. typed' = e /\ stale' = e /\ dirty' = FALSE /\ stored' = typed \o stale /\ screen' = Put(screen, <<"LF">>)
  BY ShortPut DEF S!Enter
<1>2. e \in Seq(L1) /\ Len(e) = 0 /\ e \in Seq({"a", "b", Space})
  OBVIOUS
<1>3. Shown(Glyphs, screen', e, 0)
  BY <1>1, ShownLF
<1>4. SInv'
  <2>1. e = <<>>
    OBVIOUS
  <2> HIDE DEF e
  <2>2. Shown(Glyphs, screen', typed', Len(typed'))
    BY ONLY <1>1, <1>2, <1>3, Zenon
  <2> QED BY <1>1, <1>2, <2>1, <2>2, Zenon DEF SInv
<1>5. CASE stale = <<>>
  <2>1. typed \o stale = typed \o <<>>
    BY <1>5
  <2>2. S!Ideal!Enter
    BY <1>1, <2>1 DEF S!Ideal!Enter
  <2> QED BY <1>4, <2>2 DEF SStep, S!Ideal!Next
<1>6. CASE stale # <<>> /\ typed = <<>>
  <2>1. stored' = <<>> \o stale
    BY <1>1, <1>6
  <2>2. <<>> \o stale = stale
    BY DEF SInv
  <2> QED BY <1>4, <1>6, <2>1, <2>2 DEF SStep, Stored
<1> QED BY <1>5, <1>6 DEF SInv

(* A step that changes neither its line nor its terminal.                   *)
LEMMA ShortSame ==
  ASSUME SInv, UNCHANGED <<typed, stale, stored, screen, dirty>>
  PROVE  SStep
<1>1. SInv'
  BY DEF SInv
<1>2. UNCHANGED S!Ideal!line
  BY DEF S!Ideal!line
<1> QED BY <1>1, <1>2 DEF SStep

(* A typed character.                                                       *)
LEMMA ShortType == ASSUME SInv, NEW c \in L1, S!Type(c) PROVE SStep
<1> DEFINE e == <<>>
           x == Append(typed, c)
<1>1. typed' = x /\ stale' = e /\ dirty' = dirty /\ stored' = stored /\ screen' = Put(screen, <<c>>)
  BY ShortPut DEF S!Type
<1>2. e \in Seq({"a", "b", Space})
  OBVIOUS
<1>3. typed \in Seq(L1) /\ dirty \in BOOLEAN
  BY DEF SInv
<1>4. x \in Seq(L1) /\ Len(x) = Len(typed) + 1
  BY <1>3
<1>5. typed \in Seq(Glyphs) /\ c \in Glyphs \ Controls
  BY <1>3, GlyphFacts
<1> HIDE DEF x
<1>6. ~dirty => Shown(Glyphs, screen', x, Len(x))
  BY <1>1, <1>4, <1>5, ShownMore DEF SInv, x
<1>7. SInv'
  BY <1>1, <1>2, <1>3, <1>4, <1>6 DEF SInv
<1>8. S!Ideal!Type(c)
  BY <1>1 DEF S!Ideal!Type, x
<1>9. c \in Letters \union {S!Space}
  BY ShortWords DEF L1
<1>10. S!Ideal!Next
  BY <1>8, <1>9 DEF S!Ideal!Next
<1> QED BY <1>7, <1>10 DEF SStep

(* Backspace.                                                               *)
LEMMA ShortBackspace == ASSUME SInv, S!Backspace PROVE SStep
<1>1. CASE typed = <<>>
  BY <1>1, ShortSame DEF S!Backspace
<1>2. CASE typed # <<>>
  <2> DEFINE n == Len(typed)
             r == SubSeq(typed, 1, n - 1)
             e == <<>>
  <2>1. /\ typed' = r /\ stale' = stale /\ stored' = stored /\ dirty' = dirty
        /\ screen' = Put(screen, <<"BS", Space, "BS">>)
    BY <1>2, ShortPut, ShortWords DEF S!Backspace, S!Shorter
  <2>2. typed \in Seq(L1) /\ stale = <<>> /\ dirty \in BOOLEAN /\ stale \in Seq({"a", "b", Space})
    BY <1>2 DEF SInv
  <2>3. n \in Nat \ {0} /\ r \in Seq(L1) /\ Len(r) = n - 1 /\ \A i \in 1 .. n - 1 : r[i] = typed[i]
    <3>1. n \in Nat \ {0}
      BY <1>2, <2>2, EmptySeq
    <3>2. n - 1 \in 0 .. n
      BY <3>1
    <3>3. r \in Seq(L1) /\ Len(r) = n - 1 /\ \A i \in 1 .. n - 1 : r[i] = typed[i]
      BY <2>2, <3>2, Start, Zenon
    <3> QED BY <3>1, <3>3
  <2>4. e \in Seq(Glyphs \ Controls) /\ Len(e) = 0
    OBVIOUS
  <2>5. typed \in Seq(Glyphs \ Controls) /\ r \in Seq(Glyphs)
    <3>1. L1 \subseteq Glyphs \ Controls /\ L1 \subseteq Glyphs
      BY GlyphFacts
    <3> HIDE DEF r
    <3> QED BY <2>2, <2>3, <3>1, SubSeqOf
  <2>6. Times(Len(e), "BS") = <<>>
    BY <2>4 DEF Times
  <2>7. <<"BS">> \o <<>> \o <<Space, "BS">> \o <<>> = <<"BS", Space, "BS">>
    <3>1. "BS" \in {"BS", Space} /\ Space \in {"BS", Space}
      OBVIOUS
    <3> QED BY ONLY <3>1, Three, Zenon
  <2>8. <<"BS">> \o e \o <<Space, "BS">> \o Times(Len(e), "BS") = <<"BS", Space, "BS">>
    BY <2>6, <2>7
  <2> HIDE DEF r, e
  <2>9. ~dirty => Shown(Glyphs, screen', r, n - 1)
    <3>1. ASSUME ~dirty PROVE Shown(Glyphs, screen', r, n - 1)
      <4>1. Shown(Glyphs, screen, typed, n)
        BY <1>2, <3>1 DEF SInv
      <4>2. n \in 1 .. Len(typed) /\ Len(e) = Len(typed) - n
        BY <2>3, <2>4
      <4>3. (\A i \in 1 .. Len(e) : e[i] = typed[n + i]) /\ (\A i \in 1 .. Len(e) : r[n - 1 + i] = e[i])
        BY <2>4
      <4> DEFINE o == <<"BS">> \o e \o <<Space, "BS">> \o Times(Len(e), "BS")
      <4>4. Shown(Glyphs, Put(screen, o), r, n - 1)
        BY <2>3, <2>5, <2>4, <4>1, <4>2, <4>3, GlyphFacts, ShownErased
      <4>5. o = <<"BS", Space, "BS">>
        BY <2>8
      <4> HIDE DEF o
      <4> QED BY <2>1, <4>4, <4>5
    <3> QED BY <3>1
  <2>10. SInv'
    BY <2>1, <2>2, <2>3, <2>9 DEF SInv
  <2>11. S!Ideal!Backspace
    BY <1>2, <2>1, ShortWords DEF S!Ideal!Backspace, r
  <2> QED BY <2>10, <2>11 DEF SStep, S!Ideal!Next
<1> QED BY <1>1, <1>2

(* The text up to the prefix and the word that goes on from it.             *)
LEMMA ShortCompleted ==
  ASSUME SInv, S!Prefix # <<>>, NEW m, m = S!search_for_matches,
         SeqTotal(m) = 1,
         NEW w, w = Words[CHOOSE k \in DOMAIN m : m[k] = 1],
         NEW x, x = S!complete_word(w)
  PROVE  /\ x \in Seq(L1) /\ Len(x) >= Len(typed)
         /\ w \in ToSet(Words) /\ S!Ideal!OnlyWord(S!Ideal!LastWord(typed), w)
         /\ x = SubSeq(typed, 1, Len(typed) - Len(S!Ideal!LastWord(typed))) \o w
<1> DEFINE p == S!Prefix
           q == S!get_prefix_start
           a == SubSeq(typed, 1, q)
           k == CHOOSE v \in DOMAIN m : m[v] = 1
           n == Len(typed)
<1>1. typed \in Seq(L1) /\ n \in Nat
  BY DEF SInv
<1>2. /\ q \in 0 .. n /\ p = S!Ideal!LastWord(typed)
      /\ p \in Seq(L1) /\ Len(p) = n - q
  BY <1>1, ShortPrefixIs, Zenon
<1>3. m = [v \in DOMAIN Words |-> Found(p, Words[v])]
  BY ShortFound DEF S!search_for_matches
<1>4. SeqTotal(m) = 1
  OBVIOUS
<1>5. p # <<>>
  OBVIOUS
<1>6. x = a \o w /\ w = Words[k]
  BY DEF S!complete_word
<1>7. a \in Seq(L1) /\ Len(a) = q
  BY <1>1, <1>2, Start, Zenon
<1> HIDE DEF p, q, a, k, n
<1>8. p \in Seq(Printing) /\ Len(p) > 0
  <2>1. Len(p) \in Nat \ {0}
    BY <1>2, <1>5, EmptySeq
  <2> QED BY <1>2, <2>1, GlyphFacts, SubSeqOf
<1>9. /\ k \in DOMAIN Words /\ Words[k] \in Seq(Letters) /\ Begins(p, Words[k])
      /\ \A v \in ToSet(Words) : Begins(p, v) <=> v = Words[k]
  <2>1. Matching(m, p) /\ k = OneOf(m)
    BY <1>3 DEF Matching, OneOf, k
  <2> QED BY ONLY <1>4, <1>8, <2>1, OnlyMatch, Zenon
<1>10. w \in ToSet(Words) /\ w \in Seq(Letters) /\ Len(p) <= Len(w)
  BY <1>6, <1>9 DEF ToSet, Begins
<1>11. w \in Seq(L1)
  <2>1. Letters \subseteq L1
    BY DEF L1
  <2> QED BY <1>10, <2>1, SubSeqOf
<1>12. x \in Seq(L1) /\ Len(x) = q + Len(w)
  <2>1. a \o w \in Seq(L1) /\ Len(a \o w) = q + Len(w)
    BY ONLY <1>7, <1>11, CatLen, Zenon
  <2> QED BY ONLY <1>6, <2>1, Zenon
<1>13. Len(x) >= n
  BY <1>1, <1>2, <1>8, <1>10, <1>12
<1>14. n - Len(p) = q
  BY <1>1, <1>2
<1>15. ASSUME NEW v \in ToSet(Words)
       PROVE  S!Ideal!Continues(p, v) <=> v = w
  <2>1. v \in Seq(Printing)
    <3>1. v \in Seq(Letters)
      BY WordsFacts DEF ToSet
    <3> QED BY <3>1, GlyphFacts, SubSeqOf
  <2>2. S!Ideal!Continues(p, v) <=> p # <<>> /\ Len(p) <= Len(v) /\ SubSeq(p, 1, Len(p)) = SubSeq(v, 1, Len(p))
    BY ShortWords DEF S!Ideal!Continues
  <2>3. S!Ideal!Continues(p, v) <=> Begins(p, v)
    BY <1>5, <1>8, <2>1, <2>2, PrefixBegins
  <2> QED BY <1>6, <1>9, <2>3
<1>16. S!ToSet(Words) = ToSet(Words)
  BY ShortWords
<1>17. S!Ideal!OnlyWord(p, w)
  BY <1>15, <1>16 DEF S!Ideal!OnlyWord
<1>18. x = SubSeq(typed, 1, n - Len(p)) \o w
  BY <1>6, <1>14 DEF a
<1> QED BY ONLY <1>2, <1>10, <1>12, <1>13, <1>17, <1>18, Zenon DEF n

(* Tab.                                                                     *)
LEMMA ShortAutocomplete == ASSUME SInv, S!process_autocomplete PROVE SStep
<1> DEFINE m == S!search_for_matches
           matches == IF S!Prefix = <<>> THEN -1 ELSE SeqTotal(m)
           w == Words[CHOOSE k \in DOMAIN m : m[k] = 1]
           x == S!complete_word(w)
<1>1. UNCHANGED <<stale, stored>>
  BY DEF S!process_autocomplete
<1>2. \/ /\ matches = 1 /\ typed' = x /\ S!Shows(<<"CR">> \o typed') /\ UNCHANGED dirty
      \/ /\ matches \notin {0, 1} /\ S!Shows(S!output_multiple_matches(m))
         /\ dirty' = (stale # <<>>) /\ UNCHANGED typed
      \/ matches = 0 /\ UNCHANGED <<typed, screen, dirty>>
  <2>1. S!FoldLeft(LAMBDA a, k : a + k, 0, m) = SeqTotal(m)
    BY ShortCount
  <2> QED BY <2>1, Zenon DEF S!process_autocomplete
<1>3. CASE matches = 1 /\ typed' = x /\ S!Shows(<<"CR">> \o typed') /\ UNCHANGED dirty
  <2>1. S!Prefix # <<>> /\ SeqTotal(m) = 1
    <3> HIDE DEF m
    <3>1. CASE S!Prefix = <<>>
      BY <1>3, <3>1
    <3>2. CASE S!Prefix # <<>>
      BY <1>3, <3>2
    <3> QED BY <3>1, <3>2
  <2>2. /\ x \in Seq(L1) /\ Len(x) >= Len(typed)
        /\ w \in ToSet(Words) /\ S!Ideal!OnlyWord(S!Ideal!LastWord(typed), w)
        /\ x = SubSeq(typed, 1, Len(typed) - Len(S!Ideal!LastWord(typed))) \o w
    BY <2>1, ShortCompleted
  <2>3. screen' = Put(screen, <<"CR">> \o typed')
    BY <1>3, ShortPut
  <2> HIDE DEF x, w, m
  <2>4. S!Ideal!Complete
    <3>1. w \in S!ToSet(Words)
      BY <2>2, ShortWords
    <3> QED BY <1>1, <1>3, <2>2, <3>1 DEF S!Ideal!Complete
  <2>5. typed \in Seq(L1) /\ Len(typed) \in Nat /\ dirty \in BOOLEAN /\ stale \in Seq({"a", "b", Space})
        /\ (stale = <<>> \/ typed = <<>>)
    BY DEF SInv
  <2>6. stale = <<>>
    <3>1. ASSUME typed = <<>> PROVE FALSE
      <4>1. S!Prefix \in Seq(L1) /\ Len(S!Prefix) = Len(typed) - S!get_prefix_start /\ S!get_prefix_start \in 0 .. Len(typed)
        BY <2>5, ShortPrefixIs, Zenon
      <4>2. Len(typed) = 0
        BY <3>1
      <4>3. Len(S!Prefix) = 0
        <5> DEFINE a == Len(S!Prefix)
                   q == S!get_prefix_start
                   n == Len(typed)
        <5>1. a = n - q /\ q \in 0 .. n /\ n = 0
          BY <4>1, <4>2
        <5> HIDE DEF a, q, n
        <5>2. q \in 0 .. 0 /\ a = 0 - q
          BY ONLY <5>1, Zenon
        <5>3. q \in Int /\ q = 0
          BY ONLY <5>2
        <5>4. a = 0 - 0
          BY ONLY <5>2, <5>3, Zenon
        <5> QED BY ONLY <5>4 DEF a
      <4> QED BY <2>1, <4>1, <4>3, EmptySeq
    <3> QED BY <2>5, <3>1
  <2>7. x \in Seq(Glyphs \ Controls) /\ x \in Seq(Glyphs) /\ Len(x) \in Nat
    <3>1. L1 \subseteq Glyphs \ Controls /\ L1 \subseteq Glyphs
      BY GlyphFacts
    <3> QED BY <2>2, <3>1, SubSeqOf
  <2>8. ASSUME ~dirty PROVE Shown(Glyphs, screen', x, Len(x))
    <3>1. PICK l \in Seq(Glyphs) : screen = At(l, Len(typed)) /\ OnLine(l, typed)
      BY <2>8 DEF SInv, Shown
    <3>2. Blank(l, Len(x))
      BY <2>2, <2>5, <2>7, <3>1, BlankBehind DEF OnLine
    <3>3. Shown(Glyphs, Put(At(l, Len(typed)), <<"CR">> \o x \o Times(0, "BS")), x, Len(x) - 0)
      <4>1. 0 \in 0 .. Len(x) /\ Controls \subseteq Glyphs
        BY <2>7, GlyphFacts
      <4> QED BY <2>5, <2>7, <3>2, <4>1, ShownAgain
    <3>4. <<"CR">> \o x \o Times(0, "BS") = <<"CR">> \o x
      <4>1. Times(0, "BS") = <<>>
        BY DEF Times
      <4>2. "CR" \in Glyphs
        BY GlyphFacts DEF Controls
      <4>3. <<"CR">> \in Seq(Glyphs)
        BY <4>2
      <4> DEFINE c == <<"CR">>
                 d == c \o x
      <4> HIDE DEF c
      <4>4. d \in Seq(Glyphs)
        BY <2>7, <4>3 DEF c
      <4> HIDE DEF d
      <4>5. d \o <<>> = d
        BY <4>4, ConcatEmptySeq
      <4> QED BY <4>1, <4>5 DEF c, d
    <3>5. Len(x) - 0 = Len(x)
      BY <2>7
    <3> QED BY <1>3, <2>3, <3>1, <3>3, <3>4, <3>5
  <2>9. SInv'
    BY <1>1, <1>3, <2>2, <2>5, <2>6, <2>8, Zenon DEF SInv
  <2> QED BY <2>4, <2>9 DEF SStep, S!Ideal!Next
<1>4. CASE /\ matches \notin {0, 1} /\ S!Shows(S!output_multiple_matches(m))
           /\ dirty' = (stale # <<>>) /\ UNCHANGED typed
  <2> DEFINE x1 == FlattenSeq([v \in DOMAIN m |-> FlattenSeq(Times(m[v], Append(Words[v], Space)))])
  <2>1. screen' = Put(screen, S!output_multiple_matches(m))
    BY <1>4, ShortPut
  <2>2. typed \in Seq(L1) /\ Len(typed) \in Nat /\ stale \in Seq({"a", "b", Space}) /\ (stale = <<>> \/ typed = <<>>)
    BY DEF SInv
  <2>3. m \in [DOMAIN Words -> Nat]
    <3>1. S!Prefix \in Seq(L1)
      BY <2>2, ShortPrefixIs, Zenon
    <3>2. ASSUME NEW v \in DOMAIN Words
          PROVE  (IF S!Prefix = <<>> THEN 1 ELSE S!Found(S!Prefix, Words[v])) \in Nat
      <4>1. CASE S!Prefix = <<>>
        BY <4>1
      <4>2. CASE S!Prefix # <<>>
        <5> DEFINE p == S!Prefix
                   u == Words[v]
        <5> HIDE DEF p, u
        <5>1. p \in Seq(Printing) /\ u \in Seq(Printing)
          BY <3>1, WordsFacts, GlyphFacts, SubSeqOf DEF p, u
        <5>2. Len(p) > 0
          <6>1. Len(p) \in Nat \ {0}
            BY <4>2, <5>1, EmptySeq DEF p
          <6> QED BY <6>1
        <5>3. Found(p, u) \in Nat
          BY <5>1, <5>2, FoundBegins
        <5>4. S!Found(p, u) \in Nat
          BY <5>3, ShortFound
        <5> QED BY <4>2, <5>4 DEF p, u
      <4> QED BY <4>1, <4>2
    <3>3. m = [v \in DOMAIN Words |-> IF S!Prefix = <<>> THEN 1 ELSE S!Found(S!Prefix, Words[v])]
      BY DEF S!search_for_matches
    <3> HIDE DEF m
    <3> QED BY <3>2, <3>3
  <2>4. S!output_multiple_matches(m) = <<"LF">> \o x1 \o <<"LF">> \o typed \o stale
    <3> HIDE DEF m
    <3>1. [v \in DOMAIN m |-> S!FlattenSeq(S!Times(m[v], Append(Words[v], S!Space)))]
          = [v \in DOMAIN m |-> FlattenSeq(Times(m[v], Append(Words[v], Space)))]
      BY ShortFlatten, ShortTimes, ShortWords
    <3>2. S!FlattenSeq([v \in DOMAIN m |-> S!FlattenSeq(S!Times(m[v], Append(Words[v], S!Space)))]) = x1
      BY <3>1, ShortFlatten
    <3> HIDE DEF x1
    <3> QED BY <3>2 DEF S!output_multiple_matches
  <2>5. x1 \in Seq(Glyphs)
    <3> HIDE DEF m
    <3> QED BY <2>3, ListType
  <2> HIDE DEF x1, m
  <2>6. ASSUME ~dirty' PROVE Shown(Glyphs, screen', typed, Len(typed))
    <3>1. stale = <<>>
      BY <1>4, <2>6
    <3>2. Times(0, "BS") = <<>>
      BY DEF Times
    <3>3. Shown(Glyphs, Put(screen, <<"LF">> \o x1 \o <<"LF">> \o typed \o Times(0, "BS")), typed, Len(typed) - 0)
      <4>1. 0 \in 0 .. Len(typed) /\ L1 \subseteq Glyphs \ Controls /\ Controls \subseteq Glyphs
        BY <2>2, GlyphFacts
      <4>2. typed \in Seq(Glyphs \ Controls)
        BY <2>2, <4>1, SubSeqOf
      <4> QED BY <2>5, <4>1, <4>2, ShownBelow
    <3>4. Len(typed) - 0 = Len(typed)
      BY <2>2
    <3> QED BY <2>1, <2>4, <3>1, <3>2, <3>3, <3>4
  <2>7. dirty' \in BOOLEAN
    BY <1>4
  <2>8. SInv'
    BY <1>1, <1>4, <2>2, <2>6, <2>7, Zenon DEF SInv
  <2>9. UNCHANGED S!Ideal!line
    BY <1>1, <1>4 DEF S!Ideal!line
  <2> QED BY <2>8, <2>9 DEF SStep
<1>5. CASE matches = 0 /\ UNCHANGED <<typed, screen, dirty>>
  BY <1>1, <1>5, ShortSame
<1> HIDE DEF matches, m, x
<1> QED BY <1>2, <1>3, <1>4, <1>5

(* Every step of the editor without arrow keys.                             *)
LEMMA ShortStep == ASSUME SInv, S!Next PROVE SStep
<1>1. CASE \E s \in ShortInputs : S!Read(s)
  BY <1>1, ShortSame DEF S!Read, S!buffer
<1>2. CASE S!Quit
  BY <1>2, ShortSame DEF S!Quit, S!buffer
<1>3. CASE S!Enter
  BY <1>3, ShortEnter
<1>4. CASE S!Backspace
  BY <1>4, ShortBackspace
<1>5. CASE S!process_autocomplete
  BY <1>5, ShortAutocomplete
<1>6. CASE \E c \in Letters \union {S!Space} : S!Type(c)
  <2>1. PICK c \in L1 : S!Type(c)
    BY <1>6, ShortWords DEF L1
  <2> QED BY <2>1, ShortType
<1> QED BY <1>1, <1>2, <1>3, <1>4, <1>5, <1>6 DEF S!Next

(* Its initial states.                                                      *)
LEMMA ShortInit ==
  ASSUME typed = <<>>, stale \in {<<>>, <<"a">>, <<Space, "b">>},
         screen = [line |-> <<>>, col |-> 0], dirty = FALSE
  PROVE  SInv
<1>1. <<>> \in Seq(L1) /\ <<>> \in Seq(Glyphs) /\ Len(<<>>) = 0
  OBVIOUS
<1>2. stale \in Seq({"a", "b", Space})
  <2>1. <<>> \in Seq({"a", "b", Space})
    OBVIOUS
  <2>2. <<"a">> \in Seq({"a", "b", Space})
    OBVIOUS
  <2>3. <<Space, "b">> \in Seq({"a", "b", Space})
    OBVIOUS
  <2> QED BY <2>1, <2>2, <2>3, Zenon
<1>3. screen = At(typed, Len(typed)) /\ OnLine(typed, typed)
  BY <1>1 DEF At, OnLine, Blank
<1>4. Shown(Glyphs, screen, typed, Len(typed))
  BY <1>1, <1>3, Zenon DEF Shown
<1> QED BY <1>1, <1>2, <1>4 DEF SInv

(* What a shown line is, said of the terminal's record.                     *)
LEMMA ShownIs ==
  ASSUME NEW V, NEW t, NEW s \in Seq(V), NEW k \in 0 .. Len(s), Shown(V, t, s, k)
  PROVE  /\ t.col = k /\ s = SubSeq(t.line, 1, Len(s))
         /\ \A i \in Len(s) + 1 .. Len(t.line) : t.line[i] = Space
<1>1. PICK l \in Seq(V) : t = At(l, k) /\ OnLine(l, s)
  BY DEF Shown
<1>2. t.col = k /\ t.line = l
  BY <1>1 DEF At
<1> DEFINE r == SubSeq(l, 1, Len(s))
<1>3. Len(s) \in 0 .. Len(l)
  BY <1>1 DEF OnLine
<1>4. r \in Seq(V) /\ Len(r) = Len(s) /\ \A i \in 1 .. Len(s) : r[i] = l[i]
  BY <1>3, Start, Zenon
<1> HIDE DEF r
<1>5. \A i \in 1 .. Len(s) : s[i] = r[i]
  BY <1>1, <1>4 DEF OnLine
<1>6. s = r
  BY <1>4, <1>5, SeqEqual
<1> QED BY <1>1, <1>2, <1>6 DEF r, OnLine, Blank

(* Its invariant says that its terminal shows the text.                     *)
LEMMA ShortShows == ASSUME SInv PROVE S!ScreenShowsText
<1>1. SUFFICES ASSUME ~dirty PROVE
        /\ screen.col = Len(typed) /\ typed = SubSeq(screen.line, 1, Len(typed))
        /\ \A i \in Len(typed) + 1 .. Len(screen.line) : screen.line[i] = Space
  BY ShortWords DEF S!ScreenShowsText
<1>2. typed \in Seq(Glyphs) /\ Len(typed) \in 0 .. Len(typed) /\ Shown(Glyphs, screen, typed, Len(typed))
  <2>1. L1 \subseteq Glyphs
    BY GlyphFacts
  <2> QED BY <1>1, <2>1, SubSeqOf DEF SInv
<1> QED BY <1>2, ShownIs

-----------------------------------------------------------------------------
(***************************************************************************)
(* Strings in the buffer of the editor with arrow keys, 5_35               *)
(***************************************************************************)

Cell == Printing \union {NUL}

(* The cells of the buffer.                                                 *)
LEMMA CellsAre == /\ Size \in Nat \ {0} /\ Cells = 0 .. Size - 1 /\ NUL \notin Printing /\ MaxReads \in Nat
BY BoundsAssumption, GlyphFacts DEF Cells

(* Where a string ends: at its first zero.                                  *)
LEMMA EndIs ==
  ASSUME NEW b, NEW i \in Nat, NEW e \in Cells, e >= i, b[e] = NUL,
         \A j \in Cells : j >= i /\ j < e => b[j] # NUL
  PROVE  StrEnd(b, i) = e
<1> DEFINE T == {j \in Cells : j >= i /\ b[j] = NUL}
<1>1. T \in SUBSET Nat /\ T # {} /\ e \in T
  BY CellsAre
<1>2. Min(T) \in T /\ \A y \in T : Min(T) <= y
  <2> HIDE DEF T
  <2> QED BY <1>1, MinOf
<1>3. StrEnd(b, i) = Min(T)
  BY DEF StrEnd
<1> DEFINE m == Min(T)
<1>4. m \in Cells /\ m >= i /\ b[m] = NUL /\ m <= e
  <2> HIDE DEF m
  <2> QED BY <1>1, <1>2 DEF m
<1> HIDE DEF m
<1>5. ~(m < e)
  BY <1>4
<1>6. m = e
  BY <1>4, <1>5, CellsAre
<1> QED BY <1>3, <1>6 DEF m

(* A zero further on bounds the string.                                     *)
LEMMA EndIn ==
  ASSUME NEW b, NEW i \in Nat, NEW z \in Cells, z >= i, b[z] = NUL
  PROVE  /\ StrEnd(b, i) \in Cells /\ StrEnd(b, i) >= i /\ StrEnd(b, i) <= z /\ b[StrEnd(b, i)] = NUL
         /\ \A j \in Cells : j >= i /\ j < StrEnd(b, i) => b[j] # NUL
<1> DEFINE T == {j \in Cells : j >= i /\ b[j] = NUL}
<1>1. T \in SUBSET Nat /\ T # {} /\ z \in T
  BY CellsAre
<1>2. Min(T) \in T /\ \A y \in T : Min(T) <= y
  <2> HIDE DEF T
  <2> QED BY <1>1, MinOf
<1>3. StrEnd(b, i) = Min(T)
  BY DEF StrEnd
<1> DEFINE m == Min(T)
<1>4. m \in Cells /\ m >= i /\ b[m] = NUL /\ m <= z
  <2> HIDE DEF m
  <2> QED BY <1>1, <1>2 DEF m
<1>5. ASSUME NEW j \in Cells, j >= i, j < m PROVE b[j] # NUL
  <2>1. j \in T => m <= j
    BY <1>2
  <2>2. ~(m <= j)
    <3> HIDE DEF m
    <3> QED BY <1>4, <1>5, CellsAre
  <2> QED BY <1>5, <2>1, <2>2
<1> HIDE DEF m
<1> QED BY <1>3, <1>4, <1>5 DEF m

-----------------------------------------------------------------------------
(* The buffer holds l before its cursor and r behind it.                    *)
Holds(b, l, r) ==
  /\ b \in [Cells -> Cell] /\ l \in Seq(Printing) /\ r \in Seq(Printing)
  /\ Len(l) + Len(r) \in Cells /\ b[Len(l) + Len(r)] = NUL
  /\ \A k \in 1 .. Len(l) : b[k - 1] = l[k]
  /\ \A k \in 1 .. Len(r) : b[Len(l) + k - 1] = r[k]

(* The characters before the zero.                                          *)
LEMMA HoldsCell ==
  ASSUME NEW b, NEW l, NEW r, Holds(b, l, r)
  PROVE  \A j \in 0 .. Len(l) + Len(r) - 1 : j \in Cells /\ b[j] \in Printing /\ b[j] # NUL
<1> DEFINE x == Len(l)
           y == Len(r)
<1>1. /\ x \in Nat /\ y \in Nat /\ (\A k \in 1 .. x : l[k] \in Printing) /\ (\A k \in 1 .. y : r[k] \in Printing)
      /\ (\A k \in 1 .. x : b[k - 1] = l[k]) /\ (\A k \in 1 .. y : b[x + k - 1] = r[k]) /\ x + y \in Cells
  <2>1. l \in Seq(Printing) /\ r \in Seq(Printing)
    BY DEF Holds
  <2>2. x \in Nat /\ y \in Nat /\ (\A k \in 1 .. x : l[k] \in Printing) /\ (\A k \in 1 .. y : r[k] \in Printing)
    BY <2>1
  <2> QED BY <2>2 DEF Holds
<1> HIDE DEF x, y
<1>2. ASSUME NEW j \in 0 .. x + y - 1 PROVE j \in Cells /\ b[j] \in Printing
  <2>1. j \in Cells
    BY <1>1, CellsAre
  <2>2. CASE j < x
    <3>1. j + 1 \in 1 .. x /\ (j + 1) - 1 = j
      BY <1>1, <2>2
    <3>2. b[(j + 1) - 1] = l[j + 1] /\ l[j + 1] \in Printing
      BY <1>1, <3>1
    <3> QED BY <2>1, <3>1, <3>2
  <2>3. CASE ~(j < x)
    <3> DEFINE k == j - x + 1
    <3>1. k \in 1 .. y /\ x + k - 1 = j
      BY <1>1, <2>3
    <3> HIDE DEF k
    <3>2. b[x + k - 1] = r[k] /\ r[k] \in Printing
      BY <1>1, <3>1
    <3> QED BY <2>1, <3>1, <3>2
  <2> QED BY <2>2, <2>3
<1> QED BY <1>2, CellsAre DEF x, y

(* The zero is found from every place of the line.                          *)
LEMMA HoldsEnd ==
  ASSUME NEW b, NEW l, NEW r, Holds(b, l, r), NEW i \in 0 .. Len(l) + Len(r)
  PROVE  StrEnd(b, i) = Len(l) + Len(r)
<1> DEFINE n == Len(l) + Len(r)
<1>1. n \in Cells /\ b[n] = NUL /\ n >= i /\ i \in Nat
  BY CellsAre DEF Holds
<1>2. \A j \in Cells : j >= i /\ j < n => b[j] # NUL
  <2>1. \A j \in 0 .. n - 1 : b[j] # NUL
    BY HoldsCell
  <2> HIDE DEF n
  <2> QED BY <1>1, <2>1, CellsAre
<1> HIDE DEF n
<1> QED BY <1>1, <1>2, EndIs DEF n

(* Every end of the text, read from the buffer.                             *)
LEMMA StrIs ==
  ASSUME NEW b, NEW i \in Nat, NEW s \in Seq(Printing), StrEnd(b, i) = i + Len(s),
         \A k \in 1 .. Len(s) : b[i + k - 1] = s[k]
  PROVE  Str(b, i) = s
<1> DEFINE n == Len(s)
<1>1. n \in Nat /\ s = [k \in 1 .. n |-> s[k]]
  OBVIOUS
<1>2. StrEnd(b, i) - i = n
  BY <1>1
<1>3. Str(b, i) = [k \in 1 .. n |-> b[i + k - 1]]
  BY <1>2 DEF Str
<1>4. \A k \in 1 .. n : b[i + k - 1] = s[k]
  OBVIOUS
<1> HIDE DEF n
<1>5. [k \in 1 .. n |-> b[i + k - 1]] = [k \in 1 .. n |-> s[k]]
  BY <1>4
<1> QED BY ONLY <1>1, <1>3, <1>5, Zenon

(* The line, and its parts before and behind the cursor, as strings.        *)
LEMMA HoldsIs ==
  ASSUME NEW b, NEW l, NEW r, Holds(b, l, r)
  PROVE  /\ Str(b, 0) = l \o r /\ l \o r \in Seq(Printing) /\ Len(l \o r) = Len(l) + Len(r)
         /\ Str(b, Len(l)) = r
         /\ SubSeq(Str(b, 0), 1, Len(l)) = l
         /\ SubSeq(Str(b, 0), Len(l) + 1, Len(Str(b, 0))) = r
<1> DEFINE x == Len(l)
           y == Len(r)
           s == l \o r
<1>1. /\ l \in Seq(Printing) /\ r \in Seq(Printing) /\ x \in Nat /\ y \in Nat
      /\ (\A k \in 1 .. x : b[k - 1] = l[k]) /\ \A k \in 1 .. y : b[x + k - 1] = r[k]
  BY DEF Holds
<1>2. s \in Seq(Printing) /\ IsCat(s, l, r) /\ Len(s) = x + y
  <2>1. s \in Seq(Printing) /\ IsCat(s, l, r)
    BY <1>1, Cat, Zenon
  <2> QED BY <2>1 DEF IsCat
<1>3. StrEnd(b, 0) = 0 + Len(s) /\ StrEnd(b, x) = x + y
  <2>1. StrEnd(b, 0) = x + y /\ StrEnd(b, x) = x + y
    BY <1>1, HoldsEnd
  <2>2. 0 + Len(s) = x + y
    <3> HIDE DEF s, x, y
    <3> QED BY <1>1, <1>2
  <2> QED BY <2>1, <2>2
<1> HIDE DEF x, y, s
<1>4. \A k \in 1 .. Len(s) : b[0 + k - 1] = s[k]
  <2> SUFFICES ASSUME NEW k \in 1 .. Len(s) PROVE b[0 + k - 1] = s[k]
    OBVIOUS
  <2>1. k \in Nat /\ 0 + k - 1 = k - 1
    OBVIOUS
  <2>2. CASE k <= x
    <3>1. k \in 1 .. x /\ k \in 1 .. Len(l)
      BY <1>1, <2>1, <2>2 DEF x
    <3> QED BY <1>1, <1>2, <2>1, <3>1 DEF IsCat
  <2>3. CASE ~(k <= x)
    <3> DEFINE d == k - x
    <3>1. d \in 1 .. y /\ x + d - 1 = k - 1 /\ x + d = k
      BY <1>1, <1>2, <2>1, <2>3
    <3> HIDE DEF d
    <3>2. b[x + d - 1] = r[d]
      BY <1>1, <3>1
    <3>3. s[x + d] = r[d]
      BY <1>2, <3>1 DEF IsCat, x, y
    <3> QED BY <2>1, <3>1, <3>2, <3>3
  <2> QED BY <2>2, <2>3
<1>5. Str(b, 0) = s
  BY <1>2, <1>3, <1>4, StrIs
<1>6. Str(b, x) = r
  <2>1. StrEnd(b, x) = x + Len(r)
    BY <1>3 DEF y
  <2>2. \A k \in 1 .. Len(r) : b[x + k - 1] = r[k]
    BY <1>1 DEF y
  <2> QED BY <1>1, <2>1, <2>2, StrIs
<1>7. SubSeq(s, 1, x) = l
  <2> DEFINE a == SubSeq(s, 1, x)
  <2>1. a \in Seq(Printing) /\ Len(a) = x /\ \A k \in 1 .. x : a[k] = s[k]
    <3>1. x \in 0 .. Len(s)
      BY <1>1, <1>2
    <3> QED BY <1>2, <3>1, Start, Zenon
  <2> HIDE DEF a
  <2>2. \A k \in 1 .. Len(a) : a[k] = l[k]
    BY <1>2, <2>1 DEF IsCat, x
  <2>3. a = l
    BY <1>1, <2>1, <2>2, SeqEqual DEF x
  <2> QED BY <2>3 DEF a
<1>8. SubSeq(s, x + 1, Len(s)) = r
  <2> DEFINE a == SubSeq(s, x + 1, Len(s))
  <2>1. /\ a \in Seq(Printing) /\ Len(a) = Len(s) - (x + 1) + 1
        /\ \A k \in 1 .. Len(s) - (x + 1) + 1 : a[k] = s[x + 1 + k - 1]
    <3>1. x + 1 \in Nat /\ x + 1 > 0 /\ (x + 1) - 1 <= Len(s) /\ Len(s) <= Len(s) /\ Len(s) \in Int
      BY <1>1, <1>2
    <3> QED BY <1>2, <3>1, Piece, Zenon
  <2> HIDE DEF a
  <2>2. Len(s) - (x + 1) + 1 = y
    BY <1>1, <1>2
  <2>3. \A k \in 1 .. y : x + 1 + k - 1 = x + k
    BY <1>1
  <2>4. \A k \in 1 .. y : s[x + k] = r[k]
    BY <1>2 DEF IsCat, x, y
  <2>5. \A k \in 1 .. Len(a) : a[k] = r[k]
    BY <2>1, <2>2, <2>3, <2>4
  <2>6. Len(a) = Len(r)
    BY <2>1, <2>2 DEF y
  <2>7. a = r
    BY <1>1, <2>1, <2>5, <2>6, SeqEqual
  <2> QED BY <2>7 DEF a
<1> QED BY <1>2, <1>5, <1>6, <1>7, <1>8 DEF x, y, s

(* What stands under the cursor and before it.                              *)
LEMMA HoldsAt ==
  ASSUME NEW b, NEW l, NEW r, Holds(b, l, r)
  PROVE  /\ Len(l) \in Cells
         /\ b[Len(l)] = NUL <=> r = <<>>
         /\ r # <<>> => b[Len(l)] = r[1] /\ r[1] \in Printing /\ Len(r) >= 1
<1>1. l \in Seq(Printing) /\ r \in Seq(Printing) /\ Len(l) \in Nat /\ Len(r) \in Nat
      /\ Len(l) + Len(r) \in Cells /\ b[Len(l) + Len(r)] = NUL
      /\ \A k \in 1 .. Len(r) : b[Len(l) + k - 1] = r[k]
  BY DEF Holds
<1> DEFINE x == Len(l)
           y == Len(r)
<1>2. x \in Nat /\ y \in Nat /\ x + y \in Cells /\ b[x + y] = NUL /\ \A k \in 1 .. y : b[x + k - 1] = r[k]
  BY <1>1
<1>3. x \in Cells
  <2> HIDE DEF x, y
  <2> QED BY <1>2, CellsAre
<1>4. CASE r = <<>>
  <2>1. y = 0
    BY <1>4
  <2> HIDE DEF x, y
  <2>2. b[x] = NUL
    BY <1>2, <2>1
  <2> QED BY <1>3, <1>4, <2>2 DEF x
<1>5. CASE r # <<>>
  <2>1. y \in Nat \ {0}
    BY <1>1, <1>5, EmptySeq
  <2>2. r[1] \in Printing
    BY <1>1, <2>1
  <2> HIDE DEF x, y
  <2>3. 1 \in 1 .. y /\ x + 1 - 1 = x /\ y >= 1
    BY <1>2, <2>1
  <2>4. b[x] = r[1]
    BY <1>2, <2>3
  <2>5. r[1] # NUL
    BY <2>2, CellsAre
  <2> QED BY <1>3, <1>5, <2>2, <2>3, <2>4, <2>5 DEF x, y
<1> QED BY <1>4, <1>5

(* What a buffer holds around any place of its text.                        *)
LEMMA HoldsOf ==
  ASSUME NEW b \in [Cells -> Cell], NEW z \in Cells, b[z] = NUL, NEW c \in 0 .. StrEnd(b, 0),
         NEW l, l = SubSeq(Str(b, 0), 1, c), NEW r, r = SubSeq(Str(b, 0), c + 1, Len(Str(b, 0)))
  PROVE  /\ Holds(b, l, r) /\ Len(l) = c /\ Len(r) = StrEnd(b, 0) - c
         /\ StrEnd(b, 0) \in Cells /\ StrEnd(b, 0) <= z
         /\ Str(b, 0) \in Seq(Printing) /\ Len(Str(b, 0)) = StrEnd(b, 0)
<1> DEFINE e == StrEnd(b, 0)
           s == Str(b, 0)
<1>1. e \in Cells /\ b[e] = NUL /\ e <= z /\ \A j \in Cells : j >= 0 /\ j < e => b[j] # NUL
  <2>1. 0 \in Nat /\ z >= 0
    BY CellsAre
  <2> QED BY <2>1, EndIn
<1> HIDE DEF e
<1>2. e \in Nat /\ c \in 0 .. e
  BY <1>1, CellsAre DEF e
<1>3. ASSUME NEW j \in 0 .. e - 1 PROVE b[j] \in Printing
  <2>1. j \in Cells /\ j >= 0 /\ j < e
    BY <1>1, CellsAre
  <2> QED BY <1>1, <2>1 DEF Cell
<1>4. s = [k \in 1 .. e |-> b[k - 1]]
  <2>1. e - 0 = e /\ \A k \in 1 .. e : 0 + k - 1 = k - 1
    BY <1>2
  <2>2. s = [k \in 1 .. e - 0 |-> b[0 + k - 1]]
    BY DEF Str, e
  <2> QED BY <2>1, <2>2
<1> HIDE DEF s
<1>5. \A k \in 1 .. e : b[k - 1] \in Printing
  BY <1>2, <1>3
<1>6. s \in Seq(Printing) /\ Len(s) = e /\ \A k \in 1 .. e : s[k] = b[k - 1]
  <2>1. s \in [1 .. e -> Printing]
    BY <1>4, <1>5
  <2>2. s \in Seq(Printing)
    BY <1>2, <2>1, IsASeq
  <2>3. DOMAIN s = 1 .. e
    BY <2>1
  <2>4. Len(s) = e
    BY <1>2, <2>2, <2>3
  <2> QED BY <1>4, <2>2, <2>4
<1>7. l \in Seq(Printing) /\ Len(l) = c /\ \A k \in 1 .. c : l[k] = s[k]
  <2>1. c \in 0 .. Len(s)
    BY <1>2, <1>6
  <2>2. l = SubSeq(s, 1, c)
    BY DEF s
  <2> HIDE DEF s
  <2> QED BY ONLY <1>6, <2>1, <2>2, Start, Zenon
<1>8. r \in Seq(Printing) /\ Len(r) = e - c /\ \A k \in 1 .. e - c : r[k] = b[c + k - 1]
  <2>1. c + 1 \in Nat /\ c + 1 > 0 /\ e \in Int /\ (c + 1) - 1 <= e /\ e <= Len(s)
    BY <1>2, <1>6
  <2>2. r = SubSeq(s, c + 1, e)
    BY <1>6 DEF s
  <2>3. /\ r \in Seq(Printing) /\ Len(r) = e - (c + 1) + 1
        /\ \A k \in 1 .. e - (c + 1) + 1 : r[k] = s[c + 1 + k - 1]
    BY <1>6, <2>1, <2>2, Piece, SMTT(30)
  <2>4. e - (c + 1) + 1 = e - c /\ \A k \in 1 .. e - c : c + 1 + k - 1 = c + k /\ c + k \in 1 .. e
    BY <1>2
  <2> QED BY <1>6, <2>3, <2>4, SMTT(30)
<1>9. Len(l) + Len(r) = e
  <2>1. Len(l) = c /\ Len(r) = e - c /\ c + (e - c) = e
    BY <1>2, <1>7, <1>8
  <2> QED BY ONLY <2>1, Zenon
<1>10. \A k \in 1 .. c : b[k - 1] = l[k]
  BY <1>2, <1>6, <1>7
<1>11. Holds(b, l, r)
  <2>1. (\A k \in 1 .. Len(l) : b[k - 1] = l[k]) /\ \A k \in 1 .. Len(r) : b[Len(l) + k - 1] = r[k]
    BY <1>7, <1>8, <1>10
  <2> QED BY <1>1, <1>7, <1>8, <1>9, <2>1, Zenon DEF Holds
<1> QED BY <1>1, <1>6, <1>7, <1>8, <1>11 DEF e, s

(* A string copied over the end of the text, into a buffer that is the same *)
(* up to there.                                                             *)
Agree(d, b, i) == \A j \in Cells : j < i => d[j] = b[j]
Filled(d, n) == \A j \in Cells : j > n => d[j] \in Cell

(* Copying x and y to place i of a buffer that agrees up to there with one  *)
(* that holds l and r makes it hold the first i characters of l and x before *)
(* the cursor and y behind it.                                              *)
LEMMA HoldsCopy ==
  ASSUME NEW b, NEW l, NEW r, Holds(b, l, r), NEW i \in 0 .. Len(l),
         NEW x \in Seq(Printing), NEW y \in Seq(Printing), i + Len(x) + Len(y) \in Cells,
         NEW d, Agree(d, b, i), Filled(d, i + Len(x) + Len(y)), NEW s, s = x \o y
  PROVE  /\ Holds(StrCpy(d, i, s), SubSeq(l, 1, i) \o x, y)
         /\ Len(SubSeq(l, 1, i) \o x) = i + Len(x)
<1> DEFINE a == SubSeq(l, 1, i)
           v == a \o x
           c == StrCpy(d, i, s)
           X == Len(x)
           Y == Len(y)
           n == i + X + Y
<1>1. l \in Seq(Printing) /\ X \in Nat /\ Y \in Nat /\ i \in Nat /\ \A k \in 1 .. Len(l) : b[k - 1] = l[k]
  BY DEF Holds
<1>2. a \in Seq(Printing) /\ Len(a) = i /\ \A k \in 1 .. i : a[k] = l[k]
  BY <1>1, Start, Zenon
<1>3. v \in Seq(Printing) /\ Len(v) = i + X /\ IsCat(v, a, x)
  <2> HIDE DEF a, X
  <2>1. v \in Seq(Printing) /\ IsCat(v, a, x)
    BY <1>2, Cat, Zenon
  <2> QED BY <1>2, <2>1 DEF IsCat, X
<1>4. s \in Seq(Printing) /\ Len(s) = X + Y /\ IsCat(s, x, y)
  <2>1. s \in Seq(Printing) /\ IsCat(s, x, y)
    BY Cat, Zenon
  <2> QED BY <2>1 DEF IsCat
<1>5. n \in Cells /\ i + Len(s) = n
  BY <1>1, <1>4
<1>6. c = [j \in Cells |-> IF j < i \/ j > i + Len(s) THEN d[j] ELSE IF j = i + Len(s) THEN NUL ELSE s[j - i + 1]]
  BY DEF StrCpy
<1> HIDE DEF a, v, c, X, Y, n
<1>7. \A k \in 1 .. Len(s) : s[k] \in Printing
  BY <1>4
<1>8. ASSUME NEW j \in Cells PROVE c[j] \in Cell /\ (j < i => c[j] = b[j]) /\ (j = n => c[j] = NUL)
                                  /\ (j >= i /\ j < n => c[j] = s[j - i + 1])
  <2>1. c[j] = IF j < i \/ j > n THEN d[j] ELSE IF j = n THEN NUL ELSE s[j - i + 1]
    BY <1>5, <1>6
  <2>2. n \in Nat /\ j \in Nat /\ i <= n
    BY <1>1, <1>5, CellsAre DEF n
  <2>3. CASE j < i
    <3>1. c[j] = b[j]
      BY <2>1, <2>3 DEF Agree
    <3>2. b[j] \in Cell
      BY DEF Holds
    <3>3. j # n /\ ~(j >= i)
      BY <1>1, <2>2, <2>3
    <3> QED BY <3>1, <3>2, <3>3
  <2>4. CASE j > n
    <3>1. d[j] \in Cell
      BY <2>4 DEF n, X, Y, Filled
    <3>2. ~(j < i) /\ j # n /\ ~(j < n)
      BY <1>1, <2>2, <2>4
    <3> QED BY <2>1, <2>4, <3>1, <3>2
  <2>5. CASE j = n
    <3>1. c[j] = NUL
      BY <1>1, <2>1, <2>2, <2>5
    <3>2. ~(j < i) /\ ~(j < n)
      BY <1>1, <2>2, <2>5
    <3> QED BY <2>5, <3>1, <3>2 DEF Cell
  <2>6. CASE j >= i /\ j < n
    <3>1. ~(j < i) /\ ~(j > n) /\ j # n /\ j - i + 1 \in 1 .. Len(s)
      BY <1>1, <1>4, <1>5, <2>2, <2>6 DEF n
    <3>2. c[j] = s[j - i + 1]
      BY ONLY <2>1, <3>1, Zenon
    <3>3. c[j] \in Cell
      BY <1>7, <3>1, <3>2 DEF Cell
    <3> QED BY <3>1, <3>2, <3>3
  <2>7. j < i \/ j > n \/ j = n \/ (j >= i /\ j < n)
    BY <1>1, <2>2
  <2> QED BY <2>3, <2>4, <2>5, <2>6, <2>7
<1>9. c \in [Cells -> Cell]
  <2>1. \A j \in Cells : c[j] \in Cell
    BY <1>8
  <2>2. c = [j \in Cells |-> c[j]]
    BY <1>6
  <2> QED BY <2>1, <2>2
<1>10. ASSUME NEW k \in 1 .. i PROVE c[k - 1] = v[k]
  <2>1. k - 1 \in Cells /\ k - 1 < i /\ k \in 1 .. Len(l) /\ k \in 1 .. Len(a)
    BY <1>1, <1>2, <1>5, CellsAre DEF n
  <2>2. c[k - 1] = b[k - 1]
    BY <1>8, <2>1
  <2>3. v[k] = a[k] /\ a[k] = l[k] /\ b[k - 1] = l[k]
    BY <1>1, <1>2, <1>3, <2>1 DEF IsCat
  <2> QED BY <2>2, <2>3
<1>11. ASSUME NEW k \in 1 .. X PROVE c[i + k - 1] = x[k] /\ v[i + k] = x[k]
  <2>1. i + k - 1 \in Cells /\ i + k - 1 >= i /\ i + k - 1 < n /\ (i + k - 1) - i + 1 = k
    BY <1>1, <1>5, CellsAre DEF n
  <2>2. c[i + k - 1] = s[k]
    <3> DEFINE j == i + k - 1
    <3>1. j \in Cells /\ j >= i /\ j < n /\ j - i + 1 = k
      BY <2>1
    <3> HIDE DEF j
    <3>2. c[j] = s[k]
      BY <1>8, <3>1
    <3> QED BY <3>2 DEF j
  <2>3. s[k] = x[k]
    BY <1>4 DEF IsCat, X
  <2>4. v[i + k] = x[k]
    BY <1>2, <1>3 DEF IsCat, X
  <2> QED BY <2>2, <2>3, <2>4
<1>12. ASSUME NEW k \in 1 .. Y PROVE c[i + X + k - 1] = y[k]
  <2> DEFINE j == i + X + k - 1
  <2>1. j \in Cells /\ j >= i /\ j < n /\ j - i + 1 = X + k
    BY <1>1, <1>5, CellsAre DEF n
  <2> HIDE DEF j
  <2>2. c[j] = s[X + k]
    BY <1>8, <2>1
  <2>3. s[X + k] = y[k]
    BY <1>4 DEF IsCat, X, Y
  <2> QED BY <2>2, <2>3 DEF j
<1>13. ASSUME NEW k \in 1 .. Len(v) PROVE c[k - 1] = v[k]
  <2>1. k \in 1 .. i \/ (k - i \in 1 .. X /\ i + (k - i) = k /\ i + (k - i) - 1 = k - 1)
    <3>1. k \in 1 .. i + X
      BY <1>3
    <3>2. k \in 1 .. i \/ k - i \in 1 .. X
      BY ONLY <1>1, <3>1
    <3>3. i + (k - i) = k /\ i + (k - i) - 1 = k - 1
      BY ONLY <1>1, <3>1
    <3> QED BY ONLY <3>2, <3>3, Zenon
  <2>2. CASE k \in 1 .. i
    BY <1>10, <2>2
  <2>3. CASE k - i \in 1 .. X /\ i + (k - i) = k /\ i + (k - i) - 1 = k - 1
    <3> DEFINE q == k - i
    <3>1. q \in 1 .. X /\ i + q = k /\ i + q - 1 = k - 1
      BY <2>3
    <3> HIDE DEF q
    <3> QED BY <1>11, <3>1
  <2> QED BY <2>1, <2>2, <2>3
<1>14. Len(v) + Len(y) = n /\ c[n] = NUL
  BY <1>1, <1>3, <1>5, <1>8 DEF n, X, Y
<1>15. Holds(c, v, y)
  <2>1. \A k \in 1 .. Len(y) : c[Len(v) + k - 1] = y[k]
    BY <1>3, <1>12 DEF Y
  <2> QED BY <1>3, <1>5, <1>9, <1>13, <1>14, <2>1 DEF Holds
<1> QED BY <1>3, <1>15 DEF v, a, c, X

(* Copying y alone.                                                         *)
LEMMA HoldsCut ==
  ASSUME NEW b, NEW l, NEW r, Holds(b, l, r), NEW i \in 0 .. Len(l), NEW y \in Seq(Printing), i + Len(y) \in Cells
  PROVE  Holds(StrCpy(b, i, y), SubSeq(l, 1, i), y)
<1> DEFINE e == <<>>
           a == SubSeq(l, 1, i)
<1>1. e \in Seq(Printing) /\ Len(e) = 0
  OBVIOUS
<1>2. l \in Seq(Printing) /\ \A j \in Cells : b[j] \in Cell
  BY DEF Holds
<1>3. a \in Seq(Printing)
  BY <1>2, Start
<1> HIDE DEF a
<1>4. e \o y = y /\ a \o e = a
  BY <1>1, <1>3, ConcatEmptySeq
<1> HIDE DEF e
<1>5. i + Len(e) + Len(y) \in Cells
  <2>1. i + Len(e) = i
    BY <1>1
  <2> QED BY <2>1
<1>6. Holds(StrCpy(b, i, y), SubSeq(l, 1, i) \o e, y)
  <2>1. y = e \o y
    BY <1>4
  <2>2. Agree(b, b, i) /\ Filled(b, i + Len(e) + Len(y))
    BY <1>2 DEF Agree, Filled
  <2> QED BY ONLY <1>1, <1>5, <2>1, <2>2, y \in Seq(Printing), i \in 0 .. Len(l), Holds(b, l, r), HoldsCopy, Zenon
<1> QED BY <1>4, <1>6 DEF a

(* What StrCpy leaves alone.                                                *)
LEMMA CopyCell ==
  ASSUME NEW d, NEW i \in Nat, NEW V, NEW s \in Seq(V), NEW j \in Cells, j > i + Len(s)
  PROVE  StrCpy(d, i, s)[j] = d[j]
BY CellsAre DEF StrCpy

(* A copy writes nothing but zeros behind its characters.                   *)
LEMMA CopyAfter ==
  ASSUME NEW d, NEW i \in Nat, NEW V, NEW s \in Seq(V), NEW j \in Cells, j >= i + Len(s)
  PROVE  StrCpy(d, i, s)[j] \in {NUL, d[j]}
<1>1. StrCpy(d, i, s)[j] = IF j < i \/ j > i + Len(s) THEN d[j] ELSE IF j = i + Len(s) THEN NUL ELSE s[j - i + 1]
  BY DEF StrCpy
<1>2. Len(s) \in Nat /\ j \in Nat
  BY CellsAre
<1>3. ~(j < i) /\ (j > i + Len(s) \/ j = i + Len(s))
  BY <1>2
<1> QED BY ONLY <1>1, <1>3, Zenon

(* It writes nothing before its first.                                      *)
LEMMA CopyBefore ==
  ASSUME NEW d, NEW i \in Nat, NEW s, NEW j \in Cells, j < i
  PROVE  StrCpy(d, i, s)[j] = d[j]
BY CellsAre DEF StrCpy

-----------------------------------------------------------------------------
(***************************************************************************)
(* The inductive invariant of 5_35                                         *)
(***************************************************************************)

(* How many cells the keys still to come may write to.                      *)
KeyCells == CHOOSE n \in 1 .. Size : \E m \in 0 .. Size : RoomFor(m, n)
ReadBytes == CHOOSE m \in 0 .. Size : RoomFor(m, KeyCells)
Unread == IF p_rbuf <= read_res THEN read_res - p_rbuf ELSE 0
Budget == ((MaxReads - reads) * ReadBytes + Unread) * KeyCells

Room == Budget <= Size - 1 /\ \A j \in Cells : j + Budget >= Size - 1 => out_buf[j] = NUL
Arrived ==
  /\ read_buf \in Inputs \union {<<>>} /\ read_res \in Int /\ read_res <= Len(read_buf) /\ p_rbuf \in Nat
  /\ reads \in 0 .. MaxReads /\ running \in BOOLEAN
Printed == \E l \in Seq(Bytes) : \E i \in 0 .. Len(l) : terminal = At(l, i)
LineInv ==
  /\ out_buf \in [Cells -> Cell] /\ p_obuf_cur \in 0 .. StrEnd(out_buf, 0)
  /\ arrow_pressed \in {0, 1} /\ out \in Seq(Bytes) /\ rough \in BOOLEAN
  /\ Arrived /\ Room /\ Printed
  /\ ~rough => arrow_pressed = 0 /\ Shown(Glyphs, terminal, Text, p_obuf_cur)

LStep == LineInv' /\ (rough' \/ Ideal!Next \/ UNCHANGED Ideal!line)

(* The numbers that RoomAssumption promises.                                *)
LEMMA RoomIs ==
  /\ ReadBytes \in Nat /\ KeyCells \in Nat \ {0}
  /\ \A s \in Inputs : Len(s) <= ReadBytes
  /\ \A w \in DOMAIN Words : Len(Words[w]) < KeyCells
  /\ MaxReads * ReadBytes * KeyCells + 3 < Size
<1>1. \E n \in 1 .. Size : \E m \in 0 .. Size : RoomFor(m, n)
  BY RoomAssumption
<1>2. KeyCells \in 1 .. Size /\ \E m \in 0 .. Size : RoomFor(m, KeyCells)
  BY <1>1, Zenon DEF KeyCells
<1>3. ReadBytes \in 0 .. Size /\ RoomFor(ReadBytes, KeyCells)
  BY <1>2, Zenon DEF ReadBytes
<1>4. KeyCells \in Nat \ {0} /\ ReadBytes \in Nat
  BY <1>2, <1>3, CellsAre
<1> QED BY <1>3, <1>4, Zenon DEF RoomFor

(* Products of greater numbers are greater.                                 *)
LEMMA TimesUp ==
  ASSUME NEW a \in Nat, NEW b \in Nat, a <= b, NEW g \in Nat
  PROVE  a * g <= b * g /\ a * g \in Nat
<1>1. PICK d \in Nat : b = a + d
  <2>1. b - a \in Nat /\ b = a + (b - a)
    OBVIOUS
  <2> QED BY <2>1
<1>2. b * g = a * g + d * g
  BY <1>1
<1>3. d * g \in Nat /\ a * g \in Nat
  OBVIOUS
<1> DEFINE p == a * g
           q == d * g
           t == b * g
<1>4. t = p + q /\ p \in Nat /\ q \in Nat
  BY <1>2, <1>3
<1> HIDE DEF p, q, t
<1>5. p <= t /\ p \in Nat
  BY ONLY <1>4
<1> QED BY <1>5 DEF p, t

(* A product grows by a factor at a time.                                   *)
LEMMA TimesStep ==
  ASSUME NEW a \in Nat, NEW b \in Nat, a + 1 <= b, NEW g \in Nat
  PROVE  a * g + g <= b * g /\ a * g \in Nat
<1>1. (a + 1) * g <= b * g
  BY TimesUp
<1>2. (a + 1) * g = a * g + g /\ a * g \in Nat
  OBVIOUS
<1> QED BY <1>1, <1>2

(* A byte less to read, and the cells it may write are free.                *)
LEMMA BudgetLess ==
  ASSUME Arrived, reads' = reads, Unread' \in Nat, Unread' + 1 <= Unread
  PROVE  Budget' + KeyCells <= Budget /\ Budget' <= Budget /\ Budget' \in Nat
<1> DEFINE h == (MaxReads - reads) * ReadBytes
           u == Unread
           v == Unread'
           g == KeyCells
<1>1. ReadBytes \in Nat /\ g \in Nat /\ MaxReads - reads \in Nat
  <2>1. ReadBytes \in Nat /\ g \in Nat
    BY RoomIs
  <2> QED BY <2>1, CellsAre DEF Arrived
<1>2. h \in Nat
  BY <1>1
<1>3. u \in Nat /\ v \in Nat /\ v + 1 <= u
  BY DEF Arrived, Unread
<1>4. Budget = (h + u) * g /\ Budget' = (h + v) * g
  BY DEF Budget
<1> HIDE DEF h, u, v, g
<1>5. h + u \in Nat /\ h + v \in Nat /\ (h + v) + 1 <= h + u
  BY <1>2, <1>3
<1>6. (h + v) * g + g <= (h + u) * g /\ (h + v) * g \in Nat
  BY <1>1, <1>5, TimesStep
<1>7. (h + v) * g <= (h + u) * g
  <2>1. h + v <= h + u
    BY <1>5
  <2> QED BY <1>1, <1>5, <2>1, TimesUp
<1> QED BY <1>4, <1>6, <1>7 DEF g

(* The budget is a natural number.                                          *)
LEMMA BudgetNat == ASSUME Arrived PROVE Budget \in Nat /\ Unread \in Nat
<1> DEFINE h == (MaxReads - reads) * ReadBytes
           u == Unread
           g == KeyCells
<1>1. ReadBytes \in Nat /\ g \in Nat /\ MaxReads - reads \in Nat
  <2>1. ReadBytes \in Nat /\ g \in Nat
    BY RoomIs
  <2> QED BY <2>1, CellsAre DEF Arrived
<1>2. h \in Nat /\ u \in Nat
  <2>1. u \in Nat
    BY DEF Arrived, Unread
  <2> QED BY <1>1, <2>1
<1>3. Budget = (h + u) * g
  BY DEF Budget
<1> HIDE DEF h, u, g
<1>4. (h + u) * g \in Nat
  BY <1>1, <1>2
<1> QED BY <1>2, <1>3, <1>4 DEF u

(* Of a byte that is taken there are fewer left.                            *)
LEMMA ByteTaken ==
  ASSUME Arrived, p_rbuf < read_res, p_rbuf' = p_rbuf + 1, UNCHANGED <<input, read_res, running>>
  PROVE  Arrived' /\ Budget' + KeyCells <= Budget /\ Budget' <= Budget /\ Budget' \in Nat
<1>1. Arrived' /\ reads' = reads
  BY DEF Arrived, input
<1>2. Unread' \in Nat /\ Unread' + 1 <= Unread
  BY DEF Arrived, Unread
<1> QED BY <1>1, <1>2, BudgetLess

(* What the buffer holds.                                                   *)
LEMMA LineHolds ==
  ASSUME LineInv
  PROVE  /\ Holds(out_buf, Before, Behind) /\ Len(Before) = p_obuf_cur
         /\ Len(Behind) = StrEnd(out_buf, 0) - p_obuf_cur
         /\ Text \in Seq(Printing) /\ Len(Text) = StrEnd(out_buf, 0) /\ Text = Before \o Behind
         /\ StrEnd(out_buf, 0) \in Nat /\ StrEnd(out_buf, 0) + Budget <= Size - 1
         /\ Before \in Seq(Printing) /\ Behind \in Seq(Printing)
<1> DEFINE e == StrEnd(out_buf, 0)
           z == Size - 1 - Budget
<1>1. Budget \in Nat /\ Budget <= Size - 1
  BY BudgetNat DEF LineInv, Room
<1>2. z \in Cells /\ z + Budget >= Size - 1
  BY <1>1, CellsAre
<1>3. out_buf \in [Cells -> Cell] /\ out_buf[z] = NUL /\ p_obuf_cur \in 0 .. e
  <2> HIDE DEF z
  <2> QED BY <1>2 DEF LineInv, Room
<1> HIDE DEF z
<1>4. /\ Holds(out_buf, Before, Behind) /\ Len(Before) = p_obuf_cur
      /\ Len(Behind) = StrEnd(out_buf, 0) - p_obuf_cur
      /\ e \in Cells /\ e <= z
      /\ Text \in Seq(Printing) /\ Len(Text) = e
  <2>1. /\ Before = SubSeq(Str(out_buf, 0), 1, p_obuf_cur)
        /\ Behind = SubSeq(Str(out_buf, 0), p_obuf_cur + 1, Len(Str(out_buf, 0)))
    BY DEF Text, Before, Behind
  <2>2. /\ Holds(out_buf, Before, Behind) /\ Len(Before) = p_obuf_cur
        /\ Len(Behind) = StrEnd(out_buf, 0) - p_obuf_cur
        /\ StrEnd(out_buf, 0) \in Cells /\ StrEnd(out_buf, 0) <= z
        /\ Str(out_buf, 0) \in Seq(Printing) /\ Len(Str(out_buf, 0)) = StrEnd(out_buf, 0)
    BY ONLY <1>2, <1>3, <2>1, HoldsOf, ZenonT(30) DEF e
  <2> QED BY <2>2 DEF Text, e
<1>5. Text = Before \o Behind
  BY <1>4, HoldsIs, Zenon DEF Text
<1>6. e \in Nat /\ e + Budget <= Size - 1
  <2> HIDE DEF e
  <2> QED BY <1>1, <1>2, <1>4, CellsAre DEF z
<1>7. Before \in Seq(Printing) /\ Behind \in Seq(Printing)
  BY <1>4 DEF Holds
<1> QED BY <1>4, <1>5, <1>6, <1>7

(* Cells stay zero far enough behind the line.                              *)
LEMMA RoomStep ==
  ASSUME LineInv, Budget' + KeyCells <= Budget, Budget' \in Nat,
         \A j \in Cells : j >= StrEnd(out_buf, 0) + KeyCells => out_buf'[j] \in {NUL, out_buf[j]}
  PROVE  Room'
<1> DEFINE e == StrEnd(out_buf, 0)
           g == KeyCells
           B == Budget
           D == Budget'
<1>1. e \in Nat /\ e + B <= Size - 1 /\ g \in Nat /\ B \in Nat /\ D \in Nat /\ D + g <= B
  BY LineHolds, RoomIs, BudgetNat DEF LineInv
<1>2. \A j \in Cells : j + B >= Size - 1 => out_buf[j] = NUL
  BY DEF LineInv, Room
<1>3. \A j \in Cells : j >= e + g => out_buf'[j] \in {NUL, out_buf[j]}
  OBVIOUS
<1>4. Room' <=> D <= Size - 1 /\ \A j \in Cells : j + D >= Size - 1 => out_buf'[j] = NUL
  BY DEF Room, Cells
<1> HIDE DEF e, g, B, D
<1>5. D <= Size - 1
  BY <1>1, CellsAre
<1>6. ASSUME NEW j \in Cells, j + D >= Size - 1 PROVE out_buf'[j] = NUL
  <2>1. j >= e + g /\ j + B >= Size - 1
    BY <1>1, <1>6, CellsAre
  <2>2. out_buf[j] = NUL
    BY <1>2, <2>1
  <2>3. out_buf'[j] \in {NUL, out_buf[j]}
    BY <1>3, <2>1
  <2> QED BY <2>2, <2>3
<1> QED BY <1>4, <1>5, <1>6

(* The terminal keeps its type.                                             *)
LEMMA PrintedNext ==
  ASSUME Printed, NEW s \in Seq(Glyphs), terminal' = Put(terminal, s)
  PROVE  Printed'
<1>1. PICK l \in Seq(Bytes) : \E i \in 0 .. Len(l) : terminal = At(l, i)
  BY DEF Printed
<1>2. PICK i \in 0 .. Len(l) : terminal = At(l, i)
  BY <1>1
<1>3. s \in Seq(Bytes \union {"BS", "CR"})
  BY DEF Glyphs
<1>4. \E m \in Seq(Bytes) : \E k \in 0 .. Len(m) : Put(terminal, s) = At(m, k)
  BY <1>2, <1>3, PutType
<1> QED BY <1>4 DEF Printed

(* A key that leaves l before the cursor and r behind it.                   *)
LEMMA LineNext ==
  ASSUME LineInv, p_rbuf < read_res, NextByte, rough' = rough,
         arrow_pressed' \in {0, 1}, out' \in Seq(Bytes),
         NEW l, NEW r, Holds(out_buf', l, r), p_obuf_cur' = Len(l),
         \A j \in Cells : j >= StrEnd(out_buf, 0) + KeyCells => out_buf'[j] \in {NUL, out_buf[j]},
         NEW s \in Seq(Glyphs), terminal' = Put(terminal, s),
         ~rough => arrow_pressed' = 0 /\ Shown(Glyphs, terminal', l \o r, Len(l))
  PROVE  LineInv' /\ Before' = l /\ Behind' = r
<1>1. Arrived' /\ Budget' + KeyCells <= Budget /\ Budget' \in Nat
  BY ByteTaken DEF LineInv, NextByte
<1>2. Room' /\ Printed'
  BY <1>1, RoomStep, PrintedNext DEF LineInv
<1>3. /\ Str(out_buf', 0) = l \o r
      /\ SubSeq(Str(out_buf', 0), 1, Len(l)) = l
      /\ SubSeq(Str(out_buf', 0), Len(l) + 1, Len(Str(out_buf', 0))) = r
  BY HoldsIs, Zenon
<1>4. Text' = Str(out_buf', 0)
  BY DEF Text
<1>5. Before' = l /\ Behind' = r
  BY <1>3, <1>4 DEF Before, Behind
<1>6. p_obuf_cur' \in 0 .. StrEnd(out_buf', 0) /\ out_buf' \in [Cells -> Cell]
  <2>1. Len(l) \in Nat /\ Len(r) \in Nat /\ out_buf' \in [Cells -> Cell]
    BY DEF Holds
  <2>2. 0 \in 0 .. Len(l) + Len(r)
    BY <2>1
  <2>3. StrEnd(out_buf', 0) = Len(l) + Len(r)
    BY <2>2, HoldsEnd
  <2> QED BY <2>1, <2>3
<1>7. rough' \in BOOLEAN
  BY DEF LineInv
<1>8. ~rough' => arrow_pressed' = 0 /\ Shown(Glyphs, terminal', Text', p_obuf_cur')
  BY <1>3, <1>4
<1>9. StrEnd(out_buf, 0)' = StrEnd(out_buf', 0)
  BY DEF StrEnd, Cells
<1> QED BY <1>1, <1>2, <1>5, <1>6, <1>7, <1>8, <1>9 DEF LineInv, Cells

-----------------------------------------------------------------------------
(***************************************************************************)
(* Its steps                                                               *)
(***************************************************************************)

(* What can be typed can be shown.                                          *)
LEMMA PrintingShown ==
  ASSUME NEW s \in Seq(Printing)
  PROVE  s \in Seq(Glyphs \ Controls) /\ s \in Seq(Glyphs) /\ s \in Seq(Bytes) /\ Len(s) \in Nat
<1>1. Printing \subseteq Glyphs \ Controls /\ Printing \subseteq Glyphs /\ Printing \subseteq Bytes
  BY GlyphFacts DEF Bytes
<1>2. s \in Seq(Glyphs \ Controls)
  BY <1>1, SubSeqOf
<1>3. s \in Seq(Glyphs)
  BY <1>1, SubSeqOf
<1>4. s \in Seq(Bytes)
  BY <1>1, SubSeqOf
<1> QED BY <1>2, <1>3, <1>4

(* What backspace writes to the terminal takes the character before the     *)
(* cursor off the line.                                                     *)
LEMMA ShownBackspace ==
  ASSUME NEW V, Space \in V, Controls \subseteq V, NEW t, NEW l \in Seq(V \ Controls), Len(l) > 0,
         NEW u \in Seq(V \ Controls), Shown(V, t, l \o u, Len(l)),
         NEW a, a = SubSeq(l, 1, Len(l) - 1)
  PROVE  Shown(V, Put(t, <<"BS">> \o u \o <<Space, "BS">> \o Times(Len(u), "BS")), a \o u, Len(l) - 1)
<1> DEFINE W == V \ Controls
           s == l \o u
           r == a \o u
           n == Len(l)
<1>1. n \in Nat /\ n > 0 /\ Len(u) \in Nat
  OBVIOUS
<1> HIDE DEF n
<1>2. a \in Seq(W) /\ Len(a) = n - 1 /\ \A i \in 1 .. n - 1 : a[i] = l[i]
  <2>1. n - 1 \in 0 .. Len(l) /\ a = SubSeq(l, 1, n - 1)
    BY <1>1 DEF n
  <2> HIDE DEF W
  <2>2. l \in Seq(W)
    BY DEF W
  <2> QED BY ONLY <2>1, <2>2, Start, Zenon
<1>3. s \in Seq(W) /\ IsCat(s, l, u) /\ r \in Seq(W) /\ IsCat(r, a, u)
  BY <1>2, Cat, Zenon
<1> HIDE DEF s, r
<1>4. Len(s) = n + Len(u) /\ Len(r) = n - 1 + Len(u)
  BY <1>1, <1>2, <1>3 DEF IsCat, n
<1>5. n \in 1 .. Len(s) /\ Len(u) = Len(s) - n /\ Len(r) = Len(s) - 1
  BY <1>1, <1>4
<1>6. \A i \in 1 .. Len(u) : u[i] = s[n + i] /\ r[n - 1 + i] = u[i]
  BY <1>2, <1>3 DEF IsCat, n
<1>7. \A i \in 1 .. n - 1 : r[i] = s[i]
  <2>1. \A i \in 1 .. n - 1 : i \in 1 .. n
    BY <1>1
  <2> QED BY <1>2, <1>3, <2>1 DEF IsCat, n
<1>8. r \in Seq(V) /\ s \in Seq(V \ Controls) /\ Shown(V, t, s, n)
  <2>1. r \in Seq(V)
    <3>1. W \subseteq V
      OBVIOUS
    <3> HIDE DEF W
    <3> QED BY <1>3, <3>1, SubSeqOf
  <2> QED BY <1>3, <2>1 DEF s, n
<1>9. Shown(V, Put(t, <<"BS">> \o u \o <<Space, "BS">> \o Times(Len(u), "BS")), r, n - 1)
  BY <1>5, <1>6, <1>7, <1>8, ShownErased
<1> QED BY <1>9 DEF r, n

(* The cursor one character further to the left.                            *)
LEMMA MovedLeft ==
  ASSUME NEW V, NEW s \in Seq(V), NEW k \in 1 .. Len(s),
         NEW l, l = SubSeq(s, 1, k), NEW r, r = SubSeq(s, k + 1, Len(s))
  PROVE  SubSeq(s, 1, k - 1) = SubSeq(l, 1, Len(l) - 1) /\ SubSeq(s, k, Len(s)) = <<l[Len(l)]>> \o r
<1> DEFINE a == SubSeq(s, 1, k - 1)
           b == SubSeq(l, 1, k - 1)
           c == SubSeq(s, k, Len(s))
           q == <<l[k]>>
           d == q \o r
           n == Len(s)
<1>1. n \in Nat /\ k \in 1 .. n
  OBVIOUS
<1> HIDE DEF n
<1>2. l \in Seq(V) /\ Len(l) = k /\ \A i \in 1 .. k : l[i] = s[i]
  <2>1. k \in 0 .. Len(s)
    BY <1>1 DEF n
  <2> QED BY <2>1, Start
<1>3. r \in Seq(V) /\ Len(r) = n - k /\ \A i \in 1 .. n - k : r[i] = s[k + i]
  <2>1. k + 1 \in Nat /\ k + 1 > 0 /\ n \in Int /\ (k + 1) - 1 <= n /\ n <= Len(s)
    BY <1>1 DEF n
  <2>2. /\ r \in Seq(V) /\ Len(r) = n - (k + 1) + 1
        /\ \A i \in 1 .. n - (k + 1) + 1 : r[i] = s[k + 1 + i - 1]
    BY <2>1, Piece DEF n
  <2>3. n - (k + 1) + 1 = n - k /\ \A i \in 1 .. n - k : k + 1 + i - 1 = k + i
    BY <1>1
  <2> QED BY <2>2, <2>3
<1>4. a \in Seq(V) /\ Len(a) = k - 1 /\ \A i \in 1 .. k - 1 : a[i] = s[i]
  <2>1. k - 1 \in 0 .. Len(s)
    BY <1>1 DEF n
  <2> QED BY <2>1, Start
<1>5. b \in Seq(V) /\ Len(b) = k - 1 /\ \A i \in 1 .. k - 1 : b[i] = l[i]
  <2>1. k - 1 \in 0 .. Len(l)
    BY <1>1, <1>2
  <2> QED BY <1>2, <2>1, Start
<1>6. c \in Seq(V) /\ Len(c) = n - k + 1 /\ \A i \in 1 .. n - k + 1 : c[i] = s[k + i - 1]
  <2>1. k \in Nat /\ k > 0 /\ n \in Int /\ k - 1 <= n /\ n <= Len(s)
    BY <1>1 DEF n
  <2> QED BY <2>1, Piece DEF n
<1>7. l[k] \in V /\ l[k] = s[k]
  BY <1>1, <1>2
<1>8. q \in Seq(V) /\ Len(q) = 1 /\ q[1] = l[k]
  BY <1>7, OneType
<1> HIDE DEF a, b, c, q, d
<1>9. d \in Seq(V) /\ IsCat(d, q, r)
  BY <1>3, <1>8, Cat DEF d
<1>10. a = b
  <2>1. \A i \in 1 .. Len(a) : a[i] = b[i]
    <3>1. \A i \in 1 .. k - 1 : i \in 1 .. k
      BY <1>1
    <3> QED BY <1>2, <1>4, <1>5, <3>1
  <2>2. Len(a) = Len(b)
    BY <1>4, <1>5
  <2> QED BY <1>4, <1>5, <2>1, <2>2, SeqEqual
<1>11. c = d
  <2>1. Len(d) = 1 + (n - k) /\ (\A i \in 1 .. 1 : d[i] = q[i]) /\ \A i \in 1 .. n - k : d[1 + i] = r[i]
    BY <1>3, <1>8, <1>9 DEF IsCat
  <2>2. Len(c) = Len(d)
    BY <1>1, <1>6, <2>1
  <2>3. ASSUME NEW i \in 1 .. n - k + 1 PROVE c[i] = d[i]
    <3>1. CASE i = 1
      <4>1. c[1] = s[k + 1 - 1] /\ k + 1 - 1 = k
        BY <1>1, <1>6
      <4> QED BY <1>7, <1>8, <2>1, <3>1, <4>1
    <3>2. CASE i # 1
      <4> DEFINE j == i - 1
      <4>1. j \in 1 .. n - k /\ 1 + j = i /\ k + i - 1 = k + j
        BY <1>1, <3>2
      <4> HIDE DEF j
      <4>2. d[1 + j] = r[j] /\ r[j] = s[k + j] /\ c[i] = s[k + i - 1]
        BY <1>3, <1>6, <2>1, <4>1
      <4> QED BY <4>1, <4>2
    <3> QED BY <3>1, <3>2
  <2>4. \A i \in 1 .. Len(c) : c[i] = d[i]
    BY <1>6, <2>3
  <2> QED BY <1>6, <1>9, <2>2, <2>4, SeqEqual
<1>12. SubSeq(l, 1, Len(l) - 1) = b /\ <<l[Len(l)]>> = q
  BY <1>2 DEF b, q
<1> QED BY <1>10, <1>11, <1>12 DEF a, c, d

(* And one further to the right.                                            *)
LEMMA MovedRight ==
  ASSUME NEW V, NEW s \in Seq(V), NEW k \in 0 .. Len(s) - 1,
         NEW l, l = SubSeq(s, 1, k), NEW r, r = SubSeq(s, k + 1, Len(s))
  PROVE  /\ SubSeq(s, 1, k + 1) = Append(l, Head(r)) /\ SubSeq(s, k + 2, Len(s)) = Tail(r)
         /\ r # <<>> /\ Head(r) = s[k + 1]
<1> DEFINE n == Len(s)
           c == SubSeq(s, k + 2, n)
           d == Tail(r)
<1>1. n \in Nat /\ k \in 0 .. n - 1
  OBVIOUS
<1> HIDE DEF n
<1>2. r \in Seq(V) /\ Len(r) = n - k /\ \A i \in 1 .. n - k : r[i] = s[k + i]
  <2>1. k + 1 \in Nat /\ k + 1 > 0 /\ n \in Int /\ (k + 1) - 1 <= n /\ n <= Len(s)
    BY <1>1 DEF n
  <2>2. /\ r \in Seq(V) /\ Len(r) = n - (k + 1) + 1
        /\ \A i \in 1 .. n - (k + 1) + 1 : r[i] = s[k + 1 + i - 1]
    BY <2>1, Piece DEF n
  <2>3. n - (k + 1) + 1 = n - k /\ \A i \in 1 .. n - k : k + 1 + i - 1 = k + i
    BY <1>1
  <2> QED BY <2>2, <2>3
<1>3. r # <<>> /\ Head(r) = s[k + 1]
  <2>1. Len(r) # 0 /\ 1 \in 1 .. n - k
    BY <1>1, <1>2, SMTT(30)
  <2>2. r # <<>>
    BY <2>1
  <2>3. Head(r) = r[1]
    BY <1>2, <2>2
  <2> QED BY <1>2, <2>1, <2>2, <2>3
<1>4. SubSeq(s, 1, k + 1) = Append(l, s[k + 1])
  <2>1. k \in 0 .. Len(s) - 1
    OBVIOUS
  <2> QED BY <2>1, Beginnings
<1>5. c \in Seq(V) /\ Len(c) = n - k - 1 /\ \A i \in 1 .. n - k - 1 : c[i] = s[k + 1 + i]
  <2>1. k + 2 \in Nat /\ k + 2 > 0 /\ n \in Int /\ (k + 2) - 1 <= n /\ n <= Len(s)
    BY <1>1 DEF n
  <2>2. /\ c \in Seq(V) /\ Len(c) = n - (k + 2) + 1
        /\ \A i \in 1 .. n - (k + 2) + 1 : c[i] = s[k + 2 + i - 1]
    BY <2>1, Piece DEF n
  <2>3. n - (k + 2) + 1 = n - k - 1 /\ \A i \in 1 .. n - k - 1 : k + 2 + i - 1 = k + 1 + i
    BY <1>1
  <2> HIDE DEF c
  <2> QED BY <2>2, <2>3
<1>6. d \in Seq(V) /\ Len(d) = n - k - 1 /\ \A i \in 1 .. n - k - 1 : d[i] = r[i + 1]
  <2>1. d \in Seq(V) /\ Len(d) = Len(r) - 1 /\ \A i \in 1 .. Len(r) - 1 : d[i] = r[i + 1]
    BY <1>2, <1>3, HeadTailProperties
  <2> QED BY <1>2, <2>1
<1> HIDE DEF c, d
<1>7. \A i \in 1 .. n - k - 1 : d[i] = s[k + 1 + i]
  <2>1. \A i \in 1 .. n - k - 1 : i + 1 \in 1 .. n - k /\ k + (i + 1) = k + 1 + i
    BY <1>1
  <2> QED BY <1>2, <1>6, <2>1
<1>8. c = d
  <2>1. Len(c) = Len(d) /\ \A i \in 1 .. Len(c) : c[i] = d[i]
    BY <1>5, <1>6, <1>7
  <2> QED BY <1>5, <1>6, <2>1, SeqEqual
<1> QED BY <1>3, <1>4, <1>8 DEF c, d, n

(* A step that changes neither the line nor the terminal.                   *)
LEMMA LineKept ==
  ASSUME LineInv, UNCHANGED <<out_buf, p_obuf_cur, out, terminal>>, Arrived',
         Budget' \in Nat, Budget' <= Budget, rough' \in BOOLEAN, rough => rough',
         arrow_pressed' \in {0, 1}, ~rough' => arrow_pressed' = arrow_pressed
  PROVE  LStep
<1>1. Room'
  <2> DEFINE B == Budget
             D == Budget'
  <2>1. B \in Nat /\ D \in Nat /\ D <= B /\ B <= Size - 1 /\ \A j \in Cells : j + B >= Size - 1 => out_buf[j] = NUL
    BY BudgetNat DEF LineInv, Room
  <2>2. Room' <=> D <= Size - 1 /\ \A j \in Cells : j + D >= Size - 1 => out_buf'[j] = NUL
    BY DEF Room, Cells
  <2>3. out_buf' = out_buf
    OBVIOUS
  <2> HIDE DEF B, D
  <2>4. D <= Size - 1
    BY <2>1, CellsAre
  <2>5. \A j \in Cells : j + D >= Size - 1 => j + B >= Size - 1
    BY <2>1, CellsAre
  <2> QED BY <2>1, <2>2, <2>3, <2>4, <2>5
<1>2. Printed'
  BY DEF LineInv, Printed
<1>3. Text' = Text /\ StrEnd(out_buf, 0)' = StrEnd(out_buf, 0) /\ Before' = Before /\ Behind' = Behind
  BY DEF Text, Str, StrEnd, Before, Behind, Cells
<1>4. ~rough' => arrow_pressed' = 0 /\ Shown(Glyphs, terminal', Text', p_obuf_cur')
  BY <1>3 DEF LineInv
<1>5. LineInv'
  BY <1>1, <1>2, <1>3, <1>4 DEF LineInv, Cells
<1>6. UNCHANGED Ideal!line
  BY <1>3 DEF Ideal!line
<1> QED BY <1>5, <1>6 DEF LStep

(* The same when the history does not matter either.                        *)
LEMMA LineSame ==
  ASSUME LineInv, UNCHANGED <<out_buf, p_obuf_cur, arrow_pressed, out, terminal>>, Arrived',
         Budget' \in Nat, Budget' <= Budget, rough' \in BOOLEAN, rough => rough'
  PROVE  LStep
BY LineKept DEF LineInv

(* read() returns.                                                          *)
LEMMA LineRead == ASSUME LineInv, NEW s \in Inputs, Read(s) PROVE LStep
<1> DEFINE n == MaxReads - reads
           m == n - 1
           B == ReadBytes
           g == KeyCells
           u == Unread
           L == Len(s)
<1>1. s \in Seq(Printing \union Keys)
  BY InputsAssumption
<1>2. L \in Nat /\ L <= B /\ B \in Nat /\ g \in Nat
  BY <1>1, RoomIs
<1>3. reads \in Nat /\ reads < MaxReads /\ reads' = reads + 1 /\ MaxReads \in Nat
  BY CellsAre DEF Read, LineInv, Arrived
<1>4. m \in Nat /\ n = m + 1 /\ MaxReads - reads' = m
  BY <1>3
<1>5. read_buf' = s /\ read_res' = L /\ p_rbuf' = 0 /\ running' = running
  BY DEF Read
<1>6. Arrived'
  BY <1>2, <1>3, <1>5 DEF Arrived, LineInv
<1>7. u = 0
  BY DEF Read, Waiting, Unread, LineInv, Arrived
<1>8. Unread' = L
  BY <1>2, <1>5 DEF Unread
<1>9. Budget = (n * B + u) * g /\ Budget' = (m * B + L) * g
  BY <1>4, <1>8 DEF Budget
<1> HIDE DEF n, m, B, g, u, L
<1>10. n * B = m * B + B /\ m * B \in Nat
  BY <1>2, <1>4
<1>11. m * B + L <= n * B + u /\ m * B + L \in Nat /\ n * B + u \in Nat
  <2> DEFINE p == m * B
             q == n * B
  <2>1. q = p + B /\ p \in Nat
    BY <1>10
  <2> HIDE DEF p, q
  <2>2. p + L <= q + u /\ p + L \in Nat /\ q + u \in Nat
    BY <1>2, <1>7, <2>1
  <2> QED BY <2>2 DEF p, q
<1>12. Budget' <= Budget /\ Budget' \in Nat
  BY <1>2, <1>9, <1>11, TimesUp
<1>13. UNCHANGED <<out_buf, p_obuf_cur, arrow_pressed, out, terminal>>
  BY DEF Read, editor
<1>14. rough' \in BOOLEAN /\ (rough => rough')
  BY DEF Read, LineInv
<1> QED BY <1>6, <1>12, <1>13, <1>14, LineSame

(* A byte that changes nothing.                                             *)
LEMMA ByteSame ==
  ASSUME LineInv, p_rbuf < read_res, NextByte, UNCHANGED <<out_buf, p_obuf_cur, arrow_pressed, out, terminal, rough>>
  PROVE  LStep
<1>1. Arrived' /\ Budget' <= Budget /\ Budget' \in Nat
  BY ByteTaken DEF LineInv, NextByte
<1> QED BY <1>1, LineSame DEF LineInv

(* Ctrl-D.                                                                  *)
LEMMA LineQuit == ASSUME LineInv, Quit PROVE LStep
<1>1. /\ p_rbuf < read_res /\ p_rbuf' = p_rbuf + 1 /\ UNCHANGED <<input, read_res>>
      /\ UNCHANGED <<out_buf, p_obuf_cur, arrow_pressed, out, terminal, rough>> /\ running' \in BOOLEAN
  BY DEF Quit, Reading, editor
<1>2. Arrived'
  BY <1>1 DEF LineInv, Arrived, input
<1>3. Unread' \in Nat /\ Unread' + 1 <= Unread /\ reads' = reads
  BY <1>1 DEF LineInv, Arrived, Unread, input
<1>4. Budget' <= Budget /\ Budget' \in Nat
  BY <1>3, BudgetLess DEF LineInv
<1> QED BY <1>1, <1>2, <1>4, LineSame DEF LineInv

(* Enter.                                                                   *)
LEMMA LineEnter == ASSUME LineInv, Enter PROVE LStep
<1> DEFINE e == <<>>
           q == <<"LF">>
<1>1. /\ p_rbuf < read_res /\ NextByte /\ rough' = rough /\ arrow_pressed' = arrow_pressed
      /\ out' = Text /\ out_buf' = [out_buf EXCEPT ![0] = NUL] /\ p_obuf_cur' = 0
      /\ terminal' = Put(terminal, q)
  BY DEF Enter, Reading, Shows, Put
<1>2. e \in Seq(Printing) /\ Len(e) = 0 /\ e \o e = e
  <2>1. e \in Seq(Printing) /\ Len(e) = 0
    OBVIOUS
  <2> QED BY <2>1, ConcatEmptySeq
<1>3. q \in Seq(Glyphs)
  <2>1. "LF" \in Glyphs
    BY GlyphFacts DEF Controls
  <2> QED BY <2>1
<1>4. Text \in Seq(Bytes) /\ Text = Before \o Behind
  BY LineHolds, PrintingShown
<1>5. \A j \in Cells : out_buf'[j] \in {NUL, out_buf[j]}
  BY <1>1 DEF LineInv
<1>6. out_buf' \in [Cells -> Cell] /\ out_buf'[0] = NUL /\ 0 \in Cells
  BY <1>1, CellsAre DEF LineInv, Cell
<1>7. Shown(Glyphs, terminal', e, 0)
  BY <1>1, ShownLF
<1> HIDE DEF e, q
<1>8. Holds(out_buf', e, e)
  <2>1. Len(e) + Len(e) = 0 /\ 1 .. Len(e) = {}
    BY <1>2
  <2> QED BY <1>2, <1>6, <2>1 DEF Holds
<1>9. arrow_pressed' \in {0, 1} /\ (~rough => arrow_pressed' = 0)
  BY <1>1 DEF LineInv
<1>10. p_obuf_cur' = Len(e) /\ out' \in Seq(Bytes) /\ Shown(Glyphs, terminal', e \o e, Len(e))
  BY ONLY <1>1, <1>2, <1>4, <1>7, Zenon
<1>11. LineInv' /\ Before' = e /\ Behind' = e
  BY <1>1, <1>3, <1>5, <1>8, <1>9, <1>10, LineNext
<1>12. Ideal!Enter
  BY <1>1, <1>4, <1>11 DEF Ideal!Enter, e
<1> QED BY <1>11, <1>12 DEF LStep, Ideal!Next

(* Backspace.                                                               *)
LEMMA LineBackspace == ASSUME LineInv, Backspace PROVE LStep
<1>1. p_rbuf < read_res /\ NextByte /\ rough' = rough /\ arrow_pressed' = arrow_pressed /\ out' = out
  BY DEF Backspace, Reading
<1>2. CASE p_obuf_cur = 0
  BY <1>1, <1>2, ByteSame DEF Backspace
<1>3. CASE p_obuf_cur # 0
  <2> DEFINE l == Before
             r == Behind
             c == p_obuf_cur
             a == SubSeq(l, 1, Len(l) - 1)
             e == <<>>
             b == out_buf'
             o == <<"BS">> \o r \o <<Space, "BS">> \o Times(Len(r), "BS")
             E == StrEnd(out_buf, 0)
  <2>1. /\ Holds(out_buf, l, r) /\ Len(l) = c /\ Len(r) = E - c /\ Text = l \o r
        /\ E \in Nat /\ E + Budget <= Size - 1 /\ l \in Seq(Printing) /\ r \in Seq(Printing)
    BY LineHolds
  <2>2. Str(out_buf, c) = r
    BY <2>1, HoldsIs
  <2>3. b = StrCpy(out_buf, c - 1, r) /\ p_obuf_cur' = c - 1 /\ terminal' = Put(terminal, o)
    BY <1>3, <2>2 DEF Backspace, BackTo, Shows, Put
  <2> HIDE DEF l, r, a, e, b, o, E
  <2>4. Len(l) \in Nat /\ Len(r) \in Nat /\ c \in Nat /\ c > 0 /\ Len(l) > 0 /\ c - 1 \in 0 .. Len(l) /\ Len(l) - 1 = c - 1
        /\ Budget \in Nat /\ KeyCells \in Nat \ {0}
    <3>1. Len(l) \in Nat /\ Len(r) \in Nat
      BY <2>1
    <3>2. Budget \in Nat /\ KeyCells \in Nat \ {0}
      BY BudgetNat, RoomIs DEF LineInv
    <3> QED BY <1>3, <2>1, <3>1, <3>2
  <2>5. a \in Seq(Printing) /\ Len(a) = c - 1 /\ a = SubSeq(l, 1, c - 1)
    <3>1. a = SubSeq(l, 1, c - 1)
      BY <2>4 DEF a
    <3> QED BY <2>1, <2>4, <3>1, Start
  <2>6. e \in Seq(Printing) /\ Len(e) = 0 /\ e \o r = r /\ a \o e = a
    <3>1. e \in Seq(Printing) /\ Len(e) = 0
      BY DEF e
    <3> QED BY <2>1, <2>5, <3>1, ConcatEmptySeq DEF e
  <2>7. c - 1 + Len(e) + Len(r) = E - 1 /\ E - 1 \in Cells
    BY <2>1, <2>4, <2>6, CellsAre
  <2>8. Holds(b, a, r)
    <3>1. \A j \in Cells : out_buf[j] \in Cell
      BY DEF LineInv
    <3>2. Holds(StrCpy(out_buf, c - 1, r), SubSeq(l, 1, c - 1) \o e, r)
      BY <2>1, <2>4, <2>6, <2>7, <3>1, HoldsCopy DEF Agree, Filled
    <3> QED BY <2>3, <2>5, <2>6, <3>2
  <2>9. \A j \in Cells : j >= E + KeyCells => b[j] \in {NUL, out_buf[j]}
    <3> SUFFICES ASSUME NEW j \in Cells, j >= E + KeyCells PROVE b[j] \in {NUL, out_buf[j]}
      OBVIOUS
    <3>1. j > c - 1 + Len(r) /\ c - 1 \in Nat
      BY <2>1, <2>4, CellsAre
    <3> QED BY <2>1, <2>3, <3>1, CopyCell
  <2>10. o \in Seq(Glyphs)
    <3>1. "BS" \in Glyphs /\ Space \in Glyphs
      BY GlyphFacts DEF Controls
    <3>2. <<"BS">> \in Seq(Glyphs) /\ <<Space, "BS">> \in Seq(Glyphs)
      BY <3>1
    <3>3. r \in Seq(Glyphs) /\ Times(Len(r), "BS") \in Seq(Glyphs)
      BY <2>1, <2>4, <3>1, PrintingShown, TimesType
    <3>4. <<"BS">> \o r \in Seq(Glyphs)
      BY <3>2, <3>3, CatLen, Zenon
    <3>5. <<"BS">> \o r \o <<Space, "BS">> \in Seq(Glyphs)
      BY <3>2, <3>4, CatLen, Zenon
    <3> QED BY <3>3, <3>5, CatLen, Zenon DEF o
  <2>11. arrow_pressed' \in {0, 1} /\ out' \in Seq(Bytes) /\ (~rough => arrow_pressed' = 0)
    BY <1>1 DEF LineInv
  <2>12. ASSUME ~rough PROVE Shown(Glyphs, terminal', a \o r, Len(a))
    <3>1. Shown(Glyphs, terminal, l \o r, Len(l))
      BY <2>1, <2>12 DEF LineInv
    <3>2. l \in Seq(Glyphs \ Controls) /\ r \in Seq(Glyphs \ Controls) /\ Space \in Glyphs /\ Controls \subseteq Glyphs
      BY <2>1, PrintingShown, GlyphFacts
    <3>3. Shown(Glyphs, Put(terminal, <<"BS">> \o r \o <<Space, "BS">> \o Times(Len(r), "BS")), a \o r, Len(l) - 1)
      BY <2>4, <3>1, <3>2, ShownBackspace DEF a
    <3> QED BY <2>3, <2>4, <2>5, <3>3 DEF o
  <2>13. p_obuf_cur' = Len(a)
    BY <2>3, <2>5
  <2>14. LineInv' /\ Before' = a /\ Behind' = r
    BY <1>1, <2>3, <2>8, <2>9, <2>10, <2>11, <2>12, <2>13, LineNext DEF b, E
  <2>15. Ideal!Backspace
    <3>1. Before # <<>>
      <4>1. Len(Before) # 0
        BY <2>4 DEF l
      <4> QED BY <4>1
    <3> QED BY <1>1, <2>14, <3>1, ShortWords DEF Ideal!Backspace, a, l, r
  <2> QED BY <2>14, <2>15 DEF LStep, Ideal!Next
<1> QED BY <1>2, <1>3

SplitAt(s, k, l, r) == l = SubSeq(s, 1, k) /\ r = SubSeq(s, k + 1, Len(s))

(* A line split one character further to the left.                          *)
LEMMA SplitLeft ==
  ASSUME NEW V, NEW s \in Seq(V), NEW k \in 1 .. Len(s), NEW l, NEW r, SplitAt(s, k, l, r)
  PROVE  SplitAt(s, k - 1, SubSeq(l, 1, Len(l) - 1), <<l[Len(l)]>> \o r)
<1>1. l = SubSeq(s, 1, k) /\ r = SubSeq(s, k + 1, Len(s))
  BY DEF SplitAt
<1>2. SubSeq(s, 1, k - 1) = SubSeq(l, 1, Len(l) - 1) /\ SubSeq(s, k, Len(s)) = <<l[Len(l)]>> \o r
  BY <1>1, MovedLeft
<1>3. (k - 1) + 1 = k
  OBVIOUS
<1> QED BY ONLY <1>2, <1>3, Zenon DEF SplitAt

(* And one further to the right.                                            *)
LEMMA SplitRight ==
  ASSUME NEW V, NEW s \in Seq(V), NEW k \in 0 .. Len(s) - 1, NEW l, NEW r, SplitAt(s, k, l, r)
  PROVE  SplitAt(s, k + 1, Append(l, Head(r)), Tail(r)) /\ Head(r) = s[k + 1]
<1>1. l = SubSeq(s, 1, k) /\ r = SubSeq(s, k + 1, Len(s))
  BY DEF SplitAt
<1>2. SubSeq(s, 1, k + 1) = Append(l, Head(r)) /\ SubSeq(s, k + 2, Len(s)) = Tail(r) /\ Head(r) = s[k + 1]
  BY <1>1, MovedRight
<1>3. (k + 1) + 1 = k + 2
  OBVIOUS
<1> DEFINE a == Append(l, Head(r))
           b == Tail(r)
<1>4. SubSeq(s, 1, k + 1) = a /\ SubSeq(s, k + 2, Len(s)) = b
  BY <1>2
<1> HIDE DEF a, b
<1>5. SplitAt(s, k + 1, a, b)
  BY ONLY <1>3, <1>4, Zenon DEF SplitAt
<1> QED BY <1>2, <1>5 DEF a, b

(* A step that moves the cursor and leaves the text.                        *)
LEMMA LineMoved ==
  ASSUME LineInv, UNCHANGED <<out_buf, out, arrow_pressed, rough>>, Arrived',
         Budget' + KeyCells <= Budget, Budget' \in Nat,
         p_obuf_cur' \in 0 .. StrEnd(out_buf, 0), NEW s \in Seq(Glyphs), terminal' = Put(terminal, s),
         ~rough => Shown(Glyphs, terminal', Text, p_obuf_cur')
  PROVE  LineInv' /\ Before' = SubSeq(Text, 1, p_obuf_cur') /\ Behind' = SubSeq(Text, p_obuf_cur' + 1, Len(Text))
<1>1. Room' /\ Printed'
  BY RoomStep, PrintedNext DEF LineInv
<1>2. Text' = Text /\ StrEnd(out_buf, 0)' = StrEnd(out_buf, 0)
  BY DEF Text, Str, StrEnd, Cells
<1>3. LineInv'
  BY <1>1, <1>2 DEF LineInv, Cells
<1> QED BY <1>2, <1>3 DEF Before, Behind

(* The bytes of an escape sequence are a finite number.                     *)
LEMMA EscapeLen == ASSUME Arrived, p_rbuf < read_res PROVE Len(EscapeSeq) \in Nat
<1> DEFINE stops == {i \in 2 .. read_res : read_buf[i] = "ESC"}
           n == IF stops = {} THEN read_res ELSE Min(stops) - 1
<1>1. read_buf \in Seq(Printing \union Keys)
  <2>1. <<>> \in Seq(Printing \union Keys)
    OBVIOUS
  <2> QED BY <2>1, InputsAssumption DEF Arrived
<1>2. read_res \in Nat /\ read_res <= Len(read_buf)
  BY DEF Arrived
<1>3. n \in 0 .. Len(read_buf)
  <2>1. CASE stops = {}
    BY <1>1, <1>2, <2>1
  <2>2. CASE stops # {}
    <3>1. stops \in SUBSET Nat
      OBVIOUS
    <3>2. Min(stops) \in stops
      <4> HIDE DEF stops
      <4> QED BY <2>2, <3>1, MinOf
    <3>3. Min(stops) \in 2 .. read_res
      BY <3>2
    <3>4. n = Min(stops) - 1
      BY <2>2
    <3> HIDE DEF n, stops
    <3> QED BY <1>1, <1>2, <3>3, <3>4
  <2> QED BY <2>1, <2>2
<1>4. EscapeSeq = SubSeq(read_buf, 1, n)
  BY DEF EscapeSeq
<1> HIDE DEF n
<1>5. Len(SubSeq(read_buf, 1, n)) = n
  BY <1>1, <1>3, Start
<1> QED BY <1>1, <1>3, <1>4, <1>5

(* An escape sequence takes at least the byte it begins with.               *)
LEMMA EscapeTaken ==
  ASSUME LineInv, Escape
  PROVE  Arrived' /\ Budget' + KeyCells <= Budget /\ Budget' <= Budget /\ Budget' \in Nat
<1> DEFINE k == Len(EscapeSeq)
<1>1. /\ p_rbuf < read_res /\ p_rbuf' = p_rbuf + 1 /\ read_res' = read_res - k
      /\ read_buf' = read_buf /\ reads' = reads /\ running' = running /\ Arrived
  BY DEF Escape, Reading, input, LineInv
<1>2. k \in Nat
  BY <1>1, EscapeLen
<1> HIDE DEF k
<1>3. Len(read_buf) \in Nat
  <2>1. read_buf \in Seq(Printing \union Keys)
    <3>1. <<>> \in Seq(Printing \union Keys)
      OBVIOUS
    <3> QED BY <1>1, <3>1, InputsAssumption DEF Arrived
  <2> QED BY <2>1
<1>4. Arrived'
  <2>1. read_res' \in Int /\ read_res' <= Len(read_buf) /\ p_rbuf' \in Nat
    BY <1>1, <1>2, <1>3 DEF Arrived
  <2> QED BY <1>1, <2>1 DEF Arrived
<1>5. Unread' \in Nat /\ Unread' + 1 <= Unread
  BY <1>1, <1>2 DEF Arrived, Unread
<1> QED BY <1>1, <1>4, <1>5, BudgetLess

(* Arrow keys and other escape sequences.                                   *)
LEMMA LineEscape == ASSUME LineInv, Escape PROVE LStep
<1> DEFINE c == p_obuf_cur
           l == Before
           r == Behind
           E == StrEnd(out_buf, 0)
<1>1. Arrived' /\ Budget' + KeyCells <= Budget /\ Budget' <= Budget /\ Budget' \in Nat
  BY EscapeTaken
<1>2. /\ arrow_pressed' = (IF Refused THEN 1 ELSE arrow_pressed) /\ rough' = (rough \/ Refused)
      /\ out_buf' = out_buf /\ out' = out
  BY DEF Escape
<1>3. \/ Arrow = "D" /\ ~Refused /\ c' = c - 1 /\ terminal' = Put(terminal, <<"BS">>)
      \/ Arrow = "C" /\ ~Refused /\ c' = c + 1 /\ terminal' = Put(terminal, <<out_buf[c]>>)
      \/ UNCHANGED <<c, terminal>>
  <2>1. CASE Arrow = "D" /\ ~Refused
    BY <2>1 DEF Escape, Shows, Put
  <2>2. CASE Arrow = "C" /\ ~Refused
    BY <2>2 DEF Escape, Shows, Put
  <2>3. CASE ~(Arrow = "D" /\ ~Refused) /\ ~(Arrow = "C" /\ ~Refused)
    BY <2>3 DEF Escape
  <2> QED BY <2>1, <2>2, <2>3
<1>4. /\ Holds(out_buf, l, r) /\ Len(l) = c /\ Len(r) = E - c /\ Text = l \o r
      /\ E \in Nat /\ l \in Seq(Printing) /\ r \in Seq(Printing) /\ Text \in Seq(Printing) /\ Len(Text) = E
  BY LineHolds
<1>5. c \in 0 .. E /\ rough \in BOOLEAN /\ arrow_pressed \in {0, 1}
  BY DEF LineInv
<1>6. SplitAt(Text, c, l, r)
  BY DEF Before, Behind, SplitAt
<1>7. CASE Arrow = "D" /\ ~Refused /\ c' = c - 1 /\ terminal' = Put(terminal, <<"BS">>)
  <2>1. c # 0
    BY <1>7 DEF Refused
  <2>2. c \in 1 .. Len(Text) /\ c - 1 \in 0 .. E /\ c > 0 /\ c \in Nat
    BY <1>4, <1>5, <2>1
  <2>3. ~rough => Shown(Glyphs, terminal', Text, c')
    <3>1. ASSUME ~rough PROVE Shown(Glyphs, Put(terminal, <<"BS">>), Text, c - 1)
      BY <2>2, <3>1, ShownLeft DEF LineInv
    <3> QED BY <1>7, <3>1
  <2>4. <<"BS">> \in Seq(Glyphs)
    <3>1. "BS" \in Glyphs
      BY GlyphFacts DEF Controls
    <3> QED BY <3>1
  <2> DEFINE q == <<"BS">>
  <2> HIDE DEF q
  <2>5. LineInv' /\ Before' = SubSeq(Text, 1, c') /\ Behind' = SubSeq(Text, c' + 1, Len(Text))
    <3>1. UNCHANGED <<out_buf, out, arrow_pressed, rough>> /\ c' \in 0 .. E
      <4>1. arrow_pressed' = arrow_pressed /\ (rough' <=> rough) /\ rough' \in BOOLEAN
        BY <1>2, <1>5, <1>7, Zenon
      <4>2. c' \in 0 .. E
        BY ONLY <1>7, <2>2, Zenon
      <4> QED BY <1>2, <1>5, <4>1, <4>2, Zenon
    <3>2. terminal' = Put(terminal, q) /\ q \in Seq(Glyphs)
      BY <1>7, <2>4 DEF q
    <3> QED BY <1>1, <2>3, <3>1, <3>2, LineMoved
  <2>6. c' = c - 1 /\ c' + 1 = c
    BY <1>7, <2>2
  <2>7. Before' = SubSeq(l, 1, Len(l) - 1) /\ Behind' = <<l[Len(l)]>> \o r
    <3>1. SplitAt(Text, c - 1, SubSeq(l, 1, Len(l) - 1), <<l[Len(l)]>> \o r)
      BY ONLY <1>4, <1>6, <2>2, SplitLeft, Zenon
    <3>2. SplitAt(Text, c', SubSeq(l, 1, Len(l) - 1), <<l[Len(l)]>> \o r)
      BY ONLY <2>6, <3>1, Zenon
    <3> QED BY ONLY <2>5, <3>2, Zenon DEF SplitAt
  <2>8. l # <<>>
    <3>1. Len(l) # 0
      BY <1>4, <2>1
    <3> QED BY <3>1
  <2>9. Ideal!Left
    BY <1>2, <2>7, <2>8, ShortWords DEF Ideal!Left
  <2> QED BY <2>5, <2>9 DEF LStep, Ideal!Next
<1>8. CASE Arrow = "C" /\ ~Refused /\ c' = c + 1 /\ terminal' = Put(terminal, <<out_buf[c]>>)
  <2> DEFINE x == out_buf[c]
             q == <<x>>
  <2>1. x # NUL
    BY <1>8 DEF Refused
  <2>2. r # <<>> /\ x = r[1] /\ x \in Printing /\ Len(r) >= 1
    BY <1>4, <2>1, HoldsAt
  <2>3. c \in 0 .. Len(Text) - 1 /\ c + 1 \in 0 .. E
    BY <1>4, <1>5, <2>2
  <2>4. SplitAt(Text, c + 1, Append(l, Head(r)), Tail(r)) /\ Head(r) = Text[c + 1]
    BY <1>4, <1>6, <2>3, SplitRight
  <2>5. x = Text[c + 1]
    <3>1. Head(r) = r[1]
      BY <1>4, <2>2
    <3> QED BY <2>2, <2>4, <3>1
  <2>6. Text \in Seq(Glyphs) /\ x \in Glyphs \ Controls /\ x \in Glyphs /\ q \in Seq(Glyphs)
    <3>1. x \in Glyphs \ Controls /\ x \in Glyphs
      BY <2>2, GlyphFacts
    <3> HIDE DEF x
    <3> QED BY <1>4, <3>1, PrintingShown
  <2> HIDE DEF x, q
  <2>7. ~rough => Shown(Glyphs, terminal', Text, c')
    <3>1. ASSUME ~rough PROVE Shown(Glyphs, Put(terminal, <<x>>), Text, c + 1)
      BY <2>3, <2>5, <2>6, <3>1, ShownRight DEF LineInv
    <3> QED BY <1>8, <3>1 DEF x
  <2>8. LineInv' /\ Before' = SubSeq(Text, 1, c') /\ Behind' = SubSeq(Text, c' + 1, Len(Text))
    <3>1. UNCHANGED <<out_buf, out, arrow_pressed, rough>> /\ c' \in 0 .. E
      <4>1. arrow_pressed' = arrow_pressed /\ (rough' <=> rough) /\ rough' \in BOOLEAN
        BY <1>2, <1>5, <1>8, Zenon
      <4>2. c' \in 0 .. E
        BY ONLY <1>8, <2>3, Zenon
      <4> QED BY <1>2, <1>5, <4>1, <4>2, Zenon
    <3>2. terminal' = Put(terminal, q)
      BY <1>8 DEF q, x
    <3> QED BY <1>1, <2>6, <2>7, <3>1, <3>2, LineMoved
  <2>10. Before' = Append(l, Head(r)) /\ Behind' = Tail(r)
    <3> DEFINE a == Append(l, Head(r))
               d == Tail(r)
    <3> HIDE DEF a, d
    <3>1. SplitAt(Text, c', a, d)
      BY <1>8, <2>4 DEF a, d
    <3>2. Before' = a /\ Behind' = d
      BY ONLY <2>8, <3>1, Zenon DEF SplitAt
    <3> QED BY <3>2 DEF a, d
  <2>11. Ideal!Right
    BY <1>2, <2>2, <2>10 DEF Ideal!Right
  <2> QED BY <2>8, <2>11 DEF LStep, Ideal!Next
<1>9. CASE UNCHANGED <<c, terminal>>
  <2>1. arrow_pressed' \in {0, 1} /\ rough' \in BOOLEAN /\ (rough => rough') /\ (~rough' => arrow_pressed' = arrow_pressed)
    BY <1>2, <1>5 DEF Refused
  <2> QED BY <1>1, <1>2, <1>9, <2>1, LineKept
<1> QED BY <1>3, <1>7, <1>8, <1>9

(* What both arrows and words need: the text written again.                 *)
LEMMA PrintUpdated ==
  ASSUME NEW b, NEW s \in Seq(Printing), Str(b, 0) = s, NEW cur \in 0 .. Len(s), NEW n \in Nat,
         NEW o, o = print_updated_buf(b, cur, n)
  PROVE  /\ o \in Seq(Glyphs)
         /\ \A t : \A s0 \in Seq(Glyphs) : \A k \in Nat :
              Shown(Glyphs, t, s0, k) /\ Len(s) + n >= Len(s0) => Shown(Glyphs, Put(t, o), s, cur)
<1> DEFINE m == Len(s) - cur
           f == <<"CR">>
           x == Times(n, Space)
           y == Times(n, "BS")
           z == Times(m, "BS")
<1>1. o = f \o s \o x \o y \o f \o s \o z
  BY DEF print_updated_buf
<1>2. Len(s) \in Nat /\ m \in 0 .. Len(s) /\ Len(s) - m = cur
  BY PrintingShown
<1>3. "CR" \in Glyphs /\ "BS" \in Glyphs /\ Space \in Glyphs /\ Controls \subseteq Glyphs
      /\ s \in Seq(Glyphs \ Controls) /\ s \in Seq(Glyphs)
  BY GlyphFacts, PrintingShown DEF Controls
<1>4. f \in Seq(Glyphs)
  BY <1>3
<1>5. x \in Seq(Glyphs) /\ y \in Seq(Glyphs) /\ z \in Seq(Glyphs)
  <2> HIDE DEF m
  <2>1. m \in Nat
    BY <1>2
  <2> QED BY <1>3, <2>1, TimesType
<1> HIDE DEF m, f, x, y, z
<1>6. o \in Seq(Glyphs)
  <2>1. f \o s \in Seq(Glyphs)
    BY <1>3, <1>4, CatLen, Zenon
  <2>2. f \o s \o x \in Seq(Glyphs)
    BY <1>5, <2>1, CatLen, Zenon
  <2>3. f \o s \o x \o y \in Seq(Glyphs)
    BY <1>5, <2>2, CatLen, Zenon
  <2>4. f \o s \o x \o y \o f \in Seq(Glyphs)
    BY <1>4, <2>3, CatLen, Zenon
  <2>5. f \o s \o x \o y \o f \o s \in Seq(Glyphs)
    BY <1>3, <2>4, CatLen, Zenon
  <2>6. f \o s \o x \o y \o f \o s \o z \in Seq(Glyphs)
    BY <1>5, <2>5, CatLen, Zenon
  <2> QED BY <1>1, <2>6
<1>7. ASSUME NEW t, NEW s0 \in Seq(Glyphs), NEW k \in Nat, Shown(Glyphs, t, s0, k), Len(s) + n >= Len(s0)
      PROVE  Shown(Glyphs, Put(t, o), s, cur)
  <2>1. Shown(Glyphs, Put(t, <<"CR">> \o s \o Times(n, Space) \o Times(n, "BS")
                             \o <<"CR">> \o s \o Times(m, "BS")), s, Len(s) - m)
    BY <1>2, <1>3, <1>7, ShownShorter
  <2> QED BY <1>1, <1>2, <2>1 DEF f, x, y, z
<1> QED BY <1>6, <1>7

(* A sequence and a character more.                                         *)
LEMMA Appended ==
  ASSUME NEW V, NEW l \in Seq(V), NEW c \in V
  PROVE  /\ SubSeq(l, 1, Len(l)) = l /\ l \o <<c>> = Append(l, c)
         /\ Append(l, c) \in Seq(V) /\ Len(Append(l, c)) = Len(l) + 1
<1>1. SubSeq(l, 1, Len(l)) = l
  BY Beginnings
<1> DEFINE q == <<c>>
           a == l \o q
           b == Append(l, c)
<1>2. q \in Seq(V) /\ Len(q) = 1 /\ q[1] = c
  BY OneType
<1>3. b \in Seq(V) /\ Len(b) = Len(l) + 1 /\ b[Len(l) + 1] = c /\ \A i \in 1 .. Len(l) : b[i] = l[i]
  OBVIOUS
<1> HIDE DEF q, a, b
<1>4. a \in Seq(V) /\ IsCat(a, l, q)
  BY <1>2, Cat DEF a
<1>5. Len(a) = Len(l) + 1 /\ a[Len(l) + 1] = c /\ \A i \in 1 .. Len(l) : a[i] = l[i]
  <2>1. 1 \in 1 .. Len(q)
    BY <1>2
  <2> QED BY <1>2, <1>4, <2>1 DEF IsCat
<1>6. \A i \in 1 .. Len(l) + 1 : i \in 1 .. Len(l) \/ i = Len(l) + 1
  OBVIOUS
<1>7. \A i \in 1 .. Len(a) : a[i] = b[i]
  BY <1>3, <1>5, <1>6
<1>8. a = b
  BY <1>3, <1>4, <1>5, <1>7, SeqEqual
<1> QED BY <1>1, <1>3, <1>8 DEF a, b, q

(* A character inserted into the line.                                      *)
LEMMA LineTypeInside == ASSUME LineInv, NEW c \in Printing, TypeInside(c) PROVE LStep
<1> DEFINE l == Before
           r == Behind
           k == p_obuf_cur
           E == StrEnd(out_buf, 0)
           q == <<c>>
           a == Append(l, c)
           w == q \o r
           b == out_buf'
           o == print_updated_buf(b, p_obuf_cur', 0)
<1>1. /\ p_rbuf < read_res /\ NextByte /\ rough' = rough /\ arrow_pressed' = arrow_pressed /\ out' = out
      /\ p_obuf_cur' = k + 1 /\ terminal' = Put(terminal, o) /\ b = Inserted(c)
  BY DEF TypeInside, Reading, Shows, Put
<1>2. /\ Holds(out_buf, l, r) /\ Len(l) = k /\ Len(r) = E - k /\ Text = l \o r /\ Len(Text) = E
      /\ E \in Nat /\ E + Budget <= Size - 1 /\ l \in Seq(Printing) /\ r \in Seq(Printing) /\ Text \in Seq(Printing)
  BY LineHolds
<1>3. b = StrCpy(out_buf, k, w)
  <2>1. Str(out_buf, k) = r
    BY <1>2, HoldsIs
  <2> QED BY <1>1, <2>1 DEF Inserted
<1>4. q \in Seq(Printing) /\ Len(q) = 1
  BY OneType
<1>5. w \in Seq(Printing) /\ Len(w) = 1 + Len(r)
  <2> HIDE DEF q, r
  <2> QED BY <1>2, <1>4, CatLen
<1>6. SubSeq(l, 1, k) \o q = a /\ a \in Seq(Printing) /\ Len(a) = k + 1
  BY <1>2, Appended
<1>7. /\ Len(l) \in Nat /\ Len(r) \in Nat /\ k \in Nat /\ k \in 0 .. Len(l)
      /\ Budget \in Nat /\ KeyCells \in Nat \ {0} /\ Budget >= KeyCells
  <2>1. Len(l) \in Nat /\ Len(r) \in Nat
    BY <1>2
  <2>2. Budget \in Nat /\ KeyCells \in Nat \ {0}
    BY BudgetNat, RoomIs DEF LineInv
  <2>3. Budget' + KeyCells <= Budget /\ Budget' \in Nat
    BY <1>1, ByteTaken DEF LineInv, NextByte
  <2> DEFINE D == Budget'
  <2> HIDE DEF D
  <2>4. Budget >= KeyCells
    <3>1. D + KeyCells <= Budget /\ D \in Nat
      BY <2>3 DEF D
    <3> QED BY <2>2, <3>1
  <2> QED BY <1>2, <2>1, <2>2, <2>4
<1> HIDE DEF l, r, k, E, q, a, w, b, o
<1>8. k + Len(q) + Len(r) = E + 1 /\ E + 1 \in Cells /\ k + Len(w) = E + 1
  BY <1>2, <1>4, <1>5, <1>7, CellsAre
<1>9. Holds(b, a, r)
  <2>1. \A j \in Cells : out_buf[j] \in Cell
    BY DEF LineInv
  <2>2. Holds(StrCpy(out_buf, k, w), SubSeq(l, 1, k) \o q, r)
    BY <1>2, <1>4, <1>7, <1>8, <2>1, HoldsCopy DEF w, Agree, Filled
  <2> QED BY <1>3, <1>6, <2>2
<1>10. \A j \in Cells : j >= E + KeyCells => b[j] \in {NUL, out_buf[j]}
  <2> SUFFICES ASSUME NEW j \in Cells, j >= E + KeyCells PROVE b[j] \in {NUL, out_buf[j]}
    OBVIOUS
  <2>1. j >= k + Len(w)
    BY <1>2, <1>7, <1>8, CellsAre
  <2> QED BY <1>3, <1>5, <1>7, <2>1, CopyAfter
<1>11. Str(b, 0) = a \o r /\ a \o r \in Seq(Printing) /\ Len(a \o r) = Len(a) + Len(r)
  BY <1>9, HoldsIs
<1> DEFINE s == a \o r
<1> HIDE DEF s
<1>12. s \in Seq(Printing) /\ Str(b, 0) = s /\ Len(s) = E + 1 /\ k + 1 \in 0 .. Len(s)
  <2>1. Len(s) = Len(a) + Len(r) /\ s \in Seq(Printing) /\ Str(b, 0) = s
    BY <1>11 DEF s
  <2> QED BY <1>2, <1>6, <1>7, <2>1
<1>13. o = print_updated_buf(b, k + 1, 0)
  BY <1>1 DEF o, k, b
<1>14. /\ o \in Seq(Glyphs)
       /\ \A t : \A s0 \in Seq(Glyphs) : \A i \in Nat :
            Shown(Glyphs, t, s0, i) /\ Len(s) + 0 >= Len(s0) => Shown(Glyphs, Put(t, o), s, k + 1)
  BY <1>12, <1>13, PrintUpdated
<1>15. ASSUME ~rough PROVE Shown(Glyphs, terminal', a \o r, Len(a))
  <2>1. Shown(Glyphs, terminal, Text, k)
    BY <1>15 DEF LineInv, k
  <2>2. Text \in Seq(Glyphs)
    BY <1>2, PrintingShown
  <2>3. Len(s) + 0 >= Len(Text)
    BY <1>2, <1>12
  <2>4. Shown(Glyphs, Put(terminal, o), s, k + 1)
    BY <1>7, <1>14, <2>1, <2>2, <2>3
  <2> QED BY <1>1, <1>6, <2>4 DEF s, o
<1>16. arrow_pressed' \in {0, 1} /\ out' \in Seq(Bytes) /\ (~rough => arrow_pressed' = 0)
  BY <1>1 DEF LineInv
<1>17. p_obuf_cur' = Len(a) /\ terminal' = Put(terminal, o)
  BY <1>1, <1>6 DEF k, o
<1>18. LineInv' /\ Before' = a /\ Behind' = r
  BY <1>1, <1>9, <1>10, <1>14, <1>15, <1>16, <1>17, LineNext DEF b, E
<1>19. Ideal!Type(c)
  BY <1>1, <1>18 DEF Ideal!Type, a, l, r
<1> QED BY <1>18, <1>19 DEF LStep, Ideal!Next

(* A character at the end of the line.                                      *)
LEMMA LineTypeAtEnd == ASSUME LineInv, NEW c \in Printing, TypeAtEnd(c) PROVE LStep
<1> DEFINE l == Before
           r == Behind
           k == p_obuf_cur
           E == StrEnd(out_buf, 0)
           q == <<c>>
           e == <<>>
           a == Append(l, c)
           b == out_buf'
<1>1. /\ p_rbuf < read_res /\ NextByte /\ rough' = rough /\ arrow_pressed' = 0 /\ out' = out
      /\ p_obuf_cur' = k + 1 /\ terminal' = Put(terminal, q) /\ out_buf[k] = NUL
      /\ b = [out_buf EXCEPT ![k] = c, ![k + 1] = IF arrow_pressed = 0 THEN NUL ELSE out_buf[k + 1]]
  <2>1. /\ p_rbuf < read_res /\ NextByte /\ rough' = rough /\ arrow_pressed' = 0 /\ out' = out
        /\ p_obuf_cur' = k + 1 /\ terminal' = Put(terminal, q) /\ out_buf[k] = NUL
        /\ b = [out_buf EXCEPT ![k] = c, ![k + 1] = IF arrow_pressed = 0 THEN NUL ELSE @]
    BY DEF TypeAtEnd, Reading, Shows, Put
  <2>2. k # k + 1
    BY DEF LineInv
  <2> QED BY <2>1, <2>2
<1>2. /\ Holds(out_buf, l, r) /\ Len(l) = k /\ Len(r) = E - k /\ Text = l \o r /\ Len(Text) = E
      /\ E \in Nat /\ E + Budget <= Size - 1 /\ l \in Seq(Printing) /\ r \in Seq(Printing) /\ Text \in Seq(Printing)
  BY LineHolds
<1>3. r = <<>> /\ k = E
  <2>1. r = <<>>
    BY <1>1, <1>2, HoldsAt
  <2>2. Len(r) = 0
    BY <2>1
  <2>3. k \in 0 .. E
    BY DEF LineInv
  <2> HIDE DEF r, k, E
  <2> QED BY <1>2, <2>1, <2>2, <2>3
<1>4. Arrived' /\ Budget' + KeyCells <= Budget /\ Budget' \in Nat
  BY <1>1, ByteTaken DEF LineInv, NextByte
<1>5. Budget \in Nat /\ KeyCells \in Nat \ {0} /\ Budget >= KeyCells
  <2>1. Budget \in Nat /\ KeyCells \in Nat \ {0}
    BY BudgetNat, RoomIs DEF LineInv
  <2> DEFINE D == Budget'
  <2> HIDE DEF D
  <2>2. D + KeyCells <= Budget /\ D \in Nat
    BY <1>4 DEF D
  <2> QED BY <2>1, <2>2
<1>6. q \in Seq(Printing) /\ Len(q) = 1 /\ q[1] = c /\ e \in Seq(Printing) /\ Len(e) = 0 /\ q \o e = q /\ q \in Seq(Glyphs)
  <2>1. q \in Seq(Printing) /\ Len(q) = 1 /\ q[1] = c
    BY OneType
  <2>2. e \in Seq(Printing) /\ Len(e) = 0
    OBVIOUS
  <2> HIDE DEF q
  <2> QED BY <2>1, <2>2, ConcatEmptySeq, PrintingShown
<1>7. SubSeq(l, 1, k) \o q = a /\ a \in Seq(Printing) /\ Len(a) = k + 1
  BY <1>2, Appended
<1> HIDE DEF l, r, k, E, q, e, a, b
<1>8. k \in Nat /\ k \in Cells /\ k + 1 \in Cells
  BY <1>2, <1>3, <1>5, CellsAre
<1>9. out_buf \in [Cells -> Cell] /\ c \in Cell /\ c # NUL /\ NUL \in Cell
  BY CellsAre DEF LineInv, Cell
<1>10. b \in [Cells -> Cell] /\ b[k] = c /\ \A j \in Cells : j # k => b[j] = out_buf[j] \/ b[j] = NUL
  BY <1>1, <1>8, <1>9 DEF b, k
<1>11. \A j \in Cells : j >= E + KeyCells => b[j] \in {NUL, out_buf[j]}
  <2>1. \A j \in Cells : j >= E + KeyCells => j # k
    BY <1>2, <1>3, <1>5, CellsAre
  <2> QED BY <1>10, <2>1
<1>12. Room' /\ Printed'
  BY <1>1, <1>4, <1>6, <1>11, RoomStep, PrintedNext DEF LineInv, b, E, q
<1>13. CASE arrow_pressed = 0
  <2>1. b = StrCpy(out_buf, k, q)
    <3>1. \A j \in Cells : b[j] = StrCpy(out_buf, k, q)[j]
      <4> SUFFICES ASSUME NEW j \in Cells PROVE b[j] = StrCpy(out_buf, k, q)[j]
        OBVIOUS
      <4>1. StrCpy(out_buf, k, q)[j] = IF j < k \/ j > k + 1 THEN out_buf[j] ELSE IF j = k + 1 THEN NUL ELSE q[j - k + 1]
        BY <1>6 DEF StrCpy
      <4>2. b[j] = IF j = k + 1 THEN NUL ELSE IF j = k THEN c ELSE out_buf[j]
        BY <1>1, <1>8, <1>9, <1>13 DEF b, k
      <4>3. j \in Nat
        BY CellsAre
      <4>4. CASE j = k
        <5>1. ~(j < k \/ j > k + 1) /\ j # k + 1 /\ j - k + 1 = 1
          BY <1>8, <4>3, <4>4
        <5> QED BY <1>6, <4>1, <4>2, <4>4, <5>1
      <4>5. CASE j = k + 1
        <5>1. ~(j < k \/ j > k + 1)
          BY <1>8, <4>3, <4>5
        <5> QED BY <4>1, <4>2, <4>5, <5>1
      <4>6. CASE j # k /\ j # k + 1
        <5>1. j < k \/ j > k + 1
          BY <1>8, <4>3, <4>6
        <5> QED BY <4>1, <4>2, <4>6, <5>1
      <4> QED BY <4>4, <4>5, <4>6
    <3>2. StrCpy(out_buf, k, q) = [j \in Cells |-> StrCpy(out_buf, k, q)[j]]
      BY DEF StrCpy
    <3>3. b = [j \in Cells |-> b[j]]
      BY <1>10
    <3> DEFINE d == StrCpy(out_buf, k, q)
    <3> HIDE DEF d
    <3>4. d = [j \in Cells |-> d[j]] /\ \A j \in Cells : b[j] = d[j]
      BY <3>1, <3>2 DEF d
    <3>5. [j \in Cells |-> b[j]] = [j \in Cells |-> d[j]]
      BY <3>4
    <3>6. b = d
      BY ONLY <3>3, <3>4, <3>5, Zenon
    <3> QED BY <3>6 DEF d
  <2>2. Holds(b, a, e)
    <3>1. \A j \in Cells : out_buf[j] \in Cell
      BY DEF LineInv
    <3>2. k + Len(q) + Len(e) \in Cells /\ k \in 0 .. Len(l)
      BY <1>2, <1>6, <1>8
    <3>3. q = q \o e
      BY <1>6
    <3>4. Holds(StrCpy(out_buf, k, q), SubSeq(l, 1, k) \o q, e)
      BY <1>2, <1>6, <3>1, <3>2, <3>3, HoldsCopy DEF Agree, Filled
    <3> QED BY <1>7, <2>1, <3>4
  <2>3. a \o e = a
    BY <1>7, ConcatEmptySeq DEF e
  <2>4. ASSUME ~rough PROVE Shown(Glyphs, terminal', a \o e, Len(a))
    <3>1. l \o e = l
      BY <1>2, ConcatEmptySeq DEF e
    <3>2. Text = l
      BY <1>2, <1>3, <3>1 DEF e
    <3>3. Shown(Glyphs, terminal, l, Len(l))
      BY <1>2, <2>4, <3>2 DEF LineInv, k
    <3>4. l \in Seq(Glyphs) /\ c \in Glyphs \ Controls
      BY <1>2, PrintingShown, GlyphFacts
    <3>5. Shown(Glyphs, Put(terminal, q), a, Len(l) + 1)
      BY <3>3, <3>4, ShownMore DEF a, q
    <3> QED BY <1>1, <1>2, <1>7, <2>3, <3>5 DEF q
  <2>5. arrow_pressed' \in {0, 1} /\ out' \in Seq(Bytes) /\ (~rough => arrow_pressed' = 0)
    BY <1>1 DEF LineInv
  <2>6. p_obuf_cur' = Len(a) /\ terminal' = Put(terminal, q)
    BY <1>1, <1>7 DEF k, q
  <2>7. LineInv' /\ Before' = a /\ Behind' = e
    BY <1>1, <1>6, <1>11, <2>2, <2>4, <2>5, <2>6, LineNext DEF b, E
  <2>8. Ideal!Type(c)
    BY <1>1, <1>3, <2>7 DEF Ideal!Type, a, l, r, e
  <2> QED BY <2>7, <2>8 DEF LStep, Ideal!Next
<1>14. CASE arrow_pressed # 0
  <2>1. rough' /\ rough' \in BOOLEAN
    BY <1>1, <1>14 DEF LineInv
  <2>2. PICK z \in Cells : b[z] = NUL
    <3> DEFINE D == Budget'
               y == Size - 1 - D
    <3>1. D \in Nat /\ D <= Size - 1 /\ \A j \in Cells : j + D >= Size - 1 => b[j] = NUL
      BY <1>4, <1>12 DEF Room, b, Cells
    <3> HIDE DEF D
    <3>2. y \in Cells /\ y + D >= Size - 1
      BY <3>1, CellsAre
    <3> HIDE DEF y
    <3> QED BY <3>1, <3>2
  <2> DEFINE x == StrEnd(b, 0)
  <2>3. x \in Cells /\ b[x] = NUL
    <3>1. 0 \in Nat /\ z >= 0
      BY CellsAre
    <3> QED BY <2>2, <3>1, EndIn
  <2>4. ASSUME NEW j \in 0 .. k PROVE j \in Cells /\ b[j] # NUL
    <3>1. j \in Cells
      BY <1>8, CellsAre
    <3>2. CASE j = k
      BY <1>9, <1>10, <3>1, <3>2
    <3>3. CASE j # k
      <4>1. j \in 0 .. Len(l) + Len(r) - 1 /\ j # k + 1
        BY <1>2, <1>3, <1>8, <3>3
      <4>2. out_buf[j] # NUL
        BY <1>2, <4>1, HoldsCell
      <4>3. b[j] = out_buf[j]
        BY <1>1, <1>9, <3>1, <3>3, <4>1 DEF b, k
      <4> QED BY <3>1, <4>2, <4>3
    <3> QED BY <3>2, <3>3
  <2>5. x > k
    <3>1. x \in Nat /\ x \notin 0 .. k
      <4> HIDE DEF x
      <4> QED BY <2>3, <2>4, CellsAre
    <3> HIDE DEF x
    <3> QED BY <1>8, <3>1
  <2>6. p_obuf_cur' \in 0 .. StrEnd(out_buf', 0)
    <3> HIDE DEF x
    <3>1. k + 1 \in 0 .. x
      BY <1>8, <2>3, <2>5, CellsAre
    <3> QED BY <1>1, <3>1 DEF x, b, k
  <2>7. StrEnd(out_buf, 0)' = StrEnd(out_buf', 0) /\ Cells' = Cells
    BY DEF StrEnd, Cells
  <2>8. out_buf' \in [Cells -> Cell] /\ out' \in Seq(Bytes)
    BY <1>1, <1>10 DEF b, LineInv
  <2>9. LineInv'
    BY <1>1, <1>4, <1>12, <2>1, <2>6, <2>7, <2>8 DEF LineInv, Cells
  <2> QED BY <2>1, <2>9 DEF LStep
<1> QED BY <1>13, <1>14

(* What the buffer's cells say of the text before the cursor.               *)
LEMMA SepCells ==
  ASSUME LineInv
  PROVE  /\ p_obuf_cur \in Nat /\ Before \in Seq(Printing) /\ Len(Before) = p_obuf_cur
         /\ \A i \in 0 .. p_obuf_cur - 1 :
              /\ i + 1 \in 1 .. Len(Before) /\ Before[i + 1] = out_buf[i] /\ out_buf[i] # NUL
              /\ IsSep(i) <=> Before[i + 1] \in Separators
<1> DEFINE k == p_obuf_cur
           l == Before
<1>1. Holds(out_buf, l, Behind) /\ Len(l) = k /\ l \in Seq(Printing)
  BY LineHolds
<1>2. k \in Nat
  BY <1>1
<1> HIDE DEF k, l
<1>3. \A i \in 1 .. Len(l) : out_buf[i - 1] = l[i] /\ l[i] \in Printing
  <2>1. \A i \in 1 .. Len(l) : out_buf[i - 1] = l[i]
    BY <1>1, Zenon DEF Holds
  <2>2. \A i \in 1 .. Len(l) : l[i] \in Printing
    BY <1>1
  <2> QED BY <2>1, <2>2
<1>4. ASSUME NEW i \in 0 .. k - 1
      PROVE  i + 1 \in 1 .. Len(l) /\ l[i + 1] = out_buf[i] /\ out_buf[i] # NUL
  <2>1. i + 1 \in 1 .. Len(l) /\ (i + 1) - 1 = i
    BY <1>1, <1>2
  <2>2. out_buf[(i + 1) - 1] = l[i + 1] /\ l[i + 1] \in Printing
    BY <1>3, <2>1
  <2> QED BY <2>1, <2>2, CellsAre
<1> QED BY <1>1, <1>2, <1>4 DEF k, l, IsSep

(* The ends of the word to erase as TextLine finds them.                    *)
OnWord == Behind # <<>> /\ Head(Behind) \notin Separators
EndOfWord ==
  IF OnWord THEN Len(Before) ELSE Max({0} \union {i \in 1 .. Len(Before) : Before[i] \notin Separators})
StartOfWord == Max({1} \union {i \in 1 .. EndOfWord : Before[i] \in Separators})

(* Both find the same start of the word.                                    *)
LEMMA WordIsErased ==
  ASSUME LineInv, p_obuf_cur # 0
  PROVE  ErasedFrom(p_obuf_cur) \in 0 .. p_obuf_cur - 1 /\ StartOfWord - 1 = ErasedFrom(p_obuf_cur)
<1> DEFINE in == OnWord
           we == EndOfWord
           be == StartOfWord
           k == p_obuf_cur
           l == Before
           r == Behind
           wm == WordEnd(k)
           to == ErasedFrom(k)
           A == {0} \union {i \in 0 .. k : ~IsSep(i) /\ out_buf[i] # NUL}
           B == {0} \union {i \in 1 .. Len(l) : l[i] \notin Separators}
           T == {0} \union {i \in 0 .. wm : IsSep(i)}
           U == {1} \union {i \in 1 .. we : l[i] \in Separators}
<1>1. /\ k \in Nat /\ k # 0 /\ Len(l) = k
      /\ \A i \in 0 .. k - 1 : /\ i + 1 \in 1 .. Len(l) /\ l[i + 1] = out_buf[i] /\ out_buf[i] # NUL
                               /\ IsSep(i) <=> l[i + 1] \in Separators
  BY SepCells
<1>2. in <=> ~(IsSep(k) \/ out_buf[k] = NUL)
  <2>1. Holds(out_buf, l, r) /\ Len(l) = k /\ r \in Seq(Printing)
    BY LineHolds
  <2>2. (out_buf[k] = NUL <=> r = <<>>) /\ (r # <<>> => out_buf[k] = r[1])
    BY <2>1, HoldsAt
  <2>3. r # <<>> => Head(r) = r[1]
    BY <2>1
  <2> QED BY <2>2, <2>3 DEF IsSep, OnWord
<1>3. wm = IF in THEN k ELSE Max(A)
  BY <1>2 DEF WordEnd
<1>4. to = Max(T)
  BY DEF ErasedFrom
<1>5. we = IF in THEN k ELSE Max(B)
  BY <1>1 DEF EndOfWord
<1>6. be = Max(U)
  BY DEF StartOfWord
<1> HIDE DEF in, we, be, k, l, r, wm, to
<1>7. A \in SUBSET (0 .. k) /\ A # {} /\ B \in SUBSET (0 .. k) /\ B # {}
  BY <1>1
<1>8. Max(A) \in A /\ (\A y \in A : Max(A) >= y) /\ Max(B) \in B /\ \A y \in B : Max(B) >= y
  <2> HIDE DEF A, B
  <2> QED BY <1>1, <1>7, MaxOf
<1>9. wm \in 0 .. k /\ we \in 0 .. k
  <2> DEFINE x == Max(A)
             y == Max(B)
  <2>1. x \in 0 .. k /\ y \in 0 .. k
    BY <1>7, <1>8
  <2> HIDE DEF x, y
  <2> QED BY <1>1, <1>3, <1>5, <2>1, SMTT(30) DEF x, y
(* The two ends of the word are the same place, but for a line of separators. *)
<1>10. \/ in /\ wm = k /\ we = k
       \/ ~in /\ we = wm + 1 /\ wm < k
       \/ ~in /\ we = 0 /\ wm = 0
  <2>1. CASE in
    BY <1>3, <1>5, <2>1
  <2>2. CASE ~in
    <3> DEFINE x == Max(A)
               y == Max(B)
    <3>1. wm = x /\ we = y
      BY <1>3, <1>5, <2>2
    <3>2. x \in Nat /\ y \in Nat
      BY <1>1, <1>7, <1>8
    <3>3. x \in A /\ (\A i \in A : x >= i) /\ y \in B /\ \A i \in B : y >= i
      BY <1>8
    <3> HIDE DEF x, y
    <3>4. \A i \in A : i = 0 \/ (i \in 0 .. k - 1 /\ ~IsSep(i) /\ i + 1 \in B)
      <4> SUFFICES ASSUME NEW i \in A, i # 0 PROVE i \in 0 .. k - 1 /\ ~IsSep(i) /\ i + 1 \in B
        OBVIOUS
      <4>1. i \in 0 .. k /\ ~IsSep(i) /\ out_buf[i] # NUL
        OBVIOUS
      <4>2. i # k
        BY <1>2, <2>2, <4>1
      <4>3. i \in 0 .. k - 1
        BY <1>1, <4>1, <4>2
      <4> QED BY <1>1, <4>1, <4>3
    <3>5. \A i \in B : i = 0 \/ (i - 1 \in A /\ i - 1 \in 0 .. k - 1)
      <4> SUFFICES ASSUME NEW i \in B, i # 0 PROVE i - 1 \in A /\ i - 1 \in 0 .. k - 1
        OBVIOUS
      <4>1. i \in 1 .. k /\ l[i] \notin Separators
        BY <1>1
      <4> DEFINE j == i - 1
      <4>2. j \in 0 .. k - 1 /\ j + 1 = i /\ j \in 0 .. k
        BY <1>1, <4>1
      <4> HIDE DEF j
      <4>3. ~IsSep(j) /\ out_buf[j] # NUL
        BY <1>1, <4>1, <4>2
      <4> QED BY <4>2, <4>3 DEF j
    <3>6. CASE y = 0
      <4>1. x = 0
        <5>1. x = 0 \/ (x + 1 \in B)
          BY <3>3, <3>4
        <5>2. x + 1 \notin B
          <6>1. ~(y >= x + 1)
            BY <3>2, <3>6
          <6> QED BY <3>3, <6>1
        <5> QED BY <5>1, <5>2
      <4> QED BY <2>2, <3>1, <3>6, <4>1
    <3>7. CASE y # 0
      <4>1. y - 1 \in A /\ y - 1 \in 0 .. k - 1
        BY <3>3, <3>5, <3>7
      <4>2. x >= y - 1
        BY <3>3, <4>1
      <4>3. x = 0 \/ y >= x + 1
        BY <3>3, <3>4
      <4>4. x = y - 1
        BY <3>2, <3>7, <4>2, <4>3
      <4>5. y = x + 1 /\ x < k
        BY <1>1, <3>2, <4>1, <4>4
      <4> QED BY <2>2, <3>1, <4>5
    <3> QED BY <3>6, <3>7
  <2> QED BY <2>1, <2>2
<1>11. T \in SUBSET (0 .. k) /\ T # {} /\ U \in SUBSET (0 .. k) /\ U # {}
  <2>1. 0 .. wm \subseteq 0 .. k /\ 1 .. we \subseteq 0 .. k /\ 0 \in 0 .. k /\ 1 \in 0 .. k
    BY ONLY <1>1, <1>9
  <2> QED BY ONLY <2>1
<1>12. to \in T /\ (\A i \in T : to >= i) /\ be \in U /\ \A i \in U : be >= i
  <2> HIDE DEF T, U
  <2> QED BY <1>1, <1>4, <1>6, <1>11, MaxOf
<1>13. in => ~IsSep(k)
  BY <1>2
<1>14. ASSUME NEW i \in T, i # 0 PROVE i \in 0 .. k - 1 /\ i + 1 \in U
  <2>1. i \in 0 .. wm /\ IsSep(i)
    BY <1>14
  <2>2. i \in 0 .. k - 1 /\ i + 1 \in 1 .. we
    <3>1. CASE in /\ wm = k /\ we = k
      <4>1. i # k
        BY <1>13, <2>1, <3>1
      <4> QED BY <1>1, <2>1, <3>1, <4>1
    <3>2. CASE ~in /\ we = wm + 1 /\ wm < k
      BY <1>1, <1>9, <2>1, <3>2
    <3>3. CASE ~in /\ we = 0 /\ wm = 0
      BY <1>14, <2>1, <3>3
    <3> QED BY <1>10, <3>1, <3>2, <3>3
  <2>3. l[i + 1] \in Separators
    BY <1>1, <2>1, <2>2
  <2> QED BY <2>2, <2>3
<1>15. ASSUME NEW i \in U, i # 1 PROVE i - 1 \in T
  <2>1. i \in 1 .. we /\ l[i] \in Separators
    BY <1>15
  <2> DEFINE j == i - 1
  <2>2. j \in 0 .. k - 1 /\ j + 1 = i /\ j \in 0 .. wm
    <3>1. i \in 1 .. k
      BY ONLY <1>1, <1>9, <2>1
    <3>2. i <= wm + 1
      BY <1>1, <1>9, <1>10, <2>1
    <3> QED BY <1>1, <1>9, <2>1, <3>1, <3>2
  <2> HIDE DEF j
  <2>3. IsSep(j)
    BY <1>1, <2>1, <2>2
  <2> QED BY <2>2, <2>3 DEF j
<1>16. to \in Nat /\ be \in Nat /\ be >= 1 /\ 0 \in T /\ 1 \in U
  <2>1. to \in 0 .. k /\ be \in 0 .. k /\ be >= 1
    <3> HIDE DEF T, U
    <3>1. to \in 0 .. k /\ be \in 0 .. k
      BY <1>11, <1>12
    <3>2. 1 \in U
      BY DEF U
    <3> QED BY <1>12, <3>1, <3>2
  <2> QED BY <1>1, <2>1
<1> HIDE DEF T, U, A, B
<1>17. to \in 0 .. k - 1
  <2>1. CASE to = 0
    BY <1>1, <2>1
  <2>2. CASE to # 0
    BY <1>12, <1>14, <2>2
  <2> QED BY <2>1, <2>2
<1>18. be >= to + 1
  <2>1. CASE to = 0
    BY <1>16, <2>1
  <2>2. CASE to # 0
    BY <1>12, <1>14, <2>2
  <2> QED BY <2>1, <2>2
<1>19. to >= be - 1
  <2>1. CASE be = 1
    BY <1>16, <2>1
  <2>2. CASE be # 1
    BY <1>12, <1>15, <2>2
  <2> QED BY <2>1, <2>2
<1>20. be - 1 = to
  BY <1>16, <1>18, <1>19
<1> QED BY <1>17, <1>20 DEF k, to, be

(* Ctrl-W.                                                                  *)
LEMMA LineErase == ASSUME LineInv, ErasePrevWord PROVE LStep
<1>1. p_rbuf < read_res /\ NextByte /\ rough' = rough /\ arrow_pressed' = arrow_pressed /\ out' = out
  BY DEF ErasePrevWord, Reading
<1>2. CASE p_obuf_cur = 0
  BY <1>1, <1>2, ByteSame DEF ErasePrevWord
<1>3. CASE p_obuf_cur # 0
  <2> DEFINE l == Before
             r == Behind
             k == p_obuf_cur
             to == ErasedFrom(k)
             a == SubSeq(l, 1, to)
             b == out_buf'
             o == print_updated_buf(b, to, k - to)
             E == StrEnd(out_buf, 0)
             be == StartOfWord
             s == a \o r
  <2>1. to \in 0 .. k - 1 /\ be - 1 = to
    BY <1>3, WordIsErased
  <2>2. /\ Holds(out_buf, l, r) /\ Len(l) = k /\ Len(r) = E - k /\ Text = l \o r /\ Len(Text) = E
        /\ E \in Nat /\ E + Budget <= Size - 1 /\ l \in Seq(Printing) /\ r \in Seq(Printing) /\ Text \in Seq(Printing)
    BY LineHolds
  <2>3. Str(out_buf, k) = r
    BY <2>2, HoldsIs
  <2>4. b = StrCpy(out_buf, to, r) /\ p_obuf_cur' = to /\ terminal' = Put(terminal, o)
    BY <1>3, <2>3 DEF ErasePrevWord, Shows, Put
  <2>5. Ideal!EraseWord <=> l # <<>> /\ Before' = SubSeq(Before, 1, be - 1) /\ Behind' = Behind /\ out' = out
    BY ShortWords DEF Ideal!EraseWord, OnWord, EndOfWord, StartOfWord
  <2> HIDE DEF l, r, a, b, o, E, to, k, be, s
  <2>6. Len(l) \in Nat /\ Len(r) \in Nat /\ k \in Nat /\ k > 0 /\ to \in 0 .. Len(l) /\ to \in Nat
        /\ Budget \in Nat /\ KeyCells \in Nat \ {0}
    <3>1. Len(l) \in Nat /\ Len(r) \in Nat
      BY <2>2
    <3>2. Budget \in Nat /\ KeyCells \in Nat \ {0}
      BY BudgetNat, RoomIs DEF LineInv
    <3> QED BY <2>1, <2>2, <3>1, <3>2
  <2>7. a \in Seq(Printing) /\ Len(a) = to
    BY <2>2, <2>6, Start DEF a
  <2>9. to + Len(r) < E /\ to + Len(r) \in Cells
    BY <2>1, <2>2, <2>6, CellsAre
  <2>10. Holds(b, a, r)
    <3>1. Holds(StrCpy(out_buf, to, r), SubSeq(l, 1, to), r)
      BY <2>2, <2>6, <2>9, HoldsCut
    <3> QED BY <2>4, <3>1 DEF a
  <2>11. \A j \in Cells : j >= E + KeyCells => b[j] \in {NUL, out_buf[j]}
    <3> SUFFICES ASSUME NEW j \in Cells, j >= E + KeyCells PROVE b[j] \in {NUL, out_buf[j]}
      OBVIOUS
    <3>1. j > to + Len(r)
      BY <2>2, <2>6, <2>9, CellsAre
    <3>2. to \in Nat
      BY <2>6
    <3>3. r \in Seq(Printing)
      BY <2>2
    <3>4. StrCpy(out_buf, to, r)[j] = out_buf[j]
      BY ONLY <3>1, <3>2, <3>3, j \in Cells, CopyCell, Zenon
    <3> QED BY ONLY <2>4, <3>4
  <2>12. s \in Seq(Printing) /\ Str(b, 0) = s /\ Len(s) = to + Len(r)
    BY <2>7, <2>10, HoldsIs DEF s
  <2>13. /\ o \in Seq(Glyphs)
         /\ \A t : \A s0 \in Seq(Glyphs) : \A i \in Nat :
              Shown(Glyphs, t, s0, i) /\ Len(s) + (k - to) >= Len(s0) => Shown(Glyphs, Put(t, o), s, to)
    <3>1. to \in 0 .. Len(s) /\ k - to \in Nat
      BY <2>1, <2>6, <2>12
    <3> QED BY <2>12, <3>1, PrintUpdated DEF o
  <2>14. ASSUME ~rough PROVE Shown(Glyphs, terminal', a \o r, Len(a))
    <3>1. Shown(Glyphs, terminal, Text, k)
      BY <2>14 DEF LineInv, k
    <3>2. Text \in Seq(Glyphs)
      BY <2>2, PrintingShown
    <3>3. Len(s) + (k - to) >= Len(Text)
      BY <2>1, <2>2, <2>6, <2>12
    <3>4. Shown(Glyphs, Put(terminal, o), s, to)
      BY <2>6, <2>13, <3>1, <3>2, <3>3
    <3> QED BY <2>4, <2>7, <3>4 DEF s
  <2>15. arrow_pressed' \in {0, 1} /\ out' \in Seq(Bytes) /\ (~rough => arrow_pressed' = 0)
    BY <1>1 DEF LineInv
  <2>16. p_obuf_cur' = Len(a)
    BY <2>4, <2>7
  <2>17. LineInv' /\ Before' = a /\ Behind' = r
    BY <1>1, <2>4, <2>10, <2>11, <2>13, <2>14, <2>15, <2>16, LineNext DEF b, E
  <2>18. Ideal!EraseWord
    <3>1. l # <<>>
      <4>1. Len(l) # 0
        BY <2>2, <2>6
      <4> QED BY <4>1
    <3>2. SubSeq(Before, 1, be - 1) = a
      BY <2>1 DEF a, l
    <3> QED BY <1>1, <2>5, <2>17, <3>1, <3>2 DEF r
  <2> QED BY <2>17, <2>18 DEF LStep, Ideal!Next
<1> QED BY <1>2, <1>3

-----------------------------------------------------------------------------
(***************************************************************************)
(* Completion                                                              *)
(***************************************************************************)

(* The matches of a prefix, and the word when there is just one.            *)
LEMMA MatchesType ==
  ASSUME NEW p \in Seq(Printing), p # <<>>
  PROVE  [w \in DOMAIN Words |-> Found(p, Words[w])] \in [DOMAIN Words -> Nat]
<1>1. Len(p) > 0
  <2>1. Len(p) \in Nat \ {0}
    BY EmptySeq
  <2> QED BY <2>1
<1>2. ASSUME NEW v \in DOMAIN Words PROVE Found(p, Words[v]) \in Nat
  <2> DEFINE u == Words[v]
  <2>1. u \in Seq(Letters)
    BY WordsFacts
  <2> HIDE DEF u
  <2>2. u \in Seq(Printing)
    BY <2>1, GlyphFacts, SubSeqOf
  <2>3. Found(p, u) \in Nat
    BY <1>1, <2>2, FoundBegins
  <2> QED BY <2>3 DEF u
<1> QED BY <1>2

(* The only match of a prefix is the only word that goes on from it.        *)
LEMMA OnlyWordIs ==
  ASSUME NEW p \in Seq(Printing), p # <<>>,
         NEW m, Matching(m, p), SeqTotal(m) = 1, NEW w, w = Words[OneOf(m)]
  PROVE  /\ w \in Seq(Letters) /\ w \in ToSet(Words) /\ Len(p) <= Len(w) /\ Len(w) < KeyCells
         /\ Ideal!OnlyWord(p, w)
<1> DEFINE k == OneOf(m)
<1>1. w = Words[k]
  OBVIOUS
<1>2. Len(p) > 0
  <2>1. Len(p) \in Nat \ {0}
    BY EmptySeq
  <2> QED BY <2>1
<1>0. Matching(m, p) /\ k = OneOf(m)
  OBVIOUS
<1> HIDE DEF k
<1>3. /\ k \in DOMAIN Words /\ Words[k] \in Seq(Letters) /\ Begins(p, Words[k])
      /\ \A v \in ToSet(Words) : Begins(p, v) <=> v = Words[k]
  BY ONLY <1>0, <1>2, p \in Seq(Printing), SeqTotal(m) = 1, OnlyMatch, Zenon
<1>4. w \in Seq(Letters) /\ w \in ToSet(Words) /\ Len(p) <= Len(w)
  BY <1>1, <1>3 DEF ToSet, Begins
<1>5. Len(w) < KeyCells
  BY <1>1, <1>3, RoomIs
<1>6. ASSUME NEW v \in ToSet(Words)
      PROVE  Ideal!Continues(p, v) <=> v = w
  <2>1. v \in Seq(Printing)
    <3>1. v \in Seq(Letters)
      BY WordsFacts DEF ToSet
    <3> QED BY <3>1, GlyphFacts, SubSeqOf
  <2>2. Ideal!Continues(p, v) <=> p # <<>> /\ Len(p) <= Len(v) /\ SubSeq(p, 1, Len(p)) = SubSeq(v, 1, Len(p))
    BY ShortWords DEF Ideal!Continues
  <2>3. Ideal!Continues(p, v) <=> Begins(p, v)
    BY <2>1, <2>2, PrefixBegins
  <2> QED BY <1>1, <1>3, <2>3
<1>7. Ideal!OnlyWord(p, w)
  BY <1>6 DEF Ideal!OnlyWord
<1> QED BY <1>4, <1>5, <1>7

(* complete_word: the word in place of the prefix, the rest behind it.      *)
LEMMA CompletedHolds ==
  ASSUME NEW l, NEW r, Holds(out_buf, l, r), NEW i \in 0 .. Len(l) - 1,
         NEW w \in Seq(Letters), Len(w) < KeyCells, Len(l) + Len(r) + KeyCells \in Cells
  PROVE  /\ Holds(Completed(i, Len(l) - 1, w), SubSeq(l, 1, i) \o w, r)
         /\ Len(SubSeq(l, 1, i) \o w) = i + Len(w)
         /\ \A j \in Cells : j >= Len(l) + Len(r) + KeyCells =>
              Completed(i, Len(l) - 1, w)[j] \in {NUL, out_buf[j]}
<1> DEFINE n == Append(w, "LF")
           d == StrCpy(out_buf, i, n)
           V == Letters \union {"LF"}
           s == w \o r
           c == StrCpy(d, i, s)
           a == SubSeq(l, 1, i) \o w
<1>1. /\ out_buf \in [Cells -> Cell] /\ l \in Seq(Printing) /\ r \in Seq(Printing) /\ w \in Seq(Printing)
      /\ Len(l) + Len(r) \in Cells
  BY GlyphFacts, SubSeqOf DEF Holds
<1>2. Len(l) \in Nat /\ Len(r) \in Nat /\ Len(w) \in Nat /\ i \in Nat /\ i < Len(l) /\ i \in 0 .. Len(l)
  BY <1>1
<1>3. KeyCells \in Nat \ {0} /\ Size \in Nat \ {0} /\ Cells = 0 .. Size - 1
  BY RoomIs, CellsAre
<1>4. n \in Seq(V) /\ Len(n) = Len(w) + 1
  <2>1. w \in Seq(V)
    <3>1. Letters \subseteq V
      OBVIOUS
    <3> HIDE DEF V
    <3> QED BY <3>1, SubSeqOf
  <2> QED BY <2>1
<1> HIDE DEF n, V
<1>5. s \in Seq(Printing) /\ Len(s) = Len(w) + Len(r)
  BY ONLY <1>1, CatLen, Zenon
<1>6. i + Len(w) + Len(r) \in Cells /\ i + Len(n) <= Len(l) + Len(r) + KeyCells
      /\ i + Len(s) <= Len(l) + Len(r) + KeyCells
  BY <1>2, <1>3, <1>4, <1>5
<1>7. Str(out_buf, Len(l)) = r
  BY HoldsIs
<1>8. Completed(i, Len(l) - 1, w) = c
  <2>1. (Len(l) - 1) + 1 = Len(l)
    BY <1>2
  <2> QED BY <1>7, <2>1 DEF Completed, n
<1>9. \A j \in Cells : j < i => d[j] = out_buf[j]
  BY <1>2, CopyBefore, Zenon
<1>10. \A j \in Cells : j >= i + Len(n) => d[j] \in {NUL, out_buf[j]}
  BY <1>2, <1>4, CopyAfter, Zenon
<1>11. \A j \in Cells : j >= i + Len(s) => c[j] \in {NUL, d[j]}
  <2> HIDE DEF s, d
  <2> QED BY <1>2, <1>5, CopyAfter, Zenon
<1> HIDE DEF d
<1>12. \A j \in Cells : j > i + Len(w) + Len(r) => d[j] \in Cell
  <2> SUFFICES ASSUME NEW j \in Cells, j > i + Len(w) + Len(r) PROVE d[j] \in Cell
    OBVIOUS
  <2>1. j >= i + Len(n)
    BY <1>2, <1>3, <1>4
  <2>2. d[j] \in {NUL, out_buf[j]}
    BY <1>10, <2>1
  <2>3. out_buf[j] \in Cell /\ NUL \in Cell
    BY <1>1 DEF Cell
  <2> QED BY <2>2, <2>3
<1>13. Holds(c, a, r) /\ Len(a) = i + Len(w)
  <2>0. Agree(d, out_buf, i) /\ Filled(d, i + Len(w) + Len(r))
    BY <1>9, <1>12 DEF Agree, Filled
  <2>1. w \in Seq(Printing)
    BY <1>1
  <2>2. r \in Seq(Printing)
    BY <1>1
  <2>3. i \in 0 .. Len(l)
    BY <1>2
  <2>4. i + Len(w) + Len(r) \in Cells
    BY <1>6
  <2>5. s = w \o r
    OBVIOUS
  <2> HIDE DEF s
  <2>6. Holds(out_buf, l, r)
    OBVIOUS
  <2> QED BY ONLY <2>0, <2>1, <2>2, <2>3, <2>4, <2>5, <2>6, HoldsCopy, ZenonT(40)
<1> HIDE DEF s, c, a
<1>14. ASSUME NEW j \in Cells, j >= Len(l) + Len(r) + KeyCells
       PROVE  c[j] \in {NUL, out_buf[j]}
  <2> DEFINE u == i + Len(n)
             v == i + Len(s)
             g == Len(l) + Len(r) + KeyCells
  <2>0. u \in Nat /\ v \in Nat /\ g \in Nat
    BY <1>2, <1>3, <1>4, <1>5
  <2>00. u <= g /\ v <= g /\ j >= g
    BY <1>6, <1>14, Zenon
  <2>01. j \in Nat
    BY <1>3
  <2> HIDE DEF u, v, g
  <2>1. j >= u /\ j >= v
    BY ONLY <2>0, <2>00, <2>01
  <2> QED BY <1>10, <1>11, <2>1 DEF u, v
<1> QED BY <1>8, <1>13, <1>14 DEF a

(* Completing the characters from i to the end of l.                        *)
LEMMA CompletionStep ==
  ASSUME LineInv, p_rbuf < read_res, NextByte, UNCHANGED <<arrow_pressed, out, rough>>,
         NEW l, NEW r, Holds(out_buf, l, r), NEW i \in 0 .. Len(l) - 1,
         NEW w \in Seq(Letters), Len(l) - i <= Len(w), Len(w) < KeyCells,
         out_buf' = Completed(i, Len(l) - 1, w), p_obuf_cur' = i + Len(w),
         Shows(<<"CR">> \o Str(out_buf', 0) \o Times(Len(Str(out_buf', p_obuf_cur')), "BS"))
  PROVE  LineInv' /\ Before' = SubSeq(l, 1, i) \o w /\ Behind' = r
<1> DEFINE a == SubSeq(l, 1, i) \o w
           b == out_buf'
           E == StrEnd(out_buf, 0)
           s == a \o r
           k == p_obuf_cur
           x == Times(Len(r), "BS")
           y == <<"CR">>
           o == y \o s \o x
<1>1. /\ Holds(out_buf, Before, Behind) /\ Text \in Seq(Printing) /\ Len(Text) = E
      /\ E \in Nat /\ E + Budget <= Size - 1 /\ k \in Nat
  BY LineHolds DEF LineInv
<1>2. /\ Budget \in Nat /\ KeyCells \in Nat \ {0} /\ Size \in Nat \ {0} /\ Cells = 0 .. Size - 1
  BY BudgetNat, RoomIs, CellsAre DEF LineInv
<1>3. KeyCells <= Budget
  <2> DEFINE D == Budget'
  <2>1. D + KeyCells <= Budget /\ D \in Nat
    BY ByteTaken DEF LineInv, NextByte
  <2> HIDE DEF D
  <2> QED BY ONLY <1>2, <2>1
<1>4. Len(l) + Len(r) = E /\ l \in Seq(Printing) /\ r \in Seq(Printing)
  <2>1. Str(out_buf, 0) = l \o r /\ Len(l \o r) = Len(l) + Len(r)
    BY HoldsIs
  <2> QED BY <1>1, <2>1 DEF Text, Holds
<1>5. Len(l) \in Nat /\ Len(r) \in Nat /\ Len(w) \in Nat /\ i \in Nat
  BY <1>4
<1> HIDE DEF E, k
<1>6. Len(l) + Len(r) + KeyCells \in Cells
  BY <1>1, <1>2, <1>3, <1>4, <1>5
<1>7. /\ Holds(b, a, r) /\ Len(a) = i + Len(w)
      /\ \A j \in Cells : j >= Len(l) + Len(r) + KeyCells => b[j] \in {NUL, out_buf[j]}
  BY <1>6, CompletedHolds
<1> HIDE DEF a, b
<1>8. Str(b, 0) = s /\ s \in Seq(Printing) /\ Len(s) = Len(a) + Len(r) /\ Str(b, Len(a)) = r
  BY <1>7, HoldsIs
<1>9. terminal' = Put(terminal, o)
  BY <1>7, <1>8 DEF Shows, Put, b
<1>10. s \in Seq(Glyphs \ Controls) /\ s \in Seq(Glyphs) /\ Text \in Seq(Glyphs)
  BY <1>1, <1>8, PrintingShown
<1> HIDE DEF s, x, y
<1>11. o \in Seq(Glyphs)
  <2>1. "CR" \in Glyphs /\ "BS" \in Glyphs
    BY GlyphFacts DEF Controls
  <2>2. y \in Seq(Glyphs)
    BY <2>1 DEF y
  <2>3. x \in Seq(Glyphs)
    BY <1>5, <2>1, TimesType DEF x
  <2>4. y \o s \in Seq(Glyphs)
    BY ONLY <1>10, <2>2, CatLen, Zenon
  <2> QED BY ONLY <2>3, <2>4, CatLen, Zenon
<1> HIDE DEF o
<1>12. ASSUME ~rough PROVE Shown(Glyphs, terminal', s, Len(a))
  <2>1. PICK g \in Seq(Glyphs) : terminal = At(g, k) /\ OnLine(g, Text)
    BY <1>12 DEF LineInv, Shown, k
  <2>2. Len(Text) \in Nat /\ Len(s) \in Nat /\ Len(Text) <= Len(s)
    BY <1>1, <1>4, <1>5, <1>7, <1>8
  <2>3. Blank(g, Len(s))
    <3>1. Blank(g, Len(Text))
      BY <2>1 DEF OnLine
    <3> QED BY <2>2, <3>1, BlankBehind
  <2>4. Len(r) \in 0 .. Len(s) /\ Len(s) - Len(r) = Len(a) /\ Controls \subseteq Glyphs
    BY <1>5, <1>7, <1>8, GlyphFacts
  <2>5. Shown(Glyphs, Put(At(g, k), y \o s \o x), s, Len(s) - Len(r))
    BY <1>1, <1>10, <2>3, <2>4, ShownAgain DEF x, y
  <2> QED BY <1>9, <2>1, <2>4, <2>5 DEF o
<1>13. arrow_pressed' \in {0, 1} /\ out' \in Seq(Bytes) /\ (~rough => arrow_pressed' = 0) /\ rough' = rough
  BY DEF LineInv
<1>14. LineInv' /\ Before' = a /\ Behind' = r
  BY <1>4, <1>7, <1>9, <1>11, <1>12, <1>13, LineNext DEF b, E, s
<1> QED BY <1>14 DEF a

(* A list of matches leaves the line as it is and shows it again below.     *)
LEMMA ListingStep ==
  ASSUME LineInv, p_rbuf < read_res, NextByte, UNCHANGED <<out_buf, p_obuf_cur, arrow_pressed, out, rough>>,
         NEW m \in [DOMAIN Words -> Nat], Shows(Listing(m))
  PROVE  LStep
<1> DEFINE x == FlattenSeq([w \in DOMAIN m |-> FlattenSeq(Times(m[w], Append(Words[w], Space)))])
           k == p_obuf_cur
           n == Len(Text) - k
           y == <<"LF">>
           z == Times(n, "BS")
           o == y \o x \o y \o Text \o z
<1>1. /\ Text \in Seq(Printing) /\ Len(Text) = StrEnd(out_buf, 0) /\ StrEnd(out_buf, 0) \in Nat
      /\ k \in 0 .. StrEnd(out_buf, 0) /\ k \in Nat
  BY LineHolds DEF LineInv
<1>2. n \in 0 .. Len(Text) /\ n \in Nat /\ Len(Text) - n = k
  BY <1>1
<1>3. Text \in Seq(Glyphs) /\ Text \in Seq(Glyphs \ Controls)
  BY <1>1, PrintingShown
<1>4. x \in Seq(Glyphs)
  BY ListType
<1>5. terminal' = Put(terminal, o)
  BY DEF Shows, Put, Listing
<1>6. "LF" \in Glyphs /\ "BS" \in Glyphs /\ Controls \subseteq Glyphs
  BY GlyphFacts DEF Controls
<1>7. z \in Seq(Glyphs)
  BY <1>2, <1>6, TimesType
<1> HIDE DEF x, k, n
<1>8. Shown(Glyphs, terminal', Text, k)
  BY <1>2, <1>3, <1>4, <1>5, <1>6, ShownBelow
<1>9. y \in Seq(Glyphs)
  BY <1>6
<1> DEFINE T == Text
<1> HIDE DEF y, z, T
<1>10. o \in Seq(Glyphs)
  <2>1. y \o x \in Seq(Glyphs)
    BY ONLY <1>4, <1>9, CatLen, Zenon
  <2>2. y \o x \o y \in Seq(Glyphs)
    BY ONLY <1>9, <2>1, CatLen, Zenon
  <2>3. T \in Seq(Glyphs)
    BY <1>3 DEF T
  <2>4. y \o x \o y \o T \in Seq(Glyphs)
    BY ONLY <2>2, <2>3, CatLen, Zenon
  <2>5. y \o x \o y \o T \o z \in Seq(Glyphs)
    BY ONLY <1>7, <2>4, CatLen, Zenon
  <2> QED BY <2>5 DEF T
<1> HIDE DEF o
<1>11. Arrived' /\ Budget' + KeyCells <= Budget /\ Budget' \in Nat
  BY ByteTaken DEF LineInv, NextByte
<1>12. p_obuf_cur' \in 0 .. StrEnd(out_buf, 0) /\ p_obuf_cur' = k
  BY <1>1 DEF k
<1>13. LineInv'
  BY <1>5, <1>8, <1>10, <1>11, <1>12, LineMoved
<1>14. Text' = Text
  BY DEF Text, Str, StrEnd, Cells
<1>15. UNCHANGED Ideal!line
  BY <1>14 DEF Ideal!line, Before, Behind
<1> QED BY <1>13, <1>15 DEF LStep

(* The beginning of the string from a cell of the buffer on.                *)
Copied(p, b, i, n) == Len(p) = n /\ \A j \in 1 .. n : p[j] = b[i + j - 1]
LEMMA PrefixText ==
  ASSUME NEW b, NEW l, NEW r, Holds(b, l, r), NEW i \in 0 .. Len(l) + Len(r),
         NEW n \in 0 .. Len(l) + Len(r) - i,
         NEW p \in Seq(Printing), Copied(p, b, i, n)
  PROVE  SubSeq(Str(b, i), 1, n) = p
<1> DEFINE s == Str(b, i)
           E == Len(l) + Len(r)
           x == SubSeq(s, 1, n)
<1>1. Len(l) \in Nat /\ Len(r) \in Nat
  BY DEF Holds
<1>2. E \in Nat /\ i \in Nat /\ n \in Nat /\ i + n <= E /\ E - i \in Nat /\ n \in 0 .. E - i
  BY <1>1
<1>3. s = [j \in 1 .. E - i |-> b[i + j - 1]]
  <2>1. StrEnd(b, i) = E
    BY HoldsEnd
  <2> QED BY <2>1 DEF Str
<1>4. \A j \in 0 .. E - 1 : b[j] \in Printing
  BY HoldsCell
<1> HIDE DEF E, s
<1>5. \A j \in 1 .. E - i : b[i + j - 1] \in Printing
  <2> SUFFICES ASSUME NEW j \in 1 .. E - i PROVE b[i + j - 1] \in Printing
    OBVIOUS
  <2> DEFINE g == i + j - 1
  <2>1. g \in 0 .. E - 1
    BY <1>2
  <2> HIDE DEF g
  <2>2. b[g] \in Printing
    BY <1>4, <2>1
  <2> QED BY <2>2 DEF g
<1>6. s \in Seq(Printing) /\ Len(s) = E - i
  BY <1>2, <1>3, <1>5
<1>7. x \in Seq(Printing) /\ Len(x) = n /\ \A j \in 1 .. n : x[j] = s[j]
  <2>1. n \in 0 .. Len(s)
    BY <1>2, <1>6
  <2> QED BY <1>6, <2>1, Start, Zenon
<1> HIDE DEF x
<1>8. \A j \in 1 .. n : x[j] = p[j]
  <2> SUFFICES ASSUME NEW j \in 1 .. n PROVE x[j] = p[j]
    OBVIOUS
  <2>1. j \in 1 .. E - i
    BY <1>2
  <2>2. s[j] = b[i + j - 1]
    BY <1>3, <2>1
  <2> QED BY <1>7, <2>2 DEF Copied
<1>9. x = p
  BY <1>7, <1>8, SeqEqual DEF Copied
<1> QED BY <1>9 DEF x, s

(* The prefix when the cursor is behind a character of a word.              *)
LEMMA PrefixBefore ==
  ASSUME LineInv, p_obuf_cur # 0, ~IsSep(p_obuf_cur - 1),
         NEW first, first = PrefixStart(p_obuf_cur), NEW last, last = PrefixEnd(p_obuf_cur)
  PROVE  /\ first \in 0 .. p_obuf_cur - 1 /\ last = p_obuf_cur - 1
         /\ ~prefix_is_empty(first, last)
         /\ Prefix(first, last) = Ideal!LastWord(Before) /\ Ideal!LastWord(Before) \in Seq(Printing)
         /\ Len(Ideal!LastWord(Before)) = p_obuf_cur - first
<1> DEFINE k == p_obuf_cur
           l == Before
           r == Behind
           A == {i \in 0 .. k - 1 : IsSep(i)}
           B == {0} \union {i \in 1 .. Len(l) : l[i] \in Separators}
           q == Max(B)
           p == Ideal!LastWord(l)
<1>1. /\ k \in Nat /\ k # 0 /\ Len(l) = k /\ l \in Seq(Printing)
      /\ \A i \in 0 .. k - 1 : /\ i + 1 \in 1 .. Len(l) /\ l[i + 1] = out_buf[i] /\ out_buf[i] # NUL
                               /\ IsSep(i) <=> l[i + 1] \in Separators
  BY SepCells
<1>2. Holds(out_buf, l, r) /\ ~IsSep(k - 1)
  BY LineHolds
<1>3. last = k - 1
  BY <1>1 DEF PrefixEnd
<1>4. first = IF A = {} THEN 0 ELSE Max(A) + 1
  <2> DEFINE from == IF k > 0 /\ ~IsSep(k - 1) THEN k - 1 ELSE k
  <2>1. from = k - 1
    BY <1>1, <1>2
  <2>2. first = IF {i \in 0 .. from : IsSep(i)} = {} THEN 0 ELSE Max({i \in 0 .. from : IsSep(i)}) + 1
    BY DEF PrefixStart
  <2> HIDE DEF from, k
  <2> QED BY ONLY <2>1, <2>2, Zenon
<1>5. p = SubSeq(l, 1 + q, Len(l))
  BY ShortWords DEF Ideal!LastWord
<1> HIDE DEF k, l, r, p
<1>6. B \in SUBSET (0 .. k) /\ B # {} /\ A \in SUBSET (0 .. k)
  BY <1>1
<1>7. q \in B /\ \A y \in B : q >= y
  <2> HIDE DEF B
  <2> QED BY <1>1, <1>6, MaxOf
<1>8. A # {} => Max(A) \in A /\ \A y \in A : Max(A) >= y
  <2> HIDE DEF A
  <2> QED BY <1>1, <1>6, MaxOf
<1>9. first = q
  <2> HIDE DEF q
  <2>1. \A i \in B : i = 0 \/ (i \in Nat /\ i - 1 \in A)
    <3> SUFFICES ASSUME NEW i \in B, i # 0 PROVE i \in Nat /\ i - 1 \in A
      OBVIOUS
    <3>1. i \in 1 .. k /\ l[i] \in Separators
      BY <1>1
    <3> DEFINE j == i - 1
    <3>2. j \in 0 .. k - 1 /\ j + 1 = i /\ i \in Nat
      BY <1>1, <3>1
    <3> HIDE DEF j
    <3>3. IsSep(j)
      BY <1>1, <3>1, <3>2
    <3> QED BY <3>2, <3>3 DEF j
  <2>2. \A i \in A : i \in 0 .. k - 1 /\ i + 1 \in B
    BY <1>1
  <2>3. q \in Nat /\ (\A y \in B : y \in Nat)
    BY <1>1, <1>6, <1>7
  <2>4. CASE A = {}
    <3>1. q = 0
      BY <1>7, <2>1, <2>4
    <3> QED BY <1>4, <2>4, <3>1
  <2>5. CASE A # {}
    <3> DEFINE x == Max(A)
    <3>1. x \in A /\ \A y \in A : x >= y
      BY <1>8, <2>5
    <3> HIDE DEF x
    <3>2. x \in Nat /\ x + 1 \in B /\ q >= x + 1
      BY <1>1, <1>7, <2>2, <3>1
    <3>3. q # 0
      BY ONLY <2>3, <3>2
    <3>4. q - 1 \in A
      BY <1>7, <2>1, <3>3
    <3>5. x >= q - 1
      BY <3>1, <3>4
    <3>6. q = x + 1
      BY ONLY <2>3, <3>2, <3>5
    <3> QED BY <1>4, <2>5, <3>6 DEF x
  <2> QED BY <2>4, <2>5
<1>10. first \in 0 .. k - 1
  <2>1. q \in 0 .. k
    BY <1>6, <1>7
  <2>2. q # k
    <3>1. SUFFICES ASSUME q = k PROVE FALSE
      OBVIOUS
    <3>2. l[k] \in Separators
      BY <1>1, <1>7, <3>1
    <3>3. k - 1 \in 0 .. k - 1 /\ (k - 1) + 1 = k
      BY <1>1
    <3> QED BY <1>1, <1>2, <3>2, <3>3
  <2> HIDE DEF q
  <2> QED BY ONLY <1>1, <1>9, <2>1, <2>2
<1>11. ~IsSep(first) /\ out_buf[first] # NUL
  <2>1. first + 1 \in 1 .. Len(l) /\ (IsSep(first) <=> l[first + 1] \in Separators) /\ out_buf[first] # NUL
    BY <1>1, <1>10
  <2>2. SUFFICES ASSUME l[first + 1] \in Separators PROVE FALSE
    BY <2>1
  <2>3. first + 1 \in B
    BY <2>1, <2>2
  <2>4. q >= first + 1
    BY <1>7, <2>3
  <2> HIDE DEF q
  <2>5. first \in Nat /\ first >= first + 1
    BY <1>1, <1>9, <1>10, <2>4
  <2> QED BY ONLY <2>5
<1> HIDE DEF q, A, B
<1>12. ~prefix_is_empty(first, last)
  <2>1. SUFFICES ASSUME first # last PROVE ~ \A i \in first .. last - 1 : IsSep(i)
    BY <1>11 DEF prefix_is_empty
  <2>2. first \in first .. last - 1
    BY <1>1, <1>3, <1>10, <2>1
  <2> QED BY <1>11, <2>2
<1>13. SkipSeps(first) = first
  <2> DEFINE T == {j \in Cells : j >= first /\ ~IsSep(j)}
  <2>1. first \in Cells
    <3>1. \A j \in 0 .. Len(l) + Len(r) - 1 : j \in Cells
      BY <1>2, HoldsCell
    <3>2. Len(r) \in Nat
      BY <1>2 DEF Holds
    <3> QED BY <1>1, <1>10, <3>1, <3>2
  <2>2. T \in SUBSET Nat /\ first \in T
    BY <1>11, <2>1, CellsAre
  <2>3. \A y \in T : y >= first /\ y \in Nat
    BY <2>2
  <2> HIDE DEF T
  <2>4. Min(T) \in T /\ \A y \in T : Min(T) <= y
    BY <2>2, MinOf
  <2>5. Min(T) = first
    <3> DEFINE x == Min(T)
    <3>1. x \in Nat /\ x >= first /\ x <= first /\ first \in Nat
      BY <2>2, <2>3, <2>4
    <3> HIDE DEF x
    <3>2. x = first
      BY ONLY <3>1
    <3> QED BY <3>2 DEF x
  <2> QED BY <2>5 DEF SkipSeps, T
<1>14. Prefix(first, last) = SubSeq(Str(out_buf, first), 1, k - first)
  <2>1. last - first + 1 = k - first
    BY <1>1, <1>3, <1>10
  <2> QED BY <1>13, <2>1 DEF Prefix
<1>15. p \in Seq(Printing) /\ Len(p) = k - first /\ \A i \in 1 .. k - first : p[i] = l[first + i]
  <2>1. p = SubSeq(l, first + 1, k) /\ first + 1 \in Nat /\ first + 1 > 0 /\ k \in Int /\ (first + 1) - 1 <= k /\ k <= Len(l)
    BY <1>1, <1>5, <1>9, <1>10
  <2>2. k - (first + 1) + 1 = k - first /\ \A i \in 1 .. k - first : (first + 1) + i - 1 = first + i
    BY <1>1, <1>10
  <2>3. /\ SubSeq(l, first + 1, k) \in Seq(Printing) /\ Len(SubSeq(l, first + 1, k)) = k - (first + 1) + 1
        /\ \A i \in 1 .. k - (first + 1) + 1 : SubSeq(l, first + 1, k)[i] = l[(first + 1) + i - 1]
    BY <1>1, <2>1, Piece
  <2> QED BY <2>1, <2>2, <2>3
<1>16. SubSeq(Str(out_buf, first), 1, k - first) = p
  <2>1. Len(r) \in Nat
    BY <1>2 DEF Holds
  <2>2. first \in 0 .. Len(l) + Len(r) /\ k - first \in 0 .. Len(l) + Len(r) - first
    BY <1>1, <1>10, <2>1
  <2>3. ASSUME NEW i \in 1 .. k - first PROVE p[i] = out_buf[first + i - 1]
    <3> DEFINE j == first + i - 1
    <3>1. j \in 0 .. k - 1 /\ j + 1 = first + i
      BY <1>1, <1>10
    <3> HIDE DEF j
    <3>2. l[j + 1] = out_buf[j]
      BY <1>1, <3>1
    <3>3. p[i] = l[first + i]
      BY <1>15
    <3> QED BY <3>1, <3>2, <3>3 DEF j
  <2>4. Holds(out_buf, l, r)
    BY <1>2
  <2>5. p \in Seq(Printing) /\ Copied(p, out_buf, first, k - first)
    BY <1>15, <2>3 DEF Copied
  <2> QED BY ONLY <2>2, <2>4, <2>5, PrefixText, Zenon
<1> QED BY <1>3, <1>10, <1>12, <1>14, <1>15, <1>16 DEF k, l, p

(* Nothing to complete when the cursor is behind a separator.               *)
LEMMA PrefixNone ==
  ASSUME LineInv, p_obuf_cur # 0, IsSep(p_obuf_cur - 1)
  PROVE  prefix_is_empty(PrefixStart(p_obuf_cur), PrefixEnd(p_obuf_cur))
<1> DEFINE k == p_obuf_cur
           from == IF k > 0 /\ ~IsSep(k - 1) THEN k - 1 ELSE k
           A == {i \in 0 .. k : IsSep(i)}
           x == Max(A)
           first == PrefixStart(k)
           last == PrefixEnd(k)
<1>1. k \in Nat /\ k # 0 /\ IsSep(k - 1)
  BY SepCells
<1>2. from = k
  BY <1>1
<1>3. first = IF {i \in 0 .. from : IsSep(i)} = {} THEN 0 ELSE Max({i \in 0 .. from : IsSep(i)}) + 1
  BY DEF PrefixStart
<1>4. last = k - 1
  BY <1>1 DEF PrefixEnd
<1> HIDE DEF from, k, first, last
<1>5. first = IF A = {} THEN 0 ELSE Max(A) + 1
  BY ONLY <1>2, <1>3, Zenon
<1>6. k - 1 \in A /\ A \in SUBSET (0 .. k) /\ A # {}
  BY <1>1
<1>7. x \in A /\ \A y \in A : x >= y
  <2> HIDE DEF A
  <2> QED BY <1>1, <1>6, MaxOf
<1>8. x \in Nat /\ x >= k - 1 /\ first = x + 1
  BY <1>1, <1>5, <1>6, <1>7
<1> HIDE DEF x, A
<1>9. first # last /\ \A i \in first .. last - 1 : FALSE
  BY ONLY <1>1, <1>4, <1>8
<1> QED BY <1>9 DEF prefix_is_empty, k, first, last

(* With the cursor at the start of the line the prefix is the first         *)
(* character or, behind a separator, the second.                            *)
LEMMA PrefixBehind ==
  ASSUME LineInv, p_obuf_cur = 0, NEW n, n = PrefixStart(0), NEW last, last = PrefixEnd(0)
  PROVE  /\ last = n /\ n \in {0, 1} /\ Behind = Text /\ Before = <<>>
         /\ ~prefix_is_empty(n, n) =>
              /\ n < Len(Behind) /\ (n = 1 <=> Behind[1] \in Separators)
              /\ Prefix(n, n) = <<>> \/ Prefix(n, n) = <<Behind[n + 1]>>
<1> DEFINE l == Before
           r == Behind
           E == Len(r)
           A == {i \in 0 .. 0 : IsSep(i)}
<1>1. /\ Holds(out_buf, l, r) /\ Len(l) = 0 /\ r \in Seq(Printing) /\ Text \in Seq(Printing)
      /\ Text = l \o r /\ l \in Seq(Printing)
  BY LineHolds
<1>2. l = <<>>
  BY <1>1, EmptySeq
<1>3. r = Text
  <2>1. <<>> \o r = r
    BY <1>1, ConcatEmptySeq
  <2> QED BY <1>1, <1>2, <2>1
<1>4. E \in Nat /\ (\A i \in 0 .. E - 1 : out_buf[i] = r[i + 1] /\ r[i + 1] \in Printing) /\ out_buf[E] = NUL /\ E \in Cells
  <2>1. \A i \in 1 .. Len(r) : out_buf[Len(l) + i - 1] = r[i] /\ r[i] \in Printing
    BY <1>1 DEF Holds
  <2>2. E \in Nat /\ Len(l) + E = E
    BY <1>1
  <2>3. out_buf[E] = NUL /\ E \in Cells
    BY <1>1, <2>2 DEF Holds
  <2> HIDE DEF E
  <2>4. ASSUME NEW i \in 0 .. E - 1 PROVE out_buf[i] = r[i + 1] /\ r[i + 1] \in Printing
    <3> DEFINE j == i + 1
    <3>1. j \in 1 .. E /\ Len(l) + j - 1 = i
      BY <1>1, <2>2
    <3> HIDE DEF j
    <3>2. out_buf[Len(l) + j - 1] = r[j] /\ r[j] \in Printing
      BY <2>1, <3>1 DEF E
    <3> QED BY <3>1, <3>2 DEF j
  <2> QED BY <2>2, <2>3, <2>4
<1>5. last = n
  BY DEF PrefixEnd
<1> HIDE DEF l, r, E
<1>6. (IsSep(0) /\ n = 1) \/ (~IsSep(0) /\ n = 0)
  <2>1. n = IF A = {} THEN 0 ELSE Max(A) + 1
    <3> DEFINE from == IF 0 > 0 /\ ~IsSep(0 - 1) THEN 0 - 1 ELSE 0
    <3>1. from = 0
      OBVIOUS
    <3>2. n = IF {i \in 0 .. from : IsSep(i)} = {} THEN 0 ELSE Max({i \in 0 .. from : IsSep(i)}) + 1
      BY DEF PrefixStart
    <3> HIDE DEF from
    <3> QED BY ONLY <3>1, <3>2, Zenon
  <2>2. CASE IsSep(0)
    <3>1. A \in SUBSET (0 .. 0) /\ A # {}
      BY <2>2
    <3>2. Max(A) \in A
      <4> HIDE DEF A
      <4>1. 0 \in Nat
        OBVIOUS
      <4> QED BY <3>1, <4>1, MaxOf
    <3>3. Max(A) = 0
      BY <3>2
    <3>4. A # {}
      BY <3>1
    <3> DEFINE x == Max(A)
    <3>5. x = 0
      BY <3>3
    <3> HIDE DEF A, x
    <3>6. n = x + 1
      BY <2>1, <3>4, Zenon DEF x
    <3>7. n = 1
      BY ONLY <3>5, <3>6
    <3> QED BY <2>2, <3>7
  <2>3. CASE ~IsSep(0)
    <3>1. A = {}
      BY <2>3
    <3> HIDE DEF A
    <3> QED BY <2>1, <2>3, <3>1
  <2> QED BY <2>2, <2>3
<1>7. n \in {0, 1} /\ n \in Nat
  BY <1>6
<1>8. NUL \notin Separators
  BY DEF NUL, Separators, Space
<1>9. ASSUME ~prefix_is_empty(n, n)
      PROVE  n < E /\ (n = 1 <=> r[1] \in Separators)
  <2>1. out_buf[n] # NUL
    BY <1>9 DEF prefix_is_empty
  <2>2. E # 0
    <3>1. SUFFICES ASSUME E = 0 PROVE FALSE
      OBVIOUS
    <3>2. out_buf[0] = NUL
      BY <1>4, <3>1
    <3>3. n = 0
      BY <1>6, <1>8, <3>2 DEF IsSep
    <3> QED BY <2>1, <3>2, <3>3
  <2>3. n # E
    BY <1>4, <2>1
  <2>4. n < E /\ 0 \in 0 .. E - 1
    BY <1>4, <1>7, <2>2, <2>3
  <2>5. out_buf[0] = r[0 + 1] /\ 0 + 1 = 1
    BY <1>4, <2>4
  <2> QED BY <1>6, <2>4, <2>5 DEF IsSep
<1>10. ASSUME ~prefix_is_empty(n, n)
       PROVE  Prefix(n, n) = <<>> \/ Prefix(n, n) = <<r[n + 1]>>
  <2> DEFINE T == {j \in Cells : j >= n /\ ~IsSep(j)}
             from == Min(T)
  <2>1. n < E /\ n \in Cells
    BY <1>4, <1>7, <1>9, <1>10, CellsAre
  <2>2. T \in SUBSET Nat /\ E \in T
    BY <1>4, <1>7, <1>8, <2>1, CellsAre DEF IsSep
  <2>3. from \in T /\ \A y \in T : from <= y
    <3> HIDE DEF T
    <3> QED BY <2>2, MinOf
  <2>4. Prefix(n, n) = SubSeq(Str(out_buf, from), 1, n - from + 1)
    BY DEF Prefix, SkipSeps
  <2>5. from \in Nat /\ from >= n
    BY <2>2, <2>3
  <2>6. CASE IsSep(n)
    <3>1. from # n
      BY <2>3, <2>6
    <3> HIDE DEF from
    <3>2. n - from + 1 < 1 /\ n - from + 1 \in Int
      BY <1>7, <2>5, <3>1
    <3>3. SubSeq(Str(out_buf, from), 1, n - from + 1) = <<>>
      BY <3>2
    <3> QED BY <2>4, <3>3
  <2>7. CASE ~IsSep(n)
    <3>1. from <= n
      BY <2>1, <2>3, <2>7, <1>7
    <3> HIDE DEF from
    <3>2. from = n /\ n - from + 1 = 1
      BY <1>7, <2>5, <3>1
    <3> DEFINE p == <<r[n + 1]>>
    <3>3. out_buf[n] = r[n + 1] /\ r[n + 1] \in Printing
      BY <1>4, <1>7, <2>1
    <3>4. p \in Seq(Printing) /\ Len(p) = 1 /\ p[1] = out_buf[n]
      BY <3>3
    <3> HIDE DEF p
    <3>5. Copied(p, out_buf, n, 1)
      <4>1. \A j \in 1 .. 1 : j = 1 /\ n + j - 1 = n
        BY <1>7
      <4> QED BY <3>4, <4>1 DEF Copied
    <3>6. n \in 0 .. Len(l) + Len(r) /\ 1 \in 0 .. Len(l) + Len(r) - n
      BY <1>1, <1>4, <1>7, <2>1 DEF E, l
    <3>7. Holds(out_buf, l, r)
      BY <1>1
    <3>8. SubSeq(Str(out_buf, n), 1, 1) = p
      <4>1. p \in Seq(Printing)
        BY <3>4
      <4>2. n \in 0 .. Len(l) + Len(r)
        BY <3>6
      <4>3. 1 \in 0 .. Len(l) + Len(r) - n
        BY <3>6
      <4> QED BY ONLY <3>5, <3>7, <4>1, <4>2, <4>3, PrefixText
    <3>9. Prefix(n, n) = p
      BY ONLY <2>4, <3>2, <3>8
    <3> QED BY <3>9 DEF p
  <2> QED BY <2>6, <2>7
<1> QED BY <1>2, <1>3, <1>5, <1>7, <1>9, <1>10 DEF l, r, E

(* The matches that Autocomplete counts.                                    *)
PrefixIsText(first, last) == prefix_is_empty(first, last) \/ Prefix(first, last) \in Seq(Printing)
MatchesOf(first, last) ==
  IF prefix_is_empty(first, last) THEN [w \in DOMAIN Words |-> 1] ELSE Matches(first, last)

(* Their numbers are natural; if they add up to one the prefix is not empty. *)
LEMMA MatchesAre ==
  ASSUME NEW first, NEW last, PrefixIsText(first, last)
  PROVE  /\ MatchesOf(first, last) \in [DOMAIN Words -> Nat]
         /\ ~prefix_is_empty(first, last) /\ SeqTotal(MatchesOf(first, last)) = 1 =>
              Prefix(first, last) # <<>> /\ Matching(MatchesOf(first, last), Prefix(first, last))
<1> DEFINE p == Prefix(first, last)
           e == prefix_is_empty(first, last)
           m == MatchesOf(first, last)
           D == DOMAIN Words
<1>1. m = IF e THEN [w \in D |-> 1] ELSE IF p = <<>> THEN [w \in D |-> 0] ELSE [w \in D |-> Found(p, Words[w])]
  BY DEF MatchesOf, Matches
<1>2. e \/ p \in Seq(Printing)
  BY DEF PrefixIsText
<1> HIDE DEF p, e, m
<1>3. CASE e
  <2>1. m = [w \in D |-> 1]
    BY <1>1, <1>3
  <2>2. m \in [D -> Nat]
    BY <2>1
  <2> QED BY <1>3, <2>2 DEF m, e
<1>4. CASE ~e /\ p = <<>>
  <2>1. m = [w \in D |-> 0]
    BY <1>1, <1>4
  <2>2. m \in [D -> Nat]
    BY <2>1
  <2>3. SUFFICES ASSUME SeqTotal(m) = 1 PROVE FALSE
    BY <2>2 DEF m
  <2> DEFINE n == Len(Words)
  <2>4. D = 1 .. n /\ n \in Nat
    BY WordsFacts
  <2> HIDE DEF n, D
  <2>5. PICK x \in 1 .. n : m[x] = 1
    BY <2>2, <2>3, <2>4, CountOne
  <2>6. m[x] = 0
    BY <2>1, <2>4
  <2> QED BY <2>5, <2>6
<1>5. CASE ~e /\ p # <<>>
  <2>1. m = [w \in D |-> Found(p, Words[w])]
    BY <1>1, <1>5
  <2>2. p \in Seq(Printing)
    BY <1>2, <1>5
  <2>3. m \in [D -> Nat]
    BY <1>5, <2>1, <2>2, MatchesType
  <2> QED BY <1>5, <2>1, <2>3 DEF m, p, Matching
<1> QED BY <1>3, <1>4, <1>5

(* The text up to a place in the text up to the next place.                 *)
LEMMA StartOfStart ==
  ASSUME NEW V, NEW s \in Seq(V), NEW n \in 0 .. Len(s) - 1
  PROVE  SubSeq(SubSeq(s, 1, n + 1), 1, n) = SubSeq(s, 1, n)
<1> DEFINE a == SubSeq(s, 1, n + 1)
           b == SubSeq(a, 1, n)
           c == SubSeq(s, 1, n)
<1>1. n \in Nat /\ n + 1 \in 0 .. Len(s) /\ n \in 0 .. Len(s)
  OBVIOUS
<1>2. a \in Seq(V) /\ Len(a) = n + 1 /\ \A i \in 1 .. n + 1 : a[i] = s[i]
  BY <1>1, Start, Zenon
<1>3. c \in Seq(V) /\ Len(c) = n /\ \A i \in 1 .. n : c[i] = s[i]
  BY <1>1, Start, Zenon
<1> HIDE DEF a, c
<1>4. n \in 0 .. Len(a)
  BY <1>1, <1>2
<1>5. b \in Seq(V) /\ Len(b) = n /\ \A i \in 1 .. n : b[i] = a[i]
  BY <1>2, <1>4, Start, Zenon
<1> HIDE DEF b
<1>6. \A i \in 1 .. n : b[i] = c[i]
  BY <1>1, <1>2, <1>3, <1>5
<1>7. b = c
  BY <1>3, <1>5, <1>6, SeqEqual
<1> QED BY <1>7 DEF a, b, c

(* What Tab does when the only match w is known.                            *)
Only(first, last, w) ==
  LET m == MatchesOf(first, last)
  IN  ~prefix_is_empty(first, last) /\ SeqTotal(m) = 1 /\ w = Words[OneOf(m)]
Completes(first, last, w) ==
  /\ out_buf' = Completed(first, last, w) /\ p_obuf_cur' = first + Len(w)
  /\ Shows(<<"CR">> \o Str(out_buf', 0) \o Times(Len(Str(out_buf', p_obuf_cur')), "BS"))
Lists(m) == UNCHANGED <<out_buf, p_obuf_cur>> /\ (Shows(Listing(m)) \/ UNCHANGED terminal)

(* Tab completes the only match or lists the matches.                       *)
LEMMA TabDoes ==
  ASSUME Autocomplete, NEW first, first = PrefixStart(p_obuf_cur), NEW last, last = PrefixEnd(p_obuf_cur)
  PROVE  /\ p_rbuf < read_res /\ NextByte /\ UNCHANGED <<arrow_pressed, out, rough>>
         /\ (\E w : Only(first, last, w) /\ Completes(first, last, w)) \/ Lists(MatchesOf(first, last))
<1> DEFINE m == MatchesOf(first, last)
           w == Words[OneOf(m)]
           e == prefix_is_empty(first, last)
<1>1. Count(m) = SeqTotal(m)
  BY LongCount
<1>2. /\ p_rbuf < read_res /\ NextByte /\ UNCHANGED <<arrow_pressed, out, rough>>
      /\ IF ~e /\ Count(m) = 1 THEN Completes(first, last, w)
         ELSE UNCHANGED <<out_buf, p_obuf_cur>> /\ IF e \/ Count(m) # 0 THEN Shows(Listing(m)) ELSE UNCHANGED terminal
  BY DEF Autocomplete, Reading, MatchesOf, OneOf, Completes
<1> HIDE DEF m, e
<1>3. CASE ~e /\ Count(m) = 1
  BY <1>1, <1>2, <1>3 DEF Only, m, e
<1>4. CASE ~(~e /\ Count(m) = 1)
  BY <1>2, <1>4 DEF Lists, m
<1> QED BY <1>2, <1>3, <1>4

(* Completing the last word before the cursor.                              *)
LEMMA TabBefore ==
  ASSUME LineInv, p_obuf_cur # 0, NEW first, first = PrefixStart(p_obuf_cur),
         NEW last, last = PrefixEnd(p_obuf_cur),
         p_rbuf < read_res, NextByte, UNCHANGED <<arrow_pressed, out, rough>>,
         NEW w, Only(first, last, w), Completes(first, last, w)
  PROVE  LStep
<1> DEFINE l == Before
           p == Ideal!LastWord(l)
           k == p_obuf_cur
           m == MatchesOf(first, last)
<1>1. Holds(out_buf, l, Behind) /\ Len(l) = k /\ k \in Nat /\ l \in Seq(Printing)
  BY LineHolds DEF LineInv
<1>2. ~prefix_is_empty(first, last) /\ SeqTotal(m) = 1 /\ w = Words[OneOf(m)]
  BY DEF Only
<1>3. ~IsSep(k - 1)
  BY <1>2, PrefixNone
<1>4. /\ first \in 0 .. k - 1 /\ last = k - 1 /\ Prefix(first, last) = p
      /\ p \in Seq(Printing) /\ Len(p) = k - first
  BY <1>3, PrefixBefore
<1>5. p # <<>> /\ Matching(m, p)
  BY <1>2, <1>4, MatchesAre DEF PrefixIsText
<1> HIDE DEF m, p, k, l
<1>6. w \in Seq(Letters) /\ w \in ToSet(Words) /\ Len(p) <= Len(w) /\ Len(w) < KeyCells /\ Ideal!OnlyWord(p, w)
  BY <1>2, <1>4, <1>5, OnlyWordIs
<1>7. /\ out_buf' = Completed(first, Len(l) - 1, w) /\ p_obuf_cur' = first + Len(w)
      /\ Shows(<<"CR">> \o Str(out_buf', 0) \o Times(Len(Str(out_buf', p_obuf_cur')), "BS"))
  BY <1>1, <1>4 DEF Completes
<1>8. Len(l) - first <= Len(w) /\ first \in 0 .. Len(l) - 1
  BY <1>1, <1>4, <1>6
<1>9. LineInv' /\ Before' = SubSeq(l, 1, first) \o w /\ Behind' = Behind
  BY <1>1, <1>6, <1>7, <1>8, CompletionStep
<1>10. Len(l) - Len(p) = first
  BY <1>1, <1>4
<1>11. Before' = SubSeq(l, 1, Len(l) - Len(p)) \o w
  BY <1>9, <1>10
<1>12. Ideal!Complete
  BY <1>6, <1>9, <1>11 DEF Ideal!Complete, p, l
<1> QED BY <1>9, <1>12 DEF LStep, Ideal!Next

(* Completing what is behind the cursor at the start of the line.           *)
LEMMA TabBehind ==
  ASSUME LineInv, p_obuf_cur = 0, NEW n, n = PrefixStart(0), NEW last, last = PrefixEnd(0),
         p_rbuf < read_res, NextByte, UNCHANGED <<arrow_pressed, out, rough>>,
         NEW w, Only(n, last, w), Completes(n, last, w)
  PROVE  LStep
<1> DEFINE r == Behind
           p == <<r[n + 1]>>
           m == MatchesOf(n, last)
           l == SubSeq(r, 1, n + 1)
           y == SubSeq(r, n + 2, Len(r))
<1>1. ~prefix_is_empty(n, last) /\ SeqTotal(m) = 1 /\ w = Words[OneOf(m)]
  BY DEF Only
<1>2. /\ last = n /\ n \in {0, 1} /\ r = Text /\ Before = <<>>
      /\ n < Len(r) /\ (n = 1 <=> r[1] \in Separators)
      /\ Prefix(n, last) = <<>> \/ Prefix(n, last) = p
  BY <1>1, PrefixBehind
<1>3. r \in Seq(Printing) /\ Len(r) = StrEnd(out_buf, 0) /\ Len(r) \in Nat
  BY <1>2, LineHolds
<1>4. n \in Nat /\ n + 1 \in 0 .. Len(r) /\ n \in 0 .. Len(r) - 1 /\ n + 1 \in 1 .. Len(r) /\ n + 2 = (n + 1) + 1
  BY <1>2, <1>3
<1>5. p \in Seq(Printing) /\ Len(p) = 1 /\ p # <<>>
  <2>1. r[n + 1] \in Printing
    BY <1>3, <1>4
  <2> QED BY <2>1
<1>6. Prefix(n, last) \in Seq(Printing)
  <2>1. <<>> \in Seq(Printing)
    OBVIOUS
  <2>2. p \in Seq(Printing)
    BY <1>5
  <2>3. Prefix(n, last) = <<>> \/ Prefix(n, last) = p
    BY <1>2
  <2> HIDE DEF p
  <2> QED BY ONLY <2>1, <2>2, <2>3, Zenon
<1>7. Matching(m, p)
  BY <1>1, <1>2, <1>6, MatchesAre DEF PrefixIsText
<1>8. /\ out_buf' = Completed(n, n, w) /\ p_obuf_cur' = n + Len(w)
      /\ Shows(<<"CR">> \o Str(out_buf', 0) \o Times(Len(Str(out_buf', p_obuf_cur')), "BS"))
  BY <1>2 DEF Completes
<1> HIDE DEF p, m, r
<1>9. w \in Seq(Letters) /\ w \in ToSet(Words) /\ Len(p) <= Len(w) /\ Len(w) < KeyCells /\ Ideal!OnlyWord(p, w)
  BY <1>1, <1>5, <1>7, OnlyWordIs
<1>10. Holds(out_buf, l, y) /\ Len(l) = n + 1
  <2> DEFINE z == StrEnd(out_buf, 0)
             c == n + 1
  <2>1. out_buf \in [Cells -> Cell] /\ z \in Cells /\ out_buf[z] = NUL
    <3>1. Holds(out_buf, Before, r)
      BY LineHolds DEF r
    <3>2. StrEnd(out_buf, 0) = Len(Before) + Len(r)
      <4>1. Len(Before) \in Nat
        BY <1>2
      <4>2. 0 \in 0 .. Len(Before) + Len(r)
        BY <1>3, <4>1
      <4> QED BY <3>1, <4>2, HoldsEnd
    <3> QED BY <3>1, <3>2 DEF Holds
  <2>2. c \in 0 .. StrEnd(out_buf, 0)
    BY <1>3, <1>4
  <2>3. l = SubSeq(Str(out_buf, 0), 1, c) /\ y = SubSeq(Str(out_buf, 0), c + 1, Len(Str(out_buf, 0)))
    BY <1>2, <1>4 DEF Text
  <2> HIDE DEF z, c, l, y
  <2>4. Holds(out_buf, l, y) /\ Len(l) = c
    BY <2>1, <2>2, <2>3, HoldsOf
  <2> QED BY <2>4 DEF c
<1>11. SubSeq(l, 1, n) = SubSeq(r, 1, n)
  BY <1>3, <1>4, StartOfStart
<1> HIDE DEF l, y
<1>12. Len(l) - 1 = n /\ n \in 0 .. Len(l) - 1 /\ Len(l) - n <= Len(w)
  BY <1>4, <1>5, <1>9, <1>10
<1>13. LineInv' /\ Before' = SubSeq(l, 1, n) \o w /\ Behind' = y
  <2>1. out_buf' = Completed(n, Len(l) - 1, w)
    BY <1>8, <1>12
  <2> QED BY <1>8, <1>9, <1>10, <1>12, <2>1, CompletionStep
<1>14. Ideal!Complete
  BY <1>2, <1>9, <1>11, <1>13 DEF Ideal!Complete, p, r, y
<1> QED BY <1>13, <1>14 DEF LStep, Ideal!Next

(* Tab.                                                                     *)
LEMMA LineAutocomplete == ASSUME LineInv, Autocomplete PROVE LStep
<1> DEFINE first == PrefixStart(p_obuf_cur)
           last == PrefixEnd(p_obuf_cur)
           m == MatchesOf(first, last)
<1>1. p_rbuf < read_res /\ NextByte /\ UNCHANGED <<arrow_pressed, out, rough>>
  BY TabDoes
<1>2. (\E w : Only(first, last, w) /\ Completes(first, last, w)) \/ Lists(m)
  BY TabDoes
<1>3. ASSUME ~prefix_is_empty(first, last) PROVE Prefix(first, last) \in Seq(Printing)
  <2>1. CASE p_obuf_cur = 0
    <3> DEFINE r == Behind
    <3>1. /\ last = first /\ first \in {0, 1} /\ first < Len(r)
          /\ Prefix(first, last) = <<>> \/ Prefix(first, last) = <<r[first + 1]>>
      BY <1>3, <2>1, PrefixBehind
    <3>2. r \in Seq(Printing)
      BY LineHolds
    <3> HIDE DEF r, first, last
    <3>3. r[first + 1] \in Printing
      BY <3>1, <3>2
    <3> DEFINE p == <<r[first + 1]>>
    <3>4. <<>> \in Seq(Printing) /\ p \in Seq(Printing)
      BY <3>3
    <3>5. Prefix(first, last) = <<>> \/ Prefix(first, last) = p
      BY <3>1
    <3> HIDE DEF p
    <3> QED BY ONLY <3>4, <3>5, Zenon
  <2>2. CASE p_obuf_cur # 0
    <3>1. ~IsSep(p_obuf_cur - 1)
      BY <1>3, <2>2, PrefixNone
    <3> QED BY <2>2, <3>1, PrefixBefore
  <2> QED BY <2>1, <2>2
<1>4. m \in [DOMAIN Words -> Nat]
  BY <1>3, MatchesAre DEF PrefixIsText
<1>5. CASE Lists(m)
  <2> HIDE DEF m
  <2>1. CASE Shows(Listing(m))
    BY <1>1, <1>4, <1>5, <2>1, ListingStep DEF Lists
  <2>2. CASE UNCHANGED terminal
    BY <1>1, <1>5, <2>2, ByteSame DEF Lists
  <2> QED BY <1>5, <2>1, <2>2 DEF Lists
<1>6. CASE \E w : Only(first, last, w) /\ Completes(first, last, w)
  <2>1. PICK w : Only(first, last, w) /\ Completes(first, last, w)
    BY <1>6
  <2>2. CASE p_obuf_cur = 0
    BY <1>1, <2>1, <2>2, TabBehind
  <2>3. CASE p_obuf_cur # 0
    BY <1>1, <2>1, <2>3, TabBefore
  <2> QED BY <2>2, <2>3
<1> QED BY <1>2, <1>5, <1>6

-----------------------------------------------------------------------------
(***************************************************************************)
(* Both editors                                                            *)
(***************************************************************************)

(* Every step of the editor with arrow keys.                                *)
LEMMA LineStep == ASSUME LineInv, Next PROVE LStep
<1>1. CASE \E s \in Inputs : Read(s)
  BY <1>1, LineRead
<1>2. CASE Quit
  BY <1>2, LineQuit
<1>3. CASE Enter
  BY <1>3, LineEnter
<1>4. CASE Backspace
  BY <1>4, LineBackspace
<1>5. CASE Escape
  BY <1>5, LineEscape
<1>6. CASE ErasePrevWord
  BY <1>6, LineErase
<1>7. CASE Autocomplete
  BY <1>7, LineAutocomplete
<1>8. CASE \E c \in Printing : TypeInside(c) \/ TypeAtEnd(c)
  BY <1>8, LineTypeInside, LineTypeAtEnd
<1> QED BY <1>1, <1>2, <1>3, <1>4, <1>5, <1>6, <1>7, <1>8 DEF Next

(* An empty line in a buffer that may hold a few characters behind its      *)
(* first cell.                                                              *)
LEMMA LineInit ==
  ASSUME NEW n \in {0, 2}, out_buf = [j \in Cells |-> IF j \in 1 .. n THEN "[" ELSE NUL],
         p_obuf_cur = 0, arrow_pressed = 0, read_buf = <<>>, read_res = 0, p_rbuf = 0, out = <<>>,
         terminal = [line |-> <<>>, col |-> 0], running \in BOOLEAN, reads = 0, rough = FALSE
  PROVE  LineInv
<1> DEFINE e == <<>>
<1>1. Size \in Nat \ {0} /\ Cells = 0 .. Size - 1 /\ MaxReads \in Nat
  BY CellsAre
<1>2. \A j \in Cells : out_buf[j] = IF j \in 1 .. n THEN "[" ELSE NUL
  OBVIOUS
<1>3. out_buf \in [Cells -> Cell]
  BY <1>2 DEF Cell, Printing
<1>4. e \in Seq(Printing) /\ e \in Seq(Bytes) /\ e \in Seq(Glyphs) /\ Len(e) = 0
  OBVIOUS
<1>5. 0 \in Cells /\ out_buf[0] = NUL
  BY <1>1, <1>2
<1>6. StrEnd(out_buf, 0) = 0
  <2>1. \A j \in Cells : j >= 0 /\ j < 0 => out_buf[j] # NUL
    BY <1>1
  <2>2. 0 \in Nat /\ 0 >= 0
    OBVIOUS
  <2> QED BY <1>5, <2>1, <2>2, EndIs
<1>7. Text = e
  <2>1. Text = [k \in 1 .. 0 - 0 |-> out_buf[0 + k - 1]]
    BY ONLY <1>6 DEF Text, Str
  <2>2. [k \in 1 .. 0 - 0 |-> out_buf[0 + k - 1]] = <<>>
    OBVIOUS
  <2> QED BY ONLY <2>1, <2>2
<1>8. Arrived
  <2>1. Len(read_buf) = 0
    OBVIOUS
  <2> QED BY <1>1, <2>1 DEF Arrived
<1>9. Room
  <2> DEFINE B == MaxReads * ReadBytes * KeyCells
  <2>1. ReadBytes \in Nat /\ KeyCells \in Nat \ {0} /\ B + 3 < Size
    BY RoomIs
  <2>2. Budget = B
    <3>1. Unread = 0
      BY DEF Unread
    <3>2. (MaxReads - reads) * ReadBytes + Unread = MaxReads * ReadBytes
      <4>1. MaxReads - reads = MaxReads /\ MaxReads * ReadBytes \in Nat
        BY <1>1, <2>1
      <4> QED BY <3>1, <4>1
    <3> QED BY <3>2 DEF Budget
  <2>3. B \in Nat
    BY <2>2, <1>8, BudgetNat
  <2> HIDE DEF B
  <2>4. B <= Size - 1
    BY <1>1, <2>1, <2>3
  <2>5. ASSUME NEW j \in Cells, j + B >= Size - 1 PROVE out_buf[j] = NUL
    <3>1. j > 2 /\ j \in Nat
      BY <1>1, <2>1, <2>3, <2>5
    <3>2. n \in 0 .. 2
      OBVIOUS
    <3>3. j \notin 1 .. n
      BY <3>1, <3>2
    <3> QED BY <1>2, <3>3
  <2> QED BY <2>2, <2>4, <2>5 DEF Room
<1>10. terminal = At(e, 0) /\ 0 \in 0 .. Len(e)
  BY <1>4 DEF At
<1>11. Printed
  BY <1>4, <1>10 DEF Printed
<1>12. Shown(Glyphs, terminal, Text, p_obuf_cur)
  <2>1. OnLine(e, e)
    BY <1>4 DEF OnLine, Blank
  <2>2. p_obuf_cur = 0
    OBVIOUS
  <2> HIDE DEF e
  <2> QED BY <1>4, <1>7, <1>10, <2>1, <2>2 DEF Shown
<1>13. p_obuf_cur \in 0 .. StrEnd(out_buf, 0)
  BY <1>6
<1> QED BY <1>3, <1>4, <1>8, <1>9, <1>11, <1>12, <1>13 DEF LineInv

(* A step that leaves everything as it is.                                  *)
LEMMA LineUnchanged == ASSUME LineInv, UNCHANGED vars PROVE LineInv'
<1>1. UNCHANGED <<out_buf, p_obuf_cur, arrow_pressed, out, terminal, read_buf, reads, read_res, p_rbuf, running, rough>>
  BY DEF vars, editor, input
<1>2. Arrived'
  BY <1>1 DEF LineInv, Arrived
<1> DEFINE D == Budget'
<1>3. D = Budget /\ Budget \in Nat
  BY <1>1, BudgetNat DEF Budget, Unread, LineInv
<1> HIDE DEF D
<1>4. D \in Nat /\ D <= Budget
  BY <1>3
<1>5. (rough' <=> rough) /\ rough' \in BOOLEAN
  BY <1>1, Zenon DEF LineInv
<1>6. LStep
  BY <1>1, <1>2, <1>4, <1>5, LineSame DEF D
<1> QED BY <1>6 DEF LStep

(* The inductive invariant of the two editors together.                     *)
EInv == LineInv /\ SInv

(* It holds at the start, whichever editor runs.                            *)
LEMMA EditorsInit == ASSUME MCInit PROVE EInv
<1>1. CASE short = FALSE /\ Init /\ typed = <<>> /\ stale = <<>> /\ screen = [line |-> <<>>, col |-> 0] /\ dirty = FALSE
  <2>1. SInv
    BY <1>1, ShortInit
  <2>2. PICK n \in {0, 2} : out_buf = [j \in Cells |-> IF j \in 1 .. n THEN "[" ELSE NUL]
    BY <1>1 DEF Init
  <2>3. LineInv
    BY <1>1, <2>2, LineInit DEF Init
  <2> QED BY <2>1, <2>3 DEF EInv
<1>2. CASE /\ short = TRUE /\ S!Init
           /\ out_buf = [j \in Cells |-> NUL] /\ p_obuf_cur = 0 /\ arrow_pressed = 0
           /\ read_buf = <<>> /\ read_res = 0 /\ p_rbuf = 0 /\ out = <<>>
           /\ terminal = [line |-> <<>>, col |-> 0] /\ running = FALSE /\ reads = 0 /\ rough = FALSE
  <2>1. SInv
    BY <1>2, ShortInit, ShortWords DEF S!Init
  <2>2. out_buf = [j \in Cells |-> IF j \in 1 .. 0 THEN "[" ELSE NUL]
    BY <1>2
  <2>3. LineInv
    BY <1>2, <2>2, LineInit
  <2> QED BY <2>1, <2>3 DEF EInv
<1> QED BY <1>1, <1>2 DEF MCInit

Edited == rough' \/ Ideal!Next \/ UNCHANGED Ideal!line
ShortEdited == (stale # <<>> /\ typed = <<>> /\ stored' = stale) \/ S!Ideal!Next \/ UNCHANGED S!Ideal!line

(* Every step of either editor keeps it and does what TextLine says.        *)
LEMMA EditorsStep ==
  ASSUME EInv, [MCNext]_<<vars, shortEditor, short>>
  PROVE  EInv' /\ [Edited]_vars /\ [ShortEdited]_(S!shortVars)
<1>1. CASE ~short /\ Next /\ UNCHANGED <<shortEditor, short>>
  <2>1. LStep
    BY <1>1, LineStep DEF EInv
  <2>2. UNCHANGED <<typed, stale, waiting, stored, screen, open, calls, dirty>>
    BY <1>1 DEF shortEditor
  <2>3. SStep
    BY <2>2, ShortSame DEF EInv
  <2>4. UNCHANGED S!shortVars
    BY <2>2 DEF S!shortVars, S!buffer
  <2> QED BY <2>1, <2>3, <2>4 DEF EInv, LStep, SStep, Edited
<1>2. CASE short /\ S!Next /\ UNCHANGED <<vars, short>>
  <2>1. SStep
    BY <1>2, ShortStep DEF EInv
  <2>2. LineInv' /\ UNCHANGED vars
    BY <1>2, LineUnchanged DEF EInv
  <2> QED BY <2>1, <2>2 DEF EInv, SStep, ShortEdited, Stored
<1>3. CASE UNCHANGED <<vars, shortEditor, short>>
  <2>1. LineInv' /\ UNCHANGED vars
    BY <1>3, LineUnchanged DEF EInv
  <2>2. UNCHANGED <<typed, stale, waiting, stored, screen, open, calls, dirty>>
    BY <1>3 DEF shortEditor
  <2>3. SStep
    BY <2>2, ShortSame DEF EInv
  <2>4. UNCHANGED S!shortVars
    BY <2>2 DEF S!shortVars, S!buffer
  <2> QED BY <2>1, <2>3, <2>4 DEF EInv, SStep
<1> QED BY <1>1, <1>2, <1>3 DEF MCNext

(* So it always holds.                                                      *)
LEMMA EditorsInv == MCSpec => []EInv
<1>1. MCInit => EInv
  BY EditorsInit
<1>2. EInv /\ [MCNext]_<<vars, shortEditor, short>> => EInv'
  BY EditorsStep
<1> QED BY <1>1, <1>2, PTL DEF MCSpec

(* It implies the types                                                     *)
LEMMA LineType == ASSUME LineInv PROVE TypeOK
<1>1. Cell \subseteq Bytes
  BY DEF Cell, Bytes
<1>2. out_buf \in [Cells -> Cell]
  BY DEF LineInv
<1>3. out_buf \in [Cells -> Bytes]
  BY <1>1, <1>2
<1>4. \E j \in Cells : out_buf[j] = NUL
  <2> DEFINE j == Size - 1
  <2>1. Budget \in Nat
    BY BudgetNat DEF LineInv
  <2>2. j \in Cells /\ j + Budget >= Size - 1
    BY <2>1, CellsAre
  <2> HIDE DEF j
  <2>3. out_buf[j] = NUL
    BY <2>2 DEF LineInv, Room
  <2> QED BY <2>2, <2>3
<1>5. PICK l \in Seq(Bytes) : \E i \in 0 .. Len(l) : terminal = At(l, i)
  BY DEF LineInv, Printed
<1>6. terminal.line \in Seq(Bytes) /\ terminal.col \in 0 .. Len(terminal.line)
  BY <1>5 DEF At
<1> QED BY <1>3, <1>4, <1>6 DEF LineInv, Arrived, TypeOK

(* and that the terminal shows the text.                                    *)
LEMMA LineShows == ASSUME LineInv PROVE TerminalShowsText
<1>1. SUFFICES ASSUME ~rough PROVE
        /\ terminal.col = p_obuf_cur /\ Text = SubSeq(terminal.line, 1, Len(Text))
        /\ \A i \in Len(Text) + 1 .. Len(terminal.line) : terminal.line[i] = Space
  BY DEF TerminalShowsText
<1>2. Text \in Seq(Glyphs) /\ p_obuf_cur \in 0 .. Len(Text) /\ Shown(Glyphs, terminal, Text, p_obuf_cur)
  <2>1. Text \in Seq(Printing) /\ Len(Text) = StrEnd(out_buf, 0)
    BY LineHolds
  <2> QED BY <1>1, <2>1, PrintingShown DEF LineInv
<1> QED BY <1>2, ShownIs

(* Everything the editor with arrow keys keeps has its type, and out_buf has a *)
(* terminating zero: strings in it end, whatever is read.                   *)
THEOREM EditorTypeOK == MCSpec => []TypeOK
<1>1. EInv => TypeOK
  BY LineType DEF EInv
<1> QED BY <1>1, EditorsInv, PTL

(* The terminal shows what the editor has in its buffer, with the cursor where *)
(* the editor has it: 5_35 as long as every arrow key came by itself and had *)
(* somewhere to go, 5_34 unless Tab was the first key.                      *)
THEOREM EditorsShowText == MCSpec => []TerminalsShowText
<1>1. EInv => TerminalsShowText
  BY LineShows, ShortShows DEF EInv, TerminalsShowText
<1> QED BY <1>1, EditorsInv, PTL

(* Every step of either editor does to its line one thing TextLine promises, or *)
(* leaves it alone; in 5_35 until an arrow key had nowhere to go or came with *)
(* other keys, in 5_34 but for an Enter that comes first.                   *)
THEOREM EditorsKeepPromises == MCSpec => KeysAsPromised
<1>1. EInv /\ [MCNext]_<<vars, shortEditor, short>> =>
        /\ [rough' \/ Ideal!Next \/ UNCHANGED Ideal!line]_vars
        /\ [(stale # <<>> /\ typed = <<>> /\ stored' = stale) \/ S!Ideal!Next \/ UNCHANGED S!Ideal!line]_(S!shortVars)
  BY EditorsStep DEF Edited, ShortEdited
<1> QED BY <1>1, EditorsInv, PTL DEF MCSpec, KeysAsPromised, EditsAsPromised, S!ShortEditsAsPromised
=============================================================================
