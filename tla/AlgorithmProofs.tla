--------------------------- MODULE AlgorithmProofs ---------------------------
(***************************************************************************)
(* Proofs about the pure algorithms, by induction over numbers.  Folding:  *)
(* laying versions over each other is associative, and the fold of a stack *)
(* splits at any height.  Retention: what the groomer concludes from a     *)
(* zone map holds of every key in it.                                      *)
(***************************************************************************)
EXTENDS Folding, Retention, NaturalsInduction, WellFoundedInduction, TLAPS

(***************************************************************************)
(* Numbers                                                                 *)
(***************************************************************************)

\* A non-empty set of numbers has a least element.
LEMMA LeastNumber ==
  ASSUME NEW S \in SUBSET Nat, S # {}
  PROVE  \E m \in S : \A x \in S : m <= x
<1>1. \E m \in S : \A x \in S : ~ (<<x, m>> \in OpToRel(<, Nat))
  BY NatLessThanWellFounded, WFMin, Zenon
<1>2. PICK m \in S : \A x \in S : ~ (<<x, m>> \in OpToRel(<, Nat))
  BY <1>1, Zenon
<1>3. ASSUME NEW x \in S
      PROVE  m <= x
  <2>1. ~ (x < m)
    BY <1>2, Zenon DEF OpToRel
  <2> QED
    BY <2>1
<1> QED
  BY <1>2, <1>3, Zenon

\* A non-empty set of numbers with an upper bound has a greatest element.
LEMMA GreatestNumber ==
  ASSUME NEW S \in SUBSET Nat, S # {}, NEW b \in Nat, \A x \in S : x <= b
  PROVE  \E m \in S : \A x \in S : x <= m
<1> DEFINE T == {n \in Nat : \A x \in S : x <= n}
<1>1. PICK m \in T : \A n \in T : m <= n
  <2>1. b \in T
    OBVIOUS
  <2> QED
    BY <2>1, LeastNumber, Zenon
<1>2. m \in S
  <2>1. SUFFICES ASSUME m \notin S
                 PROVE  FALSE
    OBVIOUS
  <2>2. PICK s \in S : TRUE
    BY Zenon
  <2>3. m - 1 \in T
    <3>1. m > 0
      BY <2>1, <2>2
    <3>2. \A x \in S : x <= m - 1
      BY <2>1
    <3> QED
      BY <3>1, <3>2
  <2> QED
    BY <2>3, <1>1
<1> QED
  BY <1>1, <1>2

\* Min and Max of such a set are what their names say.
LEMMA MinIsLeast ==
  ASSUME NEW S \in SUBSET Nat, S # {}
  PROVE  Min(S) \in S /\ \A x \in S : Min(S) <= x
BY LeastNumber, Zenon DEF Min

\* The number Max picks from a bounded non-empty set is its greatest.
LEMMA MaxIsGreatest ==
  ASSUME NEW S \in SUBSET Nat, S # {}, NEW b \in Nat, \A x \in S : x <= b
  PROVE  Max(S) \in S /\ \A x \in S : x <= Max(S)
<1>1. PICK m \in S : \A x \in S : x <= m
  BY GreatestNumber, Zenon
<1>2. \E x \in S : \A y \in S : x >= y
  BY <1>1
<1> QED
  BY <1>2, Zenon DEF Max

\* A set of numbers with 0 and the successor of each of its members has all.
LEMMA SetInduction ==
  ASSUME NEW S \in SUBSET Nat, 0 \in S, \A n \in S : n + 1 \in S
  PROVE  S = Nat
<1> DEFINE T == Nat \ S
<1> SUFFICES ASSUME T # {} PROVE FALSE
  BY Zenon
<1>1. PICK m \in T : \A x \in T : m <= x
  BY LeastNumber, Zenon
<1>2. m \in Nat /\ m # 0
  OBVIOUS
<1>3. m - 1 \in Nat /\ m - 1 \notin T
  BY <1>1, <1>2
<1>4. m - 1 \in S
  BY <1>3
<1>5. (m - 1) + 1 = m
  BY <1>2
<1>6. m \in S
  BY <1>4, <1>5
<1> QED
  BY <1>1, <1>6

(***************************************************************************)
(* The walk                                                                *)
(***************************************************************************)

\* h is the walk's equation up to position n.
WalkUpto(stack, k, h, n) ==
  \A i \in 0..n : h[i] = Over(At(stack, k, i), IF i = 0 THEN NoRec ELSE h[i - 1])

\* The walk's equation can be solved up to every position.
LEMMA WalkUptoExists ==
  ASSUME NEW stack, NEW k, NEW n \in Nat
  PROVE  \E h : WalkUpto(stack, k, h, n)
<1> DEFINE S == {m \in Nat : \E h : WalkUpto(stack, k, h, m)}
<1>1. 0 \in S
  <2> DEFINE h == [i \in {0} |-> Over(At(stack, k, 0), NoRec)]
  <2>1. WalkUpto(stack, k, h, 0)
    BY DEF WalkUpto
  <2> QED
    BY <2>1
<1>2. ASSUME NEW m \in S
      PROVE  m + 1 \in S
  <2>1. PICK g : WalkUpto(stack, k, g, m)
    OBVIOUS
  <2> DEFINE h == [i \in 0..(m + 1) |-> IF i = m + 1 THEN Over(At(stack, k, m + 1), g[m]) ELSE g[i]]
  <2>2. h[m + 1] = Over(At(stack, k, m + 1), h[m])
    OBVIOUS
  <2>3. ASSUME NEW i \in 0..m
        PROVE  h[i] = Over(At(stack, k, i), IF i = 0 THEN NoRec ELSE h[i - 1])
    <3>1. h[i] = g[i]
      OBVIOUS
    <3>2. i # 0 => h[i - 1] = g[i - 1]
      OBVIOUS
    <3> QED
      BY <2>1, <3>1, <3>2 DEF WalkUpto
  <2> HIDE DEF h
  <2>4. \A i \in 0..(m + 1) : i \in 0..m \/ i = m + 1
    OBVIOUS
  <2>5. WalkUpto(stack, k, h, m + 1)
    BY <2>2, <2>3, <2>4 DEF WalkUpto
  <2> QED
    BY <2>5
<1> HIDE DEF S
<1>3. S = Nat
  <2>1. S \in SUBSET Nat
    BY DEF S
  <2> QED
    BY <1>1, <1>2, <2>1, SetInduction, Zenon
<1> QED
  BY <1>3 DEF S

\* The solution is unique.
LEMMA WalkUptoUnique ==
  ASSUME NEW stack, NEW k, NEW n \in Nat, NEW m \in Nat, NEW g, NEW h,
         WalkUpto(stack, k, g, n), WalkUpto(stack, k, h, m), NEW i \in Nat, i <= n, i <= m
  PROVE  g[i] = h[i]
<1> DEFINE S == {j \in Nat : j <= n /\ j <= m => g[j] = h[j]}
<1>1. 0 \in S
  BY DEF WalkUpto
<1>2. ASSUME NEW j \in S
      PROVE  j + 1 \in S
  <2> SUFFICES ASSUME j + 1 <= n, j + 1 <= m
               PROVE  g[j + 1] = h[j + 1]
    OBVIOUS
  <2>1. g[j] = h[j]
    OBVIOUS
  <2>2. j + 1 \in 0..n /\ j + 1 \in 0..m /\ j + 1 # 0 /\ (j + 1) - 1 = j
    OBVIOUS
  <2>3. g[j + 1] = Over(At(stack, k, j + 1), g[j])
    BY <2>2 DEF WalkUpto
  <2>4. h[j + 1] = Over(At(stack, k, j + 1), h[j])
    BY <2>2 DEF WalkUpto
  <2> QED
    BY <2>1, <2>3, <2>4
<1> HIDE DEF S
<1>3. S = Nat
  <2>1. S \in SUBSET Nat
    BY DEF S
  <2> QED
    BY <1>1, <1>2, <2>1, SetInduction, Zenon
<1> QED
  BY <1>3 DEF S

\* The walk exists and satisfies its equation.
LEMMA WalkEquation ==
  ASSUME NEW stack, NEW k
  PROVE  /\ Walk(stack, k)[0] = Over(At(stack, k, 0), NoRec)
         /\ \A i \in Nat : Walk(stack, k)[i + 1] = Over(At(stack, k, i + 1), Walk(stack, k)[i])
<1> DEFINE P(n) == CHOOSE h : WalkUpto(stack, k, h, n)
           W == [n \in Nat |-> P(n)[n]]
           E(f) == [i \in Nat |-> Over(At(stack, k, i), IF i = 0 THEN NoRec ELSE f[i - 1])]
<1>1. ASSUME NEW n \in Nat
      PROVE  WalkUpto(stack, k, P(n), n)
  BY WalkUptoExists, Zenon
<1>2. ASSUME NEW n \in Nat
      PROVE  W[n] = Over(At(stack, k, n), IF n = 0 THEN NoRec ELSE W[n - 1])
  <2> HIDE DEF P
  <2>1. P(n)[n] = Over(At(stack, k, n), IF n = 0 THEN NoRec ELSE P(n)[n - 1])
    BY <1>1 DEF WalkUpto
  <2>2. n # 0 => P(n)[n - 1] = P(n - 1)[n - 1]
    <3> SUFFICES ASSUME n # 0 PROVE P(n)[n - 1] = P(n - 1)[n - 1]
      OBVIOUS
    <3> DEFINE m == n - 1
    <3>1. m \in Nat /\ m <= n /\ m <= m
      OBVIOUS
    <3> HIDE DEF m
    <3>2. WalkUpto(stack, k, P(n), n) /\ WalkUpto(stack, k, P(m), m)
      BY <3>1, <1>1
    <3>3. P(n)[m] = P(m)[m]
      BY <3>1, <3>2, WalkUptoUnique
    <3> QED
      BY <3>3 DEF m
  <2>3. n # 0 => n - 1 \in Nat
    OBVIOUS
  <2> QED
    BY <2>1, <2>2, <2>3
<1>3. W = E(W)
  <2>1. W = [n \in Nat |-> W[n]]
    OBVIOUS
  <2> HIDE DEF W
  <2> QED
    BY <1>2, <2>1, Zenon
<1> HIDE DEF W
<1> DEFINE V == CHOOSE f : f = E(f)
<1>4. V = E(V)
  BY <1>3, Zenon
<1>5. Walk(stack, k) = V
  BY Zenon DEF Walk, At
<1> HIDE DEF V
<1>6. V[0] = Over(At(stack, k, 0), NoRec)
  BY <1>4
<1>7. ASSUME NEW i \in Nat
      PROVE  V[i + 1] = Over(At(stack, k, i + 1), V[i])
  <2>1. i + 1 \in Nat /\ i + 1 # 0 /\ (i + 1) - 1 = i
    OBVIOUS
  <2> QED
    BY <1>4, <2>1
<1> QED
  BY <1>5, <1>6, <1>7

(***************************************************************************)
(* Laying versions over each other                                         *)
(***************************************************************************)

\* A version laid over a version is a version.
LEMMA OverVersion ==
  ASSUME NEW a \in Version, NEW b \in Version
  PROVE  Over(a, b) \in Version
BY NoRecAssumption DEF Version, Over, merge_delta, is_delta, is_tombstone, Record, Kinds

\* A record over or under a version is a record.
LEMMA OverRecord ==
  ASSUME NEW a \in Version, NEW b \in Version, a \in Record \/ b \in Record
  PROVE  Over(a, b) \in Record
BY NoRecAssumption DEF Version, Over, merge_delta, is_delta, is_tombstone, Record, Kinds

\* Nothing over a version, and a version over nothing.
LEMMA OverNothing ==
  ASSUME NEW a \in Version
  PROVE  Over(NoRec, a) = a /\ Over(a, NoRec) = a
BY NoRecAssumption DEF Version, Over, merge_delta

\* Laying versions over each other does not depend on the grouping: a get
\* that folds downwards, a replay that folds upwards and a compaction that
\* folds a part first agree.
LEMMA OverGroups ==
  ASSUME NEW a \in Version, NEW b \in Version, NEW c \in Version
  PROVE  Over(Over(a, b), c) = Over(a, Over(b, c))
<1>1. CASE a = NoRec \/ b = NoRec \/ c = NoRec
  BY <1>1, OverNothing, OverVersion
<1>2. CASE a \in Record /\ b \in Record /\ c \in Record
  <2>1. CASE ~is_delta(a)
    BY <1>2, <2>1, NoRecAssumption DEF Over
  <2>2. CASE is_delta(a) /\ ~is_delta(b)
    <3>1. Over(b, c) = b
      BY <1>2, <2>2, NoRecAssumption DEF Over
    <3>2. ~is_delta(Over(a, b)) /\ Over(a, b) # NoRec
      BY <1>2, <2>2, NoRecAssumption DEF Over, merge_delta, is_delta, is_tombstone, Record, Kinds
    <3> QED
      BY <3>1, <3>2 DEF Over
  <2>3. CASE is_delta(a) /\ is_delta(b)
    <3>1. Over(a, b) = [kind |-> "delta", n |-> b.n + a.n]
      BY <1>2, <2>3, NoRecAssumption DEF Over, merge_delta, is_delta, is_tombstone, Record
    <3>2. Over(a, b) \in Record
      BY <1>2, <3>1 DEF Record, Kinds
    <3>3. CASE is_tombstone(c)
      <4>1. Over(b, c) = [kind |-> "full", n |-> b.n]
        BY <1>2, <2>3, <3>3, NoRecAssumption DEF Over, merge_delta
      <4>2. Over(b, c) \in Record
        BY <1>2, <4>1 DEF Record, Kinds
      <4>3. Over(a, Over(b, c)) = [kind |-> "full", n |-> b.n + a.n]
        BY <1>2, <2>3, <4>1, <4>2, NoRecAssumption DEF Over, merge_delta, is_tombstone
      <4>4. Over(Over(a, b), c) = [kind |-> "full", n |-> b.n + a.n]
        BY <1>2, <3>1, <3>2, <3>3, NoRecAssumption DEF Over, merge_delta, is_delta
      <4> QED
        BY <4>3, <4>4
    <3>4. CASE ~is_tombstone(c)
      <4>1. Over(b, c) = [kind |-> c.kind, n |-> c.n + b.n]
        BY <1>2, <2>3, <3>4, NoRecAssumption DEF Over, merge_delta
      <4>2. Over(b, c) \in Record /\ ~is_tombstone(Over(b, c))
        BY <1>2, <3>4, <4>1 DEF Record, Kinds, is_tombstone
      <4>3. Over(a, Over(b, c)) = [kind |-> c.kind, n |-> (c.n + b.n) + a.n]
        BY <1>2, <2>3, <4>1, <4>2, NoRecAssumption DEF Over, merge_delta
      <4>4. Over(Over(a, b), c) = [kind |-> c.kind, n |-> c.n + (b.n + a.n)]
        BY <1>2, <3>1, <3>2, <3>4, NoRecAssumption DEF Over, merge_delta, is_delta
      <4>5. a.n \in Nat /\ b.n \in Nat /\ c.n \in Nat
        BY <1>2 DEF Record
      <4>6. (c.n + b.n) + a.n = c.n + (b.n + a.n)
        BY <4>5
      <4> QED
        BY <4>3, <4>4, <4>6
    <3> QED
      BY <3>3, <3>4
  <2> QED
    BY <2>1, <2>2, <2>3
<1> QED
  BY <1>1, <1>2 DEF Version

(***************************************************************************)
(* The fold                                                                *)
(***************************************************************************)

\* Every position of such a stack has a version or nothing.
LEMMA AtVersion ==
  ASSUME NEW stack, NEW k, NEW b, Within(stack, k, b)
  PROVE  \A i : At(stack, k, i) \in Version
BY DEF Within, At, Version

\* The walk yields versions.
LEMMA WalkVersion ==
  ASSUME NEW stack, NEW k, NEW b, Within(stack, k, b)
  PROVE  \A i \in Nat : Walk(stack, k)[i] \in Version
<1> DEFINE W == Walk(stack, k)
           S == {i \in Nat : W[i] \in Version}
<1> HIDE DEF W
<1>1. 0 \in S
  BY WalkEquation, AtVersion, OverVersion DEF W, Version
<1>2. ASSUME NEW i \in S
      PROVE  i + 1 \in S
  <2>1. W[i + 1] = Over(At(stack, k, i + 1), W[i])
    BY WalkEquation DEF W
  <2> QED
    BY <2>1, AtVersion, OverVersion
<1> HIDE DEF S
<1>3. S = Nat
  <2>1. S \in SUBSET Nat
    BY DEF S
  <2> QED
    BY <1>1, <1>2, <2>1, SetInduction, ZenonT(30)
<1> QED
  BY <1>3 DEF S, W

\* Positions without k leave the walk where it is.
LEMMA WalkFlat ==
  ASSUME NEW stack, NEW k, NEW b, Within(stack, k, b), NEW c \in Nat, NEW d \in Nat, c <= d,
         \A i \in Nat : c < i /\ i <= d => At(stack, k, i) = NoRec
  PROVE  Walk(stack, k)[d] = Walk(stack, k)[c]
<1> DEFINE W == Walk(stack, k)
           S == {i \in Nat : c <= i /\ i <= d => W[i] = W[c]}
<1> HIDE DEF W
<1>1. 0 \in S
  OBVIOUS
<1>2. ASSUME NEW i \in S
      PROVE  i + 1 \in S
  <2> SUFFICES ASSUME c <= i + 1, i + 1 <= d
               PROVE  W[i + 1] = W[c]
    OBVIOUS
  <2>1. CASE c = i + 1
    BY <2>1
  <2>2. CASE c # i + 1
    <3>1. c <= i /\ i <= d /\ c < i + 1
      BY <2>2
    <3>2. W[i] = W[c]
      BY <3>1
    <3>3. W[i + 1] = Over(At(stack, k, i + 1), W[i])
      BY WalkEquation DEF W
    <3>4. W[i] \in Version
      BY WalkVersion DEF W
    <3>5. At(stack, k, i + 1) = NoRec
      BY <3>1
    <3> QED
      BY <3>2, <3>3, <3>4, <3>5, OverNothing
  <2> QED
    BY <2>1, <2>2
<1> HIDE DEF S
<1>3. S = Nat
  <2>1. S \in SUBSET Nat
    BY DEF S
  <2> QED
    BY <1>1, <1>2, <2>1, SetInduction, Zenon
<1> QED
  BY <1>3 DEF S, W

\* A walk that meets no record finds nothing.
LEMMA WalkNone ==
  ASSUME NEW stack, NEW k, NEW b, Within(stack, k, b), NEW d \in Nat,
         \A i \in Nat : i <= d => At(stack, k, i) = NoRec
  PROVE  Walk(stack, k)[d] = NoRec
<1>1. Walk(stack, k)[0] = NoRec
  <2>1. At(stack, k, 0) = NoRec /\ NoRec \in Version
    BY DEF Version
  <2> QED
    BY <2>1, WalkEquation, OverNothing
<1>2. Walk(stack, k)[d] = Walk(stack, k)[0]
  <2>1. \A i \in Nat : 0 < i /\ i <= d => At(stack, k, i) = NoRec
    OBVIOUS
  <2> QED
    BY <2>1, WalkFlat
<1> QED
  BY <1>1, <1>2

\* The fold is the walk from the top of the stack, or from anywhere above.
LEMMA FoldIsWalk ==
  ASSUME NEW stack, NEW k, NEW b, Within(stack, k, b)
  PROVE  Fold(stack, k) = Walk(stack, k)[b]
<1> DEFINE H == Holders(stack, k)
<1>1. H \in SUBSET Nat /\ b \in Nat /\ \A i \in H : i <= b
  BY DEF Within, Holders
<1>2. \A i : i \notin H => At(stack, k, i) = NoRec
  BY DEF At, Get, Holders
<1> HIDE DEF H
<1>3. CASE H = {}
  <2>1. Walk(stack, k)[b] = NoRec
    BY <1>1, <1>2, <1>3, WalkNone
  <2> QED
    BY <1>3, <2>1 DEF Fold, H
<1>4. CASE H # {}
  <2> DEFINE m == Max(H)
  <2>1. m \in H /\ \A i \in H : i <= m
    BY <1>1, <1>4, MaxIsGreatest, ZenonT(30)
  <2> HIDE DEF m
  <2>2. m \in Nat /\ m <= b
    BY <1>1, <2>1
  <2>3. \A i \in Nat : m < i /\ i <= b => At(stack, k, i) = NoRec
    BY <1>2, <2>1, <2>2
  <2>4. Walk(stack, k)[b] = Walk(stack, k)[m]
    BY <1>1, <2>2, <2>3, WalkFlat
  <2> QED
    BY <1>4, <2>4 DEF Fold, H, m
<1> QED
  BY <1>3, <1>4

\* Hence the fold is a version, or nothing.
LEMMA FoldVersion ==
  ASSUME NEW stack, NEW k, NEW b, Within(stack, k, b)
  PROVE  Fold(stack, k) \in Version
BY FoldIsWalk, WalkVersion DEF Within

\* The walk from a position that has k yields a record.
LEMMA WalkRecord ==
  ASSUME NEW stack, NEW k, NEW b, Within(stack, k, b), NEW m \in Nat, At(stack, k, m) \in Record
  PROVE  Walk(stack, k)[m] \in Record
<1>1. At(stack, k, m) \in Version /\ NoRec \in Version
  BY DEF Version
<1>2. CASE m = 0
  BY <1>1, <1>2, WalkEquation, OverRecord
<1>3. CASE m # 0
  <2> DEFINE p == m - 1
  <2>1. p \in Nat /\ p + 1 = m
    BY <1>3
  <2> HIDE DEF p
  <2>2. Walk(stack, k)[p + 1] = Over(At(stack, k, p + 1), Walk(stack, k)[p])
    BY <2>1, WalkEquation
  <2>3. Walk(stack, k)[p] \in Version
    BY <2>1, WalkVersion
  <2> QED
    BY <1>1, <2>1, <2>2, <2>3, OverRecord
<1> QED
  BY <1>2, <1>3

\* The fold splits at any height c: what the upper part holds lies over what
\* the lower part holds.
LEMMA FoldSplit ==
  ASSUME NEW stack, NEW upper, NEW lower, NEW k, NEW b, NEW c \in Nat,
         Within(stack, k, b), Within(upper, k, b), Within(lower, k, b),
         SplitAt(stack, upper, lower, k, c)
  PROVE  Fold(stack, k) = Over(Fold(upper, k), Fold(lower, k))
<1> USE DEF SplitAt
<1> DEFINE W == Walk(stack, k)
           U == Walk(upper, k)
           L == Walk(lower, k)
           S == {i \in Nat : W[i] = Over(U[i], L[i]) /\ (i < c => U[i] = NoRec)}
<1> HIDE DEF W, U, L
<1>1. \A i \in Nat : W[i] \in Version /\ U[i] \in Version /\ L[i] \in Version
  BY WalkVersion DEF W, U, L
<1>2. \A i \in Nat : At(stack, k, i) \in Version
  BY AtVersion
<1>3. 0 \in S
  <2>1. /\ W[0] = Over(At(stack, k, 0), NoRec)
        /\ U[0] = Over(At(upper, k, 0), NoRec)
        /\ L[0] = Over(At(lower, k, 0), NoRec)
    BY WalkEquation DEF W, U, L
  <2>2. NoRec \in Version
    BY DEF Version
  <2>3. CASE 0 < c
    <3>1. At(stack, k, 0) = At(lower, k, 0) /\ At(upper, k, 0) = NoRec
      BY <2>3
    <3>2. U[0] = NoRec /\ W[0] = L[0]
      BY <2>1, <2>2, <3>1, OverNothing
    <3> QED
      BY <1>1, <3>2, OverNothing
  <2>4. CASE ~(0 < c)
    <3>1. At(stack, k, 0) = At(upper, k, 0) /\ At(lower, k, 0) = NoRec
      BY <2>4
    <3>2. L[0] = NoRec /\ W[0] = U[0]
      BY <2>1, <2>2, <3>1, OverNothing
    <3> QED
      BY <1>1, <2>4, <3>2, OverNothing
  <2> QED
    BY <2>3, <2>4
<1>4. ASSUME NEW i \in S
      PROVE  i + 1 \in S
  <2>1. /\ W[i + 1] = Over(At(stack, k, i + 1), W[i])
        /\ U[i + 1] = Over(At(upper, k, i + 1), U[i])
        /\ L[i + 1] = Over(At(lower, k, i + 1), L[i])
    BY WalkEquation DEF W, U, L
  <2>2. NoRec \in Version
    BY DEF Version
  <2>3. W[i] = Over(U[i], L[i]) /\ (i < c => U[i] = NoRec)
    OBVIOUS
  <2>4. CASE i + 1 < c
    <3>1. At(stack, k, i + 1) = At(lower, k, i + 1) /\ At(upper, k, i + 1) = NoRec
      BY <2>4
    <3>2. U[i] = NoRec
      BY <2>3, <2>4
    <3>3. U[i + 1] = NoRec
      BY <2>1, <2>2, <3>1, <3>2, OverNothing
    <3>4. W[i] = L[i]
      BY <1>1, <2>3, <3>2, OverNothing
    <3>5. W[i + 1] = L[i + 1]
      BY <2>1, <3>1, <3>4
    <3>6. Over(NoRec, L[i + 1]) = L[i + 1]
      BY <1>1, OverNothing
    <3> QED
      BY <3>3, <3>5, <3>6
  <2>5. CASE ~(i + 1 < c)
    <3>1. At(stack, k, i + 1) = At(upper, k, i + 1) /\ At(lower, k, i + 1) = NoRec
      BY <2>5
    <3>2. L[i + 1] = L[i]
      BY <1>1, <2>1, <3>1, OverNothing
    <3>3. W[i + 1] = Over(At(upper, k, i + 1), Over(U[i], L[i]))
      BY <2>1, <2>3, <3>1
    <3>4. At(upper, k, i + 1) \in Version /\ U[i] \in Version /\ L[i] \in Version
      BY <1>1, <1>2, <3>1, SMTT(30)
    <3>5. W[i + 1] = Over(U[i + 1], L[i])
      BY <2>1, <3>3, <3>4, OverGroups
    <3> QED
      BY <2>5, <3>2, <3>5
  <2> QED
    BY <2>4, <2>5
<1> HIDE DEF S
<1>5. S = Nat
  <2>1. S \in SUBSET Nat
    BY DEF S
  <2> QED
    BY <1>3, <1>4, <2>1, SetInduction, Zenon
<1>6. b \in Nat
  BY DEF Within
<1>7. Fold(stack, k) = W[b] /\ Fold(upper, k) = U[b] /\ Fold(lower, k) = L[b]
  BY FoldIsWalk DEF W, U, L
<1> QED
  BY <1>5, <1>6, <1>7 DEF S

\* Stacks that have the same version of k at every position fold alike.
LEMMA FoldLike ==
  ASSUME NEW s, NEW t, NEW k, NEW b, Within(s, k, b), Within(t, k, b),
         \A i \in Nat : At(s, k, i) = At(t, k, i)
  PROVE  Fold(s, k) = Fold(t, k)
<1> DEFINE none == EmptyTable
<1>1. Within(none, k, b) /\ \A i \in Nat : At(none, k, i) = NoRec
  BY DEF Within, At, EmptyTable
<1>2. Fold(none, k) = NoRec
  BY DEF Fold, Holders, EmptyTable
<1> HIDE DEF none
<1>3. \A i \in Nat : IF i < 0 THEN At(s, k, i) = At(none, k, i) /\ At(t, k, i) = NoRec
                     ELSE At(s, k, i) = At(t, k, i) /\ At(none, k, i) = NoRec
  BY <1>1
<1>4. Fold(s, k) = Over(Fold(t, k), Fold(none, k))
  BY <1>1, <1>3, FoldSplit DEF SplitAt
<1>5. Fold(t, k) \in Version
  BY FoldVersion
<1> QED
  BY <1>2, <1>4, <1>5, OverNothing

\* A stack in which one position has k folds to what is there.
LEMMA FoldOne ==
  ASSUME NEW stack, NEW k, NEW b, Within(stack, k, b), NEW m \in Nat,
         \A i \in Nat : i # m => At(stack, k, i) = NoRec
  PROVE  Fold(stack, k) = At(stack, k, m)
<1> DEFINE W == Walk(stack, k)
<1> HIDE DEF W
<1>1. At(stack, k, m) \in Version /\ NoRec \in Version
  BY AtVersion DEF Version
<1>2. W[m] = At(stack, k, m)
  <2>1. CASE m = 0
    BY <1>1, <2>1, WalkEquation, OverNothing DEF W
  <2>2. CASE m # 0
    <3> DEFINE p == m - 1
    <3>1. p \in Nat /\ p + 1 = m /\ \A i \in Nat : i <= p => i # m
      BY <2>2
    <3> HIDE DEF p
    <3>2. W[p] = NoRec
      BY <3>1, WalkNone DEF W
    <3>3. W[p + 1] = Over(At(stack, k, p + 1), W[p])
      BY <3>1, WalkEquation DEF W
    <3> QED
      BY <1>1, <3>1, <3>2, <3>3, OverNothing
  <2> QED
    BY <2>1, <2>2
<1>3. b \in Nat /\ Fold(stack, k) = W[b]
  BY FoldIsWalk DEF Within, W
<1>4. CASE m <= b
  <2>1. \A i \in Nat : m < i /\ i <= b => At(stack, k, i) = NoRec
    OBVIOUS
  <2>2. W[b] = W[m]
    BY <1>3, <1>4, <2>1, WalkFlat DEF W
  <2> QED
    BY <1>2, <1>3, <2>2
<1>5. CASE ~(m <= b)
  <2>1. At(stack, k, m) = NoRec
    BY <1>5, <1>3 DEF At, Within
  <2>2. \A i \in Nat : i <= b => At(stack, k, i) = NoRec
    BY <2>1
  <2> QED
    BY <1>3, <2>1, <2>2, WalkNone DEF W
<1> QED
  BY <1>4, <1>5

\* The fold of a key whose newest record is not a delta is that record.
LEMMA FoldTop ==
  ASSUME NEW stack, NEW k, DOMAIN stack \subseteq Nat, NEW i, Top(stack, k, i),
         stack[i][k] \in Record, ~is_delta(stack[i][k])
  PROVE  Fold(stack, k) = stack[i][k]
<1> DEFINE H == Holders(stack, k)
           W == Walk(stack, k)
<1>1. i \in H /\ H \subseteq Nat /\ \A j \in H : j <= i
  BY DEF Top, Holders
<1>2. Max(H) = i
  <2>1. \A x \in H : (\A y \in H : x >= y) => x = i
    BY <1>1
  <2>2. \A y \in H : i >= y
    BY <1>1
  <2> QED
    BY <1>1, <2>1, <2>2 DEF Max
<1>3. At(stack, k, i) = stack[i][k]
  BY <1>1 DEF At, Get, Holders
<1>4. \A x : Over(stack[i][k], x) = stack[i][k]
  BY NoRecAssumption DEF Over
<1> HIDE DEF W
<1>5. W[i] = stack[i][k]
  <2>1. CASE i = 0
    BY <1>3, <1>4, <2>1, WalkEquation DEF W
  <2>2. CASE i # 0
    <3> DEFINE p == i - 1
    <3>1. p \in Nat /\ p + 1 = i
      BY <1>1, <2>2
    <3> HIDE DEF p
    <3>2. W[p + 1] = Over(At(stack, k, p + 1), W[p])
      BY <3>1, WalkEquation DEF W
    <3> QED
      BY <1>3, <1>4, <3>1, <3>2
  <2> QED
    BY <2>1, <2>2
<1> QED
  BY <1>1, <1>2, <1>5 DEF Fold, W

\* The laws of merge_delta and the newest-to-oldest walk that the proofs about
\* the engine rest on, for stacks of any height: records can be merged in any
\* grouping, so that a compaction, a replay and a read agree.
THEOREM LawsHold == FoldLaws
<1>1. MinLaw /\ MaxLaw
  BY MinIsLeast, MaxIsGreatest, Zenon DEF MinLaw, MaxLaw
<1>2. GroupLaw
  BY OverGroups, Zenon DEF GroupLaw
<1>3. RecordLaw
  BY WalkRecord, Zenon DEF RecordLaw
<1>4. SplitLaw
  BY FoldSplit DEF SplitLaw
<1>5. LikeLaw
  BY FoldLike DEF LikeLaw
<1>6. OneLaw
  BY FoldOne DEF OneLaw
<1>7. TopLaw
  BY FoldTop DEF TopLaw
<1> QED
  BY <1>1, <1>2, <1>3, <1>4, <1>5, <1>6, <1>7, Zenon DEF FoldLaws

(***************************************************************************)
(* Retention                                                               *)
(***************************************************************************)

\* What IsPrefix says, position by position.
LEMMA PrefixAt ==
  ASSUME NEW p \in Seq(Nat), NEW s \in Seq(Nat)
  PROVE  IsPrefix(p, s) <=> Len(p) <= Len(s) /\ \A i \in 1..Len(p) : p[i] = s[i]
<1>1. ASSUME Len(p) <= Len(s)
      PROVE  /\ SubSeq(p, 1, Len(p)) = [i \in 1..Len(p) |-> p[i]]
             /\ SubSeq(s, 1, Len(p)) = [i \in 1..Len(p) |-> s[i]]
  BY <1>1
<1> QED
  BY <1>1 DEF IsPrefix

\* What Leq says, position by position.
LEMMA LeqAt ==
  ASSUME NEW s \in Seq(Nat), NEW t \in Seq(Nat)
  PROVE  Leq(s, t) <=>
           \/ Len(s) <= Len(t) /\ \A i \in 1..Len(s) : s[i] = t[i]
           \/ \E i \in 1..Len(s) : i <= Len(t) /\ s[i] < t[i] /\ \A j \in 1..(i - 1) : s[j] = t[j]
<1>1. DOMAIN s = 1..Len(s) /\ DOMAIN t = 1..Len(t) /\ Len(s) \in Nat /\ Len(t) \in Nat
  OBVIOUS
<1>2. IsPrefix(s, t) <=> Len(s) <= Len(t) /\ \A i \in 1..Len(s) : s[i] = t[i]
  BY PrefixAt, Zenon
<1>3. \A i : i \in DOMAIN s \cap DOMAIN t <=> i \in 1..Len(s) /\ i <= Len(t)
  BY <1>1
<1> QED
  BY <1>2, <1>3, Zenon DEF Leq

\* A key interval whose ends share a prefix has only keys that share it.
LEMMA SharedPrefix ==
  ASSUME NEW p \in Seq(Nat), NEW min \in Seq(Nat), NEW max \in Seq(Nat), NEW key \in Seq(Nat),
         IsPrefix(p, min), IsPrefix(p, max), Leq(min, key), Leq(key, max)
  PROVE  IsPrefix(p, key)
<1>1. /\ Len(p) <= Len(min) /\ \A i \in 1..Len(p) : p[i] = min[i]
      /\ Len(p) <= Len(max) /\ \A i \in 1..Len(p) : p[i] = max[i]
  BY PrefixAt, Zenon
<1>2. \/ Len(min) <= Len(key) /\ \A i \in 1..Len(min) : min[i] = key[i]
      \/ \E i \in 1..Len(min) : i <= Len(key) /\ min[i] < key[i] /\ \A j \in 1..(i - 1) : min[j] = key[j]
  BY LeqAt, Zenon
<1>3. \/ Len(key) <= Len(max) /\ \A i \in 1..Len(key) : key[i] = max[i]
      \/ \E i \in 1..Len(key) : i <= Len(max) /\ key[i] < max[i] /\ \A j \in 1..(i - 1) : key[j] = max[j]
  BY LeqAt, Zenon
<1> DEFINE D == {i \in 1..Len(p) : i > Len(key) \/ key[i] # p[i]}
<1>4. SUFFICES ASSUME D # {} PROVE FALSE
  <2>1. D = {} => Len(p) <= Len(key)
    <3>1. Len(p) \in Nat /\ Len(key) \in Nat
      OBVIOUS
    <3>2. ~(Len(p) <= Len(key)) => Len(p) \in 1..Len(p) /\ Len(p) > Len(key)
      BY <3>1
    <3> QED
      BY <3>2, Zenon
  <2>2. D = {} => \A i \in 1..Len(p) : p[i] = key[i]
    BY Zenon
  <2> QED
    BY <2>1, <2>2, PrefixAt, ZenonT(30)
<1>5. PICK d \in D : \A i \in D : d <= i
  <2>1. D \in SUBSET Nat
    OBVIOUS
  <2> QED
    BY <1>4, <2>1, LeastNumber, Zenon
<1>6. /\ d \in Nat /\ 1 <= d /\ d <= Len(p) /\ (d > Len(key) \/ key[d] # p[d])
      /\ Len(p) \in Nat /\ Len(key) \in Nat /\ Len(min) \in Nat /\ Len(max) \in Nat
  OBVIOUS
<1>7. \A j \in Nat : 1 <= j /\ j < d => j <= Len(key) /\ key[j] = p[j]
  <2> SUFFICES ASSUME NEW j \in Nat, 1 <= j, j < d
               PROVE  j <= Len(key) /\ key[j] = p[j]
    BY Zenon
  <2>1. j \in 1..Len(p) /\ ~(d <= j)
    BY <1>6, SMTT(30)
  <2>2. j \notin D
    BY <1>5, <2>1, Zenon
  <2>3. ~(j > Len(key)) /\ key[j] = p[j]
    BY <2>1, <2>2, Zenon
  <2> QED
    BY <1>6, <2>3, SMTT(30)
<1> HIDE DEF D
<1>8. d <= Len(key) /\ p[d] < key[d]
  <2>1. CASE Len(min) <= Len(key) /\ \A i \in 1..Len(min) : min[i] = key[i]
    <3>1. d \in 1..Len(p) /\ d \in 1..Len(min) /\ d <= Len(key)
      <4>1. /\ Len(p) <= Len(min) /\ Len(min) <= Len(key) /\ d \in Nat /\ 1 <= d /\ d <= Len(p)
            /\ Len(p) \in Nat /\ Len(min) \in Nat /\ Len(key) \in Nat
        BY <1>1, <1>6, <2>1, Zenon
      <4> QED
        BY <4>1, SMTT(30)
    <3>2. p[d] = min[d] /\ min[d] = key[d]
      BY <1>1, <2>1, <3>1, Zenon
    <3> QED
      BY <1>6, <3>1, <3>2, SMTT(30)
  <2>2. CASE \E i \in 1..Len(min) : i <= Len(key) /\ min[i] < key[i] /\ \A j \in 1..(i - 1) : min[j] = key[j]
    <3>1. PICK i \in 1..Len(min) : i <= Len(key) /\ min[i] < key[i] /\ \A j \in 1..(i - 1) : min[j] = key[j]
      BY <2>2, Zenon
    <3>2. /\ i \in Nat /\ 1 <= i /\ i <= Len(min)
          /\ i \in 1..Len(min) /\ i \in 1..Len(key) /\ min[i] \in Nat /\ key[i] \in Nat
      <4>1. i \in Nat /\ 1 <= i /\ i \in 1..Len(min) /\ i \in 1..Len(key)
        BY <1>6, <3>1
      <4> QED
        BY <4>1
    <3>3. ~(i < d)
      <4>1. i < d => i \in 1..Len(p) /\ key[i] = p[i]
        BY <1>6, <1>7, <3>2
      <4>2. i < d => key[i] = min[i]
        BY <1>1, <4>1, Zenon
      <4> QED
        BY <3>1, <3>2, <4>2
    <3>4. ~(d < i)
      <4>1. d < i => min[d] = key[d] /\ min[d] = p[d] /\ d <= Len(key)
        BY <1>1, <1>6, <3>1, <3>2
      <4> QED
        BY <1>6, <4>1
    <3>5. i = d
      BY <1>6, <3>2, <3>3, <3>4
    <3> QED
      BY <1>1, <1>6, <3>1, <3>5
  <2> QED
    BY <1>2, <2>1, <2>2, Zenon
<1>9. key[d] < p[d]
  <2>1. CASE Len(key) <= Len(max) /\ \A i \in 1..Len(key) : key[i] = max[i]
    BY <1>1, <1>6, <1>8, <2>1
  <2>2. CASE \E i \in 1..Len(key) : i <= Len(max) /\ key[i] < max[i] /\ \A j \in 1..(i - 1) : key[j] = max[j]
    <3>1. PICK i \in 1..Len(key) : i <= Len(max) /\ key[i] < max[i] /\ \A j \in 1..(i - 1) : key[j] = max[j]
      BY <2>2, Zenon
    <3>2. /\ i \in Nat /\ 1 <= i /\ i <= Len(key)
          /\ i \in 1..Len(max) /\ i \in 1..Len(key) /\ max[i] \in Nat /\ key[i] \in Nat
      <4>1. i \in Nat /\ 1 <= i /\ i \in 1..Len(max) /\ i \in 1..Len(key)
        BY <1>6, <3>1
      <4> QED
        BY <4>1
    <3>3. ~(i < d)
      <4>1. i < d => i \in 1..Len(p) /\ key[i] = p[i]
        BY <1>6, <1>7, <3>2, SMTT(30)
      <4>2. i < d => key[i] = max[i]
        BY <1>1, <4>1, Zenon
      <4> QED
        BY <3>1, <3>2, <4>2
    <3>4. ~(d < i)
      <4>1. d < i => key[d] = max[d] /\ max[d] = p[d]
        BY <1>1, <1>6, <3>1, <3>2
      <4> QED
        BY <1>6, <1>8, <4>1
    <3>5. i = d
      BY <1>6, <3>2, <3>3, <3>4
    <3> QED
      BY <1>1, <1>6, <3>1, <3>5
  <2> QED
    BY <1>3, <2>1, <2>2, ZenonT(30)
<1> QED
  <2>1. p[d] \in Nat /\ key[d] \in Nat
    BY <1>6, <1>8, SMTT(30)
  <2> QED
    BY <1>8, <1>9, <2>1

\* A row that governs a key of the range has a prefix that meets the range.
LEMMA GoverningMeets ==
  ASSUME NEW p \in Seq(Nat), NEW min \in Seq(Nat), NEW max \in Seq(Nat), NEW key \in Seq(Nat),
         IsPrefix(p, key), Leq(min, key), Leq(key, max)
  PROVE  prefix_intersects_range(p, min, max)
<1>1. Len(p) <= Len(key) /\ \A i \in 1..Len(p) : p[i] = key[i]
  BY PrefixAt, Zenon
<1>2. \/ Len(min) <= Len(key) /\ \A i \in 1..Len(min) : min[i] = key[i]
      \/ \E i \in 1..Len(min) : i <= Len(key) /\ min[i] < key[i] /\ \A j \in 1..(i - 1) : min[j] = key[j]
  BY LeqAt, Zenon
<1>3. \/ Len(key) <= Len(max) /\ \A i \in 1..Len(key) : key[i] = max[i]
      \/ \E i \in 1..Len(key) : i <= Len(max) /\ key[i] < max[i] /\ \A j \in 1..(i - 1) : key[j] = max[j]
  BY LeqAt, Zenon
<1>4. Len(p) \in Nat /\ Len(key) \in Nat /\ Len(min) \in Nat /\ Len(max) \in Nat
  OBVIOUS
<1>5. Leq(p, max)
  <2>1. CASE Len(key) <= Len(max) /\ \A i \in 1..Len(key) : key[i] = max[i]
    <3>1. Len(p) <= Len(max) /\ \A i \in 1..Len(p) : p[i] = max[i]
      BY <1>1, <1>4, <2>1, SMTT(30)
    <3> QED
      BY <3>1, LeqAt, Zenon
  <2>2. CASE \E i \in 1..Len(key) : i <= Len(max) /\ key[i] < max[i] /\ \A j \in 1..(i - 1) : key[j] = max[j]
    <3>1. PICK i \in 1..Len(key) : i <= Len(max) /\ key[i] < max[i] /\ \A j \in 1..(i - 1) : key[j] = max[j]
      BY <2>2, ZenonT(30)
    <3>2. CASE i <= Len(p)
      <4>1. i \in 1..Len(p) /\ i <= Len(max) /\ p[i] < max[i] /\ \A j \in 1..(i - 1) : p[j] = max[j]
        BY <1>1, <1>4, <3>1, <3>2, SMTT(30)
      <4> QED
        BY <4>1, LeqAt, Zenon
    <3>3. CASE ~(i <= Len(p))
      <4>1. Len(p) <= Len(max) /\ \A j \in 1..Len(p) : p[j] = max[j]
        BY <1>1, <1>4, <3>1, <3>3
      <4> QED
        BY <4>1, LeqAt, Zenon
    <3> QED
      BY <3>2, <3>3, Zenon
  <2> QED
    BY <1>3, <2>1, <2>2, Zenon
<1>6. IsPrefix(p, min) \/ Leq(min, p)
  <2>1. CASE Len(min) <= Len(key) /\ \A i \in 1..Len(min) : min[i] = key[i]
    <3>1. CASE Len(p) <= Len(min)
      <4>1. \A i \in 1..Len(p) : p[i] = min[i]
        BY <1>1, <1>4, <2>1, <3>1
      <4> QED
        BY <3>1, <4>1, PrefixAt, ZenonT(30)
    <3>2. CASE ~(Len(p) <= Len(min))
      <4>1. Len(min) <= Len(p) /\ \A i \in 1..Len(min) : min[i] = p[i]
        BY <1>1, <1>4, <2>1, <3>2
      <4> QED
        BY <4>1, LeqAt, ZenonT(30)
    <3> QED
      BY <3>1, <3>2, ZenonT(30)
  <2>2. CASE \E i \in 1..Len(min) : i <= Len(key) /\ min[i] < key[i] /\ \A j \in 1..(i - 1) : min[j] = key[j]
    <3>1. PICK i \in 1..Len(min) : i <= Len(key) /\ min[i] < key[i] /\ \A j \in 1..(i - 1) : min[j] = key[j]
      BY <2>2, Zenon
    <3>2. CASE i <= Len(p)
      <4>1. i <= Len(p) /\ min[i] < p[i] /\ \A j \in 1..(i - 1) : min[j] = p[j]
        BY <1>1, <1>4, <3>1, <3>2, SMTT(30)
      <4> QED
        BY <3>1, <4>1, LeqAt, ZenonT(30)
    <3>3. CASE ~(i <= Len(p))
      <4>1. Len(p) <= Len(min) /\ \A j \in 1..Len(p) : p[j] = min[j]
        BY <1>1, <1>4, <3>1, <3>3, SMTT(30)
      <4> QED
        BY <4>1, PrefixAt, Zenon
    <3> QED
      BY <3>2, <3>3, ZenonT(30)
  <2> QED
    BY <1>2, <2>1, <2>2, ZenonT(30)
<1> QED
  BY <1>5, <1>6, ZenonT(30) DEF prefix_intersects_range, starts_with

\* What compile makes of the rows of a configuration: rows with distinct
\* prefixes and TTLs that have a bound.
IsPolicy(policy) ==
  /\ \A row \in policy : row.prefix \in Seq(Nat) /\ row.ttl \in Nat
  /\ \A r, s \in policy : r.prefix = s.prefix => r = s
  /\ \E b \in Nat : \A row \in policy : row.ttl <= b

\* Of the rows that match a key one has the longest prefix.
LEMMA LongestMatch ==
  ASSUME NEW policy, IsPolicy(policy), NEW key \in Seq(Nat), NEW r0 \in Matching(policy, key)
  PROVE  \E r \in Matching(policy, key) : ttl_for_key(policy, key) = {r.ttl}
<1> DEFINE M == Matching(policy, key)
           S == {Len(r.prefix) : r \in M}
<1>1. \A r \in M : /\ r \in policy /\ r.prefix \in Seq(Nat) /\ Len(r.prefix) \in Nat
                   /\ IsPrefix(r.prefix, key)
  <2>1. \A r \in M : r \in policy /\ r.prefix \in Seq(Nat) /\ IsPrefix(r.prefix, key)
    BY Zenon DEF Matching, IsPolicy, starts_with
  <2> QED
    BY <2>1
<1>2. \A r \in M : /\ Len(r.prefix) <= Len(key)
                   /\ \A i \in 1..Len(r.prefix) : r.prefix[i] = key[i]
  BY <1>1, PrefixAt, Zenon
<1>3. PICK n \in S : \A x \in S : x <= n
  <2>1. S \in SUBSET Nat /\ S # {} /\ \A x \in S : x <= Len(key)
    BY <1>1, <1>2, Zenon
  <2>2. Len(key) \in Nat
    OBVIOUS
  <2> QED
    BY <2>1, <2>2, GreatestNumber, Zenon
<1>4. PICK r \in M : \A s \in M : Len(s.prefix) <= Len(r.prefix)
  BY <1>3, Zenon
<1>5. ASSUME NEW s \in M, \A q \in M : Len(q.prefix) <= Len(s.prefix)
      PROVE  s = r
  <2>1. Len(s.prefix) = Len(r.prefix)
    BY <1>1, <1>4, <1>5
  <2>2. \A i \in 1..Len(r.prefix) : s.prefix[i] = r.prefix[i]
    BY <1>2, <1>4, <1>5, <2>1, ZenonT(30)
  <2>3. s.prefix = r.prefix
    <3> DEFINE a == s.prefix
               b == r.prefix
    <3>1. a \in Seq(Nat) /\ b \in Seq(Nat) /\ Len(a) = Len(b) /\ \A i \in 1..Len(b) : a[i] = b[i]
      BY <1>1, <2>1, <2>2, Zenon
    <3> HIDE DEF a, b
    <3>2. a = b
      <4> DEFINE D == 1..Len(b)
      <4>1. a \in [D -> Nat] /\ b \in [D -> Nat]
        BY <3>1
      <4>2. \A i \in D : a[i] = b[i]
        BY <3>1, Zenon
      <4> HIDE DEF D
      <4> QED
        BY <4>1, <4>2
    <3> QED
      BY <3>2 DEF a, b
  <2> QED
    BY <1>1, <1>4, <2>3, Zenon DEF IsPolicy
<1>6. {q \in M : \A s \in M : Len(s.prefix) <= Len(q.prefix)} = {r}
  BY <1>4, <1>5, Zenon
<1> QED
  BY <1>4, <1>6 DEF ttl_for_key

\* What grooming concludes from a zone map holds for every policy.
LEMMA PolicyZones ==
  ASSUME NEW policy, IsPolicy(policy),
         NEW min \in Seq(Nat), NEW max \in Seq(Nat), NEW key \in Seq(Nat)
  PROVE  ZoneBound(policy, min, max, key)
<1> SUFFICES ASSUME covers_range(policy, min, max), Leq(min, key), Leq(key, max)
             PROVE  \E ttl \in ttl_for_key(policy, key), bound \in max_ttl_in_range(policy, min, max) :
                      /\ ttl_for_key(policy, key) = {ttl}
                      /\ max_ttl_in_range(policy, min, max) = {bound}
                      /\ ttl <= bound
  BY Zenon DEF ZoneBound
<1> DEFINE T == {row.ttl : row \in {r \in policy : prefix_intersects_range(r.prefix, min, max)}}
<1>1. PICK c \in policy : IsPrefix(c.prefix, min) /\ IsPrefix(c.prefix, max)
  BY Zenon DEF covers_range, starts_with
<1>2. IsPrefix(c.prefix, key)
  BY <1>1, SharedPrefix, Zenon DEF IsPolicy
<1>3. c \in Matching(policy, key)
  BY <1>1, <1>2, Zenon DEF Matching, starts_with
<1>4. PICK r \in Matching(policy, key) : ttl_for_key(policy, key) = {r.ttl}
  BY <1>3, LongestMatch, Zenon
<1>5. r \in policy /\ IsPrefix(r.prefix, key) /\ r.prefix \in Seq(Nat)
  BY Zenon DEF Matching, starts_with, IsPolicy
<1>6. r.ttl \in T
  BY <1>5, GoverningMeets, Zenon
<1>7. Max(T) \in T /\ r.ttl <= Max(T)
  <2>1. PICK b \in Nat : \A row \in policy : row.ttl <= b
    BY Zenon DEF IsPolicy
  <2>2. T \in SUBSET Nat /\ T # {} /\ \A x \in T : x <= b
    BY <1>6, <2>1 DEF IsPolicy
  <2> QED
    BY <1>6, <2>2, MaxIsGreatest, Zenon
<1>8. max_ttl_in_range(policy, min, max) = {Max(T)}
  BY <1>6, Zenon DEF max_ttl_in_range
<1> QED
  BY <1>4, <1>7, <1>8, Zenon

\* The row of a configuration: a prefix and a TTL, which may be negative.
ConfigRow == [prefix : Seq(Nat), ttl : Int]

\* The TTLs of a list of rows have a bound.
LEMMA TtlsBounded ==
  ASSUME NEW all \in Seq(ConfigRow)
  PROVE  \E b \in Nat : \A i \in 1..Len(all) : all[i].ttl <= b
<1>1. Len(all) \in Nat /\ \A i \in 1..Len(all) : all[i].ttl \in Int
  <2>1. Len(all) \in Nat /\ \A i \in 1..Len(all) : all[i] \in ConfigRow
    OBVIOUS
  <2>2. \A r \in ConfigRow : r.ttl \in Int
    BY DEF ConfigRow
  <2> QED
    BY <2>1, <2>2, Zenon
<1> DEFINE Bounds(n, b) == \A i \in 1..n : i <= Len(all) => all[i].ttl <= b
           S == {n \in Nat : \E b \in Nat : Bounds(n, b)}
<1>2. 0 \in S
  <2>1. Bounds(0, 0)
    OBVIOUS
  <2> QED
    BY <2>1
<1>3. ASSUME NEW n \in S
      PROVE  n + 1 \in S
  <2>1. PICK b \in Nat : Bounds(n, b)
    OBVIOUS
  <2>2. n \in Nat /\ \A i \in 1..(n + 1) : i \in 1..n \/ i = n + 1
    OBVIOUS
  <2>3. CASE n + 1 <= Len(all)
    <3> DEFINE t == all[n + 1].ttl
    <3>1. t \in Int
      <4>1. n + 1 \in 1..Len(all)
        BY <1>1, <2>2, <2>3
      <4> QED
        BY <1>1, <4>1, Zenon
    <3> HIDE DEF t
    <3>2. PICK c \in Nat : b <= c /\ t <= c
      <4>1. CASE t <= b
        BY <4>1
      <4>2. CASE ~(t <= b)
        <5>1. t \in Nat /\ b <= t /\ t <= t
          BY <3>1, <4>2
        <5> QED
          BY <5>1, Zenon
      <4> QED
        BY <4>1, <4>2, ZenonT(30)
    <3>3. ASSUME NEW i \in 1..n, i <= Len(all)
          PROVE  all[i].ttl <= c
      <4>1. all[i].ttl <= b /\ i \in 1..Len(all)
        BY <1>1, <2>1, <2>2, <3>3
      <4>2. all[i].ttl \in Int
        BY <1>1, <4>1, Zenon
      <4> QED
        BY <3>2, <4>1, <4>2
    <3>4. Bounds(n + 1, c)
      BY <2>2, <3>2, <3>3, Zenon DEF t
    <3> QED
      BY <2>2, <3>4, SMTT(30)
  <2>4. CASE ~(n + 1 <= Len(all))
    <3>1. Bounds(n + 1, b)
      BY <2>1, <2>2, <2>4, Zenon
    <3>2. n + 1 \in Nat
      BY <2>2
    <3> QED
      BY <3>1, <3>2, Zenon
  <2> QED
    BY <2>3, <2>4, Zenon
<1>4. S = Nat
  <2>1. S \in SUBSET Nat
    OBVIOUS
  <2> HIDE DEF S
  <2> QED
    BY <1>2, <1>3, <2>1, SetInduction, ZenonT(30)
<1>5. PICK b \in Nat : Bounds(Len(all), b)
  BY <1>1, <1>4, Zenon
<1>6. \A i \in 1..Len(all) : i <= Len(all)
  BY <1>1
<1> QED
  BY <1>5, <1>6, Zenon

\* A TTL below 0 counts as 0.
LEMMA Clamped ==
  ASSUME NEW t \in Int
  PROVE  Max({0, t}) \in Nat /\ Max({0, t}) \in {0, t}
<1>1. \E x \in {0, t} : \A y \in {0, t} : x >= y
  <2>1. CASE t >= 0
    BY <2>1
  <2>2. CASE ~(t >= 0)
    BY <2>2
  <2> QED
    BY <2>1, <2>2, Zenon
<1>2. Max({0, t}) \in {0, t} /\ \A y \in {0, t} : Max({0, t}) >= y
  BY <1>1, Zenon DEF Max
<1>3. Max({0, t}) >= 0 /\ Max({0, t}) \in Int
  BY <1>2
<1> QED
  BY <1>2, <1>3

\* compile yields a policy from any rows and any global TTL.
LEMMA CompiledPolicy ==
  ASSUME NEW rows \in Seq(ConfigRow), NEW global \in SUBSET Int
  PROVE  IsPolicy(compile(rows, global))
<1> DEFINE all == IF global = {} THEN rows
                  ELSE <<[prefix |-> <<>>, ttl |-> CHOOSE g \in global : TRUE]>> \o rows
           Newest(p) == Max({i \in DOMAIN all : all[i].prefix = p})
           P == {all[i].prefix : i \in DOMAIN all}
           row(p) == [prefix |-> p, ttl |-> Max({0, all[Newest(p)].ttl})]
<1>1. all \in Seq(ConfigRow)
  <2>1. CASE global = {}
    BY <2>1
  <2>2. CASE global # {}
    <3> DEFINE g0 == CHOOSE g \in global : TRUE
    <3>1. g0 \in Int
      BY <2>2, Zenon
    <3> HIDE DEF g0
    <3>2. [prefix |-> <<>>, ttl |-> g0] \in ConfigRow
      BY <3>1 DEF ConfigRow
    <3>3. <<[prefix |-> <<>>, ttl |-> g0]>> \o rows \in Seq(ConfigRow)
      BY <3>2
    <3> QED
      BY <2>2, <3>3 DEF g0
  <2> QED
    BY <2>1, <2>2, Zenon
<1>2. compile(rows, global) = {row(p) : p \in P}
  BY Zenon DEF compile
<1> HIDE DEF all
<1>3. /\ Len(all) \in Nat /\ DOMAIN all = 1..Len(all)
      /\ \A i \in DOMAIN all : all[i].prefix \in Seq(Nat) /\ all[i].ttl \in Int
  <2>1. /\ Len(all) \in Nat /\ DOMAIN all = 1..Len(all)
        /\ \A i \in DOMAIN all : all[i] \in ConfigRow
    BY <1>1
  <2>2. \A r \in ConfigRow : r.prefix \in Seq(Nat) /\ r.ttl \in Int
    BY DEF ConfigRow
  <2> QED
    BY <2>1, <2>2, ZenonT(30)
<1>4. PICK b \in Nat : \A i \in DOMAIN all : all[i].ttl <= b
  BY <1>1, <1>3, TtlsBounded, ZenonT(30)
<1>5. ASSUME NEW p \in P
      PROVE  p \in Seq(Nat) /\ Newest(p) \in DOMAIN all
  <2> DEFINE S == {i \in DOMAIN all : all[i].prefix = p}
  <2>1. S \in SUBSET Nat /\ S # {} /\ \A i \in S : i <= Len(all)
    BY <1>3
  <2>2. Max(S) \in S
    BY <1>3, <2>1, MaxIsGreatest, Zenon
  <2> QED
    BY <1>3, <2>2, ZenonT(30)
<1>6. ASSUME NEW p \in P
      PROVE  row(p).prefix \in Seq(Nat) /\ row(p).ttl \in Nat /\ row(p).ttl <= b
  <2> DEFINE t == all[Newest(p)].ttl
  <2>1. t \in Int /\ t <= b /\ p \in Seq(Nat)
    BY <1>3, <1>4, <1>5, Zenon
  <2>2. Max({0, t}) \in Nat /\ Max({0, t}) \in {0, t}
    BY <2>1, Clamped, ZenonT(30)
  <2>3. row(p).prefix = p /\ row(p).ttl = Max({0, t})
    OBVIOUS
  <2> HIDE DEF t, row
  <2>4. Max({0, t}) <= b
    BY <2>1, <2>2
  <2> QED
    BY <2>1, <2>2, <2>3, <2>4, Zenon
<1>7. \A p \in P : row(p).prefix = p
  OBVIOUS
<1> HIDE DEF row, P
<1> QED
  BY <1>2, <1>4, <1>6, <1>7, Zenon DEF IsPolicy

\* The claims that the comments of covers_range and max_ttl_in_range make, for
\* every configuration: in a segment whose key range one row covers, every
\* key has exactly one TTL, and it is no larger than the bound by which the
\* groomer drops the segment whole.
THEOREM ZonesExpireSoundly ==
  ASSUME NEW rows \in Seq(ConfigRow), NEW global \in SUBSET Int,
         NEW min \in Seq(Nat), NEW max \in Seq(Nat), NEW key \in Seq(Nat)
  PROVE  ZoneBound(compile(rows, global), min, max, key)
BY CompiledPolicy, PolicyZones, Zenon
==============================================================================
