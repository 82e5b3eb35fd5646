-------------------------- MODULE RecursionProofs --------------------------
(***************************************************************************)
(* What the folds and the recursive functions of the calls that decide     *)
(* compute: each is unrolled once, here, for inputs of any length, and the *)
(* theorems of DecisionProofs are about what it comes to.                  *)
(***************************************************************************)
EXTENDS Decisions, SequenceTheorems, FiniteSetTheorems, WellFoundedInduction, TLAPS

\* s is a sequence of n elements of E.
Lists(s, n, E) == n \in Nat /\ s \in [1..n -> E]

\* A set of natural numbers has a least one.
LEMMA LeastNatural ==
  ASSUME NEW S \in SUBSET Nat, S # {}
  PROVE  \E m \in S : \A n \in S : m <= n
<1> DEFINE Less == OpToRel(<, Nat)
<1>1. IsWellFoundedOn(Less, Nat)
  BY NatLessThanWellFounded
<1>2. \A m, n \in Nat : m < n => <<m, n>> \in Less
  BY DEF OpToRel
<1> HIDE DEF Less
<1>3. PICK m \in S : \A n \in S : <<n, m>> \notin Less
  BY <1>1, WFMin
<1>4. ASSUME NEW n \in S PROVE m <= n
  <2>1. ~(n < m)
    BY <1>2, <1>3
  <2> QED
    BY <2>1
<1> QED
  BY <1>4

\* What holds of x when it holds of everything that measures less than x, holds of everything.
LEMMA MeasureInduction ==
  ASSUME NEW S, NEW m \in [S -> Nat], NEW P,
         \A x \in S : (\A y \in S : m[y] < m[x] => y \in P) => x \in P
  PROVE  S \subseteq P
<1> DEFINE bad == {m[x] : x \in S \ P}
<1>1. ASSUME bad # {} PROVE FALSE
  <2>1. PICK n \in bad : \A k \in bad : n <= k
    <3>1. bad \in SUBSET Nat
      OBVIOUS
    <3> HIDE DEF bad
    <3> QED
      BY <1>1, <3>1, LeastNatural
  <2>2. PICK x \in S \ P : n = m[x]
    BY <2>1
  <2>3. \A y \in S : m[y] < m[x] => y \in P
    <3> TAKE y \in S
    <3> SUFFICES ASSUME m[y] < m[x], y \notin P PROVE FALSE
      OBVIOUS
    <3>1. m[x] <= m[y]
      BY <2>1, <2>2
    <3> QED
      BY <3>1
  <2> QED
    BY <2>2, <2>3
<1> QED
  BY <1>1

\* What holds of 0, and of each of 1..n when it holds of the number before, holds up to n.
LEMMA UpFrom ==
  ASSUME NEW n \in Nat, NEW P, 0 \in P, \A k \in 1..n : k - 1 \in P => k \in P
  PROVE  0..n \subseteq P
<1> DEFINE S == 0..n
           m == [k \in S |-> k]
<1>1. m \in [S -> Nat]
  OBVIOUS
<1>2. ASSUME NEW k \in S, \A j \in S : m[j] < m[k] => j \in P PROVE k \in P
  <2>1. CASE k # 0
    <3>1. k \in 1..n /\ k - 1 \in S /\ m[k - 1] < m[k]
      BY <2>1
    <3> QED
      BY <1>2, <3>1
  <2> QED
    BY <2>1
<1> HIDE DEF S, m
<1>3. S \subseteq P
  BY <1>1, <1>2, MeasureInduction
<1> QED
  BY <1>3 DEF S

\* The same from n + 1 down.
LEMMA DownFrom ==
  ASSUME NEW n \in Nat, NEW P, n + 1 \in P, \A k \in 1..n : k + 1 \in P => k \in P
  PROVE  1..(n + 1) \subseteq P
<1> DEFINE S == 1..(n + 1)
           m == [k \in S |-> n + 1 - k]
<1>1. m \in [S -> Nat]
  OBVIOUS
<1>2. ASSUME NEW k \in S, \A j \in S : m[j] < m[k] => j \in P PROVE k \in P
  <2>1. CASE k # n + 1
    <3>1. k \in 1..n /\ k + 1 \in S /\ m[k + 1] < m[k]
      BY <2>1
    <3> QED
      BY <1>2, <3>1
  <2> QED
    BY <2>1
<1> HIDE DEF S, m
<1>3. S \subseteq P
  BY <1>1, <1>2, MeasureInduction
<1> QED
  BY <1>3 DEF S

(* A recursion over a bounded measure: S its arguments, V its values, and  *)
(* G[f][x] the body at x, which reads f below the measure of x alone.      *)
Recursion(S, V, bound, m, G) ==
  /\ V # {} /\ bound \in Nat /\ m \in [S -> 0..bound] /\ G \in [[S -> V] -> [S -> V]]
  /\ \A f, g \in [S -> V] : \A x \in S :
       (\A y \in S : m[y] < m[x] => f[y] = g[y]) => G[f][x] = G[g][x]

\* It has a solution.
LEMMA RecursionExists ==
  ASSUME NEW S, NEW V, NEW bound, NEW m, NEW G, Recursion(S, V, bound, m, G)
  PROVE  \E f \in [S -> V] : f = G[f]
<1> USE DEF Recursion
<1> DEFINE Upto(f, k) == \A x \in S : m[x] < k => f[x] = G[f][x]
           good == {k \in Nat : \E f \in [S -> V] : Upto(f, k)}
<1>1. 0 \in good
  <2>1. PICK v \in V : TRUE
    OBVIOUS
  <2>2. [x \in S |-> v] \in [S -> V]
    BY <2>1
  <2>3. \A x \in S : ~(m[x] < 0)
    OBVIOUS
  <2> QED
    BY <2>2, <2>3
<1>2. ASSUME NEW k \in good PROVE k + 1 \in good
  <2>1. PICK f \in [S -> V] : Upto(f, k)
    OBVIOUS
  <2>2. G[f] \in [S -> V]
    OBVIOUS
  <2>3. ASSUME NEW x \in S, m[x] < k + 1 PROVE G[f][x] = G[G[f]][x]
    <3>1. \A y \in S : m[y] < m[x] => m[y] < k
      BY <2>3
    <3>2. \A y \in S : m[y] < m[x] => f[y] = G[f][y]
      BY <2>1, <3>1
    <3> QED
      BY <2>2, <3>2
  <2> QED
    BY <2>2, <2>3
<1>3. bound + 1 \in good
  <2> DEFINE bad == Nat \ good
  <2> SUFFICES ASSUME bad # {} PROVE FALSE
    <3>1. bound + 1 \in Nat
      OBVIOUS
    <3> HIDE DEF good
    <3> QED
      BY <3>1
  <2>1. bad \in SUBSET Nat
    OBVIOUS
  <2>2. PICK n \in bad : \A k \in bad : n <= k
    <3> HIDE DEF bad
    <3> QED
      BY <2>1, LeastNatural
  <2>3. n # 0
    BY <1>1
  <2>4. n - 1 \in good
    <3>1. n - 1 \in Nat /\ ~(n <= n - 1)
      BY <2>1, <2>3
    <3> HIDE DEF good
    <3> QED
      BY <2>2, <3>1
  <2>5. (n - 1) + 1 = n
    BY <2>1
  <2> HIDE DEF good
  <2> QED
    BY <1>2, <2>4, <2>5
<1>4. PICK f \in [S -> V] : Upto(f, bound + 1)
  BY <1>3
<1>5. \A x \in S : m[x] < bound + 1
  OBVIOUS
<1>6. f = G[f]
  BY <1>4, <1>5
<1> QED
  BY <1>6

\* A set of numbers has the greatest one Max says.
LEMMA GreatestIs ==
  ASSUME NEW k \in Nat, NEW s \in SUBSET (1..k), s # {}
  PROVE  Max(s) \in s /\ (\A i \in s : i <= Max(s)) /\ (k \in s => Max(s) = k)
<1> DEFINE gaps == {k - i : i \in s}
<1>1. gaps \in SUBSET Nat /\ gaps # {}
  <2>1. \A i \in 1..k : k - i \in Nat
    OBVIOUS
  <2> QED
    BY <2>1
<1>2. PICK g \in gaps : \A h \in gaps : g <= h
  <2> HIDE DEF gaps
  <2> QED
    BY <1>1, LeastNatural
<1>3. PICK m \in s : g = k - m
  BY <1>2
<1>4. \A i \in s : m >= i
  <2> TAKE i \in s
  <2>1. k - m <= k - i
    BY <1>2, <1>3
  <2>2. k \in Int /\ m \in Int /\ i \in Int
    <3>1. \A j \in 1..k : j \in Int
      OBVIOUS
    <3>2. m \in 1..k /\ i \in 1..k
      OBVIOUS
    <3> QED
      BY <3>1, <3>2
  <2> QED
    BY <2>1, <2>2
<1>5. Max(s) \in s /\ \A i \in s : Max(s) >= i
  BY <1>4 DEF Max
<1>6. ASSUME k \in s PROVE Max(s) = k
  <2>1. Max(s) \in 1..k /\ Max(s) >= k
    BY <1>5, <1>6
  <2> QED
    BY <2>1
<1>7. \A i \in s : i <= Max(s)
  <2>1. \A i \in s : i \in Int
    OBVIOUS
  <2> HIDE DEF gaps
  <2> QED
    BY <1>5, <2>1
<1> QED
  BY <1>5, <1>6, <1>7

\* The first k places, without the last of them, are the first k - 1.
LEMMA Initials ==
  ASSUME NEW n \in Nat, NEW k \in 1..n
  PROVE  /\ 1..k \in SUBSET (1..n) /\ 1..k # {} /\ Max(1..k) = k
         /\ (1..k) \ {k} = 1..(k - 1) /\ k - 1 \in 0..n
<1>1. 1..k \in SUBSET (1..k) /\ k \in 1..k /\ k \in Nat
  OBVIOUS
<1>2. Max(1..k) = k
  BY <1>1, GreatestIs
<1> QED
  BY <1>2

(***************************************************************************)
(* A fold of s by op, with values in V: its recursive function takes the   *)
(* places of s away one by one, pick saying which, and leaves what it has  *)
(* come to after each of them.                                             *)
(***************************************************************************)
Folds(V, E, base, op, n, s) ==
  base \in V /\ op \in [V \X E -> V] /\ n \in Nat /\ s \in [1..n -> E]

FoldsBy(pick, V, base, op, n, s, f) ==
  \A x \in SUBSET (1..n) :
    /\ x = {} => f[x] = base
    /\ x # {} /\ f[x \ {pick[x]}] \in V => f[x] = op[<<f[x \ {pick[x]}], s[pick[x]]>>]

Chooses(pick, n) == \A x \in SUBSET (1..n) : x # {} => pick[x] \in x

Greatests(pick, n) == \A x \in SUBSET (1..n) : x # {} => pick[x] = Max(x)
Leasts(pick, n) == \A x \in SUBSET (1..n) : x # {} => pick[x] = Min(x)

LeftSteps(V, base, op, n, s, h) ==
  /\ h \in [0..n -> V] /\ h[0] = base
  /\ \A k \in 1..n : h[k - 1] \in V /\ h[k] = op[<<h[k - 1], s[k]>>]

RightSteps(V, base, op, n, s, h) ==
  /\ h \in [1..(n + 1) -> V] /\ h[n + 1] = base
  /\ \A k \in 1..n : h[k + 1] \in V /\ h[k] = op[<<h[k + 1], s[k]>>]

\* A fold has a table over the sets of places it has yet to take.
LEMMA FoldExists ==
  ASSUME NEW V, NEW E, NEW base, NEW op, NEW n, NEW s, Folds(V, E, base, op, n, s),
         NEW pick, Chooses(pick, n)
  PROVE  \E f \in [SUBSET (1..n) -> V] : FoldsBy(pick, V, base, op, n, s, f)
<1> USE DEF Folds
<1> DEFINE S == SUBSET (1..n)
           m == [x \in S |-> Cardinality(x)]
           G == [f \in [S -> V] |->
                   [x \in S |-> IF x = {} THEN base ELSE op[<<f[x \ {pick[x]}], s[pick[x]]>>]]]
<1>1. ASSUME NEW x \in S, x # {}
      PROVE  pick[x] \in x /\ pick[x] \in 1..n /\ x \ {pick[x]} \in S
  BY <1>1 DEF Chooses
<1>2. ASSUME NEW x \in S
      PROVE  IsFiniteSet(x) /\ Cardinality(x) \in 0..n
  <2>1. 1 \in Int /\ n \in Int
    OBVIOUS
  <2>2. IsFiniteSet(1..n) /\ Cardinality(1..n) = n
    BY <2>1, FS_Interval
  <2>3. IsFiniteSet(x) /\ Cardinality(x) <= n
    <3> DEFINE all == 1..n
    <3>1. IsFiniteSet(all) /\ Cardinality(all) = n /\ x \in SUBSET all
      BY <2>2
    <3> HIDE DEF all
    <3> QED
      BY <3>1, FS_Subset
  <2>4. Cardinality(x) \in Nat
    BY <2>3, FS_CardinalityType
  <2> QED
    BY <2>3, <2>4
<1>3. G \in [[S -> V] -> [S -> V]]
  <2>1. ASSUME NEW f \in [S -> V], NEW x \in S, x # {}
        PROVE  op[<<f[x \ {pick[x]}], s[pick[x]]>>] \in V
    <3>1. f[x \ {pick[x]}] \in V /\ s[pick[x]] \in E
      BY <1>1, <2>1
    <3> QED
      BY <3>1
  <2> QED
    BY <2>1
<1>4. ASSUME NEW f \in [S -> V], NEW g \in [S -> V], NEW x \in S,
             \A y \in S : m[y] < m[x] => f[y] = g[y]
      PROVE  G[f][x] = G[g][x]
  <2>1. CASE x = {}
    BY <2>1
  <2>2. CASE x # {}
    <3> DEFINE y == x \ {pick[x]}
    <3>1. y \in S /\ pick[x] \in x
      BY <1>1, <2>2
    <3>2. m[y] < m[x]
      <4>1. Cardinality(y) = Cardinality(x) - 1
        BY <1>2, <3>1, FS_RemoveElement
      <4>2. Cardinality(x) \in 0..n
        BY <1>2
      <4> QED
        BY <3>1, <4>1, <4>2
    <3>3. f[y] = g[y]
      BY <1>4, <3>1, <3>2
    <3> QED
      BY <2>2, <3>3
  <2> QED
    BY <2>1, <2>2
<1>5. m \in [S -> 0..n]
  BY <1>2
<1> HIDE DEF m, G
<1>6. PICK f \in [S -> V] : f = G[f]
  <2>1. V # {}
    OBVIOUS
  <2>2. \A f, g \in [S -> V] : \A x \in S :
          (\A y \in S : m[y] < m[x] => f[y] = g[y]) => G[f][x] = G[g][x]
    BY <1>4
  <2> HIDE DEF S
  <2>3. Recursion(S, V, n, m, G)
    BY <1>3, <1>5, <2>1, <2>2 DEF Recursion
  <2> QED
    BY <2>3, RecursionExists
<1>7. \A x \in S : f[x] = IF x = {} THEN base ELSE op[<<f[x \ {pick[x]}], s[pick[x]]>>]
  BY <1>6 DEF G
<1>8. FoldsBy(pick, V, base, op, n, s, f)
  BY <1>1, <1>7 DEF FoldsBy
<1> QED
  BY <1>6, <1>8

\* One that takes the greatest place last goes from the first element to the last, ...
LEMMA FoldLeftSteps ==
  ASSUME NEW V, NEW E, NEW base, NEW op, NEW n, NEW s, Folds(V, E, base, op, n, s),
         NEW pick, Greatests(pick, n),
         NEW g, FoldsBy(pick, V, base, op, n, s, g)
  PROVE  \E h : LeftSteps(V, base, op, n, s, h) /\ h[n] = g[1..n]
<1> USE DEF Folds
<1> DEFINE h == [k \in 0..n |-> g[1..k]]
<1>1. h[0] = base /\ h[n] = g[1..n]
  <2>1. g[{}] = base
    BY DEF FoldsBy
  <2>2. 1..0 = {}
    OBVIOUS
  <2> QED
    BY <2>1, <2>2
<1>2. ASSUME NEW k \in 1..n, h[k - 1] \in V
      PROVE  h[k] = op[<<h[k - 1], s[k]>>] /\ h[k] \in V
  <2>1. h[k] = g[1..k] /\ h[k - 1] = g[1..(k - 1)]
    BY Initials
  <2>2. /\ 1..k \in SUBSET (1..n) /\ 1..k # {} /\ Max(1..k) = k
        /\ (1..k) \ {k} = 1..(k - 1)
    BY Initials
  <2>3. g[1..k] = op[<<g[1..(k - 1)], s[k]>>]
    <3>1. pick[1..k] = k
      BY <2>2 DEF Greatests
    <3> QED
      BY <1>2, <2>1, <2>2, <3>1 DEF FoldsBy
  <2>4. h[k] = op[<<h[k - 1], s[k]>>]
    BY <2>1, <2>3
  <2> QED
    BY <1>2, <2>4
<1> HIDE DEF h
<1>3. 0..n \subseteq {k \in 0..n : h[k] \in V}
  <2> DEFINE P == {k \in 0..n : h[k] \in V}
  <2>1. 0 \in P
    BY <1>1
  <2>2. ASSUME NEW k \in 1..n, k - 1 \in P PROVE k \in P
    <3>1. h[k - 1] \in V /\ k \in 0..n
      BY <2>2
    <3> QED
      BY <1>2, <3>1
  <2> HIDE DEF P
  <2>3. 0..n \subseteq P
    BY <2>1, <2>2, UpFrom
  <2> QED
    BY <2>3 DEF P
<1>4. \A k \in 1..n : k - 1 \in 0..n
  OBVIOUS
<1>5. /\ h \in [0..n -> V]
      /\ \A k \in 1..n : h[k - 1] \in V /\ h[k] = op[<<h[k - 1], s[k]>>]
  <2>1. h = [k \in 0..n |-> h[k]]
    BY DEF h
  <2> QED
    BY <1>2, <1>3, <1>4, <2>1
<1> QED
  BY <1>1, <1>5 DEF LeftSteps

\* A set of numbers has the least one Min says.
LEMMA LeastIs ==
  ASSUME NEW s \in SUBSET Nat, s # {}
  PROVE  Min(s) \in s /\ \A i \in s : Min(s) <= i
<1>1. PICK m \in s : \A i \in s : m <= i
  BY LeastNatural
<1> QED
  BY <1>1 DEF Min

\* In particular a set of places.
LEMMA LeastOfPlaces ==
  ASSUME NEW n \in Nat, NEW s \in SUBSET (1..n), s # {}
  PROVE  Min(s) \in s
<1>1. s \in SUBSET Nat
  OBVIOUS
<1> QED
  BY <1>1, LeastIs

\* ... and one that takes the least last, from the last to the first.
LEMMA FoldRightSteps ==
  ASSUME NEW V, NEW E, NEW base, NEW op, NEW n, NEW s, Folds(V, E, base, op, n, s),
         NEW pick, Leasts(pick, n),
         NEW g, FoldsBy(pick, V, base, op, n, s, g)
  PROVE  \E h : RightSteps(V, base, op, n, s, h) /\ h[1] = g[1..n]
<1> USE DEF Folds
<1> DEFINE h == [k \in 1..(n + 1) |-> g[k..n]]
<1>1. h[n + 1] = base /\ h[1] = g[1..n]
  <2>1. g[{}] = base
    BY DEF FoldsBy
  <2>2. (n + 1)..n = {} /\ n + 1 \in 1..(n + 1) /\ 1 \in 1..(n + 1)
    OBVIOUS
  <2> QED
    BY <2>1, <2>2
<1>2. ASSUME NEW k \in 1..n, h[k + 1] \in V
      PROVE  h[k] = op[<<h[k + 1], s[k]>>] /\ h[k] \in V
  <2>1. h[k] = g[k..n] /\ h[k + 1] = g[(k + 1)..n]
    OBVIOUS
  <2>2. k..n \in SUBSET (1..n) /\ k..n # {} /\ (k..n) \ {k} = (k + 1)..n
    <3>1. k..n \in SUBSET (1..n) /\ k \in k..n
      OBVIOUS
    <3>2. (k..n) \ {k} = (k + 1)..n
      OBVIOUS
    <3> QED
      BY <3>1, <3>2
  <2>3. Min(k..n) = k
    <3>1. k..n \in SUBSET Nat /\ k \in k..n
      OBVIOUS
    <3>2. Min(k..n) \in k..n /\ Min(k..n) <= k
      BY <2>2, <3>1, LeastIs
    <3> QED
      BY <3>2
  <2>4. pick[k..n] = k
    BY <2>2, <2>3 DEF Leasts
  <2>5. h[k] = op[<<h[k + 1], s[k]>>]
    BY <1>2, <2>1, <2>2, <2>4 DEF FoldsBy
  <2> QED
    BY <1>2, <2>5
<1> HIDE DEF h
<1>3. 1..(n + 1) \subseteq {k \in 1..(n + 1) : h[k] \in V}
  <2> DEFINE P == {k \in 1..(n + 1) : h[k] \in V}
  <2>1. n + 1 \in P
    BY <1>1
  <2>2. ASSUME NEW k \in 1..n, k + 1 \in P PROVE k \in P
    <3>1. h[k + 1] \in V /\ k \in 1..(n + 1)
      BY <2>2
    <3> QED
      BY <1>2, <3>1
  <2> HIDE DEF P
  <2>3. 1..(n + 1) \subseteq P
    BY <2>1, <2>2, DownFrom
  <2> QED
    BY <2>3 DEF P
<1>4. \A k \in 1..n : k + 1 \in 1..(n + 1)
  OBVIOUS
<1>5. /\ h \in [1..(n + 1) -> V]
      /\ \A k \in 1..n : h[k + 1] \in V /\ h[k] = op[<<h[k + 1], s[k]>>]
  <2>1. h = [k \in 1..(n + 1) |-> h[k]]
    BY DEF h
  <2> QED
    BY <1>2, <1>3, <1>4, <2>1
<1> QED
  BY <1>1, <1>5 DEF RightSteps

(***************************************************************************)
(* Sequences.                                                              *)
(***************************************************************************)

\* A sequence that is not empty, without its last element.
LEMMA FrontIs ==
  ASSUME NEW T, NEW d \in Seq(T), d # <<>>
  PROVE  /\ Front(d) \in Seq(T) /\ Len(Front(d)) = Len(d) - 1
         /\ \A i \in 1..(Len(d) - 1) : Front(d)[i] = d[i]
         /\ Last(d) \in T /\ Last(d) = d[Len(d)]
<1>1. PICK n \in Nat : n = Len(d) /\ n # 0 /\ d \in [1..n -> T]
  BY EmptySeq, LenProperties
<1>2. \A i \in 1..(n - 1) : d[i] \in T
  BY <1>1
<1>3. Front(d) = SubSeq(d, 1, n - 1)
  BY <1>1 DEF Front
<1>4. n - 1 \in Int /\ 1 \in Int
  BY <1>1
<1>5. /\ SubSeq(d, 1, n - 1) \in Seq(T)
      /\ Len(SubSeq(d, 1, n - 1)) = IF 1 <= n - 1 THEN (n - 1) - 1 + 1 ELSE 0
      /\ \A i \in 1..((n - 1) - 1 + 1) : SubSeq(d, 1, n - 1)[i] = d[1 + i - 1]
  BY <1>2, <1>4, SubSeqProperties
<1>6. d[n] \in T
  BY <1>1
<1> QED
  BY <1>1, <1>3, <1>5, <1>6 DEF Last

\* The elements of a sequence with one more at its end, and of two one after the other.
LEMMA AppendedTo ==
  ASSUME NEW T, NEW s \in Seq(T), NEW e \in T
  PROVE  \A x : x \in ToSet(Append(s, e)) <=> x \in ToSet(s) \/ x = e
<1>1. PICK n \in Nat : n = Len(s) /\ DOMAIN s = 1..n
  OBVIOUS
<1>2. /\ DOMAIN Append(s, e) = 1..(n + 1) /\ Append(s, e)[n + 1] = e
      /\ \A i \in 1..n : Append(s, e)[i] = s[i]
  BY <1>1, AppendProperties
<1>3. \A i : i \in 1..(n + 1) <=> i \in 1..n \/ i = n + 1
  OBVIOUS
<1> QED
  BY <1>1, <1>2, <1>3 DEF ToSet

\* Two sequences one after the other, index by index.
LEMMA Joined ==
  ASSUME NEW S, NEW s \in Seq(S), NEW t \in Seq(S)
  PROVE  /\ s \o t \in Seq(S) /\ Len(s \o t) = Len(s) + Len(t)
         /\ \A i \in 1..Len(s) : (s \o t)[i] = s[i]
         /\ \A i \in 1..Len(t) : (s \o t)[Len(s) + i] = t[i]
<1>1. /\ s \o t \in Seq(S) /\ Len(s \o t) = Len(s) + Len(t)
      /\ \A i \in 1..(Len(s) + Len(t)) :
           (s \o t)[i] = IF i <= Len(s) THEN s[i] ELSE t[i - Len(s)]
  BY ConcatProperties
<1>2. ASSUME NEW i \in 1..Len(t) PROVE (s \o t)[Len(s) + i] = t[i]
  <2>1. Len(s) + i \in 1..(Len(s) + Len(t)) /\ ~(Len(s) + i <= Len(s))
        /\ (Len(s) + i) - Len(s) = i
    OBVIOUS
  <2> QED
    BY <1>1, <2>1
<1> QED
  BY <1>1, <1>2

\* The same, of u.
Joins(S, s, t, u) ==
  /\ u \in Seq(S) /\ Len(u) = Len(s) + Len(t)
  /\ \A i \in 1..Len(s) : u[i] = s[i]
  /\ \A i \in 1..Len(t) : u[Len(s) + i] = t[i]

\* The same, for a sequence of any length.
LEMMA JoinedIs ==
  ASSUME NEW S, NEW s \in Seq(S), NEW t \in Seq(S)
  PROVE  Joins(S, s, t, s \o t)
BY Joined DEF Joins

\* The recursive function of FlattenSeq, on the first n sequences.
Flattens(seqs, n, f) ==
  \A i \in 1..n : f[i] = IF i = 1 THEN seqs[i] ELSE f[i - 1] \o seqs[i]

\* There is one.
LEMMA FlattenExists ==
  ASSUME NEW S, NEW n \in Nat, NEW seqs \in [1..n -> Seq(S)]
  PROVE  \A k \in 0..n : \E f \in [1..k -> Seq(S)] : Flattens(seqs, k, f)
<1> DEFINE bad == {k \in 0..n : ~\E f \in [1..k -> Seq(S)] : Flattens(seqs, k, f)}
<1> SUFFICES ASSUME bad # {} PROVE FALSE
  OBVIOUS
<1>1. PICK k \in bad : \A j \in bad : k <= j
  <2>1. bad \in SUBSET Nat
    OBVIOUS
  <2> HIDE DEF bad
  <2> QED
    BY <2>1, LeastNatural
<1>2. CASE k = 0
  <2>1. <<>> \in [1..0 -> Seq(S)] /\ Flattens(seqs, 0, <<>>)
    BY DEF Flattens
  <2> QED
    BY <1>1, <1>2, <2>1
<1>3. CASE k # 0
  <2>1. k - 1 \in 0..n /\ k \in 1..n /\ k - 1 \notin bad
    <3>1. k \in 0..n /\ k \in Nat
      BY <1>1
    <3> HIDE DEF bad
    <3> QED
      BY <1>1, <1>3, <3>1
  <2>2. PICK f \in [1..(k - 1) -> Seq(S)] : Flattens(seqs, k - 1, f)
    BY <2>1
  <2> DEFINE next == IF k = 1 THEN seqs[k] ELSE f[k - 1] \o seqs[k]
             g == [i \in 1..k |-> IF i = k THEN next ELSE f[i]]
  <2>3. next \in Seq(S)
    <3>1. seqs[k] \in Seq(S)
      BY <2>1
    <3>2. CASE k # 1
      <4>1. f[k - 1] \in Seq(S)
        BY <2>1, <3>2
      <4> QED
        BY <3>1, <3>2, <4>1, ConcatProperties
    <3> QED
      BY <3>1, <3>2
  <2> HIDE DEF next
  <2>4. g \in [1..k -> Seq(S)]
    BY <2>1, <2>3
  <2>5. ASSUME NEW i \in 1..k
        PROVE  g[i] = IF i = 1 THEN seqs[i] ELSE g[i - 1] \o seqs[i]
    <3>1. CASE i = k
      BY <2>1, <3>1 DEF next
    <3>2. CASE i # k
      <4>1. i \in 1..(k - 1) /\ g[i] = f[i] /\ (i # 1 => g[i - 1] = f[i - 1])
        BY <2>1, <3>2
      <4>2. f[i] = IF i = 1 THEN seqs[i] ELSE f[i - 1] \o seqs[i]
        BY <2>2, <4>1 DEF Flattens
      <4> QED
        BY <4>1, <4>2
    <3> QED
      BY <3>1, <3>2
  <2> HIDE DEF g
  <2>6. Flattens(seqs, k, g)
    BY <2>5 DEF Flattens
  <2> QED
    BY <1>1, <2>4, <2>6
<1> QED
  BY <1>2, <1>3

\* It ends with what FlattenSeq gives.
LEMMA FlattenIs ==
  ASSUME NEW S, NEW n \in Nat, n # 0, NEW seqs \in [1..n -> Seq(S)]
  PROVE  \E f \in [1..n -> Seq(S)] : Flattens(seqs, n, f) /\ FlattenSeq(seqs) = f[n]
<1> DEFINE f == CHOOSE f : f = [i \in 1..Len(seqs) |->
                                  IF i = 1 THEN seqs[i] ELSE f[i - 1] \o seqs[i]]
<1>1. Len(seqs) = n
  OBVIOUS
<1>2. FlattenSeq(seqs) = f[Len(seqs)]
  BY <1>1 DEF FlattenSeq
<1>3. PICK g \in [1..n -> Seq(S)] : Flattens(seqs, n, g)
  BY FlattenExists
<1>4. g = [i \in 1..Len(seqs) |-> IF i = 1 THEN seqs[i] ELSE g[i - 1] \o seqs[i]]
  BY <1>1, <1>3 DEF Flattens
<1>5. f = [i \in 1..n |-> IF i = 1 THEN seqs[i] ELSE f[i - 1] \o seqs[i]]
  BY <1>1, <1>4
<1> HIDE DEF f
<1>6. Flattens(seqs, n, f)
  BY <1>5 DEF Flattens
<1>7. f = g
  <2> DEFINE bad == {i \in 1..n : f[i] # g[i]}
  <2> SUFFICES ASSUME bad # {} PROVE FALSE
    <3>1. f = [i \in 1..n |-> f[i]] /\ g = [i \in 1..n |-> g[i]]
      BY <1>5
    <3>2. \A i \in 1..n : bad = {} => f[i] = g[i]
      OBVIOUS
    <3> QED
      BY <3>1, <3>2
  <2>1. PICK i \in bad : \A j \in bad : i <= j
    <3>1. bad \in SUBSET Nat
      OBVIOUS
    <3> HIDE DEF bad
    <3> QED
      BY <3>1, LeastNatural
  <2>2. i # 1 => f[i - 1] = g[i - 1]
    <3> SUFFICES ASSUME i # 1 PROVE f[i - 1] = g[i - 1]
      OBVIOUS
    <3>1. i - 1 \in 1..n /\ i - 1 \notin bad
      BY <2>1
    <3> QED
      BY <3>1
  <2> QED
    BY <1>3, <1>6, <2>1, <2>2, ZenonT(40) DEF Flattens
<1> QED
  BY <1>1, <1>2, <1>6, <1>7

\* s has the elements of the first k sequences, each of one or none, in their order.
Gathers(seqs, k, s, of) ==
  /\ of \in [1..Len(s) -> 1..k]
  /\ \A i, j \in 1..Len(s) : i < j => of[i] < of[j]
  /\ \A i \in 1..Len(s) : seqs[of[i]] = <<s[i]>>
  /\ \A j \in 1..k : seqs[j] # <<>> => \E i \in 1..Len(s) : of[i] = j

\* One more sequence of at most one element is gathered.
LEMMA GathersOneMore ==
  ASSUME NEW S, NEW n \in Nat, NEW seqs \in [1..n -> Seq(S)], NEW k \in 1..n,
         seqs[k] = <<>> \/ \E x \in S : seqs[k] = <<x>>,
         NEW s \in Seq(S), NEW of, Gathers(seqs, k - 1, s, of)
  PROVE  \E next : Gathers(seqs, k, s \o seqs[k], next)
<1>1. Len(s) \in Nat /\ k \in Nat
  BY LenProperties
<1>2. CASE seqs[k] = <<>>
  <2>1. s \o seqs[k] = s
    BY <1>2, ConcatEmptySeq
  <2>2. Gathers(seqs, k, s, of)
    <3>1. of \in [1..Len(s) -> 1..k]
      BY <1>1 DEF Gathers
    <3>2. \A j \in 1..k : seqs[j] # <<>> => \E i \in 1..Len(s) : of[i] = j
      BY <1>1, <1>2, SMTT(30) DEF Gathers
    <3> QED
      BY <3>1, <3>2 DEF Gathers
  <2> QED
    BY <2>1, <2>2
<1>3. CASE \E x \in S : seqs[k] = <<x>>
  <2>1. PICK x \in S : seqs[k] = <<x>>
    BY <1>3
  <2> DEFINE m == Len(s) + 1
             t == s \o <<x>>
             next == [i \in 1..m |-> IF i = m THEN k ELSE of[i]]
  <2>2. /\ t \in Seq(S) /\ Len(t) = m /\ t[m] = x
        /\ \A i \in 1..Len(s) : t[i] = s[i]
    <3>1. <<x>> \in Seq(S) /\ Len(<<x>>) = 1 /\ <<x>>[1] = x
      OBVIOUS
    <3> DEFINE one == <<x>>
    <3>2. one \in Seq(S) /\ Len(one) = 1 /\ one[1] = x
      BY <3>1
    <3> HIDE DEF one
    <3>3. /\ s \o one \in Seq(S) /\ Len(s \o one) = Len(s) + Len(one)
      BY <3>2, Joined
    <3>4. \A i \in 1..Len(s) : (s \o one)[i] = s[i]
      BY <3>2, Joined
    <3>5. \A i \in 1..Len(one) : (s \o one)[Len(s) + i] = one[i]
      <4>1. one \in Seq(S)
        BY <3>2
      <4> QED
        BY <4>1, Joined
    <3>6. t = s \o one
      BY DEF one
    <3> HIDE DEF t
    <3> QED
      BY <3>2, <3>3, <3>4, <3>5, <3>6
  <2>3. next \in [1..m -> 1..k] /\ next[m] = k /\ \A i \in 1..Len(s) : next[i] = of[i]
    <3>1. \A i \in 1..Len(s) : of[i] \in 1..(k - 1)
      BY DEF Gathers
    <3>2. \A i \in 1..Len(s) : of[i] \in 1..k
      BY <1>1, <3>1
    <3>3. \A i \in 1..m : i # m => i \in 1..Len(s)
      BY <1>1
    <3>4. m \in 1..m /\ k \in 1..k /\ \A i \in 1..Len(s) : i \in 1..m /\ i # m
      BY <1>1
    <3> HIDE DEF m
    <3> QED
      BY <3>2, <3>3, <3>4
  <2>4. m \in Nat /\ \A i : i \in 1..m <=> i \in 1..Len(s) \/ i = m
    BY <1>1
  <2> HIDE DEF m, t, next
  <2>5. \A i, j \in 1..m : i < j => next[i] < next[j]
    <3> SUFFICES ASSUME NEW i \in 1..m, NEW j \in 1..m, i < j PROVE next[i] < next[j]
      OBVIOUS
    <3>1. i \in 1..Len(s)
      BY <1>1, <2>4 DEF m
    <3>2. of[i] \in 1..(k - 1) /\ next[i] = of[i]
      BY <2>3, <3>1 DEF Gathers
    <3>3. CASE j = m
      BY <1>1, <2>3, <3>2, <3>3
    <3>4. CASE j \in 1..Len(s)
      BY <2>3, <3>1, <3>2, <3>4 DEF Gathers
    <3> QED
      BY <2>4, <3>3, <3>4
  <2>6. \A i \in 1..m : seqs[next[i]] = <<t[i]>>
    <3> TAKE i \in 1..m
    <3>1. CASE i = m
      BY <2>1, <2>2, <2>3, <3>1
    <3>2. CASE i \in 1..Len(s)
      BY <2>2, <2>3, <3>2 DEF Gathers
    <3> QED
      BY <2>4, <3>1, <3>2
  <2>7. \A j \in 1..k : seqs[j] # <<>> => \E i \in 1..m : next[i] = j
    <3> SUFFICES ASSUME NEW j \in 1..k, seqs[j] # <<>> PROVE \E i \in 1..m : next[i] = j
      OBVIOUS
    <3>1. CASE j = k
      BY <2>3, <2>4, <3>1
    <3>2. CASE j \in 1..(k - 1)
      <4>1. PICK i \in 1..Len(s) : of[i] = j
        BY <3>2 DEF Gathers
      <4> QED
        BY <2>3, <2>4, <4>1
    <3> QED
      BY <1>1, <3>1, <3>2
  <2>8. Gathers(seqs, k, t, next)
    BY <2>2, <2>3, <2>5, <2>6, <2>7 DEF Gathers
  <2> QED
    BY <2>1, <2>8 DEF t
<1> QED
  BY <1>2, <1>3

\* So FlattenSeq gathers sequences of at most one element.
LEMMA FlattenGathers ==
  ASSUME NEW S, NEW n \in Nat, NEW seqs \in [1..n -> Seq(S)],
         \A j \in 1..n : seqs[j] = <<>> \/ \E x \in S : seqs[j] = <<x>>
  PROVE  FlattenSeq(seqs) \in Seq(S) /\ \E of : Gathers(seqs, n, FlattenSeq(seqs), of)
<1>1. Gathers(seqs, 0, <<>>, <<>>)
  BY DEF Gathers
<1>2. CASE n = 0
  <2>1. seqs = <<>> /\ Len(seqs) = 0
    BY <1>2
  <2>2. FlattenSeq(seqs) = <<>>
    BY <2>1 DEF FlattenSeq
  <2> QED
    BY <1>1, <1>2, <2>2
<1>3. CASE n # 0
  <2>1. PICK f \in [1..n -> Seq(S)] : Flattens(seqs, n, f) /\ FlattenSeq(seqs) = f[n]
    BY <1>3, FlattenIs
  <2> DEFINE bad == {k \in 1..n : ~\E of : Gathers(seqs, k, f[k], of)}
  <2>2. ASSUME bad # {} PROVE FALSE
    <3>1. PICK k \in bad : \A j \in bad : k <= j
      <4>1. bad \in SUBSET Nat
        OBVIOUS
      <4> HIDE DEF bad
      <4> QED
        BY <2>2, <4>1, LeastNatural
    <3>2. k \in 1..n /\ f[k] = IF k = 1 THEN seqs[k] ELSE f[k - 1] \o seqs[k]
      BY <2>1, <3>1 DEF Flattens
    <3>3. seqs[k] = <<>> \/ \E x \in S : seqs[k] = <<x>>
      BY <3>2
    <3>4. CASE k = 1
      <4>1. <<>> \in Seq(S) /\ k - 1 = 0
        BY <3>4
      <4>2. \E of : Gathers(seqs, k, <<>> \o seqs[k], of)
        BY <1>1, <3>2, <3>3, <4>1, GathersOneMore
      <4>3. <<>> \o seqs[k] = f[k]
        BY <3>2, <3>4, ConcatEmptySeq
      <4> QED
        BY <3>1, <4>2, <4>3
    <3>5. CASE k # 1
      <4>1. k - 1 \in 1..n /\ k - 1 \notin bad
        <5> HIDE DEF bad
        <5> QED
          BY <3>1, <3>2, <3>5
      <4>2. PICK of : Gathers(seqs, k - 1, f[k - 1], of)
        BY <4>1
      <4>3. f[k - 1] \in Seq(S)
        BY <4>1
      <4>4. \E next : Gathers(seqs, k, f[k - 1] \o seqs[k], next)
        BY <3>2, <3>3, <4>2, <4>3, GathersOneMore
      <4> QED
        BY <3>1, <3>2, <3>5, <4>4
    <3> QED
      BY <3>4, <3>5
  <2>3. n \in 1..n
    BY <1>3
  <2> QED
    BY <2>1, <2>2, <2>3
<1> QED
  BY <1>2, <1>3

(***************************************************************************)
(* The folds of the modules, step by step.                                 *)
(***************************************************************************)

Name == STRING \cup {"main", "other", Branch, Creators[1]}
PR == [id : Nat, branch : Name, base : Name, createdBy : Name, active : BOOLEAN, draft : BOOLEAN]

Account == [id : STRING \ {""}, tenant : STRING]
TenantOption == [tenant : STRING, account : STRING]

\* The server's answer, pull request by pull request.
ListedTrace(n, prs, branch, h) ==
  /\ h \in [0..n -> Seq(PR)] /\ h[0] = <<>> /\ h[n] = Listed(prs, branch)
  /\ \A k \in 1..n :
       /\ h[k - 1] \in Seq(PR)
       /\ h[k] = IF prs[k].active /\ prs[k].branch = branch
                   THEN Append(h[k - 1], prs[k]) ELSE h[k - 1]

\* Listed goes through such values.
LEMMA ListedSteps ==
  ASSUME NEW n, NEW prs, Lists(prs, n, PR), NEW branch
  PROVE  \E h : ListedTrace(n, prs, branch, h)
<1> USE DEF Lists
<1> DEFINE V == Seq(PR)
           E == PR
           base == <<>>
           Op(value, p) == IF p.active /\ p.branch = branch THEN Append(value, p) ELSE value
           op == [x \in V \X E |-> Op(x[1], x[2])]
           Body(f) == [x \in SUBSET (1..n) |->
                         IF x = {} THEN base ELSE Op(f[x \ {Max(x)}], prs[Max(x)])]
           g == CHOOSE f : f = Body(f)
           pick == [x \in SUBSET (1..n) |-> Max(x)]
<1>1. \A v \in V, e \in E : Op(v, e) \in V
  OBVIOUS
<1> HIDE DEF Op
<1>2. \A v \in V, e \in E : op[<<v, e>>] = Op(v, e)
  OBVIOUS
<1>3. Folds(V, E, base, op, n, prs)
  <2>1. base \in V
    OBVIOUS
  <2> HIDE DEF base, V
  <2> QED
    BY <1>1, <2>1 DEF Folds
<1>4. ASSUME NEW x \in SUBSET (1..n), x # {}
      PROVE  Max(x) \in x /\ prs[Max(x)] \in E /\ pick[x] = Max(x)
  <2>1. Max(x) \in x
    BY <1>4, GreatestIs
  <2> QED
    BY <1>3, <2>1 DEF Folds
<1>5. Chooses(pick, n) /\ Greatests(pick, n)
  BY <1>4 DEF Chooses, Greatests
<1> HIDE DEF op, V, E, base
<1>6. \E f : f = Body(f)
  <2>1. PICK f \in [SUBSET (1..n) -> V] : FoldsBy(pick, V, base, op, n, prs, f)
    BY <1>3, <1>5, FoldExists
  <2>2. ASSUME NEW x \in SUBSET (1..n)
        PROVE  f[x] = IF x = {} THEN base ELSE Op(f[x \ {Max(x)}], prs[Max(x)])
    <3>1. CASE x # {}
      <4>1. f[x \ {Max(x)}] \in V
        BY <2>1
      <4> QED
        BY <1>2, <1>4, <2>1, <3>1, <4>1 DEF FoldsBy
    <3> QED
      BY <2>1, <3>1 DEF FoldsBy
  <2> QED
    BY <2>2
<1>7. g = Body(g)
  BY <1>6
<1>8. Listed(prs, branch) = g[1..n]
  BY DEF Listed, FoldLeft, MapThenFoldSet, Op, base
<1> HIDE DEF g
<1>9. FoldsBy(pick, V, base, op, n, prs, g)
  <2>1. ASSUME NEW x \in SUBSET (1..n), x # {}, g[x \ {pick[x]}] \in V
        PROVE  g[x] = op[<<g[x \ {pick[x]}], prs[pick[x]]>>]
    <3>1. g[x] = Op(g[x \ {Max(x)}], prs[Max(x)])
      BY <1>7, <2>1
    <3> QED
      BY <1>2, <1>4, <2>1, <3>1
  <2>2. g[{}] = base
    BY <1>7
  <2> QED
    BY <2>1, <2>2 DEF FoldsBy
<1>10. PICK h : LeftSteps(V, base, op, n, prs, h) /\ h[n] = g[1..n]
  BY <1>3, <1>5, <1>9, FoldLeftSteps
<1>11. ASSUME NEW k \in 1..n PROVE h[k - 1] \in V /\ h[k] = Op(h[k - 1], prs[k])
  <2>1. prs[k] \in E
    BY <1>3 DEF Folds
  <2> QED
    BY <1>2, <1>10, <2>1 DEF LeftSteps
<1>12. ListedTrace(n, prs, branch, h)
  BY <1>8, <1>10, <1>11 DEF V, base, Op, LeftSteps, ListedTrace
<1> QED
  BY <1>12

\* The pull request FindPR settles on, one of the rest of the answer after another.
NewestTrace(n, rest, first, h) ==
  /\ h \in [0..n -> PR] /\ h[0] = first
  /\ h[n] = FoldLeft(LAMBDA pr, candidate : IF candidate.id > pr.id THEN candidate ELSE pr,
                     first, rest)
  /\ \A k \in 1..n :
       /\ h[k - 1] \in PR
       /\ h[k] = IF rest[k].id > h[k - 1].id THEN rest[k] ELSE h[k - 1]

\* FindPR's fold goes through such values.
LEMMA NewestSteps ==
  ASSUME NEW n, NEW rest, Lists(rest, n, PR), NEW first \in PR
  PROVE  \E h : NewestTrace(n, rest, first, h)
<1> USE DEF Lists
<1> DEFINE V == PR
           E == PR
           base == first
           Op(pr, candidate) == IF candidate.id > pr.id THEN candidate ELSE pr
           op == [x \in V \X E |-> Op(x[1], x[2])]
           Body(f) == [x \in SUBSET (1..n) |->
                         IF x = {} THEN base ELSE Op(f[x \ {Max(x)}], rest[Max(x)])]
           g == CHOOSE f : f = Body(f)
           pick == [x \in SUBSET (1..n) |-> Max(x)]
<1>1. \A v \in V, e \in E : Op(v, e) \in V
  OBVIOUS
<1> HIDE DEF Op
<1>2. \A v \in V, e \in E : op[<<v, e>>] = Op(v, e)
  OBVIOUS
<1>3. Folds(V, E, base, op, n, rest)
  <2>1. base \in V
    OBVIOUS
  <2> HIDE DEF base, V
  <2> QED
    BY <1>1, <2>1 DEF Folds
<1>4. ASSUME NEW x \in SUBSET (1..n), x # {}
      PROVE  Max(x) \in x /\ rest[Max(x)] \in E /\ pick[x] = Max(x)
  <2>1. Max(x) \in x
    BY <1>4, GreatestIs
  <2> QED
    BY <1>3, <2>1 DEF Folds
<1>5. Chooses(pick, n) /\ Greatests(pick, n)
  BY <1>4 DEF Chooses, Greatests
<1> HIDE DEF op, V, E, base
<1>6. \E f : f = Body(f)
  <2>1. PICK f \in [SUBSET (1..n) -> V] : FoldsBy(pick, V, base, op, n, rest, f)
    BY <1>3, <1>5, FoldExists
  <2>2. ASSUME NEW x \in SUBSET (1..n)
        PROVE  f[x] = IF x = {} THEN base ELSE Op(f[x \ {Max(x)}], rest[Max(x)])
    <3>1. CASE x # {}
      <4>1. f[x \ {Max(x)}] \in V
        BY <2>1
      <4> QED
        BY <1>2, <1>4, <2>1, <3>1, <4>1 DEF FoldsBy
    <3> QED
      BY <2>1, <3>1 DEF FoldsBy
  <2> QED
    BY <2>2
<1>7. g = Body(g)
  BY <1>6
<1>8. FoldLeft(LAMBDA pr, candidate : IF candidate.id > pr.id THEN candidate ELSE pr, first, rest)
        = g[1..n]
  BY DEF FoldLeft, MapThenFoldSet, Op, base
<1> HIDE DEF g
<1>9. FoldsBy(pick, V, base, op, n, rest, g)
  <2>1. ASSUME NEW x \in SUBSET (1..n), x # {}, g[x \ {pick[x]}] \in V
        PROVE  g[x] = op[<<g[x \ {pick[x]}], rest[pick[x]]>>]
    <3>1. g[x] = Op(g[x \ {Max(x)}], rest[Max(x)])
      BY <1>7, <2>1
    <3> QED
      BY <1>2, <1>4, <2>1, <3>1
  <2>2. g[{}] = base
    BY <1>7
  <2> QED
    BY <2>1, <2>2 DEF FoldsBy
<1>10. PICK h : LeftSteps(V, base, op, n, rest, h) /\ h[n] = g[1..n]
  BY <1>3, <1>5, <1>9, FoldLeftSteps
<1>11. ASSUME NEW k \in 1..n PROVE h[k - 1] \in V /\ h[k] = Op(h[k - 1], rest[k])
  <2>1. rest[k] \in E
    BY <1>3 DEF Folds
  <2> QED
    BY <1>2, <1>10, <2>1 DEF LeftSteps
<1>12. NewestTrace(n, rest, first, h)
  BY <1>8, <1>10, <1>11 DEF V, base, Op, LeftSteps, NewestTrace
<1> QED
  BY <1>12

\* The events of what was printed, line by line.
EventsTrace(n, L, stdout, h) ==
  /\ h \in [0..n -> Seq(L)] /\ h[0] = <<>> /\ h[n] = Events(stdout)
  /\ \A k \in 1..n :
       /\ h[k - 1] \in Seq(L)
       /\ h[k] = IF stdout[k].length > 0 THEN Append(h[k - 1], stdout[k]) ELSE h[k - 1]

\* Events goes through such values.
LEMMA EventsSteps ==
  ASSUME NEW n, NEW L, NEW stdout, Lists(stdout, n, L)
  PROVE  \E h : EventsTrace(n, L, stdout, h)
<1> USE DEF Lists
<1> DEFINE V == Seq(L)
           E == L
           base == <<>>
           Op(events, line) == IF line.length > 0 THEN Append(events, line) ELSE events
           op == [x \in V \X E |-> Op(x[1], x[2])]
           Body(f) == [x \in SUBSET (1..n) |->
                         IF x = {} THEN base ELSE Op(f[x \ {Max(x)}], stdout[Max(x)])]
           g == CHOOSE f : f = Body(f)
           pick == [x \in SUBSET (1..n) |-> Max(x)]
<1>1. \A v \in V, e \in E : Op(v, e) \in V
  OBVIOUS
<1> HIDE DEF Op
<1>2. \A v \in V, e \in E : op[<<v, e>>] = Op(v, e)
  OBVIOUS
<1>3. Folds(V, E, base, op, n, stdout)
  <2>1. base \in V
    OBVIOUS
  <2> HIDE DEF base, V
  <2> QED
    BY <1>1, <2>1 DEF Folds
<1>4. ASSUME NEW x \in SUBSET (1..n), x # {}
      PROVE  Max(x) \in x /\ stdout[Max(x)] \in E /\ pick[x] = Max(x)
  <2>1. Max(x) \in x
    BY <1>4, GreatestIs
  <2> QED
    BY <1>3, <2>1 DEF Folds
<1>5. Chooses(pick, n) /\ Greatests(pick, n)
  BY <1>4 DEF Chooses, Greatests
<1> HIDE DEF op, V, E, base
<1>6. \E f : f = Body(f)
  <2>1. PICK f \in [SUBSET (1..n) -> V] : FoldsBy(pick, V, base, op, n, stdout, f)
    BY <1>3, <1>5, FoldExists
  <2>2. ASSUME NEW x \in SUBSET (1..n)
        PROVE  f[x] = IF x = {} THEN base ELSE Op(f[x \ {Max(x)}], stdout[Max(x)])
    <3>1. CASE x # {}
      <4>1. f[x \ {Max(x)}] \in V
        BY <2>1
      <4> QED
        BY <1>2, <1>4, <2>1, <3>1, <4>1 DEF FoldsBy
    <3> QED
      BY <2>1, <3>1 DEF FoldsBy
  <2> QED
    BY <2>2
<1>7. g = Body(g)
  BY <1>6
<1>8. Events(stdout) = g[1..n]
  BY DEF Events, FoldLeft, MapThenFoldSet, Op, base
<1> HIDE DEF g
<1>9. FoldsBy(pick, V, base, op, n, stdout, g)
  <2>1. ASSUME NEW x \in SUBSET (1..n), x # {}, g[x \ {pick[x]}] \in V
        PROVE  g[x] = op[<<g[x \ {pick[x]}], stdout[pick[x]]>>]
    <3>1. g[x] = Op(g[x \ {Max(x)}], stdout[Max(x)])
      BY <1>7, <2>1
    <3> QED
      BY <1>2, <1>4, <2>1, <3>1
  <2>2. g[{}] = base
    BY <1>7
  <2> QED
    BY <2>1, <2>2 DEF FoldsBy
<1>10. PICK h : LeftSteps(V, base, op, n, stdout, h) /\ h[n] = g[1..n]
  BY <1>3, <1>5, <1>9, FoldLeftSteps
<1>11. ASSUME NEW k \in 1..n PROVE h[k - 1] \in V /\ h[k] = Op(h[k - 1], stdout[k])
  <2>1. stdout[k] \in E
    BY <1>3 DEF Folds
  <2> QED
    BY <1>2, <1>10, <2>1 DEF LeftSteps
<1>12. EventsTrace(n, L, stdout, h)
  BY <1>8, <1>10, <1>11 DEF V, base, Op, LeftSteps, EventsTrace
<1> QED
  BY <1>12

\* What lines take, line by line.
BytesTrace(n, L, lines, h) ==
  /\ h \in [0..n -> Nat] /\ h[0] = 0 /\ h[n] = Bytes(lines)
  /\ \A k \in 1..n :
       /\ h[k - 1] \in Nat
       /\ h[k] = h[k - 1] + lines[k].length + 1

\* Bytes goes through such values.
LEMMA BytesSteps ==
  ASSUME NEW n, NEW L, \A line \in L : line.length \in Nat, NEW lines, Lists(lines, n, L)
  PROVE  \E h : BytesTrace(n, L, lines, h)
<1> USE DEF Lists
<1> DEFINE V == Nat
           E == L
           base == 0
           Op(sum, line) == sum + line.length + 1
           op == [x \in V \X E |-> Op(x[1], x[2])]
           Body(f) == [x \in SUBSET (1..n) |->
                         IF x = {} THEN base ELSE Op(f[x \ {Max(x)}], lines[Max(x)])]
           g == CHOOSE f : f = Body(f)
           pick == [x \in SUBSET (1..n) |-> Max(x)]
<1>1. \A v \in V, e \in E : Op(v, e) \in V
  OBVIOUS
<1> HIDE DEF Op
<1>2. \A v \in V, e \in E : op[<<v, e>>] = Op(v, e)
  OBVIOUS
<1>3. Folds(V, E, base, op, n, lines)
  <2>1. base \in V
    OBVIOUS
  <2> HIDE DEF base, V
  <2> QED
    BY <1>1, <2>1 DEF Folds
<1>4. ASSUME NEW x \in SUBSET (1..n), x # {}
      PROVE  Max(x) \in x /\ lines[Max(x)] \in E /\ pick[x] = Max(x)
  <2>1. Max(x) \in x
    BY <1>4, GreatestIs
  <2> QED
    BY <1>3, <2>1 DEF Folds
<1>5. Chooses(pick, n) /\ Greatests(pick, n)
  BY <1>4 DEF Chooses, Greatests
<1> HIDE DEF op, V, E, base
<1>6. \E f : f = Body(f)
  <2>1. PICK f \in [SUBSET (1..n) -> V] : FoldsBy(pick, V, base, op, n, lines, f)
    BY <1>3, <1>5, FoldExists
  <2>2. ASSUME NEW x \in SUBSET (1..n)
        PROVE  f[x] = IF x = {} THEN base ELSE Op(f[x \ {Max(x)}], lines[Max(x)])
    <3>1. CASE x # {}
      <4>1. f[x \ {Max(x)}] \in V
        BY <2>1
      <4> QED
        BY <1>2, <1>4, <2>1, <3>1, <4>1 DEF FoldsBy
    <3> QED
      BY <2>1, <3>1 DEF FoldsBy
  <2> QED
    BY <2>2
<1>7. g = Body(g)
  BY <1>6
<1>8. Bytes(lines) = g[1..n]
  BY DEF Bytes, FoldLeft, MapThenFoldSet, Op, base
<1> HIDE DEF g
<1>9. FoldsBy(pick, V, base, op, n, lines, g)
  <2>1. ASSUME NEW x \in SUBSET (1..n), x # {}, g[x \ {pick[x]}] \in V
        PROVE  g[x] = op[<<g[x \ {pick[x]}], lines[pick[x]]>>]
    <3>1. g[x] = Op(g[x \ {Max(x)}], lines[Max(x)])
      BY <1>7, <2>1
    <3> QED
      BY <1>2, <1>4, <2>1, <3>1
  <2>2. g[{}] = base
    BY <1>7
  <2> QED
    BY <2>1, <2>2 DEF FoldsBy
<1>10. PICK h : LeftSteps(V, base, op, n, lines, h) /\ h[n] = g[1..n]
  BY <1>3, <1>5, <1>9, FoldLeftSteps
<1>11. ASSUME NEW k \in 1..n PROVE h[k - 1] \in V /\ h[k] = Op(h[k - 1], lines[k])
  <2>1. lines[k] \in E
    BY <1>3 DEF Folds
  <2> QED
    BY <1>2, <1>10, <2>1 DEF LeftSteps
<1>12. BytesTrace(n, L, lines, h)
  BY <1>8, <1>10, <1>11 DEF V, base, Op, LeftSteps, BytesTrace
<1> QED
  BY <1>12

\* The first account of each tenant, account by account.
TenantsTrace(n, h) ==
  /\ h \in [0..n -> Seq(TenantOption)] /\ h[0] = <<>> /\ h[n] = listTenants
  /\ \A k \in 1..n :
       /\ h[k - 1] \in Seq(TenantOption)
       /\ h[k] = IF \/ Accounts[k].tenant = ""
                    \/ \E i \in DOMAIN h[k - 1] : h[k - 1][i].tenant = Accounts[k].tenant
                   THEN h[k - 1]
                   ELSE Append(h[k - 1], Option(Accounts[k].tenant, Accounts[k].id))

\* listTenants goes through such values.
LEMMA TenantsSteps ==
  ASSUME NEW n, Lists(Accounts, n, Account)
  PROVE  \E h : TenantsTrace(n, h)
<1> USE DEF Lists
<1> DEFINE V == Seq(TenantOption)
           E == Account
           base == <<>>
           Op(tenants, row) ==
             IF row.tenant = "" \/ \E i \in DOMAIN tenants : tenants[i].tenant = row.tenant
               THEN tenants ELSE Append(tenants, Option(row.tenant, row.id))
           op == [x \in V \X E |-> Op(x[1], x[2])]
           Body(f) == [x \in SUBSET (1..n) |->
                         IF x = {} THEN base ELSE Op(f[x \ {Max(x)}], Accounts[Max(x)])]
           g == CHOOSE f : f = Body(f)
           pick == [x \in SUBSET (1..n) |-> Max(x)]
<1>1. \A v \in V, e \in E : Op(v, e) \in V
  <2> SUFFICES ASSUME NEW v \in V, NEW e \in E PROVE Op(v, e) \in V
    OBVIOUS
  <2>1. Option(e.tenant, e.id) \in TenantOption
    BY DEF Account, TenantOption, Option
  <2>2. Append(v, Option(e.tenant, e.id)) \in V
    BY <2>1
  <2> QED
    BY <2>2
<1> HIDE DEF Op
<1>2. \A v \in V, e \in E : op[<<v, e>>] = Op(v, e)
  OBVIOUS
<1>3. Folds(V, E, base, op, n, Accounts)
  <2>1. base \in V
    OBVIOUS
  <2> HIDE DEF base, V
  <2> QED
    BY <1>1, <2>1 DEF Folds
<1>4. ASSUME NEW x \in SUBSET (1..n), x # {}
      PROVE  Max(x) \in x /\ Accounts[Max(x)] \in E /\ pick[x] = Max(x)
  <2>1. Max(x) \in x
    BY <1>4, GreatestIs
  <2> QED
    BY <1>3, <2>1 DEF Folds
<1>5. Chooses(pick, n) /\ Greatests(pick, n)
  BY <1>4 DEF Chooses, Greatests
<1> HIDE DEF op, V, E, base
<1>6. \E f : f = Body(f)
  <2>1. PICK f \in [SUBSET (1..n) -> V] : FoldsBy(pick, V, base, op, n, Accounts, f)
    BY <1>3, <1>5, FoldExists
  <2>2. ASSUME NEW x \in SUBSET (1..n)
        PROVE  f[x] = IF x = {} THEN base ELSE Op(f[x \ {Max(x)}], Accounts[Max(x)])
    <3>1. CASE x # {}
      <4>1. f[x \ {Max(x)}] \in V
        BY <2>1
      <4> QED
        BY <1>2, <1>4, <2>1, <3>1, <4>1 DEF FoldsBy
    <3> QED
      BY <2>1, <3>1 DEF FoldsBy
  <2> QED
    BY <2>2
<1>7. g = Body(g)
  BY <1>6
<1>8. listTenants = g[1..n]
  BY DEF listTenants, FoldLeft, MapThenFoldSet, Op, base
<1> HIDE DEF g
<1>9. FoldsBy(pick, V, base, op, n, Accounts, g)
  <2>1. ASSUME NEW x \in SUBSET (1..n), x # {}, g[x \ {pick[x]}] \in V
        PROVE  g[x] = op[<<g[x \ {pick[x]}], Accounts[pick[x]]>>]
    <3>1. g[x] = Op(g[x \ {Max(x)}], Accounts[Max(x)])
      BY <1>7, <2>1
    <3> QED
      BY <1>2, <1>4, <2>1, <3>1
  <2>2. g[{}] = base
    BY <1>7
  <2> QED
    BY <2>1, <2>2 DEF FoldsBy
<1>10. PICK h : LeftSteps(V, base, op, n, Accounts, h) /\ h[n] = g[1..n]
  BY <1>3, <1>5, <1>9, FoldLeftSteps
<1>11. ASSUME NEW k \in 1..n PROVE h[k - 1] \in V /\ h[k] = Op(h[k - 1], Accounts[k])
  <2>1. Accounts[k] \in E
    BY <1>3 DEF Folds
  <2> QED
    BY <1>2, <1>10, <2>1 DEF LeftSteps
<1>12. TenantsTrace(n, h)
  BY <1>8, <1>10, <1>11 DEF V, base, Op, LeftSteps, TenantsTrace
<1> QED
  BY <1>12

Marked(S) == [mark : {Blank, "-", "+"}, line : S]
Said(L) == {"", 0} \cup {line.value : line \in L}

\* What the lines scanned tell, line by line.
TelemetryTrace(n, L, lines, h) ==
  /\ h \in [0..n -> [session : Said(L), cost : Said(L)]] /\ h[0] = NoTelemetry
  /\ h[n] = FoldLeft(LAMBDA tel, line :
            CASE line.event = "init" /\ tel.session = "" -> [tel EXCEPT !.session = line.value]
              [] line.event = "result" -> [tel EXCEPT !.cost = line.value]
              [] OTHER -> tel,
          NoTelemetry, lines)
  /\ \A k \in 1..n :
       /\ h[k - 1] \in [session : Said(L), cost : Said(L)]
       /\ h[k] = CASE lines[k].event = "init" /\ h[k - 1].session = ""
                        -> [h[k - 1] EXCEPT !.session = lines[k].value]
                   [] lines[k].event = "result" -> [h[k - 1] EXCEPT !.cost = lines[k].value]
                   [] OTHER -> h[k - 1]

\* The telemetry goes through such values.
LEMMA TelemetrySteps ==
  ASSUME NEW n, NEW L, NEW lines, Lists(lines, n, L)
  PROVE  \E h : TelemetryTrace(n, L, lines, h)
<1> USE DEF Lists
<1> DEFINE V == [session : Said(L), cost : Said(L)]
           E == L
           base == NoTelemetry
           Op(tel, line) ==
             CASE line.event = "init" /\ tel.session = "" -> [tel EXCEPT !.session = line.value]
               [] line.event = "result" -> [tel EXCEPT !.cost = line.value]
               [] OTHER -> tel
           op == [x \in V \X E |-> Op(x[1], x[2])]
           Body(f) == [x \in SUBSET (1..n) |->
                         IF x = {} THEN base ELSE Op(f[x \ {Max(x)}], lines[Max(x)])]
           g == CHOOSE f : f = Body(f)
           pick == [x \in SUBSET (1..n) |-> Max(x)]
<1>1. \A v \in V, e \in E : Op(v, e) \in V
  BY DEF Said
<1> HIDE DEF Op
<1>2. \A v \in V, e \in E : op[<<v, e>>] = Op(v, e)
  OBVIOUS
<1>3. Folds(V, E, base, op, n, lines)
  <2>1. base \in V
    BY DEF NoTelemetry, Said
  <2> HIDE DEF base, V
  <2> QED
    BY <1>1, <2>1 DEF Folds
<1>4. ASSUME NEW x \in SUBSET (1..n), x # {}
      PROVE  Max(x) \in x /\ lines[Max(x)] \in E /\ pick[x] = Max(x)
  <2>1. Max(x) \in x
    BY <1>4, GreatestIs
  <2> QED
    BY <1>3, <2>1 DEF Folds
<1>5. Chooses(pick, n) /\ Greatests(pick, n)
  BY <1>4 DEF Chooses, Greatests
<1> HIDE DEF op, V, E, base
<1>6. \E f : f = Body(f)
  <2>1. PICK f \in [SUBSET (1..n) -> V] : FoldsBy(pick, V, base, op, n, lines, f)
    BY <1>3, <1>5, FoldExists
  <2>2. ASSUME NEW x \in SUBSET (1..n)
        PROVE  f[x] = IF x = {} THEN base ELSE Op(f[x \ {Max(x)}], lines[Max(x)])
    <3>1. CASE x # {}
      <4>1. f[x \ {Max(x)}] \in V
        BY <2>1
      <4> QED
        BY <1>2, <1>4, <2>1, <3>1, <4>1 DEF FoldsBy
    <3> QED
      BY <2>1, <3>1 DEF FoldsBy
  <2> QED
    BY <2>2
<1>7. g = Body(g)
  BY <1>6
<1>8. FoldLeft(LAMBDA tel, line :
          CASE line.event = "init" /\ tel.session = "" -> [tel EXCEPT !.session = line.value]
            [] line.event = "result" -> [tel EXCEPT !.cost = line.value]
            [] OTHER -> tel,
        NoTelemetry, lines) = g[1..n]
  BY DEF FoldLeft, MapThenFoldSet, Op, base
<1> HIDE DEF g
<1>9. FoldsBy(pick, V, base, op, n, lines, g)
  <2>1. ASSUME NEW x \in SUBSET (1..n), x # {}, g[x \ {pick[x]}] \in V
        PROVE  g[x] = op[<<g[x \ {pick[x]}], lines[pick[x]]>>]
    <3>1. g[x] = Op(g[x \ {Max(x)}], lines[Max(x)])
      BY <1>7, <2>1
    <3> QED
      BY <1>2, <1>4, <2>1, <3>1
  <2>2. g[{}] = base
    BY <1>7
  <2> QED
    BY <2>1, <2>2 DEF FoldsBy
<1>10. PICK h : LeftSteps(V, base, op, n, lines, h) /\ h[n] = g[1..n]
  BY <1>3, <1>5, <1>9, FoldLeftSteps
<1>11. ASSUME NEW k \in 1..n PROVE h[k - 1] \in V /\ h[k] = Op(h[k - 1], lines[k])
  <2>1. lines[k] \in E
    BY <1>3 DEF Folds
  <2> QED
    BY <1>2, <1>10, <2>1 DEF LeftSteps
<1>12. TelemetryTrace(n, L, lines, h)
  BY <1>8, <1>10, <1>11 DEF V, base, Op, LeftSteps, TelemetryTrace
<1> QED
  BY <1>12

Lines(text) ==
  FoldLeft(LAMBDA lines, ch : IF ch = Newline THEN Append(lines, <<>>)
                              ELSE Append(Front(lines), Append(Last(lines), ch)),
           <<<<>>>>, text)

\* The segments of a string, token by token.
SegmentsTrace(S, n, s, h) ==
  /\ h \in [0..n -> Seq(Seq(S)) \ {<<>>}] /\ h[0] = <<<<>>>> /\ h[n] = Segments(s)
  /\ \A k \in 1..n :
       /\ h[k - 1] \in Seq(Seq(S)) \ {<<>>}
       /\ h[k] = Splits(h[k - 1], s[k])

\* Segments goes through such values.
LEMMA SegmentsSteps ==
  ASSUME NEW S, NEW n, NEW s, Lists(s, n, S)
  PROVE  \E h : SegmentsTrace(S, n, s, h)
<1> USE DEF Lists
<1> DEFINE V == Seq(Seq(S)) \ {<<>>}
           E == S
           base == <<<<>>>>
           Op(done, t) == Splits(done, t)
           op == [x \in V \X E |-> Op(x[1], x[2])]
           Body(f) == [x \in SUBSET (1..n) |->
                         IF x = {} THEN base ELSE Op(f[x \ {Max(x)}], s[Max(x)])]
           g == CHOOSE f : f = Body(f)
           pick == [x \in SUBSET (1..n) |-> Max(x)]
<1>1. \A v \in V, e \in E : Op(v, e) \in V
  <2> SUFFICES ASSUME NEW d \in V, NEW t \in S PROVE Op(d, t) \in V
    OBVIOUS
  <2>1. /\ Append(d, <<>>) \in V /\ Front(d) \in Seq(Seq(S)) /\ Last(d) \in Seq(S)
    <3>1. Front(d) \in Seq(Seq(S)) /\ Last(d) \in Seq(S)
      BY FrontIs
    <3>2. Append(d, <<>>) # <<>> /\ Append(d, <<>>) \in Seq(Seq(S))
      BY EmptySeq, AppendProperties
    <3> QED
      BY <3>1, <3>2
  <2>2. Append(Last(d), t) \in Seq(S)
    <3>1. Last(d) \in Seq(S)
      BY <2>1
    <3> QED
      BY <3>1, AppendProperties
  <2>3. Append(Front(d), Append(Last(d), t)) \in V
    <3> DEFINE T == Seq(S)
           front == Front(d)
           last == Append(Last(d), t)
    <3>1. front \in Seq(T) /\ last \in T
      BY <2>1, <2>2
    <3> HIDE DEF T, front, last
    <3>2. Append(front, last) \in Seq(T) \ {<<>>}
      BY <3>1, AppendProperties
    <3> QED
      BY <3>2 DEF T, front, last
  <2> QED
    BY <2>1, <2>3 DEF Splits
<1> HIDE DEF Op
<1>2. \A v \in V, e \in E : op[<<v, e>>] = Op(v, e)
  OBVIOUS
<1>3. Folds(V, E, base, op, n, s)
  <2>1. base \in V
    OBVIOUS
  <2> HIDE DEF base, V
  <2> QED
    BY <1>1, <2>1 DEF Folds
<1>4. ASSUME NEW x \in SUBSET (1..n), x # {}
      PROVE  Max(x) \in x /\ s[Max(x)] \in E /\ pick[x] = Max(x)
  <2>1. Max(x) \in x
    BY <1>4, GreatestIs
  <2> QED
    BY <1>3, <2>1 DEF Folds
<1>5. Chooses(pick, n) /\ Greatests(pick, n)
  BY <1>4 DEF Chooses, Greatests
<1> HIDE DEF op, V, E, base
<1>6. \E f : f = Body(f)
  <2>1. PICK f \in [SUBSET (1..n) -> V] : FoldsBy(pick, V, base, op, n, s, f)
    BY <1>3, <1>5, FoldExists
  <2>2. ASSUME NEW x \in SUBSET (1..n)
        PROVE  f[x] = IF x = {} THEN base ELSE Op(f[x \ {Max(x)}], s[Max(x)])
    <3>1. CASE x # {}
      <4>1. f[x \ {Max(x)}] \in V
        BY <2>1
      <4> QED
        BY <1>2, <1>4, <2>1, <3>1, <4>1 DEF FoldsBy
    <3> QED
      BY <2>1, <3>1 DEF FoldsBy
  <2> QED
    BY <2>2
<1>7. g = Body(g)
  BY <1>6
<1>8. Segments(s) = g[1..n]
  BY DEF Segments, FoldLeft, MapThenFoldSet, Op, base
<1> HIDE DEF g
<1>9. FoldsBy(pick, V, base, op, n, s, g)
  <2>1. ASSUME NEW x \in SUBSET (1..n), x # {}, g[x \ {pick[x]}] \in V
        PROVE  g[x] = op[<<g[x \ {pick[x]}], s[pick[x]]>>]
    <3>1. g[x] = Op(g[x \ {Max(x)}], s[Max(x)])
      BY <1>7, <2>1
    <3> QED
      BY <1>2, <1>4, <2>1, <3>1
  <2>2. g[{}] = base
    BY <1>7
  <2> QED
    BY <2>1, <2>2 DEF FoldsBy
<1>10. PICK h : LeftSteps(V, base, op, n, s, h) /\ h[n] = g[1..n]
  BY <1>3, <1>5, <1>9, FoldLeftSteps
<1>11. ASSUME NEW k \in 1..n PROVE h[k - 1] \in V /\ h[k] = Op(h[k - 1], s[k])
  <2>1. s[k] \in E
    BY <1>3 DEF Folds
  <2> QED
    BY <1>2, <1>10, <2>1 DEF LeftSteps
<1>12. SegmentsTrace(S, n, s, h)
  BY <1>8, <1>10, <1>11 DEF V, base, Op, LeftSteps, SegmentsTrace
<1> QED
  BY <1>12

\* The lines of a text, character by character.
LinesTrace(S, n, text, h) ==
  /\ h \in [0..n -> Seq(Seq(S)) \ {<<>>}] /\ h[0] = <<<<>>>> /\ h[n] = Lines(text)
  /\ \A k \in 1..n :
       /\ h[k - 1] \in Seq(Seq(S)) \ {<<>>}
       /\ h[k] = IF text[k] = Newline THEN Append(h[k - 1], <<>>)
                 ELSE Append(Front(h[k - 1]), Append(Last(h[k - 1]), text[k]))

\* splitConfigLines goes through such values.
LEMMA LinesSteps ==
  ASSUME NEW S, NEW n, NEW text, Lists(text, n, S)
  PROVE  \E h : LinesTrace(S, n, text, h)
<1> USE DEF Lists
<1> DEFINE V == Seq(Seq(S)) \ {<<>>}
           E == S
           base == <<<<>>>>
           Op(lines, ch) ==
             IF ch = Newline THEN Append(lines, <<>>)
             ELSE Append(Front(lines), Append(Last(lines), ch))
           op == [x \in V \X E |-> Op(x[1], x[2])]
           Body(f) == [x \in SUBSET (1..n) |->
                         IF x = {} THEN base ELSE Op(f[x \ {Max(x)}], text[Max(x)])]
           g == CHOOSE f : f = Body(f)
           pick == [x \in SUBSET (1..n) |-> Max(x)]
<1>1. \A v \in V, e \in E : Op(v, e) \in V
  <2> SUFFICES ASSUME NEW d \in V, NEW t \in S PROVE Op(d, t) \in V
    OBVIOUS
  <2>1. /\ Append(d, <<>>) \in V /\ Front(d) \in Seq(Seq(S)) /\ Last(d) \in Seq(S)
    <3>1. Front(d) \in Seq(Seq(S)) /\ Last(d) \in Seq(S)
      BY FrontIs
    <3>2. Append(d, <<>>) # <<>> /\ Append(d, <<>>) \in Seq(Seq(S))
      BY EmptySeq, AppendProperties
    <3> QED
      BY <3>1, <3>2
  <2>2. Append(Last(d), t) \in Seq(S)
    <3>1. Last(d) \in Seq(S)
      BY <2>1
    <3> QED
      BY <3>1, AppendProperties
  <2>3. Append(Front(d), Append(Last(d), t)) \in V
    <3> DEFINE T == Seq(S)
           front == Front(d)
           last == Append(Last(d), t)
    <3>1. front \in Seq(T) /\ last \in T
      BY <2>1, <2>2
    <3> HIDE DEF T, front, last
    <3>2. Append(front, last) \in Seq(T) \ {<<>>}
      BY <3>1, AppendProperties
    <3> QED
      BY <3>2 DEF T, front, last
  <2> QED
    BY <2>1, <2>3
<1> HIDE DEF Op
<1>2. \A v \in V, e \in E : op[<<v, e>>] = Op(v, e)
  OBVIOUS
<1>3. Folds(V, E, base, op, n, text)
  <2>1. base \in V
    OBVIOUS
  <2> HIDE DEF base, V
  <2> QED
    BY <1>1, <2>1 DEF Folds
<1>4. ASSUME NEW x \in SUBSET (1..n), x # {}
      PROVE  Max(x) \in x /\ text[Max(x)] \in E /\ pick[x] = Max(x)
  <2>1. Max(x) \in x
    BY <1>4, GreatestIs
  <2> QED
    BY <1>3, <2>1 DEF Folds
<1>5. Chooses(pick, n) /\ Greatests(pick, n)
  BY <1>4 DEF Chooses, Greatests
<1> HIDE DEF op, V, E, base
<1>6. \E f : f = Body(f)
  <2>1. PICK f \in [SUBSET (1..n) -> V] : FoldsBy(pick, V, base, op, n, text, f)
    BY <1>3, <1>5, FoldExists
  <2>2. ASSUME NEW x \in SUBSET (1..n)
        PROVE  f[x] = IF x = {} THEN base ELSE Op(f[x \ {Max(x)}], text[Max(x)])
    <3>1. CASE x # {}
      <4>1. f[x \ {Max(x)}] \in V
        BY <2>1
      <4> QED
        BY <1>2, <1>4, <2>1, <3>1, <4>1 DEF FoldsBy
    <3> QED
      BY <2>1, <3>1 DEF FoldsBy
  <2> QED
    BY <2>2
<1>7. g = Body(g)
  BY <1>6
<1>8. Lines(text) = g[1..n]
  BY DEF Lines, FoldLeft, MapThenFoldSet, Op, base
<1> HIDE DEF g
<1>9. FoldsBy(pick, V, base, op, n, text, g)
  <2>1. ASSUME NEW x \in SUBSET (1..n), x # {}, g[x \ {pick[x]}] \in V
        PROVE  g[x] = op[<<g[x \ {pick[x]}], text[pick[x]]>>]
    <3>1. g[x] = Op(g[x \ {Max(x)}], text[Max(x)])
      BY <1>7, <2>1
    <3> QED
      BY <1>2, <1>4, <2>1, <3>1
  <2>2. g[{}] = base
    BY <1>7
  <2> QED
    BY <2>1, <2>2 DEF FoldsBy
<1>10. PICK h : LeftSteps(V, base, op, n, text, h) /\ h[n] = g[1..n]
  BY <1>3, <1>5, <1>9, FoldLeftSteps
<1>11. ASSUME NEW k \in 1..n PROVE h[k - 1] \in V /\ h[k] = Op(h[k - 1], text[k])
  <2>1. text[k] \in E
    BY <1>3 DEF Folds
  <2> QED
    BY <1>2, <1>10, <2>1 DEF LeftSteps
<1>12. LinesTrace(S, n, text, h)
  BY <1>8, <1>10, <1>11 DEF V, base, Op, LeftSteps, LinesTrace
<1> QED
  BY <1>12

\* One side of a diff, row by row from the last.
SideTrace(S, n, rows, other, h) ==
  /\ h \in [1..(n + 1) -> Seq(S)] /\ h[n + 1] = <<>> /\ h[1] = Side(rows, other)
  /\ \A k \in 1..n :
       /\ h[k + 1] \in Seq(S)
       /\ h[k] = IF rows[k].mark # other THEN <<rows[k].line>> \o h[k + 1] ELSE h[k + 1]

\* Side goes through such values.
LEMMA SideSteps ==
  ASSUME NEW S, NEW n, NEW rows, Lists(rows, n, Marked(S)), NEW other
  PROVE  \E h : SideTrace(S, n, rows, other, h)
<1> USE DEF Lists
<1> DEFINE V == Seq(S)
           E == Marked(S)
           base == <<>>
           Op(lines, row) == IF row.mark # other THEN <<row.line>> \o lines ELSE lines
           op == [x \in V \X E |-> Op(x[1], x[2])]
           Body(f) == [x \in SUBSET (1..n) |->
                         IF x = {} THEN base ELSE Op(f[x \ {Min(x)}], rows[Min(x)])]
           g == CHOOSE f : f = Body(f)
           pick == [x \in SUBSET (1..n) |-> Min(x)]
<1>1. \A v \in V, e \in E : Op(v, e) \in V
  <2> SUFFICES ASSUME NEW lines \in V, NEW row \in E PROVE Op(lines, row) \in V
    OBVIOUS
  <2>1. <<row.line>> \in Seq(S)
    <3>1. row.line \in S
      BY DEF Marked
    <3> QED
      BY <3>1
  <2>2. <<row.line>> \o lines \in V
    BY <2>1, ConcatProperties
  <2> QED
    BY <2>2
<1> HIDE DEF Op
<1>2. \A v \in V, e \in E : op[<<v, e>>] = Op(v, e)
  OBVIOUS
<1>3. Folds(V, E, base, op, n, rows)
  <2>1. base \in V
    OBVIOUS
  <2> HIDE DEF base, V
  <2> QED
    BY <1>1, <2>1 DEF Folds
<1>4. ASSUME NEW x \in SUBSET (1..n), x # {}
      PROVE  Min(x) \in x /\ rows[Min(x)] \in E /\ pick[x] = Min(x)
  <2>1. Min(x) \in x
    BY <1>4, LeastOfPlaces
  <2> QED
    BY <1>3, <2>1 DEF Folds
<1>5. Chooses(pick, n) /\ Leasts(pick, n)
  BY <1>4 DEF Chooses, Leasts
<1> HIDE DEF op, V, E, base
<1>6. \E f : f = Body(f)
  <2>1. PICK f \in [SUBSET (1..n) -> V] : FoldsBy(pick, V, base, op, n, rows, f)
    BY <1>3, <1>5, FoldExists
  <2>2. ASSUME NEW x \in SUBSET (1..n)
        PROVE  f[x] = IF x = {} THEN base ELSE Op(f[x \ {Min(x)}], rows[Min(x)])
    <3>1. CASE x # {}
      <4>1. f[x \ {Min(x)}] \in V
        BY <2>1
      <4> QED
        BY <1>2, <1>4, <2>1, <3>1, <4>1 DEF FoldsBy
    <3> QED
      BY <2>1, <3>1 DEF FoldsBy
  <2> QED
    BY <2>2
<1>7. g = Body(g)
  BY <1>6
<1>8. Side(rows, other) = g[1..n]
  BY DEF Side, FoldRight, MapThenFoldSet, Op, base
<1> HIDE DEF g
<1>9. FoldsBy(pick, V, base, op, n, rows, g)
  <2>1. ASSUME NEW x \in SUBSET (1..n), x # {}, g[x \ {pick[x]}] \in V
        PROVE  g[x] = op[<<g[x \ {pick[x]}], rows[pick[x]]>>]
    <3>1. g[x] = Op(g[x \ {Min(x)}], rows[Min(x)])
      BY <1>7, <2>1
    <3> QED
      BY <1>2, <1>4, <2>1, <3>1
  <2>2. g[{}] = base
    BY <1>7
  <2> QED
    BY <2>1, <2>2 DEF FoldsBy
<1>10. PICK h : RightSteps(V, base, op, n, rows, h) /\ h[1] = g[1..n]
  BY <1>3, <1>5, <1>9, FoldRightSteps
<1>11. ASSUME NEW k \in 1..n PROVE h[k + 1] \in V /\ h[k] = Op(h[k + 1], rows[k])
  <2>1. rows[k] \in E
    BY <1>3 DEF Folds
  <2> QED
    BY <1>2, <1>10, <2>1 DEF RightSteps
<1>12. SideTrace(S, n, rows, other, h)
  BY <1>8, <1>10, <1>11 DEF V, base, Op, RightSteps, SideTrace
<1> QED
  BY <1>12

(***************************************************************************)
(* The pull request asked for.                                             *)
(***************************************************************************)

\* The answer to a query lists the active pull requests of the branch.
LEMMA ListedAre ==
  ASSUME NEW prs \in Seq(PR), NEW branch
  PROVE  /\ Listed(prs, branch) \in Seq(PR)
         /\ ToSet(Listed(prs, branch)) = {p \in ToSet(prs) : p.active /\ p.branch = branch}
<1>1. PICK n \in Nat : prs \in [1..n -> PR] /\ n = Len(prs)
  OBVIOUS
<1> DEFINE wanted(p) == p.active /\ p.branch = branch
<1>2. PICK h : ListedTrace(n, prs, branch, h)
  BY <1>1, ListedSteps DEF Lists
<1>3. ASSUME NEW k \in 1..n
      PROVE  /\ h[k - 1] \in Seq(PR)
             /\ wanted(prs[k]) => h[k] = Append(h[k - 1], prs[k])
             /\ ~wanted(prs[k]) => h[k] = h[k - 1]
  BY <1>2 DEF ListedTrace
<1>4. h[0] = <<>> /\ h[n] = Listed(prs, branch) /\ Listed(prs, branch) \in Seq(PR)
  BY <1>1, <1>2 DEF ListedTrace
<1> DEFINE P == {k \in 0..n : \A p : p \in ToSet(h[k]) <=> \E i \in 1..k : p = prs[i] /\ wanted(p)}
<1>5. 0 \in P
  BY <1>4 DEF ToSet
<1>6. ASSUME NEW k \in 1..n, k - 1 \in P PROVE k \in P
  <2>1. h[k - 1] \in Seq(PR) /\ prs[k] \in PR
    BY <1>1, <1>3
  <2>2. \A p : p \in ToSet(Append(h[k - 1], prs[k])) <=> p \in ToSet(h[k - 1]) \/ p = prs[k]
    BY <2>1, AppendedTo
  <2>3. \A p : p \in ToSet(h[k]) <=> p \in ToSet(h[k - 1]) \/ (p = prs[k] /\ wanted(p))
    BY <1>3, <2>2
  <2>4. \A p : p \in ToSet(h[k - 1]) <=> \E i \in 1..(k - 1) : p = prs[i] /\ wanted(p)
    BY <1>6
  <2>5. \A i : i \in 1..k <=> i \in 1..(k - 1) \/ i = k
    OBVIOUS
  <2> HIDE DEF wanted
  <2>6. \A p : p \in ToSet(h[k]) <=> \E i \in 1..k : p = prs[i] /\ wanted(p)
    BY <2>3, <2>4, <2>5
  <2> QED
    BY <2>6
<1> HIDE DEF P
<1>7. 0..n \subseteq P
  BY <1>5, <1>6, UpFrom
<1>8. n \in P
  BY <1>1, <1>7
<1>9. \A p : p \in ToSet(Listed(prs, branch)) <=> \E i \in 1..n : p = prs[i] /\ wanted(p)
  BY <1>4, <1>8 DEF P
<1>10. \A p : p \in ToSet(prs) <=> \E i \in 1..n : p = prs[i]
  BY <1>1 DEF ToSet
<1> HIDE DEF wanted
<1>11. ToSet(Listed(prs, branch)) = {p \in ToSet(prs) : wanted(p)}
  BY <1>9, <1>10
<1> QED
  BY <1>4, <1>11 DEF wanted

\* The greatest id of the answer, and one that has it.
LEMMA NewestIs ==
  ASSUME NEW value \in Seq(PR), value # <<>>
  PROVE  \E newest \in ToSet(value) :
           /\ \A q \in ToSet(value) : q.id <= newest.id
           /\ newest = FoldLeft(LAMBDA pr, candidate : IF candidate.id > pr.id THEN candidate ELSE pr,
                               value[1], Tail(value))
<1>1. PICK n \in Nat : n = Len(value) - 1 /\ value \in [1..(n + 1) -> PR]
  BY EmptySeq, LenProperties
<1>2. /\ Tail(value) \in [1..n -> PR] /\ value[1] \in PR
      /\ \A i \in 1..n : Tail(value)[i] = value[i + 1]
  <2>1. /\ Tail(value) \in Seq(PR) /\ Len(Tail(value)) = n
        /\ \A i \in 1..n : Tail(value)[i] = value[i + 1]
    BY <1>1, HeadTailProperties
  <2> DEFINE t == Tail(value)
  <2>2. t \in Seq(PR) /\ Len(t) = n
    BY <2>1
  <2> HIDE DEF t
  <2>3. t \in [1..n -> PR]
    BY <2>2
  <2> QED
    BY <1>1, <2>1, <2>3 DEF t
<1> DEFINE rest == Tail(value)
           first == value[1]
<1>3. PICK h : NewestTrace(n, rest, first, h)
  BY <1>1, <1>2, NewestSteps DEF Lists
<1>4. ASSUME NEW k \in 1..n
      PROVE  /\ h[k - 1] \in PR /\ rest[k] = value[k + 1] /\ rest[k] \in PR
             /\ rest[k].id > h[k - 1].id => h[k] = rest[k]
             /\ ~(rest[k].id > h[k - 1].id) => h[k] = h[k - 1]
  BY <1>2, <1>3 DEF NewestTrace
<1> DEFINE last == FoldLeft(LAMBDA pr, candidate : IF candidate.id > pr.id THEN candidate ELSE pr,
                            first, rest)
           P == {k \in 0..n : /\ h[k] \in PR /\ \E i \in 1..(k + 1) : h[k] = value[i]
                              /\ \A i \in 1..(k + 1) : value[i].id <= h[k].id}
<1>5. h[0] = first /\ h[n] = last
  BY <1>3 DEF NewestTrace
<1> HIDE DEF last, rest
<1>6. 0 \in P
  <2>1. first.id \in Nat
    BY <1>2 DEF PR
  <2>2. \A i \in 1..(0 + 1) : i = 1
    OBVIOUS
  <2>3. 1 \in 1..(0 + 1) /\ 0 \in 0..n
    OBVIOUS
  <2> QED
    BY <1>2, <1>5, <2>1, <2>2, <2>3
<1>7. ASSUME NEW k \in 1..n, k - 1 \in P PROVE k \in P
  <2>1. /\ h[k - 1] \in PR /\ \E i \in 1..k : h[k - 1] = value[i]
        /\ \A i \in 1..k : value[i].id <= h[k - 1].id
    <3>1. (k - 1) + 1 = k
      OBVIOUS
    <3> QED
      BY <1>7, <3>1
  <2>2. \A i : i \in 1..(k + 1) <=> i \in 1..k \/ i = k + 1
    OBVIOUS
  <2>3. \A i \in 1..(k + 1) : value[i].id \in Nat
    BY <1>1 DEF PR
  <2>4. h[k - 1].id \in Nat /\ rest[k].id \in Nat /\ rest[k] = value[k + 1] /\ rest[k] \in PR
    BY <1>4, <2>1 DEF PR
  <2>5. CASE rest[k].id > h[k - 1].id
    <3>1. h[k] = rest[k]
      BY <1>4, <2>5
    <3>2. \A i \in 1..(k + 1) : value[i].id <= h[k].id
      BY <2>1, <2>2, <2>3, <2>4, <2>5, <3>1
    <3> QED
      BY SMTT(40), <2>2, <2>4, <3>1, <3>2
  <2>6. CASE ~(rest[k].id > h[k - 1].id)
    <3>1. h[k] = h[k - 1]
      BY <1>4, <2>6
    <3>2. \A i \in 1..(k + 1) : value[i].id <= h[k].id
      BY <2>1, <2>2, <2>3, <2>4, <2>6, <3>1
    <3> QED
      BY <2>1, <2>2, <3>1, <3>2
  <2> QED
    BY <2>5, <2>6
<1> HIDE DEF P
<1>8. 0..n \subseteq P
  BY <1>6, <1>7, UpFrom
<1>9. /\ \E i \in 1..(n + 1) : last = value[i]
      /\ \A i \in 1..(n + 1) : value[i].id <= last.id
  <2>1. n \in P
    BY <1>8
  <2> QED
    BY <1>5, <2>1 DEF P
<1>10. DOMAIN value = 1..(n + 1)
  BY <1>1
<1>11. last \in ToSet(value) /\ \A q \in ToSet(value) : q.id <= last.id
  BY <1>9, <1>10 DEF ToSet
<1> QED
  BY <1>11 DEF last, rest

\* A sequence with one more somewhere in it.
LEMMA InsertedAt ==
  ASSUME NEW T, NEW s \in Seq(T), NEW at \in 1..(Len(s) + 1), NEW e \in T
  PROVE  /\ InsertAt(s, at, e) \in Seq(T)
         /\ \A x : x \in ToSet(InsertAt(s, at, e)) <=> x \in ToSet(s) \/ x = e
<1>1. PICK n \in Nat : n = Len(s) /\ DOMAIN s = 1..n /\ s \in [1..n -> T]
  OBVIOUS
<1> DEFINE before == SubSeq(s, 1, at - 1)
           after == SubSeq(s, at, n)
           most == before \o <<e>>
<1>2. /\ before \in Seq(T) /\ Len(before) = at - 1
      /\ \A i \in 1..(at - 1) : before[i] = s[i]
  <2>1. 1 \in Int /\ at - 1 \in Int /\ \A i \in 1..(at - 1) : s[i] \in T
    BY <1>1
  <2>2. /\ before \in Seq(T) /\ Len(before) = IF 1 <= at - 1 THEN (at - 1) - 1 + 1 ELSE 0
        /\ \A i \in 1..((at - 1) - 1 + 1) : before[i] = s[1 + i - 1]
    BY <2>1, SubSeqProperties
  <2> HIDE DEF before
  <2> QED
    BY <2>2, <1>1
<1>3. /\ after \in Seq(T) /\ Len(after) = n - at + 1
      /\ \A i \in 1..(n - at + 1) : after[i] = s[at + i - 1]
  <2>1. n \in Int /\ at \in Int /\ \A i \in at..n : s[i] \in T
    BY <1>1
  <2>2. /\ after \in Seq(T) /\ Len(after) = IF at <= n THEN n - at + 1 ELSE 0
        /\ \A i \in 1..(n - at + 1) : after[i] = s[at + i - 1]
    BY <2>1, SubSeqProperties
  <2> HIDE DEF after
  <2> QED
    BY <2>2, <1>1
<1>4. InsertAt(s, at, e) = most \o after
  BY <1>1 DEF InsertAt
<1>5. <<e>> \in Seq(T) /\ Len(<<e>>) = 1 /\ <<e>>[1] = e
  OBVIOUS
<1> DEFINE one == <<e>>
<1> HIDE DEF before, after
<1>6. /\ most \in Seq(T) /\ Len(most) = at
      /\ \A i \in 1..(at - 1) : most[i] = s[i]
      /\ most[at] = e
  <2> DEFINE k == at - 1
  <2>1. /\ one \in Seq(T) /\ Len(one) = 1 /\ one[1] = e /\ most = before \o one
        /\ Len(before) = k /\ k + 1 = at /\ k \in Nat
    BY <1>2, <1>5
  <2> HIDE DEF one, most, k
  <2>2. /\ before \o one \in Seq(T) /\ Len(before \o one) = Len(before) + Len(one)
        /\ \A i \in 1..Len(before) : (before \o one)[i] = before[i]
        /\ \A i \in 1..Len(one) : (before \o one)[Len(before) + i] = one[i]
    <3>1. Joins(T, before, one, before \o one)
      BY <1>2, <2>1, JoinedIs
    <3> QED
      BY <3>1 DEF Joins
  <2>3. most \in Seq(T) /\ Len(most) = k + 1
    BY <2>1, <2>2
  <2>4. \A i \in 1..k : most[i] = s[i]
    BY <1>2, <2>1, <2>2 DEF k
  <2>5. most[k + 1] = e
    BY <2>1, <2>2
  <2> QED
    BY <2>1, <2>3, <2>4, <2>5 DEF k
<1> HIDE DEF most
<1> DEFINE all == most \o after
<1>7. /\ all \in Seq(T) /\ Len(all) = n + 1
      /\ \A i \in 1..(at - 1) : all[i] = s[i]
      /\ all[at] = e
      /\ \A i \in at..n : all[i + 1] = s[i]
  <2>1. /\ all \in Seq(T) /\ Len(all) = Len(most) + Len(after)
        /\ \A i \in 1..Len(most) : all[i] = most[i]
        /\ \A i \in 1..Len(after) : all[Len(most) + i] = after[i]
    <3>1. Joins(T, most, after, all)
      BY <1>3, <1>6, JoinedIs
    <3> HIDE DEF all
    <3> QED
      BY <3>1 DEF Joins
  <2> HIDE DEF all
  <2>2. \A i \in 1..at : all[i] = most[i]
    BY <1>6, <2>1
  <2>3. \A i \in 1..(n - at + 1) : all[at + i] = s[at + i - 1]
    BY <1>1, <1>3, <1>6, <2>1
  <2>4. ASSUME NEW i \in at..n PROVE all[i + 1] = s[i]
    <3>1. i - at + 1 \in 1..(n - at + 1) /\ at + (i - at + 1) = i + 1 /\ at + (i - at + 1) - 1 = i
      BY <1>1
    <3> QED
      BY <2>3, <3>1
  <2> QED
    BY <1>1, <1>3, <1>6, <2>1, <2>2, <2>4
<1> HIDE DEF all
<1>8. DOMAIN all = 1..(n + 1)
  BY <1>7
<1>9. ASSUME NEW x, x \in ToSet(all) PROVE x \in ToSet(s) \/ x = e
  <2>1. PICK i \in 1..(n + 1) : x = all[i]
    BY <1>8, <1>9 DEF ToSet
  <2>2. CASE i < at
    BY <1>1, <1>7, <2>1, <2>2 DEF ToSet
  <2>3. CASE i > at
    <3>1. i - 1 \in at..n /\ i - 1 \in 1..n /\ (i - 1) + 1 = i
      BY <1>1, <2>3
    <3>2. all[i] = s[i - 1]
      BY <1>7, <3>1
    <3> QED
      BY <1>1, <2>1, <3>1, <3>2 DEF ToSet
  <2>4. CASE i = at
    BY <1>7, <2>1, <2>4
  <2> QED
    BY <1>1, <2>2, <2>3, <2>4
<1>10. e \in ToSet(all)
  BY <1>1, <1>7, <1>8 DEF ToSet
<1>11. ASSUME NEW x, x \in ToSet(s) PROVE x \in ToSet(all)
  <2>1. PICK i \in 1..n : x = s[i]
    BY <1>1, <1>11 DEF ToSet
  <2>2. CASE i < at
    BY <1>1, <1>7, <1>8, <2>1, <2>2 DEF ToSet
  <2>3. CASE i >= at
    <3>1. i \in at..n /\ i + 1 \in 1..(n + 1)
      BY <1>1, <2>3
    <3> QED
      BY <1>7, <1>8, <2>1, <3>1 DEF ToSet
  <2> QED
    BY <1>1, <2>2, <2>3
<1> QED
  BY <1>4, <1>7, <1>9, <1>10, <1>11 DEF all

ForgeAnswer(r) ==
  LET created == CreatePR(r.prs, r.at, Branch, r.base, Creators[1], r.creates)
  IN  [created |-> ~created.err, prs |-> created.prs,
       found |-> FindPR(created.prs, Branch, r.finds)]

\* The pull requests there are once the run has opened its own, or has failed to.
Opens(r, prs) ==
  \E new \in PR :
    /\ new.draft /\ new.active /\ new.branch = Branch /\ new.base = r.base
    /\ new.createdBy = Creators[1] /\ new.id = Len(r.prs) + 1
    /\ \A p : p \in ToSet(prs) <=> p \in ToSet(r.prs) \/ p = new

\* CreatePR adds a draft of the adapter, or finds one of the branch and the base open.
LEMMA CreatedIs ==
  ASSUME NEW r \in ForgeRequests
  PROVE  /\ ForgeAnswer(r).prs \in Seq(PR)
         /\ \A p \in ToSet(r.prs) : p.id \in Nat /\ p.id <= Len(r.prs)
         /\ ForgeAnswer(r).created => Opens(r, ForgeAnswer(r).prs)
         /\ ForgeAnswer(r).found = FindPR(ForgeAnswer(r).prs, Branch, r.finds)
<1> DEFINE created == CreatePR(r.prs, r.at, Branch, r.base, Creators[1], r.creates)
           new == [id |-> Len(r.prs) + 1, branch |-> Branch, base |-> r.base,
                   createdBy |-> Creators[1], active |-> TRUE, draft |-> TRUE]
           old == r.prs
<1>1. /\ r.prs \in PullRequests /\ r.at \in 1..3 /\ r.at <= Len(r.prs) + 1
      /\ r.base \in {"main", "other"}
  BY DEF ForgeRequests
<1>2. /\ old \in Seq(PR) /\ \A i \in DOMAIN old : old[i].id <= Len(old)
  <2>1. /\ old \in Seq([id : Nat, branch : STRING, base : STRING, createdBy : STRING,
                         active : BOOLEAN, draft : BOOLEAN])
        /\ \A i \in DOMAIN old : old[i].id <= Len(old)
    BY <1>1, PullRequestsAssumption
  <2>2. [id : Nat, branch : STRING, base : STRING, createdBy : STRING,
         active : BOOLEAN, draft : BOOLEAN] \subseteq PR
    BY DEF PR, Name
  <2>3. old \in Seq(PR)
    BY <2>1, <2>2, SeqMonotonic
  <2> QED
    BY <2>1, <2>3
<1>3. /\ ForgeAnswer(r).prs = created.prs /\ ForgeAnswer(r).created = ~created.err
      /\ ForgeAnswer(r).found = FindPR(created.prs, Branch, r.finds)
  BY DEF ForgeAnswer
<1>4. created = IF ~r.creates \/ \E p \in ToSet(r.prs) : p.active /\ p.branch = Branch /\ p.base = r.base
                  THEN [err |-> TRUE, prs |-> old]
                  ELSE [err |-> FALSE, prs |-> InsertAt(old, r.at, new)]
  BY DEF CreatePR
<1>5. \/ created.err = TRUE /\ created.prs = old
      \/ created.err = FALSE /\ created.prs = InsertAt(old, r.at, new)
  BY <1>4
<1>6. new \in PR
  <2>1. Len(old) + 1 \in Nat
    BY <1>2, LenProperties
  <2> QED
    BY <1>1, <2>1 DEF PR, Name
<1>7. /\ InsertAt(old, r.at, new) \in Seq(PR)
      /\ \A p : p \in ToSet(InsertAt(old, r.at, new)) <=> p \in ToSet(old) \/ p = new
  <2>1. Len(old) \in Nat
    BY <1>2, LenProperties
  <2>2. r.at \in 1..(Len(old) + 1)
    BY <1>1, <2>1
  <2> HIDE DEF old, new
  <2> QED
    BY <1>2, <1>6, <2>2, InsertedAt
<1>8. \A p \in ToSet(old) : p.id \in Nat /\ p.id <= Len(old)
  <2>1. \A i \in DOMAIN old : old[i] \in PR
    BY <1>2
  <2> QED
    BY <1>2, <2>1 DEF ToSet, PR
<1>9. /\ new.draft = TRUE /\ new.active = TRUE /\ new.branch = Branch /\ new.base = r.base
      /\ new.createdBy = Creators[1] /\ new.id = Len(r.prs) + 1
  OBVIOUS
<1> HIDE DEF created, new
<1>10. created.err = FALSE => Opens(r, created.prs)
  BY <1>5, <1>6, <1>7, <1>9 DEF Opens
<1> QED
  BY <1>2, <1>3, <1>5, <1>7, <1>8, <1>10

\* The probe's finding, of what there is.
LEMMA FoundIs ==
  ASSUME NEW prs \in Seq(PR)
  PROVE  LET found == FindPR(prs, Branch, TRUE)
         IN  /\ found.exists <=> Active(prs) # {}
             /\ found.exists => \E p \in Active(prs) : /\ \A q \in Active(prs) : q.id <= p.id
                                                      /\ found.createdBy = p.createdBy
<1> DEFINE value == Listed(prs, Branch)
           found == FindPR(prs, Branch, TRUE)
           newest == FoldLeft(LAMBDA pr, candidate : IF candidate.id > pr.id THEN candidate ELSE pr,
                              value[1], Tail(value))
<1>1. value \in Seq(PR) /\ ToSet(value) = Active(prs)
  BY ListedAre DEF Active
<1>2. found = IF value = <<>> THEN NoFinding
              ELSE [err |-> FALSE, exists |-> TRUE, createdBy |-> newest.createdBy]
  BY DEF FindPR
<1> HIDE DEF value, found
<1>3. CASE value = <<>>
  <2>1. found.exists = FALSE
    BY <1>2, <1>3 DEF NoFinding
  <2>2. ToSet(value) = {}
    BY <1>3 DEF ToSet
  <2> QED
    BY <1>1, <2>1, <2>2 DEF found
<1>4. CASE value # <<>>
  <2>1. found.exists = TRUE /\ found.createdBy = newest.createdBy
    BY <1>2, <1>4
  <2>2. newest \in ToSet(value) /\ \A q \in ToSet(value) : q.id <= newest.id
    BY <1>1, <1>4, NewestIs
  <2> HIDE DEF newest
  <2> QED
    BY <1>1, <2>1, <2>2 DEF found
<1> QED
  BY <1>3, <1>4

\* What the answer says of the newest pull request.
FindsNewest(r, answer) ==
  /\ answer.created =>
       \E p \in Active(answer.prs) :
         /\ p.draft /\ p.base = r.base /\ p.createdBy = Creators[1]
         /\ answer.found.exists /\ answer.found.createdBy = p.createdBy
  /\ answer.found.exists <=> Active(answer.prs) # {}
  /\ answer.found.exists =>
       \E p \in Active(answer.prs) :
         /\ \A q \in Active(answer.prs) : q.id <= p.id
         /\ answer.found.createdBy = p.createdBy

\* The answer names the newest of the active ones.
LEMMA NewestFound ==
  ASSUME NEW r \in ForgeRequests, r.finds
  PROVE  FindsNewest(r, ForgeAnswer(r))
<1> DEFINE answer == ForgeAnswer(r)
           prs == answer.prs
           found == answer.found
<1>1. /\ prs \in Seq(PR)
      /\ \A p \in ToSet(r.prs) : p.id \in Nat /\ p.id <= Len(r.prs)
      /\ answer.created => Opens(r, prs)
      /\ found = FindPR(prs, Branch, r.finds)
  BY CreatedIs
<1>2. r.finds = TRUE /\ Len(r.prs) \in Nat
  <2>1. r.finds \in BOOLEAN /\ r.prs \in PullRequests
    BY DEF ForgeRequests
  <2> QED
    BY <2>1, PullRequestsAssumption, LenProperties
<1> HIDE DEF prs, found, answer
<1>3. found = FindPR(prs, Branch, TRUE)
  BY <1>1, <1>2
<1>4. /\ found.exists <=> Active(prs) # {}
      /\ found.exists => \E p \in Active(prs) : /\ \A q \in Active(prs) : q.id <= p.id
                                               /\ found.createdBy = p.createdBy
  BY <1>1, <1>3, FoundIs
<1>5. ASSUME answer.created
      PROVE  \E p \in Active(prs) : /\ p.draft /\ p.base = r.base /\ p.createdBy = Creators[1]
                                     /\ found.exists /\ found.createdBy = p.createdBy
  <2>1. PICK new \in PR :
          /\ new.draft /\ new.active /\ new.branch = Branch /\ new.base = r.base
          /\ new.createdBy = Creators[1] /\ new.id = Len(r.prs) + 1
          /\ \A p : p \in ToSet(prs) <=> p \in ToSet(r.prs) \/ p = new
    BY <1>1, <1>5 DEF Opens
  <2>2. new \in Active(prs)
    BY <2>1 DEF Active
  <2>3. PICK p \in Active(prs) : /\ \A q \in Active(prs) : q.id <= p.id
                                 /\ found.createdBy = p.createdBy
    BY <1>4, <2>2
  <2>4. p = new
    <3>1. p \in ToSet(r.prs) \/ p = new
      BY <2>1 DEF Active
    <3>2. new.id <= p.id /\ new.id = Len(r.prs) + 1
      BY <2>1, <2>2, <2>3
    <3> QED
      BY <1>1, <1>2, <3>1, <3>2
  <2> QED
    BY <1>4, <2>1, <2>2, <2>3, <2>4
<1> QED
  BY <1>4, <1>5 DEF prs, found, answer, FindsNewest

(***************************************************************************)
(* The tail of a stream.                                                   *)
(***************************************************************************)

\* One sequence starts, or ends, as another.
LEMMA PrefixIs ==
  ASSUME NEW T, NEW a \in Seq(T), NEW b \in Seq(T)
  PROVE  IsPrefix(a, b) <=> Len(a) <= Len(b) /\ \A i \in 1..Len(a) : a[i] = b[i]
<1>1. Len(a) \in Nat /\ Len(b) \in Nat
  BY LenProperties
<1>2. CASE Len(a) <= Len(b)
  <2> DEFINE p == SubSeq(a, 1, Len(a))
             q == SubSeq(b, 1, Len(a))
  <2>1. Len(a) \in Int /\ 1 \in Int /\ \A i \in 1..Len(a) : a[i] \in T /\ b[i] \in T
    BY <1>1, <1>2
  <2>2. /\ p \in Seq(T) /\ Len(p) = IF 1 <= Len(a) THEN Len(a) - 1 + 1 ELSE 0
        /\ \A i \in 1..(Len(a) - 1 + 1) : p[i] = a[1 + i - 1]
    BY <2>1, SubSeqProperties
  <2>3. /\ q \in Seq(T) /\ Len(q) = IF 1 <= Len(a) THEN Len(a) - 1 + 1 ELSE 0
        /\ \A i \in 1..(Len(a) - 1 + 1) : q[i] = b[1 + i - 1]
    BY <2>1, SubSeqProperties
  <2>4. IsPrefix(a, b) <=> p = q
    BY <1>2 DEF IsPrefix
  <2> HIDE DEF p, q
  <2>5. /\ Len(p) = Len(a) /\ Len(q) = Len(a)
        /\ \A i \in 1..Len(a) : p[i] = a[i] /\ q[i] = b[i]
    BY <1>1, <2>2, <2>3
  <2>6. p = q <=> \A i \in 1..Len(a) : p[i] = q[i]
    BY <2>2, <2>3, <2>5, SeqEqual
  <2> QED
    BY <1>2, <2>4, <2>5, <2>6
<1>3. CASE ~(Len(a) <= Len(b))
  BY <1>3 DEF IsPrefix
<1> QED
  BY <1>2, <1>3

\* The same of their ends.
LEMMA SuffixIs ==
  ASSUME NEW T, NEW a \in Seq(T), NEW b \in Seq(T)
  PROVE  IsSuffix(a, b) <=> Len(a) <= Len(b) /\ \A i \in 1..Len(a) : a[i] = b[Len(b) - Len(a) + i]
<1>1. PICK m \in Nat : m = Len(a) /\ a \in [1..m -> T]
  OBVIOUS
<1>2. PICK n \in Nat : n = Len(b) /\ b \in [1..n -> T]
  OBVIOUS
<1> DEFINE p == Reverse(a)
           q == Reverse(b)
<1>3. /\ p \in Seq(T) /\ Len(p) = m /\ \A i \in 1..m : p[i] = a[m - i + 1]
      /\ q \in Seq(T) /\ Len(q) = n /\ \A i \in 1..n : q[i] = b[n - i + 1]
  <2>1. p = [i \in 1..m |-> a[m - i + 1]] /\ q = [i \in 1..n |-> b[n - i + 1]]
    BY <1>1, <1>2 DEF Reverse
  <2>2. (\A i \in 1..m : a[m - i + 1] \in T) /\ (\A i \in 1..n : b[n - i + 1] \in T)
    BY <1>1, <1>2
  <2>3. p \in [1..m -> T] /\ q \in [1..n -> T]
    BY <2>1, <2>2
  <2> HIDE DEF p, q
  <2>4. p \in Seq(T) /\ Len(p) = m
    BY <2>3
  <2>5. q \in Seq(T) /\ Len(q) = n
    BY <2>3
  <2>6. (\A i \in 1..m : p[i] = a[m - i + 1]) /\ (\A i \in 1..n : q[i] = b[n - i + 1])
    BY <2>1
  <2> QED
    BY <2>4, <2>5, <2>6
<1>4. IsSuffix(a, b) <=> IsPrefix(p, q)
  BY DEF IsSuffix
<1> HIDE DEF p, q
<1>5. IsPrefix(p, q) <=> Len(p) <= Len(q) /\ \A i \in 1..Len(p) : p[i] = q[i]
  <2>1. p \in Seq(T) /\ q \in Seq(T)
    BY <1>3
  <2> QED
    BY <2>1, PrefixIs
<1>6. ASSUME m <= n
      PROVE  (\A i \in 1..m : p[i] = q[i]) <=> \A i \in 1..m : a[i] = b[n - m + i]
  <2>1. ASSUME \A i \in 1..m : p[i] = q[i], NEW i \in 1..m PROVE a[i] = b[n - m + i]
    <3>1. m - i + 1 \in 1..m /\ m - (m - i + 1) + 1 = i /\ n - (m - i + 1) + 1 = n - m + i
          /\ m - i + 1 \in 1..n
      BY <1>6
    <3> QED
      BY <1>3, <2>1, <3>1
  <2>2. ASSUME \A i \in 1..m : a[i] = b[n - m + i], NEW i \in 1..m PROVE p[i] = q[i]
    <3>1. m - i + 1 \in 1..m /\ n - m + (m - i + 1) = n - i + 1 /\ i \in 1..n
      BY <1>6
    <3>2. a[m - i + 1] = b[n - i + 1]
      BY <2>2, <3>1
    <3> QED
      BY <1>3, <3>1, <3>2
  <2> QED
    BY <2>1, <2>2
<1> QED
  BY <1>1, <1>2, <1>3, <1>4, <1>5, <1>6

\* The last n of a sequence.
LEMMA LastOf ==
  ASSUME NEW T, NEW s \in Seq(T), NEW n \in 0..Len(s)
  PROVE  /\ Last_(s, n) \in Seq(T) /\ Len(Last_(s, n)) = n
         /\ \A i \in 1..n : Last_(s, n)[i] = s[Len(s) - n + i]
<1>1. PICK m \in Nat : m = Len(s) /\ s \in [1..m -> T]
  OBVIOUS
<1> DEFINE t == Last_(s, n)
<1>2. t = SubSeq(s, m - n + 1, m)
  BY <1>1 DEF Last_
<1>3. m - n + 1 \in Int /\ m \in Int /\ \A i \in (m - n + 1)..m : s[i] \in T
  BY <1>1
<1> HIDE DEF t
<1>4. /\ t \in Seq(T) /\ Len(t) = IF m - n + 1 <= m THEN m - (m - n + 1) + 1 ELSE 0
      /\ \A i \in 1..(m - (m - n + 1) + 1) : t[i] = s[(m - n + 1) + i - 1]
  BY <1>2, <1>3, SubSeqProperties
<1>5. Len(t) = n /\ \A i \in 1..n : t[i] = s[m - n + i]
  BY <1>1, <1>4
<1> QED
  BY <1>1, <1>4, <1>5 DEF t

\* The last k of the last n are the last k.
LEMMA LastOfLast ==
  ASSUME NEW T, NEW s \in Seq(T), NEW m \in 0..Len(s), NEW n \in 0..m
  PROVE  Last_(Last_(s, m), n) = Last_(s, n)
<1>1. PICK l \in Nat : l = Len(s)
  OBVIOUS
<1> DEFINE t == Last_(s, m)
           p == Last_(t, n)
           q == Last_(s, n)
<1>2. /\ t \in Seq(T) /\ Len(t) = m /\ \A i \in 1..m : t[i] = s[l - m + i]
  BY <1>1, LastOf
<1>3. n \in 0..l /\ m \in 0..l
  BY <1>1
<1>4. q \in Seq(T) /\ Len(q) = n /\ \A i \in 1..n : q[i] = s[l - n + i]
  BY <1>1, <1>3, LastOf
<1> HIDE DEF t, q
<1>5. p \in Seq(T) /\ Len(p) = n /\ \A i \in 1..n : p[i] = t[m - n + i]
  <2>1. t \in Seq(T) /\ Len(t) = m /\ n \in 0..Len(t)
    BY <1>2
  <2>2. p \in Seq(T) /\ Len(p) = n /\ \A i \in 1..n : p[i] = t[Len(t) - n + i]
    BY <2>1, LastOf
  <2> QED
    BY <2>1, <2>2
<1> HIDE DEF p
<1>6. ASSUME NEW i \in 1..n PROVE p[i] = q[i]
  <2>1. m - n + i \in 1..m /\ l - m + (m - n + i) = l - n + i
    BY <1>3
  <2> QED
    BY <1>2, <1>4, <1>5, <2>1
<1>7. p = q
  BY <1>4, <1>5, <1>6, SeqEqual
<1> QED
  BY <1>7 DEF p, q, t

\* What is last of a sequence is a suffix of it.
LEMMA LastIsSuffix ==
  ASSUME NEW T, NEW s \in Seq(T), NEW n \in 0..Len(s)
  PROVE  IsSuffix(Last_(s, n), s)
<1>1. PICK l \in Nat : l = Len(s)
  OBVIOUS
<1> DEFINE t == Last_(s, n)
<1>2. /\ t \in Seq(T) /\ Len(t) = n /\ \A i \in 1..n : t[i] = s[l - n + i]
  BY <1>1, LastOf
<1> HIDE DEF t
<1>3. IsSuffix(t, s) <=> Len(t) <= l /\ \A i \in 1..Len(t) : t[i] = s[l - Len(t) + i]
  BY <1>1, <1>2, SuffixIs
<1> QED
  BY <1>1, <1>2, <1>3 DEF t

\* What was printed: its lines, its events among them, and what they take.
LEMMA EventsAre ==
  ASSUME NEW stdout \in Streams
  PROVE  Events(stdout) \in Seq(ToSet(stdout))
<1> DEFINE L == ToSet(stdout)
<1>1. PICK n \in Nat : stdout \in [1..n -> L]
  BY StreamsAssumption
<1> HIDE DEF L
<1>2. PICK h : EventsTrace(n, L, stdout, h)
  BY <1>1, EventsSteps DEF Lists
<1>3. Events(stdout) \in Seq(L)
  BY <1>1, <1>2 DEF EventsTrace
<1> QED
  BY <1>3 DEF L

\* What lines take is a number.
LEMMA BytesAre ==
  ASSUME NEW L, NEW lines \in Seq(L), \A line \in L : line.length \in Nat
  PROVE  Bytes(lines) \in Nat
<1>1. PICK n \in Nat : lines \in [1..n -> L]
  OBVIOUS
<1>2. PICK h : BytesTrace(n, L, lines, h)
  BY <1>1, BytesSteps DEF Lists
<1> QED
  BY <1>1, <1>2 DEF BytesTrace

\* No lines take nothing.
LEMMA NoBytes ==
  ASSUME NEW L, NEW lines \in Seq(L), \A line \in L : line.length \in Nat, Len(lines) = 0
  PROVE  Bytes(lines) = 0
<1>1. lines \in [1..0 -> L] /\ 0 \in Nat
  OBVIOUS
<1>2. PICK h : BytesTrace(0, L, lines, h)
  BY <1>1, BytesSteps DEF Lists
<1> QED
  BY <1>2 DEF BytesTrace

\* The tail of a run holds the end of what it printed.
TailHolds(stdout, tail) ==
  LET events == Events(stdout)
      n == Len(tail.lines)
  IN  /\ n <= maxStreamTailEvents /\ Bytes(tail.lines) - tail.cut <= maxStreamTailBytes
      /\ IsSuffix(tail.lines, events) /\ (events # <<>> => n > 0)
      /\ tail.cut > 0 => n = 1
      /\ n < Len(events) /\ n < maxStreamTailEvents
           => Bytes(Last_(events, n + 1)) > maxStreamTailBytes

\* The tail streamTail keeps is such a one.
LEMMA TailIs ==
  ASSUME NEW stdout \in Streams
  PROVE  TailHolds(stdout, streamTail(stdout))
<1> DEFINE L == ToSet(stdout)
           events == Events(stdout)
           most == IF Len(events) > maxStreamTailEvents THEN maxStreamTailEvents ELSE Len(events)
           recent == Last_(events, most)
           fitting == {n \in 1..Len(recent) : n = 1 \/ Fits(Last_(recent, n))}
           kept == IF recent = <<>> THEN <<>>
                   ELSE Last_(recent, CHOOSE n \in fitting : \A m \in fitting : m <= n)
           tail == streamTail(stdout)
<1>1. events \in Seq(L) /\ \A line \in L : line.length \in Nat
  BY EventsAre, StreamsAssumption
<1>2. PICK l \in Nat : l = Len(events)
  BY <1>1, LenProperties
<1>3. maxStreamTailEvents \in Nat \ {0} /\ maxStreamTailBytes \in Nat \ {0}
  BY BoundsAssumption
<1>4. /\ tail.lines = kept
      /\ tail.cut = IF Bytes(kept) > maxStreamTailBytes THEN Bytes(kept) - maxStreamTailBytes ELSE 0
  BY DEF streamTail
<1> HIDE DEF L, events, tail
<1>5. /\ most \in 0..l /\ most <= maxStreamTailEvents
      /\ most = l \/ most = maxStreamTailEvents
  BY <1>2, <1>3
<1> HIDE DEF most
<1>6. recent \in Seq(L) /\ Len(recent) = most
  BY <1>1, <1>2, <1>5, LastOf
<1>7. \A n \in 0..most : Last_(recent, n) = Last_(events, n)
  BY <1>1, <1>2, <1>5, LastOfLast
<1> HIDE DEF recent
<1>8. ASSUME NEW k \in 0..most
      PROVE  /\ Last_(events, k) \in Seq(L) /\ Len(Last_(events, k)) = k
             /\ IsSuffix(Last_(events, k), events) /\ Bytes(Last_(events, k)) \in Nat
  <2>1. k \in 0..l
    BY <1>5
  <2>2. Last_(events, k) \in Seq(L) /\ Len(Last_(events, k)) = k
    BY <1>1, <1>2, <2>1, LastOf
  <2>3. IsSuffix(Last_(events, k), events)
    BY <1>1, <1>2, <2>1, LastIsSuffix
  <2>4. Bytes(Last_(events, k)) \in Nat
    BY <1>1, <2>2, BytesAre
  <2> QED
    BY <2>2, <2>3, <2>4
<1>9. PICK k \in 0..most :
        /\ kept = Last_(events, k) /\ (most > 0 => k > 0)
        /\ Bytes(kept) > maxStreamTailBytes => k <= 1
        /\ k < most => Bytes(Last_(events, k + 1)) > maxStreamTailBytes
  <2>1. CASE recent = <<>>
    <3>1. most = 0 /\ kept = <<>> /\ 0 \in 0..most
      BY <1>5, <1>6, <2>1
    <3>2. Last_(events, 0) \in Seq(L) /\ Len(Last_(events, 0)) = 0
      BY <1>8, <3>1
    <3>3. kept = Last_(events, 0)
      BY <3>1, <3>2, EmptySeq
    <3>4. Bytes(Last_(events, 0)) > maxStreamTailBytes => 0 <= 1
      OBVIOUS
    <3> HIDE DEF kept
    <3> QED
      BY <3>1, <3>3, <3>4
  <2>2. CASE recent # <<>>
    <3>1. most \in Nat /\ most # 0
      BY <1>5, <1>6, <2>2, EmptySeq
    <3>2. fitting \in SUBSET (1..most) /\ 1 \in fitting
      BY <1>6, <3>1
    <3>3. /\ Max(fitting) \in fitting /\ \A i \in fitting : i <= Max(fitting)
      <4> HIDE DEF fitting
      <4> QED
        BY <3>1, <3>2, GreatestIs
    <3> DEFINE k == CHOOSE n \in fitting : \A m \in fitting : m <= n
    <3>4. k \in fitting /\ \A i \in fitting : i <= k
      <4> HIDE DEF fitting
      <4> QED
        BY <3>3
    <3>5. kept = Last_(recent, k)
      BY <2>2
    <3>6. k \in 1..most
      BY <1>6, <3>4
    <3> HIDE DEF k, kept
    <3>7. kept = Last_(events, k)
      BY <1>7, <3>5, <3>6
    <3>8. \A n \in 1..most : n \in fitting <=> n = 1 \/ Bytes(Last_(events, n)) <= maxStreamTailBytes
      BY <1>6, <1>7 DEF Fits
    <3> HIDE DEF fitting
    <3>9. Bytes(Last_(events, k)) > maxStreamTailBytes => k = 1
      <4>1. Bytes(Last_(events, k)) \in Nat
        BY <1>8, <3>6
      <4> QED
        BY <1>3, <3>4, <3>6, <3>8, <4>1
    <3>10. ASSUME k < most PROVE Bytes(Last_(events, k + 1)) > maxStreamTailBytes
      <4>1. k + 1 \in 1..most /\ k + 1 # 1 /\ ~(k + 1 <= k)
        BY <3>1, <3>6, <3>10
      <4>2. ~(Bytes(Last_(events, k + 1)) <= maxStreamTailBytes)
        BY <3>4, <3>8, <4>1
      <4>3. Bytes(Last_(events, k + 1)) \in Nat
        BY <1>8, <4>1
      <4> QED
        BY <1>3, <4>2, <4>3
    <3>11. k \in 0..most /\ k > 0 /\ (k = 1 => k <= 1)
      BY <3>6
    <3> QED
      BY <3>7, <3>9, <3>10, <3>11
  <2> QED
    BY <2>1, <2>2
<1> HIDE DEF kept
<1>10. /\ Len(tail.lines) = k /\ IsSuffix(tail.lines, events) /\ Bytes(tail.lines) \in Nat
  BY <1>4, <1>8, <1>9
<1>11. k <= maxStreamTailEvents /\ (events # <<>> => k > 0)
  <2>1. events # <<>> => most # 0
    BY <1>1, <1>2, <1>3, <1>5, EmptySeq
  <2> QED
    BY <1>2, <1>3, <1>5, <1>9, <2>1
<1>12. Bytes(tail.lines) - tail.cut <= maxStreamTailBytes /\ (tail.cut > 0 => k = 1)
  <2>1. CASE Bytes(kept) > maxStreamTailBytes
    <3>1. tail.cut = Bytes(kept) - maxStreamTailBytes /\ k <= 1
      BY <1>4, <1>9, <2>1
    <3>2. k # 0
      <4>1. ASSUME k = 0 PROVE FALSE
        <5>1. Len(kept) = 0 /\ kept \in Seq(L)
          BY <1>8, <1>9, <4>1
        <5>2. Bytes(kept) = 0
          BY <5>1, <1>1, NoBytes
        <5> QED
          BY <1>3, <2>1, <5>2
      <4> QED
        BY <4>1
    <3> QED
      BY <1>3, <1>4, <1>9, <1>10, <3>1, <3>2
  <2>2. CASE ~(Bytes(kept) > maxStreamTailBytes)
    BY <1>3, <1>4, <1>10, <2>2
  <2> QED
    BY <2>1, <2>2
<1>13. k < l /\ k < maxStreamTailEvents => Bytes(Last_(events, k + 1)) > maxStreamTailBytes
  <2>1. k < l /\ k < maxStreamTailEvents => k < most
    BY <1>3, <1>5
  <2> QED
    BY <1>9, <2>1
<1> QED
  BY <1>2, <1>10, <1>11, <1>12, <1>13 DEF events, tail, TailHolds

\* The cost is that of the last result printed.
CostHolds(stdout, telemetry) ==
  LET results == {i \in DOMAIN stdout : stdout[i].event = "result"}
  IN  IF results = {} THEN telemetry.cost = 0
      ELSE \E i \in results : /\ \A j \in results : j <= i
                              /\ telemetry.cost = stdout[i].value

\* When every line was scanned, the cost is that of the last result.
LEMMA CostIs ==
  ASSUME NEW stdout \in Streams,
         \A i \in DOMAIN stdout : stdout[i].length < maxStreamLine
  PROVE  CostHolds(stdout, parseTelemetry(stdout))
<1> DEFINE L == ToSet(stdout)
           cost == parseTelemetry(stdout).cost
<1>1. PICK n \in Nat : stdout \in [1..n -> L] /\ Len(stdout) = n
  BY StreamsAssumption
<1>2. Scanned(stdout) = stdout
  <2> DEFINE long == {i \in 1..Len(stdout) : stdout[i].length >= maxStreamLine}
  <2>1. long = {}
    <3>1. \A i \in 1..n : stdout[i].length \in Nat /\ stdout[i].length < maxStreamLine
      BY <1>1, StreamsAssumption
    <3> QED
      BY <1>1, <3>1, BoundsAssumption
  <2>2. SelectInSeq(stdout, LAMBDA line : line.length >= maxStreamLine)
          = IF long # {} THEN Min(long) ELSE 0
    BY DEF SelectInSeq
  <2> HIDE DEF long
  <2> QED
    BY <2>1, <2>2 DEF Scanned
<1> HIDE DEF L
<1>3. PICK h : TelemetryTrace(n, L, stdout, h)
  BY <1>1, TelemetrySteps DEF Lists
<1>4. h[n].cost = cost
  BY <1>2, <1>3 DEF TelemetryTrace, parseTelemetry
<1> HIDE DEF cost
<1>5. h[0].cost = 0
  <2>1. h[0] = NoTelemetry
    BY <1>3 DEF TelemetryTrace
  <2>2. NoTelemetry.cost = 0
    BY DEF NoTelemetry
  <2> QED
    BY <2>1, <2>2
<1>6. ASSUME NEW k \in 1..n
      PROVE  h[k].cost = IF stdout[k].event = "result" THEN stdout[k].value ELSE h[k - 1].cost
  <2> DEFINE tel == h[k - 1]
             line == stdout[k]
  <2>1. /\ tel \in [session : Said(L), cost : Said(L)]
        /\ h[k] = CASE line.event = "init" /\ tel.session = "" -> [tel EXCEPT !.session = line.value]
                    [] line.event = "result" -> [tel EXCEPT !.cost = line.value]
                    [] OTHER -> tel
    BY <1>3 DEF TelemetryTrace
  <2> HIDE DEF tel, line
  <2>2. CASE line.event = "result"
    <3>1. h[k] = [tel EXCEPT !.cost = line.value]
      BY <2>1, <2>2
    <3> QED
      BY <2>1, <2>2, <3>1 DEF line
  <2>3. CASE line.event # "result"
    <3>1. h[k] = tel \/ h[k] = [tel EXCEPT !.session = line.value]
      BY <2>1, <2>3
    <3>2. h[k].cost = tel.cost
      BY <2>1, <3>1
    <3> QED
      BY <2>3, <3>2 DEF line, tel
  <2> QED
    BY <2>2, <2>3
<1> DEFINE last(k, i) == /\ i \in 1..k /\ stdout[i].event = "result"
                         /\ \A j \in 1..k : stdout[j].event = "result" => j <= i
           P == {k \in 0..n :
                   \/ h[k].cost = 0 /\ \A i \in 1..k : stdout[i].event # "result"
                   \/ \E i \in 1..k : last(k, i) /\ h[k].cost = stdout[i].value}
<1>7. 0 \in P
  BY <1>5
<1>8. ASSUME NEW k \in 1..n, k - 1 \in P PROVE k \in P
  <2>1. \A i : i \in 1..k <=> i \in 1..(k - 1) \/ i = k
    OBVIOUS
  <2>2. CASE stdout[k].event = "result"
    <3>1. h[k].cost = stdout[k].value
      BY <1>6, <2>2
    <3>2. last(k, k)
      BY <2>2
    <3> QED
      BY <3>1, <3>2
  <2>3. CASE stdout[k].event # "result"
    <3>1. h[k].cost = h[k - 1].cost
      BY <1>6, <2>3
    <3>2. CASE h[k - 1].cost = 0 /\ \A i \in 1..(k - 1) : stdout[i].event # "result"
      BY <2>1, <2>3, <3>1, <3>2
    <3>3. CASE \E i \in 1..(k - 1) : last(k - 1, i) /\ h[k - 1].cost = stdout[i].value
      <4>1. PICK i \in 1..(k - 1) : last(k - 1, i) /\ h[k - 1].cost = stdout[i].value
        BY <3>3
      <4>2. last(k, i)
        BY <2>1, <2>3, <4>1
      <4> QED
        BY <2>1, <3>1, <4>1, <4>2
    <3> QED
      BY <1>8, <3>2, <3>3
  <2> QED
    BY <2>2, <2>3
<1> HIDE DEF P
<1>9. 0..n \subseteq P
  BY <1>7, <1>8, UpFrom
<1>10. n \in P
  BY <1>1, <1>9
<1>11. \/ cost = 0 /\ \A i \in 1..n : stdout[i].event # "result"
       \/ \E i \in 1..n : last(n, i) /\ cost = stdout[i].value
  BY <1>4, <1>10 DEF P
<1>12. DOMAIN stdout = 1..n
  BY <1>1
<1> QED
  BY <1>11, <1>12 DEF cost, CostHolds

(***************************************************************************)
(* The rows of a diff.                                                     *)
(***************************************************************************)

\* Two documents, as sequences of lines of T, and how far from their ends a place is.
Both(T, old, new, m, n) == Lists(old, m, T) /\ Lists(new, n, T) /\ Len(old) = m /\ Len(new) = n

Left(m, n, at) == (m + 1 - at[1]) + (n + 1 - at[2])

\* It is bounded by the lengths of both.
LEMMA PlacesAre ==
  ASSUME NEW T, NEW old, NEW new, NEW m, NEW n, Both(T, old, new, m, n)
  PROVE  /\ Places(old, new) = (1..(m + 1)) \X (1..(n + 1))
         /\ \A i \in 1..(m + 1), j \in 1..(n + 1) : Left(m, n, <<i, j>>) \in 0..(m + n)
         /\ [at \in Places(old, new) |-> Left(m, n, at)] \in [Places(old, new) -> 0..(m + n)]
<1> USE DEF Both, Lists
<1>1. Places(old, new) = (1..(m + 1)) \X (1..(n + 1))
  BY DEF Places
<1>2. \A i \in 1..(m + 1), j \in 1..(n + 1) : Left(m, n, <<i, j>>) \in 0..(m + n)
  BY DEF Left
<1>3. \A at \in Places(old, new) : Left(m, n, at) \in 0..(m + n)
  BY <1>1 DEF Left
<1> QED
  BY <1>1, <1>2, <1>3

\* The places after one are nearer to the ends.
LEMMA NextPlaces ==
  ASSUME NEW T, NEW old, NEW new, NEW m, NEW n, Both(T, old, new, m, n),
         NEW i \in 1..(m + 1), NEW j \in 1..(n + 1)
  PROVE  /\ <<i, j>> \in Places(old, new)
         /\ i <= m /\ j <= n => <<i + 1, j + 1>> \in Places(old, new)
         /\ i <= m => <<i + 1, j>> \in Places(old, new)
         /\ j <= n => <<i, j + 1>> \in Places(old, new)
         /\ Left(m, n, <<i + 1, j + 1>>) < Left(m, n, <<i, j>>)
         /\ Left(m, n, <<i + 1, j>>) < Left(m, n, <<i, j>>)
         /\ Left(m, n, <<i, j + 1>>) < Left(m, n, <<i, j>>)
<1>1. Places(old, new) = (1..(m + 1)) \X (1..(n + 1))
  BY PlacesAre
<1> USE DEF Both, Lists
<1>2. /\ i <= m /\ j <= n => <<i + 1, j + 1>> \in Places(old, new)
      /\ i <= m => <<i + 1, j>> \in Places(old, new)
      /\ j <= n => <<i, j + 1>> \in Places(old, new)
  BY <1>1
<1>3. /\ Left(m, n, <<i + 1, j + 1>>) < Left(m, n, <<i, j>>)
      /\ Left(m, n, <<i + 1, j>>) < Left(m, n, <<i, j>>)
      /\ Left(m, n, <<i, j + 1>>) < Left(m, n, <<i, j>>)
  BY DEF Left
<1> QED
  BY <1>1, <1>2, <1>3

\* The three steps the tables recur by lead to places that have less left.
LEMMA StepsAhead ==
  ASSUME NEW T, NEW old, NEW new, NEW m, NEW n, Both(T, old, new, m, n),
         NEW at \in Places(old, new)
  PROVE  LET left == [p \in Places(old, new) |-> Left(m, n, p)]
         IN  /\ at[1] \in 1..(m + 1) /\ at[2] \in 1..(n + 1) /\ at = <<at[1], at[2]>>
             /\ at[1] <= m /\ at[2] <= n =>
                  /\ <<at[1] + 1, at[2] + 1>> \in Places(old, new)
                  /\ left[<<at[1] + 1, at[2] + 1>>] < left[at]
             /\ at[1] <= m =>
                  <<at[1] + 1, at[2]>> \in Places(old, new) /\ left[<<at[1] + 1, at[2]>>] < left[at]
             /\ at[2] <= n =>
                  <<at[1], at[2] + 1>> \in Places(old, new) /\ left[<<at[1], at[2] + 1>>] < left[at]
<1>1. PICK i \in 1..(m + 1), j \in 1..(n + 1) : at = <<i, j>>
  <2>1. Places(old, new) = (1..(m + 1)) \X (1..(n + 1))
    BY PlacesAre
  <2> QED
    BY <2>1
<1>2. /\ i <= m /\ j <= n => <<i + 1, j + 1>> \in Places(old, new)
      /\ i <= m => <<i + 1, j>> \in Places(old, new)
      /\ j <= n => <<i, j + 1>> \in Places(old, new)
      /\ Left(m, n, <<i + 1, j + 1>>) < Left(m, n, <<i, j>>)
      /\ Left(m, n, <<i + 1, j>>) < Left(m, n, <<i, j>>)
      /\ Left(m, n, <<i, j + 1>>) < Left(m, n, <<i, j>>)
  BY NextPlaces
<1>3. at[1] = i /\ at[2] = j
  BY <1>1
<1> QED
  BY <1>1, <1>2, <1>3

IsLCS(old, new, m, n, lcs) ==
  /\ lcs \in [Places(old, new) -> Nat]
  /\ \A i \in 1..(m + 1), j \in 1..(n + 1) :
       /\ i > m \/ j > n => lcs[<<i, j>>] = 0
       /\ i <= m /\ j <= n /\ old[i] = new[j] => lcs[<<i, j>>] = lcs[<<i + 1, j + 1>>] + 1
       /\ i <= m /\ j <= n /\ old[i] # new[j] =>
            lcs[<<i, j>>] = IF lcs[<<i + 1, j>>] >= lcs[<<i, j + 1>>]
                              THEN lcs[<<i + 1, j>>] ELSE lcs[<<i, j + 1>>]

\* The table LCS is one.
LEMMA LCSIs ==
  ASSUME NEW T, NEW old, NEW new, NEW m, NEW n, Both(T, old, new, m, n)
  PROVE  IsLCS(old, new, m, n, LCS(old, new))
<1> DEFINE S == Places(old, new)
           Body(f, i, j) ==
             IF i > m \/ j > n THEN 0
             ELSE IF old[i] = new[j] THEN f[<<i + 1, j + 1>>] + 1
             ELSE IF f[<<i + 1, j>>] >= f[<<i, j + 1>>] THEN f[<<i + 1, j>>]
             ELSE f[<<i, j + 1>>]
           G == [f \in [S -> Nat] |-> [at \in S |-> Body(f, at[1], at[2])]]
           left == [at \in S |-> Left(m, n, at)]
           lcs == CHOOSE f : f = [at \in S |-> Body(f, at[1], at[2])]
<1>1. /\ S = (1..(m + 1)) \X (1..(n + 1))
      /\ left \in [S -> 0..(m + n)]
  BY PlacesAre
<1>2. ASSUME NEW at \in S
      PROVE  /\ at[1] \in 1..(m + 1) /\ at[2] \in 1..(n + 1) /\ at = <<at[1], at[2]>>
             /\ at[1] <= m /\ at[2] <= n =>
                  <<at[1] + 1, at[2] + 1>> \in S /\ left[<<at[1] + 1, at[2] + 1>>] < left[at]
             /\ at[1] <= m => <<at[1] + 1, at[2]>> \in S /\ left[<<at[1] + 1, at[2]>>] < left[at]
             /\ at[2] <= n => <<at[1], at[2] + 1>> \in S /\ left[<<at[1], at[2] + 1>>] < left[at]
  BY StepsAhead
<1> USE DEF Both, Lists
<1> HIDE DEF S, left
<1>3. ASSUME NEW f \in [S -> Nat], NEW at \in S PROVE Body(f, at[1], at[2]) \in Nat
  BY <1>2
<1>4. G \in [[S -> Nat] -> [S -> Nat]]
  <2> HIDE DEF Body
  <2> QED
    BY <1>3
<1>5. ASSUME NEW f \in [S -> Nat], NEW g \in [S -> Nat], NEW at \in S,
             \A y \in S : left[y] < left[at] => f[y] = g[y]
      PROVE  G[f][at] = G[g][at]
  <2>1. Body(f, at[1], at[2]) = Body(g, at[1], at[2])
    BY SMTT(40), <1>2, <1>5
  <2> HIDE DEF Body
  <2> QED
    BY <2>1
<1>6. Recursion(S, Nat, m + n, left, G)
  <2> HIDE DEF G
  <2>1. \A f, g \in [S -> Nat] : \A at \in S :
          (\A y \in S : left[y] < left[at] => f[y] = g[y]) => G[f][at] = G[g][at]
    BY <1>5
  <2>2. m + n \in Nat /\ Nat # {}
    OBVIOUS
  <2> QED
    BY <1>1, <1>4, <2>1, <2>2 DEF Recursion
<1>7. PICK f \in [S -> Nat] : f = G[f]
  <2> HIDE DEF G
  <2> QED
    BY <1>6, RecursionExists
<1>8. f = [at \in S |-> Body(f, at[1], at[2])]
  <2> HIDE DEF Body
  <2> QED
    BY <1>7
<1>9. lcs = [at \in S |-> Body(lcs, at[1], at[2])]
  <2> HIDE DEF Body
  <2> QED
    BY <1>8
<1>10. LCS(old, new) = lcs
  BY DEF LCS, S
<1> HIDE DEF lcs
<1>11. lcs \in [S -> Nat]
  <2> DEFINE P == {at \in S : lcs[at] \in Nat}
  <2>1. ASSUME NEW at \in S, \A y \in S : left[y] < left[at] => y \in P PROVE at \in P
    <3>1. lcs[at] = Body(lcs, at[1], at[2])
      <4> HIDE DEF Body
      <4> QED
        BY <1>9
    <3>2. CASE at[1] > m \/ at[2] > n
      BY <3>1, <3>2
    <3>3. CASE ~(at[1] > m \/ at[2] > n)
      <4>1. /\ lcs[<<at[1] + 1, at[2] + 1>>] \in Nat
            /\ lcs[<<at[1] + 1, at[2]>>] \in Nat /\ lcs[<<at[1], at[2] + 1>>] \in Nat
        BY SMTT(40), <1>2, <2>1, <3>3
      <4> QED
        BY SMTT(40), <3>1, <3>3, <4>1
    <3> QED
      BY <3>2, <3>3
  <2>2. left \in [S -> Nat]
    BY <1>1
  <2> HIDE DEF P
  <2>3. S \subseteq P
    BY <2>1, <2>2, MeasureInduction
  <2>4. \A at \in S : lcs[at] \in Nat
    BY <2>3 DEF P
  <2>5. lcs = [at \in S |-> lcs[at]]
    BY <1>9
  <2> QED
    BY <2>4, <2>5
<1>12. ASSUME NEW i \in 1..(m + 1), NEW j \in 1..(n + 1)
       PROVE  lcs[<<i, j>>] = Body(lcs, i, j)
  <2>1. <<i, j>> \in S
    BY <1>1
  <2> HIDE DEF Body
  <2> QED
    BY <1>9, <2>1
<1>13. IsLCS(old, new, m, n, lcs)
  <2> SUFFICES ASSUME NEW i \in 1..(m + 1), NEW j \in 1..(n + 1)
               PROVE  /\ i > m \/ j > n => lcs[<<i, j>>] = 0
                      /\ i <= m /\ j <= n /\ old[i] = new[j] => lcs[<<i, j>>] = lcs[<<i + 1, j + 1>>] + 1
                      /\ i <= m /\ j <= n /\ old[i] # new[j] =>
                           lcs[<<i, j>>] = IF lcs[<<i + 1, j>>] >= lcs[<<i, j + 1>>]
                                             THEN lcs[<<i + 1, j>>] ELSE lcs[<<i, j + 1>>]
    BY <1>11 DEF S, IsLCS
  <2> QED
    BY <1>12
<1> QED
  BY <1>10, <1>13

\* What is left of one document, marked, a line at a time.
RestStep(T, m, lines, mark, k) ==
  /\ Rest(mark, lines, k) \in Seq(Marked(T))
  /\ k = m + 1 => Rest(mark, lines, k) = <<>>
  /\ k <= m => Rest(mark, lines, k) = <<Row(mark, lines[k])>> \o Rest(mark, lines, k + 1)

\* Rest marks the lines from place k on.
LEMMA RestIs ==
  ASSUME NEW T, NEW m, NEW lines, Lists(lines, m, T), Len(lines) = m,
         NEW mark \in {Blank, "-", "+"}, NEW k \in 1..(m + 1)
  PROVE  RestStep(T, m, lines, mark, k)
<1>0. m \in Nat /\ lines \in [1..m -> T]
  BY DEF Lists
<1> DEFINE rest(l) == Rest(mark, lines, l)
<1>1. ASSUME NEW l \in 1..m PROVE Row(mark, lines[l]) \in Marked(T)
  <2>1. lines[l] \in T
    BY <1>0
  <2> QED
    BY <2>1 DEF Row, Marked
<1>2. ASSUME NEW l \in 1..(m + 1)
      PROVE  /\ rest(l) \in Seq(Marked(T)) /\ Len(rest(l)) = m - l + 1
             /\ \A i \in 1..(m - l + 1) : rest(l)[i] = Row(mark, lines[l + i - 1])
  <2> DEFINE o == m - l + 1
  <2>1. rest(l) = [i \in 1..o |-> Row(mark, lines[l + i - 1])]
    BY DEF Rest
  <2>2. o \in Nat
    BY <1>0
  <2>3. ASSUME NEW i \in 1..o PROVE l + i - 1 \in 1..m
    BY <1>0
  <2> HIDE DEF rest, o
  <2>4. ASSUME NEW i \in 1..o PROVE Row(mark, lines[l + i - 1]) \in Marked(T)
    BY <1>1, <2>3
  <2>5. rest(l) \in [1..o -> Marked(T)]
    BY <2>1, <2>4
  <2>6. rest(l) \in Seq(Marked(T)) /\ Len(rest(l)) = o
    BY <2>2, <2>5
  <2> QED
    BY <2>1, <2>6 DEF o
<1> HIDE DEF rest
<1>3. ASSUME k = m + 1 PROVE rest(k) = <<>>
  <2>1. rest(k) \in Seq(Marked(T)) /\ Len(rest(k)) = m - k + 1
    BY <1>2
  <2>2. Len(rest(k)) = 0
    BY <1>0, <1>3, <2>1
  <2> QED
    BY <2>1, <2>2, EmptySeq
<1>4. ASSUME k <= m PROVE rest(k) = <<Row(mark, lines[k])>> \o rest(k + 1)
  <2> DEFINE one == <<Row(mark, lines[k])>>
             all == one \o rest(k + 1)
  <2>1. /\ one \in Seq(Marked(T)) /\ Len(one) = 1 /\ one[1] = Row(mark, lines[k])
        /\ k + 1 \in 1..(m + 1) /\ k \in 1..m
    <3>1. k + 1 \in 1..(m + 1) /\ k \in 1..m
      BY <1>0, <1>4
    <3>2. Row(mark, lines[k]) \in Marked(T)
      BY <1>1, <3>1
    <3> QED
      BY <3>1, <3>2
  <2>2. /\ rest(k + 1) \in Seq(Marked(T)) /\ Len(rest(k + 1)) = m - (k + 1) + 1
        /\ \A i \in 1..(m - (k + 1) + 1) : rest(k + 1)[i] = Row(mark, lines[(k + 1) + i - 1])
    BY <1>2, <2>1
  <2> HIDE DEF one
  <2>3. Joins(Marked(T), one, rest(k + 1), all)
    BY <2>1, <2>2, JoinedIs
  <2> HIDE DEF all
  <2>4. /\ all \in Seq(Marked(T)) /\ Len(all) = m - k + 1 /\ all[1] = Row(mark, lines[k])
        /\ \A i \in 1..(m - k) : all[1 + i] = Row(mark, lines[k + i])
    <3>1. /\ all \in Seq(Marked(T)) /\ Len(all) = 1 + Len(rest(k + 1))
          /\ all[1] = one[1]
          /\ \A i \in 1..Len(rest(k + 1)) : all[1 + i] = rest(k + 1)[i]
      BY <2>1, <2>2, <2>3 DEF Joins
    <3>2. ASSUME NEW i \in 1..(m - k) PROVE all[1 + i] = Row(mark, lines[k + i])
      <4>1. i \in 1..(m - (k + 1) + 1) /\ (k + 1) + i - 1 = k + i
        BY <1>0
      <4> QED
        BY <2>2, <3>1, <4>1
    <3>3. Len(all) = m - k + 1
      <4>1. \A x, y \in Int : x = m - (k + 1) + 1 /\ y = 1 + x => y = m - k + 1
        BY <1>0
      <4>2. Len(all) \in Int /\ Len(rest(k + 1)) \in Int
        BY <2>2, <3>1
      <4> QED
        BY <2>2, <3>1, <4>1, <4>2
    <3> QED
      BY <2>1, <3>1, <3>2, <3>3
  <2>5. ASSUME NEW i \in 1..(m - k + 1) PROVE all[i] = rest(k)[i]
    <3>1. rest(k)[i] = Row(mark, lines[k + i - 1])
      BY <1>2
    <3>2. CASE i = 1
      <4>1. k + i - 1 = k
        BY <3>2
      <4> QED
        BY <2>4, <3>1, <3>2, <4>1
    <3>3. CASE i # 1
      <4>1. i - 1 \in 1..(m - k) /\ 1 + (i - 1) = i /\ k + (i - 1) = k + i - 1
        BY <1>0, <3>3
      <4> QED
        BY <2>4, <3>1, <4>1
    <3> QED
      BY <3>2, <3>3
  <2>6. all = rest(k)
    <3>1. rest(k) \in Seq(Marked(T)) /\ Len(rest(k)) = m - k + 1
      BY <1>2
    <3> QED
      BY <2>4, <2>5, <3>1, SeqEqual
  <2> QED
    BY <2>6 DEF all, one
<1> QED
  BY <1>2, <1>3, <1>4 DEF rest, RestStep

IsRows(T, old, new, m, n, lcs, rows) ==
  /\ rows \in [Places(old, new) -> Seq(Marked(T))]
  /\ \A i \in 1..(m + 1), j \in 1..(n + 1) :
       /\ i > m /\ j > n => rows[<<i, j>>] = <<>>
       /\ i > m /\ j <= n => rows[<<i, j>>] = <<Row("+", new[j])>> \o rows[<<i, j + 1>>]
       /\ i <= m /\ j > n => rows[<<i, j>>] = <<Row("-", old[i])>> \o rows[<<i + 1, j>>]
       /\ i <= m /\ j <= n /\ old[i] = new[j] =>
            rows[<<i, j>>] = <<Row(Blank, old[i])>> \o rows[<<i + 1, j + 1>>]
       /\ i <= m /\ j <= n /\ old[i] # new[j] /\ lcs[<<i + 1, j>>] >= lcs[<<i, j + 1>>] =>
            rows[<<i, j>>] = <<Row("-", old[i])>> \o rows[<<i + 1, j>>]
       /\ i <= m /\ j <= n /\ old[i] # new[j] /\ ~(lcs[<<i + 1, j>>] >= lcs[<<i, j + 1>>]) =>
            rows[<<i, j>>] = <<Row("+", new[j])>> \o rows[<<i, j + 1>>]

\* renderConfigDiff is the first entry of such a table.
LEMMA RowsIs ==
  ASSUME NEW T, NEW old, NEW new, NEW m, NEW n, Both(T, old, new, m, n)
  PROVE  \E rows : IsRows(T, old, new, m, n, LCS(old, new), rows) /\ Rows(old, new) = rows[<<1, 1>>]
<1> DEFINE S == Places(old, new)
           V == Seq(Marked(T))
           lcs == LCS(old, new)
           Body(f, i, j) ==
             IF i > m THEN Rest("+", new, j)
             ELSE IF j > n THEN Rest("-", old, i)
             ELSE IF old[i] = new[j] THEN <<Row(Blank, old[i])>> \o f[<<i + 1, j + 1>>]
             ELSE IF lcs[<<i + 1, j>>] >= lcs[<<i, j + 1>>]
               THEN <<Row("-", old[i])>> \o f[<<i + 1, j>>]
               ELSE <<Row("+", new[j])>> \o f[<<i, j + 1>>]
           G == [f \in [S -> V] |-> [at \in S |-> Body(f, at[1], at[2])]]
           left == [at \in S |-> Left(m, n, at)]
           rows == CHOOSE f : f = [at \in S |-> Body(f, at[1], at[2])]
<1> HIDE DEF lcs
<1>0. m \in Nat /\ n \in Nat /\ Lists(old, m, T) /\ Lists(new, n, T) /\ Len(old) = m /\ Len(new) = n
  BY DEF Both, Lists
<1>1. /\ S = (1..(m + 1)) \X (1..(n + 1))
      /\ left \in [S -> 0..(m + n)]
  BY PlacesAre
<1>2. ASSUME NEW at \in S
      PROVE  /\ at[1] \in 1..(m + 1) /\ at[2] \in 1..(n + 1) /\ at = <<at[1], at[2]>>
             /\ at[1] <= m /\ at[2] <= n =>
                  <<at[1] + 1, at[2] + 1>> \in S /\ left[<<at[1] + 1, at[2] + 1>>] < left[at]
             /\ at[1] <= m => <<at[1] + 1, at[2]>> \in S /\ left[<<at[1] + 1, at[2]>>] < left[at]
             /\ at[2] <= n => <<at[1], at[2] + 1>> \in S /\ left[<<at[1], at[2] + 1>>] < left[at]
  BY StepsAhead
<1>3. /\ \A k \in 1..(m + 1) : Rest("-", old, k) \in V
      /\ \A k \in 1..(n + 1) : Rest("+", new, k) \in V
      /\ Rest("-", old, m + 1) = <<>> /\ Rest("+", new, n + 1) = <<>>
      /\ \A k \in 1..m : Rest("-", old, k) = <<Row("-", old[k])>> \o Rest("-", old, k + 1)
      /\ \A k \in 1..n : Rest("+", new, k) = <<Row("+", new[k])>> \o Rest("+", new, k + 1)
  <2> HIDE DEF V
  <2>0. "-" \in {Blank, "-", "+"} /\ "+" \in {Blank, "-", "+"}
    OBVIOUS
  <2>1. ASSUME NEW k \in 1..(m + 1)
        PROVE  RestStep(T, m, old, "-", k)
    BY <1>0, <2>0, RestIs
  <2>2. ASSUME NEW k \in 1..(n + 1)
        PROVE  RestStep(T, n, new, "+", k)
    BY <1>0, <2>0, RestIs
  <2>3. m + 1 \in 1..(m + 1) /\ n + 1 \in 1..(n + 1)
    BY <1>0
  <2>4. \A k \in 1..m : k \in 1..(m + 1) /\ k <= m
    BY <1>0
  <2>5. \A k \in 1..n : k \in 1..(n + 1) /\ k <= n
    BY <1>0
  <2> QED
    BY <2>1, <2>2, <2>3, <2>4, <2>5 DEF RestStep, V
<1>4. ASSUME NEW s \in V
      PROVE  /\ \A k \in 1..m : <<Row(Blank, old[k])>> \o s \in V /\ <<Row("-", old[k])>> \o s \in V
             /\ \A k \in 1..n : <<Row("+", new[k])>> \o s \in V
  <2>1. \A r \in Marked(T) : <<r>> \o s \in V
    BY ConcatProperties
  <2>2. /\ \A k \in 1..m : Row(Blank, old[k]) \in Marked(T) /\ Row("-", old[k]) \in Marked(T)
        /\ \A k \in 1..n : Row("+", new[k]) \in Marked(T)
    <3>1. /\ \A k \in 1..m : old[k] \in T
          /\ \A k \in 1..n : new[k] \in T
      BY <1>0 DEF Lists
    <3> QED
      BY <3>1 DEF Row, Marked
  <2> HIDE DEF V
  <2> QED
    BY <2>1, <2>2
<1>5. <<>> \in V
  OBVIOUS
<1> HIDE DEF S, V, left
<1>6. ASSUME NEW f, NEW at \in S, \A y \in S : left[y] < left[at] => f[y] \in V
      PROVE  Body(f, at[1], at[2]) \in V
  <2>1. CASE at[1] > m
    BY <1>2, <1>3, <2>1
  <2>2. CASE ~(at[1] > m) /\ at[2] > n
    BY <1>2, <1>3, <2>2
  <2>3. CASE ~(at[1] > m) /\ ~(at[2] > n)
    <3>1. /\ at[1] \in 1..m /\ at[2] \in 1..n
          /\ f[<<at[1] + 1, at[2] + 1>>] \in V
          /\ f[<<at[1] + 1, at[2]>>] \in V /\ f[<<at[1], at[2] + 1>>] \in V
      <4>1. /\ at[1] \in 1..(m + 1) /\ at[2] \in 1..(n + 1)
            /\ at[1] <= m /\ at[2] <= n
        <5>1. at[1] \in 1..(m + 1) /\ at[2] \in 1..(n + 1)
          BY <1>2
        <5> QED
          BY <1>0, <2>3, <5>1
      <4>2. /\ <<at[1] + 1, at[2] + 1>> \in S /\ left[<<at[1] + 1, at[2] + 1>>] < left[at]
            /\ <<at[1] + 1, at[2]>> \in S /\ left[<<at[1] + 1, at[2]>>] < left[at]
            /\ <<at[1], at[2] + 1>> \in S /\ left[<<at[1], at[2] + 1>>] < left[at]
        BY <1>2, <4>1
      <4>3. at[1] \in 1..m /\ at[2] \in 1..n
        BY <1>0, <4>1
      <4> QED
        BY <1>6, <4>2, <4>3
    <3>2. /\ <<Row(Blank, old[at[1]])>> \o f[<<at[1] + 1, at[2] + 1>>] \in V
          /\ <<Row("-", old[at[1]])>> \o f[<<at[1] + 1, at[2]>>] \in V
          /\ <<Row("+", new[at[2]])>> \o f[<<at[1], at[2] + 1>>] \in V
      BY <1>4, <3>1
    <3> QED
      BY <2>3, <3>2
  <2> QED
    BY <2>1, <2>2, <2>3
<1>7. G \in [[S -> V] -> [S -> V]]
  <2>1. ASSUME NEW f \in [S -> V], NEW at \in S PROVE Body(f, at[1], at[2]) \in V
    <3>1. \A y \in S : left[y] < left[at] => f[y] \in V
      OBVIOUS
    <3> HIDE DEF Body
    <3> QED
      BY <1>6, <3>1
  <2> HIDE DEF Body
  <2> QED
    BY <2>1
<1>8. ASSUME NEW f \in [S -> V], NEW g \in [S -> V], NEW at \in S,
             \A y \in S : left[y] < left[at] => f[y] = g[y]
      PROVE  G[f][at] = G[g][at]
  <2>1. Body(f, at[1], at[2]) = Body(g, at[1], at[2])
    <3>1. CASE at[1] > m \/ at[2] > n
      BY <1>2, <3>1
    <3>2. CASE ~(at[1] > m) /\ ~(at[2] > n)
      <4>1. /\ f[<<at[1] + 1, at[2] + 1>>] = g[<<at[1] + 1, at[2] + 1>>]
            /\ f[<<at[1] + 1, at[2]>>] = g[<<at[1] + 1, at[2]>>]
            /\ f[<<at[1], at[2] + 1>>] = g[<<at[1], at[2] + 1>>]
        <5>1. /\ at[1] \in 1..(m + 1) /\ at[2] \in 1..(n + 1)
              /\ at[1] <= m /\ at[2] <= n
          <6>1. at[1] \in 1..(m + 1) /\ at[2] \in 1..(n + 1)
            BY <1>2
          <6> QED
            BY <1>0, <3>2, <6>1
        <5>2. /\ <<at[1] + 1, at[2] + 1>> \in S /\ left[<<at[1] + 1, at[2] + 1>>] < left[at]
              /\ <<at[1] + 1, at[2]>> \in S /\ left[<<at[1] + 1, at[2]>>] < left[at]
              /\ <<at[1], at[2] + 1>> \in S /\ left[<<at[1], at[2] + 1>>] < left[at]
          BY <1>2, <5>1
        <5> QED
          BY <1>8, <5>2
      <4> QED
        BY <3>2, <4>1
    <3> QED
      BY <3>1, <3>2
  <2> HIDE DEF Body
  <2> QED
    BY <2>1
<1>9. Recursion(S, V, m + n, left, G)
  <2> HIDE DEF G
  <2>1. \A f, g \in [S -> V] : \A at \in S :
          (\A y \in S : left[y] < left[at] => f[y] = g[y]) => G[f][at] = G[g][at]
    BY <1>8
  <2>2. m + n \in Nat /\ V # {}
    BY <1>0, <1>5
  <2> QED
    BY <1>1, <1>7, <2>1, <2>2 DEF Recursion
<1>10. PICK f \in [S -> V] : f = G[f]
  <2> HIDE DEF G
  <2> QED
    BY <1>9, RecursionExists
<1>11. f = [at \in S |-> Body(f, at[1], at[2])]
  <2> HIDE DEF Body
  <2> QED
    BY <1>10
<1>12. rows = [at \in S |-> Body(rows, at[1], at[2])]
  <2> HIDE DEF Body
  <2> QED
    BY <1>11
<1>13. Rows(old, new) = rows[<<1, 1>>]
  BY <1>0 DEF Rows, S, lcs
<1> HIDE DEF rows
<1>14. rows \in [S -> V]
  <2> DEFINE P == {at \in S : rows[at] \in V}
  <2>1. ASSUME NEW at \in S, \A y \in S : left[y] < left[at] => y \in P PROVE at \in P
    <3>1. rows[at] = Body(rows, at[1], at[2])
      <4> HIDE DEF Body
      <4> QED
        BY <1>12
    <3>2. Body(rows, at[1], at[2]) \in V
      <4>1. \A y \in S : left[y] < left[at] => rows[y] \in V
        BY <2>1
      <4> HIDE DEF Body
      <4> QED
        BY <1>6, <4>1
    <3> QED
      BY <3>1, <3>2
  <2>2. left \in [S -> Nat]
    BY <1>1
  <2> HIDE DEF P
  <2>3. S \subseteq P
    BY <2>1, <2>2, MeasureInduction
  <2>4. \A at \in S : rows[at] \in V
    BY <2>3 DEF P
  <2>5. rows = [at \in S |-> rows[at]]
    BY <1>12
  <2> QED
    BY <2>4, <2>5
<1>15. ASSUME NEW i \in 1..(m + 1), NEW j \in 1..(n + 1)
       PROVE  rows[<<i, j>>] = Body(rows, i, j)
  <2>1. <<i, j>> \in S
    BY <1>1
  <2> HIDE DEF Body
  <2> QED
    BY <1>12, <2>1
<1>16. IsRows(T, old, new, m, n, lcs, rows)
  <2>1. ASSUME NEW i \in 1..(m + 1), NEW j \in 1..(n + 1)
        PROVE  /\ i > m /\ j > n => rows[<<i, j>>] = <<>>
               /\ i > m /\ j <= n => rows[<<i, j>>] = <<Row("+", new[j])>> \o rows[<<i, j + 1>>]
               /\ i <= m /\ j > n => rows[<<i, j>>] = <<Row("-", old[i])>> \o rows[<<i + 1, j>>]
    <3>1. i > m => rows[<<i, j>>] = Rest("+", new, j) /\ (j <= n => rows[<<i, j + 1>>] = Rest("+", new, j + 1))
      <4>1. ASSUME i > m PROVE rows[<<i, j>>] = Rest("+", new, j)
        BY <1>15, <4>1
      <4>2. ASSUME i > m, j <= n PROVE rows[<<i, j + 1>>] = Rest("+", new, j + 1)
        <5>1. j + 1 \in 1..(n + 1)
          BY <1>0, <4>2
        <5>2. rows[<<i, j + 1>>] = Body(rows, i, j + 1)
          BY <1>15, <5>1
        <5> QED
          BY <4>2, <5>2
      <4> QED
        BY <4>1, <4>2
    <3>2. i <= m /\ j > n => rows[<<i, j>>] = Rest("-", old, i) /\ rows[<<i + 1, j>>] = Rest("-", old, i + 1)
      <4> SUFFICES ASSUME i <= m, j > n
                   PROVE  rows[<<i, j>>] = Rest("-", old, i) /\ rows[<<i + 1, j>>] = Rest("-", old, i + 1)
        OBVIOUS
      <4>1. rows[<<i, j>>] = Rest("-", old, i)
        <5>1. rows[<<i, j>>] = Body(rows, i, j) /\ ~(i > m)
          <6>1. ~(i > m)
            BY <1>0
          <6> HIDE DEF Body
          <6> QED
            BY <1>15, <6>1
        <5> QED
          BY <5>1
      <4>2. i + 1 \in 1..(m + 1) /\ j = n + 1
        BY <1>0
      <4>3. rows[<<i + 1, j>>] = Body(rows, i + 1, j)
        BY <1>15, <4>2
      <4>4. CASE i + 1 > m
        <5>1. i + 1 = m + 1
          BY <1>0, <4>2, <4>4
        <5> QED
          BY <1>3, <4>1, <4>2, <4>3, <4>4, <5>1
      <4>5. CASE ~(i + 1 > m)
        BY <4>1, <4>3, <4>5
      <4> QED
        BY <4>4, <4>5
    <3>3. /\ i > m /\ j > n => j = n + 1
          /\ i <= m => i \in 1..m
          /\ j <= n => j \in 1..n
      BY <1>0
    <3>4. ASSUME i > m, j <= n PROVE rows[<<i, j>>] = <<Row("+", new[j])>> \o rows[<<i, j + 1>>]
      BY <1>3, <3>1, <3>3, <3>4
    <3>5. ASSUME i <= m, j > n PROVE rows[<<i, j>>] = <<Row("-", old[i])>> \o rows[<<i + 1, j>>]
      BY <1>3, <3>2, <3>3, <3>5
    <3>6. ASSUME i > m, j > n PROVE rows[<<i, j>>] = <<>>
      BY <1>3, <3>1, <3>3, <3>6
    <3> QED
      BY <3>4, <3>5, <3>6
  <2>2. ASSUME NEW i \in 1..(m + 1), NEW j \in 1..(n + 1), i <= m, j <= n
        PROVE  /\ old[i] = new[j] => rows[<<i, j>>] = <<Row(Blank, old[i])>> \o rows[<<i + 1, j + 1>>]
               /\ old[i] # new[j] /\ lcs[<<i + 1, j>>] >= lcs[<<i, j + 1>>] =>
                    rows[<<i, j>>] = <<Row("-", old[i])>> \o rows[<<i + 1, j>>]
               /\ old[i] # new[j] /\ ~(lcs[<<i + 1, j>>] >= lcs[<<i, j + 1>>]) =>
                    rows[<<i, j>>] = <<Row("+", new[j])>> \o rows[<<i, j + 1>>]
    <3>1. rows[<<i, j>>] = Body(rows, i, j) /\ ~(i > m) /\ ~(j > n)
      <4>1. ~(i > m) /\ ~(j > n)
        BY <1>0, <2>2
      <4> HIDE DEF Body
      <4> QED
        BY <1>15, <4>1
    <3> QED
      BY <3>1
  <2> HIDE DEF Body
  <2> QED
    BY <1>14, <2>1, <2>2 DEF IsRows, S, V
<1> QED
  BY <1>13, <1>16 DEF lcs

\* One row before others.
Ahead(S, row, rows) == row \in Marked(S) /\ rows \in Seq(Marked(S))

\* The rows with one more before them, of which there are n without it.
AheadBy(S, row, rows, n) ==
  /\ n = Len(rows) /\ Lists(rows, n, Marked(S))
  /\ <<row>> \o rows \in Seq(Marked(S)) /\ Len(<<row>> \o rows) = n + 1
  /\ Lists(<<row>> \o rows, n + 1, Marked(S))
  /\ (<<row>> \o rows)[1] = row
  /\ \A k \in 1..n : (<<row>> \o rows)[k + 1] = rows[k]

\* Rows with one more ahead, index by index.
LEMMA AheadIs ==
  ASSUME NEW S, NEW row, NEW rows, Ahead(S, row, rows)
  PROVE  \E n \in Nat : AheadBy(S, row, rows, n)
<1> DEFINE one == <<row>>
           all == one \o rows
<1>1. PICK n \in Nat : n = Len(rows) /\ rows \in [1..n -> Marked(S)]
  BY LenProperties DEF Ahead
<1>2. one \in Seq(Marked(S)) /\ Len(one) = 1 /\ one[1] = row
  BY DEF Ahead
<1>3. rows \in Seq(Marked(S))
  BY DEF Ahead
<1> HIDE DEF one
<1>4. Joins(Marked(S), one, rows, all)
  BY <1>2, <1>3, JoinedIs
<1> HIDE DEF all
<1>5. all \in Seq(Marked(S)) /\ Len(all) = n + 1 /\ all[1] = row
  BY <1>1, <1>2, <1>4 DEF Joins
<1>6. ASSUME NEW k \in 1..n PROVE all[k + 1] = rows[k]
  <2>1. 1 + k = k + 1
    OBVIOUS
  <2> QED
    BY <1>1, <1>2, <1>4, <2>1 DEF Joins
<1>7. Lists(all, n + 1, Marked(S)) /\ Lists(rows, n, Marked(S))
  BY <1>1, <1>5, LenProperties DEF Lists
<1> QED
  BY <1>1, <1>5, <1>6, <1>7 DEF all, one, AheadBy

SideStep(S, row, rows, other) ==
  /\ Side(rows, other) \in Seq(S)
  /\ row.mark # other => Side(<<row>> \o rows, other) = <<row.line>> \o Side(rows, other)
  /\ row.mark = other => Side(<<row>> \o rows, other) = Side(rows, other)

\* The row ahead shows on its side, ...
LEMMA SideIs ==
  ASSUME NEW S, NEW row, NEW rows, Ahead(S, row, rows), NEW other
  PROVE  SideStep(S, row, rows, other)
<1> DEFINE all == <<row>> \o rows
<1>1. PICK n \in Nat :
           /\ n = Len(rows) /\ Lists(rows, n, Marked(S))
           /\ all \in Seq(Marked(S)) /\ Len(all) = n + 1
           /\ Lists(all, n + 1, Marked(S))
           /\ all[1] = row
           /\ \A k \in 1..n : all[k + 1] = rows[k]
  <2>1. PICK n \in Nat : AheadBy(S, row, rows, n)
    BY AheadIs
  <2> QED
    BY <2>1 DEF AheadBy
<1> HIDE DEF all
<1>2. PICK h : SideTrace(S, n, rows, other, h)
  BY <1>1, SideSteps
<1>3. PICK g : SideTrace(S, n + 1, all, other, g)
  BY <1>1, SideSteps
<1> DEFINE P == {k \in 1..(n + 1) : g[k + 1] = h[k]}
<1>4. n + 1 \in P
  BY <1>2, <1>3 DEF SideTrace
<1>5. ASSUME NEW k \in 1..n, k + 1 \in P PROVE k \in P
  <2>1. k + 1 \in 1..(n + 1) /\ k \in 1..(n + 1) /\ g[(k + 1) + 1] = h[k + 1] /\ all[k + 1] = rows[k]
    BY <1>1, <1>5
  <2>2. g[k + 1] = IF all[k + 1].mark # other THEN <<all[k + 1].line>> \o g[(k + 1) + 1] ELSE g[(k + 1) + 1]
    BY <1>3, <2>1 DEF SideTrace
  <2>3. h[k] = IF rows[k].mark # other THEN <<rows[k].line>> \o h[k + 1] ELSE h[k + 1]
    BY <1>2 DEF SideTrace
  <2>4. g[k + 1] = h[k]
    BY <2>1, <2>2, <2>3
  <2> QED
    BY <2>1, <2>4
<1> HIDE DEF P
<1>6. 1..(n + 1) \subseteq P
  BY <1>4, <1>5, DownFrom
<1>7. g[1 + 1] = h[1]
  <2>1. 1 \in 1..(n + 1)
    OBVIOUS
  <2> QED
    BY <1>6, <2>1 DEF P
<1>8. g[1] = IF all[1].mark # other THEN <<all[1].line>> \o g[1 + 1] ELSE g[1 + 1]
  <2>1. 1 \in 1..(n + 1)
    OBVIOUS
  <2> QED
    BY <1>3, <2>1 DEF SideTrace
<1>9. g[1] = Side(all, other) /\ h[1] = Side(rows, other) /\ h[1] \in Seq(S)
  <2>1. 1 \in 1..(n + 1)
    OBVIOUS
  <2> QED
    BY <1>2, <1>3, <2>1 DEF SideTrace
<1> QED
  BY <1>1, <1>7, <1>8, <1>9 DEF SideStep, all

\* No rows show nothing.
LEMMA SideOfNone ==
  ASSUME NEW other
  PROVE  Side(<<>>, other) = <<>>
<1>1. Lists(<<>>, 0, Marked({}))
  <2>1. <<>> \in [1..0 -> Marked({})]
    OBVIOUS
  <2> QED
    BY <2>1 DEF Lists
<1>2. PICK h : SideTrace({}, 0, <<>>, other, h)
  BY <1>1, SideSteps
<1>3. h[0 + 1] = <<>> /\ h[1] = Side(<<>>, other)
  BY <1>2 DEF SideTrace
<1> QED
  BY <1>3

\* The rows that stay as they were.
Kept(rows) == {k \in DOMAIN rows : rows[k].mark = Blank}

KeptStep(row, rows) ==
  /\ IsFiniteSet(Kept(rows)) /\ Cardinality(Kept(rows)) \in Nat
  /\ row.mark = Blank => Cardinality(Kept(<<row>> \o rows)) = Cardinality(Kept(rows)) + 1
  /\ row.mark # Blank => Cardinality(Kept(<<row>> \o rows)) = Cardinality(Kept(rows))

\* ... and counts as kept when it is marked as of both.
LEMMA KeptIs ==
  ASSUME NEW S, NEW row, NEW rows, Ahead(S, row, rows)
  PROVE  KeptStep(row, rows)
<1> DEFINE all == <<row>> \o rows
<1>1. PICK n \in Nat :
           /\ n = Len(rows) /\ Lists(rows, n, Marked(S))
           /\ all \in Seq(Marked(S)) /\ Len(all) = n + 1
           /\ Lists(all, n + 1, Marked(S))
           /\ all[1] = row
           /\ \A k \in 1..n : all[k + 1] = rows[k]
  <2>1. PICK n \in Nat : AheadBy(S, row, rows, n)
    BY AheadIs
  <2> QED
    BY <2>1 DEF AheadBy
<1> HIDE DEF all
<1>2. DOMAIN rows = 1..n /\ DOMAIN all = 1..(n + 1)
  BY <1>1 DEF Lists
<1> DEFINE before == Kept(rows)
           later == {k + 1 : k \in before}
           up == [k \in before |-> k + 1]
<1>3. before \subseteq 1..n
  BY <1>2 DEF Kept
<1>4. IsFiniteSet(before)
  <2>1. IsFiniteSet(1..n)
    BY FS_Interval
  <2> QED
    BY <1>3, <2>1, FS_Subset
<1>5. IsFiniteSet(later) /\ Cardinality(later) = Cardinality(before)
  <2> HIDE DEF before
  <2>1. up \in [before -> later]
    OBVIOUS
  <2>2. \A t \in later : \E s \in before : up[s] = t
    OBVIOUS
  <2>3. \A a, b \in before : up[a] = up[b] => a = b
    BY <1>3
  <2> HIDE DEF later, up
  <2>4. up \in Surjection(before, later) /\ up \in Injection(before, later)
    BY <2>1, <2>2, <2>3 DEF Surjection, Injection, IsInjective
  <2> QED
    BY <1>4, <2>4, FS_Surjection
<1>6. 1 \notin later
  BY <1>3
<1>7. ASSUME NEW k \in 1..(n + 1), k # 1 PROVE k \in Kept(all) <=> k \in later
  <2>1. k - 1 \in 1..n /\ (k - 1) + 1 = k
    BY <1>7
  <2>2. all[k] = rows[k - 1]
    BY <1>1, <2>1
  <2>3. k \in later <=> k - 1 \in before
    <3> HIDE DEF before
    <3>1. \A x \in before : x + 1 = k => x = k - 1
      BY <1>3
    <3> QED
      BY <2>1, <3>1
  <2> QED
    BY <1>2, <2>1, <2>2, <2>3 DEF Kept
<1>8. later \subseteq 1..(n + 1) /\ Kept(all) \subseteq 1..(n + 1)
  BY <1>2, <1>3 DEF Kept
<1>9. 1 \in Kept(all) <=> row.mark = Blank
  BY <1>1, <1>2 DEF Kept
<1> HIDE DEF later, before, up
<1>10. ASSUME row.mark = Blank PROVE Kept(all) = later \cup {1}
  BY <1>7, <1>8, <1>9, <1>10
<1>11. ASSUME row.mark # Blank PROVE Kept(all) = later
  <2>1. 1 \notin Kept(all)
    BY <1>9, <1>11
  <2>2. ASSUME NEW k PROVE k \in Kept(all) <=> k \in later
    BY <1>6, <1>7, <1>8, <2>1
  <2> QED
    BY <2>2
<1>12. Cardinality(later \cup {1}) = Cardinality(later) + 1
  BY <1>5, <1>6, FS_AddElement
<1>13. Cardinality(before) \in Nat
  BY <1>4, FS_CardinalityType
<1> QED
  BY <1>4, <1>5, <1>10, <1>11, <1>12, <1>13 DEF KeptStep, all, before

\* What is left of a document, a line at a time.
TailStep(T, m, lines, k) ==
  /\ SubSeq(lines, k, m) \in Seq(T)
  /\ k = m + 1 => SubSeq(lines, k, m) = <<>>
  /\ k <= m => SubSeq(lines, k, m) = <<lines[k]>> \o SubSeq(lines, k + 1, m)

\* A document is a line and what is left.
LEMMA TailSteps ==
  ASSUME NEW T, NEW m, NEW lines, Lists(lines, m, T), NEW k \in 1..(m + 1)
  PROVE  TailStep(T, m, lines, k)
<1>0. m \in Nat /\ lines \in [1..m -> T]
  BY DEF Lists
<1> DEFINE tail(l) == SubSeq(lines, l, m)
<1>1. ASSUME NEW l \in 1..(m + 1)
      PROVE  /\ tail(l) \in Seq(T) /\ Len(tail(l)) = m - l + 1
             /\ \A i \in 1..(m - l + 1) : tail(l)[i] = lines[l + i - 1]
  <2>1. \A i \in l..m : lines[i] \in T
    BY <1>0
  <2>2. l \in Int /\ m \in Int
    BY <1>0
  <2>3. /\ SubSeq(lines, l, m) \in Seq(T)
        /\ Len(SubSeq(lines, l, m)) = IF l <= m THEN m - l + 1 ELSE 0
        /\ \A i \in 1..(m - l + 1) : SubSeq(lines, l, m)[i] = lines[l + i - 1]
    BY <2>1, <2>2, SubSeqProperties
  <2>4. (IF l <= m THEN m - l + 1 ELSE 0) = m - l + 1
    BY <1>0
  <2> QED
    BY <2>3, <2>4
<1> HIDE DEF tail
<1>2. ASSUME k = m + 1 PROVE tail(k) = <<>>
  <2>1. tail(k) \in Seq(T) /\ Len(tail(k)) = m - k + 1
    BY <1>1
  <2>2. Len(tail(k)) = 0
    BY <1>0, <1>2, <2>1
  <2> QED
    BY <2>1, <2>2, EmptySeq
<1>3. ASSUME k <= m PROVE tail(k) = <<lines[k]>> \o tail(k + 1)
  <2> DEFINE one == <<lines[k]>>
             all == one \o tail(k + 1)
  <2>1. /\ one \in Seq(T) /\ Len(one) = 1 /\ one[1] = lines[k]
        /\ k + 1 \in 1..(m + 1) /\ k \in 1..m
    <3>1. k + 1 \in 1..(m + 1) /\ k \in 1..m
      BY <1>0, <1>3
    <3>2. lines[k] \in T
      BY <1>0, <3>1
    <3> QED
      BY <3>1, <3>2
  <2>2. /\ tail(k + 1) \in Seq(T) /\ Len(tail(k + 1)) = m - (k + 1) + 1
        /\ \A i \in 1..(m - (k + 1) + 1) : tail(k + 1)[i] = lines[(k + 1) + i - 1]
    BY <1>1, <2>1
  <2> HIDE DEF one
  <2>3. Joins(T, one, tail(k + 1), all)
    BY <2>1, <2>2, JoinedIs
  <2> HIDE DEF all
  <2>4. /\ all \in Seq(T) /\ Len(all) = m - k + 1 /\ all[1] = lines[k]
        /\ \A i \in 1..(m - k) : all[1 + i] = lines[k + i]
    <3>1. /\ all \in Seq(T) /\ Len(all) = 1 + Len(tail(k + 1))
          /\ all[1] = one[1]
          /\ \A i \in 1..Len(tail(k + 1)) : all[1 + i] = tail(k + 1)[i]
      BY <2>1, <2>2, <2>3 DEF Joins
    <3>2. ASSUME NEW i \in 1..(m - k) PROVE all[1 + i] = lines[k + i]
      <4>1. i \in 1..(m - (k + 1) + 1) /\ (k + 1) + i - 1 = k + i
        BY <1>0
      <4> QED
        BY <2>2, <3>1, <4>1
    <3>3. Len(all) = m - k + 1
      <4>1. \A x, y \in Int : x = m - (k + 1) + 1 /\ y = 1 + x => y = m - k + 1
        BY <1>0
      <4>2. Len(all) \in Int /\ Len(tail(k + 1)) \in Int
        BY <2>2, <3>1
      <4> QED
        BY <2>2, <3>1, <4>1, <4>2
    <3> QED
      BY <2>1, <3>1, <3>2, <3>3
  <2>5. ASSUME NEW i \in 1..(m - k + 1) PROVE all[i] = tail(k)[i]
    <3>1. tail(k)[i] = lines[k + i - 1]
      BY <1>1
    <3>2. CASE i = 1
      <4>1. k + i - 1 = k
        BY <3>2
      <4> QED
        BY <2>4, <3>1, <3>2, <4>1
    <3>3. CASE i # 1
      <4>1. i - 1 \in 1..(m - k) /\ 1 + (i - 1) = i /\ k + (i - 1) = k + i - 1
        BY <1>0, <3>3
      <4> QED
        BY <2>4, <3>1, <4>1
    <3> QED
      BY <3>2, <3>3
  <2>6. all = tail(k)
    <3>1. tail(k) \in Seq(T) /\ Len(tail(k)) = m - k + 1
      BY <1>1
    <3> QED
      BY <2>4, <2>5, <3>1, SeqEqual
  <2> QED
    BY <2>6 DEF all, one
<1> QED
  BY <1>1, <1>2, <1>3 DEF tail, TailStep

\* Left from the first line on is all of it.
LEMMA TailIsAll ==
  ASSUME NEW T, NEW m, NEW lines, Lists(lines, m, T)
  PROVE  SubSeq(lines, 1, m) = lines
<1>0. m \in Nat /\ lines \in Seq(T) /\ Len(lines) = m /\ lines \in [1..m -> T]
  <2>1. m \in Nat /\ lines \in [1..m -> T]
    BY DEF Lists
  <2> QED
    BY <2>1
<1>1. /\ SubSeq(lines, 1, m) \in Seq(T)
      /\ Len(SubSeq(lines, 1, m)) = m
      /\ \A i \in 1..m : SubSeq(lines, 1, m)[i] = lines[i]
  <2>1. \A i \in 1..m : lines[i] \in T
    BY <1>0
  <2>2. 1 \in Int /\ m \in Int /\ (IF 1 <= m THEN m - 1 + 1 ELSE 0) = m /\ m - 1 + 1 = m
    BY <1>0
  <2>3. /\ SubSeq(lines, 1, m) \in Seq(T)
        /\ Len(SubSeq(lines, 1, m)) = IF 1 <= m THEN m - 1 + 1 ELSE 0
        /\ \A i \in 1..(m - 1 + 1) : SubSeq(lines, 1, m)[i] = lines[1 + i - 1]
    BY <2>1, <2>2, SubSeqProperties
  <2>4. \A i \in 1..m : 1 + i - 1 = i
    BY <1>0
  <2> QED
    BY <2>2, <2>3, <2>4
<1> QED
  BY <1>0, <1>1, SeqEqual

\* I may be kept from a place on: old lines from at[1] that go to equal new lines from at[2], in order.
Matches(old, new, m, n, I, to, at) ==
  /\ I \subseteq at[1]..m /\ to \in [I -> at[2]..n]
  /\ \A x \in I : new[to[x]] = old[x]
  /\ \A x, y \in I : x < y => to[x] < to[y]

MatchesAhead(T, old, new, m, n, I, to, i, j) ==
  /\ Both(T, old, new, m, n) /\ i \in 1..(m + 1) /\ j \in 1..(n + 1)
  /\ Matches(old, new, m, n, I, to, <<i, j>>)

\* Nothing is kept past the end of a document, ...
LEMMA NothingKept ==
  ASSUME NEW T, NEW old, NEW new, NEW m, NEW n, NEW I, NEW to, NEW i, NEW j,
         MatchesAhead(T, old, new, m, n, I, to, i, j), i > m \/ j > n
  PROVE  I = {}
<1>1. /\ m \in Nat /\ n \in Nat /\ i \in 1..(m + 1) /\ j \in 1..(n + 1)
      /\ I \subseteq i..m /\ to \in [I -> j..n]
  BY DEF MatchesAhead, Both, Lists, Matches
<1>2. \A x \in I : i <= m /\ j <= n
  <2> TAKE x \in I
  <2>1. x \in i..m /\ to[x] \in j..n
    BY <1>1
  <2> QED
    BY <1>1, <2>1
<1> QED
  BY <1>1, <1>2

\* ... the lines after the first one kept go past the place of both, ...
AllBut(old, new, m, n, I, to, i, j, a) ==
  Matches(old, new, m, n, I \ {a}, [x \in I \ {a} |-> to[x]], <<i + 1, j + 1>>)

\* When the first line kept goes to this one, what else is kept comes after both; ...
LEMMA KeptAfter ==
  ASSUME NEW T, NEW old, NEW new, NEW m, NEW n, NEW I, NEW to, NEW i, NEW j,
         MatchesAhead(T, old, new, m, n, I, to, i, j), i <= m, j <= n, I # {}
  PROVE  \E a \in I : AllBut(old, new, m, n, I, to, i, j, a)
<1>1. /\ m \in Nat /\ n \in Nat /\ i \in 1..(m + 1) /\ j \in 1..(n + 1)
      /\ I \subseteq i..m /\ to \in [I -> j..n]
      /\ \A x \in I : new[to[x]] = old[x]
      /\ \A x, y \in I : x < y => to[x] < to[y]
  BY DEF MatchesAhead, Both, Lists, Matches
<1>2. \A x \in I : x \in Nat /\ i <= x /\ x <= m /\ to[x] \in Nat /\ j <= to[x] /\ to[x] <= n
  <2> TAKE x \in I
  <2>1. x \in i..m /\ to[x] \in j..n
    BY <1>1
  <2> QED
    BY <1>1, <2>1
<1>3. PICK a \in I : \A x \in I : a <= x
  <2>1. I \in SUBSET Nat
    BY <1>2
  <2> QED
    BY <2>1, LeastNatural
<1> DEFINE J == I \ {a}
           past == [x \in J |-> to[x]]
<1>4. ASSUME NEW x \in J PROVE x \in (i + 1)..m /\ to[x] \in (j + 1)..n
  <2>1. a < x
    BY <1>2, <1>3
  <2>2. to[a] < to[x]
    BY <1>1, <2>1
  <2> QED
    BY <1>1, <1>2, <2>1, <2>2
<1>5. past \in [J -> (j + 1)..n] /\ J \subseteq (i + 1)..m
  BY <1>4
<1>6. \A x \in J : past[x] = to[x] /\ x \in I
  OBVIOUS
<1> HIDE DEF J, past
<1>7. Matches(old, new, m, n, J, past, <<i + 1, j + 1>>)
  BY <1>1, <1>5, <1>6 DEF Matches
<1> QED
  BY <1>7 DEF J, past, AllBut

\* ... and of two different lines at most one is kept.
LEMMA KeptPast ==
  ASSUME NEW T, NEW old, NEW new, NEW m, NEW n, NEW I, NEW to, NEW i, NEW j,
         MatchesAhead(T, old, new, m, n, I, to, i, j), i <= m, j <= n, old[i] # new[j]
  PROVE  \/ Matches(old, new, m, n, I, to, <<i + 1, j>>)
         \/ Matches(old, new, m, n, I, to, <<i, j + 1>>)
<1>1. /\ m \in Nat /\ n \in Nat /\ i \in 1..(m + 1) /\ j \in 1..(n + 1)
      /\ I \subseteq i..m /\ to \in [I -> j..n]
      /\ \A x \in I : new[to[x]] = old[x]
      /\ \A x, y \in I : x < y => to[x] < to[y]
  BY DEF MatchesAhead, Both, Lists, Matches
<1>2. \A x \in I : x \in Nat /\ i <= x /\ x <= m /\ to[x] \in Nat /\ j <= to[x] /\ to[x] <= n
  <2> TAKE x \in I
  <2>1. x \in i..m /\ to[x] \in j..n
    BY <1>1
  <2> QED
    BY <1>1, <2>1
<1>3. CASE i \notin I
  <2>1. I \subseteq (i + 1)..m
    <3> SUFFICES ASSUME NEW x \in I PROVE x \in (i + 1)..m
      OBVIOUS
    <3>1. x # i
      BY <1>3
    <3> QED
      BY <1>1, <1>2, <3>1
  <2> QED
    BY <1>1, <2>1 DEF Matches
<1>4. CASE i \in I
  <2>1. to[i] # j
    BY <1>1, <1>4
  <2>2. \A x \in I : to[x] \in (j + 1)..n
    <3> TAKE x \in I
    <3>1. i = x \/ i < x
      BY <1>1, <1>2
    <3>2. to[i] <= to[x]
      BY <1>1, <1>2, <1>4, <3>1
    <3> QED
      BY <1>1, <1>2, <1>4, <2>1, <3>2
  <2>3. to \in [I -> (j + 1)..n]
    BY <1>1, <2>2
  <2> QED
    BY <1>1, <2>3 DEF Matches
<1> QED
  BY <1>3, <1>4

\* So no more of them are kept than the table says.
LEMMA LCSBounds ==
  ASSUME NEW T, NEW old, NEW new, NEW m, NEW n, Both(T, old, new, m, n),
         NEW lcs, IsLCS(old, new, m, n, lcs),
         NEW I, NEW to, Matches(old, new, m, n, I, to, <<1, 1>>)
  PROVE  Cardinality(I) <= lcs[<<1, 1>>]
<1> DEFINE S == Places(old, new)
           left == [at \in S |-> Left(m, n, at)]
           P == {at \in S : \A J \in SUBSET (1..m) : \A f \in [J -> 1..n] :
                   Matches(old, new, m, n, J, f, at) => Cardinality(J) <= lcs[at]}
<1>0. m \in Nat /\ n \in Nat
  BY DEF Both, Lists
<1>1. S = (1..(m + 1)) \X (1..(n + 1)) /\ left \in [S -> 0..(m + n)]
  BY PlacesAre
<1>2. left \in [S -> Nat]
  BY <1>0, <1>1
<1>3. ASSUME NEW at \in S
      PROVE  /\ at[1] \in 1..(m + 1) /\ at[2] \in 1..(n + 1) /\ at = <<at[1], at[2]>>
             /\ at[1] <= m /\ at[2] <= n =>
                  <<at[1] + 1, at[2] + 1>> \in S /\ left[<<at[1] + 1, at[2] + 1>>] < left[at]
             /\ at[1] <= m => <<at[1] + 1, at[2]>> \in S /\ left[<<at[1] + 1, at[2]>>] < left[at]
             /\ at[2] <= n => <<at[1], at[2] + 1>> \in S /\ left[<<at[1], at[2] + 1>>] < left[at]
  BY StepsAhead
<1>4. lcs \in [S -> Nat]
  BY DEF IsLCS
<1> HIDE DEF S, left
<1>5. ASSUME NEW J \in SUBSET (1..m) PROVE IsFiniteSet(J) /\ Cardinality(J) \in Nat
  <2>1. IsFiniteSet(1..m)
    BY <1>0, FS_Interval
  <2> QED
    BY <2>1, FS_Subset, FS_CardinalityType
<1>6. ASSUME NEW at \in S, \A y \in S : left[y] < left[at] => y \in P
      PROVE  at \in P
  <2>1. PICK i, j : at = <<i, j>> /\ i \in 1..(m + 1) /\ j \in 1..(n + 1)
    BY <1>3
  <2>2. at[1] = i /\ at[2] = j
    BY <2>1
  <2> SUFFICES ASSUME NEW J \in SUBSET (1..m), NEW f \in [J -> 1..n],
                      Matches(old, new, m, n, J, f, at)
               PROVE  Cardinality(J) <= lcs[at]
    OBVIOUS
  <2>3. MatchesAhead(T, old, new, m, n, J, f, i, j)
    BY <2>1 DEF MatchesAhead
  <2>4. lcs[at] \in Nat /\ Cardinality(J) \in Nat /\ IsFiniteSet(J)
    BY <1>4, <1>5
  <2>5. CASE i > m \/ j > n
    <3>1. J = {}
      BY <2>3, <2>5, NothingKept
    <3>2. Cardinality(J) = 0
      BY <3>1, FS_EmptySet
    <3> QED
      BY <2>4, <3>2
  <2>6. CASE i <= m /\ j <= n /\ old[i] = new[j]
    <3>1. lcs[at] = lcs[<<i + 1, j + 1>>] + 1
      BY <2>1, <2>6 DEF IsLCS
    <3>2. <<i + 1, j + 1>> \in P
      <4> HIDE DEF P
      <4> QED
        BY <1>3, <1>6, <2>2, <2>6
    <3>3. CASE J = {}
      <4>1. Cardinality(J) = 0
        BY <3>3, FS_EmptySet
      <4> QED
        BY <2>4, <4>1
    <3>4. CASE J # {}
      <4>0. PICK a \in J : AllBut(old, new, m, n, J, f, i, j, a)
        BY <2>3, <2>6, <3>4, KeptAfter
      <4>1. Matches(old, new, m, n, J \ {a}, [x \in J \ {a} |-> f[x]], <<i + 1, j + 1>>)
        BY <4>0 DEF AllBut
      <4>2. J \ {a} \in SUBSET (1..m) /\ [x \in J \ {a} |-> f[x]] \in [J \ {a} -> 1..n]
        OBVIOUS
      <4>3. Cardinality(J \ {a}) <= lcs[<<i + 1, j + 1>>]
        BY <3>2, <4>1, <4>2
      <4>4. Cardinality(J \ {a}) = Cardinality(J) - 1
        BY <2>4, FS_RemoveElement
      <4>5. lcs[<<i + 1, j + 1>>] \in Nat
        BY <1>3, <1>4, <2>2, <2>6
      <4> QED
        BY <2>4, <3>1, <4>3, <4>4, <4>5
    <3> QED
      BY <3>3, <3>4
  <2>7. CASE i <= m /\ j <= n /\ old[i] # new[j]
    <3>1. lcs[at] = IF lcs[<<i + 1, j>>] >= lcs[<<i, j + 1>>] THEN lcs[<<i + 1, j>>] ELSE lcs[<<i, j + 1>>]
      BY <2>1, <2>7 DEF IsLCS
    <3>2. /\ <<i + 1, j>> \in S /\ left[<<i + 1, j>>] < left[at]
          /\ <<i, j + 1>> \in S /\ left[<<i, j + 1>>] < left[at]
      BY <1>3, <2>2, <2>7
    <3>3. <<i + 1, j>> \in P /\ <<i, j + 1>> \in P
      <4> HIDE DEF P
      <4> QED
        BY <1>6, <3>2
    <3>4. lcs[<<i + 1, j>>] \in Nat /\ lcs[<<i, j + 1>>] \in Nat
      BY <1>4, <3>2
    <3>5. \/ Matches(old, new, m, n, J, f, <<i + 1, j>>)
          \/ Matches(old, new, m, n, J, f, <<i, j + 1>>)
      BY <2>3, <2>7, KeptPast
    <3>6. \/ Cardinality(J) <= lcs[<<i + 1, j>>]
          \/ Cardinality(J) <= lcs[<<i, j + 1>>]
      BY <3>3, <3>5
    <3> QED
      BY <2>4, <3>1, <3>4, <3>6
  <2>8. i > m \/ j > n \/ (i <= m /\ j <= n)
    BY <1>0, <2>1
  <2> QED
    BY <2>5, <2>6, <2>7, <2>8
<1> HIDE DEF P
<1>7. S \subseteq P
  BY <1>2, <1>6, MeasureInduction
<1>8. <<1, 1>> \in S
  BY <1>0, <1>1
<1>9. <<1, 1>> \in P
  BY <1>7, <1>8
<1>10. I \in SUBSET (1..m) /\ to \in [I -> 1..n]
  BY DEF Matches
<1> QED
  BY <1>9, <1>10 DEF P

\* The rows from a place on tell what is left of the two documents, and how much of it is common.
Replay(old, new, m, n, lcs, rows, i, j) ==
  /\ Side(rows[<<i, j>>], "+") = SubSeq(old, i, m)
  /\ Side(rows[<<i, j>>], "-") = SubSeq(new, j, n)
  /\ Cardinality(Kept(rows[<<i, j>>])) = lcs[<<i, j>>]

RowStep(row, rows) ==
  /\ row.mark = "-" =>
       /\ Side(<<row>> \o rows, "+") = <<row.line>> \o Side(rows, "+")
       /\ Side(<<row>> \o rows, "-") = Side(rows, "-")
       /\ Cardinality(Kept(<<row>> \o rows)) = Cardinality(Kept(rows))
  /\ row.mark = "+" =>
       /\ Side(<<row>> \o rows, "+") = Side(rows, "+")
       /\ Side(<<row>> \o rows, "-") = <<row.line>> \o Side(rows, "-")
       /\ Cardinality(Kept(<<row>> \o rows)) = Cardinality(Kept(rows))
  /\ row.mark = Blank =>
       /\ Side(<<row>> \o rows, "+") = <<row.line>> \o Side(rows, "+")
       /\ Side(<<row>> \o rows, "-") = <<row.line>> \o Side(rows, "-")
       /\ Cardinality(Kept(<<row>> \o rows)) = Cardinality(Kept(rows)) + 1

\* A row ahead replays by its mark.
LEMMA RowReplays ==
  ASSUME NEW T, NEW row, NEW rows, Ahead(T, row, rows)
  PROVE  RowStep(row, rows)
<1>1. SideStep(T, row, rows, "+") /\ SideStep(T, row, rows, "-")
  BY SideIs
<1>2. KeptStep(row, rows)
  BY KeptIs
<1>3. "-" # "+" /\ Blank # "+" /\ Blank # "-"
  BY Zenon DEF Blank
<1> QED
  BY <1>1, <1>2, <1>3 DEF SideStep, KeptStep, RowStep

\* From every place on the rows replay both documents and keep as many lines as the table says.
LEMMA RowsReplay ==
  ASSUME NEW T, NEW old, NEW new, NEW m, NEW n, Both(T, old, new, m, n),
         NEW lcs, IsLCS(old, new, m, n, lcs),
         NEW rows, IsRows(T, old, new, m, n, lcs, rows)
  PROVE  Replay(old, new, m, n, lcs, rows, 1, 1)
<1> DEFINE S == Places(old, new)
           left == [at \in S |-> Left(m, n, at)]
           P == {at \in S : Replay(old, new, m, n, lcs, rows, at[1], at[2])}
<1>0. m \in Nat /\ n \in Nat /\ Lists(old, m, T) /\ Lists(new, n, T)
      /\ old \in [1..m -> T] /\ new \in [1..n -> T]
  BY DEF Both, Lists
<1>1. S = (1..(m + 1)) \X (1..(n + 1)) /\ left \in [S -> 0..(m + n)]
  BY PlacesAre
<1>2. left \in [S -> Nat]
  BY <1>0, <1>1
<1>3. ASSUME NEW at \in S
      PROVE  /\ at[1] \in 1..(m + 1) /\ at[2] \in 1..(n + 1) /\ at = <<at[1], at[2]>>
             /\ at[1] <= m /\ at[2] <= n =>
                  <<at[1] + 1, at[2] + 1>> \in S /\ left[<<at[1] + 1, at[2] + 1>>] < left[at]
             /\ at[1] <= m => <<at[1] + 1, at[2]>> \in S /\ left[<<at[1] + 1, at[2]>>] < left[at]
             /\ at[2] <= n => <<at[1], at[2] + 1>> \in S /\ left[<<at[1], at[2] + 1>>] < left[at]
  BY StepsAhead
<1>4. lcs \in [S -> Nat] /\ rows \in [S -> Seq(Marked(T))]
  BY DEF IsLCS, IsRows
<1> HIDE DEF S, left
<1>5. ASSUME NEW i, NEW j, <<i, j>> \in P PROVE Replay(old, new, m, n, lcs, rows, i, j)
  <2>1. <<i, j>>[1] = i /\ <<i, j>>[2] = j
    OBVIOUS
  <2> QED
    BY <1>5, <2>1
<1>6. ASSUME NEW at \in S, \A y \in S : left[y] < left[at] => y \in P
      PROVE  at \in P
  <2>1. PICK i, j : at = <<i, j>> /\ i \in 1..(m + 1) /\ j \in 1..(n + 1)
    BY <1>3
  <2>2. at[1] = i /\ at[2] = j
    BY <2>1
  <2> SUFFICES Replay(old, new, m, n, lcs, rows, i, j)
    BY <2>2
  <2>3. /\ i <= m /\ j <= n => <<i + 1, j + 1>> \in P /\ rows[<<i + 1, j + 1>>] \in Seq(Marked(T))
        /\ i <= m => <<i + 1, j>> \in P /\ rows[<<i + 1, j>>] \in Seq(Marked(T))
        /\ j <= n => <<i, j + 1>> \in P /\ rows[<<i, j + 1>>] \in Seq(Marked(T))
    <3> HIDE DEF P
    <3>1. /\ i <= m /\ j <= n => <<i + 1, j + 1>> \in S /\ left[<<i + 1, j + 1>>] < left[at]
          /\ i <= m => <<i + 1, j>> \in S /\ left[<<i + 1, j>>] < left[at]
          /\ j <= n => <<i, j + 1>> \in S /\ left[<<i, j + 1>>] < left[at]
      BY <1>3, <2>2
    <3> QED
      BY <1>4, <1>6, <3>1
  <2> HIDE DEF P
  <2>4. TailStep(T, m, old, i) /\ TailStep(T, n, new, j)
    <3>1. TailStep(T, m, old, i)
      BY <1>0, <2>1, TailSteps
    <3>2. TailStep(T, n, new, j)
      BY <1>0, <2>1, TailSteps
    <3> QED
      BY <3>1, <3>2
  <2>5. /\ i > m => i = m + 1
        /\ j > n => j = n + 1
        /\ i > m \/ i <= m
        /\ j > n \/ j <= n
        /\ i <= m => i \in 1..m
        /\ j <= n => j \in 1..n
    BY <1>0, <2>1
  <2> DEFINE minus == Row("-", old[i])
             plus == Row("+", new[j])
             both == Row(Blank, old[i])
  <2>6. /\ minus.mark = "-" /\ minus.line = old[i] /\ (i <= m => minus \in Marked(T))
        /\ plus.mark = "+" /\ plus.line = new[j] /\ (j <= n => plus \in Marked(T))
        /\ both.mark = Blank /\ both.line = old[i] /\ (i <= m => both \in Marked(T))
    <3>1. (i <= m => old[i] \in T) /\ (j <= n => new[j] \in T)
      BY <1>0, <2>5
    <3> QED
      BY <3>1 DEF Row, Marked
  <2> HIDE DEF minus, plus, both
  <2>7. CASE i > m /\ j > n
    <3>1. rows[<<i, j>>] = <<>> /\ lcs[<<i, j>>] = 0
      BY <2>1, <2>7 DEF IsRows, IsLCS
    <3>2. Side(<<>>, "+") = <<>> /\ Side(<<>>, "-") = <<>>
      BY SideOfNone
    <3>3. Kept(<<>>) = {}
      BY DEF Kept
    <3>4. Cardinality(Kept(<<>>)) = 0
      BY <3>3, FS_EmptySet
    <3>5. SubSeq(old, i, m) = <<>> /\ SubSeq(new, j, n) = <<>>
      BY <2>4, <2>5, <2>7 DEF TailStep
    <3> QED
      BY <3>1, <3>2, <3>4, <3>5 DEF Replay
  <2>8. ASSUME j <= n, rows[<<i, j>>] = <<plus>> \o rows[<<i, j + 1>>],
               lcs[<<i, j>>] = lcs[<<i, j + 1>>]
        PROVE  Replay(old, new, m, n, lcs, rows, i, j)
    <3>1. Replay(old, new, m, n, lcs, rows, i, j + 1)
      BY <1>5, <2>3, <2>8
    <3>2. Ahead(T, plus, rows[<<i, j + 1>>])
      BY <2>3, <2>6, <2>8 DEF Ahead
    <3>3. SubSeq(new, j, n) = <<new[j]>> \o SubSeq(new, j + 1, n)
      BY <2>4, <2>8 DEF TailStep
    <3>4. /\ Side(rows[<<i, j>>], "+") = Side(rows[<<i, j + 1>>], "+")
          /\ Side(rows[<<i, j>>], "-") = <<new[j]>> \o Side(rows[<<i, j + 1>>], "-")
          /\ Cardinality(Kept(rows[<<i, j>>])) = Cardinality(Kept(rows[<<i, j + 1>>]))
      <4>1. RowStep(plus, rows[<<i, j + 1>>])
        BY <3>2, RowReplays
      <4>2. plus.mark = "+" /\ plus.line = new[j]
        BY <2>6
      <4>3. /\ Side(<<plus>> \o rows[<<i, j + 1>>], "+") = Side(rows[<<i, j + 1>>], "+")
            /\ Side(<<plus>> \o rows[<<i, j + 1>>], "-") = <<new[j]>> \o Side(rows[<<i, j + 1>>], "-")
            /\ Cardinality(Kept(<<plus>> \o rows[<<i, j + 1>>])) = Cardinality(Kept(rows[<<i, j + 1>>]))
        BY <4>1, <4>2, Zenon DEF RowStep
      <4> QED
        BY <2>8, <4>3, Zenon
    <3> QED
      BY <2>8, <3>1, <3>3, <3>4 DEF Replay
  <2>9. ASSUME i <= m, rows[<<i, j>>] = <<minus>> \o rows[<<i + 1, j>>],
               lcs[<<i, j>>] = lcs[<<i + 1, j>>]
        PROVE  Replay(old, new, m, n, lcs, rows, i, j)
    <3>1. Replay(old, new, m, n, lcs, rows, i + 1, j)
      BY <1>5, <2>3, <2>9
    <3>2. Ahead(T, minus, rows[<<i + 1, j>>])
      BY <2>3, <2>6, <2>9 DEF Ahead
    <3>3. SubSeq(old, i, m) = <<old[i]>> \o SubSeq(old, i + 1, m)
      BY <2>4, <2>9 DEF TailStep
    <3>4. /\ Side(rows[<<i, j>>], "+") = <<old[i]>> \o Side(rows[<<i + 1, j>>], "+")
          /\ Side(rows[<<i, j>>], "-") = Side(rows[<<i + 1, j>>], "-")
          /\ Cardinality(Kept(rows[<<i, j>>])) = Cardinality(Kept(rows[<<i + 1, j>>]))
      <4>1. RowStep(minus, rows[<<i + 1, j>>])
        BY <3>2, RowReplays
      <4>2. minus.mark = "-" /\ minus.line = old[i]
        BY <2>6
      <4>3. /\ Side(<<minus>> \o rows[<<i + 1, j>>], "+") = <<old[i]>> \o Side(rows[<<i + 1, j>>], "+")
            /\ Side(<<minus>> \o rows[<<i + 1, j>>], "-") = Side(rows[<<i + 1, j>>], "-")
            /\ Cardinality(Kept(<<minus>> \o rows[<<i + 1, j>>])) = Cardinality(Kept(rows[<<i + 1, j>>]))
        BY <4>1, <4>2, Zenon DEF RowStep
      <4> QED
        BY <2>9, <4>3, Zenon
    <3> QED
      BY <2>9, <3>1, <3>3, <3>4 DEF Replay
  <2>10. CASE i > m /\ j <= n
    <3>1. rows[<<i, j>>] = <<plus>> \o rows[<<i, j + 1>>]
      BY <2>1, <2>10 DEF IsRows, plus
    <3>2. j + 1 \in 1..(n + 1)
      BY <1>0, <2>5, <2>10
    <3>3. lcs[<<i, j>>] = 0 /\ lcs[<<i, j + 1>>] = 0
      BY <2>1, <2>10, <3>2 DEF IsLCS
    <3> QED
      BY <2>8, <2>10, <3>1, <3>3
  <2>11. CASE i <= m /\ j > n
    <3>1. rows[<<i, j>>] = <<minus>> \o rows[<<i + 1, j>>]
      BY <2>1, <2>11 DEF IsRows, minus
    <3>2. i + 1 \in 1..(m + 1)
      BY <1>0, <2>5, <2>11
    <3>3. lcs[<<i, j>>] = 0 /\ lcs[<<i + 1, j>>] = 0
      BY <2>1, <2>11, <3>2 DEF IsLCS
    <3> QED
      BY <2>9, <2>11, <3>1, <3>3
  <2>12. CASE i <= m /\ j <= n /\ old[i] = new[j]
    <3>1. rows[<<i, j>>] = <<both>> \o rows[<<i + 1, j + 1>>]
      BY <2>1, <2>12 DEF IsRows, both
    <3>2. lcs[<<i, j>>] = lcs[<<i + 1, j + 1>>] + 1
      BY <2>1, <2>12 DEF IsLCS
    <3>3. Replay(old, new, m, n, lcs, rows, i + 1, j + 1)
      BY <1>5, <2>3, <2>12
    <3>4. Ahead(T, both, rows[<<i + 1, j + 1>>])
      BY <2>3, <2>6, <2>12 DEF Ahead
    <3>5. /\ SubSeq(old, i, m) = <<old[i]>> \o SubSeq(old, i + 1, m)
          /\ SubSeq(new, j, n) = <<new[j]>> \o SubSeq(new, j + 1, n)
      BY <2>4, <2>12 DEF TailStep
    <3>6. /\ Side(rows[<<i, j>>], "+") = <<old[i]>> \o Side(rows[<<i + 1, j + 1>>], "+")
          /\ Side(rows[<<i, j>>], "-") = <<old[i]>> \o Side(rows[<<i + 1, j + 1>>], "-")
          /\ Cardinality(Kept(rows[<<i, j>>])) = Cardinality(Kept(rows[<<i + 1, j + 1>>])) + 1
      <4>1. RowStep(both, rows[<<i + 1, j + 1>>])
        BY <3>4, RowReplays
      <4>2. both.mark = Blank /\ both.line = old[i]
        BY <2>6
      <4>3. /\ Side(<<both>> \o rows[<<i + 1, j + 1>>], "+") = <<old[i]>> \o Side(rows[<<i + 1, j + 1>>], "+")
            /\ Side(<<both>> \o rows[<<i + 1, j + 1>>], "-") = <<old[i]>> \o Side(rows[<<i + 1, j + 1>>], "-")
            /\ Cardinality(Kept(<<both>> \o rows[<<i + 1, j + 1>>])) = Cardinality(Kept(rows[<<i + 1, j + 1>>])) + 1
        BY <4>1, <4>2, Zenon DEF RowStep
      <4> QED
        BY <3>1, <4>3, Zenon
    <3> QED
      BY <2>12, <3>2, <3>3, <3>5, <3>6 DEF Replay
  <2>13. CASE i <= m /\ j <= n /\ old[i] # new[j]
    <3>1. lcs[<<i, j>>] = IF lcs[<<i + 1, j>>] >= lcs[<<i, j + 1>>]
                            THEN lcs[<<i + 1, j>>] ELSE lcs[<<i, j + 1>>]
      BY <2>1, <2>13 DEF IsLCS
    <3>2. CASE lcs[<<i + 1, j>>] >= lcs[<<i, j + 1>>]
      <4>1. rows[<<i, j>>] = <<minus>> \o rows[<<i + 1, j>>]
        BY <2>1, <2>13, <3>2 DEF IsRows, minus
      <4> QED
        BY <2>9, <2>13, <3>1, <3>2, <4>1
    <3>3. CASE ~(lcs[<<i + 1, j>>] >= lcs[<<i, j + 1>>])
      <4>1. rows[<<i, j>>] = <<plus>> \o rows[<<i, j + 1>>]
        BY <2>1, <2>13, <3>3 DEF IsRows, plus
      <4> QED
        BY <2>8, <2>13, <3>1, <3>3, <4>1
    <3> QED
      BY <3>2, <3>3
  <2> QED
    BY <2>5, <2>7, <2>10, <2>11, <2>12, <2>13
<1> HIDE DEF P
<1>7. S \subseteq P
  BY <1>2, <1>6, MeasureInduction
<1>8. <<1, 1>> \in S
  BY <1>0, <1>1
<1> QED
  BY <1>5, <1>7, <1>8

\* The lines of a document are strings.
LEMMA LinesAre ==
  ASSUME NEW s \in Seq(STRING)
  PROVE  splitConfigLines(s) \in Seq(Seq(STRING))
<1>1. CASE s = <<>>
  <2>1. splitConfigLines(s) =
          IF s = <<>> THEN <<>>
          ELSE Lines(IF s # <<>> /\ Last(s) = Newline THEN Front(s) ELSE s)
    BY DEF splitConfigLines, Lines
  <2>2. splitConfigLines(s) = <<>>
    BY <1>1, <2>1, Zenon
  <2> QED
    BY <2>2
<1>2. CASE s # <<>>
  <2> DEFINE text == IF s # <<>> /\ Last(s) = Newline THEN Front(s) ELSE s
  <2>1. splitConfigLines(s) = Lines(text)
    BY <1>2 DEF splitConfigLines, Lines
  <2>2. Front(s) \in Seq(STRING)
    BY <1>2, FrontIs
  <2>3. text \in Seq(STRING)
    BY <2>2
  <2> HIDE DEF text
  <2>4. PICK n \in Nat : n = Len(text) /\ text \in [1..n -> STRING]
    BY <2>3, LenProperties
  <2>5. Lists(text, n, STRING)
    BY <2>4 DEF Lists
  <2>6. PICK h : LinesTrace(STRING, n, text, h)
    BY <2>5, LinesSteps
  <2>7. n \in 0..n
    BY <2>4
  <2> QED
    BY <2>1, <2>6, <2>7 DEF LinesTrace
<1> QED
  BY <1>1, <1>2

Replays(old, new, rows) ==
  /\ Side(rows, "+") = old /\ Side(rows, "-") = new
  /\ \A I \in Common(old, new) : Cardinality(I) <= Cardinality(Kept(rows))

\* The rows replay both documents, and no common subsequence keeps more lines.
LEMMA RowsReplays ==
  ASSUME NEW T, NEW old \in Seq(T), NEW new \in Seq(T)
  PROVE  Replays(old, new, Rows(old, new))
<1>1. PICK m \in Nat : m = Len(old) /\ old \in [1..m -> T]
  BY LenProperties
<1>2. PICK n \in Nat : n = Len(new) /\ new \in [1..n -> T]
  BY LenProperties
<1>3. Both(T, old, new, m, n) /\ Lists(old, m, T) /\ Lists(new, n, T)
  BY <1>1, <1>2 DEF Both, Lists
<1> DEFINE lcs == LCS(old, new)
<1>4. IsLCS(old, new, m, n, lcs)
  BY <1>3, LCSIs
<1>5. PICK rows : IsRows(T, old, new, m, n, lcs, rows) /\ Rows(old, new) = rows[<<1, 1>>]
  BY <1>3, RowsIs
<1> HIDE DEF lcs
<1>6. Replay(old, new, m, n, lcs, rows, 1, 1)
  BY <1>3, <1>4, <1>5, RowsReplay
<1>7. SubSeq(old, 1, m) = old /\ SubSeq(new, 1, n) = new
  <2>1. SubSeq(old, 1, m) = old
    BY <1>3, TailIsAll
  <2>2. SubSeq(new, 1, n) = new
    BY <1>3, TailIsAll
  <2> QED
    BY <2>1, <2>2
<1>8. ASSUME NEW I \in Common(old, new) PROVE Cardinality(I) <= lcs[<<1, 1>>]
  <2>1. DOMAIN old = 1..m /\ DOMAIN new = 1..n
    BY <1>1, <1>2
  <2>2. PICK to \in [I -> 1..n] :
           /\ I \subseteq 1..m
           /\ \A i \in I : new[to[i]] = old[i]
           /\ \A i, j \in I : i < j => to[i] < to[j]
    BY <2>1 DEF Common
  <2>3. <<1, 1>>[1] = 1 /\ <<1, 1>>[2] = 1
    OBVIOUS
  <2>4. Matches(old, new, m, n, I, to, <<1, 1>>)
    BY <2>2, <2>3 DEF Matches
  <2> QED
    BY <1>3, <1>4, <2>4, LCSBounds
<1> QED
  BY <1>5, <1>6, <1>7, <1>8 DEF Replays, Replay

\* So does the diff of two documents.
LEMMA DiffIs ==
  ASSUME NEW old \in Documents, NEW new \in Documents
  PROVE  Replays(splitConfigLines(old), splitConfigLines(new), renderConfigDiff(old, new))
<1>1. old \in Seq(STRING) /\ new \in Seq(STRING)
  BY DocumentsAssumption
<1>2. splitConfigLines(old) \in Seq(Seq(STRING)) /\ splitConfigLines(new) \in Seq(Seq(STRING))
  BY <1>1, LinesAre
<1> QED
  BY <1>2, RowsReplays DEF renderConfigDiff

(***************************************************************************)
(* Paths, patterns and their segments.                                     *)
(***************************************************************************)

\* The table path.Match fills, of a pattern of m tokens and a name of n.
MatchBody(pattern, name, m, n, f, i, j) ==
  IF i > m THEN j > n
  ELSE IF pattern[i] = "*"
    THEN f[<<i + 1, j>>] \/ (j <= n /\ name[j] # "/" /\ f[<<i, j + 1>>])
    ELSE j <= n /\ name[j] = pattern[i] /\ f[<<i + 1, j + 1>>]

IsMatch(pattern, name, m, n, match) ==
  \A at \in Places(pattern, name) :
    match[at] = MatchBody(pattern, name, m, n, match, at[1], at[2])

\* Two tables that agree a step ahead.
AgreeAhead(m, n, f, g, i, j) ==
  /\ i <= m \/ i > m
  /\ i <= m /\ j <= n => (f[<<i + 1, j + 1>>] <=> g[<<i + 1, j + 1>>])
  /\ i <= m => (f[<<i + 1, j>>] <=> g[<<i + 1, j>>])
  /\ j <= n => (f[<<i, j + 1>>] <=> g[<<i, j + 1>>])

\* What Match says of a place depends on the next places alone.
LEMMA BodyAgrees ==
  ASSUME NEW T, NEW pattern, NEW name, NEW m, NEW n, Both(T, pattern, name, m, n),
         NEW f, NEW g, NEW i \in Nat, NEW j \in Nat, AgreeAhead(m, n, f, g, i, j)
  PROVE  MatchBody(pattern, name, m, n, f, i, j) = MatchBody(pattern, name, m, n, g, i, j)
<1>0. m \in Nat
  BY DEF Both, Lists
<1>1. ~(i > m /\ i <= m)
  BY <1>0
<1> QED
  BY <1>1, Zenon DEF MatchBody, AgreeAhead

\* Match is the first entry of such a table.
LEMMA MatchIs ==
  ASSUME NEW T, NEW pattern, NEW name, NEW m, NEW n, Both(T, pattern, name, m, n)
  PROVE  \E match : IsMatch(pattern, name, m, n, match) /\ Match(pattern, name) = match[<<1, 1>>]
<1> DEFINE S == Places(pattern, name)
           Body(f, i, j) == MatchBody(pattern, name, m, n, f, i, j)
           G == [f \in [S -> BOOLEAN] |-> [at \in S |-> Body(f, at[1], at[2])]]
           left == [at \in S |-> Left(m, n, at)]
           match == CHOOSE f : f = [at \in S |-> Body(f, at[1], at[2])]
<1>0. m \in Nat /\ n \in Nat /\ Len(pattern) = m /\ Len(name) = n
  BY DEF Both, Lists
<1>1. /\ S = (1..(m + 1)) \X (1..(n + 1))
      /\ left \in [S -> 0..(m + n)]
  BY PlacesAre
<1>2. ASSUME NEW at \in S
      PROVE  /\ at[1] \in 1..(m + 1) /\ at[2] \in 1..(n + 1) /\ at = <<at[1], at[2]>>
             /\ at[1] <= m /\ at[2] <= n =>
                  <<at[1] + 1, at[2] + 1>> \in S /\ left[<<at[1] + 1, at[2] + 1>>] < left[at]
             /\ at[1] <= m => <<at[1] + 1, at[2]>> \in S /\ left[<<at[1] + 1, at[2]>>] < left[at]
             /\ at[2] <= n => <<at[1], at[2] + 1>> \in S /\ left[<<at[1], at[2] + 1>>] < left[at]
  BY StepsAhead
<1> HIDE DEF S, left
<1>3. ASSUME NEW f \in [S -> BOOLEAN], NEW at \in S PROVE Body(f, at[1], at[2]) \in BOOLEAN
  <2>1. at[1] \in 1..(m + 1)
    BY <1>2
  <2>2. at[1] > m \/ at[1] <= m
    BY <1>0, <2>1
  <2>3. at[1] <= m => f[<<at[1] + 1, at[2]>>] \in BOOLEAN
    BY <1>2
  <2>4. CASE at[1] > m
    <3>1. Body(f, at[1], at[2]) = (at[2] > n)
      BY <2>4, Zenon DEF MatchBody
    <3>2. at[2] \in 1..(n + 1)
      BY <1>2
    <3>3. (at[2] > n) \in BOOLEAN
      <4> HIDE DEF Body
      <4> QED
        BY <3>2, <1>0
    <3> QED
      BY <3>1, <3>3, Zenon
  <2>5. CASE ~(at[1] > m) /\ pattern[at[1]] = "*"
    <3>1. Body(f, at[1], at[2])
            = (f[<<at[1] + 1, at[2]>>] \/ (at[2] <= n /\ name[at[2]] # "/" /\ f[<<at[1], at[2] + 1>>]))
      BY <2>5, Zenon DEF MatchBody
    <3> QED
      BY <3>1, Zenon
  <2>6. CASE ~(at[1] > m) /\ pattern[at[1]] # "*"
    <3>1. Body(f, at[1], at[2])
            = (at[2] <= n /\ name[at[2]] = pattern[at[1]] /\ f[<<at[1] + 1, at[2] + 1>>])
      BY <2>6, Zenon DEF MatchBody
    <3> QED
      BY <3>1, Zenon
  <2> QED
    BY <2>4, <2>5, <2>6, Zenon
<1>4. G \in [[S -> BOOLEAN] -> [S -> BOOLEAN]]
  <2> HIDE DEF Body
  <2> QED
    BY <1>3
<1>5. ASSUME NEW f \in [S -> BOOLEAN], NEW g \in [S -> BOOLEAN], NEW at \in S,
             \A y \in S : left[y] < left[at] => f[y] = g[y]
      PROVE  G[f][at] = G[g][at]
  <2>1. at[1] \in 1..(m + 1)
    BY <1>2
  <2>2. at[1] <= m \/ at[1] > m
    BY <1>0, <2>1
  <2>3. /\ at[1] <= m /\ at[2] <= n => f[<<at[1] + 1, at[2] + 1>>] = g[<<at[1] + 1, at[2] + 1>>]
        /\ at[1] <= m => f[<<at[1] + 1, at[2]>>] = g[<<at[1] + 1, at[2]>>]
        /\ at[2] <= n => f[<<at[1], at[2] + 1>>] = g[<<at[1], at[2] + 1>>]
    BY <1>2, <1>5
  <2>4. Body(f, at[1], at[2]) = Body(g, at[1], at[2])
    <3>0. at[1] \in Nat /\ at[2] \in Nat
      <4>1. at[1] \in 1..(m + 1) /\ at[2] \in 1..(n + 1)
        BY <1>2
      <4> QED
        BY <4>1, <1>0
    <3>1. /\ at[1] <= m /\ at[2] <= n => (f[<<at[1] + 1, at[2] + 1>>] <=> g[<<at[1] + 1, at[2] + 1>>])
          /\ at[1] <= m => (f[<<at[1] + 1, at[2]>>] <=> g[<<at[1] + 1, at[2]>>])
          /\ at[2] <= n => (f[<<at[1], at[2] + 1>>] <=> g[<<at[1], at[2] + 1>>])
      BY <2>3, Zenon
    <3>2. AgreeAhead(m, n, f, g, at[1], at[2])
      BY <2>2, <3>1, Zenon DEF AgreeAhead
    <3> QED
      BY <3>0, <3>2, BodyAgrees
  <2> HIDE DEF Body
  <2> QED
    BY <2>4
<1>6. Recursion(S, BOOLEAN, m + n, left, G)
  <2> HIDE DEF G
  <2>1. \A f, g \in [S -> BOOLEAN] : \A at \in S :
          (\A y \in S : left[y] < left[at] => f[y] = g[y]) => G[f][at] = G[g][at]
    BY <1>5
  <2>2. m + n \in Nat
    BY <1>0
  <2>3. BOOLEAN # {}
    OBVIOUS
  <2> QED
    BY <1>1, <1>4, <2>1, <2>2, <2>3 DEF Recursion
<1>7. PICK f \in [S -> BOOLEAN] : f = G[f]
  <2> HIDE DEF G
  <2> QED
    BY <1>6, RecursionExists
<1>8. f = [at \in S |-> Body(f, at[1], at[2])]
  <2> HIDE DEF Body
  <2> QED
    BY <1>7
<1>9. match = [at \in S |-> Body(match, at[1], at[2])]
  <2> HIDE DEF Body
  <2> QED
    BY <1>8
<1>10. Match(pattern, name) = match[<<1, 1>>]
  BY <1>0 DEF Match, S, Places, MatchBody
<1> HIDE DEF match
<1>11. IsMatch(pattern, name, m, n, match)
  <2>1. \A at \in S : match[at] = Body(match, at[1], at[2])
    <3> HIDE DEF Body
    <3> QED
      BY <1>9
  <2> QED
    BY <2>1 DEF IsMatch, S
<1> QED
  BY <1>10, <1>11

\* t is s without its first a elements, of which there are that many.
After(T, a, s, t) ==
  /\ a \in Nat /\ s \in Seq(T) /\ t \in Seq(T) /\ Len(s) = Len(t) + a
  /\ \A i \in 1..Len(t) : t[i] = s[i + a]

\* f is the table of a pattern and a name, and g that of what is left of them.
Tables(T, pattern, name, p, c, a, b, m, n, k, l, f, g) ==
  /\ Both(T, pattern, name, m, n) /\ Both(T, p, c, k, l)
  /\ After(T, a, pattern, p) /\ After(T, b, name, c)
  /\ IsMatch(pattern, name, m, n, f) /\ IsMatch(p, c, k, l, g)

TableAgrees(k, l, a, b, f, g) ==
  \A i \in 1..(k + 1), j \in 1..(l + 1) : g[<<i, j>>] = f[<<i + a, j + b>>]

\* The one is a part of the other.
LEMMA TablesAgree ==
  ASSUME NEW T, NEW pattern, NEW name, NEW p, NEW c, NEW a, NEW b, NEW m, NEW n, NEW k, NEW l,
         NEW f, NEW g, Tables(T, pattern, name, p, c, a, b, m, n, k, l, f, g)
  PROVE  TableAgrees(k, l, a, b, f, g)
<1> USE DEF Tables
<1> DEFINE S == Places(p, c)
           left == [at \in S |-> Left(k, l, at)]
           P == {at \in S : g[at] = f[<<at[1] + a, at[2] + b>>]}
<1>0. /\ m \in Nat /\ n \in Nat /\ k \in Nat /\ l \in Nat /\ a \in Nat /\ b \in Nat
      /\ Len(pattern) = m /\ Len(name) = n /\ Len(p) = k /\ Len(c) = l
      /\ m = k + a /\ n = l + b
  BY DEF Both, Lists, After
<1>1. /\ S = (1..(k + 1)) \X (1..(l + 1))
      /\ left \in [S -> 0..(k + l)]
  BY PlacesAre
<1>2. ASSUME NEW at \in S
      PROVE  /\ at[1] \in 1..(k + 1) /\ at[2] \in 1..(l + 1) /\ at = <<at[1], at[2]>>
             /\ at[1] <= k /\ at[2] <= l =>
                  <<at[1] + 1, at[2] + 1>> \in S /\ left[<<at[1] + 1, at[2] + 1>>] < left[at]
             /\ at[1] <= k => <<at[1] + 1, at[2]>> \in S /\ left[<<at[1] + 1, at[2]>>] < left[at]
             /\ at[2] <= l => <<at[1], at[2] + 1>> \in S /\ left[<<at[1], at[2] + 1>>] < left[at]
  BY StepsAhead
<1>3. ASSUME NEW at \in S PROVE g[at] = MatchBody(p, c, k, l, g, at[1], at[2])
  BY DEF IsMatch
<1>4. ASSUME NEW i \in 1..(k + 1), NEW j \in 1..(l + 1)
      PROVE  f[<<i + a, j + b>>] = MatchBody(pattern, name, m, n, f, i + a, j + b)
  <2>1. i + a \in 1..(m + 1) /\ j + b \in 1..(n + 1)
    BY <1>0
  <2>2. Places(pattern, name) = (1..(m + 1)) \X (1..(n + 1))
    BY PlacesAre
  <2>3. <<i + a, j + b>> \in Places(pattern, name)
    BY <2>1, <2>2
  <2> QED
    BY <2>3 DEF IsMatch
<1>5. ASSUME NEW i \in 1..k PROVE p[i] = pattern[i + a]
  BY <1>0 DEF After
<1>6. ASSUME NEW j \in 1..l PROVE c[j] = name[j + b]
  BY <1>0 DEF After
<1> HIDE DEF S, left
<1>7. ASSUME NEW at \in S, \A y \in S : left[y] < left[at] => y \in P
      PROVE  at \in P
  <2> DEFINE i == at[1]
             j == at[2]
  <2>1. i \in 1..(k + 1) /\ j \in 1..(l + 1)
    BY <1>2
  <2>2. i <= k /\ j <= l => g[<<i + 1, j + 1>>] = f[<<i + 1 + a, j + 1 + b>>]
    BY <1>2, <1>7
  <2>3. i <= k => g[<<i + 1, j>>] = f[<<i + 1 + a, j + b>>]
    BY <1>2, <1>7
  <2>4. j <= l => g[<<i, j + 1>>] = f[<<i + a, j + 1 + b>>]
    BY <1>2, <1>7
  <2>5. g[at] = MatchBody(p, c, k, l, g, i, j)
    BY <1>3
  <2>6. f[<<i + a, j + b>>] = MatchBody(pattern, name, m, n, f, i + a, j + b)
    BY <2>1, <1>4
  <2>7. /\ (i > k <=> i + a > m) /\ (j > l <=> j + b > n) /\ (j <= l <=> j + b <= n)
        /\ i + 1 + a = i + a + 1 /\ j + 1 + b = j + b + 1
        /\ (i > k \/ i <= k)
    <3> HIDE DEF i, j
    <3> QED
      BY <1>0, <2>1
  <2>8. (i > k) = (i + a > m) /\ (j > l) = (j + b > n) /\ (j <= l) = (j + b <= n)
    <3> HIDE DEF i, j
    <3> QED
      BY <1>0, <2>1, <2>7
  <2>9. i <= k => p[i] = pattern[i + a]
    <3> HIDE DEF i
    <3> QED
      BY <1>0, <1>5, <2>1
  <2>10. j <= l => c[j] = name[j + b]
    <3> HIDE DEF j
    <3> QED
      BY <1>0, <1>6, <2>1
  <2> HIDE DEF i, j
  <2>11. CASE i > k
    <3>1. MatchBody(p, c, k, l, g, i, j) = (j > l)
      BY <2>11, Zenon DEF MatchBody
    <3>2. MatchBody(pattern, name, m, n, f, i + a, j + b) = (j + b > n)
      BY <2>11, <2>7, Zenon DEF MatchBody
    <3> QED
      BY <3>1, <3>2, <2>5, <2>6, <2>8, Zenon DEF i, j
  <2>12. CASE ~(i > k) /\ p[i] = "*"
    <3>1. MatchBody(p, c, k, l, g, i, j)
            = (g[<<i + 1, j>>] \/ (j <= l /\ c[j] # "/" /\ g[<<i, j + 1>>]))
      BY <2>12, Zenon DEF MatchBody
    <3>2. MatchBody(pattern, name, m, n, f, i + a, j + b)
            = (f[<<i + a + 1, j + b>>] \/ (j + b <= n /\ name[j + b] # "/" /\ f[<<i + a, j + b + 1>>]))
      BY <2>12, <2>7, <2>9, Zenon DEF MatchBody
    <3>3. g[<<i + 1, j>>] = f[<<i + a + 1, j + b>>]
      BY <2>12, <2>7, <2>3, Zenon
    <3>4. (j <= l /\ c[j] # "/" /\ g[<<i, j + 1>>])
            = (j + b <= n /\ name[j + b] # "/" /\ f[<<i + a, j + b + 1>>])
      BY <2>7, <2>4, <2>10, Zenon
    <3>5. MatchBody(p, c, k, l, g, i, j) = MatchBody(pattern, name, m, n, f, i + a, j + b)
      BY <3>1, <3>2, <3>3, <3>4
    <3> QED
      BY <3>5, <2>5, <2>6, Zenon DEF i, j
  <2>13. CASE ~(i > k) /\ p[i] # "*"
    <3>1. MatchBody(p, c, k, l, g, i, j) = (j <= l /\ c[j] = p[i] /\ g[<<i + 1, j + 1>>])
      BY <2>13, Zenon DEF MatchBody
    <3>2. MatchBody(pattern, name, m, n, f, i + a, j + b)
            = (j + b <= n /\ name[j + b] = pattern[i + a] /\ f[<<i + a + 1, j + b + 1>>])
      BY <2>13, <2>7, <2>9, Zenon DEF MatchBody
    <3>3. (j <= l /\ c[j] = p[i] /\ g[<<i + 1, j + 1>>])
            = (j + b <= n /\ name[j + b] = pattern[i + a] /\ f[<<i + a + 1, j + b + 1>>])
      BY <2>13, <2>7, <2>2, <2>9, <2>10, Zenon
    <3>5. MatchBody(p, c, k, l, g, i, j) = MatchBody(pattern, name, m, n, f, i + a, j + b)
      BY <3>1, <3>2, <3>3
    <3> QED
      BY <3>5, <2>5, <2>6, Zenon DEF i, j
  <2> QED
    BY <2>11, <2>12, <2>13, Zenon
<1>8. left \in [S -> Nat]
  BY <1>0, <1>1
<1>9. S \subseteq P
  <2> HIDE DEF P
  <2> QED
    BY <1>7, <1>8, MeasureInduction
<1> QED
  <2> SUFFICES ASSUME NEW i \in 1..(k + 1), NEW j \in 1..(l + 1)
               PROVE  g[<<i, j>>] = f[<<i + a, j + b>>]
    BY DEF TableAgrees
  <2>1. <<i, j>> \in S
    BY <1>1
  <2>2. <<i, j>> \in P
    BY <2>1, <1>9
  <2> QED
    BY <2>2

\* s is the token t, and then r.
Begins(T, t, r, s) == t \in T /\ After(T, 1, s, r) /\ s[1] = t

\* A string that is not empty begins with a token.
LEMMA EmptyOrBegins ==
  ASSUME NEW T, NEW s \in Seq(T), s # <<>>
  PROVE  \E t \in T, r \in Seq(T) : Begins(T, t, r, s)
<1>1. /\ Tail(s) \in Seq(T) /\ Len(Tail(s)) = Len(s) - 1
      /\ \A i \in 1..Len(Tail(s)) : Tail(s)[i] = s[i + 1]
  BY HeadTailProperties
<1>2. Len(s) \in Nat \ {0}
  BY EmptySeq
<1>3. s[1] \in T
  BY <1>2
<1>4. After(T, 1, s, Tail(s))
  BY <1>1, <1>2 DEF After
<1> QED
  BY <1>1, <1>3, <1>4 DEF Begins

\* The table of a pattern and a name.
LEMMA TableOf ==
  ASSUME NEW T, NEW p \in Seq(T), NEW c \in Seq(T)
  PROVE  /\ Len(p) \in Nat /\ Len(c) \in Nat /\ Both(T, p, c, Len(p), Len(c))
         /\ \E f : IsMatch(p, c, Len(p), Len(c), f) /\ Match(p, c) = f[<<1, 1>>]
<1>1. Len(p) \in Nat /\ Len(c) \in Nat /\ Both(T, p, c, Len(p), Len(c))
  BY LenProperties DEF Both, Lists
<1> QED
  BY <1>1, MatchIs

\* What is left of a pattern and of a name matches when the table of both says so.
LEMMA LeftMatches ==
  ASSUME NEW T, NEW pattern, NEW name, NEW p, NEW c, NEW a, NEW b,
         After(T, a, pattern, p), After(T, b, name, c),
         NEW f, IsMatch(pattern, name, Len(pattern), Len(name), f)
  PROVE  Match(p, c) = f[<<1 + a, 1 + b>>]
<1>1. /\ pattern \in Seq(T) /\ name \in Seq(T) /\ p \in Seq(T) /\ c \in Seq(T)
  BY DEF After
<1>2. PICK g : IsMatch(p, c, Len(p), Len(c), g) /\ Match(p, c) = g[<<1, 1>>]
  BY <1>1, TableOf
<1>3. /\ Both(T, pattern, name, Len(pattern), Len(name)) /\ Both(T, p, c, Len(p), Len(c))
      /\ Len(p) \in Nat /\ Len(c) \in Nat
  BY <1>1, TableOf
<1>4. Tables(T, pattern, name, p, c, a, b, Len(pattern), Len(name), Len(p), Len(c), f, g)
  BY <1>2, <1>3 DEF Tables
<1>6. TableAgrees(Len(p), Len(c), a, b, f, g)
  BY <1>4, TablesAgree
<1>5. 1 \in 1..(Len(p) + 1) /\ 1 \in 1..(Len(c) + 1)
  BY <1>3
<1> QED
  BY <1>2, <1>5, <1>6 DEF TableAgrees

\* A string is what is left of it before its first token.
LEMMA Itself ==
  ASSUME NEW T, NEW s \in Seq(T)
  PROVE  After(T, 0, s, s)
BY LenProperties DEF After

\* The table of a pattern and a name, at its first place.
FirstPlaceIs(p, c, f) ==
  Match(p, c) = MatchBody(p, c, Len(p), Len(c), f, 1, 1)

\* Match is what the rule says of the first place.
LEMMA FirstOfTable ==
  ASSUME NEW T, NEW p \in Seq(T), NEW c \in Seq(T)
  PROVE  \E f : IsMatch(p, c, Len(p), Len(c), f) /\ FirstPlaceIs(p, c, f)
<1>1. PICK f : IsMatch(p, c, Len(p), Len(c), f) /\ Match(p, c) = f[<<1, 1>>]
  BY TableOf
<1>2. Len(p) \in Nat /\ Len(c) \in Nat /\ Both(T, p, c, Len(p), Len(c))
  BY TableOf
<1>3. Places(p, c) = (1..(Len(p) + 1)) \X (1..(Len(c) + 1))
  BY <1>2, PlacesAre
<1>4. <<1, 1>> \in Places(p, c)
  BY <1>2, <1>3
<1>5. f[<<1, 1>>] = MatchBody(p, c, Len(p), Len(c), f, <<1, 1>>[1], <<1, 1>>[2])
  BY <1>1, <1>4 DEF IsMatch
<1>6. f[<<1, 1>>] = MatchBody(p, c, Len(p), Len(c), f, 1, 1)
  BY <1>5
<1> QED
  BY <1>1, <1>6 DEF FirstPlaceIs

\* A pattern with nothing in it matches the empty name alone.
LEMMA NothingMatches ==
  ASSUME NEW T, NEW c \in Seq(T)
  PROVE  Match(<<>>, c) <=> c = <<>>
<1>1. <<>> \in Seq(T) /\ Len(<<>>) = 0 /\ (c # <<>> => Len(c) \in Nat \ {0})
  BY EmptySeq
<1>2. PICK f : FirstPlaceIs(<<>>, c, f)
  BY <1>1, FirstOfTable
<1>3. 1 > Len(<<>>)
  BY <1>1
<1>4. Match(<<>>, c) = (1 > Len(c))
  BY <1>2, <1>3, Zenon DEF FirstPlaceIs, MatchBody
<1>5. 1 > Len(c) <=> c = <<>>
  BY <1>1
<1> QED
  BY <1>4, <1>5

\* A star matches nothing, or one token that is not a slash and goes on.
LEMMA StarMatches ==
  ASSUME NEW T, NEW p, NEW r, Begins(T, "*", r, p), NEW c \in Seq(T)
  PROVE  /\ c = <<>> => (Match(p, c) <=> Match(r, c))
         /\ \A u, d : Begins(T, u, d, c) =>
              (Match(p, c) <=> Match(r, c) \/ (u # "/" /\ Match(p, d)))
<1>1. p \in Seq(T) /\ r \in Seq(T) /\ After(T, 1, p, r) /\ p[1] = "*"
  BY DEF Begins, After
<1>2. PICK f : IsMatch(p, c, Len(p), Len(c), f) /\ FirstPlaceIs(p, c, f)
  BY <1>1, FirstOfTable
<1>3. Len(p) \in Nat /\ Len(r) \in Nat /\ Len(p) = Len(r) + 1
  BY <1>1 DEF After
<1>4. ~(1 > Len(p)) /\ 1 + 1 = 2 /\ 1 + 0 = 1
  BY <1>3
<1>5. Match(p, c) = (f[<<1 + 1, 1>>] \/ (1 <= Len(c) /\ c[1] # "/" /\ f[<<1, 1 + 1>>]))
  BY <1>1, <1>2, <1>4, Zenon DEF FirstPlaceIs, MatchBody
<1>6. Match(r, c) = f[<<1 + 1, 1>>]
  <2>1. After(T, 0, c, c)
    BY Itself
  <2>2. Match(r, c) = f[<<1 + 1, 1 + 0>>]
    BY <1>1, <1>2, <2>1, LeftMatches
  <2> QED
    BY <2>2, <1>4
<1>7. ASSUME c = <<>> PROVE Match(p, c) <=> Match(r, c)
  <2>1. ~(1 <= Len(c))
    BY <1>7, EmptySeq
  <2> QED
    BY <1>5, <1>6, <2>1
<1>8. ASSUME NEW u, NEW d, Begins(T, u, d, c)
      PROVE  Match(p, c) <=> Match(r, c) \/ (u # "/" /\ Match(p, d))
  <2>1. 1 <= Len(c) /\ c[1] = u
    BY <1>8 DEF Begins, After
  <2>2. Match(p, d) = f[<<1, 1 + 1>>]
    <3>1. After(T, 1, c, d) /\ After(T, 0, p, p)
      BY <1>1, <1>8, Itself DEF Begins
    <3>2. Match(p, d) = f[<<1 + 0, 1 + 1>>]
      BY <1>2, <3>1, LeftMatches
    <3> QED
      BY <3>2, <1>4
  <2> QED
    BY <1>5, <1>6, <2>1, <2>2
<1> QED
  BY <1>7, <1>8

\* Any other token matches itself.
LEMMA TokenMatches ==
  ASSUME NEW T, NEW t, NEW p, NEW r, Begins(T, t, r, p), t # "*", NEW c \in Seq(T)
  PROVE  /\ c = <<>> => ~Match(p, c)
         /\ \A u, d : Begins(T, u, d, c) => (Match(p, c) <=> u = t /\ Match(r, d))
<1>1. p \in Seq(T) /\ r \in Seq(T) /\ After(T, 1, p, r) /\ p[1] = t
  BY DEF Begins, After
<1>2. PICK f : IsMatch(p, c, Len(p), Len(c), f) /\ FirstPlaceIs(p, c, f)
  BY <1>1, FirstOfTable
<1>3. Len(p) \in Nat /\ Len(r) \in Nat /\ Len(p) = Len(r) + 1
  BY <1>1 DEF After
<1>4. ~(1 > Len(p))
  BY <1>3
<1>5. Match(p, c) = (1 <= Len(c) /\ c[1] = p[1] /\ f[<<1 + 1, 1 + 1>>])
  BY <1>1, <1>2, <1>4, Zenon DEF FirstPlaceIs, MatchBody
<1>7. ASSUME c = <<>> PROVE ~Match(p, c)
  <2>1. ~(1 <= Len(c))
    BY <1>7, EmptySeq
  <2> QED
    BY <1>5, <2>1
<1>8. ASSUME NEW u, NEW d, Begins(T, u, d, c)
      PROVE  Match(p, c) <=> u = t /\ Match(r, d)
  <2>1. 1 <= Len(c) /\ c[1] = u
    BY <1>8 DEF Begins, After
  <2>2. Match(r, d) = f[<<1 + 1, 1 + 1>>]
    <3>1. After(T, 1, c, d)
      BY <1>8 DEF Begins
    <3> QED
      BY <1>1, <1>2, <3>1, LeftMatches
  <2> QED
    BY <1>1, <1>5, <2>1, <2>2
<1> QED
  BY <1>7, <1>8

\* The segments d, with one more token x at the end of what they split.
IsSplit(T, d, x, e) ==
  /\ d \in Seq(Seq(T)) /\ e \in Seq(Seq(T)) /\ Len(d) \in Nat \ {0}
  /\ x = "/" =>
       /\ Len(e) = Len(d) + 1 /\ e[Len(d) + 1] = <<>>
       /\ \A i \in 1..Len(d) : e[i] = d[i]
  /\ x # "/" =>
       /\ Len(e) = Len(d) /\ e[Len(d)] = Append(d[Len(d)], x)
       /\ \A i \in 1..(Len(d) - 1) : e[i] = d[i]

\* Splits appends a token to the last segment, or starts a new one.
LEMMA SplitIs ==
  ASSUME NEW T, NEW d \in Seq(Seq(T)) \ {<<>>}, NEW x \in T, Splits(d, x) \in Seq(Seq(T))
  PROVE  IsSplit(T, d, x, Splits(d, x))
<1> DEFINE S == Seq(T)
<1>1. d \in Seq(S) /\ d # <<>> /\ <<>> \in S
  BY EmptySeq
<1>2. Len(d) \in Nat \ {0}
  BY <1>1, EmptySeq
<1>3. CASE x = "/"
  <2>1. Splits(d, x) = Append(d, <<>>)
    BY <1>3 DEF Splits
  <2> HIDE DEF S
  <2>2. /\ Len(Append(d, <<>>)) = Len(d) + 1 /\ Append(d, <<>>)[Len(d) + 1] = <<>>
        /\ \A i \in 1..Len(d) : Append(d, <<>>)[i] = d[i]
    BY <1>1, AppendProperties
  <2> QED
    BY <1>2, <1>3, <2>1, <2>2 DEF IsSplit
<1>4. CASE x # "/"
  <2> DEFINE a == Front(d)
             l == Append(Last(d), x)
  <2>1. Splits(d, x) = Append(a, l)
    BY <1>4 DEF Splits
  <2>2. /\ a \in Seq(S) /\ Len(a) = Len(d) - 1
        /\ \A i \in 1..(Len(d) - 1) : a[i] = d[i]
        /\ Last(d) \in S /\ Last(d) = d[Len(d)]
    <3> HIDE DEF S
    <3> QED
      BY <1>1, FrontIs
  <2>3. l \in S
    BY <2>2, AppendProperties
  <2>4. l = Append(d[Len(d)], x)
    BY <2>2
  <2> HIDE DEF S, a, l
  <2>5. /\ Len(Append(a, l)) = Len(a) + 1 /\ Append(a, l)[Len(a) + 1] = l
        /\ \A i \in 1..Len(a) : Append(a, l)[i] = a[i]
    BY <2>2, <2>3, AppendProperties
  <2>6. /\ Len(Append(a, l)) = Len(d) /\ Append(a, l)[Len(d)] = l
        /\ \A i \in 1..(Len(d) - 1) : Append(a, l)[i] = d[i]
    BY <1>2, <2>2, <2>5
  <2> QED
    BY <1>2, <1>4, <2>1, <2>4, <2>6 DEF IsSplit
<1> QED
  BY <1>3, <1>4

\* The segments e of what has the token t before what d are the segments of.
IsAhead(T, t, d, e) ==
  /\ d \in Seq(Seq(T)) /\ e \in Seq(Seq(T)) /\ Len(d) \in Nat \ {0}
  /\ t = "/" =>
       /\ Len(e) = Len(d) + 1 /\ e[1] = <<>>
       /\ \A i \in 1..Len(d) : e[i + 1] = d[i]
  /\ t # "/" =>
       /\ Len(e) = Len(d) /\ Begins(T, t, d[1], e[1])
       /\ \A i \in 2..Len(d) : e[i] = d[i]

\* A token at the end of a string is one at the end of what is left of it.
LEMMA BeginsAppended ==
  ASSUME NEW T, NEW t, NEW r, NEW s, Begins(T, t, r, s), NEW x \in T
  PROVE  Begins(T, t, Append(r, x), Append(s, x))
<1>1. /\ t \in T /\ r \in Seq(T) /\ s \in Seq(T) /\ Len(s) = Len(r) + 1 /\ s[1] = t
      /\ \A i \in 1..Len(r) : r[i] = s[i + 1]
  BY DEF Begins, After
<1>2. Len(r) \in Nat
  BY <1>1
<1>3. /\ Append(r, x) \in Seq(T) /\ Len(Append(r, x)) = Len(r) + 1 /\ Append(r, x)[Len(r) + 1] = x
      /\ \A i \in 1..Len(r) : Append(r, x)[i] = r[i]
  BY <1>1, AppendProperties
<1>4. /\ Append(s, x) \in Seq(T) /\ Len(Append(s, x)) = Len(s) + 1 /\ Append(s, x)[Len(s) + 1] = x
      /\ \A i \in 1..Len(s) : Append(s, x)[i] = s[i]
  BY <1>1, AppendProperties
<1>5. Append(s, x)[1] = t
  BY <1>1, <1>2, <1>4
<1>6. ASSUME NEW i \in 1..(Len(r) + 1) PROVE Append(r, x)[i] = Append(s, x)[i + 1]
  <2>1. CASE i = Len(r) + 1
    <3>1. i + 1 = Len(s) + 1
      BY <1>1, <1>2, <2>1
    <3> QED
      BY <1>3, <1>4, <2>1, <3>1
  <2>2. CASE i # Len(r) + 1
    <3>1. i \in 1..Len(r) /\ i + 1 \in 1..Len(s)
      BY <1>1, <1>2, <2>2
    <3> QED
      BY <1>1, <1>3, <1>4, <3>1
  <2> QED
    BY <2>1, <2>2
<1>7. After(T, 1, Append(s, x), Append(r, x))
  BY <1>1, <1>2, <1>3, <1>4, <1>6 DEF After
<1> QED
  BY <1>1, <1>5, <1>7 DEF Begins

\* It stays so as both go on with the same token.
LEMMA AheadStep ==
  ASSUME NEW T, NEW t, NEW x \in T, NEW d, NEW e, NEW d2, NEW e2,
         IsAhead(T, t, d, e), IsSplit(T, d, x, d2), IsSplit(T, e, x, e2)
  PROVE  IsAhead(T, t, d2, e2)
<1>1. PICK k \in Nat : k = Len(d) /\ k >= 1
  <2>1. Len(d) \in Nat \ {0}
    BY DEF IsSplit
  <2> QED
    BY <2>1
<1>2. /\ d2 \in Seq(Seq(T)) /\ e2 \in Seq(Seq(T)) /\ d \in Seq(Seq(T)) /\ e \in Seq(Seq(T))
      /\ x = "/" =>
           /\ Len(d2) = k + 1 /\ d2[k + 1] = <<>>
           /\ \A i \in 1..k : d2[i] = d[i]
      /\ x # "/" =>
           /\ Len(d2) = k /\ d2[k] = Append(d[k], x)
           /\ \A i \in 1..(k - 1) : d2[i] = d[i]
  BY <1>1 DEF IsSplit
<1>3. Len(d2) \in Nat \ {0}
  BY <1>1, <1>2
<1>4. ASSUME t = "/"
      PROVE  Len(e2) = Len(d2) + 1 /\ e2[1] = <<>> /\ \A i \in 1..Len(d2) : e2[i + 1] = d2[i]
  <2>1. Len(e) = k + 1 /\ e[1] = <<>> /\ \A i \in 1..k : e[i + 1] = d[i]
    BY <1>1, <1>4 DEF IsAhead
  <2>2. /\ x = "/" =>
             /\ Len(e2) = k + 1 + 1 /\ e2[k + 1 + 1] = <<>>
             /\ \A i \in 1..(k + 1) : e2[i] = e[i]
        /\ x # "/" =>
             /\ Len(e2) = k + 1 /\ e2[k + 1] = Append(e[k + 1], x)
             /\ \A i \in 1..k : e2[i] = e[i]
    <3>1. (k + 1) - 1 = k
      BY <1>1
    <3> QED
      BY <2>1, <3>1 DEF IsSplit
  <2>3. CASE x = "/"
    <3>1. Len(d2) = k + 1 /\ Len(e2) = Len(d2) + 1 /\ e2[1] = <<>>
      BY <1>1, <1>2, <2>1, <2>2, <2>3
    <3>2. ASSUME NEW i \in 1..(k + 1) PROVE e2[i + 1] = d2[i]
      <4>1. CASE i = k + 1
        BY <4>1, <1>1, <1>2, <2>2, <2>3
      <4>2. CASE i # k + 1
        <5>1. i \in 1..k /\ i + 1 \in 1..(k + 1)
          BY <4>2, <1>1
        <5> QED
          BY <5>1, <1>2, <2>1, <2>2, <2>3
      <4> QED
        BY <4>1, <4>2
    <3> QED
      BY <3>1, <3>2
  <2>4. CASE x # "/"
    <3>1. Len(d2) = k /\ Len(e2) = Len(d2) + 1 /\ e2[1] = <<>>
      <4>1. 1 \in 1..k
        BY <1>1
      <4> QED
        BY <4>1, <1>1, <1>2, <2>1, <2>2, <2>4
    <3>2. ASSUME NEW i \in 1..k PROVE e2[i + 1] = d2[i]
      <4>1. CASE i = k
        <5>1. e[k + 1] = d[k]
          BY <1>1, <2>1
        <5> QED
          BY <5>1, <4>1, <1>2, <2>2, <2>4
      <4>2. CASE i # k
        <5>1. i \in 1..(k - 1) /\ i + 1 \in 1..k
          BY <4>2, <1>1
        <5> QED
          BY <5>1, <1>2, <2>1, <2>2, <2>4
      <4> QED
        BY <4>1, <4>2
    <3> QED
      BY <3>1, <3>2
  <2> QED
    BY <2>3, <2>4
<1>5. ASSUME t # "/"
      PROVE  Len(e2) = Len(d2) /\ Begins(T, t, d2[1], e2[1]) /\ \A i \in 2..Len(d2) : e2[i] = d2[i]
  <2>1. Len(e) = k /\ Begins(T, t, d[1], e[1]) /\ \A i \in 2..k : e[i] = d[i]
    BY <1>1, <1>5 DEF IsAhead
  <2>2. /\ x = "/" =>
             /\ Len(e2) = k + 1 /\ e2[k + 1] = <<>>
             /\ \A i \in 1..k : e2[i] = e[i]
        /\ x # "/" =>
             /\ Len(e2) = k /\ e2[k] = Append(e[k], x)
             /\ \A i \in 1..(k - 1) : e2[i] = e[i]
    BY <2>1 DEF IsSplit
  <2>3. CASE x = "/"
    <3>1. e2[1] = e[1] /\ d2[1] = d[1] /\ Len(e2) = k + 1 /\ Len(d2) = k + 1
      <4>1. 1 \in 1..k
        BY <1>1
      <4> QED
        BY <4>1, <1>2, <2>2, <2>3
    <3>2. ASSUME NEW i \in 2..(k + 1) PROVE e2[i] = d2[i]
      <4>1. CASE i = k + 1
        BY <4>1, <1>2, <2>2, <2>3
      <4>2. CASE i # k + 1
        <5>1. i \in 1..k /\ i \in 2..k
          BY <4>2, <1>1
        <5> QED
          BY <5>1, <1>2, <2>1, <2>2, <2>3
      <4> QED
        BY <4>1, <4>2
    <3> QED
      BY <2>1, <3>1, <3>2
  <2>4. CASE x # "/"
    <3>1. Len(e2) = k /\ Len(d2) = k
      BY <1>2, <2>2, <2>4
    <3>2. Begins(T, t, d2[1], e2[1])
      <4>1. CASE k = 1
        <5>1. e2[1] = Append(e[1], x) /\ d2[1] = Append(d[1], x)
          BY <4>1, <1>2, <2>2, <2>4
        <5> QED
          BY <5>1, <2>1, BeginsAppended
      <4>2. CASE k # 1
        <5>1. 1 \in 1..(k - 1)
          BY <4>2, <1>1
        <5> QED
          BY <5>1, <1>2, <2>1, <2>2, <2>4
      <4> QED
        BY <4>1, <4>2
    <3>3. ASSUME NEW i \in 2..k PROVE e2[i] = d2[i]
      <4>1. CASE i = k
        <5>1. e[k] = d[k]
          BY <4>1, <2>1
        <5> QED
          BY <5>1, <4>1, <1>2, <2>2, <2>4
      <4>2. CASE i # k
        <5>1. i \in 1..(k - 1) /\ i \in 2..k
          BY <4>2, <1>1
        <5> QED
          BY <5>1, <1>2, <2>1, <2>2, <2>4
      <4> QED
        BY <4>1, <4>2
    <3> QED
      BY <3>1, <3>2, <3>3
  <2> QED
    BY <2>3, <2>4
<1> QED
  BY <1>2, <1>3, <1>4, <1>5 DEF IsAhead

\* It is so at first.
LEMMA AheadFirst ==
  ASSUME NEW T, NEW t \in T, NEW d, NEW e, d = <<<<>>>>, IsSplit(T, d, t, e)
  PROVE  IsAhead(T, t, d, e)
<1>1. d \in Seq(Seq(T)) /\ e \in Seq(Seq(T)) /\ Len(d) = 1 /\ d[1] = <<>>
  BY DEF IsSplit
<1>2. ASSUME t = "/" PROVE Len(e) = 2 /\ e[1] = <<>> /\ e[2] = <<>>
  BY <1>1, <1>2 DEF IsSplit
<1>3. ASSUME t # "/" PROVE Len(e) = 1 /\ Begins(T, t, <<>>, e[1])
  <2>1. Len(e) = 1 /\ e[1] = Append(<<>>, t)
    BY <1>1, <1>3 DEF IsSplit
  <2>2. <<>> \in Seq(T) /\ Len(<<>>) = 0
    BY EmptySeq
  <2>3. /\ Append(<<>>, t) \in Seq(T) /\ Len(Append(<<>>, t)) = 1 /\ Append(<<>>, t)[1] = t
    BY <2>2, AppendProperties
  <2>4. Begins(T, t, <<>>, e[1])
    BY <2>1, <2>2, <2>3 DEF Begins, After
  <2> QED
    BY <2>1, <2>4
<1>4. (\A i \in 1..1 : i = 1) /\ (\A i \in 2..1 : FALSE)
  OBVIOUS
<1>5. t = "/" => Len(e) = Len(d) + 1 /\ e[1] = <<>> /\ \A i \in 1..Len(d) : e[i + 1] = d[i]
  BY <1>1, <1>2, <1>4
<1>6. t # "/" => Len(e) = Len(d) /\ Begins(T, t, d[1], e[1]) /\ \A i \in 2..Len(d) : e[i] = d[i]
  BY <1>1, <1>3, <1>4
<1> QED
  BY <1>1, <1>5, <1>6 DEF IsAhead

\* The segments of a string, as its tokens are read.
SegmentsSplit(T, n, s, h) ==
  /\ h[0] = <<<<>>>> /\ h[n] = Segments(s)
  /\ \A k \in 0..n : h[k] \in Seq(Seq(T)) /\ Len(h[k]) \in Nat \ {0}
  /\ \A k \in 1..n : IsSplit(T, h[k - 1], s[k], h[k])

\* Segments goes through such values.
LEMMA SegmentsAsSplit ==
  ASSUME NEW T, NEW s \in Seq(T)
  PROVE  Len(s) \in Nat /\ \E h : SegmentsSplit(T, Len(s), s, h)
<1>1. PICK n \in Nat : n = Len(s) /\ s \in [1..n -> T]
  BY LenProperties
<1>2. PICK h : SegmentsTrace(T, n, s, h)
  BY <1>1, SegmentsSteps DEF Lists
<1>3. h \in [0..n -> Seq(Seq(T)) \ {<<>>}] /\ h[0] = <<<<>>>> /\ h[n] = Segments(s)
  BY <1>2 DEF SegmentsTrace
<1>4. ASSUME NEW k \in 0..n PROVE h[k] \in Seq(Seq(T)) /\ Len(h[k]) \in Nat \ {0}
  <2> DEFINE S == Seq(T)
  <2>1. h[k] \in Seq(S) /\ h[k] # <<>>
    BY <1>3
  <2> HIDE DEF S
  <2>2. Len(h[k]) \in Nat \ {0}
    BY <2>1, EmptySeq
  <2> QED
    BY <2>1, <2>2 DEF S
<1>5. ASSUME NEW k \in 1..n PROVE IsSplit(T, h[k - 1], s[k], h[k])
  <2>1. h[k - 1] \in Seq(Seq(T)) \ {<<>>} /\ h[k] = Splits(h[k - 1], s[k]) /\ s[k] \in T
    BY <1>1, <1>2 DEF SegmentsTrace
  <2>2. k \in 0..n
    BY <1>1
  <2>3. Splits(h[k - 1], s[k]) \in Seq(Seq(T))
    BY <2>1, <2>2, <1>4
  <2>4. IsSplit(T, h[k - 1], s[k], Splits(h[k - 1], s[k]))
    BY <2>1, <2>3, SplitIs
  <2> QED
    BY <2>1, <2>4
<1>6. SegmentsSplit(T, n, s, h)
  BY <1>3, <1>4, <1>5 DEF SegmentsSplit
<1> QED
  BY <1>1, <1>6

\* A string has at least one segment.
LEMMA SegmentsAre ==
  ASSUME NEW T, NEW s \in Seq(T)
  PROVE  Segments(s) \in Seq(Seq(T)) /\ Len(Segments(s)) \in Nat \ {0}
<1>1. PICK h : Len(s) \in Nat /\ SegmentsSplit(T, Len(s), s, h)
  BY SegmentsAsSplit
<1>2. Len(s) \in 0..Len(s)
  BY <1>1
<1> QED
  BY <1>1, <1>2 DEF SegmentsSplit

\* The empty string has one, which is empty.
LEMMA SegmentsOfNone == Segments(<<>>) = <<<<>>>>
<1>1. <<>> \in Seq({}) /\ Len(<<>>) = 0
  BY EmptySeq
<1>2. PICK h : SegmentsSplit({}, 0, <<>>, h)
  BY <1>1, SegmentsAsSplit
<1> QED
  BY <1>2 DEF SegmentsSplit

\* A token ahead of a string is a new first segment, or goes ahead of the first one.
LEMMA SegmentsAhead ==
  ASSUME NEW T, NEW t, NEW r, NEW s, Begins(T, t, r, s)
  PROVE  IsAhead(T, t, Segments(r), Segments(s))
<1>1. /\ t \in T /\ r \in Seq(T) /\ s \in Seq(T) /\ Len(s) = Len(r) + 1 /\ s[1] = t
      /\ \A i \in 1..Len(r) : r[i] = s[i + 1]
  BY DEF Begins, After
<1>2. PICK n \in Nat : n = Len(r) /\ r \in [1..n -> T]
  BY <1>1, LenProperties
<1>3. PICK g : SegmentsSplit(T, n, r, g)
  BY <1>1, <1>2, SegmentsAsSplit
<1>4. PICK h : SegmentsSplit(T, n + 1, s, h)
  BY <1>1, <1>2, SegmentsAsSplit
<1> DEFINE P == {k \in 0..n : IsAhead(T, t, g[k], h[k + 1])}
<1>5. 0 \in P
  <2>1. IsSplit(T, h[0], t, h[1]) /\ h[0] = <<<<>>>>
    <3>1. 1 \in 1..(n + 1) /\ 1 - 1 = 0
      BY <1>2
    <3> QED
      BY <3>1, <1>1, <1>4 DEF SegmentsSplit
  <2>2. IsAhead(T, t, h[0], h[1])
    BY <1>1, <2>1, AheadFirst
  <2>3. g[0] = h[0]
    BY <1>3, <2>1 DEF SegmentsSplit
  <2> QED
    BY <1>2, <2>2, <2>3
<1>6. ASSUME NEW k \in 1..n, k - 1 \in P PROVE k \in P
  <2>1. IsSplit(T, g[k - 1], r[k], g[k])
    BY <1>3 DEF SegmentsSplit
  <2>2. IsSplit(T, h[k], s[k + 1], h[k + 1])
    <3>1. k + 1 \in 1..(n + 1) /\ (k + 1) - 1 = k
      BY <1>2
    <3> QED
      BY <3>1, <1>4 DEF SegmentsSplit
  <2>3. r[k] = s[k + 1] /\ r[k] \in T
    BY <1>1, <1>2
  <2>4. IsAhead(T, t, g[k - 1], h[k])
    <3>1. (k - 1) + 1 = k
      BY <1>2
    <3> QED
      BY <3>1, <1>6
  <2>5. IsAhead(T, t, g[k], h[k + 1])
    BY <2>1, <2>2, <2>3, <2>4, AheadStep
  <2> QED
    BY <1>2, <2>5
<1> HIDE DEF P
<1>7. 0..n \subseteq P
  BY <1>2, <1>5, <1>6, UpFrom
<1>8. IsAhead(T, t, g[n], h[n + 1])
  BY <1>2, <1>7 DEF P
<1> QED
  BY <1>3, <1>4, <1>8 DEF SegmentsSplit

\* The last segment is empty when the string ends in a slash, and then alone.
LEMMA LastSegment ==
  ASSUME NEW T, NEW s \in Seq(T), s # <<>>
  PROVE  Segments(s)[Len(Segments(s))] = <<>> <=> s[Len(s)] = "/"
<1>1. Len(s) \in Nat \ {0}
  BY EmptySeq
<1>2. PICK n \in Nat : n = Len(s) /\ n >= 1 /\ s \in [1..n -> T]
  BY <1>1, LenProperties
<1>3. PICK h : SegmentsSplit(T, n, s, h)
  BY <1>2, SegmentsAsSplit
<1>4. n \in 1..n /\ n - 1 \in 0..n
  BY <1>2
<1>5. IsSplit(T, h[n - 1], s[n], h[n]) /\ h[n] = Segments(s)
  BY <1>3, <1>4 DEF SegmentsSplit
<1>6. CASE s[n] = "/"
  BY <1>2, <1>5, <1>6 DEF IsSplit
<1>7. CASE s[n] # "/"
  <2> DEFINE d == h[n - 1]
             l == d[Len(d)]
  <2>1. h[n][Len(h[n])] = Append(l, s[n])
    BY <1>5, <1>7 DEF IsSplit
  <2>2. l \in Seq(T)
    <3>1. d \in Seq(Seq(T)) /\ Len(d) \in Nat \ {0}
      BY <1>5 DEF IsSplit
    <3>2. Len(d) \in 1..Len(d)
      BY <3>1
    <3> HIDE DEF d
    <3> QED
      BY <3>1, <3>2, ElementOfSeq
  <2>3. s[n] \in T
    BY <1>2, <1>4
  <2> HIDE DEF l
  <2>4. Append(l, s[n]) # <<>>
    BY <2>2, <2>3, AppendProperties
  <2> QED
    BY <1>2, <1>5, <1>7, <2>1, <2>4
<1> QED
  BY <1>6, <1>7

\* Each segment of a name matches that of the pattern.
Alike(d, e) == Len(d) = Len(e) /\ \A i \in 1..Len(d) : Match(d[i], e[i])

\* Each but the first.
RestAlike(d, e) == Len(d) = Len(e) /\ \A i \in 2..Len(d) : Match(d[i], e[i])

\* Sequences of segments match when the first do and the rest does.
LEMMA FirstAndRest ==
  ASSUME NEW d, NEW e, Len(d) \in Nat \ {0}
  PROVE  Alike(d, e) <=> Match(d[1], e[1]) /\ RestAlike(d, e)
<1>1. \A i : i \in 1..Len(d) <=> i = 1 \/ i \in 2..Len(d)
  OBVIOUS
<1> QED
  BY <1>1, Zenon DEF Alike, RestAlike

\* A slash ahead of both changes nothing.
LEMMA SlashAhead ==
  ASSUME NEW T, NEW d, NEW e, NEW d2, NEW e2, IsAhead(T, "/", d, e), IsAhead(T, "/", d2, e2)
  PROVE  Alike(e, e2) <=> Alike(d, d2)
<1>1. PICK m \in Nat, n \in Nat : m = Len(d) /\ n = Len(d2)
  BY DEF IsAhead
<1>2. /\ Len(e) = m + 1 /\ e[1] = <<>> /\ (\A i \in 1..m : e[i + 1] = d[i])
      /\ Len(e2) = n + 1 /\ e2[1] = <<>> /\ (\A i \in 1..n : e2[i + 1] = d2[i])
  BY <1>1 DEF IsAhead
<1>3. Match(<<>>, <<>>)
  <2>1. <<>> \in Seq({})
    BY EmptySeq
  <2> QED
    BY <2>1, NothingMatches
<1>4. ASSUME Alike(e, e2) PROVE Alike(d, d2)
  <2>1. m = n
    BY <1>1, <1>2, <1>4 DEF Alike
  <2>2. ASSUME NEW i \in 1..m PROVE Match(d[i], d2[i])
    <3>1. i + 1 \in 1..(m + 1)
      BY <1>1
    <3>2. Match(e[i + 1], e2[i + 1])
      BY <3>1, <1>2, <1>4 DEF Alike
    <3> QED
      BY <3>2, <1>2, <2>1
  <2> QED
    BY <1>1, <2>1, <2>2 DEF Alike
<1>5. ASSUME Alike(d, d2) PROVE Alike(e, e2)
  <2>1. m = n
    BY <1>1, <1>5 DEF Alike
  <2>2. ASSUME NEW i \in 1..(m + 1) PROVE Match(e[i], e2[i])
    <3>1. CASE i = 1
      BY <3>1, <1>2, <1>3
    <3>2. CASE i # 1
      <4>1. i - 1 \in 1..m /\ (i - 1) + 1 = i
        BY <3>2, <1>1
      <4>2. Match(d[i - 1], d2[i - 1])
        BY <4>1, <1>1, <1>5 DEF Alike
      <4>3. e[i] = d[i - 1] /\ e2[i] = d2[i - 1]
        <5>1. e[(i - 1) + 1] = d[i - 1] /\ e2[(i - 1) + 1] = d2[i - 1]
          BY <4>1, <1>2, <2>1
        <5> QED
          BY <5>1, <4>1
      <4> QED
        BY <4>2, <4>3
    <3> QED
      BY <3>1, <3>2
  <2> QED
    BY <1>2, <2>1, <2>2 DEF Alike
<1> QED
  BY <1>4, <1>5

\* Another token ahead changes the first segment alone.
LEMMA RestAhead ==
  ASSUME NEW T, NEW t, NEW d, NEW e, IsAhead(T, t, d, e), t # "/"
  PROVE  /\ \A x : RestAlike(e, x) <=> RestAlike(d, x)
         /\ \A x : RestAlike(x, e) <=> RestAlike(x, d)
<1>1. Len(e) = Len(d) /\ \A i \in 2..Len(d) : e[i] = d[i]
  BY DEF IsAhead
<1> QED
  BY <1>1 DEF RestAlike

\* What begins with a token is not empty.
LEMMA BeginsSomething ==
  ASSUME NEW T, NEW t, NEW r, NEW s, Begins(T, t, r, s)
  PROVE  s # <<>> /\ s \in Seq(T) /\ r \in Seq(T) /\ t \in T /\ Len(s) = Len(r) + 1 /\ Len(r) \in Nat
<1>1. s \in Seq(T) /\ r \in Seq(T) /\ t \in T /\ Len(s) = Len(r) + 1 /\ Len(r) \in Nat
  BY LenProperties DEF Begins, After
<1>2. Len(s) # 0
  BY <1>1
<1> QED
  BY <1>1, <1>2, EmptySeq

\* A pattern and a name that match when their segments do.
Settled(p, c) == Match(p, c) <=> Alike(Segments(p), Segments(c))

\* It is settled for the empty pattern, ...
LEMMA SettledEmpty ==
  ASSUME NEW T, NEW c \in Seq(T)
  PROVE  Settled(<<>>, c)
<1>1. Segments(<<>>) = <<<<>>>> /\ Len(<<<<>>>>) = 1 /\ <<<<>>>>[1] = <<>>
  BY SegmentsOfNone
<1>2. Match(<<>>, c) <=> c = <<>>
  BY NothingMatches
<1>3. CASE c = <<>>
  <2>1. \A i \in 1..1 : i = 1
    OBVIOUS
  <2>2. Match(<<>>, <<>>)
    BY <1>2, <1>3
  <2> QED
    BY <1>1, <1>3, <2>1, <2>2 DEF Alike, Settled
<1>4. CASE c # <<>>
  <2>1. PICK u \in T, d \in Seq(T) : Begins(T, u, d, c)
    BY <1>4, EmptyOrBegins
  <2>2. IsAhead(T, u, Segments(d), Segments(c))
    BY <2>1, SegmentsAhead
  <2>3. ASSUME Alike(<<<<>>>>, Segments(c)) PROVE FALSE
    <3>1. Len(Segments(c)) = 1 /\ Match(<<>>, Segments(c)[1])
      <4>1. 1 \in 1..1
        OBVIOUS
      <4> QED
        BY <4>1, <1>1, <2>3 DEF Alike
    <3>2. CASE u = "/"
      BY <2>2, <3>1, <3>2 DEF IsAhead
    <3>3. CASE u # "/"
      <4>1. Begins(T, u, Segments(d)[1], Segments(c)[1])
        BY <2>2, <3>3 DEF IsAhead
      <4>2. Segments(c)[1] # <<>> /\ Segments(c)[1] \in Seq(T)
        BY <4>1, BeginsSomething
      <4> QED
        BY <3>1, <4>2, NothingMatches
    <3> QED
      BY <3>2, <3>3
  <2> QED
    BY <1>1, <1>2, <1>4, <2>3 DEF Settled
<1> QED
  BY <1>3, <1>4

\* The first segment is a string.
LEMMA FirstSegment ==
  ASSUME NEW T, NEW s \in Seq(T)
  PROVE  Segments(s)[1] \in Seq(T) /\ Len(Segments(s)) \in Nat \ {0}
<1> DEFINE S == Seq(T)
           d == Segments(s)
<1>1. d \in Seq(S) /\ Len(d) \in Nat \ {0}
  BY SegmentsAre
<1> HIDE DEF S, d
<1>2. 1 \in 1..Len(d)
  BY <1>1
<1>3. d[1] \in S
  BY <1>1, <1>2, ElementOfSeq
<1> QED
  BY <1>1, <1>3 DEF S, d

\* ... for the empty name when it is for the rest of the pattern, ...
LEMMA SettledAtEnd ==
  ASSUME NEW T, NEW t, NEW p, NEW r, Begins(T, t, r, p), Settled(r, <<>>)
  PROVE  Settled(p, <<>>)
<1> DEFINE D == Segments(p)
           R == Segments(r)
           E == Segments(<<>>)
<1>1. E = <<<<>>>> /\ Len(E) = 1 /\ E[1] = <<>> /\ <<>> \in Seq(T)
  BY SegmentsOfNone, EmptySeq
<1>2. p \in Seq(T) /\ r \in Seq(T)
  BY BeginsSomething
<1>3. /\ D[1] \in Seq(T) /\ Len(D) \in Nat \ {0} /\ R[1] \in Seq(T) /\ Len(R) \in Nat \ {0}
  BY <1>2, FirstSegment
<1>4. IsAhead(T, t, R, D)
  BY SegmentsAhead
<1> HIDE DEF D, R, E
<1>5. (Alike(D, E) <=> Match(D[1], E[1]) /\ RestAlike(D, E))
      /\ (Alike(R, E) <=> Match(R[1], E[1]) /\ RestAlike(R, E))
  BY <1>3, FirstAndRest
<1>6. CASE t = "/"
  <2>1. ~Match(p, <<>>)
    BY <1>1, <1>6, TokenMatches
  <2>2. Len(D) = Len(R) + 1
    BY <1>4, <1>6 DEF IsAhead
  <2>3. Len(D) # Len(E)
    BY <1>1, <1>3, <2>2
  <2>4. ~Alike(D, E)
    BY <2>3 DEF Alike
  <2> QED
    BY <2>1, <2>4 DEF Settled, D, E
<1>7. ASSUME t # "/" PROVE Begins(T, t, R[1], D[1]) /\ (RestAlike(D, E) <=> RestAlike(R, E))
  <2>1. Begins(T, t, R[1], D[1])
    BY <1>4, <1>7 DEF IsAhead
  <2> QED
    BY <1>4, <1>7, <2>1, RestAhead
<1>8. CASE t = "*"
  <2>1. Match(p, <<>>) <=> Match(r, <<>>)
    BY <1>1, <1>8, StarMatches
  <2>2. t # "/"
    BY <1>8
  <2>3. Match(D[1], <<>>) <=> Match(R[1], <<>>)
    <3>1. Begins(T, "*", R[1], D[1])
      BY <1>7, <1>8, <2>2
    <3> QED
      BY <1>1, <3>1, StarMatches
  <2>4. Alike(D, E) <=> Alike(R, E)
    BY <1>1, <1>5, <1>7, <2>2, <2>3
  <2>5. Match(r, <<>>) <=> Alike(R, E)
    BY DEF Settled, R, E
  <2> QED
    BY <2>1, <2>4, <2>5 DEF Settled, D, E
<1>9. CASE t # "*" /\ t # "/"
  <2>1. ~Match(p, <<>>)
    BY <1>1, <1>9, TokenMatches
  <2>2. ~Match(D[1], <<>>)
    BY <1>1, <1>7, <1>9, TokenMatches
  <2>3. ~Alike(D, E)
    BY <1>1, <1>5, <2>2
  <2> QED
    BY <2>1, <2>3 DEF Settled, D, E
<1> QED
  BY <1>6, <1>8, <1>9

\* ... and for two strings when it is for what is left of them.
LEMMA SettledOn ==
  ASSUME NEW T, NEW t, NEW p, NEW r, Begins(T, t, r, p), NEW u, NEW c, NEW d, Begins(T, u, d, c),
         Settled(r, c), Settled(r, d), Settled(p, d)
  PROVE  Settled(p, c)
<1> DEFINE D == Segments(p)
           R == Segments(r)
           E == Segments(c)
           F == Segments(d)
<1>1. p \in Seq(T) /\ r \in Seq(T) /\ c \in Seq(T) /\ d \in Seq(T)
  BY BeginsSomething
<1>2. /\ D[1] \in Seq(T) /\ Len(D) \in Nat \ {0} /\ R[1] \in Seq(T) /\ Len(R) \in Nat \ {0}
      /\ E[1] \in Seq(T) /\ F[1] \in Seq(T)
  BY <1>1, FirstSegment
<1>3. IsAhead(T, t, R, D) /\ IsAhead(T, u, F, E)
  BY SegmentsAhead
<1>4. (Match(r, c) <=> Alike(R, E)) /\ (Match(r, d) <=> Alike(R, F)) /\ (Match(p, d) <=> Alike(D, F))
  BY DEF Settled
<1> SUFFICES Match(p, c) <=> Alike(D, E)
  BY DEF Settled
<1> HIDE DEF D, R, E, F
<1>5. /\ Alike(D, E) <=> Match(D[1], E[1]) /\ RestAlike(D, E)
      /\ Alike(R, E) <=> Match(R[1], E[1]) /\ RestAlike(R, E)
      /\ Alike(D, F) <=> Match(D[1], F[1]) /\ RestAlike(D, F)
      /\ Alike(R, F) <=> Match(R[1], F[1]) /\ RestAlike(R, F)
  BY <1>2, FirstAndRest
<1>6. ASSUME t # "/"
      PROVE  /\ Begins(T, t, R[1], D[1])
             /\ RestAlike(D, E) <=> RestAlike(R, E)
             /\ RestAlike(D, F) <=> RestAlike(R, F)
  <2>1. Begins(T, t, R[1], D[1])
    BY <1>3, <1>6 DEF IsAhead
  <2> QED
    BY <1>3, <1>6, <2>1, RestAhead
<1>7. ASSUME u # "/"
      PROVE  /\ Begins(T, u, F[1], E[1])
             /\ RestAlike(D, E) <=> RestAlike(D, F)
             /\ RestAlike(R, E) <=> RestAlike(R, F)
  <2>1. Begins(T, u, F[1], E[1])
    BY <1>3, <1>7 DEF IsAhead
  <2> QED
    BY <1>3, <1>7, <2>1, RestAhead
<1>8. ASSUME u = "/" PROVE E[1] = <<>>
  BY <1>3, <1>8 DEF IsAhead
<1>9. CASE t = "*"
  <2>1. t # "/"
    BY <1>9
  <2>2. Match(p, c) <=> Match(r, c) \/ (u # "/" /\ Match(p, d))
    BY <1>1, <1>9, StarMatches
  <2>3. Begins(T, "*", R[1], D[1])
    BY <1>6, <1>9, <2>1
  <2>4. CASE u = "/"
    <3>1. Match(D[1], E[1]) <=> Match(R[1], E[1])
      BY <1>2, <1>8, <2>3, <2>4, StarMatches
    <3> QED
      BY <1>4, <1>5, <1>6, <2>1, <2>2, <2>4, <3>1
  <2>5. CASE u # "/"
    <3>1. Match(D[1], E[1]) <=> Match(R[1], E[1]) \/ (u # "/" /\ Match(D[1], F[1]))
      BY <1>2, <1>7, <2>3, <2>5, StarMatches
    <3> QED
      BY <1>4, <1>5, <1>6, <1>7, <2>1, <2>2, <2>5, <3>1
  <2> QED
    BY <2>4, <2>5
<1>10. CASE t = "/"
  <2>1. Match(p, c) <=> u = t /\ Match(r, d)
    BY <1>1, <1>10, TokenMatches
  <2>2. CASE u = "/"
    <3>1. Alike(D, E) <=> Alike(R, F)
      BY <1>3, <1>10, <2>2, SlashAhead
    <3> QED
      BY <1>4, <1>10, <2>1, <2>2, <3>1
  <2>3. CASE u # "/"
    <3>1. D[1] = <<>> /\ E[1] # <<>>
      BY SMTT(40), <1>3, <1>7, <1>10, <2>3, BeginsSomething DEF IsAhead
    <3>2. ~Match(D[1], E[1])
      BY <1>2, <3>1, NothingMatches
    <3> QED
      BY <1>5, <1>10, <2>1, <2>3, <3>2
  <2> QED
    BY <2>2, <2>3
<1>11. CASE t # "*" /\ t # "/"
  <2>1. Match(p, c) <=> u = t /\ Match(r, d)
    BY <1>1, <1>11, TokenMatches
  <2>2. CASE u = "/"
    <3>1. ~Match(D[1], E[1])
      BY <1>2, <1>6, <1>8, <1>11, <2>2, TokenMatches
    <3> QED
      BY <1>5, <1>11, <2>1, <2>2, <3>1
  <2>3. CASE u # "/"
    <3>1. Match(D[1], E[1]) <=> u = t /\ Match(R[1], F[1])
      BY <1>2, <1>6, <1>7, <1>11, <2>3, TokenMatches
    <3> QED
      BY <1>4, <1>5, <1>6, <1>7, <1>11, <2>1, <2>3, <3>1
  <2> QED
    BY <2>2, <2>3
<1> QED
  BY <1>9, <1>10, <1>11

\* What holds of two sequences when it holds of all that are shorter together, holds of all.
LEMMA PairInduction ==
  ASSUME NEW T, NEW P,
         \A p, c \in Seq(T) :
           (\A q, d \in Seq(T) : Len(q) + Len(d) < Len(p) + Len(c) => <<q, d>> \in P)
             => <<p, c>> \in P
  PROVE  \A p, c \in Seq(T) : <<p, c>> \in P
<1> DEFINE S == Seq(T) \X Seq(T)
           m == [x \in S |-> Len(x[1]) + Len(x[2])]
<1>1. m \in [S -> Nat]
  <2>1. \A x \in S : Len(x[1]) + Len(x[2]) \in Nat
    <3> TAKE x \in S
    <3>1. x[1] \in Seq(T) /\ x[2] \in Seq(T)
      OBVIOUS
    <3>2. Len(x[1]) \in Nat /\ Len(x[2]) \in Nat
      BY <3>1, LenProperties
    <3> QED
      BY <3>2
  <2> HIDE DEF S
  <2> QED
    BY <2>1
<1>2. ASSUME NEW x \in S, \A y \in S : m[y] < m[x] => y \in P PROVE x \in P
  <2>1. PICK p \in Seq(T), c \in Seq(T) : x = <<p, c>>
    OBVIOUS
  <2>2. ASSUME NEW q \in Seq(T), NEW d \in Seq(T), Len(q) + Len(d) < Len(p) + Len(c)
        PROVE  <<q, d>> \in P
    <3>1. <<q, d>> \in S /\ m[<<q, d>>] = Len(q) + Len(d) /\ m[x] = Len(p) + Len(c)
      BY <2>1
    <3> QED
      BY <1>2, <2>2, <3>1
  <2> QED
    BY <2>1, <2>2
<1> HIDE DEF m
<1>3. S \subseteq P
  <2> HIDE DEF S
  <2> QED
    BY <1>1, <1>2, MeasureInduction
<1> QED
  BY <1>3

\* A pattern matches a name segment by segment.
LEMMA MatchesBySegment ==
  ASSUME NEW T, NEW p \in Seq(T), NEW c \in Seq(T)
  PROVE  Match(p, c) <=> Alike(Segments(p), Segments(c))
<1> DEFINE P == {x \in Seq(T) \X Seq(T) : Settled(x[1], x[2])}
<1>1. ASSUME NEW a \in Seq(T), NEW b \in Seq(T),
             \A q, d \in Seq(T) : Len(q) + Len(d) < Len(a) + Len(b) => <<q, d>> \in P
      PROVE  <<a, b>> \in P
  <2>1. CASE a = <<>>
    BY <2>1, SettledEmpty
  <2>2. CASE a # <<>>
    <3>1. PICK t \in T, r \in Seq(T) : Begins(T, t, r, a)
      BY <2>2, EmptyOrBegins
    <3>2. Len(a) = Len(r) + 1 /\ Len(r) \in Nat /\ Len(b) \in Nat
      BY <3>1, BeginsSomething, LenProperties
    <3>3. Settled(r, b)
      <4>1. Len(r) + Len(b) < Len(a) + Len(b)
        BY <3>2
      <4>2. <<r, b>> \in P
        BY <1>1, <4>1
      <4> QED
        BY <4>2
    <3>4. CASE b = <<>>
      <4>1. Settled(a, b)
        BY <3>1, <3>3, <3>4, SettledAtEnd
      <4> QED
        BY <4>1
    <3>5. CASE b # <<>>
      <4>1. PICK u \in T, d \in Seq(T) : Begins(T, u, d, b)
        BY <3>5, EmptyOrBegins
      <4>2. Len(b) = Len(d) + 1 /\ Len(d) \in Nat
        BY <4>1, BeginsSomething
      <4>3. Len(r) + Len(d) < Len(a) + Len(b) /\ Len(a) + Len(d) < Len(a) + Len(b)
        BY <3>2, <4>2
      <4>4. <<r, d>> \in P /\ <<a, d>> \in P
        BY <1>1, <4>3
      <4>5. Settled(r, d) /\ Settled(a, d)
        BY <4>4
      <4>6. Settled(a, b)
        BY <3>1, <3>3, <4>1, <4>5, SettledOn
      <4> QED
        BY <4>6
    <3> QED
      BY <3>4, <3>5
  <2> QED
    BY <2>1, <2>2
<1> HIDE DEF P
<1>2. <<p, c>> \in P
  BY <1>1, PairInduction
<1>3. Settled(p, c)
  BY <1>2 DEF P
<1> QED
  BY <1>3 DEF Settled

\* The pattern's last segment matches the name's.
LEMMA LastMatches ==
  ASSUME NEW T, NEW p \in Seq(T), NEW c \in Seq(T), Match(p, c),
         c # <<>>, c[Len(c)] # "/", p # <<>>
  PROVE  p[Len(p)] # "/"
<1> DEFINE D == Segments(p)
           E == Segments(c)
           S == Seq(T)
<1>1. Alike(D, E)
  BY MatchesBySegment
<1>2. D \in Seq(S) /\ Len(D) \in Nat \ {0} /\ E \in Seq(S) /\ Len(E) \in Nat \ {0}
  BY SegmentsAre
<1>3. (D[Len(D)] = <<>> <=> p[Len(p)] = "/") /\ (E[Len(E)] = <<>> <=> c[Len(c)] = "/")
  BY LastSegment
<1> HIDE DEF D, E, S
<1>4. Len(D) \in 1..Len(D) /\ Len(E) \in 1..Len(E) /\ Len(E) = Len(D)
  BY <1>1, <1>2 DEF Alike
<1>5. Match(D[Len(D)], E[Len(E)])
  BY <1>1, <1>4 DEF Alike
<1>6. E[Len(E)] \in S
  BY <1>2, <1>4, ElementOfSeq
<1> SUFFICES ASSUME D[Len(D)] = <<>> PROVE FALSE
  BY <1>3
<1>7. E[Len(E)] = <<>>
  <2>1. Match(<<>>, E[Len(E)])
    BY <1>5
  <2>2. E[Len(E)] \in Seq(T)
    BY <1>6 DEF S
  <2> HIDE DEF S
  <2> QED
    BY <2>1, <2>2, NothingMatches
<1> QED
  BY <1>3, <1>7

\* Two sequences, token by token.
LEMMA BothBegin ==
  ASSUME NEW T, NEW t, NEW r, NEW p, Begins(T, t, r, p), NEW u, NEW d, NEW c, Begins(T, u, d, c)
  PROVE  /\ p = c <=> t = u /\ r = d
         /\ IsPrefix(p, c) <=> t = u /\ IsPrefix(r, d)
<1>1. /\ p \in Seq(T) /\ r \in Seq(T) /\ Len(p) = Len(r) + 1 /\ p[1] = t
      /\ \A i \in 1..Len(r) : r[i] = p[i + 1]
  BY DEF Begins, After
<1>2. /\ c \in Seq(T) /\ d \in Seq(T) /\ Len(c) = Len(d) + 1 /\ c[1] = u
      /\ \A i \in 1..Len(d) : d[i] = c[i + 1]
  BY DEF Begins, After
<1>3. PICK k \in Nat, l \in Nat : k = Len(r) /\ l = Len(d)
  BY <1>1, <1>2, LenProperties
<1>4. IsPrefix(p, c) <=> Len(p) <= Len(c) /\ \A i \in 1..Len(p) : p[i] = c[i]
  <2>1. p \in Seq(T) /\ c \in Seq(T)
    BY <1>1, <1>2
  <2> QED
    BY <2>1, PrefixIs
<1>5. IsPrefix(r, d) <=> Len(r) <= Len(d) /\ \A i \in 1..Len(r) : r[i] = d[i]
  BY <1>1, <1>2, PrefixIs
<1>6. ASSUME IsPrefix(p, c) PROVE t = u /\ IsPrefix(r, d)
  <2>1. k + 1 <= l + 1 /\ \A i \in 1..(k + 1) : p[i] = c[i]
    BY <1>1, <1>2, <1>3, <1>4, <1>6
  <2>2. 1 \in 1..(k + 1)
    BY <1>3
  <2>3. ASSUME NEW i \in 1..k PROVE r[i] = d[i]
    <3>1. i + 1 \in 1..(k + 1) /\ i \in 1..l
      BY <1>3, <2>1
    <3> QED
      BY <1>1, <1>2, <1>3, <2>1, <3>1
  <2>4. k <= l
    BY <1>3, <2>1
  <2> QED
    BY <1>1, <1>2, <1>3, <1>5, <2>1, <2>2, <2>3, <2>4
<1>7. ASSUME t = u, IsPrefix(r, d) PROVE IsPrefix(p, c)
  <2>1. k <= l /\ \A i \in 1..k : r[i] = d[i]
    BY <1>3, <1>5, <1>7
  <2>2. ASSUME NEW i \in 1..(k + 1) PROVE p[i] = c[i]
    <3>1. CASE i = 1
      BY <3>1, <1>1, <1>2, <1>7
    <3>2. CASE i # 1
      <4>1. i - 1 \in 1..k /\ i - 1 \in 1..l /\ (i - 1) + 1 = i
        BY <3>2, <1>3, <2>1
      <4>2. r[i - 1] = p[i] /\ d[i - 1] = c[i]
        <5>1. r[i - 1] = p[(i - 1) + 1] /\ d[i - 1] = c[(i - 1) + 1]
          BY <4>1, <1>1, <1>2, <1>3
        <5> QED
          BY <4>1, <5>1
      <4> QED
        BY <2>1, <4>1, <4>2
    <3> QED
      BY <3>1, <3>2
  <2>3. k + 1 <= l + 1
    BY <1>3, <2>1
  <2> QED
    BY <1>1, <1>2, <1>3, <1>4, <2>2, <2>3
<1>8. ASSUME p = c PROVE t = u /\ r = d
  <2>1. t = u /\ Len(r) = Len(d)
    BY <1>1, <1>2, <1>3, <1>8
  <2>2. \A i \in 1..Len(r) : r[i] = d[i]
    BY <1>1, <1>2, <1>8, <2>1
  <2> QED
    BY <1>1, <1>2, <2>1, <2>2, SeqEqual
<1>9. ASSUME t = u, r = d PROVE p = c
  <2>1. Len(p) = Len(c)
    BY <1>1, <1>2, <1>9
  <2>2. ASSUME NEW i \in 1..Len(p) PROVE p[i] = c[i]
    <3>1. CASE i = 1
      BY <3>1, <1>1, <1>2, <1>9
    <3>2. CASE i # 1
      <4>1. i - 1 \in 1..k /\ (i - 1) + 1 = i
        BY <3>2, <1>1, <1>3
      <4>2. r[i - 1] = p[(i - 1) + 1] /\ d[i - 1] = c[(i - 1) + 1]
        BY <4>1, <1>1, <1>2, <1>3, <1>9
      <4> QED
        BY <1>9, <4>1, <4>2
    <3> QED
      BY <3>1, <3>2
  <2> QED
    BY <1>1, <1>2, <2>1, <2>2, SeqEqual
<1> QED
  BY <1>6, <1>7, <1>8, <1>9

\* The name is the directory, or below it.
Under(p, c) == c = p \/ IsPrefix(p \o Slash, c)

\* A name lies under the empty directory when it begins with a slash.
LEMMA UnderNone ==
  ASSUME NEW T, "/" \in T, NEW u, NEW d, NEW c, Begins(T, u, d, c)
  PROVE  Under(<<>>, c) <=> u = "/"
<1>1. <<>> \in Seq(T) /\ Slash \in Seq(T) /\ Len(Slash) = 1 /\ Slash[1] = "/"
  BY EmptySeq DEF Slash
<1>2. <<>> \o Slash = Slash
  BY <1>1, ConcatEmptySeq
<1>3. c # <<>> /\ c \in Seq(T) /\ Len(c) \in Nat /\ Len(c) >= 1 /\ c[1] = u
  BY BeginsSomething DEF Begins
<1>4. IsPrefix(Slash, c) <=> 1 <= Len(c) /\ \A i \in 1..1 : Slash[i] = c[i]
  <2>1. IsPrefix(Slash, c) <=> Len(Slash) <= Len(c) /\ \A i \in 1..Len(Slash) : Slash[i] = c[i]
    <3>1. Slash \in Seq(T) /\ c \in Seq(T)
      BY <1>1, <1>3
    <3> QED
      BY <3>1, PrefixIs
  <2> QED
    BY <1>1, <2>1
<1>5. 1 \in 1..1 /\ \A i \in 1..1 : i = 1
  OBVIOUS
<1>6. IsPrefix(Slash, c) <=> u = "/"
  BY <1>1, <1>3, <1>4, <1>5
<1> QED
  BY <1>2, <1>3, <1>6 DEF Under

\* A slash at the end of a string is one at the end of what is left of it.
LEMMA SlashAfter ==
  ASSUME NEW T, "/" \in T, NEW t, NEW r, NEW p, Begins(T, t, r, p)
  PROVE  Begins(T, t, r \o Slash, p \o Slash)
<1>1. r \in Seq(T) /\ p \in Seq(T)
  BY BeginsSomething
<1>2. r \o Slash = Append(r, "/") /\ p \o Slash = Append(p, "/")
  BY <1>1, AppendIsConcat DEF Slash
<1>3. Begins(T, t, Append(r, "/"), Append(p, "/"))
  BY BeginsAppended
<1> QED
  BY <1>2, <1>3

\* The empty name is under no directory that has a name.
LEMMA UnderEnd ==
  ASSUME NEW T, "/" \in T, NEW t, NEW r, NEW p, Begins(T, t, r, p)
  PROVE  ~Under(p, <<>>)
<1>1. Begins(T, t, r \o Slash, p \o Slash)
  BY SlashAfter
<1>2. /\ p \o Slash \in Seq(T) /\ Len(p \o Slash) = Len(r \o Slash) + 1
      /\ Len(r \o Slash) \in Nat /\ p # <<>>
  BY <1>1, BeginsSomething
<1>3. <<>> \in Seq(T) /\ Len(<<>>) = 0
  BY EmptySeq
<1>4. IsPrefix(p \o Slash, <<>>) => Len(p \o Slash) <= 0
  BY <1>2, <1>3, PrefixIs
<1> QED
  BY <1>2, <1>4 DEF Under

\* A name is under a directory when they begin alike and what is left is under what is left.
LEMMA UnderOn ==
  ASSUME NEW T, "/" \in T, NEW t, NEW r, NEW p, Begins(T, t, r, p),
         NEW u, NEW d, NEW c, Begins(T, u, d, c)
  PROVE  Under(p, c) <=> t = u /\ Under(r, d)
<1>1. p = c <=> t = u /\ r = d
  BY BothBegin
<1>2. Begins(T, t, r \o Slash, p \o Slash)
  BY SlashAfter
<1>3. IsPrefix(p \o Slash, c) <=> t = u /\ IsPrefix(r \o Slash, d)
  BY <1>2, BothBegin
<1> QED
  BY <1>1, <1>3 DEF Under

\* The segments of one start as those of another.
Leads(d, e) == Len(d) <= Len(e) /\ \A i \in 1..Len(d) : d[i] = e[i]
RestLeads(d, e) == Len(d) <= Len(e) /\ \A i \in 2..Len(d) : d[i] = e[i]

\* Segments lead when the first is the same and the rest leads.
LEMMA FirstAndRestLead ==
  ASSUME NEW d, NEW e, Len(d) \in Nat \ {0}
  PROVE  Leads(d, e) <=> d[1] = e[1] /\ RestLeads(d, e)
<1>1. \A i : i \in 1..Len(d) <=> i = 1 \/ i \in 2..Len(d)
  OBVIOUS
<1> QED
  BY <1>1, Zenon DEF Leads, RestLeads

\* A slash ahead of both changes nothing.
LEMMA SlashLeads ==
  ASSUME NEW T, NEW d, NEW e, NEW d2, NEW e2, IsAhead(T, "/", d, e), IsAhead(T, "/", d2, e2)
  PROVE  Leads(e, e2) <=> Leads(d, d2)
<1>1. PICK m \in Nat, n \in Nat : m = Len(d) /\ n = Len(d2)
  BY DEF IsAhead
<1>2. /\ Len(e) = m + 1 /\ e[1] = <<>> /\ (\A i \in 1..m : e[i + 1] = d[i])
      /\ Len(e2) = n + 1 /\ e2[1] = <<>> /\ (\A i \in 1..n : e2[i + 1] = d2[i])
  BY <1>1 DEF IsAhead
<1>3. m + 1 <= n + 1 <=> m <= n
  BY <1>1
<1>4. ASSUME Leads(e, e2) PROVE Leads(d, d2)
  <2>1. m <= n
    BY <1>2, <1>3, <1>4 DEF Leads
  <2>2. ASSUME NEW i \in 1..m PROVE d[i] = d2[i]
    <3>1. i + 1 \in 1..(m + 1) /\ i \in 1..n
      BY <1>1, <2>1
    <3>2. e[i + 1] = e2[i + 1]
      BY <3>1, <1>2, <1>4 DEF Leads
    <3> QED
      BY <3>1, <3>2, <1>2
  <2> QED
    BY <1>1, <2>1, <2>2 DEF Leads
<1>5. ASSUME Leads(d, d2) PROVE Leads(e, e2)
  <2>1. m <= n
    BY <1>1, <1>5 DEF Leads
  <2>2. ASSUME NEW i \in 1..(m + 1) PROVE e[i] = e2[i]
    <3>1. CASE i = 1
      BY <3>1, <1>2
    <3>2. CASE i # 1
      <4>1. i - 1 \in 1..m /\ i - 1 \in 1..n /\ (i - 1) + 1 = i
        BY <3>2, <1>1, <2>1
      <4>2. d[i - 1] = d2[i - 1]
        BY <4>1, <1>1, <1>5 DEF Leads
      <4>3. e[(i - 1) + 1] = d[i - 1] /\ e2[(i - 1) + 1] = d2[i - 1]
        BY <4>1, <1>2
      <4> QED
        BY <4>1, <4>2, <4>3
    <3> QED
      BY <3>1, <3>2
  <2> QED
    BY <1>2, <1>3, <2>1, <2>2 DEF Leads
<1> QED
  BY <1>4, <1>5

\* Another token ahead of both changes the first segments alone.
LEMMA RestOfLeads ==
  ASSUME NEW T, NEW t, NEW u, NEW d, NEW e, NEW d2, NEW e2,
         IsAhead(T, t, d, e), IsAhead(T, u, d2, e2), t # "/", u # "/"
  PROVE  RestLeads(e, e2) <=> RestLeads(d, d2)
<1>1. PICK m \in Nat, n \in Nat : m = Len(d) /\ n = Len(d2)
  BY DEF IsAhead
<1>2. /\ Len(e) = m /\ (\A i \in 2..m : e[i] = d[i])
      /\ Len(e2) = n /\ (\A i \in 2..n : e2[i] = d2[i])
  BY <1>1 DEF IsAhead
<1>3. ASSUME m <= n, NEW i \in 2..m PROVE i \in 2..n
  BY <1>1, <1>3
<1> QED
  BY <1>1, <1>2, <1>3 DEF RestLeads

\* Of a directory and a name, the segments and the tokens say the same.
Same(p, c) == Leads(Segments(p), Segments(c)) <=> Under(p, c)

\* It is so of the empty directory, ...
LEMMA SameOfNone ==
  ASSUME NEW T, "/" \in T, NEW c \in Seq(T)
  PROVE  Same(<<>>, c)
<1>1. Segments(<<>>) = <<<<>>>> /\ Len(<<<<>>>>) = 1 /\ <<<<>>>>[1] = <<>>
  BY SegmentsOfNone
<1>2. Len(Segments(c)) \in Nat \ {0}
  BY FirstSegment
<1>3. Leads(<<<<>>>>, Segments(c)) <=> Segments(c)[1] = <<>>
  <2>1. 1 \in 1..1 /\ (\A i \in 1..1 : i = 1) /\ 1 <= Len(Segments(c))
    BY <1>2
  <2> QED
    BY <1>1, <2>1 DEF Leads
<1>4. CASE c = <<>>
  BY <1>1, <1>3, <1>4 DEF Same, Under
<1>5. CASE c # <<>>
  <2>1. PICK u \in T, d \in Seq(T) : Begins(T, u, d, c)
    BY <1>5, EmptyOrBegins
  <2>2. IsAhead(T, u, Segments(d), Segments(c))
    BY <2>1, SegmentsAhead
  <2>3. Under(<<>>, c) <=> u = "/"
    BY <2>1, UnderNone
  <2>4. CASE u = "/"
    <3>1. Segments(c)[1] = <<>>
      BY <2>2, <2>4 DEF IsAhead
    <3> QED
      BY <1>1, <1>3, <2>3, <2>4, <3>1 DEF Same
  <2>5. CASE u # "/"
    <3>1. Begins(T, u, Segments(d)[1], Segments(c)[1])
      BY <2>2, <2>5 DEF IsAhead
    <3>2. Segments(c)[1] # <<>>
      BY <3>1, BeginsSomething
    <3> QED
      BY <1>1, <1>3, <2>3, <2>5, <3>2 DEF Same
  <2> QED
    BY <2>4, <2>5
<1> QED
  BY <1>4, <1>5

\* ... of the empty name, ...
LEMMA SameAtEnd ==
  ASSUME NEW T, "/" \in T, NEW t, NEW r, NEW p, Begins(T, t, r, p)
  PROVE  Same(p, <<>>)
<1> DEFINE D == Segments(p)
           R == Segments(r)
           E == Segments(<<>>)
<1>1. E = <<<<>>>> /\ Len(E) = 1 /\ E[1] = <<>>
  BY SegmentsOfNone
<1>2. p \in Seq(T) /\ r \in Seq(T)
  BY BeginsSomething
<1>3. Len(D) \in Nat \ {0} /\ Len(R) \in Nat \ {0}
  BY <1>2, FirstSegment
<1>4. IsAhead(T, t, R, D)
  BY SegmentsAhead
<1>5. ~Under(p, <<>>)
  BY UnderEnd
<1> HIDE DEF D, R, E
<1>6. CASE t = "/"
  <2>1. Len(D) = Len(R) + 1
    BY <1>4, <1>6 DEF IsAhead
  <2>2. ~(Len(D) <= Len(E))
    BY <1>1, <1>3, <2>1
  <2> QED
    BY <1>5, <2>2 DEF Same, Leads, D, E
<1>7. CASE t # "/"
  <2>1. Begins(T, t, R[1], D[1])
    BY <1>4, <1>7 DEF IsAhead
  <2>2. D[1] # <<>>
    BY <2>1, BeginsSomething
  <2>3. ~Leads(D, E)
    BY <1>1, <1>3, <2>2, FirstAndRestLead
  <2> QED
    BY <1>5, <2>3 DEF Same, D, E
<1> QED
  BY <1>6, <1>7

\* ... and of two strings when it is of what is left of them.
LEMMA SameOn ==
  ASSUME NEW T, "/" \in T, NEW t, NEW r, NEW p, Begins(T, t, r, p),
         NEW u, NEW d, NEW c, Begins(T, u, d, c), Same(r, d)
  PROVE  Same(p, c)
<1> DEFINE D == Segments(p)
           R == Segments(r)
           E == Segments(c)
           F == Segments(d)
<1>1. p \in Seq(T) /\ r \in Seq(T) /\ c \in Seq(T) /\ d \in Seq(T)
  BY BeginsSomething
<1>2. Len(D) \in Nat \ {0} /\ Len(R) \in Nat \ {0}
  BY <1>1, FirstSegment
<1>3. IsAhead(T, t, R, D) /\ IsAhead(T, u, F, E)
  BY SegmentsAhead
<1>4. Under(p, c) <=> t = u /\ Under(r, d)
  BY UnderOn
<1>5. Leads(R, F) <=> Under(r, d)
  BY DEF Same
<1> SUFFICES Leads(D, E) <=> t = u /\ Leads(R, F)
  BY <1>4, <1>5 DEF Same
<1> HIDE DEF D, R, E, F
<1>6. /\ Leads(D, E) <=> D[1] = E[1] /\ RestLeads(D, E)
      /\ Leads(R, F) <=> R[1] = F[1] /\ RestLeads(R, F)
  BY <1>2, FirstAndRestLead
<1>7. ASSUME t # "/" PROVE Begins(T, t, R[1], D[1]) /\ D[1] # <<>>
  <2>1. Begins(T, t, R[1], D[1])
    BY <1>3, <1>7 DEF IsAhead
  <2> QED
    BY <2>1, BeginsSomething
<1>8. ASSUME u # "/" PROVE Begins(T, u, F[1], E[1]) /\ E[1] # <<>>
  <2>1. Begins(T, u, F[1], E[1])
    BY <1>3, <1>8 DEF IsAhead
  <2> QED
    BY <2>1, BeginsSomething
<1>9. CASE t = "/" /\ u = "/"
  <2>1. Leads(D, E) <=> Leads(R, F)
    BY <1>3, <1>9, SlashLeads
  <2> QED
    BY <1>9, <2>1
<1>10. CASE t = "/" /\ u # "/"
  <2>1. D[1] = <<>>
    BY <1>3, <1>10 DEF IsAhead
  <2> QED
    BY <1>6, <1>8, <1>10, <2>1
<1>11. CASE t # "/" /\ u = "/"
  <2>1. E[1] = <<>>
    BY <1>3, <1>11 DEF IsAhead
  <2> QED
    BY <1>6, <1>7, <1>11, <2>1
<1>12. CASE t # "/" /\ u # "/"
  <2>1. D[1] = E[1] <=> t = u /\ R[1] = F[1]
    BY <1>7, <1>8, <1>12, BothBegin
  <2>2. RestLeads(D, E) <=> RestLeads(R, F)
    BY <1>3, <1>12, RestOfLeads
  <2> QED
    BY <1>6, <2>1, <2>2
<1> QED
  BY <1>9, <1>10, <1>11, <1>12

\* A name is a directory or below it when its segments start as the directory's.
LEMMA UnderBySegment ==
  ASSUME NEW T, "/" \in T, NEW p \in Seq(T), NEW c \in Seq(T)
  PROVE  IsPrefix(Segments(p), Segments(c)) <=> Under(p, c)
<1> DEFINE P == {x \in Seq(T) \X Seq(T) : Same(x[1], x[2])}
<1>1. ASSUME NEW a \in Seq(T), NEW b \in Seq(T),
             \A q, d \in Seq(T) : Len(q) + Len(d) < Len(a) + Len(b) => <<q, d>> \in P
      PROVE  <<a, b>> \in P
  <2>1. CASE a = <<>>
    BY <2>1, SameOfNone
  <2>2. CASE a # <<>>
    <3>1. PICK t \in T, r \in Seq(T) : Begins(T, t, r, a)
      BY <2>2, EmptyOrBegins
    <3>2. Len(a) = Len(r) + 1 /\ Len(r) \in Nat /\ Len(b) \in Nat
      BY <3>1, BeginsSomething, LenProperties
    <3>3. CASE b = <<>>
      <4>1. Same(a, b)
        BY <3>1, <3>3, SameAtEnd
      <4> QED
        BY <4>1
    <3>4. CASE b # <<>>
      <4>1. PICK u \in T, d \in Seq(T) : Begins(T, u, d, b)
        BY <3>4, EmptyOrBegins
      <4>2. Len(b) = Len(d) + 1 /\ Len(d) \in Nat
        BY <4>1, BeginsSomething
      <4>3. Len(r) + Len(d) < Len(a) + Len(b)
        BY <3>2, <4>2
      <4>4. <<r, d>> \in P
        BY <1>1, <4>3
      <4>5. Same(r, d)
        BY <4>4
      <4>6. Same(a, b)
        BY <3>1, <4>1, <4>5, SameOn
      <4> QED
        BY <4>6
    <3> QED
      BY <3>3, <3>4
  <2> QED
    BY <2>1, <2>2
<1> HIDE DEF P
<1>2. <<p, c>> \in P
  BY <1>1, PairInduction
<1>3. Same(p, c)
  BY <1>2 DEF P
<1> DEFINE D == Segments(p)
           E == Segments(c)
           S == Seq(T)
<1>4. D \in Seq(S) /\ E \in Seq(S)
  BY SegmentsAre
<1> HIDE DEF D, E, S
<1>5. IsPrefix(D, E) <=> Leads(D, E)
  <2>1. IsPrefix(D, E) <=> Len(D) <= Len(E) /\ \A i \in 1..Len(D) : D[i] = E[i]
    BY <1>4, PrefixIs
  <2> QED
    BY <2>1 DEF Leads
<1> QED
  BY <1>3, <1>5 DEF Same, D, E

\* A string ends in a slash, or does not.
LEMMA EndsInSlash ==
  ASSUME NEW T, "/" \in T, NEW s \in Seq(T)
  PROVE  IsSuffix(Slash, s) <=> s # <<>> /\ s[Len(s)] = "/"
<1>1. Slash \in Seq(T) /\ Len(Slash) = 1 /\ Slash[1] = "/"
  BY DEF Slash
<1>2. PICK n \in Nat : n = Len(s)
  BY LenProperties
<1>3. s # <<>> <=> 1 <= n
  BY <1>2, EmptySeq
<1>4. IsSuffix(Slash, s) <=> Len(Slash) <= Len(s)
         /\ \A i \in 1..Len(Slash) : Slash[i] = s[Len(s) - Len(Slash) + i]
  <2>1. Slash \in Seq(T) /\ s \in Seq(T)
    BY <1>1
  <2> QED
    BY <2>1, SuffixIs
<1>5. IsSuffix(Slash, s) <=> 1 <= n /\ \A i \in 1..1 : Slash[i] = s[n - 1 + i]
  BY <1>1, <1>2, <1>4
<1>6. 1 \in 1..1 /\ (\A i \in 1..1 : i = 1) /\ n - 1 + 1 = n
  BY <1>2
<1>7. IsSuffix(Slash, s) <=> 1 <= n /\ "/" = s[n]
  BY <1>1, <1>5, <1>6
<1> QED
  BY <1>2, <1>3, <1>7

\* A pattern without its last slash.
LEMMA TrimmedIs ==
  ASSUME NEW T, "/" \in T, NEW s \in Seq(T)
  PROVE  /\ TrimSuffix(s, Slash) \in Seq(T)
         /\ ~IsSuffix(Slash, s) => TrimSuffix(s, Slash) = s
         /\ \A i \in 1..Len(TrimSuffix(s, Slash)) : TrimSuffix(s, Slash)[i] = s[i] /\ i \in 1..Len(s)
<1>1. PICK n \in Nat : n = Len(s) /\ \A i \in 1..n : s[i] \in T
  BY LenProperties
<1>2. CASE IsSuffix(Slash, s)
  <2>1. Len(Slash) = 1
    BY DEF Slash
  <2>2. TrimSuffix(s, Slash) = SubSeq(s, 1, n - 1)
    BY <1>1, <1>2, <2>1 DEF TrimSuffix
  <2>3. n - 1 \in Int /\ 1 \in Int /\ (\A i \in 1..(n - 1) : s[i] \in T)
    BY <1>1
  <2>4. /\ SubSeq(s, 1, n - 1) \in Seq(T)
        /\ Len(SubSeq(s, 1, n - 1)) = IF 1 <= n - 1 THEN (n - 1) - 1 + 1 ELSE 0
        /\ \A i \in 1..((n - 1) - 1 + 1) : SubSeq(s, 1, n - 1)[i] = s[1 + i - 1]
    BY <2>3, SubSeqProperties
  <2>5. \A i \in 1..Len(SubSeq(s, 1, n - 1)) : SubSeq(s, 1, n - 1)[i] = s[i] /\ i \in 1..n
    BY <1>1, <2>4
  <2> QED
    BY <1>1, <1>2, <2>2, <2>4, <2>5
<1>3. CASE ~IsSuffix(Slash, s)
  BY <1>3 DEF TrimSuffix
<1> QED
  BY <1>2, <1>3

\* A path git prints: it is not empty, and does not end in a slash.
Names(T, c) == c \in Seq(T) /\ c # <<>> /\ ~IsSuffix(Slash, c)

\* A pattern covers a path by segments when it does by tokens.
LEMMA CoversIs ==
  ASSUME NEW T, "/" \in T, NEW raw \in Seq(T), NEW c, Names(T, c)
  PROVE  Covers(raw, c) <=> Under(TrimSuffix(raw, Slash), c) \/ Match(raw, c)
<1>1. c \in Seq(T) /\ c # <<>> /\ c[Len(c)] # "/"
  BY EndsInSlash DEF Names
<1> DEFINE p == TrimSuffix(raw, Slash)
<1>2. p \in Seq(T) /\ (~IsSuffix(Slash, raw) => p = raw)
  BY TrimmedIs
<1>3. Len(Segments(p)) \in Nat /\ DOMAIN Segments(p) = 1..Len(Segments(p))
  <2> DEFINE S == Seq(T)
             D == Segments(p)
  <2>1. D \in Seq(S)
    BY <1>2, SegmentsAre
  <2> HIDE DEF S, D
  <2>2. Len(D) \in Nat /\ DOMAIN D = 1..Len(D)
    BY <2>1, LenProperties
  <2> QED
    BY <2>2 DEF D
<1> HIDE DEF p
<1>4. Covers(raw, c) <=>
        IsPrefix(Segments(p), Segments(c)) \/ (Alike(Segments(p), Segments(c)) /\ ~IsSuffix(Slash, raw))
  BY <1>3, Zenon DEF Covers, Alike, p
<1>5. IsPrefix(Segments(p), Segments(c)) <=> Under(p, c)
  BY <1>1, <1>2, UnderBySegment
<1>6. Match(raw, c) <=> Alike(Segments(p), Segments(c)) /\ ~IsSuffix(Slash, raw)
  <2>1. ASSUME IsSuffix(Slash, raw) PROVE ~Match(raw, c)
    <3>1. raw # <<>> /\ raw[Len(raw)] = "/"
      BY <2>1, EndsInSlash
    <3> QED
      BY <1>1, <3>1, LastMatches
  <2>2. ASSUME ~IsSuffix(Slash, raw) PROVE Match(raw, c) <=> Alike(Segments(p), Segments(c))
    <3>1. p = raw
      BY <1>2, <2>2
    <3> QED
      BY <1>1, <3>1, MatchesBySegment
  <2> QED
    BY <2>1, <2>2
<1> QED
  BY <1>4, <1>5, <1>6 DEF p

(***************************************************************************)
(* What git prints, and the remit.                                         *)
(***************************************************************************)

\* pathInRemit says which names lie inside the remit.
LEMMA PathsInRemit ==
  ASSUME NEW T, "/" \in T, NEW patterns \in SUBSET Seq(T), NEW c, Names(T, c)
  PROVE  pathInRemit(c, patterns) <=> Inside(c, patterns)
<1>1. \A raw \in patterns : Covers(raw, c) <=> Under(TrimSuffix(raw, Slash), c) \/ Match(raw, c)
  BY CoversIs
<1>2. pathInRemit(c, patterns)
        <=> \E raw \in patterns : Under(TrimSuffix(raw, Slash), c) \/ Match(raw, c)
  BY Zenon DEF pathInRemit, Under, HasPrefix
<1> QED
  BY <1>1, <1>2, Zenon DEF Inside

\* What lies under the control directory, by segments and by tokens.
LEMMA ControlIs ==
  ASSUME NEW T, "/" \in T, ".mandat" \in T, NEW c, Names(T, c)
  PROVE  Control(c) <=> HasPrefix(c, controlDir)
<1>1. c \in Seq(T) /\ c # <<>>
  BY DEF Names
<1>2. PICK u \in T, d \in Seq(T) : Begins(T, u, d, c)
  BY <1>1, EmptyOrBegins
<1> DEFINE E == Segments(c)
           F == Segments(d)
           dir == <<".mandat">>
<1>3. IsAhead(T, u, F, E)
  BY <1>2, SegmentsAhead
<1>4. Len(F) \in Nat \ {0} /\ F[1] \in Seq(T)
  BY FirstSegment
<1>5. Begins(T, ".mandat", <<>>, dir) /\ Begins(T, ".mandat", Slash, controlDir)
  <2>1. <<>> \in Seq(T) /\ Len(<<>>) = 0 /\ dir \in Seq(T) /\ Len(dir) = 1 /\ dir[1] = ".mandat"
    BY EmptySeq
  <2>2. /\ Slash \in Seq(T) /\ Len(Slash) = 1 /\ Slash[1] = "/"
        /\ controlDir \in Seq(T) /\ Len(controlDir) = 2 /\ controlDir[1] = ".mandat"
        /\ controlDir[2] = "/"
    BY DEF Slash, controlDir
  <2>3. \A i \in 1..1 : Slash[i] = controlDir[i + 1]
    BY <2>2
  <2> HIDE DEF dir
  <2> QED
    BY <2>1, <2>2, <2>3 DEF Begins, After
<1>6. IsPrefix(controlDir, c) <=> ".mandat" = u /\ IsPrefix(Slash, d)
  BY <1>2, <1>5, BothBegin
<1>7. Slash \in Seq(T) /\ Len(Slash) = 1 /\ Slash[1] = "/"
  BY DEF Slash
<1>8. Control(c) <=> E[1] = dir /\ Len(E) > 1
  BY DEF Control
<1> HIDE DEF E, F, dir
<1>9. ASSUME u = ".mandat"
      PROVE  Len(E) = Len(F) /\ (E[1] = dir <=> F[1] = <<>>)
  <2>1. u # "/"
    BY <1>9
  <2>2. Len(E) = Len(F) /\ Begins(T, u, F[1], E[1])
    BY <1>3, <2>1 DEF IsAhead
  <2> QED
    BY <1>5, <1>9, <2>2, BothBegin
<1>10. ASSUME u # ".mandat" PROVE E[1] # dir
  <2>1. CASE u = "/"
    <3>1. E[1] = <<>>
      BY <1>3, <2>1 DEF IsAhead
    <3> QED
      BY <1>5, <3>1, BeginsSomething
  <2>2. CASE u # "/"
    <3>1. Begins(T, u, F[1], E[1])
      BY <1>3, <2>2 DEF IsAhead
    <3> QED
      BY <1>5, <1>10, <3>1, BothBegin
  <2> QED
    BY <2>1, <2>2
<1>11. (F[1] = <<>> /\ Len(F) > 1) <=> IsPrefix(Slash, d)
  <2>1. IsPrefix(Slash, d) <=> Len(Slash) <= Len(d) /\ \A i \in 1..Len(Slash) : Slash[i] = d[i]
    <3>1. Slash \in Seq(T) /\ d \in Seq(T)
      BY <1>7
    <3> QED
      BY <3>1, PrefixIs
  <2>2. CASE d = <<>>
    <3>1. Len(F) = 1 /\ Len(d) = 0
      BY <2>2, SegmentsOfNone, EmptySeq DEF F
    <3>2. ~(Len(F) > 1) /\ ~(Len(Slash) <= Len(d))
      BY <1>7, <3>1
    <3> QED
      BY <2>1, <3>2
  <2>3. CASE d # <<>>
    <3>1. PICK v \in T, e \in Seq(T) : Begins(T, v, e, d)
      BY <2>3, EmptyOrBegins
    <3>2. IsAhead(T, v, Segments(e), F)
      BY <3>1, SegmentsAhead DEF F
    <3>3. Len(d) \in Nat /\ Len(d) >= 1 /\ d[1] = v
      BY <3>1, BeginsSomething DEF Begins
    <3>4. IsPrefix(Slash, d) <=> v = "/"
      <4>1. 1 \in 1..1 /\ \A i \in 1..1 : i = 1
        OBVIOUS
      <4> QED
        BY <1>7, <2>1, <3>3, <4>1
    <3>5. CASE v = "/"
      <4>1. F[1] = <<>> /\ Len(F) = Len(Segments(e)) + 1 /\ Len(Segments(e)) \in Nat \ {0}
        BY <3>2, <3>5 DEF IsAhead
      <4>2. Len(F) > 1
        BY <4>1
      <4> QED
        BY <3>4, <3>5, <4>1, <4>2
    <3>6. CASE v # "/"
      <4>1. Begins(T, v, Segments(e)[1], F[1])
        BY <3>2, <3>6 DEF IsAhead
      <4>2. F[1] # <<>>
        BY <4>1, BeginsSomething
      <4> QED
        BY <3>4, <3>6, <4>2
    <3> QED
      BY <3>5, <3>6
  <2> QED
    BY <2>2, <2>3
<1>12. Control(c) <=> ".mandat" = u /\ F[1] = <<>> /\ Len(F) > 1
  <2>1. CASE u = ".mandat"
    BY <1>8, <1>9, <2>1
  <2>2. CASE u # ".mandat"
    BY <1>8, <1>10, <2>2
  <2> QED
    BY <2>1, <2>2
<1> QED
  BY <1>6, <1>11, <1>12 DEF HasPrefix

----------------------------------------------------------------------------

\* A pattern with no quotation mark in it.
Unmarked(p) == \A i \in 1..Len(p) : p[i] # Mark

\* The mark of a quoted name is no token that patterns and paths treat in a way of its own.
LEMMA MarkIsOther == Mark # "/" /\ Mark # "*" /\ Mark # ".mandat"
BY DEF Mark

\* What is left of a string without a mark has none.
LEMMA UnmarkedBegins ==
  ASSUME NEW T, NEW t, NEW r, NEW p, Begins(T, t, r, p), Unmarked(p)
  PROVE  t # Mark /\ Unmarked(r)
<1>1. /\ p[1] = t /\ Len(p) = Len(r) + 1 /\ Len(r) \in Nat
      /\ \A i \in 1..Len(r) : r[i] = p[i + 1]
  BY BeginsSomething DEF Begins, After
<1>2. 1 \in 1..Len(p) /\ \A i \in 1..Len(r) : i + 1 \in 1..Len(p)
  BY <1>1
<1> QED
  BY <1>1, <1>2 DEF Unmarked

\* It is under no directory, and matches no pattern, for the mark it starts with.
LEMMA MarkNotUnder ==
  ASSUME NEW T, "/" \in T, NEW p \in Seq(T), Unmarked(p), NEW q, NEW c, Begins(T, Mark, q, c)
  PROVE  ~Under(p, c)
<1>1. CASE p = <<>>
  BY <1>1, MarkIsOther, UnderNone
<1>2. CASE p # <<>>
  <2>1. PICK t \in T, r \in Seq(T) : Begins(T, t, r, p)
    BY <1>2, EmptyOrBegins
  <2>2. t # Mark
    BY <2>1, UnmarkedBegins
  <2> QED
    BY <2>1, <2>2, UnderOn
<1> QED
  BY <1>1, <1>2

\* What matches a name that starts with a mark is a star, which matches the rest too.
LEMMA FirstMark ==
  ASSUME NEW T, NEW p \in Seq(T), Unmarked(p), NEW q, NEW c, Begins(T, Mark, q, c), Match(p, c)
  PROVE  Match(p, q)
<1>0. q \in Seq(T) /\ c \in Seq(T) /\ c # <<>>
  BY BeginsSomething
<1> DEFINE P == {x \in Seq(T) \X Seq(T) : Unmarked(x[1]) /\ Match(x[1], c) => Match(x[1], q)}
<1>1. ASSUME NEW a \in Seq(T), NEW b \in Seq(T),
             \A e, d \in Seq(T) : Len(e) + Len(d) < Len(a) + Len(b) => <<e, d>> \in P
      PROVE  <<a, b>> \in P
  <2> SUFFICES ASSUME Unmarked(a), Match(a, c) PROVE Match(a, q)
    OBVIOUS
  <2>1. a # <<>>
    BY <1>0, NothingMatches
  <2>2. PICK t \in T, r \in Seq(T) : Begins(T, t, r, a)
    BY <2>1, EmptyOrBegins
  <2>3. t # Mark /\ Unmarked(r)
    BY <2>2, UnmarkedBegins
  <2>4. t = "*"
    BY <1>0, <2>2, <2>3, TokenMatches
  <2>5. Match(r, c) \/ Match(a, q)
    BY <1>0, <2>2, <2>4, StarMatches
  <2>6. ASSUME Match(r, c) PROVE Match(a, q)
    <3>1. Len(a) = Len(r) + 1 /\ Len(r) \in Nat /\ Len(b) \in Nat
      BY <2>2, BeginsSomething, LenProperties
    <3>2. Len(r) + Len(b) < Len(a) + Len(b)
      BY <3>1
    <3>3. <<r, b>> \in P
      BY <1>1, <3>2
    <3>4. Match(r, q)
      BY <2>3, <2>6, <3>3
    <3>5. CASE q = <<>>
      BY <1>0, <2>2, <2>4, <3>4, <3>5, StarMatches
    <3>6. CASE q # <<>>
      <4>1. PICK v \in T, e \in Seq(T) : Begins(T, v, e, q)
        BY <1>0, <3>6, EmptyOrBegins
      <4> QED
        BY <1>0, <2>2, <2>4, <3>4, <4>1, StarMatches
    <3> QED
      BY <3>5, <3>6
  <2> QED
    BY <2>5, <2>6
<1> HIDE DEF P
<1>2. <<p, <<>>>> \in P
  BY <1>1, PairInduction, EmptySeq
<1> QED
  BY <1>2 DEF P

\* The same of the mark it ends with.
LEMMA LastMark ==
  ASSUME NEW T, Mark \in T, NEW p \in Seq(T), Unmarked(p), NEW q \in Seq(T), Match(p, Append(q, Mark))
  PROVE  Match(p, q)
<1> DEFINE P == {x \in Seq(T) \X Seq(T) :
                   Unmarked(x[1]) /\ Match(x[1], Append(x[2], Mark)) => Match(x[1], x[2])}
<1>1. ASSUME NEW a \in Seq(T), NEW b \in Seq(T),
             \A e, d \in Seq(T) : Len(e) + Len(d) < Len(a) + Len(b) => <<e, d>> \in P
      PROVE  <<a, b>> \in P
  <2> SUFFICES ASSUME Unmarked(a), Match(a, Append(b, Mark)) PROVE Match(a, b)
    OBVIOUS
  <2> DEFINE c == Append(b, Mark)
  <2>0. c \in Seq(T) /\ c # <<>> /\ Match(a, c)
    BY AppendProperties
  <2> HIDE DEF c
  <2>1. a # <<>>
    BY <2>0, NothingMatches
  <2>2. PICK t \in T, r \in Seq(T) : Begins(T, t, r, a)
    BY <2>1, EmptyOrBegins
  <2>3. t # Mark /\ Unmarked(r)
    BY <2>2, UnmarkedBegins
  <2>4. Len(a) = Len(r) + 1 /\ Len(r) \in Nat /\ Len(b) \in Nat
    BY <2>2, BeginsSomething, LenProperties
  <2>5. CASE b = <<>>
    <3>1. Begins(T, Mark, <<>>, c)
      <4>1. <<>> \in Seq(T) /\ Len(<<>>) = 0
        BY EmptySeq
      <4>2. Append(<<>>, Mark) \in Seq(T) /\ Len(Append(<<>>, Mark)) = 1 /\ Append(<<>>, Mark)[1] = Mark
        BY <4>1, AppendProperties
      <4> QED
        BY <2>5, <4>1, <4>2 DEF Begins, After, c
    <3> QED
      BY <2>0, <2>5, <3>1, FirstMark
  <2>6. CASE b # <<>>
    <3>1. PICK u \in T, d \in Seq(T) : Begins(T, u, d, b)
      BY <2>6, EmptyOrBegins
    <3>2. Begins(T, u, Append(d, Mark), c)
      BY <3>1, BeginsAppended DEF c
    <3>3. Len(b) = Len(d) + 1 /\ Len(d) \in Nat
      BY <3>1, BeginsSomething
    <3>4. Len(r) + Len(b) < Len(a) + Len(b) /\ Len(a) + Len(d) < Len(a) + Len(b)
          /\ Len(r) + Len(d) < Len(a) + Len(b)
      BY <2>4, <3>3
    <3>5. <<r, b>> \in P /\ <<a, d>> \in P /\ <<r, d>> \in P
      BY <1>1, <3>4
    <3>6. CASE t = "*"
      <4>1. Match(r, c) \/ (u # "/" /\ Match(a, Append(d, Mark)))
        BY <2>0, <2>2, <3>2, <3>6, StarMatches
      <4>2. Match(r, c) => Match(r, b)
        BY <2>3, <3>5 DEF c
      <4>3. Match(a, Append(d, Mark)) => Match(a, d)
        BY <3>5
      <4>4. Match(a, b) <=> Match(r, b) \/ (u # "/" /\ Match(a, d))
        BY <2>2, <3>1, <3>6, StarMatches
      <4> QED
        BY <4>1, <4>2, <4>3, <4>4
    <3>7. CASE t # "*"
      <4>1. u = t /\ Match(r, Append(d, Mark))
        BY <2>0, <2>2, <3>2, <3>7, TokenMatches
      <4>2. Match(r, d)
        BY <2>3, <3>5, <4>1
      <4> QED
        BY <2>2, <3>1, <3>7, <4>1, <4>2, TokenMatches
    <3> QED
      BY <3>6, <3>7
  <2> QED
    BY <2>5, <2>6
<1> HIDE DEF P
<1>2. <<p, q>> \in P
  BY <1>1, PairInduction
<1> QED
  BY <1>2 DEF P

Token == STRING \cup {"/", ".mandat", Mark}

\* The strings, and the tokens that the model names.
LEMMA TokensAre ==
  /\ "/" \in Token /\ ".mandat" \in Token /\ Mark \in Token
  /\ Seq(STRING) \subseteq Seq(Token)
<1>1. STRING \subseteq Token
  BY DEF Token
<1>2. "/" \in Token /\ ".mandat" \in Token /\ Mark \in Token
  BY DEF Token
<1>3. \A s \in Seq(STRING) : s \in Seq(Token)
  BY <1>1, SeqMonotonic
<1> QED
  BY <1>2, <1>3

\* The paths of a repository are names.
LEMMA PathsAreNames ==
  ASSUME NEW p \in Base \cup New
  PROVE  Names(Token, p)
<1>1. p \in Seq(STRING) /\ p # <<>> /\ ~IsSuffix(Slash, p)
  BY PathsAssumption
<1> QED
  BY <1>1, TokensAre DEF Names

\* Its remits are patterns.
LEMMA PatternsAre ==
  ASSUME NEW patterns \in Remits
  PROVE  patterns \in SUBSET Seq(Token)
BY RemitsAssumption, TokensAre

\* A path printed as it is passes when it lies in the remit or in .mandat/.
PrintedPasses(p, patterns) == HasPrefix(p, controlDir) \/ pathInRemit(p, patterns)

\* Such a path passes when it lies in the remit or in .mandat/.
LEMMA PrintedAsIs ==
  ASSUME NEW p \in Base \cup New, NEW patterns \in Remits
  PROVE  PrintedPasses(p, patterns) <=> Inside(p, patterns) \/ Control(p)
<1>1. Names(Token, p)
  BY PathsAreNames
<1>2. patterns \in SUBSET Seq(Token)
  BY PatternsAre
<1>3. "/" \in Token /\ ".mandat" \in Token
  BY TokensAre
<1>4. Control(p) <=> HasPrefix(p, controlDir)
  BY <1>1, <1>3, ControlIs
<1>5. pathInRemit(p, patterns) <=> Inside(p, patterns)
  BY <1>1, <1>2, <1>3, PathsInRemit
<1> QED
  BY <1>4, <1>5 DEF PrintedPasses

\* One printed quoted lies in a remit without a mark only if it does so itself.
LEMMA PrintedQuoted ==
  ASSUME NEW p \in Base \cup New, NEW patterns \in Remits, \A raw \in patterns : Unmarked(raw),
         PrintedPasses(<<Mark>> \o p \o <<Mark>>, patterns)
  PROVE  Inside(p, patterns)
<1> DEFINE T == Token
           x == <<Mark>> \o p
           c == Append(x, Mark)
<1>1. Names(T, p) /\ p \in Seq(T)
  BY PathsAreNames DEF Names
<1>2. patterns \in SUBSET Seq(T)
  BY PatternsAre
<1>3. "/" \in T /\ ".mandat" \in T /\ Mark \in T
  BY TokensAre
<1> HIDE DEF T
<1>4. Begins(T, Mark, p, x)
  <2>1. <<Mark>> \in Seq(T) /\ Len(<<Mark>>) = 1 /\ <<Mark>>[1] = Mark
    BY <1>3
  <2>2. /\ x \in Seq(T) /\ Len(x) = Len(<<Mark>>) + Len(p)
        /\ \A i \in 1..Len(<<Mark>>) : x[i] = <<Mark>>[i]
        /\ \A i \in 1..Len(p) : x[Len(<<Mark>>) + i] = p[i]
    BY <1>1, <2>1, Joined
  <2> HIDE DEF x
  <2>3. Len(p) \in Nat
    BY <1>1, LenProperties
  <2>4. 1 \in 1..1
    OBVIOUS
  <2>5. x[1] = Mark
    BY <2>1, <2>2, <2>4
  <2>6. Len(x) = Len(p) + 1 /\ \A i \in 1..Len(p) : p[i] = x[i + 1]
    <3>1. \A i \in 1..Len(p) : i + 1 = 1 + i
      BY <2>3
    <3> QED
      BY <2>1, <2>2, <2>3, <3>1
  <2> QED
    BY <1>1, <1>3, <2>2, <2>5, <2>6 DEF Begins, After
<1>5. x \in Seq(T)
  BY <1>4, BeginsSomething
<1>6. x \o <<Mark>> = c
  BY <1>3, <1>5, AppendIsConcat
<1>7. PrintedPasses(c, patterns)
  BY <1>6
<1>8. Begins(T, Mark, Append(p, Mark), c)
  BY <1>3, <1>4, BeginsAppended
<1> HIDE DEF x, c
<1>9. ~HasPrefix(c, controlDir)
  <2>1. Begins(T, ".mandat", Slash, controlDir)
    <3>1. /\ Slash \in Seq(T) /\ Len(Slash) = 1 /\ Slash[1] = "/"
          /\ controlDir \in Seq(T) /\ Len(controlDir) = 2 /\ controlDir[1] = ".mandat"
          /\ controlDir[2] = "/"
      BY <1>3 DEF Slash, controlDir
    <3>2. \A i \in 1..1 : Slash[i] = controlDir[i + 1]
      BY <3>1
    <3> QED
      BY <1>3, <3>1, <3>2 DEF Begins, After
  <2>2. IsPrefix(controlDir, c) => ".mandat" = Mark
    BY <1>8, <2>1, BothBegin
  <2> QED
    BY <2>2, MarkIsOther DEF HasPrefix
<1>10. PICK raw \in patterns : Under(TrimSuffix(raw, Slash), c) \/ Match(raw, c)
  <2>1. pathInRemit(c, patterns)
    BY <1>7, <1>9 DEF PrintedPasses
  <2> QED
    BY <2>1, Zenon DEF pathInRemit, Under, HasPrefix
<1>11. raw \in Seq(T) /\ Unmarked(raw)
  BY <1>2
<1>12. ~Under(TrimSuffix(raw, Slash), c)
  <2>1. /\ TrimSuffix(raw, Slash) \in Seq(T)
        /\ \A i \in 1..Len(TrimSuffix(raw, Slash)) :
             TrimSuffix(raw, Slash)[i] = raw[i] /\ i \in 1..Len(raw)
    BY <1>3, <1>11, TrimmedIs
  <2>2. Unmarked(TrimSuffix(raw, Slash))
    BY <1>11, <2>1 DEF Unmarked
  <2> QED
    BY <1>3, <1>8, <2>1, <2>2, MarkNotUnder
<1>13. Match(raw, x)
  <2>1. Match(raw, Append(x, Mark))
    BY <1>10, <1>12 DEF c
  <2> QED
    BY <1>3, <1>5, <1>11, <2>1, LastMark
<1>14. Match(raw, p)
  BY <1>4, <1>11, <1>13, FirstMark
<1>15. Covers(raw, p)
  BY <1>1, <1>3, <1>11, <1>14, CoversIs
<1> QED
  BY <1>15 DEF Inside

----------------------------------------------------------------------------

\* The tree of a request: what became of each path of it.
IsTree(tree) ==
  /\ tree.fate \in [Base \cup New -> BaseFate \cup NewFate]
  /\ tree.branch \subseteq Base \cup New
  /\ tree.head \in {"descends", "orphan", "unresolvable"} /\ tree.git \in {"works", "broken"}

\* What the checks are asked of: a remit, and a tree with a fate for every path.
LEMMA TreesAre ==
  ASSUME NEW r \in RemitRequests
  PROVE  r.kind = "remit" /\ r.patterns \in Remits /\ IsTree(r.tree)
<1>1. ASSUME NEW f \in Fates PROVE f \in [Base \cup New -> BaseFate \cup NewFate]
  BY DEF Fates
<1>2. [p \in Base \cup New |-> IF p \in Base THEN "kept" ELSE "absent"]
        \in [Base \cup New -> BaseFate \cup NewFate]
  BY DEF BaseFate, NewFate
<1>3. ASSUME NEW f \in [Base \cup New -> BaseFate \cup NewFate], NEW R, NEW b \in Branches,
             NEW h \in {"descends", "orphan", "unresolvable"}, NEW g \in {"works", "broken"}
      PROVE  IsTree(Tree(f, b, R, h, g))
  BY BranchesAssumption DEF IsTree, Tree
<1>4. /\ r.kind = "remit" /\ r.patterns \in Remits
      /\ \/ \E f \in Fates : \E R \in Renames(f), b \in Branches : r.tree = Tree(f, b, R, "descends", "works")
         \/ \E b \in Branches, h \in {"descends", "orphan", "unresolvable"}, g \in {"works", "broken"} :
              r.tree = Tree([p \in Base \cup New |-> IF p \in Base THEN "kept" ELSE "absent"], b, {}, h, g)
  <2> DEFINE works == {{Tree(f, b, R, "descends", "works") : R \in Renames(f), b \in Branches} : f \in Fates}
             still == {Tree([p \in Base \cup New |-> IF p \in Base THEN "kept" ELSE "absent"], b, {}, h, g) :
                         b \in Branches, h \in {"descends", "orphan", "unresolvable"}, g \in {"works", "broken"}}
  <2>1. PICK patterns \in Remits, t \in (UNION works) \cup still :
          r = [kind |-> "remit", patterns |-> patterns, tree |-> t]
    BY DEF RemitRequests
  <2> HIDE DEF works, still
  <2>2. t \in UNION works \/ t \in still
    OBVIOUS
  <2>3. ASSUME t \in UNION works
        PROVE  \E f \in Fates : \E R \in Renames(f), b \in Branches : t = Tree(f, b, R, "descends", "works")
    <3>1. PICK s \in works : t \in s
      BY <2>3
    <3>2. PICK f \in Fates : s = {Tree(f, b, R, "descends", "works") : R \in Renames(f), b \in Branches}
      BY <3>1 DEF works
    <3> QED
      BY <3>1, <3>2
  <2>4. ASSUME t \in still
        PROVE  \E b \in Branches, h \in {"descends", "orphan", "unresolvable"}, g \in {"works", "broken"} :
                 t = Tree([p \in Base \cup New |-> IF p \in Base THEN "kept" ELSE "absent"], b, {}, h, g)
    BY <2>4 DEF still
  <2>5. r.kind = "remit" /\ r.patterns = patterns /\ r.tree = t
    BY <2>1
  <2> QED
    BY <2>2, <2>3, <2>4, <2>5, Zenon
<1>5. IsTree(r.tree)
  <2>1. CASE \E f \in Fates : \E R \in Renames(f), b \in Branches : r.tree = Tree(f, b, R, "descends", "works")
    <3>1. PICK f \in Fates : \E R \in Renames(f), b \in Branches : r.tree = Tree(f, b, R, "descends", "works")
      BY <2>1
    <3> QED
      BY <1>1, <1>3, <3>1
  <2>2. CASE \E b \in Branches, h \in {"descends", "orphan", "unresolvable"}, g \in {"works", "broken"} :
                r.tree = Tree([p \in Base \cup New |-> IF p \in Base THEN "kept" ELSE "absent"], b, {}, h, g)
    BY <1>2, <1>3, <2>2
  <2> QED
    BY <1>4, <2>1, <2>2
<1> QED
  BY <1>4, <1>5

Untouched == {"kept", "absent", "ignored"}

\* What git prints of a tree: the paths that are not as they were, but for the source of a rename.
LEMMA ChangedAre ==
  ASSUME NEW tree, IsTree(tree)
  PROVE  /\ \A q \in changedPaths(tree) :
              \E p \in Base \cup New : q = Printed(p) /\ tree.fate[p] \notin Untouched
         /\ \A p \in Base \cup New :
              \/ tree.fate[p] \in Untouched
              \/ p \in {rename[1] : rename \in tree.renames}
              \/ Printed(p) \in changedPaths(tree)
<1>1. DOMAIN tree.fate = Base \cup New
  BY DEF IsTree
<1>2. ASSUME NEW p \in Base \cup New
      PROVE  tree.fate[p] \in {"kept", "edited", "removed", "absent", "added", "untracked", "ignored"}
  BY DEF IsTree, BaseFate, NewFate
<1>3. ASSUME NEW p \in gitDiff(tree) \cup gitUntracked(tree)
      PROVE  p \in Base \cup New /\ tree.fate[p] \in {"edited", "added", "removed", "untracked"}
  BY <1>1 DEF gitDiff, gitUntracked, Fated
<1>4. ASSUME NEW p \in Base \cup New, tree.fate[p] \notin Untouched,
             p \notin {rename[1] : rename \in tree.renames}
      PROVE  p \in gitDiff(tree) \cup gitUntracked(tree)
  <2>1. tree.fate[p] \in {"edited", "added", "removed", "untracked"}
    BY <1>2, <1>4 DEF Untouched
  <2>2. \A rename \in tree.renames : rename[1] # p
    BY <1>4
  <2> QED
    BY <1>1, <2>1, <2>2 DEF gitDiff, gitUntracked, Fated
<1>5. \A q \in changedPaths(tree) : \E p \in gitDiff(tree) \cup gitUntracked(tree) : q = Printed(p)
  BY DEF changedPaths
<1>6. \A p \in gitDiff(tree) \cup gitUntracked(tree) : Printed(p) \in changedPaths(tree)
  BY DEF changedPaths
<1>7. \A x \in {"edited", "added", "removed", "untracked"} : x \notin Untouched
  BY DEF Untouched
<1> HIDE DEF Untouched
<1> QED
  BY <1>3, <1>4, <1>5, <1>6, <1>7

\* The worktree of a run whose checks pass shows no change outside its remit, but for the source of a rename.
LEMMA PassesInside ==
  ASSUME NEW r \in RemitRequests, \A pattern \in r.patterns : Mark \notin ToSet(pattern),
         CheckWorktree(r.tree, r.patterns).ancestry = "pass",
         CheckWorktree(r.tree, r.patterns).diff = "pass"
  PROVE  /\ r.tree.head = "descends"
         /\ \A p \in Outside(r) : r.tree.fate[p] \in Untouched \/ p \in Source(r)
<1>1. r.patterns \in Remits /\ IsTree(r.tree)
  BY TreesAre
<1>2. SharesMergeBase(r.tree) = "pass" /\ DiffInsideRemit(r.tree, r.patterns) = "pass"
  BY DEF CheckWorktree
<1>3. r.tree.head = "descends"
  BY <1>1, <1>2 DEF SharesMergeBase, IsTree
<1>4. ASSUME NEW raw \in r.patterns PROVE Unmarked(raw)
  <2>1. raw \in Seq(Token) /\ Mark \notin ToSet(raw)
    BY <1>1, PatternsAre
  <2>2. DOMAIN raw = 1..Len(raw)
    BY <2>1, LenProperties
  <2> QED
    BY <2>1, <2>2 DEF ToSet, Unmarked
<1>5. \A q \in changedPaths(r.tree) : PrintedPasses(q, r.patterns)
  BY <1>2 DEF DiffInsideRemit, PrintedPasses
<1>6. ASSUME NEW p \in Outside(r), r.tree.fate[p] \notin Untouched, p \notin Source(r) PROVE FALSE
  <2>1. p \in Base \cup New /\ ~Inside(p, r.patterns) /\ ~Control(p)
    BY DEF Outside
  <2>2. Printed(p) \in changedPaths(r.tree)
    <3>1. p \notin {rename[1] : rename \in r.tree.renames}
      BY <1>6 DEF Source
    <3> QED
      BY <1>1, <1>6, <2>1, <3>1, ChangedAre
  <2>3. PrintedPasses(Printed(p), r.patterns)
    BY <1>5, <2>2
  <2>4. CASE Quoted(p)
    <3>1. Printed(p) = <<Mark>> \o p \o <<Mark>>
      BY <2>4 DEF Printed
    <3> QED
      BY <1>1, <1>4, <2>1, <2>3, <3>1, PrintedQuoted
  <2>5. CASE ~Quoted(p)
    <3>1. Printed(p) = p
      BY <2>5 DEF Printed
    <3> QED
      BY <1>1, <2>1, <2>3, <3>1, PrintedAsIs
  <2> QED
    BY <2>4, <2>5
<1> QED
  BY <1>3, <1>6

\* And a run whose worktree shows none passes.
LEMMA InsidePasses ==
  ASSUME NEW r \in RemitRequests, r.tree.git = "works",
         \A p \in Base \cup New :
           r.tree.fate[p] \notin Untouched => p \notin Outside(r) /\ ~Quoted(p)
  PROVE  CheckWorktree(r.tree, r.patterns).diff = "pass"
<1>1. r.patterns \in Remits /\ IsTree(r.tree)
  BY TreesAre
<1>2. ASSUME NEW q \in changedPaths(r.tree) PROVE PrintedPasses(q, r.patterns)
  <2>1. PICK p \in Base \cup New : q = Printed(p) /\ r.tree.fate[p] \notin Untouched
    BY <1>1, ChangedAre
  <2>2. p \notin Outside(r) /\ q = p
    BY <2>1 DEF Printed
  <2>3. Inside(p, r.patterns) \/ Control(p)
    BY <2>2 DEF Outside
  <2> QED
    BY <1>1, <2>2, <2>3, PrintedAsIs
<1>3. DiffInsideRemit(r.tree, r.patterns) = "pass"
  BY <1>2 DEF DiffInsideRemit, PrintedPasses
<1> QED
  BY <1>3 DEF CheckWorktree

(***************************************************************************)
(* What a fresh init offers.                                               *)
(***************************************************************************)

\* What SelectInSeq says of the places I of a sequence of n: the first of them, or 0.
LEMMA FirstIs ==
  ASSUME NEW n \in Nat, NEW I \in SUBSET (1..n),
         NEW i, i = IF I # {} THEN Min(I) ELSE 0
  PROVE  /\ i = 0 => I = {}
         /\ i # 0 => i \in I /\ i \in 1..n
<1>1. ASSUME I # {} PROVE Min(I) \in I /\ Min(I) # 0
  <2>1. Min(I) \in I
    BY <1>1, LeastOfPlaces
  <2> QED
    BY <2>1
<1> QED
  BY <1>1

\* A sequence that is not empty has a first place.
LEMMA FirstPlace ==
  ASSUME NEW T, NEW s \in Seq(T), s # <<>>
  PROVE  \E k \in Nat : k = Len(s) /\ DOMAIN s = 1..k /\ 1 \in 1..k /\ s \in [1..k -> T]
<1>1. PICK k \in Nat : k = Len(s) /\ DOMAIN s = 1..k /\ s \in [1..k -> T]
  BY LenProperties
<1>2. k # 0
  BY <1>1, EmptySeq
<1>3. 1 \in 1..k
  BY <1>2
<1> QED
  BY <1>1, <1>3

\* The tenants listed are those of the accounts, each with an account of its own tenant.
TenantsOf(n, tenants) ==
  /\ tenants \in Seq(TenantOption)
  /\ \A t \in ToSet(tenants) : \E i \in 1..n :
       t = Option(Accounts[i].tenant, Accounts[i].id) /\ Accounts[i].tenant # ""
  /\ \A i \in 1..n : Accounts[i].tenant # "" => \E t \in ToSet(tenants) : t.tenant = Accounts[i].tenant

\* listTenants has each tenant once, with the first of its accounts.
LEMMA TenantsAre ==
  \E n \in Nat : /\ n = Len(Accounts) /\ DOMAIN Accounts = 1..n
                /\ Lists(Accounts, n, Account) /\ TenantsOf(n, listTenants)
<1>1. PICK n \in Nat : n = Len(Accounts) /\ Accounts \in [1..n -> Account]
  <2>1. Accounts \in Seq(Account)
    BY AccountsAssumption DEF Account
  <2> QED
    BY <2>1, LenProperties
<1>2. Lists(Accounts, n, Account) /\ DOMAIN Accounts = 1..n
  BY <1>1 DEF Lists
<1>3. PICK h : TenantsTrace(n, h)
  BY <1>2, TenantsSteps
<1> DEFINE P == {k \in 0..n : TenantsOf(k, h[k])}
<1>4. 0 \in P
  <2>1. h[0] = <<>> /\ 0 \in 0..n
    <3>1. h[0] = <<>>
      BY <1>3 DEF TenantsTrace
    <3> QED
      BY <1>1, <3>1
  <2>2. ToSet(<<>>) = {}
    BY DEF ToSet
  <2>3. TenantsOf(0, <<>>)
    BY <2>2 DEF TenantsOf
  <2> QED
    BY <2>1, <2>3
<1>5. ASSUME NEW k \in 1..n, k - 1 \in P PROVE k \in P
  <2> DEFINE row == Accounts[k]
             before == h[k - 1]
             one == Option(row.tenant, row.id)
  <2>1. /\ before \in Seq(TenantOption)
        /\ h[k] = IF row.tenant = "" \/ \E i \in DOMAIN before : before[i].tenant = row.tenant
                    THEN before ELSE Append(before, one)
    BY <1>3 DEF TenantsTrace
  <2>2. TenantsOf(k - 1, before) /\ k \in 0..n
    BY <1>5
  <2>3. row \in Account
    BY <1>1
  <2>4. one \in TenantOption /\ one.tenant = row.tenant
    <3>1. row.tenant \in STRING /\ row.id \in STRING
      BY <2>3 DEF Account
    <3> QED
      BY <3>1 DEF Option, TenantOption
  <2>5. \A i : i \in 1..k <=> i \in 1..(k - 1) \/ i = k
    OBVIOUS
  <2> HIDE DEF before, one
  <2>6. (\E i \in DOMAIN before : before[i].tenant = row.tenant)
          <=> \E t \in ToSet(before) : t.tenant = row.tenant
    BY DEF ToSet
  <2>7. CASE row.tenant = "" \/ \E i \in DOMAIN before : before[i].tenant = row.tenant
    <3>1. h[k] = before
      BY <2>1, <2>7
    <3>2. \A i \in 1..k : Accounts[i].tenant # "" => \E t \in ToSet(before) : t.tenant = Accounts[i].tenant
      <4> TAKE i \in 1..k
      <4>1. CASE i = k
        BY <2>6, <2>7, <4>1
      <4>2. CASE i \in 1..(k - 1)
        BY <2>2, <4>2 DEF TenantsOf
      <4> QED
        BY <2>5, <4>1, <4>2
    <3>3. TenantsOf(k, before)
      BY <2>2, <2>5, <3>2 DEF TenantsOf
    <3> QED
      BY <2>2, <3>1, <3>3
  <2>8. CASE ~(row.tenant = "" \/ \E i \in DOMAIN before : before[i].tenant = row.tenant)
    <3> DEFINE after == Append(before, one)
    <3>1. h[k] = after
      BY <2>1, <2>8
    <3>2. after \in Seq(TenantOption)
      BY <2>1, <2>4, AppendProperties
    <3>3. \A x : x \in ToSet(after) <=> x \in ToSet(before) \/ x = one
      BY <2>1, <2>4, AppendedTo
    <3> HIDE DEF after
    <3>4. ASSUME NEW t \in ToSet(after)
          PROVE  \E i \in 1..k : t = Option(Accounts[i].tenant, Accounts[i].id) /\ Accounts[i].tenant # ""
      <4>1. CASE t \in ToSet(before)
        BY <2>2, <2>5, <4>1 DEF TenantsOf
      <4>2. CASE t = one
        BY <2>5, <2>8, <4>2 DEF one
      <4> QED
        BY <3>3, <4>1, <4>2
    <3>5. ASSUME NEW i \in 1..k, Accounts[i].tenant # ""
          PROVE  \E t \in ToSet(after) : t.tenant = Accounts[i].tenant
      <4>1. CASE i = k
        BY <2>4, <3>3, <4>1
      <4>2. CASE i \in 1..(k - 1)
        BY <2>2, <3>3, <3>5, <4>2 DEF TenantsOf
      <4> QED
        BY <2>5, <4>1, <4>2
    <3>6. TenantsOf(k, after)
      BY <3>2, <3>4, <3>5 DEF TenantsOf
    <3> QED
      BY <2>2, <3>1, <3>6
  <2> QED
    BY <2>7, <2>8
<1> HIDE DEF P
<1>6. 0..n \subseteq P
  BY <1>1, <1>4, <1>5, UpFrom
<1>7. TenantsOf(n, h[n])
  <2>1. n \in 0..n
    BY <1>1
  <2> QED
    BY <1>6, <2>1 DEF P
<1>8. h[n] = listTenants
  BY <1>3 DEF TenantsTrace
<1> QED
  BY <1>1, <1>2, <1>7, <1>8

\* An account of az, and the tenant its token is of.
MintedAs(account, tenant) == tenant # "" /\ tenant \in Tenants /\ MintedFor(account) = tenant

\* An account mints for its own tenant.
LEMMA AccountMints ==
  ASSUME NEW n \in Nat, n = Len(Accounts), DOMAIN Accounts = 1..n, NEW i \in 1..n
  PROVE  TenantOf(Accounts[i].id) = Accounts[i].tenant
<1> DEFINE id == Accounts[i].id
           I == {j \in 1..n : Accounts[j].id = id}
           first == SelectInSeq(Accounts, LAMBDA row : row.id = id)
<1>1. first = IF I # {} THEN Min(I) ELSE 0
  BY DEF SelectInSeq
<1>2. i \in I
  OBVIOUS
<1>3. TenantOf(id) = Accounts[first].tenant
  BY DEF TenantOf
<1> HIDE DEF first
<1>4. first # 0 => first \in I /\ first \in 1..n
  <2> HIDE DEF I
  <2>1. I \in SUBSET (1..n)
    BY DEF I
  <2> QED
    BY <1>1, <2>1, FirstIs
<1>5. first # 0
  <2>1. I \in SUBSET (1..n)
    OBVIOUS
  <2> HIDE DEF I
  <2> QED
    BY <1>1, <1>2, <2>1, FirstIs
<1>6. first = i
  BY <1>4, <1>5, AccountsAssumption
<1> QED
  BY <1>3, <1>6

\* The tenant chosen: az's, with an account that mints for it, or one the operator named.
Chosen(r, option) ==
  /\ option.account # "" => MintedAs(option.account, option.tenant)
  /\ option.tenant \in Tenants /\ r.override = "" => option.account # ""

\* An option that is listed is a good choice, ...
LEMMA ListedIsChosen ==
  ASSUME NEW r, NEW t \in ToSet(listTenants)
  PROVE  Chosen(r, t) /\ t.account # ""
<1>1. PICK n \in Nat : /\ n = Len(Accounts) /\ DOMAIN Accounts = 1..n
                    /\ Lists(Accounts, n, Account) /\ TenantsOf(n, listTenants)
  BY TenantsAre
<1>2. PICK i \in 1..n : t = Option(Accounts[i].tenant, Accounts[i].id) /\ Accounts[i].tenant # ""
  BY <1>1 DEF TenantsOf
<1>3. Accounts[i].id # ""
  <2>1. Accounts[i] \in Account
    BY <1>1 DEF Lists
  <2> QED
    BY <2>1 DEF Account
<1>4. TenantOf(Accounts[i].id) = Accounts[i].tenant
  BY <1>1, AccountMints
<1>5. Accounts[i].tenant \in Tenants
  BY <1>1, <1>2 DEF Tenants
<1>6. t.tenant = Accounts[i].tenant /\ t.account = Accounts[i].id
  BY <1>2 DEF Option
<1> QED
  BY <1>2, <1>3, <1>4, <1>5, <1>6 DEF Chosen, MintedAs, MintedFor

\* ... one picked among several is, ...
LEMMA PickedIsChosen ==
  ASSUME NEW r, listTenants # <<>>,
         NEW value, ~OutOfRange(value, listTenants) \/ value = ""
  PROVE  Chosen(r, Picked(value, listTenants))
<1>1. PICK n \in Nat : /\ n = Len(Accounts) /\ DOMAIN Accounts = 1..n
                    /\ Lists(Accounts, n, Account) /\ TenantsOf(n, listTenants)
  BY TenantsAre
<1> DEFINE tenants == listTenants
           I == {j \in 1..Len(tenants) : value \in {tenants[j].tenant, tenants[j].account}}
           named == SelectInSeq(tenants, LAMBDA t : value \in {t.tenant, t.account})
<1>2. tenants \in Seq(TenantOption) /\ tenants # <<>>
  BY <1>1 DEF TenantsOf
<1>3. PICK k \in Nat : k = Len(tenants) /\ DOMAIN tenants = 1..k /\ 1 \in 1..k
  BY <1>2, FirstPlace
<1>4. Picked(value, tenants) =
        IF value = "" THEN tenants[1]
        ELSE IF value \in DOMAIN RowNumber THEN tenants[RowNumber[value]]
        ELSE IF named # 0 THEN tenants[named] ELSE Option(value, "")
  BY DEF Picked
<1>5. named = IF I # {} THEN Min(I) ELSE 0
  BY DEF SelectInSeq
<1>6. \A j \in 1..k : Chosen(r, tenants[j])
  <2>1. \A j \in 1..k : tenants[j] \in ToSet(tenants)
    BY <1>3 DEF ToSet
  <2> QED
    BY <2>1, ListedIsChosen
<1>7. /\ named = 0 => I = {}
      /\ named # 0 => named \in 1..k
  <2>1. I \in SUBSET (1..k)
    BY <1>3
  <2> HIDE DEF I, named
  <2> QED
    BY <1>5, <2>1, FirstIs
<1> HIDE DEF named
<1>8. CASE value = ""
  BY <1>3, <1>4, <1>6, <1>8
<1>9. CASE value # "" /\ value \in DOMAIN RowNumber
  <2>1. RowNumber[value] \in 1..k
    BY <1>3, <1>9 DEF OutOfRange
  <2> QED
    BY <1>4, <1>6, <1>9, <2>1
<1>10. CASE value # "" /\ value \notin DOMAIN RowNumber /\ named # 0
  BY <1>4, <1>6, <1>7, <1>10
<1>11. CASE value # "" /\ value \notin DOMAIN RowNumber /\ named = 0
  <2>1. Picked(value, tenants) = Option(value, "")
    BY <1>4, <1>11
  <2>2. \A j \in 1..k : value # tenants[j].tenant
    BY <1>3, <1>7, <1>11
  <2>3. value \notin Tenants
    <3> SUFFICES ASSUME value \in Tenants PROVE FALSE
      OBVIOUS
    <3>1. PICK i \in 1..n : value = Accounts[i].tenant
      BY <1>1 DEF Tenants
    <3>2. PICK t \in ToSet(tenants) : t.tenant = value
      BY <1>1, <1>11, <3>1 DEF TenantsOf
    <3>3. PICK j \in 1..k : t = tenants[j]
      BY <1>3 DEF ToSet
    <3> QED
      BY <2>2, <3>2, <3>3
  <2>4. Option(value, "").tenant = value /\ Option(value, "").account = ""
    BY DEF Option
  <2> QED
    BY <2>1, <2>3, <2>4 DEF Chosen
<1> QED
  BY <1>8, <1>9, <1>10, <1>11

\* ... and so is what chooseTenant settles on.
LEMMA ChoiceIs ==
  ASSUME NEW r \in PrefillRequests
  PROVE  Chosen(r, chooseTenant(r))
<1>1. CASE r.override # ""
  <2>1. chooseTenant(r) = Option(r.override, "")
    BY <1>1 DEF chooseTenant
  <2> QED
    <3>1. chooseTenant(r).account = ""
      <4>1. Option(r.override, "").account = ""
        BY DEF Option
      <4> QED
        BY <2>1, <4>1
    <3> QED
      BY <1>1, <3>1 DEF Chosen
<1>2. CASE r.override = "" /\ (r.broken = "az" \/ listTenants = <<>>)
  <2>1. chooseTenant(r) = Nobody
    BY <1>2 DEF chooseTenant
  <2> QED
    <3>1. chooseTenant(r).account = "" /\ chooseTenant(r).tenant = ""
      <4>1. Nobody.account = "" /\ Nobody.tenant = ""
        BY DEF Nobody, Option
      <4> QED
        BY <2>1, <4>1
    <3>2. "" \notin Tenants
      BY DEF Tenants
    <3> QED
      BY <3>1, <3>2 DEF Chosen
<1>3. CASE ~(r.override # "") /\ ~(r.broken = "az" \/ listTenants = <<>>)
  <2>1. chooseTenant(r) = IF Len(listTenants) = 1 THEN listTenants[1] ELSE pickTenant(r.answers, listTenants)
    BY <1>3 DEF chooseTenant
  <2>2. 1 \in DOMAIN listTenants
    <3>1. PICK n \in Nat : TenantsOf(n, listTenants)
      BY TenantsAre
    <3>2. listTenants \in Seq(TenantOption)
      BY <3>1 DEF TenantsOf
    <3> QED
      <4>1. listTenants # <<>>
        BY <1>3
      <4>2. \E k \in Nat : DOMAIN listTenants = 1..k /\ 1 \in 1..k
        BY <3>2, <4>1, FirstPlace
      <4> QED
        BY <4>2
  <2>3. Chosen(r, listTenants[1])
    <3>1. listTenants[1] \in ToSet(listTenants)
      BY <2>2 DEF ToSet
    <3> QED
      BY <3>1, ListedIsChosen
  <2>4. Chosen(r, pickTenant(r.answers, listTenants))
    <3> DEFINE answers == r.answers
               I == {j \in 1..Len(answers) : ~OutOfRange(answers[j], listTenants)}
               i == SelectInSeq(answers, LAMBDA value : ~OutOfRange(value, listTenants))
               value == IF i = 0 THEN "" ELSE answers[i]
    <3>1. pickTenant(answers, listTenants) = Picked(value, listTenants)
      BY DEF pickTenant
    <3>2. i = IF I # {} THEN Min(I) ELSE 0
      BY DEF SelectInSeq
    <3>3. PICK k \in Nat : k = Len(answers)
      <4>1. answers \in Seq(STRING)
        BY PicksAssumption DEF PrefillRequests
      <4> QED
        BY <4>1, LenProperties
    <3>4. I \in SUBSET (1..k)
      BY <3>3
    <3>5. i # 0 => i \in I
      <4> HIDE DEF i, I
      <4> QED
        BY <3>2, <3>3, <3>4, FirstIs
    <3> HIDE DEF i
    <3>6. ~OutOfRange(value, listTenants) \/ value = ""
      BY <3>5
    <3> HIDE DEF value
    <3> QED
      BY <1>3, <3>1, <3>6, PickedIsChosen
  <2> QED
    BY <2>1, <2>3, <2>4
<1> QED
  BY <1>1, <1>2, <1>3

Repo == [url : STRING, branch : STRING]
Project == [name : STRING, repos : Seq(Repo)]
Org == [name : STRING, projects : Seq(Project)]

\* The elements of two sequences, one after the other.
LEMMA ElementsJoined ==
  ASSUME NEW T, NEW s \in Seq(T), NEW t \in Seq(T)
  PROVE  \A x : x \in ToSet(s \o t) <=> x \in ToSet(s) \/ x \in ToSet(t)
<1>1. PICK m \in Nat : m = Len(s) /\ DOMAIN s = 1..m
  BY LenProperties
<1>2. PICK n \in Nat : n = Len(t) /\ DOMAIN t = 1..n
  BY LenProperties
<1> DEFINE u == s \o t
<1>3. /\ u \in Seq(T) /\ Len(u) = m + n
      /\ \A i \in 1..m : u[i] = s[i]
      /\ \A i \in 1..n : u[m + i] = t[i]
  BY <1>1, <1>2, Joined
<1> HIDE DEF u
<1>4. DOMAIN u = 1..(m + n)
  BY <1>1, <1>2, <1>3, LenProperties
<1>5. ASSUME NEW i \in 1..(m + n) PROVE i \in 1..m \/ \E j \in 1..n : i = m + j
  <2>1. CASE i <= m
    BY <2>1
  <2>2. CASE ~(i <= m)
    <3>1. i - m \in 1..n /\ i = m + (i - m)
      BY <2>2
    <3> QED
      BY <3>1
  <2> QED
    BY <2>1, <2>2
<1>6. /\ \A i \in 1..m : i \in 1..(m + n)
      /\ \A j \in 1..n : m + j \in 1..(m + n)
  OBVIOUS
<1>7. ASSUME NEW x, x \in ToSet(u) PROVE x \in ToSet(s) \/ x \in ToSet(t)
  <2>1. PICK i \in 1..(m + n) : x = u[i]
    BY <1>4, <1>7 DEF ToSet
  <2>2. CASE i \in 1..m
    BY <1>1, <1>3, <2>1, <2>2 DEF ToSet
  <2>3. CASE \E j \in 1..n : i = m + j
    BY <1>2, <1>3, <2>1, <2>3 DEF ToSet
  <2> QED
    BY <1>5, <2>2, <2>3
<1>8. ASSUME NEW x, x \in ToSet(s) \/ x \in ToSet(t) PROVE x \in ToSet(u)
  <2>1. CASE x \in ToSet(s)
    <3>1. PICK i \in 1..m : x = s[i]
      BY <1>1, <2>1 DEF ToSet
    <3> QED
      BY <1>3, <1>4, <1>6, <3>1 DEF ToSet
  <2>2. CASE x \in ToSet(t)
    <3>1. PICK i \in 1..n : x = t[i]
      BY <1>2, <2>2 DEF ToSet
    <3> QED
      BY <1>3, <1>4, <1>6, <3>1 DEF ToSet
  <2> QED
    BY <1>8, <2>1, <2>2
<1> QED
  BY <1>7, <1>8 DEF u

\* The repositories of an organization, in the order of its projects, are those of its projects.
LEMMA Flattened ==
  ASSUME NEW S, NEW n \in Nat, NEW seqs \in [1..n -> Seq(S)]
  PROVE  /\ FlattenSeq(seqs) \in Seq(S)
         /\ \A x : x \in ToSet(FlattenSeq(seqs)) <=> \E k \in 1..n : x \in ToSet(seqs[k])
<1>1. CASE n = 0
  <2>1. seqs = <<>> /\ Len(seqs) = 0
    BY <1>1
  <2>2. FlattenSeq(seqs) = <<>>
    BY <2>1 DEF FlattenSeq
  <2>3. ToSet(<<>>) = {}
    BY DEF ToSet
  <2> QED
    BY <1>1, <2>2, <2>3
<1>2. CASE n # 0
  <2>1. PICK f \in [1..n -> Seq(S)] : Flattens(seqs, n, f) /\ FlattenSeq(seqs) = f[n]
    BY <1>2, FlattenIs
  <2> DEFINE P == {k \in 0..n : k = 0 \/ \A x : x \in ToSet(f[k]) <=> \E j \in 1..k : x \in ToSet(seqs[j])}
  <2>2. 0 \in P
    OBVIOUS
  <2>3. ASSUME NEW k \in 1..n, k - 1 \in P PROVE k \in P
    <3>1. f[k] = IF k = 1 THEN seqs[k] ELSE f[k - 1] \o seqs[k]
      BY <2>1 DEF Flattens
    <3>2. \A j : j \in 1..k <=> j \in 1..(k - 1) \/ j = k
      OBVIOUS
    <3>3. CASE k = 1
      <4>1. \A j : j \in 1..k <=> j = k
        BY <3>3
      <4> QED
        BY <3>1, <3>3, <4>1
    <3>4. CASE k # 1
      <4>1. k - 1 \in 1..n
        BY <3>4
      <4>2. \A x : x \in ToSet(f[k - 1]) <=> \E j \in 1..(k - 1) : x \in ToSet(seqs[j])
        <5>1. k - 1 # 0
          BY <3>4
        <5> QED
          BY <2>3, <5>1
      <4>3. f[k - 1] \in Seq(S) /\ seqs[k] \in Seq(S)
        BY <4>1
      <4>4. \A x : x \in ToSet(f[k - 1] \o seqs[k]) <=> x \in ToSet(f[k - 1]) \/ x \in ToSet(seqs[k])
        BY <4>3, ElementsJoined
      <4> QED
        <5>1. f[k] = f[k - 1] \o seqs[k]
          BY <3>1, <3>4
        <5>2. \A x : x \in ToSet(f[k]) <=> \E j \in 1..k : x \in ToSet(seqs[j])
          BY <3>2, <4>2, <4>4, <5>1
        <5> QED
          BY <5>2
    <3> QED
      BY <3>3, <3>4
  <2> HIDE DEF P
  <2>4. 0..n \subseteq P
    BY <2>2, <2>3, UpFrom
  <2>5. n \in 0..n /\ n \in 1..n
    BY <1>2
  <2>6. n \in P
    BY <2>4, <2>5
  <2> QED
    BY <1>2, <2>1, <2>5, <2>6 DEF P
<1> QED
  BY <1>1, <1>2

\* A repository of a project is one of the organization.
LEMMA RepoOfOrg ==
  ASSUME NEW org, NEW k \in DOMAIN org.projects, NEW l \in DOMAIN org.projects[k].repos
  PROVE  [project |-> org.projects[k].name, repo |-> org.projects[k].repos[l]] \in ReposOf(org)
<1> DEFINE all(i) == {[project |-> org.projects[i].name, repo |-> org.projects[i].repos[j]]
                       : j \in DOMAIN org.projects[i].repos}
<1>1. [project |-> org.projects[k].name, repo |-> org.projects[k].repos[l]] \in all(k)
  OBVIOUS
<1>2. ReposOf(org) = UNION {all(i) : i \in DOMAIN org.projects}
  BY DEF ReposOf
<1> HIDE DEF all
<1> QED
  BY <1>1, <1>2

\* Something is there to offer.
Given(text) == text # ""

UrlsAreUnique(org) == \A x, y \in ReposOf(org) : x.repo.url = y.repo.url => x = y

OfferedRepo(org, project, url) ==
  \E x \in ReposOf(org) :
    x.project = project /\ x.repo = [url |-> url, branch |-> defaultBranchForRepoURL(org, url)]

\* The url offered is a repository's of the project, and the branch that repository's.
LEMMA RepoIs ==
  ASSUME NEW org \in Org, NEW project, NEW url,
         UrlsAreUnique(org),
         url = Offered(repoURLsForProject(org, project)), Given(url)
  PROVE  OfferedRepo(org, project, url)
<1> DEFINE projects == org.projects
<1>1. PICK n \in Nat : n = Len(projects) /\ DOMAIN projects = 1..n /\ projects \in [1..n -> Project]
  <2>1. projects \in Seq(Project)
    BY DEF Org
  <2> QED
    BY <2>1, LenProperties
<1> DEFINE I == {k \in 1..n : projects[k].name = project}
           i == SelectInSeq(projects, LAMBDA p : p.name = project)
           urls == IF i = 0 THEN <<>> ELSE [k \in DOMAIN projects[i].repos |-> projects[i].repos[k].url]
<1>2. i = IF I # {} THEN Min(I) ELSE 0
  BY <1>1 DEF SelectInSeq
<1>3. repoURLsForProject(org, project) = urls
  BY DEF repoURLsForProject
<1>4. I \in SUBSET (1..n)
  OBVIOUS
<1> HIDE DEF i, I
<1>5. i # 0 => i \in I /\ i \in 1..n
  BY <1>1, <1>2, <1>4, FirstIs
<1>6. i # 0 /\ urls # <<>>
  BY <1>3 DEF Offered, Given
<1>7. i \in 1..n /\ projects[i].name = project
  BY <1>5, <1>6 DEF I
<1>8. projects[i].repos \in Seq(Repo)
  BY <1>1, <1>7 DEF Project
<1>9. PICK m \in Nat : m = Len(projects[i].repos) /\ DOMAIN projects[i].repos = 1..m
                    /\ projects[i].repos \in [1..m -> Repo]
  BY <1>8, LenProperties
<1>10. urls = [k \in 1..m |-> projects[i].repos[k].url]
  BY <1>6, <1>9
<1>11. m # 0
  <2>1. urls \in Seq(STRING) /\ Len(urls) = m
    <3>1. \A k \in 1..m : projects[i].repos[k].url \in STRING
      BY <1>9 DEF Repo
    <3>2. urls \in [1..m -> STRING]
      BY <1>10, <3>1
    <3> HIDE DEF urls
    <3> QED
      BY <1>9, <3>2
  <2> QED
    BY <1>6, <2>1, EmptySeq
<1>12. 1 \in 1..m
  <2>1. \A k \in Nat : k # 0 => 1 \in 1..k
    OBVIOUS
  <2> QED
    BY <1>11, <2>1
<1>13. url = projects[i].repos[1].url
  BY <1>3, <1>6, <1>10, <1>12 DEF Offered
<1> DEFINE x == [project |-> projects[i].name, repo |-> projects[i].repos[1]]
<1>14. x \in ReposOf(org)
  <2>1. i \in DOMAIN projects /\ 1 \in DOMAIN projects[i].repos
    BY <1>1, <1>7, <1>9, <1>12
  <2> QED
    BY <2>1, RepoOfOrg DEF x
<1> HIDE DEF urls
<1> DEFINE seqs == [k \in DOMAIN projects |-> projects[k].repos]
           repos == FlattenSeq(seqs)
<1>15. seqs \in [1..n -> Seq(Repo)] /\ \A k \in 1..n : seqs[k] = projects[k].repos
  BY <1>1 DEF Project
<1> HIDE DEF seqs
<1>16. /\ repos \in Seq(Repo)
       /\ \A z : z \in ToSet(repos) <=> \E k \in 1..n : z \in ToSet(seqs[k])
  BY <1>15, Flattened
<1>17. PICK o \in Nat : o = Len(repos) /\ DOMAIN repos = 1..o /\ repos \in [1..o -> Repo]
  BY <1>16, LenProperties
<1> DEFINE J == {k \in 1..o : repos[k].url = url}
           j == SelectInSeq(repos, LAMBDA repo : repo.url = url)
<1>18. defaultBranchForRepoURL(org, url) = IF j = 0 THEN "" ELSE repos[j].branch
  BY DEF defaultBranchForRepoURL, seqs
<1>19. j = IF J # {} THEN Min(J) ELSE 0
  BY <1>17 DEF SelectInSeq
<1>20. J \in SUBSET (1..o)
  OBVIOUS
<1> HIDE DEF j, repos
<1>21. J # {}
  <2>1. projects[i].repos[1] \in ToSet(seqs[i])
    BY <1>7, <1>9, <1>12, <1>15 DEF ToSet
  <2>2. projects[i].repos[1] \in ToSet(repos)
    BY <1>7, <1>16, <2>1
  <2>3. PICK k \in 1..o : repos[k] = projects[i].repos[1]
    BY <1>17, <2>2 DEF ToSet
  <2> QED
    BY <1>13, <2>3
<1> HIDE DEF J
<1>22. j # 0 /\ j \in J /\ j \in 1..o
  BY <1>19, <1>20, <1>21, FirstIs
<1>23. repos[j] \in ToSet(repos) /\ repos[j].url = url
  BY <1>17, <1>22 DEF J, ToSet
<1>24. PICK k \in 1..n : repos[j] \in ToSet(projects[k].repos)
  BY <1>15, <1>16, <1>23
<1>25. PICK l \in DOMAIN projects[k].repos : repos[j] = projects[k].repos[l]
  BY <1>24 DEF ToSet
<1> DEFINE y == [project |-> projects[k].name, repo |-> projects[k].repos[l]]
<1>26. y \in ReposOf(org)
  <2>1. k \in DOMAIN projects /\ l \in DOMAIN projects[k].repos
    BY <1>1, <1>25
  <2> QED
    BY <2>1, RepoOfOrg DEF y
<1>27. x.project = project /\ x.repo = projects[i].repos[1] /\ y.repo = repos[j]
  BY <1>7, <1>25
<1> HIDE DEF x, y
<1>28. x = y
  BY <1>13, <1>14, <1>23, <1>26, <1>27 DEF UrlsAreUnique
<1>29. defaultBranchForRepoURL(org, url) = x.repo.branch
  BY <1>18, <1>22, <1>27, <1>28
<1>30. x.repo \in Repo /\ x.repo.url = url
  BY <1>9, <1>12, <1>13, <1>27
<1>31. x.repo = [url |-> url, branch |-> defaultBranchForRepoURL(org, url)]
  BY <1>29, <1>30 DEF Repo
<1> QED
  BY <1>14, <1>27, <1>31 DEF OfferedRepo

RoleIn(registry, a, b, who) ==
  /\ \E i \in 1..a : registry.identities[i].id = who.identity
  /\ Given(who.user) =>
       \E u \in 1..b : registry.users[u] = [id |-> who.user, parent |-> who.identity]

\* What a role is given, when it is given anything.
LEMMA RoleIs ==
  ASSUME NEW registry, NEW a \in Nat, NEW b \in Nat, NEW role,
         a = Len(registry.identities), DOMAIN registry.identities = 1..a,
         b = Len(registry.users),
         registry.users \in [1..b -> [id : STRING, parent : STRING]],
         roleIdentity(registry, role) # NoRole
  PROVE  RoleIn(registry, a, b, roleIdentity(registry, role))
<1> DEFINE I == {k \in 1..a : role \in registry.identities[k].names}
           i == SelectInSeq(registry.identities, LAMBDA identity : role \in identity.names)
           id == registry.identities[i].id
           U == {k \in 1..b : registry.users[k].parent # "" /\ registry.users[k].parent = id}
           u == SelectInSeq(registry.users, LAMBDA user : user.parent # "" /\ user.parent = id)
           who == IF u = 0 THEN "" ELSE registry.users[u].id
<1>1. roleIdentity(registry, role) = IF i = 0 THEN NoRole ELSE [identity |-> id, user |-> who]
  BY DEF roleIdentity
<1>2. i = IF I # {} THEN Min(I) ELSE 0
  BY DEF SelectInSeq
<1>3. u = IF U # {} THEN Min(U) ELSE 0
  BY DEF SelectInSeq
<1>4. I \in SUBSET (1..a) /\ U \in SUBSET (1..b)
  OBVIOUS
<1> HIDE DEF i, u, I, U
<1>5. i # 0 => i \in 1..a
  BY <1>2, <1>4, FirstIs
<1>6. u # 0 => u \in U /\ u \in 1..b
  BY <1>3, <1>4, FirstIs
<1>7. i # 0
  BY <1>1
<1>8. roleIdentity(registry, role).identity = id /\ roleIdentity(registry, role).user = who
  <2> HIDE DEF id, who
  <2> QED
    BY <1>1, <1>7
<1>9. ASSUME Given(who) PROVE u \in 1..b /\ registry.users[u] = [id |-> who, parent |-> id]
  <2>1. u # 0
    BY <1>9 DEF Given
  <2>2. u \in 1..b /\ u \in U
    BY <1>6, <2>1
  <2>3. registry.users[u].parent = id
    BY <2>2 DEF U
  <2>4. registry.users[u] \in [id : STRING, parent : STRING]
    BY <2>2
  <2>5. who = registry.users[u].id
    BY <2>1
  <2> QED
    BY <2>2, <2>3, <2>4, <2>5
<1> QED
  BY <1>5, <1>7, <1>8, <1>9 DEF RoleIn

\* The token is of a tenant of az.
LEMMA MintedIsATenant ==
  ASSUME NEW r \in PrefillRequests, NEW option, option = chooseTenant(r)
  PROVE  MintedFor(option.account) \in Tenants
<1>1. CASE option.account = ""
  <2>1. PICK n \in Nat : /\ n = Len(Accounts) /\ DOMAIN Accounts = 1..n
                         /\ Lists(Accounts, n, Account) /\ TenantsOf(n, listTenants)
    BY TenantsAre
  <2>2. PICK i \in 1..n : Accounts[i].id = LoggedIn /\ Accounts[i].tenant # ""
    BY <2>1, AccountsAssumption
  <2>3. TenantOf(LoggedIn) = Accounts[i].tenant
    BY <2>1, <2>2, AccountMints
  <2>4. Accounts[i].tenant \in Tenants
    BY <2>1, <2>2 DEF Tenants
  <2> QED
    BY <1>1, <2>3, <2>4 DEF MintedFor
<1>2. CASE option.account # ""
  BY <1>2, ChoiceIs DEF Chosen, MintedAs
<1> QED
  BY <1>1, <1>2

\* The organization found is one the token reaches.
LEMMA FoundOrg ==
  ASSUME NEW r \in PrefillRequests, NEW option, option = chooseTenant(r),
         NEW found, found = attemptDiscovery(option, r.broken), found.ok
  PROVE  /\ found.org \in ToSet(Orgs[MintedFor(option.account)])
         /\ found.org \in Org /\ UrlsAreUnique(found.org)
         /\ option.tenant # ""
<1> DEFINE minted == MintedFor(option.account)
           orgs == Orgs[minted]
<1>1. minted \in Tenants
  BY MintedIsATenant
<1>2. orgs \in Seq(Org) /\ \A org \in ToSet(orgs) : UrlsAreUnique(org)
  BY <1>1, OrgsAssumption DEF Org, Project, Repo, UrlsAreUnique
<1>3. ~NotDiscovered.ok
  BY DEF NotDiscovered
<1>4. option.tenant # "" /\ found = Discover(option.account, r.broken)
  BY <1>3, Zenon DEF attemptDiscovery
<1>5. Len(orgs) = 1 /\ found = [ok |-> TRUE, org |-> orgs[1]]
  BY <1>3, <1>4, Zenon DEF Discover
<1>6. found.org = orgs[1]
  BY <1>5
<1>7. 1 \in DOMAIN orgs /\ orgs[1] \in Org
  <2> HIDE DEF orgs
  <2>1. orgs # <<>>
    BY <1>5
  <2> QED
    BY <1>2, <2>1, FirstPlace
<1>8. orgs[1] \in ToSet(orgs)
  BY <1>7 DEF ToSet
<1> QED
  BY <1>2, <1>4, <1>6, <1>7, <1>8

RoleFound(option, who) ==
  /\ option.tenant # ""
  /\ \E i \in DOMAIN Directory[MintedFor(option.account)].identities :
       Directory[MintedFor(option.account)].identities[i].id = who.identity
  /\ who.user # "" =>
       \E u \in DOMAIN Directory[MintedFor(option.account)].users :
         Directory[MintedFor(option.account)].users[u] = [id |-> who.user, parent |-> who.identity]

\* The roles are of the directory the token reads, and there are none without a tenant.
LEMMA FoundRole ==
  ASSUME NEW r \in PrefillRequests, NEW option, option = chooseTenant(r),
         NEW role, NEW who, who = roleIdentity(Registry(option, r.broken), role), who # NoRole
  PROVE  RoleFound(option, who)
<1> DEFINE none == [identities |-> <<>>, users |-> <<>>]
           directory == Directory[MintedFor(option.account)]
           registry == Registry(option, r.broken)
<1>1. /\ directory.identities \in Seq([id : STRING, names : SUBSET STRING])
      /\ directory.users \in Seq([id : STRING, parent : STRING])
  BY MintedIsATenant, DirectoryAssumption
<1>2. /\ none.identities \in Seq([id : STRING, names : SUBSET STRING])
      /\ none.users \in Seq([id : STRING, parent : STRING])
  OBVIOUS
<1>3. \/ registry = none
      \/ option.tenant # "" /\ registry = directory
  BY Zenon DEF Registry
<1> HIDE DEF registry, directory
<1>4. /\ registry.identities \in Seq([id : STRING, names : SUBSET STRING])
      /\ registry.users \in Seq([id : STRING, parent : STRING])
  <2> HIDE DEF none
  <2> QED
    BY <1>1, <1>2, <1>3, Zenon
<1>5. PICK a \in Nat : a = Len(registry.identities) /\ DOMAIN registry.identities = 1..a
  BY <1>4, LenProperties
<1>6. PICK b \in Nat : /\ b = Len(registry.users) /\ DOMAIN registry.users = 1..b
                       /\ registry.users \in [1..b -> [id : STRING, parent : STRING]]
  BY <1>4, LenProperties
<1>7. who = roleIdentity(registry, role)
  BY DEF registry
<1>8. /\ \E i \in 1..a : registry.identities[i].id = who.identity
      /\ Given(who.user) =>
           \E u \in 1..b : registry.users[u] = [id |-> who.user, parent |-> who.identity]
  <2>1. RoleIn(registry, a, b, who)
    BY <1>5, <1>6, <1>7, RoleIs
  <2> QED
    BY <2>1 DEF RoleIn
<1>9. registry # none
  <2> SUFFICES ASSUME registry = none PROVE FALSE
    OBVIOUS
  <2>1. registry.identities = <<>>
    OBVIOUS
  <2>2. DOMAIN registry.identities = {}
    BY <2>1
  <2> QED
    BY <1>5, <1>8, <2>2
<1>10. option.tenant # "" /\ registry = directory
  BY <1>3, <1>9
<1> QED
  BY <1>5, <1>6, <1>8, <1>10 DEF Given, directory, RoleFound

\* What the property says of an answer.
HangsTogether(r, answer) ==
  LET p == answer.prefill
      minted == MintedFor(p.account)
      orgs == ToSet(Orgs[minted])
      directory == Directory[minted]
  IN  /\ p.tenant \in Tenants /\ r.override = "" => minted = p.tenant
      /\ p.account # "" => minted = p.tenant
      /\ answer.org # "" => \E o \in orgs : o.name = answer.org
      /\ p.tenant = "" => /\ answer.org = "" /\ answer.url = "" /\ answer.branch = ""
                          /\ \A role \in DOMAIN p.roles : p.roles[role] = NoRole
      /\ answer.url # "" =>
           \E o \in orgs : \E x \in ReposOf(o) :
             /\ o.name = answer.org /\ x.project = answer.project
             /\ x.repo = [url |-> answer.url, branch |-> answer.branch]
      /\ \A role \in DOMAIN p.roles : p.roles[role] # NoRole =>
           /\ \E i \in DOMAIN directory.identities :
                directory.identities[i].id = p.roles[role].identity
           /\ p.roles[role].user # "" =>
                \E u \in DOMAIN directory.users :
                  directory.users[u] = [id |-> p.roles[role].user, parent |-> p.roles[role].identity]

\* What a fresh interview offers hangs together.
LEMMA PrefillIs ==
  ASSUME NEW r \in PrefillRequests
  PROVE  HangsTogether(r, FreshInterview(r))
<1> DEFINE option == chooseTenant(r)
           answer == FreshInterview(r)
           prefill == resolvePrefill(r)
           found == attemptDiscovery(option, r.broken)
           project == TypedOr(r.project, IF found.ok THEN Offered(projectNames(found.org.projects)) ELSE "")
           url == IF found.ok THEN Offered(repoURLsForProject(found.org, project)) ELSE ""
           minted == MintedFor(option.account)
<1>1. answer = [prefill |-> prefill,
                org |-> IF found.ok THEN found.org.name ELSE "",
                project |-> project, url |-> url,
                branch |-> IF found.ok THEN defaultBranchForRepoURL(found.org, url) ELSE ""]
  BY DEF FreshInterview
<1>2. prefill = [tenant |-> option.tenant, account |-> option.account,
                 roles |-> [role \in {"dev", "reviewer"} |-> roleIdentity(Registry(option, r.broken), role)]]
  BY DEF resolvePrefill
<1>3. Chosen(r, option)
  BY ChoiceIs
<1> HIDE DEF option, answer, prefill, found, project, url
<1>4. /\ answer.prefill = prefill /\ answer.project = project /\ answer.url = url
      /\ found.ok => answer.org = found.org.name /\ answer.branch = defaultBranchForRepoURL(found.org, url)
      /\ ~found.ok => answer.org = "" /\ answer.branch = ""
  BY <1>1
<1>5. prefill.tenant = option.tenant /\ prefill.account = option.account
  BY <1>2
<1>6. /\ ~found.ok => url = ""
      /\ found.ok => url = Offered(repoURLsForProject(found.org, project))
  BY Zenon DEF url
<1>7. found.ok => /\ found.org \in ToSet(Orgs[minted]) /\ found.org \in Org /\ UrlsAreUnique(found.org)
                  /\ option.tenant # ""
  BY FoundOrg DEF option, found
<1>8. ASSUME NEW role \in DOMAIN prefill.roles, prefill.roles[role] # NoRole
      PROVE  RoleFound(option, prefill.roles[role])
  <2>1. prefill.roles[role] = roleIdentity(Registry(option, r.broken), role)
    BY <1>2, <1>8
  <2> QED
    BY <1>8, <2>1, FoundRole DEF option
<1>9. (option.tenant \in Tenants /\ r.override = "") \/ option.account # "" => minted = option.tenant
  BY <1>3 DEF Chosen, MintedAs
<1>10. ASSUME answer.org # "" PROVE \E o \in ToSet(Orgs[minted]) : o.name = answer.org
  BY <1>4, <1>7, <1>10
<1>11. ASSUME option.tenant = ""
       PROVE  /\ answer.org = "" /\ answer.url = "" /\ answer.branch = ""
              /\ \A role \in DOMAIN prefill.roles : prefill.roles[role] = NoRole
  BY <1>4, <1>6, <1>7, <1>8, <1>11 DEF RoleFound
<1>12. ASSUME answer.url # ""
       PROVE  \E o \in ToSet(Orgs[minted]) : \E x \in ReposOf(o) :
                /\ o.name = answer.org /\ x.project = answer.project
                /\ x.repo = [url |-> answer.url, branch |-> answer.branch]
  <2>1. found.ok /\ Given(url) /\ url = Offered(repoURLsForProject(found.org, project))
    BY <1>4, <1>6, <1>12 DEF Given
  <2>2. OfferedRepo(found.org, project, url)
    BY <1>7, <2>1, RepoIs
  <2> QED
    BY <1>4, <1>7, <2>1, <2>2 DEF OfferedRepo
<1> QED
  BY <1>4, <1>5, <1>8, <1>9, <1>10, <1>11, <1>12 DEF HangsTogether, RoleFound, answer
=============================================================================
