--------------------------- MODULE FifoLotsProofs ---------------------------
(***************************************************************************)
(* Lemmas about sums and folds, and about the lot queue that both services *)
(* share: what the loop of consume_fifo returns for every queue, quantity  *)
(* and price (SaleAddsUp).                                                 *)
(*                                                                         *)
(* Induction over data comes from two facts of the library that are first  *)
(* order: the order of the naturals is well founded, and in a well-founded *)
(* order a set that is not empty has a minimal element.  A property to be  *)
(* proved by induction is the set T of what has it.                        *)
(*                                                                         *)
(* A fold is defined by CHOOSE: some function that solves a recursive      *)
(* equation.  That there is one, and that its values form the chain that   *)
(* one expects, is proved here for folds over sequences (FoldLeft) and for *)
(* sums over finite sets (MapThenSumSet).                                  *)
(***************************************************************************)
EXTENDS FifoLots, FiniteSetsExt, FiniteSetTheorems, SequenceTheorems, WellFoundedInduction,
        TLAPS

-----------------------------------------------------------------------------
(* Induction over the naturals. *)

\* A set of naturals that is not empty has a least element.
LEMMA LeastNumber ==
  ASSUME NEW T \in SUBSET Nat, T # {}
  PROVE  \E m \in T : \A k \in T : m <= k
<1> DEFINE R == OpToRel(<, Nat)
<1>1. \E m \in T : \A k \in T : ~(<<k, m>> \in R)
  BY NatLessThanWellFounded, WFMin
<1>2. \A k, m \in Nat : k < m => <<k, m>> \in R
  BY DEF OpToRel
<1> HIDE DEF R
<1>3. PICK m \in T : \A k \in T : ~(<<k, m>> \in R)
  BY <1>1
<1>4. ASSUME NEW k \in T PROVE m <= k
  <2>1. k \in Nat /\ m \in Nat
    OBVIOUS
  <2>2. ~(k < m)
    BY <1>2, <1>3, <2>1
  <2> QED
    BY <2>1, <2>2
<1> QED
  BY <1>4

\* Induction up to n.
LEMMA UpTo ==
  ASSUME NEW n \in Nat, NEW T, 0 \in T, \A k \in 0 .. n - 1 : k \in T => k + 1 \in T
  PROVE  \A k \in 0 .. n : k \in T
<1> DEFINE Out == {k \in 0 .. n : k \notin T}
<1>1. SUFFICES ASSUME Out # {} PROVE FALSE
  OBVIOUS
<1>2. PICK m \in Out : \A k \in Out : m <= k
  <2>1. Out \in SUBSET Nat
    OBVIOUS
  <2> QED
    BY <1>1, <2>1, LeastNumber
<1>3. m - 1 \in 0 .. n - 1
  BY <1>2
<1>4. m - 1 \in T
  BY <1>2, <1>3
<1> QED
  BY <1>2, <1>3, <1>4

\* Induction over all naturals.
LEMMA AllNaturals ==
  ASSUME NEW T, 0 \in T, \A k \in Nat : k \in T => k + 1 \in T
  PROVE  \A k \in Nat : k \in T
<1> SUFFICES ASSUME NEW n \in Nat PROVE n \in T
  OBVIOUS
<1>1. \A k \in 0 .. n : k \in T
  <2>1. \A k \in 0 .. n - 1 : k \in T => k + 1 \in T
    OBVIOUS
  <2> QED
    BY <2>1, UpTo
<1> QED
  BY <1>1

\* The operator Max of the folds returns the largest index of a set of indices.
LEMMA MaxUpTo ==
  ASSUME NEW n \in Nat, NEW s \in SUBSET (1 .. n), s # {}
  PROVE  Max(s) \in s /\ \A x \in s : x <= Max(s)
<1> DEFINE T == {k \in 0 .. n : n - k \in s}
<1>1. PICK m \in T : \A k \in T : m <= k
  <2>1. PICK x \in s : TRUE
    OBVIOUS
  <2>2. n - x \in T
    OBVIOUS
  <2>3. T \in SUBSET Nat /\ T # {}
    <3>1. T # {}
      BY <2>2
    <3>2. T \in SUBSET Nat
      OBVIOUS
    <3> QED
      BY <3>1, <3>2
  <2> HIDE DEF T
  <2> QED
    BY <2>3, LeastNumber
<1>2. ASSUME NEW x \in s PROVE x <= n - m
  <2>1. n - x \in T
    OBVIOUS
  <2> QED
    BY <1>1, <2>1
<1>3. n - m \in s
  OBVIOUS
<1> QED
  BY <1>2, <1>3 DEF Max

-----------------------------------------------------------------------------
(* Folds over sequences. *)

\* What a fold over 1 .. n in accumulators of Acc needs: where to begin, and a step per index.
Folds(Acc, n, base, step) == n \in Nat /\ base \in Acc /\ step \in [Acc \X (1 .. n) -> Acc]

\* g, a function on the sets of indices, solves the equation of the fold.
Iterates(g, Acc, n, base, step) ==
  \A s \in SUBSET (1 .. n) :
    /\ s = {} => g[s] = base
    /\ s # {} /\ g[s \ {Max(s)}] \in Acc => g[s] = step[<<g[s \ {Max(s)}], Max(s)>>]

\* P[k] is the accumulator after the first k indices.
IsChain(P, Acc, n, base, step) ==
  P \in [0 .. n -> Acc] /\ P[0] = base /\ \A k \in 1 .. n : P[k] = step[<<P[k - 1], k>>]

\* The equation of a fold over 1 .. n has a solution.
LEMMA FoldExists ==
  ASSUME NEW Acc, NEW n, NEW base, NEW step, Folds(Acc, n, base, step)
  PROVE  \E g : g \in [SUBSET (1 .. n) -> Acc] /\ Iterates(g, Acc, n, base, step)
<1> USE DEF Folds
<1> DEFINE Solves(g, k) ==
      \A s \in SUBSET (1 .. k) :
        g[s] = IF s = {} THEN base ELSE step[<<g[s \ {Max(s)}], Max(s)>>]
    T == {k \in 0 .. n : \E g \in [SUBSET (1 .. k) -> Acc] : Solves(g, k)}
<1>1. 0 \in T
  <2> DEFINE g == [s \in SUBSET (1 .. 0) |-> base]
  <2>1. 1 .. 0 = {}
    OBVIOUS
  <2>2. g \in [SUBSET (1 .. 0) -> Acc] /\ Solves(g, 0)
    BY <2>1
  <2>3. \E f \in [SUBSET (1 .. 0) -> Acc] : Solves(f, 0)
    BY <2>2
  <2>4. 0 \in 0 .. n
    OBVIOUS
  <2> QED
    BY <2>3, <2>4
<1>2. ASSUME NEW k \in 0 .. n - 1, k \in T PROVE k + 1 \in T
  <2>1. PICK g \in [SUBSET (1 .. k) -> Acc] : Solves(g, k)
    BY <1>2
  <2> DEFINE h == [s \in SUBSET (1 .. k + 1) |->
                     IF k + 1 \in s THEN step[<<g[s \ {k + 1}], k + 1>>] ELSE g[s]]
  <2>2. \A s \in SUBSET (1 .. k + 1) :
          s \ {k + 1} \in SUBSET (1 .. k) /\ (k + 1 \notin s => s \in SUBSET (1 .. k))
    OBVIOUS
  <2>3. h \in [SUBSET (1 .. k + 1) -> Acc]
    BY <2>2
  <2>4. \A s \in SUBSET (1 .. k) : h[s] = g[s]
    OBVIOUS
  <2>5. ASSUME NEW s \in SUBSET (1 .. k + 1)
        PROVE  h[s] = IF s = {} THEN base ELSE step[<<h[s \ {Max(s)}], Max(s)>>]
    <3>1. CASE k + 1 \in s
      <4>1. Max(s) = k + 1
        <5>1. Max(s) \in s /\ \A x \in s : x <= Max(s)
          BY <3>1, MaxUpTo, k + 1 \in Nat
        <5>2. Max(s) \in 1 .. k + 1
          BY <5>1
        <5> QED
          BY <3>1, <5>1, <5>2
      <4> QED
        BY <2>2, <2>4, <3>1, <4>1
    <3>2. CASE k + 1 \notin s /\ s # {}
      <4>1. s \in SUBSET (1 .. k) /\ s \ {Max(s)} \in SUBSET (1 .. k)
        BY <2>2, <3>2
      <4> QED
        BY <2>1, <2>4, <3>2, <4>1
    <3>3. CASE s = {}
      BY <2>1, <3>3
    <3> QED
      BY <3>1, <3>2, <3>3
  <2>6. Solves(h, k + 1)
    BY <2>5
  <2> HIDE DEF h, Solves
  <2> QED
    BY <2>3, <2>6
<1>3. n \in T
  <2> HIDE DEF T
  <2> QED
    BY <1>1, <1>2, UpTo
<1>4. PICK g \in [SUBSET (1 .. n) -> Acc] : Solves(g, n)
  BY <1>3
<1>5. Iterates(g, Acc, n, base, step)
  BY <1>4 DEF Iterates
<1> QED
  BY <1>5

\* A solution goes through a chain of accumulators, one index after the other.
LEMMA Chain ==
  ASSUME NEW Acc, NEW n, NEW base, NEW step, NEW g,
         Folds(Acc, n, base, step), Iterates(g, Acc, n, base, step)
  PROVE  \E P : IsChain(P, Acc, n, base, step) /\ P[n] = g[1 .. n]
<1> USE DEF Folds, Iterates
<1> DEFINE P == [k \in 0 .. n |-> g[1 .. k]]
           T == {k \in 0 .. n : P[k] \in Acc}
<1>1. P[0] = base
  <2>1. 1 .. 0 = {} /\ {} \in SUBSET (1 .. n) /\ 0 \in 0 .. n
    OBVIOUS
  <2>2. g[{}] = base
    BY <2>1
  <2> QED
    BY <2>1, <2>2
<1>2. ASSUME NEW k \in 1 .. n, P[k - 1] \in Acc PROVE P[k] = step[<<P[k - 1], k>>]
  <2>1. 1 .. k \in SUBSET (1 .. n) /\ 1 .. k # {} /\ k \in Nat
    OBVIOUS
  <2>2. Max(1 .. k) \in 1 .. k /\ \A x \in 1 .. k : x <= Max(1 .. k)
    BY <2>1, MaxUpTo
  <2>3. Max(1 .. k) = k
    BY <2>2
  <2>4. (1 .. k) \ {k} = 1 .. k - 1
    OBVIOUS
  <2>5. P[k - 1] = g[1 .. k - 1] /\ P[k] = g[1 .. k]
    OBVIOUS
  <2> QED
    BY <1>2, <2>1, <2>3, <2>4, <2>5
<1>3. \A k \in 0 .. n : k \in T
  <2>1. 0 \in T
    BY <1>1
  <2>2. ASSUME NEW k \in 0 .. n - 1, k \in T PROVE k + 1 \in T
    <3>1. k + 1 \in 1 .. n /\ P[k] \in Acc /\ k + 1 - 1 = k
      BY <2>2
    <3>2. P[k + 1] = step[<<P[k], k + 1>>]
      <4> DEFINE j == k + 1
      <4>1. j \in 1 .. n /\ P[j - 1] \in Acc /\ j - 1 = k
        BY <3>1
      <4> HIDE DEF j, P
      <4>2. P[j] = step[<<P[j - 1], j>>]
        BY <1>2, <4>1
      <4> QED
        BY <4>1, <4>2 DEF j
    <3>3. P[k + 1] \in Acc
      BY <3>1, <3>2
    <3> QED
      BY <3>1, <3>3
  <2> HIDE DEF T
  <2> QED
    BY <2>1, <2>2, UpTo
<1>4. \A k \in 0 .. n : P[k] \in Acc
  BY <1>3
<1>5. ASSUME NEW k \in 1 .. n PROVE P[k] = step[<<P[k - 1], k>>]
  <2>1. k - 1 \in 0 .. n
    OBVIOUS
  <2> HIDE DEF P
  <2>2. P[k - 1] \in Acc
    BY <1>4, <2>1
  <2> QED
    BY <1>2, <2>2
<1>6. P \in [0 .. n -> Acc] /\ P[n] = g[1 .. n]
  BY <1>4
<1> HIDE DEF P
<1>7. IsChain(P, Acc, n, base, step)
  BY <1>1, <1>5, <1>6 DEF IsChain
<1> QED
  BY <1>6, <1>7

\* The sum of a sequence of integers, and its partial sums.
Sigma(w) == FoldLeft(LAMBDA acc, x : acc + x, 0, w)

\* P is the sums of the first elements of w.
PartialSums(P, n, w) ==
  P \in [0 .. n -> Int] /\ P[0] = 0 /\ \A k \in 1 .. n : P[k] = P[k - 1] + w[k]

\* The sum of a sequence is the last of its partial sums.
LEMMA SigmaChain ==
  ASSUME NEW n \in Nat, NEW w \in [1 .. n -> Int]
  PROVE  \E P : PartialSums(P, n, w) /\ P[n] = Sigma(w)
<1> DEFINE Turn(g) == [s \in SUBSET (1 .. n) |->
                        IF s = {} THEN 0 ELSE g[s \ {Max(s)}] + w[Max(s)]]
           iter == CHOOSE g : g = Turn(g)
           step == [x \in Int \X (1 .. n) |-> x[1] + w[x[2]]]
<1>1. Sigma(w) = iter[1 .. n]
  <2>1. DOMAIN w = 1 .. n
    OBVIOUS
  <2> QED
    BY <2>1 DEF Sigma, FoldLeft, MapThenFoldSet
<1>f. Folds(Int, n, 0, step)
  BY DEF Folds
<1>2. step \in [Int \X (1 .. n) -> Int] /\ \A a \in Int, i \in 1 .. n : step[<<a, i>>] = a + w[i]
  OBVIOUS
<1>m. \A s \in SUBSET (1 .. n) : s # {} => Max(s) \in 1 .. n
  BY MaxUpTo
<1>3. \E g : g = Turn(g)
  <2> HIDE DEF step
  <2>1. PICK g : g \in [SUBSET (1 .. n) -> Int] /\ Iterates(g, Int, n, 0, step)
    BY <1>f, FoldExists
  <2>2. ASSUME NEW s \in SUBSET (1 .. n)
        PROVE  g[s] = IF s = {} THEN 0 ELSE g[s \ {Max(s)}] + w[Max(s)]
    <3>1. s \ {Max(s)} \in SUBSET (1 .. n)
      OBVIOUS
    <3>2. g[s \ {Max(s)}] \in Int
      BY <2>1, <3>1
    <3> QED
      BY <1>2, <1>m, <2>1, <3>2 DEF Iterates
  <2>3. g = Turn(g)
    BY <2>1, <2>2
  <2> HIDE DEF Turn
  <2> QED
    BY <2>3
<1>4. iter = Turn(iter)
  <2> HIDE DEF Turn
  <2> QED
    BY <1>3
<1>5. Iterates(iter, Int, n, 0, step)
  <2> HIDE DEF iter, step
  <2> QED
    BY <1>2, <1>4, <1>m DEF Iterates
<1> HIDE DEF iter, step
<1>6. PICK P : IsChain(P, Int, n, 0, step) /\ P[n] = iter[1 .. n]
  BY <1>f, <1>5, Chain
<1>7. ASSUME NEW k \in 1 .. n PROVE P[k] = P[k - 1] + w[k]
  <2>1. P[k - 1] \in Int
    BY <1>6 DEF IsChain
  <2> QED
    BY <1>2, <1>6, <2>1 DEF IsChain
<1> QED
  BY <1>1, <1>6, <1>7 DEF IsChain, PartialSums

\* Two sequences have the same partial sums as far as they agree.
LEMMA SameChain ==
  ASSUME NEW n \in Nat, NEW m \in Nat, n <= m, NEW P, NEW Q,
         NEW v \in [1 .. n -> Int], NEW w \in [1 .. m -> Int],
         \A k \in 1 .. n : v[k] = w[k], PartialSums(P, n, v), PartialSums(Q, m, w)
  PROVE  \A k \in 0 .. n : P[k] = Q[k]
<1> USE DEF PartialSums
<1> DEFINE T == {k \in 0 .. n : P[k] = Q[k]}
<1>1. 0 \in T
  OBVIOUS
<1>2. ASSUME NEW k \in 0 .. n - 1, k \in T PROVE k + 1 \in T
  <2>1. k + 1 \in 1 .. n /\ k + 1 \in 1 .. m /\ k + 1 - 1 = k /\ P[k] = Q[k]
    BY <1>2
  <2>2. P[k + 1] = P[k] + v[k + 1] /\ Q[k + 1] = Q[k] + w[k + 1] /\ v[k + 1] = w[k + 1]
    BY <2>1
  <2> QED
    BY <2>1, <2>2
<1>3. \A k \in 0 .. n : k \in T
  <2> HIDE DEF T
  <2> QED
    BY <1>1, <1>2, UpTo
<1> QED
  BY <1>3

\* The sum of a sequence of integers is an integer, that of the empty one 0.
LEMMA SigmaFacts ==
  ASSUME NEW n \in Nat, NEW w \in [1 .. n -> Int]
  PROVE  Sigma(w) \in Int /\ (n = 0 => Sigma(w) = 0)
<1>1. PICK P : PartialSums(P, n, w) /\ P[n] = Sigma(w)
  BY SigmaChain
<1> QED
  BY <1>1 DEF PartialSums

\* The sum of a sequence with one more element.
LEMMA SigmaOneMore ==
  ASSUME NEW n \in Nat, NEW v \in [1 .. n -> Int], NEW w \in [1 .. n + 1 -> Int],
         \A k \in 1 .. n : v[k] = w[k]
  PROVE  Sigma(w) = Sigma(v) + w[n + 1]
<1> DEFINE m == n + 1
<1>1. PICK P : PartialSums(P, n, v) /\ P[n] = Sigma(v)
  BY SigmaChain
<1>2. m \in Nat /\ n <= m /\ w \in [1 .. m -> Int]
  OBVIOUS
<1>5. m = n + 1 /\ m \in 1 .. m /\ m - 1 = n
  OBVIOUS
<1> HIDE DEF m
<1>3. PICK Q : PartialSums(Q, m, w) /\ Q[m] = Sigma(w)
  BY <1>2, SigmaChain
<1>4. P[n] = Q[n]
  <2>1. \A k \in 0 .. n : P[k] = Q[k]
    BY <1>1, <1>2, <1>3, SameChain
  <2> QED
    BY <2>1
<1>6. Q[m] = Q[n] + w[m]
  BY <1>3, <1>5 DEF PartialSums
<1> QED
  BY <1>1, <1>3, <1>4, <1>5, <1>6

\* Two step functions agree on the first n indices.
Agree(f, h, Acc, n) == \A a \in Acc, k \in 1 .. n : f[<<a, k>>] = h[<<a, k>>]

\* Two folds with the same steps up to n go through the same accumulators up to n.
LEMMA ChainsAgree ==
  ASSUME NEW Acc, NEW base, NEW n \in Nat, NEW m \in Nat, n <= m, NEW P, NEW Q, NEW f, NEW h,
         IsChain(P, Acc, n, base, f), IsChain(Q, Acc, m, base, h),
         Agree(f, h, Acc, n)
  PROVE  \A k \in 0 .. n : P[k] = Q[k]
<1> USE DEF IsChain, Agree
<1> DEFINE T == {k \in 0 .. n : P[k] = Q[k]}
<1>1. 0 \in T
  OBVIOUS
<1>2. ASSUME NEW k \in 0 .. n - 1, k \in T PROVE k + 1 \in T
  <2>1. k + 1 \in 1 .. n /\ k + 1 \in 1 .. m /\ k + 1 - 1 = k /\ P[k] = Q[k] /\ P[k] \in Acc
    BY <1>2
  <2>2. P[k + 1] = f[<<P[k], k + 1>>] /\ Q[k + 1] = h[<<Q[k], k + 1>>]
    BY <2>1
  <2> QED
    BY <2>1, <2>2
<1>3. \A k \in 0 .. n : k \in T
  <2> HIDE DEF T
  <2> QED
    BY <1>1, <1>2, UpTo
<1> QED
  BY <1>3

-----------------------------------------------------------------------------
(* Sums over sets. *)

\* Induction over a finite set: what holds of {}, and of a set as soon as it holds of
\* the set without any one of its elements, holds of every subset.
LEMMA Peeling ==
  ASSUME NEW S, IsFiniteSet(S), NEW T, {} \in T,
         \A s \in SUBSET S : s # {} /\ (\A x \in s : s \ {x} \in T) => s \in T
  PROVE  \A s \in SUBSET S : s \in T
<1> DEFINE N == {n \in Nat : \A s \in SUBSET S : Cardinality(s) = n => s \in T}
<1>1. \A s \in SUBSET S : IsFiniteSet(s) /\ Cardinality(s) \in Nat
  BY FS_Subset, FS_CardinalityType
<1>2. 0 \in N
  BY <1>1, FS_EmptySet
<1>3. ASSUME NEW n \in Nat, n \in N PROVE n + 1 \in N
  <2> SUFFICES ASSUME NEW s \in SUBSET S, Cardinality(s) = n + 1 PROVE s \in T
    OBVIOUS
  <2>1. s # {}
    <3>1. n + 1 # 0 /\ Cardinality({}) = 0
      BY FS_EmptySet
    <3> QED
      BY <3>1
  <2>2. ASSUME NEW x \in s PROVE s \ {x} \in T
    <3>1. Cardinality(s \ {x}) = Cardinality(s) - 1
      BY <1>1, FS_RemoveElement
    <3>2. Cardinality(s \ {x}) = n
      BY <3>1
    <3> QED
      BY <1>3, <3>2
  <2> QED
    BY <2>1, <2>2
<1>4. \A n \in Nat : n \in N
  <2> HIDE DEF N
  <2> QED
    BY <1>2, <1>3, AllNaturals
<1> QED
  BY <1>1, <1>4

\* g assigns to each subset of S the sum of the weights of its elements.
Additive(g, S, w) ==
  /\ g \in [SUBSET S -> Int]
  /\ g[{}] = 0
  /\ \A s \in SUBSET S : \A x \in s : g[s] = w[x] + g[s \ {x}]

\* There is an additive function on the subsets of a finite set of weights.
LEMMA AdditiveExists ==
  ASSUME NEW S, IsFiniteSet(S), NEW w, \A x \in S : w[x] \in Int
  PROVE  \E g : Additive(g, S, w)
<1> DEFINE T == {s \in SUBSET S : \E g : Additive(g, s, w)}
<1>1. {} \in T
  <2>1. Additive([s \in SUBSET {} |-> 0], {}, w)
    BY DEF Additive
  <2> QED
    BY <2>1
<1>2. ASSUME NEW s \in SUBSET S, s # {}, \A x \in s : s \ {x} \in T PROVE s \in T
  <2>1. PICK x \in s : TRUE
    BY <1>2
  <2>2. PICK g : Additive(g, s \ {x}, w)
    BY <1>2
  <2> DEFINE h == [u \in SUBSET s |-> IF x \in u THEN w[x] + g[u \ {x}] ELSE g[u]]
  <2>3. \A u \in SUBSET s : u \ {x} \in SUBSET (s \ {x}) /\ (x \notin u => u \in SUBSET (s \ {x}))
    OBVIOUS
  <2>4. \A u \in SUBSET (s \ {x}) : g[u] \in Int
    BY <2>2 DEF Additive
  <2>5. \A u \in SUBSET s : h[u] \in Int
    BY <2>3, <2>4
  <2>6. h[{}] = 0
    BY <2>2 DEF Additive
  <2>7. ASSUME NEW u \in SUBSET s, NEW y \in u PROVE h[u] = w[y] + h[u \ {y}]
    <3>1. w[x] \in Int /\ w[y] \in Int
      OBVIOUS
    <3>2. u \ {y} \in SUBSET s
      OBVIOUS
    <3>3. CASE x = y
      BY <2>3, <3>2, <3>3
    <3>4. CASE x # y /\ x \in u
      <4>1. h[u] = w[x] + g[u \ {x}] /\ h[u \ {y}] = w[x] + g[(u \ {y}) \ {x}]
        BY <3>2, <3>4
      <4>2. (u \ {y}) \ {x} = (u \ {x}) \ {y} /\ y \in u \ {x} /\ u \ {x} \in SUBSET (s \ {x})
        BY <3>4
      <4>3. g[u \ {x}] = w[y] + g[(u \ {x}) \ {y}]
        BY <2>2, <4>2 DEF Additive
      <4>4. g[(u \ {x}) \ {y}] \in Int
        BY <2>4, <4>2
      <4> HIDE DEF h
      <4>5. PICK rest \in Int : rest = g[(u \ {x}) \ {y}]
        BY <4>4
      <4>6. h[u] = w[x] + (w[y] + rest) /\ h[u \ {y}] = w[x] + rest
        BY <4>1, <4>2, <4>3, <4>5
      <4> QED
        BY <3>1, <4>5, <4>6
    <3>5. CASE x \notin u
      <4>1. h[u] = g[u] /\ h[u \ {y}] = g[u \ {y}] /\ u \in SUBSET (s \ {x})
        BY <2>3, <3>2, <3>5
      <4> QED
        BY <2>2, <4>1 DEF Additive
    <3> QED
      BY <3>3, <3>4, <3>5
  <2>8. h \in [SUBSET s -> Int]
    BY <2>5
  <2> HIDE DEF h
  <2>9. Additive(h, s, w)
    BY <2>6, <2>7, <2>8 DEF Additive
  <2> QED
    BY <2>9
<1>3. \A s \in SUBSET S : s \in T
  <2> HIDE DEF T
  <2> QED
    BY <1>1, <1>2, Peeling
<1> QED
  BY <1>3

\* There is only one, as far as the weights agree.
LEMMA AdditiveUnique ==
  ASSUME NEW S, IsFiniteSet(S), NEW R, NEW v, NEW w, NEW g, NEW h,
         S \subseteq R, \A x \in S : v[x] = w[x],
         Additive(g, S, v), Additive(h, R, w)
  PROVE  \A s \in SUBSET S : g[s] = h[s]
<1> DEFINE T == {s \in SUBSET S : g[s] = h[s]}
<1>1. {} \in T
  BY DEF Additive
<1>2. ASSUME NEW s \in SUBSET S, s # {}, \A x \in s : s \ {x} \in T PROVE s \in T
  <2>1. PICK x \in s : TRUE
    BY <1>2
  <2>2. g[s \ {x}] = h[s \ {x}] /\ s \in SUBSET R /\ v[x] = w[x]
    BY <1>2
  <2>3. g[s] = v[x] + g[s \ {x}] /\ h[s] = w[x] + h[s \ {x}]
    BY <2>2 DEF Additive
  <2> QED
    BY <2>2, <2>3
<1>3. \A s \in SUBSET S : s \in T
  <2> HIDE DEF T
  <2> QED
    BY <1>1, <1>2, Peeling
<1> QED
  BY <1>3

\* The sum of the weights of the elements of S.
SumOver(w, S) == MapThenSumSet(LAMBDA x : w[x], S)

\* The sum over a set, whatever order its elements are taken in, is that function.
LEMMA SumIsAdditive ==
  ASSUME NEW S, IsFiniteSet(S), NEW w, \A x \in S : w[x] \in Int
  PROVE  \E g : Additive(g, S, w) /\ g[S] = SumOver(w, S)
<1> DEFINE Turn(g) == [s \in SUBSET S |->
                        IF s = {} THEN 0
                        ELSE w[CHOOSE x \in s : TRUE] + g[s \ {CHOOSE x \in s : TRUE}]]
           iter == CHOOSE g : g = Turn(g)
           T == {s \in SUBSET S : TRUE}
<1>1. SumOver(w, S) = iter[S]
  BY DEF SumOver, MapThenSumSet, MapThenFoldSet
<1>2. PICK g : Additive(g, S, w)
  BY AdditiveExists
<1>3. \A s \in SUBSET S : s # {} => (CHOOSE x \in s : TRUE) \in s
  OBVIOUS
<1>4. g = Turn(g)
  <2>1. \A s \in SUBSET S : g[s] = Turn(g)[s]
    BY <1>2, <1>3 DEF Additive
  <2>2. g \in [SUBSET S -> Int]
    BY <1>2 DEF Additive
  <2>3. g = [s \in SUBSET S |-> g[s]]
    BY <2>2
  <2> QED
    BY <2>1, <2>3
<1>5. iter = Turn(iter)
  <2> HIDE DEF Turn
  <2> QED
    BY <1>4
<1> HIDE DEF iter
<1>6. \A s \in SUBSET S : iter[s] = g[s]
  <2> DEFINE U == {s \in SUBSET S : iter[s] = g[s]}
  <2>1. {} \in U
    BY <1>2, <1>5 DEF Additive
  <2>2. ASSUME NEW s \in SUBSET S, s # {}, \A x \in s : s \ {x} \in U PROVE s \in U
    <3>1. PICK x \in s : x = CHOOSE y \in s : TRUE
      BY <1>3, <2>2
    <3>2. iter[s] = w[x] + iter[s \ {x}]
      BY <1>5, <2>2, <3>1
    <3>3. g[s] = w[x] + g[s \ {x}]
      BY <1>2 DEF Additive
    <3> QED
      BY <2>2, <3>2, <3>3
  <2>3. \A s \in SUBSET S : s \in U
    <3> HIDE DEF U
    <3> QED
      BY <2>1, <2>2, Peeling
  <2> QED
    BY <2>3
<1> QED
  BY <1>1, <1>2, <1>6

\* The sums over the subsets of S are integers, 0 for {}, and differ by the weight of the
\* element that is taken away.
SumsFrom(S, w) ==
  /\ \A s \in SUBSET S : SumOver(w, s) \in Int
  /\ SumOver(w, {}) = 0
  /\ \A s \in SUBSET S : \A x \in s : SumOver(w, s) = w[x] + SumOver(w, s \ {x})

\* The sums over all subsets of one set fit together.
LEMMA SetSum ==
  ASSUME NEW S, IsFiniteSet(S), NEW w, \A x \in S : w[x] \in Int
  PROVE  SumsFrom(S, w)
<1>1. PICK g : Additive(g, S, w)
  BY AdditiveExists
<1>2. ASSUME NEW s \in SUBSET S PROVE SumOver(w, s) = g[s]
  <2>1. IsFiniteSet(s) /\ \A x \in s : w[x] \in Int
    BY FS_Subset
  <2>2. PICK h : Additive(h, s, w) /\ h[s] = SumOver(w, s)
    BY <2>1, SumIsAdditive
  <2>3. \A u \in SUBSET s : h[u] = g[u]
    BY <1>1, <2>1, <2>2, AdditiveUnique
  <2> QED
    BY <2>2, <2>3
<1>3. \A s \in SUBSET S : SumOver(w, s) \in Int
  BY <1>1, <1>2 DEF Additive
<1>4. SumOver(w, {}) = 0
  BY <1>1, <1>2 DEF Additive
<1>5. ASSUME NEW s \in SUBSET S, NEW x \in s
      PROVE  SumOver(w, s) = w[x] + SumOver(w, s \ {x})
  <2>1. s \ {x} \in SUBSET S
    OBVIOUS
  <2>2. g[s] = w[x] + g[s \ {x}]
    BY <1>1 DEF Additive
  <2> QED
    BY <1>2, <2>1, <2>2
<1> QED
  BY <1>3, <1>4, <1>5 DEF SumsFrom

\* The sum over a set with one more element.
LEMMA SumAddOne ==
  ASSUME NEW S, IsFiniteSet(S), NEW x, x \notin S, NEW w, \A y \in S \union {x} : w[y] \in Int
  PROVE  SumOver(w, S \union {x}) = SumOver(w, S) + w[x] /\ SumOver(w, S) \in Int
<1>1. IsFiniteSet(S \union {x})
  BY FS_AddElement
<1>2. SumsFrom(S \union {x}, w)
  BY <1>1, SetSum
<1>3. (S \union {x}) \ {x} = S /\ S \in SUBSET (S \union {x})
  OBVIOUS
<1>4. SumOver(w, S \union {x}) = w[x] + SumOver(w, S) /\ SumOver(w, S) \in Int /\ w[x] \in Int
  BY <1>2, <1>3 DEF SumsFrom
<1> QED
  BY <1>4

\* Sums of the same weights are the same.
LEMMA SumSame ==
  ASSUME NEW S, IsFiniteSet(S), NEW v, NEW w,
         \A x \in S : v[x] \in Int /\ w[x] = v[x]
  PROVE  SumOver(w, S) = SumOver(v, S) /\ SumOver(v, S) \in Int
<1>1. PICK g : Additive(g, S, v) /\ g[S] = SumOver(v, S)
  BY SumIsAdditive
<1>2. PICK h : Additive(h, S, w) /\ h[S] = SumOver(w, S)
  BY SumIsAdditive
<1>3. \A s \in SUBSET S : g[s] = h[s]
  BY <1>1, <1>2, AdditiveUnique
<1> QED
  BY <1>1, <1>2, <1>3 DEF Additive

\* What a change of one weight does to the sum.
LEMMA SumChangeOne ==
  ASSUME NEW S, IsFiniteSet(S), NEW x \in S, NEW v, NEW w, w[x] \in Int,
         \A y \in S : v[y] \in Int, \A y \in S \ {x} : w[y] = v[y]
  PROVE  SumOver(w, S) = SumOver(v, S) + (w[x] - v[x]) /\ SumOver(v, S) \in Int
<1>1. IsFiniteSet(S \ {x}) /\ (S \ {x}) \union {x} = S /\ x \notin S \ {x}
  BY FS_RemoveElement
<1>2. /\ SumOver(v, S) = SumOver(v, S \ {x}) + v[x]
      /\ SumOver(v, S \ {x}) \in Int
  <2> DEFINE R == S \ {x}
  <2>1. IsFiniteSet(R) /\ x \notin R /\ R \union {x} = S /\ \A y \in R \union {x} : v[y] \in Int
    BY <1>1
  <2> HIDE DEF R
  <2>2. SumOver(v, R \union {x}) = SumOver(v, R) + v[x] /\ SumOver(v, R) \in Int
    BY <2>1, SumAddOne
  <2> QED
    BY <2>1, <2>2 DEF R
<1>3. SumOver(w, S) = SumOver(w, S \ {x}) + w[x]
  <2> DEFINE R == S \ {x}
  <2>1. IsFiniteSet(R) /\ x \notin R /\ R \union {x} = S /\ \A y \in R \union {x} : w[y] \in Int
    BY <1>1
  <2> HIDE DEF R
  <2>2. SumOver(w, R \union {x}) = SumOver(w, R) + w[x]
    BY <2>1, SumAddOne
  <2> QED
    BY <2>1, <2>2 DEF R
<1>4. SumOver(w, S \ {x}) = SumOver(v, S \ {x})
  BY <1>1, SumSame
<1>5. PICK rest \in Int, old \in Int, new \in Int :
        rest = SumOver(v, S \ {x}) /\ old = v[x] /\ new = w[x]
  BY <1>2
<1>6. SumOver(v, S) = rest + old /\ SumOver(w, S) = rest + new
  BY <1>2, <1>3, <1>4, <1>5
<1>7. rest + new = (rest + old) + (new - old) /\ rest + old \in Int
  OBVIOUS
<1> QED
  BY <1>5, <1>6, <1>7

\* The sum of zeroes.
LEMMA SumZero ==
  ASSUME NEW S, IsFiniteSet(S), NEW w, \A x \in S : w[x] = 0
  PROVE  SumOver(w, S) = 0
<1> DEFINE T == {s \in SUBSET S : SumOver(w, s) = 0}
<1>1. SumsFrom(S, w)
  BY SetSum
<1>2. {} \in T
  BY <1>1 DEF SumsFrom
<1>3. ASSUME NEW s \in SUBSET S, s # {}, \A x \in s : s \ {x} \in T PROVE s \in T
  <2>1. PICK x \in s : TRUE
    BY <1>3
  <2>2. SumOver(w, s) = w[x] + SumOver(w, s \ {x})
    BY <1>1 DEF SumsFrom
  <2> QED
    BY <1>3, <2>2
<1>4. \A s \in SUBSET S : s \in T
  <2> HIDE DEF T
  <2> QED
    BY <1>2, <1>3, Peeling
<1> QED
  BY <1>4

\* The sum over a disjoint union.
LEMMA SumUnion ==
  ASSUME NEW R, NEW S, IsFiniteSet(R), IsFiniteSet(S), R \intersect S = {},
         NEW w, \A x \in R \union S : w[x] \in Int
  PROVE  /\ SumOver(w, R \union S) = SumOver(w, R) + SumOver(w, S)
         /\ SumOver(w, R) \in Int /\ SumOver(w, S) \in Int
<1> DEFINE T == {s \in SUBSET S : SumOver(w, R \union s) = SumOver(w, R) + SumOver(w, s)}
<1>1. IsFiniteSet(R \union S)
  BY FS_Union
<1>2. SumsFrom(R \union S, w)
  BY <1>1, SetSum
<1>3. \A s \in SUBSET (R \union S) : SumOver(w, s) \in Int
  BY <1>2 DEF SumsFrom
<1>4. {} \in T
  <2>1. R \union {} = R /\ SumOver(w, {}) = 0 /\ SumOver(w, R) \in Int
    BY <1>2, <1>3 DEF SumsFrom
  <2> QED
    BY <2>1
<1>5. ASSUME NEW s \in SUBSET S, s # {}, \A x \in s : s \ {x} \in T PROVE s \in T
  <2>1. PICK x \in s : TRUE
    BY <1>5
  <2>2. SumOver(w, R \union (s \ {x})) = SumOver(w, R) + SumOver(w, s \ {x})
    BY <1>5
  <2>3. (R \union s) \ {x} = R \union (s \ {x}) /\ x \in R \union s
    OBVIOUS
  <2>4. /\ SumOver(w, R \union s) = w[x] + SumOver(w, (R \union s) \ {x})
        /\ SumOver(w, s) = w[x] + SumOver(w, s \ {x})
    <3>1. R \union s \in SUBSET (R \union S) /\ s \in SUBSET (R \union S)
      OBVIOUS
    <3> QED
      BY <1>2, <2>3, <3>1 DEF SumsFrom
  <2>5. PICK a \in Int, b \in Int, c \in Int :
          a = w[x] /\ b = SumOver(w, R) /\ c = SumOver(w, s \ {x})
    BY <1>3
  <2>6. SumOver(w, R \union s) = a + (b + c) /\ SumOver(w, s) = a + c
    BY <2>2, <2>3, <2>4, <2>5
  <2> QED
    BY <2>5, <2>6
<1>6. \A s \in SUBSET S : s \in T
  <2> HIDE DEF T
  <2> QED
    BY <1>4, <1>5, Peeling
<1> QED
  BY <1>3, <1>6

\* A sum of naturals over a part is at most the sum over the whole.
LEMMA SumMonotone ==
  ASSUME NEW S, IsFiniteSet(S), NEW R \in SUBSET S, NEW w, \A x \in S : w[x] \in Nat
  PROVE  SumOver(w, R) <= SumOver(w, S) /\ SumOver(w, R) \in Nat /\ SumOver(w, S) \in Nat
<1> DEFINE T == {s \in SUBSET S : SumOver(w, s) \in Nat}
<1>1. SumsFrom(S, w)
  BY SetSum
<1>2. {} \in T
  BY <1>1 DEF SumsFrom
<1>3. ASSUME NEW s \in SUBSET S, s # {}, \A x \in s : s \ {x} \in T PROVE s \in T
  <2>1. PICK x \in s : TRUE
    BY <1>3
  <2>2. SumOver(w, s) = w[x] + SumOver(w, s \ {x})
    BY <1>1 DEF SumsFrom
  <2> QED
    BY <1>3, <2>2
<1>4. \A s \in SUBSET S : s \in T
  <2> HIDE DEF T
  <2> QED
    BY <1>2, <1>3, Peeling
<1>5. \A s \in SUBSET S : SumOver(w, s) \in Nat
  BY <1>4
<1> DEFINE Rest == S \ R
<1>6. /\ IsFiniteSet(R) /\ IsFiniteSet(Rest) /\ R \intersect Rest = {} /\ R \union Rest = S
      /\ Rest \in SUBSET S /\ \A x \in R \union Rest : w[x] \in Int
  BY FS_Subset
<1> HIDE DEF Rest
<1>7. SumOver(w, R \union Rest) = SumOver(w, R) + SumOver(w, Rest)
  BY <1>6, SumUnion
<1> QED
  BY <1>5, <1>6, <1>7

\* Each weight of u is the sum of those of v and w.
AddUpTo(u, v, w, S) == \A x \in S : v[x] \in Int /\ w[x] \in Int /\ u[x] = v[x] + w[x]

\* The sum of sums.
LEMMA SumLinear ==
  ASSUME NEW S, IsFiniteSet(S), NEW u, NEW v, NEW w, AddUpTo(u, v, w, S)
  PROVE  /\ SumOver(u, S) = SumOver(v, S) + SumOver(w, S)
         /\ SumOver(v, S) \in Int /\ SumOver(w, S) \in Int
<1> USE DEF AddUpTo
<1> DEFINE T == {s \in SUBSET S : SumOver(u, s) = SumOver(v, s) + SumOver(w, s)}
<1>1. SumsFrom(S, u) /\ SumsFrom(S, v) /\ SumsFrom(S, w)
  <2>1. \A x \in S : u[x] \in Int
    OBVIOUS
  <2> QED
    BY <2>1, SetSum
<1>2. {} \in T
  BY <1>1 DEF SumsFrom
<1>3. ASSUME NEW s \in SUBSET S, s # {}, \A x \in s : s \ {x} \in T PROVE s \in T
  <2>1. PICK x \in s : TRUE
    BY <1>3
  <2>2. /\ SumOver(u, s) = u[x] + SumOver(u, s \ {x})
        /\ SumOver(v, s) = v[x] + SumOver(v, s \ {x})
        /\ SumOver(w, s) = w[x] + SumOver(w, s \ {x})
    BY <1>1 DEF SumsFrom
  <2>3. PICK a \in Int, b \in Int, c \in Int, d \in Int :
          a = v[x] /\ b = w[x] /\ c = SumOver(v, s \ {x}) /\ d = SumOver(w, s \ {x})
    <3>1. s \ {x} \in SUBSET S
      OBVIOUS
    <3> QED
      BY <1>1, <3>1 DEF SumsFrom
  <2>4. SumOver(u, s \ {x}) = c + d /\ u[x] = a + b
    BY <1>3, <2>3
  <2>5. SumOver(u, s) = (a + b) + (c + d) /\ SumOver(v, s) = a + c /\ SumOver(w, s) = b + d
    BY <2>2, <2>3, <2>4
  <2> QED
    BY <2>3, <2>5
<1>4. \A s \in SUBSET S : s \in T
  <2> HIDE DEF T
  <2> QED
    BY <1>2, <1>3, Peeling
<1> QED
  BY <1>1, <1>4 DEF SumsFrom

\* A sum to which only a part contributes.
LEMMA SumOfPart ==
  ASSUME NEW S, IsFiniteSet(S), NEW R \in SUBSET S, NEW v, NEW w,
         \A x \in R : v[x] \in Int /\ w[x] = v[x], \A x \in S \ R : w[x] = 0
  PROVE  SumOver(w, S) = SumOver(v, R) /\ SumOver(v, R) \in Int
<1> DEFINE Rest == S \ R
<1>1. /\ IsFiniteSet(R) /\ IsFiniteSet(Rest) /\ R \intersect Rest = {} /\ R \union Rest = S
      /\ \A x \in R \union Rest : w[x] \in Int
      /\ \A x \in Rest : w[x] = 0
  BY FS_Subset
<1> HIDE DEF Rest
<1>2. SumOver(w, S) = SumOver(w, R) + SumOver(w, Rest)
  BY <1>1, SumUnion
<1>3. SumOver(w, R) = SumOver(v, R) /\ SumOver(v, R) \in Int
  BY <1>1, SumSame
<1>4. SumOver(w, Rest) = 0
  BY <1>1, SumZero
<1>5. SumOver(v, R) + 0 = SumOver(v, R)
  BY <1>3
<1> QED
  BY <1>2, <1>3, <1>4, <1>5

\* Weights that count for one part, against another, and not at all elsewhere.
Signed(w, v, For, Against, S) ==
  /\ For \in SUBSET S /\ Against \in SUBSET S /\ For \intersect Against = {}
  /\ \A x \in S : v[x] \in Int
  /\ \A x \in For : w[x] = v[x]
  /\ \A x \in Against : w[x] = -v[x]
  /\ \A x \in S \ (For \union Against) : w[x] = 0

\* Their sum is the difference of the two parts.
LEMMA SumSigned ==
  ASSUME NEW S, IsFiniteSet(S), NEW For, NEW Against, NEW v, NEW w, Signed(w, v, For, Against, S)
  PROVE  /\ SumOver(w, S) = SumOver(v, For) - SumOver(v, Against)
         /\ SumOver(v, For) \in Int /\ SumOver(v, Against) \in Int
<1> DEFINE up   == [x \in S |-> IF x \in For THEN v[x] ELSE 0]
           down == [x \in S |-> IF x \in Against THEN v[x] ELSE 0]
<1>1. /\ \A x \in For : v[x] \in Int /\ up[x] = v[x]
      /\ \A x \in S \ For : up[x] = 0
      /\ \A x \in Against : v[x] \in Int /\ down[x] = v[x]
      /\ \A x \in S \ Against : down[x] = 0
  BY DEF Signed
<1>2. AddUpTo(up, w, down, S)
  <2> SUFFICES ASSUME NEW x \in S
               PROVE  w[x] \in Int /\ down[x] \in Int /\ up[x] = w[x] + down[x]
    BY DEF AddUpTo
  <2>1. PICK n \in Int : n = v[x]
    BY DEF Signed
  <2>2. CASE x \in For
    <3>1. up[x] = n /\ w[x] = n /\ down[x] = 0
      BY <2>1, <2>2 DEF Signed
    <3> QED
      BY <3>1
  <2>3. CASE x \in Against
    <3>1. up[x] = 0 /\ w[x] = -n /\ down[x] = n
      BY <2>1, <2>3 DEF Signed
    <3> QED
      BY <3>1
  <2>4. CASE x \notin For /\ x \notin Against
    <3>1. up[x] = 0 /\ w[x] = 0 /\ down[x] = 0
      BY <2>4 DEF Signed
    <3> QED
      BY <3>1
  <2> QED
    BY <2>2, <2>3, <2>4
<1> HIDE DEF up, down
<1>3. SumOver(up, S) = SumOver(v, For) /\ SumOver(v, For) \in Int
  BY <1>1, SumOfPart DEF Signed
<1>4. SumOver(down, S) = SumOver(v, Against) /\ SumOver(v, Against) \in Int
  BY <1>1, SumOfPart DEF Signed
<1>5. SumOver(up, S) = SumOver(w, S) + SumOver(down, S) /\ SumOver(w, S) \in Int
  BY <1>2, SumLinear
<1> QED
  BY <1>3, <1>4, <1>5

-----------------------------------------------------------------------------
(* Sums over lots. *)

\* TotalOf as the sum of a sequence of integers.
LEMMA TotalIsSigma ==
  ASSUME NEW n \in Nat, NEW lots, DOMAIN lots = 1 .. n
  PROVE  TotalOf(lots) = Sigma([i \in 1 .. n |-> lots[i].quantity])
<1> DEFINE w == [i \in 1 .. n |-> lots[i].quantity]
           TurnA(g) == [s \in SUBSET DOMAIN lots |->
                          IF s = {} THEN 0 ELSE g[s \ {Max(s)}] + lots[Max(s)].quantity]
           TurnB(g) == [s \in SUBSET DOMAIN w |->
                          IF s = {} THEN 0 ELSE g[s \ {Max(s)}] + w[Max(s)]]
<1>1. \A s \in SUBSET (1 .. n) : s # {} => Max(s) \in 1 .. n
  BY MaxUpTo
<1>2. \A g : TurnA(g) = TurnB(g)
  BY <1>1
<1>3. TotalOf(lots) = (CHOOSE g : g = TurnA(g))[DOMAIN lots]
  BY DEF TotalOf, LotQuantity, SumOf, FoldLeft, MapThenFoldSet
<1>4. Sigma(w) = (CHOOSE g : g = TurnB(g))[DOMAIN w]
  BY DEF Sigma, FoldLeft, MapThenFoldSet
<1>5. DOMAIN lots = DOMAIN w
  OBVIOUS
<1> HIDE DEF TurnA, TurnB
<1>6. (CHOOSE g : g = TurnA(g)) = (CHOOSE g : g = TurnB(g))
  BY <1>2
<1> QED
  BY <1>3, <1>4, <1>5, <1>6

\* CostOf as the sum of a sequence of integers.
LEMMA CostIsSigma ==
  ASSUME NEW n \in Nat, NEW lots, DOMAIN lots = 1 .. n
  PROVE  CostOf(lots) = Sigma([i \in 1 .. n |-> lots[i].quantity * lots[i].cost_per_unit])
<1> DEFINE w == [i \in 1 .. n |-> lots[i].quantity * lots[i].cost_per_unit]
           TurnA(g) == [s \in SUBSET DOMAIN lots |->
                          IF s = {} THEN 0
                          ELSE g[s \ {Max(s)}]
                                 + lots[Max(s)].quantity * lots[Max(s)].cost_per_unit]
           TurnB(g) == [s \in SUBSET DOMAIN w |->
                          IF s = {} THEN 0 ELSE g[s \ {Max(s)}] + w[Max(s)]]
<1>1. \A s \in SUBSET (1 .. n) : s # {} => Max(s) \in 1 .. n
  BY MaxUpTo
<1>2. \A g : TurnA(g) = TurnB(g)
  BY <1>1
<1>3. CostOf(lots) = (CHOOSE g : g = TurnA(g))[DOMAIN lots]
  BY DEF CostOf, LotCost, SumOf, FoldLeft, MapThenFoldSet
<1>4. Sigma(w) = (CHOOSE g : g = TurnB(g))[DOMAIN w]
  BY DEF Sigma, FoldLeft, MapThenFoldSet
<1>5. DOMAIN lots = DOMAIN w
  OBVIOUS
<1> HIDE DEF TurnA, TurnB
<1>6. (CHOOSE g : g = TurnA(g)) = (CHOOSE g : g = TurnB(g))
  BY <1>2
<1> QED
  BY <1>3, <1>4, <1>5, <1>6

\* RealizedPnl as the sum of a sequence of integers.
LEMMA PnlIsSigma ==
  ASSUME NEW n \in Nat, NEW matches, DOMAIN matches = 1 .. n
  PROVE  RealizedPnl(matches)
           = Sigma([i \in 1 .. n |-> matches[i].proceeds - matches[i].cost_basis])
<1> DEFINE w == [i \in 1 .. n |-> matches[i].proceeds - matches[i].cost_basis]
           TurnA(g) == [s \in SUBSET DOMAIN matches |->
                          IF s = {} THEN 0
                          ELSE g[s \ {Max(s)}]
                                 + (matches[Max(s)].proceeds - matches[Max(s)].cost_basis)]
           TurnB(g) == [s \in SUBSET DOMAIN w |->
                          IF s = {} THEN 0 ELSE g[s \ {Max(s)}] + w[Max(s)]]
<1>1. \A s \in SUBSET (1 .. n) : s # {} => Max(s) \in 1 .. n
  BY MaxUpTo
<1>2. \A g : TurnA(g) = TurnB(g)
  BY <1>1
<1>3. RealizedPnl(matches) = (CHOOSE g : g = TurnA(g))[DOMAIN matches]
  BY DEF RealizedPnl, RealizedBy, SumOf, FoldLeft, MapThenFoldSet
<1>4. Sigma(w) = (CHOOSE g : g = TurnB(g))[DOMAIN w]
  BY DEF Sigma, FoldLeft, MapThenFoldSet
<1>5. DOMAIN matches = DOMAIN w
  OBVIOUS
<1> HIDE DEF TurnA, TurnB
<1>6. (CHOOSE g : g = TurnA(g)) = (CHOOSE g : g = TurnB(g))
  BY <1>2
<1> QED
  BY <1>3, <1>4, <1>5, <1>6

\* The units of a queue, and of a queue with one more lot (add_lot).
LEMMA TotalOfLots ==
  ASSUME NEW lots \in Seq(Lot)
  PROVE  /\ TotalOf(lots) \in Int
         /\ lots = << >> => TotalOf(lots) = 0
         /\ \A x \in Lot : TotalOf(Append(lots, x)) = TotalOf(lots) + (x.quantity)
<1> DEFINE n == Len(lots)
           v == [i \in 1 .. n |-> lots[i].quantity]
<1>1. n \in Nat /\ DOMAIN lots = 1 .. n /\ \A i \in 1 .. n : lots[i] \in Lot
  OBVIOUS
<1>2. v \in [1 .. n -> Int]
  BY <1>1 DEF Lot
<1>3. TotalOf(lots) = Sigma(v)
  BY <1>1, TotalIsSigma
<1>4. TotalOf(lots) \in Int /\ (lots = << >> => TotalOf(lots) = 0)
  <2>1. lots = << >> => n = 0
    OBVIOUS
  <2> HIDE DEF v, n
  <2> QED
    BY <1>1, <1>2, <1>3, <2>1, SigmaFacts
<1>5. ASSUME NEW x \in Lot
      PROVE  TotalOf(Append(lots, x)) = TotalOf(lots) + (x.quantity)
  <2> DEFINE more == Append(lots, x)
             w == [i \in 1 .. n + 1 |-> more[i].quantity]
  <2>1. /\ DOMAIN more = 1 .. n + 1 /\ more[n + 1] = x
        /\ \A i \in 1 .. n : more[i] = lots[i]
        /\ \A i \in 1 .. n + 1 : more[i] \in Lot
    BY <1>1
  <2>2. n + 1 \in Nat /\ n + 1 \in 1 .. n + 1 /\ \A i \in 1 .. n : i \in 1 .. n + 1
    BY <1>1
  <2> HIDE DEF n, more
  <2>3. w \in [1 .. n + 1 -> Int]
    BY <2>1 DEF Lot
  <2>4. \A i \in 1 .. n : v[i] = w[i]
    BY <2>1, <2>2
  <2>5. w[n + 1] = x.quantity
    BY <2>1, <2>2
  <2>6. TotalOf(more) = Sigma(w)
    BY <2>1, <2>2, TotalIsSigma
  <2> HIDE DEF v, w
  <2>7. Sigma(w) = Sigma(v) + w[n + 1]
    BY <1>1, <1>2, <2>3, <2>4, SigmaOneMore
  <2> QED
    BY <1>3, <2>5, <2>6, <2>7 DEF more
<1> QED
  BY <1>4, <1>5

\* The cost of a queue, and of a queue with one more lot (add_lot).
LEMMA CostOfLots ==
  ASSUME NEW lots \in Seq(Lot)
  PROVE  /\ CostOf(lots) \in Int
         /\ lots = << >> => CostOf(lots) = 0
         /\ \A x \in Lot : CostOf(Append(lots, x)) = CostOf(lots) + (x.quantity * x.cost_per_unit)
<1> DEFINE n == Len(lots)
           v == [i \in 1 .. n |-> lots[i].quantity * lots[i].cost_per_unit]
<1>1. n \in Nat /\ DOMAIN lots = 1 .. n /\ \A i \in 1 .. n : lots[i] \in Lot
  OBVIOUS
<1>2. v \in [1 .. n -> Int]
  BY <1>1 DEF Lot
<1>3. CostOf(lots) = Sigma(v)
  BY <1>1, CostIsSigma
<1>4. CostOf(lots) \in Int /\ (lots = << >> => CostOf(lots) = 0)
  <2>1. lots = << >> => n = 0
    OBVIOUS
  <2> HIDE DEF v, n
  <2> QED
    BY <1>1, <1>2, <1>3, <2>1, SigmaFacts
<1>5. ASSUME NEW x \in Lot
      PROVE  CostOf(Append(lots, x)) = CostOf(lots) + (x.quantity * x.cost_per_unit)
  <2> DEFINE more == Append(lots, x)
             w == [i \in 1 .. n + 1 |-> more[i].quantity * more[i].cost_per_unit]
  <2>1. /\ DOMAIN more = 1 .. n + 1 /\ more[n + 1] = x
        /\ \A i \in 1 .. n : more[i] = lots[i]
        /\ \A i \in 1 .. n + 1 : more[i] \in Lot
    BY <1>1
  <2>2. n + 1 \in Nat /\ n + 1 \in 1 .. n + 1 /\ \A i \in 1 .. n : i \in 1 .. n + 1
    BY <1>1
  <2> HIDE DEF n, more
  <2>3. w \in [1 .. n + 1 -> Int]
    BY <2>1 DEF Lot
  <2>4. \A i \in 1 .. n : v[i] = w[i]
    BY <2>1, <2>2
  <2>5. w[n + 1] = x.quantity * x.cost_per_unit
    BY <2>1, <2>2
  <2>6. CostOf(more) = Sigma(w)
    BY <2>1, <2>2, CostIsSigma
  <2> HIDE DEF v, w
  <2>7. Sigma(w) = Sigma(v) + w[n + 1]
    BY <1>1, <1>2, <2>3, <2>4, SigmaOneMore
  <2> QED
    BY <1>3, <2>5, <2>6, <2>7 DEF more
<1> QED
  BY <1>4, <1>5

\* RealizedPnL: one match of a sell with a lot.
Match == [quantity : Nat, cost_basis : Nat, proceeds : Nat]

\* What the matches of a sell realize, and what they do with one more.
LEMMA PnlOfMatches ==
  ASSUME NEW matches \in Seq(Match)
  PROVE  /\ RealizedPnl(matches) \in Int
         /\ matches = << >> => RealizedPnl(matches) = 0
         /\ \A x \in Match : RealizedPnl(Append(matches, x))
                               = RealizedPnl(matches) + (x.proceeds - x.cost_basis)
<1> DEFINE n == Len(matches)
           v == [i \in 1 .. n |-> matches[i].proceeds - matches[i].cost_basis]
<1>1. n \in Nat /\ DOMAIN matches = 1 .. n /\ \A i \in 1 .. n : matches[i] \in Match
  OBVIOUS
<1>2. v \in [1 .. n -> Int]
  BY <1>1 DEF Match
<1>3. RealizedPnl(matches) = Sigma(v)
  BY <1>1, PnlIsSigma
<1>4. RealizedPnl(matches) \in Int /\ (matches = << >> => RealizedPnl(matches) = 0)
  <2>1. matches = << >> => n = 0
    OBVIOUS
  <2> HIDE DEF v, n
  <2> QED
    BY <1>1, <1>2, <1>3, <2>1, SigmaFacts
<1>5. ASSUME NEW x \in Match
      PROVE  RealizedPnl(Append(matches, x)) = RealizedPnl(matches) + (x.proceeds - x.cost_basis)
  <2> DEFINE more == Append(matches, x)
             w == [i \in 1 .. n + 1 |-> more[i].proceeds - more[i].cost_basis]
  <2>1. /\ DOMAIN more = 1 .. n + 1 /\ more[n + 1] = x
        /\ \A i \in 1 .. n : more[i] = matches[i]
        /\ \A i \in 1 .. n + 1 : more[i] \in Match
    BY <1>1
  <2>2. n + 1 \in Nat /\ n + 1 \in 1 .. n + 1 /\ \A i \in 1 .. n : i \in 1 .. n + 1
    BY <1>1
  <2> HIDE DEF n, more
  <2>3. w \in [1 .. n + 1 -> Int]
    BY <2>1 DEF Match
  <2>4. \A i \in 1 .. n : v[i] = w[i]
    BY <2>1, <2>2
  <2>5. w[n + 1] = x.proceeds - x.cost_basis
    BY <2>1, <2>2
  <2>6. RealizedPnl(more) = Sigma(w)
    BY <2>1, <2>2, PnlIsSigma
  <2> HIDE DEF v, w
  <2>7. Sigma(w) = Sigma(v) + w[n + 1]
    BY <1>1, <1>2, <2>3, <2>4, SigmaOneMore
  <2> QED
    BY <1>3, <2>5, <2>6, <2>7 DEF more
<1> QED
  BY <1>4, <1>5

\* What consume_fifo has in hand between two turns.
Sale  == [left : Nat, lots : Seq(Lot), matches : Seq(Match)]
\* Before the first turn.
Begun(q) == [left |-> q, lots |-> << >>, matches |-> << >>]
\* The turns of consume_fifo over a queue.
TurnOf(lots, price) ==
  [x \in Sale \X (1 .. Len(lots)) |-> ConsumeLot(price, x[1], lots[x[2]])]

\* One turn of consume_fifo makes a sale of a sale: no lot without units is kept.
LEMMA ConsumeLotType ==
  ASSUME NEW price \in Nat, NEW acc \in Sale, NEW lot \in Lot
  PROVE  ConsumeLot(price, acc, lot) \in Sale
<1> DEFINE consumed == IF acc.left < lot.quantity THEN acc.left ELSE lot.quantity
<1>1. /\ acc.left \in Nat /\ acc.lots \in Seq(Lot) /\ acc.matches \in Seq(Match)
      /\ lot.quantity \in Nat \ {0} /\ lot.cost_per_unit \in Nat \ {0}
  BY DEF Sale, Lot
<1>2. CASE acc.left = 0
  <2>1. ConsumeLot(price, acc, lot) = [acc EXCEPT !.lots = Append(acc.lots, lot)]
    BY <1>2 DEF ConsumeLot
  <2>2. Append(acc.lots, lot) \in Seq(Lot)
    BY <1>1
  <2> QED
    BY <2>1, <2>2 DEF Sale
<1>3. CASE acc.left # 0
  <2>1. consumed \in Nat /\ acc.left - consumed \in Nat
    BY <1>1
  <2>2. consumed * lot.cost_per_unit \in Nat /\ consumed * price \in Nat
    BY <1>1, <2>1
  <2>3. consumed # lot.quantity => [lot EXCEPT !.quantity = lot.quantity - consumed] \in Lot
    BY <1>1 DEF Lot
  <2>4. [quantity   |-> consumed,
         cost_basis |-> consumed * lot.cost_per_unit,
         proceeds   |-> consumed * price] \in Match
    BY <2>1, <2>2 DEF Match
  <2> HIDE DEF consumed
  <2>5. ConsumeLot(price, acc, lot)
          = [left    |-> acc.left - consumed,
             lots    |-> IF consumed = lot.quantity
                         THEN acc.lots
                         ELSE Append(acc.lots, [lot EXCEPT !.quantity = lot.quantity - consumed]),
             matches |-> Append(acc.matches, [quantity   |-> consumed,
                                              cost_basis |-> consumed * lot.cost_per_unit,
                                              proceeds   |-> consumed * price])]
    BY <1>3 DEF ConsumeLot, consumed
  <2> QED
    BY <1>1, <2>1, <2>3, <2>4, <2>5 DEF Sale
<1> QED
  BY <1>2, <1>3

\* consume_fifo goes through the lots one after the other.
LEMMA ConsumeChain ==
  ASSUME NEW lots \in Seq(Lot), NEW q \in Nat, NEW price \in Nat
  PROVE  \E P : /\ IsChain(P, Sale, Len(lots), Begun(q), TurnOf(lots, price))
                /\ P[Len(lots)] = ConsumeFifo(lots, q, price)
<1> DEFINE n == Len(lots)
           base == Begun(q)
           step == TurnOf(lots, price)
           Turn(g) == [s \in SUBSET (1 .. n) |->
                         IF s = {} THEN base
                         ELSE ConsumeLot(price, g[s \ {Max(s)}], lots[Max(s)])]
           iter == CHOOSE g : g = Turn(g)
<1>1. n \in Nat /\ DOMAIN lots = 1 .. n /\ \A i \in 1 .. n : lots[i] \in Lot
  OBVIOUS
<1>2. /\ step \in [Sale \X (1 .. n) -> Sale]
      /\ \A a \in Sale, i \in 1 .. n : step[<<a, i>>] = ConsumeLot(price, a, lots[i])
  BY <1>1, ConsumeLotType DEF TurnOf
<1>3. base \in Sale
  BY DEF Begun, Sale
<1>4. ConsumeFifo(lots, q, price) = iter[1 .. n]
  BY <1>1 DEF ConsumeFifo, FoldLeft, MapThenFoldSet, Begun
<1> HIDE DEF n, base, step
<1>5. Folds(Sale, n, base, step)
  BY <1>1, <1>2, <1>3 DEF Folds
<1>6. \A s \in SUBSET (1 .. n) : s # {} => Max(s) \in 1 .. n
  BY <1>1, MaxUpTo
<1>7. \E g : g = Turn(g)
  <2>1. PICK g : g \in [SUBSET (1 .. n) -> Sale] /\ Iterates(g, Sale, n, base, step)
    BY <1>5, FoldExists
  <2>2. ASSUME NEW s \in SUBSET (1 .. n)
        PROVE  g[s] = IF s = {} THEN base ELSE ConsumeLot(price, g[s \ {Max(s)}], lots[Max(s)])
    <3>1. s \ {Max(s)} \in SUBSET (1 .. n)
      OBVIOUS
    <3>2. g[s \ {Max(s)}] \in Sale
      BY <2>1, <3>1
    <3> QED
      BY <1>2, <1>6, <2>1, <3>2 DEF Iterates
  <2>3. g = Turn(g)
    BY <2>1, <2>2
  <2> HIDE DEF Turn
  <2> QED
    BY <2>3
<1>8. iter = Turn(iter)
  <2> HIDE DEF Turn
  <2> QED
    BY <1>7
<1> HIDE DEF iter
<1>9. Iterates(iter, Sale, n, base, step)
  BY <1>2, <1>8, <1>6 DEF Iterates
<1> HIDE DEF Turn
<1>10. \E P : IsChain(P, Sale, n, base, step) /\ P[n] = iter[1 .. n]
  BY <1>5, <1>9, Chain
<1> QED
  BY <1>4, <1>10 DEF n, base, step

\* What consume_fifo does with one more lot at the end of the queue: one more turn.
LEMMA ConsumeOneMore ==
  ASSUME NEW lots \in Seq(Lot), NEW q \in Nat, NEW price \in Nat
  PROVE  /\ ConsumeFifo(lots, q, price) \in Sale
         /\ lots = << >> => ConsumeFifo(lots, q, price) = Begun(q)
         /\ \A x \in Lot : ConsumeFifo(Append(lots, x), q, price)
                             = ConsumeLot(price, ConsumeFifo(lots, q, price), x)
<1> DEFINE n == Len(lots)
           f == TurnOf(lots, price)
<1>1. n \in Nat /\ (lots = << >> => n = 0) /\ \A i \in 1 .. n : lots[i] \in Lot
  OBVIOUS
<1>2. PICK P : IsChain(P, Sale, n, Begun(q), f) /\ P[n] = ConsumeFifo(lots, q, price)
  BY ConsumeChain
<1>3. ConsumeFifo(lots, q, price) \in Sale
  BY <1>1, <1>2 DEF IsChain
<1>4. lots = << >> => ConsumeFifo(lots, q, price) = Begun(q)
  BY <1>1, <1>2 DEF IsChain
<1>5. ASSUME NEW x \in Lot
      PROVE  ConsumeFifo(Append(lots, x), q, price)
               = ConsumeLot(price, ConsumeFifo(lots, q, price), x)
  <2> DEFINE more == Append(lots, x)
             m == Len(more)
             h == TurnOf(more, price)
  <2>1. /\ more \in Seq(Lot) /\ m = n + 1 /\ m \in Nat /\ n <= m /\ m \in 1 .. m /\ m - 1 = n
        /\ more[m] = x /\ \A i \in 1 .. n : i \in 1 .. m /\ more[i] = lots[i]
    OBVIOUS
  <2>2. Agree(f, h, Sale, n)
    BY <2>1 DEF TurnOf, Agree
  <2>3. \A a \in Sale : h[<<a, m>>] = ConsumeLot(price, a, x)
    BY <2>1 DEF TurnOf
  <2> HIDE DEF more, h, f, n
  <2>4. PICK Q : IsChain(Q, Sale, m, Begun(q), h) /\ Q[m] = ConsumeFifo(more, q, price)
    BY <2>1, ConsumeChain DEF h
  <2> HIDE DEF m
  <2>5. P[n] = Q[n]
    <3>1. \A k \in 0 .. n : P[k] = Q[k]
      BY <1>1, <1>2, <2>1, <2>2, <2>4, ChainsAgree
    <3> QED
      BY <1>1, <3>1
  <2>6. Q[m] = h[<<Q[n], m>>]
    BY <2>1, <2>4 DEF IsChain
  <2> QED
    BY <1>2, <1>3, <2>3, <2>4, <2>5, <2>6 DEF more
<1> QED
  BY <1>3, <1>4, <1>5

\* Induction over the queue, from its oldest lot on.
LEMMA LotsInduction ==
  ASSUME NEW T, << >> \in T,
         \A lots \in Seq(Lot), x \in Lot : lots \in T => Append(lots, x) \in T
  PROVE  \A lots \in Seq(Lot) : lots \in T
<1> DEFINE N == {n \in Nat : \A lots \in Seq(Lot) : Len(lots) = n => lots \in T}
<1>1. 0 \in N
  OBVIOUS
<1>2. ASSUME NEW n \in Nat, n \in N PROVE n + 1 \in N
  <2> SUFFICES ASSUME NEW lots \in Seq(Lot), Len(lots) = n + 1 PROVE lots \in T
    OBVIOUS
  <2>1. lots # << >>
    OBVIOUS
  <2>2. PICK front \in Seq(Lot), x \in Lot : lots = Append(front, x)
    BY <2>1, SequenceEmptyOrAppend
  <2>3. Len(front) = n
    BY <2>2
  <2> QED
    BY <1>2, <2>2, <2>3
<1>3. \A n \in Nat : n \in N
  <2> HIDE DEF N
  <2> QED
    BY <1>1, <1>2, AllNaturals
<1> QED
  BY <1>3

\* The empty queue.
LEMMA Empty ==
  /\ << >> \in Seq(Lot) /\ << >> \in Seq(Match)
  /\ TotalOf(<< >>) = 0 /\ CostOf(<< >>) = 0 /\ RealizedPnl(<< >>) = 0
  /\ \A q \in Nat, price \in Nat : ConsumeFifo(<< >>, q, price) = Begun(q)
<1>1. << >> \in Seq(Lot) /\ << >> \in Seq(Match)
  OBVIOUS
<1> QED
  BY <1>1, TotalOfLots, CostOfLots, PnlOfMatches, ConsumeOneMore

\* A queue of open lots holds nothing, and has cost nothing, only if it is empty.
LEMMA LotSums ==
  ASSUME NEW lots \in Seq(Lot)
  PROVE  /\ TotalOf(lots) \in Nat /\ CostOf(lots) \in Nat
         /\ TotalOf(lots) = 0 <=> lots = << >>
<1> DEFINE T == {s \in Seq(Lot) : /\ TotalOf(s) \in Nat /\ CostOf(s) \in Nat
                                  /\ TotalOf(s) = 0 <=> s = << >>}
<1>1. << >> \in T
  BY Empty
<1>2. ASSUME NEW s \in Seq(Lot), NEW x \in Lot, s \in T PROVE Append(s, x) \in T
  <2>1. Append(s, x) \in Seq(Lot) /\ Append(s, x) # << >>
    OBVIOUS
  <2>2. x.quantity \in Nat \ {0} /\ x.quantity * x.cost_per_unit \in Nat
    BY DEF Lot
  <2>3. TotalOf(s) \in Nat /\ CostOf(s) \in Nat
    BY <1>2
  <2>4. /\ TotalOf(Append(s, x)) = TotalOf(s) + x.quantity
        /\ CostOf(Append(s, x)) = CostOf(s) + x.quantity * x.cost_per_unit
    BY TotalOfLots, CostOfLots
  <2> QED
    BY <2>1, <2>2, <2>3, <2>4
<1>3. \A s \in Seq(Lot) : s \in T
  <2> HIDE DEF T
  <2> QED
    BY <1>1, <1>2, LotsInduction
<1> QED
  BY <1>3

\* A sale of q units adds up: it takes what there is, up to q, leaves nothing in the queue
\* before it leaves units unsold, the units that have left the queue are the ones sold, and
\* what is realized is the proceeds less what the queue has lost in cost.
AddsUp(lots, q, price, sale) ==
  /\ sale.left = IF q <= TotalOf(lots) THEN 0 ELSE q - TotalOf(lots)
  /\ sale.left > 0 => sale.lots = << >>
  /\ TotalOf(sale.lots) = TotalOf(lots) - (q - sale.left)
  /\ RealizedPnl(sale.matches)
       = (q - sale.left) * price - (CostOf(lots) - CostOf(sale.lots))

\* Arithmetic that the solver needs to be told of.
LEMMA Distributes ==
  ASSUME NEW a \in Int, NEW b \in Int, NEW c \in Int
  PROVE  /\ (a + b) * c = a * c + b * c
         /\ (a - b) * c = a * c - b * c
         /\ a * c \in Int /\ b * c \in Int
OBVIOUS

\* A turn of consume_fifo after the sale is complete keeps AddsUp.
LEMMA SaleTurnOver ==
  ASSUME NEW q \in Nat, NEW price \in Nat, NEW lots \in Seq(Lot), NEW x \in Lot,
         NEW acc \in Sale, AddsUp(lots, q, price, acc), acc.left = 0
  PROVE  AddsUp(Append(lots, x), q, price, ConsumeLot(price, acc, x))
<1>1. acc.lots \in Seq(Lot) /\ x.quantity \in Nat \ {0}
  BY DEF Sale, Lot
<1>2. /\ x.quantity * x.cost_per_unit \in Int /\ q * price \in Int
  BY DEF Lot
<1>a. PICK total \in Nat, cost \in Nat : total = TotalOf(lots) /\ cost = CostOf(lots)
  BY LotSums
<1>b. PICK kept \in Nat, keptCost \in Nat : kept = TotalOf(acc.lots) /\ keptCost = CostOf(acc.lots)
  BY <1>1, LotSums
<1>c. PICK more \in Nat \ {0}, moreCost \in Int :
        more = x.quantity /\ moreCost = x.quantity * x.cost_per_unit
  BY <1>1, <1>2
<1>d. PICK money \in Int : money = q * price
  BY <1>2
<1>3. /\ total = TotalOf(lots) /\ cost = CostOf(lots)
      /\ kept = TotalOf(acc.lots) /\ keptCost = CostOf(acc.lots)
      /\ more = x.quantity /\ moreCost = x.quantity * x.cost_per_unit
      /\ money = q * price
  BY <1>a, <1>b, <1>c, <1>d
<1>4. /\ TotalOf(Append(lots, x)) = total + more /\ CostOf(Append(lots, x)) = cost + moreCost
      /\ TotalOf(Append(acc.lots, x)) = kept + more
      /\ CostOf(Append(acc.lots, x)) = keptCost + moreCost
  BY <1>1, <1>3, TotalOfLots, CostOfLots
<1>5. q <= total /\ kept = total - q /\ RealizedPnl(acc.matches) = money - (cost - keptCost)
  <2>1. q - acc.left = q
    OBVIOUS
  <2>2. q <= total
    <3>1. 0 = IF q <= total THEN 0 ELSE q - total
      BY <1>3 DEF AddsUp
    <3> QED
      BY <3>1
  <2>3. kept = total - q
    BY <1>3, <2>1 DEF AddsUp
  <2>4. RealizedPnl(acc.matches) = money - (cost - keptCost)
    BY <1>3, <2>1 DEF AddsUp
  <2> QED
    BY <2>2, <2>3, <2>4
<1>6. PICK next : next = ConsumeLot(price, acc, x)
  OBVIOUS
<1>7. next.left = 0 /\ next.lots = Append(acc.lots, x) /\ next.matches = acc.matches
  <2>1. next = [acc EXCEPT !.lots = Append(acc.lots, x)]
    BY <1>6 DEF ConsumeLot
  <2> QED
    BY <2>1 DEF Sale
<1>8. q - next.left = q
  BY <1>7
<1>9. next.left = IF q <= TotalOf(Append(lots, x)) THEN 0 ELSE q - TotalOf(Append(lots, x))
  BY <1>4, <1>5, <1>7
<1>10. TotalOf(next.lots) = TotalOf(Append(lots, x)) - (q - next.left)
  BY <1>4, <1>5, <1>7, <1>8
<1>11. RealizedPnl(next.matches)
         = (q - next.left) * price - (CostOf(Append(lots, x)) - CostOf(next.lots))
  <2>1. (q - next.left) * price = money
    BY <1>3, <1>8
  <2>2. money - (cost - keptCost) = money - ((cost + moreCost) - (keptCost + moreCost))
    OBVIOUS
  <2> QED
    BY <1>4, <1>5, <1>7, <2>1, <2>2
<1> QED
  BY <1>6, <1>7, <1>9, <1>10, <1>11 DEF AddsUp

\* A turn of consume_fifo that still has something to sell keeps AddsUp.
LEMMA SaleTurnOn ==
  ASSUME NEW q \in Nat, NEW price \in Nat, NEW lots \in Seq(Lot), NEW x \in Lot,
         NEW acc \in Sale, AddsUp(lots, q, price, acc), acc.left # 0
  PROVE  AddsUp(Append(lots, x), q, price, ConsumeLot(price, acc, x))
<1>1. acc.left \in Nat /\ acc.lots \in Seq(Lot) /\ acc.matches \in Seq(Match)
  BY DEF Sale
<1>2. x.quantity \in Nat \ {0} /\ x.cost_per_unit \in Nat \ {0}
  BY DEF Lot
<1>3. PICK left \in Nat, total \in Nat, cost \in Nat, money \in Int,
           xq \in Nat \ {0}, xc \in Nat \ {0} :
        /\ left = acc.left /\ xq = x.quantity /\ xc = x.cost_per_unit
        /\ total = TotalOf(lots) /\ cost = CostOf(lots)
        /\ money = RealizedPnl(acc.matches)
  BY <1>1, <1>2, LotSums, PnlOfMatches
<1>4. acc.lots = << >> /\ left = q - total /\ total < q /\ money = total * price - cost
  <2>1. left > 0
    BY <1>3
  <2>2. acc.lots = << >>
    BY <1>3, <2>1 DEF AddsUp
  <2>3. left = q - total /\ total < q
    <3>1. left = IF q <= total THEN 0 ELSE q - total
      BY <1>3 DEF AddsUp
    <3> QED
      BY <2>1, <3>1
  <2>4. money = (q - left) * price - (cost - 0)
    <3>1. CostOf(acc.lots) = 0
      BY <2>2, Empty
    <3> QED
      BY <1>3, <3>1 DEF AddsUp
  <2>5. q - left = total
    BY <2>3
  <2>6. cost - 0 = cost
    OBVIOUS
  <2>7. money = total * price - cost
    BY <2>4, <2>5, <2>6
  <2> QED
    BY <2>2, <2>3, <2>7
<1>5. PICK c \in Nat : c = IF left < xq THEN left ELSE xq
  OBVIOUS
<1>6. c <= xq /\ c <= left /\ (c = xq \/ c = left)
  BY <1>5
<1>7. PICK match \in Match : match = [quantity   |-> c,
                                      cost_basis |-> c * xc,
                                      proceeds   |-> c * price]
  <2>1. c * xc \in Nat /\ c * price \in Nat
    OBVIOUS
  <2> QED
    BY <2>1 DEF Match
<1>8. PICK kept : kept = [quantity |-> xq - c, cost_per_unit |-> xc]
  OBVIOUS
<1>9. PICK next : next = ConsumeLot(price, acc, x)
  OBVIOUS
<1>10. /\ next.left = left - c
       /\ next.lots = IF c = xq THEN << >> ELSE Append(<< >>, kept)
       /\ next.matches = Append(acc.matches, match)
  <2>1. kept = [x EXCEPT !.quantity = x.quantity - c]
    BY <1>3, <1>8 DEF Lot
  <2>2. c = IF acc.left < x.quantity THEN acc.left ELSE x.quantity
    BY <1>3, <1>5
  <2>3. match = [quantity   |-> c,
                 cost_basis |-> c * x.cost_per_unit,
                 proceeds   |-> c * price]
    BY <1>3, <1>7
  <2>4. next = [left    |-> acc.left - c,
                lots    |-> IF c = x.quantity THEN acc.lots ELSE Append(acc.lots, kept),
                matches |-> Append(acc.matches, match)]
    BY <1>9, <2>1, <2>2, <2>3 DEF ConsumeLot
  <2> QED
    BY <1>3, <1>4, <2>4
<1>11. RealizedPnl(next.matches) = money + (c * price - c * xc)
  <2>1. match.proceeds = c * price /\ match.cost_basis = c * xc
    BY <1>7
  <2> QED
    BY <1>1, <1>3, <1>10, <2>1, PnlOfMatches
<1>12. TotalOf(next.lots) = xq - c /\ CostOf(next.lots) = (xq - c) * xc
  <2>1. CASE c = xq
    <3>1. xq - c = 0 /\ 0 * xc = 0
      BY <2>1
    <3> QED
      BY <1>10, <2>1, <3>1, Empty
  <2>2. CASE c # xq
    <3>1. kept \in Lot /\ kept.quantity = xq - c /\ kept.cost_per_unit = xc
      BY <1>6, <1>8, <2>2 DEF Lot
    <3>2. /\ TotalOf(next.lots) = 0 + kept.quantity
          /\ CostOf(next.lots) = 0 + kept.quantity * kept.cost_per_unit
      BY <1>10, <2>2, <3>1, Empty, TotalOfLots, CostOfLots
    <3>3. (xq - c) * xc \in Int /\ xq - c \in Int
      BY Distributes
    <3>4. 0 + (xq - c) = xq - c /\ 0 + (xq - c) * xc = (xq - c) * xc
      BY <3>3
    <3> QED
      BY <3>1, <3>2, <3>4
  <2> QED
    BY <2>1, <2>2
<1>13. TotalOf(Append(lots, x)) = total + xq /\ CostOf(Append(lots, x)) = cost + xq * xc
  BY <1>3, TotalOfLots, CostOfLots
<1>14. next.left = IF q <= TotalOf(Append(lots, x)) THEN 0 ELSE q - TotalOf(Append(lots, x))
  <2>1. left - c = IF q <= total + xq THEN 0 ELSE q - (total + xq)
    BY <1>4, <1>5
  <2> QED
    BY <1>10, <1>13, <2>1
<1>15. next.left > 0 => next.lots = << >>
  BY <1>6, <1>10
<1>16. TotalOf(next.lots) = TotalOf(Append(lots, x)) - (q - next.left)
  <2>1. xq - c = (total + xq) - (q - (left - c))
    BY <1>4
  <2> QED
    BY <1>10, <1>12, <1>13, <2>1
<1>17. RealizedPnl(next.matches)
         = (q - next.left) * price - (CostOf(Append(lots, x)) - CostOf(next.lots))
  <2>1. q - (left - c) = total + c
    BY <1>4
  <2>2. /\ (total + c) * price = total * price + c * price
        /\ total * price \in Int /\ c * price \in Int
    BY Distributes
  <2>3. (xq - c) * xc = xq * xc - c * xc /\ xq * xc \in Int /\ c * xc \in Int
    BY Distributes
  <2>4. PICK sold \in Int, proceeds \in Int, all \in Int, used \in Int :
          sold = total * price /\ proceeds = c * price /\ all = xq * xc /\ used = c * xc
    BY <2>2, <2>3
  <2>5. (sold - cost) + (proceeds - used) = (sold + proceeds) - ((cost + all) - (all - used))
    OBVIOUS
  <2>6. money + (c * price - c * xc)
          = (total + c) * price - ((cost + xq * xc) - (xq - c) * xc)
    BY <1>4, <2>2, <2>3, <2>4, <2>5
  <2> QED
    BY <1>10, <1>11, <1>12, <1>13, <2>1, <2>6
<1> QED
  BY <1>9, <1>14, <1>15, <1>16, <1>17 DEF AddsUp

\* Every turn of consume_fifo keeps AddsUp.
LEMMA SaleTurn ==
  ASSUME NEW q \in Nat, NEW price \in Nat, NEW lots \in Seq(Lot), NEW x \in Lot,
         NEW acc \in Sale, AddsUp(lots, q, price, acc)
  PROVE  AddsUp(Append(lots, x), q, price, ConsumeLot(price, acc, x))
BY SaleTurnOver, SaleTurnOn

\* Whatever is sold from whatever queue at whatever price, the result of consume_fifo adds up.
LEMMA SaleAddsUp ==
  ASSUME NEW q \in Nat, NEW price \in Nat, NEW lots \in Seq(Lot)
  PROVE  AddsUp(lots, q, price, ConsumeFifo(lots, q, price))
<1> DEFINE T == {s \in Seq(Lot) : AddsUp(s, q, price, ConsumeFifo(s, q, price))}
<1>1. << >> \in T
  <2>1. ConsumeFifo(<< >>, q, price) = [left |-> q, lots |-> << >>, matches |-> << >>]
    BY Empty DEF Begun
  <2>2. AddsUp(<< >>, q, price, [left |-> q, lots |-> << >>, matches |-> << >>])
    BY Empty DEF AddsUp
  <2> QED
    BY <2>1, <2>2, Empty
<1>2. ASSUME NEW s \in Seq(Lot), NEW x \in Lot, s \in T PROVE Append(s, x) \in T
  <2>1. /\ ConsumeFifo(s, q, price) \in Sale
        /\ ConsumeFifo(Append(s, x), q, price) = ConsumeLot(price, ConsumeFifo(s, q, price), x)
    BY ConsumeOneMore
  <2>2. AddsUp(s, q, price, ConsumeFifo(s, q, price)) /\ Append(s, x) \in Seq(Lot)
    BY <1>2
  <2>3. AddsUp(Append(s, x), q, price, ConsumeFifo(Append(s, x), q, price))
    BY <2>1, <2>2, SaleTurn
  <2> QED
    BY <2>2, <2>3
<1>3. \A s \in Seq(Lot) : s \in T
  <2> HIDE DEF T
  <2> QED
    BY <1>1, <1>2, LotsInduction
<1> QED
  BY <1>3
=============================================================================
