----------------------------- MODULE TopKProofs -----------------------------
(***************************************************************************)
(* Lemmas about loops and heaps.  A loop over a sequence is a fold, which  *)
(* is a function on sets of indices that is defined by recursion: here it  *)
(* is shown to exist, where each turn of the loop leads from a set of      *)
(* values to the same set, and to be a chain of values, one per turn.      *)
(***************************************************************************)
EXTENDS TopK, FiniteSetTheorems, WellFoundedInduction, TLAPS

(* Induction, for a set of numbers. *)
LEMMA NatSetInduction ==
  ASSUME NEW T, 0 \in T, \A n \in Nat : n \in T => n + 1 \in T
  PROVE  Nat \subseteq T
<1> SUFFICES ASSUME ~ Nat \subseteq T PROVE FALSE
  OBVIOUS
<1>1. Nat \ T # {} /\ Nat \ T \subseteq Nat
  OBVIOUS
<1>2. PICK x \in Nat \ T : \A y \in Nat \ T : ~ <<y, x>> \in OpToRel(<, Nat)
  BY <1>1, WFMin, NatLessThanWellFounded
<1>3. \A y \in Nat \ T : ~ y < x
  BY <1>2 DEF OpToRel
<1>4. x # 0 /\ x - 1 \in Nat
  OBVIOUS
<1>5. x - 1 \in T
  BY <1>3, <1>4
<1> QED
  BY <1>4, <1>5

(* Invariants of a loop of n turns. *)
LEMMA ChainInduction ==
  ASSUME NEW n \in Nat, NEW acc, NEW T, acc[0] \in T[0],
         \A i \in 1 .. n : acc[i - 1] \in T[i - 1] => acc[i] \in T[i]
  PROVE  \A i \in 0 .. n : acc[i] \in T[i]
<1> DEFINE U == {m \in Nat : m <= n => acc[m] \in T[m]}
<1>1. 0 \in U
  OBVIOUS
<1>2. ASSUME NEW m \in Nat, m \in U
      PROVE  m + 1 \in U
  <2>1. CASE m + 1 \in 1 .. n
    <3>1. m <= n /\ (m + 1) - 1 = m
      BY <2>1
    <3>2. acc[(m + 1) - 1] \in T[(m + 1) - 1]
      BY <1>2, <3>1
    <3> QED
      BY <2>1, <3>2
  <2>2. CASE ~ m + 1 \in 1 .. n
    BY <2>2
  <2> QED
    BY <2>1, <2>2
<1> HIDE DEF U
<1>3. Nat \subseteq U
  BY <1>1, <1>2, NatSetInduction
<1> QED
  BY <1>3 DEF U

(* A non-empty set of indices has a last one. *)
LEMMA LastIndex ==
  ASSUME NEW n \in Nat, NEW s \in SUBSET (1 .. n), s # {}
  PROVE  Lists!Max(s) \in s /\ \A y \in s : Lists!Max(s) >= y
<1> DEFINE T == {m \in Nat : \A t \in SUBSET (1 .. m) :
                               t # {} => \E x \in t : \A y \in t : x >= y}
<1>1. 0 \in T
  <2>1. SUBSET (1 .. 0) = {{}}
    OBVIOUS
  <2> QED
    BY <2>1
<1>2. ASSUME NEW m \in Nat, m \in T
      PROVE  m + 1 \in T
  <2>1. ASSUME NEW t \in SUBSET (1 .. m + 1), t # {}
        PROVE  \E x \in t : \A y \in t : x >= y
    <3>1. CASE m + 1 \in t
      BY <3>1
    <3>2. CASE m + 1 \notin t
      <4>1. t \in SUBSET (1 .. m)
        BY <3>2
      <4> QED
        BY <1>2, <2>1, <4>1
    <3> QED
      BY <3>1, <3>2
  <2> QED
    BY <2>1
<1> HIDE DEF T
<1>3. n \in T
  BY <1>1, <1>2, NatSetInduction
<1>4. \E x \in s : \A y \in s : x >= y
  BY <1>3 DEF T
<1> QED
  BY <1>4 DEF Lists!Max

(* The indices of the first i turns. *)
LEMMA LastOfPrefix ==
  ASSUME NEW n \in Nat, NEW i \in 1 .. n
  PROVE  /\ (1 .. i) \in SUBSET (1 .. n) /\ (1 .. i) # {}
         /\ Lists!Max(1 .. i) = i /\ (1 .. i) \ {i} = 1 .. i - 1
<1>1. i \in Nat /\ i \in 1 .. i
  OBVIOUS
<1>2. (1 .. i) \in SUBSET (1 .. i) /\ (1 .. i) # {}
  <2> DEFINE s == 1 .. i
  <2>1. i \in s
    OBVIOUS
  <2> HIDE DEF s
  <2>2. s # {}
    BY <2>1
  <2> QED
    BY <2>2 DEF s
<1>3. Lists!Max(1 .. i) \in 1 .. i /\ Lists!Max(1 .. i) >= i
  BY <1>1, <1>2, LastIndex
<1> QED
  BY <1>2, <1>3

(* A solution for the indices up to m. *)
Solves(g, m, S, base, step) ==
  /\ g \in [SUBSET (1 .. m) -> S]
  /\ \A s \in SUBSET (1 .. m) :
       g[s] = IF s = {} THEN base ELSE step[Lists!Max(s)][g[s \ {Lists!Max(s)}]]

(* One more index. *)
LEMMA FoldExtends ==
  ASSUME NEW n \in Nat, NEW S, NEW base \in S, NEW step \in [1 .. n -> [S -> S]],
         NEW m \in Nat, m + 1 <= n, NEW g, Solves(g, m, S, base, step)
  PROVE  \E h : Solves(h, m + 1, S, base, step)
<1> DEFINE h == [s \in SUBSET (1 .. m + 1) |->
                   IF m + 1 \in s THEN step[m + 1][g[s \ {m + 1}]] ELSE g[s]]
<1>1. g \in [SUBSET (1 .. m) -> S]
  BY DEF Solves
<1>2. \A s \in SUBSET (1 .. m + 1) : s \ {m + 1} \in SUBSET (1 .. m)
  OBVIOUS
<1>3. m + 1 \in 1 .. n /\ step[m + 1] \in [S -> S]
  OBVIOUS
<1>4. ASSUME NEW s \in SUBSET (1 .. m + 1), m + 1 \in s
      PROVE  h[s] = step[m + 1][g[s \ {m + 1}]] /\ h[s] \in S
  <2>1. g[s \ {m + 1}] \in S
    BY <1>1, <1>2
  <2> QED
    BY <1>3, <1>4, <2>1
<1>5. ASSUME NEW s \in SUBSET (1 .. m)
      PROVE  h[s] = g[s] /\ h[s] \in S
  <2>1. s \in SUBSET (1 .. m + 1) /\ m + 1 \notin s
    OBVIOUS
  <2> QED
    BY <1>1, <2>1
<1>6. \A s \in SUBSET (1 .. m + 1) : m + 1 \in s \/ s \in SUBSET (1 .. m)
  OBVIOUS
<1>7. DOMAIN h = SUBSET (1 .. m + 1) /\ h = [s \in DOMAIN h |-> h[s]]
  OBVIOUS
<1> HIDE DEF h
<1>8. h \in [SUBSET (1 .. m + 1) -> S]
  BY <1>4, <1>5, <1>6, <1>7
<1>9. ASSUME NEW s \in SUBSET (1 .. m + 1), s # {}
      PROVE  h[s] = step[Lists!Max(s)][h[s \ {Lists!Max(s)}]]
  <2>1. m + 1 \in Nat
    OBVIOUS
  <2>2. Lists!Max(s) \in s /\ \A y \in s : Lists!Max(s) >= y
    BY <1>9, <2>1, LastIndex
  <2>3. CASE m + 1 \in s
    <3>1. Lists!Max(s) \in 1 .. m + 1 /\ Lists!Max(s) >= m + 1
      BY <2>2, <2>3
    <3>2. Lists!Max(s) = m + 1
      BY <3>1
    <3>3. h[s \ {m + 1}] = g[s \ {m + 1}]
      BY <1>2, <1>5
    <3> QED
      BY <1>4, <2>3, <3>2, <3>3
  <2>4. CASE s \in SUBSET (1 .. m)
    <3>1. s \ {Lists!Max(s)} \in SUBSET (1 .. m)
      BY <2>4
    <3>2. g[s] = step[Lists!Max(s)][g[s \ {Lists!Max(s)}]]
      BY <1>9, <2>4 DEF Solves
    <3> QED
      BY <1>5, <2>4, <3>1, <3>2
  <2> QED
    BY <1>6, <2>3, <2>4
<1>10. h[{}] = base
  <2>1. {} \in SUBSET (1 .. m)
    OBVIOUS
  <2> QED
    BY <1>5, <2>1 DEF Solves
<1>11. Solves(h, m + 1, S, base, step)
  BY <1>8, <1>9, <1>10 DEF Solves
<1> QED
  BY <1>11

(* The recursion that defines a fold has a solution. *)
LEMMA FoldExists ==
  ASSUME NEW n \in Nat, NEW S, NEW base \in S, NEW step \in [1 .. n -> [S -> S]]
  PROVE  \E g : Solves(g, n, S, base, step)
<1> DEFINE T == {m \in Nat : m <= n => \E g : Solves(g, m, S, base, step)}
<1>1. 0 \in T
  <2> DEFINE g == [s \in {{}} |-> base]
  <2>1. SUBSET (1 .. 0) = {{}}
    OBVIOUS
  <2>2. g \in [{{}} -> S] /\ g[{}] = base
    OBVIOUS
  <2> HIDE DEF g
  <2>3. Solves(g, 0, S, base, step)
    BY <2>1, <2>2 DEF Solves
  <2> QED
    BY <2>3
<1>2. ASSUME NEW m \in Nat, m \in T
      PROVE  m + 1 \in T
  <2>1. ASSUME m + 1 <= n
        PROVE  \E h : Solves(h, m + 1, S, base, step)
    <3>1. PICK g : Solves(g, m, S, base, step)
      BY <1>2, <2>1
    <3> QED
      BY <2>1, <3>1, FoldExtends
  <2> QED
    BY <2>1
<1> HIDE DEF T
<1>3. n \in T
  BY <1>1, <1>2, NatSetInduction
<1> QED
  BY <1>3 DEF T

(* What a solution is good for. *)
StepsAt(g, s, n, S, step) ==
  /\ Lists!Max(s) \in 1 .. n /\ g[s \ {Lists!Max(s)}] \in S
  /\ g[s] = step[Lists!Max(s)][g[s \ {Lists!Max(s)}]]

LEMMA SolutionStep ==
  ASSUME NEW n \in Nat, NEW S, NEW base, NEW step, NEW g, Solves(g, n, S, base, step),
         NEW s \in SUBSET (1 .. n), s # {}
  PROVE  StepsAt(g, s, n, S, step)
<1>1. g \in [SUBSET (1 .. n) -> S]
  BY DEF Solves
<1>2. Lists!Max(s) \in 1 .. n
  BY LastIndex
<1>3. g[s] = step[Lists!Max(s)][g[s \ {Lists!Max(s)}]]
  BY DEF Solves
<1> QED
  BY <1>1, <1>2, <1>3 DEF StepsAt

(* A loop of n turns, each from one set of values to the next ... *)
Turns(n, T, step) == \A i \in 1 .. n : step[i] \in [T[i - 1] -> T[i]]

(* ... and a solution of the recursion that defines it. *)
Run(f, n, T, base, step) ==
  /\ f = [i \in 0 .. n |-> f[i]]
  /\ f[0] = base
  /\ \A i \in 1 .. n : f[i - 1] \in T[i - 1] /\ f[i] = step[i][f[i - 1]]

LEMMA LoopSolution ==
  ASSUME NEW n \in Nat, NEW T, NEW base \in T[0], NEW step, Turns(n, T, step)
  PROVE  \E f : Run(f, n, T, base, step)
<1>0. \A i \in 1 .. n : step[i] \in [T[i - 1] -> T[i]]
  BY DEF Turns
<1> DEFINE S == UNION {T[i] : i \in 0 .. n}
           total == [i \in 1 .. n |-> [a \in S |-> IF a \in T[i - 1] THEN step[i][a] ELSE a]]
<1>1. base \in S
  OBVIOUS
<1>2. ASSUME NEW i \in 1 .. n, NEW a \in S
      PROVE  (IF a \in T[i - 1] THEN step[i][a] ELSE a) \in S
  <2>1. CASE a \in T[i - 1]
    <3>1. step[i][a] \in T[i] /\ i \in 0 .. n
      BY <1>0, <2>1
    <3> QED
      BY <2>1, <3>1
  <2> QED
    BY <2>1
<1>3. total \in [1 .. n -> [S -> S]]
  <2>1. ASSUME NEW i \in 1 .. n
        PROVE  [a \in S |-> IF a \in T[i - 1] THEN step[i][a] ELSE a] \in [S -> S]
    BY <1>2
  <2> QED
    BY <2>1
<1>4. \A i \in 1 .. n, a \in S : a \in T[i - 1] => total[i][a] = step[i][a]
  OBVIOUS
<1> HIDE DEF total, S
<1>5. PICK g : Solves(g, n, S, base, total)
  BY <1>1, <1>3, FoldExists
<1> DEFINE f == [i \in 0 .. n |-> g[1 .. i]]
<1>6. f[0] = base
  <2>1. 1 .. 0 = {} /\ 0 \in 0 .. n
    OBVIOUS
  <2>2. g[{}] = base
    BY <1>5 DEF Solves
  <2> QED
    BY <2>1, <2>2
<1>7. ASSUME NEW i \in 1 .. n
      PROVE  f[i - 1] \in S /\ f[i] = total[i][f[i - 1]]
  <2>1. Lists!Max(1 .. i) = i /\ (1 .. i) \ {i} = 1 .. i - 1
    BY LastOfPrefix
  <2>2. PICK s \in SUBSET (1 .. n) : s = 1 .. i
    OBVIOUS
  <2>3. s # {}
    <3>1. i \in s
      BY <2>2
    <3> QED
      BY <3>1
  <2> HIDE DEF f
  <2>4. /\ g[s \ {Lists!Max(s)}] \in S
        /\ g[s] = total[Lists!Max(s)][g[s \ {Lists!Max(s)}]]
    BY <1>5, <2>3, SolutionStep DEF StepsAt
  <2>5. g[1 .. i - 1] \in S /\ g[1 .. i] = total[i][g[1 .. i - 1]]
    BY <2>1, <2>2, <2>4
  <2> QED
    BY <2>5 DEF f
<1>8. f = [i \in 0 .. n |-> f[i]]
  OBVIOUS
<1> HIDE DEF f
<1>9. \A i \in 1 .. n : f[i - 1] \in T[i - 1] => f[i] \in T[i]
  BY <1>0, <1>4, <1>7
<1>10. \A i \in 0 .. n : f[i] \in T[i]
  BY <1>6, <1>9, ChainInduction
<1>11. ASSUME NEW i \in 1 .. n
       PROVE  f[i - 1] \in T[i - 1] /\ f[i] = step[i][f[i - 1]]
  <2>1. f[i - 1] \in T[i - 1]
    <3>1. i - 1 \in 0 .. n
      OBVIOUS
    <3> QED
      BY <1>10, <3>1
  <2> QED
    BY <1>4, <1>7, <2>1
<1> QED
  BY <1>6, <1>8, <1>11 DEF Run

(* Invariants of a fold over n indices. *)
LEMMA FoldInduction ==
  ASSUME NEW n \in Nat, NEW h, NEW T, h[{}] \in T[0],
         \A i \in 1 .. n : h[1 .. i - 1] \in T[i - 1] => h[1 .. i] \in T[i]
  PROVE  h[1 .. n] \in T[n]
<1> DEFINE acc == [i \in 0 .. n |-> h[1 .. i]]
<1>1. acc[0] \in T[0]
  <2>1. 1 .. 0 = {}
    OBVIOUS
  <2> QED
    BY <2>1
<1>2. \A i \in 1 .. n : acc[i - 1] \in T[i - 1] => acc[i] \in T[i]
  OBVIOUS
<1>3. acc[n] = h[1 .. n]
  OBVIOUS
<1> HIDE DEF acc
<1>4. \A i \in 0 .. n : acc[i] \in T[i]
  BY <1>1, <1>2, ChainInduction
<1> QED
  BY <1>3, <1>4

-----------------------------------------------------------------------------
(* Heaps. *)

(* What a search compares: ranks of distances, and ids or positions. *)
ItemSet == [distance : Nat, key : Nat]

(* Less is a strict total order. *)
LEMMA LessTotal ==
  /\ \A x \in ItemSet : ~ Less(x, x)
  /\ \A x, y \in ItemSet : x = y \/ Less(x, y) \/ Less(y, x)
  /\ \A x, y, z \in ItemSet : Less(x, y) /\ Less(y, z) => Less(x, z)
<1>1. \A x \in ItemSet : x.distance \in Nat /\ x.key \in Nat
  BY DEF ItemSet
<1>2. \A x, y \in ItemSet : x.distance = y.distance /\ x.key = y.key => x = y
  BY DEF ItemSet
<1> QED
  BY <1>1, <1>2 DEF Less

(* The items that are less than x. *)
Below(heap, x) == {y \in heap : Less(y, x)}

(* The ranks of n items are the numbers from 0 to n - 1. *)
LEMMA Ranks ==
  ASSUME NEW heap, heap \subseteq ItemSet, IsFiniteSet(heap)
  PROVE  /\ Cardinality(heap) \in Nat
         /\ \A x \in heap : Cardinality(Below(heap, x)) \in 0 .. Cardinality(heap) - 1
         /\ \A x, y \in heap :
              Less(x, y) <=> Cardinality(Below(heap, x)) < Cardinality(Below(heap, y))
         /\ \A i \in 1 .. Cardinality(heap) :
              \E x \in heap : Cardinality(Below(heap, x)) = i - 1
<1> DEFINE n == Cardinality(heap)
           rank == [x \in heap |-> Cardinality(Below(heap, x)) + 1]
<1>1. n \in Nat
  BY FS_CardinalityType
<1>2. ASSUME NEW x \in heap
      PROVE  IsFiniteSet(Below(heap, x)) /\ Cardinality(Below(heap, x)) \in 0 .. n - 1
  <2>1. Below(heap, x) \in SUBSET heap /\ x \notin Below(heap, x)
    BY LessTotal DEF Below
  <2>2. IsFiniteSet(Below(heap, x)) /\ Cardinality(Below(heap, x)) <= n
        /\ Cardinality(Below(heap, x)) # n
    BY <2>1, FS_Subset
  <2>3. Cardinality(Below(heap, x)) \in Nat
    BY <2>2, FS_CardinalityType
  <2> QED
    BY <1>1, <2>2, <2>3
<1>3. ASSUME NEW x \in heap, NEW y \in heap, Less(x, y)
      PROVE  Cardinality(Below(heap, x)) < Cardinality(Below(heap, y))
  <2>1. Below(heap, x) \in SUBSET Below(heap, y) /\ x \in Below(heap, y) /\ x \notin Below(heap, x)
    BY <1>3, LessTotal DEF Below
  <2>2. Cardinality(Below(heap, x)) <= Cardinality(Below(heap, y))
        /\ Cardinality(Below(heap, x)) # Cardinality(Below(heap, y))
    BY <1>2, <2>1, FS_Subset
  <2> QED
    BY <1>2, <2>2
<1>4. \A x, y \in heap : x = y \/ Less(x, y) \/ Less(y, x)
  BY LessTotal
<1>5. ASSUME NEW x \in heap, NEW y \in heap, 
             Cardinality(Below(heap, x)) < Cardinality(Below(heap, y))
      PROVE  Less(x, y)
  BY <1>2, <1>3, <1>4, <1>5
<1>6. rank \in Injection(heap, 1 .. n)
  <2>1. rank \in [heap -> 1 .. n]
    BY <1>1, <1>2
  <2>2. \A x, y \in heap : rank[x] = rank[y] => x = y
    BY <1>2, <1>3, <1>4
  <2> QED
    BY <2>1, <2>2 DEF Injection, IsInjective
<1>7. IsFiniteSet(1 .. n) /\ Cardinality(1 .. n) = n
  BY <1>1, FS_Interval
<1>8. rank \in Surjection(heap, 1 .. n)
  BY <1>6, <1>7, FS_Injection
<1>9. ASSUME NEW i \in 1 .. n
      PROVE  \E x \in heap : Cardinality(Below(heap, x)) = i - 1
  <2>1. PICK x \in heap : rank[x] = i
    BY <1>8 DEF Surjection
  <2> QED
    BY <1>2, <2>1
<1> QED
  BY <1>1, <1>2, <1>3, <1>5, <1>9

(* into_sorted_vec yields each item once, in ascending order. *)
LEMMA SortedFacts ==
  ASSUME NEW heap, heap \subseteq ItemSet, IsFiniteSet(heap)
  PROVE  /\ Sorted(heap) \in Seq(heap) /\ Len(Sorted(heap)) = Cardinality(heap)
         /\ \A i \in 1 .. Cardinality(heap) :
              /\ Sorted(heap)[i] \in heap
              /\ Cardinality(Below(heap, Sorted(heap)[i])) = i - 1
         /\ \A x \in heap : \E i \in 1 .. Cardinality(heap) : Sorted(heap)[i] = x
         /\ \A i, j \in 1 .. Cardinality(heap) :
              i < j <=> Less(Sorted(heap)[i], Sorted(heap)[j])
<1> DEFINE n == Cardinality(heap)
           s == Sorted(heap)
           rank == [x \in heap |-> Cardinality(Below(heap, x))]
<1>1. n \in Nat
  BY Ranks
<1>2. s = [i \in 1 .. n |-> CHOOSE x \in heap : rank[x] = i - 1]
  BY DEF Sorted, Below
<1>3. ASSUME NEW i \in 1 .. n
      PROVE  s[i] \in heap /\ Cardinality(Below(heap, s[i])) = i - 1
  <2>1. \E x \in heap : rank[x] = i - 1
    BY Ranks
  <2>2. s[i] = CHOOSE x \in heap : rank[x] = i - 1
    BY <1>2
  <2>3. s[i] \in heap /\ rank[s[i]] = i - 1
    BY <2>1, <2>2
  <2> QED
    BY <2>3
<1>4. s \in Seq(heap) /\ Len(s) = n
  <2>1. DOMAIN s = 1 .. n /\ s = [i \in 1 .. n |-> s[i]]
    BY <1>2
  <2> HIDE DEF s, n
  <2>2. s \in [1 .. n -> heap]
    BY <1>3, <2>1
  <2> QED
    BY <1>1, <2>2
<1> HIDE DEF s
<1>5. \A i, j \in 1 .. n : i < j <=> Less(s[i], s[j])
  BY <1>1, <1>3, Ranks
<1>6. ASSUME NEW x \in heap
      PROVE  \E i \in 1 .. n : s[i] = x
  <2> DEFINE i == Cardinality(Below(heap, x)) + 1
  <2>1. i \in 1 .. n /\ Cardinality(Below(heap, x)) = i - 1
    BY <1>1, Ranks
  <2>2. s[i] \in heap /\ Cardinality(Below(heap, s[i])) = Cardinality(Below(heap, x))
    BY <1>3, <2>1
  <2>3. ~ Less(s[i], x) /\ ~ Less(x, s[i])
    BY <1>1, <2>1, <2>2, Ranks
  <2> QED
    BY <2>1, <2>2, <2>3, LessTotal
<1> QED
  BY <1>3, <1>4, <1>5, <1>6 DEF s

(* peek, and the top of a min-heap. *)
LEMMA TopFacts ==
  ASSUME NEW heap, heap \subseteq ItemSet, IsFiniteSet(heap), heap # {}
  PROVE  /\ Greatest(heap) \in heap /\ \A y \in heap \ {Greatest(heap)} : Less(y, Greatest(heap))
         /\ Least(heap) \in heap /\ \A y \in heap \ {Least(heap)} : Less(Least(heap), y)
<1> DEFINE n == Cardinality(heap)
           s == Sorted(heap)
<1>1. n \in Nat \ {0}
  BY FS_CardinalityType, FS_EmptySet
<1>2. /\ \A i \in 1 .. n : s[i] \in heap
      /\ \A x \in heap : \E i \in 1 .. n : s[i] = x
      /\ \A i, j \in 1 .. n : i < j <=> Less(s[i], s[j])
  BY SortedFacts
<1> HIDE DEF s, n
<1>3. s[n] \in heap /\ \A y \in heap \ {s[n]} : Less(y, s[n])
  BY <1>1, <1>2
<1>4. s[1] \in heap /\ \A y \in heap \ {s[1]} : Less(s[1], y)
  BY <1>1, <1>2
<1>5. Greatest(heap) \in heap /\ \A y \in heap \ {Greatest(heap)} : Less(y, Greatest(heap))
  BY <1>3 DEF Greatest
<1>6. Least(heap) \in heap /\ \A y \in heap \ {Least(heap)} : Less(Least(heap), y)
  BY <1>4 DEF Least
<1> QED
  BY <1>5, <1>6

(* The heap holds the cap least of the items, or all of them. *)
KeepsLeast(heap, items, cap) ==
  /\ heap \in SUBSET items
  /\ Cardinality(heap) = IF cap < Cardinality(items) THEN cap ELSE Cardinality(items)
  /\ \A x \in heap, y \in items \ heap : Less(x, y)

(* An offer to the heap. *)
LEMMA OfferKeepsLeast ==
  ASSUME NEW items \in SUBSET ItemSet, IsFiniteSet(items), NEW cap \in Nat, NEW heap,
         KeepsLeast(heap, items, cap), NEW x \in ItemSet, x \notin items
  PROVE  KeepsLeast(Offer(heap, cap, x), items \cup {x}, cap)
<1> DEFINE n == Cardinality(items)
           h == Cardinality(heap)
           g == Greatest(heap)
<1>1. /\ heap \in SUBSET items /\ h = IF cap < n THEN cap ELSE n
      /\ \A y \in heap, z \in items \ heap : Less(y, z)
  BY DEF KeepsLeast
<1>2. IsFiniteSet(heap) /\ n \in Nat /\ h \in Nat
  BY <1>1, FS_Subset, FS_CardinalityType
<1>3. Cardinality(items \cup {x}) = n + 1
  BY FS_AddElement
<1>4. Cardinality(heap \cup {x}) = h + 1
  BY <1>1, <1>2, FS_AddElement
<1>5. CASE h < cap
  <2>1. h = n
    BY <1>1, <1>2, <1>5
  <2>2. heap = items
    BY <1>1, <2>1, FS_Subset
  <2>3. Offer(heap, cap, x) = items \cup {x}
    BY <1>5, <2>2 DEF Offer
  <2>4. n + 1 <= cap
    BY <1>2, <1>5, <2>1
  <2> HIDE DEF n, h
  <2>5. Cardinality(items \cup {x}) = IF cap < n + 1 THEN cap ELSE n + 1
    BY <1>2, <1>3, <2>4
  <2> QED
    BY <1>3, <2>3, <2>5 DEF KeepsLeast
<1>6. CASE ~ h < cap
  <2>1. h = cap /\ cap <= n
    BY <1>1, <1>2, <1>6
  <2>2. (IF cap < n + 1 THEN cap ELSE n + 1) = cap
    BY <1>2, <2>1
  <2>3. CASE heap = {}
    <3>1. Offer(heap, cap, x) = heap
      BY <1>6, <2>3 DEF Offer
    <3> HIDE DEF n, h
    <3> QED
      BY <1>3, <2>1, <2>2, <2>3, <3>1 DEF KeepsLeast, h
  <2>4. CASE heap # {} /\ Less(x, g)
    <3>1. g \in heap /\ \A y \in heap \ {g} : Less(y, g)
      BY <1>1, <1>2, <2>4, TopFacts
    <3> HIDE DEF g
    <3> DEFINE kept == (heap \ {g}) \cup {x}
    <3>2. Offer(heap, cap, x) = kept
      BY <1>6, <2>4 DEF Offer, g
    <3>3. Cardinality(kept) = cap
      <4>1. IsFiniteSet(heap \ {g}) /\ Cardinality(heap \ {g}) = h - 1
        BY <1>2, <3>1, FS_RemoveElement
      <4>2. x \notin heap \ {g}
        BY <1>1
      <4>3. Cardinality(kept) = (h - 1) + 1
        BY <4>1, <4>2, FS_AddElement
      <4> QED
        BY <1>2, <2>1, <4>3
    <3>4. ASSUME NEW y \in kept, NEW z \in (items \cup {x}) \ kept
          PROVE  Less(y, z)
      <4>1. Less(y, g)
        BY <2>4, <3>1
      <4>2. z = g \/ z \in items \ heap
        OBVIOUS
      <4>3. z = g \/ Less(g, z)
        BY <1>1, <3>1, <4>2
      <4>4. y \in ItemSet /\ g \in ItemSet /\ z \in ItemSet
        BY <1>1, <3>1
      <4> QED
        BY <4>1, <4>3, <4>4, LessTotal
    <3>5. kept \in SUBSET (items \cup {x})
      BY <1>1
    <3> HIDE DEF kept, n, h
    <3> QED
      BY <1>3, <2>2, <3>2, <3>3, <3>4, <3>5 DEF KeepsLeast
  <2>5. CASE heap # {} /\ ~ Less(x, g)
    <3>1. g \in heap /\ \A y \in heap \ {g} : Less(y, g)
      BY <1>1, <1>2, <2>5, TopFacts
    <3> HIDE DEF g
    <3>2. Offer(heap, cap, x) = heap
      BY <1>6, <2>5 DEF Offer, g
    <3>3. Less(g, x)
      BY <1>1, <2>5, <3>1, LessTotal
    <3>4. \A y \in heap : Less(y, x)
      BY <1>1, <3>1, <3>3, LessTotal
    <3>5. \A y \in heap, z \in (items \cup {x}) \ heap : Less(y, z)
      BY <1>1, <3>4
    <3>6. heap \in SUBSET (items \cup {x})
      BY <1>1
    <3> HIDE DEF n
    <3> QED
      BY <1>3, <2>1, <2>2, <3>2, <3>5, <3>6 DEF KeepsLeast
  <2> QED
    BY <2>3, <2>4, <2>5
<1> QED
  BY <1>5, <1>6

(* The heap in order is the beginning of all the items in order. *)
LEMMA SortedLeast ==
  ASSUME NEW items \in SUBSET ItemSet, IsFiniteSet(items), NEW cap \in Nat, NEW heap,
         KeepsLeast(heap, items, cap)
  PROVE  Sorted(heap) = SubSeq(Sorted(items), 1, Cardinality(heap))
<1> DEFINE n == Cardinality(items)
           h == Cardinality(heap)
           s == Sorted(items)
           t == Sorted(heap)
<1>1. heap \in SUBSET items /\ \A y \in heap, z \in items \ heap : Less(y, z)
  BY DEF KeepsLeast
<1>2. IsFiniteSet(heap) /\ heap \subseteq ItemSet
  BY <1>1, FS_Subset
<1>3. n \in Nat /\ h \in Nat /\ h <= n
  BY <1>1, <1>2, FS_Subset, FS_CardinalityType
<1>4. ASSUME NEW x \in heap
      PROVE  Below(heap, x) = Below(items, x)
  <2>1. \A z \in items \ heap : ~ Less(z, x)
    BY <1>1, LessTotal
  <2> QED
    BY <1>1, <2>1 DEF Below
<1>5. /\ s \in Seq(items) /\ Len(s) = n
      /\ \A i \in 1 .. n : s[i] \in items /\ Cardinality(Below(items, s[i])) = i - 1
  BY SortedFacts
<1>6. /\ t \in Seq(heap) /\ Len(t) = h
      /\ \A i \in 1 .. h : t[i] \in heap /\ Cardinality(Below(heap, t[i])) = i - 1
  BY <1>2, SortedFacts
<1> HIDE DEF s, t, n, h
<1>7. ASSUME NEW i \in 1 .. h
      PROVE  t[i] = s[i]
  <2>1. i \in 1 .. n /\ i - 1 \in Nat
    BY <1>3
  <2>2. t[i] \in items /\ s[i] \in items
        /\ Cardinality(Below(items, t[i])) = i - 1 /\ Cardinality(Below(items, s[i])) = i - 1
    BY <1>1, <1>4, <1>5, <1>6, <2>1
  <2>3. ~ Less(t[i], s[i]) /\ ~ Less(s[i], t[i])
    BY <2>1, <2>2, Ranks
  <2> QED
    BY <2>2, <2>3, LessTotal
<1>8. SubSeq(s, 1, h) \in Seq(items) /\ Len(SubSeq(s, 1, h)) = h
      /\ \A i \in 1 .. h : SubSeq(s, 1, h)[i] = s[i]
  BY <1>3, <1>5
<1>9. t \in Seq(items)
  BY <1>1, <1>6
<1>10. t = SubSeq(s, 1, h)
  BY <1>3, <1>6, <1>7, <1>8, <1>9
<1> QED
  BY <1>10 DEF s, t, h

=============================================================================
