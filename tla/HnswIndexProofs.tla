-------------------------- MODULE HnswIndexProofs --------------------------
(***************************************************************************)
(* Theorems of HnswIndex for every configuration and every metric.         *)
(***************************************************************************)
EXTENDS HnswIndex, TopKProofs

(***************************************************************************)
(* A set K of positions that the lists of a layer do not lead out of.      *)
(***************************************************************************)
Closed(g, layer, K) ==
  /\ Len(g) \in Nat /\ K \subseteq 1 .. Len(g)
  /\ \A p \in K : g[p].vector \in Vectors /\ Nbrs(g, p, layer) \in Seq(K)

(* The positions in K with their distances from q. *)
CandsOf(g, q, K) == {Cand(g, q, p) : p \in K}

(* Candidates are items, and their keys are the positions. *)
LEMMA CandFacts ==
  ASSUME NEW g, NEW q \in Vectors, NEW K \in SUBSET Nat, \A p \in K : g[p].vector \in Vectors
  PROVE  /\ \A p \in K : Cand(g, q, p) \in CandsOf(g, q, K) /\ Cand(g, q, p).key = p
                         /\ Cand(g, q, p).distance \in Nat
         /\ \A c \in CandsOf(g, q, K) : c.key \in K /\ c = Cand(g, q, c.key)
                                        /\ c.distance \in Nat
         /\ CandsOf(g, q, K) \subseteq ItemSet
<1>1. \A p \in K : Cand(g, q, p).key = p /\ Cand(g, q, p).distance \in Nat
                   /\ Cand(g, q, p) \in ItemSet
  BY HnswAssumption DEF Cand, Item, ItemSet
<1> QED
  BY <1>1 DEF CandsOf

-----------------------------------------------------------------------------
(* Greedy descent. *)

HopsIn(K) == [layer : Nat, from : K, to : K, distance : Nat]

Walks(g, q, K) == [at : CandsOf(g, q, K), hops : Seq(HopsIn(K)), evals : Nat]

LEMMA GreedyStepType ==
  ASSUME NEW g, NEW layer \in Nat, NEW K, Closed(g, layer, K), NEW q \in Vectors,
         NEW w \in Walks(g, q, K), NEW nb \in K
  PROVE  GreedyStep(g, q, layer, w, nb) \in Walks(g, q, K)
<1> DEFINE c == Cand(g, q, nb)
<1>1. K \in SUBSET Nat /\ \A p \in K : g[p].vector \in Vectors
  BY DEF Closed
<1>2. c \in CandsOf(g, q, K) /\ c.key \in K /\ c.distance \in Nat /\ w.at.key \in K
  BY <1>1, CandFacts DEF Walks
<1>3. Hop(layer, w.at.key, c) \in HopsIn(K)
  BY <1>2 DEF Hop, HopsIn
<1> HIDE DEF c
<1>4. Append(w.hops, Hop(layer, w.at.key, c)) \in Seq(HopsIn(K))
  BY <1>3 DEF Walks
<1> QED
  BY <1>2, <1>4 DEF GreedyStep, Walks, c

(* A step on the layer leads from W to W. *)
Stable(g, q, layer, K, W) ==
  /\ W \in SUBSET Walks(g, q, K)
  /\ \A a \in W, nb \in K : GreedyStep(g, q, layer, a, nb) \in W

LEMMA GreedyPassKeeps ==
  ASSUME NEW g, NEW layer \in Nat, NEW K, Closed(g, layer, K), NEW q \in Vectors,
         NEW W, Stable(g, q, layer, K, W), NEW w \in W
  PROVE  GreedyPass(g, q, layer, w) \in W
<1> DEFINE seq == Nbrs(g, w.at.key, layer)
           n == Len(seq)
           step == [i \in 1 .. n |-> [a \in W |-> GreedyStep(g, q, layer, a, seq[i])]]
<1>0. \A a \in W, nb \in K : GreedyStep(g, q, layer, a, nb) \in W
  BY DEF Stable
<1>1. seq \in Seq(K)
  <2>1. w.at \in CandsOf(g, q, K) /\ K \in SUBSET Nat /\ \A p \in K : g[p].vector \in Vectors
    BY DEF Walks, Closed, Stable
  <2>2. w.at.key \in K
    BY <2>1, CandFacts
  <2> QED
    BY <2>2 DEF Closed
<1>2. n \in Nat /\ DOMAIN seq = 1 .. n /\ \A i \in 1 .. n : seq[i] \in K
  BY <1>1
<1> HIDE DEF seq, n
<1>3. step \in [1 .. n -> [W -> W]]
  BY <1>0, <1>2
<1>4. \A i \in 1 .. n, a \in W : step[i][a] = GreedyStep(g, q, layer, a, seq[i])
  OBVIOUS
<1> HIDE DEF step
<1>5. PICK f : Solves(f, n, W, w, step)
  BY <1>2, <1>3, FoldExists
<1>6. f = [s \in SUBSET DOMAIN seq |->
            IF s = {} THEN w
            ELSE GreedyStep(g, q, layer, f[s \ {Lists!Max(s)}], seq[Lists!Max(s)])]
  <2>1. \A s \in SUBSET (1 .. n) : s # {} =>
          f[s] = GreedyStep(g, q, layer, f[s \ {Lists!Max(s)}], seq[Lists!Max(s)])
    <3>1. ASSUME NEW s \in SUBSET (1 .. n), s # {}
          PROVE  f[s] = GreedyStep(g, q, layer, f[s \ {Lists!Max(s)}], seq[Lists!Max(s)])
      <4>1. n \in Nat
        BY <1>2
      <4>2. StepsAt(f, s, n, W, step)
        BY <1>5, <3>1, <4>1, SolutionStep
      <4> QED
        BY <1>4, <4>2 DEF StepsAt
    <3> QED
      BY <3>1
  <2> QED
    BY <1>2, <1>5, <2>1 DEF Solves
<1>7. PICK h : /\ h = [s \in SUBSET DOMAIN seq |->
                         IF s = {} THEN w
                         ELSE GreedyStep(g, q, layer, h[s \ {Lists!Max(s)}], seq[Lists!Max(s)])]
               /\ GreedyPass(g, q, layer, w) = h[DOMAIN seq]
  BY <1>6 DEF GreedyPass, Lists!FoldLeft, Lists!MapThenFoldSet, seq
<1> DEFINE T == [i \in 0 .. n |-> W]
<1>8. h[{}] \in T[0]
  BY <1>2, <1>7
<1>9. ASSUME NEW i \in 1 .. n, h[1 .. i - 1] \in T[i - 1]
      PROVE  h[1 .. i] \in T[i]
  <2>1. h[1 .. i] = GreedyStep(g, q, layer, h[1 .. i - 1], seq[i])
    <3>1. /\ (1 .. i) \in SUBSET DOMAIN seq /\ (1 .. i) # {}
          /\ Lists!Max(1 .. i) = i /\ (1 .. i) \ {i} = 1 .. i - 1
      BY <1>2, LastOfPrefix
    <3> QED
      BY <1>7, <3>1
  <2> QED
    BY <1>0, <1>2, <1>9, <2>1
<1>10. h[1 .. n] \in T[n]
  <2> HIDE DEF T
  <2> QED
    BY <1>2, <1>8, <1>9, FoldInduction
<1> QED
  BY <1>2, <1>7, <1>10

LEMMA ClimbKeeps ==
  ASSUME NEW g, NEW layer \in Nat, NEW K, Closed(g, layer, K), NEW q \in Vectors,
         NEW W, Stable(g, q, layer, K, W), NEW state \in [walk : W, improved : BOOLEAN]
  PROVE  Climb(g, q, layer, state) \in [walk : W, improved : BOOLEAN]
<1>1. GreedyPass(g, q, layer, state.walk) \in W
  BY GreedyPassKeeps
<1> QED
  BY <1>1 DEF Climb

LEMMA GreedyClosestKeeps ==
  ASSUME NEW g, NEW layer \in Nat, NEW K, Closed(g, layer, K), NEW q \in Vectors,
         NEW W, Stable(g, q, layer, K, W), NEW w \in W
  PROVE  GreedyClosest(g, q, layer, w) \in W
<1> DEFINE S == [walk : W, improved : BOOLEAN]
           n == Len(g)
           base == [walk |-> w, improved |-> TRUE]
           T == [i \in 0 .. n |-> S]
           step == [i \in 1 .. n |-> [a \in S |-> Climb(g, q, layer, a)]]
<1>0. \A a \in S : Climb(g, q, layer, a) \in S
  BY ClimbKeeps
<1>1. n \in Nat
  BY DEF Closed
<1>2. base \in T[0]
  BY <1>1
<1> HIDE DEF S, base
<1>3. \A i \in 1 .. n : T[i - 1] = S /\ T[i] = S /\ step[i] \in [S -> S]
  BY <1>0, <1>1
<1>11. Turns(n, T, step)
  BY <1>3 DEF Turns
<1>4. \A i \in 1 .. n : \A a \in S : step[i][a] = Climb(g, q, layer, a)
  OBVIOUS
<1> HIDE DEF step, n, T
<1>5. PICK f : Run(f, n, T, base, step)
  BY <1>1, <1>2, <1>11, LoopSolution
<1>6. f = [i \in 0 .. n |-> IF i = 0 THEN base ELSE Climb(g, q, layer, f[i - 1])]
  <2>1. \A i \in 1 .. n : f[i] = Climb(g, q, layer, f[i - 1])
    BY <1>3, <1>4, <1>5 DEF Run
  <2>2. f = [i \in 0 .. n |-> f[i]] /\ f[0] = base
    BY <1>5 DEF Run
  <2> DEFINE next == [i \in 0 .. n |-> IF i = 0 THEN base ELSE Climb(g, q, layer, f[i - 1])]
  <2>3. ASSUME NEW i \in 0 .. n
        PROVE  f[i] = next[i]
    <3>1. CASE i = 0
      BY <2>2, <3>1
    <3>2. CASE i \in 1 .. n
      <4>1. f[i] = Climb(g, q, layer, f[i - 1]) /\ i # 0
        BY <2>1, <3>2
      <4> QED
        BY <4>1
    <3> QED
      BY <1>1, <3>1, <3>2
  <2>4. next = [i \in 0 .. n |-> next[i]]
    OBVIOUS
  <2> HIDE DEF next
  <2>5. f = next
    BY <2>2, <2>3, <2>4
  <2> QED
    BY <2>5 DEF next
<1>7. PICK h : /\ h = [i \in 0 .. n |-> IF i = 0 THEN base ELSE Climb(g, q, layer, h[i - 1])]
               /\ GreedyClosest(g, q, layer, w) = h[n].walk
  BY <1>6 DEF GreedyClosest, n, base
<1>8. h[0] \in T[0]
  BY <1>1, <1>2, <1>7
<1>9. \A i \in 1 .. n : h[i - 1] \in T[i - 1] => h[i] \in T[i]
  BY <1>0, <1>1, <1>3, <1>7
<1>10. h[n] \in T[n]
  BY <1>1, <1>8, <1>9, ChainInduction
<1> QED
  BY <1>1, <1>7, <1>10 DEF T, S

(***************************************************************************)
(* The descent: on each layer a step leads from W[layer] to W[layer], and  *)
(* the walks of a layer are walks of the next one down.                    *)
(***************************************************************************)
Layered(g, q, high, low, K, W) ==
  /\ high \in Nat /\ low \in Nat /\ low <= high
  /\ \A layer \in low .. high :
       Closed(g, layer, K[layer]) /\ Stable(g, q, layer, K[layer], W[layer])
  /\ \A layer \in low + 1 .. high : W[layer] \subseteq W[layer - 1]

LEMMA WalksMono ==
  ASSUME NEW g, NEW q, NEW J, NEW K, J \subseteq K
  PROVE  Walks(g, q, J) \subseteq Walks(g, q, K)
<1>1. CandsOf(g, q, J) \subseteq CandsOf(g, q, K)
  BY DEF CandsOf
<1>2. HopsIn(J) \subseteq HopsIn(K)
  BY DEF HopsIn
<1>3. Seq(HopsIn(J)) \subseteq Seq(HopsIn(K))
  BY <1>2
<1> QED
  BY <1>1, <1>3 DEF Walks

LEMMA DescendKeeps ==
  ASSUME NEW g, NEW q \in Vectors, NEW high, NEW low, NEW K, NEW W,
         Layered(g, q, high, low, K, W), NEW w \in W[high]
  PROVE  Descend(g, q, w, high, low) \in W[low]
<1> DEFINE n == high - low + 1
           T == [i \in 0 .. n |-> W[IF i = 0 THEN high ELSE high - i + 1]]
           step == [i \in 1 .. n |-> [a \in T[i - 1] |-> GreedyClosest(g, q, high - i + 1, a)]]
<1>1. n \in Nat /\ high \in Nat /\ low \in Nat /\ (IF high < low THEN 0 ELSE n) = n
  BY DEF Layered
<1>2. w \in T[0]
  BY <1>1
<1>3. ASSUME NEW i \in 1 .. n
      PROVE  /\ \A a \in T[i - 1] : GreedyClosest(g, q, high - i + 1, a) \in T[i]
             /\ step[i] \in [T[i - 1] -> T[i]]
  <2> DEFINE layer == high - i + 1
  <2>1. layer \in low .. high /\ layer \in Nat
    BY <1>1
  <2>2. Closed(g, layer, K[layer]) /\ Stable(g, q, layer, K[layer], W[layer])
    BY <2>1 DEF Layered
  <2>3. T[i] = W[layer]
    BY <1>1
  <2>4. T[i - 1] \subseteq W[layer]
    <3>1. CASE i = 1
      BY <3>1, <1>1
    <3>2. CASE i # 1
      <4>1. layer + 1 \in low + 1 .. high /\ i - 1 \in 0 .. n /\ i - 1 # 0
            /\ (layer + 1) - 1 = layer /\ high - (i - 1) + 1 = layer + 1
        BY <1>1, <3>2
      <4>2. W[layer + 1] \subseteq W[layer]
        BY <4>1 DEF Layered
      <4>3. T[i - 1] = W[layer + 1]
        BY <1>1, <4>1
      <4> QED
        BY <4>2, <4>3
    <3> QED
      BY <3>1, <3>2
  <2> HIDE DEF T, layer
  <2>5. \A a \in T[i - 1] : GreedyClosest(g, q, layer, a) \in T[i]
    BY <2>1, <2>2, <2>3, <2>4, GreedyClosestKeeps
  <2>6. step[i] = [a \in T[i - 1] |-> GreedyClosest(g, q, layer, a)]
    BY DEF layer
  <2> QED
    BY <2>5, <2>6 DEF layer
<1>4. \A i \in 1 .. n : \A a \in T[i - 1] : step[i][a] = GreedyClosest(g, q, high - i + 1, a)
  <2> HIDE DEF T
  <2> QED
    OBVIOUS
<1> HIDE DEF step, n, T
<1>12. Turns(n, T, step)
  BY <1>3 DEF Turns
<1>5. PICK f : Run(f, n, T, w, step)
  BY <1>1, <1>2, <1>12, LoopSolution
<1>6. f = [i \in 0 .. n |-> IF i = 0 THEN w ELSE GreedyClosest(g, q, high - i + 1, f[i - 1])]
  <2>1. \A i \in 1 .. n : f[i] = GreedyClosest(g, q, high - i + 1, f[i - 1])
    BY <1>4, <1>5 DEF Run
  <2>2. f = [i \in 0 .. n |-> f[i]] /\ f[0] = w
    BY <1>5 DEF Run
  <2> DEFINE next == [i \in 0 .. n |-> IF i = 0 THEN w
                                       ELSE GreedyClosest(g, q, high - i + 1, f[i - 1])]
  <2>3. ASSUME NEW i \in 0 .. n
        PROVE  f[i] = next[i]
    <3>1. CASE i = 0
      BY <2>2, <3>1
    <3>2. CASE i \in 1 .. n
      <4>1. f[i] = GreedyClosest(g, q, high - i + 1, f[i - 1]) /\ i # 0
        BY <2>1, <3>2
      <4> QED
        BY <4>1
    <3> QED
      BY <1>1, <3>1, <3>2
  <2>4. next = [i \in 0 .. n |-> next[i]]
    OBVIOUS
  <2> HIDE DEF next
  <2>5. f = next
    BY <2>2, <2>3, <2>4
  <2> QED
    BY <2>5 DEF next
<1>7. PICK h : /\ h = [i \in 0 .. n |-> IF i = 0 THEN w
                                        ELSE GreedyClosest(g, q, high - i + 1, h[i - 1])]
               /\ Descend(g, q, w, high, low) = h[n]
  <2>1. (IF high < low THEN 0 ELSE high - low + 1) = n
    BY <1>1 DEF n
  <2> QED
    BY <1>6, <2>1 DEF Descend
<1>8. h[0] \in T[0]
  BY <1>1, <1>2, <1>7
<1>9. ASSUME NEW i \in 1 .. n, h[i - 1] \in T[i - 1]
      PROVE  h[i] \in T[i]
  <2>1. i \in 0 .. n /\ i # 0
    BY <1>1
  <2>2. h[i] = GreedyClosest(g, q, high - i + 1, h[i - 1])
    BY <1>7, <2>1
  <2> QED
    BY <1>3, <1>9, <2>2
<1>10. h[n] \in T[n]
  BY <1>1, <1>8, <1>9, ChainInduction
<1>11. T[n] = W[low]
  <2>1. n # 0 /\ high - n + 1 = low
    BY <1>1 DEF n, Layered
  <2>2. T[n] = W[IF n = 0 THEN high ELSE high - n + 1]
    BY <1>1 DEF T
  <2> QED
    BY <2>1, <2>2
<1> QED
  BY <1>7, <1>10, <1>11

(* The hop before the one numbered i + 1; before the first one the start. *)
LastHop(w, start, high, i) ==
  IF i = 0 THEN [to |-> start.key, distance |-> start.distance, layer |-> high] ELSE w.hops[i]

(***************************************************************************)
(* The hops lead from the start to where the walk is, each one closer than *)
(* the one before, none on a higher layer, and all on layers from low up.  *)
(***************************************************************************)
Hopped(w, start, high, low) ==
  /\ \A i \in 1 .. Len(w.hops) :
       /\ w.hops[i].from = LastHop(w, start, high, i - 1).to
       /\ w.hops[i].distance < LastHop(w, start, high, i - 1).distance
       /\ w.hops[i].layer \in low .. LastHop(w, start, high, i - 1).layer
  /\ w.at.key = LastHop(w, start, high, Len(w.hops)).to
  /\ w.at.distance = LastHop(w, start, high, Len(w.hops)).distance
  /\ w.evals >= 1

LEMMA StartHopped ==
  ASSUME NEW g, NEW q, NEW K, NEW start \in CandsOf(g, q, K), NEW high, NEW low
  PROVE  StartWalk(start) \in Walks(g, q, K) /\ Hopped(StartWalk(start), start, high, low)
<1>1. << >> \in Seq(HopsIn(K)) /\ Len(<< >>) = 0
  OBVIOUS
<1> QED
  BY <1>1 DEF StartWalk, Walks, Hopped, LastHop

LEMMA HoppedMono ==
  ASSUME NEW g, NEW q, NEW K, NEW w \in Walks(g, q, K), NEW start, NEW high \in Nat,
         NEW low \in Nat \ {0}, Hopped(w, start, high, low)
  PROVE  Hopped(w, start, high, low - 1)
<1> SUFFICES ASSUME NEW i \in 1 .. Len(w.hops)
             PROVE  w.hops[i].layer \in low - 1 .. LastHop(w, start, high, i - 1).layer
  BY DEF Hopped
<1>1. w.hops[i].layer \in low .. LastHop(w, start, high, i - 1).layer
  BY DEF Hopped
<1>2. LastHop(w, start, high, i - 1).layer \in Nat
  <2>1. CASE i = 1
    BY <2>1 DEF LastHop
  <2>2. CASE i # 1
    <3>1. w.hops \in Seq(HopsIn(K))
      BY DEF Walks
    <3>2. i - 1 \in 1 .. Len(w.hops)
      BY <2>2, <3>1
    <3>3. w.hops[i - 1] \in HopsIn(K)
      BY <3>1, <3>2
    <3> QED
      BY <3>2, <3>3 DEF LastHop, HopsIn
  <2> QED
    BY <2>1, <2>2
<1> DEFINE x == w.hops[i].layer
           y == LastHop(w, start, high, i - 1).layer
<1>3. x \in Nat
  <2>1. w.hops \in Seq(HopsIn(K))
    BY DEF Walks
  <2>2. w.hops[i] \in HopsIn(K)
    BY <2>1
  <2> QED
    BY <2>2 DEF HopsIn
<1>4. x \in low .. y /\ y \in Nat
  BY <1>1, <1>2
<1> HIDE DEF x, y
<1>5. x \in low - 1 .. y
  BY <1>3, <1>4
<1> QED
  BY <1>5 DEF x, y

LEMMA StepHopped ==
  ASSUME NEW g, NEW layer \in Nat, NEW K, Closed(g, layer, K), NEW q \in Vectors,
         NEW w \in Walks(g, q, K), NEW nb \in K, NEW start, NEW high \in Nat, layer <= high,
         Hopped(w, start, high, layer)
  PROVE  Hopped(GreedyStep(g, q, layer, w, nb), start, high, layer)
<1> DEFINE c == Cand(g, q, nb)
           hop == Hop(layer, w.at.key, c)
           next == GreedyStep(g, q, layer, w, nb)
           n == Len(w.hops)
<1>1. w.hops \in Seq(HopsIn(K)) /\ n \in Nat /\ w.evals \in Nat
      /\ \A i \in 1 .. n : w.hops[i] \in HopsIn(K)
  BY DEF Walks
<1>2. CASE ~ c.distance < w.at.distance
  <2>1. next.at = w.at /\ next.hops = w.hops /\ next.evals = w.evals + 1
    BY <1>2 DEF GreedyStep, Walks
  <2> HIDE DEF next
  <2>2. \A i : LastHop(next, start, high, i) = LastHop(w, start, high, i)
    BY <2>1 DEF LastHop
  <2> QED
    BY <1>1, <2>1, <2>2 DEF Hopped, next
<1>3. CASE c.distance < w.at.distance
  <2>1. next.at = c /\ next.hops = Append(w.hops, hop) /\ next.evals = w.evals + 1
    BY <1>3 DEF GreedyStep
  <2>2. hop.layer = layer /\ hop.from = w.at.key /\ hop.to = c.key /\ hop.distance = c.distance
    BY DEF Hop
  <2> HIDE DEF next, hop, c
  <2>3. /\ Len(next.hops) = n + 1 /\ next.hops[n + 1] = hop
        /\ \A i \in 1 .. n : next.hops[i] = w.hops[i]
    BY <1>1, <2>1
  <2> HIDE DEF n
  <2>4. /\ \A i \in 0 .. n : LastHop(next, start, high, i) = LastHop(w, start, high, i)
        /\ LastHop(next, start, high, n + 1) = hop
    BY <1>1, <2>3 DEF LastHop
  <2>5. layer \in layer .. LastHop(w, start, high, n).layer
    <3>1. CASE n = 0
      BY <3>1 DEF LastHop
    <3>2. CASE n # 0
      <4>1. n \in 1 .. n /\ LastHop(w, start, high, n) = w.hops[n]
        BY <1>1, <3>2 DEF LastHop
      <4>2. w.hops[n].layer >= layer /\ w.hops[n].layer \in Nat
        <5>1. w.hops[n] \in HopsIn(K)
          BY <1>1, <4>1
        <5>2. w.hops[n].layer \in layer .. LastHop(w, start, high, n - 1).layer
          BY <4>1 DEF Hopped, n
        <5> QED
          BY <5>1, <5>2 DEF HopsIn
      <4> QED
        BY <4>1, <4>2
    <3> QED
      BY <3>1, <3>2
  <2>6. ASSUME NEW i \in 1 .. n + 1
        PROVE  /\ next.hops[i].from = LastHop(next, start, high, i - 1).to
               /\ next.hops[i].distance < LastHop(next, start, high, i - 1).distance
               /\ next.hops[i].layer \in layer .. LastHop(next, start, high, i - 1).layer
    <3>1. CASE i \in 1 .. n
      <4>1. i - 1 \in 0 .. n /\ next.hops[i] = w.hops[i]
        BY <1>1, <2>3, <3>1
      <4>2. LastHop(next, start, high, i - 1) = LastHop(w, start, high, i - 1)
        BY <2>4, <4>1
      <4> QED
        BY <3>1, <4>1, <4>2 DEF Hopped, n
    <3>2. CASE i = n + 1
      <4>1. i - 1 = n /\ n \in 0 .. n /\ next.hops[i] = hop
        BY <1>1, <2>3, <3>2
      <4>2. LastHop(next, start, high, i - 1) = LastHop(w, start, high, n)
        BY <2>4, <4>1
      <4>3. /\ w.at.key = LastHop(w, start, high, n).to
            /\ w.at.distance = LastHop(w, start, high, n).distance
        BY DEF Hopped, n
      <4> QED
        BY <1>3, <2>2, <2>5, <4>1, <4>2, <4>3 DEF c
    <3> QED
      BY <1>1, <3>1, <3>2
  <2>7. next.evals >= 1
    BY <1>1, <2>1 
  <2>8. next.at.key = LastHop(next, start, high, n + 1).to
        /\ next.at.distance = LastHop(next, start, high, n + 1).distance
    BY <2>1, <2>2, <2>4
  <2> QED
    BY <2>3, <2>6, <2>7, <2>8 DEF Hopped, next
<1> QED
  BY <1>2, <1>3

-----------------------------------------------------------------------------
(* The beam. *)

EdgesIn(K) == [from : K, to : K, distance : Nat, status : {"rejected", "admitted", "routed"}]

(* The beams whose nodes are in K and whose results are admitted.  There are
   results whenever there must be some. *)
Beams(g, q, K, admitted, some) ==
  {b \in [visited : SUBSET K, frontier : SUBSET CandsOf(g, q, K),
          best : SUBSET CandsOf(g, q, K \cap admitted), edges : Seq(EdgesIn(K))] :
     some => b.best # {}}

(* Finitely many positions have finitely many candidates. *)
LEMMA CandsFinite ==
  ASSUME NEW g, NEW layer, NEW K, Closed(g, layer, K), NEW q \in Vectors
  PROVE  /\ K \in SUBSET Nat /\ \A p \in K : g[p].vector \in Vectors
         /\ CandsOf(g, q, K) \subseteq ItemSet
         /\ \A b \in SUBSET CandsOf(g, q, K) : IsFiniteSet(b) /\ b \subseteq ItemSet
<1>1. K \in SUBSET Nat /\ (\A p \in K : g[p].vector \in Vectors) /\ K \subseteq 1 .. Len(g)
      /\ Len(g) \in Nat
  BY DEF Closed
<1>2. IsFiniteSet(K)
  <2>1. IsFiniteSet(1 .. Len(g)) /\ K \in SUBSET (1 .. Len(g))
    BY <1>1, FS_Interval
  <2> QED
    BY <2>1, FS_Subset
<1>3. CandsOf(g, q, K) \subseteq ItemSet
  BY <1>1, CandFacts
<1> DEFINE f == [p \in K |-> Cand(g, q, p)]
<1>4. f \in Surjection(K, CandsOf(g, q, K))
  BY DEF Surjection, CandsOf
<1> HIDE DEF f
<1>5. IsFiniteSet(CandsOf(g, q, K))
  BY <1>2, <1>4, FS_Surjection
<1> QED
  BY <1>1, <1>3, <1>5, FS_Subset

LEMMA EvaluateType ==
  ASSUME NEW g, NEW layer \in Nat, NEW K, Closed(g, layer, K), NEW q \in Vectors,
         NEW ef \in Nat \ {0}, NEW admitted, NEW some \in BOOLEAN,
         NEW b \in Beams(g, q, K, admitted, some), NEW from \in K, NEW nb \in K
  PROVE  Evaluate(g, q, ef, admitted, from, b, nb) \in Beams(g, q, K, admitted, some)
<1> DEFINE c == Cand(g, q, nb)
           kept == Room(b, ef) \/ CloserThanWorst(c, b.best)
           grown == b.best \cup {c}
           status == IF ~ kept THEN "rejected" ELSE IF nb \in admitted THEN "admitted" ELSE "routed"
           best == IF status # "admitted" THEN b.best
                   ELSE IF Cardinality(grown) > ef THEN grown \ {Greatest(grown)} ELSE grown
<1>1. /\ b.visited \in SUBSET K /\ b.frontier \in SUBSET CandsOf(g, q, K)
      /\ b.best \in SUBSET CandsOf(g, q, K \cap admitted) /\ b.edges \in Seq(EdgesIn(K))
      /\ some => b.best # {}
  BY DEF Beams
<1>2. c \in CandsOf(g, q, K) /\ c.key \in K /\ c.distance \in Nat
  BY CandsFinite, CandFacts
<1>3. status \in {"rejected", "admitted", "routed"} /\ (status = "admitted" => nb \in admitted)
  OBVIOUS
<1>4. Edge(from, c, status) \in EdgesIn(K)
  <2> HIDE DEF c, status
  <2> QED
    BY <1>2, <1>3 DEF Edge, EdgesIn
<1>5. best \in SUBSET CandsOf(g, q, K \cap admitted) /\ (some => best # {})
  <2>1. CASE status # "admitted"
    BY <1>1, <2>1
  <2>2. CASE status = "admitted"
    <3>1. grown \in SUBSET CandsOf(g, q, K \cap admitted)
      BY <1>1, <1>3, <2>2 DEF CandsOf
    <3>2. CASE ~ Cardinality(grown) > ef
      BY <2>2, <3>1, <3>2
    <3>3. CASE Cardinality(grown) > ef
      <4>1. CandsOf(g, q, K \cap admitted) \subseteq CandsOf(g, q, K)
        BY DEF CandsOf
      <4>2. IsFiniteSet(grown)
        BY <3>1, <4>1, CandsFinite
      <4>3. grown \ {Greatest(grown)} # {}
        <5> DEFINE top == Greatest(grown)
        <5>1. ASSUME grown \ {top} = {}
              PROVE  FALSE
          <6>1. grown \in SUBSET {top}
            BY <5>1
          <6> HIDE DEF top, grown
          <6>2. Cardinality({top}) = 1 /\ IsFiniteSet({top})
            BY FS_Singleton
          <6>3. Cardinality(grown) <= 1
            BY <6>1, <6>2, FS_Subset
          <6>4. Cardinality(grown) \in Nat
            BY <4>2, FS_CardinalityType
          <6> QED
            BY <3>3, <6>3, <6>4
        <5> QED
          BY <5>1
      <4> HIDE DEF grown
      <4>4. best = grown \ {Greatest(grown)}
        BY <2>2, <3>3 DEF grown
      <4> HIDE DEF best
      <4> QED
        BY <3>1, <4>3, <4>4
    <3> QED
      BY <3>2, <3>3
  <2> QED
    BY <2>1, <2>2
<1> DEFINE frontier == IF kept THEN b.frontier \cup {c} ELSE b.frontier
           edges == Append(b.edges, Edge(from, c, status))
<1>6. frontier \in SUBSET CandsOf(g, q, K) /\ edges \in Seq(EdgesIn(K))
  <2> HIDE DEF c, status, kept
  <2> QED
    BY <1>1, <1>2, <1>4
<1>7. Evaluate(g, q, ef, admitted, from, b, nb)
        = IF nb \in b.visited THEN b
          ELSE [visited |-> b.visited \cup {nb}, frontier |-> frontier, best |-> best,
                edges |-> edges]
  BY DEF Evaluate
<1> HIDE DEF frontier, edges, best
<1>8. CASE nb \in b.visited
  BY <1>7, <1>8
<1>9. CASE nb \notin b.visited
  <2> DEFINE next == [visited |-> b.visited \cup {nb}, frontier |-> frontier, best |-> best,
                      edges |-> edges]
  <2>1. b.visited \cup {nb} \in SUBSET K
    BY <1>1
  <2>2. next \in [visited : SUBSET K, frontier : SUBSET CandsOf(g, q, K),
                  best : SUBSET CandsOf(g, q, K \cap admitted), edges : Seq(EdgesIn(K))]
    BY <1>5, <1>6, <2>1
  <2>3. some => next.best # {}
    BY <1>5
  <2> QED
    BY <1>7, <1>9, <2>2, <2>3 DEF Beams
<1> QED
  BY <1>8, <1>9

(* The neighbors in seq evaluated one after the other. *)
EvaluateAll(g, q, ef, admitted, from, beam, seq) ==
  Lists!FoldLeft(LAMBDA b, nb : Evaluate(g, q, ef, admitted, from, b, nb), beam, seq)

(***************************************************************************)
(* T says, of every number of neighbors, which beams there can be once so  *)
(* many have been evaluated.                                               *)
(***************************************************************************)
LEMMA EvaluateAllKeeps ==
  ASSUME NEW g, NEW layer \in Nat, NEW K, Closed(g, layer, K), NEW q \in Vectors,
         NEW ef \in Nat \ {0}, NEW admitted, NEW some \in BOOLEAN,
         NEW popped \in Beams(g, q, K, admitted, some), NEW from \in K, NEW seq \in Seq(K),
         NEW T, popped \in T[0],
         \A i \in 1 .. Len(seq) : \A b \in Beams(g, q, K, admitted, some) \cap T[i - 1] :
           Evaluate(g, q, ef, admitted, from, b, seq[i]) \in T[i]
  PROVE  EvaluateAll(g, q, ef, admitted, from, popped, seq)
           \in Beams(g, q, K, admitted, some) \cap T[Len(seq)]
<1> DEFINE B == Beams(g, q, K, admitted, some)
           n == Len(seq)
           step == [i \in 1 .. n |-> [b \in B |-> Evaluate(g, q, ef, admitted, from, b, seq[i])]]
           loop == Lists!FoldLeft(LAMBDA b, nb :
                                    Evaluate(g, q, ef, admitted, from, b, nb), popped, seq)
<1>1. n \in Nat /\ DOMAIN seq = 1 .. n /\ \A i \in 1 .. n : seq[i] \in K
  OBVIOUS
<1>0. popped \in T[0] /\ \A i \in 1 .. n : \A b \in B \cap T[i - 1] :
                           Evaluate(g, q, ef, admitted, from, b, seq[i]) \in T[i]
  OBVIOUS
<1> HIDE DEF n
<1>2. \A i \in 1 .. n, b \in B : Evaluate(g, q, ef, admitted, from, b, seq[i]) \in B
  BY <1>1, EvaluateType
<1>3. popped \in B
  OBVIOUS
<1> HIDE DEF B
<1>4. step \in [1 .. n -> [B -> B]]
  BY <1>2
<1>5. \A i \in 1 .. n, b \in B : step[i][b] = Evaluate(g, q, ef, admitted, from, b, seq[i])
  OBVIOUS
<1> HIDE DEF step
<1>6. PICK f : Solves(f, n, B, popped, step)
  BY <1>1, <1>3, <1>4, FoldExists
<1>7. f = [s \in SUBSET DOMAIN seq |->
             IF s = {} THEN popped
             ELSE Evaluate(g, q, ef, admitted, from, f[s \ {Lists!Max(s)}], seq[Lists!Max(s)])]
  <2>1. \A s \in SUBSET (1 .. n) : s # {} =>
          f[s] = Evaluate(g, q, ef, admitted, from, f[s \ {Lists!Max(s)}], seq[Lists!Max(s)])
    <3>1. ASSUME NEW s \in SUBSET (1 .. n), s # {}
          PROVE  f[s] = Evaluate(g, q, ef, admitted, from, f[s \ {Lists!Max(s)}], seq[Lists!Max(s)])
      <4>1. n \in Nat
        BY <1>1
      <4>2. StepsAt(f, s, n, B, step)
        BY <1>6, <3>1, <4>1, SolutionStep
      <4> QED
        BY <1>5, <4>2 DEF StepsAt
    <3> QED
      BY <3>1
  <2> QED
    BY <1>1, <1>6, <2>1 DEF Solves
<1>8. PICK h :
        /\ h = [s \in SUBSET DOMAIN seq |->
                  IF s = {} THEN popped
                  ELSE Evaluate(g, q, ef, admitted, from, h[s \ {Lists!Max(s)}],
                                seq[Lists!Max(s)])]
        /\ loop = h[DOMAIN seq]
  BY <1>7 DEF Lists!FoldLeft, Lists!MapThenFoldSet
<1> HIDE DEF loop
<1> DEFINE R == [i \in 0 .. n |-> B \cap T[i]]
<1>9. h[{}] \in R[0]
  BY <1>0, <1>1, <1>3, <1>8
<1>10. ASSUME NEW i \in 1 .. n, h[1 .. i - 1] \in R[i - 1]
       PROVE  h[1 .. i] \in R[i]
  <2>1. h[1 .. i] = Evaluate(g, q, ef, admitted, from, h[1 .. i - 1], seq[i])
    <3>1. /\ (1 .. i) \in SUBSET DOMAIN seq /\ (1 .. i) # {}
          /\ Lists!Max(1 .. i) = i /\ (1 .. i) \ {i} = 1 .. i - 1
      BY <1>1, LastOfPrefix
    <3> QED
      BY <1>8, <3>1
  <2>2. h[1 .. i - 1] \in B \cap T[i - 1]
    BY <1>1, <1>10
  <2>3. h[1 .. i] \in B
    BY <1>2, <2>1, <2>2
  <2>4. h[1 .. i] \in T[i]
    BY <1>0, <2>1, <2>2
  <2> QED
    BY <1>1, <2>3, <2>4
<1>11. h[1 .. n] \in R[n]
  <2> HIDE DEF R
  <2> QED
    BY <1>1, <1>9, <1>10, FoldInduction
<1>12. h[DOMAIN seq] \in B \cap T[n]
  BY <1>1, <1>11
<1>13. loop \in B \cap T[n]
  BY <1>8, <1>12
<1>14. loop = EvaluateAll(g, q, ef, admitted, from, popped, seq)
  BY DEF loop, EvaluateAll
<1> QED
  BY <1>13, <1>14 DEF B, n

LEMMA ExpandType ==
  ASSUME NEW g, NEW layer \in Nat, NEW K, Closed(g, layer, K), NEW q \in Vectors,
         NEW ef \in Nat \ {0}, NEW admitted, NEW some \in BOOLEAN,
         NEW beam \in Beams(g, q, K, admitted, some)
  PROVE  Expand(g, q, ef, layer, admitted, beam) \in Beams(g, q, K, admitted, some)
<1> DEFINE B == Beams(g, q, K, admitted, some)
           current == Least(beam.frontier)
           popped == [beam EXCEPT !.frontier = @ \ {current}]
           seq == Nbrs(g, current.key, layer)
           loop == Lists!FoldLeft(LAMBDA b, nb :
                                    Evaluate(g, q, ef, admitted, current.key, b, nb), popped, seq)
<1>1. ASSUME NEW less \in SUBSET beam.frontier
      PROVE  [beam EXCEPT !.frontier = less] \in B
  BY <1>1 DEF Beams
<1>2. ASSUME beam.frontier # {}
      PROVE  current.key \in K
  <2>1. beam.frontier \in SUBSET CandsOf(g, q, K)
    BY DEF Beams
  <2>2. IsFiniteSet(beam.frontier) /\ beam.frontier \subseteq ItemSet
    BY <2>1, CandsFinite
  <2>3. current \in beam.frontier
    BY <1>2, <2>2, TopFacts
  <2>4. current \in CandsOf(g, q, K)
    BY <2>1, <2>3
  <2> HIDE DEF current
  <2> QED
    BY <2>4, CandsFinite, CandFacts
<1>3. ASSUME beam.frontier # {}
      PROVE  loop \in B
  <2>1. popped \in B
    BY <1>1
  <2> HIDE DEF popped, current
  <2>2. current.key \in K
    BY <1>2, <1>3
  <2>3. seq \in Seq(K)
    BY <2>2 DEF Closed
  <2> HIDE DEF seq
  <2> DEFINE T == [i \in 0 .. Len(seq) |-> B]
  <2>4. Len(seq) \in Nat
    BY <2>3
  <2>5. popped \in T[0]
    BY <2>1, <2>4
  <2>6. \A i \in 1 .. Len(seq) : \A b \in B \cap T[i - 1] :
          Evaluate(g, q, ef, admitted, current.key, b, seq[i]) \in T[i]
    <3>1. \A i \in 1 .. Len(seq) : seq[i] \in K
      BY <2>3
    <3> QED
      BY <2>2, <2>4, <3>1, EvaluateType
  <2> HIDE DEF B, loop
  <2>7. EvaluateAll(g, q, ef, admitted, current.key, popped, seq) \in B \cap T[Len(seq)]
    <3> HIDE DEF T
    <3> QED
      BY <2>1, <2>2, <2>3, <2>5, <2>6, EvaluateAllKeeps DEF B
  <2>8. loop = EvaluateAll(g, q, ef, admitted, current.key, popped, seq)
    BY DEF loop, EvaluateAll
  <2> QED
    BY <2>7, <2>8
<1>4. Expand(g, q, ef, layer, admitted, beam) \in {beam, [beam EXCEPT !.frontier = {}], loop}
      /\ (beam.frontier = {} => Expand(g, q, ef, layer, admitted, beam) = beam)
  BY DEF Expand
<1>5. [beam EXCEPT !.frontier = {}] \in B
  BY <1>1
<1> HIDE DEF loop
<1> QED
  BY <1>3, <1>4, <1>5

LEMMA StartBeamType ==
  ASSUME NEW g, NEW layer \in Nat, NEW K, Closed(g, layer, K), NEW q \in Vectors,
         NEW admitted, NEW start \in CandsOf(g, q, K)
  PROVE  StartBeam(start, admitted) \in Beams(g, q, K, admitted, start.key \in admitted)
<1>1. start.key \in K /\ start = Cand(g, q, start.key)
  BY CandsFinite, CandFacts
<1>2. start.key \in admitted => start \in CandsOf(g, q, K \cap admitted)
  BY <1>1 DEF CandsOf
<1>3. << >> \in Seq(EdgesIn(K))
  OBVIOUS
<1> QED
  BY <1>1, <1>2, <1>3 DEF StartBeam, Beams

(* C says, of every number of turns, which beams there can be after them. *)
LEMMA BeamSearchKeeps ==
  ASSUME NEW g, NEW layer \in Nat, NEW K, Closed(g, layer, K), NEW q \in Vectors,
         NEW ef \in Nat \ {0}, NEW admitted, NEW start \in CandsOf(g, q, K),
         NEW C, StartBeam(start, admitted) \in C[0],
         \A i \in 1 .. Len(g) + 1 :
           \A b \in Beams(g, q, K, admitted, start.key \in admitted) \cap C[i - 1] :
             Expand(g, q, ef, layer, admitted, b) \in C[i]
  PROVE  BeamSearch(g, q, start, ef, layer, admitted)
           \in Beams(g, q, K, admitted, start.key \in admitted) \cap C[Len(g) + 1]
<1> DEFINE some == start.key \in admitted
           B == Beams(g, q, K, admitted, some)
           n == Len(g) + 1
           base == StartBeam(start, admitted)
           T == [i \in 0 .. n |-> B \cap C[i]]
           step == [i \in 1 .. n |-> [b \in T[i - 1] |-> Expand(g, q, ef, layer, admitted, b)]]
<1>1. n \in Nat
  BY DEF Closed
<1>2. some \in BOOLEAN
  OBVIOUS
<1>3. Len(g) + 1 = n
  OBVIOUS
<1>4. base \in B
  BY StartBeamType
<1>0. base \in C[0] /\ \A i \in 1 .. n : \A b \in B \cap C[i - 1] :
                         Expand(g, q, ef, layer, admitted, b) \in C[i]
  OBVIOUS
<1> HIDE DEF some
<1>5. \A b \in B : Expand(g, q, ef, layer, admitted, b) \in B
  BY <1>2, ExpandType
<1> HIDE DEF B, base
<1>6. \A i \in 1 .. n : \A b \in T[i - 1] : Expand(g, q, ef, layer, admitted, b) \in T[i]
  <2>1. \A i \in 1 .. n : T[i - 1] = B \cap C[i - 1] /\ T[i] = B \cap C[i]
    BY <1>1
  <2> QED
    BY <1>0, <1>5, <2>1
<1>7. Turns(n, T, step)
  <2> HIDE DEF T
  <2> QED
    BY <1>6 DEF Turns
<1>8. base \in T[0]
  BY <1>0, <1>1, <1>4
<1>9. \A i \in 1 .. n : \A b \in T[i - 1] : step[i][b] = Expand(g, q, ef, layer, admitted, b)
  OBVIOUS
<1> HIDE DEF step, n, T
<1>10. PICK f : Run(f, n, T, base, step)
  BY <1>1, <1>7, <1>8, LoopSolution
<1>11. f = [i \in 0 .. n |-> IF i = 0 THEN base ELSE Expand(g, q, ef, layer, admitted, f[i - 1])]
  <2> DEFINE next == [i \in 0 .. n |-> IF i = 0 THEN base
                                       ELSE Expand(g, q, ef, layer, admitted, f[i - 1])]
  <2>1. f = [i \in 0 .. n |-> f[i]] /\ f[0] = base
    BY <1>10 DEF Run
  <2>2. ASSUME NEW i \in 1 .. n
        PROVE  f[i] = Expand(g, q, ef, layer, admitted, f[i - 1])
    <3>1. f[i - 1] \in T[i - 1] /\ f[i] = step[i][f[i - 1]]
      BY <1>10 DEF Run
    <3> QED
      BY <1>9, <3>1
  <2>3. ASSUME NEW i \in 0 .. n
        PROVE  f[i] = next[i]
    <3>1. CASE i = 0
      BY <2>1, <3>1
    <3>2. CASE i \in 1 .. n
      <4>1. f[i] = Expand(g, q, ef, layer, admitted, f[i - 1]) /\ i # 0
        BY <2>2, <3>2
      <4> QED
        BY <4>1
    <3> QED
      BY <1>1, <3>1, <3>2
  <2>4. next = [i \in 0 .. n |-> next[i]]
    OBVIOUS
  <2> HIDE DEF next
  <2>5. f = next
    BY <2>1, <2>3, <2>4
  <2> QED
    BY <2>5 DEF next
<1>12. PICK h : /\ h = [i \in 0 .. n |-> IF i = 0 THEN base
                                         ELSE Expand(g, q, ef, layer, admitted, h[i - 1])]
                /\ BeamSearch(g, q, start, ef, layer, admitted) = h[n]
  BY <1>11 DEF BeamSearch, n, base
<1>13. h[0] \in T[0]
  BY <1>1, <1>8, <1>12
<1>14. \A i \in 1 .. n : h[i - 1] \in T[i - 1] => h[i] \in T[i]
  <2>1. \A i \in 1 .. n : h[i] = Expand(g, q, ef, layer, admitted, h[i - 1])
    BY <1>1, <1>12
  <2> QED
    BY <1>6, <2>1
<1>15. \A i \in 0 .. n : h[i] \in T[i]
  BY <1>1, <1>13, <1>14, ChainInduction
<1>16. h[n] \in B \cap C[n]
  BY <1>1, <1>15 DEF T
<1> QED
  BY <1>12, <1>16 DEF n, B, some

LEMMA BeamSearchType ==
  ASSUME NEW g, NEW layer \in Nat, NEW K, Closed(g, layer, K), NEW q \in Vectors,
         NEW ef \in Nat \ {0}, NEW admitted, NEW start \in CandsOf(g, q, K)
  PROVE  BeamSearch(g, q, start, ef, layer, admitted)
           \in Beams(g, q, K, admitted, start.key \in admitted)
<1> DEFINE some == start.key \in admitted
           all == Beams(g, q, K, admitted, some) \cup {StartBeam(start, admitted)}
           C == [i \in 0 .. Len(g) + 1 |-> all]
<1>1. Len(g) \in Nat /\ some \in BOOLEAN
  BY DEF Closed
<1>2. StartBeam(start, admitted) \in C[0]
  BY <1>1
<1>3. \A b \in Beams(g, q, K, admitted, some) : Expand(g, q, ef, layer, admitted, b) \in all
  <2> HIDE DEF some
  <2> QED
    BY <1>1, ExpandType
<1> HIDE DEF all
<1>4. \A i \in 1 .. Len(g) + 1 : \A b \in Beams(g, q, K, admitted, some) \cap C[i - 1] :
        Expand(g, q, ef, layer, admitted, b) \in C[i]
  BY <1>1, <1>3
<1> HIDE DEF C
<1> QED
  BY <1>2, <1>4, BeamSearchKeeps

(***************************************************************************)
(* Lists of candidates: each of a set K of positions at most once.         *)
(***************************************************************************)
CandLists(g, q, K) ==
  {s \in Seq(CandsOf(g, q, K)) :
     \A i, j \in 1 .. Len(s) : s[i].key = s[j].key => i = j}

LEMMA SortedCands ==
  ASSUME NEW g, NEW layer, NEW K, Closed(g, layer, K), NEW q \in Vectors,
         NEW J \in SUBSET K, NEW b \in SUBSET CandsOf(g, q, J)
  PROVE  Sorted(b) \in CandLists(g, q, J) /\ (b # {} => Len(Sorted(b)) >= 1)
<1>1. IsFiniteSet(b) /\ b \subseteq ItemSet
  <2>1. CandsOf(g, q, J) \subseteq CandsOf(g, q, K)
    BY DEF CandsOf
  <2> QED
    BY <2>1, CandsFinite
<1> DEFINE n == Cardinality(b)
           s == Sorted(b)
<1>2. /\ n \in Nat /\ s \in Seq(b) /\ Len(s) = n
      /\ \A i \in 1 .. n : s[i] \in b
      /\ \A i, j \in 1 .. n : i < j <=> Less(s[i], s[j])
  BY <1>1, SortedFacts, Ranks
<1>3. s \in Seq(CandsOf(g, q, J))
  <2> HIDE DEF s
  <2> QED
    BY <1>2
<1>4. ASSUME NEW i \in 1 .. n, NEW j \in 1 .. n, s[i].key = s[j].key
      PROVE  i = j
  <2>1. s[i] \in CandsOf(g, q, J) /\ s[j] \in CandsOf(g, q, J)
    BY <1>2
  <2>2. J \in SUBSET Nat /\ \A p \in J : g[p].vector \in Vectors
    BY CandsFinite
  <2> HIDE DEF s
  <2>3. s[i] = Cand(g, q, s[i].key) /\ s[j] = Cand(g, q, s[j].key)
    BY <2>1, <2>2, CandFacts
  <2>4. s[i] = s[j] /\ s[i] \in ItemSet
    BY <1>1, <1>2, <1>4, <2>3
  <2>5. ~ Less(s[i], s[j]) /\ ~ Less(s[j], s[i])
    BY <2>4, LessTotal
  <2> QED
    BY <1>2, <2>5
<1>5. b # {} => n >= 1
  BY <1>1, <1>2, FS_EmptySet
<1> HIDE DEF s, n
<1> QED
  BY <1>2, <1>3, <1>4, <1>5 DEF CandLists, s

LEMMA SearchLayerType ==
  ASSUME NEW g, NEW layer \in Nat, NEW K, Closed(g, layer, K), NEW q \in Vectors,
         NEW ef \in Nat \ {0}, NEW admitted, NEW start \in CandsOf(g, q, K)
  PROVE  /\ SearchLayer(g, q, start, ef, layer, admitted) \in CandLists(g, q, K \cap admitted)
         /\ start.key \in admitted => Len(SearchLayer(g, q, start, ef, layer, admitted)) >= 1
<1> DEFINE b == BeamSearch(g, q, start, ef, layer, admitted)
<1>1. b \in Beams(g, q, K, admitted, start.key \in admitted)
  BY BeamSearchType
<1>2. b.best \in SUBSET CandsOf(g, q, K \cap admitted)
      /\ (start.key \in admitted => b.best # {})
  <2> HIDE DEF b
  <2> QED
    BY <1>1 DEF Beams
<1>3. K \cap admitted \in SUBSET K
  OBVIOUS
<1> HIDE DEF b
<1>4. /\ Sorted(b.best) \in CandLists(g, q, K \cap admitted)
      /\ b.best # {} => Len(Sorted(b.best)) >= 1
  BY <1>2, <1>3, SortedCands
<1> QED
  BY <1>2, <1>4 DEF SearchLayer, b

-----------------------------------------------------------------------------
(* Neighbor selection. *)

(* Sequences of members of S, none of them twice. *)
Distinct(S) == {s \in Seq(S) : \A i, j \in 1 .. Len(s) : s[i] = s[j] => i = j}

LEMMA DistinctMono ==
  ASSUME NEW S, NEW T, S \subseteq T
  PROVE  Distinct(S) \subseteq Distinct(T)
BY DEF Distinct

LEMMA DistinctAppend ==
  ASSUME NEW S, NEW T, NEW s \in Distinct(S), S \subseteq T, NEW x \in T, x \notin S
  PROVE  Append(s, x) \in Distinct(T)
<1>1. s \in Seq(S) /\ s \in Seq(T) /\ Len(s) \in Nat /\ \A i \in 1 .. Len(s) : s[i] \in S
  BY DEF Distinct
<1>2. Append(s, x) \in Seq(T) /\ Len(Append(s, x)) = Len(s) + 1
  BY <1>1
<1>3. \A i \in 1 .. Len(s) + 1 : Append(s, x)[i] = IF i = Len(s) + 1 THEN x ELSE s[i]
  BY <1>1
<1>4. ASSUME NEW i \in 1 .. Len(s) + 1, NEW j \in 1 .. Len(s) + 1,
             Append(s, x)[i] = Append(s, x)[j]
      PROVE  i = j
  BY <1>1, <1>3, <1>4 DEF Distinct
<1> QED
  BY <1>2, <1>4 DEF Distinct

LEMMA DistinctConcat ==
  ASSUME NEW S, NEW s \in Distinct(S), NEW t \in Distinct(S),
         \A i \in 1 .. Len(s), j \in 1 .. Len(t) : s[i] # t[j]
  PROVE  s \o t \in Distinct(S)
<1>1. s \in Seq(S) /\ t \in Seq(S) /\ Len(s) \in Nat /\ Len(t) \in Nat
  BY DEF Distinct
<1>2. s \o t \in Seq(S) /\ Len(s \o t) = Len(s) + Len(t)
  BY <1>1
<1>3. \A i \in 1 .. Len(s) + Len(t) :
        (s \o t)[i] = IF i <= Len(s) THEN s[i] ELSE t[i - Len(s)]
  BY <1>1
<1>4. ASSUME NEW i \in 1 .. Len(s) + Len(t), NEW j \in 1 .. Len(s) + Len(t),
             (s \o t)[i] = (s \o t)[j]
      PROVE  i = j
  <2>1. CASE i <= Len(s) /\ j <= Len(s)
    BY <1>1, <1>3, <1>4, <2>1 DEF Distinct
  <2>2. CASE ~ i <= Len(s) /\ ~ j <= Len(s)
    <3>1. i - Len(s) \in 1 .. Len(t) /\ j - Len(s) \in 1 .. Len(t)
      BY <1>1, <2>2
    <3>2. t[i - Len(s)] = t[j - Len(s)]
      BY <1>3, <1>4, <2>2
    <3>3. i - Len(s) = j - Len(s)
      BY <3>1, <3>2 DEF Distinct
    <3> QED
      BY <1>1, <3>3
  <2>3. CASE i <= Len(s) /\ ~ j <= Len(s)
    <3>1. i \in 1 .. Len(s) /\ j - Len(s) \in 1 .. Len(t)
      BY <1>1, <2>3
    <3> QED
      BY <1>3, <1>4, <2>3, <3>1
  <2>4. CASE ~ i <= Len(s) /\ j <= Len(s)
    <3>1. j \in 1 .. Len(s) /\ i - Len(s) \in 1 .. Len(t)
      BY <1>1, <2>4
    <3> QED
      BY <1>3, <1>4, <2>4, <3>1
  <2> QED
    BY <2>1, <2>2, <2>3, <2>4
<1> QED
  BY <1>2, <1>4 DEF Distinct

LEMMA DistinctPrefix ==
  ASSUME NEW S, NEW s \in Distinct(S), NEW m \in Nat
  PROVE  LET t == SubSeq(s, 1, IF m < Len(s) THEN m ELSE Len(s))
         IN /\ t \in Distinct(S) /\ Len(t) <= m
            /\ Len(s) \in Nat /\ Len(t) = IF m < Len(s) THEN m ELSE Len(s)
<1> DEFINE k == IF m < Len(s) THEN m ELSE Len(s)
           t == SubSeq(s, 1, k)
<1>1. s \in Seq(S) /\ Len(s) \in Nat /\ k \in Nat /\ k <= Len(s) /\ k <= m
  BY DEF Distinct
<1> HIDE DEF k
<1>2. t \in Seq(S) /\ Len(t) = k /\ \A i \in 1 .. k : t[i] = s[i]
  BY <1>1
<1>3. \A i, j \in 1 .. k : t[i] = t[j] => i = j
  BY <1>1, <1>2 DEF Distinct
<1>4. t \in Distinct(S) /\ Len(t) <= m
  BY <1>1, <1>2, <1>3 DEF Distinct
<1> QED
  BY <1>1, <1>2, <1>4 DEF k

(* The keys of the first i candidates. *)
Keys(cands, i) == {cands[j].key : j \in 1 .. i}

(* What has become of the first i candidates: none is both kept and pruned. *)
Sorting(cands, i) ==
  {acc \in [selected : Distinct(Keys(cands, i)), pruned : Distinct(Keys(cands, i))] :
     \A a \in 1 .. Len(acc.selected), b \in 1 .. Len(acc.pruned) :
       acc.selected[a] # acc.pruned[b]}

LEMMA ConsiderType ==
  ASSUME NEW g, NEW q, NEW K, NEW cands \in CandLists(g, q, K), NEW m \in Nat,
         NEW i \in 1 .. Len(cands), NEW acc \in Sorting(cands, i - 1)
  PROVE  Consider(g, m, acc, cands[i]) \in Sorting(cands, i)
<1> DEFINE c == cands[i]
           S == Keys(cands, i - 1)
           T == Keys(cands, i)
<1>1. Len(cands) \in Nat
  BY DEF CandLists
<1>2. S \subseteq T /\ c.key \in T /\ c.key \notin S
  <2>1. 1 .. i - 1 \subseteq 1 .. i /\ i \in 1 .. i /\ i \notin 1 .. i - 1
        /\ 1 .. i - 1 \subseteq 1 .. Len(cands)
    BY <1>1
  <2>2. \A a, b \in 1 .. Len(cands) : cands[a].key = cands[b].key => a = b
    BY DEF CandLists
  <2> QED
    BY <2>1, <2>2 DEF Keys
<1>3. /\ acc \in [selected : Distinct(S), pruned : Distinct(S)]
      /\ \A a \in 1 .. Len(acc.selected), b \in 1 .. Len(acc.pruned) :
           acc.selected[a] # acc.pruned[b]
  BY DEF Sorting
<1> HIDE DEF S, T, c
<1>4. /\ acc.selected \in Distinct(S) /\ acc.pruned \in Distinct(S)
      /\ acc.selected \in Distinct(T) /\ acc.pruned \in Distinct(T)
  BY <1>2, <1>3, DistinctMono
<1>5. acc \in Sorting(cands, i)
  BY <1>3, <1>4 DEF Sorting, T
<1>6. ASSUME NEW s \in Distinct(S)
      PROVE  /\ Append(s, c.key) \in Distinct(T)
             /\ Len(s) \in Nat /\ Len(Append(s, c.key)) = Len(s) + 1
             /\ \A a \in 1 .. Len(s) : s[a] # c.key
             /\ \A a \in 1 .. Len(s) + 1 :
                  Append(s, c.key)[a] = IF a = Len(s) + 1 THEN c.key ELSE s[a]
  <2>1. s \in Seq(S)
    BY DEF Distinct
  <2>2. Append(s, c.key) \in Distinct(T)
    BY <1>2, DistinctAppend
  <2>3. /\ Len(s) \in Nat /\ Len(Append(s, c.key)) = Len(s) + 1
        /\ \A a \in 1 .. Len(s) : s[a] \in S
        /\ \A a \in 1 .. Len(s) + 1 :
                  Append(s, c.key)[a] = IF a = Len(s) + 1 THEN c.key ELSE s[a]
    BY <2>1
  <2> QED
    BY <1>2, <2>2, <2>3
<1>7. [acc EXCEPT !.pruned = Append(@, c.key)] \in Sorting(cands, i)
  <2> DEFINE long == Append(acc.pruned, c.key)
  <2>1. \A a \in 1 .. Len(acc.selected), b \in 1 .. Len(long) : acc.selected[a] # long[b]
    BY <1>3, <1>4, <1>6
  <2>2. long \in Distinct(T)
    BY <1>4, <1>6
  <2> HIDE DEF long
  <2>3. [acc EXCEPT !.pruned = long] \in Sorting(cands, i)
    BY <1>3, <1>4, <2>1, <2>2 DEF Sorting, T
  <2> QED
    BY <2>3 DEF long
<1>8. [acc EXCEPT !.selected = Append(@, c.key)] \in Sorting(cands, i)
  <2> DEFINE long == Append(acc.selected, c.key)
  <2>1. \A a \in 1 .. Len(long), b \in 1 .. Len(acc.pruned) : long[a] # acc.pruned[b]
    BY <1>3, <1>4, <1>6
  <2>2. long \in Distinct(T)
    BY <1>4, <1>6
  <2> HIDE DEF long
  <2>3. [acc EXCEPT !.selected = long] \in Sorting(cands, i)
    BY <1>3, <1>4, <2>1, <2>2 DEF Sorting, T
  <2> QED
    BY <2>3 DEF long
<1>9. Consider(g, m, acc, c) \in {acc, [acc EXCEPT !.pruned = Append(@, c.key)],
                                  [acc EXCEPT !.selected = Append(@, c.key)]}
  BY DEF Consider
<1> QED
  BY <1>5, <1>7, <1>8, <1>9 DEF c

(* The closest candidate is always kept. *)
Started(cands, m, i) ==
  {acc \in Sorting(cands, i) : m >= 1 /\ i >= 1 => Len(acc.selected) >= 1}

LEMMA ConsiderStarts ==
  ASSUME NEW g, NEW q, NEW K, NEW cands \in CandLists(g, q, K), NEW m \in Nat,
         NEW i \in 1 .. Len(cands), NEW acc \in Started(cands, m, i - 1),
         Consider(g, m, acc, cands[i]) \in Sorting(cands, i)
  PROVE  Consider(g, m, acc, cands[i]) \in Started(cands, m, i)
<1> DEFINE c == cands[i]
           S == Keys(cands, i - 1)
           next == Consider(g, m, acc, c)
<1>1. acc \in [selected : Distinct(S), pruned : Distinct(S)]
  BY DEF Started, Sorting
<1> HIDE DEF S, c
<1>2. Len(acc.selected) \in Nat /\ acc.selected \in Seq(S)
  <2>1. acc.selected \in Distinct(S)
    BY <1>1
  <2> QED
    BY <2>1 DEF Distinct
<1>3. ASSUME m >= 1
      PROVE  Len(next.selected) >= 1
  <2>1. CASE Len(acc.selected) >= 1
    <3>1. next.selected \in {acc.selected, Append(acc.selected, c.key)}
      BY <1>1 DEF Consider
    <3>2. Len(Append(acc.selected, c.key)) = Len(acc.selected) + 1
      BY <1>2
    <3> HIDE DEF next
    <3> QED
      BY <1>2, <2>1, <3>1, <3>2
  <2>2. CASE Len(acc.selected) = 0
    <3>1. ~ Dominated(g, c, acc.selected) /\ ~ Len(acc.selected) >= m
      BY <1>3, <2>2 DEF Dominated
    <3>2. next.selected = Append(acc.selected, c.key)
      BY <1>1, <3>1 DEF Consider
    <3>3. Len(Append(acc.selected, c.key)) = 1
      BY <1>2, <2>2
    <3> HIDE DEF next
    <3> QED
      BY <3>2, <3>3
  <2> QED
    BY <1>2, <2>1, <2>2
<1> HIDE DEF next
<1> QED
  BY <1>3 DEF Started, next, c

(* No neighbor twice, no more than m, and one at least. *)
LEMMA SelectNeighborsType ==
  ASSUME NEW g, NEW q, NEW K, NEW cands \in CandLists(g, q, K), NEW m \in Nat,
         \A c \in CandsOf(g, q, K) : c.key \in K
  PROVE  /\ SelectNeighbors(g, cands, m) \in Distinct(K)
         /\ Len(SelectNeighbors(g, cands, m)) <= m
         /\ m >= 1 /\ Len(cands) >= 1 => Len(SelectNeighbors(g, cands, m)) >= 1
<1> DEFINE n == Len(cands)
           B == [selected : Seq(K), pruned : Seq(K)]
           T == [i \in 0 .. n |-> Started(cands, m, i)]
           empty == [selected |-> << >>, pruned |-> << >>]
           step == [i \in 1 .. n |-> [a \in B |-> Consider(g, m, a, cands[i])]]
           loop == Lists!FoldLeft(LAMBDA acc, c : Consider(g, m, acc, c), empty, cands)
           all == loop.selected \o loop.pruned
<1>1. n \in Nat /\ DOMAIN cands = 1 .. n /\ \A i \in 1 .. n : cands[i].key \in K
  BY DEF CandLists
<1> HIDE DEF n
<1>2. empty \in B
  OBVIOUS
<1>3. \A i \in 1 .. n, a \in B : Consider(g, m, a, cands[i]) \in B
  <2> TAKE i \in 1 .. n, a \in B
  <2>1. /\ [a EXCEPT !.pruned = Append(@, cands[i].key)] \in B
        /\ [a EXCEPT !.selected = Append(@, cands[i].key)] \in B
    <3> DEFINE x == cands[i].key
    <3>1. x \in K
      BY <1>1
    <3> HIDE DEF x
    <3>2. Append(a.pruned, x) \in Seq(K) /\ Append(a.selected, x) \in Seq(K)
      BY <3>1
    <3>3. /\ [a EXCEPT !.pruned = Append(a.pruned, x)] \in B
          /\ [a EXCEPT !.selected = Append(a.selected, x)] \in B
      BY <3>2
    <3> QED
      BY <3>3 DEF x
  <2>2. Consider(g, m, a, cands[i]) \in {a, [a EXCEPT !.pruned = Append(@, cands[i].key)],
                                         [a EXCEPT !.selected = Append(@, cands[i].key)]}
    BY DEF Consider
  <2> HIDE DEF B
  <2> QED
    BY <2>1, <2>2
<1> HIDE DEF B, empty
<1>4. step \in [1 .. n -> [B -> B]]
  BY <1>3
<1>5. \A i \in 1 .. n, a \in B : step[i][a] = Consider(g, m, a, cands[i])
  OBVIOUS
<1> HIDE DEF step
<1>6. PICK f : Solves(f, n, B, empty, step)
  BY <1>1, <1>2, <1>4, FoldExists
<1>7. f = [s \in SUBSET DOMAIN cands |->
             IF s = {} THEN empty
             ELSE Consider(g, m, f[s \ {Lists!Max(s)}], cands[Lists!Max(s)])]
  <2>1. \A s \in SUBSET (1 .. n) : s # {} =>
          f[s] = Consider(g, m, f[s \ {Lists!Max(s)}], cands[Lists!Max(s)])
    <3>1. ASSUME NEW s \in SUBSET (1 .. n), s # {}
          PROVE  f[s] = Consider(g, m, f[s \ {Lists!Max(s)}], cands[Lists!Max(s)])
      <4>1. n \in Nat
        BY <1>1
      <4>2. StepsAt(f, s, n, B, step)
        BY <1>6, <3>1, <4>1, SolutionStep
      <4> QED
        BY <1>5, <4>2 DEF StepsAt
    <3> QED
      BY <3>1
  <2> QED
    BY <1>1, <1>6, <2>1 DEF Solves
<1>8. PICK h : /\ h = [s \in SUBSET DOMAIN cands |->
                         IF s = {} THEN empty
                         ELSE Consider(g, m, h[s \ {Lists!Max(s)}], cands[Lists!Max(s)])]
               /\ loop = h[DOMAIN cands]
  BY <1>7 DEF Lists!FoldLeft, Lists!MapThenFoldSet
<1> HIDE DEF loop
<1>9. h[{}] \in T[0]
  <2>1. << >> \in Distinct(Keys(cands, 0)) /\ Len(<< >>) = 0
    BY DEF Distinct
  <2>2. empty \in Sorting(cands, 0)
    BY <2>1 DEF Sorting, empty
  <2>3. empty \in Started(cands, m, 0)
    BY <2>2 DEF Started
  <2> QED
    BY <1>1, <1>8, <2>3
<1>10. ASSUME NEW i \in 1 .. n, h[1 .. i - 1] \in T[i - 1]
       PROVE  h[1 .. i] \in T[i]
  <2>1. h[1 .. i] = Consider(g, m, h[1 .. i - 1], cands[i])
    <3>1. /\ (1 .. i) \in SUBSET DOMAIN cands /\ (1 .. i) # {}
          /\ Lists!Max(1 .. i) = i /\ (1 .. i) \ {i} = 1 .. i - 1
      BY <1>1, LastOfPrefix
    <3> QED
      BY <1>8, <3>1
  <2>2. h[1 .. i - 1] \in Started(cands, m, i - 1) /\ h[1 .. i - 1] \in Sorting(cands, i - 1)
    BY <1>1, <1>10 DEF Started
  <2>3. h[1 .. i] \in Sorting(cands, i)
    BY <2>1, <2>2, ConsiderType DEF n
  <2>4. h[1 .. i] \in Started(cands, m, i)
    BY <2>1, <2>2, <2>3, ConsiderStarts DEF n
  <2> QED
    BY <1>1, <2>4
<1>11. h[1 .. n] \in T[n]
  <2> HIDE DEF T
  <2> QED
    BY <1>1, <1>9, <1>10, FoldInduction
<1>12. loop \in Sorting(cands, n) /\ loop \in Started(cands, m, n)
  BY <1>1, <1>8, <1>11 DEF Started
<1>13. all \in Distinct(K)
  <2>1. Keys(cands, n) \subseteq K
    BY <1>1 DEF Keys
  <2>2. /\ loop.selected \in Distinct(Keys(cands, n)) /\ loop.pruned \in Distinct(Keys(cands, n))
        /\ \A a \in 1 .. Len(loop.selected), b \in 1 .. Len(loop.pruned) :
             loop.selected[a] # loop.pruned[b]
    BY <1>12 DEF Sorting
  <2> QED
    BY <2>1, <2>2, DistinctConcat, DistinctMono
<1>14. SelectNeighbors(g, cands, m) = SubSeq(all, 1, IF m < Len(all) THEN m ELSE Len(all))
  BY DEF SelectNeighbors, loop, empty
<1>15. m >= 1 /\ n >= 1 => Len(all) >= 1
  <2>1. /\ loop.selected \in Seq(Keys(cands, n)) /\ loop.pruned \in Seq(Keys(cands, n))
        /\ m >= 1 /\ n >= 1 => Len(loop.selected) >= 1
    BY <1>12 DEF Sorting, Started, Distinct
  <2> DEFINE selected == loop.selected
             pruned == loop.pruned
  <2> HIDE DEF selected, pruned
  <2>2. /\ Len(selected) \in Nat /\ Len(pruned) \in Nat
        /\ Len(selected \o pruned) = Len(selected) + Len(pruned)
        /\ m >= 1 /\ n >= 1 => Len(selected) >= 1
    BY <2>1 DEF selected, pruned
  <2>3. m >= 1 /\ n >= 1 => Len(selected \o pruned) >= 1
    BY <2>2
  <2> QED
    BY <2>3 DEF selected, pruned
<1> HIDE DEF all
<1>16. /\ SelectNeighbors(g, cands, m) \in Distinct(K)
       /\ Len(SelectNeighbors(g, cands, m)) = IF m < Len(all) THEN m ELSE Len(all)
       /\ Len(all) \in Nat
  BY <1>13, <1>14, DistinctPrefix
<1> QED
  BY <1>15, <1>16 DEF n

(* A list reduced to the best for its node: no node twice, and m_max at most. *)
LEMMA ShrinkNeighborsType ==
  ASSUME NEW g, NEW layer, NEW K, Closed(g, layer, K), NEW p, g[p].vector \in Vectors,
         NEW J \in SUBSET K, NEW list \in Seq(J), NEW m \in Nat
  PROVE  /\ ShrinkNeighbors(g, p, list, m) \in Distinct(J)
         /\ Len(ShrinkNeighbors(g, p, list, m)) <= m
<1> DEFINE q == g[p].vector
           b == {Cand(g, g[p].vector, nb) : nb \in Lists!ToSet(list)}
<1>1. b \in SUBSET CandsOf(g, q, J)
  BY DEF CandsOf, Lists!ToSet
<1> HIDE DEF b
<1>2. q \in Vectors
  OBVIOUS
<1>3. \A c \in CandsOf(g, q, J) : c.key \in J
  <2>1. J \in SUBSET Nat /\ \A x \in J : g[x].vector \in Vectors
    BY DEF Closed
  <2> QED
    BY <1>2, <2>1, CandFacts
<1> HIDE DEF q
<1>4. Sorted(b) \in CandLists(g, q, J)
  BY <1>1, <1>2, SortedCands
<1> QED
  BY <1>3, <1>4, SelectNeighborsType DEF ShrinkNeighbors, b, q

-----------------------------------------------------------------------------
(* The arena. *)

Node == [id : Ids, vector : Vectors, payload : Payloads, deleted : BOOLEAN,
         neighbors : Seq(Seq(Nat))]

(* The first n nodes that are on a layer. *)
OnLayer(g, layer, n) == {p \in 1 .. n : Level(g, p) >= layer}

(* The first n nodes are linked to each other, on every layer they are on. *)
LinkedUpTo(g, n) ==
  /\ g \in Seq(Node) /\ n \in 0 .. Len(g)
  /\ \A p \in 1 .. Len(g) : Level(g, p) \in Levels
  /\ \A p \in 1 .. n : \A layer \in 0 .. Level(g, p) :
       /\ Nbrs(g, p, layer) \in Distinct(OnLayer(g, layer, n) \ {p})
       /\ Len(Nbrs(g, p, layer)) <= MMax(layer)

LEMMA NodeFacts ==
  ASSUME NEW g, NEW n, LinkedUpTo(g, n)
  PROVE  /\ Len(g) \in Nat /\ n \in Nat /\ n <= Len(g) /\ DOMAIN g = 1 .. Len(g)
         /\ \A p \in 1 .. Len(g) : g[p] \in Node /\ g[p].vector \in Vectors /\ Level(g, p) \in Nat
                                   /\ Level(g, p) \in Levels
<1>1. g \in Seq(Node) /\ n \in 0 .. Len(g)
  BY DEF LinkedUpTo
<1>2. \A p \in 1 .. Len(g) : Level(g, p) \in Levels /\ Level(g, p) \in Nat
  BY HnswAssumption DEF LinkedUpTo
<1>3. /\ Len(g) \in Nat /\ n \in Nat /\ n <= Len(g) /\ DOMAIN g = 1 .. Len(g)
      /\ \A p \in 1 .. Len(g) : g[p] \in Node
  BY <1>1
<1> QED
  BY <1>2, <1>3 DEF Node

(* No list of a layer leads out of the layer. *)
LEMMA LayerClosed ==
  ASSUME NEW g, NEW n, LinkedUpTo(g, n), NEW layer \in Nat
  PROVE  Closed(g, layer, OnLayer(g, layer, n))
<1>1. OnLayer(g, layer, n) \subseteq 1 .. Len(g) /\ Len(g) \in Nat
  BY NodeFacts DEF OnLayer
<1>2. ASSUME NEW p \in OnLayer(g, layer, n)
      PROVE  g[p].vector \in Vectors /\ Nbrs(g, p, layer) \in Seq(OnLayer(g, layer, n))
  <2>1. p \in 1 .. n /\ p \in 1 .. Len(g) /\ layer \in 0 .. Level(g, p)
    BY NodeFacts DEF OnLayer
  <2>2. Nbrs(g, p, layer) \in Distinct(OnLayer(g, layer, n) \ {p})
    BY <2>1 DEF LinkedUpTo
  <2>3. Nbrs(g, p, layer) \in Seq(OnLayer(g, layer, n))
    BY <2>2 DEF Distinct
  <2> QED
    BY <2>1, <2>3, NodeFacts
<1> QED
  BY <1>1, <1>2 DEF Closed

LEMMA LayersNested ==
  ASSUME NEW g, NEW n, LinkedUpTo(g, n), NEW high \in Nat, NEW low \in Nat, low <= high
  PROVE  OnLayer(g, high, n) \subseteq OnLayer(g, low, n)
BY NodeFacts DEF OnLayer

(* The walks that can be on a layer that are known to have started at start. *)
WalksFrom(g, q, K, start, high, low) == {w \in Walks(g, q, K) : Hopped(w, start, high, low)}

(* A descent from a node of layer high ends on the layer below low, or where
   it starts. *)
LEMMA DescendOnLayers ==
  ASSUME NEW g, NEW n, LinkedUpTo(g, n), NEW high \in Nat, NEW low \in Nat, NEW q \in Vectors,
         NEW p \in OnLayer(g, high, n)
  PROVE  /\ Descend(g, q, StartWalk(Cand(g, q, p)), high, low)
              \in Walks(g, q, OnLayer(g, IF high < low THEN high ELSE low, n))
         /\ Hopped(Descend(g, q, StartWalk(Cand(g, q, p)), high, low), Cand(g, q, p), high, low)
<1> DEFINE start == Cand(g, q, p)
           w == StartWalk(start)
           K == [layer \in Nat |-> OnLayer(g, layer, n)]
           W == [layer \in Nat |-> WalksFrom(g, q, K[layer], start, high, layer)]
<1>1. w \in Walks(g, q, OnLayer(g, high, n)) /\ \A layer : Hopped(w, start, high, layer)
  <2>1. start \in CandsOf(g, q, OnLayer(g, high, n))
    BY DEF CandsOf
  <2> HIDE DEF start
  <2> QED
    BY <2>1, StartHopped
<1> HIDE DEF w, start
<1>2. CASE high < low
  <2> DEFINE f == [i \in 0 .. 0 |-> w]
  <2>1. f = [i \in 0 .. 0 |-> IF i = 0 THEN w ELSE GreedyClosest(g, q, high - i + 1, f[i - 1])]
    OBVIOUS
  <2> HIDE DEF f
  <2>2. PICK h : /\ h = [i \in 0 .. 0 |-> IF i = 0 THEN w
                                          ELSE GreedyClosest(g, q, high - i + 1, h[i - 1])]
                 /\ Descend(g, q, w, high, low) = h[0]
    <3>1. (IF high < low THEN 0 ELSE high - low + 1) = 0
      BY <1>2
    <3> QED
      BY <2>1, <3>1 DEF Descend
  <2>3. h[0] = w
    BY <2>2
  <2> QED
    BY <1>1, <1>2, <2>2, <2>3 DEF w, start
<1>3. CASE ~ high < low
  <2>1. Layered(g, q, high, low, K, W)
    <3>1. \A layer \in Nat : Closed(g, layer, K[layer])
      BY LayerClosed
    <3>2. \A layer \in low .. high : Stable(g, q, layer, K[layer], W[layer])
      <4> SUFFICES ASSUME NEW layer \in low .. high PROVE Stable(g, q, layer, K[layer], W[layer])
        OBVIOUS
      <4>1. layer \in Nat /\ layer <= high /\ Closed(g, layer, K[layer])
        BY <3>1
      <4>2. W[layer] = WalksFrom(g, q, K[layer], start, high, layer)
        BY <4>1
      <4> HIDE DEF K, W
      <4> QED
        BY <4>1, <4>2, GreedyStepType, StepHopped DEF Stable, WalksFrom
    <3>3. \A layer \in low + 1 .. high : W[layer] \subseteq W[layer - 1]
      <4> SUFFICES ASSUME NEW layer \in low + 1 .. high PROVE W[layer] \subseteq W[layer - 1]
        OBVIOUS
      <4>1. layer \in Nat /\ layer - 1 \in Nat /\ layer - 1 <= layer
        OBVIOUS
      <4>2. K[layer] \subseteq K[layer - 1]
        BY <4>1, LayersNested
      <4>3. /\ W[layer] = WalksFrom(g, q, K[layer], start, high, layer)
            /\ W[layer - 1] = WalksFrom(g, q, K[layer - 1], start, high, layer - 1)
        BY <4>1
      <4> HIDE DEF K, W
      <4>4. Walks(g, q, K[layer]) \subseteq Walks(g, q, K[layer - 1])
        BY <4>2, WalksMono
      <4> QED
        BY <4>3, <4>4, HoppedMono DEF WalksFrom
    <3> HIDE DEF K, W
    <3> QED
      BY <1>3, <3>1, <3>2, <3>3 DEF Layered
  <2>2. /\ W[high] = WalksFrom(g, q, OnLayer(g, high, n), start, high, high)
        /\ W[low] = WalksFrom(g, q, OnLayer(g, low, n), start, high, low)
    OBVIOUS
  <2> HIDE DEF K, W
  <2>3. w \in W[high]
    BY <1>1, <2>2 DEF WalksFrom
  <2>4. Descend(g, q, w, high, low) \in W[low]
    BY <2>1, <2>3, DescendKeeps
  <2> QED
    BY <1>3, <2>2, <2>4 DEF w, start, WalksFrom
<1> QED
  BY <1>2, <1>3

(* Every search of phase 2 starts on its layer and finds nodes of it. *)
LEMMA FoundType ==
  ASSUME NEW g, NEW n, LinkedUpTo(g, n), Len(g) = n + 1, max_layer \in Nat,
         entry_point \in OnLayer(g, max_layer, n), NEW l \in Nat, NEW low \in Nat,
         low = IF l < max_layer THEN l ELSE max_layer
  PROVE  \A layer \in 0 .. low :
           /\ Found(g, l, low)[layer] \in CandLists(g, g[n + 1].vector, OnLayer(g, layer, n))
           /\ Len(Found(g, l, low)[layer]) >= 1
<1> DEFINE q == g[Len(g)].vector
           ep == Descend(g, q, StartWalk(Cand(g, q, entry_point)), max_layer, l + 1).at
           On(i) == OnLayer(g, IF i = 0 THEN low ELSE low + 1 - i, n)
           T == [i \in 0 .. low + 1 |-> {s \in CandLists(g, q, On(i)) : Len(s) >= 1}]
           step == [i \in 1 .. low + 1 |->
                      [s \in T[i - 1] |->
                         SearchLayer(g, q, s[1], EfConstruction, low + 1 - i, DOMAIN g)]]
<1>1. n \in Nat /\ n + 1 \in 1 .. Len(g) /\ q \in Vectors /\ low + 1 \in Nat
      /\ OnLayer(g, low, n) \subseteq DOMAIN g
  BY NodeFacts DEF OnLayer
<1>2. ep \in CandsOf(g, q, OnLayer(g, low, n))
  <2> DEFINE end == IF max_layer < l + 1 THEN max_layer ELSE l + 1
  <2>1. end \in Nat /\ low <= end /\ l + 1 \in Nat
    OBVIOUS
  <2> HIDE DEF q
  <2>2. Descend(g, q, StartWalk(Cand(g, q, entry_point)), max_layer, l + 1)
          \in Walks(g, q, OnLayer(g, end, n))
    BY <1>1, <2>1, DescendOnLayers
  <2>3. ep \in CandsOf(g, q, OnLayer(g, end, n))
    BY <2>2 DEF Walks
  <2> HIDE DEF end, ep
  <2>4. OnLayer(g, end, n) \subseteq OnLayer(g, low, n)
    BY <2>1, LayersNested
  <2> QED
    BY <2>3, <2>4 DEF CandsOf
<1> HIDE DEF q, ep
<1>3. <<ep>> \in T[0]
  <2>1. <<ep>> \in Seq(CandsOf(g, q, OnLayer(g, low, n))) /\ Len(<<ep>>) = 1
    BY <1>2
  <2>2. <<ep>> \in CandLists(g, q, OnLayer(g, low, n))
    BY <2>1 DEF CandLists
  <2>3. T[0] = {s \in CandLists(g, q, OnLayer(g, low, n)) : Len(s) >= 1}
    OBVIOUS
  <2> QED
    BY <2>1, <2>2, <2>3
<1>4. ASSUME NEW i \in 1 .. low + 1, NEW s \in T[i - 1]
      PROVE  SearchLayer(g, q, s[1], EfConstruction, low + 1 - i, DOMAIN g) \in T[i]
  <2> DEFINE layer == low + 1 - i
             K == OnLayer(g, layer, n)
  <2>1. layer \in Nat /\ i - 1 \in 0 .. low + 1 /\ i \in 0 .. low + 1 /\ i # 0
    OBVIOUS
  <2>2. s \in CandLists(g, q, On(i - 1)) /\ Len(s) >= 1
    BY <2>1
  <2>3. On(i - 1) \subseteq K
    <3>1. CASE i = 1
      BY <3>1
    <3>2. CASE i # 1
      <4>1. On(i - 1) = OnLayer(g, layer + 1, n) /\ layer + 1 \in Nat /\ layer <= layer + 1
        BY <2>1, <3>2
      <4> HIDE DEF layer, On
      <4> QED
        BY <2>1, <4>1, LayersNested
    <3> QED
      BY <3>1, <3>2
  <2>4. T[i] = {t \in CandLists(g, q, K) : Len(t) >= 1}
    BY <2>1
  <2> HIDE DEF T, On, layer
  <2>5. s[1] \in CandsOf(g, q, K)
    <3>1. s[1] \in CandsOf(g, q, On(i - 1))
      BY <2>2 DEF CandLists
    <3> QED
      BY <2>3, <3>1 DEF CandsOf
  <2>6. Closed(g, layer, K) /\ K \subseteq DOMAIN g
    BY <2>1, LayerClosed, NodeFacts DEF OnLayer
  <2> HIDE DEF K
  <2>7. s[1].key \in DOMAIN g /\ K \cap DOMAIN g = K
    BY <1>1, <2>5, <2>6, CandsFinite, CandFacts
  <2>8. EfConstruction \in Nat \ {0}
    BY HnswAssumption
  <2>9. SearchLayer(g, q, s[1], EfConstruction, layer, DOMAIN g) \in CandLists(g, q, K \cap DOMAIN g)
        /\ Len(SearchLayer(g, q, s[1], EfConstruction, layer, DOMAIN g)) >= 1
    BY <1>1, <2>1, <2>5, <2>6, <2>7, <2>8, SearchLayerType
  <2> QED
    BY <2>4, <2>7, <2>9 DEF layer
<1>5. Turns(low + 1, T, step)
  <2>1. \A i \in 1 .. low + 1 :
          step[i] = [s \in T[i - 1] |->
                       SearchLayer(g, q, s[1], EfConstruction, low + 1 - i, DOMAIN g)]
    OBVIOUS
  <2> HIDE DEF T, step
  <2>2. ASSUME NEW i \in 1 .. low + 1
        PROVE  step[i] \in [T[i - 1] -> T[i]]
    <3>1. \A s \in T[i - 1] :
            SearchLayer(g, q, s[1], EfConstruction, low + 1 - i, DOMAIN g) \in T[i]
      BY <1>4
    <3>2. step[i] = [s \in T[i - 1] |->
                       SearchLayer(g, q, s[1], EfConstruction, low + 1 - i, DOMAIN g)]
      BY <2>1
    <3> DEFINE from == T[i - 1]
               to == T[i]
               next(s) == SearchLayer(g, q, s[1], EfConstruction, low + 1 - i, DOMAIN g)
    <3> HIDE DEF from, to, next
    <3>3. step[i] = [s \in from |-> next(s)] /\ \A s \in from : next(s) \in to
      BY <3>1, <3>2 DEF from, to, next
    <3>4. step[i] \in [from -> to]
      BY <3>3
    <3> QED
      BY <3>4 DEF from, to
  <2> QED
    BY <2>2 DEF Turns
<1>6. \A i \in 1 .. low + 1 : \A s \in T[i - 1] :
        step[i][s] = SearchLayer(g, q, s[1], EfConstruction, low + 1 - i, DOMAIN g)
  <2> HIDE DEF T
  <2> QED
    OBVIOUS
<1> HIDE DEF T, step
<1>7. PICK f : Run(f, low + 1, T, <<ep>>, step)
  BY <1>1, <1>3, <1>5, LoopSolution
<1>8. f = [i \in 0 .. low + 1 |->
             IF i = 0 THEN <<ep>>
             ELSE SearchLayer(g, q, f[i - 1][1], EfConstruction, low + 1 - i, DOMAIN g)]
  <2> DEFINE next == [i \in 0 .. low + 1 |->
                IF i = 0 THEN <<ep>>
                ELSE SearchLayer(g, q, f[i - 1][1], EfConstruction, low + 1 - i, DOMAIN g)]
  <2>1. f = [i \in 0 .. low + 1 |-> f[i]] /\ f[0] = <<ep>>
    BY <1>7 DEF Run
  <2>2. \A i \in 1 .. low + 1 :
          f[i] = SearchLayer(g, q, f[i - 1][1], EfConstruction, low + 1 - i, DOMAIN g)
    BY <1>6, <1>7 DEF Run
  <2>3. ASSUME NEW i \in 0 .. low + 1
        PROVE  f[i] = next[i]
    <3>1. CASE i = 0
      BY <2>1, <3>1
    <3>2. CASE i \in 1 .. low + 1
      <4>1. f[i] = SearchLayer(g, q, f[i - 1][1], EfConstruction, low + 1 - i, DOMAIN g) /\ i # 0
        BY <2>2, <3>2
      <4> QED
        BY <4>1
    <3> QED
      BY <1>1, <3>1, <3>2
  <2>4. next = [i \in 0 .. low + 1 |-> next[i]]
    OBVIOUS
  <2> HIDE DEF next
  <2>5. f = next
    BY <2>1, <2>3, <2>4
  <2> QED
    BY <2>5 DEF next
<1>9. PICK h :
        /\ h = [i \in 0 .. low + 1 |->
                  IF i = 0 THEN <<ep>>
                  ELSE SearchLayer(g, q, h[i - 1][1], EfConstruction, low + 1 - i, DOMAIN g)]
        /\ Found(g, l, low) = [layer \in 0 .. low |-> h[low + 1 - layer]]
  BY <1>8 DEF Found, q, ep
<1>10. h[0] \in T[0]
  BY <1>1, <1>3, <1>9
<1>11. ASSUME NEW i \in 1 .. low + 1, h[i - 1] \in T[i - 1]
       PROVE  h[i] \in T[i]
  <2>1. i \in 0 .. low + 1 /\ i # 0
    OBVIOUS
  <2>2. h[i] = SearchLayer(g, q, h[i - 1][1], EfConstruction, low + 1 - i, DOMAIN g)
    BY <1>9, <2>1
  <2> QED
    BY <1>4, <1>11, <2>2
<1>12. \A i \in 0 .. low + 1 : h[i] \in T[i]
  BY <1>1, <1>10, <1>11, ChainInduction
<1>13. ASSUME NEW layer \in 0 .. low
       PROVE  /\ Found(g, l, low)[layer] \in CandLists(g, q, OnLayer(g, layer, n))
              /\ Len(Found(g, l, low)[layer]) >= 1
  <2> DEFINE i == low + 1 - layer
  <2>1. i \in 0 .. low + 1 /\ i # 0 /\ low + 1 - i = layer
    OBVIOUS
  <2>2. Found(g, l, low)[layer] = h[i]
    BY <1>9
  <2> HIDE DEF i
  <2>3. h[i] \in T[i]
    BY <1>12, <2>1
  <2>4. T[i] = {t \in CandLists(g, q, OnLayer(g, layer, n)) : Len(t) >= 1}
    BY <2>1 DEF T
  <2> QED
    BY <2>2, <2>3, <2>4
<1> QED
  BY <1>13 DEF q

-----------------------------------------------------------------------------
(* Linking. *)

(* The last node is new: it has l + 1 lists, and nothing in them. *)
Unlinked(g, n, l) ==
  /\ LinkedUpTo(g, n) /\ Len(g) = n + 1 /\ l \in Nat /\ Level(g, n + 1) = l
  /\ \A layer \in 0 .. l : Nbrs(g, n + 1, layer) = << >>

(* A list of p on a layer, as it should be when the new node is linked. *)
GoodList(g, n, p, layer, list) ==
  /\ list \in Distinct(OnLayer(g, layer, n + 1) \ {p})
  /\ Len(list) <= MMax(layer)

LEMMA MMaxFacts ==
  \A layer \in Nat : MMax(layer) \in Nat /\ M \in Nat /\ M <= MMax(layer)
BY HnswAssumption DEF MMax

LEMMA OnLayerGrows ==
  ASSUME NEW g, NEW n, NEW l, Unlinked(g, n, l), NEW layer \in Nat
  PROVE  /\ n \in Nat /\ n + 1 \notin OnLayer(g, layer, n)
         /\ OnLayer(g, layer, n) \subseteq OnLayer(g, layer, n + 1)
         /\ layer <= l => n + 1 \in OnLayer(g, layer, n + 1)
         /\ OnLayer(g, layer, n + 1) \subseteq OnLayer(g, layer, n) \cup {n + 1}
BY NodeFacts DEF Unlinked, OnLayer

LEMMA OldListGood ==
  ASSUME NEW g, NEW n, NEW l, Unlinked(g, n, l), NEW p \in 1 .. n + 1,
         NEW layer \in 0 .. Level(g, p)
  PROVE  GoodList(g, n, p, layer, Nbrs(g, p, layer))
<1>1. LinkedUpTo(g, n) /\ n \in Nat /\ layer \in Nat
  BY NodeFacts DEF Unlinked
<1>2. CASE p \in 1 .. n
  <2>1. Nbrs(g, p, layer) \in Distinct(OnLayer(g, layer, n) \ {p})
        /\ Len(Nbrs(g, p, layer)) <= MMax(layer)
    BY <1>1, <1>2 DEF LinkedUpTo
  <2>2. OnLayer(g, layer, n) \ {p} \subseteq OnLayer(g, layer, n + 1) \ {p}
    BY <1>1, OnLayerGrows
  <2>3. Nbrs(g, p, layer) \in Distinct(OnLayer(g, layer, n + 1) \ {p})
    BY <2>1, <2>2, DistinctMono
  <2> QED
    BY <2>1, <2>3 DEF GoodList
<1>3. CASE p = n + 1
  <2>1. Nbrs(g, p, layer) = << >>
    BY <1>3 DEF Unlinked
  <2>2. << >> \in Distinct(OnLayer(g, layer, n + 1) \ {p})
    BY DEF Distinct
  <2>3. Len(<< >>) = 0 /\ 0 <= MMax(layer)
    BY <1>1, MMaxFacts
  <2> QED
    BY <2>1, <2>2, <2>3 DEF GoodList
<1> QED
  BY <1>1, <1>2, <1>3

(* The back link, and the list reduced when it is too long. *)
LEMMA PushedGood ==
  ASSUME NEW g, NEW n, NEW l, Unlinked(g, n, l), NEW p \in 1 .. n,
         NEW layer \in 0 .. Level(g, p), layer <= l
  PROVE  GoodList(g, n, p, layer, Pushed(g, p, layer, n + 1))
<1> DEFINE J == OnLayer(g, layer, n + 1) \ {p}
           K == OnLayer(g, layer, n + 1)
           list == Append(Nbrs(g, p, layer), n + 1)
<1>1. LinkedUpTo(g, n) /\ n \in Nat /\ layer \in Nat /\ Len(g) = n + 1
  BY NodeFacts DEF Unlinked
<1>2. list \in Distinct(J)
  <2> DEFINE I == OnLayer(g, layer, n) \ {p}
  <2>1. Nbrs(g, p, layer) \in Distinct(I)
    BY <1>1 DEF LinkedUpTo
  <2>2. I \subseteq J /\ n + 1 \in J /\ n + 1 \notin I
    BY <1>1, OnLayerGrows
  <2> HIDE DEF I, J
  <2> QED
    BY <2>1, <2>2, DistinctAppend
<1>3. Closed(g, layer, K)
  <2>1. K \subseteq 1 .. Len(g) /\ Len(g) \in Nat
    BY <1>1 DEF OnLayer
  <2>2. ASSUME NEW x \in K
        PROVE  g[x].vector \in Vectors /\ Nbrs(g, x, layer) \in Seq(K)
    <3>1. x \in 1 .. n + 1 /\ x \in 1 .. Len(g) /\ layer \in 0 .. Level(g, x)
      BY <1>1, <2>1, NodeFacts DEF OnLayer
    <3>2. Nbrs(g, x, layer) \in Distinct(OnLayer(g, layer, n + 1) \ {x})
      BY <3>1, OldListGood DEF GoodList
    <3>3. Nbrs(g, x, layer) \in Seq(K)
      BY <3>2 DEF Distinct
    <3> QED
      BY <1>1, <3>1, <3>3, NodeFacts
  <2> QED
    BY <2>1, <2>2 DEF Closed
<1>4. J \in SUBSET K /\ list \in Seq(J) /\ Len(list) \in Nat
  <2>1. J \in SUBSET K
    OBVIOUS
  <2> HIDE DEF J, list
  <2> QED
    BY <1>2, <2>1 DEF Distinct
<1>5. g[p].vector \in Vectors /\ MMax(layer) \in Nat
  <2>1. p \in 1 .. Len(g)
    BY <1>1
  <2> QED
    BY <1>1, <2>1, NodeFacts, MMaxFacts
<1>6. Pushed(g, p, layer, n + 1)
        = IF Len(list) > MMax(layer) THEN ShrinkNeighbors(g, p, list, MMax(layer)) ELSE list
  BY DEF Pushed
<1>7. CASE Len(list) > MMax(layer)
  <2> HIDE DEF J, K, list
  <2>1. /\ ShrinkNeighbors(g, p, list, MMax(layer)) \in Distinct(J)
        /\ Len(ShrinkNeighbors(g, p, list, MMax(layer))) <= MMax(layer)
    BY <1>3, <1>4, <1>5, ShrinkNeighborsType
  <2> QED
    BY <1>6, <1>7, <2>1 DEF GoodList, J
<1>8. CASE ~ Len(list) > MMax(layer)
  <2> HIDE DEF list
  <2> QED
    BY <1>2, <1>4, <1>5, <1>6, <1>8 DEF GoodList
<1> QED
  BY <1>7, <1>8

LEMMA RelinkedGood ==
  ASSUME NEW g, NEW n, NEW l, Unlinked(g, n, l), NEW p \in 1 .. n + 1,
         NEW layer \in 0 .. Level(g, p), layer <= l,
         NEW chosen \in Distinct(OnLayer(g, layer, n)), Len(chosen) <= M
  PROVE  GoodList(g, n, p, layer, Relinked(g, p, layer, chosen))
<1>1. LinkedUpTo(g, n) /\ n \in Nat /\ layer \in Nat /\ Len(g) = n + 1
  BY NodeFacts DEF Unlinked
<1>2. CASE p = n + 1
  <2>1. OnLayer(g, layer, n) \subseteq OnLayer(g, layer, n + 1) \ {p}
    BY <1>1, <1>2, OnLayerGrows
  <2>2. chosen \in Distinct(OnLayer(g, layer, n + 1) \ {p})
    BY <2>1, DistinctMono
  <2>3. Len(chosen) <= MMax(layer)
    <3>1. Len(chosen) \in Nat
      BY DEF Distinct
    <3> QED
      BY <1>1, <3>1, MMaxFacts
  <2>4. Relinked(g, p, layer, chosen) = chosen
    BY <1>1, <1>2 DEF Relinked
  <2> QED
    BY <2>2, <2>3, <2>4 DEF GoodList
<1>3. CASE p \in 1 .. n
  <2>1. Relinked(g, p, layer, chosen) \in {Pushed(g, p, layer, n + 1), Nbrs(g, p, layer)}
    BY <1>1, <1>3 DEF Relinked
  <2>2. GoodList(g, n, p, layer, Pushed(g, p, layer, n + 1))
    BY <1>3, PushedGood
  <2>3. GoodList(g, n, p, layer, Nbrs(g, p, layer))
    BY OldListGood
  <2> QED
    BY <2>1, <2>2, <2>3
<1> QED
  BY <1>1, <1>2, <1>3

(* The bottom lists of k are those of g, linked with what was chosen there. *)
BottomLinked(g, k, n) ==
  \E chosen \in Distinct(1 .. n) :
    /\ Len(chosen) >= 1
    /\ \A p \in 1 .. n + 1 : Nbrs(k, p, 0) = Relinked(g, p, 0, chosen)

(* The new node linked both ways: the arena is as good as before, and apart
   from its lists it has not changed. *)
LEMMA LinkedGood ==
  ASSUME NEW g, NEW n, NEW l, Unlinked(g, n, l), max_layer \in Nat,
         entry_point \in OnLayer(g, max_layer, n)
  PROVE  /\ LinkedUpTo(Linked(g, l), n + 1) /\ Len(Linked(g, l)) = n + 1
         /\ BottomLinked(g, Linked(g, l), n)
         /\ \A p \in 1 .. n + 1 :
              /\ Level(Linked(g, l), p) = Level(g, p)
              /\ Linked(g, l)[p].id = g[p].id /\ Linked(g, l)[p].vector = g[p].vector
              /\ Linked(g, l)[p].payload = g[p].payload
              /\ Linked(g, l)[p].deleted = g[p].deleted
<1> DEFINE low == IF l < max_layer THEN l ELSE max_layer
           cands == Found(g, l, low)
           chosen == [layer \in 0 .. low |-> SelectNeighbors(g, cands[layer], M)]
           NewLists(p) ==
             [i \in 1 .. Level(g, p) + 1 |->
                IF i - 1 \in 0 .. low THEN Relinked(g, p, i - 1, chosen[i - 1])
                ELSE Nbrs(g, p, i - 1)]
           k == [p \in 1 .. n + 1 |-> [g[p] EXCEPT !.neighbors = NewLists(p)]]
<1>1. LinkedUpTo(g, n) /\ n \in Nat /\ l \in Nat /\ low \in Nat /\ low <= l /\ Len(g) = n + 1
      /\ DOMAIN g = 1 .. n + 1
  BY NodeFacts DEF Unlinked
<1>2. Linked(g, l) = k
  BY <1>1 DEF Linked
<1>3. ASSUME NEW layer \in 0 .. low
      PROVE  /\ chosen[layer] \in Distinct(OnLayer(g, layer, n)) /\ Len(chosen[layer]) <= M
             /\ Len(chosen[layer]) >= 1
  <2> DEFINE K == OnLayer(g, layer, n)
             q == g[n + 1].vector
  <2>1. layer \in Nat /\ M \in Nat /\ chosen[layer] = SelectNeighbors(g, cands[layer], M)
    BY <1>1, MMaxFacts
  <2>2. cands[layer] \in CandLists(g, q, K) /\ Len(cands[layer]) >= 1
    BY <1>1, FoundType
  <2>3. q \in Vectors /\ K \in SUBSET Nat /\ \A p \in K : g[p].vector \in Vectors
    <3>1. \A p \in 1 .. n + 1 : g[p] \in Node
      BY <1>1, NodeFacts
    <3>2. K \subseteq 1 .. n
      BY DEF OnLayer
    <3>3. \A p \in 1 .. n + 1 : g[p].vector \in Vectors
      BY <3>1 DEF Node
    <3>4. 1 .. n \subseteq 1 .. n + 1 /\ n + 1 \in 1 .. n + 1 /\ 1 .. n \subseteq Nat
      BY <1>1
    <3> QED
      BY <3>2, <3>3, <3>4
  <2> HIDE DEF q, K, cands, chosen
  <2>4. \A c \in CandsOf(g, q, K) : c.key \in K
    BY <2>3, CandFacts
  <2>5. /\ SelectNeighbors(g, cands[layer], M) \in Distinct(K)
        /\ Len(SelectNeighbors(g, cands[layer], M)) <= M
        /\ M >= 1 /\ Len(cands[layer]) >= 1 => Len(SelectNeighbors(g, cands[layer], M)) >= 1
    BY <2>1, <2>2, <2>4, SelectNeighborsType
  <2>6. M >= 1
    BY HnswAssumption
  <2> QED
    BY <2>1, <2>2, <2>5, <2>6 DEF K
<1> HIDE DEF low, chosen
<1>4. ASSUME NEW p \in 1 .. n + 1, NEW layer \in 0 .. Level(g, p)
      PROVE  /\ NewLists(p)[layer + 1] \in Seq(Nat)
             /\ GoodList(g, n, p, layer, NewLists(p)[layer + 1])
  <2>1. Level(g, p) \in Nat /\ layer \in Nat /\ layer + 1 \in 1 .. Level(g, p) + 1
        /\ (layer + 1) - 1 = layer
    BY <1>1, NodeFacts
  <2>2. NewLists(p)[layer + 1]
          = IF layer \in 0 .. low THEN Relinked(g, p, layer, chosen[layer]) ELSE Nbrs(g, p, layer)
    BY <2>1
  <2> HIDE DEF NewLists
  <2>3. GoodList(g, n, p, layer, NewLists(p)[layer + 1])
    <3>1. CASE layer \in 0 .. low
      <4>1. layer <= l
        BY <1>1, <3>1
      <4>2. GoodList(g, n, p, layer, Relinked(g, p, layer, chosen[layer]))
        BY <1>3, <3>1, <4>1, RelinkedGood
      <4> QED
        BY <2>2, <3>1, <4>2
    <3>2. CASE layer \notin 0 .. low
      BY <2>2, <3>2, OldListGood
    <3> QED
      BY <3>1, <3>2
  <2>4. NewLists(p)[layer + 1] \in Seq(Nat)
    <3>1. OnLayer(g, layer, n + 1) \ {p} \subseteq Nat
      BY <1>1 DEF OnLayer
    <3> QED
      BY <2>3, <3>1 DEF GoodList, Distinct
  <2> QED
    BY <2>3, <2>4
<1>bottom. ASSUME NEW p \in 1 .. n + 1
           PROVE  NewLists(p)[1] = Relinked(g, p, 0, chosen[0])
  <2>1. 1 \in 1 .. Level(g, p) + 1 /\ 1 - 1 = 0 /\ 0 \in 0 .. low
    BY <1>1, NodeFacts
  <2> QED
    BY <2>1
<1>5. ASSUME NEW p \in 1 .. n + 1
      PROVE  NewLists(p) \in Seq(Seq(Nat)) /\ Len(NewLists(p)) = Level(g, p) + 1
  <2>1. Level(g, p) \in Nat /\ Level(g, p) + 1 \in Nat
    BY <1>1, NodeFacts
  <2>2. \A i \in 1 .. Level(g, p) + 1 : NewLists(p)[i] \in Seq(Nat)
    <3> TAKE i \in 1 .. Level(g, p) + 1
    <3>1. i - 1 \in 0 .. Level(g, p) /\ (i - 1) + 1 = i
      BY <2>1
    <3> HIDE DEF NewLists
    <3> QED
      BY <1>4, <3>1
  <2>3. DOMAIN NewLists(p) = 1 .. Level(g, p) + 1
        /\ NewLists(p) = [i \in 1 .. Level(g, p) + 1 |-> NewLists(p)[i]]
    OBVIOUS
  <2> HIDE DEF NewLists
  <2> DEFINE m == Level(g, p) + 1
             lists == NewLists(p)
  <2>4. m \in Nat /\ lists \in [1 .. m -> Seq(Nat)]
    BY <2>1, <2>2, <2>3
  <2> HIDE DEF m, lists
  <2>5. lists \in Seq(Seq(Nat)) /\ Len(lists) = m
    BY <2>4
  <2> QED
    BY <2>5 DEF m, lists
<1> HIDE DEF NewLists
<1>6. ASSUME NEW p \in 1 .. n + 1
      PROVE  /\ k[p] \in Node /\ Level(k, p) = Level(g, p)
             /\ k[p].id = g[p].id /\ k[p].vector = g[p].vector
             /\ k[p].payload = g[p].payload /\ k[p].deleted = g[p].deleted
             /\ k[p].neighbors = NewLists(p)
  <2>1. g[p] \in Node /\ Level(g, p) \in Nat
    BY <1>1, NodeFacts
  <2>2. k[p] = [g[p] EXCEPT !.neighbors = NewLists(p)]
    OBVIOUS
  <2> HIDE DEF k
  <2>3. k[p] \in Node /\ k[p].neighbors = NewLists(p)
        /\ k[p].id = g[p].id /\ k[p].vector = g[p].vector
        /\ k[p].payload = g[p].payload /\ k[p].deleted = g[p].deleted
    BY <1>5, <2>1, <2>2 DEF Node
  <2>4. Level(k, p) = Level(g, p)
    BY <1>5, <2>1, <2>3 DEF Level
  <2> QED
    BY <2>3, <2>4
<1>7. k \in Seq(Node) /\ Len(k) = n + 1
  <2>1. DOMAIN k = 1 .. n + 1 /\ k = [p \in 1 .. n + 1 |-> k[p]]
    OBVIOUS
  <2> HIDE DEF k
  <2>2. k \in [1 .. n + 1 -> Node]
    BY <1>6, <2>1
  <2> QED
    BY <1>1, <2>1, <2>2
<1> HIDE DEF k
<1>8. \A layer : OnLayer(k, layer, n + 1) = OnLayer(g, layer, n + 1)
  BY <1>6 DEF OnLayer
<1>9. ASSUME NEW p \in 1 .. n + 1, NEW layer \in 0 .. Level(k, p)
      PROVE  /\ Nbrs(k, p, layer) \in Distinct(OnLayer(k, layer, n + 1) \ {p})
             /\ Len(Nbrs(k, p, layer)) <= MMax(layer)
  <2>1. layer \in 0 .. Level(g, p)
    BY <1>6
  <2>2. Nbrs(k, p, layer) = NewLists(p)[layer + 1]
    BY <1>6 DEF Nbrs
  <2> QED
    BY <1>4, <1>8, <2>1, <2>2 DEF GoodList
<1>10. \A p \in 1 .. n + 1 : Level(k, p) \in Levels
  BY <1>1, <1>6, NodeFacts
<1>11. LinkedUpTo(k, n + 1)
  <2>1. n + 1 \in 0 .. Len(k) /\ \A p \in 1 .. Len(k) : Level(k, p) \in Levels
    BY <1>1, <1>7, <1>10
  <2> QED
    BY <1>7, <1>9, <2>1 DEF LinkedUpTo
<1>12. BottomLinked(g, k, n)
  <2>1. chosen[0] \in Distinct(1 .. n) /\ Len(chosen[0]) >= 1
    <3>1. 0 \in 0 .. low /\ OnLayer(g, 0, n) \subseteq 1 .. n
      BY <1>1 DEF OnLayer
    <3>2. chosen[0] \in Distinct(OnLayer(g, 0, n)) /\ Len(chosen[0]) >= 1
      BY <1>3, <3>1
    <3> QED
      BY <3>1, <3>2, DistinctMono
  <2>2. ASSUME NEW p \in 1 .. n + 1
        PROVE  Nbrs(k, p, 0) = Relinked(g, p, 0, chosen[0])
    <3>1. Nbrs(k, p, 0) = NewLists(p)[1]
      BY <1>6 DEF Nbrs
    <3> QED
      BY <1>bottom, <3>1
  <2> QED
    BY <2>1, <2>2 DEF BottomLinked
<1> QED
  BY <1>2, <1>6, <1>7, <1>11, <1>12

-----------------------------------------------------------------------------
(* The invariant. *)

(* The ids that the map knows have a node of theirs, the one it says. *)
MapInv ==
  /\ DOMAIN id_to_pos \subseteq Ids
  /\ \A id \in DOMAIN id_to_pos : /\ id_to_pos[id] \in Positions
                                  /\ nodes[id_to_pos[id]].id = id

EntryInv ==
  /\ entry_point \in Positions \cup {0} /\ max_layer \in Levels \cup {0}
  /\ entry_point = 0 => max_layer = 0
  /\ EntryIsHighest

HInv ==
  /\ LinkedUpTo(nodes, Len(nodes)) /\ Len(nodes) <= MaxNodes
  /\ EntryInv
  /\ MapInv
  /\ LiveNodesAgree

(* The node that Add appends. *)
NewNode(id, v, pl, l) ==
  [id |-> id, vector |-> v, payload |-> pl, deleted |-> FALSE,
   neighbors |-> [i \in 1 .. l + 1 |-> << >>]]

(* Apart from their lists, the nodes of g and h are the same. *)
SameNodes(g, h) ==
  /\ Len(g) = Len(h)
  /\ \A p \in 1 .. Len(g) : /\ Level(g, p) = Level(h, p)
                            /\ g[p].id = h[p].id /\ g[p].vector = h[p].vector
                            /\ g[p].payload = h[p].payload /\ g[p].deleted = h[p].deleted

LEMMA AppendUnlinked ==
  ASSUME LinkedUpTo(nodes, Len(nodes)), NEW id \in Ids, NEW v \in Vectors, NEW pl \in Payloads,
         NEW l \in Levels
  PROVE  LET arena == Append(nodes, NewNode(id, v, pl, l)) IN
         /\ Unlinked(arena, Len(nodes), l)
         /\ arena[Len(nodes) + 1] = NewNode(id, v, pl, l)
         /\ \A p \in 1 .. Len(nodes) : arena[p] = nodes[p]
<1> DEFINE n == Len(nodes)
           node == NewNode(id, v, pl, l)
           arena == Append(nodes, node)
<1>1. n \in Nat /\ nodes \in Seq(Node) /\ l \in Nat
  BY NodeFacts, HnswAssumption DEF LinkedUpTo
<1>2. node \in Node /\ Len(node.neighbors) = l + 1
      /\ \A i \in 1 .. l + 1 : node.neighbors[i] = << >>
  <2> DEFINE m == l + 1
             lists == [i \in 1 .. l + 1 |-> << >>]
  <2>1. lists \in [1 .. m -> Seq(Nat)] /\ m \in Nat
    BY <1>1
  <2>2. lists \in Seq(Seq(Nat)) /\ Len(lists) = m
    <3> HIDE DEF m, lists
    <3> QED
      BY <2>1
  <2>3. \A i \in 1 .. l + 1 : lists[i] = << >>
    OBVIOUS
  <2>4. node = [id |-> id, vector |-> v, payload |-> pl, deleted |-> FALSE, neighbors |-> lists]
    BY DEF NewNode
  <2> HIDE DEF lists
  <2> QED
    BY <2>2, <2>3, <2>4 DEF Node
<1> HIDE DEF node
<1>3. /\ arena \in Seq(Node) /\ Len(arena) = n + 1
      /\ arena[n + 1] = node
      /\ \A p \in 1 .. n : arena[p] = nodes[p]
  BY <1>1, <1>2
<1> HIDE DEF arena
<1>4. /\ Level(arena, n + 1) = l
      /\ \A layer \in 0 .. l : Nbrs(arena, n + 1, layer) = << >>
  BY <1>1, <1>2, <1>3 DEF Level, Nbrs
<1>5. \A p \in 1 .. n : /\ Level(arena, p) = Level(nodes, p)
                        /\ \A layer : Nbrs(arena, p, layer) = Nbrs(nodes, p, layer)
  BY <1>3 DEF Level, Nbrs
<1>6. \A layer : OnLayer(arena, layer, n) = OnLayer(nodes, layer, n)
  BY <1>5 DEF OnLayer
<1>7. ASSUME NEW p \in 1 .. n, NEW layer \in 0 .. Level(arena, p)
      PROVE  /\ Nbrs(arena, p, layer) \in Distinct(OnLayer(arena, layer, n) \ {p})
             /\ Len(Nbrs(arena, p, layer)) <= MMax(layer)
  BY <1>5, <1>6 DEF LinkedUpTo
<1>8. n \in 0 .. Len(arena)
      /\ \A p \in 1 .. Len(arena) : Level(arena, p) \in Levels
  <2>1. \A p \in 1 .. n : Level(nodes, p) \in Levels
    BY DEF LinkedUpTo
  <2> QED
    BY <1>1, <1>3, <1>4, <1>5, <2>1
<1>9. LinkedUpTo(arena, n)
  BY <1>3, <1>7, <1>8 DEF LinkedUpTo
<1>10. Unlinked(arena, n, l)
  BY <1>1, <1>3, <1>4, <1>9 DEF Unlinked
<1> QED
  BY <1>3, <1>10 DEF arena, node

(* Adding leaves an arena that is linked, with the new node in it. *)
LEMMA AddArena ==
  ASSUME HInv, NEW id \in Ids, NEW v \in Vectors, NEW pl \in Payloads, NEW l \in Levels,
         Add(id, v, pl, l)
  PROVE  /\ LinkedUpTo(nodes', Len(nodes')) /\ Len(nodes') = Len(nodes) + 1
         /\ SameNodes(nodes', Append(nodes, NewNode(id, v, pl, l)))
         /\ \/ Len(nodes) = 0
            \/ BottomLinked(Append(nodes, NewNode(id, v, pl, l)), nodes', Len(nodes))
<1> DEFINE n == Len(nodes)
           arena == Append(nodes, NewNode(id, v, pl, l))
<1>1. LinkedUpTo(nodes, n) /\ n \in Nat
  BY NodeFacts DEF HInv
<1>2. Unlinked(arena, n, l) /\ \A p \in 1 .. n : arena[p] = nodes[p]
  BY <1>1, AppendUnlinked
<1>3. nodes' = IF entry_point = 0 THEN arena ELSE Linked(arena, l)
  BY DEF Add, NewNode
<1> HIDE DEF arena
<1>4. LinkedUpTo(arena, n) /\ Len(arena) = n + 1
  BY <1>2 DEF Unlinked
<1>5. CASE entry_point = 0
  <2>1. nodes = << >> /\ n = 0
    BY <1>5 DEF HInv, EntryInv, EntryIsHighest
  <2>2. \A p \in 1 .. n + 1 : \A layer \in 0 .. Level(arena, p) :
          GoodList(arena, n, p, layer, Nbrs(arena, p, layer))
    BY <1>2, OldListGood
  <2>3. n + 1 \in 0 .. Len(arena)
    BY <1>1, <1>4
  <2>4. LinkedUpTo(arena, n + 1)
    BY <1>4, <2>2, <2>3 DEF LinkedUpTo, GoodList
  <2> QED
    BY <1>3, <1>4, <1>5, <2>1, <2>4 DEF SameNodes, arena
<1>6. CASE entry_point # 0
  <2>1. entry_point \in 1 .. n /\ Level(nodes, entry_point) = max_layer /\ max_layer \in Nat
    BY <1>6, HnswAssumption DEF HInv, EntryInv, EntryIsHighest, Positions
  <2>2. entry_point \in OnLayer(arena, max_layer, n)
    BY <1>2, <2>1 DEF OnLayer, Level
  <2>3. /\ LinkedUpTo(Linked(arena, l), n + 1) /\ Len(Linked(arena, l)) = n + 1
        /\ BottomLinked(arena, Linked(arena, l), n)
        /\ \A p \in 1 .. n + 1 :
             /\ Level(Linked(arena, l), p) = Level(arena, p)
             /\ Linked(arena, l)[p].id = arena[p].id
             /\ Linked(arena, l)[p].vector = arena[p].vector
             /\ Linked(arena, l)[p].payload = arena[p].payload
             /\ Linked(arena, l)[p].deleted = arena[p].deleted
    BY <1>2, <2>1, <2>2, LinkedGood
  <2>4. nodes' = Linked(arena, l)
    BY <1>3, <1>6
  <2> QED
    BY <1>4, <2>3, <2>4 DEF SameNodes, arena
<1> QED
  BY <1>5, <1>6

(* What is live, and what the nodes of the old positions are, after an add. *)
LEMMA AddNodes ==
  ASSUME HInv, NEW id \in Ids, NEW v \in Vectors, NEW pl \in Payloads, NEW l \in Levels,
         Add(id, v, pl, l)
  PROVE  LET n == Len(nodes) IN
         /\ n \in Nat /\ Len(nodes') = n + 1 /\ l \in Nat
         /\ nodes'[n + 1].id = id /\ nodes'[n + 1].vector = v /\ nodes'[n + 1].payload = pl
         /\ nodes'[n + 1].deleted = FALSE /\ Level(nodes', n + 1) = l
         /\ \A p \in 1 .. n :
              /\ nodes'[p].id = nodes[p].id /\ nodes'[p].vector = nodes[p].vector
              /\ nodes'[p].payload = nodes[p].payload /\ nodes'[p].deleted = nodes[p].deleted
              /\ Level(nodes', p) = Level(nodes, p)
<1> DEFINE n == Len(nodes)
           arena == Append(nodes, NewNode(id, v, pl, l))
<1>1. LinkedUpTo(nodes, n) /\ n \in Nat /\ l \in Nat
  BY NodeFacts, HnswAssumption DEF HInv
<1>2. /\ Unlinked(arena, n, l) /\ arena[n + 1] = NewNode(id, v, pl, l)
      /\ \A p \in 1 .. n : arena[p] = nodes[p]
  BY <1>1, AppendUnlinked
<1>3. SameNodes(nodes', arena) /\ Len(nodes') = n + 1
  BY AddArena
<1> HIDE DEF arena
<1>4. Level(arena, n + 1) = l
  BY <1>2 DEF Unlinked
<1>5. \A p \in 1 .. n : Level(arena, p) = Level(nodes, p)
  BY <1>2 DEF Level
<1>6. NewNode(id, v, pl, l).id = id /\ NewNode(id, v, pl, l).vector = v
      /\ NewNode(id, v, pl, l).payload = pl /\ NewNode(id, v, pl, l).deleted = FALSE
  BY DEF NewNode
<1>7. \A p \in 1 .. n + 1 :
        /\ Level(nodes', p) = Level(arena, p)
        /\ nodes'[p].id = arena[p].id /\ nodes'[p].vector = arena[p].vector
        /\ nodes'[p].payload = arena[p].payload /\ nodes'[p].deleted = arena[p].deleted
  BY <1>3 DEF SameNodes
<1> QED
  BY <1>1, <1>2, <1>3, <1>4, <1>5, <1>6, <1>7

LEMMA AddKeepsEntry ==
  ASSUME HInv, NEW id \in Ids, NEW v \in Vectors, NEW pl \in Payloads, NEW l \in Levels,
         Add(id, v, pl, l)
  PROVE  EntryInv'
<1> DEFINE n == Len(nodes)
<1>1. /\ n \in Nat /\ Len(nodes') = n + 1 /\ l \in Nat /\ Level(nodes', n + 1) = l
      /\ \A p \in 1 .. n : Level(nodes', p) = Level(nodes, p)
  BY AddNodes
<1>2. /\ entry_point' = IF entry_point = 0 \/ l > max_layer THEN n + 1 ELSE entry_point
      /\ max_layer' = IF l > max_layer THEN l ELSE max_layer
  <2>1. nodes \in Seq(Node)
    BY DEF HInv, LinkedUpTo
  <2>2. Len(Append(nodes, NewNode(id, v, pl, l))) = n + 1
    BY <2>1
  <2> QED
    BY <2>2 DEF Add, NewEntry, NewNode
<1>3. /\ entry_point \in 1 .. n \cup {0} /\ max_layer \in Levels \cup {0}
      /\ entry_point = 0 => max_layer = 0
      /\ entry_point = 0 <=> nodes = << >>
      /\ entry_point # 0 => Level(nodes, entry_point) = max_layer
      /\ \A p \in 1 .. n : Level(nodes, p) <= max_layer
  BY DEF HInv, EntryInv, EntryIsHighest, Positions
<1>4. \A p \in 1 .. n : Level(nodes, p) \in Nat
  BY NodeFacts DEF HInv
<1>5. max_layer \in Nat
  BY <1>3, HnswAssumption
<1>6. nodes' # << >> /\ (nodes = << >> => n = 0)
  <2>1. nodes' = << >> => Len(nodes') = 0
    OBVIOUS
  <2> QED
    BY <1>1, <2>1
<1>7. entry_point' \in 1 .. n + 1 /\ entry_point' # 0 /\ max_layer' \in Levels \cup {0}
  BY <1>1, <1>2, <1>3
<1>8. Level(nodes', entry_point') = max_layer'
  BY <1>1, <1>2, <1>3, <1>5
<1>9. \A p \in 1 .. n + 1 : Level(nodes', p) <= max_layer'
  <2> TAKE p \in 1 .. n + 1
  <2>1. CASE p = n + 1
    BY <1>1, <1>2, <1>5, <2>1
  <2>2. CASE p \in 1 .. n
    BY <1>1, <1>2, <1>3, <1>4, <1>5, <2>2
  <2> QED
    BY <1>1, <2>1, <2>2
<1> QED
  BY <1>1, <1>6, <1>7, <1>8, <1>9 DEF EntryInv, EntryIsHighest, Positions

(* The id was free, and no live node had it. *)
LEMMA AddKeepsMap ==
  ASSUME HInv, NEW id \in Ids, NEW v \in Vectors, NEW pl \in Payloads, NEW l \in Levels,
         Add(id, v, pl, l)
  PROVE  MapInv' /\ LiveNodesAgree'
<1> DEFINE n == Len(nodes)
           live == {p \in 1 .. n : ~ nodes[p].deleted}
<1>1. /\ n \in Nat /\ Len(nodes') = n + 1
      /\ nodes'[n + 1].id = id /\ nodes'[n + 1].deleted = FALSE
      /\ \A p \in 1 .. n : nodes'[p].id = nodes[p].id /\ nodes'[p].deleted = nodes[p].deleted
  BY AddNodes
<1>2. /\ ~ Live(id) /\ live_count' = live_count + 1
      /\ id_to_pos' = [x \in DOMAIN id_to_pos \cup {id} |-> IF x = id THEN n + 1 ELSE id_to_pos[x]]
  <2>1. nodes \in Seq(Node)
    BY DEF HInv, LinkedUpTo
  <2>2. Len(Append(nodes, NewNode(id, v, pl, l))) = n + 1
    BY <2>1
  <2> QED
    BY <2>2 DEF Add, Free, TakeOver, NewNode
<1>3. /\ DOMAIN id_to_pos \subseteq Ids
      /\ \A x \in DOMAIN id_to_pos : id_to_pos[x] \in 1 .. n /\ nodes[id_to_pos[x]].id = x
  BY DEF HInv, MapInv, Positions
<1>4. /\ live_count = Cardinality(live)
      /\ \A p \in 1 .. n : ~ nodes[p].deleted => /\ nodes[p].id \in DOMAIN id_to_pos
                                                 /\ id_to_pos[nodes[p].id] = p
  BY DEF HInv, LiveNodesAgree, Positions
<1>5. DOMAIN id_to_pos' = DOMAIN id_to_pos \cup {id}
      /\ id_to_pos'[id] = n + 1
      /\ \A x \in DOMAIN id_to_pos \ {id} : id_to_pos'[x] = id_to_pos[x]
  BY <1>2
<1>6. MapInv'
  <2>1. DOMAIN id_to_pos' \subseteq Ids
    BY <1>3, <1>5
  <2>2. \A x \in DOMAIN id_to_pos' : id_to_pos'[x] \in 1 .. n + 1 /\ nodes'[id_to_pos'[x]].id = x
    <3> TAKE x \in DOMAIN id_to_pos'
    <3>1. CASE x = id
      BY <1>1, <1>5, <3>1
    <3>2. CASE x # id
      <4>1. x \in DOMAIN id_to_pos /\ id_to_pos'[x] = id_to_pos[x]
        BY <1>5, <3>2
      <4>2. id_to_pos[x] \in 1 .. n /\ nodes[id_to_pos[x]].id = x
        BY <1>3, <4>1
      <4> QED
        BY <1>1, <4>1, <4>2
    <3> QED
      BY <3>1, <3>2
  <2> QED
    BY <1>1, <2>1, <2>2 DEF MapInv, Positions
<1>7. ASSUME NEW p \in 1 .. n, ~ nodes[p].deleted
      PROVE  nodes[p].id # id
  BY <1>2, <1>4, <1>7 DEF Live
<1>8. ASSUME NEW p \in 1 .. n + 1, ~ nodes'[p].deleted
      PROVE  nodes'[p].id \in DOMAIN id_to_pos' /\ id_to_pos'[nodes'[p].id] = p
  <2>1. CASE p = n + 1
    BY <1>1, <1>5, <2>1
  <2>2. CASE p \in 1 .. n
    <3>1. nodes'[p].id = nodes[p].id /\ ~ nodes[p].deleted
      BY <1>1, <1>8, <2>2
    <3>2. nodes[p].id # id /\ nodes[p].id \in DOMAIN id_to_pos /\ id_to_pos[nodes[p].id] = p
      BY <1>4, <1>7, <2>2, <3>1
    <3> QED
      BY <1>5, <3>1, <3>2
  <2> QED
    BY <1>1, <2>1, <2>2
<1>9. live_count' = Cardinality({p \in 1 .. n + 1 : ~ nodes'[p].deleted})
  <2>1. {p \in 1 .. n + 1 : ~ nodes'[p].deleted} = live \cup {n + 1}
    BY <1>1
  <2>2. live \in SUBSET (1 .. n) /\ n + 1 \notin live
    BY <1>1
  <2> HIDE DEF live
  <2>3. IsFiniteSet(live)
    <3>1. IsFiniteSet(1 .. n)
      BY <1>1, FS_Interval
    <3> QED
      BY <2>2, <3>1, FS_Subset
  <2>4. Cardinality(live \cup {n + 1}) = Cardinality(live) + 1
    BY <2>2, <2>3, FS_AddElement
  <2> QED
    BY <1>2, <1>4, <2>1, <2>4
<1>10. LiveNodesAgree'
  BY <1>1, <1>8, <1>9 DEF LiveNodesAgree, Positions
<1> QED
  BY <1>6, <1>10

LEMMA AddKeeps ==
  ASSUME HInv, NEW id \in Ids, NEW v \in Vectors, NEW pl \in Payloads, NEW l \in Levels,
         Add(id, v, pl, l)
  PROVE  HInv'
<1>1. LinkedUpTo(nodes', Len(nodes')) /\ Len(nodes') = Len(nodes) + 1
  BY AddArena
<1>2. Len(nodes) < MaxNodes /\ Len(nodes) \in Nat
  BY AddNodes DEF Add
<1>3. Len(nodes') <= MaxNodes
  BY <1>1, <1>2, HnswAssumption
<1>4. EntryInv' /\ MapInv' /\ LiveNodesAgree'
  BY AddKeepsEntry, AddKeepsMap
<1> QED
  BY <1>1, <1>3, <1>4 DEF HInv

(* A tombstone keeps its lists and its level. *)
Buried(id, n, at) ==
  /\ n \in Nat /\ Len(nodes') = n /\ nodes' \in Seq(Node)
  /\ id \in DOMAIN id_to_pos /\ at \in 1 .. n /\ nodes[at].id = id
  /\ nodes[at].deleted = FALSE /\ nodes'[at].deleted = TRUE
  /\ \A p \in 1 .. n :
       /\ nodes'[p].id = nodes[p].id /\ nodes'[p].vector = nodes[p].vector
       /\ nodes'[p].payload = nodes[p].payload
       /\ nodes'[p].neighbors = nodes[p].neighbors
       /\ p # at => nodes'[p].deleted = nodes[p].deleted

LEMMA RemoveNodes ==
  ASSUME HInv, NEW id \in Ids, Remove(id)
  PROVE  Buried(id, Len(nodes), id_to_pos[id])
<1> DEFINE n == Len(nodes)
           at == id_to_pos[id]
<1>1. n \in Nat /\ nodes \in Seq(Node)
  BY NodeFacts DEF HInv, LinkedUpTo
<1>2. id \in DOMAIN id_to_pos /\ ~ nodes[at].deleted
  BY DEF Remove, Live
<1>3. at \in 1 .. n /\ nodes[at].id = id
  BY <1>2 DEF HInv, MapInv, Positions
<1>4. nodes' = [nodes EXCEPT ![at].deleted = TRUE]
  BY DEF Remove
<1> HIDE DEF at
<1>5. \A p \in 1 .. n : nodes[p] \in Node
  BY <1>1
<1> DEFINE tombstone == [nodes[at] EXCEPT !.deleted = TRUE]
<1>6. /\ tombstone \in Node /\ tombstone.deleted = TRUE /\ tombstone.id = nodes[at].id
      /\ tombstone.vector = nodes[at].vector /\ tombstone.payload = nodes[at].payload
      /\ tombstone.neighbors = nodes[at].neighbors
  BY <1>3, <1>5 DEF Node
<1>7. nodes[at].deleted = FALSE
  BY <1>2, <1>3, <1>5 DEF Node
<1>8. nodes' = [nodes EXCEPT ![at] = tombstone]
  BY <1>4
<1> HIDE DEF tombstone
<1>9. /\ nodes' \in Seq(Node) /\ Len(nodes') = n /\ nodes'[at] = tombstone
      /\ \A p \in 1 .. n : p # at => nodes'[p] = nodes[p]
  BY <1>1, <1>3, <1>6, <1>8
<1> QED
  BY <1>1, <1>2, <1>3, <1>6, <1>7, <1>9 DEF at, Buried

LEMMA RemoveKeeps ==
  ASSUME HInv, NEW id \in Ids, Remove(id)
  PROVE  HInv'
<1> DEFINE n == Len(nodes)
           at == id_to_pos[id]
           live == {p \in 1 .. n : ~ nodes[p].deleted}
<1>0. Buried(id, n, at)
  BY RemoveNodes
<1>1. /\ n \in Nat /\ Len(nodes') = n /\ nodes' \in Seq(Node)
      /\ id \in DOMAIN id_to_pos /\ at \in 1 .. n /\ nodes[at].id = id
      /\ nodes[at].deleted = FALSE /\ nodes'[at].deleted = TRUE
      /\ \A p \in 1 .. n : /\ nodes'[p].id = nodes[p].id
                           /\ nodes'[p].neighbors = nodes[p].neighbors
                           /\ p # at => nodes'[p].deleted = nodes[p].deleted
  BY <1>0 DEF Buried
<1>2. live_count' = live_count - 1
      /\ id_to_pos' = id_to_pos /\ entry_point' = entry_point /\ max_layer' = max_layer
  BY DEF Remove
<1> HIDE DEF at
<1>3. \A p \in 1 .. n : /\ Level(nodes', p) = Level(nodes, p)
                        /\ \A layer : Nbrs(nodes', p, layer) = Nbrs(nodes, p, layer)
  BY <1>1 DEF Level, Nbrs
<1>4. LinkedUpTo(nodes', Len(nodes'))
  <2>1. LinkedUpTo(nodes, n)
    BY DEF HInv
  <2>2. \A layer : OnLayer(nodes', layer, n) = OnLayer(nodes, layer, n)
    BY <1>3 DEF OnLayer
  <2>3. \A p \in 1 .. n : Level(nodes', p) \in Levels
    BY <1>3, <2>1 DEF LinkedUpTo
  <2>4. \A p \in 1 .. n : \A layer \in 0 .. Level(nodes', p) :
          /\ Nbrs(nodes', p, layer) \in Distinct(OnLayer(nodes', layer, n) \ {p})
          /\ Len(Nbrs(nodes', p, layer)) <= MMax(layer)
    BY <1>3, <2>1, <2>2 DEF LinkedUpTo
  <2>5. n \in 0 .. n
    BY <1>1
  <2> QED
    BY <1>1, <2>3, <2>4, <2>5 DEF LinkedUpTo
<1>5. Len(nodes') <= MaxNodes
  BY <1>1 DEF HInv
<1>6. EntryInv'
  <2>1. nodes' = << >> <=> nodes = << >>
    <3>1. (nodes' = << >> => Len(nodes') = 0) /\ (nodes = << >> => n = 0)
      OBVIOUS
    <3> QED
      BY <1>1, <3>1
  <2>2. entry_point \in 1 .. n \cup {0}
    BY DEF HInv, EntryInv, Positions
  <2> QED
    BY <1>1, <1>2, <1>3, <2>1, <2>2 DEF HInv, EntryInv, EntryIsHighest, Positions
<1>7. MapInv'
  BY <1>1, <1>2 DEF HInv, MapInv, Positions
<1>8. LiveNodesAgree'
  <2>1. {p \in 1 .. n : ~ nodes'[p].deleted} = live \ {at}
    BY <1>1
  <2>2. live \in SUBSET (1 .. n) /\ at \in live
    BY <1>1
  <2>3. live_count = Cardinality(live)
    BY DEF HInv, LiveNodesAgree, Positions
  <2>4. \A p \in 1 .. n : ~ nodes'[p].deleted => /\ nodes'[p].id \in DOMAIN id_to_pos
                                                 /\ id_to_pos[nodes'[p].id] = p
    BY <1>1 DEF HInv, LiveNodesAgree, Positions
  <2> HIDE DEF live
  <2>5. IsFiniteSet(live)
    <3>1. n \in Nat
      BY <1>1
    <3>2. IsFiniteSet(1 .. n)
      BY <3>1, FS_Interval
    <3> QED
      BY <2>2, <3>2, FS_Subset
  <2>6. Cardinality(live \ {at}) = Cardinality(live) - 1
    BY <2>2, <2>5, FS_RemoveElement
  <2>7. live_count' = Cardinality({p \in 1 .. n : ~ nodes'[p].deleted})
    BY <1>2, <2>1, <2>3, <2>6
  <2> QED
    BY <1>1, <1>2, <2>4, <2>7 DEF LiveNodesAgree, Positions
<1> QED
  BY <1>4, <1>5, <1>6, <1>7, <1>8 DEF HInv

(* Nothing is stored. *)
LEMMA InitHInv == Init => HInv
<1> SUFFICES ASSUME Init PROVE HInv
  OBVIOUS
<1> USE DEF Init
<1>1. nodes = << >> /\ Len(nodes) = 0 /\ nodes \in Seq(Node) /\ Positions = {}
  BY DEF Positions
<1>2. LinkedUpTo(nodes, Len(nodes))
  BY <1>1 DEF LinkedUpTo
<1>3. Len(nodes) <= MaxNodes
  BY <1>1, HnswAssumption
<1>4. EntryInv
  BY <1>1 DEF EntryInv, EntryIsHighest
<1>5. MapInv
  BY <1>1 DEF MapInv
<1>6. LiveNodesAgree
  <2>1. {p \in Positions : ~ nodes[p].deleted} = {}
    BY <1>1
  <2> QED
    BY <1>1, <2>1, FS_EmptySet DEF LiveNodesAgree
<1> QED
  BY <1>2, <1>3, <1>4, <1>5, <1>6 DEF HInv

(* The invariant is preserved. *)
LEMMA NextHInv == HInv /\ [Next]_vars => HInv'
<1> SUFFICES ASSUME HInv, [Next]_vars PROVE HInv'
  OBVIOUS
<1>1. ASSUME NEW id \in Ids, NEW v \in Vectors, NEW pl \in Payloads, NEW l \in Levels,
             Add(id, v, pl, l)
      PROVE  HInv'
  BY <1>1, AddKeeps
<1>2. ASSUME NEW id \in Ids, Remove(id)
      PROVE  HInv'
  BY <1>2, RemoveKeeps
<1>3. CASE UNCHANGED vars
  <2>1. /\ nodes' = nodes /\ id_to_pos' = id_to_pos /\ entry_point' = entry_point
        /\ max_layer' = max_layer /\ live_count' = live_count
    BY <1>3 DEF vars
  <2>2. EntryInv' /\ MapInv' /\ LiveNodesAgree'
    BY <2>1 DEF HInv, EntryInv, EntryIsHighest, MapInv, LiveNodesAgree, Positions
  <2>3. LinkedUpTo(nodes', Len(nodes')) /\ Len(nodes') <= MaxNodes
    BY <2>1 DEF HInv
  <2> QED
    BY <2>2, <2>3 DEF HInv
<1> QED
  BY <1>1, <1>2, <1>3 DEF Next

LEMMA HInvHolds == Spec => []HInv
BY InitHInv, NextHInv, PTL DEF Spec

(* Types follow from the invariant. *)
LEMMA TypedArena == HInv => TypeOK
<1> SUFFICES ASSUME HInv PROVE TypeOK
  OBVIOUS
<1> DEFINE n == Len(nodes)
           live == {p \in 1 .. n : ~ nodes[p].deleted}
<1>1. n \in Nat /\ \A p \in 1 .. n : nodes[p] \in Node /\ Level(nodes, p) \in Levels
  BY NodeFacts DEF HInv
<1>2. \A p \in 1 .. n :
        /\ nodes[p].id \in Ids /\ nodes[p].vector \in Vectors
        /\ nodes[p].payload \in Payloads /\ nodes[p].deleted \in BOOLEAN
  BY <1>1 DEF Node
<1>3. live_count \in 0 .. n
  <2>0. n \in Nat
    BY <1>1
  <2>1. IsFiniteSet(1 .. n) /\ Cardinality(1 .. n) = n
    <3> HIDE DEF n
    <3> QED
      BY <2>0, FS_Interval
  <2>2. live \in SUBSET (1 .. n)
    OBVIOUS
  <2>3. live_count = Cardinality(live)
    BY DEF HInv, LiveNodesAgree, Positions
  <2> HIDE DEF live
  <2>4. IsFiniteSet(live) /\ Cardinality(live) <= Cardinality(1 .. n)
    BY <2>1, <2>2, FS_Subset
  <2>5. Cardinality(live) \in Nat
    BY <2>4, FS_CardinalityType
  <2> QED
    BY <1>1, <2>1, <2>3, <2>4, <2>5
<1> QED
  BY <1>1, <1>2, <1>3 DEF HInv, EntryInv, MapInv, TypeOK, Positions

-----------------------------------------------------------------------------
(***************************************************************************)
(* Whatever levels are drawn, in whatever order, positions point into the  *)
(* arena and the count of live vectors is one of its sizes.                *)
(***************************************************************************)
THEOREM ArenaIsTyped == Spec => []TypeOK
BY TypedArena, HInvHolds, PTL

(* So do the links of a layer. *)
LEMMA SoundLinks == HInv => EdgesStayInLayer
<1> SUFFICES ASSUME HInv, NEW p \in Positions, NEW layer \in 0 .. Level(nodes, p)
             PROVE  LET list == Nbrs(nodes, p, layer) IN
                    /\ Len(list) <= MMax(layer)
                    /\ \A i \in 1 .. Len(list) :
                         /\ list[i] \in Positions \ {p} /\ Level(nodes, list[i]) >= layer
                         /\ \A j \in 1 .. Len(list) : list[i] = list[j] => i = j
  BY DEF EdgesStayInLayer
<1> DEFINE list == Nbrs(nodes, p, layer)
<1>1. list \in Distinct(OnLayer(nodes, layer, Len(nodes)) \ {p}) /\ Len(list) <= MMax(layer)
  BY DEF HInv, LinkedUpTo, Positions
<1> HIDE DEF list
<1>2. list \in Seq(OnLayer(nodes, layer, Len(nodes)) \ {p})
      /\ \A i, j \in 1 .. Len(list) : list[i] = list[j] => i = j
  BY <1>1 DEF Distinct
<1>3. \A i \in 1 .. Len(list) : list[i] \in OnLayer(nodes, layer, Len(nodes)) \ {p}
  BY <1>2
<1>4. \A x \in OnLayer(nodes, layer, Len(nodes)) : x \in Positions /\ Level(nodes, x) >= layer
  BY DEF OnLayer, Positions
<1> QED
  BY <1>1, <1>2, <1>3, <1>4 DEF list

(***************************************************************************)
(* No sequence of adds, with lists that overflow and are shrunk, makes an  *)
(* edge lead off its layer, to its own node or twice to the same: the      *)
(* searches never index a list that is not there (hnsw.rs 452-539).        *)
(***************************************************************************)
THEOREM LinksAreSound == Spec => []EdgesStayInLayer
BY SoundLinks, HInvHolds, PTL

(***************************************************************************)
(* A descent starts at a node that is on every layer (hnsw.rs 684-687).    *)
(***************************************************************************)
THEOREM EntryIsOnTop == Spec => []EntryIsHighest
<1>1. HInv => EntryIsHighest
  BY DEF HInv, EntryInv
<1> QED
  BY <1>1, HInvHolds, PTL

(***************************************************************************)
(* One live node for each live id, the one the map says, and a count that  *)
(* is theirs, after any adds, removes and re-adds.                         *)
(***************************************************************************)
THEOREM OneLiveNodePerId == Spec => []LiveNodesAgree
<1>1. HInv => LiveNodesAgree
  BY DEF HInv
<1> QED
  BY <1>1, HInvHolds, PTL

-----------------------------------------------------------------------------
(* Search. *)

(***************************************************************************)
(* The start of the beam is a node, and so are its results: admitted ones. *)
(***************************************************************************)
LEMMA BeamFacts ==
  ASSUME HInv, ~ Empty, NEW q \in Vectors, NEW k \in Nat, NEW ef \in Nat \ {0}, NEW f
  PROVE  /\ Closed(nodes, 0, Positions)
         /\ Walk(q).at \in CandsOf(nodes, q, Positions)
         /\ Beam(q, Walk(q).at, k, ef, f)
              \in Beams(nodes, q, Positions, {p \in Positions : Admitted(p, f)},
                        Walk(q).at.key \in {p \in Positions : Admitted(p, f)})
<1> DEFINE n == Len(nodes)
           at == Walk(q).at
           admitted == {p \in Positions : Admitted(p, f)}
           width == IF ef < k THEN k ELSE ef
           end == IF max_layer < 1 THEN max_layer ELSE 1
<1>1. LinkedUpTo(nodes, n) /\ 0 \in Nat /\ 1 \in Nat
  BY DEF HInv
<1>2. OnLayer(nodes, 0, n) = Positions
  BY <1>1, NodeFacts DEF OnLayer, Positions
<1>3. Closed(nodes, 0, Positions)
  BY <1>1, <1>2, LayerClosed
<1>4. max_layer \in Nat /\ entry_point \in OnLayer(nodes, max_layer, n)
  BY HnswAssumption DEF HInv, EntryInv, EntryIsHighest, Empty, OnLayer, Positions
<1>5. Walk(q) \in Walks(nodes, q, OnLayer(nodes, end, n))
  BY <1>1, <1>4, DescendOnLayers DEF Walk
<1>6. end \in Nat /\ OnLayer(nodes, end, n) \subseteq OnLayer(nodes, 0, n)
  <2>1. end \in Nat /\ 0 <= end
    BY <1>4
  <2> HIDE DEF end
  <2> QED
    BY <1>1, <2>1, LayersNested
<1> HIDE DEF end
<1>7. at \in CandsOf(nodes, q, Positions)
  <2>1. at \in CandsOf(nodes, q, OnLayer(nodes, end, n))
    BY <1>5 DEF Walks
  <2> QED
    BY <1>2, <1>6, <2>1 DEF CandsOf
<1>8. width \in Nat \ {0}
  OBVIOUS
<1> HIDE DEF at, admitted, width
<1>9. BeamSearch(nodes, q, at, width, 0, admitted)
        \in Beams(nodes, q, Positions, admitted, at.key \in admitted)
  BY <1>1, <1>3, <1>7, <1>8, BeamSearchType
<1>10. Beam(q, at, k, ef, f) = BeamSearch(nodes, q, at, width, 0, admitted)
  BY DEF Beam, width, admitted
<1> QED
  BY <1>3, <1>7, <1>9, <1>10 DEF at, admitted

LEMMA SearchSound ==
  ASSUME HInv, NEW q \in Vectors, NEW k \in Nat, NEW ef \in Nat \ {0}, NEW f
  PROVE  LET hits == Search(q, k, ef, f) IN
         /\ Len(hits) <= k
         /\ \A i \in 1 .. Len(hits) :
              /\ Live(hits[i].id) /\ Admitted(id_to_pos[hits[i].id], f)
              /\ hits[i].distance = Dist(q, nodes[id_to_pos[hits[i].id]].vector)
              /\ \A j \in 1 .. i - 1 : /\ hits[j].distance <= hits[i].distance
                                       /\ hits[j].id # hits[i].id
<1> DEFINE hits == Search(q, k, ef, f)
           admitted == {p \in Positions : Admitted(p, f)}
           best == Beam(q, Walk(q).at, k, ef, f).best
           s == Sorted(best)
           n == Cardinality(best)
           m == IF k < n THEN k ELSE n
<1>1. CASE Empty
  <2>1. hits = << >> /\ Len(<< >>) = 0
    BY <1>1 DEF Search
  <2> QED
    BY <2>1
<1>2. CASE ~ Empty
  <2>1. Closed(nodes, 0, Positions) /\ best \in SUBSET CandsOf(nodes, q, Positions \cap admitted)
    <3> DEFINE beam == Beam(q, Walk(q).at, k, ef, f)
               some == Walk(q).at.key \in admitted
    <3>1. Closed(nodes, 0, Positions) /\ beam \in Beams(nodes, q, Positions, admitted, some)
      BY <1>2, BeamFacts
    <3> HIDE DEF beam, admitted, some
    <3>2. beam.best \in SUBSET CandsOf(nodes, q, Positions \cap admitted)
      BY <3>1 DEF Beams
    <3> QED
      BY <3>1, <3>2 DEF beam
  <2> HIDE DEF best
  <2>2. /\ IsFiniteSet(best) /\ best \subseteq ItemSet
        /\ Positions \in SUBSET Nat /\ \A p \in Positions : nodes[p].vector \in Vectors
    <3>1. best \in SUBSET CandsOf(nodes, q, Positions)
      BY <2>1 DEF CandsOf
    <3> QED
      BY <2>1, <3>1, CandsFinite
  <2>3. /\ n \in Nat /\ s \in Seq(best) /\ Len(s) = n
        /\ \A i \in 1 .. n : s[i] \in best
        /\ \A i, j \in 1 .. n : i < j <=> Less(s[i], s[j])
    BY <2>2, SortedFacts, Ranks
  <2> HIDE DEF s, n
  <2>4. hits = [i \in 1 .. m |-> Hit(s[i])] /\ m \in Nat /\ m <= k /\ m <= n
    BY <1>2, <2>3 DEF Search, Hits, s, best
  <2> HIDE DEF hits, m
  <2>5. Len(hits) = m /\ \A i \in 1 .. m : i \in 1 .. n /\ hits[i] = Hit(s[i])
    BY <2>3, <2>4
  <2>6. ASSUME NEW i \in 1 .. n
        PROVE  /\ s[i].key \in Positions /\ Admitted(s[i].key, f)
               /\ s[i] = Cand(nodes, q, s[i].key) /\ s[i].distance = Dist(q, nodes[s[i].key].vector)
               /\ s[i].distance \in Nat
    <3>1. s[i] \in CandsOf(nodes, q, Positions \cap admitted)
      BY <2>1, <2>3
    <3>2. PICK p \in Positions \cap admitted : s[i] = Cand(nodes, q, p)
      BY <3>1 DEF CandsOf
    <3>3. s[i].key = p /\ s[i].distance = Dist(q, nodes[p].vector)
      BY <3>2 DEF Cand, Item
    <3>4. Dist(q, nodes[p].vector) \in Nat
      BY <2>2, HnswAssumption
    <3> QED
      BY <3>2, <3>3, <3>4
  <2>7. ASSUME NEW i \in 1 .. n
        PROVE  /\ Live(Hit(s[i]).id) /\ id_to_pos[Hit(s[i]).id] = s[i].key
               /\ Hit(s[i]).distance = s[i].distance
    <3>1. s[i].key \in Positions /\ ~ nodes[s[i].key].deleted
      BY <2>6 DEF Admitted
    <3>2. /\ nodes[s[i].key].id \in DOMAIN id_to_pos
          /\ id_to_pos[nodes[s[i].key].id] = s[i].key
      BY <3>1 DEF HInv, LiveNodesAgree
    <3>3. Hit(s[i]).id = nodes[s[i].key].id /\ Hit(s[i]).distance = s[i].distance
      BY DEF Hit
    <3> QED
      BY <3>1, <3>2, <3>3 DEF Live
  <2>8. ASSUME NEW i \in 1 .. n, NEW j \in 1 .. i - 1
        PROVE  s[j].distance <= s[i].distance /\ Hit(s[j]).id # Hit(s[i]).id
    <3>1. j \in 1 .. n /\ Less(s[j], s[i])
      BY <2>3
    <3>2. s[j].distance <= s[i].distance
      BY <2>6, <3>1 DEF Less
    <3>3. ASSUME Hit(s[j]).id = Hit(s[i]).id
          PROVE  FALSE
      <4>1. s[j].key = s[i].key
        BY <2>7, <3>1, <3>3
      <4>2. s[j] = s[i]
        BY <2>6, <3>1, <4>1
      <4>3. s[i] \in ItemSet
        BY <2>2, <2>3
      <4> QED
        BY <3>1, <4>2, <4>3, LessTotal
    <3> QED
      BY <3>2, <3>3
  <2>9. ASSUME NEW i \in 1 .. m
        PROVE  /\ Live(hits[i].id) /\ Admitted(id_to_pos[hits[i].id], f)
               /\ hits[i].distance = Dist(q, nodes[id_to_pos[hits[i].id]].vector)
               /\ \A j \in 1 .. i - 1 : /\ hits[j].distance <= hits[i].distance
                                        /\ hits[j].id # hits[i].id
    <3>1. i \in 1 .. n /\ hits[i] = Hit(s[i])
      BY <2>5
    <3>2. /\ Live(hits[i].id) /\ Admitted(id_to_pos[hits[i].id], f)
          /\ hits[i].distance = Dist(q, nodes[id_to_pos[hits[i].id]].vector)
      BY <2>6, <2>7, <3>1
    <3>3. ASSUME NEW j \in 1 .. i - 1
          PROVE  hits[j].distance <= hits[i].distance /\ hits[j].id # hits[i].id
      <4>1. j \in 1 .. m /\ j \in 1 .. n /\ hits[j] = Hit(s[j])
        BY <2>4, <2>5, <3>1
      <4> QED
        BY <2>7, <2>8, <3>1, <4>1
    <3> QED
      BY <3>2, <3>3
  <2> QED
    BY <2>4, <2>5, <2>9 DEF hits
<1> QED
  BY <1>1, <1>2

(* And the hits. *)
LEMMA SoundSearches == HInv => SearchIsSound
<1> SUFFICES ASSUME HInv, NEW q \in Vectors, NEW k \in {1, 2, MaxNodes}, NEW f \in Filters
             PROVE  LET hits == Search(q, k, 1, f) IN
                    /\ Len(hits) <= k
                    /\ \A i \in 1 .. Len(hits) :
                         /\ Live(hits[i].id) /\ Admitted(id_to_pos[hits[i].id], f)
                         /\ hits[i].distance = Dist(q, nodes[id_to_pos[hits[i].id]].vector)
                         /\ \A j \in 1 .. i - 1 : /\ hits[j].distance <= hits[i].distance
                                                  /\ hits[j].id # hits[i].id
  BY DEF SearchIsSound
<1>1. k \in Nat /\ 1 \in Nat \ {0}
  BY HnswAssumption
<1> QED
  BY <1>1, SearchSound

(***************************************************************************)
(* index.rs:18-29, hnsw.rs 373-425: distinct live ids that match the       *)
(* filter, with their distances, in ascending order, k at the most - for   *)
(* every graph that adds and removes can build.                            *)
(***************************************************************************)
THEOREM SearchesAreSound == Spec => []SearchIsSound
BY SoundSearches, HInvHolds, PTL

-----------------------------------------------------------------------------
(* A beam that is not full has seen everything there is to see. *)

(* The list of p leads into V only. *)
LeadsInto(g, p, layer, V) ==
  \A j \in 1 .. Len(Nbrs(g, p, layer)) : Nbrs(g, p, layer)[j] \in V

(* What has been seen is in R, and what of it is admitted is a result. *)
Kept(g, q, admitted, b, R) ==
  /\ b.visited \subseteq R /\ b.frontier \subseteq CandsOf(g, q, b.visited)
  /\ b.best = CandsOf(g, q, b.visited \cap admitted)

(***************************************************************************)
(* Among the neighbors of from, the first i have been evaluated.  V had    *)
(* been seen before, and D been expanded, from included.                   *)
(***************************************************************************)
Expanding(g, q, layer, admitted, b, R, V, D, from, i) ==
  /\ Kept(g, q, admitted, b, R)
  /\ V \subseteq b.visited /\ \A p \in D : p \in b.visited /\ Cand(g, q, p) \notin b.frontier
  /\ \A p \in b.visited \ {from} :
       Cand(g, q, p) \in b.frontier \/ LeadsInto(g, p, layer, b.visited)
  /\ \A j \in 1 .. i : Nbrs(g, from, layer)[j] \in b.visited

Full(b, ef) == Cardinality(b.best) >= ef

LEMMA EvaluateExpanding ==
  ASSUME NEW g, NEW layer \in Nat, NEW K, Closed(g, layer, K), NEW q \in Vectors,
         NEW ef \in Nat \ {0}, NEW admitted, NEW some \in BOOLEAN,
         NEW b \in Beams(g, q, K, admitted, some), NEW from \in K,
         NEW R, NEW V, NEW D, NEW i \in 1 .. Len(Nbrs(g, from, layer)),
         Nbrs(g, from, layer)[i] \in R \cap K,
         ~ Full(b, ef) => Expanding(g, q, layer, admitted, b, R, V, D, from, i - 1)
  PROVE  LET c == Evaluate(g, q, ef, admitted, from, b, Nbrs(g, from, layer)[i]) IN
         /\ Full(b, ef) => Full(c, ef)
         /\ ~ Full(c, ef) => Expanding(g, q, layer, admitted, c, R, V, D, from, i)
<1> DEFINE nb == Nbrs(g, from, layer)[i]
           c == Cand(g, q, nb)
           kept == Room(b, ef) \/ CloserThanWorst(c, b.best)
           grown == b.best \cup {c}
           status == IF ~ kept THEN "rejected" ELSE IF nb \in admitted THEN "admitted" ELSE "routed"
           best == IF status # "admitted" THEN b.best
                   ELSE IF Cardinality(grown) > ef THEN grown \ {Greatest(grown)} ELSE grown
           next == Evaluate(g, q, ef, admitted, from, b, nb)
<1>1. /\ b.visited \in SUBSET K /\ b.frontier \in SUBSET CandsOf(g, q, K)
      /\ b.best \in SUBSET CandsOf(g, q, K)
  BY DEF Beams, CandsOf
<1>2. /\ K \in SUBSET Nat /\ \A p \in K : g[p].vector \in Vectors /\ Cand(g, q, p).key = p
      /\ c \in CandsOf(g, q, K) /\ nb \in R \cap K /\ i \in Nat
  <2>1. K \in SUBSET Nat /\ \A p \in K : g[p].vector \in Vectors
    BY CandsFinite
  <2>2. nb \in R \cap K /\ i \in Nat
    OBVIOUS
  <2>3. \A p \in K : Cand(g, q, p) \in CandsOf(g, q, K) /\ Cand(g, q, p).key = p
    BY <2>1, CandFacts
  <2>4. c \in CandsOf(g, q, K)
    BY <2>2 DEF CandsOf
  <2> HIDE DEF c, nb
  <2> QED
    BY <2>1, <2>2, <2>3, <2>4
<1>3. /\ IsFiniteSet(b.best) /\ IsFiniteSet(grown) /\ grown \subseteq ItemSet
      /\ Cardinality(b.best) \in Nat /\ Cardinality(grown) \in Nat
      /\ Cardinality(b.best) <= Cardinality(grown)
      /\ Cardinality(grown) <= Cardinality(b.best) + 1
  <2>1. grown \in SUBSET CandsOf(g, q, K)
    BY <1>1, <1>2
  <2>2. IsFiniteSet(b.best) /\ IsFiniteSet(grown) /\ grown \subseteq ItemSet
    BY <1>1, <2>1, CandsFinite
  <2> HIDE DEF c
  <2>3. Cardinality(grown) = IF c \in b.best THEN Cardinality(b.best) ELSE Cardinality(b.best) + 1
    BY <2>2, FS_AddElement
  <2>4. Cardinality(b.best) \in Nat
    BY <2>2, FS_CardinalityType
  <2> QED
    BY <2>2, <2>3, <2>4
<1>4. next = IF nb \in b.visited THEN b
             ELSE [visited |-> b.visited \cup {nb},
                   frontier |-> IF kept THEN b.frontier \cup {c} ELSE b.frontier,
                   best |-> best, edges |-> Append(b.edges, Edge(from, c, status))]
  BY DEF Evaluate
<1> HIDE DEF next, c, nb
(* A full beam stays full. *)
<1>5. ASSUME Full(b, ef)
      PROVE  Full(next, ef)
  <2>1. CASE nb \in b.visited
    BY <1>4, <1>5, <2>1
  <2>2. CASE nb \notin b.visited
    <3>1. next.best = best
      <4> HIDE DEF best, kept, status
      <4> QED
        BY <1>4, <2>2
    <3>2. CASE best = b.best
      BY <1>5, <3>1, <3>2 DEF Full
    <3>3. CASE best = grown
      <4> HIDE DEF grown, best
      <4> QED
        BY <1>3, <1>5, <3>1, <3>3 DEF Full
    <3>4. CASE Cardinality(grown) > ef /\ best = grown \ {Greatest(grown)}
      <4>1. Greatest(grown) \in grown
        <5>1. grown # {}
          OBVIOUS
        <5> HIDE DEF grown
        <5> QED
          BY <1>3, <5>1, TopFacts
      <4> HIDE DEF grown, best
      <4>2. Cardinality(grown \ {Greatest(grown)}) = Cardinality(grown) - 1
        BY <1>3, <4>1, FS_RemoveElement
      <4>3. Cardinality(next.best) >= ef
        BY <1>3, <3>1, <3>4, <4>2
      <4> QED
        BY <4>3 DEF Full
    <3>5. best \in {b.best, grown} \/ (Cardinality(grown) > ef /\ best = grown \ {Greatest(grown)})
      OBVIOUS
    <3> HIDE DEF best, grown
    <3> QED
      BY <3>2, <3>3, <3>4, <3>5
  <2> QED
    BY <2>1, <2>2
<1>6. ASSUME ~ Full(b, ef)
      PROVE  Expanding(g, q, layer, admitted, next, R, V, D, from, i)
  <2>1. /\ Kept(g, q, admitted, b, R)
        /\ V \subseteq b.visited /\ \A p \in D : p \in b.visited /\ Cand(g, q, p) \notin b.frontier
        /\ \A p \in b.visited \ {from} :
             Cand(g, q, p) \in b.frontier \/ LeadsInto(g, p, layer, b.visited)
        /\ \A j \in 1 .. i - 1 : Nbrs(g, from, layer)[j] \in b.visited
    BY <1>6 DEF Expanding
  <2>2. nb = Nbrs(g, from, layer)[i] /\ c = Cand(g, q, nb)
    BY DEF nb, c
  <2>3. CASE nb \in b.visited
    <3>1. \A j \in 1 .. i : Nbrs(g, from, layer)[j] \in b.visited
      BY <1>2, <2>1, <2>2, <2>3
    <3>2. Expanding(g, q, layer, admitted, b, R, V, D, from, i)
      BY <2>1, <3>1 DEF Expanding
    <3> QED
      BY <1>4, <2>3, <3>2
  <2>4. CASE nb \notin b.visited
    <3>1. kept
      BY <1>3, <1>6 DEF Room, Full
    <3>2. best = IF nb \in admitted THEN grown ELSE b.best
      <4>1. ~ Cardinality(grown) > ef
        <5> HIDE DEF grown
        <5> QED
          BY <1>3, <1>6 DEF Full
      <4> QED
        BY <3>1, <4>1
    <3> HIDE DEF best, kept, status
    <3>3. /\ next.visited = b.visited \cup {nb} /\ next.frontier = b.frontier \cup {c}
          /\ next.best = IF nb \in admitted THEN b.best \cup {c} ELSE b.best
      BY <1>4, <2>4, <3>1, <3>2
    <3>4. Kept(g, q, admitted, next, R)
      <4>1. next.visited \subseteq R
        BY <1>2, <2>1, <3>3 DEF Kept
      <4>2. next.frontier \subseteq CandsOf(g, q, next.visited)
        BY <2>1, <2>2, <3>3 DEF Kept, CandsOf
      <4>3. next.best = CandsOf(g, q, next.visited \cap admitted)
        <5>1. b.best = CandsOf(g, q, b.visited \cap admitted)
          BY <2>1 DEF Kept
        <5>2. CASE nb \in admitted
          <6>1. next.visited \cap admitted = (b.visited \cap admitted) \cup {nb}
            BY <3>3, <5>2
          <6>2. next.best = b.best \cup {c}
            BY <3>3, <5>2
          <6> QED
            BY <2>2, <5>1, <6>1, <6>2 DEF CandsOf
        <5>3. CASE nb \notin admitted
          <6>1. next.visited \cap admitted = b.visited \cap admitted
            BY <3>3, <5>3
          <6> QED
            BY <3>3, <5>1, <5>3, <6>1
        <5> QED
          BY <5>2, <5>3
      <4> QED
        BY <4>1, <4>2, <4>3 DEF Kept
    <3>5. ASSUME NEW p \in D
          PROVE  p \in next.visited /\ Cand(g, q, p) \notin next.frontier
      <4>1. p \in b.visited /\ Cand(g, q, p) \notin b.frontier
        BY <2>1
      <4>2. p \in K /\ p # nb
        BY <1>1, <2>4, <4>1
      <4>3. Cand(g, q, p) # c
        BY <1>2, <2>2, <4>2
      <4> QED
        BY <3>3, <4>1, <4>3
    <3>6. ASSUME NEW p \in next.visited \ {from}
          PROVE  Cand(g, q, p) \in next.frontier \/ LeadsInto(g, p, layer, next.visited)
      <4>1. CASE p = nb
        BY <2>2, <3>3, <4>1
      <4>2. CASE p \in b.visited \ {from}
        <5>1. CASE Cand(g, q, p) \in b.frontier
          BY <3>3, <5>1
        <5>2. CASE LeadsInto(g, p, layer, b.visited)
          BY <3>3, <5>2 DEF LeadsInto
        <5> QED
          BY <2>1, <4>2, <5>1, <5>2
      <4> QED
        BY <3>3, <4>1, <4>2
    <3>7. V \subseteq next.visited
      BY <2>1, <3>3
    <3>8. \A j \in 1 .. i : Nbrs(g, from, layer)[j] \in next.visited
      BY <1>2, <2>1, <2>2, <3>3
    <3> HIDE DEF grown
    <3> QED
      BY <3>4, <3>5, <3>6, <3>7, <3>8 DEF Expanding
  <2> QED
    BY <2>3, <2>4
<1> QED
  BY <1>5, <1>6 DEF next, nb

(***************************************************************************)
(* A beam after i turns, unless it is full: what has been seen is in R,    *)
(* and the lists of what has been expanded do not lead out of it.          *)
(***************************************************************************)
Explored(g, q, layer, admitted, start, b, R, i) ==
  /\ Kept(g, q, admitted, b, R) /\ start \in b.visited
  /\ \A p \in b.visited : Cand(g, q, p) \in b.frontier \/ LeadsInto(g, p, layer, b.visited)
  /\ \/ b.frontier = {}
     \/ \E D \in SUBSET b.visited : /\ Cardinality(D) >= i
                                    /\ \A p \in D : Cand(g, q, p) \notin b.frontier

LEMMA EvaluateAllFull ==
  ASSUME NEW g, NEW layer \in Nat, NEW K, Closed(g, layer, K), NEW q \in Vectors,
         NEW ef \in Nat \ {0}, NEW admitted, NEW some \in BOOLEAN,
         NEW from \in K, NEW popped \in Beams(g, q, K, admitted, some), Full(popped, ef)
  PROVE  Full(EvaluateAll(g, q, ef, admitted, from, popped, Nbrs(g, from, layer)), ef)
<1> DEFINE B == Beams(g, q, K, admitted, some)
           seq == Nbrs(g, from, layer)
           F == {c \in B : Full(c, ef)}
           T == [i \in 0 .. Len(seq) |-> F]
           last == EvaluateAll(g, q, ef, admitted, from, popped, seq)
<1>1. seq \in Seq(K) /\ Len(seq) \in Nat /\ \A i \in 1 .. Len(seq) : seq[i] \in K \cap K
  <2>1. seq \in Seq(K)
    BY DEF Closed
  <2> HIDE DEF seq
  <2> QED
    BY <2>1
<1>2. popped \in T[0]
  BY <1>1
<1>3. ASSUME NEW i \in 1 .. Len(seq), NEW c \in B \cap T[i - 1]
      PROVE  Evaluate(g, q, ef, admitted, from, c, seq[i]) \in T[i]
  <2>1. c \in F /\ c \in B /\ Full(c, ef)
    BY <1>1, <1>3
  <2>2. ~ Full(c, ef) => Expanding(g, q, layer, admitted, c, K, {}, {}, from, i - 1)
    BY <2>1
  <2>3. Full(Evaluate(g, q, ef, admitted, from, c, seq[i]), ef)
    BY <1>1, <2>1, <2>2, EvaluateExpanding
  <2>4. Evaluate(g, q, ef, admitted, from, c, seq[i]) \in B
    BY <1>1, <2>1, EvaluateType
  <2> QED
    BY <1>1, <2>3, <2>4
<1> HIDE DEF T
<1>4. last \in B \cap T[Len(seq)]
  <2> HIDE DEF seq
  <2> QED
    BY <1>1, <1>2, <1>3, EvaluateAllKeeps
<1>5. last \in F
  <2> HIDE DEF last, F
  <2> QED
    BY <1>1, <1>4 DEF T
<1> QED
  BY <1>5

LEMMA EvaluateAllExpanding ==
  ASSUME NEW g, NEW layer \in Nat, NEW K, Closed(g, layer, K), NEW q \in Vectors,
         NEW ef \in Nat \ {0}, NEW admitted, NEW some \in BOOLEAN, NEW from \in K,
         NEW popped \in Beams(g, q, K, admitted, some), NEW R, NEW V, NEW D,
         LeadsInto(g, from, layer, R),
         Expanding(g, q, layer, admitted, popped, R, V, D, from, 0)
  PROVE  LET last == EvaluateAll(g, q, ef, admitted, from, popped, Nbrs(g, from, layer)) IN
         ~ Full(last, ef) =>
           Expanding(g, q, layer, admitted, last, R, V, D, from, Len(Nbrs(g, from, layer)))
<1> DEFINE B == Beams(g, q, K, admitted, some)
           seq == Nbrs(g, from, layer)
           F(i) == {c \in B : ~ Full(c, ef) =>
                                Expanding(g, q, layer, admitted, c, R, V, D, from, i)}
           T == [i \in 0 .. Len(seq) |-> F(i)]
           last == EvaluateAll(g, q, ef, admitted, from, popped, seq)
<1>1. seq \in Seq(K) /\ Len(seq) \in Nat /\ \A i \in 1 .. Len(seq) : seq[i] \in R \cap K
  <2>1. seq \in Seq(K) /\ \A i \in 1 .. Len(seq) : seq[i] \in R
    BY DEF Closed, LeadsInto
  <2> HIDE DEF seq
  <2> QED
    BY <2>1
<1>2. popped \in T[0]
  BY <1>1
<1>3. ASSUME NEW i \in 1 .. Len(seq), NEW c \in B \cap T[i - 1]
      PROVE  Evaluate(g, q, ef, admitted, from, c, seq[i]) \in T[i]
  <2> DEFINE next == Evaluate(g, q, ef, admitted, from, c, seq[i])
  <2>1. c \in F(i - 1) /\ c \in B
    BY <1>1, <1>3
  <2>2. ~ Full(c, ef) => Expanding(g, q, layer, admitted, c, R, V, D, from, i - 1)
    BY <2>1
  <2>3. ~ Full(next, ef) => Expanding(g, q, layer, admitted, next, R, V, D, from, i)
    BY <1>1, <2>1, <2>2, EvaluateExpanding
  <2>4. next \in B
    BY <1>1, <2>1, EvaluateType
  <2> HIDE DEF next
  <2> QED
    BY <1>1, <2>3, <2>4
<1> HIDE DEF T
<1>4. last \in B \cap T[Len(seq)]
  <2> HIDE DEF seq
  <2> QED
    BY <1>1, <1>2, <1>3, EvaluateAllKeeps
<1>5. last \in F(Len(seq))
  <2> HIDE DEF last, F
  <2> QED
    BY <1>1, <1>4 DEF T
<1> QED
  BY <1>5

(* The frontier node that is expanded, and the beam without it. *)
Closest(b) == Least(b.frontier)

Popped(b) == [b EXCEPT !.frontier = @ \ {Closest(b)}]

Pops(g, q, K, b) ==
  /\ Closest(b) \in b.frontier /\ Closest(b).key \in K
  /\ Closest(b) = Cand(g, q, Closest(b).key)
  /\ Popped(b).visited = b.visited /\ Popped(b).best = b.best
  /\ Popped(b).frontier = b.frontier \ {Closest(b)} /\ Popped(b).edges = b.edges

LEMMA ClosestFacts ==
  ASSUME NEW g, NEW layer \in Nat, NEW K, Closed(g, layer, K), NEW q \in Vectors,
         NEW admitted, NEW some \in BOOLEAN,
         NEW b \in Beams(g, q, K, admitted, some), b.frontier # {}
  PROVE  Pops(g, q, K, b) /\ Popped(b) \in Beams(g, q, K, admitted, some)
<1>1. /\ b.frontier \in SUBSET CandsOf(g, q, K)
      /\ IsFiniteSet(b.frontier) /\ b.frontier \subseteq ItemSet
      /\ K \in SUBSET Nat /\ \A p \in K : g[p].vector \in Vectors
  <2>1. b.frontier \in SUBSET CandsOf(g, q, K)
    BY DEF Beams
  <2> QED
    BY <2>1, CandsFinite
<1>2. Closest(b) \in b.frontier
  BY <1>1, TopFacts DEF Closest
<1>3. Closest(b).key \in K /\ Closest(b) = Cand(g, q, Closest(b).key)
  BY <1>1, <1>2, CandFacts
<1>4. Popped(b) \in Beams(g, q, K, admitted, some)
  BY DEF Popped, Beams
<1>5. /\ Popped(b).visited = b.visited /\ Popped(b).best = b.best
      /\ Popped(b).frontier = b.frontier \ {Closest(b)} /\ Popped(b).edges = b.edges
  BY DEF Popped, Beams
<1>6. Pops(g, q, K, b)
  BY <1>2, <1>3, <1>5 DEF Pops
<1> QED
  BY <1>4, <1>6

LEMMA ExpandKeepsFull ==
  ASSUME NEW g, NEW layer \in Nat, NEW K, Closed(g, layer, K), NEW q \in Vectors,
         NEW ef \in Nat \ {0}, NEW admitted, NEW some \in BOOLEAN,
         NEW b \in Beams(g, q, K, admitted, some), Full(b, ef)
  PROVE  Full(Expand(g, q, ef, layer, admitted, b), ef)
<1> DEFINE from == Closest(b).key
           next == Expand(g, q, ef, layer, admitted, b)
           stop == ~ Room(b, ef) /\ FartherThanWorst(Closest(b), b.best)
           last == EvaluateAll(g, q, ef, admitted, from, Popped(b), Nbrs(g, from, layer))
<1>1. CASE b.frontier = {}
  BY <1>1 DEF Expand
<1>2. CASE b.frontier # {}
  <2>1. /\ from \in K /\ Popped(b) \in Beams(g, q, K, admitted, some)
        /\ Popped(b).best = b.best
    <3>1. Pops(g, q, K, b) /\ Popped(b) \in Beams(g, q, K, admitted, some)
      BY <1>2, ClosestFacts
    <3> QED
      BY <3>1 DEF Pops
  <2>0. next = IF stop THEN [b EXCEPT !.frontier = {}] ELSE last
    BY <1>2 DEF Expand, EvaluateAll, Closest, Popped
  <2>2. CASE stop
    <3>1. next.best = b.best
      <4>1. next = [b EXCEPT !.frontier = {}]
        <5> HIDE DEF next, stop
        <5> QED
          BY <2>0, <2>2
      <4> HIDE DEF next
      <4> QED
        BY <4>1 DEF Beams
    <3>2. Cardinality(next.best) >= ef
      <4> HIDE DEF next
      <4> QED
        BY <3>1 DEF Full
    <3> QED
      BY <3>2 DEF Full
  <2>3. CASE ~ stop
    <3>1. Full(Popped(b), ef)
      BY <2>1 DEF Full
    <3>2. Full(last, ef)
      <4> HIDE DEF from
      <4> QED
        BY <2>1, <3>1, EvaluateAllFull
    <3>3. next = last
      <4> HIDE DEF next, last, stop
      <4> QED
        BY <2>0, <2>3
    <3> QED
      BY <3>2, <3>3
  <2> QED
    BY <2>2, <2>3
<1> QED
  BY <1>1, <1>2

LEMMA ExpandExplored ==
  ASSUME NEW g, NEW layer \in Nat, NEW K, Closed(g, layer, K), NEW q \in Vectors,
         NEW ef \in Nat \ {0}, NEW admitted, NEW some \in BOOLEAN, NEW start,
         NEW b \in Beams(g, q, K, admitted, some), NEW R \in SUBSET K, NEW S,
         R \subseteq S, \A p \in R : LeadsInto(g, p, layer, S), NEW i \in Nat,
         ~ Full(b, ef) => Explored(g, q, layer, admitted, start, b, R, i)
  PROVE  LET next == Expand(g, q, ef, layer, admitted, b) IN
         ~ Full(next, ef) => Explored(g, q, layer, admitted, start, next, S, i + 1)
<1> DEFINE current == Closest(b)
           from == current.key
           popped == Popped(b)
           seq == Nbrs(g, from, layer)
           stop == ~ Room(b, ef) /\ FartherThanWorst(current, b.best)
           last == EvaluateAll(g, q, ef, admitted, from, popped, seq)
           next == Expand(g, q, ef, layer, admitted, b)
<1>1. /\ b.visited \in SUBSET K /\ K \in SUBSET Nat /\ \A p \in K : g[p].vector \in Vectors
  BY CandsFinite DEF Beams
<1>0. \A p \in K : Cand(g, q, p).key = p
  BY <1>1, CandFacts
<1>2. next = IF b.frontier = {} THEN b
             ELSE IF stop THEN [b EXCEPT !.frontier = {}] ELSE last
  BY DEF Expand, EvaluateAll, Closest, Popped
<1>3. ASSUME b.frontier # {}
      PROVE  /\ current \in b.frontier /\ from \in K /\ current = Cand(g, q, from)
             /\ popped \in Beams(g, q, K, admitted, some)
             /\ popped.visited = b.visited /\ popped.best = b.best
             /\ popped.frontier = b.frontier \ {current}
  <2>1. Pops(g, q, K, b) /\ popped \in Beams(g, q, K, admitted, some)
    BY <1>3, ClosestFacts
  <2> QED
    BY <2>1 DEF Pops
<1> HIDE DEF current, popped
<1>4. ASSUME Full(b, ef)
      PROVE  Full(next, ef)
  BY <1>4, ExpandKeepsFull
<1>5. ASSUME ~ Full(b, ef), ~ Full(next, ef)
      PROVE  Explored(g, q, layer, admitted, start, next, S, i + 1)
  <2>1. /\ Kept(g, q, admitted, b, R) /\ start \in b.visited
        /\ \A p \in b.visited : Cand(g, q, p) \in b.frontier \/ LeadsInto(g, p, layer, b.visited)
        /\ \/ b.frontier = {}
           \/ \E D \in SUBSET b.visited : /\ Cardinality(D) >= i
                                          /\ \A p \in D : Cand(g, q, p) \notin b.frontier
    BY <1>5 DEF Explored
  <2>2. Kept(g, q, admitted, b, S)
    BY <2>1 DEF Kept
  <2>3. CASE b.frontier = {}
    <3>1. next = b
      BY <1>2, <2>3
    <3> HIDE DEF next
    <3> QED
      BY <2>1, <2>2, <2>3, <3>1 DEF Explored
  <2>4. CASE b.frontier # {}
    <3>1. next = last
      <4>1. ~ stop
        <5>1. Cardinality(b.best) \in Nat
          <6>1. b.best \in SUBSET CandsOf(g, q, K)
            BY DEF Beams, CandsOf
          <6> QED
            BY <6>1, CandsFinite, FS_CardinalityType
        <5> QED
          BY <1>5, <5>1 DEF Room, Full
      <4> HIDE DEF next, last, stop
      <4> QED
        BY <1>2, <2>4, <4>1
    <3>2. PICK D \in SUBSET b.visited : /\ Cardinality(D) >= i
                                        /\ \A p \in D : Cand(g, q, p) \notin b.frontier
      BY <2>1, <2>4
    <3>3. /\ current \in b.frontier /\ from \in K /\ current = Cand(g, q, from)
          /\ popped \in Beams(g, q, K, admitted, some)
          /\ popped.visited = b.visited /\ popped.best = b.best
          /\ popped.frontier = b.frontier \ {current}
      BY <1>3, <2>4
    <3> DEFINE E == D \cup {from}
    <3>4. from \in b.visited /\ from \notin D
      <4>1. current \in CandsOf(g, q, b.visited)
        BY <2>1, <3>3 DEF Kept
      <4>2. from \in b.visited
        <5>1. b.visited \in SUBSET Nat /\ \A p \in b.visited : g[p].vector \in Vectors
          BY <1>1
        <5> HIDE DEF from
        <5>2. \A c \in CandsOf(g, q, b.visited) : c.key \in b.visited
          BY <5>1, CandFacts
        <5> QED
          BY <4>1, <5>2 DEF from
      <4> HIDE DEF from
      <4> QED
        BY <3>2, <3>3, <4>2
    <3>5. E \in SUBSET b.visited /\ Cardinality(E) >= i + 1
      <4>1. IsFiniteSet(D)
        <5>1. D \in SUBSET (1 .. Len(g)) /\ Len(g) \in Nat
          BY <1>1, <3>2 DEF Closed
        <5>2. IsFiniteSet(1 .. Len(g))
          BY <5>1, FS_Interval
        <5> QED
          BY <5>1, <5>2, FS_Subset
      <4> HIDE DEF from
      <4>2. Cardinality(E) = Cardinality(D) + 1 /\ Cardinality(D) \in Nat
        BY <3>4, <4>1, FS_AddElement, FS_CardinalityType
      <4> QED
        BY <3>2, <3>4, <4>2
    <3> HIDE DEF from
    <3>6. Expanding(g, q, layer, admitted, popped, S, b.visited, E, from, 0)
      <4>1. Kept(g, q, admitted, popped, S)
        BY <2>2, <3>3 DEF Kept
      <4>2. ASSUME NEW p \in E
            PROVE  p \in popped.visited /\ Cand(g, q, p) \notin popped.frontier
        <5>1. CASE p \in D
          BY <3>2, <3>3, <5>1
        <5>2. CASE p = from
          BY <3>3, <3>4, <5>2
        <5> QED
          BY <5>1, <5>2
      <4>3. ASSUME NEW p \in popped.visited \ {from}
            PROVE  Cand(g, q, p) \in popped.frontier \/ LeadsInto(g, p, layer, popped.visited)
        <5>1. p \in b.visited /\ p \in K /\ p # from
          BY <1>1, <3>3
        <5>2. Cand(g, q, p).key = p /\ Cand(g, q, from).key = from
          BY <1>0, <3>3, <5>1
        <5>3. Cand(g, q, p) # current
          BY <3>3, <5>1, <5>2
        <5> QED
          BY <2>1, <3>3, <5>1, <5>3
      <4>4. b.visited \subseteq popped.visited
        BY <3>3
      <4>5. \A j \in 1 .. 0 : Nbrs(g, from, layer)[j] \in popped.visited
        OBVIOUS
      <4> HIDE DEF E
      <4> QED
        BY <4>1, <4>2, <4>3, <4>4, <4>5 DEF Expanding
    <3>7. LeadsInto(g, from, layer, S)
      BY <2>1, <3>4 DEF Kept
    <3>8. Expanding(g, q, layer, admitted, last, S, b.visited, E, from, Len(seq))
      <4>1. ~ Full(last, ef)
        BY <1>5, <3>1
      <4> HIDE DEF E
      <4> QED
        BY <3>3, <3>6, <3>7, <4>1, EvaluateAllExpanding
    <3> HIDE DEF last
    <3>9. /\ Kept(g, q, admitted, last, S) /\ start \in last.visited
          /\ E \in SUBSET last.visited /\ \A p \in E : Cand(g, q, p) \notin last.frontier
      <4> HIDE DEF E
      <4> QED
        BY <2>1, <3>5, <3>8 DEF Expanding
    <3>10. ASSUME NEW p \in last.visited
           PROVE  Cand(g, q, p) \in last.frontier \/ LeadsInto(g, p, layer, last.visited)
      <4>1. CASE p = from
        BY <3>8, <4>1 DEF Expanding, LeadsInto
      <4>2. CASE p # from
        BY <3>8, <4>2 DEF Expanding
      <4> QED
        BY <4>1, <4>2
    <3>11. \E X \in SUBSET last.visited : /\ Cardinality(X) >= i + 1
                                          /\ \A p \in X : Cand(g, q, p) \notin last.frontier
      BY <3>5, <3>9
    <3>12. Explored(g, q, layer, admitted, start, last, S, i + 1)
      BY <3>9, <3>10, <3>11 DEF Explored
    <3> QED
      BY <3>1, <3>12
  <2> QED
    BY <2>3, <2>4
<1> QED
  BY <1>4, <1>5

(***************************************************************************)
(* R[i] is what i steps along the lists of layer 0 lead to.                *)
(***************************************************************************)
ReachedBy(R, p) ==
  /\ R = [i \in 0 .. Len(nodes) |-> R[i]]
  /\ R[0] = {p} /\ R[Len(nodes)] = ReachableFrom(p)
  /\ \A i \in 0 .. Len(nodes) : R[i] \in SUBSET Positions
  /\ \A i \in 1 .. Len(nodes) :
       R[i] = R[i - 1] \cup UNION {{Nbrs(nodes, x, 0)[j] : j \in 1 .. Len(Nbrs(nodes, x, 0))} :
                                    x \in R[i - 1]}

LEMMA ReachedByLists ==
  ASSUME Closed(nodes, 0, Positions), NEW p \in Positions
  PROVE  \E R : ReachedBy(R, p)
<1> DEFINE n == Len(nodes)
           Step(S) == S \cup UNION {{Nbrs(nodes, x, 0)[j] : j \in 1 .. Len(Nbrs(nodes, x, 0))} :
                                     x \in S}
           P == SUBSET Positions
           T == [i \in 0 .. n |-> P]
           step == [i \in 1 .. n |-> [S \in P |-> Step(S)]]
<1>1. n \in Nat
  BY DEF Closed
<1>2. \A S \in P : Step(S) \in P
  <2> SUFFICES ASSUME NEW S \in P, NEW x \in S, NEW j \in 1 .. Len(Nbrs(nodes, x, 0))
               PROVE  Nbrs(nodes, x, 0)[j] \in Positions
    OBVIOUS
  <2>1. Nbrs(nodes, x, 0) \in Seq(Positions)
    BY DEF Closed
  <2> DEFINE list == Nbrs(nodes, x, 0)
  <2> HIDE DEF list
  <2>2. list \in Seq(Positions) /\ j \in 1 .. Len(list)
    BY <2>1 DEF list
  <2>3. list[j] \in Positions
    BY <2>2
  <2> QED
    BY <2>3 DEF list
<1>3. {p} \in P
  OBVIOUS
<1> HIDE DEF P
<1>4. \A i \in 1 .. n : T[i - 1] = P /\ T[i] = P
  BY <1>1
<1>5. \A i \in 1 .. n : \A S \in P : step[i][S] = Step(S)
  OBVIOUS
<1>6. Turns(n, T, step)
  <2>1. \A i \in 1 .. n : step[i] \in [P -> P]
    <3> HIDE DEF Step
    <3> QED
      BY <1>2
  <2> HIDE DEF T, step
  <2> QED
    BY <1>4, <2>1 DEF Turns
<1>7. {p} \in T[0]
  BY <1>1, <1>3
<1> HIDE DEF step, T, n
<1>8. PICK f : Run(f, n, T, {p}, step)
  BY <1>1, <1>6, <1>7, LoopSolution
<1>9. \A i \in 1 .. n : f[i - 1] \in P /\ f[i] = Step(f[i - 1])
  <2> HIDE DEF Step
  <2> QED
    BY <1>4, <1>5, <1>8 DEF Run
<1> HIDE DEF Step
<1>10. f = [i \in 0 .. n |-> IF i = 0 THEN {p} ELSE Step(f[i - 1])]
  <2> DEFINE next == [i \in 0 .. n |-> IF i = 0 THEN {p} ELSE Step(f[i - 1])]
  <2>1. f = [i \in 0 .. n |-> f[i]] /\ f[0] = {p}
    BY <1>8 DEF Run
  <2>2. ASSUME NEW i \in 0 .. n
        PROVE  f[i] = next[i]
    <3>1. CASE i = 0
      BY <2>1, <3>1
    <3>2. CASE i \in 1 .. n
      BY <1>9, <3>2
    <3> QED
      BY <1>1, <3>1, <3>2
  <2>3. next = [i \in 0 .. n |-> next[i]]
    OBVIOUS
  <2> HIDE DEF next
  <2>4. f = next
    BY <2>1, <2>2, <2>3
  <2> QED
    BY <2>4 DEF next
<1>11. PICK R : /\ R = [i \in 0 .. n |-> IF i = 0 THEN {p} ELSE Step(R[i - 1])]
                /\ ReachableFrom(p) = R[n]
  <2>1. f = [i \in 0 .. Len(nodes) |->
               IF i = 0 THEN {p}
               ELSE f[i - 1] \cup UNION {{Nbrs(nodes, x, 0)[j] : j \in 1 .. Len(Nbrs(nodes, x, 0))} :
                                           x \in f[i - 1]}]
    BY <1>10 DEF Step, n
  <2>2. \E R : /\ R = [i \in 0 .. Len(nodes) |->
                      IF i = 0 THEN {p}
                      ELSE R[i - 1] \cup
                             UNION {{Nbrs(nodes, x, 0)[j] : j \in 1 .. Len(Nbrs(nodes, x, 0))} :
                                     x \in R[i - 1]}]
               /\ ReachableFrom(p) = R[Len(nodes)]
    BY <2>1 DEF ReachableFrom
  <2> QED
    BY <2>2 DEF Step, n
<1>12. R[0] = {p} /\ \A i \in 1 .. n : R[i] = Step(R[i - 1])
  <2>1. 0 \in 0 .. n /\ \A i \in 1 .. n : i \in 0 .. n /\ i # 0
    BY <1>1
  <2>2. \A i \in 0 .. n : R[i] = IF i = 0 THEN {p} ELSE Step(R[i - 1])
    BY <1>11
  <2> QED
    BY <2>1, <2>2
<1>13. R[0] \in T[0]
  BY <1>7, <1>12
<1>14. \A i \in 1 .. n : R[i - 1] \in T[i - 1] => R[i] \in T[i]
  BY <1>2, <1>4, <1>12
<1>15. \A i \in 0 .. n : R[i] \in T[i]
  BY <1>1, <1>13, <1>14, ChainInduction
<1>16. \A i \in 0 .. n : R[i] \in SUBSET Positions
  BY <1>1, <1>15 DEF T, P
<1>17. R = [i \in 0 .. n |-> R[i]]
  <2> DEFINE next == [i \in 0 .. n |-> IF i = 0 THEN {p} ELSE Step(R[i - 1])]
  <2>1. next = [i \in 0 .. n |-> next[i]]
    OBVIOUS
  <2>2. R = next
    BY <1>11
  <2> HIDE DEF next
  <2> QED
    BY <2>1, <2>2
<1>18. ReachedBy(R, p)
  BY <1>11, <1>12, <1>16, <1>17 DEF ReachedBy, n, Step
<1> QED
  BY <1>18

(* V has p in it, and no list of layer 0 leads out of it. *)
Component(p, V) == p \in V /\ V \in SUBSET Positions /\ \A x \in V : LeadsInto(nodes, x, 0, V)

(***************************************************************************)
(* In the end, what has been seen is what the lists lead to from the       *)
(* start, no more and no less.                                             *)
(***************************************************************************)
LEMMA BeamSeesAll ==
  ASSUME Closed(nodes, 0, Positions), NEW q \in Vectors, NEW ef \in Nat \ {0}, NEW admitted,
         NEW start \in CandsOf(nodes, q, Positions),
         ~ Full(BeamSearch(nodes, q, start, ef, 0, admitted), ef)
  PROVE  /\ BeamSearch(nodes, q, start, ef, 0, admitted).best
              = CandsOf(nodes, q, ReachableFrom(start.key) \cap admitted)
         /\ Component(start.key, ReachableFrom(start.key))
<1> DEFINE n == Len(nodes)
           s == start.key
           some == s \in admitted
           B == Beams(nodes, q, Positions, admitted, some)
           last == BeamSearch(nodes, q, start, ef, 0, admitted)
<1>1. /\ n \in Nat /\ Positions \in SUBSET Nat /\ Positions = 1 .. n
      /\ \A p \in Positions : nodes[p].vector \in Vectors
  BY DEF Closed, Positions
<1>2. s \in Positions /\ start = Cand(nodes, q, s)
  BY <1>1, CandFacts
<1>3. PICK R : ReachedBy(R, s)
  BY <1>2, ReachedByLists
<1>4. /\ R[0] = {s} /\ R[n] = ReachableFrom(s)
      /\ \A i \in 0 .. n : R[i] \in SUBSET Positions
      /\ \A i \in 1 .. n :
           R[i] = R[i - 1] \cup UNION {{Nbrs(nodes, x, 0)[j] : j \in 1 .. Len(Nbrs(nodes, x, 0))} :
                                        x \in R[i - 1]}
  BY <1>3 DEF ReachedBy
<1>5. ASSUME NEW i \in 1 .. n
      PROVE  R[i - 1] \subseteq R[i] /\ \A p \in R[i - 1] : LeadsInto(nodes, p, 0, R[i])
  BY <1>4, <1>5 DEF LeadsInto
<1>0. some \in BOOLEAN /\ 0 \in Nat
  OBVIOUS
<1> HIDE DEF n, s, some, B
<1> DEFINE Spread(b, i) == ~ Full(b, ef) => Explored(nodes, q, 0, admitted, s, b, R[i], i)
           F(i) == {b \in B : Spread(b, i)}
           C == [i \in 0 .. n + 1 |-> IF i = n + 1 THEN F(n) ELSE F(i)]
<1>6. StartBeam(start, admitted) \in F(0)
  <2> DEFINE b == StartBeam(start, admitted)
  <2>1. /\ b.visited = {s} /\ b.frontier = {start}
        /\ b.best = IF s \in admitted THEN {start} ELSE {}
    BY DEF StartBeam, s
  <2>2. b \in B
    BY <1>0, StartBeamType DEF s, some, B
  <2> HIDE DEF b
  <2>3. Kept(nodes, q, admitted, b, R[0])
    BY <1>2, <1>4, <2>1 DEF Kept, CandsOf
  <2>4. \A p \in b.visited : Cand(nodes, q, p) \in b.frontier
    BY <1>2, <2>1
  <2>5. \E D \in SUBSET b.visited : /\ Cardinality(D) >= 0
                                    /\ \A p \in D : Cand(nodes, q, p) \notin b.frontier
    BY FS_EmptySet
  <2>6. s \in b.visited
    BY <2>1
  <2>7. Explored(nodes, q, 0, admitted, s, b, R[0], 0)
    BY <2>3, <2>4, <2>5, <2>6 DEF Explored
  <2> QED
    BY <2>2, <2>7 DEF b
<1>7. ASSUME NEW i \in 1 .. n, NEW b \in F(i - 1)
      PROVE  Expand(nodes, q, ef, 0, admitted, b) \in F(i)
  <2> DEFINE next == Expand(nodes, q, ef, 0, admitted, b)
  <2>1. b \in B /\ (~ Full(b, ef) => Explored(nodes, q, 0, admitted, s, b, R[i - 1], i - 1))
    OBVIOUS
  <2>2. /\ R[i - 1] \in SUBSET Positions /\ R[i - 1] \subseteq R[i]
        /\ \A p \in R[i - 1] : LeadsInto(nodes, p, 0, R[i])
    BY <1>1, <1>4, <1>5
  <2>3. i - 1 \in Nat /\ (i - 1) + 1 = i
    BY <1>1
  <2>5. next \in B
    BY <1>0, <2>1, ExpandType DEF B
  <2>6. ~ Full(next, ef) => Explored(nodes, q, 0, admitted, s, next, R[i], (i - 1) + 1)
    <3> DEFINE j == i - 1
    <3>1. /\ j \in Nat /\ R[j] \in SUBSET Positions /\ R[j] \subseteq R[i]
          /\ \A p \in R[j] : LeadsInto(nodes, p, 0, R[i])
          /\ ~ Full(b, ef) => Explored(nodes, q, 0, admitted, s, b, R[j], j)
      BY <2>1, <2>2, <2>3
    <3> HIDE DEF j
    <3>2. ~ Full(next, ef) => Explored(nodes, q, 0, admitted, s, next, R[i], j + 1)
      BY <1>0, <2>1, <3>1, ExpandExplored DEF B
    <3> QED
      BY <3>2 DEF j
  <2> HIDE DEF next
  <2> QED
    BY <2>3, <2>5, <2>6 DEF next
(* After as many turns as there are nodes, the frontier is empty. *)
<1>8. ASSUME NEW b \in F(n)
      PROVE  /\ ~ Full(b, ef) => b.frontier = {}
             /\ Expand(nodes, q, ef, 0, admitted, b) \in F(n)
  <2>1. b \in B /\ (~ Full(b, ef) => Explored(nodes, q, 0, admitted, s, b, R[n], n))
    OBVIOUS
  <2>2. ASSUME ~ Full(b, ef), b.frontier # {}
        PROVE  FALSE
    <3>1. PICK D \in SUBSET b.visited : /\ Cardinality(D) >= n
                                        /\ \A p \in D : Cand(nodes, q, p) \notin b.frontier
      BY <2>1, <2>2 DEF Explored
    <3>2. b.visited \in SUBSET Positions /\ b.frontier \subseteq CandsOf(nodes, q, b.visited)
      BY <2>1, <2>2 DEF Explored, Kept, Beams, B
    <3>3. D = Positions
      <4>1. IsFiniteSet(1 .. n) /\ Cardinality(1 .. n) = n
        <5>1. IsFiniteSet(1 .. n) /\ Cardinality(1 .. n) = IF 1 > n THEN 0 ELSE n - 1 + 1
          BY <1>1, FS_Interval
        <5> QED
          BY <1>1, <5>1
      <4>2. D \in SUBSET (1 .. n)
        BY <1>1, <3>1, <3>2
      <4>3. /\ IsFiniteSet(D) /\ Cardinality(D) <= Cardinality(1 .. n)
            /\ Cardinality(D) = Cardinality(1 .. n) => D = 1 .. n
        BY <4>1, <4>2, FS_Subset
      <4>4. Cardinality(D) \in Nat
        BY <4>3, FS_CardinalityType
      <4> QED
        BY <1>1, <3>1, <4>1, <4>3, <4>4
    <3>4. \A c \in b.frontier : \E p \in D : c = Cand(nodes, q, p)
      BY <3>2, <3>3 DEF CandsOf
    <3> QED
      BY <2>2, <3>1, <3>4
  <2>3. ~ Full(b, ef) => b.frontier = {}
    BY <2>2
  <2>4. CASE ~ Full(b, ef)
    <3>1. Expand(nodes, q, ef, 0, admitted, b) = b
      BY <2>3, <2>4 DEF Expand
    <3> QED
      BY <2>3, <3>1
  <2>5. CASE Full(b, ef)
    <3> DEFINE next == Expand(nodes, q, ef, 0, admitted, b)
    <3>2. next \in B
      BY <1>0, <2>1, ExpandType DEF B
    <3>3. Full(next, ef)
      BY <1>0, <2>1, <2>5, ExpandKeepsFull DEF B
    <3> HIDE DEF next
    <3>4. next \in F(n)
      BY <3>2, <3>3
    <3> QED
      BY <2>5, <3>4 DEF next
  <2> QED
    BY <2>3, <2>4, <2>5
<1> HIDE DEF F
<1>9. StartBeam(start, admitted) \in C[0]
  BY <1>1, <1>6
<1>10. ASSUME NEW i \in 1 .. n + 1, NEW b \in B \cap C[i - 1]
       PROVE  Expand(nodes, q, ef, 0, admitted, b) \in C[i]
  <2>1. CASE i = n + 1
    <3>1. b \in F(n)
      BY <1>1, <1>10, <2>1
    <3> QED
      BY <1>1, <1>8, <2>1, <3>1
  <2>2. CASE i \in 1 .. n
    <3>1. b \in F(i - 1)
      BY <1>1, <1>10, <2>2
    <3> QED
      BY <1>1, <1>7, <2>2, <3>1
  <2> QED
    BY <1>1, <2>1, <2>2
<1>11. last \in C[n + 1]
  <2> HIDE DEF C
  <2>1. last \in B \cap C[n + 1]
    BY <1>9, <1>10, BeamSearchKeeps DEF n, s, some, B
  <2> QED
    BY <2>1
<1>12. last \in F(n)
  <2> HIDE DEF last
  <2> QED
    BY <1>1, <1>11
<1> HIDE DEF last
<1>13. last.frontier = {} /\ Explored(nodes, q, 0, admitted, s, last, R[n], n)
  <2>1. ~ Full(last, ef)
    BY DEF last
  <2> QED
    BY <1>8, <1>12, <2>1 DEF F
<1>14. /\ last.best = CandsOf(nodes, q, last.visited \cap admitted)
       /\ last.visited \subseteq R[n] /\ s \in last.visited
       /\ \A p \in last.visited : LeadsInto(nodes, p, 0, last.visited)
  BY <1>13 DEF Explored, Kept
<1>15. R[n] \subseteq last.visited
  <2> DEFINE T == [i \in 0 .. n |-> SUBSET last.visited]
  <2>1. R[0] \in T[0]
    BY <1>1, <1>4, <1>14
  <2>2. ASSUME NEW i \in 1 .. n, R[i - 1] \in T[i - 1]
        PROVE  R[i] \in T[i]
    <3>1. R[i - 1] \subseteq last.visited
      BY <1>1, <2>2
    <3>2. R[i] \subseteq last.visited
      BY <1>4, <1>14, <2>2, <3>1 DEF LeadsInto
    <3> QED
      BY <1>1, <3>2
  <2>3. \A i \in 0 .. n : R[i] \in T[i]
    <3> HIDE DEF T
    <3> QED
      BY <1>1, <2>1, <2>2, ChainInduction
  <2> QED
    BY <1>1, <2>3
<1>16. last.visited = ReachableFrom(s)
  <2>1. R[n] = ReachableFrom(s)
    BY <1>4
  <2>2. last.visited = R[n]
    BY <1>14, <1>15
  <2> QED
    BY <2>1, <2>2
<1>17. R[n] = ReachableFrom(s) /\ R[n] \in SUBSET Positions
  BY <1>1, <1>4
<1>18. Component(s, ReachableFrom(s))
  BY <1>14, <1>16, <1>17 DEF Component
<1> QED
  BY <1>14, <1>16, <1>18 DEF last, s

LEMMA SearchFindsAll ==
  ASSUME HInv, ~ Empty, NEW q \in Vectors, NEW k \in Nat \ {0}, NEW f,
         Len(Search(q, k, 1, f)) < k
  PROVE  LET hits == Search(q, k, 1, f) IN
         {hits[i].id : i \in 1 .. Len(hits)} =
           {nodes[p].id : p \in {x \in ReachableFrom(Walk(q).at.key) : Admitted(x, f)}}
<1> DEFINE hits == Search(q, k, 1, f)
           at == Walk(q).at
           admitted == {p \in Positions : Admitted(p, f)}
           beam == Beam(q, at, k, 1, f)
           best == beam.best
           s == Sorted(best)
           n == Cardinality(best)
           m == IF k < n THEN k ELSE n
           some == at.key \in admitted
           Reached == {x \in ReachableFrom(at.key) : Admitted(x, f)}
<1>1. /\ Closed(nodes, 0, Positions) /\ at \in CandsOf(nodes, q, Positions)
      /\ beam \in Beams(nodes, q, Positions, admitted, some)
  BY BeamFacts
<1>2. beam = BeamSearch(nodes, q, at, k, 0, admitted)
  BY DEF Beam
<1>3. hits = Hits(s, k)
  BY DEF Search
<1>4. Len(hits) < k
  OBVIOUS
<1> HIDE DEF hits, at, admitted, beam, some
<1>5. /\ IsFiniteSet(best) /\ best \subseteq ItemSet /\ best \in SUBSET CandsOf(nodes, q, Positions)
  <2>1. best \in SUBSET CandsOf(nodes, q, Positions)
    BY <1>1 DEF Beams, CandsOf
  <2> QED
    BY <1>1, <2>1, CandsFinite
<1> HIDE DEF best
<1>6. /\ n \in Nat /\ Len(s) = n
      /\ \A i \in 1 .. n : s[i] \in best
      /\ \A c \in best : \E i \in 1 .. n : s[i] = c
  BY <1>5, SortedFacts, Ranks
<1> HIDE DEF s, n
<1>7. hits = [i \in 1 .. m |-> Hit(s[i])] /\ m \in Nat
  BY <1>3, <1>6 DEF Hits
<1>8. n < k /\ m = n
  <2>1. Len(hits) = m
    <3> HIDE DEF m
    <3> QED
      BY <1>7
  <2> QED
    BY <1>4, <1>6, <2>1
<1> HIDE DEF m
<1>9. Len(hits) = n /\ \A i \in 1 .. n : hits[i] = Hit(s[i])
  BY <1>6, <1>7, <1>8
<1>10. best = CandsOf(nodes, q, ReachableFrom(at.key) \cap admitted)
  <2>1. ~ Full(beam, k)
    BY <1>6, <1>8 DEF Full, n, best
  <2> QED
    BY <1>1, <1>2, <2>1, BeamSeesAll DEF best
<1>11. ReachableFrom(at.key) \cap admitted = Reached /\ Reached \subseteq Positions
  <2>1. Positions \in SUBSET Nat /\ \A p \in Positions : nodes[p].vector \in Vectors
    BY <1>1, CandsFinite
  <2>2. at.key \in Positions
    BY <1>1, <2>1, CandFacts
  <2>3. PICK R : ReachedBy(R, at.key)
    BY <1>1, <2>2, ReachedByLists
  <2>4. ReachableFrom(at.key) \in SUBSET Positions
    <3>1. Len(nodes) \in 0 .. Len(nodes)
      BY <1>1 DEF Closed
    <3> QED
      BY <2>3, <3>1 DEF ReachedBy
  <2> QED
    BY <2>4 DEF admitted
<1>12. \A p \in Reached : Hit(Cand(nodes, q, p)).id = nodes[p].id
  <2>1. \A p \in Positions : Hit(Cand(nodes, q, p)).id = nodes[p].id
    BY DEF Hit, Cand, Item
  <2> QED
    BY <1>11, <2>1
<1>13. ASSUME NEW i \in 1 .. n
       PROVE  \E p \in Reached : hits[i].id = nodes[p].id
  <2>1. s[i] \in CandsOf(nodes, q, Reached)
    BY <1>6, <1>10, <1>11
  <2>2. PICK p \in Reached : s[i] = Cand(nodes, q, p)
    BY <2>1 DEF CandsOf
  <2> QED
    BY <1>9, <1>12, <2>2
<1>14. ASSUME NEW p \in Reached
       PROVE  \E i \in 1 .. n : hits[i].id = nodes[p].id
  <2>1. Cand(nodes, q, p) \in best
    BY <1>10, <1>11 DEF CandsOf
  <2>2. PICK i \in 1 .. n : s[i] = Cand(nodes, q, p)
    BY <1>6, <2>1
  <2> QED
    BY <1>9, <1>12, <2>2
<1> HIDE DEF LastHop
<1>15. {hits[i].id : i \in 1 .. Len(hits)} = {nodes[p].id : p \in Reached}
  <2>1. {hits[i].id : i \in 1 .. n} = {nodes[p].id : p \in Reached}
    BY <1>13, <1>14
  <2> QED
    BY <1>9, <2>1
<1> QED
  BY <1>15 DEF hits, LastHop, at

(* All admitted vectors of a component, or k. *)
LEMMA WideSearches == HInv => FiltersWidenTheSearch
<1> SUFFICES ASSUME HInv, NEW q \in Vectors, NEW k \in {1, 2, 3}, NEW f \in Filters,
                    ~ Empty, Len(Search(q, k, 1, f)) < k
             PROVE  LET hits == Search(q, k, 1, f) IN
                    {hits[i].id : i \in 1 .. Len(hits)} =
                      {nodes[p].id : p \in {x \in ReachableFrom(Walk(q).at.key) : Admitted(x, f)}}
  BY DEF FiltersWidenTheSearch
<1>1. k \in Nat \ {0}
  OBVIOUS
<1> QED
  BY <1>1, SearchFindsAll

(***************************************************************************)
(* hnsw.rs:255-262, hnsw.rs 484-539: neither tombstones nor a filter that  *)
(* refuses nearly everything starve a search.  One that yields fewer than  *)
(* k hits has every live matching vector of the component it started in,   *)
(* however the graph was built.                                            *)
(***************************************************************************)
THEOREM FiltersNeverStarve == Spec => []FiltersWidenTheSearch
BY WideSearches, HInvHolds, PTL

(* While no list of layer 0 has overflowed. *)

LEMMA DistinctFacts ==
  ASSUME NEW S, NEW s \in Distinct(S)
  PROVE  s \in Seq(S) /\ Len(s) \in Nat /\ \A i \in 1 .. Len(s) : s[i] \in S
BY DEF Distinct

LEMMA DistinctLen ==
  ASSUME NEW S, IsFiniteSet(S), NEW s \in Distinct(S)
  PROVE  Len(s) \in Nat /\ Len(s) <= Cardinality(S)
<1> DEFINE m == Len(s)
<1>1. m \in Nat /\ s \in [1 .. m -> S] /\ \A i, j \in 1 .. m : s[i] = s[j] => i = j
  BY DEF Distinct
<1> HIDE DEF m
<1>2. s \in Injection(1 .. m, S)
  BY <1>1 DEF Injection, IsInjective
<1>3. Cardinality(1 .. m) = m
  <2>1. Cardinality(1 .. m) = IF 1 > m THEN 0 ELSE m - 1 + 1
    BY <1>1, FS_Interval
  <2> QED
    BY <1>1, <2>1
<1>4. Cardinality(1 .. m) <= Cardinality(S)
  BY <1>2, FS_Injection
<1> QED
  BY <1>1, <1>3, <1>4 DEF m

(* No proper part of the first n nodes is closed under the lists of layer 0. *)
Connected(g, n) ==
  \A V \in SUBSET (1 .. n) : V # {} /\ (\A p \in V : LeadsInto(g, p, 0, V)) => V = 1 .. n

SmallInv == Len(nodes) <= 2 * M + 1 => Connected(nodes, Len(nodes))

(* An old list has room for the back link: it does not lead to all the others. *)
LEMMA RoomForBackLink ==
  ASSUME NEW g, NEW n, NEW l, Unlinked(g, n, l), n + 1 <= 2 * M + 1, NEW p \in 1 .. n
  PROVE  /\ Nbrs(g, p, 0) \in Distinct((1 .. n) \ {p})
         /\ Pushed(g, p, 0, n + 1) = Append(Nbrs(g, p, 0), n + 1)
<1> DEFINE list == Nbrs(g, p, 0)
           K == OnLayer(g, 0, n)
           J == (1 .. n) \ {p}
<1>1. LinkedUpTo(g, n) /\ n \in Nat /\ M \in Nat /\ 0 \in 0 .. Level(g, p)
  BY NodeFacts, HnswAssumption DEF Unlinked
<1>2. list \in Distinct(J)
  <2>1. list \in Distinct(K \ {p})
    BY <1>1 DEF LinkedUpTo
  <2>2. K \ {p} \subseteq J
    BY DEF OnLayer
  <2> HIDE DEF K, J, list
  <2> QED
    BY <2>1, <2>2, DistinctMono
<1>3. IsFiniteSet(J) /\ Cardinality(J) = n - 1
  <2>1. IsFiniteSet(1 .. n) /\ Cardinality(1 .. n) = IF 1 > n THEN 0 ELSE n - 1 + 1
    BY <1>1, FS_Interval
  <2>2. Cardinality(1 .. n) = n
    BY <1>1, <2>1
  <2> QED
    BY <2>1, <2>2, FS_RemoveElement
<1> HIDE DEF list, J
<1>4. Len(list) \in Nat /\ Len(list) <= n - 1 /\ list \in Seq(J)
  BY <1>2, <1>3, DistinctLen DEF Distinct
<1>5. Len(Append(list, n + 1)) = Len(list) + 1
  BY <1>4
<1>6. ~ Len(Append(list, n + 1)) > MMax(0)
  BY <1>1, <1>4, <1>5 DEF MMax
<1>7. Pushed(g, p, 0, n + 1) = Append(list, n + 1)
  BY <1>6 DEF Pushed, list
<1> QED
  BY <1>2, <1>7 DEF list, J

(* What the old lists lead to they still lead to, and the new node is linked
   both ways. *)
LEMMA LinkedConnected ==
  ASSUME NEW g, NEW n, NEW l, Unlinked(g, n, l), n + 1 <= 2 * M + 1, Connected(g, n),
         NEW k, BottomLinked(g, k, n)
  PROVE  Connected(k, n + 1)
<1> SUFFICES ASSUME NEW V \in SUBSET (1 .. n + 1), V # {},
                    \A p \in V : LeadsInto(k, p, 0, V)
             PROVE  V = 1 .. n + 1
  BY DEF Connected
<1>1. LinkedUpTo(g, n) /\ n \in Nat /\ Len(g) = n + 1
  BY NodeFacts DEF Unlinked
<1>2. PICK chosen \in Distinct(1 .. n) :
        /\ Len(chosen) >= 1
        /\ \A p \in 1 .. n + 1 : Nbrs(k, p, 0) = Relinked(g, p, 0, chosen)
  BY DEF BottomLinked
<1>3. /\ Len(chosen) \in Nat /\ 1 \in 1 .. Len(chosen)
      /\ \A i \in 1 .. Len(chosen) : chosen[i] \in 1 .. n
  <2>1. Len(chosen) \in Nat /\ \A i \in 1 .. Len(chosen) : chosen[i] \in 1 .. n
    BY DistinctFacts
  <2> QED
    BY <1>2, <2>1
<1>4. Nbrs(k, n + 1, 0) = chosen
  BY <1>1, <1>2 DEF Relinked
<1>5. ASSUME NEW p \in 1 .. n
      PROVE  /\ Nbrs(g, p, 0) \in Seq(1 .. n)
             /\ Nbrs(k, p, 0) = IF \E i \in 1 .. Len(chosen) : chosen[i] = p
                                THEN Append(Nbrs(g, p, 0), n + 1) ELSE Nbrs(g, p, 0)
  <2>1. /\ Nbrs(g, p, 0) \in Distinct((1 .. n) \ {p})
        /\ Pushed(g, p, 0, n + 1) = Append(Nbrs(g, p, 0), n + 1)
    BY RoomForBackLink
  <2>2. Nbrs(g, p, 0) \in Seq(1 .. n)
    <3>1. Nbrs(g, p, 0) \in Distinct(1 .. n)
      BY <2>1, DistinctMono
    <3> QED
      BY <3>1, DistinctFacts
  <2>3. p # n + 1 /\ p \in 1 .. n + 1
    BY <1>1
  <2> QED
    BY <1>1, <1>2, <2>1, <2>2, <2>3 DEF Relinked
<1> DEFINE W == V \ {n + 1}
<1>6. W \in SUBSET (1 .. n)
  BY <1>1
<1>7. W # {}
  <2>1. CASE n + 1 \in V
    <3>1. chosen[1] \in V /\ chosen[1] \in 1 .. n
      BY <1>3, <1>4, <2>1 DEF LeadsInto
    <3> QED
      BY <1>1, <3>1
  <2>2. CASE n + 1 \notin V
    BY <2>2
  <2> QED
    BY <2>1, <2>2
<1>8. ASSUME NEW p \in W
      PROVE  LeadsInto(g, p, 0, W)
  <2> SUFFICES ASSUME NEW j \in 1 .. Len(Nbrs(g, p, 0))
               PROVE  Nbrs(g, p, 0)[j] \in W
    BY DEF LeadsInto
  <2> DEFINE list == Nbrs(g, p, 0)
  <2>1. p \in 1 .. n /\ p \in V
    BY <1>6
  <2>2. list \in Seq(1 .. n) /\ j \in 1 .. Len(list)
    BY <1>5, <2>1
  <2>3. Nbrs(k, p, 0) \in {Append(list, n + 1), list}
    BY <1>5, <2>1
  <2> HIDE DEF list
  <2>4. list[j] \in 1 .. n /\ Append(list, n + 1)[j] = list[j]
        /\ j \in 1 .. Len(Append(list, n + 1))
    <3> DEFINE S == 1 .. n
               x == n + 1
    <3>1. list \in Seq(S)
      BY <2>2
    <3> HIDE DEF S, x
    <3>2. list[j] \in S /\ Append(list, x)[j] = list[j] /\ j \in 1 .. Len(Append(list, x))
      BY <2>2, <3>1
    <3> QED
      BY <3>2 DEF S, x
  <2>5. Nbrs(k, p, 0)[j] = list[j] /\ j \in 1 .. Len(Nbrs(k, p, 0))
    BY <2>2, <2>3, <2>4
  <2>6. list[j] \in V
    BY <2>1, <2>5 DEF LeadsInto
  <2> QED
    BY <1>1, <2>4, <2>6 DEF list
<1>9. W = 1 .. n
  <2> HIDE DEF W
  <2> QED
    BY <1>6, <1>7, <1>8 DEF Connected
<1>10. n + 1 \in V
  <2> DEFINE c == chosen[1]
             list == Nbrs(g, c, 0)
  <2>1. c \in 1 .. n /\ c \in V
    BY <1>3, <1>9
  <2>2. list \in Seq(1 .. n) /\ Nbrs(k, c, 0) = Append(list, n + 1)
    BY <1>3, <1>5, <2>1
  <2> HIDE DEF c, list
  <2>3. /\ Len(list) + 1 \in 1 .. Len(Append(list, n + 1))
        /\ Append(list, n + 1)[Len(list) + 1] = n + 1
    <3> DEFINE S == 1 .. n
               x == n + 1
    <3>1. list \in Seq(S)
      BY <2>2
    <3> HIDE DEF S, x
    <3>2. Len(list) + 1 \in 1 .. Len(Append(list, x)) /\ Append(list, x)[Len(list) + 1] = x
      BY <3>1
    <3> QED
      BY <3>2 DEF x
  <2> QED
    BY <2>1, <2>2, <2>3 DEF LeadsInto
<1>11. 1 .. n + 1 = (1 .. n) \cup {n + 1}
  BY <1>1
<1> QED
  BY <1>9, <1>10, <1>11

(* An empty index is connected. *)
LEMMA InitSmallInv == Init => SmallInv
<1> SUFFICES ASSUME Init PROVE Connected(nodes, Len(nodes))
  BY DEF SmallInv
<1>1. Len(nodes) = 0
  BY DEF Init
<1>2. 1 .. 0 = {}
  OBVIOUS
<1> QED
  BY <1>1, <1>2 DEF Connected

(* And stays so while no list overflows. *)
LEMMA NextSmallInv == HInv /\ SmallInv /\ [Next]_vars => SmallInv'
<1> SUFFICES ASSUME HInv, SmallInv, [Next]_vars, Len(nodes') <= 2 * M + 1
             PROVE  Connected(nodes', Len(nodes'))
  BY DEF SmallInv
<1> DEFINE n == Len(nodes)
<1>0. n \in Nat /\ M \in Nat /\ LinkedUpTo(nodes, n)
  BY NodeFacts, HnswAssumption DEF HInv
<1>1. ASSUME NEW id \in Ids, NEW v \in Vectors, NEW pl \in Payloads, NEW l \in Levels,
             Add(id, v, pl, l)
      PROVE  Connected(nodes', Len(nodes'))
  <2> DEFINE g == Append(nodes, NewNode(id, v, pl, l))
  <2>1. Len(nodes') = n + 1 /\ (n = 0 \/ BottomLinked(g, nodes', n))
    BY <1>1, AddArena
  <2>2. Unlinked(g, n, l) /\ \A p \in 1 .. n : g[p] = nodes[p]
    BY <1>0, AppendUnlinked
  <2> HIDE DEF g
  <2>3. CASE n = 0
    <3>1. Len(nodes') = 1 /\ 1 .. 1 = {1}
      BY <2>1, <2>3
    <3> QED
      BY <3>1 DEF Connected
  <2>4. CASE BottomLinked(g, nodes', n)
    <3>1. n <= 2 * M + 1 /\ n + 1 <= 2 * M + 1
      BY <1>0, <2>1
    <3>2. Connected(nodes, n)
      BY <3>1 DEF SmallInv
    <3>3. \A p \in 1 .. n : Nbrs(g, p, 0) = Nbrs(nodes, p, 0)
      BY <2>2 DEF Nbrs
    <3>4. Connected(g, n)
      BY <3>2, <3>3 DEF Connected, LeadsInto
    <3>5. Connected(nodes', n + 1)
      BY <2>2, <2>4, <3>1, <3>4, LinkedConnected
    <3> QED
      BY <2>1, <3>5
  <2> QED
    BY <2>1, <2>3, <2>4
<1>2. ASSUME NEW id \in Ids, Remove(id)
      PROVE  Connected(nodes', Len(nodes'))
  <2>1. Buried(id, n, id_to_pos[id])
    BY <1>2, RemoveNodes
  <2>2. Len(nodes') = n /\ \A p \in 1 .. n : Nbrs(nodes', p, 0) = Nbrs(nodes, p, 0)
    BY <2>1 DEF Buried, Nbrs
  <2>3. Connected(nodes, n)
    BY <2>2 DEF SmallInv
  <2>4. Connected(nodes', n)
    BY <2>2, <2>3 DEF Connected, LeadsInto
  <2> QED
    BY <2>2, <2>4
<1>3. CASE UNCHANGED vars
  BY <1>3 DEF vars, SmallInv
<1> QED
  BY <1>1, <1>2, <1>3 DEF Next

LEMMA SmallInvHolds == Spec => []SmallInv
BY InitSmallInv, NextSmallInv, HInvHolds, PTL DEF Spec

-----------------------------------------------------------------------------
LEMMA CandsAtMost ==
  ASSUME NEW g, NEW layer, NEW K, Closed(g, layer, K), NEW q \in Vectors
  PROVE  IsFiniteSet(CandsOf(g, q, K)) /\ Cardinality(CandsOf(g, q, K)) <= Len(g)
<1> DEFINE n == Len(g)
           f == [p \in K |-> Cand(g, q, p)]
<1>1. n \in Nat /\ K \in SUBSET (1 .. n)
  BY DEF Closed
<1> HIDE DEF f, n
<1>2. IsFiniteSet(1 .. n) /\ Cardinality(1 .. n) = n
  <2>1. IsFiniteSet(1 .. n) /\ Cardinality(1 .. n) = IF 1 > n THEN 0 ELSE n - 1 + 1
    BY <1>1, FS_Interval
  <2> QED
    BY <1>1, <2>1
<1>3. IsFiniteSet(K) /\ Cardinality(K) <= n
  BY <1>1, <1>2, FS_Subset
<1>4. f \in Surjection(K, CandsOf(g, q, K))
  BY DEF Surjection, CandsOf, f
<1>5. IsFiniteSet(CandsOf(g, q, K)) /\ Cardinality(CandsOf(g, q, K)) <= Cardinality(K)
  BY <1>3, <1>4, FS_Surjection
<1>6. Cardinality(CandsOf(g, q, K)) \in Nat /\ Cardinality(K) \in Nat
  BY <1>3, <1>5, FS_CardinalityType
<1> QED
  BY <1>1, <1>3, <1>5, <1>6 DEF n

(* A beam as wide as the index has every admitted node: if it is full, every
   node there is. *)
LEMMA WideBeam ==
  ASSUME HInv, Connected(nodes, Len(nodes)), ~ Empty, NEW q \in Vectors, NEW k \in Nat \ {0},
         NEW f
  PROVE  Beam(q, Walk(q).at, k, Len(nodes), f).best
           = CandsOf(nodes, q, {p \in Positions : Admitted(p, f)})
<1> DEFINE n == Len(nodes)
           at == Walk(q).at
           admitted == {p \in Positions : Admitted(p, f)}
           width == IF n < k THEN k ELSE n
           beam == Beam(q, at, k, n, f)
           some == at.key \in admitted
           C == CandsOf(nodes, q, Positions)
<1>1. n \in Nat \ {0} /\ Positions = 1 .. n
  <2>1. n \in Nat /\ nodes \in Seq(Node)
    BY NodeFacts DEF HInv, LinkedUpTo
  <2>2. nodes # << >>
    BY DEF HInv, EntryInv, EntryIsHighest, Empty
  <2> QED
    BY <2>1, <2>2 DEF Positions
<1>2. /\ Closed(nodes, 0, Positions) /\ at \in C
      /\ beam \in Beams(nodes, q, Positions, admitted, some)
  <2> HIDE DEF n
  <2>1. n \in Nat \ {0}
    BY <1>1
  <2> QED
    BY <2>1, BeamFacts
<1>3. beam = BeamSearch(nodes, q, at, width, 0, admitted) /\ width \in Nat \ {0} /\ n <= width
  BY <1>1 DEF Beam
<1>4. admitted \in SUBSET Positions /\ Positions \cap admitted = admitted
  OBVIOUS
<1> HIDE DEF n, at, admitted, width, beam, some
<1>5. beam.best \in SUBSET CandsOf(nodes, q, admitted) /\ CandsOf(nodes, q, admitted) \in SUBSET C
  BY <1>2, <1>4 DEF Beams, CandsOf
<1>6. CASE Full(beam, width)
  <2>1. IsFiniteSet(C) /\ Cardinality(C) <= n
    BY <1>2, CandsAtMost DEF n
  <2>2. beam.best \in SUBSET C /\ Cardinality(beam.best) >= width
    BY <1>5, <1>6 DEF Full
  <2> HIDE DEF C
  <2>3. /\ IsFiniteSet(beam.best) /\ Cardinality(beam.best) <= Cardinality(C)
        /\ Cardinality(C) = Cardinality(beam.best) => C = beam.best
    BY <2>1, <2>2, FS_Subset
  <2>4. Cardinality(C) \in Nat /\ Cardinality(beam.best) \in Nat
    BY <2>1, <2>3, FS_CardinalityType
  <2>5. C = beam.best
    BY <1>1, <1>3, <2>1, <2>2, <2>3, <2>4
  <2> QED
    BY <1>5, <2>5 DEF n, at, admitted, beam
<1>7. CASE ~ Full(beam, width)
  <2> DEFINE V == ReachableFrom(at.key)
             search == BeamSearch(nodes, q, at, width, 0, admitted)
  <2>0. ~ Full(search, width) /\ at \in CandsOf(nodes, q, Positions)
    BY <1>2, <1>3, <1>7
  <2>1. /\ search.best = CandsOf(nodes, q, V \cap admitted)
        /\ Component(at.key, V)
    BY <1>2, <1>3, <2>0, BeamSeesAll
  <2> HIDE DEF V, search
  <2>2. V = Positions
    BY <1>1, <2>1 DEF Connected, Component, n
  <2>3. search.best = CandsOf(nodes, q, admitted)
    BY <1>4, <2>1, <2>2
  <2>4. beam.best = CandsOf(nodes, q, admitted)
    BY <1>3, <2>3 DEF search
  <2> QED
    BY <2>4 DEF n, at, admitted, beam
<1> QED
  BY <1>6, <1>7

(* Those of the first i nodes that search_exact offers to its heap. *)
Offered(q, f, i) == CandsOf(nodes, q, {p \in 1 .. i : Admitted(p, f)})

(* The next node is visited. *)
Scan(q, f, k, heap, p) == IF Admitted(p, f) THEN Offer(heap, k, Cand(nodes, q, p)) ELSE heap

ScanAll(q, f, k) ==
  Lists!FoldLeft(LAMBDA heap, p : Scan(q, f, k, heap, p), {}, [p \in Positions |-> p])

LEMMA OfferedFacts ==
  ASSUME Closed(nodes, 0, Positions), NEW q \in Vectors, NEW f, NEW i \in 0 .. Len(nodes)
  PROVE  Offered(q, f, i) \in SUBSET ItemSet /\ IsFiniteSet(Offered(q, f, i))
<1>1. Len(nodes) \in Nat /\ Positions = 1 .. Len(nodes)
  BY DEF Closed, Positions
<1>2. {p \in 1 .. i : Admitted(p, f)} \subseteq Positions
  BY <1>1
<1>3. Offered(q, f, i) \in SUBSET CandsOf(nodes, q, Positions)
  BY <1>2 DEF Offered, CandsOf
<1> QED
  BY <1>3, CandsFinite

LEMMA ScanKeepsLeast ==
  ASSUME Closed(nodes, 0, Positions), NEW q \in Vectors, NEW f, NEW k \in Nat,
         NEW i \in 1 .. Len(nodes), NEW heap, KeepsLeast(heap, Offered(q, f, i - 1), k)
  PROVE  KeepsLeast(Scan(q, f, k, heap, i), Offered(q, f, i), k)
<1> DEFINE x == Cand(nodes, q, i)
<1>1. /\ Len(nodes) \in Nat /\ i - 1 \in 0 .. Len(nodes)
      /\ 1 .. i = (1 .. i - 1) \cup {i} /\ 1 .. i - 1 \subseteq 1 .. Len(nodes) /\ i \notin 1 .. i - 1
  BY DEF Closed
<1>2. \A p \in 1 .. Len(nodes) : Cand(nodes, q, p).key = p /\ Cand(nodes, q, p) \in ItemSet
  <2>1. Positions \in SUBSET Nat /\ \A p \in Positions : nodes[p].vector \in Vectors
    BY CandsFinite
  <2>2. /\ \A p \in Positions : Cand(nodes, q, p) \in CandsOf(nodes, q, Positions)
                                /\ Cand(nodes, q, p).key = p
        /\ CandsOf(nodes, q, Positions) \subseteq ItemSet
    BY <2>1, CandFacts
  <2> QED
    BY <2>2 DEF Positions
<1>3. CASE Admitted(i, f)
  <2>1. Offered(q, f, i) = Offered(q, f, i - 1) \cup {x}
    BY <1>1, <1>3 DEF Offered, CandsOf
  <2>2. x \notin Offered(q, f, i - 1)
    <3>1. \A c \in Offered(q, f, i - 1) : c.key \in 1 .. i - 1
      BY <1>1, <1>2 DEF Offered, CandsOf
    <3> QED
      BY <1>1, <1>2, <3>1
  <2>3. x \in ItemSet
    BY <1>2
  <2>4. Offered(q, f, i - 1) \in SUBSET ItemSet /\ IsFiniteSet(Offered(q, f, i - 1))
    BY <1>1, OfferedFacts
  <2>5. Scan(q, f, k, heap, i) = Offer(heap, k, x)
    BY <1>3 DEF Scan
  <2> HIDE DEF x
  <2>6. KeepsLeast(Offer(heap, k, x), Offered(q, f, i - 1) \cup {x}, k)
    BY <2>2, <2>3, <2>4, OfferKeepsLeast
  <2> QED
    BY <2>1, <2>5, <2>6
<1>4. CASE ~ Admitted(i, f)
  <2>1. Offered(q, f, i) = Offered(q, f, i - 1)
    BY <1>1, <1>4 DEF Offered, CandsOf
  <2>2. Scan(q, f, k, heap, i) = heap
    BY <1>4 DEF Scan
  <2> QED
    BY <2>1, <2>2
<1> QED
  BY <1>3, <1>4

(* search_exact keeps the k least of the candidates it admits. *)
LEMMA ScanAllKeepsLeast ==
  ASSUME Closed(nodes, 0, Positions), NEW q \in Vectors, NEW f, NEW k \in Nat
  PROVE  KeepsLeast(ScanAll(q, f, k), Offered(q, f, Len(nodes)), k)
<1> DEFINE n == Len(nodes)
           seq == [p \in Positions |-> p]
           B == SUBSET ItemSet
           step == [i \in 1 .. n |-> [heap \in B |-> Scan(q, f, k, heap, i)]]
<1>1. n \in Nat /\ DOMAIN seq = 1 .. n /\ \A i \in 1 .. n : seq[i] = i
  BY DEF Closed, Positions
<1>2. ScanAll(q, f, k) = Lists!FoldLeft(LAMBDA heap, p : Scan(q, f, k, heap, p), {}, seq)
  BY DEF ScanAll
<1> HIDE DEF n, seq
<1>3. {} \in B
  OBVIOUS
<1>4. \A i \in 1 .. n, heap \in B : Scan(q, f, k, heap, i) \in B
  <2>1. \A i \in 1 .. n : Cand(nodes, q, i) \in ItemSet
    <3>1. Positions \in SUBSET Nat /\ (\A p \in Positions : nodes[p].vector \in Vectors)
          /\ Positions = 1 .. n
      BY CandsFinite DEF n, Positions
    <3>2. /\ \A p \in Positions : Cand(nodes, q, p) \in CandsOf(nodes, q, Positions)
          /\ CandsOf(nodes, q, Positions) \subseteq ItemSet
      BY <3>1, CandFacts
    <3> QED
      BY <3>1, <3>2
  <2> QED
    BY <2>1 DEF Scan, Offer
<1> HIDE DEF B
<1>5. step \in [1 .. n -> [B -> B]]
  BY <1>4
<1>6. \A i \in 1 .. n, heap \in B : step[i][heap] = Scan(q, f, k, heap, i)
  OBVIOUS
<1> HIDE DEF step
<1>7. PICK g : Solves(g, n, B, {}, step)
  BY <1>1, <1>3, <1>5, FoldExists
<1>8. g = [s \in SUBSET DOMAIN seq |->
             IF s = {} THEN {} ELSE Scan(q, f, k, g[s \ {Lists!Max(s)}], seq[Lists!Max(s)])]
  <2>1. \A s \in SUBSET (1 .. n) : s # {} =>
          g[s] = Scan(q, f, k, g[s \ {Lists!Max(s)}], seq[Lists!Max(s)])
    <3>1. ASSUME NEW s \in SUBSET (1 .. n), s # {}
          PROVE  g[s] = Scan(q, f, k, g[s \ {Lists!Max(s)}], seq[Lists!Max(s)])
      <4>1. n \in Nat
        BY <1>1
      <4>2. StepsAt(g, s, n, B, step)
        BY <1>7, <3>1, <4>1, SolutionStep
      <4> QED
        BY <1>1, <1>6, <4>2 DEF StepsAt
    <3> QED
      BY <3>1
  <2> QED
    BY <1>1, <1>7, <2>1 DEF Solves
<1>9. PICK h : /\ h = [s \in SUBSET DOMAIN seq |->
                         IF s = {} THEN {}
                         ELSE Scan(q, f, k, h[s \ {Lists!Max(s)}], seq[Lists!Max(s)])]
               /\ ScanAll(q, f, k) = h[DOMAIN seq]
  BY <1>2, <1>8 DEF Lists!FoldLeft, Lists!MapThenFoldSet
<1> DEFINE T == [i \in 0 .. n |-> {heap \in B : KeepsLeast(heap, Offered(q, f, i), k)}]
<1>10. h[{}] \in T[0]
  <2>1. Offered(q, f, 0) = {}
    BY DEF Offered, CandsOf
  <2>2. KeepsLeast({}, Offered(q, f, 0), k)
    BY <2>1, FS_EmptySet DEF KeepsLeast
  <2>3. h[{}] = {}
    BY <1>9
  <2> QED
    BY <1>1, <1>3, <2>2, <2>3
<1>11. ASSUME NEW i \in 1 .. n, h[1 .. i - 1] \in T[i - 1]
       PROVE  h[1 .. i] \in T[i]
  <2>1. h[1 .. i] = Scan(q, f, k, h[1 .. i - 1], i)
    <3>1. /\ (1 .. i) \in SUBSET (1 .. n) /\ (1 .. i) # {}
          /\ Lists!Max(1 .. i) = i /\ (1 .. i) \ {i} = 1 .. i - 1
      BY <1>1, LastOfPrefix
    <3>2. seq[i] = i /\ (1 .. i) \in SUBSET DOMAIN seq
      BY <1>1, <3>1
    <3>3. h[1 .. i] = Scan(q, f, k, h[(1 .. i) \ {Lists!Max(1 .. i)}], seq[Lists!Max(1 .. i)])
      BY <1>9, <3>1, <3>2
    <3> QED
      BY <3>1, <3>2, <3>3
  <2>2. h[1 .. i - 1] \in B /\ KeepsLeast(h[1 .. i - 1], Offered(q, f, i - 1), k)
    BY <1>1, <1>11
  <2>3. h[1 .. i] \in B
    BY <1>4, <2>1, <2>2
  <2>4. KeepsLeast(h[1 .. i], Offered(q, f, i), k)
    BY <2>1, <2>2, ScanKeepsLeast DEF n
  <2> QED
    BY <1>1, <2>3, <2>4
<1>12. h[1 .. n] \in T[n]
  <2> HIDE DEF T
  <2> QED
    BY <1>1, <1>10, <1>11, FoldInduction
<1>13. KeepsLeast(ScanAll(q, f, k), Offered(q, f, n), k)
  BY <1>1, <1>9, <1>12
<1> QED
  BY <1>13 DEF n

(* search_exact yields the first k of all the admitted candidates in order. *)
LEMMA ExactHits ==
  ASSUME HInv, NEW q \in Vectors, NEW k \in Nat, NEW f
  PROVE  LET items == CandsOf(nodes, q, {p \in Positions : Admitted(p, f)})
         IN IsFiniteSet(items) /\ SearchExact(q, k, f) = Hits(Sorted(items), k)
<1> DEFINE items == CandsOf(nodes, q, {p \in Positions : Admitted(p, f)})
           heap == ScanAll(q, f, k)
           s == Sorted(items)
           t == Sorted(heap)
           m == Cardinality(items)
           h == Cardinality(heap)
<1>1. Closed(nodes, 0, Positions) /\ Len(nodes) \in 0 .. Len(nodes) /\ Positions = 1 .. Len(nodes)
  <2>1. LinkedUpTo(nodes, Len(nodes)) /\ 0 \in Nat
    BY DEF HInv
  <2>2. OnLayer(nodes, 0, Len(nodes)) = Positions
    BY <2>1, NodeFacts DEF OnLayer, Positions
  <2>3. Closed(nodes, 0, OnLayer(nodes, 0, Len(nodes)))
    BY <2>1, LayerClosed
  <2>4. Len(nodes) \in Nat
    BY <2>1, NodeFacts
  <2> QED
    BY <2>2, <2>3, <2>4 DEF Positions
<1>2. Offered(q, f, Len(nodes)) = items
  BY <1>1 DEF Offered
<1>3. SearchExact(q, k, f) = Hits(t, k)
  BY DEF SearchExact, ScanAll, Scan
<1> HIDE DEF items, heap
<1>4. items \in SUBSET ItemSet /\ IsFiniteSet(items)
  BY <1>1, <1>2, OfferedFacts
<1>5. KeepsLeast(heap, items, k)
  BY <1>1, <1>2, ScanAllKeepsLeast DEF heap
<1>6. t = SubSeq(s, 1, h)
  BY <1>4, <1>5, SortedLeast
<1>7. h = IF k < m THEN k ELSE m
  BY <1>5 DEF KeepsLeast
<1>8. s \in Seq(items) /\ Len(s) = m /\ m \in Nat
  BY <1>4, SortedFacts, FS_CardinalityType
<1> HIDE DEF s, t, m, h
<1>9. h \in Nat /\ h <= m /\ Len(t) = h /\ \A i \in 1 .. h : t[i] = s[i]
  BY <1>6, <1>7, <1>8
<1>10. Hits(t, k) = Hits(s, k)
  <2>1. (IF k < Len(t) THEN k ELSE Len(t)) = h /\ (IF k < Len(s) THEN k ELSE Len(s)) = h
    BY <1>7, <1>8, <1>9
  <2> QED
    BY <1>9, <2>1 DEF Hits
<1> QED
  BY <1>3, <1>4, <1>10 DEF items, s

(* Nothing is found where nothing is live. *)
LEMMA NothingLive ==
  ASSUME HInv, Empty, NEW f
  PROVE  {p \in Positions : Admitted(p, f)} = {}
<1> DEFINE live == {p \in Positions : ~ nodes[p].deleted}
<1>1. live = {}
  <2>1. live_count = Cardinality(live)
    BY DEF HInv, LiveNodesAgree
  <2>2. CASE entry_point = 0
    <3>1. nodes = << >>
      BY <2>2 DEF HInv, EntryInv, EntryIsHighest
    <3>2. Len(nodes) = 0
      BY <3>1
    <3> QED
      BY <3>2 DEF Positions
  <2>3. CASE live_count = 0
    <3>1. Len(nodes) \in Nat
      BY NodeFacts DEF HInv
    <3>2. IsFiniteSet(1 .. Len(nodes)) /\ live \in SUBSET (1 .. Len(nodes))
      BY <3>1, FS_Interval DEF Positions
    <3> HIDE DEF live
    <3>3. IsFiniteSet(live)
      BY <3>2, FS_Subset
    <3> QED
      BY <2>1, <2>3, <3>3, FS_EmptySet
  <2> QED
    BY <2>2, <2>3 DEF Empty
<1> QED
  BY <1>1 DEF Admitted

LEMMA SmallSearchExact ==
  ASSUME HInv, Connected(nodes, Len(nodes)), NEW q \in Vectors, NEW k \in Nat \ {0}, NEW f
  PROVE  Search(q, k, Len(nodes), f) = SearchExact(q, k, f)
<1> DEFINE admitted == {p \in Positions : Admitted(p, f)}
           items == CandsOf(nodes, q, admitted)
<1>1. IsFiniteSet(items) /\ SearchExact(q, k, f) = Hits(Sorted(items), k)
  BY ExactHits
<1>2. CASE Empty
  <2>1. items = {}
    BY <1>2, NothingLive DEF CandsOf
  <2>2. Cardinality({}) = 0 /\ IsFiniteSet({}) /\ {} \subseteq ItemSet
    BY FS_EmptySet
  <2>3. Len(Sorted({})) = 0
    BY <2>2, SortedFacts
  <2>4. Hits(Sorted({}), k) = << >>
    <3>1. (IF k < Len(Sorted({})) THEN k ELSE Len(Sorted({}))) = 0
      BY <2>3
    <3> QED
      BY <3>1 DEF Hits
  <2>5. Search(q, k, Len(nodes), f) = << >>
    BY <1>2 DEF Search
  <2> QED
    BY <1>1, <2>1, <2>4, <2>5
<1>3. CASE ~ Empty
  <2>1. Beam(q, Walk(q).at, k, Len(nodes), f).best = items
    BY <1>3, WideBeam
  <2>2. Search(q, k, Len(nodes), f) = Hits(Sorted(items), k)
    BY <1>3, <2>1 DEF Search
  <2> QED
    BY <1>1, <2>2
<1> QED
  BY <1>2, <1>3

(* A connected bottom layer makes searches exact. *)
LEMMA ExactSmallSearches == HInv /\ SmallInv => SmallIndexIsExact
<1> SUFFICES ASSUME HInv, SmallInv, Len(nodes) <= 2 * M + 1,
                    NEW q \in Vectors, NEW k \in 1 .. Len(nodes) + 1, NEW f \in Filters
             PROVE  Search(q, k, Len(nodes), f) = SearchExact(q, k, f)
  BY DEF SmallIndexIsExact
<1>1. Connected(nodes, Len(nodes))
  BY DEF SmallInv
<1>2. k \in Nat \ {0}
  OBVIOUS
<1> QED
  BY <1>1, <1>2, SmallSearchExact

(***************************************************************************)
(* hnsw.rs 323-425, hnsw.rs 484-689: as long as no list of layer 0 can     *)
(* have overflowed, tombstones included, a search with ef of the size of   *)
(* the index yields what search_exact does, hit by hit - whatever levels   *)
(* were drawn and whichever neighbors were chosen.                         *)
(***************************************************************************)
THEOREM SmallSearchesAreExact == Spec => []SmallIndexIsExact
BY ExactSmallSearches, HInvHolds, SmallInvHolds, PTL

-----------------------------------------------------------------------------
(* What a trace tells. *)

(* p is the start, or one of the first i edges leads to it and was kept. *)
LedTo(edges, start, p, i) ==
  p = start \/ \E j \in 1 .. i : edges[j].to = p /\ edges[j].status # "rejected"

(* The candidate is the start, or an edge admitted it. *)
LetIn(edges, start, c) ==
  c = start \/ \E j \in 1 .. Len(edges) : /\ edges[j].status = "admitted"
                                          /\ edges[j].to = c.key
                                          /\ edges[j].distance = c.distance

(* An edge leaves a node that was kept, and what it admits is admitted. *)
EdgeTold(g, q, admitted, start, edges, i) ==
  /\ edges[i].status = "admitted" =>
       edges[i].to \in admitted /\ edges[i].distance = Cand(g, q, edges[i].to).distance
  /\ LedTo(edges, start.key, edges[i].from, i - 1)

(***************************************************************************)
(* The edges of a beam say where it has been: there is one for each node   *)
(* it visited but the start, and they account for its frontier and for its *)
(* results.                                                                *)
(***************************************************************************)
Told(g, q, admitted, start, b) ==
  /\ Cardinality(b.visited) = Len(b.edges) + 1
  /\ \A i \in 1 .. Len(b.edges) : EdgeTold(g, q, admitted, start, b.edges, i)
  /\ \A c \in b.frontier : LedTo(b.edges, start.key, c.key, Len(b.edges))
  /\ \A c \in b.best : LetIn(b.edges, start, c)

(* One more edge takes nothing back. *)
LEMMA OneMoreEdge ==
  ASSUME NEW g, NEW q, NEW admitted, NEW start, NEW S, NEW edges \in Seq(S), NEW e \in S
  PROVE  LET more == Append(edges, e) IN
         /\ Len(more) = Len(edges) + 1 /\ more[Len(edges) + 1] = e
         /\ \A p : \A i \in 0 .. Len(edges) :
              LedTo(edges, start.key, p, i) => LedTo(more, start.key, p, i)
         /\ \A p : LedTo(edges, start.key, p, Len(edges)) => LedTo(more, start.key, p, Len(more))
         /\ \A c : LetIn(edges, start, c) => LetIn(more, start, c)
         /\ \A i \in 1 .. Len(edges) : EdgeTold(g, q, admitted, start, edges, i) =>
                                       EdgeTold(g, q, admitted, start, more, i)
<1> DEFINE more == Append(edges, e)
           n == Len(edges)
<1>1. n \in Nat /\ Len(more) = n + 1 /\ more[n + 1] = e
      /\ \A i \in 1 .. n : more[i] = edges[i]
  OBVIOUS
<1> HIDE DEF more, n
<1>2. ASSUME NEW p, NEW i \in 0 .. n, LedTo(edges, start.key, p, i)
      PROVE  LedTo(more, start.key, p, i)
  <2>1. \A j \in 1 .. i : more[j] = edges[j]
    BY <1>1
  <2> QED
    BY <1>2, <2>1 DEF LedTo
<1>3. ASSUME NEW p, LedTo(edges, start.key, p, n)
      PROVE  LedTo(more, start.key, p, Len(more))
  <2>1. \A j \in 1 .. n : j \in 1 .. Len(more)
    BY <1>1
  <2> QED
    BY <1>1, <1>3, <2>1 DEF LedTo
<1>4. ASSUME NEW c, LetIn(edges, start, c)
      PROVE  LetIn(more, start, c)
  <2>1. \A j \in 1 .. n : j \in 1 .. Len(more)
    BY <1>1
  <2> QED
    BY <1>1, <1>4, <2>1 DEF LetIn, n
<1>5. ASSUME NEW i \in 1 .. n, EdgeTold(g, q, admitted, start, edges, i)
      PROVE  EdgeTold(g, q, admitted, start, more, i)
  <2>1. i - 1 \in 0 .. n /\ more[i] = edges[i]
    BY <1>1
  <2>2. LedTo(more, start.key, edges[i].from, i - 1)
    BY <1>2, <1>5, <2>1 DEF EdgeTold
  <2> QED
    BY <1>5, <2>1, <2>2 DEF EdgeTold
<1> QED
  BY <1>1, <1>2, <1>3, <1>4, <1>5 DEF more, n

LEMMA EvaluateTold ==
  ASSUME NEW g, NEW layer \in Nat, NEW K, Closed(g, layer, K), NEW q \in Vectors,
         NEW ef \in Nat \ {0}, NEW admitted, NEW some \in BOOLEAN,
         NEW b \in Beams(g, q, K, admitted, some), NEW from \in K, NEW nb \in K, NEW start,
         Told(g, q, admitted, start, b), LedTo(b.edges, start.key, from, Len(b.edges))
  PROVE  LET next == Evaluate(g, q, ef, admitted, from, b, nb) IN
         /\ Told(g, q, admitted, start, next)
         /\ LedTo(next.edges, start.key, from, Len(next.edges))
<1> DEFINE c == Cand(g, q, nb)
           kept == Room(b, ef) \/ CloserThanWorst(c, b.best)
           grown == b.best \cup {c}
           status == IF ~ kept THEN "rejected" ELSE IF nb \in admitted THEN "admitted" ELSE "routed"
           e == Edge(from, c, status)
           more == Append(b.edges, e)
           n == Len(b.edges)
           next == Evaluate(g, q, ef, admitted, from, b, nb)
<1>1. /\ b.visited \in SUBSET K /\ b.edges \in Seq(EdgesIn(K)) /\ n \in Nat
      /\ Cardinality(b.visited) = n + 1
      /\ \A i \in 1 .. n : EdgeTold(g, q, admitted, start, b.edges, i)
      /\ \A x \in b.frontier : LedTo(b.edges, start.key, x.key, n)
      /\ \A x \in b.best : LetIn(b.edges, start, x)
      /\ LedTo(b.edges, start.key, from, n)
  BY DEF Beams, Told
<1>2. c.key = nb /\ c.distance \in Nat
  <2>1. K \in SUBSET Nat /\ \A p \in K : g[p].vector \in Vectors
    BY CandsFinite
  <2> HIDE DEF c
  <2> QED
    BY <2>1, CandFacts DEF c
<1>3. /\ status \in {"rejected", "admitted", "routed"} /\ (status = "admitted" => nb \in admitted)
      /\ (kept => status # "rejected")
  OBVIOUS
<1>4. CASE nb \in b.visited
  <2>1. next = b
    BY <1>4 DEF Evaluate
  <2> HIDE DEF next
  <2> QED
    BY <2>1 DEF next
<1>5. CASE nb \notin b.visited
  <2>1. /\ next.visited = b.visited \cup {nb}
        /\ next.frontier = IF kept THEN b.frontier \cup {c} ELSE b.frontier
        /\ next.best \subseteq b.best \cup {c} /\ (status # "admitted" => next.best = b.best)
        /\ next.edges = more
    BY <1>5 DEF Evaluate
  <2> HIDE DEF next, c, kept, status
  <2>2. e \in EdgesIn(K) /\ e.from = from /\ e.to = nb /\ e.distance = c.distance
        /\ e.status = status
    BY <1>2, <1>3 DEF Edge, EdgesIn
  <2> HIDE DEF e
  <2>3. /\ Len(more) = n + 1 /\ more[n + 1] = e
        /\ \A p : \A i \in 0 .. n :
             LedTo(b.edges, start.key, p, i) => LedTo(more, start.key, p, i)
        /\ \A p : LedTo(b.edges, start.key, p, n) => LedTo(more, start.key, p, Len(more))
        /\ \A x : LetIn(b.edges, start, x) => LetIn(more, start, x)
        /\ \A i \in 1 .. n : EdgeTold(g, q, admitted, start, b.edges, i) =>
                             EdgeTold(g, q, admitted, start, more, i)
    BY <1>1, <2>2, OneMoreEdge
  <2> HIDE DEF more, n
  <2>4. Cardinality(next.visited) = Len(next.edges) + 1
    <3>1. IsFiniteSet(b.visited)
      <4>1. K \subseteq 1 .. Len(g) /\ Len(g) \in Nat
        BY DEF Closed
      <4>2. IsFiniteSet(1 .. Len(g))
        BY <4>1, FS_Interval
      <4>3. b.visited \in SUBSET (1 .. Len(g))
        BY <1>1, <4>1
      <4> QED
        BY <4>2, <4>3, FS_Subset
    <3>2. Cardinality(b.visited \cup {nb}) = Cardinality(b.visited) + 1
      BY <1>5, <3>1, FS_AddElement
    <3> QED
      BY <1>1, <2>1, <2>3, <3>2
  <2>5. EdgeTold(g, q, admitted, start, more, n + 1)
    <3>1. more[n + 1].status = "admitted" => more[n + 1].to \in admitted
                            /\ more[n + 1].distance = Cand(g, q, more[n + 1].to).distance
      BY <1>3, <2>2, <2>3 DEF c
    <3>2. LedTo(more, start.key, more[n + 1].from, (n + 1) - 1)
      <4>1. n \in 0 .. n /\ (n + 1) - 1 = n
        BY <1>1
      <4> QED
        BY <1>1, <2>2, <2>3, <4>1
    <3> QED
      BY <3>1, <3>2 DEF EdgeTold
  <2>6. \A i \in 1 .. n + 1 : EdgeTold(g, q, admitted, start, more, i)
    BY <1>1, <2>3, <2>5
  <2>7. n + 1 \in 1 .. Len(more)
    BY <1>1, <2>3
  <2>8. ASSUME NEW x \in next.frontier
        PROVE  LedTo(more, start.key, x.key, Len(more))
    <3>1. CASE x \in b.frontier
      BY <1>1, <2>3, <3>1
    <3>2. CASE kept /\ x = c
      <4>1. more[n + 1].to = x.key /\ more[n + 1].status # "rejected"
        BY <1>2, <1>3, <2>2, <2>3, <3>2
      <4> QED
        BY <2>7, <4>1 DEF LedTo
    <3> QED
      BY <2>1, <2>8, <3>1, <3>2
  <2>9. ASSUME NEW x \in next.best
        PROVE  LetIn(more, start, x)
    <3>1. CASE x \in b.best
      BY <1>1, <2>3, <3>1
    <3>2. CASE status = "admitted" /\ x = c
      <4>1. /\ more[n + 1].to = x.key /\ more[n + 1].status = "admitted"
            /\ more[n + 1].distance = x.distance
        BY <1>2, <2>2, <2>3, <3>2
      <4> QED
        BY <2>7, <4>1 DEF LetIn
    <3> QED
      BY <2>1, <2>9, <3>1, <3>2
  <2>10. Told(g, q, admitted, start, next)
    BY <2>1, <2>3, <2>4, <2>6, <2>8, <2>9 DEF Told
  <2>11. LedTo(next.edges, start.key, from, Len(next.edges))
    BY <1>1, <2>1, <2>3
  <2> QED
    BY <2>10, <2>11 DEF next
<1> QED
  BY <1>4, <1>5

LEMMA ExpandTold ==
  ASSUME NEW g, NEW layer \in Nat, NEW K, Closed(g, layer, K), NEW q \in Vectors,
         NEW ef \in Nat \ {0}, NEW admitted, NEW some \in BOOLEAN,
         NEW b \in Beams(g, q, K, admitted, some), NEW start, Told(g, q, admitted, start, b)
  PROVE  Told(g, q, admitted, start, Expand(g, q, ef, layer, admitted, b))
<1> DEFINE from == Closest(b).key
           seq == Nbrs(g, from, layer)
           B == Beams(g, q, K, admitted, some)
           F == {x \in B : /\ Told(g, q, admitted, start, x)
                           /\ LedTo(x.edges, start.key, from, Len(x.edges))}
           stop == ~ Room(b, ef) /\ FartherThanWorst(Closest(b), b.best)
           last == EvaluateAll(g, q, ef, admitted, from, Popped(b), seq)
           next == Expand(g, q, ef, layer, admitted, b)
<1>1. next = IF b.frontier = {} THEN b
             ELSE IF stop THEN [b EXCEPT !.frontier = {}] ELSE last
  BY DEF Expand, EvaluateAll, Closest, Popped
<1>2. CASE b.frontier = {}
  <2>1. next = b
    BY <1>1, <1>2
  <2> HIDE DEF next
  <2> QED
    BY <2>1 DEF next
<1>3. CASE b.frontier # {} /\ stop
  <2> DEFINE ended == [b EXCEPT !.frontier = {}]
  <2>1. next = ended
    <3> HIDE DEF next, stop
    <3> QED
      BY <1>1, <1>3
  <2>2. /\ ended.visited = b.visited /\ ended.frontier = {} /\ ended.best = b.best
        /\ ended.edges = b.edges
    BY DEF Beams
  <2> HIDE DEF next, ended
  <2>3. Told(g, q, admitted, start, ended)
    BY <2>2 DEF Told
  <2> QED
    BY <2>1, <2>3 DEF next
<1>4. CASE b.frontier # {} /\ ~ stop
  <2>1. next = last
    <3> HIDE DEF next, last, stop
    <3> QED
      BY <1>1, <1>4
  <2>2. /\ from \in K /\ Closest(b) \in b.frontier /\ Popped(b) \in B
        /\ Popped(b).visited = b.visited /\ Popped(b).best = b.best
        /\ Popped(b).frontier \subseteq b.frontier /\ Popped(b).edges = b.edges
    <3>1. Pops(g, q, K, b) /\ Popped(b) \in B
      BY <1>4, ClosestFacts
    <3> QED
      BY <3>1 DEF Pops
  <2>3. LedTo(b.edges, start.key, from, Len(b.edges))
    BY <2>2 DEF Told
  <2>4. Popped(b) \in F
    <3>1. Told(g, q, admitted, start, Popped(b))
      BY <2>2 DEF Told
    <3> QED
      BY <2>2, <2>3, <3>1
  <2> HIDE DEF from
  <2>5. seq \in Seq(K) /\ Len(seq) \in Nat /\ \A i \in 1 .. Len(seq) : seq[i] \in K
    <3>1. seq \in Seq(K)
      BY <2>2 DEF Closed
    <3> HIDE DEF seq
    <3> QED
      BY <3>1
  <2> DEFINE T == [i \in 0 .. Len(seq) |-> F]
  <2>6. Popped(b) \in T[0]
    BY <2>4, <2>5
  <2>7. ASSUME NEW i \in 1 .. Len(seq), NEW x \in B \cap T[i - 1]
        PROVE  Evaluate(g, q, ef, admitted, from, x, seq[i]) \in T[i]
    <3> DEFINE y == Evaluate(g, q, ef, admitted, from, x, seq[i])
    <3>1. /\ x \in B /\ Told(g, q, admitted, start, x)
          /\ LedTo(x.edges, start.key, from, Len(x.edges))
      BY <2>5, <2>7
    <3>2. y \in B
      BY <2>2, <2>5, <3>1, EvaluateType
    <3>3. Told(g, q, admitted, start, y) /\ LedTo(y.edges, start.key, from, Len(y.edges))
      BY <2>2, <2>5, <3>1, EvaluateTold
    <3> HIDE DEF y
    <3>4. y \in F
      BY <3>2, <3>3
    <3> HIDE DEF F
    <3> QED
      BY <2>5, <3>4 DEF y
  <2> HIDE DEF T
  <2>8. last \in B \cap T[Len(seq)]
    <3> HIDE DEF seq, F
    <3> QED
      BY <2>2, <2>5, <2>6, <2>7, EvaluateAllKeeps
  <2>9. last \in F
    <3> HIDE DEF last, F
    <3> QED
      BY <2>5, <2>8 DEF T
  <2> QED
    BY <2>1, <2>9
<1> QED
  BY <1>2, <1>3, <1>4

LEMMA BeamTold ==
  ASSUME NEW g, NEW layer \in Nat, NEW K, Closed(g, layer, K), NEW q \in Vectors,
         NEW ef \in Nat \ {0}, NEW admitted, NEW start \in CandsOf(g, q, K)
  PROVE  LET beam == BeamSearch(g, q, start, ef, layer, admitted) IN
         /\ Told(g, q, admitted, start, beam)
         /\ beam \in Beams(g, q, K, admitted, start.key \in admitted)
<1> DEFINE B == Beams(g, q, K, admitted, start.key \in admitted)
           F == {x \in B : Told(g, q, admitted, start, x)}
           C == [i \in 0 .. Len(g) + 1 |-> F]
           base == StartBeam(start, admitted)
           beam == BeamSearch(g, q, start, ef, layer, admitted)
<1>1. Len(g) \in Nat
  BY DEF Closed
<1>2. base \in F
  <2>1. base \in B
    BY StartBeamType
  <2>2. /\ base.visited = {start.key} /\ base.frontier = {start} /\ base.best \subseteq {start}
        /\ base.edges = << >>
    BY DEF StartBeam
  <2> HIDE DEF base
  <2>3. Cardinality({start.key}) = 1 /\ Len(<< >>) = 0
    BY FS_Singleton
  <2>4. Told(g, q, admitted, start, base)
    BY <2>2, <2>3 DEF Told, LedTo, LetIn
  <2> QED
    BY <2>1, <2>4
<1>3. base \in C[0]
  BY <1>1, <1>2
<1>4. \A x \in F : Expand(g, q, ef, layer, admitted, x) \in F
  <2> SUFFICES ASSUME NEW x \in F PROVE Expand(g, q, ef, layer, admitted, x) \in F
    OBVIOUS
  <2> DEFINE some == start.key \in admitted
  <2>1. x \in Beams(g, q, K, admitted, some) /\ Told(g, q, admitted, start, x) /\ some \in BOOLEAN
    OBVIOUS
  <2> HIDE DEF some
  <2>2. /\ Expand(g, q, ef, layer, admitted, x) \in Beams(g, q, K, admitted, some)
        /\ Told(g, q, admitted, start, Expand(g, q, ef, layer, admitted, x))
    BY <2>1, ExpandType, ExpandTold
  <2> QED
    BY <2>2 DEF some
<1>5. \A i \in 1 .. Len(g) + 1 : \A x \in B \cap C[i - 1] :
        Expand(g, q, ef, layer, admitted, x) \in C[i]
  <2>1. \A i \in 1 .. Len(g) + 1 : C[i - 1] = F /\ C[i] = F
    BY <1>1
  <2> HIDE DEF C, F, B
  <2> QED
    BY <1>4, <2>1
<1> HIDE DEF C
<1>6. beam \in B \cap C[Len(g) + 1]
  <2> HIDE DEF F, base
  <2> QED
    BY <1>3, <1>5, BeamSearchKeeps DEF base
<1>7. beam \in F
  <2> HIDE DEF beam, F
  <2> QED
    BY <1>1, <1>6 DEF C
<1> HIDE DEF beam
<1> QED
  BY <1>7 DEF beam

LEMMA WalkFacts ==
  ASSUME HInv, ~ Empty, NEW q \in Vectors
  PROVE  /\ Walk(q) \in Walks(nodes, q, Positions)
         /\ Hopped(Walk(q), Cand(nodes, q, entry_point), max_layer, 1)
<1> DEFINE n == Len(nodes)
           end == IF max_layer < 1 THEN max_layer ELSE 1
<1>1. LinkedUpTo(nodes, n) /\ 1 \in Nat
  BY DEF HInv
<1>2. max_layer \in Nat /\ entry_point \in OnLayer(nodes, max_layer, n)
  BY HnswAssumption DEF HInv, EntryInv, EntryIsHighest, Empty, OnLayer, Positions
<1>3. /\ Walk(q) \in Walks(nodes, q, OnLayer(nodes, end, n))
      /\ Hopped(Walk(q), Cand(nodes, q, entry_point), max_layer, 1)
  BY <1>1, <1>2, DescendOnLayers DEF Walk
<1>4. OnLayer(nodes, end, n) \subseteq Positions
  BY DEF OnLayer, Positions
<1> HIDE DEF end
<1>5. Walks(nodes, q, OnLayer(nodes, end, n)) \subseteq Walks(nodes, q, Positions)
  BY <1>4, WalksMono
<1> QED
  BY <1>3, <1>5

(* A hop or an edge with the ids of its nodes. *)
ById(e) == [e EXCEPT !.from = nodes[@].id, !.to = nodes[@].id]

TraceOf(trace, q, walk, beam) ==
  /\ trace.entry = {Hit(Cand(nodes, q, entry_point))} /\ trace.max_layer = max_layer
  /\ trace.descent = [i \in 1 .. Len(walk.hops) |-> ById(walk.hops[i])]
  /\ trace.beam = [i \in 1 .. Len(beam.edges) |-> ById(beam.edges[i])]
  /\ trace.visited = Len(beam.edges) + 1
  /\ trace.distance_evals = walk.evals + Len(beam.edges)

LEMMA TraceFields ==
  ASSUME NEW q, NEW walk, NEW beam
  PROVE  TraceOf(Trace(q, walk, beam), q, walk, beam)
BY DEF TraceOf, Trace, ById

(* The hops of the trace descend from the entry, to the node the walk ends at. *)
LEMMA DescentTold ==
  ASSUME NEW q, NEW walk \in Walks(nodes, q, Positions), NEW beam,
         Hopped(walk, Cand(nodes, q, entry_point), max_layer, 1)
  PROVE  LET trace == Trace(q, walk, beam)
             entry == Hit(Cand(nodes, q, entry_point)) IN
         /\ DescendsFrom(trace, entry) /\ StartId(trace, entry) = nodes[walk.at.key].id
<1> DEFINE trace == Trace(q, walk, beam)
           first == Cand(nodes, q, entry_point)
           entry == Hit(first)
           n == Len(walk.hops)
           Last(i) == LastHop(walk, first, max_layer, i)
<1>1. /\ walk.hops \in Seq(HopsIn(Positions)) /\ n \in Nat
      /\ \A i \in 1 .. n : walk.hops[i] \in HopsIn(Positions)
  BY DEF Walks
<1>2. /\ trace.descent = [i \in 1 .. n |-> ById(walk.hops[i])]
      /\ trace.max_layer = max_layer
  <2>1. TraceOf(trace, q, walk, beam)
    BY TraceFields
  <2> HIDE DEF trace
  <2> QED
    BY <2>1 DEF TraceOf
<1> HIDE DEF trace
<1>3. entry.id = nodes[first.key].id /\ entry.distance = first.distance
  BY DEF Hit
<1> HIDE DEF first, entry, n
<1>4. Len(trace.descent) = n /\ \A i \in 1 .. n : trace.descent[i] = ById(walk.hops[i])
  BY <1>1, <1>2
<1>5. ASSUME NEW i \in 1 .. n
      PROVE  /\ trace.descent[i].from = nodes[walk.hops[i].from].id
             /\ trace.descent[i].to = nodes[walk.hops[i].to].id
             /\ trace.descent[i].distance = walk.hops[i].distance
             /\ trace.descent[i].layer = walk.hops[i].layer
  <2>1. walk.hops[i] \in HopsIn(Positions) /\ trace.descent[i] = ById(walk.hops[i])
    BY <1>1, <1>4
  <2> QED
    BY <2>1 DEF HopsIn, ById
<1>6. ASSUME NEW i \in 0 .. n
      PROVE  /\ (IF i = 0 THEN entry.id ELSE trace.descent[i].to) = nodes[Last(i).to].id
             /\ (IF i = 0 THEN entry.distance ELSE trace.descent[i].distance) = Last(i).distance
             /\ (IF i = 0 THEN trace.max_layer ELSE trace.descent[i].layer) = Last(i).layer
  <2>1. CASE i = 0
    BY <1>2, <1>3, <2>1 DEF LastHop
  <2>2. CASE i # 0
    <3>1. i \in 1 .. n
      BY <1>1, <2>2
    <3> QED
      BY <1>5, <2>2, <3>1 DEF LastHop
  <2> QED
    BY <2>1, <2>2
<1>7. /\ \A i \in 1 .. n : /\ walk.hops[i].from = Last(i - 1).to
                           /\ walk.hops[i].distance < Last(i - 1).distance
                           /\ walk.hops[i].layer \in 1 .. Last(i - 1).layer
      /\ walk.at.key = Last(n).to
  BY DEF Hopped, n, first
<1> HIDE DEF Last
<1>8. ASSUME NEW i \in 1 .. n
      PROVE  LET hop == trace.descent[i] IN
             /\ hop.from = IF i = 1 THEN entry.id ELSE trace.descent[i - 1].to
             /\ hop.distance < IF i = 1 THEN entry.distance ELSE trace.descent[i - 1].distance
             /\ hop.layer \in 1 .. IF i = 1 THEN trace.max_layer ELSE trace.descent[i - 1].layer
  <2>1. i - 1 \in 0 .. n /\ (i = 1 <=> i - 1 = 0)
    BY <1>1
  <2>2. /\ (IF i = 1 THEN entry.id ELSE trace.descent[i - 1].to) = nodes[Last(i - 1).to].id
        /\ (IF i = 1 THEN entry.distance ELSE trace.descent[i - 1].distance) = Last(i - 1).distance
        /\ (IF i = 1 THEN trace.max_layer ELSE trace.descent[i - 1].layer) = Last(i - 1).layer
    BY <1>6, <2>1
  <2> QED
    BY <1>5, <1>7, <2>2
<1>9. DescendsFrom(trace, entry)
  BY <1>4, <1>8 DEF DescendsFrom
<1>10. StartId(trace, entry) = nodes[walk.at.key].id
  <2>1. n \in 0 .. n /\ (trace.descent = << >> <=> n = 0)
    <3>1. CASE n = 0
      <4>1. trace.descent = << >>
        BY <1>2, <3>1
      <4> QED
        BY <3>1, <4>1
    <3>2. CASE n # 0
      <4>1. Len(<< >>) = 0
        OBVIOUS
      <4> QED
        BY <1>1, <1>4, <3>2, <4>1
    <3> QED
      BY <3>1, <3>2
  <2> QED
    BY <1>4, <1>6, <1>7, <2>1 DEF StartId
<1> QED
  BY <1>9, <1>10 DEF trace, entry, first

(* So do its edges, and its hits. *)
LEMMA SpreadTold ==
  ASSUME HInv, NEW q \in Vectors, NEW f, NEW walk, NEW beam, NEW start,
         NEW some \in BOOLEAN,
         beam \in Beams(nodes, q, Positions, {p \in Positions : Admitted(p, f)}, some),
         Told(nodes, q, {p \in Positions : Admitted(p, f)}, start, beam)
  PROVE  LET trace == Trace(q, walk, beam) IN
         /\ SpreadsFrom(q, trace, nodes[start.key].id)
         /\ \A c \in beam.best : Explained(trace, nodes[start.key].id, Hit(c))
         /\ trace.visited <= Len(nodes)
<1> DEFINE admitted == {p \in Positions : Admitted(p, f)}
           trace == Trace(q, walk, beam)
           n == Len(beam.edges)
           id == nodes[start.key].id
<1>1. /\ beam.edges \in Seq(EdgesIn(Positions)) /\ n \in Nat
      /\ \A i \in 1 .. n : beam.edges[i] \in EdgesIn(Positions)
      /\ beam.visited \in SUBSET Positions
  BY DEF Beams
<1>2. trace.beam = [i \in 1 .. n |-> ById(beam.edges[i])] /\ trace.visited = n + 1
  <2>1. TraceOf(trace, q, walk, beam)
    BY TraceFields
  <2> HIDE DEF trace
  <2> QED
    BY <2>1 DEF TraceOf
<1>3. /\ Cardinality(beam.visited) = n + 1
      /\ \A i \in 1 .. n : EdgeTold(nodes, q, admitted, start, beam.edges, i)
      /\ \A c \in beam.best : LetIn(beam.edges, start, c)
  BY DEF Told
<1> HIDE DEF trace, admitted
<1>4. ASSUME NEW i \in 1 .. n
      PROVE  /\ trace.beam[i].from = nodes[beam.edges[i].from].id
             /\ trace.beam[i].to = nodes[beam.edges[i].to].id
             /\ trace.beam[i].distance = beam.edges[i].distance
             /\ trace.beam[i].status = beam.edges[i].status
  <2>1. beam.edges[i] \in EdgesIn(Positions) /\ trace.beam[i] = ById(beam.edges[i])
    BY <1>1, <1>2
  <2> QED
    BY <2>1 DEF EdgesIn, ById
<1>5. Len(trace.beam) = n
  <2> HIDE DEF n
  <2> QED
    BY <1>1, <1>2
<1>6. ASSUME NEW i \in 1 .. n, trace.beam[i].status = "admitted"
      PROVE  /\ Live(trace.beam[i].to)
             /\ trace.beam[i].distance = Dist(q, nodes[id_to_pos[trace.beam[i].to]].vector)
  <2> DEFINE p == beam.edges[i].to
  <2>1. p \in admitted /\ beam.edges[i].distance = Cand(nodes, q, p).distance
    BY <1>3, <1>4, <1>6 DEF EdgeTold
  <2>2. p \in Positions /\ ~ nodes[p].deleted
    BY <2>1 DEF admitted, Admitted
  <2> HIDE DEF p
  <2>3. nodes[p].id \in DOMAIN id_to_pos /\ id_to_pos[nodes[p].id] = p
    BY <2>2 DEF HInv, LiveNodesAgree
  <2>4. Cand(nodes, q, p).distance = Dist(q, nodes[p].vector)
    BY DEF Cand, Item
  <2>5. trace.beam[i].to = nodes[p].id /\ trace.beam[i].distance = beam.edges[i].distance
    BY <1>4 DEF p
  <2> QED
    BY <2>1, <2>2, <2>3, <2>4, <2>5 DEF Live
<1>7. ASSUME NEW i \in 1 .. n
      PROVE  \/ trace.beam[i].from = id
             \/ \E j \in 1 .. i - 1 : /\ trace.beam[j].to = trace.beam[i].from
                                      /\ trace.beam[j].status # "rejected"
  <2>1. LedTo(beam.edges, start.key, beam.edges[i].from, i - 1)
    BY <1>3 DEF EdgeTold
  <2>2. CASE beam.edges[i].from = start.key
    BY <1>4, <2>2
  <2>3. ASSUME NEW j \in 1 .. i - 1, beam.edges[j].to = beam.edges[i].from,
               beam.edges[j].status # "rejected"
        PROVE  trace.beam[j].to = trace.beam[i].from /\ trace.beam[j].status # "rejected"
    <3>1. j \in 1 .. n
      BY <1>1
    <3> QED
      BY <1>4, <2>3, <3>1
  <2> QED
    BY <2>1, <2>2, <2>3 DEF LedTo
<1>8. SpreadsFrom(q, trace, id)
  <2> HIDE DEF n, id
  <2> QED
    BY <1>5, <1>6, <1>7 DEF SpreadsFrom
<1>9. ASSUME NEW c \in beam.best
      PROVE  Explained(trace, id, Hit(c))
  <2>1. Hit(c).id = nodes[c.key].id /\ Hit(c).distance = c.distance
    BY DEF Hit
  <2>2. CASE c = start
    BY <2>1, <2>2 DEF Explained
  <2>3. CASE c # start
    <3>1. PICK j \in 1 .. n : /\ beam.edges[j].status = "admitted" /\ beam.edges[j].to = c.key
                              /\ beam.edges[j].distance = c.distance
      BY <1>3, <2>3 DEF LetIn
    <3>2. /\ trace.beam[j].status = "admitted" /\ trace.beam[j].to = Hit(c).id
          /\ trace.beam[j].distance = Hit(c).distance
      BY <1>4, <2>1, <3>1
    <3> HIDE DEF n, id
    <3> QED
      BY <1>5, <3>2 DEF Explained
  <2> QED
    BY <2>2, <2>3
<1>10. trace.visited <= Len(nodes)
  <2>1. Len(nodes) \in Nat
    BY NodeFacts DEF HInv
  <2>2. IsFiniteSet(1 .. Len(nodes)) /\ Cardinality(1 .. Len(nodes)) = Len(nodes)
    <3>1. \A m \in Nat : IsFiniteSet(1 .. m) /\ Cardinality(1 .. m) = m
      <4> SUFFICES ASSUME NEW m \in Nat PROVE IsFiniteSet(1 .. m) /\ Cardinality(1 .. m) = m
        OBVIOUS
      <4>1. /\ IsFiniteSet(1 .. m)
            /\ Cardinality(1 .. m) = IF 1 > m THEN 0 ELSE (m - 1) + 1
        BY FS_Interval
      <4> QED
        BY <4>1
    <3> QED
      BY <2>1, <3>1
  <2>3. Cardinality(beam.visited) <= Cardinality(1 .. Len(nodes))
    <3>1. beam.visited \in SUBSET (1 .. Len(nodes))
      BY <1>1 DEF Positions
    <3> QED
      BY <2>2, <3>1, FS_Subset
  <2> QED
    BY <1>2, <1>3, <2>2, <2>3
<1> QED
  BY <1>8, <1>9, <1>10 DEF trace

LEMMA TraceTold ==
  ASSUME HInv, ~ Empty, NEW q \in Vectors, NEW f
  PROVE  LET traced == SearchTraced(q, 1, 2, f)
             trace == traced.trace
             entry == Hit(Cand(nodes, q, entry_point))
             start == StartId(trace, entry) IN
         /\ trace.entry = {entry}
         /\ trace.visited <= Len(nodes) /\ trace.visited <= trace.distance_evals
         /\ DescendsFrom(trace, entry) /\ SpreadsFrom(q, trace, start)
         /\ \A i \in 1 .. Len(traced.hits) : Explained(trace, start, traced.hits[i])
<1> DEFINE admitted == {p \in Positions : Admitted(p, f)}
           walk == Walk(q)
           at == walk.at
           beam == Beam(q, at, 1, 2, f)
           some == at.key \in admitted
           traced == SearchTraced(q, 1, 2, f)
           trace == Trace(q, walk, beam)
           entry == Hit(Cand(nodes, q, entry_point))
           start == StartId(trace, entry)
<1>1. traced = [hits |-> Hits(Sorted(beam.best), 1), trace |-> trace]
  BY DEF SearchTraced
<1>2. /\ walk \in Walks(nodes, q, Positions)
      /\ Hopped(walk, Cand(nodes, q, entry_point), max_layer, 1)
  BY WalkFacts
<1>3. Closed(nodes, 0, Positions) /\ at \in CandsOf(nodes, q, Positions)
  <2>1. 1 \in Nat /\ 2 \in Nat \ {0}
    OBVIOUS
  <2>2. Closed(nodes, 0, Positions)
    BY <2>1, BeamFacts
  <2> HIDE DEF walk
  <2> QED
    BY <1>2, <2>2 DEF Walks
<1>4. beam = BeamSearch(nodes, q, at, 2, 0, admitted)
  BY DEF Beam
<1> HIDE DEF walk, at, beam, admitted, traced
<1>5. Told(nodes, q, admitted, at, beam) /\ beam \in Beams(nodes, q, Positions, admitted, some)
  BY <1>3, <1>4, BeamTold
<1> HIDE DEF trace, entry
<1>6. DescendsFrom(trace, entry) /\ start = nodes[at.key].id
  BY <1>2, DescentTold DEF trace, entry, at
<1> HIDE DEF start
<1>7. /\ SpreadsFrom(q, trace, start) /\ \A c \in beam.best : Explained(trace, start, Hit(c))
      /\ trace.visited <= Len(nodes)
  <2>1. some \in BOOLEAN
    OBVIOUS
  <2> HIDE DEF some
  <2> QED
    BY <1>5, <1>6, <2>1, SpreadTold DEF trace, admitted
<1>8. trace.visited <= trace.distance_evals
  <2>1. walk.evals \in Nat /\ walk.evals >= 1
    BY <1>2 DEF Walks, Hopped
  <2>2. Len(beam.edges) \in Nat
    BY <1>5 DEF Beams
  <2>3. trace.visited = Len(beam.edges) + 1 /\ trace.distance_evals = walk.evals + Len(beam.edges)
    <3>1. TraceOf(trace, q, walk, beam)
      BY TraceFields DEF trace
    <3> QED
      BY <3>1 DEF TraceOf
  <2> QED
    BY <2>1, <2>2, <2>3
<1>9. trace.entry = {entry}
  <2>1. TraceOf(trace, q, walk, beam)
    BY TraceFields DEF trace
  <2> QED
    BY <2>1 DEF TraceOf, entry
<1>10. ASSUME NEW i \in 1 .. Len(traced.hits)
       PROVE  Explained(trace, start, traced.hits[i])
  <2> DEFINE best == beam.best
             s == Sorted(best)
             n == Cardinality(best)
  <2>1. IsFiniteSet(best) /\ best \subseteq ItemSet
    <3>1. best \in SUBSET CandsOf(nodes, q, Positions)
      BY <1>5 DEF Beams, CandsOf
    <3> QED
      BY <1>3, <3>1, CandsFinite
  <2>2. n \in Nat /\ Len(s) = n /\ \A j \in 1 .. n : s[j] \in best
    BY <2>1, SortedFacts, Ranks
  <2>3. traced.hits = Hits(s, 1)
    BY <1>1
  <2> HIDE DEF s, best, n
  <2>4. i \in 1 .. n /\ traced.hits[i] = Hit(s[i])
    <3> DEFINE m == IF 1 < n THEN 1 ELSE n
    <3>1. traced.hits = [j \in 1 .. m |-> Hit(s[j])] /\ m \in Nat /\ m <= n
      BY <2>2, <2>3 DEF Hits
    <3> HIDE DEF m
    <3>2. Len(traced.hits) = m
      BY <3>1
    <3> QED
      BY <1>10, <2>2, <3>1, <3>2
  <2> QED
    BY <1>7, <2>2, <2>4 DEF best
<1>11. traced.trace = trace
  BY <1>1
<1> QED
  BY <1>6, <1>7, <1>8, <1>9, <1>10, <1>11 DEF traced, start, entry

(* Traces explain. *)
LEMMA TellingTraces == HInv => TraceTellsTheSearch
<1> SUFFICES ASSUME HInv, NEW q \in Vectors, NEW f \in Filters
             PROVE  LET traced == SearchTraced(q, 1, 2, f)
                        trace == traced.trace
                    IN /\ trace.entry = {} <=> live_count = 0
                       /\ trace.visited <= Len(nodes) /\ trace.visited <= trace.distance_evals
                       /\ \A entry \in trace.entry :
                            LET start == StartId(trace, entry) IN
                            /\ DescendsFrom(trace, entry) /\ SpreadsFrom(q, trace, start)
                            /\ \A i \in 1 .. Len(traced.hits) :
                                 Explained(trace, start, traced.hits[i])
  BY DEF TraceTellsTheSearch
<1> DEFINE traced == SearchTraced(q, 1, 2, f)
           trace == traced.trace
<1>1. CASE Empty
  <2>1. live_count = 0
    <3>1. live_count = Cardinality({p \in Positions : ~ nodes[p].deleted})
      BY DEF HInv, LiveNodesAgree
    <3>2. CASE entry_point = 0
      <4>1. nodes = << >>
        BY <3>2 DEF HInv, EntryInv, EntryIsHighest
      <4>2. Len(nodes) = 0
        BY <4>1
      <4>3. {p \in Positions : ~ nodes[p].deleted} = {}
        BY <4>2 DEF Positions
      <4> QED
        BY <3>1, <4>3, FS_EmptySet
    <3> QED
      BY <1>1, <3>2 DEF Empty
  <2>2. trace.entry = {} /\ trace.visited = 0 /\ trace.distance_evals = 0
    BY <1>1 DEF SearchTraced, NoTrace
  <2>3. Len(nodes) \in Nat
    BY NodeFacts DEF HInv
  <2> HIDE DEF trace
  <2> QED
    BY <2>1, <2>2, <2>3 DEF trace
<1>2. CASE ~ Empty
  <2> DEFINE entry == Hit(Cand(nodes, q, entry_point))
  <2>1. /\ trace.entry = {entry}
        /\ trace.visited <= Len(nodes) /\ trace.visited <= trace.distance_evals
        /\ DescendsFrom(trace, entry) /\ SpreadsFrom(q, trace, StartId(trace, entry))
        /\ \A i \in 1 .. Len(traced.hits) :
             Explained(trace, StartId(trace, entry), traced.hits[i])
    BY <1>2, TraceTold
  <2>2. live_count # 0
    BY <1>2 DEF Empty
  <2> HIDE DEF traced, trace, entry
  <2> QED
    BY <2>1, <2>2 DEF traced, trace
<1> QED
  BY <1>1, <1>2

(***************************************************************************)
(* hnsw.rs:110-177, hnsw.rs 323-425: in every graph that adds and removes  *)
(* can build, a trace explains its search - hops from the entry point      *)
(* down, always closer; a beam of nodes found through nodes it kept, none  *)
(* twice; and hits that are all among what the beam started from or let in *)
(* under the id and at the distance that the trace gives.                  *)
(***************************************************************************)
THEOREM TracesTellTheSearch == Spec => []TraceTellsTheSearch
BY TellingTraces, HInvHolds, PTL

-----------------------------------------------------------------------------
(* The abstract map. *)

(* The id was not live; the others are stored at the nodes they were. *)
LEMMA AddMap ==
  ASSUME HInv, NEW id \in Ids, NEW v \in Vectors, NEW pl \in Payloads, NEW l \in Levels,
         Add(id, v, pl, l)
  PROVE  Points!MapNext
<1> DEFINE n == Len(nodes)
           s == [vector |-> v, payload |-> pl]
<1>1. /\ n \in Nat
      /\ nodes'[n + 1].vector = v /\ nodes'[n + 1].payload = pl /\ nodes'[n + 1].deleted = FALSE
      /\ \A p \in 1 .. n :
           /\ nodes'[p].vector = nodes[p].vector /\ nodes'[p].payload = nodes[p].payload
           /\ nodes'[p].deleted = nodes[p].deleted
  BY AddNodes
<1>2. /\ ~ Live(id)
      /\ id_to_pos' = [x \in DOMAIN id_to_pos \cup {id} |-> IF x = id THEN n + 1 ELSE id_to_pos[x]]
  <2>1. nodes \in Seq(Node)
    BY DEF HInv, LinkedUpTo
  <2>2. Len(Append(nodes, NewNode(id, v, pl, l))) = n + 1
    BY <2>1
  <2> QED
    BY <2>2 DEF Add, Free, TakeOver, NewNode
<1>3. \A x \in DOMAIN id_to_pos : id_to_pos[x] \in 1 .. n
  BY DEF HInv, MapInv, Positions
<1>4. /\ DOMAIN id_to_pos' = DOMAIN id_to_pos \cup {id} /\ id_to_pos'[id] = n + 1
      /\ \A x \in DOMAIN id_to_pos \ {id} : id_to_pos'[x] = id_to_pos[x]
  BY <1>2
<1> DEFINE live == {x \in DOMAIN id_to_pos : ~ nodes[id_to_pos[x]].deleted}
           live2 == {x \in DOMAIN id_to_pos' : ~ nodes'[id_to_pos'[x]].deleted}
<1>5. id \notin live
  BY <1>2 DEF Live
<1>6. \A x \in live : /\ x \in live2
                      /\ nodes'[id_to_pos'[x]].vector = nodes[id_to_pos[x]].vector
                      /\ nodes'[id_to_pos'[x]].payload = nodes[id_to_pos[x]].payload
  BY <1>1, <1>3, <1>4, <1>5
<1>7. /\ id \in live2 /\ nodes'[id_to_pos'[id]].vector = v /\ nodes'[id_to_pos'[id]].payload = pl
  BY <1>1, <1>4
<1>8. live2 = live \cup {id}
  <2>1. ASSUME NEW x \in live2, x # id
        PROVE  x \in live
    BY <1>1, <1>3, <1>4, <2>1
  <2> QED
    BY <1>6, <1>7, <2>1
<1>9. /\ StoredAt = [x \in live |-> [vector |-> nodes[id_to_pos[x]].vector,
                                     payload |-> nodes[id_to_pos[x]].payload]]
      /\ StoredAt' = [x \in live2 |-> [vector |-> nodes'[id_to_pos'[x]].vector,
                                       payload |-> nodes'[id_to_pos'[x]].payload]]
  BY DEF StoredAt, Live
<1> HIDE DEF live, live2
<1>10. DOMAIN StoredAt = live
  BY <1>9
<1>11. StoredAt' = [x \in live \cup {id} |-> IF x = id THEN s ELSE StoredAt[x]]
  <2>1. ASSUME NEW x \in live2
        PROVE  StoredAt'[x] = IF x = id THEN s ELSE StoredAt[x]
    <3>1. StoredAt'[x] = [vector |-> nodes'[id_to_pos'[x]].vector,
                          payload |-> nodes'[id_to_pos'[x]].payload]
      BY <1>9
    <3>2. CASE x = id
      BY <1>7, <3>1, <3>2
    <3>3. CASE x # id
      <4>1. x \in live
        BY <1>8, <3>3
      <4> QED
        BY <1>6, <1>9, <3>1, <3>3, <4>1
    <3> QED
      BY <3>2, <3>3
  <2>2. StoredAt' = [x \in live2 |-> StoredAt'[x]]
    BY <1>9
  <2> QED
    BY <1>8, <2>1, <2>2
<1>12. s \in Points!Stored
  BY DEF Points!Stored
<1> QED
  BY <1>5, <1>10, <1>11, <1>12 DEF Points!MapNext, Points!MapAdd

(* A tombstone is out of sight. *)
LEMMA RemoveMap ==
  ASSUME HInv, NEW id \in Ids, Remove(id)
  PROVE  Points!MapNext
<1> DEFINE n == Len(nodes)
           at == id_to_pos[id]
<1>0. Buried(id, n, at)
  BY RemoveNodes
<1>1. /\ id \in DOMAIN id_to_pos /\ at \in 1 .. n
      /\ nodes[at].deleted = FALSE /\ nodes'[at].deleted = TRUE
      /\ \A p \in 1 .. n : /\ nodes'[p].vector = nodes[p].vector
                           /\ nodes'[p].payload = nodes[p].payload
                           /\ p # at => nodes'[p].deleted = nodes[p].deleted
  BY <1>0 DEF Buried
<1>2. id_to_pos' = id_to_pos
  BY DEF Remove
<1>3. \A x \in DOMAIN id_to_pos : id_to_pos[x] \in 1 .. n /\ nodes[id_to_pos[x]].id = x
  BY DEF HInv, MapInv, Positions
<1> DEFINE live == {x \in DOMAIN id_to_pos : ~ nodes[id_to_pos[x]].deleted}
           live2 == {x \in DOMAIN id_to_pos : ~ nodes'[id_to_pos[x]].deleted}
<1>4. id \in live
  BY <1>1
<1>5. live2 = live \ {id}
  <2>1. \A x \in DOMAIN id_to_pos : x # id => id_to_pos[x] # at
    BY <1>1, <1>3
  <2>2. \A x \in DOMAIN id_to_pos \ {id} : x \in live2 <=> x \in live
    BY <1>1, <1>3, <2>1
  <2>3. id \notin live2
    BY <1>1
  <2> QED
    BY <2>2, <2>3
<1>6. /\ StoredAt = [x \in live |-> [vector |-> nodes[id_to_pos[x]].vector,
                                     payload |-> nodes[id_to_pos[x]].payload]]
      /\ StoredAt' = [x \in live2 |-> [vector |-> nodes'[id_to_pos[x]].vector,
                                       payload |-> nodes'[id_to_pos[x]].payload]]
  BY <1>2 DEF StoredAt, Live
<1>7. \A x \in live2 : /\ nodes'[id_to_pos[x]].vector = nodes[id_to_pos[x]].vector
                       /\ nodes'[id_to_pos[x]].payload = nodes[id_to_pos[x]].payload
  BY <1>1, <1>3
<1> HIDE DEF live, live2
<1>8. DOMAIN StoredAt = live
  BY <1>6
<1>9. StoredAt' = [x \in live \ {id} |-> StoredAt[x]]
  BY <1>5, <1>6, <1>7
<1> QED
  BY <1>4, <1>8, <1>9 DEF Points!MapNext, Points!MapRemove, Points!Restrict

(* An empty map. *)
LEMMA InitMap == Init => Points!MapInit
BY DEF Init, StoredAt, Live, Points!MapInit

(* Each step is one of the map, or none. *)
LEMMA NextMap == HInv /\ [Next]_vars => [Points!MapNext]_StoredAt
<1> SUFFICES ASSUME HInv, [Next]_vars PROVE [Points!MapNext]_StoredAt
  OBVIOUS
<1>1. CASE Next
  BY <1>1, AddMap, RemoveMap DEF Next
<1>2. CASE UNCHANGED vars
  BY <1>2 DEF vars, StoredAt, Live
<1> QED
  BY <1>1, <1>2

(***************************************************************************)
(* index.rs:18-29: behind tombstones and links, the graph index is the     *)
(* same map from ids to vectors and payloads as the flat one.              *)
(***************************************************************************)
THEOREM HnswImplementsMap == Spec => ImplementsMap
BY InitMap, NextMap, HInvHolds, PTL DEF Spec, ImplementsMap, Points!MapSpec, StoredAt

=============================================================================
