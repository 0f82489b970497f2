-------------------------- MODULE FlatIndexProofs --------------------------
(***************************************************************************)
(* Theorems of FlatIndex for every set of ids, vectors and payloads.       *)
(***************************************************************************)
EXTENDS FlatReload, FlatFilters, SnapshotFormatProofs

FInv == TypeOK /\ PositionsAgree

(* swap_remove keeps every entry but one, the last one in a new place. *)
LEMMA SwapRemoveType ==
  ASSUME NEW S, NEW s \in Seq(S), NEW pos \in Nat, pos < Len(s)
  PROVE  /\ SwapRemove(s, pos) \in Seq(S)
         /\ Len(SwapRemove(s, pos)) = Len(s) - 1
         /\ \A i \in 1 .. Len(s) - 1 :
              SwapRemove(s, pos)[i] = IF i = pos + 1 THEN s[Len(s)] ELSE s[i]
  BY DEF SwapRemove

(* Nothing is stored. *)
LEMMA InitFInv == Init => FInv
<1> SUFFICES ASSUME Init PROVE FInv
  OBVIOUS
<1>1. id_to_pos \in [{} -> Nat] /\ {} \in SUBSET Ids /\ entries \in Seq(FlatEntry)
  BY DEF Init
<1>2. TypeOK
  BY <1>1 DEF TypeOK
<1>3. DOMAIN id_to_pos = {} /\ 1 .. Len(entries) = {}
  BY DEF Init
<1> QED
  BY <1>2, <1>3 DEF FInv, PositionsAgree

(* The new entry is the last one, and the map says so. *)
LEMMA AddFInv ==
  ASSUME FInv, NEW id \in Ids, NEW v \in Vectors, NEW pl \in Payloads, Add(id, v, pl)
  PROVE  FInv'
<1> DEFINE e == [id |-> id, vector |-> v, payload |-> pl]
<1> USE DEF FInv, TypeOK, PositionsAgree, Add, Contains, Entry
<1>1. e \in FlatEntry /\ e.id = id
  BY DEF FlatEntry
<1>2. entries' \in Seq(FlatEntry) /\ Len(entries') = Len(entries) + 1
  BY <1>1
<1>3. /\ \A i \in 1 .. Len(entries) : entries'[i] = entries[i]
      /\ entries'[Len(entries) + 1] = e
  BY <1>1
<1>4. /\ DOMAIN id_to_pos' = DOMAIN id_to_pos \cup {id}
      /\ id_to_pos'[id] = Len(entries)
      /\ \A x \in DOMAIN id_to_pos : id_to_pos'[x] = id_to_pos[x]
  BY DEF Put
<1>5. TypeOK'
  <2>1. id_to_pos' \in [DOMAIN id_to_pos \cup {id} -> Nat]
    BY <1>4 DEF Put
  <2>2. DOMAIN id_to_pos \cup {id} \in SUBSET Ids
    OBVIOUS
  <2> QED
    BY <1>2, <2>1, <2>2
<1>6. \A x \in DOMAIN id_to_pos' : id_to_pos'[x] < Len(entries') /\ entries'[id_to_pos'[x] + 1].id = x
  <2>1. id_to_pos'[id] < Len(entries') /\ entries'[id_to_pos'[id] + 1].id = id
    BY <1>1, <1>2, <1>3, <1>4
  <2>2. ASSUME NEW x \in DOMAIN id_to_pos
        PROVE  id_to_pos'[x] < Len(entries') /\ entries'[id_to_pos'[x] + 1].id = x
    BY <1>2, <1>3, <1>4
  <2> QED
    BY <1>4, <2>1, <2>2
<1>7. \A i \in 1 .. Len(entries') : entries'[i].id \in DOMAIN id_to_pos'
                                    /\ id_to_pos'[entries'[i].id] = i - 1
  BY <1>1, <1>2, <1>3, <1>4
<1> QED
  BY <1>5, <1>6, <1>7

(* Three kinds of positions: before, at and after the entry that is removed. *)
LEMMA RemoveFInv ==
  ASSUME FInv, NEW id \in Ids, Remove(id)
  PROVE  FInv'
<1> DEFINE pos == id_to_pos[id]
           last == Len(entries)
           moved == entries[last].id
<1> USE DEF FInv, TypeOK, PositionsAgree, Contains, Entry
<1>1. id \in DOMAIN id_to_pos /\ entries' = SwapRemove(entries, pos)
  BY DEF Remove
<1>2. pos \in Nat /\ pos < last /\ entries[pos + 1].id = id /\ last \in Nat
  BY <1>1
<1>3. entries' \in Seq(FlatEntry) /\ Len(entries') = last - 1
  BY <1>1, <1>2, SwapRemoveType
<1>4. \A i \in 1 .. last - 1 : entries'[i] = IF i = pos + 1 THEN entries[last] ELSE entries[i]
  BY <1>1, <1>2, SwapRemoveType
<1>5. moved \in DOMAIN id_to_pos /\ id_to_pos[moved] = last - 1
  BY <1>2
<1>6. CASE pos = last - 1
  <2>1. id_to_pos' = Without(id_to_pos, id)
    BY <1>1, <1>2, <1>3, <1>6 DEF Remove
  <2>2. /\ DOMAIN id_to_pos' = DOMAIN id_to_pos \ {id}
        /\ \A x \in DOMAIN id_to_pos \ {id} : id_to_pos'[x] = id_to_pos[x]
    BY <2>1 DEF Without, Restrict
  <2>3. ASSUME NEW i \in 1 .. last - 1
        PROVE  entries'[i] = entries[i] /\ entries[i].id # id
    <3>1. i # pos + 1 /\ i \in 1 .. last
      BY <1>2, <1>6
    <3>2. id_to_pos[entries[i].id] = i - 1
      BY <3>1
    <3>3. entries'[i] = entries[i]
      BY <1>4, <3>1
    <3>4. entries[i].id # id
      BY <1>2, <3>1, <3>2
    <3> QED
      BY <3>3, <3>4
  <2>4. TypeOK'
    <3>1. id_to_pos' \in [DOMAIN id_to_pos \ {id} -> Nat]
      BY <2>1 DEF Without, Restrict
    <3> QED
      BY <1>3, <3>1
  <2>5. ASSUME NEW x \in DOMAIN id_to_pos'
        PROVE  id_to_pos'[x] < Len(entries') /\ entries'[id_to_pos'[x] + 1].id = x
    <3>1. x \in DOMAIN id_to_pos /\ x # id /\ id_to_pos'[x] = id_to_pos[x]
      BY <2>2
    <3>2. id_to_pos[x] \in Nat /\ id_to_pos[x] < last /\ entries[id_to_pos[x] + 1].id = x
      BY <3>1
    <3>3. id_to_pos[x] # pos
      BY <1>2, <3>1, <3>2
    <3>4. id_to_pos[x] + 1 \in 1 .. last - 1
      BY <1>2, <1>6, <3>2, <3>3
    <3>5. entries'[id_to_pos[x] + 1] = entries[id_to_pos[x] + 1]
      BY <2>3, <3>4
    <3>6. id_to_pos'[x] < Len(entries')
      BY <1>3, <3>1, <3>2, <3>4
    <3>7. entries'[id_to_pos'[x] + 1].id = x
      BY <3>1, <3>2, <3>5
    <3> QED
      BY <3>6, <3>7
  <2>6. \A i \in 1 .. Len(entries') : entries'[i].id \in DOMAIN id_to_pos'
                                      /\ id_to_pos'[entries'[i].id] = i - 1
    BY <1>3, <2>2, <2>3
  <2> QED
    BY <2>4, <2>5, <2>6
<1>7. CASE pos < last - 1
  <2>0. entries'[pos + 1] = entries[last] /\ moved # id
    <3>1. pos + 1 \in 1 .. last - 1
      BY <1>2, <1>7
    <3>2. entries'[pos + 1] = entries[last]
      BY <1>4, <3>1
    <3>3. id_to_pos[moved] # id_to_pos[id]
      BY <1>2, <1>5, <1>7
    <3> QED
      BY <3>2, <3>3
  <2>1. id_to_pos' = Put(Without(id_to_pos, id), moved, pos)
    BY <1>1, <1>2, <1>3, <1>7, <2>0 DEF Remove
  <2>2. /\ DOMAIN id_to_pos' = DOMAIN id_to_pos \ {id}
        /\ id_to_pos'[moved] = pos
        /\ \A x \in DOMAIN id_to_pos \ {id, moved} : id_to_pos'[x] = id_to_pos[x]
    BY <2>0, <2>1, <1>5 DEF Put, Without, Restrict
  <2>3. TypeOK'
    <3>1. id_to_pos' \in [DOMAIN id_to_pos \ {id} -> Nat]
      BY <1>2, <1>5, <2>0, <2>1 DEF Put, Without, Restrict
    <3> QED
      BY <1>3, <3>1
  <2>4. ASSUME NEW x \in DOMAIN id_to_pos'
        PROVE  id_to_pos'[x] < Len(entries') /\ entries'[id_to_pos'[x] + 1].id = x
    <3>1. CASE x = moved
      <4>1. id_to_pos'[x] = pos
        BY <2>2, <3>1
      <4>2. pos < Len(entries')
        BY <1>2, <1>3, <1>7
      <4>3. entries'[pos + 1].id = x
        BY <2>0, <3>1
      <4> QED
        BY <4>1, <4>2, <4>3
    <3>2. CASE x # moved
      <4>1. x \in DOMAIN id_to_pos /\ x # id /\ id_to_pos'[x] = id_to_pos[x]
        BY <2>2, <3>2
      <4>2. id_to_pos[x] \in Nat /\ id_to_pos[x] < last /\ entries[id_to_pos[x] + 1].id = x
        BY <4>1
      <4>3. id_to_pos[x] # last - 1 /\ id_to_pos[x] # pos
        BY <1>2, <3>2, <4>1, <4>2
      <4>4. id_to_pos[x] + 1 \in 1 .. last - 1
        BY <1>2, <4>2, <4>3
      <4>5. entries'[id_to_pos[x] + 1] = entries[id_to_pos[x] + 1]
        BY <1>2, <1>4, <4>2, <4>3, <4>4
      <4>6. id_to_pos'[x] < Len(entries')
        BY <1>3, <4>1, <4>2, <4>4
      <4>7. entries'[id_to_pos'[x] + 1].id = x
        BY <4>1, <4>2, <4>5
      <4> QED
        BY <4>6, <4>7
    <3> QED
      BY <3>1, <3>2
  <2>5. ASSUME NEW i \in 1 .. Len(entries')
        PROVE  entries'[i].id \in DOMAIN id_to_pos' /\ id_to_pos'[entries'[i].id] = i - 1
    <3>1. CASE i = pos + 1
      <4>1. entries'[i].id = moved
        BY <2>0, <3>1
      <4>2. moved \in DOMAIN id_to_pos' /\ id_to_pos'[moved] = pos
        BY <1>5, <2>0, <2>2
      <4>3. pos = i - 1
        BY <1>2, <3>1
      <4> QED
        BY <4>1, <4>2, <4>3
    <3>2. CASE i # pos + 1
      <4>1. entries'[i] = entries[i] /\ entries[i].id \in DOMAIN id_to_pos
            /\ id_to_pos[entries[i].id] = i - 1 /\ i - 1 # last - 1 /\ i - 1 # pos
        BY <1>2, <1>3, <1>4, <3>2
      <4> QED
        BY <1>5, <2>2, <4>1
    <3> QED
      BY <3>1, <3>2
  <2> QED
    BY <2>3, <2>4, <2>5
<1> QED
  BY <1>2, <1>6, <1>7

(* The invariant is preserved by every step and by stuttering. *)
LEMMA NextFInv == FInv /\ [Next]_vars => FInv'
<1> SUFFICES ASSUME FInv, [Next]_vars PROVE FInv'
  OBVIOUS
<1>1. CASE Next
  BY <1>1, AddFInv, RemoveFInv DEF Next
<1>2. CASE UNCHANGED vars
  BY <1>2 DEF FInv, TypeOK, PositionsAgree, Contains, Entry, vars
<1> QED
  BY <1>1, <1>2

(* flat.rs: entries and positions are what their types say. *)
THEOREM FlatTypeCorrect == Spec => []TypeOK
<1>1. FInv => TypeOK
  BY DEF FInv
<1> QED
  BY <1>1, InitFInv, NextFInv, PTL DEF Spec

(***************************************************************************)
(* flat.rs:81-92: swap_remove and the update of the moved entry's position *)
(* keep the map and the entries in agreement, whatever was added and       *)
(* removed before.                                                         *)
(***************************************************************************)
THEOREM FlatPositionsAgree == Spec => []PositionsAgree
<1>1. FInv => PositionsAgree
  BY DEF FInv
<1> QED
  BY <1>1, InitFInv, NextFInv, PTL DEF Spec

-----------------------------------------------------------------------------
(* Search. *)

(* The items of those of the first i entries that match. *)
Offered(q, f, i) ==
  {ItemOf(entries[j], q) : j \in {x \in 1 .. i : Matches(f, entries[x].payload)}}

(* One entry more is offered to the heap. *)
Scan(q, f, cap, heap, e) == IF Matches(f, e.payload) THEN Offer(heap, cap, ItemOf(e, q)) ELSE heap

ScanAll(q, f, cap) == Lists!FoldLeft(LAMBDA heap, e : Scan(q, f, cap, heap, e), {}, entries)

LEMMA OfferedFacts ==
  ASSUME FInv, NEW q \in Vectors, NEW f, NEW i \in 0 .. Len(entries)
  PROVE  /\ Offered(q, f, i) \in SUBSET ItemSet /\ IsFiniteSet(Offered(q, f, i))
         /\ Cardinality(Offered(q, f, i)) \in Nat /\ Cardinality(Offered(q, f, i)) <= i
<1> DEFINE J == {x \in 1 .. i : Matches(f, entries[x].payload)}
           g == [j \in J |-> ItemOf(entries[j], q)]
<1>1. i \in Nat /\ J \in SUBSET (1 .. i) /\ entries \in Seq(FlatEntry) /\ Len(entries) \in Nat
      /\ J \subseteq 1 .. Len(entries)
  BY DEF FInv, TypeOK
<1>2. IsFiniteSet(1 .. i) /\ Cardinality(1 .. i) = i
  BY <1>1, FS_Interval
<1>3. IsFiniteSet(J) /\ Cardinality(J) <= i
  BY <1>1, <1>2, FS_Subset
<1>4. \A j \in 1 .. Len(entries) : ItemOf(entries[j], q) \in ItemSet
  <2> TAKE j \in 1 .. Len(entries)
  <2>1. entries[j] \in FlatEntry
    BY <1>1
  <2> QED
    BY <2>1, FlatAssumption DEF FlatEntry, ItemOf, Item, ItemSet
<1>5. g \in Surjection(J, Offered(q, f, i))
  BY DEF Surjection, Offered
<1>6. Offered(q, f, i) \in SUBSET ItemSet
  BY <1>1, <1>4 DEF Offered
<1> HIDE DEF g, J
<1>7. IsFiniteSet(Offered(q, f, i)) /\ Cardinality(Offered(q, f, i)) <= Cardinality(J)
  BY <1>3, <1>5, FS_Surjection
<1>8. Cardinality(Offered(q, f, i)) \in Nat /\ Cardinality(J) \in Nat
  BY <1>3, <1>7, FS_CardinalityType
<1> QED
  BY <1>1, <1>3, <1>6, <1>7, <1>8

(* Entries have different ids: what is offered was not offered before. *)
LEMMA ScanKeepsLeast ==
  ASSUME FInv, NEW q \in Vectors, NEW f, NEW cap \in Nat, NEW i \in 1 .. Len(entries), NEW heap,
         KeepsLeast(heap, Offered(q, f, i - 1), cap)
  PROVE  KeepsLeast(Scan(q, f, cap, heap, entries[i]), Offered(q, f, i), cap)
<1> DEFINE x == ItemOf(entries[i], q)
<1>1. /\ Len(entries) \in Nat /\ i - 1 \in 0 .. Len(entries)
      /\ \A j \in 1 .. Len(entries) : entries[j] \in FlatEntry
                                      /\ id_to_pos[entries[j].id] = j - 1
  BY DEF FInv, TypeOK, PositionsAgree
<1>2. 1 .. i = (1 .. i - 1) \cup {i} /\ 1 .. i - 1 \subseteq 1 .. Len(entries) /\ i \notin 1 .. i - 1
  BY <1>1
<1>3. CASE Matches(f, entries[i].payload)
  <2>1. Offered(q, f, i) = Offered(q, f, i - 1) \cup {x}
    BY <1>2, <1>3 DEF Offered
  <2>2. ASSUME x \in Offered(q, f, i - 1)
        PROVE  FALSE
    <3>1. PICK j \in 1 .. i - 1 : x = ItemOf(entries[j], q)
      BY <2>2 DEF Offered
    <3>2. entries[i].id = entries[j].id
      BY <3>1 DEF ItemOf, Item
    <3>3. j \in 1 .. Len(entries) /\ i # j
      BY <1>2
    <3>4. j - 1 = i - 1
      BY <1>1, <3>2, <3>3
    <3> QED
      BY <3>3, <3>4
  <2>3. x \in ItemSet
    <3>1. entries[i] \in FlatEntry
      BY <1>1
    <3> QED
      BY <3>1, FlatAssumption DEF FlatEntry, ItemOf, Item, ItemSet
  <2>4. Offered(q, f, i - 1) \in SUBSET ItemSet /\ IsFiniteSet(Offered(q, f, i - 1))
    BY <1>1, OfferedFacts
  <2>5. Scan(q, f, cap, heap, entries[i]) = Offer(heap, cap, x)
    BY <1>3 DEF Scan
  <2> HIDE DEF x
  <2>6. KeepsLeast(Offer(heap, cap, x), Offered(q, f, i - 1) \cup {x}, cap)
    BY <2>2, <2>3, <2>4, OfferKeepsLeast
  <2> QED
    BY <2>1, <2>5, <2>6
<1>4. CASE ~ Matches(f, entries[i].payload)
  <2>1. Offered(q, f, i) = Offered(q, f, i - 1)
    BY <1>2, <1>4 DEF Offered
  <2>2. Scan(q, f, cap, heap, entries[i]) = heap
    BY <1>4 DEF Scan
  <2> QED
    BY <2>1, <2>2
<1> QED
  BY <1>3, <1>4

(* The whole scan keeps the least of all that match. *)
LEMMA ScanAllKeepsLeast ==
  ASSUME FInv, NEW q \in Vectors, NEW f, NEW cap \in Nat
  PROVE  KeepsLeast(ScanAll(q, f, cap), Offered(q, f, Len(entries)), cap)
<1> DEFINE n == Len(entries)
           B == SUBSET ItemSet
           step == [i \in 1 .. n |-> [heap \in B |-> Scan(q, f, cap, heap, entries[i])]]
<1>1. n \in Nat /\ DOMAIN entries = 1 .. n /\ \A i \in 1 .. n : entries[i] \in FlatEntry
  BY DEF FInv, TypeOK
<1> HIDE DEF n
<1>2. {} \in B
  OBVIOUS
<1>3. \A i \in 1 .. n, heap \in B : Scan(q, f, cap, heap, entries[i]) \in B
  <2>1. \A i \in 1 .. n : ItemOf(entries[i], q) \in ItemSet
    BY <1>1, FlatAssumption DEF FlatEntry, ItemOf, Item, ItemSet
  <2> QED
    BY <2>1 DEF Scan, Offer
<1> HIDE DEF B
<1>4. step \in [1 .. n -> [B -> B]]
  BY <1>3
<1>5. \A i \in 1 .. n, heap \in B : step[i][heap] = Scan(q, f, cap, heap, entries[i])
  OBVIOUS
<1> HIDE DEF step
<1>6. PICK g : Solves(g, n, B, {}, step)
  BY <1>1, <1>2, <1>4, FoldExists
<1>7. g = [s \in SUBSET DOMAIN entries |->
             IF s = {} THEN {}
             ELSE Scan(q, f, cap, g[s \ {Lists!Max(s)}], entries[Lists!Max(s)])]
  <2>1. \A s \in SUBSET (1 .. n) : s # {} =>
          g[s] = Scan(q, f, cap, g[s \ {Lists!Max(s)}], entries[Lists!Max(s)])
    <3>1. ASSUME NEW s \in SUBSET (1 .. n), s # {}
          PROVE  g[s] = Scan(q, f, cap, g[s \ {Lists!Max(s)}], entries[Lists!Max(s)])
      <4>1. n \in Nat
        BY <1>1
      <4>2. StepsAt(g, s, n, B, step)
        BY <1>6, <3>1, <4>1, SolutionStep
      <4> QED
        BY <1>5, <4>2 DEF StepsAt
    <3> QED
      BY <3>1
  <2> QED
    BY <1>1, <1>6, <2>1 DEF Solves
<1>8. PICK h : /\ h = [s \in SUBSET DOMAIN entries |->
                         IF s = {} THEN {}
                         ELSE Scan(q, f, cap, h[s \ {Lists!Max(s)}], entries[Lists!Max(s)])]
               /\ ScanAll(q, f, cap) = h[DOMAIN entries]
  BY <1>7 DEF ScanAll, Lists!FoldLeft, Lists!MapThenFoldSet
<1> DEFINE T == [i \in 0 .. n |-> {heap \in B : KeepsLeast(heap, Offered(q, f, i), cap)}]
<1>9. h[{}] \in T[0]
  <2>1. Offered(q, f, 0) = {}
    BY DEF Offered
  <2>2. KeepsLeast({}, Offered(q, f, 0), cap)
    BY <2>1, FS_EmptySet DEF KeepsLeast
  <2>3. h[{}] = {}
    BY <1>8
  <2> QED
    BY <1>1, <1>2, <2>2, <2>3
<1>10. ASSUME NEW i \in 1 .. n, h[1 .. i - 1] \in T[i - 1]
       PROVE  h[1 .. i] \in T[i]
  <2>1. h[1 .. i] = Scan(q, f, cap, h[1 .. i - 1], entries[i])
    <3>1. /\ (1 .. i) \in SUBSET DOMAIN entries /\ (1 .. i) # {}
          /\ Lists!Max(1 .. i) = i /\ (1 .. i) \ {i} = 1 .. i - 1
      BY <1>1, LastOfPrefix
    <3> QED
      BY <1>8, <3>1
  <2>2. h[1 .. i - 1] \in B /\ KeepsLeast(h[1 .. i - 1], Offered(q, f, i - 1), cap)
    BY <1>1, <1>10
  <2>3. h[1 .. i] \in B
    BY <1>3, <2>1, <2>2
  <2>4. KeepsLeast(h[1 .. i], Offered(q, f, i), cap)
    BY <2>1, <2>2, ScanKeepsLeast DEF n
  <2> QED
    BY <1>1, <2>3, <2>4
<1>11. h[1 .. n] \in T[n]
  <2> HIDE DEF T
  <2> QED
    BY <1>1, <1>9, <1>10, FoldInduction
<1>12. KeepsLeast(ScanAll(q, f, cap), Offered(q, f, n), cap)
  BY <1>1, <1>8, <1>11
<1> QED
  BY <1>12 DEF n

(* The entries are those of the live ids. *)
LEMMA OfferedAreLive ==
  ASSUME FInv, NEW q, NEW f
  PROVE  Offered(q, f, Len(entries)) =
           {ItemOf(Entry(id), q) : id \in {x \in DOMAIN id_to_pos :
                                             Matches(f, Entry(x).payload)}}
<1> DEFINE n == Len(entries)
<1>1. n \in Nat
  BY DEF FInv, TypeOK
<1>2. ASSUME NEW j \in 1 .. n
      PROVE  /\ entries[j].id \in DOMAIN id_to_pos /\ Entry(entries[j].id) = entries[j]
  <2>1. entries[j].id \in DOMAIN id_to_pos /\ id_to_pos[entries[j].id] + 1 = j
    BY <1>1 DEF FInv, PositionsAgree, Contains
  <2> QED
    BY <2>1 DEF Entry
<1>3. ASSUME NEW id \in DOMAIN id_to_pos
      PROVE  \E j \in 1 .. n : Entry(id) = entries[j]
  <2>1. id_to_pos[id] \in Nat /\ id_to_pos[id] < n
    BY DEF FInv, TypeOK, PositionsAgree
  <2>2. id_to_pos[id] + 1 \in 1 .. n
    BY <1>1, <2>1
  <2> QED
    BY <2>2 DEF Entry
<1> QED
  BY <1>2, <1>3 DEF Offered

LEMMA SearchExact ==
  ASSUME FInv, NEW q \in Vectors, NEW k \in Nat, NEW f
  PROVE  Search(q, k, f) =
           LeastK({ItemOf(Entry(id), q) : id \in {x \in DOMAIN id_to_pos :
                                                    Matches(f, Entry(x).payload)}}, k)
<1> DEFINE n == Len(entries)
           cap == IF k < n THEN k ELSE n
           heap == ScanAll(q, f, cap)
           items == Offered(q, f, n)
           m == Cardinality(items)
<1>1. n \in Nat /\ cap \in Nat
  BY DEF FInv, TypeOK
<1>2. Search(q, k, f) = Sorted(heap)
  BY DEF Search, ScanAll, Scan
<1>3. items \in SUBSET ItemSet /\ IsFiniteSet(items) /\ m \in Nat /\ m <= n
  <2>1. n \in 0 .. n
    BY <1>1
  <2> QED
    BY <2>1, OfferedFacts
<1>4. KeepsLeast(heap, items, cap)
  BY <1>1, ScanAllKeepsLeast
<1>5. (IF cap < m THEN cap ELSE m) = IF k < m THEN k ELSE m
  BY <1>1, <1>3
<1> HIDE DEF heap, cap
<1>6. items = {ItemOf(Entry(id), q) : id \in {x \in DOMAIN id_to_pos :
                                                Matches(f, Entry(x).payload)}}
  BY OfferedAreLive
<1>7. Cardinality(heap) = IF k < m THEN k ELSE m
  BY <1>4, <1>5 DEF KeepsLeast
<1> HIDE DEF items, m
<1>8. Sorted(heap) = SubSeq(Sorted(items), 1, IF k < m THEN k ELSE m)
  BY <1>1, <1>3, <1>4, <1>7, SortedLeast
<1> QED
  BY <1>2, <1>6, <1>8 DEF LeastK, m

(***************************************************************************)
(* index.rs:18-29, flat.rs 104-140: the bounded heap yields exactly the k  *)
(* nearest of the live vectors that match the filter, in ascending order,  *)
(* ties by id - for every number of vectors and every k.                   *)
(***************************************************************************)
THEOREM FlatSearchIsExact == Spec => []SearchIsExact
<1>1. FInv => SearchIsExact
  <2> SUFFICES ASSUME FInv, NEW q \in Vectors, NEW k \in 1 .. Cardinality(Ids) + 1,
                      NEW f \in Filters
               PROVE  Search(q, k, f) =
                        LeastK({ItemOf(Entry(id), q) :
                                 id \in {x \in DOMAIN id_to_pos :
                                           Matches(f, Entry(x).payload)}}, k)
    BY DEF SearchIsExact
  <2>1. k \in Nat
    OBVIOUS
  <2> QED
    BY <2>1, SearchExact
<1> QED
  BY <1>1, InitFInv, NextFInv, PTL DEF Spec

-----------------------------------------------------------------------------
(* The abstract map. *)

(* The entries of the other ids stay where they are. *)
LEMMA AddMap ==
  ASSUME FInv, NEW id \in Ids, NEW v \in Vectors, NEW pl \in Payloads, Add(id, v, pl)
  PROVE  Points!MapNext
<1> DEFINE s == [vector |-> v, payload |-> pl]
           e == [id |-> id, vector |-> v, payload |-> pl]
<1>1. /\ id \notin DOMAIN id_to_pos
      /\ entries' = Append(entries, e)
      /\ id_to_pos' = [x \in DOMAIN id_to_pos \cup {id} |->
                          IF x = id THEN Len(entries) ELSE id_to_pos[x]]
  BY DEF Add, Contains, Put
<1>2. entries \in Seq(FlatEntry) /\ e \in FlatEntry
  BY DEF FInv, TypeOK, FlatEntry
<1>3. entries'[Len(entries) + 1] = e /\ \A i \in 1 .. Len(entries) : entries'[i] = entries[i]
  BY <1>1, <1>2
<1>4. \A x \in DOMAIN id_to_pos : id_to_pos[x] + 1 \in 1 .. Len(entries)
  BY <1>2 DEF FInv, TypeOK, PositionsAgree
<1>5. ASSUME NEW x \in DOMAIN id_to_pos \cup {id}
      PROVE  StoredAt'[x] = IF x = id THEN s ELSE StoredAt[x]
  <2>1. CASE x = id
    BY <1>1, <1>2, <1>3, <2>1 DEF StoredAt, Entry
  <2>2. CASE x # id
    <3>1. x \in DOMAIN id_to_pos /\ id_to_pos'[x] = id_to_pos[x]
      BY <1>1, <2>2
    <3>2. entries'[id_to_pos'[x] + 1] = entries[id_to_pos[x] + 1]
      BY <1>3, <1>4, <3>1
    <3>3. Entry(x)' = Entry(x)
      BY <3>2 DEF Entry
    <3> QED
      BY <1>1, <2>2, <3>1, <3>3 DEF StoredAt
  <2> QED
    BY <2>1, <2>2
<1>6. StoredAt' = [x \in DOMAIN StoredAt \cup {id} |-> IF x = id THEN s ELSE StoredAt[x]]
  <2>1. DOMAIN StoredAt' = DOMAIN StoredAt \cup {id}
    BY <1>1 DEF StoredAt
  <2> QED
    BY <1>5, <2>1 DEF StoredAt
<1>7. s \in Points!Stored
  BY DEF Points!Stored
<1> QED
  BY <1>1, <1>6, <1>7 DEF Points!MapNext, Points!MapAdd, StoredAt

(* Wherever swap_remove puts an entry, its id leads to it. *)
LEMMA RemoveMap ==
  ASSUME FInv, NEW id \in Ids, Remove(id)
  PROVE  Points!MapNext
<1> DEFINE pos == id_to_pos[id]
           last == Len(entries)
<1>1. id \in DOMAIN id_to_pos /\ entries' = SwapRemove(entries, pos)
  BY DEF Remove, Contains
<1>2. /\ entries \in Seq(FlatEntry) /\ last \in Nat /\ pos \in Nat /\ pos < last
      /\ \A x \in DOMAIN id_to_pos : id_to_pos[x] \in Nat
  BY <1>1 DEF FInv, TypeOK, PositionsAgree
<1>3. /\ Len(entries') = last - 1
      /\ \A i \in 1 .. last - 1 :
           entries'[i] = IF i = pos + 1 THEN entries[last] ELSE entries[i]
  BY <1>1, <1>2, SwapRemoveType
<1>4. FInv'
  BY RemoveFInv
<1>5. DOMAIN id_to_pos' = DOMAIN id_to_pos \ {id}
  <2>1. CASE pos < Len(entries')
    <3>1. entries'[pos + 1] = entries[last]
      BY <1>2, <1>3, <2>1
    <3>2. entries[last].id \in DOMAIN id_to_pos /\ id_to_pos[entries[last].id] = last - 1
      BY <1>2 DEF FInv, PositionsAgree, Contains
    <3>3. entries[last].id # id
      BY <1>2, <1>3, <2>1, <3>2
    <3>4. id_to_pos' = Put(Without(id_to_pos, id), entries[last].id, pos)
      BY <1>1, <2>1, <3>1 DEF Remove
    <3> QED
      BY <3>2, <3>3, <3>4 DEF Put, Without, Restrict
  <2>2. CASE ~ pos < Len(entries')
    BY <1>1, <2>2 DEF Remove, Without, Restrict
  <2> QED
    BY <2>1, <2>2
<1>6. ASSUME NEW x \in DOMAIN id_to_pos \ {id}
      PROVE  Entry(x)' = Entry(x)
  <2> DEFINE new == id_to_pos'[x] + 1
             old == id_to_pos[x] + 1
  <2>1. /\ id_to_pos'[x] \in Nat /\ new \in 1 .. last - 1
        /\ entries'[new].id = x
    BY <1>3, <1>4, <1>5 DEF FInv, TypeOK, PositionsAgree, Entry
  <2>2. PICK i \in 1 .. last : entries'[new] = entries[i]
    <3> DEFINE i == IF new = pos + 1 THEN last ELSE new
    <3>1. i \in 1 .. last /\ entries'[new] = entries[i]
      BY <1>2, <1>3, <2>1
    <3> QED
      BY <3>1
  <2>3. id_to_pos[entries[i].id] = i - 1
    BY <1>2, <2>2 DEF FInv, PositionsAgree
  <2>4. old = i
    BY <2>1, <2>2, <2>3
  <2> QED
    BY <2>2, <2>4 DEF Entry
<1>7. StoredAt' = Restrict(StoredAt, DOMAIN StoredAt \ {id})
  BY <1>5, <1>6 DEF StoredAt, Restrict
<1> QED
  <2>1. id \in DOMAIN StoredAt
    BY <1>1 DEF StoredAt
  <2>2. Points!MapRemove(id)
    BY <1>7, <2>1 DEF Points!MapRemove, Points!Restrict, Restrict
  <2> QED
    BY <2>2 DEF Points!MapNext

(***************************************************************************)
(* index.rs:18-29: behind swap_remove and the position map, the flat index *)
(* is a map from ids to vectors and payloads, for every set of them: an    *)
(* add adds one id, a remove removes one, and all else stays.              *)
(***************************************************************************)
THEOREM FlatImplementsMap == Spec => ImplementsMap
<1>1. Init => Points!MapInit
  BY DEF Init, StoredAt, Points!MapInit
<1>2. FInv /\ [Next]_vars => [Points!MapNext]_StoredAt
  <2> SUFFICES ASSUME FInv, [Next]_vars PROVE [Points!MapNext]_StoredAt
    OBVIOUS
  <2>1. CASE Next
    BY <2>1, AddMap, RemoveMap DEF Next
  <2>2. CASE UNCHANGED vars
    BY <2>2 DEF vars, StoredAt, Entry
  <2> QED
    BY <2>1, <2>2
<1> QED
  BY <1>1, <1>2, InitFInv, NextFInv, PTL DEF Spec, ImplementsMap, Points!MapSpec, StoredAt

-----------------------------------------------------------------------------
(* Snapshots. *)

Header == WriteHeader(TYPE_FLAT, Metric, Dim)

FlatFile(s) == File(Header, [count |-> Len(s)], s)

(* No two entries have the same id, and the map is what is built from them. *)
LEMMA EntriesAreMapped ==
  ASSUME FInv
  PROVE  /\ entries \in Seq(FlatEntry) /\ UniqueIds(entries)
         /\ EntryPositions(entries) = id_to_pos
<1> DEFINE n == Len(entries)
           ids == {entries[j].id : j \in 1 .. n}
<1>1. entries \in Seq(FlatEntry) /\ n \in Nat /\ DOMAIN entries = 1 .. n
  BY DEF FInv, TypeOK
<1>2. \A i \in 1 .. n : entries[i].id \in DOMAIN id_to_pos /\ id_to_pos[entries[i].id] = i - 1
  BY DEF FInv, PositionsAgree, Contains
<1>3. \A id \in DOMAIN id_to_pos : /\ id_to_pos[id] \in Nat /\ id_to_pos[id] < n
                                   /\ entries[id_to_pos[id] + 1].id = id
  BY DEF FInv, TypeOK, PositionsAgree, Entry
<1>4. DOMAIN id_to_pos = ids
  <2>1. ASSUME NEW id \in DOMAIN id_to_pos
        PROVE  id \in ids
    <3>1. id_to_pos[id] + 1 \in 1 .. n
      BY <1>1, <1>3
    <3> QED
      BY <1>3, <3>1
  <2> QED
    BY <1>2, <2>1
<1>5. id_to_pos = [id \in DOMAIN id_to_pos |-> id_to_pos[id]]
  BY DEF FInv, TypeOK
<1>6. UniqueIds(entries)
  <2>1. ASSUME NEW i \in 1 .. n, NEW j \in 1 .. n, entries[i].id = entries[j].id
        PROVE  i = j
    <3>1. i - 1 = j - 1
      BY <1>2, <2>1
    <3> QED
      BY <3>1
  <2> QED
    BY <1>1, <2>1 DEF UniqueIds
<1>7. MapsEntries(entries, id_to_pos)
  BY <1>2, <1>4, <1>5 DEF MapsEntries
<1> QED
  BY <1>1, <1>6, <1>7, EntryPositionsAre

(* There is one file, or there is none. *)
LEMMA FlatFiles ==
  WriteFlat(Index) =
    IF \A i \in DOMAIN entries : entries[i].payload \notin Unserialisable
    THEN {FlatFile(entries)} ELSE {}
<1>1. PutAll(entries) = IF \A i \in DOMAIN entries : entries[i].payload \notin Unserialisable
                        THEN {entries} ELSE {}
  BY DEF PutAll, PutPayload
<1>2. Index.metric = Metric /\ Index.dim = Dim /\ Index.entries = entries
  BY DEF Index
<1>3. WriteFlat(Index) = {FlatFile(entries) : s \in PutAll(entries)}
  <2>1. WriteFlat(Index) = {<<Header, [count |-> Len(entries)]>> \o s : s \in PutAll(entries)}
    BY <1>2 DEF WriteFlat, Header
  <2>2. \A s \in PutAll(entries) : s = entries
    BY <1>1
  <2>3. \A s \in PutAll(entries) : <<Header, [count |-> Len(entries)]>> \o s = FlatFile(entries)
    BY <2>2 DEF FlatFile, File
  <2> QED
    BY <2>1, <2>3
<1> QED
  BY <1>1, <1>3

(***************************************************************************)
(* persist.rs 392-426, flat.rs 67-92: whatever was added and removed, only *)
(* an entry with a payload that is too long keeps an index from being      *)
(* saved, and what is loaded is what was saved, the map that is built      *)
(* again included.                                                         *)
(***************************************************************************)
THEOREM FlatReloads == Spec => []FlatSurvivesReload
<1>1. FInv => FlatSurvivesReload
  <2> SUFFICES ASSUME FInv PROVE FlatSurvivesReload
    OBVIOUS
  <2> DEFINE n == Len(entries)
             savable == \A i \in DOMAIN entries : entries[i].payload \notin Unserialisable
  <2>1. /\ entries \in Seq(FlatEntry) /\ UniqueIds(entries) /\ EntryPositions(entries) = id_to_pos
        /\ n \in Nat /\ DOMAIN entries = 1 .. n
    BY EntriesAreMapped
  <2>2. WriteFlat(Index) = IF savable THEN {FlatFile(entries)} ELSE {}
    BY FlatFiles
  <2>3. savable <=> ~ \E id \in DOMAIN id_to_pos : Entry(id).payload \in Unserialisable
    <3>1. \A i \in 1 .. n : entries[i].id \in DOMAIN id_to_pos /\ id_to_pos[entries[i].id] + 1 = i
      BY <2>1 DEF FInv, PositionsAgree, Contains
    <3>2. \A id \in DOMAIN id_to_pos : id_to_pos[id] + 1 \in 1 .. n
      <4> TAKE id \in DOMAIN id_to_pos
      <4>1. id_to_pos[id] \in Nat /\ id_to_pos[id] < n
        BY DEF FInv, TypeOK, PositionsAgree
      <4> QED
        BY <2>1, <4>1
    <3> QED
      BY <2>1, <3>1, <3>2 DEF Entry
  <2>4. ReadAny(FlatFile(entries)) = {Index}
    <3>1. ReadAny(SubSeq(FlatFile(entries), 1, n + 2)) = {FlatLoaded(Metric, Dim, entries)}
      <4>1. n + 2 \in 0 .. n + 2
        BY <2>1
      <4> QED
        BY <2>1, <4>1, FlatReloadAssumption, FlatRead DEF FlatFile, Header
    <3>2. SubSeq(FlatFile(entries), 1, n + 2) = FlatFile(entries)
      BY <2>1, WholeFile DEF FlatFile
    <3>3. FlatLoaded(Metric, Dim, entries) = Index
      BY <2>1 DEF FlatLoaded, Index
    <3> QED
      BY <3>1, <3>2, <3>3
  <2> HIDE DEF savable
  <2> QED
    BY <2>2, <2>3, <2>4 DEF FlatSurvivesReload
<1> QED
  BY <1>1, InitFInv, NextFInv, PTL DEF Spec

(***************************************************************************)
(* persist.rs 265-292 and 411-414: no file of an index is taken for one of *)
(* a smaller index when its end is missing, nor with an entry twice.       *)
(***************************************************************************)
THEOREM FlatDamageIsNoticed == Spec => []DamagedFlatIsRefused
<1>1. FInv => DamagedFlatIsRefused
  <2> SUFFICES ASSUME FInv, NEW file \in WriteFlat(Index)
               PROVE  /\ \A cut \in Cuts(file) : ReadAny(cut) = {}
                      /\ \A i \in 4 .. Len(file) : ReadAny([file EXCEPT ![i] = file[3]]) = {}
    BY DEF DamagedFlatIsRefused
  <2> DEFINE n == Len(entries)
  <2>1. entries \in Seq(FlatEntry) /\ n \in Nat
    BY EntriesAreMapped
  <2>2. file = FlatFile(entries)
    BY FlatFiles
  <2>3. /\ Len(file) = n + 2
        /\ \A i \in 1 .. n : file[i + 2] = entries[i]
    BY <2>1, <2>2, FileFacts DEF FlatFile
  <2>4. ASSUME NEW cut \in Cuts(file)
        PROVE  ReadAny(cut) = {}
    <3>1. PICK m \in 0 .. Len(file) - 1 : cut = SubSeq(file, 1, m)
      BY DEF Cuts
    <3>2. m \in 0 .. n + 2 /\ m # n + 2
      BY <2>1, <2>3
    <3> QED
      BY <2>1, <2>2, <3>1, <3>2, FlatReloadAssumption, FlatRead DEF FlatFile, Header
  <2>5. ASSUME NEW i \in 4 .. Len(file)
        PROVE  ReadAny([file EXCEPT ![i] = file[3]]) = {}
    <3> DEFINE j == i - 2
               s == [entries EXCEPT ![j] = entries[1]]
    <3>1. j \in 2 .. n /\ j \in 1 .. n /\ 1 \in 1 .. n /\ i = j + 2 /\ j # 1
      BY <2>1, <2>3
    <3>2. file[3] = entries[1] /\ entries[1] \in FlatEntry
      <4>1. 1 + 2 = 3
        OBVIOUS
      <4> QED
        BY <2>1, <2>3, <3>1, <4>1
    <3> HIDE DEF j
    <3>3. s \in Seq(FlatEntry) /\ Len(s) = n /\ DOMAIN s = 1 .. n /\ s[j] = entries[1] /\ s[1] = entries[1]
      BY <2>1, <3>1, <3>2
    <3>4. [file EXCEPT ![i] = file[3]] = FlatFile(s)
      <4> DEFINE c == [count |-> n]
                 e == entries[1]
      <4>1. FlatFile(s) = File(Header, c, s) /\ file = File(Header, c, entries)
        BY <2>2, <3>3 DEF FlatFile
      <4>2. j \in 1 .. Len(entries) /\ e \in FlatEntry /\ file[3] = e
        BY <3>1, <3>2
      <4>3. s = [entries EXCEPT ![j] = e]
        OBVIOUS
      <4> HIDE DEF s, c, e
      <4>4. [File(Header, c, entries) EXCEPT ![j + 2] = e] = File(Header, c, [entries EXCEPT ![j] = e])
        BY <2>1, <4>2, FileExcept
      <4> QED
        BY <3>1, <4>1, <4>2, <4>3, <4>4
    <3> HIDE DEF s
    <3>5. ~ UniqueIds(s)
      <4>1. s[j].id = s[1].id
        BY <3>3
      <4> QED
        BY <3>1, <3>3, <4>1 DEF UniqueIds
    <3>6. ReadAny(SubSeq(FlatFile(s), 1, n + 2)) = {}
      <4>1. n + 2 \in 0 .. Len(s) + 2
        BY <2>1, <3>3
      <4> QED
        BY <3>3, <3>5, <4>1, FlatReloadAssumption, FlatRead DEF FlatFile, Header
    <3>7. SubSeq(FlatFile(s), 1, n + 2) = FlatFile(s)
      BY <3>3, WholeFile DEF FlatFile
    <3> QED
      BY <3>4, <3>6, <3>7
  <2> QED
    BY <2>4, <2>5
<1> QED
  BY <1>1, InitFInv, NextFInv, PTL DEF Spec

-----------------------------------------------------------------------------
(* The kernels. *)

(* Running totals of n terms. *)
Totals(g, t, n) == g[0] = 0 /\ \A i \in 1 .. n : g[i] = g[i - 1] + t[i]

LEMMA TotalsExist ==
  ASSUME NEW n \in Nat, NEW t \in [1 .. n -> Int]
  PROVE  \E g : g \in [0 .. n -> Int] /\ Totals(g, t, n)
<1> DEFINE T == {m \in Nat : m <= n => \E g : g \in [0 .. m -> Int] /\ Totals(g, t, m)}
<1>1. 0 \in T
  <2> DEFINE g == [i \in 0 .. 0 |-> 0]
  <2>1. g \in [0 .. 0 -> Int] /\ Totals(g, t, 0)
    BY DEF Totals
  <2> HIDE DEF g
  <2> QED
    BY <2>1
<1>2. ASSUME NEW m \in Nat, m \in T
      PROVE  m + 1 \in T
  <2>1. CASE m + 1 <= n
    <3>1. PICK g : g \in [0 .. m -> Int] /\ Totals(g, t, m)
      BY <1>2, <2>1
    <3> DEFINE h == [i \in 0 .. m + 1 |-> IF i = m + 1 THEN g[m] + t[m + 1] ELSE g[i]]
    <3>2. h \in [0 .. m + 1 -> Int]
      <4>1. g[m] \in Int /\ t[m + 1] \in Int
        BY <2>1, <3>1
      <4>2. g[m] + t[m + 1] \in Int
        BY <4>1
      <4>3. \A i \in 0 .. m + 1 : i # m + 1 => g[i] \in Int
        BY <3>1
      <4> QED
        BY <4>2, <4>3
    <3>3. h[0] = 0 /\ h[m + 1] = h[m] + t[m + 1]
      BY <3>1 DEF Totals
    <3>4. \A i \in 1 .. m : h[i] = h[i - 1] + t[i]
      BY <3>1 DEF Totals
    <3> HIDE DEF h
    <3>5. \A i \in 1 .. m + 1 : h[i] = h[i - 1] + t[i]
      BY <3>3, <3>4
    <3>6. Totals(h, t, m + 1)
      BY <3>3, <3>5 DEF Totals
    <3> QED
      BY <3>2, <3>6
  <2>2. CASE ~ m + 1 <= n
    BY <2>2
  <2> QED
    BY <2>1, <2>2
<1> HIDE DEF T
<1>3. n \in T
  BY <1>1, <1>2, NatSetInduction
<1> QED
  BY <1>3 DEF T

(* A sum is the last running total, however these are found. *)
LEMMA SumIsTotal ==
  ASSUME NEW n \in Nat, NEW t \in [1 .. n -> Int], NEW g, Totals(g, t, n)
  PROVE  Kernels!SumOf(t) = g[n] /\ g[n] \in Int
<1> DEFINE Step(f, i) == IF i = 0 THEN 0 ELSE f[i - 1] + t[i]
           acc == CHOOSE f : f = [i \in 0 .. n |-> Step(f, i)]
<1>1. Len(t) = n
  OBVIOUS
<1>2. PICK h : h \in [0 .. n -> Int] /\ Totals(h, t, n)
  BY TotalsExist
<1>3. h = [i \in 0 .. n |-> Step(h, i)]
  <2>1. \A i \in 0 .. n : h[i] = Step(h, i)
    <3> TAKE i \in 0 .. n
    <3>1. i = 0 \/ i \in 1 .. n
      OBVIOUS
    <3> QED
      BY <1>2, <3>1 DEF Totals
  <2> QED
    BY <1>2, <2>1
<1>4. acc = [i \in 0 .. n |-> Step(acc, i)]
  BY <1>3
<1>5. Kernels!SumOf(t) = acc[n]
  BY <1>1 DEF Kernels!SumOf
<1> HIDE DEF acc
<1>6. acc[0] = 0 /\ \A i \in 1 .. n : acc[i] = acc[i - 1] + t[i]
  BY <1>4
<1> DEFINE T == [i \in 0 .. n |-> {k \in Int : k = g[i]}]
<1>7. acc[0] \in T[0]
  BY <1>6 DEF Totals
<1>8. \A i \in 1 .. n : acc[i - 1] \in T[i - 1] => acc[i] \in T[i]
  <2> SUFFICES ASSUME NEW i \in 1 .. n, acc[i - 1] \in T[i - 1]
               PROVE  acc[i] \in T[i]
    OBVIOUS
  <2>1. acc[i - 1] \in Int /\ acc[i - 1] = g[i - 1]
    OBVIOUS
  <2>2. acc[i] = g[i] /\ acc[i] \in Int
    BY <1>6, <2>1 DEF Totals
  <2> QED
    BY <2>2
<1> HIDE DEF T
<1>9. \A i \in 0 .. n : acc[i] \in T[i]
  BY <1>7, <1>8, ChainInduction
<1>10. acc[n] \in T[n]
  BY <1>9
<1> QED
  BY <1>5, <1>10 DEF T

(* The sum of the lanes. *)
Eight(v) == v[1] + v[2] + v[3] + v[4] + v[5] + v[6] + v[7] + v[8]

Eights == [1 .. 8 -> Int]

LEMMA EightTypes ==
  ASSUME NEW v \in Eights
  PROVE  /\ v[1] \in Int /\ v[2] \in Int /\ v[3] \in Int /\ v[4] \in Int
         /\ v[5] \in Int /\ v[6] \in Int /\ v[7] \in Int /\ v[8] \in Int
         /\ Eight(v) \in Int
<1>1. \A l \in 1 .. 8 : v[l] \in Int
  BY DEF Eights
<1>2. /\ v[1] \in Int /\ v[2] \in Int /\ v[3] \in Int /\ v[4] \in Int
      /\ v[5] \in Int /\ v[6] \in Int /\ v[7] \in Int /\ v[8] \in Int
  BY <1>1
<1> QED
  BY <1>2 DEF Eight

LEMMA EightPlus ==
  ASSUME NEW v \in Eights, NEW w \in Eights, NEW z, \A l \in 1 .. 8 : z[l] = v[l] + w[l]
  PROVE  Eight(z) = Eight(v) + Eight(w)
<1>1. /\ z[1] = v[1] + w[1] /\ z[2] = v[2] + w[2] /\ z[3] = v[3] + w[3] /\ z[4] = v[4] + w[4]
      /\ z[5] = v[5] + w[5] /\ z[6] = v[6] + w[6] /\ z[7] = v[7] + w[7] /\ z[8] = v[8] + w[8]
  OBVIOUS
<1> QED
  BY <1>1, EightTypes DEF Eight

(* Eight running totals. *)
LEMMA EightSteps ==
  ASSUME NEW b \in Nat, NEW g, g[b] \in Int, NEW v \in Eights,
         \A l \in 1 .. 8 : g[b + l] = g[b + (l - 1)] + v[l]
  PROVE  g[b + 8] = g[b] + Eight(v)
<1>1. b + 0 = b
  OBVIOUS
<1>2. /\ g[b + 1] = g[b] + v[1] /\ g[b + 2] = g[b + 1] + v[2]
      /\ g[b + 3] = g[b + 2] + v[3] /\ g[b + 4] = g[b + 3] + v[4]
      /\ g[b + 5] = g[b + 4] + v[5] /\ g[b + 6] = g[b + 5] + v[6]
      /\ g[b + 7] = g[b + 6] + v[7] /\ g[b + 8] = g[b + 7] + v[8]
  BY <1>1
<1> QED
  BY <1>2, EightTypes DEF Eight

(* Scalar kernel: the lanes one by one; AVX2: halves of halves. *)
LEMMA LanesTogether ==
  ASSUME NEW v \in Eights
  PROVE  Kernels!SumOf(v) = Eight(v) /\ Kernels!HSum256(v) = Eight(v)
<1>1. PICK g : g \in [0 .. 8 -> Int] /\ Totals(g, v, 8)
  BY TotalsExist DEF Eights
<1>2. g[0 + 8] = g[0] + Eight(v)
  <2>1. g[0] \in Int /\ 0 \in Nat
    BY <1>1
  <2>2. \A l \in 1 .. 8 : g[0 + l] = g[0 + (l - 1)] + v[l]
    BY <1>1 DEF Totals
  <2> QED
    BY <2>1, <2>2, EightSteps
<1>3. g[8] = Eight(v)
  BY <1>1, <1>2, EightTypes DEF Totals
<1>4. Kernels!SumOf(v) = g[8]
  BY <1>1, SumIsTotal DEF Eights
<1>5. Kernels!HSum256(v) = Eight(v)
  BY EightTypes DEF Kernels!HSum256, Eight
<1> QED
  BY <1>3, <1>4, <1>5

(* The terms of k chunks, dealt out to the lanes. *)
Dealt(u, t, k) ==
  /\ \A l \in 1 .. 8 : u[l] \in [1 .. k -> Int]
  /\ \A l \in 1 .. 8, c \in 1 .. k : u[l][c] = t[(c - 1) * 8 + l]

(* Chunk by chunk the lanes add up what the definition does. *)
LEMMA LaneSums ==
  ASSUME NEW k \in Nat, NEW t \in [1 .. 8 * k -> Int], NEW g, Totals(g, t, 8 * k),
         NEW u, Dealt(u, t, k),
         NEW lanes, lanes = [l \in 1 .. 8 |-> Kernels!SumOf(u[l])]
  PROVE  lanes \in Eights /\ Eight(lanes) = g[8 * k]
<1>0. /\ \A l \in 1 .. 8 : u[l] \in [1 .. k -> Int]
      /\ \A l \in 1 .. 8, c \in 1 .. k : u[l][c] = t[(c - 1) * 8 + l]
  BY DEF Dealt
<1>1. ASSUME NEW l \in 1 .. 8
      PROVE  \E h : h \in [0 .. k -> Int] /\ Totals(h, u[l], k)
  BY <1>0, TotalsExist
<1> DEFINE f == [l \in 1 .. 8 |-> CHOOSE h : h \in [0 .. k -> Int] /\ Totals(h, u[l], k)]
<1>2. \A l \in 1 .. 8 : f[l] \in [0 .. k -> Int] /\ Totals(f[l], u[l], k)
  BY <1>1
<1> HIDE DEF f
<1> DEFINE Column(c) == [l \in 1 .. 8 |-> f[l][c]]
           T == [c \in 0 .. k |-> {x \in Int : x = g[8 * c]}]
           acc == [c \in 0 .. k |-> Eight(Column(c))]
<1>3. ASSUME NEW c \in 0 .. k
      PROVE  Column(c) \in Eights /\ Eight(Column(c)) \in Int
  <2>1. Column(c) \in Eights
    BY <1>2 DEF Eights
  <2> HIDE DEF Column
  <2> QED
    BY <2>1, EightTypes
<1>4. acc[0] \in T[0]
  <2>1. \A l \in 1 .. 8 : f[l][0] = 0
    BY <1>2 DEF Totals
  <2>2. g[8 * 0] = 0
    BY DEF Totals
  <2>3. Eight(Column(0)) = 0
    <3>1. \A l \in 1 .. 8 : Column(0)[l] = 0
      BY <2>1
    <3> HIDE DEF Column
    <3>2. /\ Column(0)[1] = 0 /\ Column(0)[2] = 0 /\ Column(0)[3] = 0 /\ Column(0)[4] = 0
          /\ Column(0)[5] = 0 /\ Column(0)[6] = 0 /\ Column(0)[7] = 0 /\ Column(0)[8] = 0
      BY <3>1
    <3> QED
      BY <3>2 DEF Eight
  <2> HIDE DEF Column
  <2>4. 0 \in 0 .. k
    OBVIOUS
  <2>5. acc[0] = 0 /\ T[0] = {x \in Int : x = g[8 * 0]}
    BY <2>3, <2>4
  <2> QED
    BY <2>2, <2>5
<1>5. ASSUME NEW c \in 1 .. k, acc[c - 1] \in T[c - 1]
      PROVE  acc[c] \in T[c]
  <2> DEFINE b == 8 * (c - 1)
             terms == [l \in 1 .. 8 |-> t[b + l]]
             d == c - 1
  <2>0. c \in 0 .. k /\ d \in 0 .. k
    OBVIOUS
  <2>1. b \in Nat /\ 8 * c = b + 8 /\ b + 8 <= 8 * k /\ (c - 1) * 8 = b
    OBVIOUS
  <2>2. Eight(Column(d)) = g[b] /\ g[b] \in Int
    <3> HIDE DEF Column
    <3>1. acc[d] = Eight(Column(d)) /\ T[d] = {x \in Int : x = g[b]}
      BY <2>0
    <3> QED
      BY <1>5, <3>1
  <2> HIDE DEF b
  <2>3. \A l \in 1 .. 8 : b + l \in 1 .. 8 * k
    BY <2>1
  <2>4. terms \in Eights
    BY <2>3 DEF Eights
  <2>5. \A l \in 1 .. 8 : g[b + l] = g[b + (l - 1)] + terms[l]
    <3> TAKE l \in 1 .. 8
    <3>1. (b + l) - 1 = b + (l - 1)
      BY <2>1
    <3>2. g[b + l] = g[(b + l) - 1] + t[b + l]
      BY <2>3 DEF Totals
    <3> QED
      BY <3>1, <3>2
  <2>6. \A l \in 1 .. 8 : Column(c)[l] = Column(d)[l] + terms[l]
    <3> TAKE l \in 1 .. 8
    <3>1. f[l][c] = f[l][c - 1] + u[l][c]
      BY <1>2 DEF Totals
    <3>2. u[l][c] = t[b + l]
      BY <1>0, <2>1
    <3> QED
      BY <3>1, <3>2
  <2>7. Column(d) \in Eights
    BY <1>3, <2>0
  <2> HIDE DEF Column, terms, d
  <2>8. Eight(Column(c)) = Eight(Column(d)) + Eight(terms)
    BY <2>4, <2>6, <2>7, EightPlus
  <2>9. g[b + 8] = g[b] + Eight(terms)
    BY <2>1, <2>2, <2>4, <2>5, EightSteps
  <2>10. Eight(Column(c)) = g[8 * c] /\ Eight(Column(c)) \in Int
    BY <1>3, <2>0, <2>1, <2>2, <2>8, <2>9
  <2> QED
    BY <2>0, <2>10
<1> HIDE DEF T, acc, Column
<1>6. \A c \in 0 .. k : acc[c] \in T[c]
  BY <1>4, <1>5, ChainInduction
<1>7. Eight(Column(k)) = g[8 * k]
  <2>1. acc[k] \in T[k] /\ k \in 0 .. k
    BY <1>6
  <2> QED
    BY <2>1 DEF acc, T
<1>8. \A l \in 1 .. 8 : Kernels!SumOf(u[l]) = f[l][k]
  BY <1>0, <1>2, SumIsTotal
<1>9. Column(k) = [l \in 1 .. 8 |-> Kernels!SumOf(u[l])]
  BY <1>8 DEF Column
<1>10. Column(k) \in Eights
  BY <1>3
<1> QED
  BY <1>7, <1>9, <1>10

(***************************************************************************)
(* distance.rs 132-288: for any two vectors of the same length both        *)
(* kernels yield the sum of all terms.                                     *)
(***************************************************************************)
THEOREM KernelsAddUp ==
  ASSUME NEW sum \in Kernels!Sums, NEW a \in Seq(Int), NEW b \in Seq(Int), Len(a) = Len(b)
  PROVE  /\ Kernels!Scalar(sum, a, b) = Kernels!Reference(sum, a, b)
         /\ Kernels!Avx2(sum, a, b) = Kernels!Reference(sum, a, b)
<1> DEFINE n == Len(a)
           k == n \div 8
           m == 8 * k
           Term(i) == Kernels!Term(sum, a[i], b[i])
           terms == [i \in 1 .. n |-> Term(i)]
           first == [i \in 1 .. m |-> terms[i]]
           rest == [i \in 1 .. n - m |-> Term(m + i)]
           u == [l \in 1 .. 8 |-> [c \in 1 .. k |-> Term((c - 1) * 8 + l)]]
           lanes == [l \in 1 .. 8 |-> Kernels!SumOf(u[l])]
<1>1. n \in Nat /\ \A i \in 1 .. n : Term(i) \in Int
  <2>1. n \in Nat /\ \A i \in 1 .. n : a[i] \in Int /\ b[i] \in Int
    OBVIOUS
  <2>2. \A x, y \in Int : Kernels!Term(sum, x, y) \in Int
    BY DEF Kernels!Term, Kernels!Sums
  <2> HIDE DEF n
  <2> QED
    BY <2>1, <2>2
<1>2. k \in Nat /\ m \in Nat /\ m <= n /\ Kernels!Chunked(a) = m /\ m \div 8 = k
  BY <1>1 DEF Kernels!Chunked, Kernels!LANES
<1>3. /\ Kernels!Lanes(sum, a, b) = lanes /\ Kernels!Rest(sum, a, b) = Kernels!SumOf(rest)
      /\ Kernels!Reference(sum, a, b) = Kernels!SumOf(terms)
  <2> HIDE DEF n, k, m
  <2>1. \A l \in 1 .. 8 : Kernels!Lane(sum, a, b, l) = Kernels!SumOf([c \in 1 .. k |-> Term((c - 1) * 8 + l)])
    BY <1>2 DEF Kernels!Lane, Kernels!LANES
  <2>2. Kernels!Lanes(sum, a, b) = lanes
    BY <2>1 DEF Kernels!Lanes, Kernels!LANES
  <2>3. Kernels!Rest(sum, a, b) = Kernels!SumOf(rest)
    BY <1>2 DEF Kernels!Rest, n
  <2>4. Kernels!Reference(sum, a, b) = Kernels!SumOf(terms)
    BY DEF Kernels!Reference, n
  <2> QED
    BY <2>2, <2>3, <2>4
<1> HIDE DEF n, k, Term
<1>4. terms \in [1 .. n -> Int] /\ \A i \in 1 .. n : terms[i] = Term(i)
  BY <1>1
<1>5. PICK g : g \in [0 .. n -> Int] /\ Totals(g, terms, n)
  BY <1>1, <1>4, TotalsExist
<1>6. Kernels!SumOf(terms) = g[n]
  BY <1>1, <1>4, <1>5, SumIsTotal
<1> HIDE DEF terms
<1>7. lanes \in Eights /\ Eight(lanes) = g[m]
  <2>1. first \in [1 .. m -> Int]
    <3>1. \A i \in 1 .. m : terms[i] \in Int
      BY <1>1, <1>2, <1>4
    <3> HIDE DEF m
    <3> QED
      BY <3>1
  <2>2. Totals(g, first, m)
    <3>1. \A i \in 1 .. m : first[i] = terms[i] /\ i \in 1 .. n
      BY <1>1, <1>2
    <3> HIDE DEF m
    <3> QED
      BY <1>5, <3>1 DEF Totals
  <2>3. \A l \in 1 .. 8, c \in 1 .. k : (c - 1) * 8 + l \in 1 .. m
    BY <1>2
  <2>4. \A l \in 1 .. 8, c \in 1 .. k : /\ Term((c - 1) * 8 + l) = first[(c - 1) * 8 + l]
                                         /\ Term((c - 1) * 8 + l) \in Int
    BY <1>1, <1>2, <1>4, <2>3
  <2>5. \A l \in 1 .. 8 : u[l] \in [1 .. k -> Int]
    BY <2>4
  <2>6. \A l \in 1 .. 8, c \in 1 .. k : u[l][c] = first[(c - 1) * 8 + l]
    BY <2>4
  <2> HIDE DEF u, first
  <2>7. first \in [1 .. 8 * k -> Int] /\ Totals(g, first, 8 * k)
    BY <2>1, <2>2
  <2>8. Dealt(u, first, k)
    BY <2>5, <2>6 DEF Dealt
  <2> HIDE DEF m
  <2>9. lanes \in Eights /\ Eight(lanes) = g[8 * k]
    <3>1. lanes = [l \in 1 .. 8 |-> Kernels!SumOf(u[l])]
      OBVIOUS
    <3>2. k \in Nat
      BY <1>2
    <3> HIDE DEF lanes
    <3> QED
      BY <2>7, <2>8, <3>1, <3>2, LaneSums, Zenon
  <2> QED
    BY <2>9 DEF m
<1> HIDE DEF lanes, m
<1>8. Kernels!SumOf(rest) = g[n] - g[m]
  <2> DEFINE h == [i \in 0 .. n - m |-> g[m + i] - g[m]]
  <2>1. n - m \in Nat /\ m + 0 = m /\ m + (n - m) = n
        /\ \A i \in 1 .. n - m : m + i \in 1 .. n /\ (m + i) - 1 = m + (i - 1)
    BY <1>1, <1>2
  <2>2. \A i \in 0 .. n - m : g[m + i] \in Int
    BY <1>1, <1>2, <1>5
  <2>3. rest \in [1 .. n - m -> Int]
    BY <1>1, <2>1
  <2>4. h[0] = 0
    BY <2>1, <2>2
  <2>5. ASSUME NEW i \in 1 .. n - m
        PROVE  h[i] = h[i - 1] + rest[i]
    <3>1. i \in 0 .. n - m /\ i - 1 \in 0 .. n - m
      BY <2>1
    <3>2. rest[i] = terms[m + i]
      BY <1>4, <2>1
    <3>3. g[m + i] = g[m + (i - 1)] + terms[m + i]
      BY <1>5, <2>1 DEF Totals
    <3>4. terms[m + i] \in Int
      BY <1>4, <2>1
    <3>5. g[m + (i - 1)] \in Int /\ g[m] \in Int
      BY <2>1, <2>2, <3>1
    <3>6. h[i] = g[m + i] - g[m] /\ h[i - 1] = g[m + (i - 1)] - g[m]
      BY <3>1
    <3> HIDE DEF h, rest
    <3> QED
      BY <3>2, <3>3, <3>4, <3>5, <3>6
  <2>6. h[n - m] = g[n] - g[m]
    BY <2>1
  <2> HIDE DEF h, rest
  <2>7. Totals(h, rest, n - m)
    BY <2>4, <2>5 DEF Totals
  <2> QED
    BY <2>1, <2>3, <2>6, <2>7, SumIsTotal
<1>9. Kernels!SumOf(lanes) = g[m] /\ Kernels!HSum256(lanes) = g[m]
  BY <1>7, LanesTogether
<1>10. g[m] \in Int /\ g[n] \in Int
  BY <1>1, <1>2, <1>5
<1>11. g[m] + (g[n] - g[m]) = g[n]
  BY <1>10
<1> HIDE DEF rest
<1> QED
  BY <1>3, <1>6, <1>8, <1>9, <1>11 DEF Kernels!Scalar, Kernels!Avx2

LEMMA EntryVectors ==
  ASSUME FInv
  PROVE  Len(entries) = 1 => entries[1].vector \in Vectors
<1>1. entries \in Seq(FlatEntry)
  BY DEF FInv, TypeOK
<1>2. Len(entries) = 1 => entries[1] \in FlatEntry
  BY <1>1
<1> QED
  BY <1>2 DEF FlatEntry

(***************************************************************************)
(* distance.rs 69-79: whichever kernel a processor gets, an entry is at    *)
(* the same distance of a query.                                           *)
(***************************************************************************)
THEOREM FlatKernelsAgree == Spec => []KernelsAgree
<1>1. FInv => KernelsAgree
  <2> SUFFICES ASSUME FInv, Len(entries) = 1, NEW q \in Vectors,
                      NEW a \in Components(entries[1].vector), NEW b \in Components(q),
                      Len(a) = Len(b), NEW sum \in Kernels!Sums
               PROVE  /\ Kernels!Scalar(sum, a, b) = Kernels!Reference(sum, a, b)
                      /\ Kernels!Avx2(sum, a, b) = Kernels!Reference(sum, a, b)
    BY DEF KernelsAgree
  <2>1. entries[1].vector \in Vectors
    BY EntryVectors
  <2>2. a \in Seq(Int) /\ b \in Seq(Int)
    BY <2>1, FlatReloadAssumption
  <2> QED
    BY <2>2, KernelsAddUp
<1> QED
  BY <1>1, InitFInv, NextFInv, PTL DEF Spec

-----------------------------------------------------------------------------
(* Filters. *)

(* The ids whose payloads match. *)
Matching(f) == {id \in DOMAIN id_to_pos : Matches(f, Entry(id).payload)}

(* A search for more than there is finds all that matches. *)
LEMMA FoundAll ==
  ASSUME FInv, NEW f
  PROVE  Found(f) = Matching(f)
<1> DEFINE n == Len(entries)
           hits == Search(Query, n + 1, f)
           ids == Matching(f)
           items == {ItemOf(Entry(id), Query) : id \in ids}
           m == Cardinality(items)
<1>1. n \in Nat /\ n + 1 \in Nat /\ Query \in Vectors
  BY FilterAssumption DEF FInv, TypeOK
<1>2. \A id \in DOMAIN id_to_pos : Entry(id).id = id
  BY DEF FInv, PositionsAgree
<1>3. \A id \in DOMAIN id_to_pos : ItemOf(Entry(id), Query).key = id
  BY <1>2 DEF ItemOf, Item
<1>4. hits = LeastK(items, n + 1)
  BY <1>1, SearchExact DEF Matching
<1>5. items \in SUBSET ItemSet /\ IsFiniteSet(items) /\ m \in Nat /\ m <= n
  <2>1. items = Offered(Query, f, n)
    BY <1>1, OfferedAreLive DEF Matching
  <2>2. n \in 0 .. n
    BY <1>1
  <2> QED
    BY <1>1, <2>1, <2>2, OfferedFacts
<1> HIDE DEF n, hits, m, items
<1>6. /\ Sorted(items) \in Seq(items) /\ Len(Sorted(items)) = m
      /\ \A i \in 1 .. m : Sorted(items)[i] \in items
      /\ \A x \in items : \E i \in 1 .. m : Sorted(items)[i] = x
  BY <1>5, SortedFacts DEF m
<1>7. hits = Sorted(items)
  <2>1. (IF n + 1 < m THEN n + 1 ELSE m) = m
    BY <1>1, <1>5
  <2>2. hits = SubSeq(Sorted(items), 1, m)
    BY <1>4, <2>1 DEF LeastK, m
  <2> HIDE DEF ids
  <2> QED
    BY <1>5, <1>6, <2>2
<1>8. Found(f) = {hits[i].key : i \in 1 .. Len(hits)}
  BY DEF Found, hits, n
<1>9. Found(f) = {Sorted(items)[i].key : i \in 1 .. m}
  BY <1>6, <1>7, <1>8
<1>10. ids \subseteq DOMAIN id_to_pos
  BY DEF Matching
<1> HIDE DEF ids
<1>11. \A id \in ids : \E x \in items : x.key = id
  BY <1>3, <1>10 DEF items
<1>12. \A x \in items : x.key \in ids
  BY <1>3, <1>10 DEF items
<1>13. ids \subseteq Found(f)
  BY <1>6, <1>9, <1>11
<1>14. Found(f) \subseteq ids
  BY <1>6, <1>9, <1>12
<1> QED
  BY <1>13, <1>14 DEF ids

LEMMA LivePayloads ==
  ASSUME FInv, NEW id \in DOMAIN id_to_pos
  PROVE  Entry(id).payload \in Payloads
<1>1. /\ id_to_pos[id] \in Nat /\ id_to_pos[id] < Len(entries)
      /\ entries \in Seq(FlatEntry) /\ Len(entries) \in Nat
  BY DEF FInv, TypeOK, PositionsAgree
<1>2. id_to_pos[id] + 1 \in 1 .. Len(entries)
  BY <1>1
<1>3. Entry(id) \in FlatEntry
  BY <1>1, <1>2 DEF Entry
<1> QED
  BY <1>3 DEF FlatEntry

(* Filter::matches, kind by kind. *)
LEMMA MatchesByKind ==
  ASSUME NEW f, NEW pl, NEW matching
  PROVE  LET met == Json!MatchesGiven(f, pl, matching) IN
         /\ f.op = "eq" => (met <=> Json!Field(pl, f.key) = {f.value})
         /\ f.op = "range" =>
              (met <=> \E v \in Json!Field(pl, f.key) : Json!InInterval(v, f.gte, f.lte))
         /\ f.op = "in" => (met <=> \E v \in Json!Field(pl, f.key) : v \in f.values)
         /\ f.op = "contains" =>
              (met <=> \E v \in Json!Field(pl, f.key) : Json!Holds(v, f.value))
         /\ f.op = "and" => (met <=> f.of \subseteq matching)
         /\ f.op = "or" => (met <=> f.of \cap matching # {})
         /\ f.op = "not" => (met <=> f.of \notin matching)
BY Zenon DEF Json!MatchesGiven

(* What each kind of filter matches. *)
LEMMA FilterMeans ==
  ASSUME NEW pl \in Payloads
  PROVE  /\ \A f \in Queries : Matches(Json!Not(f), pl) <=> ~ Matches(f, pl)
         /\ \A fs \in Combined :
              /\ Matches(Json!And(fs), pl) <=> \A f \in fs : Matches(f, pl)
              /\ Matches(Json!Or(fs), pl) <=> \E f \in fs : Matches(f, pl)
         /\ \A key \in Keys, gte \in Bounds, lte \in Bounds :
              Matches(Json!Interval(key, gte, lte), pl) <=>
                \E v \in Json!Field(pl, key) : Json!InInterval(v, gte, lte)
         /\ \A key \in Keys, v \in Values :
              /\ Matches(Json!Eq(key, v), pl) <=> Json!Field(pl, key) = {v}
              /\ Matches(Json!Contains(key, v), pl) <=>
                   \E w \in Json!Field(pl, key) : Json!Holds(w, v)
         /\ \A key \in Keys, vs \in SUBSET Values :
              Matches(Json!In(key, vs), pl) <=> \E v \in Json!Field(pl, key) : v \in vs
<1> DEFINE matching(f) == {g \in Json!Parts(f) : Matches(g, pl)}
<1>1. \A f \in Asked : Matches(f, pl) <=> Json!MatchesGiven(f, pl, matching(f))
  BY FilterAssumption
<1> HIDE DEF matching
<1>2. ASSUME NEW f \in Queries
      PROVE  Matches(Json!Not(f), pl) <=> ~ Matches(f, pl)
  <2>1. Json!Not(f) \in Asked
    BY DEF Asked
  <2>2. Json!Not(f).op = "not" /\ Json!Not(f).of = f
    BY DEF Json!Not
  <2>3. Json!Parts(Json!Not(f)) = {f}
    BY <2>2 DEF Json!Parts
  <2>4. Json!MatchesGiven(Json!Not(f), pl, matching(Json!Not(f))) <=> f \notin matching(Json!Not(f))
    BY <2>2, MatchesByKind
  <2> QED
    BY <1>1, <2>1, <2>3, <2>4 DEF matching
<1>3. ASSUME NEW fs \in Combined
      PROVE  /\ Matches(Json!And(fs), pl) <=> \A f \in fs : Matches(f, pl)
             /\ Matches(Json!Or(fs), pl) <=> \E f \in fs : Matches(f, pl)
  <2>1. Json!And(fs) \in Asked /\ Json!Or(fs) \in Asked
    BY DEF Asked
  <2>2. /\ Json!And(fs).op = "and" /\ Json!And(fs).of = fs
        /\ Json!Or(fs).op = "or" /\ Json!Or(fs).of = fs
    BY DEF Json!And, Json!Or
  <2>3. Json!Parts(Json!And(fs)) = fs /\ Json!Parts(Json!Or(fs)) = fs
    BY <2>2 DEF Json!Parts
  <2>4. /\ Json!MatchesGiven(Json!And(fs), pl, matching(Json!And(fs))) <=>
             fs \subseteq matching(Json!And(fs))
        /\ Json!MatchesGiven(Json!Or(fs), pl, matching(Json!Or(fs))) <=>
             fs \cap matching(Json!Or(fs)) # {}
    BY <2>2, MatchesByKind
  <2>5. Matches(Json!And(fs), pl) <=> fs \subseteq matching(Json!And(fs))
    BY <1>1, <2>1, <2>4
  <2>6. Matches(Json!Or(fs), pl) <=> fs \cap matching(Json!Or(fs)) # {}
    BY <1>1, <2>1, <2>4
  <2> QED
    BY <2>3, <2>5, <2>6 DEF matching
<1>4. ASSUME NEW key \in Keys, NEW gte \in Bounds, NEW lte \in Bounds
      PROVE  Matches(Json!Interval(key, gte, lte), pl) <=>
               \E v \in Json!Field(pl, key) : Json!InInterval(v, gte, lte)
  <2> DEFINE f == Json!Interval(key, gte, lte)
  <2>1. f \in Asked
    BY DEF Asked
  <2>2. f.op = "range" /\ f.key = key /\ f.gte = gte /\ f.lte = lte
    BY DEF Json!Interval
  <2> HIDE DEF f
  <2>3. Json!MatchesGiven(f, pl, matching(f)) <=>
          \E v \in Json!Field(pl, key) : Json!InInterval(v, gte, lte)
    BY <2>2, MatchesByKind
  <2>4. Matches(f, pl) <=> Json!MatchesGiven(f, pl, matching(f))
    BY <1>1, <2>1
  <2> QED
    BY <2>3, <2>4 DEF f
<1>5. ASSUME NEW key \in Keys, NEW v \in Values
      PROVE  Matches(Json!Eq(key, v), pl) <=> Json!Field(pl, key) = {v}
  <2> DEFINE f == Json!Eq(key, v)
  <2>1. f \in Asked
    BY DEF Asked
  <2>2. f.op = "eq" /\ f.key = key /\ f.value = v
    BY DEF Json!Eq
  <2> HIDE DEF f
  <2>3. Json!MatchesGiven(f, pl, matching(f)) <=> Json!Field(pl, key) = {v}
    BY <2>2, MatchesByKind
  <2>4. Matches(f, pl) <=> Json!MatchesGiven(f, pl, matching(f))
    BY <1>1, <2>1
  <2> QED
    BY <2>3, <2>4 DEF f
<1>6. ASSUME NEW key \in Keys, NEW v \in Values
      PROVE  Matches(Json!Contains(key, v), pl) <=>
               \E w \in Json!Field(pl, key) : Json!Holds(w, v)
  <2> DEFINE f == Json!Contains(key, v)
  <2>1. f \in Asked
    BY DEF Asked
  <2>2. f.op = "contains" /\ f.key = key /\ f.value = v
    BY DEF Json!Contains
  <2> HIDE DEF f
  <2>3. Json!MatchesGiven(f, pl, matching(f)) <=>
          \E w \in Json!Field(pl, key) : Json!Holds(w, v)
    BY <2>2, MatchesByKind
  <2>4. Matches(f, pl) <=> Json!MatchesGiven(f, pl, matching(f))
    BY <1>1, <2>1
  <2> QED
    BY <2>3, <2>4 DEF f
<1>7. ASSUME NEW key \in Keys, NEW vs \in SUBSET Values
      PROVE  Matches(Json!In(key, vs), pl) <=> \E v \in Json!Field(pl, key) : v \in vs
  <2> DEFINE f == Json!In(key, vs)
  <2>1. f \in Asked
    BY DEF Asked
  <2>2. f.op = "in" /\ f.key = key /\ f.values = vs
    BY DEF Json!In
  <2> HIDE DEF f
  <2>3. Json!MatchesGiven(f, pl, matching(f)) <=>
          \E x \in Json!Field(pl, key) : x \in vs
    BY <2>2, MatchesByKind
  <2>4. Matches(f, pl) <=> Json!MatchesGiven(f, pl, matching(f))
    BY <1>1, <2>1
  <2> QED
    BY <2>3, <2>4 DEF f
<1> QED
  BY <1>2, <1>3, <1>4, <1>5, <1>6, <1>7

LEMMA IntervalMeans ==
  ASSUME NEW pl \in Payloads, NEW key \in Keys, NEW gte \in Bounds, NEW lte \in Bounds
  PROVE  Matches(Json!Interval(key, gte, lte), pl) <=>
           \E v \in Json!Field(pl, key) : Json!InInterval(v, gte, lte)
BY FilterMeans

(* A payload has a field, or it has not. *)
LEMMA FieldIsOne ==
  ASSUME NEW pl \in Payloads, NEW key, NEW v \in Json!Field(pl, key)
  PROVE  Json!Field(pl, key) = {v}
<1>1. \A x, y \in pl : x = y
  BY FilterAssumption
<1>2. \A u, w \in Json!Field(pl, key) : u = w
  BY <1>1 DEF Json!Field
<1> QED
  BY <1>2

(* What a search finds is live. *)
LEMMA FoundBy ==
  ASSUME FInv, NEW f, NEW id
  PROVE  id \in Found(f) <=> id \in DOMAIN id_to_pos /\ Matches(f, Entry(id).payload)
BY FoundAll DEF Matching

(***************************************************************************)
(* payload.rs:22-83: the filters' promises hold for every index, and for   *)
(* all filters and payloads that the code's recursion evaluates.           *)
(***************************************************************************)
THEOREM FiltersAreSets == Spec => []FiltersFindSets
<1>1. ASSUME FInv
      PROVE  FiltersFindSets
  <2> DEFINE live == DOMAIN id_to_pos
             Of(id) == Entry(id).payload
  <2>1. \A id \in live : Of(id) \in Payloads
    BY <1>1, LivePayloads
  <2>2. \A f, id : id \in Found(f) <=> id \in live /\ Matches(f, Of(id))
    BY <1>1, FoundBy
  <2> HIDE DEF live, Of
  <2>3. Found(NoFilter) = live
    <3>1. \A pl \in Payloads : Matches(NoFilter, pl)
      BY FilterAssumption
    <3> QED
      BY <2>1, <2>2, <3>1
  <2>4. ASSUME NEW f \in Queries
        PROVE  Found(Json!Not(f)) = live \ Found(f)
    BY <2>1, <2>2, FilterMeans
  <2>5. ASSUME NEW fs \in Combined
        PROVE  /\ Found(Json!And(fs)) = {id \in live : \A f \in fs : id \in Found(f)}
               /\ Found(Json!Or(fs)) = UNION {Found(f) : f \in fs}
    <3>1. \A pl \in Payloads :
            /\ Matches(Json!And(fs), pl) <=> \A f \in fs : Matches(f, pl)
            /\ Matches(Json!Or(fs), pl) <=> \E f \in fs : Matches(f, pl)
      BY FilterMeans
    <3>2. Found(Json!And(fs)) = {id \in live : \A f \in fs : id \in Found(f)}
      BY <2>1, <2>2, <3>1
    <3>3. Found(Json!Or(fs)) = UNION {Found(f) : f \in fs}
      BY <2>1, <2>2, <3>1
    <3> QED
      BY <3>2, <3>3
  <2>6. ASSUME NEW key \in Keys, NEW low \in Numbers, NEW high \in Numbers
        PROVE  Found(Json!Interval(key, {low}, {high})) =
                 Found(Json!Interval(key, {low}, {})) \cap Found(Json!Interval(key, {}, {high}))
    <3>1. {low} \in Bounds /\ {high} \in Bounds /\ {} \in Bounds
      BY DEF Bounds
    <3>2. \A v : \A x, y \in Json!AsF64(v) : x = y
      BY DEF Json!AsF64
    <3>3. \A v : Json!InInterval(v, {low}, {high}) <=>
                   Json!InInterval(v, {low}, {}) /\ Json!InInterval(v, {}, {high})
      BY <3>2 DEF Json!InInterval
    <3>4. ASSUME NEW pl \in Payloads
          PROVE  Matches(Json!Interval(key, {low}, {high}), pl) <=>
                   /\ Matches(Json!Interval(key, {low}, {}), pl)
                   /\ Matches(Json!Interval(key, {}, {high}), pl)
      <4>1. \A v, w \in Json!Field(pl, key) : v = w
        BY FieldIsOne
      <4>2. /\ Matches(Json!Interval(key, {low}, {high}), pl) <=>
                  \E v \in Json!Field(pl, key) : Json!InInterval(v, {low}, {high})
            /\ Matches(Json!Interval(key, {low}, {}), pl) <=>
                  \E v \in Json!Field(pl, key) : Json!InInterval(v, {low}, {})
            /\ Matches(Json!Interval(key, {}, {high}), pl) <=>
                  \E v \in Json!Field(pl, key) : Json!InInterval(v, {}, {high})
        BY <3>1, IntervalMeans
      <4> QED
        BY <3>3, <4>1, <4>2, Zenon
    <3> QED
      BY <2>1, <2>2, <3>4
  <2>7. ASSUME NEW key \in Keys, NEW vs \in SUBSET Values
        PROVE  Found(Json!In(key, vs)) = UNION {Found(Json!Eq(key, v)) : v \in vs}
    <3>1. ASSUME NEW pl \in Payloads
          PROVE  Matches(Json!In(key, vs), pl) <=> \E v \in vs : Matches(Json!Eq(key, v), pl)
      <4>1. Matches(Json!In(key, vs), pl) <=> \E v \in Json!Field(pl, key) : v \in vs
        BY FilterMeans
      <4>2. \A v \in vs : Matches(Json!Eq(key, v), pl) <=> Json!Field(pl, key) = {v}
        BY FilterMeans
      <4>3. \A v : v \in Json!Field(pl, key) <=> Json!Field(pl, key) = {v}
        BY FieldIsOne
      <4> QED
        BY <4>1, <4>2, <4>3
    <3>2. \A id : id \in Found(Json!In(key, vs)) <=> \E v \in vs : id \in Found(Json!Eq(key, v))
      BY <2>1, <2>2, <3>1
    <3> QED
      BY <3>2
  <2>8. ASSUME NEW key \in Keys, NEW v \in Values, ~ Json!Is("array", v)
        PROVE  Found(Json!Eq(key, v)) \subseteq Found(Json!Contains(key, v))
    <3>1. Json!Holds(v, v)
      BY <2>8 DEF Json!Holds
    <3>2. \A pl \in Payloads :
            /\ Matches(Json!Eq(key, v), pl) <=> Json!Field(pl, key) = {v}
            /\ Matches(Json!Contains(key, v), pl) <=>
                 \E w \in Json!Field(pl, key) : Json!Holds(w, v)
      BY FilterMeans
    <3>3. ASSUME NEW pl \in Payloads, Matches(Json!Eq(key, v), pl)
          PROVE  Matches(Json!Contains(key, v), pl)
      <4>1. Json!Field(pl, key) = {v}
        BY <3>2, <3>3, Zenon
      <4>2. \E w \in Json!Field(pl, key) : Json!Holds(w, v)
        BY <3>1, <4>1, Zenon
      <4> QED
        BY <3>2, <4>2
    <3> QED
      BY <2>1, <2>2, <3>3
  <2> QED
    BY <2>3, <2>4, <2>5, <2>6, <2>7, <2>8 DEF FiltersFindSets, live
<1> QED
  BY <1>1, InitFInv, NextFInv, PTL DEF Spec

(* Which filters an absent payload matches, by induction on their depth. *)
LEMMA VacuousFilters ==
  ASSUME NoPayload \in Payloads, NEW f \in Queries, Matches(f, NoPayload), NEW pl \in Payloads
  PROVE  Matches(f, pl)
<1> DEFINE Vacuous(g) == Matches(g, NoPayload) => Matches(g, pl)
           T == {n \in Nat : \A g \in Queries : Nesting(g) < n => Vacuous(g)}
<1>1. /\ \A g \in Queries :
           /\ g \in Asked /\ Nesting(g) \in Nat
           /\ g.op \in {"eq", "range", "in", "contains", "and", "or"}
           /\ \A h \in Json!Parts(g) : h \in Queries /\ Nesting(h) < Nesting(g)
      /\ \A p \in Payloads, g \in Asked :
           Matches(g, p) <=>
             Json!MatchesGiven(g, p, {h \in Json!Parts(g) : Matches(h, p)})
  BY FilterAssumption DEF Asked
<1>2. \A key : Json!Field(NoPayload, key) = {}
  BY DEF NoPayload, Json!Field
<1>3. 0 \in T
  BY <1>1
<1>4. ASSUME NEW n \in Nat, n \in T
      PROVE  n + 1 \in T
  <2>1. ASSUME NEW g \in Queries, Nesting(g) < n + 1, Matches(g, NoPayload)
        PROVE  Matches(g, pl)
    <3> DEFINE bare == {h \in Json!Parts(g) : Matches(h, NoPayload)}
               full == {h \in Json!Parts(g) : Matches(h, pl)}
    <3>1. Json!MatchesGiven(g, NoPayload, bare) /\ (Json!MatchesGiven(g, pl, full) => Matches(g, pl))
      BY <1>1, <2>1
    <3>2. bare \subseteq full
      <4> SUFFICES ASSUME NEW h \in Json!Parts(g), Matches(h, NoPayload)
                   PROVE  Matches(h, pl)
        OBVIOUS
      <4>1. h \in Queries /\ Nesting(h) \in Nat /\ Nesting(h) < Nesting(g) /\ Nesting(g) \in Nat
        BY <1>1
      <4>2. Nesting(h) < n
        BY <2>1, <4>1
      <4> QED
        BY <1>4, <4>1, <4>2
    <3> HIDE DEF bare, full
    <3>3. g.op \in {"and", "or"}
      <4>1. g.op # "eq" /\ g.op # "range" /\ g.op # "in" /\ g.op # "contains"
        BY <1>2, <3>1, MatchesByKind
      <4> QED
        BY <1>1, <4>1
    <3>4. CASE g.op = "and"
      <4>1. g.of \subseteq bare
        BY <3>1, <3>4, MatchesByKind
      <4>2. Json!MatchesGiven(g, pl, full)
        BY <3>2, <3>4, <4>1, MatchesByKind
      <4> QED
        BY <3>1, <4>2
    <3>5. CASE g.op = "or"
      <4>1. g.of \cap bare # {}
        BY <3>1, <3>5, MatchesByKind
      <4>2. g.of \cap full # {}
        BY <3>2, <4>1
      <4>3. Json!MatchesGiven(g, pl, full)
        BY <3>5, <4>2, MatchesByKind
      <4> QED
        BY <3>1, <4>3
    <3> QED
      BY <3>3, <3>4, <3>5
  <2> QED
    BY <2>1
<1> HIDE DEF T
<1>5. Nat \subseteq T
  BY <1>3, <1>4, NatSetInduction
<1>6. Nesting(f) + 1 \in T /\ Nesting(f) < Nesting(f) + 1
  BY <1>1, <1>5
<1>7. Vacuous(f)
  BY <1>6 DEF T
<1> QED
  BY <1>7

(***************************************************************************)
(* payload.rs:60-62: a filter without negations that finds a vector        *)
(* without a payload finds every vector, however deep it is.               *)
(***************************************************************************)
THEOREM BareVectorsAreFoundByVacuousFilters == Spec => []BareVectorsNeedVacuousFilters
<1>1. ASSUME FInv
      PROVE  BareVectorsNeedVacuousFilters
  <2> SUFFICES ASSUME NEW f \in Queries, NEW id \in Found(f), Entry(id).payload = NoPayload
               PROVE  Found(f) = DOMAIN id_to_pos
    BY DEF BareVectorsNeedVacuousFilters
  <2>1. id \in DOMAIN id_to_pos /\ Matches(f, NoPayload)
    BY <1>1, FoundBy
  <2>2. NoPayload \in Payloads
    BY <1>1, <2>1, LivePayloads
  <2>3. \A x \in DOMAIN id_to_pos : Matches(f, Entry(x).payload)
    BY <1>1, <2>1, <2>2, LivePayloads, VacuousFilters
  <2> QED
    BY <1>1, <2>3, FoundBy
<1> QED
  BY <1>1, InitFInv, NextFInv, PTL DEF Spec

=============================================================================
