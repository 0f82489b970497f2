------------------------ MODULE SnapshotFormatProofs ------------------------
(***************************************************************************)
(* Lemmas about snapshot files: what the readers find in a file that was   *)
(* written for an index, in one that was cut short, and the maps that they *)
(* build again.                                                            *)
(***************************************************************************)
EXTENDS SnapshotFormat, TopKProofs, SequenceTheorems

(* A header, counters and sections. *)
File(h, c, s) == <<h, c>> \o s

LEMMA FileFacts ==
  ASSUME NEW S, NEW s \in Seq(S), NEW h, NEW c
  PROVE  /\ Len(s) \in Nat /\ Len(File(h, c, s)) = Len(s) + 2
         /\ DOMAIN File(h, c, s) = 1 .. Len(s) + 2
         /\ File(h, c, s)[1] = h /\ File(h, c, s)[2] = c
         /\ \A i \in 1 .. Len(s) : File(h, c, s)[i + 2] = s[i]
<1> DEFINE front == <<h, c>>
           file == front \o s
           T == {h, c} \cup S
<1>1. front \in Seq(T) /\ Len(front) = 2 /\ front[1] = h /\ front[2] = c
  OBVIOUS
<1>2. s \in Seq(T) /\ Len(s) \in Nat
  OBVIOUS
<1> HIDE DEF front, T
<1>3. file \in Seq(T) /\ Len(file) = Len(front) + Len(s)
      /\ \A i \in 1 .. Len(front) + Len(s) :
           file[i] = IF i <= Len(front) THEN front[i] ELSE s[i - Len(front)]
  BY <1>1, <1>2, ConcatProperties
<1> HIDE DEF file
<1>4. DOMAIN file = 1 .. Len(s) + 2 /\ Len(file) = Len(s) + 2
  BY <1>1, <1>2, <1>3
<1>5. file[1] = h /\ file[2] = c
  BY <1>1, <1>2, <1>3, <1>4
<1>6. \A i \in 1 .. Len(s) : file[i + 2] = s[i]
  BY <1>1, <1>2, <1>3, <1>4
<1> QED
  BY <1>2, <1>4, <1>5, <1>6 DEF File, file, front

(* The first n sections of a file, without the header. *)
Body(file, n) == Tail(SubSeq(file, 1, n))

LEMMA BodyFacts ==
  ASSUME NEW S, NEW s \in Seq(S), NEW h, NEW c, NEW n \in 1 .. Len(s) + 2
  PROVE  LET file == File(h, c, s) IN
         /\ SubSeq(file, 1, n) # << >> /\ SubSeq(file, 1, n)[1] = h
         /\ Body(file, n) = [i \in 1 .. n - 1 |-> file[i + 1]]
         /\ Len(Body(file, n)) = n - 1
         /\ n = 1 => Body(file, n) = << >>
<1> DEFINE file == File(h, c, s)
           T == {file[i] : i \in 1 .. Len(s) + 2}
<1>1. Len(s) \in Nat /\ Len(file) = Len(s) + 2 /\ DOMAIN file = 1 .. Len(s) + 2 /\ file[1] = h
  BY FileFacts
<1>2. SubSeq(file, 1, n) = [i \in 1 .. n |-> file[i]]
  <2>1. n - 1 + 1 = n /\ \A i \in Nat : 1 + i - 1 = i
    BY <1>1
  <2> HIDE DEF file
  <2> QED
    BY <1>1, <2>1
<1> DEFINE front == [i \in 1 .. n |-> file[i]]
<1>3. \A i \in 1 .. n : file[i] \in T
  BY <1>1
<1> HIDE DEF file, T
<1>4. front \in [1 .. n -> T] /\ n \in Nat
  BY <1>1, <1>3
<1>5. front \in Seq(T) /\ Len(front) = n
  BY <1>4
<1>6. front # << >> /\ front[1] = h
  BY <1>1, <1>5
<1>7. Tail(front) = [i \in 1 .. n - 1 |-> file[i + 1]]
  <2> DEFINE rest == Tail(front)
  <2>1. rest \in Seq(T) /\ Len(rest) = Len(front) - 1
        /\ \A i \in 1 .. Len(rest) : rest[i] = front[i + 1]
    BY <1>5, <1>6, HeadTailProperties
  <2>2. \A i \in 1 .. n - 1 : front[i + 1] = file[i + 1]
    BY <1>4
  <2> HIDE DEF front, rest
  <2>3. Len(rest) = n - 1 /\ rest = [i \in 1 .. Len(rest) |-> rest[i]]
    BY <1>5, <2>1
  <2>4. \A i \in 1 .. n - 1 : rest[i] = file[i + 1]
    BY <2>1, <2>2, <2>3
  <2> QED
    BY <2>3, <2>4 DEF rest
<1>8. Len([i \in 1 .. n - 1 |-> file[i + 1]]) = n - 1
  BY <1>4
<1>9. n = 1 => Tail(front) = << >>
  <2>1. Tail(front) \in Seq(T) /\ Len(Tail(front)) = Len(front) - 1
    BY <1>5, <1>6, HeadTailProperties
  <2>2. n = 1 => Len(Tail(front)) = 0
    BY <1>5, <2>1
  <2> HIDE DEF front
  <2> QED
    BY <2>1, <2>2, EmptySeq
<1> QED
  BY <1>2, <1>6, <1>7, <1>8, <1>9 DEF Body, file

(* The whole file: nothing is cut. *)
LEMMA WholeFile ==
  ASSUME NEW S, NEW s \in Seq(S), NEW h, NEW c
  PROVE  LET file == File(h, c, s) IN SubSeq(file, 1, Len(s) + 2) = file
<1> DEFINE file == File(h, c, s)
<1>1. Len(s) \in Nat /\ Len(file) = Len(s) + 2
  BY FileFacts
<1>2. file \in Seq({h, c} \cup S)
  <2>1. <<h, c>> \in Seq({h, c} \cup S) /\ s \in Seq({h, c} \cup S)
    OBVIOUS
  <2> QED
    BY <2>1 DEF File
<1> HIDE DEF file
<1> QED
  BY <1>1, <1>2 DEF file

(* What follows the counters, if it is there. *)
LEMMA TakeFacts ==
  ASSUME NEW S, NEW s \in Seq(S), NEW h, NEW c, NEW n \in 2 .. Len(s) + 2
  PROVE  LET body == Body(File(h, c, s), n) IN
         /\ body # << >> /\ body[1] = c
         /\ Take(body, Len(s)) = IF n = Len(s) + 2 THEN {s} ELSE {}
<1> DEFINE file == File(h, c, s)
           body == Body(file, n)
<1>1. Len(s) \in Nat /\ file[2] = c /\ \A i \in 1 .. Len(s) : file[i + 2] = s[i]
  BY FileFacts
<1>2. n \in 1 .. Len(s) + 2
  BY <1>1
<1>3. body = [i \in 1 .. n - 1 |-> file[i + 1]] /\ Len(body) = n - 1
  BY <1>2, BodyFacts
<1> HIDE DEF file, body
<1>4. body # << >> /\ body[1] = c
  BY <1>1, <1>2, <1>3
<1>5. CASE n = Len(s) + 2
  <2>1. Len(body) > Len(s)
    BY <1>1, <1>3, <1>5
  <2>2. SubSeq(body, 2, Len(s) + 1) = s
    <3>1. SubSeq(body, 2, Len(s) + 1) = [i \in 1 .. Len(s) |-> body[i + 1]]
      <4>1. (Len(s) + 1) - 2 + 1 = Len(s) /\ \A i \in Nat : 2 + i - 1 = i + 1
        BY <1>1
      <4> QED
        BY <4>1
    <3>2. \A i \in 1 .. Len(s) : body[i + 1] = s[i]
      BY <1>1, <1>3, <1>5
    <3>3. s = [i \in 1 .. Len(s) |-> s[i]]
      OBVIOUS
    <3> QED
      BY <3>1, <3>2, <3>3
  <2> QED
    BY <1>4, <1>5, <2>1, <2>2 DEF Take, body, file
<1>6. CASE n # Len(s) + 2
  <2>1. ~ Len(body) > Len(s)
    BY <1>1, <1>3, <1>6
  <2> QED
    BY <1>4, <1>6, <2>1 DEF Take, body, file
<1> QED
  BY <1>5, <1>6

-----------------------------------------------------------------------------
(* Headers. *)

(* Each metric has a tag of its own. *)
LEMMA TagsAreUnique == \A metric \in Metrics : FromTag(ToTag(metric)) = {metric}
BY DEF Metrics, ToTag, FromTag

LEMMA HeaderFacts ==
  ASSUME NEW metric \in Metrics, NEW dim \in 1 .. MaxDim, NEW type \in {TYPE_FLAT, TYPE_HNSW}
  PROVE  LET h == WriteHeader(type, metric, dim) IN
         HeaderOk(h) /\ MetricOf(h) = metric /\ h.dim = dim /\ h.index_type = type
<1>1. FromTag(ToTag(metric)) = {metric}
  BY TagsAreUnique
<1>2. WriteHeader(type, metric, dim).metric = ToTag(metric)
  BY DEF WriteHeader
<1>3. MetricOf(WriteHeader(type, metric, dim)) = metric
  BY <1>1, <1>2 DEF MetricOf
<1>4. HeaderOk(WriteHeader(type, metric, dim))
  BY <1>1, <1>2 DEF HeaderOk, WriteHeader
<1> QED
  BY <1>3, <1>4 DEF WriteHeader

(* An empty file. *)
LEMMA ReadNothing == ReadAny(<< >>) = {}
BY DEF ReadAny

(* A section that is replaced. *)
LEMMA FileExcept ==
  ASSUME NEW S, NEW s \in Seq(S), NEW h, NEW c, NEW i \in 1 .. Len(s), NEW e \in S
  PROVE  [File(h, c, s) EXCEPT ![i + 2] = e] = File(h, c, [s EXCEPT ![i] = e])
<1> DEFINE file == File(h, c, s)
           s2 == [s EXCEPT ![i] = e]
           file2 == File(h, c, s2)
<1>1. s2 \in Seq(S) /\ Len(s2) = Len(s) /\ \A j \in 1 .. Len(s) : s2[j] = IF j = i THEN e ELSE s[j]
  OBVIOUS
<1> HIDE DEF s2
<1>2. /\ Len(s) \in Nat /\ DOMAIN file = 1 .. Len(s) + 2 /\ file[1] = h /\ file[2] = c
      /\ \A j \in 1 .. Len(s) : file[j + 2] = s[j]
  BY FileFacts
<1>3. /\ DOMAIN file2 = 1 .. Len(s) + 2 /\ file2[1] = h /\ file2[2] = c
      /\ \A j \in 1 .. Len(s) : file2[j + 2] = s2[j]
  BY <1>1, FileFacts
<1>4. file2 = [j \in DOMAIN file2 |-> file2[j]]
  <2>1. <<h, c>> \in Seq({h, c} \cup S) /\ s2 \in Seq({h, c} \cup S)
    BY <1>1
  <2>2. file2 \in Seq({h, c} \cup S)
    BY <2>1, ConcatProperties DEF File
  <2> HIDE DEF file2
  <2> QED
    BY <2>2
<1> HIDE DEF file, file2
<1>5. \A j \in 1 .. Len(s) + 2 : file2[j] = IF j = i + 2 THEN e ELSE file[j]
  <2> TAKE j \in 1 .. Len(s) + 2
  <2>1. j = 1 \/ j = 2 \/ \E k \in 1 .. Len(s) : j = k + 2
    <3>1. j > 2 => j - 2 \in 1 .. Len(s) /\ j = (j - 2) + 2
      BY <1>2
    <3> QED
      BY <1>2, <3>1
  <2>2. ASSUME NEW k \in 1 .. Len(s), j = k + 2
        PROVE  file2[j] = IF j = i + 2 THEN e ELSE file[j]
    BY <1>1, <1>2, <1>3, <2>2
  <2>3. j = 1 \/ j = 2 => j # i + 2
    BY <1>2
  <2> QED
    BY <1>2, <1>3, <2>1, <2>2, <2>3
<1>6. [file EXCEPT ![i + 2] = e] = [j \in 1 .. Len(s) + 2 |-> IF j = i + 2 THEN e ELSE file[j]]
  BY <1>2
<1>7. file2 = [j \in 1 .. Len(s) + 2 |-> IF j = i + 2 THEN e ELSE file[j]]
  BY <1>3, <1>4, <1>5
<1> QED
  BY <1>6, <1>7 DEF file, file2, s2

-----------------------------------------------------------------------------
(* Flat indexes. *)

UniqueIds(entries) == \A i, j \in DOMAIN entries : entries[i].id = entries[j].id => i = j

FlatLoaded(metric, dim, entries) ==
  [metric |-> metric, dim |-> dim, entries |-> entries, id_to_pos |-> EntryPositions(entries)]

(* All of the file is needed, and no id twice. *)
LEMMA FlatRead ==
  ASSUME NEW metric \in Metrics, NEW dim \in 1 .. MaxDim, NEW S, NEW s \in Seq(S),
         NEW n \in 0 .. Len(s) + 2
  PROVE  ReadAny(SubSeq(File(WriteHeader(TYPE_FLAT, metric, dim), [count |-> Len(s)], s), 1, n)) =
           IF n = Len(s) + 2 /\ UniqueIds(s) THEN {FlatLoaded(metric, dim, s)} ELSE {}
<1> DEFINE h == WriteHeader(TYPE_FLAT, metric, dim)
           c == [count |-> Len(s)]
           file == File(h, c, s)
           body == Body(file, n)
           result == IF n = Len(s) + 2 /\ UniqueIds(s) THEN {FlatLoaded(metric, dim, s)} ELSE {}
<1> SUFFICES ReadAny(SubSeq(file, 1, n)) = result
  OBVIOUS
<1>1. Len(s) \in Nat /\ n \in Nat
  OBVIOUS
<1>2. HeaderOk(h) /\ MetricOf(h) = metric /\ h.dim = dim /\ h.index_type = TYPE_FLAT
  BY HeaderFacts
<1>3. c.count = Len(s)
  OBVIOUS
<1> HIDE DEF h, c
<1>4. CASE n = 0
  <2>1. SubSeq(file, 1, n) = << >>
    BY <1>4, SubSeqEmpty
  <2>2. ~ n = Len(s) + 2
    BY <1>1, <1>4
  <2>3. result = {}
    BY <2>2
  <2> HIDE DEF result, file
  <2> QED
    BY <2>1, <2>3, ReadNothing
<1>5. CASE n \in 1 .. Len(s) + 2
  <2>1. /\ SubSeq(file, 1, n) # << >> /\ SubSeq(file, 1, n)[1] = h
        /\ Len(body) = n - 1
    BY <1>5, BodyFacts
  <2>2. ReadAny(SubSeq(file, 1, n)) = ReadFlatBody(h, body)
    BY <1>2, <2>1 DEF ReadAny, Body
  <2>3. CASE n = 1
    <3>1. body = << >>
      BY <1>5, <2>3, BodyFacts
    <3>2. ReadFlatBody(h, body) = {}
      BY <3>1 DEF ReadFlatBody
    <3>3. ~ n = Len(s) + 2
      BY <1>1, <2>3
    <3>4. result = {}
      BY <3>3
    <3> HIDE DEF result, file, body
    <3> QED
      BY <2>2, <3>2, <3>4
  <2>4. CASE n \in 2 .. Len(s) + 2
    <3>1. /\ body # << >> /\ body[1] = c
          /\ Take(body, Len(s)) = IF n = Len(s) + 2 THEN {s} ELSE {}
      BY <2>4, TakeFacts
    <3> HIDE DEF body
    <3>2. ReadFlatBody(h, body) =
            {FlatLoaded(metric, dim, entries) : entries \in {es \in Take(body, Len(s)) : UniqueIds(es)}}
      BY <1>2, <1>3, <3>1 DEF ReadFlatBody, FlatLoaded, UniqueIds
    <3>3. ReadFlatBody(h, body) = result
      BY <3>1, <3>2
    <3> HIDE DEF result, file
    <3> QED
      BY <2>2, <3>3
  <2> QED
    BY <1>1, <1>5, <2>3, <2>4
<1> QED
  BY <1>1, <1>4, <1>5

(* The entries that are at the first i positions, in a map of all. *)
Upto(entries, map, i) == [id \in {entries[j].id : j \in 1 .. i} |-> map[id]]

(* Entries and map agree, and there is nothing else in the map. *)
MapsEntries(entries, map) ==
  /\ map = [id \in {entries[j].id : j \in 1 .. Len(entries)} |-> map[id]]
  /\ \A j \in 1 .. Len(entries) : map[entries[j].id] = j - 1

LEMMA EntryPositionsAre ==
  ASSUME NEW S, NEW entries \in Seq(S), NEW map, MapsEntries(entries, map)
  PROVE  EntryPositions(entries) = map
<1> DEFINE n == Len(entries)
           Step(f, i) == IF i = 0 THEN [id \in {} |-> 0] ELSE MapEntry(f[i - 1], entries[i].id, i - 1)
           upto == [i \in 0 .. n |-> Upto(entries, map, i)]
           built == CHOOSE f : f = [i \in 0 .. n |-> Step(f, i)]
<1>1. n \in Nat
  OBVIOUS
<1> HIDE DEF n
<1>2. ASSUME NEW i \in 1 .. n
      PROVE  MapEntry(Upto(entries, map, i - 1), entries[i].id, i - 1) = Upto(entries, map, i)
  <2>1. {entries[j].id : j \in 1 .. i} = {entries[j].id : j \in 1 .. i - 1} \cup {entries[i].id}
    <3>1. 1 .. i = (1 .. i - 1) \cup {i}
      BY <1>1
    <3> QED
      BY <3>1
  <2>2. map[entries[i].id] = i - 1
    BY DEF MapsEntries, n
  <2> DEFINE before == {entries[j].id : j \in 1 .. i - 1}
             id == entries[i].id
             p == i - 1
  <2>3. Upto(entries, map, i - 1) = [x \in before |-> map[x]]
    BY DEF Upto
  <2>4. Upto(entries, map, i) = [x \in before \cup {id} |-> map[x]]
    BY <2>1 DEF Upto
  <2>5. map[id] = p
    BY <2>2
  <2> HIDE DEF before, id, p
  <2>6. MapEntry([x \in before |-> map[x]], id, p) = [x \in before \cup {id} |-> map[x]]
    BY <2>5 DEF MapEntry
  <2> QED
    BY <2>3, <2>4, <2>6 DEF before, id, p
<1>3. Upto(entries, map, 0) = [id \in {} |-> 0]
  <2>1. {entries[j].id : j \in 1 .. 0} = {}
    OBVIOUS
  <2> QED
    BY <2>1 DEF Upto
<1>4. upto = [i \in 0 .. n |-> Step(upto, i)]
  <2>1. ASSUME NEW i \in 0 .. n
        PROVE  Upto(entries, map, i) = Step(upto, i)
    <3>1. CASE i = 0
      BY <1>3, <3>1
    <3>2. CASE i # 0
      <4>1. i \in 1 .. n /\ i - 1 \in 0 .. n
        BY <1>1, <3>2
      <4>2. upto[i - 1] = Upto(entries, map, i - 1)
        BY <4>1
      <4> QED
        BY <1>2, <3>2, <4>1, <4>2
    <3> QED
      BY <3>1, <3>2
  <2> QED
    BY <2>1
<1>5. built = [i \in 0 .. n |-> Step(built, i)]
  <2> HIDE DEF upto
  <2> QED
    BY <1>4
<1>6. EntryPositions(entries) = built[n]
  BY DEF EntryPositions, n
<1> HIDE DEF built, upto
<1> DEFINE T == [i \in 0 .. n |-> {Upto(entries, map, i)}]
<1>7. built[0] \in T[0]
  BY <1>1, <1>3, <1>5
<1>8. ASSUME NEW i \in 1 .. n, built[i - 1] \in T[i - 1]
      PROVE  built[i] \in T[i]
  <2>1. i \in 0 .. n /\ i - 1 \in 0 .. n /\ i # 0
    BY <1>1
  <2>2. built[i] = MapEntry(built[i - 1], entries[i].id, i - 1)
    BY <1>5, <2>1
  <2>3. built[i - 1] = Upto(entries, map, i - 1)
    BY <1>8, <2>1
  <2> QED
    BY <1>2, <2>1, <2>2, <2>3
<1> HIDE DEF T
<1>9. built[n] \in T[n]
  <2>1. \A i \in 0 .. n : built[i] \in T[i]
    BY <1>1, <1>7, <1>8, ChainInduction
  <2> QED
    BY <1>1, <2>1
<1>10. built[n] = Upto(entries, map, n)
  BY <1>1, <1>9 DEF T
<1>11. Upto(entries, map, n) = map
  BY DEF Upto, MapsEntries, n
<1> QED
  BY <1>6, <1>10, <1>11

-----------------------------------------------------------------------------
(* HNSW indexes. *)

RawGood(c, raw) ==
  /\ \A p \in DOMAIN raw : NodeOk(raw[p], c.node_count)
  /\ LiveCountAgrees(raw, c.live_count)

ArenaOf(raw) == [p \in DOMAIN raw |-> ArenaNode(raw[p])]

HnswLoaded(metric, dim, c, nodes) ==
  [metric |-> metric, dim |-> dim, m |-> c.m, nodes |-> nodes, id_to_pos |-> NodePositions(nodes),
   entry_point |-> IF c.entry = NO_ENTRY THEN 0 ELSE c.entry + 1,
   max_layer |-> c.max_layer, live_count |-> c.live_count]

(* All of the file is needed, all nodes have to be good, and counted right. *)
LEMMA HnswRead ==
  ASSUME NEW metric \in Metrics, NEW dim \in 1 .. MaxDim, NEW S, NEW s \in Seq(S),
         NEW c, CountersOk(c), c.node_count = Len(s), NEW n \in 0 .. Len(s) + 2
  PROVE  ReadAny(SubSeq(File(WriteHeader(TYPE_HNSW, metric, dim), c, s), 1, n)) =
           IF n = Len(s) + 2 /\ RawGood(c, s) THEN {HnswLoaded(metric, dim, c, ArenaOf(s))} ELSE {}
<1> DEFINE h == WriteHeader(TYPE_HNSW, metric, dim)
           file == File(h, c, s)
           body == Body(file, n)
           result == IF n = Len(s) + 2 /\ RawGood(c, s)
                     THEN {HnswLoaded(metric, dim, c, ArenaOf(s))} ELSE {}
<1> SUFFICES ReadAny(SubSeq(file, 1, n)) = result
  OBVIOUS
<1>1. Len(s) \in Nat /\ n \in Nat
  OBVIOUS
<1>2. HeaderOk(h) /\ MetricOf(h) = metric /\ h.dim = dim /\ h.index_type = TYPE_HNSW
  BY HeaderFacts
<1>3. h.index_type # TYPE_FLAT
  BY <1>2 DEF TYPE_FLAT, TYPE_HNSW
<1> HIDE DEF h
<1>4. CASE n = 0
  <2>1. SubSeq(file, 1, n) = << >>
    BY <1>4, SubSeqEmpty
  <2>2. ~ n = Len(s) + 2
    BY <1>1, <1>4
  <2>3. result = {}
    BY <2>2
  <2> HIDE DEF result, file
  <2> QED
    BY <2>1, <2>3, ReadNothing
<1>5. CASE n \in 1 .. Len(s) + 2
  <2>1. /\ SubSeq(file, 1, n) # << >> /\ SubSeq(file, 1, n)[1] = h
        /\ Len(body) = n - 1
    BY <1>5, BodyFacts
  <2>2. ReadAny(SubSeq(file, 1, n)) = ReadHnswBody(h, body)
    BY <1>2, <1>3, <2>1 DEF ReadAny, Body
  <2>3. CASE n = 1
    <3>1. body = << >>
      BY <1>5, <2>3, BodyFacts
    <3>2. ReadHnswBody(h, body) = {}
      BY <3>1 DEF ReadHnswBody
    <3>3. ~ n = Len(s) + 2
      BY <1>1, <2>3
    <3>4. result = {}
      BY <3>3
    <3> HIDE DEF result, file, body
    <3> QED
      BY <2>2, <3>2, <3>4
  <2>4. CASE n \in 2 .. Len(s) + 2
    <3>1. /\ body # << >> /\ body[1] = c
          /\ Take(body, Len(s)) = IF n = Len(s) + 2 THEN {s} ELSE {}
      BY <2>4, TakeFacts
    <3> HIDE DEF body
    <3>2. ReadHnswBody(h, body) =
            {HnswLoaded(metric, dim, c, ArenaOf(raw)) :
               raw \in {r \in Take(body, Len(s)) : RawGood(c, r)}}
      BY <1>2, <3>1 DEF ReadHnswBody, HnswLoaded, ArenaOf, RawGood
    <3>3. ReadHnswBody(h, body) = result
      BY <3>1, <3>2
    <3> HIDE DEF result, file
    <3> QED
      BY <2>2, <3>3
  <2> QED
    BY <1>1, <1>5, <2>3, <2>4
<1> QED
  BY <1>1, <1>4, <1>5

(* The ids of the first n nodes and nothing else, at nodes of theirs, the live
   one if there is one. *)
MapsNodes(nodes, map, n) ==
  /\ DOMAIN map = {nodes[j].id : j \in 1 .. n}
  /\ \A id \in DOMAIN map : map[id] \in 1 .. n /\ nodes[map[id]].id = id
  /\ \A j \in 1 .. n : ~ nodes[j].deleted => map[nodes[j].id] = j

OneLive(nodes) ==
  \A i, j \in DOMAIN nodes :
    ~ nodes[i].deleted /\ ~ nodes[j].deleted /\ nodes[i].id = nodes[j].id => i = j

(* One more node. *)
LEMMA MapNodeKeeps ==
  ASSUME NEW S, NEW nodes \in Seq(S), OneLive(nodes), NEW i \in 1 .. Len(nodes),
         NEW map, MapsNodes(nodes, map, i - 1)
  PROVE  MapsNodes(nodes, MapNode(map, nodes, i), i)
<1> DEFINE ids == {nodes[j].id : j \in 1 .. i - 1}
           x == nodes[i].id
           next == MapNode(map, nodes, i)
<1>1. 1 .. i = (1 .. i - 1) \cup {i} /\ i \in Nat
  OBVIOUS
<1>2. {nodes[j].id : j \in 1 .. i} = ids \cup {x}
  BY <1>1
<1>3. /\ DOMAIN map = ids
      /\ \A id \in ids : map[id] \in 1 .. i - 1 /\ nodes[map[id]].id = id
      /\ \A j \in 1 .. i - 1 : ~ nodes[j].deleted => map[nodes[j].id] = j
  BY DEF MapsNodes
<1>4. /\ DOMAIN next = ids \cup {x}
      /\ \A id \in ids \cup {x} :
           next[id] = IF id \in ids /\ (nodes[i].deleted \/ id # x) THEN map[id] ELSE i
  BY <1>3 DEF MapNode
<1> HIDE DEF next
<1>5. \A id \in ids \cup {x} : next[id] \in 1 .. i /\ nodes[next[id]].id = id
  BY <1>1, <1>3, <1>4
<1>6. ASSUME NEW j \in 1 .. i, ~ nodes[j].deleted
      PROVE  next[nodes[j].id] = j
  <2>1. CASE j = i
    BY <1>4, <1>6, <2>1
  <2>2. CASE j # i
    <3>1. j \in 1 .. i - 1
      BY <1>1, <2>2
    <3>2. nodes[i].deleted \/ nodes[j].id # x
      <4>1. i \in DOMAIN nodes /\ j \in DOMAIN nodes
        <5>1. DOMAIN nodes = 1 .. Len(nodes) /\ Len(nodes) \in Nat
          OBVIOUS
        <5> QED
          BY <1>1, <3>1, <5>1
      <4> QED
        BY <1>6, <2>2, <4>1 DEF OneLive
    <3>3. nodes[j].id \in ids /\ map[nodes[j].id] = j
      BY <1>3, <1>6, <3>1
    <3> QED
      BY <1>4, <3>2, <3>3
  <2> QED
    BY <2>1, <2>2
<1> QED
  BY <1>2, <1>4, <1>5, <1>6 DEF MapsNodes, next

LEMMA NodePositionsAre ==
  ASSUME NEW S, NEW nodes \in Seq(S), OneLive(nodes)
  PROVE  MapsNodes(nodes, NodePositions(nodes), Len(nodes))
<1> DEFINE n == Len(nodes)
           T == [i \in 0 .. n |-> {f \in [{nodes[j].id : j \in 1 .. i} -> 1 .. n] : MapsNodes(nodes, f, i)}]
           base == [id \in {} |-> 0]
           step == [i \in 1 .. n |-> [f \in T[i - 1] |-> MapNode(f, nodes, i)]]
           Step(f, i) == IF i = 0 THEN base ELSE MapNode(f[i - 1], nodes, i)
           built == CHOOSE f : f = [i \in 0 .. n |-> Step(f, i)]
<1>1. n \in Nat
  OBVIOUS
<1> HIDE DEF n
<1>2. base \in T[0]
  <2>1. {nodes[j].id : j \in 1 .. 0} = {} /\ 0 \in 0 .. n
    BY <1>1
  <2>2. base \in [{} -> 1 .. n] /\ DOMAIN base = {}
    OBVIOUS
  <2>3. MapsNodes(nodes, base, 0)
    BY <2>1, <2>2 DEF MapsNodes
  <2> HIDE DEF base
  <2> QED
    BY <2>1, <2>2, <2>3
<1> HIDE DEF base
<1>3. ASSUME NEW i \in 1 .. n, NEW f \in T[i - 1]
      PROVE  MapNode(f, nodes, i) \in T[i]
  <2>1. i - 1 \in 0 .. n /\ i \in 0 .. n
    BY <1>1
  <2>2. MapsNodes(nodes, f, i - 1)
    BY <2>1
  <2>3. MapsNodes(nodes, MapNode(f, nodes, i), i)
    BY <2>2, MapNodeKeeps DEF n
  <2>4. DOMAIN MapNode(f, nodes, i) = {nodes[j].id : j \in 1 .. i}
        /\ \A id \in DOMAIN MapNode(f, nodes, i) : MapNode(f, nodes, i)[id] \in 1 .. n
    <3>1. \A k \in 1 .. i : k \in 1 .. n
      BY <1>1
    <3> QED
      BY <2>3, <3>1 DEF MapsNodes
  <2>5. MapNode(f, nodes, i) = [id \in DOMAIN MapNode(f, nodes, i) |-> MapNode(f, nodes, i)[id]]
    BY DEF MapNode
  <2> DEFINE next == MapNode(f, nodes, i)
  <2> HIDE DEF next
  <2>6. next \in [{nodes[j].id : j \in 1 .. i} -> 1 .. n]
    BY <2>4, <2>5 DEF next
  <2> QED
    BY <2>1, <2>3, <2>6 DEF next
<1>4. Turns(n, T, step)
  <2> HIDE DEF T
  <2>1. \A i \in 1 .. n : step[i] \in [T[i - 1] -> T[i]]
    BY <1>3
  <2> HIDE DEF step
  <2> QED
    BY <2>1 DEF Turns
<1> HIDE DEF T
<1>5. PICK f : Run(f, n, T, base, step)
  <2> HIDE DEF step
  <2> QED
    BY <1>1, <1>2, <1>4, LoopSolution
<1>6. f = [i \in 0 .. n |-> Step(f, i)]
  <2>1. \A i \in 0 .. n : f[i] = Step(f, i)
    <3> TAKE i \in 0 .. n
    <3>1. CASE i = 0
      BY <1>5, <3>1 DEF Run
    <3>2. CASE i \in 1 .. n
      <4>1. f[i - 1] \in T[i - 1] /\ f[i] = step[i][f[i - 1]]
        BY <1>5, <3>2 DEF Run
      <4>2. f[i] = MapNode(f[i - 1], nodes, i)
        BY <3>2, <4>1
      <4>3. i # 0
        BY <3>2
      <4> QED
        BY <4>2, <4>3
    <3> QED
      BY <1>1, <3>1, <3>2
  <2>2. f = [i \in 0 .. n |-> f[i]]
    BY <1>5 DEF Run
  <2> QED
    BY <2>1, <2>2
<1>7. built = [i \in 0 .. n |-> Step(built, i)]
  BY <1>6
<1>8. NodePositions(nodes) = built[n]
  BY DEF NodePositions, n, base
<1> HIDE DEF built
<1>9. built[0] \in T[0]
  BY <1>1, <1>2, <1>7
<1>10. ASSUME NEW i \in 1 .. n, built[i - 1] \in T[i - 1]
       PROVE  built[i] \in T[i]
  <2>1. i \in 0 .. n /\ i # 0
    BY <1>1
  <2>2. built[i] = MapNode(built[i - 1], nodes, i)
    BY <1>7, <2>1
  <2> QED
    BY <1>3, <1>10, <2>2
<1>11. built[n] \in T[n]
  <2>1. \A i \in 0 .. n : built[i] \in T[i]
    BY <1>1, <1>9, <1>10, ChainInduction
  <2> QED
    BY <1>1, <2>1
<1> QED
  BY <1>1, <1>8, <1>11 DEF T, n

=============================================================================
