--------------------------- MODULE BlobContentProofs ---------------------------
(* Theorems about BlobContent, for any number of clients and deployments,   *)
(* any path, any capacity and size of the cache, and about the              *)
(* specification of the run that has the log worker, the usage ingest and   *)
(* this cache.                                                              *)
EXTENDS MCUsageContent, LogPipelineProofs, UsageIngestProofs, FiniteSetTheorems,
        SequenceTheorems, WellFoundedInduction, TLAPS

-----------------------------------------------------------------------------
(* Numbers.                                                                  *)

(* A set of naturals that is not empty has a least element.                  *)
LEMMA HasLeast ==
  ASSUME NEW S, S \subseteq Nat, S # {}
  PROVE  \E n \in S : \A m \in S : n <= m
<1> DEFINE R == OpToRel(<, Nat)
<1>1. IsWellFoundedOn(R, Nat)
  BY NatLessThanWellFounded
<1>2. PICK n \in S : \A m \in S : ~ (<<m, n>> \in R)
  <2> HIDE DEF R
  <2> QED  BY <1>1, WFMin
<1>3. ASSUME NEW m \in S PROVE ~ (m < n)
  BY <1>2, m \in Nat, n \in Nat DEF OpToRel
<1> QED  BY <1>3

(* Min is that element.                                                      *)
LEMMA MinIsLeast ==
  ASSUME NEW S, S \subseteq Nat, S # {}
  PROVE  Min(S) \in S /\ \A m \in S : Min(S) <= m
BY HasLeast DEF Min

(* A set of numbers up to n that is not empty has a greatest element.        *)
LEMMA HasGreatest ==
  ASSUME NEW n \in Nat, NEW S, S \subseteq 0 .. n, S # {}
  PROVE  \E k \in S : \A m \in (k + 1) .. n : m \notin S
<1> DEFINE T == {n - k : k \in S}
<1>1. T \subseteq Nat /\ T # {}
  <2>1. T \subseteq Nat
    OBVIOUS
  <2>2. PICK k \in S : n - k \in T
    OBVIOUS
  <2> QED  BY <2>1, <2>2
<1>2. PICK x \in T : \A y \in T : x <= y
  <2> HIDE DEF T
  <2> QED  BY <1>1, HasLeast
<1>3. PICK k \in S : x = n - k
  BY <1>2
<1>4. \A m \in S : n - k <= n - m
  BY <1>2, <1>3
<1>5. \A m \in (k + 1) .. n : m \notin S
  BY <1>4
<1> QED  BY <1>5

(* What follows the first n elements of a sequence.                          *)
LEMMA BackFacts ==
  ASSUME NEW S, NEW s \in Seq(S), NEW n \in 0 .. Len(s)
  PROVE  /\ SubSeq(s, n + 1, Len(s)) \in Seq(S)
         /\ Len(SubSeq(s, n + 1, Len(s))) = Len(s) - n
         /\ \A i \in 1 .. Len(s) - n : SubSeq(s, n + 1, Len(s))[i] = s[n + i]
<1> DEFINE b == SubSeq(s, n + 1, Len(s))
<1>1. Len(s) \in Nat /\ n + 1 \in Int /\ \A i \in (n + 1) .. Len(s) : s[i] \in S
  OBVIOUS
<1>2. /\ b \in Seq(S)
      /\ Len(b) = IF n + 1 <= Len(s) THEN Len(s) - (n + 1) + 1 ELSE 0
      /\ \A i \in 1 .. Len(s) - (n + 1) + 1 : b[i] = s[(n + 1) + i - 1]
  BY <1>1, SubSeqProperties
<1> HIDE DEF b
<1>3. \A i \in 1 .. Len(s) - n : b[i] = s[n + i]
  <2> SUFFICES ASSUME NEW i \in 1 .. Len(s) - n PROVE b[i] = s[n + i]
    OBVIOUS
  <2>1. i \in 1 .. Len(s) - (n + 1) + 1 /\ (n + 1) + i - 1 = n + i
    BY <1>1
  <2> QED  BY <1>2, <2>1
<1>4. Len(b) = Len(s) - n
  BY <1>1, <1>2
<1> QED  BY <1>2, <1>3, <1>4 DEF b

-----------------------------------------------------------------------------
(* The bytes of a sequence of entries.                                       *)

Units(s) == UNION {{i} \X (1 .. Weight(s[i].item)) : i \in DOMAIN s}
Largest == Size["raw"] + Size["br"] + Size["gz"] + Size["webp"]

LEMMA WeightFacts ==
  ASSUME NEW item \in Item
  PROVE  Weight(item) \in 0 .. Largest
<1>1. item.blob.variant \in Variant
  <2>1. item.blob \in Blob \cup {Nothing}
    BY DEF Item
  <2>2. Nothing.variant \in Variant
    BY DEF Nothing, Variant
  <2> QED  BY <2>1, <2>2 DEF Blob
<1>2. /\ Size["raw"] \in Nat /\ Size["br"] \in Nat
      /\ Size["gz"] \in Nat /\ Size["webp"] \in Nat
  BY ContentAssumption DEF Variant
<1> QED  BY <1>1, <1>2 DEF Weight, Largest, Variant

LEMMA EntryWeight ==
  ASSUME NEW s \in Seq(Entry), NEW i \in 1 .. Len(s)
  PROVE  s[i] \in Entry /\ s[i].item \in Item /\ Weight(s[i].item) \in 0 .. Largest
<1>1. s[i] \in Entry
  OBVIOUS
<1>2. s[i].item \in Item
  BY <1>1 DEF Entry
<1> QED  BY <1>1, <1>2, WeightFacts

(* The same set as a subset of a finite one.                                 *)
LEMMA UnitsAre ==
  ASSUME NEW s \in Seq(Entry)
  PROVE  Units(s) = {u \in (1 .. Len(s)) \X (1 .. Largest) : u[2] <= Weight(s[u[1]].item)}
<1> DEFINE W(i) == Weight(s[i].item)
<1>1. \A i \in 1 .. Len(s) : W(i) \in 0 .. Largest
  BY EntryWeight
<1>2. Largest \in Nat
  BY ContentAssumption DEF Largest, Variant
<1>3. Units(s) = UNION {{i} \X (1 .. W(i)) : i \in 1 .. Len(s)}
  <2>1. DOMAIN s = 1 .. Len(s)
    OBVIOUS
  <2> QED  BY <2>1 DEF Units
<1> HIDE DEF W
<1>4. ASSUME NEW u, u \in UNION {{i} \X (1 .. W(i)) : i \in 1 .. Len(s)}
      PROVE  u \in {v \in (1 .. Len(s)) \X (1 .. Largest) : v[2] <= W(v[1])}
  <2>1. PICK i \in 1 .. Len(s) : u \in {i} \X (1 .. W(i))
    BY <1>4
  <2>2. u = <<i, u[2]>> /\ u[2] \in 1 .. W(i)
    BY <2>1
  <2> QED  BY <1>1, <1>2, <2>1, <2>2
<1>5. ASSUME NEW u \in (1 .. Len(s)) \X (1 .. Largest), u[2] <= W(u[1])
      PROVE  u \in UNION {{i} \X (1 .. W(i)) : i \in 1 .. Len(s)}
  <2>1. u[1] \in 1 .. Len(s) /\ u = <<u[1], u[2]>> /\ u[2] \in 1 .. W(u[1])
    BY <1>1, <1>2, <1>5
  <2>2. u \in {u[1]} \X (1 .. W(u[1]))
    BY <2>1
  <2> QED  BY <2>1, <2>2
<1>6. Units(s) = {u \in (1 .. Len(s)) \X (1 .. Largest) : u[2] <= W(u[1])}
  BY <1>3, <1>4, <1>5
<1> QED  BY <1>6 DEF W

LEMMA UnitsFinite ==
  ASSUME NEW s \in Seq(Entry)
  PROVE  IsFiniteSet(Units(s)) /\ Bytes(s) = Cardinality(Units(s)) /\ Bytes(s) \in Nat
<1>1. Len(s) \in Nat /\ Largest \in Nat
  BY ContentAssumption DEF Largest, Variant
<1>2. IsFiniteSet(1 .. Len(s)) /\ IsFiniteSet(1 .. Largest)
  BY <1>1, FS_Interval
<1>3. IsFiniteSet((1 .. Len(s)) \X (1 .. Largest))
  BY <1>2, FS_Product
<1>4. Units(s) \in SUBSET ((1 .. Len(s)) \X (1 .. Largest))
  BY UnitsAre
<1>5. IsFiniteSet(Units(s))
  BY <1>3, <1>4, FS_Subset
<1>6. Bytes(s) = Cardinality(Units(s))
  BY DEF Bytes, Units
<1> QED  BY <1>5, <1>6, FS_CardinalityType

(* What two sequences take together: the units of the second are shifted.    *)
LEMMA BytesConcat ==
  ASSUME NEW s \in Seq(Entry), NEW t \in Seq(Entry)
  PROVE  s \o t \in Seq(Entry) /\ Bytes(s \o t) = Bytes(s) + Bytes(t)
<1> DEFINE st == s \o t
           V == {<<u[1] + Len(s), u[2]>> : u \in Units(t)}
           f == [u \in Units(t) |-> <<u[1] + Len(s), u[2]>>]
<1>1. /\ st \in Seq(Entry) /\ Len(st) = Len(s) + Len(t)
      /\ Len(s) \in Nat /\ Len(t) \in Nat
      /\ \A i \in 1 .. Len(s) : st[i] = s[i]
      /\ \A i \in 1 .. Len(t) : st[i + Len(s)] = t[i]
  OBVIOUS
<1> HIDE DEF st
<1>2. /\ Units(s) = {u \in (1 .. Len(s)) \X (1 .. Largest) : u[2] <= Weight(s[u[1]].item)}
      /\ Units(t) = {u \in (1 .. Len(t)) \X (1 .. Largest) : u[2] <= Weight(t[u[1]].item)}
      /\ Units(st) = {u \in (1 .. Len(st)) \X (1 .. Largest) : u[2] <= Weight(st[u[1]].item)}
  BY <1>1, UnitsAre
<1>3. Units(st) = Units(s) \cup V
  <2>1. ASSUME NEW u \in Units(st) PROVE u \in Units(s) \cup V
    <3>1. u \in (1 .. Len(st)) \X (1 .. Largest) /\ u[2] <= Weight(st[u[1]].item)
          /\ u = <<u[1], u[2]>>
      BY <1>2
    <3>2. CASE u[1] <= Len(s)
      <4>1. u[1] \in 1 .. Len(s)
        BY <1>1, <3>1, <3>2
      <4> QED  BY <1>1, <1>2, <3>1, <4>1
    <3>3. CASE ~ (u[1] <= Len(s))
      <4> DEFINE w == <<u[1] - Len(s), u[2]>>
      <4>1. w[1] \in 1 .. Len(t) /\ u[1] = w[1] + Len(s) /\ w[2] = u[2]
        BY <1>1, <3>1, <3>3
      <4>2. st[u[1]] = t[w[1]]
        BY <1>1, <4>1
      <4>3. w \in Units(t)
        BY <1>2, <3>1, <4>1, <4>2
      <4>4. u = <<w[1] + Len(s), w[2]>>
        BY <3>1, <4>1
      <4> HIDE DEF w
      <4> QED  BY <4>3, <4>4
    <3> QED  BY <3>2, <3>3
  <2>2. ASSUME NEW u \in Units(s) PROVE u \in Units(st)
    <3>1. u \in (1 .. Len(s)) \X (1 .. Largest) /\ u[2] <= Weight(s[u[1]].item)
      BY <1>2
    <3>2. u \in (1 .. Len(st)) \X (1 .. Largest) /\ st[u[1]] = s[u[1]]
      BY <1>1, <3>1
    <3> QED  BY <1>2, <3>1, <3>2
  <2>3. ASSUME NEW w \in Units(t) PROVE <<w[1] + Len(s), w[2]>> \in Units(st)
    <3>1. w \in (1 .. Len(t)) \X (1 .. Largest) /\ w[2] <= Weight(t[w[1]].item)
      BY <1>2
    <3>2. w[1] + Len(s) \in 1 .. Len(st) /\ st[w[1] + Len(s)] = t[w[1]]
      BY <1>1, <3>1
    <3> QED  BY <1>2, <3>1, <3>2
  <2> QED  BY <2>1, <2>2, <2>3
<1>4. Units(s) \cap V = {}
  <2> SUFFICES ASSUME NEW w \in Units(t), <<w[1] + Len(s), w[2]>> \in Units(s) PROVE FALSE
    OBVIOUS
  <2>1. w[1] \in 1 .. Len(t) /\ w[1] + Len(s) \in 1 .. Len(s)
    BY <1>2
  <2> QED  BY <1>1, <2>1
<1>5. ExistsBijection(Units(t), V)
  <2>1. \A u \in Units(t) : u = <<u[1], u[2]>> /\ u[1] \in Int
    BY <1>2
  <2>2. f \in [Units(t) -> V] /\ \A v \in V : \E u \in Units(t) : f[u] = v
    OBVIOUS
  <2>3. \A u, w \in Units(t) : f[u] = f[w] => u = w
    BY <1>1, <2>1
  <2>4. f \in Bijection(Units(t), V)
    BY <2>2, <2>3 DEF Bijection, Injection, Surjection, IsInjective
  <2> QED  BY <2>4 DEF ExistsBijection
<1>6. IsFiniteSet(Units(s)) /\ IsFiniteSet(Units(t))
  BY UnitsFinite
<1>7. IsFiniteSet(V) /\ Cardinality(V) = Cardinality(Units(t))
  <2> HIDE DEF V
  <2> QED  BY <1>5, <1>6, FS_Bijection
<1>8. Cardinality(Units(st)) = Cardinality(Units(s)) + Cardinality(V)
  <2> HIDE DEF V
  <2>1. Cardinality(Units(s) \cup V)
          = Cardinality(Units(s)) + Cardinality(V) - Cardinality(Units(s) \cap V)
    BY <1>6, <1>7, FS_Union
  <2>2. Cardinality(Units(s) \cap V) = 0
    BY <1>4, FS_EmptySet
  <2>3. Cardinality(Units(s)) \in Nat /\ Cardinality(V) \in Nat
    BY <1>6, <1>7, FS_CardinalityType
  <2> QED  BY <1>3, <2>1, <2>2, <2>3
<1>9. Bytes(st) = Bytes(s) + Bytes(t)
  <2>1. /\ Bytes(st) = Cardinality(Units(st)) /\ Bytes(s) = Cardinality(Units(s))
        /\ Bytes(t) = Cardinality(Units(t))
    BY <1>1, UnitsFinite
  <2> QED  BY <1>7, <1>8, <2>1
<1> QED  BY <1>1, <1>9 DEF st

LEMMA BytesSingle ==
  ASSUME NEW e \in Entry
  PROVE  <<e>> \in Seq(Entry) /\ Bytes(<<e>>) = Weight(e.item)
<1> DEFINE w == Weight(e.item)
<1>1. <<e>> \in Seq(Entry) /\ DOMAIN <<e>> = {1} /\ <<e>>[1] = e
  OBVIOUS
<1>2. w \in Nat
  <2>1. Largest \in Nat
    BY ContentAssumption DEF Largest, Variant
  <2>2. e.item \in Item
    BY DEF Entry
  <2> QED  BY <2>1, <2>2, WeightFacts
<1>3. Units(<<e>>) = {1} \X (1 .. w)
  BY <1>1 DEF Units
<1> HIDE DEF w
<1>4. IsFiniteSet({1}) /\ Cardinality({1}) = 1
  BY FS_Singleton
<1>5. IsFiniteSet(1 .. w) /\ Cardinality(1 .. w) = w
  BY <1>2, FS_Interval
<1>6. Cardinality({1} \X (1 .. w)) = w
  <2>1. Cardinality({1} \X (1 .. w)) = Cardinality({1}) * Cardinality(1 .. w)
    BY <1>4, <1>5, FS_Product
  <2> QED  BY <1>2, <1>4, <1>5, <2>1
<1>7. Bytes(<<e>>) = w
  <2>1. Bytes(<<e>>) = Cardinality(Units(<<e>>))
    BY <1>1, UnitsFinite
  <2> QED  BY <1>3, <1>6, <2>1
<1> QED  BY <1>1, <1>7 DEF w

LEMMA BytesEmpty == <<>> \in Seq(Entry) /\ Bytes(<<>>) = 0
<1>1. <<>> \in Seq(Entry) /\ DOMAIN <<>> = {}
  OBVIOUS
<1>2. Units(<<>>) = {}
  BY <1>1 DEF Units
<1> QED  BY <1>1, <1>2, FS_EmptySet, UnitsFinite

(* What the front and the back of a sequence have makes up the whole.        *)
LEMMA BytesSplit ==
  ASSUME NEW s \in Seq(Entry), NEW n \in 0 .. Len(s)
  PROVE  /\ SubSeq(s, 1, n) \in Seq(Entry) /\ SubSeq(s, n + 1, Len(s)) \in Seq(Entry)
         /\ Bytes(SubSeq(s, 1, n)) + Bytes(SubSeq(s, n + 1, Len(s))) = Bytes(s)
<1>1. Len(s) \in Nat /\ n \in 1 - 1 .. Len(s) /\ Len(s) \in n .. Len(s) /\ 1 \in 1 .. Len(s) + 1
  OBVIOUS
<1>2. SubSeq(s, 1, n) \in Seq(Entry) /\ SubSeq(s, n + 1, Len(s)) \in Seq(Entry)
  BY BackFacts
<1>3. SubSeq(s, 1, n) \o SubSeq(s, n + 1, Len(s)) = SubSeq(s, 1, Len(s))
  BY <1>1, ConcatAdjacentSubSeq
<1>4. SubSeq(s, 1, Len(s)) = s
  BY SubSeqFull
<1>5. Bytes(SubSeq(s, 1, n) \o SubSeq(s, n + 1, Len(s)))
        = Bytes(SubSeq(s, 1, n)) + Bytes(SubSeq(s, n + 1, Len(s)))
  BY <1>2, BytesConcat
<1> QED  BY <1>2, <1>3, <1>4, <1>5, Zenon

-----------------------------------------------------------------------------
(* The operations of the cache.                                              *)

Distinct(s) == \A i, j \in DOMAIN s : s[i].key = s[j].key => i = j

LEMMA AtFacts ==
  ASSUME lru \in Seq(Entry), NEW key, Hit(key)
  PROVE  At(key) \in 1 .. Len(lru) /\ lru[At(key)].key = key /\ Cached(key) \in Item
<1>1. At(key) \in DOMAIN lru /\ lru[At(key)].key = key
  BY DEF Hit, At
<1>2. At(key) \in 1 .. Len(lru)
  BY <1>1
<1> QED  BY <1>1, <1>2, EntryWeight DEF Cached

(* Without the entry of a key the others are there, and its bytes are not.   *)
LEMMA WithoutFacts ==
  ASSUME lru \in Seq(Entry), Distinct(lru), NEW key
  PROVE  /\ Without(key) \in Seq(Entry) /\ Distinct(Without(key))
         /\ Held(key) \in Nat /\ Bytes(Without(key)) = Bytes(lru) - Held(key)
         /\ Len(Without(key)) = IF Hit(key) THEN Len(lru) - 1 ELSE Len(lru)
         /\ \A i \in 1 .. Len(Without(key)) :
               /\ Without(key)[i].key # key
               /\ \E j \in 1 .. Len(lru) : Without(key)[i] = lru[j]
<1>1. CASE ~ Hit(key)
  <2>1. Without(key) = lru /\ Held(key) = 0
    BY <1>1 DEF Without, Held
  <2>2. \A i \in 1 .. Len(lru) : lru[i].key # key
    BY <1>1 DEF Hit
  <2>3. Bytes(lru) \in Nat
    BY UnitsFinite
  <2> QED  BY <1>1, <2>1, <2>2, <2>3
<1>2. CASE Hit(key)
  <2> DEFINE n == At(key)
             a == SubSeq(lru, 1, n - 1)
             b == SubSeq(lru, n + 1, Len(lru))
             w == a \o b
  <2>1. n \in 1 .. Len(lru) /\ lru[n].key = key /\ Len(lru) \in Nat /\ DOMAIN lru = 1 .. Len(lru)
    BY <1>2, AtFacts
  <2>2. Without(key) = w /\ Held(key) = Weight(lru[n].item)
    BY <1>2 DEF Without, RemoveAt, Held, Cached
  <2> HIDE DEF n
  <2>3. /\ a \in Seq(Entry) /\ Len(a) = n - 1 /\ \A i \in 1 .. n - 1 : a[i] = lru[i]
        /\ b \in Seq(Entry) /\ Len(b) = Len(lru) - n
        /\ \A i \in 1 .. Len(lru) - n : b[i] = lru[n + i]
    <3>1. n \in 0 .. Len(lru)
      BY <2>1
    <3>2. a \in Seq(Entry) /\ Len(a) = n - 1 /\ \A i \in 1 .. n - 1 : a[i] = lru[i]
      BY <2>1
    <3> QED  BY <3>1, <3>2, BackFacts
  <2>4. Bytes(w) = Bytes(lru) - Weight(lru[n].item) /\ Weight(lru[n].item) \in Nat
    <3>1. lru[n] \in Entry /\ Weight(lru[n].item) \in Nat
      <4>1. Largest \in Nat
        BY ContentAssumption DEF Largest, Variant
      <4> QED  BY <2>1, <4>1, EntryWeight
    <3>2. SubSeq(lru, 1, n) = a \o <<lru[n]>>
      BY <2>1, SubSeqRecursiveSecond
    <3> HIDE DEF a
    <3>3. Bytes(SubSeq(lru, 1, n)) = Bytes(a) + Weight(lru[n].item)
      BY <2>3, <3>1, <3>2, BytesSingle, BytesConcat
    <3>4. Bytes(SubSeq(lru, 1, n)) + Bytes(b) = Bytes(lru)
      BY <2>1, BytesSplit
    <3> HIDE DEF b
    <3>5. Bytes(w) = Bytes(a) + Bytes(b)
      BY <2>3, BytesConcat
    <3>6. Bytes(a) \in Nat /\ Bytes(b) \in Nat /\ Bytes(lru) \in Nat
      BY <2>3, UnitsFinite
    <3> QED  BY <3>1, <3>3, <3>4, <3>5, <3>6
  <2> HIDE DEF a, b
  <2>5. /\ w \in Seq(Entry) /\ Len(w) = Len(lru) - 1 /\ DOMAIN w = 1 .. Len(w)
        /\ \A i \in 1 .. Len(w) : w[i] = IF i <= Len(a) THEN a[i] ELSE b[i - Len(a)]
    <3>1. /\ w \in Seq(Entry) /\ Len(w) = Len(a) + Len(b)
          /\ \A i \in 1 .. Len(a) + Len(b) : w[i] = IF i <= Len(a) THEN a[i] ELSE b[i - Len(a)]
      BY <2>3, ConcatProperties
    <3> HIDE DEF w
    <3>2. Len(a) + Len(b) = Len(lru) - 1
      BY <2>1, <2>3
    <3>3. Len(w) = Len(lru) - 1
      BY <3>1, <3>2
    <3>4. DOMAIN w = 1 .. Len(w)
      BY <3>1
    <3>5. 1 .. Len(w) = 1 .. Len(a) + Len(b)
      BY <3>1
    <3> QED  BY <3>1, <3>3, <3>4, <3>5, Zenon
  <2> HIDE DEF w
  <2>6. ASSUME NEW i \in 1 .. Len(w)
        PROVE  w[i] = lru[IF i < n THEN i ELSE i + 1]
    <3>1. CASE i < n
      <4>1. i \in 1 .. n - 1 /\ i <= Len(a)
        BY <2>1, <2>3, <3>1
      <4>2. w[i] = a[i] /\ a[i] = lru[i]
        BY <2>3, <2>5, <4>1
      <4> QED  BY <3>1, <4>2
    <3>2. CASE ~ (i < n)
      <4> DEFINE k == i - Len(a)
      <4>1. k \in 1 .. Len(lru) - n /\ n + k = i + 1
        BY <2>1, <2>3, <2>5, <3>2
      <4>2. w[i] = b[k]
        BY <2>1, <2>3, <2>5, <3>2
      <4> HIDE DEF k
      <4>3. b[k] = lru[n + k]
        BY <2>3, <4>1
      <4> QED  BY <3>2, <4>1, <4>2, <4>3
    <3> QED  BY <3>1, <3>2
  <2> DEFINE g(i) == IF i < n THEN i ELSE i + 1
  <2>7. \A i \in 1 .. Len(w) : w[i] = lru[g(i)] /\ g(i) \in 1 .. Len(lru) /\ g(i) # n
    BY <2>1, <2>5, <2>6
  <2>8. \A i, j \in 1 .. Len(w) : g(i) = g(j) => i = j
    BY <2>1, <2>5
  <2> HIDE DEF g
  <2>9. Distinct(w)
    BY <2>1, <2>5, <2>7, <2>8 DEF Distinct
  <2>10. \A i \in 1 .. Len(w) : w[i].key # key /\ \E j \in 1 .. Len(lru) : w[i] = lru[j]
    BY <2>1, <2>7 DEF Distinct
  <2> QED  BY <1>2, <2>2, <2>4, <2>5, <2>9, <2>10
<1> QED  BY <1>1, <1>2

(* An entry put first.                                                       *)
LEMMA ConsFacts ==
  ASSUME NEW e \in Entry, NEW s \in Seq(Entry), Distinct(s),
         \A i \in 1 .. Len(s) : s[i].key # e.key
  PROVE  /\ <<e>> \o s \in Seq(Entry) /\ Distinct(<<e>> \o s)
         /\ Bytes(<<e>> \o s) = Weight(e.item) + Bytes(s)
         /\ Len(<<e>> \o s) = Len(s) + 1
         /\ \A i \in 1 .. Len(<<e>> \o s) :
               (<<e>> \o s)[i] = e \/ \E j \in 1 .. Len(s) : (<<e>> \o s)[i] = s[j]
<1> DEFINE w == <<e>> \o s
<1>1. <<e>> \in Seq(Entry) /\ Len(<<e>>) = 1 /\ <<e>>[1] = e /\ Len(s) \in Nat
      /\ DOMAIN s = 1 .. Len(s)
  OBVIOUS
<1>2. Bytes(w) = Weight(e.item) + Bytes(s)
  BY <1>1, BytesSingle, BytesConcat
<1>3. /\ w \in Seq(Entry) /\ Len(w) = Len(s) + 1 /\ DOMAIN w = 1 .. Len(w)
      /\ \A i \in 1 .. Len(w) : w[i] = IF i <= 1 THEN <<e>>[i] ELSE s[i - 1]
  BY <1>1, ConcatProperties
<1> HIDE DEF w
<1>4. \A i \in 1 .. Len(w) : IF i = 1 THEN w[i] = e ELSE i - 1 \in 1 .. Len(s) /\ w[i] = s[i - 1]
  BY <1>1, <1>3
<1>5. \A i \in 1 .. Len(w) : w[i] = e \/ \E j \in 1 .. Len(s) : w[i] = s[j]
  BY <1>4
<1>6. ASSUME NEW i \in 1 .. Len(w), NEW j \in 1 .. Len(w), w[i].key = w[j].key
      PROVE  i = j
  <2>1. CASE i = 1 \/ j = 1
    BY <1>4, <1>6, <2>1
  <2>2. CASE i # 1 /\ j # 1
    <3>1. i - 1 \in DOMAIN s /\ j - 1 \in DOMAIN s /\ s[i - 1].key = s[j - 1].key
      BY <1>1, <1>4, <1>6, <2>2
    <3>2. i - 1 = j - 1
      BY <3>1 DEF Distinct
    <3> QED  BY <1>3, <3>2
  <2> QED  BY <2>1, <2>2
<1>7. Distinct(w)
  BY <1>3, <1>6 DEF Distinct
<1> QED  BY <1>2, <1>3, <1>5, <1>7 DEF w
(* What the cache holds is within its limits and counted.                    *)
CacheOK == lru \in Seq(Entry) /\ currentBytes \in Nat /\ CacheBounded

LEMMA CacheFacts ==
  CacheOK <=> /\ lru \in Seq(Entry) /\ Distinct(lru)
              /\ currentBytes \in Nat /\ currentBytes = Bytes(lru)
              /\ (MaxCacheSize > 0 => currentBytes <= MaxCacheSize)
              /\ Len(lru) <= Capacity
BY DEF CacheOK, CacheBounded, Distinct

(* Every entry was there before or is the given one.                         *)
Only(entry) == \A i \in DOMAIN lru' : lru'[i] = entry \/ \E j \in DOMAIN lru : lru'[i] = lru[j]

LEMMA FrontKeeps ==
  ASSUME CacheOK, NEW key, Hit(key), key \in CacheKey,
         NEW item \in Item, Weight(item) = Weight(Cached(key)), LruFront(key, item)
  PROVE  CacheOK' /\ Only([key |-> key, item |-> item])
<1> DEFINE e == [key |-> key, item |-> item]
           s == Without(key)
<1>1. e \in Entry /\ e.key = key /\ e.item = item
  BY DEF Entry
<1>2. /\ s \in Seq(Entry) /\ Distinct(s) /\ Len(s) = Len(lru) - 1
      /\ Bytes(s) = Bytes(lru) - Weight(item) /\ Weight(item) \in Nat
      /\ \A i \in 1 .. Len(s) : s[i].key # key /\ \E j \in 1 .. Len(lru) : s[i] = lru[j]
  BY CacheFacts, WithoutFacts DEF Held
<1>3. lru' = <<e>> \o s /\ currentBytes' = currentBytes
  BY DEF LruFront
<1> HIDE DEF e, s
<1>4. /\ lru' \in Seq(Entry) /\ Distinct(lru') /\ Bytes(lru') = Weight(item) + Bytes(s)
      /\ Len(lru') = Len(s) + 1
      /\ \A i \in 1 .. Len(lru') : lru'[i] = e \/ \E j \in 1 .. Len(s) : lru'[i] = s[j]
  BY <1>1, <1>2, <1>3, ConsFacts
<1>5. Only(e)
  <2>1. DOMAIN lru = 1 .. Len(lru) /\ DOMAIN lru' = 1 .. Len(lru')
    BY <1>4, CacheFacts
  <2>2. \A i \in 1 .. Len(s) : \E j \in 1 .. Len(lru) : s[i] = lru[j]
    BY <1>2
  <2> QED  BY <1>4, <2>1, <2>2 DEF Only
<1>6. Bytes(lru') = currentBytes' /\ Len(lru') = Len(lru)
  BY <1>2, <1>3, <1>4, CacheFacts
<1>7. CacheOK'
  BY <1>3, <1>4, <1>6, CacheFacts DEF CacheOK, CacheBounded, Distinct
<1> QED  BY <1>5, <1>7 DEF e

LEMMA GetKeeps ==
  ASSUME CacheOK, NEW key, Hit(key), key \in CacheKey, LruGet(key)
  PROVE  CacheOK' /\ Only([key |-> key, item |-> Cached(key)])
         /\ \E j \in DOMAIN lru : lru[j] = [key |-> key, item |-> Cached(key)]
<1>1. lru \in Seq(Entry) /\ Cached(key) \in Item /\ At(key) \in DOMAIN lru
      /\ lru[At(key)].key = key
  BY AtFacts, CacheFacts
<1>2. lru[At(key)] = [key |-> key, item |-> Cached(key)]
  <2> DEFINE e == lru[At(key)]
  <2>1. e \in Entry /\ e.key = key /\ e.item = Cached(key)
    BY <1>1 DEF Cached
  <2> HIDE DEF e
  <2>2. e = [key |-> e.key, item |-> e.item]
    BY <2>1 DEF Entry
  <2> QED  BY <2>1, <2>2 DEF e
<1> QED  BY <1>1, <1>2, FrontKeeps DEF LruGet

LEMMA MissKeeps ==
  ASSUME CacheOK, NEW key, LruMiss(key)
  PROVE  CacheOK' /\ \A i \in DOMAIN lru' : \E j \in DOMAIN lru : lru'[i] = lru[j]
<1>1. /\ lru' \in Seq(Entry) /\ Distinct(lru') /\ Len(lru') <= Len(lru)
      /\ Held(key) \in Nat /\ Bytes(lru') = Bytes(lru) - Held(key)
      /\ \A i \in 1 .. Len(lru') : \E j \in 1 .. Len(lru) : lru'[i] = lru[j]
  BY CacheFacts, WithoutFacts DEF LruMiss
<1>2. Bytes(lru') \in Nat
  BY <1>1, UnitsFinite
<1>3. currentBytes' = currentBytes - Held(key)
  BY DEF LruMiss
<1>4. CacheOK'
  <2>1. currentBytes' = Bytes(lru') /\ currentBytes' \in Nat /\ currentBytes' <= currentBytes
    BY <1>1, <1>2, <1>3, CacheFacts
  <2>2. /\ MaxCacheSize > 0 => currentBytes' <= MaxCacheSize
        /\ Len(lru') <= Capacity
    BY <1>1, <2>1, CacheFacts, ContentAssumption
  <2> QED  BY <1>1, <2>1, <2>2 DEF CacheOK, CacheBounded, Distinct
<1> QED  BY <1>1, <1>4, CacheFacts
(* Set: what is kept are the newest entries that leave room, and as the      *)
(* entry fits into the empty cache there is a number of them.                *)
LEMMA SetKeeps ==
  ASSUME CacheOK, NEW key \in CacheKey, NEW item \in Item,
         MaxCacheSize > 0 => Weight(item) <= MaxCacheSize,
         LruSet(key, item)
  PROVE  CacheOK' /\ Only([key |-> key, item |-> item])
<1> DEFINE e == [key |-> key, item |-> item]
           s == Without(key)
           size == Weight(item)
           after(n) == currentBytes - Held(key) - Bytes(SubSeq(s, n + 1, Len(s)))
           Room(n) == Fits(SubSeq(s, 1, n), after(n), size)
           kept == CHOOSE n \in 0 .. Len(s) : Room(n) /\ \A m \in (n + 1) .. Len(s) : ~ Room(m)
<1>1. e \in Entry /\ e.key = key /\ e.item = item
  BY DEF Entry
<1>2. /\ s \in Seq(Entry) /\ Distinct(s) /\ Len(s) \in Nat
      /\ Bytes(s) = currentBytes - Held(key) /\ Bytes(s) \in Nat
      /\ \A i \in 1 .. Len(s) : s[i].key # key /\ \E j \in 1 .. Len(lru) : s[i] = lru[j]
  BY CacheFacts, WithoutFacts, UnitsFinite
<1>3. size \in Nat
  <2>1. Largest \in Nat
    BY ContentAssumption DEF Largest, Variant
  <2> QED  BY <2>1, WeightFacts
<1>4. lru' = <<e>> \o SubSeq(s, 1, kept) /\ currentBytes' = after(kept) + size
  BY DEF LruSet
<1>5. \A n \in 0 .. Len(s) : after(n) = Bytes(SubSeq(s, 1, n)) /\ after(n) \in Nat
  <2> SUFFICES ASSUME NEW n \in 0 .. Len(s)
               PROVE  after(n) = Bytes(SubSeq(s, 1, n)) /\ after(n) \in Nat
    OBVIOUS
  <2> HIDE DEF s
  <2>1. /\ SubSeq(s, 1, n) \in Seq(Entry) /\ SubSeq(s, n + 1, Len(s)) \in Seq(Entry)
        /\ Bytes(SubSeq(s, 1, n)) + Bytes(SubSeq(s, n + 1, Len(s))) = Bytes(s)
    BY <1>2, BytesSplit
  <2>2. Bytes(SubSeq(s, 1, n)) \in Nat /\ Bytes(SubSeq(s, n + 1, Len(s))) \in Nat
    BY <2>1, UnitsFinite
  <2> QED  BY <1>2, <2>1, <2>2
<1> HIDE DEF e, s, size, after
<1>6. kept \in 0 .. Len(s) /\ Room(kept)
  <2> DEFINE S == {n \in 0 .. Len(s) : Room(n)}
  <2>1. SubSeq(s, 1, 0) = <<>>
    BY SubSeqEmpty
  <2>2. S \subseteq 0 .. Len(s) /\ S # {}
    BY <1>2, <2>1 DEF Fits
  <2>3. PICK n \in S : \A m \in (n + 1) .. Len(s) : m \notin S
    <3> HIDE DEF S
    <3> QED  BY <1>2, <2>2, HasGreatest
  <2>4. \A m \in (n + 1) .. Len(s) : m \in 0 .. Len(s)
    BY <1>2, <2>2
  <2> HIDE DEF Room
  <2>5. n \in 0 .. Len(s) /\ Room(n) /\ \A m \in (n + 1) .. Len(s) : ~ Room(m)
    BY <2>3, <2>4
  <2> QED  BY <2>5
<1> HIDE DEF kept
<1> DEFINE t == SubSeq(s, 1, kept)
<1>7. t \in Seq(Entry) /\ Len(t) = kept /\ \A i \in 1 .. Len(t) : t[i] = s[i] /\ i \in 1 .. Len(s)
  BY <1>2, <1>6
<1>8. Distinct(t) /\ \A i \in 1 .. Len(t) : t[i].key # e.key
  BY <1>1, <1>2, <1>7 DEF Distinct
<1>9. Fits(t, after(kept), size)
  BY <1>6
<1>10. after(kept) = Bytes(t) /\ after(kept) \in Nat
  BY <1>5, <1>6
<1> HIDE DEF t
<1>11. lru' = <<e>> \o t
  BY <1>4 DEF t
<1>12. /\ lru' \in Seq(Entry) /\ Distinct(lru') /\ Bytes(lru') = size + Bytes(t)
       /\ Len(lru') = Len(t) + 1
       /\ \A i \in 1 .. Len(lru') : lru'[i] = e \/ \E j \in 1 .. Len(t) : lru'[i] = t[j]
  BY <1>1, <1>7, <1>8, <1>11, ConsFacts DEF size
<1>13. currentBytes' = Bytes(lru') /\ currentBytes' \in Nat
  BY <1>3, <1>4, <1>10, <1>12
<1>14. /\ MaxCacheSize > 0 => currentBytes' <= MaxCacheSize
       /\ Len(lru') <= Capacity
  <2>1. CASE t = <<>>
    <3>1. Bytes(t) = 0 /\ Len(t) = 0
      BY <2>1, BytesEmpty
    <3> QED  BY <1>3, <1>12, <1>13, <3>1, ContentAssumption DEF size
  <2>2. CASE /\ Len(t) < Capacity
             /\ MaxCacheSize = 0 \/ after(kept) + size <= MaxCacheSize
    BY <1>3, <1>4, <1>7, <1>10, <1>12, <2>2, ContentAssumption
  <2> QED  BY <1>9, <2>1, <2>2 DEF Fits
<1>15. CacheOK'
  BY <1>12, <1>13, <1>14 DEF CacheOK, CacheBounded, Distinct
<1>16. Only(e)
  <2>1. \A i \in 1 .. Len(t) : \E j \in 1 .. Len(lru) : t[i] = lru[j]
    BY <1>2, <1>7
  <2>2. DOMAIN lru = 1 .. Len(lru) /\ DOMAIN lru' = 1 .. Len(lru')
    BY <1>12, CacheFacts
  <2> SUFFICES ASSUME NEW i \in 1 .. Len(lru')
               PROVE  lru'[i] = e \/ \E j \in 1 .. Len(lru) : lru'[i] = lru[j]
    BY <2>2, Zenon DEF Only
  <2>3. CASE lru'[i] = e
    BY <2>3
  <2>4. CASE \E j \in 1 .. Len(t) : lru'[i] = t[j]
    <3>1. PICK j \in 1 .. Len(t) : lru'[i] = t[j]
      BY <2>4
    <3>2. PICK k \in 1 .. Len(lru) : t[j] = lru[k]
      BY <2>1
    <3> QED  BY <3>1, <3>2
  <2> QED  BY <1>12, <2>3, <2>4, Zenon
<1> QED  BY <1>15, <1>16 DEF e
-----------------------------------------------------------------------------
(* What a path resolves to.                                                  *)

LEMMA PickType ==
  ASSUME file \in [Deployment -> Files],
         NEW d \in Deployment, NEW name \in Name, NEW accepted
  PROVE  Pick(d, name, accepted) \in Blob \cup {Nothing}
<1>1. file[d][name] \in Content
  BY ContentAssumption
<1> QED  BY <1>1 DEF Pick, Blob, Variant

LEMMA ResolveType ==
  ASSUME file \in [Deployment -> Files], NEW d \in Deployment, NEW accepted
  PROVE  ResolvePath(d, accepted) \in Blob \cup {Nothing}
<1> DEFINE found == {i \in DOMAIN Candidates : Pick(d, Candidates[i], accepted) # Nothing}
<1>1. CASE found = {}
  BY <1>1 DEF ResolvePath
<1>2. CASE found # {}
  <2>1. DOMAIN Candidates = 1 .. Len(Candidates) /\ found \subseteq Nat
    BY ContentAssumption
  <2>2. Min(found) \in found
    <3> HIDE DEF found
    <3> QED  BY <1>2, <2>1, MinIsLeast
  <2>3. Candidates[Min(found)] \in Name
    BY <2>1, <2>2 DEF Name, ToSet
  <2>4. ResolvePath(d, accepted) = Pick(d, Candidates[Min(found)], accepted)
    BY <1>2 DEF ResolvePath
  <2> HIDE DEF found
  <2> QED  BY <2>3, <2>4, PickType
<1> QED  BY <1>1, <1>2

(* Clients with one key resolve a path alike, but for those that share what  *)
(* is served to clients that accept WebP: no other candidate is an image.    *)
LEMMA KeyDetermines ==
  ASSUME NEW d, NEW a, NEW b, KeyOf(a) = KeyOf(b), KeyOf(a) # "webp"
  PROVE  ResolvePath(d, a) = ResolvePath(d, b)
<1>1. /\ "br" \in a <=> "br" \in b
      /\ "br" \notin a => ("gz" \in a <=> "gz" \in b)
      /\ Candidates[1] \in Image => "webp" \notin a /\ "webp" \notin b
  BY DEF KeyOf
<1>2. ASSUME NEW i \in DOMAIN Candidates
      PROVE  Pick(d, Candidates[i], a) = Pick(d, Candidates[i], b)
  <2>1. Candidates[i] \in Image => i = 1
    BY ContentAssumption
  <2> QED  BY <1>1, <2>1 DEF Pick
<1>3. {i \in DOMAIN Candidates : Pick(d, Candidates[i], a) # Nothing}
        = {i \in DOMAIN Candidates : Pick(d, Candidates[i], b) # Nothing}
  BY <1>2
<1> DEFINE found == {i \in DOMAIN Candidates : Pick(d, Candidates[i], a) # Nothing}
<1>4. CASE found = {}
  BY <1>3, <1>4 DEF ResolvePath
<1>5. CASE found # {}
  <2>1. DOMAIN Candidates = 1 .. Len(Candidates) /\ found \subseteq Nat
    BY ContentAssumption
  <2>2. Min(found) \in DOMAIN Candidates
    <3>1. found \subseteq DOMAIN Candidates
      OBVIOUS
    <3> HIDE DEF found
    <3> QED  BY <1>5, <2>1, <3>1, MinIsLeast
  <2>3. /\ ResolvePath(d, a) = Pick(d, Candidates[Min(found)], a)
        /\ ResolvePath(d, b) = Pick(d, Candidates[Min(found)], b)
    BY <1>3, <1>5 DEF ResolvePath
  <2> HIDE DEF found
  <2> QED  BY <1>2, <2>2, <2>3
<1> QED  BY <1>4, <1>5

-----------------------------------------------------------------------------
(* The inductive invariant.                                                  *)

(* What the clients of a key get when they resolve the path in a deployment. *)
Resolutions(d, key) == {ResolvePath(d, accepts[c]) : c \in {e \in Client : KeyOf(accepts[e]) = key}}

(* An entry for a path or a body is what some client of its key resolved in  *)
(* its deployment, with the encoding of the blob: only where a key is shared *)
(* may a request have added its own.                                         *)
Right(entry) ==
    LET key == entry.key
        item == entry.item
    IN /\ key[1] = "path" => item.blob # Nothing
       /\ key[1] # "404" /\ item.blob # Nothing =>
             /\ item.blob \in Resolutions(key[2], key[3])
             /\ item.encoding = Encoding(item.blob) \/ key[3] = "webp"
EntriesRight == \A i \in DOMAIN lru : Right(lru[i])

(* The same of a request that has resolved its path, and of what a client    *)
(* was served.                                                               *)
Own(c) == Resolutions(dep[c], KeyOf(accepts[c]))
RequestRight(c) ==
    /\ rpc[c] \in {"body", "fetch"} => res[c] # Nothing /\ res[c] \in Own(c)
    /\ status[c] = 200 => /\ held[c].blob \in Own(c)
                          /\ held[c].encoding = Encoding(held[c].blob) \/ Shared(c)
RequestsRight == \A c \in Client : RequestRight(c)

ContentInv == ContentTypeOK /\ CacheBounded /\ EntriesRight /\ RequestsRight

(* Its parts: CacheOK and EntriesRight are about the cache, these are not.   *)
Copy == [blob : Blob \cup {Nothing}, encoding : {"", "br", "gz"}]
RequestTypeOK ==
    /\ manifest \in [Deployment -> Manifests]
    /\ file \in [Deployment -> Files]
    /\ accepts \in [Client -> Accepts]
    /\ active \in Deployment /\ stored \subseteq Deployment
    /\ rpc \in [Client -> {"idle", "lookup", "path", "resolve", "body", "fetch"}]
    /\ dep \in [Client -> Deployment]
    /\ asks \in [Client -> BOOLEAN]
    /\ res \in [Client -> Blob \cup {Nothing}]
    /\ held \in [Client -> Copy]
    /\ status \in [Client -> {0, 200, 304, 404}]
    /\ requests \in 0 .. MaxRequests

LEMMA ContentParts ==
  ContentInv <=> RequestTypeOK /\ CacheOK /\ EntriesRight /\ RequestsRight
BY DEF ContentInv, ContentTypeOK, RequestTypeOK, CacheOK, Copy

LEMMA ContentJoins ==
  ASSUME RequestTypeOK', CacheOK', EntriesRight', RequestsRight'
  PROVE  ContentInv'
BY DEF ContentInv, ContentTypeOK, RequestTypeOK, CacheOK, Copy

(* A client resolves what is among the resolutions of its key, and those of  *)
(* a key that is not shared are what each of its clients resolves.           *)
LEMMA OwnFacts ==
  ASSUME NEW c \in Client
  PROVE  /\ ResolvePath(dep[c], accepts[c]) \in Own(c)
         /\ ~ Shared(c) => Own(c) = {ResolvePath(dep[c], accepts[c])}
         /\ \A b \in Own(c) : b \in Options(dep[c], c)
<1>1. ResolvePath(dep[c], accepts[c]) \in Own(c)
  BY DEF Own, Resolutions
<1>2. ASSUME ~ Shared(c), NEW e \in Client, KeyOf(accepts[e]) = KeyOf(accepts[c])
      PROVE  ResolvePath(dep[c], accepts[e]) = ResolvePath(dep[c], accepts[c])
  BY <1>2, KeyDetermines DEF Shared
<1>3. ~ Shared(c) => Own(c) = {ResolvePath(dep[c], accepts[c])}
  BY <1>1, <1>2 DEF Own, Resolutions
<1>4. ASSUME Shared(c)
      PROVE  \A e \in Client : KeyOf(accepts[e]) = KeyOf(accepts[c]) => e \in Alike(c)
  BY <1>4 DEF Shared, Alike
<1>5. c \in Alike(c)
  BY DEF Alike
<1>6. \A b \in Own(c) : b \in Options(dep[c], c)
  <2>1. CASE Shared(c)
    BY <1>4, <2>1 DEF Own, Resolutions, Options
  <2>2. CASE ~ Shared(c)
    BY <1>3, <1>5, <2>2 DEF Options
  <2> QED  BY <2>1, <2>2
<1> QED  BY <1>1, <1>3, <1>6

LEMMA ServedFollows == ContentInv => ServedAsResolved
BY OwnFacts DEF ContentInv, RequestsRight, RequestRight, ServedAsResolved

(* What is fixed when the manifests and the clients are.                     *)
LEMMA ResolutionsKept ==
  ASSUME UNCHANGED <<manifest, file, accepts>>, NEW d, NEW key
  PROVE  Resolutions(d, key)' = Resolutions(d, key)
BY DEF Resolutions, ResolvePath, Pick, KeyOf

LEMMA RightKept ==
  ASSUME UNCHANGED <<manifest, file, accepts>>, NEW entry
  PROVE  Right(entry)' <=> Right(entry)
<1>1. Resolutions(entry.key[2], entry.key[3])' = Resolutions(entry.key[2], entry.key[3])
  BY ResolutionsKept
<1> QED  BY <1>1 DEF Right

LEMMA EntriesKept ==
  ASSUME EntriesRight, UNCHANGED <<manifest, file, accepts>>, NEW entry, Right(entry), Only(entry)
  PROVE  EntriesRight'
<1>1. ASSUME NEW i \in DOMAIN lru', NEW x, x = lru'[i]
      PROVE  Right(x)
  BY <1>1 DEF Only, EntriesRight
<1>2. ASSUME NEW i \in DOMAIN lru'
      PROVE  Right(lru[i])'
  <2>1. PICK x : x = lru'[i]
    OBVIOUS
  <2>2. Right(x)'
    BY <1>1, <2>1, RightKept
  <2> QED  BY <2>1, <2>2
<1> QED  BY <1>2 DEF EntriesRight

(* The operations of the cache, with what they put into it.                  *)
LEMMA GetRight ==
  ASSUME CacheOK, EntriesRight, UNCHANGED <<manifest, file, accepts>>,
         NEW key \in CacheKey, Hit(key), LruGet(key)
  PROVE  CacheOK' /\ EntriesRight'
<1> DEFINE e == [key |-> key, item |-> Cached(key)]
<1>1. CacheOK' /\ Only(e) /\ \E j \in DOMAIN lru : lru[j] = e
  BY GetKeeps
<1> HIDE DEF e
<1>2. Right(e)
  BY <1>1 DEF EntriesRight
<1> QED  BY <1>1, <1>2, EntriesKept

LEMMA MissRight ==
  ASSUME CacheOK, EntriesRight, UNCHANGED <<manifest, file, accepts>>, NEW key, LruMiss(key)
  PROVE  CacheOK' /\ EntriesRight'
<1>1. CacheOK' /\ \A i \in DOMAIN lru' : \E j \in DOMAIN lru : lru'[i] = lru[j]
  BY MissKeeps
<1>2. CASE DOMAIN lru = {}
  BY <1>1, <1>2 DEF EntriesRight
<1>3. CASE DOMAIN lru # {}
  <2>1. PICK j \in DOMAIN lru : TRUE
    BY <1>3
  <2>2. PICK e : e = lru[j]
    OBVIOUS
  <2>3. Right(e) /\ Only(e)
    BY <1>1, <2>1, <2>2 DEF EntriesRight, Only
  <2> QED  BY <1>1, <2>3, EntriesKept
<1> QED  BY <1>2, <1>3

LEMMA SetRight ==
  ASSUME CacheOK, EntriesRight, UNCHANGED <<manifest, file, accepts>>,
         NEW key \in CacheKey, NEW item \in Item,
         MaxCacheSize > 0 => Weight(item) <= MaxCacheSize,
         Right([key |-> key, item |-> item]), LruSet(key, item)
  PROVE  CacheOK' /\ EntriesRight'
BY SetKeeps, EntriesKept

LEMMA FrontRight ==
  ASSUME CacheOK, EntriesRight, UNCHANGED <<manifest, file, accepts>>,
         NEW key \in CacheKey, Hit(key), NEW item \in Item, Weight(item) = Weight(Cached(key)),
         Right([key |-> key, item |-> item]), LruFront(key, item)
  PROVE  CacheOK' /\ EntriesRight'
BY FrontKeeps, EntriesKept

LEMMA CacheRests ==
  ASSUME CacheOK, EntriesRight, UNCHANGED <<manifest, file, accepts, cache>>
  PROVE  CacheOK' /\ EntriesRight'
<1>1. CacheOK'
  BY DEF CacheOK, CacheBounded, cache
<1>2. lru' = lru
  BY DEF cache
<1> QED  BY <1>1, <1>2, RightKept DEF EntriesRight

(* The keys of a request, and what stands under them.                        *)
LEMMA KeyFacts ==
  ASSUME RequestTypeOK, NEW c \in Client
  PROVE  /\ NegativeKey(c) \in CacheKey /\ NegativeKey(c)[1] = "404"
         /\ PathKey(c) \in CacheKey /\ PathKey(c)[1] = "path"
         /\ BodyKey(c) \in CacheKey /\ BodyKey(c)[1] = "body"
         /\ Resolutions(PathKey(c)[2], PathKey(c)[3]) = Own(c)
         /\ Resolutions(BodyKey(c)[2], BodyKey(c)[3]) = Own(c)
         /\ (PathKey(c)[3] = "webp") <=> Shared(c)
         /\ (BodyKey(c)[3] = "webp") <=> Shared(c)
<1>1. dep[c] \in Deployment /\ KeyOf(accepts[c]) \in EncodingKey
  <2>1. dep \in [Client -> Deployment]
    BY DEF RequestTypeOK
  <2>2. KeyOf(accepts[c]) \in EncodingKey
    BY DEF KeyOf, EncodingKey
  <2> QED  BY <2>1, <2>2
<1>2. NegativeKey(c) \in CacheKey /\ PathKey(c) \in CacheKey /\ BodyKey(c) \in CacheKey
  BY <1>1 DEF NegativeKey, PathKey, BodyKey, CacheKey
<1>3. /\ NegativeKey(c)[1] = "404" /\ PathKey(c)[1] = "path" /\ BodyKey(c)[1] = "body"
      /\ PathKey(c)[2] = dep[c] /\ PathKey(c)[3] = KeyOf(accepts[c])
      /\ BodyKey(c)[2] = dep[c] /\ BodyKey(c)[3] = KeyOf(accepts[c])
  BY DEF NegativeKey, PathKey, BodyKey
<1> QED  BY <1>2, <1>3 DEF Own, Shared

LEMMA CachedRight ==
  ASSUME CacheOK, EntriesRight, NEW key, Hit(key)
  PROVE  Right([key |-> key, item |-> Cached(key)])
<1>1. At(key) \in DOMAIN lru /\ lru[At(key)].key = key
  BY AtFacts, CacheFacts
<1>2. Right(lru[At(key)])
  BY <1>1 DEF EntriesRight
<1> QED  BY <1>1, <1>2 DEF Right, Cached

(* A step of one request leaves the others as they are.                      *)
Others(c) ==
    \A e \in Client \ {c} :
        /\ rpc'[e] = rpc[e] /\ dep'[e] = dep[e] /\ res'[e] = res[e]
        /\ status'[e] = status[e] /\ held'[e] = held[e]

LEMMA OwnKept ==
  ASSUME UNCHANGED <<manifest, file, accepts>>, NEW c, dep'[c] = dep[c]
  PROVE  Own(c)' = Own(c)
BY ResolutionsKept DEF Own

LEMMA RequestKept ==
  ASSUME UNCHANGED <<manifest, file, accepts>>, NEW c,
         rpc'[c] = rpc[c], dep'[c] = dep[c], res'[c] = res[c],
         status'[c] = status[c], held'[c] = held[c], RequestRight(c)
  PROVE  RequestRight(c)'
<1>1. Own(c)' = Own(c)
  BY OwnKept
<1> QED  BY <1>1 DEF RequestRight, Shared

LEMMA OneMoves ==
  ASSUME RequestsRight, UNCHANGED <<manifest, file, accepts>>, NEW c \in Client,
         Others(c), RequestRight(c)'
  PROVE  RequestsRight'
<1>1. ASSUME NEW e \in Client PROVE RequestRight(e)'
  <2>1. CASE e = c
    BY <2>1
  <2>2. CASE e # c
    BY <2>2, RequestKept DEF RequestsRight, Others
  <2> QED  BY <2>1, <2>2
<1> QED  BY <1>1 DEF RequestsRight

(* What a request has, each fact by itself.                                  *)
LEMMA RequestFacts ==
  ASSUME RequestTypeOK
  PROVE  /\ rpc \in [Client -> {"idle", "lookup", "path", "resolve", "body", "fetch"}]
         /\ dep \in [Client -> Deployment]
         /\ asks \in [Client -> BOOLEAN]
         /\ res \in [Client -> Blob \cup {Nothing}]
         /\ held \in [Client -> Copy]
         /\ status \in [Client -> {0, 200, 304, 404}]
BY Zenon DEF RequestTypeOK

LEMMA RequestTypeKept ==
  ASSUME RequestTypeOK, UNCHANGED <<manifest, file, accepts, active, stored, dep, requests>>,
         rpc' \in [Client -> {"idle", "lookup", "path", "resolve", "body", "fetch"}],
         asks' \in [Client -> BOOLEAN],
         res' \in [Client -> Blob \cup {Nothing}],
         held' \in [Client -> Copy],
         status' \in [Client -> {0, 200, 304, 404}]
  PROVE  RequestTypeOK'
BY DEF RequestTypeOK

(* A request that ends or goes on with what it has, but for dep and cache.   *)
fixed == <<manifest, file, accepts, active, stored, dep, requests>>

LEMMA ReplyKeeps ==
  ASSUME RequestTypeOK, RequestsRight, NEW c \in Client, UNCHANGED fixed, UNCHANGED held,
         NEW code \in {304, 404}, Reply(c, code)
  PROVE  RequestTypeOK' /\ RequestsRight'
<1>1. /\ UNCHANGED <<manifest, file, accepts, active, stored, dep, requests, held>>
      /\ rpc' = [rpc EXCEPT ![c] = "idle"] /\ res' = [res EXCEPT ![c] = Nothing]
      /\ status' = [status EXCEPT ![c] = code] /\ asks' = [asks EXCEPT ![c] = FALSE]
  BY DEF Reply, Goes, fixed
<1>2. RequestTypeOK'
  <2>1. rpc' \in [Client -> {"idle", "lookup", "path", "resolve", "body", "fetch"}]
    BY <1>1, RequestFacts
  <2>2. asks' \in [Client -> BOOLEAN]
    BY <1>1, RequestFacts
  <2>3. res' \in [Client -> Blob \cup {Nothing}]
    BY <1>1, RequestFacts
  <2>4. status' \in [Client -> {0, 200, 304, 404}]
    BY <1>1, RequestFacts
  <2>5. held' \in [Client -> Copy]
    BY <1>1, RequestFacts
  <2> QED  BY <1>1, <2>1, <2>2, <2>3, <2>4, <2>5, RequestTypeKept
<1>3. Others(c) /\ rpc'[c] = "idle" /\ status'[c] = code
  <2>1. DOMAIN rpc = Client /\ DOMAIN res = Client /\ DOMAIN status = Client
    BY RequestFacts
  <2> QED  BY <1>1, <2>1 DEF Others
<1>4. RequestRight(c)'
  BY <1>3 DEF RequestRight
<1> QED  BY <1>1, <1>2, <1>3, <1>4, OneMoves

LEMMA ServeKeeps ==
  ASSUME RequestTypeOK, RequestsRight, NEW c \in Client, UNCHANGED fixed,
         NEW blob \in Blob \cup {Nothing}, NEW encoding \in {"", "br", "gz"},
         blob \in Own(c), encoding = Encoding(blob) \/ Shared(c), Serve(c, blob, encoding)
  PROVE  RequestTypeOK' /\ RequestsRight'
<1> DEFINE copy == [blob |-> blob, encoding |-> encoding]
<1>1. /\ UNCHANGED <<manifest, file, accepts, active, stored, dep, requests>>
      /\ rpc' = [rpc EXCEPT ![c] = "idle"] /\ res' = [res EXCEPT ![c] = Nothing]
      /\ status' = [status EXCEPT ![c] = 200] /\ asks' = [asks EXCEPT ![c] = FALSE]
      /\ held' = [held EXCEPT ![c] = copy]
  BY DEF Serve, Reply, Goes, fixed
<1>2. copy \in Copy
      /\ copy.blob = blob /\ copy.encoding = encoding
  BY DEF Copy
<1> HIDE DEF copy
<1>3. RequestTypeOK'
  <2>1. rpc' \in [Client -> {"idle", "lookup", "path", "resolve", "body", "fetch"}]
    BY <1>1, RequestFacts
  <2>2. asks' \in [Client -> BOOLEAN]
    BY <1>1, RequestFacts
  <2>3. res' \in [Client -> Blob \cup {Nothing}]
    BY <1>1, RequestFacts
  <2>4. status' \in [Client -> {0, 200, 304, 404}]
    BY <1>1, RequestFacts
  <2>5. held' \in [Client -> Copy]
    BY <1>1, <1>2, RequestFacts
  <2> QED  BY <1>1, <2>1, <2>2, <2>3, <2>4, <2>5, RequestTypeKept
<1>4. Others(c) /\ rpc'[c] = "idle" /\ held'[c] = copy
  <2>1. /\ DOMAIN rpc = Client /\ DOMAIN res = Client /\ DOMAIN status = Client
        /\ DOMAIN held = Client
    BY RequestFacts
  <2> QED  BY <1>1, <2>1 DEF Others
<1>5. Own(c)' = Own(c)
  BY <1>1, OwnKept
<1>6. RequestRight(c)'
  BY <1>1, <1>2, <1>4, <1>5 DEF RequestRight, Shared
<1> QED  BY <1>1, <1>3, <1>4, <1>6, OneMoves

LEMMA GoesKeeps ==
  ASSUME RequestTypeOK, RequestsRight, NEW c \in Client, UNCHANGED fixed,
         UNCHANGED <<asks, held, status>>,
         NEW label \in {"idle", "path", "resolve", "body", "fetch"}, Goes(c, label),
         NEW blob \in Blob \cup {Nothing}, res' = [res EXCEPT ![c] = blob],
         label \in {"body", "fetch"} => blob # Nothing /\ blob \in Own(c)
  PROVE  RequestTypeOK' /\ RequestsRight'
<1>1. /\ UNCHANGED <<manifest, file, accepts, active, stored, dep, requests, asks, held, status>>
      /\ rpc' = [rpc EXCEPT ![c] = label]
  BY DEF Goes, fixed
<1>2. RequestTypeOK'
  <2>1. rpc' \in [Client -> {"idle", "lookup", "path", "resolve", "body", "fetch"}]
    BY <1>1, RequestFacts
  <2>2. res' \in [Client -> Blob \cup {Nothing}]
    BY RequestFacts
  <2>3. asks' = asks /\ held' = held /\ status' = status
    BY <1>1
  <2>4. /\ asks' \in [Client -> BOOLEAN]
        /\ held' \in [Client -> Copy]
        /\ status' \in [Client -> {0, 200, 304, 404}]
    BY <2>3, RequestFacts
  <2> QED  BY <1>1, <2>1, <2>2, <2>4, RequestTypeKept
<1>3. Others(c) /\ rpc'[c] = label /\ res'[c] = blob
  <2>1. DOMAIN rpc = Client /\ DOMAIN res = Client
    BY RequestFacts
  <2> QED  BY <1>1, <2>1 DEF Others
<1>4. Own(c)' = Own(c)
  BY <1>1, OwnKept
<1>5. RequestRight(c)'
  <2>1. RequestRight(c)
    BY DEF RequestsRight
  <2>2. /\ status'[c] = status[c] /\ held'[c] = held[c]
        /\ Shared(c)' <=> Shared(c)
    BY <1>1 DEF Shared
  <2> QED  BY <1>3, <1>4, <2>1, <2>2 DEF RequestRight
<1> QED  BY <1>1, <1>2, <1>3, <1>5, OneMoves
-----------------------------------------------------------------------------
(* The steps.                                                                *)

(* A request starts with no resolution and no answer.                        *)
LEMMA AskKeeps ==
  ASSUME ContentInv, NEW c \in Client, Ask(c)
  PROVE  ContentInv'
<1>1. RequestTypeOK /\ CacheOK /\ EntriesRight /\ RequestsRight
  BY ContentParts
<1>2. /\ UNCHANGED <<manifest, file, accepts, active, stored, cache, res, held>>
      /\ rpc' = [rpc EXCEPT ![c] = "lookup"] /\ status' = [status EXCEPT ![c] = 0]
      /\ dep' = [dep EXCEPT ![c] = active]
      /\ requests < MaxRequests /\ requests' = requests + 1
  BY DEF Ask, Goes
<1>3. RequestTypeOK'
  <2>1. active \in Deployment /\ requests \in 0 .. MaxRequests
    BY <1>1, Zenon DEF RequestTypeOK
  <2>2. /\ rpc' \in [Client -> {"idle", "lookup", "path", "resolve", "body", "fetch"}]
        /\ status' \in [Client -> {0, 200, 304, 404}]
    BY <1>1, <1>2, RequestFacts
  <2>3. dep' \in [Client -> Deployment] /\ requests' \in 0 .. MaxRequests
    BY <1>1, <1>2, <2>1, RequestFacts, ContentAssumption
  <2>4. asks' \in [Client -> BOOLEAN]
    <3>1. PICK validates \in {FALSE, held[c].blob # Nothing} : asks' = [asks EXCEPT ![c] = validates]
      BY DEF Ask
    <3>2. validates \in BOOLEAN
      OBVIOUS
    <3> QED  BY <1>1, <3>1, <3>2, RequestFacts
  <2> QED  BY <1>1, <1>2, <2>2, <2>3, <2>4 DEF RequestTypeOK
<1>4. Others(c) /\ rpc'[c] = "lookup" /\ status'[c] = 0
  <2>1. DOMAIN rpc = Client /\ DOMAIN dep = Client /\ DOMAIN status = Client
    BY <1>1, RequestFacts
  <2> QED  BY <1>2, <2>1 DEF Others
<1>5. RequestRight(c)'
  BY <1>4 DEF RequestRight
<1>6. RequestsRight'
  BY <1>1, <1>2, <1>4, <1>5, OneMoves
<1>7. CacheOK' /\ EntriesRight'
  BY <1>1, <1>2, CacheRests
<1> QED  BY <1>3, <1>6, <1>7, ContentJoins

(* The first lookup: a cached 404, or on to the second.                      *)
LEMMA LookUpKeeps ==
  ASSUME ContentInv, NEW c \in Client, LookUp(c)
  PROVE  ContentInv'
<1>1. RequestTypeOK /\ CacheOK /\ EntriesRight /\ RequestsRight
  BY ContentParts
<1>2. UNCHANGED fixed /\ UNCHANGED <<manifest, file, accepts>> /\ rpc[c] = "lookup"
  BY DEF LookUp, fixed
<1>3. CASE Hit(NegativeKey(c)) /\ LruGet(NegativeKey(c)) /\ NotFound(c)
  <2>1. RequestTypeOK' /\ RequestsRight'
    BY <1>1, <1>2, <1>3, ReplyKeeps DEF NotFound
  <2>2. CacheOK' /\ EntriesRight'
    BY <1>1, <1>2, <1>3, KeyFacts, GetRight
  <2> QED  BY <2>1, <2>2, ContentJoins
<1>4. CASE LruMiss(NegativeKey(c)) /\ Goes(c, "path") /\ UNCHANGED <<asks, res, held, status>>
  <2>1. RequestTypeOK' /\ RequestsRight'
    <3>1. DOMAIN res = Client /\ res[c] \in Blob \cup {Nothing}
      BY <1>1, RequestFacts
    <3>2. res' = [res EXCEPT ![c] = res[c]]
      BY <1>1, <1>4, RequestFacts
    <3> QED  BY <1>1, <1>2, <1>4, <3>1, <3>2, GoesKeeps
  <2>2. CacheOK' /\ EntriesRight'
    BY <1>1, <1>2, <1>4, MissRight
  <2> QED  BY <2>1, <2>2, ContentJoins
<1> QED  BY <1>3, <1>4 DEF LookUp

(* The second: what is cached for the path is a resolution of the client's   *)
(* key in its deployment.                                                    *)
LEMMA LookUpPathKeeps ==
  ASSUME ContentInv, NEW c \in Client, LookUpPath(c)
  PROVE  ContentInv'
<1>1. RequestTypeOK /\ CacheOK /\ EntriesRight /\ RequestsRight
  BY ContentParts
<1>2. UNCHANGED fixed /\ UNCHANGED <<manifest, file, accepts, asks, held, status>>
  BY DEF LookUpPath, fixed
<1>3. CASE /\ Hit(PathKey(c)) /\ LruGet(PathKey(c))
           /\ res' = [res EXCEPT ![c] = Cached(PathKey(c)).blob] /\ Goes(c, "body")
  <2> DEFINE blob == Cached(PathKey(c)).blob
  <2>1. blob \in Blob \cup {Nothing}
    <3>1. Cached(PathKey(c)) \in Item
      BY <1>1, <1>3, AtFacts, CacheFacts
    <3> QED  BY <3>1 DEF Item
  <2>2. blob # Nothing /\ blob \in Own(c)
    <3>1. PathKey(c)[1] = "path" /\ Resolutions(PathKey(c)[2], PathKey(c)[3]) = Own(c)
      BY <1>1, KeyFacts
    <3>2. Right([key |-> PathKey(c), item |-> Cached(PathKey(c))])
      BY <1>1, <1>3, CachedRight
    <3> QED  BY <3>1, <3>2 DEF Right
  <2> HIDE DEF blob
  <2>3. RequestTypeOK' /\ RequestsRight'
    <3>1. res' = [res EXCEPT ![c] = blob]
      BY <1>3 DEF blob
    <3> QED  BY <1>1, <1>2, <1>3, <2>1, <2>2, <3>1, GoesKeeps
  <2>4. CacheOK' /\ EntriesRight'
    BY <1>1, <1>2, <1>3, KeyFacts, GetRight
  <2> QED  BY <2>3, <2>4, ContentJoins
<1>4. CASE LruMiss(PathKey(c)) /\ Goes(c, "resolve") /\ UNCHANGED res
  <2>1. RequestTypeOK' /\ RequestsRight'
    <3>1. DOMAIN res = Client /\ res[c] \in Blob \cup {Nothing}
      BY <1>1, RequestFacts
    <3>2. res' = [res EXCEPT ![c] = res[c]]
      BY <1>1, <1>4, RequestFacts
    <3> QED  BY <1>1, <1>2, <1>4, <3>1, <3>2, GoesKeeps
  <2>2. CacheOK' /\ EntriesRight'
    BY <1>1, <1>2, <1>4, MissRight
  <2> QED  BY <2>1, <2>2, ContentJoins
<1> QED  BY <1>3, <1>4 DEF LookUpPath

(* An item without body has no bytes; a cached 404 is right under any key    *)
(* but that of a path.                                                       *)
LEMMA ItemFacts ==
  ASSUME NEW blob \in Blob \cup {Nothing}, NEW encoding \in {"", "br", "gz"}, NEW kept \in BOOLEAN
  PROVE  LET item == [blob |-> blob, encoding |-> encoding, body |-> kept]
         IN /\ item \in Item /\ item.blob = blob /\ item.encoding = encoding
            /\ Weight(item) = IF kept THEN Size[blob.variant] ELSE 0
BY DEF Item, Weight

LEMMA AbsentFacts ==
  ASSUME NEW key, key[1] # "path"
  PROVE  /\ Absent \in Item /\ Weight(Absent) = 0
         /\ Right([key |-> key, item |-> Absent])
<1>1. Absent \in Item /\ Weight(Absent) = 0 /\ Absent.blob = Nothing
  BY ItemFacts DEF Absent
<1> QED  BY <1>1 DEF Right

LEMMA FillFacts ==
  ASSUME NEW item \in Item, NEW encoding
  PROVE  [item EXCEPT !.encoding = encoding]
           = [blob |-> item.blob, encoding |-> encoding, body |-> item.body]
<1>1. ASSUME NEW S, NEW T, NEW U, item \in [blob : S, encoding : T, body : U]
      PROVE  [item EXCEPT !.encoding = encoding]
               = [blob |-> item.blob, encoding |-> encoding, body |-> item.body]
  BY <1>1
<1>2. PICK S, T, U : Item = [blob : S, encoding : T, body : U]
  BY DEF Item
<1> QED  BY <1>1, <1>2

LEMMA EncodingType ==
  ASSUME NEW blob
  PROVE  Encoding(blob) \in {"", "br", "gz"}
BY DEF Encoding

(* What the path resolves to is cached under the key of the path, or its     *)
(* absence is.                                                               *)
LEMMA ResolveKeeps ==
  ASSUME ContentInv, NEW c \in Client, ResolveBlob(c)
  PROVE  ContentInv'
<1> DEFINE blob == ResolvePath(dep[c], accepts[c])
<1>1. RequestTypeOK /\ CacheOK /\ EntriesRight /\ RequestsRight
  BY ContentParts
<1>2. UNCHANGED fixed /\ UNCHANGED <<manifest, file, accepts>>
  BY DEF ResolveBlob, fixed
<1>3. blob \in Blob \cup {Nothing} /\ blob \in Own(c)
  <2>1. dep[c] \in Deployment
    BY <1>1, RequestFacts
  <2>2. file \in [Deployment -> Files]
    BY <1>1, Zenon DEF RequestTypeOK
  <2> QED  BY <2>1, <2>2, ResolveType, OwnFacts
<1>4. /\ blob = Nothing => LruSet(NegativeKey(c), Absent) /\ NotFound(c)
      /\ blob # Nothing =>
            /\ LruSet(PathKey(c), [blob |-> blob, encoding |-> Encoding(blob), body |-> FALSE])
            /\ res' = [res EXCEPT ![c] = blob]
            /\ Goes(c, "body") /\ UNCHANGED <<asks, held, status>>
  BY DEF ResolveBlob
<1> HIDE DEF blob
<1>5. CASE blob = Nothing
  <2>1. RequestTypeOK' /\ RequestsRight'
    BY <1>1, <1>2, <1>4, <1>5, ReplyKeeps DEF NotFound
  <2>2. CacheOK' /\ EntriesRight'
    <3>1. /\ NegativeKey(c) \in CacheKey /\ Absent \in Item /\ Weight(Absent) = 0
          /\ Right([key |-> NegativeKey(c), item |-> Absent])
      BY <1>1, KeyFacts, AbsentFacts
    <3>2. MaxCacheSize > 0 => Weight(Absent) <= MaxCacheSize
      BY <3>1, ContentAssumption
    <3> QED  BY <1>1, <1>2, <1>4, <1>5, <3>1, <3>2, SetRight
  <2> QED  BY <2>1, <2>2, ContentJoins
<1>6. CASE blob # Nothing
  <2> DEFINE item == [blob |-> blob, encoding |-> Encoding(blob), body |-> FALSE]
  <2>1. RequestTypeOK' /\ RequestsRight'
    BY <1>1, <1>2, <1>3, <1>4, <1>6, GoesKeeps
  <2>2. /\ item \in Item /\ Weight(item) = 0
        /\ item.blob = blob /\ item.encoding = Encoding(blob)
    <3>1. Encoding(blob) \in {"", "br", "gz"} /\ FALSE \in BOOLEAN
      BY EncodingType
    <3> QED  BY <1>3, <3>1, ItemFacts
  <2>3. LruSet(PathKey(c), item)
    BY <1>4, <1>6
  <2> HIDE DEF item
  <2>4. Right([key |-> PathKey(c), item |-> item])
    <3>1. Resolutions(PathKey(c)[2], PathKey(c)[3]) = Own(c)
      BY <1>1, KeyFacts
    <3> QED  BY <1>3, <1>6, <2>2, <3>1 DEF Right
  <2>5. PathKey(c) \in CacheKey /\ (MaxCacheSize > 0 => Weight(item) <= MaxCacheSize)
    BY <1>1, <2>2, KeyFacts, ContentAssumption
  <2>6. CacheOK' /\ EntriesRight'
    BY <1>1, <1>2, <2>2, <2>3, <2>4, <2>5, SetRight
  <2> QED  BY <2>1, <2>6, ContentJoins
<1> QED  BY <1>5, <1>6

(* What a body entry is filled in with is its own encoding, unless clients   *)
(* that resolve the path differently share it.                               *)
LEMMA CheckBodyKeeps ==
  ASSUME ContentInv, NEW c \in Client, CheckBody(c)
  PROVE  ContentInv'
<1> DEFINE key == BodyKey(c)
           item == Cached(key)
           encoding == IF item.encoding = "" THEN Encoding(res[c]) ELSE item.encoding
           filled == [item EXCEPT !.encoding = encoding]
<1>1. RequestTypeOK /\ CacheOK /\ EntriesRight /\ RequestsRight
  BY ContentParts
<1>2. UNCHANGED fixed /\ UNCHANGED <<manifest, file, accepts>> /\ rpc[c] = "body"
  BY DEF CheckBody, fixed
<1>3. /\ key \in CacheKey /\ key[1] = "body" /\ Resolutions(key[2], key[3]) = Own(c)
      /\ (key[3] = "webp") <=> Shared(c)
  BY <1>1, KeyFacts
<1>4. res[c] \in Own(c) /\ DOMAIN res = Client /\ res[c] \in Blob \cup {Nothing}
      /\ res[c] # Nothing
  BY <1>1, <1>2, RequestFacts DEF RequestsRight, RequestRight
<1>5. \/ LruMiss(key) /\ Goes(c, "fetch") /\ UNCHANGED <<asks, res, held, status>>
      \/ /\ Hit(key) /\ item.blob = Nothing
         /\ LruGet(key) /\ NotFound(c)
      \/ /\ Hit(key) /\ item.blob # Nothing /\ LruFront(key, filled)
         /\ \/ ReplyNotModified(c)
            \/ Serve(c, item.blob, encoding)
            \/ Goes(c, "fetch") /\ UNCHANGED <<asks, res, held, status>>
  BY DEF CheckBody
<1> HIDE DEF key, encoding, filled
<1>6. ASSUME Goes(c, "fetch"), UNCHANGED <<asks, res, held, status>>
      PROVE  RequestTypeOK' /\ RequestsRight'
  <2>1. res' = [res EXCEPT ![c] = res[c]]
    BY <1>1, <1>6, RequestFacts
  <2> QED  BY <1>1, <1>2, <1>4, <1>6, <2>1, GoesKeeps
<1>7. CASE LruMiss(key) /\ Goes(c, "fetch") /\ UNCHANGED <<asks, res, held, status>>
  <2>1. CacheOK' /\ EntriesRight'
    BY <1>1, <1>2, <1>7, MissRight
  <2> QED  BY <1>6, <1>7, <2>1, ContentJoins
<1>8. CASE Hit(key) /\ item.blob = Nothing /\ LruGet(key) /\ NotFound(c)
  <2>1. RequestTypeOK' /\ RequestsRight'
    BY <1>1, <1>2, <1>8, ReplyKeeps DEF NotFound
  <2>2. CacheOK' /\ EntriesRight'
    BY <1>1, <1>2, <1>3, <1>8, GetRight
  <2> QED  BY <2>1, <2>2, ContentJoins
<1>9. CASE /\ Hit(key) /\ item.blob # Nothing /\ LruFront(key, filled)
           /\ \/ ReplyNotModified(c)
              \/ Serve(c, item.blob, encoding)
              \/ Goes(c, "fetch") /\ UNCHANGED <<asks, res, held, status>>
  <2>1. item \in Item
    BY <1>1, <1>9, AtFacts, CacheFacts
  <2>2. item.blob \in Own(c) /\ (item.encoding = Encoding(item.blob) \/ Shared(c))
    <3>1. Right([key |-> key, item |-> item])
      BY <1>1, <1>9, CachedRight
    <3> QED  BY <1>3, <1>9, <3>1 DEF Right
  <2>3. item.blob \in Blob \cup {Nothing} /\ item.encoding \in {"", "br", "gz"}
    BY <2>1 DEF Item
  <2>4. encoding \in {"", "br", "gz"}
    BY <2>3, EncodingType DEF encoding
  <2>5. encoding = Encoding(item.blob) \/ Shared(c)
    <3> SUFFICES ASSUME ~ Shared(c) PROVE encoding = Encoding(item.blob)
      OBVIOUS
    <3>1. res[c] = item.blob
      BY <1>4, <2>2, OwnFacts
    <3> QED  BY <2>2, <3>1 DEF encoding
  <2>6. /\ filled \in Item /\ filled.blob = item.blob /\ filled.encoding = encoding
        /\ Weight(filled) = Weight(item)
    <3>1. filled = [blob |-> item.blob, encoding |-> encoding, body |-> item.body]
      BY <2>1, FillFacts DEF filled
    <3>2. item.body \in BOOLEAN
      BY <2>1, Zenon DEF Item
    <3> HIDE DEF item
    <3>3. filled \in Item /\ filled.blob = item.blob /\ filled.encoding = encoding
      BY <2>3, <2>4, <3>1, <3>2, ItemFacts
    <3>4. Weight(filled) = Weight(item)
      BY <3>1 DEF Weight
    <3> QED  BY <3>3, <3>4
  <2>7. Right([key |-> key, item |-> filled])
    BY <1>3, <1>9, <2>2, <2>5, <2>6 DEF Right
  <2> HIDE DEF item
  <2>8. CacheOK' /\ EntriesRight'
    <3>1. Weight(filled) = Weight(Cached(key))
      BY <2>6 DEF item
    <3> QED  BY <1>1, <1>2, <1>3, <1>9, <2>6, <2>7, <3>1, FrontRight
  <2>9. RequestTypeOK' /\ RequestsRight'
    <3>1. CASE ReplyNotModified(c)
      BY <1>1, <1>2, <3>1, ReplyKeeps DEF ReplyNotModified
    <3>2. CASE Serve(c, item.blob, encoding)
      BY <1>1, <1>2, <2>2, <2>3, <2>4, <2>5, <3>2, ServeKeeps
    <3>3. CASE Goes(c, "fetch") /\ UNCHANGED <<asks, res, held, status>>
      BY <1>6, <3>3
    <3> QED  BY <1>9, <3>1, <3>2, <3>3
  <2> QED  BY <2>8, <2>9, ContentJoins
<1> QED  BY <1>5, <1>7, <1>8, <1>9

(* What the store gives is cached under the key of the body with the bytes   *)
(* of the blob, if they fit.                                                 *)
LEMMA GetObjectKeeps ==
  ASSUME ContentInv, NEW c \in Client, GetObject(c)
  PROVE  ContentInv'
<1> DEFINE key == BodyKey(c)
           blob == res[c]
           fits == MaxCacheSize > 0 /\ Size[blob.variant] <= MaxCacheSize
           item == [blob |-> blob, encoding |-> Encoding(blob), body |-> fits]
<1>1. RequestTypeOK /\ CacheOK /\ EntriesRight /\ RequestsRight
  BY ContentParts
<1>2. UNCHANGED fixed /\ UNCHANGED <<manifest, file, accepts>> /\ rpc[c] = "fetch"
  BY DEF GetObject, fixed
<1>3. /\ key \in CacheKey /\ key[1] = "body" /\ Resolutions(key[2], key[3]) = Own(c)
  BY <1>1, KeyFacts
<1>4. blob \in Own(c) /\ blob \in Blob \cup {Nothing} /\ blob # Nothing
  BY <1>1, <1>2, RequestFacts DEF RequestsRight, RequestRight
<1>5. \/ LruSet(key, Absent) /\ NotFound(c)
      \/ /\ (Hit(key) /\ LruGet(key)) \/ LruMiss(key)
         /\ ReplyNotModified(c)
      \/ LruSet(key, item) /\ Serve(c, blob, Encoding(blob))
  BY DEF GetObject
<1> HIDE DEF key
<1>6. CASE LruSet(key, Absent) /\ NotFound(c)
  <2>1. RequestTypeOK' /\ RequestsRight'
    BY <1>1, <1>2, <1>6, ReplyKeeps DEF NotFound
  <2>2. /\ Absent \in Item /\ Weight(Absent) = 0 /\ Right([key |-> key, item |-> Absent])
    BY <1>3, AbsentFacts
  <2>3. MaxCacheSize > 0 => Weight(Absent) <= MaxCacheSize
    BY <2>2, ContentAssumption
  <2>4. CacheOK' /\ EntriesRight'
    BY <1>1, <1>2, <1>3, <1>6, <2>2, <2>3, SetRight
  <2> QED  BY <2>1, <2>4, ContentJoins
<1>7. CASE ((Hit(key) /\ LruGet(key)) \/ LruMiss(key)) /\ ReplyNotModified(c)
  <2>1. RequestTypeOK' /\ RequestsRight'
    BY <1>1, <1>2, <1>7, ReplyKeeps DEF ReplyNotModified
  <2>2. CacheOK' /\ EntriesRight'
    BY <1>1, <1>2, <1>3, <1>7, GetRight, MissRight
  <2> QED  BY <2>1, <2>2, ContentJoins
<1>8. CASE LruSet(key, item) /\ Serve(c, blob, Encoding(blob))
  <2>1. Encoding(blob) \in {"", "br", "gz"}
    BY EncodingType
  <2>2. RequestTypeOK' /\ RequestsRight'
    <3> HIDE DEF blob, item
    <3> QED  BY <1>1, <1>2, <1>4, <1>8, <2>1, ServeKeeps
  <2>3. /\ item \in Item /\ item.blob = blob /\ item.encoding = Encoding(blob)
        /\ MaxCacheSize > 0 => Weight(item) <= MaxCacheSize
    <3> HIDE DEF blob
    <3>1. CASE fits
      <4>1. fits = TRUE
        BY <3>1
      <4> HIDE DEF fits
      <4>2. item = [blob |-> blob, encoding |-> Encoding(blob), body |-> TRUE]
        BY <4>1, Zenon
      <4>3. TRUE \in BOOLEAN
        OBVIOUS
      <4> HIDE DEF item
      <4>4. /\ item \in Item /\ item.blob = blob /\ item.encoding = Encoding(blob)
            /\ Weight(item) = Size[blob.variant]
        BY <1>4, <2>1, <4>2, <4>3, ItemFacts
      <4> QED  BY <3>1, <4>4, ContentAssumption DEF fits
    <3>2. CASE ~ fits
      <4>1. fits = FALSE
        BY <3>2
      <4> HIDE DEF fits
      <4>2. item = [blob |-> blob, encoding |-> Encoding(blob), body |-> FALSE]
        BY <4>1, Zenon
      <4>3. FALSE \in BOOLEAN
        OBVIOUS
      <4> HIDE DEF item
      <4>4. /\ item \in Item /\ item.blob = blob /\ item.encoding = Encoding(blob)
            /\ Weight(item) = 0
        BY <1>4, <2>1, <4>2, <4>3, ItemFacts
      <4> QED  BY <3>2, <4>4, ContentAssumption
    <3> QED  BY <3>1, <3>2
  <2>4. Right([key |-> key, item |-> item])
    <3> HIDE DEF item, blob
    <3> QED  BY <1>3, <1>4, <2>3 DEF Right
  <2>5. CacheOK' /\ EntriesRight'
    <3> HIDE DEF item
    <3> QED  BY <1>1, <1>2, <1>3, <1>8, <2>3, <2>4, SetRight
  <2> QED  BY <2>2, <2>5, ContentJoins
<1> QED  BY <1>5, <1>6, <1>7, <1>8

(* A failure leaves the cache alone, as do the steps of the bucket.          *)
LEMMA RequestFailsKeeps ==
  ASSUME ContentInv, NEW c \in Client, RequestFails(c)
  PROVE  ContentInv'
<1>1. RequestTypeOK /\ CacheOK /\ EntriesRight /\ RequestsRight
  BY ContentParts
<1>2. UNCHANGED fixed /\ UNCHANGED <<manifest, file, accepts, cache, asks, held, status>>
  BY DEF RequestFails, fixed
<1>3. RequestTypeOK' /\ RequestsRight'
  BY <1>1, <1>2, GoesKeeps DEF RequestFails
<1>4. CacheOK' /\ EntriesRight'
  BY <1>1, <1>2, CacheRests
<1> QED  BY <1>3, <1>4, ContentJoins

LEMMA StoreStepKeeps ==
  ASSUME ContentInv, active' \in Deployment, stored' \subseteq Deployment,
         UNCHANGED <<manifest, file, accepts, cache, rpc, dep, asks, res, held, status, requests>>
  PROVE  ContentInv'
<1>1. RequestTypeOK /\ CacheOK /\ EntriesRight /\ RequestsRight
  BY ContentParts
<1>2. RequestTypeOK'
  <2>1. /\ manifest' = manifest /\ file' = file /\ accepts' = accepts /\ rpc' = rpc /\ dep' = dep /\ asks' = asks
        /\ res' = res /\ held' = held /\ status' = status /\ requests' = requests
    OBVIOUS
  <2>2. /\ rpc' \in [Client -> {"idle", "lookup", "path", "resolve", "body", "fetch"}]
        /\ dep' \in [Client -> Deployment] /\ asks' \in [Client -> BOOLEAN]
        /\ res' \in [Client -> Blob \cup {Nothing}] /\ held' \in [Client -> Copy]
        /\ status' \in [Client -> {0, 200, 304, 404}]
    BY <1>1, <2>1, RequestFacts
  <2>3. /\ manifest \in [Deployment -> Manifests] /\ file \in [Deployment -> Files]
        /\ accepts \in [Client -> Accepts]
        /\ requests \in 0 .. MaxRequests
    BY <1>1, Zenon DEF RequestTypeOK
  <2> QED  BY <2>1, <2>2, <2>3 DEF RequestTypeOK
<1>3. RequestsRight'
  BY <1>1, RequestKept DEF RequestsRight
<1>4. CacheOK' /\ EntriesRight'
  BY <1>1, CacheRests
<1> QED  BY <1>2, <1>3, <1>4, ContentJoins

LEMMA ContentInitHolds ==
  ASSUME ContentInit
  PROVE  ContentInv
<1>1. RequestTypeOK
  <2>1. 0 \in 0 .. MaxRequests
    BY ContentAssumption
  <2>2. [blob |-> Nothing, encoding |-> ""] \in Copy
    BY DEF Copy
  <2>3. held \in [Client -> Copy]
    BY <2>2 DEF ContentInit
  <2>4. /\ manifest \in [Deployment -> Manifests] /\ file \in [Deployment -> Files]
        /\ accepts \in [Client -> Accepts]
        /\ active \in Deployment /\ stored \subseteq Deployment
        /\ rpc \in [Client -> {"idle", "lookup", "path", "resolve", "body", "fetch"}]
        /\ dep \in [Client -> Deployment] /\ requests = 0
    BY DEF ContentInit
  <2>5. /\ asks \in [Client -> BOOLEAN] /\ res \in [Client -> Blob \cup {Nothing}]
        /\ status \in [Client -> {0, 200, 304, 404}]
    BY DEF ContentInit
  <2> QED  BY <2>1, <2>3, <2>4, <2>5 DEF RequestTypeOK
<1>2. lru = <<>> /\ currentBytes = 0 /\ DOMAIN lru = {}
  <2>1. lru = <<>> /\ currentBytes = 0
    BY Zenon DEF ContentInit
  <2> QED  BY <2>1
<1>3. CacheOK
  <2>1. lru \in Seq(Entry) /\ Bytes(lru) = 0 /\ Len(lru) = 0
    BY <1>2, BytesEmpty
  <2>2. 0 <= Capacity /\ (MaxCacheSize > 0 => 0 <= MaxCacheSize)
    BY ContentAssumption
  <2> QED  BY <1>2, <2>1, <2>2 DEF CacheOK, CacheBounded
<1>4. EntriesRight
  BY <1>2 DEF EntriesRight
<1>5. RequestsRight
  <2>1. rpc = [c \in Client |-> "idle"] /\ status = [c \in Client |-> 0]
    BY Zenon DEF ContentInit
  <2> QED  BY <2>1 DEF RequestsRight, RequestRight
<1> QED  BY <1>1, <1>3, <1>4, <1>5, ContentParts

LEMMA ContentStepHolds ==
  ASSUME ContentInv, [ContentNext]_contentVars
  PROVE  ContentInv'
<1>1. RequestTypeOK
  BY ContentParts
<1>2. active \in Deployment /\ stored \subseteq Deployment
  BY <1>1, Zenon DEF RequestTypeOK
<1>3. ASSUME NEW c \in Client,
             \/ Ask(c) \/ LookUp(c) \/ LookUpPath(c) \/ ResolveBlob(c)
             \/ CheckBody(c) \/ GetObject(c) \/ RequestFails(c)
      PROVE  ContentInv'
  BY <1>3, AskKeeps, LookUpKeeps, LookUpPathKeeps, ResolveKeeps, CheckBodyKeeps,
     GetObjectKeeps, RequestFailsKeeps
<1>4. ASSUME NEW d \in Deployment, Activates(d)
      PROVE  ContentInv'
  BY <1>2, <1>4, StoreStepKeeps DEF Activates
<1>5. ASSUME NEW d \in Deployment, Purges(d)
      PROVE  ContentInv'
  <2>1. stored' \subseteq Deployment
    BY <1>2, <1>5 DEF Purges
  <2> QED  BY <1>2, <1>5, <2>1, StoreStepKeeps DEF Purges
<1>6. CASE UNCHANGED contentVars
  BY <1>2, <1>6, StoreStepKeeps DEF contentVars
<1> QED  BY <1>3, <1>4, <1>5, <1>6 DEF ContentNext
-----------------------------------------------------------------------------
(* The theorems.                                                             *)

LEMMA ContentInvAlways == ContentSpec => []ContentInv
<1>1. ContentInit => ContentInv
  BY ContentInitHolds
<1>2. ContentInv /\ [ContentNext]_contentVars => ContentInv'
  BY ContentStepHolds
<1> QED  BY <1>1, <1>2, PTL DEF ContentSpec

(* The types of the cache and of the requests.                               *)
THEOREM ContentTypeCorrect == ContentSpec => []ContentTypeOK
<1>1. ContentInv => ContentTypeOK
  BY DEF ContentInv
<1> QED  BY <1>1, ContentInvAlways, PTL

(* What a client is served is what resolving the path in its deployment      *)
(* gives it, or a client that shares its key: no entry of another deployment *)
(* or encoding is served, whatever was cached, evicted, expired or purged.   *)
THEOREM ServedAsResolvedHolds == ContentSpec => []ServedAsResolved
BY ServedFollows, ContentInvAlways, PTL

(* The bytes that the cache counts are those of the bodies it holds, and     *)
(* neither they nor the entries exceed their limits.                         *)
THEOREM CacheBoundedHolds == ContentSpec => []CacheBounded
<1>1. ContentInv => CacheBounded
  BY DEF ContentInv
<1> QED  BY <1>1, ContentInvAlways, PTL

(* The three components of the run keep their types, whichever moves.        *)
THEOREM UsageContentTypeCorrect == UsageContentSpec => []UsageContentTypeOK
<1> DEFINE Inv == PipelineInv /\ IngestInv /\ ContentInv
           Next == LogsMove \/ IngestMoves \/ ContentMoves
           vars == <<part, pipelineVars, ingestVars, contentVars>>
<1>1. UsageContentInit => Inv
  BY PipelineInvInit, IngestInvInit, ContentInitHolds DEF UsageContentInit
<1>2. Inv /\ [Next]_vars => Inv'
  <2> SUFFICES ASSUME Inv, [Next]_vars PROVE Inv'
    OBVIOUS
  <2>1. /\ [PipelineNext]_pipelineVars
        /\ [IngestNext]_ingestVars
        /\ [ContentNext]_contentVars
    BY DEF LogsMove, IngestMoves, ContentMoves
  <2> QED  BY <2>1, PipelineInvStep, IngestInvStep, ContentStepHolds
<1>3. Inv => UsageContentTypeOK
  BY DEF PipelineInv, IngestInv, ContentInv, UsageContentTypeOK
<1> QED  BY <1>1, <1>2, <1>3, PTL DEF UsageContentSpec

-----------------------------------------------------------------------------
(* When dates tell what is new: deployments only go forward, and a file that *)
(* changes from one to a later one changes to a blob that is newer, so that  *)
(* no content comes back.                                                    *)
Forward == ContentNext /\ active' >= active
NoneComesBack ==
    \A c \in Client : \A d, e \in Deployment : d < e =>
        \A old \in Options(d, c) \ {Nothing}, new \in Options(e, c) \ {Nothing} :
            old \in Options(e, c) \/ Date(old) < Date(new)
ForwardSpec == (ContentInit /\ NoneComesBack) /\ [][Forward]_contentVars

(* What a client holds resolved in a deployment that is not newer than the   *)
(* one it asks for.                                                          *)
ClientForward(c) ==
    /\ dep[c] <= active
    /\ held[c].blob # Nothing =>
           \E d \in Deployment : d <= dep[c] /\ held[c].blob \in Options(d, c)
    /\ asks[c] => held[c].blob # Nothing
    /\ status[c] \in {200, 304} => held[c].blob \in Options(dep[c], c)
ForwardInv ==
    ContentInv /\ NoneComesBack /\ \A c \in Client : ClientForward(c)

(* What resolves in a deployment is a blob that the deployment has.          *)
LEMMA OptionHeld ==
  ASSUME NEW d \in Deployment, NEW c \in Client, NEW b \in Options(d, c), b # Nothing
  PROVE  Has(d, b)
<1>1. PICK a : b = ResolvePath(d, a)
  BY DEF Options
<1> DEFINE found == {i \in DOMAIN Candidates : Pick(d, Candidates[i], a) # Nothing}
<1>2. found # {} /\ b = Pick(d, Candidates[Min(found)], a)
  BY <1>1 DEF ResolvePath
<1>3. Min(found) \in DOMAIN Candidates
  <2>1. DOMAIN Candidates = 1 .. Len(Candidates) /\ found \subseteq DOMAIN Candidates
    BY ContentAssumption
  <2> HIDE DEF found
  <2> QED  BY <1>2, <2>1, MinIsLeast
<1> HIDE DEF found
<1>4. Candidates[Min(found)] \in Name
  BY <1>3, ContentAssumption DEF Name, ToSet
<1>5. PICK name \in Name : b = Pick(d, name, a)
  BY <1>2, <1>4
<1>6. PICK v : b = [content |-> file[d][name], variant |-> v] /\ <<name, v>> \in manifest[d]
  BY <1>5 DEF Pick
<1> QED  BY <1>6 DEF Has

(* The date of a blob that some deployment has is a number.                  *)
LEMMA DateIsNumber ==
  ASSUME NEW d \in Deployment, NEW b, Has(d, b)
  PROVE  Date(b) \in Nat
<1> DEFINE those == {e \in Deployment : Has(e, b)}
<1>1. those \subseteq Nat /\ those # {}
  BY ContentAssumption
<1> HIDE DEF those
<1>2. Min(those) \in Nat
  BY <1>1, MinIsLeast
<1> QED  BY <1>2 DEF Date, those

(* Neither the resolutions nor the dates change.                             *)
LEMMA OptionsKept ==
  ASSUME UNCHANGED <<manifest, file, accepts>>, NEW d, NEW c
  PROVE  Options(d, c)' = Options(d, c)
BY DEF Options, Alike, Shared, KeyOf, ResolvePath, Pick

LEMMA DatesKept ==
  ASSUME UNCHANGED <<manifest, file>>, NEW b
  PROVE  Date(b)' = Date(b)
BY DEF Date, Has

LEMMA OrderKept ==
  ASSUME NoneComesBack, UNCHANGED <<manifest, file, accepts>>
  PROVE  NoneComesBack'
BY OptionsKept, DatesKept DEF NoneComesBack

(* A blob by which a client may be told that nothing has changed: what it    *)
(* holds then resolves in the deployment it asks for.                        *)
LEMMA NotModifiedRight ==
  ASSUME ForwardInv, NEW c \in Client, NEW b, b # Nothing, b \in Options(dep[c], c),
         NotModified(c, b)
  PROVE  held[c].blob \in Options(dep[c], c)
<1> DEFINE old == held[c].blob
<1>1. ClientForward(c) /\ NoneComesBack /\ dep[c] \in Deployment
  BY ContentParts, RequestFacts DEF ForwardInv
<1>2. asks[c] /\ (old = b \/ Date(b) <= Date(old))
  BY DEF NotModified
<1>3. old # Nothing
  BY <1>1, <1>2 DEF ClientForward
<1>4. PICK d \in Deployment : d <= dep[c] /\ old \in Options(d, c)
  BY <1>1, <1>3 DEF ClientForward
<1>5. d \in Nat /\ dep[c] \in Nat
  BY <1>1, ContentAssumption
<1>6. CASE d = dep[c]
  BY <1>4, <1>6
<1>7. CASE d < dep[c]
  <2>1. old \in Options(dep[c], c) \/ Date(old) < Date(b)
    BY <1>1, <1>3, <1>4, <1>7 DEF NoneComesBack
  <2>2. Date(old) \in Nat /\ Date(b) \in Nat
    BY <1>1, <1>3, <1>4, OptionHeld, DateIsNumber
  <2> HIDE DEF old
  <2>3. old = b \/ ~ (Date(old) < Date(b))
    BY <1>2, <2>2
  <2> QED  BY <2>1, <2>3 DEF old
<1> QED  BY <1>4, <1>5, <1>6, <1>7

(* A request that ends with a 200 or a 304 leaves its client with a blob     *)
(* that resolves in its deployment.                                          *)
Answered(c) ==
    /\ \A e \in Client \ {c} : held'[e] = held[e] /\ status'[e] = status[e] /\ asks'[e] = asks[e]
    /\ asks'[c] = FALSE
    /\ \/ held'[c] = held[c] /\ status'[c] = 404
       \/ held'[c].blob \in Options(dep[c], c)

LEMMA RepliesAnswer ==
  ASSUME RequestTypeOK, NEW c \in Client,
         \/ NotFound(c)
         \/ ReplyNotModified(c) /\ held[c].blob \in Options(dep[c], c)
         \/ \E blob \in Options(dep[c], c) : \E encoding : Serve(c, blob, encoding)
  PROVE  Answered(c)
<1>1. DOMAIN held = Client /\ DOMAIN status = Client /\ DOMAIN asks = Client
  BY RequestFacts
<1>2. \E code \in {200, 304, 404} :
          status' = [status EXCEPT ![c] = code] /\ asks' = [asks EXCEPT ![c] = FALSE]
  BY DEF NotFound, ReplyNotModified, Serve, Reply
<1>3. CASE NotFound(c)
  <2>1. held' = held /\ status' = [status EXCEPT ![c] = 404]
    BY <1>3 DEF NotFound, Reply
  <2> QED  BY <1>1, <1>2, <2>1 DEF Answered
<1>4. CASE ReplyNotModified(c) /\ held[c].blob \in Options(dep[c], c)
  <2>1. held' = held
    BY <1>4 DEF ReplyNotModified
  <2> QED  BY <1>1, <1>2, <1>4, <2>1 DEF Answered
<1>5. ASSUME NEW blob \in Options(dep[c], c), NEW encoding, Serve(c, blob, encoding)
      PROVE  Answered(c)
  <2>1. held' = [held EXCEPT ![c] = [blob |-> blob, encoding |-> encoding]]
    BY <1>5 DEF Serve
  <2>2. held'[c].blob = blob
    BY <1>1, <2>1
  <2> QED  BY <1>1, <1>2, <1>5, <2>1, <2>2 DEF Answered
<1> QED  BY <1>3, <1>4, <1>5

LEMMA AnswersForward ==
  ASSUME ForwardInv, NEW c \in Client,
         LookUp(c) \/ ResolveBlob(c) \/ CheckBody(c) \/ GetObject(c)
  PROVE  UNCHANGED <<held, status, asks>> \/ Answered(c)
<1> DEFINE key == BodyKey(c)
           item == Cached(key)
<1>1. RequestTypeOK /\ CacheOK /\ EntriesRight /\ RequestsRight
  BY ContentParts DEF ForwardInv
<1>2. \A blob \in Own(c) : blob \in Options(dep[c], c)
  BY OwnFacts
<1>3. CASE LookUp(c) \/ ResolveBlob(c)
  <2>1. UNCHANGED <<held, status, asks>> \/ NotFound(c)
    BY <1>3 DEF LookUp, ResolveBlob
  <2> QED  BY <1>1, <2>1, RepliesAnswer
<1>4. CASE CheckBody(c) /\ ~ UNCHANGED <<held, status, asks>>
  <2>1. \/ NotFound(c)
        \/ /\ Hit(key) /\ item.blob # Nothing
           /\ \/ NotModified(c, item.blob) /\ ReplyNotModified(c)
              \/ \E encoding : Serve(c, item.blob, encoding)
    BY <1>4 DEF CheckBody
  <2> HIDE DEF key
  <2>2. ASSUME Hit(key), item.blob # Nothing PROVE item.blob \in Options(dep[c], c)
    <3>1. Right([key |-> key, item |-> item])
      BY <1>1, <2>2, CachedRight
    <3>2. key[1] = "body" /\ Resolutions(key[2], key[3]) = Own(c)
      BY <1>1, KeyFacts DEF key
    <3>3. item.blob \in Own(c)
      BY <2>2, <3>1, <3>2 DEF Right
    <3> HIDE DEF item
    <3> QED  BY <1>2, <3>3
  <2> HIDE DEF item
  <2>3. ASSUME Hit(key), item.blob # Nothing, NotModified(c, item.blob)
        PROVE  held[c].blob \in Options(dep[c], c)
    BY <2>2, <2>3, NotModifiedRight
  <2> QED  BY <1>1, <2>1, <2>2, <2>3, RepliesAnswer
<1>5. CASE GetObject(c)
  <2>1. res[c] \in Options(dep[c], c)
    <3>1. rpc[c] = "fetch"
      BY <1>5 DEF GetObject
    <3> QED  BY <1>1, <1>2, <3>1 DEF RequestsRight, RequestRight
  <2>2. \/ NotFound(c)
        \/ held[c].blob = res[c] /\ ReplyNotModified(c)
        \/ Serve(c, res[c], Encoding(res[c]))
    BY <1>5 DEF GetObject
  <2> QED  BY <1>1, <2>1, <2>2, RepliesAnswer
<1> QED  BY <1>3, <1>4, <1>5

(* Every step keeps it; a client that asks again asks for what is active.    *)
LEMMA ForwardStep ==
  ASSUME ForwardInv, [Forward]_contentVars
  PROVE  ForwardInv'
<1>1. ContentInv'
  BY ContentStepHolds DEF ForwardInv, Forward
<1>2. UNCHANGED <<manifest, file, accepts>>
  BY DEF Forward, ContentNext, Ask, LookUp, LookUpPath, ResolveBlob, CheckBody,
         GetObject, RequestFails, Activates, Purges, contentVars
<1>3. NoneComesBack'
  BY <1>2, OrderKept DEF ForwardInv
<1> SUFFICES ASSUME NEW c \in Client PROVE ClientForward(c)'
  BY <1>1, <1>3 DEF ForwardInv
<1>4. ClientForward(c) /\ RequestTypeOK
  BY ContentParts DEF ForwardInv
<1>5. /\ DOMAIN dep = Client /\ DOMAIN held = Client /\ DOMAIN status = Client
      /\ DOMAIN asks = Client /\ dep[c] \in Deployment
  BY <1>4, RequestFacts
<1>6. active \in Deployment /\ active' \in Deployment
  <2>1. RequestTypeOK'
    BY <1>1 DEF ContentInv, ContentTypeOK, RequestTypeOK, Copy
  <2> QED  BY <1>4, <2>1, Zenon DEF RequestTypeOK
<1>7. active \in Nat /\ active' \in Nat /\ dep[c] \in Nat
  BY <1>5, <1>6, ContentAssumption
<1>8. \A d : Options(d, c)' = Options(d, c)
  BY <1>2, OptionsKept
<1>9. CASE UNCHANGED <<held, dep, status, asks>> /\ active' >= active
  <2>1. /\ held'[c] = held[c] /\ dep'[c] = dep[c] /\ status'[c] = status[c]
        /\ asks'[c] = asks[c] /\ dep'[c] <= active'
    BY <1>4, <1>7, <1>9 DEF ClientForward
  <2> QED  BY <1>4, <1>8, <2>1 DEF ClientForward
<1>10. ASSUME NEW e \in Client, Ask(e) PROVE ClientForward(c)'
  <2>1. /\ active' = active /\ held' = held /\ dep' = [dep EXCEPT ![e] = active]
        /\ status' = [status EXCEPT ![e] = 0]
        /\ \E validates \in {FALSE, held[e].blob # Nothing} : asks' = [asks EXCEPT ![e] = validates]
    BY <1>10 DEF Ask
  <2>2. CASE e = c
    <3>1. dep'[c] = active /\ status'[c] = 0 /\ (asks'[c] => held[c].blob # Nothing)
      BY <1>5, <2>1, <2>2
    <3>2. held[c].blob # Nothing =>
              \E d \in Deployment : d <= active /\ held[c].blob \in Options(d, c)
      <4> SUFFICES ASSUME held[c].blob # Nothing
                   PROVE  \E d \in Deployment : d <= active /\ held[c].blob \in Options(d, c)
        OBVIOUS
      <4>1. PICK d \in Deployment : d <= dep[c] /\ held[c].blob \in Options(d, c)
        BY <1>4 DEF ClientForward
      <4>2. d \in Nat /\ dep[c] <= active
        BY <1>4, ContentAssumption DEF ClientForward
      <4>3. d <= active
        BY <1>7, <4>1, <4>2
      <4> QED  BY <4>1, <4>3
    <3> QED  BY <1>7, <1>8, <2>1, <3>1, <3>2 DEF ClientForward
  <2>3. CASE e # c
    <3>1. dep'[c] = dep[c] /\ status'[c] = status[c] /\ asks'[c] = asks[c]
      BY <1>5, <2>1, <2>3
    <3> QED  BY <1>4, <1>8, <2>1, <3>1 DEF ClientForward
  <2> QED  BY <2>2, <2>3
<1>11. ASSUME NEW e \in Client,
              LookUp(e) \/ ResolveBlob(e) \/ CheckBody(e) \/ GetObject(e)
       PROVE  ClientForward(c)'
  <2>1. active' = active /\ dep' = dep
    BY <1>11 DEF LookUp, ResolveBlob, CheckBody, GetObject
  <2>2. CASE UNCHANGED <<held, status, asks>>
    BY <1>7, <1>9, <2>1, <2>2
  <2>3. CASE Answered(e)
    <3>1. CASE e # c
      <4>1. held'[c] = held[c] /\ status'[c] = status[c] /\ asks'[c] = asks[c]
        BY <2>3, <3>1 DEF Answered
      <4> QED  BY <1>4, <1>8, <2>1, <4>1 DEF ClientForward
    <3>2. CASE e = c /\ held'[c] = held[c] /\ status'[c] = 404 /\ asks'[c] = FALSE
      BY <1>4, <1>8, <2>1, <3>2 DEF ClientForward
    <3>3. CASE e = c /\ held'[c].blob \in Options(dep[c], c) /\ asks'[c] = FALSE
      <4>1. dep[c] <= dep[c] /\ dep[c] <= active
        BY <1>4, <1>7 DEF ClientForward
      <4> QED  BY <1>5, <1>8, <2>1, <3>3, <4>1 DEF ClientForward
    <3> QED  BY <2>3, <3>1, <3>2, <3>3 DEF Answered
  <2> QED  BY <1>11, <2>2, <2>3, AnswersForward
<1>12. CASE \/ \E e \in Client : LookUpPath(e) \/ RequestFails(e)
            \/ \E d \in Deployment : Activates(d) \/ Purges(d)
            \/ UNCHANGED contentVars
  <2>1. UNCHANGED <<held, dep, status, asks>>
    BY <1>12 DEF LookUpPath, RequestFails, Activates, Purges, contentVars
  <2>2. active' >= active
    BY <1>7, <1>12 DEF Forward, contentVars
  <2> QED  BY <1>9, <2>1, <2>2
<1> QED  BY <1>10, <1>11, <1>12 DEF Forward, ContentNext

(* As long as no deployment replaces a newer one and no content of the path  *)
(* comes back, a client that is answered has the content of the deployment   *)
(* it was routed to, revalidated by date or not.                             *)
THEOREM ClientsGetActiveHolds == ForwardSpec => []ClientsGetActive
<1>1. ContentInit /\ NoneComesBack => ForwardInv
  <2> SUFFICES ASSUME ContentInit, NoneComesBack PROVE ForwardInv
    OBVIOUS
  <2>1. active \in Nat
    BY ContentAssumption DEF ContentInit
  <2>2. ASSUME NEW c \in Client PROVE ClientForward(c)
    <3>1. /\ dep[c] = active /\ held[c].blob = Nothing /\ status[c] = 0
          /\ asks[c] = FALSE
      BY DEF ContentInit
    <3> QED  BY <2>1, <3>1 DEF ClientForward
  <2> QED  BY <2>2, ContentInitHolds DEF ForwardInv
<1>2. ForwardInv /\ [Forward]_contentVars => ForwardInv'
  BY ForwardStep
<1>3. ForwardInv => ClientsGetActive
  BY DEF ForwardInv, ClientForward, ClientsGetActive
<1> QED  BY <1>1, <1>2, <1>3, PTL DEF ForwardSpec
=============================================================================
