-------------------- MODULE EncoderScheduling_proofs --------------------
(* Proofs about EncoderScheduling: the slot counters and references of the    *)
(* encoder cache are exact under both policies; under FCFS the workers hold   *)
(* what the manager believes, and no batch reads an output they lack.         *)
EXTENDS EncoderScheduling, FiniteSetTheorems, SequenceTheorems, WellFoundedInduction, TLAPS

-----------------------------------------------------------------------------
(* Sets, sequences and sums.                                                  *)

\* A nonempty set of natural numbers has a least element.
LEMMA LeastNat ==
    ASSUME NEW T, T \subseteq Nat, T # {}
    PROVE  \E x \in T : \A y \in T : x <= y
<1>1. IsWellFoundedOn(OpToRel(<, Nat), Nat)
  BY NatLessThanWellFounded
<1>2. \E x \in T : \A y \in T : ~(<<y, x>> \in OpToRel(<, Nat))
  BY <1>1, WFMin
<1>3. OpToRel(<, Nat) = {p \in Nat \X Nat : p[1] < p[2]}
  BY DEF OpToRel
<1>4. PICK x \in T : \A y \in T : ~(<<y, x>> \in {p \in Nat \X Nat : p[1] < p[2]})
  BY <1>2, <1>3, Zenon
<1>5. ASSUME NEW y \in T PROVE x <= y
  <2>1. <<y, x>> \notin {p \in Nat \X Nat : p[1] < p[2]}
    BY <1>4
  <2> QED
    BY <2>1
<1> QED
  BY <1>5

\* The slots of a finite set of entries are finitely many.
LEMMA SlotsFinite ==
    ASSUME NEW S, IsFiniteSet(S)
    PROVE  IsFiniteSet(Slots(S)) /\ TotalEmbeds(S) \in Nat
<1>1. IsFiniteSet(1 .. CacheSize)
  BY EncoderCacheAssumption, FS_Interval
<1>2. IsFiniteSet(S \X (1 .. CacheSize))
  BY <1>1, FS_Product
<1>3. Slots(S) \in SUBSET (S \X (1 .. CacheSize))
  BY DEF Slots
<1>4. IsFiniteSet(Slots(S))
  BY <1>2, <1>3, FS_Subset
<1> QED
  BY <1>4, FS_CardinalityType DEF TotalEmbeds

\* Entries of disjoint sets take slots of their own.
LEMMA TotalUnion ==
    ASSUME NEW S, IsFiniteSet(S), NEW T, IsFiniteSet(T), S \cap T = {}
    PROVE  TotalEmbeds(S \cup T) = TotalEmbeds(S) + TotalEmbeds(T)
<1>1. Slots(S \cup T) = Slots(S) \cup Slots(T) /\ Slots(S) \cap Slots(T) = {}
  BY DEF Slots
<1>2. IsFiniteSet(Slots(S)) /\ IsFiniteSet(Slots(T))
  BY SlotsFinite
<1>3. Cardinality(Slots(S)) \in Nat /\ Cardinality(Slots(T)) \in Nat
  BY <1>2, FS_CardinalityType
<1>4. Cardinality(Slots(S) \cap Slots(T)) = 0
  BY <1>1, FS_EmptySet
<1>5. Cardinality(Slots(S) \cup Slots(T)) =
        Cardinality(Slots(S)) + Cardinality(Slots(T)) - Cardinality(Slots(S) \cap Slots(T))
  BY <1>2, FS_Union
<1>6. \A x, y, z : x \in Nat /\ y \in Nat /\ z = 0 => x + y - z = x + y
  OBVIOUS
<1> QED
  BY <1>1, <1>3, <1>4, <1>5, <1>6 DEF TotalEmbeds

\* Nothing takes no slot, and one entry as many as it has embeddings.
LEMMA TotalOne ==
    /\ TotalEmbeds({}) = 0
    /\ \A h \in MmHash : TotalEmbeds({h}) = Embeds[h]
<1>1. TotalEmbeds({}) = 0
  <2>1. Slots({}) = {}
    BY DEF Slots
  <2> QED
    BY <2>1, FS_EmptySet DEF TotalEmbeds
<1>2. ASSUME NEW h \in MmHash PROVE TotalEmbeds({h}) = Embeds[h]
  <2>1. Embeds[h] \in 1 .. CacheSize /\ CacheSize \in Nat
    BY EncoderCacheAssumption
  <2> DEFINE D == 1 .. Embeds[h]
             f == [i \in D |-> <<h, i>>]
  <2>2. IsFiniteSet(D) /\ Cardinality(D) = Embeds[h]
    BY <2>1, FS_Interval
  <2>3. Slots({h}) = {<<h, i>> : i \in D}
    BY <2>1 DEF Slots
  <2>4. f \in [D -> Slots({h})]
    BY <2>3
  <2>5. \A a, b \in D : f[a] = f[b] => a = b
    OBVIOUS
  <2>6. \A s \in Slots({h}) : \E a \in D : f[a] = s
    BY <2>3
  <2> HIDE DEF f, D
  <2>7. f \in Bijection(D, Slots({h}))
    BY <2>4, <2>5, <2>6 DEF Bijection, Injection, Surjection, IsInjective
  <2>8. ExistsBijection(D, Slots({h}))
    BY <2>7 DEF ExistsBijection
  <2> QED
    BY <2>2, <2>8, FS_Bijection DEF TotalEmbeds
<1> QED
  BY <1>1, <1>2

\* A part of the entries takes no more slots than all.
LEMMA TotalPart ==
    ASSUME NEW T, IsFiniteSet(T), NEW S, S \subseteq T
    PROVE  /\ IsFiniteSet(S) /\ IsFiniteSet(T \ S)
           /\ TotalEmbeds(T) = TotalEmbeds(S) + TotalEmbeds(T \ S)
           /\ TotalEmbeds(S) <= TotalEmbeds(T)
<1>1. IsFiniteSet(S) /\ IsFiniteSet(T \ S)
  BY FS_Subset, FS_Difference
<1>2. S \cup (T \ S) = T /\ S \cap (T \ S) = {}
  OBVIOUS
<1>3. TotalEmbeds(T) = TotalEmbeds(S) + TotalEmbeds(T \ S)
  BY <1>1, <1>2, TotalUnion
<1>4. TotalEmbeds(S) \in Nat /\ TotalEmbeds(T \ S) \in Nat
  BY <1>1, SlotsFinite
<1> QED
  BY <1>1, <1>3, <1>4

\* The elements and the injectivity of a sequence, by places.
LEMMA SeqFacts ==
    ASSUME NEW B, NEW s \in Seq(B)
    PROVE  /\ Len(s) \in Nat /\ DOMAIN s = 1 .. Len(s)
           /\ ToSet(s) \subseteq B
           /\ \A x : x \in ToSet(s) <=> \E i \in 1 .. Len(s) : s[i] = x
           /\ \A i \in 1 .. Len(s) : s[i] \in B /\ s[i] \in ToSet(s)
           /\ IsInjective(s) <=> \A i, j \in 1 .. Len(s) : s[i] = s[j] => i = j
BY DEF ToSet, IsInjective

\* A sequence is cut in two.
LEMMA CutFacts ==
    ASSUME NEW B, NEW s \in Seq(B), IsInjective(s), NEW k \in 0 .. Len(s)
    PROVE  /\ SubSeq(s, 1, k) \in Seq(B) /\ SubSeq(s, k + 1, Len(s)) \in Seq(B)
           /\ ToSet(SubSeq(s, k + 1, Len(s))) = ToSet(s) \ ToSet(SubSeq(s, 1, k))
           /\ ToSet(SubSeq(s, 1, k)) \subseteq ToSet(s)
           /\ IsInjective(SubSeq(s, k + 1, Len(s)))
<1>1. PICK a, b : a = SubSeq(s, 1, k) /\ b = SubSeq(s, k + 1, Len(s))
  OBVIOUS
<1>2. Len(s) \in Nat /\ k \in Nat /\ k <= Len(s)
  OBVIOUS
<1>3. /\ a \in Seq(B) /\ Len(a) = k
      /\ \A i \in 1 .. k : a[i] = s[i]
  BY <1>1, <1>2
<1>4. /\ b \in Seq(B) /\ Len(b) = Len(s) - k
      /\ \A i \in 1 .. (Len(s) - k) : b[i] = s[k + i]
  BY <1>1, <1>2
<1>5. \A i, j \in 1 .. Len(s) : s[i] = s[j] => i = j
  BY SeqFacts
<1>6. ASSUME NEW x PROVE x \in ToSet(b) <=> x \in ToSet(s) /\ x \notin ToSet(a)
  <2>1. x \in ToSet(b) <=> \E i \in 1 .. (Len(s) - k) : s[k + i] = x
    <3>1. x \in ToSet(b) <=> \E i \in 1 .. Len(b) : b[i] = x
      BY <1>4, SeqFacts
    <3> QED
      BY <1>4, <3>1
  <2>2. x \in ToSet(a) <=> \E i \in 1 .. k : s[i] = x
    <3>1. x \in ToSet(a) <=> \E i \in 1 .. Len(a) : a[i] = x
      BY <1>3, SeqFacts
    <3> QED
      BY <1>3, <3>1
  <2>3. x \in ToSet(s) <=> \E i \in 1 .. Len(s) : s[i] = x
    BY SeqFacts
  <2>4. ASSUME NEW i \in 1 .. (Len(s) - k), s[k + i] = x
        PROVE  k + i \in 1 .. Len(s) /\ \A j \in 1 .. k : s[j] # x
    BY <1>2, <1>5, <2>4
  <2>5. ASSUME NEW j \in 1 .. Len(s), s[j] = x, j \notin 1 .. k
        PROVE  \E i \in 1 .. (Len(s) - k) : s[k + i] = x
    <3>1. j - k \in 1 .. (Len(s) - k) /\ k + (j - k) = j
      BY <1>2, <2>5
    <3> QED
      BY <2>5, <3>1
  <2> QED
    BY <2>1, <2>2, <2>3, <2>4, <2>5
<1>7. ToSet(a) \subseteq ToSet(s)
  <2>1. ASSUME NEW x \in ToSet(a) PROVE x \in ToSet(s)
    <3>1. PICK i \in 1 .. k : s[i] = x
      BY <1>3, SeqFacts
    <3>2. i \in 1 .. Len(s)
      BY <1>2
    <3> QED
      BY <3>1, <3>2, SeqFacts
  <2> QED
    BY <2>1
<1>8. IsInjective(b)
  <2>1. ASSUME NEW i \in 1 .. Len(b), NEW j \in 1 .. Len(b), b[i] = b[j] PROVE i = j
    <3>1. k + i \in 1 .. Len(s) /\ k + j \in 1 .. Len(s) /\ s[k + i] = s[k + j]
      BY <1>2, <1>4, <2>1
    <3>2. k + i = k + j
      BY <1>5, <3>1
    <3> QED
      BY <1>2, <1>4, <3>2
  <2> QED
    BY <1>4, <2>1, SeqFacts
<1> QED
  BY <1>1, <1>3, <1>4, <1>6, <1>7, <1>8

\* pop() of one key: the others stay, each once.
LEMMA RemoveFirstFacts ==
    ASSUME NEW B, NEW s \in Seq(B), IsInjective(s), NEW e \in ToSet(s)
    PROVE  /\ RemoveFirst(s, e) \in Seq(B)
           /\ IsInjective(RemoveFirst(s, e))
           /\ ToSet(RemoveFirst(s, e)) = ToSet(s) \ {e}
<1> DEFINE I == {i \in 1 .. Len(s) : s[i] = e}
<1>1. Len(s) \in Nat /\ \A i, j \in 1 .. Len(s) : s[i] = s[j] => i = j
  BY SeqFacts
<1>2. PICK p \in 1 .. Len(s) : s[p] = e
  BY SeqFacts
<1>3. I = {p}
  BY <1>1, <1>2
<1>4. SelectInSeq(s, LAMBDA v : v = e) = p
  <2>1. SelectInSeq(s, LAMBDA v : v = e) = Min({p})
    BY <1>3 DEF SelectInSeq
  <2>2. Min({p}) = p
    BY DEF Min
  <2> QED
    BY <2>1, <2>2
<1>5. PICK a, b : a = SubSeq(s, 1, p - 1) /\ b = SubSeq(s, p + 1, Len(s))
  OBVIOUS
<1>6. RemoveFirst(s, e) = a \o b
  BY <1>2, <1>4, <1>5 DEF RemoveFirst, RemoveAt
<1>7. /\ a \in Seq(B) /\ Len(a) = p - 1 /\ \A i \in 1 .. (p - 1) : a[i] = s[i]
      /\ b \in Seq(B) /\ Len(b) = Len(s) - p /\ \A i \in 1 .. (Len(s) - p) : b[i] = s[p + i]
  <2>1. Len(s) \in Nat /\ p \in 1 .. Len(s) /\ s \in Seq(B)
    BY <1>1
  <2>2. a \in Seq(B) /\ Len(a) = p - 1 /\ \A i \in 1 .. (p - 1) : a[i] = s[i]
    BY ONLY <1>5, <2>1
  <2>3. b \in Seq(B) /\ Len(b) = Len(s) - p
    BY ONLY <1>5, <2>1
  <2>4. ASSUME NEW i \in 1 .. (Len(s) - p) PROVE b[i] = s[p + i]
    BY ONLY <1>5, <2>1, <2>4
  <2> QED
    BY <2>2, <2>3, <2>4
<1>8. PICK c : c = a \o b
  OBVIOUS
<1>9. /\ c \in Seq(B) /\ Len(c) = Len(s) - 1
      /\ \A i \in 1 .. (Len(s) - 1) : c[i] = IF i < p THEN s[i] ELSE s[i + 1]
  <2>1. c \in Seq(B) /\ Len(c) = Len(s) - 1
    <3>1. c \in Seq(B) /\ Len(c) = Len(a) + Len(b)
      <4>1. a \in Seq(B) /\ b \in Seq(B)
        BY <1>7
      <4> QED
        BY <1>8, <4>1, ConcatProperties
    <3>2. (p - 1) + (Len(s) - p) = Len(s) - 1
      BY <1>1
    <3> QED
      BY <1>7, <3>1, <3>2
  <2>2. ASSUME NEW i \in 1 .. (Len(s) - 1) PROVE c[i] = IF i < p THEN s[i] ELSE s[i + 1]
    <3>1. CASE i < p
      <4>1. i \in 1 .. (p - 1)
        BY <3>1, <1>1
      <4>2. c[i] = a[i]
        BY <1>7, <1>8, <4>1
      <4> QED
        BY <1>7, <3>1, <4>1, <4>2
    <3>2. CASE ~(i < p)
      <4>1. i - (p - 1) \in 1 .. (Len(s) - p) /\ p + (i - (p - 1)) = i + 1
        BY <3>2, <1>1
      <4>2. c[i] = b[i - (p - 1)]
        BY <1>1, <1>7, <1>8, <4>1
      <4> QED
        BY <1>7, <3>2, <4>1, <4>2
    <3> QED
      BY <3>1, <3>2
  <2> QED
    BY <2>1, <2>2
<1>10. IsInjective(c)
  <2>1. ASSUME NEW i \in 1 .. Len(c), NEW j \in 1 .. Len(c), c[i] = c[j] PROVE i = j
    BY <1>1, <1>9, <2>1
  <2> QED
    BY <1>9, <2>1, SeqFacts
<1>11. ASSUME NEW x PROVE x \in ToSet(c) <=> x \in ToSet(s) /\ x # e
  <2>1. ASSUME NEW i \in 1 .. Len(c), c[i] = x PROVE x \in ToSet(s) /\ x # e
    <3>1. PICK j \in 1 .. Len(s) : s[j] = x /\ j # p
      BY <1>1, <1>9, <2>1
    <3> QED
      BY <1>1, <1>2, <3>1, SeqFacts
  <2>2. ASSUME NEW j \in 1 .. Len(s), s[j] = x, x # e PROVE \E i \in 1 .. Len(c) : c[i] = x
    <3>1. CASE j < p
      <4>1. j \in 1 .. Len(c)
        BY <1>1, <1>9, <3>1
      <4> QED
        BY <1>9, <2>2, <3>1, <4>1
    <3>2. CASE j > p
      <4>1. j - 1 \in 1 .. Len(c) /\ ~(j - 1 < p) /\ (j - 1) + 1 = j
        BY <1>1, <1>9, <3>2
      <4>2. c[j - 1] = s[j]
        BY <1>9, <4>1
      <4> QED
        BY <2>2, <4>1, <4>2
    <3> QED
      BY <1>2, <2>2, <3>1, <3>2
  <2> QED
    BY <1>9, <2>1, <2>2, SeqFacts
<1> QED
  BY <1>6, <1>8, <1>9, <1>10, <1>11

-----------------------------------------------------------------------------
(* The manager.                                                               *)

Hashes(r) == {Items[r][i].hash : i \in DOMAIN Items[r]}

EncoderManager ==
    [cached : SUBSET MmHash, refs : [MmHash -> SUBSET Request], freeable : Seq(MmHash),
     freed : SUBSET MmHash, num_free_slots : Nat, num_freeable_slots : Nat]

\* What the manager believes of its slots and of who refers to what is true, and a
\* request only refers to items of its own.
Sound(m) ==
    /\ m \in EncoderManager
    /\ IsFiniteSet(m.cached)
    /\ m.num_free_slots = CacheSize - TotalEmbeds(m.cached)
    /\ m.num_freeable_slots = m.num_free_slots + TotalEmbeds(ToSet(m.freeable))
    /\ IsInjective(m.freeable)
    /\ ToSet(m.freeable) = {h \in m.cached : m.refs[h] = {}}
    /\ \A h \in MmHash : /\ m.refs[h] # {} => h \in m.cached
                         /\ \A r \in m.refs[h] : h \in Hashes(r)

\* The items of a request are well-formed.
LEMMA ItemFacts ==
    ASSUME NEW r \in Request
    PROVE  /\ Len(Items[r]) \in Nat /\ DOMAIN Items[r] = 1 .. Len(Items[r])
           /\ \A i \in 1 .. Len(Items[r]) :
                 /\ Items[r][i].hash \in MmHash /\ Items[r][i].hash \in Hashes(r)
                 /\ Items[r][i].start \in Nat /\ Items[r][i].len \in Nat \ {0}
           /\ Hashes(r) \subseteq MmHash
<1>1. Items[r] \in Seq([hash : MmHash, start : Nat, len : Nat \ {0}])
  BY EncoderCacheAssumption
<1>2. Len(Items[r]) \in Nat /\ DOMAIN Items[r] = 1 .. Len(Items[r])
  BY <1>1
<1>3. \A i \in 1 .. Len(Items[r]) : Items[r][i] \in [hash : MmHash, start : Nat, len : Nat \ {0}]
  <2> DEFINE I == [hash : MmHash, start : Nat, len : Nat \ {0}]
  <2> HIDE DEF I
  <2>1. \A s \in Seq(I) : \A i \in 1 .. Len(s) : s[i] \in I
    OBVIOUS
  <2>2. Items[r] \in Seq(I)
    BY <1>1 DEF I
  <2> QED
    BY <2>1, <2>2 DEF I
<1> QED
  BY <1>2, <1>3 DEF Hashes

\* The fields of a sound manager.
LEMMA SoundFacts ==
    ASSUME NEW m, Sound(m)
    PROVE  /\ m.cached \subseteq MmHash /\ m.freed \subseteq MmHash
           /\ m.refs \in [MmHash -> SUBSET Request]
           /\ m.freeable \in Seq(MmHash)
           /\ m.num_free_slots \in 0 .. CacheSize /\ m.num_freeable_slots \in 0 .. CacheSize
           /\ IsFiniteSet(ToSet(m.freeable)) /\ ToSet(m.freeable) \subseteq m.cached
           /\ TotalEmbeds(m.cached) \in Nat /\ TotalEmbeds(ToSet(m.freeable)) \in Nat
           /\ m.num_free_slots \in Nat /\ m.num_freeable_slots \in Nat /\ CacheSize \in Nat
           /\ m.num_free_slots = CacheSize - TotalEmbeds(m.cached)
           /\ m.num_freeable_slots = m.num_free_slots + TotalEmbeds(ToSet(m.freeable))
           /\ IsFiniteSet(m.cached)
<1>1. /\ m.cached \subseteq MmHash /\ m.freed \subseteq MmHash
      /\ m.refs \in [MmHash -> SUBSET Request]
      /\ m.freeable \in Seq(MmHash)
      /\ m.num_free_slots \in Nat /\ m.num_freeable_slots \in Nat
  BY DEF Sound, EncoderManager
<1>2. ToSet(m.freeable) \subseteq m.cached /\ IsFiniteSet(m.cached)
  BY DEF Sound
<1>3. /\ IsFiniteSet(ToSet(m.freeable))
      /\ TotalEmbeds(ToSet(m.freeable)) <= TotalEmbeds(m.cached)
  BY <1>2, TotalPart
<1>4. TotalEmbeds(m.cached) \in Nat /\ TotalEmbeds(ToSet(m.freeable)) \in Nat
  BY <1>2, <1>3, SlotsFinite
<1>5. /\ m.num_free_slots = CacheSize - TotalEmbeds(m.cached)
      /\ m.num_freeable_slots = m.num_free_slots + TotalEmbeds(ToSet(m.freeable))
      /\ CacheSize \in Nat
  BY EncoderCacheAssumption DEF Sound
<1>6. m.num_free_slots \in 0 .. CacheSize /\ m.num_freeable_slots \in 0 .. CacheSize
  BY <1>1, <1>3, <1>4, <1>5
<1> QED
  BY <1>1, <1>2, <1>3, <1>4, <1>5, <1>6

\* A cache hit: r refers to the entry, which is no longer freeable.
LEMMA HitFacts ==
    ASSUME NEW m, Sound(m), NEW r \in Request, NEW h \in Hashes(r), h \in m.cached
    PROVE  LET n == check_and_update_cache(m, r, h)
           IN  /\ Sound(n)
               /\ n.cached = m.cached /\ n.freed = m.freed
               /\ n.num_free_slots = m.num_free_slots
               /\ n.refs = [m.refs EXCEPT ![h] = @ \cup {r}]
<1> DEFINE n == check_and_update_cache(m, r, h)
<1>0. h \in MmHash /\ m \in EncoderManager
  BY ItemFacts DEF Sound
<1>1. /\ n.cached = m.cached /\ n.freed = m.freed
      /\ n.num_free_slots = m.num_free_slots
      /\ n.refs = [m.refs EXCEPT ![h] = @ \cup {r}]
  <2>1. CASE m.refs[h] # {}
    BY <1>0, <2>1 DEF check_and_update_cache, EncoderManager
  <2>2. CASE m.refs[h] = {}
    BY <1>0, <2>2 DEF check_and_update_cache, EncoderManager
  <2> QED
    BY <2>1, <2>2
<1>2. /\ n.refs \in [MmHash -> SUBSET Request] /\ r \in n.refs[h]
      /\ \A g \in MmHash : n.refs[g] = IF g = h THEN m.refs[h] \cup {r} ELSE m.refs[g]
  BY <1>0, <1>1, SoundFacts
<1>3. \A g \in MmHash : /\ n.refs[g] # {} => g \in n.cached
                        /\ \A q \in n.refs[g] : g \in Hashes(q)
  BY <1>1, <1>2 DEF Sound
<1>4. /\ n.freeable \in Seq(MmHash) /\ IsInjective(n.freeable)
      /\ n.num_freeable_slots \in Nat
      /\ n.num_freeable_slots = m.num_free_slots + TotalEmbeds(ToSet(n.freeable))
      /\ ToSet(n.freeable) = ToSet(m.freeable) \ {h}
      /\ n \in EncoderManager
  <2>1. CASE m.refs[h] # {}
    <3>1. h \notin ToSet(m.freeable)
      BY <2>1 DEF Sound
    <3>2. n = [m EXCEPT !.refs = n.refs]
      BY <1>0, <2>1 DEF check_and_update_cache, EncoderManager
    <3>3. n.freeable = m.freeable /\ n.num_freeable_slots = m.num_freeable_slots
      BY <1>0, <2>1 DEF check_and_update_cache, EncoderManager
    <3>4. n \in EncoderManager
      BY <1>0, <1>2, <3>2 DEF EncoderManager
    <3>5. /\ m.num_freeable_slots = m.num_free_slots + TotalEmbeds(ToSet(m.freeable))
          /\ m.num_freeable_slots \in Nat
          /\ m.freeable \in Seq(MmHash) /\ IsInjective(m.freeable)
      BY DEF Sound, EncoderManager
    <3> QED
      BY <3>1, <3>3, <3>4, <3>5
  <2>2. CASE m.refs[h] = {}
    <3>1. h \in ToSet(m.freeable)
      BY <2>2 DEF Sound
    <3> DEFINE f == RemoveFirst(m.freeable, h)
    <3>2. n.freeable = f /\ n.num_freeable_slots = m.num_freeable_slots - Embeds[h]
      BY <1>0, <2>2 DEF check_and_update_cache, EncoderManager
    <3>3. f \in Seq(MmHash) /\ IsInjective(f) /\ ToSet(f) = ToSet(m.freeable) \ {h}
      <4>1. m.freeable \in Seq(MmHash) /\ IsInjective(m.freeable)
        BY SoundFacts DEF Sound
      <4> QED
        BY ONLY <3>1, <4>1, RemoveFirstFacts
    <3>4. n = [m EXCEPT !.refs = n.refs, !.freeable = f,
                        !.num_freeable_slots = n.num_freeable_slots]
      BY <1>0, <2>2 DEF check_and_update_cache, EncoderManager
    <3> HIDE DEF f
    <3>5. TotalEmbeds(ToSet(m.freeable)) = TotalEmbeds({h}) + TotalEmbeds(ToSet(f))
      <4>1. IsFiniteSet(ToSet(m.freeable)) /\ {h} \subseteq ToSet(m.freeable)
        BY <3>1, SoundFacts
      <4> QED
        BY <3>3, <4>1, TotalPart
    <3>6. TotalEmbeds({h}) = Embeds[h] /\ Embeds[h] \in Nat
      BY <1>0, TotalOne, EncoderCacheAssumption
    <3>7. TotalEmbeds(ToSet(f)) \in Nat
      <4>1. IsFiniteSet(ToSet(f))
        BY <3>3, SoundFacts, FS_Subset
      <4> QED
        BY <4>1, SlotsFinite
    <3>8. /\ m.num_freeable_slots = m.num_free_slots + TotalEmbeds(ToSet(m.freeable))
          /\ m.num_free_slots \in Nat
      BY DEF Sound, EncoderManager
    <3>9. /\ n.num_freeable_slots = m.num_free_slots + TotalEmbeds(ToSet(f))
          /\ n.num_freeable_slots \in Nat
      BY <3>2, <3>5, <3>6, <3>7, <3>8
    <3>10. n \in EncoderManager
      BY <1>0, <1>2, <3>3, <3>4, <3>9 DEF EncoderManager
    <3> QED
      BY <3>2, <3>3, <3>9, <3>10
  <2> QED
    BY <2>1, <2>2
<1>5. ToSet(n.freeable) = {g \in n.cached : n.refs[g] = {}}
  <2>1. ToSet(m.freeable) = {g \in m.cached : m.refs[g] = {}} /\ m.cached \subseteq MmHash
    BY SoundFacts DEF Sound
  <2> QED
    BY <1>1, <1>2, <1>4, <2>1
<1>6. Sound(n)
  <2>1. IsFiniteSet(n.cached) /\ n.num_free_slots = CacheSize - TotalEmbeds(n.cached)
    BY <1>1 DEF Sound
  <2> HIDE DEF n
  <2> QED
    BY <1>1, <1>3, <1>4, <1>5, <2>1 DEF Sound
<1> QED
  BY <1>1, <1>6

\* can_allocate finds enough unreferenced entries to evict.
LEMMA EvictEnough ==
    ASSUME NEW m, Sound(m), NEW need \in Nat,
           need <= m.num_free_slots \/ need <= m.num_freeable_slots
    PROVE  LET k == num_to_evict(m, need)
           IN  /\ k \in 0 .. Len(m.freeable)
               /\ need <= m.num_free_slots + TotalEmbeds(ToSet(SubSeq(m.freeable, 1, k)))
<1> DEFINE f == m.freeable
           Enough(k) == need <= m.num_free_slots + TotalEmbeds(ToSet(SubSeq(f, 1, k)))
           E == {k \in 0 .. Len(f) : Enough(k)}
<1>1. f \in Seq(MmHash) /\ Len(f) \in Nat /\ m.num_free_slots \in Nat
  BY SoundFacts
<1>2. E # {}
  <2>1. CASE need <= m.num_free_slots
    <3>1. SubSeq(f, 1, 0) = <<>> /\ 0 \in 0 .. Len(f)
      BY <1>1
    <3>2. ToSet(<<>>) = {}
      BY DEF ToSet
    <3>3. Enough(0)
      <4>1. TotalEmbeds(ToSet(SubSeq(f, 1, 0))) = 0
        BY <3>1, <3>2, TotalOne
      <4> QED
        BY <1>1, <2>1, <4>1
    <3> QED
      BY <3>1, <3>3
  <2>2. CASE need <= m.num_freeable_slots
    <3>1. SubSeq(f, 1, Len(f)) = f /\ Len(f) \in 0 .. Len(f)
      BY <1>1
    <3>2. Enough(Len(f))
      BY <2>2, <3>1 DEF Sound
    <3> QED
      BY <3>1, <3>2
  <2> QED
    BY <2>1, <2>2
<1>3. E \subseteq Nat
  BY <1>1
<1> HIDE DEF Enough
<1>4. num_to_evict(m, need) = CHOOSE k \in E : \A j \in E : k <= j
  BY DEF num_to_evict, Enough
<1>5. \E k \in E : \A j \in E : k <= j
  <2> HIDE DEF E
  <2> QED
    BY <1>2, <1>3, LeastNat
<1>6. num_to_evict(m, need) \in E
  <2> HIDE DEF E
  <2> QED
    BY <1>4, <1>5
<1> QED
  BY <1>6 DEF Enough

\* Eviction makes room, touches nothing anybody refers to, and tells the workers.
LEMMA ReclaimFacts ==
    ASSUME NEW m, Sound(m), NEW need \in Nat,
           need <= m.num_free_slots \/ need <= m.num_freeable_slots
    PROVE  LET n == reclaim(m, need)
           IN  /\ Sound(n)
               /\ need <= n.num_free_slots
               /\ n.refs = m.refs
               /\ n.cached \subseteq m.cached
               /\ n.freed = m.freed \cup (m.cached \ n.cached)
<1> DEFINE n == reclaim(m, need)
<1>1. PICK k : k = num_to_evict(m, need)
  OBVIOUS
<1> DEFINE pre == SubSeq(m.freeable, 1, k)
           suf == SubSeq(m.freeable, k + 1, Len(m.freeable))
           gone == ToSet(pre)
<1>2. /\ k \in 0 .. Len(m.freeable)
      /\ need <= m.num_free_slots + TotalEmbeds(gone)
  BY <1>1, EvictEnough
<1>3. m \in EncoderManager /\ m.freeable \in Seq(MmHash) /\ IsInjective(m.freeable)
  BY SoundFacts DEF Sound
<1>4. /\ suf \in Seq(MmHash) /\ IsInjective(suf)
      /\ ToSet(suf) = ToSet(m.freeable) \ gone
      /\ gone \subseteq ToSet(m.freeable)
  BY <1>2, <1>3, CutFacts
<1>5. n = [m EXCEPT !.cached = m.cached \ gone, !.freeable = suf,
                    !.freed = m.freed \cup gone,
                    !.num_free_slots = m.num_free_slots + TotalEmbeds(gone)]
  BY <1>1, <1>3 DEF reclaim, EncoderManager
<1> HIDE DEF pre, suf, gone
<1>6. /\ n.cached = m.cached \ gone /\ n.freeable = suf /\ n.freed = m.freed \cup gone
      /\ n.num_free_slots = m.num_free_slots + TotalEmbeds(gone)
      /\ n.refs = m.refs /\ n.num_freeable_slots = m.num_freeable_slots
  BY <1>3, <1>5 DEF EncoderManager
<1>7. /\ m.cached \subseteq MmHash /\ m.freed \subseteq MmHash /\ IsFiniteSet(m.cached)
      /\ ToSet(m.freeable) = {h \in m.cached : m.refs[h] = {}}
      /\ IsFiniteSet(ToSet(m.freeable))
      /\ m.num_free_slots \in Nat /\ CacheSize \in Nat
      /\ m.num_free_slots = CacheSize - TotalEmbeds(m.cached)
      /\ m.num_freeable_slots = m.num_free_slots + TotalEmbeds(ToSet(m.freeable))
  <2>1. ToSet(m.freeable) = {h \in m.cached : m.refs[h] = {}}
    BY DEF Sound
  <2> QED
    BY <2>1, SoundFacts
<1>8. gone \subseteq m.cached /\ gone \subseteq MmHash
  BY <1>4, <1>7
<1>9. /\ IsFiniteSet(gone) /\ IsFiniteSet(m.cached \ gone)
      /\ TotalEmbeds(m.cached) = TotalEmbeds(gone) + TotalEmbeds(m.cached \ gone)
  BY <1>7, <1>8, TotalPart
<1>10. TotalEmbeds(ToSet(m.freeable)) = TotalEmbeds(gone) + TotalEmbeds(ToSet(suf))
  BY <1>4, <1>7, TotalPart
<1>11. IsFiniteSet(ToSet(suf))
  <2>1. IsFiniteSet(ToSet(m.freeable) \ gone)
    BY <1>7, FS_Difference
  <2> QED
    BY <1>4, <2>1
<1>12. /\ TotalEmbeds(gone) \in Nat /\ TotalEmbeds(m.cached \ gone) \in Nat
       /\ TotalEmbeds(ToSet(suf)) \in Nat
  BY <1>9, <1>11, SlotsFinite
<1>13. /\ n.num_free_slots \in Nat
       /\ n.num_free_slots = CacheSize - TotalEmbeds(n.cached)
       /\ n.num_freeable_slots = n.num_free_slots + TotalEmbeds(ToSet(n.freeable))
  BY ONLY <1>6, <1>7, <1>9, <1>10, <1>12
<1>14. n \in EncoderManager
  <2>1. /\ m.cached \ gone \in SUBSET MmHash
        /\ m.freed \cup gone \in SUBSET MmHash
        /\ m.num_free_slots + TotalEmbeds(gone) \in Nat
    BY <1>7, <1>8, <1>12
  <2> QED
    BY <1>3, <1>4, <1>5, <2>1 DEF EncoderManager
<1>15. /\ ToSet(n.freeable) = {h \in n.cached : n.refs[h] = {}}
       /\ \A h \in MmHash : /\ n.refs[h] # {} => h \in n.cached
                            /\ \A r \in n.refs[h] : h \in Hashes(r)
  <2>1. ToSet(n.freeable) = {h \in n.cached : n.refs[h] = {}}
    BY <1>4, <1>6, <1>7
  <2>2. \A h \in MmHash : /\ m.refs[h] # {} => h \in m.cached
                          /\ \A r \in m.refs[h] : h \in Hashes(r)
    BY DEF Sound
  <2>3. \A h \in gone : m.refs[h] = {}
    BY <1>4, <1>7
  <2> QED
    BY <1>6, <2>1, <2>2, <2>3
<1>16. Sound(n)
  <2> HIDE DEF n
  <2> QED
    BY <1>4, <1>6, <1>9, <1>13, <1>14, <1>15 DEF Sound
<1>17. n.freed = m.freed \cup (m.cached \ n.cached) /\ n.cached \subseteq m.cached
  BY <1>6, <1>8
<1> QED
  BY <1>2, <1>6, <1>16, <1>17

\* The outputs that will be computed get their slots and a reference.
LEMMA AllocateFacts ==
    ASSUME NEW m, Sound(m), NEW r \in Request, NEW S, S \subseteq Hashes(r) \ m.cached,
           IsFiniteSet(S), TotalEmbeds(S) <= m.num_free_slots
    PROVE  LET n == allocate(m, r, S)
           IN  /\ Sound(n)
               /\ n.cached = m.cached \cup S
               /\ n.freed = m.freed
               /\ \A h \in MmHash : n.refs[h] = IF h \in S THEN m.refs[h] \cup {r} ELSE m.refs[h]
<1> DEFINE n == allocate(m, r, S)
           T == TotalEmbeds(S)
<1>1. m \in EncoderManager /\ S \subseteq MmHash /\ T \in Nat
  BY ItemFacts, SlotsFinite DEF Sound
<1>2. n = [m EXCEPT !.cached = m.cached \cup S,
                    !.refs = [h \in MmHash |-> IF h \in S THEN m.refs[h] \cup {r} ELSE m.refs[h]],
                    !.num_free_slots = m.num_free_slots - T,
                    !.num_freeable_slots = m.num_freeable_slots - T]
  BY <1>1 DEF allocate, EncoderManager
<1>3. /\ n.cached = m.cached \cup S /\ n.freed = m.freed /\ n.freeable = m.freeable
      /\ n.refs = [h \in MmHash |-> IF h \in S THEN m.refs[h] \cup {r} ELSE m.refs[h]]
      /\ n.num_free_slots = m.num_free_slots - T
      /\ n.num_freeable_slots = m.num_freeable_slots - T
  BY <1>1, <1>2 DEF EncoderManager
<1>4. /\ m.cached \subseteq MmHash /\ IsFiniteSet(m.cached)
      /\ m.refs \in [MmHash -> SUBSET Request]
      /\ TotalEmbeds(m.cached) \in Nat /\ TotalEmbeds(ToSet(m.freeable)) \in Nat
      /\ m.num_free_slots \in Nat /\ CacheSize \in Nat
      /\ m.num_free_slots = CacheSize - TotalEmbeds(m.cached)
      /\ m.num_freeable_slots = m.num_free_slots + TotalEmbeds(ToSet(m.freeable))
  BY SoundFacts
<1>5. /\ IsFiniteSet(m.cached \cup S)
      /\ TotalEmbeds(m.cached \cup S) = TotalEmbeds(m.cached) + T
  BY <1>4, TotalUnion, FS_Union
<1>6. /\ n.num_free_slots \in Nat /\ n.num_freeable_slots \in Nat
      /\ n.num_free_slots = CacheSize - TotalEmbeds(n.cached)
      /\ n.num_freeable_slots = n.num_free_slots + TotalEmbeds(ToSet(n.freeable))
  <2>1. T <= m.num_free_slots
    OBVIOUS
  <2> HIDE DEF T
  <2> QED
    BY ONLY <1>1, <1>3, <1>4, <1>5, <2>1
<1>7. n.refs \in [MmHash -> SUBSET Request]
  BY <1>3, <1>4
<1>8. n \in EncoderManager
  <2>1. m.cached \cup S \in SUBSET MmHash
    BY <1>1, <1>4
  <2> QED
    BY <1>1, <1>2, <1>3, <1>6, <1>7, <2>1 DEF EncoderManager
<1>9. \A h \in MmHash : n.refs[h] = IF h \in S THEN m.refs[h] \cup {r} ELSE m.refs[h]
  BY <1>3
<1>10. /\ ToSet(m.freeable) = {h \in m.cached : m.refs[h] = {}}
       /\ \A h \in MmHash : /\ m.refs[h] # {} => h \in m.cached
                            /\ \A q \in m.refs[h] : h \in Hashes(q)
  BY DEF Sound
<1>11. /\ ToSet(n.freeable) = {h \in n.cached : n.refs[h] = {}}
       /\ \A h \in MmHash : /\ n.refs[h] # {} => h \in n.cached
                            /\ \A q \in n.refs[h] : h \in Hashes(q)
  <2> HIDE DEF n
  <2>1. ToSet(n.freeable) = {h \in n.cached : n.refs[h] = {}}
    <3>1. \A h \in S : n.refs[h] # {} /\ h \notin m.cached
      BY <1>1, <1>9
    <3>2. \A h \in m.cached : h \in n.cached /\ n.refs[h] = m.refs[h]
      BY <1>3, <1>4, <1>9
    <3>3. n.cached = m.cached \cup S /\ n.freeable = m.freeable
      BY <1>3
    <3>4. ToSet(m.freeable) = {h \in m.cached : m.refs[h] = {}}
      BY <1>10
    <3>5. {h \in n.cached : n.refs[h] = {}} = {h \in m.cached : m.refs[h] = {}}
      BY ONLY <3>1, <3>2, <3>3
    <3> QED
      BY ONLY <3>3, <3>4, <3>5
  <2>2. ASSUME NEW h \in MmHash
        PROVE  /\ n.refs[h] # {} => h \in n.cached
               /\ \A q \in n.refs[h] : h \in Hashes(q)
    BY <1>3, <1>9, <1>10
  <2> QED
    BY <2>1, <2>2
<1>12. Sound(n)
  <2>1. IsInjective(n.freeable) /\ IsFiniteSet(n.cached)
    BY <1>3, <1>5 DEF Sound
  <2> HIDE DEF n
  <2> QED
    BY <1>6, <1>8, <1>11, <2>1 DEF Sound
<1> QED
  BY <1>3, <1>9, <1>12

\* A reference is dropped; an entry without any becomes freeable.
LEMMA FreeOneFacts ==
    ASSUME NEW m, Sound(m), NEW r \in Request, NEW h \in MmHash
    PROVE  LET n == free_encoder_input(m, r, h)
           IN  /\ Sound(n)
               /\ n.cached = m.cached /\ n.freed = m.freed
               /\ n.num_free_slots = m.num_free_slots
               /\ n.refs = [m.refs EXCEPT ![h] = @ \ {r}]
<1> DEFINE n == free_encoder_input(m, r, h)
<1>0. /\ m \in EncoderManager /\ m.refs \in [MmHash -> SUBSET Request]
      /\ m.freeable \in Seq(MmHash) /\ IsInjective(m.freeable)
      /\ ToSet(m.freeable) = {g \in m.cached : m.refs[g] = {}}
      /\ \A g \in MmHash : /\ m.refs[g] # {} => g \in m.cached
                           /\ \A q \in m.refs[g] : g \in Hashes(q)
      /\ m.num_freeable_slots = m.num_free_slots + TotalEmbeds(ToSet(m.freeable))
      /\ m.num_free_slots \in Nat /\ m.num_freeable_slots \in Nat
  <2>1. /\ m \in EncoderManager /\ IsInjective(m.freeable)
        /\ ToSet(m.freeable) = {g \in m.cached : m.refs[g] = {}}
        /\ \A g \in MmHash : /\ m.refs[g] # {} => g \in m.cached
                             /\ \A q \in m.refs[g] : g \in Hashes(q)
    BY DEF Sound
  <2> QED
    BY <2>1, SoundFacts
<1>1. CASE m.refs[h] = {}
  <2>1. n = m
    BY <1>1 DEF free_encoder_input
  <2>2. m.refs = [m.refs EXCEPT ![h] = @ \ {r}]
    BY <1>0, <1>1
  <2> QED
    BY <2>1, <2>2
<1>2. CASE m.refs[h] \ {r} # {}
  <2>1. n = [m EXCEPT !.refs = [m.refs EXCEPT ![h] = @ \ {r}]]
    BY <1>0, <1>2 DEF free_encoder_input, EncoderManager
  <2>2. /\ n.cached = m.cached /\ n.freed = m.freed /\ n.freeable = m.freeable
        /\ n.num_free_slots = m.num_free_slots
        /\ n.num_freeable_slots = m.num_freeable_slots
        /\ n.refs = [m.refs EXCEPT ![h] = @ \ {r}]
    BY <1>0, <2>1 DEF EncoderManager
  <2>3. /\ n.refs \in [MmHash -> SUBSET Request]
        /\ \A g \in MmHash : n.refs[g] = IF g = h THEN m.refs[h] \ {r} ELSE m.refs[g]
    BY <1>0, <2>2
  <2>4. n \in EncoderManager
    BY <1>0, <2>1, <2>2, <2>3 DEF EncoderManager
  <2>5. /\ ToSet(n.freeable) = {g \in n.cached : n.refs[g] = {}}
        /\ \A g \in MmHash : /\ n.refs[g] # {} => g \in n.cached
                             /\ \A q \in n.refs[g] : g \in Hashes(q)
    <3>1. m.cached \subseteq MmHash /\ n.freeable = m.freeable /\ n.cached = m.cached
      BY <2>2, SoundFacts
    <3> HIDE DEF n
    <3>2. ToSet(n.freeable) = {g \in n.cached : n.refs[g] = {}}
      BY <1>0, <1>2, <2>3, <3>1
    <3>3. ASSUME NEW g \in MmHash
          PROVE  /\ n.refs[g] # {} => g \in n.cached
                 /\ \A q \in n.refs[g] : g \in Hashes(q)
      BY <1>0, <2>3, <3>1
    <3> QED
      BY <3>2, <3>3
  <2>6. Sound(n)
    <3> HIDE DEF n
    <3> QED
      BY <2>2, <2>4, <2>5 DEF Sound
  <2> QED
    BY <2>2, <2>6
<1>3. CASE m.refs[h] # {} /\ m.refs[h] \ {r} = {}
  <2> DEFINE f == Append(m.freeable, h)
  <2>1. n = [m EXCEPT !.refs = [m.refs EXCEPT ![h] = {}], !.freeable = f,
                      !.num_freeable_slots = m.num_freeable_slots + Embeds[h]]
    BY <1>0, <1>3 DEF free_encoder_input, EncoderManager
  <2>2. [m.refs EXCEPT ![h] = {}] = [m.refs EXCEPT ![h] = @ \ {r}]
    BY <1>3
  <2>3. /\ n.cached = m.cached /\ n.freed = m.freed /\ n.freeable = f
        /\ n.num_free_slots = m.num_free_slots
        /\ n.num_freeable_slots = m.num_freeable_slots + Embeds[h]
        /\ n.refs = [m.refs EXCEPT ![h] = @ \ {r}]
    BY <1>0, <2>1, <2>2 DEF EncoderManager
  <2>4. /\ n.refs \in [MmHash -> SUBSET Request]
        /\ \A g \in MmHash : n.refs[g] = IF g = h THEN {} ELSE m.refs[g]
    BY <1>0, <1>3, <2>3
  <2>5. h \notin ToSet(m.freeable) /\ h \in m.cached
    BY <1>0, <1>3
  <2>6. /\ f \in Seq(MmHash) /\ IsInjective(f) /\ ToSet(f) = ToSet(m.freeable) \cup {h}
    <3>1. /\ f \in Seq(MmHash) /\ Len(f) = Len(m.freeable) + 1 /\ Len(m.freeable) \in Nat
          /\ \A i \in 1 .. Len(f) : f[i] = IF i = Len(f) THEN h ELSE m.freeable[i]
      BY <1>0
    <3>2. /\ \A i \in 1 .. Len(m.freeable) : m.freeable[i] # h
          /\ \A i, j \in 1 .. Len(m.freeable) : m.freeable[i] = m.freeable[j] => i = j
      BY <1>0, <2>5, SeqFacts
    <3> HIDE DEF f
    <3>3. ASSUME NEW i \in 1 .. Len(f), NEW j \in 1 .. Len(f), f[i] = f[j] PROVE i = j
      <4>1. \A a \in 1 .. Len(f) : a = Len(f) \/ a \in 1 .. Len(m.freeable)
        BY <3>1
      <4> QED
        BY ONLY <3>1, <3>2, <3>3, <4>1
    <3>4. IsInjective(f)
      BY <3>1, <3>3, SeqFacts
    <3>5. ASSUME NEW x PROVE x \in ToSet(f) <=> x \in ToSet(m.freeable) \/ x = h
      <4>1. x \in ToSet(f) <=> \E i \in 1 .. Len(f) : f[i] = x
        BY <3>1, SeqFacts
      <4>2. x \in ToSet(m.freeable) <=> \E i \in 1 .. Len(m.freeable) : m.freeable[i] = x
        BY <1>0, SeqFacts
      <4>3. /\ \A a \in 1 .. Len(f) : a = Len(f) \/ (a \in 1 .. Len(m.freeable) /\ a # Len(f))
            /\ \A a \in 1 .. Len(m.freeable) : a \in 1 .. Len(f) /\ a # Len(f)
            /\ Len(f) \in 1 .. Len(f)
        BY <3>1
      <4> QED
        BY ONLY <3>1, <4>1, <4>2, <4>3
    <3> QED
      BY <3>1, <3>4, <3>5
  <2> HIDE DEF f
  <2>7. TotalEmbeds(ToSet(f)) = TotalEmbeds(ToSet(m.freeable)) + Embeds[h]
    <3>1. IsFiniteSet(ToSet(m.freeable)) /\ IsFiniteSet({h}) /\ ToSet(m.freeable) \cap {h} = {}
      BY <2>5, SoundFacts, FS_Singleton
    <3> QED
      BY <2>6, <3>1, TotalUnion, TotalOne
  <2>8. Embeds[h] \in Nat /\ TotalEmbeds(ToSet(m.freeable)) \in Nat
    BY EncoderCacheAssumption, SoundFacts
  <2>9. /\ n.num_freeable_slots = n.num_free_slots + TotalEmbeds(ToSet(n.freeable))
        /\ n.num_freeable_slots \in Nat
    BY ONLY <1>0, <2>3, <2>7, <2>8
  <2>10. n \in EncoderManager
    BY <1>0, <2>1, <2>3, <2>4, <2>6, <2>9 DEF EncoderManager
  <2>11. /\ ToSet(n.freeable) = {g \in n.cached : n.refs[g] = {}}
         /\ \A g \in MmHash : /\ n.refs[g] # {} => g \in n.cached
                              /\ \A q \in n.refs[g] : g \in Hashes(q)
    <3>1. m.cached \subseteq MmHash /\ n.freeable = f /\ n.cached = m.cached
      BY <2>3, SoundFacts
    <3> HIDE DEF n
    <3>2. ToSet(n.freeable) = {g \in n.cached : n.refs[g] = {}}
      BY <1>0, <2>4, <2>5, <2>6, <3>1
    <3>3. ASSUME NEW g \in MmHash
          PROVE  /\ n.refs[g] # {} => g \in n.cached
                 /\ \A q \in n.refs[g] : g \in Hashes(q)
      BY <1>0, <2>4, <3>1
    <3> QED
      BY <3>2, <3>3
  <2>12. Sound(n)
    <3>1. IsFiniteSet(n.cached) /\ n.num_free_slots = CacheSize - TotalEmbeds(n.cached)
      BY <2>3 DEF Sound
    <3>2. IsInjective(n.freeable)
      BY <2>3, <2>6
    <3> HIDE DEF n
    <3> QED
      BY <2>9, <2>10, <2>11, <3>1, <3>2 DEF Sound
  <2> QED
    BY <2>3, <2>12
<1> QED
  BY <1>1, <1>2, <1>3

-----------------------------------------------------------------------------
(* The loops.                                                                 *)

\* Induction, for a set of numbers.
LEMMA Induct ==
    ASSUME NEW G, NEW n \in Nat, 0 \in G, \A i \in 1 .. n : i - 1 \in G => i \in G
    PROVE  \A i \in 0 .. n : i \in G
<1> DEFINE T == {i \in 0 .. n : i \notin G}
<1>1. SUFFICES ASSUME T # {} PROVE FALSE
  OBVIOUS
<1>2. PICK i \in T : \A j \in T : i <= j
  <2>1. T \subseteq Nat
    OBVIOUS
  <2> HIDE DEF T
  <2> QED
    BY <1>1, <2>1, LeastNat
<1>3. i \in 1 .. n /\ i - 1 \in 0 .. n /\ i - 1 \notin T
  <2>1. i \in 0 .. n /\ i # 0
    BY <1>2
  <2>2. i - 1 \in 0 .. n /\ ~(i <= i - 1)
    BY <2>1
  <2> HIDE DEF T
  <2> QED
    BY <1>2, <2>1, <2>2
<1>4. i - 1 \in G /\ i \notin G
  BY <1>2, <1>3
<1> QED
  BY <1>3, <1>4

\* The loop of free_inputs, iteration by iteration.
LEMMA FreeInputsLoop ==
    ASSUME NEW m, NEW r, NEW ids, Len(Items[r]) \in Nat
    PROVE  \E g : /\ free_inputs(m, r, ids) = g[Len(Items[r])]
                  /\ g[0] = m
                  /\ \A i \in 1 .. Len(Items[r]) :
                        g[i] = IF i \in ids
                               THEN free_encoder_input(g[i - 1], r, Items[r][i].hash)
                               ELSE g[i - 1]
<1> DEFINE L == Len(Items[r])
           body(g, i) == IF i = 0 THEN m
                         ELSE IF i \in ids
                         THEN free_encoder_input(g[i - 1], r, Items[r][i].hash)
                         ELSE g[i - 1]
           Good(g, n) == g = [i \in 0 .. n |-> body(g, i)]
           G == {n \in Nat : \E g : Good(g, n)}
<1>1. 0 \in G
  <2> DEFINE h == [i \in 0 .. 0 |-> m]
  <2>1. Good(h, 0)
    OBVIOUS
  <2> QED
    BY <2>1
<1>2. ASSUME NEW n \in 1 .. L, n - 1 \in G PROVE n \in G
  <2>1. PICK g : Good(g, n - 1)
    BY <1>2
  <2> DEFINE h == [i \in 0 .. n |-> body(g, i)]
  <2>2. ASSUME NEW i \in 0 .. n PROVE h[i] = body(h, i)
    <3>1. CASE i = 0
      BY <3>1
    <3>2. CASE i # 0
      <4>1. i - 1 \in 0 .. (n - 1) /\ i - 1 \in 0 .. n
        BY <3>2
      <4>2. g[i - 1] = body(g, i - 1) /\ h[i - 1] = body(g, i - 1)
        BY <2>1, <4>1
      <4> QED
        BY <3>2, <4>2
    <3> QED
      BY <3>1, <3>2
  <2>3. Good(h, n)
    BY <2>2
  <2>4. n \in Nat
    OBVIOUS
  <2> HIDE DEF Good, h
  <2> QED
    BY <2>3, <2>4
<1>3. L \in G
  <2>1. L \in Nat /\ L \in 0 .. L
    OBVIOUS
  <2> HIDE DEF G
  <2> QED
    BY <1>1, <1>2, <2>1, Induct
<1> DEFINE f == CHOOSE x : Good(x, L)
<1>4. Good(f, L)
  BY <1>3
<1>5. free_inputs(m, r, ids) = f[L]
  BY DEF free_inputs
<1>6. \A i \in 0 .. L : f[i] = body(f, i)
  BY <1>4
<1> HIDE DEF f
<1> QED
  BY <1>5, <1>6

\* The hashes of these items of r.
HashesOf(r, ids) == {Items[r][i].hash : i \in ids \cap (1 .. Len(Items[r]))}

\* The references of r to the items with these indices are gone, nothing else is.
LEMMA FreeInputsFacts ==
    ASSUME NEW m, Sound(m), NEW r \in Request, NEW ids
    PROVE  LET n == free_inputs(m, r, ids)
           IN  /\ Sound(n)
               /\ n.cached = m.cached /\ n.freed = m.freed
               /\ n.num_free_slots = m.num_free_slots
               /\ \A h \in MmHash :
                     n.refs[h] = IF h \in HashesOf(r, ids) THEN m.refs[h] \ {r} ELSE m.refs[h]
<1> DEFINE L == Len(Items[r])
           dropped(k) == {Items[r][i].hash : i \in ids \cap (1 .. k)}
<1>0. L \in Nat /\ \A i \in 1 .. L : Items[r][i].hash \in MmHash
  BY ItemFacts
<1>1. PICK g : /\ free_inputs(m, r, ids) = g[L]
               /\ g[0] = m
               /\ \A i \in 1 .. L :
                     g[i] = IF i \in ids THEN free_encoder_input(g[i - 1], r, Items[r][i].hash)
                                         ELSE g[i - 1]
  BY <1>0, FreeInputsLoop
<1> DEFINE Good(k) ==
             /\ Sound(g[k])
             /\ g[k].cached = m.cached /\ g[k].freed = m.freed
             /\ g[k].num_free_slots = m.num_free_slots
             /\ \A h \in MmHash :
                   g[k].refs[h] = IF h \in dropped(k) THEN m.refs[h] \ {r} ELSE m.refs[h]
           G == {k \in 0 .. L : Good(k)}
<1>2. 0 \in G
  <2>1. dropped(0) = {}
    OBVIOUS
  <2> HIDE DEF dropped
  <2>2. Good(0)
    BY <1>1, <2>1
  <2>3. 0 \in 0 .. L
    BY <1>0
  <2> HIDE DEF Good
  <2> QED
    BY <2>2, <2>3
<1>3. ASSUME NEW k \in 1 .. L, k - 1 \in G PROVE k \in G
  <2>1. Good(k - 1)
    BY <1>3
  <2>0. k \in 0 .. L
    BY <1>0
  <2>1a. PICK h0 : h0 = Items[r][k].hash
    OBVIOUS
  <2>2. h0 \in MmHash
    BY <1>0, <2>1a
  <2>3. CASE k \in ids
    <3>1. g[k] = free_encoder_input(g[k - 1], r, h0)
      BY <1>1, <2>3, <2>1a
    <3>2. PICK p : p = g[k - 1]
      OBVIOUS
    <3>3. Sound(p)
      BY <2>1, <3>2
    <3>4. /\ Sound(g[k])
          /\ g[k].cached = p.cached /\ g[k].freed = p.freed
          /\ g[k].num_free_slots = p.num_free_slots
          /\ g[k].refs = [p.refs EXCEPT ![h0] = @ \ {r}]
      BY <2>2, <3>1, <3>2, <3>3, FreeOneFacts
    <3>5. \A h \in MmHash : g[k].refs[h] = IF h = h0 THEN p.refs[h] \ {r} ELSE p.refs[h]
      <4>1. p.refs \in [MmHash -> SUBSET Request]
        BY <3>3, SoundFacts
      <4> QED
        BY ONLY <3>4, <4>1
    <3>6. dropped(k) = dropped(k - 1) \cup {h0}
      <4>1. ids \cap (1 .. k) = (ids \cap (1 .. (k - 1))) \cup {k}
        BY <1>0, <2>3
      <4> QED
        BY <4>1, <2>1a
    <3> HIDE DEF dropped
    <3>7. \A h \in MmHash : g[k].refs[h] = IF h \in dropped(k) THEN m.refs[h] \ {r} ELSE m.refs[h]
      BY <2>1, <3>2, <3>5, <3>6
    <3>8. Good(k)
      BY <2>1, <3>2, <3>4, <3>7
    <3> HIDE DEF Good
    <3> QED
      BY <2>0, <3>8
  <2>4. CASE k \notin ids
    <3>1. g[k] = g[k - 1]
      BY <1>1, <2>4
    <3>2. dropped(k) = dropped(k - 1)
      <4>1. ids \cap (1 .. k) = ids \cap (1 .. (k - 1))
        BY <1>0, <2>4
      <4> QED
        BY <4>1
    <3> HIDE DEF dropped
    <3>3. Good(k)
      BY <2>1, <3>1, <3>2
    <3> HIDE DEF Good
    <3> QED
      BY <2>0, <3>3
  <2> QED
    BY <2>3, <2>4
<1>4. L \in G
  <2>1. L \in 0 .. L
    BY <1>0
  <2> HIDE DEF G
  <2> QED
    BY <1>0, <1>2, <1>3, <2>1, Induct
<1>5. Good(L)
  BY <1>4
<1>6. dropped(L) = HashesOf(r, ids)
  BY DEF HashesOf
<1> HIDE DEF dropped
<1> QED
  BY <1>1, <1>5, <1>6

\* free() leaves no reference of r.
LEMMA FreeFacts ==
    ASSUME NEW m, Sound(m), NEW r \in Request
    PROVE  LET n == free(m, r)
           IN  /\ Sound(n)
               /\ n.cached = m.cached /\ n.freed = m.freed
               /\ n.num_free_slots = m.num_free_slots
               /\ \A h \in MmHash : n.refs[h] = m.refs[h] \ {r}
<1>1. DOMAIN Items[r] \cap (1 .. Len(Items[r])) = DOMAIN Items[r]
  BY ItemFacts
<1>2. \A h \in MmHash : h \notin Hashes(r) => r \notin m.refs[h]
  BY DEF Sound
<1>2a. PICK ids : ids = DOMAIN Items[r]
  OBVIOUS
<1>3. PICK n : n = free_inputs(m, r, ids)
  OBVIOUS
<1>4. HashesOf(r, ids) = Hashes(r)
  BY <1>1, <1>2a DEF Hashes, HashesOf
<1>5. /\ Sound(n)
      /\ n.cached = m.cached /\ n.freed = m.freed
      /\ n.num_free_slots = m.num_free_slots
      /\ \A h \in MmHash : n.refs[h] = IF h \in Hashes(r) THEN m.refs[h] \ {r} ELSE m.refs[h]
  <2>1. /\ Sound(n)
        /\ n.cached = m.cached /\ n.freed = m.freed
        /\ n.num_free_slots = m.num_free_slots
    BY <1>3, FreeInputsFacts
  <2>2. \A h \in MmHash : n.refs[h] = IF h \in HashesOf(r, ids) THEN m.refs[h] \ {r} ELSE m.refs[h]
    BY <1>3, FreeInputsFacts
  <2> QED
    BY <1>4, <2>1, <2>2
<1>6. n = free(m, r)
  BY <1>2a, <1>3 DEF free
<1> QED
  BY <1>2, <1>5, <1>6

\* The loop of FreeComputed, iteration by iteration.
LEMMA FreeComputedLoop ==
    ASSUME NEW order, NEW counts, Len(order) \in Nat
    PROVE  \E g : /\ FreeComputed(order, counts) = g[Len(order)]
                  /\ g[0] = em
                  /\ \A k \in 1 .. Len(order) :
                        g[k] = free_items(g[k - 1], order[k].req, counts[order[k].req])
<1> DEFINE L == Len(order)
           body(g, k) == IF k = 0 THEN em
                         ELSE free_items(g[k - 1], order[k].req, counts[order[k].req])
           Good(g, n) == g = [k \in 0 .. n |-> body(g, k)]
           G == {n \in Nat : \E g : Good(g, n)}
<1>1. 0 \in G
  <2> DEFINE h == [k \in 0 .. 0 |-> em]
  <2>1. Good(h, 0)
    OBVIOUS
  <2> QED
    BY <2>1
<1>2. ASSUME NEW n \in 1 .. L, n - 1 \in G PROVE n \in G
  <2>1. PICK g : Good(g, n - 1)
    BY <1>2
  <2> DEFINE h == [k \in 0 .. n |-> body(g, k)]
  <2>2. ASSUME NEW k \in 0 .. n PROVE h[k] = body(h, k)
    <3>1. CASE k = 0
      BY <3>1
    <3>2. CASE k # 0
      <4>1. k - 1 \in 0 .. (n - 1) /\ k - 1 \in 0 .. n
        BY <3>2
      <4>2. g[k - 1] = body(g, k - 1) /\ h[k - 1] = body(g, k - 1)
        BY <2>1, <4>1
      <4> QED
        BY <3>2, <4>2
    <3> QED
      BY <3>1, <3>2
  <2>3. Good(h, n)
    BY <2>2
  <2>4. n \in Nat
    OBVIOUS
  <2> HIDE DEF Good, h
  <2> QED
    BY <2>3, <2>4
<1>3. L \in G
  <2>1. L \in Nat /\ L \in 0 .. L
    OBVIOUS
  <2> HIDE DEF G
  <2> QED
    BY <1>1, <1>2, <2>1, Induct
<1> DEFINE f == CHOOSE x : Good(x, L)
<1>4. Good(f, L)
  BY <1>3
<1>5. FreeComputed(order, counts) = f[L]
  BY DEF FreeComputed
<1>6. \A k \in 0 .. L : f[k] = body(f, k)
  BY <1>4
<1> HIDE DEF f
<1> QED
  BY <1>5, <1>6

\* Freeing what a batch has computed only drops references.
LEMMA FreeComputedFacts ==
    ASSUME Sound(em), NEW order, NEW counts, Len(order) \in Nat,
           \A k \in 1 .. Len(order) : order[k].req \in Request
    PROVE  LET n == FreeComputed(order, counts)
           IN  /\ Sound(n)
               /\ n.cached = em.cached
               /\ \A h \in MmHash : n.refs[h] \subseteq em.refs[h]
<1> DEFINE L == Len(order)
<1>1. PICK g : /\ FreeComputed(order, counts) = g[L]
               /\ g[0] = em
               /\ \A k \in 1 .. L :
                     g[k] = free_items(g[k - 1], order[k].req, counts[order[k].req])
  BY FreeComputedLoop
<1> DEFINE Good(k) ==
             /\ Sound(g[k])
             /\ g[k].cached = em.cached
             /\ \A h \in MmHash : g[k].refs[h] \subseteq em.refs[h]
           G == {k \in 0 .. L : Good(k)}
<1>2. 0 \in G
  BY <1>1
<1>3. ASSUME NEW k \in 1 .. L, k - 1 \in G PROVE k \in G
  <2>1. Good(k - 1) /\ k \in 0 .. L
    BY <1>3
  <2>2. PICK p : p = g[k - 1]
    OBVIOUS
  <2>3. PICK r \in Request : r = order[k].req
    OBVIOUS
  <2>4. g[k] = free_items(p, r, counts[r])
    BY <1>1, <2>2, <2>3
  <2>5. PICK ids : g[k] = free_inputs(p, r, ids)
    BY <2>4 DEF free_items
  <2>6. Sound(p)
    BY <2>1, <2>2
  <2>7. /\ Sound(g[k])
        /\ g[k].cached = p.cached
        /\ \A h \in MmHash : g[k].refs[h] = IF h \in HashesOf(r, ids) THEN p.refs[h] \ {r}
                                                                      ELSE p.refs[h]
    <3>1. Sound(g[k]) /\ g[k].cached = p.cached
      BY <2>5, <2>6, FreeInputsFacts
    <3>2. ASSUME NEW h \in MmHash
          PROVE  g[k].refs[h] = IF h \in HashesOf(r, ids) THEN p.refs[h] \ {r} ELSE p.refs[h]
      <4>1. free_inputs(p, r, ids).refs[h] = IF h \in HashesOf(r, ids) THEN p.refs[h] \ {r}
                                                                        ELSE p.refs[h]
        BY ONLY <2>6, r \in Request, h \in MmHash, FreeInputsFacts
      <4> QED
        BY ONLY <2>5, <4>1
    <3> QED
      BY <3>1, <3>2
  <2>8. Good(k)
    BY <2>1, <2>2, <2>7
  <2> HIDE DEF Good
  <2> QED
    BY <2>1, <2>8
<1>4. L \in G
  <2>1. L \in 0 .. L
    OBVIOUS
  <2> HIDE DEF G
  <2> QED
    BY <1>2, <1>3, <2>1, Induct
<1> QED
  BY <1>1, <1>4

\* The j-th item of r has an embedding among the tokens start .. start + n - 1.
Overlaps(r, j, start, n) ==
    /\ n > 0
    /\ Items[r][j].start < start + n
    /\ Items[r][j].start + Items[r][j].len > start

TryState ==
    [em : EncoderManager, inputs : SUBSET MmHash, n : Nat, budget : Nat, stop : BOOLEAN]

\* During the loop there is room for the outputs to compute, and nothing anybody refers
\* to was evicted.
TryRoom(acc, r) ==
    /\ acc \in TryState
    /\ Sound(acc.em)
    /\ acc.em.cached \subseteq em.cached
    /\ acc.em.freed = em.freed \cup (em.cached \ acc.em.cached)
    /\ \A h \in MmHash : /\ em.refs[h] \subseteq acc.em.refs[h]
                         /\ acc.em.refs[h] \subseteq em.refs[h] \cup {r}
    /\ acc.inputs \subseteq Hashes(r) \ acc.em.cached
    /\ IsFiniteSet(acc.inputs)
    /\ TotalEmbeds(acc.inputs) <= acc.em.num_free_slots
    /\ acc.budget = budget - TotalEmbeds(acc.inputs)

Covered(acc, r, h) == h \in acc.inputs \/ r \in acc.em.refs[h]

\* After k items what the tokens need is covered, and if no token can be scheduled
\* nothing has happened.
TryCover(acc, r, start, n, k) ==
    /\ acc.n <= n
    /\ \A j \in 1 .. k : Overlaps(r, j, start, acc.n) => Covered(acc, r, Items[r][j].hash)
    /\ acc.stop => \A j \in (k + 1) .. Len(Items[r]) : Items[r][j].start >= start + acc.n
    /\ acc.n = 0 => acc.stop /\ acc.em = em
    /\ (\A j \in 1 .. k : ~Overlaps(r, j, start, n)) => acc.em = em

\* The loop of try_schedule_encoder_inputs, iteration by iteration.
LEMMA TryLoop ==
    ASSUME NEW r, NEW start, NEW n, Len(Items[r]) \in Nat
    PROVE  \E g : /\ try_schedule_encoder_inputs(r, start, n) = g[Len(Items[r])]
                  /\ g[0] = [em |-> em, inputs |-> {}, n |-> n, budget |-> budget,
                             stop |-> FALSE]
                  /\ \A i \in 1 .. Len(Items[r]) :
                        g[i] = TryItem(r, start, g[i - 1], Items[r][i])
<1> DEFINE L == Len(Items[r])
           base == [em |-> em, inputs |-> {}, n |-> n, budget |-> budget, stop |-> FALSE]
           body(g, i) == IF i = 0 THEN base ELSE TryItem(r, start, g[i - 1], Items[r][i])
           Good(g, m) == g = [i \in 0 .. m |-> body(g, i)]
           G == {m \in Nat : \E g : Good(g, m)}
<1>1. 0 \in G
  <2> DEFINE h == [i \in 0 .. 0 |-> base]
  <2>1. Good(h, 0)
    OBVIOUS
  <2> QED
    BY <2>1
<1>2. ASSUME NEW m \in 1 .. L, m - 1 \in G PROVE m \in G
  <2>1. PICK g : Good(g, m - 1)
    BY <1>2
  <2> DEFINE h == [i \in 0 .. m |-> body(g, i)]
  <2>2. ASSUME NEW i \in 0 .. m PROVE h[i] = body(h, i)
    <3>1. CASE i = 0
      BY <3>1
    <3>2. CASE i # 0
      <4>1. i - 1 \in 0 .. (m - 1) /\ i - 1 \in 0 .. m
        BY <3>2
      <4>2. g[i - 1] = body(g, i - 1) /\ h[i - 1] = body(g, i - 1)
        BY <2>1, <4>1
      <4> QED
        BY <3>2, <4>2
    <3> QED
      BY <3>1, <3>2
  <2>3. Good(h, m)
    BY <2>2
  <2>4. m \in Nat
    OBVIOUS
  <2> HIDE DEF Good, h
  <2> QED
    BY <2>3, <2>4
<1>3. L \in G
  <2>1. L \in Nat /\ L \in 0 .. L
    OBVIOUS
  <2> HIDE DEF G
  <2> QED
    BY <1>1, <1>2, <2>1, Induct
<1> DEFINE f == CHOOSE x : Good(x, L)
<1>4. Good(f, L)
  BY <1>3
<1>5. try_schedule_encoder_inputs(r, start, n) = f[L]
  BY DEF try_schedule_encoder_inputs
<1>6. \A i \in 0 .. L : f[i] = body(f, i)
  BY <1>4
<1> HIDE DEF f, base
<1>7. f[0] = base
  <2>1. 0 \in 0 .. L
    OBVIOUS
  <2> QED
    BY <1>6, <2>1
<1>8. ASSUME NEW i \in 1 .. L PROVE f[i] = TryItem(r, start, f[i - 1], Items[r][i])
  <2>1. i \in 0 .. L /\ i # 0
    OBVIOUS
  <2> QED
    BY ONLY <1>6, <2>1
<1> QED
  BY <1>5, <1>7, <1>8 DEF base

\* The items of a request are listed by position and do not overlap.
LEMMA ItemOrder ==
    ASSUME NEW r \in Request, NEW i \in 1 .. Len(Items[r]), NEW j \in 1 .. Len(Items[r]), i < j
    PROVE  Items[r][i].start + Items[r][i].len <= Items[r][j].start
BY ItemFacts, EncoderSchedulingAssumption

\* A hit keeps what is covered covered.
LEMMA TryHit ==
    ASSUME NEW acc, NEW r \in Request, NEW start \in Nat, NEW n \in Nat,
           NEW k \in 1 .. Len(Items[r]), Sound(em), budget \in Nat,
           TryRoom(acc, r), TryCover(acc, r, start, n, k - 1),
           NEW h, h = Items[r][k].hash, h \in acc.em.cached, ~acc.stop,
           Overlaps(r, k, start, acc.n),
           NEW acc2, acc2 = [acc EXCEPT !.em = check_and_update_cache(acc.em, r, h)]
    PROVE  TryRoom(acc2, r) /\ TryCover(acc2, r, start, n, k)
<1>1. h \in Hashes(r) /\ h \in MmHash /\ acc \in TryState /\ Sound(acc.em)
  BY ItemFacts DEF TryRoom
<1>2. PICK m : m = check_and_update_cache(acc.em, r, h)
  OBVIOUS
<1>3. /\ Sound(m) /\ m.cached = acc.em.cached /\ m.freed = acc.em.freed
      /\ m.num_free_slots = acc.em.num_free_slots
      /\ m.refs = [acc.em.refs EXCEPT ![h] = @ \cup {r}]
  <2>1. PICK e : e = acc.em
    OBVIOUS
  <2>2. Sound(e) /\ h \in e.cached /\ m = check_and_update_cache(e, r, h)
    BY <1>1, <1>2, <2>1
  <2>3. /\ Sound(m) /\ m.cached = e.cached /\ m.freed = e.freed
        /\ m.num_free_slots = e.num_free_slots
        /\ m.refs = [e.refs EXCEPT ![h] = @ \cup {r}]
    BY ONLY r \in Request, <1>1, <2>2, HitFacts
  <2> QED
    BY ONLY <2>1, <2>3
<1>4. /\ m \in EncoderManager
      /\ \A g \in MmHash : m.refs[g] = IF g = h THEN acc.em.refs[g] \cup {r} ELSE acc.em.refs[g]
  <2>1. acc.em.refs \in [MmHash -> SUBSET Request]
    BY <1>1, SoundFacts
  <2>2. m \in EncoderManager
    BY <1>3 DEF Sound
  <2> QED
    BY <1>3, <2>1, <2>2
<1>5. /\ acc2 \in TryState /\ acc2.em = m /\ acc2.inputs = acc.inputs /\ acc2.n = acc.n
      /\ acc2.budget = acc.budget /\ acc2.stop = acc.stop
  BY <1>1, <1>2, <1>4 DEF TryState
<1>6. TryRoom(acc2, r)
  <2>1. TryRoom(acc, r)
    OBVIOUS
  <2>2. \A g \in MmHash : /\ em.refs[g] \subseteq m.refs[g]
                          /\ m.refs[g] \subseteq em.refs[g] \cup {r}
    BY ONLY <1>4, <2>1 DEF TryRoom
  <2> QED
    BY ONLY <1>3, <1>5, <2>1, <2>2 DEF TryRoom
<1>7. TryCover(acc2, r, start, n, k)
  <2>1. /\ acc.n <= n /\ acc.n # 0 /\ acc.n \in Nat
        /\ \A j \in 1 .. (k - 1) : Overlaps(r, j, start, acc.n) => Covered(acc, r, Items[r][j].hash)
    BY <1>1 DEF TryCover, TryState
  <2>2. \A j \in 1 .. Len(Items[r]) : Items[r][j].hash \in MmHash
    BY ItemFacts
  <2>3. Len(Items[r]) \in Nat /\ k \in 1 .. k
    BY ItemFacts
  <2>4. ASSUME NEW j \in 1 .. k, Overlaps(r, j, start, acc.n)
        PROVE  Covered(acc2, r, Items[r][j].hash)
    <3>1. CASE j = k
      <4>1. r \in m.refs[h]
        BY ONLY <1>1, <1>4
      <4> QED
        BY <1>5, <3>1, <4>1 DEF Covered
    <3>2. CASE j # k
      <4>1. j \in 1 .. (k - 1) /\ Items[r][j].hash \in MmHash
        BY <2>2, <2>3, <3>2
      <4>2. Covered(acc, r, Items[r][j].hash)
        BY <2>1, <2>4, <4>1
      <4>3. r \in acc.em.refs[Items[r][j].hash] => r \in m.refs[Items[r][j].hash]
        BY ONLY <1>4, <4>1
      <4> QED
        BY ONLY <1>5, <4>2, <4>3 DEF Covered
    <3> QED
      BY <3>1, <3>2
  <2>5. Overlaps(r, k, start, n)
    <3>1. PICK x, y : x = Items[r][k].start /\ y = Items[r][k].start + Items[r][k].len
      OBVIOUS
    <3>2. x \in Nat
      BY <3>1, ItemFacts
    <3>3. acc.n > 0 /\ x < start + acc.n /\ y > start
      BY <3>1 DEF Overlaps
    <3>4. n > 0 /\ x < start + n
      BY ONLY <2>1, <3>2, <3>3, start \in Nat, n \in Nat
    <3> QED
      BY ONLY <3>1, <3>3, <3>4 DEF Overlaps
  <2> QED
    BY <1>5, <2>1, <2>3, <2>4, <2>5 DEF TryCover
<1> QED
  BY <1>6, <1>7

\* So does the decision to compute an output.
LEMMA TryCompute ==
    ASSUME NEW acc, NEW r \in Request, NEW start \in Nat, NEW n \in Nat,
           NEW k \in 1 .. Len(Items[r]), Sound(em), budget \in Nat,
           TryRoom(acc, r), TryCover(acc, r, start, n, k - 1),
           NEW h, h = Items[r][k].hash, h \notin acc.em.cached, h \notin acc.inputs, ~acc.stop,
           Overlaps(r, k, start, acc.n),
           can_allocate(acc.em, h, acc.budget, TotalEmbeds(acc.inputs)),
           NEW acc2, acc2 = [acc EXCEPT !.em = reclaim(acc.em, Embeds[h] + TotalEmbeds(acc.inputs)),
                                        !.inputs = acc.inputs \cup {h},
                                        !.budget = acc.budget - Embeds[h]]
    PROVE  TryRoom(acc2, r) /\ TryCover(acc2, r, start, n, k)
<1>1. /\ h \in Hashes(r) /\ h \in MmHash /\ acc \in TryState /\ Sound(acc.em)
      /\ IsFiniteSet(acc.inputs)
  BY ItemFacts DEF TryRoom
<1>2. PICK total : total = TotalEmbeds(acc.inputs)
  OBVIOUS
<1>3. Embeds[h] \in Nat /\ total \in Nat /\ budget \in Nat
  <2>1. Embeds[h] \in Nat
    BY ONLY <1>1, EncoderCacheAssumption
  <2>2. total \in Nat
    BY ONLY <1>1, <1>2, SlotsFinite
  <2> QED
    BY <2>1, <2>2
<1>4. PICK need : need = Embeds[h] + total
  OBVIOUS
<1>5. /\ Embeds[h] <= acc.budget /\ need \in Nat
      /\ need <= acc.em.num_free_slots \/ need <= acc.em.num_freeable_slots
  BY <1>2, <1>3, <1>4 DEF can_allocate
<1>6. PICK m : m = reclaim(acc.em, need)
  OBVIOUS
<1>7. /\ Sound(m) /\ need <= m.num_free_slots /\ m.refs = acc.em.refs
      /\ m.cached \subseteq acc.em.cached
      /\ m.freed = acc.em.freed \cup (acc.em.cached \ m.cached)
  BY <1>1, <1>5, <1>6, ReclaimFacts
<1>8. acc.budget = budget - total /\ acc.budget \in Nat /\ acc.inputs \subseteq MmHash
  BY <1>1, <1>2 DEF TryRoom, TryState
<1>9. acc.budget - Embeds[h] \in Nat
  BY <1>3, <1>5, <1>8
<1>10. /\ acc2 \in TryState /\ acc2.em = m /\ acc2.inputs = acc.inputs \cup {h}
       /\ acc2.n = acc.n /\ acc2.budget = acc.budget - Embeds[h] /\ acc2.stop = acc.stop
  <2>1. m \in EncoderManager
    BY <1>7 DEF Sound
  <2>2. acc2 = [acc EXCEPT !.em = m, !.inputs = acc.inputs \cup {h},
                           !.budget = acc.budget - Embeds[h]]
    BY <1>2, <1>4, <1>6
  <2>3. /\ acc.inputs \cup {h} \in SUBSET MmHash
        /\ acc \in [em : EncoderManager, inputs : SUBSET MmHash, n : Nat, budget : Nat,
                   stop : BOOLEAN]
    BY ONLY <1>1, <1>8 DEF TryState
  <2> QED
    BY ONLY <1>9, <2>1, <2>2, <2>3 DEF TryState
<1>11. IsFiniteSet(acc2.inputs) /\ TotalEmbeds(acc2.inputs) = need
  <2>1. IsFiniteSet({h}) /\ acc.inputs \cap {h} = {}
    BY FS_Singleton
  <2>2. TotalEmbeds(acc.inputs \cup {h}) = total + Embeds[h]
    BY <1>1, <1>2, <2>1, TotalUnion, TotalOne
  <2>3. IsFiniteSet(acc.inputs \cup {h})
    BY <1>1, FS_AddElement
  <2> QED
    BY <1>3, <1>4, <1>10, <2>2, <2>3
<1>12. TryRoom(acc2, r)
  <2>1. acc2.budget = budget - TotalEmbeds(acc2.inputs)
    BY <1>3, <1>4, <1>8, <1>10, <1>11
  <2>2. /\ acc.em.cached \subseteq em.cached
        /\ acc.em.freed = em.freed \cup (em.cached \ acc.em.cached)
        /\ \A g \in MmHash : /\ em.refs[g] \subseteq acc.em.refs[g]
                             /\ acc.em.refs[g] \subseteq em.refs[g] \cup {r}
        /\ acc.inputs \subseteq Hashes(r) \ acc.em.cached
    BY DEF TryRoom
  <2>3. /\ acc2.em.cached \subseteq em.cached
        /\ acc2.em.freed = em.freed \cup (em.cached \ acc2.em.cached)
    BY <1>7, <1>10, <2>2
  <2>4. acc2.inputs \subseteq Hashes(r) \ acc2.em.cached
    <3>1. acc.inputs \subseteq Hashes(r) \ acc.em.cached /\ h \in Hashes(r) \ acc.em.cached
      BY <1>1, <2>2
    <3> QED
      BY ONLY <1>7, <1>10, <3>1
  <2> QED
    BY <1>7, <1>10, <1>11, <2>1, <2>2, <2>3, <2>4 DEF TryRoom
<1>13. TryCover(acc2, r, start, n, k)
  <2>1. /\ acc.n <= n /\ acc.n # 0 /\ acc.n \in Nat
        /\ \A j \in 1 .. (k - 1) : Overlaps(r, j, start, acc.n) => Covered(acc, r, Items[r][j].hash)
    BY <1>1 DEF TryCover, TryState
  <2>2. Len(Items[r]) \in Nat /\ k \in 1 .. k
    BY ItemFacts
  <2>3. ASSUME NEW j \in 1 .. k, Overlaps(r, j, start, acc.n)
        PROVE  Covered(acc2, r, Items[r][j].hash)
    <3>1. CASE j = k
      BY <1>10, <3>1 DEF Covered
    <3>2. CASE j # k
      <4>1. j \in 1 .. (k - 1)
        BY <2>2, <3>2
      <4>2. Covered(acc, r, Items[r][j].hash)
        BY <2>1, <2>3, <4>1
      <4> QED
        BY <1>7, <1>10, <4>2 DEF Covered
    <3> QED
      BY <3>1, <3>2
  <2>4. Overlaps(r, k, start, n)
    <3>1. PICK x, y : x = Items[r][k].start /\ y = Items[r][k].start + Items[r][k].len
      OBVIOUS
    <3>2. x \in Nat
      BY <3>1, ItemFacts
    <3>3. acc.n > 0 /\ x < start + acc.n /\ y > start
      BY <3>1 DEF Overlaps
    <3>4. n > 0 /\ x < start + n
      BY ONLY <2>1, <3>2, <3>3, start \in Nat, n \in Nat
    <3> QED
      BY ONLY <3>1, <3>3, <3>4 DEF Overlaps
  <2> QED
    BY <1>10, <2>1, <2>2, <2>3, <2>4 DEF TryCover
<1> QED
  BY <1>12, <1>13

\* One iteration of the loop.
LEMMA TryStep ==
    ASSUME NEW acc, NEW r \in Request, NEW start \in Nat, NEW n \in Nat,
           NEW k \in 1 .. Len(Items[r]), Sound(em), budget \in Nat,
           TryRoom(acc, r), TryCover(acc, r, start, n, k - 1)
    PROVE  LET acc2 == TryItem(r, start, acc, Items[r][k])
           IN  TryRoom(acc2, r) /\ TryCover(acc2, r, start, n, k)
<1>1. PICK item, h : item = Items[r][k] /\ h = item.hash
  OBVIOUS
<1>2. PICK acc2 : acc2 = TryItem(r, start, acc, item)
  OBVIOUS
<1>3. /\ acc \in TryState /\ acc.n \in Nat /\ acc.stop \in BOOLEAN /\ acc.n <= n
      /\ \A j \in 1 .. (k - 1) : Overlaps(r, j, start, acc.n) => Covered(acc, r, Items[r][j].hash)
      /\ acc.stop => \A j \in k .. Len(Items[r]) : Items[r][j].start >= start + acc.n
      /\ acc.n = 0 => acc.stop /\ acc.em = em
      /\ (\A j \in 1 .. (k - 1) : ~Overlaps(r, j, start, n)) => acc.em = em
  <2>1. Len(Items[r]) \in Nat /\ (k - 1) + 1 = k
    BY ItemFacts
  <2> QED
    BY <2>1 DEF TryRoom, TryCover, TryState
<1>4. /\ Len(Items[r]) \in Nat
      /\ item.start \in Nat /\ item.len \in Nat \ {0}
      /\ \A j \in 1 .. Len(Items[r]) : Items[r][j].start \in Nat /\ Items[r][j].len \in Nat \ {0}
  BY <1>1, ItemFacts
<1>5. CASE acc.stop \/ item.start >= start + acc.n
  <2>1. acc2 = [acc EXCEPT !.stop = TRUE]
    BY <1>1, <1>2, <1>5 DEF TryItem
  <2>2. /\ acc2 \in TryState /\ acc2.em = acc.em /\ acc2.inputs = acc.inputs
        /\ acc2.n = acc.n /\ acc2.budget = acc.budget /\ acc2.stop
    BY <1>3, <2>1 DEF TryState
  <2>3. TryRoom(acc2, r)
    BY <2>2 DEF TryRoom
  <2>4. item.start >= start + acc.n
    BY <1>1, <1>3, <1>4, <1>5
  <2>5. \A j \in (k + 1) .. Len(Items[r]) : Items[r][j].start >= start + acc.n
    <3> SUFFICES ASSUME NEW j \in (k + 1) .. Len(Items[r])
                 PROVE  Items[r][j].start >= start + acc.n
      OBVIOUS
    <3>1. j \in 1 .. Len(Items[r]) /\ k < j
      BY <1>4
    <3>2. item.start + item.len <= Items[r][j].start
      BY <1>1, <3>1, ItemOrder
    <3>3. Items[r][j].start \in Nat
      BY <1>4, <3>1
    <3> QED
      <4>1. acc.n \in Nat /\ item.start \in Nat /\ item.len \in Nat
        BY <1>3, <1>4
      <4>2. PICK x, y, z, l : /\ x = item.start /\ y = Items[r][j].start /\ z = acc.n
                              /\ l = item.len
        OBVIOUS
      <4>3. /\ x \in Nat /\ y \in Nat /\ z \in Nat /\ l \in Nat /\ start \in Nat
            /\ x >= start + z /\ x + l <= y
        BY <2>4, <3>2, <3>3, <4>1, <4>2
      <4>4. y >= start + z
        BY ONLY <4>3
      <4> QED
        BY <4>2, <4>4
  <2>6. \A j \in 1 .. k : Overlaps(r, j, start, acc.n) => Covered(acc2, r, Items[r][j].hash)
    <3> SUFFICES ASSUME NEW j \in 1 .. k, Overlaps(r, j, start, acc.n)
                 PROVE  Covered(acc2, r, Items[r][j].hash)
      OBVIOUS
    <3>1. j # k
      BY <1>1, <1>3, <1>4, <2>4 DEF Overlaps
    <3>2. j \in 1 .. (k - 1)
      BY <1>4, <3>1
    <3> QED
      BY <1>3, <2>2, <3>2 DEF Covered
  <2>7. (\A j \in 1 .. k : ~Overlaps(r, j, start, n)) => acc.em = em
    BY <1>3, <1>4
  <2>8. TryCover(acc2, r, start, n, k)
    BY <1>3, <2>2, <2>5, <2>6, <2>7 DEF TryCover
  <2> QED
    BY <1>1, <1>2, <2>3, <2>8
<1>6. CASE /\ ~(acc.stop \/ item.start >= start + acc.n)
           /\ item.start + item.len <= start \/ h \in acc.inputs
  <2>1. acc2 = acc
    BY <1>1, <1>2, <1>6 DEF TryItem
  <2>2. \A j \in 1 .. k : Overlaps(r, j, start, acc.n) => Covered(acc, r, Items[r][j].hash)
    <3> SUFFICES ASSUME NEW j \in 1 .. k, Overlaps(r, j, start, acc.n)
                 PROVE  Covered(acc, r, Items[r][j].hash)
      OBVIOUS
    <3>1. CASE j = k
      BY <1>1, <1>4, <1>6, <3>1 DEF Overlaps, Covered
    <3>2. CASE j # k
      <4>1. j \in 1 .. (k - 1)
        BY <1>4, <3>2
      <4> QED
        BY <1>3, <4>1
    <3> QED
      BY <3>1, <3>2
  <2>3. (\A j \in 1 .. k : ~Overlaps(r, j, start, n)) => acc.em = em
    BY <1>3, <1>4
  <2>4. TryCover(acc, r, start, n, k)
    BY <1>3, <1>6, <2>2, <2>3 DEF TryCover
  <2> QED
    BY <1>1, <1>2, <2>1, <2>4
<1>7. CASE /\ ~(acc.stop \/ item.start >= start + acc.n)
           /\ ~(item.start + item.len <= start \/ h \in acc.inputs)
  <2>1. Overlaps(r, k, start, acc.n) /\ ~acc.stop
    <3>1. acc.n > 0 /\ item.start < start + acc.n /\ item.start + item.len > start
      BY ONLY <1>3, <1>4, <1>7, start \in Nat
    <3> QED
      BY ONLY <1>1, <1>7, <3>1 DEF Overlaps
  <2>2. CASE h \in acc.em.cached
    <3>1. acc2 = [acc EXCEPT !.em = check_and_update_cache(acc.em, r, h)]
      BY <1>1, <1>2, <1>7, <2>2 DEF TryItem
    <3>2. TryRoom(acc2, r) /\ TryCover(acc2, r, start, n, k)
      BY <1>1, <2>1, <2>2, <3>1, TryHit
    <3> QED
      BY <1>1, <1>2, <3>2
  <2>3. CASE h \notin acc.em.cached /\ can_allocate(acc.em, h, acc.budget, TotalEmbeds(acc.inputs))
    <3>1. acc2 = [acc EXCEPT !.em = reclaim(acc.em, Embeds[h] + TotalEmbeds(acc.inputs)),
                             !.inputs = acc.inputs \cup {h},
                             !.budget = acc.budget - Embeds[h]]
      BY <1>1, <1>2, <1>7, <2>3 DEF TryItem
    <3>2. TryRoom(acc2, r) /\ TryCover(acc2, r, start, n, k)
      BY <1>1, <1>7, <2>1, <2>3, <3>1, TryCompute
    <3> QED
      BY <1>1, <1>2, <3>2
  <2>4. CASE h \notin acc.em.cached /\ ~can_allocate(acc.em, h, acc.budget, TotalEmbeds(acc.inputs))
    <3>1. PICK p : p = IF start < item.start THEN item.start - start ELSE 0
      OBVIOUS
    <3>2. acc2 = [acc EXCEPT !.stop = TRUE, !.n = p]
      BY <1>1, <1>2, <1>7, <2>4, <3>1 DEF TryItem
    <3>3. p \in Nat /\ p <= acc.n
      BY <1>3, <1>4, <1>7, <3>1
    <3>4. /\ acc2 \in TryState /\ acc2.em = acc.em /\ acc2.inputs = acc.inputs
          /\ acc2.n = p /\ acc2.budget = acc.budget /\ acc2.stop
      BY <1>3, <3>2, <3>3 DEF TryState
    <3>5. TryRoom(acc2, r)
      BY <3>4 DEF TryRoom
    <3>6. ASSUME NEW j \in 1 .. (k - 1)
          PROVE  j \in 1 .. Len(Items[r]) /\ Items[r][j].start + Items[r][j].len <= item.start
      <4>1. j \in 1 .. Len(Items[r]) /\ j < k
        BY <1>4
      <4> QED
        BY <1>1, <4>1, ItemOrder
    <3>7. p = 0 => acc.em = em
      <4> SUFFICES ASSUME p = 0, NEW j \in 1 .. (k - 1)
                   PROVE  ~Overlaps(r, j, start, n)
        BY <1>3
      <4>1. item.start <= start
        BY <1>4, <3>1
      <4>2. Items[r][j].start \in Nat /\ Items[r][j].len \in Nat
        BY <1>4, <3>6
      <4>3. Items[r][j].start + Items[r][j].len <= start
        <5>1. Items[r][j].start + Items[r][j].len <= item.start /\ item.start \in Nat
          BY <1>4, <3>6
        <5> QED
          BY ONLY <4>1, <4>2, <5>1, start \in Nat
      <4> QED
        BY ONLY <4>2, <4>3, start \in Nat DEF Overlaps
    <3>8. \A j \in 1 .. k : Overlaps(r, j, start, p) => Covered(acc2, r, Items[r][j].hash)
      <4> SUFFICES ASSUME NEW j \in 1 .. k, Overlaps(r, j, start, p)
                   PROVE  Covered(acc2, r, Items[r][j].hash)
        OBVIOUS
      <4>1. j \in 1 .. Len(Items[r])
        BY <1>4
      <4>2. j # k
        <5>1. p > 0 => start + p = item.start
          BY <1>4, <3>1
        <5> QED
          BY <1>1, <1>4, <3>3, <5>1 DEF Overlaps
      <4>3. j \in 1 .. (k - 1)
        BY <1>4, <4>2
      <4>4. Overlaps(r, j, start, acc.n)
        <5>1. PICK x, y : x = Items[r][j].start /\ y = Items[r][j].start + Items[r][j].len
          OBVIOUS
        <5>2. x \in Nat
          BY <1>4, <4>1, <5>1
        <5>3. p > 0 /\ x < start + p /\ y > start
          BY <5>1 DEF Overlaps
        <5>4. acc.n > 0 /\ x < start + acc.n
          BY ONLY <1>3, <3>3, <5>2, <5>3, start \in Nat
        <5> QED
          BY ONLY <5>1, <5>3, <5>4 DEF Overlaps
      <4> QED
        BY <1>3, <3>4, <4>3, <4>4 DEF Covered
    <3>9. \A j \in (k + 1) .. Len(Items[r]) : Items[r][j].start >= start + p
      <4> SUFFICES ASSUME NEW j \in (k + 1) .. Len(Items[r])
                   PROVE  Items[r][j].start >= start + p
        OBVIOUS
      <4>1. j \in 1 .. Len(Items[r]) /\ k < j
        BY <1>4
      <4>2. item.start + item.len <= Items[r][j].start
        BY <1>1, <4>1, ItemOrder
      <4>3. start + p <= item.start + item.len
        BY <1>4, <1>7, <3>1
      <4>4. Items[r][j].start \in Nat
        BY <1>4, <4>1
      <4> QED
        BY ONLY <1>4, <3>3, <4>2, <4>3, <4>4, start \in Nat
    <3>10. (\A j \in 1 .. k : ~Overlaps(r, j, start, n)) => acc.em = em
      BY <1>3, <1>4
    <3>11. TryCover(acc2, r, start, n, k)
      <4>1. p <= n
        BY <1>3, <3>3
      <4> QED
        BY <3>4, <3>7, <3>8, <3>9, <3>10, <4>1 DEF TryCover
    <3> QED
      BY <1>1, <1>2, <3>5, <3>11
  <2> QED
    BY <2>2, <2>3, <2>4
<1> QED
  BY <1>5, <1>6, <1>7

\* What try_schedule_encoder_inputs returns.
LEMMA TryFacts ==
    ASSUME Sound(em), budget \in Nat, NEW r \in Request, NEW start \in Nat,
           NEW n \in Nat \ {0}
    PROVE  LET try == try_schedule_encoder_inputs(r, start, n)
           IN  TryRoom(try, r) /\ TryCover(try, r, start, n, Len(Items[r]))
<1> DEFINE L == Len(Items[r])
<1>0. L \in Nat
  BY ItemFacts
<1>1. PICK g : /\ try_schedule_encoder_inputs(r, start, n) = g[L]
               /\ g[0] = [em |-> em, inputs |-> {}, n |-> n, budget |-> budget, stop |-> FALSE]
               /\ \A i \in 1 .. L : g[i] = TryItem(r, start, g[i - 1], Items[r][i])
  BY ONLY <1>0, TryLoop
<1> DEFINE Good(k) == TryRoom(g[k], r) /\ TryCover(g[k], r, start, n, k)
           G == {k \in 0 .. L : Good(k)}
<1>2. 0 \in G
  <2>1. PICK acc : acc = g[0]
    OBVIOUS
  <2>2. /\ acc \in TryState /\ acc.em = em /\ acc.inputs = {} /\ acc.n = n
        /\ acc.budget = budget /\ ~acc.stop
    BY <1>1, <2>1 DEF TryState, Sound
  <2>3. TotalEmbeds({}) = 0 /\ IsFiniteSet({}) /\ em.num_free_slots \in Nat
        /\ em.refs \in [MmHash -> SUBSET Request]
    BY TotalOne, FS_EmptySet, SoundFacts
  <2>4. TryRoom(acc, r)
    BY <2>2, <2>3 DEF TryRoom
  <2>5. TryCover(acc, r, start, n, 0)
    BY <2>2 DEF TryCover
  <2>6. Good(0) /\ 0 \in 0 .. L
    BY <1>0, <2>1, <2>4, <2>5
  <2> HIDE DEF Good
  <2> QED
    BY <2>6
<1>3. ASSUME NEW k \in 1 .. L, k - 1 \in G PROVE k \in G
  <2>1. TryRoom(g[k - 1], r) /\ TryCover(g[k - 1], r, start, n, k - 1) /\ k \in 0 .. L
    BY <1>3
  <2>2. PICK acc : acc = g[k - 1]
    OBVIOUS
  <2>3. TryRoom(acc, r) /\ TryCover(acc, r, start, n, k - 1)
    BY <2>1, <2>2
  <2>4. PICK acc2 : acc2 = TryItem(r, start, acc, Items[r][k])
    OBVIOUS
  <2>5. TryRoom(acc2, r) /\ TryCover(acc2, r, start, n, k)
    BY <2>3, <2>4, TryStep
  <2>6. g[k] = acc2
    BY <1>1, <2>2, <2>4
  <2>7. Good(k)
    BY <2>5, <2>6
  <2> HIDE DEF Good
  <2> QED
    BY <2>1, <2>7
<1>4. L \in G
  <2>1. L \in 0 .. L
    BY <1>0
  <2> HIDE DEF G
  <2> QED
    BY <1>0, <1>2, <1>3, <2>1, Induct
<1> QED
  BY <1>1, <1>4

-----------------------------------------------------------------------------
(* The state.                                                                 *)

Entry == [req : Request, n : Nat \ {0}, inputs : SUBSET MmHash]

Trial == [req : Request, n : Nat \ {0}, inputs : SUBSET MmHash, budget : Nat]

Inputs == UNION {e.inputs : e \in batch}

Types ==
    /\ Sound(em)
    /\ running \subseteq Request
    /\ computed \in [Request -> Nat]
    /\ \A r \in Request : computed[r] <= PromptLen[r]
    /\ pc \in {"idle", "running", "waiting", "place", "end"}
    /\ budget \in Nat
    /\ batch \subseteq Entry /\ IsFiniteSet(batch)

\* What a member of the batch computes or reads it refers to, so none of it is evicted
\* before the batch goes out; no output is computed twice, and the batch computes no
\* more than the budget.
BatchSound ==
    /\ pc = "idle" => batch = {}
    /\ \A e \in batch : /\ e.req \in running
                        /\ computed[e.req] + e.n <= PromptLen[e.req]
                        /\ \A h \in e.inputs \cup Gathers(e) : e.req \in em.refs[h]
    /\ \A e, f \in batch : e # f => e.req # f.req /\ e.inputs \cap f.inputs = {}
    /\ budget + TotalEmbeds(Inputs) <= ComputeBudget

\* The request in the KV allocation has room for what it computes, covers what it reads,
\* and leaves a budget that a preemption can only make too small.
CurSound ==
    IF pc = "place"
    THEN /\ cur \in Trial
         /\ cur.req \notin Scheduled
         /\ computed[cur.req] + cur.n <= PromptLen[cur.req]
         /\ cur.inputs \subseteq Hashes(cur.req) \ em.cached
         /\ IsFiniteSet(cur.inputs)
         /\ TotalEmbeds(cur.inputs) <= em.num_free_slots
         /\ cur.budget + TotalEmbeds(cur.inputs) + TotalEmbeds(Inputs) <= ComputeBudget
         /\ \A h \in Gathers(cur) : h \in cur.inputs \/ cur.req \in em.refs[h]
    ELSE cur = NoCur

IInv == Types /\ BatchSound /\ CurSound /\ OnlyRunningRefer

\* What the workers hold and will compute is what the manager believes cached or has
\* yet to tell them it evicted.
Mirror ==
    /\ worker \cup Inputs = em.cached \cup em.freed
    /\ em.cached \cap em.freed \subseteq Inputs
    /\ gathered \subseteq worker

\* The members of the batch and what they read.
LEMMA BatchFacts ==
    ASSUME IInv
    PROVE  /\ Inputs \subseteq em.cached
           /\ \A e \in batch : /\ e \in Entry /\ e.req \in Request
                               /\ e.inputs \subseteq em.cached
                               /\ Gathers(e) \subseteq em.cached
           /\ IsFiniteSet(Inputs) /\ TotalEmbeds(Inputs) \in Nat
           /\ budget <= ComputeBudget /\ ComputeBudget \in Nat
<1>1. ASSUME NEW e \in batch
      PROVE  /\ e \in Entry /\ e.req \in Request
             /\ e.inputs \subseteq em.cached /\ Gathers(e) \subseteq em.cached
  <2>1. e \in Entry /\ e.req \in Request /\ e.inputs \subseteq MmHash
    BY DEF IInv, Types, Entry
  <2>2. Gathers(e) \subseteq MmHash
    BY <2>1, ItemFacts DEF Gathers
  <2>3. \A h \in e.inputs \cup Gathers(e) : e.req \in em.refs[h]
    BY DEF IInv, BatchSound
  <2>4. \A h \in MmHash : em.refs[h] # {} => h \in em.cached
    BY DEF IInv, Types, Sound
  <2> QED
    BY <2>1, <2>2, <2>3, <2>4
<1>2. Inputs \subseteq em.cached
  BY <1>1 DEF Inputs
<1>3. IsFiniteSet(em.cached)
  BY DEF IInv, Types, Sound
<1>4. IsFiniteSet(Inputs) /\ TotalEmbeds(Inputs) \in Nat
  BY <1>2, <1>3, FS_Subset, SlotsFinite
<1>5. budget \in Nat /\ ComputeBudget \in Nat /\ budget + TotalEmbeds(Inputs) <= ComputeBudget
  BY EncoderSchedulingAssumption DEF IInv, Types, BatchSound
<1> QED
  BY <1>1, <1>2, <1>4, <1>5

\* What a member reads depends on where it starts.
LEMMA GathersSame ==
    ASSUME NEW e, e.req \in Request, computed'[e.req] = computed[e.req]
    PROVE  Gathers(e)' = Gathers(e)
BY DEF Gathers

\* The empty manager.
LEMMA EmptySound ==
    /\ Sound(EmptyEncoderCache)
    /\ EmptyEncoderCache.cached = {} /\ EmptyEncoderCache.freed = {}
    /\ \A h \in MmHash : EmptyEncoderCache.refs[h] = {}
<1> DEFINE m == EmptyEncoderCache
<1>1. /\ m.cached = {} /\ m.freed = {} /\ m.freeable = <<>>
      /\ m.num_free_slots = CacheSize /\ m.num_freeable_slots = CacheSize
      /\ m.refs = [h \in MmHash |-> {}]
      /\ m \in EncoderManager
  BY EncoderCacheAssumption DEF EmptyEncoderCache, EncoderManager
<1>2. ToSet(<<>>) = {} /\ IsInjective(<<>>)
  BY DEF ToSet, IsInjective
<1>3. CacheSize \in Nat
  BY EncoderCacheAssumption
<1> HIDE DEF m
<1>4. /\ m.num_free_slots = CacheSize - TotalEmbeds(m.cached)
      /\ m.num_freeable_slots = m.num_free_slots + TotalEmbeds(ToSet(m.freeable))
  <2>1. TotalEmbeds(m.cached) = 0 /\ TotalEmbeds(ToSet(m.freeable)) = 0
    BY <1>1, <1>2, TotalOne
  <2> QED
    BY ONLY <1>1, <1>3, <2>1
<1>5. /\ IsFiniteSet(m.cached) /\ IsInjective(m.freeable)
      /\ ToSet(m.freeable) = {h \in m.cached : m.refs[h] = {}}
      /\ \A h \in MmHash : m.refs[h] = {}
  BY <1>1, <1>2, FS_EmptySet
<1>6. Sound(m)
  BY ONLY <1>1, <1>4, <1>5 DEF Sound
<1> QED
  BY <1>1, <1>5, <1>6 DEF m

-----------------------------------------------------------------------------
(* The steps.                                                                 *)

\* A visit keeps what the batch refers to and covers what the request will read.
LEMMA VisitInv ==
    ASSUME IInv, NEW r \in Request, NEW start \in Nat, NEW n, pc # "place",
           Visit(r, start, n)
    PROVE  IInv' /\ (Mirror => Mirror')
<1>1. PICK try : try = try_schedule_encoder_inputs(r, start, n)
  OBVIOUS
<1>2. /\ pc # "place" /\ r \notin Scheduled
      /\ em' = try.em
      /\ cur' = IF try.n = 0 THEN NoCur
                ELSE [req |-> r, n |-> try.n, inputs |-> try.inputs, budget |-> try.budget]
      /\ pc' = IF try.n # 0 THEN "place" ELSE IF r \in running THEN "running" ELSE "end"
      /\ computed' = [computed EXCEPT ![r] = start]
      /\ running' = running /\ budget' = budget /\ batch' = batch
      /\ worker' = worker /\ gathered' = gathered
  BY <1>1 DEF Visit
<1>3. n \in Nat \ {0} /\ start + n <= PromptLen[r] /\ PromptLen[r] \in Nat
  <2>1. PromptLen[r] \in Nat /\ n \in 1 .. (PromptLen[r] - start)
    BY EncoderSchedulingAssumption DEF Visit
  <2> QED
    BY <2>1
<1>4. /\ Sound(em) /\ budget \in Nat /\ computed \in [Request -> Nat]
      /\ cur = NoCur
  BY <1>2 DEF IInv, Types, CurSound
<1>5. TryRoom(try, r) /\ TryCover(try, r, start, n, Len(Items[r]))
  BY <1>1, <1>3, <1>4, TryFacts
<1>6. /\ try \in TryState /\ Sound(try.em) /\ try.n \in Nat /\ try.n <= n
      /\ try.em.cached \subseteq em.cached
      /\ try.em.freed = em.freed \cup (em.cached \ try.em.cached)
      /\ \A h \in MmHash : /\ em.refs[h] \subseteq try.em.refs[h]
                           /\ try.em.refs[h] \subseteq em.refs[h] \cup {r}
      /\ try.n = 0 => try.em = em
  BY <1>5 DEF TryRoom, TryCover, TryState
<1>7. /\ computed' \in [Request -> Nat] /\ computed'[r] = start
      /\ \A q \in Request : q # r => computed'[q] = computed[q]
  BY <1>2, <1>4
<1>8. Types'
  BY <1>2, <1>3, <1>6, <1>7 DEF IInv, Types
<1>9. BatchSound'
  <2>1. ASSUME NEW e \in batch
        PROVE  /\ computed'[e.req] + e.n <= PromptLen[e.req]
               /\ \A h \in e.inputs \cup Gathers(e)' : e.req \in em'.refs[h]
    <3>1. e.req \in Request /\ e.req # r /\ e.inputs \subseteq em.cached
          /\ Gathers(e) \subseteq em.cached
      BY <1>2, BatchFacts DEF Scheduled
    <3>2. Gathers(e)' = Gathers(e) /\ computed'[e.req] = computed[e.req]
      BY <1>7, <3>1, GathersSame
    <3>3. /\ computed[e.req] + e.n <= PromptLen[e.req]
          /\ \A h \in e.inputs \cup Gathers(e) : e.req \in em.refs[h]
      BY DEF IInv, BatchSound
    <3>4. em.cached \subseteq MmHash
      BY <1>4, SoundFacts
    <3> QED
      BY <1>2, <1>6, <3>1, <3>2, <3>3, <3>4
  <2>2. pc' # "idle"
    BY <1>2
  <2> QED
    BY <1>2, <2>1, <2>2 DEF IInv, BatchSound, Inputs
<1>10. CurSound'
  <2>1. CASE try.n = 0
    BY <1>2, <2>1 DEF CurSound, NoCur
  <2>2. CASE try.n # 0
    <3>1. /\ cur' = [req |-> r, n |-> try.n, inputs |-> try.inputs, budget |-> try.budget]
          /\ pc' = "place"
      BY <1>2, <2>2
    <3>2. /\ try.inputs \subseteq Hashes(r) \ try.em.cached
          /\ IsFiniteSet(try.inputs)
          /\ TotalEmbeds(try.inputs) <= try.em.num_free_slots
          /\ try.budget = budget - TotalEmbeds(try.inputs) /\ try.budget \in Nat
      BY <1>5, <1>6 DEF TryRoom, TryState
    <3>3. try.budget + TotalEmbeds(try.inputs) + TotalEmbeds(Inputs') <= ComputeBudget
      <4>1. TotalEmbeds(try.inputs) \in Nat
        BY <3>2, SlotsFinite
      <4>2. Inputs' = Inputs /\ TotalEmbeds(Inputs) \in Nat
        BY <1>2, BatchFacts DEF Inputs
      <4>3. budget + TotalEmbeds(Inputs) <= ComputeBudget /\ ComputeBudget \in Nat
        BY BatchFacts DEF IInv, BatchSound
      <4> QED
        BY <1>4, <3>2, <4>1, <4>2, <4>3
    <3>4. cur' \in Trial
      BY <1>6, <2>2, <3>1, <3>2 DEF Trial, TryState
    <3>5. r \notin Scheduled'
      BY <1>2 DEF Scheduled
    <3>6. computed'[r] + try.n <= PromptLen[r]
      BY <1>3, <1>6, <1>7
    <3>7. ASSUME NEW h \in Gathers(cur)' PROVE h \in try.inputs \/ r \in try.em.refs[h]
      <4>1. PICK j \in DOMAIN Items[r] : /\ h = Items[r][j].hash
                                         /\ Items[r][j].start < start + try.n
                                         /\ Items[r][j].start + Items[r][j].len > start
        BY <1>7, <3>1 DEF Gathers
      <4>2. j \in 1 .. Len(Items[r])
        BY ItemFacts
      <4>3. Overlaps(r, j, start, try.n)
        BY <1>6, <2>2, <4>1 DEF Overlaps
      <4>4. Covered(try, r, Items[r][j].hash)
        BY <1>5, <4>2, <4>3 DEF TryCover
      <4> QED
        BY <4>1, <4>4 DEF Covered
    <3> QED
      BY <1>2, <3>1, <3>2, <3>3, <3>4, <3>5, <3>6, <3>7 DEF CurSound
  <2> QED
    BY <2>1, <2>2
<1>11. OnlyRunningRefer'
  <2>1. /\ \A h \in MmHash : em.refs[h] \subseteq running \cup {"none"}
        /\ \A h \in MmHash : em.refs[h] \subseteq Request
        /\ "none" \notin Request
    <3>1. em.refs \in [MmHash -> SUBSET Request]
      BY <1>4, SoundFacts
    <3> QED
      BY <1>4, <3>1, EncoderSchedulingAssumption DEF IInv, OnlyRunningRefer, NoCur
  <2>2. CASE try.n = 0
    BY <1>2, <1>6, <2>1, <2>2 DEF OnlyRunningRefer
  <2>3. CASE try.n # 0
    <3>1. cur'.req = r
      BY <1>2, <2>3
    <3> QED
      BY <1>2, <1>6, <2>1, <3>1 DEF OnlyRunningRefer
  <2> QED
    BY <2>2, <2>3
<1>12. Mirror => Mirror'
  <2>1. Inputs' = Inputs
    BY <1>2 DEF Inputs
  <2> QED
    BY <1>2, <1>6, <2>1 DEF Mirror
<1> QED
  BY <1>8, <1>9, <1>10, <1>11, <1>12 DEF IInv

\* The request joins the batch with the outputs it computes.
LEMMA PlaceInv ==
    ASSUME IInv, Place
    PROVE  IInv' /\ (Mirror => Mirror')
<1>1. PICK c, r, S, b : /\ r = cur.req /\ S = cur.inputs /\ b = cur.budget
                        /\ c = [req |-> r, n |-> cur.n, inputs |-> S]
  OBVIOUS
<1>2. /\ pc = "place" /\ em' = allocate(em, r, S)
      /\ running' = running \cup {r} /\ batch' = batch \cup {c}
      /\ budget' = IF S = {} THEN budget ELSE b
      /\ cur' = NoCur /\ pc' \in {"running", "waiting"} /\ computed' = computed
      /\ worker' = worker /\ gathered' = gathered
  BY <1>1 DEF Place
<1>3. /\ c \in Entry /\ r \in Request /\ r \notin Scheduled
      /\ computed[r] + c.n <= PromptLen[r]
      /\ S \subseteq Hashes(r) \ em.cached
      /\ IsFiniteSet(S) /\ TotalEmbeds(S) <= em.num_free_slots
      /\ b \in Nat /\ b + TotalEmbeds(S) + TotalEmbeds(Inputs) <= ComputeBudget
      /\ \A h \in Gathers(c) : h \in S \/ r \in em.refs[h]
  <2>1. /\ cur \in Trial /\ cur.req \notin Scheduled
        /\ computed[cur.req] + cur.n <= PromptLen[cur.req]
        /\ cur.inputs \subseteq Hashes(cur.req) \ em.cached
        /\ IsFiniteSet(cur.inputs) /\ TotalEmbeds(cur.inputs) <= em.num_free_slots
        /\ cur.budget + TotalEmbeds(cur.inputs) + TotalEmbeds(Inputs) <= ComputeBudget
        /\ \A h \in Gathers(cur) : h \in cur.inputs \/ cur.req \in em.refs[h]
    BY <1>2 DEF IInv, CurSound
  <2>2. /\ c \in Entry /\ r \in Request /\ b \in Nat
        /\ c.req = cur.req /\ c.n = cur.n
    BY <1>1, <2>1 DEF Trial, Entry
  <2>3. Gathers(c) = Gathers(cur)
    BY ONLY <2>2 DEF Gathers
  <2> QED
    BY <1>1, <2>1, <2>2, <2>3
<1>4. Sound(em) /\ S \subseteq MmHash /\ budget \in Nat /\ TotalEmbeds(S) \in Nat
  BY <1>3, ItemFacts, SlotsFinite DEF IInv, Types
<1>5. /\ Sound(em') /\ em'.cached = em.cached \cup S /\ em'.freed = em.freed
      /\ \A h \in MmHash : em'.refs[h] = IF h \in S THEN em.refs[h] \cup {r} ELSE em.refs[h]
  <2>1. PICK m : m = em
    OBVIOUS
  <2>2. /\ Sound(m) /\ r \in Request /\ S \subseteq Hashes(r) \ m.cached
        /\ IsFiniteSet(S) /\ TotalEmbeds(S) <= m.num_free_slots
    BY <1>3, <1>4, <2>1
  <2>3. LET n == allocate(m, r, S)
        IN  /\ Sound(n) /\ n.cached = m.cached \cup S /\ n.freed = m.freed
            /\ \A h \in MmHash : n.refs[h] = IF h \in S THEN m.refs[h] \cup {r} ELSE m.refs[h]
    BY ONLY <2>2, AllocateFacts
  <2> QED
    BY ONLY <1>2, <2>1, <2>3
<1>6. budget' \in Nat
  BY <1>2, <1>3, <1>4
<1>7. Types'
  <2>1. IsFiniteSet(batch')
    BY <1>2, FS_AddElement DEF IInv, Types
  <2> QED
    BY <1>2, <1>3, <1>5, <1>6, <2>1 DEF IInv, Types
<1>8. Inputs' = Inputs \cup S
  BY <1>1, <1>2 DEF Inputs
<1>9. BatchSound'
  <2>1. \A e \in batch' : e.req \in Request => Gathers(e)' = Gathers(e)
    BY <1>2, GathersSame
  <2>2. ASSUME NEW e \in batch
        PROVE  /\ e.req \in running' /\ computed'[e.req] + e.n <= PromptLen[e.req]
               /\ \A h \in e.inputs \cup Gathers(e)' : e.req \in em'.refs[h]
    <3>1. /\ e.req \in Request /\ e.inputs \cup Gathers(e) \subseteq MmHash
      BY <1>4, BatchFacts, SoundFacts
    <3>2. /\ e.req \in running /\ computed[e.req] + e.n <= PromptLen[e.req]
          /\ \A h \in e.inputs \cup Gathers(e) : e.req \in em.refs[h]
      BY DEF IInv, BatchSound
    <3> QED
      BY <1>2, <1>5, <2>1, <3>1, <3>2
  <2>3. /\ r \in running' /\ computed'[r] + c.n <= PromptLen[r]
        /\ \A h \in S \cup Gathers(c)' : r \in em'.refs[h]
    <3>1. Gathers(c) \subseteq MmHash
      BY <1>1, <1>3, ItemFacts DEF Gathers
    <3>2. Gathers(c)' = Gathers(c)
      BY <1>1, <1>2, <1>3, GathersSame
    <3>3. r \in running' /\ computed'[r] + c.n <= PromptLen[r]
      BY <1>2, <1>3
    <3>4. ASSUME NEW h \in S \cup Gathers(c) PROVE r \in em'.refs[h]
      <4>1. h \in MmHash /\ (h \in S \/ r \in em.refs[h])
        BY <1>3, <1>4, <3>1
      <4> QED
        BY ONLY <1>5, <4>1
    <3> QED
      BY <3>2, <3>3, <3>4
  <2>4. ASSUME NEW e \in batch'
        PROVE  /\ e.req \in running' /\ computed'[e.req] + e.n <= PromptLen[e.req]
               /\ \A h \in e.inputs \cup Gathers(e)' : e.req \in em'.refs[h]
    <3>1. CASE e \in batch
      BY <2>2, <3>1
    <3>2. CASE e = c
      <4>1. e.req = r /\ e.inputs = S
        BY <1>1, <3>2
      <4>2. Gathers(e)' = Gathers(c)'
        BY <1>1, <1>2, <1>3, <3>2, <4>1, GathersSame
      <4> QED
        BY <2>3, <3>2, <4>1, <4>2
    <3> QED
      BY <1>2, <3>1, <3>2
  <2>5. ASSUME NEW e \in batch', NEW f \in batch', e # f
        PROVE  e.req # f.req /\ e.inputs \cap f.inputs = {}
    <3>1. \A g \in batch : g.req # r /\ g.inputs \cap S = {}
      BY <1>3, BatchFacts DEF Scheduled
    <3>2. CASE e \in batch /\ f \in batch
      BY <2>5, <3>2 DEF IInv, BatchSound
    <3>3. CASE e = c \/ f = c
      BY <1>1, <1>2, <2>5, <3>1, <3>3
    <3> QED
      BY <1>2, <3>2, <3>3
  <2>6. budget' + TotalEmbeds(Inputs') <= ComputeBudget
    <3>1. Inputs \cap S = {} /\ IsFiniteSet(Inputs) /\ TotalEmbeds(Inputs) \in Nat
      BY <1>3, BatchFacts
    <3>2. TotalEmbeds(Inputs') = TotalEmbeds(Inputs) + TotalEmbeds(S)
      BY <1>3, <1>8, <3>1, TotalUnion
    <3>3. budget + TotalEmbeds(Inputs) <= ComputeBudget /\ ComputeBudget \in Nat
      BY BatchFacts DEF IInv, BatchSound
    <3>4. CASE S = {}
      <4>1. TotalEmbeds(S) = 0
        BY <3>4, TotalOne
      <4> QED
        BY <1>2, <1>4, <3>1, <3>2, <3>3, <3>4, <4>1
    <3>5. CASE S # {}
      BY <1>2, <1>3, <1>4, <3>1, <3>2, <3>3, <3>5
    <3> QED
      BY <3>4, <3>5
  <2> QED
    BY <1>2, <2>4, <2>5, <2>6 DEF BatchSound
<1>10. CurSound'
  BY <1>2 DEF CurSound, NoCur
<1>11. OnlyRunningRefer'
  <2>1. \A h \in MmHash : em.refs[h] \subseteq running \cup {r}
    BY <1>1 DEF IInv, OnlyRunningRefer
  <2>2. \A h \in MmHash : em'.refs[h] \subseteq running'
    BY ONLY <1>2, <1>5, <2>1
  <2> QED
    BY <2>2 DEF OnlyRunningRefer
<1>12. Mirror => Mirror'
  BY <1>2, <1>5, <1>8 DEF Mirror
<1> QED
  BY <1>7, <1>9, <1>10, <1>11, <1>12 DEF IInv

\* A refused request refers to nothing any more.
LEMMA RefuseWaitingInv ==
    ASSUME IInv, RefuseWaiting
    PROVE  IInv' /\ (Mirror => Mirror')
<1>1. PICK r : r = cur.req
  OBVIOUS
<1>2. /\ pc = "place" /\ em' = free(em, r)
      /\ running' = running /\ batch' = batch /\ budget' = budget
      /\ cur' = NoCur /\ pc' = "end" /\ computed' = [computed EXCEPT ![r] = 0]
      /\ worker' = worker /\ gathered' = gathered
  BY <1>1 DEF RefuseWaiting
<1>3. r \in Request /\ r \notin Scheduled /\ Sound(em) /\ computed \in [Request -> Nat]
  BY <1>1, <1>2 DEF IInv, CurSound, Trial, Types
<1>4. /\ Sound(em') /\ em'.cached = em.cached /\ em'.freed = em.freed
      /\ \A h \in MmHash : em'.refs[h] = em.refs[h] \ {r}
  BY <1>2, <1>3, FreeFacts
<1>5. /\ computed' \in [Request -> Nat] /\ computed'[r] = 0
      /\ \A q \in Request : q # r => computed'[q] = computed[q]
  BY <1>2, <1>3
<1>6. Types'
  <2>1. PromptLen[r] \in Nat
    BY <1>3, EncoderSchedulingAssumption
  <2> QED
    BY <1>2, <1>4, <1>5, <2>1 DEF IInv, Types
<1>7. BatchSound'
  <2>1. ASSUME NEW e \in batch
        PROVE  /\ computed'[e.req] + e.n <= PromptLen[e.req]
               /\ \A h \in e.inputs \cup Gathers(e)' : e.req \in em'.refs[h]
    <3>1. e.req \in Request /\ e.req # r /\ e.inputs \cup Gathers(e) \subseteq MmHash
      BY <1>3, BatchFacts, SoundFacts DEF Scheduled
    <3>2. Gathers(e)' = Gathers(e) /\ computed'[e.req] = computed[e.req]
      BY <1>5, <3>1, GathersSame
    <3>3. /\ computed[e.req] + e.n <= PromptLen[e.req]
          /\ \A h \in e.inputs \cup Gathers(e) : e.req \in em.refs[h]
      BY DEF IInv, BatchSound
    <3> QED
      BY <1>4, <3>1, <3>2, <3>3
  <2> QED
    BY <1>2, <2>1 DEF IInv, BatchSound, Inputs
<1>8. CurSound'
  BY <1>2 DEF CurSound, NoCur
<1>9. OnlyRunningRefer'
  BY <1>1, <1>2, <1>4 DEF IInv, OnlyRunningRefer
<1>10. Mirror => Mirror'
  <2>1. Inputs' = Inputs
    BY <1>2 DEF Inputs
  <2> QED
    BY <1>2, <1>4, <2>1 DEF Mirror
<1> QED
  BY <1>6, <1>7, <1>8, <1>9, <1>10 DEF IInv

\* A preempted request leaves the batch and refers to nothing any more.
LEMMA PreemptInv ==
    ASSUME IInv, NEW v \in Request, Preempt(v)
    PROVE  IInv' /\ (~PriorityPolicy /\ Mirror => Mirror')
<1> DEFINE mine == {e \in batch : e.req = v}
           Mine == UNION {e.inputs : e \in mine}
<1>1. /\ pc = "place" /\ cur.req \in running /\ v \in running
      /\ v \in Scheduled => PriorityPolicy
      /\ em' = free(em, v) /\ running' = running \ {v}
      /\ computed' = [computed EXCEPT ![v] = 0]
      /\ batch' = batch \ mine /\ budget' = budget + TotalEmbeds(Mine)
      /\ IF v = cur.req THEN cur' = NoCur /\ pc' = "end" ELSE cur' = cur /\ pc' = pc
      /\ worker' = worker /\ gathered' = gathered
  BY DEF Preempt
<1>2. Sound(em) /\ computed \in [Request -> Nat] /\ budget \in Nat
  BY DEF IInv, Types
<1>3. /\ Sound(em') /\ em'.cached = em.cached /\ em'.freed = em.freed
      /\ em'.num_free_slots = em.num_free_slots
      /\ \A h \in MmHash : em'.refs[h] = em.refs[h] \ {v}
  BY <1>1, <1>2, FreeFacts
<1>4. /\ computed' \in [Request -> Nat] /\ computed'[v] = 0
      /\ \A q \in Request : q # v => computed'[q] = computed[q]
  BY <1>1, <1>2
<1>5. Inputs = Inputs' \cup Mine /\ Inputs' \cap Mine = {}
  <2>1. \A e, f \in batch : e # f => e.inputs \cap f.inputs = {}
    BY DEF IInv, BatchSound
  <2>2. Inputs' = UNION {e.inputs : e \in batch \ mine}
    BY <1>1 DEF Inputs
  <2> QED
    BY <2>1, <2>2 DEF Inputs
<1>6. /\ IsFiniteSet(Inputs') /\ IsFiniteSet(Mine)
      /\ TotalEmbeds(Inputs) = TotalEmbeds(Inputs') + TotalEmbeds(Mine)
      /\ TotalEmbeds(Inputs') \in Nat /\ TotalEmbeds(Mine) \in Nat
  <2>1. IsFiniteSet(Inputs') /\ IsFiniteSet(Mine)
    <3>1. Inputs' \in SUBSET Inputs /\ Mine \in SUBSET Inputs /\ IsFiniteSet(Inputs)
      BY <1>5, BatchFacts
    <3> HIDE DEF Mine
    <3> QED
      BY <3>1, FS_Subset
  <2> HIDE DEF Mine
  <2>2. TotalEmbeds(Inputs' \cup Mine) = TotalEmbeds(Inputs') + TotalEmbeds(Mine)
    BY <1>5, <2>1, TotalUnion
  <2> QED
    BY <1>5, <2>1, <2>2, SlotsFinite
<1> HIDE DEF Mine
<1>7. budget' \in Nat /\ TotalEmbeds(Inputs') <= TotalEmbeds(Inputs)
      /\ budget' + TotalEmbeds(Inputs') <= ComputeBudget
  <2>1. budget + TotalEmbeds(Inputs) <= ComputeBudget /\ ComputeBudget \in Nat
    BY BatchFacts DEF IInv, BatchSound
  <2> QED
    BY <1>1, <1>2, <1>6, <2>1
<1>8. Types'
  <2>1. PromptLen[v] \in Nat
    BY EncoderSchedulingAssumption
  <2>2. batch' \subseteq Entry /\ IsFiniteSet(batch')
    <3>1. batch \subseteq Entry /\ IsFiniteSet(batch)
      BY DEF IInv, Types
    <3> QED
      BY <1>1, <3>1, FS_Subset
  <2>3. pc' \in {"running", "waiting", "place", "end"} /\ running' \subseteq Request
    BY <1>1 DEF IInv, Types
  <2>4. \A q \in Request : computed'[q] <= PromptLen[q]
    BY <1>4, <2>1 DEF IInv, Types
  <2> QED
    BY <1>3, <1>4, <1>7, <2>2, <2>3, <2>4 DEF Types
<1>9. BatchSound'
  <2>1. ASSUME NEW e \in batch'
        PROVE  /\ e.req \in running' /\ computed'[e.req] + e.n <= PromptLen[e.req]
               /\ \A h \in e.inputs \cup Gathers(e)' : e.req \in em'.refs[h]
    <3>0. e \in batch /\ e.req # v
      BY <1>1
    <3>1. e.req \in Request /\ e.inputs \cup Gathers(e) \subseteq MmHash
      BY <1>2, <3>0, BatchFacts, SoundFacts
    <3>2. Gathers(e)' = Gathers(e) /\ computed'[e.req] = computed[e.req]
      BY <1>4, <3>0, <3>1, GathersSame
    <3>3. /\ e.req \in running /\ computed[e.req] + e.n <= PromptLen[e.req]
          /\ \A h \in e.inputs \cup Gathers(e) : e.req \in em.refs[h]
      BY <3>0 DEF IInv, BatchSound
    <3> QED
      BY <1>1, <1>3, <3>0, <3>1, <3>2, <3>3
  <2>2. \A e, f \in batch' : e # f => e.req # f.req /\ e.inputs \cap f.inputs = {}
    BY <1>1 DEF IInv, BatchSound
  <2>3. pc' # "idle"
    BY <1>1
  <2> QED
    BY <1>7, <2>1, <2>2, <2>3 DEF BatchSound
<1>10. CurSound'
  <2>1. CASE v = cur.req
    BY <1>1, <2>1 DEF CurSound, NoCur
  <2>2. CASE v # cur.req
    <3>1. /\ cur \in Trial /\ cur.req \in Request /\ cur.req \notin Scheduled
          /\ computed[cur.req] + cur.n <= PromptLen[cur.req]
          /\ cur.inputs \subseteq Hashes(cur.req) \ em.cached
          /\ IsFiniteSet(cur.inputs)
          /\ TotalEmbeds(cur.inputs) <= em.num_free_slots
          /\ cur.budget + TotalEmbeds(cur.inputs) + TotalEmbeds(Inputs) <= ComputeBudget
          /\ \A h \in Gathers(cur) : h \in cur.inputs \/ cur.req \in em.refs[h]
      BY <1>1 DEF IInv, CurSound, Trial
    <3>2. cur' = cur /\ pc' = "place" /\ computed'[cur.req] = computed[cur.req]
      BY <1>1, <1>4, <2>2, <3>1
    <3>3. Gathers(cur)' = Gathers(cur) /\ Gathers(cur) \subseteq MmHash
      BY <3>1, <3>2, ItemFacts DEF Gathers
    <3>4. cur.req \notin Scheduled'
      BY <1>1, <3>1 DEF Scheduled
    <3>5. cur.budget + TotalEmbeds(cur.inputs) + TotalEmbeds(Inputs') <= ComputeBudget
      <4>1. /\ TotalEmbeds(cur.inputs) \in Nat /\ TotalEmbeds(Inputs) \in Nat
            /\ cur.budget \in Nat /\ ComputeBudget \in Nat
        BY <3>1, SlotsFinite, BatchFacts DEF Trial
      <4> QED
        BY <1>6, <1>7, <3>1, <4>1
    <3>6. \A h \in Gathers(cur)' : h \in cur.inputs \/ cur.req \in em'.refs[h]
      BY <1>3, <2>2, <3>1, <3>3
    <3> QED
      BY <1>3, <3>1, <3>2, <3>4, <3>5, <3>6 DEF CurSound
  <2> QED
    BY <2>1, <2>2
<1>11. OnlyRunningRefer'
  <2>1. \A h \in MmHash : em.refs[h] \subseteq running
    BY <1>1 DEF IInv, OnlyRunningRefer
  <2> QED
    BY <1>1, <1>3, <2>1 DEF OnlyRunningRefer
<1>12. ASSUME ~PriorityPolicy, Mirror PROVE Mirror'
  <2>1. mine = {}
    BY <1>1, <1>12 DEF Scheduled
  <2>2. Inputs' = Inputs
    BY <1>1, <2>1 DEF Inputs
  <2> QED
    BY <1>1, <1>3, <1>12, <2>2 DEF Mirror
<1> QED
  BY <1>8, <1>9, <1>10, <1>11, <1>12 DEF IInv

\* The batch goes out: the workers then hold what the manager believes cached.
LEMMA SubmitInv ==
    ASSUME IInv, Submit
    PROVE  IInv' /\ (Mirror => Mirror')
<1>1. /\ pc # "place" /\ computed' = Counts
      /\ worker' = (worker \ em.freed) \cup Inputs
      /\ gathered' = UNION {Gathers(e) : e \in batch}
      /\ batch' = {} /\ budget' = ComputeBudget /\ pc' = "idle"
      /\ running' = running /\ cur' = cur
  BY DEF Submit, WorkerOutputs, Inputs
<1>2. PICK order \in SetToSeqs(batch) : em' = [FreeComputed(order, Counts) EXCEPT !.freed = {}]
  BY DEF Submit
<1>3. Sound(em) /\ computed \in [Request -> Nat] /\ IsFiniteSet(batch) /\ cur = NoCur
  BY <1>1 DEF IInv, Types, CurSound
<1>4. /\ Len(order) \in Nat
      /\ \A k \in 1 .. Len(order) : order[k].req \in Request
  <2>1. /\ order \in [1 .. Cardinality(batch) -> batch] /\ Cardinality(batch) \in Nat
    BY <1>2, <1>3, FS_CardinalityType DEF SetToSeqs
  <2>2. Len(order) = Cardinality(batch)
    BY <2>1
  <2> QED
    BY <2>1, <2>2, BatchFacts
<1>5. PICK m : m = FreeComputed(order, Counts)
  OBVIOUS
<1>6. /\ Sound(m) /\ m.cached = em.cached
      /\ \A h \in MmHash : m.refs[h] \subseteq em.refs[h]
  BY <1>3, <1>4, <1>5, FreeComputedFacts
<1>7. /\ Sound(em') /\ em'.cached = em.cached /\ em'.freed = {}
      /\ \A h \in MmHash : em'.refs[h] \subseteq em.refs[h]
  <2>1. PICK p : p = em'
    OBVIOUS
  <2>2. p = [m EXCEPT !.freed = {}] /\ m \in EncoderManager
    BY <1>2, <1>5, <1>6, <2>1 DEF Sound
  <2>3. /\ p \in EncoderManager /\ p.cached = m.cached /\ p.refs = m.refs
        /\ p.freeable = m.freeable /\ p.freed = {}
        /\ p.num_free_slots = m.num_free_slots
        /\ p.num_freeable_slots = m.num_freeable_slots
    BY <2>2 DEF EncoderManager
  <2>4. Sound(p)
    BY <1>6, <2>3 DEF Sound
  <2> QED
    BY <1>6, <2>1, <2>3, <2>4
<1>8. computed' \in [Request -> Nat] /\ \A r \in Request : computed'[r] <= PromptLen[r]
  <2>1. ASSUME NEW r \in Request PROVE Counts[r] \in Nat /\ Counts[r] <= PromptLen[r]
    <3>1. CASE r \in Scheduled
      <4>1. PICK e : e = CHOOSE x \in batch : x.req = r
        OBVIOUS
      <4>2. e \in batch /\ e.req = r
        BY <3>1, <4>1 DEF Scheduled
      <4>3. e.n \in Nat /\ computed[r] + e.n <= PromptLen[r]
        BY <4>2 DEF IInv, Types, BatchSound, Entry
      <4>4. Counts[r] = computed[r] + e.n
        BY <3>1, <4>1 DEF Counts
      <4> QED
        BY <1>3, <4>3, <4>4
    <3>2. CASE r \notin Scheduled
      BY <1>3, <3>2 DEF IInv, Types, Counts
    <3> QED
      BY <3>1, <3>2
  <2>2. Counts \in [Request -> Nat]
    <3>1. Counts = [r \in Request |-> Counts[r]]
      BY DEF Counts
    <3> HIDE DEF Counts
    <3> QED
      BY <2>1, <3>1
  <2> QED
    BY <1>1, <2>1, <2>2
<1>9. ComputeBudget \in Nat /\ IsFiniteSet({}) /\ TotalEmbeds({}) = 0 /\ Inputs' = {}
  BY <1>1, EncoderSchedulingAssumption, FS_EmptySet, TotalOne DEF Inputs
<1>10. Types'
  BY <1>1, <1>7, <1>8, <1>9 DEF IInv, Types
<1>11. BatchSound'
  BY <1>1, <1>9 DEF BatchSound
<1>12. CurSound'
  BY <1>1, <1>3 DEF CurSound
<1>13. OnlyRunningRefer'
  BY <1>1, <1>7 DEF IInv, OnlyRunningRefer
<1>14. ASSUME Mirror PROVE Mirror'
  <2>1. /\ Inputs \subseteq em.cached
        /\ \A e \in batch : Gathers(e) \subseteq em.cached
    BY BatchFacts
  <2>2. /\ worker \cup Inputs = em.cached \cup em.freed
        /\ em.cached \cap em.freed \subseteq Inputs
    BY <1>14 DEF Mirror
  <2>3. worker' = em.cached
    BY <1>1, <2>1, <2>2
  <2>4. gathered' \subseteq em.cached
    BY <1>1, <2>1
  <2> QED
    BY <1>7, <1>9, <2>3, <2>4 DEF Mirror
<1> QED
  BY <1>10, <1>11, <1>12, <1>13, <1>14 DEF IInv

\* A request that finishes refers to nothing any more.
LEMMA FinishInv ==
    ASSUME IInv, NEW r \in Request, Finish(r)
    PROVE  IInv' /\ (Mirror => Mirror')
<1>1. /\ pc = "idle" /\ em' = free(em, r) /\ running' = running \ {r}
      /\ computed' = [computed EXCEPT ![r] = 0]
      /\ pc' = pc /\ budget' = budget /\ batch' = batch /\ cur' = cur
      /\ worker' = worker /\ gathered' = gathered
  BY DEF Finish
<1>2. Sound(em) /\ computed \in [Request -> Nat] /\ batch = {} /\ cur = NoCur
  BY <1>1 DEF IInv, Types, BatchSound, CurSound
<1>3. /\ Sound(em') /\ em'.cached = em.cached /\ em'.freed = em.freed
      /\ \A h \in MmHash : em'.refs[h] = em.refs[h] \ {r}
  BY <1>1, <1>2, FreeFacts
<1>4. /\ computed' \in [Request -> Nat] /\ \A q \in Request : computed'[q] <= PromptLen[q]
  <2>1. PromptLen[r] \in Nat
    BY EncoderSchedulingAssumption
  <2> QED
    BY <1>1, <1>2, <2>1 DEF IInv, Types
<1>5. Inputs' = Inputs
  BY <1>1 DEF Inputs
<1>6. Types'
  BY <1>1, <1>3, <1>4 DEF IInv, Types
<1>7. BatchSound'
  BY <1>1, <1>2, <1>5 DEF IInv, BatchSound
<1>8. CurSound'
  BY <1>1, <1>2 DEF CurSound
<1>9. OnlyRunningRefer'
  <2>1. \A h \in MmHash : em.refs[h] \subseteq running \cup {cur.req}
    BY DEF IInv, OnlyRunningRefer
  <2> QED
    BY <1>1, <1>3, <2>1 DEF OnlyRunningRefer
<1>10. Mirror => Mirror'
  BY <1>1, <1>3, <1>5 DEF Mirror
<1> QED
  BY <1>6, <1>7, <1>8, <1>9, <1>10 DEF IInv

\* Both caches are cleared.
LEMMA ResetInv ==
    ASSUME IInv, reset_encoder_cache
    PROVE  IInv' /\ (Mirror => Mirror')
<1>1. /\ pc = "idle" /\ em' = EmptyEncoderCache /\ worker' = {} /\ gathered' = {}
      /\ running' = running /\ computed' = computed /\ pc' = pc /\ budget' = budget
      /\ batch' = batch /\ cur' = cur
  BY DEF reset_encoder_cache
<1>2. batch = {} /\ cur = NoCur
  BY <1>1 DEF IInv, BatchSound, CurSound
<1>3. /\ Sound(em') /\ em'.cached = {} /\ em'.freed = {}
      /\ \A h \in MmHash : em'.refs[h] = {}
  BY <1>1, EmptySound
<1>4. Inputs' = Inputs /\ Inputs' = {}
  BY <1>1, <1>2 DEF Inputs
<1>5. Types'
  BY <1>1, <1>3 DEF IInv, Types
<1>6. BatchSound'
  BY <1>1, <1>2, <1>4 DEF IInv, BatchSound
<1>7. CurSound' /\ OnlyRunningRefer'
  BY <1>1, <1>2, <1>3 DEF CurSound, OnlyRunningRefer
<1>8. Mirror'
  BY <1>1, <1>3, <1>4 DEF Mirror
<1> QED
  BY <1>5, <1>6, <1>7, <1>8 DEF IInv

-----------------------------------------------------------------------------
(* The theorems.                                                              *)

\* The invariants hold at the start.
LEMMA InitInv ==
    ASSUME Init
    PROVE  IInv /\ Mirror
<1>1. /\ Sound(em) /\ em.cached = {} /\ em.freed = {} /\ \A h \in MmHash : em.refs[h] = {}
  BY EmptySound DEF Init
<1>2. /\ running = {} /\ computed = [r \in Request |-> 0] /\ pc = "idle"
      /\ budget = ComputeBudget /\ batch = {} /\ cur = NoCur /\ worker = {} /\ gathered = {}
  BY DEF Init
<1>3. Inputs = {} /\ TotalEmbeds({}) = 0 /\ IsFiniteSet({})
  BY <1>2, TotalOne, FS_EmptySet DEF Inputs
<1>4. ComputeBudget \in Nat /\ \A r \in Request : PromptLen[r] \in Nat
  BY EncoderSchedulingAssumption
<1>5. Types
  BY <1>1, <1>2, <1>3, <1>4 DEF Types
<1>6. BatchSound /\ CurSound /\ OnlyRunningRefer
  BY <1>1, <1>2, <1>3, <1>4 DEF BatchSound, CurSound, OnlyRunningRefer
<1>7. Mirror
  BY <1>1, <1>2, <1>3 DEF Mirror
<1> QED
  BY <1>5, <1>6, <1>7 DEF IInv

\* Every step preserves them, the second unless scheduled requests may be preempted.
LEMMA NextInv ==
    ASSUME IInv, [Next]_vars
    PROVE  IInv' /\ (~PriorityPolicy /\ Mirror => Mirror')
<1>1. ASSUME NEW r \in Request, NEW n \in 1 .. MaxChunk, VisitRunning(r, n)
      PROVE  IInv' /\ (Mirror => Mirror')
  <2>1. pc # "place" /\ Visit(r, computed[r], n) /\ computed[r] \in Nat
    BY <1>1 DEF VisitRunning, IInv, Types
  <2> QED
    BY <2>1, VisitInv
<1>2. ASSUME NEW r \in Request, NEW n \in 1 .. MaxChunk, NEW hit \in 0 .. (PromptLen[r] - 1),
             VisitWaiting(r, hit, n)
      PROVE  IInv' /\ (Mirror => Mirror')
  <2>1. pc # "place" /\ Visit(r, hit, n) /\ hit \in Nat
    BY <1>2 DEF VisitWaiting
  <2> QED
    BY <2>1, VisitInv
<1>3. ASSUME UNCHANGED vars PROVE IInv' /\ (Mirror => Mirror')
  <2>1. Inputs' = Inputs /\ Scheduled' = Scheduled
    BY <1>3 DEF vars, Inputs, Scheduled
  <2>2. \A e : Gathers(e)' = Gathers(e)
    BY <1>3 DEF vars, Gathers
  <2>3. Types' /\ OnlyRunningRefer'
    BY <1>3 DEF vars, IInv, Types, OnlyRunningRefer
  <2>4. BatchSound'
    BY <1>3, <2>1, <2>2 DEF vars, IInv, BatchSound
  <2>5. CurSound'
    BY <1>3, <2>1, <2>2 DEF vars, IInv, CurSound
  <2> QED
    BY <1>3, <2>1, <2>3, <2>4, <2>5 DEF vars, IInv, Mirror
<1> QED
  BY <1>1, <1>2, <1>3, PlaceInv, RefuseWaitingInv, PreemptInv, SubmitInv, FinishInv, ResetInv
     DEF Next

\* The slot counters, the list of unreferenced entries and the references of the encoder
\* cache (encoder_cache_manager.py) are exact in every state, under both policies.
THEOREM ReferencesExactHolds == Spec => []ReferencesExact
<1>1. IInv => ReferencesExact
  <2> SUFFICES ASSUME IInv PROVE ReferencesExact
    OBVIOUS
  <2>1. TypeOK
    <3>1. /\ em.cached \subseteq MmHash /\ em.freed \subseteq MmHash
          /\ em.refs \in [MmHash -> SUBSET Request] /\ em.freeable \in Seq(MmHash)
          /\ em.num_free_slots \in 0 .. CacheSize /\ em.num_freeable_slots \in 0 .. CacheSize
      BY SoundFacts DEF IInv, Types
    <3>2. running \subseteq Request /\ \A r \in Request : computed[r] \in 0 .. PromptLen[r]
      BY EncoderSchedulingAssumption DEF IInv, Types
    <3>3. budget \in 0 .. ComputeBudget
      BY BatchFacts DEF IInv, Types
    <3> QED
      BY <3>1, <3>2, <3>3 DEF TypeOK
  <2>2. SlotsExact
    BY DEF IInv, Types, Sound, SlotsExact
  <2> QED
    BY <2>1, <2>2 DEF ReferencesExact, IInv
<1>2. Init => IInv
  BY InitInv
<1>3. IInv /\ [Next]_vars => IInv'
  BY NextInv
<1> QED
  BY <1>1, <1>2, <1>3, PTL DEF Spec

\* When only requests that are not scheduled yet are preempted, both invariants hold in
\* every state.
LEMMA MirrorHolds ==
    ASSUME ~PriorityPolicy
    PROVE  Spec => [](IInv /\ Mirror)
<1>1. Init => IInv /\ Mirror
  BY InitInv
<1>2. IInv /\ Mirror /\ [Next]_vars => IInv' /\ Mirror'
  BY NextInv
<1> QED
  BY <1>1, <1>2, PTL DEF Spec

\* Under FCFS no batch reads an encoder output the workers lack: the assertion "Encoder
\* cache miss" (encoder_runner.py:122) cannot fail.
THEOREM NoEncoderCacheMissHolds ==
    ASSUME ~PriorityPolicy
    PROVE  Spec => []NoEncoderCacheMiss
<1>1. Spec => [](IInv /\ Mirror)
  BY MirrorHolds
<1>2. IInv /\ Mirror => NoEncoderCacheMiss
  BY DEF Mirror, NoEncoderCacheMiss
<1> QED
  BY <1>1, <1>2, PTL

\* Under FCFS the workers hold, between two steps, exactly the outputs the manager
\* believes cached or has yet to tell them it evicted.
THEOREM WorkersMirrorManagerHolds ==
    ASSUME ~PriorityPolicy
    PROVE  Spec => []WorkersMirrorManager
<1>1. Spec => [](IInv /\ Mirror)
  BY MirrorHolds
<1>2. IInv /\ Mirror => WorkersMirrorManager
  <2> SUFFICES ASSUME IInv, Mirror, pc = "idle" PROVE worker = em.cached \cup em.freed
    BY DEF WorkersMirrorManager
  <2>1. Inputs = {}
    BY DEF IInv, BatchSound, Inputs
  <2> QED
    BY <2>1 DEF Mirror
<1> QED
  BY <1>1, <1>2, PTL

=========================================================================
