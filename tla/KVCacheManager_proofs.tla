------------------------ MODULE KVCacheManager_proofs ------------------------
(* What the operations of BlockPool and KVCacheManager do to the free queue,   *)
(* the reference counts, the hashes, the hash map and the block tables, for    *)
(* any number of blocks and requests.                                          *)
EXTENDS KVCacheManager, FiniteSetTheorems, SequenceTheorems, WellFoundedInduction, TLAPS

-----------------------------------------------------------------------------
\* A nonempty set of natural numbers has a least element.
LEMMA LeastNat ==
    ASSUME NEW T, T \subseteq Nat, T # {}
    PROVE  \E x \in T : \A y \in T : x <= y
<1>1. IsWellFoundedOn(OpToRel(<, Nat), Nat)
  BY NatLessThanWellFounded
<1>2. \E x \in T : \A y \in T : ~(<<y, x>> \in OpToRel(<, Nat))
  BY <1>1, WFMin
<1>3. OpToRel(<, Nat) = {p \in Nat \X Nat : p[1] < p[2]}
  BY DEF OpToRel
<1>4. PICK x \in T : \A y \in T : ~(<<y, x>> \in {p \in Nat \X Nat : p[1] < p[2]})
  BY <1>2, <1>3, Zenon
<1>5. ASSUME NEW y \in T PROVE x <= y
  <2>1. <<y, x>> \notin {p \in Nat \X Nat : p[1] < p[2]}
    BY <1>4
  <2> QED
    BY <2>1
<1> QED
  BY <1>5

\* A nonempty bounded set of natural numbers has a greatest element.
LEMMA GreatestNat ==
    ASSUME NEW T, NEW n \in Nat, T \subseteq 0 .. n, T # {}
    PROVE  \E x \in T : \A y \in T : y <= x
<1> DEFINE D == {d \in 0 .. n : n - d \in T}
<1>1. PICK t : t \in T
  OBVIOUS
<1>2. n - t \in D /\ D \subseteq Nat
  BY <1>1
<1>3. PICK d \in D : \A e \in D : d <= e
  <2>1. D # {} /\ D \subseteq Nat
    BY <1>2
  <2> HIDE DEF D
  <2> QED
    BY <2>1, LeastNat
<1>4. ASSUME NEW y \in T PROVE y <= n - d
  <2>1. n - y \in D
    OBVIOUS
  <2>2. d <= n - y /\ d \in 0 .. n /\ y \in 0 .. n
    BY <1>3, <2>1
  <2> QED
    BY <2>2
<1> QED
  BY <1>3, <1>4

\* g satisfies the recursive definition that without(s, S) is made of.
Unfolds(g, s, S) ==
    /\ g[0] = <<>>
    /\ \A i \in 1 .. Len(s) :
          g[i] = IF s[i] \in S THEN g[i - 1] ELSE Append(g[i - 1], s[i])

\* That definition has a solution.
LEMMA WithoutStep ==
    ASSUME NEW s, NEW S, Len(s) \in Nat
    PROVE  \E g : without(s, S) = g[Len(s)] /\ Unfolds(g, s, S)
<1> DEFINE body(g, i) == IF i = 0 THEN <<>>
                         ELSE IF s[i] \in S THEN g[i - 1] ELSE Append(g[i - 1], s[i])
           Good(g, n) == g = [i \in 0 .. n |-> body(g, i)]
<1>1. \A n \in Nat : \E g : Good(g, n)
  <2> DEFINE T == {n \in Nat : ~ \E g : Good(g, n)}
  <2>1. SUFFICES ASSUME T # {} PROVE FALSE
    OBVIOUS
  <2>2. PICK n \in T : \A m \in T : n <= m
    BY <2>1, LeastNat
  <2>3. CASE n = 0
    <3> DEFINE h == [i \in 0 .. 0 |-> <<>>]
    <3>1. Good(h, 0)
      OBVIOUS
    <3> QED
      BY <2>3, <3>1
  <2>4. CASE n # 0
    <3>0. n \in Nat
      BY <2>2
    <3>1. n - 1 \in Nat /\ n - 1 \notin T
      <4> HIDE DEF T
      <4> QED
        BY <2>2, <2>4, <3>0
    <3>2. PICK g : Good(g, n - 1)
      BY <3>1
    <3> DEFINE h == [i \in 0 .. n |-> body(g, i)]
    <3>3. ASSUME NEW i \in 0 .. n PROVE h[i] = body(h, i)
      <4>1. CASE i = 0
        BY <4>1
      <4>2. CASE i # 0
        <5>1. i - 1 \in 0 .. (n - 1) /\ i - 1 \in 0 .. n
          BY <4>2, <2>2
        <5>2. g[i - 1] = body(g, i - 1) /\ h[i - 1] = body(g, i - 1)
          BY <3>2, <5>1
        <5> QED
          BY <5>2, <4>2
      <4> QED
        BY <4>1, <4>2
    <3>4. Good(h, n)
      BY <3>3
    <3> QED
      BY <3>4, <2>2
  <2> QED
    BY <2>3, <2>4
<1>2. PICK g : Good(g, Len(s))
  BY <1>1
<1> DEFINE f == CHOOSE x : Good(x, Len(s))
<1>3. Good(f, Len(s))
  BY <1>2
<1>4. without(s, S) = f[Len(s)]
  BY DEF without
<1>5. Unfolds(f, s, S)
  <2>1. \A i \in 0 .. Len(s) : f[i] = body(f, i)
    BY <1>3
  <2> HIDE DEF f
  <2> QED
    BY <2>1 DEF Unfolds
<1> QED
  BY <1>4, <1>5

\* t is what is left of the first n places of s: places[k] is the place of t[k].
Left(s, S, n, t, places) ==
    /\ places \in [1 .. Len(t) -> 1 .. n]
    /\ \A k \in 1 .. Len(t) : t[k] = s[places[k]] /\ s[places[k]] \notin S
    /\ \A k, l \in 1 .. Len(t) : k < l => places[k] < places[l]
    /\ \A i \in 1 .. n : s[i] \notin S => \E k \in 1 .. Len(t) : places[k] = i

\* without(s, S) is s without the places that hold elements of S, in order.
LEMMA WithoutPlaces ==
    ASSUME NEW B, NEW s \in Seq(B), NEW S
    PROVE  /\ without(s, S) \in Seq(B)
           /\ \E places : Left(s, S, Len(s), without(s, S), places)
<1>0. Len(s) \in Nat
  OBVIOUS
<1>1. PICK g : without(s, S) = g[Len(s)] /\ Unfolds(g, s, S)
  BY <1>0, WithoutStep
<1>2. /\ g[0] = <<>>
      /\ \A i \in 1 .. Len(s) :
            g[i] = IF s[i] \in S THEN g[i - 1] ELSE Append(g[i - 1], s[i])
  BY <1>1 DEF Unfolds
<1> DEFINE Good(n) == g[n] \in Seq(B) /\ \E places : Left(s, S, n, g[n], places)
           T == {n \in 0 .. Len(s) : ~Good(n)}
<1>3. SUFFICES ASSUME T # {} PROVE FALSE
  <2>1. Len(s) \in 0 .. Len(s)
    BY <1>0
  <2>2. Good(Len(s)) => /\ without(s, S) \in Seq(B)
                        /\ \E places : Left(s, S, Len(s), without(s, S), places)
    BY <1>1
  <2> HIDE DEF Good
  <2> QED
    BY <2>1, <2>2
<1>4. PICK n \in T : \A m \in T : n <= m
  <2>1. T \subseteq Nat
    BY <1>0
  <2> HIDE DEF T
  <2> QED
    BY <2>1, <1>3, LeastNat
<1>5. n \in 0 .. Len(s) /\ ~Good(n)
  BY <1>4
<1>6. n # 0
  <2> SUFFICES Good(0)
    BY <1>5
  <2>1. <<>> \in Seq(B) /\ Len(<<>>) = 0
    OBVIOUS
  <2>2. Left(s, S, 0, <<>>, <<>>)
    BY DEF Left
  <2> QED
    BY <1>2, <2>1, <2>2
<1>7. n - 1 \in 0 .. Len(s) /\ Good(n - 1) /\ n \in 1 .. Len(s) /\ n \in Nat
  <2>1. n - 1 \in 0 .. Len(s) /\ n \in 1 .. Len(s) /\ n \in Nat
    BY <1>0, <1>5, <1>6
  <2>2. n - 1 \notin T
    <3> HIDE DEF T
    <3> QED
      BY <1>4, <2>1
  <2> HIDE DEF Good
  <2> QED
    BY <2>1, <2>2
<1>8. PICK t : t = g[n - 1]
  OBVIOUS
<1>9. PICK p : Left(s, S, n - 1, t, p)
  BY <1>7, <1>8
<1>10. t \in Seq(B) /\ Len(t) \in Nat
  BY <1>7, <1>8
<1>11. CASE s[n] \in S
  <2>1. g[n] = t
    BY <1>2, <1>7, <1>8, <1>11
  <2>2. Left(s, S, n, t, p)
    <3>1. p \in [1 .. Len(t) -> 1 .. n]
      BY <1>7, <1>9 DEF Left
    <3>2. \A i \in 1 .. n : s[i] \notin S => i \in 1 .. (n - 1)
      BY <1>7, <1>11
    <3> QED
      BY <1>9, <3>1, <3>2 DEF Left
  <2> QED
    BY <1>5, <1>10, <2>1, <2>2
<1>12. CASE s[n] \notin S
  <2> DEFINE u == Append(t, s[n])
             q == [k \in 1 .. (Len(t) + 1) |-> IF k = Len(t) + 1 THEN n ELSE p[k]]
  <2>1. g[n] = u
    BY <1>2, <1>7, <1>8, <1>12
  <2>2. /\ u \in Seq(B) /\ Len(u) = Len(t) + 1 /\ u[Len(t) + 1] = s[n]
        /\ \A k \in 1 .. Len(t) : u[k] = t[k]
    BY <1>7, <1>10
  <2> HIDE DEF u
  <2>3. q \in [1 .. Len(u) -> 1 .. n]
    BY <1>7, <1>9, <1>10, <2>2 DEF Left
  <2>4. /\ \A k \in 1 .. Len(t) : k \in 1 .. Len(u) /\ q[k] = p[k]
        /\ q[Len(t) + 1] = n /\ Len(t) + 1 \in 1 .. Len(u)
        /\ \A k \in 1 .. Len(u) : k \in 1 .. Len(t) \/ k = Len(t) + 1
    BY <1>10, <2>2
  <2> HIDE DEF q
  <2>5. \A k \in 1 .. Len(u) : u[k] = s[q[k]] /\ s[q[k]] \notin S
    BY <1>9, <1>12, <2>2, <2>4 DEF Left
  <2>6. ASSUME NEW k \in 1 .. Len(u), NEW l \in 1 .. Len(u), k < l PROVE q[k] < q[l]
    <3>1. k \in 1 .. Len(t) /\ k \in Int /\ l \in Int
      BY <1>10, <2>2, <2>4, <2>6
    <3>2. p[k] \in 1 .. (n - 1)
      BY <3>1, <1>9 DEF Left
    <3>3. CASE l = Len(t) + 1
      BY <2>4, <3>1, <3>2, <3>3, <1>7
    <3>4. CASE l \in 1 .. Len(t)
      <4>1. p[k] < p[l]
        BY <1>9, <2>6, <3>1, <3>4 DEF Left
      <4> QED
        BY <2>4, <3>1, <3>4, <4>1
    <3> QED
      BY <2>4, <3>3, <3>4
  <2>7. ASSUME NEW i \in 1 .. n, s[i] \notin S PROVE \E k \in 1 .. Len(u) : q[k] = i
    <3>1. CASE i = n
      BY <2>4, <3>1
    <3>2. CASE i # n
      <4>1. i \in 1 .. (n - 1)
        BY <1>7, <3>2
      <4>2. \E k \in 1 .. Len(t) : p[k] = i
        BY <1>9, <2>7, <4>1 DEF Left
      <4> QED
        BY <2>4, <4>2
    <3> QED
      BY <3>1, <3>2
  <2>8. Left(s, S, n, u, q)
    BY <2>3, <2>5, <2>6, <2>7 DEF Left
  <2> QED
    BY <1>5, <2>1, <2>2, <2>8
<1> QED
  BY <1>11, <1>12

\* a stands before b in s.
Before(s, a, b) == \E i, j \in 1 .. Len(s) : i < j /\ s[i] = a /\ s[j] = b

\* The elements and the injectivity of a sequence, by places.
LEMMA SeqFacts ==
    ASSUME NEW B, NEW s \in Seq(B)
    PROVE  /\ Len(s) \in Nat
           /\ ToSet(s) \subseteq B
           /\ \A x : x \in ToSet(s) <=> \E i \in 1 .. Len(s) : s[i] = x
           /\ \A i \in 1 .. Len(s) : s[i] \in B /\ s[i] \in ToSet(s)
           /\ IsInjective(s) <=> \A i, j \in 1 .. Len(s) : s[i] = s[j] => i = j
BY DEF ToSet, IsInjective

\* What without() keeps: the elements outside S, their order, and that none is twice.
LEMMA WithoutFacts ==
    ASSUME NEW B, NEW s \in Seq(B), NEW S
    PROVE  /\ without(s, S) \in Seq(B)
           /\ ToSet(without(s, S)) = ToSet(s) \ S
           /\ IsInjective(s) => IsInjective(without(s, S))
           /\ \A a, b : a \notin S /\ b \notin S /\ Before(s, a, b) => Before(without(s, S), a, b)
<1>1. PICK w : w = without(s, S)
  OBVIOUS
<1>2. w \in Seq(B) /\ \E p : Left(s, S, Len(s), w, p)
  BY <1>1, WithoutPlaces
<1>3. PICK p : Left(s, S, Len(s), w, p)
  BY <1>2
<1>4. /\ p \in [1 .. Len(w) -> 1 .. Len(s)]
      /\ \A k \in 1 .. Len(w) : w[k] = s[p[k]] /\ s[p[k]] \notin S
      /\ \A k, l \in 1 .. Len(w) : k < l => p[k] < p[l]
      /\ \A i \in 1 .. Len(s) : s[i] \notin S => \E k \in 1 .. Len(w) : p[k] = i
  BY <1>3 DEF Left
<1>5. Len(w) \in Nat /\ Len(s) \in Nat
  BY <1>2
<1>6. \A k, l \in 1 .. Len(w) : p[k] = p[l] => k = l
  <2> SUFFICES ASSUME NEW k \in 1 .. Len(w), NEW l \in 1 .. Len(w), p[k] = p[l], k # l
               PROVE  FALSE
    OBVIOUS
  <2>1. k < l \/ l < k
    BY <1>5
  <2>2. p[k] \in 1 .. Len(s) /\ p[l] \in 1 .. Len(s)
    BY <1>4
  <2>3. p[k] < p[l] \/ p[l] < p[k]
    BY <1>4, <2>1
  <2> QED
    BY <1>5, <2>2, <2>3
<1>7. ToSet(w) = ToSet(s) \ S
  <2>1. ASSUME NEW x \in ToSet(w) PROVE x \in ToSet(s) \ S
    <3>1. PICK k \in 1 .. Len(w) : w[k] = x
      BY <1>2, SeqFacts
    <3>2. p[k] \in 1 .. Len(s) /\ s[p[k]] = x /\ x \notin S
      BY <1>4, <3>1
    <3> QED
      BY <3>2, SeqFacts
  <2>2. ASSUME NEW x \in ToSet(s) \ S PROVE x \in ToSet(w)
    <3>1. PICK i \in 1 .. Len(s) : s[i] = x
      BY SeqFacts
    <3>2. PICK k \in 1 .. Len(w) : p[k] = i
      BY <1>4, <3>1
    <3>3. w[k] = x
      BY <1>4, <3>1, <3>2
    <3> QED
      BY <1>2, <3>3, SeqFacts
  <2> QED
    BY <2>1, <2>2
<1>8. ASSUME IsInjective(s) PROVE IsInjective(w)
  <2>1. \A i, j \in 1 .. Len(s) : s[i] = s[j] => i = j
    BY <1>8, SeqFacts
  <2>2. \A k, l \in 1 .. Len(w) : w[k] = w[l] => k = l
    BY <1>4, <1>6, <2>1, SMTT(30)
  <2> QED
    BY <1>2, <2>2, SeqFacts
<1>9. ASSUME NEW a, NEW b, a \notin S, b \notin S, Before(s, a, b) PROVE Before(w, a, b)
  <2>1. PICK i \in 1 .. Len(s), j \in 1 .. Len(s) : i < j /\ s[i] = a /\ s[j] = b
    BY <1>9 DEF Before
  <2>2. PICK k \in 1 .. Len(w) : p[k] = i
    BY <1>4, <1>9, <2>1
  <2>3. PICK l \in 1 .. Len(w) : p[l] = j
    BY <1>4, <1>9, <2>1
  <2>4. k < l
    <3>1. l < k => p[l] < p[k]
      BY <1>4
    <3> QED
      BY <1>5, <2>1, <2>2, <2>3, <3>1
  <2>5. w[k] = a /\ w[l] = b
    BY <1>4, <2>1, <2>2, <2>3
  <2> QED
    BY <2>4, <2>5 DEF Before
<1> QED
  BY <1>1, <1>2, <1>7, <1>8, <1>9

\* A sequence without repetition has as many elements as places.
LEMMA InjectiveLen ==
    ASSUME NEW B, NEW s \in Seq(B), IsInjective(s)
    PROVE  IsFiniteSet(ToSet(s)) /\ Cardinality(ToSet(s)) = Len(s)
<1>1. Len(s) \in Nat
  OBVIOUS
<1>2. s \in Bijection(1 .. Len(s), ToSet(s))
  BY SeqFacts DEF Bijection, Injection, Surjection, ToSet, IsInjective
<1>3. ExistsBijection(1 .. Len(s), ToSet(s))
  BY <1>2 DEF ExistsBijection
<1>4. IsFiniteSet(1 .. Len(s))
  BY <1>1, FS_Interval
<1> QED
  BY <1>1, <1>3, <1>4, FS_Bijection, FS_CountingElements

\* At most one place is lost for each element of S.
LEMMA WithoutLen ==
    ASSUME NEW B, NEW s \in Seq(B), IsInjective(s), NEW S, IsFiniteSet(S)
    PROVE  Len(s) <= Len(without(s, S)) + Cardinality(S)
<1>1. PICK w : w = without(s, S)
  OBVIOUS
<1>2. w \in Seq(B) /\ IsInjective(w) /\ ToSet(w) = ToSet(s) \ S
  BY <1>1, WithoutFacts
<1>3. /\ IsFiniteSet(ToSet(s)) /\ Cardinality(ToSet(s)) = Len(s)
      /\ IsFiniteSet(ToSet(w)) /\ Cardinality(ToSet(w)) = Len(w)
  BY <1>2, InjectiveLen
<1>4. /\ IsFiniteSet(ToSet(w) \cup S)
      /\ Cardinality(ToSet(w) \cup S)
            = Cardinality(ToSet(w)) + Cardinality(S) - Cardinality(ToSet(w) \cap S)
  BY <1>3, FS_Union
<1>5. ToSet(s) \in SUBSET (ToSet(w) \cup S)
  BY <1>2
<1>6. Cardinality(ToSet(s)) <= Cardinality(ToSet(w) \cup S)
  BY <1>4, <1>5, FS_Subset
<1>7. Cardinality(ToSet(w) \cap S) \in Nat /\ Cardinality(S) \in Nat
  <2>1. IsFiniteSet(ToSet(w) \cap S)
    BY <1>3, FS_Intersection
  <2> QED
    BY <2>1, FS_CardinalityType
<1>8. Len(s) \in Nat /\ Len(w) \in Nat
  BY <1>2
<1> QED
  BY <1>1, <1>3, <1>4, <1>6, <1>7, <1>8

\* The first n elements of a sequence without repetition, and the rest.
LEMMA SplitFacts ==
    ASSUME NEW B, NEW s \in Seq(B), IsInjective(s), NEW n \in 0 .. Len(s)
    PROVE  LET first == SubSeq(s, 1, n)
               rest  == SubSeq(s, n + 1, Len(s))
           IN  /\ first \in Seq(B) /\ Len(first) = n /\ IsInjective(first)
               /\ rest \in Seq(B) /\ IsInjective(rest)
               /\ ToSet(first) \subseteq ToSet(s)
               /\ ToSet(rest) = ToSet(s) \ ToSet(first)
               /\ \A a, b : a \notin ToSet(first) /\ Before(s, a, b) =>
                     Before(rest, a, b) /\ b \notin ToSet(first)
<1> DEFINE first == SubSeq(s, 1, n)
           rest  == SubSeq(s, n + 1, Len(s))
<1>0. Len(s) \in Nat /\ n \in Nat /\ n <= Len(s)
  OBVIOUS
<1>1. /\ first \in Seq(B) /\ Len(first) = n
      /\ \A i \in 1 .. n : first[i] = s[i]
  BY <1>0
<1>2. /\ rest \in Seq(B) /\ Len(rest) = Len(s) - n
      /\ \A i \in 1 .. (Len(s) - n) : rest[i] = s[n + i]
  BY <1>0
<1> HIDE DEF first, rest
<1>3. \A i, j \in 1 .. Len(s) : s[i] = s[j] => i = j
  BY SeqFacts
<1>4. IsInjective(first)
  <2>1. \A i, j \in 1 .. Len(first) : first[i] = first[j] => i = j
    BY <1>0, <1>1, <1>3
  <2> QED
    BY <1>1, <2>1, SeqFacts
<1>5. IsInjective(rest)
  <2>1. ASSUME NEW i \in 1 .. Len(rest), NEW j \in 1 .. Len(rest), rest[i] = rest[j]
        PROVE  i = j
    <3>1. n + i \in 1 .. Len(s) /\ n + j \in 1 .. Len(s) /\ s[n + i] = s[n + j]
      BY <1>0, <1>2, <2>1
    <3>2. n + i = n + j
      BY <1>3, <3>1
    <3> QED
      BY <1>0, <3>2
  <2> QED
    BY <1>2, <2>1, SeqFacts
<1>6. ASSUME NEW x PROVE x \in ToSet(first) <=> \E i \in 1 .. n : s[i] = x
  <2>1. x \in ToSet(first) <=> \E i \in 1 .. Len(first) : first[i] = x
    BY <1>1, SeqFacts
  <2> QED
    BY <1>1, <2>1
<1>7. ASSUME NEW x PROVE x \in ToSet(rest) <=> \E i \in (n + 1) .. Len(s) : s[i] = x
  <2>1. x \in ToSet(rest) <=> \E i \in 1 .. Len(rest) : rest[i] = x
    BY <1>2, SeqFacts
  <2>2. ASSUME NEW i \in 1 .. Len(rest), rest[i] = x
        PROVE  \E j \in (n + 1) .. Len(s) : s[j] = x
    <3>1. n + i \in (n + 1) .. Len(s) /\ s[n + i] = x
      BY <1>0, <1>2, <2>2
    <3> QED
      BY <3>1
  <2>3. ASSUME NEW i \in (n + 1) .. Len(s), s[i] = x
        PROVE  \E j \in 1 .. Len(rest) : rest[j] = x
    <3>1. i - n \in 1 .. (Len(s) - n) /\ n + (i - n) = i
      BY <1>0
    <3>2. rest[i - n] = x
      BY <1>2, <2>3, <3>1
    <3> QED
      BY <1>2, <3>1, <3>2
  <2> QED
    BY <2>1, <2>2, <2>3
<1>8. ToSet(first) \subseteq ToSet(s)
  <2>1. \A i \in 1 .. n : i \in 1 .. Len(s)
    BY <1>0
  <2> QED
    BY <1>6, <2>1, SeqFacts
<1>9. ToSet(rest) = ToSet(s) \ ToSet(first)
  <2>1. ASSUME NEW x \in ToSet(rest) PROVE x \in ToSet(s) \ ToSet(first)
    <3>1. PICK i \in (n + 1) .. Len(s) : s[i] = x
      BY <1>7
    <3>2. i \in 1 .. Len(s)
      BY <1>0
    <3>3. ASSUME NEW j \in 1 .. n, s[j] = x PROVE FALSE
      <4>1. j \in 1 .. Len(s) /\ j # i
        BY <1>0
      <4> QED
        BY <1>3, <3>1, <3>2, <3>3, <4>1
    <3> QED
      BY <1>6, <3>1, <3>2, <3>3, SeqFacts
  <2>2. ASSUME NEW x \in ToSet(s) \ ToSet(first) PROVE x \in ToSet(rest)
    <3>1. PICK i \in 1 .. Len(s) : s[i] = x
      BY SeqFacts
    <3>2. i \notin 1 .. n
      BY <1>6, <3>1
    <3>3. i \in (n + 1) .. Len(s)
      BY <1>0, <3>2
    <3> QED
      BY <1>7, <3>1, <3>3
  <2> QED
    BY <2>1, <2>2
<1>10. ASSUME NEW a, NEW b, a \notin ToSet(first), Before(s, a, b)
       PROVE  Before(rest, a, b) /\ b \notin ToSet(first)
  <2>1. PICK i \in 1 .. Len(s), j \in 1 .. Len(s) : i < j /\ s[i] = a /\ s[j] = b
    BY <1>10 DEF Before
  <2>2. i \notin 1 .. n
    BY <1>6, <1>10, <2>1
  <2>3. /\ i - n \in 1 .. (Len(s) - n) /\ n + (i - n) = i
        /\ j - n \in 1 .. (Len(s) - n) /\ n + (j - n) = j
        /\ i - n < j - n
        /\ j \notin 1 .. n
    BY <1>0, <2>1, <2>2
  <2>4. rest[i - n] = a /\ rest[j - n] = b
    BY <1>2, <2>1, <2>3
  <2>5. Before(rest, a, b)
    BY <1>2, <2>3, <2>4 DEF Before
  <2>6. ASSUME NEW k \in 1 .. n, s[k] = b PROVE FALSE
    <3>1. k \in 1 .. Len(s)
      BY <1>0
    <3> QED
      BY <1>3, <2>1, <2>3, <2>6, <3>1
  <2> QED
    BY <1>6, <2>5, <2>6
<1> QED
  BY <1>1, <1>2, <1>4, <1>5, <1>8, <1>9, <1>10 DEF first, rest

\* What append_n() makes of two sequences.
LEMMA AppendFacts ==
    ASSUME NEW B, NEW s \in Seq(B), NEW t \in Seq(B)
    PROVE  /\ s \o t \in Seq(B)
           /\ ToSet(s \o t) = ToSet(s) \cup ToSet(t)
           /\ IsInjective(s) /\ IsInjective(t) /\ ToSet(s) \cap ToSet(t) = {} => IsInjective(s \o t)
           /\ \A a, b : Before(s, a, b) \/ Before(t, a, b) => Before(s \o t, a, b)
           /\ \A a \in ToSet(s), b \in ToSet(t) : Before(s \o t, a, b)
<1> DEFINE u == s \o t
           m == Len(s)
           n == Len(t)
<1>1. /\ u \in Seq(B) /\ Len(u) = m + n /\ m \in Nat /\ n \in Nat
      /\ \A i \in 1 .. m : u[i] = s[i]
      /\ \A i \in 1 .. n : u[m + i] = t[i]
  BY ConcatProperties
<1> HIDE DEF u
<1>2. /\ \A i \in 1 .. m : i \in 1 .. Len(u)
      /\ \A i \in 1 .. n : m + i \in 1 .. Len(u)
      /\ \A i \in 1 .. Len(u) : i \in 1 .. m \/ (i - m \in 1 .. n /\ m + (i - m) = i)
  BY <1>1
<1>3. ToSet(u) = ToSet(s) \cup ToSet(t)
  <2>1. ASSUME NEW x \in ToSet(u) PROVE x \in ToSet(s) \cup ToSet(t)
    <3>0. u \in Seq(B)
      BY <1>1
    <3>1. PICK i \in 1 .. Len(u) : u[i] = x
      BY <3>0, SeqFacts
    <3>2. CASE i \in 1 .. m
      BY <1>1, <3>1, <3>2, SeqFacts
    <3>3. CASE i - m \in 1 .. n /\ m + (i - m) = i
      <4>1. t[i - m] = x
        BY <1>1, <3>1, <3>3
      <4> QED
        BY <3>3, <4>1, SeqFacts
    <3> QED
      BY <1>2, <3>2, <3>3
  <2>2. ASSUME NEW x \in ToSet(s) PROVE x \in ToSet(u)
    <3>1. PICK i \in 1 .. m : s[i] = x
      BY SeqFacts
    <3> QED
      BY <1>1, <1>2, <3>1, SeqFacts
  <2>3. ASSUME NEW x \in ToSet(t) PROVE x \in ToSet(u)
    <3>1. PICK i \in 1 .. n : t[i] = x
      BY SeqFacts
    <3>2. m + i \in 1 .. Len(u) /\ u[m + i] = x
      BY <1>1, <1>2, <3>1
    <3> QED
      BY <1>1, <3>2, SeqFacts
  <2> QED
    BY <2>1, <2>2, <2>3
<1>4. ASSUME IsInjective(s), IsInjective(t), ToSet(s) \cap ToSet(t) = {} PROVE IsInjective(u)
  <2>1. /\ \A i, j \in 1 .. m : s[i] = s[j] => i = j
        /\ \A i, j \in 1 .. n : t[i] = t[j] => i = j
        /\ \A i \in 1 .. m, j \in 1 .. n : s[i] # t[j]
    BY <1>4, SeqFacts
  <2>2. ASSUME NEW i \in 1 .. Len(u), NEW j \in 1 .. Len(u), u[i] = u[j] PROVE i = j
    <3>1. CASE i \in 1 .. m /\ j \in 1 .. m
      BY <1>1, <2>1, <2>2, <3>1
    <3>2. CASE i \in 1 .. m /\ j - m \in 1 .. n /\ m + (j - m) = j
      <4>1. u[j] = t[j - m] /\ u[i] = s[i]
        BY <1>1, <3>2
      <4> QED
        BY <2>1, <2>2, <3>2, <4>1
    <3>3. CASE j \in 1 .. m /\ i - m \in 1 .. n /\ m + (i - m) = i
      <4>1. u[i] = t[i - m] /\ u[j] = s[j]
        BY <1>1, <3>3
      <4> QED
        BY <2>1, <2>2, <3>3, <4>1
    <3>4. CASE /\ i - m \in 1 .. n /\ m + (i - m) = i
               /\ j - m \in 1 .. n /\ m + (j - m) = j
      <4>1. u[i] = t[i - m] /\ u[j] = t[j - m]
        BY <1>1, <3>4
      <4>2. i - m = j - m
        BY <2>1, <2>2, <3>4, <4>1
      <4> QED
        BY <1>1, <3>4, <4>2
    <3> QED
      BY <1>2, <3>1, <3>2, <3>3, <3>4
  <2> QED
    BY <1>1, <2>2, SeqFacts
<1>5. ASSUME NEW a, NEW b, Before(s, a, b) PROVE Before(u, a, b)
  <2>1. PICK i \in 1 .. m, j \in 1 .. m : i < j /\ s[i] = a /\ s[j] = b
    BY <1>5 DEF Before
  <2>2. i \in 1 .. Len(u) /\ j \in 1 .. Len(u) /\ u[i] = a /\ u[j] = b
    BY <1>1, <1>2, <2>1
  <2> QED
    BY <2>1, <2>2 DEF Before
<1>6. ASSUME NEW a, NEW b, Before(t, a, b) PROVE Before(u, a, b)
  <2>1. PICK i \in 1 .. n, j \in 1 .. n : i < j /\ t[i] = a /\ t[j] = b
    BY <1>6 DEF Before
  <2>2. m + i \in 1 .. Len(u) /\ m + j \in 1 .. Len(u) /\ u[m + i] = a /\ u[m + j] = b
    BY <1>1, <1>2, <2>1
  <2>3. m + i < m + j
    BY <1>1, <2>1
  <2> QED
    BY <2>2, <2>3 DEF Before
<1>7. ASSUME NEW a \in ToSet(s), NEW b \in ToSet(t) PROVE Before(u, a, b)
  <2>1. PICK i \in 1 .. m : s[i] = a
    BY SeqFacts
  <2>2. PICK j \in 1 .. n : t[j] = b
    BY SeqFacts
  <2>3. i \in 1 .. Len(u) /\ m + j \in 1 .. Len(u) /\ u[i] = a /\ u[m + j] = b
    BY <1>1, <1>2, <2>1, <2>2
  <2>4. i < m + j
    BY <1>1
  <2> QED
    BY <2>3, <2>4 DEF Before
<1> QED
  BY <1>1, <1>3, <1>4, <1>5, <1>6, <1>7 DEF u

\* What Reverse() makes of a block table.
LEMMA ReverseFacts ==
    ASSUME NEW B, NEW s \in Seq(B)
    PROVE  /\ Reverse(s) \in Seq(B)
           /\ ToSet(Reverse(s)) = ToSet(s)
           /\ IsInjective(s) => IsInjective(Reverse(s))
           /\ \A i, j \in 1 .. Len(s) : i < j => Before(Reverse(s), s[j], s[i])
<1> DEFINE u == Reverse(s)
           n == Len(s)
<1>1. /\ n \in Nat /\ u \in Seq(B) /\ Len(u) = n
      /\ \A i \in 1 .. n : u[i] = s[(n - i) + 1]
  BY DEF Reverse
<1> HIDE DEF u
<1>2. \A i \in 1 .. n : (n - i) + 1 \in 1 .. n /\ (n - ((n - i) + 1)) + 1 = i
  BY <1>1
<1>3. \A i \in 1 .. n : u[(n - i) + 1] = s[i]
  BY <1>1, <1>2
<1>4. ToSet(u) = ToSet(s)
  <2>1. ASSUME NEW x \in ToSet(u) PROVE x \in ToSet(s)
    <3>1. PICK i \in 1 .. n : u[i] = x
      BY <1>1, SeqFacts
    <3> QED
      BY <1>1, <1>2, <3>1, SeqFacts, SMTT(30)
  <2>2. ASSUME NEW x \in ToSet(s) PROVE x \in ToSet(u)
    <3>1. PICK i \in 1 .. n : s[i] = x
      BY SeqFacts
    <3>2. (n - i) + 1 \in 1 .. Len(u) /\ u[(n - i) + 1] = x /\ u \in Seq(B)
      BY <1>1, <1>2, <1>3, <3>1
    <3> QED
      BY <3>2, SeqFacts
  <2> QED
    BY <2>1, <2>2
<1>5. ASSUME IsInjective(s) PROVE IsInjective(u)
  <2>1. \A i, j \in 1 .. n : s[i] = s[j] => i = j
    BY <1>5, SeqFacts
  <2>2. ASSUME NEW i \in 1 .. n, NEW j \in 1 .. n, u[i] = u[j] PROVE i = j
    <3>1. (n - i) + 1 = (n - j) + 1
      BY <1>1, <1>2, <2>1, <2>2
    <3> QED
      BY <1>1, <3>1
  <2> QED
    BY <1>1, <2>2, SeqFacts
<1>6. ASSUME NEW i \in 1 .. n, NEW j \in 1 .. n, i < j PROVE Before(u, s[j], s[i])
  <2>1. /\ (n - j) + 1 \in 1 .. Len(u) /\ (n - i) + 1 \in 1 .. Len(u)
        /\ (n - j) + 1 < (n - i) + 1
    BY <1>1, <1>6
  <2> QED
    BY <1>3, <2>1 DEF Before
<1> QED
  BY <1>1, <1>4, <1>5, <1>6 DEF u

-----------------------------------------------------------------------------
\* The values a pool can have, for the hashes H.
Pool(H) == [free       : Seq(Block),
            ref_cnt    : [Block -> Int],
            block_hash : [Block -> H \cup {NoHash}],
            cache      : [H -> Seq(Block)]]

\* The hash map lists every block once, under its own hash.
Coherent(pool, H) ==
    \A h \in H : /\ IsInjective(pool.cache[h])
                 /\ ToSet(pool.cache[h]) = {b \in Block : pool.block_hash[b] = h}

\* touch() moves counts and takes blocks from the queue, and nothing else.
LEMMA TouchFacts ==
    ASSUME NEW H, NEW pool \in Pool(H), NEW blocks \in Seq(Block)
    PROVE  LET p == touch(pool, blocks)
           IN  /\ p \in Pool(H)
               /\ p.free = without(pool.free, {b \in ToSet(blocks) : pool.ref_cnt[b] = 0})
               /\ p.ref_cnt = [b \in Block |-> IF b \in ToSet(blocks) THEN pool.ref_cnt[b] + 1
                                                                  ELSE pool.ref_cnt[b]]
               /\ p.block_hash = pool.block_hash
               /\ p.cache = pool.cache
<1> DEFINE S == {b \in ToSet(blocks) : pool.ref_cnt[b] = 0}
           ref == [b \in Block |-> IF b \in ToSet(blocks) THEN pool.ref_cnt[b] + 1
                                                      ELSE pool.ref_cnt[b]]
           fr == without(pool.free, S)
<1>1. fr \in Seq(Block)
  BY WithoutFacts DEF Pool
<1>2. ref \in [Block -> Int]
  BY DEF Pool
<1>3. touch(pool, blocks) = [pool EXCEPT !.free = fr, !.ref_cnt = ref]
  BY DEF touch, queue_remove
<1> HIDE DEF ref, fr
<1>4. /\ [pool EXCEPT !.free = fr, !.ref_cnt = ref] \in Pool(H)
      /\ [pool EXCEPT !.free = fr, !.ref_cnt = ref].free = fr
      /\ [pool EXCEPT !.free = fr, !.ref_cnt = ref].ref_cnt = ref
      /\ [pool EXCEPT !.free = fr, !.ref_cnt = ref].block_hash = pool.block_hash
      /\ [pool EXCEPT !.free = fr, !.ref_cnt = ref].cache = pool.cache
  BY <1>1, <1>2 DEF Pool
<1> QED
  BY <1>3, <1>4 DEF fr, ref

\* maybe_evict_cached_blocks() takes the hashes of the blocks from the blocks and from
\* the map; with a coherent map no block of S is skipped.
LEMMA EvictFacts ==
    ASSUME NEW H, NoHash \notin H, NEW pool \in Pool(H), Coherent(pool, H), NEW S \in SUBSET Block
    PROVE  LET p == maybe_evict_cached_blocks(pool, S)
           IN  /\ p \in Pool(H) /\ Coherent(p, H)
               /\ p.free = pool.free /\ p.ref_cnt = pool.ref_cnt
               /\ p.block_hash = [b \in Block |-> IF b \in S THEN NoHash ELSE pool.block_hash[b]]
<1> DEFINE E == {b \in S : /\ pool.block_hash[b] # NoHash
                           /\ Contains(pool.cache[pool.block_hash[b]], b)}
           hs == [b \in Block |-> IF b \in E THEN NoHash ELSE pool.block_hash[b]]
           ca == [h \in H |-> without(pool.cache[h], E)]
           p  == [pool EXCEPT !.block_hash = hs, !.cache = ca]
<1>1. /\ pool.block_hash \in [Block -> H \cup {NoHash}]
      /\ pool.cache \in [H -> Seq(Block)] /\ DOMAIN pool.cache = H
  BY DEF Pool
<1>2. maybe_evict_cached_blocks(pool, S) = p
  BY <1>1 DEF maybe_evict_cached_blocks, pop
<1>3. ASSUME NEW b \in S PROVE pool.block_hash[b] # NoHash => b \in E
  <2> SUFFICES ASSUME pool.block_hash[b] # NoHash
               PROVE  Contains(pool.cache[pool.block_hash[b]], b)
    OBVIOUS
  <2> DEFINE h == pool.block_hash[b]
  <2>1. h \in H /\ b \in Block
    BY <1>1
  <2>2. b \in ToSet(pool.cache[h]) /\ pool.cache[h] \in Seq(Block)
    BY <1>1, <2>1 DEF Coherent
  <2> HIDE DEF h
  <2>3. \E i \in 1 .. Len(pool.cache[h]) : pool.cache[h][i] = b
    BY <2>2, SeqFacts
  <2> QED
    BY <2>3 DEF Contains, h
<1>4. hs = [b \in Block |-> IF b \in S THEN NoHash ELSE pool.block_hash[b]]
  <2>1. E \subseteq S
    OBVIOUS
  <2> HIDE DEF E
  <2> QED
    BY <1>3, <2>1
<1>5. hs \in [Block -> H \cup {NoHash}]
  BY <1>1
<1>6. ca \in [H -> Seq(Block)]
  <2> HIDE DEF E
  <2> QED
    BY <1>1, WithoutFacts
<1>7. /\ p \in Pool(H) /\ p.free = pool.free /\ p.ref_cnt = pool.ref_cnt
      /\ p.block_hash = hs /\ p.cache = ca
  <2> HIDE DEF hs, ca
  <2> QED
    BY <1>5, <1>6 DEF Pool
<1>8. Coherent(p, H)
  <2> SUFFICES ASSUME NEW h \in H
               PROVE  /\ IsInjective(ca[h])
                      /\ ToSet(ca[h]) = {b \in Block : hs[b] = h}
    <3> HIDE DEF p, hs, ca
    <3> QED
      BY <1>7 DEF Coherent
  <2>1. ca[h] = without(pool.cache[h], E) /\ pool.cache[h] \in Seq(Block)
    <3> HIDE DEF E
    <3> QED
      BY <1>1
  <2>2. /\ IsInjective(pool.cache[h])
        /\ ToSet(pool.cache[h]) = {b \in Block : pool.block_hash[b] = h}
    BY DEF Coherent
  <2>3. /\ IsInjective(without(pool.cache[h], E))
        /\ ToSet(without(pool.cache[h], E)) = ToSet(pool.cache[h]) \ E
    <3> HIDE DEF E
    <3> QED
      BY <2>1, <2>2, WithoutFacts
  <2>4. \A b \in Block : hs[b] = h <=> pool.block_hash[b] = h /\ b \notin E
    <3> HIDE DEF E
    <3> QED
      OBVIOUS
  <2> HIDE DEF E, hs, ca
  <2> QED
    BY <2>1, <2>2, <2>3, <2>4
<1> HIDE DEF p, hs, ca
<1> QED
  BY <1>2, <1>4, <1>7, <1>8

\* get_new_blocks() takes the first n blocks of the queue, with their hashes.
LEMMA NewBlocksFacts ==
    ASSUME NEW H, NoHash \notin H, NEW pool \in Pool(H), Coherent(pool, H),
           NEW n \in 0 .. Len(pool.free)
    PROVE  LET p   == get_new_blocks(pool, n)
               new == ToSet(new_blocks(pool, n))
           IN  /\ p \in Pool(H) /\ Coherent(p, H)
               /\ p.free = SubSeq(pool.free, n + 1, Len(pool.free))
               /\ p.ref_cnt = [b \in Block |-> IF b \in new THEN pool.ref_cnt[b] + 1
                                                           ELSE pool.ref_cnt[b]]
               /\ p.block_hash = [b \in Block |-> IF b \in new THEN NoHash ELSE pool.block_hash[b]]
<1>0. pool.free \in Seq(Block) /\ pool.ref_cnt \in [Block -> Int]
  BY DEF Pool
<1> DEFINE new == ToSet(new_blocks(pool, n))
           q   == maybe_evict_cached_blocks(pool, new)
           fr  == SubSeq(pool.free, n + 1, Len(pool.free))
           ref == [b \in Block |-> IF b \in new THEN pool.ref_cnt[b] + 1 ELSE pool.ref_cnt[b]]
           p   == [q EXCEPT !.free = fr, !.ref_cnt = ref]
<1>1. new \in SUBSET Block
  <2>1. new_blocks(pool, n) \in Seq(Block)
    BY <1>0 DEF new_blocks
  <2> QED
    BY <2>1, SeqFacts
<1> HIDE DEF new
<1>2. /\ q \in Pool(H) /\ Coherent(q, H)
      /\ q.free = pool.free /\ q.ref_cnt = pool.ref_cnt
      /\ q.block_hash = [b \in Block |-> IF b \in new THEN NoHash ELSE pool.block_hash[b]]
  BY <1>1, EvictFacts
<1>3. get_new_blocks(pool, n) = p
  <2>1. get_new_blocks(pool, n) =
           [q EXCEPT !.free = SubSeq(q.free, n + 1, Len(q.free)),
                     !.ref_cnt = [b \in Block |-> IF b \in new THEN q.ref_cnt[b] + 1
                                                             ELSE q.ref_cnt[b]]]
    BY DEF get_new_blocks, new
  <2> HIDE DEF q
  <2> QED
    BY <1>2, <2>1
<1>4. fr \in Seq(Block)
  BY <1>0
<1>5. ref \in [Block -> Int]
  BY <1>0
<1> HIDE DEF q, fr, ref
<1>6. /\ p \in Pool(H) /\ p.free = fr /\ p.ref_cnt = ref
      /\ p.block_hash = q.block_hash /\ p.cache = q.cache
  BY <1>2, <1>4, <1>5 DEF Pool
<1>7. Coherent(p, H)
  <2> HIDE DEF p
  <2> QED
    BY <1>2, <1>6 DEF Coherent
<1> QED
  BY <1>2, <1>3, <1>6, <1>7 DEF new, fr, ref

\* free_blocks() drops one reference of each block and appends the blocks that have
\* none left to the queue.
LEMMA FreeFacts ==
    ASSUME NEW H, NEW pool \in Pool(H), NEW blocks \in Seq(Block)
    PROVE  LET p == free_blocks(pool, blocks)
           IN  /\ p \in Pool(H)
               /\ p.ref_cnt = [b \in Block |-> IF b \in ToSet(blocks) THEN pool.ref_cnt[b] - 1
                                                                  ELSE pool.ref_cnt[b]]
               /\ p.free = pool.free \o without(blocks, {b \in ToSet(blocks) : p.ref_cnt[b] # 0})
               /\ p.block_hash = pool.block_hash
               /\ p.cache = pool.cache
<1> DEFINE ref == [b \in Block |-> IF b \in ToSet(blocks) THEN pool.ref_cnt[b] - 1
                                                      ELSE pool.ref_cnt[b]]
           S  == {b \in ToSet(blocks) : ref[b] # 0}
           fr == pool.free \o without(blocks, S)
           p  == [pool EXCEPT !.ref_cnt = ref, !.free = fr]
<1>1. pool.free \in Seq(Block) /\ pool.ref_cnt \in [Block -> Int]
  BY DEF Pool
<1>2. ref \in [Block -> Int]
  BY <1>1
<1>3. free_blocks(pool, blocks) = p
  BY DEF free_blocks, append_n
<1>4. fr \in Seq(Block)
  <2>1. without(blocks, S) \in Seq(Block)
    <3> HIDE DEF S
    <3> QED
      BY WithoutFacts
  <2> QED
    BY <1>1, <2>1, AppendFacts
<1> HIDE DEF ref, fr
<1>5. /\ p \in Pool(H) /\ p.free = fr /\ p.ref_cnt = ref
      /\ p.block_hash = pool.block_hash /\ p.cache = pool.cache
  BY <1>2, <1>4 DEF Pool
<1> QED
  BY <1>3, <1>5, SMTT(30) DEF fr, ref

\* What cache_full_blocks() is called with: full blocks of a table that have no hash yet.
Cacheable(H, pool, blocks, c, f, hashes) ==
    /\ NoHash \notin H /\ pool \in Pool(H) /\ Coherent(pool, H)
    /\ blocks \in Seq(Block) /\ IsInjective(blocks)
    /\ c \in Nat /\ f \in Nat /\ f <= Len(blocks)
    /\ hashes \in [1 .. f -> H]
    /\ \A i, j \in 1 .. f : hashes[i] = hashes[j] => i = j
    /\ \A i \in (c + 1) .. f : pool.block_hash[blocks[i]] = NoHash

\* The hashes of the blocks once the full blocks c + 1 .. f of the table have theirs.
Hashed(pool, blocks, c, f, hashes) ==
    [b \in Block |-> IF \E i \in (c + 1) .. f : blocks[i] = b
                     THEN hashes[CHOOSE i \in (c + 1) .. f : blocks[i] = b]
                     ELSE pool.block_hash[b]]

\* cache_full_blocks() gives the blocks c + 1 .. f their hashes and enters them into the
\* map, which stays coherent.
LEMMA CacheFullFacts ==
    ASSUME NEW H, NEW pool, NEW blocks, NEW c, NEW f, NEW hashes,
           Cacheable(H, pool, blocks, c, f, hashes)
    PROVE  LET p == cache_full_blocks(pool, blocks, c, f, hashes)
           IN  /\ p \in Pool(H) /\ Coherent(p, H)
               /\ p.free = pool.free /\ p.ref_cnt = pool.ref_cnt
               /\ p.block_hash = Hashed(pool, blocks, c, f, hashes)
<1> USE DEF Cacheable
<1> DEFINE full == (c + 1) .. f
           hs == [b \in Block |-> IF \E i \in full : blocks[i] = b
                                  THEN hashes[CHOOSE i \in full : blocks[i] = b]
                                  ELSE pool.block_hash[b]]
           ca == insert(pool.cache, full, hashes, blocks)
           p  == [pool EXCEPT !.block_hash = hs, !.cache = ca]
<1>1. /\ pool.block_hash \in [Block -> H \cup {NoHash}]
      /\ pool.cache \in [H -> Seq(Block)] /\ DOMAIN pool.cache = H
  BY DEF Pool
<1>2. cache_full_blocks(pool, blocks, c, f, hashes) = p
  BY DEF cache_full_blocks
<1>3. /\ full \subseteq 1 .. f /\ full \subseteq 1 .. Len(blocks)
      /\ \A i \in full : blocks[i] \in Block /\ hashes[i] \in H
      /\ \A i, j \in full : blocks[i] = blocks[j] => i = j
      /\ \A i, j \in full : hashes[i] = hashes[j] => i = j
      /\ \A i \in full : pool.block_hash[blocks[i]] = NoHash
  <2>1. full \subseteq 1 .. f /\ full \subseteq 1 .. Len(blocks)
    BY SeqFacts
  <2>2. \A i, j \in 1 .. Len(blocks) : blocks[i] = blocks[j] => i = j
    BY SeqFacts
  <2>3. \A i \in full : pool.block_hash[blocks[i]] = NoHash
    OBVIOUS
  <2> HIDE DEF full
  <2> QED
    BY <2>1, <2>2, <2>3, SeqFacts
<1> HIDE DEF full
<1>4. \A b \in Block :
         hs[b] = IF \E i \in full : blocks[i] = b
                 THEN hashes[CHOOSE i \in full : blocks[i] = b] ELSE pool.block_hash[b]
  OBVIOUS
<1>5. /\ \A i \in full : hs[blocks[i]] = hashes[i]
      /\ \A b \in Block : (\A i \in full : blocks[i] # b) => hs[b] = pool.block_hash[b]
  <2>1. ASSUME NEW i \in full PROVE hs[blocks[i]] = hashes[i]
    <3>1. (CHOOSE j \in full : blocks[j] = blocks[i]) = i
      BY <1>3
    <3> QED
      BY <1>3, <1>4, <3>1
  <2> QED
    BY <1>4, <2>1
<1>6. hs \in [Block -> H \cup {NoHash}]
  <2>1. ASSUME NEW b \in Block PROVE hs[b] \in H \cup {NoHash}
    <3>1. CASE \E i \in full : blocks[i] = b
      <4>1. PICK i \in full : blocks[i] = b
        BY <3>1
      <4>2. hs[b] = hashes[i]
        BY <1>5, <4>1
      <4> HIDE DEF hs
      <4> QED
        BY <1>3, <4>2
    <3>2. CASE ~ \E i \in full : blocks[i] = b
      BY <1>1, <1>5, <3>2
    <3> QED
      BY <3>1, <3>2
  <2> QED
    BY <2>1
<1> HIDE DEF hs
<1>7. \A h \in H :
         /\ \A i \in full : hashes[i] = h => ca[h] = Append(pool.cache[h], blocks[i])
         /\ (\A i \in full : hashes[i] # h) => ca[h] = pool.cache[h]
  <2> SUFFICES ASSUME NEW h \in H
               PROVE  /\ \A i \in full : hashes[i] = h => ca[h] = Append(pool.cache[h], blocks[i])
                      /\ (\A i \in full : hashes[i] # h) => ca[h] = pool.cache[h]
    OBVIOUS
  <2>1. ca[h] = IF \E i \in full : hashes[i] = h
                THEN Append(pool.cache[h], blocks[CHOOSE i \in full : hashes[i] = h])
                ELSE pool.cache[h]
    BY <1>1 DEF insert
  <2>2. ASSUME NEW i \in full, hashes[i] = h PROVE (CHOOSE j \in full : hashes[j] = h) = i
    BY <1>3, <2>2
  <2> HIDE DEF ca
  <2> QED
    BY <2>1, <2>2
<1>8. DOMAIN ca = H /\ ca = [h \in H |-> ca[h]]
  BY <1>1 DEF insert
<1> HIDE DEF ca
<1>9. ASSUME NEW h \in H
      PROVE  /\ ca[h] \in Seq(Block) /\ IsInjective(ca[h])
             /\ ToSet(ca[h]) = {b \in Block : hs[b] = h}
  <2>0. pool.cache[h] \in Seq(Block)
    BY <1>1
  <2>1. /\ IsInjective(pool.cache[h])
        /\ ToSet(pool.cache[h]) = {b \in Block : pool.block_hash[b] = h}
    BY DEF Coherent
  <2>2. CASE \E i \in full : hashes[i] = h
    <3>1. PICK i \in full : hashes[i] = h
      BY <2>2
    <3>2. ca[h] = Append(pool.cache[h], blocks[i]) /\ blocks[i] \in Block
      BY <1>3, <1>7, <3>1
    <3>3. PICK x : x = blocks[i]
      OBVIOUS
    <3>4. x \in Block /\ pool.block_hash[x] # h /\ hs[x] = h
      BY <1>3, <1>5, <3>1, <3>3
    <3>5. PICK s : s = pool.cache[h]
      OBVIOUS
    <3>6. Append(s, x) = s \o <<x>> /\ <<x>> \in Seq(Block) /\ s \in Seq(Block)
      BY <2>0, <3>4, <3>5, SMTT(30)
    <3>7. ToSet(<<x>>) = {x} /\ IsInjective(<<x>>)
      BY DEF ToSet, IsInjective
    <3>8. ToSet(s) \cap {x} = {}
      BY <2>1, <3>4, <3>5
    <3>9. /\ ca[h] \in Seq(Block) /\ IsInjective(ca[h])
          /\ ToSet(ca[h]) = ToSet(s) \cup {x}
      <4>1. ca[h] = s \o <<x>>
        BY <3>2, <3>3, <3>5, <3>6
      <4>2. PICK t : t = <<x>>
        OBVIOUS
      <4>3. /\ ToSet(s) \cap ToSet(t) = {} /\ IsInjective(s) /\ IsInjective(t)
            /\ ToSet(t) = {x} /\ t \in Seq(Block) /\ s \in Seq(Block) /\ ca[h] = s \o t
        BY <2>1, <3>5, <3>6, <3>7, <3>8, <4>1, <4>2
      <4>4. s \o t \in Seq(Block) /\ IsInjective(s \o t) /\ ToSet(s \o t) = ToSet(s) \cup ToSet(t)
        BY <4>3, AppendFacts
      <4> QED
        BY <4>3, <4>4
    <3>10. ASSUME NEW b \in Block PROVE hs[b] = h <=> pool.block_hash[b] = h \/ b = x
      <4>1. CASE \E j \in full : blocks[j] = b
        <5>1. PICK j \in full : blocks[j] = b
          BY <4>1
        <5>2. hs[b] = hashes[j] /\ pool.block_hash[b] = NoHash
          BY <1>3, <1>5, <5>1
        <5>3. hashes[j] = h <=> j = i
          BY <1>3, <3>1
        <5>4. j = i <=> b = x
          BY <1>3, <3>3, <5>1
        <5> QED
          BY <5>2, <5>3, <5>4
      <4>2. CASE ~ \E j \in full : blocks[j] = b
        BY <1>5, <3>3, <4>2
      <4> QED
        BY <4>1, <4>2
    <3> QED
      BY <2>1, <3>4, <3>5, <3>9, <3>10
  <2>3. CASE ~ \E i \in full : hashes[i] = h
    <3>1. ca[h] = pool.cache[h]
      BY <1>7, <2>3
    <3>2. ASSUME NEW b \in Block PROVE hs[b] = h <=> pool.block_hash[b] = h
      <4>1. CASE \E j \in full : blocks[j] = b
        <5>1. PICK j \in full : blocks[j] = b
          BY <4>1
        <5> QED
          BY <1>3, <1>5, <2>3, <5>1
      <4>2. CASE ~ \E j \in full : blocks[j] = b
        BY <1>5, <4>2
      <4> QED
        BY <4>1, <4>2
    <3> QED
      BY <2>0, <2>1, <3>1, <3>2
  <2> QED
    BY <2>2, <2>3
<1>10. ca \in [H -> Seq(Block)]
  BY <1>8, <1>9
<1>11. /\ p \in Pool(H) /\ p.free = pool.free /\ p.ref_cnt = pool.ref_cnt
       /\ p.block_hash = hs /\ p.cache = ca
  BY <1>6, <1>10 DEF Pool
<1>12. Coherent(p, H)
  <2> HIDE DEF p
  <2> QED
    BY <1>9, <1>11 DEF Coherent
<1> HIDE DEF p
<1> QED
  BY <1>2, <1>11, <1>12 DEF hs, full, Hashed

\* reset_prefix_cache() empties the map and takes the hashes of all blocks.
LEMMA ResetFacts ==
    ASSUME NEW H, NoHash \notin H, NEW pool \in Pool(H)
    PROVE  LET p == reset_prefix_cache(pool)
           IN  /\ p \in Pool(H) /\ Coherent(p, H)
               /\ p.free = pool.free /\ p.ref_cnt = pool.ref_cnt
               /\ p.block_hash = [b \in Block |-> NoHash]
<1> DEFINE hs == [b \in Block |-> NoHash]
           ca == [h \in H |-> <<>>]
           p  == [pool EXCEPT !.block_hash = hs, !.cache = ca]
<1>1. DOMAIN pool.cache = H
  BY DEF Pool
<1>2. reset_prefix_cache(pool) = p
  BY <1>1 DEF reset_prefix_cache
<1>3. hs \in [Block -> H \cup {NoHash}] /\ ca \in [H -> Seq(Block)]
  OBVIOUS
<1>4. \A h \in H : IsInjective(ca[h]) /\ ToSet(ca[h]) = {b \in Block : hs[b] = h}
  BY DEF IsInjective, ToSet
<1> HIDE DEF hs, ca
<1>5. /\ p \in Pool(H) /\ p.free = pool.free /\ p.ref_cnt = pool.ref_cnt
      /\ p.block_hash = hs /\ p.cache = ca
  BY <1>3 DEF Pool
<1> HIDE DEF p
<1>6. Coherent(p, H)
  BY <1>4, <1>5 DEF Coherent
<1> QED
  BY <1>2, <1>5, <1>6 DEF hs

-----------------------------------------------------------------------------
\* Division by the block size.
LEMMA DivFacts ==
    ASSUME NEW d \in Nat \ {0}, NEW a \in Nat
    PROVE  /\ a \div d \in Nat
           /\ (a \div d) * d <= a
           /\ a < (a \div d) * d + d
OBVIOUS

\* How many blocks fit into a tokens.
LEMMA DivLeast ==
    ASSUME NEW d \in Nat \ {0}, NEW a \in Nat, NEW h \in Nat
    PROVE  h * d <= a <=> h <= a \div d
<1> DEFINE q == a \div d
<1>1. q \in Nat /\ q * d <= a /\ a < q * d + d
  BY DivFacts
<1> HIDE DEF q
<1>2. ASSUME h <= q PROVE h * d <= a
  <2>1. PICK e \in Nat : q = h + e
    <3>1. q - h \in Nat /\ q = h + (q - h)
      BY <1>1, <1>2
    <3> QED
      BY <3>1
  <2>2. q * d = h * d + e * d /\ e * d \in Nat /\ h * d \in Nat
    BY <2>1
  <2> QED
    BY <1>1, <2>2
<1>3. ASSUME ~(h <= q) PROVE ~(h * d <= a)
  <2>1. PICK e \in Nat : h = q + 1 + e
    <3>1. h - q - 1 \in Nat /\ h = q + 1 + (h - q - 1)
      BY <1>1, <1>3
    <3> QED
      BY <3>1
  <2>2. h * d = q * d + d + e * d /\ e * d \in Nat /\ q * d \in Nat
    BY <1>1, <2>1
  <2> QED
    BY <1>1, <2>2
<1> QED
  BY <1>2, <1>3 DEF q

\* More tokens fill as many blocks or more.
LEMMA DivMonotone ==
    ASSUME NEW d \in Nat \ {0}, NEW a \in Nat, NEW b \in Nat, a <= b
    PROVE  a \div d <= b \div d
<1> DEFINE q == a \div d
<1>1. q \in Nat /\ q * d <= a
  BY DivFacts
<1>2. q * d \in Nat
  BY <1>1
<1> HIDE DEF q
<1>3. q * d <= b
  BY <1>1, <1>2
<1>4. q <= b \div d
  BY <1>1, <1>3, DivLeast
<1> QED
  BY <1>4 DEF q

\* The blocks that a tokens need.
LEMMA CdivFacts ==
    ASSUME NEW d \in Nat \ {0}, NEW a \in Nat
    PROVE  /\ cdiv(a, d) \in Nat
           /\ a <= cdiv(a, d) * d
           /\ a \div d <= cdiv(a, d)
<1> DEFINE b == a + d - 1
           q == b \div d
<1>1. b \in Nat /\ a <= b
  OBVIOUS
<1>2. q \in Nat /\ b < q * d + d
  <2> HIDE DEF b
  <2> QED
    BY <1>1, DivFacts
<1>3. a \div d <= q
  <2> HIDE DEF b
  <2> QED
    BY <1>1, DivMonotone
<1>4. q * d \in Nat
  <2> HIDE DEF q
  <2> QED
    BY <1>2
<1>5. a <= q * d
  <2> HIDE DEF q
  <2> QED
    BY <1>2, <1>4
<1>6. cdiv(a, d) = q
  BY DEF cdiv
<1> QED
  BY <1>2, <1>3, <1>5, <1>6

-----------------------------------------------------------------------------
\* The indices of the full blocks of r.
FullBlocks(r) == 1 .. (Len(Text[r]) \div BlockSize)

\* What is assumed of the constants.
LEMMA Constants ==
    /\ BlockSize \in Nat \ {0} /\ MaxModelLen \in Nat \ {0}
    /\ EnableCaching \in BOOLEAN /\ UseEagle \in BOOLEAN
    /\ NumGpuBlocks \in Nat \ {0, 1}
    /\ IsFiniteSet(Request)
    /\ \A r \in Request : Text[r] \in Seq(Nat) /\ Len(Text[r]) \in Nat
<1>1. \A r \in Request : Text[r] \in Seq(Nat) /\ Len(Text[r]) \in Nat
  BY KVCacheManagerAssumption
<1> QED
  BY <1>1, KVCacheManagerAssumption, NumGpuBlocksAssumption

\* The hash of block i of r: the first i * BlockSize tokens.
LEMMA HashFacts ==
    ASSUME NEW r \in Request, NEW i \in FullBlocks(r)
    PROVE  /\ block_hashes(r, i) \in Hash
           /\ block_hashes(r, i) \in Seq(Nat)
           /\ Len(block_hashes(r, i)) = i * BlockSize
           /\ \A j \in 1 .. (i * BlockSize) : block_hashes(r, i)[j] = Text[r][j]
           /\ i \in Nat \ {0} /\ i * BlockSize \in Nat \ {0} /\ i * BlockSize <= Len(Text[r])
<1>1. /\ BlockSize \in Nat \ {0} /\ Text[r] \in Seq(Nat) /\ Len(Text[r]) \in Nat
  BY Constants
<1>2. i \in Nat \ {0} /\ i <= Len(Text[r]) \div BlockSize
  <2>1. Len(Text[r]) \div BlockSize \in Nat
    BY <1>1, DivFacts
  <2> QED
    BY <2>1 DEF FullBlocks
<1>3. i * BlockSize <= Len(Text[r])
  BY <1>1, <1>2, DivLeast
<1>4. i * BlockSize \in Nat \ {0}
  BY <1>1, <1>2
<1>5. PICK m : m = i * BlockSize
  OBVIOUS
<1>6. /\ SubSeq(Text[r], 1, m) \in Seq(Nat) /\ Len(SubSeq(Text[r], 1, m)) = m
      /\ \A j \in 1 .. m : SubSeq(Text[r], 1, m)[j] = Text[r][j]
  BY <1>1, <1>3, <1>4, <1>5
<1>7. block_hashes(r, i) = SubSeq(Text[r], 1, m)
  BY <1>5 DEF block_hashes
<1>8. block_hashes(r, i) \in Hash
  BY DEF Hash, FullBlocks
<1> QED
  BY <1>2, <1>3, <1>4, <1>5, <1>6, <1>7, <1>8

\* Every hash is one of those.
LEMMA HashSplit ==
    ASSUME NEW h \in Hash
    PROVE  \E r \in Request : \E i \in FullBlocks(r) : h = block_hashes(r, i)
BY DEF Hash, FullBlocks

\* No hash is the empty prefix.
LEMMA NoHashIsNone == NoHash \notin Hash
<1> SUFFICES ASSUME NoHash \in Hash PROVE FALSE
  OBVIOUS
<1>0. PICK r \in Request : \E i \in FullBlocks(r) : NoHash = block_hashes(r, i)
  BY HashSplit
<1>1. PICK i \in FullBlocks(r) : NoHash = block_hashes(r, i)
  BY <1>0
<1>2. Len(NoHash) \in Nat \ {0}
  BY <1>1, HashFacts
<1> QED
  BY <1>2 DEF NoHash

\* A hash fixes the index of its block, and the hashes of the blocks before it.
LEMMA HashUnique ==
    ASSUME NEW r \in Request, NEW q \in Request, NEW i \in FullBlocks(r), NEW j \in FullBlocks(q),
           block_hashes(r, i) = block_hashes(q, j)
    PROVE  /\ i = j
           /\ \A n \in 1 .. i : /\ n \in FullBlocks(r) /\ n \in FullBlocks(q)
                                /\ block_hashes(r, n) = block_hashes(q, n)
<1>0. BlockSize \in Nat \ {0}
  BY Constants
<1>1. /\ i * BlockSize = j * BlockSize /\ i \in Nat /\ j \in Nat
      /\ \A k \in 1 .. (i * BlockSize) : Text[r][k] = Text[q][k]
  BY HashFacts
<1>2. i = j
  <2>1. ASSUME NEW a \in Nat, NEW b \in Nat, a < b PROVE a * BlockSize # b * BlockSize
    <3>1. PICK e \in Nat : b = a + 1 + e
      <4>1. b - a - 1 \in Nat /\ b = a + 1 + (b - a - 1)
        BY <2>1
      <4> QED
        BY <4>1
    <3>2. b * BlockSize = a * BlockSize + BlockSize + e * BlockSize /\ e * BlockSize \in Nat
          /\ a * BlockSize \in Nat
      BY <1>0, <3>1
    <3> QED
      BY <1>0, <3>2
  <2> QED
    BY <1>1, <2>1
<1>3. ASSUME NEW n \in 1 .. i
      PROVE  /\ n \in FullBlocks(r) /\ n \in FullBlocks(q)
             /\ block_hashes(r, n) = block_hashes(q, n)
  <2>1. n \in FullBlocks(r) /\ n \in FullBlocks(q) /\ n \in Nat
    <3>1. /\ Len(Text[r]) \div BlockSize \in Nat /\ Len(Text[q]) \div BlockSize \in Nat
      BY Constants, DivFacts
    <3> QED
      BY <1>2, <3>1 DEF FullBlocks
  <2>2. n * BlockSize <= i * BlockSize /\ n * BlockSize \in Nat /\ i * BlockSize \in Nat
    <3>1. PICK e \in Nat : i = n + e
      <4>1. i - n \in Nat /\ i = n + (i - n)
        BY <1>1, <2>1
      <4> QED
        BY <4>1
    <3>2. i * BlockSize = n * BlockSize + e * BlockSize /\ e * BlockSize \in Nat
          /\ n * BlockSize \in Nat
      BY <1>0, <2>1, <3>1
    <3> QED
      BY <3>2
  <2>3. /\ block_hashes(r, n) \in Seq(Nat) /\ block_hashes(q, n) \in Seq(Nat)
        /\ Len(block_hashes(r, n)) = n * BlockSize /\ Len(block_hashes(q, n)) = n * BlockSize
        /\ \A k \in 1 .. (n * BlockSize) : block_hashes(r, n)[k] = Text[r][k]
        /\ \A k \in 1 .. (n * BlockSize) : block_hashes(q, n)[k] = Text[q][k]
    BY <2>1, HashFacts
  <2>4. \A k \in 1 .. (n * BlockSize) : Text[r][k] = Text[q][k]
    BY <1>1, <2>2
  <2>5. block_hashes(r, n) = block_hashes(q, n)
    BY <2>3, <2>4, SeqEqual
  <2> QED
    BY <2>1, <2>5
<1> QED
  BY <1>2, <1>3

-----------------------------------------------------------------------------
\* The values of the manager.
Manager == [pool             : Pool(Hash),
            req_to_blocks    : [Request -> Seq(Block)],
            num_cached_block : [Request -> Int]]

\* Hash map and free queue are sound, and the queue holds the unreferenced blocks.
Sound(k) ==
    /\ k \in Manager
    /\ Coherent(k.pool, Hash)
    /\ IsInjective(k.pool.free)
    /\ \A b \in Block : b \in ToSet(k.pool.free) <=> k.pool.ref_cnt[b] = 0
    /\ \A b \in Block : k.pool.ref_cnt[b] >= 0

\* The fields of a manager and of its pool.
LEMMA SoundFields ==
    ASSUME NEW k, Sound(k)
    PROVE  /\ k \in Manager /\ k.pool \in Pool(Hash)
           /\ Coherent(k.pool, Hash) /\ IsInjective(k.pool.free)
           /\ k.req_to_blocks \in [Request -> Seq(Block)]
           /\ k.num_cached_block \in [Request -> Int]
           /\ k.pool.free \in Seq(Block) /\ Len(k.pool.free) \in Nat
           /\ ToSet(k.pool.free) \subseteq Block
           /\ k.pool.ref_cnt \in [Block -> Int]
           /\ k.pool.block_hash \in [Block -> Hash \cup {NoHash}]
           /\ k.pool.cache \in [Hash -> Seq(Block)]
           /\ \A b \in Block : b \in ToSet(k.pool.free) <=> k.pool.ref_cnt[b] = 0
           /\ \A b \in Block : k.pool.ref_cnt[b] >= 0
<1>1. /\ k \in Manager /\ Coherent(k.pool, Hash) /\ IsInjective(k.pool.free)
      /\ \A b \in Block : b \in ToSet(k.pool.free) <=> k.pool.ref_cnt[b] = 0
      /\ \A b \in Block : k.pool.ref_cnt[b] >= 0
  BY DEF Sound
<1>2. /\ k.pool \in Pool(Hash) /\ k.req_to_blocks \in [Request -> Seq(Block)]
      /\ k.num_cached_block \in [Request -> Int]
  BY <1>1 DEF Manager
<1>3. /\ k.pool.free \in Seq(Block) /\ k.pool.ref_cnt \in [Block -> Int]
      /\ k.pool.block_hash \in [Block -> Hash \cup {NoHash}]
      /\ k.pool.cache \in [Hash -> Seq(Block)]
  BY <1>2 DEF Pool
<1>4. ToSet(k.pool.free) \subseteq Block /\ Len(k.pool.free) \in Nat
  BY <1>3, SeqFacts
<1> QED
  BY <1>1, <1>2, <1>3, <1>4

\* The blocks of a hit that must leave the free queue, counted by their places.
Evictable(k, hit) == {i \in DOMAIN hit : k.pool.ref_cnt[hit[i]] = 0}

\* allocate_new_computed_blocks(): the hit gets a reference each and leaves the queue.
LEMMA HitFacts ==
    ASSUME NEW k, Sound(k), NEW r \in Request, NEW hit \in Seq(Block)
    PROVE  LET k1 == allocate_new_computed_blocks(k, r, hit)
           IN  /\ Sound(k1)
               /\ k1.req_to_blocks = [k.req_to_blocks EXCEPT ![r] = @ \o hit]
               /\ k1.num_cached_block =
                     IF hit = <<>> THEN k.num_cached_block
                     ELSE [k.num_cached_block EXCEPT ![r] = Len(hit)]
               /\ k1.pool.ref_cnt = [b \in Block |-> IF b \in ToSet(hit) THEN k.pool.ref_cnt[b] + 1
                                                                      ELSE k.pool.ref_cnt[b]]
               /\ k1.pool.block_hash = k.pool.block_hash
               /\ ToSet(k1.pool.free) = ToSet(k.pool.free) \ ToSet(hit)
               /\ Len(k.pool.free) <= Len(k1.pool.free) + Cardinality(Evictable(k, hit))
               /\ IsFiniteSet(Evictable(k, hit))
               /\ \A a, b : a \notin ToSet(hit) /\ b \notin ToSet(hit) /\ Before(k.pool.free, a, b) =>
                     Before(k1.pool.free, a, b)
<1> DEFINE k1 == allocate_new_computed_blocks(k, r, hit)
           S  == ToSet(hit)
           I  == {b \in S : k.pool.ref_cnt[b] = 0}
           E  == Evictable(k, hit)
           n  == Len(hit)
<1>1. /\ k \in Manager /\ k.pool \in Pool(Hash)
      /\ Coherent(k.pool, Hash) /\ IsInjective(k.pool.free)
      /\ k.req_to_blocks \in [Request -> Seq(Block)]
      /\ k.num_cached_block \in [Request -> Int]
      /\ k.pool.free \in Seq(Block) /\ Len(k.pool.free) \in Nat
      /\ ToSet(k.pool.free) \subseteq Block
      /\ k.pool.ref_cnt \in [Block -> Int]
      /\ \A b \in Block : b \in ToSet(k.pool.free) <=> k.pool.ref_cnt[b] = 0
      /\ \A b \in Block : k.pool.ref_cnt[b] >= 0
  BY SoundFields
<1>2. n \in Nat /\ DOMAIN hit = 1 .. n /\ S \subseteq Block
  BY SeqFacts
<1>3. IsFiniteSet(E)
  <2>1. E \in SUBSET (1 .. n)
    BY <1>2 DEF Evictable
  <2>2. IsFiniteSet(1 .. n)
    BY <1>2, FS_Interval
  <2> QED
    BY <2>1, <2>2, FS_Subset
<1>4. CASE hit = <<>>
  <2>1. k1 = k
    BY <1>4 DEF allocate_new_computed_blocks
  <2>2. S = {}
    BY <1>4 DEF ToSet
  <2>3. k.req_to_blocks = [k.req_to_blocks EXCEPT ![r] = @ \o hit]
    <3>1. k.req_to_blocks[r] \o hit = k.req_to_blocks[r]
      BY <1>1, <1>4, ConcatEmptySeq
    <3> QED
      BY <1>1, <3>1
  <2>4. k.pool.ref_cnt = [b \in Block |-> IF b \in S THEN k.pool.ref_cnt[b] + 1 ELSE k.pool.ref_cnt[b]]
    BY <1>1, <2>2
  <2>5. Len(k.pool.free) <= Len(k.pool.free) + Cardinality(E)
    <3>1. Cardinality(E) \in Nat
      BY <1>3, FS_CardinalityType
    <3> QED
      BY <1>1, <3>1
  <2> HIDE DEF k1, S, E
  <2>6. Sound(k1)
    BY <2>1
  <2> QED
    BY <1>3, <1>4, <2>1, <2>2, <2>3, <2>4, <2>5, <2>6 DEF k1, S, E
<1>5. CASE hit # <<>>
  <2> DEFINE p  == touch(k.pool, hit)
             t  == [k.req_to_blocks EXCEPT ![r] = @ \o hit]
             nc == [k.num_cached_block EXCEPT ![r] = Len(hit)]
  <2>1. k1 = [pool |-> p, req_to_blocks |-> t, num_cached_block |-> nc]
    BY <1>5 DEF allocate_new_computed_blocks
  <2>2. /\ p \in Pool(Hash)
        /\ p.free = without(k.pool.free, I)
        /\ p.ref_cnt = [b \in Block |-> IF b \in S THEN k.pool.ref_cnt[b] + 1 ELSE k.pool.ref_cnt[b]]
        /\ p.block_hash = k.pool.block_hash
        /\ p.cache = k.pool.cache
    BY <1>1, TouchFacts
  <2>3. t \in [Request -> Seq(Block)]
    <3>1. k.req_to_blocks[r] \o hit \in Seq(Block)
      BY <1>1
    <3> QED
      BY <1>1, <3>1
  <2>4. nc \in [Request -> Int]
    BY <1>1, <1>2
  <2> HIDE DEF p, t, nc
  <2>5. /\ k1 \in Manager /\ k1.pool = p /\ k1.req_to_blocks = t /\ k1.num_cached_block = nc
    BY <2>1, <2>2, <2>3, <2>4 DEF Manager
  <2>6. /\ p.free \in Seq(Block) /\ IsInjective(p.free)
        /\ ToSet(p.free) = ToSet(k.pool.free) \ I
        /\ \A a, b : a \notin I /\ b \notin I /\ Before(k.pool.free, a, b) => Before(p.free, a, b)
    <3> HIDE DEF I
    <3> QED
      BY <1>1, <2>2, WithoutFacts
  <2>7. ToSet(p.free) = ToSet(k.pool.free) \ S
    <3>1. \A b \in S : b \in ToSet(k.pool.free) <=> b \in I
      BY <1>1, <1>2
    <3>2. I \subseteq S
      OBVIOUS
    <3> HIDE DEF S, I
    <3> QED
      BY <2>6, <3>1, <3>2
  <2>8. Coherent(p, Hash)
    BY <1>1, <2>2 DEF Coherent
  <2>9. Len(k.pool.free) <= Len(p.free) + Cardinality(E)
    <3> DEFINE f == [i \in E |-> hit[i]]
    <3>1. f \in Surjection(E, I)
      <4>1. \A i \in E : i \in 1 .. n /\ hit[i] \in I
        BY <1>2, SeqFacts DEF Evictable
      <4>2. ASSUME NEW b \in I PROVE \E i \in E : hit[i] = b
        <5>1. PICK i \in 1 .. n : hit[i] = b
          BY SeqFacts
        <5>2. i \in E
          BY <1>2, <5>1 DEF Evictable
        <5> QED
          BY <5>1, <5>2
      <4> HIDE DEF I, E
      <4> QED
        BY <4>1, <4>2 DEF Surjection
    <3>2. IsFiniteSet(I) /\ Cardinality(I) <= Cardinality(E)
      <4> HIDE DEF I, E, f
      <4> QED
        BY <1>3, <3>1, FS_Surjection
    <3>3. Len(k.pool.free) <= Len(p.free) + Cardinality(I)
      <4> HIDE DEF I
      <4> QED
        BY <1>1, <2>2, <3>2, WithoutLen
    <3>4. Cardinality(I) \in Nat /\ Cardinality(E) \in Nat /\ Len(p.free) \in Nat
      BY <1>3, <2>6, <3>2, FS_CardinalityType
    <3> QED
      BY <1>1, <3>2, <3>3, <3>4
  <2>10. \A a, b : a \notin S /\ b \notin S /\ Before(k.pool.free, a, b) => Before(p.free, a, b)
    <3>1. I \subseteq S
      OBVIOUS
    <3> HIDE DEF I, S
    <3> QED
      BY <2>6, <3>1
  <2>11. /\ \A b \in Block : p.ref_cnt[b] >= 0
         /\ \A b \in Block : b \in ToSet(p.free) <=> p.ref_cnt[b] = 0
    <3> SUFFICES ASSUME NEW b \in Block
                 PROVE  p.ref_cnt[b] >= 0 /\ (b \in ToSet(p.free) <=> p.ref_cnt[b] = 0)
      OBVIOUS
    <3>1. k.pool.ref_cnt[b] \in Int /\ k.pool.ref_cnt[b] >= 0
      BY <1>1
    <3>2. p.ref_cnt[b] = IF b \in S THEN k.pool.ref_cnt[b] + 1 ELSE k.pool.ref_cnt[b]
      BY <2>2
    <3>3. b \in ToSet(k.pool.free) <=> k.pool.ref_cnt[b] = 0
      BY <1>1
    <3> HIDE DEF S
    <3> QED
      BY <2>7, <3>1, <3>2, <3>3
  <2>12. Sound(k1)
    <3> HIDE DEF k1
    <3> QED
      BY <2>5, <2>6, <2>8, <2>11 DEF Sound
  <2> HIDE DEF k1, S, E
  <2> QED
    BY <1>3, <1>5, <2>2, <2>5, <2>7, <2>9, <2>10, <2>12 DEF k1, S, E, t, nc
<1> QED
  BY <1>4, <1>5

\* The manager m is k with the blocks new, from the free queue, at the end of the table of
\* r, so that need tokens fit into it.
Extended(k, m, r, need, new) ==
    /\ Sound(m)
    /\ Len(new) = max(cdiv(need, BlockSize) - Len(k.req_to_blocks[r]), 0)
    /\ IsInjective(new) /\ ToSet(new) \subseteq ToSet(k.pool.free)
    /\ m.req_to_blocks = [k.req_to_blocks EXCEPT ![r] = @ \o new]
    /\ m.num_cached_block = k.num_cached_block
    /\ m.pool.ref_cnt = [b \in Block |-> IF b \in ToSet(new) THEN k.pool.ref_cnt[b] + 1
                                                          ELSE k.pool.ref_cnt[b]]
    /\ m.pool.block_hash = [b \in Block |-> IF b \in ToSet(new) THEN NoHash
                                                             ELSE k.pool.block_hash[b]]
    /\ ToSet(m.pool.free) = ToSet(k.pool.free) \ ToSet(new)
    /\ \A a, b : a \notin ToSet(new) /\ Before(k.pool.free, a, b) =>
          Before(m.pool.free, a, b) /\ b \notin ToSet(new)

\* allocate_new_blocks(): the blocks still missing are taken from the head of the queue.
LEMMA NewFacts ==
    ASSUME NEW k, Sound(k), NEW r \in Request, NEW need \in Nat,
           cdiv(need, BlockSize) - Len(k.req_to_blocks[r]) <= Len(k.pool.free)
    PROVE  \E new \in Seq(Block) : Extended(k, allocate_new_blocks(k, r, need), r, need, new)
<1> DEFINE k2 == allocate_new_blocks(k, r, need)
           m  == cdiv(need, BlockSize) - Len(k.req_to_blocks[r])
<1>1. /\ k \in Manager /\ k.pool \in Pool(Hash)
      /\ Coherent(k.pool, Hash) /\ IsInjective(k.pool.free)
      /\ k.req_to_blocks \in [Request -> Seq(Block)]
      /\ k.num_cached_block \in [Request -> Int]
      /\ k.pool.free \in Seq(Block) /\ Len(k.pool.free) \in Nat
      /\ ToSet(k.pool.free) \subseteq Block
      /\ k.pool.ref_cnt \in [Block -> Int]
      /\ k.pool.block_hash \in [Block -> Hash \cup {NoHash}]
      /\ \A b \in Block : b \in ToSet(k.pool.free) <=> k.pool.ref_cnt[b] = 0
      /\ \A b \in Block : k.pool.ref_cnt[b] >= 0
  BY SoundFields
<1>2. cdiv(need, BlockSize) \in Nat /\ Len(k.req_to_blocks[r]) \in Nat /\ m \in Int
  <2>1. cdiv(need, BlockSize) \in Nat
    BY Constants, CdivFacts
  <2>2. Len(k.req_to_blocks[r]) \in Nat
    BY <1>1
  <2> QED
    BY <2>1, <2>2
<1>3. CASE m <= 0
  <2>1. k2 = k
    BY <1>3 DEF allocate_new_blocks
  <2>2. /\ <<>> \in Seq(Block) /\ Len(<<>>) = max(m, 0)
        /\ IsInjective(<<>>) /\ ToSet(<<>>) = {}
    BY <1>2, <1>3 DEF max, IsInjective, ToSet
  <2>3. k.req_to_blocks = [k.req_to_blocks EXCEPT ![r] = @ \o <<>>]
    <3>1. k.req_to_blocks[r] \o <<>> = k.req_to_blocks[r]
      BY <1>1, ConcatEmptySeq
    <3> QED
      BY <1>1, <3>1
  <2>4. /\ k.pool.ref_cnt = [b \in Block |-> IF b \in {} THEN k.pool.ref_cnt[b] + 1
                                                    ELSE k.pool.ref_cnt[b]]
        /\ k.pool.block_hash = [b \in Block |-> IF b \in {} THEN NoHash ELSE k.pool.block_hash[b]]
    BY <1>1
  <2>5. PICK new : new = <<>>
    OBVIOUS
  <2> HIDE DEF k2, m
  <2>6. /\ new \in Seq(Block) /\ Len(new) = max(m, 0) /\ IsInjective(new) /\ ToSet(new) = {}
        /\ k.req_to_blocks = [k.req_to_blocks EXCEPT ![r] = @ \o new]
    BY <2>2, <2>3, <2>5
  <2>7. /\ Sound(k2) /\ k2.num_cached_block = k.num_cached_block
        /\ k2.req_to_blocks = [k.req_to_blocks EXCEPT ![r] = @ \o new]
        /\ k2.pool.ref_cnt = [b \in Block |-> IF b \in ToSet(new) THEN k.pool.ref_cnt[b] + 1
                                                               ELSE k.pool.ref_cnt[b]]
        /\ k2.pool.block_hash = [b \in Block |-> IF b \in ToSet(new) THEN NoHash
                                                                  ELSE k.pool.block_hash[b]]
        /\ ToSet(k2.pool.free) = ToSet(k.pool.free) \ ToSet(new)
        /\ \A a, b : a \notin ToSet(new) /\ Before(k.pool.free, a, b) =>
                     Before(k2.pool.free, a, b) /\ b \notin ToSet(new)
    BY <2>1, <2>4, <2>6
  <2>8. ToSet(new) \subseteq ToSet(k.pool.free)
    BY <2>6
  <2> QED
    BY <2>6, <2>7, <2>8 DEF k2, m, Extended
<1>4. CASE ~(m <= 0)
  <2> DEFINE new == new_blocks(k.pool, m)
             p   == get_new_blocks(k.pool, m)
             t   == [k.req_to_blocks EXCEPT ![r] = @ \o new]
  <2>1. m \in 0 .. Len(k.pool.free) /\ max(m, 0) = m
    BY <1>1, <1>2, <1>4 DEF max
  <2>2. k2 = [k EXCEPT !.pool = p, !.req_to_blocks = t]
    BY <1>4 DEF allocate_new_blocks
  <2> HIDE DEF m
  <2>3. /\ new \in Seq(Block) /\ Len(new) = m /\ IsInjective(new)
        /\ ToSet(new) \subseteq ToSet(k.pool.free)
    BY <1>1, <2>1, SplitFacts DEF new_blocks
  <2>4. /\ p \in Pool(Hash) /\ Coherent(p, Hash)
        /\ p.free = SubSeq(k.pool.free, m + 1, Len(k.pool.free))
        /\ p.ref_cnt = [b \in Block |-> IF b \in ToSet(new) THEN k.pool.ref_cnt[b] + 1
                                                         ELSE k.pool.ref_cnt[b]]
        /\ p.block_hash = [b \in Block |-> IF b \in ToSet(new) THEN NoHash ELSE k.pool.block_hash[b]]
    <3> HIDE DEF p, new
    <3>1. k.pool \in Pool(Hash) /\ Coherent(k.pool, Hash) /\ m \in 0 .. Len(k.pool.free)
      BY <1>1, <2>1
    <3> QED
      BY <3>1, NoHashIsNone, NewBlocksFacts DEF p, new
  <2>5. /\ IsInjective(p.free)
        /\ ToSet(p.free) = ToSet(k.pool.free) \ ToSet(new)
        /\ \A a, b : a \notin ToSet(new) /\ Before(k.pool.free, a, b) =>
              Before(p.free, a, b) /\ b \notin ToSet(new)
    BY <1>1, <2>1, <2>4, SplitFacts DEF new_blocks
  <2> HIDE DEF new, p
  <2>6. t \in [Request -> Seq(Block)]
    <3>1. k.req_to_blocks[r] \o new \in Seq(Block)
      BY <1>1, <2>3
    <3> QED
      BY <1>1, <3>1
  <2> HIDE DEF t
  <2>7. /\ k2 \in Manager /\ k2.pool = p /\ k2.req_to_blocks = t
        /\ k2.num_cached_block = k.num_cached_block
    BY <1>1, <2>2, <2>4, <2>6 DEF Manager
  <2>8. ASSUME NEW b \in Block
        PROVE  p.ref_cnt[b] >= 0 /\ (b \in ToSet(p.free) <=> p.ref_cnt[b] = 0)
    <3>1. k.pool.ref_cnt[b] \in Int /\ k.pool.ref_cnt[b] >= 0
      BY <1>1
    <3>2. p.ref_cnt[b] = IF b \in ToSet(new) THEN k.pool.ref_cnt[b] + 1 ELSE k.pool.ref_cnt[b]
      BY <2>4
    <3>3. b \in ToSet(k.pool.free) <=> k.pool.ref_cnt[b] = 0
      BY <1>1
    <3> QED
      BY <2>5, <3>1, <3>2, <3>3
  <2>9. Sound(k2)
    <3> HIDE DEF k2
    <3> QED
      BY <2>4, <2>5, <2>7, <2>8 DEF Sound
  <2> HIDE DEF k2
  <2> QED
    BY <2>1, <2>3, <2>4, <2>5, <2>7, <2>9 DEF k2, m, t, Extended
<1> QED
  BY <1>3, <1>4

\* The hashes of the blocks once the blocks c + 1 .. f of the table of r carry their own.
OwnHashes(r, blocks, c, f, hashes) ==
    [b \in Block |-> IF \E i \in (c + 1) .. f : blocks[i] = b
                     THEN block_hashes(r, CHOOSE i \in (c + 1) .. f : blocks[i] = b)
                     ELSE hashes[b]]

\* cache_blocks(): the full blocks not cached yet get their hashes.
LEMMA CacheFacts ==
    ASSUME NEW k, Sound(k), NEW r \in Request, NEW t \in Nat, t <= Len(Text[r]),
           IsInjective(k.req_to_blocks[r]),
           t \div BlockSize <= Len(k.req_to_blocks[r]),
           \A i \in (max(k.num_cached_block[r], 0) + 1) .. (t \div BlockSize) :
               k.pool.block_hash[k.req_to_blocks[r][i]] = NoHash
    PROVE  LET k3 == cache_blocks(k, r, t)
               c  == max(k.num_cached_block[r], 0)
               f  == max(c, t \div BlockSize)
           IN  /\ Sound(k3)
               /\ k3.req_to_blocks = k.req_to_blocks
               /\ \A q \in Request : q # r => k3.num_cached_block[q] = k.num_cached_block[q]
               /\ max(k3.num_cached_block[r], 0) = f
               /\ k3.num_cached_block[r] \in {k.num_cached_block[r], f}
               /\ k3.pool.free = k.pool.free /\ k3.pool.ref_cnt = k.pool.ref_cnt
               /\ k3.pool.block_hash =
                     OwnHashes(r, k.req_to_blocks[r], c, f, k.pool.block_hash)
<1> DEFINE k3 == cache_blocks(k, r, t)
           c  == max(k.num_cached_block[r], 0)
           m  == t \div BlockSize
           f  == max(c, m)
           tr == k.req_to_blocks[r]
<1>1. /\ k \in Manager /\ k.pool \in Pool(Hash)
      /\ Coherent(k.pool, Hash) /\ IsInjective(k.pool.free)
      /\ k.req_to_blocks \in [Request -> Seq(Block)]
      /\ k.num_cached_block \in [Request -> Int]
      /\ k.pool.block_hash \in [Block -> Hash \cup {NoHash}]
      /\ \A b \in Block : b \in ToSet(k.pool.free) <=> k.pool.ref_cnt[b] = 0
      /\ \A b \in Block : k.pool.ref_cnt[b] >= 0
  BY SoundFields
<1>2. /\ m \in Nat /\ m <= Len(tr) /\ IsInjective(tr) /\ tr \in Seq(Block)
      /\ \A i \in (c + 1) .. m : k.pool.block_hash[tr[i]] = NoHash
      /\ m <= Len(Text[r]) \div BlockSize /\ Len(Text[r]) \div BlockSize \in Nat
  <2>1. m \in Nat
    BY Constants, DivFacts
  <2>2. m <= Len(Text[r]) \div BlockSize /\ Len(Text[r]) \div BlockSize \in Nat
    BY Constants, DivFacts, DivMonotone
  <2> QED
    BY <1>1, <2>1, <2>2
<1>3. k.num_cached_block[r] \in Int /\ c \in Nat /\ f \in Nat
  <2> HIDE DEF m
  <2> QED
    BY <1>1, <1>2 DEF max
<1>4. CASE c >= m
  <2>1. k3 = k
    BY <1>4 DEF cache_blocks
  <2> HIDE DEF m
  <2>2. f = c
    BY <1>2, <1>3, <1>4 DEF max
  <2> HIDE DEF f, k3
  <2>3. k.pool.block_hash = [b \in Block |->
            IF \E i \in (c + 1) .. f : tr[i] = b
            THEN block_hashes(r, CHOOSE i \in (c + 1) .. f : tr[i] = b)
            ELSE k.pool.block_hash[b]]
    <3>1. (c + 1) .. f = {}
      <4> HIDE DEF c
      <4> QED
        BY <1>3, <2>2
    <3> HIDE DEF c, tr
    <3> QED
      BY <1>1, <3>1
  <2>4. max(k3.num_cached_block[r], 0) = f
    BY <2>1, <2>2
  <2> QED
    BY <2>1, <2>2, <2>3, <2>4 DEF f, k3, m, OwnHashes
<1>5. CASE ~(c >= m)
  <2> DEFINE hs == [i \in 1 .. m |-> block_hashes(r, i)]
             p  == cache_full_blocks(k.pool, tr, c, m, hs)
             nc == [k.num_cached_block EXCEPT ![r] = m]
  <2>1. k3 = [k EXCEPT !.pool = p, !.num_cached_block = nc]
    BY <1>5 DEF cache_blocks
  <2>2. f = m
    <3> HIDE DEF m, c
    <3> QED
      BY <1>2, <1>3, <1>5 DEF max
  <2>3. /\ \A i \in 1 .. m : i \in FullBlocks(r)
    <3> HIDE DEF m
    <3> QED
      BY <1>2 DEF FullBlocks
  <2>4. hs \in [1 .. m -> Hash] /\ \A i, j \in 1 .. m : hs[i] = hs[j] => i = j
    <3> HIDE DEF m
    <3>1. \A i \in 1 .. m : hs[i] = block_hashes(r, i) /\ block_hashes(r, i) \in Hash
      BY <2>3, HashFacts
    <3>2. ASSUME NEW i \in 1 .. m, NEW j \in 1 .. m, hs[i] = hs[j] PROVE i = j
      BY <2>3, <3>1, <3>2, HashUnique
    <3> QED
      BY <3>1, <3>2
  <2> HIDE DEF hs, m, c, tr, f, k3
  <2>5. /\ p \in Pool(Hash) /\ Coherent(p, Hash)
        /\ p.free = k.pool.free /\ p.ref_cnt = k.pool.ref_cnt
        /\ p.block_hash = Hashed(k.pool, tr, c, m, hs)
    <3> HIDE DEF p
    <3>1. Cacheable(Hash, k.pool, tr, c, m, hs)
      BY <1>1, <1>2, <1>3, <2>4, NoHashIsNone DEF Cacheable
    <3> QED
      BY <3>1, CacheFullFacts DEF p
  <2> HIDE DEF p
  <2>6. nc \in [Request -> Int] /\ nc[r] = m /\ \A q \in Request : q # r => nc[q] = k.num_cached_block[q]
    BY <1>1, <1>2
  <2> HIDE DEF nc
  <2>7. /\ k3 \in Manager /\ k3.pool = p /\ k3.req_to_blocks = k.req_to_blocks
        /\ k3.num_cached_block = nc
    BY <1>1, <2>1, <2>5, <2>6 DEF Manager
  <2>8. Sound(k3)
    BY <1>1, <2>5, <2>7 DEF Sound
  <2>9. p.block_hash = [b \in Block |->
            IF \E i \in (c + 1) .. f : tr[i] = b
            THEN block_hashes(r, CHOOSE i \in (c + 1) .. f : tr[i] = b)
            ELSE k.pool.block_hash[b]]
    <3>1. ASSUME NEW b \in Block, \E i \in (c + 1) .. m : tr[i] = b
          PROVE  hs[CHOOSE i \in (c + 1) .. m : tr[i] = b]
                    = block_hashes(r, CHOOSE i \in (c + 1) .. m : tr[i] = b)
      <4>1. PICK x : x = CHOOSE i \in (c + 1) .. m : tr[i] = b
        OBVIOUS
      <4>2. x \in (c + 1) .. m
        BY <3>1, <4>1
      <4>3. x \in 1 .. m
        BY <1>2, <1>3, <4>2
      <4>4. hs[x] = block_hashes(r, x)
        BY <4>3 DEF hs
      <4> QED
        BY <4>1, <4>4
    <3> DEFINE W(b) == IF \E i \in (c + 1) .. m : tr[i] = b
                       THEN hs[CHOOSE i \in (c + 1) .. m : tr[i] = b]
                       ELSE k.pool.block_hash[b]
               V(b) == IF \E i \in (c + 1) .. m : tr[i] = b
                       THEN block_hashes(r, CHOOSE i \in (c + 1) .. m : tr[i] = b)
                       ELSE k.pool.block_hash[b]
    <3>2. \A b \in Block : W(b) = V(b)
      BY <3>1
    <3>3. p.block_hash = [b \in Block |-> W(b)]
      BY <2>5 DEF Hashed
    <3> HIDE DEF W, V
    <3>4. p.block_hash = [b \in Block |-> V(b)]
      BY <3>2, <3>3
    <3> QED
      BY <2>2, <3>4 DEF V
  <2>10. max(k3.num_cached_block[r], 0) = f /\ k3.num_cached_block[r] = f
    BY <1>2, <2>2, <2>6, <2>7 DEF max
  <2> QED
    BY <2>5, <2>6, <2>7, <2>8, <2>9, <2>10 DEF k3, c, f, m, tr, OwnHashes
<1> QED
  BY <1>4, <1>5

-----------------------------------------------------------------------------
\* What the scheduler calls allocate_slots() with: a request of t tokens with a hit only
\* if it holds nothing, in a state in which its table is in order.
Allocatable(k, r, hit, t, c, n, la) ==
    /\ Sound(k) /\ r \in Request
    /\ hit \in Seq(Block) /\ IsInjective(hit)
    /\ hit # <<>> => k.req_to_blocks[r] = <<>> /\ k.num_cached_block[r] = Absent
    /\ t \in Nat /\ t <= Len(Text[r]) /\ t <= MaxModelLen
    /\ c \in Nat /\ n \in Nat /\ la \in Nat
    /\ IsInjective(k.req_to_blocks[r])
    /\ max(k.num_cached_block[r], 0) <= Len(k.req_to_blocks[r])
    /\ \A i \in 1 .. Len(k.req_to_blocks[r]) : k.req_to_blocks[r][i] \notin ToSet(k.pool.free)
    /\ \A i \in 1 .. Len(k.req_to_blocks[r]) :
          k.pool.block_hash[k.req_to_blocks[r][i]] # NoHash => i <= max(k.num_cached_block[r], 0)
    /\ can_allocate_slots(k, r, c, n, la, hit)

\* The slots that the tokens to compute and the lookahead need.
Need(c, n, la, hit) == num_tokens_need_slot(c, n, la, hit)

\* The numbers of tokens in allocate_slots().
LEMMA NeedFacts ==
    ASSUME NEW c \in Nat, NEW n \in Nat, NEW la \in Nat, NEW hit \in Seq(Block), NEW t \in Nat,
           t <= MaxModelLen
    PROVE  /\ Need(c, n, la, hit) \in Nat
           /\ total_computed_tokens(c, hit) \in Nat
           /\ min(total_computed_tokens(c, hit) + n, t) \in Nat
           /\ min(total_computed_tokens(c, hit) + n, t) <= t
           /\ min(total_computed_tokens(c, hit) + n, t) <= Need(c, n, la, hit)
<1>1. BlockSize \in Nat /\ MaxModelLen \in Nat /\ Len(hit) \in Nat
  BY Constants
<1>2. PICK x : x = Len(hit) * BlockSize
  OBVIOUS
<1>3. x \in Nat
  BY <1>1, <1>2
<1>4. PICK y : y = total_computed_tokens(c, hit)
  OBVIOUS
<1>5. y = min(c + x, MaxModelLen)
  BY <1>2, <1>4 DEF total_computed_tokens
<1>6. Need(c, n, la, hit) = min(y + n + la, MaxModelLen)
  BY <1>4 DEF Need, num_tokens_need_slot
<1>7. y \in Nat
  BY <1>1, <1>3, <1>5 DEF min
<1>8. /\ min(y + n + la, MaxModelLen) \in Nat
      /\ min(y + n, t) \in Nat
      /\ min(y + n, t) <= t
      /\ min(y + n, t) <= min(y + n + la, MaxModelLen)
  BY <1>1, <1>7 DEF min
<1> QED
  BY <1>4, <1>6, <1>7, <1>8

\* can_allocate_slots() reserves the hit and leaves enough free blocks for the rest.
LEMMA EnoughFree ==
    ASSUME NEW k, NEW r, NEW hit, NEW t, NEW c, NEW n, NEW la,
           Allocatable(k, r, hit, t, c, n, la)
    PROVE  cdiv(Need(c, n, la, hit), BlockSize) - (Len(k.req_to_blocks[r]) + Len(hit))
              + Cardinality(Evictable(k, hit)) <= Len(k.pool.free)
<1>1. /\ Sound(k) /\ r \in Request /\ hit \in Seq(Block)
      /\ hit # <<>> => k.req_to_blocks[r] = <<>> /\ k.num_cached_block[r] = Absent
      /\ t \in Nat /\ t <= Len(Text[r]) /\ c \in Nat /\ n \in Nat /\ la \in Nat
      /\ can_allocate_slots(k, r, c, n, la, hit)
  BY DEF Allocatable
<1>2. PICK q : q = cdiv(Need(c, n, la, hit), BlockSize)
  OBVIOUS
<1>3. q \in Nat
  <2>1. Need(c, n, la, hit) \in Nat
    <3>1. t <= MaxModelLen
      BY DEF Allocatable
    <3> QED
      BY <1>1, <3>1, NeedFacts
  <2> QED
    BY <1>2, <2>1, Constants, CdivFacts
<1>4. /\ k.req_to_blocks[r] \in Seq(Block) /\ Len(k.req_to_blocks[r]) \in Nat
      /\ Len(k.pool.free) \in Nat /\ Len(hit) \in Nat
  BY <1>1, SoundFields
<1> DEFINE held == Len(k.req_to_blocks[r])
           e    == Cardinality(Evictable(k, hit))
<1>5. (IF k.num_cached_block[r] # Absent THEN max(q - held, 0) ELSE max(q - (Len(hit) + held), 0) + e)
          <= Len(k.pool.free)
  BY <1>1, <1>2 DEF can_allocate_slots, get_num_blocks_to_allocate, get_num_free_blocks, Need, Evictable
<1>6. e \in Nat
  <2>1. IsFiniteSet(Evictable(k, hit))
    BY <1>1, HitFacts
  <2> QED
    BY <2>1, FS_CardinalityType
<1>7. CASE k.num_cached_block[r] = Absent
  <2> HIDE DEF held, e
  <2>1. max(q - (Len(hit) + held), 0) + e <= Len(k.pool.free) /\ held \in Nat
    BY <1>4, <1>5, <1>7 DEF held
  <2>2. q - (held + Len(hit)) + e <= Len(k.pool.free)
    BY <1>3, <1>4, <1>6, <2>1 DEF max
  <2> QED
    BY <1>2, <2>2 DEF held, e
<1>8. CASE k.num_cached_block[r] # Absent
  <2>1. hit = <<>>
    BY <1>1, <1>8
  <2>2. e = 0 /\ Len(hit) = 0
    <3>1. Evictable(k, hit) = {}
      BY <2>1 DEF Evictable
    <3> QED
      BY <2>1, <3>1, FS_EmptySet
  <2> HIDE DEF held, e
  <2>3. max(q - held, 0) <= Len(k.pool.free) /\ held \in Nat
    BY <1>4, <1>5, <1>8 DEF held
  <2>4. q - (held + Len(hit)) + e <= Len(k.pool.free)
    BY <1>3, <1>4, <2>2, <2>3 DEF max
  <2> QED
    BY <1>2, <2>4 DEF held, e
<1> QED
  BY <1>7, <1>8

\* What allocate_slots() does to a manager: k becomes m, r gains the hit and the blocks
\* new, and its first f blocks are cached.
Allocated(k, m, r, hit, new, f) ==
    LET blocks == k.req_to_blocks[r] \o hit \o new
        kept   == max(k.num_cached_block[r], 0) + Len(hit)
        gained == ToSet(hit) \cup ToSet(new)
    IN  /\ Sound(m)
        /\ new \in Seq(Block) /\ IsInjective(new)
        /\ ToSet(new) \subseteq ToSet(k.pool.free) \ ToSet(hit)
        /\ f \in Nat /\ kept <= f /\ f <= Len(blocks)
        /\ m.req_to_blocks = [k.req_to_blocks EXCEPT ![r] = blocks]
        /\ \A q \in Request : q # r => m.num_cached_block[q] = k.num_cached_block[q]
        /\ max(m.num_cached_block[r], 0) = f
        /\ m.num_cached_block[r] \in {k.num_cached_block[r], f}
        /\ m.pool.block_hash =
              OwnHashes(r, blocks, kept, f,
                  [b \in Block |-> IF b \in ToSet(new) THEN NoHash ELSE k.pool.block_hash[b]])
        /\ m.pool.ref_cnt = [b \in Block |-> IF b \in gained THEN k.pool.ref_cnt[b] + 1
                                                          ELSE k.pool.ref_cnt[b]]
        /\ ToSet(m.pool.free) = ToSet(k.pool.free) \ gained
        /\ \A a, b : a \notin gained /\ b \notin ToSet(hit) /\ Before(k.pool.free, a, b) =>
              Before(m.pool.free, a, b) /\ b \notin ToSet(new)

\* The table after allocate_slots() has no block twice, and past the hit only blocks that
\* carry no hash.
LEMMA GrownTable ==
    ASSUME NEW t \in Seq(Block), NEW hit \in Seq(Block), NEW new \in Seq(Block),
           IsInjective(t), IsInjective(hit), IsInjective(new), hit # <<>> => t = <<>>,
           ToSet(new) \cap ToSet(hit) = {}, ToSet(new) \cap ToSet(t) = {}
    PROVE  /\ t \o hit \o new \in Seq(Block)
           /\ Len(t \o hit \o new) = Len(t) + Len(hit) + Len(new)
           /\ IsInjective(t \o hit \o new)
           /\ ToSet(t \o hit \o new) = ToSet(t) \cup ToSet(hit) \cup ToSet(new)
           /\ \A i \in 1 .. (Len(t) + Len(hit) + Len(new)) :
                 \/ i \in 1 .. Len(t) /\ (t \o hit \o new)[i] = t[i]
                 \/ i \in 1 .. Len(hit) /\ (t \o hit \o new)[i] = hit[i]
                 \/ (t \o hit \o new)[i] \in ToSet(new)
           /\ \A i \in 1 .. Len(t) : (t \o hit \o new)[i] = t[i]
           /\ \A i \in 1 .. Len(hit) : (t \o hit \o new)[i] = hit[i]
<1> DEFINE s == t \o hit
           u == s \o new
<1>1. /\ s \in Seq(Block) /\ Len(s) = Len(t) + Len(hit) /\ IsInjective(s)
      /\ ToSet(s) = ToSet(t) \cup ToSet(hit) /\ ToSet(s) \cap ToSet(new) = {}
      /\ \A i \in 1 .. Len(s) : \/ i \in 1 .. Len(t) /\ s[i] = t[i]
                                \/ i \in 1 .. Len(hit) /\ s[i] = hit[i]
      /\ \A i \in 1 .. Len(t) : i \in 1 .. Len(s) /\ s[i] = t[i]
      /\ \A i \in 1 .. Len(hit) : i \in 1 .. Len(s) /\ s[i] = hit[i]
  <2>1. CASE hit = <<>>
    <3>1. s = t /\ ToSet(hit) = {} /\ Len(hit) = 0
      BY <2>1, ConcatEmptySeq DEF ToSet
    <3>2. Len(t) \in Nat
      OBVIOUS
    <3>3. \A i \in 1 .. Len(hit) : FALSE
      BY <3>1
    <3>4. Len(t) = Len(t) + Len(hit) /\ ToSet(t) = ToSet(t) \cup ToSet(hit)
          /\ ToSet(t) \cap ToSet(new) = {}
      BY <3>1, <3>2
    <3> HIDE DEF s
    <3> QED
      BY <3>1, <3>3, <3>4
  <2>2. CASE hit # <<>>
    <3>1. s = hit /\ ToSet(t) = {} /\ Len(t) = 0
      BY <2>2, ConcatEmptySeq DEF ToSet
    <3>2. Len(hit) \in Nat
      OBVIOUS
    <3>3. \A i \in 1 .. Len(t) : FALSE
      BY <3>1
    <3>4. Len(hit) = Len(t) + Len(hit) /\ ToSet(hit) = ToSet(t) \cup ToSet(hit)
          /\ ToSet(hit) \cap ToSet(new) = {}
      BY <3>1, <3>2
    <3> HIDE DEF s
    <3> QED
      BY <3>1, <3>3, <3>4
  <2> QED
    BY <2>1, <2>2
<1> HIDE DEF s
<1>2. /\ u \in Seq(Block) /\ ToSet(u) = ToSet(s) \cup ToSet(new) /\ IsInjective(u)
  BY <1>1, AppendFacts
<1>3. /\ Len(u) = Len(s) + Len(new) /\ Len(s) \in Nat /\ Len(new) \in Nat
      /\ \A i \in 1 .. Len(s) : u[i] = s[i]
      /\ \A i \in 1 .. Len(new) : u[Len(s) + i] = new[i]
  <2>1. s \in Seq(Block)
    BY <1>1
  <2> QED
    BY <2>1, ConcatProperties
<1> HIDE DEF u
<1>4. \A i \in 1 .. Len(u) : (i \in 1 .. Len(s) /\ u[i] = s[i]) \/ u[i] \in ToSet(new)
  <2> SUFFICES ASSUME NEW i \in 1 .. Len(u), ~(i \in 1 .. Len(s)) PROVE u[i] \in ToSet(new)
    BY <1>3
  <2>1. i - Len(s) \in 1 .. Len(new) /\ Len(s) + (i - Len(s)) = i
    BY <1>3
  <2>2. u[i] = new[i - Len(s)]
    BY <1>3, <2>1
  <2> QED
    BY <2>1, <2>2, SeqFacts
<1>5. /\ \A i \in 1 .. Len(u) :
                 \/ i \in 1 .. Len(t) /\ u[i] = t[i]
                 \/ i \in 1 .. Len(hit) /\ u[i] = hit[i]
                 \/ u[i] \in ToSet(new)
      /\ \A i \in 1 .. Len(t) : u[i] = t[i]
      /\ \A i \in 1 .. Len(hit) : u[i] = hit[i]
  BY <1>1, <1>3, <1>4
<1> QED
  BY <1>1, <1>2, <1>3, <1>5 DEF s, u

\* allocate_slots(): the three stages together.
LEMMA AllocateFacts ==
    ASSUME NEW k, NEW r, NEW hit, NEW t, NEW c, NEW n, NEW la,
           Allocatable(k, r, hit, t, c, n, la)
    PROVE  \E new, f :
              /\ Allocated(k, allocate_slots(k, r, t, c, n, la, hit), r, hit, new, f)
              /\ f <= max(max(k.num_cached_block[r], 0) + Len(hit), t \div BlockSize)
              /\ f <= max(max(k.num_cached_block[r], 0) + Len(hit),
                          (total_computed_tokens(c, hit) + n) \div BlockSize)
              /\ Need(c, n, la, hit) <= Len(k.req_to_blocks[r] \o hit \o new) * BlockSize
<1> DEFINE need == Need(c, n, la, hit)
           tc   == min(total_computed_tokens(c, hit) + n, t)
           k1   == allocate_new_computed_blocks(k, r, hit)
           k2   == allocate_new_blocks(k1, r, need)
           k3   == cache_blocks(k2, r, tc)
           m    == allocate_slots(k, r, t, c, n, la, hit)
           tr   == k.req_to_blocks[r]
           kept == max(k.num_cached_block[r], 0) + Len(hit)
<1>1. /\ Sound(k) /\ r \in Request /\ hit \in Seq(Block) /\ IsInjective(hit)
      /\ hit # <<>> => tr = <<>> /\ k.num_cached_block[r] = Absent
      /\ t \in Nat /\ t <= Len(Text[r]) /\ c \in Nat /\ n \in Nat /\ la \in Nat
      /\ IsInjective(tr) /\ max(k.num_cached_block[r], 0) <= Len(tr)
      /\ \A i \in 1 .. Len(tr) : tr[i] \notin ToSet(k.pool.free)
      /\ \A i \in 1 .. Len(tr) :
            k.pool.block_hash[tr[i]] # NoHash => i <= max(k.num_cached_block[r], 0)
  BY DEF Allocatable
<1>2. m = IF EnableCaching THEN k3 ELSE k2
  BY DEF allocate_slots, Need
<1>3. /\ k.req_to_blocks \in [Request -> Seq(Block)] /\ k.num_cached_block \in [Request -> Int]
      /\ k.pool.free \in Seq(Block) /\ Len(k.pool.free) \in Nat
      /\ k.pool.ref_cnt \in [Block -> Int]
      /\ k.pool.block_hash \in [Block -> Hash \cup {NoHash}]
  BY <1>1, SoundFields
<1>4. tr \in Seq(Block) /\ Len(tr) \in Nat /\ Len(hit) \in Nat
  <2>1. r \in Request /\ hit \in Seq(Block)
    BY <1>1
  <2> QED
    BY <1>3, <2>1
<1>5. /\ need \in Nat /\ tc \in Nat /\ tc <= t /\ tc <= need
      /\ cdiv(need, BlockSize) \in Nat /\ need <= cdiv(need, BlockSize) * BlockSize
      /\ tc \div BlockSize \in Nat
      /\ tc \div BlockSize <= cdiv(need, BlockSize)
      /\ tc \div BlockSize <= t \div BlockSize /\ t \div BlockSize \in Nat
  <2>1. t <= MaxModelLen
    BY DEF Allocatable
  <2>2. need \in Nat /\ tc \in Nat /\ tc <= t /\ tc <= need
    BY <1>1, <2>1, NeedFacts
  <2> HIDE DEF need, tc
  <2>3. /\ cdiv(need, BlockSize) \in Nat /\ need <= cdiv(need, BlockSize) * BlockSize
        /\ need \div BlockSize <= cdiv(need, BlockSize)
    BY <2>2, Constants, CdivFacts
  <2>4. /\ tc \div BlockSize \in Nat /\ need \div BlockSize \in Nat /\ t \div BlockSize \in Nat
    BY <1>1, <2>2, Constants, DivFacts
  <2>5. /\ tc \div BlockSize <= need \div BlockSize /\ tc \div BlockSize <= t \div BlockSize
    BY <1>1, <2>2, Constants, DivMonotone
  <2> QED
    BY <2>2, <2>3, <2>4, <2>5
<1> HIDE DEF need, tc
<1>6. /\ Sound(k1)
      /\ k1.req_to_blocks = [k.req_to_blocks EXCEPT ![r] = @ \o hit]
      /\ k1.num_cached_block = IF hit = <<>> THEN k.num_cached_block
                               ELSE [k.num_cached_block EXCEPT ![r] = Len(hit)]
      /\ k1.pool.ref_cnt = [b \in Block |-> IF b \in ToSet(hit) THEN k.pool.ref_cnt[b] + 1
                                                             ELSE k.pool.ref_cnt[b]]
      /\ k1.pool.block_hash = k.pool.block_hash
      /\ ToSet(k1.pool.free) = ToSet(k.pool.free) \ ToSet(hit)
      /\ Len(k.pool.free) <= Len(k1.pool.free) + Cardinality(Evictable(k, hit))
      /\ IsFiniteSet(Evictable(k, hit))
      /\ \A a, b : a \notin ToSet(hit) /\ b \notin ToSet(hit) /\ Before(k.pool.free, a, b) =>
            Before(k1.pool.free, a, b)
  <2> HIDE DEF k1
  <2> QED
    BY <1>1, HitFacts DEF k1
<1>7. /\ k1.req_to_blocks[r] = tr \o hit /\ Len(k1.req_to_blocks[r]) = Len(tr) + Len(hit)
      /\ Len(k1.pool.free) \in Nat
  <2>1. k1.req_to_blocks[r] = tr \o hit
    <3> HIDE DEF k1
    <3> QED
      BY <1>1, <1>3, <1>6
  <2>2. Len(tr \o hit) = Len(tr) + Len(hit)
    <3> HIDE DEF tr
    <3> QED
      BY <1>1, <1>4
  <2>3. Len(k1.pool.free) \in Nat
    BY <1>6, SoundFields
  <2> QED
    BY <2>1, <2>2, <2>3
<1>8. cdiv(need, BlockSize) - Len(k1.req_to_blocks[r]) <= Len(k1.pool.free)
  <2>1. Cardinality(Evictable(k, hit)) \in Nat
    BY <1>6, FS_CardinalityType
  <2>2. cdiv(need, BlockSize) - (Len(tr) + Len(hit)) + Cardinality(Evictable(k, hit))
           <= Len(k.pool.free)
    BY EnoughFree DEF need
  <2>3. Len(k.pool.free) <= Len(k1.pool.free) + Cardinality(Evictable(k, hit))
    BY <1>6
  <2>4. /\ cdiv(need, BlockSize) \in Nat /\ Len(tr) \in Nat /\ Len(hit) \in Nat
        /\ Len(k.pool.free) \in Nat /\ Len(k1.pool.free) \in Nat
        /\ Len(k1.req_to_blocks[r]) = Len(tr) + Len(hit)
    BY <1>3, <1>4, <1>5, <1>7
  <2> HIDE DEF k1, tr
  <2>5. PICK x \in Nat : x = cdiv(need, BlockSize)
    BY <2>4
  <2>6. PICK e \in Nat : e = Cardinality(Evictable(k, hit))
    BY <2>1
  <2>7. PICK h \in Nat : h = Len(tr) + Len(hit)
    BY <2>4
  <2>8. PICK g \in Nat : g = Len(k.pool.free)
    BY <2>4
  <2>9. PICK g1 \in Nat : g1 = Len(k1.pool.free)
    BY <2>4
  <2>10. x - h + e <= g /\ g <= g1 + e
    BY <2>2, <2>3, <2>5, <2>6, <2>7, <2>8, <2>9
  <2>11. x - h <= g1
    BY <2>10
  <2> QED
    BY <2>4, <2>5, <2>11, <2>7, <2>9
<1> HIDE DEF k1
<1>9. PICK new \in Seq(Block) : Extended(k1, k2, r, need, new)
  <2> HIDE DEF k2
  <2>1. Sound(k1)
    BY <1>6
  <2> QED
    BY <1>1, <1>5, <1>8, <2>1, NewFacts DEF k2
<1>10. /\ Sound(k2)
      /\ Len(new) = max(cdiv(need, BlockSize) - Len(k1.req_to_blocks[r]), 0)
      /\ IsInjective(new) /\ ToSet(new) \subseteq ToSet(k1.pool.free)
      /\ k2.req_to_blocks = [k1.req_to_blocks EXCEPT ![r] = @ \o new]
      /\ k2.num_cached_block = k1.num_cached_block
      /\ k2.pool.ref_cnt = [b \in Block |-> IF b \in ToSet(new) THEN k1.pool.ref_cnt[b] + 1
                                                             ELSE k1.pool.ref_cnt[b]]
      /\ k2.pool.block_hash = [b \in Block |-> IF b \in ToSet(new) THEN NoHash
                                                                ELSE k1.pool.block_hash[b]]
      /\ ToSet(k2.pool.free) = ToSet(k1.pool.free) \ ToSet(new)
      /\ \A a, b : a \notin ToSet(new) /\ Before(k1.pool.free, a, b) =>
            Before(k2.pool.free, a, b) /\ b \notin ToSet(new)
  <2> HIDE DEF k2
  <2> QED
    BY <1>9 DEF Extended
<1> HIDE DEF k2
<1> DEFINE blocks == tr \o hit \o new
           gained == ToSet(hit) \cup ToSet(new)
           lost   == [b \in Block |-> IF b \in ToSet(new) THEN NoHash ELSE k.pool.block_hash[b]]
<1>11. ToSet(new) \cap ToSet(hit) = {} /\ ToSet(new) \subseteq ToSet(k.pool.free)
  BY <1>6, <1>10
<1>12. ToSet(new) \cap ToSet(tr) = {}
  <2> HIDE DEF tr
  <2>1. \A x \in ToSet(tr) : \E i \in 1 .. Len(tr) : tr[i] = x
    BY <1>4, SeqFacts
  <2>2. \A i \in 1 .. Len(tr) : tr[i] \notin ToSet(k.pool.free)
    BY <1>1 DEF tr
  <2> QED
    BY <1>11, <2>1, <2>2
<1>13. /\ blocks \in Seq(Block) /\ Len(blocks) = Len(tr) + Len(hit) + Len(new)
       /\ IsInjective(blocks)
       /\ \A i \in 1 .. Len(blocks) :
                 \/ i \in 1 .. Len(tr) /\ blocks[i] = tr[i]
                 \/ i \in 1 .. Len(hit) /\ blocks[i] = hit[i]
                 \/ blocks[i] \in ToSet(new)
  <2>1. /\ tr \in Seq(Block) /\ hit \in Seq(Block) /\ new \in Seq(Block)
        /\ IsInjective(tr) /\ IsInjective(hit) /\ IsInjective(new)
        /\ hit # <<>> => tr = <<>>
        /\ ToSet(new) \cap ToSet(hit) = {} /\ ToSet(new) \cap ToSet(tr) = {}
    BY <1>1, <1>4, <1>10, <1>11, <1>12
  <2> HIDE DEF tr, blocks
  <2> QED
    BY <2>1, GrownTable DEF blocks
<1>14. Len(new) \in Nat /\ cdiv(need, BlockSize) <= Len(blocks) /\ Len(blocks) \in Nat
  <2> HIDE DEF tr, blocks
  <2> QED
    BY <1>4, <1>5, <1>7, <1>10, <1>13 DEF max
<1>15. need <= Len(blocks) * BlockSize
  <2> HIDE DEF blocks
  <2>1. PICK e \in Nat : Len(blocks) = cdiv(need, BlockSize) + e
    <3>1. /\ Len(blocks) - cdiv(need, BlockSize) \in Nat
          /\ Len(blocks) = cdiv(need, BlockSize) + (Len(blocks) - cdiv(need, BlockSize))
      BY <1>5, <1>14
    <3> QED
      BY <3>1
  <2>2. /\ Len(blocks) * BlockSize = cdiv(need, BlockSize) * BlockSize + e * BlockSize
        /\ e * BlockSize \in Nat /\ cdiv(need, BlockSize) * BlockSize \in Nat
    BY <1>5, <2>1, Constants
  <2> QED
    BY <1>5, <2>2
<1>16. k2.req_to_blocks = [k.req_to_blocks EXCEPT ![r] = blocks] /\ k2.req_to_blocks[r] = blocks
  <2>1. /\ k1.req_to_blocks = [k.req_to_blocks EXCEPT ![r] = tr \o hit]
        /\ k2.req_to_blocks = [k1.req_to_blocks EXCEPT ![r] = blocks]
    BY <1>6, <1>7, <1>10
  <2> HIDE DEF blocks, tr
  <2> QED
    BY <1>1, <1>3, <2>1
<1>17. /\ k2.pool.ref_cnt = [b \in Block |-> IF b \in gained THEN k.pool.ref_cnt[b] + 1
                                                          ELSE k.pool.ref_cnt[b]]
       /\ k2.pool.block_hash = lost
       /\ ToSet(k2.pool.free) = ToSet(k.pool.free) \ gained
  <2>1. \A b \in Block : ~(b \in ToSet(new) /\ b \in ToSet(hit))
    BY <1>11
  <2> QED
    BY <1>6, <1>10, <2>1, SMTT(30)
<1>18. \A a, b : a \notin gained /\ b \notin ToSet(hit) /\ Before(k.pool.free, a, b) =>
              Before(k2.pool.free, a, b) /\ b \notin ToSet(new)
  BY <1>6, <1>10
<1>19. /\ k.num_cached_block[r] \in Int /\ kept \in Nat
       /\ max(k2.num_cached_block[r], 0) = kept
       /\ k2.num_cached_block[r] \in {k.num_cached_block[r], kept}
       /\ \A q \in Request : q # r => k2.num_cached_block[q] = k.num_cached_block[q]
       /\ kept <= max(kept, t \div BlockSize)
  <2>1. k.num_cached_block[r] \in Int
    BY <1>1, <1>3
  <2>2. kept \in Nat
    BY <1>4, <2>1 DEF max
  <2>3. kept <= max(kept, t \div BlockSize)
    <3> HIDE DEF kept
    <3> QED
      BY <1>5, <2>2 DEF max
  <2>4. CASE hit = <<>>
    <3>1. k2.num_cached_block = k.num_cached_block /\ Len(hit) = 0
      BY <1>6, <1>10, <2>4
    <3>2. max(k.num_cached_block[r], 0) = kept
      BY <2>1, <3>1 DEF max
    <3> QED
      BY <2>1, <2>2, <2>3, <3>1, <3>2
  <2>5. CASE hit # <<>>
    <3>1. k2.num_cached_block = [k.num_cached_block EXCEPT ![r] = Len(hit)]
      BY <1>6, <1>10, <2>5
    <3>2. kept = Len(hit)
      BY <1>1, <1>4, <2>5 DEF max, Absent
    <3>3. k2.num_cached_block[r] = Len(hit)
      BY <1>1, <1>3, <3>1
    <3>4. \A q \in Request : q # r => k2.num_cached_block[q] = k.num_cached_block[q]
      BY <1>3, <3>1
    <3>5. max(Len(hit), 0) = Len(hit)
      BY <1>4 DEF max
    <3> QED
      BY <2>1, <2>2, <2>3, <3>2, <3>3, <3>4, <3>5
  <2> QED
    BY <2>4, <2>5
<1>20. kept <= Len(blocks)
  <2>1. max(k.num_cached_block[r], 0) \in Nat
    BY <1>19 DEF max
  <2> HIDE DEF tr, blocks
  <2> QED
    BY <1>1, <1>4, <1>13, <1>14, <2>1
<1>21. \A i \in (kept + 1) .. (tc \div BlockSize) : lost[blocks[i]] = NoHash
  <2> SUFFICES ASSUME NEW i \in (kept + 1) .. (tc \div BlockSize) PROVE lost[blocks[i]] = NoHash
    OBVIOUS
  <2>1. /\ i \in Nat /\ i \in 1 .. Len(blocks) /\ i > kept
    <3> HIDE DEF blocks, kept
    <3> QED
      BY <1>5, <1>14, <1>19
  <2>2. blocks[i] \in Block
    <3> HIDE DEF blocks
    <3> QED
      BY <1>13, <2>1
  <2>3. max(k.num_cached_block[r], 0) \in Nat /\ i > max(k.num_cached_block[r], 0) /\ i > Len(hit)
    <3>1. max(k.num_cached_block[r], 0) \in Nat
      BY <1>19 DEF max
    <3> QED
      BY <1>4, <2>1, <3>1
  <2>4. CASE i \in 1 .. Len(tr) /\ blocks[i] = tr[i]
    <3>1. k.pool.block_hash[tr[i]] = NoHash
      <4>1. k.pool.block_hash[tr[i]] # NoHash => i <= max(k.num_cached_block[r], 0)
        BY <1>1, <2>4
      <4> QED
        BY <2>1, <2>3, <4>1
    <3> HIDE DEF blocks
    <3> QED
      BY <2>2, <2>4, <3>1
  <2>5. CASE blocks[i] \in ToSet(new)
    <3> HIDE DEF blocks
    <3> QED
      BY <2>2, <2>5
  <2>6. ~(i \in 1 .. Len(hit))
    BY <1>4, <2>3
  <2> QED
    BY <1>13, <2>1, <2>4, <2>5, <2>6
<1>22. /\ IsInjective(new) /\ new \in Seq(Block)
       /\ ToSet(new) \subseteq ToSet(k.pool.free) \ ToSet(hit)
  BY <1>10, <1>11
<1>23. CASE ~EnableCaching
  <2>1. m = k2
    BY <1>2, <1>23
  <2>2. OwnHashes(r, blocks, kept, kept, lost) = lost
    <3>1. (kept + 1) .. kept = {}
      <4> HIDE DEF kept
      <4> QED
        BY <1>19
    <3> HIDE DEF kept, blocks
    <3> QED
      BY <3>1 DEF OwnHashes
  <2> HIDE DEF m
  <2>3. Allocated(k, m, r, hit, new, kept)
    <3>1. Sound(m) /\ kept \in Nat /\ kept <= kept /\ kept <= Len(blocks)
      <4> HIDE DEF kept, blocks, k2
      <4> QED
        BY <1>10, <1>19, <1>20, <2>1
    <3>2. m.pool.block_hash = OwnHashes(r, blocks, kept, kept, lost)
      BY <1>17, <2>1, <2>2
    <3>3. /\ m.req_to_blocks = [k.req_to_blocks EXCEPT ![r] = blocks]
          /\ \A q \in Request : q # r => m.num_cached_block[q] = k.num_cached_block[q]
          /\ max(m.num_cached_block[r], 0) = kept
          /\ m.num_cached_block[r] \in {k.num_cached_block[r], kept}
      <4> HIDE DEF kept, blocks, k2
      <4> QED
        BY <1>16, <1>19, <2>1
    <3> QED
      BY <1>17, <1>18, <1>22, <2>1, <3>1, <3>2, <3>3 DEF Allocated, blocks, lost, kept
  <2>4. /\ kept <= max(kept, t \div BlockSize)
        /\ kept <= max(kept, (total_computed_tokens(c, hit) + n) \div BlockSize)
    <3>1. kept \in Nat
      BY <1>19, <1>20
    <3>2. \A x \in Nat : kept <= max(kept, x)
      <4> HIDE DEF kept
      <4> QED
        BY <3>1 DEF max
    <3>3. PICK x : x = total_computed_tokens(c, hit) + n
      OBVIOUS
    <3>4. x \in Nat /\ t \in Nat
      <4>1. total_computed_tokens(c, hit) \in Nat /\ n \in Nat /\ t \in Nat
        BY <1>1, NeedFacts DEF Allocatable
      <4> QED
        BY <3>3, <4>1
    <3>5. x \div BlockSize \in Nat /\ t \div BlockSize \in Nat
      BY <3>4, Constants, DivFacts
    <3> QED
      BY <3>2, <3>3, <3>5
  <2> QED
    BY <1>15, <1>19, <2>3, <2>4 DEF need, m, kept
<1>24. CASE EnableCaching
  <2> DEFINE f == max(kept, tc \div BlockSize)
  <2>1. m = k3
    BY <1>2, <1>24
  <2> HIDE DEF blocks, lost, kept
  <2>2. /\ Sound(k2) /\ r \in Request /\ tc \in Nat /\ tc <= Len(Text[r])
        /\ IsInjective(k2.req_to_blocks[r])
        /\ tc \div BlockSize <= Len(k2.req_to_blocks[r])
        /\ \A i \in (max(k2.num_cached_block[r], 0) + 1) .. (tc \div BlockSize) :
               k2.pool.block_hash[k2.req_to_blocks[r][i]] = NoHash
    <3>1. tc <= Len(Text[r])
      <4>1. Len(Text[r]) \in Nat
        BY <1>1, Constants
      <4> QED
        BY <1>1, <1>5, <4>1
    <3>2. tc \div BlockSize <= Len(blocks)
      BY <1>5, <1>14
    <3> QED
      BY <1>1, <1>5, <1>10, <1>13, <1>16, <1>17, <1>19, <1>21, <3>1, <3>2
  <2> HIDE DEF m, k3
  <2>3. /\ Sound(k3)
        /\ k3.req_to_blocks = k2.req_to_blocks
        /\ \A q \in Request : q # r => k3.num_cached_block[q] = k2.num_cached_block[q]
        /\ max(k3.num_cached_block[r], 0) = f
        /\ k3.num_cached_block[r] \in {k2.num_cached_block[r], f}
        /\ k3.pool.free = k2.pool.free /\ k3.pool.ref_cnt = k2.pool.ref_cnt
        /\ k3.pool.block_hash = OwnHashes(r, blocks, kept, f, lost)
    <3> HIDE DEF f
    <3>1. f = max(max(k2.num_cached_block[r], 0), tc \div BlockSize)
      BY <1>19 DEF f
    <3>2. /\ Sound(k3)
          /\ k3.req_to_blocks = k2.req_to_blocks
          /\ \A q \in Request : q # r => k3.num_cached_block[q] = k2.num_cached_block[q]
          /\ max(k3.num_cached_block[r], 0) = f
          /\ k3.num_cached_block[r] \in {k2.num_cached_block[r], f}
          /\ k3.pool.free = k2.pool.free /\ k3.pool.ref_cnt = k2.pool.ref_cnt
          /\ k3.pool.block_hash = OwnHashes(r, k2.req_to_blocks[r], max(k2.num_cached_block[r], 0),
                                            f, k2.pool.block_hash)
      BY <2>2, <3>1, CacheFacts DEF k3
    <3> QED
      BY <1>16, <1>17, <1>19, <3>2
  <2>4. f \in Nat /\ kept <= f /\ f <= Len(blocks) /\ f <= max(kept, t \div BlockSize)
    BY <1>5, <1>14, <1>19, <1>20 DEF max
  <2>5. k3.num_cached_block[r] \in {k.num_cached_block[r], f}
    <3>1. CASE f = kept
      BY <1>19, <2>3, <3>1
    <3>2. CASE k3.num_cached_block[r] = f
      BY <3>2
    <3>3. CASE k3.num_cached_block[r] = k2.num_cached_block[r] /\ f # kept
      <4>1. max(k3.num_cached_block[r], 0) = kept
        BY <1>19, <3>3
      <4> QED
        BY <2>3, <3>3, <4>1
    <3> QED
      BY <2>3, <3>1, <3>2, <3>3
  <2>6. f <= max(kept, (total_computed_tokens(c, hit) + n) \div BlockSize)
    <3>1. PICK x : x = total_computed_tokens(c, hit) + n
      OBVIOUS
    <3>2. total_computed_tokens(c, hit) \in Nat /\ n \in Nat
      BY <1>1, NeedFacts DEF Allocatable
    <3>3. x \in Nat /\ tc \in Nat /\ tc <= x
      <4>1. x \in Nat /\ t \in Nat
        BY <1>1, <3>1, <3>2
      <4>2. tc = min(x, t)
        BY <3>1 DEF tc
      <4> QED
        BY <4>1, <4>2 DEF min
    <3> HIDE DEF tc
    <3>4. tc \div BlockSize <= x \div BlockSize
      BY <3>3, Constants, DivMonotone
    <3>5. x \div BlockSize \in Nat /\ tc \div BlockSize \in Nat
      BY <3>3, Constants, DivFacts
    <3> QED
      BY <1>19, <1>20, <3>1, <3>4, <3>5 DEF max
  <2> HIDE DEF f
  <2>7. Allocated(k, m, r, hit, new, f)
    BY <1>16, <1>17, <1>18, <1>19, <1>22, <2>1, <2>3, <2>4, <2>5 DEF Allocated, blocks, lost, kept
  <2> QED
    BY <1>15, <2>4, <2>6, <2>7 DEF need, m, blocks, kept
<1> QED
  BY <1>23, <1>24

-----------------------------------------------------------------------------
\* What free_request() does: r loses its table, and its blocks that nobody else uses enter
\* the queue at its end, the last block first.
Freed(k, m, r) ==
    LET t == k.req_to_blocks[r]
    IN  /\ Sound(m)
        /\ m.req_to_blocks = [k.req_to_blocks EXCEPT ![r] = <<>>]
        /\ m.num_cached_block = [k.num_cached_block EXCEPT ![r] = Absent]
        /\ m.pool.block_hash = k.pool.block_hash
        /\ m.pool.ref_cnt = [b \in Block |-> IF b \in ToSet(t) THEN k.pool.ref_cnt[b] - 1
                                                            ELSE k.pool.ref_cnt[b]]
        /\ ToSet(m.pool.free) = ToSet(k.pool.free) \cup {b \in ToSet(t) : k.pool.ref_cnt[b] = 1}
        /\ \A a, b : Before(k.pool.free, a, b) => Before(m.pool.free, a, b)
        /\ \A a \in ToSet(k.pool.free), b \in ToSet(t) :
              k.pool.ref_cnt[b] = 1 => Before(m.pool.free, a, b)
        /\ \A i, j \in 1 .. Len(t) :
              i < j /\ k.pool.ref_cnt[t[i]] = 1 /\ k.pool.ref_cnt[t[j]] = 1 =>
                 Before(m.pool.free, t[j], t[i])

\* free_request() does that for a table without repetition whose blocks are referenced.
LEMMA FreeRequestFacts ==
    ASSUME NEW k, Sound(k), NEW r \in Request, IsInjective(k.req_to_blocks[r]),
           \A b \in ToSet(k.req_to_blocks[r]) : k.pool.ref_cnt[b] >= 1
    PROVE  Freed(k, free_request(k, r), r)
<1> DEFINE t  == k.req_to_blocks[r]
           s  == Reverse(t)
           p  == free_blocks(k.pool, s)
           tb == [k.req_to_blocks EXCEPT ![r] = <<>>]
           nc == [k.num_cached_block EXCEPT ![r] = Absent]
           m  == free_request(k, r)
           used == {b \in ToSet(s) : p.ref_cnt[b] # 0}
           back == without(s, used)
<1>1. /\ k.pool \in Pool(Hash) /\ Coherent(k.pool, Hash) /\ IsInjective(k.pool.free)
      /\ k.req_to_blocks \in [Request -> Seq(Block)]
      /\ k.num_cached_block \in [Request -> Int]
      /\ k.pool.free \in Seq(Block)
      /\ k.pool.ref_cnt \in [Block -> Int]
      /\ \A b \in Block : b \in ToSet(k.pool.free) <=> k.pool.ref_cnt[b] = 0
      /\ \A b \in Block : k.pool.ref_cnt[b] >= 0
  BY SoundFields
<1>2. /\ t \in Seq(Block) /\ IsInjective(t) /\ ToSet(t) \subseteq Block
      /\ \A b \in ToSet(t) : k.pool.ref_cnt[b] >= 1
  <2>1. t \in Seq(Block)
    BY <1>1
  <2> QED
    BY <2>1, SeqFacts
<1>3. m = [pool |-> p, req_to_blocks |-> tb, num_cached_block |-> nc]
  BY DEF free_request
<1> HIDE DEF t
<1>4. /\ s \in Seq(Block) /\ ToSet(s) = ToSet(t) /\ IsInjective(s)
      /\ \A i, j \in 1 .. Len(t) : i < j => Before(s, t[j], t[i])
  BY <1>2, ReverseFacts
<1> HIDE DEF s
<1>5. /\ p \in Pool(Hash)
      /\ p.ref_cnt = [b \in Block |-> IF b \in ToSet(s) THEN k.pool.ref_cnt[b] - 1
                                                     ELSE k.pool.ref_cnt[b]]
      /\ p.free = k.pool.free \o back
      /\ p.block_hash = k.pool.block_hash
      /\ p.cache = k.pool.cache
  BY <1>1, <1>4, FreeFacts
<1> HIDE DEF p
<1>6. /\ back \in Seq(Block) /\ ToSet(back) = ToSet(s) \ used /\ IsInjective(back)
      /\ \A a, b : a \notin used /\ b \notin used /\ Before(s, a, b) => Before(back, a, b)
  <2> HIDE DEF used
  <2> QED
    BY <1>4, WithoutFacts
<1>7. \A b \in ToSet(s) : b \in Block /\ k.pool.ref_cnt[b] \in Int /\ k.pool.ref_cnt[b] >= 1
                          /\ p.ref_cnt[b] = k.pool.ref_cnt[b] - 1
  BY <1>1, <1>2, <1>4, <1>5
<1>8. \A b \in ToSet(s) : b \notin used <=> k.pool.ref_cnt[b] = 1
  BY <1>7
<1>9. ToSet(back) = {b \in ToSet(t) : k.pool.ref_cnt[b] = 1}
  <2> HIDE DEF used, back
  <2> QED
    BY <1>4, <1>6, <1>8
<1>10. ToSet(k.pool.free) \cap ToSet(back) = {}
  <2> HIDE DEF back
  <2>1. \A b \in ToSet(back) : b \in Block /\ k.pool.ref_cnt[b] = 1
    BY <1>2, <1>9
  <2> QED
    BY <1>1, <2>1
<1> HIDE DEF back, used
<1>11. /\ p.free \in Seq(Block) /\ ToSet(p.free) = ToSet(k.pool.free) \cup ToSet(back)
       /\ IsInjective(p.free)
       /\ \A a, b : Before(k.pool.free, a, b) \/ Before(back, a, b) => Before(p.free, a, b)
       /\ \A a \in ToSet(k.pool.free), b \in ToSet(back) : Before(p.free, a, b)
  BY <1>1, <1>5, <1>6, <1>10, AppendFacts
<1>12. \A b \in Block : p.ref_cnt[b] >= 0 /\ (b \in ToSet(p.free) <=> p.ref_cnt[b] = 0)
  <2> SUFFICES ASSUME NEW b \in Block
               PROVE  p.ref_cnt[b] >= 0 /\ (b \in ToSet(p.free) <=> p.ref_cnt[b] = 0)
    OBVIOUS
  <2>1. k.pool.ref_cnt[b] \in Int /\ k.pool.ref_cnt[b] >= 0
        /\ (b \in ToSet(k.pool.free) <=> k.pool.ref_cnt[b] = 0)
    BY <1>1
  <2>2. CASE b \in ToSet(s)
    BY <1>4, <1>7, <1>9, <1>11, <2>1, <2>2
  <2>3. CASE b \notin ToSet(s)
    BY <1>4, <1>5, <1>9, <1>11, <2>1, <2>3
  <2> QED
    BY <2>2, <2>3
<1>13. tb \in [Request -> Seq(Block)] /\ nc \in [Request -> Int]
  BY <1>1 DEF Absent
<1> HIDE DEF tb, nc
<1>14. m \in Manager /\ m.pool = p /\ m.req_to_blocks = tb /\ m.num_cached_block = nc
  BY <1>3, <1>5, <1>13 DEF Manager
<1> HIDE DEF m
<1>15. Coherent(p, Hash)
  BY <1>1, <1>5 DEF Coherent
<1>16. Sound(m)
  BY <1>11, <1>12, <1>14, <1>15 DEF Sound
<1>17. ASSUME NEW i \in 1 .. Len(t), NEW j \in 1 .. Len(t),
              i < j, k.pool.ref_cnt[t[i]] = 1, k.pool.ref_cnt[t[j]] = 1
       PROVE  Before(p.free, t[j], t[i])
  <2>1. t[i] \in ToSet(s) /\ t[j] \in ToSet(s)
    BY <1>2, <1>4, SeqFacts
  <2>2. t[i] \notin used /\ t[j] \notin used /\ Before(s, t[j], t[i])
    BY <1>4, <1>8, <1>17, <2>1
  <2> QED
    BY <1>6, <1>11, <2>2
<1>18. \A a \in ToSet(k.pool.free), b \in ToSet(t) : k.pool.ref_cnt[b] = 1 => Before(p.free, a, b)
  BY <1>9, <1>11
<1>19. Freed(k, m, r)
  BY <1>4, <1>5, <1>9, <1>11, <1>14, <1>16, <1>17, <1>18 DEF Freed, t, tb, nc
<1> QED
  BY <1>19 DEF m

\* evict_blocks() and reset_prefix_cache() take hashes and nothing else.
LEMMA UnhashFacts ==
    ASSUME NEW k, Sound(k), NEW S \in SUBSET Block
    PROVE  /\ LET m == [k EXCEPT !.pool = evict_blocks(@, S)]
              IN  /\ Sound(m)
                  /\ m.req_to_blocks = k.req_to_blocks /\ m.num_cached_block = k.num_cached_block
                  /\ m.pool.free = k.pool.free /\ m.pool.ref_cnt = k.pool.ref_cnt
                  /\ m.pool.block_hash =
                        [b \in Block |-> IF b \in S THEN NoHash ELSE k.pool.block_hash[b]]
           /\ LET m == [k EXCEPT !.pool = reset_prefix_cache(@)]
              IN  /\ Sound(m)
                  /\ m.req_to_blocks = k.req_to_blocks /\ m.num_cached_block = k.num_cached_block
                  /\ m.pool.free = k.pool.free /\ m.pool.ref_cnt = k.pool.ref_cnt
                  /\ m.pool.block_hash = [b \in Block |-> NoHash]
<1>1. /\ k \in Manager /\ k.pool \in Pool(Hash) /\ Coherent(k.pool, Hash) /\ IsInjective(k.pool.free)
      /\ \A b \in Block : b \in ToSet(k.pool.free) <=> k.pool.ref_cnt[b] = 0
      /\ \A b \in Block : k.pool.ref_cnt[b] >= 0
  BY SoundFields
<1>2. ASSUME NEW p \in Pool(Hash), Coherent(p, Hash), p.free = k.pool.free, p.ref_cnt = k.pool.ref_cnt
      PROVE  LET m == [k EXCEPT !.pool = p]
             IN  /\ Sound(m) /\ m.pool = p
                 /\ m.req_to_blocks = k.req_to_blocks /\ m.num_cached_block = k.num_cached_block
  <2> DEFINE m == [k EXCEPT !.pool = p]
  <2>1. /\ m \in Manager /\ m.pool = p
        /\ m.req_to_blocks = k.req_to_blocks /\ m.num_cached_block = k.num_cached_block
    BY <1>1 DEF Manager
  <2> HIDE DEF m
  <2>2. Sound(m)
    BY <1>1, <1>2, <2>1 DEF Sound
  <2> QED
    BY <2>1, <2>2 DEF m
<1>3. PICK p : p = evict_blocks(k.pool, S)
  OBVIOUS
<1>4. /\ p \in Pool(Hash) /\ Coherent(p, Hash) /\ p.free = k.pool.free /\ p.ref_cnt = k.pool.ref_cnt
      /\ p.block_hash = [b \in Block |-> IF b \in S THEN NoHash ELSE k.pool.block_hash[b]]
  BY <1>1, <1>3, NoHashIsNone, EvictFacts DEF evict_blocks
<1>5. PICK q : q = reset_prefix_cache(k.pool)
  OBVIOUS
<1>6. /\ q \in Pool(Hash) /\ Coherent(q, Hash) /\ q.free = k.pool.free /\ q.ref_cnt = k.pool.ref_cnt
      /\ q.block_hash = [b \in Block |-> NoHash]
  BY <1>1, <1>5, NoHashIsNone, ResetFacts
<1>7. /\ [k EXCEPT !.pool = evict_blocks(@, S)] = [k EXCEPT !.pool = p]
      /\ [k EXCEPT !.pool = reset_prefix_cache(@)] = [k EXCEPT !.pool = q]
  BY <1>3, <1>5
<1> QED
  BY <1>2, <1>4, <1>6, <1>7, ZenonT(60)

\* The blocks of a prefix-cache hit carry the first hashes of r, and the hit leaves at
\* least one of its t tokens to be computed.
LEMMA LookupFacts ==
    ASSUME NEW k, Sound(k), NEW r \in Request, NEW t \in 1 .. Len(Text[r])
    PROVE  LET hit == get_computed_blocks(k, r, t)
           IN  /\ hit \in Seq(Block) /\ IsInjective(hit)
               /\ Len(hit) <= (t - 1) \div BlockSize
               /\ \A i \in 1 .. Len(hit) : /\ i \in FullBlocks(r)
                                           /\ k.pool.block_hash[hit[i]] = block_hashes(r, i)
<1> DEFINE hit == get_computed_blocks(k, r, t)
           d   == (t - 1) \div BlockSize
<1>1. /\ t - 1 \in Nat /\ BlockSize \in Nat \ {0} /\ Len(Text[r]) \in Nat /\ t - 1 <= Len(Text[r])
      /\ d \in Nat /\ d <= Len(Text[r]) \div BlockSize /\ Len(Text[r]) \div BlockSize \in Nat
  <2>1. /\ t - 1 \in Nat /\ BlockSize \in Nat \ {0} /\ Len(Text[r]) \in Nat /\ t - 1 <= Len(Text[r])
    BY Constants
  <2>2. d \in Nat /\ d <= Len(Text[r]) \div BlockSize /\ Len(Text[r]) \div BlockSize \in Nat
    <3>1. PICK a : a = t - 1
      OBVIOUS
    <3> QED
      BY <2>1, <3>1, DivFacts, DivMonotone
  <2> QED
    BY <2>1, <2>2
<1> HIDE DEF d
<1>2. CASE ~EnableCaching
  <2>1. hit = <<>>
    BY <1>2 DEF get_computed_blocks
  <2>2. <<>> \in Seq(Block) /\ IsInjective(<<>>) /\ Len(<<>>) = 0
    BY DEF IsInjective
  <2> HIDE DEF hit
  <2>3. /\ hit \in Seq(Block) /\ IsInjective(hit) /\ Len(hit) = 0
    BY <2>1, <2>2
  <2>4. Len(hit) <= d
    BY <1>1, <2>3
  <2>5. \A i \in 1 .. Len(hit) : FALSE
    BY <2>3
  <2> QED
    BY <2>3, <2>4, <2>5 DEF hit, d
<1>3. CASE EnableCaching
  <2> DEFINE hits == {n \in 0 .. d : \A i \in 1 .. n : IsCached(k.pool, block_hashes(r, i))}
             longest == CHOOSE n \in hits : \A m \in hits : m <= n
             kept == IF UseEagle /\ longest > 0 THEN longest - 1 ELSE longest
  <2>1. hit = [i \in 1 .. kept |-> get_one_block(k.pool, block_hashes(r, i))]
    BY <1>3 DEF get_computed_blocks, find_longest_cache_hit, d
  <2>2. longest \in hits
    <3>1. 0 \in hits /\ hits \subseteq 0 .. d
      BY <1>1
    <3>2. \E n \in hits : \A m \in hits : m <= n
      <4> HIDE DEF hits
      <4> QED
        BY <1>1, <3>1, GreatestNat
    <3> HIDE DEF hits
    <3> QED
      BY <3>2
  <2> HIDE DEF longest
  <2>3. /\ kept \in 0 .. d /\ kept \in Nat
        /\ \A i \in 1 .. kept : IsCached(k.pool, block_hashes(r, i))
    <3>1. /\ longest \in 0 .. d
          /\ \A i \in 1 .. longest : IsCached(k.pool, block_hashes(r, i))
      BY <2>2
    <3> HIDE DEF hits
    <3>2. kept \in 0 .. d /\ kept \in Nat /\ kept <= longest
      BY <1>1, <3>1
    <3> HIDE DEF kept
    <3> QED
      BY <1>1, <3>1, <3>2
  <2> HIDE DEF kept, hits
  <2>4. ASSUME NEW i \in 1 .. kept
        PROVE  /\ i \in FullBlocks(r) /\ hit[i] \in Block
               /\ k.pool.block_hash[hit[i]] = block_hashes(r, i)
    <3>1. i \in FullBlocks(r)
      <4>1. PICK z \in Nat : z = Len(Text[r]) \div BlockSize /\ d <= z
        BY <1>1
      <4>2. kept \in Nat /\ d \in Nat /\ kept <= d
        BY <1>1, <2>3
      <4>3. i \in 1 .. z
        <5>1. i \in Nat /\ 1 <= i /\ i <= kept
          BY <4>2
        <5> QED
          BY <4>1, <4>2, <5>1
      <4> QED
        BY <4>1, <4>3 DEF FullBlocks
    <3>2. PICK h : h = block_hashes(r, i)
      OBVIOUS
    <3>3. h \in Hash /\ IsCached(k.pool, h) /\ hit[i] = get_one_block(k.pool, h)
      BY <2>1, <2>3, <3>1, <3>2, HashFacts
    <3>4. k.pool.cache[h] \in Seq(Block) /\ k.pool.cache[h] # <<>>
          /\ ToSet(k.pool.cache[h]) = {b \in Block : k.pool.block_hash[b] = h}
      <4>1. k.pool.cache \in [Hash -> Seq(Block)] /\ Coherent(k.pool, Hash)
        BY SoundFields
      <4> QED
        BY <3>3, <4>1 DEF Coherent, IsCached
    <3>5. Len(k.pool.cache[h]) \in Nat \ {0} /\ Head(k.pool.cache[h]) = k.pool.cache[h][1]
      BY <3>4
    <3>6. hit[i] \in ToSet(k.pool.cache[h])
      <4>1. 1 \in 1 .. Len(k.pool.cache[h])
        BY <3>5
      <4>2. hit[i] = k.pool.cache[h][1]
        BY <3>3, <3>5 DEF get_one_block
      <4> QED
        BY <3>4, <4>1, <4>2, SeqFacts
    <3> QED
      BY <3>1, <3>2, <3>4, <3>6
  <2>5. hit \in Seq(Block) /\ Len(hit) = kept
    <3>1. hit = [i \in 1 .. kept |-> hit[i]]
      BY <2>1
    <3> HIDE DEF hit
    <3> QED
      BY <2>3, <2>4, <3>1
  <2> HIDE DEF hit
  <2>6. IsInjective(hit)
    <3>1. ASSUME NEW i \in 1 .. kept, NEW j \in 1 .. kept, hit[i] = hit[j] PROVE i = j
      <4>1. i \in FullBlocks(r) /\ j \in FullBlocks(r) /\ block_hashes(r, i) = block_hashes(r, j)
        BY <2>4, <3>1
      <4> QED
        BY <4>1, HashUnique
    <3> QED
      BY <2>5, <3>1, SeqFacts
  <2> QED
    BY <1>1, <2>3, <2>4, <2>5, <2>6 DEF hit, d
<1> QED
  BY <1>2, <1>3

-----------------------------------------------------------------------------
(* The tables of all requests.                                                *)

CachedOf(k, r) == max(k.num_cached_block[r], 0)

\* The requests that hold b.
Users(k, b) == {q \in Request : b \in ToSet(k.req_to_blocks[q])}

\* No block is twice in a table, and the cached blocks are full blocks of it.
TidyTable(k, r) ==
    /\ IsInjective(k.req_to_blocks[r])
    /\ CachedOf(k, r) <= Len(k.req_to_blocks[r])
    /\ CachedOf(k, r) <= Len(Text[r]) \div BlockSize
    /\ k.req_to_blocks[r] = <<>> => k.num_cached_block[r] = Absent

\* A block carries no hash but that of its place in r, and then it is cached there.
OwnHash(k, r) ==
    \A i \in 1 .. Len(k.req_to_blocks[r]) :
        k.pool.block_hash[k.req_to_blocks[r][i]] # NoHash =>
            /\ i <= CachedOf(k, r)
            /\ k.pool.block_hash[k.req_to_blocks[r][i]] = block_hashes(r, i)

\* r and q share a block only as the same cached block of a common prefix.
Shares(k, r, q) ==
    \A i \in 1 .. Len(k.req_to_blocks[r]), j \in 1 .. Len(k.req_to_blocks[q]) :
        k.req_to_blocks[r][i] = k.req_to_blocks[q][j] =>
            /\ i = j /\ i <= CachedOf(k, r) /\ i <= CachedOf(k, q)
            /\ block_hashes(r, i) = block_hashes(q, i)

\* A manager whose tables, counts and hashes are in order.
InOrder(k) ==
    /\ Sound(k)
    /\ \A r \in Request : TidyTable(k, r) /\ OwnHash(k, r)
    /\ \A b \in Block : k.pool.ref_cnt[b] = Cardinality(Users(k, b))
    /\ \A r, q \in Request : r # q => Shares(k, r, q)

\* The types of a table.
LEMMA TableTypes ==
    ASSUME NEW k, Sound(k), NEW r \in Request
    PROVE  /\ k.req_to_blocks[r] \in Seq(Block) /\ Len(k.req_to_blocks[r]) \in Nat
           /\ k.num_cached_block[r] \in Int /\ CachedOf(k, r) \in Nat
           /\ Len(Text[r]) \div BlockSize \in Nat
           /\ \A i \in 1 .. Len(k.req_to_blocks[r]) :
                 k.req_to_blocks[r][i] \in Block /\ k.req_to_blocks[r][i] \in ToSet(k.req_to_blocks[r])
<1>1. k.req_to_blocks[r] \in Seq(Block) /\ k.num_cached_block[r] \in Int
  BY SoundFields
<1>2. Len(Text[r]) \div BlockSize \in Nat
  BY Constants, DivFacts
<1>3. PICK t \in Seq(Block) : t = k.req_to_blocks[r]
  BY <1>1
<1> QED
  BY <1>1, <1>2, <1>3, SeqFacts DEF CachedOf, max

\* A block is free exactly if no table holds it.
LEMMA FreeUnused ==
    ASSUME NEW k, InOrder(k), NEW b \in Block
    PROVE  /\ IsFiniteSet(Users(k, b)) /\ k.pool.ref_cnt[b] = Cardinality(Users(k, b))
           /\ Cardinality(Users(k, b)) \in Nat
           /\ b \in ToSet(k.pool.free) <=> \A q \in Request : b \notin ToSet(k.req_to_blocks[q])
<1>1. IsFiniteSet(Users(k, b)) /\ Cardinality(Users(k, b)) \in Nat
  BY Constants, FS_Subset, FS_CardinalityType DEF Users
<1>2. k.pool.ref_cnt[b] = Cardinality(Users(k, b)) /\ Sound(k)
  BY DEF InOrder
<1>3. b \in ToSet(k.pool.free) <=> k.pool.ref_cnt[b] = 0
  BY <1>2, SoundFields
<1>4. Cardinality(Users(k, b)) = 0 <=> Users(k, b) = {}
  BY <1>1, FS_EmptySet
<1> QED
  BY <1>1, <1>2, <1>3, <1>4 DEF Users

\* One request more, or less.
LEMMA CountMore ==
    ASSUME NEW S, NEW T, NEW x, IsFiniteSet(S), x \notin S, T = S \cup {x}
    PROVE  Cardinality(T) = Cardinality(S) + 1
BY FS_AddElement

\* One request less.
LEMMA CountLess ==
    ASSUME NEW S, NEW T, NEW x, IsFiniteSet(S), x \in S, T = S \ {x}
    PROVE  Cardinality(T) = Cardinality(S) - 1
BY FS_RemoveElement

\* free_request() keeps the order: exactly the blocks that only r held become free.
LEMMA FreedInOrder ==
    ASSUME NEW k, InOrder(k), NEW r \in Request
    PROVE  Freed(k, free_request(k, r), r) /\ InOrder(free_request(k, r))
<1>1. PICK m : m = free_request(k, r)
  OBVIOUS
<1>2. Sound(k) /\ IsInjective(k.req_to_blocks[r])
  BY DEF InOrder, TidyTable
<1>3. /\ k.req_to_blocks[r] \in Seq(Block) /\ k.req_to_blocks \in [Request -> Seq(Block)]
      /\ k.num_cached_block \in [Request -> Int] /\ ToSet(k.req_to_blocks[r]) \subseteq Block
  BY <1>2, SoundFields, SeqFacts
<1>4. ASSUME NEW b \in ToSet(k.req_to_blocks[r]) PROVE k.pool.ref_cnt[b] >= 1
  <2>1. b \in Block /\ r \in Users(k, b)
    BY <1>3 DEF Users
  <2>2. k.pool.ref_cnt[b] = Cardinality(Users(k, b)) /\ IsFiniteSet(Users(k, b))
    BY <2>1, FreeUnused
  <2>3. Cardinality(Users(k, b)) # 0 /\ Cardinality(Users(k, b)) \in Nat
    BY <2>1, <2>2, FS_EmptySet, FS_CardinalityType
  <2> QED
    BY <2>2, <2>3
<1>5. Freed(k, m, r)
  BY <1>1, <1>2, <1>4, FreeRequestFacts
<1>6. /\ Sound(m)
      /\ m.req_to_blocks = [k.req_to_blocks EXCEPT ![r] = <<>>]
      /\ m.num_cached_block = [k.num_cached_block EXCEPT ![r] = Absent]
      /\ m.pool.block_hash = k.pool.block_hash
      /\ m.pool.ref_cnt = [b \in Block |-> IF b \in ToSet(k.req_to_blocks[r]) THEN k.pool.ref_cnt[b] - 1
                                                                           ELSE k.pool.ref_cnt[b]]
  BY <1>5 DEF Freed
<1>7. /\ m.req_to_blocks[r] = <<>> /\ m.num_cached_block[r] = Absent
      /\ \A q \in Request : q # r => /\ m.req_to_blocks[q] = k.req_to_blocks[q]
                                     /\ m.num_cached_block[q] = k.num_cached_block[q]
  BY <1>3, <1>6
<1>8. Len(m.req_to_blocks[r]) = 0 /\ ToSet(m.req_to_blocks[r]) = {} /\ CachedOf(m, r) = 0
  BY <1>7 DEF ToSet, CachedOf, Absent, max
<1>9. \A q \in Request : q # r => CachedOf(m, q) = CachedOf(k, q)
  BY <1>7 DEF CachedOf
<1>10. ASSUME NEW q \in Request PROVE TidyTable(m, q) /\ OwnHash(m, q)
  <2>1. CASE q = r
    <3>1. IsInjective(m.req_to_blocks[r])
      BY <1>7 DEF IsInjective
    <3>2. Len(Text[r]) \div BlockSize \in Nat
      BY <1>2, TableTypes
    <3> QED
      BY <2>1, <1>7, <1>8, <3>1, <3>2 DEF TidyTable, OwnHash
  <2>2. CASE q # r
    <3>1. TidyTable(k, q) /\ OwnHash(k, q)
      BY DEF InOrder
    <3> QED
      BY <2>2, <3>1, <1>6, <1>7, <1>9 DEF TidyTable, OwnHash
  <2> QED
    BY <2>1, <2>2
<1>11. ASSUME NEW b \in Block PROVE m.pool.ref_cnt[b] = Cardinality(Users(m, b))
  <2>1. k.pool.ref_cnt[b] = Cardinality(Users(k, b)) /\ IsFiniteSet(Users(k, b))
    BY FreeUnused
  <2>2. Users(m, b) = Users(k, b) \ {r}
    BY <1>7, <1>8 DEF Users
  <2>3. CASE b \in ToSet(k.req_to_blocks[r])
    <3>1. r \in Users(k, b)
      BY <2>3 DEF Users
    <3>2. Cardinality(Users(m, b)) = Cardinality(Users(k, b)) - 1
      BY <2>1, <2>2, <3>1, CountLess
    <3>3. m.pool.ref_cnt[b] = k.pool.ref_cnt[b] - 1
      BY <1>6, <2>3
    <3> QED
      BY <2>1, <3>2, <3>3
  <2>4. CASE b \notin ToSet(k.req_to_blocks[r])
    <3>1. Users(m, b) = Users(k, b)
      BY <2>2, <2>4 DEF Users
    <3>2. m.pool.ref_cnt[b] = k.pool.ref_cnt[b]
      BY <1>6, <2>4
    <3> QED
      BY <2>1, <3>1, <3>2
  <2> QED
    BY <2>3, <2>4
<1>12. ASSUME NEW p \in Request, NEW q \in Request, p # q PROVE Shares(m, p, q)
  <2>1. CASE p = r \/ q = r
    BY <1>8, <2>1 DEF Shares
  <2>2. CASE p # r /\ q # r
    <3>1. Shares(k, p, q)
      BY <1>12 DEF InOrder
    <3> QED
      BY <1>7, <1>9, <2>2, <3>1 DEF Shares
  <2> QED
    BY <2>1, <2>2
<1>13. InOrder(m)
  BY <1>6, <1>10, <1>11, <1>12 DEF InOrder
<1> QED
  BY <1>1, <1>5, <1>13

\* allocate_slots() keeps the order: new blocks are in no table, and only blocks that no
\* other request holds get a hash.
LEMMA AllocatedInOrder ==
    ASSUME NEW k, NEW m, InOrder(k), NEW r \in Request, NEW hit \in Seq(Block), NEW new, NEW f,
           IsInjective(hit), hit # <<>> => k.req_to_blocks[r] = <<>>,
           \A i \in 1 .. Len(hit) : /\ i \in FullBlocks(r)
                                    /\ k.pool.block_hash[hit[i]] = block_hashes(r, i),
           Allocated(k, m, r, hit, new, f), f <= Len(Text[r]) \div BlockSize,
           m.req_to_blocks[r] = <<>> => m.num_cached_block[r] = Absent
    PROVE  InOrder(m)
<1>1. PICK t, s, c : t = k.req_to_blocks[r] /\ s = t \o hit \o new /\ c = CachedOf(k, r) + Len(hit)
  OBVIOUS
<1>2. /\ Sound(m) /\ new \in Seq(Block) /\ IsInjective(new)
      /\ ToSet(new) \subseteq ToSet(k.pool.free) \ ToSet(hit)
      /\ f \in Nat /\ c <= f /\ f <= Len(s)
      /\ m.req_to_blocks = [k.req_to_blocks EXCEPT ![r] = s]
      /\ \A q \in Request : q # r => m.num_cached_block[q] = k.num_cached_block[q]
      /\ CachedOf(m, r) = f
  BY <1>1 DEF Allocated, CachedOf
<1>3. m.pool.block_hash = OwnHashes(r, s, c, f,
          [b \in Block |-> IF b \in ToSet(new) THEN NoHash ELSE k.pool.block_hash[b]])
  BY <1>1 DEF Allocated, CachedOf
<1>4. m.pool.ref_cnt = [b \in Block |-> IF b \in ToSet(hit) \cup ToSet(new)
                                        THEN k.pool.ref_cnt[b] + 1 ELSE k.pool.ref_cnt[b]]
  BY DEF Allocated
<1>5. /\ Sound(k) /\ t \in Seq(Block) /\ Len(t) \in Nat /\ CachedOf(k, r) \in Nat
      /\ k.req_to_blocks \in [Request -> Seq(Block)] /\ Len(hit) \in Nat /\ Len(new) \in Nat
      /\ IsInjective(t) /\ CachedOf(k, r) <= Len(t) /\ c \in Nat
      /\ k.pool.block_hash \in [Block -> Hash \cup {NoHash}]
  <2>1. Sound(k) /\ TidyTable(k, r)
    BY DEF InOrder
  <2>2. Len(hit) \in Nat /\ Len(new) \in Nat
    BY <1>2, SeqFacts
  <2>3. CachedOf(k, r) \in Nat
    BY <2>1, TableTypes
  <2> QED
    BY <1>1, <2>1, <2>2, <2>3, TableTypes, SoundFields DEF TidyTable
<1>6. ASSUME NEW b \in ToSet(new)
      PROVE  b \in Block /\ b \notin ToSet(hit) /\ \A q \in Request : b \notin ToSet(k.req_to_blocks[q])
  <2>1. b \in Block /\ b \in ToSet(k.pool.free) /\ b \notin ToSet(hit)
    BY <1>2, SeqFacts
  <2> QED
    BY <2>1, FreeUnused
<1>7. /\ s \in Seq(Block) /\ Len(s) = Len(t) + Len(hit) + Len(new)
      /\ IsInjective(s) /\ ToSet(s) = ToSet(t) \cup ToSet(hit) \cup ToSet(new)
      /\ \A i \in 1 .. (Len(t) + Len(hit) + Len(new)) :
            \/ i \in 1 .. Len(t) /\ s[i] = t[i]
            \/ i \in 1 .. Len(hit) /\ s[i] = hit[i]
            \/ s[i] \in ToSet(new)
      /\ \A i \in 1 .. Len(t) : s[i] = t[i]
      /\ \A i \in 1 .. Len(hit) : s[i] = hit[i]
  <2>1. ToSet(new) \cap ToSet(hit) = {} /\ ToSet(new) \cap ToSet(t) = {}
    BY <1>1, <1>6
  <2>2. hit # <<>> => t = <<>>
    BY <1>1
  <2>3. t \in Seq(Block) /\ new \in Seq(Block) /\ IsInjective(t) /\ IsInjective(new)
    BY <1>2, <1>5
  <2>4. s = t \o hit \o new
    BY <1>1
  <2>5. /\ t \in Seq(Block) /\ hit \in Seq(Block) /\ new \in Seq(Block)
        /\ IsInjective(t) /\ IsInjective(hit) /\ IsInjective(new) /\ (hit # <<>> => t = <<>>)
        /\ ToSet(new) \cap ToSet(hit) = {} /\ ToSet(new) \cap ToSet(t) = {}
    BY <2>1, <2>2, <2>3
  <2> DEFINE u == t \o hit \o new
  <2>6. /\ u \in Seq(Block) /\ Len(u) = Len(t) + Len(hit) + Len(new)
        /\ IsInjective(u) /\ ToSet(u) = ToSet(t) \cup ToSet(hit) \cup ToSet(new)
        /\ \A i \in 1 .. (Len(t) + Len(hit) + Len(new)) :
              \/ i \in 1 .. Len(t) /\ u[i] = t[i]
              \/ i \in 1 .. Len(hit) /\ u[i] = hit[i]
              \/ u[i] \in ToSet(new)
        /\ \A i \in 1 .. Len(t) : u[i] = t[i]
        /\ \A i \in 1 .. Len(hit) : u[i] = hit[i]
    <3> HIDE DEF u
    <3> QED
      BY <2>5, GrownTable DEF u
  <2>7. s = u
    BY <2>4
  <2> HIDE DEF u
  <2> QED
    BY <2>6, <2>7
<1>8. hit # <<>> => Len(t) = 0 /\ CachedOf(k, r) = 0 /\ ToSet(t) = {}
  <2>1. hit # <<>> => t = <<>>
    BY <1>1
  <2> QED
    BY <1>5, <2>1 DEF ToSet
\* A hit block is cached under its hash.
<1>9. ASSUME NEW i \in 1 .. Len(hit)
      PROVE  /\ hit[i] \in Block /\ i \in FullBlocks(r) /\ i \in Nat /\ i <= c
             /\ k.pool.block_hash[hit[i]] = block_hashes(r, i)
             /\ k.pool.block_hash[hit[i]] # NoHash
  <2>1. i \in FullBlocks(r) /\ k.pool.block_hash[hit[i]] = block_hashes(r, i)
    OBVIOUS
  <2>2. block_hashes(r, i) # NoHash
    BY <2>1, HashFacts, NoHashIsNone
  <2>3. hit[i] \in Block
    BY SeqFacts
  <2>4. i \in Nat /\ i <= c
    BY <1>1, <1>5
  <2> QED
    BY <2>1, <2>2, <2>3, <2>4
\* Who holds what afterwards.
<1>10. /\ m.req_to_blocks[r] = s
       /\ \A q \in Request : q # r => m.req_to_blocks[q] = k.req_to_blocks[q] /\ CachedOf(m, q) = CachedOf(k, q)
  BY <1>2, <1>5 DEF CachedOf
<1>11. ASSUME NEW b \in Block PROVE m.pool.ref_cnt[b] = Cardinality(Users(m, b))
  <2>1. k.pool.ref_cnt[b] = Cardinality(Users(k, b)) /\ IsFiniteSet(Users(k, b))
    BY FreeUnused
  <2>2. CASE b \in ToSet(hit) \cup ToSet(new)
    <3>1. b \notin ToSet(t)
      <4>1. b \in ToSet(hit) => hit # <<>>
        BY DEF ToSet
      <4> QED
        BY <1>1, <1>6, <1>8, <2>2, <4>1
    <3>2. r \notin Users(k, b) /\ Users(m, b) = Users(k, b) \cup {r}
      BY <1>1, <1>7, <1>10, <2>2, <3>1 DEF Users
    <3>3. Cardinality(Users(m, b)) = Cardinality(Users(k, b)) + 1
      BY <2>1, <3>2, CountMore
    <3>4. m.pool.ref_cnt[b] = k.pool.ref_cnt[b] + 1
      BY <1>4, <2>2
    <3> QED
      BY <2>1, <3>3, <3>4
  <2>3. CASE b \notin ToSet(hit) \cup ToSet(new)
    <3>1. Users(m, b) = Users(k, b)
      BY <1>1, <1>7, <1>10, <2>3 DEF Users
    <3>2. m.pool.ref_cnt[b] = k.pool.ref_cnt[b]
      BY <1>4, <2>3
    <3> QED
      BY <2>1, <3>1, <3>2
  <2> QED
    BY <2>2, <2>3
\* A block past the old cached ones that some other request holds is not there.
<1>12. ASSUME NEW q \in Request, q # r, NEW j \in 1 .. Len(k.req_to_blocks[q]),
              NEW i \in 1 .. Len(s), s[i] = k.req_to_blocks[q][j]
       PROVE  /\ i = j /\ i <= c /\ i <= CachedOf(k, q)
              /\ block_hashes(r, i) = block_hashes(q, i)
  <2>1. /\ k.req_to_blocks[q][j] \in Block /\ k.req_to_blocks[q][j] \in ToSet(k.req_to_blocks[q])
        /\ CachedOf(k, q) \in Nat /\ Len(k.req_to_blocks[q]) \in Nat
    BY <1>5, <1>12, TableTypes
  <2>2. s[i] \notin ToSet(new)
    BY <1>6, <1>12, <2>1
  <2>3. CASE i \in 1 .. Len(t) /\ s[i] = t[i]
    <3>1. Shares(k, r, q)
      BY <1>12 DEF InOrder
    <3>2. /\ i = j /\ i <= CachedOf(k, r) /\ i <= CachedOf(k, q)
          /\ block_hashes(r, i) = block_hashes(q, i)
      BY <1>1, <1>12, <2>3, <3>1 DEF Shares
    <3>3. i <= c
      BY <1>1, <1>5, <3>2
    <3> QED
      BY <3>2, <3>3
  <2>4. CASE i \in 1 .. Len(hit) /\ s[i] = hit[i]
    <3>1. /\ k.pool.block_hash[k.req_to_blocks[q][j]] # NoHash
          /\ k.pool.block_hash[k.req_to_blocks[q][j]] = block_hashes(r, i)
          /\ i \in FullBlocks(r) /\ i <= c
      BY <1>9, <1>12, <2>4
    <3>2. OwnHash(k, q) /\ TidyTable(k, q)
      BY DEF InOrder
    <3>3. j <= CachedOf(k, q) /\ block_hashes(r, i) = block_hashes(q, j)
      BY <3>1, <3>2 DEF OwnHash
    <3>4. j \in FullBlocks(q)
      <4>1. CachedOf(k, q) <= Len(Text[q]) \div BlockSize /\ Len(Text[q]) \div BlockSize \in Nat
        BY <1>5, <3>2, TableTypes DEF TidyTable
      <4> QED
        BY <2>1, <3>3, <4>1 DEF FullBlocks
    <3>5. i = j
      BY <3>1, <3>3, <3>4, HashUnique
    <3> QED
      BY <3>1, <3>3, <3>5
  <2> QED
    BY <1>5, <1>7, <2>2, <2>3, <2>4
\* The hashes of the other blocks.
<1>13. ASSUME NEW b \in Block, ~ \E i \in (c + 1) .. f : s[i] = b
       PROVE  m.pool.block_hash[b] = IF b \in ToSet(new) THEN NoHash ELSE k.pool.block_hash[b]
  BY <1>3, <1>13 DEF OwnHashes
<1>14. ASSUME NEW q \in Request, q # r, NEW j \in 1 .. Len(k.req_to_blocks[q])
       PROVE  m.pool.block_hash[k.req_to_blocks[q][j]] = k.pool.block_hash[k.req_to_blocks[q][j]]
  <2>1. k.req_to_blocks[q][j] \in Block /\ k.req_to_blocks[q][j] \in ToSet(k.req_to_blocks[q])
    BY <1>5, TableTypes
  <2>2. k.req_to_blocks[q][j] \notin ToSet(new)
    BY <1>6, <2>1
  <2>3. ASSUME NEW i \in (c + 1) .. f, s[i] = k.req_to_blocks[q][j] PROVE FALSE
    <3>1. i \in 1 .. Len(s)
      BY <1>2, <1>5, <1>7
    <3>2. i <= c
      BY <1>12, <1>14, <2>3, <3>1
    <3> QED
      BY <1>2, <1>5, <3>2
  <2> QED
    BY <1>13, <2>1, <2>2, <2>3
<1>15. ASSUME NEW i \in 1 .. Len(s), m.pool.block_hash[s[i]] # NoHash
       PROVE  i <= f /\ m.pool.block_hash[s[i]] = block_hashes(r, i)
  <2>1. s[i] \in Block
    BY <1>7, SeqFacts
  <2>2. CASE \E n \in (c + 1) .. f : s[n] = s[i]
    <3>1. PICK n \in (c + 1) .. f : s[n] = s[i] /\ m.pool.block_hash[s[i]] = block_hashes(r, n)
      <4>1. m.pool.block_hash[s[i]] = block_hashes(r, CHOOSE n \in (c + 1) .. f : s[n] = s[i])
        BY <1>3, <2>1, <2>2 DEF OwnHashes
      <4> QED
        BY <2>2, <4>1
    <3>2. n \in 1 .. Len(s)
      BY <1>2, <1>5, <1>7
    <3>3. n = i
      BY <1>7, <3>1, <3>2, SeqFacts
    <3> QED
      BY <1>2, <1>5, <3>1, <3>3
  <2>3. CASE ~ \E n \in (c + 1) .. f : s[n] = s[i]
    <3>1. s[i] \notin ToSet(new) /\ m.pool.block_hash[s[i]] = k.pool.block_hash[s[i]]
      BY <1>13, <1>15, <2>1, <2>3
    <3>2. CASE i \in 1 .. Len(t) /\ s[i] = t[i]
      <4>1. OwnHash(k, r)
        BY DEF InOrder
      <4>2. i <= CachedOf(k, r) /\ k.pool.block_hash[s[i]] = block_hashes(r, i)
        BY <1>1, <1>15, <3>1, <3>2, <4>1 DEF OwnHash
      <4>3. i <= f
        BY <1>1, <1>2, <1>5, <4>2
      <4> QED
        BY <3>1, <4>2, <4>3
    <3>3. CASE i \in 1 .. Len(hit) /\ s[i] = hit[i]
      <4>1. i <= c /\ k.pool.block_hash[s[i]] = block_hashes(r, i)
        BY <1>9, <3>3
      <4>2. i <= f
        BY <1>2, <1>5, <4>1
      <4> QED
        BY <3>1, <4>1, <4>2
    <3> QED
      BY <1>7, <3>1, <3>2, <3>3
  <2> QED
    BY <2>2, <2>3
<1>16. ASSUME NEW q \in Request PROVE TidyTable(m, q) /\ OwnHash(m, q)
  <2>1. CASE q = r
    BY <1>2, <1>7, <1>10, <1>15, <2>1 DEF TidyTable, OwnHash
  <2>2. CASE q # r
    <3>1. TidyTable(k, q) /\ OwnHash(k, q)
      BY DEF InOrder
    <3>2. m.num_cached_block[q] = k.num_cached_block[q]
      BY <1>2, <2>2
    <3>3. TidyTable(m, q)
      BY <1>10, <2>2, <3>1, <3>2 DEF TidyTable
    <3>4. OwnHash(m, q)
      BY <1>10, <1>14, <2>2, <3>1 DEF OwnHash
    <3> QED
      BY <3>3, <3>4
  <2> QED
    BY <2>1, <2>2
<1>17. ASSUME NEW q \in Request, q # r PROVE Shares(m, r, q) /\ Shares(m, q, r)
  <2>1. ASSUME NEW i \in 1 .. Len(s), NEW j \in 1 .. Len(k.req_to_blocks[q]), s[i] = k.req_to_blocks[q][j]
        PROVE  /\ i = j /\ i <= f /\ i <= CachedOf(k, q) /\ block_hashes(r, i) = block_hashes(q, i)
    <3>1. i = j /\ i <= c /\ i <= CachedOf(k, q) /\ block_hashes(r, i) = block_hashes(q, i)
      BY <1>12, <1>17, <2>1
    <3>2. i <= f
      BY <1>2, <1>5, <1>7, <3>1
    <3> QED
      BY <3>1, <3>2
  <2>2. m.req_to_blocks[q] = k.req_to_blocks[q] /\ CachedOf(m, q) = CachedOf(k, q)
    BY <1>10, <1>17
  <2>3. m.req_to_blocks[r] = s /\ CachedOf(m, r) = f
    BY <1>2, <1>10
  <2>4. Shares(m, r, q)
    BY <2>1, <2>2, <2>3 DEF Shares
  <2>5. ASSUME NEW j \in 1 .. Len(m.req_to_blocks[q]), NEW i \in 1 .. Len(m.req_to_blocks[r]),
               m.req_to_blocks[q][j] = m.req_to_blocks[r][i]
        PROVE  /\ j = i /\ j <= CachedOf(m, q) /\ j <= CachedOf(m, r)
               /\ block_hashes(q, j) = block_hashes(r, j)
    BY <2>1, <2>2, <2>3, <2>5
  <2>6. Shares(m, q, r)
    BY <2>5 DEF Shares
  <2> QED
    BY <2>4, <2>6
<1>18. ASSUME NEW p \in Request, NEW q \in Request, p # q PROVE Shares(m, p, q)
  <2>1. CASE p = r \/ q = r
    BY <1>17, <1>18, <2>1
  <2>2. CASE p # r /\ q # r
    <3>1. Shares(k, p, q)
      BY <1>18 DEF InOrder
    <3> QED
      BY <1>10, <2>2, <3>1 DEF Shares
  <2> QED
    BY <2>1, <2>2
<1> QED
  BY <1>2, <1>11, <1>16, <1>18 DEF InOrder

\* Past its cached blocks a table carries no hash.
LEMMA Unhashed ==
    ASSUME NEW k, InOrder(k), NEW r \in Request
    PROVE  /\ IsInjective(k.req_to_blocks[r]) /\ CachedOf(k, r) <= Len(k.req_to_blocks[r])
           /\ \A i \in 1 .. Len(k.req_to_blocks[r]) : k.req_to_blocks[r][i] \notin ToSet(k.pool.free)
           /\ \A i \in 1 .. Len(k.req_to_blocks[r]) :
                 k.pool.block_hash[k.req_to_blocks[r][i]] # NoHash => i <= CachedOf(k, r)
<1>1. Sound(k) /\ TidyTable(k, r) /\ OwnHash(k, r)
  BY DEF InOrder
<1>2. ASSUME NEW i \in 1 .. Len(k.req_to_blocks[r]) PROVE k.req_to_blocks[r][i] \notin ToSet(k.pool.free)
  <2>1. k.req_to_blocks[r][i] \in Block /\ k.req_to_blocks[r][i] \in ToSet(k.req_to_blocks[r])
    BY <1>1, TableTypes
  <2> QED
    BY <2>1, FreeUnused
<1> QED
  BY <1>1, <1>2 DEF TidyTable, OwnHash

\* allocate_slots() as the scheduler calls it: at least one token, and a hit only for a
\* request that holds nothing.
LEMMA AllocateInOrder ==
    ASSUME NEW k, InOrder(k), NEW r \in Request, NEW hit \in Seq(Block), IsInjective(hit),
           hit # <<>> => k.req_to_blocks[r] = <<>>,
           \A i \in 1 .. Len(hit) : /\ i \in FullBlocks(r)
                                    /\ k.pool.block_hash[hit[i]] = block_hashes(r, i),
           Len(hit) <= Len(Text[r]) \div BlockSize,
           NEW t \in Nat, t <= Len(Text[r]), t <= MaxModelLen,
           NEW c \in Nat, NEW n \in Nat \ {0}, can_allocate_slots(k, r, c, n, 0, hit)
    PROVE  \E new, f :
              /\ Allocated(k, allocate_slots(k, r, t, c, n, 0, hit), r, hit, new, f)
              /\ f <= max(CachedOf(k, r) + Len(hit), (total_computed_tokens(c, hit) + n) \div BlockSize)
              /\ Need(c, n, 0, hit) <= Len(k.req_to_blocks[r] \o hit \o new) * BlockSize
              /\ InOrder(allocate_slots(k, r, t, c, n, 0, hit))
<1>1. Sound(k) /\ TidyTable(k, r)
  BY DEF InOrder
<1>2. Allocatable(k, r, hit, t, c, n, 0)
  <2>1. hit # <<>> => k.req_to_blocks[r] = <<>> /\ k.num_cached_block[r] = Absent
    BY <1>1 DEF TidyTable
  <2>2. /\ IsInjective(k.req_to_blocks[r]) /\ max(k.num_cached_block[r], 0) <= Len(k.req_to_blocks[r])
        /\ \A i \in 1 .. Len(k.req_to_blocks[r]) : k.req_to_blocks[r][i] \notin ToSet(k.pool.free)
        /\ \A i \in 1 .. Len(k.req_to_blocks[r]) :
              k.pool.block_hash[k.req_to_blocks[r][i]] # NoHash => i <= max(k.num_cached_block[r], 0)
    BY Unhashed DEF CachedOf
  <2> QED
    BY <1>1, <2>1, <2>2 DEF Allocatable
<1>3. PICK m : m = allocate_slots(k, r, t, c, n, 0, hit)
  OBVIOUS
<1>4. PICK new, f :
          /\ Allocated(k, m, r, hit, new, f)
          /\ f <= max(CachedOf(k, r) + Len(hit), t \div BlockSize)
          /\ f <= max(CachedOf(k, r) + Len(hit), (total_computed_tokens(c, hit) + n) \div BlockSize)
          /\ Need(c, n, 0, hit) <= Len(k.req_to_blocks[r] \o hit \o new) * BlockSize
  BY <1>2, <1>3, AllocateFacts DEF CachedOf
<1>5. f \in Nat /\ new \in Seq(Block) /\ m.req_to_blocks = [k.req_to_blocks EXCEPT ![r] = k.req_to_blocks[r] \o hit \o new]
  BY <1>4 DEF Allocated
<1>6. f <= Len(Text[r]) \div BlockSize
  <2>1. /\ t \div BlockSize <= Len(Text[r]) \div BlockSize /\ t \div BlockSize \in Nat
        /\ Len(Text[r]) \div BlockSize \in Nat
    BY Constants, DivMonotone, DivFacts
  <2>2. CachedOf(k, r) <= Len(Text[r]) \div BlockSize /\ CachedOf(k, r) \in Nat /\ Len(hit) \in Nat
    BY <1>1, TableTypes, SeqFacts DEF TidyTable
  <2>3. hit # <<>> => CachedOf(k, r) = 0
    BY <1>1 DEF TidyTable, CachedOf, Absent, max
  <2>4. hit = <<>> => Len(hit) = 0
    OBVIOUS
  <2>5. CachedOf(k, r) + Len(hit) <= Len(Text[r]) \div BlockSize
    BY <2>1, <2>2, <2>3, <2>4
  <2> QED
    BY <1>4, <1>5, <2>1, <2>2, <2>5 DEF max
<1>7. m.req_to_blocks[r] # <<>>
  <2>1. Need(c, n, 0, hit) >= 1
    <3>1. BlockSize \in Nat \ {0} /\ MaxModelLen \in Nat \ {0}
      BY Constants
    <3>2. total_computed_tokens(c, hit) \in Nat
      BY NeedFacts
    <3>3. total_computed_tokens(c, hit) + n + 0 >= 1
      BY <3>2
    <3> QED
      BY <3>1, <3>2, <3>3 DEF Need, num_tokens_need_slot, min
  <2>2. k.req_to_blocks \in [Request -> Seq(Block)]
    BY <1>1, SoundFields
  <2>3. m.req_to_blocks[r] = k.req_to_blocks[r] \o hit \o new
    BY <1>5, <2>2
  <2>4. ASSUME m.req_to_blocks[r] = <<>> PROVE FALSE
    <3>1. Len(k.req_to_blocks[r] \o hit \o new) = 0
      BY <2>3, <2>4
    <3>2. BlockSize \in Nat \ {0} /\ 0 * BlockSize = 0
      BY Constants
    <3>3. Need(c, n, 0, hit) <= 0 /\ Need(c, n, 0, hit) \in Nat
      BY <1>4, <3>1, <3>2, NeedFacts
    <3> QED
      BY <2>1, <3>3
  <2> QED
    BY <2>4
<1>8. InOrder(m)
  BY <1>4, <1>6, <1>7, AllocatedInOrder
<1> QED
  BY <1>3, <1>4, <1>8

\* cache_blocks() is an allocation without blocks.
LEMMA CacheInOrder ==
    ASSUME NEW k, InOrder(k), NEW r \in Request, NEW t \in Nat, t <= Len(Text[r]),
           t \div BlockSize <= Len(k.req_to_blocks[r])
    PROVE  /\ InOrder(cache_blocks(k, r, t))
           /\ Allocated(k, cache_blocks(k, r, t), r, <<>>, <<>>, max(CachedOf(k, r), t \div BlockSize))
<1>1. PICK m, f : m = cache_blocks(k, r, t) /\ f = max(CachedOf(k, r), t \div BlockSize)
  OBVIOUS
<1>2. /\ Sound(k) /\ TidyTable(k, r) /\ k.req_to_blocks \in [Request -> Seq(Block)]
      /\ k.pool.block_hash \in [Block -> Hash \cup {NoHash}] /\ k.pool.ref_cnt \in [Block -> Int]
      /\ CachedOf(k, r) \in Nat /\ Len(k.req_to_blocks[r]) \in Nat /\ t \div BlockSize \in Nat
      /\ k.req_to_blocks[r] \in Seq(Block)
  <2>1. Sound(k) /\ TidyTable(k, r)
    BY DEF InOrder
  <2>2. t \div BlockSize \in Nat
    BY Constants, DivFacts
  <2> QED
    BY <2>1, <2>2, TableTypes, SoundFields
<1>3. ASSUME NEW i \in (max(k.num_cached_block[r], 0) + 1) .. (t \div BlockSize)
      PROVE  k.pool.block_hash[k.req_to_blocks[r][i]] = NoHash
  <2>1. i \in 1 .. Len(k.req_to_blocks[r]) /\ ~(i <= CachedOf(k, r))
    BY <1>2 DEF CachedOf
  <2> QED
    BY <2>1, Unhashed
<1>4. /\ Sound(m) /\ m.req_to_blocks = k.req_to_blocks
      /\ \A q \in Request : q # r => m.num_cached_block[q] = k.num_cached_block[q]
      /\ max(m.num_cached_block[r], 0) = f /\ m.num_cached_block[r] \in {k.num_cached_block[r], f}
      /\ m.pool.free = k.pool.free /\ m.pool.ref_cnt = k.pool.ref_cnt
      /\ m.pool.block_hash = OwnHashes(r, k.req_to_blocks[r], CachedOf(k, r), f, k.pool.block_hash)
  BY <1>1, <1>2, <1>3, CacheFacts DEF TidyTable, CachedOf
<1>5. f \in Nat /\ CachedOf(k, r) <= f /\ f <= Len(k.req_to_blocks[r]) /\ f <= Len(Text[r]) \div BlockSize
  <2>1. t \div BlockSize <= Len(Text[r]) \div BlockSize
    BY Constants, DivMonotone
  <2> QED
    BY <1>1, <1>2, <2>1 DEF max, TidyTable
<1>6. /\ k.req_to_blocks[r] \o <<>> \o <<>> = k.req_to_blocks[r] /\ Len(<<>>) = 0 /\ ToSet(<<>>) = {}
      /\ <<>> \in Seq(Block) /\ IsInjective(<<>>)
  BY <1>2, ConcatEmptySeq DEF ToSet, IsInjective
<1>7. CachedOf(k, r) + Len(<<>>) = CachedOf(k, r)
  BY <1>2, <1>6
<1>8. /\ [b \in Block |-> IF b \in ToSet(<<>>) THEN NoHash ELSE k.pool.block_hash[b]] = k.pool.block_hash
      /\ [b \in Block |-> IF b \in ToSet(<<>>) \cup ToSet(<<>>) THEN k.pool.ref_cnt[b] + 1
                                                          ELSE k.pool.ref_cnt[b]] = k.pool.ref_cnt
      /\ ToSet(k.pool.free) \ (ToSet(<<>>) \cup ToSet(<<>>)) = ToSet(k.pool.free)
      /\ [k.req_to_blocks EXCEPT ![r] = k.req_to_blocks[r]] = k.req_to_blocks
  BY <1>2, <1>6
<1>9. Allocated(k, m, r, <<>>, <<>>, f)
  BY <1>4, <1>5, <1>6, <1>7, <1>8 DEF Allocated, CachedOf
<1>10. m.req_to_blocks[r] = <<>> => m.num_cached_block[r] = Absent
  <2>1. SUFFICES ASSUME k.req_to_blocks[r] = <<>> PROVE m.num_cached_block[r] = Absent
    BY <1>4
  <2>2. t \div BlockSize = 0
    BY <1>2, <2>1
  <2>3. m = k
    BY <1>1, <1>2, <2>2 DEF cache_blocks, CachedOf
  <2> QED
    BY <1>2, <2>1, <2>3 DEF TidyTable
<1>11. \A i \in 1 .. Len(<<>>) : FALSE
  BY <1>6
<1>12. InOrder(m)
  BY <1>5, <1>6, <1>9, <1>10, <1>11, AllocatedInOrder
<1> QED
  BY <1>1, <1>9, <1>12

\* reset_prefix_cache() drops all hashes.
LEMMA ResetInOrder ==
    ASSUME NEW k, InOrder(k), NEW m, m = [k EXCEPT !.pool = reset_prefix_cache(@)]
    PROVE  /\ InOrder(m) /\ m.req_to_blocks = k.req_to_blocks
           /\ m.pool.block_hash = [b \in Block |-> NoHash]
<1>1. Sound(k)
  BY DEF InOrder
<1>2. /\ Sound(m) /\ m.req_to_blocks = k.req_to_blocks /\ m.num_cached_block = k.num_cached_block
      /\ m.pool.ref_cnt = k.pool.ref_cnt /\ m.pool.block_hash = [b \in Block |-> NoHash]
  BY <1>1, UnhashFacts
<1>3. ASSUME NEW r \in Request PROVE TidyTable(m, r) /\ OwnHash(m, r) /\ CachedOf(m, r) = CachedOf(k, r)
  <2>1. TidyTable(k, r)
    BY DEF InOrder
  <2>2. \A i \in 1 .. Len(m.req_to_blocks[r]) : m.pool.block_hash[m.req_to_blocks[r][i]] = NoHash
    BY <1>1, <1>2, TableTypes
  <2> QED
    BY <1>2, <2>1, <2>2 DEF TidyTable, OwnHash, CachedOf
<1>4. ASSUME NEW b \in Block PROVE m.pool.ref_cnt[b] = Cardinality(Users(m, b))
  <2>1. Users(m, b) = Users(k, b)
    BY <1>2 DEF Users
  <2> QED
    BY <1>2, <2>1 DEF InOrder
<1>5. ASSUME NEW r \in Request, NEW q \in Request, r # q PROVE Shares(m, r, q)
  <2>1. Shares(k, r, q)
    BY <1>5 DEF InOrder
  <2> QED
    BY <1>2, <1>3, <2>1 DEF Shares
<1> QED
  BY <1>2, <1>3, <1>4, <1>5 DEF InOrder

\* When no request holds a block, reset_prefix_cache() succeeds.
LEMMA NobodyHolds ==
    ASSUME NEW k, InOrder(k), \A r \in Request : k.req_to_blocks[r] = <<>>
    PROVE  can_reset_prefix_cache(k.pool)
<1>1. Sound(k)
  BY DEF InOrder
<1>2. /\ k.pool.free \in Seq(Block) /\ Len(k.pool.free) \in Nat /\ IsInjective(k.pool.free)
      /\ ToSet(k.pool.free) \subseteq Block
  BY <1>1, SoundFields
<1>3. IsFiniteSet(Block) /\ Cardinality(Block) = NumGpuBlocks - 1
  <2>1. 1 \in Int /\ NumGpuBlocks - 1 \in Int /\ ~(1 > NumGpuBlocks - 1)
    BY NumGpuBlocksAssumption
  <2>2. /\ IsFiniteSet(Block)
        /\ Cardinality(Block) = IF 1 > NumGpuBlocks - 1 THEN 0 ELSE NumGpuBlocks - 1 - 1 + 1
    BY <2>1, FS_Interval DEF Block
  <2> QED
    BY <2>1, <2>2
<1>4. ASSUME NEW b \in Block PROVE b \in ToSet(k.pool.free)
  <2>1. \A q \in Request : b \notin ToSet(k.req_to_blocks[q])
    BY DEF ToSet
  <2> QED
    BY <2>1, FreeUnused
<1>5. ToSet(k.pool.free) = Block
  BY <1>2, <1>4
<1>6. Len(k.pool.free) = NumGpuBlocks - 1
  BY <1>2, <1>3, <1>5, InjectiveLen
<1> QED
  BY <1>6, NumGpuBlocksAssumption DEF can_reset_prefix_cache, get_num_free_blocks
==============================================================================
