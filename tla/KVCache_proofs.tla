---------------------------- MODULE KVCache_proofs ----------------------------
(* Proofs about KVCache: the accounting of references and free blocks is      *)
(* exact, and requests share blocks only by common prefix, for any number of  *)
(* requests and blocks and any eviction order.                                *)
EXTENDS KVCache, FiniteSetTheorems, SequenceTheorems, TLAPS

\* Initially nothing is allocated and every block is free.
LEMMA InitIInv == Init => IInv
<1> SUFFICES ASSUME Init PROVE IInv
  OBVIOUS
<1> USE KVCacheAssumption DEF Init, BlocksOf
<1>1. TypeOK
  BY DEF TypeOK
<1>2. CachedFits
  BY DEF CachedFits
<1>3. TableInjective /\ HashOwn /\ Isolation
  BY DEF TableInjective, HashOwn, Isolation
<1>4. FreeExact
  BY DEF FreeExact
<1>5. RefExact
  <2>1. \A b \in Block : {r \in Request : b \in BlocksOf(r)} = {}
    OBVIOUS
  <2> QED
    BY <2>1, FS_EmptySet DEF RefExact
<1> QED
  BY <1>1, <1>2, <1>3, <1>4, <1>5 DEF IInv

\* The places of a concatenation.
LEMMA ConcatPlaces ==
    ASSUME NEW S, NEW s1 \in Seq(S), NEW s2 \in Seq(S)
    PROVE  /\ s1 \o s2 \in Seq(S)
           /\ Len(s1 \o s2) = Len(s1) + Len(s2)
           /\ \A i \in 1 .. Len(s1) : (s1 \o s2)[i] = s1[i]
           /\ \A i \in 1 .. Len(s2) : (s1 \o s2)[Len(s1) + i] = s2[i]
BY ConcatProperties

\* What the places of a grown table hold: the old table, then the hit, then the
\* new blocks.
LEMMA GrownTable ==
    ASSUME NEW S, NEW t \in Seq(S), NEW hit \in Seq(S), NEW new \in Seq(S)
    PROVE  LET blocks == t \o hit \o new
           IN  /\ blocks \in Seq(S)
               /\ Len(blocks) = Len(t) + Len(hit) + Len(new)
               /\ DOMAIN blocks = 1 .. Len(blocks)
               /\ \A i \in DOMAIN t : i \in DOMAIN blocks /\ blocks[i] = t[i]
               /\ \A i \in DOMAIN hit : /\ Len(t) + i \in DOMAIN blocks
                                        /\ blocks[Len(t) + i] = hit[i]
               /\ \A i \in DOMAIN new : /\ Len(t) + Len(hit) + i \in DOMAIN blocks
                                        /\ blocks[Len(t) + Len(hit) + i] = new[i]
               /\ \A i \in DOMAIN blocks :
                     \/ i \in DOMAIN t
                     \/ i - Len(t) \in DOMAIN hit
                     \/ i - Len(t) - Len(hit) \in DOMAIN new
<1> DEFINE th == t \o hit
           blocks == th \o new
<1>1. /\ th \in Seq(S)
      /\ Len(th) = Len(t) + Len(hit)
      /\ \A i \in 1 .. Len(t) : th[i] = t[i]
      /\ \A i \in 1 .. Len(hit) : th[Len(t) + i] = hit[i]
  BY ConcatPlaces
<1>t. th \in Seq(S)
  BY <1>1
<1> HIDE DEF th
<1>2. /\ blocks \in Seq(S)
      /\ Len(blocks) = Len(th) + Len(new)
      /\ \A i \in 1 .. Len(th) : blocks[i] = th[i]
      /\ \A i \in 1 .. Len(new) : blocks[Len(th) + i] = new[i]
  BY <1>t, ConcatPlaces
<1> HIDE DEF blocks
<1>3. /\ DOMAIN t = 1 .. Len(t) /\ DOMAIN hit = 1 .. Len(hit)
      /\ DOMAIN new = 1 .. Len(new) /\ DOMAIN blocks = 1 .. Len(blocks)
      /\ Len(t) \in Nat /\ Len(hit) \in Nat /\ Len(new) \in Nat
  BY <1>2
<1>4. \A i \in DOMAIN t : i \in DOMAIN blocks /\ blocks[i] = t[i]
  BY <1>1, <1>2, <1>3
<1>5. \A i \in DOMAIN hit : /\ Len(t) + i \in DOMAIN blocks
                            /\ blocks[Len(t) + i] = hit[i]
  BY <1>1, <1>2, <1>3
<1>6. \A i \in DOMAIN new : /\ Len(t) + Len(hit) + i \in DOMAIN blocks
                            /\ blocks[Len(t) + Len(hit) + i] = new[i]
  BY <1>1, <1>2, <1>3
<1>7. \A i \in DOMAIN blocks : \/ i \in DOMAIN t
                               \/ i - Len(t) \in DOMAIN hit
                               \/ i - Len(t) - Len(hit) \in DOMAIN new
  BY <1>1, <1>2, <1>3
<1> QED
  BY <1>1, <1>2, <1>3, <1>4, <1>5, <1>6, <1>7 DEF blocks, th

\* Adding a request to the holders of a block, or removing one, moves its
\* cardinality by one.
LEMMA CountOneMore ==
    ASSUME NEW S, NEW T, NEW x, IsFiniteSet(S), x \notin S, T = S \cup {x}
    PROVE  Cardinality(T) = Cardinality(S) + 1
BY FS_AddElement

LEMMA CountOneLess ==
    ASSUME NEW S, NEW T, NEW x, IsFiniteSet(S), x \in S, T = S \ {x}
    PROVE  Cardinality(T) = Cardinality(S) - 1
BY FS_RemoveElement

\* allocate_slots keeps the inductive invariant.
LEMMA AllocateIInv ==
    ASSUME IInv, NEW r \in Request, NEW hit, NEW new, NEW k, Allocate(r, hit, new, k)
    PROVE  IInv'
<1> DEFINE blocks == table[r] \o hit \o new
           kept   == cached[r] + Len(hit)
           gained == {hit[i] : i \in DOMAIN hit} \cup {new[i] : i \in DOMAIN new}
<1>1. /\ IsHit(r, hit) /\ IsFresh(hit, new)
      /\ k \in kept .. full[r] /\ k <= Len(blocks)
      /\ table' = [table EXCEPT ![r] = blocks]
      /\ cached' = [cached EXCEPT ![r] = k]
      /\ hash' = [b \in Block |->
                      IF \E i \in (kept + 1) .. k : blocks[i] = b
                      THEN BlockHash[r][CHOOSE i \in (kept + 1) .. k : blocks[i] = b]
                      ELSE IF \E i \in DOMAIN new : new[i] = b THEN NoHash ELSE hash[b]]
      /\ ref' = [b \in Block |-> IF b \in gained THEN ref[b] + 1 ELSE ref[b]]
      /\ free' = free \ gained
      /\ full' = full
  BY DEF Allocate
<1>2. TypeOK /\ CachedFits /\ TableInjective /\ FreeExact /\ RefExact /\ HashOwn /\ Isolation
  BY DEF IInv
<1>3. /\ hit \in Seq(Block) /\ new \in Seq(Block) /\ table[r] \in Seq(Block)
      /\ Len(hit) \in Nat /\ Len(new) \in Nat /\ Len(table[r]) \in Nat
      /\ cached[r] \in Nat /\ full[r] \in Nat
      /\ DOMAIN table[r] = 1 .. Len(table[r])
      /\ DOMAIN hit = 1 .. Len(hit) /\ DOMAIN new = 1 .. Len(new)
  BY <1>1, <1>2 DEF IsHit, IsFresh, TypeOK
<1>4. hit # <<>> => Len(table[r]) = 0 /\ cached[r] = 0
  BY <1>1, <1>2, <1>3 DEF IsHit, CachedFits
<1>5. /\ blocks \in Seq(Block)
      /\ Len(blocks) = Len(table[r]) + Len(hit) + Len(new)
      /\ DOMAIN blocks = 1 .. Len(blocks)
      /\ \A i \in DOMAIN table[r] : i \in DOMAIN blocks /\ blocks[i] = table[r][i]
      /\ \A i \in DOMAIN hit : /\ Len(table[r]) + i \in DOMAIN blocks
                               /\ blocks[Len(table[r]) + i] = hit[i]
      /\ \A i \in DOMAIN new : /\ Len(table[r]) + Len(hit) + i \in DOMAIN blocks
                               /\ blocks[Len(table[r]) + Len(hit) + i] = new[i]
      /\ \A i \in DOMAIN blocks :
            \/ i \in DOMAIN table[r]
            \/ i - Len(table[r]) \in DOMAIN hit
            \/ i - Len(table[r]) - Len(hit) \in DOMAIN new
  BY <1>3, GrownTable
<1> HIDE DEF blocks, kept, gained
\* The three kinds of places, with the hit starting at place 1.
<1>6. \A i \in DOMAIN blocks :
         \/ i \in DOMAIN table[r] /\ blocks[i] = table[r][i]
         \/ i \in DOMAIN hit /\ blocks[i] = hit[i] /\ Len(table[r]) = 0
         \/ /\ i - Len(table[r]) - Len(hit) \in DOMAIN new
            /\ blocks[i] = new[i - Len(table[r]) - Len(hit)]
  <2> TAKE i \in DOMAIN blocks
  <2>1. CASE i \in DOMAIN table[r]
    BY <2>1, <1>5
  <2>2. CASE i - Len(table[r]) \in DOMAIN hit
    <3>1. hit # <<>>
      BY <2>2, <1>3
    <3>2. Len(table[r]) = 0 /\ i - Len(table[r]) = i
      BY <3>1, <1>4, <1>3, <1>5
    <3> QED
      BY <3>2, <2>2, <1>5
  <2>3. CASE i - Len(table[r]) - Len(hit) \in DOMAIN new
    <3> DEFINE j == i - Len(table[r]) - Len(hit)
    <3>1. Len(table[r]) + Len(hit) + j = i
      BY <1>3, <1>5
    <3> QED
      BY <3>1, <2>3, <1>5
  <2> QED
    BY <2>1, <2>2, <2>3, <1>5
\* New blocks are in no table and not in the hit.
<1>7. \A i \in DOMAIN new : /\ new[i] \in Block
                            /\ \A q \in Request : new[i] \notin BlocksOf(q)
                            /\ \A j \in DOMAIN hit : hit[j] # new[i]
  BY <1>1, <1>2, <1>3 DEF IsFresh, FreeExact
\* A hit block is cached under its hash.
<1>8. \A i \in DOMAIN hit : /\ hit[i] \in Block
                            /\ i \in DOMAIN BlockHash[r]
                            /\ hash[hit[i]] = BlockHash[r][i]
                            /\ hash[hit[i]] # NoHash
                            /\ i <= kept
  BY <1>1, <1>2, <1>3, KVCacheAssumption DEF IsHit, CachedFits, kept
<1>9. kept \in Nat /\ k \in Nat /\ k <= full[r] /\ full[r] <= Len(BlockHash[r])
  BY <1>1, <1>2, <1>3 DEF kept, CachedFits
<1>10. TypeOK'
  <2>1. \A b \in Block : hash'[b] \in Hash \cup {NoHash}
    <3> SUFFICES ASSUME NEW b \in Block PROVE hash'[b] \in Hash \cup {NoHash}
      OBVIOUS
    <3>1. CASE \E i \in (kept + 1) .. k : blocks[i] = b
      <4>1. PICK i \in (kept + 1) .. k : hash'[b] = BlockHash[r][i]
        BY <3>1, <1>1
      <4>2. i \in DOMAIN BlockHash[r]
        BY <4>1, <1>3, <1>9, KVCacheAssumption
      <4> QED
        BY <4>1, <4>2, KVCacheAssumption
    <3>2. CASE ~ \E i \in (kept + 1) .. k : blocks[i] = b
      BY <3>2, <1>1, <1>2 DEF TypeOK
    <3> QED
      BY <3>1, <3>2
  <2>2. hash' \in [Block -> Hash \cup {NoHash}]
    BY <2>1, <1>1
  <2>3. table' \in [Request -> Seq(Block)] /\ cached' \in [Request -> Nat]
    BY <1>1, <1>2, <1>5, <1>9 DEF TypeOK
  <2>4. full' \in [Request -> Nat] /\ ref' \in [Block -> Int] /\ free' \in SUBSET Block
    BY <1>1, <1>2 DEF TypeOK
  <2> QED
    BY <2>2, <2>3, <2>4 DEF TypeOK
<1>11. CachedFits'
  BY <1>1, <1>2, <1>3, <1>9 DEF CachedFits, TypeOK
<1>12. \A i, j \in DOMAIN blocks : blocks[i] = blocks[j] => i = j
  <2> SUFFICES ASSUME NEW i \in DOMAIN blocks, NEW j \in DOMAIN blocks,
                      blocks[i] = blocks[j]
               PROVE  i = j
    OBVIOUS
  <2> DEFINE newAt(n) == n - Len(table[r]) - Len(hit)
  <2>1. /\ i \in Nat /\ j \in Nat
        /\ \A n \in DOMAIN table[r] : table[r][n] \in BlocksOf(r)
    BY <1>5 DEF BlocksOf
  <2>2. CASE newAt(i) \in DOMAIN new /\ blocks[i] = new[newAt(i)]
    <3>1. newAt(j) \in DOMAIN new /\ blocks[j] = new[newAt(j)]
      BY <2>1, <2>2, <1>6, <1>7
    <3>2. newAt(i) = newAt(j)
      BY <2>2, <3>1, <1>1 DEF IsFresh
    <3> QED
      BY <3>2, <2>1, <1>3
  <2>3. CASE newAt(j) \in DOMAIN new /\ blocks[j] = new[newAt(j)]
    <3>1. newAt(i) \in DOMAIN new /\ blocks[i] = new[newAt(i)]
      BY <2>1, <2>3, <1>6, <1>7
    <3>2. newAt(i) = newAt(j)
      BY <2>3, <3>1, <1>1 DEF IsFresh
    <3> QED
      BY <3>2, <2>1, <1>3
  <2>4. CASE /\ i \in DOMAIN table[r] /\ blocks[i] = table[r][i]
             /\ j \in DOMAIN table[r] /\ blocks[j] = table[r][j]
    BY <2>4, <1>2 DEF TableInjective
  <2>5. CASE /\ i \in DOMAIN hit /\ blocks[i] = hit[i]
             /\ j \in DOMAIN hit /\ blocks[j] = hit[j]
    <3>1. BlockHash[r][i] = BlockHash[r][j]
      BY <2>5, <1>8
    <3>2. i \in DOMAIN BlockHash[r] /\ j \in DOMAIN BlockHash[r]
      BY <2>5, <1>8
    <3> QED
      BY <3>1, <3>2, KVCacheAssumption, Zenon
  <2> QED
    BY <2>2, <2>3, <2>4, <2>5, <1>6, <1>3
<1>13. TableInjective'
  BY <1>12, <1>1, <1>2 DEF TableInjective, TypeOK
\* Who holds what afterwards.
<1>14. \A q \in Request : q # r => table'[q] = table[q] /\ cached'[q] = cached[q]
  BY <1>1, <1>2 DEF TypeOK
<1>15. table'[r] = blocks /\ cached'[r] = k
  BY <1>1, <1>2 DEF TypeOK
<1>16. \A b \in Block : b \in BlocksOf(r)' <=> b \in BlocksOf(r) \/ b \in gained
  <2> TAKE b \in Block
  <2>1. b \in BlocksOf(r)' <=> \E i \in DOMAIN blocks : blocks[i] = b
    BY <1>15 DEF BlocksOf
  <2>2. b \in BlocksOf(r) <=> \E i \in DOMAIN table[r] : table[r][i] = b
    BY DEF BlocksOf
  <2>3. b \in gained <=> \/ \E i \in DOMAIN hit : hit[i] = b
                         \/ \E i \in DOMAIN new : new[i] = b
    BY DEF gained
  <2>4. (\E i \in DOMAIN blocks : blocks[i] = b) => b \in BlocksOf(r) \/ b \in gained
    BY <2>2, <2>3, <1>6
  <2>5. b \in BlocksOf(r) \/ b \in gained => \E i \in DOMAIN blocks : blocks[i] = b
    BY <2>2, <2>3, <1>5
  <2> QED
    BY <2>1, <2>4, <2>5
<1>17. \A q \in Request : q # r => BlocksOf(q)' = BlocksOf(q)
  BY <1>14 DEF BlocksOf
<1>18. \A b \in gained : b \in Block /\ b \notin BlocksOf(r)
  <2>1. hit # <<>> => BlocksOf(r) = {}
    BY <1>4, <1>3 DEF BlocksOf
  <2>2. \A i \in DOMAIN hit : hit[i] \in Block /\ hit[i] \notin BlocksOf(r)
    BY <2>1, <1>3, <1>8
  <2> QED
    BY <2>2, <1>7 DEF gained
<1>19. FreeExact'
  <2> SUFFICES ASSUME NEW b \in Block
               PROVE  b \in free' <=> \A q \in Request : b \notin BlocksOf(q)'
    BY DEF FreeExact
  <2>1. b \in free' <=> b \in free /\ b \notin gained
    BY <1>1
  <2>2. b \in free <=> \A q \in Request : b \notin BlocksOf(q)
    BY <1>2 DEF FreeExact
  <2> QED
    BY <2>1, <2>2, <1>16, <1>17
<1>20. RefExact'
  <2> SUFFICES ASSUME NEW b \in Block
               PROVE  ref'[b] = Cardinality({q \in Request : b \in BlocksOf(q)'})
    BY DEF RefExact
  <2> DEFINE before == {q \in Request : b \in BlocksOf(q)}
             after  == {q \in Request : b \in BlocksOf(q)'}
  <2>1. ref[b] = Cardinality(before) /\ IsFiniteSet(before)
    BY <1>2, KVCacheAssumption, FS_Subset DEF RefExact
  <2>2. CASE b \in gained
    <3>1. r \notin before /\ after = before \cup {r}
      BY <2>2, <1>16, <1>17, <1>18
    <3>2. Cardinality(after) = Cardinality(before) + 1
      BY <3>1, <2>1, CountOneMore
    <3> QED
      BY <3>2, <2>1, <2>2, <1>1
  <2>3. CASE b \notin gained
    <3>1. after = before
      BY <2>3, <1>16, <1>17
    <3> QED
      BY <3>1, <2>1, <2>3, <1>1
  <2> QED
    BY <2>2, <2>3
\* Another request's block is never newly cached and never new.
<1>21. \A q \in Request : q # r =>
          \A j \in DOMAIN table[q] :
              /\ hash'[table[q][j]] = hash[table[q][j]]
              /\ \A i \in DOMAIN new : new[i] # table[q][j]
  <2> SUFFICES ASSUME NEW q \in Request, q # r, NEW j \in DOMAIN table[q]
               PROVE  /\ hash'[table[q][j]] = hash[table[q][j]]
                      /\ \A i \in DOMAIN new : new[i] # table[q][j]
    OBVIOUS
  <2> DEFINE b == table[q][j]
  <2>1. b \in Block /\ b \in BlocksOf(q)
    BY <1>2 DEF TypeOK, BlocksOf
  <2>2. \A i \in DOMAIN new : new[i] # b
    BY <2>1, <1>7
  <2>3. ASSUME NEW i \in (kept + 1) .. k, blocks[i] = b PROVE FALSE
    <3>1. i \in DOMAIN blocks
      BY <1>1, <1>5, <1>9
    <3>2. CASE i \in DOMAIN table[r] /\ blocks[i] = table[r][i]
      <4>1. table[r][i] = table[q][j]
        BY <3>2, <2>3
      <4>2. Isolation
        BY <1>2
      <4>3. i <= cached[r]
        BY <4>1, <4>2, <3>2, Zenon DEF Isolation
      <4> QED
        BY <4>3, <1>3, <1>9 DEF kept
    <3>3. CASE i \in DOMAIN hit
      BY <3>3, <1>8, <1>9
    <3>4. CASE /\ i - Len(table[r]) - Len(hit) \in DOMAIN new
               /\ blocks[i] = new[i - Len(table[r]) - Len(hit)]
      BY <3>4, <2>2, <2>3
    <3> QED
      BY <3>1, <3>2, <3>3, <3>4, <1>6
  <2> QED
    BY <2>1, <2>2, <2>3, <1>1
<1>22. HashOwn'
  <2> SUFFICES ASSUME NEW q \in Request, NEW i \in DOMAIN table'[q],
                      hash'[table'[q][i]] # NoHash
               PROVE  /\ i <= cached'[q]
                      /\ hash'[table'[q][i]] = BlockHash[q][i]
    BY DEF HashOwn
  <2>1. CASE q # r
    BY <2>1, <1>14, <1>21, <1>2 DEF HashOwn
  <2>2. CASE q = r
    <3> DEFINE b == blocks[i]
    <3>1. i \in DOMAIN blocks /\ b \in Block /\ hash'[b] # NoHash
      BY <2>2, <1>15, <1>5
    <3>2. CASE \E n \in (kept + 1) .. k : blocks[n] = b
      <4>1. PICK n \in (kept + 1) .. k : blocks[n] = b /\ hash'[b] = BlockHash[r][n]
        BY <3>1, <3>2, <1>1
      <4>2. n \in DOMAIN blocks
        BY <1>1, <1>5, <1>9
      <4>3. n = i
        BY <4>1, <4>2, <3>1, <1>12
      <4> QED
        BY <4>1, <4>3, <2>2, <1>15, <1>9
    <3>3. CASE ~ \E n \in (kept + 1) .. k : blocks[n] = b
      <4>1. ~ \E n \in DOMAIN new : new[n] = b
        BY <3>1, <3>3, <1>1
      <4>2. hash'[b] = hash[b]
        BY <3>1, <3>3, <4>1, <1>1
      <4>3. CASE i \in DOMAIN table[r] /\ b = table[r][i]
        <5>1. i <= cached[r] /\ hash[b] = BlockHash[r][i]
          BY <4>3, <4>2, <3>1, <1>2 DEF HashOwn
        <5>2. i <= k
          BY <5>1, <1>1, <1>3, <1>9, <4>3 DEF kept
        <5> QED
          BY <5>1, <5>2, <4>2, <2>2, <1>15
      <4>4. CASE i \in DOMAIN hit /\ b = hit[i]
        <5>1. i <= kept /\ kept <= k /\ i \in Nat
          BY <4>4, <1>1, <1>3, <1>8, <1>9
        <5> QED
          BY <5>1, <4>4, <4>2, <2>2, <1>8, <1>9, <1>15
      <4> QED
        BY <4>1, <4>3, <4>4, <3>1, <1>6
    <3> QED
      BY <3>2, <3>3
  <2> QED
    BY <2>1, <2>2
<1>23. \A q \in Request : q # r =>
          \A i \in DOMAIN blocks, j \in DOMAIN table[q] :
              blocks[i] = table[q][j] =>
                  /\ i = j /\ i <= k /\ i <= cached[q]
                  /\ BlockHash[r][i] = BlockHash[q][i]
  <2> SUFFICES ASSUME NEW q \in Request, q # r, NEW i \in DOMAIN blocks,
                      NEW j \in DOMAIN table[q], blocks[i] = table[q][j]
               PROVE  /\ i = j /\ i <= k /\ i <= cached[q]
                      /\ BlockHash[r][i] = BlockHash[q][i]
    OBVIOUS
  <2>1. CASE i \in DOMAIN table[r] /\ blocks[i] = table[r][i]
    <3>0. r # q /\ table[r][i] = table[q][j] /\ i \in DOMAIN table[r]
      BY <2>1
    <3>1. /\ i = j /\ i <= cached[r] /\ i <= cached[q]
          /\ BlockHash[r][i] = BlockHash[q][i]
      BY <3>0, <1>2 DEF Isolation
    <3>2. i <= k
      BY <3>1, <2>1, <1>1, <1>3, <1>9 DEF kept
    <3> QED
      BY <3>1, <3>2
  <2>2. CASE i \in DOMAIN hit /\ blocks[i] = hit[i]
    <3>1. /\ hash[table[q][j]] # NoHash
          /\ hash[table[q][j]] = BlockHash[r][i]
          /\ i \in DOMAIN BlockHash[r] /\ i \in Nat /\ i <= kept
      BY <2>2, <1>8, <1>3
    <3>2. j <= cached[q] /\ BlockHash[q][j] = BlockHash[r][i]
      BY <3>1, <1>2 DEF HashOwn
    <3>3. j \in DOMAIN BlockHash[q]
      BY <3>2, <1>2, KVCacheAssumption DEF CachedFits, TypeOK
    <3>4. i = j
      BY <3>1, <3>2, <3>3, KVCacheAssumption, Zenon
    <3>5. i <= k
      BY <3>1, <1>1, <1>9
    <3> QED
      BY <3>2, <3>4, <3>5
  <2>3. CASE /\ i - Len(table[r]) - Len(hit) \in DOMAIN new
             /\ blocks[i] = new[i - Len(table[r]) - Len(hit)]
    <3>1. new[i - Len(table[r]) - Len(hit)] = table[q][j]
      BY <2>3
    <3> QED
      BY <3>1, <2>3, <1>21
  <2> QED
    BY <2>1, <2>2, <2>3, <1>6
<1>24. Isolation'
  <2> SUFFICES ASSUME NEW p \in Request, NEW q \in Request, p # q,
                      NEW i \in DOMAIN table'[p], NEW j \in DOMAIN table'[q],
                      table'[p][i] = table'[q][j]
               PROVE  /\ i = j
                      /\ i <= cached'[p] /\ i <= cached'[q]
                      /\ BlockHash[p][i] = BlockHash[q][i]
    BY DEF Isolation
  <2>1. CASE p # r /\ q # r
    BY <2>1, <1>2, <1>14 DEF Isolation
  <2>2. CASE p = r
    BY <2>2, <1>14, <1>15, <1>23
  <2>3. CASE q = r
    BY <2>3, <1>14, <1>15, <1>23
  <2> QED
    BY <2>1, <2>2, <2>3
<1> QED
  BY <1>10, <1>11, <1>13, <1>19, <1>20, <1>22, <1>24 DEF IInv

\* free() keeps the inductive invariant: exactly the blocks that only r held
\* become free.
LEMMA FreeIInv ==
    ASSUME IInv, NEW r \in Request, Free(r)
    PROVE  IInv'
<1>1. /\ table' = [table EXCEPT ![r] = <<>>]
      /\ cached' = [cached EXCEPT ![r] = 0]
      /\ ref' = [b \in Block |-> IF b \in BlocksOf(r) THEN ref[b] - 1 ELSE ref[b]]
      /\ free' = free \cup {b \in BlocksOf(r) : ref[b] = 1}
      /\ \E n \in 0 .. Len(BlockHash[r]) : full' = [full EXCEPT ![r] = n]
      /\ hash' = hash
  BY DEF Free
<1>2. TypeOK /\ CachedFits /\ TableInjective /\ FreeExact /\ RefExact /\ HashOwn /\ Isolation
  BY DEF IInv
<1>3. /\ table'[r] = <<>> /\ cached'[r] = 0
      /\ \A q \in Request : q # r => table'[q] = table[q] /\ cached'[q] = cached[q]
  BY <1>1, <1>2 DEF TypeOK
<1>4. /\ BlocksOf(r)' = {}
      /\ \A q \in Request : q # r => BlocksOf(q)' = BlocksOf(q)
      /\ BlocksOf(r) \in SUBSET Block
  BY <1>2, <1>3 DEF BlocksOf, TypeOK
<1>5. full' \in [Request -> Nat] /\ \A q \in Request : full'[q] <= Len(BlockHash[q])
  <2>1. PICK n \in 0 .. Len(BlockHash[r]) : full' = [full EXCEPT ![r] = n]
    BY <1>1
  <2>2. Len(BlockHash[r]) \in Nat
    BY KVCacheAssumption
  <2> QED
    BY <2>1, <2>2, <1>2 DEF TypeOK, CachedFits
<1>6. TypeOK'
  BY <1>1, <1>2, <1>4, <1>5 DEF TypeOK
<1>7. CachedFits'
  <2> SUFFICES ASSUME NEW q \in Request
               PROVE  /\ cached'[q] <= Len(table'[q]) /\ cached'[q] <= full'[q]
                      /\ full'[q] <= Len(BlockHash[q])
    BY DEF CachedFits
  <2>1. CASE q = r
    BY <2>1, <1>3, <1>5
  <2>2. CASE q # r
    <3>1. full'[q] = full[q]
      BY <2>2, <1>1, <1>2 DEF TypeOK
    <3> QED
      BY <2>2, <3>1, <1>2, <1>3, <1>5 DEF CachedFits
  <2> QED
    BY <2>1, <2>2
<1>8. TableInjective' /\ HashOwn' /\ Isolation'
  <2>1. \A q \in Request : \A i \in DOMAIN table'[q] : q # r
    BY <1>3
  <2>2. TableInjective'
    BY <2>1, <1>2, <1>3 DEF TableInjective
  <2>3. HashOwn'
    BY <2>1, <1>1, <1>2, <1>3 DEF HashOwn
  <2>4. Isolation'
    BY <2>1, <1>2, <1>3 DEF Isolation
  <2> QED
    BY <2>2, <2>3, <2>4
<1>9. RefExact' /\ FreeExact'
  <2> SUFFICES ASSUME NEW b \in Block
               PROVE  /\ ref'[b] = Cardinality({q \in Request : b \in BlocksOf(q)'})
                      /\ b \in free' <=> \A q \in Request : b \notin BlocksOf(q)'
    BY DEF RefExact, FreeExact
  <2> DEFINE before == {q \in Request : b \in BlocksOf(q)}
             after  == {q \in Request : b \in BlocksOf(q)'}
  <2>1. ref[b] = Cardinality(before) /\ IsFiniteSet(before)
    BY <1>2, KVCacheAssumption, FS_Subset DEF RefExact
  <2>2. after = before \ {r}
    BY <1>4
  <2>3. b \in free <=> before = {}
    BY <1>2 DEF FreeExact
  <2>4. CASE b \in BlocksOf(r)
    <3>1. r \in before /\ b \notin free
      BY <2>4, <2>3
    <3>2. Cardinality(after) = Cardinality(before) - 1
      BY <3>1, <2>1, <2>2, CountOneLess
    <3>3. ref'[b] = Cardinality(after)
      BY <3>2, <2>1, <2>4, <1>1
    <3>4. IsFiniteSet(after)
      BY <2>1, <2>2, FS_RemoveElement
    <3>5. after = {} <=> Cardinality(after) = 0
      BY <3>4, FS_EmptySet
    <3>6. Cardinality(before) \in Nat
      BY <2>1, FS_CardinalityType
    <3>7. b \in free' <=> ref[b] = 1
      BY <3>1, <2>4, <1>1
    <3>8. ref[b] = 1 <=> after = {}
      BY <3>2, <3>5, <3>6, <2>1
    <3> QED
      BY <3>3, <3>7, <3>8
  <2>5. CASE b \notin BlocksOf(r)
    <3>1. after = before
      BY <2>5, <2>2
    <3>2. b \in free' <=> b \in free
      BY <2>5, <1>1
    <3> QED
      BY <3>1, <3>2, <2>1, <2>3, <2>5, <1>1
  <2> QED
    BY <2>4, <2>5
<1> QED
  BY <1>6, <1>7, <1>8, <1>9 DEF IInv

\* Steps that leave the tables and the counts alone keep what is said of them.
LEMMA TablesUnchanged ==
    ASSUME IInv, table' = table, cached' = cached, ref' = ref, free' = free
    PROVE  TableInjective' /\ FreeExact' /\ RefExact' /\ Isolation'
<1>1. \A r : BlocksOf(r)' = BlocksOf(r)
  BY DEF BlocksOf
<1>2. TableInjective'
  BY DEF IInv, TableInjective
<1>3. FreeExact'
  BY <1>1 DEF IInv, FreeExact
<1>4. RefExact'
  BY <1>1 DEF IInv, RefExact
<1>5. Isolation'
  BY DEF IInv, Isolation
<1> QED
  BY <1>2, <1>3, <1>4, <1>5

\* Finalizing more tokens, and dropping blocks from the prefix cache, keep it.
LEMMA GrowIInv ==
    ASSUME IInv, NEW r \in Request, NEW n, Grow(r, n)
    PROVE  IInv'
<1>1. /\ n \in full[r] .. Len(BlockHash[r])
      /\ full' = [full EXCEPT ![r] = n]
      /\ table' = table /\ cached' = cached /\ hash' = hash /\ ref' = ref /\ free' = free
  BY DEF Grow
<1>2. n \in Nat /\ full[r] \in Nat /\ full[r] <= n /\ n <= Len(BlockHash[r])
  BY <1>1, KVCacheAssumption DEF IInv, TypeOK
<1>3. TypeOK'
  BY <1>1, <1>2 DEF IInv, TypeOK
<1>4. CachedFits'
  BY <1>1, <1>2 DEF IInv, TypeOK, CachedFits
<1>5. HashOwn'
  BY <1>1 DEF IInv, HashOwn
<1> QED
  BY <1>1, <1>3, <1>4, <1>5, TablesUnchanged DEF IInv

LEMMA EvictIInv ==
    ASSUME IInv, NEW S \in SUBSET Block, Evict(S)
    PROVE  IInv'
<1>1. /\ hash' = [b \in Block |-> IF b \in S THEN NoHash ELSE hash[b]]
      /\ table' = table /\ cached' = cached /\ full' = full /\ ref' = ref /\ free' = free
  BY DEF Evict
<1>2. TypeOK'
  BY <1>1 DEF IInv, TypeOK
<1>3. CachedFits'
  BY <1>1 DEF IInv, CachedFits
<1>4. HashOwn'
  <2>1. \A r \in Request : \A i \in DOMAIN table[r] : table[r][i] \in Block
    BY DEF IInv, TypeOK
  <2> QED
    BY <2>1, <1>1 DEF IInv, HashOwn
<1> QED
  BY <1>1, <1>2, <1>3, <1>4, TablesUnchanged DEF IInv

\* Every step of the specification keeps the inductive invariant.
LEMMA NextIInv == IInv /\ [Next]_vars => IInv'
<1> SUFFICES ASSUME IInv, [Next]_vars PROVE IInv'
  OBVIOUS
<1>1. ASSUME NEW r \in Request,
             \E m \in 0 .. full[r] : \E hit \in [1 .. m -> Block] :
                /\ IsHit(r, hit)
                /\ \E n \in 0 .. Cardinality(free) : \E new \in [1 .. n -> free] :
                      /\ IsFresh(hit, new)
                      /\ \E k \in 0 .. full[r] : Allocate(r, hit, new, k)
      PROVE  IInv'
  BY <1>1, AllocateIInv
<1>2. ASSUME NEW r \in Request, Free(r) PROVE IInv'
  BY <1>2, FreeIInv
<1>3. ASSUME NEW r \in Request, \E n \in 0 .. Len(BlockHash[r]) : Grow(r, n) PROVE IInv'
  BY <1>3, GrowIInv
<1>4. ASSUME NEW S \in SUBSET Block, Evict(S) PROVE IInv'
  BY <1>4, EvictIInv
<1>5. CASE UNCHANGED vars
  <2>1. TypeOK' /\ CachedFits' /\ HashOwn'
    BY <1>5 DEF vars, IInv, TypeOK, CachedFits, HashOwn
  <2> QED
    BY <1>5, <2>1, TablesUnchanged DEF vars, IInv
<1> QED
  BY <1>1, <1>2, <1>3, <1>4, <1>5 DEF Next

\* The inductive invariant holds in every reachable state, for any requests,
\* blocks and block hashes: the bookkeeping of BlockPool and KVCacheManager.
THEOREM Invariance == Spec => []IInv
<1>1. Init => IInv
  BY InitIInv
<1>2. IInv /\ [Next]_vars => IInv'
  BY NextIInv
<1> QED
  BY <1>1, <1>2, PTL DEF Spec

\* Values keep their types (the fields of BlockPool and of the manager).
THEOREM TypeCorrect == Spec => []TypeOK
<1>1. IInv => TypeOK
  BY DEF IInv
<1> QED
  BY <1>1, Invariance, PTL

\* Requests never share a block except as a full cached block of a common
\* prefix, so no request's KV data is overwritten or read by another.
THEOREM BlocksIsolated == Spec => []Isolation
<1>1. IInv => Isolation
  BY DEF IInv
<1> QED
  BY <1>1, Invariance, PTL

\* ref_cnt is exact and the free queue holds precisely the unreferenced blocks:
\* no block leaks and none is handed out while in use.
THEOREM AccountingExact == Spec => [](RefExact /\ FreeExact)
<1>1. IInv => RefExact /\ FreeExact
  BY DEF IInv
<1> QED
  BY <1>1, Invariance, PTL
==============================================================================
