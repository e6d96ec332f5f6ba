------------------------- MODULE KVCacheClient_proofs -------------------------
(* KVCacheClient implements KVCache, and what follows from that for the code:  *)
(* for any number of requests, blocks and tokens.                              *)
EXTENDS KVCacheClient, KVCacheManager_proofs

\* The abstract cache of a state of the code.
tableBar  == kv.req_to_blocks
cachedBar == [r \in Request |-> max(kv.num_cached_block[r], 0)]
fullBar   == [r \in Request |-> num_tokens[r] \div BlockSize]
hashBar   == kv.pool.block_hash
refBar    == kv.pool.ref_cnt
freeBar   == ToSet(kv.pool.free)

\* The theorems about it.
K == INSTANCE KVCache_proofs WITH
    BlockHash <- AllBlockHashes,
    MaxFull <- MaxModelLen,
    table  <- tableBar,
    cached <- cachedBar,
    full   <- fullBar,
    hash   <- hashBar,
    ref    <- refBar,
    free   <- freeBar

-----------------------------------------------------------------------------
\* What is assumed of the constants.
LEMMA ClientConstants ==
    /\ BlockSize \in Nat \ {0} /\ MaxModelLen \in Nat \ {0}
    /\ EnableCaching \in BOOLEAN /\ UseEagle \in BOOLEAN /\ AllowEvict \in BOOLEAN
    /\ Lookahead \in Nat /\ MaxDraft \in Nat
    /\ NumGpuBlocks \in Nat \ {0, 1}
    /\ IsFiniteSet(Request)
    /\ PromptLen \in [Request -> Nat \ {0}]
    /\ \A r \in Request :
          /\ Text[r] \in Seq(Nat) /\ Len(Text[r]) \in Nat
          /\ PromptLen[r] \in 1 .. Len(Text[r])
          /\ Len(Text[r]) <= MaxModelLen
<1>1. \A r \in Request :
         /\ PromptLen[r] \in 1 .. Len(Text[r])
         /\ Len(Text[r]) <= MaxModelLen
  BY KVCacheClientAssumption, Constants
<1>2. Lookahead \in Nat /\ MaxDraft \in Nat
  BY KVCacheClientAssumption
<1> QED
  BY <1>1, <1>2, KVCacheClientAssumption, Constants

\* The hashes of r, as KVCache has them.
LEMMA AllHashes ==
    ASSUME NEW r \in Request
    PROVE  /\ AllBlockHashes[r] \in Seq(Hash)
           /\ Len(AllBlockHashes[r]) = Len(Text[r]) \div BlockSize
           /\ DOMAIN AllBlockHashes[r] = FullBlocks(r)
           /\ \A i \in FullBlocks(r) : AllBlockHashes[r][i] = block_hashes(r, i)
<1>1. Len(Text[r]) \div BlockSize \in Nat
  BY ClientConstants, DivFacts
<1>2. AllBlockHashes[r] = [i \in FullBlocks(r) |-> block_hashes(r, i)]
  BY DEF AllBlockHashes, FullBlocks
<1>3. \A i \in FullBlocks(r) : block_hashes(r, i) \in Hash
  BY HashFacts
<1> QED
  BY <1>1, <1>2, <1>3 DEF FullBlocks

\* The assumptions of KVCache hold for the code.
LEMMA Assumption == K!KVCacheAssumption
<1>1. AllBlockHashes \in [Request -> Seq(Hash)]
  BY AllHashes DEF AllBlockHashes
<1>2. ASSUME NEW r \in Request, NEW q \in Request, NEW i \in DOMAIN AllBlockHashes[r],
             NEW j \in DOMAIN AllBlockHashes[q], AllBlockHashes[r][i] = AllBlockHashes[q][j]
      PROVE  i = j
  <2>1. /\ i \in FullBlocks(r) /\ j \in FullBlocks(q)
        /\ block_hashes(r, i) = block_hashes(q, j)
    BY <1>2, AllHashes
  <2> QED
    BY <2>1, HashUnique
<1>3. IsFiniteSet(Request) /\ MaxModelLen \in Nat
  BY ClientConstants
<1>4. \A r, q \in Request :
         \A i \in DOMAIN AllBlockHashes[r], j \in DOMAIN AllBlockHashes[q] :
            AllBlockHashes[r][i] = AllBlockHashes[q][j] => i = j
  BY <1>2
<1>5. NoHash \notin Hash
  BY NoHashIsNone
<1> QED
  BY <1>1, <1>3, <1>4, <1>5, SMT DEF K!KVCacheAssumption, IsFiniteSet, K!IsFiniteSet

-----------------------------------------------------------------------------
\* The counters of the scheduler, and what it relies on: a request without blocks has no
\* num_cached_block entry, and every computed token has a slot.
Counters ==
    /\ num_tokens \in [Request -> Nat] /\ num_computed_tokens \in [Request -> Nat]
    /\ \A r \in Request : /\ num_tokens[r] \in 1 .. Len(Text[r])
                          /\ num_computed_tokens[r] <= num_tokens[r] + MaxDraft
    /\ \A r \in Request : kv.num_cached_block[r] >= Absent
    /\ \A r \in Request : kv.req_to_blocks[r] = <<>> => kv.num_cached_block[r] = Absent
    /\ ComputedTokensHaveSlots

\* The inductive invariant: the code's structures are sound, the counters fit, and the
\* abstract cache of the state satisfies its own invariant.
Inv == Sound(kv) /\ Counters /\ K!IInv

\* Cardinality is the same operator in the instance.
LEMMA SameCardinality == ASSUME NEW S PROVE K!Cardinality(S) = Cardinality(S)
BY DEF Cardinality, K!Cardinality

\* What the invariant says of the table of a request.
LEMMA TableFacts ==
    ASSUME Inv, NEW r \in Request
    PROVE  LET t == kv.req_to_blocks[r]
           IN  /\ t \in Seq(Block) /\ Len(t) \in Nat /\ IsInjective(t) /\ ToSet(t) \subseteq Block
               /\ cachedBar[r] = max(kv.num_cached_block[r], 0)
               /\ cachedBar[r] \in Nat /\ cachedBar[r] <= Len(t) /\ cachedBar[r] <= fullBar[r]
               /\ fullBar[r] = num_tokens[r] \div BlockSize /\ fullBar[r] \in Nat
               /\ fullBar[r] <= Len(Text[r]) \div BlockSize
               /\ \A b \in ToSet(t) : b \notin ToSet(kv.pool.free) /\ kv.pool.ref_cnt[b] >= 1
               /\ \A i \in 1 .. Len(t) : kv.pool.block_hash[t[i]] # NoHash =>
                     i <= cachedBar[r] /\ i \in FullBlocks(r)
                        /\ kv.pool.block_hash[t[i]] = block_hashes(r, i)
<1> DEFINE t == kv.req_to_blocks[r]
<1>1. /\ Sound(kv) /\ K!IInv /\ K!TypeOK /\ K!CachedFits /\ K!TableInjective /\ K!FreeExact /\ K!HashOwn
  BY DEF Inv, K!IInv
<1>2. t \in Seq(Block) /\ Len(t) \in Nat /\ ToSet(t) \subseteq Block
  <2>1. t \in Seq(Block)
    BY <1>1, SoundFields
  <2> QED
    BY <2>1, SeqFacts
<1>3. /\ cachedBar[r] = max(kv.num_cached_block[r], 0)
      /\ fullBar[r] = num_tokens[r] \div BlockSize
  BY DEF cachedBar, fullBar
<1>4. /\ cachedBar[r] \in Nat /\ cachedBar[r] <= Len(t) /\ cachedBar[r] <= fullBar[r]
      /\ fullBar[r] \in Nat /\ fullBar[r] <= Len(Text[r]) \div BlockSize
  <2>1. cachedBar[r] \in Nat /\ fullBar[r] \in Nat
    BY <1>1 DEF K!TypeOK
  <2>2. /\ cachedBar[r] <= Len(t) /\ cachedBar[r] <= fullBar[r]
        /\ fullBar[r] <= Len(AllBlockHashes[r])
    BY <1>1 DEF K!CachedFits, tableBar
  <2> QED
    BY <2>1, <2>2, AllHashes
<1>5. IsInjective(t)
  <2>1. \A i, j \in DOMAIN t : t[i] = t[j] => i = j
    BY <1>1 DEF K!TableInjective, tableBar
  <2> QED
    BY <2>1 DEF IsInjective
<1>6. \A b \in ToSet(t) : b \notin ToSet(kv.pool.free) /\ kv.pool.ref_cnt[b] >= 1
  <2> SUFFICES ASSUME NEW b \in ToSet(t)
               PROVE  b \notin ToSet(kv.pool.free) /\ kv.pool.ref_cnt[b] >= 1
    OBVIOUS
  <2>1. b \in K!BlocksOf(r)
    BY DEF K!BlocksOf, tableBar, ToSet
  <2>2. b \in Block
    BY <1>2
  <2>3. b \notin ToSet(kv.pool.free)
    BY <1>1, <2>1, <2>2 DEF K!FreeExact, freeBar
  <2>4. kv.pool.ref_cnt[b] \in Int /\ kv.pool.ref_cnt[b] >= 0 /\ kv.pool.ref_cnt[b] # 0
    BY <1>1, <2>2, <2>3, SoundFields
  <2> QED
    BY <2>3, <2>4
<1>7. ASSUME NEW i \in 1 .. Len(t), kv.pool.block_hash[t[i]] # NoHash
      PROVE  /\ i <= cachedBar[r] /\ i \in FullBlocks(r)
             /\ kv.pool.block_hash[t[i]] = block_hashes(r, i)
  <2>1. i \in DOMAIN tableBar[r] /\ tableBar[r] = t
    BY <1>2 DEF tableBar
  <2>2. i <= cachedBar[r] /\ kv.pool.block_hash[t[i]] = AllBlockHashes[r][i]
    BY <1>1, <1>7, <2>1 DEF K!HashOwn, hashBar
  <2>3. i \in FullBlocks(r)
    <3>1. PICK z : z = Len(Text[r]) \div BlockSize
      OBVIOUS
    <3>2. z \in Nat
      BY <3>1, ClientConstants, DivFacts
    <3>3. i \in 1 .. z
      <4>1. i \in Nat /\ 1 <= i /\ fullBar[r] <= z
        BY <1>2, <1>4, <3>1
      <4> QED
        BY <1>4, <2>2, <3>2, <4>1
    <3> QED
      BY <3>1, <3>3 DEF FullBlocks
  <2> QED
    BY <2>2, <2>3, AllHashes
<1> QED
  BY <1>2, <1>3, <1>4, <1>5, <1>6, <1>7

\* The initial state.
LEMMA InitInv == Init => K!Init /\ Inv
<1> SUFFICES ASSUME Init PROVE K!Init /\ Inv
  OBVIOUS
<1>1. /\ kv = InitKV /\ num_tokens = PromptLen /\ num_computed_tokens = [r \in Request |-> 0]
  BY DEF Init
<1>2. PICK p : p = InitPool(Hash)
  OBVIOUS
<1>3. /\ p.free = FreeQueue /\ p.ref_cnt = [b \in Block |-> 0]
      /\ p.block_hash = [b \in Block |-> NoHash] /\ p.cache = [h \in Hash |-> <<>>]
      /\ p = [free |-> p.free, ref_cnt |-> p.ref_cnt, block_hash |-> p.block_hash, cache |-> p.cache]
  BY <1>2 DEF InitPool
<1>4. /\ kv.pool = p /\ kv.req_to_blocks = [r \in Request |-> <<>>]
      /\ kv.num_cached_block = [r \in Request |-> Absent]
      /\ kv = [pool |-> kv.pool, req_to_blocks |-> kv.req_to_blocks,
               num_cached_block |-> kv.num_cached_block]
  BY <1>1, <1>2 DEF InitKV
<1>5. /\ FreeQueue \in Seq(Block) /\ IsInjective(FreeQueue) /\ ToSet(FreeQueue) = Block
  <2>1. NumGpuBlocks - 1 \in Nat
    BY ClientConstants
  <2> QED
    BY <2>1 DEF FreeQueue, Block, IsInjective, ToSet
<1>6. p \in Pool(Hash)
  <2>1. /\ p.free \in Seq(Block) /\ p.ref_cnt \in [Block -> Int]
        /\ p.block_hash \in [Block -> Hash \cup {NoHash}] /\ p.cache \in [Hash -> Seq(Block)]
    BY <1>3, <1>5
  <2> QED
    BY <1>3, <2>1 DEF Pool
<1>7. Coherent(p, Hash)
  BY <1>3, NoHashIsNone DEF Coherent, IsInjective, ToSet
<1>8. Sound(kv)
  <2>1. kv \in Manager
    <3>1. kv.req_to_blocks \in [Request -> Seq(Block)] /\ kv.num_cached_block \in [Request -> Int]
      BY <1>4 DEF Absent
    <3> QED
      BY <1>4, <1>6, <3>1 DEF Manager
  <2> QED
    BY <1>3, <1>4, <1>5, <1>7, <2>1 DEF Sound
<1>9. Counters
  <2>1. \A r \in Request : /\ PromptLen[r] \in Nat \ {0} /\ PromptLen[r] \in 1 .. Len(Text[r])
                           /\ 0 <= PromptLen[r] + MaxDraft /\ 0 <= 0 * BlockSize
    BY ClientConstants
  <2>2. num_tokens \in [Request -> Nat] /\ num_computed_tokens \in [Request -> Nat]
    BY <1>1, ClientConstants
  <2>3. \A r \in Request : /\ kv.num_cached_block[r] = Absent /\ Absent >= Absent
                           /\ Len(kv.req_to_blocks[r]) = 0 /\ num_computed_tokens[r] = 0
    BY <1>1, <1>4 DEF Absent
  <2> QED
    BY <1>1, <2>1, <2>2, <2>3 DEF Counters, ComputedTokensHaveSlots
<1>10. K!Init
  <2>1. cachedBar = [r \in Request |-> 0]
    <3>1. \A r \in Request : max(kv.num_cached_block[r], 0) = 0
      BY <1>4 DEF Absent, max
    <3> QED
      BY <3>1 DEF cachedBar
  <2>2. fullBar \in {f \in [Request -> 0 .. MaxModelLen] :
                       \A r \in Request : f[r] <= Len(AllBlockHashes[r])}
    <3>1. ASSUME NEW r \in Request
          PROVE  /\ PromptLen[r] \div BlockSize \in 0 .. MaxModelLen
                 /\ PromptLen[r] \div BlockSize <= Len(Text[r]) \div BlockSize
      <4>1. /\ PromptLen[r] \in Nat /\ Len(Text[r]) \in Nat /\ PromptLen[r] <= Len(Text[r])
            /\ Len(Text[r]) <= MaxModelLen /\ BlockSize \in Nat \ {0} /\ MaxModelLen \in Nat
        BY ClientConstants
      <4>2. PromptLen[r] \div BlockSize <= Len(Text[r]) \div BlockSize
        BY <4>1, DivMonotone
      <4>3. PICK z : z = PromptLen[r] \div BlockSize
        OBVIOUS
      <4>4. z \in Nat /\ z * BlockSize <= PromptLen[r]
        BY <4>1, <4>3, DivFacts
      <4>5. z <= z * BlockSize
        BY <4>1, <4>4
      <4>6. z * BlockSize \in Nat
        BY <4>1, <4>4
      <4>7. z \in 0 .. MaxModelLen
        BY <4>1, <4>4, <4>5, <4>6
      <4> QED
        BY <4>2, <4>3, <4>7
    <3>2. fullBar = [r \in Request |-> PromptLen[r] \div BlockSize]
      BY <1>1 DEF fullBar
    <3> QED
      BY <3>1, <3>2, AllHashes
  <2> QED
    BY <1>3, <1>4, <1>5, <2>1, <2>2 DEF K!Init, tableBar, hashBar, refBar, freeBar
<1>11. K!IInv
  BY <1>10, Assumption, K!InitIInv
<1> QED
  BY <1>8, <1>9, <1>10, <1>11 DEF Inv

\* What allocate_slots() is called with, besides that: a hit carries the first hashes of r.
Scheduled(r, hit, c, n, la) ==
    /\ Inv /\ Allocatable(kv, r, hit, num_tokens[r], c, n, la)
    /\ Len(hit) <= num_tokens[r] \div BlockSize
    /\ \A i \in 1 .. Len(hit) : /\ i \in FullBlocks(r)
                                /\ kv.pool.block_hash[hit[i]] = block_hashes(r, i)
    /\ kv' = allocate_slots(kv, r, num_tokens[r], c, n, la, hit)
    /\ num_tokens' = num_tokens

\* allocate_slots() is the step Allocate of the abstract cache.
LEMMA AllocateStep ==
    ASSUME NEW r \in Request, NEW hit, NEW c, NEW n, NEW la, Scheduled(r, hit, c, n, la)
    PROVE  \E new, f : /\ Allocated(kv, kv', r, hit, new, f)
                       /\ K!Next /\ K!Allocate(r, hit, new, f)
                       /\ Need(c, n, la, hit) <= Len(kv'.req_to_blocks[r]) * BlockSize
<1> DEFINE tr == kv.req_to_blocks[r]
<1>1. /\ Inv /\ Allocatable(kv, r, hit, num_tokens[r], c, n, la)
      /\ Len(hit) <= num_tokens[r] \div BlockSize
      /\ \A i \in 1 .. Len(hit) : /\ i \in FullBlocks(r)
                                  /\ kv.pool.block_hash[hit[i]] = block_hashes(r, i)
      /\ kv' = allocate_slots(kv, r, num_tokens[r], c, n, la, hit)
      /\ num_tokens' = num_tokens
  BY DEF Scheduled
<1>2. PICK new, f :
         /\ Allocated(kv, kv', r, hit, new, f)
         /\ f <= max(max(kv.num_cached_block[r], 0) + Len(hit), num_tokens[r] \div BlockSize)
         /\ Need(c, n, la, hit) <= Len(tr \o hit \o new) * BlockSize
  BY <1>1, AllocateFacts
<1> DEFINE blocks == tr \o hit \o new
           kept   == max(kv.num_cached_block[r], 0) + Len(hit)
           gained == ToSet(hit) \cup ToSet(new)
           lost   == [b \in Block |-> IF b \in ToSet(new) THEN NoHash ELSE kv.pool.block_hash[b]]
<1>3. /\ Sound(kv) /\ Sound(kv')
      /\ new \in Seq(Block) /\ IsInjective(new)
      /\ ToSet(new) \subseteq ToSet(kv.pool.free) \ ToSet(hit)
      /\ f \in Nat /\ kept <= f /\ f <= Len(blocks)
      /\ kv'.req_to_blocks = [kv.req_to_blocks EXCEPT ![r] = blocks]
      /\ \A q \in Request : q # r => kv'.num_cached_block[q] = kv.num_cached_block[q]
      /\ max(kv'.num_cached_block[r], 0) = f
      /\ kv'.pool.block_hash = OwnHashes(r, blocks, kept, f, lost)
      /\ kv'.pool.ref_cnt = [b \in Block |-> IF b \in gained THEN kv.pool.ref_cnt[b] + 1
                                                          ELSE kv.pool.ref_cnt[b]]
      /\ ToSet(kv'.pool.free) = ToSet(kv.pool.free) \ gained
  BY <1>1, <1>2 DEF Allocated, Inv
<1>4. /\ tr \in Seq(Block) /\ Len(tr) \in Nat
      /\ cachedBar[r] = max(kv.num_cached_block[r], 0) /\ cachedBar[r] \in Nat
      /\ cachedBar[r] <= Len(tr) /\ cachedBar[r] <= fullBar[r]
      /\ fullBar[r] = num_tokens[r] \div BlockSize /\ fullBar[r] \in Nat
      /\ fullBar[r] <= Len(Text[r]) \div BlockSize
  BY <1>1, TableFacts
<1>5. /\ hit \in Seq(Block) /\ Len(hit) \in Nat /\ DOMAIN hit = 1 .. Len(hit)
      /\ hit # <<>> => tr = <<>>
      /\ DOMAIN new = 1 .. Len(new) /\ Len(new) \in Nat
  <2>1. hit \in Seq(Block) /\ (hit # <<>> => tr = <<>>)
    BY <1>1 DEF Allocatable
  <2> QED
    BY <1>3, <2>1
<1>6. /\ kept = cachedBar[r] + Len(hit) /\ kept \in Nat /\ kept <= fullBar[r]
      /\ f <= fullBar[r]
  <2>1. kept = cachedBar[r] + Len(hit) /\ kept \in Nat
    BY <1>4, <1>5
  <2>2. kept <= fullBar[r]
    <3>1. CASE hit = <<>>
      BY <1>4, <1>5, <2>1, <3>1
    <3>2. CASE hit # <<>>
      <4>1. Len(tr) = 0
        BY <1>5, <3>2
      <4> HIDE DEF tr, kept
      <4> QED
        BY <1>1, <1>4, <1>5, <2>1, <4>1
    <3> QED
      BY <3>1, <3>2
  <2>3. f <= max(kept, fullBar[r])
    BY <1>2, <1>4
  <2> HIDE DEF kept
  <2> QED
    BY <1>3, <1>4, <2>1, <2>2, <2>3 DEF max
<1> HIDE DEF tr, blocks, kept
<1>7. tableBar' = [tableBar EXCEPT ![r] = blocks] /\ kv'.req_to_blocks[r] = blocks
  <2>1. kv.req_to_blocks \in [Request -> Seq(Block)]
    BY <1>3, SoundFields
  <2> QED
    BY <1>3, <2>1 DEF tableBar
<1>8. cachedBar' = [cachedBar EXCEPT ![r] = f]
  <2>1. \A q \in Request : max(kv'.num_cached_block[q], 0) =
                              IF q = r THEN f ELSE max(kv.num_cached_block[q], 0)
    BY <1>3
  <2>2. cachedBar' = [q \in Request |-> max(kv'.num_cached_block[q], 0)]
    BY DEF cachedBar
  <2>3. [cachedBar EXCEPT ![r] = f] =
            [q \in Request |-> IF q = r THEN f ELSE max(kv.num_cached_block[q], 0)]
    BY DEF cachedBar
  <2> QED
    BY <2>1, <2>2, <2>3
<1>9. fullBar' = fullBar
  BY <1>1 DEF fullBar
<1>10. /\ gained = {hit[i] : i \in DOMAIN hit} \cup {new[i] : i \in DOMAIN new}
       /\ \A b : b \in ToSet(new) <=> \E i \in DOMAIN new : new[i] = b
  BY DEF ToSet
<1>11. hashBar' = [b \in Block |->
                      IF \E i \in (kept + 1) .. f : blocks[i] = b
                      THEN AllBlockHashes[r][CHOOSE i \in (kept + 1) .. f : blocks[i] = b]
                      ELSE IF \E i \in DOMAIN new : new[i] = b THEN NoHash ELSE hashBar[b]]
  <2> DEFINE V(b) == IF \E i \in (kept + 1) .. f : blocks[i] = b
                     THEN block_hashes(r, CHOOSE i \in (kept + 1) .. f : blocks[i] = b)
                     ELSE lost[b]
             W(b) == IF \E i \in (kept + 1) .. f : blocks[i] = b
                     THEN AllBlockHashes[r][CHOOSE i \in (kept + 1) .. f : blocks[i] = b]
                     ELSE IF \E i \in DOMAIN new : new[i] = b THEN NoHash ELSE hashBar[b]
  <2>1. ASSUME NEW b \in Block PROVE V(b) = W(b)
    <3>1. CASE \E i \in (kept + 1) .. f : blocks[i] = b
      <4>1. PICK x : x = CHOOSE i \in (kept + 1) .. f : blocks[i] = b
        OBVIOUS
      <4>2. x \in (kept + 1) .. f
        BY <3>1, <4>1
      <4>3. x \in FullBlocks(r)
        <5>1. PICK z \in Nat : z = Len(Text[r]) \div BlockSize
          BY ClientConstants, DivFacts
        <5>2. fullBar[r] <= z
          BY <1>4, <5>1
        <5>3. x \in 1 .. z
          BY <1>3, <1>4, <1>6, <4>2, <5>2
        <5> QED
          BY <5>1, <5>3 DEF FullBlocks
      <4>4. AllBlockHashes[r][x] = block_hashes(r, x)
        BY <4>3, AllHashes
      <4> QED
        BY <3>1, <4>1, <4>4
    <3>2. CASE ~ \E i \in (kept + 1) .. f : blocks[i] = b
      <4>1. lost[b] = IF \E i \in DOMAIN new : new[i] = b THEN NoHash ELSE hashBar[b]
        BY <1>10 DEF hashBar
      <4> QED
        BY <3>2, <4>1
    <3> QED
      BY <3>1, <3>2
  <2>2. hashBar' = [b \in Block |-> V(b)]
    BY <1>3 DEF hashBar, OwnHashes
  <2> HIDE DEF V, W
  <2>3. hashBar' = [b \in Block |-> W(b)]
    BY <2>1, <2>2
  <2> QED
    BY <2>3 DEF W
<1>12. refBar' = [b \in Block |-> IF b \in gained THEN refBar[b] + 1 ELSE refBar[b]]
  BY <1>3 DEF refBar
<1>13. freeBar' = freeBar \ gained
  BY <1>3 DEF freeBar
<1>14. K!IsHit(r, hit)
  <2>1. \A i \in 1 .. Len(hit) : hashBar[hit[i]] = AllBlockHashes[r][i]
    BY <1>1, AllHashes DEF hashBar
  <2>2. tableBar[r] = tr
    BY DEF tableBar, tr
  <2>3. Len(hit) <= fullBar[r]
    BY <1>1, <1>4
  <2> QED
    BY <1>5, <2>1, <2>2, <2>3 DEF K!IsHit
<1>15. K!IsFresh(hit, new)
  <2>1. \A i \in DOMAIN new : new[i] \in freeBar
    BY <1>3 DEF freeBar, ToSet
  <2>2. \A i \in DOMAIN new : \A j \in DOMAIN hit : new[i] # hit[j]
    <3>1. /\ \A i \in DOMAIN new : new[i] \in ToSet(new)
          /\ \A j \in DOMAIN hit : hit[j] \in ToSet(hit)
      BY DEF ToSet
    <3> QED
      BY <1>3, <3>1
  <2>3. \A i, j \in DOMAIN new : new[i] = new[j] => i = j
    BY <1>3 DEF IsInjective
  <2> QED
    BY <1>3, <2>1, <2>2, <2>3 DEF K!IsFresh
<1>16. K!Allocate(r, hit, new, f)
  <2>1. f \in kept .. fullBar[r] /\ f <= Len(blocks)
    BY <1>3, <1>4, <1>6
  <2>2. blocks = tableBar[r] \o hit \o new
    BY DEF blocks, tableBar, tr
  <2> HIDE DEF gained
  <2>3. cachedBar[r] + Len(hit) = kept
    BY <1>6
  <2> QED
    BY <1>7, <1>8, <1>9, <1>10, <1>11, <1>12, <1>13, <1>14, <1>15, <2>1, <2>2, <2>3, ZenonT(60)
    DEF K!Allocate
<1>17. K!Next
  <2>1. Len(hit) \in 0 .. fullBar[r] /\ hit \in [1 .. Len(hit) -> Block] /\ f \in 0 .. fullBar[r]
    BY <1>1, <1>3, <1>4, <1>5, <1>6
  <2>2. Len(new) \in 0 .. K!Cardinality(freeBar)
    <3>1. /\ IsFiniteSet(ToSet(new)) /\ Cardinality(ToSet(new)) = Len(new)
      BY <1>3, InjectiveLen
    <3>2. IsFiniteSet(freeBar)
      <4>1. kv.pool.free \in Seq(Block) /\ IsInjective(kv.pool.free)
        BY <1>3, SoundFields
      <4> QED
        BY <4>1, InjectiveLen DEF freeBar
    <3>3. ToSet(new) \in SUBSET freeBar
      BY <1>3 DEF freeBar
    <3>4. Cardinality(ToSet(new)) <= Cardinality(freeBar) /\ Cardinality(freeBar) \in Nat
      BY <3>2, <3>3, FS_Subset, FS_CardinalityType
    <3> QED
      BY <1>5, <3>1, <3>4, SameCardinality
  <2>3. new \in [1 .. Len(new) -> freeBar]
    BY <1>3, <1>5, <1>15 DEF K!IsFresh
  <2> QED
    BY <1>14, <1>15, <1>16, <2>1, <2>2, <2>3 DEF K!Next
<1> QED
  BY <1>2, <1>7, <1>16, <1>17 DEF blocks

\* Scheduling keeps the invariant if the tokens it counts as computed have slots.
LEMMA ScheduleInv ==
    ASSUME NEW r \in Request, NEW hit, NEW c, NEW n, NEW la, Scheduled(r, hit, c, n, la),
           NEW x \in Nat, x <= Need(c, n, la, hit), 1 <= Need(c, n, la, hit),
           x <= num_tokens[r] + MaxDraft,
           num_computed_tokens' = [num_computed_tokens EXCEPT ![r] = x]
    PROVE  K!Next /\ Inv'
<1>1. PICK new, f : /\ Allocated(kv, kv', r, hit, new, f)
                    /\ K!Next
                    /\ Need(c, n, la, hit) <= Len(kv'.req_to_blocks[r]) * BlockSize
  BY AllocateStep
<1>2. /\ Inv /\ Sound(kv) /\ Counters /\ K!IInv /\ num_tokens' = num_tokens
      /\ num_tokens[r] \in Nat /\ c \in Nat /\ n \in Nat /\ la \in Nat /\ hit \in Seq(Block)
      /\ num_tokens[r] <= MaxModelLen
  <2>1. Inv /\ Sound(kv) /\ Counters /\ K!IInv /\ num_tokens' = num_tokens
    BY DEF Scheduled, Inv
  <2>2. c \in Nat /\ n \in Nat /\ la \in Nat /\ hit \in Seq(Block)
    BY DEF Scheduled, Allocatable
  <2>3. num_tokens[r] \in Nat /\ num_tokens[r] <= Len(Text[r])
    BY <2>1, ClientConstants DEF Counters
  <2> QED
    BY <2>1, <2>2, <2>3, ClientConstants
<1>3. K!IInv'
  BY <1>1, <1>2, Assumption, K!NextIInv
<1>4. /\ Sound(kv') /\ f \in Nat
      /\ kv'.req_to_blocks = [kv.req_to_blocks EXCEPT ![r] = kv.req_to_blocks[r] \o hit \o new]
      /\ \A q \in Request : q # r => kv'.num_cached_block[q] = kv.num_cached_block[q]
      /\ kv'.num_cached_block[r] \in {kv.num_cached_block[r], f}
  BY <1>1 DEF Allocated
<1>5. /\ kv.req_to_blocks \in [Request -> Seq(Block)] /\ kv.num_cached_block \in [Request -> Int]
      /\ kv'.req_to_blocks \in [Request -> Seq(Block)] /\ kv'.num_cached_block \in [Request -> Int]
  BY <1>2, <1>4, SoundFields
<1>6. \A q \in Request : q # r => kv'.req_to_blocks[q] = kv.req_to_blocks[q]
  BY <1>4, <1>5
<1>7. /\ num_tokens \in [Request -> Nat] /\ num_computed_tokens \in [Request -> Nat]
      /\ \A q \in Request : /\ num_tokens[q] \in 1 .. Len(Text[q])
                            /\ num_computed_tokens[q] <= num_tokens[q] + MaxDraft
      /\ \A q \in Request : kv.num_cached_block[q] >= Absent
      /\ \A q \in Request : kv.req_to_blocks[q] = <<>> => kv.num_cached_block[q] = Absent
      /\ \A q \in Request : num_computed_tokens[q] <= Len(kv.req_to_blocks[q]) * BlockSize
  BY <1>2 DEF Counters, ComputedTokensHaveSlots
<1>8. /\ num_computed_tokens' \in [Request -> Nat] /\ num_computed_tokens'[r] = x
      /\ \A q \in Request : q # r => num_computed_tokens'[q] = num_computed_tokens[q]
  BY <1>7
<1>9. PICK y : y = Need(c, n, la, hit)
  OBVIOUS
<1>10. y \in Nat
  BY <1>2, <1>9, NeedFacts
<1>11. /\ y <= Len(kv'.req_to_blocks[r]) * BlockSize
       /\ x <= y /\ 1 <= y
  BY <1>1, <1>9
<1>12. PICK l \in Nat : l = Len(kv'.req_to_blocks[r])
  BY <1>5
<1>13. y <= l * BlockSize /\ l * BlockSize \in Nat /\ BlockSize \in Nat
  BY <1>11, <1>12, ClientConstants
<1>14. kv'.req_to_blocks[r] # <<>>
  <2> SUFFICES ASSUME kv'.req_to_blocks[r] = <<>> PROVE FALSE
    OBVIOUS
  <2>1. l = 0
    BY <1>12
  <2>2. l * BlockSize = 0
    BY <1>13, <2>1
  <2> QED
    BY <1>10, <1>11, <1>13, <2>2
<1>15. kv'.num_cached_block[r] >= Absent
  BY <1>4, <1>7 DEF Absent
<1>16. x <= Len(kv'.req_to_blocks[r]) * BlockSize
  <2>1. x <= l * BlockSize
    BY <1>10, <1>11, <1>13
  <2> QED
    BY <1>12, <2>1
<1>17. Counters'
  <2>1. \A q \in Request : kv'.num_cached_block[q] >= Absent
    BY <1>4, <1>7, <1>15
  <2>2. \A q \in Request : kv'.req_to_blocks[q] = <<>> => kv'.num_cached_block[q] = Absent
    BY <1>4, <1>6, <1>7, <1>14
  <2>3. \A q \in Request : num_computed_tokens'[q] <= Len(kv'.req_to_blocks[q]) * BlockSize
    BY <1>6, <1>7, <1>8, <1>16
  <2>4. \A q \in Request : num_computed_tokens'[q] <= num_tokens[q] + MaxDraft
    BY <1>7, <1>8
  <2> QED
    BY <1>2, <1>7, <1>8, <2>1, <2>2, <2>3, <2>4 DEF Counters, ComputedTokensHaveSlots
<1> QED
  BY <1>1, <1>3, <1>4, <1>17 DEF Inv

\* A waiting request is scheduled.
LEMMA WaitingStep ==
    ASSUME Inv, NEW r \in Request, NEW n \in 1 .. Len(Text[r]), ScheduleWaiting(r, n)
    PROVE  LET hit == get_computed_blocks(kv, r, num_tokens[r])
           IN  Scheduled(r, hit, 0, n, 0) /\ K!Next /\ Inv'
<1> DEFINE t     == num_tokens[r]
           hit   == get_computed_blocks(kv, r, t)
           start == Len(hit) * BlockSize
<1>1. /\ kv.req_to_blocks[r] = <<>>
      /\ n <= t - start
      /\ can_allocate_slots(kv, r, 0, n, 0, hit)
      /\ kv' = allocate_slots(kv, r, t, 0, n, 0, hit)
      /\ num_computed_tokens' = [num_computed_tokens EXCEPT ![r] = start + n]
      /\ num_tokens' = num_tokens
  BY DEF ScheduleWaiting
<1>2. /\ Sound(kv) /\ t \in Nat /\ t \in 1 .. Len(Text[r]) /\ t <= Len(Text[r]) /\ n \in Nat /\ 1 <= n
      /\ Len(Text[r]) \in Nat /\ MaxDraft \in Nat /\ BlockSize \in Nat \ {0} /\ MaxModelLen \in Nat
      /\ t <= MaxModelLen
      /\ kv.num_cached_block[r] = Absent
  <2>1. Sound(kv) /\ Counters
    BY DEF Inv
  <2>2. t \in Nat /\ t \in 1 .. Len(Text[r]) /\ kv.num_cached_block[r] = Absent
    BY <1>1, <2>1 DEF Counters
  <2> QED
    BY <2>1, <2>2, ClientConstants
<1>3. /\ hit \in Seq(Block) /\ IsInjective(hit)
      /\ Len(hit) <= (t - 1) \div BlockSize
      /\ \A i \in 1 .. Len(hit) : /\ i \in FullBlocks(r)
                                  /\ kv.pool.block_hash[hit[i]] = block_hashes(r, i)
  <2> HIDE DEF t, hit
  <2> QED
    BY <1>2, LookupFacts DEF hit
<1> HIDE DEF t, hit
<1>4. Len(hit) \in Nat /\ Len(hit) <= t \div BlockSize
  <2>1. Len(hit) \in Nat
    BY <1>3
  <2>2. PICK a \in Nat : a = t - 1
    BY <1>2
  <2>3. a \div BlockSize <= t \div BlockSize /\ a \div BlockSize \in Nat /\ t \div BlockSize \in Nat
    <3>1. t \in Nat /\ BlockSize \in Nat \ {0} /\ a <= t
      BY <1>2, <2>2
    <3>2. a \div BlockSize \in Nat /\ t \div BlockSize \in Nat
      BY <3>1, DivFacts
    <3>3. a \div BlockSize <= t \div BlockSize
      BY <3>1, DivMonotone
    <3> QED
      BY <3>2, <3>3
  <2>4. Len(hit) <= a \div BlockSize
    BY <1>3, <2>2
  <2> QED
    BY <2>1, <2>3, <2>4
<1>5. Allocatable(kv, r, hit, t, 0, n, 0)
  <2>1. Len(kv.req_to_blocks[r]) = 0 /\ IsInjective(kv.req_to_blocks[r])
    BY <1>1 DEF IsInjective
  <2>2. max(kv.num_cached_block[r], 0) <= Len(kv.req_to_blocks[r])
    BY <1>2, <2>1 DEF max, Absent
  <2>3. \A i \in 1 .. Len(kv.req_to_blocks[r]) : FALSE
    BY <2>1
  <2> QED
    BY <1>1, <1>2, <1>3, <2>1, <2>2, <2>3 DEF Allocatable
<1>6. Scheduled(r, hit, 0, n, 0)
  BY <1>1, <1>3, <1>4, <1>5 DEF Scheduled, t
<1>7. start \in Nat
  BY <1>2, <1>4
<1>8. /\ start + n \in Nat /\ start + n <= Need(0, n, 0, hit) /\ 1 <= Need(0, n, 0, hit)
      /\ start + n <= t + MaxDraft
  <2> HIDE DEF start
  <2>1. start + n <= t
    BY <1>1, <1>2, <1>7
  <2>2. Need(0, n, 0, hit) = min(min(0 + start, MaxModelLen) + n + 0, MaxModelLen)
    BY DEF Need, num_tokens_need_slot, total_computed_tokens, start
  <2>3. min(min(0 + start, MaxModelLen) + n + 0, MaxModelLen) = start + n
    BY <1>2, <1>7, <2>1 DEF min
  <2> QED
    BY <1>2, <1>7, <2>1, <2>2, <2>3
<1> HIDE DEF start
<1>9. K!Next /\ Inv'
  BY <1>1, <1>6, <1>8, ScheduleInv DEF t
<1> QED
  BY <1>6, <1>9 DEF t, hit

\* A running request is scheduled.
LEMMA RunningStep ==
    ASSUME Inv, NEW r \in Request, NEW n \in 1 .. (Len(Text[r]) + MaxDraft), NEW d \in 0 .. MaxDraft,
           ScheduleRunning(r, n, d)
    PROVE  Scheduled(r, <<>>, num_computed_tokens[r], n, Lookahead) /\ K!Next /\ Inv'
<1> DEFINE t == num_tokens[r]
           c == num_computed_tokens[r]
<1>1. /\ c < t
      /\ n <= t + d - c
      /\ c + n < MaxModelLen
      /\ can_allocate_slots(kv, r, c, n, Lookahead, <<>>)
      /\ kv' = allocate_slots(kv, r, t, c, n, Lookahead, <<>>)
      /\ num_computed_tokens' = [num_computed_tokens EXCEPT ![r] = c + n]
      /\ num_tokens' = num_tokens
  BY DEF ScheduleRunning
<1>2. /\ Sound(kv) /\ t \in Nat /\ t <= Len(Text[r]) /\ n \in Nat /\ 1 <= n /\ d \in Nat /\ d <= MaxDraft
      /\ c \in Nat /\ Lookahead \in Nat
      /\ MaxDraft \in Nat /\ BlockSize \in Nat \ {0} /\ MaxModelLen \in Nat
  <2>1. Sound(kv) /\ Counters
    BY DEF Inv
  <2>2. t \in Nat /\ t \in 1 .. Len(Text[r]) /\ c \in Nat
    BY <2>1 DEF Counters
  <2> QED
    BY <2>1, <2>2, ClientConstants
<1> HIDE DEF t, c
<1>3. PICK hit : hit = <<>>
  OBVIOUS
<1>4. hit \in Seq(Block) /\ IsInjective(hit) /\ Len(hit) = 0
  BY <1>3 DEF IsInjective
<1>5. Allocatable(kv, r, hit, t, c, n, Lookahead)
  <2>1. /\ kv.req_to_blocks[r] \in Seq(Block) /\ IsInjective(kv.req_to_blocks[r])
        /\ max(kv.num_cached_block[r], 0) <= Len(kv.req_to_blocks[r])
        /\ \A b \in ToSet(kv.req_to_blocks[r]) : b \notin ToSet(kv.pool.free)
        /\ \A i \in 1 .. Len(kv.req_to_blocks[r]) :
              kv.pool.block_hash[kv.req_to_blocks[r][i]] # NoHash => i <= max(kv.num_cached_block[r], 0)
    BY TableFacts
  <2>2. \A i \in 1 .. Len(kv.req_to_blocks[r]) : kv.req_to_blocks[r][i] \notin ToSet(kv.pool.free)
    BY <2>1, SeqFacts
  <2>3. t <= MaxModelLen
    <3>1. Len(Text[r]) <= MaxModelLen /\ Len(Text[r]) \in Nat
      BY ClientConstants
    <3> QED
      BY <1>2, <3>1
  <2> QED
    BY <1>1, <1>2, <1>3, <1>4, <2>1, <2>2, <2>3 DEF Allocatable
<1>6. Scheduled(r, hit, c, n, Lookahead)
  <2>1. Len(hit) <= t \div BlockSize
    <3>1. t \div BlockSize \in Nat
      BY <1>2, DivFacts
    <3> QED
      BY <1>4, <3>1
  <2>2. \A i \in 1 .. Len(hit) : FALSE
    BY <1>4
  <2> QED
    BY <1>1, <1>3, <1>5, <2>1, <2>2 DEF Scheduled, t
<1>7. /\ c + n \in Nat /\ c + n <= Need(c, n, Lookahead, hit) /\ 1 <= Need(c, n, Lookahead, hit)
      /\ c + n <= t + MaxDraft
  <2>1. Need(c, n, Lookahead, hit)
           = min(min(c + Len(hit) * BlockSize, MaxModelLen) + n + Lookahead, MaxModelLen)
    BY DEF Need, num_tokens_need_slot, total_computed_tokens
  <2>2. Len(hit) * BlockSize = 0
    BY <1>2, <1>4
  <2>3. Need(c, n, Lookahead, hit) = min(min(c, MaxModelLen) + n + Lookahead, MaxModelLen)
    BY <1>2, <2>1, <2>2
  <2>4. c + n <= min(min(c, MaxModelLen) + n + Lookahead, MaxModelLen)
    BY <1>1, <1>2 DEF min
  <2>5. c + n <= t + MaxDraft
    BY <1>1, <1>2
  <2>6. min(min(c, MaxModelLen) + n + Lookahead, MaxModelLen) \in Nat
    BY <1>2 DEF min
  <2> QED
    BY <1>2, <2>3, <2>4, <2>5, <2>6
<1>8. K!Next /\ Inv'
  BY <1>1, <1>6, <1>7, ScheduleInv DEF t
<1> QED
  BY <1>3, <1>6, <1>8 DEF c

\* A request is freed: preempted, or finished and started again.
LEMMA FreeStep ==
    ASSUME Inv, NEW r \in Request, kv' = free_request(kv, r),
           NEW t \in 1 .. Len(Text[r]), num_tokens' = [num_tokens EXCEPT ![r] = t],
           num_computed_tokens' = [num_computed_tokens EXCEPT ![r] = 0]
    PROVE  Freed(kv, kv', r) /\ K!Free(r) /\ K!Next /\ Inv'
<1> DEFINE tr == kv.req_to_blocks[r]
<1>1. /\ Sound(kv) /\ Counters /\ K!IInv
  BY DEF Inv
<1>2. /\ tr \in Seq(Block) /\ IsInjective(tr) /\ ToSet(tr) \subseteq Block
      /\ \A b \in ToSet(tr) : kv.pool.ref_cnt[b] >= 1
  BY TableFacts
<1>3. Freed(kv, kv', r)
  BY <1>1, <1>2, FreeRequestFacts
<1>4. /\ Sound(kv')
      /\ kv'.req_to_blocks = [kv.req_to_blocks EXCEPT ![r] = <<>>]
      /\ kv'.num_cached_block = [kv.num_cached_block EXCEPT ![r] = Absent]
      /\ kv'.pool.block_hash = kv.pool.block_hash
      /\ kv'.pool.ref_cnt = [b \in Block |-> IF b \in ToSet(tr) THEN kv.pool.ref_cnt[b] - 1
                                                           ELSE kv.pool.ref_cnt[b]]
      /\ ToSet(kv'.pool.free) = ToSet(kv.pool.free) \cup {b \in ToSet(tr) : kv.pool.ref_cnt[b] = 1}
  BY <1>3 DEF Freed
<1>5. ToSet(tr) = K!BlocksOf(r)
  BY DEF ToSet, K!BlocksOf, tableBar
<1>6. /\ kv.req_to_blocks \in [Request -> Seq(Block)] /\ kv.num_cached_block \in [Request -> Int]
      /\ num_tokens \in [Request -> Nat] /\ num_computed_tokens \in [Request -> Nat]
  BY <1>1, SoundFields DEF Counters
<1> HIDE DEF tr
<1>7. t \in Nat /\ t <= Len(Text[r]) /\ Len(Text[r]) \in Nat /\ BlockSize \in Nat \ {0} /\ MaxDraft \in Nat
  BY ClientConstants
<1>8. cachedBar' = [cachedBar EXCEPT ![r] = 0]
  <2>1. \A q \in Request : max(kv'.num_cached_block[q], 0) =
                              IF q = r THEN 0 ELSE max(kv.num_cached_block[q], 0)
    <3>1. max(Absent, 0) = 0
      BY DEF Absent, max
    <3> QED
      BY <1>4, <1>6, <3>1
  <2>2. cachedBar' = [q \in Request |-> max(kv'.num_cached_block[q], 0)]
    BY DEF cachedBar
  <2>3. [cachedBar EXCEPT ![r] = 0] =
            [q \in Request |-> IF q = r THEN 0 ELSE max(kv.num_cached_block[q], 0)]
    BY DEF cachedBar
  <2> QED
    BY <2>1, <2>2, <2>3
<1>9. \E m \in 0 .. Len(AllBlockHashes[r]) : fullBar' = [fullBar EXCEPT ![r] = m]
  <2>1. PICK m : m = t \div BlockSize
    OBVIOUS
  <2>2. m \in Nat /\ m <= Len(Text[r]) \div BlockSize /\ Len(Text[r]) \div BlockSize \in Nat
    BY <1>7, <2>1, DivFacts, DivMonotone
  <2>3. \A q \in Request : num_tokens'[q] \div BlockSize =
                              IF q = r THEN m ELSE num_tokens[q] \div BlockSize
    BY <1>6, <2>1
  <2>4. fullBar' = [q \in Request |-> num_tokens'[q] \div BlockSize]
    BY DEF fullBar
  <2>5. [fullBar EXCEPT ![r] = m] =
            [q \in Request |-> IF q = r THEN m ELSE num_tokens[q] \div BlockSize]
    BY DEF fullBar
  <2>6. fullBar' = [fullBar EXCEPT ![r] = m]
    BY <2>3, <2>4, <2>5
  <2>7. m \in 0 .. Len(AllBlockHashes[r])
    <3>1. PICK z : z = Len(Text[r]) \div BlockSize
      OBVIOUS
    <3>2. m \in 0 .. z
      BY <2>2, <3>1
    <3> QED
      BY <3>1, <3>2, AllHashes
  <2> QED
    BY <2>6, <2>7
<1>10. K!Free(r)
  <2>1. tableBar' = [tableBar EXCEPT ![r] = <<>>] /\ hashBar' = hashBar
    BY <1>4 DEF tableBar, hashBar
  <2>2. refBar' = [b \in Block |-> IF b \in K!BlocksOf(r) THEN refBar[b] - 1 ELSE refBar[b]]
    BY <1>4, <1>5 DEF refBar
  <2>3. freeBar' = freeBar \cup {b \in K!BlocksOf(r) : refBar[b] = 1}
    BY <1>4, <1>5 DEF freeBar, refBar
  <2> QED
    BY <1>8, <1>9, <2>1, <2>2, <2>3 DEF K!Free
<1>11. K!Next
  BY <1>10 DEF K!Next
<1>12. K!IInv'
  BY <1>1, <1>11, Assumption, K!NextIInv
<1>13. Counters'
  <2>1. /\ num_tokens' \in [Request -> Nat] /\ num_computed_tokens' \in [Request -> Nat]
        /\ \A q \in Request : num_tokens'[q] \in 1 .. Len(Text[q])
    BY <1>1, <1>6, <1>7 DEF Counters
  <2>2. \A q \in Request : num_computed_tokens'[q] <= num_tokens'[q] + MaxDraft
    BY <1>1, <1>6, <1>7 DEF Counters
  <2>3. /\ \A q \in Request : kv'.num_cached_block[q] >= Absent
        /\ \A q \in Request : kv'.req_to_blocks[q] = <<>> => kv'.num_cached_block[q] = Absent
    BY <1>1, <1>4, <1>6 DEF Counters, Absent
  <2>4. \A q \in Request : num_computed_tokens'[q] <= Len(kv'.req_to_blocks[q]) * BlockSize
    <3>1. 0 <= Len(kv'.req_to_blocks[r]) * BlockSize /\ num_computed_tokens'[r] = 0
      <4>1. kv'.req_to_blocks[r] = <<>>
        BY <1>4, <1>6
      <4>2. Len(kv'.req_to_blocks[r]) = 0
        BY <4>1
      <4> QED
        BY <1>6, <1>7, <4>2
    <3>2. ASSUME NEW q \in Request, q # r
          PROVE  num_computed_tokens'[q] <= Len(kv'.req_to_blocks[q]) * BlockSize
      <4>1. num_computed_tokens'[q] = num_computed_tokens[q] /\ kv'.req_to_blocks[q] = kv.req_to_blocks[q]
        BY <1>4, <1>6, <3>2
      <4> QED
        BY <1>1, <4>1 DEF Counters, ComputedTokensHaveSlots
    <3> QED
      BY <3>1, <3>2
  <2> QED
    BY <2>1, <2>2, <2>3, <2>4 DEF Counters, ComputedTokensHaveSlots
<1> QED
  BY <1>3, <1>4, <1>10, <1>11, <1>12, <1>13 DEF Inv

\* Output arrives: more of the request's tokens are final.
LEMMA OutputStep ==
    ASSUME Inv, NEW r \in Request, NEW accepted \in 0 .. MaxDraft, Output(r, accepted)
    PROVE  K!Next /\ Inv'
<1> DEFINE t == num_tokens[r]
           c == num_computed_tokens[r]
           t2 == t + accepted + 1
           c2 == c - ((c - t) - accepted)
<1>1. /\ accepted <= c - t /\ t2 <= Len(Text[r])
      /\ num_tokens' = [num_tokens EXCEPT ![r] = t2]
      /\ num_computed_tokens' = [num_computed_tokens EXCEPT ![r] = c2]
      /\ kv' = kv
  BY DEF Output
<1>2. Sound(kv) /\ Counters /\ K!IInv
  BY DEF Inv
<1>3. /\ num_tokens \in [Request -> Nat] /\ num_computed_tokens \in [Request -> Nat]
      /\ t \in Nat /\ t \in 1 .. Len(Text[r]) /\ c \in Nat
      /\ accepted \in Nat /\ BlockSize \in Nat \ {0} /\ MaxDraft \in Nat /\ Len(Text[r]) \in Nat
      /\ c <= Len(kv.req_to_blocks[r]) * BlockSize
  BY <1>2, ClientConstants DEF Counters, ComputedTokensHaveSlots
<1> HIDE DEF t, c
<1>4. /\ t2 \in Nat /\ t2 \in 1 .. Len(Text[r]) /\ t <= t2 /\ c2 \in Nat
      /\ c2 <= c /\ c2 <= t2 + MaxDraft
  BY <1>1, <1>3
<1> HIDE DEF t2, c2
<1>5. PICK m : m = t2 \div BlockSize
  OBVIOUS
<1>6. /\ m \in fullBar[r] .. Len(AllBlockHashes[r]) /\ m \in 0 .. Len(AllBlockHashes[r])
  <2>1. fullBar[r] = t \div BlockSize
    BY DEF fullBar, t
  <2>2. /\ t \div BlockSize \in Nat /\ m \in Nat /\ Len(Text[r]) \div BlockSize \in Nat
    BY <1>3, <1>4, <1>5, DivFacts
  <2>3. t \div BlockSize <= m
    BY <1>3, <1>4, <1>5, DivMonotone
  <2>4. m <= Len(Text[r]) \div BlockSize
    <3>1. t2 <= Len(Text[r])
      BY <1>1
    <3> QED
      BY <1>3, <1>4, <1>5, <3>1, DivMonotone
  <2>5. PICK z \in Nat : z = Len(Text[r]) \div BlockSize
    BY <2>2
  <2>6. PICK y \in Nat : y = t \div BlockSize
    BY <2>2
  <2>7. m \in y .. z /\ m \in 0 .. z
    BY <2>2, <2>3, <2>4, <2>5, <2>6
  <2> QED
    BY <2>1, <2>5, <2>6, <2>7, AllHashes
<1>7. fullBar' = [fullBar EXCEPT ![r] = m]
  <2>1. \A q \in Request : num_tokens'[q] \div BlockSize =
                              IF q = r THEN m ELSE num_tokens[q] \div BlockSize
    BY <1>1, <1>3, <1>5
  <2>2. fullBar' = [q \in Request |-> num_tokens'[q] \div BlockSize]
    BY DEF fullBar
  <2>3. [fullBar EXCEPT ![r] = m] =
            [q \in Request |-> IF q = r THEN m ELSE num_tokens[q] \div BlockSize]
    BY DEF fullBar
  <2> QED
    BY <2>1, <2>2, <2>3
<1>8. /\ tableBar' = tableBar /\ cachedBar' = cachedBar /\ hashBar' = hashBar
      /\ refBar' = refBar /\ freeBar' = freeBar
  BY <1>1 DEF tableBar, cachedBar, hashBar, refBar, freeBar
<1>9. K!Grow(r, m)
  BY <1>6, <1>7, <1>8 DEF K!Grow
<1>10. K!Next
  BY <1>6, <1>9 DEF K!Next
<1>11. K!IInv'
  BY <1>2, <1>10, Assumption, K!NextIInv
<1>12. Counters'
  <2>1. /\ num_tokens' \in [Request -> Nat] /\ num_computed_tokens' \in [Request -> Nat]
        /\ \A q \in Request : num_tokens'[q] \in 1 .. Len(Text[q])
    BY <1>1, <1>2, <1>3, <1>4 DEF Counters
  <2>2. \A q \in Request : num_computed_tokens'[q] <= num_tokens'[q] + MaxDraft
    BY <1>1, <1>2, <1>3, <1>4 DEF Counters
  <2>3. \A q \in Request : num_computed_tokens'[q] <= Len(kv.req_to_blocks[q]) * BlockSize
    <3>1. c2 <= Len(kv.req_to_blocks[r]) * BlockSize
      <4>1. Len(kv.req_to_blocks[r]) \in Nat
        BY TableFacts
      <4>2. Len(kv.req_to_blocks[r]) * BlockSize \in Nat
        BY <1>3, <4>1
      <4> QED
        BY <1>3, <1>4, <4>2
    <3>2. \A q \in Request : num_computed_tokens'[q] = IF q = r THEN c2 ELSE num_computed_tokens[q]
      BY <1>1, <1>3
    <3>3. \A q \in Request : num_computed_tokens[q] <= Len(kv.req_to_blocks[q]) * BlockSize
      BY <1>2 DEF Counters, ComputedTokensHaveSlots
    <3> QED
      BY <3>1, <3>2, <3>3
  <2> QED
    BY <1>1, <1>2, <2>1, <2>2, <2>3 DEF Counters, ComputedTokensHaveSlots
<1> QED
  BY <1>1, <1>2, <1>10, <1>11, <1>12 DEF Inv

\* Blocks leave the prefix cache.
LEMMA UnhashStep ==
    ASSUME Inv, NEW S \in SUBSET Block, Sound(kv'),
           kv'.req_to_blocks = kv.req_to_blocks, kv'.num_cached_block = kv.num_cached_block,
           kv'.pool.free = kv.pool.free, kv'.pool.ref_cnt = kv.pool.ref_cnt,
           kv'.pool.block_hash = [b \in Block |-> IF b \in S THEN NoHash ELSE kv.pool.block_hash[b]],
           num_tokens' = num_tokens, num_computed_tokens' = num_computed_tokens
    PROVE  K!Next /\ Inv'
<1>1. K!Evict(S)
  BY DEF K!Evict, tableBar, cachedBar, fullBar, hashBar, refBar, freeBar
<1>2. K!Next
  BY <1>1 DEF K!Next
<1>3. K!IInv'
  BY <1>2, Assumption, K!NextIInv DEF Inv
<1>4. Counters'
  BY DEF Inv, Counters, ComputedTokensHaveSlots
<1> QED
  BY <1>2, <1>3, <1>4 DEF Inv

\* Every step of the code keeps the invariant and is a step of the abstract cache.
LEMMA NextInv == Inv /\ [Next]_vars => Inv' /\ [K!Next]_(K!vars)
<1> SUFFICES ASSUME Inv, [Next]_vars PROVE Inv' /\ [K!Next]_(K!vars)
  OBVIOUS
<1>1. ASSUME NEW r \in Request, NEW n \in 1 .. Len(Text[r]), ScheduleWaiting(r, n)
      PROVE  Inv' /\ K!Next
  BY <1>1, WaitingStep
<1>2. ASSUME NEW r \in Request, NEW n \in 1 .. (Len(Text[r]) + MaxDraft), NEW d \in 0 .. MaxDraft,
             ScheduleRunning(r, n, d)
      PROVE  Inv' /\ K!Next
  BY <1>2, RunningStep
<1>3. ASSUME NEW r \in Request, NEW accepted \in 0 .. MaxDraft, Output(r, accepted)
      PROVE  Inv' /\ K!Next
  BY <1>3, OutputStep
<1>4. ASSUME NEW r \in Request, Preempt(r) PROVE Inv' /\ K!Next
  <2>1. /\ num_tokens \in [Request -> Nat] /\ num_tokens[r] \in 1 .. Len(Text[r])
    BY DEF Inv, Counters
  <2>2. num_tokens' = [num_tokens EXCEPT ![r] = num_tokens[r]]
    BY <1>4, <2>1 DEF Preempt
  <2> QED
    BY <1>4, <2>1, <2>2, FreeStep DEF Preempt
<1>5. ASSUME NEW r \in Request, Finish(r) PROVE Inv' /\ K!Next
  <2>1. PromptLen[r] \in 1 .. Len(Text[r])
    BY ClientConstants
  <2> QED
    BY <1>5, <2>1, FreeStep DEF Finish
<1>6. ASSUME NEW b \in Block, Evict(b) PROVE Inv' /\ K!Next
  <2>1. {b} \in SUBSET Block /\ Sound(kv)
    BY DEF Inv
  <2>2. kv' = [kv EXCEPT !.pool = evict_blocks(@, {b})]
    BY <1>6 DEF Evict
  <2>3. /\ Sound(kv') /\ kv'.req_to_blocks = kv.req_to_blocks
        /\ kv'.num_cached_block = kv.num_cached_block
        /\ kv'.pool.free = kv.pool.free /\ kv'.pool.ref_cnt = kv.pool.ref_cnt
        /\ kv'.pool.block_hash = [a \in Block |-> IF a \in {b} THEN NoHash ELSE kv.pool.block_hash[a]]
    BY <2>1, <2>2, UnhashFacts, ZenonT(60)
  <2>4. PICK S \in SUBSET Block : S = {b}
    BY <2>1
  <2>5. kv'.pool.block_hash = [a \in Block |-> IF a \in S THEN NoHash ELSE kv.pool.block_hash[a]]
    BY <2>3, <2>4
  <2>6. num_tokens' = num_tokens /\ num_computed_tokens' = num_computed_tokens
    BY <1>6 DEF Evict
  <2> QED
    BY <2>3, <2>5, <2>6, UnhashStep
<1>7. ASSUME Reset PROVE Inv' /\ K!Next
  <2>1. Sound(kv) /\ Block \in SUBSET Block
    BY DEF Inv
  <2>2. kv' = [kv EXCEPT !.pool = reset_prefix_cache(@)]
    BY <1>7 DEF Reset
  <2>3. /\ Sound(kv') /\ kv'.req_to_blocks = kv.req_to_blocks
        /\ kv'.num_cached_block = kv.num_cached_block
        /\ kv'.pool.free = kv.pool.free /\ kv'.pool.ref_cnt = kv.pool.ref_cnt
        /\ kv'.pool.block_hash = [a \in Block |-> NoHash]
    BY <2>1, <2>2, UnhashFacts
  <2>4. kv'.pool.block_hash = [a \in Block |-> IF a \in Block THEN NoHash ELSE kv.pool.block_hash[a]]
    BY <2>3
  <2>5. num_tokens' = num_tokens /\ num_computed_tokens' = num_computed_tokens
    BY <1>7 DEF Reset
  <2> QED
    BY <2>1, <2>3, <2>4, <2>5, UnhashStep
<1>8. CASE UNCHANGED vars
  <2>1. kv' = kv /\ num_tokens' = num_tokens /\ num_computed_tokens' = num_computed_tokens
    BY <1>8 DEF vars
  <2>2. UNCHANGED K!vars
    BY <2>1 DEF K!vars, tableBar, cachedBar, fullBar, hashBar, refBar, freeBar
  <2>3. K!IInv'
    BY <2>2, Assumption, K!NextIInv DEF Inv
  <2>4. Counters'
    BY <2>1 DEF Inv, Counters, ComputedTokensHaveSlots
  <2> QED
    BY <2>1, <2>2, <2>3, <2>4 DEF Inv
<1> QED
  BY <1>1, <1>2, <1>3, <1>4, <1>5, <1>6, <1>7, <1>8 DEF Next

-----------------------------------------------------------------------------
\* The inductive invariant holds of every state of the code.
THEOREM InductiveInvariant == Spec => []Inv
<1>1. Init => Inv
  BY InitInv
<1>2. Inv /\ [Next]_vars => Inv'
  BY NextInv
<1> QED
  BY <1>1, <1>2, PTL DEF Spec

\* Both instances of KVCache are the same specification.
LEMMA SameInit == K!Init => Abs!Init
BY DEF K!Init, Abs!Init, tableBar, cachedBar, fullBar, hashBar, refBar, freeBar

\* Both instances of KVCache take the same steps.
LEMMA SameNext == [K!Next]_(K!vars) => [Abs!Next]_(Abs!vars)
<1>1. K!Cardinality(freeBar) = Abs!Cardinality(freeBar)
  BY DEF K!Cardinality, Abs!Cardinality
<1>2. K!vars = Abs!vars /\ (K!vars)' = (Abs!vars)'
  BY DEF K!vars, Abs!vars, tableBar, cachedBar, fullBar, hashBar, refBar, freeBar
<1>3. \A hit, new : K!IsFresh(hit, new) <=> Abs!IsFresh(hit, new)
  BY DEF K!IsFresh, Abs!IsFresh, freeBar
<1>4. \A r, hit : K!IsHit(r, hit) <=> Abs!IsHit(r, hit)
  BY DEF K!IsHit, Abs!IsHit, tableBar, fullBar, hashBar
<1>5. \A r : K!BlocksOf(r) = Abs!BlocksOf(r)
  BY DEF K!BlocksOf, Abs!BlocksOf, tableBar
<1>6. \A r : K!Free(r) => Abs!Free(r)
  BY <1>5 DEF K!Free, Abs!Free, tableBar, cachedBar, fullBar, hashBar, refBar, freeBar
<1>7. \A r, n : K!Grow(r, n) => Abs!Grow(r, n)
  BY DEF K!Grow, Abs!Grow, tableBar, cachedBar, fullBar, hashBar, refBar, freeBar
<1>8. \A S : K!Evict(S) => Abs!Evict(S)
  BY DEF K!Evict, Abs!Evict, tableBar, cachedBar, fullBar, hashBar, refBar, freeBar
<1>9. ASSUME NEW r, NEW hit, NEW new, NEW k, K!Allocate(r, hit, new, k)
      PROVE  Abs!Allocate(r, hit, new, k)
  <2> DEFINE blocks == tableBar[r] \o hit \o new
             kept   == cachedBar[r] + Len(hit)
             gained == {hit[i] : i \in DOMAIN hit} \cup {new[i] : i \in DOMAIN new}
             hashes == [b \in Block |->
                           IF \E i \in (kept + 1) .. k : blocks[i] = b
                           THEN AllBlockHashes[r][CHOOSE i \in (kept + 1) .. k : blocks[i] = b]
                           ELSE IF \E i \in DOMAIN new : new[i] = b THEN NoHash ELSE hashBar[b]]
  <2>1. /\ K!IsHit(r, hit) /\ K!IsFresh(hit, new)
        /\ k \in kept .. fullBar[r] /\ k <= Len(blocks)
        /\ tableBar' = [tableBar EXCEPT ![r] = blocks]
        /\ cachedBar' = [cachedBar EXCEPT ![r] = k]
        /\ refBar' = [b \in Block |-> IF b \in gained THEN refBar[b] + 1 ELSE refBar[b]]
        /\ freeBar' = freeBar \ gained
        /\ fullBar' = fullBar
    BY <1>9 DEF K!Allocate
  <2>2. hashBar' = hashes
    BY <1>9 DEF K!Allocate
  <2>3. Abs!IsHit(r, hit) /\ Abs!IsFresh(hit, new)
    BY <1>3, <1>4, <2>1
  <2> QED
    BY <2>1, <2>2, <2>3
    DEF Abs!Allocate, tableBar, cachedBar, fullBar, hashBar, refBar, freeBar
<1>10. K!Next => Abs!Next
  <2> SUFFICES ASSUME K!Next PROVE Abs!Next
    OBVIOUS
  <2>1. CASE \E S \in SUBSET Block : K!Evict(S)
    BY <1>8, <2>1 DEF Abs!Next
  <2>2. ASSUME NEW r \in Request, K!Free(r) PROVE Abs!Next
    BY <1>6, <2>2 DEF Abs!Next
  <2>3. ASSUME NEW r \in Request, NEW n \in 0 .. Len(AllBlockHashes[r]), K!Grow(r, n) PROVE Abs!Next
    BY <1>7, <2>3 DEF Abs!Next
  <2>4. ASSUME NEW r \in Request, NEW m \in 0 .. fullBar[r], NEW hit \in [1 .. m -> Block],
               K!IsHit(r, hit), NEW n \in 0 .. K!Cardinality(freeBar), NEW new \in [1 .. n -> freeBar],
               K!IsFresh(hit, new), NEW k \in 0 .. fullBar[r], K!Allocate(r, hit, new, k)
        PROVE  Abs!Next
    <3>1. Abs!IsHit(r, hit) /\ Abs!IsFresh(hit, new) /\ Abs!Allocate(r, hit, new, k)
      BY <1>3, <1>4, <1>9, <2>4
    <3>2. n \in 0 .. Abs!Cardinality(freeBar)
      BY <1>1
    <3> QED
      BY <3>1, <3>2 DEF Abs!Next, fullBar, freeBar
  <2> QED
    BY <2>1, <2>2, <2>3, <2>4 DEF K!Next
<1> QED
  BY <1>2, <1>10

\* The free queue, the hash map and the token counts of the code implement the abstract
\* cache: KVCacheManager hands out, shares, counts and returns blocks as KVCache says.
THEOREM CodeImplementsCache == Spec => ImplementsKVCache
<1>1. Init => K!Init
  BY InitInv
<1>2. Inv /\ [Next]_vars => [K!Next]_(K!vars)
  BY NextInv
<1> QED
  BY <1>1, <1>2, SameInit, SameNext, InductiveInvariant, PTL DEF Spec, ImplementsKVCache, Abs!Spec

-----------------------------------------------------------------------------
\* No table is longer than the pool.
LEMMA TableFits ==
    ASSUME Inv, NEW r \in Request
    PROVE  Len(kv.req_to_blocks[r]) \in 0 .. (NumGpuBlocks - 1)
<1> DEFINE t == kv.req_to_blocks[r]
<1>1. t \in Seq(Block) /\ IsInjective(t) /\ ToSet(t) \subseteq Block
  BY TableFacts
<1> HIDE DEF t
<1>2. Cardinality(ToSet(t)) = Len(t) /\ Len(t) \in Nat
  BY <1>1, InjectiveLen
<1>3. /\ NumGpuBlocks - 1 \in Nat /\ IsFiniteSet(Block) /\ Cardinality(Block) = NumGpuBlocks - 1
  <2>1. NumGpuBlocks - 1 \in Nat /\ 1 \in Int /\ NumGpuBlocks - 1 \in Int
    BY ClientConstants
  <2>2. IsFiniteSet(Block) /\ Cardinality(Block)
                                = IF 1 > NumGpuBlocks - 1 THEN 0 ELSE (NumGpuBlocks - 1) - 1 + 1
    BY <2>1, FS_Interval DEF Block
  <2> QED
    BY <2>1, <2>2
<1>4. ToSet(t) \in SUBSET Block
  BY <1>1
<1>5. Cardinality(ToSet(t)) <= Cardinality(Block)
  BY <1>3, <1>4, FS_Subset
<1>6. Len(t) \in 0 .. (NumGpuBlocks - 1)
  BY <1>2, <1>3, <1>5
<1> QED
  BY <1>6 DEF t

\* The references of a block, counted by slots and counted by requests.
LEMMA SlotsAreHolders ==
    ASSUME Inv, NEW b \in Block
    PROVE  Cardinality({s \in Slot : BlockAt(s) = b})
              = Cardinality({r \in Request : b \in K!BlocksOf(r)})
<1> DEFINE S == {s \in Slot : BlockAt(s) = b}
           T == {r \in Request : b \in K!BlocksOf(r)}
           f == [s \in S |-> s[1]]
<1>1. IsFiniteSet(T)
  <2>1. T \in SUBSET Request
    OBVIOUS
  <2> QED
    BY <2>1, ClientConstants, FS_Subset
<1>2. ASSUME NEW r \in Request, NEW i, i \in Block, i <= Len(kv.req_to_blocks[r]),
             kv.req_to_blocks[r][i] = b
      PROVE  r \in T
  <2>1. Len(kv.req_to_blocks[r]) \in Nat /\ DOMAIN kv.req_to_blocks[r] = 1 .. Len(kv.req_to_blocks[r])
    <3>1. kv.req_to_blocks[r] \in Seq(Block)
      BY TableFacts
    <3> QED
      BY <3>1
  <2>2. i \in DOMAIN kv.req_to_blocks[r]
    BY <1>2, <2>1, ClientConstants DEF Block
  <2> QED
    BY <1>2, <2>2 DEF K!BlocksOf, tableBar
<1>3. \A s \in S : /\ s \in Request \X Block /\ s[1] \in Request /\ s[2] \in Block
                   /\ s = <<s[1], s[2]>>
                   /\ s[2] <= Len(kv.req_to_blocks[s[1]]) /\ kv.req_to_blocks[s[1]][s[2]] = b
  BY DEF Slot, BlockAt
<1>4. f \in [S -> T]
  <2>1. \A s \in S : s[1] \in T
    <3> HIDE DEF S, T
    <3> QED
      BY <1>2, <1>3
  <2> HIDE DEF S, T
  <2> QED
    BY <2>1
<1>5. ASSUME NEW s \in S, NEW u \in S, f[s] = f[u] PROVE s = u
  <2>0. s[1] = u[1]
    <3> HIDE DEF S
    <3> QED
      BY <1>5
  <2>1. PICK r \in Request : r = s[1] /\ r = u[1]
    BY <1>3, <2>0
  <2>2. /\ s[2] \in Block /\ s[2] <= Len(kv.req_to_blocks[r]) /\ kv.req_to_blocks[r][s[2]] = b
        /\ u[2] \in Block /\ u[2] <= Len(kv.req_to_blocks[r]) /\ kv.req_to_blocks[r][u[2]] = b
    BY <1>3, <2>1
  <2>3. /\ kv.req_to_blocks[r] \in Seq(Block) /\ IsInjective(kv.req_to_blocks[r])
    BY TableFacts
  <2>4. /\ s[2] \in 1 .. Len(kv.req_to_blocks[r]) /\ u[2] \in 1 .. Len(kv.req_to_blocks[r])
    BY <2>2, <2>3, ClientConstants DEF Block
  <2>5. s[2] = u[2]
    BY <2>2, <2>3, <2>4, SeqFacts
  <2> QED
    BY <1>3, <2>0, <2>5
<1>6. ASSUME NEW r \in T PROVE \E s \in S : f[s] = r
  <2>1. PICK i \in DOMAIN kv.req_to_blocks[r] : kv.req_to_blocks[r][i] = b
    BY DEF K!BlocksOf, tableBar
  <2>2. kv.req_to_blocks[r] \in Seq(Block) /\ Len(kv.req_to_blocks[r]) \in 0 .. (NumGpuBlocks - 1)
    BY TableFacts, TableFits
  <2>3. i \in 1 .. Len(kv.req_to_blocks[r]) /\ i \in Block /\ i <= Len(kv.req_to_blocks[r])
    BY <2>1, <2>2, ClientConstants DEF Block
  <2>4. PICK s : s = <<r, i>>
    OBVIOUS
  <2>5. s \in S /\ s[1] = r
    BY <2>1, <2>3, <2>4 DEF Slot, BlockAt
  <2> HIDE DEF S
  <2> QED
    BY <2>5
<1> HIDE DEF S, T, f
<1>7. f \in Injection(S, T) /\ f \in Surjection(S, T)
  <2>1. DOMAIN f = S
    BY <1>4
  <2> QED
    BY <1>4, <1>5, <1>6, <2>1 DEF Injection, Surjection, IsInjective
<1>8. IsFiniteSet(S) /\ Cardinality(S) <= Cardinality(T)
  BY <1>1, <1>7, FS_Injection
<1>9. Cardinality(T) <= Cardinality(S)
  BY <1>7, <1>8, FS_Surjection
<1>10. Cardinality(S) = Cardinality(T)
  BY <1>1, <1>8, <1>9, FS_CardinalityType
<1> QED
  BY <1>10 DEF S, T

\* What the invariant says in the terms of the code.
LEMMA InvImplies == Inv => Accounting /\ HashesExact /\ TokensFit
<1> SUFFICES ASSUME Inv PROVE Accounting /\ HashesExact /\ TokensFit
  OBVIOUS
<1>1. Sound(kv) /\ Counters /\ K!IInv /\ K!RefExact
  BY DEF Inv, K!IInv
<1>2. ASSUME NEW b \in Block
      PROVE  /\ kv.pool.ref_cnt[b] = Cardinality({s \in Slot : BlockAt(s) = b})
             /\ kv.pool.ref_cnt[b] \in 0 .. Cardinality(Request)
  <2> DEFINE T == {r \in Request : b \in K!BlocksOf(r)}
  <2>1. kv.pool.ref_cnt[b] = Cardinality(T)
    <3>1. kv.pool.ref_cnt[b] = K!Cardinality(T)
      BY <1>1 DEF K!RefExact, refBar
    <3> QED
      BY <3>1, SameCardinality
  <2>2. T \in SUBSET Request
    OBVIOUS
  <2>3. /\ IsFiniteSet(T) /\ Cardinality(T) <= Cardinality(Request)
        /\ Cardinality(T) \in Nat /\ Cardinality(Request) \in Nat
    <3> HIDE DEF T
    <3>1. IsFiniteSet(T) /\ Cardinality(T) <= Cardinality(Request)
      BY <2>2, ClientConstants, FS_Subset
    <3> QED
      BY <3>1, ClientConstants, FS_CardinalityType
  <2>4. Cardinality({s \in Slot : BlockAt(s) = b}) = Cardinality(T)
    BY SlotsAreHolders
  <2> HIDE DEF T
  <2> QED
    BY <2>1, <2>3, <2>4
<1>3. RefCntExact
  BY <1>2 DEF RefCntExact
<1>4. FreeQueueExact
  <2>1. IsInjective(kv.pool.free) /\ ToSet(kv.pool.free) \subseteq Block
        /\ \A b \in Block : b \in ToSet(kv.pool.free) <=> kv.pool.ref_cnt[b] = 0
    BY <1>1, SoundFields
  <2> QED
    BY <2>1 DEF FreeQueueExact
<1>5. TypeOK
  <2>1. /\ kv.pool.free \in Seq(Block) /\ kv.pool.ref_cnt \in [Block -> Int]
        /\ kv.pool.block_hash \in [Block -> Hash \cup {NoHash}]
        /\ kv.pool.cache \in [Hash -> Seq(Block)]
        /\ kv.req_to_blocks \in [Request -> Seq(Block)]
        /\ kv.num_cached_block \in [Request -> Int]
    BY <1>1, SoundFields
  <2>2. kv.pool.ref_cnt \in [Block -> 0 .. Cardinality(Request)]
    BY <1>2, <2>1
  <2>3. kv.num_cached_block \in [Request -> Absent .. (NumGpuBlocks - 1)]
    <3>1. ASSUME NEW r \in Request PROVE kv.num_cached_block[r] \in Absent .. (NumGpuBlocks - 1)
      <4>1. kv.num_cached_block[r] \in Int /\ kv.num_cached_block[r] >= Absent
        BY <1>1, <2>1 DEF Counters
      <4>2. max(kv.num_cached_block[r], 0) <= Len(kv.req_to_blocks[r])
        BY TableFacts
      <4>3. Len(kv.req_to_blocks[r]) \in 0 .. (NumGpuBlocks - 1)
        BY TableFits
      <4>4. NumGpuBlocks - 1 \in Nat
        BY ClientConstants
      <4> QED
        BY <4>1, <4>2, <4>3, <4>4 DEF max, Absent
    <3> QED
      BY <2>1, <3>1
  <2>4. \A r \in Request : /\ num_tokens[r] \in 1 .. Len(Text[r])
                           /\ num_computed_tokens[r] \in 0 .. (num_tokens[r] + MaxDraft)
    BY <1>1, ClientConstants DEF Counters
  <2> QED
    BY <2>1, <2>2, <2>3, <2>4 DEF TypeOK
<1>6. HashMapCoherent
  BY <1>1 DEF HashMapCoherent, Sound, Coherent
<1>7. HashOnlyWhenCached
  <2> SUFFICES ASSUME NEW s \in Slot, kv.pool.block_hash[BlockAt(s)] # NoHash
               PROVE  /\ s[2] <= kv.num_cached_block[s[1]]
                      /\ kv.pool.block_hash[BlockAt(s)] = block_hashes(s[1], s[2])
    BY DEF HashOnlyWhenCached
  <2>1. PICK r \in Request : r = s[1]
    BY DEF Slot
  <2>2. PICK i \in Block : i = s[2]
    BY DEF Slot
  <2>3. i <= Len(kv.req_to_blocks[r]) /\ BlockAt(s) = kv.req_to_blocks[r][i]
    BY <2>1, <2>2 DEF Slot, BlockAt
  <2>4. /\ kv.req_to_blocks[r] \in Seq(Block)
        /\ cachedBar[r] = max(kv.num_cached_block[r], 0)
        /\ \A j \in 1 .. Len(kv.req_to_blocks[r]) : kv.pool.block_hash[kv.req_to_blocks[r][j]] # NoHash =>
                     /\ j <= cachedBar[r]
                     /\ kv.pool.block_hash[kv.req_to_blocks[r][j]] = block_hashes(r, j)
    BY TableFacts
  <2>5. i \in 1 .. Len(kv.req_to_blocks[r]) /\ i \in Nat /\ 1 <= i
    BY <2>3, <2>4, ClientConstants DEF Block
  <2>6. i <= max(kv.num_cached_block[r], 0) /\ kv.pool.block_hash[BlockAt(s)] = block_hashes(r, i)
    BY <2>3, <2>4, <2>5
  <2>7. kv.num_cached_block[r] \in Int
    BY <1>1, SoundFields
  <2>8. i <= kv.num_cached_block[r]
    BY <2>5, <2>6, <2>7 DEF max
  <2> QED
    BY <2>1, <2>2, <2>6, <2>8
<1>8. OnlyVerifiedCached
  <2> SUFFICES ASSUME NEW r \in Request PROVE kv.num_cached_block[r] * BlockSize <= num_tokens[r]
    BY DEF OnlyVerifiedCached
  <2>1. /\ cachedBar[r] = max(kv.num_cached_block[r], 0) /\ cachedBar[r] \in Nat
        /\ cachedBar[r] <= num_tokens[r] \div BlockSize
    BY TableFacts
  <2>2. /\ num_tokens[r] \in Nat /\ BlockSize \in Nat \ {0} /\ kv.num_cached_block[r] \in Int
    BY <1>1, ClientConstants, SoundFields DEF Counters
  <2>3. cachedBar[r] * BlockSize <= num_tokens[r]
    BY <2>1, <2>2, DivLeast
  <2>4. CASE kv.num_cached_block[r] >= 0
    <3>1. cachedBar[r] = kv.num_cached_block[r]
      BY <2>1, <2>4 DEF max
    <3> QED
      BY <2>3, <3>1
  <2>5. CASE ~(kv.num_cached_block[r] >= 0)
    <3>1. PICK y \in Int : y = kv.num_cached_block[r]
      BY <2>2
    <3>2. y * BlockSize <= 0
      <4>1. PICK e \in Nat : y = 0 - e
        <5>1. 0 - y \in Nat /\ y = 0 - (0 - y)
          BY <2>5, <3>1
        <5> QED
          BY <5>1
      <4>2. y * BlockSize = 0 - e * BlockSize /\ e * BlockSize \in Nat
        BY <2>2, <4>1
      <4> QED
        BY <4>2
    <3>3. y * BlockSize \in Int
      BY <2>2
    <3> QED
      BY <2>2, <3>1, <3>2, <3>3
  <2> QED
    BY <2>4, <2>5
<1>9. ComputedTokensHaveSlots
  BY <1>1 DEF Counters
<1> QED
  BY <1>3, <1>4, <1>5, <1>6, <1>7, <1>8, <1>9 DEF Accounting, HashesExact, TokensFit

\* Block tables, reference counts and free queue always agree: a reference is never lost or
\* invented, and exactly the unreferenced blocks can be handed out.
THEOREM BlocksAreAccountedFor == Spec => []Accounting
BY InductiveInvariant, InvImplies, PTL

\* The hash map lists every cached block once, under the hash of its place in every table
\* that holds it; cache_full_blocks() never meets a block that has a hash.
THEOREM HashesAreExact == Spec => []HashesExact
BY InductiveInvariant, InvImplies, PTL

\* allocate_slots() has a slot for every computed token and caches final tokens only.
THEOREM RoundingsFit == Spec => []TokensFit
BY InductiveInvariant, InvImplies, PTL

-----------------------------------------------------------------------------
\* While no worker reports invalid blocks, the cached blocks of a table keep their hashes.
HashesKept ==
    \A r \in Request : \A i \in 1 .. cachedBar[r] :
        kv.pool.block_hash[kv.req_to_blocks[r][i]] = block_hashes(r, i)

\* Every block of the prefix of a free cached block c is cached, too: in a block that is in
\* use, or in c itself, or in one that stands behind c in the eviction order.
PrefixOutlives ==
    \A c \in Block, r \in Request : \A i \in FullBlocks(r) :
        kv.pool.ref_cnt[c] = 0 /\ kv.pool.block_hash[c] = block_hashes(r, i) =>
            \A n \in 1 .. i : \E b \in Block :
                /\ kv.pool.block_hash[b] = block_hashes(r, n)
                /\ kv.pool.ref_cnt[b] > 0 \/ b = c \/ Before(kv.pool.free, c, b)

\* The inductive invariant when AllowEvict is FALSE.
OrderInv == Inv /\ HashesKept /\ PrefixOutlives

\* The indices of the cached blocks of a table.
LEMMA CachedPlaces ==
    ASSUME Inv, NEW r \in Request, NEW i \in 1 .. cachedBar[r]
    PROVE  /\ i \in FullBlocks(r) /\ i \in 1 .. Len(kv.req_to_blocks[r])
           /\ kv.req_to_blocks[r][i] \in Block /\ kv.pool.ref_cnt[kv.req_to_blocks[r][i]] >= 1
           /\ kv.req_to_blocks[r][i] \in ToSet(kv.req_to_blocks[r])
<1> DEFINE t == kv.req_to_blocks[r]
<1>1. /\ t \in Seq(Block) /\ Len(t) \in Nat
      /\ cachedBar[r] \in Nat /\ cachedBar[r] <= Len(t) /\ cachedBar[r] <= fullBar[r] /\ fullBar[r] \in Nat
      /\ fullBar[r] <= Len(Text[r]) \div BlockSize
      /\ \A b \in ToSet(t) : kv.pool.ref_cnt[b] >= 1
  BY TableFacts
<1>2. PICK z \in Nat : z = Len(Text[r]) \div BlockSize
  BY ClientConstants, DivFacts
<1>3. i \in 1 .. z
  <2>1. fullBar[r] <= z
    BY <1>1, <1>2
  <2> QED
    BY <1>1, <1>2, <2>1
<1>4. i \in FullBlocks(r)
  BY <1>2, <1>3 DEF FullBlocks
<1>5. i \in 1 .. Len(t)
  BY <1>1
<1>6. t[i] \in Block /\ t[i] \in ToSet(t)
  BY <1>1, <1>5, SeqFacts
<1> QED
  BY <1>1, <1>4, <1>5, <1>6

\* A prefix of a hash is a hash.
LEMMA PrefixHash ==
    ASSUME NEW r \in Request, NEW i \in FullBlocks(r), NEW n \in 1 .. i
    PROVE  SubSeq(block_hashes(r, i), 1, n * BlockSize) = block_hashes(r, n)
<1>1. /\ n \in FullBlocks(r) /\ n \in Nat /\ i \in Nat
  BY HashUnique, HashFacts
<1>2. /\ block_hashes(r, i) \in Seq(Nat) /\ Len(block_hashes(r, i)) = i * BlockSize
      /\ \A j \in 1 .. (i * BlockSize) : block_hashes(r, i)[j] = Text[r][j]
      /\ block_hashes(r, n) \in Seq(Nat) /\ Len(block_hashes(r, n)) = n * BlockSize
      /\ \A j \in 1 .. (n * BlockSize) : block_hashes(r, n)[j] = Text[r][j]
      /\ i * BlockSize \in Nat /\ n * BlockSize \in Nat
  BY <1>1, HashFacts
<1>3. n * BlockSize <= i * BlockSize
  <2>1. PICK e \in Nat : i = n + e
    <3>1. i - n \in Nat /\ i = n + (i - n)
      BY <1>1
    <3> QED
      BY <3>1
  <2>2. i * BlockSize = n * BlockSize + e * BlockSize /\ e * BlockSize \in Nat
    BY <1>1, <2>1, ClientConstants
  <2> QED
    BY <1>2, <2>2
<1>4. PICK a \in Nat : a = i * BlockSize
  BY <1>2
<1>5. PICK b \in Nat : b = n * BlockSize
  BY <1>2
<1>6. PICK s \in Seq(Nat) : s = block_hashes(r, i) /\ Len(s) = a
  BY <1>2, <1>4
<1>7. b <= Len(s)
  BY <1>3, <1>4, <1>5, <1>6
<1>8. /\ SubSeq(s, 1, b) \in Seq(Nat) /\ Len(SubSeq(s, 1, b)) = b
      /\ \A j \in 1 .. b : SubSeq(s, 1, b)[j] = s[j]
  BY <1>7
<1>9. \A j \in 1 .. b : j \in 1 .. a
  BY <1>6, <1>7
<1>10. /\ block_hashes(r, n) \in Seq(Nat) /\ Len(block_hashes(r, n)) = b
       /\ \A j \in 1 .. b : block_hashes(r, n)[j] = s[j]
  BY <1>2, <1>4, <1>5, <1>6, <1>9
<1>11. SubSeq(s, 1, b) = block_hashes(r, n)
  BY <1>8, <1>10, SeqEqual
<1> QED
  BY <1>5, <1>6, <1>11

\* A block in use is the same place of the prefix in the table of every request that holds
\* it, and its whole prefix is in use.
LEMMA HeldPrefix ==
    ASSUME Inv, HashesKept, NEW c \in Block, NEW q \in Request, NEW j \in 1 .. Len(kv.req_to_blocks[q]),
           kv.req_to_blocks[q][j] = c,
           NEW r \in Request, NEW i \in FullBlocks(r), kv.pool.block_hash[c] = block_hashes(r, i)
    PROVE  /\ j = i
           /\ \A n \in 1 .. i : /\ n \in 1 .. cachedBar[q]
                                /\ kv.pool.block_hash[kv.req_to_blocks[q][n]] = block_hashes(r, n)
<1>1. block_hashes(r, i) \in Hash /\ i \in Nat
  BY HashFacts
<1>2. kv.pool.block_hash[c] # NoHash
  BY <1>1, NoHashIsNone
<1>3. j <= cachedBar[q] /\ j \in FullBlocks(q) /\ kv.pool.block_hash[c] = block_hashes(q, j)
  BY <1>2, TableFacts
<1>4. block_hashes(q, j) = block_hashes(r, i)
  BY <1>3
<1>5. j = i /\ \A n \in 1 .. j : block_hashes(q, n) = block_hashes(r, n)
  <2>1. /\ q \in Request /\ r \in Request /\ j \in FullBlocks(q) /\ i \in FullBlocks(r)
        /\ block_hashes(q, j) = block_hashes(r, i)
    BY <1>3, <1>4
  <2> QED
    BY ONLY <2>1, HashUnique
<1>6. cachedBar[q] \in Nat
  BY TableFacts
<1>7. \A n \in 1 .. i : n \in 1 .. cachedBar[q]
  BY <1>1, <1>3, <1>5, <1>6
<1> QED
  BY <1>5, <1>7 DEF HashesKept

\* A referenced block is in some table.
LEMMA HeldSomewhere ==
    ASSUME Inv, NEW c \in Block, kv.pool.ref_cnt[c] > 0
    PROVE  \E q \in Request : \E j \in 1 .. Len(kv.req_to_blocks[q]) : kv.req_to_blocks[q][j] = c
<1>1. Sound(kv) /\ K!FreeExact
  BY DEF Inv, K!IInv
<1>2. c \notin ToSet(kv.pool.free)
  <2>1. kv.pool.ref_cnt[c] \in Int /\ (c \in ToSet(kv.pool.free) <=> kv.pool.ref_cnt[c] = 0)
    BY <1>1, SoundFields
  <2> QED
    BY <2>1
<1>3. PICK q \in Request : c \in K!BlocksOf(q)
  BY <1>1, <1>2 DEF K!FreeExact, freeBar
<1>4. PICK j \in DOMAIN kv.req_to_blocks[q] : kv.req_to_blocks[q][j] = c
  BY <1>3 DEF K!BlocksOf, tableBar
<1>5. kv.req_to_blocks[q] \in Seq(Block)
  BY TableFacts
<1>6. j \in 1 .. Len(kv.req_to_blocks[q])
  BY <1>4, <1>5
<1> QED
  BY <1>4, <1>6

\* The invariant in the terms of find_longest_cache_hit().
LEMMA OrderImplies == OrderInv => CacheIsPrefixClosed
<1> SUFFICES ASSUME OrderInv, NEW h \in Hash, IsCached(kv.pool, h),
                    NEW n \in 1 .. (Len(h) \div BlockSize)
             PROVE  IsCached(kv.pool, SubSeq(h, 1, n * BlockSize))
  BY DEF CacheIsPrefixClosed
<1>1. Inv /\ Sound(kv) /\ HashesKept /\ PrefixOutlives
  BY DEF OrderInv, Inv
<1>2. /\ kv.pool.cache \in [Hash -> Seq(Block)] /\ Coherent(kv.pool, Hash)
      /\ kv.pool.ref_cnt \in [Block -> Int] /\ \A b \in Block : kv.pool.ref_cnt[b] >= 0
  BY <1>1, SoundFields
<1>3. PICK r \in Request : \E i \in FullBlocks(r) : h = block_hashes(r, i)
  BY HashSplit
<1>4. PICK i \in FullBlocks(r) : h = block_hashes(r, i)
  BY <1>3
<1>5. n \in 1 .. i
  <2>1. Len(h) = i * BlockSize /\ i \in Nat
    BY <1>4, HashFacts
  <2>2. (i * BlockSize) \div BlockSize = i
    <3>1. PICK a : a = i * BlockSize
      OBVIOUS
    <3>2. a \in Nat /\ BlockSize \in Nat \ {0}
      BY <2>1, <3>1, ClientConstants
    <3>3. PICK q : q = a \div BlockSize
      OBVIOUS
    <3>4. q \in Nat /\ q * BlockSize <= a
      BY <3>2, <3>3, DivFacts
    <3>5. i <= q
      <4>1. i * BlockSize <= a
        BY <3>1, <3>2
      <4> QED
        BY <2>1, <3>2, <3>3, <4>1, DivLeast
    <3>6. q <= i
      <4> SUFFICES ASSUME ~(q <= i) PROVE FALSE
        OBVIOUS
      <4>1. PICK e \in Nat : q = i + 1 + e
        <5>1. q - i - 1 \in Nat /\ q = i + 1 + (q - i - 1)
          BY <2>1, <3>4
        <5> QED
          BY <5>1
      <4>2. /\ q * BlockSize = i * BlockSize + BlockSize + e * BlockSize
            /\ e * BlockSize \in Nat
        BY <2>1, <3>2, <4>1
      <4> QED
        BY <3>1, <3>2, <3>4, <4>2
    <3>7. q = i
      BY <2>1, <3>4, <3>5, <3>6
    <3> QED
      BY <3>1, <3>3, <3>7
  <2> QED
    BY <2>1, <2>2
<1>6. PICK g : g = block_hashes(r, n)
  OBVIOUS
<1>7. g \in Hash /\ SubSeq(h, 1, n * BlockSize) = g
  <2>1. n \in FullBlocks(r)
    BY <1>5, HashUnique
  <2> QED
    BY <1>4, <1>5, <1>6, <2>1, HashFacts, PrefixHash
<1>8. PICK c \in Block : kv.pool.block_hash[c] = h
  <2>1. kv.pool.cache[h] \in Seq(Block) /\ kv.pool.cache[h] # <<>>
        /\ ToSet(kv.pool.cache[h]) = {b \in Block : kv.pool.block_hash[b] = h}
    BY <1>2 DEF Coherent, IsCached
  <2>2. Len(kv.pool.cache[h]) \in Nat \ {0}
    BY <2>1
  <2>3. 1 \in 1 .. Len(kv.pool.cache[h])
    BY <2>2
  <2>4. kv.pool.cache[h][1] \in ToSet(kv.pool.cache[h])
    BY <2>1, <2>3, SeqFacts
  <2> QED
    BY <2>1, <2>4
<1>9. \E b \in Block : kv.pool.block_hash[b] = g
  <2>1. CASE kv.pool.ref_cnt[c] = 0
    BY <1>1, <1>4, <1>5, <1>6, <1>8, <2>1 DEF PrefixOutlives
  <2>2. CASE kv.pool.ref_cnt[c] # 0
    <3>1. kv.pool.ref_cnt[c] \in Int /\ kv.pool.ref_cnt[c] >= 0
      BY <1>2
    <3>2. kv.pool.ref_cnt[c] > 0
      BY <2>2, <3>1
    <3>3. PICK q \in Request : \E j \in 1 .. Len(kv.req_to_blocks[q]) : kv.req_to_blocks[q][j] = c
      BY <1>1, <3>2, HeldSomewhere
    <3>4. PICK j \in 1 .. Len(kv.req_to_blocks[q]) : kv.req_to_blocks[q][j] = c
      BY <3>3
    <3>5. n \in 1 .. cachedBar[q] /\ kv.pool.block_hash[kv.req_to_blocks[q][n]] = block_hashes(r, n)
      BY <1>1, <1>4, <1>5, <1>8, <3>4, HeldPrefix
    <3>6. kv.req_to_blocks[q][n] \in Block
      BY <1>1, <3>5, CachedPlaces
    <3> QED
      BY <1>6, <3>5, <3>6
  <2> QED
    BY <2>1, <2>2
<1>10. IsCached(kv.pool, g)
  <2>1. PICK b \in Block : kv.pool.block_hash[b] = g
    BY <1>9
  <2>2. kv.pool.cache[g] \in Seq(Block) /\ b \in ToSet(kv.pool.cache[g])
    BY <1>2, <1>7, <2>1 DEF Coherent
  <2>3. kv.pool.cache[g] # <<>>
    BY <2>2 DEF ToSet
  <2> QED
    BY <2>3 DEF IsCached
<1> QED
  BY <1>7, <1>10

\* How allocate_slots() changes the hashes of k to those of m when the table of r becomes
\* blocks, whose first kept blocks were cached already: the new blocks lose theirs, blocks
\* without a hash may gain one, and no other block is touched.
Rehashed(k, m, r, hit, new, f, blocks, kept) ==
    /\ \A b \in Block : k.pool.block_hash[b] # NoHash /\ b \notin ToSet(new) =>
          m.pool.block_hash[b] = k.pool.block_hash[b]
    /\ \A b \in Block : b \notin ToSet(blocks) =>
          m.pool.block_hash[b] = k.pool.block_hash[b]
    /\ \A i \in (kept + 1) .. f : m.pool.block_hash[blocks[i]] = block_hashes(r, i)
    /\ kept \in Nat /\ blocks \in Seq(Block) /\ Len(blocks) \in Nat /\ f <= Len(blocks)
    /\ ToSet(blocks) = ToSet(k.req_to_blocks[r]) \cup ToSet(hit) \cup ToSet(new)
    /\ \A i \in 1 .. Len(k.req_to_blocks[r]) : blocks[i] = k.req_to_blocks[r][i]
    /\ \A i \in 1 .. Len(hit) : blocks[i] = hit[i]

\* allocate_slots() changes the hashes that way.
LEMMA AllocateHashes ==
    ASSUME NEW r \in Request, NEW hit, NEW c, NEW n, NEW la, NEW new, NEW f,
           Scheduled(r, hit, c, n, la), Allocated(kv, kv', r, hit, new, f)
    PROVE  Rehashed(kv, kv', r, hit, new, f, kv.req_to_blocks[r] \o hit \o new,
                    max(kv.num_cached_block[r], 0) + Len(hit))
<1> DEFINE tr     == kv.req_to_blocks[r]
           blocks == tr \o hit \o new
           kept   == max(kv.num_cached_block[r], 0) + Len(hit)
           lost   == [b \in Block |-> IF b \in ToSet(new) THEN NoHash ELSE kv.pool.block_hash[b]]
<1>1. /\ Inv /\ Allocatable(kv, r, hit, num_tokens[r], c, n, la)
  BY DEF Scheduled
<1>2. /\ new \in Seq(Block) /\ IsInjective(new)
      /\ ToSet(new) \subseteq ToSet(kv.pool.free) \ ToSet(hit)
      /\ f \in Nat /\ f <= Len(blocks)
      /\ kv'.pool.block_hash = OwnHashes(r, blocks, kept, f, lost)
  BY DEF Allocated
<1>3. /\ hit \in Seq(Block) /\ IsInjective(hit) /\ (hit # <<>> => tr = <<>>)
  BY <1>1 DEF Allocatable
<1>4. /\ tr \in Seq(Block) /\ Len(tr) \in Nat /\ IsInjective(tr)
      /\ cachedBar[r] = max(kv.num_cached_block[r], 0) /\ cachedBar[r] \in Nat
      /\ \A b \in ToSet(tr) : b \notin ToSet(kv.pool.free)
      /\ \A i \in 1 .. Len(tr) : kv.pool.block_hash[tr[i]] # NoHash => i <= cachedBar[r]
  BY <1>1, TableFacts
<1>5. /\ ToSet(new) \cap ToSet(hit) = {} /\ ToSet(new) \cap ToSet(tr) = {}
  BY <1>2, <1>4
<1> HIDE DEF tr
<1>6. /\ blocks \in Seq(Block) /\ Len(blocks) = Len(tr) + Len(hit) + Len(new)
      /\ IsInjective(blocks)
      /\ ToSet(blocks) = ToSet(tr) \cup ToSet(hit) \cup ToSet(new)
      /\ \A i \in 1 .. Len(blocks) :
                 \/ i \in 1 .. Len(tr) /\ blocks[i] = tr[i]
                 \/ i \in 1 .. Len(hit) /\ blocks[i] = hit[i]
                 \/ blocks[i] \in ToSet(new)
      /\ \A i \in 1 .. Len(tr) : blocks[i] = tr[i]
      /\ \A i \in 1 .. Len(hit) : blocks[i] = hit[i]
  <2>1. /\ tr \in Seq(Block) /\ hit \in Seq(Block) /\ new \in Seq(Block)
        /\ IsInjective(tr) /\ IsInjective(hit) /\ IsInjective(new)
        /\ hit # <<>> => tr = <<>>
        /\ ToSet(new) \cap ToSet(hit) = {} /\ ToSet(new) \cap ToSet(tr) = {}
    BY <1>2, <1>3, <1>4, <1>5
  <2> HIDE DEF blocks
  <2>2. Len(blocks) = Len(tr) + Len(hit) + Len(new)
    BY <2>1, GrownTable DEF blocks
  <2>3. blocks \in Seq(Block) /\ IsInjective(blocks)
    BY <2>1, GrownTable DEF blocks
  <2>4. ToSet(blocks) = ToSet(tr) \cup ToSet(hit) \cup ToSet(new)
    BY <2>1, GrownTable DEF blocks
  <2>5. \A i \in 1 .. (Len(tr) + Len(hit) + Len(new)) :
                 \/ i \in 1 .. Len(tr) /\ blocks[i] = tr[i]
                 \/ i \in 1 .. Len(hit) /\ blocks[i] = hit[i]
                 \/ blocks[i] \in ToSet(new)
    BY <2>1, GrownTable DEF blocks
  <2>6. /\ \A i \in 1 .. Len(tr) : blocks[i] = tr[i]
        /\ \A i \in 1 .. Len(hit) : blocks[i] = hit[i]
    BY <2>1, GrownTable DEF blocks
  <2> QED
    BY <2>2, <2>3, <2>4, <2>5, <2>6
<1> HIDE DEF blocks
<1>7. kept \in Nat /\ kept = cachedBar[r] + Len(hit) /\ Len(blocks) \in Nat /\ Len(hit) \in Nat
  BY <1>3, <1>4, <1>6
<1> HIDE DEF kept
<1>8. \A b \in Block : kv'.pool.block_hash[b] =
         IF \E i \in (kept + 1) .. f : blocks[i] = b
         THEN block_hashes(r, CHOOSE i \in (kept + 1) .. f : blocks[i] = b)
         ELSE lost[b]
  BY <1>2 DEF OwnHashes
<1>9. ASSUME NEW i \in (kept + 1) .. f
      PROVE  /\ i \in 1 .. Len(blocks) /\ blocks[i] \in Block /\ blocks[i] \in ToSet(blocks)
             /\ blocks[i] \notin ToSet(new) => kv.pool.block_hash[blocks[i]] = NoHash
             /\ kv'.pool.block_hash[blocks[i]] = block_hashes(r, i)
  <2>1. i \in 1 .. Len(blocks) /\ i > cachedBar[r] /\ i > Len(hit)
    BY <1>2, <1>4, <1>7
  <2>2. blocks[i] \in Block /\ blocks[i] \in ToSet(blocks)
    BY <1>6, <2>1, SeqFacts
  <2>3. blocks[i] \notin ToSet(new) => kv.pool.block_hash[blocks[i]] = NoHash
    <3> SUFFICES ASSUME blocks[i] \notin ToSet(new) PROVE kv.pool.block_hash[blocks[i]] = NoHash
      OBVIOUS
    <3>1. ~(i \in 1 .. Len(hit))
      BY <1>7, <2>1
    <3>2. i \in 1 .. Len(tr) /\ blocks[i] = tr[i]
      BY <1>6, <2>1, <3>1
    <3>3. ~(i <= cachedBar[r])
      BY <1>4, <2>1
    <3> QED
      BY <1>4, <3>2, <3>3
  <2>4. PICK x : x = CHOOSE j \in (kept + 1) .. f : blocks[j] = blocks[i]
    OBVIOUS
  <2>5. x \in (kept + 1) .. f /\ blocks[x] = blocks[i]
    BY <2>4
  <2>6. x \in 1 .. Len(blocks)
    BY <1>2, <1>7, <2>5
  <2>7. x = i
    BY <1>6, <2>1, <2>5, <2>6, SeqFacts
  <2>8. kv'.pool.block_hash[blocks[i]] = block_hashes(r, x)
    BY <1>8, <2>2, <2>4
  <2> QED
    BY <2>1, <2>2, <2>3, <2>7, <2>8
<1>10. ASSUME NEW b \in Block, kv.pool.block_hash[b] # NoHash, b \notin ToSet(new)
       PROVE  kv'.pool.block_hash[b] = kv.pool.block_hash[b]
  <2>1. ~ \E i \in (kept + 1) .. f : blocks[i] = b
    BY <1>9, <1>10
  <2> QED
    BY <1>8, <1>10, <2>1
<1>11. ASSUME NEW b \in Block, b \notin ToSet(blocks)
       PROVE  kv'.pool.block_hash[b] = kv.pool.block_hash[b]
  <2>1. ~ \E i \in (kept + 1) .. f : blocks[i] = b
    BY <1>9, <1>11
  <2>2. b \notin ToSet(new)
    BY <1>6, <1>11
  <2> QED
    BY <1>8, <2>1, <2>2
<1> QED
  <2>1. Rehashed(kv, kv', r, hit, new, f, blocks, kept)
    BY <1>2, <1>6, <1>7, <1>9, <1>10, <1>11 DEF Rehashed, tr
  <2> QED
    BY <2>1 DEF blocks, kept, tr

\* Scheduling keeps the order.
LEMMA ScheduleOrder ==
    ASSUME OrderInv, NEW r \in Request, NEW hit, NEW c, NEW n, NEW la,
           Scheduled(r, hit, c, n, la), Inv'
    PROVE  HashesKept' /\ PrefixOutlives'
<1> DEFINE tr == kv.req_to_blocks[r]
<1>1. PICK new, f : Allocated(kv, kv', r, hit, new, f)
  BY AllocateStep
<1> DEFINE blocks == tr \o hit \o new
           kept   == max(kv.num_cached_block[r], 0) + Len(hit)
           gained == ToSet(hit) \cup ToSet(new)
<1>2. /\ Inv /\ Sound(kv) /\ HashesKept /\ PrefixOutlives
  BY DEF OrderInv, Inv
<1>3. /\ new \in Seq(Block)
      /\ ToSet(new) \subseteq ToSet(kv.pool.free) \ ToSet(hit)
      /\ f \in Nat
      /\ kv'.req_to_blocks = [kv.req_to_blocks EXCEPT ![r] = blocks]
      /\ \A q \in Request : q # r => kv'.num_cached_block[q] = kv.num_cached_block[q]
      /\ max(kv'.num_cached_block[r], 0) = f
      /\ kv'.pool.ref_cnt = [b \in Block |-> IF b \in gained THEN kv.pool.ref_cnt[b] + 1
                                                          ELSE kv.pool.ref_cnt[b]]
      /\ \A a, b : a \notin gained /\ b \notin ToSet(hit) /\ Before(kv.pool.free, a, b) =>
            Before(kv'.pool.free, a, b) /\ b \notin ToSet(new)
  BY <1>1 DEF Allocated
<1>4. /\ \A b \in Block : kv.pool.block_hash[b] # NoHash /\ b \notin ToSet(new) =>
            kv'.pool.block_hash[b] = kv.pool.block_hash[b]
      /\ \A b \in Block : b \notin ToSet(blocks) => kv'.pool.block_hash[b] = kv.pool.block_hash[b]
      /\ \A i \in (kept + 1) .. f : kv'.pool.block_hash[blocks[i]] = block_hashes(r, i)
      /\ kept \in Nat
      /\ ToSet(blocks) = ToSet(tr) \cup gained
      /\ \A i \in 1 .. Len(tr) : blocks[i] = tr[i]
      /\ \A i \in 1 .. Len(hit) : blocks[i] = hit[i]
  <2>1. Rehashed(kv, kv', r, hit, new, f, blocks, kept)
    BY <1>1, AllocateHashes
  <2> HIDE DEF blocks, kept
  <2> QED
    BY <2>1 DEF Rehashed
<1>5. /\ hit \in Seq(Block) /\ Len(hit) \in Nat /\ (hit # <<>> => tr = <<>>)
      /\ \A i \in 1 .. Len(hit) : /\ i \in FullBlocks(r)
                                  /\ kv.pool.block_hash[hit[i]] = block_hashes(r, i)
  BY DEF Scheduled, Allocatable
<1>6. /\ kv.req_to_blocks \in [Request -> Seq(Block)]
      /\ kv.pool.ref_cnt \in [Block -> Int] /\ \A b \in Block : kv.pool.ref_cnt[b] >= 0
      /\ \A b \in Block : b \in ToSet(kv.pool.free) <=> kv.pool.ref_cnt[b] = 0
  BY <1>2, SoundFields
<1>7. /\ kv'.req_to_blocks[r] = blocks
      /\ \A q \in Request : q # r => kv'.req_to_blocks[q] = kv.req_to_blocks[q]
      /\ cachedBar'[r] = f /\ \A q \in Request : q # r => cachedBar'[q] = cachedBar[q]
  BY <1>3, <1>6 DEF cachedBar
<1>8. /\ tr \in Seq(Block) /\ Len(tr) \in Nat
      /\ cachedBar[r] = max(kv.num_cached_block[r], 0) /\ cachedBar[r] \in Nat /\ cachedBar[r] <= Len(tr)
  BY <1>2, TableFacts
<1>9. \A q \in Request : \A i \in 1 .. cachedBar[q] :
         /\ kv.req_to_blocks[q][i] \in Block /\ kv.req_to_blocks[q][i] \notin ToSet(new)
         /\ kv.pool.block_hash[kv.req_to_blocks[q][i]] = block_hashes(q, i)
         /\ kv.pool.block_hash[kv.req_to_blocks[q][i]] # NoHash
  <2> SUFFICES ASSUME NEW q \in Request, NEW i \in 1 .. cachedBar[q]
               PROVE  /\ kv.req_to_blocks[q][i] \in Block /\ kv.req_to_blocks[q][i] \notin ToSet(new)
                      /\ kv.pool.block_hash[kv.req_to_blocks[q][i]] = block_hashes(q, i)
                      /\ kv.pool.block_hash[kv.req_to_blocks[q][i]] # NoHash
    OBVIOUS
  <2>1. /\ i \in FullBlocks(q) /\ kv.req_to_blocks[q][i] \in Block
        /\ kv.pool.ref_cnt[kv.req_to_blocks[q][i]] >= 1
    BY <1>2, CachedPlaces
  <2>2. kv.req_to_blocks[q][i] \notin ToSet(new)
    BY <1>3, <1>6, <2>1
  <2>3. kv.pool.block_hash[kv.req_to_blocks[q][i]] = block_hashes(q, i)
    BY <1>2 DEF HashesKept
  <2>4. block_hashes(q, i) # NoHash
    BY <2>1, HashFacts, NoHashIsNone
  <2> QED
    BY <2>1, <2>2, <2>3, <2>4
<1> HIDE DEF tr, blocks, kept
<1>10. ASSUME NEW i \in 1 .. f PROVE kv'.pool.block_hash[blocks[i]] = block_hashes(r, i)
  <2>1. CASE i \in (kept + 1) .. f
    BY <1>4, <2>1
  <2>2. CASE i <= cachedBar[r]
    <3>1. i \in 1 .. cachedBar[r] /\ i \in 1 .. Len(tr)
      BY <1>8, <2>2
    <3>2. blocks[i] = tr[i]
      BY <1>4, <3>1
    <3> QED
      BY <1>4, <1>9, <3>1, <3>2 DEF tr
  <2>3. CASE ~(i <= cachedBar[r]) /\ ~(i \in (kept + 1) .. f)
    <3>1. kept = cachedBar[r] + Len(hit)
      BY <1>8 DEF kept
    <3>2. hit # <<>>
      <4> SUFFICES ASSUME hit = <<>> PROVE FALSE
        OBVIOUS
      <4>1. Len(hit) = 0
        OBVIOUS
      <4> QED
        BY <1>3, <1>8, <2>3, <3>1, <4>1
    <3>3. cachedBar[r] = 0
      <4>1. Len(tr) = 0
        BY <1>5, <3>2
      <4> QED
        BY <1>8, <4>1
    <3>4. i \in 1 .. Len(hit)
      BY <1>3, <1>5, <2>3, <3>1, <3>3
    <3>5. blocks[i] = hit[i] /\ hit[i] \in Block /\ hit[i] \in ToSet(hit)
      BY <1>4, <1>5, <3>4, SeqFacts
    <3>6. /\ kv.pool.block_hash[hit[i]] = block_hashes(r, i) /\ block_hashes(r, i) # NoHash
      BY <1>5, <3>4, HashFacts, NoHashIsNone
    <3>7. hit[i] \notin ToSet(new)
      BY <1>3, <3>5
    <3> QED
      BY <1>4, <3>5, <3>6, <3>7
  <2> QED
    BY <2>1, <2>2, <2>3
<1>11. HashesKept'
  <2> SUFFICES ASSUME NEW q \in Request, NEW i \in 1 .. cachedBar'[q]
               PROVE  kv'.pool.block_hash[kv'.req_to_blocks[q][i]] = block_hashes(q, i)
    BY DEF HashesKept
  <2>1. CASE q = r
    BY <1>7, <1>10, <2>1
  <2>2. CASE q # r
    BY <1>4, <1>7, <1>9, <2>2
  <2> QED
    BY <2>1, <2>2
<1>12. PrefixOutlives'
  <2> SUFFICES ASSUME NEW x \in Block, NEW q \in Request, NEW i \in FullBlocks(q),
                      kv'.pool.ref_cnt[x] = 0, kv'.pool.block_hash[x] = block_hashes(q, i),
                      NEW m \in 1 .. i
               PROVE  \E b \in Block : /\ kv'.pool.block_hash[b] = block_hashes(q, m)
                                       /\ kv'.pool.ref_cnt[b] > 0 \/ b = x \/ Before(kv'.pool.free, x, b)
    BY DEF PrefixOutlives
  <2>1. x \notin gained /\ kv.pool.ref_cnt[x] = 0
    <3>1. kv.pool.ref_cnt[x] \in Int /\ kv.pool.ref_cnt[x] >= 0
      BY <1>6
    <3> HIDE DEF gained
    <3> QED
      BY <1>3, <3>1
  <2>2. x \notin ToSet(tr)
    <3>1. \A b \in ToSet(tr) : kv.pool.ref_cnt[b] >= 1
      BY <1>2, TableFacts DEF tr
    <3> QED
      BY <2>1, <3>1
  <2>3. kv.pool.block_hash[x] = block_hashes(q, i)
    BY <1>4, <2>1, <2>2
  <2>4. PICK b \in Block : /\ kv.pool.block_hash[b] = block_hashes(q, m)
                           /\ kv.pool.ref_cnt[b] > 0 \/ b = x \/ Before(kv.pool.free, x, b)
    BY <1>2, <2>1, <2>3 DEF PrefixOutlives
  <2>5. block_hashes(q, m) # NoHash
    <3>1. m \in FullBlocks(q)
      BY HashUnique
    <3> QED
      BY <3>1, HashFacts, NoHashIsNone
  <2>6. b \notin ToSet(new)
    <3>1. CASE kv.pool.ref_cnt[b] > 0
      BY <1>3, <1>6, <3>1
    <3>2. CASE b = x
      BY <2>1, <3>2
    <3>3. CASE Before(kv.pool.free, x, b) /\ b \in ToSet(hit)
      BY <1>3, <3>3
    <3>4. CASE Before(kv.pool.free, x, b) /\ b \notin ToSet(hit)
      BY <1>3, <2>1, <3>4
    <3> QED
      BY <2>4, <3>1, <3>2, <3>3, <3>4
  <2>7. kv'.pool.block_hash[b] = block_hashes(q, m)
    BY <1>4, <2>4, <2>5, <2>6
  <2>8. kv.pool.ref_cnt[b] \in Int /\ kv.pool.ref_cnt[b] >= 0
    BY <1>6
  <2>9. CASE b \in ToSet(hit)
    <3>1. kv'.pool.ref_cnt[b] = kv.pool.ref_cnt[b] + 1
      BY <1>3, <2>9
    <3>2. kv'.pool.ref_cnt[b] > 0
      BY <2>8, <3>1
    <3> QED
      BY <2>7, <3>2
  <2>10. CASE b \notin ToSet(hit)
    <3>1. kv'.pool.ref_cnt[b] = kv.pool.ref_cnt[b]
      BY <1>3, <2>6, <2>10
    <3>2. Before(kv.pool.free, x, b) => Before(kv'.pool.free, x, b)
      BY <1>3, <2>1, <2>10
    <3> QED
      BY <2>4, <2>7, <3>1, <3>2
  <2> QED
    BY <2>9, <2>10
<1> QED
  BY <1>11, <1>12
\* Freeing keeps the order: the tail of a table is freed before its head, behind what is free.
LEMMA FreeOrder ==
    ASSUME OrderInv, NEW r \in Request, Freed(kv, kv', r)
    PROVE  HashesKept' /\ PrefixOutlives'
<1> DEFINE tr == kv.req_to_blocks[r]
<1>1. Inv /\ Sound(kv) /\ HashesKept /\ PrefixOutlives
  BY DEF OrderInv, Inv
<1>2. /\ kv'.req_to_blocks = [kv.req_to_blocks EXCEPT ![r] = <<>>]
      /\ kv'.num_cached_block = [kv.num_cached_block EXCEPT ![r] = Absent]
      /\ kv'.pool.block_hash = kv.pool.block_hash
      /\ kv'.pool.ref_cnt = [b \in Block |-> IF b \in ToSet(tr) THEN kv.pool.ref_cnt[b] - 1
                                                           ELSE kv.pool.ref_cnt[b]]
  BY DEF Freed
<1>3. \A a, b : Before(kv.pool.free, a, b) => Before(kv'.pool.free, a, b)
  BY DEF Freed
<1>4. \A a \in ToSet(kv.pool.free), b \in ToSet(tr) :
         kv.pool.ref_cnt[b] = 1 => Before(kv'.pool.free, a, b)
  BY DEF Freed
<1>5. \A i, j \in 1 .. Len(tr) :
         i < j /\ kv.pool.ref_cnt[tr[i]] = 1 /\ kv.pool.ref_cnt[tr[j]] = 1 =>
            Before(kv'.pool.free, tr[j], tr[i])
  BY DEF Freed
<1>6. /\ kv.req_to_blocks \in [Request -> Seq(Block)] /\ kv.num_cached_block \in [Request -> Int]
      /\ kv.pool.ref_cnt \in [Block -> Int] /\ \A b \in Block : kv.pool.ref_cnt[b] >= 0
      /\ \A b \in Block : b \in ToSet(kv.pool.free) <=> kv.pool.ref_cnt[b] = 0
  BY <1>1, SoundFields
<1>7. tr \in Seq(Block) /\ Len(tr) \in Nat /\ \A b \in ToSet(tr) : kv.pool.ref_cnt[b] >= 1
  BY <1>1, TableFacts
<1>8. HashesKept'
  <2> SUFFICES ASSUME NEW q \in Request, NEW i \in 1 .. cachedBar'[q]
               PROVE  kv'.pool.block_hash[kv'.req_to_blocks[q][i]] = block_hashes(q, i)
    BY DEF HashesKept
  <2>1. cachedBar'[q] = max(kv'.num_cached_block[q], 0)
    BY DEF cachedBar
  <2>2. q # r
    <3> SUFFICES ASSUME q = r PROVE FALSE
      OBVIOUS
    <3>1. cachedBar'[q] = max(Absent, 0)
      BY <1>2, <1>6, <2>1
    <3>2. max(Absent, 0) = 0
      BY DEF max, Absent
    <3> QED
      BY <3>1, <3>2
  <2>3. cachedBar'[q] = cachedBar[q] /\ kv'.req_to_blocks[q] = kv.req_to_blocks[q]
    BY <1>2, <1>6, <2>1, <2>2 DEF cachedBar
  <2> QED
    BY <1>1, <1>2, <2>3 DEF HashesKept
<1> HIDE DEF tr
<1>9. PrefixOutlives'
  <2> SUFFICES ASSUME NEW x \in Block, NEW q \in Request, NEW i \in FullBlocks(q),
                      kv'.pool.ref_cnt[x] = 0, kv'.pool.block_hash[x] = block_hashes(q, i),
                      NEW m \in 1 .. i
               PROVE  \E b \in Block : /\ kv'.pool.block_hash[b] = block_hashes(q, m)
                                       /\ kv'.pool.ref_cnt[b] > 0 \/ b = x \/ Before(kv'.pool.free, x, b)
    BY DEF PrefixOutlives
  <2>1. kv.pool.block_hash[x] = block_hashes(q, i)
    BY <1>2
  <2>2. kv.pool.ref_cnt[x] \in Int /\ kv.pool.ref_cnt[x] >= 0
    BY <1>6
  <2>3. CASE kv.pool.ref_cnt[x] = 0
    <3>1. PICK b \in Block : /\ kv.pool.block_hash[b] = block_hashes(q, m)
                             /\ kv.pool.ref_cnt[b] > 0 \/ b = x \/ Before(kv.pool.free, x, b)
      BY <1>1, <2>1, <2>3 DEF PrefixOutlives
    <3>2. kv'.pool.block_hash[b] = block_hashes(q, m)
      BY <1>2, <3>1
    <3>3. kv.pool.ref_cnt[b] \in Int
      BY <1>6
    <3>4. CASE kv.pool.ref_cnt[b] > 0
      <4>1. CASE b \in ToSet(tr) /\ kv.pool.ref_cnt[b] = 1
        <5>1. x \in ToSet(kv.pool.free)
          BY <1>6, <2>3
        <5>2. Before(kv'.pool.free, x, b)
          BY <1>4, <4>1, <5>1
        <5> QED
          BY <3>2, <5>2
      <4>2. CASE ~(b \in ToSet(tr) /\ kv.pool.ref_cnt[b] = 1)
        <5>1. kv'.pool.ref_cnt[b] > 0
          BY <1>2, <3>3, <3>4, <4>2
        <5> QED
          BY <3>2, <5>1
      <4> QED
        BY <4>1, <4>2
    <3>5. CASE b = x
      BY <3>2, <3>5
    <3>6. CASE Before(kv.pool.free, x, b)
      BY <1>3, <3>2, <3>6
    <3> QED
      BY <3>1, <3>4, <3>5, <3>6
  <2>4. CASE kv.pool.ref_cnt[x] # 0
    <3>1. x \in ToSet(tr) /\ kv.pool.ref_cnt[x] = 1
      BY <1>2, <2>2, <2>4
    <3>2. PICK j \in 1 .. Len(tr) : tr[j] = x
      BY <1>7, <3>1, SeqFacts DEF ToSet
    <3>3. j \in 1 .. Len(kv.req_to_blocks[r]) /\ kv.req_to_blocks[r][j] = x
      BY <3>2 DEF tr
    <3>4. j = i /\ m \in 1 .. cachedBar[r] /\ kv.pool.block_hash[kv.req_to_blocks[r][m]] = block_hashes(q, m)
      BY <1>1, <2>1, <3>3, HeldPrefix
    <3>5. /\ m \in 1 .. Len(tr) /\ tr[m] \in Block /\ kv.pool.ref_cnt[tr[m]] >= 1
          /\ tr[m] \in ToSet(tr)
      BY <1>1, <3>4, CachedPlaces DEF tr
    <3>6. kv'.pool.block_hash[tr[m]] = block_hashes(q, m)
      BY <1>2, <3>4 DEF tr
    <3>7. CASE m = i
      <4>1. tr[m] = x
        BY <3>2, <3>4, <3>7
      <4> QED
        BY <3>5, <3>6, <4>1
    <3>8. CASE m # i /\ kv.pool.ref_cnt[tr[m]] = 1
      <4>1. m < j
        BY <3>2, <3>4, <3>8
      <4>2. Before(kv'.pool.free, tr[j], tr[m])
        BY <1>5, <3>1, <3>2, <3>5, <3>8, <4>1
      <4> QED
        BY <3>2, <3>5, <3>6, <4>2
    <3>9. CASE kv.pool.ref_cnt[tr[m]] # 1
      <4>1. kv.pool.ref_cnt[tr[m]] \in Int
        BY <1>6, <3>5
      <4>2. kv'.pool.ref_cnt[tr[m]] = kv.pool.ref_cnt[tr[m]] - 1
        BY <1>2, <3>5
      <4>3. kv'.pool.ref_cnt[tr[m]] > 0
        BY <3>5, <3>9, <4>1, <4>2
      <4> QED
        BY <3>5, <3>6, <4>3
    <3> QED
      BY <3>7, <3>8, <3>9
  <2> QED
    BY <2>3, <2>4
<1> QED
  BY <1>8, <1>9

\* reset_prefix_cache() goes ahead only when no block is in use.
LEMMA NothingInUse ==
    ASSUME Inv, can_reset_prefix_cache(kv.pool)
    PROVE  /\ \A b \in Block : kv.pool.ref_cnt[b] = 0
           /\ \A r \in Request : cachedBar[r] = 0
<1>1. Sound(kv)
  BY DEF Inv
<1>2. /\ kv.pool.free \in Seq(Block) /\ Len(kv.pool.free) \in Nat /\ IsInjective(kv.pool.free)
      /\ ToSet(kv.pool.free) \subseteq Block
      /\ \A b \in Block : b \in ToSet(kv.pool.free) <=> kv.pool.ref_cnt[b] = 0
  BY <1>1, SoundFields
<1>3. IsFiniteSet(Block) /\ Cardinality(Block) = NumGpuBlocks - 1
  <2>1. 1 \in Int /\ NumGpuBlocks - 1 \in Int /\ ~(1 > NumGpuBlocks - 1)
    BY NumGpuBlocksAssumption
  <2>2. /\ IsFiniteSet(Block)
        /\ Cardinality(Block) = IF 1 > NumGpuBlocks - 1 THEN 0 ELSE NumGpuBlocks - 1 - 1 + 1
    BY <2>1, FS_Interval DEF Block
  <2> QED
    BY <2>1, <2>2
<1>4. Len(kv.pool.free) = NumGpuBlocks - 1
  <2>1. NumGpuBlocks - Len(kv.pool.free) = 1
    BY DEF can_reset_prefix_cache, get_num_free_blocks
  <2> QED
    BY <1>2, <2>1, NumGpuBlocksAssumption
<1>5. Cardinality(ToSet(kv.pool.free)) = Cardinality(Block)
  BY <1>2, <1>3, <1>4, InjectiveLen
<1>6. ToSet(kv.pool.free) = Block
  BY <1>2, <1>3, <1>5, FS_Subset
<1>7. \A b \in Block : kv.pool.ref_cnt[b] = 0
  BY <1>2, <1>6
<1>8. ASSUME NEW r \in Request PROVE cachedBar[r] = 0
  <2>1. cachedBar[r] \in Nat
    BY TableFacts
  <2> SUFFICES ASSUME cachedBar[r] # 0 PROVE FALSE
    OBVIOUS
  <2>2. 1 \in 1 .. cachedBar[r]
    BY <2>1
  <2>3. /\ kv.req_to_blocks[r][1] \in Block
        /\ kv.pool.ref_cnt[kv.req_to_blocks[r][1]] >= 1
    BY <2>2, CachedPlaces
  <2> QED
    BY <1>7, <2>3
<1> QED
  BY <1>7, <1>8

\* While no worker reports invalid blocks, every step keeps the order and the hashes of the
\* blocks in use.
LEMMA NextOrder ==
    ASSUME ~AllowEvict, OrderInv, [Next]_vars
    PROVE  /\ OrderInv'
           /\ \A b \in Block :
                 kv.pool.ref_cnt[b] > 0 /\ kv.pool.block_hash[b] # NoHash
                    /\ kv'.pool.ref_cnt[b] > 0
                 => kv'.pool.block_hash[b] = kv.pool.block_hash[b]
<1> DEFINE Stable == \A b \in Block :
                        kv.pool.ref_cnt[b] > 0 /\ kv.pool.block_hash[b] # NoHash
                           /\ kv'.pool.ref_cnt[b] > 0
                        => kv'.pool.block_hash[b] = kv.pool.block_hash[b]
<1>1. Inv /\ Sound(kv) /\ HashesKept /\ PrefixOutlives
  BY DEF OrderInv, Inv
<1>2. Inv'
  BY <1>1, NextInv
<1>3. ASSUME NEW r \in Request, NEW hit, NEW c, NEW n, NEW la, Scheduled(r, hit, c, n, la)
      PROVE  HashesKept' /\ PrefixOutlives' /\ Stable
  <2>1. HashesKept' /\ PrefixOutlives'
    BY <1>2, <1>3, ScheduleOrder
  <2>2. PICK new, f : Allocated(kv, kv', r, hit, new, f)
    BY <1>3, AllocateStep
  <2>3. PICK blocks, kept : Rehashed(kv, kv', r, hit, new, f, blocks, kept)
    BY <1>3, <2>2, AllocateHashes
  <2>4. \A b \in Block : kv.pool.block_hash[b] # NoHash /\ b \notin ToSet(new) =>
           kv'.pool.block_hash[b] = kv.pool.block_hash[b]
    BY <2>3 DEF Rehashed
  <2>5. ToSet(new) \subseteq ToSet(kv.pool.free)
    BY <2>2 DEF Allocated
  <2>6. \A b \in Block : b \in ToSet(kv.pool.free) => kv.pool.ref_cnt[b] = 0
    BY <1>1, SoundFields
  <2>7. \A b \in Block : kv.pool.ref_cnt[b] > 0 => b \notin ToSet(new)
    BY <2>5, <2>6
  <2> QED
    BY <2>1, <2>4, <2>7
<1>4. ASSUME NEW r \in Request, Freed(kv, kv', r) PROVE HashesKept' /\ PrefixOutlives' /\ Stable
  <2>1. HashesKept' /\ PrefixOutlives'
    BY <1>4, FreeOrder
  <2>2. kv'.pool.block_hash = kv.pool.block_hash
    BY <1>4 DEF Freed
  <2> QED
    BY <2>1, <2>2
<1>5. ASSUME kv' = kv PROVE HashesKept' /\ PrefixOutlives' /\ Stable
  <2>1. HashesKept' /\ PrefixOutlives'
    BY <1>1, <1>5 DEF HashesKept, PrefixOutlives, cachedBar
  <2> QED
    BY <1>5, <2>1
<1>6. ASSUME Reset PROVE HashesKept' /\ PrefixOutlives' /\ Stable
  <2>1. can_reset_prefix_cache(kv.pool) /\ kv' = [kv EXCEPT !.pool = reset_prefix_cache(@)]
    BY <1>6 DEF Reset
  <2>2. /\ kv'.num_cached_block = kv.num_cached_block
        /\ kv'.pool.block_hash = [a \in Block |-> NoHash]
    BY <1>1, <2>1, UnhashFacts
  <2>3. /\ \A b \in Block : kv.pool.ref_cnt[b] = 0
        /\ \A r \in Request : cachedBar[r] = 0
    BY <1>1, <2>1, NothingInUse
  <2>4. \A r \in Request : cachedBar'[r] = 0
    BY <2>2, <2>3 DEF cachedBar
  <2>5. HashesKept'
    <3>1. \A r \in Request : \A i \in 1 .. cachedBar'[r] : FALSE
      BY <2>4
    <3> QED
      BY <3>1 DEF HashesKept
  <2>6. PrefixOutlives'
    <3>1. \A c \in Block, r \in Request : \A i \in FullBlocks(r) :
             kv'.pool.block_hash[c] # block_hashes(r, i)
      BY <2>2, HashFacts, NoHashIsNone
    <3> QED
      BY <3>1 DEF PrefixOutlives
  <2>7. \A b \in Block : ~(kv.pool.ref_cnt[b] > 0)
    BY <2>3
  <2> QED
    BY <2>5, <2>6, <2>7
<1> HIDE DEF Stable
<1>7. ASSUME NEW r \in Request, NEW n \in 1 .. Len(Text[r]), ScheduleWaiting(r, n)
      PROVE  HashesKept' /\ PrefixOutlives' /\ Stable
  <2>1. PICK hit : hit = get_computed_blocks(kv, r, num_tokens[r])
    OBVIOUS
  <2>2. Scheduled(r, hit, 0, n, 0)
    BY <1>1, <1>7, <2>1, WaitingStep
  <2> QED
    BY <1>3, <2>2
<1>8. ASSUME NEW r \in Request, NEW n \in 1 .. (Len(Text[r]) + MaxDraft), NEW d \in 0 .. MaxDraft,
             ScheduleRunning(r, n, d)
      PROVE  HashesKept' /\ PrefixOutlives' /\ Stable
  <2>1. Scheduled(r, <<>>, num_computed_tokens[r], n, Lookahead)
    BY <1>1, <1>8, RunningStep
  <2> QED
    BY <1>3, <2>1
<1>9. ASSUME NEW r \in Request, NEW accepted \in 0 .. MaxDraft, Output(r, accepted)
      PROVE  HashesKept' /\ PrefixOutlives' /\ Stable
  <2>1. kv' = kv
    BY <1>9 DEF Output
  <2> QED
    BY <1>5, <2>1
<1>10. ASSUME NEW r \in Request, kv' = free_request(kv, r)
       PROVE  HashesKept' /\ PrefixOutlives' /\ Stable
  <2>1. IsInjective(kv.req_to_blocks[r]) /\ \A b \in ToSet(kv.req_to_blocks[r]) : kv.pool.ref_cnt[b] >= 1
    BY <1>1, TableFacts
  <2>2. Freed(kv, kv', r)
    BY <1>1, <1>10, <2>1, FreeRequestFacts
  <2> QED
    BY <1>4, <2>2
<1>11. CASE UNCHANGED vars
  <2>1. kv' = kv
    BY <1>11 DEF vars
  <2> QED
    BY <1>2, <1>5, <2>1 DEF OrderInv, Stable
<1>12. CASE Next
  <2>1. ASSUME NEW r \in Request, Preempt(r) \/ Finish(r) PROVE HashesKept' /\ PrefixOutlives' /\ Stable
    <3>1. kv' = free_request(kv, r)
      BY <2>1 DEF Preempt, Finish
    <3> QED
      BY <1>10, <3>1
  <2>2. ASSUME NEW b \in Block PROVE ~Evict(b)
    BY DEF Evict
  <2>3. HashesKept' /\ PrefixOutlives' /\ Stable
    BY <1>6, <1>7, <1>8, <1>9, <1>12, <2>1, <2>2 DEF Next
  <2> QED
    BY <1>2, <2>3 DEF OrderInv, Stable
<1> QED
  BY <1>11, <1>12

\* At first nothing is cached.
LEMMA InitOrder == Init => OrderInv
<1> SUFFICES ASSUME Init PROVE OrderInv
  OBVIOUS
<1>1. Inv
  BY InitInv
<1>2. /\ kv.num_cached_block = [r \in Request |-> Absent]
      /\ kv.pool.block_hash = [b \in Block |-> NoHash]
  BY DEF Init, InitKV, InitPool
<1>3. HashesKept
  <2>1. max(Absent, 0) = 0
    BY DEF max, Absent
  <2>2. \A r \in Request : cachedBar[r] = 0
    BY <1>2, <2>1 DEF cachedBar
  <2>3. \A r \in Request : \A i \in 1 .. cachedBar[r] : FALSE
    BY <2>2
  <2> QED
    BY <2>3 DEF HashesKept
<1>4. PrefixOutlives
  <2>1. \A c \in Block, r \in Request : \A i \in FullBlocks(r) :
           kv.pool.block_hash[c] # block_hashes(r, i)
    BY <1>2, HashFacts, NoHashIsNone
  <2> QED
    BY <2>1 DEF PrefixOutlives
<1> QED
  BY <1>1, <1>3, <1>4 DEF OrderInv

\* While no worker reports invalid blocks the cached prefixes are closed under taking shorter
\* ones, which is what lets find_longest_cache_hit() stop at the first miss.
THEOREM PrefixesStayClosed ==
    ASSUME ~AllowEvict PROVE Spec => []CacheIsPrefixClosed
<1>1. Init => OrderInv
  BY InitOrder
<1>2. OrderInv /\ [Next]_vars => OrderInv'
  BY NextOrder
<1>3. OrderInv => CacheIsPrefixClosed
  BY OrderImplies
<1> QED
  BY <1>1, <1>2, <1>3, PTL DEF Spec

\* While no worker reports invalid blocks a block in use keeps its hash.
THEOREM HashesAreStable ==
    ASSUME ~AllowEvict PROVE Spec => HashStableWhileInUse
<1>1. Init => OrderInv
  BY InitOrder
<1>2. OrderInv /\ [Next]_vars => OrderInv'
  BY NextOrder
<1>3. OrderInv /\ [Next]_vars =>
         [\A b \in Block :
             kv.pool.ref_cnt[b] > 0 /\ kv.pool.block_hash[b] # NoHash
                /\ kv'.pool.ref_cnt[b] > 0
             => kv'.pool.block_hash[b] = kv.pool.block_hash[b]]_vars
  BY NextOrder
<1> QED
  BY <1>1, <1>2, <1>3, PTL DEF Spec, HashStableWhileInUse

==============================================================================
