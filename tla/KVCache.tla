------------------------------- MODULE KVCache -------------------------------
(* What the KV-cache manager of vLLM V1 promises its scheduler, with the      *)
(* eviction order left open: blocks are handed out, shared by prefix, counted *)
(* and returned.  KVCacheClient, which keeps the free queue, the hash map and *)
(* the token arithmetic of the code, implements this specification.           *)
EXTENDS Integers, Sequences, FiniteSets

CONSTANTS Request, Block, Hash,
          NoHash,
          BlockHash,    \* BlockHash[r][i]: the hash of the i-th full block of r
          MaxFull       \* the most blocks any request can fill

ASSUME KVCacheAssumption ==
    /\ IsFiniteSet(Request)
    /\ NoHash \notin Hash
    /\ BlockHash \in [Request -> Seq(Hash)]
    /\ MaxFull \in Nat
    \* A hash commits to the whole prefix, so it fixes the block's index.
    /\ \A r, q \in Request :
          \A i \in DOMAIN BlockHash[r], j \in DOMAIN BlockHash[q] :
             BlockHash[r][i] = BlockHash[q][j] => i = j

VARIABLES table,      \* req_to_blocks
          cached,     \* num_cached_block, 0 when the request has no entry
          full,       \* how many blocks the request's finalized tokens fill
          hash,       \* block_hash
          ref,        \* ref_cnt
          free        \* the blocks of the free queue, in no particular order

vars == <<table, cached, full, hash, ref, free>>

BlocksOf(r) == {table[r][i] : i \in DOMAIN table[r]}

Init == /\ table = [r \in Request |-> <<>>]
        /\ cached = [r \in Request |-> 0]
        /\ full \in {f \in [Request -> 0 .. MaxFull] :
                       \A r \in Request : f[r] <= Len(BlockHash[r])}
        /\ hash = [b \in Block |-> NoHash]
        /\ ref = [b \in Block |-> 0]
        /\ free = Block

\* Mutant: a block without a hash counts as a hit, too.
IsHitOrUnhashed(r, hit) ==
    /\ hit \in Seq(Block)
    /\ Len(hit) <= full[r]
    /\ hit # <<>> => table[r] = <<>>
    /\ \A i \in DOMAIN hit : /\ hash[hit[i]] \in {BlockHash[r][i], NoHash}
                             /\ \A j \in DOMAIN hit : hit[i] = hit[j] => i = j

\* A prefix-cache hit for r: cached blocks that carry the first hashes of r.
IsHit(r, hit) ==
    /\ hit \in Seq(Block)
    /\ Len(hit) <= full[r]
    /\ hit # <<>> => table[r] = <<>>
    /\ \A i \in DOMAIN hit : hash[hit[i]] = BlockHash[r][i]

\* Mutant: blocks still in use are handed out.
IsFreshOrInUse(hit, new) ==
    /\ new \in Seq(Block)
    /\ \A i \in DOMAIN new : \A j \in DOMAIN hit : new[i] # hit[j]

\* New blocks: unreferenced ones, apart from the hit, in any order.
IsFresh(hit, new) ==
    /\ new \in Seq(Block)
    /\ \A i \in DOMAIN new :
          /\ new[i] \in free
          /\ \A j \in DOMAIN hit : new[i] # hit[j]
          /\ \A j \in DOMAIN new : new[i] = new[j] => i = j

\* allocate_slots: the hit blocks are touched, the new ones lose their old hash,
\* and blocks cached[r]+1 .. k (the ones past the hit) get their own.
Allocate(r, hit, new, k) ==
    LET blocks == table[r] \o hit \o new
        kept   == cached[r] + Len(hit)
        gained == {hit[i] : i \in DOMAIN hit} \cup {new[i] : i \in DOMAIN new}
    IN  /\ IsHit(r, hit)
        /\ IsFresh(hit, new)
        /\ k \in kept .. full[r]
        /\ k <= Len(blocks)
        /\ table' = [table EXCEPT ![r] = blocks]
        /\ cached' = [cached EXCEPT ![r] = k]
        /\ hash' = [b \in Block |->
                      IF \E i \in (kept + 1) .. k : blocks[i] = b
                      THEN BlockHash[r][CHOOSE i \in (kept + 1) .. k : blocks[i] = b]
                      ELSE IF \E i \in DOMAIN new : new[i] = b THEN NoHash ELSE hash[b]]
        /\ ref' = [b \in Block |-> IF b \in gained THEN ref[b] + 1 ELSE ref[b]]
        /\ free' = free \ gained
        /\ UNCHANGED full

\* Mutant: the references of r are not dropped.
FreeKeepsRef(r) ==
    /\ table' = [table EXCEPT ![r] = <<>>]
    /\ cached' = [cached EXCEPT ![r] = 0]
    /\ free' = free \cup {b \in BlocksOf(r) : ref[b] = 1}
    /\ UNCHANGED <<full, hash, ref>>

\* free: the references of r are dropped, blocks nobody uses become free.
Free(r) ==
    /\ table' = [table EXCEPT ![r] = <<>>]
    /\ cached' = [cached EXCEPT ![r] = 0]
    /\ ref' = [b \in Block |-> IF b \in BlocksOf(r) THEN ref[b] - 1 ELSE ref[b]]
    /\ free' = free \cup {b \in BlocksOf(r) : ref[b] = 1}
    /\ \E n \in 0 .. Len(BlockHash[r]) : full' = [full EXCEPT ![r] = n]
    /\ UNCHANGED hash

\* The request's finalized tokens fill more blocks.
Grow(r, n) ==
    /\ n \in full[r] .. Len(BlockHash[r])
    /\ full' = [full EXCEPT ![r] = n]
    /\ UNCHANGED <<table, cached, hash, ref, free>>

\* evict_blocks and reset_prefix_cache: blocks leave the prefix cache.
Evict(S) ==
    /\ hash' = [b \in Block |-> IF b \in S THEN NoHash ELSE hash[b]]
    /\ UNCHANGED <<table, cached, full, ref, free>>

Next ==
    \/ \E r \in Request :
          \/ Free(r)
          \/ \E n \in 0 .. Len(BlockHash[r]) : Grow(r, n)
          \/ \E m \in 0 .. full[r] : \E hit \in [1 .. m -> Block] :
                /\ IsHit(r, hit)
                /\ \E n \in 0 .. Cardinality(free) : \E new \in [1 .. n -> free] :
                      /\ IsFresh(hit, new)
                      /\ \E k \in 0 .. full[r] : Allocate(r, hit, new, k)
    \/ \E S \in SUBSET Block : Evict(S)

Spec == Init /\ [][Next]_vars

-----------------------------------------------------------------------------
TypeOK ==
    /\ table \in [Request -> Seq(Block)]
    /\ cached \in [Request -> Nat]
    /\ full \in [Request -> Nat]
    /\ hash \in [Block -> Hash \cup {NoHash}]
    /\ ref \in [Block -> Int]
    /\ free \in SUBSET Block

\* cached blocks are full blocks of the table.
CachedFits ==
    \A r \in Request : /\ cached[r] <= Len(table[r])
                       /\ cached[r] <= full[r]
                       /\ full[r] <= Len(BlockHash[r])

\* No block occurs twice in a request's table.
TableInjective ==
    \A r \in Request : \A i, j \in DOMAIN table[r] :
        table[r][i] = table[r][j] => i = j

\* The free blocks are exactly those in no table.
FreeExact == \A b \in Block : b \in free <=> \A r \in Request : b \notin BlocksOf(r)

\* ref_cnt counts the requests that hold the block.
RefExact ==
    \A b \in Block : ref[b] = Cardinality({r \in Request : b \in BlocksOf(r)})

\* A block in a table has the hash of its place there or, evicted or not yet
\* cached, none; past num_cached_block it has none (block_pool.py:263).
HashOwn ==
    \A r \in Request : \A i \in DOMAIN table[r] :
        hash[table[r][i]] # NoHash =>
            i <= cached[r] /\ hash[table[r][i]] = BlockHash[r][i]

\* Two requests share a block only as the same full, cached block of a common
\* prefix.
Isolation ==
    \A r, q \in Request : \A i \in DOMAIN table[r], j \in DOMAIN table[q] :
        r # q /\ table[r][i] = table[q][j] =>
            /\ i = j
            /\ i <= cached[r] /\ i <= cached[q]
            /\ BlockHash[r][i] = BlockHash[q][i]

IInv == /\ TypeOK
        /\ CachedFits
        /\ TableInjective
        /\ FreeExact
        /\ RefExact
        /\ HashOwn
        /\ Isolation
==============================================================================
