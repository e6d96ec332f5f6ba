------------------------------ MODULE BlockPool ------------------------------
(* The pool of GPU KV-cache blocks of vLLM V1 (vllm/v1/core/block_pool.py and  *)
(* the block queue of kv_cache_utils.py) as operators on a pool value:         *)
(*                                                                             *)
(*   free        FreeKVCacheBlockQueue: the eviction order, next victim first  *)
(*   ref_cnt     KVCacheBlock.ref_cnt                                          *)
(*   block_hash  KVCacheBlock.block_hash, NoHash when it is None               *)
(*   cache       BlockHashToBlockMap: for each hash the blocks that carry it,  *)
(*               in the insertion order of the inner dict (empty: no key)      *)
(*                                                                             *)
(* A block hash commits to every token up to the end of its block, so it is    *)
(* modelled by that token prefix itself: equal hashes are equal prefixes (the  *)
(* hash function is assumed free of collisions).  Block 0, popped from the     *)
(* queue by __init__ as null_block, is never handed out and is left out.       *)
EXTENDS Integers, Sequences, FiniteSets, SequencesExt

CONSTANT NumGpuBlocks    \* num_gpu_blocks, the null block included

ASSUME NumGpuBlocksAssumption == NumGpuBlocks \in Nat \ {0, 1}

Block == 1 .. (NumGpuBlocks - 1)

NoHash == <<>>

\* FreeKVCacheBlockQueue: at first all blocks, in the order of their ids.
FreeQueue == [i \in Block |-> i]

\* The sequence without the blocks of S, the others in their order.
without(blocks, S) ==
    LET kept[i \in 0 .. Len(blocks)] ==
            IF i = 0 THEN <<>>
            ELSE IF blocks[i] \in S THEN kept[i - 1] ELSE Append(kept[i - 1], blocks[i])
    IN  kept[Len(blocks)]

\* Blocks that leave the queue from its middle.
queue_remove(free, S) == without(free, S)

append_n(free, blocks) == free \o blocks

InitPool(Hash) ==
    [free       |-> FreeQueue,
     ref_cnt    |-> [b \in Block |-> 0],
     block_hash |-> [b \in Block |-> NoHash],
     cache      |-> [h \in Hash |-> <<>>]]

get_num_free_blocks(pool) == Len(pool.free)

IsCached(pool, h) == pool.cache[h] # <<>>

\* The first block of the dict; only used when IsCached(pool, h).
get_one_block(pool, h) == Head(pool.cache[h])

\* BlockHashToBlockMap.insert for each of the hashes i \in full, which are distinct.
insert(cache, full, hashes, blocks) ==
    [h \in DOMAIN cache |->
        IF \E i \in full : hashes[i] = h
        THEN Append(cache[h], blocks[CHOOSE i \in full : hashes[i] = h])
        ELSE cache[h]]

\* BlockHashToBlockMap.pop for each block of S.
pop(cache, S) == [h \in DOMAIN cache |-> without(cache[h], S)]

\* Mutant: the block forgets its hash but stays listed in the hash map.
evict_keeps_map_entry(pool, S) ==
    [pool EXCEPT !.block_hash = [b \in Block |-> IF b \in S THEN NoHash ELSE @[b]]]

\* Drops the blocks of S from the prefix cache.  A block without a hash, or one
\* that the map does not list under its hash, is left as it is.
maybe_evict_cached_blocks(pool, S) ==
    LET evicted == {b \in S : /\ pool.block_hash[b] # NoHash
                              /\ Contains(pool.cache[pool.block_hash[b]], b)}
    IN  [pool EXCEPT
           !.block_hash = [b \in Block |-> IF b \in evicted THEN NoHash ELSE @[b]],
           !.cache = pop(@, evicted)]

\* The blocks get_new_blocks(pool, n) returns, for n <= get_num_free_blocks(pool).
new_blocks(pool, n) == SubSeq(pool.free, 1, n)

\* Mutant: a reallocated block stays in the prefix cache.
get_new_blocks_without_evict(pool, n) ==
    LET ret == ToSet(new_blocks(pool, n))
    IN  [pool EXCEPT
           !.free    = SubSeq(@, n + 1, Len(@)),
           !.ref_cnt = [b \in Block |-> IF b \in ret THEN @[b] + 1 ELSE @[b]]]

get_new_blocks(pool, n) ==
    LET ret == ToSet(new_blocks(pool, n))
        p   == maybe_evict_cached_blocks(pool, ret)
    IN  [p EXCEPT
           !.free    = SubSeq(@, n + 1, Len(@)),
           !.ref_cnt = [b \in Block |-> IF b \in ret THEN @[b] + 1 ELSE @[b]]]

\* Mutant: a hit block that waits in the free queue stays there.
touch_keeps_queue(pool, blocks) ==
    [pool EXCEPT !.ref_cnt =
        [b \in Block |-> IF b \in ToSet(blocks) THEN @[b] + 1 ELSE @[b]]]

\* Mutant: only blocks taken from the free queue get a reference.
touch_counts_once(pool, blocks) ==
    LET idle == {b \in ToSet(blocks) : pool.ref_cnt[b] = 0}
    IN  [pool EXCEPT
           !.free    = queue_remove(@, idle),
           !.ref_cnt = [b \in Block |-> IF b \in idle THEN 1 ELSE @[b]]]

touch(pool, blocks) ==
    LET hit == ToSet(blocks)
    IN  [pool EXCEPT
           !.free    = queue_remove(@, {b \in hit : pool.ref_cnt[b] = 0}),
           !.ref_cnt = [b \in Block |-> IF b \in hit THEN @[b] + 1 ELSE @[b]]]

\* First every count goes down, then the blocks that reached zero are appended
\* to the queue in the order given.
free_blocks(pool, ordered_blocks) ==
    LET freed == ToSet(ordered_blocks)
        ref   == [b \in Block |-> IF b \in freed THEN pool.ref_cnt[b] - 1
                                                 ELSE pool.ref_cnt[b]]
    IN  [pool EXCEPT
           !.ref_cnt = ref,
           !.free    = append_n(@, without(ordered_blocks, {b \in freed : ref[b] # 0}))]

\* Blocks num_cached + 1 .. num_full of a request become cached under their hashes.
cache_full_blocks(pool, blocks, num_cached, num_full, hashes) ==
    LET full == (num_cached + 1) .. num_full
    IN  [pool EXCEPT
           !.block_hash = [b \in Block |->
                IF \E i \in full : blocks[i] = b
                THEN hashes[CHOOSE i \in full : blocks[i] = b]
                ELSE @[b]],
           !.cache = insert(@, full, hashes, blocks)]

evict_blocks(pool, S) == maybe_evict_cached_blocks(pool, S)

\* Only the null block may still be in use.
can_reset_prefix_cache(pool) == NumGpuBlocks - get_num_free_blocks(pool) = 1

reset_prefix_cache(pool) ==
    [pool EXCEPT !.block_hash = [b \in Block |-> NoHash],
                 !.cache      = [h \in DOMAIN @ |-> <<>>]]
==============================================================================
