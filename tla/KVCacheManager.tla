--------------------------- MODULE KVCacheManager ---------------------------
(* KVCacheManager with one full-attention KV-cache group                      *)
(* (vllm/v1/core/kv_cache_manager.py, single_type_kv_cache_manager.py), as    *)
(* operators on a value kv with the fields                                    *)
(*                                                                            *)
(*   pool              the BlockPool                                          *)
(*   req_to_blocks     each request's block table, <<>> when it has none      *)
(*   num_cached_block  each request's count of cached blocks, Absent when the *)
(*                     dict has no such key                                   *)
(*                                                                            *)
(* A request's tokens are a prefix of the constant Text[r]: its prompt and    *)
(* then the tokens the model will sample for it.                              *)
EXTENDS BlockPool

CONSTANTS Request,       \* request ids
          Text,          \* Text[r]: all tokens request r can ever have
          BlockSize,
          MaxModelLen,
          EnableCaching, \* enable_caching
          UseEagle       \* use_eagle: drop the last block that hits

ASSUME KVCacheManagerAssumption == /\ IsFiniteSet(Request)
                                   /\ Text \in [Request -> Seq(Nat)]
                                   /\ BlockSize \in Nat \ {0}
                                   /\ MaxModelLen \in Nat \ {0}
                                   /\ EnableCaching \in BOOLEAN
                                   /\ UseEagle \in BOOLEAN

Absent == -1

cdiv(a, b) == (a + b - 1) \div b

max(a, b) == IF a >= b THEN a ELSE b

min(a, b) == IF a <= b THEN a ELSE b

\* request.block_hashes[i - 1]
block_hashes(r, i) == SubSeq(Text[r], 1, i * BlockSize)

Hash == UNION {{block_hashes(r, i) : i \in 1 .. (Len(Text[r]) \div BlockSize)} :
               r \in Request}

InitKV == [pool             |-> InitPool(Hash),
           req_to_blocks    |-> [r \in Request |-> <<>>],
           num_cached_block |-> [r \in Request |-> Absent]]

\* FullAttentionManager.find_longest_cache_hit: the blocks of the longest run of
\* hashes that are all in the cache.
find_longest_cache_hit(kv, r, max_length) ==
    LET hits == {n \in 0 .. (max_length \div BlockSize) :
                    \A i \in 1 .. n : IsCached(kv.pool, block_hashes(r, i))}
        longest == CHOOSE n \in hits : \A m \in hits : m <= n
        kept == IF UseEagle /\ longest > 0 THEN longest - 1 ELSE longest
    IN  [i \in 1 .. kept |-> get_one_block(kv.pool, block_hashes(r, i))]

\* The last token is always recomputed, to obtain logits.
get_computed_blocks(kv, r, num_tokens) ==
    IF EnableCaching THEN find_longest_cache_hit(kv, r, num_tokens - 1) ELSE <<>>

get_num_blocks_to_allocate(kv, r, num_tokens, new_computed) ==
    LET required == cdiv(num_tokens, BlockSize)
        held     == Len(kv.req_to_blocks[r])
        evictable == {i \in DOMAIN new_computed : kv.pool.ref_cnt[new_computed[i]] = 0}
    IN  IF kv.num_cached_block[r] # Absent
        THEN max(required - held, 0)
        ELSE max(required - (Len(new_computed) + held), 0) + Cardinality(evictable)

\* An empty hit is the shared empty_kv_cache_blocks, for which allocate_slots
\* does not make this call.
allocate_new_computed_blocks(kv, r, new_computed) ==
    IF new_computed = <<>> THEN kv
    ELSE [pool             |-> touch(kv.pool, new_computed),
          req_to_blocks    |-> [kv.req_to_blocks EXCEPT ![r] = @ \o new_computed],
          num_cached_block |-> [kv.num_cached_block EXCEPT ![r] = Len(new_computed)]]

allocate_new_blocks(kv, r, num_tokens) ==
    LET missing == cdiv(num_tokens, BlockSize) - Len(kv.req_to_blocks[r])
    IN  IF missing <= 0 THEN kv
        ELSE [kv EXCEPT
                !.pool = get_new_blocks(@, missing),
                !.req_to_blocks[r] = @ \o new_blocks(kv.pool, missing)]

cache_blocks(kv, r, num_tokens) ==
    LET num_cached == max(kv.num_cached_block[r], 0)
        num_full   == num_tokens \div BlockSize
    IN  IF num_cached >= num_full THEN kv
        ELSE [kv EXCEPT
                !.pool = cache_full_blocks(@, kv.req_to_blocks[r], num_cached,
                             num_full, [i \in 1 .. num_full |-> block_hashes(r, i)]),
                !.num_cached_block[r] = num_full]

total_computed_tokens(num_computed, new_computed) ==
    min(num_computed + Len(new_computed) * BlockSize, MaxModelLen)

num_tokens_need_slot(num_computed, num_new, lookahead, new_computed) ==
    min(total_computed_tokens(num_computed, new_computed) + num_new + lookahead,
        MaxModelLen)

\* allocate_slots returns None exactly when this is FALSE, and then changes nothing.
can_allocate_slots(kv, r, num_computed, num_new, lookahead, new_computed) ==
    get_num_blocks_to_allocate(kv, r,
        num_tokens_need_slot(num_computed, num_new, lookahead, new_computed),
        new_computed) <= get_num_free_blocks(kv.pool)

\* Mutant: draft tokens are cached too.
allocate_slots_with_drafts(kv, r, tokens, computed, new, lookahead, hit) ==
    LET kv1 == allocate_new_computed_blocks(kv, r, hit)
        kv2 == allocate_new_blocks(kv1, r, num_tokens_need_slot(computed, new, lookahead, hit))
    IN  cache_blocks(kv2, r, total_computed_tokens(computed, hit) + new)

\* Touch the hit blocks, take new ones for the tokens to compute and the
\* lookahead slots, and cache the blocks that finalized tokens fill.
allocate_slots(kv, r, num_tokens, num_computed, num_new, lookahead, new_computed) ==
    LET kv1 == allocate_new_computed_blocks(kv, r, new_computed)
        kv2 == allocate_new_blocks(kv1, r,
                   num_tokens_need_slot(num_computed, num_new, lookahead, new_computed))
        num_tokens_to_cache ==
            min(total_computed_tokens(num_computed, new_computed) + num_new, num_tokens)
    IN  IF EnableCaching THEN cache_blocks(kv2, r, num_tokens_to_cache) ELSE kv2

\* Mutant: frees the head of the table first.
free_head_first(kv, r) ==
    [pool             |-> free_blocks(kv.pool, kv.req_to_blocks[r]),
     req_to_blocks    |-> [kv.req_to_blocks EXCEPT ![r] = <<>>],
     num_cached_block |-> [kv.num_cached_block EXCEPT ![r] = Absent]]

\* Tail blocks first, so that they are evicted before their prefix.
free_request(kv, r) ==
    [pool             |-> free_blocks(kv.pool, Reverse(kv.req_to_blocks[r])),
     req_to_blocks    |-> [kv.req_to_blocks EXCEPT ![r] = <<>>],
     num_cached_block |-> [kv.num_cached_block EXCEPT ![r] = Absent]]
==============================================================================
