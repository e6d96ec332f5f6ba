---------------------------- MODULE KVCacheClient ----------------------------
(* KVCacheManager driven by an arbitrary scheduler.  Requests are scheduled,  *)
(* receive output, are preempted or finish in any order; the scheduler only   *)
(* keeps the calling conventions of vllm/v1/core/sched/scheduler.py: hits are *)
(* looked up for a request that holds nothing, a request is never given more  *)
(* tokens than it has (drafts included), and sampled output arrives when all  *)
(* its tokens are computed.                                                   *)
EXTENDS KVCacheManager

CONSTANTS PromptLen,     \* PromptLen[r]: request.num_prompt_tokens
          Lookahead,     \* num_lookahead_tokens
          MaxDraft,      \* most draft tokens scheduled with a request
          AllowEvict     \* whether workers may report invalid blocks

ASSUME KVCacheClientAssumption ==
    /\ PromptLen \in [Request -> Nat \ {0}]
    \* Longer prompts are rejected, and check_stop ends a request at max_model_len.
    /\ \A r \in Request : PromptLen[r] <= Len(Text[r]) /\ Len(Text[r]) <= MaxModelLen
    /\ Lookahead \in Nat /\ MaxDraft \in 0 .. Lookahead
    /\ AllowEvict \in BOOLEAN

VARIABLES kv,
          num_tokens,           \* request.num_tokens
          num_computed_tokens   \* request.num_computed_tokens

vars == <<kv, num_tokens, num_computed_tokens>>

Init == /\ kv = InitKV
        /\ num_tokens = PromptLen
        /\ num_computed_tokens = [r \in Request |-> 0]

\* The block table entries in use, as pairs of a request and an index; no table is longer
\* than there are blocks, so the indices are among the numbers of Block.
Slot == {s \in Request \X Block : s[2] <= Len(kv.req_to_blocks[s[1]])}

BlockAt(s) == kv.req_to_blocks[s[1]][s[2]]

-----------------------------------------------------------------------------
\* A waiting request is scheduled: prefix-cache lookup, then allocate_slots.
ScheduleWaiting(r, n) ==
    LET hit   == get_computed_blocks(kv, r, num_tokens[r])
        start == Len(hit) * BlockSize
    IN  /\ kv.req_to_blocks[r] = <<>>
        /\ n <= num_tokens[r] - start
        /\ can_allocate_slots(kv, r, 0, n, 0, hit)
        /\ kv' = allocate_slots(kv, r, num_tokens[r], 0, n, 0, hit)
        /\ num_computed_tokens' = [num_computed_tokens EXCEPT ![r] = start + n]
        /\ UNCHANGED num_tokens

\* A running request is scheduled for n more tokens, d of them drafts at most.
ScheduleRunning(r, n, d) ==
    LET computed == num_computed_tokens[r]
    IN  /\ kv.req_to_blocks[r] # <<>>
        /\ computed < num_tokens[r]
        /\ n <= num_tokens[r] + d - computed
        /\ computed + n < MaxModelLen
        /\ can_allocate_slots(kv, r, computed, n, Lookahead, <<>>)
        /\ kv' = allocate_slots(kv, r, num_tokens[r], computed, n, Lookahead, <<>>)
        /\ num_computed_tokens' = [num_computed_tokens EXCEPT ![r] = @ + n]
        /\ UNCHANGED num_tokens

\* The model's output for a request whose tokens are all computed: one sampled
\* token after the accepted drafts; the rejected drafts are uncomputed again.
Output(r, accepted) ==
    LET drafts == num_computed_tokens[r] - num_tokens[r]
    IN  /\ kv.req_to_blocks[r] # <<>>
        /\ accepted <= drafts
        /\ num_tokens[r] + accepted + 1 <= Len(Text[r])
        /\ num_tokens' = [num_tokens EXCEPT ![r] = @ + accepted + 1]
        /\ num_computed_tokens' =
              [num_computed_tokens EXCEPT ![r] = @ - (drafts - accepted)]
        /\ UNCHANGED kv

Preempt(r) ==
    /\ kv.req_to_blocks[r] # <<>>
    /\ kv' = free_request(kv, r)
    /\ num_computed_tokens' = [num_computed_tokens EXCEPT ![r] = 0]
    /\ UNCHANGED num_tokens

\* The request ends; its id then stands for a new request with the same prompt.
Finish(r) ==
    /\ num_tokens[r] # PromptLen[r] \/ kv.req_to_blocks[r] # <<>>
    /\ kv' = free_request(kv, r)
    /\ num_tokens' = [num_tokens EXCEPT ![r] = PromptLen[r]]
    /\ num_computed_tokens' = [num_computed_tokens EXCEPT ![r] = 0]

Evict(b) ==
    /\ AllowEvict
    /\ kv' = [kv EXCEPT !.pool = evict_blocks(@, {b})]
    /\ UNCHANGED <<num_tokens, num_computed_tokens>>

Reset ==
    /\ can_reset_prefix_cache(kv.pool)
    /\ kv' = [kv EXCEPT !.pool = reset_prefix_cache(@)]
    /\ UNCHANGED <<num_tokens, num_computed_tokens>>

Next ==
    \/ \E r \in Request :
          \/ \E n \in 1 .. Len(Text[r]) : ScheduleWaiting(r, n)
          \/ \E n \in 1 .. (Len(Text[r]) + MaxDraft), d \in 0 .. MaxDraft :
                ScheduleRunning(r, n, d)
          \/ \E accepted \in 0 .. MaxDraft : Output(r, accepted)
          \/ Preempt(r)
          \/ Finish(r)
    \/ \E b \in Block : Evict(b)
    \/ Reset

Spec == Init /\ [][Next]_vars

-----------------------------------------------------------------------------
TypeOK ==
    /\ kv.pool.free \in Seq(Block)
    /\ kv.pool.ref_cnt \in [Block -> 0 .. Cardinality(Request)]
    /\ kv.pool.block_hash \in [Block -> Hash \cup {NoHash}]
    /\ kv.pool.cache \in [Hash -> Seq(Block)]
    /\ kv.req_to_blocks \in [Request -> Seq(Block)]
    /\ kv.num_cached_block \in [Request -> Absent .. (NumGpuBlocks - 1)]
    /\ \A r \in Request : /\ num_tokens[r] \in 1 .. Len(Text[r])
                          /\ num_computed_tokens[r] \in 0 .. (num_tokens[r] + MaxDraft)

\* A block's reference count is the number of block-table entries that name it:
\* get_new_blocks, touch and free_blocks never lose or invent a reference.
RefCntExact ==
    \A b \in Block :
        kv.pool.ref_cnt[b] = Cardinality({s \in Slot : BlockAt(s) = b})

\* The free queue holds every unreferenced block exactly once and no other, so a
\* block handed out by get_new_blocks is in nobody's table and none is leaked.
FreeQueueExact ==
    /\ IsInjective(kv.pool.free)
    /\ ToSet(kv.pool.free) = {b \in Block : kv.pool.ref_cnt[b] = 0}

\* Block tables, reference counts and free queue always agree, whatever order
\* requests are scheduled, preempted, resumed and finished in.
Accounting == TypeOK /\ RefCntExact /\ FreeQueueExact

\* The hash map and the blocks' own hashes agree (BlockHashToBlockMap.pop relies
\* on it, see its TODO), no block is listed twice and none under two hashes.
HashMapCoherent ==
    \A h \in Hash :
        /\ IsInjective(kv.pool.cache[h])
        /\ ToSet(kv.pool.cache[h]) = {b \in Block : kv.pool.block_hash[b] = h}

\* What cache_full_blocks asserts of the blocks it is about to cache
\* (block_pool.py:263): blocks past num_cached_block carry no hash, and the ones
\* before it carry their own hash or were evicted.
HashOnlyWhenCached ==
    \A s \in Slot :
        LET h == kv.pool.block_hash[BlockAt(s)]
        IN  h # NoHash => /\ s[2] <= kv.num_cached_block[s[1]]
                          /\ h = block_hashes(s[1], s[2])

\* Hash map, blocks and block tables agree on what is cached.
HashesExact == HashMapCoherent /\ HashOnlyWhenCached

\* Only finalized tokens are cached: a block that a rejected draft token may
\* still overwrite never has a hash.
OnlyVerifiedCached ==
    \A r \in Request : kv.num_cached_block[r] * BlockSize <= num_tokens[r]

\* Every token counted as computed, and every lookahead slot, has a block.
ComputedTokensHaveSlots ==
    \A r \in Request :
        num_computed_tokens[r] <= Len(kv.req_to_blocks[r]) * BlockSize

\* The roundings of allocate_slots fit together: slots for all that is computed,
\* hashes for no more than is final.
TokensFit == OnlyVerifiedCached /\ ComputedTokensHaveSlots

\* "If a block hash is not in the cached_block_hash_to_id, the following block
\* hashes are not computed yet for sure" (find_longest_cache_hit): the cached
\* prefixes are closed under taking shorter prefixes, because tails are freed
\* first and a hit touches the whole run.  Holds while no worker reports
\* invalid blocks.
CacheIsPrefixClosed ==
    \A h \in Hash :
        IsCached(kv.pool, h) =>
            \A n \in 1 .. (Len(h) \div BlockSize) :
                IsCached(kv.pool, SubSeq(h, 1, n * BlockSize))

\* A step never takes the hash from a block that stays in use, and never gives a
\* block another hash without it passing through the free queue.
HashStableWhileInUse ==
    [][\A b \in Block :
          kv.pool.ref_cnt[b] > 0 /\ kv.pool.block_hash[b] # NoHash
             /\ kv'.pool.ref_cnt[b] > 0
          => kv'.pool.block_hash[b] = kv.pool.block_hash[b]]_vars

\* request.block_hashes of the complete text of each request.
AllBlockHashes ==
    [r \in Request |->
        [i \in 1 .. (Len(Text[r]) \div BlockSize) |-> block_hashes(r, i)]]

\* The code's free queue, hash map and token counts implement the abstract cache.
Abs == INSTANCE KVCache WITH
    BlockHash <- AllBlockHashes,
    MaxFull <- MaxModelLen,
    table  <- kv.req_to_blocks,
    cached <- [r \in Request |-> max(kv.num_cached_block[r], 0)],
    full   <- [r \in Request |-> num_tokens[r] \div BlockSize],
    hash   <- kv.pool.block_hash,
    ref    <- kv.pool.ref_cnt,
    free   <- ToSet(kv.pool.free)

\* Every step of the manager is a step of KVCache, or changes nothing there: the
\* LRU queue and the hash map only choose among what the abstract cache allows.
ImplementsKVCache == Abs!Spec
==============================================================================
