------------------------- MODULE EncoderCacheManager -------------------------
(* The cache of multimodal encoder outputs                                    *)
(* (vllm/v1/core/encoder_cache_manager.py) as operators on a value em:        *)
(*                                                                            *)
(*   cached              the keys of the dict cached                          *)
(*   refs                cached[mm_hash], {} for a hash that is no key        *)
(*   freeable            the OrderedDict of unreferenced entries, oldest first*)
(*   freed               evicted hashes the workers have not been told of     *)
(*   num_free_slots, num_freeable_slots                                       *)
EXTENDS Integers, Sequences, FiniteSets, SequencesExt

CONSTANTS Request, MmHash,
          Embeds,       \* Embeds[h]: how many embeddings the item has
          Items,        \* Items[r]: request.mm_features, as records with the
                        \* fields hash, start and len
          CacheSize     \* cache_size

ASSUME EncoderCacheAssumption ==
    /\ CacheSize \in Nat
    /\ Embeds \in [MmHash -> 1 .. CacheSize]
    /\ Items \in [Request -> Seq([hash : MmHash, start : Nat, len : Nat \ {0}])]

EmptyEncoderCache ==
    [cached |-> {}, refs |-> [h \in MmHash |-> {}], freeable |-> <<>>, freed |-> {},
     num_free_slots |-> CacheSize, num_freeable_slots |-> CacheSize]

\* Each entry takes as many slots as it has embeddings.
Slots(hashes) == {s \in hashes \X (1 .. CacheSize) : s[2] <= Embeds[s[1]]}

TotalEmbeds(hashes) == Cardinality(Slots(hashes))

\* Mutant: a hit is not recorded as a reference.
hit_without_reference(em, r, h) == em

\* check_and_update_cache when h is cached: r refers to it from now on.
check_and_update_cache(em, r, h) ==
    IF em.refs[h] # {} THEN [em EXCEPT !.refs[h] = @ \cup {r}]
    ELSE [em EXCEPT !.refs[h] = {r},
                    !.freeable = RemoveFirst(@, h),
                    !.num_freeable_slots = @ - Embeds[h]]

can_allocate(em, h, compute_budget, to_schedule) ==
    /\ Embeds[h] <= compute_budget
    /\ \/ Embeds[h] + to_schedule <= em.num_free_slots
       \/ Embeds[h] + to_schedule <= em.num_freeable_slots

\* How many of the oldest unreferenced entries must go until need embeddings fit.
num_to_evict(em, need) ==
    LET enough == {k \in 0 .. Len(em.freeable) :
                     need <= em.num_free_slots
                                + TotalEmbeds(ToSet(SubSeq(em.freeable, 1, k)))}
    IN  CHOOSE k \in enough : \A j \in enough : k <= j

\* Mutant: the workers are not told what was evicted.
reclaim_silently(em, need) ==
    LET k == num_to_evict(em, need)
        evicted == ToSet(SubSeq(em.freeable, 1, k))
    IN  [em EXCEPT !.cached = @ \ evicted,
                   !.freeable = SubSeq(@, k + 1, Len(@)),
                   !.num_free_slots = @ + TotalEmbeds(evicted)]

\* What can_allocate evicts when it succeeds.
reclaim(em, need) ==
    LET k == num_to_evict(em, need)
        evicted == ToSet(SubSeq(em.freeable, 1, k))
    IN  [em EXCEPT !.cached = @ \ evicted,
                   !.freeable = SubSeq(@, k + 1, Len(@)),
                   !.freed = @ \cup evicted,
                   !.num_free_slots = @ + TotalEmbeds(evicted)]

\* allocate for each of the hashes.
allocate(em, r, hashes) ==
    [em EXCEPT !.cached = @ \cup hashes,
               !.refs = [h \in MmHash |-> IF h \in hashes THEN @[h] \cup {r} ELSE @[h]],
               !.num_free_slots = @ - TotalEmbeds(hashes),
               !.num_freeable_slots = @ - TotalEmbeds(hashes)]

\* The reference of r to h is dropped; the last one makes the entry freeable.
free_encoder_input(em, r, h) ==
    IF em.refs[h] = {} THEN em
    ELSE IF em.refs[h] \ {r} # {} THEN [em EXCEPT !.refs[h] = @ \ {r}]
    ELSE [em EXCEPT !.refs[h] = {},
                    !.freeable = Append(@, h),
                    !.num_freeable_slots = @ + Embeds[h]]

\* The references of r to its items with these indices, one after the other.
free_inputs(em, r, ids) ==
    LET after[i \in 0 .. Len(Items[r])] ==
            IF i = 0 THEN em
            ELSE IF i \in ids THEN free_encoder_input(after[i - 1], r, Items[r][i].hash)
            ELSE after[i - 1]
    IN  after[Len(Items[r])]

\* The items of r up to the decoder token done, whose references are dropped.
free_items(em, r, done) ==
    free_inputs(em, r, {i \in DOMAIN Items[r] : Items[r][i].start + Items[r][i].len <= done})

free(em, r) == free_inputs(em, r, DOMAIN Items[r])
==============================================================================
