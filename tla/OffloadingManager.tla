-------------------------- MODULE OffloadingManager --------------------------
(* LRUOffloadingManager over a CPUBackend (vllm/v1/kv_offload/lru_manager.py   *)
(* and backends/cpu.py): which KV blocks are offloaded to CPU memory, as       *)
(* operators on a value m with the fields                                      *)
(*                                                                             *)
(*   blocks     the OrderedDict, least recently used first: records with the   *)
(*              hash, its ref_cnt (-1: not ready, a store still writes it) and *)
(*              the id of the CPU block                                        *)
(*   allocated  num_allocated_blocks                                           *)
(*   free_list  allocated_blocks_free_list                                     *)
EXTENDS Integers, Sequences, FiniteSets, SequencesExt

CONSTANT NumCpuBlocks    \* num_blocks of the backend

ASSUME NumCpuBlocksAssumption == NumCpuBlocks \in Nat \ {0}

CpuBlock == 1 .. NumCpuBlocks

\* A manager whose first blocks hold the hashes of warm, stored by earlier requests.
InitManager(warm) ==
    [blocks    |-> [i \in DOMAIN warm |-> [hash |-> warm[i], ref_cnt |-> 0, id |-> i]],
     allocated |-> Len(warm),
     free_list |-> <<>>]

Offloaded(m) == {m.blocks[i].hash : i \in DOMAIN m.blocks}

Entry(m, h) == m.blocks[CHOOSE i \in DOMAIN m.blocks : m.blocks[i].hash = h]

is_ready(m, h) == h \in Offloaded(m) /\ Entry(m, h).ref_cnt >= 0

\* How many of the hashes, from the first on, can be loaded.
lookup(m, hashes) ==
    LET hits == {n \in 0 .. Len(hashes) : \A i \in 1 .. n : is_ready(m, hashes[i])}
    IN  CHOOSE n \in hits : \A k \in hits : k <= n

\* ref_cnt of the hashes in S goes up by d.
AddRef(m, S, d) ==
    [m EXCEPT !.blocks = [i \in DOMAIN @ |->
        IF @[i].hash \in S THEN [@[i] EXCEPT !.ref_cnt = @ + d] ELSE @[i]]]

prepare_load(m, S) == AddRef(m, S, 1)

complete_load(m, S) == AddRef(m, S, -1)

\* What is not ready yet becomes ready.
complete_store(m, S) == AddRef(m, {h \in S : ~is_ready(m, h)}, 1)

move_to_end(m, h) ==
    IF h \notin Offloaded(m) THEN m
    ELSE [m EXCEPT !.blocks = Append(SelectSeq(@, LAMBDA e : e.hash # h), Entry(m, h))]

\* Last hash first, so that the first becomes the most recently used.
touch_offloaded(m, hashes) ==
    FoldLeft(LAMBDA acc, h : move_to_end(acc, h), m, Reverse(hashes))

num_free_cpu_blocks(m) == Len(m.free_list) + NumCpuBlocks - m.allocated

hashes_to_store(m, hashes) == SelectSeq(hashes, LAMBDA h : h \notin Offloaded(m))

evictable(m) == SelectSeq(m.blocks, LAMBDA e : e.ref_cnt = 0)

num_blocks_to_evict(m, hashes) ==
    Len(hashes_to_store(m, hashes)) - num_free_cpu_blocks(m)

\* prepare_store returns None exactly when this is FALSE, and then changes nothing.
can_prepare_store(m, hashes) == num_blocks_to_evict(m, hashes) <= Len(evictable(m))

\* Evict the oldest blocks that nobody loads, allocate fresh CPU blocks before
\* reused ones (the last freed first), and list the new hashes as not ready.
prepare_store(m, hashes) ==
    LET to_store == hashes_to_store(m, hashes)
        surplus  == num_blocks_to_evict(m, hashes)
        victims  == SubSeq(evictable(m), 1, IF surplus > 0 THEN surplus ELSE 0)
        freed    == m.free_list \o [i \in DOMAIN victims |-> victims[i].id]
        unused   == NumCpuBlocks - m.allocated
        fresh    == IF Len(to_store) <= unused THEN Len(to_store) ELSE unused
        id(i)    == IF i <= fresh THEN m.allocated + i
                    ELSE freed[Len(freed) + 1 - (i - fresh)]
    IN  [blocks    |-> SelectSeq(m.blocks, LAMBDA e : ~Contains(victims, e))
                          \o [i \in DOMAIN to_store |->
                                [hash |-> to_store[i], ref_cnt |-> -1, id |-> id(i)]],
         allocated |-> m.allocated + fresh,
         free_list |-> SubSeq(freed, 1, Len(freed) - (Len(to_store) - fresh))]
==============================================================================
