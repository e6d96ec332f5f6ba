# A TLA+ model of Yuan3.0-Ultra

The repository holds the inference and reinforcement-learning code of
Yuan3.0-Ultra. This directory models the parts of it in which several actors
have to agree: the serving core of the vLLM V1 fork under `vllm/` (scheduler, KV
cache, encoder cache, engine loop, KV offloading), the processes around it
(shared-memory queue, multiprocess executor, data-parallel engines), and the
pipeline schedules of the Megatron-LM copy used for training. TLC checks the
modules on small instances; TLAPS proves the core of the KV cache for every
instance.

Paths below are relative to `src/vllm/vllm/` unless they begin with `src/`.

## 1. Inventory

### What the repository contains

| part | where | state and operations | hard behaviour |
|---|---|---|---|
| block pool | `v1/core/block_pool.py`, `kv_cache_utils.py` | free queue in eviction order, reference counts, hash map; take, touch, free, cache, evict, reset | blocks shared by prefix, duplicates of one hash, a hit on a block that waits to be evicted |
| KV-cache manager | `v1/core/kv_cache_manager.py`, `kv_cache_coordinator.py`, `single_type_kv_cache_manager.py` | block tables, cached-block counts; lookup, `allocate_slots`, `free` | rounding to blocks with lookahead and drafts, admission that counts evictable hits |
| scheduler | `v1/core/sched/scheduler.py`, `request_queue.py`, `utils.py` | waiting and running queues, per-request counters; `schedule`, `update_from_output`, `finish_requests`, `reset_prefix_cache`, pause | preemption inside the scheduling loop, outputs of old batches, aborts in between |
| async scheduler | `v1/core/sched/async_scheduler.py` | output placeholders, discard flag | a request is scheduled again before its last token is known |
| engine core | `v1/engine/core.py` | batch queue, input and aborts queues; `step`, `step_with_batch_queue`, busy loop | several batches in flight, engine falling asleep, pausing |
| encoder cache | `v1/core/encoder_cache_manager.py`, `_try_schedule_encoder_inputs` | entries, references, freeable list, slot counters | references taken before the request is admitted, lazy eviction at the workers |
| model runner | `v1/worker/gpu/` (V2), `v1/worker/gpu_model_runner.py` (V1) | request states, encoder outputs, KV memory | only told of changes with the next batch |
| data-parallel engines | `v1/engine/core.py` (DPEngineCoreProc), `v1/engine/coordinator.py`, `core_client.py` | wave number, running flag and step counter per engine, the coordinator's and each client's view of them | requests racing with the end of a wave; an engine missing from a collective |
| front end | `v1/engine/async_llm.py`, `output_processor.py` | per-request output collectors | aborts, stop strings, slow consumers |
| executors | `v1/executor/*.py` | queue of futures, response queues, worker processes, monitor thread | answers without call ids; a worker dies with futures outstanding |
| shared-memory queue | `distributed/device_communicators/shm_broadcast.py` | ring of chunks with a written flag and one read flag per reader, notification socket | synchronisation by single bytes and fences; sleeping readers; shutdown |
| KV connectors | `distributed/kv_transfer/`, `v1/kv_offload/` | requests waiting for a load, offloaded blocks with their references, transfer jobs | copies that run while the scheduler preempts, aborts and evicts |
| structured output | `v1/structured_output/` | grammar futures | deferred sampling |
| models and kernels | `model_executor/`, `src/vllm/csrc/` | none that outlives a step | numerical |
| RL training | `src/rlhf/verl/` | trainers, rollout workers, agent loop, DAPO recipe | one-step-off-policy pipeline, weight updates against rollouts |
| training core | `src/rlhf/megatron-lm/` | pipeline schedules, layers, optimizers, checkpoints | untagged sends and receives of 1F1B schedules, waits on handles |
| older engine | `src/rlhf/vllm/` | an earlier copy of the same engine | as above |

How the serving parts interact. One engine thread runs the busy loop. Between
two steps it reads client requests from the input queue; in a step it calls
`schedule()`, which asks the KV-cache manager and the encoder cache for room and
preempts running requests when there is none, submits the batch to the executor,
and either goes on with another batch or waits for the oldest one, processes
aborts that arrived meanwhile and applies its output with
`update_from_output()`. The workers learn of finished requests, evicted encoder
outputs and block tables from the batch alone.

The engine process talks to its workers through two kinds of shared-memory
queues: one broadcasts calls to all workers, one per worker returns answers. A
monitor thread watches the worker processes. With data parallelism several
engine processes run their forward passes in step; a coordinator process numbers
the waves of activity and tells engines and clients when one starts or ends. With
an offloading connector, `schedule()` also asks a CPU cache for prefixes; the
worker copies blocks in both directions in the background and reports finished
copies with the output of a batch. The training side is separate: the ranks of a
pipeline run a fixed schedule of forward and backward passes and exchange
tensors with their neighbours.

The Yuan fork changes the scheduler in one place: without the `RAY_V2` executor
a batch may hold at most `ceil(max_num_seqs / stages)` requests, and at most
`ceil(running / stages)` running ones (scheduler.py 104-108, 368-371, 554-557).
The model has these caps (constant `StageCap`).

### What makes each part correct

- Block pool and manager: no block is used by two requests unless its content is
  a common prefix; counts and free queue agree with the block tables; a hash
  stands for what the block really holds; nothing leaks.
- Scheduler: every request is in exactly one queue; each client receives the
  tokens of successive positions once; every request finishes; a finished
  request is never touched again.
- Engine loop: the batch queue never overflows; the engine does not sleep while
  a worker still has something to forget.
- Encoder cache: slot counters are exact; an output a batch reads is present at
  the workers; nothing stays pinned for a request that does not run.
- Shared-memory queue: a broadcast queue; no reader loses, repeats or sees a torn
  message, a sleeping reader wakes up, a shutdown stops an idle reader.
- Executor: every answer goes to the call it belongs to, unless a call before it was
  given up; every call ends; the death of a worker reaches the engine.
- Data parallelism: all engines take part in every collective; every request ends;
  when there is nothing to do all engines pause, and clients learn of it.
- Offloading: a copy reads and writes blocks that nobody else reuses meanwhile;
  what the CPU cache says it holds it holds; every request and block is released.
- Pipeline: each receive gets the tensor of the microbatch and stage it is for;
  gradients are reduced after the last backward pass of a chunk; no deadlock.

The hazards behind these properties are listed in `PROJECT.json`, each at the
line where it bites.

## 2. Modules

```
BlockPool  <-- KVCacheManager <-- KVCacheClient  --(implements)--> KVCache <-- KVCache_proofs
                             <-- Scheduler
                             <-- KVOffloading <-- (OffloadingManager)
KVCacheManager <-- KVCacheManager_proofs <-- KVCacheClient_proofs (with KVCache_proofs as INSTANCE)
                                         <-- Scheduler_proofs
EncoderCacheManager <-- EncoderScheduling <-- EncoderScheduling_proofs
ShmRingBuffer --(implements)--> BroadcastQueue      ShmRingBuffer <-- ShmRingBuffer_proofs
MultiprocExecutor <-- MultiprocExecutor_proofs      DPWaves <-- DPWaves_proofs
PipelineP2P <-- PipelineSchedule
```

`BlockPool`, `KVCacheManager`, `EncoderCacheManager` and `OffloadingManager` are
operators on a value that holds a Python object's fields, under the source's method names; the
modules with variables compose them, so the same operators are checked alone
(`KVCacheClient`) and inside the scheduler (`Scheduler`).

**BlockPool.** `free` is the eviction queue as a sequence, `ref_cnt` and
`block_hash` are per block, `cache` maps a hash to the blocks that carry it in
insertion order (the union type of `BlockHashToBlockMap` and its inner dict). A
hash is modelled by the token prefix it commits to, so equal hashes mean equal
prefixes: the hash function is assumed free of collisions. The null block is
left out; full attention never puts it into a table.

**KVCacheManager.** One full-attention group. `can_allocate_slots` is the
condition under which `allocate_slots` does not return `None`; when it returns
`None` it has changed nothing (for full attention `remove_skipped_blocks` does
nothing). Tokens of a request are a prefix of the constant `Text[r]`.

**KVCacheClient.** The manager under the most general scheduler: any order of
scheduling, output with accepted and rejected drafts, preemption, finish, invalid
blocks (`Evict`) and reset that keeps the calling conventions of `schedule()`.
When a request finishes its id stands for a new request with the same prompt, so
runs go on for ever.

**KVCache.** The abstract specification: tables, counts, hashes and a *set* of
free blocks. Any unreferenced block may be evicted, any prefix may hit. It is
the contract of the manager, and what is proved about.

**Scheduler.** The loops of `schedule()` and `update_from_output()`, one action
per iteration, with `pc` for the place of the engine thread:

| action | code |
|---|---|
| `Add`, `Abort`, `set_pause_state`, `ResetRunning`, `ResetIdle` | client requests; `Abort` also between the return of a batch and its update |
| `BeginStep`, `DrainStep` | entry of `step_with_batch_queue` with and without work to schedule |
| `PickRunning` | the head of the running loop: skip, or take the request |
| `AllocateRunning`, `PreemptRunning` | the two outcomes of `allocate_slots` in the inner loop |
| `EndRunningLoop`, `AdmitWaiting`, `EndWaitingLoop` | the waiting loop |
| `Submit` | end of `schedule()`, `_update_after_schedule`, `execute_model` |
| `PopBatch`, `DropOutput`, `ApplyOutput`, `EndStep` | taking the oldest batch and updating its requests |

A sampled token is the position it was sampled for, which is what tells a lost,
repeated or swapped token apart. `data[b]` is the token prefix whose KV entries
the workers have written into block `b`; batches are executed in the order they
are submitted, so the writes of a batch take effect when it is submitted. A
request removed from `running` at the end of `update_from_output` is removed
here in the iteration that stops it: nothing reads the queue in between.

Which scheduler is configured (FCFS or priority, async or not, batches in flight,
stage caps) and what the environment may do (abort, stop, pause, reset) is the
variable `mode`, fixed at the start, so one run covers several configurations.

**EncoderCacheManager, EncoderScheduling.** The cache's methods, and how
`schedule()` uses them: a request is visited (references are taken, entries
evicted), then either placed, refused, or placed after preemptions. Running requests
come first, then waiting ones, in any order within each loop. The KV cache
is left open there: prefix hits and lack of blocks may happen at any time.
`cur.budget` is `new_encoder_compute_budget`: a request with inputs leaves that as the
budget (`scheduler.py` 530), so what a preemption during its allocation gave back
(line 483) is lost, and kept only when the request has no inputs. The
worker removes, encodes and reads in that order, as `v1/worker/gpu/mm/` has it
(`gpu_model_runner.py`, the older runner, does the same and has the same
"Encoder cache miss" assertion at line 2615). The items of
a request are sorted by position, as `input_processor.py` 322 makes them, and every
position of an item has an embedding, so items do not overlap and the branch for ranges
without embeddings does not arise. `num_embeds_to_schedule` is the number of slots of the
outputs chosen so far, which is why entries are charged as sets of slots (`Slots`). The
batch is a set, so `Submit` drops the references of its members in any order, where the
code follows the order of `num_scheduled_tokens`;
`disable_chunked_mm_input`, encoder-decoder models, the EAGLE shift and encoder
connectors are left out.

**BroadcastQueue, ShmRingBuffer.** The abstract queue: a message may be put
while every reader is at most `Slots` behind, and each reader takes the messages
in order. The ring has one action per access of a shared byte or buffer:
`acquire_write` (`ChunkBusy`, `AcquireWrite`, `Fill`, `ResetReadFlag`, `Publish`),
`SpinCondition` (`Spin`, `WakeUp`, `Notify`, `Cancel`), `acquire_read`
(`CheckReadFlag`, `CheckWrittenFlag`, `Copy`, `MarkRead`). The written flag is
cleared before and set after a write, and a reader's flag set after its copy; the
fences of the code make every access take effect in program order, so the model
is sequentially consistent. A message too large for a chunk goes over the socket
and the ring carries a mark (`SendLarge`, `RecvLarge`). The mapping to
`BroadcastQueue` takes a message as put when its flag is published, as got when
the reader has its object.

**MultiprocExecutor.** `rpc[w]` is what worker `w` has not yet dequeued,
`response[w]` its answers; each of these queues is a `ShmRingBuffer`, used here
by its abstraction. `futures` is the executor's queue of outstanding calls.
A call fails on a worker if its kind is in `FailingKinds`; `Timeout` is enabled
whenever a call with a deadline (`Deadlines`) finds the next queue empty, be the answer
lost or on its way. `result[c].got` has the answers a call has read, also when it
raised after reading some of them.
`FutureWrapper.result` and the blocking `collective_rpc` both read the oldest
outstanding answers first (`NextToRead`). `Execute` and `EnqueueOutput` are the
worker and its output thread (the latter only with `AsyncOutput`), `Crash`, `MonitorDetects` and `MonitorShutdown` the
death of a worker and the two halves of the monitor thread.

**DPWaves.** Channels are one queue per ZMQ socket: requests, start messages,
engine outputs, client messages and publications keep their order each, and
nothing is ordered between them. `Forward` and `AllReduce` are collectives: they
happen when every engine stands at one. A request takes `Steps` forward passes.

**OffloadingManager, KVOffloading.** The LRU manager of the CPU cache, and
`schedule()` with `OffloadingConnectorScheduler`, the worker side and its copies.
The composition uses `EngineCore.step` (one batch at a time) under FCFS, and an
offloaded block of the size of a GPU block. `gpu[b]` and `cpu[i]` are the token
prefixes the memory really holds; a copy reads and writes them when it completes
(`StoreCompletes`, `LoadCompletes`), any number of steps after its submission;
completions are considered around the worker's batch only, since the engine reads
and writes the memory nowhere else. `Warm` is what earlier requests left in the CPU cache. `AbortStoredLoads`
says whether a request that has been stored may be aborted while it is being loaded,
before that load has been reported (section 5).

**PipelineP2P, PipelineSchedule.** `communicate` posts up to four untagged
operations in the order of the code; NCCL is external and modelled by its rule
that operations on one communicator run in the order of posting. The schedule is
a program per rank, one action per stretch between two waits, so that every wait
can block. A tensor is its kind, microbatch and producing stage. All supported
switches (`batched`, `overlap`, `flush`, `forward_only`, `grad_sync`) are fields
of `cfg`; `Supported` has the combinations that the code and `arguments.py` allow.

## 3. Runs

| run | instance | what holds |
|---|---|---|
| `kv_cache` | 3 requests with common first blocks, 4 blocks of 2 tokens, one draft and one lookahead token | accounting, hashes, slots for tokens, prefix closure of the cache, no hash changes under a user |
| `kv_refines` | 2 requests, 3 blocks, with invalid-block eviction | every step is a step of `KVCache` or a stutter |
| `kv_abstract` | 2 requests sharing a first block, 4 symmetric blocks | the inductive invariant and its main parts |
| `scheduler` | 3 requests, 4 blocks, six configurations: one batch, two in flight with stage caps, async, each under FCFS and priority | tokens in order, KV data present (under FCFS), placeholders exact, queues and assertions, nothing happens to a finished request |
| `scheduler_live` | the same requests, queue of 2, stage caps, FCFS | every added request finishes |
| `encoder` | 3 requests over 3 images, 3 slots, FCFS | references and slots exact, no miss, workers mirror the manager |
| `shm_ring` | 2 readers, 2 chunks, 3 messages, any of them large, one reader may be shut down | no overwrite while reading, implements `BroadcastQueue`, delivery, shutdown |
| `executor` | 2 workers, 3 calls, 2 batches in flight, failing batches and utility calls, deadlines at any time, crashes | answers match calls, calls end, failures reach the engine |
| `dp_waves` | 2 engines, 1 client, 2 requests, agreement every second step, aborts | collectives match, pauses are known, requests end, engines pause |
| `offloading` | 3 requests, 4 GPU and 3 CPU blocks, warm CPU cache, aborts | copies own their blocks, reports are expected, both caches exact, every request is released |
| `pipeline` | 31 configurations with 2 and 3 ranks, up to 3 chunks and 6 microbatches | tensors match, gradient reduction in time, every rank finishes |
| `offload_abort` | `offloading` with the case of section 5 | the stated property is violated |

Two more configurations are kept beside the runs. TLC violates the invariant of each,
for the reasons of section 5: `MCEncoderPriority.cfg` (with `MCEncoder`: two requests
with one image under the priority policy, `NoEncoderCacheMiss`) and
`MCExecutorFailure.cfg` (with `MCExecutor`: utility calls fail, `FailureEndsTheSystem`).

**Bounds.** Blocks hold two tokens, the smallest size with a partial block. The
pool is always smaller than the requests together need, so that every run
preempts and evicts blocks that are still hashed; prompts share a first block, so
blocks are hit while used, while free, and after being cached twice. The token
budget (3) does not hold two prompts, so prefills are chunked. Two batches in
flight are the smallest pipeline in which a request's output arrives after a
later `schedule()`. A mode's `resets` bounds the calls of `reset_prefix_cache`.
In `kv_cache` eviction of invalid blocks is off, since evicting an inner block
breaks prefix closure on purpose. Three messages over two chunks wrap the ring
around with either reader behind; two readers are needed for a chunk that one has
read and the other not. Three calls with two batches in flight let a blocking call
meet two outstanding futures, drain one that fails or is given up, and read what it
left. `SyncEvery = 2` stands for
the 32 of the code: engines pause between two agreements, and both parities of
the counter matter; two requests let one race with the end of the wave that the
other started. Three CPU blocks make the LRU manager evict while loads pin
blocks. Three ranks with two chunks are the smallest pipeline with an inner rank
and wrap-around sends; five microbatches in groups of three have an uneven last
group. `MaxMessages`, `MaxCalls` and `MaxRequests` bound what the environment
starts.

**Deadlock.** Runs whose clients stop asking end in a state with nothing to do,
so they say `CHECK_DEADLOCK FALSE`: the engine waits for ever, the ring is read,
all ranks are done. There a liveness property excludes a stuck state. `kv_cache`,
`kv_refines`, `kv_abstract` and `encoder` check deadlock.

**Fairness.** `Scheduler`: weak fairness of `Engine`, the disjunction of all
engine steps: `run_busy_loop` never stops while `has_work()` holds, and a
submitted batch returns. Nothing is assumed of clients; the liveness run has no
aborts, pauses and resets, since a paused engine makes no progress by design.
Under the priority policy the property is one about a finite set of requests.
`ShmRingBuffer`: the writer and each reader keep running, and a shutdown is
followed by its cancel; nothing is assumed of a reader that spins, so delivery does
not rest on lucky polling. `MultiprocExecutor`: engine, workers and the
monitor run, deadlines pass; crashes need not happen. `DPWaves`: each process takes
steps; strong fairness of handling a queued message, since an engine drains its
input queue between two steps though each step disables it for a while.
`KVOffloading`: the engine steps while it has work, and a copy that can complete
again and again completes. `PipelineSchedule`: weak fairness of `Next` (some rank
or transfer moves).

**Mutants.** Next to the definitions there are mutated forms (marked `Mutant:`),
each a plausible mistake; `PROJECT.json` says which property catches it.

## 4. Proofs

`KVCache_proofs` proves, for any finite set of requests and any sets of blocks
and hashes,

- `Invariance`: `Spec => []IInv`;
- `TypeCorrect`, `BlocksIsolated` and `AccountingExact`: the parts a reader asks
  for.

Assumptions (`KVCacheAssumption`): the requests are finite (for cardinalities),
`NoHash` is no hash, and a hash determines the index of its block, which the
chained hashes of `hash_block_tokens` give.

The argument. `Isolation`, that two requests share a block only as the same
cached block of a common prefix, is not inductive alone. A hit adds a block of
another table: that it is at the same index there and cached there follows from
`HashOwn` (a block in a table carries the hash of its place or none). A new block
must be in nobody's table: that is `FreeExact`. `FreeExact` is kept by `Free` only
if a count of one means the last holder: `RefExact`, which in turn needs that a
request holds a block once, `TableInjective`. Blocks that get their hash at the
end of `Allocate` must be private: they lie past `num_cached_block`, where by
`HashOwn` and `CachedFits` no block of another request can be. So all seven
conjuncts are needed, and `IInv` is their conjunction. `AllocateIInv` and
`FreeIInv` carry the work, one step per conjunct; `GrownTable` describes the
table after an allocation, and `CountOneMore`/`CountOneLess` the cardinalities.

`KVCacheClient_proofs` carries this over to the operators that follow the code, for any
finite set of requests with any texts, any block size, number of blocks, lookahead
and number of drafts, with caching and EAGLE on or off:

- `InductiveInvariant`: `Spec => []Inv`;
- `CodeImplementsCache`: `KVCacheClient` implements `KVCache`;
- `BlocksAreAccountedFor`, `HashesAreExact` and `RoundingsFit`: `Accounting`,
  `HashesExact` and `TokensFit`;
- `PrefixesStayClosed` and `HashesAreStable`: `CacheIsPrefixClosed` and
  `HashStableWhileInUse`, if `~AllowEvict`. With invalid blocks both are false, since
  `evict_blocks` takes hashes from blocks in use and from the middle of a prefix.

Assumptions: the requests are finite, a prompt is not empty and no longer than its
text, a text no longer than `max_model_len`, at least one block besides the null block.

`Inv` has three parts. `Sound` is about one manager value: the queue has no block
twice and holds exactly the blocks with count zero, and the hash map agrees with the
blocks' own hashes. `Counters` ties the token counts to the tables. `K!IInv` is the
invariant of `KVCache` under the refinement mapping (the names ending in `Bar`); it
need not be proved again, since every step is shown to be a step of `KVCache`, whose
`NextIInv` then applies. What remains is that `allocate_slots` does what
`KVCache` allows: `EnoughFree` shows that the check in front of it, which counts the
blocks of the hit that must leave the queue, leaves enough blocks after `touch`, so
`get_new_blocks` does not run dry; `NeedFacts` and `DivMonotone` that the rounding up
of slots and the rounding down of full blocks fit; `LookupFacts` that a hit is a run
of distinct blocks that leaves a token to compute. The predicates `Extended`,
`Allocated`, `Freed` and `Rehashed` say what each call does to a manager.

`CacheIsPrefixClosed` is about the eviction order and needs `OrderInv`: besides `Inv`,
`HashesKept` (a cached place of a table keeps its hash) and `PrefixOutlives` (each
block of the prefix of a free cached block is in use, or is that block, or has another
copy behind it in the queue). `free_request` keeps it because it frees the tail first
and appends behind what is free already; `get_new_blocks` because it takes from the
front; `touch` because the blocks it takes out of the middle are in use afterwards.

`KVCacheManager_proofs` has the facts about the operators of the pool and the manager
these proofs rest on; the proofs about the scheduler share them.
What the recursive function inside `without` computes is shown without an induction
theorem that takes an operator: the set of indices where the claim fails would have a
least element (`LeastNat`, `GreatestNat`, from the well-foundedness of the order).

`kv_refines` and `kv_cache` check the same statements with TLC, and their mutants show
that mistakes in the code would break them.

`ShmRingBuffer_proofs` proves, for any number of readers, chunks and objects and
any choice of large ones,

- `InductiveInvariant`: `Spec => []IInv`;
- `ReadersAreNotOverwritten`: `NoOverwriteWhileReading`;
- `RingImplementsQueue`: the ring implements `BroadcastQueue`, step by step.

Assumption: there is at least one chunk. The argument. The code compares
flags and indices only; what makes it right is how they follow from two counts
that no variable holds, the messages written and those a reader has taken.
`Indices` says that an index is its count modulo the chunks, `Distance` that a
reader is less than a round and one message behind, so that equal indices mean
equal counts (`ModEq`) and a chunk belongs to one message. `RingExact` then gives
the flags and the contents of every chunk, `SocketExact` the large messages still
on the socket, `WriterPhase` and `ReaderPhase` what holds inside an access, when
the flags are half changed. `NoOverwriteWhileReading` alone is not inductive: the
writer enters a chunk because it saw all read flags, and that these flags are of the last
round and not of one before is `RingExact` with `Distance`.

`DPWaves_proofs` proves, for any number of engines, clients and requests,

- `InductiveInvariant`: `Spec => []IInv`;
- `EnginesStayTogether`: `EnginesAgree`;
- `PausesAreKnown`: `PauseIsKnown`, if `~AllowEarlyAbort` (section 5 has what
  happens otherwise).

`IInv` is `TypeOK`, `Rounds` (all engines are in the same forward pass; one that
waits in the all-reduce has counted a multiple of the interval, one that has gone on has
not) and `Waves` (one wave for all engines, and no message under way names a later
one). `PauseIsKnown` needs four further conjuncts, `Knowledge`: an engine that
asked for the current wave still runs, the end of a wave is known or on its way to the
coordinator, the coordinator believes in a running wave only if an engine runs or
will, and a client differs from the coordinator only while a publication or its
own first request is under way. Each is kept only with the help of the others.

`MultiprocExecutor_proofs` proves, for any number of workers and calls, with and
without output threads, whichever calls fail on a worker, whenever deadlines pass and
whichever workers die,

- `AnswersMatch`: `AnswersMatchCalls`. What a call reads is its own answers; it is never
  the answer to a later call, and one to an older call only after some call up to that
  older one was given up (`GaveUp`), that is refused, timed out, or failed on a rank
  before the last. Without such a call every answer is the right one.

The only assumption is `ExecutorAssumption`, the types of the constants. `IInv` says
which answers may be in the queues. `Owes(w, c)`: call `c` is open and the answer of
worker `w` to it has not been read; `Expected(w, c)`: it is owed or may be left over. The
answers in a worker's queues are in the order of the calls, each is expected, and no
owed answer is missing in front of one that has been sent (`Queues`); the call being
read is the least open one and has read or still awaits one answer of each rank
(`Futures`, `Waiting`, `Reading`). So the first answer in a queue is never that of a
later call, and if it is older, its call is not open any more and has not read it: then
that call, or one before it, was given up. That a call ended without being given up
implies that all its answers were read is why the invariant counts `got` and `ranks`.

`Scheduler_proofs` proves, for any requests, prompts, budgets, limits and numbers of
blocks, with both queue policies and with and without async scheduling,

- `IInvHolds`: `Spec => []IInv`;
- `WorkersForgetFinishedHolds`: `WorkersForgetFinished`, and `FinishedIsFinalHolds`:
  `FinishedIsFinal`, in every configuration;
- `QueuesMatchStatusHolds`, `TokensInOrderHolds`, `PlaceholdersMatchInFlightHolds`,
  `AssertionsHoldAlways`: `QueuesMatchStatus`, `TokensInOrder`,
  `PlaceholdersMatchInFlight` and `AssertionsHold`, in `Orderly` configurations;
- `CacheInvHolds`: `CacheInv`, the same;
- `DataInvHolds`, `ComputedIsMaterialisedHolds`, `CacheIsMaterialisedHolds`: `DataInv`
  (under FCFS), `ComputedIsMaterialised` and `CacheIsMaterialised`, the same.

`Orderly` is: at most two batches are in flight, and `reset_prefix_cache` does not preempt running
requests where there may be two. Every mode of `scheduler` is of this kind; with
more batches, or with such a reset between two of them, what is in flight for a request is not
determined by its counters. The assumptions are those of `SchedulerAssumption`: a
prompt leaves room for a token in `max_tokens` and `max_model_len` (the input
processor rejects others), the ranks of the priority queue are distinct (`Request.__lt__` falls
back on the request id), and each request fits into the cache alone.

`IInv` is `EngineInv`, and `TokenInv` if `Orderly`. `EngineInv` holds whatever the
configuration: `Queues` (one queue entry per live request, as its status says),
`Phase` and `Loop` (what the loops of `schedule()` keep between their steps: the batch
names each request once, and only running ones in front of `req_index`),
`Held` (only running requests have blocks; the workers know only requests that
are live or will be reported as finished). `TokenInv` counts: `Requests` relates computed tokens,
tokens, placeholders and the entries in flight of each request (`BoundsAt`, `OrderAt`,
`NumberedAt`, `SettledAt`), `Entries` and `Budget` the batch under construction. None is
inductive alone: that a token arrives for the position the client waits for needs that a
preempted request is only admitted again once what it had in flight has been applied
(`SettledAt`), and this needs to know which batch is applied next (`Draining`).

`CacheInv` is proved on top of `IInv`: `InOrder`, the tables are injective, a reference
count is the number of tables the block is in, cached blocks have the hash of the prefix of
each request that holds them, and a block is shared only as the same place of a common
prefix; and `HasSlots`, a running request has slots for the tokens it has computed and for those it
is scheduled for. With it, a reset that preempts all running requests leaves every block free, so
that the reset succeeds. `InOrder` is kept by any sequence of calls of the manager
(`AllocateInOrder`, `CacheInOrder`, `ResetInOrder`, `FreedInOrder`); `HasSlots` needs the
loops of the scheduler.

`DataInv` is about what the blocks contain. A block gets its hash when its slots are
taken, before the batch that fills it is submitted, so that another request of the same step may
hit it while it is empty. A block is `Awaited` while some request holds it at a place
whose tokens it has not all computed. `Filled` and `HashFilled`: a computed block, and a
block with a hash, contains its tokens or is awaited. `OneWriter`: two requests that share a
block do not both have to fill it. `CachedInTime`: the cached blocks of a request are
computed when the batch under construction has run. So nothing that is cached is awaited between
two steps. The step that could break this is a preemption: it would if the
victim were in the batch. Under FCFS it is not, because the victim is the last running
request and the loop has not reached it (`CurIsNext`, `VictimIsLast`); under the priority policy it may be, and
`CachedIsComputed` fails there.

`EncoderScheduling_proofs` proves, for any requests and items, any cache size and any
compute budget that fits each item,

- `ReferencesExactHolds`: the counters, the list of unreferenced entries and the
  references are exact, under both policies;
- `NoEncoderCacheMissHolds` and `WorkersMirrorManagerHolds`, under FCFS: the hypothesis
  `~PriorityPolicy` is needed, see section 5.

Assumptions (`EncoderCacheAssumption`, `EncoderSchedulingAssumption`): an item has at
least one embedding and fits the cache and the budget (`compute_mm_encoder_budget` raises
both to the largest item, `encoder_cache_manager.py` 309-314), and items are sorted and
disjoint.

The argument. `Sound` says of a manager what `ReferencesExact` says of the state, and that
a request only refers to items of its own, so that `free` leaves no reference. Each method
keeps it (`HitFacts`, `ReclaimFacts`, `AllocateFacts`, `FreeOneFacts`). Eviction only takes
unreferenced entries. So what must not be evicted must be referenced: `BatchSound` says
that a member of the batch refers to all it computes or reads, until the batch
goes out, and `CurSound` that the request in the KV allocation covers what it will
read, by a reference or by an output it computes, and has slots and budget for those. As
line 530 may lose budget, the budget and the outputs of the batch are bounded by the
compute budget together, and need not add up to it. That
`_try_schedule_encoder_inputs` gets there is the loop invariant `TryRoom` and `TryCover`
(`TryStep`): the items before the one that does not fit are covered, the later ones
are not reached, because items are sorted; and a visit that leaves no token has
changed nothing, or the references it took would stay with a request that is not admitted.
`Mirror` then relates the two caches: what the workers hold with what the batch will
compute is what the manager holds with what it evicted. An output that is evicted and
computed again in one step is in both parts, and survives because the workers remove before
they encode. Under the priority policy a preemption takes a member out of the
batch and `Mirror` fails.

The inductive invariants hold in TLC, too, on the instances of the runs.
Model-checked only are: all liveness (the prover does not handle fairness) and the
safety of `KVOffloading` and `PipelineSchedule`.

## 5. Disagreements between code and documentation

**`offload_abort`.** `request_finished` of the offloading connector promises that
blocks are not freed before the request is returned by `get_finished()`, and the
scheduler asserts that a reported request is known (`scheduler.py` 2042, 2051).
A request whose blocks were stored once keeps its key in `_reqs_being_stored`
(an empty set is not removed from the dictionary) and in the worker's
`_store_jobs`. If it is preempted, resumed by an asynchronous load and aborted
while that load runs, the worker reports `finished_sending` in the next step
because no store is left; the scheduler frees the blocks and forgets the request
while the load still writes into them, and the report of the load then fails the
assertion. The run `offloading` excludes just the abort between the start of such a
load and its report (`AbortStoredLoads`).

**`MCEncoderPriority.cfg`.** The model runner asserts that every encoder output a batch reads
is there ("Encoder cache miss", `encoder_runner.py` 122). Under the priority policy a
request that the step has already scheduled may be preempted; lines 473-483 of
`scheduler.py` take its encoder inputs out of the batch, and
`encoder_cache_manager.free` only drops the reference, so the hash stays cached although
no batch computes it. The configuration has the smallest case: `r1` is scheduled with an image, the
more urgent `r2` finds the image cached, has no room and preempts `r1`, and the batch goes
out with `r2` but without the image. `r1` meets the same miss when it is resumed. Since
`EncoderScheduling` leaves the order of visits open, it restricts `Next` to the
order the code has there (`UrgentSpec` in `MCEncoder`). This is why the properties about
the workers' cache are checked and proved under FCFS.

**`MCExecutorFailure.cfg`.** The comment at `multiproc_executor.py` 794-796 says that
the failure message of a worker "triggers system shutdown". A failed utility call does
not: `_invoke_utility_method` (`core.py` 1228) catches the exception and the engine goes
on. `get_response` has stopped at the first rank that failed, and the answers of the later
ranks stay in their queues. In TLC's behaviour rank 0 fails a utility call, rank 1 succeeds, and
the next batch returns rank 1's answer to the utility call as its own. Late answers after
a deadline have the same effect on calls that drain the queue before the engine stops.

The configurations of the passing runs stop short of some further cases, in which
the same properties fail. Each can be seen by changing the constants named:

- `CachedIsComputed`, the claim of `CacheIsMaterialised` without its condition on the
  policy, with `Modes <- PriorityModes`, `Text <- LongText`,
  `PromptLen <- LongPromptLen`, two requests, `NumGpuBlocks = 7`,
  `MaxModelLen = 12`, `MaxNumScheduledTokens = 5` and `LongPrefillThreshold = 3`: a
  request scheduled in this step is preempted in the same step, after
  `allocate_slots` has published the hashes of blocks that no batch will compute
  (`docs/design/prefix_caching.md` 143 says cached blocks have been computed). The
  two properties about KV data in `Scheduler` are therefore stated for FCFS.
- `TokensInOrder` with `Pipelined(3)`: a request whose token is in flight is
  preempted and resumed before the token is applied, and samples the position
  again; `docs/design/metrics.md` 216 says generated tokens are reused. With two
  batches in flight the output is always applied before the resumption.
- `TokensInOrder` with `Async` and resets: a forced reset marks every running
  request to discard its next token; if none is in flight a real token is dropped
  (comment at `scheduler.py` 1823). With `Pipelined(2)` and resets the token is
  appended twice, since only the async scheduler reads the mark.
- `EnginesPause` with `AllowEarlyAbort = TRUE`: the engine excluded from a start
  message "has already received a request with this wave number"
  (`coordinator.py` 403); if that request was aborted before the engine read it,
  the engine does not start with the others, which wait for it in the collective.

Interleaving on two ranks without overlap, which `arguments.py` 448 forbids, does
violate `TensorsMatch`; the restriction is needed.

## 6. Left out, and the plan

Not modelled, in the parts that are: LoRA limits, structured output, streaming
sessions, pooling, draft tokens in `Scheduler`, the EAGLE shift, failed loads and
invalid blocks, logging, metrics and KV events, sliding-window, Mamba and hybrid
caches; remote readers of a message queue and its zero-copy views; the Ray
executors; elastic scaling of data parallelism; offloaded blocks larger than GPU
blocks and the network connectors; `ring_exchange`, parameter gathering and
activation-checkpoint choices of the pipeline. Not modelled at all: models,
kernels and quantization (numerical), the front end (one event loop, little shared
state), verl (sequential drivers of remote calls), the older vLLM copy (an earlier
state of the same code). These are the bulk of the repository's lines.
`PROJECT.json` lists the parts with the reason for each.

Order of the work ahead:

1. Proofs: the safety of `KVOffloading` and of the pipeline schedules.
2. Draft tokens and the EAGLE shift in `Scheduler` and `EncoderScheduling`; invalid
   blocks; streaming sessions.
3. The linked list of `FreeKVCacheBlockQueue` as a refinement of the sequence;
   sliding-window managers with null blocks.
4. verl's one-step-off-policy pipeline.
