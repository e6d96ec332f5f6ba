-------------------------- MODULE EncoderScheduling --------------------------
(* How the scheduler (vllm/v1/core/sched/scheduler.py) uses the encoder cache *)
(* and what the workers' own cache of encoder outputs then holds              *)
(* (vllm/v1/worker/gpu/mm/encoder_cache.py and encoder_runner.py).            *)
(*                                                                            *)
(* schedule() visits running requests first and then, unless it preempted one,*)
(* waiting ones.  The order within each loop and the state of the KV cache are*)
(* left open: prefix-cache hits, refusals and preemptions for lack of KV      *)
(* blocks may happen wherever the code asks.                                  *)
(* The items of a request are listed by position (input_processor.py:322) and *)
(* every position of an item has an embedding, so they do not overlap.        *)
EXTENDS EncoderCacheManager

CONSTANTS PromptLen,        \* PromptLen[r]: tokens of the request
          MaxChunk,         \* most tokens of one request in one step
          ComputeBudget,    \* max_num_encoder_input_tokens
          PrefixHits,       \* whether the KV prefix cache may hit
          PriorityPolicy    \* policy == SchedulingPolicy.PRIORITY

ASSUME EncoderSchedulingAssumption ==
    /\ {MaxChunk, ComputeBudget} \subseteq Nat \ {0}
    /\ {PrefixHits, PriorityPolicy} \subseteq BOOLEAN
    /\ \A h \in MmHash : Embeds[h] <= ComputeBudget
    /\ PromptLen \in [Request -> Nat] /\ "none" \notin Request
    /\ \A r \in Request : \A i, j \in DOMAIN Items[r] :
          i < j => Items[r][i].start + Items[r][i].len <= Items[r][j].start

VARIABLES em,         \* self.encoder_cache_manager
          running,    \* the requests in self.running
          computed,   \* request.num_computed_tokens
          pc,         \* "idle", in the loop over the "running" or the "waiting"
                      \* requests, "place": allocating for cur, or "end"
          budget,     \* encoder_compute_budget
          batch,      \* what is scheduled so far: records req, n, inputs
          preempted,  \* whether this step has preempted a request
          cur,        \* the request being scheduled: like the members of batch,
                      \* with the new_encoder_compute_budget of its try
          worker,     \* the keys of the model runner's encoder_cache
          gathered    \* the hashes the last batch read from it

vars == <<em, running, computed, pc, budget, batch, preempted, cur, worker, gathered>>

NoCur == [req |-> "none", n |-> 0, inputs |-> {}, budget |-> 0]

Init ==
    /\ em = EmptyEncoderCache
    /\ running = {} /\ computed = [r \in Request |-> 0]
    /\ pc = "idle" /\ budget = ComputeBudget /\ batch = {} /\ preempted = FALSE
    /\ cur = NoCur /\ worker = {} /\ gathered = {}

Scheduled == {e.req : e \in batch}

-----------------------------------------------------------------------------
\* One item of _try_schedule_encoder_inputs for the tokens start .. start+acc.n-1.
TryItem(r, start, acc, item) ==
    LET h == item.hash
        scheduled == TotalEmbeds(acc.inputs)
    IN  IF acc.stop \/ item.start >= start + acc.n THEN [acc EXCEPT !.stop = TRUE]
        ELSE IF item.start + item.len <= start \/ h \in acc.inputs THEN acc
        ELSE IF h \in acc.em.cached
        THEN [acc EXCEPT !.em = check_and_update_cache(@, r, h)]
        ELSE IF can_allocate(acc.em, h, acc.budget, scheduled)
        THEN [acc EXCEPT !.em = reclaim(@, Embeds[h] + scheduled),
                         !.inputs = @ \cup {h},
                         !.budget = @ - Embeds[h]]
        ELSE [acc EXCEPT !.stop = TRUE,
                         !.n = IF start < item.start THEN item.start - start ELSE 0]

\* Which encoder inputs to compute for n tokens of r from start, and how many
\* tokens that leaves.
try_schedule_encoder_inputs(r, start, n) ==
    LET after[i \in 0 .. Len(Items[r])] ==
            IF i = 0
            THEN [em |-> em, inputs |-> {}, n |-> n, budget |-> budget, stop |-> FALSE]
            ELSE TryItem(r, start, after[i - 1], Items[r][i])
    IN  after[Len(Items[r])]

\* A request is visited for n tokens.  When none can be scheduled now, a running
\* request is passed over and a waiting one ends the loop.
Visit(r, start, n) ==
    LET try == try_schedule_encoder_inputs(r, start, n)
    IN  /\ r \notin Scheduled
        /\ n \in 1 .. (PromptLen[r] - start)
        /\ em' = try.em
        /\ cur' = IF try.n = 0 THEN NoCur
                  ELSE [req |-> r, n |-> try.n, inputs |-> try.inputs, budget |-> try.budget]
        /\ pc' = IF try.n # 0 THEN "place" ELSE IF r \in running THEN "running" ELSE "end"
        /\ computed' = [computed EXCEPT ![r] = start]
        /\ UNCHANGED <<running, budget, batch, preempted, worker, gathered>>

VisitRunning(r, n) ==
    /\ pc \in {"idle", "running"}
    /\ r \in running
    /\ Visit(r, computed[r], n)

VisitWaiting(r, hit, n) ==
    /\ pc \in {"idle", "running", "waiting"}
    /\ r \notin running /\ ~preempted
    /\ hit = 0 \/ PrefixHits
    /\ Visit(r, hit, n)

\* allocate_slots succeeds: the request joins the batch.  A request with inputs
\* leaves the budget its try computed, before any preemption gave some back.
Place ==
    /\ pc = "place"
    /\ em' = allocate(em, cur.req, cur.inputs)
    /\ running' = running \cup {cur.req}
    /\ batch' = batch \cup {[req |-> cur.req, n |-> cur.n, inputs |-> cur.inputs]}
    /\ budget' = IF cur.inputs = {} THEN budget ELSE cur.budget
    /\ pc' = IF cur.req \in running THEN "running" ELSE "waiting"
    /\ cur' = NoCur
    /\ UNCHANGED <<computed, preempted, worker, gathered>>

\* Mutant: a waiting request that does not fit keeps what it refers to.
RefuseWaitingPinned ==
    /\ pc = "place" /\ cur.req \notin running
    /\ computed' = [computed EXCEPT ![cur.req] = 0]
    /\ cur' = NoCur /\ pc' = "end"
    /\ UNCHANGED <<em, running, budget, batch, preempted, worker, gathered>>

\* allocate_slots fails for a waiting request: it is untouched again,
\* and the loop ends.
RefuseWaiting ==
    /\ pc = "place" /\ cur.req \notin running
    /\ em' = free(em, cur.req)
    /\ computed' = [computed EXCEPT ![cur.req] = 0]
    /\ cur' = NoCur /\ pc' = "end"
    /\ UNCHANGED <<running, budget, batch, preempted, worker, gathered>>

\* allocate_slots fails for a running request: v is preempted.  Under FCFS v is
\* the last running request, which is not scheduled yet; under the priority
\* policy it may be, and then leaves the batch.
Preempt(v) ==
    LET mine == {e \in batch : e.req = v}
    IN  /\ pc = "place" /\ cur.req \in running
        /\ v \in running
        /\ v \in Scheduled => PriorityPolicy
        /\ em' = free(em, v)
        /\ running' = running \ {v}
        /\ computed' = [computed EXCEPT ![v] = 0]
        /\ batch' = batch \ mine
        /\ budget' = budget + TotalEmbeds(UNION {e.inputs : e \in mine})
        /\ preempted' = TRUE
        /\ IF v = cur.req THEN cur' = NoCur /\ pc' = "end" ELSE UNCHANGED <<cur, pc>>
        /\ UNCHANGED <<worker, gathered>>

\* The hashes gather_mm_embeddings reads for e.
Gathers(e) ==
    {Items[e.req][i].hash : i \in {j \in DOMAIN Items[e.req] :
        LET item == Items[e.req][j]
        IN  /\ item.start < computed[e.req] + e.n
            /\ item.start + item.len > computed[e.req]}}

\* The model runner's encoder_cache after it removed what it was told to and
\* encoded the inputs of the batch.
WorkerOutputs == (worker \ em.freed) \cup UNION {e.inputs : e \in batch}

\* _free_encoder_inputs for the members of the batch, in this order.
FreeComputed(order, counts) ==
    LET after[k \in 0 .. Len(order)] ==
            IF k = 0 THEN em
            ELSE free_items(after[k - 1], order[k].req, counts[order[k].req])
    IN  after[Len(order)]

Counts ==
    [r \in Request |-> IF r \in Scheduled
                        THEN computed[r] + (CHOOSE e \in batch : e.req = r).n
                        ELSE computed[r]]

\* The end of schedule(): the freed hashes go out with the batch, computed items
\* are dropped, and the workers remove, encode and read in this order.
Submit ==
    /\ pc # "place"
    /\ computed' = Counts
    /\ \E order \in SetToSeqs(batch) :
          em' = [FreeComputed(order, Counts) EXCEPT !.freed = {}]
    /\ worker' = WorkerOutputs
    /\ gathered' = UNION {Gathers(e) : e \in batch}
    /\ batch' = {} /\ budget' = ComputeBudget /\ preempted' = FALSE /\ pc' = "idle"
    /\ UNCHANGED <<running, cur>>

\* Between two steps a request finishes or is aborted; its id then stands for a
\* new request with the same items.
Finish(r) ==
    /\ pc = "idle"
    /\ r \in running
    /\ em' = free(em, r)
    /\ running' = running \ {r}
    /\ computed' = [computed EXCEPT ![r] = 0]
    /\ UNCHANGED <<pc, budget, batch, preempted, cur, worker, gathered>>

\* EngineCore.reset_encoder_cache clears the manager and the workers' caches.
reset_encoder_cache ==
    /\ pc = "idle"
    /\ em' = EmptyEncoderCache
    /\ worker' = {} /\ gathered' = {}
    /\ UNCHANGED <<running, computed, pc, budget, batch, preempted, cur>>

Next ==
    \/ \E r \in Request :
          \/ \E n \in 1 .. MaxChunk :
                \/ VisitRunning(r, n)
                \/ \E hit \in 0 .. (PromptLen[r] - 1) : VisitWaiting(r, hit, n)
          \/ Preempt(r)
          \/ Finish(r)
    \/ Place \/ RefuseWaiting
    \/ Submit
    \/ reset_encoder_cache

Spec == Init /\ [][Next]_vars

-----------------------------------------------------------------------------
TypeOK ==
    /\ em.cached \subseteq MmHash /\ em.freed \subseteq MmHash
    /\ em.refs \in [MmHash -> SUBSET Request]
    /\ em.freeable \in Seq(MmHash)
    /\ em.num_free_slots \in 0 .. CacheSize
    /\ em.num_freeable_slots \in 0 .. CacheSize
    /\ running \subseteq Request
    /\ \A r \in Request : computed[r] \in 0 .. PromptLen[r]
    /\ budget \in 0 .. ComputeBudget

\* The slot counters are exact: every entry is charged once, and what nobody
\* refers to, and nothing else, counts as freeable and is listed once.
SlotsExact ==
    /\ em.num_free_slots = CacheSize - TotalEmbeds(em.cached)
    /\ em.num_freeable_slots = em.num_free_slots + TotalEmbeds(ToSet(em.freeable))
    /\ IsInjective(em.freeable)
    /\ ToSet(em.freeable) = {h \in em.cached : em.refs[h] = {}}

\* Only requests that run, or that are being scheduled, hold references: nothing
\* stays pinned by a request that was preempted, refused or finished.
OnlyRunningRefer ==
    \A h \in MmHash : em.refs[h] \subseteq running \cup {cur.req}

\* What the manager believes of its slots and of who needs them is true.
ReferencesExact == TypeOK /\ SlotsExact /\ OnlyRunningRefer

\* "Encoder cache miss" (encoder_runner.py:122): every encoder output a batch
\* reads has been computed and not been removed again.
NoEncoderCacheMiss == gathered \subseteq worker

\* Between two steps the workers hold exactly the outputs the manager believes
\* cached, so their memory is bounded by cache_size.
WorkersMirrorManager ==
    pc = "idle" => worker = em.cached \cup em.freed
==============================================================================
