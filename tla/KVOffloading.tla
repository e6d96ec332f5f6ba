---------------------------- MODULE KVOffloading ----------------------------
(* The scheduler with an asynchronous KV connector, composed with the          *)
(* OffloadingConnector that moves KV blocks between GPU and CPU memory         *)
(* (vllm/v1/core/sched/scheduler.py, .../kv_connector/v1/                      *)
(* offloading_connector.py and vllm/v1/kv_offload/).                           *)
(*                                                                             *)
(* A request whose prefix is offloaded gets blocks and waits in the state      *)
(* WAITING_FOR_REMOTE_KVS while a transfer fills them; a running request's     *)
(* full blocks are copied to the CPU behind its back.  Blocks must therefore   *)
(* outlive the request that is aborted, finished or preempted meanwhile.       *)
(*                                                                             *)
(* FCFS, one batch at a time (EngineCore.step), offloaded_block_size equal to  *)
(* the GPU block size.  As in Scheduler, the loops of schedule() are one       *)
(* action per iteration.  A transfer copies its blocks when it completes; the  *)
(* transfers of one direction complete in the order they were submitted.       *)
(* Completion matters to nobody but the worker, so it is only considered while *)
(* the worker is about to run a batch or is running one.                       *)
EXTENDS KVCacheManager, OffloadingManager

CONSTANTS PromptLen,             \* PromptLen[r]: request.num_prompt_tokens
          MaxNumRunningReqs,     \* max_num_running_reqs
          MaxNumScheduledTokens, \* max_num_scheduled_tokens
          Warm,                  \* hashes that are offloaded at the start, oldest first
          AllowAbort,
          AbortStoredLoads       \* also abort a loading request that was stored before

ASSUME KVOffloadingAssumption ==
    /\ \A r \in Request : /\ PromptLen[r] \in 1 .. (Len(Text[r]) - 1)
                          /\ cdiv(Len(Text[r]), BlockSize) < NumGpuBlocks
    /\ {MaxNumRunningReqs, MaxNumScheduledTokens} \subseteq Nat \ {0}
    /\ ToSet(Warm) \subseteq Hash /\ Len(Warm) <= NumCpuBlocks
    /\ EnableCaching

VARIABLES
    status,           \* request.status, "NEW" before add_request
    num_tokens,       \* request.num_tokens
    num_computed,     \* request.num_computed_tokens
    preempted_once,   \* request.num_preemptions > 0
    requests,         \* keys of self.requests
    waiting, running, \* self.waiting, self.running
    kv,               \* self.kv_cache_manager
    finished_ids,     \* self.finished_req_ids
    finished_recving, \* self.finished_recving_kv_req_ids
    pc,               \* where the engine thread is
    step,             \* local variables of schedule() and the SchedulerOutput
    out,              \* ModelRunnerOutput, as far as it is not yet applied
    conn,             \* OffloadingConnectorScheduler
    worker,           \* OffloadingConnectorWorker and its two handlers
    gpu, cpu          \* the contents of GPU and CPU blocks

reqVars == <<status, num_tokens, num_computed, preempted_once, requests>>
queueVars == <<waiting, running>>
idVars == <<finished_ids, finished_recving>>
dataVars == <<gpu, cpu>>
vars == <<reqVars, queueVars, kv, idVars, pc, step, out, conn, worker, dataVars>>

None == "none"

IdleStep == [req_index |-> 0, token_budget |-> 0, cur |-> None, num_new |-> 0,
             scheduled |-> <<>>, new |-> {}, skipped |-> <<>>, preempted |-> {},
             reqs_to_load |-> <<>>, finished |-> {}]

NoOutput == [tokens |-> <<>>, recving |-> {}, sending |-> {}]

\* OffloadingConnectorScheduler.__init__; being_stored is a defaultdict whose
\* keys are stored_keys, and _blocks_being_loaded is the union of being_loaded.
InitConnector ==
    [manager      |-> InitManager(Warm),
     next_stored  |-> [r \in Request |-> 0],
     stored_keys  |-> {},
     being_stored |-> [r \in Request |-> {}],
     being_loaded |-> [r \in Request |-> {}]]

\* A transfer copies block src[i] to block dst[i] for every i.  The first
\* stores_done of the transfers in stores have completed, and likewise for loads.
InitWorker ==
    [unsubmitted |-> <<>>,
     stores |-> <<>>, stores_done |-> 0,
     loads  |-> <<>>, loads_done  |-> 0,
     store_keys |-> {},
     store_jobs |-> [r \in Request |-> 0],
     finished_waiting |-> {}]

Init ==
    /\ status = [r \in Request |-> "NEW"]
    /\ num_tokens = PromptLen
    /\ num_computed = [r \in Request |-> 0]
    /\ preempted_once = [r \in Request |-> FALSE]
    /\ requests = {}
    /\ waiting = <<>> /\ running = <<>>
    /\ kv = InitKV
    /\ finished_ids = {} /\ finished_recving = {}
    /\ pc = "idle" /\ step = IdleStep /\ out = NoOutput
    /\ conn = InitConnector /\ worker = InitWorker
    /\ gpu = [b \in Block |-> <<>>]
    /\ cpu = [c \in CpuBlock |-> IF c <= Len(Warm) THEN Warm[c] ELSE <<>>]

Finished(r) == status[r] = "FINISHED"

\* request.block_hashes[from], ..., request.block_hashes[to - 1]
HashesOf(r, from, to) == [i \in 1 .. (to - from) |-> block_hashes(r, from + i)]

-----------------------------------------------------------------------------
(* Finishing a request.                                                       *)

\* Mutant: only a request whose stores are still in flight is kept.
DelaysFreeWhileStoring(r, delay) == delay \/ conn.being_stored[r] # {}

\* Mutant: what is still being loaded is not waited for.
DelaysFreeForStores(r, delay) == r \in conn.stored_keys

\* request_finished() of the connector is TRUE for every request that ever had
\* something stored; delay is delay_free_blocks.
DelaysFree(r, delay) == delay \/ r \in conn.stored_keys

\* _free_request: the blocks go back to the pool unless a transfer needs them.
FreeRequest(r, delay) ==
    /\ status' = [status EXCEPT ![r] = "FINISHED"]
    /\ finished_ids' = finished_ids \cup {r}
    /\ conn' = [conn EXCEPT !.next_stored[r] = 0]
    /\ IF DelaysFree(r, delay)
       THEN UNCHANGED <<kv, requests>>
       ELSE /\ kv' = free_request(kv, r)
            /\ requests' = requests \ {r}

Loading(r) == status[r] = "WAITING_FOR_REMOTE_KVS"

\* finish_requests(r, FINISHED_ABORTED), between two steps or just before the
\* output of a batch is applied.
Abort(r) ==
    /\ AllowAbort
    /\ pc \in {"idle", "executed"}
    /\ r \in requests /\ ~Finished(r)
    /\ Loading(r) /\ r \notin finished_recving /\ r \in conn.stored_keys => AbortStoredLoads
    /\ running' = Remove(running, r)
    /\ waiting' = Remove(waiting, r)
    /\ FreeRequest(r, Loading(r) /\ r \notin finished_recving)
    /\ finished_recving' = finished_recving \ {r}
    /\ UNCHANGED <<num_tokens, num_computed, preempted_once, pc, step, out, worker, dataVars>>

Add(r) ==
    /\ pc = "idle"
    /\ status[r] = "NEW"
    /\ status' = [status EXCEPT ![r] = "WAITING"]
    /\ requests' = requests \cup {r}
    /\ waiting' = Append(waiting, r)
    /\ UNCHANGED <<num_tokens, num_computed, preempted_once, running, kv, idVars, pc, step,
                   out, conn, worker, dataVars>>

-----------------------------------------------------------------------------
(* schedule(): the running requests.                                          *)

has_requests == waiting # <<>> \/ running # <<>> \/ finished_ids # {}

BeginStep ==
    /\ pc = "idle"
    /\ has_requests
    /\ pc' = "running"
    /\ step' = [IdleStep EXCEPT !.token_budget = MaxNumScheduledTokens]
    /\ UNCHANGED <<reqVars, queueVars, kv, idVars, out, conn, worker, dataVars>>

RunningLoopGoesOn == step.req_index < Len(running) /\ step.token_budget > 0

NumNewTokens(r) ==
    min(min(num_tokens[r] - num_computed[r], step.token_budget),
        MaxModelLen - 1 - num_computed[r])

PickRunning ==
    LET r == running[step.req_index + 1]
    IN  /\ pc = "running"
        /\ RunningLoopGoesOn
        /\ IF NumNewTokens(r) = 0
           THEN /\ step' = [step EXCEPT !.req_index = @ + 1]
                /\ pc' = pc
           ELSE /\ step' = [step EXCEPT !.cur = r, !.num_new = NumNewTokens(r)]
                /\ pc' = "allocate"
        /\ UNCHANGED <<reqVars, queueVars, kv, idVars, out, conn, worker, dataVars>>

AllocateRunning ==
    LET r == step.cur
        n == step.num_new
    IN  /\ pc = "allocate"
        /\ can_allocate_slots(kv, r, num_computed[r], n, 0, <<>>)
        /\ kv' = allocate_slots(kv, r, num_tokens[r], num_computed[r], n, 0, <<>>)
        /\ step' = [step EXCEPT !.scheduled = Append(@, [req |-> r, n |-> n]),
                                !.token_budget = @ - n,
                                !.req_index = @ + 1]
        /\ pc' = "running"
        /\ UNCHANGED <<reqVars, queueVars, idVars, out, conn, worker, dataVars>>

\* The last running request is preempted, though stores may be reading its blocks.
PreemptRunning ==
    LET v == Last(running)
    IN  /\ pc = "allocate"
        /\ ~can_allocate_slots(kv, step.cur, num_computed[step.cur], step.num_new, 0, <<>>)
        /\ running' = Front(running)
        /\ waiting' = <<v>> \o waiting
        /\ kv' = free_request(kv, v)
        /\ status' = [status EXCEPT ![v] = "PREEMPTED"]
        /\ num_computed' = [num_computed EXCEPT ![v] = 0]
        /\ preempted_once' = [preempted_once EXCEPT ![v] = TRUE]
        /\ step' = [step EXCEPT !.preempted = @ \cup {v}]
        /\ pc' = IF v = step.cur THEN "submit" ELSE pc
        /\ UNCHANGED <<num_tokens, requests, idVars, out, conn, worker, dataVars>>

EndRunningLoop ==
    /\ pc = "running"
    /\ ~RunningLoopGoesOn
    /\ pc' = IF step.preempted # {} THEN "submit" ELSE "waiting"
    /\ UNCHANGED <<reqVars, queueVars, kv, idVars, step, out, conn, worker, dataVars>>

-----------------------------------------------------------------------------
(* schedule(): the waiting requests.                                          *)

WaitingLoopGoesOn ==
    /\ waiting # <<>>
    /\ step.token_budget > 0
    /\ Len(running) < MaxNumRunningReqs

\* Mutant: the request is taken off the queue and not put back.
SkipLost(r) == waiting' = Tail(waiting) /\ step' = step

\* The request at the head is moved aside until the loop ends.
Skip(r) ==
    /\ waiting' = Tail(waiting)
    /\ step' = [step EXCEPT !.skipped = Append(@, r)]

SkipLoading ==
    LET r == Head(waiting)
    IN  /\ pc = "waiting"
        /\ WaitingLoopGoesOn
        /\ Loading(r) /\ r \notin finished_recving
        /\ Skip(r)
        /\ UNCHANGED <<reqVars, running, kv, idVars, pc, out, conn, worker, dataVars>>

LoadedTokens(r) ==
    LET loaded == min(Len(kv.req_to_blocks[r]) * BlockSize, num_tokens[r])
    IN  IF loaded = num_tokens[r] THEN loaded - 1 ELSE loaded

\* _update_waiting_for_remote_kv for a request whose load has finished; the loop
\* then goes on with this request.
FinishLoad ==
    LET r == Head(waiting)
    IN  /\ pc = "waiting"
        /\ WaitingLoopGoesOn
        /\ Loading(r) /\ r \in finished_recving
        /\ kv' = cache_blocks(kv, r, LoadedTokens(r))
        /\ num_computed' = [num_computed EXCEPT ![r] = LoadedTokens(r)]
        /\ status' = [status EXCEPT ![r] = IF preempted_once[r] THEN "PREEMPTED"
                                                                ELSE "WAITING"]
        /\ finished_recving' = finished_recving \ {r}
        /\ UNCHANGED <<num_tokens, preempted_once, requests, queueVars, finished_ids, pc,
                       step, out, conn, worker, dataVars>>

BlocksBeingLoaded == UNION {conn.being_loaded[r] : r \in Request}

IsBeingLoaded(hashes) == ToSet(hashes) \cap BlocksBeingLoaded # {}

\* get_num_new_matched_tokens after a local hit of n blocks: the hashes it would
\* load, none when less than a block is left.
MatchedHashes(r, n) ==
    LET rest == HashesOf(r, n, num_tokens[r] \div BlockSize)
    IN  SubSeq(rest, 1, lookup(conn.manager, rest))

\* The first waiting request: the blocks it hits, the hashes it could load and
\* the tokens it would compute.  A request with computed tokens has just been
\* loaded and asks neither cache.
Candidate ==
    LET r == Head(waiting)
        asks == num_computed[r] = 0
        hit == IF asks THEN get_computed_blocks(kv, r, num_tokens[r]) ELSE <<>>
        ext == IF asks THEN MatchedHashes(r, Len(hit)) ELSE <<>>
    IN  [req |-> r, hit |-> hit, ext |-> ext,
         computed |-> num_computed[r] + Len(hit) * BlockSize,
         n |-> min(num_tokens[r] - num_computed[r] - Len(hit) * BlockSize,
                   step.token_budget),
         manager |-> IF asks
                     THEN touch_offloaded(conn.manager,
                              HashesOf(r, 0, num_tokens[r] \div BlockSize))
                     ELSE conn.manager]

\* Another request loads a block this one wants: it is asked again later.
SkipDelayed(c) ==
    /\ IsBeingLoaded(c.ext)
    /\ Skip(c.req)
    /\ conn' = [conn EXCEPT !.manager = c.manager]
    /\ UNCHANGED <<reqVars, running, kv, idVars, pc, out, worker, dataVars>>

\* allocate_slots for the tokens to load, or for those to compute.
CandidateFits(c) ==
    IF c.ext # <<>>
    THEN get_num_blocks_to_allocate(kv, c.req, c.computed + Len(c.ext) * BlockSize, c.hit)
            <= get_num_free_blocks(kv.pool)
    ELSE can_allocate_slots(kv, c.req, num_computed[c.req], c.n, 0, c.hit)

\* Mutant: the blocks are cached before they are loaded.
allocate_to_load_cached(c) ==
    LET kv1 == allocate_new_blocks(allocate_new_computed_blocks(kv, c.req, c.hit), c.req,
                                   c.computed + Len(c.ext) * BlockSize)
    IN  cache_blocks(kv1, c.req, c.computed + Len(c.ext) * BlockSize)

\* allocate_slots with delay_cache_blocks: blocks for the external tokens, none
\* of which is cached yet.
allocate_to_load(c) ==
    LET kv1 == allocate_new_blocks(allocate_new_computed_blocks(kv, c.req, c.hit), c.req,
                                   c.computed + Len(c.ext) * BlockSize)
    IN  [kv1 EXCEPT !.num_cached_block[c.req] = Len(c.hit)]

\* The request gets its blocks and waits; update_state_after_alloc pins the CPU
\* blocks and notes the transfer for this step's batch.
StartLoad(c) ==
    LET r == c.req
        kv1 == allocate_to_load(c)
        transfer == [req |-> r,
                     src |-> [i \in DOMAIN c.ext |-> Entry(conn.manager, c.ext[i]).id],
                     dst |-> SubSeq(kv1.req_to_blocks[r], Len(c.hit) + 1,
                                    Len(kv1.req_to_blocks[r]))]
    IN  /\ c.ext # <<>> /\ ~IsBeingLoaded(c.ext)
        /\ CandidateFits(c)
        /\ kv' = kv1
        /\ status' = [status EXCEPT ![r] = "WAITING_FOR_REMOTE_KVS"]
        /\ waiting' = Tail(waiting)
        /\ step' = [step EXCEPT !.skipped = Append(@, r),
                                !.reqs_to_load = Append(@, transfer)]
        /\ conn' = [conn EXCEPT !.manager = prepare_load(c.manager, ToSet(c.ext)),
                                !.being_loaded[r] = @ \cup ToSet(c.ext),
                                !.next_stored[r] = Len(c.hit) + Len(c.ext)]
        /\ UNCHANGED <<num_tokens, num_computed, preempted_once, requests, running, idVars,
                       pc, out, worker, dataVars>>

AdmitWaiting(c) ==
    LET r == c.req
    IN  /\ c.ext = <<>>
        /\ CandidateFits(c)
        /\ kv' = allocate_slots(kv, r, num_tokens[r], num_computed[r], c.n, 0, c.hit)
        /\ waiting' = Tail(waiting)
        /\ running' = Append(running, r)
        /\ status' = [status EXCEPT ![r] = "RUNNING"]
        /\ num_computed' = [num_computed EXCEPT ![r] = c.computed]
        /\ step' = [step EXCEPT !.scheduled = Append(@, [req |-> r, n |-> c.n]),
                                !.new = IF status[r] = "WAITING" THEN @ \cup {r} ELSE @,
                                !.token_budget = @ - c.n]
        /\ conn' = [conn EXCEPT !.manager = c.manager]
        /\ UNCHANGED <<num_tokens, preempted_once, requests, idVars, pc, out, worker,
                       dataVars>>

\* What was skipped goes back to the head of the queue.
LeaveWaitingLoop ==
    /\ waiting' = step.skipped \o waiting
    /\ step' = [step EXCEPT !.skipped = <<>>]
    /\ pc' = "submit"
    /\ UNCHANGED <<reqVars, running, kv, idVars, out, worker, dataVars>>

\* There are not enough blocks for the first request: the loop breaks.
BreakWaitingLoop(c) ==
    /\ ~IsBeingLoaded(c.ext)
    /\ ~CandidateFits(c)
    /\ conn' = [conn EXCEPT !.manager = c.manager]
    /\ LeaveWaitingLoop

ScheduleCandidate ==
    /\ pc = "waiting"
    /\ WaitingLoopGoesOn
    /\ ~Loading(Head(waiting))
    /\ \E c \in {Candidate} :
          SkipDelayed(c) \/ StartLoad(c) \/ AdmitWaiting(c) \/ BreakWaitingLoop(c)

EndWaitingLoop ==
    /\ pc = "waiting"
    /\ ~WaitingLoopGoesOn
    /\ conn' = conn
    /\ LeaveWaitingLoop

-----------------------------------------------------------------------------
(* build_connector_meta and execute_model.                                    *)

\* Requests in the order of yield_req_data: new ones, running ones, resumed ones.
StoreOrder ==
    SelectSeq(step.scheduled, LAMBDA e : e.req \in step.new)
        \o SelectSeq(step.scheduled, LAMBDA e : e.req \notin step.new)

\* One iteration of _get_reqs_to_store: acc has the connector and the transfers.
StoreOne(acc, e) ==
    LET r == e.req
        first == acc.conn.next_stored[r]
        num_blocks == (num_computed[r] + e.n) \div BlockSize
        hashes == HashesOf(r, first, num_blocks)
        to_store == hashes_to_store(acc.conn.manager, hashes)
        stored == prepare_store(acc.conn.manager, hashes)
        transfer == [req |-> r,
                     src |-> [i \in DOMAIN to_store |->
                                kv.req_to_blocks[r][Len(to_store[i]) \div BlockSize]],
                     dst |-> [i \in DOMAIN to_store |-> Entry(stored, to_store[i]).id]]
    IN  IF num_blocks <= first \/ ~can_prepare_store(acc.conn.manager, hashes) THEN acc
        ELSE IF to_store = <<>>
        THEN [acc EXCEPT !.conn.next_stored[r] = num_blocks]
        ELSE [conn |-> [acc.conn EXCEPT
                          !.manager = touch_offloaded(stored, HashesOf(r, 0, num_blocks)),
                          !.next_stored[r] = num_blocks,
                          !.stored_keys = @ \cup {r},
                          !.being_stored[r] = @ \cup ToSet(to_store)],
              reqs_to_store |-> Append(acc.reqs_to_store, transfer)]

\* Stores of preempted requests count as complete: the worker waits for them
\* before it runs the batch.
CompleteStores(c, preempted) ==
    [c EXCEPT !.manager = complete_store(@, UNION {c.being_stored[r] : r \in preempted}),
              !.being_stored = [r \in Request |-> IF r \in preempted THEN {} ELSE @[r]]]

ScheduledTokens(r) ==
    FoldLeft(LAMBDA acc, e : IF e.req = r THEN e.n ELSE acc, 0, step.scheduled)

\* The KV entries the batch writes, as in Scheduler.
WrittenBy(r, b) ==
    LET end == num_computed[r] + ScheduledTokens(r)
    IN  {SubSeq(Text[r], 1, min(i * BlockSize, end)) :
            i \in {j \in DOMAIN kv.req_to_blocks[r] :
                      /\ kv.req_to_blocks[r][j] = b
                      /\ j * BlockSize > num_computed[r]
                      /\ (j - 1) * BlockSize < end}}

Written(b) == UNION {WrittenBy(r, b) : r \in Request}

\* What the transfer makes of the destination memory.
Copied(to, from, transfer) ==
    [b \in DOMAIN to |->
        IF Contains(transfer.dst, b)
        THEN from[transfer.src[CHOOSE i \in DOMAIN transfer.dst : transfer.dst[i] = b]]
        ELSE to[b]]

\* Mutant: nobody waits for the stores of preempted requests.
WaitedForNothing(stores, done, preempted) == done

\* handle_preemptions waits for the stores of preempted requests, and so for all
\* those submitted before: the number of transfers that are complete then.
WaitedFor(stores, done, preempted) ==
    LET theirs == {i \in DOMAIN stores : stores[i].req \in preempted}
    IN  CHOOSE n \in theirs \cup {done} : \A m \in theirs \cup {done} : m <= n

ConnectorMeta == FoldLeft(StoreOne, [conn |-> conn, reqs_to_store |-> <<>>], StoreOrder)

\* The end of schedule(), then execute_model up to the forward pass: stores left
\* over from the last step are submitted, this step's loads are, and the stores
\* of this step are noted for the next one.
Execute(meta) ==
    LET stores == worker.stores \o worker.unsubmitted
        done == WaitedFor(stores, worker.stores_done, step.preempted)
        storing == {t.req : t \in ToSet(meta.reqs_to_store)}
    IN  /\ conn' = CompleteStores(meta.conn, step.preempted)
        /\ num_computed' = [r \in Request |-> num_computed[r] + ScheduledTokens(r)]
        /\ finished_ids' = {}
        /\ cpu' = FoldLeft(LAMBDA acc, t : Copied(acc, gpu, t), cpu,
                           SubSeq(stores, worker.stores_done + 1, done))
        /\ gpu' = [b \in Block |-> IF Written(b) # {} THEN CHOOSE d \in Written(b) : TRUE
                                                      ELSE gpu[b]]
        /\ worker' = [worker EXCEPT
                         !.stores = stores,
                         !.stores_done = done,
                         !.loads = @ \o step.reqs_to_load,
                         !.unsubmitted = meta.reqs_to_store,
                         !.store_keys = @ \cup storing,
                         !.store_jobs = [r \in Request |->
                             IF r \in storing THEN @[r] + 1 ELSE @[r]]]
        /\ step' = [step EXCEPT !.finished = finished_ids]
        /\ pc' = "forward"
        /\ UNCHANGED <<status, num_tokens, preempted_once, requests, queueVars, kv,
                       finished_recving, out>>

Submit == pc = "submit" /\ \E meta \in {ConnectorMeta} : Execute(meta)

\* The oldest transfer of a direction completes.
StoreCompletes ==
    /\ pc \in {"submit", "forward"}
    /\ worker.stores_done < Len(worker.stores)
    /\ cpu' = Copied(cpu, gpu, worker.stores[worker.stores_done + 1])
    /\ worker' = [worker EXCEPT !.stores_done = @ + 1]
    /\ UNCHANGED <<reqVars, queueVars, kv, idVars, pc, step, out, conn, gpu>>

LoadCompletes ==
    /\ pc \in {"submit", "forward"}
    /\ worker.loads_done < Len(worker.loads)
    /\ gpu' = Copied(gpu, cpu, worker.loads[worker.loads_done + 1])
    /\ worker' = [worker EXCEPT !.loads_done = @ + 1]
    /\ UNCHANGED <<reqVars, queueVars, kv, idVars, pc, step, out, conn, cpu>>

\* OffloadingConnectorWorker.get_finished: completed transfers are collected; a
\* finished request is reported as sent when its last store job is.
GetFinished ==
    LET stored == SubSeq(worker.stores, 1, worker.stores_done)
        loaded == SubSeq(worker.loads, 1, worker.loads_done)
        jobs == [r \in Request |->
                   worker.store_jobs[r] - Len(SelectSeq(stored, LAMBDA t : t.req = r))]
        waits == worker.finished_waiting \cup (step.finished \cap worker.store_keys)
        sent == {r \in waits : jobs[r] = 0}
    IN  /\ pc = "forward"
        /\ worker' = [worker EXCEPT
                         !.stores = SubSeq(@, worker.stores_done + 1, Len(@)),
                         !.stores_done = 0,
                         !.loads = SubSeq(@, worker.loads_done + 1, Len(@)),
                         !.loads_done = 0,
                         !.store_jobs = jobs,
                         !.store_keys = @ \ sent,
                         !.finished_waiting = waits \ sent]
        /\ out' = [tokens  |-> [i \in DOMAIN step.scheduled |-> step.scheduled[i].req],
                   recving |-> {t.req : t \in ToSet(loaded)},
                   sending |-> sent]
        /\ pc' = "executed"
        /\ UNCHANGED <<reqVars, queueVars, kv, idVars, step, conn, dataVars>>

-----------------------------------------------------------------------------
(* update_from_output().                                                      *)

\* One request of the batch: a token is appended unless it was a partial prefill
\* or the request has been aborted, and the request may have reached its end.
ApplyOutput ==
    LET r == Head(out.tokens)
        ignored == r \notin requests \/ Finished(r) \/ num_computed[r] < num_tokens[r]
        n == num_tokens[r] + 1
    IN  /\ pc \in {"executed", "output"}
        /\ out.tokens # <<>>
        /\ num_tokens' = IF ignored THEN num_tokens ELSE [num_tokens EXCEPT ![r] = n]
        /\ IF ignored \/ n < min(Len(Text[r]), MaxModelLen)
           THEN UNCHANGED <<status, requests, finished_ids, kv, conn, running>>
           ELSE /\ FreeRequest(r, FALSE)
                /\ running' = Remove(running, r)
        /\ out' = [out EXCEPT !.tokens = Tail(@)]
        /\ pc' = "output"
        /\ UNCHANGED <<num_computed, preempted_once, waiting, finished_recving, step, worker,
                       dataVars>>

\* update_connector_output: CPU blocks that were stored become ready, those that
\* were loaded are no longer pinned.
ConnectorOutput ==
    LET stored == UNION {conn.being_stored[r] : r \in out.sending}
        unpin(m, r) == complete_load(m, conn.being_loaded[r])
    IN  [conn EXCEPT
           !.manager = FoldLeft(unpin, complete_store(@, stored), SetToSeq(out.recving)),
           !.stored_keys = @ \ out.sending,
           !.being_stored = [r \in Request |-> IF r \in out.sending THEN {} ELSE @[r]],
           !.being_loaded = [r \in Request |-> IF r \in out.recving THEN {} ELSE @[r]]]

\* _update_from_kv_xfer_finished: a loaded request may be scheduled, and blocks
\* that were kept for a transfer are freed.
TransfersFinished ==
    LET released == {r \in out.recving : Finished(r)} \cup out.sending
    IN  /\ pc \in {"executed", "output"}
        /\ out.tokens = <<>>
        /\ conn' = ConnectorOutput
        /\ finished_recving' = finished_recving \cup {r \in out.recving : Loading(r)}
        /\ kv' = FoldLeft(free_request, kv, SetToSeq(released))
        /\ requests' = requests \ released
        /\ out' = NoOutput
        /\ step' = IdleStep
        /\ pc' = "idle"
        /\ UNCHANGED <<status, num_tokens, num_computed, preempted_once, queueVars,
                       finished_ids, worker, dataVars>>

-----------------------------------------------------------------------------
Engine ==
    \/ BeginStep
    \/ PickRunning \/ AllocateRunning \/ PreemptRunning \/ EndRunningLoop
    \/ SkipLoading \/ FinishLoad \/ ScheduleCandidate \/ EndWaitingLoop
    \/ Submit \/ GetFinished
    \/ ApplyOutput \/ TransfersFinished

Client == \E r \in Request : Add(r) \/ Abort(r)

Next == Engine \/ StoreCompletes \/ LoadCompletes \/ Client

Spec == Init /\ [][Next]_vars

\* When the engine can take a step: ENABLED Engine, written out.
Busy == pc # "idle" \/ has_requests

\* The busy loop steps while there is work (weak fairness of Engine); the GPU
\* finishes every copy, though it may be slower than any number of engine steps.
FairSpec ==
    /\ Spec
    /\ []<>~Busy \/ []<><<Engine>>_vars
    /\ SF_vars(StoreCompletes)
    /\ SF_vars(LoadCompletes)

-----------------------------------------------------------------------------
Pending(transfers, done) == {transfers[i] : i \in (done + 1) .. Len(transfers)}

PendingLoads == Pending(worker.loads, worker.loads_done) \cup ToSet(step.reqs_to_load)

\* A block that a transfer from the CPU will still write belongs to the request
\* that asked for it and to nobody else: an abort in the middle of a load neither
\* frees it nor lets another request have it.
LoadsOwnTheirBlocks ==
    \A t \in PendingLoads : \A b \in ToSet(t.dst) :
        kv.pool.ref_cnt[b] = 1 /\ Contains(kv.req_to_blocks[t.req], b)

\* The assertions of _update_from_kv_xfer_finished (scheduler.py:2042, 2047 and
\* 2051): a request whose transfer finished is still known, it waits for the load
\* or has finished, and it is not released twice.
TransferReportsAreExpected ==
    pc \in {"executed", "output"} =>
        /\ out.recving \cup out.sending \subseteq requests
        /\ \A r \in out.recving : Loading(r) \/ Finished(r)
        /\ \A r \in out.sending : Finished(r)
        /\ {r \in out.recving : Finished(r)} \cap out.sending = {}

\* Between two steps an offloaded block that may be loaded holds exactly the
\* tokens of its hash: no store read a GPU block that preemption or the end of
\* its request had already given away, and no CPU block was evicted under a load.
OffloadedIsExact ==
    pc = "idle" =>
        \A e \in ToSet(conn.manager.blocks) : e.ref_cnt >= 0 => cpu[e.id] = e.hash

\* Between two steps a GPU block with a hash holds exactly the tokens of that
\* hash, also when they came from the CPU.
CacheIsMaterialised ==
    pc = "idle" =>
        \A b \in Block : kv.pool.block_hash[b] # NoHash => gpu[b] = kv.pool.block_hash[b]

\* Between two steps ref_cnt of an offloaded block counts the requests that load
\* it, and is -1 exactly while one stores it: none stays pinned, or not ready,
\* after aborts and preemptions.
OffloadRefsExact ==
    pc = "idle" =>
        \A e \in ToSet(conn.manager.blocks) :
            e.ref_cnt = IF \E r \in Request : e.hash \in conn.being_stored[r] THEN -1
                        ELSE Cardinality({r \in Request : e.hash \in conn.being_loaded[r]})

\* The offloading manager's view of the CPU blocks is true.
CpuCacheExact == OffloadedIsExact /\ OffloadRefsExact

\* Every request ends, through loads, delays and preemption, and its blocks are
\* released, unless it finished and the engine runs out of work before the
\* transfers are done: only a step collects finished transfers.
EveryRequestIsReleased ==
    \A r \in Request :
        r \in requests ~> \/ r \notin requests
                          \/ Finished(r) /\ pc = "idle" /\ ~has_requests
==============================================================================
