------------------------------ MODULE Scheduler ------------------------------
(* The V1 scheduler inside the engine core's busy loop                        *)
(* (vllm/v1/core/sched/scheduler.py, async_scheduler.py, request_queue.py and *)
(* vllm/v1/engine/core.py): requests are queued, scheduled token by token,    *)
(* preempted when the KV cache is exhausted, aborted, and updated with the    *)
(* output of batches that may be several steps old.                           *)
(*                                                                            *)
(* The loops of schedule() and update_from_output() are one action per        *)
(* iteration; pc says where the single engine thread is, and what clients ask *)
(* for (Add, Abort, ...) is only taken where the code reads its queues.       *)
(*                                                                            *)
(* A sampled token is modelled by the position it was sampled for, and what   *)
(* the workers write into a KV block by the token prefix it encodes (data).   *)
(* Workers execute batches in the order they are submitted, so a batch's KV   *)
(* writes are applied when it is submitted and its tokens when it is popped.  *)
EXTENDS KVCacheManager

CONSTANTS
    PromptLen,            \* PromptLen[r]: request.num_prompt_tokens
    Rank,                 \* Rank[r]: order of (priority, arrival_time), low first
    MaxNumRunningReqs,    \* max_num_running_reqs
    MaxNumScheduledTokens,\* max_num_scheduled_tokens
    LongPrefillThreshold, \* long_prefill_token_threshold, 0 for none
    Modes                 \* the engine configurations to check, see Mode

\* An engine configuration, and which requests of its clients are considered.
Mode ==
    [priority : BOOLEAN,        \* policy == SchedulingPolicy.PRIORITY
     async    : BOOLEAN,        \* AsyncScheduler instead of Scheduler
     batches  : Nat \ {0},      \* max_concurrent_batches
     stages   : BOOLEAN,        \* pipeline parallelism without the RAY_V2 executor
     may      : SUBSET {"abort", "pause", "stop"},
     resets   : Nat]            \* bound on reset_prefix_cache calls

ASSUME SchedulerAssumption ==
    \* A prompt leaves room for a token, in max_tokens and in max_model_len.
    /\ PromptLen \in [Request -> Nat \ {0}]
    /\ \A r \in Request : PromptLen[r] < Len(Text[r]) /\ PromptLen[r] < MaxModelLen
    \* Request.__lt__ is a total order.
    /\ Rank \in [Request -> Nat] /\ IsInjective(Rank)
    /\ {MaxNumRunningReqs, MaxNumScheduledTokens} \subseteq Nat \ {0}
    /\ LongPrefillThreshold \in Nat
    /\ Modes \subseteq Mode
    \* Every request fits into the KV cache alone.
    /\ \A r \in Request : cdiv(Len(Text[r]), BlockSize) < NumGpuBlocks

VARIABLES
    mode,          \* how this engine was configured when it started
    status,        \* request.status, "NEW" before add_request
    output,        \* request.output_token_ids, as positions
    num_computed,  \* request.num_computed_tokens
    placeholders,  \* request.num_output_placeholders
    discard,       \* request.discard_latest_async_tokens
    waiting,       \* self.waiting
    running,       \* self.running
    kv,            \* self.kv_cache_manager
    finished_ids,  \* self.finished_req_ids
    pause,         \* self._pause_state
    batches,       \* EngineCore.batch_queue, oldest first
    pc,            \* where the engine thread is
    step,          \* the local variables of schedule()
    out,           \* the part of a popped batch not yet applied
    data,          \* what the workers have written into each block
    worker,        \* requests the model runners keep state for
    resets

reqVars == <<status, output, num_computed, placeholders, discard>>
queueVars == <<waiting, running>>
envVars == <<finished_ids, pause, data, worker, resets>>
vars == <<reqVars, queueVars, kv, envVars, batches, pc, step, out, mode>>

PriorityPolicy == mode.priority

AsyncScheduling == mode.async

\* One batch at a time is EngineCore.step, more are step_with_batch_queue.
BatchQueueSize == mode.batches

StageCap == mode.stages

NumTokens(r) == PromptLen[r] + Len(output[r])

None == "none"

IdleStep == [req_index |-> 0, token_budget |-> 0, scheduled |-> <<>>, resumed |-> {},
             preempted |-> FALSE, cur |-> None, num_new |-> 0]

\* A request as its constructor leaves it.
InitRequests ==
    /\ status = [r \in Request |-> "NEW"]
    /\ output = [r \in Request |-> <<>>]
    /\ num_computed = [r \in Request |-> 0]
    /\ placeholders = [r \in Request |-> 0]
    /\ discard = [r \in Request |-> FALSE]

Init ==
    /\ mode \in Modes
    /\ InitRequests
    /\ waiting = <<>> /\ running = <<>>
    /\ kv = InitKV
    /\ finished_ids = {} /\ pause = "UNPAUSED"
    /\ batches = <<>> /\ pc = "idle" /\ step = IdleStep /\ out = <<>>
    /\ data = [b \in Block |-> <<>>]
    /\ worker = {} /\ resets = 0

-----------------------------------------------------------------------------
(* Request queues (request_queue.py).                                         *)

InsertByRank(q, r) ==
    without(q, {x \in Request : Rank[x] >= Rank[r]}) \o <<r>>
        \o without(q, {x \in Request : Rank[x] <= Rank[r]})

remove_all(q, S) == without(q, S)

add_request(q, r) == IF PriorityPolicy THEN InsertByRank(q, r) ELSE Append(q, r)

\* Mutant: a preempted request is not queued again.
prepend_request_lost(q, r) == q

prepend_request(q, r) == IF PriorityPolicy THEN InsertByRank(q, r) ELSE <<r>> \o q

-----------------------------------------------------------------------------
(* What clients and operators ask of an idle engine.                          *)

Add(r) ==
    /\ pc = "idle"
    /\ status[r] = "NEW"
    /\ status' = [status EXCEPT ![r] = "WAITING"]
    /\ waiting' = add_request(waiting, r)
    /\ UNCHANGED <<output, num_computed, placeholders, discard, running, kv, envVars,
                   batches, pc, step, out>>

Live(r) == status[r] \in {"WAITING", "RUNNING", "PREEMPTED"}

\* Mutant: a request that waits is not taken out of its queue.
AbortRunningOnly(r) ==
    /\ "abort" \in mode.may
    /\ pc \in {"idle", "popped"}
    /\ Live(r)
    /\ running' = remove_all(running, {r})
    /\ status' = [status EXCEPT ![r] = "FINISHED"]
    /\ finished_ids' = finished_ids \cup {r}
    /\ kv' = free_request(kv, r)
    /\ UNCHANGED <<output, num_computed, placeholders, discard, waiting, pause, data,
                   worker, resets, batches, pc, step, out>>

\* finish_requests(r, FINISHED_ABORTED), from the input queue between two steps
\* or from the aborts queue just before a batch's output is applied.
Abort(r) ==
    /\ "abort" \in mode.may
    /\ pc \in {"idle", "popped"}
    /\ Live(r)
    /\ running' = remove_all(running, {r})
    /\ waiting' = remove_all(waiting, {r})
    /\ status' = [status EXCEPT ![r] = "FINISHED"]
    /\ finished_ids' = finished_ids \cup {r}
    /\ kv' = free_request(kv, r)
    /\ UNCHANGED <<output, num_computed, placeholders, discard, pause, data, worker,
                   resets, batches, pc, step, out>>

set_pause_state(p) ==
    /\ "pause" \in mode.may
    /\ pc = "idle"
    /\ pause' = p /\ pause # p
    /\ UNCHANGED <<reqVars, queueVars, kv, finished_ids, data, worker, resets, batches,
                   pc, step, out>>

\* The waiting queue and the KV cache manager when all running requests have been
\* preempted, the last one first.
PreemptAll ==
    LET n == Len(running)
        after[i \in 0 .. n] ==
            IF i = 0 THEN [waiting |-> waiting, kv |-> kv]
            ELSE LET r == running[n + 1 - i]
                 IN  [waiting |-> prepend_request(after[i - 1].waiting, r),
                      kv      |-> free_request(after[i - 1].kv, r)]
    IN  after[n]

\* reset_prefix_cache(reset_running_requests=True): every running request is
\* preempted, last first, and the hashes of all blocks are dropped.
ResetRunning ==
    LET preempted == ToSet(running)
        freed == PreemptAll.kv
    IN  /\ pc = "idle"
        /\ resets < mode.resets
        /\ status' = [r \in Request |-> IF r \in preempted THEN "PREEMPTED" ELSE status[r]]
        /\ num_computed' = [r \in Request |->
                              IF r \in preempted THEN 0 ELSE num_computed[r]]
        /\ placeholders' = [r \in Request |->
                              IF r \in preempted THEN 0 ELSE placeholders[r]]
        /\ discard' = [r \in Request |-> r \in preempted \/ discard[r]]
        /\ waiting' = PreemptAll.waiting
        /\ running' = <<>>
        /\ kv' = IF can_reset_prefix_cache(freed.pool)
                 THEN [freed EXCEPT !.pool = reset_prefix_cache(@)] ELSE freed
        /\ resets' = resets + 1
        /\ UNCHANGED <<output, finished_ids, pause, data, worker, batches, pc, step, out>>

\* reset_prefix_cache() without preempting anyone: it only takes effect when no
\* block is in use, though batches may still be in flight.
ResetIdle ==
    /\ pc = "idle"
    /\ resets < mode.resets
    /\ can_reset_prefix_cache(kv.pool)
    /\ kv' = [kv EXCEPT !.pool = reset_prefix_cache(@)]
    /\ resets' = resets + 1
    /\ UNCHANGED <<reqVars, queueVars, finished_ids, pause, data, worker, batches, pc,
                   step, out>>

-----------------------------------------------------------------------------
(* schedule().                                                                *)

get_num_unfinished_requests ==
    CASE pause = "PAUSED_ALL" -> 0
      [] pause = "PAUSED_NEW" -> Len(running)
      [] OTHER -> Len(waiting) + Len(running)

\* Mutant: finished requests that the workers still hold are no reason to step.
has_unfinished_requests_only == get_num_unfinished_requests > 0

has_requests == get_num_unfinished_requests > 0 \/ finished_ids # {}

\* The busy loop steps the engine, and only waits for clients otherwise.
has_work == has_requests \/ batches # <<>>

BeginStep ==
    /\ pc = "idle"
    /\ has_requests
    /\ pc' = "running"
    /\ step' = [IdleStep EXCEPT !.token_budget =
                  IF pause = "PAUSED_ALL" THEN 0 ELSE MaxNumScheduledTokens]
    /\ UNCHANGED <<reqVars, queueVars, kv, envVars, batches, out>>

\* Nothing to schedule, but a batch is in flight.
DrainStep ==
    /\ pc = "idle"
    /\ has_work /\ ~has_requests
    /\ pc' = "popped"
    /\ UNCHANGED <<reqVars, queueVars, kv, envVars, batches, step, out>>

Scheduled == {step.scheduled[i].req : i \in DOMAIN step.scheduled}

\* num_scheduled_tokens
ScheduledTokens(r) ==
    IF r \in Scheduled
    THEN step.scheduled[CHOOSE i \in DOMAIN step.scheduled : step.scheduled[i].req = r].n
    ELSE 0

ScheduledRunning == Scheduled \ step.resumed

\* With pipeline parallelism the queue has one place per stage.
max_num_pre_pipeline_reqs == cdiv(MaxNumRunningReqs, BatchQueueSize)

RunningCapReached ==
    StageCap /\ BatchQueueSize > 1 /\
        Cardinality(ScheduledRunning) >=
            min(max_num_pre_pipeline_reqs, cdiv(Len(running), BatchQueueSize))

RunningLoopGoesOn ==
    /\ step.req_index < Len(running)
    /\ step.token_budget > 0
    /\ ~RunningCapReached

\* Async scheduling: the tokens in flight already reach max_tokens.
ReachesMaxTokens(r) ==
    /\ placeholders[r] > 0
    /\ num_computed[r] + 2 - placeholders[r] >= Len(Text[r])

\* n tokens are wanted; a long prefill is cut, and the budget may be short.
CutToBudget(n) ==
    LET wanted == IF LongPrefillThreshold > 0 THEN min(n, LongPrefillThreshold) ELSE n
    IN  min(wanted, step.token_budget)

NumNewTokens(r) ==
    min(CutToBudget(NumTokens(r) + placeholders[r] - num_computed[r]),
        MaxModelLen - 1 - num_computed[r])

PickRunning ==
    LET r == running[step.req_index + 1]
    IN  /\ pc = "running"
        /\ RunningLoopGoesOn
        /\ IF ReachesMaxTokens(r) \/ NumNewTokens(r) = 0
           THEN /\ step' = [step EXCEPT !.req_index = @ + 1]
                /\ pc' = pc
           ELSE /\ step' = [step EXCEPT !.cur = r, !.num_new = NumNewTokens(r)]
                /\ pc' = "allocate"
        /\ UNCHANGED <<reqVars, queueVars, kv, envVars, batches, out>>

AllocateRunning ==
    LET r == step.cur
        n == step.num_new
    IN  /\ pc = "allocate"
        /\ can_allocate_slots(kv, r, num_computed[r], n, 0, <<>>)
        /\ kv' = allocate_slots(kv, r, NumTokens(r), num_computed[r], n, 0, <<>>)
        /\ step' = [step EXCEPT !.scheduled = Append(@, [req |-> r, n |-> n]),
                                !.token_budget = @ - n,
                                !.req_index = @ + 1]
        /\ pc' = "running"
        /\ UNCHANGED <<reqVars, queueVars, envVars, batches, out>>

LowestPriority == CHOOSE r \in ToSet(running) : \A q \in ToSet(running) : Rank[q] <= Rank[r]

\* Mutant: the victim stays in the batch.
UnscheduleNothing(v) == [step EXCEPT !.preempted = TRUE]

\* A victim already scheduled in this step leaves the batch and returns its budget.
Unschedule(v) ==
    [step EXCEPT
       !.preempted = TRUE,
       !.scheduled = without(@, {e \in ToSet(@) : e.req = v}),
       !.token_budget = @ + ScheduledTokens(v),
       !.req_index = IF v \in Scheduled THEN @ - 1 ELSE @]

\* The KV cache is exhausted: the lowest-priority running request is preempted,
\* and loses its place in this step if it was already scheduled.
PreemptRunning ==
    LET r == step.cur
        v == IF PriorityPolicy THEN LowestPriority ELSE Last(running)
    IN  /\ pc = "allocate"
        /\ ~can_allocate_slots(kv, r, num_computed[r], step.num_new, 0, <<>>)
        /\ running' = remove_all(running, {v})
        /\ waiting' = prepend_request(waiting, v)
        /\ kv' = free_request(kv, v)
        /\ status' = [status EXCEPT ![v] = "PREEMPTED"]
        /\ num_computed' = [num_computed EXCEPT ![v] = 0]
        /\ step' = Unschedule(v)
        /\ pc' = IF v = r THEN "submit" ELSE pc
        /\ UNCHANGED <<output, placeholders, discard, envVars, batches, out>>

EndRunningLoop ==
    /\ pc = "running"
    /\ ~RunningLoopGoesOn
    /\ pc' = IF step.preempted \/ pause # "UNPAUSED" THEN "submit" ELSE "waiting"
    /\ UNCHANGED <<reqVars, queueVars, kv, envVars, batches, step, out>>

WaitingLoopGoesOn ==
    /\ waiting # <<>>
    /\ step.token_budget > 0
    /\ ~(StageCap /\ BatchQueueSize > 1 /\ Len(step.scheduled) >= max_num_pre_pipeline_reqs)
    /\ Len(running) < MaxNumRunningReqs

\* The first waiting request, the blocks it hits and the tokens it may compute.
Candidate ==
    LET r   == Head(waiting)
        hit == get_computed_blocks(kv, r, NumTokens(r))
    IN  [req |-> r, hit |-> hit,
         n |-> CutToBudget(NumTokens(r) - Len(hit) * BlockSize)]

CandidateFits ==
    can_allocate_slots(kv, Candidate.req, 0, Candidate.n, 0, Candidate.hit)

AdmitWaiting ==
    LET c == Candidate
        r == c.req
    IN  /\ pc = "waiting"
        /\ WaitingLoopGoesOn
        /\ CandidateFits
        /\ kv' = allocate_slots(kv, r, NumTokens(r), 0, c.n, 0, c.hit)
        /\ waiting' = Tail(waiting)
        /\ running' = Append(running, r)
        /\ status' = [status EXCEPT ![r] = "RUNNING"]
        /\ num_computed' = [num_computed EXCEPT ![r] = Len(c.hit) * BlockSize]
        /\ step' = [step EXCEPT !.scheduled = Append(@, [req |-> r, n |-> c.n]),
                                !.resumed = @ \cup {r},
                                !.token_budget = @ - c.n]
        /\ UNCHANGED <<output, placeholders, discard, envVars, batches, pc, out>>

EndWaitingLoop ==
    /\ pc = "waiting"
    /\ WaitingLoopGoesOn => ~CandidateFits
    /\ pc' = "submit"
    /\ UNCHANGED <<reqVars, queueVars, kv, envVars, batches, step, out>>

\* The KV entries a batch writes: block i of r gets the tokens from
\* num_computed[r] to the end of what was scheduled.
WrittenBy(r, b) ==
    LET end == num_computed[r] + ScheduledTokens(r)
    IN  {SubSeq(Text[r], 1, min(i * BlockSize, end)) :
            i \in {j \in DOMAIN kv.req_to_blocks[r] :
                      /\ kv.req_to_blocks[r][j] = b
                      /\ j * BlockSize > num_computed[r]
                      /\ (j - 1) * BlockSize < end}}

Written(b) == UNION {WrittenBy(r, b) : r \in Scheduled}

\* The engine need not wait for the oldest batch: this one is not empty, and
\* leaves a place in the queue.
MayRunAhead(batch) == batch # <<>> /\ Len(batches) + 1 < BatchQueueSize

\* num_output_placeholders after r was scheduled up to its last token: the async
\* scheduler expects a token for it.
PlaceholdersAfter(r) == IF AsyncScheduling THEN placeholders[r] + 1 ELSE placeholders[r]

\* _update_after_schedule, then execute_model: the batch goes into flight.  Even
\* if it may run ahead the engine pops the oldest batch when that is done.
Submit ==
    LET computed == [r \in Request |-> num_computed[r] + ScheduledTokens(r)]
        chunk(r) == computed[r] < NumTokens(r) + placeholders[r]
        samples(r) == r \in Scheduled /\ ~chunk(r)
        batch == [i \in DOMAIN step.scheduled |->
                    LET r == step.scheduled[i].req
                    IN  [req |-> r, pos |-> IF chunk(r) THEN 0 ELSE computed[r] + 1]]
    IN  /\ pc = "submit"
        /\ num_computed' = computed
        /\ placeholders' = [r \in Request |->
              IF samples(r) THEN PlaceholdersAfter(r) ELSE placeholders[r]]
        /\ finished_ids' = {}
        /\ worker' = (worker \ finished_ids) \cup Scheduled
        /\ data' = [b \in Block |-> IF Written(b) # {} THEN CHOOSE d \in Written(b) : TRUE
                                                        ELSE data[b]]
        /\ batches' = Append(batches, batch)
        /\ step' = IdleStep
        /\ \/ pc' = "popped"
           \/ MayRunAhead(batch) /\ pc' = "idle"
        /\ UNCHANGED <<status, output, discard, queueVars, kv, pause, resets, out>>

-----------------------------------------------------------------------------
(* update_from_output().                                                      *)

PopBatch ==
    /\ pc = "popped"
    /\ out' = Head(batches)
    /\ batches' = Tail(batches)
    /\ pc' = "output"
    /\ UNCHANGED <<reqVars, queueVars, kv, envVars, step>>

Reached(r, n) == n >= min(Len(Text[r]), MaxModelLen)

\* Mutant: what a finished request still had in flight is applied.
DroppedIfPartial(e) == e.pos = 0 \/ (AsyncScheduling /\ discard[e.req])

\* Mutant: a partial prefill returns a token.
DroppedIfFinished(e) == ~Live(e.req) \/ (AsyncScheduling /\ discard[e.req])

\* The output of one request is dropped: it has finished meanwhile, it was a
\* partial prefill, or reset_prefix_cache asked for its latest token to go.
Dropped(e) ==
    \/ ~Live(e.req)
    \/ e.pos = 0
    \/ AsyncScheduling /\ discard[e.req]

DropOutput ==
    LET e == Head(out)
    IN  /\ pc = "output"
        /\ out # <<>>
        /\ Dropped(e)
        /\ discard' = IF Live(e.req) /\ e.pos # 0
                      THEN [discard EXCEPT ![e.req] = FALSE] ELSE discard
        /\ out' = Tail(out)
        /\ UNCHANGED <<status, output, num_computed, placeholders, queueVars, kv, envVars,
                       batches, pc, step>>

\* Mutant: the placeholder stays.
PlaceholdersKept(r) == placeholders[r]

\* num_output_placeholders once one token has replaced its placeholder.
PlaceholdersLeft(r) == IF AsyncScheduling THEN placeholders[r] - 1 ELSE placeholders[r]

\* One sampled token is appended; the request stops at its maximum length, or at
\* a stop token the model may sample at any time.
ApplyOutput ==
    LET e == Head(out)
        r == e.req
        tokens  == NumTokens(r) + 1
        pending == PlaceholdersLeft(r)
        cached  == IF AsyncScheduling /\ EnableCaching /\ status[r] = "RUNNING"
                   THEN cache_blocks(kv, r, num_computed[r] - pending) ELSE kv
    IN  /\ pc = "output"
        /\ out # <<>>
        /\ ~Dropped(e)
        /\ output' = [output EXCEPT ![r] = Append(@, e.pos)]
        /\ placeholders' = [placeholders EXCEPT ![r] = pending]
        /\ out' = Tail(out)
        /\ \/ /\ Reached(r, tokens) \/ "stop" \in mode.may
              /\ status' = [status EXCEPT ![r] = "FINISHED"]
              /\ kv' = free_request(cached, r)
              /\ finished_ids' = finished_ids \cup {r}
              /\ running' = remove_all(running, {r})
              /\ waiting' = remove_all(waiting, {r})
           \/ /\ ~Reached(r, tokens)
              /\ kv' = cached
              /\ UNCHANGED <<status, finished_ids, queueVars>>
        /\ UNCHANGED <<num_computed, discard, pause, data, worker, resets, batches, pc, step>>

EndStep ==
    /\ pc = "output"
    /\ out = <<>>
    /\ pc' = "idle"
    /\ UNCHANGED <<reqVars, queueVars, kv, envVars, batches, step, out>>

-----------------------------------------------------------------------------
EngineStep ==
    \/ BeginStep \/ DrainStep
    \/ PickRunning \/ AllocateRunning \/ PreemptRunning \/ EndRunningLoop
    \/ AdmitWaiting \/ EndWaitingLoop
    \/ Submit
    \/ PopBatch \/ DropOutput \/ ApplyOutput \/ EndStep

ClientStep ==
    \/ \E r \in Request : Add(r) \/ Abort(r)
    \/ \E p \in {"UNPAUSED", "PAUSED_NEW", "PAUSED_ALL"} : set_pause_state(p)
    \/ ResetRunning \/ ResetIdle

Engine == EngineStep /\ UNCHANGED mode

Client == ClientStep /\ UNCHANGED mode

Next == Engine \/ Client

Spec == Init /\ [][Next]_vars

\* The busy loop never stops while there is work.
FairSpec == Spec /\ WF_vars(Engine)

-----------------------------------------------------------------------------
Status == {"NEW", "WAITING", "RUNNING", "PREEMPTED", "FINISHED"}

Position == 0 .. (MaxModelLen + 1)

Entry == [req : Request, pos : Position]

TypeOK ==
    /\ mode \in Modes
    /\ status \in [Request -> Status]
    /\ output \in [Request -> Seq(Position)]
    /\ \A r \in Request : num_computed[r] \in 0 .. (NumTokens(r) + placeholders[r])
    /\ placeholders \in [Request -> 0 .. BatchQueueSize]
    /\ discard \in [Request -> BOOLEAN]
    /\ waiting \in Seq(Request) /\ running \in Seq(Request)
    /\ finished_ids \subseteq Request /\ worker \subseteq Request
    /\ pause \in {"UNPAUSED", "PAUSED_NEW", "PAUSED_ALL"}
    /\ batches \in Seq(Seq(Entry)) /\ out \in Seq(Entry)
    /\ pc \in {"idle", "running", "allocate", "waiting", "submit", "popped", "output"}
    /\ step.cur \in Request \cup {None}
    /\ step.req_index \in 0 .. Cardinality(Request)
    /\ resets \in 0 .. mode.resets

\* Every live request is in exactly the queue its status says, once: however
\* preemption, aborts, stops and resets interleave with the loops of schedule(),
\* none is lost, queued twice or both running and waiting (finish_requests and
\* update_from_output pick the queue to remove from by the status).
QueuesMatchStatus ==
    /\ TypeOK
    /\ IsInjective(running) /\ IsInjective(waiting)
    /\ ToSet(running) = {r \in Request : status[r] = "RUNNING"}
    /\ ToSet(waiting) = {r \in Request : status[r] \in {"WAITING", "PREEMPTED"}}

\* reset_prefix_cache(reset_running_requests=True) never raises its RuntimeError:
\* once the running requests are preempted no block is in use, whatever was
\* aborted, stopped or preempted before, with batches still in flight.
ResetRunningSucceeds == can_reset_prefix_cache(PreemptAll.kv.pool)

\* The tokens a client receives are those of successive positions: none is
\* lost, repeated or swapped by preemption, resumption or in-flight batches.  It
\* needs at most two batches in flight, and no forced reset while there are two.
TokensInOrder ==
    \A r \in Request : output[r] = [i \in DOMAIN output[r] |-> PromptLen[r] + i]

\* Whether block b holds the KV entries of the first n tokens of r, as far as
\* they belong to the i-th block.
Holds(b, r, i, n) ==
    LET k == min(i * BlockSize, n)
    IN  k <= (i - 1) * BlockSize \/ IsPrefix(SubSeq(Text[r], 1, k), data[b])

\* Between two steps the workers have been told to compute every token counted
\* in num_computed_tokens, and nothing has overwritten it: attention never reads
\* a slot that no batch has filled.  Under FCFS, for the reason given below.
ComputedIsMaterialised ==
    pc = "idle" /\ ~PriorityPolicy =>
        \A r \in ToSet(running) : \A i \in DOMAIN kv.req_to_blocks[r] :
            Holds(kv.req_to_blocks[r][i], r, i, num_computed[r])

\* "The scheduler calls kv_cache_manager.get_computed_blocks() to get a sequence
\* of blocks that have already been computed" (docs/design/prefix_caching.md:143):
\* between two steps a block with a hash holds exactly the tokens it stands for.
CachedIsComputed ==
    pc = "idle" =>
        \A b \in Block : kv.pool.block_hash[b] # NoHash
                            => data[b] = kv.pool.block_hash[b]

\* Under FCFS the prefix cache never offers a block that no batch has computed.
\* Under the priority policy a request may be preempted in the step that has given
\* its blocks their hashes, and CachedIsComputed fails on longer prompts.
CacheIsMaterialised == ~PriorityPolicy => CachedIsComputed

\* sum(num_scheduled_tokens.values())
TotalTokens(scheduled) ==
    LET total[i \in 0 .. Len(scheduled)] ==
            IF i = 0 THEN 0 ELSE total[i - 1] + scheduled[i].n
    IN  total[Len(scheduled)]

\* The assertions that end schedule() (scheduler.py:834-845), with the budget
\* exact, and every scheduled request still among the running ones: a request
\* preempted in the step it was scheduled in is taken out of the batch.
ScheduleAsserts ==
    pc = "submit" =>
        /\ Scheduled \subseteq ToSet(running)
        /\ IsInjective(step.scheduled)
        /\ step.token_budget >= 0
        /\ Len(running) <= MaxNumRunningReqs
        /\ step.token_budget + TotalTokens(step.scheduled)
              = IF pause = "PAUSED_ALL" THEN 0 ELSE MaxNumScheduledTokens

\* None of the scheduler's own checks can fail.
AssertionsHold == ScheduleAsserts /\ ResetRunningSucceeds

InFlight(r) ==
    {p \in (1 .. BatchQueueSize) \X (1 .. Cardinality(Request)) :
        /\ p[1] \in DOMAIN batches /\ p[2] \in DOMAIN batches[p[1]]
        /\ batches[p[1]][p[2]].req = r /\ batches[p[1]][p[2]].pos # 0}

\* Async scheduling: num_output_placeholders counts the sampled tokens that are
\* still in flight, also across preemption (the assertion in
\* _update_request_with_output and the max_tokens cut-off rely on it).
PlaceholdersMatchInFlight ==
    AsyncScheduling /\ pc = "idle" =>
        \A r \in Request : Live(r) => placeholders[r] = Cardinality(InFlight(r))

\* When the engine goes to sleep no worker keeps state for a finished request:
\* finished_req_ids alone is a reason to run one more, empty, step.
WorkersForgetFinished ==
    pc = "idle" /\ ~has_work => \A r \in worker : Live(r)

\* What is in flight for a request that was aborted or stopped has no effect on
\* it, and its blocks are not taken again on its behalf.
FinishedIsFinal ==
    [][\A r \in Request : status[r] = "FINISHED" =>
          /\ status'[r] = "FINISHED" /\ output'[r] = output[r]
          /\ kv'.req_to_blocks[r] = <<>>]_vars

\* Every request that is added finishes, however often it is preempted.
EveryRequestFinishes ==
    \A r \in Request : status[r] = "WAITING" ~> status[r] = "FINISHED"
==============================================================================
