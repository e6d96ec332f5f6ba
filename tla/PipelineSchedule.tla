--------------------------- MODULE PipelineSchedule ---------------------------
(* The 1F1B pipeline schedules of Megatron-LM, with and without interleaving  *)
(* (megatron/core/pipeline_parallel/schedules.py): every rank runs forward    *)
(* and backward passes in a fixed order and decides by arithmetic alone when  *)
(* to send, when to receive and into which list a received tensor goes.       *)
(*                                                                            *)
(* A list entry is the number of the receive that fills the tensor, 0 for     *)
(* None.  wait() on a handle holds up whatever the rank does next.            *)
EXTENDS PipelineP2P

CONSTANT Configs   \* the configurations considered

\* vpp is the number of model chunks (1: no interleaving), m num_microbatches,
\* group microbatch_group_size_per_vp_stage; grad_sync: config.grad_sync_func is given.
Config ==
    [pp : Nat, vpp : Nat, m : Nat, group : Nat, batched : BOOLEAN, overlap : BOOLEAN,
     flush : BOOLEAN, forward_only : BOOLEAN, grad_sync : BOOLEAN]

\* What arguments.py, ModelParallelConfig and the schedule itself insist on.
Supported(c) ==
    /\ c.pp > 1 /\ c.vpp > 0 /\ c.m > 0
    /\ c.batched = ~c.overlap
    /\ c.flush => c.overlap
    /\ c.vpp = 1 => ~c.overlap
    /\ c.vpp > 1 => /\ c.overlap \/ c.pp > 2
                    /\ c.pp <= c.group /\ c.group <= c.m
                    /\ c.m % c.group = 0 \/ c.m % c.group >= c.pp

ASSUME ConfigsAssumption == Configs \subseteq Config /\ \A c \in Configs : Supported(c)

VARIABLE rank   \* rank[p]: the local variables of the schedule on rank p

vars == <<cfg, comm, rank>>

None == 0

InitRank ==
    [pc |-> IF cfg.vpp > 1 THEN "begin" ELSE "n_warmup",
     k |-> 0,
     inputs  |-> [c \in 0 .. (cfg.vpp - 1) |-> <<>>],
     outputs |-> [c \in 0 .. (cfg.vpp - 1) |-> <<>>],
     grads   |-> [c \in 0 .. (cfg.vpp - 1) |-> <<>>],
     recv_prev_handles |-> <<>>, recv_next_handles |-> <<>>,
     send_next |-> {}, send_prev |-> {},
     await |-> {},
     synced |-> {}]

Init ==
    /\ cfg \in Configs
    /\ comm = InitComm
    /\ rank = [p \in Ranks |-> InitRank]

-----------------------------------------------------------------------------
(* The schedule table.                                                        *)

min(a, b) == IF a < b THEN a ELSE b

Total == cfg.m * cfg.vpp

\* get_schedule_table: groups of microbatches, chunk after chunk within a group.
GroupStart(k) == (k \div (cfg.group * cfg.vpp)) * cfg.group
GroupSize(k) == min(cfg.group, cfg.m - GroupStart(k))
InGroup(k) == k - GroupStart(k) * cfg.vpp

microbatch_id(k) == GroupStart(k) + (InGroup(k) % GroupSize(k))

get_model_chunk_id(k, forward) ==
    LET c == InGroup(k % Total) \div GroupSize(k % Total)
    IN  IF forward THEN c ELSE cfg.vpp - c - 1

\* How often a chunk occurs among the first n entries.
CountChunk(n, c) == Cardinality({j \in 0 .. (n - 1) : get_model_chunk_id(j, TRUE) = c})

\* Mutant: one forward pass too few before the first backward pass.
num_warmup_short(p) ==
    IF cfg.forward_only THEN Total
    ELSE min((cfg.pp - p - 1) * 2 + (cfg.vpp - 1) * cfg.group - 1, Total)

\* get_pp_rank_microbatches.
num_warmup(p) ==
    IF cfg.forward_only THEN Total
    ELSE min((cfg.pp - p - 1) * 2 + (cfg.vpp - 1) * cfg.group, Total)

num_remaining(p) == Total - num_warmup(p)
AllInWarmup(p) == num_warmup(p) = Total

num_released(p, k, c) ==
    IF cfg.forward_only THEN CountChunk(k, c)
    ELSE IF k < num_warmup(p) THEN 0
    ELSE CountChunk(k - num_warmup(p), cfg.vpp - c - 1)

Stage(p, c) == c * cfg.pp + p
FirstStage(p, c) == p = 0 /\ c = 0
LastStage(p, c) == p = cfg.pp - 1 /\ c = cfg.vpp - 1

\* Mutant: the leading stage forgets how far it is ahead of the ending one.
recv_tensor_unaligned(p, k, forward) ==
    LET leading == p = IF forward THEN 0 ELSE cfg.pp - 1
        c == get_model_chunk_id(IF leading THEN k ELSE k + 1, forward)
        last == IF forward THEN cfg.vpp - 1 ELSE 0
    IN  [recv  |-> leading => c # last,
         chunk |-> IF ~leading THEN c ELSE IF forward THEN c + 1 ELSE c - 1]

\* recv_tensor_from_previous_stage: whether iteration k receives, and for which
\* chunk.  The leading stage is pp - 1 iterations ahead of the ending one.
recv_tensor(p, k, forward) ==
    LET leading == p = IF forward THEN 0 ELSE cfg.pp - 1
        early == k < cfg.pp - 1
        c == get_model_chunk_id(IF leading /\ ~early THEN k - (cfg.pp - 1) ELSE k + 1, forward)
        last == IF forward THEN cfg.vpp - 1 ELSE 0
    IN  [recv  |-> leading => ~early /\ c # last,
         chunk |-> IF ~leading THEN c ELSE IF forward THEN c + 1 ELSE c - 1]

-----------------------------------------------------------------------------
(* Forward and backward passes.                                               *)

AddTo(lists, c, e) == [lists EXCEPT ![c] = Append(@, e)]

\* The lists on which forward_step_helper works: the first stage has no input.
ForwardInputs(p, k) ==
    LET c == get_model_chunk_id(k, TRUE)
        st == rank[p]
    IN  IF cfg.vpp > 1 /\ FirstStage(p, c) /\ Len(st.inputs[c]) = Len(st.outputs[c])
        THEN AddTo(st.inputs, c, None)
        ELSE st.inputs

\* Which entry is the input of the k-th forward pass.
ForwardIndex(p, k) ==
    IF cfg.vpp = 1 THEN Len(rank[p].inputs[0])
    ELSE microbatch_id(k) - num_released(p, k, get_model_chunk_id(k, TRUE)) + 1

\* forward_step_helper.
Forward(p, k) ==
    LET c == get_model_chunk_id(k, TRUE)
        inputs == ForwardInputs(p, k)
    IN  IF cfg.forward_only
        THEN [rank[p] EXCEPT !.inputs = [inputs EXCEPT ![c] = Tail(@)]]
        ELSE [rank[p] EXCEPT !.inputs = inputs,
                             !.outputs = AddTo(@, c, microbatch_id(k))]

CanForward(p, k) ==
    ForwardIndex(p, k) \in DOMAIN ForwardInputs(p, k)[get_model_chunk_id(k, TRUE)]

Act(p, k) == <<"act", microbatch_id(k), Stage(p, get_model_chunk_id(k, TRUE))>>

BackwardGrads(p, k) ==
    LET c == get_model_chunk_id(k, FALSE)
        grads == rank[p].grads
    IN  IF LastStage(p, c) /\ grads[c] = <<>> THEN AddTo(grads, c, None) ELSE grads

\* Mutant: gradients are reduced when the first microbatch is done.
SyncsEarly(p, k) ==
    LET j == IF cfg.grad_sync THEN k - p ELSE k
    IN  IF j >= 0 /\ microbatch_id(j) = 0 THEN {get_model_chunk_id(j, FALSE)} ELSE {}

\* The chunks whose gradients backward_step_helper starts to reduce; with a
\* grad_sync_func all ranks do so at the same time.
Syncs(p, k) ==
    LET j == IF cfg.grad_sync THEN k - p ELSE k
    IN  IF j >= 0 /\ microbatch_id(j) = cfg.m - 1 THEN {get_model_chunk_id(j, FALSE)} ELSE {}

\* backward_step_helper: the oldest entries of the chunk are popped.
Backward(p, k) ==
    LET c == get_model_chunk_id(k, FALSE)
    IN  [rank[p] EXCEPT !.inputs[c] = Tail(@),
                        !.outputs[c] = Tail(@),
                        !.grads = [BackwardGrads(p, k) EXCEPT ![c] = Tail(@)],
                        !.synced = @ \cup Syncs(p, k)]

CanBackward(p, k) ==
    LET c == get_model_chunk_id(k, FALSE)
    IN  <<>> \notin {rank[p].inputs[c], rank[p].outputs[c], BackwardGrads(p, k)[c]}

Grad(p, k) ==
    LET c == get_model_chunk_id(k, FALSE)
    IN  <<"grad", Head(rank[p].outputs[c]), Stage(p, c)>>

-----------------------------------------------------------------------------
\* Rank p is at pc and whatever it waits for has arrived.
At(p, pc) == rank[p].pc = pc /\ \A h \in rank[p].await : Complete(p, h)

\* The rank's next local state and what it has posted.
Go(p, st, c) ==
    /\ rank' = [rank EXCEPT ![p] = st]
    /\ comm' = c
    /\ UNCHANGED cfg

\* S if cond holds.
If(cond, S) == IF cond THEN S ELSE {}

\* Pop the oldest handle and wait for it.
PopPrev(st) ==
    [st EXCEPT !.recv_prev_handles = Tail(@), !.await = {Head(st.recv_prev_handles)}]
PopNext(st) ==
    [st EXCEPT !.recv_next_handles = Tail(@), !.await = {Head(st.recv_next_handles)}]

(* forward_backward_pipelining_with_interleaving.                             *)

\* recv_forward for the first chunk.
Begin(p) ==
    LET S == If(p # 0, {"recv_prev"})
        c1 == communicate(comm, p, S, None, None)
    IN  /\ At(p, "begin")
        /\ Go(p, [rank[p] EXCEPT !.pc = "warmup",
                                 !.inputs = AddTo(@, 0, c1[p].posted["recv_prev"]),
                                 !.await = Handles(c1, p, S)], c1)

\* With overlap in the warmup an iteration first waits for its input; an empty
\* list of handles fails an assertion.
WarmupWait(p) ==
    LET st == [rank[p] EXCEPT !.pc = "warmup_forward", !.await = {}]
        k == rank[p].k
        waits == cfg.flush /\ ~FirstStage(p, get_model_chunk_id(k, TRUE)) /\ k # 0
    IN  /\ At(p, "warmup")
        /\ k < num_warmup(p)
        /\ waits => st.recv_prev_handles # <<>>
        /\ Go(p, IF waits THEN PopPrev(st) ELSE st, comm)

\* The forward pass and its communication.  With overlap only the send of the
\* iteration before is waited for; the last iteration without any overlap also
\* receives the first gradient.
WarmupForward(p) ==
    LET k == rank[p].k
        next == recv_tensor(p, k, TRUE)
        recv == next.recv /\ k # Total - 1
        last == k = num_warmup(p) - 1 /\ ~cfg.forward_only /\ ~AllInWarmup(p)
        prefetch == If(cfg.flush /\ p # 0 /\ recv, {"recv_prev"})
        sends == If(~LastStage(p, get_model_chunk_id(k, TRUE)), {"send_next"})
        S == sends \cup If(recv /\ prefetch = {}, {"recv_prev"})
                   \cup If(last /\ ~cfg.overlap /\ p # cfg.pp - 1, {"recv_next"})
        c1 == communicate(comm, p, prefetch, None, None)
        c2 == communicate(c1, p, S, Act(p, k), None)
        ref == c2[p].posted["recv_prev"]
        gref == IF p # cfg.pp - 1 THEN c2[p].posted["recv_next"] ELSE None
        st == [Forward(p, k) EXCEPT
                 !.inputs = IF recv THEN AddTo(@, next.chunk, ref) ELSE @,
                 !.grads = IF last /\ ~cfg.overlap THEN AddTo(@, cfg.vpp - 1, gref) ELSE @,
                 !.k = k + 1,
                 !.pc = IF last /\ cfg.overlap THEN "warmup_end" ELSE "warmup"]
    IN  /\ At(p, "warmup_forward")
        /\ CanForward(p, k)
        /\ Go(p, IF cfg.flush
                 THEN [st EXCEPT !.await = rank[p].send_next,
                                 !.send_next = Handles(c2, p, sends),
                                 !.recv_prev_handles =
                                     IF recv THEN Append(@, Handle(c2, p, "recv_prev")) ELSE @]
                 ELSE [st EXCEPT !.await = Handles(c2, p, S)],
              c2)

\* With overlap the receive of the first gradient is posted after the warmup.
WarmupEnd(p) ==
    LET recv == p # cfg.pp - 1
        c1 == communicate(comm, p, If(recv, {"recv_next"}), None, None)
        st == [rank[p] EXCEPT !.pc = "warmup", !.await = {}]
    IN  /\ At(p, "warmup_end")
        /\ Go(p, IF recv
                 THEN [st EXCEPT !.recv_next_handles = Append(@, Handle(c1, p, "recv_next")),
                                 !.grads = AddTo(@, cfg.vpp - 1, c1[p].posted["recv_next"])]
                 ELSE st,
              c1)

WarmupDone(p) ==
    /\ At(p, "warmup")
    /\ rank[p].k = num_warmup(p)
    /\ Go(p, [rank[p] EXCEPT !.pc = IF AllInWarmup(p) THEN "flush" ELSE "steady",
                             !.k = 0, !.await = {}], comm)

\* The k-th iteration of the steady state waits for its input, if its receive was
\* not blocking.
SteadyWait(p) ==
    LET st == [rank[p] EXCEPT !.pc = "steady_forward", !.await = {}]
        k == rank[p].k + num_warmup(p)
        waits == cfg.overlap /\ ~FirstStage(p, get_model_chunk_id(k, TRUE))
                    /\ (cfg.flush \/ st.recv_prev_handles # <<>>)
    IN  /\ At(p, "steady")
        /\ waits => st.recv_prev_handles # <<>>
        /\ Go(p, IF waits THEN PopPrev(st) ELSE st, comm)

SteadyRecv(p) ==
    recv_tensor(p, rank[p].k + num_warmup(p), TRUE).recv
        /\ rank[p].k # num_remaining(p) - 1

SteadyForward(p) ==
    LET k == rank[p].k + num_warmup(p)
        sends == If(cfg.overlap /\ ~LastStage(p, get_model_chunk_id(k, TRUE)), {"send_next"})
        recvs == If(cfg.overlap /\ SteadyRecv(p), {"recv_prev"})
        c1 == communicate(comm, p, sends \cup recvs, Act(p, k), None)
    IN  /\ At(p, "steady_forward")
        /\ CanForward(p, k)
        /\ Go(p, [Forward(p, k) EXCEPT
                    !.pc = "steady_wait",
                    !.await = rank[p].send_next,
                    !.send_next = Handles(c1, p, sends),
                    !.recv_prev_handles = @ \o SetToSeq(Handles(c1, p, recvs))],
              c1)

BackwardWait(p) ==
    LET st == [rank[p] EXCEPT !.pc = "steady_backward", !.await = {}]
        waits == cfg.overlap /\ ~LastStage(p, get_model_chunk_id(rank[p].k, FALSE))
                    /\ (cfg.flush \/ st.recv_next_handles # <<>>)
    IN  /\ At(p, "steady_wait")
        /\ waits => st.recv_next_handles # <<>>
        /\ Go(p, IF waits THEN PopNext(st) ELSE st, comm)

\* The backward pass.  Without overlap one batch of operations carries everything
\* and is waited for.
SteadyBackward(p) ==
    LET k == rank[p].k
        fk == k + num_warmup(p)
        next_f == recv_tensor(p, fk, TRUE)
        next_b == recv_tensor(p, k, FALSE)
        grad == If(~FirstStage(p, get_model_chunk_id(k, FALSE)), {"send_prev"})
        recvs == If(next_b.recv, {"recv_next"})
        S == grad \cup recvs
                \cup If(~cfg.overlap /\ SteadyRecv(p), {"recv_prev"})
                \cup If(~cfg.overlap /\ ~LastStage(p, get_model_chunk_id(fk, TRUE)), {"send_next"})
        c1 == communicate(comm, p, S, Act(p, fk), Grad(p, k))
        posted == c1[p].posted
        st == [Backward(p, k) EXCEPT
                 !.inputs = IF SteadyRecv(p) THEN AddTo(@, next_f.chunk, posted["recv_prev"])
                                             ELSE @,
                 !.grads = IF next_b.recv THEN AddTo(@, next_b.chunk, posted["recv_next"]) ELSE @,
                 !.k = k + 1,
                 !.pc = IF k = num_remaining(p) - 1 THEN "flush" ELSE "steady"]
    IN  /\ At(p, "steady_backward")
        /\ CanBackward(p, k)
        /\ Go(p, IF cfg.overlap
                 THEN [st EXCEPT !.await = rank[p].send_prev,
                                 !.send_prev = Handles(c1, p, grad),
                                 !.recv_next_handles = @ \o SetToSeq(Handles(c1, p, recvs))]
                 ELSE [st EXCEPT !.await = Handles(c1, p, S)],
              c1)

\* Before the cooldown a rank without a steady state receives its first gradient.
FlushBegin(p) ==
    LET recvs == If(~LastStage(p, cfg.vpp - 1), {"recv_next"})
        c1 == communicate(comm, p, recvs, None, None)
        st == [rank[p] EXCEPT !.pc = "cooldown", !.await = {}]
    IN  /\ At(p, "flush")
        /\ IF cfg.forward_only \/ ~AllInWarmup(p)
           THEN Go(p, IF cfg.forward_only THEN [st EXCEPT !.k = Total] ELSE st, comm)
           ELSE Go(p, [st EXCEPT !.grads = AddTo(@, cfg.vpp - 1, c1[p].posted["recv_next"]),
                                 !.await = Handles(c1, p, recvs)],
                   c1)

CooldownWait(p) ==
    LET st == [rank[p] EXCEPT !.pc = "cooldown_backward", !.await = {}]
        k == rank[p].k
        waits == ~LastStage(p, get_model_chunk_id(k, FALSE)) /\ k # 0
                    /\ (cfg.flush \/ st.recv_next_handles # <<>>)
    IN  /\ At(p, "cooldown")
        /\ k < Total
        /\ waits => st.recv_next_handles # <<>>
        /\ Go(p, IF waits THEN PopNext(st) ELSE st, comm)

CooldownBackward(p) ==
    LET k == rank[p].k
        next == recv_tensor(p, k, FALSE)
        recv == next.recv /\ k # Total - 1
        prefetch == If(cfg.flush /\ p # cfg.pp - 1 /\ recv, {"recv_next"})
        grad == If(~FirstStage(p, get_model_chunk_id(k, FALSE)), {"send_prev"})
        S == grad \cup If(recv /\ prefetch = {}, {"recv_next"})
        c1 == communicate(comm, p, prefetch, None, None)
        c2 == communicate(c1, p, S, None, Grad(p, k))
        st == [Backward(p, k) EXCEPT
                 !.grads = IF recv THEN AddTo(@, next.chunk, c2[p].posted["recv_next"]) ELSE @,
                 !.k = k + 1,
                 !.pc = "cooldown"]
    IN  /\ At(p, "cooldown_backward")
        /\ CanBackward(p, k)
        /\ Go(p, IF cfg.flush
                 THEN [st EXCEPT !.await = rank[p].send_prev,
                                 !.send_prev = Handles(c2, p, grad),
                                 !.recv_next_handles =
                                     IF recv THEN Append(@, Handle(c2, p, "recv_next")) ELSE @]
                 ELSE [st EXCEPT !.await = Handles(c2, p, S)],
              c2)

CooldownDone(p) ==
    /\ At(p, "cooldown")
    /\ rank[p].k = Total
    /\ Go(p, [rank[p] EXCEPT !.pc = "end", !.await = rank[p].send_prev], comm)

\* Remaining reductions are started; handles that are left fail an assertion.
End(p) ==
    /\ At(p, "end")
    /\ rank[p].recv_prev_handles = <<>> /\ rank[p].recv_next_handles = <<>>
    /\ Go(p, [rank[p] EXCEPT !.pc = "done", !.await = {},
                             !.synced = IF cfg.forward_only THEN @ ELSE 0 .. (cfg.vpp - 1)],
          comm)

Interleaved(p) ==
    \/ Begin(p)
    \/ WarmupWait(p) \/ WarmupForward(p) \/ WarmupEnd(p) \/ WarmupDone(p)
    \/ SteadyWait(p) \/ SteadyForward(p) \/ BackwardWait(p) \/ SteadyBackward(p)
    \/ FlushBegin(p) \/ CooldownWait(p) \/ CooldownBackward(p) \/ CooldownDone(p)
    \/ End(p)

-----------------------------------------------------------------------------
(* forward_backward_pipelining_without_interleaving: all communication blocks. *)

NumWarmup(p) == min(cfg.pp - p - 1, cfg.m)
NumRemaining(p) == cfg.m - NumWarmup(p)

\* Post the operations that p's place in the pipeline leaves of S, wait for them.
Blocking(p, st, S, act, grad) ==
    LET ops == S \ (If(p = 0, {"send_prev", "recv_prev"})
                       \cup If(p = cfg.pp - 1, {"send_next", "recv_next"}))
        c1 == communicate(comm, p, ops, act, grad)
        ref(ch) == IF ch \in ops THEN c1[p].posted[ch] ELSE None
    IN  Go(p, [st EXCEPT
                 !.inputs = IF "recv_prev" \in S THEN AddTo(@, 0, ref("recv_prev")) ELSE @,
                 !.grads = IF "recv_next" \in S THEN AddTo(@, 0, ref("recv_next")) ELSE @,
                 !.await = Handles(c1, p, ops)],
           c1)

NWarmup(p) ==
    /\ At(p, "n_warmup")
    /\ rank[p].k < NumWarmup(p)
    /\ Blocking(p, [rank[p] EXCEPT !.pc = "n_warmup_forward"], {"recv_prev"}, None, None)

NWarmupForward(p) ==
    LET k == rank[p].k
    IN  /\ At(p, "n_warmup_forward")
        /\ Blocking(p, [Forward(p, k) EXCEPT !.pc = "n_warmup", !.k = k + 1], {"send_next"},
                    Act(p, k), None)

NWarmupDone(p) ==
    LET st == [rank[p] EXCEPT !.k = 0]
    IN  /\ At(p, "n_warmup")
        /\ rank[p].k = NumWarmup(p)
        /\ IF NumRemaining(p) > 0
           THEN Blocking(p, [st EXCEPT !.pc = "n_steady"], {"recv_prev"}, None, None)
           ELSE Blocking(p, [st EXCEPT !.pc = "n_cooldown"], {}, None, None)

NSteadyForward(p) ==
    LET k == rank[p].k + NumWarmup(p)
    IN  /\ At(p, "n_steady")
        /\ Blocking(p, [Forward(p, k) EXCEPT
                          !.pc = IF cfg.forward_only THEN "n_next" ELSE "n_backward"],
                    IF cfg.forward_only THEN {"send_next"} ELSE {"send_next", "recv_next"},
                    Act(p, k), None)

\* Without backward passes the next input is received by a call of its own.
NForwardOnly(p) ==
    LET last == rank[p].k = NumRemaining(p) - 1
    IN  /\ At(p, "n_next")
        /\ Blocking(p, [rank[p] EXCEPT !.k = @ + 1,
                                       !.pc = IF last THEN "n_cooldown" ELSE "n_steady"],
                    If(~last, {"recv_prev"}), None, None)

NSync(p, k) == If(k = cfg.m - 1 /\ (~cfg.grad_sync \/ p = 0), {0})

NBackward(p) ==
    LET k == rank[p].k
        last == k = NumRemaining(p) - 1
        st == [Backward(p, k) EXCEPT !.synced = rank[p].synced \cup NSync(p, k),
                                     !.k = IF last THEN 0 ELSE k + 1,
                                     !.pc = IF last THEN "n_cooldown" ELSE "n_steady"]
    IN  /\ At(p, "n_backward")
        /\ CanBackward(p, k)
        /\ Blocking(p, st, IF last THEN {"send_prev"} ELSE {"send_prev", "recv_prev"}, None,
                    Grad(p, k))

NCooldown(p) ==
    /\ At(p, "n_cooldown")
    /\ ~cfg.forward_only /\ rank[p].k < NumWarmup(p)
    /\ Blocking(p, [rank[p] EXCEPT !.pc = "n_cooldown_backward"], {"recv_next"}, None, None)

NCooldownBackward(p) ==
    LET k == NumRemaining(p) + rank[p].k
    IN  /\ At(p, "n_cooldown_backward")
        /\ CanBackward(p, k)
        /\ Blocking(p, [Backward(p, k) EXCEPT !.synced = rank[p].synced \cup NSync(p, k),
                                              !.k = rank[p].k + 1, !.pc = "n_cooldown"],
                    {"send_prev"}, None, Grad(p, k))

NEnd(p) ==
    /\ At(p, "n_cooldown")
    /\ cfg.forward_only \/ rank[p].k = NumWarmup(p)
    /\ Go(p, [rank[p] EXCEPT !.pc = "done", !.await = {}, !.k = Total,
                             !.synced = If(~cfg.forward_only, {0})], comm)

NonInterleaved(p) ==
    \/ NWarmup(p) \/ NWarmupForward(p) \/ NWarmupDone(p)
    \/ NSteadyForward(p) \/ NForwardOnly(p) \/ NBackward(p)
    \/ NCooldown(p) \/ NCooldownBackward(p)
    \/ NEnd(p)

-----------------------------------------------------------------------------
Communication == \E p, q \in Ranks : Transfer(p, q) /\ UNCHANGED <<cfg, rank>>

Next == \/ \E p \in Ranks : Interleaved(p) \/ NonInterleaved(p)
        \/ Communication

Spec == Init /\ [][Next]_vars

\* Ranks keep running, and the network moves what both ends have posted.
FairSpec == Spec /\ WF_vars(Next)

-----------------------------------------------------------------------------
(* Properties.                                                                *)

\* The forward pass, if any, that rank p is about to run.
ForwardPass(p) ==
    CASE At(p, "warmup_forward") -> {rank[p].k}
      [] At(p, "steady_forward") -> {rank[p].k + num_warmup(p)}
      [] At(p, "n_warmup_forward") -> {rank[p].k}
      [] At(p, "n_steady") -> {rank[p].k + NumWarmup(p)}
      [] OTHER -> {}

\* The backward pass, if any, that rank p is about to run.
BackwardPass(p) ==
    CASE At(p, "steady_backward") \/ At(p, "cooldown_backward") -> {rank[p].k}
      [] At(p, "n_backward") -> {rank[p].k}
      [] At(p, "n_cooldown_backward") -> {rank[p].k + NumRemaining(p)}
      [] OTHER -> {}

\* Receive number ref of the channel is complete and has brought the tensor.
Holds(p, ch, ref, tensor) ==
    ref \in DOMAIN comm[p].got[ch] /\ comm[p].got[ch][ref] = tensor

\* Every pass works on its own tensors.  When a rank runs forward_step, the entry of
\* input_tensors it indexes has been received and is the activation of the same
\* microbatch from the stage before; when it runs backward_step, the entries popped
\* are of the microbatch whose turn it is, and the gradient is the one the next stage
\* computed for it.  Messages have no tags and lists no keys: only the agreement of
\* the ranks' arithmetic makes this true.
TensorsMatch ==
    \A p \in Ranks :
        /\ \A k \in ForwardPass(p) :
               LET c == get_model_chunk_id(k, TRUE)
                   i == ForwardIndex(p, k)
                   list == ForwardInputs(p, k)[c]
               IN  /\ i \in DOMAIN list
                   /\ IF FirstStage(p, c) THEN list[i] = None
                      ELSE Holds(p, "recv_prev", list[i],
                                 <<"act", microbatch_id(k), Stage(p, c) - 1>>)
        /\ \A k \in BackwardPass(p) :
               LET c == get_model_chunk_id(k, FALSE)
                   list == BackwardGrads(p, k)[c]
               IN  /\ rank[p].outputs[c] # <<>> /\ list # <<>>
                   /\ Head(rank[p].outputs[c]) = microbatch_id(k)
                   /\ IF LastStage(p, c) THEN Head(list) = None
                      ELSE Holds(p, "recv_next", Head(list),
                                 <<"grad", microbatch_id(k), Stage(p, c) + 1>>)

\* The gradients of a model chunk are reduced over the data-parallel group only after
\* the chunk's last backward pass on this rank, although a rank decides it from the
\* forward table shifted by its own place in the pipeline (backward_step_helper).
NoEarlyGradSync ==
    \A p \in Ranks :
        /\ \A k \in BackwardPass(p) : get_model_chunk_id(k, FALSE) \notin rank[p].synced
        /\ \A k \in ForwardPass(p) : get_model_chunk_id(k, TRUE) \notin rank[p].synced

\* The schedules end on every rank: no rank waits for a message nobody sends, ranks do
\* not wait for one another in a circle, no list is popped empty, and no assertion
\* about registered or leftover wait handles fails.
EveryRankFinishes == <>(\A p \in Ranks : rank[p].pc = "done")
==============================================================================
