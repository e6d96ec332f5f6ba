----------------------------- MODULE PipelineP2P -----------------------------
(* Point-to-point communication of the pipeline ranks                         *)
(* (megatron/core/pipeline_parallel/p2p_communication.py).  A call posts up   *)
(* to one operation on each of four channels; messages carry no tag, so which *)
(* send meets which receive depends on nothing but the order of the posts.    *)
(*                                                                            *)
(* A tensor is a triple: "act" or "grad", the microbatch, the virtual stage   *)
(* that produced it.  ring_exchange, variable sequence lengths and ranks in   *)
(* several pipeline groups are left out.                                      *)
EXTENDS Integers, Sequences, FiniteSets, SequencesExt

VARIABLES
    cfg,  \* the ModelParallelConfig and the arguments of the schedule
    comm  \* comm[p].pending: operations of rank p that are not complete, in order;
          \* .posted: how many were posted on each channel; .got: what was received

Channel == {"send_next", "recv_prev", "send_prev", "recv_next"}
Sends == {"send_next", "send_prev"}

Ranks == 0 .. (cfg.pp - 1)

\* The ranks form a ring: with virtual stages the last one feeds the first.
peer(p, ch) ==
    IF ch \in {"send_next", "recv_next"} THEN (p + 1) % cfg.pp ELSE (p + cfg.pp - 1) % cfg.pp

InitComm ==
    [p \in Ranks |-> [pending |-> <<>>,
                      posted |-> [ch \in Channel |-> 0],
                      got |-> [ch \in Channel \ Sends |-> <<>>]]]

\* The order in which _batched_p2p_ops and _p2p_ops post their operations.
post_order(p) ==
    IF cfg.batched THEN <<"send_prev", "recv_prev", "send_next", "recv_next">>
    ELSE IF p % 2 = 0 THEN <<"send_next", "recv_prev", "send_prev", "recv_next">>
    ELSE <<"recv_prev", "send_next", "recv_next", "send_prev">>

\* Operations with the same stream run one after the other.  A batch runs as a
\* whole, so only messages in the same direction keep their order; otherwise all
\* operations between two ranks do, except that with two ranks each direction has
\* a process group of its own.
stream(p, ch) ==
    LET q == peer(p, ch)
    IN  IF cfg.batched \/ cfg.pp = 2
        THEN IF ch \in Sends THEN <<p, q>> ELSE <<q, p>>
        ELSE {p, q}

\* _communicate posts the operations of S; act is sent to the next rank and grad
\* to the previous one.
communicate(c, p, S, act, grad) ==
    LET chs == SelectSeq(post_order(p), LAMBDA ch : ch \in S)
        op(ch) == [ch |-> ch, n |-> c[p].posted[ch] + 1,
                   tensor |-> IF ch = "send_next" THEN act
                              ELSE IF ch = "send_prev" THEN grad ELSE <<>>]
    IN  [c EXCEPT ![p].pending = @ \o [i \in DOMAIN chs |-> op(chs[i])],
                  ![p].posted = [ch \in Channel |-> IF ch \in S THEN @[ch] + 1 ELSE @[ch]]]

\* The handle of the last operation posted on a channel.
Handle(c, p, ch) == [ch |-> ch, n |-> c[p].posted[ch]]

Handles(c, p, S) == {Handle(c, p, ch) : ch \in S}

Complete(p, h) ==
    \A i \in DOMAIN comm[p].pending :
        ~(comm[p].pending[i].ch = h.ch /\ comm[p].pending[i].n = h.n)

Oldest(p, i) ==
    \A j \in 1 .. (i - 1) :
        stream(p, comm[p].pending[j].ch) # stream(p, comm[p].pending[i].ch)

\* A send of p and a receive of q, each the oldest on its stream, meet.
Transfer(p, q) ==
    \E i \in DOMAIN comm[p].pending, j \in DOMAIN comm[q].pending :
        LET s == comm[p].pending[i]
            r == comm[q].pending[j]
        IN  /\ s.ch \in Sends /\ r.ch \notin Sends
            /\ peer(p, s.ch) = q /\ peer(q, r.ch) = p
            /\ Oldest(p, i) /\ Oldest(q, j)
            /\ comm' = [comm EXCEPT ![p].pending = RemoveAt(@, i),
                                    ![q].pending = RemoveAt(@, j),
                                    ![q].got[r.ch] = Append(@, s.tensor)]
==============================================================================
