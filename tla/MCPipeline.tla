------------------------------ MODULE MCPipeline ------------------------------
(* Small pipelines: two and three ranks, with and without interleaving.         *)
EXTENDS PipelineSchedule

\* Without interleaving: more and fewer microbatches than ranks.
Plain(pp, m, forward_only, grad_sync) ==
    [pp |-> pp, vpp |-> 1, m |-> m, group |-> 1, batched |-> TRUE, overlap |-> FALSE,
     flush |-> FALSE, forward_only |-> forward_only, grad_sync |-> grad_sync]

\* With interleaving; kind is "batched", "overlap" or "flush".
Inter(pp, vpp, m, group, kind, forward_only, grad_sync) ==
    [pp |-> pp, vpp |-> vpp, m |-> m, group |-> group, batched |-> kind = "batched",
     overlap |-> kind # "batched", flush |-> kind = "flush",
     forward_only |-> forward_only, grad_sync |-> grad_sync]

MCConfigs ==
    {Plain(3, m, fo, gs) : m \in {1, 4}, fo \in BOOLEAN, gs \in BOOLEAN}
        \cup {Inter(3, 2, m, 3, kind, FALSE, gs) :
                m \in {3, 6}, kind \in {"batched", "overlap", "flush"}, gs \in BOOLEAN}
        \cup {Inter(3, 2, 3, 3, kind, TRUE, FALSE) : kind \in {"batched", "overlap", "flush"}}
        \cup {Inter(2, 2, 5, 3, kind, FALSE, gs) : kind \in {"overlap", "flush"}, gs \in BOOLEAN}
        \cup {Inter(2, 3, 4, 2, kind, fo, FALSE) : kind \in {"overlap", "flush"}, fo \in BOOLEAN}

==============================================================================
