----------------------------- MODULE MCScheduler -----------------------------
(* Small instances of Scheduler over blocks of two tokens.  r1 and r2 share   *)
(* their first block; the KV cache cannot hold all requests at once, so they  *)
(* preempt each other.                                                        *)
EXTENDS Scheduler

CONSTANTS r1, r2, r3

MCText == r1 :> <<1, 1, 1, 1, 1, 1, 1>> @@ r2 :> <<1, 1, 2, 2, 2, 2>> @@ r3 :> <<3, 3, 3>>

MCPromptLen == r1 :> 3 @@ r2 :> 3 @@ r3 :> 1

\* r1 has the lowest priority.
MCRank == r1 :> 3 @@ r2 :> 1 @@ r3 :> 2

\* A short prompt of high priority (r2) and a long one of low priority (r1).
LongText == r1 :> <<1, 1, 1, 1, 1, 1, 1, 1, 1, 1>> @@ r2 :> <<2, 2, 2, 2>>

LongPromptLen == r1 :> 9 @@ r2 :> 2

\* FCFS on one GPU, and the configurations that differ from it.
Plain == [priority |-> FALSE, async |-> FALSE, batches |-> 1, stages |-> FALSE,
          may |-> {}, resets |-> 0]

Pipelined(n) == [Plain EXCEPT !.batches = n, !.stages = TRUE]

Async == [Plain EXCEPT !.batches = 2, !.async = TRUE]

Priority == [Plain EXCEPT !.priority = TRUE]

MCModes ==
    {[Plain EXCEPT !.may = {"abort", "stop"}, !.resets = 1],
     [Pipelined(2) EXCEPT !.may = {"abort", "pause", "stop"}],
     [Async EXCEPT !.may = {"abort", "stop"}],
     [Priority EXCEPT !.may = {"abort"}, !.resets = 1],
     [Pipelined(2) EXCEPT !.priority = TRUE, !.may = {"abort"}],
     [Async EXCEPT !.priority = TRUE, !.may = {"abort"}]}

LiveModes == {[Pipelined(2) EXCEPT !.may = {"stop"}]}

PriorityModes == {Priority}
==============================================================================
