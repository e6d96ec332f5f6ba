--------------------------- MODULE MultiprocExecutor ---------------------------
(* The engine core's remote procedure calls to its worker processes           *)
(* (vllm/v1/executor/multiproc_executor.py): a call is broadcast to every     *)
(* worker, each worker works through its calls in order and answers on a      *)
(* queue of its own, and answers carry no call number, so that the executor   *)
(* relies on reading every queue in the order of the calls.                   *)
(*                                                                            *)
(* "model" calls (execute_model, sample_tokens) return a future, are answered *)
(* by the output rank only and are fatal to the engine when they fail.        *)
(* "utility" calls (collective_rpc for add_lora, sleep, ...) block and are    *)
(* answered by every rank; a failure is reported to the client and the engine *)
(* goes on (EngineCoreProc._invoke_utility_method).  The queues are FIFO, as  *)
(* module BroadcastQueue says; calls are numbered in the order they are made. *)
EXTENDS Integers, Sequences

CONSTANTS
    WorldSize,      \* number of workers
    OutputRank,     \* output_rank
    AsyncOutput,    \* use_async_scheduling: a thread sends the answers
    MaxCalls,       \* bound on the number of calls
    BatchQueueSize, \* batch_queue_size
    FailingKinds,   \* the kinds of call a worker may fail to execute
    Deadlines,      \* the kinds of call that are made with a timeout
    AllowCrash      \* a worker process may die

Kinds == {"model", "utility"}

ASSUME ExecutorAssumption ==
    /\ {WorldSize, MaxCalls, BatchQueueSize} \subseteq Nat \ {0}
    /\ OutputRank \in 0 .. (WorldSize - 1)
    /\ FailingKinds \subseteq Kinds /\ Deadlines \subseteq Kinds
    /\ {AsyncOutput, AllowCrash} \subseteq BOOLEAN

Rank == 0 .. (WorldSize - 1)
Call == 1 .. MaxCalls

VARIABLES
    kind,         \* the kinds of the calls made so far
    rpc,          \* rpc_broadcast_mq: calls not yet taken by each worker
    async_output, \* async_output_queue of each worker
    response,     \* worker_response_mq of each worker
    futures,      \* futures_queue, oldest first
    batch_queue,  \* EngineCore.batch_queue: model calls, oldest first
    result,       \* what each call has returned
    pc,           \* the engine thread: "run", "wait" for an answer, "dead"
    goal,         \* the call it waits for
    reading,      \* the call get_response() reads answers of, and the ranks left
    alive,        \* the worker processes alive
    is_failed,    \* set by the monitor thread
    notified      \* EXECUTOR_FAILED is in the engine's input queue

engineVars == <<kind, futures, batch_queue, result, pc, goal, reading>>
monitorVars == <<is_failed, notified>>
vars == <<engineVars, rpc, async_output, response, alive, monitorVars>>

Made == DOMAIN kind
NextCall == Len(kind) + 1

NoCall == [call |-> 0, ranks |-> <<>>, got |-> <<>>]
Pending == [status |-> "pending", got |-> <<>>]

\* A call that raised, with the answers it had read until then.
Raised(got) == [status |-> "raised", got |-> got]

Init ==
    /\ kind = <<>> /\ futures = <<>> /\ batch_queue = <<>>
    /\ rpc = [w \in Rank |-> <<>>]
    /\ async_output = [w \in Rank |-> <<>>]
    /\ response = [w \in Rank |-> <<>>]
    /\ result = [c \in Call |-> Pending]
    /\ pc = "run" /\ goal = 0 /\ reading = NoCall
    /\ alive = Rank
    /\ is_failed = FALSE /\ notified = FALSE

-----------------------------------------------------------------------------
(* collective_rpc() and its futures, on the engine thread.                    *)

\* The call is refused when the executor is known to have failed.
Refuse(k) ==
    /\ pc = "run"
    /\ Len(kind) < MaxCalls
    /\ is_failed
    /\ kind' = Append(kind, k)
    /\ result' = [result EXCEPT ![NextCall] = Raised(<<>>)]
    /\ pc' = IF k = "model" THEN "dead" ELSE pc
    /\ UNCHANGED <<futures, batch_queue, goal, reading, rpc, async_output, response, alive,
                   monitorVars>>

Enqueue(k) ==
    /\ pc = "run"
    /\ Len(kind) < MaxCalls
    /\ ~is_failed
    /\ kind' = Append(kind, k)
    /\ rpc' = [w \in Rank |-> Append(rpc[w], NextCall)]

\* execute_model(non_block=True), as step_with_batch_queue calls it.
CallModel ==
    /\ Enqueue("model")
    /\ Len(batch_queue) < BatchQueueSize
    /\ futures' = Append(futures, NextCall)
    /\ batch_queue' = Append(batch_queue, NextCall)
    /\ UNCHANGED <<result, pc, goal, reading, async_output, response, alive, monitorVars>>

\* A blocking collective_rpc(), in a utility method a client has called.
CallUtility ==
    /\ Enqueue("utility")
    /\ goal' = NextCall
    /\ pc' = "wait"
    /\ UNCHANGED <<futures, batch_queue, result, reading, async_output, response, alive,
                   monitorVars>>

\* future.result() of the oldest batch.
AwaitBatch ==
    /\ pc = "run"
    /\ batch_queue # <<>>
    /\ goal' = Head(batch_queue)
    /\ batch_queue' = Tail(batch_queue)
    /\ pc' = "wait"
    /\ UNCHANGED <<kind, futures, result, reading, rpc, async_output, response, alive,
                   monitorVars>>

\* The ranks whose answers a call waits for, in the order it reads them.
response_mqs(c) ==
    IF kind[c] = "model" THEN <<OutputRank>> ELSE [i \in 1 .. WorldSize |-> i - 1]

\* Mutant: a blocking call does not drain the futures before it.
NextToReadUndrained == IF kind[goal] = "utility" THEN goal ELSE Head(futures)

\* Futures ahead in the queue are drained first.
NextToRead == IF futures # <<>> THEN Head(futures) ELSE goal

StartReading ==
    /\ pc = "wait"
    /\ reading = NoCall
    /\ result[goal] = Pending
    /\ reading' = [call |-> NextToRead, ranks |-> response_mqs(NextToRead), got |-> <<>>]
    /\ futures' = IF futures # <<>> /\ NextToRead = Head(futures) THEN Tail(futures) ELSE futures
    /\ UNCHANGED <<kind, batch_queue, result, pc, goal, rpc, async_output, response, alive,
                   monitorVars>>

\* One answer is read: an error ends the reading, the last one completes it.
Receive ==
    LET w == Head(reading.ranks)
        answer == Head(response[w])
        got == Append(reading.got, answer.call)
    IN  /\ reading # NoCall
        /\ response[w] # <<>>
        /\ response' = [response EXCEPT ![w] = Tail(@)]
        /\ \/ /\ ~answer.ok
              /\ result' = [result EXCEPT ![reading.call] = Raised(got)]
              /\ reading' = NoCall
           \/ /\ answer.ok /\ Len(reading.ranks) = 1
              /\ result' = [result EXCEPT ![reading.call] =
                              [status |-> "returned", got |-> got]]
              /\ reading' = NoCall
           \/ /\ answer.ok /\ Len(reading.ranks) > 1
              /\ reading' = [reading EXCEPT !.ranks = Tail(@), !.got = got]
              /\ UNCHANGED result
        /\ UNCHANGED <<kind, futures, batch_queue, pc, goal, rpc, async_output, alive,
                       monitorVars>>

\* TimeoutError: the deadline passes before the answer of the next rank arrives,
\* which may come later.
Timeout ==
    /\ reading # NoCall
    /\ response[Head(reading.ranks)] = <<>>
    /\ kind[reading.call] \in Deadlines
    /\ result' = [result EXCEPT ![reading.call] = Raised(reading.got)]
    /\ reading' = NoCall
    /\ UNCHANGED <<kind, futures, batch_queue, pc, goal, rpc, async_output, response, alive,
                   monitorVars>>

\* The call waited for is done.  A failed batch ends the engine; a failed utility
\* call is reported to the client that made it.
Finish ==
    /\ pc = "wait"
    /\ reading = NoCall
    /\ result[goal] # Pending
    /\ pc' = IF kind[goal] = "model" /\ result[goal].status = "raised" THEN "dead" ELSE "run"
    /\ goal' = 0
    /\ UNCHANGED <<kind, futures, batch_queue, result, reading, rpc, async_output, response,
                   alive, monitorVars>>

\* The engine takes EXECUTOR_FAILED from its input queue.
HandleExecutorFailed ==
    /\ pc = "run"
    /\ notified
    /\ pc' = "dead"
    /\ UNCHANGED <<kind, futures, batch_queue, result, goal, reading, rpc, async_output,
                   response, alive, monitorVars>>

-----------------------------------------------------------------------------
(* worker_busy_loop() and async_output_busy_loop().                           *)

\* Whether worker w answers call c.
Answers(w, c) == kind[c] = "utility" \/ w = OutputRank

\* Mutant: an exception is not answered.
AnswerIfDone(w, c, ok) == IF Answers(w, c) /\ ok THEN <<[call |-> c, ok |-> ok]>> ELSE <<>>

\* What worker w hands to handle_output() for call c.
AnswerTo(w, c, ok) == IF Answers(w, c) THEN <<[call |-> c, ok |-> ok]>> ELSE <<>>

Execute(w) ==
    /\ w \in alive
    /\ rpc[w] # <<>>
    /\ rpc' = [rpc EXCEPT ![w] = Tail(@)]
    /\ \E ok \in BOOLEAN :
          LET answer == AnswerTo(w, Head(rpc[w]), ok)
          IN  /\ ok \/ kind[Head(rpc[w])] \in FailingKinds
              /\ IF AsyncOutput
                 THEN /\ async_output' = [async_output EXCEPT ![w] = @ \o answer]
                      /\ UNCHANGED response
                 ELSE /\ response' = [response EXCEPT ![w] = @ \o answer]
                      /\ UNCHANGED async_output
    /\ UNCHANGED <<engineVars, alive, monitorVars>>

EnqueueOutput(w) ==
    /\ w \in alive
    /\ async_output[w] # <<>>
    /\ response' = [response EXCEPT ![w] = Append(@, Head(async_output[w]))]
    /\ async_output' = [async_output EXCEPT ![w] = Tail(@)]
    /\ UNCHANGED <<engineVars, rpc, alive, monitorVars>>

-----------------------------------------------------------------------------
(* Worker failure and the monitor thread.                                     *)

Crash(w) ==
    /\ AllowCrash
    /\ w \in alive
    /\ alive' = alive \ {w}
    /\ UNCHANGED <<engineVars, rpc, async_output, response, monitorVars>>

MonitorDetects ==
    /\ alive # Rank
    /\ ~is_failed
    /\ is_failed' = TRUE
    /\ UNCHANGED <<engineVars, rpc, async_output, response, alive, notified>>

\* Mutant: the engine is not told.
MonitorShutdownSilent ==
    /\ is_failed /\ ~notified /\ alive # {}
    /\ alive' = {}
    /\ rpc' = [w \in Rank |-> <<>>]
    /\ UNCHANGED <<engineVars, async_output, response, monitorVars>>

\* shutdown() terminates the other workers and drops the broadcast queue; then
\* the failure callback tells the engine.  The event it sets wakes nobody:
\* dequeue() does not look at its argument "cancel".
MonitorShutdown ==
    /\ is_failed /\ ~notified
    /\ alive' = {}
    /\ rpc' = [w \in Rank |-> <<>>]
    /\ notified' = TRUE
    /\ UNCHANGED <<engineVars, async_output, response, is_failed>>

-----------------------------------------------------------------------------
Engine ==
    AwaitBatch \/ StartReading \/ Receive \/ Finish \/ HandleExecutorFailed

Worker(w) == Execute(w) \/ EnqueueOutput(w)

Next ==
    \/ \E k \in Kinds : Refuse(k)
    \/ CallModel \/ CallUtility
    \/ Engine \/ Timeout
    \/ \E w \in Rank : Worker(w) \/ Crash(w)
    \/ MonitorDetects \/ MonitorShutdown

Spec == Init /\ [][Next]_vars

\* The threads keep running, and deadlines pass.
FairSpec ==
    /\ Spec
    /\ WF_vars(Engine) /\ WF_vars(Timeout)
    /\ WF_vars(MonitorDetects) /\ WF_vars(MonitorShutdown)
    /\ \A w \in Rank : WF_vars(Execute(w)) /\ WF_vars(EnqueueOutput(w))

-----------------------------------------------------------------------------
\* A call that raised with answers still to come: it was refused, its deadline
\* passed, or a rank before the last one failed.  No one reads what it left.
GaveUp(c) == result[c].status = "raised" /\ Len(result[c].got) < Len(response_mqs(c))

\* The answer to call a may be one that nobody has read in time.
LeftOver(a) == \E d \in 1 .. a : GaveUp(d)

\* An answer that call c may read: its own, or an older one that was left over.
Fits(c, a) == a <= c /\ (a < c => LeftOver(a))

\* Answers carry no call number, and get_response() takes the next one: futures,
\* blocking calls and the output threads have to keep the order of the calls in
\* every queue.  What a call reads, be it a result, an error or the part it has
\* read at its deadline, is then its own answer.  It is never the answer to a
\* later call, and it is that of an older one only after some call was given up.
AnswersMatchCalls ==
    \A c \in Call : \A i \in DOMAIN result[c].got : Fits(c, result[c].got[i])

\* No call that is made after a failed one returns anything, as the failure ends
\* the system: "if an Exception arises in busy_loop, we send a FAILURE message over
\* the MQ RPC to notify the Executor, which triggers system shutdown"
\* (multiproc_executor.py:794-796).  The failure of a utility call does not: the
\* next call returns, and with an answer that the failed one has left.
FailureEndsTheSystem ==
    \A c, d \in Call :
        c < d /\ result[c].status = "raised" => result[d].status # "returned"

\* Every call returns or raises while the workers live, in whatever order futures
\* and blocking calls are waited for.
CallsEnd ==
    \A c \in Call : (c \in Made) ~> (result[c] # Pending \/ pc = "dead" \/ alive # Rank)

\* Waiting, without a deadline, for an answer that cannot come any more.
Abandoned ==
    /\ reading # NoCall
    /\ kind[reading.call] \notin Deadlines
    /\ response[Head(reading.ranks)] = <<>>
    /\ Head(reading.ranks) \notin alive

\* When a worker dies the engine ends too, whatever it was doing, unless it is in
\* a call without a deadline: that one waits for ever (no event interrupts it).
FailureReachesEngine == (alive # Rank) ~> (pc = "dead" \/ Abandoned)
==============================================================================
