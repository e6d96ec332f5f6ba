------------------------------- MODULE DPWaves -------------------------------
(* Data-parallel engines that run in waves: DPEngineCoreProc of               *)
(* vllm/v1/engine/core.py, DPCoordinatorProc of coordinator.py and the client *)
(* side, DPAsyncMPClient of core_client.py.                                   *)
(*                                                                            *)
(* Every forward pass is a collective of all engines (expert parallelism), so *)
(* an engine without requests runs dummy passes while others have some, and   *)
(* all of them pause together when an all-reduce, made every SyncEvery steps, *)
(* finds no request left: the wave ends.  A request that meets paused engines *)
(* has to wake all of them: its client tells the coordinator (FIRST_REQ), or  *)
(* the engine does, if the client still believed the engines to be running.   *)
(*                                                                            *)
(* Messages on one connection arrive in order; different connections are      *)
(* independent.  Load statistics, elastic scaling and pausing the scheduler   *)
(* are left out.                                                              *)
EXTENDS Integers, Sequences, SequencesExt

CONSTANTS
    NEngines,       \* data_parallel_size
    Client,         \* the front-end processes
    MaxRequests,    \* bound on the number of requests
    Steps,          \* forward passes a request takes
    SyncEvery,      \* 32 in _has_global_unfinished_reqs
    AllowAbort,     \* requests may be aborted while the engines run
    AllowEarlyAbort \* ... and before the engine has joined a wave for them

ASSUME DPAssumption ==
    /\ {NEngines, MaxRequests, Steps, SyncEvery} \subseteq Nat \ {0}
    /\ {AllowAbort, AllowEarlyAbort} \subseteq BOOLEAN

Engine == 0 .. (NEngines - 1)
Request == 1 .. MaxRequests
Nobody == -1

VARIABLES
    pc,               \* the engine thread: "input", "forward", "sync", "reduce"
    engines_running,  \* engines_running of each engine
    current_wave,     \* current_wave of each engine
    step_counter,     \* step_counter of each engine
    live,             \* the requests of each engine, with the steps they still need
    adds,             \* ADD messages from each client to each engine
    starts,           \* START_DP_WAVE messages to each engine
    outputs,          \* messages of each engine to the coordinator
    coordinator,      \* [wave, running] of the coordinator
    fronts,           \* messages of each client to the coordinator
    pubs,             \* messages of the coordinator to each client
    client,           \* [wave, running] of each client
    first_reqs,       \* FIRST_REQ messages to each client's stats task
    nreqs             \* requests made so far

engineVars == <<pc, engines_running, current_wave, step_counter, live>>
clientVars == <<client, first_reqs, nreqs>>
channels == <<adds, starts, outputs, fronts, pubs>>
vars == <<engineVars, coordinator, clientVars, channels>>

Init ==
    /\ pc = [e \in Engine |-> "input"]
    /\ engines_running = [e \in Engine |-> FALSE]
    /\ current_wave = [e \in Engine |-> 0]
    /\ step_counter = [e \in Engine |-> 0]
    /\ live = [e \in Engine |-> {}]
    /\ adds = [c \in Client |-> [e \in Engine |-> <<>>]]
    /\ starts = [e \in Engine |-> <<>>]
    /\ outputs = [e \in Engine |-> <<>>]
    /\ coordinator = [wave |-> 0, running |-> FALSE]
    /\ fronts = [c \in Client |-> <<>>]
    /\ pubs = [c \in Client |-> <<>>]
    /\ client = [c \in Client |-> [wave |-> 0, running |-> FALSE]]
    /\ first_reqs = [c \in Client |-> 0]
    /\ nreqs = 0

-----------------------------------------------------------------------------
(* Clients (core_client.py).                                                  *)

\* add_request_async
AddRequest(c, e) ==
    /\ nreqs < MaxRequests
    /\ nreqs' = nreqs + 1
    /\ adds' = [adds EXCEPT ![c][e] =
                  Append(@, [req |-> nreqs + 1, wave |-> client[c].wave])]
    /\ first_reqs' = IF client[c].running THEN first_reqs
                     ELSE [first_reqs EXCEPT ![c] = @ + 1]
    /\ UNCHANGED <<engineVars, coordinator, client, starts, outputs, fronts, pubs>>

\* The stats task forwards a FIRST_REQ, with the wave known by now.  When an
\* update has arrived too, a client that believes the engines to run takes that
\* first.  The engine the message names is an identity and no index, so that no
\* engine recognises itself as the excluded one.
ForwardFirstReq(c) ==
    /\ first_reqs[c] > 0
    /\ pubs[c] = <<>> \/ ~client[c].running
    /\ first_reqs' = [first_reqs EXCEPT ![c] = @ - 1]
    /\ fronts' = [fronts EXCEPT ![c] = Append(@, client[c].wave)]
    /\ client' = [client EXCEPT ![c].running = TRUE]
    /\ UNCHANGED <<engineVars, coordinator, nreqs, adds, starts, outputs, pubs>>

\* The stats task drains the updates and keeps the last one.
TakeUpdate(c) ==
    /\ pubs[c] # <<>>
    /\ first_reqs[c] = 0 \/ client[c].running
    /\ client' = [client EXCEPT ![c] = Last(pubs[c])]
    /\ pubs' = [pubs EXCEPT ![c] = <<>>]
    /\ UNCHANGED <<engineVars, coordinator, first_reqs, nreqs, adds, starts, outputs, fronts>>

-----------------------------------------------------------------------------
(* The coordinator (coordinator.py).                                          *)

Published(state) == [c \in Client |-> Append(pubs[c], state)]

StartWave(wave, exclude) ==
    [e \in Engine |-> Append(starts[e], [wave |-> wave, exclude |-> exclude])]

\* A client has sent a request while the engines are paused.
HandleFirstReq(c) ==
    LET state == [coordinator EXCEPT !.running = TRUE]
    IN  /\ fronts[c] # <<>>
        /\ fronts' = [fronts EXCEPT ![c] = Tail(@)]
        /\ IF coordinator.running
           THEN UNCHANGED <<coordinator, starts, pubs>>
           ELSE /\ coordinator' = state
                /\ starts' = StartWave(state.wave, Nobody)
                /\ pubs' = Published(state)
        /\ UNCHANGED <<engineVars, clientVars, adds, outputs>>

\* Mutant: the wave the coordinator is in does not end.
EndsLaterWave(wave) == coordinator.wave < wave

\* Whether an engine's wave_complete message is news to the coordinator.
EndsWave(wave) == coordinator.wave <= wave

AfterWave(wave) == [wave |-> wave + 1, running |-> FALSE]

HandleWaveComplete(e) ==
    LET wave == Head(outputs[e]).wave
    IN  /\ outputs[e] # <<>>
        /\ Head(outputs[e]).type = "wave_complete"
        /\ outputs' = [outputs EXCEPT ![e] = Tail(@)]
        /\ IF EndsWave(wave)
           THEN /\ coordinator' = AfterWave(wave)
                /\ pubs' = Published(AfterWave(wave))
           ELSE UNCHANGED <<coordinator, pubs>>
        /\ UNCHANGED <<engineVars, clientVars, adds, starts, fronts>>

\* Whether an engine's start_wave message is news to the coordinator.
StartsWave(wave) ==
    wave > coordinator.wave \/ (wave = coordinator.wave /\ ~coordinator.running)

\* An engine has received a request of a wave that is over: all others must run.
HandleStartWave(e) ==
    LET wave == Head(outputs[e]).wave
        state == [wave |-> wave, running |-> TRUE]
    IN  /\ outputs[e] # <<>>
        /\ Head(outputs[e]).type = "start_wave"
        /\ outputs' = [outputs EXCEPT ![e] = Tail(@)]
        /\ IF StartsWave(wave)
           THEN /\ coordinator' = state
                /\ starts' = StartWave(wave, e)
                /\ pubs' = Published(state)
           ELSE UNCHANGED <<coordinator, starts, pubs>>
        /\ UNCHANGED <<engineVars, clientVars, adds, fronts>>

\* The periodic publication; modelled while no other is under way.
PublishStats ==
    /\ \A c \in Client : pubs[c] = <<>>
    /\ pubs' = Published(coordinator)
    /\ UNCHANGED <<engineVars, coordinator, clientVars, adds, starts, outputs, fronts>>

-----------------------------------------------------------------------------
(* Engines (core.py): the input queue.                                        *)

has_unfinished_requests(e) == live[e] # {}

\* Mutant: a request of an old wave wakes nobody.
NotifiesNever(e, wave) == FALSE

\* The request meets paused engines in a later wave than its client knew.
NotifiesStaleWave(e, wave) == wave < current_wave[e] /\ ~engines_running[e]

\* add_request
HandleAdd(e, c) ==
    LET m == Head(adds[c][e])
    IN  /\ pc[e] = "input"
        /\ adds[c][e] # <<>>
        /\ adds' = [adds EXCEPT ![c][e] = Tail(@)]
        /\ live' = [live EXCEPT ![e] = @ \cup {[req |-> m.req, left |-> Steps]}]
        /\ current_wave' = IF m.wave > current_wave[e]
                           THEN [current_wave EXCEPT ![e] = m.wave] ELSE current_wave
        /\ outputs' = IF NotifiesStaleWave(e, m.wave)
                      THEN [outputs EXCEPT ![e] = Append(@,
                              [type |-> "start_wave", wave |-> current_wave[e]])]
                      ELSE outputs
        /\ UNCHANGED <<pc, engines_running, step_counter, coordinator, clientVars, starts,
                       fronts, pubs>>

\* Mutant: a start message for the current wave is taken for an old one.
AcceptsNewerOnly(e, m) == m.exclude # e /\ m.wave > current_wave[e]

AcceptsStart(e, m) == m.exclude # e /\ m.wave >= current_wave[e]

\* START_DP_WAVE
HandleStart(e) ==
    LET m == Head(starts[e])
    IN  /\ pc[e] = "input"
        /\ starts[e] # <<>>
        /\ starts' = [starts EXCEPT ![e] = Tail(@)]
        /\ IF AcceptsStart(e, m)
           THEN /\ current_wave' = [current_wave EXCEPT ![e] = m.wave]
                /\ engines_running' = [engines_running EXCEPT ![e] = TRUE]
           ELSE UNCHANGED <<current_wave, engines_running>>
        /\ UNCHANGED <<pc, step_counter, live, coordinator, clientVars, adds, outputs,
                       fronts, pubs>>

\* An abort ends a request of engine e.
Abort(e, q) ==
    /\ pc[e] = "input"
    /\ AllowAbort
    /\ engines_running[e] \/ AllowEarlyAbort
    /\ live' = [live EXCEPT ![e] = @ \ {q}]
    /\ UNCHANGED <<pc, engines_running, current_wave, step_counter, coordinator, clientVars,
                   channels>>

-----------------------------------------------------------------------------
(* Engines: run_busy_loop.                                                    *)

\* The engine executes its requests, or a dummy batch while the wave runs.
JoinsForward(e) == has_unfinished_requests(e) \/ engines_running[e]

BeginForward(e) ==
    /\ pc[e] = "input"
    /\ JoinsForward(e)
    /\ pc' = [pc EXCEPT ![e] = "forward"]
    /\ UNCHANGED <<engines_running, current_wave, step_counter, live, coordinator,
                   clientVars, channels>>

\* One step of each request; those that need no more are finished.
AfterStep(reqs) ==
    {[q EXCEPT !.left = @ - 1] : q \in {p \in reqs : p.left > 1}}

\* The collective operations of a forward pass end when every engine is in it.
Forward ==
    /\ \A e \in Engine : pc[e] = "forward"
    /\ pc' = [e \in Engine |-> "sync"]
    /\ live' = [e \in Engine |-> AfterStep(live[e])]
    /\ UNCHANGED <<engines_running, current_wave, step_counter, coordinator, clientVars,
                   channels>>

\* Mutant: a step made before the engine was told of the wave is not counted.
CountsRunningSteps(e) ==
    IF engines_running[e] THEN step_counter[e] + 1 ELSE step_counter[e]

NextStepCounter(e) == step_counter[e] + 1

\* _has_global_unfinished_reqs: most steps take the wave for unfinished.
Sync(e) ==
    LET n == NextStepCounter(e)
    IN  /\ pc[e] = "sync"
        /\ step_counter' = [step_counter EXCEPT ![e] = n]
        /\ IF n % SyncEvery # 0
           THEN /\ engines_running' = [engines_running EXCEPT ![e] = TRUE]
                /\ pc' = [pc EXCEPT ![e] = "input"]
           ELSE /\ pc' = [pc EXCEPT ![e] = "reduce"]
                /\ UNCHANGED engines_running
        /\ UNCHANGED <<current_wave, live, coordinator, clientVars, channels>>

has_unfinished_dp == \E e \in Engine : has_unfinished_requests(e)

\* The all-reduce: the wave goes on, or all engines pause and the first one tells
\* the coordinator.
AllReduce ==
    /\ \A e \in Engine : pc[e] = "reduce"
    /\ pc' = [e \in Engine |-> "input"]
    /\ engines_running' = [e \in Engine |-> has_unfinished_dp]
    /\ IF has_unfinished_dp
       THEN UNCHANGED <<current_wave, step_counter, outputs>>
       ELSE /\ outputs' = [outputs EXCEPT ![0] = Append(@,
                              [type |-> "wave_complete", wave |-> current_wave[0]])]
            /\ current_wave' = [e \in Engine |-> current_wave[e] + 1]
            /\ step_counter' = [e \in Engine |-> 0]
    /\ UNCHANGED <<live, coordinator, clientVars, adds, starts, fronts, pubs>>

-----------------------------------------------------------------------------
EngineStep(e) ==
    \/ \E c \in Client : HandleAdd(e, c)
    \/ HandleStart(e) \/ BeginForward(e) \/ Sync(e)

Coordinate ==
    \/ \E c \in Client : HandleFirstReq(c)
    \/ \E e \in Engine : HandleWaveComplete(e) \/ HandleStartWave(e)

StatsTask(c) == ForwardFirstReq(c) \/ TakeUpdate(c)

Next ==
    \/ \E c \in Client : \E e \in Engine : AddRequest(c, e)
    \/ \E c \in Client : StatsTask(c)
    \/ Coordinate \/ PublishStats
    \/ \E e \in Engine : EngineStep(e)
    \/ \E e \in Engine : \E q \in live[e] : Abort(e, q)
    \/ Forward \/ AllReduce

Spec == Init /\ [][Next]_vars

\* Every process keeps running, an engine reads each of its sockets, and a
\* collective ends once all have joined it.  Nothing is assumed of clients'
\* requests, aborts or periodic publications.
FairSpec ==
    /\ Spec
    /\ WF_vars(Forward) /\ WF_vars(AllReduce)
    /\ \A e \in Engine :
          /\ WF_vars(BeginForward(e)) /\ WF_vars(Sync(e))
          /\ SF_vars(HandleStart(e))
          /\ \A c \in Client : SF_vars(HandleAdd(e, c))
          /\ WF_vars(HandleWaveComplete(e)) /\ WF_vars(HandleStartWave(e))
    /\ \A c \in Client :
          /\ SF_vars(ForwardFirstReq(c)) /\ WF_vars(TakeUpdate(c))
          /\ WF_vars(HandleFirstReq(c))

-----------------------------------------------------------------------------
\* Engines meet in the same collective: none waits in an all-reduce for one that
\* waits in a forward pass, because their step counters agree, however waves end
\* and begin.
CollectivesMatch ==
    \A e, f \in Engine :
        pc[e] = "reduce" =>
            /\ pc[f] \in {"sync", "reduce"}
            /\ pc[f] = "reduce" => step_counter[f] = step_counter[e]

\* The engines agree on the wave, and neither the coordinator nor a client is
\* ahead of them: add_request never moves an engine to a later wave.
WavesAgree ==
    \A e, f \in Engine :
        /\ current_wave[e] = current_wave[f]
        /\ coordinator.wave <= current_wave[e]
        /\ \A c \in Client : client[c].wave <= coordinator.wave

\* The engines never lose one another, whatever the coordinator does.
EnginesAgree == CollectivesMatch /\ WavesAgree

Paused == \A e \in Engine : pc[e] = "input" /\ ~JoinsForward(e)

Silent ==
    /\ \A e \in Engine : starts[e] = <<>> /\ outputs[e] = <<>>
    /\ \A c \in Client : fronts[c] = <<>> /\ pubs[c] = <<>>

\* When all engines are paused and nothing is under way, the coordinator and the
\* clients know it: one that took the engines for running would not wake them
\* for the next request.
PauseIsKnown ==
    Paused /\ Silent =>
        /\ ~coordinator.running /\ coordinator.wave = current_wave[0]
        /\ \A c \in Client : client[c] = coordinator

Outstanding(r) ==
    \/ \E e \in Engine : \E q \in live[e] : q.req = r
    \/ \E c \in Client : \E e \in Engine : \E i \in DOMAIN adds[c][e] :
          adds[c][e][i].req = r

\* Every request is finished or aborted, also one that was sent while the wave
\* was ending, to an engine the others do not run with yet.
EveryRequestEnds == \A r \in Request : (nreqs >= r) ~> ~Outstanding(r)

\* When the requests are done the engines stop running dummy batches.
EnginesPause == <>[]Paused
==============================================================================
