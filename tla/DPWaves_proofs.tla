---------------------------- MODULE DPWaves_proofs ----------------------------
(* Proofs about DPWaves: the engines meet in every collective and agree on the *)
(* wave, and a pause of all engines is known to the coordinator and the        *)
(* clients, for any number of engines, clients and requests.                   *)
EXTENDS DPWaves, SequenceTheorems, TLAPS

\* The messages and what the coordinator and a client know.
State == [wave : Nat, running : BOOLEAN]
StartMessage == [wave : Nat, exclude : Int]
OutputMessage == [type : {"wave_complete", "start_wave"}, wave : Nat]
AddMessage == [req : Request, wave : Nat]

\* The types of the variables.
TypeOK ==
    /\ pc \in [Engine -> {"input", "forward", "sync", "reduce"}]
    /\ engines_running \in [Engine -> BOOLEAN]
    /\ current_wave \in [Engine -> Nat]
    /\ step_counter \in [Engine -> Nat]
    /\ live \in [Engine -> SUBSET [req : Request, left : 1 .. Steps]]
    /\ adds \in [Client -> [Engine -> Seq(AddMessage)]]
    /\ starts \in [Engine -> Seq(StartMessage)]
    /\ outputs \in [Engine -> Seq(OutputMessage)]
    /\ coordinator \in State
    /\ fronts \in [Client -> Seq(Nat)]
    /\ pubs \in [Client -> Seq(State)]
    /\ client \in [Client -> State]
    /\ first_reqs \in [Client -> Nat]
    /\ nreqs \in 0 .. MaxRequests

\* The number of the forward pass engine e is in, or has made last.
Round(e) == IF pc[e] = "sync" THEN step_counter[e] + 1 ELSE step_counter[e]

\* The engines are in the same pass; one that waits in the all-reduce has counted a
\* multiple of SyncEvery, and one that has gone on has not.
Rounds ==
    \A e, f \in Engine :
        /\ Round(e) = Round(f)
        /\ pc[e] = "reduce" => /\ step_counter[e] % SyncEvery = 0
                               /\ pc[f] \in {"sync", "reduce"}
        /\ pc[e] = "sync" /\ pc[f] \in {"input", "forward"}
              => step_counter[f] % SyncEvery # 0

\* The waves that the messages of s name are at most w.
Below(s, w) == \A i \in 1 .. Len(s) : s[i].wave <= w

\* All engines are in one wave and nobody is ahead of it: not the coordinator, nor a
\* client or a message under way.
Waves ==
    /\ \A e, f \in Engine : current_wave[e] = current_wave[f]
    /\ coordinator.wave <= current_wave[0]
    /\ \A c \in Client :
          /\ client[c].wave <= coordinator.wave
          /\ Below(pubs[c], coordinator.wave)
          /\ \A e \in Engine : Below(adds[c][e], current_wave[0])
    /\ \A e \in Engine :
          /\ Below(starts[e], current_wave[0])
          /\ Below(outputs[e], current_wave[0])
          /\ \A i \in 1 .. Len(outputs[e]) :
                outputs[e][i].type = "wave_complete" => outputs[e][i].wave < current_wave[0]

\* Engine e makes the passes of this wave.
Awake(e) == live[e] # {} \/ pc[e] # "input" \/ engines_running[e]

\* The START_DP_WAVE message m will be accepted by engine e.
Wakes(m, e) == m.wave = current_wave[0] /\ m.exclude # e

\* An engine that asked for the current wave makes its passes.
StartersAwake ==
    \A e \in Engine : \A i \in 1 .. Len(outputs[e]) :
        outputs[e][i].type = "start_wave" /\ outputs[e][i].wave = current_wave[0] => Awake(e)

\* The coordinator knows of the end of the last wave, or will.
WaveEndIsTold ==
    \/ coordinator.wave = current_wave[0]
    \/ \E i \in 1 .. Len(outputs[0]) :
          outputs[0][i].type = "wave_complete" /\ outputs[0][i].wave = current_wave[0] - 1

\* The coordinator takes the engines for running only if one is or will be.
RunningIsTrue ==
    coordinator.running /\ coordinator.wave = current_wave[0] =>
        \E e \in Engine : Awake(e) \/ \E i \in 1 .. Len(starts[e]) : Wakes(starts[e][i], e)

\* A client knows what the coordinator does, or an update or a FIRST_REQ is under way.
ClientsInformed ==
    \A c \in Client :
        /\ pubs[c] # <<>> => Last(pubs[c]) = coordinator
        /\ pubs[c] = <<>> =>
              /\ client[c].wave = coordinator.wave
              /\ coordinator.running => client[c].running
              /\ client[c].running /\ fronts[c] = <<>> => coordinator.running

\* What the coordinator and the clients know of the engines.
Knowledge == StartersAwake /\ WaveEndIsTold /\ RunningIsTrue /\ ClientsInformed

\* The inductive invariant about the engines.
IInv == TypeOK /\ Rounds /\ Waves

\* The constants and the sets made of them.
LEMMA Sizes ==
    /\ NEngines \in Nat \ {0} /\ SyncEvery \in Nat \ {0} /\ Steps \in Nat \ {0}
    /\ MaxRequests \in Nat \ {0}
    /\ Engine = 0 .. (NEngines - 1) /\ 0 \in Engine
    /\ Request = 1 .. MaxRequests /\ Nobody = -1 /\ Nobody \notin Engine
BY DPAssumption DEF Engine, Request, Nobody

\* What a sequence holds after an append, and ...
LEMMA AppendFacts ==
    ASSUME NEW S, NEW s \in Seq(S), NEW x \in S
    PROVE  /\ Append(s, x) \in Seq(S)
           /\ Len(Append(s, x)) = Len(s) + 1
           /\ Len(s) \in Nat
           /\ Append(s, x) # <<>>
           /\ Last(Append(s, x)) = x
           /\ \A i \in 1 .. Len(s) : i \in 1 .. Len(Append(s, x)) /\ Append(s, x)[i] = s[i]
           /\ \A i \in 1 .. Len(Append(s, x)) :
                 \/ i \in 1 .. Len(s) /\ Append(s, x)[i] = s[i]
                 \/ Append(s, x)[i] = x
           /\ \E i \in 1 .. Len(Append(s, x)) : Append(s, x)[i] = x
<1>1. /\ Append(s, x) \in Seq(S) /\ Len(Append(s, x)) = Len(s) + 1 /\ Len(s) \in Nat
      /\ Append(s, x)[Len(s) + 1] = x
      /\ \A i \in 1 .. Len(s) : Append(s, x)[i] = s[i]
  OBVIOUS
<1> DEFINE t == Append(s, x)
<1> HIDE DEF t
<1>2. Last(t) = x
  BY <1>1 DEF Last, t
<1>3. t # <<>>
  BY <1>1 DEF t
<1> QED
  BY <1>1, <1>2, <1>3 DEF t

\* ... after its head is taken.
LEMMA TailFacts ==
    ASSUME NEW S, NEW s \in Seq(S), s # <<>>
    PROVE  /\ Tail(s) \in Seq(S)
           /\ Len(s) \in Nat
           /\ Head(s) \in S /\ 1 \in 1 .. Len(s) /\ Head(s) = s[1]
           /\ \A i \in 1 .. Len(Tail(s)) : i + 1 \in 1 .. Len(s) /\ Tail(s)[i] = s[i + 1]
           /\ \A i \in 1 .. Len(s) :
                 i = 1 \/ (i - 1 \in 1 .. Len(Tail(s)) /\ Tail(s)[i - 1] = s[i])
OBVIOUS

\* A bound on the waves of a channel survives a send within the bound, ...
LEMMA BelowAppend ==
    ASSUME NEW S, NEW s \in Seq(S), NEW x \in S, NEW w, Below(s, w), x.wave <= w
    PROVE  Below(Append(s, x), w)
BY AppendFacts DEF Below

\* ... a receive, whose message is within it, ...
LEMMA BelowTail ==
    ASSUME NEW S, NEW s \in Seq(S), s # <<>>, NEW w, Below(s, w)
    PROVE  Below(Tail(s), w) /\ Head(s).wave <= w
BY TailFacts DEF Below

\* ... and a larger bound.
LEMMA BelowMore ==
    ASSUME NEW S, NEW s \in Seq(S), \A x \in S : x.wave \in Nat,
           NEW w \in Nat, NEW v \in Nat, w <= v, Below(s, w)
    PROVE  Below(s, v)
<1>1. \A i \in 1 .. Len(s) : s[i].wave \in Nat
  OBVIOUS
<1> QED
  BY <1>1 DEF Below

\* At the start all engines are in wave 0 and paused, as everybody believes.
LEMMA InitIInv == Init => IInv /\ Knowledge
<1> SUFFICES ASSUME Init PROVE IInv /\ Knowledge
  OBVIOUS
<1> USE Sizes DEF Init
<1>1. TypeOK
  BY DEF TypeOK, State
<1>2. Rounds
  BY DEF Rounds, Round
<1>3. Waves
  BY DEF Waves, Below
<1>4. Knowledge
  BY DEF Knowledge, StartersAwake, WaveEndIsTold, RunningIsTrue, ClientsInformed
<1> QED
  BY <1>1, <1>2, <1>3, <1>4 DEF IInv

\* Every step keeps the types.
LEMMA TypeStep == TypeOK /\ [Next]_vars => TypeOK'
<1> SUFFICES ASSUME TypeOK, [Next]_vars PROVE TypeOK'
  OBVIOUS
<1> USE Sizes
<1>1. ASSUME NEW c \in Client, NEW e \in Engine, AddRequest(c, e) PROVE TypeOK'
  <2>1. [req |-> nreqs + 1, wave |-> client[c].wave] \in AddMessage /\ nreqs' \in 0 .. MaxRequests
    BY <1>1 DEF AddRequest, TypeOK, AddMessage, State
  <2>2. Append(adds[c][e], [req |-> nreqs + 1, wave |-> client[c].wave]) \in Seq(AddMessage)
    <3>0. adds \in [Client -> [Engine -> Seq(AddMessage)]]
      BY DEF TypeOK
    <3>1. adds[c][e] \in Seq(AddMessage)
      BY <3>0
    <3> QED
      BY <2>1, <3>1, AppendProperties
  <2>3. adds' \in [Client -> [Engine -> Seq(AddMessage)]]
    BY <1>1, <2>2 DEF AddRequest, TypeOK
  <2>4. first_reqs' \in [Client -> Nat]
    <3>1. first_reqs \in [Client -> Nat] /\ first_reqs[c] + 1 \in Nat
      BY DEF TypeOK
    <3>2. first_reqs' = first_reqs \/ first_reqs' = [first_reqs EXCEPT ![c] = first_reqs[c] + 1]
      BY <1>1 DEF AddRequest
    <3> QED
      BY <3>1, <3>2
  <2> QED
    BY <1>1, <2>1, <2>3, <2>4 DEF AddRequest, TypeOK, engineVars
<1>2. ASSUME NEW c \in Client, ForwardFirstReq(c) PROVE TypeOK'
  <2>1. first_reqs' \in [Client -> Nat]
    <3>1. first_reqs \in [Client -> Nat] /\ first_reqs[c] \in Nat
      BY DEF TypeOK
    <3>2. first_reqs[c] > 0 /\ first_reqs' = [first_reqs EXCEPT ![c] = first_reqs[c] - 1]
      BY <1>2 DEF ForwardFirstReq
    <3>3. first_reqs[c] - 1 \in Nat
      BY <3>1, <3>2
    <3> QED
      BY <3>1, <3>2, <3>3
  <2>2. client[c].wave \in Nat /\ [client[c] EXCEPT !.running = TRUE] \in State
    BY DEF TypeOK, State
  <2>3. fronts' \in [Client -> Seq(Nat)] /\ client' \in [Client -> State]
    <3>1. fronts \in [Client -> Seq(Nat)] /\ client \in [Client -> State]
      BY DEF TypeOK
    <3>2. Append(fronts[c], client[c].wave) \in Seq(Nat)
      BY <2>2, <3>1
    <3>3. fronts' \in [Client -> Seq(Nat)]
      BY <1>2, <3>1, <3>2 DEF ForwardFirstReq
    <3>4. client' \in [Client -> State]
      BY <1>2, <2>2, <3>1 DEF ForwardFirstReq
    <3> QED
      BY <3>3, <3>4
  <2> QED
    BY <1>2, <2>1, <2>3 DEF ForwardFirstReq, TypeOK, engineVars
<1>3. ASSUME NEW c \in Client, TakeUpdate(c) PROVE TypeOK'
  <2>1. Last(pubs[c]) \in State
    BY <1>3 DEF TakeUpdate, TypeOK, Last
  <2>2. client' \in [Client -> State]
    BY <1>3, <2>1 DEF TakeUpdate, TypeOK
  <2>3. pubs' \in [Client -> Seq(State)]
    <3>1. pubs' = [pubs EXCEPT ![c] = <<>>] /\ <<>> \in Seq(State)
      BY <1>3 DEF TakeUpdate
    <3> QED
      BY <3>1 DEF TypeOK
  <2> QED
    BY <1>3, <2>2, <2>3 DEF TakeUpdate, TypeOK, engineVars
<1>4. ASSUME NEW s \in State PROVE Published(s) \in [Client -> Seq(State)]
  BY <1>4, AppendFacts DEF TypeOK, Published
<1>5. ASSUME NEW w \in Nat, NEW x \in Int PROVE StartWave(w, x) \in [Engine -> Seq(StartMessage)]
  BY <1>5, AppendFacts DEF TypeOK, StartWave, StartMessage
<1>6. ASSUME NEW c \in Client, HandleFirstReq(c) PROVE TypeOK'
  <2>1. [coordinator EXCEPT !.running = TRUE] \in State /\ coordinator.wave \in Nat
    BY DEF TypeOK, State
  <2>2. fronts' \in [Client -> Seq(Nat)]
    BY <1>6, TailFacts DEF HandleFirstReq, TypeOK
  <2>3. /\ coordinator' \in State /\ pubs' \in [Client -> Seq(State)]
        /\ starts' \in [Engine -> Seq(StartMessage)]
    <3>1. [coordinator EXCEPT !.running = TRUE].wave \in Nat /\ Nobody \in Int
      BY <2>1 DEF State
    <3>2. CASE coordinator.running
      BY <1>6, <3>2 DEF HandleFirstReq, TypeOK
    <3>3. CASE ~coordinator.running
      <4> DEFINE s == [coordinator EXCEPT !.running = TRUE]
      <4>1. coordinator' = s /\ starts' = StartWave(s.wave, Nobody) /\ pubs' = Published(s)
        BY <1>6, <3>3 DEF HandleFirstReq
      <4> HIDE DEF s
      <4>2. s \in State /\ s.wave \in Nat
        BY <2>1, <3>1 DEF s
      <4> QED
        BY <4>1, <4>2, <3>1, <1>4, <1>5
    <3> QED
      BY <3>2, <3>3
  <2> QED
    BY <1>6, <2>2, <2>3 DEF HandleFirstReq, TypeOK, engineVars, clientVars
<1>7. ASSUME NEW e \in Engine, HandleWaveComplete(e) \/ HandleStartWave(e) PROVE TypeOK'
  <2> DEFINE wave == Head(outputs[e]).wave
  <2>1. Tail(outputs[e]) \in Seq(OutputMessage) /\ wave \in Nat /\ e \in Int
    <3>1. Tail(outputs[e]) \in Seq(OutputMessage) /\ Head(outputs[e]) \in OutputMessage
      BY <1>7, TailFacts DEF TypeOK, HandleWaveComplete, HandleStartWave
    <3> QED
      BY <3>1 DEF OutputMessage
  <2> HIDE DEF wave
  <2>2. AfterWave(wave) \in State /\ [wave |-> wave, running |-> TRUE] \in State
    BY <2>1 DEF AfterWave, State
  <2>3. outputs' \in [Engine -> Seq(OutputMessage)]
    BY <1>7, <2>1 DEF HandleWaveComplete, HandleStartWave, TypeOK
  <2>4. CASE HandleWaveComplete(e)
    <3>1. coordinator' \in State
      BY <2>4, <2>2 DEF HandleWaveComplete, TypeOK, wave
    <3>2. pubs' \in [Client -> Seq(State)]
      <4>1. pubs \in [Client -> Seq(State)]
        BY DEF TypeOK
      <4>2. pubs' = pubs \/ pubs' = Published(AfterWave(wave))
        BY <2>4 DEF HandleWaveComplete, wave
      <4> QED
        BY <2>2, <4>1, <4>2, <1>4
    <3> QED
      BY <2>4, <2>3, <3>1, <3>2 DEF HandleWaveComplete, TypeOK, engineVars, clientVars
  <2>5. CASE HandleStartWave(e)
    <3>1. /\ coordinator' \in State /\ pubs' \in [Client -> Seq(State)]
          /\ starts' \in [Engine -> Seq(StartMessage)]
      <4>1. CASE StartsWave(wave)
        <5>1. /\ coordinator' = [wave |-> wave, running |-> TRUE]
              /\ starts' = StartWave(wave, e)
              /\ pubs' = Published([wave |-> wave, running |-> TRUE])
          BY <2>5, <4>1 DEF HandleStartWave, wave
        <5> QED
          BY <5>1, <2>1, <2>2, <1>4, <1>5
      <4>2. CASE ~StartsWave(wave)
        BY <2>5, <4>2 DEF HandleStartWave, TypeOK, wave
      <4> QED
        BY <4>1, <4>2
    <3> QED
      BY <2>5, <2>3, <3>1 DEF HandleStartWave, TypeOK, engineVars, clientVars
  <2> QED
    BY <1>7, <2>4, <2>5
<1>8. CASE PublishStats
  <2>1. pubs' \in [Client -> Seq(State)]
    BY <1>8, <1>4 DEF PublishStats, TypeOK
  <2> QED
    BY <1>8, <2>1 DEF PublishStats, TypeOK, engineVars, clientVars
<1>9. ASSUME NEW e \in Engine, NEW c \in Client, HandleAdd(e, c) PROVE TypeOK'
  <2> DEFINE m == Head(adds[c][e])
  <2>1. Tail(adds[c][e]) \in Seq(AddMessage) /\ m \in AddMessage
    <3>0. adds \in [Client -> [Engine -> Seq(AddMessage)]]
      BY DEF TypeOK
    <3>1. adds[c][e] \in Seq(AddMessage)
      BY <3>0
    <3>2. adds[c][e] # <<>>
      BY <1>9 DEF HandleAdd
    <3> QED
      BY <3>1, <3>2, TailFacts
  <2> HIDE DEF m
  <2>2. [req |-> m.req, left |-> Steps] \in [req : Request, left : 1 .. Steps] /\ m.wave \in Nat
    BY <2>1 DEF AddMessage
  <2>3. adds' \in [Client -> [Engine -> Seq(AddMessage)]]
    BY <1>9, <2>1 DEF HandleAdd, TypeOK
  <2>4. live' \in [Engine -> SUBSET [req : Request, left : 1 .. Steps]]
    BY <1>9, <2>2 DEF HandleAdd, TypeOK, m
  <2>5. current_wave' \in [Engine -> Nat]
    BY <1>9, <2>2 DEF HandleAdd, TypeOK, m
  <2>6. outputs' \in [Engine -> Seq(OutputMessage)]
    <3>1. [type |-> "start_wave", wave |-> current_wave[e]] \in OutputMessage
      BY DEF TypeOK, OutputMessage
    <3>2. Append(outputs[e], [type |-> "start_wave", wave |-> current_wave[e]]) \in Seq(OutputMessage)
      BY <3>1, AppendFacts DEF TypeOK
    <3> QED
      BY <1>9, <3>2 DEF HandleAdd, TypeOK
  <2> QED
    BY <1>9, <2>3, <2>4, <2>5, <2>6 DEF HandleAdd, TypeOK, clientVars
<1>10. ASSUME NEW e \in Engine, HandleStart(e) PROVE TypeOK'
  <2>1. Tail(starts[e]) \in Seq(StartMessage) /\ Head(starts[e]).wave \in Nat
    <3>1. Tail(starts[e]) \in Seq(StartMessage) /\ Head(starts[e]) \in StartMessage
      BY <1>10, TailFacts DEF TypeOK, HandleStart
    <3> QED
      BY <3>1 DEF StartMessage
  <2>2. starts' \in [Engine -> Seq(StartMessage)]
    BY <1>10, <2>1 DEF HandleStart, TypeOK
  <2>3. current_wave' \in [Engine -> Nat] /\ engines_running' \in [Engine -> BOOLEAN]
    BY <1>10, <2>1 DEF HandleStart, TypeOK
  <2> QED
    BY <1>10, <2>2, <2>3 DEF HandleStart, TypeOK, clientVars
<1>11. ASSUME NEW e \in Engine, NEW q \in live[e], Abort(e, q) PROVE TypeOK'
  BY <1>11 DEF Abort, TypeOK, clientVars, channels
<1>12. ASSUME NEW e \in Engine, BeginForward(e) \/ Sync(e) PROVE TypeOK'
  <2>1. /\ pc' \in [Engine -> {"input", "forward", "sync", "reduce"}]
        /\ engines_running' \in [Engine -> BOOLEAN]
    BY <1>12 DEF BeginForward, Sync, TypeOK
  <2>2. step_counter' \in [Engine -> Nat]
    <3>1. step_counter \in [Engine -> Nat]
      BY DEF TypeOK
    <3>2. step_counter' = step_counter \/ step_counter' = [step_counter EXCEPT ![e] = step_counter[e] + 1]
      BY <1>12 DEF BeginForward, Sync, NextStepCounter
    <3> QED
      BY <3>1, <3>2
  <2>3. UNCHANGED <<current_wave, live, coordinator, clientVars, channels>>
    BY <1>12 DEF BeginForward, Sync
  <2> QED
    BY <2>1, <2>2, <2>3 DEF TypeOK, clientVars, channels
<1>13. CASE Forward
  <2>1. ASSUME NEW e \in Engine
        PROVE  AfterStep(live[e]) \in SUBSET [req : Request, left : 1 .. Steps]
    <3>1. \A q \in live[e] : q \in [req : Request, left : 1 .. Steps]
      BY DEF TypeOK
    <3>2. ASSUME NEW q \in live[e], q.left > 1
          PROVE  [q EXCEPT !.left = @ - 1] \in [req : Request, left : 1 .. Steps]
      <4>1. q \in [req : Request, left : 1 .. Steps] /\ q.left - 1 \in 1 .. Steps
        BY <3>1, <3>2
      <4> QED
        BY <4>1
    <3> QED
      BY <3>2 DEF AfterStep
  <2> QED
    BY <1>13, <2>1 DEF Forward, TypeOK, clientVars, channels
<1>14. CASE AllReduce
  <2>1. [type |-> "wave_complete", wave |-> current_wave[0]] \in OutputMessage
    BY DEF TypeOK, OutputMessage
  <2>2. Append(outputs[0], [type |-> "wave_complete", wave |-> current_wave[0]]) \in Seq(OutputMessage)
    BY <2>1, AppendFacts DEF TypeOK
  <2>3. outputs' \in [Engine -> Seq(OutputMessage)]
    BY <1>14, <2>2 DEF AllReduce, TypeOK
  <2>4. has_unfinished_dp \in BOOLEAN
    BY DEF has_unfinished_dp
  <2>5. current_wave' \in [Engine -> Nat] /\ step_counter' \in [Engine -> Nat]
    <3>1. current_wave \in [Engine -> Nat] /\ step_counter \in [Engine -> Nat]
      BY DEF TypeOK
    <3>2. \/ current_wave' = current_wave /\ step_counter' = step_counter
          \/ /\ current_wave' = [e \in Engine |-> current_wave[e] + 1]
             /\ step_counter' = [e \in Engine |-> 0]
      BY <1>14 DEF AllReduce
    <3>3. \A e \in Engine : current_wave[e] + 1 \in Nat
      BY <3>1
    <3>4. [e \in Engine |-> current_wave[e] + 1] \in [Engine -> Nat]
      BY <3>3
    <3>5. [e \in Engine |-> 0] \in [Engine -> Nat]
      OBVIOUS
    <3> QED
      BY <3>1, <3>2, <3>4, <3>5
  <2>6. /\ pc' \in [Engine -> {"input", "forward", "sync", "reduce"}]
        /\ engines_running' \in [Engine -> BOOLEAN]
    BY <1>14, <2>4 DEF AllReduce
  <2> QED
    BY <1>14, <2>3, <2>5, <2>6 DEF AllReduce, TypeOK, clientVars
<1>15. CASE UNCHANGED vars
  BY <1>15 DEF vars, TypeOK, engineVars, clientVars, channels
<1> QED
  BY <1>1, <1>2, <1>3, <1>6, <1>7, <1>8, <1>9, <1>10, <1>11, <1>12, <1>13, <1>14, <1>15
  DEF Next, StatsTask, Coordinate, EngineStep

\* Every step keeps the engines in step: only Forward and AllReduce, which all engines
\* make together, and Sync, which each makes once between them, count.
LEMMA RoundsStep == TypeOK /\ Rounds /\ [Next]_vars => Rounds'
<1> SUFFICES ASSUME TypeOK, Rounds, [Next]_vars PROVE Rounds'
  OBVIOUS
<1>t. /\ SyncEvery \in Nat \ {0}
      /\ \A e \in Engine : step_counter[e] \in Nat /\ pc[e] \in {"input", "forward", "sync", "reduce"}
  BY Sizes DEF TypeOK
<1>1. ASSUME UNCHANGED <<pc, step_counter>> PROVE Rounds'
  BY <1>1 DEF Rounds, Round
<1>2. ASSUME NEW e \in Engine, BeginForward(e) PROVE Rounds'
  <2>1. /\ pc[e] = "input" /\ pc'[e] = "forward" /\ step_counter' = step_counter
        /\ \A f \in Engine : f # e => pc'[f] = pc[f]
    BY <1>2 DEF BeginForward, TypeOK
  <2>2. \A f \in Engine : Round(f)' = Round(f)
    BY <2>1 DEF Round
  <2> QED
    BY <2>1, <2>2 DEF Rounds
<1>3. CASE Forward
  <2>1. /\ step_counter' = step_counter
        /\ \A f \in Engine : pc[f] = "forward" /\ pc'[f] = "sync"
    BY <1>3 DEF Forward
  <2>2. \A f \in Engine : Round(f)' = Round(f) + 1
    BY <2>1 DEF Round
  <2> QED
    BY <2>1, <2>2 DEF Rounds
<1>4. ASSUME NEW e \in Engine, Sync(e) PROVE Rounds'
  <2> DEFINE n == step_counter[e] + 1
  <2>1. /\ pc[e] = "sync" /\ step_counter'[e] = n
        /\ pc'[e] = (IF n % SyncEvery # 0 THEN "input" ELSE "reduce")
        /\ \A f \in Engine : f # e => pc'[f] = pc[f] /\ step_counter'[f] = step_counter[f]
    BY <1>4 DEF Sync, NextStepCounter, TypeOK
  <2>2. \A f \in Engine : Round(f)' = Round(f)
    BY <2>1 DEF Round
  <2>3. \A f \in Engine : Round(f) = n
    BY <2>1 DEF Rounds, Round
  <2>4. \A f \in Engine : pc[f] # "sync" => step_counter[f] = n
    BY <2>3 DEF Round
  <2> HIDE DEF n
  <2>5. CASE n % SyncEvery # 0
    <3>1. \A f \in Engine : pc[f] # "reduce"
      BY <2>4, <2>5 DEF Rounds
    <3>2. pc'[e] = "input" /\ \A f \in Engine : pc'[f] # "reduce"
      BY <2>1, <2>5, <3>1
    <3>3. \A f \in Engine : pc'[f] \in {"input", "forward"} => step_counter'[f] % SyncEvery # 0
      BY <2>1, <2>4, <2>5
    <3> QED
      BY <2>2, <2>3, <3>2, <3>3 DEF Rounds
  <2>6. CASE n % SyncEvery = 0
    <3>1. \A f \in Engine : pc[f] \in {"sync", "reduce"}
      BY <1>t, <2>1, <2>4, <2>6 DEF Rounds
    <3>2. \A f \in Engine : pc'[f] \in {"sync", "reduce"}
      BY <2>1, <2>6, <3>1
    <3>3. \A f \in Engine : pc'[f] = "reduce" => step_counter'[f] % SyncEvery = 0
      BY <2>1, <2>4, <2>6
    <3> QED
      BY <2>2, <2>3, <3>2, <3>3 DEF Rounds
  <2> QED
    BY <2>5, <2>6
<1>5. CASE AllReduce
  <2>1. /\ \A f \in Engine : pc[f] = "reduce" /\ pc'[f] = "input"
        /\ \/ step_counter' = step_counter
           \/ \A f \in Engine : step_counter'[f] = 0
    BY <1>5 DEF AllReduce
  <2>2. \A e, f \in Engine : step_counter[e] = step_counter[f]
    BY <2>1 DEF Rounds, Round
  <2>3. \A e, f \in Engine : Round(e)' = Round(f)'
    BY <2>1, <2>2 DEF Round
  <2> QED
    BY <2>1, <2>3 DEF Rounds
<1>6. ASSUME \/ \E c \in Client : \E e \in Engine : AddRequest(c, e)
             \/ \E c \in Client : StatsTask(c)
             \/ Coordinate \/ PublishStats
             \/ \E e \in Engine : HandleStart(e) \/ \E c \in Client : HandleAdd(e, c)
             \/ \E e \in Engine : \E q \in live[e] : Abort(e, q)
             \/ UNCHANGED vars
      PROVE  UNCHANGED <<pc, step_counter>>
  BY <1>6 DEF AddRequest, StatsTask, ForwardFirstReq, TakeUpdate, Coordinate, HandleFirstReq,
              HandleWaveComplete, HandleStartWave, PublishStats, HandleStart, HandleAdd, Abort, vars,
              engineVars
<1> QED
  BY <1>1, <1>2, <1>3, <1>4, <1>5, <1>6 DEF Next, EngineStep

\* The types of waves, in the shape the following proofs use.
LEMMA WaveTypes ==
    ASSUME TypeOK
    PROVE  /\ \A e \in Engine : current_wave[e] \in Nat
           /\ coordinator.wave \in Nat
           /\ \A c \in Client : client[c].wave \in Nat
           /\ \A x \in State : x.wave \in Nat
           /\ \A x \in StartMessage : x.wave \in Nat
           /\ \A x \in OutputMessage : x.wave \in Nat
           /\ \A x \in AddMessage : x.wave \in Nat
           /\ \A c \in Client : pubs[c] \in Seq(State)
           /\ \A e \in Engine : starts[e] \in Seq(StartMessage) /\ outputs[e] \in Seq(OutputMessage)
           /\ \A c \in Client : \A e \in Engine : adds[c][e] \in Seq(AddMessage)
<1>1. /\ \A x \in State : x.wave \in Nat
      /\ \A x \in StartMessage : x.wave \in Nat
      /\ \A x \in OutputMessage : x.wave \in Nat
      /\ \A x \in AddMessage : x.wave \in Nat
  BY DEF State, StartMessage, OutputMessage, AddMessage
<1>2. coordinator \in State /\ \A c \in Client : client[c] \in State
  BY DEF TypeOK
<1>3. \A e \in Engine : current_wave[e] \in Nat
  BY DEF TypeOK
<1>4. /\ \A c \in Client : pubs[c] \in Seq(State)
      /\ \A e \in Engine : starts[e] \in Seq(StartMessage) /\ outputs[e] \in Seq(OutputMessage)
      /\ \A c \in Client : \A e \in Engine : adds[c][e] \in Seq(AddMessage)
  BY DEF TypeOK
<1> QED
  BY <1>1, <1>2, <1>3, <1>4

\* add_request never moves an engine to a later wave, although it is written to.
LEMMA AddKeepsWave ==
    ASSUME TypeOK, Waves, NEW e \in Engine, NEW c \in Client, HandleAdd(e, c)
    PROVE  current_wave' = current_wave
<1> DEFINE W == current_wave[0]
           m == Head(adds[c][e])
<1>1. /\ adds[c][e] # <<>>
      /\ current_wave' = IF m.wave > current_wave[e]
                         THEN [current_wave EXCEPT ![e] = m.wave] ELSE current_wave
  BY DEF HandleAdd
<1>2. adds[c][e] \in Seq(AddMessage) /\ Below(adds[c][e], W) /\ current_wave[e] = W /\ W \in Nat
  BY Sizes, WaveTypes DEF Waves
<1>3. m.wave <= W /\ m.wave \in Nat
  BY <1>1, <1>2, BelowTail, TailFacts, WaveTypes
<1> QED
  BY <1>1, <1>2, <1>3

\* A START_DP_WAVE that an engine accepts is for the wave it is in.
LEMMA StartKeepsWave ==
    ASSUME TypeOK, Waves, NEW e \in Engine, HandleStart(e)
    PROVE  current_wave' = current_wave
<1> DEFINE W == current_wave[0]
           m == Head(starts[e])
<1>1. /\ starts[e] # <<>>
      /\ \/ current_wave' = current_wave
         \/ m.wave >= current_wave[e] /\ current_wave' = [current_wave EXCEPT ![e] = m.wave]
  BY DEF HandleStart, AcceptsStart
<1>2. starts[e] \in Seq(StartMessage) /\ Below(starts[e], W) /\ current_wave[e] = W /\ W \in Nat
  BY Sizes, WaveTypes DEF Waves
<1>3. m.wave <= W /\ m.wave \in Nat
  BY <1>1, <1>2, BelowTail, TailFacts, WaveTypes
<1> HIDE DEF m
<1>4. m.wave >= W => m.wave = W
  BY <1>2, <1>3
<1> QED
  BY <1>1, <1>2, <1>4 DEF TypeOK

\* Every step keeps the waves bounded by the one the engines agree on.
LEMMA WavesStep == TypeOK /\ Waves /\ [Next]_vars => Waves'
<1> SUFFICES ASSUME TypeOK, Waves, [Next]_vars PROVE Waves'
  OBVIOUS
<1> DEFINE W == current_wave[0]
<1>t. W \in Nat /\ 0 \in Engine /\ coordinator.wave \in Nat /\ coordinator.wave <= W
  BY Sizes, WaveTypes DEF Waves
<1>0. ASSUME UNCHANGED <<current_wave, coordinator, client, pubs, adds, starts, outputs>> PROVE Waves'
  BY <1>0 DEF Waves
<1>1. ASSUME NEW c \in Client, NEW e \in Engine, AddRequest(c, e) PROVE Waves'
  <2> DEFINE m == [req |-> nreqs + 1, wave |-> client[c].wave]
  <2>1. /\ UNCHANGED <<current_wave, coordinator, client, pubs, starts, outputs>>
        /\ \A d \in Client : \A f \in Engine :
              adds'[d][f] = IF d = c /\ f = e THEN Append(adds[c][e], m) ELSE adds[d][f]
    BY <1>1 DEF AddRequest, engineVars, TypeOK
  <2>2. m \in AddMessage /\ m.wave <= W
    <3>1. client[c].wave \in Nat /\ client[c].wave <= W
      BY <1>t, WaveTypes DEF Waves
    <3>2. nreqs + 1 \in Request
      BY <1>1, Sizes DEF AddRequest, TypeOK
    <3> QED
      BY <3>1, <3>2 DEF AddMessage
  <2> HIDE DEF m
  <2>3. \A d \in Client : \A f \in Engine : Below(adds'[d][f], W)
    <3>1. adds[c][e] \in Seq(AddMessage) /\ \A d \in Client : \A f \in Engine : Below(adds[d][f], W)
      BY WaveTypes DEF Waves
    <3>2. Below(Append(adds[c][e], m), W)
      BY <3>1, <2>2, BelowAppend
    <3> QED
      BY <2>1, <3>1, <3>2
  <2> QED
    BY <2>1, <2>3 DEF Waves
<1>2. ASSUME NEW c \in Client, ForwardFirstReq(c) PROVE Waves'
  <2>1. /\ UNCHANGED <<current_wave, coordinator, pubs, adds, starts, outputs>>
        /\ \A d \in Client : client'[d].wave = client[d].wave
    BY <1>2 DEF ForwardFirstReq, engineVars, TypeOK, State
  <2> QED
    BY <2>1 DEF Waves
<1>3. ASSUME NEW c \in Client, TakeUpdate(c) PROVE Waves'
  <2>1. /\ UNCHANGED <<current_wave, coordinator, adds, starts, outputs>> /\ pubs[c] # <<>>
        /\ client'[c] = Last(pubs[c]) /\ pubs'[c] = <<>>
        /\ \A d \in Client : d # c => client'[d] = client[d] /\ pubs'[d] = pubs[d]
    BY <1>3 DEF TakeUpdate, engineVars, TypeOK
  <2>2. Last(pubs[c]).wave <= coordinator.wave
    <3>1. Len(pubs[c]) \in 1 .. Len(pubs[c])
      BY <2>1 DEF TypeOK
    <3> QED
      BY <3>1 DEF Last, Waves, Below
  <2>3. Below(<<>>, coordinator.wave)
    BY DEF Below
  <2> QED
    BY <2>1, <2>2, <2>3 DEF Waves
\* The coordinator moves to a state that is no news to the engines.
<1>4. ASSUME NEW s \in State, coordinator.wave <= s.wave, s.wave <= W,
             coordinator' = s, pubs' = Published(s), UNCHANGED <<current_wave, client>>
      PROVE  /\ coordinator'.wave <= current_wave'[0]
             /\ \A c \in Client : client'[c].wave <= coordinator'.wave
             /\ \A c \in Client : Below(pubs'[c], coordinator'.wave)
  <2>1. s.wave \in Nat
    BY WaveTypes
  <2>2. ASSUME NEW c \in Client PROVE client[c].wave <= s.wave /\ Below(Append(pubs[c], s), s.wave)
    <3>1. client[c].wave \in Nat /\ client[c].wave <= coordinator.wave /\ pubs[c] \in Seq(State)
          /\ Below(pubs[c], coordinator.wave)
      BY WaveTypes DEF Waves
    <3>2. Below(pubs[c], s.wave)
      BY <3>1, <2>1, <1>4, <1>t, BelowMore, WaveTypes
    <3> QED
      BY <3>1, <3>2, <2>1, <1>4, <1>t, BelowAppend
  <2> QED
    BY <1>4, <2>2 DEF Published
<1>5. ASSUME NEW w \in Nat, w <= W, NEW x \in Int, NEW e \in Engine
      PROVE  Below(StartWave(w, x)[e], W)
  <2>1. [wave |-> w, exclude |-> x] \in StartMessage
    BY DEF StartMessage
  <2>2. starts[e] \in Seq(StartMessage) /\ Below(starts[e], W)
    BY WaveTypes DEF Waves
  <2>3. Below(Append(starts[e], [wave |-> w, exclude |-> x]), W)
    BY <1>5, <2>1, <2>2, BelowAppend
  <2> QED
    BY <2>3 DEF StartWave
<1>6. ASSUME NEW c \in Client, HandleFirstReq(c) PROVE Waves'
  <2>1. UNCHANGED <<current_wave, client, adds, outputs>>
    BY <1>6 DEF HandleFirstReq, engineVars, clientVars
  <2>2. CASE coordinator.running
    BY <1>6, <2>1, <2>2, <1>0 DEF HandleFirstReq
  <2>3. CASE ~coordinator.running
    <3> DEFINE s == [coordinator EXCEPT !.running = TRUE]
    <3>1. coordinator' = s /\ starts' = StartWave(s.wave, Nobody) /\ pubs' = Published(s)
      BY <1>6, <2>3 DEF HandleFirstReq
    <3>2. s \in State /\ s.wave = coordinator.wave
      BY DEF TypeOK, State
    <3> HIDE DEF s
    <3>3. /\ coordinator'.wave <= current_wave'[0]
          /\ \A d \in Client : client'[d].wave <= coordinator'.wave
          /\ \A d \in Client : Below(pubs'[d], coordinator'.wave)
      BY <2>1, <3>1, <3>2, <1>4, <1>t
    <3>4. \A e \in Engine : Below(starts'[e], W)
      <4>1. Nobody \in Int /\ s.wave \in Nat /\ s.wave <= W
        BY <3>2, <1>t, Sizes
      <4> HIDE DEF W
      <4> QED
        BY <3>1, <4>1, <1>5
    <3> QED
      BY <2>1, <3>3, <3>4 DEF Waves
  <2> QED
    BY <2>2, <2>3
\* A message of an engine is taken out.
<1>7. ASSUME NEW e \in Engine, outputs[e] # <<>>, outputs' = [outputs EXCEPT ![e] = Tail(@)]
      PROVE  /\ \A f \in Engine :
                   /\ Below(outputs'[f], W)
                   /\ \A i \in 1 .. Len(outputs'[f]) :
                         outputs'[f][i].type = "wave_complete" => outputs'[f][i].wave < W
             /\ Head(outputs[e]).wave \in Nat /\ Head(outputs[e]).wave <= W
             /\ Head(outputs[e]).type = "wave_complete" => Head(outputs[e]).wave < W
  <2>1. outputs[e] \in Seq(OutputMessage)
    BY WaveTypes
  <2>2. /\ outputs'[e] = Tail(outputs[e])
        /\ \A f \in Engine : f # e => outputs'[f] = outputs[f]
    BY <1>7 DEF TypeOK
  <2>3. \A f \in Engine :
           /\ Below(outputs[f], W)
           /\ \A i \in 1 .. Len(outputs[f]) :
                 outputs[f][i].type = "wave_complete" => outputs[f][i].wave < W
    BY DEF Waves
  <2>4. /\ Below(Tail(outputs[e]), W) /\ Head(outputs[e]).wave <= W
        /\ Head(outputs[e]).wave \in Nat
    BY <1>7, <2>1, <2>3, BelowTail, TailFacts, WaveTypes
  <2>5. /\ \A i \in 1 .. Len(Tail(outputs[e])) :
              Tail(outputs[e])[i].type = "wave_complete" => Tail(outputs[e])[i].wave < W
        /\ Head(outputs[e]).type = "wave_complete" => Head(outputs[e]).wave < W
    <3>1. /\ Head(outputs[e]) = outputs[e][1] /\ 1 \in 1 .. Len(outputs[e])
          /\ \A i \in 1 .. Len(Tail(outputs[e])) :
                i + 1 \in 1 .. Len(outputs[e]) /\ Tail(outputs[e])[i] = outputs[e][i + 1]
      BY <1>7, <2>1, TailFacts
    <3>2. \A i \in 1 .. Len(outputs[e]) :
             outputs[e][i].type = "wave_complete" => outputs[e][i].wave < W
      BY <2>3
    <3> QED
      BY <3>1, <3>2
  <2> QED
    BY <2>2, <2>3, <2>4, <2>5
<1>8. ASSUME NEW e \in Engine, HandleWaveComplete(e) PROVE Waves'
  <2> DEFINE wave == Head(outputs[e]).wave
  <2>1. /\ UNCHANGED <<current_wave, client, adds, starts>> /\ outputs[e] # <<>>
        /\ Head(outputs[e]).type = "wave_complete" /\ outputs' = [outputs EXCEPT ![e] = Tail(@)]
    BY <1>8 DEF HandleWaveComplete, engineVars, clientVars
  <2>2. /\ \A f \in Engine :
              /\ Below(outputs'[f], W)
              /\ \A i \in 1 .. Len(outputs'[f]) :
                    outputs'[f][i].type = "wave_complete" => outputs'[f][i].wave < W
        /\ wave \in Nat /\ wave < W
    BY <2>1, <1>7
  <2>3. CASE EndsWave(wave)
    <3> DEFINE s == AfterWave(wave)
    <3>1. coordinator' = s /\ pubs' = Published(s)
      BY <1>8, <2>3 DEF HandleWaveComplete
    <3>2. s \in State /\ s.wave = wave + 1
      BY <2>2 DEF AfterWave, State
    <3>3. coordinator.wave <= s.wave /\ s.wave <= W
      BY <2>2, <2>3, <3>2, <1>t DEF EndsWave
    <3> HIDE DEF s
    <3>4. /\ coordinator'.wave <= current_wave'[0]
          /\ \A d \in Client : client'[d].wave <= coordinator'.wave
          /\ \A d \in Client : Below(pubs'[d], coordinator'.wave)
      BY <2>1, <3>1, <3>2, <3>3, <1>4
    <3> QED
      BY <2>1, <2>2, <3>4 DEF Waves
  <2>4. CASE ~EndsWave(wave)
    <3>1. UNCHANGED <<coordinator, pubs>>
      BY <1>8, <2>4 DEF HandleWaveComplete
    <3> QED
      BY <2>1, <2>2, <3>1 DEF Waves
  <2> QED
    BY <2>3, <2>4
<1>9. ASSUME NEW e \in Engine, HandleStartWave(e) PROVE Waves'
  <2> DEFINE wave == Head(outputs[e]).wave
  <2>1. /\ UNCHANGED <<current_wave, client, adds>> /\ outputs[e] # <<>>
        /\ outputs' = [outputs EXCEPT ![e] = Tail(@)]
    BY <1>9 DEF HandleStartWave, engineVars, clientVars
  <2>2. /\ \A f \in Engine :
              /\ Below(outputs'[f], W)
              /\ \A i \in 1 .. Len(outputs'[f]) :
                    outputs'[f][i].type = "wave_complete" => outputs'[f][i].wave < W
        /\ wave \in Nat /\ wave <= W
    BY <2>1, <1>7
  <2>3. CASE StartsWave(wave)
    <3> DEFINE s == [wave |-> wave, running |-> TRUE]
    <3>1. coordinator' = s /\ pubs' = Published(s) /\ starts' = StartWave(wave, e)
      BY <1>9, <2>3 DEF HandleStartWave
    <3>2. s \in State /\ s.wave = wave
      BY <2>2 DEF State
    <3>3. coordinator.wave <= s.wave /\ s.wave <= W
      BY <2>2, <2>3, <3>2, <1>t DEF StartsWave
    <3> HIDE DEF s
    <3>4. /\ coordinator'.wave <= current_wave'[0]
          /\ \A d \in Client : client'[d].wave <= coordinator'.wave
          /\ \A d \in Client : Below(pubs'[d], coordinator'.wave)
      BY <2>1, <3>1, <3>2, <3>3, <1>4
    <3>5. e \in Int
      BY Sizes
    <3>6. \A f \in Engine : Below(starts'[f], W)
      BY <2>2, <3>1, <3>5, <1>5
    <3> QED
      BY <2>1, <2>2, <3>4, <3>6 DEF Waves
  <2>4. CASE ~StartsWave(wave)
    <3>1. UNCHANGED <<coordinator, starts, pubs>>
      BY <1>9, <2>4 DEF HandleStartWave
    <3> QED
      BY <2>1, <2>2, <3>1 DEF Waves
  <2> QED
    BY <2>3, <2>4
<1>10. CASE PublishStats
  <2>1. /\ UNCHANGED <<current_wave, coordinator, client, adds, starts, outputs>>
        /\ pubs' = Published(coordinator)
    BY <1>10 DEF PublishStats, engineVars, clientVars
  <2>2. coordinator \in State /\ coordinator.wave <= coordinator.wave
    BY <1>t DEF TypeOK
  <2>3. \A c \in Client : Below(pubs'[c], coordinator'.wave)
    BY <2>1, <2>2, <1>4, <1>t
  <2> QED
    BY <2>1, <2>3 DEF Waves
<1>11. ASSUME NEW e \in Engine, NEW c \in Client, HandleAdd(e, c) PROVE Waves'
  <2>1. /\ UNCHANGED <<coordinator, client, pubs, starts>> /\ adds[c][e] # <<>>
        /\ adds' = [adds EXCEPT ![c][e] = Tail(@)]
    BY <1>11 DEF HandleAdd, clientVars
  <2>2. adds[c][e] \in Seq(AddMessage) /\ Below(adds[c][e], W)
    BY WaveTypes DEF Waves
  <2>3. Below(Tail(adds[c][e]), W)
    BY <2>1, <2>2, BelowTail
  <2>4. current_wave[e] = W
    BY <1>t DEF Waves
  <2>5. current_wave' = current_wave
    BY <1>11, AddKeepsWave
  <2>6. \A d \in Client : \A f \in Engine : Below(adds'[d][f], W)
    <3>1. \A d \in Client : \A f \in Engine :
             adds'[d][f] = IF d = c /\ f = e THEN Tail(adds[c][e]) ELSE adds[d][f]
      BY <2>1 DEF TypeOK
    <3> QED
      BY <3>1, <2>3 DEF Waves
  <2>7. \A f \in Engine :
           /\ Below(outputs'[f], W)
           /\ \A i \in 1 .. Len(outputs'[f]) :
                 outputs'[f][i].type = "wave_complete" => outputs'[f][i].wave < W
    <3> DEFINE x == [type |-> "start_wave", wave |-> current_wave[e]]
    <3>1. CASE outputs' = outputs
      BY <3>1 DEF Waves
    <3>2. CASE outputs' = [outputs EXCEPT ![e] = Append(@, x)]
      <4>1. x \in OutputMessage /\ x.type # "wave_complete" /\ x.wave <= W
        BY <2>4, <1>t DEF OutputMessage
      <4> HIDE DEF x
      <4>2. /\ outputs'[e] = Append(outputs[e], x) /\ outputs[e] \in Seq(OutputMessage)
            /\ \A f \in Engine : f # e => outputs'[f] = outputs[f]
        BY <3>2 DEF TypeOK
      <4>3. /\ Below(outputs[e], W)
            /\ \A i \in 1 .. Len(outputs[e]) :
                  outputs[e][i].type = "wave_complete" => outputs[e][i].wave < W
        BY DEF Waves
      <4>4. /\ Below(Append(outputs[e], x), W)
            /\ \A i \in 1 .. Len(Append(outputs[e], x)) :
                  Append(outputs[e], x)[i].type = "wave_complete" => Append(outputs[e], x)[i].wave < W
        BY <4>1, <4>2, <4>3, BelowAppend, AppendFacts
      <4> QED
        BY <4>2, <4>4 DEF Waves
    <3> QED
      BY <1>11, <3>1, <3>2 DEF HandleAdd
  <2> QED
    BY <2>1, <2>5, <2>6, <2>7 DEF Waves
<1>12. ASSUME NEW e \in Engine, HandleStart(e) PROVE Waves'
  <2>1. /\ UNCHANGED <<coordinator, client, pubs, adds, outputs>> /\ starts[e] # <<>>
        /\ starts' = [starts EXCEPT ![e] = Tail(@)]
    BY <1>12 DEF HandleStart, clientVars
  <2>2. starts[e] \in Seq(StartMessage) /\ Below(starts[e], W)
    BY WaveTypes DEF Waves
  <2>3. Below(Tail(starts[e]), W)
    BY <2>1, <2>2, BelowTail
  <2>5. current_wave' = current_wave
    BY <1>12, StartKeepsWave
  <2>6. \A f \in Engine : Below(starts'[f], W)
    BY <2>1, <2>3 DEF TypeOK, Waves
  <2> QED
    BY <2>1, <2>5, <2>6 DEF Waves
<1>13. CASE AllReduce
  <2>0. UNCHANGED <<coordinator, client, pubs, adds, starts>>
    BY <1>13 DEF AllReduce, clientVars
  <2>1. CASE has_unfinished_dp
    BY <1>13, <2>0, <2>1, <1>0 DEF AllReduce
  <2>2. CASE ~has_unfinished_dp
    <3> DEFINE x == [type |-> "wave_complete", wave |-> W]
    <3>1. /\ current_wave' = [e \in Engine |-> current_wave[e] + 1]
          /\ outputs' = [outputs EXCEPT ![0] = Append(@, x)]
      BY <1>13, <2>2 DEF AllReduce
    <3>2. \A e \in Engine : current_wave'[e] = W + 1
      BY <1>t, <3>1 DEF Waves
    <3>3. W + 1 \in Nat /\ W <= W + 1
      BY <1>t
    <3>4. \A c \in Client : \A e \in Engine : Below(adds[c][e], W + 1)
      BY <1>t, <3>3, BelowMore, WaveTypes DEF Waves
    <3>5. \A e \in Engine : Below(starts[e], W + 1) /\ Below(outputs[e], W + 1)
      BY <1>t, <3>3, BelowMore, WaveTypes DEF Waves
    <3>6. \A e \in Engine : \A i \in 1 .. Len(outputs[e]) : outputs[e][i].wave < W + 1
      <4> SUFFICES ASSUME NEW e \in Engine, NEW i \in 1 .. Len(outputs[e])
                   PROVE  outputs[e][i].wave < W + 1
        OBVIOUS
      <4>1. outputs[e][i].wave \in Nat
        BY WaveTypes
      <4>2. outputs[e][i].wave <= W
        BY DEF Waves, Below
      <4> QED
        BY <4>1, <4>2, <1>t
    <3>7. \A e \in Engine :
             /\ Below(outputs'[e], W + 1)
             /\ \A i \in 1 .. Len(outputs'[e]) : outputs'[e][i].wave < W + 1
      <4>1. x \in OutputMessage /\ x.wave < W + 1 /\ x.wave <= W + 1
        BY <1>t DEF OutputMessage
      <4> HIDE DEF x
      <4>2. /\ outputs'[0] = Append(outputs[0], x) /\ outputs[0] \in Seq(OutputMessage)
            /\ \A f \in Engine : f # 0 => outputs'[f] = outputs[f]
        BY <3>1, <1>t DEF TypeOK
      <4>3. /\ Below(Append(outputs[0], x), W + 1)
            /\ \A i \in 1 .. Len(Append(outputs[0], x)) : Append(outputs[0], x)[i].wave < W + 1
        BY <4>1, <4>2, <3>5, <3>6, <1>t, BelowAppend, AppendFacts
      <4> QED
        BY <4>2, <4>3, <3>5, <3>6
    <3>8. coordinator.wave <= W + 1
      BY <1>t
    <3> QED
      BY <2>0, <3>2, <3>4, <3>5, <3>7, <3>8, <1>t DEF Waves
  <2> QED
    BY <2>1, <2>2
<1>14. ASSUME \/ \E e \in Engine : BeginForward(e) \/ Sync(e)
              \/ \E e \in Engine : \E q \in live[e] : Abort(e, q)
              \/ Forward \/ UNCHANGED vars
       PROVE  Waves'
  <2>1. UNCHANGED <<current_wave, coordinator, client, pubs, adds, starts, outputs>>
    BY <1>14 DEF BeginForward, Sync, Abort, Forward, vars, engineVars, clientVars, channels
  <2> QED
    BY <2>1, <1>0
<1> QED
  BY <1>1, <1>2, <1>3, <1>6, <1>8, <1>9, <1>10, <1>11, <1>12, <1>13, <1>14
  DEF Next, StatsTask, Coordinate, EngineStep

\* Every step keeps the invariant.
LEMMA NextIInv == IInv /\ [Next]_vars => IInv'
BY TypeStep, RoundsStep, WavesStep DEF IInv

\* The invariant holds in every reachable state.
THEOREM InductiveInvariant == Spec => []IInv
<1>1. Init => IInv
  BY InitIInv
<1>2. IInv /\ [Next]_vars => IInv'
  BY NextIInv
<1> QED
  BY <1>1, <1>2, PTL DEF Spec

\* No engine waits in the all-reduce of _has_global_unfinished_reqs for one that waits in a
\* forward pass, and all are in the same wave, which nobody is ahead of: for any number of
\* engines and clients, and whatever is aborted.
THEOREM EnginesStayTogether == Spec => []EnginesAgree
<1>1. IInv => EnginesAgree
  <2> SUFFICES ASSUME IInv PROVE EnginesAgree
    OBVIOUS
  <2>1. CollectivesMatch
    BY DEF IInv, Rounds, Round, CollectivesMatch
  <2>2. WavesAgree
    BY Sizes DEF IInv, Waves, WavesAgree
  <2> QED
    BY <2>1, <2>2 DEF EnginesAgree
<1> QED
  BY <1>1, InductiveInvariant, PTL

\* Only the end of a wave moves the engines to another wave.
LEMMA WaveAdvances ==
    ASSUME IInv, [Next]_vars
    PROVE  \/ current_wave' = current_wave
           \/ AllReduce /\ ~has_unfinished_dp
<1>1. ASSUME NEW e \in Engine, NEW c \in Client, HandleAdd(e, c) PROVE current_wave' = current_wave
  BY <1>1, AddKeepsWave DEF IInv
<1>2. ASSUME NEW e \in Engine, HandleStart(e) PROVE current_wave' = current_wave
  BY <1>2, StartKeepsWave DEF IInv
<1>3. ASSUME \/ \E c \in Client : \E e \in Engine : AddRequest(c, e)
             \/ \E c \in Client : StatsTask(c)
             \/ Coordinate \/ PublishStats
             \/ \E e \in Engine : BeginForward(e) \/ Sync(e)
             \/ \E e \in Engine : \E q \in live[e] : Abort(e, q)
             \/ Forward \/ UNCHANGED vars
      PROVE  current_wave' = current_wave
  BY <1>3 DEF AddRequest, StatsTask, ForwardFirstReq, TakeUpdate, Coordinate, HandleFirstReq,
              HandleWaveComplete, HandleStartWave, PublishStats, BeginForward, Sync, Abort, Forward,
              vars, engineVars
<1>4. ASSUME AllReduce, has_unfinished_dp PROVE current_wave' = current_wave
  BY <1>4 DEF AllReduce
<1> QED
  BY <1>1, <1>2, <1>3, <1>4 DEF Next, EngineStep

\* An engine that is awake stays so until the wave ends, if requests are not aborted
\* before the engine runs.
LEMMA AwakeStays ==
    ASSUME IInv, [Next]_vars, ~AllowEarlyAbort, ~(AllReduce /\ ~has_unfinished_dp),
           NEW e \in Engine, Awake(e)
    PROVE  Awake(e)'
<1>1. ASSUME NEW f \in Engine, NEW c \in Client, HandleAdd(f, c) PROVE Awake(e)'
  BY <1>1 DEF HandleAdd, Awake, IInv, TypeOK
<1>2. ASSUME NEW f \in Engine, HandleStart(f) PROVE Awake(e)'
  BY <1>2 DEF HandleStart, Awake, IInv, TypeOK
<1>3. ASSUME NEW f \in Engine, BeginForward(f) PROVE Awake(e)'
  BY <1>3 DEF BeginForward, Awake, IInv, TypeOK
<1>4. ASSUME NEW f \in Engine, Sync(f) PROVE Awake(e)'
  BY <1>4 DEF Sync, Awake, IInv, TypeOK
<1>5. ASSUME NEW f \in Engine, NEW q \in live[f], Abort(f, q) PROVE Awake(e)'
  BY <1>5 DEF Abort, Awake, IInv, TypeOK
<1>6. CASE Forward
  BY <1>6 DEF Forward, Awake
<1>7. CASE AllReduce
  BY <1>7 DEF AllReduce, Awake
<1>8. ASSUME \/ \E c \in Client : \E f \in Engine : AddRequest(c, f)
             \/ \E c \in Client : StatsTask(c)
             \/ Coordinate \/ PublishStats \/ UNCHANGED vars
      PROVE  Awake(e)'
  <2>1. UNCHANGED <<live, pc, engines_running>>
    BY <1>8 DEF AddRequest, StatsTask, ForwardFirstReq, TakeUpdate, Coordinate, HandleFirstReq,
                HandleWaveComplete, HandleStartWave, PublishStats, vars, engineVars
  <2> QED
    BY <2>1 DEF Awake
<1> QED
  BY <1>1, <1>2, <1>3, <1>4, <1>5, <1>6, <1>7, <1>8 DEF Next, EngineStep

\* What a step does to the messages of an engine to the coordinator.
LEMMA OutputsStep ==
    ASSUME IInv, [Next]_vars, ~(AllReduce /\ ~has_unfinished_dp), NEW e \in Engine
    PROVE  \/ outputs'[e] = outputs[e]
           \/ /\ outputs[e] # <<>> /\ outputs'[e] = Tail(outputs[e])
              /\ HandleWaveComplete(e) \/ HandleStartWave(e)
           \/ /\ outputs'[e] = Append(outputs[e], [type |-> "start_wave", wave |-> current_wave[e]])
              /\ Awake(e)'
<1> DEFINE Goal == \/ outputs'[e] = outputs[e]
                   \/ /\ outputs[e] # <<>> /\ outputs'[e] = Tail(outputs[e])
                      /\ HandleWaveComplete(e) \/ HandleStartWave(e)
                   \/ /\ outputs'[e] = Append(outputs[e],
                                          [type |-> "start_wave", wave |-> current_wave[e]])
                      /\ Awake(e)'
<1>1. ASSUME NEW f \in Engine, NEW c \in Client, HandleAdd(f, c) PROVE Goal
  <2>1. CASE f # e
    <3>1. outputs'[e] = outputs[e]
      BY <1>1, <2>1 DEF HandleAdd, IInv, TypeOK
    <3> QED
      BY <3>1
  <2>2. CASE f = e
    <3>1. live'[e] # {}
      BY <1>1, <2>2 DEF HandleAdd, IInv, TypeOK
    <3>2. Awake(e)'
      BY <3>1 DEF Awake
    <3>3. \/ outputs'[e] = outputs[e]
          \/ outputs'[e] = Append(outputs[e], [type |-> "start_wave", wave |-> current_wave[e]])
      BY <1>1, <2>2 DEF HandleAdd, IInv, TypeOK
    <3> QED
      BY <3>2, <3>3
  <2> QED
    BY <2>1, <2>2
<1>2. ASSUME NEW f \in Engine, HandleWaveComplete(f) \/ HandleStartWave(f) PROVE Goal
  <2>1. outputs[f] # <<>> /\ outputs' = [outputs EXCEPT ![f] = Tail(@)]
    BY <1>2 DEF HandleWaveComplete, HandleStartWave
  <2>2. outputs'[f] = Tail(outputs[f]) /\ (f # e => outputs'[e] = outputs[e])
    BY <2>1 DEF IInv, TypeOK
  <2> QED
    BY <1>2, <2>1, <2>2
<1>3. ASSUME \/ \E c \in Client : \E f \in Engine : AddRequest(c, f)
             \/ \E c \in Client : StatsTask(c) \/ HandleFirstReq(c)
             \/ PublishStats
             \/ \E f \in Engine : HandleStart(f) \/ BeginForward(f) \/ Sync(f)
             \/ \E f \in Engine : \E q \in live[f] : Abort(f, q)
             \/ Forward \/ UNCHANGED vars
      PROVE  Goal
  <2>1. outputs' = outputs
    BY <1>3 DEF AddRequest, StatsTask, ForwardFirstReq, TakeUpdate, HandleFirstReq, PublishStats,
                HandleStart, BeginForward, Sync, Abort, Forward, vars, channels
  <2> QED
    BY <2>1
<1>4. CASE AllReduce
  <2>1. outputs' = outputs
    BY <1>4 DEF AllReduce
  <2> QED
    BY <2>1
<1> QED
  BY <1>1, <1>2, <1>3, <1>4 DEF Next, EngineStep, Coordinate

\* The end of a wave: engine 0 tells the coordinator, and all other messages, like the
\* coordinator, are about earlier waves.
LEMMA CompleteWave ==
    ASSUME IInv, AllReduce, ~has_unfinished_dp
    PROVE  LET W == current_wave[0]
               x == [type |-> "wave_complete", wave |-> W]
           IN  /\ W \in Nat /\ current_wave'[0] = W + 1
               /\ x \in OutputMessage /\ outputs'[0] = Append(outputs[0], x)
               /\ \A e \in Engine : e # 0 => outputs'[e] = outputs[e]
               /\ \A e \in Engine : \A i \in 1 .. Len(outputs[e]) : outputs[e][i].wave # W + 1
               /\ coordinator' = coordinator /\ coordinator.wave # W + 1
<1> DEFINE W == current_wave[0]
           x == [type |-> "wave_complete", wave |-> W]
<1>1. W \in Nat /\ coordinator.wave \in Nat /\ coordinator.wave <= W /\ 0 \in Engine
  BY Sizes, WaveTypes DEF IInv, Waves
<1>2. /\ current_wave' = [e \in Engine |-> current_wave[e] + 1]
      /\ outputs' = [outputs EXCEPT ![0] = Append(@, x)]
      /\ coordinator' = coordinator
  BY DEF AllReduce
<1>3. x \in OutputMessage
  BY <1>1 DEF OutputMessage
<1>4. ASSUME NEW e \in Engine, NEW i \in 1 .. Len(outputs[e]) PROVE outputs[e][i].wave # W + 1
  <2>1. outputs[e][i].wave \in Nat
    BY WaveTypes DEF IInv
  <2>2. outputs[e][i].wave <= W
    BY DEF IInv, Waves, Below
  <2> QED
    BY <1>1, <2>1, <2>2
<1>5. outputs'[0] = Append(outputs[0], x) /\ \A e \in Engine : e # 0 => outputs'[e] = outputs[e]
  BY <1>1, <1>2 DEF IInv, TypeOK
<1>6. current_wave'[0] = W + 1 /\ coordinator.wave # W + 1
  BY <1>1, <1>2
<1> QED
  BY <1>1, <1>2, <1>3, <1>4, <1>5, <1>6

\* An engine that asked for a wave is awake until that wave ends.
LEMMA StartersAwakeStep ==
    ASSUME IInv, Knowledge, [Next]_vars, ~AllowEarlyAbort
    PROVE  StartersAwake'
<1>0. 0 \in Engine /\ \A e \in Engine : outputs[e] \in Seq(OutputMessage)
  BY Sizes, WaveTypes DEF IInv
<1>1. CASE AllReduce /\ ~has_unfinished_dp
  <2> DEFINE W == current_wave[0]
             x == [type |-> "wave_complete", wave |-> W]
  <2>1. /\ current_wave'[0] = W + 1
        /\ x \in OutputMessage /\ outputs'[0] = Append(outputs[0], x)
        /\ \A e \in Engine : e # 0 => outputs'[e] = outputs[e]
        /\ \A e \in Engine : \A i \in 1 .. Len(outputs[e]) : outputs[e][i].wave # W + 1
    BY <1>1, CompleteWave
  <2>2. x.type # "start_wave"
    OBVIOUS
  <2> HIDE DEF x, W
  <2>3. ASSUME NEW e \in Engine, NEW i \in 1 .. Len(outputs'[e]), outputs'[e][i].type = "start_wave"
        PROVE  outputs'[e][i].wave # W + 1
    <3>1. CASE e # 0
      BY <2>1, <3>1
    <3>2. CASE e = 0
      <4>1. \A k \in 1 .. Len(Append(outputs[0], x)) :
               \/ k \in 1 .. Len(outputs[0]) /\ Append(outputs[0], x)[k] = outputs[0][k]
               \/ Append(outputs[0], x)[k] = x
        BY <2>1, <1>0, AppendFacts
      <4>2. \/ i \in 1 .. Len(outputs[0]) /\ outputs'[e][i] = outputs[0][i]
            \/ outputs'[e][i] = x
        BY <2>1, <3>2, <4>1
      <4> QED
        BY <2>1, <2>2, <2>3, <4>2, <1>0
    <3> QED
      BY <3>1, <3>2
  <2> QED
    BY <2>1, <2>3 DEF StartersAwake
<1>2. CASE ~(AllReduce /\ ~has_unfinished_dp)
  <2>1. current_wave' = current_wave
    BY <1>2, WaveAdvances
  <2>2. ASSUME NEW e \in Engine, NEW i \in 1 .. Len(outputs'[e]),
               outputs'[e][i].type = "start_wave", outputs'[e][i].wave = current_wave[0]
        PROVE  Awake(e)'
    <3>1. \/ Awake(e)'
          \/ \E j \in 1 .. Len(outputs[e]) : outputs[e][j] = outputs'[e][i]
      <4>1. CASE outputs'[e] = outputs[e]
        BY <4>1
      <4>2. CASE outputs[e] # <<>> /\ outputs'[e] = Tail(outputs[e])
        BY <4>2, <1>0, TailFacts
      <4> QED
        BY <4>1, <4>2, <1>2, OutputsStep
    <3>2. ASSUME NEW j \in 1 .. Len(outputs[e]), outputs[e][j] = outputs'[e][i] PROVE Awake(e)'
      <4>1. Awake(e)
        BY <2>2, <3>2 DEF Knowledge, StartersAwake
      <4> QED
        BY <4>1, <1>2, AwakeStays
    <3> QED
      BY <3>1, <3>2
  <2> QED
    BY <2>1, <2>2 DEF StartersAwake
<1> QED
  BY <1>1, <1>2

\* The coordinator is in the wave of the engines or the message that brings it there is
\* under way.
LEMMA WaveEndIsToldStep ==
    ASSUME IInv, Knowledge, [Next]_vars
    PROVE  WaveEndIsTold'
<1> DEFINE W == current_wave[0]
           Told(s) == \E i \in 1 .. Len(s) : s[i].type = "wave_complete" /\ s[i].wave = W - 1
<1>0. /\ 0 \in Engine /\ outputs[0] \in Seq(OutputMessage) /\ W \in Nat
      /\ coordinator.wave \in Nat /\ coordinator.wave <= W
      /\ \A e \in Engine : \A i \in 1 .. Len(outputs[e]) :
            /\ outputs[e][i].wave \in Nat /\ outputs[e][i].wave <= W
            /\ outputs[e][i].type = "wave_complete" => outputs[e][i].wave < W
  BY Sizes, WaveTypes DEF IInv, Waves, Below
<1>1. CASE AllReduce /\ ~has_unfinished_dp
  <2> DEFINE x == [type |-> "wave_complete", wave |-> W]
  <2>1. /\ current_wave'[0] = W + 1
        /\ x \in OutputMessage /\ outputs'[0] = Append(outputs[0], x)
    BY <1>1, CompleteWave
  <2>2. x.type = "wave_complete" /\ x.wave = (W + 1) - 1
    BY <1>0
  <2> HIDE DEF x, W
  <2>3. \E i \in 1 .. Len(outputs'[0]) : outputs'[0][i] = x
    BY <2>1, <1>0, AppendFacts
  <2> QED
    BY <2>1, <2>2, <2>3 DEF WaveEndIsTold
<1>2. CASE ~(AllReduce /\ ~has_unfinished_dp)
  <2>1. current_wave' = current_wave
    BY <1>2, WaveAdvances
  <2> SUFFICES coordinator'.wave = W \/ Told(outputs'[0])
    BY <2>1 DEF WaveEndIsTold
  <2>2. coordinator.wave = W \/ Told(outputs[0])
    BY DEF Knowledge, WaveEndIsTold
  <2>3. ASSUME NEW e \in Engine, HandleWaveComplete(e)
        PROVE  coordinator'.wave = W \/ Told(outputs'[0])
    <3> DEFINE wave == Head(outputs[e]).wave
    <3>1. /\ outputs[e] # <<>> /\ Head(outputs[e]).type = "wave_complete"
          /\ outputs' = [outputs EXCEPT ![e] = Tail(@)]
          /\ \/ EndsWave(wave) /\ coordinator' = AfterWave(wave)
             \/ ~EndsWave(wave) /\ coordinator' = coordinator
      BY <2>3 DEF HandleWaveComplete
    <3>2. outputs[e] \in Seq(OutputMessage)
      BY WaveTypes DEF IInv
    <3>3. 1 \in 1 .. Len(outputs[e]) /\ Head(outputs[e]) = outputs[e][1]
      BY <3>1, <3>2, TailFacts
    <3>4. wave \in Nat /\ wave < W
      BY <1>0, <3>1, <3>3
    <3>5. EndsWave(wave) => coordinator'.wave = wave + 1
      BY <3>1, <3>4 DEF AfterWave
    <3>6. CASE coordinator.wave = W
      <4>1. ~EndsWave(wave)
        BY <3>4, <3>6, <1>0 DEF EndsWave
      <4> QED
        BY <4>1, <3>1, <3>6
    <3>7. CASE coordinator.wave # W
      <4>1. PICK i \in 1 .. Len(outputs[0]) :
               outputs[0][i].type = "wave_complete" /\ outputs[0][i].wave = W - 1
        BY <2>2, <3>7
      <4>2. CASE e = 0 /\ i = 1
        <5>1. wave = W - 1
          BY <4>1, <4>2, <3>3
        <5>2. EndsWave(wave)
          BY <5>1, <1>0, <3>7 DEF EndsWave
        <5> QED
          BY <5>1, <5>2, <3>5, <1>0
      <4>3. CASE e = 0 /\ i # 1
        <5>1. outputs'[0] = Tail(outputs[0])
          BY <4>3, <3>1, <1>0 DEF IInv, TypeOK
        <5>2. i - 1 \in 1 .. Len(Tail(outputs[0])) /\ Tail(outputs[0])[i - 1] = outputs[0][i]
          BY <4>3, <3>1, <1>0, TailFacts
        <5> QED
          BY <5>1, <5>2, <4>1
      <4>4. CASE e # 0
        <5>1. outputs'[0] = outputs[0]
          BY <4>4, <3>1, <1>0 DEF IInv, TypeOK
        <5> QED
          BY <5>1, <4>1
      <4> QED
        BY <4>2, <4>3, <4>4
    <3> QED
      BY <3>6, <3>7
  <2>4. ASSUME NEW e \in Engine, HandleStartWave(e)
        PROVE  coordinator'.wave = W \/ Told(outputs'[0])
    <3> DEFINE wave == Head(outputs[e]).wave
    <3>1. /\ outputs[e] # <<>> /\ Head(outputs[e]).type = "start_wave"
          /\ outputs' = [outputs EXCEPT ![e] = Tail(@)]
          /\ \/ StartsWave(wave) /\ coordinator' = [wave |-> wave, running |-> TRUE]
             \/ coordinator' = coordinator
      BY <2>4 DEF HandleStartWave
    <3>2. outputs[e] \in Seq(OutputMessage)
      BY WaveTypes DEF IInv
    <3>3. 1 \in 1 .. Len(outputs[e]) /\ Head(outputs[e]) = outputs[e][1]
      BY <3>1, <3>2, TailFacts
    <3>4. wave \in Nat /\ wave <= W
      BY <1>0, <3>1, <3>3
    <3>5. CASE coordinator.wave = W
      <4>1. StartsWave(wave) => wave = W
        BY <3>4, <3>5, <1>0 DEF StartsWave
      <4> QED
        BY <4>1, <3>1, <3>5
    <3>6. CASE coordinator.wave # W
      <4>1. PICK i \in 1 .. Len(outputs[0]) :
               outputs[0][i].type = "wave_complete" /\ outputs[0][i].wave = W - 1
        BY <2>2, <3>6
      <4>2. CASE e = 0
        <5>1. outputs'[0] = Tail(outputs[0])
          BY <4>2, <3>1, <1>0 DEF IInv, TypeOK
        <5>2. i # 1
          BY <4>1, <4>2, <3>1, <3>3
        <5>3. i - 1 \in 1 .. Len(Tail(outputs[0])) /\ Tail(outputs[0])[i - 1] = outputs[0][i]
          BY <4>2, <5>2, <3>1, <1>0, TailFacts
        <5> QED
          BY <5>1, <5>3, <4>1
      <4>3. CASE e # 0
        <5>1. outputs'[0] = outputs[0]
          BY <4>3, <3>1, <1>0 DEF IInv, TypeOK
        <5> QED
          BY <5>1, <4>1
      <4> QED
        BY <4>2, <4>3
    <3> QED
      BY <3>5, <3>6
  <2>5. ASSUME ~\E e \in Engine : HandleWaveComplete(e) \/ HandleStartWave(e)
        PROVE  coordinator'.wave = W \/ Told(outputs'[0])
    <3>1. coordinator'.wave = coordinator.wave
      <4>1. ASSUME NEW c \in Client, HandleFirstReq(c) PROVE coordinator'.wave = coordinator.wave
        BY <4>1 DEF HandleFirstReq, IInv, TypeOK, State
      <4>2. ASSUME \/ \E c \in Client : \E e \in Engine : AddRequest(c, e)
                   \/ \E c \in Client : StatsTask(c)
                   \/ PublishStats
                   \/ \E e \in Engine : EngineStep(e)
                   \/ \E e \in Engine : \E q \in live[e] : Abort(e, q)
                   \/ Forward \/ AllReduce \/ UNCHANGED vars
            PROVE  coordinator' = coordinator
        BY <4>2 DEF AddRequest, StatsTask, ForwardFirstReq, TakeUpdate, PublishStats, EngineStep,
                    HandleAdd, HandleStart, BeginForward, Sync, Abort, Forward, AllReduce, vars
      <4> QED
        BY <2>5, <4>1, <4>2 DEF Next, Coordinate
    <3>2. Told(outputs[0]) => Told(outputs'[0])
      <4> DEFINE x == [type |-> "start_wave", wave |-> W]
      <4>1. outputs'[0] = outputs[0] \/ outputs'[0] = Append(outputs[0], x)
        BY <1>0, <1>2, <2>5, OutputsStep
      <4>2. x \in OutputMessage
        BY <1>0 DEF OutputMessage
      <4> HIDE DEF x, W
      <4>3. \A i \in 1 .. Len(outputs[0]) :
               /\ i \in 1 .. Len(Append(outputs[0], x))
               /\ Append(outputs[0], x)[i] = outputs[0][i]
        BY <4>2, <1>0, AppendFacts
      <4> QED
        BY <4>1, <4>3
    <3> QED
      BY <2>2, <3>1, <3>2
  <2> QED
    BY <2>3, <2>4, <2>5
<1> QED
  BY <1>1, <1>2

\* The coordinator takes the engines for running only when one is, or is being told to.
LEMMA RunningIsTrueStep ==
    ASSUME IInv, Knowledge, [Next]_vars, ~AllowEarlyAbort
    PROVE  RunningIsTrue'
<1> DEFINE W == current_wave[0]
<1>0. /\ 0 \in Engine /\ Nobody # 0 /\ Nobody \in Int /\ W \in Nat /\ coordinator.wave \in Nat
      /\ \A e \in Engine : starts[e] \in Seq(StartMessage)
  BY Sizes, WaveTypes DEF IInv
<1>1. CASE AllReduce /\ ~has_unfinished_dp
  <2>1. coordinator'.wave # current_wave'[0]
    BY <1>1, CompleteWave
  <2> QED
    BY <2>1 DEF RunningIsTrue
<1>2. CASE ~(AllReduce /\ ~has_unfinished_dp)
  <2>1. current_wave' = current_wave
    BY <1>2, WaveAdvances
  <2>2. \A e \in Engine : Awake(e) => Awake(e)'
    BY <1>2, AwakeStays
  <2>w. \A m, e : Wakes(m, e)' <=> Wakes(m, e)
    BY <2>1 DEF Wakes
  <2>3. ASSUME coordinator' = coordinator, \A e \in Engine : starts'[e] = starts[e] PROVE RunningIsTrue'
    BY <2>1, <2>2, <2>3, <2>w DEF Knowledge, RunningIsTrue
  <2>4. ASSUME NEW c \in Client, HandleFirstReq(c) PROVE RunningIsTrue'
    <3>1. CASE coordinator.running
      BY <2>3, <2>4, <3>1 DEF HandleFirstReq
    <3>2. CASE ~coordinator.running
      <4> DEFINE m == [wave |-> coordinator.wave, exclude |-> Nobody]
      <4>1. starts'[0] = Append(starts[0], m) /\ coordinator'.wave = coordinator.wave
        <5>1. /\ coordinator' = [coordinator EXCEPT !.running = TRUE]
              /\ starts' = StartWave([coordinator EXCEPT !.running = TRUE].wave, Nobody)
          BY <2>4, <3>2 DEF HandleFirstReq
        <5>2. [coordinator EXCEPT !.running = TRUE].wave = coordinator.wave
          BY DEF IInv, TypeOK, State
        <5> QED
          BY <5>1, <5>2, <1>0 DEF StartWave
      <4>2. m \in StartMessage /\ m.wave = coordinator.wave /\ m.exclude = Nobody
        BY <1>0 DEF StartMessage
      <4> HIDE DEF m
      <4>3. PICK i \in 1 .. Len(starts'[0]) : starts'[0][i] = m
        BY <4>1, <4>2, <1>0, AppendFacts
      <4>4. coordinator'.wave = W => Wakes(starts'[0][i], 0)
        BY <4>1, <4>2, <4>3, <1>0 DEF Wakes
      <4> QED
        BY <4>4, <2>1, <2>w, <1>0 DEF RunningIsTrue
    <3> QED
      BY <3>1, <3>2
  <2>5. ASSUME NEW e \in Engine, HandleWaveComplete(e) PROVE RunningIsTrue'
    <3>1. starts' = starts /\ (coordinator' = coordinator \/ ~coordinator'.running)
      BY <2>5 DEF HandleWaveComplete, AfterWave
    <3> QED
      BY <3>1, <2>3 DEF RunningIsTrue
  <2>6. ASSUME NEW e \in Engine, HandleStartWave(e) PROVE RunningIsTrue'
    <3> DEFINE wave == Head(outputs[e]).wave
    <3>1. CASE StartsWave(wave)
      <4>1. /\ coordinator' = [wave |-> wave, running |-> TRUE]
            /\ outputs[e] # <<>> /\ Head(outputs[e]).type = "start_wave"
        BY <2>6, <3>1 DEF HandleStartWave
      <4>2. outputs[e] \in Seq(OutputMessage)
        BY WaveTypes DEF IInv
      <4>3. 1 \in 1 .. Len(outputs[e]) /\ Head(outputs[e]) = outputs[e][1]
        BY <4>1, <4>2, TailFacts
      <4>4. wave = W => Awake(e)
        BY <4>1, <4>3 DEF Knowledge, StartersAwake
      <4> QED
        BY <4>1, <4>4, <2>1, <2>2 DEF RunningIsTrue
    <3>2. CASE ~StartsWave(wave)
      BY <2>6, <3>2, <2>3 DEF HandleStartWave
    <3> QED
      BY <3>1, <3>2
  <2>7. ASSUME NEW e \in Engine, HandleStart(e) PROVE RunningIsTrue'
    <3> DEFINE m == Head(starts[e])
    <3>1. /\ coordinator' = coordinator /\ starts[e] # <<>>
          /\ starts' = [starts EXCEPT ![e] = Tail(@)]
          /\ AcceptsStart(e, m) => engines_running' = [engines_running EXCEPT ![e] = TRUE]
      BY <2>7 DEF HandleStart
    <3>2. /\ starts'[e] = Tail(starts[e])
          /\ \A f \in Engine : f # e => starts'[f] = starts[f]
      BY <3>1 DEF IInv, TypeOK
    <3>3. SUFFICES ASSUME coordinator.running, coordinator.wave = W
                   PROVE  \E f \in Engine :
                             Awake(f)' \/ \E i \in 1 .. Len(starts'[f]) : Wakes(starts'[f][i], f)
      BY <3>1, <2>1, <2>w DEF RunningIsTrue
    <3>4. PICK f \in Engine : Awake(f) \/ \E i \in 1 .. Len(starts[f]) : Wakes(starts[f][i], f)
      BY <3>3 DEF Knowledge, RunningIsTrue
    <3>5. CASE Awake(f)
      BY <3>5, <2>2
    <3>6. ASSUME NEW i \in 1 .. Len(starts[f]), Wakes(starts[f][i], f)
          PROVE  Awake(f)' \/ \E j \in 1 .. Len(starts'[f]) : Wakes(starts'[f][j], f)
      <4>1. CASE f # e
        BY <3>2, <3>6, <4>1
      <4>2. CASE f = e /\ i = 1
        <5>1. m = starts[f][i]
          BY <3>1, <4>2, <1>0, TailFacts
        <5>2. m.wave = W /\ m.exclude # e
          BY <5>1, <4>2, <3>6 DEF Wakes
        <5>3. W = current_wave[e]
          BY <1>0 DEF IInv, Waves
        <5>4. AcceptsStart(e, m)
          BY <5>2, <5>3, <1>0 DEF AcceptsStart
        <5>5. engines_running'[e]
          BY <5>4, <3>1 DEF IInv, TypeOK
        <5> QED
          BY <5>5, <4>2 DEF Awake
      <4>3. CASE f = e /\ i # 1
        <5>1. i - 1 \in 1 .. Len(Tail(starts[e])) /\ Tail(starts[e])[i - 1] = starts[e][i]
          BY <3>1, <4>3, <1>0, TailFacts
        <5> QED
          BY <5>1, <3>2, <3>6, <4>3
      <4> QED
        BY <4>1, <4>2, <4>3
    <3> QED
      BY <3>4, <3>5, <3>6
  <2>8. ASSUME \/ \E c \in Client : \E e \in Engine : AddRequest(c, e)
               \/ \E c \in Client : StatsTask(c)
               \/ PublishStats
               \/ \E e \in Engine : \E c \in Client : HandleAdd(e, c)
               \/ \E e \in Engine : BeginForward(e) \/ Sync(e)
               \/ \E e \in Engine : \E q \in live[e] : Abort(e, q)
               \/ Forward \/ AllReduce \/ UNCHANGED vars
        PROVE  RunningIsTrue'
    <3>1. coordinator' = coordinator /\ starts' = starts
      BY <2>8 DEF AddRequest, StatsTask, ForwardFirstReq, TakeUpdate, PublishStats, HandleAdd,
                  BeginForward, Sync, Abort, Forward, AllReduce, vars, channels
    <3> QED
      BY <3>1, <2>3
  <2> QED
    BY <2>4, <2>5, <2>6, <2>7, <2>8 DEF Next, Coordinate, EngineStep
<1> QED
  BY <1>1, <1>2

\* A client knows what the coordinator published last, or is about to learn it, or has
\* just asked for a wave.
LEMMA ClientsInformedStep ==
    ASSUME IInv, Knowledge, [Next]_vars
    PROVE  ClientsInformed'
<1> DEFINE Informed(p, cl, fr, co) ==
              /\ p # <<>> => Last(p) = co
              /\ p = <<>> => /\ cl.wave = co.wave
                             /\ co.running => cl.running
                             /\ cl.running /\ fr = <<>> => co.running
<1>0. \A c \in Client : Informed(pubs[c], client[c], fronts[c], coordinator)
  BY DEF Knowledge, ClientsInformed
<1>1. SUFFICES \A c \in Client : Informed(pubs'[c], client'[c], fronts'[c], coordinator')
  BY DEF ClientsInformed
<1>2. ASSUME NEW s \in State, coordinator' = s, pubs' = Published(s)
      PROVE  \A c \in Client : Informed(pubs'[c], client'[c], fronts'[c], coordinator')
  <2> SUFFICES ASSUME NEW c \in Client PROVE Append(pubs[c], s) # <<>> /\ Last(Append(pubs[c], s)) = s
    BY <1>2 DEF Published
  <2>1. pubs[c] \in Seq(State)
    BY WaveTypes DEF IInv
  <2> QED
    BY <2>1, AppendFacts
<1>3. ASSUME NEW c \in Client, ForwardFirstReq(c)
      PROVE  \A d \in Client : Informed(pubs'[d], client'[d], fronts'[d], coordinator')
  <2>1. /\ pubs' = pubs /\ coordinator' = coordinator
        /\ client' = [client EXCEPT ![c].running = TRUE]
        /\ fronts' = [fronts EXCEPT ![c] = Append(@, client[c].wave)]
    BY <1>3 DEF ForwardFirstReq
  <2>2. /\ client[c].wave \in Nat /\ fronts[c] \in Seq(Nat)
        /\ client'[c].wave = client[c].wave /\ client'[c].running
        /\ fronts'[c] = Append(fronts[c], client[c].wave)
        /\ \A d \in Client : d # c => client'[d] = client[d] /\ fronts'[d] = fronts[d]
    BY <2>1 DEF IInv, TypeOK, State
  <2>3. fronts'[c] # <<>>
    <3>1. \A s \in Seq(Nat) : \A w \in Nat : Append(s, w) # <<>>
      <4> SUFFICES ASSUME NEW s \in Seq(Nat), NEW w \in Nat PROVE Append(s, w) # <<>>
        OBVIOUS
      <4>1. Len(Append(s, w)) = Len(s) + 1 /\ Len(s) \in Nat
        OBVIOUS
      <4> QED
        BY <4>1
    <3> QED
      BY <2>2, <3>1
  <2> QED
    BY <1>0, <2>1, <2>2, <2>3
<1>4. ASSUME NEW c \in Client, TakeUpdate(c)
      PROVE  \A d \in Client : Informed(pubs'[d], client'[d], fronts'[d], coordinator')
  <2>1. /\ coordinator' = coordinator /\ fronts' = fronts /\ pubs[c] # <<>>
        /\ client'[c] = Last(pubs[c]) /\ pubs'[c] = <<>>
        /\ \A d \in Client : d # c => client'[d] = client[d] /\ pubs'[d] = pubs[d]
    BY <1>4 DEF TakeUpdate, IInv, TypeOK
  <2>2. client'[c] = coordinator
    BY <2>1, <1>0
  <2> QED
    BY <1>0, <2>1, <2>2
<1>5. ASSUME NEW c \in Client, HandleFirstReq(c)
      PROVE  \A d \in Client : Informed(pubs'[d], client'[d], fronts'[d], coordinator')
  <2>1. CASE coordinator.running
    <3>1. /\ coordinator' = coordinator /\ pubs' = pubs /\ client' = client
          /\ \A d \in Client : d # c => fronts'[d] = fronts[d]
      BY <1>5, <2>1 DEF HandleFirstReq, clientVars, IInv, TypeOK
    <3> QED
      BY <1>0, <2>1, <3>1
  <2>2. CASE ~coordinator.running
    <3> DEFINE s == [coordinator EXCEPT !.running = TRUE]
    <3>1. coordinator' = s /\ pubs' = Published(s)
      BY <1>5, <2>2 DEF HandleFirstReq
    <3>2. s \in State
      BY DEF IInv, TypeOK, State
    <3> HIDE DEF s
    <3> QED
      BY <3>1, <3>2, <1>2
  <2> QED
    BY <2>1, <2>2
<1>6. ASSUME NEW e \in Engine, HandleWaveComplete(e) \/ HandleStartWave(e)
      PROVE  \A d \in Client : Informed(pubs'[d], client'[d], fronts'[d], coordinator')
  <2> DEFINE wave == Head(outputs[e]).wave
  <2>1. client' = client /\ fronts' = fronts
    BY <1>6 DEF HandleWaveComplete, HandleStartWave, clientVars
  <2>2. wave \in Nat
    <3>1. outputs[e] \in Seq(OutputMessage) /\ outputs[e] # <<>>
      BY <1>6, WaveTypes DEF HandleWaveComplete, HandleStartWave, IInv
    <3> QED
      BY <3>1, TailFacts, WaveTypes DEF IInv
  <2>3. \/ UNCHANGED <<coordinator, pubs>>
        \/ coordinator' = AfterWave(wave) /\ pubs' = Published(AfterWave(wave))
        \/ /\ coordinator' = [wave |-> wave, running |-> TRUE]
           /\ pubs' = Published([wave |-> wave, running |-> TRUE])
    BY <1>6 DEF HandleWaveComplete, HandleStartWave
  <2>4. AfterWave(wave) \in State /\ [wave |-> wave, running |-> TRUE] \in State
    BY <2>2 DEF AfterWave, State
  <2>5. CASE UNCHANGED <<coordinator, pubs>>
    BY <1>0, <2>1, <2>5
  <2>6. CASE coordinator' = AfterWave(wave) /\ pubs' = Published(AfterWave(wave))
    BY <2>4, <2>6, <1>2
  <2>7. CASE /\ coordinator' = [wave |-> wave, running |-> TRUE]
             /\ pubs' = Published([wave |-> wave, running |-> TRUE])
    BY <2>4, <2>7, <1>2
  <2> QED
    BY <2>3, <2>5, <2>6, <2>7
<1>7. CASE PublishStats
  <2>1. coordinator' = coordinator /\ pubs' = Published(coordinator) /\ coordinator \in State
    BY <1>7 DEF PublishStats, IInv, TypeOK
  <2> QED
    BY <2>1, <1>2
<1>8. ASSUME \/ \E c \in Client : \E e \in Engine : AddRequest(c, e)
             \/ \E e \in Engine : EngineStep(e)
             \/ \E e \in Engine : \E q \in live[e] : Abort(e, q)
             \/ Forward \/ AllReduce \/ UNCHANGED vars
      PROVE  \A d \in Client : Informed(pubs'[d], client'[d], fronts'[d], coordinator')
  <2>1. UNCHANGED <<pubs, client, fronts, coordinator>>
    BY <1>8 DEF AddRequest, EngineStep, HandleAdd, HandleStart, BeginForward, Sync, Abort, Forward,
                AllReduce, vars, clientVars, channels
  <2> QED
    BY <1>0, <2>1
<1> QED
  BY <1>3, <1>4, <1>5, <1>6, <1>7, <1>8 DEF Next, StatsTask, Coordinate

\* What is known when nothing is under way.
LEMMA PauseFromKnowledge == IInv /\ Knowledge => PauseIsKnown
<1> SUFFICES ASSUME IInv, Knowledge, Paused, Silent
             PROVE  /\ ~coordinator.running /\ coordinator.wave = current_wave[0]
                    /\ \A c \in Client : client[c] = coordinator
  BY DEF PauseIsKnown
<1>1. \A e \in Engine : ~Awake(e) /\ starts[e] = <<>> /\ outputs[e] = <<>>
  BY DEF Paused, Silent, JoinsForward, has_unfinished_requests, Awake
<1>2. coordinator.wave = current_wave[0]
  BY <1>1, Sizes DEF Knowledge, WaveEndIsTold
<1>3. ~coordinator.running
  BY <1>1, <1>2 DEF Knowledge, RunningIsTrue
<1>4. ASSUME NEW c \in Client PROVE client[c] = coordinator
  <2>1. client[c].wave = coordinator.wave /\ ~client[c].running
    BY <1>3 DEF Silent, Knowledge, ClientsInformed
  <2>2. \A x \in State : x = [wave |-> x.wave, running |-> x.running] /\ x.running \in BOOLEAN
    BY DEF State
  <2>3. client[c] \in State /\ coordinator \in State
    BY DEF IInv, TypeOK
  <2>4. client[c].running = coordinator.running
    BY <1>3, <2>1, <2>2, <2>3
  <2> QED
    BY <2>1, <2>2, <2>3, <2>4
<1> QED
  BY <1>2, <1>3, <1>4

\* When all engines have paused and no message is under way, the coordinator and all
\* clients know it, so that the next request wakes the engines: for any number of engines,
\* clients and requests, if no request is aborted before its engine runs.
THEOREM PausesAreKnown ==
    ASSUME ~AllowEarlyAbort
    PROVE  Spec => []PauseIsKnown
<1>1. Init => IInv /\ Knowledge
  BY InitIInv
<1>2. IInv /\ Knowledge /\ [Next]_vars => (IInv /\ Knowledge)'
  BY NextIInv, StartersAwakeStep, WaveEndIsToldStep, RunningIsTrueStep, ClientsInformedStep
  DEF Knowledge
<1>3. IInv /\ Knowledge => PauseIsKnown
  BY PauseFromKnowledge
<1> QED
  BY <1>1, <1>2, <1>3, PTL DEF Spec
==============================================================================
