-------------------------- MODULE Scheduler_proofs --------------------------
(* Proofs about the scheduler.  The first part of the inductive invariant holds *)
(* in every engine configuration: queues, loop and workers.  The second part    *)
(* follows the tokens in flight, in the configurations where they are told      *)
(* apart (Orderly).                                                             *)
EXTENDS Scheduler, KVCacheManager_proofs

\* A scheduled request, and an entry of a batch, as the code's ints.
Slice == [req : Request, n : Int]

Token == [req : Request, pos : Int]

Locals == [req_index : Int, token_budget : Int, scheduled : Seq(Slice),
           resumed : SUBSET Request, preempted : BOOLEAN, cur : Request \cup {None},
           num_new : Int]

\* The fields of the KV cache manager, whatever the pool holds.
Tables(k) ==
    /\ k = [pool |-> k.pool, req_to_blocks |-> k.req_to_blocks,
            num_cached_block |-> k.num_cached_block]
    /\ k.req_to_blocks = [r \in Request |-> k.req_to_blocks[r]]

Types ==
    /\ mode \in Modes
    /\ status \in [Request -> Status]
    /\ output \in [Request -> Seq(Int)]
    /\ num_computed \in [Request -> Int]
    /\ placeholders \in [Request -> Int]
    /\ discard \in [Request -> BOOLEAN]
    /\ waiting \in Seq(Request) /\ running \in Seq(Request)
    /\ Tables(kv)
    /\ finished_ids \subseteq Request /\ worker \subseteq Request
    /\ pause \in {"UNPAUSED", "PAUSED_NEW", "PAUSED_ALL"}
    /\ batches \in Seq(Seq(Token)) /\ out \in Seq(Token)
    /\ pc \in {"idle", "running", "allocate", "waiting", "submit", "popped", "output"}
    /\ step \in Locals
    /\ resets \in Nat /\ resets <= mode.resets

\* The part of QueuesMatchStatus beyond the types.
Queues ==
    /\ IsInjective(running) /\ IsInjective(waiting)
    /\ ToSet(running) = {r \in Request : status[r] = "RUNNING"}
    /\ ToSet(waiting) = {r \in Request : status[r] \in {"WAITING", "PREEMPTED"}}
    /\ Len(running) <= MaxNumRunningReqs

OncePerRequest(batch) ==
    \A i, j \in 1 .. Len(batch) : batch[i].req = batch[j].req => i = j

\* Where the engine thread is, and what is in flight then.
Phase ==
    /\ IF pc = "popped" THEN Len(batches) \in 1 .. BatchQueueSize
                        ELSE Len(batches) < BatchQueueSize
    /\ pc # "output" => out = <<>>
    /\ pc \in {"idle", "popped", "output"} => step = IdleStep
    /\ pc = "waiting" => ~step.preempted
    /\ \A k \in 1 .. Len(batches) : OncePerRequest(batches[k])
    /\ OncePerRequest(out)

\* Whether r is among the running requests that the loop has passed.
Passed(r) == \E k \in 1 .. Len(running) : k <= step.req_index /\ running[k] = r

\* The batch under construction: running requests, each once.
Loop ==
    /\ OncePerRequest(step.scheduled)
    /\ \A i \in 1 .. Len(step.scheduled) : step.scheduled[i].req \in ToSet(running)
    /\ pc \in {"running", "allocate"} =>
          \A i \in 1 .. Len(step.scheduled) : Passed(step.scheduled[i].req)
    /\ step.req_index \in 0 .. Cardinality(Request)
    /\ pc = "allocate" =>
          /\ step.cur \in ToSet(running) /\ step.cur \notin Scheduled
          /\ step.req_index < Cardinality(Request)
          /\ \E k \in 1 .. Len(running) : k <= step.req_index + 1 /\ running[k] = step.cur

\* Who the workers and the KV cache manager know of.
Held ==
    /\ \A r \in worker : Live(r) \/ r \in finished_ids
    /\ \A r \in Request : status[r] # "RUNNING" => kv.req_to_blocks[r] = <<>>

-----------------------------------------------------------------------------
\* At most two batches in flight, and no forced reset while there may be two.
Orderly ==
    /\ mode.batches <= 2
    /\ mode.resets = 0 \/ (~mode.async /\ mode.batches = 1)

\* The batches in flight, the older one first.
First ==
    IF pc = "output" THEN out ELSE IF Len(batches) >= 1 THEN batches[1] ELSE <<>>

Second ==
    IF pc = "output" THEN (IF Len(batches) >= 1 THEN batches[1] ELSE <<>>)
    ELSE IF Len(batches) >= 2 THEN batches[2] ELSE <<>>

HasToken(batch, r) == \E i \in 1 .. Len(batch) : batch[i].req = r /\ batch[i].pos # 0

Count(batch, r) == IF HasToken(batch, r) THEN 1 ELSE 0

Pending(r) == Count(First, r) + Count(Second, r)

\* Every token that batch holds for r has position pos.
TokenAt(batch, r, pos) ==
    \A i \in 1 .. Len(batch) : batch[i].req = r /\ batch[i].pos # 0 => batch[i].pos = pos

\* The counters of a request.
BoundsAt(r) ==
    /\ NumTokens(r) <= MaxModelLen
    /\ status[r] # "FINISHED" => NumTokens(r) < Len(Text[r]) /\ NumTokens(r) < MaxModelLen
    /\ 0 <= num_computed[r] /\ num_computed[r] <= NumTokens(r) + placeholders[r]
    /\ 0 <= placeholders[r] /\ placeholders[r] <= BatchQueueSize
    /\ status[r] = "RUNNING" => num_computed[r] < MaxModelLen
    /\ status[r] = "NEW" => placeholders[r] = 0 /\ output[r] = <<>>
    /\ AsyncScheduling => ~discard[r]

\* The tokens of a request, in order.
OrderAt(r) == \A i \in 1 .. Len(output[r]) : output[r][i] = PromptLen[r] + i

\* What is in flight for a request.
NumberedAt(r) ==
    /\ status[r] = "NEW" => ~HasToken(First, r) /\ ~HasToken(Second, r)
    /\ Live(r) => /\ TokenAt(First, r, NumTokens(r) + 1)
                  /\ TokenAt(Second, r, NumTokens(r) + 1 + Count(First, r))
                  /\ placeholders[r] = IF AsyncScheduling THEN Pending(r) ELSE 0
                  /\ ~AsyncScheduling => Pending(r) <= 1
    /\ status[r] = "RUNNING" /\ Pending(r) > 0 =>
          num_computed[r] = NumTokens(r) + Pending(r) - 1

\* The oldest batch is waited for before anything else is scheduled.
Draining ==
    \/ pc \in {"popped", "output"}
    \/ pc \in {"running", "allocate", "submit"} /\ step.preempted

\* A request that is not running has nothing in flight, unless it was preempted
\* in this step.
SettledAt(r) ==
    status[r] \in {"WAITING", "PREEMPTED"} =>
       ~HasToken(Second, r) /\ (HasToken(First, r) => Draining)

RequestInv(r) == BoundsAt(r) /\ OrderAt(r) /\ NumberedAt(r)

\* n more tokens of r may be computed.
MayCompute(r, n) ==
    /\ n >= 1
    /\ num_computed[r] + n <= NumTokens(r) + placeholders[r]
    /\ num_computed[r] + n < MaxModelLen
    /\ ~AsyncScheduling => Pending(r) = 0

Budget ==
    /\ \A i \in 1 .. Len(step.scheduled) :
          MayCompute(step.scheduled[i].req, step.scheduled[i].n)
    /\ pc = "allocate" => MayCompute(step.cur, step.num_new) /\ step.num_new <= step.token_budget
    /\ step.token_budget >= 0
    /\ pc \in {"running", "allocate", "waiting", "submit"} =>
          step.token_budget + TotalTokens(step.scheduled)
             = IF pause = "PAUSED_ALL" THEN 0 ELSE MaxNumScheduledTokens

EngineInv == Types /\ Queues /\ Phase /\ Loop /\ Held

Requests == \A r \in Request : RequestInv(r) /\ SettledAt(r)

Entries == batches \in Seq(Seq(Entry)) /\ out \in Seq(Entry)

TokenInv == Requests /\ Entries /\ Budget

IInv == EngineInv /\ (Orderly => TokenInv)

-----------------------------------------------------------------------------
\* What the assumptions say of the constants.
LEMMA Facts ==
    /\ IsFiniteSet(Request) /\ Cardinality(Request) \in Nat
    /\ Text \in [Request -> Seq(Nat)]
    /\ \A r \in Request : Len(Text[r]) \in Nat
    /\ PromptLen \in [Request -> Nat \ {0}]
    /\ \A r \in Request : PromptLen[r] < Len(Text[r]) /\ PromptLen[r] < MaxModelLen
    /\ Rank \in [Request -> Nat]
    /\ \A x, y \in Request : Rank[x] = Rank[y] => x = y
    /\ MaxNumRunningReqs \in Nat \ {0} /\ MaxNumScheduledTokens \in Nat \ {0}
    /\ LongPrefillThreshold \in Nat
    /\ MaxModelLen \in Nat \ {0} /\ BlockSize \in Nat \ {0}
    /\ Modes \subseteq Mode
    /\ EnableCaching \in BOOLEAN
<1>1. IsFiniteSet(Request) /\ Cardinality(Request) \in Nat
  BY KVCacheManagerAssumption, FS_CardinalityType
<1>2. Text \in [Request -> Seq(Nat)] /\ \A r \in Request : Len(Text[r]) \in Nat
  BY KVCacheManagerAssumption
<1>3. PromptLen \in [Request -> Nat \ {0}]
  BY SchedulerAssumption
<1>4. \A r \in Request : PromptLen[r] < Len(Text[r]) /\ PromptLen[r] < MaxModelLen
  BY SchedulerAssumption
<1>5. Rank \in [Request -> Nat] /\ \A x, y \in Request : Rank[x] = Rank[y] => x = y
  BY SchedulerAssumption DEF IsInjective
<1>6. MaxNumRunningReqs \in Nat \ {0} /\ MaxNumScheduledTokens \in Nat \ {0}
  BY SchedulerAssumption
<1>7. LongPrefillThreshold \in Nat /\ Modes \subseteq Mode
  BY SchedulerAssumption
<1>8. MaxModelLen \in Nat \ {0} /\ BlockSize \in Nat \ {0} /\ EnableCaching \in BOOLEAN
  BY KVCacheManagerAssumption
<1> QED
  BY <1>1, <1>2, <1>3, <1>4, <1>5, <1>6, <1>7, <1>8

\* The fields of an engine configuration.
LEMMA ModeFacts ==
    ASSUME NEW m \in Modes
    PROVE  /\ m.priority \in BOOLEAN /\ m.async \in BOOLEAN /\ m.stages \in BOOLEAN
           /\ m.batches \in Nat \ {0} /\ m.resets \in Nat
BY Facts DEF Mode

\* InsertByRank adds one request to a queue that does not hold it.
LEMMA InsertFacts ==
    ASSUME NEW q \in Seq(Request), IsInjective(q), NEW r \in Request, r \notin ToSet(q)
    PROVE  /\ InsertByRank(q, r) \in Seq(Request)
           /\ IsInjective(InsertByRank(q, r))
           /\ ToSet(InsertByRank(q, r)) = ToSet(q) \cup {r}
<1> DEFINE H == {x \in Request : Rank[x] >= Rank[r]}
           L == {x \in Request : Rank[x] <= Rank[r]}
           a == without(q, H)
           b == without(q, L)
           m == <<r>>
<1>1. /\ \A x \in Request : x \in H <=> Rank[x] >= Rank[r]
      /\ \A x \in Request : x \in L <=> Rank[x] <= Rank[r]
      /\ r \in H /\ r \in L
  BY Facts
<1>2. \A x \in Request : (x \in H /\ x \in L => x = r) /\ (x \in H \/ x \in L)
  BY <1>1, Facts
<1>3. InsertByRank(q, r) = (a \o m) \o b
  BY DEF InsertByRank
<1>4. m \in Seq(Request) /\ ToSet(m) = {r} /\ IsInjective(m)
  BY DEF ToSet, IsInjective
<1> HIDE DEF H, L, m
<1>5. a \in Seq(Request) /\ ToSet(a) = ToSet(q) \ H /\ IsInjective(a)
  BY WithoutFacts
<1>6. b \in Seq(Request) /\ ToSet(b) = ToSet(q) \ L /\ IsInjective(b)
  BY WithoutFacts
<1>7. ToSet(q) \subseteq Request
  BY SeqFacts
<1> HIDE DEF a, b
<1>8. /\ a \o m \in Seq(Request) /\ ToSet(a \o m) = ToSet(a) \cup {r}
      /\ IsInjective(a \o m)
  <2>1. ToSet(a) \cap ToSet(m) = {}
    BY <1>4, <1>5
  <2> QED
    BY <1>4, <1>5, <2>1, AppendFacts
<1>9. ToSet(a \o m) \cap ToSet(b) = {}
  BY <1>1, <1>2, <1>5, <1>6, <1>7, <1>8
<1>10. /\ (a \o m) \o b \in Seq(Request)
       /\ ToSet((a \o m) \o b) = ToSet(a \o m) \cup ToSet(b)
       /\ IsInjective((a \o m) \o b)
  <2> DEFINE c == a \o m
  <2>1. c \in Seq(Request) /\ IsInjective(c) /\ ToSet(c) \cap ToSet(b) = {}
    BY <1>8, <1>9
  <2> HIDE DEF c
  <2>2. c \o b \in Seq(Request) /\ ToSet(c \o b) = ToSet(c) \cup ToSet(b) /\ IsInjective(c \o b)
    BY <1>6, <2>1, AppendFacts
  <2> QED
    BY <2>2 DEF c
<1>11. ToSet((a \o m) \o b) = ToSet(q) \cup {r}
  BY <1>1, <1>2, <1>5, <1>6, <1>7, <1>8, <1>10
<1> QED
  BY <1>3, <1>10, <1>11

\* A sequence with one element more at either end.
LEMMA EndFacts ==
    ASSUME NEW q \in Seq(Request), IsInjective(q), NEW r \in Request, r \notin ToSet(q)
    PROVE  /\ Append(q, r) \in Seq(Request) /\ IsInjective(Append(q, r))
           /\ ToSet(Append(q, r)) = ToSet(q) \cup {r}
           /\ <<r>> \o q \in Seq(Request) /\ IsInjective(<<r>> \o q)
           /\ ToSet(<<r>> \o q) = ToSet(q) \cup {r}
<1> DEFINE m == <<r>>
<1>1. m \in Seq(Request) /\ ToSet(m) = {r} /\ IsInjective(m)
  BY DEF ToSet, IsInjective
<1>2. Append(q, r) = q \o m
  OBVIOUS
<1> HIDE DEF m
<1>3. ToSet(q) \cap ToSet(m) = {} /\ ToSet(m) \cap ToSet(q) = {}
  BY <1>1
<1>4. /\ q \o m \in Seq(Request) /\ IsInjective(q \o m)
      /\ ToSet(q \o m) = ToSet(q) \cup ToSet(m)
  BY <1>1, <1>3, AppendFacts
<1>5. /\ m \o q \in Seq(Request) /\ IsInjective(m \o q)
      /\ ToSet(m \o q) = ToSet(m) \cup ToSet(q)
  BY <1>1, <1>3, AppendFacts
<1> QED
  BY <1>1, <1>2, <1>4, <1>5 DEF m

\* Either queue gains exactly the request that is put back or added.
LEMMA QueueFacts ==
    ASSUME NEW q \in Seq(Request), IsInjective(q), NEW r \in Request, r \notin ToSet(q)
    PROVE  /\ prepend_request(q, r) \in Seq(Request) /\ IsInjective(prepend_request(q, r))
           /\ ToSet(prepend_request(q, r)) = ToSet(q) \cup {r}
           /\ add_request(q, r) \in Seq(Request) /\ IsInjective(add_request(q, r))
           /\ ToSet(add_request(q, r)) = ToSet(q) \cup {r}
<1>1. CASE PriorityPolicy
  BY <1>1, InsertFacts DEF prepend_request, add_request
<1>2. CASE ~PriorityPolicy
  BY <1>2, EndFacts DEF prepend_request, add_request
<1> QED
  BY <1>1, <1>2

\* What one request less leaves of a queue.
LEMMA RemoveFacts ==
    ASSUME NEW q \in Seq(Request), IsInjective(q), NEW r
    PROVE  /\ remove_all(q, {r}) \in Seq(Request) /\ IsInjective(remove_all(q, {r}))
           /\ ToSet(remove_all(q, {r})) = ToSet(q) \ {r}
           /\ Len(remove_all(q, {r})) <= Len(q)
<1> DEFINE w == without(q, {r})
<1>1. w \in Seq(Request) /\ IsInjective(w) /\ ToSet(w) = ToSet(q) \ {r}
  BY WithoutFacts
<1>2. /\ IsFiniteSet(ToSet(w)) /\ Cardinality(ToSet(w)) = Len(w)
      /\ IsFiniteSet(ToSet(q)) /\ Cardinality(ToSet(q)) = Len(q)
  <2> HIDE DEF w
  <2> QED
    BY <1>1, InjectiveLen
<1>3. Cardinality(ToSet(w)) <= Cardinality(ToSet(q))
  <2>1. ToSet(w) \subseteq ToSet(q)
    BY <1>1
  <2> QED
    BY <1>2, <2>1, FS_Subset
<1> QED
  BY <1>1, <1>2, <1>3 DEF remove_all

\* When v leaves the queue the others keep their place or move up, those behind it do.
LEMMA RemovePlaces ==
    ASSUME NEW q \in Seq(Request), IsInjective(q), NEW j \in 1 .. Len(q),
           NEW k \in 1 .. Len(q), q[k] # q[j]
    PROVE  LET w == remove_all(q, {q[j]})
           IN  \E l \in 1 .. Len(w) : w[l] = q[k] /\ l <= k /\ (j < k => l < k)
<1> DEFINE v == q[j]
           w == without(q, {v})
           S == {v}
<1>0. Len(q) \in Nat /\ \A x, y \in 1 .. Len(q) : q[x] = q[y] => x = y
  BY SeqFacts
<1>1. w \in Seq(Request) /\ \E places : Left(q, {v}, Len(q), w, places)
  BY WithoutPlaces
<1>2. PICK p : Left(q, {v}, Len(q), w, p)
  BY <1>1
<1>3. /\ Len(w) \in Nat
      /\ p \in [1 .. Len(w) -> 1 .. Len(q)]
      /\ \A x \in 1 .. Len(w) : w[x] = q[p[x]] /\ q[p[x]] # v
      /\ \A x, y \in 1 .. Len(w) : x < y => p[x] < p[y]
      /\ \E l \in 1 .. Len(w) : p[l] = k
  <2>1. q[k] \notin {v} /\ \A x : x \notin {v} <=> x # v
    OBVIOUS
  <2> HIDE DEF w, v
  <2> QED
    BY <1>1, <1>2, <2>1 DEF Left
<1>4. q[j] = v
  OBVIOUS
<1> HIDE DEF w, v
<1>5. \A x \in 1 .. Len(w) : p[x] \in Nat /\ p[x] # j
  BY <1>0, <1>3, <1>4
<1>6. \A x \in 1 .. Len(w) : x <= p[x] /\ (j < p[x] => x < p[x])
  <2> DEFINE T == {x \in 1 .. Len(w) : ~(x <= p[x] /\ (j < p[x] => x < p[x]))}
  <2>1. SUFFICES ASSUME T # {} PROVE FALSE
    OBVIOUS
  <2>2. PICK x \in T : \A y \in T : x <= y
    <3>1. T \subseteq Nat
      BY <1>3
    <3> HIDE DEF T
    <3> QED
      BY <2>1, <3>1, LeastNat
  <2>3. x \in 1 .. Len(w) /\ ~(x <= p[x] /\ (j < p[x] => x < p[x])) /\ p[x] \in Nat /\ p[x] >= 1
    BY <1>3, <1>5
  <2>4. CASE x = 1
    BY <2>3, <2>4
  <2>5. CASE x # 1
    <3>1. x - 1 \in 1 .. Len(w) /\ x - 1 \notin T
      BY <1>3, <2>2, <2>3, <2>5
    <3>2. /\ x - 1 <= p[x - 1] /\ (j < p[x - 1] => x - 1 < p[x - 1])
          /\ p[x - 1] < p[x] /\ p[x - 1] \in Nat /\ p[x - 1] # j
      BY <1>3, <1>5, <2>3, <3>1
    <3> QED
      BY <2>3, <3>2
  <2> QED
    BY <2>4, <2>5
<1>7. PICK l \in 1 .. Len(w) : p[l] = k
  BY <1>3
<1>8. w[l] = q[k] /\ l <= k /\ (j < k => l < k)
  BY <1>3, <1>6, <1>7
<1> QED
  BY <1>8 DEF remove_all, w, v

-----------------------------------------------------------------------------
\* The entries of a batch, under construction or in flight.
LEMMA EntryFacts ==
    /\ \A s \in Seq(Slice) : \A i \in 1 .. Len(s) :
          s[i] \in Slice /\ s[i].req \in Request /\ s[i].n \in Int
    /\ \A s \in Seq(Token) : \A i \in 1 .. Len(s) :
          s[i] \in Token /\ s[i].req \in Request /\ s[i].pos \in Int
<1>1. ASSUME NEW s \in Seq(Slice), NEW i \in 1 .. Len(s)
      PROVE  s[i] \in Slice /\ s[i].req \in Request /\ s[i].n \in Int
  <2>1. s[i] \in Slice
    OBVIOUS
  <2> QED
    BY <2>1 DEF Slice
<1>2. ASSUME NEW s \in Seq(Token), NEW i \in 1 .. Len(s)
      PROVE  s[i] \in Token /\ s[i].req \in Request /\ s[i].pos \in Int
  <2>1. s[i] \in Token
    OBVIOUS
  <2> QED
    BY <2>1 DEF Token
<1> QED
  BY <1>1, <1>2

\* g satisfies the recursive definition that TotalTokens(s) is made of.
Totals(g, s) ==
    /\ g[0] = 0
    /\ \A i \in 1 .. Len(s) : g[i] = g[i - 1] + s[i].n

\* That definition has a solution.
LEMMA TotalStep ==
    ASSUME NEW s, Len(s) \in Nat
    PROVE  \E g : TotalTokens(s) = g[Len(s)] /\ Totals(g, s)
<1> DEFINE body(g, i) == IF i = 0 THEN 0 ELSE g[i - 1] + s[i].n
           Good(g, n) == g = [i \in 0 .. n |-> body(g, i)]
<1>1. \A n \in Nat : \E g : Good(g, n)
  <2> DEFINE T == {n \in Nat : ~ \E g : Good(g, n)}
  <2>1. SUFFICES ASSUME T # {} PROVE FALSE
    OBVIOUS
  <2>2. PICK n \in T : \A m \in T : n <= m
    BY <2>1, LeastNat
  <2>3. CASE n = 0
    <3> DEFINE h == [i \in 0 .. 0 |-> 0]
    <3>1. Good(h, 0)
      OBVIOUS
    <3> QED
      BY <2>3, <3>1
  <2>4. CASE n # 0
    <3>1. n \in Nat
      BY <2>2
    <3>2. n - 1 \in Nat /\ n - 1 \notin T
      <4> HIDE DEF T
      <4> QED
        BY <2>2, <2>4, <3>1
    <3>3. PICK g : Good(g, n - 1)
      BY <3>2
    <3> DEFINE h == [i \in 0 .. n |-> body(g, i)]
    <3>4. ASSUME NEW i \in 0 .. n PROVE h[i] = body(h, i)
      <4>1. CASE i = 0
        BY <4>1
      <4>2. CASE i # 0
        <5>1. i - 1 \in 0 .. (n - 1) /\ i - 1 \in 0 .. n
          BY <4>2, <2>2
        <5>2. g[i - 1] = body(g, i - 1) /\ h[i - 1] = body(g, i - 1)
          BY <3>3, <5>1
        <5> QED
          BY <5>2, <4>2
      <4> QED
        BY <4>1, <4>2
    <3>5. Good(h, n)
      BY <3>4
    <3> QED
      BY <3>5, <2>2
  <2> QED
    BY <2>3, <2>4
<1>2. PICK g : Good(g, Len(s))
  BY <1>1
<1> DEFINE f == CHOOSE x : Good(x, Len(s))
<1>3. Good(f, Len(s))
  BY <1>2
<1>4. TotalTokens(s) = f[Len(s)]
  BY DEF TotalTokens
<1>5. Totals(f, s)
  <2>1. \A i \in 0 .. Len(s) : f[i] = body(f, i)
    BY <1>3
  <2> HIDE DEF f
  <2> QED
    BY <2>1 DEF Totals
<1> QED
  BY <1>4, <1>5

\* The totals are numbers.
LEMMA TotalInt ==
    ASSUME NEW s \in Seq(Slice), NEW g, Totals(g, s)
    PROVE  \A i \in 0 .. Len(s) : g[i] \in Int
<1> DEFINE T == {i \in 0 .. Len(s) : g[i] \notin Int}
<1>1. SUFFICES ASSUME T # {} PROVE FALSE
  OBVIOUS
<1>2. PICK x \in T : \A y \in T : x <= y
  <2>1. T \subseteq Nat
    OBVIOUS
  <2> HIDE DEF T
  <2> QED
    BY <1>1, <2>1, LeastNat
<1>3. CASE x = 0
  BY <1>3 DEF Totals
<1>4. CASE x # 0
  <2>1. x \in 1 .. Len(s) /\ x - 1 \in 0 .. Len(s) /\ x - 1 \notin T
    BY <1>2, <1>4
  <2>2. s[x].n \in Int /\ g[x - 1] \in Int
    BY <2>1, EntryFacts
  <2> QED
    BY <2>1, <2>2 DEF Totals
<1> QED
  BY <1>3, <1>4

\* The first n elements of s and t are the same.
SamePrefix(s, t, n) ==
    /\ Len(s) \in Nat /\ Len(t) \in Nat /\ n \in Nat /\ n <= Len(s) /\ n <= Len(t)
    /\ \A i \in 1 .. n : s[i] = t[i]

\* Two solutions for sequences with a common prefix agree on it.
LEMMA TotalPrefix ==
    ASSUME NEW s, NEW t, NEW g, NEW h, NEW n,
           Totals(g, s), Totals(h, t), SamePrefix(s, t, n)
    PROVE  g[n] = h[n]
<1> USE DEF SamePrefix
<1> DEFINE T == {i \in 0 .. n : g[i] # h[i]}
<1>1. SUFFICES ASSUME T # {} PROVE FALSE
  OBVIOUS
<1>2. PICK x \in T : \A y \in T : x <= y
  <2>1. T \subseteq Nat
    OBVIOUS
  <2> HIDE DEF T
  <2> QED
    BY <1>1, <2>1, LeastNat
<1>3. CASE x = 0
  BY <1>3 DEF Totals
<1>4. CASE x # 0
  <2>1. x \in 1 .. n /\ x - 1 \in 0 .. n /\ x - 1 \notin T
    BY <1>2, <1>4
  <2>2. g[x - 1] = h[x - 1] /\ x \in 1 .. Len(s) /\ x \in 1 .. Len(t) /\ s[x] = t[x]
    BY <2>1
  <2> QED
    BY <1>2, <2>2 DEF Totals
<1> QED
  BY <1>3, <1>4

\* The sum of one entry more.
LEMMA TotalFacts ==
    /\ TotalTokens(<<>>) = 0
    /\ \A s \in Seq(Slice) : TotalTokens(s) \in Int
    /\ \A s \in Seq(Slice), e \in Slice : TotalTokens(Append(s, e)) = TotalTokens(s) + e.n
<1>1. TotalTokens(<<>>) = 0
  <2>1. PICK s : s = <<>>
    OBVIOUS
  <2>2. Len(s) = 0
    BY <2>1
  <2>3. PICK g : TotalTokens(s) = g[Len(s)] /\ Totals(g, s)
    BY <2>2, TotalStep
  <2> QED
    BY <2>1, <2>2, <2>3 DEF Totals
<1>2. ASSUME NEW s \in Seq(Slice) PROVE TotalTokens(s) \in Int
  <2>1. Len(s) \in Nat
    OBVIOUS
  <2>2. PICK g : TotalTokens(s) = g[Len(s)] /\ Totals(g, s)
    BY <2>1, TotalStep
  <2>3. \A i \in 0 .. Len(s) : g[i] \in Int
    BY <2>2, TotalInt
  <2> QED
    BY <2>1, <2>2, <2>3
<1>3. ASSUME NEW s \in Seq(Slice), NEW e \in Slice
      PROVE  TotalTokens(Append(s, e)) = TotalTokens(s) + e.n
  <2>1. PICK t : t = Append(s, e)
    OBVIOUS
  <2>2. /\ Len(s) \in Nat /\ t \in Seq(Slice) /\ Len(t) = Len(s) + 1
        /\ \A i \in 1 .. Len(s) : t[i] = s[i]
        /\ t[Len(t)] = e
    BY <2>1
  <2>3. PICK g : TotalTokens(s) = g[Len(s)] /\ Totals(g, s)
    BY <2>2, TotalStep
  <2>4. PICK h : TotalTokens(t) = h[Len(t)] /\ Totals(h, t)
    BY <2>2, TotalStep
  <2>5. g[Len(s)] = h[Len(s)]
    <3>1. PICK n \in Nat : n = Len(s)
      BY <2>2
    <3>2. SamePrefix(s, t, n)
      BY <2>2, <3>1 DEF SamePrefix
    <3>3. g[n] = h[n]
      BY <2>3, <2>4, <3>2, TotalPrefix
    <3> QED
      BY <3>1, <3>3
  <2>6. h[Len(t)] = h[Len(s)] + e.n
    BY <2>2, <2>4 DEF Totals
  <2> QED
    BY <2>1, <2>3, <2>4, <2>5, <2>6
<1> QED
  BY <1>1, <1>2, <1>3

\* The batch s without the request v.
Rest(s, v) == without(s, {e \in ToSet(s) : e.req = v})

\* The sum without the entry of v, at place j if there is one.
LEMMA TotalWithout ==
    ASSUME NEW s \in Seq(Slice), NEW v, NEW j \in 0 .. Len(s),
           \A i \in 1 .. Len(s) : s[i].req = v <=> i = j
    PROVE  /\ j = 0 => TotalTokens(Rest(s, v)) = TotalTokens(s)
           /\ j # 0 => TotalTokens(Rest(s, v)) = TotalTokens(s) - s[j].n
<1> DEFINE S == {e \in ToSet(s) : e.req = v}
           w == without(s, S)
<1>1. Len(s) \in Nat /\ \A i \in 1 .. Len(s) : s[i] \in Slice /\ s[i].n \in Int
  BY EntryFacts
<1>2. \A i \in 1 .. Len(s) : s[i] \in S <=> i = j
  BY <1>1, SeqFacts
<1> HIDE DEF S
<1>3. PICK g : w = g[Len(s)] /\ Unfolds(g, s, S)
  BY <1>1, WithoutStep
<1>4. PICK t : TotalTokens(s) = t[Len(s)] /\ Totals(t, s)
  BY <1>1, TotalStep
<1>5. \A i \in 0 .. Len(s) : t[i] \in Int
  BY <1>4, TotalInt
<1> HIDE DEF w
<1> DEFINE lost(i) == IF 1 <= j /\ j <= i THEN s[j].n ELSE 0
           Good(i) == g[i] \in Seq(Slice) /\ TotalTokens(g[i]) = t[i] - lost(i)
           T == {i \in 0 .. Len(s) : ~Good(i)}
<1>6. Good(0)
  <2>1. g[0] = <<>> /\ t[0] = 0
    BY <1>3, <1>4 DEF Unfolds, Totals
  <2>2. <<>> \in Seq(Slice)
    OBVIOUS
  <2>3. lost(0) = 0
    OBVIOUS
  <2> HIDE DEF lost
  <2> QED
    BY <2>1, <2>2, <2>3, TotalFacts
<1>7. ASSUME NEW i \in 1 .. Len(s), Good(i - 1) PROVE Good(i)
  <2>1. /\ g[i] = IF s[i] \in S THEN g[i - 1] ELSE Append(g[i - 1], s[i])
        /\ t[i] = t[i - 1] + s[i].n
    BY <1>3, <1>4 DEF Unfolds, Totals
  <2>2. t[i] \in Int /\ t[i - 1] \in Int /\ s[i].n \in Int /\ s[i] \in Slice
    BY <1>1, <1>5
  <2>3. CASE i = j
    <3>1. lost(i) = s[i].n /\ lost(i - 1) = 0
      BY <2>3
    <3>2. g[i] = g[i - 1]
      BY <1>2, <2>1, <2>3
    <3> HIDE DEF lost
    <3> QED
      BY <1>7, <2>1, <2>2, <3>1, <3>2
  <2>4. CASE i # j
    <3>1. lost(i) = lost(i - 1) /\ lost(i) \in Int
      BY <1>1, <2>4
    <3>2. g[i] = Append(g[i - 1], s[i])
      BY <1>2, <2>1, <2>4
    <3> HIDE DEF lost
    <3>3. TotalTokens(g[i]) = TotalTokens(g[i - 1]) + s[i].n /\ g[i] \in Seq(Slice)
      BY <1>7, <2>2, <3>2, TotalFacts
    <3> QED
      BY <1>7, <2>1, <2>2, <3>1, <3>3
  <2> QED
    BY <2>3, <2>4
<1>8. Good(Len(s))
  <2>1. SUFFICES ASSUME T # {} PROVE FALSE
    BY <1>1
  <2>2. PICK x \in T : \A y \in T : x <= y
    <3>1. T \subseteq Nat
      OBVIOUS
    <3> HIDE DEF T
    <3> QED
      BY <2>1, <3>1, LeastNat
  <2>3. x \in 0 .. Len(s) /\ ~Good(x)
    OBVIOUS
  <2>4. x # 0
    BY <1>6, <2>3
  <2>5. x \in 1 .. Len(s) /\ x - 1 \in 0 .. Len(s) /\ x - 1 \notin T
    <3> HIDE DEF T, Good
    <3> QED
      BY <2>2, <2>3, <2>4
  <2>6. Good(x - 1)
    BY <2>5
  <2> HIDE DEF Good
  <2> QED
    BY <1>7, <2>3, <2>5, <2>6
<1>9. TotalTokens(w) = t[Len(s)] - lost(Len(s))
  BY <1>3, <1>8
<1>10. (j = 0 => lost(Len(s)) = 0) /\ (j # 0 => lost(Len(s)) = s[j].n)
  BY <1>1
<1> HIDE DEF lost
<1>11. Rest(s, v) = w
  BY DEF Rest, w, S
<1> HIDE DEF w
<1> QED
  BY <1>1, <1>4, <1>5, <1>9, <1>10, <1>11

\* The tokens scheduled for a request, and the set of scheduled requests.
LEMMA ScheduledFacts ==
    ASSUME step.scheduled \in Seq(Slice), OncePerRequest(step.scheduled)
    PROVE  /\ \A r : r \in Scheduled <=> \E i \in 1 .. Len(step.scheduled) : step.scheduled[i].req = r
           /\ \A i \in 1 .. Len(step.scheduled) :
                 ScheduledTokens(step.scheduled[i].req) = step.scheduled[i].n
           /\ \A r : r \notin Scheduled => ScheduledTokens(r) = 0
           /\ \A r : ScheduledTokens(r) \in Int
           /\ Scheduled \subseteq Request
<1>1. PICK s : s = step.scheduled
  OBVIOUS
<1>2. /\ s \in Seq(Slice) /\ DOMAIN s = 1 .. Len(s)
      /\ \A i, j \in 1 .. Len(s) : s[i].req = s[j].req => i = j
      /\ \A i \in 1 .. Len(s) : s[i].req \in Request /\ s[i].n \in Int
  <2>1. s \in Seq(Slice) /\ \A i, j \in 1 .. Len(s) : s[i].req = s[j].req => i = j
    BY <1>1 DEF OncePerRequest
  <2> QED
    BY <2>1, EntryFacts
<1>3. \A r : r \in Scheduled <=> \E i \in 1 .. Len(s) : s[i].req = r
  BY <1>1, <1>2 DEF Scheduled
<1>4. ASSUME NEW i \in 1 .. Len(s) PROVE ScheduledTokens(s[i].req) = s[i].n
  <2>1. PICK j : j = CHOOSE l \in DOMAIN s : s[l].req = s[i].req
    OBVIOUS
  <2>2. j \in 1 .. Len(s) /\ s[j].req = s[i].req
    BY <1>2, <2>1
  <2>3. j = i
    BY <1>2, <2>2
  <2>4. s[i].req \in Scheduled
    BY <1>3
  <2> QED
    BY <1>1, <2>1, <2>3, <2>4 DEF ScheduledTokens
<1>5. \A r : r \notin Scheduled => ScheduledTokens(r) = 0
  BY DEF ScheduledTokens
<1>6. ASSUME NEW r PROVE ScheduledTokens(r) \in Int
  <2>1. CASE r \in Scheduled
    BY <1>2, <1>3, <1>4, <2>1
  <2>2. CASE r \notin Scheduled
    BY <1>5, <2>2
  <2> QED
    BY <2>1, <2>2
<1>7. Scheduled \subseteq Request
  BY <1>2, <1>3
<1> QED
  BY <1>1, <1>3, <1>4, <1>5, <1>6, <1>7

-----------------------------------------------------------------------------
\* free_request() empties one table.
LEMMA FreeTables ==
    ASSUME NEW k, Tables(k), NEW r \in Request
    PROVE  /\ Tables(free_request(k, r))
           /\ free_request(k, r).req_to_blocks = [k.req_to_blocks EXCEPT ![r] = <<>>]
<1>1. PICK t : t = k.req_to_blocks
  OBVIOUS
<1>2. t = [q \in Request |-> t[q]]
  BY <1>1 DEF Tables
<1>3. PICK u : u = [t EXCEPT ![r] = <<>>]
  OBVIOUS
<1>4. u = [q \in Request |-> u[q]]
  BY <1>2, <1>3
<1>5. PICK p, c : free_request(k, r) = [pool |-> p, req_to_blocks |-> u, num_cached_block |-> c]
  BY <1>1, <1>3 DEF free_request
<1> QED
  BY <1>1, <1>3, <1>4, <1>5 DEF Tables

\* cache_blocks() changes no table.
LEMMA CacheTables ==
    ASSUME NEW k, Tables(k), NEW r, NEW n
    PROVE  /\ Tables(cache_blocks(k, r, n))
           /\ cache_blocks(k, r, n).req_to_blocks = k.req_to_blocks
<1>1. PICK p, t, c : k = [pool |-> p, req_to_blocks |-> t, num_cached_block |-> c]
  BY DEF Tables
<1>2. t = [q \in Request |-> t[q]]
  BY <1>1 DEF Tables
<1>3. CASE cache_blocks(k, r, n) = k
  BY <1>3
<1>4. CASE cache_blocks(k, r, n) # k
  <2>1. PICK x, y : cache_blocks(k, r, n) = [k EXCEPT !.pool = x, !.num_cached_block = y]
    <3>1. ASSUME NEW x, NEW f
          PROVE  \E y : [k EXCEPT !.pool = x, !.num_cached_block[r] = f]
                           = [k EXCEPT !.pool = x, !.num_cached_block = y]
      BY <1>1
    <3> QED
      BY <1>4, <3>1 DEF cache_blocks
  <2>2. cache_blocks(k, r, n) = [pool |-> x, req_to_blocks |-> t, num_cached_block |-> y]
    BY <1>1, <2>1
  <2> QED
    BY <1>1, <1>2, <2>2 DEF Tables
<1> QED
  BY <1>3, <1>4

\* reset_prefix_cache() changes no table.
LEMMA ResetTables ==
    ASSUME NEW k, Tables(k), NEW x
    PROVE  Tables([k EXCEPT !.pool = x]) /\ [k EXCEPT !.pool = x].req_to_blocks = k.req_to_blocks
BY DEF Tables

\* allocate_slots() changes no table but that of its request.
LEMMA AllocateTables ==
    ASSUME NEW k, Tables(k), NEW r \in Request, NEW t, NEW c, NEW n, NEW la, NEW hit
    PROVE  /\ Tables(allocate_slots(k, r, t, c, n, la, hit))
           /\ \A q \in Request : q # r =>
                 allocate_slots(k, r, t, c, n, la, hit).req_to_blocks[q] = k.req_to_blocks[q]
<1> DEFINE Only(m) == Tables(m) /\ \A q \in Request : q # r => m.req_to_blocks[q] = k.req_to_blocks[q]
           need == num_tokens_need_slot(c, n, la, hit)
           k1 == allocate_new_computed_blocks(k, r, hit)
           k2 == allocate_new_blocks(k1, r, need)
<1>1. Only(k1)
  <2>1. CASE hit = <<>>
    BY <2>1 DEF allocate_new_computed_blocks
  <2>2. CASE hit # <<>>
    <3>1. PICK t1 : t1 = [k.req_to_blocks EXCEPT ![r] = @ \o hit]
      OBVIOUS
    <3>2. /\ t1 = [q \in Request |-> t1[q]]
          /\ \A q \in Request : q # r => t1[q] = k.req_to_blocks[q]
      BY <3>1 DEF Tables
    <3>3. PICK p, e : k1 = [pool |-> p, req_to_blocks |-> t1, num_cached_block |-> e]
      BY <2>2, <3>1 DEF allocate_new_computed_blocks
    <3> HIDE DEF k1
    <3> QED
      BY <3>2, <3>3 DEF Tables
  <2> QED
    BY <2>1, <2>2
<1> HIDE DEF k1
<1>2. Only(k2)
  <2>1. PICK p, t1, e : k1 = [pool |-> p, req_to_blocks |-> t1, num_cached_block |-> e]
    BY <1>1 DEF Tables
  <2>2. /\ t1 = [q \in Request |-> t1[q]]
        /\ \A q \in Request : q # r => t1[q] = k.req_to_blocks[q]
    BY <1>1, <2>1 DEF Tables
  <2>3. CASE k2 = k1
    BY <1>1, <2>3
  <2>4. CASE k2 # k1
    <3>1. PICK x, y : k2 = [k1 EXCEPT !.pool = x, !.req_to_blocks[r] = @ \o y]
      BY <2>4 DEF allocate_new_blocks
    <3>2. PICK t2 : t2 = [t1 EXCEPT ![r] = @ \o y]
      OBVIOUS
    <3>3. k2 = [pool |-> x, req_to_blocks |-> t2, num_cached_block |-> e]
      BY <2>1, <3>1, <3>2
    <3>4. /\ t2 = [q \in Request |-> t2[q]]
          /\ \A q \in Request : q # r => t2[q] = k.req_to_blocks[q]
      BY <2>2, <3>2
    <3> HIDE DEF k2
    <3> QED
      BY <3>3, <3>4 DEF Tables
  <2> QED
    BY <2>3, <2>4
<1> HIDE DEF k2
<1>3. \A m : Only(cache_blocks(k2, r, m))
  BY <1>2, CacheTables
<1>4. Only(allocate_slots(k, r, t, c, n, la, hit))
  <2>1. \E m : allocate_slots(k, r, t, c, n, la, hit) =
                  IF EnableCaching THEN cache_blocks(k2, r, m) ELSE k2
    BY DEF allocate_slots, k1, k2
  <2> HIDE DEF Only
  <2> QED
    BY <1>2, <1>3, <2>1
<1> QED
  BY <1>4

-----------------------------------------------------------------------------
\* The loop of reset_prefix_cache(): g[i] is what is left after i preemptions.
Preempts(g) ==
    /\ g[0] = [waiting |-> waiting, kv |-> kv]
    /\ \A i \in 1 .. Len(running) :
          g[i] = [waiting |-> prepend_request(g[i - 1].waiting, running[Len(running) + 1 - i]),
                  kv |-> free_request(g[i - 1].kv, running[Len(running) + 1 - i])]

\* PreemptAll is the last of them.
LEMMA PreemptStep ==
    ASSUME Len(running) \in Nat
    PROVE  \E g : PreemptAll = g[Len(running)] /\ Preempts(g)
<1> DEFINE N == Len(running)
           body(g, i) == IF i = 0 THEN [waiting |-> waiting, kv |-> kv]
                         ELSE [waiting |-> prepend_request(g[i - 1].waiting, running[N + 1 - i]),
                               kv |-> free_request(g[i - 1].kv, running[N + 1 - i])]
           Good(g, n) == g = [i \in 0 .. n |-> body(g, i)]
<1>1. \A n \in Nat : \E g : Good(g, n)
  <2> DEFINE T == {n \in Nat : ~ \E g : Good(g, n)}
  <2>1. SUFFICES ASSUME T # {} PROVE FALSE
    OBVIOUS
  <2>2. PICK n \in T : \A m \in T : n <= m
    <3>1. T \subseteq Nat
      OBVIOUS
    <3> HIDE DEF T
    <3> QED
      BY <2>1, <3>1, LeastNat
  <2>3. CASE n = 0
    <3> DEFINE h == [i \in 0 .. 0 |-> [waiting |-> waiting, kv |-> kv]]
    <3>1. Good(h, 0)
      OBVIOUS
    <3> QED
      BY <2>3, <3>1
  <2>4. CASE n # 0
    <3>1. n \in Nat
      BY <2>2
    <3>2. n - 1 \in Nat /\ n - 1 \notin T
      <4> HIDE DEF T
      <4> QED
        BY <2>2, <2>4, <3>1
    <3>3. PICK g : Good(g, n - 1)
      BY <3>2
    <3> DEFINE h == [i \in 0 .. n |-> body(g, i)]
    <3>4. ASSUME NEW i \in 0 .. n PROVE h[i] = body(h, i)
      <4>1. CASE i = 0
        BY <4>1
      <4>2. CASE i # 0
        <5>1. i - 1 \in 0 .. (n - 1) /\ i - 1 \in 0 .. n
          BY <4>2, <2>2
        <5>2. g[i - 1] = body(g, i - 1) /\ h[i - 1] = body(g, i - 1)
          BY <3>3, <5>1
        <5> QED
          BY <5>2, <4>2
      <4> QED
        BY <4>1, <4>2
    <3>5. Good(h, n)
      BY <3>4
    <3> QED
      BY <3>5, <2>2
  <2> QED
    BY <2>3, <2>4
<1>2. PICK g : Good(g, N)
  BY <1>1
<1> DEFINE f == CHOOSE x : Good(x, N)
<1>3. Good(f, N)
  BY <1>2
<1>4. PreemptAll = f[N]
  BY DEF PreemptAll
<1>5. Preempts(f)
  <2>1. \A i \in 0 .. N : f[i] = body(f, i)
    BY <1>3
  <2> HIDE DEF f
  <2>2. f[0] = [waiting |-> waiting, kv |-> kv]
    <3>1. 0 \in 0 .. N
      OBVIOUS
    <3>2. f[0] = body(f, 0)
      BY <2>1, <3>1, Zenon
    <3> QED
      BY <3>2, Zenon
  <2>3. ASSUME NEW i \in 1 .. N
        PROVE  f[i] = [waiting |-> prepend_request(f[i - 1].waiting, running[N + 1 - i]),
                       kv |-> free_request(f[i - 1].kv, running[N + 1 - i])]
    <3>1. i \in 0 .. N /\ i # 0
      OBVIOUS
    <3>2. f[i] = body(f, i)
      BY <2>1, <3>1
    <3> QED
      BY <3>1, <3>2
  <2> QED
    BY <2>2, <2>3, Zenon DEF Preempts
<1> QED
  BY <1>4, <1>5

\* A forced reset empties the running queue into the waiting one, and their tables.
LEMMA PreemptAllFacts ==
    ASSUME Types, Queues
    PROVE  /\ PreemptAll.waiting \in Seq(Request) /\ IsInjective(PreemptAll.waiting)
           /\ ToSet(PreemptAll.waiting) = ToSet(waiting) \cup ToSet(running)
           /\ Tables(PreemptAll.kv)
           /\ \A r \in Request : PreemptAll.kv.req_to_blocks[r] =
                 IF r \in ToSet(running) THEN <<>> ELSE kv.req_to_blocks[r]
<1> DEFINE N == Len(running)
<1>1. /\ waiting \in Seq(Request) /\ running \in Seq(Request) /\ Tables(kv)
      /\ IsInjective(running) /\ IsInjective(waiting) /\ N \in Nat
      /\ ToSet(running) \cap ToSet(waiting) = {}
  BY DEF Types, Queues
<1>2. /\ \A x : x \in ToSet(running) <=> \E i \in 1 .. N : running[i] = x
      /\ \A i \in 1 .. N : running[i] \in Request /\ running[i] \in ToSet(running)
      /\ \A i, j \in 1 .. N : running[i] = running[j] => i = j
  BY <1>1, SeqFacts
<1>3. PICK g : PreemptAll = g[N] /\ Preempts(g)
  BY <1>1, PreemptStep
<1> DEFINE gone(i) == {running[l] : l \in (N + 1 - i) .. N}
           Good(i) == /\ g[i].waiting \in Seq(Request) /\ IsInjective(g[i].waiting)
                      /\ ToSet(g[i].waiting) = ToSet(waiting) \cup gone(i)
                      /\ Tables(g[i].kv)
                      /\ \A r \in Request : g[i].kv.req_to_blocks[r] =
                            IF r \in gone(i) THEN <<>> ELSE kv.req_to_blocks[r]
           T == {i \in 0 .. N : ~Good(i)}
<1>4. Good(0)
  <2>1. gone(0) = {}
    BY <1>1
  <2>2. g[0].waiting = waiting /\ g[0].kv = kv
    BY <1>3 DEF Preempts
  <2> HIDE DEF gone
  <2> QED
    BY <1>1, <2>1, <2>2
<1>5. ASSUME NEW i \in 1 .. N, Good(i - 1) PROVE Good(i)
  <2>1. PICK r : r = running[N + 1 - i]
    OBVIOUS
  <2>2. N + 1 - i \in 1 .. N
    BY <1>1
  <2>3. r \in Request /\ r \in ToSet(running)
    BY <1>2, <2>1, <2>2
  <2>4. g[i].waiting = prepend_request(g[i - 1].waiting, r) /\ g[i].kv = free_request(g[i - 1].kv, r)
    <3>1. g[i] = [waiting |-> prepend_request(g[i - 1].waiting, running[N + 1 - i]),
                  kv |-> free_request(g[i - 1].kv, running[N + 1 - i])]
      BY <1>3, Zenon DEF Preempts
    <3> QED
      BY <2>1, <3>1
  <2>5. gone(i) = gone(i - 1) \cup {r} /\ r \notin gone(i - 1)
    <3>1. /\ (N + 1 - i) .. N = ((N + 1 - (i - 1)) .. N) \cup {N + 1 - i}
          /\ N + 1 - i \notin (N + 1 - (i - 1)) .. N
          /\ (N + 1 - (i - 1)) .. N \subseteq 1 .. N
      BY <1>1
    <3> QED
      BY <1>2, <2>1, <2>2, <3>1
  <2> HIDE DEF gone
  <2>6. r \notin ToSet(g[i - 1].waiting)
    BY <1>1, <1>5, <2>3, <2>5
  <2>7. /\ g[i].waiting \in Seq(Request) /\ IsInjective(g[i].waiting)
        /\ ToSet(g[i].waiting) = ToSet(waiting) \cup gone(i)
    <3>1. PICK q : q = g[i - 1].waiting
      OBVIOUS
    <3>2. q \in Seq(Request) /\ IsInjective(q) /\ r \notin ToSet(q)
      BY <1>5, <2>6, <3>1
    <3>3. /\ prepend_request(q, r) \in Seq(Request) /\ IsInjective(prepend_request(q, r))
          /\ ToSet(prepend_request(q, r)) = ToSet(q) \cup {r}
      BY <2>3, <3>2, QueueFacts
    <3> QED
      BY <1>5, <2>4, <2>5, <3>1, <3>3
  <2>8. /\ Tables(g[i].kv)
        /\ \A q \in Request : g[i].kv.req_to_blocks[q] =
              IF q \in gone(i) THEN <<>> ELSE kv.req_to_blocks[q]
    <3>1. PICK k : k = g[i - 1].kv
      OBVIOUS
    <3>2. /\ Tables(k)
          /\ \A q \in Request : k.req_to_blocks[q] =
                IF q \in gone(i - 1) THEN <<>> ELSE kv.req_to_blocks[q]
      BY <1>5, <3>1
    <3>3. /\ Tables(free_request(k, r))
          /\ free_request(k, r).req_to_blocks = [k.req_to_blocks EXCEPT ![r] = <<>>]
      BY <2>3, <3>2, FreeTables
    <3>4. k.req_to_blocks = [q \in Request |-> k.req_to_blocks[q]]
      BY <3>2 DEF Tables
    <3>5. \A q \in Request : free_request(k, r).req_to_blocks[q] =
                                IF q = r THEN <<>> ELSE k.req_to_blocks[q]
      BY <3>3, <3>4
    <3> QED
      BY <2>4, <2>5, <3>1, <3>2, <3>3, <3>5
  <2> QED
    BY <2>7, <2>8
<1>6. Good(N)
  <2> HIDE DEF Good
  <2>0. N \in 0 .. N
    BY <1>1
  <2>1. SUFFICES ASSUME T # {} PROVE FALSE
    BY <2>0
  <2>2. PICK x \in T : \A y \in T : x <= y
    <3>1. T \subseteq Nat
      OBVIOUS
    <3> HIDE DEF T
    <3> QED
      BY <2>1, <3>1, LeastNat
  <2>3. x \in 0 .. N /\ ~Good(x)
    OBVIOUS
  <2>4. x # 0
    BY <1>4, <2>3
  <2>5. x \in 1 .. N /\ x - 1 \in 0 .. N /\ x - 1 \notin T
    <3> HIDE DEF T
    <3> QED
      BY <1>1, <2>2, <2>3, <2>4
  <2>6. Good(x - 1)
    BY <2>5
  <2> QED
    BY <1>5, <2>3, <2>5, <2>6
<1>7. gone(N) = ToSet(running)
  <2>1. (N + 1 - N) .. N = 1 .. N
    BY <1>1
  <2> QED
    BY <1>2, <2>1
<1> HIDE DEF gone
<1> QED
  BY <1>3, <1>6, <1>7

-----------------------------------------------------------------------------
\* A prefix-cache hit leaves at least one of t tokens to be computed.
LEMMA HitLength ==
    ASSUME NEW k, NEW r, NEW t \in Nat \ {0}
    PROVE  LET hit == get_computed_blocks(k, r, t)
           IN  Len(hit) \in Nat /\ Len(hit) * BlockSize \in Nat /\ Len(hit) * BlockSize < t
<1> DEFINE hit == get_computed_blocks(k, r, t)
           d   == (t - 1) \div BlockSize
<1>1. t - 1 \in Nat /\ BlockSize \in Nat \ {0} /\ d \in Nat
  <2>1. t - 1 \in Nat /\ BlockSize \in Nat \ {0}
    BY Facts
  <2>2. PICK a \in Nat : a = t - 1
    BY <2>1
  <2> QED
    BY <2>1, <2>2, DivFacts
<1> HIDE DEF d
<1>2. Len(hit) \in Nat /\ Len(hit) <= d
  <2>1. CASE ~EnableCaching
    <3>1. hit = <<>>
      BY <2>1 DEF get_computed_blocks
    <3>2. Len(hit) = 0
      BY <3>1
    <3> QED
      BY <1>1, <3>2
  <2>2. CASE EnableCaching
    <3> DEFINE hits == {n \in 0 .. d : \A i \in 1 .. n : IsCached(k.pool, block_hashes(r, i))}
               longest == CHOOSE n \in hits : \A m \in hits : m <= n
               kept == IF UseEagle /\ longest > 0 THEN longest - 1 ELSE longest
    <3>1. hit = [i \in 1 .. kept |-> get_one_block(k.pool, block_hashes(r, i))]
      BY <2>2 DEF get_computed_blocks, find_longest_cache_hit, d
    <3>2. longest \in hits
      <4>1. 0 \in hits /\ hits \subseteq 0 .. d
        BY <1>1
      <4>2. \E n \in hits : \A m \in hits : m <= n
        <5> HIDE DEF hits
        <5> QED
          BY <1>1, <4>1, GreatestNat
      <4> HIDE DEF hits
      <4> QED
        BY <4>2
    <3>3. longest \in 0 .. d
      BY <3>2
    <3> HIDE DEF longest, hits
    <3>4. kept \in 0 .. d /\ kept \in Nat
      BY <1>1, <3>3
    <3> HIDE DEF kept
    <3>5. Len(hit) = kept
      BY <3>1, <3>4
    <3> QED
      BY <1>1, <3>4, <3>5
  <2> QED
    BY <2>1, <2>2
<1> HIDE DEF hit
<1>3. PICK n \in Nat : n = Len(hit)
  BY <1>2
<1>4. PICK a \in Nat : a = t - 1
  BY <1>1
<1>5. n <= a \div BlockSize
  BY <1>2, <1>3, <1>4 DEF d
<1>6. n * BlockSize <= a /\ n * BlockSize \in Nat
  BY <1>1, <1>5, DivLeast
<1> QED
  BY <1>3, <1>4, <1>6 DEF hit

-----------------------------------------------------------------------------
(* The actions, and what the invariant says before and after them.            *)

\* The local variables of schedule() when it starts, with any budget.
LEMMA IdleFacts ==
    /\ IdleStep \in Locals
    /\ IdleStep.scheduled = <<>> /\ IdleStep.req_index = 0 /\ ~IdleStep.preempted
    /\ \A n \in Int : LET s == [IdleStep EXCEPT !.token_budget = n]
                      IN  /\ s \in Locals /\ s.scheduled = <<>> /\ s.req_index = 0
                          /\ ~s.preempted /\ s.token_budget = n
<1>1. <<>> \in Seq(Slice) /\ {} \in SUBSET Request /\ None \in Request \cup {None}
  OBVIOUS
<1>2. /\ IdleStep \in Locals
      /\ IdleStep.scheduled = <<>> /\ IdleStep.req_index = 0 /\ ~IdleStep.preempted
  BY <1>1 DEF Locals, IdleStep
<1>3. ASSUME NEW n \in Int, NEW s, s = [IdleStep EXCEPT !.token_budget = n]
      PROVE  /\ s \in Locals /\ s.scheduled = <<>> /\ s.req_index = 0
             /\ ~s.preempted /\ s.token_budget = n
  <2>1. s \in Locals
    BY <1>2, <1>3 DEF Locals
  <2>2. s.scheduled = IdleStep.scheduled /\ s.req_index = IdleStep.req_index
    BY <1>2, <1>3 DEF Locals
  <2>3. s.preempted = IdleStep.preempted /\ s.token_budget = n
    BY <1>2, <1>3 DEF Locals
  <2> QED
    BY <1>2, <2>1, <2>2, <2>3
<1> QED
  BY <1>2, <1>3

\* The fields of step.
LEMMA StepFacts ==
    ASSUME Types
    PROVE  /\ step.scheduled \in Seq(Slice) /\ Len(step.scheduled) \in Nat
           /\ step.req_index \in Int /\ step.token_budget \in Int /\ step.num_new \in Int
           /\ step.resumed \subseteq Request /\ step.preempted \in BOOLEAN
           /\ step.cur \in Request \cup {None}
<1>1. step \in Locals
  BY DEF Types
<1>2. step.scheduled \in Seq(Slice)
  BY <1>1 DEF Locals
<1> QED
  BY <1>1, <1>2 DEF Locals

\* An empty batch under construction.
LEMMA EmptyLoop ==
    ASSUME step.scheduled = <<>>, step.req_index = 0, pc # "allocate"
    PROVE  Loop
<1>1. Len(step.scheduled) = 0 /\ Cardinality(Request) \in Nat
  BY Facts
<1> QED
  BY <1>1 DEF Loop, OncePerRequest

\* The first states.
LEMMA InitEngine == Init => EngineInv
<1> SUFFICES ASSUME Init PROVE EngineInv
  OBVIOUS
<1>1. Types
  <2>1. status \in [Request -> Status] /\ output \in [Request -> Seq(Int)]
    BY DEF Init, InitRequests, Status
  <2>2. /\ num_computed \in [Request -> Int] /\ placeholders \in [Request -> Int]
        /\ discard \in [Request -> BOOLEAN]
    BY DEF Init, InitRequests
  <2>3. waiting \in Seq(Request) /\ running \in Seq(Request)
    BY DEF Init
  <2>4. Tables(kv)
    <3>1. kv = InitKV
      BY DEF Init
    <3>2. /\ kv = [pool |-> kv.pool, req_to_blocks |-> kv.req_to_blocks,
                   num_cached_block |-> kv.num_cached_block]
      BY <3>1 DEF InitKV
    <3>3. kv.req_to_blocks = [r \in Request |-> kv.req_to_blocks[r]]
      BY <3>1 DEF InitKV
    <3> QED
      BY <3>2, <3>3, Zenon DEF Tables
  <2>5. batches \in Seq(Seq(Token)) /\ out \in Seq(Token)
    BY DEF Init
  <2>6. step \in Locals /\ resets \in Nat /\ mode \in Modes /\ resets <= mode.resets
    BY IdleFacts, ModeFacts DEF Init
  <2> QED
    BY <2>1, <2>2, <2>3, <2>4, <2>5, <2>6 DEF Types, Init
<1>2. Queues
  BY Facts DEF Init, InitRequests, Queues, IsInjective, ToSet
<1>3. Phase
  BY ModeFacts DEF Init, Phase, BatchQueueSize, OncePerRequest
<1>4. Loop
  BY IdleFacts, EmptyLoop DEF Init
<1>5. Held
  BY DEF Init, Held, InitKV
<1> QED
  BY <1>1, <1>2, <1>3, <1>4, <1>5 DEF EngineInv

\* A new request joins the waiting ones.
LEMMA AddEngine ==
    ASSUME EngineInv, NEW r \in Request, Add(r), UNCHANGED mode
    PROVE  EngineInv'
<1> USE DEF EngineInv
<1>1. /\ waiting \in Seq(Request) /\ IsInjective(waiting) /\ r \notin ToSet(waiting)
      /\ status \in [Request -> Status]
  BY DEF Types, Queues, Add
<1>2. /\ waiting' \in Seq(Request) /\ IsInjective(waiting')
      /\ ToSet(waiting') = ToSet(waiting) \cup {r}
  BY <1>1, QueueFacts DEF Add
<1>3. /\ status' \in [Request -> Status] /\ status'[r] = "WAITING"
      /\ \A q \in Request : q # r => status'[q] = status[q]
      /\ status[r] = "NEW" /\ pc = "idle"
  BY <1>1 DEF Add, Status
<1>4. Types'
  BY <1>2, <1>3 DEF Types, Add, envVars
<1>5. Queues'
  <2>1. ToSet(running') = {q \in Request : status'[q] = "RUNNING"}
    BY <1>3 DEF Queues, Add
  <2>2. ToSet(waiting') = {q \in Request : status'[q] \in {"WAITING", "PREEMPTED"}}
    BY <1>2, <1>3 DEF Queues
  <2> QED
    BY <1>2, <2>1, <2>2 DEF Queues, Add
<1>6. Phase'
  BY <1>3 DEF Phase, Add, BatchQueueSize
<1>7. Loop'
  BY DEF Loop, Add, Passed, Scheduled
<1>8. Held'
  BY <1>3 DEF Held, Add, Live, envVars, Types
<1> QED
  BY <1>4, <1>5, <1>6, <1>7, <1>8

\* finish_requests() takes the request out of its queue and frees its blocks.
LEMMA AbortEngine ==
    ASSUME EngineInv, NEW r \in Request, Abort(r), UNCHANGED mode
    PROVE  EngineInv'
<1> USE DEF EngineInv
<1>1. /\ waiting \in Seq(Request) /\ IsInjective(waiting)
      /\ running \in Seq(Request) /\ IsInjective(running)
      /\ status \in [Request -> Status] /\ Tables(kv)
  BY DEF Types, Queues
<1>2. /\ waiting' \in Seq(Request) /\ IsInjective(waiting')
      /\ ToSet(waiting') = ToSet(waiting) \ {r}
      /\ running' \in Seq(Request) /\ IsInjective(running')
      /\ ToSet(running') = ToSet(running) \ {r} /\ Len(running') <= Len(running)
  BY <1>1, RemoveFacts DEF Abort
<1>3. /\ status' \in [Request -> Status] /\ status'[r] = "FINISHED"
      /\ \A q \in Request : q # r => status'[q] = status[q]
      /\ finished_ids' = finished_ids \cup {r}
      /\ pc \in {"idle", "popped"} /\ pc' = pc /\ step' = step
  BY <1>1 DEF Abort, Status
<1>4. /\ Tables(kv') /\ kv'.req_to_blocks[r] = <<>>
      /\ \A q \in Request : q # r => kv'.req_to_blocks[q] = kv.req_to_blocks[q]
  <2>1. Tables(kv') /\ kv'.req_to_blocks = [kv.req_to_blocks EXCEPT ![r] = <<>>]
    BY <1>1, FreeTables DEF Abort
  <2>2. kv.req_to_blocks = [q \in Request |-> kv.req_to_blocks[q]]
    BY <1>1 DEF Tables
  <2> QED
    BY <2>1, <2>2
<1>5. Types'
  BY <1>2, <1>3, <1>4 DEF Types, Abort
<1>6. Queues'
  <2>1. ToSet(running') = {q \in Request : status'[q] = "RUNNING"}
    BY <1>2, <1>3 DEF Queues
  <2>2. ToSet(waiting') = {q \in Request : status'[q] \in {"WAITING", "PREEMPTED"}}
    BY <1>2, <1>3 DEF Queues
  <2>3. Len(running') <= MaxNumRunningReqs
    BY <1>1, <1>2, Facts DEF Queues
  <2> QED
    BY <1>2, <2>1, <2>2, <2>3 DEF Queues
<1>7. Phase'
  BY DEF Phase, Abort, BatchQueueSize
<1>8. Loop'
  <2>1. step = IdleStep
    BY <1>3 DEF Phase
  <2>2. step'.scheduled = <<>> /\ step'.req_index = 0 /\ pc' # "allocate"
    BY <1>3, <2>1, IdleFacts
  <2>3. Len(step'.scheduled) = 0 /\ Cardinality(Request) \in Nat
    BY <2>2, Facts
  <2> QED
    BY <2>2, <2>3 DEF Loop, OncePerRequest
<1>9. Held'
  BY <1>3, <1>4 DEF Held, Abort, Live, Types
<1> QED
  BY <1>5, <1>6, <1>7, <1>8, <1>9

\* Pausing changes nothing else.
LEMMA PauseEngine ==
    ASSUME EngineInv, NEW p \in {"UNPAUSED", "PAUSED_NEW", "PAUSED_ALL"},
           set_pause_state(p), UNCHANGED mode
    PROVE  EngineInv'
<1> USE DEF EngineInv, set_pause_state, reqVars, queueVars
<1>1. Types'
  BY DEF Types
<1>2. Queues'
  BY DEF Queues
<1>3. Phase'
  BY DEF Phase, BatchQueueSize
<1>4. Loop'
  BY DEF Loop, Passed, Scheduled
<1>5. Held'
  BY DEF Held, Live
<1> QED
  BY <1>1, <1>2, <1>3, <1>4, <1>5

\* No queue is longer than there are requests.
LEMMA LengthBound ==
    ASSUME NEW q \in Seq(Request), IsInjective(q)
    PROVE  Len(q) \in Nat /\ Len(q) <= Cardinality(Request)
<1>1. Len(q) \in Nat /\ ToSet(q) \subseteq Request
  BY SeqFacts
<1>2. Cardinality(ToSet(q)) = Len(q)
  BY InjectiveLen
<1>3. Cardinality(ToSet(q)) <= Cardinality(Request)
  BY <1>1, Facts, FS_Subset
<1> QED
  BY <1>1, <1>2, <1>3

\* reset_prefix_cache(reset_running_requests=True) moves the running requests to the
\* waiting ones.
LEMMA ResetRunningEngine ==
    ASSUME EngineInv, ResetRunning, UNCHANGED mode
    PROVE  EngineInv'
<1> USE DEF EngineInv
<1>1. /\ PreemptAll.waiting \in Seq(Request) /\ IsInjective(PreemptAll.waiting)
      /\ ToSet(PreemptAll.waiting) = ToSet(waiting) \cup ToSet(running)
      /\ Tables(PreemptAll.kv)
      /\ \A r \in Request : PreemptAll.kv.req_to_blocks[r] =
            IF r \in ToSet(running) THEN <<>> ELSE kv.req_to_blocks[r]
  BY PreemptAllFacts
<1>2. status \in [Request -> Status] /\ ToSet(running) = {r \in Request : status[r] = "RUNNING"}
  BY DEF Types, Queues
<1>3. /\ waiting' \in Seq(Request) /\ IsInjective(waiting')
      /\ ToSet(waiting') = ToSet(waiting) \cup ToSet(running)
      /\ running' = <<>>
  BY <1>1 DEF ResetRunning
<1>4. /\ status' \in [Request -> Status]
      /\ \A r \in Request : status'[r] = IF status[r] = "RUNNING" THEN "PREEMPTED" ELSE status[r]
  BY <1>2 DEF ResetRunning, Status
<1>5. /\ Tables(kv')
      /\ \A r \in Request : kv'.req_to_blocks[r] =
            IF r \in ToSet(running) THEN <<>> ELSE kv.req_to_blocks[r]
  <2>1. PICK k : k = PreemptAll.kv
    OBVIOUS
  <2>2. \/ kv' = k
        \/ \E x : kv' = [k EXCEPT !.pool = x]
    <3>1. kv' = IF can_reset_prefix_cache(k.pool)
                THEN [k EXCEPT !.pool = reset_prefix_cache(k.pool)] ELSE k
      BY <2>1 DEF ResetRunning
    <3> QED
      BY <3>1
  <2>3. Tables(k) /\ \A x : LET m == [k EXCEPT !.pool = x]
                             IN  Tables(m) /\ m.req_to_blocks = k.req_to_blocks
    BY <1>1, <2>1, ResetTables, Zenon
  <2>4. Tables(kv') /\ kv'.req_to_blocks = k.req_to_blocks
    BY <2>2, <2>3, Zenon
  <2> QED
    BY <1>1, <2>1, <2>4
<1>6. /\ num_computed' \in [Request -> Int] /\ placeholders' \in [Request -> Int]
      /\ discard' \in [Request -> BOOLEAN]
  <2>1. num_computed' \in [Request -> Int] /\ placeholders' \in [Request -> Int]
    BY DEF ResetRunning, Types
  <2>2. \A r \in Request : (r \in ToSet(running) \/ discard[r]) \in BOOLEAN
    BY Zenon DEF Types
  <2>3. discard' \in [Request -> BOOLEAN]
    BY <2>2 DEF ResetRunning
  <2> QED
    BY <2>1, <2>3
<1>7. pc = "idle" /\ pc' = pc /\ step' = step /\ resets' = resets + 1 /\ resets < mode.resets
  BY DEF ResetRunning
<1>8. Types'
  <2>1. resets' \in Nat /\ resets' <= mode'.resets
    BY <1>7, ModeFacts DEF Types
  <2>2. running' \in Seq(Request)
    BY <1>3
  <2> QED
    BY <1>3, <1>4, <1>5, <1>6, <2>1, <2>2 DEF Types, ResetRunning
<1>9. Queues'
  <2>1. ToSet(running') = {} /\ IsInjective(running') /\ Len(running') = 0
    BY <1>3 DEF ToSet, IsInjective
  <2>2. {r \in Request : status'[r] = "RUNNING"} = {}
    BY <1>4
  <2>3. ToSet(waiting') = {q \in Request : status'[q] \in {"WAITING", "PREEMPTED"}}
    BY <1>3, <1>4 DEF Queues
  <2> QED
    BY <1>3, <2>1, <2>2, <2>3, Facts DEF Queues
<1>10. Phase'
  BY DEF Phase, ResetRunning, BatchQueueSize
<1>11. Loop'
  <2>1. step = IdleStep
    BY <1>7 DEF Phase
  <2>2. step'.scheduled = <<>> /\ step'.req_index = 0 /\ pc' # "allocate"
    BY <1>7, <2>1, IdleFacts
  <2>3. Len(step'.scheduled) = 0 /\ Cardinality(Request) \in Nat
    BY <2>2, Facts
  <2> QED
    BY <2>2, <2>3 DEF Loop, OncePerRequest
<1>12. Held'
  <2>1. \A r \in worker' : Live(r)' \/ r \in finished_ids'
    BY <1>4 DEF Held, Live, ResetRunning, Types
  <2>2. \A r \in Request : status'[r] # "RUNNING" => kv'.req_to_blocks[r] = <<>>
    BY <1>2, <1>4, <1>5 DEF Held
  <2> QED
    BY <2>1, <2>2 DEF Held
<1> QED
  BY <1>8, <1>9, <1>10, <1>11, <1>12

\* reset_prefix_cache() changes the block pool only.
LEMMA ResetIdleEngine ==
    ASSUME EngineInv, ResetIdle, UNCHANGED mode
    PROVE  EngineInv'
<1> USE DEF EngineInv
<1>1. Tables(kv') /\ kv'.req_to_blocks = kv.req_to_blocks
  BY ResetTables DEF ResetIdle, Types
<1>2. Types'
  <2>1. resets' \in Nat /\ resets' <= mode'.resets
    BY ModeFacts DEF Types, ResetIdle
  <2> QED
    BY <1>1, <2>1 DEF Types, ResetIdle, reqVars, queueVars
<1>3. Queues'
  BY DEF Queues, ResetIdle, reqVars, queueVars
<1>4. Phase'
  BY DEF Phase, BatchQueueSize, ResetIdle
<1>5. Loop'
  BY DEF Loop, Passed, Scheduled, ResetIdle, queueVars
<1>6. Held'
  BY <1>1 DEF Held, Live, ResetIdle, reqVars
<1> QED
  BY <1>2, <1>3, <1>4, <1>5, <1>6

\* schedule() starts with an empty batch.
LEMMA BeginEngine ==
    ASSUME EngineInv, BeginStep, UNCHANGED mode
    PROVE  EngineInv'
<1> USE DEF EngineInv
<1> USE DEF BeginStep, reqVars, queueVars, envVars
<1>1. /\ step' \in Locals /\ step'.scheduled = <<>> /\ step'.req_index = 0
      /\ pc = "idle" /\ pc' = "running"
  <2>1. PICK n : n = IF pause = "PAUSED_ALL" THEN 0 ELSE MaxNumScheduledTokens
    OBVIOUS
  <2>2. n \in Int /\ step' = [IdleStep EXCEPT !.token_budget = n]
    BY <2>1, Facts
  <2> QED
    BY <2>2, IdleFacts
<1>2. Types'
  BY <1>1 DEF Types
<1>3. Queues'
  BY DEF Queues
<1>4. Phase'
  BY <1>1 DEF Phase, BatchQueueSize
<1>5. Loop'
  <2>1. Len(step'.scheduled) = 0 /\ Cardinality(Request) \in Nat
    BY <1>1, Facts
  <2> QED
    BY <1>1, <2>1 DEF Loop, OncePerRequest
<1>6. Held'
  BY DEF Held, Live
<1> QED
  BY <1>2, <1>3, <1>4, <1>5, <1>6

\* Nothing to schedule: the oldest batch is waited for.
LEMMA DrainEngine ==
    ASSUME EngineInv, DrainStep, UNCHANGED mode
    PROVE  EngineInv'
<1> USE DEF EngineInv
<1> USE DEF DrainStep, reqVars, queueVars, envVars
<1>1. Types'
  BY DEF Types
<1>2. Queues'
  BY DEF Queues
<1>3. Phase'
  <2>1. batches # <<>> /\ pc = "idle"
    BY DEF has_work
  <2>2. batches \in Seq(Seq(Token)) /\ BatchQueueSize \in Nat
    BY ModeFacts DEF Types, BatchQueueSize
  <2>3. Len(batches) \in 1 .. BatchQueueSize
    BY <2>1, <2>2 DEF Phase
  <2> QED
    BY <2>1, <2>3 DEF Phase, BatchQueueSize
<1>4. Loop'
  BY DEF Loop, Passed, Scheduled
<1>5. Held'
  BY DEF Held, Live
<1> QED
  BY <1>1, <1>2, <1>3, <1>4, <1>5

\* The loop over the running requests ends.
LEMMA EndRunningEngine ==
    ASSUME EngineInv, EndRunningLoop, UNCHANGED mode
    PROVE  EngineInv'
<1> USE DEF EngineInv
<1> USE DEF EndRunningLoop, reqVars, queueVars, envVars
<1>1. Types'
  BY DEF Types
<1>2. Queues'
  BY DEF Queues
<1>3. Phase'
  BY DEF Phase, BatchQueueSize
<1>4. Loop'
  BY DEF Loop, Passed, Scheduled
<1>5. Held'
  BY DEF Held, Live
<1> QED
  BY <1>1, <1>2, <1>3, <1>4, <1>5

\* The loop over the waiting requests ends.
LEMMA EndWaitingEngine ==
    ASSUME EngineInv, EndWaitingLoop, UNCHANGED mode
    PROVE  EngineInv'
<1> USE DEF EngineInv
<1> USE DEF EndWaitingLoop, reqVars, queueVars, envVars
<1>1. Types'
  BY DEF Types
<1>2. Queues'
  BY DEF Queues
<1>3. Phase'
  BY DEF Phase, BatchQueueSize
<1>4. Loop'
  BY DEF Loop, Passed, Scheduled
<1>5. Held'
  BY DEF Held, Live
<1> QED
  BY <1>1, <1>2, <1>3, <1>4, <1>5

\* update_from_output() ends.
LEMMA EndStepEngine ==
    ASSUME EngineInv, EndStep, UNCHANGED mode
    PROVE  EngineInv'
<1> USE DEF EngineInv
<1> USE DEF EndStep, reqVars, queueVars, envVars
<1>1. Types'
  BY DEF Types
<1>2. Queues'
  BY DEF Queues
<1>3. Phase'
  BY DEF Phase, BatchQueueSize
<1>4. Loop'
  BY DEF Loop, Passed, Scheduled
<1>5. Held'
  BY DEF Held, Live
<1> QED
  BY <1>1, <1>2, <1>3, <1>4, <1>5

\* A sequence of entries without its first one.
LEMMA TailFacts ==
    ASSUME NEW B, NEW s \in Seq(B), s # <<>>
    PROVE  /\ Len(s) \in Nat /\ Len(s) >= 1 /\ Head(s) = s[1] /\ s[1] \in B
           /\ Tail(s) \in Seq(B) /\ Len(Tail(s)) = Len(s) - 1
           /\ \A i \in 1 .. Len(Tail(s)) : Tail(s)[i] = s[i + 1]
OBVIOUS

\* The oldest batch is popped.
LEMMA PopEngine ==
    ASSUME EngineInv, PopBatch, UNCHANGED mode
    PROVE  EngineInv'
<1> USE DEF EngineInv
<1>1. /\ batches \in Seq(Seq(Token)) /\ pc = "popped" /\ Len(batches) \in 1 .. BatchQueueSize
      /\ BatchQueueSize \in Nat /\ BatchQueueSize' = BatchQueueSize
  BY ModeFacts DEF Types, Phase, PopBatch, BatchQueueSize
<1>2. batches # <<>>
  BY <1>1
<1>3. /\ out' = batches[1] /\ out' \in Seq(Token) /\ batches' = Tail(batches)
      /\ batches' \in Seq(Seq(Token)) /\ Len(batches') = Len(batches) - 1
      /\ \A i \in 1 .. Len(batches') : batches'[i] = batches[i + 1]
  BY <1>1, <1>2, TailFacts DEF PopBatch
<1> USE DEF PopBatch, reqVars, queueVars, envVars
<1>4. Types'
  BY <1>3 DEF Types
<1>5. Queues'
  BY DEF Queues
<1>6. Phase'
  <2>1. Len(batches') < BatchQueueSize'
    BY <1>1, <1>3
  <2>2. \A k \in 1 .. Len(batches) : OncePerRequest(batches[k])
    BY DEF Phase
  <2>3. OncePerRequest(out')
    BY <1>1, <1>3, <2>2
  <2>4. ASSUME NEW k \in 1 .. Len(batches') PROVE OncePerRequest(batches'[k])
    BY <1>1, <1>3, <2>2
  <2> QED
    BY <2>1, <2>3, <2>4 DEF Phase
<1>7. Loop'
  BY DEF Loop, Passed, Scheduled
<1>8. Held'
  BY DEF Held, Live
<1> QED
  BY <1>4, <1>5, <1>6, <1>7, <1>8

\* OncePerRequest is inherited by the rest of a batch.
LEMMA TailOnce ==
    ASSUME NEW s \in Seq(Token), s # <<>>, OncePerRequest(s)
    PROVE  OncePerRequest(Tail(s)) /\ \A i \in 1 .. Len(Tail(s)) : Tail(s)[i].req # s[1].req
<1>1. /\ Len(s) \in Nat /\ Len(s) >= 1 /\ Len(Tail(s)) = Len(s) - 1
      /\ \A i \in 1 .. Len(Tail(s)) : Tail(s)[i] = s[i + 1]
  BY TailFacts
<1>2. \A i, j \in 1 .. Len(s) : s[i].req = s[j].req => i = j
  BY DEF OncePerRequest
<1>3. \A i \in 1 .. Len(Tail(s)) : i + 1 \in 1 .. Len(s) /\ i + 1 # 1 /\ 1 \in 1 .. Len(s)
  BY <1>1
<1> QED
  BY <1>1, <1>2, <1>3 DEF OncePerRequest

\* The output of one request is dropped.
LEMMA DropEngine ==
    ASSUME EngineInv, DropOutput, UNCHANGED mode
    PROVE  EngineInv'
<1> USE DEF EngineInv
<1>1. out \in Seq(Token) /\ out # <<>> /\ out' = Tail(out) /\ OncePerRequest(out)
  BY DEF Types, DropOutput, Phase
<1>2. out' \in Seq(Token) /\ OncePerRequest(out')
  BY <1>1, TailFacts, TailOnce
<1>3. discard' \in [Request -> BOOLEAN]
  BY DEF DropOutput, Types
<1> USE DEF DropOutput, queueVars, envVars
<1>4. Types'
  BY <1>2, <1>3 DEF Types
<1>5. Queues'
  BY DEF Queues
<1>6. Phase'
  BY <1>2 DEF Phase, BatchQueueSize
<1>7. Loop'
  BY DEF Loop, Passed, Scheduled
<1>8. Held'
  BY DEF Held, Live
<1> QED
  BY <1>4, <1>5, <1>6, <1>7, <1>8

\* The next running request is passed over or chosen.
LEMMA PickEngine ==
    ASSUME EngineInv, PickRunning, UNCHANGED mode
    PROVE  EngineInv'
<1> USE DEF EngineInv
<1>1. PICK r : r = running[step.req_index + 1]
  OBVIOUS
<1>2. /\ pc = "running" /\ step.req_index < Len(running)
      /\ \/ step' = [step EXCEPT !.req_index = @ + 1] /\ pc' = "running"
         \/ \E n : step' = [step EXCEPT !.cur = r, !.num_new = n] /\ pc' = "allocate" /\ n = NumNewTokens(r)
  BY <1>1 DEF PickRunning, RunningLoopGoesOn
<1>3. /\ running \in Seq(Request) /\ IsInjective(running) /\ step \in Locals
      /\ step.req_index \in 0 .. Cardinality(Request)
  BY DEF Types, Queues, Loop
<1>4. /\ Len(running) \in Nat /\ Len(running) <= Cardinality(Request) /\ Cardinality(Request) \in Nat
  BY <1>3, LengthBound, Facts
<1>5. step.req_index < Len(running) /\ pc = "running" /\ step.req_index \in Nat
  <2>1. step.req_index < Len(running) /\ pc = "running"
    BY DEF PickRunning, RunningLoopGoesOn
  <2>2. step.req_index \in Nat
    BY <1>3, <1>4
  <2> QED
    BY <2>1, <2>2
<1>6. step.req_index + 1 \in 1 .. Len(running)
  BY <1>5, <1>4
<1>7. r \in Request /\ r \in ToSet(running)
  BY <1>1, <1>3, <1>6, SeqFacts
<1>8. NumNewTokens(r) \in Int
  <2>1. PICK a : a = NumTokens(r) + placeholders[r] - num_computed[r]
    OBVIOUS
  <2>2. a \in Int /\ num_computed[r] \in Int
    <3>1. NumTokens(r) \in Int /\ placeholders[r] \in Int /\ num_computed[r] \in Int
      BY <1>7, Facts DEF Types, NumTokens
    <3> QED
      BY <2>1, <3>1
  <2>3. CutToBudget(a) \in Int
    BY <2>2, StepFacts, Facts DEF CutToBudget, min
  <2> QED
    BY <2>1, <2>2, <2>3, Facts DEF NumNewTokens, min
<1>9. /\ step' \in Locals /\ step'.scheduled = step.scheduled /\ step'.preempted = step.preempted
      /\ \/ pc' = "running" /\ step'.req_index = step.req_index + 1
         \/ pc' = "allocate" /\ step'.req_index = step.req_index /\ step'.cur = r
  <2>1. CASE step' = [step EXCEPT !.req_index = @ + 1] /\ pc' = "running"
    <3>1. PICK i \in Int : i = step.req_index + 1
      BY <1>5
    <3>2. step' = [step EXCEPT !.req_index = i]
      BY <2>1, <3>1
    <3>3. step' \in Locals /\ step'.scheduled = step.scheduled
      BY <1>3, <3>2 DEF Locals
    <3>4. step'.preempted = step.preempted /\ step'.req_index = i
      BY <1>3, <3>2 DEF Locals
    <3> QED
      BY <2>1, <3>1, <3>3, <3>4
  <2>2. ASSUME NEW n \in Int, step' = [step EXCEPT !.cur = r, !.num_new = n], pc' = "allocate"
        PROVE  step' \in Locals /\ step'.scheduled = step.scheduled /\ step'.preempted = step.preempted
               /\ step'.req_index = step.req_index /\ step'.cur = r
    BY <1>3, <1>7, <2>2 DEF Locals
  <2> QED
    BY <1>2, <1>8, <2>1, <2>2
<1> USE DEF PickRunning, reqVars, queueVars, envVars
<1>10. Types'
  BY <1>9 DEF Types
<1>11. Queues'
  BY DEF Queues
<1>12. Phase'
  BY <1>2, <1>9 DEF Phase, BatchQueueSize
<1>13. Held'
  BY DEF Held, Live
<1>14. Loop'
  <2>1. running' = running
    OBVIOUS
  <2> HIDE DEF PickRunning
  <2>2. /\ OncePerRequest(step'.scheduled)
        /\ \A i \in 1 .. Len(step'.scheduled) : step'.scheduled[i].req \in ToSet(running')
    BY <1>9, <2>1 DEF Loop
  <2>3. step'.req_index \in 0 .. Cardinality(Request) /\ step'.req_index >= step.req_index
    BY <1>5, <1>4, <1>9
  <2>4. \A i \in 1 .. Len(step.scheduled) :
           \E k \in 1 .. Len(running) : k <= step.req_index /\ running[k] = step.scheduled[i].req
    BY <1>2 DEF Loop, Passed
  <2>5. \A i \in 1 .. Len(step'.scheduled) : 
                 \E k \in 1 .. Len(running') : k <= step'.req_index /\ running'[k] = step'.scheduled[i].req
    <3>1. ASSUME NEW i \in 1 .. Len(step.scheduled)
          PROVE  \E k \in 1 .. Len(running) : k <= step'.req_index /\ running[k] = step.scheduled[i].req
      <4>1. PICK k \in 1 .. Len(running) : k <= step.req_index /\ running[k] = step.scheduled[i].req
        BY <2>4
      <4>2. k <= step'.req_index
        BY <1>3, <2>3, <4>1
      <4> QED
        BY <4>1, <4>2
    <3> QED
      BY <1>9, <2>1, <3>1
  <2>6. ASSUME pc' = "allocate"
        PROVE  /\ step'.cur \in ToSet(running') /\ step'.cur \notin Scheduled'
               /\ step'.req_index < Cardinality(Request)
               /\ \E k \in 1 .. Len(running') : k <= step'.req_index + 1 /\ running'[k] = step'.cur
    <3>1. step'.req_index = step.req_index /\ step'.cur = r
      BY <1>9, <2>6
    <3>2. ASSUME r \in Scheduled' PROVE FALSE
      <4>1. PICK i \in DOMAIN step'.scheduled : step'.scheduled[i].req = r
        BY <3>2 DEF Scheduled
      <4>2. i \in 1 .. Len(step.scheduled) /\ step.scheduled[i].req = r
        BY <1>9, <4>1, StepFacts
      <4>3. PICK k \in 1 .. Len(running) : k <= step.req_index /\ running[k] = r
        BY <2>4, <4>2
      <4>4. k # step.req_index + 1
        BY <1>3, <4>3
      <4> QED
        BY <1>1, <1>3, <1>6, <4>3, <4>4, SeqFacts
    <3>3. step.req_index < Cardinality(Request)
      BY <1>5, <1>4
    <3>4. step.req_index + 1 <= step.req_index + 1 /\ running[step.req_index + 1] = r
      BY <1>1, <1>3
    <3> QED
      BY <1>6, <1>7, <2>1, <3>1, <3>2, <3>3, <3>4
  <2> QED
    BY <2>2, <2>3, <2>5, <2>6 DEF Loop, Passed
<1> QED
  BY <1>10, <1>11, <1>12, <1>13, <1>14

\* One entry more in the batch under construction.
LEMMA AppendEntry ==
    ASSUME NEW s \in Seq(Slice), NEW r \in Request, NEW n \in Int, OncePerRequest(s),
           \A i \in 1 .. Len(s) : s[i].req # r
    PROVE  LET t == Append(s, [req |-> r, n |-> n])
           IN  /\ t \in Seq(Slice) /\ OncePerRequest(t)
               /\ Len(t) = Len(s) + 1 /\ Len(s) \in Nat
               /\ \A i \in 1 .. Len(t) : \/ i \in 1 .. Len(s) /\ t[i] = s[i]
                                         \/ i = Len(t) /\ t[i].req = r /\ t[i].n = n
<1>1. PICK e : e = [req |-> r, n |-> n]
  OBVIOUS
<1>2. e \in Slice /\ e.req = r /\ e.n = n
  BY <1>1 DEF Slice
<1>3. PICK t : t = Append(s, e)
  OBVIOUS
<1>4. /\ t \in Seq(Slice) /\ Len(s) \in Nat /\ Len(t) = Len(s) + 1
      /\ \A i \in 1 .. Len(s) : t[i] = s[i]
      /\ t[Len(t)] = e
  BY <1>2, <1>3
<1>5. \A i \in 1 .. Len(t) : \/ i \in 1 .. Len(s) /\ t[i] = s[i]
                             \/ i = Len(t) /\ t[i].req = r /\ t[i].n = n
  BY <1>2, <1>4
<1>6. OncePerRequest(t)
  <2>1. \A i, j \in 1 .. Len(s) : s[i].req = s[j].req => i = j
    BY DEF OncePerRequest
  <2>2. ASSUME NEW i \in 1 .. Len(t), NEW j \in 1 .. Len(t), t[i].req = t[j].req PROVE i = j
    BY <1>4, <1>5, <2>1, <2>2
  <2> QED
    BY <2>2 DEF OncePerRequest
<1> QED
  BY <1>1, <1>3, <1>4, <1>5, <1>6

\* The chosen request gets its slots and joins the batch.
LEMMA AllocateEngine ==
    ASSUME EngineInv, AllocateRunning, UNCHANGED mode
    PROVE  EngineInv'
<1> USE DEF EngineInv
<1>1. /\ pc = "allocate" /\ pc' = "running" /\ step \in Locals
      /\ running \in Seq(Request) /\ running' = running
      /\ step.cur \in ToSet(running) /\ step.cur \notin Scheduled
      /\ step.req_index \in 0 .. Cardinality(Request) /\ step.req_index < Cardinality(Request)
      /\ Cardinality(Request) \in Nat
  BY Facts DEF AllocateRunning, Types, Loop, queueVars
<1>2. PICK r : r = step.cur
  OBVIOUS
<1>3. r \in Request /\ r \in ToSet(running) /\ status[r] = "RUNNING"
  BY <1>1, <1>2, SeqFacts DEF Queues
<1>4. PICK s : s = step.scheduled
  OBVIOUS
<1>5. s \in Seq(Slice) /\ step.num_new \in Int /\ OncePerRequest(s) /\ \A i \in 1 .. Len(s) : s[i].req # r
  <2>1. s \in Seq(Slice) /\ step.num_new \in Int
    BY <1>4, StepFacts
  <2>2. OncePerRequest(s)
    BY <1>4 DEF Loop
  <2>3. \A i \in 1 .. Len(s) : s[i].req # r
    BY <1>1, <1>2, <1>4, <2>1, <2>2, ScheduledFacts
  <2> QED
    BY <2>1, <2>2, <2>3
<1>6. PICK t : t = Append(s, [req |-> r, n |-> step.num_new])
  OBVIOUS
<1>7. /\ t \in Seq(Slice) /\ OncePerRequest(t)
      /\ Len(t) = Len(s) + 1 /\ Len(s) \in Nat
      /\ \A i \in 1 .. Len(t) : \/ i \in 1 .. Len(s) /\ t[i] = s[i]
                                \/ i = Len(t) /\ t[i].req = r /\ t[i].n = step.num_new
  BY <1>3, <1>5, <1>6, AppendEntry
<1>8. /\ step' \in Locals /\ step'.scheduled = t /\ step'.req_index = step.req_index + 1
  <2>1. step' = [step EXCEPT !.scheduled = t, !.token_budget = @ - step.num_new, !.req_index = @ + 1]
    BY <1>2, <1>4, <1>6 DEF AllocateRunning
  <2>2. PICK b \in Int, i \in Int : b = step.token_budget - step.num_new /\ i = step.req_index + 1
    BY <1>1, <1>5, StepFacts
  <2>3. step' = [step EXCEPT !.scheduled = t, !.token_budget = b, !.req_index = i]
    BY <2>1, <2>2
  <2>4. step' \in Locals
    BY <1>1, <1>7, <2>3 DEF Locals
  <2>5. step'.scheduled = t /\ step'.req_index = i
    BY <1>1, <2>3 DEF Locals
  <2> QED
    BY <2>2, <2>4, <2>5
<1>9. Tables(kv') /\ \A q \in Request : q # r => kv'.req_to_blocks[q] = kv.req_to_blocks[q]
  <2>1. Tables(kv)
    BY DEF Types
  <2>2. PICK x, y, z : kv' = allocate_slots(kv, r, x, y, z, 0, <<>>)
    BY <1>2 DEF AllocateRunning
  <2> QED
    BY <1>3, <2>1, <2>2, AllocateTables
<1> USE DEF AllocateRunning, reqVars, queueVars, envVars
<1>10. Types'
  BY <1>8, <1>9 DEF Types
<1>11. Queues'
  BY DEF Queues
<1>12. Phase'
  BY <1>1 DEF Phase, BatchQueueSize
<1>13. Held'
  <2>1. \A q \in Request : status'[q] # "RUNNING" => kv'.req_to_blocks[q] = <<>>
    BY <1>3, <1>9 DEF Held
  <2> QED
    BY <2>1 DEF Held, Live
<1>14. Loop'
  <2> HIDE DEF AllocateRunning
  <2>1. \A i \in 1 .. Len(t) : t[i].req \in ToSet(running)
    BY <1>3, <1>4, <1>7 DEF Loop
  <2>2. ASSUME NEW i \in 1 .. Len(t)
        PROVE  \E k \in 1 .. Len(running) : k <= step.req_index + 1 /\ running[k] = t[i].req
    <3>1. CASE i \in 1 .. Len(s) /\ t[i] = s[i]
      <4>1. PICK k \in 1 .. Len(running) : k <= step.req_index /\ running[k] = s[i].req
        BY <1>1, <1>4, <3>1 DEF Loop, Passed
      <4>2. k <= step.req_index + 1
        BY <1>1, <4>1
      <4> QED
        BY <3>1, <4>1, <4>2
    <3>2. CASE t[i].req = r
      BY <1>1, <1>2, <3>2 DEF Loop
    <3> QED
      BY <1>7, <3>1, <3>2
  <2>3. \A i \in 1 .. Len(step'.scheduled) : 
                 \E k \in 1 .. Len(running') : k <= step'.req_index /\ running'[k] = step'.scheduled[i].req
    BY <1>1, <1>8, <2>2
  <2>4. step'.req_index \in 0 .. Cardinality(Request)
    BY <1>1, <1>8
  <2> QED
    BY <1>1, <1>7, <1>8, <2>1, <2>3, <2>4 DEF Loop, Passed
<1> QED
  BY <1>10, <1>11, <1>12, <1>13, <1>14

\* A queue that is not empty holds a request of lowest priority.
LEMMA LowestExists ==
    ASSUME NEW q \in Seq(Request), q # <<>>
    PROVE  \E r \in ToSet(q) : \A x \in ToSet(q) : Rank[x] <= Rank[r]
<1>1. /\ Len(q) \in Nat /\ Len(q) >= 1
      /\ \A x : x \in ToSet(q) <=> \E i \in 1 .. Len(q) : q[i] = x
      /\ \A i \in 1 .. Len(q) : q[i] \in Request /\ q[i] \in ToSet(q)
  BY SeqFacts
<1>2. \A x \in Request : Rank[x] \in Nat
  BY Facts
<1> DEFINE Good(n) == \E i \in 1 .. n : \A j \in 1 .. n : Rank[q[j]] <= Rank[q[i]]
           T == {n \in 1 .. Len(q) : ~Good(n)}
<1>3. Good(1)
  <2>1. 1 \in 1 .. 1 /\ \A j \in 1 .. 1 : j = 1
    OBVIOUS
  <2>2. Rank[q[1]] <= Rank[q[1]]
    BY <1>1, <1>2
  <2> QED
    BY <2>1, <2>2
<1>4. ASSUME NEW n \in 1 .. Len(q), n # 1, Good(n - 1) PROVE Good(n)
  <2>1. PICK i \in 1 .. (n - 1) : \A j \in 1 .. (n - 1) : Rank[q[j]] <= Rank[q[i]]
    BY <1>4
  <2>2. /\ i \in 1 .. n /\ i \in 1 .. Len(q) /\ n \in 1 .. n
        /\ \A j \in 1 .. n : j \in 1 .. Len(q) /\ (j \in 1 .. (n - 1) \/ j = n)
    BY <1>1, <1>4
  <2>3. Rank[q[i]] \in Nat /\ Rank[q[n]] \in Nat
    BY <1>1, <1>2, <2>2
  <2>4. CASE Rank[q[n]] <= Rank[q[i]]
    BY <2>1, <2>2, <2>4
  <2>5. CASE Rank[q[i]] <= Rank[q[n]]
    <3>1. ASSUME NEW j \in 1 .. n PROVE Rank[q[j]] <= Rank[q[n]]
      <4>1. Rank[q[j]] \in Nat
        BY <1>1, <1>2, <2>2
      <4>2. CASE j = n
        BY <4>1, <4>2
      <4>3. CASE j # n
        <5>1. Rank[q[j]] <= Rank[q[i]]
          BY <2>1, <2>2, <4>3
        <5> QED
          BY <2>3, <2>5, <4>1, <5>1
      <4> QED
        BY <4>2, <4>3
    <3> QED
      BY <2>2, <3>1
  <2>6. Rank[q[n]] <= Rank[q[i]] \/ Rank[q[i]] <= Rank[q[n]]
    BY <2>3
  <2> QED
    BY <2>4, <2>5, <2>6, Zenon
<1> HIDE DEF Good
<1>5. Good(Len(q))
  <2>1. SUFFICES ASSUME T # {} PROVE FALSE
    BY <1>1
  <2>2. PICK x \in T : \A y \in T : x <= y
    <3>1. T \subseteq Nat
      BY <1>1
    <3> HIDE DEF T
    <3> QED
      BY <2>1, <3>1, LeastNat
  <2>3. x \in 1 .. Len(q) /\ ~Good(x)
    OBVIOUS
  <2>4. x # 1
    BY <1>3, <2>3
  <2>5. x - 1 \in 1 .. Len(q) /\ x - 1 \notin T
    BY <1>1, <2>2, <2>3, <2>4
  <2> QED
    BY <1>4, <2>3, <2>4, <2>5
<1>6. PICK i \in 1 .. Len(q) : \A j \in 1 .. Len(q) : Rank[q[j]] <= Rank[q[i]]
  BY <1>5 DEF Good
<1> QED
  BY <1>1, <1>6

\* The request that is preempted for the chosen one.
Victim == IF PriorityPolicy THEN LowestPriority ELSE Last(running)

\* It is one of the running requests.
LEMMA VictimFacts ==
    ASSUME EngineInv, pc = "allocate"
    PROVE  /\ Victim \in ToSet(running) /\ Victim \in Request
           /\ PriorityPolicy => \A q \in ToSet(running) : Rank[q] <= Rank[Victim]
<1>1. running \in Seq(Request) /\ step.cur \in ToSet(running)
  BY DEF EngineInv, Types, Loop
<1>2. /\ Len(running) \in Nat /\ Len(running) >= 1 /\ running # <<>>
      /\ running[Len(running)] \in ToSet(running) /\ ToSet(running) \subseteq Request
  BY <1>1, SeqFacts
<1>3. CASE PriorityPolicy
  BY <1>1, <1>2, <1>3, LowestExists DEF Victim, LowestPriority
<1>4. CASE ~PriorityPolicy
  BY <1>2, <1>4 DEF Victim, Last
<1> QED
  BY <1>2, <1>3, <1>4

\* What a victim leaves of the batch under construction.
LEMMA UnscheduleFacts ==
    ASSUME Types, OncePerRequest(step.scheduled), NEW v
    PROVE  LET u == Unschedule(v)
           IN  /\ u \in Locals /\ u.preempted = TRUE
               /\ u.cur = step.cur /\ u.num_new = step.num_new /\ u.resumed = step.resumed
               /\ u.token_budget = step.token_budget + ScheduledTokens(v)
               /\ u.req_index = IF v \in Scheduled THEN step.req_index - 1 ELSE step.req_index
               /\ u.scheduled = Rest(step.scheduled, v)
<1>1. PICK u : u = Unschedule(v)
  OBVIOUS
<1>2. PICK w : w = Rest(step.scheduled, v)
  OBVIOUS
<1>3. PICK b : b = step.token_budget + ScheduledTokens(v)
  OBVIOUS
<1>4. PICK x : x = IF v \in Scheduled THEN step.req_index - 1 ELSE step.req_index
  OBVIOUS
<1>5. w \in Seq(Slice) /\ b \in Int /\ x \in Int /\ step \in Locals
  <2>1. w \in Seq(Slice)
    BY <1>2, StepFacts, WithoutFacts DEF Rest
  <2>2. b \in Int
    BY <1>3, StepFacts, ScheduledFacts
  <2>3. x \in Int /\ step \in Locals
    BY <1>4, StepFacts DEF Types
  <2> QED
    BY <2>1, <2>2, <2>3
<1>6. u = [step EXCEPT !.preempted = TRUE, !.scheduled = w, !.token_budget = b, !.req_index = x]
  BY <1>1, <1>2, <1>3, <1>4 DEF Unschedule, Rest
<1>7. u \in Locals
  BY <1>5, <1>6 DEF Locals
<1>8. u.preempted = TRUE /\ u.scheduled = w /\ u.token_budget = b /\ u.req_index = x
  BY <1>5, <1>6 DEF Locals
<1>9. u.cur = step.cur /\ u.num_new = step.num_new /\ u.resumed = step.resumed
  BY <1>5, <1>6 DEF Locals
<1> QED
  BY <1>1, <1>2, <1>3, <1>4, <1>7, <1>8, <1>9

\* The entries that are left, and their sum.
LEMMA LeftOver ==
    ASSUME Types, OncePerRequest(step.scheduled), NEW v, NEW w,
           w = Rest(step.scheduled, v)
    PROVE  /\ w \in Seq(Slice) /\ OncePerRequest(w)
           /\ \A l \in 1 .. Len(w) :
                 w[l].req # v /\ \E i \in 1 .. Len(step.scheduled) : w[l] = step.scheduled[i]
           /\ TotalTokens(w) = TotalTokens(step.scheduled) - ScheduledTokens(v)
<1>1. PICK s : s = step.scheduled
  OBVIOUS
<1> DEFINE S == {e \in ToSet(s) : e.req = v}
<1>2. w = without(s, S) /\ w = Rest(s, v)
  BY <1>1 DEF Rest
<1>3. s \in Seq(Slice) /\ OncePerRequest(s) /\ Len(s) \in Nat
  BY <1>1, StepFacts
<1>4. /\ \A i \in 1 .. Len(s) : s[i] \in ToSet(s) /\ (s[i] \in S <=> s[i].req = v)
      /\ \A i, j \in 1 .. Len(s) : s[i].req = s[j].req => i = j
  <2>1. \A i \in 1 .. Len(s) : s[i] \in ToSet(s)
    BY <1>3, SeqFacts
  <2> QED
    BY <1>3, <2>1 DEF OncePerRequest
<1> HIDE DEF S
<1>5. w \in Seq(Slice) /\ \E places : Left(s, S, Len(s), w, places)
  BY <1>2, <1>3, WithoutPlaces
<1>6. PICK p : Left(s, S, Len(s), w, p)
  BY <1>5
<1>7. /\ Len(w) \in Nat /\ p \in [1 .. Len(w) -> 1 .. Len(s)]
      /\ \A x \in 1 .. Len(w) : w[x] = s[p[x]] /\ s[p[x]] \notin S
      /\ \A x, y \in 1 .. Len(w) : x < y => p[x] < p[y]
  BY <1>5, <1>6 DEF Left
<1>8. \A l \in 1 .. Len(w) : w[l].req # v /\ \E i \in 1 .. Len(s) : w[l] = s[i]
  BY <1>4, <1>7
<1>9. OncePerRequest(w)
  <2>1. ASSUME NEW i \in 1 .. Len(w), NEW j \in 1 .. Len(w), w[i].req = w[j].req PROVE i = j
    <3>1. p[i] = p[j] /\ p[i] \in Int
      BY <1>3, <1>4, <1>7, <2>1
    <3>2. ~(i < j) /\ ~(j < i)
      BY <1>7, <3>1
    <3> QED
      BY <1>7, <3>2
  <2> QED
    BY <2>1 DEF OncePerRequest
<1>10. /\ \A r : r \in Scheduled <=> \E i \in 1 .. Len(s) : s[i].req = r
       /\ \A i \in 1 .. Len(s) : ScheduledTokens(s[i].req) = s[i].n
       /\ \A r : r \notin Scheduled => ScheduledTokens(r) = 0
  BY <1>1, <1>3, ScheduledFacts
<1>11. TotalTokens(w) = TotalTokens(s) - ScheduledTokens(v)
  <2>1. TotalTokens(s) \in Int
    BY <1>3, TotalFacts
  <2>2. CASE v \notin Scheduled
    <3>1. 0 \in 0 .. Len(s) /\ \A i \in 1 .. Len(s) : s[i].req = v <=> i = 0
      BY <1>3, <1>10, <2>2
    <3>2. TotalTokens(w) = TotalTokens(s)
      BY <1>2, <1>3, <3>1, TotalWithout
    <3>3. ScheduledTokens(v) = 0
      BY <1>10, <2>2
    <3> QED
      BY <2>1, <3>2, <3>3
  <2>3. CASE v \in Scheduled
    <3>1. PICK j \in 1 .. Len(s) : s[j].req = v
      BY <1>10, <2>3
    <3>2. j \in 0 .. Len(s) /\ j # 0 /\ \A i \in 1 .. Len(s) : s[i].req = v <=> i = j
      BY <1>3, <1>4, <3>1
    <3>3. TotalTokens(w) = TotalTokens(s) - s[j].n
      BY <1>2, <1>3, <3>2, TotalWithout
    <3>4. ScheduledTokens(v) = s[j].n
      BY <1>10, <3>1
    <3> QED
      BY <3>3, <3>4
  <2> QED
    BY <2>2, <2>3
<1> QED
  BY <1>1, <1>2, <1>5, <1>8, <1>9, <1>11

\* The victim goes back to the waiting queue, and leaves the batch.
LEMMA PreemptEngine ==
    ASSUME EngineInv, PreemptRunning, UNCHANGED mode
    PROVE  EngineInv'
<1> USE DEF EngineInv
<1>1. PICK v : v = Victim
  OBVIOUS
<1>2. /\ pc = "allocate" /\ running' = remove_all(running, {v}) /\ waiting' = prepend_request(waiting, v)
      /\ kv' = free_request(kv, v) /\ status' = [status EXCEPT ![v] = "PREEMPTED"]
      /\ num_computed' = [num_computed EXCEPT ![v] = 0] /\ step' = Unschedule(v)
      /\ pc' = IF v = step.cur THEN "submit" ELSE pc
      /\ UNCHANGED <<output, placeholders, discard, envVars, batches, out>>
  BY <1>1 DEF PreemptRunning, Victim
<1>3. v \in ToSet(running) /\ v \in Request
  BY <1>1, <1>2, VictimFacts
<1>4. /\ waiting \in Seq(Request) /\ IsInjective(waiting)
      /\ running \in Seq(Request) /\ IsInjective(running)
      /\ status \in [Request -> Status] /\ Tables(kv) /\ status[v] = "RUNNING" /\ v \notin ToSet(waiting)
      /\ num_computed \in [Request -> Int]
  BY <1>3 DEF Types, Queues
<1>5. /\ waiting' \in Seq(Request) /\ IsInjective(waiting')
      /\ ToSet(waiting') = ToSet(waiting) \cup {v}
      /\ running' \in Seq(Request) /\ IsInjective(running')
      /\ ToSet(running') = ToSet(running) \ {v} /\ Len(running') <= Len(running)
  BY <1>2, <1>3, <1>4, RemoveFacts, QueueFacts
<1>6. /\ status' \in [Request -> Status] /\ status'[v] = "PREEMPTED"
      /\ \A q \in Request : q # v => status'[q] = status[q]
      /\ num_computed' \in [Request -> Int]
  BY <1>2, <1>3, <1>4 DEF Status
<1>7. /\ Tables(kv') /\ kv'.req_to_blocks[v] = <<>>
      /\ \A q \in Request : q # v => kv'.req_to_blocks[q] = kv.req_to_blocks[q]
  <2>1. Tables(kv') /\ kv'.req_to_blocks = [kv.req_to_blocks EXCEPT ![v] = <<>>]
    BY <1>2, <1>3, <1>4, FreeTables
  <2>2. kv.req_to_blocks = [q \in Request |-> kv.req_to_blocks[q]]
    BY <1>4 DEF Tables
  <2> QED
    BY <1>3, <2>1, <2>2
<1>8. OncePerRequest(step.scheduled) /\ step.scheduled \in Seq(Slice)
  BY StepFacts DEF Loop
<1>9. /\ step' \in Locals /\ step'.cur = step.cur /\ step'.preempted = TRUE
      /\ step'.req_index = IF v \in Scheduled THEN step.req_index - 1 ELSE step.req_index
      /\ step'.scheduled = Rest(step.scheduled, v)
  BY <1>2, <1>8, UnscheduleFacts
<1>10. /\ OncePerRequest(step'.scheduled)
       /\ \A l \in 1 .. Len(step'.scheduled) :
             /\ step'.scheduled[l].req # v
             /\ \E i \in 1 .. Len(step.scheduled) : step'.scheduled[l] = step.scheduled[i]
  <2>1. PICK w : w = Rest(step.scheduled, v)
    OBVIOUS
  <2>2. /\ OncePerRequest(w)
        /\ \A l \in 1 .. Len(w) :
              w[l].req # v /\ \E i \in 1 .. Len(step.scheduled) : w[l] = step.scheduled[i]
    <3>1. Types /\ OncePerRequest(step.scheduled)
      BY <1>8
    <3> QED
      BY <2>1, <3>1, LeftOver
  <2>3. step'.scheduled = w
    BY <1>9, <2>1
  <2> QED
    BY <2>2, <2>3
<1>11. Types'
  BY <1>2, <1>5, <1>6, <1>7, <1>9 DEF Types, envVars
<1>12. Queues'
  <2>1. ToSet(running') = {q \in Request : status'[q] = "RUNNING"}
    BY <1>5, <1>6 DEF Queues
  <2>2. ToSet(waiting') = {q \in Request : status'[q] \in {"WAITING", "PREEMPTED"}}
    BY <1>3, <1>5, <1>6 DEF Queues
  <2>3. Len(running') <= MaxNumRunningReqs
    BY <1>4, <1>5, Facts DEF Queues
  <2> QED
    BY <1>5, <2>1, <2>2, <2>3 DEF Queues
<1>13. Phase'
  BY <1>2 DEF Phase, BatchQueueSize
<1>14. Held'
  <2>1. \A q \in Request : status'[q] # "RUNNING" => kv'.req_to_blocks[q] = <<>>
    BY <1>6, <1>7 DEF Held
  <2>2. \A q \in worker' : Live(q)' \/ q \in finished_ids'
    BY <1>2, <1>6 DEF Held, Live, envVars, Types
  <2> QED
    BY <2>1, <2>2 DEF Held
<1>15. Loop'
  <2>1. /\ Len(running) \in Nat
        /\ step.req_index \in 0 .. Cardinality(Request) /\ step.req_index < Cardinality(Request)
        /\ Cardinality(Request) \in Nat
    <3>1. Len(running) \in Nat /\ Cardinality(Request) \in Nat
      BY <1>4, Facts, SeqFacts
    <3>2. step.req_index \in 0 .. Cardinality(Request) /\ step.req_index < Cardinality(Request)
      BY <1>2 DEF Loop
    <3> QED
      BY <3>1, <3>2
  <2>2. PICK j \in 1 .. Len(running) : running[j] = v
    BY <1>3, <1>4, SeqFacts
  <2>3. \A k \in 1 .. Len(running) : running[k] # v =>
           \E l \in 1 .. Len(running') : running'[l] = running[k] /\ l <= k /\ (j < k => l < k)
    BY <1>2, <1>4, <2>2, RemovePlaces
  <2>4. v \in Scheduled => j <= step.req_index
    <3>1. ASSUME v \in Scheduled PROVE j <= step.req_index
      <4>1. PICK i \in 1 .. Len(step.scheduled) : step.scheduled[i].req = v
        BY <1>8, <3>1, ScheduledFacts
      <4>2. PICK k \in 1 .. Len(running) : k <= step.req_index /\ running[k] = v
        BY <1>2, <4>1 DEF Loop, Passed
      <4>3. k = j
        BY <1>4, <2>2, <4>2, SeqFacts
      <4> QED
        BY <4>2, <4>3
    <3> QED
      BY <3>1
  <2>5. step'.req_index \in 0 .. Cardinality(Request) /\ step'.req_index < Cardinality(Request)
    BY <1>9, <2>1, <2>4
  <2>6. ASSUME NEW k \in 1 .. Len(running), NEW d \in 0 .. 1, k <= step.req_index + d, running[k] # v
        PROVE  \E l \in 1 .. Len(running') : l <= step'.req_index + d /\ running'[l] = running[k]
    <3>1. PICK l \in 1 .. Len(running') : running'[l] = running[k] /\ l <= k /\ (j < k => l < k)
      BY <2>3, <2>6
    <3>2. Len(running') \in Nat /\ k # j
      BY <1>5, <2>2, <2>6
    <3>3. l <= step'.req_index + d
      BY <1>9, <2>1, <2>4, <2>6, <3>1, <3>2
    <3> QED
      BY <3>1, <3>3
  <2>7. ASSUME NEW i \in 1 .. Len(step'.scheduled)
        PROVE  \E k \in 1 .. Len(running') : k <= step'.req_index /\ running'[k] = step'.scheduled[i].req
    <3>1. PICK m \in 1 .. Len(step.scheduled) : step'.scheduled[i] = step.scheduled[m]
      BY <1>10
    <3>2. PICK k \in 1 .. Len(running) : k <= step.req_index /\ running[k] = step.scheduled[m].req
      BY <1>2 DEF Loop, Passed
    <3>3. running[k] # v /\ running[k] = step'.scheduled[i].req
      BY <1>10, <3>1, <3>2
    <3>4. k <= step.req_index + 0
      BY <2>1, <3>2
    <3>5. PICK l \in 1 .. Len(running') : l <= step'.req_index + 0 /\ running'[l] = running[k]
      BY <2>6, <3>3, <3>4
    <3>6. l <= step'.req_index
      BY <2>5, <3>5
    <3> QED
      BY <3>3, <3>5, <3>6
  <2>8. ASSUME NEW i \in 1 .. Len(step'.scheduled) PROVE step'.scheduled[i].req \in ToSet(running')
    BY <1>5, <2>7, SeqFacts
  <2>9. ASSUME pc' = "allocate"
        PROVE  /\ step'.cur \in ToSet(running') /\ step'.cur \notin Scheduled'
               /\ \E k \in 1 .. Len(running') : k <= step'.req_index + 1 /\ running'[k] = step'.cur
    <3>1. step.cur # v /\ step'.cur = step.cur
      BY <1>2, <1>9, <2>9
    <3>2. PICK k \in 1 .. Len(running) : k <= step.req_index + 1 /\ running[k] = step.cur
      BY <1>2 DEF Loop
    <3>3. step'.cur \notin Scheduled'
      <4>1. SUFFICES ASSUME step'.cur \in Scheduled' PROVE FALSE
        OBVIOUS
      <4>2. step'.scheduled \in Seq(Slice)
        BY <1>9 DEF Locals
      <4>3. PICK l \in 1 .. Len(step'.scheduled) : step'.scheduled[l].req = step.cur
        BY <3>1, <4>1, <4>2 DEF Scheduled
      <4>4. PICK m \in 1 .. Len(step.scheduled) : step.scheduled[m].req = step.cur
        BY <1>10, <4>3
      <4>5. step.cur \in Scheduled
        BY <1>8, <4>4, ScheduledFacts
      <4> QED
        BY <1>2, <4>5 DEF Loop
    <3> QED
      BY <1>5, <2>6, <3>1, <3>2, <3>3, SeqFacts
  <2> QED
    BY <1>10, <2>5, <2>7, <2>8, <2>9 DEF Loop, Passed
<1> QED
  BY <1>11, <1>12, <1>13, <1>14, <1>15

\* The first waiting request leaves its queue and joins the running ones.
LEMMA HeadFacts ==
    ASSUME NEW q \in Seq(Request), IsInjective(q), q # <<>>
    PROVE  /\ Head(q) \in Request /\ Head(q) \in ToSet(q)
           /\ Tail(q) \in Seq(Request) /\ IsInjective(Tail(q))
           /\ ToSet(Tail(q)) = ToSet(q) \ {Head(q)}
<1>1. PICK t : t = Tail(q)
  OBVIOUS
<1>2. /\ Len(q) \in Nat /\ Len(q) >= 1 /\ Head(q) = q[1] /\ q[1] \in Request
      /\ t \in Seq(Request) /\ Len(t) = Len(q) - 1
      /\ \A i \in 1 .. Len(t) : t[i] = q[i + 1]
  BY <1>1, TailFacts
<1>3. /\ \A x : x \in ToSet(q) <=> \E i \in 1 .. Len(q) : q[i] = x
      /\ \A i, j \in 1 .. Len(q) : q[i] = q[j] => i = j
  BY SeqFacts
<1>4. /\ \A x : x \in ToSet(t) <=> \E i \in 1 .. Len(t) : t[i] = x
      /\ IsInjective(t) <=> \A i, j \in 1 .. Len(t) : t[i] = t[j] => i = j
  BY <1>2, SeqFacts
<1>5. IsInjective(t)
  BY <1>2, <1>3, <1>4
<1>6. q[1] \in ToSet(q)
  BY <1>2, <1>3
<1>7. ASSUME NEW x PROVE x \in ToSet(t) <=> x \in ToSet(q) /\ x # q[1]
  <2>1. ASSUME x \in ToSet(t) PROVE x \in ToSet(q) /\ x # q[1]
    BY <1>2, <1>3, <1>4, <2>1
  <2>2. ASSUME x \in ToSet(q), x # q[1] PROVE x \in ToSet(t)
    <3>1. PICK i \in 1 .. Len(q) : q[i] = x
      BY <1>3, <2>2
    <3>2. i - 1 \in 1 .. Len(t) /\ t[i - 1] = x
      BY <1>2, <2>2, <3>1
    <3> QED
      BY <1>4, <3>2
  <2> QED
    BY <2>1, <2>2
<1> QED
  BY <1>1, <1>2, <1>5, <1>6, <1>7

\* The lengths of a request.
LEMMA LengthFacts ==
    ASSUME Types, NEW r \in Request
    PROVE  /\ output[r] \in Seq(Int) /\ Len(output[r]) \in Nat
           /\ PromptLen[r] \in Nat \ {0} /\ NumTokens(r) \in Nat \ {0}
           /\ NumTokens(r) = PromptLen[r] + Len(output[r])
           /\ num_computed[r] \in Int /\ placeholders[r] \in Int
<1>1. output[r] \in Seq(Int) /\ num_computed[r] \in Int /\ placeholders[r] \in Int
  BY DEF Types
<1>2. PromptLen[r] \in Nat \ {0} /\ Len(output[r]) \in Nat
  BY <1>1, Facts
<1> QED
  BY <1>1, <1>2 DEF NumTokens

\* The candidate, the length of its hit and the tokens it may compute.
LEMMA CandidateFacts ==
    ASSUME Types, NEW r \in Request, r = Head(waiting)
    PROVE  \E hit, n :
              /\ Candidate = [req |-> r, hit |-> hit, n |-> n]
              /\ hit = get_computed_blocks(kv, r, NumTokens(r))
              /\ Len(hit) \in Nat /\ Len(hit) * BlockSize \in Nat
              /\ Len(hit) * BlockSize < NumTokens(r)
              /\ n \in Int /\ n = CutToBudget(NumTokens(r) - Len(hit) * BlockSize)
<1>1. NumTokens(r) \in Nat \ {0}
  BY LengthFacts
<1>2. PICK hit : hit = get_computed_blocks(kv, r, NumTokens(r))
  OBVIOUS
<1>3. Len(hit) \in Nat /\ Len(hit) * BlockSize \in Nat /\ Len(hit) * BlockSize < NumTokens(r)
  BY <1>1, <1>2, HitLength
<1>4. PICK a : a = NumTokens(r) - Len(hit) * BlockSize
  OBVIOUS
<1>5. a \in Int
  BY <1>1, <1>3, <1>4
<1>6. CutToBudget(a) \in Int
  BY <1>5, StepFacts, Facts DEF CutToBudget, min
<1>7. Candidate = [req |-> r, hit |-> hit, n |-> CutToBudget(a)]
  BY <1>2, <1>4 DEF Candidate
<1> QED
  BY <1>2, <1>3, <1>4, <1>6, <1>7

\* What AdmitWaiting does.
LEMMA AdmitFacts ==
    ASSUME EngineInv, AdmitWaiting
    PROVE  \E r, hit, n :
              /\ r \in Request /\ r = Head(waiting) /\ waiting # <<>> /\ r \in ToSet(waiting)
              /\ Len(hit) \in Nat /\ Len(hit) * BlockSize \in Nat
              /\ Len(hit) * BlockSize < NumTokens(r)
              /\ Candidate = [req |-> r, hit |-> hit, n |-> n]
              /\ hit = get_computed_blocks(kv, r, NumTokens(r))
              /\ n \in Int /\ n = CutToBudget(NumTokens(r) - Len(hit) * BlockSize)
              /\ kv' = allocate_slots(kv, r, NumTokens(r), 0, n, 0, hit)
              /\ num_computed' = [num_computed EXCEPT ![r] = Len(hit) * BlockSize]
              /\ status' = [status EXCEPT ![r] = "RUNNING"]
              /\ waiting' = Tail(waiting) /\ running' = Append(running, r)
              /\ step' = [step EXCEPT !.scheduled = Append(step.scheduled, [req |-> r, n |-> n]),
                                      !.resumed = step.resumed \cup {r},
                                      !.token_budget = step.token_budget - n]
<1>1. waiting \in Seq(Request) /\ IsInjective(waiting) /\ waiting # <<>>
  BY DEF EngineInv, Types, Queues, AdmitWaiting, WaitingLoopGoesOn
<1>2. PICK r \in Request : r = Head(waiting) /\ r \in ToSet(waiting)
  BY <1>1, HeadFacts
<1>3. PICK hit, n :
         /\ Candidate = [req |-> r, hit |-> hit, n |-> n]
         /\ hit = get_computed_blocks(kv, r, NumTokens(r))
         /\ Len(hit) \in Nat /\ Len(hit) * BlockSize \in Nat
         /\ Len(hit) * BlockSize < NumTokens(r)
         /\ n \in Int /\ n = CutToBudget(NumTokens(r) - Len(hit) * BlockSize)
  BY <1>2, CandidateFacts DEF EngineInv
<1>4. Candidate.req = r /\ Candidate.hit = hit /\ Candidate.n = n
  BY <1>3
<1>5. /\ kv' = allocate_slots(kv, r, NumTokens(r), 0, n, 0, hit)
      /\ num_computed' = [num_computed EXCEPT ![r] = Len(hit) * BlockSize]
      /\ status' = [status EXCEPT ![r] = "RUNNING"]
      /\ waiting' = Tail(waiting) /\ running' = Append(running, r)
      /\ step' = [step EXCEPT !.scheduled = Append(step.scheduled, [req |-> r, n |-> n]),
                              !.resumed = step.resumed \cup {r},
                              !.token_budget = step.token_budget - n]
  BY <1>4 DEF AdmitWaiting
<1> QED
  BY <1>1, <1>2, <1>3, <1>5

\* A waiting request is admitted.
LEMMA AdmitEngine ==
    ASSUME EngineInv, AdmitWaiting, UNCHANGED mode
    PROVE  EngineInv'
<1> USE DEF EngineInv
<1>1. PICK r, hit, n :
              /\ r \in Request /\ r = Head(waiting) /\ waiting # <<>> /\ r \in ToSet(waiting)
              /\ Len(hit) \in Nat /\ Len(hit) * BlockSize \in Nat
              /\ n \in Int
              /\ kv' = allocate_slots(kv, r, NumTokens(r), 0, n, 0, hit)
              /\ num_computed' = [num_computed EXCEPT ![r] = Len(hit) * BlockSize]
              /\ status' = [status EXCEPT ![r] = "RUNNING"]
              /\ waiting' = Tail(waiting) /\ running' = Append(running, r)
              /\ step' = [step EXCEPT !.scheduled = Append(step.scheduled, [req |-> r, n |-> n]),
                                      !.resumed = step.resumed \cup {r},
                                      !.token_budget = step.token_budget - n]
  BY AdmitFacts
<1>2. r \in Request
  BY <1>1
<1>3. /\ waiting \in Seq(Request) /\ IsInjective(waiting)
      /\ running \in Seq(Request) /\ IsInjective(running)
      /\ status \in [Request -> Status] /\ Tables(kv) /\ r \notin ToSet(running)
      /\ num_computed \in [Request -> Int] /\ Len(running) < MaxNumRunningReqs
      /\ pc = "waiting" /\ pc' = pc
      /\ UNCHANGED <<output, placeholders, discard, envVars, batches, out>>
  BY <1>1 DEF Types, Queues, AdmitWaiting, WaitingLoopGoesOn
<1>4. /\ waiting' \in Seq(Request) /\ IsInjective(waiting')
      /\ ToSet(waiting') = ToSet(waiting) \ {r}
  BY <1>1, <1>3, HeadFacts
<1>5. /\ running' \in Seq(Request) /\ IsInjective(running')
      /\ ToSet(running') = ToSet(running) \cup {r} /\ Len(running') = Len(running) + 1
  <2>1. Len(Append(running, r)) = Len(running) + 1
    BY <1>3
  <2> QED
    BY <1>1, <1>3, <2>1, EndFacts
<1>6. /\ status' \in [Request -> Status] /\ status'[r] = "RUNNING"
      /\ \A q \in Request : q # r => status'[q] = status[q]
      /\ num_computed' \in [Request -> Int]
  BY <1>1, <1>3 DEF Status
<1>7. Tables(kv') /\ \A q \in Request : q # r => kv'.req_to_blocks[q] = kv.req_to_blocks[q]
  BY <1>1, <1>3, AllocateTables
<1>8. PICK s : s = step.scheduled
  OBVIOUS
<1>9. s \in Seq(Slice) /\ OncePerRequest(s) /\ \A i \in 1 .. Len(s) : s[i].req # r /\ s[i].req \in ToSet(running)
  <2>1. s \in Seq(Slice)
    BY <1>8, StepFacts
  <2>2. OncePerRequest(s) /\ \A i \in 1 .. Len(s) : s[i].req \in ToSet(running)
    BY <1>8 DEF Loop
  <2> QED
    BY <1>3, <2>1, <2>2
<1>10. PICK t : t = Append(s, [req |-> r, n |-> n])
  OBVIOUS
<1>11. /\ t \in Seq(Slice) /\ OncePerRequest(t)
       /\ Len(t) = Len(s) + 1 /\ Len(s) \in Nat
       /\ \A i \in 1 .. Len(t) : \/ i \in 1 .. Len(s) /\ t[i] = s[i]
                                 \/ i = Len(t) /\ t[i].req = r /\ t[i].n = n
  <2>1. n \in Int /\ s \in Seq(Slice) /\ OncePerRequest(s)
    BY <1>1, <1>9
  <2>2. \A i \in 1 .. Len(s) : s[i].req # r
    BY <1>9
  <2> QED
    BY <1>2, <1>10, <2>1, <2>2, AppendEntry
<1>12. /\ step' \in Locals /\ step'.scheduled = t /\ step'.req_index = step.req_index
       /\ step'.preempted = step.preempted
  <2>1. PICK b \in Int : b = step.token_budget - n
    BY <1>1, StepFacts
  <2>2. PICK z \in SUBSET Request : z = step.resumed \cup {r}
    BY <1>2, StepFacts
  <2>3. step' = [step EXCEPT !.scheduled = t, !.resumed = z, !.token_budget = b]
    BY <1>1, <1>8, <1>10, <2>1, <2>2
  <2>4. step \in Locals
    BY DEF Types
  <2>5. step' \in Locals
    BY <1>11, <2>3, <2>4 DEF Locals
  <2>6. step'.scheduled = t /\ step'.req_index = step.req_index /\ step'.preempted = step.preempted
    BY <2>3, <2>4 DEF Locals
  <2> QED
    BY <2>5, <2>6
<1>13. Types'
  BY <1>3, <1>4, <1>5, <1>6, <1>7, <1>12 DEF Types, envVars
<1>14. Queues'
  <2>1. ToSet(running') = {q \in Request : status'[q] = "RUNNING"}
    BY <1>2, <1>5, <1>6 DEF Queues
  <2>2. ToSet(waiting') = {q \in Request : status'[q] \in {"WAITING", "PREEMPTED"}}
    BY <1>4, <1>6 DEF Queues
  <2>3. Len(running') <= MaxNumRunningReqs
    <3>1. Len(running) \in Nat
      BY <1>3
    <3> QED
      BY <1>3, <1>5, <3>1, Facts
  <2> QED
    BY <1>4, <1>5, <2>1, <2>2, <2>3 DEF Queues
<1>15. Phase'
  BY <1>3, <1>12 DEF Phase, BatchQueueSize
<1>16. Held'
  <2>1. \A q \in Request : status'[q] # "RUNNING" => kv'.req_to_blocks[q] = <<>>
    BY <1>6, <1>7 DEF Held
  <2>2. \A q \in worker' : Live(q)' \/ q \in finished_ids'
    BY <1>3, <1>6 DEF Held, Live, envVars, Types
  <2> QED
    BY <2>1, <2>2 DEF Held
<1>17. Loop'
  <2>1. \A i \in 1 .. Len(t) : t[i].req \in ToSet(running')
    BY <1>5, <1>9, <1>11
  <2>2. step.req_index \in 0 .. Cardinality(Request)
    BY DEF Loop
  <2>3. pc' = "waiting"
    BY <1>3
  <2> QED
    BY <1>11, <1>12, <2>1, <2>2, <2>3 DEF Loop
<1> QED
  BY <1>13, <1>14, <1>15, <1>16, <1>17

-----------------------------------------------------------------------------
\* num_computed_tokens after _update_after_schedule.
Computed(r) == num_computed[r] + ScheduledTokens(r)

\* Whether r is not scheduled up to its last token.
IsChunk(r) == Computed(r) < NumTokens(r) + placeholders[r]

\* The batch that goes into flight.
NewBatch ==
    [i \in 1 .. Len(step.scheduled) |->
        [req |-> step.scheduled[i].req,
         pos |-> IF IsChunk(step.scheduled[i].req) THEN 0 ELSE Computed(step.scheduled[i].req) + 1]]

\* Its entries.
LEMMA BatchFacts ==
    ASSUME Types, OncePerRequest(step.scheduled)
    PROVE  /\ NewBatch \in Seq(Token) /\ OncePerRequest(NewBatch)
           /\ Len(NewBatch) = Len(step.scheduled) /\ Len(step.scheduled) \in Nat
           /\ \A i \in 1 .. Len(NewBatch) :
                 /\ NewBatch[i].req = step.scheduled[i].req
                 /\ NewBatch[i].req \in Request
                 /\ NewBatch[i].pos = IF IsChunk(NewBatch[i].req) THEN 0 ELSE Computed(NewBatch[i].req) + 1
<1>1. PICK s : s = step.scheduled
  OBVIOUS
<1>2. s \in Seq(Slice) /\ Len(s) \in Nat /\ \A i \in 1 .. Len(s) : s[i].req \in Request
  BY <1>1, StepFacts, EntryFacts
<1>3. \A i \in 1 .. Len(s) : Computed(s[i].req) \in Int
  <2>1. \A r : ScheduledTokens(r) \in Int
    BY StepFacts, ScheduledFacts
  <2> QED
    BY <1>2, <2>1, LengthFacts DEF Computed
<1> DEFINE pos(i) == IF IsChunk(s[i].req) THEN 0 ELSE Computed(s[i].req) + 1
           b == [i \in 1 .. Len(s) |-> [req |-> s[i].req, pos |-> pos(i)]]
<1>4. \A i \in 1 .. Len(s) : pos(i) \in Int
  BY <1>3
<1>5. NewBatch = b
  BY <1>1 DEF NewBatch
<1> HIDE DEF pos
<1>6. \A i \in 1 .. Len(s) : [req |-> s[i].req, pos |-> pos(i)] \in Token
  BY <1>2, <1>4 DEF Token
<1>7. b \in Seq(Token) /\ Len(b) = Len(s)
  BY <1>2, <1>6
<1>8. \A i \in 1 .. Len(s) : b[i].req = s[i].req /\ b[i].pos = pos(i)
  OBVIOUS
<1> HIDE DEF b
<1>9. OncePerRequest(b)
  BY <1>1, <1>7, <1>8 DEF OncePerRequest
<1>10. \A i \in 1 .. Len(b) : /\ b[i].req = s[i].req /\ b[i].req \in Request
                              /\ b[i].pos = IF IsChunk(b[i].req) THEN 0 ELSE Computed(b[i].req) + 1
  BY <1>2, <1>7, <1>8 DEF pos
<1> QED
  BY <1>1, <1>2, <1>5, <1>7, <1>9, <1>10

\* What Submit does.
LEMMA SubmitFacts ==
    ASSUME Types, OncePerRequest(step.scheduled), Submit
    PROVE  /\ batches' = Append(batches, NewBatch)
           /\ num_computed' = [r \in Request |-> Computed(r)]
           /\ placeholders' = [r \in Request |-> IF r \in Scheduled /\ ~IsChunk(r)
                                                 THEN PlaceholdersAfter(r) ELSE placeholders[r]]
           /\ \/ pc' = "popped"
              \/ NewBatch # <<>> /\ Len(batches) + 1 < BatchQueueSize /\ pc' = "idle"
<1>1. /\ step.scheduled \in Seq(Slice)
      /\ \A i \in 1 .. Len(step.scheduled) : step.scheduled[i].req \in Request
      /\ DOMAIN step.scheduled = 1 .. Len(step.scheduled)
  BY StepFacts, EntryFacts
<1> DEFINE computed == [r \in Request |-> num_computed[r] + ScheduledTokens(r)]
           chunk(r) == computed[r] < NumTokens(r) + placeholders[r]
           batch == [i \in DOMAIN step.scheduled |->
                      [req |-> step.scheduled[i].req,
                       pos |-> IF chunk(step.scheduled[i].req) THEN 0
                               ELSE computed[step.scheduled[i].req] + 1]]
<1>2. computed = [r \in Request |-> Computed(r)]
  BY DEF Computed
<1>3. \A r \in Request : computed[r] = Computed(r) /\ (chunk(r) <=> IsChunk(r))
  BY DEF Computed, IsChunk
<1>4. /\ num_computed' = computed /\ batches' = Append(batches, batch)
      /\ placeholders' = [r \in Request |-> IF r \in Scheduled /\ ~chunk(r)
                                            THEN PlaceholdersAfter(r) ELSE placeholders[r]]
      /\ \/ pc' = "popped"
         \/ MayRunAhead(batch) /\ pc' = "idle"
  BY DEF Submit
<1> HIDE DEF chunk, computed
<1>5. batch = NewBatch
  BY <1>1, <1>3 DEF NewBatch
<1> HIDE DEF batch
<1>6. placeholders' = [r \in Request |-> IF r \in Scheduled /\ ~IsChunk(r)
                                         THEN PlaceholdersAfter(r) ELSE placeholders[r]]
  BY <1>3, <1>4
<1> QED
  BY <1>2, <1>4, <1>5, <1>6 DEF MayRunAhead

\* The batch goes into flight.
LEMMA SubmitEngine ==
    ASSUME EngineInv, Submit, UNCHANGED mode
    PROVE  EngineInv'
<1> USE DEF EngineInv
<1>1. OncePerRequest(step.scheduled) /\ step.scheduled \in Seq(Slice) /\ Types
  BY StepFacts DEF Loop
<1>2. /\ batches' = Append(batches, NewBatch)
      /\ num_computed' = [r \in Request |-> Computed(r)]
      /\ placeholders' = [r \in Request |-> IF r \in Scheduled /\ ~IsChunk(r)
                                            THEN PlaceholdersAfter(r) ELSE placeholders[r]]
      /\ \/ pc' = "popped"
         \/ NewBatch # <<>> /\ Len(batches) + 1 < BatchQueueSize /\ pc' = "idle"
  BY <1>1, SubmitFacts
<1>3. NewBatch \in Seq(Token) /\ OncePerRequest(NewBatch)
  BY <1>1, BatchFacts
<1>4. /\ pc = "submit" /\ step' = IdleStep /\ finished_ids' = {} /\ worker' = (worker \ finished_ids) \cup Scheduled
      /\ UNCHANGED <<status, output, discard, queueVars, kv, pause, resets, out>>
  BY DEF Submit
<1>5. Scheduled \subseteq ToSet(running) /\ Scheduled \subseteq Request /\ \A r : ScheduledTokens(r) \in Int
  <2>1. /\ \A r : r \in Scheduled <=> \E i \in 1 .. Len(step.scheduled) : step.scheduled[i].req = r
        /\ Scheduled \subseteq Request /\ \A r : ScheduledTokens(r) \in Int
    BY <1>1, ScheduledFacts
  <2> QED
    BY <2>1 DEF Loop
<1>6. /\ batches \in Seq(Seq(Token)) /\ Len(batches) \in Nat /\ Len(batches) < BatchQueueSize
      /\ BatchQueueSize \in Nat /\ BatchQueueSize' = BatchQueueSize
  <2>1. batches \in Seq(Seq(Token)) /\ mode \in Modes
    BY DEF Types
  <2> QED
    BY <1>4, <2>1, ModeFacts DEF Phase, BatchQueueSize
<1>7. /\ batches' \in Seq(Seq(Token)) /\ Len(batches') = Len(batches) + 1
      /\ \A i \in 1 .. Len(batches) : batches'[i] = batches[i]
      /\ batches'[Len(batches')] = NewBatch
  BY <1>2, <1>3, <1>6
<1>8. Types'
  <2>1. num_computed' \in [Request -> Int]
    BY <1>1, <1>2, <1>5, LengthFacts DEF Computed
  <2>2. placeholders' \in [Request -> Int]
    BY <1>1, <1>2, LengthFacts DEF PlaceholdersAfter
  <2> QED
    BY <1>2, <1>4, <1>5, <1>7, <2>1, <2>2, IdleFacts DEF Types, queueVars
<1>9. Queues'
  BY <1>4 DEF Queues, queueVars
<1>10. Phase'
  <2>1. IF pc' = "popped" THEN Len(batches') \in 1 .. BatchQueueSize'
                          ELSE Len(batches') < BatchQueueSize'
    BY <1>2, <1>6, <1>7
  <2>2. \A k \in 1 .. Len(batches) : OncePerRequest(batches[k])
    BY DEF Phase
  <2>3. ASSUME NEW k \in 1 .. Len(batches') PROVE OncePerRequest(batches'[k])
    <3>1. k \in 1 .. Len(batches) \/ k = Len(batches')
      BY <1>6, <1>7
    <3>2. CASE k \in 1 .. Len(batches)
      BY <1>7, <2>2, <3>2
    <3>3. CASE k = Len(batches')
      BY <1>3, <1>7, <3>3
    <3> QED
      BY <3>1, <3>2, <3>3
  <2>4. out' = <<>> /\ OncePerRequest(out') /\ pc' \in {"idle", "popped"}
    BY <1>2, <1>4 DEF Phase
  <2> QED
    BY <1>4, <2>1, <2>3, <2>4 DEF Phase
<1>11. Loop'
  <2>1. step'.scheduled = <<>> /\ step'.req_index = 0 /\ pc' # "allocate" /\ pc' # "running"
    BY <1>2, <1>4, IdleFacts
  <2>2. Len(step'.scheduled) = 0 /\ Cardinality(Request) \in Nat
    BY <2>1, Facts
  <2> QED
    BY <2>1, <2>2 DEF Loop, OncePerRequest
<1>12. Held'
  <2>1. \A r \in Scheduled : Live(r)
    BY <1>5 DEF Queues, Live
  <2>2. \A r \in worker' : Live(r)' \/ r \in finished_ids'
    BY <1>4, <2>1 DEF Held, Live
  <2> QED
    BY <1>4, <2>2 DEF Held
<1> QED
  BY <1>8, <1>9, <1>10, <1>11, <1>12

\* A sampled token is appended, and may finish its request.
LEMMA ApplyEngine ==
    ASSUME EngineInv, ApplyOutput, UNCHANGED mode
    PROVE  EngineInv'
<1> USE DEF EngineInv
<1>1. /\ out \in Seq(Token) /\ out # <<>> /\ out' = Tail(out) /\ OncePerRequest(out)
      /\ pc = "output" /\ pc' = pc
  BY DEF Types, ApplyOutput, Phase
<1>2. out' \in Seq(Token) /\ OncePerRequest(out') /\ Head(out) \in Token
  BY <1>1, TailFacts, TailOnce
<1>3. PICK r : r = Head(out).req
  OBVIOUS
<1>4. r \in Request /\ Live(r) /\ Head(out).pos \in Int
  BY <1>2, <1>3 DEF Token, ApplyOutput, Dropped
<1>5. PICK cached :
         /\ \/ cached = kv
            \/ \E n : cached = cache_blocks(kv, r, n)
         /\ \/ /\ status' = [status EXCEPT ![r] = "FINISHED"]
               /\ kv' = free_request(cached, r)
               /\ finished_ids' = finished_ids \cup {r}
               /\ running' = remove_all(running, {r})
               /\ waiting' = remove_all(waiting, {r})
            \/ /\ kv' = cached
               /\ UNCHANGED <<status, finished_ids, queueVars>>
  <2>1. PICK n : n = num_computed[r] - PlaceholdersLeft(r)
    OBVIOUS
  <2>2. PICK c : c = IF AsyncScheduling /\ EnableCaching /\ status[r] = "RUNNING"
                     THEN cache_blocks(kv, r, n) ELSE kv
    OBVIOUS
  <2>3. c = kv \/ c = cache_blocks(kv, r, n)
    BY <2>2
  <2>4. \/ /\ status' = [status EXCEPT ![r] = "FINISHED"]
           /\ kv' = free_request(c, r)
           /\ finished_ids' = finished_ids \cup {r}
           /\ running' = remove_all(running, {r})
           /\ waiting' = remove_all(waiting, {r})
        \/ /\ kv' = c
           /\ UNCHANGED <<status, finished_ids, queueVars>>
    BY <1>3, <2>1, <2>2 DEF ApplyOutput
  <2> QED
    BY <2>3, <2>4
<1>6. Tables(cached) /\ cached.req_to_blocks = kv.req_to_blocks
  BY <1>5, CacheTables DEF Types
<1>7. /\ waiting \in Seq(Request) /\ IsInjective(waiting)
      /\ running \in Seq(Request) /\ IsInjective(running)
      /\ status \in [Request -> Status] /\ Tables(kv)
  BY DEF Types, Queues
<1>8. /\ output' \in [Request -> Seq(Int)] /\ placeholders' \in [Request -> Int]
  <2>1. output' = [output EXCEPT ![r] = Append(output[r], Head(out).pos)]
    BY <1>3 DEF ApplyOutput
  <2>2. Append(output[r], Head(out).pos) \in Seq(Int)
    BY <1>4, LengthFacts
  <2>3. output \in [Request -> Seq(Int)] /\ placeholders \in [Request -> Int]
    BY DEF Types
  <2>4. output' \in [Request -> Seq(Int)]
    BY <2>1, <2>2, <2>3
  <2>5. placeholders' = [placeholders EXCEPT ![r] = PlaceholdersLeft(r)]
    BY <1>3 DEF ApplyOutput
  <2>6. PlaceholdersLeft(r) \in Int
    BY <1>4, LengthFacts DEF PlaceholdersLeft
  <2> QED
    BY <2>3, <2>4, <2>5, <2>6
<1>9. UNCHANGED <<num_computed, discard, pause, data, worker, resets, batches, pc, step>>
  BY DEF ApplyOutput
<1>10. /\ Phase' /\ Loop'
  <2>1. Phase'
    BY <1>1, <1>2, <1>9 DEF Phase, BatchQueueSize
  <2>2. step = IdleStep
    BY <1>1 DEF Phase
  <2>3. step'.scheduled = <<>> /\ step'.req_index = 0 /\ pc' # "allocate"
    BY <1>1, <1>9, <2>2, IdleFacts
  <2>4. Len(step'.scheduled) = 0 /\ Cardinality(Request) \in Nat
    BY <2>3, Facts
  <2> QED
    BY <2>1, <2>3, <2>4 DEF Loop, OncePerRequest
<1>11. CASE /\ status' = [status EXCEPT ![r] = "FINISHED"]
            /\ kv' = free_request(cached, r)
            /\ finished_ids' = finished_ids \cup {r}
            /\ running' = remove_all(running, {r})
            /\ waiting' = remove_all(waiting, {r})
  <2>1. /\ waiting' \in Seq(Request) /\ IsInjective(waiting')
        /\ ToSet(waiting') = ToSet(waiting) \ {r}
        /\ running' \in Seq(Request) /\ IsInjective(running')
        /\ ToSet(running') = ToSet(running) \ {r} /\ Len(running') <= Len(running)
    BY <1>7, <1>11, RemoveFacts
  <2>2. /\ status' \in [Request -> Status] /\ status'[r] = "FINISHED"
        /\ \A q \in Request : q # r => status'[q] = status[q]
    BY <1>4, <1>7, <1>11 DEF Status
  <2>3. /\ Tables(kv') /\ kv'.req_to_blocks[r] = <<>>
        /\ \A q \in Request : q # r => kv'.req_to_blocks[q] = kv.req_to_blocks[q]
    <3>1. Tables(kv') /\ kv'.req_to_blocks = [cached.req_to_blocks EXCEPT ![r] = <<>>]
      BY <1>4, <1>6, <1>11, FreeTables
    <3>2. kv.req_to_blocks = [q \in Request |-> kv.req_to_blocks[q]]
      BY <1>7 DEF Tables
    <3> QED
      BY <1>4, <1>6, <3>1, <3>2
  <2>4. Types'
    BY <1>2, <1>4, <1>8, <1>9, <1>11, <2>1, <2>2, <2>3 DEF Types
  <2>5. Queues'
    <3>1. ToSet(running') = {q \in Request : status'[q] = "RUNNING"}
      BY <2>1, <2>2 DEF Queues
    <3>2. ToSet(waiting') = {q \in Request : status'[q] \in {"WAITING", "PREEMPTED"}}
      BY <2>1, <2>2 DEF Queues
    <3>3. Len(running') <= MaxNumRunningReqs
      BY <1>7, <2>1, Facts DEF Queues
    <3> QED
      BY <2>1, <3>1, <3>2, <3>3 DEF Queues
  <2>6. Held'
    <3>1. \A q \in Request : status'[q] # "RUNNING" => kv'.req_to_blocks[q] = <<>>
      BY <2>2, <2>3 DEF Held
    <3>2. \A q \in worker' : Live(q)' \/ q \in finished_ids'
      BY <1>9, <1>11, <2>2 DEF Held, Live, Types
    <3> QED
      BY <3>1, <3>2 DEF Held
  <2> QED
    BY <1>10, <2>4, <2>5, <2>6
<1>12. CASE kv' = cached /\ UNCHANGED <<status, finished_ids, queueVars>>
  <2>1. Types'
    BY <1>2, <1>6, <1>8, <1>9, <1>12 DEF Types, queueVars
  <2>2. Queues'
    BY <1>12 DEF Queues, queueVars
  <2>3. Held'
    BY <1>6, <1>9, <1>12 DEF Held, Live
  <2> QED
    BY <1>10, <2>1, <2>2, <2>3
<1> QED
  BY <1>5, <1>11, <1>12

-----------------------------------------------------------------------------
\* Every step keeps the first part of the invariant.
LEMMA EngineNext ==
    ASSUME EngineInv, [Next]_vars
    PROVE  EngineInv'
<1>1. CASE UNCHANGED vars
  <2> USE <1>1 DEF EngineInv, vars, reqVars, queueVars, envVars
  <2>1. Types'
    BY DEF Types
  <2>2. Queues'
    BY DEF Queues
  <2>3. Phase'
    BY DEF Phase, BatchQueueSize
  <2>4. Loop'
    BY DEF Loop, Passed, Scheduled
  <2>5. Held'
    BY DEF Held, Live
  <2> QED
    BY <2>1, <2>2, <2>3, <2>4, <2>5
<1>2. CASE Engine
  <2>1. UNCHANGED mode /\ EngineStep
    BY <1>2 DEF Engine
  <2> QED
    BY <2>1, BeginEngine, DrainEngine, PickEngine, AllocateEngine, PreemptEngine,
       EndRunningEngine, AdmitEngine, EndWaitingEngine, SubmitEngine, PopEngine,
       DropEngine, ApplyEngine, EndStepEngine DEF EngineStep
<1>3. CASE Client
  <2>1. UNCHANGED mode /\ ClientStep
    BY <1>3 DEF Client
  <2> QED
    BY <2>1, AddEngine, AbortEngine, PauseEngine, ResetRunningEngine, ResetIdleEngine
    DEF ClientStep
<1> QED
  BY <1>1, <1>2, <1>3 DEF Next

\* Queues, loop, batches and workers stay consistent in every engine configuration.
THEOREM EngineInvHolds == Spec => []EngineInv
<1>1. Init => EngineInv
  BY InitEngine
<1>2. EngineInv /\ [Next]_vars => EngineInv'
  BY EngineNext
<1> QED
  BY <1>1, <1>2, PTL DEF Spec

\* WorkersForgetFinished: the engine only sleeps when finished_req_ids is empty, and
\* until then it holds every finished request that a worker keeps state for.
THEOREM WorkersForgetFinishedHolds == Spec => []WorkersForgetFinished
<1>1. EngineInv => WorkersForgetFinished
  BY DEF EngineInv, Held, WorkersForgetFinished, has_work, has_requests
<1> QED
  BY <1>1, EngineInvHolds, PTL

\* No step touches a finished request: it is in no queue that schedule() or a reset
\* takes requests from, and its outputs are dropped.
LEMMA FinishedStep ==
    ASSUME EngineInv, EngineInv', [Next]_vars, NEW r \in Request, status[r] = "FINISHED"
    PROVE  /\ status'[r] = "FINISHED" /\ output'[r] = output[r]
           /\ kv'.req_to_blocks[r] = <<>>
<1> USE DEF EngineInv
<1>1. /\ r \notin ToSet(running) /\ r \notin ToSet(waiting)
      /\ status \in [Request -> Status] /\ output \in [Request -> Seq(Int)]
  BY DEF Types, Queues
<1>2. SUFFICES status'[r] = "FINISHED" /\ output'[r] = output[r]
  BY DEF Held
<1>3. CASE UNCHANGED <<status, output>>
  BY <1>3
<1>4. ASSUME NEW q \in Request, Add(q) PROVE status'[r] = "FINISHED" /\ output'[r] = output[r]
  BY <1>1, <1>4 DEF Add
<1>5. ASSUME NEW q \in Request, Abort(q) PROVE status'[r] = "FINISHED" /\ output'[r] = output[r]
  BY <1>1, <1>5 DEF Abort
<1>6. CASE ResetRunning
  BY <1>1, <1>6 DEF ResetRunning
<1>7. CASE PreemptRunning
  <2>1. pc = "allocate"
    BY <1>7 DEF PreemptRunning
  <2>2. Victim # r
    BY <1>1, <2>1, VictimFacts
  <2>3. status' = [status EXCEPT ![Victim] = "PREEMPTED"] /\ output' = output
    BY <1>7 DEF PreemptRunning, Victim
  <2> QED
    BY <1>1, <2>2, <2>3
<1>8. CASE AdmitWaiting
  <2>1. PICK q \in Request : q \in ToSet(waiting) /\ status' = [status EXCEPT ![q] = "RUNNING"]
    BY <1>8, AdmitFacts
  <2>2. output' = output
    BY <1>8 DEF AdmitWaiting
  <2> QED
    BY <1>1, <2>1, <2>2
<1>9. CASE ApplyOutput
  <2>1. PICK q : q = Head(out).req
    OBVIOUS
  <2>2. Live(q) /\ q # r
    BY <1>9, <2>1 DEF ApplyOutput, Dropped, Live
  <2>3. \E x : output' = [output EXCEPT ![q] = x]
    BY <1>9, <2>1 DEF ApplyOutput
  <2>4. status' = status \/ status' = [status EXCEPT ![q] = "FINISHED"]
    BY <1>9, <2>1 DEF ApplyOutput
  <2> QED
    BY <1>1, <2>2, <2>3, <2>4
<1>10. CASE Engine
  <2> USE DEF reqVars
  <2>1. CASE BeginStep
    BY <1>3, <2>1 DEF BeginStep
  <2>2. CASE DrainStep
    BY <1>3, <2>2 DEF DrainStep
  <2>3. CASE PickRunning
    BY <1>3, <2>3 DEF PickRunning
  <2>4. CASE AllocateRunning
    BY <1>3, <2>4 DEF AllocateRunning
  <2>5. CASE EndRunningLoop
    BY <1>3, <2>5 DEF EndRunningLoop
  <2>6. CASE EndWaitingLoop
    BY <1>3, <2>6 DEF EndWaitingLoop
  <2>7. CASE Submit
    BY <1>3, <2>7 DEF Submit
  <2>8. CASE PopBatch
    BY <1>3, <2>8 DEF PopBatch
  <2>9. CASE DropOutput
    BY <1>3, <2>9 DEF DropOutput
  <2>10. CASE EndStep
    BY <1>3, <2>10 DEF EndStep
  <2> QED
    BY <1>7, <1>8, <1>9, <1>10, <2>1, <2>2, <2>3, <2>4, <2>5, <2>6, <2>7, <2>8, <2>9, <2>10
    DEF Engine, EngineStep
<1>11. CASE Client
  <2> USE DEF reqVars
  <2>1. ASSUME NEW p, set_pause_state(p) PROVE UNCHANGED <<status, output>>
    BY <2>1 DEF set_pause_state
  <2>2. CASE ResetIdle
    BY <1>3, <2>2 DEF ResetIdle
  <2> QED
    BY <1>3, <1>4, <1>5, <1>6, <1>11, <2>1, <2>2 DEF Client, ClientStep
<1>12. CASE UNCHANGED vars
  BY <1>3, <1>12 DEF vars, reqVars
<1> QED
  BY <1>10, <1>11, <1>12 DEF Next

\* FinishedIsFinal: what is in flight for a finished request has no effect on it.
THEOREM FinishedIsFinalHolds == Spec => FinishedIsFinal
<1>1. EngineInv /\ EngineInv' /\ [Next]_vars =>
         [\A r \in Request : status[r] = "FINISHED" =>
            /\ status'[r] = "FINISHED" /\ output'[r] = output[r]
            /\ kv'.req_to_blocks[r] = <<>>]_vars
  BY FinishedStep
<1> QED
  BY <1>1, EngineInvHolds, PTL DEF Spec, FinishedIsFinal

-----------------------------------------------------------------------------
(* The tokens in flight.                                                      *)

\* A step leaves the fields of r alone.
SameRequest(r) ==
    /\ status'[r] = status[r] /\ output'[r] = output[r]
    /\ num_computed'[r] = num_computed[r] /\ placeholders'[r] = placeholders[r]
    /\ discard'[r] = discard[r]

\* A step leaves what is in flight alone.
SameFlight == First' = First /\ Second' = Second /\ mode' = mode

\* It does when neither the queue nor the popped batch changes.
LEMMA FlightSame ==
    ASSUME UNCHANGED <<batches, out, mode>>, pc = "output" <=> pc' = "output"
    PROVE  SameFlight
BY DEF SameFlight, First, Second

\* Then nothing changes for r.
LEMMA KeepRequest ==
    ASSUME NEW r, RequestInv(r), SameRequest(r), SameFlight
    PROVE  RequestInv(r)'
<1>1. NumTokens(r)' = NumTokens(r) /\ BatchQueueSize' = BatchQueueSize /\ AsyncScheduling' = AsyncScheduling
  BY DEF SameRequest, SameFlight, NumTokens, BatchQueueSize, AsyncScheduling
<1>2. /\ HasToken(First, r)' <=> HasToken(First, r)
      /\ HasToken(Second, r)' <=> HasToken(Second, r)
  BY DEF SameFlight, HasToken
<1>3. Count(First, r)' = Count(First, r) /\ Pending(r)' = Pending(r)
  BY <1>2 DEF Count, Pending
<1>4. BoundsAt(r)'
  BY <1>1 DEF RequestInv, BoundsAt, SameRequest
<1>5. OrderAt(r)'
  BY DEF RequestInv, OrderAt, SameRequest
<1>6. NumberedAt(r)'
  <2>1. NumberedAt(r) /\ (Live(r)' <=> Live(r))
    BY DEF RequestInv, Live, SameRequest
  <2>2. \A x : (TokenAt(First, r, x)' <=> TokenAt(First, r, x)) /\ (TokenAt(Second, r, x)' <=> TokenAt(Second, r, x))
    BY DEF TokenAt, SameFlight
  <2> QED
    BY <1>1, <1>2, <1>3, <2>1, <2>2 DEF NumberedAt, SameRequest, TokenAt, SameFlight
<1> QED
  BY <1>4, <1>5, <1>6 DEF RequestInv

\* Nothing is put in flight for a request that is not running.
LEMMA KeepSettled ==
    ASSUME NEW r, SettledAt(r), status'[r] = status[r], SameFlight, Draining => Draining'
    PROVE  SettledAt(r)'
<1>1. /\ HasToken(First, r)' <=> HasToken(First, r)
      /\ HasToken(Second, r)' <=> HasToken(Second, r)
  BY DEF SameFlight, HasToken
<1> QED
  BY <1>1 DEF SettledAt

\* Nor does it change what r may compute.
LEMMA KeepCompute ==
    ASSUME NEW r, NEW n, MayCompute(r, n), SameRequest(r), SameFlight
    PROVE  MayCompute(r, n)'
<1>1. Pending(r)' = Pending(r)
  BY DEF SameFlight, HasToken, Count, Pending
<1> QED
  BY <1>1 DEF MayCompute, SameRequest, SameFlight, NumTokens, AsyncScheduling

\* Outside schedule() there is no batch under construction.
LEMMA IdleBudget ==
    ASSUME step = IdleStep, pc \in {"idle", "popped", "output"}
    PROVE  Budget
<1>1. Len(step.scheduled) = 0 /\ step.token_budget = 0
  BY DEF IdleStep
<1> QED
  BY <1>1 DEF Budget

\* Two batches are in flight only when the older one is being waited for.
LEMMA OneInFlight ==
    ASSUME EngineInv, Orderly, pc \notin {"popped", "output"}
    PROVE  /\ Second = <<>> /\ Len(batches) \in {0, 1}
           /\ \A r : ~HasToken(Second, r) /\ Pending(r) = Count(First, r)
<1>1. /\ Len(batches) \in Nat /\ Len(batches) < BatchQueueSize
      /\ BatchQueueSize \in Nat /\ BatchQueueSize <= 2
  <2>1. batches \in Seq(Seq(Token)) /\ mode \in Modes
    BY DEF EngineInv, Types
  <2>2. Len(batches) < BatchQueueSize
    BY DEF EngineInv, Phase
  <2> QED
    BY <2>1, <2>2, ModeFacts DEF BatchQueueSize, Orderly
<1>2. Len(batches) \in {0, 1}
  BY <1>1
<1>3. Second = <<>>
  BY <1>2 DEF Second
<1>4. ASSUME NEW r PROVE ~HasToken(Second, r)
  BY <1>3 DEF HasToken
<1>5. ASSUME NEW r PROVE Pending(r) = Count(First, r)
  <2>1. Count(Second, r) = 0 /\ Count(First, r) \in Int
    BY <1>4 DEF Count
  <2> QED
    BY <2>1 DEF Pending
<1> QED
  BY <1>2, <1>3, <1>4, <1>5

\* Steps that leave requests, batches and schedule()'s variables alone.
LEMMA KeepTokens ==
    ASSUME EngineInv, EngineInv', TokenInv, UNCHANGED mode, UNCHANGED <<reqVars, batches, out>>,
           pc = "output" <=> pc' = "output", Draining => Draining', Budget'
    PROVE  TokenInv'
<1>1. SameFlight
  BY FlightSame
<1>2. ASSUME NEW r \in Request PROVE RequestInv(r)' /\ SettledAt(r)'
  <2>1. SameRequest(r) /\ RequestInv(r) /\ SettledAt(r)
    BY DEF SameRequest, reqVars, TokenInv, Requests
  <2> QED
    BY <1>1, <2>1, KeepRequest, KeepSettled DEF SameRequest
<1>3. Entries'
  BY DEF TokenInv, Entries
<1> QED
  BY <1>2, <1>3 DEF TokenInv, Requests

\* The first states.
LEMMA InitTokens ==
    ASSUME Init PROVE TokenInv
<1>1. First = <<>> /\ Second = <<>>
  BY DEF Init, First, Second
<1>2. \A r : ~HasToken(First, r) /\ ~HasToken(Second, r)
  BY <1>1 DEF HasToken
<1>3. ASSUME NEW r \in Request PROVE RequestInv(r) /\ SettledAt(r)
  <2>1. /\ status[r] = "NEW" /\ output[r] = <<>> /\ num_computed[r] = 0 /\ placeholders[r] = 0
        /\ discard[r] = FALSE /\ mode \in Modes
    BY DEF Init, InitRequests
  <2>2. BoundsAt(r)
    BY <2>1, Facts, ModeFacts DEF BoundsAt, NumTokens, BatchQueueSize
  <2>3. OrderAt(r)
    BY <2>1 DEF OrderAt
  <2>4. NumberedAt(r)
    BY <1>2, <2>1 DEF NumberedAt, Live
  <2>5. SettledAt(r)
    BY <2>1 DEF SettledAt
  <2> QED
    BY <2>2, <2>3, <2>4, <2>5 DEF RequestInv
<1>4. Entries
  BY DEF Init, Entries
<1>5. Budget
  BY IdleBudget DEF Init
<1> QED
  BY <1>3, <1>4, <1>5 DEF TokenInv, Requests

\* A new request has nothing in flight.
LEMMA AddTokens ==
    ASSUME EngineInv, EngineInv', TokenInv, NEW r \in Request, Add(r), UNCHANGED mode
    PROVE  TokenInv'
<1>1. /\ status \in [Request -> Status] /\ pc = "idle" /\ status[r] = "NEW"
      /\ UNCHANGED <<output, num_computed, placeholders, discard, batches, pc, step, out>>
      /\ status' = [status EXCEPT ![r] = "WAITING"]
  BY DEF EngineInv, Types, Add
<1>2. SameFlight
  BY <1>1, FlightSame
<1>3. Draining => Draining'
  BY <1>1 DEF Draining
<1>4. ASSUME NEW q \in Request, q # r PROVE RequestInv(q)' /\ SettledAt(q)'
  <2>1. SameRequest(q) /\ RequestInv(q) /\ SettledAt(q)
    BY <1>1, <1>4 DEF SameRequest, TokenInv, Requests
  <2> QED
    BY <1>2, <1>3, <2>1, KeepRequest, KeepSettled DEF SameRequest
<1>5. RequestInv(r)' /\ SettledAt(r)'
  <2>1. /\ status'[r] = "WAITING" /\ output'[r] = output[r] /\ num_computed'[r] = num_computed[r]
        /\ placeholders'[r] = placeholders[r] /\ discard'[r] = discard[r]
    BY <1>1
  <2>2. RequestInv(r) /\ NumTokens(r)' = NumTokens(r)
        /\ BatchQueueSize' = BatchQueueSize /\ AsyncScheduling' = AsyncScheduling
    BY <2>1 DEF TokenInv, Requests, NumTokens, BatchQueueSize, AsyncScheduling
  <2>3. ~HasToken(First, r) /\ ~HasToken(Second, r) /\ placeholders[r] = 0
    BY <1>1, <2>2 DEF RequestInv, NumberedAt, BoundsAt
  <2>4. ~HasToken(First, r)' /\ ~HasToken(Second, r)'
    BY <1>2, <2>3 DEF HasToken, SameFlight
  <2>5. /\ Count(First, r)' = 0 /\ Count(Second, r)' = 0 /\ Pending(r)' = 0
    BY <2>4 DEF Count, Pending
  <2>6. BoundsAt(r)'
    BY <1>1, <2>1, <2>2 DEF RequestInv, BoundsAt
  <2>7. OrderAt(r)'
    BY <2>1, <2>2 DEF RequestInv, OrderAt
  <2>8. NumberedAt(r)'
    <3>1. TokenAt(First, r, NumTokens(r) + 1)' /\ TokenAt(Second, r, NumTokens(r) + 1 + Count(First, r))'
      BY <2>4 DEF HasToken, TokenAt
    <3> QED
      BY <2>1, <2>3, <2>5, <3>1 DEF NumberedAt
  <2>9. SettledAt(r)'
    BY <2>4 DEF SettledAt
  <2> QED
    BY <2>6, <2>7, <2>8, <2>9 DEF RequestInv
<1>6. Entries'
  BY <1>1 DEF TokenInv, Entries
<1>7. Budget'
  <2>1. step' = IdleStep /\ pc' = "idle"
    BY <1>1 DEF EngineInv, Phase
  <2> QED
    BY <2>1, IdleBudget, IdleFacts DEF Budget, IdleStep
<1> QED
  BY <1>4, <1>5, <1>6, <1>7 DEF TokenInv, Requests

\* Nothing is asked of a finished request but its bounds.
LEMMA AbortTokens ==
    ASSUME EngineInv, EngineInv', TokenInv, NEW r \in Request, Abort(r), UNCHANGED mode
    PROVE  TokenInv'
<1>1. /\ status \in [Request -> Status] /\ pc \in {"idle", "popped"}
      /\ UNCHANGED <<output, num_computed, placeholders, discard, batches, pc, step, out>>
      /\ status' = [status EXCEPT ![r] = "FINISHED"]
  BY DEF EngineInv, Types, Abort
<1>2. SameFlight
  BY <1>1, FlightSame
<1>3. Draining => Draining'
  BY <1>1 DEF Draining
<1>4. ASSUME NEW q \in Request, q # r PROVE RequestInv(q)' /\ SettledAt(q)'
  <2>1. SameRequest(q) /\ RequestInv(q) /\ SettledAt(q)
    BY <1>1, <1>4 DEF SameRequest, TokenInv, Requests
  <2> QED
    BY <1>2, <1>3, <2>1, KeepRequest, KeepSettled DEF SameRequest
<1>5. RequestInv(r)' /\ SettledAt(r)'
  <2>1. /\ status'[r] = "FINISHED" /\ output'[r] = output[r] /\ num_computed'[r] = num_computed[r]
        /\ placeholders'[r] = placeholders[r] /\ discard'[r] = discard[r]
    BY <1>1
  <2>2. RequestInv(r) /\ NumTokens(r)' = NumTokens(r)
        /\ BatchQueueSize' = BatchQueueSize /\ AsyncScheduling' = AsyncScheduling
    BY <2>1 DEF TokenInv, Requests, NumTokens, BatchQueueSize, AsyncScheduling
  <2>3. BoundsAt(r)'
    BY <2>1, <2>2 DEF RequestInv, BoundsAt
  <2>4. OrderAt(r)'
    BY <2>1, <2>2 DEF RequestInv, OrderAt
  <2>5. NumberedAt(r)' /\ SettledAt(r)'
    BY <2>1 DEF NumberedAt, Live, SettledAt
  <2> QED
    BY <2>3, <2>4, <2>5 DEF RequestInv
<1>6. Entries'
  BY <1>1 DEF TokenInv, Entries
<1>7. Budget'
  <2>1. step' = IdleStep /\ pc' \in {"idle", "popped"}
    BY <1>1 DEF EngineInv, Phase
  <2> QED
    BY <2>1, IdleFacts DEF Budget, IdleStep
<1> QED
  BY <1>4, <1>5, <1>6, <1>7 DEF TokenInv, Requests

\* A pause is only noticed when schedule() starts.
LEMMA PauseTokens ==
    ASSUME EngineInv, EngineInv', TokenInv, NEW p, set_pause_state(p), UNCHANGED mode
    PROVE  TokenInv'
<1>1. /\ pc = "idle" /\ UNCHANGED <<reqVars, batches, pc, step, out>>
  BY DEF set_pause_state
<1>2. Budget'
  <2>1. step' = IdleStep /\ pc' = "idle"
    BY <1>1 DEF EngineInv, Phase
  <2> QED
    BY <2>1, IdleFacts DEF Budget, IdleStep
<1>3. Draining => Draining'
  BY <1>1 DEF Draining
<1> QED
  BY <1>1, <1>2, <1>3, KeepTokens

\* Only the hashes of blocks change.
LEMMA ResetIdleTokens ==
    ASSUME EngineInv, EngineInv', TokenInv, ResetIdle, UNCHANGED mode
    PROVE  TokenInv'
<1>1. /\ pc = "idle" /\ UNCHANGED <<reqVars, batches, pc, step, out>>
  BY DEF ResetIdle
<1>2. Budget'
  <2>1. step' = IdleStep /\ pc' = "idle"
    BY <1>1 DEF EngineInv, Phase
  <2> QED
    BY <2>1, IdleFacts DEF Budget, IdleStep
<1>3. Draining => Draining'
  BY <1>1 DEF Draining
<1> QED
  BY <1>1, <1>2, <1>3, KeepTokens

\* A forced reset finds nothing in flight.
LEMMA ResetRunningTokens ==
    ASSUME EngineInv, EngineInv', Orderly, TokenInv, ResetRunning, UNCHANGED mode
    PROVE  TokenInv'
<1>1. /\ pc = "idle" /\ resets < mode.resets /\ UNCHANGED <<output, batches, pc, step, out>>
      /\ status \in [Request -> Status] /\ mode \in Modes /\ resets \in Nat
      /\ batches \in Seq(Seq(Token))
  BY DEF ResetRunning, EngineInv, Types
<1>2. mode.resets # 0 /\ mode.async = FALSE /\ mode.batches = 1
  BY <1>1, ModeFacts DEF Orderly
<1>3. Len(batches) = 0
  BY <1>1, <1>2 DEF EngineInv, Phase, BatchQueueSize
<1>4. First' = <<>> /\ Second' = <<>>
  BY <1>1, <1>3 DEF First, Second
<1>5. ASSUME NEW r \in Request PROVE RequestInv(r)' /\ SettledAt(r)'
  <2>1. RequestInv(r) /\ NumTokens(r)' = NumTokens(r) /\ output'[r] = output[r]
        /\ BatchQueueSize' = BatchQueueSize /\ ~AsyncScheduling' /\ ~AsyncScheduling
        /\ NumTokens(r) \in Nat
    <3>1. NumTokens(r) \in Nat
      BY LengthFacts DEF EngineInv
    <3> QED
      BY <1>1, <1>2, <3>1 DEF TokenInv, Requests, NumTokens, BatchQueueSize, AsyncScheduling
  <2>2. \/ /\ status'[r] = "PREEMPTED" /\ num_computed'[r] = 0 /\ placeholders'[r] = 0
           /\ status[r] = "RUNNING"
        \/ /\ status'[r] = status[r] /\ num_computed'[r] = num_computed[r]
           /\ placeholders'[r] = placeholders[r] /\ status[r] # "RUNNING"
    BY DEF ResetRunning, EngineInv, Queues
  <2>3. ~HasToken(First, r)' /\ ~HasToken(Second, r)'
    BY <1>4 DEF HasToken
  <2>4. /\ Count(First, r)' = 0 /\ Pending(r)' = 0
    BY <2>3 DEF Count, Pending
  <2>5. BatchQueueSize \in Nat
    BY <1>1, ModeFacts DEF BatchQueueSize
  <2>6. BoundsAt(r)'
    BY <2>1, <2>2, <2>5 DEF RequestInv, BoundsAt
  <2>7. OrderAt(r)'
    BY <2>1 DEF RequestInv, OrderAt
  <2>8. NumberedAt(r)'
    <3>1. Live(r)' => placeholders'[r] = 0
      BY <2>1, <2>2 DEF RequestInv, NumberedAt, Live
    <3> QED
      <4>1. TokenAt(First, r, NumTokens(r) + 1)' /\ TokenAt(Second, r, NumTokens(r) + 1 + Count(First, r))'
        BY <2>3 DEF HasToken, TokenAt
      <4> QED
        BY <2>1, <2>3, <2>4, <3>1, <4>1 DEF NumberedAt
  <2>9. SettledAt(r)'
    BY <2>3 DEF SettledAt
  <2> QED
    BY <2>6, <2>7, <2>8, <2>9 DEF RequestInv
<1>6. Entries'
  BY <1>1 DEF TokenInv, Entries
<1>7. Budget'
  <2>1. step' = IdleStep /\ pc' = "idle"
    BY <1>1 DEF EngineInv, Phase
  <2> QED
    BY <2>1, IdleFacts DEF Budget, IdleStep
<1> QED
  BY <1>5, <1>6, <1>7 DEF TokenInv, Requests

\* The whole budget is there.
LEMMA BeginTokens ==
    ASSUME EngineInv, EngineInv', TokenInv, BeginStep, UNCHANGED mode
    PROVE  TokenInv'
<1>1. /\ pc = "idle" /\ pc' = "running" /\ UNCHANGED <<reqVars, batches, out, pause>>
  BY DEF BeginStep, envVars
<1>2. Budget'
  <2>1. PICK n : n = IF pause = "PAUSED_ALL" THEN 0 ELSE MaxNumScheduledTokens
    OBVIOUS
  <2>2. n \in Nat /\ step' = [IdleStep EXCEPT !.token_budget = n]
    BY <2>1, Facts DEF BeginStep
  <2>3. step'.scheduled = <<>> /\ step'.token_budget = n
    BY <2>2, IdleFacts
  <2>4. Len(step'.scheduled) = 0 /\ TotalTokens(step'.scheduled) = 0
    BY <2>3, TotalFacts
  <2>5. pause' = pause
    BY <1>1
  <2> QED
    BY <1>1, <2>1, <2>2, <2>3, <2>4, <2>5 DEF Budget, TotalTokens
<1>3. Draining => Draining'
  BY <1>1 DEF Draining
<1> QED
  BY <1>1, <1>2, <1>3, KeepTokens

\* The oldest batch is waited for.
LEMMA DrainTokens ==
    ASSUME EngineInv, EngineInv', TokenInv, DrainStep, UNCHANGED mode
    PROVE  TokenInv'
<1>1. /\ pc = "idle" /\ pc' = "popped" /\ UNCHANGED <<reqVars, batches, out, step>>
  BY DEF DrainStep
<1>2. Budget'
  <2>1. step' = IdleStep /\ pc' = "popped"
    BY <1>1 DEF EngineInv, Phase
  <2> QED
    BY <2>1, IdleFacts DEF Budget, IdleStep
<1>3. Draining => Draining'
  BY <1>1 DEF Draining
<1> QED
  BY <1>1, <1>2, <1>3, KeepTokens

\* schedule() goes on to the waiting requests only if it has preempted none.
LEMMA EndRunningTokens ==
    ASSUME EngineInv, EngineInv', TokenInv, EndRunningLoop, UNCHANGED mode
    PROVE  TokenInv'
<1>1. /\ pc = "running" /\ pc' = IF step.preempted \/ pause # "UNPAUSED" THEN "submit" ELSE "waiting"
      /\ UNCHANGED <<reqVars, batches, out, step, pause>>
  BY DEF EndRunningLoop, envVars
<1>2. SameFlight
  BY <1>1, FlightSame
<1>3. Budget'
  <2>1. ASSUME NEW i \in 1 .. Len(step.scheduled)
        PROVE  MayCompute(step.scheduled[i].req, step.scheduled[i].n)'
    <3>1. PICK r, n : r = step.scheduled[i].req /\ n = step.scheduled[i].n
      OBVIOUS
    <3>2. MayCompute(r, n) /\ SameRequest(r)
      BY <1>1, <3>1 DEF TokenInv, Budget, SameRequest, reqVars
    <3>3. MayCompute(r, n)'
      BY <1>2, <3>2, KeepCompute
    <3> QED
      BY <1>1, <3>1, <3>3 DEF MayCompute
  <2>2. pc' \in {"submit", "waiting"} /\ pause' = pause /\ step' = step
    BY <1>1
  <2>3. /\ step.token_budget >= 0
        /\ step.token_budget + TotalTokens(step.scheduled)
             = IF pause = "PAUSED_ALL" THEN 0 ELSE MaxNumScheduledTokens
    BY <1>1 DEF TokenInv, Budget
  <2> QED
    BY <2>1, <2>2, <2>3 DEF Budget, TotalTokens
<1>4. Draining => Draining'
  BY <1>1 DEF Draining
<1> QED
  BY <1>1, <1>3, <1>4, KeepTokens

\* Nothing is in flight for a waiting request when schedule() has looked at them.
LEMMA EndWaitingTokens ==
    ASSUME EngineInv, EngineInv', TokenInv, EndWaitingLoop, UNCHANGED mode
    PROVE  TokenInv'
<1>1. /\ pc = "waiting" /\ pc' = "submit"
      /\ UNCHANGED <<reqVars, batches, out, step, pause>>
  BY DEF EndWaitingLoop, envVars
<1>2. SameFlight
  BY <1>1, FlightSame
<1>3. Budget'
  <2>1. ASSUME NEW i \in 1 .. Len(step.scheduled)
        PROVE  MayCompute(step.scheduled[i].req, step.scheduled[i].n)'
    <3>1. PICK r, n : r = step.scheduled[i].req /\ n = step.scheduled[i].n
      OBVIOUS
    <3>2. MayCompute(r, n) /\ SameRequest(r)
      BY <1>1, <3>1 DEF TokenInv, Budget, SameRequest, reqVars
    <3>3. MayCompute(r, n)'
      BY <1>2, <3>2, KeepCompute
    <3> QED
      BY <1>1, <3>1, <3>3 DEF MayCompute
  <2>2. pc' \in {"submit", "waiting"} /\ pause' = pause /\ step' = step
    BY <1>1
  <2>3. /\ step.token_budget >= 0
        /\ step.token_budget + TotalTokens(step.scheduled)
             = IF pause = "PAUSED_ALL" THEN 0 ELSE MaxNumScheduledTokens
    BY <1>1 DEF TokenInv, Budget
  <2> QED
    BY <1>1, <2>1, <2>2, <2>3 DEF Budget, TotalTokens
<1>4. Draining => Draining'
  BY <1>1 DEF Draining
<1> QED
  BY <1>1, <1>3, <1>4, KeepTokens

\* The popped batch is the older one.
LEMMA PopTokens ==
    ASSUME EngineInv, EngineInv', Orderly, TokenInv, PopBatch, UNCHANGED mode
    PROVE  TokenInv'
<1>1. /\ pc = "popped" /\ pc' = "output" /\ UNCHANGED <<reqVars, step>>
      /\ out' = Head(batches) /\ batches' = Tail(batches)
  BY DEF PopBatch
<1>2. /\ batches \in Seq(Seq(Entry)) /\ Len(batches) \in 1 .. BatchQueueSize
      /\ BatchQueueSize \in Nat
  BY <1>1, ModeFacts DEF TokenInv, Entries, EngineInv, Phase, BatchQueueSize, Types
<1>3. batches # <<>>
  BY <1>2
<1>4. /\ out' = batches[1] /\ out' \in Seq(Entry)
      /\ batches' \in Seq(Seq(Entry)) /\ Len(batches') = Len(batches) - 1
      /\ \A i \in 1 .. Len(batches') : batches'[i] = batches[i + 1]
  BY <1>1, <1>2, <1>3, TailFacts
<1>5. SameFlight
  <2>1. First' = batches[1] /\ First = batches[1]
    BY <1>1, <1>2, <1>4 DEF First
  <2>2. PICK m \in Nat : m = Len(batches) /\ m >= 1
    <3>1. \A x, y : y \in Nat /\ x \in 1 .. y => x \in Nat /\ x >= 1
      OBVIOUS
    <3> QED
      BY <1>2, <3>1, Zenon
  <2>3. CASE m = 1
    <3>1. Len(batches') = 0
      BY <1>4, <2>2, <2>3
    <3> QED
      BY <1>1, <2>1, <2>2, <2>3, <3>1 DEF Second, SameFlight
  <2>4. CASE m >= 2
    <3>1. 1 \in 1 .. Len(batches') /\ Len(batches') >= 1 /\ 1 + 1 = 2
      BY <1>4, <2>2, <2>4
    <3>2. batches'[1] = batches[1 + 1]
      BY <1>4, <3>1
    <3> QED
      BY <1>1, <2>1, <2>2, <2>4, <3>1, <3>2 DEF Second, SameFlight
  <2> QED
    BY <2>2, <2>3, <2>4
<1>6. Draining => Draining'
  BY <1>1 DEF Draining
<1>7. ASSUME NEW r \in Request PROVE RequestInv(r)' /\ SettledAt(r)'
  <2>1. SameRequest(r) /\ RequestInv(r) /\ SettledAt(r)
    BY <1>1 DEF SameRequest, reqVars, TokenInv, Requests
  <2> QED
    BY <1>5, <1>6, <2>1, KeepRequest, KeepSettled DEF SameRequest
<1>8. Budget'
  <2>1. step' = IdleStep /\ pc' = "output"
    BY <1>1 DEF EngineInv, Phase
  <2> QED
    BY <2>1, IdleFacts DEF Budget, IdleStep
<1> QED
  BY <1>4, <1>7, <1>8 DEF TokenInv, Requests, Entries

\* The younger batch is now the oldest.
LEMMA EndStepTokens ==
    ASSUME EngineInv, EngineInv', Orderly, TokenInv, EndStep, UNCHANGED mode
    PROVE  TokenInv'
<1>1. pc = "output" /\ pc' = "idle" /\ out = <<>> /\ UNCHANGED <<reqVars, batches, step, out>>
  BY DEF EndStep
<1>2. Len(batches) \in {0, 1}
  <2>1. batches \in Seq(Seq(Token)) /\ mode \in Modes /\ Len(batches) < BatchQueueSize
    BY <1>1 DEF EngineInv, Types, Phase
  <2>2. Len(batches) \in Nat /\ BatchQueueSize \in Nat /\ BatchQueueSize <= 2
    BY <2>1, ModeFacts DEF BatchQueueSize, Orderly
  <2>3. Len(batches) < BatchQueueSize
    BY <2>1
  <2> QED
    BY <2>2, <2>3
<1>3. First = <<>> /\ Second' = <<>> /\ First' = Second
  BY <1>1, <1>2 DEF First, Second
<1>4. ASSUME NEW r \in Request PROVE RequestInv(r)' /\ SettledAt(r)'
  <2>1. SameRequest(r) /\ RequestInv(r) /\ SettledAt(r)
    BY <1>1 DEF SameRequest, reqVars, TokenInv, Requests
  <2>2. /\ NumTokens(r)' = NumTokens(r) /\ BatchQueueSize' = BatchQueueSize
        /\ AsyncScheduling' = AsyncScheduling /\ (Live(r)' <=> Live(r)) /\ NumTokens(r) \in Nat
    BY <2>1, LengthFacts DEF SameRequest, NumTokens, BatchQueueSize, AsyncScheduling, Live, EngineInv
  <2>3. BoundsAt(r)'
    BY <2>1, <2>2 DEF RequestInv, BoundsAt, SameRequest
  <2>4. OrderAt(r)'
    BY <2>1 DEF RequestInv, OrderAt, SameRequest
  <2>5. /\ ~HasToken(First, r) /\ ~HasToken(Second, r)' /\ Count(First, r) = 0
        /\ (HasToken(First, r)' <=> HasToken(Second, r))
    BY <1>3 DEF HasToken, Count
  <2>6. Pending(r)' = Pending(r)
    BY <2>5 DEF Pending, Count
  <2>7. NumberedAt(r)'
    <3>1. NumberedAt(r)
      BY <2>1 DEF RequestInv
    <3>2. TokenAt(Second, r, NumTokens(r) + 1 + Count(First, r)) => TokenAt(First, r, NumTokens(r) + 1)'
      BY <1>3, <2>2, <2>5 DEF TokenAt
    <3>3. TokenAt(Second, r, NumTokens(r) + 1 + Count(First, r))'
      BY <2>5 DEF TokenAt, HasToken
    <3> QED
      BY <2>1, <2>2, <2>5, <2>6, <3>1, <3>2, <3>3 DEF NumberedAt, SameRequest
  <2>8. SettledAt(r)'
    BY <2>1, <2>5 DEF SettledAt, SameRequest
  <2> QED
    BY <2>3, <2>4, <2>7, <2>8 DEF RequestInv
<1>5. Entries'
  BY <1>1 DEF TokenInv, Entries
<1>6. Budget'
  <2>1. step' = IdleStep /\ pc' = "idle"
    BY <1>1 DEF EngineInv, Phase
  <2> QED
    BY <2>1, IdleFacts DEF Budget, IdleStep
<1> QED
  BY <1>4, <1>5, <1>6 DEF TokenInv, Requests

\* What is left of the popped batch when its first entry has been dealt with.
LEMMA RestOfBatch ==
    ASSUME EngineInv, TokenInv, pc = "output", pc' = "output", out # <<>>, out' = Tail(out),
           batches' = batches, mode' = mode
    PROVE  /\ Second' = Second /\ First = out /\ First' = out' /\ out' \in Seq(Entry)
           /\ out[1] = Head(out) /\ out[1].req \in Request /\ out[1].pos \in Int
           /\ \A r : HasToken(First', r) <=> HasToken(First, r) /\ ~(r = out[1].req /\ out[1].pos # 0)
           /\ \A r, x : TokenAt(First, r, x) => TokenAt(First', r, x)
           /\ out[1].pos # 0 => HasToken(First, out[1].req)
           /\ \A x : out[1].pos # 0 /\ TokenAt(First, out[1].req, x) => out[1].pos = x
<1>1. out \in Seq(Token) /\ out \in Seq(Entry) /\ OncePerRequest(out)
  BY DEF EngineInv, Types, Phase, TokenInv, Entries
<1>2. First = out /\ First' = out' /\ Second' = Second
  BY DEF First, Second
<1>3. PICK t : t = Tail(out)
  OBVIOUS
<1>4. /\ Len(out) \in Nat /\ Len(out) >= 1 /\ Head(out) = out[1]
      /\ Len(t) = Len(out) - 1
      /\ \A i \in 1 .. Len(t) : t[i] = out[i + 1]
      /\ t \in Seq(Entry)
  BY <1>1, <1>3, TailFacts
<1>5. \A i \in 1 .. Len(t) : t[i].req # out[1].req
  BY <1>1, <1>3, TailOnce
<1>6. out[1].req \in Request /\ out[1].pos \in Int
  BY <1>1, <1>4, EntryFacts
<1>7. \A i \in 1 .. Len(out) : i = 1 \/ (i - 1 \in 1 .. Len(t) /\ t[i - 1] = out[i])
  BY <1>4
<1>8. \A i \in 1 .. Len(t) : i + 1 \in 1 .. Len(out)
  BY <1>4
<1>9. ASSUME NEW r
      PROVE  HasToken(t, r) <=> HasToken(out, r) /\ ~(r = out[1].req /\ out[1].pos # 0)
  <2>1. ASSUME HasToken(t, r) PROVE HasToken(out, r) /\ r # out[1].req
    <3>1. PICK i \in 1 .. Len(t) : t[i].req = r /\ t[i].pos # 0
      BY <2>1 DEF HasToken
    <3>2. i + 1 \in 1 .. Len(out) /\ out[i + 1].req = r /\ out[i + 1].pos # 0
      BY <1>4, <1>8, <3>1
    <3> QED
      BY <1>5, <3>1, <3>2 DEF HasToken
  <2>2. ASSUME HasToken(out, r), ~(r = out[1].req /\ out[1].pos # 0) PROVE HasToken(t, r)
    <3>1. PICK i \in 1 .. Len(out) : out[i].req = r /\ out[i].pos # 0
      BY <2>2 DEF HasToken
    <3>2. i # 1
      BY <2>2, <3>1
    <3> QED
      BY <1>7, <3>1, <3>2 DEF HasToken
  <2> QED
    BY <2>1, <2>2
<1>10. ASSUME NEW r, NEW x, TokenAt(out, r, x) PROVE TokenAt(t, r, x)
  BY <1>4, <1>8, <1>10 DEF TokenAt
<1>11. 1 \in 1 .. Len(out)
  BY <1>4
<1>12. /\ out[1].pos # 0 => HasToken(out, out[1].req)
       /\ \A x : out[1].pos # 0 /\ TokenAt(out, out[1].req, x) => out[1].pos = x
  BY <1>11 DEF HasToken, TokenAt
<1> QED
  BY <1>2, <1>3, <1>4, <1>6, <1>9, <1>10, <1>12

\* Nothing changes for a request whose tokens are still all there.
LEMMA KeepTail ==
    ASSUME NEW r, RequestInv(r), SettledAt(r),
           status'[r] = status[r], output'[r] = output[r],
           num_computed'[r] = num_computed[r], placeholders'[r] = placeholders[r],
           discard'[r] => discard[r],
           mode' = mode, Second' = Second, pc' = "output",
           HasToken(First', r) <=> HasToken(First, r),
           \A x : TokenAt(First, r, x) => TokenAt(First', r, x)
    PROVE  RequestInv(r)' /\ SettledAt(r)'
<1>1. NumTokens(r)' = NumTokens(r) /\ BatchQueueSize' = BatchQueueSize /\ AsyncScheduling' = AsyncScheduling
  BY DEF NumTokens, BatchQueueSize, AsyncScheduling
<1>2. /\ HasToken(First, r)' <=> HasToken(First, r)
      /\ HasToken(Second, r)' <=> HasToken(Second, r)
  BY DEF HasToken
<1>3. Count(First, r)' = Count(First, r) /\ Pending(r)' = Pending(r)
  BY <1>2 DEF Count, Pending
<1>4. BoundsAt(r)'
  BY <1>1 DEF RequestInv, BoundsAt
<1>5. OrderAt(r)'
  BY DEF RequestInv, OrderAt
<1>6. NumberedAt(r)'
  <2>1. NumberedAt(r) /\ (Live(r)' <=> Live(r))
    BY DEF RequestInv, Live
  <2>2. TokenAt(First, r, NumTokens(r) + 1) => TokenAt(First, r, NumTokens(r) + 1)'
    <3>1. TokenAt(First, r, NumTokens(r) + 1) => TokenAt(First', r, NumTokens(r) + 1)
      OBVIOUS
    <3> QED
      BY <1>1, <3>1 DEF TokenAt
  <2>3. TokenAt(Second, r, NumTokens(r) + 1 + Count(First, r)) => TokenAt(Second, r, NumTokens(r) + 1 + Count(First, r))'
    BY <1>1, <1>3 DEF TokenAt
  <2> QED
    BY <1>1, <1>2, <1>3, <2>1, <2>2, <2>3 DEF NumberedAt
<1>7. SettledAt(r)'
  BY <1>2 DEF SettledAt, Draining
<1> QED
  BY <1>4, <1>5, <1>6, <1>7 DEF RequestInv

\* Only the output of a finished request, or a partial prefill, is dropped.
LEMMA DropTokens ==
    ASSUME EngineInv, EngineInv', Orderly, TokenInv, DropOutput, UNCHANGED mode
    PROVE  TokenInv'
<1>1. /\ pc = "output" /\ pc' = "output" /\ out # <<>> /\ out' = Tail(out) /\ Dropped(Head(out))
      /\ UNCHANGED <<status, output, num_computed, placeholders, batches, step>> /\ mode' = mode
      /\ discard \in [Request -> BOOLEAN]
  BY DEF DropOutput, EngineInv, Types
<1>2. PICK e : e = out[1]
  OBVIOUS
<1>3. /\ Second' = Second /\ First = out /\ First' = out' /\ out' \in Seq(Entry)
      /\ e = Head(out) /\ e.req \in Request /\ e.pos \in Int
      /\ \A r : HasToken(First', r) <=> HasToken(First, r) /\ ~(r = e.req /\ e.pos # 0)
      /\ \A r, x : TokenAt(First, r, x) => TokenAt(First', r, x)
      /\ e.pos # 0 => HasToken(First, e.req)
  BY <1>1, <1>2, RestOfBatch
<1>4. ~Live(e.req) \/ e.pos = 0
  <2>1. RequestInv(e.req)
    BY <1>3 DEF TokenInv, Requests
  <2> QED
    BY <1>1, <1>3, <2>1 DEF Dropped, RequestInv, BoundsAt
<1>5. \A r \in Request : discard'[r] => discard[r]
  <2>1. discard' = discard \/ discard' = [discard EXCEPT ![e.req] = FALSE]
    BY <1>3 DEF DropOutput
  <2> QED
    BY <1>1, <1>3, <2>1
<1>6. ASSUME NEW r \in Request PROVE RequestInv(r)' /\ SettledAt(r)'
  <2>1. /\ status'[r] = status[r] /\ output'[r] = output[r]
        /\ num_computed'[r] = num_computed[r] /\ placeholders'[r] = placeholders[r]
        /\ RequestInv(r) /\ SettledAt(r)
    BY <1>1 DEF TokenInv, Requests
  <2>2. CASE r # e.req \/ e.pos = 0
    <3>1. HasToken(First', r) <=> HasToken(First, r)
      BY <1>3, <2>2
    <3>2. \A x : TokenAt(First, r, x) => TokenAt(First', r, x)
      BY <1>3
    <3>3. discard'[r] => discard[r]
      BY <1>5
    <3> QED
      BY <1>1, <1>3, <2>1, <3>1, <3>2, <3>3, KeepTail
  <2>3. CASE r = e.req /\ e.pos # 0
    <3>1. ~Live(r) /\ HasToken(First, r)
      BY <1>3, <1>4, <2>3
    <3>2. status[r] = "FINISHED"
      <4>1. status[r] \in Status
        BY DEF EngineInv, Types
      <4>2. status[r] # "NEW"
        BY <2>1, <3>1 DEF RequestInv, NumberedAt
      <4> QED
        BY <3>1, <4>1, <4>2 DEF Live, Status
    <3>3. /\ NumTokens(r)' = NumTokens(r) /\ BatchQueueSize' = BatchQueueSize
          /\ AsyncScheduling' = AsyncScheduling
      BY <1>1, <2>1 DEF NumTokens, BatchQueueSize, AsyncScheduling
    <3>4. BoundsAt(r)'
      BY <1>5, <2>1, <3>3 DEF RequestInv, BoundsAt
    <3>5. OrderAt(r)'
      BY <2>1 DEF RequestInv, OrderAt
    <3>6. NumberedAt(r)' /\ SettledAt(r)'
      BY <2>1, <3>2 DEF NumberedAt, SettledAt, Live
    <3> QED
      BY <3>4, <3>5, <3>6 DEF RequestInv
  <2> QED
    BY <2>2, <2>3
<1>7. Entries'
  BY <1>1, <1>3 DEF TokenInv, Entries
<1>8. Budget'
  <2>1. step' = IdleStep /\ pc' = "output"
    BY <1>1 DEF EngineInv, Phase
  <2> QED
    BY <2>1, IdleFacts DEF Budget, IdleStep
<1> QED
  BY <1>6, <1>7, <1>8 DEF TokenInv, Requests

\* The token in the popped batch is the next one of its request.
LEMMA ApplyTokens ==
    ASSUME EngineInv, EngineInv', Orderly, TokenInv, ApplyOutput, UNCHANGED mode
    PROVE  TokenInv'
<1>1. /\ pc = "output" /\ pc' = "output" /\ out # <<>> /\ out' = Tail(out) /\ ~Dropped(Head(out))
      /\ UNCHANGED <<num_computed, discard, batches, step>> /\ mode' = mode
      /\ status \in [Request -> Status] /\ output \in [Request -> Seq(Int)]
      /\ placeholders \in [Request -> Int] /\ mode \in Modes
  BY DEF ApplyOutput, EngineInv, Types
<1>2. PICK e : e = out[1]
  OBVIOUS
<1>3. /\ Second' = Second /\ First = out /\ First' = out' /\ out' \in Seq(Entry)
      /\ e = Head(out) /\ e.req \in Request /\ e.pos \in Int
      /\ \A r : HasToken(First', r) <=> HasToken(First, r) /\ ~(r = e.req /\ e.pos # 0)
      /\ \A r, x : TokenAt(First, r, x) => TokenAt(First', r, x)
      /\ e.pos # 0 => HasToken(First, e.req)
      /\ \A x : e.pos # 0 /\ TokenAt(First, e.req, x) => e.pos = x
  BY <1>1, <1>2, RestOfBatch
<1>4. PICK r \in Request : r = e.req
  BY <1>3
<1>5. Live(r) /\ e.pos # 0
  BY <1>1, <1>3, <1>4 DEF Dropped
<1>6. /\ output' = [output EXCEPT ![r] = Append(output[r], e.pos)]
      /\ placeholders' = [placeholders EXCEPT ![r] = PlaceholdersLeft(r)]
      /\ \/ status' = [status EXCEPT ![r] = "FINISHED"]
         \/ status' = status /\ ~Reached(r, NumTokens(r) + 1)
  BY <1>3, <1>4 DEF ApplyOutput
<1>7. ASSUME NEW q \in Request, q # r PROVE RequestInv(q)' /\ SettledAt(q)'
  <2>1. /\ status'[q] = status[q] /\ output'[q] = output[q] /\ discard'[q] = discard[q]
        /\ num_computed'[q] = num_computed[q] /\ placeholders'[q] = placeholders[q]
        /\ RequestInv(q) /\ SettledAt(q)
    BY <1>1, <1>6, <1>7 DEF TokenInv, Requests
  <2>2. HasToken(First', q) <=> HasToken(First, q)
    BY <1>3, <1>4, <1>7
  <2>3. \A x : TokenAt(First, q, x) => TokenAt(First', q, x)
    BY <1>3
  <2> QED
    BY <1>1, <1>3, <2>1, <2>2, <2>3, KeepTail
<1>8. RequestInv(r)' /\ SettledAt(r)'
  <2>1. RequestInv(r) /\ SettledAt(r)
    BY DEF TokenInv, Requests
  <2>2. /\ PromptLen[r] \in Nat /\ NumTokens(r) \in Nat /\ output[r] \in Seq(Int) /\ Len(output[r]) \in Nat
        /\ NumTokens(r) = PromptLen[r] + Len(output[r]) /\ num_computed[r] \in Int /\ placeholders[r] \in Int
        /\ Len(Text[r]) \in Nat /\ MaxModelLen \in Nat
    BY LengthFacts, Facts DEF EngineInv
  <2>3. e.pos = NumTokens(r) + 1
    BY <1>3, <1>4, <1>5, <2>1 DEF RequestInv, NumberedAt
  <2>4. /\ HasToken(First, r) /\ ~HasToken(First, r)' /\ Count(First, r) = 1 /\ Count(First, r)' = 0
        /\ (HasToken(Second, r)' <=> HasToken(Second, r)) /\ Count(Second, r)' = Count(Second, r)
        /\ Count(Second, r) \in {0, 1}
    BY <1>3, <1>4, <1>5 DEF HasToken, Count
  <2>5. Pending(r)' = Pending(r) - 1 /\ Pending(r) \in {1, 2} /\ Pending(r)' = Count(Second, r)
    BY <2>4 DEF Pending
  <2>6. /\ output'[r] = Append(output[r], e.pos) /\ Len(output'[r]) = Len(output[r]) + 1
        /\ placeholders'[r] = PlaceholdersLeft(r) /\ num_computed'[r] = num_computed[r]
        /\ discard'[r] = discard[r]
        /\ \/ status'[r] = "FINISHED"
           \/ status'[r] = status[r] /\ ~Reached(r, NumTokens(r) + 1)
    BY <1>1, <1>3, <1>6, <2>2
  <2>7. /\ NumTokens(r)' = NumTokens(r) + 1 /\ BatchQueueSize' = BatchQueueSize
        /\ AsyncScheduling' = AsyncScheduling /\ AsyncScheduling \in BOOLEAN
    <3>1. NumTokens(r)' = NumTokens(r) + 1
      <4>1. NumTokens(r)' = PromptLen[r] + Len(output'[r])
        BY DEF NumTokens
      <4>2. Len(output'[r]) = Len(output[r]) + 1
        BY <2>6
      <4>3. Len(output[r]) \in Nat /\ PromptLen[r] \in Nat /\ NumTokens(r) = PromptLen[r] + Len(output[r])
        BY <2>2
      <4> QED
        BY <4>1, <4>2, <4>3
    <3>2. BatchQueueSize' = BatchQueueSize /\ AsyncScheduling' = AsyncScheduling
      BY <1>1 DEF BatchQueueSize, AsyncScheduling
    <3>3. AsyncScheduling \in BOOLEAN
      BY <1>1, ModeFacts, Zenon DEF AsyncScheduling
    <3> QED
      BY <3>1, <3>2, <3>3
  <2>8. /\ placeholders[r] = IF AsyncScheduling THEN Pending(r) ELSE 0
        /\ placeholders'[r] = IF AsyncScheduling THEN Pending(r) - 1 ELSE 0
    BY <1>5, <2>1, <2>6 DEF RequestInv, NumberedAt, PlaceholdersLeft
  <2>9. status[r] # "FINISHED" /\ NumTokens(r) < MaxModelLen /\ NumTokens(r) < Len(Text[r])
    BY <1>5, <2>1 DEF RequestInv, BoundsAt, Live
  <2>10. status'[r] # "FINISHED" =>
            NumTokens(r) + 1 < Len(Text[r]) /\ NumTokens(r) + 1 < MaxModelLen /\ status'[r] = status[r]
    BY <2>2, <2>6 DEF Reached, min
  <2>11. BoundsAt(r)'
    <3>1. NumTokens(r)' <= MaxModelLen
      BY <2>2, <2>7, <2>9
    <3>2. 0 <= num_computed'[r] /\ num_computed'[r] <= NumTokens(r)' + placeholders'[r]
      <4>1. 0 <= num_computed[r] /\ num_computed[r] <= NumTokens(r) + placeholders[r]
        BY <2>1 DEF RequestInv, BoundsAt
      <4> QED
        BY <2>2, <2>5, <2>6, <2>7, <2>8, <4>1
    <3>3. 0 <= placeholders'[r] /\ placeholders'[r] <= BatchQueueSize'
      <4>1. placeholders[r] <= BatchQueueSize /\ BatchQueueSize \in Nat
        BY <1>1, <2>1, ModeFacts DEF RequestInv, BoundsAt, BatchQueueSize
      <4> QED
        BY <2>5, <2>7, <2>8, <4>1
    <3>4. status'[r] = "RUNNING" => num_computed'[r] < MaxModelLen
      BY <2>1, <2>6, <2>10 DEF RequestInv, BoundsAt
    <3>5. status'[r] # "NEW" /\ (AsyncScheduling' => ~discard'[r])
      BY <1>5, <2>1, <2>6, <2>7 DEF RequestInv, BoundsAt, Live
    <3> QED
      BY <2>7, <2>10, <3>1, <3>2, <3>3, <3>4, <3>5 DEF BoundsAt
  <2>12. OrderAt(r)'
    <3>1. \A i \in 1 .. Len(output[r]) : output[r][i] = PromptLen[r] + i
      BY <2>1 DEF RequestInv, OrderAt
    <3>2. PICK s : s = output'[r]
      OBVIOUS
    <3>3. /\ Len(s) = Len(output[r]) + 1 /\ s[Len(s)] = e.pos
          /\ \A i \in 1 .. Len(output[r]) : s[i] = output[r][i]
      BY <1>3, <2>2, <2>6, <3>2
    <3>4. \A i \in 1 .. Len(s) : i \in 1 .. Len(output[r]) \/ i = Len(s)
      BY <2>2, <3>3
    <3>5. e.pos = PromptLen[r] + Len(s)
      BY <2>2, <2>3, <3>3
    <3>6. \A i \in 1 .. Len(s) : s[i] = PromptLen[r] + i
      BY <3>1, <3>3, <3>4, <3>5
    <3> QED
      BY <3>2, <3>6 DEF OrderAt
  <2>13. NumberedAt(r)'
    <3>1. NumberedAt(r) /\ (Live(r)' => status'[r] = status[r]) /\ status'[r] # "NEW"
      BY <1>5, <2>1, <2>6 DEF RequestInv, Live
    <3>2. TokenAt(First, r, NumTokens(r) + 1)'
      BY <2>4 DEF HasToken, TokenAt
    <3>3. TokenAt(Second, r, NumTokens(r) + 1 + Count(First, r)) =>
             TokenAt(Second, r, NumTokens(r) + 1 + Count(First, r))'
      BY <1>3, <2>2, <2>4, <2>7 DEF TokenAt
    <3>4. placeholders'[r] = IF AsyncScheduling' THEN Pending(r)' ELSE 0
      BY <2>5, <2>7, <2>8
    <3>5. ~AsyncScheduling' => Pending(r)' <= 1
      BY <2>5, <2>4
    <3>6. status'[r] = "RUNNING" /\ Pending(r)' > 0 =>
             num_computed'[r] = NumTokens(r)' + Pending(r)' - 1
      <4>1. status'[r] = "RUNNING" => num_computed[r] = NumTokens(r) + Pending(r) - 1
        BY <2>5, <2>6, <3>1 DEF NumberedAt
      <4> QED
        BY <2>2, <2>5, <2>6, <2>7, <4>1
    <3> QED
      BY <1>5, <3>1, <3>2, <3>3, <3>4, <3>5, <3>6 DEF NumberedAt
  <2>14. SettledAt(r)'
    BY <1>1, <2>1, <2>4, <2>6 DEF SettledAt, Draining
  <2> QED
    BY <2>11, <2>12, <2>13, <2>14 DEF RequestInv
<1>9. Entries'
  BY <1>1, <1>3 DEF TokenInv, Entries
<1>10. Budget'
  <2>1. step' = IdleStep /\ pc' = "output"
    BY <1>1 DEF EngineInv, Phase
  <2> QED
    BY <2>1, IdleFacts DEF Budget, IdleStep
<1> QED
  BY <1>7, <1>8, <1>9, <1>10 DEF TokenInv, Requests

\* A wish for a tokens cut to the budget.
LEMMA CutFacts ==
    ASSUME NEW a \in Int, step.token_budget \in Int
    PROVE  /\ CutToBudget(a) \in Int /\ CutToBudget(a) <= a /\ CutToBudget(a) <= step.token_budget
           /\ a >= 1 /\ step.token_budget >= 1 => CutToBudget(a) >= 1
           /\ a >= 0 /\ step.token_budget >= 0 => CutToBudget(a) >= 0
BY Facts DEF CutToBudget, min

\* The chosen request may compute what it is given.
LEMMA PickTokens ==
    ASSUME EngineInv, EngineInv', Orderly, TokenInv, PickRunning, UNCHANGED mode
    PROVE  TokenInv'
<1>1. PICK r : r = running[step.req_index + 1]
  OBVIOUS
<1>2. /\ pc = "running" /\ step.req_index < Len(running) /\ step.token_budget > 0
      /\ UNCHANGED <<reqVars, batches, out, pause>>
  BY DEF PickRunning, RunningLoopGoesOn, envVars
<1>3. \/ step' = [step EXCEPT !.req_index = @ + 1] /\ pc' = "running"
      \/ /\ step' = [step EXCEPT !.cur = r, !.num_new = NumNewTokens(r)] /\ pc' = "allocate"
         /\ NumNewTokens(r) # 0
  BY <1>1, <1>2 DEF PickRunning
<1>4. step \in Locals /\ step.token_budget \in Int /\ step.scheduled \in Seq(Slice)
  BY StepFacts DEF EngineInv, Types
<1>5. /\ step'.scheduled = step.scheduled /\ step'.token_budget = step.token_budget
      /\ step'.preempted = step.preempted
      /\ \/ pc' = "running"
         \/ pc' = "allocate" /\ step'.cur = r /\ step'.num_new = NumNewTokens(r) /\ NumNewTokens(r) # 0
  <2>1. CASE step' = [step EXCEPT !.req_index = @ + 1] /\ pc' = "running"
    <3>1. PICK i : i = step.req_index + 1
      OBVIOUS
    <3>2. step' = [step EXCEPT !.req_index = i]
      BY <2>1, <3>1
    <3> QED
      BY <1>4, <2>1, <3>2 DEF Locals
  <2>2. CASE /\ step' = [step EXCEPT !.cur = r, !.num_new = NumNewTokens(r)] /\ pc' = "allocate"
             /\ NumNewTokens(r) # 0
    <3>1. PICK n : n = NumNewTokens(r)
      OBVIOUS
    <3>2. step' = [step EXCEPT !.cur = r, !.num_new = n]
      BY <2>2, <3>1
    <3> QED
      BY <1>4, <2>2, <3>1, <3>2 DEF Locals
  <2> QED
    BY <1>3, <2>1, <2>2
<1>6. SameFlight
  BY <1>2, <1>5, FlightSame
<1>7. Draining => Draining'
  BY <1>2, <1>5 DEF Draining
<1>8. r \in Request /\ status[r] = "RUNNING"
  <2>1. /\ running \in Seq(Request) /\ ToSet(running) = {x \in Request : status[x] = "RUNNING"}
        /\ step.req_index \in 0 .. Cardinality(Request) /\ Cardinality(Request) \in Nat
    BY Facts DEF EngineInv, Types, Queues, Loop
  <2>2. Len(running) \in Nat
    BY <2>1, SeqFacts
  <2>3. step.req_index + 1 \in 1 .. Len(running)
    BY <1>2, <2>1, <2>2
  <2> QED
    BY <1>1, <2>1, <2>3, SeqFacts
<1>9. ASSUME NEW n, n = NumNewTokens(r), n # 0 PROVE MayCompute(r, n) /\ n <= step.token_budget
  <2>1. /\ NumTokens(r) \in Nat /\ num_computed[r] \in Int /\ placeholders[r] \in Int
        /\ MaxModelLen \in Nat
    BY <1>8, LengthFacts, Facts DEF EngineInv
  <2>2. RequestInv(r)
    BY <1>8 DEF TokenInv, Requests
  <2>3. /\ num_computed[r] <= NumTokens(r) + placeholders[r] /\ num_computed[r] < MaxModelLen
    BY <1>8, <2>2 DEF RequestInv, BoundsAt
  <2>4. PICK a \in Int : a = NumTokens(r) + placeholders[r] - num_computed[r]
    BY <2>1
  <2>5. /\ CutToBudget(a) \in Int /\ CutToBudget(a) <= a /\ CutToBudget(a) <= step.token_budget
        /\ (a >= 0 /\ step.token_budget >= 0 => CutToBudget(a) >= 0)
    BY <1>4, CutFacts
  <2>6. PICK c \in Int : c = CutToBudget(a)
    BY <2>5
  <2>7. n = min(c, MaxModelLen - 1 - num_computed[r])
    BY <1>9, <2>4, <2>6 DEF NumNewTokens
  <2>8. a >= 0 /\ c >= 0 /\ c <= a /\ c <= step.token_budget
    BY <1>2, <1>4, <2>1, <2>3, <2>4, <2>5, <2>6
  <2>9. /\ n \in Int /\ n >= 1 /\ n <= c /\ n <= MaxModelLen - 1 - num_computed[r]
    BY <1>9, <2>1, <2>3, <2>7, <2>8 DEF min
  <2>10. /\ n <= a /\ n <= step.token_budget /\ num_computed[r] + n < MaxModelLen
         /\ num_computed[r] + n <= NumTokens(r) + placeholders[r]
    <3>1. n <= step.token_budget
      BY <1>4, <2>8, <2>9
    <3>2. n <= a
      BY <2>8, <2>9
    <3>3. num_computed[r] + n < MaxModelLen
      BY <2>1, <2>9
    <3>4. num_computed[r] + n <= NumTokens(r) + placeholders[r]
      BY <2>1, <2>4, <2>9, <3>2
    <3> QED
      BY <3>1, <3>2, <3>3, <3>4
  <2>11. ~AsyncScheduling => Pending(r) = 0
    <3>1. Pending(r) \in {0, 1, 2}
      BY DEF Pending, Count
    <3>2. SUFFICES ASSUME ~AsyncScheduling, Pending(r) > 0 PROVE FALSE
      BY <3>1
    <3>3. placeholders[r] = 0 /\ num_computed[r] = NumTokens(r) + Pending(r) - 1
      BY <1>8, <2>2, <3>2 DEF RequestInv, NumberedAt, Live
    <3> QED
      BY <2>1, <2>9, <2>10, <3>1, <3>2, <3>3
  <2> QED
    BY <2>9, <2>10, <2>11 DEF MayCompute
<1>10. Budget'
  <2>1. ASSUME NEW i \in 1 .. Len(step.scheduled)
        PROVE  MayCompute(step.scheduled[i].req, step.scheduled[i].n)'
    <3>1. PICK q, n : q = step.scheduled[i].req /\ n = step.scheduled[i].n
      OBVIOUS
    <3>2. MayCompute(q, n) /\ SameRequest(q)
      BY <1>2, <3>1 DEF TokenInv, Budget, SameRequest, reqVars
    <3>3. MayCompute(q, n)'
      BY <1>6, <3>2, KeepCompute
    <3>4. q = step'.scheduled[i].req /\ n = step'.scheduled[i].n
      BY <1>5, <3>1
    <3> QED
      BY <1>5, <3>3, <3>4 DEF MayCompute
  <2>2. ASSUME pc' = "allocate"
        PROVE  MayCompute(step.cur, step.num_new)' /\ step'.num_new <= step'.token_budget
    <3>1. PICK n : n = NumNewTokens(r)
      OBVIOUS
    <3>2. step'.cur = r /\ step'.num_new = n /\ n # 0
      BY <1>5, <2>2, <3>1
    <3>3. MayCompute(r, n) /\ n <= step.token_budget /\ SameRequest(r)
      BY <1>2, <1>9, <3>1, <3>2 DEF SameRequest, reqVars
    <3>4. MayCompute(r, n)'
      BY <1>6, <3>3, KeepCompute
    <3> QED
      BY <1>5, <3>2, <3>3, <3>4 DEF MayCompute
  <2>3. /\ step'.token_budget >= 0
        /\ step'.token_budget + TotalTokens(step'.scheduled)
             = IF pause' = "PAUSED_ALL" THEN 0 ELSE MaxNumScheduledTokens
    BY <1>2, <1>5 DEF TokenInv, Budget
  <2> QED
    BY <1>5, <2>1, <2>2, <2>3 DEF Budget, TotalTokens, MayCompute
<1> QED
  BY <1>2, <1>5, <1>7, <1>10, KeepTokens

\* The chosen request takes its tokens from the budget.
LEMMA AllocateTokens ==
    ASSUME EngineInv, EngineInv', Orderly, TokenInv, AllocateRunning, UNCHANGED mode
    PROVE  TokenInv'
<1>1. /\ pc = "allocate" /\ pc' = "running" /\ UNCHANGED <<reqVars, batches, out, pause>>
  BY DEF AllocateRunning, envVars
<1>2. PICK r, n, s : r = step.cur /\ n = step.num_new /\ s = step.scheduled
  OBVIOUS
<1>3. /\ step \in Locals /\ step.token_budget \in Int /\ s \in Seq(Slice) /\ n \in Int
      /\ r \in Request /\ OncePerRequest(s) /\ r \notin Scheduled
  <2>1. /\ step \in Locals /\ step.token_budget \in Int /\ s \in Seq(Slice) /\ n \in Int
    BY <1>2, StepFacts DEF EngineInv, Types
  <2>2. r \in ToSet(running) /\ running \in Seq(Request) /\ OncePerRequest(s) /\ r \notin Scheduled
    BY <1>1, <1>2 DEF EngineInv, Loop, Types
  <2> QED
    BY <2>1, <2>2, SeqFacts
<1>4. PICK e : e = [req |-> r, n |-> n]
  OBVIOUS
<1>5. e \in Slice /\ e.req = r /\ e.n = n
  BY <1>3, <1>4 DEF Slice
<1>6. PICK t : t = Append(s, e)
  OBVIOUS
<1>7. /\ t \in Seq(Slice) /\ Len(s) \in Nat /\ Len(t) = Len(s) + 1
      /\ \A i \in 1 .. Len(s) : t[i] = s[i]
      /\ t[Len(t)] = e
  BY <1>3, <1>5, <1>6
<1>8. TotalTokens(t) = TotalTokens(s) + n /\ TotalTokens(s) \in Int
  BY <1>3, <1>5, <1>6, TotalFacts
<1>9. /\ step'.scheduled = t /\ step'.token_budget = step.token_budget - n
      /\ step'.preempted = step.preempted
  <2>1. PICK b, i : b = step.token_budget - n /\ i = step.req_index + 1
    OBVIOUS
  <2>2. step' = [step EXCEPT !.scheduled = t, !.token_budget = b, !.req_index = i]
    BY <1>2, <1>4, <1>6, <2>1 DEF AllocateRunning
  <2> QED
    BY <1>3, <2>1, <2>2 DEF Locals
<1>10. SameFlight
  BY <1>1, FlightSame
<1>11. Draining => Draining'
  BY <1>1, <1>9 DEF Draining
<1>12. Budget'
  <2>1. MayCompute(r, n) /\ n <= step.token_budget
    BY <1>1, <1>2 DEF TokenInv, Budget
  <2>2. ASSUME NEW q, NEW m, MayCompute(q, m) PROVE MayCompute(q, m)'
    BY <1>1, <1>10, <2>2, KeepCompute DEF SameRequest, reqVars
  <2>3. ASSUME NEW i \in 1 .. Len(t) PROVE MayCompute(t[i].req, t[i].n)
    <3>1. CASE i \in 1 .. Len(s)
      BY <1>2, <1>7, <3>1 DEF TokenInv, Budget
    <3>2. CASE i = Len(t)
      BY <1>5, <1>7, <2>1, <3>2
    <3> QED
      BY <1>7, <3>1, <3>2
  <2>4. ASSUME NEW i \in 1 .. Len(step'.scheduled)
        PROVE  MayCompute(step.scheduled[i].req, step.scheduled[i].n)'
    <3>1. PICK q, m : q = t[i].req /\ m = t[i].n
      OBVIOUS
    <3>2. MayCompute(q, m)'
      BY <1>9, <2>2, <2>3, <3>1
    <3> QED
      BY <1>9, <3>1, <3>2 DEF MayCompute
  <2>5. step.token_budget + TotalTokens(s) = IF pause = "PAUSED_ALL" THEN 0 ELSE MaxNumScheduledTokens
    BY <1>1, <1>2 DEF TokenInv, Budget
  <2>6. /\ step'.token_budget >= 0
        /\ step'.token_budget + TotalTokens(t) = IF pause = "PAUSED_ALL" THEN 0 ELSE MaxNumScheduledTokens
    <3>1. step'.token_budget + TotalTokens(t) = step.token_budget + TotalTokens(s)
      BY <1>3, <1>8, <1>9
    <3> QED
      BY <1>3, <1>9, <2>1, <2>5, <3>1
  <2>7. /\ step'.token_budget >= 0
        /\ step'.token_budget + TotalTokens(step'.scheduled)
             = IF pause' = "PAUSED_ALL" THEN 0 ELSE MaxNumScheduledTokens
    BY <1>1, <1>9, <2>6
  <2> QED
    BY <1>1, <2>4, <2>7 DEF Budget, TotalTokens
<1> QED
  BY <1>1, <1>11, <1>12, KeepTokens

\* The victim's tokens in flight stay its own, and its share of the budget returns.
LEMMA PreemptTokens ==
    ASSUME EngineInv, EngineInv', Orderly, TokenInv, PreemptRunning, UNCHANGED mode
    PROVE  TokenInv'
<1>1. PICK v : v = Victim
  OBVIOUS
<1>2. /\ pc = "allocate" /\ status' = [status EXCEPT ![v] = "PREEMPTED"]
      /\ num_computed' = [num_computed EXCEPT ![v] = 0] /\ step' = Unschedule(v)
      /\ pc' = IF v = step.cur THEN "submit" ELSE pc
      /\ UNCHANGED <<output, placeholders, discard, batches, out, pause>>
  BY <1>1 DEF PreemptRunning, Victim, envVars
<1>3. v \in Request /\ status[v] = "RUNNING"
  BY <1>1, <1>2, VictimFacts DEF EngineInv, Queues
<1>4. /\ status \in [Request -> Status] /\ num_computed \in [Request -> Int] /\ Types
      /\ step.scheduled \in Seq(Slice) /\ OncePerRequest(step.scheduled) /\ step.token_budget \in Int
  BY StepFacts DEF EngineInv, Types, Loop
<1>5. /\ step'.cur = step.cur /\ step'.num_new = step.num_new /\ step'.preempted = TRUE
      /\ step'.token_budget = step.token_budget + ScheduledTokens(v)
      /\ step'.scheduled = Rest(step.scheduled, v)
  BY <1>2, <1>4, UnscheduleFacts
<1>6. PICK w : w = Rest(step.scheduled, v)
  OBVIOUS
<1>7. /\ \A l \in 1 .. Len(w) :
            w[l].req # v /\ \E i \in 1 .. Len(step.scheduled) : w[l] = step.scheduled[i]
      /\ TotalTokens(w) = TotalTokens(step.scheduled) - ScheduledTokens(v)
  BY <1>4, <1>6, LeftOver
<1>8. SameFlight
  BY <1>2, FlightSame
<1>9. Draining'
  BY <1>2, <1>5 DEF Draining
<1>10. ASSUME NEW q \in Request, q # v PROVE RequestInv(q)' /\ SettledAt(q)'
  <2>1. SameRequest(q) /\ RequestInv(q) /\ SettledAt(q)
    BY <1>2, <1>4, <1>10 DEF SameRequest, TokenInv, Requests
  <2> QED
    BY <1>8, <1>9, <2>1, KeepRequest, KeepSettled DEF SameRequest
<1>11. RequestInv(v)' /\ SettledAt(v)'
  <2>1. /\ RequestInv(v) /\ status'[v] = "PREEMPTED" /\ num_computed'[v] = 0
        /\ output'[v] = output[v] /\ placeholders'[v] = placeholders[v] /\ discard'[v] = discard[v]
    BY <1>2, <1>3, <1>4 DEF TokenInv, Requests
  <2>2. /\ NumTokens(v)' = NumTokens(v) /\ BatchQueueSize' = BatchQueueSize
        /\ AsyncScheduling' = AsyncScheduling /\ NumTokens(v) \in Nat /\ placeholders[v] \in Int
    BY <1>3, <1>4, <2>1, LengthFacts DEF NumTokens, BatchQueueSize, AsyncScheduling
  <2>3. BoundsAt(v)'
    BY <1>3, <2>1, <2>2 DEF RequestInv, BoundsAt
  <2>4. OrderAt(v)'
    BY <2>1 DEF RequestInv, OrderAt
  <2>5. /\ HasToken(First, v)' <=> HasToken(First, v)
        /\ HasToken(Second, v)' <=> HasToken(Second, v)
        /\ Count(First, v)' = Count(First, v) /\ Pending(v)' = Pending(v)
    BY <1>8 DEF SameFlight, HasToken, Count, Pending
  <2>6. NumberedAt(v)'
    <3>1. NumberedAt(v) /\ Live(v)
      BY <1>3, <2>1 DEF RequestInv, Live
    <3>2. TokenAt(First, v, NumTokens(v) + 1) => TokenAt(First, v, NumTokens(v) + 1)'
      BY <1>8, <2>2 DEF TokenAt, SameFlight
    <3>3. TokenAt(Second, v, NumTokens(v) + 1 + Count(First, v)) => TokenAt(Second, v, NumTokens(v) + 1 + Count(First, v))'
      BY <1>8, <2>2, <2>5 DEF TokenAt, SameFlight
    <3> QED
      BY <2>1, <2>2, <2>5, <3>1, <3>2, <3>3 DEF NumberedAt
  <2>7. SettledAt(v)'
    <3>1. ~HasToken(Second, v)
      BY <1>2, OneInFlight
    <3> QED
      BY <1>9, <2>5, <3>1 DEF SettledAt
  <2> QED
    BY <2>3, <2>4, <2>6, <2>7 DEF RequestInv
<1>12. Entries'
  BY <1>2 DEF TokenInv, Entries
<1>13. Budget'
  <2>1. ASSUME NEW q \in Request, NEW m, MayCompute(q, m), q # v PROVE MayCompute(q, m)'
    <3>1. SameRequest(q)
      BY <1>2, <1>4, <2>1 DEF SameRequest
    <3> QED
      BY <1>8, <2>1, <3>1, KeepCompute
  <2>2. \A i \in 1 .. Len(step.scheduled) :
           /\ MayCompute(step.scheduled[i].req, step.scheduled[i].n)
           /\ step.scheduled[i].req \in Request /\ step.scheduled[i].n \in Int /\ step.scheduled[i].n >= 1
    BY <1>4, EntryFacts DEF TokenInv, Budget, MayCompute
  <2>3. ASSUME NEW l \in 1 .. Len(step'.scheduled)
        PROVE  MayCompute(step.scheduled[l].req, step.scheduled[l].n)'
    <3>1. PICK q, m : q = w[l].req /\ m = w[l].n
      OBVIOUS
    <3>2. q \in Request /\ MayCompute(q, m) /\ q # v
      BY <1>5, <1>6, <1>7, <2>2, <3>1
    <3>3. MayCompute(q, m)'
      BY <2>1, <3>2
    <3> QED
      BY <1>5, <1>6, <3>1, <3>3 DEF MayCompute
  <2>4. ScheduledTokens(v) \in Int /\ ScheduledTokens(v) >= 0
    <3>1. /\ \A r : r \in Scheduled <=> \E i \in 1 .. Len(step.scheduled) : step.scheduled[i].req = r
          /\ \A i \in 1 .. Len(step.scheduled) :
                 ScheduledTokens(step.scheduled[i].req) = step.scheduled[i].n
          /\ \A r : r \notin Scheduled => ScheduledTokens(r) = 0
      BY <1>4, ScheduledFacts
    <3>2. CASE v \in Scheduled
      <4>1. PICK i \in 1 .. Len(step.scheduled) : step.scheduled[i].req = v
        BY <3>1, <3>2
      <4>2. ScheduledTokens(v) = step.scheduled[i].n
        BY <3>1, <4>1
      <4>3. step.scheduled[i].n \in Int /\ step.scheduled[i].n >= 1
        BY <2>2
      <4> QED
        BY <4>2, <4>3
    <3>3. CASE v \notin Scheduled
      BY <3>1, <3>3
    <3> QED
      BY <3>2, <3>3
  <2>5. /\ step.token_budget >= 0 /\ step.num_new \in Int
        /\ step.token_budget + TotalTokens(step.scheduled)
             = IF pause = "PAUSED_ALL" THEN 0 ELSE MaxNumScheduledTokens
        /\ TotalTokens(step.scheduled) \in Int
        /\ MayCompute(step.cur, step.num_new) /\ step.num_new <= step.token_budget
    BY <1>2, <1>4, StepFacts, TotalFacts DEF TokenInv, Budget
  <2>6. step'.token_budget >= 0 /\ step'.num_new <= step'.token_budget
    BY <1>4, <1>5, <2>4, <2>5
  <2>7. step'.token_budget + TotalTokens(step'.scheduled)
           = IF pause' = "PAUSED_ALL" THEN 0 ELSE MaxNumScheduledTokens
    <3>1. step'.token_budget + TotalTokens(w) = step.token_budget + TotalTokens(step.scheduled)
      BY <1>4, <1>5, <1>7, <2>4, <2>5
    <3> QED
      BY <1>2, <1>5, <1>6, <2>5, <3>1
  <2>8. ASSUME pc' = "allocate" PROVE MayCompute(step.cur, step.num_new)'
    <3>1. PICK q, m : q = step.cur /\ m = step.num_new
      OBVIOUS
    <3>2. q \in Request /\ q # v /\ MayCompute(q, m)
      <4>1. step.cur \in ToSet(running) /\ running \in Seq(Request)
        BY <1>2 DEF EngineInv, Loop, Types
      <4> QED
        BY <1>2, <2>5, <2>8, <3>1, <4>1, SeqFacts
    <3>3. MayCompute(q, m)'
      BY <2>1, <3>2
    <3> QED
      BY <1>5, <3>1, <3>3 DEF MayCompute
  <2> QED
    BY <2>3, <2>6, <2>7, <2>8 DEF Budget, TotalTokens
<1> QED
  BY <1>10, <1>11, <1>12, <1>13 DEF TokenInv, Requests

\* A waiting request is admitted with nothing in flight.
LEMMA AdmitTokens ==
    ASSUME EngineInv, EngineInv', Orderly, TokenInv, AdmitWaiting, UNCHANGED mode
    PROVE  TokenInv'
<1>1. PICK r, hit, n :
              /\ r \in Request /\ r \in ToSet(waiting)
              /\ Len(hit) \in Nat /\ Len(hit) * BlockSize \in Nat
              /\ Len(hit) * BlockSize < NumTokens(r)
              /\ n \in Int /\ n = CutToBudget(NumTokens(r) - Len(hit) * BlockSize)
              /\ num_computed' = [num_computed EXCEPT ![r] = Len(hit) * BlockSize]
              /\ status' = [status EXCEPT ![r] = "RUNNING"]
              /\ step' = [step EXCEPT !.scheduled = Append(step.scheduled, [req |-> r, n |-> n]),
                                      !.resumed = step.resumed \cup {r},
                                      !.token_budget = step.token_budget - n]
  BY AdmitFacts
<1>2. r \in Request
  BY <1>1
<1>3. /\ pc = "waiting" /\ pc' = pc /\ step.token_budget > 0
      /\ UNCHANGED <<output, placeholders, discard, batches, out, pause>>
  BY DEF AdmitWaiting, WaitingLoopGoesOn, envVars
<1>4. /\ status \in [Request -> Status] /\ num_computed \in [Request -> Int] /\ Types
      /\ status[r] \in {"WAITING", "PREEMPTED"}
      /\ step.scheduled \in Seq(Slice) /\ OncePerRequest(step.scheduled) /\ step.token_budget \in Int
      /\ step \in Locals
  BY <1>1, StepFacts DEF EngineInv, Types, Loop, Queues
<1>5. PICK c \in Nat : c = Len(hit) * BlockSize
  BY <1>1
<1>6. /\ NumTokens(r) \in Nat /\ placeholders[r] \in Int /\ MaxModelLen \in Nat /\ Len(Text[r]) \in Nat
  BY <1>2, <1>4, LengthFacts, Facts
<1>7. n >= 1 /\ n <= NumTokens(r) - c /\ n <= step.token_budget /\ c < NumTokens(r)
  <2>1. c < NumTokens(r)
    BY <1>1, <1>5
  <2>2. PICK a \in Int : a = NumTokens(r) - c /\ a >= 1
    BY <1>5, <1>6, <2>1
  <2>3. n = CutToBudget(a)
    BY <1>1, <1>5, <2>2
  <2>4. step.token_budget \in Int /\ step.token_budget >= 1
    BY <1>3, <1>4
  <2>5. n <= a /\ n <= step.token_budget /\ n >= 1
    BY <2>2, <2>3, <2>4, CutFacts
  <2> QED
    BY <2>1, <2>2, <2>5
<1>8. SameFlight
  BY <1>3, FlightSame
<1>9. PICK s, t, e : s = step.scheduled /\ e = [req |-> r, n |-> n] /\ t = Append(s, e)
  OBVIOUS
<1>10. e \in Slice /\ e.req = r /\ e.n = n
  BY <1>1, <1>9 DEF Slice
<1>11. /\ t \in Seq(Slice) /\ Len(s) \in Nat /\ Len(t) = Len(s) + 1
       /\ \A i \in 1 .. Len(s) : t[i] = s[i]
       /\ t[Len(t)] = e
  BY <1>4, <1>9, <1>10
<1>12. TotalTokens(t) = TotalTokens(s) + n /\ TotalTokens(s) \in Int
  BY <1>4, <1>9, <1>10, TotalFacts
<1>13. /\ step'.scheduled = t /\ step'.token_budget = step.token_budget - n
       /\ step'.preempted = step.preempted
  <2>1. PICK b, z : b = step.token_budget - n /\ z = step.resumed \cup {r}
    OBVIOUS
  <2>2. step' = [step EXCEPT !.scheduled = t, !.resumed = z, !.token_budget = b]
    BY <1>1, <1>9, <2>1
  <2> QED
    BY <1>4, <2>1, <2>2 DEF Locals
<1>14. Draining => Draining'
  BY <1>3 DEF Draining
<1>15. ASSUME NEW q \in Request, q # r PROVE RequestInv(q)' /\ SettledAt(q)' /\ SameRequest(q)
  <2>1. SameRequest(q) /\ RequestInv(q) /\ SettledAt(q)
    BY <1>1, <1>3, <1>4, <1>15 DEF SameRequest, TokenInv, Requests
  <2> QED
    BY <1>8, <1>14, <2>1, KeepRequest, KeepSettled DEF SameRequest
<1>16. ~HasToken(First, r) /\ ~HasToken(Second, r)
  <2>1. SettledAt(r) /\ ~Draining
    BY <1>2, <1>3 DEF TokenInv, Requests, Draining
  <2> QED
    BY <1>4, <2>1 DEF SettledAt
<1>17. /\ RequestInv(r) /\ status'[r] = "RUNNING" /\ num_computed'[r] = c
       /\ output'[r] = output[r] /\ placeholders'[r] = placeholders[r] /\ discard'[r] = discard[r]
  BY <1>1, <1>3, <1>4, <1>5 DEF TokenInv, Requests
<1>18. /\ NumTokens(r)' = NumTokens(r) /\ BatchQueueSize' = BatchQueueSize
       /\ AsyncScheduling' = AsyncScheduling
  BY <1>17 DEF NumTokens, BatchQueueSize, AsyncScheduling
<1>19. /\ ~HasToken(First, r)' /\ ~HasToken(Second, r)' /\ Pending(r)' = 0
  <2>1. ~HasToken(First, r)' /\ ~HasToken(Second, r)'
    BY <1>8, <1>16 DEF SameFlight, HasToken
  <2> QED
    BY <2>1 DEF Pending, Count
<1>20. placeholders[r] = 0 /\ NumTokens(r) < MaxModelLen
  <2>1. Pending(r) = 0
    BY <1>16 DEF Pending, Count
  <2> QED
    BY <1>4, <1>17, <2>1 DEF RequestInv, NumberedAt, BoundsAt, Live
<1>21. RequestInv(r)' /\ SettledAt(r)'
  <2>1. BoundsAt(r)'
    BY <1>4, <1>6, <1>7, <1>17, <1>18, <1>20 DEF RequestInv, BoundsAt
  <2>2. OrderAt(r)'
    BY <1>17 DEF RequestInv, OrderAt
  <2>3. TokenAt(First, r, NumTokens(r) + 1)' /\ TokenAt(Second, r, NumTokens(r) + 1 + Count(First, r))'
    BY <1>19 DEF TokenAt, HasToken
  <2>4. NumberedAt(r)'
    BY <1>17, <1>19, <1>20, <2>3 DEF NumberedAt
  <2>5. SettledAt(r)'
    BY <1>17 DEF SettledAt
  <2> QED
    BY <2>1, <2>2, <2>4, <2>5 DEF RequestInv
<1>22. Entries'
  BY <1>3 DEF TokenInv, Entries
<1>23. Budget'
  <2>1. MayCompute(r, n)'
    <3>1. c + n <= NumTokens(r) + 0 /\ c + n < MaxModelLen
      BY <1>1, <1>5, <1>6, <1>7, <1>20
    <3> QED
      BY <1>7, <1>17, <1>18, <1>19, <1>20, <3>1 DEF MayCompute
  <2>2. ASSUME NEW i \in 1 .. Len(s) PROVE MayCompute(s[i].req, s[i].n)'
    <3>1. PICK q, m : q = s[i].req /\ m = s[i].n
      OBVIOUS
    <3>2. MayCompute(q, m) /\ q \in ToSet(running) /\ q \in Request
      <4>1. MayCompute(q, m) /\ q \in ToSet(running)
        BY <1>9, <3>1 DEF TokenInv, Budget, EngineInv, Loop
      <4> QED
        BY <1>4, <1>9, <3>1, <4>1, EntryFacts
    <3>3. q # r
      BY <1>4, <3>2 DEF EngineInv, Queues
    <3>4. MayCompute(q, m)'
      BY <1>8, <1>15, <3>2, <3>3, KeepCompute
    <3> QED
      BY <3>1, <3>4
  <2>3. ASSUME NEW i \in 1 .. Len(step'.scheduled)
        PROVE  MayCompute(step.scheduled[i].req, step.scheduled[i].n)'
    <3>1. PICK q, m : q = t[i].req /\ m = t[i].n
      OBVIOUS
    <3>2. MayCompute(q, m)'
      <4>1. CASE i \in 1 .. Len(s)
        <5>1. q = s[i].req /\ m = s[i].n
          BY <1>11, <3>1, <4>1
        <5> QED
          BY <2>2, <4>1, <5>1
      <4>2. CASE i = Len(t)
        <5>1. q = r /\ m = n
          BY <1>10, <1>11, <3>1, <4>2
        <5> QED
          BY <2>1, <5>1
      <4> QED
        BY <1>11, <1>13, <4>1, <4>2
    <3> QED
      BY <1>13, <3>1, <3>2 DEF MayCompute
  <2>4. step.token_budget + TotalTokens(s) = IF pause = "PAUSED_ALL" THEN 0 ELSE MaxNumScheduledTokens
    BY <1>3, <1>9 DEF TokenInv, Budget
  <2>5. step'.token_budget >= 0
    BY <1>1, <1>4, <1>7, <1>13
  <2>6. step'.token_budget + TotalTokens(step'.scheduled)
           = IF pause' = "PAUSED_ALL" THEN 0 ELSE MaxNumScheduledTokens
    <3>1. step'.token_budget + TotalTokens(t) = step.token_budget + TotalTokens(s)
      BY <1>1, <1>4, <1>12, <1>13
    <3> QED
      BY <1>3, <1>13, <2>4, <3>1
  <2> QED
    BY <1>3, <2>3, <2>5, <2>6 DEF Budget, TotalTokens
<1> QED
  BY <1>15, <1>21, <1>22, <1>23 DEF TokenInv, Requests

\* What goes into flight for r.
LEMMA NewTokens ==
    ASSUME EngineInv, Orderly, TokenInv, pc = "submit", NEW r \in Request
    PROVE  /\ r \notin Scheduled => ~HasToken(NewBatch, r) /\ Computed(r) = num_computed[r]
           /\ r \in Scheduled =>
                 /\ status[r] = "RUNNING" /\ \E n \in Int : MayCompute(r, n) /\ Computed(r) = num_computed[r] + n
                 /\ IsChunk(r) => ~HasToken(NewBatch, r)
                 /\ ~IsChunk(r) => /\ Computed(r) = NumTokens(r) + placeholders[r]
                                   /\ HasToken(NewBatch, r) /\ TokenAt(NewBatch, r, Computed(r) + 1)
<1>1. Types /\ OncePerRequest(step.scheduled) /\ step.scheduled \in Seq(Slice)
  BY StepFacts DEF EngineInv, Loop
<1>2. /\ Len(NewBatch) = Len(step.scheduled)
      /\ \A i \in 1 .. Len(NewBatch) :
            /\ NewBatch[i].req = step.scheduled[i].req
            /\ NewBatch[i].pos = IF IsChunk(NewBatch[i].req) THEN 0 ELSE Computed(NewBatch[i].req) + 1
  BY <1>1, BatchFacts
<1>3. /\ \A q : q \in Scheduled <=> \E i \in 1 .. Len(step.scheduled) : step.scheduled[i].req = q
      /\ \A i \in 1 .. Len(step.scheduled) :
             ScheduledTokens(step.scheduled[i].req) = step.scheduled[i].n
      /\ \A q : q \notin Scheduled => ScheduledTokens(q) = 0
  BY <1>1, ScheduledFacts
<1>4. num_computed[r] \in Int /\ NumTokens(r) \in Nat /\ placeholders[r] \in Int
  BY <1>1, LengthFacts
<1>5. ASSUME r \notin Scheduled PROVE ~HasToken(NewBatch, r) /\ Computed(r) = num_computed[r]
  <2>1. \A i \in 1 .. Len(NewBatch) : NewBatch[i].req # r
    BY <1>2, <1>3, <1>5
  <2>2. ScheduledTokens(r) = 0
    BY <1>3, <1>5
  <2> QED
    BY <1>4, <2>1, <2>2 DEF HasToken, Computed
<1>6. ASSUME r \in Scheduled
      PROVE  /\ status[r] = "RUNNING" /\ \E n \in Int : MayCompute(r, n) /\ Computed(r) = num_computed[r] + n
             /\ IsChunk(r) => ~HasToken(NewBatch, r)
             /\ ~IsChunk(r) => /\ Computed(r) = NumTokens(r) + placeholders[r]
                               /\ HasToken(NewBatch, r) /\ TokenAt(NewBatch, r, Computed(r) + 1)
  <2>1. PICK i \in 1 .. Len(step.scheduled) : step.scheduled[i].req = r
    BY <1>3, <1>6
  <2>2. PICK n : n = step.scheduled[i].n
    OBVIOUS
  <2>3. n \in Int /\ MayCompute(r, n) /\ r \in ToSet(running)
    <3>1. n \in Int
      BY <1>1, <2>2, EntryFacts
    <3>2. MayCompute(r, n)
      BY <2>1, <2>2 DEF TokenInv, Budget
    <3>3. r \in ToSet(running)
      BY <2>1 DEF EngineInv, Loop
    <3> QED
      BY <3>1, <3>2, <3>3
  <2>4. status[r] = "RUNNING"
    BY <2>3 DEF EngineInv, Queues
  <2>5. Computed(r) = num_computed[r] + n
    BY <1>3, <2>1, <2>2 DEF Computed
  <2>6. ASSUME IsChunk(r) PROVE ~HasToken(NewBatch, r)
    <3>1. \A k \in 1 .. Len(NewBatch) : NewBatch[k].req = r => NewBatch[k].pos = 0
      BY <1>2, <2>6
    <3> QED
      BY <3>1 DEF HasToken
  <2>7. ASSUME ~IsChunk(r)
        PROVE  /\ Computed(r) = NumTokens(r) + placeholders[r]
               /\ HasToken(NewBatch, r) /\ TokenAt(NewBatch, r, Computed(r) + 1)
    <3>1. Computed(r) = NumTokens(r) + placeholders[r] /\ Computed(r) \in Int /\ Computed(r) >= 1
      <4>1. n >= 1 /\ num_computed[r] + n <= NumTokens(r) + placeholders[r] /\ num_computed[r] >= 0
        <5>1. RequestInv(r)
          BY DEF TokenInv, Requests
        <5> QED
          BY <2>3, <5>1 DEF MayCompute, RequestInv, BoundsAt
      <4>2. ~(num_computed[r] + n < NumTokens(r) + placeholders[r])
        BY <2>5, <2>7 DEF IsChunk
      <4> QED
        BY <1>4, <2>3, <2>5, <4>1, <4>2
    <3>2. \A k \in 1 .. Len(NewBatch) : NewBatch[k].req = r => NewBatch[k].pos = Computed(r) + 1
      BY <1>2, <2>7
    <3>3. i \in 1 .. Len(NewBatch) /\ NewBatch[i].req = r
      BY <1>2, <2>1
    <3>4. NewBatch[i].pos # 0
      <4>1. NewBatch[i].pos = Computed(r) + 1
        BY <3>2, <3>3
      <4> QED
        BY <3>1, <4>1
    <3> QED
      BY <3>1, <3>2, <3>3, <3>4 DEF HasToken, TokenAt
  <2> QED
    BY <2>3, <2>4, <2>5, <2>6, <2>7
<1> QED
  BY <1>5, <1>6

\* Where the new batch goes.
LEMMA NewFlight ==
    ASSUME EngineInv, Orderly, pc = "submit", batches' = Append(batches, NewBatch), out' = out,
           pc' \in {"popped", "idle"}
    PROVE  \/ /\ Len(batches) = 0 /\ First = <<>> /\ Second = <<>> /\ First' = NewBatch /\ Second' = <<>>
           \/ /\ Len(batches) = 1 /\ Second = <<>> /\ First' = First /\ Second' = NewBatch
              /\ BatchQueueSize = 2
<1>1. Second = <<>> /\ Len(batches) \in {0, 1}
  BY OneInFlight
<1>2. batches \in Seq(Seq(Token)) /\ NewBatch \in Seq(Token)
  BY StepFacts, BatchFacts DEF EngineInv, Types, Loop
<1>3. PICK b : b = batches'
  OBVIOUS
<1>4. /\ Len(b) = Len(batches) + 1 /\ b[Len(b)] = NewBatch
      /\ \A i \in 1 .. Len(batches) : b[i] = batches[i]
  BY <1>2, <1>3
<1>5. CASE Len(batches) = 0
  <2>1. Len(b) = 1 /\ b[1] = NewBatch
    BY <1>4, <1>5
  <2> QED
    BY <1>1, <1>3, <1>5, <2>1 DEF First, Second
<1>6. CASE Len(batches) = 1
  <2>1. Len(b) = 2 /\ b[2] = NewBatch /\ b[1] = batches[1]
    BY <1>4, <1>6
  <2>2. Len(batches) < BatchQueueSize /\ BatchQueueSize \in Nat /\ BatchQueueSize <= 2
    BY ModeFacts DEF EngineInv, Phase, Types, BatchQueueSize, Orderly
  <2>3. BatchQueueSize = 2
    BY <1>6, <2>2
  <2> QED
    BY <1>1, <1>3, <1>6, <2>1, <2>3 DEF First, Second
<1> QED
  BY <1>1, <1>5, <1>6

\* Every scheduled request that reaches its last token has one token more in flight.
LEMMA SubmitTokens ==
    ASSUME EngineInv, EngineInv', Orderly, TokenInv, Submit, UNCHANGED mode
    PROVE  TokenInv'
<1>1. Types /\ OncePerRequest(step.scheduled) /\ step.scheduled \in Seq(Slice)
  BY StepFacts DEF EngineInv, Loop
<1>2. /\ batches' = Append(batches, NewBatch)
      /\ num_computed' = [r \in Request |-> Computed(r)]
      /\ placeholders' = [r \in Request |-> IF r \in Scheduled /\ ~IsChunk(r)
                                            THEN PlaceholdersAfter(r) ELSE placeholders[r]]
      /\ \/ pc' = "popped"
         \/ NewBatch # <<>> /\ Len(batches) + 1 < BatchQueueSize /\ pc' = "idle"
  BY <1>1, SubmitFacts
<1>3. pc = "submit" /\ step' = IdleStep /\ UNCHANGED <<status, output, discard, pause, out>>
  BY DEF Submit
<1>4. \/ /\ Len(batches) = 0 /\ First = <<>> /\ Second = <<>> /\ First' = NewBatch /\ Second' = <<>>
      \/ /\ Len(batches) = 1 /\ Second = <<>> /\ First' = First /\ Second' = NewBatch
         /\ BatchQueueSize = 2
  BY <1>2, <1>3, NewFlight
<1>5. BatchQueueSize \in Nat \ {0} /\ BatchQueueSize' = BatchQueueSize /\ AsyncScheduling' = AsyncScheduling
  BY ModeFacts DEF EngineInv, Types, BatchQueueSize, AsyncScheduling
<1>6. ASSUME NEW r \in Request PROVE RequestInv(r)' /\ SettledAt(r)'
  <2>1. /\ status'[r] = status[r] /\ output'[r] = output[r] /\ discard'[r] = discard[r]
        /\ num_computed'[r] = Computed(r)
        /\ placeholders'[r] = IF r \in Scheduled /\ ~IsChunk(r) THEN PlaceholdersAfter(r) ELSE placeholders[r]
        /\ RequestInv(r) /\ SettledAt(r)
    BY <1>2, <1>3 DEF TokenInv, Requests
  <2>2. /\ NumTokens(r)' = NumTokens(r) /\ NumTokens(r) \in Nat /\ num_computed[r] \in Int
        /\ placeholders[r] \in Int /\ (Live(r)' <=> Live(r))
    BY <1>1, <2>1, LengthFacts DEF NumTokens, Live
  <2>3. OrderAt(r)'
    BY <2>1 DEF RequestInv, OrderAt
  <2>4. ~HasToken(Second, r) /\ Count(Second, r) = 0
    BY <1>4 DEF HasToken, Count
  <2>5. CASE r \notin Scheduled \/ IsChunk(r)
    <3>1. ~HasToken(NewBatch, r) /\ placeholders'[r] = placeholders[r]
      BY <1>3, <2>1, <2>5, NewTokens
    <3>2. (HasToken(First, r)' <=> HasToken(First, r)) /\ ~HasToken(Second, r)'
      BY <1>4, <3>1 DEF HasToken
    <3>3. Count(First, r)' = Count(First, r) /\ Pending(r)' = Pending(r)
      BY <2>4, <3>2 DEF Pending, Count
    <3>4. /\ num_computed[r] <= num_computed'[r] /\ num_computed'[r] <= NumTokens(r) + placeholders[r]
          /\ status[r] = "RUNNING" => num_computed'[r] < MaxModelLen
          /\ Pending(r) > 0 => num_computed'[r] = num_computed[r] \/ status[r] # "RUNNING"
      <4>1. CASE r \notin Scheduled
        <5>1. Computed(r) = num_computed[r]
          BY <1>3, <4>1, NewTokens
        <5> QED
          BY <2>1, <2>2, <5>1 DEF RequestInv, BoundsAt
      <4>2. CASE r \in Scheduled
        <5>1. IsChunk(r) /\ status[r] = "RUNNING"
          BY <1>3, <2>5, <4>2, NewTokens
        <5>2. PICK n \in Int : MayCompute(r, n) /\ Computed(r) = num_computed[r] + n
          BY <1>3, <4>2, NewTokens
        <5>3. /\ n >= 1 /\ num_computed[r] + n <= NumTokens(r) + placeholders[r]
              /\ num_computed[r] + n < MaxModelLen /\ (~AsyncScheduling => Pending(r) = 0)
              /\ num_computed[r] + n < NumTokens(r) + placeholders[r]
          BY <5>1, <5>2 DEF MayCompute, IsChunk
        <5>4. Pending(r) = 0
          <6>1. Pending(r) \in {0, 1, 2}
            BY DEF Pending, Count
          <6>2. SUFFICES ASSUME Pending(r) > 0, AsyncScheduling PROVE FALSE
            BY <5>3, <6>1
          <6>3. placeholders[r] = Pending(r) /\ num_computed[r] = NumTokens(r) + Pending(r) - 1
            BY <2>1, <5>1, <6>2 DEF RequestInv, NumberedAt, Live
          <6> QED
            BY <2>2, <5>3, <6>1, <6>3
        <5> QED
          BY <2>1, <2>2, <5>2, <5>3, <5>4
      <4> QED
        BY <4>1, <4>2
    <3>5. BoundsAt(r)'
      <4>1. BoundsAt(r)
        BY <2>1 DEF RequestInv
      <4>2. 0 <= num_computed[r] /\ num_computed'[r] \in Int
        <5>1. 0 <= num_computed[r]
          BY <4>1 DEF BoundsAt
        <5>2. num_computed' \in [Request -> Int]
          BY DEF EngineInv, Types
        <5> QED
          BY <5>1, <5>2
      <4>3. 0 <= num_computed'[r] /\ num_computed'[r] <= NumTokens(r) + placeholders[r]
        BY <2>2, <3>4, <4>2
      <4>4. status[r] = "RUNNING" => num_computed'[r] < MaxModelLen
        BY <3>4
      <4> QED
        BY <1>5, <2>1, <2>2, <3>1, <4>1, <4>3, <4>4 DEF BoundsAt
    <3>6. NumberedAt(r)'
      <4>1. NumberedAt(r)
        BY <2>1 DEF RequestInv
      <4>2. TokenAt(First, r, NumTokens(r) + 1) => TokenAt(First, r, NumTokens(r) + 1)'
        <5>1. CASE First' = First
          BY <2>2, <5>1 DEF TokenAt
        <5>2. CASE First' = NewBatch
          BY <3>1, <5>2 DEF TokenAt, HasToken
        <5> QED
          BY <1>4, <5>1, <5>2
      <4>3. TokenAt(Second, r, NumTokens(r) + 1 + Count(First, r))'
        BY <3>2 DEF TokenAt, HasToken
      <4>4. status'[r] = "RUNNING" /\ Pending(r)' > 0 =>
                num_computed'[r] = NumTokens(r)' + Pending(r)' - 1
        BY <2>1, <2>2, <3>3, <3>4, <4>1 DEF NumberedAt
      <4> QED
        BY <1>5, <2>1, <2>2, <2>4, <3>1, <3>2, <3>3, <4>1, <4>2, <4>3, <4>4 DEF NumberedAt
    <3>7. SettledAt(r)'
      <4>1. ASSUME status[r] \in {"WAITING", "PREEMPTED"}, HasToken(First, r)' PROVE Draining'
        <5>1. Len(batches) = 1 /\ BatchQueueSize = 2
          BY <1>4, <3>1, <4>1 DEF HasToken
        <5>2. pc' = "popped"
          BY <1>2, <5>1
        <5> QED
          BY <5>2 DEF Draining
      <4> QED
        BY <2>1, <3>2, <4>1 DEF SettledAt
    <3> QED
      BY <2>3, <3>5, <3>6, <3>7 DEF RequestInv
  <2>6. CASE r \in Scheduled /\ ~IsChunk(r)
    <3>1. /\ status[r] = "RUNNING" /\ Computed(r) = NumTokens(r) + placeholders[r]
          /\ HasToken(NewBatch, r) /\ TokenAt(NewBatch, r, Computed(r) + 1)
      BY <1>3, <2>6, NewTokens
    <3>2. PICK n \in Int : MayCompute(r, n) /\ Computed(r) = num_computed[r] + n
      BY <1>3, <2>6, NewTokens
    <3>3. Computed(r) < MaxModelLen /\ (~AsyncScheduling => Pending(r) = 0)
      BY <3>2 DEF MayCompute
    <3>4. NumberedAt(r) /\ Live(r)
      BY <2>1, <3>1 DEF RequestInv, Live
    <3>5. Pending(r) = Count(First, r) /\ Count(First, r) \in {0, 1}
      BY <2>4 DEF Pending, Count
    <3>6. placeholders[r] = Count(First, r) /\ (~AsyncScheduling => Count(First, r) = 0)
      BY <3>3, <3>4, <3>5 DEF NumberedAt
    <3>7. placeholders'[r] = IF AsyncScheduling THEN placeholders[r] + 1 ELSE placeholders[r]
      BY <2>1, <2>6 DEF PlaceholdersAfter
    <3>8. /\ Pending(r)' = Pending(r) + 1
          /\ \/ First = <<>> /\ Count(First, r) = 0 /\ Count(First, r)' = 1 /\ ~HasToken(Second, r)'
                /\ First' = NewBatch
             \/ Count(First, r)' = Count(First, r) /\ First' = First /\ Second' = NewBatch /\ BatchQueueSize = 2
      <4>1. CASE First = <<>> /\ First' = NewBatch /\ Second' = <<>>
        <5>1. ~HasToken(First, r) /\ HasToken(First, r)' /\ ~HasToken(Second, r)'
          BY <3>1, <4>1 DEF HasToken
        <5> QED
          BY <2>4, <4>1, <5>1 DEF Count, Pending
      <4>2. CASE First' = First /\ Second' = NewBatch /\ BatchQueueSize = 2
        <5>1. (HasToken(First, r)' <=> HasToken(First, r)) /\ HasToken(Second, r)'
          BY <3>1, <4>2 DEF HasToken
        <5> QED
          BY <2>4, <4>2, <5>1 DEF Count, Pending
      <4> QED
        BY <1>4, <4>1, <4>2
    <3>9. BoundsAt(r)'
      <4>1. BoundsAt(r)
        BY <2>1 DEF RequestInv
      <4>2. placeholders'[r] <= BatchQueueSize
        BY <1>5, <3>5, <3>6, <3>7, <3>8
      <4>3. 0 <= num_computed'[r] /\ num_computed'[r] <= NumTokens(r) + placeholders'[r]
        BY <2>1, <2>2, <3>1, <3>5, <3>6, <3>7
      <4> QED
        BY <1>5, <2>1, <2>2, <3>1, <3>3, <3>5, <3>6, <3>7, <4>1, <4>2, <4>3 DEF BoundsAt
    <3>10. NumberedAt(r)'
      <4>1. TokenAt(First, r, NumTokens(r) + 1)'
        <5>1. CASE First' = First
          BY <2>2, <3>4, <5>1 DEF TokenAt, NumberedAt
        <5>2. CASE First' = NewBatch /\ Count(First, r) = 0
          <6>1. Computed(r) + 1 = NumTokens(r) + 1
            BY <2>2, <3>1, <3>6, <5>2
          <6> QED
            BY <2>2, <3>1, <5>2, <6>1 DEF TokenAt
        <5> QED
          BY <3>8, <5>1, <5>2
      <4>2. TokenAt(Second, r, NumTokens(r) + 1 + Count(First, r))'
        <5>1. CASE Second' = NewBatch /\ Count(First, r)' = Count(First, r)
          <6>1. Computed(r) + 1 = NumTokens(r)' + 1 + Count(First, r)'
            BY <2>2, <3>1, <3>5, <3>6, <5>1
          <6> QED
            BY <3>1, <5>1, <6>1 DEF TokenAt
        <5>2. CASE ~HasToken(Second, r)'
          BY <5>2 DEF TokenAt, HasToken
        <5> QED
          BY <3>8, <5>1, <5>2
      <4>3. placeholders'[r] = IF AsyncScheduling' THEN Pending(r)' ELSE 0
        BY <1>5, <3>5, <3>6, <3>7, <3>8
      <4>4. ~AsyncScheduling' => Pending(r)' <= 1
        BY <1>5, <3>5, <3>6, <3>8
      <4>5. num_computed'[r] = NumTokens(r)' + Pending(r)' - 1
        BY <2>1, <2>2, <3>1, <3>5, <3>6, <3>8
      <4> QED
        BY <2>1, <3>1, <4>1, <4>2, <4>3, <4>4, <4>5 DEF NumberedAt
    <3>11. SettledAt(r)'
      BY <2>1, <3>1 DEF SettledAt
    <3> QED
      BY <2>3, <3>9, <3>10, <3>11 DEF RequestInv
  <2> QED
    BY <2>5, <2>6
<1>7. Entries'
  <2>1. batches \in Seq(Seq(Entry)) /\ out \in Seq(Entry)
    BY DEF TokenInv, Entries
  <2>2. NewBatch \in Seq(Entry)
    <3>1. /\ NewBatch \in Seq(Token) /\ Len(NewBatch) = Len(step.scheduled) /\ Len(step.scheduled) \in Nat
          /\ \A i \in 1 .. Len(NewBatch) :
                /\ NewBatch[i].req = step.scheduled[i].req /\ NewBatch[i].req \in Request
                /\ NewBatch[i].pos = IF IsChunk(NewBatch[i].req) THEN 0 ELSE Computed(NewBatch[i].req) + 1
      BY <1>1, BatchFacts
    <3>2. ASSUME NEW i \in 1 .. Len(NewBatch) PROVE NewBatch[i] \in Entry
      <4>1. PICK q \in Request : q = NewBatch[i].req
        BY <3>1
      <4>2. q \in Scheduled
        BY <1>1, <3>1, <4>1, ScheduledFacts
      <4>3. PICK n \in Int : MayCompute(q, n) /\ Computed(q) = num_computed[q] + n
        BY <1>3, <4>2, NewTokens
      <4>4. num_computed[q] \in Int /\ num_computed[q] >= 0 /\ n >= 1 /\ num_computed[q] + n < MaxModelLen
        <5>1. RequestInv(q)
          BY DEF TokenInv, Requests
        <5> QED
          BY <1>1, <4>3, <5>1, LengthFacts DEF RequestInv, BoundsAt, MayCompute
      <4>5. NewBatch[i].pos \in Position
        <5>1. Computed(q) + 1 \in 0 .. (MaxModelLen + 1) /\ 0 \in 0 .. (MaxModelLen + 1)
          BY <4>3, <4>4, Facts
        <5> QED
          BY <3>1, <4>1, <5>1 DEF Position
      <4>6. NewBatch[i] = [req |-> NewBatch[i].req, pos |-> NewBatch[i].pos]
        <5>1. NewBatch[i] \in Token
          BY <3>1, EntryFacts
        <5> QED
          BY <5>1 DEF Token
      <4> QED
        BY <4>1, <4>5, <4>6 DEF Entry
    <3> QED
      BY <3>1, <3>2
  <2> QED
    BY <1>2, <1>3, <2>1, <2>2 DEF Entries
<1>8. Budget'
  <2>1. pc' \in {"idle", "popped"}
    BY <1>2
  <2> QED
    BY <1>3, <2>1, IdleFacts DEF Budget, IdleStep
<1> QED
  BY <1>6, <1>7, <1>8 DEF TokenInv, Requests

\* Every step keeps the tokens in order.
LEMMA TokenNext ==
    ASSUME EngineInv, EngineInv', Orderly, TokenInv, [Next]_vars
    PROVE  TokenInv'
<1>1. CASE UNCHANGED vars
  <2>1. UNCHANGED mode /\ UNCHANGED <<reqVars, batches, out, pc, step, pause>>
    BY <1>1 DEF vars, queueVars, envVars
  <2>2. First' = First /\ Second' = Second
    BY <2>1 DEF First, Second
  <2>3. SameFlight /\ (Draining => Draining')
    BY <2>1, <2>2 DEF SameFlight, Draining
  <2>4. ASSUME NEW r, NEW n, MayCompute(r, n) PROVE MayCompute(r, n)'
    BY <2>1, <2>3, <2>4, KeepCompute DEF SameRequest, reqVars
  <2>5. Budget'
    <3>1. Budget /\ step' = step /\ pc' = pc /\ pause' = pause
      BY <2>1 DEF TokenInv
    <3>2. \A i \in 1 .. Len(step.scheduled) : MayCompute(step.scheduled[i].req, step.scheduled[i].n)
      BY <3>1 DEF Budget
    <3>3. \A i \in 1 .. Len(step'.scheduled) : MayCompute(step.scheduled[i].req, step.scheduled[i].n)'
      BY <2>4, <3>1, <3>2
    <3>4. pc = "allocate" => MayCompute(step.cur, step.num_new)'
      BY <2>4, <3>1 DEF Budget
    <3> QED
      BY <3>1, <3>3, <3>4 DEF Budget
  <2> QED
    BY <2>1, <2>3, <2>5, KeepTokens
<1>2. CASE Engine
  <2>1. UNCHANGED mode /\ EngineStep
    BY <1>2 DEF Engine
  <2> QED
    BY <2>1, BeginTokens, DrainTokens, PickTokens, AllocateTokens, PreemptTokens,
       EndRunningTokens, AdmitTokens, EndWaitingTokens, SubmitTokens, PopTokens,
       DropTokens, ApplyTokens, EndStepTokens DEF EngineStep
<1>3. CASE Client
  <2>1. UNCHANGED mode /\ ClientStep
    BY <1>3 DEF Client
  <2> QED
    BY <2>1, AddTokens, AbortTokens, PauseTokens, ResetRunningTokens, ResetIdleTokens
    DEF ClientStep
<1> QED
  BY <1>1, <1>2, <1>3 DEF Next

\* The configuration of the engine never changes.
LEMMA ModeFixed ==
    ASSUME [Next]_vars PROVE mode' = mode
BY DEF Next, Engine, Client, vars

\* The inductive invariant of the scheduler.
THEOREM IInvHolds == Spec => []IInv
<1>1. Init => IInv
  BY InitEngine, InitTokens DEF IInv
<1>2. IInv /\ [Next]_vars => IInv'
  <2>1. SUFFICES ASSUME EngineInv, Orderly => TokenInv, [Next]_vars PROVE IInv'
    BY DEF IInv
  <2>2. EngineInv'
    BY <2>1, EngineNext
  <2>3. Orderly' => Orderly
    BY <2>1, ModeFixed DEF Orderly
  <2>4. ASSUME Orderly' PROVE TokenInv'
    BY <2>1, <2>2, <2>3, <2>4, TokenNext
  <2> QED
    BY <2>2, <2>4 DEF IInv
<1> QED
  BY <1>1, <1>2, PTL DEF Spec

\* The tokens of a request are positions.
LEMMA OutputPositions ==
    ASSUME EngineInv, TokenInv PROVE output \in [Request -> Seq(Position)]
<1>1. ASSUME NEW r \in Request PROVE output[r] \in Seq(Position)
  <2>1. output[r] \in Seq(Int) /\ PromptLen[r] \in Nat /\ MaxModelLen \in Nat
    BY Facts DEF EngineInv, Types
  <2>2. NumTokens(r) <= MaxModelLen /\ OrderAt(r)
    BY DEF TokenInv, Requests, RequestInv, BoundsAt
  <2>3. PICK o : o = output[r]
    OBVIOUS
  <2>4. Len(o) \in Nat /\ o \in [1 .. Len(o) -> Int] /\ PromptLen[r] + Len(o) <= MaxModelLen
    BY <2>1, <2>2, <2>3 DEF NumTokens
  <2>5. ASSUME NEW i \in 1 .. Len(o) PROVE o[i] \in Position
    <3>1. o[i] = PromptLen[r] + i
      BY <2>2, <2>3 DEF OrderAt
    <3> QED
      BY <2>1, <2>4, <3>1 DEF Position
  <2> QED
    BY <2>3, <2>4, <2>5
<1> QED
  BY <1>1 DEF EngineInv, Types

\* TypeOK and Queues.
LEMMA QueuesFact ==
    ASSUME EngineInv, TokenInv PROVE QueuesMatchStatus
<1>1. ASSUME NEW r \in Request
      PROVE  /\ num_computed[r] \in 0 .. (NumTokens(r) + placeholders[r])
             /\ placeholders[r] \in 0 .. BatchQueueSize
  <2>1. /\ num_computed[r] \in Int /\ placeholders[r] \in Int /\ NumTokens(r) \in Nat
        /\ BatchQueueSize \in Nat
    BY LengthFacts, ModeFacts DEF EngineInv, Types, BatchQueueSize
  <2>2. BoundsAt(r)
    BY DEF TokenInv, Requests, RequestInv
  <2> QED
    BY <2>1, <2>2 DEF BoundsAt
<1>2. placeholders \in [Request -> 0 .. BatchQueueSize]
  BY <1>1 DEF EngineInv, Types
<1>3. resets \in 0 .. mode.resets /\ step.cur \in Request \cup {None}
  BY ModeFacts DEF EngineInv, Types, Locals
<1>4. TypeOK
  BY <1>1, <1>2, <1>3, OutputPositions DEF EngineInv, Types, Loop, TokenInv, Entries, TypeOK
<1> QED
  BY <1>4 DEF QueuesMatchStatus, EngineInv, Queues

\* QueuesMatchStatus: however preemption, aborts, stops and resets interleave with the
\* loops of schedule(), the queues and the statuses of the requests agree, and the
\* counters of every request keep their bounds.
THEOREM QueuesMatchStatusHolds == Spec => [](Orderly => QueuesMatchStatus)
<1>1. IInv => (Orderly => QueuesMatchStatus)
  BY QueuesFact DEF IInv
<1> QED
  BY <1>1, IInvHolds, PTL

\* TokensInOrder: update_from_output gives every client the tokens of successive
\* positions, across preemption, resumption and overlapping batches.
THEOREM TokensInOrderHolds == Spec => [](Orderly => TokensInOrder)
<1>1. ASSUME EngineInv, TokenInv, NEW r \in Request
      PROVE  output[r] = [i \in DOMAIN output[r] |-> PromptLen[r] + i]
  <2>1. output[r] \in Seq(Int) /\ OrderAt(r)
    BY <1>1 DEF EngineInv, Types, TokenInv, Requests, RequestInv
  <2> QED
    BY <2>1 DEF OrderAt
<1>2. IInv => (Orderly => TokensInOrder)
  BY <1>1 DEF IInv, TokensInOrder
<1> QED
  BY <1>2, IInvHolds, PTL

\* The assertions that end schedule() (scheduler.py:834-845) hold, with the budget exact.
THEOREM ScheduleAssertsHold == Spec => [](Orderly => ScheduleAsserts)
<1>1. ASSUME EngineInv, TokenInv, pc = "submit"
      PROVE  /\ Scheduled \subseteq ToSet(running)
             /\ IsInjective(step.scheduled)
             /\ step.token_budget >= 0
             /\ Len(running) <= MaxNumRunningReqs
             /\ step.token_budget + TotalTokens(step.scheduled)
                   = IF pause = "PAUSED_ALL" THEN 0 ELSE MaxNumScheduledTokens
  <2>1. step.scheduled \in Seq(Slice) /\ Loop
    BY <1>1, StepFacts DEF EngineInv
  <2>2. \A q : q \in Scheduled <=> \E i \in 1 .. Len(step.scheduled) : step.scheduled[i].req = q
    BY <1>1, <2>1, ScheduledFacts DEF Loop
  <2>3. Scheduled \subseteq ToSet(running)
    BY <2>1, <2>2 DEF Loop
  <2>4. IsInjective(step.scheduled)
    <3>1. DOMAIN step.scheduled = 1 .. Len(step.scheduled)
      BY <2>1
    <3>2. \A i, j \in 1 .. Len(step.scheduled) : step.scheduled[i] = step.scheduled[j] => i = j
      BY <2>1 DEF Loop, OncePerRequest
    <3> QED
      BY <3>1, <3>2 DEF IsInjective
  <2>5. Budget /\ Len(running) <= MaxNumRunningReqs
    BY <1>1 DEF TokenInv, EngineInv, Queues
  <2> QED
    BY <1>1, <2>3, <2>4, <2>5 DEF Budget
<1>2. IInv => (Orderly => ScheduleAsserts)
  BY <1>1 DEF IInv, ScheduleAsserts
<1> QED
  BY <1>2, IInvHolds, PTL

\* A batch has at most one entry per request.
LEMMA BatchLength ==
    ASSUME NEW b \in Seq(Token), OncePerRequest(b)
    PROVE  Len(b) <= Cardinality(Request)
<1>1. PICK q : q = [k \in 1 .. Len(b) |-> b[k].req]
  OBVIOUS
<1>2. ASSUME NEW k \in 1 .. Len(b) PROVE b[k].req \in Request
  <2>1. b[k] \in Token
    OBVIOUS
  <2> QED
    BY <2>1 DEF Token
<1>3. Len(b) \in Nat
  OBVIOUS
<1>4. q \in Seq(Request) /\ Len(q) = Len(b) /\ DOMAIN q = 1 .. Len(b)
  BY <1>1, <1>2, <1>3
<1>5. \A i, j \in 1 .. Len(b) : q[i] = q[j] => i = j
  BY <1>1 DEF OncePerRequest
<1>6. IsInjective(q)
  BY <1>4, <1>5 DEF IsInjective
<1> QED
  BY <1>4, <1>6, LengthBound

\* Between two steps the oldest batch holds all that is in flight.
LEMMA InFlightCount ==
    ASSUME EngineInv, Orderly, pc = "idle", NEW r \in Request
    PROVE  Cardinality(InFlight(r)) = Pending(r)
<1>1. Len(batches) \in {0, 1} /\ Pending(r) = Count(First, r)
  BY OneInFlight
<1>2. batches \in Seq(Seq(Token)) /\ BatchQueueSize \in Nat \ {0}
  BY ModeFacts DEF EngineInv, Types, BatchQueueSize
<1>3. DOMAIN batches = 1 .. Len(batches)
  BY <1>2
<1>4. CASE ~HasToken(First, r)
  <2>1. ASSUME NEW p \in InFlight(r) PROVE FALSE
    <3>1. /\ p[1] \in DOMAIN batches /\ p[2] \in DOMAIN batches[p[1]]
          /\ batches[p[1]][p[2]].req = r /\ batches[p[1]][p[2]].pos # 0
      BY <2>1 DEF InFlight
    <3>2. Len(batches) = 1 /\ p[1] = 1
      BY <1>1, <1>3, <3>1
    <3>3. batches[1] \in Seq(Token)
      <4>1. 1 \in 1 .. Len(batches)
        BY <3>2
      <4> QED
        BY <1>2, <4>1
    <3>4. First = batches[1] /\ p[2] \in 1 .. Len(batches[1])
      BY <3>1, <3>2, <3>3 DEF First
    <3> QED
      BY <1>4, <3>1, <3>2, <3>4 DEF HasToken
  <2>2. InFlight(r) = {}
    BY <2>1
  <2> QED
    BY <1>1, <1>4, <2>2, FS_EmptySet DEF Count
<1>5. CASE HasToken(First, r)
  <2>1. Len(batches) = 1 /\ First = batches[1]
    BY <1>1, <1>5 DEF First, HasToken
  <2>2. PICK b : b = batches[1]
    OBVIOUS
  <2>3. b \in Seq(Token) /\ OncePerRequest(b)
    BY <1>2, <2>1, <2>2 DEF EngineInv, Phase
  <2>4. PICK i \in 1 .. Len(b) : b[i].req = r /\ b[i].pos # 0
    BY <1>5, <2>1, <2>2 DEF HasToken
  <2>5. Len(b) \in Nat /\ DOMAIN b = 1 .. Len(b)
    BY <2>3
  <2>6. i \in 1 .. Cardinality(Request)
    BY <2>3, <2>4, <2>5, BatchLength, Facts
  <2>7. <<1, i>> \in InFlight(r)
    <3>1. <<1, i>> \in (1 .. BatchQueueSize) \X (1 .. Cardinality(Request))
      BY <1>2, <2>6
    <3>2. 1 \in DOMAIN batches /\ i \in DOMAIN batches[1] /\ batches[1][i].req = r /\ batches[1][i].pos # 0
      BY <1>3, <2>1, <2>2, <2>4, <2>5
    <3> QED
      BY <3>1, <3>2 DEF InFlight
  <2>8. ASSUME NEW p \in InFlight(r) PROVE p = <<1, i>>
    <3>1. /\ p \in (1 .. BatchQueueSize) \X (1 .. Cardinality(Request))
          /\ p[1] \in DOMAIN batches /\ p[2] \in DOMAIN batches[p[1]]
          /\ batches[p[1]][p[2]].req = r
      BY <2>8 DEF InFlight
    <3>2. p[1] = 1
      BY <1>3, <2>1, <3>1
    <3>3. p[2] \in 1 .. Len(b) /\ b[p[2]].req = b[i].req
      BY <2>2, <2>4, <2>5, <3>1, <3>2
    <3>4. p[2] = i
      BY <2>3, <3>3 DEF OncePerRequest
    <3> QED
      BY <3>1, <3>2, <3>4
  <2>9. InFlight(r) = {<<1, i>>}
    BY <2>7, <2>8
  <2>10. Cardinality({<<1, i>>}) = 1
    BY FS_Singleton
  <2> QED
    BY <1>1, <1>5, <2>9, <2>10 DEF Count
<1> QED
  BY <1>4, <1>5

\* PlaceholdersMatchInFlight: with async scheduling num_output_placeholders counts the
\* tokens in flight, also of a preempted request.
THEOREM PlaceholdersMatchInFlightHolds == Spec => [](Orderly => PlaceholdersMatchInFlight)
<1>1. ASSUME EngineInv, Orderly, TokenInv, AsyncScheduling, pc = "idle", NEW r \in Request, Live(r)
      PROVE  placeholders[r] = Cardinality(InFlight(r))
  <2>1. placeholders[r] = Pending(r)
    BY <1>1 DEF TokenInv, Requests, RequestInv, NumberedAt
  <2> QED
    BY <1>1, <2>1, InFlightCount
<1>2. IInv => (Orderly => PlaceholdersMatchInFlight)
  BY <1>1 DEF IInv, PlaceholdersMatchInFlight
<1> QED
  BY <1>2, IInvHolds, PTL

-----------------------------------------------------------------------------
(* The KV cache under the scheduler.                                          *)

\* The tokens that the table of r has slots for.
Slots(r) == Len(kv.req_to_blocks[r]) * BlockSize

\* Every computed token has a slot, and every token that is scheduled.
HasSlots ==
    /\ \A r \in Request : status[r] = "RUNNING" => num_computed[r] <= Slots(r)
    /\ \A l \in 1 .. Len(step.scheduled) :
          num_computed[step.scheduled[l].req] + step.scheduled[l].n <= Slots(step.scheduled[l].req)

CacheInv == InOrder(kv) /\ HasSlots

\* An empty manager is in order.
LEMMA InitInOrder == InOrder(InitKV)
<1>1. PICK k, p : k = InitKV /\ p = InitPool(Hash)
  OBVIOUS
<1>2. /\ p = [free |-> p.free, ref_cnt |-> p.ref_cnt, block_hash |-> p.block_hash, cache |-> p.cache]
      /\ p.free = FreeQueue /\ p.ref_cnt = [b \in Block |-> 0]
      /\ p.block_hash = [b \in Block |-> NoHash] /\ p.cache = [h \in Hash |-> <<>>]
  BY <1>1 DEF InitPool
<1>3. /\ k.pool = p /\ k.req_to_blocks = [r \in Request |-> <<>>]
      /\ k.num_cached_block = [r \in Request |-> Absent]
      /\ k = [pool |-> p, req_to_blocks |-> k.req_to_blocks, num_cached_block |-> k.num_cached_block]
  BY <1>1 DEF InitKV
<1>4. p.free \in Seq(Block) /\ IsInjective(p.free) /\ ToSet(p.free) = Block
  <2>1. NumGpuBlocks - 1 \in Nat /\ Block = 1 .. (NumGpuBlocks - 1)
    BY NumGpuBlocksAssumption DEF Block
  <2>2. p.free = [i \in 1 .. (NumGpuBlocks - 1) |-> i]
    BY <1>2, <2>1 DEF FreeQueue
  <2>3. p.free \in Seq(Block) /\ Len(p.free) = NumGpuBlocks - 1
    BY <2>1, <2>2
  <2>4. \A i \in 1 .. Len(p.free) : p.free[i] = i
    BY <2>2, <2>3
  <2>5. IsInjective(p.free)
    BY <2>2 DEF IsInjective
  <2>6. \A x : x \in ToSet(p.free) <=> \E i \in 1 .. Len(p.free) : p.free[i] = x
    BY <2>3, SeqFacts
  <2>7. ASSUME NEW x PROVE x \in ToSet(p.free) <=> x \in Block
    BY <2>1, <2>3, <2>4, <2>6
  <2> QED
    BY <2>3, <2>5, <2>7
<1>5. <<>> \in Seq(Block) /\ IsInjective(<<>>) /\ ToSet(<<>>) = {} /\ Len(<<>>) = 0 /\ Absent \in Int
  BY DEF IsInjective, ToSet, Absent
<1>6. Sound(k)
  <2>1. p \in Pool(Hash)
    <3>1. /\ p.ref_cnt \in [Block -> Int] /\ p.block_hash \in [Block -> Hash \cup {NoHash}]
          /\ p.cache \in [Hash -> Seq(Block)]
      BY <1>2, <1>5
    <3> QED
      BY <1>2, <1>4, <3>1 DEF Pool
  <2>2. k \in Manager
    BY <1>3, <1>5, <2>1 DEF Manager
  <2>3. Coherent(p, Hash)
    BY <1>2, <1>5, NoHashIsNone DEF Coherent
  <2> QED
    BY <1>2, <1>3, <1>4, <2>2, <2>3 DEF Sound
<1>7. ASSUME NEW r \in Request
      PROVE  k.req_to_blocks[r] = <<>> /\ k.num_cached_block[r] = Absent /\ CachedOf(k, r) = 0
  BY <1>3 DEF CachedOf, Absent, max
<1>8. ASSUME NEW r \in Request PROVE TidyTable(k, r) /\ OwnHash(k, r)
  <2>1. Len(Text[r]) \div BlockSize \in Nat
    BY Constants, DivFacts
  <2> QED
    BY <1>5, <1>7, <2>1 DEF TidyTable, OwnHash
<1>9. ASSUME NEW b \in Block PROVE k.pool.ref_cnt[b] = Cardinality(Users(k, b))
  <2>1. Users(k, b) = {}
    BY <1>5, <1>7 DEF Users
  <2> QED
    BY <1>2, <1>3, <2>1, FS_EmptySet
<1>10. ASSUME NEW r \in Request, NEW q \in Request PROVE Shares(k, r, q)
  BY <1>5, <1>7 DEF Shares
<1> QED
  BY <1>1, <1>6, <1>8, <1>9, <1>10 DEF InOrder

\* The first states.
LEMMA InitCache == Init => CacheInv
<1> SUFFICES ASSUME Init PROVE CacheInv
  OBVIOUS
<1>1. InOrder(kv) /\ step.scheduled = <<>>
  BY InitInOrder, IdleFacts DEF Init
<1>2. Len(step.scheduled) = 0 /\ \A r \in Request : status[r] # "RUNNING"
  BY <1>1 DEF Init, InitRequests
<1> QED
  BY <1>1, <1>2 DEF CacheInv, HasSlots

\* Steps that change neither a table nor a counter.
LEMMA KeepSlots ==
    ASSUME HasSlots, kv'.req_to_blocks = kv.req_to_blocks, num_computed' = num_computed,
           step'.scheduled = step.scheduled,
           \A r \in Request : status'[r] = "RUNNING" => status[r] = "RUNNING"
    PROVE  HasSlots'
BY DEF HasSlots, Slots

\* One table is freed, and its request is no longer running or scheduled.
LEMMA LoseSlots ==
    ASSUME HasSlots, NEW v \in Request, status'[v] # "RUNNING",
           \A q \in Request : q # v => /\ kv'.req_to_blocks[q] = kv.req_to_blocks[q]
                                       /\ num_computed'[q] = num_computed[q]
                                       /\ status'[q] = "RUNNING" => status[q] = "RUNNING",
           \A l \in 1 .. Len(step'.scheduled) :
              /\ step'.scheduled[l].req \in Request \ {v}
              /\ \E i \in 1 .. Len(step.scheduled) : step'.scheduled[l] = step.scheduled[i]
    PROVE  HasSlots'
<1>1. ASSUME NEW r \in Request, status'[r] = "RUNNING" PROVE num_computed'[r] <= Slots(r)'
  BY <1>1 DEF HasSlots, Slots
<1>2. ASSUME NEW l \in 1 .. Len(step'.scheduled)
      PROVE  num_computed'[step'.scheduled[l].req] + step'.scheduled[l].n <= Slots(step.scheduled[l].req)'
  <2>1. PICK i \in 1 .. Len(step.scheduled) : step'.scheduled[l] = step.scheduled[i]
    OBVIOUS
  <2>2. PICK q, n : q = step.scheduled[i].req /\ n = step.scheduled[i].n
    OBVIOUS
  <2>3. num_computed[q] + n <= Slots(q)
    BY <2>2 DEF HasSlots
  <2>4. q \in Request \ {v}
    BY <2>1, <2>2
  <2>5. num_computed'[q] + n <= Slots(q)'
    BY <2>3, <2>4 DEF Slots
  <2> QED
    BY <2>1, <2>2, <2>5 DEF Slots
<1> QED
  BY <1>1, <1>2 DEF HasSlots

-----------------------------------------------------------------------------
\* The step takes slots for n tokens of r: of a running request, or of a waiting one that
\* hits the cache.
Grows(r, hit, n, new, f) ==
    /\ r \in Request /\ n \in Nat \ {0}
    /\ hit \in Seq(Block) /\ IsInjective(hit)
    /\ \A i \in 1 .. Len(hit) : i \in FullBlocks(r) /\ kv.pool.block_hash[hit[i]] = block_hashes(r, i)
    /\ \/ status[r] = "RUNNING" /\ hit = <<>> /\ num_computed'[r] = num_computed[r]
       \/ kv.req_to_blocks[r] = <<>> /\ num_computed'[r] = Len(hit) * BlockSize
    /\ num_computed'[r] \in Nat
    /\ Allocated(kv, kv', r, hit, new, f) /\ InOrder(kv')
    /\ f <= max(CachedOf(kv, r) + Len(hit), (num_computed'[r] + n) \div BlockSize)
    /\ num_computed'[r] + n <= Len(kv'.req_to_blocks[r]) * BlockSize
    /\ status'[r] = "RUNNING"
    /\ \A q \in Request : q # r => status'[q] = status[q] /\ num_computed'[q] = num_computed[q]
    /\ Len(step'.scheduled) = Len(step.scheduled) + 1 /\ Len(step.scheduled) \in Nat
    /\ \A i \in 1 .. Len(step.scheduled) : /\ step'.scheduled[i] = step.scheduled[i]
                                           /\ step.scheduled[i].req \in Request \ {r}
    /\ step'.scheduled[Len(step'.scheduled)].req = r
    /\ step'.scheduled[Len(step'.scheduled)].n = n

\* The tables and counts of the other requests stay.
LEMMA GrowsOthers ==
    ASSUME InOrder(kv), NEW r, NEW hit, NEW n, NEW new, NEW f, Grows(r, hit, n, new, f)
    PROVE  /\ kv'.req_to_blocks[r] = kv.req_to_blocks[r] \o hit \o new
           /\ CachedOf(kv', r) = f
           /\ \A q \in Request : q # r => /\ kv'.req_to_blocks[q] = kv.req_to_blocks[q]
                                          /\ CachedOf(kv', q) = CachedOf(kv, q)
<1>1. r \in Request /\ kv.req_to_blocks \in [Request -> Seq(Block)]
  BY SoundFields DEF InOrder, Grows
<1>2. /\ kv'.req_to_blocks = [kv.req_to_blocks EXCEPT ![r] = kv.req_to_blocks[r] \o hit \o new]
      /\ \A q \in Request : q # r => kv'.num_cached_block[q] = kv.num_cached_block[q]
      /\ max(kv'.num_cached_block[r], 0) = f
  BY DEF Grows, Allocated
<1> QED
  BY <1>1, <1>2 DEF CachedOf

\* It keeps the order.
LEMMA GrowsCache ==
    ASSUME CacheInv, NEW r, NEW hit, NEW n, NEW new, NEW f, Grows(r, hit, n, new, f)
    PROVE  CacheInv'
<1>1. /\ r \in Request /\ n \in Nat /\ InOrder(kv) /\ InOrder(kv')
      /\ num_computed'[r] \in Nat /\ num_computed'[r] + n <= Len(kv'.req_to_blocks[r]) * BlockSize
      /\ Len(step'.scheduled) = Len(step.scheduled) + 1 /\ Len(step.scheduled) \in Nat
      /\ \A i \in 1 .. Len(step.scheduled) : /\ step'.scheduled[i] = step.scheduled[i]
                                             /\ step.scheduled[i].req \in Request \ {r}
      /\ step'.scheduled[Len(step'.scheduled)].req = r
      /\ step'.scheduled[Len(step'.scheduled)].n = n
      /\ \A q \in Request : q # r => status'[q] = status[q] /\ num_computed'[q] = num_computed[q]
  BY DEF CacheInv, Grows
<1>2. /\ \A q \in Request : q # r => kv'.req_to_blocks[q] = kv.req_to_blocks[q]
      /\ kv'.req_to_blocks[r] \in Seq(Block) /\ Len(kv'.req_to_blocks[r]) * BlockSize \in Nat
  <2>1. kv'.req_to_blocks[r] \in Seq(Block) /\ Len(kv'.req_to_blocks[r]) \in Nat /\ BlockSize \in Nat
    BY <1>1, TableTypes, Constants DEF InOrder
  <2> QED
    BY <1>1, <2>1, GrowsOthers
<1>3. ASSUME NEW q \in Request, status'[q] = "RUNNING" PROVE num_computed'[q] <= Slots(q)'
  <2>1. CASE q = r
    BY <1>1, <1>2, <2>1 DEF Slots
  <2>2. CASE q # r
    BY <1>1, <1>2, <1>3, <2>2 DEF CacheInv, HasSlots, Slots
  <2> QED
    BY <2>1, <2>2
<1>4. ASSUME NEW l \in 1 .. Len(step'.scheduled)
      PROVE  num_computed'[step'.scheduled[l].req] + step'.scheduled[l].n <= Slots(step.scheduled[l].req)'
  <2>1. CASE l \in 1 .. Len(step.scheduled)
    <3>1. PICK q, m : q = step.scheduled[l].req /\ m = step.scheduled[l].n
      OBVIOUS
    <3>2. num_computed[q] + m <= Slots(q) /\ q \in Request \ {r}
      BY <1>1, <2>1, <3>1 DEF CacheInv, HasSlots
    <3>3. num_computed'[q] + m <= Slots(q)'
      BY <1>1, <1>2, <3>2 DEF Slots
    <3>4. step'.scheduled[l] = step.scheduled[l]
      BY <1>1, <2>1
    <3> QED
      BY <3>1, <3>3, <3>4 DEF Slots
  <2>2. CASE l = Len(step'.scheduled)
    BY <1>1, <2>2 DEF Slots
  <2> QED
    BY <1>1, <2>1, <2>2
<1> QED
  BY <1>1, <1>3, <1>4 DEF CacheInv, HasSlots

\* AllocateRunning takes the slots of a running request.
LEMMA AllocateGrows ==
    ASSUME EngineInv, TokenInv, CacheInv, AllocateRunning
    PROVE  \E r, n, new, f : Grows(r, <<>>, n, new, f)
<1>1. PICK r, n, s : r = step.cur /\ n = step.num_new /\ s = step.scheduled
  OBVIOUS
<1>2. /\ pc = "allocate" /\ can_allocate_slots(kv, r, num_computed[r], n, 0, <<>>)
      /\ kv' = allocate_slots(kv, r, NumTokens(r), num_computed[r], n, 0, <<>>)
      /\ step' = [step EXCEPT !.scheduled = Append(s, [req |-> r, n |-> n]),
                              !.token_budget = @ - n, !.req_index = @ + 1]
      /\ UNCHANGED reqVars
  BY <1>1 DEF AllocateRunning
<1>3. /\ step \in Locals /\ s \in Seq(Slice) /\ n \in Int /\ OncePerRequest(s)
      /\ r \in Request /\ status[r] = "RUNNING" /\ \A i \in 1 .. Len(s) : s[i].req # r /\ s[i].req \in Request
  <2>1. step \in Locals /\ s \in Seq(Slice) /\ n \in Int
    BY <1>1, StepFacts DEF EngineInv, Types
  <2>2. r \in ToSet(running) /\ r \notin Scheduled /\ running \in Seq(Request) /\ OncePerRequest(s)
    BY <1>1, <1>2 DEF EngineInv, Loop, Types
  <2>3. r \in Request /\ status[r] = "RUNNING"
    BY <2>2 DEF EngineInv, Queues
  <2>4. \A i \in 1 .. Len(s) : s[i].req # r /\ s[i].req \in Request
    BY <1>1, <2>1, <2>2, ScheduledFacts, EntryFacts
  <2> QED
    BY <2>1, <2>2, <2>3, <2>4
<1>4. MayCompute(r, n) /\ BoundsAt(r)
  BY <1>1, <1>2, <1>3 DEF TokenInv, Budget, Requests, RequestInv
<1>5. /\ num_computed[r] \in Nat /\ n \in Nat \ {0} /\ NumTokens(r) \in Nat
      /\ NumTokens(r) <= Len(Text[r]) /\ NumTokens(r) <= MaxModelLen
      /\ num_computed[r] + n < MaxModelLen /\ MaxModelLen \in Nat
  <2>1. NumTokens(r) \in Nat /\ num_computed[r] \in Int /\ Len(Text[r]) \in Nat /\ MaxModelLen \in Nat
    BY <1>3, LengthFacts, Facts DEF EngineInv
  <2> QED
    BY <1>3, <1>4, <2>1 DEF MayCompute, BoundsAt
<1>6. /\ InOrder(kv) /\ <<>> \in Seq(Block) /\ IsInjective(<<>>) /\ Len(<<>>) = 0
      /\ Len(<<>>) <= Len(Text[r]) \div BlockSize /\ \A i \in 1 .. Len(<<>>) : FALSE
      /\ Len(<<>>) * BlockSize = 0 /\ CachedOf(kv, r) \in Nat
  <2>1. InOrder(kv) /\ <<>> \in Seq(Block) /\ IsInjective(<<>>) /\ Len(<<>>) = 0
    BY DEF CacheInv, IsInjective
  <2>2. Len(Text[r]) \div BlockSize \in Nat /\ BlockSize \in Nat /\ CachedOf(kv, r) \in Nat
    BY <1>3, <2>1, TableTypes, Constants DEF InOrder
  <2>3. \A x \in Nat : 0 * x = 0 /\ 0 <= x
    OBVIOUS
  <2>4. Len(<<>>) * BlockSize = 0 /\ Len(<<>>) <= Len(Text[r]) \div BlockSize
    BY <2>1, <2>2, <2>3
  <2>5. \A i \in 1 .. Len(<<>>) : FALSE
    BY <2>1
  <2> QED
    BY <2>1, <2>2, <2>4, <2>5
<1>7. PICK new, f :
         /\ Allocated(kv, kv', r, <<>>, new, f)
         /\ f <= max(CachedOf(kv, r) + Len(<<>>), (total_computed_tokens(num_computed[r], <<>>) + n) \div BlockSize)
         /\ Need(num_computed[r], n, 0, <<>>) <= Len(kv.req_to_blocks[r] \o <<>> \o new) * BlockSize
         /\ InOrder(kv')
  BY <1>2, <1>3, <1>5, <1>6, AllocateInOrder
<1>8. /\ total_computed_tokens(num_computed[r], <<>>) = num_computed[r]
      /\ Need(num_computed[r], n, 0, <<>>) = num_computed[r] + n
  <2>1. total_computed_tokens(num_computed[r], <<>>) = min(num_computed[r], MaxModelLen)
    BY <1>5, <1>6 DEF total_computed_tokens
  <2>2. total_computed_tokens(num_computed[r], <<>>) = num_computed[r]
    BY <1>5, <2>1 DEF min
  <2> QED
    BY <1>5, <2>2 DEF Need, num_tokens_need_slot, min
<1>9. kv'.req_to_blocks[r] = kv.req_to_blocks[r] \o <<>> \o new
  <2>1. kv.req_to_blocks \in [Request -> Seq(Block)]
    BY <1>6, SoundFields DEF InOrder
  <2> QED
    BY <1>3, <1>7, <2>1 DEF Allocated
<1>10. PICK t : t = Append(s, [req |-> r, n |-> n])
  OBVIOUS
<1>11. /\ Len(t) = Len(s) + 1 /\ Len(s) \in Nat /\ \A i \in 1 .. Len(s) : t[i] = s[i]
       /\ t[Len(t)].req = r /\ t[Len(t)].n = n
  BY <1>3, <1>10
<1>12. step'.scheduled = t
  <2>1. PICK b, i : step' = [step EXCEPT !.scheduled = t, !.token_budget = b, !.req_index = i]
    BY <1>2, <1>10
  <2> QED
    BY <1>3, <2>1 DEF Locals
<1>13. /\ status'[r] = "RUNNING" /\ num_computed'[r] = num_computed[r]
       /\ \A q \in Request : status'[q] = status[q] /\ num_computed'[q] = num_computed[q]
  BY <1>2, <1>3 DEF reqVars
<1>14. f <= max(CachedOf(kv, r) + Len(<<>>), (num_computed'[r] + n) \div BlockSize)
  BY <1>7, <1>8, <1>13
<1>15. num_computed'[r] + n <= Len(kv'.req_to_blocks[r]) * BlockSize
  BY <1>7, <1>8, <1>9, <1>13
<1>16. Grows(r, <<>>, n, new, f)
  BY <1>1, <1>3, <1>5, <1>6, <1>7, <1>11, <1>12, <1>13, <1>14, <1>15 DEF Grows
<1> QED
  BY <1>16

\* AdmitWaiting takes the slots of a waiting request, which holds no block.
LEMMA AdmitGrows ==
    ASSUME EngineInv, TokenInv, CacheInv, AdmitWaiting
    PROVE  \E r, hit, n, new, f : Grows(r, hit, n, new, f)
<1>1. PICK r, hit, n :
         /\ r \in Request /\ r = Head(waiting) /\ r \in ToSet(waiting)
         /\ Len(hit) \in Nat /\ Len(hit) * BlockSize \in Nat
         /\ Len(hit) * BlockSize < NumTokens(r)
         /\ n \in Int /\ n = CutToBudget(NumTokens(r) - Len(hit) * BlockSize)
         /\ hit = get_computed_blocks(kv, r, NumTokens(r))
         /\ can_allocate_slots(kv, r, 0, n, 0, hit)
         /\ kv' = allocate_slots(kv, r, NumTokens(r), 0, n, 0, hit)
         /\ num_computed' = [num_computed EXCEPT ![r] = Len(hit) * BlockSize]
         /\ status' = [status EXCEPT ![r] = "RUNNING"]
         /\ step' = [step EXCEPT !.scheduled = Append(step.scheduled, [req |-> r, n |-> n]),
                                 !.resumed = step.resumed \cup {r},
                                 !.token_budget = step.token_budget - n]
  <2>1. PICK r, hit, n :
         /\ r \in Request /\ r = Head(waiting) /\ r \in ToSet(waiting)
         /\ Len(hit) \in Nat /\ Len(hit) * BlockSize \in Nat
         /\ Len(hit) * BlockSize < NumTokens(r)
         /\ n \in Int /\ n = CutToBudget(NumTokens(r) - Len(hit) * BlockSize)
         /\ Candidate = [req |-> r, hit |-> hit, n |-> n]
         /\ hit = get_computed_blocks(kv, r, NumTokens(r))
         /\ kv' = allocate_slots(kv, r, NumTokens(r), 0, n, 0, hit)
         /\ num_computed' = [num_computed EXCEPT ![r] = Len(hit) * BlockSize]
         /\ status' = [status EXCEPT ![r] = "RUNNING"]
         /\ step' = [step EXCEPT !.scheduled = Append(step.scheduled, [req |-> r, n |-> n]),
                                 !.resumed = step.resumed \cup {r},
                                 !.token_budget = step.token_budget - n]
    BY AdmitFacts
  <2>2. can_allocate_slots(kv, r, 0, n, 0, hit)
    BY <2>1 DEF AdmitWaiting, CandidateFits
  <2> QED
    BY <2>1, <2>2
<1>2. /\ r \in Request /\ pc = "waiting" /\ step.token_budget > 0
      /\ status \in [Request -> Status] /\ num_computed \in [Request -> Int] /\ Types
      /\ status[r] \in {"WAITING", "PREEMPTED"} /\ kv.req_to_blocks[r] = <<>>
      /\ step.scheduled \in Seq(Slice) /\ OncePerRequest(step.scheduled) /\ step.token_budget \in Int
      /\ step \in Locals
  BY <1>1, StepFacts DEF EngineInv, Types, Loop, Queues, Held, AdmitWaiting, WaitingLoopGoesOn
<1>3. PICK c \in Nat : c = Len(hit) * BlockSize
  BY <1>1
<1>4. /\ NumTokens(r) \in Nat \ {0} /\ MaxModelLen \in Nat /\ Len(Text[r]) \in Nat
      /\ NumTokens(r) < Len(Text[r]) /\ NumTokens(r) < MaxModelLen
  <2>1. BoundsAt(r)
    BY <1>2 DEF TokenInv, Requests, RequestInv
  <2> QED
    BY <1>2, <2>1, LengthFacts, Facts DEF BoundsAt
<1>5. n \in Nat \ {0} /\ c + n <= NumTokens(r) /\ c < NumTokens(r)
  <2>1. c < NumTokens(r)
    BY <1>1, <1>3
  <2>2. PICK a \in Int : a = NumTokens(r) - c /\ a >= 1
    BY <1>3, <1>4, <2>1
  <2>3. n = CutToBudget(a)
    BY <1>1, <1>3, <2>2
  <2>4. step.token_budget >= 1
    BY <1>2
  <2>5. n <= a /\ n >= 1
    BY <1>2, <2>2, <2>3, <2>4, CutFacts
  <2> QED
    BY <1>1, <1>3, <1>4, <2>1, <2>2, <2>5
<1>6. PICK t \in 1 .. Len(Text[r]) : t = NumTokens(r)
  BY <1>4
<1>7. /\ InOrder(kv) /\ hit \in Seq(Block) /\ IsInjective(hit) /\ Len(hit) <= (t - 1) \div BlockSize
      /\ \A i \in 1 .. Len(hit) : i \in FullBlocks(r) /\ kv.pool.block_hash[hit[i]] = block_hashes(r, i)
  <2>1. InOrder(kv) /\ Sound(kv)
    BY DEF CacheInv, InOrder
  <2>2. hit = get_computed_blocks(kv, r, t)
    BY <1>1, <1>6
  <2> QED
    BY <1>2, <2>1, <2>2, LookupFacts
<1>8. Len(hit) <= Len(Text[r]) \div BlockSize
  <2>1. PICK a \in Nat : a = t - 1 /\ a <= Len(Text[r])
    BY <1>4
  <2>2. a \div BlockSize <= Len(Text[r]) \div BlockSize
    BY <1>4, <2>1, Constants, DivMonotone
  <2>3. a \div BlockSize \in Nat /\ Len(Text[r]) \div BlockSize \in Nat
    BY <1>4, <2>1, Constants, DivFacts
  <2> QED
    BY <1>1, <1>7, <2>1, <2>2, <2>3
<1>9. PICK new, f :
         /\ Allocated(kv, kv', r, hit, new, f)
         /\ f <= max(CachedOf(kv, r) + Len(hit), (total_computed_tokens(0, hit) + n) \div BlockSize)
         /\ Need(0, n, 0, hit) <= Len(kv.req_to_blocks[r] \o hit \o new) * BlockSize
         /\ InOrder(kv')
  <2>1. kv' = allocate_slots(kv, r, t, 0, n, 0, hit) /\ can_allocate_slots(kv, r, 0, n, 0, hit)
    BY <1>1, <1>6
  <2>2. t \in Nat /\ t <= Len(Text[r]) /\ t <= MaxModelLen /\ 0 \in Nat
    BY <1>4, <1>6
  <2> QED
    BY <1>2, <1>5, <1>7, <1>8, <2>1, <2>2, AllocateInOrder
<1>10. total_computed_tokens(0, hit) = c /\ Need(0, n, 0, hit) = c + n
  <2>1. total_computed_tokens(0, hit) = min(c, MaxModelLen)
    BY <1>3 DEF total_computed_tokens
  <2>2. total_computed_tokens(0, hit) = c
    BY <1>3, <1>4, <1>5, <2>1 DEF min
  <2> QED
    BY <1>3, <1>4, <1>5, <2>2 DEF Need, num_tokens_need_slot, min
<1>11. kv'.req_to_blocks[r] = kv.req_to_blocks[r] \o hit \o new
  <2>1. kv.req_to_blocks \in [Request -> Seq(Block)]
    BY <1>7, SoundFields DEF InOrder
  <2> QED
    BY <1>2, <1>9, <2>1 DEF Allocated
<1>12. PICK s, u : s = step.scheduled /\ u = Append(s, [req |-> r, n |-> n])
  OBVIOUS
<1>13. /\ Len(u) = Len(s) + 1 /\ Len(s) \in Nat /\ \A i \in 1 .. Len(s) : u[i] = s[i]
       /\ u[Len(u)].req = r /\ u[Len(u)].n = n
       /\ \A i \in 1 .. Len(s) : s[i].req \in Request \ {r}
  <2>1. \A i \in 1 .. Len(s) : s[i].req \in ToSet(running)
    BY <1>12 DEF EngineInv, Loop
  <2>2. r \notin ToSet(running) /\ ToSet(running) \subseteq Request
    BY <1>2 DEF EngineInv, Queues
  <2> QED
    BY <1>2, <1>12, <2>1, <2>2
<1>14. step'.scheduled = u
  <2>1. PICK b, z : step' = [step EXCEPT !.scheduled = u, !.resumed = z, !.token_budget = b]
    BY <1>1, <1>12
  <2> QED
    BY <1>2, <2>1 DEF Locals
<1>15. /\ status'[r] = "RUNNING" /\ num_computed'[r] = c
       /\ \A q \in Request : q # r => status'[q] = status[q] /\ num_computed'[q] = num_computed[q]
  BY <1>1, <1>2, <1>3
<1>16. f <= max(CachedOf(kv, r) + Len(hit), (num_computed'[r] + n) \div BlockSize)
  BY <1>9, <1>10, <1>15
<1>17. num_computed'[r] + n <= Len(kv'.req_to_blocks[r]) * BlockSize
  BY <1>9, <1>10, <1>11, <1>15
<1>18. Grows(r, hit, n, new, f)
  BY <1>2, <1>3, <1>5, <1>7, <1>9, <1>12, <1>13, <1>14, <1>15, <1>16, <1>17 DEF Grows
<1> QED
  BY <1>18

\* free_request() of a request that stops running, in terms of tables and counts.
LEMMA FreeOthers ==
    ASSUME NEW k, InOrder(k), NEW v \in Request, NEW m, m = free_request(k, v)
    PROVE  /\ InOrder(m) /\ m.pool.block_hash = k.pool.block_hash /\ m.req_to_blocks[v] = <<>>
           /\ CachedOf(m, v) = 0
           /\ \A q \in Request : q # v => /\ m.req_to_blocks[q] = k.req_to_blocks[q]
                                          /\ CachedOf(m, q) = CachedOf(k, q)
<1>1. Freed(k, m, v) /\ InOrder(m)
  BY FreedInOrder
<1>2. k.req_to_blocks \in [Request -> Seq(Block)] /\ k.num_cached_block \in [Request -> Int]
  BY SoundFields DEF InOrder
<1>3. /\ m.req_to_blocks = [k.req_to_blocks EXCEPT ![v] = <<>>]
      /\ m.num_cached_block = [k.num_cached_block EXCEPT ![v] = Absent]
      /\ m.pool.block_hash = k.pool.block_hash
  BY <1>1 DEF Freed
<1> QED
  BY <1>1, <1>2, <1>3 DEF CachedOf, Absent, max

\* Preempting all running requests keeps the order.
LEMMA PreemptAllInOrder ==
    ASSUME Types, InOrder(kv)
    PROVE  InOrder(PreemptAll.kv)
<1> DEFINE N == Len(running)
<1>1. running \in Seq(Request) /\ N \in Nat /\ \A i \in 1 .. N : running[i] \in Request
  BY DEF Types
<1>2. PICK g : PreemptAll = g[N] /\ Preempts(g)
  BY <1>1, PreemptStep
<1> DEFINE Good(i) == InOrder(g[i].kv)
           T == {i \in 0 .. N : ~Good(i)}
<1>3. Good(0)
  BY <1>2 DEF Preempts
<1>4. ASSUME NEW i \in 1 .. N, Good(i - 1) PROVE Good(i)
  <2>1. PICK r : r = running[N + 1 - i]
    OBVIOUS
  <2>2. N + 1 - i \in 1 .. N
    BY <1>1
  <2>3. r \in Request
    BY <1>1, <2>1, <2>2
  <2>4. g[i].kv = free_request(g[i - 1].kv, r)
    <3>1. g[i] = [waiting |-> prepend_request(g[i - 1].waiting, running[N + 1 - i]),
                  kv |-> free_request(g[i - 1].kv, running[N + 1 - i])]
      BY <1>2, Zenon DEF Preempts
    <3> QED
      BY <2>1, <3>1
  <2> QED
    BY <1>4, <2>3, <2>4, FreedInOrder
<1>5. Good(N)
  <2> HIDE DEF Good
  <2>1. SUFFICES ASSUME T # {} PROVE FALSE
    BY <1>1
  <2>2. PICK x \in T : \A y \in T : x <= y
    <3>1. T \subseteq Nat
      OBVIOUS
    <3> HIDE DEF T
    <3> QED
      BY <2>1, <3>1, LeastNat
  <2>3. x \in 0 .. N /\ ~Good(x)
    OBVIOUS
  <2>4. x # 0
    BY <1>3, <2>3
  <2>5. x \in 1 .. N /\ x - 1 \in 0 .. N /\ x - 1 \notin T
    <3> HIDE DEF T
    <3> QED
      BY <1>1, <2>2, <2>3, <2>4
  <2>6. Good(x - 1)
    BY <2>5
  <2> QED
    BY <1>4, <2>3, <2>5, <2>6
<1> QED
  BY <1>2, <1>5

\* A forced reset always finds the pool unused.
LEMMA ResetRunningFact ==
    ASSUME EngineInv, CacheInv
    PROVE  ResetRunningSucceeds /\ InOrder(PreemptAll.kv)
<1>1. PICK k : k = PreemptAll.kv
  OBVIOUS
<1>2. InOrder(k)
  BY <1>1, PreemptAllInOrder DEF EngineInv, CacheInv
<1>3. ASSUME NEW r \in Request PROVE k.req_to_blocks[r] = <<>>
  <2>1. k.req_to_blocks[r] = IF r \in ToSet(running) THEN <<>> ELSE kv.req_to_blocks[r]
    BY <1>1, PreemptAllFacts DEF EngineInv
  <2>2. r \notin ToSet(running) => kv.req_to_blocks[r] = <<>>
    BY DEF EngineInv, Queues, Held
  <2> QED
    BY <2>1, <2>2
<1>4. can_reset_prefix_cache(k.pool)
  BY <1>2, <1>3, NobodyHolds
<1> QED
  BY <1>1, <1>2, <1>4 DEF ResetRunningSucceeds

\* An empty batch under construction.
LEMMA EmptyBatch ==
    ASSUME EngineInv, pc \in {"idle", "popped", "output"}
    PROVE  step.scheduled = <<>> /\ Len(step.scheduled) = 0
BY IdleFacts DEF EngineInv, Phase

\* A request is aborted.
LEMMA AbortCache ==
    ASSUME EngineInv, CacheInv, NEW r \in Request, Abort(r)
    PROVE  CacheInv'
<1>1. /\ kv' = free_request(kv, r) /\ step' = step /\ num_computed' = num_computed
      /\ status' = [status EXCEPT ![r] = "FINISHED"] /\ pc \in {"idle", "popped"}
      /\ status \in [Request -> Status]
  BY DEF Abort, EngineInv, Types
<1>2. /\ InOrder(kv') /\ \A q \in Request : q # r => kv'.req_to_blocks[q] = kv.req_to_blocks[q]
  BY <1>1, FreeOthers DEF CacheInv
<1>3. Len(step'.scheduled) = 0
  BY <1>1, EmptyBatch
<1>4. /\ status'[r] # "RUNNING"
      /\ \A q \in Request : q # r => num_computed'[q] = num_computed[q] /\ (status'[q] = "RUNNING" => status[q] = "RUNNING")
  BY <1>1
<1>5. HasSlots'
  BY <1>2, <1>3, <1>4, LoseSlots DEF CacheInv
<1> QED
  BY <1>2, <1>5 DEF CacheInv

\* reset_prefix_cache() changes no table.
LEMMA ResetIdleCache ==
    ASSUME EngineInv, CacheInv, ResetIdle
    PROVE  CacheInv' /\ kv'.req_to_blocks = kv.req_to_blocks /\ kv'.pool.block_hash = [b \in Block |-> NoHash]
<1>1. kv' = [kv EXCEPT !.pool = reset_prefix_cache(@)] /\ UNCHANGED <<num_computed, status, step>>
  BY DEF ResetIdle, reqVars
<1>2. InOrder(kv') /\ kv'.req_to_blocks = kv.req_to_blocks /\ kv'.pool.block_hash = [b \in Block |-> NoHash]
  BY <1>1, ResetInOrder DEF CacheInv
<1>3. HasSlots'
  BY <1>1, <1>2, KeepSlots DEF CacheInv
<1> QED
  BY <1>2, <1>3 DEF CacheInv

\* A forced reset empties the cache and all tables.
LEMMA ResetRunningCache ==
    ASSUME EngineInv, CacheInv, ResetRunning
    PROVE  /\ CacheInv' /\ kv'.pool.block_hash = [b \in Block |-> NoHash]
           /\ \A r \in Request : status'[r] # "RUNNING" /\ kv'.req_to_blocks[r] = <<>>
<1>1. PICK k : k = PreemptAll.kv
  OBVIOUS
<1>2. can_reset_prefix_cache(k.pool) /\ InOrder(k)
  BY <1>1, ResetRunningFact DEF ResetRunningSucceeds
<1>3. kv' = [k EXCEPT !.pool = reset_prefix_cache(@)]
  BY <1>1, <1>2 DEF ResetRunning
<1>4. InOrder(kv') /\ kv'.req_to_blocks = k.req_to_blocks /\ kv'.pool.block_hash = [b \in Block |-> NoHash]
  BY <1>2, <1>3, ResetInOrder
<1>5. ASSUME NEW r \in Request PROVE status'[r] # "RUNNING" /\ kv'.req_to_blocks[r] = <<>>
  <2>1. k.req_to_blocks[r] = IF r \in ToSet(running) THEN <<>> ELSE kv.req_to_blocks[r]
    BY <1>1, PreemptAllFacts DEF EngineInv
  <2>2. r \notin ToSet(running) => kv.req_to_blocks[r] = <<>> /\ status[r] # "RUNNING"
    BY DEF EngineInv, Queues, Held
  <2>3. status'[r] = IF r \in ToSet(running) THEN "PREEMPTED" ELSE status[r]
    BY DEF ResetRunning
  <2> QED
    BY <1>4, <2>1, <2>2, <2>3
<1>6. Len(step'.scheduled) = 0
  BY EmptyBatch DEF ResetRunning
<1>7. HasSlots'
  BY <1>5, <1>6 DEF HasSlots
<1> QED
  BY <1>4, <1>5, <1>7 DEF CacheInv

\* The victim loses its table and its place in the batch.
LEMMA PreemptCache ==
    ASSUME EngineInv, CacheInv, PreemptRunning
    PROVE  CacheInv'
<1>1. PICK v : v = Victim
  OBVIOUS
<1>2. /\ pc = "allocate" /\ status' = [status EXCEPT ![v] = "PREEMPTED"] /\ kv' = free_request(kv, v)
      /\ num_computed' = [num_computed EXCEPT ![v] = 0] /\ step' = Unschedule(v)
  BY <1>1 DEF PreemptRunning, Victim
<1>3. v \in Request
  BY <1>1, <1>2, VictimFacts
<1>4. /\ status \in [Request -> Status] /\ num_computed \in [Request -> Int] /\ Types
      /\ step.scheduled \in Seq(Slice) /\ OncePerRequest(step.scheduled)
  BY StepFacts DEF EngineInv, Types, Loop
<1>5. PICK w : w = Rest(step.scheduled, v)
  OBVIOUS
<1>6. step'.scheduled = w
  BY <1>2, <1>4, <1>5, UnscheduleFacts
<1>7. \A l \in 1 .. Len(w) : /\ w[l].req \in Request \ {v}
                             /\ \E i \in 1 .. Len(step.scheduled) : w[l] = step.scheduled[i]
  <2>1. \A l \in 1 .. Len(w) : w[l].req # v /\ \E i \in 1 .. Len(step.scheduled) : w[l] = step.scheduled[i]
    BY <1>4, <1>5, LeftOver
  <2>2. \A i \in 1 .. Len(step.scheduled) : step.scheduled[i].req \in Request
    BY <1>4, EntryFacts
  <2> QED
    BY <2>1, <2>2
<1>8. InOrder(kv') /\ \A q \in Request : q # v => kv'.req_to_blocks[q] = kv.req_to_blocks[q]
  BY <1>2, <1>3, FreeOthers DEF CacheInv
<1>9. /\ status'[v] # "RUNNING"
      /\ \A q \in Request : q # v => num_computed'[q] = num_computed[q] /\ (status'[q] = "RUNNING" => status[q] = "RUNNING")
  BY <1>2, <1>3, <1>4
<1>10. HasSlots'
  BY <1>3, <1>6, <1>7, <1>8, <1>9, LoseSlots DEF CacheInv
<1> QED
  BY <1>8, <1>10 DEF CacheInv

\* The batch goes into flight: its tokens count as computed.
LEMMA SubmitCache ==
    ASSUME EngineInv, CacheInv, Submit
    PROVE  CacheInv'
<1>1. /\ kv' = kv /\ status' = status /\ step' = IdleStep
      /\ num_computed' = [r \in Request |-> Computed(r)]
      /\ step.scheduled \in Seq(Slice) /\ OncePerRequest(step.scheduled)
  BY SubmitFacts, StepFacts DEF Submit, EngineInv, Loop
<1>2. Len(step'.scheduled) = 0
  BY <1>1, IdleFacts
<1>3. ASSUME NEW r \in Request, status[r] = "RUNNING" PROVE Computed(r) <= Slots(r)
  <2>1. CASE r \in Scheduled
    <3>1. PICK i \in 1 .. Len(step.scheduled) : step.scheduled[i].req = r
      BY <1>1, <2>1, ScheduledFacts
    <3>2. ScheduledTokens(r) = step.scheduled[i].n
      BY <1>1, <3>1, ScheduledFacts
    <3> QED
      BY <3>1, <3>2 DEF CacheInv, HasSlots, Computed
  <2>2. CASE r \notin Scheduled
    <3>1. ScheduledTokens(r) = 0 /\ num_computed[r] \in Int
      BY <1>1, <2>2, ScheduledFacts, LengthFacts DEF EngineInv
    <3> QED
      BY <1>3, <3>1 DEF CacheInv, HasSlots, Computed
  <2> QED
    BY <2>1, <2>2
<1>4. HasSlots'
  BY <1>1, <1>2, <1>3 DEF HasSlots, Slots
<1> QED
  BY <1>1, <1>4 DEF CacheInv

\* What a sampled token of r does to the cache: k is the manager once the full blocks of r
\* are cached, and r may then be freed.
Applies(r, k) ==
    /\ r \in Request /\ InOrder(k) /\ k.req_to_blocks = kv.req_to_blocks
    /\ \/ k = kv
       \/ \E t \in Nat : /\ status[r] = "RUNNING" /\ t <= num_computed[r]
                         /\ Allocated(kv, k, r, <<>>, <<>>, max(CachedOf(kv, r), t \div BlockSize))
    /\ \/ status' = [status EXCEPT ![r] = "FINISHED"] /\ kv' = free_request(k, r)
       \/ status' = status /\ kv' = k
    /\ UNCHANGED <<num_computed, step, data>>

\* The tokens that are cached have been computed.
LEMMA ApplyFacts ==
    ASSUME EngineInv, Orderly, TokenInv, CacheInv, ApplyOutput, UNCHANGED mode
    PROVE  \E r, k : Applies(r, k)
<1>1. /\ pc = "output" /\ pc' = "output" /\ out # <<>> /\ out' = Tail(out) /\ ~Dropped(Head(out))
      /\ UNCHANGED <<num_computed, batches, step, data>> /\ mode' = mode
  BY DEF ApplyOutput
<1>2. PICK e : e = out[1]
  OBVIOUS
<1>3. First = out /\ e = Head(out) /\ e.req \in Request /\ (e.pos # 0 => HasToken(First, e.req))
  BY <1>1, <1>2, RestOfBatch
<1>4. PICK r \in Request : r = e.req
  BY <1>3
<1>5. Live(r) /\ HasToken(First, r)
  BY <1>1, <1>3, <1>4 DEF Dropped
<1>6. PICK t : t = num_computed[r] - PlaceholdersLeft(r)
  OBVIOUS
<1>7. PICK k : k = IF AsyncScheduling /\ EnableCaching /\ status[r] = "RUNNING"
                   THEN cache_blocks(kv, r, t) ELSE kv
  OBVIOUS
<1>8. \/ status' = [status EXCEPT ![r] = "FINISHED"] /\ kv' = free_request(k, r)
      \/ status' = status /\ kv' = k
  BY <1>3, <1>4, <1>6, <1>7 DEF ApplyOutput
<1>9. InOrder(kv)
  BY DEF CacheInv
<1>10. CASE k = kv
  BY <1>1, <1>8, <1>9, <1>10 DEF Applies
<1>11. CASE AsyncScheduling /\ status[r] = "RUNNING" /\ k = cache_blocks(kv, r, t)
  <2>1. /\ NumTokens(r) \in Nat \ {0} /\ num_computed[r] \in Int /\ placeholders[r] \in Int /\ Len(Text[r]) \in Nat
    BY LengthFacts, Facts DEF EngineInv
  <2>2. BoundsAt(r) /\ NumberedAt(r)
    BY DEF TokenInv, Requests, RequestInv
  <2>3. Pending(r) \in {1, 2}
    BY <1>5 DEF Pending, Count
  <2>4. num_computed[r] = NumTokens(r) + Pending(r) - 1 /\ placeholders[r] = Pending(r)
    BY <1>5, <1>11, <2>2, <2>3 DEF NumberedAt
  <2>5. PlaceholdersLeft(r) = placeholders[r] - 1
    BY <1>11 DEF PlaceholdersLeft
  <2>6. t = NumTokens(r) /\ t <= num_computed[r] /\ t \in Nat
    BY <1>6, <2>1, <2>3, <2>4, <2>5
  <2>7. t <= Len(Text[r])
    BY <1>5, <2>1, <2>2, <2>6 DEF BoundsAt, Live
  <2>8. PICK h : h = Len(kv.req_to_blocks[r])
    OBVIOUS
  <2>9. h \in Nat /\ BlockSize \in Nat \ {0} /\ num_computed[r] <= h * BlockSize
    BY <1>9, <1>11, <2>8, TableTypes, Constants DEF InOrder, CacheInv, HasSlots, Slots
  <2>10. PICK x : x = h * BlockSize
    OBVIOUS
  <2>11. x \in Nat /\ t <= x
    BY <2>1, <2>6, <2>9, <2>10
  <2>12. t \div BlockSize <= h
    <3>1. PICK d : d = t \div BlockSize
      OBVIOUS
    <3>2. d \in Nat /\ d * BlockSize <= t
      BY <2>6, <2>9, <3>1, DivFacts
    <3>3. PICK y : y = d * BlockSize
      OBVIOUS
    <3>4. y \in Nat /\ y <= x
      BY <2>6, <2>9, <2>11, <3>2, <3>3
    <3>5. ASSUME h + 1 <= d PROVE FALSE
      <4>1. (h + 1) * BlockSize <= d * BlockSize /\ (h + 1) * BlockSize = h * BlockSize + BlockSize
        BY <2>9, <3>2, <3>5
      <4> QED
        BY <2>9, <2>10, <2>11, <3>3, <3>4, <4>1
    <3> QED
      BY <2>9, <3>1, <3>2, <3>5
  <2>13. /\ InOrder(k)
         /\ Allocated(kv, k, r, <<>>, <<>>, max(CachedOf(kv, r), t \div BlockSize))
    BY <1>9, <1>11, <2>6, <2>7, <2>8, <2>12, CacheInOrder
  <2>14. k.req_to_blocks = kv.req_to_blocks
    BY <1>11, CacheTables DEF EngineInv, Types
  <2> QED
    BY <1>1, <1>8, <1>11, <2>6, <2>13, <2>14 DEF Applies
<1> QED
  BY <1>7, <1>10, <1>11

\* It keeps the order.
LEMMA AppliesCache ==
    ASSUME EngineInv, CacheInv, pc = "output", NEW r, NEW k, Applies(r, k)
    PROVE  CacheInv'
<1>1. /\ r \in Request /\ InOrder(k) /\ k.req_to_blocks = kv.req_to_blocks
      /\ num_computed' = num_computed /\ step' = step
      /\ \/ status' = [status EXCEPT ![r] = "FINISHED"] /\ kv' = free_request(k, r)
         \/ status' = status /\ kv' = k
  BY DEF Applies
<1>2. Len(step'.scheduled) = 0 /\ status \in [Request -> Status] /\ HasSlots
  BY <1>1, EmptyBatch DEF EngineInv, Types, CacheInv
<1>3. CASE status' = [status EXCEPT ![r] = "FINISHED"] /\ kv' = free_request(k, r)
  <2>1. InOrder(kv') /\ \A q \in Request : q # r => kv'.req_to_blocks[q] = kv.req_to_blocks[q]
    BY <1>1, <1>3, FreeOthers
  <2>2. /\ status'[r] # "RUNNING"
        /\ \A q \in Request : q # r => num_computed'[q] = num_computed[q] /\ (status'[q] = "RUNNING" => status[q] = "RUNNING")
    BY <1>1, <1>2, <1>3
  <2>3. HasSlots'
    BY <1>1, <1>2, <2>1, <2>2, LoseSlots
  <2> QED
    BY <2>1, <2>3 DEF CacheInv
<1>4. CASE status' = status /\ kv' = k
  <2>1. HasSlots'
    BY <1>1, <1>2, <1>4, KeepSlots
  <2> QED
    BY <1>1, <1>4, <2>1 DEF CacheInv
<1> QED
  BY <1>1, <1>3, <1>4

\* Steps that leave the cache, the counters and the batch under construction alone.
Quiet ==
    /\ kv' = kv /\ num_computed' = num_computed /\ step'.scheduled = step.scheduled
    /\ \A r \in Request : status'[r] = "RUNNING" <=> status[r] = "RUNNING"

\* The other steps of the engine are of this kind.
LEMMA QuietSteps ==
    ASSUME EngineInv,
           \/ UNCHANGED vars
           \/ BeginStep \/ DrainStep \/ PickRunning \/ EndRunningLoop \/ EndWaitingLoop \/ PopBatch
           \/ DropOutput \/ EndStep
           \/ \E r \in Request : Add(r)
           \/ \E p \in {"UNPAUSED", "PAUSED_NEW", "PAUSED_ALL"} : set_pause_state(p)
    PROVE  Quiet /\ data' = data
<1>1. step \in Locals /\ status \in [Request -> Status]
  BY DEF EngineInv, Types
<1>2. CASE UNCHANGED vars
  BY <1>2 DEF vars, reqVars, envVars, Quiet
<1>3. CASE BeginStep
  <2>1. PICK n : step' = [IdleStep EXCEPT !.token_budget = n]
    BY <1>3 DEF BeginStep
  <2>2. step'.scheduled = <<>> /\ step.scheduled = <<>>
    BY <1>3, <2>1, IdleFacts, EmptyBatch DEF BeginStep
  <2> QED
    BY <1>3, <2>2 DEF BeginStep, reqVars, envVars, Quiet
<1>4. CASE DrainStep
  BY <1>4 DEF DrainStep, reqVars, envVars, Quiet
<1>5. CASE PickRunning
  <2>1. step'.scheduled = step.scheduled
    <3>1. \/ \E x : step' = [step EXCEPT !.req_index = x]
          \/ \E x, y : step' = [step EXCEPT !.cur = x, !.num_new = y]
      BY <1>5 DEF PickRunning
    <3> QED
      BY <1>1, <3>1 DEF Locals
  <2> QED
    BY <1>5, <2>1 DEF PickRunning, reqVars, envVars, Quiet
<1>6. CASE EndRunningLoop \/ EndWaitingLoop
  BY <1>6 DEF EndRunningLoop, EndWaitingLoop, reqVars, envVars, Quiet
<1>7. CASE PopBatch \/ EndStep
  BY <1>7 DEF PopBatch, EndStep, reqVars, envVars, Quiet
<1>8. CASE DropOutput
  BY <1>8 DEF DropOutput, envVars, Quiet
<1>9. ASSUME NEW r \in Request, Add(r) PROVE Quiet /\ data' = data
  BY <1>1, <1>9 DEF Add, envVars, Quiet
<1>10. ASSUME NEW p, set_pause_state(p) PROVE Quiet /\ data' = data
  BY <1>10 DEF set_pause_state, reqVars, Quiet
<1> QED
  BY <1>2, <1>3, <1>4, <1>5, <1>6, <1>7, <1>8, <1>9, <1>10

\* Every step keeps the cache in order.
LEMMA CacheNext ==
    ASSUME EngineInv, Orderly, TokenInv, CacheInv, [Next]_vars
    PROVE  CacheInv'
<1>1. ASSUME Quiet PROVE CacheInv'
  BY <1>1, KeepSlots DEF Quiet, CacheInv
<1>2. CASE UNCHANGED vars
  BY <1>1, <1>2, QuietSteps
<1>3. CASE Engine
  <2>1. UNCHANGED mode /\ EngineStep
    BY <1>3 DEF Engine
  <2>2. CASE AllocateRunning
    BY <2>2, AllocateGrows, GrowsCache
  <2>3. CASE AdmitWaiting
    BY <2>3, AdmitGrows, GrowsCache
  <2>4. CASE ApplyOutput
    <3>1. \E r, k : Applies(r, k)
      BY <2>1, <2>4, ApplyFacts
    <3> QED
      BY <2>4, <3>1, AppliesCache DEF ApplyOutput
  <2> QED
    BY <1>1, <2>1, <2>2, <2>3, <2>4, QuietSteps, PreemptCache, SubmitCache DEF EngineStep
<1>4. CASE Client
  <2>1. ClientStep
    BY <1>4 DEF Client
  <2> QED
    BY <1>1, <2>1, QuietSteps, AbortCache, ResetRunningCache, ResetIdleCache DEF ClientStep
<1> QED
  BY <1>2, <1>3, <1>4 DEF Next

\* Block tables, reference counts and hashes are in order, and every token that is computed
\* has a slot.
THEOREM CacheInvHolds == Spec => [](Orderly => CacheInv)
<1>1. Init => (Orderly => CacheInv)
  BY InitCache
<1>2. IInv /\ (Orderly => CacheInv) /\ [Next]_vars => (Orderly => CacheInv)'
  <2>1. SUFFICES ASSUME IInv, Orderly => CacheInv, [Next]_vars, Orderly' PROVE CacheInv'
    OBVIOUS
  <2>2. Orderly
    BY <2>1, ModeFixed DEF Orderly
  <2> QED
    BY <2>1, <2>2, CacheNext DEF IInv
<1> QED
  BY <1>1, <1>2, IInvHolds, PTL DEF Spec

\* AssertionsHold: the assertions of schedule() hold, and the RuntimeError of
\* reset_prefix_cache(reset_running_requests=True) is never raised.
THEOREM AssertionsHoldAlways == Spec => [](Orderly => AssertionsHold)
<1>1. IInv /\ (Orderly => CacheInv) => (Orderly => ResetRunningSucceeds)
  BY ResetRunningFact DEF IInv
<1>2. (Orderly => ScheduleAsserts) /\ (Orderly => ResetRunningSucceeds) => (Orderly => AssertionsHold)
  BY DEF AssertionsHold
<1> QED
  BY <1>1, <1>2, IInvHolds, CacheInvHolds, ScheduleAssertsHold, PTL

-----------------------------------------------------------------------------
(* What the blocks contain.                                                   *)

\* Some request holds b where it has not computed all tokens yet: it will fill b.
Awaited(k, b) ==
    \E q \in Request : \E i \in 1 .. Len(k.req_to_blocks[q]) :
        k.req_to_blocks[q][i] = b /\ num_computed[q] < i * BlockSize

\* What r has computed of its block i is there, or r hits a block that is being filled.
FilledAt(k, r, i) ==
    \/ data[k.req_to_blocks[r][i]] = SubSeq(Text[r], 1, min(i * BlockSize, num_computed[r]))
    \/ i * BlockSize <= num_computed[r] /\ Awaited(k, k.req_to_blocks[r][i])

Filled(k) ==
    \A r \in Request : status[r] = "RUNNING" =>
        \A i \in 1 .. Len(k.req_to_blocks[r]) :
            (i - 1) * BlockSize < num_computed[r] => FilledAt(k, r, i)

\* The same for the prefix cache.
HashFilled(k) ==
    \A b \in Block : k.pool.block_hash[b] # NoHash =>
        data[b] = k.pool.block_hash[b] \/ Awaited(k, b)

\* At most one of the requests that share a block has yet to fill it.
OneWriter(k) ==
    \A r, q \in Request : r # q => \A i \in 1 .. Len(k.req_to_blocks[r]) :
        i <= Len(k.req_to_blocks[q]) /\ k.req_to_blocks[r][i] = k.req_to_blocks[q][i] =>
            i * BlockSize <= num_computed[r] \/ i * BlockSize <= num_computed[q]

\* The cached blocks of q are computed, with what the batch under construction computes.
CachedInTime(k, q) ==
    \/ CachedOf(k, q) * BlockSize <= num_computed[q]
    \/ \E l \in 1 .. Len(step.scheduled) :
          /\ step.scheduled[l].req = q
          /\ CachedOf(k, q) * BlockSize <= num_computed[q] + step.scheduled[l].n

DataInv(k) ==
    /\ Filled(k) /\ HashFilled(k) /\ OneWriter(k)
    /\ \A q \in Request : CachedInTime(k, q)

\* The request that is being allocated for is the next one of the loop.
CurIsNext ==
    pc = "allocate" => step.req_index < Len(running) /\ running[step.req_index + 1] = step.cur

\* Ends of blocks.
LEMMA BlockEnds ==
    /\ \A i \in Nat : i * BlockSize \in Nat
    /\ \A i, j \in Nat : i <= j => i * BlockSize <= j * BlockSize
    /\ \A i, j \in Nat : i < j => i * BlockSize < j * BlockSize
    /\ \A i \in Nat \ {0} : (i - 1) * BlockSize \in Nat /\ (i - 1) * BlockSize < i * BlockSize
    /\ \A i, j \in Nat : i < j => i * BlockSize <= (j - 1) * BlockSize
<1>1. BlockSize \in Nat \ {0}
  BY Constants
<1>2. ASSUME NEW i \in Nat PROVE i * BlockSize \in Nat
  BY <1>1
<1>3. ASSUME NEW i \in Nat, NEW j \in Nat, i <= j PROVE i * BlockSize <= j * BlockSize
  BY <1>1, <1>3
<1>4. ASSUME NEW i \in Nat PROVE (i + 1) * BlockSize = i * BlockSize + BlockSize
  BY <1>1
<1>5. ASSUME NEW i \in Nat, NEW j \in Nat, i < j PROVE i * BlockSize < j * BlockSize
  <2>1. i * BlockSize + BlockSize <= j * BlockSize
    BY <1>3, <1>4, <1>5
  <2> QED
    BY <1>1, <1>2, <2>1
<1>6. ASSUME NEW i \in Nat \ {0} PROVE (i - 1) * BlockSize \in Nat /\ (i - 1) * BlockSize < i * BlockSize
  BY <1>2, <1>5
<1>7. ASSUME NEW i \in Nat, NEW j \in Nat, i < j PROVE i * BlockSize <= (j - 1) * BlockSize
  <2>1. j - 1 \in Nat /\ i <= j - 1
    BY <1>7
  <2> QED
    BY <1>3, <2>1
<1> QED
  BY <1>2, <1>3, <1>5, <1>6, <1>7

\* The counters are numbers.
LEMMA CountsAreNat ==
    ASSUME EngineInv, TokenInv
    PROVE  \A r \in Request : num_computed[r] \in Nat
BY LengthFacts DEF EngineInv, TokenInv, Requests, RequestInv, BoundsAt

\* A request that is not in the batch awaits no cached block.
LEMMA NotAwaited ==
    ASSUME NEW k, InOrder(k), NEW v \in Request, num_computed[v] \in Nat,
           CachedInTime(k, v), \A l \in 1 .. Len(step.scheduled) : step.scheduled[l].req # v,
           NEW i \in 1 .. Len(k.req_to_blocks[v]), num_computed[v] < i * BlockSize
    PROVE  ~(i <= CachedOf(k, v))
<1>1. CachedOf(k, v) * BlockSize <= num_computed[v]
  BY DEF CachedInTime
<1>2. CachedOf(k, v) \in Nat /\ i \in Nat
  BY TableTypes DEF InOrder
<1>3. ASSUME i <= CachedOf(k, v) PROVE FALSE
  <2>1. i * BlockSize <= CachedOf(k, v) * BlockSize /\ i * BlockSize \in Nat /\ CachedOf(k, v) * BlockSize \in Nat
    BY <1>2, <1>3, BlockEnds
  <2> QED
    BY <1>1, <2>1
<1> QED
  BY <1>3

\* A request that is not in the batch is freed: nobody waits for it to fill a block.
LEMMA FreeData ==
    ASSUME NEW k, InOrder(k), DataInv(k), NEW v \in Request,
           num_computed[v] \in Nat, num_computed'[v] \in Nat,
           \A l \in 1 .. Len(step.scheduled) : step.scheduled[l].req # v,
           status'[v] # "RUNNING", kv' = free_request(k, v), data' = data,
           \A q \in Request : q # v => /\ num_computed'[q] = num_computed[q]
                                       /\ status'[q] = "RUNNING" => status[q] = "RUNNING",
           \A l \in 1 .. Len(step.scheduled) : \E m \in 1 .. Len(step'.scheduled) :
              step'.scheduled[m] = step.scheduled[l]
    PROVE  DataInv(kv)'
<1>1. /\ kv'.pool.block_hash = k.pool.block_hash /\ kv'.req_to_blocks[v] = <<>> /\ CachedOf(kv', v) = 0
      /\ \A q \in Request : q # v => /\ kv'.req_to_blocks[q] = k.req_to_blocks[q]
                                     /\ CachedOf(kv', q) = CachedOf(k, q)
  BY FreeOthers
<1>2. ASSUME NEW i \in 1 .. Len(k.req_to_blocks[v]), num_computed[v] < i * BlockSize
      PROVE  ~(i <= CachedOf(k, v))
  BY <1>2, NotAwaited DEF DataInv
<1>3. ASSUME NEW b, Awaited(k, b),
             ~ \E i \in 1 .. Len(k.req_to_blocks[v]) :
                  k.req_to_blocks[v][i] = b /\ num_computed[v] < i * BlockSize
      PROVE  Awaited(kv, b)'
  <2>1. PICK q \in Request : \E i \in 1 .. Len(k.req_to_blocks[q]) :
                                k.req_to_blocks[q][i] = b /\ num_computed[q] < i * BlockSize
    BY <1>3 DEF Awaited
  <2>2. q # v
    BY <1>3, <2>1
  <2>3. kv'.req_to_blocks[q] = k.req_to_blocks[q] /\ num_computed'[q] = num_computed[q]
    BY <1>1, <2>2
  <2> QED
    BY <2>1, <2>3 DEF Awaited
<1>4. Filled(kv)'
  <2>1. SUFFICES ASSUME NEW r \in Request, status'[r] = "RUNNING",
                        NEW i \in 1 .. Len(kv'.req_to_blocks[r]),
                        (i - 1) * BlockSize < num_computed'[r]
                 PROVE  FilledAt(kv, r, i)'
    BY DEF Filled
  <2>2. r # v /\ num_computed'[r] = num_computed[r] /\ status[r] = "RUNNING" /\ kv'.req_to_blocks[r] = k.req_to_blocks[r]
    BY <1>1, <2>1
  <2>3. FilledAt(k, r, i)
    BY <2>1, <2>2 DEF DataInv, Filled
  <2>4. CASE data[k.req_to_blocks[r][i]] = SubSeq(Text[r], 1, min(i * BlockSize, num_computed[r]))
    BY <2>2, <2>4 DEF FilledAt
  <2>5. CASE i * BlockSize <= num_computed[r] /\ Awaited(k, k.req_to_blocks[r][i])
    <3>1. Shares(k, r, v)
      BY <2>2 DEF InOrder
    <3>2. \A j \in 1 .. Len(k.req_to_blocks[v]) :
             ~(k.req_to_blocks[v][j] = k.req_to_blocks[r][i] /\ num_computed[v] < j * BlockSize)
      BY <1>2, <2>1, <2>2, <3>1 DEF Shares
    <3>3. Awaited(kv, k.req_to_blocks[r][i])'
      BY <1>3, <2>5, <3>2
    <3> QED
      BY <2>2, <2>5, <3>3 DEF FilledAt
  <2> QED
    BY <2>3, <2>4, <2>5 DEF FilledAt
<1>5. HashFilled(kv)'
  <2>1. SUFFICES ASSUME NEW b \in Block, k.pool.block_hash[b] # NoHash, data[b] # k.pool.block_hash[b]
                 PROVE  Awaited(kv, b)'
    BY <1>1 DEF HashFilled
  <2>2. Awaited(k, b)
    BY <2>1 DEF DataInv, HashFilled
  <2>3. \A j \in 1 .. Len(k.req_to_blocks[v]) : k.req_to_blocks[v][j] = b => j <= CachedOf(k, v)
    BY <2>1 DEF InOrder, OwnHash
  <2> QED
    BY <1>2, <1>3, <2>2, <2>3
<1>6. OneWriter(kv)'
  <2>1. SUFFICES ASSUME NEW r \in Request, NEW q \in Request, r # q,
                        NEW i \in 1 .. Len(kv'.req_to_blocks[r]), i <= Len(kv'.req_to_blocks[q]),
                        kv'.req_to_blocks[r][i] = kv'.req_to_blocks[q][i]
                 PROVE  i * BlockSize <= num_computed'[r] \/ i * BlockSize <= num_computed'[q]
    BY DEF OneWriter
  <2>2. Len(<<>>) = 0 /\ i \in Nat /\ i >= 1
    OBVIOUS
  <2>3. r # v /\ q # v
    BY <1>1, <2>1, <2>2
  <2>4. /\ kv'.req_to_blocks[r] = k.req_to_blocks[r] /\ kv'.req_to_blocks[q] = k.req_to_blocks[q]
        /\ num_computed'[r] = num_computed[r] /\ num_computed'[q] = num_computed[q]
    BY <1>1, <2>3
  <2> QED
    BY <2>1, <2>4 DEF DataInv, OneWriter
<1>7. ASSUME NEW q \in Request PROVE CachedInTime(kv, q)'
  <2>1. CASE q = v
    <3>1. CachedOf(kv', q) * BlockSize = 0
      BY <1>1, <2>1, Constants
    <3> QED
      BY <2>1, <3>1 DEF CachedInTime
  <2>2. CASE q # v
    <3>1. num_computed'[q] = num_computed[q] /\ CachedOf(kv', q) = CachedOf(k, q) /\ CachedInTime(k, q)
      BY <1>1, <2>2 DEF DataInv
    <3> QED
      BY <3>1 DEF CachedInTime
  <2> QED
    BY <2>1, <2>2
<1> QED
  BY <1>4, <1>5, <1>6, <1>7 DEF DataInv

\* The hashes that Allocated gives to the blocks of r.
LEMMA OwnHashAt ==
    ASSUME NEW r, NEW blocks, NEW c, NEW f, NEW hashes, NEW b \in Block
    PROVE  \/ OwnHashes(r, blocks, c, f, hashes)[b] = hashes[b]
           \/ \E i \in (c + 1) .. f : /\ blocks[i] = b
                                      /\ OwnHashes(r, blocks, c, f, hashes)[b] = block_hashes(r, i)
<1>1. CASE \E i \in (c + 1) .. f : blocks[i] = b
  <2>1. PICK i : i = CHOOSE j \in (c + 1) .. f : blocks[j] = b
    OBVIOUS
  <2>2. i \in (c + 1) .. f /\ blocks[i] = b
    BY <1>1, <2>1
  <2> QED
    BY <1>1, <2>1, <2>2 DEF OwnHashes
<1>2. CASE ~ \E i \in (c + 1) .. f : blocks[i] = b
  BY <1>2 DEF OwnHashes
<1> QED
  BY <1>1, <1>2

\* The table of r grows from t to s: the c tokens that r has computed end before the new blocks.
LongerTable(r, hit, n, new, t, s, c) ==
    /\ r \in Request /\ n \in Nat /\ t \in Seq(Block) /\ hit \in Seq(Block) /\ new \in Seq(Block)
    /\ Len(t) \in Nat /\ Len(hit) \in Nat /\ Len(new) \in Nat
    /\ s = t \o hit \o new /\ Len(s) = Len(t) + Len(hit) + Len(new)
    /\ c <= (Len(t) + Len(hit)) * BlockSize /\ c \in Nat
    /\ \/ status[r] = "RUNNING" /\ hit = <<>> /\ Len(hit) = 0 /\ c = num_computed[r]
       \/ t = <<>> /\ Len(t) = 0 /\ c = Len(hit) * BlockSize /\ CachedOf(kv, r) = 0
    /\ \A i \in 1 .. Len(t) : s[i] = t[i]
    /\ \A i \in 1 .. Len(hit) : t = <<>> => s[i] = hit[i]
    /\ \A i \in 1 .. Len(s) : i > Len(t) + Len(hit) => s[i] \in ToSet(new)
    /\ \A b \in ToSet(new) : \A q \in Request : b \notin ToSet(kv.req_to_blocks[q])

\* The step extends the table of r so.
LEMMA GrowsTable ==
    ASSUME CacheInv, \A q \in Request : num_computed[q] \in Nat,
           NEW r, NEW hit, NEW n, NEW new, NEW f, Grows(r, hit, n, new, f),
           NEW t, t = kv.req_to_blocks[r], NEW s, s = kv'.req_to_blocks[r], NEW c, c = num_computed'[r]
    PROVE  LongerTable(r, hit, n, new, t, s, c)
<1>1. /\ r \in Request /\ n \in Nat \ {0} /\ hit \in Seq(Block) /\ InOrder(kv) /\ num_computed'[r] \in Nat
      /\ \/ status[r] = "RUNNING" /\ hit = <<>> /\ num_computed'[r] = num_computed[r]
         \/ t = <<>> /\ num_computed'[r] = Len(hit) * BlockSize
      /\ Allocated(kv, kv', r, hit, new, f)
  BY DEF Grows, CacheInv
<1>2. /\ t \in Seq(Block) /\ Len(t) \in Nat /\ Len(hit) \in Nat /\ Sound(kv)
  BY <1>1, TableTypes DEF InOrder
<1>3. new \in Seq(Block) /\ Len(new) \in Nat /\ ToSet(new) \subseteq ToSet(kv.pool.free)
  BY <1>1 DEF Allocated
<1>4. kv'.req_to_blocks[r] = t \o hit \o new
  BY <1>1, GrowsOthers
<1>5. /\ Len(t \o hit \o new) = Len(t) + Len(hit) + Len(new)
      /\ \A i \in 1 .. Len(t) : (t \o hit \o new)[i] = t[i]
      /\ \A i \in 1 .. Len(hit) : (t \o hit \o new)[Len(t) + i] = hit[i]
      /\ \A i \in 1 .. (Len(t) + Len(hit) + Len(new)) : i > Len(t) + Len(hit) =>
            (t \o hit \o new)[i] = new[i - Len(t) - Len(hit)]
  <2>1. PICK u : u = t \o hit
    OBVIOUS
  <2>2. /\ u \in Seq(Block) /\ Len(u) = Len(t) + Len(hit)
        /\ \A i \in 1 .. Len(t) : u[i] = t[i]
        /\ \A i \in 1 .. Len(hit) : u[Len(t) + i] = hit[i]
    BY <1>1, <1>2, <2>1
  <2>3. /\ Len(u \o new) = Len(u) + Len(new)
        /\ \A i \in 1 .. Len(u) : (u \o new)[i] = u[i]
        /\ \A i \in 1 .. (Len(u) + Len(new)) : i > Len(u) => (u \o new)[i] = new[i - Len(u)]
    <3>1. u \in Seq(Block) /\ new \in Seq(Block)
      BY <1>3, <2>2
    <3> QED
      BY ONLY <3>1
  <2>4. t \o hit \o new = u \o new
    BY <2>1
  <2>5. ASSUME NEW i \in 1 .. Len(t) PROVE (u \o new)[i] = t[i]
    BY <1>2, <2>2, <2>3
  <2>6. ASSUME NEW i \in 1 .. Len(hit) PROVE (u \o new)[Len(t) + i] = hit[i]
    <3>1. Len(t) \in Nat /\ Len(hit) \in Nat /\ Len(u) = Len(t) + Len(hit)
      BY <1>2, <2>2
    <3>2. Len(t) + i \in 1 .. Len(u)
      BY ONLY <3>1, i \in 1 .. Len(hit)
    <3> QED
      BY <2>2, <2>3, <3>2
  <2>7. ASSUME NEW i \in 1 .. (Len(t) + Len(hit) + Len(new)), i > Len(t) + Len(hit)
        PROVE  (u \o new)[i] = new[i - Len(t) - Len(hit)]
    <3>1. i - Len(u) = i - Len(t) - Len(hit)
      BY <1>2, <2>2
    <3> QED
      BY <2>2, <2>3, <2>7, <3>1
  <2> QED
    BY <2>2, <2>3, <2>4, <2>5, <2>6, <2>7
<1>6. ASSUME NEW i \in 1 .. Len(kv'.req_to_blocks[r]), i > Len(t) + Len(hit)
      PROVE  kv'.req_to_blocks[r][i] \in ToSet(new)
  <2>1. i - Len(t) - Len(hit) \in 1 .. Len(new)
    BY <1>2, <1>3, <1>4, <1>5, <1>6
  <2>2. new[i - Len(t) - Len(hit)] \in ToSet(new)
    BY <1>3, <2>1, SeqFacts
  <2> QED
    BY <1>4, <1>5, <1>6, <2>2
<1>7. ASSUME NEW i \in 1 .. Len(hit), t = <<>> PROVE kv'.req_to_blocks[r][i] = hit[i]
  <2>1. Len(t) = 0 /\ 0 + i = i
    BY <1>7
  <2> QED
    BY <1>4, <1>5, <2>1
<1>8. ASSUME NEW b \in ToSet(new), NEW q \in Request PROVE b \notin ToSet(kv.req_to_blocks[q])
  <2>1. b \in Block /\ b \in ToSet(kv.pool.free)
    BY <1>2, <1>3, <1>8, SoundFields
  <2> QED
    BY <1>1, <2>1, FreeUnused
<1>9. CASE status[r] = "RUNNING" /\ hit = <<>> /\ num_computed'[r] = num_computed[r]
  <2>1. Len(hit) = 0 /\ Len(t) + Len(hit) = Len(t)
    BY <1>2, <1>9
  <2>2. num_computed'[r] <= (Len(t) + Len(hit)) * BlockSize
    BY <1>1, <1>9, <2>1 DEF CacheInv, HasSlots, Slots
  <2> QED
    BY <1>1, <1>2, <1>3, <1>4, <1>5, <1>6, <1>7, <1>8, <1>9, <2>1, <2>2 DEF LongerTable
<1>10. CASE t = <<>> /\ num_computed'[r] = Len(hit) * BlockSize
  <2>1. Len(t) = 0 /\ Len(t) + Len(hit) = Len(hit) /\ Len(hit) * BlockSize \in Nat
    BY <1>2, <1>10, BlockEnds
  <2>2. CachedOf(kv, r) = 0
    <3>1. kv.num_cached_block[r] = Absent
      BY <1>1, <1>10 DEF InOrder, TidyTable
    <3> QED
      BY <3>1 DEF CachedOf, Absent, max
  <2>3. num_computed'[r] <= (Len(t) + Len(hit)) * BlockSize
    BY <1>10, <2>1
  <2> QED
    BY <1>1, <1>2, <1>3, <1>4, <1>5, <1>6, <1>7, <1>8, <1>10, <2>1, <2>2, <2>3 DEF LongerTable
<1> QED
  BY <1>1, <1>9, <1>10

\* Slots are taken: what was awaited still is, a hit is as good as the cache, and the blocks
\* that get a hash are full of computed tokens or new.
LEMMA GrowsData ==
    ASSUME CacheInv, \A q \in Request : num_computed[q] \in Nat, DataInv(kv),
           NEW r, NEW hit, NEW n, NEW new, NEW f, Grows(r, hit, n, new, f), data' = data
    PROVE  DataInv(kv)'
<1>1. PICK t : t = kv.req_to_blocks[r]
  OBVIOUS
<1>2. PICK s, c : s = kv'.req_to_blocks[r] /\ c = num_computed'[r]
  OBVIOUS
<1>3. LongerTable(r, hit, n, new, t, s, c)
  BY <1>1, <1>2, GrowsTable
<1>4. /\ r \in Request /\ n \in Nat /\ t \in Seq(Block) /\ hit \in Seq(Block) /\ new \in Seq(Block)
      /\ Len(t) \in Nat /\ Len(hit) \in Nat /\ Len(new) \in Nat
      /\ s = t \o hit \o new /\ Len(s) = Len(t) + Len(hit) + Len(new)
      /\ c <= (Len(t) + Len(hit)) * BlockSize /\ c \in Nat
      /\ \/ status[r] = "RUNNING" /\ hit = <<>> /\ Len(hit) = 0 /\ c = num_computed[r]
         \/ t = <<>> /\ Len(t) = 0 /\ c = Len(hit) * BlockSize /\ CachedOf(kv, r) = 0
      /\ \A i \in 1 .. Len(t) : s[i] = t[i]
      /\ \A i \in 1 .. Len(hit) : t = <<>> => s[i] = hit[i]
      /\ \A i \in 1 .. Len(s) : i > Len(t) + Len(hit) => s[i] \in ToSet(new)
      /\ \A b \in ToSet(new) : \A q \in Request : b \notin ToSet(kv.req_to_blocks[q])
  BY <1>3 DEF LongerTable
<1>5. /\ CachedOf(kv', r) = f
      /\ \A q \in Request : q # r => /\ kv'.req_to_blocks[q] = kv.req_to_blocks[q]
                                     /\ CachedOf(kv', q) = CachedOf(kv, q)
                                     /\ num_computed'[q] = num_computed[q] /\ status'[q] = status[q]
  BY GrowsOthers DEF CacheInv, Grows
<1>6. /\ \A i \in 1 .. Len(hit) : i \in FullBlocks(r) /\ kv.pool.block_hash[hit[i]] = block_hashes(r, i)
      /\ InOrder(kv) /\ InOrder(kv') /\ Allocated(kv, kv', r, hit, new, f)
      /\ f <= max(CachedOf(kv, r) + Len(hit), (c + n) \div BlockSize)
  BY <1>2 DEF Grows, CacheInv
<1>7. r \in Request /\ Len(t) + Len(hit) \in Nat /\ CachedOf(kv, r) \in Nat /\ c \in Nat
  <2>1. r \in Request /\ Len(t) \in Nat /\ Len(hit) \in Nat /\ c \in Nat
    BY <1>4
  <2>2. CachedOf(kv, r) \in Nat
    BY <1>6, <2>1, TableTypes DEF InOrder
  <2> QED
    BY ONLY <2>1, <2>2
\* A block at whose place r has computed a token is an old one, or a hit.
<1>8. ASSUME NEW i \in 1 .. Len(s), (i - 1) * BlockSize < c
      PROVE  i <= Len(t) + Len(hit)
  <2>1. ASSUME Len(t) + Len(hit) < i PROVE FALSE
    <3>1. (Len(t) + Len(hit)) * BlockSize <= (i - 1) * BlockSize /\ (i - 1) * BlockSize \in Nat
          /\ (Len(t) + Len(hit)) * BlockSize \in Nat
      <4>1. i \in Nat /\ i \in Nat \ {0}
        OBVIOUS
      <4> QED
        BY <1>7, <2>1, <4>1, BlockEnds
    <3> QED
      BY <1>4, <1>8, <3>1
  <2> QED
    BY <1>4, <2>1
<1>9. ASSUME NEW b, Awaited(kv, b) PROVE Awaited(kv, b)'
  <2>1. PICK q \in Request : \E i \in 1 .. Len(kv.req_to_blocks[q]) :
                                kv.req_to_blocks[q][i] = b /\ num_computed[q] < i * BlockSize
    BY <1>9 DEF Awaited
  <2>2. CASE q # r
    <3>1. kv'.req_to_blocks[q] = kv.req_to_blocks[q] /\ num_computed'[q] = num_computed[q]
      BY <1>5, <2>2
    <3> QED
      BY <2>1, <3>1 DEF Awaited
  <2>3. CASE q = r
    <3>1. PICK i \in 1 .. Len(t) : t[i] = b /\ num_computed[r] < i * BlockSize
      BY <1>1, <2>1, <2>3
    <3>2. i \in 1 .. Len(s) /\ s[i] = b
      BY <1>4, <3>1
    <3>3. c = num_computed[r]
      BY <1>4, <3>1
    <3> QED
      BY <1>2, <1>4, <3>1, <3>2, <3>3 DEF Awaited
  <2> QED
    BY <2>2, <2>3
\* What r has computed of its old blocks, and of the hit.
<1>10. ASSUME NEW i \in 1 .. Len(s), (i - 1) * BlockSize < c
      PROVE  \/ data[s[i]] = SubSeq(Text[r], 1, min(i * BlockSize, c))
             \/ i * BlockSize <= c /\ Awaited(kv, s[i])
  <2>1. CASE status[r] = "RUNNING" /\ Len(hit) = 0 /\ c = num_computed[r]
    <3>1. i \in 1 .. Len(t) /\ s[i] = t[i]
      BY <1>4, <1>8, <1>10, <2>1
    <3>2. FilledAt(kv, r, i)
      BY <1>1, <1>4, <1>10, <2>1, <3>1 DEF DataInv, Filled
    <3> QED
      BY <1>1, <2>1, <3>1, <3>2 DEF FilledAt
  <2>2. CASE t = <<>> /\ Len(t) = 0 /\ c = Len(hit) * BlockSize
    <3>1. i \in 1 .. Len(hit) /\ s[i] = hit[i]
      BY <1>4, <1>8, <1>10, <2>2
    <3>2. i * BlockSize <= c /\ i * BlockSize \in Nat
      BY <1>4, <2>2, <3>1, BlockEnds
    <3>3. min(i * BlockSize, c) = i * BlockSize
      BY <3>2 DEF min
    <3>4. kv.pool.block_hash[s[i]] = block_hashes(r, i) /\ block_hashes(r, i) # NoHash /\ s[i] \in Block
      <4>1. hit \in Seq(Block)
        BY <1>4
      <4>2. s[i] \in Block /\ i \in FullBlocks(r) /\ kv.pool.block_hash[s[i]] = block_hashes(r, i)
        BY <1>6, <3>1, <4>1
      <4> QED
        BY <1>7, <4>2, HashFacts, NoHashIsNone
    <3>5. data[s[i]] = block_hashes(r, i) \/ Awaited(kv, s[i])
      BY <3>4 DEF DataInv, HashFilled
    <3> QED
      BY <3>2, <3>3, <3>5 DEF block_hashes
  <2> QED
    BY <1>4, <2>1, <2>2
<1>11. Filled(kv)'
  <2>1. SUFFICES ASSUME NEW q \in Request, status'[q] = "RUNNING",
                        NEW i \in 1 .. Len(kv'.req_to_blocks[q]),
                        (i - 1) * BlockSize < num_computed'[q]
                 PROVE  FilledAt(kv, q, i)'
    BY DEF Filled
  <2>2. PICK b : b = kv'.req_to_blocks[q][i]
    OBVIOUS
  <2>3. SUFFICES \/ data[b] = SubSeq(Text[q], 1, min(i * BlockSize, num_computed'[q]))
                 \/ i * BlockSize <= num_computed'[q] /\ Awaited(kv, b)
    BY <1>9, <2>2 DEF FilledAt
  <2>4. CASE q # r
    <3>1. FilledAt(kv, q, i)
      BY <1>5, <2>1, <2>4 DEF DataInv, Filled
    <3> QED
      BY <1>5, <2>2, <2>4, <3>1 DEF FilledAt
  <2>5. CASE q = r
    BY <1>2, <1>10, <2>1, <2>2, <2>5
  <2> QED
    BY <2>4, <2>5
<1>12. HashFilled(kv)'
  <2>1. SUFFICES ASSUME NEW b \in Block, NEW h, h = kv'.pool.block_hash[b], h # NoHash
                 PROVE  data[b] = h \/ Awaited(kv, b)'
    BY DEF HashFilled
  <2>2. PICK z, g : /\ z = CachedOf(kv, r) + Len(hit)
                    /\ g = [x \in Block |-> IF x \in ToSet(new) THEN NoHash ELSE kv.pool.block_hash[x]]
    OBVIOUS
  <2>3. kv'.pool.block_hash = OwnHashes(r, s, z, f, g) /\ f \in Nat /\ f <= Len(s)
    BY <1>1, <1>4, <1>6, <2>2 DEF Allocated, CachedOf
  <2>4. CASE h = g[b]
    <3>1. h = kv.pool.block_hash[b]
      BY <2>1, <2>2, <2>4
    <3>2. data[b] = h \/ Awaited(kv, b)
      BY <2>1, <3>1 DEF DataInv, HashFilled
    <3> QED
      BY <1>9, <3>2
  <2>5. CASE \E i \in (z + 1) .. f : s[i] = b /\ h = block_hashes(r, i)
    <3>1. PICK i \in (z + 1) .. f : s[i] = b /\ h = block_hashes(r, i)
      BY <2>5
    <3>2. z \in Nat /\ CachedOf(kv, r) \in Nat
      <4>1. Len(hit) \in Nat
        BY <1>4
      <4> QED
        BY <1>7, <2>2, <4>1
    <3>3. i \in 1 .. Len(s) /\ i > z /\ i \in Nat \ {0}
      <4>1. Len(s) \in Nat
        BY <1>4
      <4> QED
        BY ONLY <2>3, <3>2, <4>1, i \in (z + 1) .. f
    <3>4. i * BlockSize \in Nat /\ (i - 1) * BlockSize < i * BlockSize /\ (i - 1) * BlockSize \in Nat
      BY <3>3, BlockEnds
    <3>5. CASE c < i * BlockSize
      BY <1>2, <1>4, <3>1, <3>3, <3>5 DEF Awaited
    <3>6. CASE i * BlockSize <= c
      <4>1. (i - 1) * BlockSize < c /\ min(i * BlockSize, c) = i * BlockSize
        BY <1>4, <3>4, <3>6 DEF min
      <4>2. data[b] = SubSeq(Text[r], 1, i * BlockSize) \/ Awaited(kv, b)
        BY <1>10, <3>1, <3>3, <4>1
      <4> QED
        BY <1>9, <3>1, <4>2 DEF block_hashes
    <3> QED
      BY <1>4, <3>4, <3>5, <3>6
  <2> QED
    BY <2>1, <2>3, <2>4, <2>5, OwnHashAt
<1>13. ASSUME NEW q \in Request, q # r, NEW i \in 1 .. Len(s), i <= Len(kv.req_to_blocks[q]),
              s[i] = kv.req_to_blocks[q][i]
       PROVE  i * BlockSize <= c \/ i * BlockSize <= num_computed[q]
  <2>1. kv.req_to_blocks[q] \in Seq(Block) /\ i \in 1 .. Len(kv.req_to_blocks[q])
    BY <1>6, <1>13, TableTypes DEF InOrder
  <2>2. s[i] \in ToSet(kv.req_to_blocks[q])
    BY <1>13, <2>1, SeqFacts
  <2>3. i <= Len(t) + Len(hit)
    <3>1. ASSUME i > Len(t) + Len(hit) PROVE FALSE
      <4>1. s[i] \in ToSet(new)
        BY <1>4, <1>13, <3>1
      <4> QED
        BY <1>4, <1>13, <2>2, <4>1
    <3> QED
      BY <1>4, <3>1
  <2>4. CASE status[r] = "RUNNING" /\ Len(hit) = 0 /\ c = num_computed[r]
    <3>1. i \in 1 .. Len(t) /\ s[i] = t[i]
      BY <1>4, <2>3, <2>4
    <3> QED
      BY <1>1, <1>4, <1>13, <2>4, <3>1 DEF DataInv, OneWriter
  <2>5. CASE t = <<>> /\ Len(t) = 0 /\ c = Len(hit) * BlockSize
    <3>1. i \in Nat /\ i <= Len(hit)
      BY <1>4, <2>3, <2>5
    <3> QED
      BY <1>4, <2>5, <3>1, BlockEnds
  <2> QED
    BY <1>4, <2>4, <2>5
<1>14. OneWriter(kv)'
  <2>1. SUFFICES ASSUME NEW p \in Request, NEW q \in Request, p # q,
                        NEW i \in 1 .. Len(kv'.req_to_blocks[p]), i <= Len(kv'.req_to_blocks[q]),
                        kv'.req_to_blocks[p][i] = kv'.req_to_blocks[q][i]
                 PROVE  i * BlockSize <= num_computed'[p] \/ i * BlockSize <= num_computed'[q]
    BY DEF OneWriter
  <2>2. CASE p = r
    BY <1>2, <1>5, <1>13, <2>1, <2>2
  <2>3. CASE q = r
    <3>1. i \in 1 .. Len(s)
      <4>1. Len(s) \in Nat /\ i \in Nat /\ i >= 1 /\ i <= Len(s)
        <5>1. Len(s) \in Nat
          BY <1>4
        <5>2. i \in Nat /\ i >= 1
          BY <2>1
        <5>3. i <= Len(s)
          BY <1>2, <2>1, <2>3
        <5> QED
          BY <5>1, <5>2, <5>3
      <4> QED
        BY ONLY <4>1
    <3>2. i <= Len(kv.req_to_blocks[p])
      <4>1. Len(kv.req_to_blocks[p]) \in Nat
        BY <1>6, TableTypes DEF InOrder
      <4> QED
        BY <1>5, <2>1, <2>3, <4>1
    <3> QED
      BY <1>2, <1>5, <1>13, <2>1, <2>3, <3>1, <3>2
  <2>4. CASE p # r /\ q # r
    BY <1>5, <2>1, <2>4 DEF DataInv, OneWriter
  <2> QED
    BY <2>2, <2>3, <2>4
<1>15. /\ Len(step'.scheduled) = Len(step.scheduled) + 1 /\ Len(step.scheduled) \in Nat
       /\ \A i \in 1 .. Len(step.scheduled) : /\ step'.scheduled[i] = step.scheduled[i]
                                              /\ step.scheduled[i].req \in Request \ {r}
       /\ step'.scheduled[Len(step'.scheduled)].req = r
       /\ step'.scheduled[Len(step'.scheduled)].n = n
  BY DEF Grows
<1>16. f * BlockSize <= c + n
  <2>1. CachedOf(kv, r) \in Nat /\ f \in Nat /\ BlockSize \in Nat \ {0}
    BY <1>4, <1>6, TableTypes, Constants DEF InOrder, Allocated
  <2>2. PICK d : d = (c + n) \div BlockSize
    OBVIOUS
  <2>3. d \in Nat /\ d * BlockSize <= c + n
    <3>1. c + n \in Nat
      BY <1>4
    <3> QED
      BY <2>1, <2>2, <3>1, DivFacts
  <2>4. (CachedOf(kv, r) + Len(hit)) * BlockSize <= c
    <3>1. CASE status[r] = "RUNNING" /\ Len(hit) = 0 /\ c = num_computed[r]
      <4>1. CachedOf(kv, r) * BlockSize <= num_computed[r]
        <5>1. CachedInTime(kv, r) /\ ~ \E l \in 1 .. Len(step.scheduled) : step.scheduled[l].req = r
          BY <1>15, <1>7 DEF DataInv
        <5> QED
          BY <5>1 DEF CachedInTime
      <4>2. CachedOf(kv, r) + Len(hit) = CachedOf(kv, r)
        BY <2>1, <3>1
      <4> QED
        BY <3>1, <4>1, <4>2
    <3>2. CASE c = Len(hit) * BlockSize /\ CachedOf(kv, r) = 0
      <4>1. CachedOf(kv, r) + Len(hit) = Len(hit)
        BY <1>4, <3>2
      <4> QED
        BY <1>4, <3>2, <4>1
    <3> QED
      BY <1>4, <3>1, <3>2
  <2>5. f <= CachedOf(kv, r) + Len(hit) \/ f <= d
    BY <1>6, <2>2 DEF max
  <2>6. CASE f <= d
    <3>1. f * BlockSize <= d * BlockSize /\ f * BlockSize \in Nat /\ d * BlockSize \in Nat
      BY <2>1, <2>3, <2>6, BlockEnds
    <3> QED
      BY <1>4, <2>3, <3>1
  <2>7. CASE f <= CachedOf(kv, r) + Len(hit)
    <3>1. PICK z : z = CachedOf(kv, r) + Len(hit)
      OBVIOUS
    <3>2. z \in Nat /\ f \in Nat /\ f <= z
      BY <1>4, <2>1, <2>7, <3>1
    <3>3. f * BlockSize <= z * BlockSize /\ f * BlockSize \in Nat /\ z * BlockSize \in Nat
      BY <3>2, BlockEnds
    <3> QED
      BY <1>4, <2>4, <3>1, <3>3
  <2> QED
    BY <2>5, <2>6, <2>7
<1>17. ASSUME NEW q \in Request PROVE CachedInTime(kv, q)'
  <2>1. CASE q = r
    <3>1. Len(step'.scheduled) \in 1 .. Len(step'.scheduled)
      BY <1>15
    <3> QED
      BY <1>2, <1>5, <1>15, <1>16, <2>1, <3>1 DEF CachedInTime
  <2>2. CASE q # r
    <3>1. CachedInTime(kv, q) /\ CachedOf(kv', q) = CachedOf(kv, q) /\ num_computed'[q] = num_computed[q]
      BY <1>5, <2>2 DEF DataInv
    <3>2. \A l \in 1 .. Len(step.scheduled) : l \in 1 .. Len(step'.scheduled)
      BY <1>15
    <3> QED
      BY <1>15, <3>1, <3>2 DEF CachedInTime
  <2> QED
    BY <2>1, <2>2
<1> QED
  BY <1>11, <1>12, <1>14, <1>17 DEF DataInv

\* The batch writes block i of r.
Writes(r, i) ==
    /\ r \in Scheduled /\ i \in 1 .. Len(kv.req_to_blocks[r])
    /\ i * BlockSize > num_computed[r] /\ (i - 1) * BlockSize < Computed(r)

\* Each block is written by one request at most.
LEMMA WrittenFacts ==
    ASSUME EngineInv, CacheInv, \A q \in Request : num_computed[q] \in Nat, OneWriter(kv)
    PROVE  /\ \A r, i : Writes(r, i) =>
                 Written(kv.req_to_blocks[r][i]) = {SubSeq(Text[r], 1, min(i * BlockSize, Computed(r)))}
           /\ \A b : (\A r, i : Writes(r, i) => kv.req_to_blocks[r][i] # b) => Written(b) = {}
<1>1. InOrder(kv) /\ Scheduled \subseteq Request
  BY ScheduledFacts, StepFacts DEF CacheInv, EngineInv, Loop
<1>2. ASSUME NEW r \in Request
      PROVE  /\ kv.req_to_blocks[r] \in Seq(Block) /\ Len(kv.req_to_blocks[r]) \in Nat
             /\ DOMAIN kv.req_to_blocks[r] = 1 .. Len(kv.req_to_blocks[r])
             /\ \A i, j \in 1 .. Len(kv.req_to_blocks[r]) :
                   kv.req_to_blocks[r][i] = kv.req_to_blocks[r][j] => i = j
  <2>1. kv.req_to_blocks[r] \in Seq(Block) /\ IsInjective(kv.req_to_blocks[r]) /\ Len(kv.req_to_blocks[r]) \in Nat
    BY <1>1, TableTypes DEF InOrder, TidyTable
  <2>2. DOMAIN kv.req_to_blocks[r] = 1 .. Len(kv.req_to_blocks[r])
    BY <2>1
  <2> QED
    BY <2>1, <2>2, SeqFacts
<1>3. ASSUME NEW b, NEW x
      PROVE  x \in Written(b) <=> \E r \in Scheduled : \E i \in 1 .. Len(kv.req_to_blocks[r]) :
                /\ Writes(r, i) /\ kv.req_to_blocks[r][i] = b
                /\ x = SubSeq(Text[r], 1, min(i * BlockSize, Computed(r)))
  <2>1. x \in Written(b) <=> \E r \in Scheduled : x \in WrittenBy(r, b)
    BY DEF Written
  <2>2. ASSUME NEW r \in Scheduled
        PROVE  x \in WrittenBy(r, b) <=> \E i \in 1 .. Len(kv.req_to_blocks[r]) :
                /\ Writes(r, i) /\ kv.req_to_blocks[r][i] = b
                /\ x = SubSeq(Text[r], 1, min(i * BlockSize, Computed(r)))
    <3>1. x \in WrittenBy(r, b) <=> \E i \in DOMAIN kv.req_to_blocks[r] :
                /\ kv.req_to_blocks[r][i] = b /\ i * BlockSize > num_computed[r]
                /\ (i - 1) * BlockSize < num_computed[r] + ScheduledTokens(r)
                /\ x = SubSeq(Text[r], 1, min(i * BlockSize, num_computed[r] + ScheduledTokens(r)))
      BY Zenon DEF WrittenBy
    <3>2. DOMAIN kv.req_to_blocks[r] = 1 .. Len(kv.req_to_blocks[r])
      BY <1>1, <1>2
    <3> QED
      BY <3>1, <3>2 DEF Writes, Computed
  <2> QED
    BY <2>1, <2>2
<1>4. ASSUME NEW r, NEW i, Writes(r, i), NEW q, NEW j, Writes(q, j),
             kv.req_to_blocks[r][i] = kv.req_to_blocks[q][j]
      PROVE  r = q /\ i = j
  <2>1. /\ r \in Request /\ q \in Request
        /\ i \in 1 .. Len(kv.req_to_blocks[r]) /\ j \in 1 .. Len(kv.req_to_blocks[q])
        /\ i * BlockSize > num_computed[r] /\ j * BlockSize > num_computed[q]
    BY <1>1, <1>4 DEF Writes
  <2>2. CASE r = q
    BY <1>2, <1>4, <2>1, <2>2
  <2>3. CASE r # q
    <3>1. i = j
      BY <1>1, <1>4, <2>1, <2>3 DEF InOrder, Shares
    <3>2. i <= Len(kv.req_to_blocks[q]) /\ i \in Nat
      BY <2>1, <3>1
    <3>3. i * BlockSize <= num_computed[r] \/ i * BlockSize <= num_computed[q]
      BY <1>4, <2>1, <2>3, <3>1, <3>2 DEF OneWriter
    <3>4. i * BlockSize \in Nat /\ num_computed[r] \in Nat /\ num_computed[q] \in Nat
      BY <2>1, <3>2, BlockEnds
    <3> QED
      BY <2>1, <3>1, <3>3, <3>4
  <2> QED
    BY <2>2, <2>3
<1>5. ASSUME NEW r, NEW i, Writes(r, i)
      PROVE  Written(kv.req_to_blocks[r][i]) = {SubSeq(Text[r], 1, min(i * BlockSize, Computed(r)))}
  <2>1. PICK b, d : b = kv.req_to_blocks[r][i] /\ d = SubSeq(Text[r], 1, min(i * BlockSize, Computed(r)))
    OBVIOUS
  <2>2. r \in Scheduled /\ i \in 1 .. Len(kv.req_to_blocks[r])
    BY <1>5 DEF Writes
  <2>3. ASSUME NEW x PROVE x \in Written(b) <=> x = d
    BY <1>3, <1>4, <1>5, <2>1, <2>2
  <2> QED
    BY <2>1, <2>3
<1>6. ASSUME NEW b, \A r, i : Writes(r, i) => kv.req_to_blocks[r][i] # b PROVE Written(b) = {}
  BY <1>3, <1>6
<1> QED
  BY <1>5, <1>6

\* The batch fills what is awaited of it, and what it overwrites it overwrites in full.
LEMMA SubmitData ==
    ASSUME EngineInv, TokenInv, CacheInv, DataInv(kv), Submit
    PROVE  DataInv(kv)'
<1>1. /\ kv' = kv /\ status' = status /\ step' = IdleStep
      /\ num_computed' = [r \in Request |-> Computed(r)]
      /\ step.scheduled \in Seq(Slice) /\ OncePerRequest(step.scheduled)
      /\ data' = [b \in Block |-> IF Written(b) # {} THEN CHOOSE d \in Written(b) : TRUE ELSE data[b]]
      /\ Len(step'.scheduled) = 0 /\ InOrder(kv)
  BY SubmitFacts, StepFacts, IdleFacts DEF Submit, EngineInv, Loop, CacheInv
<1>2. \A q \in Request : num_computed[q] \in Nat
  BY CountsAreNat
<1>3. ASSUME NEW r \in Request
      PROVE  /\ num_computed'[r] = Computed(r) /\ Computed(r) \in Nat /\ num_computed[r] <= Computed(r)
             /\ r \notin Scheduled => Computed(r) = num_computed[r]
             /\ kv.req_to_blocks[r] \in Seq(Block) /\ IsInjective(kv.req_to_blocks[r])
  <2>1. num_computed'[r] = Computed(r) /\ kv.req_to_blocks[r] \in Seq(Block) /\ IsInjective(kv.req_to_blocks[r])
    BY <1>1, TableTypes DEF InOrder, TidyTable
  <2>2. CASE r \in Scheduled
    <3>1. PICK i \in 1 .. Len(step.scheduled) : step.scheduled[i].req = r
      BY <1>1, <2>2, ScheduledFacts
    <3>2. ScheduledTokens(r) = step.scheduled[i].n /\ step.scheduled[i].n \in Int
      BY <1>1, <3>1, ScheduledFacts, EntryFacts
    <3>3. step.scheduled[i].n >= 1
      BY <3>1 DEF TokenInv, Budget, MayCompute
    <3> QED
      BY <1>2, <2>1, <2>2, <3>2, <3>3 DEF Computed
  <2>3. CASE r \notin Scheduled
    <3>1. ScheduledTokens(r) = 0
      BY <1>1, <2>3, ScheduledFacts
    <3> QED
      BY <1>2, <2>1, <3>1 DEF Computed
  <2> QED
    BY <2>2, <2>3
<1>4. ASSUME NEW r \in Request PROVE CachedOf(kv, r) * BlockSize <= Computed(r)
  <2>1. CachedOf(kv, r) * BlockSize \in Nat /\ CachedInTime(kv, r) /\ num_computed[r] \in Nat
    BY <1>1, <1>2, TableTypes, BlockEnds DEF DataInv, InOrder
  <2>2. CASE CachedOf(kv, r) * BlockSize <= num_computed[r]
    BY <1>3, <2>1, <2>2
  <2>3. ASSUME NEW l \in 1 .. Len(step.scheduled), step.scheduled[l].req = r,
               CachedOf(kv, r) * BlockSize <= num_computed[r] + step.scheduled[l].n
        PROVE  CachedOf(kv, r) * BlockSize <= Computed(r)
    <3>1. ScheduledTokens(r) = step.scheduled[l].n
      BY <1>1, <2>3, ScheduledFacts
    <3> QED
      BY <2>3, <3>1 DEF Computed
  <2> QED
    BY <2>1, <2>2, <2>3 DEF CachedInTime
\* What the blocks contain afterwards.
<1>5. ASSUME NEW r, NEW i, Writes(r, i)
      PROVE  data'[kv.req_to_blocks[r][i]] = SubSeq(Text[r], 1, min(i * BlockSize, Computed(r)))
  <2>1. PICK b, d : b = kv.req_to_blocks[r][i] /\ d = SubSeq(Text[r], 1, min(i * BlockSize, Computed(r)))
    OBVIOUS
  <2>2. Written(b) = {d}
    BY <1>2, <1>5, <2>1, WrittenFacts DEF DataInv
  <2>3. b \in Block
    <3>1. r \in Request /\ i \in 1 .. Len(kv.req_to_blocks[r])
      BY <1>1, <1>5, ScheduledFacts DEF Writes
    <3> QED
      BY <1>1, <2>1, <3>1, TableTypes DEF InOrder
  <2>4. (CHOOSE x \in Written(b) : TRUE) = d
    BY <2>2
  <2> QED
    BY <1>1, <2>1, <2>2, <2>3, <2>4
<1>6. ASSUME NEW b \in Block, \A r, i : Writes(r, i) => kv.req_to_blocks[r][i] # b PROVE data'[b] = data[b]
  <2>1. Written(b) = {}
    BY <1>2, <1>6, WrittenFacts DEF DataInv
  <2> QED
    BY <1>1, <2>1
<1>7. ASSUME NEW q \in Request, NEW i \in 1 .. Len(kv.req_to_blocks[q]), num_computed[q] < i * BlockSize
      PROVE  Awaited(kv, kv.req_to_blocks[q][i])' \/ data'[kv.req_to_blocks[q][i]] = block_hashes(q, i)
  <2>0. i \in Nat /\ i \in Nat \ {0}
    OBVIOUS
  <2>1. i \in Nat \ {0} /\ i * BlockSize \in Nat /\ (i - 1) * BlockSize < i * BlockSize /\ (i - 1) * BlockSize \in Nat
    BY <2>0, BlockEnds
  <2>2. CASE Computed(q) < i * BlockSize
    BY <1>1, <1>3, <2>2 DEF Awaited
  <2>3. CASE i * BlockSize <= Computed(q)
    <3>1. q \in Scheduled /\ (i - 1) * BlockSize < Computed(q) /\ min(i * BlockSize, Computed(q)) = i * BlockSize
      BY <1>2, <1>3, <1>7, <2>1, <2>3 DEF min
    <3>2. Writes(q, i)
      BY <1>2, <1>7, <2>1, <3>1 DEF Writes
    <3> QED
      BY <1>5, <3>1, <3>2 DEF block_hashes
  <2> QED
    BY <1>3, <2>1, <2>2, <2>3
\* A request that writes a block r shares has a full block of the same tokens.
<1>8. ASSUME NEW r \in Request, NEW q \in Request, q # r, NEW i \in 1 .. Len(kv.req_to_blocks[r]),
             NEW j \in 1 .. Len(kv.req_to_blocks[q]), kv.req_to_blocks[q][j] = kv.req_to_blocks[r][i]
      PROVE  /\ j = i /\ block_hashes(q, j) = block_hashes(r, i)
             /\ j * BlockSize <= Computed(q)
  <2>1. j = i /\ j <= CachedOf(kv, q) /\ block_hashes(q, j) = block_hashes(r, i)
    BY <1>1, <1>8 DEF InOrder, Shares
  <2>2. CachedOf(kv, q) \in Nat /\ j \in Nat
    BY <1>1, TableTypes DEF InOrder
  <2>3. /\ j * BlockSize <= CachedOf(kv, q) * BlockSize /\ CachedOf(kv, q) * BlockSize <= Computed(q)
        /\ j * BlockSize \in Nat /\ CachedOf(kv, q) * BlockSize \in Nat /\ Computed(q) \in Nat
    BY <1>3, <1>4, <2>1, <2>2, BlockEnds
  <2> QED
    BY <2>1, <2>3
<1>9. Filled(kv)'
  <2>1. SUFFICES ASSUME NEW r \in Request, status[r] = "RUNNING",
                        NEW i \in 1 .. Len(kv.req_to_blocks[r]), (i - 1) * BlockSize < Computed(r)
                 PROVE  FilledAt(kv, r, i)'
    BY <1>1, <1>3 DEF Filled
  <2>2. PICK b : b = kv.req_to_blocks[r][i]
    OBVIOUS
  <2>3. SUFFICES \/ data'[b] = SubSeq(Text[r], 1, min(i * BlockSize, Computed(r)))
                 \/ i * BlockSize <= Computed(r) /\ Awaited(kv, b)'
    BY <1>1, <1>3, <2>2 DEF FilledAt
  <2>4. /\ i \in Nat \ {0} /\ i * BlockSize \in Nat /\ (i - 1) * BlockSize \in Nat
        /\ (i - 1) * BlockSize < i * BlockSize /\ b \in Block
        /\ num_computed[r] \in Nat /\ Computed(r) \in Nat /\ num_computed[r] <= Computed(r)
    <3>1. i \in Nat /\ i \in Nat \ {0}
      OBVIOUS
    <3>2. b \in Block
      BY <1>1, <2>2, TableTypes DEF InOrder
    <3> QED
      BY <1>2, <1>3, <3>1, <3>2, BlockEnds
  <2>5. CASE Writes(r, i)
    BY <1>5, <2>2, <2>5
  <2>6. CASE ~Writes(r, i)
    <3>1. i * BlockSize <= num_computed[r] \/ Computed(r) = num_computed[r]
      BY <1>3, <2>1, <2>4, <2>6 DEF Writes
    <3>2. (i - 1) * BlockSize < num_computed[r]
      BY <2>1, <2>4, <3>1
    <3>3. min(i * BlockSize, num_computed[r]) = min(i * BlockSize, Computed(r))
      BY <2>4, <3>1 DEF min
    <3>4. FilledAt(kv, r, i)
      BY <2>1, <3>2 DEF DataInv, Filled
    <3>5. ASSUME NEW q \in Request, q # r, NEW j \in 1 .. Len(kv.req_to_blocks[q]), kv.req_to_blocks[q][j] = b,
                 i * BlockSize <= num_computed[r], data'[b] = block_hashes(q, j)
          PROVE  data'[b] = SubSeq(Text[r], 1, min(i * BlockSize, Computed(r)))
      <4>1. block_hashes(q, j) = block_hashes(r, i)
        BY <1>8, <2>2, <3>5
      <4>2. min(i * BlockSize, Computed(r)) = i * BlockSize
        BY <2>4, <3>5 DEF min
      <4> QED
        BY <3>5, <4>1, <4>2 DEF block_hashes
    <3>6. CASE i * BlockSize <= num_computed[r] /\ Awaited(kv, b)
      <4>1. PICK q, j : /\ q \in Request /\ j \in 1 .. Len(kv.req_to_blocks[q])
                           /\ kv.req_to_blocks[q][j] = b /\ num_computed[q] < j * BlockSize
        BY <3>6 DEF Awaited
      <4>2. q # r
        <5>1. ASSUME q = r PROVE FALSE
          <6>1. j = i
            BY <1>3, <2>2, <4>1, <5>1, SeqFacts
          <6> QED
            BY <2>4, <3>6, <4>1, <5>1, <6>1
        <5> QED
          BY <5>1
      <4>3. Awaited(kv, b)' \/ data'[b] = block_hashes(q, j)
        BY <1>1, <1>7, <4>1
      <4>4. i * BlockSize <= Computed(r)
        BY <2>4, <3>6
      <4> QED
        BY <3>5, <3>6, <4>1, <4>2, <4>3, <4>4
    <3>7. CASE data[b] = SubSeq(Text[r], 1, min(i * BlockSize, num_computed[r]))
      <4>1. CASE \A q, j : Writes(q, j) => kv.req_to_blocks[q][j] # b
        BY <1>6, <2>4, <3>3, <3>7, <4>1
      <4>2. CASE \E q, j : Writes(q, j) /\ kv.req_to_blocks[q][j] = b
        <5>1. PICK q, j : Writes(q, j) /\ kv.req_to_blocks[q][j] = b
          BY <4>2
        <5>2. q \in Request /\ j \in 1 .. Len(kv.req_to_blocks[q]) /\ j * BlockSize > num_computed[q]
          BY <1>1, <5>1, ScheduledFacts DEF Writes
        <5>3. q # r
          <6>1. ASSUME q = r PROVE FALSE
            <7>1. j = i
              BY <1>3, <2>2, <5>1, <5>2, <6>1, SeqFacts
            <7> QED
              BY <2>6, <5>1, <6>1, <7>1
          <6> QED
            BY <6>1
        <5>4. j = i /\ j * BlockSize <= Computed(q)
          BY <1>8, <2>2, <5>1, <5>2, <5>3
        <5>5. i * BlockSize <= num_computed[r]
          <6>1. i <= Len(kv.req_to_blocks[q]) /\ kv.req_to_blocks[r][i] = kv.req_to_blocks[q][i]
            BY <2>2, <5>1, <5>2, <5>4
          <6>2. i * BlockSize <= num_computed[r] \/ i * BlockSize <= num_computed[q]
            BY <5>2, <5>3, <6>1 DEF DataInv, OneWriter
          <6> QED
            BY <1>2, <2>4, <5>2, <5>4, <6>2
        <5>6. min(j * BlockSize, Computed(q)) = j * BlockSize
          BY <5>4 DEF min
        <5>7. data'[b] = block_hashes(q, j)
          BY <1>5, <5>1, <5>6 DEF block_hashes
        <5> QED
          BY <3>5, <5>1, <5>2, <5>3, <5>5, <5>7
      <4> QED
        BY <4>1, <4>2
    <3> QED
      BY <2>2, <3>4, <3>6, <3>7 DEF FilledAt
  <2> QED
    BY <2>5, <2>6
<1>10. HashFilled(kv)'
  <2>1. SUFFICES ASSUME NEW b \in Block, NEW h, h = kv.pool.block_hash[b], h # NoHash
                 PROVE  data'[b] = h \/ Awaited(kv, b)'
    BY <1>1 DEF HashFilled
  <2>2. CASE Awaited(kv, b)
    <3>1. PICK q, j : /\ q \in Request /\ j \in 1 .. Len(kv.req_to_blocks[q])
                         /\ kv.req_to_blocks[q][j] = b /\ num_computed[q] < j * BlockSize
      BY <2>2 DEF Awaited
    <3>2. h = block_hashes(q, j)
      BY <1>1, <2>1, <3>1 DEF InOrder, OwnHash
    <3>3. Awaited(kv, b)' \/ data'[b] = block_hashes(q, j)
      BY <1>1, <1>7, <3>1
    <3> QED
      BY <3>2, <3>3
  <2>3. CASE ~Awaited(kv, b)
    <3>1. ASSUME NEW q, NEW j, Writes(q, j), kv.req_to_blocks[q][j] = b PROVE FALSE
      <4>1. q \in Request /\ j \in 1 .. Len(kv.req_to_blocks[q]) /\ j * BlockSize > num_computed[q]
        BY <1>1, <3>1, ScheduledFacts DEF Writes
      <4>2. num_computed[q] < j * BlockSize
        BY <1>2, <4>1, BlockEnds
      <4> QED
        BY <2>3, <3>1, <4>1, <4>2 DEF Awaited
    <3>2. data'[b] = data[b]
      BY <1>6, <3>1
    <3> QED
      BY <2>1, <2>3, <3>2 DEF DataInv, HashFilled
  <2> QED
    BY <2>2, <2>3
<1>11. OneWriter(kv)'
  <2>1. SUFFICES ASSUME NEW r \in Request, NEW q \in Request, r # q,
                        NEW i \in 1 .. Len(kv.req_to_blocks[r]), i <= Len(kv.req_to_blocks[q]),
                        kv.req_to_blocks[r][i] = kv.req_to_blocks[q][i]
                 PROVE  i * BlockSize <= Computed(r) \/ i * BlockSize <= Computed(q)
    BY <1>1, <1>3 DEF OneWriter
  <2>2. i * BlockSize <= num_computed[r] \/ i * BlockSize <= num_computed[q]
    BY <2>1 DEF DataInv, OneWriter
  <2>3. i * BlockSize \in Nat
    BY BlockEnds
  <2> QED
    BY <1>2, <1>3, <2>2, <2>3
<1>12. ASSUME NEW q \in Request PROVE CachedInTime(kv, q)'
  BY <1>1, <1>3, <1>4 DEF CachedInTime
<1> QED
  BY <1>9, <1>10, <1>11, <1>12 DEF DataInv

\* A sequence without its last element.
LEMMA RemoveLast ==
    ASSUME NEW q \in Seq(Request), IsInjective(q), NEW n, n = Len(q), n >= 1, NEW w, w = remove_all(q, {q[n]})
    PROVE  Len(w) = n - 1 /\ \A k \in 1 .. (n - 1) : w[k] = q[k]
<1>1. n \in Nat /\ \A i, j \in 1 .. n : q[i] = q[j] => i = j
  BY SeqFacts
<1>2. PICK S : S = {q[n]}
  OBVIOUS
<1>3. PICK g : w = g[n] /\ Unfolds(g, q, S)
  BY <1>1, <1>2, WithoutStep DEF remove_all
<1>4. \A i \in 1 .. n : q[i] \in Request /\ (q[i] \in S <=> i = n)
  BY <1>1, <1>2
<1> DEFINE Good(i) == g[i] \in Seq(Request) /\ Len(g[i]) = i /\ \A k \in 1 .. i : g[i][k] = q[k]
           T == {i \in 0 .. (n - 1) : ~Good(i)}
<1>5. Good(0)
  BY <1>1, <1>3 DEF Unfolds
<1>6. ASSUME NEW i \in 1 .. (n - 1), Good(i - 1) PROVE Good(i)
  <2>0. i \in 1 .. Len(q) /\ q[i] \notin S
    BY <1>1, <1>4
  <2>1. g[i] = Append(g[i - 1], q[i])
    BY <1>3, <2>0 DEF Unfolds
  <2>2. q[i] \in Request /\ i - 1 \in Nat
    BY <1>1, <1>4
  <2>3. g[i] \in Seq(Request) /\ Len(g[i]) = i
    BY <1>6, <2>1, <2>2
  <2>4. ASSUME NEW k \in 1 .. i PROVE g[i][k] = q[k]
    BY <1>6, <2>1, <2>2
  <2> QED
    BY <2>3, <2>4
<1>7. Good(n - 1)
  <2> HIDE DEF Good
  <2>1. SUFFICES ASSUME T # {} PROVE FALSE
    BY <1>1
  <2>2. PICK x \in T : \A y \in T : x <= y
    <3>1. T \subseteq Nat
      OBVIOUS
    <3> HIDE DEF T
    <3> QED
      BY <2>1, <3>1, LeastNat
  <2>3. x \in 0 .. (n - 1) /\ ~Good(x)
    OBVIOUS
  <2>4. x # 0
    BY <1>5, <2>3
  <2>5. x \in 1 .. (n - 1) /\ x - 1 \in 0 .. (n - 1) /\ x - 1 \notin T
    <3> HIDE DEF T
    <3> QED
      BY <1>1, <2>2, <2>3, <2>4
  <2>6. Good(x - 1)
    BY <2>5
  <2> QED
    BY <1>6, <2>5, <2>3, <2>6
<1>8. g[n] = g[n - 1]
  BY <1>1, <1>3, <1>4 DEF Unfolds
<1> QED
  BY <1>3, <1>7, <1>8

\* Under FCFS the victim is behind the loop: it is not in the batch, and the loop goes on with
\* the same request.
LEMMA VictimIsLast ==
    ASSUME EngineInv, CurIsNext, ~PriorityPolicy, PreemptRunning, UNCHANGED mode
    PROVE  /\ \A l \in 1 .. Len(step.scheduled) : step.scheduled[l].req # Victim
           /\ CurIsNext'
<1>1. PICK v : v = Victim
  OBVIOUS
<1>2. /\ pc = "allocate" /\ running' = remove_all(running, {v}) /\ step' = Unschedule(v)
      /\ pc' = IF v = step.cur THEN "submit" ELSE pc
  BY <1>1 DEF PreemptRunning, Victim
<1>3. PICK n : n = Len(running)
  OBVIOUS
<1>4. /\ running \in Seq(Request) /\ IsInjective(running) /\ n \in Nat /\ step.req_index \in Int
      /\ step.scheduled \in Seq(Slice) /\ OncePerRequest(step.scheduled) /\ Types
      /\ \A i, j \in 1 .. n : running[i] = running[j] => i = j
  <2>1. /\ running \in Seq(Request) /\ IsInjective(running) /\ Types /\ OncePerRequest(step.scheduled)
    BY DEF EngineInv, Types, Queues, Loop
  <2>2. n \in Nat /\ \A i, j \in 1 .. n : running[i] = running[j] => i = j
    BY <1>3, <2>1, SeqFacts
  <2> QED
    BY <2>1, <2>2, StepFacts
<1>5. step.req_index < n /\ running[step.req_index + 1] = step.cur /\ step.req_index >= 0
  BY <1>2, <1>3 DEF CurIsNext, EngineInv, Loop
<1>6. v = running[n] /\ n >= 1
  BY <1>1, <1>3, <1>4, <1>5 DEF Victim, Last
<1>7. ASSUME NEW l \in 1 .. Len(step.scheduled) PROVE step.scheduled[l].req # v
  <2>1. PICK k \in 1 .. n : k <= step.req_index /\ running[k] = step.scheduled[l].req
    BY <1>2, <1>3 DEF EngineInv, Loop, Passed
  <2>2. k # n /\ n \in 1 .. n
    BY <1>4, <1>5, <1>6, <2>1
  <2> QED
    BY <1>4, <1>6, <2>1, <2>2
<1>8. v \notin Scheduled
  BY <1>4, <1>7, ScheduledFacts
<1>9. step'.req_index = step.req_index /\ step'.cur = step.cur
  BY <1>2, <1>4, <1>8, UnscheduleFacts
<1>10. ASSUME v # step.cur PROVE step.req_index < Len(running') /\ running'[step.req_index + 1] = step.cur
  <2>1. Len(running') = n - 1 /\ \A k \in 1 .. (n - 1) : running'[k] = running[k]
    BY <1>2, <1>3, <1>4, <1>6, RemoveLast
  <2>2. step.req_index + 1 # n
    BY <1>5, <1>6, <1>10
  <2>3. step.req_index + 1 \in 1 .. (n - 1)
    BY <1>4, <1>5, <2>2
  <2> QED
    BY <1>4, <1>5, <2>1, <2>3
<1>11. CurIsNext'
  BY <1>2, <1>9, <1>10 DEF CurIsNext
<1> QED
  BY <1>1, <1>7, <1>11

\* The victim is freed.
LEMMA PreemptData ==
    ASSUME EngineInv, TokenInv, CacheInv, DataInv(kv), CurIsNext, ~PriorityPolicy, PreemptRunning, UNCHANGED mode
    PROVE  DataInv(kv)'
<1>1. PICK v : v = Victim
  OBVIOUS
<1>2. /\ pc = "allocate" /\ status' = [status EXCEPT ![v] = "PREEMPTED"] /\ kv' = free_request(kv, v)
      /\ num_computed' = [num_computed EXCEPT ![v] = 0] /\ step' = Unschedule(v) /\ data' = data
  BY <1>1 DEF PreemptRunning, Victim, envVars
<1>3. v \in Request /\ \A l \in 1 .. Len(step.scheduled) : step.scheduled[l].req # v
  BY <1>1, <1>2, VictimFacts, VictimIsLast
<1>4. /\ status \in [Request -> Status] /\ num_computed \in [Request -> Int] /\ Types
      /\ step.scheduled \in Seq(Slice) /\ OncePerRequest(step.scheduled)
  BY StepFacts DEF EngineInv, Types, Loop
<1>5. PICK s, S, w : s = step.scheduled /\ S = {e \in ToSet(s) : e.req = v} /\ w = without(s, S)
  OBVIOUS
<1>6. step'.scheduled = w
  BY <1>2, <1>4, <1>5, UnscheduleFacts DEF Rest
<1>7. ASSUME NEW l \in 1 .. Len(s) PROVE \E m \in 1 .. Len(w) : w[m] = s[l]
  <2>1. s \in Seq(Slice) /\ s[l] \notin S /\ Len(s) \in Nat
    BY <1>3, <1>4, <1>5
  <2>2. PICK p : Left(s, S, Len(s), w, p)
    BY <1>5, <2>1, WithoutPlaces
  <2> QED
    BY <2>1, <2>2 DEF Left
<1>8. num_computed[v] \in Nat /\ num_computed'[v] \in Nat /\ status'[v] # "RUNNING"
  BY <1>2, <1>3, <1>4, CountsAreNat
<1>9. \A q \in Request : q # v => num_computed'[q] = num_computed[q] /\ (status'[q] = "RUNNING" => status[q] = "RUNNING")
  BY <1>2, <1>3, <1>4
<1>10. \A l \in 1 .. Len(step.scheduled) : \E m \in 1 .. Len(step'.scheduled) : step'.scheduled[m] = step.scheduled[l]
  BY <1>5, <1>6, <1>7
<1> QED
  BY <1>2, <1>3, <1>8, <1>9, <1>10, FreeData DEF CacheInv

\* A request is aborted between two steps.
LEMMA AbortData ==
    ASSUME EngineInv, TokenInv, CacheInv, DataInv(kv), NEW r \in Request, Abort(r)
    PROVE  DataInv(kv)'
<1>1. /\ kv' = free_request(kv, r) /\ step' = step /\ num_computed' = num_computed /\ data' = data
      /\ status' = [status EXCEPT ![r] = "FINISHED"] /\ pc \in {"idle", "popped"}
      /\ status \in [Request -> Status]
  BY DEF Abort, EngineInv, Types
<1>2. Len(step.scheduled) = 0 /\ num_computed[r] \in Nat
  BY <1>1, EmptyBatch, CountsAreNat
<1>3. /\ status'[r] # "RUNNING"
      /\ \A q \in Request : q # r => num_computed'[q] = num_computed[q] /\ (status'[q] = "RUNNING" => status[q] = "RUNNING")
  BY <1>1
<1> QED
  BY <1>1, <1>2, <1>3, FreeData DEF CacheInv

\* The full blocks of r are cached: r has computed their tokens.
LEMMA CacheData ==
    ASSUME EngineInv, TokenInv, CacheInv, DataInv(kv), NEW r \in Request, NEW k, NEW t \in Nat,
           status[r] = "RUNNING", t <= num_computed[r], InOrder(k), k.req_to_blocks = kv.req_to_blocks,
           Allocated(kv, k, r, <<>>, <<>>, max(CachedOf(kv, r), t \div BlockSize))
    PROVE  DataInv(k)
<1>1. PICK f, s, c : f = max(CachedOf(kv, r), t \div BlockSize) /\ s = kv.req_to_blocks[r] /\ c = CachedOf(kv, r)
  OBVIOUS
<1>2. /\ InOrder(kv) /\ s \in Seq(Block) /\ Len(s) \in Nat /\ c \in Nat /\ BlockSize \in Nat \ {0}
      /\ num_computed[r] \in Nat
  BY <1>1, TableTypes, Constants, CountsAreNat DEF CacheInv, InOrder
<1>3. PICK d : d = t \div BlockSize
  OBVIOUS
<1>4. d \in Nat /\ d * BlockSize <= t /\ f = max(c, d)
  BY <1>1, <1>2, <1>3, DivFacts
<1>5. /\ f \in Nat /\ f <= Len(s) /\ CachedOf(k, r) = f
      /\ k.pool.block_hash = OwnHashes(r, s, c, f, [b \in Block |-> kv.pool.block_hash[b]])
      /\ \A q \in Request : q # r => CachedOf(k, q) = CachedOf(kv, q)
  <2>1. s \o <<>> \o <<>> = s /\ Len(<<>>) = 0 /\ c + Len(<<>>) = c /\ ToSet(<<>>) = {}
    BY <1>2 DEF ToSet
  <2>2. /\ f \in Nat /\ f <= Len(s \o <<>> \o <<>>) /\ max(k.num_cached_block[r], 0) = f
        /\ k.pool.block_hash = OwnHashes(r, s \o <<>> \o <<>>, c + Len(<<>>), f,
              [b \in Block |-> IF b \in ToSet(<<>>) THEN NoHash ELSE kv.pool.block_hash[b]])
        /\ \A q \in Request : q # r => k.num_cached_block[q] = kv.num_cached_block[q]
    BY <1>1 DEF Allocated, CachedOf
  <2>3. [b \in Block |-> IF b \in ToSet(<<>>) THEN NoHash ELSE kv.pool.block_hash[b]] = [b \in Block |-> kv.pool.block_hash[b]]
    BY <2>1
  <2> QED
    BY <2>1, <2>2, <2>3 DEF CachedOf
<1>6. \A b : Awaited(k, b) <=> Awaited(kv, b)
  BY DEF Awaited
<1>7. Filled(k)
  BY <1>6 DEF DataInv, Filled, FilledAt
<1>8. HashFilled(k)
  <2>1. SUFFICES ASSUME NEW b \in Block, NEW h, h = k.pool.block_hash[b], h # NoHash
                 PROVE  data[b] = h \/ Awaited(kv, b)
    BY <1>6 DEF HashFilled
  <2>2. CASE h = kv.pool.block_hash[b]
    BY <2>1, <2>2 DEF DataInv, HashFilled
  <2>3. ASSUME NEW i \in (c + 1) .. f, s[i] = b, h = block_hashes(r, i)
        PROVE  data[b] = h \/ Awaited(kv, b)
    <3>1. i \in Nat \ {0} /\ i \in 1 .. Len(s) /\ i <= d
      BY <1>2, <1>4, <1>5, <2>3 DEF max
    <3>2. /\ i * BlockSize <= d * BlockSize /\ i * BlockSize \in Nat /\ d * BlockSize \in Nat
          /\ (i - 1) * BlockSize < i * BlockSize /\ (i - 1) * BlockSize \in Nat
      BY <1>4, <3>1, BlockEnds
    <3>3. i * BlockSize <= num_computed[r] /\ (i - 1) * BlockSize < num_computed[r]
      BY <1>2, <1>4, <3>2
    <3>4. min(i * BlockSize, num_computed[r]) = i * BlockSize
      BY <3>3 DEF min
    <3>5. FilledAt(kv, r, i)
      BY <1>1, <3>1, <3>3 DEF DataInv, Filled
    <3> QED
      BY <1>1, <2>3, <3>4, <3>5 DEF FilledAt, block_hashes
  <2>4. [x \in Block |-> kv.pool.block_hash[x]][b] = kv.pool.block_hash[b]
    OBVIOUS
  <2> QED
    BY <1>5, <2>1, <2>2, <2>3, <2>4, OwnHashAt
<1>9. OneWriter(k)
  BY DEF DataInv, OneWriter
<1>10. ASSUME NEW q \in Request PROVE CachedInTime(k, q)
  <2>1. CASE q # r
    BY <1>5, <2>1 DEF DataInv, CachedInTime
  <2>2. CASE q = r /\ f = c
    BY <1>1, <1>5, <2>2 DEF DataInv, CachedInTime
  <2>3. CASE q = r /\ f = d
    <3>1. f * BlockSize <= num_computed[r]
      <4>1. d * BlockSize \in Nat
        BY <1>4, BlockEnds
      <4> QED
        BY <1>2, <1>4, <2>3, <4>1
    <3> QED
      BY <1>5, <2>3, <3>1 DEF CachedInTime
  <2> QED
    BY <1>4, <2>1, <2>2, <2>3 DEF max
<1> QED
  BY <1>7, <1>8, <1>9, <1>10 DEF DataInv

\* A sampled token is applied.
LEMMA AppliesData ==
    ASSUME EngineInv, TokenInv, CacheInv, DataInv(kv), pc = "output", NEW r, NEW k, Applies(r, k)
    PROVE  DataInv(kv)'
<1>1. /\ r \in Request /\ InOrder(k) /\ k.req_to_blocks = kv.req_to_blocks
      /\ \/ k = kv
         \/ \E t \in Nat : /\ status[r] = "RUNNING" /\ t <= num_computed[r]
                           /\ Allocated(kv, k, r, <<>>, <<>>, max(CachedOf(kv, r), t \div BlockSize))
      /\ num_computed' = num_computed /\ step' = step /\ data' = data
      /\ \/ status' = [status EXCEPT ![r] = "FINISHED"] /\ kv' = free_request(k, r)
         \/ status' = status /\ kv' = k
  BY DEF Applies
<1>2. DataInv(k)
  BY <1>1, CacheData
<1>3. CASE status' = status /\ kv' = k
  <2>1. kv' = k /\ num_computed' = num_computed /\ step' = step /\ data' = data /\ status' = status
    BY <1>1, <1>3
  <2>2. Filled(kv)'
    BY <1>2, <2>1 DEF DataInv, Filled, FilledAt, Awaited
  <2>3. HashFilled(kv)'
    BY <1>2, <2>1 DEF DataInv, HashFilled, Awaited
  <2>4. OneWriter(kv)' /\ \A q \in Request : CachedInTime(kv, q)'
    BY <1>2, <2>1 DEF DataInv, OneWriter, CachedInTime
  <2> QED
    BY <2>2, <2>3, <2>4 DEF DataInv
<1>4. CASE status' = [status EXCEPT ![r] = "FINISHED"] /\ kv' = free_request(k, r)
  <2>1. Len(step.scheduled) = 0 /\ num_computed[r] \in Nat /\ status \in [Request -> Status]
    BY <1>1, EmptyBatch, CountsAreNat DEF EngineInv, Types
  <2>2. /\ status'[r] # "RUNNING"
        /\ \A q \in Request : q # r => num_computed'[q] = num_computed[q] /\ (status'[q] = "RUNNING" => status[q] = "RUNNING")
    BY <1>1, <1>4, <2>1
  <2> QED
    BY <1>1, <1>2, <1>4, <2>1, <2>2, FreeData
<1> QED
  BY <1>1, <1>3, <1>4

\* The next request of the loop is the one slots are taken for.
LEMMA NextCur ==
    ASSUME EngineInv, CurIsNext, ~PriorityPolicy, [Next]_vars
    PROVE  CurIsNext'
<1>1. mode' = mode
  BY ModeFixed
<1>2. ASSUME pc' # "allocate" PROVE CurIsNext'
  BY <1>2 DEF CurIsNext
<1>3. CASE UNCHANGED vars
  BY <1>3 DEF vars, queueVars, CurIsNext
<1>4. CASE Engine
  <2>1. EngineStep
    BY <1>4 DEF Engine
  <2>2. CASE PickRunning
    <3>1. CASE pc' = "allocate"
      <4>1. PICK r, n : /\ r = running[step.req_index + 1] /\ step' = [step EXCEPT !.cur = r, !.num_new = n]
                        /\ running' = running /\ step.req_index < Len(running)
        BY <2>2, <3>1 DEF PickRunning, RunningLoopGoesOn, queueVars
      <4>2. step \in Locals
        BY DEF EngineInv, Types
      <4>3. step'.req_index = step.req_index /\ step'.cur = r
        BY <4>1, <4>2 DEF Locals
      <4> QED
        BY <4>1, <4>3 DEF CurIsNext
    <3> QED
      BY <1>2, <3>1
  <2>3. CASE PreemptRunning
    BY <1>1, <2>3, VictimIsLast
  <2>4. CASE BeginStep \/ DrainStep \/ AllocateRunning \/ EndRunningLoop \/ EndWaitingLoop \/ Submit \/ PopBatch \/ EndStep
    <3>1. pc' # "allocate"
      BY <2>4 DEF BeginStep, DrainStep, AllocateRunning, EndRunningLoop, EndWaitingLoop, Submit, PopBatch, EndStep
    <3> QED
      BY <1>2, <3>1
  <2>5. CASE AdmitWaiting \/ DropOutput \/ ApplyOutput
    <3>1. pc' # "allocate"
      BY <2>5 DEF AdmitWaiting, DropOutput, ApplyOutput
    <3> QED
      BY <1>2, <3>1
  <2> QED
    BY <2>1, <2>2, <2>3, <2>4, <2>5 DEF EngineStep
<1>5. CASE Client
  <2>1. pc' # "allocate"
    BY <1>5 DEF Client, ClientStep, Add, Abort, set_pause_state, ResetRunning, ResetIdle
  <2> QED
    BY <1>2, <2>1
<1> QED
  BY <1>3, <1>4, <1>5 DEF Next

\* The first states.
LEMMA InitData == Init => DataInv(kv) /\ CurIsNext
<1> SUFFICES ASSUME Init PROVE DataInv(kv) /\ CurIsNext
  OBVIOUS
<1>1. /\ pc = "idle" /\ kv = InitKV /\ \A r \in Request : status[r] # "RUNNING" /\ num_computed[r] = 0
  BY DEF Init, InitRequests
<1>2. /\ \A r \in Request : kv.req_to_blocks[r] = <<>> /\ kv.num_cached_block[r] = Absent
      /\ \A b \in Block : kv.pool.block_hash[b] = NoHash
  BY <1>1 DEF InitKV, InitPool
<1>3. OneWriter(kv)
  <2>1. Len(<<>>) = 0
    OBVIOUS
  <2> QED
    BY <1>2, <2>1 DEF OneWriter
<1>4. ASSUME NEW q \in Request PROVE CachedInTime(kv, q)
  <2>1. CachedOf(kv, q) = 0 /\ 0 * BlockSize = 0
    BY <1>2, Constants DEF CachedOf, Absent, max
  <2> QED
    BY <1>1, <2>1 DEF CachedInTime
<1> QED
  BY <1>1, <1>2, <1>3, <1>4 DEF DataInv, Filled, HashFilled, CurIsNext

\* reset_prefix_cache() without preemption leaves only the tables.
LEMMA ResetIdleData ==
    ASSUME EngineInv, CacheInv, DataInv(kv), ResetIdle
    PROVE  DataInv(kv)'
<1>1. /\ kv' = [kv EXCEPT !.pool = reset_prefix_cache(@)] /\ UNCHANGED <<num_computed, status, step, data>>
  BY DEF ResetIdle, reqVars
<1>2. kv'.req_to_blocks = kv.req_to_blocks /\ kv'.pool.block_hash = [b \in Block |-> NoHash]
  BY ResetIdleCache
<1>3. kv'.num_cached_block = kv.num_cached_block
  <2>1. kv = [pool |-> kv.pool, req_to_blocks |-> kv.req_to_blocks, num_cached_block |-> kv.num_cached_block]
    BY DEF EngineInv, Types, Tables
  <2> QED
    BY <1>1, <2>1
<1>4. \A b \in Block : kv'.pool.block_hash[b] = NoHash
  BY <1>2
<1>5. \A b : Awaited(kv, b) => Awaited(kv, b)'
  BY <1>1, <1>2 DEF Awaited
<1>6. Filled(kv)'
  <2>1. SUFFICES ASSUME NEW r \in Request, status[r] = "RUNNING", NEW i \in 1 .. Len(kv.req_to_blocks[r]),
                        (i - 1) * BlockSize < num_computed[r]
                 PROVE  FilledAt(kv, r, i)'
    BY <1>1, <1>2 DEF Filled
  <2>2. FilledAt(kv, r, i)
    BY <2>1 DEF DataInv, Filled
  <2>3. PICK b : b = kv.req_to_blocks[r][i]
    OBVIOUS
  <2>4. Awaited(kv, b) => Awaited(kv, b)'
    BY <1>5
  <2> QED
    BY <1>1, <1>2, <2>2, <2>3, <2>4 DEF FilledAt
<1>7. OneWriter(kv)'
  BY <1>1, <1>2 DEF DataInv, OneWriter
<1>8. ASSUME NEW q \in Request PROVE CachedInTime(kv, q)'
  BY <1>1, <1>3 DEF DataInv, CachedInTime, CachedOf
<1> QED
  BY <1>4, <1>6, <1>7, <1>8 DEF DataInv, HashFilled

\* A forced reset leaves neither tables nor hashes.
LEMMA ResetRunningData ==
    ASSUME EngineInv, TokenInv, CacheInv, ResetRunning
    PROVE  DataInv(kv)'
<1>1. /\ CacheInv' /\ kv'.pool.block_hash = [b \in Block |-> NoHash]
      /\ \A r \in Request : status'[r] # "RUNNING" /\ kv'.req_to_blocks[r] = <<>>
  BY ResetRunningCache
<1>2. \A b \in Block : kv'.pool.block_hash[b] = NoHash
  BY <1>1
<1>3. OneWriter(kv)'
  <2>1. Len(<<>>) = 0
    OBVIOUS
  <2> QED
    BY <1>1, <2>1 DEF OneWriter
<1>4. ASSUME NEW q \in Request PROVE CachedInTime(kv, q)'
  <2>1. kv'.num_cached_block[q] = Absent
    <3>1. InOrder(kv')
      BY <1>1 DEF CacheInv
    <3> QED
      BY <1>1, <3>1 DEF InOrder, TidyTable
  <2>2. CachedOf(kv', q) = 0 /\ 0 * BlockSize = 0
    BY <2>1, Constants DEF CachedOf, Absent, max
  <2>3. num_computed'[q] \in Nat
    BY CountsAreNat DEF ResetRunning
  <2> QED
    BY <2>2, <2>3 DEF CachedInTime
<1> QED
  BY <1>1, <1>2, <1>3, <1>4 DEF DataInv, Filled, HashFilled

\* Every step keeps what the blocks contain in step with the counters, under FCFS.
LEMMA DataNext ==
    ASSUME EngineInv, Orderly, TokenInv, CacheInv, DataInv(kv), CurIsNext, ~PriorityPolicy, [Next]_vars
    PROVE  DataInv(kv)'
<1>1. ASSUME Quiet, data' = data PROVE DataInv(kv)'
  <2>1. /\ kv' = kv /\ num_computed' = num_computed /\ step'.scheduled = step.scheduled
        /\ \A r \in Request : status'[r] = "RUNNING" => status[r] = "RUNNING"
    BY <1>1 DEF Quiet
  <2> QED
    BY <1>1, <2>1 DEF DataInv, Filled, FilledAt, HashFilled, OneWriter, CachedInTime, Awaited
<1>2. mode' = mode
  BY ModeFixed
<1>3. CASE UNCHANGED vars
  BY <1>1, <1>3, QuietSteps
<1>4. \A q \in Request : num_computed[q] \in Nat
  BY CountsAreNat
<1>5. CASE Engine
  <2>1. EngineStep
    BY <1>5 DEF Engine
  <2>2. CASE AllocateRunning
    <3>1. data' = data /\ \E r, n, new, f : Grows(r, <<>>, n, new, f)
      BY <2>2, AllocateGrows DEF AllocateRunning, envVars
    <3> QED
      BY <1>4, <3>1, GrowsData
  <2>3. CASE AdmitWaiting
    <3>1. data' = data /\ \E r, hit, n, new, f : Grows(r, hit, n, new, f)
      BY <2>3, AdmitGrows DEF AdmitWaiting, envVars
    <3> QED
      BY <1>4, <3>1, GrowsData
  <2>4. CASE ApplyOutput
    <3>1. \E r, k : Applies(r, k)
      BY <1>2, <2>4, ApplyFacts
    <3> QED
      BY <2>4, <3>1, AppliesData DEF ApplyOutput
  <2> QED
    BY <1>1, <1>2, <2>1, <2>2, <2>3, <2>4, QuietSteps, PreemptData, SubmitData DEF EngineStep
<1>6. CASE Client
  <2>1. ClientStep
    BY <1>6 DEF Client
  <2> QED
    BY <1>1, <2>1, QuietSteps, AbortData, ResetRunningData, ResetIdleData DEF ClientStep
<1> QED
  BY <1>3, <1>5, <1>6 DEF Next

\* Under FCFS the blocks contain, or are about to contain, what tables and hashes say.
THEOREM DataInvHolds == Spec => [](Orderly /\ ~PriorityPolicy => DataInv(kv) /\ CurIsNext)
<1>1. Init => (Orderly /\ ~PriorityPolicy => DataInv(kv) /\ CurIsNext)
  BY InitData
<1>2. /\ IInv /\ (Orderly => CacheInv) /\ (Orderly /\ ~PriorityPolicy => DataInv(kv) /\ CurIsNext)
      /\ [Next]_vars
      => (Orderly /\ ~PriorityPolicy => DataInv(kv) /\ CurIsNext)'
  <2>1. SUFFICES ASSUME IInv, Orderly => CacheInv, Orderly /\ ~PriorityPolicy => DataInv(kv) /\ CurIsNext,
                        [Next]_vars, Orderly', ~PriorityPolicy'
                 PROVE  DataInv(kv)' /\ CurIsNext'
    OBVIOUS
  <2>2. Orderly /\ ~PriorityPolicy
    BY <2>1, ModeFixed DEF Orderly, PriorityPolicy
  <2> QED
    BY <2>1, <2>2, DataNext, NextCur DEF IInv
<1> QED
  BY <1>1, <1>2, IInvHolds, CacheInvHolds, PTL DEF Spec

\* Between two steps no block is awaited that is cached or shared.
LEMMA IdleData ==
    ASSUME EngineInv, TokenInv, CacheInv, DataInv(kv), pc = "idle"
    PROVE  CachedIsComputed /\ (~PriorityPolicy => ComputedIsMaterialised)
<1>1. Len(step.scheduled) = 0 /\ InOrder(kv)
  BY EmptyBatch DEF CacheInv
<1>2. ASSUME NEW q \in Request, NEW j \in 1 .. Len(kv.req_to_blocks[q]), num_computed[q] < j * BlockSize
      PROVE  ~(j <= CachedOf(kv, q))
  BY <1>1, <1>2, NotAwaited, CountsAreNat DEF DataInv
<1>3. ASSUME NEW b \in Block, kv.pool.block_hash[b] # NoHash PROVE data[b] = kv.pool.block_hash[b]
  <2>1. ASSUME Awaited(kv, b) PROVE FALSE
    <3>1. PICK q, j : /\ q \in Request /\ j \in 1 .. Len(kv.req_to_blocks[q])
                      /\ kv.req_to_blocks[q][j] = b /\ num_computed[q] < j * BlockSize
      BY <2>1 DEF Awaited
    <3>2. j <= CachedOf(kv, q)
      BY <1>1, <1>3, <3>1 DEF InOrder, OwnHash
    <3> QED
      BY <1>2, <3>1, <3>2
  <2> QED
    BY <1>3, <2>1 DEF DataInv, HashFilled
<1>4. ASSUME NEW r \in ToSet(running), NEW i \in DOMAIN kv.req_to_blocks[r]
      PROVE  Holds(kv.req_to_blocks[r][i], r, i, num_computed[r])
  <2>1. r \in Request /\ status[r] = "RUNNING"
    BY DEF EngineInv, Queues
  <2>2. /\ kv.req_to_blocks[r] \in Seq(Block) /\ IsInjective(kv.req_to_blocks[r])
        /\ DOMAIN kv.req_to_blocks[r] = 1 .. Len(kv.req_to_blocks[r]) /\ num_computed[r] \in Nat
    BY <1>1, <2>1, TableTypes, CountsAreNat DEF InOrder, TidyTable
  <2>3. PICK b, x, d : /\ b = kv.req_to_blocks[r][i] /\ x = min(i * BlockSize, num_computed[r])
                       /\ d = SubSeq(Text[r], 1, x)
    OBVIOUS
  <2>4. /\ i \in 1 .. Len(kv.req_to_blocks[r]) /\ i \in Nat \ {0} /\ i * BlockSize \in Nat /\ (i - 1) * BlockSize \in Nat
        /\ (i - 1) * BlockSize < i * BlockSize /\ x \in Nat
    <3>1. i \in 1 .. Len(kv.req_to_blocks[r]) /\ i \in Nat \ {0} /\ i \in Nat
      BY <2>2
    <3>2. i * BlockSize \in Nat /\ (i - 1) * BlockSize \in Nat /\ (i - 1) * BlockSize < i * BlockSize
      BY <3>1, BlockEnds
    <3> QED
      BY <2>2, <2>3, <3>1, <3>2 DEF min
  <2>5. CASE num_computed[r] <= (i - 1) * BlockSize
    <3>1. x <= (i - 1) * BlockSize
      BY <2>2, <2>3, <2>4, <2>5 DEF min
    <3> QED
      BY <2>3, <3>1 DEF Holds
  <2>6. CASE (i - 1) * BlockSize < num_computed[r]
    <3>1. FilledAt(kv, r, i)
      BY <2>1, <2>4, <2>6 DEF DataInv, Filled
    <3>2. ASSUME i * BlockSize <= num_computed[r], Awaited(kv, b) PROVE FALSE
      <4>1. PICK q, j : /\ q \in Request /\ j \in 1 .. Len(kv.req_to_blocks[q])
                        /\ kv.req_to_blocks[q][j] = b /\ num_computed[q] < j * BlockSize
        BY <3>2 DEF Awaited
      <4>2. CASE q = r
        <5>1. j = i
          BY <2>2, <2>3, <2>4, <4>1, <4>2, SeqFacts
        <5> QED
          BY <2>2, <2>4, <3>2, <4>1, <4>2, <5>1
      <4>3. CASE q # r
        <5>1. j <= CachedOf(kv, q)
          BY <1>1, <2>1, <2>3, <2>4, <4>1, <4>3 DEF InOrder, Shares
        <5> QED
          BY <1>2, <4>1, <5>1
      <4> QED
        BY <4>2, <4>3
    <3>3. data[b] = d
      BY <2>3, <3>1, <3>2 DEF FilledAt
    <3>4. IsPrefix(d, data[b])
      <4>1. Text[r] \in Seq(Nat)
        BY <2>1, Constants
      <4>2. num_computed[r] <= Len(Text[r])
        <5>1. BoundsAt(r) /\ NumberedAt(r)
          BY <2>1 DEF TokenInv, Requests, RequestInv
        <5>2. NumTokens(r) \in Nat /\ placeholders[r] \in Int /\ Len(Text[r]) \in Nat /\ NumTokens(r) < Len(Text[r])
          BY <2>1, <5>1, LengthFacts, Facts DEF BoundsAt, EngineInv
        <5>3. Pending(r) \in {0, 1, 2}
          BY DEF Pending, Count
        <5>4. CASE Pending(r) = 0
          <6>1. placeholders[r] = 0
            BY <2>1, <5>1, <5>4 DEF NumberedAt, Live
          <6> QED
            BY <2>2, <5>1, <5>2, <6>1 DEF BoundsAt
        <5>5. CASE Pending(r) \in {1, 2}
          <6>1. num_computed[r] = NumTokens(r) + Pending(r) - 1
            BY <2>1, <5>1, <5>5 DEF NumberedAt
          <6> QED
            BY <5>2, <5>5, <6>1
        <5> QED
          BY <5>3, <5>4, <5>5
      <4>3. x <= Len(Text[r]) /\ Len(Text[r]) \in Nat
        BY <2>2, <2>3, <2>4, <4>1, <4>2 DEF min
      <4>4. d \in Seq(Nat)
        <5>1. d = SubSeq(Text[r], 1, x) /\ x \in Nat /\ x <= Len(Text[r])
          BY <2>3, <2>4, <4>3
        <5> QED
          BY ONLY <4>1, <5>1
      <4>5. Len(d) \in Nat
        BY <4>4
      <4> QED
        BY <3>3, <4>5 DEF IsPrefix
    <3> QED
      BY <2>3, <3>4 DEF Holds
  <2> QED
    BY <2>2, <2>4, <2>5, <2>6
<1>5. CachedIsComputed
  BY <1>3 DEF CachedIsComputed
<1>6. ComputedIsMaterialised
  BY <1>4 DEF ComputedIsMaterialised
<1> QED
  BY <1>5, <1>6

\* ComputedIsMaterialised: every token counted as computed is in its slot between two steps.
THEOREM ComputedIsMaterialisedHolds == Spec => [](Orderly => ComputedIsMaterialised)
<1>1. /\ IInv /\ (Orderly => CacheInv) /\ (Orderly /\ ~PriorityPolicy => DataInv(kv) /\ CurIsNext)
      => (Orderly => ComputedIsMaterialised)
  BY IdleData DEF IInv, ComputedIsMaterialised
<1> QED
  BY <1>1, IInvHolds, CacheInvHolds, DataInvHolds, PTL

\* CacheIsMaterialised: under FCFS the prefix cache only offers blocks that hold the tokens
\* of their hashes.
THEOREM CacheIsMaterialisedHolds == Spec => [](Orderly => CacheIsMaterialised)
<1>1. /\ IInv /\ (Orderly => CacheInv) /\ (Orderly /\ ~PriorityPolicy => DataInv(kv) /\ CurIsNext)
      => (Orderly => CacheIsMaterialised)
  BY IdleData DEF IInv, CacheIsMaterialised, CachedIsComputed
<1> QED
  BY <1>1, IInvHolds, CacheInvHolds, DataInvHolds, PTL
==============================================================================
