----------------------- MODULE MultiprocExecutor_proofs -----------------------
(* The proof that the calls of module MultiprocExecutor read the right        *)
(* answers, although these carry no number, whichever calls fail on a worker  *)
(* or are given up at a deadline and whichever workers die.  IInv says which  *)
(* answers may be in the queues: they are queued in the order of the calls,   *)
(* each one is owed to a call that still has to read it or was left over, and *)
(* no owed answer is missing in front of one that has been sent.  The call    *)
(* being read is the oldest open one, so the first answer is its own or left  *)
(* over from an older call.                                                   *)
EXTENDS MultiprocExecutor, TLAPS

Answer == [call : Call, ok : BOOLEAN]

\* The type invariant of the executor.
TypeOK ==
    /\ kind \in Seq(Kinds) /\ Len(kind) <= MaxCalls
    /\ rpc \in [Rank -> Seq(Call)]
    /\ async_output \in [Rank -> Seq(Answer)]
    /\ response \in [Rank -> Seq(Answer)]
    /\ futures \in Seq(Call)
    /\ batch_queue \in Seq(Call)
    /\ result \in [Call -> [status : {"pending", "raised", "returned"}, got : Seq(Call)]]
    /\ pc \in {"run", "wait", "dead"}
    /\ goal \in Call \cup {0}
    /\ reading \in [call : Call \cup {0}, ranks : Seq(Rank), got : Seq(Call)]
    /\ alive \subseteq Rank
    /\ is_failed \in BOOLEAN /\ notified \in BOOLEAN

Elems(s) == {s[i] : i \in 1 .. Len(s)}
Sorted(s) == \A i, j \in 1 .. Len(s) : i < j => s[i] < s[j]
SortedByCall(s) == \A i, j \in 1 .. Len(s) : i < j => s[i].call < s[j].call

MadeCalls == 1 .. Len(kind)

\* A call that was broadcast and has not returned.
Open(c) == c \in MadeCalls /\ result[c] = Pending

\* Worker w still has to answer call c, or its answer still has to be read.
Owes(w, c) ==
    /\ Open(c)
    /\ Answers(w, c)
    /\ c = reading.call => w \in Elems(reading.ranks)

\* The model calls not read yet are the futures, oldest first; they come after
\* the call that is being read.
Futures ==
    /\ Sorted(futures)
    /\ \A c \in Elems(futures) :
          /\ Open(c) /\ kind[c] = "model"
          /\ reading # NoCall => reading.call < c
    /\ \A c \in Elems(batch_queue) : c \in MadeCalls /\ kind[c] = "model"

\* Every open call is being read, is a future, or is the blocking call the engine
\* waits for, which is then the last one made.
Waiting ==
    /\ pc = "wait" => /\ goal \in MadeCalls
                      /\ kind[goal] = "utility" => goal = Len(kind)
    /\ \A c \in Call : c \notin MadeCalls => result[c] = Pending
    /\ \A c \in MadeCalls : result[c] = Pending =>
          \/ c = reading.call
          \/ c \in Elems(futures)
          \/ c = goal /\ kind[c] = "utility" /\ pc = "wait"

\* What get_response() has left to read, and what it has read.
Reading ==
    reading # NoCall =>
        /\ pc = "wait" /\ Open(reading.call)
        /\ reading.ranks # <<>>
        /\ Sorted(reading.ranks)
        /\ \A w \in Elems(reading.ranks) : Answers(w, reading.call)
        /\ Len(reading.got) + Len(reading.ranks) = Len(response_mqs(reading.call))
        /\ \A a \in Elems(reading.got) : Fits(reading.call, a)

\* The answer of w to call c is owed, or may be left over.
Expected(w, c) == c \in MadeCalls /\ (Owes(w, c) \/ LeftOver(c))

\* The answers of w to be read, in the order of the calls and without a gap.
ResponsesOf(w) ==
    /\ SortedByCall(response[w])
    /\ \A a \in Elems(response[w]) :
          /\ Expected(w, a.call)
          /\ \A d \in MadeCalls : d < a.call /\ Owes(w, d) =>
                \E b \in Elems(response[w]) : b.call = d

\* The answers that the output thread of w still has to send come after those.
OutputsOf(w) ==
    /\ SortedByCall(async_output[w])
    /\ ~AsyncOutput => async_output[w] = <<>>
    /\ \A a \in Elems(async_output[w]) :
          Expected(w, a.call) /\ \A b \in Elems(response[w]) : b.call < a.call

\* The calls w still has to take come after all of them, and w has not lost any.
CallsOf(w) ==
    /\ Sorted(rpc[w])
    /\ \A c \in Elems(rpc[w]) :
          /\ c \in MadeCalls
          /\ Answers(w, c) => Expected(w, c)
          /\ \A a \in Elems(response[w]) \cup Elems(async_output[w]) : a.call < c
    /\ \A d \in MadeCalls : Owes(w, d) =>
          \/ d \in Elems(rpc[w])
          \/ \E a \in Elems(response[w]) \cup Elems(async_output[w]) : a.call = d

Queues ==
    /\ \A w \in Rank : ResponsesOf(w)
    /\ \A w \in alive : OutputsOf(w) /\ CallsOf(w)

\* The inductive invariant.
IInv ==
    /\ TypeOK /\ Futures /\ Waiting /\ Reading /\ Queues
    /\ AnswersMatchCalls

-----------------------------------------------------------------------------
(* Sequences: Elems and the two orders over the operations of the queues.     *)

\* The constants, in the form the steps use.
LEMMA Constants ==
    /\ WorldSize \in Nat \ {0} /\ MaxCalls \in Nat \ {0}
    /\ OutputRank \in Rank
    /\ FailingKinds \subseteq Kinds
    /\ \A c \in Call : c \in Int /\ c > 0
    /\ \A w \in Rank : w \in Int
BY ExecutorAssumption DEF Rank, Call

\* The empty queue.
LEMMA EmptyFacts ==
    /\ Elems(<<>>) = {} /\ Sorted(<<>>) /\ SortedByCall(<<>>)
BY DEF Elems, Sorted, SortedByCall

\* A queue after an element is put in.
LEMMA AppendFacts ==
    ASSUME NEW S, NEW s \in Seq(S), NEW x \in S
    PROVE  /\ Append(s, x) \in Seq(S)
           /\ Append(s, x) # <<>>
           /\ Elems(Append(s, x)) = Elems(s) \cup {x}
<1> DEFINE t == Append(s, x)
<1>1. /\ t \in Seq(S) /\ Len(t) = Len(s) + 1 /\ Len(s) \in Nat /\ t[Len(s) + 1] = x
      /\ \A i \in 1 .. Len(s) : t[i] = s[i]
  OBVIOUS
<1> HIDE DEF t
<1>2. t # <<>>
  BY <1>1
<1>3. ASSUME NEW i \in 1 .. Len(t) PROVE t[i] \in Elems(s) \cup {x}
  <2>1. i \in 1 .. Len(s) \/ i = Len(s) + 1
    BY <1>1
  <2> QED
    BY <1>1, <2>1 DEF Elems
<1>4. ASSUME NEW i \in 1 .. Len(s) PROVE s[i] \in Elems(t)
  BY <1>1 DEF Elems
<1>5. x \in Elems(t)
  <2>1. Len(s) + 1 \in 1 .. Len(t)
    BY <1>1
  <2> QED
    BY <1>1, <2>1 DEF Elems
<1>6. Elems(t) = Elems(s) \cup {x}
  BY <1>3, <1>4, <1>5 DEF Elems
<1> QED
  BY <1>1, <1>2, <1>6 DEF t

\* A queue and what is left when its head is taken.
LEMMA TailFacts ==
    ASSUME NEW S, NEW s \in Seq(S), s # <<>>
    PROVE  /\ Tail(s) \in Seq(S)
           /\ Head(s) \in S
           /\ Elems(s) = Elems(Tail(s)) \cup {Head(s)}
<1> DEFINE t == Tail(s)
<1>1. /\ t \in Seq(S) /\ Len(t) = Len(s) - 1 /\ Len(s) \in Nat /\ Len(s) > 0
      /\ Head(s) = s[1] /\ Head(s) \in S
      /\ \A i \in 1 .. Len(t) : t[i] = s[i + 1]
  OBVIOUS
<1> HIDE DEF t
<1>2. ASSUME NEW i \in 1 .. Len(s) PROVE s[i] \in Elems(t) \cup {Head(s)}
  <2>1. i = 1 \/ (i - 1 \in 1 .. Len(t) /\ t[i - 1] = s[i])
    BY <1>1
  <2> QED
    BY <1>1, <2>1 DEF Elems
<1>3. ASSUME NEW i \in 1 .. Len(t) PROVE t[i] \in Elems(s)
  <2>1. i + 1 \in 1 .. Len(s) /\ t[i] = s[i + 1]
    BY <1>1
  <2> QED
    BY <2>1 DEF Elems
<1>4. Head(s) \in Elems(s)
  BY <1>1 DEF Elems
<1>5. Elems(s) = Elems(t) \cup {Head(s)}
  BY <1>2, <1>3, <1>4 DEF Elems
<1> QED
  BY <1>1, <1>5 DEF t

\* The elements of a sequence have its type.
LEMMA ElemsType ==
    ASSUME NEW S, NEW s \in Seq(S)
    PROVE  Elems(s) \subseteq S
BY DEF Elems

\* An increasing queue stays so when a larger number is put in.
LEMMA SortedAppend ==
    ASSUME NEW s \in Seq(Int), NEW x \in Int, Sorted(s), \A y \in Elems(s) : y < x
    PROVE  Sorted(Append(s, x))
<1> DEFINE t == Append(s, x)
<1>1. /\ Len(t) = Len(s) + 1 /\ Len(s) \in Nat /\ t[Len(s) + 1] = x
      /\ \A i \in 1 .. Len(s) : t[i] = s[i]
  OBVIOUS
<1>2. \A i \in 1 .. Len(s) : s[i] < x
  BY DEF Elems
<1> HIDE DEF t
<1>3. ASSUME NEW i \in 1 .. Len(t), NEW j \in 1 .. Len(t), i < j PROVE t[i] < t[j]
  <2>1. i \in 1 .. Len(s) /\ (j \in 1 .. Len(s) \/ j = Len(s) + 1)
    BY <1>1, <1>3
  <2> QED
    BY <1>1, <1>2, <1>3, <2>1 DEF Sorted
<1> QED
  BY <1>3 DEF Sorted, t

\* The head of an increasing queue is its least element.
LEMMA SortedTail ==
    ASSUME NEW s \in Seq(Int), s # <<>>, Sorted(s)
    PROVE  Sorted(Tail(s)) /\ \A y \in Elems(Tail(s)) : Head(s) < y
<1> DEFINE t == Tail(s)
<1>1. /\ Len(t) = Len(s) - 1 /\ Len(s) \in Nat /\ Len(s) > 0 /\ Head(s) = s[1]
      /\ \A i \in 1 .. Len(t) : t[i] = s[i + 1]
  OBVIOUS
<1> HIDE DEF t
<1>2. ASSUME NEW i \in 1 .. Len(t), NEW j \in 1 .. Len(t), i < j PROVE t[i] < t[j]
  <2>1. /\ i + 1 \in 1 .. Len(s) /\ j + 1 \in 1 .. Len(s) /\ i + 1 < j + 1
        /\ t[i] = s[i + 1] /\ t[j] = s[j + 1]
    BY <1>1, <1>2
  <2> QED
    BY <2>1 DEF Sorted
<1>3. ASSUME NEW i \in 1 .. Len(t) PROVE Head(s) < t[i]
  <2>1. i + 1 \in 1 .. Len(s) /\ 1 \in 1 .. Len(s) /\ 1 < i + 1 /\ t[i] = s[i + 1]
    BY <1>1
  <2> QED
    BY <1>1, <2>1 DEF Sorted
<1> QED
  BY <1>2, <1>3 DEF Sorted, Elems, t

\* The same for answers, ordered by the call they answer.
LEMMA SortedByCallAppend ==
    ASSUME NEW s \in Seq(Answer), NEW x \in Answer, SortedByCall(s),
           \A y \in Elems(s) : y.call < x.call
    PROVE  SortedByCall(Append(s, x))
<1> DEFINE t == Append(s, x)
<1>1. /\ Len(t) = Len(s) + 1 /\ Len(s) \in Nat /\ t[Len(s) + 1] = x
      /\ \A i \in 1 .. Len(s) : t[i] = s[i]
  OBVIOUS
<1>2. \A i \in 1 .. Len(s) : s[i].call < x.call
  BY DEF Elems
<1> HIDE DEF t
<1>3. ASSUME NEW i \in 1 .. Len(t), NEW j \in 1 .. Len(t), i < j PROVE t[i].call < t[j].call
  <2>1. i \in 1 .. Len(s) /\ (j \in 1 .. Len(s) \/ j = Len(s) + 1)
    BY <1>1, <1>3
  <2> QED
    BY <1>1, <1>2, <1>3, <2>1 DEF SortedByCall
<1> QED
  BY <1>3 DEF SortedByCall, t

\* The head of a queue of answers is the answer to the oldest call.
LEMMA SortedByCallTail ==
    ASSUME NEW s \in Seq(Answer), s # <<>>, SortedByCall(s)
    PROVE  SortedByCall(Tail(s)) /\ \A y \in Elems(Tail(s)) : Head(s).call < y.call
<1> DEFINE t == Tail(s)
<1>1. /\ Len(t) = Len(s) - 1 /\ Len(s) \in Nat /\ Len(s) > 0 /\ Head(s) = s[1]
      /\ \A i \in 1 .. Len(t) : t[i] = s[i + 1]
  OBVIOUS
<1> HIDE DEF t
<1>2. ASSUME NEW i \in 1 .. Len(t), NEW j \in 1 .. Len(t), i < j PROVE t[i].call < t[j].call
  <2>1. /\ i + 1 \in 1 .. Len(s) /\ j + 1 \in 1 .. Len(s) /\ i + 1 < j + 1
        /\ t[i] = s[i + 1] /\ t[j] = s[j + 1]
    BY <1>1, <1>2
  <2> QED
    BY <2>1 DEF SortedByCall
<1>3. ASSUME NEW i \in 1 .. Len(t) PROVE Head(s).call < t[i].call
  <2>1. i + 1 \in 1 .. Len(s) /\ 1 \in 1 .. Len(s) /\ 1 < i + 1 /\ t[i] = s[i + 1]
    BY <1>1
  <2> QED
    BY <1>1, <2>1 DEF SortedByCall
<1> QED
  BY <1>2, <1>3 DEF SortedByCall, Elems, t

\* Calls and ranks are integers, so their queues can be ordered.
LEMMA IntSeqs ==
    /\ \A s \in Seq(Call) : s \in Seq(Int)
    /\ \A s \in Seq(Rank) : s \in Seq(Int)
BY Constants

\* Who owes what depends on the calls, their results and the reading alone.
LEMMA OwesFrame ==
    ASSUME UNCHANGED <<kind, result, reading>>
    PROVE  /\ \A w, c : Owes(w, c)' = Owes(w, c)
           /\ \A c : Open(c)' = Open(c)
           /\ \A w, c : Answers(w, c)' = Answers(w, c)
           /\ \A w, c : Expected(w, c)' = Expected(w, c)
           /\ \A c, a : Fits(c, a)' = Fits(c, a)
           /\ MadeCalls' = MadeCalls
           /\ AnswersMatchCalls' = AnswersMatchCalls
<1>1. /\ \A w, c : Owes(w, c)' = Owes(w, c)
      /\ \A c : Open(c)' = Open(c)
      /\ \A w, c : Answers(w, c)' = Answers(w, c)
      /\ MadeCalls' = MadeCalls
  BY DEF Owes, Open, Answers, MadeCalls
<1>2. \A c : LeftOver(c)' = LeftOver(c)
  BY DEF LeftOver, GaveUp, response_mqs
<1>3. \A w, c : Expected(w, c)' = Expected(w, c)
  BY <1>1, <1>2 DEF Expected
<1>4. \A c, a : Fits(c, a)' = Fits(c, a)
  BY <1>2 DEF Fits
<1>5. AnswersMatchCalls' = AnswersMatchCalls
  BY <1>4 DEF AnswersMatchCalls
<1> QED
  BY <1>1, <1>3, <1>4, <1>5

\* A call that was given up stays so: results do not change any more.
LEMMA GivenUpStays ==
    ASSUME IInv,
           \A c \in MadeCalls :
              kind'[c] = kind[c] /\ (result[c] # Pending => result'[c] = result[c])
    PROVE  /\ \A c \in Call : LeftOver(c) => LeftOver(c)'
           /\ \A c, a \in Call : Fits(c, a) => Fits(c, a)'
<1>1. ASSUME NEW d \in Call, GaveUp(d) PROVE GaveUp(d)'
  <2>1. result[d] # Pending
    BY <1>1 DEF GaveUp, Pending
  <2>2. d \in MadeCalls
    BY <2>1 DEF IInv, Waiting
  <2>3. result'[d] = result[d] /\ kind'[d] = kind[d]
    BY <2>1, <2>2
  <2> QED
    BY <1>1, <2>3 DEF GaveUp, response_mqs
<1>2. ASSUME NEW c \in Call, LeftOver(c) PROVE LeftOver(c)'
  <2>1. PICK d \in 1 .. c : GaveUp(d)
    BY <1>2 DEF LeftOver
  <2>2. d \in Call
    BY Constants DEF Call
  <2> QED
    BY <1>1, <2>1, <2>2 DEF LeftOver
<1> QED
  BY <1>2 DEF Fits

\* So every call that does not change, or changes as it should, keeps its promise.
LEMMA AnswersStay ==
    ASSUME IInv,
           \A c \in MadeCalls :
              kind'[c] = kind[c] /\ (result[c] # Pending => result'[c] = result[c]),
           \A c \in Call :
              \/ result'[c] = result[c]
              \/ (\A i \in DOMAIN result[c].got : Fits(c, result[c].got[i]))'
    PROVE  AnswersMatchCalls'
<1>1. \A c, a \in Call : Fits(c, a) => Fits(c, a)'
  BY GivenUpStays
<1>2. ASSUME NEW c \in Call, result'[c] = result[c], NEW i \in DOMAIN result[c].got
      PROVE  Fits(c, result[c].got[i])'
  <2>1. PICK g : g = result[c].got
    OBVIOUS
  <2>2. g \in Seq(Call)
    BY <2>1 DEF IInv, TypeOK
  <2>3. g[i] \in Call
    BY <1>2, <2>1, <2>2
  <2>4. Fits(c, g[i])
    BY <1>2, <2>1 DEF IInv, AnswersMatchCalls
  <2>5. Fits(c, g[i])'
    BY <1>1, <2>3, <2>4
  <2> QED
    BY <2>1, <2>5, <1>2
<1> QED
  BY <1>2 DEF AnswersMatchCalls

\* The queues of a worker that do not change stay good when the worker owes nothing new
\* and what was expected of it still is.
LEMMA QueuesKept ==
    ASSUME IInv, NEW v \in Rank,
           MadeCalls \subseteq MadeCalls',
           \A d \in MadeCalls' : Owes(v, d)' => d \in MadeCalls /\ Owes(v, d),
           \A d \in MadeCalls : Expected(v, d) => Expected(v, d)',
           \A d \in MadeCalls : Answers(v, d)' <=> Answers(v, d),
           rpc'[v] = rpc[v], async_output'[v] = async_output[v], response'[v] = response[v]
    PROVE  ResponsesOf(v)' /\ (v \in alive => OutputsOf(v)' /\ CallsOf(v)')
<1>1. /\ Elems(response[v])' = Elems(response[v])
      /\ Elems(async_output[v])' = Elems(async_output[v])
      /\ Elems(rpc[v])' = Elems(rpc[v])
      /\ SortedByCall(response[v])' <=> SortedByCall(response[v])
      /\ SortedByCall(async_output[v])' <=> SortedByCall(async_output[v])
      /\ Sorted(rpc[v])' <=> Sorted(rpc[v])
  OBVIOUS
<1>2. \A d : Expected(v, d) => Expected(v, d)'
  BY DEF Expected
<1>3. ResponsesOf(v) /\ (v \in alive => OutputsOf(v) /\ CallsOf(v))
  BY DEF IInv, Queues
<1>4. ResponsesOf(v)'
  BY <1>1, <1>2, <1>3 DEF ResponsesOf
<1>5. ASSUME v \in alive PROVE OutputsOf(v)'
  BY <1>1, <1>2, <1>3, <1>5 DEF OutputsOf
<1>6. ASSUME v \in alive PROVE CallsOf(v)'
  BY <1>1, <1>2, <1>3, <1>6 DEF CallsOf
<1> QED
  BY <1>4, <1>5, <1>6

\* What is being read is as before.
LEMMA ReadingFrame ==
    ASSUME IInv, UNCHANGED <<kind, result, reading>>, pc' = pc \/ reading = NoCall
    PROVE  Reading'
<1>1. /\ \A w, c : Answers(w, c)' = Answers(w, c)
      /\ \A c : Open(c)' = Open(c)
      /\ \A c, a : Fits(c, a)' = Fits(c, a)
  BY OwesFrame
<1>2. CASE reading = NoCall
  BY <1>2 DEF Reading
<1>3. CASE reading # NoCall
  <2>1. PICK rd : rd = reading
    OBVIOUS
  <2>2. reading' = rd /\ response_mqs(rd.call)' = response_mqs(rd.call) /\ pc' = pc
    BY <1>3, <2>1 DEF response_mqs
  <2>3. /\ pc = "wait" /\ Open(rd.call) /\ rd.ranks # <<>> /\ Sorted(rd.ranks)
        /\ \A w \in Elems(rd.ranks) : Answers(w, rd.call)
        /\ Len(rd.got) + Len(rd.ranks) = Len(response_mqs(rd.call))
        /\ \A a \in Elems(rd.got) : Fits(rd.call, a)
    BY <1>3, <2>1 DEF IInv, Reading
  <2>4. /\ Open(rd.call)' /\ Sorted(rd.ranks)'
        /\ \A w \in Elems(rd.ranks) : Answers(w, rd.call)'
        /\ \A a \in Elems(rd.got) : Fits(rd.call, a)'
        /\ Elems(rd.ranks)' = Elems(rd.ranks) /\ Elems(rd.got)' = Elems(rd.got)
    BY <1>1, <2>3
  <2> QED
    BY <2>1, <2>2, <2>3, <2>4 DEF Reading
<1> QED
  BY <1>2, <1>3

\* A worker whose queues did not change, in a step that changes only queues.
LEMMA OtherWorker ==
    ASSUME IInv, NEW v \in Rank, UNCHANGED <<kind, result, reading>>,
           rpc'[v] = rpc[v], async_output'[v] = async_output[v], response'[v] = response[v]
    PROVE  /\ ResponsesOf(v)'
           /\ v \in alive => OutputsOf(v)' /\ CallsOf(v)'
BY OwesFrame, QueuesKept

\* Steps that change neither the queues nor who owes what.
LEMMA QueuesFrame ==
    ASSUME IInv, UNCHANGED <<kind, result, reading, rpc, async_output, response, alive>>
    PROVE  Queues'
BY OtherWorker DEF Queues, IInv, TypeOK

-----------------------------------------------------------------------------
(* The invariant holds initially and every action keeps it.                   *)

\* Nothing has been called.
LEMMA InitIInv == Init => IInv
<1> SUFFICES ASSUME Init PROVE IInv
  OBVIOUS
<1>1. /\ kind = <<>> /\ futures = <<>> /\ batch_queue = <<>>
      /\ \A w \in Rank : rpc[w] = <<>> /\ async_output[w] = <<>> /\ response[w] = <<>>
      /\ \A c \in Call : result[c] = Pending
      /\ pc = "run" /\ goal = 0 /\ reading = NoCall /\ alive = Rank
  BY DEF Init
<1>2. TypeOK
  <2>1. rpc \in [Rank -> Seq(Call)] /\ async_output \in [Rank -> Seq(Answer)]
        /\ response \in [Rank -> Seq(Answer)]
    BY DEF Init
  <2>2. result \in [Call -> [status : {"pending", "raised", "returned"}, got : Seq(Call)]]
    BY DEF Init, Pending
  <2>3. reading \in [call : Call \cup {0}, ranks : Seq(Rank), got : Seq(Call)]
    BY <1>1 DEF NoCall
  <2>4. kind \in Seq(Kinds) /\ Len(kind) <= MaxCalls
    BY <1>1, Constants
  <2>5. futures \in Seq(Call) /\ batch_queue \in Seq(Call)
    BY <1>1
  <2>6. /\ pc \in {"run", "wait", "dead"} /\ goal \in Call \cup {0} /\ alive \subseteq Rank
        /\ is_failed \in BOOLEAN /\ notified \in BOOLEAN
    BY DEF Init
  <2> QED
    BY <2>1, <2>2, <2>3, <2>4, <2>5, <2>6 DEF TypeOK
<1>3. MadeCalls = {}
  BY <1>1 DEF MadeCalls
<1>4. Futures /\ Waiting /\ Reading
  BY <1>1, <1>3, EmptyFacts DEF Futures, Waiting, Reading
<1>5. Queues
  BY <1>1, <1>3, EmptyFacts DEF Queues, ResponsesOf, OutputsOf, CallsOf
<1>6. AnswersMatchCalls
  BY <1>1 DEF AnswersMatchCalls, Pending
<1> QED
  BY <1>2, <1>4, <1>5, <1>6 DEF IInv

\* The engine is not reading while it runs.
LEMMA NotReading ==
    ASSUME IInv, pc # "wait"
    PROVE  reading = NoCall
BY DEF IInv, Reading

\* HandleExecutorFailed: only the engine's state changes.
LEMMA HandleExecutorFailedStep == IInv /\ HandleExecutorFailed => IInv'
<1> SUFFICES ASSUME IInv, HandleExecutorFailed PROVE IInv'
  OBVIOUS
<1>1. /\ pc = "run" /\ pc' = "dead"
      /\ UNCHANGED <<kind, futures, batch_queue, result, goal, reading, rpc, async_output,
                     response, alive, is_failed, notified>>
  BY DEF HandleExecutorFailed, monitorVars
<1>2. reading = NoCall
  BY <1>1, NotReading
<1>3. TypeOK'
  BY <1>1 DEF IInv, TypeOK
<1>4. /\ \A w, c : Owes(w, c)' = Owes(w, c)
      /\ \A c : Open(c)' = Open(c)
      /\ MadeCalls' = MadeCalls
      /\ AnswersMatchCalls'
  BY <1>1, OwesFrame DEF IInv
<1>5. Futures' /\ Waiting' /\ Reading'
  <2>1. Futures' /\ Waiting'
    BY <1>1, <1>2, <1>4 DEF IInv, Futures, Waiting, Elems, Sorted
  <2> QED
    BY <1>1, <1>2, <2>1, ReadingFrame
<1>6. Queues'
  BY <1>1, QueuesFrame
<1> QED
  BY <1>3, <1>4, <1>5, <1>6 DEF IInv

\* Crash, MonitorDetects and MonitorShutdown: fewer workers are alive, and what the
\* dead ones have not sent does not matter any more.
LEMMA FailureStep ==
    ASSUME IInv,
           (\E w \in Rank : Crash(w)) \/ MonitorDetects \/ MonitorShutdown
    PROVE  IInv'
<1>1. /\ UNCHANGED <<kind, futures, batch_queue, result, pc, goal, reading, async_output,
                     response>>
      /\ alive' \subseteq alive
      /\ \A w \in alive' : rpc'[w] = rpc[w]
      /\ is_failed' \in BOOLEAN /\ notified' \in BOOLEAN
      /\ rpc' = rpc \/ rpc' = [w \in Rank |-> <<>>]
  BY DEF Crash, MonitorDetects, MonitorShutdown, engineVars, monitorVars, IInv, TypeOK
<1>2. TypeOK'
  <2>1. CASE rpc' = rpc
    BY <1>1, <2>1 DEF IInv, TypeOK
  <2>2. CASE rpc' = [w \in Rank |-> <<>>]
    <3>1. rpc' \in [Rank -> Seq(Call)]
      BY <2>2
    <3> QED
      BY <1>1, <3>1 DEF IInv, TypeOK
  <2> QED
    BY <1>1, <2>1, <2>2
<1>3. /\ \A w, c : Owes(w, c)' = Owes(w, c)
      /\ \A c : Open(c)' = Open(c)
      /\ \A w, c : Answers(w, c)' = Answers(w, c)
      /\ \A w, c : Expected(w, c)' = Expected(w, c)
      /\ MadeCalls' = MadeCalls
      /\ AnswersMatchCalls'
  BY <1>1, OwesFrame DEF IInv
<1>4. Futures' /\ Waiting' /\ Reading'
  <2>1. Futures'
    BY <1>1, <1>3 DEF IInv, Futures, Elems, Sorted
  <2>2. Waiting'
    BY <1>1, <1>3 DEF IInv, Waiting, Elems
  <2>3. Reading'
    BY <1>1, ReadingFrame
  <2> QED
    BY <2>1, <2>2, <2>3
<1>5. Queues'
  <2>1. ASSUME NEW w \in Rank PROVE ResponsesOf(w)'
    BY <1>1, <1>3 DEF IInv, Queues, ResponsesOf, SortedByCall, Elems
  <2>2. ASSUME NEW w \in alive' PROVE OutputsOf(w)' /\ CallsOf(w)'
    <3>1. w \in alive /\ rpc'[w] = rpc[w] /\ OutputsOf(w) /\ CallsOf(w)
      BY <1>1 DEF IInv, Queues
    <3>2. OutputsOf(w)'
      BY <1>1, <1>3, <3>1 DEF OutputsOf, SortedByCall, Elems
    <3>3. CallsOf(w)'
      BY <1>1, <1>3, <3>1 DEF CallsOf, Sorted, Elems
    <3> QED
      BY <3>2, <3>3
  <2> QED
    BY <2>1, <2>2 DEF Queues
<1> QED
  BY <1>2, <1>3, <1>4, <1>5 DEF IInv

\* AwaitBatch: the oldest batch is a model call that was made.
LEMMA AwaitBatchStep == IInv /\ AwaitBatch => IInv'
<1> SUFFICES ASSUME IInv, AwaitBatch PROVE IInv'
  OBVIOUS
<1>1. /\ pc = "run" /\ pc' = "wait" /\ batch_queue # <<>>
      /\ goal' = Head(batch_queue) /\ batch_queue' = Tail(batch_queue)
      /\ UNCHANGED <<kind, futures, result, reading, rpc, async_output, response, alive,
                     is_failed, notified>>
  BY DEF AwaitBatch, monitorVars
<1>2. reading = NoCall
  BY <1>1, NotReading
<1>3. /\ batch_queue' \in Seq(Call) /\ goal' \in Call
      /\ Elems(batch_queue) = Elems(batch_queue') \cup {goal'}
  <2>1. batch_queue \in Seq(Call)
    BY DEF IInv, TypeOK
  <2> QED
    BY <1>1, <2>1, TailFacts
<1>4. TypeOK'
  BY <1>1, <1>3 DEF IInv, TypeOK
<1>5. /\ \A w, c : Owes(w, c)' = Owes(w, c)
      /\ \A c : Open(c)' = Open(c)
      /\ MadeCalls' = MadeCalls
      /\ AnswersMatchCalls'
  BY <1>1, OwesFrame DEF IInv
<1>6. Futures'
  <2>1. Elems(futures)' = Elems(futures) /\ Sorted(futures)' = Sorted(futures)
    BY <1>1 DEF Elems, Sorted
  <2>2. Elems(batch_queue') \subseteq Elems(batch_queue)
    BY <1>3
  <2> HIDE DEF MadeCalls
  <2> QED
    BY <1>1, <1>2, <1>5, <2>1, <2>2 DEF IInv, Futures
<1>7. Waiting' /\ Reading'
  <2>1. goal' \in MadeCalls /\ kind[goal'] = "model"
    BY <1>3 DEF IInv, Futures
  <2>2. Elems(futures)' = Elems(futures)
    BY <1>1
  <2> QED
    BY <1>1, <1>2, <1>5, <2>1, <2>2 DEF IInv, Waiting, Reading
<1>8. Queues'
  BY <1>1, QueuesFrame
<1> QED
  BY <1>4, <1>5, <1>6, <1>7, <1>8 DEF IInv

\* Finish: the call waited for is not open any more.
LEMMA FinishStep == IInv /\ Finish => IInv'
<1> SUFFICES ASSUME IInv, Finish PROVE IInv'
  OBVIOUS
<1>1. /\ pc = "wait" /\ pc' \in {"run", "dead"} /\ reading = NoCall
      /\ result[goal] # Pending /\ goal' = 0
      /\ UNCHANGED <<kind, futures, batch_queue, result, reading, rpc, async_output, response,
                     alive, is_failed, notified>>
  BY DEF Finish, monitorVars
<1>2. TypeOK'
  BY <1>1 DEF IInv, TypeOK
<1>3. /\ \A w, c : Owes(w, c)' = Owes(w, c)
      /\ \A c : Open(c)' = Open(c)
      /\ MadeCalls' = MadeCalls
      /\ AnswersMatchCalls'
  BY <1>1, OwesFrame DEF IInv
<1>4. Futures' /\ Waiting' /\ Reading'
  <2>1. Futures'
    BY <1>1, <1>3 DEF IInv, Futures, Elems, Sorted
  <2>2. Waiting'
    BY <1>1, <1>3 DEF IInv, Waiting, Elems
  <2>3. Reading'
    BY <1>1, ReadingFrame
  <2> QED
    BY <2>1, <2>2, <2>3
<1>5. Queues'
  BY <1>1, QueuesFrame
<1> QED
  BY <1>2, <1>3, <1>4, <1>5 DEF IInv

\* A new call: the older ones keep their kinds and who owes them; the new one is owed
\* by the ranks that answer calls of its kind, unless it was refused.
LEMMA NewCall ==
    ASSUME IInv, NEW k \in Kinds, NEW n, n = NextCall,
           kind' = Append(kind, k), Len(kind) < MaxCalls,
           reading' = NoCall, reading = NoCall,
           \A c \in Call : c # n => result'[c] = result[c]
    PROVE  /\ n \in Call /\ n \in Int
           /\ kind' \in Seq(Kinds) /\ Len(kind') <= MaxCalls /\ Len(kind') = n
           /\ MadeCalls' = MadeCalls \cup {n}
           /\ MadeCalls \subseteq Call
           /\ kind'[n] = k
           /\ \A c \in MadeCalls :
                 /\ c < n /\ c \in Int /\ kind'[c] = kind[c]
                 /\ Open(c)' <=> Open(c)
                 /\ \A w : /\ Owes(w, c)' <=> Owes(w, c)
                           /\ Answers(w, c)' <=> Answers(w, c)
           /\ \A w : Owes(w, n)' <=>
                        result'[n] = Pending /\ (k = "utility" \/ w = OutputRank)
           /\ Open(n)' <=> result'[n] = Pending
<1>1. kind \in Seq(Kinds) /\ Len(kind) \in Nat /\ MaxCalls \in Nat
  BY Constants DEF IInv, TypeOK
<1>2. /\ kind' \in Seq(Kinds) /\ Len(kind') = Len(kind) + 1 /\ kind'[Len(kind) + 1] = k
      /\ \A c \in 1 .. Len(kind) : kind'[c] = kind[c]
  BY <1>1
<1>3. /\ n \in Call /\ n \in Int /\ Len(kind') = n
      /\ Len(kind') <= MaxCalls
      /\ MadeCalls' = MadeCalls \cup {n}
      /\ MadeCalls \subseteq Call
      /\ \A c \in MadeCalls : c < n /\ c \in Int /\ c # n
  BY <1>1, <1>2 DEF NextCall, MadeCalls, Call
<1>4. /\ kind'[n] = k
      /\ \A c \in MadeCalls : kind'[c] = kind[c] /\ result'[c] = result[c]
  BY <1>2, <1>3 DEF NextCall, MadeCalls
<1>5. \A c \in MadeCalls' : c # NoCall.call
  BY <1>3, Constants DEF NoCall
<1>6. /\ \A c \in MadeCalls : Open(c)' <=> Open(c)
      /\ Open(n)' <=> result'[n] = Pending
  BY <1>3, <1>4 DEF Open
<1>7. /\ \A c \in MadeCalls : \A w : Answers(w, c)' <=> Answers(w, c)
      /\ \A w : Answers(w, n)' <=> (k = "utility" \/ w = OutputRank)
  BY <1>4 DEF Answers
<1>8. /\ \A c \in MadeCalls : \A w : Owes(w, c)' <=> Owes(w, c)
      /\ \A w : Owes(w, n)' <=>
                   result'[n] = Pending /\ (k = "utility" \/ w = OutputRank)
  BY <1>3, <1>5, <1>6, <1>7 DEF Owes
<1> QED
  BY <1>2, <1>3, <1>4, <1>6, <1>7, <1>8

\* A refused call changes no queue.
LEMMA RefuseStep == \A k \in Kinds : IInv /\ Refuse(k) => IInv'
<1> SUFFICES ASSUME NEW k \in Kinds, IInv, Refuse(k) PROVE IInv'
  OBVIOUS
<1>1. /\ pc = "run" /\ Len(kind) < MaxCalls /\ kind' = Append(kind, k)
      /\ pc' \in {"run", "dead"}
      /\ result' = [result EXCEPT ![NextCall] = Raised(<<>>)]
      /\ UNCHANGED <<futures, batch_queue, goal, reading, rpc, async_output, response, alive,
                     is_failed, notified>>
  BY DEF Refuse, monitorVars
<1>2. reading = NoCall /\ reading' = NoCall
  BY <1>1, NotReading
<1>3. result \in [Call -> [status : {"pending", "raised", "returned"}, got : Seq(Call)]]
  BY DEF IInv, TypeOK
<1>0. PICK n : n = NextCall
  OBVIOUS
<1>4. \A c \in Call : c # n => result'[c] = result[c]
  BY <1>0, <1>1, <1>3
<1>5. /\ n \in Call /\ n \in Int
      /\ kind' \in Seq(Kinds) /\ Len(kind') <= MaxCalls
      /\ MadeCalls' = MadeCalls \cup {n}
      /\ MadeCalls \subseteq Call
      /\ \A c \in MadeCalls :
            /\ c < n /\ c \in Int /\ kind'[c] = kind[c]
            /\ Open(c)' <=> Open(c)
            /\ \A w : /\ Owes(w, c)' <=> Owes(w, c)
                      /\ Answers(w, c)' <=> Answers(w, c)
      /\ \A w : Owes(w, n)' => result'[n] = Pending
  <2>1. kind' = Append(kind, k) /\ Len(kind) < MaxCalls
    BY <1>1
  <2>2. /\ n \in Call /\ n \in Int
        /\ kind' \in Seq(Kinds) /\ Len(kind') <= MaxCalls
        /\ MadeCalls' = MadeCalls \cup {n}
        /\ MadeCalls \subseteq Call
    BY <1>0, <1>2, <1>4, <2>1, NewCall
  <2>3. ASSUME NEW c \in MadeCalls
        PROVE  /\ c < n /\ c \in Int /\ kind'[c] = kind[c]
               /\ Open(c)' <=> Open(c)
               /\ \A w : /\ Owes(w, c)' <=> Owes(w, c)
                         /\ Answers(w, c)' <=> Answers(w, c)
    BY <1>0, <1>2, <1>4, <2>1, NewCall
  <2>4. \A w : Owes(w, n)' => result'[n] = Pending
    BY <1>0, <1>2, <1>4, <2>1, NewCall
  <2> QED
    BY <2>2, <2>3, <2>4
<1>6. /\ result'[n] = Raised(<<>>) /\ Raised(<<>>) # Pending
      /\ result' \in [Call -> [status : {"pending", "raised", "returned"}, got : Seq(Call)]]
  <2>1. Raised(<<>>) \in [status : {"pending", "raised", "returned"}, got : Seq(Call)]
    BY DEF Raised
  <2>2. Raised(<<>>) # Pending
    BY DEF Raised, Pending
  <2> QED
    BY <1>0, <1>1, <1>3, <1>5, <2>1, <2>2
<1>7. TypeOK'
  BY <1>1, <1>5, <1>6 DEF IInv, TypeOK
<1>8. /\ Elems(futures)' = Elems(futures) /\ Elems(batch_queue)' = Elems(batch_queue)
      /\ Sorted(futures)' <=> Sorted(futures)
  BY <1>1
<1>9. Futures'
  <2>1. \A c \in Elems(futures) : c \in MadeCalls /\ Open(c) /\ kind[c] = "model"
    BY DEF IInv, Futures, Open
  <2>2. \A c \in Elems(batch_queue) : c \in MadeCalls /\ kind[c] = "model"
    BY DEF IInv, Futures
  <2>3. Sorted(futures)
    BY DEF IInv, Futures
  <2> QED
    BY <1>2, <1>5, <1>8, <2>1, <2>2, <2>3 DEF Futures
<1>10. Waiting' /\ Reading'
  <2>1. /\ \A c \in Call : c \notin MadeCalls => result[c] = Pending
        /\ \A c \in MadeCalls : result[c] = Pending => c = reading.call \/ c \in Elems(futures)
    BY <1>1 DEF IInv, Waiting
  <2>2. pc' # "wait"
    BY <1>1
  <2>3. \A c \in Call : c \notin MadeCalls' => result'[c] = Pending
    BY <1>0, <1>4, <1>5, <2>1
  <2>4. ASSUME NEW c \in MadeCalls', result'[c] = Pending
        PROVE  c = reading'.call \/ c \in Elems(futures)'
    <3>1. c # n /\ c \in MadeCalls /\ c \in Call
      BY <1>5, <1>6, <2>4
    <3>2. result[c] = Pending
      BY <1>0, <1>4, <2>4, <3>1
    <3> QED
      BY <1>2, <1>8, <2>1, <3>1, <3>2
  <2>5. Waiting'
    BY <2>2, <2>3, <2>4 DEF Waiting
  <2> QED
    BY <1>2, <2>5 DEF Reading
<1>11. \A c \in MadeCalls : kind'[c] = kind[c] /\ result'[c] = result[c]
  <2>1. \A c \in MadeCalls : c # n /\ c \in Call
    BY <1>5
  <2> QED
    BY <1>4, <1>5, <2>1
<1>12. Queues'
  <2>1. \A c \in Call : LeftOver(c) => LeftOver(c)'
    BY <1>11, GivenUpStays
  <2>2. ASSUME NEW v \in Rank, NEW d \in MadeCalls, Expected(v, d) PROVE Expected(v, d)'
    BY <1>5, <2>1, <2>2 DEF Expected
  <2>3. ASSUME NEW v \in Rank, NEW d \in MadeCalls', Owes(v, d)'
        PROVE  d \in MadeCalls /\ Owes(v, d)
    BY <1>5, <1>6, <2>3
  <2>4. ASSUME NEW v \in Rank PROVE ResponsesOf(v)' /\ (v \in alive => OutputsOf(v)' /\ CallsOf(v)')
    BY <1>1, <1>5, <2>2, <2>3, QueuesKept
  <2> QED
    BY <1>1, <2>4 DEF Queues, IInv, TypeOK
<1>13. AnswersMatchCalls'
  <2>1. (\A i \in DOMAIN result[n].got : Fits(n, result[n].got[i]))'
    <3>1. result'[n].got = <<>>
      BY <1>6 DEF Raised
    <3> QED
      BY <3>1
  <2> QED
    BY <1>4, <1>11, <2>1, AnswersStay
<1> QED
  BY <1>7, <1>9, <1>10, <1>12, <1>13 DEF IInv

\* A broadcast call is put behind all others on the queue of every worker.
LEMMA EnqueueQueues ==
    ASSUME IInv, NEW k \in Kinds, Enqueue(k), reading' = reading,
           UNCHANGED <<result, async_output, response, alive>>
    PROVE  Queues'
<1>1. /\ pc = "run" /\ Len(kind) < MaxCalls /\ kind' = Append(kind, k)
      /\ rpc' = [w \in Rank |-> Append(rpc[w], NextCall)]
  BY DEF Enqueue
<1>2. reading = NoCall /\ reading' = NoCall
  BY <1>1, NotReading
<1>0. PICK n : n = NextCall
  OBVIOUS
<1>3. /\ n \in Call /\ n \in Int
      /\ MadeCalls' = MadeCalls \cup {n}
      /\ MadeCalls \subseteq Call
      /\ \A c \in MadeCalls :
            /\ c < n /\ c \in Int /\ kind'[c] = kind[c]
            /\ \A w : /\ Owes(w, c)' <=> Owes(w, c)
                      /\ Answers(w, c)' <=> Answers(w, c)
      /\ Len(kind') = n /\ kind'[n] = k
      /\ \A w : Owes(w, n)' <=> result'[n] = Pending /\ (k = "utility" \/ w = OutputRank)
  <2>1. kind' = Append(kind, k) /\ Len(kind) < MaxCalls
    BY <1>1
  <2>2. \A c \in Call : c # n => result'[c] = result[c]
    OBVIOUS
  <2>3. /\ n \in Call /\ n \in Int
        /\ MadeCalls' = MadeCalls \cup {n}
        /\ MadeCalls \subseteq Call
        /\ \A c \in MadeCalls :
              /\ c < n /\ c \in Int /\ kind'[c] = kind[c]
              /\ \A w : /\ Owes(w, c)' <=> Owes(w, c)
                        /\ Answers(w, c)' <=> Answers(w, c)
        /\ Len(kind') = n /\ kind'[n] = k
    BY <1>0, <1>2, <2>1, <2>2, NewCall
  <2>4. \A w : Owes(w, n)' <=> result'[n] = Pending /\ (k = "utility" \/ w = OutputRank)
    BY <1>0, <1>2, <2>1, <2>2, NewCall
  <2> QED
    BY <2>3, <2>4
<1>4. \A w : Answers(w, n)' => Expected(w, n)'
  <2>1. n \notin MadeCalls
    BY <1>3
  <2>2. result'[n] = Pending
    BY <1>3, <2>1 DEF IInv, Waiting
  <2> QED
    BY <1>3, <2>2 DEF Answers, Expected
<1>5. \A w, c : Expected(w, c) => Expected(w, c)' /\ c < n /\ c \in MadeCalls
  <2>1. \A c \in Call : LeftOver(c) => LeftOver(c)'
    BY <1>3, GivenUpStays
  <2>2. ASSUME NEW w, NEW c, Expected(w, c) PROVE Expected(w, c)' /\ c < n /\ c \in MadeCalls
    BY <1>3, <2>1, <2>2 DEF Expected
  <2> QED
    BY <2>2
<1>6. ASSUME NEW w \in Rank
      PROVE  /\ Elems(response[w])' = Elems(response[w])
             /\ Elems(async_output[w])' = Elems(async_output[w])
             /\ SortedByCall(response[w])' <=> SortedByCall(response[w])
             /\ SortedByCall(async_output[w])' <=> SortedByCall(async_output[w])
  OBVIOUS
<1>7. ASSUME NEW w \in Rank PROVE ResponsesOf(w)'
  <2>1. ResponsesOf(w)
    BY DEF IInv, Queues
  <2>2. ASSUME NEW a \in Elems(response[w]), NEW d \in MadeCalls', d < a.call, Owes(w, d)'
        PROVE  \E b \in Elems(response[w]) : b.call = d
    <3>1. a.call < n /\ a.call \in MadeCalls
      BY <1>5, <2>1, <2>2 DEF ResponsesOf
    <3>2. d \in MadeCalls
      <4>1. PICK m : m = a.call
        OBVIOUS
      <4>2. m \in Int /\ n \in Int /\ m < n /\ d < m
        BY <1>3, <2>2, <3>1, <4>1
      <4>3. d # n
        BY ONLY <4>2
      <4> QED
        BY <1>3, <4>3
    <3> QED
      BY <1>3, <2>1, <2>2, <3>2 DEF ResponsesOf
  <2> QED
    BY <1>5, <1>6, <2>1, <2>2 DEF ResponsesOf
<1>8. ASSUME NEW w \in alive' PROVE OutputsOf(w)' /\ CallsOf(w)'
  <2>1. w \in Rank /\ OutputsOf(w) /\ CallsOf(w) /\ ResponsesOf(w)
    BY DEF IInv, Queues, TypeOK
  <2>2. OutputsOf(w)'
    BY <1>5, <1>6, <2>1 DEF OutputsOf
  <2>3. /\ rpc[w] \in Seq(Call) /\ rpc'[w] = Append(rpc[w], n)
        /\ Elems(rpc[w]) \subseteq MadeCalls
    BY <1>0, <1>1, <2>1 DEF IInv, TypeOK, CallsOf
  <2>4. Elems(rpc[w])' = Elems(rpc[w]) \cup {n}
    BY <1>3, <2>3, AppendFacts
  <2>5. Sorted(rpc[w])'
    <3>1. rpc[w] \in Seq(Int) /\ Sorted(rpc[w]) /\ \A y \in Elems(rpc[w]) : y < n
      BY <1>3, <2>1, <2>3, IntSeqs DEF CallsOf
    <3> QED
      BY <1>3, <2>3, <3>1, SortedAppend
  <2>6. \A a \in Elems(response[w]) \cup Elems(async_output[w]) : a.call < n
    BY <1>5, <2>1 DEF ResponsesOf, OutputsOf
  <2>7. ASSUME NEW c \in Elems(rpc[w])'
        PROVE  /\ c \in MadeCalls'
               /\ Answers(w, c)' => Expected(w, c)'
               /\ \A a \in Elems(response[w]) \cup Elems(async_output[w]) : a.call < c
    <3>1. CASE c = n
      BY <1>3, <1>4, <2>6, <3>1
    <3>2. CASE c \in Elems(rpc[w])
      BY <1>3, <1>5, <2>1, <2>3, <3>2 DEF CallsOf
    <3> QED
      BY <2>4, <3>1, <3>2
  <2>8. ASSUME NEW d \in MadeCalls', Owes(w, d)'
        PROVE  \/ d \in Elems(rpc[w])'
               \/ \E a \in Elems(response[w]) \cup Elems(async_output[w]) : a.call = d
    <3>1. CASE d = n
      BY <2>4, <3>1
    <3>2. CASE d \in MadeCalls
      BY <1>3, <2>1, <2>4, <2>8, <3>2 DEF CallsOf
    <3> QED
      BY <1>3, <3>1, <3>2
  <2>9. CallsOf(w)'
    BY <1>6, <2>1, <2>5, <2>7, <2>8 DEF CallsOf
  <2> QED
    BY <2>2, <2>9
<1> QED
  BY <1>7, <1>8 DEF Queues

\* CallModel: the new call is the youngest future.
LEMMA CallModelStep == IInv /\ CallModel => IInv'
<1> SUFFICES ASSUME IInv, CallModel PROVE IInv'
  OBVIOUS
<1>1. /\ Enqueue("model") /\ pc = "run" /\ Len(kind) < MaxCalls
      /\ kind' = Append(kind, "model")
      /\ rpc' = [w \in Rank |-> Append(rpc[w], NextCall)]
      /\ futures' = Append(futures, NextCall)
      /\ batch_queue' = Append(batch_queue, NextCall)
      /\ UNCHANGED <<result, pc, goal, reading, async_output, response, alive, is_failed,
                     notified>>
  BY DEF CallModel, Enqueue, monitorVars
<1>2. reading = NoCall /\ reading' = NoCall
  BY <1>1, NotReading
<1>0. PICK n : n = NextCall
  OBVIOUS
<1>3. /\ n \in Call /\ n \in Int
      /\ kind' \in Seq(Kinds) /\ Len(kind') <= MaxCalls
      /\ MadeCalls' = MadeCalls \cup {n}
      /\ MadeCalls \subseteq Call
      /\ \A c \in MadeCalls :
            /\ c < n /\ c \in Int /\ kind'[c] = kind[c]
            /\ Open(c)' <=> Open(c)
      /\ kind'[n] = "model"
      /\ Open(n)' <=> result'[n] = Pending
  BY <1>1, <1>2, <1>0, NewCall DEF Kinds
<1>4. /\ futures \in Seq(Call) /\ batch_queue \in Seq(Call) /\ rpc \in [Rank -> Seq(Call)]
  BY DEF IInv, TypeOK
<1>5. /\ futures' \in Seq(Call) /\ batch_queue' \in Seq(Call)
      /\ Elems(futures') = Elems(futures) \cup {n}
      /\ Elems(batch_queue') = Elems(batch_queue) \cup {n}
  BY <1>0, <1>1, <1>3, <1>4, AppendFacts
<1>6. rpc' \in [Rank -> Seq(Call)]
  BY <1>0, <1>1, <1>3, <1>4
<1>7. TypeOK'
  BY <1>1, <1>3, <1>5, <1>6 DEF IInv, TypeOK
<1>8. /\ \A c \in Call : c \notin MadeCalls => result[c] = Pending
      /\ \A c \in MadeCalls : result[c] = Pending => c = reading.call \/ c \in Elems(futures)
      /\ \A c \in Elems(futures) : c \in MadeCalls /\ Open(c) /\ kind[c] = "model"
      /\ \A c \in Elems(batch_queue) : c \in MadeCalls /\ kind[c] = "model"
      /\ Sorted(futures)
  BY <1>1 DEF IInv, Waiting, Futures, Open
<1>9. Open(n)'
  BY <1>1, <1>3, <1>8
<1>10. Sorted(futures')
  <2>1. futures \in Seq(Int) /\ \A y \in Elems(futures) : y < n
    BY <1>3, <1>4, <1>8, IntSeqs
  <2> QED
    BY <1>0, <1>1, <1>3, <1>8, <2>1, SortedAppend
<1>11. Futures'
  BY <1>2, <1>3, <1>5, <1>8, <1>9, <1>10 DEF Futures
<1>12. Waiting' /\ Reading'
  BY <1>1, <1>2, <1>3, <1>5, <1>8 DEF Waiting, Reading
<1>13. Queues'
  BY <1>1, EnqueueQueues DEF Kinds
<1>14. AnswersMatchCalls'
  BY <1>1, <1>3, AnswersStay
<1> QED
  BY <1>7, <1>11, <1>12, <1>13, <1>14 DEF IInv

\* CallUtility: the engine waits for the new call.
LEMMA CallUtilityStep == IInv /\ CallUtility => IInv'
<1> SUFFICES ASSUME IInv, CallUtility PROVE IInv'
  OBVIOUS
<1>1. /\ Enqueue("utility") /\ pc = "run" /\ Len(kind) < MaxCalls
      /\ kind' = Append(kind, "utility")
      /\ rpc' = [w \in Rank |-> Append(rpc[w], NextCall)]
      /\ goal' = NextCall /\ pc' = "wait"
      /\ UNCHANGED <<futures, batch_queue, result, reading, async_output, response, alive,
                     is_failed, notified>>
  BY DEF CallUtility, Enqueue, monitorVars
<1>2. reading = NoCall /\ reading' = NoCall
  BY <1>1, NotReading
<1>0. PICK n : n = NextCall
  OBVIOUS
<1>3. /\ n \in Call /\ n \in Int
      /\ kind' \in Seq(Kinds) /\ Len(kind') <= MaxCalls /\ Len(kind') = n
      /\ MadeCalls' = MadeCalls \cup {n}
      /\ MadeCalls \subseteq Call
      /\ \A c \in MadeCalls :
            /\ c < n /\ c \in Int /\ kind'[c] = kind[c]
            /\ Open(c)' <=> Open(c)
      /\ kind'[n] = "utility"
  BY <1>1, <1>2, <1>0, NewCall DEF Kinds
<1>4. rpc \in [Rank -> Seq(Call)]
  BY DEF IInv, TypeOK
<1>6. rpc' \in [Rank -> Seq(Call)]
  BY <1>0, <1>1, <1>3, <1>4
<1>7. TypeOK'
  BY <1>0, <1>1, <1>3, <1>6 DEF IInv, TypeOK
<1>8. /\ \A c \in Call : c \notin MadeCalls => result[c] = Pending
      /\ \A c \in MadeCalls : result[c] = Pending => c = reading.call \/ c \in Elems(futures)
      /\ \A c \in Elems(futures) : c \in MadeCalls /\ Open(c) /\ kind[c] = "model"
      /\ \A c \in Elems(batch_queue) : c \in MadeCalls /\ kind[c] = "model"
      /\ Sorted(futures)
  BY <1>1 DEF IInv, Waiting, Futures, Open
<1>9. /\ Elems(futures)' = Elems(futures) /\ Elems(batch_queue)' = Elems(batch_queue)
      /\ Sorted(futures)' <=> Sorted(futures)
  BY <1>1
<1>11. Futures'
  BY <1>2, <1>3, <1>8, <1>9 DEF Futures
<1>12. Waiting' /\ Reading'
  <2>1. goal' = n
    BY <1>0, <1>1
  <2> QED
    BY <1>1, <1>2, <1>3, <1>8, <1>9, <2>1 DEF Waiting, Reading
<1>13. Queues'
  BY <1>1, EnqueueQueues DEF Kinds
<1>14. AnswersMatchCalls'
  BY <1>1, <1>3, AnswersStay
<1> QED
  BY <1>7, <1>11, <1>12, <1>13, <1>14 DEF IInv

\* StartReading: the oldest future, or the blocking call when there is none, is the
\* oldest open call; every rank that owes its answer is read.
LEMMA StartReadingStep == IInv /\ StartReading => IInv'
<1> SUFFICES ASSUME IInv, StartReading PROVE IInv'
  OBVIOUS
<1>0. PICK r : r = NextToRead
  OBVIOUS
<1>1. /\ pc = "wait" /\ reading = NoCall /\ result[goal] = Pending
      /\ reading' = [call |-> r, ranks |-> response_mqs(r), got |-> <<>>]
      /\ futures' = IF futures # <<>> /\ r = Head(futures) THEN Tail(futures) ELSE futures
      /\ UNCHANGED <<kind, batch_queue, result, pc, goal, rpc, async_output, response, alive,
                     is_failed, notified>>
  BY <1>0 DEF StartReading, monitorVars
<1>2. /\ futures \in Seq(Call) /\ Sorted(futures)
      /\ \A c \in Elems(futures) : Open(c) /\ kind[c] = "model" /\ c \in MadeCalls
      /\ \A c \in Elems(batch_queue) : c \in MadeCalls /\ kind[c] = "model"
      /\ goal \in MadeCalls
      /\ kind[goal] = "utility" => goal = Len(kind)
      /\ kind \in Seq(Kinds)
  BY <1>1 DEF IInv, TypeOK, Futures, Waiting, Open
<1>3. MadeCalls \subseteq Call
  BY <1>2, Constants DEF IInv, TypeOK, MadeCalls, Call
<1>4. reading.call = 0 /\ \A c \in MadeCalls : c # 0
  BY <1>1, <1>3, Constants DEF NoCall
<1>5. /\ r \in MadeCalls /\ result[r] = Pending
      /\ futures' \in Seq(Call) /\ Sorted(futures')
      /\ \A c \in Elems(futures') : c \in Elems(futures) /\ r < c
      /\ \A c \in MadeCalls : result[c] = Pending =>
            \/ c = r
            \/ c \in Elems(futures')
            \/ c = goal /\ kind[c] = "utility"
  <2>1. \A c \in MadeCalls : result[c] = Pending =>
            c \in Elems(futures) \/ (c = goal /\ kind[c] = "utility")
    BY <1>4 DEF IInv, Waiting
  <2>2. CASE futures # <<>>
    <3>1. r = Head(futures) /\ futures' = Tail(futures)
      BY <1>0, <1>1, <2>2 DEF NextToRead
    <3>2. /\ futures' \in Seq(Call) /\ Elems(futures) = Elems(futures') \cup {r}
      BY <1>2, <2>2, <3>1, TailFacts
    <3>3. Sorted(futures') /\ \A c \in Elems(futures') : r < c
      <4>1. futures \in Seq(Int)
        BY <1>2, IntSeqs
      <4> QED
        BY <1>2, <2>2, <3>1, <4>1, SortedTail
    <3> QED
      BY <1>2, <2>1, <3>2, <3>3 DEF Open
  <2>3. CASE futures = <<>>
    <3>1. r = goal /\ futures' = <<>> /\ Elems(futures') = {} /\ Sorted(futures')
      BY <1>0, <1>1, <2>3, EmptyFacts DEF NextToRead
    <3> QED
      BY <1>1, <1>2, <2>1, <2>3, <3>1, EmptyFacts
  <2> QED
    BY <2>2, <2>3
<1>6. /\ reading'.call = r /\ reading'.ranks = response_mqs(r) /\ reading'.got = <<>>
      /\ reading' # NoCall
  BY <1>1, <1>4, <1>5 DEF NoCall
<1>7. /\ reading'.ranks \in Seq(Rank) /\ reading'.ranks # <<>> /\ Sorted(reading'.ranks)
      /\ \A w \in Rank : Answers(w, r) <=> w \in Elems(reading'.ranks)
  <2>1. CASE kind[r] = "model"
    <3>1. reading'.ranks = <<OutputRank>>
      BY <1>6, <2>1 DEF response_mqs
    <3>2. <<OutputRank>> \in Seq(Rank) /\ <<OutputRank>> # <<>> /\ Sorted(<<OutputRank>>)
      BY Constants DEF Sorted
    <3>3. Elems(<<OutputRank>>) = {OutputRank}
      BY DEF Elems
    <3> QED
      BY <2>1, <3>1, <3>2, <3>3 DEF Answers
  <2>2. CASE kind[r] # "model"
    <3> DEFINE all == [i \in 1 .. WorldSize |-> i - 1]
    <3>1. reading'.ranks = all
      BY <1>6, <2>2 DEF response_mqs
    <3>2. WorldSize \in Nat \ {0}
      BY Constants
    <3>3. all \in Seq(Rank) /\ Len(all) = WorldSize /\ all # <<>> /\ Sorted(all)
      BY <3>2 DEF Sorted, Rank
    <3>4. ASSUME NEW w \in Rank PROVE w \in Elems(all)
      <4>1. w + 1 \in 1 .. Len(all) /\ all[w + 1] = w
        BY <3>2, <3>3 DEF Rank
      <4> QED
        BY <4>1 DEF Elems
    <3>5. kind[r] = "utility"
      BY <1>2, <1>5, <2>2 DEF MadeCalls, Kinds
    <3> QED
      BY <3>1, <3>3, <3>4, <3>5 DEF Answers
  <2> QED
    BY <2>1, <2>2
<1>8. /\ \A c : Open(c)' <=> Open(c)
      /\ MadeCalls' = MadeCalls
      /\ \A w, c : Answers(w, c)' <=> Answers(w, c)
      /\ \A c : LeftOver(c)' <=> LeftOver(c)
      /\ AnswersMatchCalls'
  <2>1. /\ \A c : Open(c)' <=> Open(c)
        /\ MadeCalls' = MadeCalls
        /\ \A w, c : Answers(w, c)' <=> Answers(w, c)
    BY <1>1 DEF Open, MadeCalls, Answers
  <2>2. \A c : LeftOver(c)' <=> LeftOver(c)
    BY <1>1 DEF LeftOver, GaveUp, response_mqs
  <2>3. AnswersMatchCalls'
    BY <1>1, <2>2 DEF IInv, AnswersMatchCalls, Fits
  <2> QED
    BY <2>1, <2>2, <2>3
<1>9. \A w \in Rank : \A c : Owes(w, c)' <=> Owes(w, c)
  <2> SUFFICES ASSUME NEW w \in Rank, NEW c PROVE Owes(w, c)' <=> Owes(w, c)
    OBVIOUS
  <2>1. /\ Owes(w, c) <=> Open(c) /\ Answers(w, c)
        /\ Open(c) => c \in MadeCalls
    BY <1>4 DEF Owes, Open
  <2>2. Owes(w, c)' <=> Open(c)' /\ Answers(w, c)' /\ (c = r => w \in Elems(reading'.ranks))
    BY <1>6 DEF Owes
  <2> QED
    BY <1>7, <1>8, <2>1, <2>2
<1>10. TypeOK'
  <2>1. reading' \in [call : Call \cup {0}, ranks : Seq(Rank), got : Seq(Call)]
    BY <1>1, <1>3, <1>5, <1>6, <1>7
  <2> QED
    BY <1>1, <1>5, <2>1 DEF IInv, TypeOK
<1>11. Futures'
  <2>1. Elems(batch_queue)' = Elems(batch_queue)
    BY <1>1
  <2> QED
    BY <1>1, <1>2, <1>5, <1>6, <1>8, <2>1 DEF Futures
<1>12. Waiting'
  <2>1. \A c \in Call : c \notin MadeCalls => result[c] = Pending
    BY DEF IInv, Waiting
  <2> QED
    BY <1>1, <1>2, <1>5, <1>6, <1>8, <2>1 DEF Waiting
<1>13. Reading'
  <2>1. Open(r)'
    BY <1>5, <1>8 DEF Open
  <2>2. Elems(reading'.got) = {} /\ Len(reading'.got) = 0
    BY <1>6, EmptyFacts
  <2>3. \A w \in Elems(reading'.ranks) : Answers(w, r)'
    <3>1. Elems(reading'.ranks) \subseteq Rank
      BY <1>7, ElemsType
    <3> QED
      BY <1>7, <1>8, <3>1
  <2>4. response_mqs(r)' = response_mqs(r) /\ Len(reading'.ranks) \in Nat
    <3>1. response_mqs(r)' = response_mqs(r)
      BY <1>1 DEF response_mqs
    <3>2. Len(reading'.ranks) \in Nat
      BY <1>7
    <3> QED
      BY <3>1, <3>2
  <2>5. Len(reading'.got) + Len(reading'.ranks) = Len(response_mqs(r)')
    BY <1>6, <2>2, <2>4
  <2> QED
    BY <1>1, <1>6, <1>7, <2>1, <2>2, <2>3, <2>5 DEF Reading
<1>14. Queues'
  <2>1. \A v \in Rank : \A d : Expected(v, d) => Expected(v, d)'
    BY <1>8, <1>9 DEF Expected
  <2>2. ASSUME NEW v \in Rank PROVE ResponsesOf(v)' /\ (v \in alive => OutputsOf(v)' /\ CallsOf(v)')
    BY <1>1, <1>8, <1>9, <2>1, QueuesKept
  <2> QED
    BY <1>1, <2>2 DEF Queues, IInv, TypeOK
<1> QED
  BY <1>8, <1>10, <1>11, <1>12, <1>13, <1>14 DEF IInv

\* Steps that change only queues keep what is said about the engine.
LEMMA EngineFrame ==
    ASSUME IInv, UNCHANGED <<kind, futures, batch_queue, result, pc, goal, reading>>
    PROVE  Futures' /\ Waiting' /\ Reading' /\ AnswersMatchCalls'
<1>1. /\ \A c : Open(c)' = Open(c)
      /\ MadeCalls' = MadeCalls
      /\ AnswersMatchCalls'
  BY OwesFrame DEF IInv
<1>2. Elems(futures)' = Elems(futures) /\ Elems(batch_queue)' = Elems(batch_queue)
      /\ (Sorted(futures)' <=> Sorted(futures))
  OBVIOUS
<1>3. Futures'
  BY <1>1, <1>2 DEF IInv, Futures
<1>4. Waiting'
  BY <1>1, <1>2 DEF IInv, Waiting
<1>5. Reading'
  BY ReadingFrame
<1> QED
  BY <1>1, <1>3, <1>4, <1>5

\* Execute: worker w takes its oldest call and, when it owes an answer, puts it behind
\* those it has given.
LEMMA ExecuteStep ==
    ASSUME IInv, NEW w \in Rank, Execute(w)
    PROVE  IInv'
<1>c. PICK c : c = Head(rpc[w])
  OBVIOUS
<1>0. PICK ok \in BOOLEAN :
        /\ ok \/ kind[c] \in FailingKinds
        /\ IF AsyncOutput
           THEN /\ async_output' = [async_output EXCEPT ![w] = @ \o AnswerTo(w, c, ok)]
                /\ response' = response
           ELSE /\ response' = [response EXCEPT ![w] = @ \o AnswerTo(w, c, ok)]
                /\ async_output' = async_output
  BY <1>c DEF Execute
<1>1. /\ w \in alive /\ rpc[w] # <<>> /\ c = Head(rpc[w])
      /\ rpc' = [rpc EXCEPT ![w] = Tail(@)]
      /\ UNCHANGED <<kind, futures, batch_queue, result, pc, goal, reading, alive, is_failed,
                     notified>>
  BY <1>c DEF Execute, engineVars, monitorVars
<1>2. /\ rpc \in [Rank -> Seq(Call)] /\ async_output \in [Rank -> Seq(Answer)]
      /\ response \in [Rank -> Seq(Answer)] /\ kind \in Seq(Kinds)
  BY DEF IInv, TypeOK
<1>3. ResponsesOf(w) /\ OutputsOf(w) /\ CallsOf(w)
  BY <1>1 DEF IInv, Queues
<1> DEFINE x == [call |-> c, ok |-> ok]
<1>4. /\ rpc'[w] = Tail(rpc[w]) /\ rpc'[w] \in Seq(Call) /\ c \in Call
      /\ Elems(rpc[w]) = Elems(rpc'[w]) \cup {c}
  <2>1. rpc[w] \in Seq(Call) /\ rpc'[w] = Tail(rpc[w])
    BY <1>1, <1>2
  <2> QED
    BY <1>1, <2>1, TailFacts
<1>5. Sorted(rpc'[w]) /\ \A d \in Elems(rpc'[w]) : c < d
  <2>1. rpc[w] \in Seq(Int) /\ Sorted(rpc[w])
    BY <1>2, <1>3, IntSeqs DEF CallsOf
  <2> QED
    BY <1>1, <1>4, <2>1, SortedTail
<1>6. /\ c \in MadeCalls
      /\ Answers(w, c) => Expected(w, c)
      /\ \A a \in Elems(response[w]) \cup Elems(async_output[w]) : a.call < c
      /\ \A d \in Elems(rpc'[w]) :
            /\ d \in MadeCalls
            /\ Answers(w, d) => Expected(w, d)
            /\ \A a \in Elems(response[w]) \cup Elems(async_output[w]) : a.call < d
      /\ \A d \in MadeCalls : Owes(w, d) =>
            \/ d \in Elems(rpc'[w]) \/ d = c
            \/ \E a \in Elems(response[w]) \cup Elems(async_output[w]) : a.call = d
  BY <1>3, <1>4 DEF CallsOf
<1>7. x \in Answer /\ x.call = c
  BY <1>0, <1>4 DEF Answer
<1> HIDE DEF x
<1>8. /\ \A v, d : Owes(v, d)' = Owes(v, d)
      /\ \A v, d : Answers(v, d)' = Answers(v, d)
      /\ \A v, d : Expected(v, d)' = Expected(v, d)
      /\ MadeCalls' = MadeCalls
  BY <1>1, OwesFrame
<1>9. Futures' /\ Waiting' /\ Reading' /\ AnswersMatchCalls'
  BY <1>1, EngineFrame
<1>10. rpc' \in [Rank -> Seq(Call)] /\ \A v \in Rank : v # w => rpc'[v] = rpc[v]
  BY <1>1, <1>2, <1>4
\* What is left to show, once the queues of the step are known.
<1>11. ASSUME response' \in [Rank -> Seq(Answer)], async_output' \in [Rank -> Seq(Answer)],
              \A v \in Rank : v # w => /\ response'[v] = response[v]
                                       /\ async_output'[v] = async_output[v],
              ResponsesOf(w)', OutputsOf(w)', CallsOf(w)'
       PROVE  IInv'
  <2>1. TypeOK'
    BY <1>1, <1>10, <1>11 DEF IInv, TypeOK
  <2>2. ASSUME NEW v \in Rank PROVE ResponsesOf(v)' /\ (v \in alive => OutputsOf(v)' /\ CallsOf(v)')
    <3>1. CASE v = w
      BY <1>11, <3>1
    <3>2. CASE v # w
      BY <1>1, <1>10, <1>11, <3>2, OtherWorker
    <3> QED
      BY <3>1, <3>2
  <2>3. Queues'
    BY <1>1, <2>2 DEF Queues, IInv, TypeOK
  <2> QED
    BY <1>9, <2>1, <2>3 DEF IInv
<1>12. CASE ~Answers(w, c)
  <2>1. response' = response /\ async_output' = async_output
    <3>1. AnswerTo(w, c, ok) = <<>>
      BY <1>12 DEF AnswerTo
    <3>2. response[w] \o <<>> = response[w] /\ async_output[w] \o <<>> = async_output[w]
      BY <1>2
    <3> QED
      BY <1>0, <1>2, <3>1, <3>2
  <2>2. ~Owes(w, c)
    BY <1>12 DEF Owes
  <2>3. /\ Elems(response[w])' = Elems(response[w])
        /\ Elems(async_output[w])' = Elems(async_output[w])
        /\ SortedByCall(response[w])' <=> SortedByCall(response[w])
        /\ SortedByCall(async_output[w])' <=> SortedByCall(async_output[w])
    BY <2>1
  <2>4. ResponsesOf(w)'
    BY <1>3, <1>8, <2>3 DEF ResponsesOf
  <2>5. OutputsOf(w)'
    BY <1>3, <1>8, <2>1, <2>3 DEF OutputsOf
  <2>6. CallsOf(w)'
    BY <1>5, <1>6, <1>8, <2>2, <2>3 DEF CallsOf
  <2> QED
    BY <1>2, <1>11, <2>1, <2>4, <2>5, <2>6
<1>13. CASE Answers(w, c) /\ AsyncOutput
  <2>1. response' = response /\ async_output' = [async_output EXCEPT ![w] = Append(@, x)]
    <3>1. AnswerTo(w, c, ok) = <<x>>
      BY <1>13 DEF AnswerTo, x
    <3>2. async_output[w] \o <<x>> = Append(async_output[w], x)
      BY <1>2, <1>7
    <3> QED
      BY <1>0, <1>2, <1>13, <3>1, <3>2
  <2>2. /\ async_output'[w] = Append(async_output[w], x)
        /\ async_output' \in [Rank -> Seq(Answer)]
        /\ \A v \in Rank : v # w => async_output'[v] = async_output[v]
    BY <1>2, <1>7, <2>1
  <2>3. /\ Elems(response[w])' = Elems(response[w])
        /\ SortedByCall(response[w])' <=> SortedByCall(response[w])
    BY <2>1
  <2>4. Elems(async_output[w])' = Elems(async_output[w]) \cup {x}
    BY <1>2, <1>7, <2>2, AppendFacts
  <2>5. SortedByCall(async_output[w])'
    <3>1. /\ async_output[w] \in Seq(Answer) /\ SortedByCall(async_output[w])
          /\ \A y \in Elems(async_output[w]) : y.call < x.call
      BY <1>2, <1>3, <1>6, <1>7 DEF OutputsOf
    <3> QED
      BY <1>7, <2>2, <3>1, SortedByCallAppend
  <2>6. Expected(w, x.call)
    BY <1>6, <1>7, <1>13
  <2>7. ResponsesOf(w)'
    BY <1>3, <1>8, <2>3 DEF ResponsesOf
  <2>8. OutputsOf(w)'
    BY <1>3, <1>6, <1>7, <1>8, <1>13, <2>3, <2>4, <2>5, <2>6 DEF OutputsOf
  <2>9. CallsOf(w)'
    BY <1>5, <1>6, <1>7, <1>8, <2>3, <2>4 DEF CallsOf
  <2> QED
    BY <1>2, <1>11, <2>1, <2>2, <2>7, <2>8, <2>9
<1>14. CASE Answers(w, c) /\ ~AsyncOutput
  <2>1. async_output' = async_output /\ response' = [response EXCEPT ![w] = Append(@, x)]
    <3>1. AnswerTo(w, c, ok) = <<x>>
      BY <1>14 DEF AnswerTo, x
    <3>2. response[w] \o <<x>> = Append(response[w], x)
      BY <1>2, <1>7
    <3> QED
      BY <1>0, <1>2, <1>14, <3>1, <3>2
  <2>2. /\ response'[w] = Append(response[w], x)
        /\ response' \in [Rank -> Seq(Answer)]
        /\ \A v \in Rank : v # w => response'[v] = response[v]
    BY <1>2, <1>7, <2>1
  <2>3. async_output[w] = <<>> /\ Elems(async_output[w]) = {} /\ Elems(async_output[w])' = {}
        /\ SortedByCall(async_output[w])' /\ async_output'[w] = <<>>
    BY <1>3, <1>14, <2>1, EmptyFacts DEF OutputsOf
  <2>4. Elems(response[w])' = Elems(response[w]) \cup {x}
    BY <1>2, <1>7, <2>2, AppendFacts
  <2>5. SortedByCall(response[w])'
    <3>1. /\ response[w] \in Seq(Answer) /\ SortedByCall(response[w])
          /\ \A y \in Elems(response[w]) : y.call < x.call
      BY <1>2, <1>3, <1>6, <1>7 DEF ResponsesOf
    <3> QED
      BY <1>7, <2>2, <3>1, SortedByCallAppend
  <2>6. Expected(w, x.call)
    BY <1>6, <1>7, <1>14
  <2>7. ResponsesOf(w)'
    <3>1. ASSUME NEW d \in MadeCalls, d < c, Owes(w, d)
          PROVE  \E b \in Elems(response[w]) : b.call = d
      <4>1. d \notin Elems(rpc'[w])
        BY <1>4, <1>5, <3>1, ElemsType, Constants
      <4>2. d # c
        BY <1>4, <3>1, Constants
      <4> QED
        BY <1>6, <2>3, <3>1, <4>1, <4>2
    <3> QED
      BY <1>3, <1>7, <1>8, <2>4, <2>5, <2>6, <3>1 DEF ResponsesOf
  <2>8. OutputsOf(w)'
    BY <2>3 DEF OutputsOf
  <2>9. CallsOf(w)'
    BY <1>5, <1>6, <1>7, <1>8, <2>3, <2>4 DEF CallsOf
  <2> QED
    BY <1>2, <1>11, <2>1, <2>2, <2>7, <2>8, <2>9
<1> QED
  BY <1>12, <1>13, <1>14

\* The answers in a queue answer numbered calls.
LEMMA AnswerCalls ==
    ASSUME NEW s \in Seq(Answer)
    PROVE  \A a \in Elems(s) : a.call \in Int
<1>1. Elems(s) \subseteq Answer
  BY ElemsType
<1>2. \A a \in Answer : a.call \in Call
  BY DEF Answer
<1> QED
  BY <1>1, <1>2, Constants

\* EnqueueOutput: the oldest answer of the output thread goes behind those sent; there
\* is no gap in front of it because w has not lost any answer it owes.
LEMMA EnqueueOutputStep ==
    ASSUME IInv, NEW w \in Rank, EnqueueOutput(w)
    PROVE  IInv'
<1>0. PICK x : x = Head(async_output[w])
  OBVIOUS
<1>1. /\ w \in alive /\ async_output[w] # <<>>
      /\ response' = [response EXCEPT ![w] = Append(@, x)]
      /\ async_output' = [async_output EXCEPT ![w] = Tail(@)]
      /\ UNCHANGED <<kind, futures, batch_queue, result, pc, goal, reading, rpc, alive,
                     is_failed, notified>>
  BY <1>0 DEF EnqueueOutput, engineVars, monitorVars
<1>2. /\ rpc \in [Rank -> Seq(Call)] /\ async_output \in [Rank -> Seq(Answer)]
      /\ response \in [Rank -> Seq(Answer)]
  BY DEF IInv, TypeOK
<1>3. ResponsesOf(w) /\ OutputsOf(w) /\ CallsOf(w)
  BY <1>1 DEF IInv, Queues
<1>4. /\ async_output[w] \in Seq(Answer) /\ async_output'[w] = Tail(async_output[w])
      /\ async_output'[w] \in Seq(Answer) /\ x \in Answer
      /\ Elems(async_output[w]) = Elems(async_output'[w]) \cup {x}
  <2>1. async_output[w] \in Seq(Answer) /\ async_output'[w] = Tail(async_output[w])
    BY <1>1, <1>2
  <2> QED
    BY <1>0, <1>1, <2>1, TailFacts
<1>5. SortedByCall(async_output'[w]) /\ \A a \in Elems(async_output'[w]) : x.call < a.call
  BY <1>0, <1>1, <1>3, <1>4, SortedByCallTail DEF OutputsOf
<1>6. /\ response[w] \in Seq(Answer) /\ response'[w] = Append(response[w], x)
      /\ Elems(response'[w]) = Elems(response[w]) \cup {x}
  <2>1. response[w] \in Seq(Answer) /\ response'[w] = Append(response[w], x)
    BY <1>1, <1>2
  <2> QED
    BY <1>4, <2>1, AppendFacts
<1>7. /\ Expected(w, x.call) /\ \A b \in Elems(response[w]) : b.call < x.call
      /\ \A c \in Elems(rpc[w]) : x.call < c
      /\ x.call \in Int
  <2>1. Expected(w, x.call) /\ \A b \in Elems(response[w]) : b.call < x.call
    BY <1>3, <1>4 DEF OutputsOf
  <2>2. \A c \in Elems(rpc[w]) : x.call < c
    BY <1>3, <1>4 DEF CallsOf
  <2> QED
    BY <1>4, <2>1, <2>2, Constants DEF Answer
<1>8. SortedByCall(response'[w])
  <2>1. SortedByCall(response[w])
    BY <1>3 DEF ResponsesOf
  <2> QED
    BY <1>4, <1>6, <1>7, <2>1, SortedByCallAppend
<1>9. /\ \A v, d : Owes(v, d)' = Owes(v, d)
      /\ \A v, d : Answers(v, d)' = Answers(v, d)
      /\ \A v, d : Expected(v, d)' = Expected(v, d)
      /\ MadeCalls' = MadeCalls
  BY <1>1, OwesFrame
<1>10. Futures' /\ Waiting' /\ Reading' /\ AnswersMatchCalls'
  BY <1>1, EngineFrame
<1>11. Elems(rpc[w])' = Elems(rpc[w]) /\ (Sorted(rpc[w])' <=> Sorted(rpc[w]))
  BY <1>1
<1>12. ResponsesOf(w)'
  <2>1. ASSUME NEW d \in MadeCalls, d < x.call, Owes(w, d)
        PROVE  \E b \in Elems(response[w]) : b.call = d
    <3>1. d \in Int
      BY DEF MadeCalls
    <3>2. d \notin Elems(rpc[w])
      <4>1. \A c \in Elems(rpc[w]) : c \in Int
        BY <1>2, ElemsType, Constants
      <4> QED
        BY <1>7, <2>1, <3>1, <4>1
    <3>3. ASSUME NEW a \in Elems(async_output[w]) PROVE a.call # d
      <4>1. a.call \in Int
        BY <1>4, AnswerCalls
      <4> QED
        BY <1>4, <1>5, <1>7, <2>1, <3>1, <4>1
    <3> QED
      BY <1>3, <2>1, <3>2, <3>3 DEF CallsOf
  <2> QED
    BY <1>3, <1>6, <1>7, <1>8, <1>9, <2>1 DEF ResponsesOf
<1>13. OutputsOf(w)'
  <2>1. AsyncOutput
    BY <1>1, <1>3 DEF OutputsOf
  <2>2. \A a \in Elems(async_output'[w]) :
          Expected(w, a.call) /\ \A b \in Elems(response'[w]) : b.call < a.call
    BY <1>3, <1>4, <1>5, <1>6 DEF OutputsOf
  <2> QED
    BY <1>5, <1>9, <2>1, <2>2 DEF OutputsOf
<1>14. CallsOf(w)'
  <2>1. Elems(response'[w]) \cup Elems(async_output'[w]) = Elems(response[w]) \cup Elems(async_output[w])
    BY <1>4, <1>6
  <2> QED
    BY <1>3, <1>9, <1>11, <2>1 DEF CallsOf
<1>15. /\ response' \in [Rank -> Seq(Answer)] /\ async_output' \in [Rank -> Seq(Answer)]
       /\ \A v \in Rank : v # w => /\ response'[v] = response[v]
                                   /\ async_output'[v] = async_output[v]
  BY <1>1, <1>2, <1>4
<1>16. TypeOK'
  BY <1>1, <1>15 DEF IInv, TypeOK
<1>17. ASSUME NEW v \in Rank PROVE ResponsesOf(v)' /\ (v \in alive => OutputsOf(v)' /\ CallsOf(v)')
  <2>1. CASE v = w
    BY <1>12, <1>13, <1>14, <2>1
  <2>2. CASE v # w
    BY <1>1, <1>15, <2>2, OtherWorker
  <2> QED
    BY <2>1, <2>2
<1>18. Queues'
  BY <1>1, <1>17 DEF Queues, IInv, TypeOK
<1> QED
  BY <1>10, <1>16, <1>18 DEF IInv

\* The call being read is the oldest open one, and its next rank owes the answer.
LEMMA ReadingIsOldest ==
    ASSUME IInv, reading # NoCall
    PROVE  /\ reading.call \in MadeCalls /\ reading.call \in Call /\ pc = "wait"
           /\ Head(reading.ranks) \in Rank
           /\ reading.ranks \in Seq(Rank) /\ reading.ranks # <<>>
           /\ Owes(Head(reading.ranks), reading.call)
           /\ \A c : Open(c) => reading.call <= c
<1>1. /\ pc = "wait" /\ Open(reading.call) /\ reading.ranks # <<>>
      /\ \A w \in Elems(reading.ranks) : Answers(w, reading.call)
  BY DEF IInv, Reading
<1>2. /\ reading.ranks \in Seq(Rank) /\ reading.call \in Call \cup {0} /\ kind \in Seq(Kinds)
      /\ reading.call \in MadeCalls /\ MadeCalls \subseteq Call
  BY <1>1, Constants DEF IInv, TypeOK, Open, MadeCalls, Call
<1>3. Head(reading.ranks) \in Rank /\ Head(reading.ranks) \in Elems(reading.ranks)
  BY <1>1, <1>2, TailFacts
<1>4. Answers(Head(reading.ranks), reading.call)
  BY <1>1, <1>3
<1>5. Owes(Head(reading.ranks), reading.call)
  BY <1>1, <1>3, <1>4 DEF Owes
<1>6. ASSUME NEW c, Open(c) PROVE reading.call <= c
  <2>1. c \in MadeCalls /\ result[c] = Pending /\ c \in Int /\ reading.call \in Int
    BY <1>2, <1>6, Constants DEF Open
  <2>2. CASE c = reading.call
    BY <2>1, <2>2
  <2>3. CASE c \in Elems(futures)
    <3>1. reading.call < c
      BY <2>3 DEF IInv, Futures
    <3> QED
      BY <2>1, <3>1
  <2>4. CASE c = goal /\ kind[c] = "utility" /\ pc = "wait"
    <3>1. c = Len(kind)
      BY <2>4 DEF IInv, Waiting
    <3> QED
      BY <1>2, <3>1 DEF MadeCalls
  <2> QED
    BY <2>1, <2>2, <2>3, <2>4 DEF IInv, Waiting
<1> QED
  BY <1>1, <1>2, <1>3, <1>5, <1>6

\* So the first answer of that rank is its own, or is left over from an older call.
LEMMA FirstAnswerFits ==
    ASSUME IInv, reading # NoCall, NEW w, w = Head(reading.ranks), response[w] # <<>>,
           NEW a, a = Head(response[w])
    PROVE  /\ Fits(reading.call, a.call)
           /\ a \in Answer
           /\ response[w] \in Seq(Answer) /\ Tail(response[w]) \in Seq(Answer)
           /\ Elems(response[w]) = Elems(Tail(response[w])) \cup {a}
           /\ SortedByCall(Tail(response[w]))
           /\ \A b \in Elems(Tail(response[w])) : a.call < b.call
<1> DEFINE r == reading.call
<1>1. w \in Rank /\ Owes(w, r) /\ r \in MadeCalls /\ r \in Call /\ \A c : Open(c) => r <= c
  BY ReadingIsOldest
<1>2. response[w] \in Seq(Answer) /\ ResponsesOf(w)
  BY <1>1 DEF IInv, Queues, TypeOK
<1>3. /\ Tail(response[w]) \in Seq(Answer) /\ a \in Answer
      /\ Elems(response[w]) = Elems(Tail(response[w])) \cup {a}
  BY <1>2, TailFacts
<1>4. SortedByCall(Tail(response[w])) /\ \A b \in Elems(Tail(response[w])) : a.call < b.call
  BY <1>2, SortedByCallTail DEF ResponsesOf
<1> HIDE DEF r
<1>5. /\ Expected(w, a.call)
      /\ \A d \in MadeCalls : d < a.call /\ Owes(w, d) => \E b \in Elems(response[w]) : b.call = d
  BY <1>2, <1>3 DEF ResponsesOf
<1>6. a.call \in Int /\ r \in Int
  BY <1>1, <1>3, Constants DEF Answer
<1>7. a.call <= r
  <2>1. ASSUME r < a.call PROVE FALSE
    <3>1. PICK b \in Elems(response[w]) : b.call = r
      BY <1>1, <1>5, <2>1
    <3> QED
      BY <1>3, <1>4, <1>6, <2>1, <3>1
  <2> QED
    BY <1>6, <2>1
<1>8. ASSUME a.call < r PROVE LeftOver(a.call)
  <2>1. ~Owes(w, a.call)
    <3>1. ~Open(a.call)
      BY <1>1, <1>6, <1>8
    <3> QED
      BY <3>1 DEF Owes
  <2> QED
    BY <1>5, <2>1 DEF Expected
<1>9. Fits(r, a.call)
  BY <1>7, <1>8 DEF Fits
<1> QED
  BY <1>2, <1>3, <1>4, <1>9 DEF r

\* What a step that reads the first answer of w, and settles call r there, does to the
\* queues of w: when the answer was an older one, that of r is left over.
LEMMA SettledHere ==
    ASSUME IInv, reading # NoCall, NEW w, w = Head(reading.ranks), response[w] # <<>>,
           NEW r, r = reading.call, kind' = kind,
           \A d : Owes(w, d)' <=> Owes(w, d) /\ d # r,
           \A c \in Call : LeftOver(c) => LeftOver(c)',
           rpc'[w] = rpc[w], async_output'[w] = async_output[w],
           response'[w] = Tail(response[w])
    PROVE  ResponsesOf(w)' /\ (w \in alive => OutputsOf(w)' /\ CallsOf(w)')
<1>0. PICK a : a = Head(response[w])
  OBVIOUS
<1>1. /\ Fits(r, a.call) /\ a \in Answer
      /\ Elems(response[w]) = Elems(response'[w]) \cup {a}
      /\ SortedByCall(response'[w])
      /\ \A b \in Elems(response'[w]) : a.call < b.call
      /\ response[w] \in Seq(Answer)
  BY <1>0, FirstAnswerFits
<1>2. w \in Rank /\ r \in Int /\ r \in Call /\ \A c : Open(c) => r <= c
  BY ReadingIsOldest, Constants
<1>3. /\ MadeCalls' = MadeCalls /\ MadeCalls \subseteq Call
      /\ \A d : Answers(w, d)' <=> Answers(w, d)
  BY Constants DEF MadeCalls, Answers, IInv, TypeOK, Call
<1>4. /\ Elems(async_output[w])' = Elems(async_output[w])
      /\ Elems(rpc[w])' = Elems(rpc[w])
      /\ SortedByCall(async_output[w])' <=> SortedByCall(async_output[w])
      /\ Sorted(rpc[w])' <=> Sorted(rpc[w])
  OBVIOUS
<1>5. ResponsesOf(w) /\ (w \in alive => OutputsOf(w) /\ CallsOf(w))
  BY <1>2 DEF IInv, Queues
<1>6. a.call \in Call /\ a.call \in Int /\ a.call <= r
  BY <1>1, Constants DEF Answer, Fits
\* What is expected behind the answer read is still expected.
<1>7. ASSUME NEW c, Expected(w, c), a.call < c PROVE Expected(w, c)'
  <2>1. c \in MadeCalls /\ c \in Call /\ c \in Int /\ (Owes(w, c) \/ LeftOver(c))
    BY <1>3, <1>7, Constants DEF Expected
  <2>2. CASE LeftOver(c)
    BY <1>3, <2>1, <2>2 DEF Expected
  <2>3. CASE Owes(w, c) /\ c # r
    BY <1>3, <2>1, <2>3 DEF Expected
  <2>4. CASE c = r
    <3>1. LeftOver(a.call)
      BY <1>1, <1>7, <2>4 DEF Fits
    <3>2. LeftOver(c)
      <4>1. 1 .. a.call \subseteq 1 .. c
        BY <1>6, <1>7, <2>1
      <4> QED
        BY <3>1, <4>1 DEF LeftOver
    <3> QED
      BY <2>2, <3>2
  <2> QED
    BY <2>1, <2>2, <2>3, <2>4
\* What is owed is not what was read.
<1>8. ASSUME NEW d \in MadeCalls, Owes(w, d)' PROVE Owes(w, d) /\ d # a.call
  <2>1. Owes(w, d) /\ d # r /\ r <= d
    BY <1>2, <1>8 DEF Owes
  <2>2. d \in Int
    BY DEF MadeCalls
  <2> QED
    BY <1>2, <1>6, <2>1, <2>2
<1>9. ResponsesOf(w)'
  <2>1. ASSUME NEW b \in Elems(response'[w])
        PROVE  /\ Expected(w, b.call)'
               /\ \A d \in MadeCalls : d < b.call /\ Owes(w, d)' =>
                     \E e \in Elems(response'[w]) : e.call = d
    <3>1. b \in Elems(response[w]) /\ a.call < b.call
      BY <1>1
    <3>2. Expected(w, b.call)'
      BY <1>5, <1>7, <3>1 DEF ResponsesOf
    <3>3. ASSUME NEW d \in MadeCalls, d < b.call, Owes(w, d)'
          PROVE  \E e \in Elems(response'[w]) : e.call = d
      <4>1. Owes(w, d) /\ d # a.call
        BY <1>8, <3>3
      <4>2. PICK e \in Elems(response[w]) : e.call = d
        BY <1>5, <3>1, <3>3, <4>1 DEF ResponsesOf
      <4> QED
        BY <1>1, <4>1, <4>2
    <3> QED
      BY <3>2, <3>3
  <2> QED
    BY <1>1, <1>3, <2>1 DEF ResponsesOf
<1>10. ASSUME w \in alive PROVE OutputsOf(w)'
  <2>1. ASSUME NEW b \in Elems(async_output[w])
        PROVE  Expected(w, b.call)' /\ \A e \in Elems(response'[w]) : e.call < b.call
    <3>1. Expected(w, b.call) /\ \A e \in Elems(response[w]) : e.call < b.call
      BY <1>5, <1>10 DEF OutputsOf
    <3> QED
      BY <1>1, <1>7, <3>1
  <2> QED
    BY <1>4, <1>5, <1>10, <2>1 DEF OutputsOf
<1>11. ASSUME w \in alive PROVE CallsOf(w)'
  <2>0. CallsOf(w)
    BY <1>5, <1>11
  <2>1. ASSUME NEW c \in Elems(rpc[w])
        PROVE  /\ c \in MadeCalls
               /\ Answers(w, c)' => Expected(w, c)'
               /\ \A b \in Elems(response'[w]) \cup Elems(async_output[w]) : b.call < c
    <3>1. /\ c \in MadeCalls /\ (Answers(w, c) => Expected(w, c))
          /\ \A b \in Elems(response[w]) \cup Elems(async_output[w]) : b.call < c
      BY <2>0 DEF CallsOf
    <3> QED
      BY <1>1, <1>3, <1>7, <3>1
  <2>2. ASSUME NEW d \in MadeCalls, Owes(w, d)'
        PROVE  \/ d \in Elems(rpc[w])
               \/ \E b \in Elems(response'[w]) \cup Elems(async_output[w]) : b.call = d
    <3>1. Owes(w, d) /\ d # a.call
      BY <1>8, <2>2
    <3>2. CASE d \in Elems(rpc[w])
      BY <3>2
    <3>3. CASE \E b \in Elems(response[w]) \cup Elems(async_output[w]) : b.call = d
      BY <1>1, <3>1, <3>3
    <3> QED
      BY <2>0, <3>1, <3>2, <3>3 DEF CallsOf
  <2>3. Sorted(rpc[w])
    BY <2>0 DEF CallsOf
  <2> QED
    BY <1>3, <1>4, <2>1, <2>2, <2>3 DEF CallsOf
<1> QED
  BY <1>9, <1>10, <1>11

\* When call r is done nobody owes it, and who owes another call is as before.
LEMMA DoneOwes ==
    ASSUME IInv, reading # NoCall, NEW r, r = reading.call, kind' = kind,
           result'[r] # Pending, \A c \in Call : c # r => result'[c] = result[c],
           reading' = NoCall
    PROVE  /\ \A v \in Rank : \A d : Owes(v, d)' <=> Owes(v, d) /\ d # r
           /\ \A c : Open(c)' <=> Open(c) /\ c # r
           /\ \A c \in Call : LeftOver(c) => LeftOver(c)'
           /\ \A c, a \in Call : Fits(c, a) => Fits(c, a)'
<1>1. /\ r \in MadeCalls /\ kind \in Seq(Kinds) /\ MadeCalls \subseteq Call
      /\ MadeCalls' = MadeCalls /\ \A c \in MadeCalls : c # 0
  BY ReadingIsOldest, Constants DEF IInv, TypeOK, MadeCalls, Call
<1>2. \A c : Open(c)' <=> Open(c) /\ c # r
  BY <1>1 DEF Open
<1>3. \A v, d : Answers(v, d)' <=> Answers(v, d)
  BY DEF Answers
<1>4. ASSUME NEW v \in Rank, NEW d PROVE Owes(v, d)' <=> Owes(v, d) /\ d # r
  <2>1. reading'.call = 0
    BY DEF NoCall
  <2>2. Owes(v, d)' <=> Open(d)' /\ Answers(v, d)'
    BY <1>1, <2>1 DEF Owes, Open
  <2>3. Owes(v, d) <=> Open(d) /\ Answers(v, d) /\ (d = r => v \in Elems(reading.ranks))
    BY DEF Owes
  <2> QED
    BY <1>2, <1>3, <2>2, <2>3
<1>5. \A c \in MadeCalls : kind'[c] = kind[c] /\ (result[c] # Pending => result'[c] = result[c])
  <2>1. result[r] = Pending
    BY DEF IInv, Reading, Open
  <2> QED
    BY <1>1, <2>1
<1>6. /\ \A c \in Call : LeftOver(c) => LeftOver(c)'
      /\ \A c, a \in Call : Fits(c, a) => Fits(c, a)'
  BY <1>5, GivenUpStays
<1> QED
  BY <1>2, <1>4, <1>6

\* What the ranks have not answered yet when r is done is left over.
LEMMA DoneExpected ==
    ASSUME NEW r \in MadeCalls, MadeCalls' = MadeCalls, MadeCalls \subseteq Call, NEW v \in Rank,
           \A d : Owes(v, d)' <=> Owes(v, d) /\ d # r,
           \A c \in Call : LeftOver(c) => LeftOver(c)',
           Owes(v, r) => GaveUp(r)'
    PROVE  \A d \in MadeCalls : Expected(v, d) => Expected(v, d)'
<1> SUFFICES ASSUME NEW d \in MadeCalls, Expected(v, d) PROVE Expected(v, d)'
  OBVIOUS
<1>1. CASE LeftOver(d)
  BY <1>1 DEF Expected
<1>2. CASE Owes(v, d) /\ d # r
  BY <1>2 DEF Expected
<1>3. CASE Owes(v, d) /\ d = r
  <2>1. r \in 1 .. r
    BY DEF MadeCalls
  <2>2. LeftOver(r)'
    BY <1>3, <2>1 DEF LeftOver
  <2> QED
    BY <1>3, <2>2 DEF Expected
<1> QED
  BY <1>1, <1>2, <1>3 DEF Expected

\* What holds of the engine when the call it reads is done.
LEMMA DoneEngine ==
    ASSUME IInv, reading # NoCall, NEW r, r = reading.call,
           UNCHANGED <<kind, futures, batch_queue, pc, goal>>,
           \A c : Open(c)' <=> Open(c) /\ c # r,
           result'[r] # Pending, \A c \in Call : c # r => result'[c] = result[c],
           reading' = NoCall
    PROVE  Futures' /\ Waiting' /\ Reading'
<1>1. /\ r \in MadeCalls /\ MadeCalls \subseteq Call /\ MadeCalls' = MadeCalls
      /\ \A c \in MadeCalls : c \in Int
  <2>1. r \in MadeCalls
    BY ReadingIsOldest
  <2>2. kind \in Seq(Kinds) /\ Len(kind) <= MaxCalls /\ kind' = kind
    BY DEF IInv, TypeOK
  <2> QED
    BY <2>1, <2>2, Constants DEF MadeCalls, Call
<1>2. Elems(futures)' = Elems(futures) /\ Elems(batch_queue)' = Elems(batch_queue)
      /\ (Sorted(futures)' <=> Sorted(futures))
  OBVIOUS
<1>3. Futures'
  <2>1. ASSUME NEW c \in Elems(futures) PROVE Open(c) /\ kind[c] = "model" /\ c # r
    <3>1. Open(c) /\ kind[c] = "model" /\ r < c /\ c \in MadeCalls
      BY DEF IInv, Futures, Open
    <3> QED
      BY <1>1, <3>1
  <2>2. Sorted(futures) /\ \A c \in Elems(batch_queue) : c \in MadeCalls /\ kind[c] = "model"
    BY DEF IInv, Futures
  <2> QED
    BY <1>1, <1>2, <2>1, <2>2 DEF Futures
<1>4. Waiting'
  <2>1. /\ pc = "wait" => goal \in MadeCalls /\ (kind[goal] = "utility" => goal = Len(kind))
        /\ \A c \in Call : c \notin MadeCalls => result[c] = Pending
        /\ \A c \in MadeCalls : result[c] = Pending =>
              \/ c = r
              \/ c \in Elems(futures)
              \/ c = goal /\ kind[c] = "utility" /\ pc = "wait"
    BY DEF IInv, Waiting
  <2> QED
    BY <1>1, <1>2, <2>1 DEF Waiting
<1> QED
  BY <1>3, <1>4 DEF Reading

\* Receive: the answer read is that of the call being read, or one left over.
LEMMA ReceiveStep == IInv /\ Receive => IInv'
<1> SUFFICES ASSUME IInv, Receive PROVE IInv'
  OBVIOUS
<1>0. PICK w, a, r : w = Head(reading.ranks) /\ a = Head(response[w]) /\ r = reading.call
  OBVIOUS
<1>1. /\ reading # NoCall /\ response[w] # <<>>
      /\ response' = [response EXCEPT ![w] = Tail(@)]
      /\ UNCHANGED <<kind, futures, batch_queue, pc, goal, rpc, async_output, alive, is_failed,
                     notified>>
  BY <1>0 DEF Receive, monitorVars
<1>g. PICK got : got = Append(reading.got, a.call)
  OBVIOUS
<1>2. \/ /\ ~a.ok
         /\ result' = [result EXCEPT ![r] = Raised(got)] /\ reading' = NoCall
      \/ /\ a.ok /\ Len(reading.ranks) = 1
         /\ result' = [result EXCEPT ![r] = [status |-> "returned", got |-> got]]
         /\ reading' = NoCall
      \/ /\ a.ok /\ Len(reading.ranks) > 1
         /\ reading' = [reading EXCEPT !.ranks = Tail(@), !.got = got]
         /\ result' = result
  BY <1>0, <1>g DEF Receive
<1>3. /\ r \in MadeCalls /\ r \in Call /\ r \in Int /\ pc = "wait" /\ w \in Rank
      /\ reading.ranks \in Seq(Rank) /\ reading.ranks # <<>>
  BY <1>0, <1>1, ReadingIsOldest, Constants
<1>4. Fits(r, a.call) /\ a.call \in Call /\ Tail(response[w]) \in Seq(Answer)
  <2>1. Fits(r, a.call) /\ a \in Answer /\ Tail(response[w]) \in Seq(Answer)
    BY <1>0, <1>1, FirstAnswerFits
  <2> QED
    BY <2>1 DEF Answer
<1>5. /\ Open(r) /\ Sorted(reading.ranks)
      /\ \A v \in Elems(reading.ranks) : Answers(v, r)
      /\ Len(reading.got) + Len(reading.ranks) = Len(response_mqs(r))
      /\ \A c \in Elems(reading.got) : Fits(r, c)
      /\ reading.got \in Seq(Call)
      /\ reading \in [call : Call \cup {0}, ranks : Seq(Rank), got : Seq(Call)]
  BY <1>0, <1>1 DEF IInv, Reading, TypeOK
<1>6. /\ response \in [Rank -> Seq(Answer)] /\ response' \in [Rank -> Seq(Answer)]
      /\ response'[w] = Tail(response[w])
      /\ \A v \in Rank : v # w => response'[v] = response[v]
  <2>1. response \in [Rank -> Seq(Answer)]
    BY DEF IInv, TypeOK
  <2> QED
    BY <1>1, <1>3, <1>4, <2>1
<1>7. /\ result \in [Call -> [status : {"pending", "raised", "returned"}, got : Seq(Call)]]
      /\ MadeCalls' = MadeCalls /\ MadeCalls \subseteq Call
  BY <1>1, Constants DEF IInv, TypeOK, MadeCalls, Call
<1>8. /\ got \in Seq(Call) /\ Elems(got) = Elems(reading.got) \cup {a.call}
      /\ Len(got) = Len(reading.got) + 1 /\ Len(reading.got) \in Nat
      /\ Len(reading.ranks) \in Nat \ {0}
  <2>1. got \in Seq(Call) /\ Elems(got) = Elems(reading.got) \cup {a.call}
    BY <1>4, <1>5, <1>g, AppendFacts
  <2>2. Len(got) = Len(reading.got) + 1 /\ Len(reading.got) \in Nat
    BY <1>4, <1>5, <1>g
  <2>3. Len(reading.ranks) \in Nat \ {0}
    BY <1>3
  <2> QED
    BY <2>1, <2>2, <2>3
<1>9. /\ \A c \in Elems(got) : Fits(r, c)
      /\ \A i \in DOMAIN got : got[i] \in Call /\ Fits(r, got[i])
  <2>1. \A c \in Elems(got) : Fits(r, c)
    BY <1>4, <1>5, <1>8
  <2>2. DOMAIN got = 1 .. Len(got)
    BY <1>8
  <2>3. \A i \in DOMAIN got : got[i] \in Elems(got) /\ got[i] \in Call
    BY <1>8, <2>2 DEF Elems
  <2> QED
    BY <2>1, <2>3
\* What is left to show of the queues once it is known who owes what.
<1>10. ASSUME \A d : Owes(w, d)' <=> Owes(w, d) /\ d # r,
              \A c \in Call : LeftOver(c) => LeftOver(c)',
              \A v \in Rank : v # w =>
                 /\ \A d : Owes(v, d)' => Owes(v, d)
                 /\ \A d \in MadeCalls : Expected(v, d) => Expected(v, d)'
       PROVE  Queues'
  <2>1. \A v, d : Answers(v, d)' <=> Answers(v, d)
    BY <1>1 DEF Answers
  <2>2. ASSUME NEW v \in Rank PROVE ResponsesOf(v)' /\ (v \in alive => OutputsOf(v)' /\ CallsOf(v)')
    <3>1. CASE v = w
      BY <1>0, <1>1, <1>6, <1>10, <3>1, SettledHere
    <3>2. CASE v # w
      BY <1>1, <1>6, <1>7, <1>10, <2>1, <3>2, QueuesKept
    <3> QED
      BY <3>1, <3>2
  <2> QED
    BY <1>1, <2>2 DEF Queues, IInv, TypeOK
\* The last answer, or a failure: the call is done.  When a rank is left, it failed and
\* was given up.
<1>11. ASSUME NEW x \in [status : {"raised", "returned"}, got : Seq(Call)], x.got = got,
              result' = [result EXCEPT ![r] = x], reading' = NoCall,
              Len(reading.ranks) > 1 => x.status = "raised"
       PROVE  IInv'
  <2>1. /\ result'[r] = x /\ x # Pending
        /\ \A c \in Call : c # r => result'[c] = result[c]
        /\ result' \in [Call -> [status : {"pending", "raised", "returned"}, got : Seq(Call)]]
    BY <1>3, <1>7, <1>11 DEF Pending
  <2>2. /\ \A v \in Rank : \A d : Owes(v, d)' <=> Owes(v, d) /\ d # r
        /\ \A c : Open(c)' <=> Open(c) /\ c # r
        /\ \A c \in Call : LeftOver(c) => LeftOver(c)'
        /\ \A c, b \in Call : Fits(c, b) => Fits(c, b)'
    BY <1>0, <1>1, <1>11, <2>1, DoneOwes
  <2>3. Futures' /\ Waiting' /\ Reading'
    BY <1>0, <1>1, <1>11, <2>1, <2>2, DoneEngine
  <2>4. ASSUME NEW v \in Rank, v # w, Owes(v, r) PROVE GaveUp(r)'
    <3>1. v \in Elems(reading.ranks)
      BY <1>0, <2>4 DEF Owes
    <3>2. Len(reading.ranks) > 1
      <4>1. ASSUME Len(reading.ranks) = 1 PROVE FALSE
        <5>1. reading.ranks = <<w>>
          BY <1>0, <1>3, <4>1
        <5>2. Elems(reading.ranks) = {w}
          BY <5>1 DEF Elems
        <5> QED
          BY <2>4, <3>1, <5>2
      <4>2. PICK n : n = Len(reading.ranks)
        OBVIOUS
      <4>3. n \in Nat \ {0} /\ n # 1
        BY <1>8, <4>1, <4>2
      <4>4. n > 1
        BY ONLY <4>3
      <4> QED
        BY <4>2, <4>4
    <3>3. Len(got) < Len(response_mqs(r))
      BY <1>5, <1>8, <3>2
    <3>4. response_mqs(r)' = response_mqs(r)
      BY <1>1 DEF response_mqs
    <3> QED
      BY <1>11, <2>1, <3>2, <3>3, <3>4 DEF GaveUp
  <2>5. \A v \in Rank : v # w => \A d \in MadeCalls : Expected(v, d) => Expected(v, d)'
    BY <1>3, <1>7, <2>2, <2>4, DoneExpected
  <2>6. Queues'
    BY <1>3, <1>10, <2>2, <2>5
  <2>7. AnswersMatchCalls'
    <3>1. (\A i \in DOMAIN result[r].got : Fits(r, result[r].got[i]))'
      <4>1. result'[r].got = got
        BY <1>11, <2>1
      <4>2. \A i \in DOMAIN got : Fits(r, got[i])'
        <5>1. \A b \in Call : Fits(r, b) => Fits(r, b)'
          BY <1>3, <2>2
        <5> QED
          BY <1>9, <5>1
      <4> QED
        BY <4>1, <4>2
    <3>2. \A c \in MadeCalls :
             kind'[c] = kind[c] /\ (result[c] # Pending => result'[c] = result[c])
      <4>1. result[r] = Pending
        BY <1>5 DEF Open
      <4> QED
        BY <1>1, <1>7, <2>1, <4>1
    <3> QED
      BY <2>1, <3>1, <3>2, AnswersStay
  <2>8. TypeOK'
    <3>1. reading' \in [call : Call \cup {0}, ranks : Seq(Rank), got : Seq(Call)]
      BY <1>11 DEF NoCall
    <3> QED
      BY <1>1, <1>6, <2>1, <3>1 DEF IInv, TypeOK
  <2> QED
    BY <2>3, <2>6, <2>7, <2>8 DEF IInv
<1>12. CASE result' = [result EXCEPT ![r] = Raised(got)] /\ reading' = NoCall
  <2>1. PICK x : x = Raised(got)
    OBVIOUS
  <2>2. /\ x \in [status : {"raised", "returned"}, got : Seq(Call)]
        /\ x.got = got /\ x.status = "raised"
    BY <1>8, <2>1 DEF Raised
  <2>3. result' = [result EXCEPT ![r] = x] /\ reading' = NoCall
    BY <1>12, <2>1
  <2> QED
    BY <1>11, <2>2, <2>3
<1>13. CASE /\ Len(reading.ranks) = 1 /\ reading' = NoCall
            /\ result' = [result EXCEPT ![r] = [status |-> "returned", got |-> got]]
  <2>1. PICK x : x = [status |-> "returned", got |-> got]
    OBVIOUS
  <2>2. /\ x \in [status : {"raised", "returned"}, got : Seq(Call)]
        /\ x.got = got
    BY <1>8, <2>1
  <2>3. result' = [result EXCEPT ![r] = x] /\ reading' = NoCall
    BY <1>13, <2>1
  <2>4. ~(Len(reading.ranks) > 1)
    BY <1>13
  <2> QED
    BY <1>11, <2>2, <2>3, <2>4
\* Another rank is left: w has answered.
<1>14. CASE /\ Len(reading.ranks) > 1 /\ result' = result
            /\ reading' = [reading EXCEPT !.ranks = Tail(@), !.got = got]
  <2>1. /\ reading'.call = r /\ reading'.ranks = Tail(reading.ranks) /\ reading'.got = got
    BY <1>0, <1>5, <1>14
  <2>2. /\ reading'.ranks \in Seq(Rank) /\ reading'.ranks # <<>>
        /\ Elems(reading.ranks) = Elems(reading'.ranks) \cup {w}
        /\ Len(reading'.ranks) = Len(reading.ranks) - 1
    <3>1. /\ Tail(reading.ranks) \in Seq(Rank)
          /\ Elems(reading.ranks) = Elems(Tail(reading.ranks)) \cup {w}
      BY <1>0, <1>3, TailFacts
    <3>2. Tail(reading.ranks) # <<>> /\ Len(Tail(reading.ranks)) = Len(reading.ranks) - 1
      BY <1>3, <1>14
    <3> QED
      BY <2>1, <3>1, <3>2
  <2>3. Sorted(reading'.ranks) /\ w \notin Elems(reading'.ranks)
    <3>1. reading.ranks \in Seq(Int) /\ w \in Int
      BY <1>3, IntSeqs, Constants
    <3>2. Sorted(Tail(reading.ranks)) /\ \A y \in Elems(Tail(reading.ranks)) : w < y
      BY <1>0, <1>3, <1>5, <3>1, SortedTail
    <3> QED
      BY <2>1, <3>1, <3>2
  <2>4. /\ \A c : Open(c)' <=> Open(c)
        /\ \A v, d : Answers(v, d)' <=> Answers(v, d)
    BY <1>1, <1>7, <1>14 DEF Open, Answers
  <2>5. ASSUME NEW v \in Rank, NEW d PROVE Owes(v, d)' <=> Owes(v, d) /\ ~(v = w /\ d = r)
    <3>1. Owes(v, d)' <=> Open(d)' /\ Answers(v, d)' /\ (d = r => v \in Elems(reading'.ranks))
      BY <2>1 DEF Owes
    <3>2. Owes(v, d) <=> Open(d) /\ Answers(v, d) /\ (d = r => v \in Elems(reading.ranks))
      BY <1>0 DEF Owes
    <3> QED
      BY <2>2, <2>3, <2>4, <3>1, <3>2
  <2>6. /\ \A c \in Call : LeftOver(c) => LeftOver(c)'
        /\ \A c, b \in Call : Fits(c, b) => Fits(c, b)'
    BY <1>1, <1>14, GivenUpStays
  <2>7. Queues'
    <3>1. \A d : Owes(w, d)' <=> Owes(w, d) /\ d # r
      BY <1>3, <2>5
    <3>2. \A v \in Rank : v # w =>
             /\ \A d : Owes(v, d)' => Owes(v, d)
             /\ \A d \in MadeCalls : Expected(v, d) => Expected(v, d)'
      BY <1>7, <2>5, <2>6 DEF Expected
    <3> QED
      BY <1>10, <2>6, <3>1, <3>2
  <2>8. reading' # NoCall
    BY <2>1, <1>3, Constants DEF NoCall
  <2>9. Reading'
    <3>1. \A c \in Elems(got) : Fits(r, c)'
      <4>1. Elems(got) \subseteq Call
        BY <1>8, ElemsType
      <4> QED
        BY <1>3, <1>9, <2>6, <4>1
    <3>2. \A v \in Elems(reading'.ranks) : Answers(v, r)'
      BY <1>5, <2>2, <2>4
    <3>3. Len(got) + Len(reading'.ranks) = Len(response_mqs(r)')
      <4>1. response_mqs(r)' = response_mqs(r)
        BY <1>1 DEF response_mqs
      <4>2. Len(got) + Len(reading'.ranks) = Len(reading.got) + Len(reading.ranks)
        <5>1. PICK n, g : n = Len(reading.ranks) /\ g = Len(reading.got)
          OBVIOUS
        <5>2. n \in Nat /\ g \in Nat /\ Len(got) = g + 1 /\ Len(reading'.ranks) = n - 1
          BY <1>8, <2>2, <5>1
        <5>3. (g + 1) + (n - 1) = g + n
          BY ONLY <5>2
        <5> QED
          BY <5>1, <5>2, <5>3
      <4> QED
        BY <1>5, <4>1, <4>2
    <3> QED
      BY <1>1, <1>3, <1>5, <2>1, <2>2, <2>3, <2>4, <3>1, <3>2, <3>3 DEF Reading
  <2>10. Futures' /\ Waiting'
    <3>1. Elems(futures)' = Elems(futures) /\ Elems(batch_queue)' = Elems(batch_queue)
          /\ (Sorted(futures)' <=> Sorted(futures))
      BY <1>1
    <3>2. Futures'
      BY <1>0, <1>1, <1>7, <2>1, <2>4, <3>1 DEF IInv, Futures
    <3>3. Waiting'
      BY <1>0, <1>1, <1>7, <1>14, <2>1, <2>4, <3>1 DEF IInv, Waiting
    <3> QED
      BY <3>2, <3>3
  <2>11. TypeOK'
    <3>1. reading' \in [call : Call \cup {0}, ranks : Seq(Rank), got : Seq(Call)]
      BY <1>5, <1>8, <1>14, <2>1, <2>2
    <3> QED
      BY <1>1, <1>6, <1>14, <3>1 DEF IInv, TypeOK
  <2>12. AnswersMatchCalls'
    BY <1>1, <1>14, AnswersStay
  <2> QED
    BY <2>7, <2>9, <2>10, <2>11, <2>12 DEF IInv
<1> QED
  BY <1>2, <1>12, <1>13, <1>14

\* Timeout: the call is given up, and what its ranks will still answer is left over.
LEMMA TimeoutStep ==
    ASSUME IInv, Timeout
    PROVE  IInv'
<1>0. PICK r, x : r = reading.call /\ x = Raised(reading.got)
  OBVIOUS
<1>1. /\ reading # NoCall
      /\ result' = [result EXCEPT ![r] = x] /\ reading' = NoCall
      /\ UNCHANGED <<kind, futures, batch_queue, pc, goal, rpc, async_output, response, alive,
                     is_failed, notified>>
  BY <1>0 DEF Timeout, monitorVars
<1>2. /\ r \in MadeCalls /\ r \in Call /\ reading.ranks \in Seq(Rank) /\ reading.ranks # <<>>
  BY <1>0, <1>1, ReadingIsOldest
<1>3. /\ Open(r) /\ reading.got \in Seq(Call)
      /\ Len(reading.got) + Len(reading.ranks) = Len(response_mqs(r))
      /\ \A c \in Elems(reading.got) : Fits(r, c)
  BY <1>0, <1>1 DEF IInv, Reading, TypeOK
<1>4. /\ x.status = "raised" /\ x.got = reading.got /\ x # Pending
      /\ x \in [status : {"pending", "raised", "returned"}, got : Seq(Call)]
  BY <1>0, <1>3 DEF Raised, Pending
<1>5. /\ result'[r] = x
      /\ \A c \in Call : c # r => result'[c] = result[c]
      /\ result' \in [Call -> [status : {"pending", "raised", "returned"}, got : Seq(Call)]]
  <2>1. result \in [Call -> [status : {"pending", "raised", "returned"}, got : Seq(Call)]]
    BY DEF IInv, TypeOK
  <2> QED
    BY <1>1, <1>2, <1>4, <2>1
<1>6. MadeCalls' = MadeCalls /\ MadeCalls \subseteq Call
  BY <1>1, Constants DEF IInv, TypeOK, MadeCalls, Call
<1>7. /\ \A v \in Rank : \A d : Owes(v, d)' <=> Owes(v, d) /\ d # r
      /\ \A c : Open(c)' <=> Open(c) /\ c # r
      /\ \A c \in Call : LeftOver(c) => LeftOver(c)'
      /\ \A c, b \in Call : Fits(c, b) => Fits(c, b)'
  <2>1. result'[r] # Pending
    BY <1>4, <1>5
  <2> QED
    BY <1>0, <1>1, <1>5, <2>1, DoneOwes
<1>8. Futures' /\ Waiting' /\ Reading'
  <2>1. result'[r] # Pending
    BY <1>4, <1>5
  <2> QED
    BY <1>0, <1>1, <1>5, <1>7, <2>1, DoneEngine
<1>9. GaveUp(r)'
  <2>1. Len(reading.ranks) > 0 /\ Len(reading.ranks) \in Nat /\ Len(reading.got) \in Nat
    BY <1>2, <1>3
  <2>2. Len(reading.got) < Len(response_mqs(r))
    <3>1. PICK n, g : n = Len(reading.ranks) /\ g = Len(reading.got)
      OBVIOUS
    <3>2. n \in Nat /\ g \in Nat /\ n > 0 /\ g + n = Len(response_mqs(r))
      BY <1>3, <2>1, <3>1
    <3>3. g < g + n
      BY ONLY <3>2
    <3> QED
      BY <3>1, <3>2, <3>3
  <2>3. response_mqs(r)' = response_mqs(r)
    BY <1>1 DEF response_mqs
  <2>4. result'[r].status = "raised" /\ result'[r].got = reading.got
    BY <1>4, <1>5
  <2> QED
    BY <2>2, <2>3, <2>4 DEF GaveUp
<1>10. Queues'
  <2>1. \A v \in Rank : \A d \in MadeCalls : Expected(v, d) => Expected(v, d)'
    BY <1>2, <1>6, <1>7, <1>9, DoneExpected
  <2>2. \A v, d : Answers(v, d)' <=> Answers(v, d)
    BY <1>1 DEF Answers
  <2>3. ASSUME NEW v \in Rank PROVE ResponsesOf(v)' /\ (v \in alive => OutputsOf(v)' /\ CallsOf(v)')
    BY <1>1, <1>6, <1>7, <2>1, <2>2, QueuesKept
  <2> QED
    BY <1>1, <2>3 DEF Queues, IInv, TypeOK
<1>11. AnswersMatchCalls'
  <2>1. (\A i \in DOMAIN result[r].got : Fits(r, result[r].got[i]))'
    <3>1. PICK g : g = reading.got
      OBVIOUS
    <3>2. result'[r].got = g /\ g \in Seq(Call) /\ DOMAIN g = 1 .. Len(g)
      BY <1>3, <1>4, <1>5, <3>1
    <3>3. \A i \in DOMAIN g : g[i] \in Elems(g) /\ g[i] \in Call
      BY <3>2 DEF Elems
    <3>4. \A i \in DOMAIN g : Fits(r, g[i])
      BY <1>3, <3>1, <3>3
    <3>5. \A i \in DOMAIN g : Fits(r, g[i])'
      BY <1>2, <1>7, <3>3, <3>4
    <3> QED
      BY <3>2, <3>5
  <2>2. \A c \in MadeCalls :
           kind'[c] = kind[c] /\ (result[c] # Pending => result'[c] = result[c])
    <3>1. result[r] = Pending
      BY <1>3 DEF Open
    <3> QED
      BY <1>1, <1>5, <1>6, <3>1
  <2> QED
    BY <1>5, <2>1, <2>2, AnswersStay
<1>12. TypeOK'
  <2>1. reading' \in [call : Call \cup {0}, ranks : Seq(Rank), got : Seq(Call)]
    BY <1>1 DEF NoCall
  <2> QED
    BY <1>1, <1>5, <2>1 DEF IInv, TypeOK
<1> QED
  BY <1>8, <1>10, <1>11, <1>12 DEF IInv

-----------------------------------------------------------------------------
\* The invariant is inductive.
LEMMA InductiveStep == IInv /\ [Next]_vars => IInv'
<1> SUFFICES ASSUME IInv, [Next]_vars PROVE IInv'
  OBVIOUS
<1>1. CASE \E k \in Kinds : Refuse(k)
  BY <1>1, RefuseStep
<1>2. CASE CallModel
  BY <1>2, CallModelStep
<1>3. CASE CallUtility
  BY <1>3, CallUtilityStep
<1>4. CASE AwaitBatch
  BY <1>4, AwaitBatchStep
<1>5. CASE StartReading
  BY <1>5, StartReadingStep
<1>6. CASE Receive
  BY <1>6, ReceiveStep
<1>7. CASE Finish
  BY <1>7, FinishStep
<1>8. CASE HandleExecutorFailed
  BY <1>8, HandleExecutorFailedStep
<1>9. CASE Timeout
  BY <1>9, TimeoutStep
<1>10. ASSUME NEW w \in Rank, Execute(w) PROVE IInv'
  BY <1>10, ExecuteStep
<1>11. ASSUME NEW w \in Rank, EnqueueOutput(w) PROVE IInv'
  BY <1>11, EnqueueOutputStep
<1>12. CASE (\E w \in Rank : Crash(w)) \/ MonitorDetects \/ MonitorShutdown
  BY <1>12, FailureStep
<1>13. CASE UNCHANGED vars
  <2>1. UNCHANGED <<kind, futures, batch_queue, result, pc, goal, reading, rpc, async_output,
                    response, alive, is_failed, notified>>
    BY <1>13 DEF vars, engineVars, monitorVars
  <2>2. Futures' /\ Waiting' /\ Reading' /\ AnswersMatchCalls'
    BY <2>1, EngineFrame
  <2>3. Queues'
    BY <2>1, QueuesFrame
  <2>4. TypeOK'
    BY <2>1 DEF IInv, TypeOK
  <2> QED
    BY <2>2, <2>3, <2>4 DEF IInv
<1> QED
  BY <1>1, <1>2, <1>3, <1>4, <1>5, <1>6, <1>7, <1>8, <1>9, <1>10, <1>11, <1>12, <1>13
     DEF Next, Engine, Worker

\* Every answer a call reads is its own, and otherwise an older one that may be left over
\* from a call given up, for any number of workers and calls, with and without an output
\* thread, whichever calls fail at which ranks, whenever deadlines pass and whichever
\* workers die: collective_rpc() reads the queues in the order of the calls.
THEOREM AnswersMatch == Spec => []AnswersMatchCalls
<1>1. Init => IInv
  BY InitIInv
<1>2. IInv /\ [Next]_vars => IInv'
  BY InductiveStep
<1>3. IInv => AnswersMatchCalls
  BY DEF IInv
<1> QED
  BY <1>1, <1>2, <1>3, PTL DEF Spec
==============================================================================
