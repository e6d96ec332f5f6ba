------------------------- MODULE ShmRingBuffer_proofs -------------------------
(* Proofs about ShmRingBuffer: the ring of flags without a lock never lets the *)
(* writer into a chunk that is being read, and implements a broadcast queue.   *)
EXTENDS ShmRingBuffer, TLAPS

\* A natural number is its quotient and its remainder.
LEMMA DivMod ==
  ASSUME NEW K \in Nat \ {0}, NEW n \in Nat
  PROVE  \E q \in Nat : n = K * q + (n % K) /\ n % K \in 0 .. (K-1)
<1>1. n \div K \in Nat /\ n % K \in 0 .. (K-1) /\ n = K * (n \div K) + (n % K)
  OBVIOUS
<1> QED BY <1>1

\* The remainder is the only r < K of which n is a multiple of K away.
LEMMA ModUnique ==
  ASSUME NEW K \in Nat \ {0}, NEW q \in Nat, NEW r \in 0 .. (K-1), NEW n \in Nat, n = K*q + r
  PROVE  n % K = r
  OBVIOUS

\* A number below K is its own remainder.
LEMMA ModSmall ==
  ASSUME NEW K \in Nat \ {0}, NEW a \in Nat, a < K
  PROVE  a % K = a
  OBVIOUS

\* One more, and one turn more.
LEMMA NextQuotient ==
  ASSUME NEW K \in Nat \ {0}, NEW q \in Nat, NEW r \in Nat, NEW n \in Nat, n = K*q + r
  PROVE  /\ n + 1 = K * q + (r + 1)
         /\ n + K = K * (q + 1) + r
<1>1. K * (q + 1) = K * q + K
  OBVIOUS
<1> QED BY <1>1

\* One turn of the ring leads back to the same chunk.
LEMMA ModPlus ==
  ASSUME NEW K \in Nat \ {0}, NEW n \in Nat
  PROVE  (n + K) % K = n % K
<1>1. PICK q \in Nat : n = K * q + (n % K) /\ n % K \in 0 .. (K-1)
  BY DivMod
<1> DEFINE r == n % K
           m == n + K
           p == q + 1
<1>2. r \in 0 .. (K - 1) /\ n = K * q + r
  BY <1>1
<1>3. m \in Nat /\ p \in Nat
  OBVIOUS
<1>4. m = K * p + r
  <2> HIDE DEF r
  <2> QED BY <1>2, NextQuotient
<1>5. m % K = r
  <2> HIDE DEF r, m, p
  <2> QED BY <1>2, <1>3, <1>4, ModUnique
<1> QED BY <1>5

\* (current_idx + 1) % max_chunks is the index of the next number.
LEMMA ModNext ==
  ASSUME NEW K \in Nat \ {0}, NEW n \in Nat
  PROVE  ((n % K) + 1) % K = (n + 1) % K
<1>1. PICK q \in Nat : n = K * q + (n % K) /\ n % K \in 0 .. (K-1)
  BY DivMod
<1> DEFINE r == n % K
           m == n + 1
           p == q + 1
           s == r + 1
<1>2. r \in 0 .. (K - 1) /\ n = K * q + r
  BY <1>1
<1>3. m \in Nat /\ p \in Nat /\ s \in 1 .. K
  BY <1>2
<1>4. m = K * q + s
  <2> HIDE DEF r
  <2> QED BY <1>2, NextQuotient
<1> SUFFICES s % K = m % K
  OBVIOUS
<1>5. CASE s < K
  <2> HIDE DEF r, m, p, s
  <2> QED BY <1>3, <1>4, <1>5, ModUnique, ModSmall
<1>6. CASE s = K
  <2>1. K * p = K * q + K
    OBVIOUS
  <2>2. m = K * p + 0
    <3> HIDE DEF r, m, p, s
    <3> QED BY <1>3, <1>4, <1>6, <2>1
  <2>3. m % K = 0
    <3> HIDE DEF r, m, p, s
    <3> QED BY <2>2, <1>3, ModUnique
  <2>4. K % K = 0
    OBVIOUS
  <2> HIDE DEF r, m, p, s
  <2> QED BY <1>6, <2>3, <2>4
<1> HIDE DEF r, m, p, s
<1> QED BY <1>3, <1>5, <1>6

\* Two numbers less than one turn apart have the same index only when they are equal.
LEMMA ModEq ==
  ASSUME NEW K \in Nat \ {0}, NEW a \in Nat, NEW b \in Nat, a <= b, b < a + K, a % K = b % K
  PROVE  a = b
<1>1. PICK p \in Nat : a = K * p + (a % K) /\ a % K \in 0 .. (K-1)
  BY DivMod
<1>2. PICK q \in Nat : b = K * q + (b % K) /\ b % K \in 0 .. (K-1)
  BY DivMod
<1> DEFINE r == a % K
<1>3. r \in 0 .. (K - 1) /\ a = K * p + r /\ b = K * q + r
  BY <1>1, <1>2
<1> HIDE DEF r
<1>4. q < p + 1
  <2>1. SUFFICES ASSUME NEW d \in Nat, q = p + 1 + d PROVE FALSE
    <3>1. ~(q < p + 1) => q - p - 1 \in Nat /\ q = p + 1 + (q - p - 1)
      OBVIOUS
    <3> QED BY <3>1
  <2>2. K * q = K * p + K + K * d
    BY <2>1
  <2>3. K * d \in Nat
    OBVIOUS
  <2> QED BY <1>3, <2>2, <2>3
<1>5. p < q + 1
  <2>1. SUFFICES ASSUME NEW d \in Nat, p = q + 1 + d PROVE FALSE
    <3>1. ~(p < q + 1) => p - q - 1 \in Nat /\ p = q + 1 + (p - q - 1)
      OBVIOUS
    <3> QED BY <3>1
  <2>2. K * p = K * q + K + K * d
    BY <2>1
  <2>3. K * d \in Nat
    OBVIOUS
  <2> QED BY <1>3, <2>2, <2>3
<1>6. p = q
  BY <1>4, <1>5
<1> QED BY <1>3, <1>6

\* The chunk that index n of the sequence of objects is mapped to: object m goes to
\* chunk Slot(m).
Idx(n) == n % MaxChunks
Slot(m) == Idx(m - 1)
\* What the chunk of object m holds.
Enc(m) == IF m \in large THEN Overflow ELSE m
\* The number of chunks reader r has marked as read: one more than it has delivered
\* while it waits for a large object.
Taken(r) == IF r_pc[r] = "recv" THEN Len(delivered[r]) + 1 ELSE Len(delivered[r])
\* The writer is between acquire_write() and the end of its block.
Writing == w_pc \in {"fill", "reset", "publish"}
\* Object m has not been overwritten, and is not being overwritten.
InRing(m) == sent < m + MaxChunks /\ (Writing => sent + 1 < m + MaxChunks)
\* The objects up to this one are on the sockets if they are large.
OnSocket == IF w_pc = "send" THEN sent - 1 ELSE sent

\* current_idx of the writer and of the readers count the chunks written and read.
Indices ==
    /\ w_idx = Idx(sent)
    /\ \A r \in Reader : r_idx[r] = Idx(Taken(r))

\* No reader is ahead of the writer or more than one turn behind; while the writer
\* writes, less than one.
Distance ==
    \A r \in Reader :
        /\ Taken(r) <= sent
        /\ sent <= Taken(r) + MaxChunks
        /\ Writing => sent < Taken(r) + MaxChunks

\* The objects are delivered in order; a reader waits only for a large one.
DeliveredInOrder ==
    \A r \in Reader :
        /\ \A i \in 1 .. Len(delivered[r]) : delivered[r][i] = i
        /\ r_pc[r] = "recv" => Taken(r) \in large

\* Every object in the ring is whole and its read flags tell who has read it; chunks
\* of the first turn are unwritten until they are used.
RingExact ==
    /\ \A m \in 1 .. sent : InRing(m) =>
          /\ written_flag[Slot(m)]
          /\ data[Slot(m)] = Enc(m)
          /\ \A r \in Reader : read_flag[Slot(m)][r] <=> m <= Taken(r)
    /\ \A c \in Chunk : sent <= c => ~written_flag[c]

\* What the writer has done to its chunk so far.
WriterPhase ==
    /\ Writing => sent < MaxMessages /\ ~written_flag[w_idx]
    /\ w_pc = "poll" => sent < MaxMessages
    /\ w_pc \in {"reset", "publish"} => data[w_idx] = Enc(sent + 1)
    /\ w_pc \in {"reset", "publish"} =>
          \A r \in Reader : r < rank => ~read_flag[w_idx][r]
    /\ w_pc = "publish" => rank = NReader
    /\ w_pc = "reset" => rank < NReader
    /\ w_pc \notin {"reset", "publish"} => rank = 0
    /\ w_pc = "send" => sent \in large

\* What a reader knows: it copies only from a chunk that was published.
ReaderPhase ==
    \A r \in Reader :
        /\ r_pc[r] = "check_written" /\ ~seen_flag[r] /\ Taken(r) = sent
              => ~written_flag[w_idx]
        /\ r_pc[r] \in {"copy", "mark"} => Taken(r) < sent
        /\ r_pc[r] = "mark" => obj[r] = Enc(Taken(r) + 1)

\* Socket s holds, in order, the objects of L after the n-th and up to the last.
Pending(L, s, n, last) ==
    /\ n <= last
    /\ \A i, j \in 1 .. Len(s) : i < j => s[i] < s[j]
    /\ \A i \in 1 .. Len(s) : s[i] \in L /\ n < s[i] /\ s[i] <= last
    /\ \A m \in L : n < m /\ m <= last => \E i \in 1 .. Len(s) : s[i] = m

\* The sockets hold the large objects that are not yet delivered.
SocketExact ==
    \A r \in Reader : Pending(large, socket[r], Len(delivered[r]), OnSocket)

\* The inductive invariant.
IInv ==
    /\ TypeOK /\ Indices /\ Distance /\ DeliveredInOrder
    /\ RingExact /\ WriterPhase /\ ReaderPhase /\ SocketExact

\* The constants and the sets made of them.
LEMMA Sizes == NReader \in Nat \ {0} /\ MaxChunks \in Nat \ {0} /\ MaxMessages \in Nat \ {0}
               /\ Reader = 0 .. (NReader - 1) /\ Chunk = 0 .. (MaxChunks - 1)
               /\ Message = 1 .. MaxMessages /\ Torn = -1 /\ Overflow = 0
BY RingAssumption DEF Reader, Chunk, Message, Torn, Overflow

\* The ring: an index is a chunk, the next index is that of the next number, a turn
\* leads back, numbers less than a turn apart have different chunks, and the first
\* turn uses the chunks in order.
LEMMA IdxFacts ==
    /\ \A n \in Nat : Idx(n) \in Chunk /\ NextIdx(Idx(n)) = Idx(n + 1) /\ Idx(n + MaxChunks) = Idx(n)
    /\ \A a, b \in Nat : a < b /\ b < a + MaxChunks => Idx(a) # Idx(b)
    /\ \A a \in Nat : a < MaxChunks => Idx(a) = a
<1> MaxChunks \in Nat \ {0}
  BY Sizes
<1>1. ASSUME NEW n \in Nat PROVE Idx(n) \in Chunk
  BY DivMod DEF Idx, Chunk
<1>2. ASSUME NEW n \in Nat PROVE NextIdx(Idx(n)) = Idx(n + 1)
  BY ModNext DEF Idx, NextIdx
<1>3. ASSUME NEW n \in Nat PROVE Idx(n + MaxChunks) = Idx(n)
  BY ModPlus DEF Idx
<1>4. ASSUME NEW a \in Nat, NEW b \in Nat, a < b, b < a + MaxChunks PROVE Idx(a) # Idx(b)
  <2> SUFFICES ASSUME a % MaxChunks = b % MaxChunks PROVE FALSE
    BY DEF Idx
  <2>1. a <= b /\ a # b
    BY <1>4
  <2> QED
    BY <1>4, <2>1, ModEq, Zenon
<1>5. ASSUME NEW a \in Nat, a < MaxChunks PROVE Idx(a) = a
  BY <1>5, ModSmall DEF Idx
<1> QED
  BY <1>1, <1>2, <1>3, <1>4, <1>5

\* At the start every chunk is unwritten and nobody is in it.
LEMMA InitIInv == Init => IInv
<1> SUFFICES ASSUME Init PROVE IInv
  OBVIOUS
<1> USE Sizes DEF Init
<1>1. TypeOK
  BY RingAssumption DEF TypeOK
<1>2. \A r \in Reader : Taken(r) = 0
  BY DEF Taken
<1>3. ~Writing
  BY DEF Writing
<1>4. Idx(0) = 0
  BY IdxFacts
<1>5. Indices /\ Distance
  BY <1>2, <1>3, <1>4 DEF Indices, Distance
<1>6. DeliveredInOrder
  BY DEF DeliveredInOrder
<1>7. RingExact
  BY DEF RingExact
<1>8. WriterPhase /\ ReaderPhase
  BY <1>3 DEF WriterPhase, ReaderPhase
<1>9. SocketExact
  <2>1. Pending(large, <<>>, 0, 0)
    BY RingAssumption DEF Pending
  <2> QED
    BY <2>1 DEF SocketExact, OnSocket
<1> QED
  BY <1>1, <1>5, <1>6, <1>7, <1>8, <1>9 DEF IInv

\* The counters are natural numbers.
LEMMA TakenType ==
    ASSUME TypeOK
    PROVE  /\ \A r \in Reader : Taken(r) \in Nat
           /\ Writing \in BOOLEAN
           /\ sent \in Nat
BY Sizes DEF TypeOK, Taken, Writing

\* The chunk of a reader that is behind the writer holds the object after the last one
\* the reader took, and a writer that is writing is in another chunk.
LEMMA NextToRead ==
    ASSUME IInv, NEW r \in Reader, Taken(r) < sent
    PROVE  LET m == Taken(r) + 1
           IN  /\ m \in 1 .. sent /\ InRing(m) /\ Slot(m) = r_idx[r]
               /\ written_flag[r_idx[r]]
               /\ data[r_idx[r]] = Enc(m)
               /\ Writing => r_idx[r] # w_idx
<1> DEFINE m == Taken(r) + 1
<1>0. Taken(r) \in Nat /\ sent \in Nat /\ MaxChunks \in Nat \ {0}
  BY TakenType, Sizes DEF IInv
<1>1. m \in 1 .. sent /\ InRing(m)
  BY <1>0 DEF IInv, Distance, InRing
<1>2. Slot(m) = r_idx[r]
  <2>1. m - 1 = Taken(r)
    BY <1>0
  <2> QED
    BY <2>1 DEF IInv, Indices, Slot
<1>3. Writing => r_idx[r] # w_idx
  BY <1>0, IdxFacts DEF IInv, Indices, Distance
<1> QED
  BY <1>1, <1>2, <1>3 DEF IInv, RingExact

\* A step that leaves the ring, the sockets, the indices and what was delivered alone
\* keeps the parts of the invariant that are about them.
LEMMA Frame ==
    ASSUME IInv,
           UNCHANGED <<large, sent, w_idx, r_idx, delivered, socket, written_flag, read_flag,
                       data>>,
           \A r \in Reader : (r_pc'[r] = "recv") <=> (r_pc[r] = "recv"),
           Writing' <=> Writing, OnSocket' = OnSocket
    PROVE  /\ Indices' /\ Distance' /\ DeliveredInOrder' /\ RingExact' /\ SocketExact'
           /\ \A r \in Reader : Taken(r)' = Taken(r)
<1>1. \A r \in Reader : Taken(r)' = Taken(r)
  BY DEF Taken
<1>2. Indices' /\ Distance'
  BY <1>1 DEF IInv, Indices, Distance
<1>3. DeliveredInOrder'
  BY <1>1 DEF IInv, DeliveredInOrder
<1>4. \A m : InRing(m)' <=> InRing(m)
  BY DEF InRing
<1>5. RingExact'
  <2>1. \A m : Enc(m)' = Enc(m)
    BY DEF Enc
  <2> QED
    BY <1>1, <1>4, <2>1 DEF IInv, RingExact
<1>6. SocketExact'
  BY DEF IInv, SocketExact
<1> QED
  BY <1>1, <1>2, <1>3, <1>5, <1>6

\* enqueue() starts, gives up or notifies: the ring is not touched.
LEMMA IdleWriterStep ==
    ASSUME IInv, Enqueue \/ WriteTimeout \/ Notify
    PROVE  IInv'
<1>1. /\ UNCHANGED <<large, sent, w_idx, rank, r_idx, delivered, socket, written_flag, read_flag,
                   data, r_pc, obj, seen_flag>>
      /\ w_pc \in {"idle", "poll", "notify"} /\ w_pc' \in {"idle", "poll"}
      /\ w_pc' = "poll" => sent < MaxMessages
  BY DEF Enqueue, WriteTimeout, Notify, readerVars, shared
<1>2. TypeOK'
  BY DEF IInv, TypeOK, Enqueue, WriteTimeout, Notify, readerVars, shared, stopVars
<1>3. ~Writing /\ ~Writing' /\ OnSocket' = OnSocket
  BY <1>1 DEF Writing, OnSocket
<1>4. /\ Indices' /\ Distance' /\ DeliveredInOrder' /\ RingExact' /\ SocketExact'
      /\ \A r \in Reader : Taken(r)' = Taken(r)
  <2>1. \A r \in Reader : (r_pc'[r] = "recv") <=> (r_pc[r] = "recv")
    BY <1>1
  <2> QED
    BY <1>1, <1>3, <2>1, Frame
<1>5. WriterPhase'
  BY <1>1, <1>3 DEF IInv, WriterPhase
<1>6. ReaderPhase'
  BY <1>1, <1>4 DEF IInv, ReaderPhase, Enc
<1> QED
  BY <1>2, <1>4, <1>5, <1>6 DEF IInv

\* What a reader does before it marks its chunk.  CheckReadFlag: a reader that has taken
\* everything sees its read flag set, or the chunk is not written.  CheckWrittenFlag: so a
\* flag read as FALSE before the chunk was published leads to a copy only after it was.
\* Copy: the chunk holds the next object.
LEMMA QuietReaderStep ==
    ASSUME IInv, NEW r \in Reader,
           \/ Dequeue(r) \/ CheckReadFlag(r) \/ CheckWrittenFlag(r) \/ Spin(r) \/ WakeUp(r)
           \/ Copy(r) \/ Shutdown(r) \/ Cancel(r)
    PROVE  IInv'
<1>1. /\ UNCHANGED <<large, sent, w_pc, w_idx, rank, r_idx, delivered, socket, written_flag, read_flag,
                   data>>
      /\ \A q \in Reader : q # r =>
            r_pc'[q] = r_pc[q] /\ seen_flag'[q] = seen_flag[q] /\ obj'[q] = obj[q]
      /\ (r_pc[r] # "recv" /\ r_pc'[r] # "recv") \/ r_pc'[r] = r_pc[r]
  BY DEF Dequeue, CheckReadFlag, CheckWrittenFlag, Spin, WakeUp, Copy, Shutdown, Cancel, AfterWait,
         readerVars, writerVars, shared, IInv, TypeOK
<1>2. TypeOK'
  <2>1. CASE CheckReadFlag(r)
    <3>1. read_flag[r_idx[r]][r] \in BOOLEAN
      BY DEF IInv, TypeOK
    <3> QED
      BY <2>1, <3>1 DEF IInv, TypeOK, CheckReadFlag, writerVars, shared, stopVars
  <2>2. CASE Dequeue(r) \/ CheckWrittenFlag(r) \/ Spin(r) 
    BY <2>2 DEF IInv, TypeOK, Dequeue, CheckWrittenFlag, Spin, AfterWait, writerVars, shared, stopVars
  <2>3. CASE WakeUp(r) \/ Copy(r)
    BY <2>3 DEF IInv, TypeOK, WakeUp, Copy, AfterWait, writerVars, shared, stopVars
  <2>4. CASE Shutdown(r) \/ Cancel(r)
    BY <2>4 DEF IInv, TypeOK, Shutdown, Cancel, writerVars, readerVars, shared, stopVars
  <2> QED
    BY <2>1, <2>2, <2>3, <2>4
<1>3. (Writing' <=> Writing) /\ OnSocket' = OnSocket
  BY <1>1 DEF Writing, OnSocket
<1>4. /\ Indices' /\ Distance' /\ DeliveredInOrder' /\ RingExact' /\ SocketExact'
      /\ \A q \in Reader : Taken(q)' = Taken(q)
  <2>1. \A q \in Reader : (r_pc'[q] = "recv") <=> (r_pc[q] = "recv")
    BY <1>1
  <2> QED
    BY <1>1, <1>3, <2>1, Frame
<1>5. WriterPhase'
  BY <1>1, <1>3 DEF IInv, WriterPhase, Enc
<1>6. ReaderPhase'
  <2> DEFINE Phase(q) ==
        /\ r_pc[q] = "check_written" /\ ~seen_flag[q] /\ Taken(q) = sent
              => ~written_flag[w_idx]
        /\ r_pc[q] \in {"copy", "mark"} => Taken(q) < sent
        /\ r_pc[q] = "mark" => obj[q] = Enc(Taken(q) + 1)
  <2>1. \A q \in Reader : Phase(q)
    BY DEF IInv, ReaderPhase
  <2>e. \A m : Enc(m)' = Enc(m)
    BY <1>1 DEF Enc
  <2>2. \A q \in Reader : q # r => Phase(q)'
    BY <1>1, <1>4, <2>1, <2>e
  <2>3. Phase(r)'
    <3>1. CASE Dequeue(r) \/ Spin(r) \/ WakeUp(r)
      <4>1. r_pc'[r] \notin {"check_written", "copy", "mark"}
        BY <3>1 DEF Dequeue, Spin, WakeUp, AfterWait, IInv, TypeOK
      <4> QED
        BY <4>1
    <3>2. CASE Shutdown(r) \/ Cancel(r)
      <4>1. UNCHANGED <<r_pc, seen_flag, obj>>
        BY <3>2 DEF Shutdown, Cancel, readerVars
      <4> QED
        BY <4>1, <1>1, <1>4, <2>1, <2>e
    <3>3. CASE CheckReadFlag(r)
      <4>1. r_pc'[r] = "check_written" /\ seen_flag'[r] = read_flag[r_idx[r]][r]
        BY <3>3 DEF CheckReadFlag, IInv, TypeOK
      <4>2. SUFFICES ASSUME ~read_flag[r_idx[r]][r], Taken(r) = sent, written_flag[w_idx] PROVE FALSE
        BY <4>1, <1>1, <1>4
      <4>3. r_idx[r] = w_idx /\ w_idx = Idx(sent) /\ w_idx \in Chunk /\ sent \in Nat
        BY <4>2, TakenType DEF IInv, Indices, TypeOK
      <4>4. ~Writing
        BY <4>2 DEF IInv, WriterPhase
      <4>5. sent >= MaxChunks
        <5>1. SUFFICES ASSUME sent < MaxChunks PROVE FALSE
          BY <4>3, Sizes
        <5>2. w_idx = sent
          BY <4>3, <5>1, IdxFacts
        <5> QED
          BY <4>2, <4>3, <5>2 DEF IInv, RingExact
      <4> DEFINE m == sent + 1 - MaxChunks
      <4>6. m \in 1 .. sent /\ InRing(m)
        BY <4>3, <4>4, <4>5, Sizes DEF InRing
      <4>7. Slot(m) = w_idx
        <5>1. m - 1 \in Nat /\ (m - 1) + MaxChunks = sent
          BY <4>3, <4>5, Sizes
        <5> HIDE DEF m
        <5> QED
          BY <5>1, <4>3, IdxFacts DEF Slot
      <4>8. m <= Taken(r)
        BY <4>2, <4>6
      <4> HIDE DEF m
      <4> QED
        BY <4>2, <4>3, <4>6, <4>7, <4>8 DEF IInv, RingExact
    <3>4. CASE CheckWrittenFlag(r)
      <4>1. r_pc'[r] \in {"wait", "copy"}
        BY <3>4 DEF CheckWrittenFlag, IInv, TypeOK
      <4>2. r_pc'[r] = "copy" => written_flag[r_idx[r]] /\ ~seen_flag[r] /\ r_pc[r] = "check_written"
        BY <3>4 DEF CheckWrittenFlag, IInv, TypeOK
      <4>3. r_pc'[r] = "copy" => Taken(r) # sent
        BY <4>2, <2>1 DEF IInv, Indices
      <4>4. Taken(r) \in Nat /\ sent \in Nat /\ Taken(r) <= sent
        BY TakenType DEF IInv, Distance
      <4> QED
        BY <4>1, <4>3, <4>4, <1>1, <1>4
    <3>5. CASE Copy(r)
      <4>1. r_pc[r] = "copy" /\ r_pc'[r] = "mark" /\ obj'[r] = data[r_idx[r]]
        BY <3>5 DEF Copy, IInv, TypeOK
      <4>2. Taken(r) < sent
        BY <4>1, <2>1
      <4>3. data[r_idx[r]] = Enc(Taken(r) + 1)
        BY <4>2, NextToRead
      <4> QED
        BY <4>1, <4>2, <4>3, <1>1, <1>4, <2>e
    <3> QED
      BY <3>1, <3>2, <3>3, <3>4, <3>5
  <2> QED
    BY <2>2, <2>3 DEF ReaderPhase
<1> QED
  BY <1>2, <1>4, <1>5, <1>6 DEF IInv

\* acquire_write(): a chunk that is not busy has been read by every reader, so no
\* reader is a whole turn behind.
LEMMA AcquireWriteStep ==
    ASSUME IInv, AcquireWrite
    PROVE  IInv'
<1>1. /\ UNCHANGED <<large, sent, w_idx, rank, r_pc, r_idx, seen_flag, obj, delivered, read_flag, socket,
                   ping, shutting_down, cancelled>>
      /\ w_pc = "poll" /\ w_pc' = "fill" /\ ~ChunkBusy
      /\ written_flag' = [written_flag EXCEPT ![w_idx] = FALSE]
      /\ data' = [data EXCEPT ![w_idx] = Torn]
  BY DEF AcquireWrite, readerVars, stopVars
<1>2. TypeOK'
  BY <1>1 DEF IInv, TypeOK
<1>3. /\ ~Writing /\ Writing' /\ OnSocket' = OnSocket
      /\ \A r \in Reader : Taken(r)' = Taken(r)
      /\ \A m : Enc(m)' = Enc(m)
  BY <1>1 DEF Writing, OnSocket, Taken, Enc
<1>t. sent \in Nat /\ MaxChunks \in Nat \ {0} /\ \A r \in Reader : Taken(r) \in Nat
  BY TakenType, Sizes DEF IInv
<1>4. ASSUME NEW r \in Reader PROVE sent < Taken(r) + MaxChunks
  <2> SUFFICES ASSUME sent = Taken(r) + MaxChunks PROVE FALSE
    BY <1>t DEF IInv, Distance
  <2>1. Taken(r) < sent
    BY <1>t
  <2>2. Slot(Taken(r) + 1) = r_idx[r] /\ Taken(r) + 1 \in 1 .. sent /\ InRing(Taken(r) + 1)
        /\ written_flag[r_idx[r]]
    BY <2>1, NextToRead
  <2>3. w_idx = r_idx[r]
    BY <1>t, IdxFacts DEF IInv, Indices
  <2>4. ~(Taken(r) + 1 <= Taken(r))
    BY <1>t
  <2>5. ~read_flag[r_idx[r]][r]
    BY <2>2, <2>4 DEF IInv, RingExact
  <2> QED
    BY <1>1, <2>2, <2>3, <2>5 DEF ChunkBusy
<1>5. Indices' /\ Distance'
  BY <1>1, <1>3, <1>4 DEF IInv, Indices, Distance
<1>6. DeliveredInOrder'
  BY <1>1, <1>3 DEF IInv, DeliveredInOrder
<1>7. RingExact'
  <2>1. ASSUME NEW m \in 1 .. sent, InRing(m)'
        PROVE  InRing(m) /\ Slot(m) # w_idx
    <3>1. sent + 1 < m + MaxChunks
      BY <1>1, <1>3, <2>1 DEF InRing
    <3>2. InRing(m)
      BY <1>t, <1>3, <3>1 DEF InRing
    <3>3. m - 1 \in Nat /\ m - 1 < sent /\ sent < (m - 1) + MaxChunks
      BY <1>t, <3>1
    <3> QED
      BY <3>2, <3>3, <1>t, IdxFacts DEF Slot, IInv, Indices
  <2>2. \A c \in Chunk : c # w_idx => written_flag'[c] = written_flag[c] /\ data'[c] = data[c]
    BY <1>1 DEF IInv, TypeOK
  <2>3. \A m \in 1 .. sent : Slot(m) \in Chunk
    BY IdxFacts, <1>t DEF Slot
  <2>4. \A c \in Chunk : sent <= c => ~written_flag'[c]
    BY <1>1, <2>2 DEF IInv, TypeOK, RingExact
  <2> QED
    BY <1>1, <1>3, <2>1, <2>2, <2>3, <2>4 DEF IInv, RingExact
<1>8. WriterPhase'
  BY <1>1, <1>2, <1>3 DEF IInv, WriterPhase, TypeOK
<1>9. ReaderPhase'
  <2>1. ~written_flag'[w_idx]
    BY <1>1 DEF IInv, TypeOK
  <2> QED
    BY <1>1, <1>3, <2>1 DEF IInv, ReaderPhase
<1>10. SocketExact'
  BY <1>1, <1>3 DEF IInv, SocketExact
<1> QED
  BY <1>2, <1>5, <1>6, <1>7, <1>8, <1>9, <1>10 DEF IInv

\* What the writer does to its own chunk while it is writing touches no live one.
LEMMA OutsideRing ==
    ASSUME IInv, Writing, NEW m \in 1 .. sent, InRing(m)
    PROVE  Slot(m) \in Chunk /\ Slot(m) # w_idx
<1>1. sent \in Nat /\ MaxChunks \in Nat \ {0}
  BY TakenType, Sizes DEF IInv
<1>2. m - 1 \in Nat /\ m - 1 < sent /\ sent < (m - 1) + MaxChunks
  BY <1>1 DEF InRing
<1> QED
  BY <1>1, <1>2, IdxFacts DEF Slot, IInv, Indices

\* The caller of acquire_write() fills the chunk.
LEMMA FillStep ==
    ASSUME IInv, Fill
    PROVE  IInv'
<1>1. /\ UNCHANGED <<large, sent, w_idx, rank, r_pc, r_idx, seen_flag, obj, delivered, read_flag, socket,
                   written_flag, ping, shutting_down, cancelled>>
      /\ w_pc = "fill" /\ w_pc' = "reset"
      /\ data' = [data EXCEPT ![w_idx] = Enc(sent + 1)]
  BY DEF Fill, readerVars, stopVars, Enc
<1>3. /\ Writing /\ Writing' /\ OnSocket' = OnSocket
      /\ \A r \in Reader : Taken(r)' = Taken(r)
      /\ \A m : Enc(m)' = Enc(m)
      /\ \A m : InRing(m)' <=> InRing(m)
  BY <1>1 DEF Writing, OnSocket, Taken, Enc, InRing
<1>t. sent \in Nat /\ MaxChunks \in Nat \ {0} /\ sent + 1 \in Message
  <2>1. sent \in Nat /\ sent < MaxMessages
    BY <1>3, TakenType DEF IInv, WriterPhase
  <2> QED
    BY <2>1, Sizes
<1>2. TypeOK'
  <2>1. Enc(sent + 1) \in Message \cup {Torn, Overflow}
    BY <1>t DEF Enc
  <2> QED
    BY <1>1, <2>1 DEF IInv, TypeOK
<1>5. Indices' /\ Distance' /\ DeliveredInOrder'
  BY <1>1, <1>3 DEF IInv, Indices, Distance, DeliveredInOrder
<1>7. RingExact'
  <2>2. \A c \in Chunk : c # w_idx => data'[c] = data[c]
    BY <1>1 DEF IInv, TypeOK
  <2> QED
    BY <1>1, <1>3, <2>2, OutsideRing DEF IInv, RingExact
<1>8. WriterPhase'
  BY <1>1, <1>2, <1>3, Sizes DEF IInv, WriterPhase, TypeOK
<1>9. ReaderPhase'
  BY <1>1, <1>3 DEF IInv, ReaderPhase
<1>10. SocketExact'
  BY <1>1, <1>3 DEF IInv, SocketExact
<1> QED
  BY <1>2, <1>5, <1>7, <1>8, <1>9, <1>10 DEF IInv

\* The writer resets one read flag of the chunk it is writing.
LEMMA ResetReadFlagStep ==
    ASSUME IInv, ResetReadFlag
    PROVE  IInv'
<1>1. /\ UNCHANGED <<large, sent, w_idx, r_pc, r_idx, seen_flag, obj, delivered, data, socket,
                   written_flag, ping, shutting_down, cancelled>>
      /\ w_pc = "reset" /\ w_pc' = (IF rank + 1 = NReader THEN "publish" ELSE "reset")
      /\ rank' = rank + 1
      /\ read_flag' = [read_flag EXCEPT ![w_idx][rank] = FALSE]
  BY DEF ResetReadFlag, readerVars, stopVars
<1>3. /\ Writing /\ Writing' /\ OnSocket' = OnSocket
      /\ \A r \in Reader : Taken(r)' = Taken(r)
      /\ \A m : Enc(m)' = Enc(m)
      /\ \A m : InRing(m)' <=> InRing(m)
  BY <1>1 DEF Writing, OnSocket, Taken, Enc, InRing
<1>t. rank \in Reader /\ w_idx \in Chunk
  BY <1>1, Sizes DEF IInv, WriterPhase, TypeOK
<1>r. /\ read_flag' \in [Chunk -> [Reader -> BOOLEAN]]
      /\ \A c \in Chunk : c # w_idx => read_flag'[c] = read_flag[c]
      /\ \A r \in Reader : read_flag'[w_idx][r] = (IF r = rank THEN FALSE ELSE read_flag[w_idx][r])
  BY <1>1, <1>t DEF IInv, TypeOK
<1>2. TypeOK'
  <2>1. rank' \in 0 .. NReader /\ w_pc' \in {"reset", "publish"}
    BY <1>1, <1>t, Sizes
  <2> QED
    BY <1>1, <1>r, <2>1 DEF IInv, TypeOK
<1>5. Indices' /\ Distance' /\ DeliveredInOrder'
  BY <1>1, <1>3 DEF IInv, Indices, Distance, DeliveredInOrder
<1>7. RingExact'
  BY <1>1, <1>3, <1>r, OutsideRing DEF IInv, RingExact
<1>8. WriterPhase'
  <2>1. \A r \in Reader : r < rank' => ~read_flag'[w_idx][r]
    BY <1>1, <1>t, <1>r, Sizes DEF IInv, WriterPhase
  <2>2. rank + 1 = NReader \/ rank + 1 < NReader
    BY <1>t, Sizes
  <2> QED
    BY <1>1, <1>3, <2>1, <2>2 DEF IInv, WriterPhase
<1>9. ReaderPhase'
  BY <1>1, <1>3 DEF IInv, ReaderPhase
<1>10. SocketExact'
  BY <1>1, <1>3 DEF IInv, SocketExact
<1> QED
  BY <1>2, <1>5, <1>7, <1>8, <1>9, <1>10 DEF IInv

\* The written flag hands the chunk with the next object to the readers.
LEMMA PublishStep ==
    ASSUME IInv, Publish
    PROVE  IInv'
<1>1. /\ UNCHANGED <<large, r_pc, r_idx, seen_flag, obj, delivered, read_flag, data, socket,
                   ping, shutting_down, cancelled>>
      /\ w_pc = "publish" /\ w_pc' = (IF sent + 1 \in large THEN "send" ELSE "notify")
      /\ rank' = 0 /\ sent' = sent + 1 /\ w_idx' = NextIdx(w_idx)
      /\ written_flag' = [written_flag EXCEPT ![w_idx] = TRUE]
  BY DEF Publish, readerVars, stopVars
<1>3. /\ Writing /\ ~Writing'
      /\ \A r \in Reader : Taken(r)' = Taken(r)
      /\ \A m : Enc(m)' = Enc(m)
  BY <1>1 DEF Writing, Taken, Enc
<1>t. /\ sent \in Nat /\ MaxChunks \in Nat \ {0} /\ sent + 1 \in Message /\ w_idx \in Chunk
      /\ \A r \in Reader : Taken(r) \in Nat
  <2>1. sent \in Nat /\ \A r \in Reader : Taken(r) \in Nat
    BY TakenType DEF IInv
  <2>2. sent < MaxMessages /\ w_idx \in Chunk
    BY <1>3 DEF IInv, WriterPhase, TypeOK
  <2>3. sent + 1 \in Message
    BY <2>1, <2>2, Sizes
  <2> QED
    BY <2>1, <2>2, <2>3, Sizes
<1>i. w_idx = Idx(sent) /\ w_idx' = Idx(sent')
  BY <1>1, <1>t, IdxFacts DEF IInv, Indices
<1>w. /\ \A c \in Chunk : c # w_idx => written_flag'[c] = written_flag[c]
      /\ written_flag'[w_idx]
  BY <1>1 DEF IInv, TypeOK
<1>2. TypeOK'
  <2>1. w_idx' \in Chunk
    BY <1>1, <1>t, <1>i, IdxFacts
  <2>2. sent' \in 0 .. MaxMessages /\ rank' \in 0 .. NReader /\ w_pc' \in {"send", "notify"}
    BY <1>1, <1>t, Sizes
  <2> QED
    BY <1>1, <2>1, <2>2 DEF IInv, TypeOK
<1>4. Indices'
  BY <1>1, <1>3, <1>i DEF IInv, Indices
<1>5. Distance'
  <2> SUFFICES ASSUME NEW r \in Reader
               PROVE  Taken(r) <= sent + 1 /\ sent + 1 <= Taken(r) + MaxChunks
    BY <1>1, <1>3 DEF Distance
  <2> QED
    BY <1>3, <1>t DEF IInv, Distance
<1>6. DeliveredInOrder'
  BY <1>1, <1>3 DEF IInv, DeliveredInOrder
<1>7. RingExact'
  <2>1. ASSUME NEW m \in 1 .. sent', InRing(m)'
        PROVE  /\ written_flag'[Slot(m)] /\ data[Slot(m)] = Enc(m)
               /\ \A r \in Reader : read_flag[Slot(m)][r] <=> m <= Taken(r)
    <3>1. CASE m = sent + 1
      <4>1. Slot(m) = w_idx
        <5>1. m - 1 = sent
          BY <3>1, <1>t
        <5> QED
          BY <5>1, <1>i DEF Slot
      <4>2. \A r \in Reader : ~(m <= Taken(r)) /\ ~read_flag[w_idx][r]
        BY <3>1, <1>1, <1>t, Sizes DEF IInv, Distance, WriterPhase
      <4> QED
        BY <4>1, <4>2, <3>1, <1>w, <1>1 DEF IInv, WriterPhase
    <3>2. CASE m # sent + 1
      <4>1. m \in 1 .. sent
        BY <3>2, <1>1, <1>t
      <4>2. InRing(m)
        BY <2>1, <1>1, <1>t, <4>1 DEF InRing
      <4> QED
        BY <4>1, <4>2, <1>w, <1>3, OutsideRing DEF IInv, RingExact
    <3> QED
      BY <3>1, <3>2
  <2>2. ASSUME NEW c \in Chunk, sent' <= c PROVE ~written_flag'[c]
    <3>1. sent <= c /\ sent < MaxChunks /\ sent # c
      BY <1>1, <1>t, <2>2, Sizes
    <3>2. w_idx = sent
      BY <3>1, <1>t, <1>i, IdxFacts
    <3> QED
      BY <3>1, <3>2, <1>w DEF IInv, RingExact
  <2> QED
    BY <1>1, <1>3, <2>1, <2>2 DEF RingExact
<1>8. WriterPhase'
  BY <1>1, <1>3 DEF WriterPhase
<1>9. ReaderPhase'
  <2> SUFFICES ASSUME NEW r \in Reader
               PROVE  /\ Taken(r) # sent + 1
                      /\ r_pc[r] \in {"copy", "mark"} => Taken(r) < sent + 1
                      /\ r_pc[r] = "mark" => obj[r] = Enc(Taken(r) + 1)
    BY <1>1, <1>3 DEF ReaderPhase
  <2> QED
    BY <1>t DEF IInv, ReaderPhase, Distance
<1>10. SocketExact'
  <2> SUFFICES ASSUME NEW r \in Reader
               PROVE  Pending(large, socket[r], Len(delivered[r]), OnSocket')
    BY <1>1 DEF SocketExact
  <2>1. OnSocket = sent /\ Pending(large, socket[r], Len(delivered[r]), sent)
    BY <1>1 DEF OnSocket, IInv, SocketExact
  <2>2. CASE sent + 1 \in large
    <3>1. OnSocket' = sent
      BY <1>1, <1>t, <2>2 DEF OnSocket
    <3> QED
      BY <3>1, <2>1
  <2>3. CASE sent + 1 \notin large
    <3>1. OnSocket' = sent + 1
      BY <1>1, <1>t, <2>3 DEF OnSocket
    <3>2. socket[r] \in Seq(Message) /\ large \subseteq Message
      BY DEF IInv, TypeOK
    <3>3. \A m \in Message : m # sent + 1 => (m <= sent <=> m <= sent + 1)
      BY <1>t, Sizes
    <3>4. \A i \in 1 .. Len(socket[r]) : socket[r][i] \in Message
      BY <3>2
    <3>5. \A m \in large : m <= sent <=> m <= sent + 1
      BY <2>3, <3>2, <3>3
    <3>6. Pending(large, socket[r], Len(delivered[r]), sent + 1)
      <4>1. Len(delivered[r]) \in Nat
        BY DEF IInv, TypeOK
      <4> QED
        BY <1>t, <4>1, <2>1, <3>4, <3>5 DEF Pending
    <3> QED
      BY <3>1, <3>6
  <2> QED
    BY <2>2, <2>3
<1> QED
  BY <1>2, <1>4, <1>5, <1>6, <1>7, <1>8, <1>9, <1>10 DEF IInv

\* The large object follows on the sockets.
LEMMA SendLargeStep ==
    ASSUME IInv, SendLarge
    PROVE  IInv'
<1>1. /\ UNCHANGED <<large, sent, w_idx, rank, r_pc, r_idx, seen_flag, obj, delivered, read_flag, data,
                   written_flag, ping, shutting_down, cancelled>>
      /\ w_pc = "send" /\ w_pc' = "notify"
      /\ socket' = [r \in Reader |-> Append(socket[r], sent)]
  BY DEF SendLarge, readerVars, stopVars
<1>3. /\ ~Writing /\ ~Writing' /\ OnSocket = sent - 1 /\ OnSocket' = sent
      /\ \A r \in Reader : Taken(r)' = Taken(r)
      /\ \A m : Enc(m)' = Enc(m)
      /\ \A m : InRing(m)' <=> InRing(m)
  BY <1>1 DEF Writing, OnSocket, Taken, Enc, InRing
<1>t. sent \in large /\ sent \in Message
  BY <1>1 DEF IInv, WriterPhase, TypeOK
<1>2. TypeOK'
  <2>1. socket' \in [Reader -> Seq(Message)]
    BY <1>1, <1>t DEF IInv, TypeOK
  <2> QED
    BY <1>1, <2>1 DEF IInv, TypeOK
<1>5. Indices' /\ Distance' /\ DeliveredInOrder'
  BY <1>1, <1>3 DEF IInv, Indices, Distance, DeliveredInOrder
<1>7. RingExact'
  BY <1>1, <1>3 DEF IInv, RingExact
<1>8. WriterPhase'
  BY <1>1, <1>3 DEF IInv, WriterPhase
<1>9. ReaderPhase'
  BY <1>1, <1>3 DEF IInv, ReaderPhase
<1>10. SocketExact'
  <2> SUFFICES ASSUME NEW r \in Reader
               PROVE  Pending(large, Append(socket[r], sent), Len(delivered[r]), sent)
    BY <1>1, <1>3 DEF SocketExact
  <2> DEFINE s == socket[r]
             t == Append(s, sent)
             n == Len(delivered[r])
  <2>0. n \in Nat /\ s \in Seq(Message) /\ large \subseteq Message /\ sent \in Nat
    BY <1>t, Sizes DEF IInv, TypeOK
  <2>1. Pending(large, s, n, sent - 1)
    BY <1>3 DEF IInv, SocketExact
  <2>2. n < sent
    BY <2>0, <2>1 DEF Pending
  <2> HIDE DEF s, n
  <2>3. /\ Len(t) = Len(s) + 1 /\ t[Len(s) + 1] = sent
        /\ \A i \in 1 .. Len(s) : t[i] = s[i]
    BY <2>0, <1>t
  <2> HIDE DEF t
  <2>4. \A i \in 1 .. Len(s) : s[i] \in Message /\ s[i] \in large /\ n < s[i] /\ s[i] <= sent - 1
    BY <2>0, <2>1 DEF Pending
  <2>l. Len(s) \in Nat /\ \A i \in 1 .. Len(t) : i \in 1 .. Len(s) \/ i = Len(s) + 1
    BY <2>0, <2>3
  <2>5. \A i, j \in 1 .. Len(t) : i < j => t[i] < t[j]
    <3> SUFFICES ASSUME NEW i \in 1 .. Len(t), NEW j \in 1 .. Len(t), i < j PROVE t[i] < t[j]
      OBVIOUS
    <3>1. i \in 1 .. Len(s)
      BY <2>l, <2>3
    <3>2. CASE j = Len(s) + 1
      BY <3>1, <3>2, <2>3, <2>4, <1>t, Sizes
    <3>3. CASE j \in 1 .. Len(s)
      BY <3>1, <3>3, <2>1, <2>3 DEF Pending
    <3> QED
      BY <3>2, <3>3, <2>l
  <2>6. \A i \in 1 .. Len(t) : t[i] \in large /\ n < t[i] /\ t[i] <= sent
    <3> SUFFICES ASSUME NEW i \in 1 .. Len(t) PROVE t[i] \in large /\ n < t[i] /\ t[i] <= sent
      OBVIOUS
    <3>1. CASE i = Len(s) + 1
      BY <3>1, <2>0, <2>2, <2>3, <1>t
    <3>2. CASE i \in 1 .. Len(s)
      BY <3>2, <2>3, <2>4, <2>0, Sizes
    <3> QED
      BY <3>1, <3>2, <2>l
  <2>7. ASSUME NEW m \in large, n < m, m <= sent PROVE \E i \in 1 .. Len(t) : t[i] = m
    <3>1. CASE m = sent
      BY <3>1, <2>3, <2>l
    <3>2. CASE m # sent
      <4>1. m <= sent - 1
        BY <3>2, <2>7, <2>0, Sizes
      <4>2. PICK i \in 1 .. Len(s) : s[i] = m
        BY <4>1, <2>7, <2>1 DEF Pending
      <4> QED
        BY <4>2, <2>3, <2>l
    <3> QED
      BY <3>1, <3>2
  <2>8. Pending(large, t, n, sent)
    BY <2>0, <2>2, <2>5, <2>6, <2>7 DEF Pending
  <2> QED
    BY <2>8 DEF s, t, n
<1> QED
  BY <1>2, <1>5, <1>7, <1>8, <1>9, <1>10 DEF IInv

\* The reader marks its chunk: a small object is delivered, a large one is awaited.
LEMMA MarkReadStep ==
    ASSUME IInv, NEW r \in Reader, MarkRead(r)
    PROVE  IInv'
<1>1. /\ UNCHANGED <<large, sent, w_pc, w_idx, rank, seen_flag, data, socket, written_flag,
                   ping, shutting_down, cancelled>>
      /\ r_pc[r] = "mark"
      /\ r_idx' = [r_idx EXCEPT ![r] = NextIdx(@)]
      /\ read_flag' = [read_flag EXCEPT ![r_idx[r]][r] = TRUE]
      /\ obj' = [obj EXCEPT ![r] = Torn]
  BY DEF MarkRead, writerVars, stopVars
<1> DEFINE n == Len(delivered[r])
<1>t. /\ n \in Nat /\ Taken(r) = n /\ n < sent /\ sent \in Nat /\ n + 1 \in Message
      /\ MaxChunks \in Nat \ {0} /\ r_idx[r] \in Chunk
      /\ \A q \in Reader : Taken(q) \in Nat
  <2>1. Taken(r) < sent
    BY <1>1 DEF IInv, ReaderPhase
  <2>2. Taken(r) = n /\ n \in Nat /\ r_idx[r] \in Chunk /\ sent \in 0 .. MaxMessages
    BY <1>1 DEF Taken, IInv, TypeOK
  <2> QED
    BY <2>1, <2>2, TakenType, Sizes DEF IInv
<1>o. obj[r] = Enc(n + 1)
  BY <1>1, <1>t DEF IInv, ReaderPhase
<1>p. \/ /\ n + 1 \in large /\ r_pc' = [r_pc EXCEPT ![r] = "recv"] /\ delivered' = delivered
      \/ /\ n + 1 \notin large /\ r_pc' = [r_pc EXCEPT ![r] = "out"]
         /\ delivered' = [delivered EXCEPT ![r] = Append(delivered[r], n + 1)]
  <2>1. CASE n + 1 \in large
    <3>1. obj[r] = Overflow
      BY <2>1, <1>o DEF Enc
    <3> QED
      BY <2>1, <3>1 DEF MarkRead
  <2>2. CASE n + 1 \notin large
    <3>1. obj[r] = n + 1 /\ obj[r] # Overflow
      BY <2>2, <1>o, <1>t, Sizes DEF Enc
    <3> QED
      BY <2>2, <3>1 DEF MarkRead
  <2> QED
    BY <2>1, <2>2
<1>d. /\ delivered' \in [Reader -> Seq(Message)]
      /\ \A q \in Reader : q # r => delivered'[q] = delivered[q] /\ r_pc'[q] = r_pc[q]
      /\ n + 1 \in large => delivered'[r] = delivered[r] /\ r_pc'[r] = "recv"
      /\ n + 1 \notin large =>
            /\ r_pc'[r] = "out" /\ Len(delivered'[r]) = n + 1 /\ delivered'[r][n + 1] = n + 1
            /\ \A i \in 1 .. n : delivered'[r][i] = delivered[r][i]
  <2>0. /\ delivered \in [Reader -> Seq(Message)]
        /\ r_pc \in [Reader -> {"out", "check_read", "check_written", "wait", "copy", "mark",
                                "recv", "stopped"}]
    BY DEF IInv, TypeOK
  <2>1. CASE n + 1 \in large
    BY <2>0, <2>1, <1>p
  <2>2. CASE n + 1 \notin large
    <3>1. /\ delivered' = [delivered EXCEPT ![r] = Append(delivered[r], n + 1)]
          /\ r_pc' = [r_pc EXCEPT ![r] = "out"]
      BY <2>2, <1>p
    <3>2. /\ Append(delivered[r], n + 1) \in Seq(Message)
          /\ Len(Append(delivered[r], n + 1)) = n + 1
          /\ Append(delivered[r], n + 1)[n + 1] = n + 1
          /\ \A i \in 1 .. n : Append(delivered[r], n + 1)[i] = delivered[r][i]
      BY <2>0, <1>t
    <3> QED
      BY <2>0, <2>2, <3>1, <3>2
  <2> QED
    BY <2>1, <2>2
<1>3. /\ Taken(r)' = n + 1
      /\ \A q \in Reader : q # r => Taken(q)' = Taken(q)
      /\ (Writing' <=> Writing) /\ OnSocket' = OnSocket
      /\ \A m : Enc(m)' = Enc(m)
      /\ \A m : InRing(m)' <=> InRing(m)
  BY <1>1, <1>d DEF Writing, OnSocket, Taken, Enc, InRing
<1>r. /\ read_flag' \in [Chunk -> [Reader -> BOOLEAN]]
      /\ \A c \in Chunk : \A q \in Reader : c # r_idx[r] \/ q # r => read_flag'[c][q] = read_flag[c][q]
      /\ read_flag'[r_idx[r]][r]
  BY <1>1, <1>t DEF IInv, TypeOK
<1>i. r_idx'[r] = Idx(n + 1) /\ \A q \in Reader : q # r => r_idx'[q] = r_idx[q]
  <2>1. r_idx'[r] = NextIdx(r_idx[r]) /\ r_idx[r] = Idx(n)
    BY <1>1, <1>t DEF IInv, TypeOK, Indices
  <2> QED
    BY <1>1, <1>t, <2>1, IdxFacts DEF IInv, TypeOK
<1>2. TypeOK'
  <2>1. r_idx' \in [Reader -> Chunk]
    <3>1. Idx(n + 1) \in Chunk
      <4>1. n + 1 \in Nat
        BY <1>t
      <4> QED
        BY <4>1, IdxFacts
    <3> QED
      BY <1>1, <1>i, <3>1 DEF IInv, TypeOK
  <2>2. r_pc' \in [Reader -> {"out", "check_read", "check_written", "wait", "copy", "mark",
                            "recv", "stopped"}]
    BY <1>p DEF IInv, TypeOK
  <2>3. obj' \in [Reader -> Message \cup {Torn, Overflow}]
    BY <1>1 DEF IInv, TypeOK
  <2> QED
    BY <1>1, <1>r, <1>d, <2>1, <2>2, <2>3 DEF IInv, TypeOK
<1>4. Indices'
  BY <1>1, <1>3, <1>i DEF IInv, Indices
<1>5. Distance'
  <2>1. ASSUME NEW q \in Reader, q # r
        PROVE  /\ Taken(q)' <= sent
               /\ sent <= Taken(q)' + MaxChunks
               /\ Writing => sent < Taken(q)' + MaxChunks
    BY <1>3, <2>1 DEF IInv, Distance
  <2>2. /\ n + 1 <= sent
        /\ sent <= (n + 1) + MaxChunks
        /\ Writing => sent < (n + 1) + MaxChunks
    <3>1. sent <= n + MaxChunks
      BY <1>t DEF IInv, Distance
    <3> QED
      BY <3>1, <1>t
  <2> QED
    BY <1>1, <1>3, <2>1, <2>2 DEF Distance
<1>6. DeliveredInOrder'
  <2>1. ASSUME NEW q \in Reader, q # r
        PROVE  /\ \A i \in 1 .. Len(delivered'[q]) : delivered'[q][i] = i
               /\ r_pc'[q] = "recv" => Taken(q)' \in large
    BY <1>d, <1>3, <2>1 DEF IInv, DeliveredInOrder
  <2>2. \A i \in 1 .. Len(delivered'[r]) : delivered'[r][i] = i
    <3>1. \A i \in 1 .. n : delivered[r][i] = i
      BY DEF IInv, DeliveredInOrder
    <3>2. \A i \in 1 .. (n + 1) : i \in 1 .. n \/ i = n + 1
      BY <1>t
    <3> QED
      BY <1>d, <3>1, <3>2
  <2>3. r_pc'[r] = "recv" => Taken(r)' \in large
    BY <1>d, <1>3
  <2> QED
    BY <1>1, <2>1, <2>2, <2>3 DEF DeliveredInOrder
<1>7. RingExact'
  <2>0. Slot(n + 1) = r_idx[r] /\ n + 1 \in 1 .. sent /\ InRing(n + 1)
    BY <1>t, NextToRead
  <2>1. ASSUME NEW m \in 1 .. sent, InRing(m), m # n + 1 PROVE Slot(m) \in Chunk /\ Slot(m) # r_idx[r]
    <3>1. m - 1 \in Nat /\ m - 1 # n /\ sent < m + MaxChunks /\ sent < (n + 1) + MaxChunks
      BY <2>0, <2>1, <1>t DEF InRing
    <3>2. (m - 1 < n /\ n < (m - 1) + MaxChunks) \/ (n < m - 1 /\ m - 1 < n + MaxChunks)
      BY <3>1, <1>t
    <3>3. r_idx[r] = Idx(n)
      BY <1>t DEF IInv, Indices
    <3> QED
      BY <3>1, <3>2, <3>3, <1>t, IdxFacts DEF Slot
  <2>2. ASSUME NEW m \in 1 .. sent, InRing(m), NEW q \in Reader
        PROVE  read_flag'[Slot(m)][q] <=> m <= Taken(q)'
    <3>1. CASE m = n + 1 /\ q = r
      BY <3>1, <2>0, <1>r, <1>3, <1>t
    <3>2. CASE m = n + 1 /\ q # r
      BY <3>2, <2>0, <1>r, <1>3, <1>t DEF IInv, RingExact
    <3>3. CASE m # n + 1 /\ q = r
      <4>1. m <= n + 1 <=> m <= n
        BY <3>3, <1>t
      <4>2. read_flag[Slot(m)][q] <=> m <= n
        BY <2>2, <3>3, <1>t DEF IInv, RingExact
      <4>3. read_flag'[Slot(m)][q] = read_flag[Slot(m)][q]
        BY <2>2, <3>3, <2>1, <1>r
      <4> QED
        BY <4>1, <4>2, <4>3, <3>3, <1>3
    <3>4. CASE m # n + 1 /\ q # r
      <4>1. read_flag'[Slot(m)][q] = read_flag[Slot(m)][q]
        BY <2>2, <3>4, <2>1, <1>r
      <4> QED
        BY <4>1, <2>2, <3>4, <1>3 DEF IInv, RingExact
    <3> QED
      BY <3>1, <3>2, <3>3, <3>4
  <2> QED
    BY <1>1, <1>3, <2>2 DEF IInv, RingExact
<1>8. WriterPhase'
  <2>1. Writing => r_idx[r] # w_idx
    BY <1>t, NextToRead
  <2>2. w_pc \in {"reset", "publish"} => \A q \in Reader : read_flag'[w_idx][q] = read_flag[w_idx][q]
    BY <2>1, <1>r DEF IInv, TypeOK, Writing
  <2> QED
    BY <1>1, <1>3, <2>2 DEF IInv, WriterPhase
<1>9. ReaderPhase'
  <2>1. ASSUME NEW q \in Reader, q # r
        PROVE  /\ r_pc'[q] = "check_written" /\ ~seen_flag[q] /\ Taken(q)' = sent
                    => ~written_flag[w_idx]
               /\ r_pc'[q] \in {"copy", "mark"} => Taken(q)' < sent
               /\ r_pc'[q] = "mark" => obj'[q] = Enc(Taken(q)' + 1)
    BY <1>1, <1>d, <1>3, <2>1 DEF IInv, ReaderPhase, TypeOK
  <2>2. r_pc'[r] \notin {"check_written", "copy", "mark"}
    BY <1>d
  <2> QED
    BY <1>1, <1>3, <2>1, <2>2 DEF ReaderPhase
<1>10. SocketExact'
  <2>1. ASSUME NEW q \in Reader, q # r
        PROVE  Pending(large, socket[q], Len(delivered'[q]), OnSocket)
    BY <1>d, <2>1 DEF IInv, SocketExact
  <2>2. Pending(large, socket[r], Len(delivered'[r]), OnSocket)
    <3>0. Pending(large, socket[r], n, OnSocket)
      BY DEF IInv, SocketExact
    <3>1. CASE n + 1 \in large
      BY <3>1, <3>0, <1>d
    <3>2. CASE n + 1 \notin large
      <4>1. n + 1 <= OnSocket
        BY <3>2, <1>t DEF OnSocket, IInv, WriterPhase
      <4>2. socket[r] \in Seq(Message) /\ large \subseteq Message
        BY DEF IInv, TypeOK
      <4>3. \A m \in large : n < m <=> n + 1 < m
        BY <3>2, <4>2, <1>t, Sizes
      <4>4. Pending(large, socket[r], n + 1, OnSocket)
        BY <3>0, <4>1, <4>3 DEF Pending
      <4> QED
        BY <4>4, <3>2, <1>d
    <3> QED
      BY <3>1, <3>2
  <2> QED
    BY <1>1, <1>3, <2>1, <2>2 DEF SocketExact
<1> QED
  BY <1>2, <1>4, <1>5, <1>6, <1>7, <1>8, <1>9, <1>10 DEF IInv

\* recv(): the first object on the socket is the one whose chunk was just marked.
LEMMA RecvLargeStep ==
    ASSUME IInv, NEW r \in Reader, RecvLarge(r)
    PROVE  /\ IInv'
           /\ Head(socket[r]) = Len(delivered[r]) + 1
           /\ Len(delivered[r]) < sent
<1>1. /\ UNCHANGED <<large, sent, w_pc, w_idx, rank, r_idx, seen_flag, obj, data, written_flag, read_flag,
                   ping, shutting_down, cancelled>>
      /\ r_pc[r] = "recv" /\ socket[r] # <<>>
      /\ r_pc' = [r_pc EXCEPT ![r] = "out"]
      /\ socket' = [socket EXCEPT ![r] = Tail(@)]
      /\ delivered' = [delivered EXCEPT ![r] = Append(@, Head(socket[r]))]
  BY DEF RecvLarge, writerVars, stopVars
<1> DEFINE n == Len(delivered[r])
           s == socket[r]
<1>t. /\ n \in Nat /\ Taken(r) = n + 1 /\ n + 1 \in large /\ n + 1 <= sent /\ sent \in Nat
      /\ n + 1 \in Message /\ s \in Seq(Message) /\ Len(s) \in Nat /\ large \subseteq Message
  <2>1. n \in Nat /\ Taken(r) = n + 1 /\ s \in Seq(Message) /\ Len(s) \in Nat /\ large \subseteq Message
    BY <1>1 DEF IInv, TypeOK, Taken
  <2>2. n + 1 \in large /\ n + 1 <= sent
    BY <1>1, <2>1 DEF IInv, DeliveredInOrder, Distance
  <2> QED
    BY <2>1, <2>2, TakenType DEF IInv
<1>s. Len(s) >= 1 /\ Head(s) = s[1] /\ 1 \in 1 .. Len(s)
  BY <1>1, <1>t
<1>b. OnSocket \in Int
  BY <1>t DEF OnSocket
<1>P. Pending(large, s, n, OnSocket)
  BY DEF IInv, SocketExact
<1>e. \A i \in 1 .. Len(s) : s[i] \in Message /\ s[i] \in large /\ n < s[i] /\ s[i] <= OnSocket
  BY <1>P, <1>t DEF Pending
<1>h. Head(s) = n + 1
  <2>1. n < s[1] /\ s[1] <= OnSocket /\ s[1] \in Nat
    BY <1>e, <1>s, Sizes
  <2>2. n + 1 <= OnSocket
    BY <2>1, <1>b, <1>t
  <2>3. PICK i \in 1 .. Len(s) : s[i] = n + 1
    BY <1>P, <1>t, <2>2 DEF Pending
  <2>4. i = 1 \/ s[1] < s[i]
    BY <1>P, <1>s, <1>t DEF Pending
  <2> QED
    BY <2>1, <2>3, <2>4, <1>s, <1>t
<1>d. /\ delivered' \in [Reader -> Seq(Message)]
      /\ socket' \in [Reader -> Seq(Message)]
      /\ \A q \in Reader : q # r =>
            delivered'[q] = delivered[q] /\ r_pc'[q] = r_pc[q] /\ socket'[q] = socket[q]
      /\ r_pc'[r] = "out" /\ socket'[r] = Tail(s)
      /\ Len(delivered'[r]) = n + 1 /\ delivered'[r][n + 1] = n + 1
      /\ \A i \in 1 .. n : delivered'[r][i] = delivered[r][i]
  BY <1>1, <1>t, <1>h DEF IInv, TypeOK
<1>3. /\ Taken(r)' = n + 1
      /\ \A q \in Reader : Taken(q)' = Taken(q)
      /\ (Writing' <=> Writing) /\ OnSocket' = OnSocket
      /\ \A m : Enc(m)' = Enc(m)
      /\ \A m : InRing(m)' <=> InRing(m)
  <2>1. Taken(r)' = n + 1
    BY <1>d DEF Taken
  <2>2. \A q \in Reader : q # r => Taken(q)' = Taken(q)
    BY <1>d DEF Taken
  <2> QED
    BY <1>1, <1>t, <2>1, <2>2 DEF Writing, OnSocket, Enc, InRing
<1>2. TypeOK'
  <2>2. r_pc' \in [Reader -> {"out", "check_read", "check_written", "wait", "copy", "mark",
                            "recv", "stopped"}]
    BY <1>1 DEF IInv, TypeOK
  <2> QED
    BY <1>1, <1>d, <2>2 DEF IInv, TypeOK
<1>4. Indices' /\ Distance'
  BY <1>1, <1>3 DEF IInv, Indices, Distance
<1>6. DeliveredInOrder'
  <2>1. ASSUME NEW q \in Reader, q # r
        PROVE  /\ \A i \in 1 .. Len(delivered'[q]) : delivered'[q][i] = i
               /\ r_pc'[q] = "recv" => Taken(q)' \in large
    BY <1>d, <1>3, <2>1 DEF IInv, DeliveredInOrder
  <2>2. \A i \in 1 .. Len(delivered'[r]) : delivered'[r][i] = i
    <3>1. \A i \in 1 .. n : delivered[r][i] = i
      BY DEF IInv, DeliveredInOrder
    <3>2. \A i \in 1 .. (n + 1) : i \in 1 .. n \/ i = n + 1
      BY <1>t
    <3> QED
      BY <1>d, <3>1, <3>2
  <2> QED
    BY <1>1, <1>d, <2>1, <2>2 DEF DeliveredInOrder
<1>7. RingExact' /\ WriterPhase'
  BY <1>1, <1>3 DEF IInv, RingExact, WriterPhase
<1>9. ReaderPhase'
  <2>1. \A q \in Reader : r_pc'[q] \in {"check_written", "copy", "mark"} => r_pc'[q] = r_pc[q]
    BY <1>d
  <2> QED
    BY <1>1, <1>3, <2>1 DEF IInv, ReaderPhase
<1>10. SocketExact'
  <2>1. ASSUME NEW q \in Reader, q # r
        PROVE  Pending(large, socket'[q], Len(delivered'[q]), OnSocket)
    BY <1>d, <2>1 DEF IInv, SocketExact
  <2>2. Pending(large, Tail(s), n + 1, OnSocket)
    <3> DEFINE t == Tail(s)
    <3>1. Len(t) = Len(s) - 1 /\ \A i \in 1 .. Len(t) : t[i] = s[i + 1]
      BY <1>t, <1>s
    <3> HIDE DEF t, s, n
    <3>2. \A i, j \in 1 .. Len(t) : i < j => t[i] < t[j]
      <4> SUFFICES ASSUME NEW i \in 1 .. Len(t), NEW j \in 1 .. Len(t), i < j PROVE t[i] < t[j]
        OBVIOUS
      <4>1. i + 1 \in 1 .. Len(s) /\ j + 1 \in 1 .. Len(s) /\ i + 1 < j + 1
        BY <3>1, <1>t
      <4> QED
        BY <4>1, <3>1, <1>P DEF Pending
    <3>3. \A i \in 1 .. Len(t) : t[i] \in large /\ n + 1 < t[i] /\ t[i] <= OnSocket
      <4> SUFFICES ASSUME NEW i \in 1 .. Len(t) PROVE t[i] \in large /\ n + 1 < t[i] /\ t[i] <= OnSocket
        OBVIOUS
      <4>1. i + 1 \in 1 .. Len(s) /\ 1 < i + 1
        BY <3>1, <1>t
      <4>2. s[1] < s[i + 1]
        BY <4>1, <1>s, <1>P DEF Pending
      <4> QED
        BY <4>1, <4>2, <3>1, <1>e, <1>h, <1>s
    <3>4. ASSUME NEW m \in large, n + 1 < m, m <= OnSocket PROVE \E i \in 1 .. Len(t) : t[i] = m
      <4>1. n < m
        BY <3>4, <1>t, Sizes
      <4>2. PICK j \in 1 .. Len(s) : s[j] = m
        BY <4>1, <3>4, <1>P DEF Pending
      <4>3. j # 1
        BY <4>2, <3>4, <1>h, <1>s, <1>t, Sizes
      <4>4. j - 1 \in 1 .. Len(t) /\ (j - 1) + 1 = j
        BY <4>3, <3>1, <1>t
      <4> QED
        BY <4>2, <4>4, <3>1
    <3>5. n + 1 <= OnSocket
      BY <1>e, <1>h, <1>s
    <3>6. Pending(large, t, n + 1, OnSocket)
      BY <3>2, <3>3, <3>4, <3>5 DEF Pending
    <3> QED
      BY <3>6 DEF t
  <2> QED
    BY <1>1, <1>3, <1>d, <2>1, <2>2 DEF SocketExact
<1> QED
  BY <1>2, <1>4, <1>6, <1>7, <1>9, <1>10, <1>h, <1>t DEF IInv

\* Every step keeps the invariant.
LEMMA NextIInv == IInv /\ [Next]_vars => IInv'
<1> SUFFICES ASSUME IInv, [Next]_vars PROVE IInv'
  OBVIOUS
<1>1. CASE Enqueue \/ WriteTimeout \/ Notify
  BY <1>1, IdleWriterStep
<1>2. CASE AcquireWrite
  BY <1>2, AcquireWriteStep
<1>3. CASE Fill
  BY <1>3, FillStep
<1>4. CASE ResetReadFlag
  BY <1>4, ResetReadFlagStep
<1>5. CASE Publish
  BY <1>5, PublishStep
<1>6. CASE SendLarge
  BY <1>6, SendLargeStep
<1>7. ASSUME NEW r \in Reader, ReaderStep(r) \/ Spin(r) \/ Shutdown(r) \/ Cancel(r) PROVE IInv'
  <2>1. CASE MarkRead(r)
    BY <2>1, MarkReadStep
  <2>2. CASE RecvLarge(r)
    BY <2>2, RecvLargeStep
  <2>3. CASE \/ Dequeue(r) \/ CheckReadFlag(r) \/ CheckWrittenFlag(r) \/ Spin(r) \/ WakeUp(r)
             \/ Copy(r) \/ Shutdown(r) \/ Cancel(r)
    BY <2>3, QuietReaderStep
  <2> QED
    BY <1>7, <2>1, <2>2, <2>3 DEF ReaderStep
<1>8. CASE UNCHANGED vars
  <2>1. UNCHANGED <<large, sent, w_pc, w_idx, rank, r_pc, r_idx, seen_flag, obj, delivered,
                    written_flag, read_flag, data, socket, ping, shutting_down, cancelled>>
    BY <1>8 DEF vars, writerVars, readerVars, shared, stopVars
  <2>2. TypeOK'
    BY <2>1 DEF IInv, TypeOK
  <2>3. (Writing' <=> Writing) /\ OnSocket' = OnSocket /\ \A m : Enc(m)' = Enc(m)
    BY <2>1 DEF Writing, OnSocket, Enc
  <2>4. /\ Indices' /\ Distance' /\ DeliveredInOrder' /\ RingExact' /\ SocketExact'
        /\ \A q \in Reader : Taken(q)' = Taken(q)
    <3>1. \A r \in Reader : (r_pc'[r] = "recv") <=> (r_pc[r] = "recv")
      BY <2>1
    <3> QED
      BY <2>1, <2>3, <3>1, Frame
  <2>5. WriterPhase' /\ ReaderPhase'
    BY <2>1, <2>3, <2>4 DEF IInv, WriterPhase, ReaderPhase
  <2> QED
    BY <2>2, <2>4, <2>5 DEF IInv
<1> QED
  BY <1>1, <1>2, <1>3, <1>4, <1>5, <1>6, <1>7, <1>8 DEF Next, Writer

\* The invariant holds in every reachable state, for any number of readers, chunks and
\* objects and any choice of large ones.
THEOREM InductiveInvariant == Spec => []IInv
<1>1. Init => IInv
  BY InitIInv
<1>2. IInv /\ [Next]_vars => IInv'
  BY NextIInv
<1> QED
  BY <1>1, <1>2, PTL DEF Spec

\* The promise of acquire_read() and acquire_write() (shm_broadcast.py): no writer is in a
\* chunk that a reader is copying from, however the flag accesses interleave.
THEOREM ReadersAreNotOverwritten == Spec => []NoOverwriteWhileReading
<1>1. IInv => NoOverwriteWhileReading
  <2> SUFFICES ASSUME IInv, NEW r \in Reader, r_pc[r] \in {"copy", "mark"}, w_idx = r_idx[r]
               PROVE  ~Writing
    BY DEF NoOverwriteWhileReading, IInv, Writing
  <2>1. Taken(r) < sent
    BY DEF IInv, ReaderPhase
  <2> QED
    BY <2>1, NextToRead
<1> QED
  BY <1>1, InductiveInvariant, PTL

\* Publish is a Put of the broadcast queue, MarkRead of a small object and RecvLarge are
\* a Get, and every other step changes nothing that the queue shows.
LEMMA QueueStep == IInv /\ [Next]_vars => [Queue!Next]_(Queue!vars)
<1> SUFFICES ASSUME IInv, [Next]_vars
             PROVE  Queue!Next \/ UNCHANGED <<sent, delivered>>
  BY DEF Queue!vars
<1>1. CASE Publish
  <2>1. sent' = sent + 1 /\ UNCHANGED delivered /\ Writing
    BY <1>1 DEF Publish, readerVars, Writing
  <2>2. ASSUME NEW r \in Reader PROVE sent < Len(delivered[r]) + (MaxChunks + 1)
    <3>1. sent < Taken(r) + MaxChunks /\ sent \in Nat /\ MaxChunks \in Nat
      BY <2>1, TakenType, Sizes DEF IInv, Distance
    <3>2. Len(delivered[r]) \in Nat
      BY DEF IInv, TypeOK
    <3>3. Taken(r) \in Nat /\ Taken(r) <= Len(delivered[r]) + 1
      BY <3>2 DEF Taken
    <3>4. ASSUME NEW k \in Nat, NEW n \in Nat, NEW t \in Nat, NEW m \in Nat, m < t + k, t <= n + 1
          PROVE  m < n + (k + 1)
      BY <3>4
    <3> QED
      BY <3>1, <3>2, <3>3, <3>4
  <2> QED
    BY <2>1, <2>2 DEF Queue!Next, Queue!Put
<1>2. ASSUME NEW r \in Reader, MarkRead(r)
      PROVE  Queue!Next \/ UNCHANGED <<sent, delivered>>
  <2>1. sent' = sent /\ r_pc[r] = "mark"
    BY <1>2 DEF MarkRead, writerVars
  <2>2. Taken(r) = Len(delivered[r]) /\ Taken(r) < sent /\ obj[r] = Enc(Taken(r) + 1)
    BY <2>1 DEF Taken, IInv, ReaderPhase
  <2>3. CASE obj[r] = Overflow
    BY <1>2, <2>1, <2>3 DEF MarkRead
  <2>4. CASE obj[r] # Overflow
    <3>1. obj[r] = Len(delivered[r]) + 1
      BY <2>2, <2>4 DEF Enc
    <3>2. delivered' = [delivered EXCEPT ![r] = Append(delivered[r], Len(delivered[r]) + 1)]
      BY <1>2, <2>4, <3>1 DEF MarkRead
    <3>3. Queue!Get(r)
      BY <2>1, <2>2, <3>2 DEF Queue!Get
    <3> QED
      BY <3>3 DEF Queue!Next
  <2> QED
    BY <2>3, <2>4
<1>3. ASSUME NEW r \in Reader, RecvLarge(r) PROVE Queue!Next
  <2>1. Head(socket[r]) = Len(delivered[r]) + 1 /\ Len(delivered[r]) < sent
    BY <1>3, RecvLargeStep
  <2>2. /\ sent' = sent
        /\ delivered' = [delivered EXCEPT ![r] = Append(delivered[r], Len(delivered[r]) + 1)]
    BY <1>3, <2>1 DEF RecvLarge, writerVars
  <2>3. Queue!Get(r)
    BY <2>1, <2>2 DEF Queue!Get
  <2> QED
    BY <2>3 DEF Queue!Next
<1>4. CASE Enqueue \/ WriteTimeout \/ AcquireWrite \/ Fill \/ ResetReadFlag \/ SendLarge \/ Notify
  BY <1>4 DEF Enqueue, WriteTimeout, AcquireWrite, Fill, ResetReadFlag, SendLarge, Notify, readerVars
<1>5. ASSUME NEW r \in Reader,
             \/ Dequeue(r) \/ CheckReadFlag(r) \/ CheckWrittenFlag(r) \/ Spin(r) \/ WakeUp(r)
             \/ Copy(r) \/ Shutdown(r) \/ Cancel(r)
      PROVE  UNCHANGED <<sent, delivered>>
  BY <1>5 DEF Dequeue, CheckReadFlag, CheckWrittenFlag, Spin, WakeUp, Copy, Shutdown, Cancel,
              writerVars, readerVars
<1>6. CASE UNCHANGED vars
  BY <1>6 DEF vars, writerVars, readerVars
<1> QED
  BY <1>1, <1>2, <1>3, <1>4, <1>5, <1>6 DEF Next, Writer, ReaderStep

\* MessageQueue is a broadcast queue: every reader dequeues every object once, whole and
\* in order, and the writer is at most max_chunks + 1 objects ahead of a reader.
THEOREM RingImplementsQueue == Spec => ImplementsQueue
<1>1. Init => Queue!Init
  BY DEF Init, Queue!Init
<1>2. IInv /\ [Next]_vars => [Queue!Next]_(Queue!vars)
  BY QueueStep
<1> QED
  BY <1>1, <1>2, InductiveInvariant, PTL DEF Spec, ImplementsQueue, Queue!Spec
==============================================================================
