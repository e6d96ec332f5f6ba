---------------------------- MODULE ShmRingBuffer ----------------------------
(* The shared-memory broadcast queue between the executor and its workers     *)
(* (vllm/distributed/device_communicators/shm_broadcast.py): a ring of chunks *)
(* with one written flag and one read flag per reader, no lock, a socket for  *)
(* objects larger than a chunk, and a notification socket (SpinCondition)     *)
(* that wakes readers which stopped spinning.                                 *)
(*                                                                            *)
(* Each access to a shared flag is a step of its own; only a poll that        *)
(* succeeds goes with the step after it, as nobody else can undo what it saw. *)
(* The fences in the code make the accesses sequentially consistent.  The     *)
(* n-th object is modelled by the number n.  A reader blocks in               *)
(* dequeue(indefinite=True), as the workers do; remote readers, which only    *)
(* use a socket, are left out.  A local variable of the code is reset when it *)
(* goes out of scope.                                                         *)
EXTENDS Integers, Sequences, FiniteSets

CONSTANTS
    NReader,       \* n_reader
    MaxChunks,     \* max_chunks
    MaxMessages,   \* bound on the number of objects enqueued
    LargeChoices,  \* the sets of objects that may be larger than a chunk
    Stoppable      \* the readers another thread may shut down

ASSUME RingAssumption ==
    /\ {NReader, MaxChunks, MaxMessages} \subseteq Nat \ {0}
    /\ \A L \in LargeChoices : L \subseteq 1 .. MaxMessages
    /\ Stoppable \subseteq 0 .. (NReader - 1)

Reader == 0 .. (NReader - 1)
Chunk == 0 .. (MaxChunks - 1)
Message == 1 .. MaxMessages

VARIABLES
    large,         \* the objects too large for a chunk
    written_flag,  \* metadata_buffer[0] of each chunk
    read_flag,     \* metadata_buffer[1 + r] of each chunk
    data,          \* what each chunk holds
    sent,          \* number of objects published
    w_pc,          \* where the writer is in enqueue()
    w_idx,         \* the writer's current_idx
    rank,          \* the reader whose flag the writer resets next
    r_pc,          \* where each reader is in dequeue()
    r_idx,         \* each reader's current_idx
    seen_flag,     \* the read flag a reader has just read
    obj,           \* what a reader found in the chunk
    delivered,     \* the objects each reader has dequeued
    socket,        \* large objects on their way to each reader
    ping,          \* an unread notification for each reader
    shutting_down, \* set by shutdown()
    cancelled      \* the cancel socket is readable

writerVars == <<sent, w_pc, w_idx, rank>>
readerVars == <<r_pc, r_idx, seen_flag, obj, delivered>>
shared == <<written_flag, read_flag, data, socket, ping>>
stopVars == <<shutting_down, cancelled>>
vars == <<large, writerVars, readerVars, shared, stopVars>>

\* Contents of a chunk that are no object: half-written bytes, the overflow mark.
Torn == -1
Overflow == 0

Init ==
    /\ large \in LargeChoices
    /\ written_flag = [c \in Chunk |-> FALSE]
    /\ read_flag = [c \in Chunk |-> [r \in Reader |-> FALSE]]
    /\ data = [c \in Chunk |-> Torn]
    /\ sent = 0 /\ w_pc = "idle" /\ w_idx = 0 /\ rank = 0
    /\ r_pc = [r \in Reader |-> "out"]
    /\ r_idx = [r \in Reader |-> 0]
    /\ seen_flag = [r \in Reader |-> FALSE]
    /\ obj = [r \in Reader |-> Torn]
    /\ delivered = [r \in Reader |-> <<>>]
    /\ socket = [r \in Reader |-> <<>>]
    /\ ping = [r \in Reader |-> FALSE]
    /\ shutting_down = [r \in Reader |-> FALSE]
    /\ cancelled = [r \in Reader |-> FALSE]

NextIdx(i) == (i + 1) % MaxChunks

-----------------------------------------------------------------------------
(* The writer: enqueue() around acquire_write().                              *)

Enqueue ==
    /\ w_pc = "idle"
    /\ sent < MaxMessages
    /\ w_pc' = "poll"
    /\ UNCHANGED <<large, sent, w_idx, rank, readerVars, shared, stopVars>>

\* Mutant: one reader is enough.
ChunkBusyForAll ==
    written_flag[w_idx] /\ \A r \in Reader : ~read_flag[w_idx][r]

\* The chunk is written and some reader has not read it.
ChunkBusy == written_flag[w_idx] /\ \E r \in Reader : ~read_flag[w_idx][r]

\* TimeoutError: the object is not sent.
WriteTimeout ==
    /\ w_pc = "poll"
    /\ ChunkBusy
    /\ w_pc' = "idle"
    /\ UNCHANGED <<large, sent, w_idx, rank, readerVars, shared, stopVars>>

\* The chunk is marked as not written and the caller starts to fill it.
AcquireWrite ==
    /\ w_pc = "poll"
    /\ ~ChunkBusy
    /\ written_flag' = [written_flag EXCEPT ![w_idx] = FALSE]
    /\ data' = [data EXCEPT ![w_idx] = Torn]
    /\ w_pc' = "fill"
    /\ UNCHANGED <<large, sent, w_idx, rank, readerVars, read_flag, socket, ping, stopVars>>

Fill ==
    /\ w_pc = "fill"
    /\ data' = [data EXCEPT ![w_idx] = IF sent + 1 \in large THEN Overflow ELSE sent + 1]
    /\ w_pc' = "reset"
    /\ UNCHANGED <<large, sent, w_idx, rank, readerVars, written_flag, read_flag, socket, ping,
                   stopVars>>

\* The read flags are reset one by one.
ResetReadFlag ==
    /\ w_pc = "reset"
    /\ read_flag' = [read_flag EXCEPT ![w_idx][rank] = FALSE]
    /\ rank' = rank + 1
    /\ w_pc' = IF rank' = NReader THEN "publish" ELSE w_pc
    /\ UNCHANGED <<large, sent, w_idx, readerVars, written_flag, data, socket, ping,
                   stopVars>>

\* The written flag is set, which hands the chunk to the readers.
Publish ==
    /\ w_pc = "publish"
    /\ written_flag' = [written_flag EXCEPT ![w_idx] = TRUE]
    /\ w_idx' = NextIdx(w_idx)
    /\ sent' = sent + 1
    /\ rank' = 0
    /\ w_pc' = IF sent' \in large THEN "send" ELSE "notify"
    /\ UNCHANGED <<large, readerVars, read_flag, data, socket, ping, stopVars>>

\* Mutant: the object on the socket is taken for a notification.
SendWithoutNotify ==
    /\ w_pc = "send"
    /\ socket' = [r \in Reader |-> Append(socket[r], sent)]
    /\ w_pc' = "idle"
    /\ UNCHANGED <<large, sent, w_idx, rank, readerVars, written_flag, read_flag, data,
                   ping, stopVars>>

\* A large object follows on the socket.
SendLarge ==
    /\ w_pc = "send"
    /\ socket' = [r \in Reader |-> Append(socket[r], sent)]
    /\ w_pc' = "notify"
    /\ UNCHANGED <<large, sent, w_idx, rank, readerVars, written_flag, read_flag, data,
                   ping, stopVars>>

\* SpinCondition.notify(): a reader has at most one unread notification, as the
\* sockets keep only one.
Notify ==
    /\ w_pc = "notify"
    /\ ping' = [r \in Reader |-> TRUE]
    /\ w_pc' = "idle"
    /\ UNCHANGED <<large, sent, w_idx, rank, readerVars, written_flag, read_flag, data,
                   socket, stopVars>>

-----------------------------------------------------------------------------
(* A reader: dequeue() around acquire_read().                                 *)

Dequeue(r) ==
    /\ r_pc[r] = "out"
    /\ r_pc' = [r_pc EXCEPT ![r] = "check_read"]
    /\ UNCHANGED <<large, writerVars, r_idx, seen_flag, obj, delivered, shared, stopVars>>

\* Its own read flag first ...
CheckReadFlag(r) ==
    /\ r_pc[r] = "check_read"
    /\ seen_flag' = [seen_flag EXCEPT ![r] = read_flag[r_idx[r]][r]]
    /\ r_pc' = [r_pc EXCEPT ![r] = "check_written"]
    /\ UNCHANGED <<large, writerVars, r_idx, obj, delivered, shared, stopVars>>

\* ... and then the written flag.
CheckWrittenFlag(r) ==
    /\ r_pc[r] = "check_written"
    /\ r_pc' = [r_pc EXCEPT ![r] =
                  IF ~written_flag[r_idx[r]] \/ seen_flag[r] THEN "wait" ELSE "copy"]
    /\ seen_flag' = [seen_flag EXCEPT ![r] = FALSE]
    /\ UNCHANGED <<large, writerVars, r_idx, obj, delivered, shared, stopVars>>

AfterWait(r) == [r_pc EXCEPT ![r] = IF shutting_down[r] THEN "stopped" ELSE "check_read"]

\* SpinCondition.wait() returns at once after a recent read, or by a timeout.
Spin(r) ==
    /\ r_pc[r] = "wait"
    /\ r_pc' = AfterWait(r)
    /\ UNCHANGED <<large, writerVars, r_idx, seen_flag, obj, delivered, shared, stopVars>>

\* Mutant: only a notification wakes an idle reader.
WakeUpByNotify(r) ==
    /\ r_pc[r] = "wait"
    /\ ping[r]
    /\ ping' = [ping EXCEPT ![r] = FALSE]
    /\ r_pc' = AfterWait(r)
    /\ UNCHANGED <<large, writerVars, r_idx, seen_flag, obj, delivered, written_flag,
                   read_flag, data, socket, stopVars>>

\* SpinCondition.wait() in idle mode: a notification or a cancellation arrives.
\* The cancellation is looked at first and stays in its socket.
WakeUp(r) ==
    /\ r_pc[r] = "wait"
    /\ ping[r] \/ cancelled[r]
    /\ ping' = [ping EXCEPT ![r] = cancelled[r] /\ @]
    /\ r_pc' = AfterWait(r)
    /\ UNCHANGED <<large, writerVars, r_idx, seen_flag, obj, delivered, written_flag,
                   read_flag, data, socket, stopVars>>

\* Mutant: the chunk is marked as read before the object is loaded.
CopyAfterMark(r) ==
    LET marked == read_flag[r_idx[r]][r]
    IN  /\ r_pc[r] = "copy"
        /\ read_flag' = [read_flag EXCEPT ![r_idx[r]][r] = TRUE]
        /\ obj' = IF marked THEN [obj EXCEPT ![r] = data[r_idx[r]]] ELSE obj
        /\ r_pc' = IF marked THEN [r_pc EXCEPT ![r] = "mark"] ELSE r_pc
        /\ UNCHANGED <<large, writerVars, r_idx, seen_flag, delivered, written_flag, data,
                       socket, ping, stopVars>>

\* The caller loads the object from the chunk.
Copy(r) ==
    /\ r_pc[r] = "copy"
    /\ obj' = [obj EXCEPT ![r] = data[r_idx[r]]]
    /\ r_pc' = [r_pc EXCEPT ![r] = "mark"]
    /\ UNCHANGED <<large, writerVars, r_idx, seen_flag, delivered, shared, stopVars>>

\* The chunk is marked as read; what does not overflow is returned.
MarkRead(r) ==
    /\ r_pc[r] = "mark"
    /\ read_flag' = [read_flag EXCEPT ![r_idx[r]][r] = TRUE]
    /\ r_idx' = [r_idx EXCEPT ![r] = NextIdx(@)]
    /\ IF obj[r] = Overflow
       THEN /\ r_pc' = [r_pc EXCEPT ![r] = "recv"]
            /\ UNCHANGED delivered
       ELSE /\ r_pc' = [r_pc EXCEPT ![r] = "out"]
            /\ delivered' = [delivered EXCEPT ![r] = Append(@, obj[r])]
    /\ obj' = [obj EXCEPT ![r] = Torn]
    /\ UNCHANGED <<large, writerVars, seen_flag, written_flag, data, socket, ping,
                   stopVars>>

\* MessageQueue.recv(): the large object arrives on the socket.
RecvLarge(r) ==
    /\ r_pc[r] = "recv"
    /\ socket[r] # <<>>
    /\ delivered' = [delivered EXCEPT ![r] = Append(@, Head(socket[r]))]
    /\ socket' = [socket EXCEPT ![r] = Tail(@)]
    /\ r_pc' = [r_pc EXCEPT ![r] = "out"]
    /\ UNCHANGED <<large, writerVars, r_idx, seen_flag, obj, written_flag, read_flag, data,
                   ping, stopVars>>

-----------------------------------------------------------------------------
(* shutdown(), called by another thread of the reader's process.              *)

Shutdown(r) ==
    /\ r \in Stoppable
    /\ ~shutting_down[r]
    /\ shutting_down' = [shutting_down EXCEPT ![r] = TRUE]
    /\ UNCHANGED <<large, writerVars, readerVars, shared, cancelled>>

\* SpinCondition.cancel(), the second half of shutdown().
Cancel(r) ==
    /\ shutting_down[r]
    /\ ~cancelled[r]
    /\ cancelled' = [cancelled EXCEPT ![r] = TRUE]
    /\ UNCHANGED <<large, writerVars, readerVars, shared, shutting_down>>

-----------------------------------------------------------------------------
Writer ==
    \/ AcquireWrite \/ Fill \/ ResetReadFlag \/ Publish \/ SendLarge \/ Notify

ReaderStep(r) ==
    \/ Dequeue(r) \/ CheckReadFlag(r) \/ CheckWrittenFlag(r) \/ WakeUp(r)
    \/ Copy(r) \/ MarkRead(r) \/ RecvLarge(r)

Next ==
    \/ Enqueue \/ WriteTimeout \/ Writer
    \/ \E r \in Reader : ReaderStep(r) \/ Spin(r) \/ Shutdown(r) \/ Cancel(r)

Spec == Init /\ [][Next]_vars

\* Processes keep running and notifications arrive.  Nothing is assumed of
\* spinning: a reader may stay in idle mode until it is woken.
FairSpec ==
    /\ Spec
    /\ WF_vars(Writer)
    /\ \A r \in Reader : WF_vars(ReaderStep(r)) /\ WF_vars(Cancel(r))

-----------------------------------------------------------------------------
TypeOK ==
    /\ large \subseteq Message
    /\ written_flag \in [Chunk -> BOOLEAN]
    /\ read_flag \in [Chunk -> [Reader -> BOOLEAN]]
    /\ data \in [Chunk -> Message \cup {Torn, Overflow}]
    /\ sent \in 0 .. MaxMessages
    /\ w_pc \in {"idle", "poll", "fill", "reset", "publish", "send", "notify"}
    /\ w_idx \in Chunk
    /\ rank \in 0 .. NReader
    /\ r_pc \in [Reader -> {"out", "check_read", "check_written", "wait", "copy", "mark",
                            "recv", "stopped"}]
    /\ r_idx \in [Reader -> Chunk]
    /\ seen_flag \in [Reader -> BOOLEAN]
    /\ obj \in [Reader -> Message \cup {Torn, Overflow}]
    /\ delivered \in [Reader -> Seq(Message)]
    /\ socket \in [Reader -> Seq(Message)]
    /\ ping \in [Reader -> BOOLEAN]
    /\ shutting_down \in [Reader -> BOOLEAN] /\ cancelled \in [Reader -> BOOLEAN]

\* "Only after the caller finishes reading the block, the reader can mark the
\* block as read" (shm_broadcast.py:244): while a reader copies out of a chunk the
\* writer is not in it, though no lock keeps it out.
NoOverwriteWhileReading ==
    /\ TypeOK
    /\ \A r \in Reader :
          r_pc[r] \in {"copy", "mark"} /\ w_idx = r_idx[r]
              => w_pc \notin {"fill", "reset", "publish"}

\* The ring with its overflow socket is a broadcast queue: every reader dequeues
\* every object once, whole and in order, however the flag accesses interleave.
\* A reader marks the chunk of a large object before it receives the object, so
\* the writer can be one object further ahead than the ring has chunks.
Queue == INSTANCE BroadcastQueue WITH Readers <- Reader, Slots <- MaxChunks + 1

ImplementsQueue == Queue!Spec

\* No wake-up is lost: a published object reaches every reader that is not being
\* shut down, even one that has gone idle just before it was published.
EveryMessageDelivered ==
    \A r \in Reader : \A m \in Message :
        (sent >= m) ~> (Len(delivered[r]) >= m \/ shutting_down[r])

\* shutdown() ends a reader that is idle or goes idle later, also when the writer
\* never writes again.
ShutdownStops == \A r \in Reader : shutting_down[r] ~> r_pc[r] = "stopped"
==============================================================================
