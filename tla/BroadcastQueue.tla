---------------------------- MODULE BroadcastQueue ----------------------------
(* What shm_broadcast.MessageQueue promises its users: one writer, several     *)
(* readers, and every reader dequeues every object once and in the order of    *)
(* enqueue().  The n-th object enqueued is modelled by the number n.           *)
EXTENDS Naturals, Sequences

CONSTANTS
    Readers,   \* the reader processes
    Slots      \* objects that may be enqueued and not yet dequeued by a reader

VARIABLES
    sent,      \* number of objects enqueued
    delivered  \* delivered[r]: the objects reader r has dequeued

vars == <<sent, delivered>>

Init == sent = 0 /\ delivered = [r \in Readers |-> <<>>]

\* enqueue() waits for the slowest reader.
Put ==
    /\ \A r \in Readers : sent < Len(delivered[r]) + Slots
    /\ sent' = sent + 1
    /\ UNCHANGED delivered

\* dequeue() returns the object after the last one.
Get(r) ==
    /\ Len(delivered[r]) < sent
    /\ delivered' = [delivered EXCEPT ![r] = Append(@, Len(@) + 1)]
    /\ UNCHANGED sent

Next == Put \/ \E r \in Readers : Get(r)

Spec == Init /\ [][Next]_vars
==============================================================================
