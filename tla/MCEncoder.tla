------------------------------ MODULE MCEncoder ------------------------------
(* Three requests over three images in a cache that holds one large or two    *)
(* small ones at a time; r1 shows the same image twice.  And, for the priority*)
(* policy, two requests that show the same image.                             *)
EXTENDS EncoderScheduling

CONSTANTS r1, r2, r3, a, b, c

MCEmbeds == a :> 1 @@ b :> 1 @@ c :> 2

Item(h, start) == [hash |-> h, start |-> start, len |-> MCEmbeds[h]]

MCItems == r1 :> <<Item(a, 0), Item(b, 1), Item(a, 3)>> @@ r2 :> <<Item(c, 1)>>
               @@ r3 :> <<Item(b, 0), Item(c, 1)>>

MCPromptLen == r1 :> 4 @@ r2 :> 3 @@ r3 :> 4

-----------------------------------------------------------------------------
MCSharedItems == r1 :> <<Item(a, 2)>> @@ r2 :> <<Item(a, 1)>>

MCSharedPromptLen == r1 :> 3 @@ r2 :> 2

\* Of the executions under the priority policy, those where r2 is more urgent than
\* r1 and arrives when r1 runs: running requests are visited in the order of their
\* admission, one is admitted in a step, and the first is preempted.
Earlier(r) == IF r = r2 THEN {r1} ELSE {}

UrgentNext ==
    \/ \E r \in Request :
          \/ \E n \in 1 .. MaxChunk :
                \/ VisitRunning(r, n) /\ Earlier(r) \cap running \subseteq Scheduled
                \/ /\ VisitWaiting(r, 0, n)
                   /\ pc # "waiting" /\ running \subseteq Earlier(r) \cap Scheduled
          \/ Preempt(r) /\ Earlier(r) \cap running = {}
          \/ Finish(r)
    \/ Place \/ RefuseWaiting
    \/ Submit /\ (pc = "end" \/ running \subseteq Scheduled)

UrgentSpec == Init /\ [][UrgentNext]_vars
==============================================================================
