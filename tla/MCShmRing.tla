------------------------------ MODULE MCShmRing ------------------------------
(* Two readers and a ring of two chunks of which the first is used twice: for *)
(* two objects that fit, or for two that do not.                              *)
EXTENDS ShmRingBuffer

MCLargeChoices == {{2}, {1, 3}}
==============================================================================
