---------------------------- MODULE MCOffloading ----------------------------
(* A small instance of KVOffloading over blocks of two tokens.  r1 and r2 share *)
(* their first block, which is offloaded at the start together with the second *)
(* block of r1; not all requests fit into the GPU at once.                     *)
EXTENDS KVOffloading

CONSTANTS r1, r2, r3

MCText == r1 :> <<1, 1, 1, 1, 1, 1>> @@ r2 :> <<1, 1, 2, 2, 2>> @@ r3 :> <<3, 3, 3, 3>>

MCPromptLen == r1 :> 4 @@ r2 :> 3 @@ r3 :> 2

MCWarm == <<<<1, 1, 1, 1>>, <<1, 1>>>>
==============================================================================
