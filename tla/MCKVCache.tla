------------------------------ MODULE MCKVCache ------------------------------
(* Small instances of KVCacheClient over blocks of two tokens.  r1 and r2     *)
(* share a prompt and diverge in their output; r3 shares r1's first block.    *)
EXTENDS KVCacheClient

CONSTANTS r1, r2, r3

MCText ==
    Restrict(r1 :> <<1, 1, 1, 1, 1>> @@ r2 :> <<1, 1, 1, 1, 2>> @@ r3 :> <<1, 1, 2>>, Request)

MCPromptLen == Restrict(r1 :> 4 @@ r2 :> 3 @@ r3 :> 2, Request)
==============================================================================
