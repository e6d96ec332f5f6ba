----------------------------- MODULE MCKVCacheAbs -----------------------------
(* KVCache with two requests that share their first block's content.          *)
EXTENDS KVCache, TLC

CONSTANTS r1, r2, h1, h2, h3

MCBlockHash == r1 :> <<h1, h2>> @@ r2 :> <<h1, h3>>

Symmetry == Permutations(Block)
==============================================================================
