------------------------------ MODULE MCDPWaves ------------------------------
(* Two engines and requests that a wave's end overtakes: one front end is     *)
(* enough, since what it knew when it sent a request travels with the request.*)
EXTENDS DPWaves

CONSTANT c1
==============================================================================
