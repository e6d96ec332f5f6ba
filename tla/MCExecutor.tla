------------------------------ MODULE MCExecutor ------------------------------
(* Two workers, the second of which is the output rank (two pipeline stages). *)
EXTENDS MultiprocExecutor
==============================================================================
