---------------------------- MODULE MCMulticore ----------------------------
(* Multicore.tla with the constants of one small instance. *)
EXTENDS MulticoreInvariant
=============================================================================
