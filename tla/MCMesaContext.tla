---------------------------- MODULE MCMesaContext ----------------------------
(* Contexts for TLC: the host's contexts are interchangeable. *)
EXTENDS MesaContext, TLC

MCSym == Permutations(Id)
=============================================================================
