----------------------------- MODULE MC_Collector ----------------------------
(* Two interchangeable endpoints over a channel of one slot. *)
EXTENDS Collector, TLC

Symmetry == Permutations(Ids)
=============================================================================
