-------------------------- MODULE MC_ModelRegistry --------------------------
(* Instances of ModelRegistry for TLC. *)
EXTENDS ModelRegistry, TLC

MCSymmetry == Permutations(Clients) \cup Permutations(Requests) \cup Permutations(Listers)
=============================================================================
