---------------------------- MODULE MC_VdecInput ----------------------------
(* Small instances of VdecInput. *)
EXTENDS VdecInput, TLC

Sym == Permutations(Blocks) \cup Permutations(Chunks)
=============================================================================
