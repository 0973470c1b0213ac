---------------------------- MODULE MCPercpuRef -----------------------------
(* Small instances of PercpuRef for TLC. *)
EXTENDS PercpuRef, TLC

RefSymmetry == Permutations(Users) \cup Permutations(CPUs)
=============================================================================
