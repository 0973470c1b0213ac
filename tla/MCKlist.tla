------------------------------ MODULE MCKlist -------------------------------
(* Small instances of Klist for TLC. *)
EXTENDS Klist, TLC

KlistSymmetry == Permutations(Tasks) \cup Permutations(Nodes)
=============================================================================
