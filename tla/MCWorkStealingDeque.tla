------------------------ MODULE MCWorkStealingDeque ------------------------
(* Small instances of WorkStealingDeque for TLC. *)
EXTENDS WorkStealingDeque, TLC

ThievesSymmetry == Permutations(Thieves)
=============================================================================
