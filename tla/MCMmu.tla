------------------------------- MODULE MCMmu -------------------------------
(* Symmetry of the TLC runs of Mmu: the processes.  *)
EXTENDS Mmu, TLC

Simetria == Permutations(Pids)
=============================================================================
