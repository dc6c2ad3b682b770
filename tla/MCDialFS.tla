------------------------------ MODULE MCDialFS ------------------------------
(* Symmetry of the TLC runs of DialFS: the names of the files; and the     *)
(* sizes of a run with negative ones.                                      *)
EXTENDS DialFS, TLC

MCTamanios == {-1, 0, 3}
Simetria == Permutations(Archivos)
=============================================================================
