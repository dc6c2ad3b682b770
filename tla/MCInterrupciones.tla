-------------------------- MODULE MCInterrupciones --------------------------
(* The processes are model values in the .cfg; they are alike. *)
EXTENDS Interrupciones, TLC

Simetria == Permutations(Procesos)
=============================================================================
