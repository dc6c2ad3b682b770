---------------------------- MODULE MCConexiones ----------------------------
(* Strings of the TLC runs of Conexiones: two of different length.  *)
EXTENDS Conexiones

MCLargo == [s \in Cadenas |-> IF s = "a" THEN 2 ELSE 5]
=============================================================================
