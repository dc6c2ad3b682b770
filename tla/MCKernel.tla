------------------------------ MODULE MCKernel ------------------------------
(* Constants of the TLC runs of Kernel that a .cfg cannot write. *)
EXTENDS KernelProps

UnaInstancia == [r \in Recursos |-> 1]
DosInstancias == [r \in Recursos |-> 2]
=============================================================================
