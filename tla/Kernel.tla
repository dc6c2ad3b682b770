------------------------------- MODULE Kernel -------------------------------
(***************************************************************************)
(* The kernel process: its schedulers, exit threads, interface threads and *)
(* console, interleaved.  The CPU and the interfaces are the environment.  *)
(***************************************************************************)
EXTENDS LargoPlazo, CortoPlazo, ExitProceso, IoClient, Consola

Next ==
    /\ caido = "no"
    /\ \/ Largo \/ Corto \/ CpuResponde \/ MultiChangeWaits
       \/ Comando \/ ConsolaSigue
       \/ \E p \in Pids : Fin(p)
       \/ \E i \in Interfaces : Io(i)

Spec == Init /\ [][Next]_vars

=============================================================================
