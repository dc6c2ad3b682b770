---------------------------- MODULE ExitProceso -----------------------------
(***************************************************************************)
(* memoria_finalizar_proceso (exit_proceso.c): the thread that gives       *)
(* back the resources of a finalized process and frees it.                 *)
(***************************************************************************)
EXTENDS KernelEstado

FinCheck(p) ==
    /\ fin[p] = "check" /\ check_plani
    /\ fin' = [fin EXCEPT ![p] = "libera"]
    /\ UNCHANGED <<colaVars, multiVars, pcbVars, recVars, ioVars, despierta,
                   fueraHilos>>

\* One entry of the list: the unit goes back and its first waiter is taken.
FinLibera(p) ==
    /\ fin[p] = "libera"
    /\ \E r \in Recursos :
        /\ recursos[p][r] > 0
        /\ recursos' = [recursos EXCEPT ![p][r] = @ - 1]
        /\ LiberaInstancia(p, r)
        /\ despierta' = [despierta EXCEPT ![p] = Despertado(r)]
        /\ fin' = [fin EXCEPT ![p] = IF Despertado(r) = Nadie THEN @ ELSE "despierta"]
    /\ UNCHANGED <<colaVars, multiVars, status, quantum, ioVars, fueraHilos>>

FinDespierta(p) ==
    /\ fin[p] = "despierta"
    /\ PushReady(despierta[p], TienePrioridad(despierta[p]))
    /\ despierta' = [despierta EXCEPT ![p] = Nadie]
    /\ fin' = [fin EXCEPT ![p] = "libera"]
    /\ UNCHANGED <<multiVars, recVars, ioVars, fueraHilos>>

\* END_PID goes to memoria and the PCB is freed.
FinLibre(p) ==
    /\ fin[p] = "libera" /\ (\A r \in Recursos : recursos[p][r] = 0)
    /\ fin' = [fin EXCEPT ![p] = "hecho"]
    /\ UNCHANGED <<colaVars, multiVars, pcbVars, recVars, ioVars, despierta,
                   fueraHilos>>

Fin(p) == FinCheck(p) \/ FinLibera(p) \/ FinDespierta(p) \/ FinLibre(p)

=============================================================================
