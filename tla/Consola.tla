------------------------------ MODULE Consola -------------------------------
(***************************************************************************)
(* The operator's console (consola.c).  FINALIZAR_PROCESO searches the     *)
(* queues one after the other, and the process may move in between.        *)
(***************************************************************************)
EXTENDS KernelEstado

(* consola_main: the commands without a wait.                              *)

\* INICIAR_PROCESO, once memoria has accepted the file; a rejected one
\* changes nothing.  A script is a sequence of them.
EnviarNew ==
    /\ consola = "lista" /\ next_pid < MaxPid
    /\ queue_new' = Append(queue_new, next_pid)
    /\ hay_new' = hay_new + 1
    /\ next_pid' = next_pid + 1
    /\ UNCHANGED <<queue_ready, queue_priority_ready, hay_ready, multiVars,
                   pcbVars, recVars, ioVars, finVars, fueraConsola, consola,
                   pid_fin, por_ver, matar>>

DetenerPlanificacion ==
    /\ consola = "lista" /\ "DETENER" \in Comandos
    /\ plani_run = 1
    /\ plani_run' = 0 /\ despachos' = 0
    /\ UNCHANGED <<datos, cortoVars, consVars, largo, caido>>

IniciarPlanificacion ==
    /\ consola = "lista" /\ plani_run = 0
    /\ plani_run' = 1 /\ despachos' = 0
    /\ UNCHANGED <<datos, cortoVars, consVars, largo, caido>>

\* Raising the degree posts the difference at once; lowering it leaves the
\* P()s to a detached thread.
CambiarMultiprogramacion(n) ==
    /\ consola = "lista" /\ "MULTIPROGRAMACION" \in Comandos
    /\ n # multiprogramacion
    /\ esperas + multiprogramacion - n <= MaxEsperas
    /\ multiprogramacion' = n
    /\ IF n > multiprogramacion
       THEN /\ cont_multi' = cont_multi + (n - multiprogramacion)
            /\ UNCHANGED esperas
       ELSE /\ esperas' = esperas + (multiprogramacion - n)
            /\ UNCHANGED cont_multi
    /\ UNCHANGED <<colaVars, pcbVars, recVars, ioVars, finVars, fueraHilos>>

\* Mutant: the decrement does not wait for a free slot.
Mut_MultiChangeWaits ==
    /\ esperas > 0
    /\ esperas' = esperas - 1
    /\ UNCHANGED <<colaVars, cont_multi, multiprogramacion, pcbVars, recVars,
                   ioVars, finVars, consVars, fueraConsola>>
\* multi_change_waits: one P(cont_multi) of some waiting thread.
MultiChangeWaits ==
    /\ esperas > 0 /\ cont_multi > 0
    /\ esperas' = esperas - 1 /\ cont_multi' = cont_multi - 1
    /\ UNCHANGED <<colaVars, multiprogramacion, pcbVars, recVars, ioVars,
                   finVars, fueraHilos>>

-----------------------------------------------------------------------------
(* finalizar_pid.  The process may move between the searches.              *)

FinalizarPid(p) ==
    /\ consola = "lista" /\ "FINALIZAR" \in Comandos /\ p < next_pid
    /\ pid_fin' = p
    /\ consola' = IF p = running_pid THEN "interrumpe" ELSE "ready"
    /\ UNCHANGED <<datos, fueraConsola, por_ver, consRegs>>

\* running_pid is read again: the interrupt names whoever runs now.
ConsolaInterrumpe ==
    /\ consola = "interrumpe"
    /\ matar' = (matar \/ running_pid # Nadie)
    /\ consola' = "lista" /\ pid_fin' = Nadie
    /\ UNCHANGED <<datos, fueraConsola, por_ver, next_pid>>

\* Found in a ready queue: removed and finalized; hay_ready is taken after.
ConsolaQuitaReady ==
    /\ consola = "ready"
    /\ \/ /\ \E k \in DOMAIN queue_ready :
                /\ queue_ready[k] = pid_fin
                /\ queue_ready' = RemoveAt(queue_ready, k)
          /\ UNCHANGED queue_priority_ready
       \/ /\ ~Contains(queue_ready, pid_fin)
          /\ \E k \in DOMAIN queue_priority_ready :
                /\ queue_priority_ready[k] = pid_fin
                /\ queue_priority_ready' = RemoveAt(queue_priority_ready, k)
          /\ UNCHANGED queue_ready
    /\ FinalizarProceso(pid_fin)
    /\ consola' = "wait_ready"
    /\ UNCHANGED <<queue_new, hay_new, hay_ready, recVars, ioVars,
                   fueraConsola, pid_fin, por_ver, consRegs>>

\* Mutant: the token of the removed process is left in hay_ready.
Mut_ConsolaEsperaReady ==
    /\ consola = "wait_ready"
    /\ consola' = "lista" /\ pid_fin' = Nadie
    /\ UNCHANGED <<datos, por_ver, consRegs, fueraConsola>>
ConsolaEsperaReady ==
    /\ consola = "wait_ready" /\ hay_ready > 0
    /\ hay_ready' = hay_ready - 1
    /\ consola' = "lista" /\ pid_fin' = Nadie
    /\ UNCHANGED <<queue_new, queue_ready, queue_priority_ready, hay_new,
                   multiVars, pcbVars, recVars, ioVars, finVars, fueraConsola,
                   por_ver, consRegs>>

ConsolaNoEnReady ==
    /\ consola = "ready"
    /\ ~Contains(queue_ready, pid_fin) /\ ~Contains(queue_priority_ready, pid_fin)
    /\ consola' = "recursos" /\ por_ver' = Recursos
    /\ UNCHANGED <<datos, fueraConsola, pid_fin, consRegs>>

\* Found waiting for r: its decrement is undone.
ConsolaQuitaEspera(r) ==
    /\ consola = "recursos" /\ r \in por_ver
    /\ \E k \in DOMAIN queue_waiting[r] :
        /\ queue_waiting[r][k] = pid_fin
        /\ queue_waiting' = [queue_waiting EXCEPT ![r] = RemoveAt(@, k)]
    /\ cant_instancias' = [cant_instancias EXCEPT ![r] = @ + 1]
    /\ FinalizarProceso(pid_fin)
    /\ consola' = "lista" /\ pid_fin' = Nadie /\ por_ver' = {}
    /\ UNCHANGED <<colaVars, tiene, extra, ioVars, fueraConsola, consRegs>>

ConsolaNoEspera(r) ==
    /\ consola = "recursos" /\ r \in por_ver
    /\ ~Contains(queue_waiting[r], pid_fin)
    /\ por_ver' = por_ver \ {r}
    /\ UNCHANGED <<datos, fueraConsola, consola, pid_fin, consRegs>>

\* dictionary_elements: the interfaces connected now.
ConsolaMiraIos ==
    /\ consola = "recursos" /\ por_ver = {}
    /\ consola' = "ios"
    /\ por_ver' = {i \in Interfaces : io[i] # "no"}
    /\ UNCHANGED <<datos, fueraConsola, pid_fin, consRegs>>

\* Found queued at i: removed; finalized only after hay_io is taken.
ConsolaQuitaIo(i) ==
    /\ consola = "ios" /\ i \in por_ver /\ io[i] # "no"
    /\ \E k \in DOMAIN queue_io[i] :
        /\ queue_io[i][k] = pid_fin
        /\ queue_io' = [queue_io EXCEPT ![i] = RemoveAt(@, k)]
    /\ consola' = "wait_io" /\ por_ver' = {i}
    /\ UNCHANGED <<colaVars, multiVars, pcbVars, recVars, hay_io, io, io_pcb,
                   perdidos, finVars, fueraConsola, pid_fin, consRegs>>

ConsolaEsperaIo(i) ==
    /\ consola = "wait_io" /\ i \in por_ver /\ hay_io[i] > 0
    /\ hay_io' = [hay_io EXCEPT ![i] = @ - 1]
    /\ FinalizarProceso(pid_fin)
    /\ consola' = "lista" /\ pid_fin' = Nadie /\ por_ver' = {}
    /\ UNCHANGED <<colaVars, recVars, queue_io, io, io_pcb, perdidos,
                   fueraConsola, consRegs>>

ConsolaNoIo(i) ==
    /\ consola = "ios" /\ i \in por_ver /\ io[i] # "no"
    /\ ~Contains(queue_io[i], pid_fin)
    /\ por_ver' = por_ver \ {i}
    /\ UNCHANGED <<datos, fueraConsola, consola, pid_fin, consRegs>>

\* The queue of i was destroyed after dictionary_elements.
ConsolaIoDestruida(i) ==
    /\ consola = "ios" /\ i \in por_ver /\ io[i] = "no"
    /\ Cae("io_destruida")

\* "no existe o no se pudo finalizar"
ConsolaNoExiste ==
    /\ consola = "ios" /\ por_ver = {}
    /\ consola' = "lista" /\ pid_fin' = Nadie
    /\ UNCHANGED <<datos, fueraConsola, por_ver, consRegs>>

Comando ==
    \/ EnviarNew \/ DetenerPlanificacion \/ IniciarPlanificacion
    \/ \E n \in Grados : CambiarMultiprogramacion(n)
    \/ \E p \in Pids : FinalizarPid(p)

\* The rest of a command already typed.
ConsolaSigue ==
    \/ ConsolaInterrumpe \/ ConsolaQuitaReady \/ ConsolaEsperaReady
    \/ ConsolaNoEnReady \/ ConsolaMiraIos \/ ConsolaNoExiste
    \/ \E r \in Recursos : ConsolaQuitaEspera(r) \/ ConsolaNoEspera(r)
    \/ \E i \in Interfaces : ConsolaQuitaIo(i) \/ ConsolaEsperaIo(i)
                             \/ ConsolaNoIo(i) \/ ConsolaIoDestruida(i)

=============================================================================
