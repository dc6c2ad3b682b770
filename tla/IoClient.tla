------------------------------ MODULE IoClient ------------------------------
(***************************************************************************)
(* io_client (io.c): the thread of each connected interface.  The          *)
(* interface is the environment.                                           *)
(***************************************************************************)
EXTENDS KernelEstado

\* A reconnection gets a new t_io_client; while another thread still holds
\* the old one the reconnection waits (bound: what that thread does with
\* the destroyed queue is the same with or without the new one).
SostieneCliente(i) ==
    \/ corto = "encola_io" /\ mensaje.nombre = i
    \/ consola \in {"ios", "wait_io"} /\ i \in por_ver

IoRegistra(i) ==
    /\ io[i] = "no" /\ ~SostieneCliente(i)
    /\ io' = [io EXCEPT ![i] = "espera"]
    /\ hay_io' = [hay_io EXCEPT ![i] = 0]
    /\ UNCHANGED <<colaVars, multiVars, pcbVars, recVars, queue_io, io_pcb,
                   perdidos, finVars, fueraHilos>>

IoEspera(i) ==
    /\ io[i] = "espera" /\ hay_io[i] > 0
    /\ hay_io' = [hay_io EXCEPT ![i] = @ - 1]
    /\ io' = [io EXCEPT ![i] = "check"]
    /\ UNCHANGED <<colaVars, multiVars, pcbVars, recVars, queue_io, io_pcb,
                   perdidos, finVars, fueraHilos>>

\* check_plani, before taking a request and after its answer.
IoCheck(i) ==
    /\ io[i] = "check" /\ check_plani
    /\ io' = [io EXCEPT ![i] = "pop"]
    /\ UNCHANGED <<colaVars, multiVars, pcbVars, recVars, queue_io, hay_io,
                   io_pcb, perdidos, finVars, fueraHilos>>

\* Mutant: the last request is taken first.
Mut_IoPop(i) ==
    /\ io[i] = "pop" /\ queue_io[i] # <<>>
    /\ io_pcb' = [io_pcb EXCEPT ![i] = Last(queue_io[i])]
    /\ queue_io' = [queue_io EXCEPT ![i] = Front(@)]
    /\ io' = [io EXCEPT ![i] = "servir"]
    /\ UNCHANGED <<colaVars, multiVars, pcbVars, recVars, hay_io, perdidos,
                   finVars, fueraHilos>>
IoPop(i) ==
    /\ io[i] = "pop" /\ queue_io[i] # <<>>
    /\ io_pcb' = [io_pcb EXCEPT ![i] = Head(queue_io[i])]
    /\ queue_io' = [queue_io EXCEPT ![i] = Tail(@)]
    /\ io' = [io EXCEPT ![i] = "servir"]
    /\ UNCHANGED <<colaVars, multiVars, pcbVars, recVars, hay_io, perdidos,
                   finVars, fueraHilos>>

IoPopVacia(i) ==
    /\ io[i] = "pop" /\ queue_io[i] = <<>>
    /\ Cae("io_vacia")

\* The interface answers (what it answered is looked at after check_plani).
IoResponde(i) ==
    /\ io[i] = "servir"
    /\ io' = [io EXCEPT ![i] = "check_io"]
    /\ UNCHANGED <<colaVars, multiVars, pcbVars, recVars, queue_io, hay_io,
                   io_pcb, perdidos, finVars, fueraHilos>>

IoExito(i) ==
    /\ io[i] = "check_io" /\ check_plani /\ "IO_SUCCESS" \in RespuestasIO
    /\ PushReady(io_pcb[i], TienePrioridad(io_pcb[i]))
    /\ io_pcb' = [io_pcb EXCEPT ![i] = Nadie]
    /\ io' = [io EXCEPT ![i] = "espera"]
    /\ UNCHANGED <<multiVars, recVars, queue_io, hay_io, perdidos, finVars,
                   fueraHilos>>

\* IO_ERROR, or the connection is gone: the process ends; in the second
\* case the thread leaves its loop.
IoFalla(i, respuesta) ==
    /\ io[i] = "check_io" /\ check_plani /\ respuesta \in RespuestasIO
    /\ FinalizarProceso(io_pcb[i])
    /\ io_pcb' = [io_pcb EXCEPT ![i] = Nadie]
    /\ io' = [io EXCEPT ![i] = IF respuesta = "DESCONEXION" THEN "desconecta" ELSE "espera"]
    /\ UNCHANGED <<colaVars, recVars, queue_io, hay_io, perdidos, fueraHilos>>

\* dictionary_remove and queue_destroy: the requests still queued are lost.
IoDesconecta(i) ==
    /\ io[i] = "desconecta"
    /\ perdidos' = perdidos \cup ToSet(queue_io[i])
    /\ queue_io' = [queue_io EXCEPT ![i] = <<>>]
    /\ io' = [io EXCEPT ![i] = "no"]
    /\ UNCHANGED <<colaVars, multiVars, pcbVars, recVars, hay_io, io_pcb,
                   finVars, fueraHilos>>

IoTrabaja(i) ==
    \/ IoEspera(i) \/ IoCheck(i) \/ IoPop(i) \/ IoPopVacia(i) \/ IoExito(i)
    \/ \E r \in {"IO_ERROR", "DESCONEXION"} : IoFalla(i, r)
    \/ IoDesconecta(i)

Io(i) == IoRegistra(i) \/ IoResponde(i) \/ IoTrabaja(i)

=============================================================================
