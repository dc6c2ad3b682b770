----------------------------- MODULE CortoPlazo -----------------------------
(***************************************************************************)
(* The short-term scheduler (corto_plazo.c): dispatches a process, waits   *)
(* for the CPU, serves the IO, WAIT or SIGNAL that came with the PCB and   *)
(* routes the process.  The CPU is the environment: CpuResponde chooses    *)
(* what it sends back.                                                     *)
(***************************************************************************)
EXTENDS KernelEstado

(* corto_main: dispatch.                                                   *)

CortoEspera ==
    /\ corto = "espera" /\ hay_ready > 0
    /\ hay_ready' = hay_ready - 1
    /\ corto' = "check"
    /\ UNCHANGED <<queue_new, queue_ready, queue_priority_ready, hay_new,
                   multiVars, pcbVars, recVars, ioVars, finVars, cortoRegs,
                   fueraCorto>>

CortoCheck ==
    /\ corto = "check" /\ check_plani
    /\ corto' = "pop"
    /\ UNCHANGED <<datos, cortoRegs, fueraCorto>>

\* The next process to run: the priority queue first.
CortoPop ==
    /\ corto = "pop"
    /\ queue_priority_ready # <<>> \/ queue_ready # <<>>
    /\ LET conPrioridad == queue_priority_ready # <<>>
           p == IF conPrioridad THEN Head(queue_priority_ready) ELSE Head(queue_ready)
       IN
        /\ queue_priority_ready' = IF conPrioridad THEN Tail(queue_priority_ready)
                                                   ELSE queue_priority_ready
        /\ queue_ready' = IF conPrioridad THEN queue_ready ELSE Tail(queue_ready)
        /\ status' = [status EXCEPT ![p] = "RUNNING"]
        /\ pcb' = p /\ en_exec' = p
    /\ corto' = "despacho"
    /\ UNCHANGED <<queue_new, hay_new, hay_ready, multiVars, quantum, recursos,
                   recVars, ioVars, finVars, mensaje, a_ready, running_pid,
                   fueraCorto>>

\* queue_pop of an empty queue gives NULL, which cambio_estado dereferences.
CortoPopVacia ==
    /\ corto = "pop" /\ queue_priority_ready = <<>> /\ queue_ready = <<>>
    /\ Cae("cola_vacia")

\* running_pid is set and the PCB sent; the quantum thread starts.
CortoDespacho ==
    /\ corto = "despacho"
    /\ running_pid' = pcb
    /\ corto' = "cpu"
    /\ despachos' = IF plani_run = 0 THEN despachos + 1 ELSE despachos
    /\ UNCHANGED <<datos, pcb, mensaje, a_ready, en_exec, consVars, largo,
                   plani_run, caido>>

-----------------------------------------------------------------------------
(* The CPU: what cpu() may send back for process p.  END_PID_USER          *)
(* overrides the status of any instruction, INTERRUPT only RUNNING; WAIT,  *)
(* SIGNAL and IO go out before the interrupt is looked at.  The interrupt  *)
(* thread compares pids and sets has_interrupt in separate steps, so that  *)
(* once an END_PID_USER was sent it may hit any process that runs later.   *)
RespuestasCpu(p) ==
    LET kill == IF matar THEN {"TERMINATED_USER"} ELSE {}
        \* status of a PCB-only answer, by what ended the burst
        alFin(k) == CASE k = "EXIT" -> "TERMINATED"
                      [] k = "INTERRUPT" -> "RUNNING_QUANTUM"
                      [] OTHER -> k
        solos == Retornos \cap ({"EXIT", "ERROR", "ERROR_MEMORY"} \cup
                                IF Algoritmo = "FIFO" THEN {} ELSE {"INTERRUPT"})
        acotado(r) == r \notin Recursos \/ tiene[p][r] > 0 \/ extra[r] < MaxExtra
    IN
    [op : {"PCB"}, nombre : {""}, status : {alFin(k) : k \in solos} \cup kill]
    \cup (IF "IO" \in Retornos
          THEN [op : {"IO"}, nombre : Nombres(Interfaces), status : {"BLOCKED_IO"} \cup kill]
          ELSE {})
    \cup (IF "WAIT" \in Retornos
          THEN [op : {"WAIT"}, nombre : Nombres(Recursos), status : {"BLOCKED_WAIT"} \cup kill]
          ELSE {})
    \cup (IF "SIGNAL" \in Retornos
          THEN [op : {"SIGNAL"}, nombre : {r \in Nombres(Recursos) : acotado(r)},
                status : {"RUNNING_SIGNAL"} \cup kill]
          ELSE {})

CpuResponde ==
    /\ corto = "cpu"
    /\ \E m \in RespuestasCpu(pcb) :
        /\ mensaje' = m
        /\ status' = [status EXCEPT ![pcb] = m.status]
    /\ corto' = "check_exec"
    /\ UNCHANGED <<ajenoStatus, pcb, a_ready, running_pid, en_exec,
                   fueraCorto>>

-----------------------------------------------------------------------------
(* esperar_cpu: the request that came with the PCB.                        *)

CortoCheckExec ==
    /\ corto = "check_exec" /\ check_plani
    /\ corto' = IF mensaje.op = "PCB" THEN "cuenta" ELSE "atiende"
    /\ UNCHANGED <<datos, cortoRegs, fueraCorto>>

\* An unknown interface or resource ends the process.
AtiendeDesconocido ==
    /\ corto = "atiende"
    /\ \/ /\ mensaje.op = "IO"
          /\ mensaje.nombre \notin {i \in Interfaces : io[i] # "no"}
          /\ status' = [status EXCEPT ![pcb] = "ERROR_INTERFACE"]
       \/ /\ mensaje.op \in {"WAIT", "SIGNAL"} /\ mensaje.nombre \notin Recursos
          /\ status' = [status EXCEPT ![pcb] = "ERROR_RESOURCE"]
    /\ corto' = "cuenta"
    /\ UNCHANGED <<ajenoStatus, cortoRegs, fueraCorto>>

\* dictionary_has_key succeeds; the push comes later, without the lock.
AtiendeIo ==
    /\ corto = "atiende" /\ mensaje.op = "IO"
    /\ mensaje.nombre \in {i \in Interfaces : io[i] # "no"}
    /\ corto' = "encola_io"
    /\ status' = [status EXCEPT ![pcb] = "BLOCKED_IO"]
    /\ UNCHANGED <<ajenoStatus, cortoRegs, fueraCorto>>

EncolaIo ==
    /\ corto = "encola_io"
    /\ LET i == mensaje.nombre IN
        /\ io[i] # "no"
        /\ queue_io' = [queue_io EXCEPT ![i] = Append(@, pcb)]
        /\ hay_io' = [hay_io EXCEPT ![i] = @ + 1]
    /\ corto' = "cuenta"
    /\ en_exec' = Nadie
    /\ UNCHANGED <<colaVars, multiVars, pcbVars, recVars, io, io_pcb, perdidos,
                   finVars, pcb, mensaje, a_ready, running_pid, fueraCorto>>

\* The interface disconnected in between: its queue is destroyed.
EncolaIoDestruida ==
    /\ corto = "encola_io" /\ io[mensaje.nombre] = "no"
    /\ Cae("io_destruida")

\* Mutant: the comparison off by one.
Mut_Alcanza(r) == cant_instancias[r] - 1 >= -1
\* Whether a unit is left once cant_instancias -= 1.
Alcanza(r) == cant_instancias[r] - 1 >= 0

\* WAIT with a unit left: RUNNING, and the resource joins the list; with
\* none: the queue of the resource.
AtiendeWait ==
    /\ corto = "atiende" /\ mensaje.op = "WAIT" /\ mensaje.nombre \in Recursos
    /\ LET r == mensaje.nombre IN
        /\ cant_instancias' = [cant_instancias EXCEPT ![r] = @ - 1]
        /\ IF Alcanza(r)
           THEN /\ status' = [status EXCEPT ![pcb] = "RUNNING"]
                /\ recursos' = [recursos EXCEPT ![pcb][r] = @ + 1]
                /\ tiene' = [tiene EXCEPT ![pcb][r] = @ + 1]
                /\ corto' = "cuenta"
                /\ UNCHANGED <<queue_waiting, en_exec>>
           ELSE /\ queue_waiting' = [queue_waiting EXCEPT ![r] = Append(@, pcb)]
                /\ corto' = "bloquea"
                /\ en_exec' = Nadie
                /\ UNCHANGED <<status, recursos, tiene>>
    /\ UNCHANGED <<colaVars, multiVars, quantum, extra, ioVars, finVars, pcb,
                   mensaje, a_ready, running_pid, fueraCorto>>

\* Mutant: status = RUNNING without the cambio_estado that follows.
Mut_CortoBloquea ==
    /\ corto = "bloquea"
    /\ status' = [status EXCEPT ![pcb] = "RUNNING"]
    /\ corto' = "cuenta"
    /\ UNCHANGED <<ajenoStatus, cortoRegs, fueraCorto>>
\* The status of the blocked process is written after mutex_recurso is
\* released, when it may have been woken or finalized already.
CortoBloquea ==
    /\ corto = "bloquea"
    /\ status' = [status EXCEPT ![pcb] = "BLOCKED_WAIT"]
    /\ corto' = "cuenta"
    /\ UNCHANGED <<ajenoStatus, cortoRegs, fueraCorto>>

\* Mutant: the list is left as it is.
Mut_SinRecurso(lista, r) == lista
\* string_replace removes every "r," of the list.
SinRecurso(lista, r) == [lista EXCEPT ![r] = 0]

\* SIGNAL: the list is updated and the unit released, held or not.
AtiendeSignal ==
    /\ corto = "atiende" /\ mensaje.op = "SIGNAL" /\ mensaje.nombre \in Recursos
    /\ LET r == mensaje.nombre IN
        /\ recursos' = [recursos EXCEPT ![pcb] = SinRecurso(@, r)]
        /\ LiberaInstancia(pcb, r)
        /\ a_ready' = Despertado(r)
        /\ corto' = IF Despertado(r) = Nadie THEN "cuenta" ELSE "despierta"
    /\ UNCHANGED <<colaVars, multiVars, status, quantum, ioVars, finVars, pcb,
                   mensaje, running_pid, en_exec, fueraCorto>>

CortoDespierta ==
    /\ corto = "despierta"
    /\ PushReady(a_ready, TienePrioridad(a_ready))
    /\ a_ready' = Nadie
    /\ corto' = "cuenta"
    /\ UNCHANGED <<multiVars, recVars, ioVars, finVars, pcb, mensaje,
                   running_pid, en_exec, fueraCorto>>

-----------------------------------------------------------------------------
(* corto_main after esperar_cpu.  When the PCB was handed to an interface  *)
(* or to a resource the code still reads and writes it here.               *)

\* Mutant: a rest may leave another rest.
Mut_QuantumNuevo(p) ==
    IF Algoritmo # "VRR" THEN {quantum[p]} ELSE {"entero", "resto"}
\* What line 45 may leave in pcb->quantum: a fresh quantum is used up or
\* leaves a rest, a rest is always followed by a fresh quantum.
QuantumNuevo(p) ==
    IF Algoritmo # "VRR" THEN {quantum[p]}
    ELSE IF quantum[p] = "resto" THEN {"entero"} ELSE {"entero", "resto"}

CortoCuenta ==
    /\ corto = "cuenta"
    /\ \E q \in QuantumNuevo(pcb) : quantum' = [quantum EXCEPT ![pcb] = q]
    /\ corto' = "rutea"
    /\ UNCHANGED <<colaVars, multiVars, status, recursos, recVars, ioVars,
                   finVars, cortoRegs, fueraCorto>>

\* pcb->status as read now; of a PCB already freed, its old value or junk.
EstadoLeido(p) == {status[p]} \cup IF fin[p] = "hecho" THEN {"BASURA"} ELSE {}

RuteaFinal ==
    /\ corto = "rutea" /\ status[pcb] \in EstadosFinales /\ fin[pcb] = "no"
    /\ FinalizarProceso(pcb)
    /\ corto' = "vuelta"
    /\ en_exec' = Nadie
    /\ UNCHANGED <<colaVars, recVars, ioVars, pcb, mensaje, a_ready,
                   running_pid, fueraCorto>>

\* TERMINATED because someone else finalized the process meanwhile: a
\* second exit thread frees the same PCB.
RuteaDobleFin ==
    /\ corto = "rutea" /\ status[pcb] \in EstadosFinales /\ fin[pcb] # "no"
    /\ Cae("doble_fin")

RuteaReady ==
    /\ corto = "rutea" /\ status[pcb] \in EstadosListos
    /\ PushReady(pcb, \/ status[pcb] = "RUNNING" /\ TienePrioridad(pcb)
                      \/ status[pcb] = "RUNNING_SIGNAL")
    /\ corto' = "vuelta"
    /\ en_exec' = Nadie
    /\ UNCHANGED <<multiVars, recVars, ioVars, finVars, pcb, mensaje, a_ready,
                   running_pid, fueraCorto>>

\* No branch is taken: the process is somebody else's.
RuteaAjeno ==
    /\ corto = "rutea"
    /\ \E s \in EstadoLeido(pcb) : s \notin EstadosFinales \cup EstadosListos
    /\ corto' = "vuelta"
    /\ UNCHANGED <<datos, cortoRegs, fueraCorto>>

CortoVuelta ==
    /\ corto = "vuelta"
    /\ running_pid' = Nadie /\ pcb' = Nadie /\ mensaje' = SinMensaje
    /\ corto' = "espera"
    /\ UNCHANGED <<datos, a_ready, en_exec, fueraCorto>>

Corto ==
    \/ CortoEspera \/ CortoCheck \/ CortoPop \/ CortoPopVacia \/ CortoDespacho
    \/ CortoCheckExec \/ AtiendeDesconocido \/ AtiendeIo \/ EncolaIo
    \/ EncolaIoDestruida \/ AtiendeWait \/ CortoBloquea \/ AtiendeSignal
    \/ CortoDespierta \/ CortoCuenta \/ RuteaFinal \/ RuteaDobleFin \/ RuteaReady
    \/ RuteaAjeno \/ CortoVuelta

=============================================================================
