--------------------------- MODULE Interrupciones ---------------------------
(***************************************************************************)
(* The path of an interrupt: the timer of a burst (quantum.c) or the       *)
(* console (finalizar_pid) writes the one slot interrupt_pid, interrupt_   *)
(* main sends it, the CPU's interrupt thread compares it with the PCB and  *)
(* check_interrupt ends the burst.  The queues of the kernel are reduced   *)
(* to a state per process; Kernel has them in full.                        *)
(*                                                                         *)
(* An interrupt carries, as a ghost, what raised it (por): the process the *)
(* user named, or the number of the burst whose timer ran out.             *)
(***************************************************************************)
EXTENDS Integers, Sequences

CONSTANTS
    Procesos,     \* the processes, all ready at the start
    Nadie,        \* running_pid = -1, no process
    HayQuantum,   \* the algorithm is RR or VRR
    Resultados,   \* what an instruction may return, by pid_status
    MaxRafagas,   \* bound: bursts dispatched
    MaxPedidos    \* bound: kills asked of the console

ASSUME SupuestoRafagas == MaxRafagas \in Nat /\ MaxPedidos \in Nat
ASSUME SupuestoNadie == Nadie \notin Procesos
ASSUME SupuestoModo == HayQuantum \in BOOLEAN

VARIABLES
    \* kernel: corto_main and its timers
    corto, running_pid, estado, status, rafaga, timer, de,
    \* kernel: the slot, its semaphore, interrupt_main and the console
    interrupt_pid, hay_interrupt, interrupt_main, consola, pid_fin, npedidos,
    \* the three channels
    dispatch, respuesta, canal,
    \* cpu: dispatch thread, PCB, flag and interrupt thread
    cpu, pcb, result, has_interrupt, llegada, interrupt, caido,
    \* ghosts: the kills sent to the CPU, those that came to nothing, the
    \* processes that came back TERMINATED_USER
    pedidos, perdidos,
    \* and the bursts whose interrupt was overwritten in the slot, or raised
    \* before the CPU was ready for it
    malogradas

cortoVars == <<corto, running_pid, estado, status, rafaga, timer, de>>
slotVars == <<interrupt_pid, hay_interrupt, malogradas>>
consVars == <<consola, pid_fin, npedidos, pedidos>>
canales == <<dispatch, respuesta, canal>>
cpuVars == <<cpu, pcb, result, has_interrupt, llegada>>
vars == <<cortoVars, slotVars, interrupt_main, consVars, canales, cpuVars,
          interrupt, caido, perdidos>>

Rafagas == 1 .. MaxRafagas
SinInterrupcion == [tipo |-> "NADA", pid |-> Nadie, por |-> Nadie]
SinLlegada == [i |-> SinInterrupcion, cruzada |-> FALSE]
Interrupcion == [tipo : {"INTERRUPT"}, pid : Procesos, por : Rafagas]
                \cup [tipo : {"END_PID_USER"}, pid : Procesos \cup {Nadie}, por : Procesos]
EstadosFin == {"TERMINATED", "TERMINATED_USER", "ERROR", "ERROR_RESOURCE", "ERROR_INTERFACE",
               "ERROR_MEMORY"}

\* pcb before the first PCB, and after cpu() has freed the last one.
Nulo == "NULL"
Liberado == "liberado"

Init ==
    /\ corto = "libre" /\ running_pid = Nadie
    /\ estado = [p \in Procesos |-> "listo"]
    /\ status = "RUNNING" /\ rafaga = 0
    /\ timer = [r \in Rafagas |-> "no"]
    /\ de = [r \in Rafagas |-> Nadie]
    /\ interrupt_pid = SinInterrupcion /\ hay_interrupt = 0
    /\ interrupt_main = "espera"
    /\ consola = "lista" /\ pid_fin = Nadie /\ npedidos = 0
    /\ dispatch = <<>> /\ respuesta = <<>> /\ canal = <<>>
    /\ cpu = "libre" /\ pcb = Nulo /\ result = "RUNNING"
    /\ has_interrupt = FALSE /\ llegada = SinLlegada
    /\ interrupt = SinInterrupcion /\ caido = FALSE
    /\ pedidos = {} /\ perdidos = {} /\ malogradas = {}

\* Ghost: a kill that is dropped.
Pierde(i) == perdidos' = IF i.tipo = "END_PID_USER" THEN perdidos \cup {i.por} ELSE perdidos

-----------------------------------------------------------------------------
(* corto_main and the processes.                                           *)

\* running_pid, enviar_cpu, and the timer of the burst.
Despacha(p) ==
    /\ corto = "libre" /\ estado[p] = "listo" /\ rafaga < MaxRafagas
    /\ corto' = "cpu"
    /\ estado' = [estado EXCEPT ![p] = "exec"]
    /\ running_pid' = p
    /\ dispatch' = Append(dispatch, p)
    /\ rafaga' = rafaga + 1
    /\ timer' = [timer EXCEPT ![rafaga + 1] = IF HayQuantum THEN "corre" ELSE "no"]
    /\ de' = [de EXCEPT ![rafaga + 1] = p]
    /\ UNCHANGED <<status, slotVars, interrupt_main, consVars, respuesta, canal,
                   cpuVars, interrupt, caido, perdidos>>

\* What esperar_cpu makes of the status that came with a request: IO and
\* WAIT overwrite it, SIGNAL and a bare PCB keep it.
EstadoRecibido(m) ==
    CASE m.op = "IO" -> {"BLOCKED_IO", "ERROR_INTERFACE"}
      [] m.op = "WAIT" -> {"RUNNING", "BLOCKED_WAIT", "ERROR_RESOURCE"}
      [] m.op = "SIGNAL" -> {m.status, "ERROR_RESOURCE"}
      [] OTHER -> {m.status}

\* esperar_cpu: a process that blocks is in the hands of others at once.
EsperarCpu ==
    /\ corto = "cpu" /\ respuesta # <<>>
    /\ \E s \in EstadoRecibido(Head(respuesta)) :
        /\ status' = s
        /\ estado' = IF s \in {"BLOCKED_IO", "BLOCKED_WAIT"}
                     THEN [estado EXCEPT ![running_pid] = "bloqueado"] ELSE estado
        /\ perdidos' = IF /\ Head(respuesta).status = "TERMINATED_USER"
                          /\ s \notin EstadosFin
                       THEN perdidos \cup (pedidos \cap {running_pid}) ELSE perdidos
    /\ respuesta' = Tail(respuesta)
    /\ corto' = "cancela"
    /\ UNCHANGED <<running_pid, rafaga, timer, de, slotVars, interrupt_main,
                   consVars, dispatch, canal, cpuVars, interrupt, caido>>

\* pthread_cancel unless the burst ended by its quantum; it acts anywhere
\* before the timer enters mutex_interrupt.  (The status of a blocked
\* process is read after it was handed over: it is never RUNNING_QUANTUM.)
CancelaTimer ==
    /\ corto = "cancela"
    /\ timer' = IF status # "RUNNING_QUANTUM" /\ timer[rafaga] = "corre"
                THEN [timer EXCEPT ![rafaga] = "cancelado"] ELSE timer
    /\ corto' = "rutea"
    /\ UNCHANGED <<running_pid, estado, status, rafaga, de, slotVars, interrupt_main,
                   consVars, canales, cpuVars, interrupt, caido, perdidos>>

\* The process ends or goes back to ready; a blocked one is not touched.
Rutea ==
    /\ corto = "rutea"
    /\ estado' = CASE status \in EstadosFin -> [estado EXCEPT ![running_pid] = "fin"]
                   [] status \in {"BLOCKED_IO", "BLOCKED_WAIT"} -> estado
                   [] OTHER -> [estado EXCEPT ![running_pid] = "listo"]
    /\ corto' = "vuelta"
    /\ UNCHANGED <<running_pid, status, rafaga, timer, de, slotVars, interrupt_main,
                   consVars, canales, cpuVars, interrupt, caido, perdidos>>

Vuelta ==
    /\ corto = "vuelta"
    /\ running_pid' = Nadie /\ status' = "RUNNING"
    /\ corto' = "libre"
    /\ UNCHANGED <<estado, rafaga, timer, de, slotVars, interrupt_main, consVars,
                   canales, cpuVars, interrupt, caido, perdidos>>

\* An interface answers, or a resource is released.
Despierta(p) ==
    /\ estado[p] = "bloqueado"
    /\ estado' = [estado EXCEPT ![p] = "listo"]
    /\ UNCHANGED <<corto, running_pid, status, rafaga, timer, de, slotVars, interrupt_main,
                   consVars, canales, cpuVars, interrupt, caido, perdidos>>

-----------------------------------------------------------------------------
(* The slot: timers, console, interrupt_main.                              *)

\* interrupt_pid holds an interrupt that interrupt_main has yet to read.
SinEnviar == hay_interrupt > 0 \/ interrupt_main = "toma"

\* What was in the slot is lost for whoever raised it.
Pisa == IF SinEnviar THEN Pierde(interrupt_pid) ELSE UNCHANGED perdidos

\* The CPU has the PCB of the burst and has cleared has_interrupt for it.
EnEjecucion == dispatch = <<>> /\ cpu # "recibido"

\* Ghost: the bursts that i, or its arrival in the slot, leaves without the
\* end of their quantum.
Malogra(i) ==
    malogradas' = malogradas
        \cup (IF SinEnviar THEN Rafagas \cap {interrupt_pid.por} ELSE {})
        \cup (IF EnEjecucion THEN {} ELSE {rafaga} \cap {i.por})

\* Mutant: V(hay_interrupt) is forgotten.
Mut_EscribeSlot(i) == interrupt_pid' = i /\ Pisa /\ Malogra(i) /\ UNCHANGED hay_interrupt
\* The section under mutex_interrupt and the V() after it.
EscribeSlot(i) == interrupt_pid' = i /\ Pisa /\ Malogra(i) /\ hay_interrupt' = hay_interrupt + 1

\* Mutant: the interrupt is for whoever runs when the timer ends.
Mut_VenceQuantum(r) ==
    /\ timer[r] = "corre"
    /\ timer' = [timer EXCEPT ![r] = "vencido"]
    /\ EscribeSlot([tipo |-> "INTERRUPT", pid |-> running_pid, por |-> r])
    /\ UNCHANGED <<corto, running_pid, estado, status, rafaga, de, interrupt_main,
                   consVars, canales, cpuVars, interrupt, caido>>
\* quantum_thread after usleep.
VenceQuantum(r) ==
    /\ timer[r] = "corre"
    /\ timer' = [timer EXCEPT ![r] = "vencido"]
    /\ EscribeSlot([tipo |-> "INTERRUPT", pid |-> de[r], por |-> r])
    /\ UNCHANGED <<corto, running_pid, estado, status, rafaga, de, interrupt_main,
                   consVars, canales, cpuVars, interrupt, caido>>

\* finalizar_pid, first reading of running_pid; a process in a queue is
\* taken out of it and finalized, one that is in none is not found.
FinalizarPid(p) ==
    /\ consola = "lista" /\ npedidos < MaxPedidos
    /\ npedidos' = npedidos + 1
    /\ IF p = running_pid
       THEN /\ consola' = "interrumpe" /\ pid_fin' = p
            /\ pedidos' = pedidos \cup {p} /\ perdidos' = perdidos \ {p}
            /\ UNCHANGED estado
       ELSE /\ estado' = IF estado[p] \in {"listo", "bloqueado"}
                         THEN [estado EXCEPT ![p] = "fin"] ELSE estado
            /\ UNCHANGED <<consola, pid_fin, pedidos, perdidos>>
    /\ UNCHANGED <<corto, running_pid, status, rafaga, timer, de, slotVars, interrupt_main,
                   canales, cpuVars, interrupt, caido>>

\* Second reading, when it may be another process or none.
ConsolaInterrumpe ==
    /\ consola = "interrumpe"
    /\ EscribeSlot([tipo |-> "END_PID_USER", pid |-> running_pid, por |-> pid_fin])
    /\ consola' = "lista" /\ pid_fin' = Nadie
    /\ UNCHANGED <<cortoVars, interrupt_main, npedidos, pedidos, canales, cpuVars,
                   interrupt, caido>>

InterruptMainToma ==
    /\ interrupt_main = "espera" /\ hay_interrupt > 0
    /\ hay_interrupt' = hay_interrupt - 1
    /\ interrupt_main' = "toma"
    /\ UNCHANGED <<cortoVars, interrupt_pid, malogradas, consVars, canales, cpuVars,
                   interrupt, caido, perdidos>>

\* What the slot holds now is sent, whoever posted the token.
InterruptMainEnvia ==
    /\ interrupt_main = "toma"
    /\ canal' = Append(canal, interrupt_pid)
    /\ interrupt_main' = "espera"
    /\ UNCHANGED <<cortoVars, slotVars, consVars, dispatch, respuesta, cpuVars,
                   interrupt, caido, perdidos>>

-----------------------------------------------------------------------------
(* The CPU's interrupt thread.                                             *)

\* pcb->pid == pid, without a lock: a freed PCB may read as anything.
Coincide(i) == IF pcb = Liberado THEN BOOLEAN ELSE {pcb = i.pid}

InterruptCompara ==
    /\ interrupt = SinInterrupcion /\ canal # <<>> /\ pcb # Nulo
    /\ canal' = Tail(canal)
    /\ \E igual \in Coincide(Head(canal)) :
        IF igual THEN /\ interrupt' = Head(canal) /\ UNCHANGED perdidos
                 ELSE /\ UNCHANGED interrupt /\ Pierde(Head(canal))
    /\ UNCHANGED <<cortoVars, slotVars, interrupt_main, consVars, dispatch,
                   respuesta, cpuVars, caido>>

\* No PCB was ever received: pcb is NULL.
InterruptCae ==
    /\ canal # <<>> /\ pcb = Nulo
    /\ caido' = TRUE
    /\ UNCHANGED <<cortoVars, slotVars, interrupt_main, consVars, canales, cpuVars,
                   interrupt, perdidos>>

\* has_interrupt and interrupt_type under mutex_interrupt, when the PCB may
\* be another one; an interrupt not yet seen is overwritten.
InterruptMarca ==
    /\ interrupt # SinInterrupcion
    /\ has_interrupt' = TRUE
    /\ llegada' = [i |-> interrupt, cruzada |-> pcb # interrupt.pid]
    /\ IF has_interrupt THEN Pierde(llegada.i) ELSE UNCHANGED perdidos
    /\ interrupt' = SinInterrupcion
    /\ UNCHANGED <<cortoVars, slotVars, interrupt_main, consVars, canales, cpu, pcb,
                   result, caido>>

-----------------------------------------------------------------------------
(* The CPU's dispatch thread: dispatch and cpu().                          *)

RecibirPcb ==
    /\ cpu = "libre" /\ dispatch # <<>>
    /\ pcb' = Head(dispatch) /\ dispatch' = Tail(dispatch)
    /\ cpu' = "recibido"
    /\ UNCHANGED <<cortoVars, slotVars, interrupt_main, consVars, respuesta, canal,
                   result, has_interrupt, llegada, interrupt, caido, perdidos>>

\* Mutant: has_interrupt is not cleared for the new PCB.
Mut_LimpiaInterrupcion ==
    /\ cpu = "recibido"
    /\ cpu' = "exec" /\ result' = "RUNNING"
    /\ UNCHANGED <<cortoVars, slotVars, interrupt_main, consVars, canales, pcb,
                   has_interrupt, llegada, interrupt, caido, perdidos>>
\* has_interrupt = false: an interrupt for this very PCB is lost too.
LimpiaInterrupcion ==
    /\ cpu = "recibido"
    /\ IF has_interrupt THEN Pierde(llegada.i) ELSE UNCHANGED perdidos
    /\ has_interrupt' = FALSE /\ llegada' = SinLlegada
    /\ cpu' = "exec" /\ result' = "RUNNING"
    /\ UNCHANGED <<cortoVars, slotVars, interrupt_main, consVars, canales, pcb,
                   interrupt, caido>>

\* fetch, decode and exec of one instruction.
Ejecuta ==
    /\ cpu = "exec"
    /\ result' \in Resultados
    /\ cpu' = "check"
    /\ UNCHANGED <<cortoVars, slotVars, interrupt_main, consVars, canales, pcb,
                   has_interrupt, llegada, interrupt, caido, perdidos>>

\* The status an interrupt leaves: a kill prevails over any result, the end
\* of a quantum only over RUNNING.
Interrumpido(r, i) ==
    CASE i.tipo = "END_PID_USER" -> "TERMINATED_USER"
      [] i.tipo = "INTERRUPT" /\ r = "RUNNING" -> "RUNNING_QUANTUM"
      [] OTHER -> r

\* The request an instruction has sent ahead of its PCB.
Pedido(r) == CASE r = "BLOCKED_IO" -> "IO"
               [] r = "BLOCKED_WAIT" -> "WAIT"
               [] r = "RUNNING_SIGNAL" -> "SIGNAL"
               [] OTHER -> "PCB"

\* check_interrupt, and the PCB sent when the loop ends.
CheckInterrupt ==
    /\ cpu = "check"
    /\ LET r == IF has_interrupt THEN Interrumpido(result, llegada.i) ELSE result IN
        /\ has_interrupt' = FALSE /\ llegada' = SinLlegada
        /\ result' = r
        /\ IF r = "RUNNING"
           THEN cpu' = "exec" /\ UNCHANGED respuesta
           ELSE /\ cpu' = "envia"
                /\ respuesta' = Append(respuesta, [op |-> Pedido(result), status |-> r])
        /\ IF has_interrupt /\ r = "TERMINATED_USER" /\ llegada.i.por # pcb
           THEN Pierde(llegada.i) ELSE UNCHANGED perdidos
    /\ UNCHANGED <<cortoVars, slotVars, interrupt_main, consVars, dispatch, canal,
                   pcb, interrupt, caido>>

\* free(pcb): the pointer is kept.
LiberaPcb ==
    /\ cpu = "envia"
    /\ cpu' = "libre" /\ pcb' = Liberado
    /\ UNCHANGED <<cortoVars, slotVars, interrupt_main, consVars, canales, result,
                   has_interrupt, llegada, interrupt, caido, perdidos>>

-----------------------------------------------------------------------------

CortoMain ==
    \/ \E p \in Procesos : Despacha(p)
    \/ EsperarCpu \/ CancelaTimer \/ Rutea \/ Vuelta

InterruptMain == InterruptMainToma \/ InterruptMainEnvia
InterruptCpu == InterruptCompara \/ InterruptCae \/ InterruptMarca
DispatchCpu == RecibirPcb \/ LimpiaInterrupcion \/ Ejecuta \/ CheckInterrupt \/ LiberaPcb

Next ==
    /\ ~caido
    /\ \/ CortoMain
       \/ \E p \in Procesos : Despierta(p) \/ FinalizarPid(p)
       \/ \E r \in Rafagas : VenceQuantum(r)
       \/ ConsolaInterrumpe
       \/ InterruptMain \/ InterruptCpu \/ DispatchCpu

Spec == Init /\ [][Next]_vars

\* Every thread goes on while it can, a timer that was not cancelled runs
\* out, the console finishes its command.  Nobody has to type a command.
FairSpec ==
    /\ Spec
    /\ WF_vars(~caido /\ CortoMain) /\ WF_vars(~caido /\ ConsolaInterrumpe)
    /\ WF_vars(~caido /\ InterruptMain)
    /\ WF_vars(~caido /\ InterruptCpu) /\ WF_vars(~caido /\ DispatchCpu)
    /\ \A r \in Rafagas : WF_vars(~caido /\ VenceQuantum(r))

-----------------------------------------------------------------------------
(* Properties.                                                             *)

\* Types.  Between kernel and CPU there is at most one PCB in transit, and a
\* timer interrupts the process it was created for.
InterrupcionesTypeOK ==
    /\ corto \in {"libre", "cpu", "cancela", "rutea", "vuelta"}
    /\ running_pid \in Procesos \cup {Nadie}
    /\ estado \in [Procesos -> {"listo", "exec", "bloqueado", "fin"}]
    /\ rafaga \in 0 .. MaxRafagas
    /\ timer \in [Rafagas -> {"no", "corre", "vencido", "cancelado"}]
    /\ de \in [Rafagas -> Procesos \cup {Nadie}]
    /\ interrupt_pid \in Interrupcion \cup {SinInterrupcion}
    /\ hay_interrupt \in Nat /\ interrupt_main \in {"espera", "toma"}
    /\ consola \in {"lista", "interrumpe"} /\ pid_fin \in Procesos \cup {Nadie}
    /\ npedidos \in 0 .. MaxPedidos
    /\ canal \in Seq(Interrupcion) /\ dispatch \in Seq(Procesos)
    /\ Len(dispatch) + Len(respuesta) <= 1
    /\ cpu \in {"libre", "recibido", "exec", "check", "envia"}
    /\ pcb \in Procesos \cup {Nulo, Liberado}
    /\ has_interrupt \in BOOLEAN /\ caido \in BOOLEAN
    /\ interrupt \in Interrupcion \cup {SinInterrupcion}
    /\ pedidos \subseteq Procesos /\ perdidos \subseteq pedidos

\* A burst that an interrupt ends is one of the process the interrupt names,
\* unless the PCB changed between the comparison and the mark.
InterrupcionAcertada ==
    [][cpu = "check" /\ cpu' = "envia" /\ has_interrupt /\ result' # result
       => llegada.cruzada \/ llegada.i.pid = pcb]_vars

\* Whether i is the kill of p.
Lleva(i, p) == i.tipo = "END_PID_USER" /\ i.por = p

\* The kill of p is somewhere between the console and the end of p.
EnCamino(p) ==
    \/ consola = "interrumpe" /\ pid_fin = p
    \/ SinEnviar /\ Lleva(interrupt_pid, p)
    \/ \E k \in DOMAIN canal : Lleva(canal[k], p)
    \/ Lleva(interrupt, p)
    \/ has_interrupt /\ Lleva(llegada.i, p)
    \/ running_pid = p /\ \/ respuesta # <<>> /\ Head(respuesta).status = "TERMINATED_USER"
                          \/ corto \in {"cancela", "rutea"} /\ status \in EstadosFin

\* A kill that went to the CPU is on its way, done, or was dropped in one of
\* the windows marked with Pierde: overwritten in the slot or before
\* check_interrupt, compared with another PCB, cleared with a new PCB, spent
\* on another process, or overwritten by the answer to IO or WAIT.  There is
\* no other way to lose one.
KillSinRastro ==
    \A p \in pedidos : estado[p] = "fin" \/ p \in perdidos \/ EnCamino(p)

\* No burst outlives its quantum for ever, not even one of a process that never
\* blocks, unless its interrupt was overwritten in the slot or came before
\* dispatch had cleared has_interrupt, or the CPU crashed (InterruptCae).
QuantumVence ==
    \A r \in Rafagas : (rafaga = r /\ corto = "cpu")
                       ~> (rafaga # r \/ corto # "cpu" \/ r \in malogradas \/ caido)

=============================================================================
