---------------------------- MODULE KernelEstado ----------------------------
(***************************************************************************)
(* The state the threads of the kernel share, and the steps several of     *)
(* them take: the queues, the counting semaphores, the PCBs, the resources *)
(* and the registered interfaces (kernel/src/main.c, main.h).              *)
(*                                                                         *)
(* Each thread has a variable holding its control point.  A step ends      *)
(* where another thread may observe a difference: a section under a mutex  *)
(* is one step, a V() is folded into the step it follows (it only enables  *)
(* others), a P() and a check_plani() are steps of their own.              *)
(*                                                                         *)
(* Undefined behaviour (a pop from an empty queue, a PCB finalized twice, a *)
(* queue used after queue_destroy) sets caido, after which nothing moves.  *)
(***************************************************************************)
EXTENDS Integers, Sequences, FiniteSets, SequencesExt

CONSTANTS
    MaxPid,         \* processes created in one execution (bound)
    Interfaces,     \* names of the interfaces that may connect
    Recursos,       \* RECURSOS of the configuration
    Instancias,     \* INSTANCIAS_RECURSOS, by resource
    Algoritmo,      \* ALGORITMO_PLANIFICACION: "FIFO", "RR" or "VRR"
    GradoInicial,   \* GRADO_MULTIPROGRAMACION
    Comandos,       \* console commands the operator uses
    Grados,         \* arguments of MULTIPROGRAMACION
    Retornos,       \* what the CPU may come back with
    RespuestasIO,   \* what an interface may answer
    MaxEsperas,     \* pending decrements of the degree (bound)
    MaxExtra        \* SIGNALs of a resource not held (bound)

Pids == 0 .. MaxPid - 1
Nadie == -1
Nombres(conocidos) == conocidos \cup {"desconocido"}

ASSUME CotasAssumption ==
    /\ MaxPid \in Nat \ {0} /\ GradoInicial \in Nat
    /\ Grados \subseteq Nat /\ MaxEsperas \in Nat /\ MaxExtra \in Nat
ASSUME NombresAssumption ==
    /\ "desconocido" \notin Interfaces /\ "desconocido" \notin Recursos
    /\ Instancias \in [Recursos -> Nat]
ASSUME EntornoAssumption ==
    /\ Algoritmo \in {"FIFO", "RR", "VRR"}
    /\ Comandos \subseteq {"FINALIZAR", "DETENER", "MULTIPROGRAMACION"}
    /\ Retornos \subseteq {"EXIT", "ERROR", "ERROR_MEMORY", "INTERRUPT",
                           "IO", "WAIT", "SIGNAL"}
    /\ RespuestasIO \subseteq {"IO_SUCCESS", "IO_ERROR", "DESCONEXION"}

VARIABLES
    \* queues and the semaphores that count them
    queue_new, queue_ready, queue_priority_ready, hay_new, hay_ready,
    \* multiprogramming: the semaphore, the degree, and the P()s that the
    \* threads of MULTIPROGRAMACION still owe
    cont_multi, multiprogramacion, esperas,
    \* fields of the PCBs, by pid; recursos, the list "RA,RB,", as how many
    \* times it names each resource
    status, quantum, recursos,
    \* dict_recursos; ghosts: units really held, units SIGNALed unheld
    cant_instancias, queue_waiting, tiene, extra,
    \* dict_io_clients and the io_client threads; ghost: processes left in
    \* the queue of an interface that disconnected
    queue_io, hay_io, io, io_pcb, perdidos,
    \* exit threads: control point, and the waiter each is waking up
    fin, despierta,
    \* short-term scheduler; ghost en_exec: the process in state EXEC
    corto, pcb, mensaje, a_ready, running_pid, en_exec,
    \* console; matar: some END_PID_USER was sent to the CPU
    consola, pid_fin, por_ver, next_pid, matar,
    \* long-term scheduler
    largo,
    \* planning switch (isStopped <=> plani_run = 0); ghost: dispatches
    \* since the last DETENER_PLANIFICACION
    plani_run, despachos,
    \* undefined behaviour reached, or "no"
    caido

colaVars  == <<queue_new, queue_ready, queue_priority_ready, hay_new, hay_ready>>
multiVars == <<cont_multi, multiprogramacion, esperas>>
pcbVars   == <<status, quantum, recursos>>
recVars   == <<cant_instancias, queue_waiting, tiene, extra>>
ioVars    == <<queue_io, hay_io, io, io_pcb, perdidos>>
finVars   == <<fin, despierta>>
datos     == <<colaVars, multiVars, pcbVars, recVars, ioVars, finVars>>
cortoRegs == <<pcb, mensaje, a_ready, running_pid, en_exec>>
cortoVars == <<corto, cortoRegs>>
consRegs  == <<next_pid, matar>>
consVars  == <<consola, pid_fin, por_ver, consRegs>>
planVars  == <<plani_run, despachos>>
vars      == <<datos, cortoVars, consVars, largo, planVars, caido>>
\* What the steps of one thread leave to the others; all data but status.
fueraCorto   == <<consVars, largo, planVars, caido>>
fueraConsola == <<cortoVars, largo, planVars, caido>>
fueraHilos   == <<cortoVars, fueraCorto>>
ajenoStatus  == <<colaVars, multiVars, quantum, recursos, recVars, ioVars, finVars>>

-----------------------------------------------------------------------------
(* Statuses with which corto_main ends a process, and with which it        *)
(* requeues it.                                                            *)
EstadosFinales == {"TERMINATED", "TERMINATED_USER", "ERROR",
                   "ERROR_RESOURCE", "ERROR_INTERFACE", "ERROR_MEMORY"}
EstadosListos == {"RUNNING", "RUNNING_QUANTUM", "RUNNING_SIGNAL"}
PidStatus == EstadosFinales \cup EstadosListos \cup
             {"NEW", "READY", "BLOCKED_IO", "BLOCKED_WAIT"}

SinMensaje == [op |-> "", nombre |-> "", status |-> "NEW"]

ColasOK ==
    /\ queue_new \in Seq(Pids) /\ queue_ready \in Seq(Pids)
    /\ queue_priority_ready \in Seq(Pids)
    /\ hay_new \in Nat /\ hay_ready \in Nat
MultiOK == cont_multi \in Nat /\ multiprogramacion \in Nat /\ esperas \in Nat
PcbOK ==
    /\ status \in [Pids -> PidStatus]
    /\ quantum \in [Pids -> {"entero", "resto"}]
    /\ recursos \in [Pids -> [Recursos -> Nat]]
RecOK ==
    /\ cant_instancias \in [Recursos -> Int]
    /\ queue_waiting \in [Recursos -> Seq(Pids)]
    /\ tiene \in [Pids -> [Recursos -> Nat]] /\ extra \in [Recursos -> Nat]
IoOK ==
    /\ queue_io \in [Interfaces -> Seq(Pids)] /\ hay_io \in [Interfaces -> Nat]
    /\ io \in [Interfaces -> {"no", "espera", "check", "pop", "servir",
                              "check_io", "desconecta"}]
    /\ io_pcb \in [Interfaces -> Pids \cup {Nadie}]
    /\ perdidos \subseteq Pids
FinOK ==
    /\ fin \in [Pids -> {"no", "check", "libera", "despierta", "hecho"}]
    /\ despierta \in [Pids -> Pids \cup {Nadie}]
CortoOK ==
    /\ corto \in {"espera", "check", "pop", "despacho", "cpu", "check_exec",
                  "atiende", "encola_io", "bloquea", "despierta", "cuenta",
                  "rutea", "vuelta"}
    /\ pcb \in Pids \cup {Nadie} /\ a_ready \in Pids \cup {Nadie}
    /\ running_pid \in Pids \cup {Nadie} /\ en_exec \in Pids \cup {Nadie}
    /\ mensaje \in [op : {"", "PCB", "IO", "WAIT", "SIGNAL"},
                    nombre : Nombres(Interfaces \cup Recursos) \cup {""},
                    status : PidStatus]
ConsOK ==
    /\ consola \in {"lista", "interrumpe", "ready", "wait_ready",
                    "recursos", "ios", "wait_io"}
    /\ pid_fin \in Pids \cup {Nadie}
    /\ por_ver \subseteq Interfaces \cup Recursos
    /\ next_pid \in 0 .. MaxPid /\ matar \in BOOLEAN
PlanOK ==
    /\ largo \in {"multi", "hay_new", "check", "pop"}
    /\ plani_run \in {0, 1} /\ despachos \in Nat
    /\ caido \in {"no", "cola_vacia", "io_vacia", "doble_fin", "io_destruida"}

TypeOK == /\ ColasOK /\ MultiOK /\ PcbOK /\ RecOK /\ IoOK
          /\ FinOK /\ CortoOK /\ ConsOK /\ PlanOK

Init ==
    /\ queue_new = <<>> /\ queue_ready = <<>> /\ queue_priority_ready = <<>>
    /\ hay_new = 0 /\ hay_ready = 0
    /\ cont_multi = GradoInicial /\ multiprogramacion = GradoInicial
    /\ esperas = 0
    /\ status = [p \in Pids |-> "NEW"]
    /\ quantum = [p \in Pids |-> "entero"]
    /\ recursos = [p \in Pids |-> [r \in Recursos |-> 0]]
    /\ cant_instancias = Instancias
    /\ queue_waiting = [r \in Recursos |-> <<>>]
    /\ tiene = [p \in Pids |-> [r \in Recursos |-> 0]]
    /\ extra = [r \in Recursos |-> 0]
    /\ queue_io = [i \in Interfaces |-> <<>>]
    /\ hay_io = [i \in Interfaces |-> 0]
    /\ io = [i \in Interfaces |-> "no"]
    /\ io_pcb = [i \in Interfaces |-> Nadie]
    /\ perdidos = {}
    /\ fin = [p \in Pids |-> "no"] /\ despierta = [p \in Pids |-> Nadie]
    /\ corto = "espera" /\ pcb = Nadie /\ mensaje = SinMensaje
    /\ a_ready = Nadie /\ running_pid = Nadie /\ en_exec = Nadie
    /\ consola = "lista" /\ pid_fin = Nadie /\ por_ver = {}
    /\ next_pid = 0 /\ matar = FALSE
    /\ largo = "multi" /\ plani_run = 1 /\ despachos = 0
    /\ caido = "no"

-----------------------------------------------------------------------------
(* Steps shared by several threads.                                        *)

\* Mutant: planning is never paused.
Mut_check_plani == TRUE
\* check_plani: P() and V() of plani_run, so it only waits while stopped.
check_plani == plani_run = 1

\* cambio_estado(pcb, READY), the push under mutex_ready and V(hay_ready).
PushReady(p, conPrioridad) ==
    /\ status' = [status EXCEPT ![p] = "READY"]
    /\ queue_ready' = IF conPrioridad THEN queue_ready ELSE Append(queue_ready, p)
    /\ queue_priority_ready' = IF conPrioridad THEN Append(queue_priority_ready, p)
                                               ELSE queue_priority_ready
    /\ hay_ready' = hay_ready + 1
    /\ UNCHANGED <<queue_new, hay_new, quantum, recursos>>

\* pcb->quantum < quantum
TienePrioridad(p) == quantum[p] = "resto"

\* Mutant: the slot is not given back.
Mut_FinalizarProceso(p) ==
    /\ status' = [status EXCEPT ![p] = "TERMINATED"]
    /\ fin' = [fin EXCEPT ![p] = "check"]
    /\ UNCHANGED <<quantum, recursos, despierta, multiVars>>
\* finalizar_proceso: TERMINATED, an exit thread, V(cont_multi).
FinalizarProceso(p) ==
    /\ status' = [status EXCEPT ![p] = "TERMINATED"]
    /\ fin' = [fin EXCEPT ![p] = "check"]
    /\ cont_multi' = cont_multi + 1
    /\ UNCHANGED <<multiprogramacion, esperas, quantum, recursos, despierta>>

\* Mutant: a release wakes nobody.
Mut_Despertado(r) == Nadie
\* The process that a release of r takes out of its queue, if any.
Despertado(r) == IF queue_waiting[r] = <<>> THEN Nadie ELSE Head(queue_waiting[r])

\* A release of r by p under mutex_recurso: cant_instancias += 1 and the
\* pop of the first waiter, who gets the unit.
LiberaInstancia(p, r) ==
    LET w == Despertado(r) IN
    /\ cant_instancias' = [cant_instancias EXCEPT ![r] = @ + 1]
    /\ queue_waiting' = [queue_waiting EXCEPT ![r] = IF w = Nadie THEN @ ELSE Tail(@)]
    /\ tiene' = [q \in Pids |-> [tiene[q] EXCEPT ![r] =
                    IF q = w THEN @ + 1
                    ELSE IF q = p /\ @ > 0 THEN @ - 1 ELSE @]]
    /\ extra' = [extra EXCEPT ![r] = IF tiene[p][r] > 0 THEN @ ELSE @ + 1]

Cae(motivo) ==
    /\ caido' = motivo
    /\ UNCHANGED <<datos, cortoVars, consVars, largo, planVars>>

=============================================================================
