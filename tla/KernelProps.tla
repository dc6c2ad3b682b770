---------------------------- MODULE KernelProps -----------------------------
(***************************************************************************)
(* What the kernel is to keep: fairness, safety and liveness properties,   *)
(* and its refinement of CicloDeVida.                                      *)
(***************************************************************************)
EXTENDS Kernel

(* Fairness: every thread that can go on does, and the interfaces answer.  *)
(* That a burst ends is nobody's duty: the interrupt of its quantum may be *)
(* overwritten or cleared (Interrupciones).  Nor are connections and new   *)
(* commands.                                                               *)
FairSpec ==
    /\ Spec
    /\ WF_vars(caido = "no" /\ Largo)
    /\ WF_vars(caido = "no" /\ Corto)
    /\ WF_vars(caido = "no" /\ MultiChangeWaits)
    /\ WF_vars(caido = "no" /\ ConsolaSigue)
    /\ \A p \in Pids : WF_vars(caido = "no" /\ Fin(p))
    /\ \A i \in Interfaces : /\ WF_vars(caido = "no" /\ IoTrabaja(i))
                             /\ WF_vars(caido = "no" /\ IoResponde(i))

-----------------------------------------------------------------------------
(* Properties.                                                             *)

Uno(b) == IF b THEN 1 ELSE 0

\* Processes created, and among them those that hold a slot of the degree
\* of multiprogramming.
Creados == 0 .. next_pid - 1
Admitidos == {p \in Creados : fin[p] = "no" /\ ~Contains(queue_new, p)}

\* hay_ready counts the two ready queues: what is queued equals the tokens
\* left plus the one the dispatcher has taken and not yet popped with, less
\* the one FINALIZAR_PROCESO owes between list_remove and its P().
SemaforoReady ==
    hay_ready + Uno(corto \in {"check", "pop"})
      = Len(queue_ready) + Len(queue_priority_ready) + Uno(consola = "wait_ready")

\* The same for queue_new and for the queue of every connected interface.
SemaforoNew == hay_new + Uno(largo \in {"check", "pop"}) = Len(queue_new)

SemaforoIo ==
    \A i \in Interfaces : io[i] # "no" =>
        hay_io[i] + Uno(io[i] \in {"check", "pop"})
          = Len(queue_io[i]) + Uno(consola = "wait_io" /\ i \in por_ver)

\* All three semaphores agree with the queues they count, whatever the
\* order of pushes, pops, FINALIZAR_PROCESO and disconnections.
SemaforosCuentanColas == SemaforoReady /\ SemaforoNew /\ SemaforoIo

\* cont_multi is exact through every ending, kill and change of degree: free
\* slots, slots in use and the one largo_main holds while it waits for a new
\* process add up to the degree plus the decrements still owed.
GradoMultiprogramacion ==
    cont_multi + Cardinality(Admitidos) + Uno(largo # "multi")
      = multiprogramacion + esperas

\* cant_instancias below zero counts exactly the processes that wait: no
\* wake-up is lost and none is invented by WAIT, SIGNAL, an exit thread or
\* FINALIZAR_PROCESO.
ColaRecursos ==
    \A r \in Recursos :
        Len(queue_waiting[r]) = IF cant_instancias[r] < 0 THEN -cant_instancias[r] ELSE 0

\* Where process p is: one element per place that would hand it on.
Lugares(p) ==
    {<<"new", "", k>> : k \in {j \in DOMAIN queue_new : queue_new[j] = p}}
    \cup {<<"ready", "", k>> : k \in {j \in DOMAIN queue_ready : queue_ready[j] = p}}
    \cup {<<"prioridad", "", k>> :
            k \in {j \in DOMAIN queue_priority_ready : queue_priority_ready[j] = p}}
    \cup (UNION {{<<"recurso", r, k>> :
            k \in {j \in DOMAIN queue_waiting[r] : queue_waiting[r][j] = p}} : r \in Recursos})
    \cup (UNION {{<<"io", i, k>> :
            k \in {j \in DOMAIN queue_io[i] : queue_io[i][j] = p}} : i \in Interfaces})
    \cup {<<"interfaz", i, 0>> : i \in {j \in Interfaces : io_pcb[j] = p}}
    \cup {<<"despierta", "", q>> : q \in {t \in Pids : despierta[t] = p}}
    \cup {<<lugar, "", 0>> : lugar \in
            (IF en_exec = p THEN {"exec"} ELSE {})
            \cup (IF a_ready = p THEN {"despierta_corto"} ELSE {})
            \cup (IF p \in perdidos THEN {"perdido"} ELSE {})
            \cup (IF consola = "wait_io" /\ pid_fin = p THEN {"consola"} ELSE {})}

\* A live process is in exactly one queue or in the hands of one thread, a
\* finalized one is nowhere: none is duplicated, dropped or revived.
UnSoloLugar ==
    \A p \in Creados : Cardinality(Lugares(p)) = Uno(fin[p] = "no")

\* A process never gives back at its end a unit it does not hold, so no
\* release is done twice.
ListaRespaldada ==
    \A p \in Pids, r \in Recursos :
        recursos[p][r] <= tiene[p][r]

\* The units that holders have in use, one element for each.
Unidades(usan) == UNION {{p} \X (1 .. usan[p]) : p \in Pids}
Tenedores(r) == [p \in Pids |-> tiene[p][r]]

\* What a resource promises: its holders never outnumber its instances,
\* counting those added by SIGNALs without WAIT; nor does the counter
\* overstate the units left.
ExclusionRecursos ==
    \A r \in Recursos :
        LET enUso == Cardinality(Unidades(Tenedores(r))) IN
        /\ enUso <= Instancias[r] + extra[r]
        /\ cant_instancias[r] + enUso = Instancias[r] + extra[r] - Len(queue_waiting[r])

\* DETENER_PLANIFICACION lets at most the dispatch already past its
\* check_plani through: main.c's check at the entry of each stage.
PausaAcotada == plani_run = 0 => despachos <= 1

\* When the kernel crashes, why: popping an empty ready or interface queue
\* takes a FINALIZAR_PROCESO caught between its removal and its P(); a second
\* finalization takes a PCB corto_main had already handed over.
CaidaExplicada ==
    /\ caido = "cola_vacia" => consola = "wait_ready"
    /\ caido = "io_vacia" => consola = "wait_io"
    /\ caido = "doble_fin" => mensaje.op \in {"IO", "WAIT"} /\ en_exec = Nadie

\* The resources a process uses are those its PCB lists ("Recursos separados
\* por coman, ejemplo "RA,RB,RC" que usa el Proceso", pcb_protocol.h).  The
\* code does not keep it: a waiter that is woken gets no entry.
RecursosRegistrados ==
    \A p \in Pids, r \in Recursos :
        en_exec = p /\ corto = "cpu" /\ tiene[p][r] > 0 => recursos[p][r] > 0

\* The interface answers before corto_main has updated the quantum of the
\* process it handed over (line 45), so the process is queued by the old one.
AdelantaRespuesta ==
    /\ corto = "cuenta" /\ mensaje.op = "IO" /\ en_exec = Nadie
    /\ Contains(queue_ready, pcb) \/ Contains(queue_priority_ready, pcb)

\* A process that did SIGNAL goes to the priority queue, whatever its quantum.
AdelantaSignal == corto = "rutea" /\ status[pcb] = "RUNNING_SIGNAL"

\* The priority queue does not starve the other: provided that bursts end,
\* every ready process reaches the CPU, since a rest of a quantum is spent
\* once and its owner then queues behind the others.  Only an interface that
\* keeps overtaking line 45 and a process that keeps doing SIGNAL can come
\* back to the priority queue every time.
SinInanicion ==
    []<>(corto # "cpu") /\ <>[]~(AdelantaRespuesta \/ AdelantaSignal) =>
        \A p \in Pids : (Contains(queue_ready, p) \/ Contains(queue_priority_ready, p))
                        ~> (en_exec = p \/ fin[p] # "no")

\* A request queued at an interface is answered, and its process becomes
\* ready again or ends.
PedidoAtendido ==
    \A i \in Interfaces, p \in Pids :
        Contains(queue_io[i], p) ~> (status[p] = "READY" \/ fin[p] # "no")

\* When a process ends with r in its list, whoever waits first for r gets it
\* and becomes ready: the exit thread's release is not lost.
DespiertaAlTerminar ==
    \A p, q \in Pids, r \in Recursos :
        (/\ fin[p] = "check" /\ recursos[p][r] > 0
         /\ queue_waiting[r] # <<>> /\ Head(queue_waiting[r]) = q)
            ~> (status[q] = "READY" \/ fin[q] # "no")

-----------------------------------------------------------------------------
(* Refinement of CicloDeVida.  A process is NEW in queue_new, READY in a   *)
(* ready queue, EXEC from its pop until it is requeued or handed over,     *)
(* BLOCKED in between, EXIT from finalizar_proceso on.                     *)
EstadoDe(p) ==
    CASE p \notin Creados -> "NONE"
      [] p \in Creados /\ fin[p] # "no" -> "EXIT"
      [] OTHER ->
           IF Contains(queue_new, p) THEN "NEW"
           ELSE IF en_exec = p THEN "EXEC"
           ELSE IF Contains(queue_ready, p) \/ Contains(queue_priority_ready, p) THEN "READY"
           ELSE "BLOCKED"

Ciclo == INSTANCE CicloDeVida WITH
    Cupos <- Nat,
    estado <- [p \in Pids |-> EstadoDe(p)],
    cupo <- multiprogramacion + esperas

\* The kernel's threads implement the life cycle: every step of any of them
\* is one of its transitions or changes nothing it sees.
CumpleCiclo == Ciclo!CicloSpec

=============================================================================
