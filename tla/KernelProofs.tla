---------------------------- MODULE KernelProofs ----------------------------
(***************************************************************************)
(* Proofs about Kernel: type correctness, that cant_instancias counts the  *)
(* waiting processes and the semaphores their queues, that a process lists *)
(* only units it holds, and that DETENER_PLANIFICACION lets through one    *)
(* process at most, for any number of processes, interfaces and resources  *)
(* and any degree of multiprogramming.                                     *)
(***************************************************************************)
EXTENDS KernelProps, SequenceTheorems, FiniteSetTheorems, TLAPS

(* Removing one element of a queue (list_remove_by_condition).             *)

\* What is left after a removal is a queue one shorter.
LEMMA RemoveAtQueue ==
    ASSUME NEW S, NEW s \in Seq(S), NEW k \in DOMAIN s
    PROVE  /\ RemoveAt(s, k) \in Seq(S)
           /\ Len(RemoveAt(s, k)) = Len(s) - 1
<1>0. Len(s) \in Nat /\ DOMAIN s = 1 .. Len(s) /\ k \in 1 .. Len(s)
  BY LenProperties
<1> DEFINE a == SubSeq(s, 1, k - 1)
           b == SubSeq(s, k + 1, Len(s))
<1>1. a \in Seq(S) /\ Len(a) = k - 1
  BY <1>0, SubSeqProperties, ElementOfSeq
<1>2. b \in Seq(S) /\ Len(b) = Len(s) - k
  BY <1>0, SubSeqProperties, ElementOfSeq
<1> HIDE DEF a, b
<1>3. a \o b \in Seq(S) /\ Len(a \o b) = Len(a) + Len(b)
  BY <1>1, <1>2, ConcatProperties
<1>4. RemoveAt(s, k) = a \o b
  BY DEF RemoveAt, a, b
<1>5. Len(a \o b) = Len(s) - 1
  BY <1>0, <1>1, <1>2, <1>3
<1> QED
  BY <1>3, <1>4, <1>5

-----------------------------------------------------------------------------
(* Type correctness.                                                       *)

\* At each control point the thread really holds the process it acts on.
CortoInv ==
    /\ CortoOK
    /\ corto \notin {"espera", "check", "pop"} => pcb \in Pids
    /\ corto = "despierta" => a_ready \in Pids
    /\ corto = "encola_io" => mensaje.nombre \in Interfaces
FinInv == FinOK /\ \A p \in Pids : fin[p] = "despierta" => despierta[p] \in Pids
IoInv ==
    IoOK /\ \A i \in Interfaces : io[i] \in {"servir", "check_io"} => io_pcb[i] \in Pids
ConsInv == ConsOK /\ (consola # "lista" => pid_fin \in Pids)

TipoInv == /\ ColasOK /\ MultiOK /\ PcbOK /\ RecOK /\ IoInv
           /\ FinInv /\ CortoInv /\ ConsInv /\ PlanOK

\* A release keeps the types of what it writes.
LEMMA LiberaTipo ==
    ASSUME RecOK, NEW p \in Pids, NEW r \in Recursos, LiberaInstancia(p, r)
    PROVE  RecOK' /\ Despertado(r) \in Pids \cup {Nadie}
<1>1. Despertado(r) \in Pids \cup {Nadie}
  BY HeadTailProperties DEF RecOK, Despertado
<1>2. Despertado(r) # Nadie => Tail(queue_waiting[r]) \in Seq(Pids)
  BY HeadTailProperties DEF RecOK, Despertado
<1>3. queue_waiting' \in [Recursos -> Seq(Pids)]
  BY <1>2 DEF LiberaInstancia, RecOK
<1>4. tiene' \in [Pids -> [Recursos -> Nat]]
  <2> DEFINE w == Despertado(r)
             n(q) == IF q = w THEN tiene[q][r] + 1
                     ELSE IF q = p /\ tiene[q][r] > 0 THEN tiene[q][r] - 1
                     ELSE tiene[q][r]
  <2>1. tiene' = [q \in Pids |-> [tiene[q] EXCEPT ![r] = n(q)]]
    BY DEF LiberaInstancia, RecOK
  <2>2. \A q \in Pids : tiene[q] \in [Recursos -> Nat] /\ n(q) \in Nat
    BY SMTT(60) DEF RecOK
  <2> HIDE DEF n
  <2>3. \A q \in Pids : [tiene[q] EXCEPT ![r] = n(q)] \in [Recursos -> Nat]
    BY <2>2
  <2> QED
    BY <2>1, <2>3
<1>5. cant_instancias' \in [Recursos -> Int] /\ extra' \in [Recursos -> Nat]
  BY SMTT(60) DEF LiberaInstancia, RecOK
<1> QED
  BY <1>1, <1>3, <1>4, <1>5 DEF RecOK

\* So does entering a ready queue.
LEMMA PushReadyTipo ==
    ASSUME ColasOK, PcbOK, NEW p \in Pids, NEW b, PushReady(p, b)
    PROVE  ColasOK' /\ PcbOK'
<1>1. Append(queue_ready, p) \in Seq(Pids) /\ Append(queue_priority_ready, p) \in Seq(Pids)
  BY AppendProperties DEF ColasOK
<1>2. ColasOK'
  BY <1>1 DEF PushReady, ColasOK
<1>3. PcbOK'
  BY DEF PushReady, PcbOK, PidStatus
<1> QED
  BY <1>2, <1>3

\* And finalizar_proceso.
LEMMA FinalizarTipo ==
    ASSUME MultiOK, PcbOK, FinInv, NEW p \in Pids, FinalizarProceso(p)
    PROVE  MultiOK' /\ PcbOK' /\ FinInv'
BY DEF FinalizarProceso, MultiOK, PcbOK, FinInv, FinOK, PidStatus, EstadosFinales

\* What the CPU sends is a message.
LEMMA RespuestasTipo ==
    ASSUME NEW p \in Pids, NEW m \in RespuestasCpu(p)
    PROVE  /\ m \in [op : {"PCB", "IO", "WAIT", "SIGNAL"},
                     nombre : Nombres(Interfaces \cup Recursos) \cup {""},
                     status : PidStatus]
BY EntornoAssumption, ZenonT(90)
   DEF RespuestasCpu, Nombres, PidStatus, EstadosFinales, EstadosListos

\* A step that leaves the variables of a part alone keeps that part.
LEMMA Intactos ==
    ASSUME TipoInv
    PROVE  /\ UNCHANGED colaVars => ColasOK'
           /\ UNCHANGED multiVars => MultiOK'
           /\ UNCHANGED pcbVars => PcbOK'
           /\ UNCHANGED recVars => RecOK'
           /\ UNCHANGED ioVars => IoInv'
           /\ UNCHANGED finVars => FinInv'
           /\ UNCHANGED cortoVars => CortoInv'
           /\ UNCHANGED consVars => ConsInv'
           /\ UNCHANGED <<largo, planVars, caido>> => PlanOK'
<1> USE DEF TipoInv
<1>1. UNCHANGED colaVars => ColasOK'
  BY DEF colaVars, ColasOK
<1>2. UNCHANGED multiVars => MultiOK'
  BY DEF multiVars, MultiOK
<1>3. UNCHANGED pcbVars => PcbOK'
  BY DEF pcbVars, PcbOK
<1>4. UNCHANGED recVars => RecOK'
  BY DEF recVars, RecOK
<1>5. UNCHANGED ioVars => IoInv'
  BY DEF ioVars, IoInv, IoOK
<1>6. UNCHANGED finVars => FinInv'
  BY DEF finVars, FinInv, FinOK
<1>7. UNCHANGED cortoVars => CortoInv'
  BY DEF cortoVars, cortoRegs, CortoInv, CortoOK
<1>8. UNCHANGED consVars => ConsInv'
  BY DEF consVars, consRegs, ConsInv, ConsOK
<1>9. UNCHANGED <<largo, planVars, caido>> => PlanOK'
  BY DEF planVars, PlanOK
<1> QED
  BY <1>1, <1>2, <1>3, <1>4, <1>5, <1>6, <1>7, <1>8, <1>9

\* The steps of largo_main.
LEMMA TipoLargo ==
    ASSUME TipoInv, Largo
    PROVE  TipoInv'
<1>1. CASE LargoMulti
  <2>1. MultiOK'
    BY <1>1 DEF LargoMulti, TipoInv, MultiOK
  <2>2. PlanOK'
    BY <1>1 DEF LargoMulti, TipoInv, PlanOK, planVars
  <2> QED
    BY <1>1, <2>1, <2>2, Intactos DEF LargoMulti, TipoInv, consRegs, cortoRegs
<1>2. CASE LargoHayNew
  <2>1. ColasOK'
    BY <1>2 DEF LargoHayNew, TipoInv, ColasOK
  <2>2. PlanOK'
    BY <1>2 DEF LargoHayNew, TipoInv, PlanOK, planVars
  <2> QED
    BY <1>2, <2>1, <2>2, Intactos DEF LargoHayNew, TipoInv, consRegs,
    cortoRegs
<1>3. CASE LargoCheck
  <2>1. PlanOK'
    BY <1>3 DEF LargoCheck, TipoInv, PlanOK, planVars
  <2> QED
    BY <1>3, <2>1, Intactos DEF LargoCheck, TipoInv, consRegs, cortoRegs,
    datos
<1>4. CASE LargoAdmite
  <2>1. ColasOK'
    BY <1>4, HeadTailProperties, AppendProperties DEF LargoAdmite, TipoInv,
    ColasOK
  <2>2. PcbOK'
    BY <1>4, HeadTailProperties DEF LargoAdmite, TipoInv, PcbOK, PidStatus,
    ColasOK
  <2>3. PlanOK'
    BY <1>4 DEF LargoAdmite, TipoInv, PlanOK, planVars
  <2> QED
    BY <1>4, <2>1, <2>2, <2>3, Intactos DEF LargoAdmite, TipoInv, consRegs,
    cortoRegs
<1> QED
  BY <1>1, <1>2, <1>3, <1>4 DEF Largo

\* The steps of corto_main, with the answers of the CPU.
LEMMA TipoCorto ==
    ASSUME TipoInv, Corto \/ CpuResponde
    PROVE  TipoInv'
<1>1. CASE CortoEspera
  <2>1. ColasOK'
    BY <1>1 DEF CortoEspera, TipoInv, ColasOK
  <2>2. CortoInv'
    BY <1>1 DEF CortoEspera, TipoInv, CortoInv, CortoOK, cortoRegs
  <2> QED
    BY <1>1, <2>1, <2>2, Intactos DEF CortoEspera, TipoInv, cortoRegs,
    fueraCorto
<1>2. CASE CortoCheck
  <2>1. CortoInv'
    BY <1>2 DEF CortoCheck, TipoInv, CortoInv, CortoOK, cortoRegs
  <2> QED
    BY <1>2, <2>1, Intactos DEF CortoCheck, TipoInv, cortoRegs, datos,
    fueraCorto
<1>3. CASE CortoPop
  <2>1. ColasOK'
    BY <1>3, HeadTailProperties DEF CortoPop, TipoInv, ColasOK
  <2>2. PcbOK'
    BY <1>3, HeadTailProperties DEF CortoPop, TipoInv, PcbOK, PidStatus,
    EstadosListos, ColasOK
  <2>3. CortoInv'
    BY <1>3, HeadTailProperties DEF CortoPop, TipoInv, CortoInv, CortoOK,
    ColasOK
  <2> QED
    BY <1>3, <2>1, <2>2, <2>3, Intactos DEF CortoPop, TipoInv, fueraCorto
<1>4. CASE CortoPopVacia
  <2> PlanOK' /\ UNCHANGED <<datos, cortoVars, consVars>>
    BY <1>4 DEF TipoInv, PlanOK, planVars, Cae, CortoPopVacia
  <2> QED
    BY Intactos DEF TipoInv, datos
<1>5. CASE CortoDespacho
  <2>1. CortoInv'
    BY <1>5 DEF CortoDespacho, TipoInv, CortoInv, CortoOK
  <2>2. PlanOK'
    BY <1>5 DEF CortoDespacho, TipoInv, PlanOK
  <2> QED
    BY <1>5, <2>1, <2>2, Intactos DEF CortoDespacho, TipoInv, consRegs, datos
<1>6. CASE CortoCheckExec
  <2>1. CortoInv'
    BY <1>6 DEF CortoCheckExec, TipoInv, CortoInv, CortoOK, cortoRegs
  <2> QED
    BY <1>6, <2>1, Intactos DEF CortoCheckExec, TipoInv, cortoRegs, datos,
    fueraCorto
<1>7. CASE AtiendeDesconocido
  <2>1. PcbOK'
    BY <1>7 DEF AtiendeDesconocido, TipoInv, PcbOK, ajenoStatus, PidStatus,
    EstadosFinales, CortoInv
  <2>2. CortoInv'
    BY <1>7 DEF AtiendeDesconocido, TipoInv, CortoInv, CortoOK, cortoRegs
  <2> QED
    BY <1>7, <2>1, <2>2, Intactos DEF AtiendeDesconocido, TipoInv,
    ajenoStatus, cortoRegs, fueraCorto
<1>8. CASE AtiendeIo
  <2>1. PcbOK'
    BY <1>8 DEF AtiendeIo, TipoInv, PcbOK, ajenoStatus, PidStatus, CortoInv
  <2>2. CortoInv'
    BY <1>8 DEF AtiendeIo, TipoInv, CortoInv, CortoOK, cortoRegs
  <2> QED
    BY <1>8, <2>1, <2>2, Intactos DEF AtiendeIo, TipoInv, ajenoStatus,
    cortoRegs, fueraCorto
<1>9. CASE EncolaIo
  <2>1. IoInv'
    BY <1>9, AppendProperties DEF EncolaIo, TipoInv, IoInv, IoOK, CortoInv
  <2>2. CortoInv'
    BY <1>9 DEF EncolaIo, TipoInv, CortoInv, CortoOK
  <2> QED
    BY <1>9, <2>1, <2>2, Intactos DEF EncolaIo, TipoInv, fueraCorto
<1>10. CASE EncolaIoDestruida
  <2> PlanOK' /\ UNCHANGED <<datos, cortoVars, consVars>>
    BY <1>10 DEF TipoInv, PlanOK, planVars, Cae, EncolaIoDestruida
  <2> QED
    BY Intactos DEF TipoInv, datos
<1>11. CASE AtiendeWait
  <2>1. RecOK'
    <3> DEFINE r == mensaje.nombre
    <3>1. r \in Recursos /\ pcb \in Pids
      BY <1>11 DEF AtiendeWait, TipoInv, CortoInv
    <3>2. Append(queue_waiting[r], pcb) \in Seq(Pids)
      BY <3>1, AppendProperties DEF TipoInv, RecOK
    <3>3. cant_instancias' \in [Recursos -> Int] /\ extra' = extra
      BY <1>11, <3>1 DEF AtiendeWait, TipoInv, RecOK
    <3>4. queue_waiting' \in [Recursos -> Seq(Pids)]
      BY <1>11, <3>1, <3>2 DEF AtiendeWait, TipoInv, RecOK
    <3>5. tiene' \in [Pids -> [Recursos -> Nat]]
      <4>1. tiene[pcb] \in [Recursos -> Nat] /\ tiene[pcb][r] \in Nat
        BY <3>1 DEF TipoInv, RecOK
      <4>2. [tiene[pcb] EXCEPT ![r] = @ + 1] \in [Recursos -> Nat]
        BY <3>1, <4>1
      <4>3. \/ tiene' = tiene
            \/ tiene' = [tiene EXCEPT ![pcb] = [tiene[pcb] EXCEPT ![r] = @ + 1]]
        BY <1>11 DEF AtiendeWait
      <4> QED
        BY <3>1, <4>2, <4>3 DEF TipoInv, RecOK
    <3> QED
      BY <3>3, <3>4, <3>5 DEF TipoInv, RecOK
  <2>2. CortoInv'
    BY <1>11 DEF AtiendeWait, TipoInv, CortoInv, CortoOK
  <2>3. PcbOK'
    <3> DEFINE r == mensaje.nombre
    <3>1. r \in Recursos /\ pcb \in Pids
      BY <1>11 DEF AtiendeWait, TipoInv, CortoInv
    <3>2. status' \in [Pids -> PidStatus] /\ quantum' = quantum
      BY <1>11 DEF AtiendeWait, TipoInv, PcbOK, PidStatus, EstadosListos
    <3>3. recursos[pcb] \in [Recursos -> Nat] /\ recursos[pcb][r] \in Nat
      BY <3>1 DEF TipoInv, PcbOK
    <3>4. [recursos[pcb] EXCEPT ![r] = @ + 1] \in [Recursos -> Nat]
      BY <3>1, <3>3
    <3>5. \/ recursos' = recursos
          \/ recursos' = [recursos EXCEPT ![pcb] = [recursos[pcb] EXCEPT ![r] = @ + 1]]
      BY <1>11 DEF AtiendeWait
    <3> QED
      BY <3>1, <3>2, <3>4, <3>5 DEF TipoInv, PcbOK
  <2> QED
    BY <1>11, <2>1, <2>2, <2>3, Intactos DEF AtiendeWait, TipoInv, fueraCorto
<1>12. CASE CortoBloquea
  <2>1. PcbOK'
    BY <1>12 DEF CortoBloquea, TipoInv, PcbOK, ajenoStatus, PidStatus,
    CortoInv
  <2>2. CortoInv'
    BY <1>12 DEF CortoBloquea, TipoInv, CortoInv, CortoOK, cortoRegs
  <2> QED
    BY <1>12, <2>1, <2>2, Intactos DEF CortoBloquea, TipoInv, ajenoStatus,
    cortoRegs, fueraCorto
<1>13. CASE AtiendeSignal
  <2>1. PcbOK'
    BY <1>13 DEF AtiendeSignal, TipoInv, PcbOK, SinRecurso, CortoInv
  <2>2. RecOK'
    BY <1>13, LiberaTipo DEF AtiendeSignal, TipoInv, RecOK, CortoInv
  <2>3. CortoInv'
    BY <1>13, LiberaTipo DEF AtiendeSignal, TipoInv, CortoInv, CortoOK, RecOK
  <2> QED
    BY <1>13, <2>1, <2>2, <2>3, Intactos DEF AtiendeSignal, TipoInv,
    fueraCorto
<1>14. CASE CortoDespierta
  <2>1. ColasOK' /\ PcbOK'
    BY <1>14, PushReadyTipo DEF CortoDespierta, TipoInv, CortoInv
  <2>2. CortoInv'
    BY <1>14 DEF CortoDespierta, TipoInv, CortoInv, CortoOK
  <2> QED
    BY <1>14, <2>1, <2>2, Intactos DEF CortoDespierta, TipoInv, fueraCorto
<1>15. CASE CortoCuenta
  <2>1. PcbOK'
    BY <1>15 DEF CortoCuenta, TipoInv, PcbOK, QuantumNuevo, CortoInv
  <2>2. CortoInv'
    BY <1>15 DEF CortoCuenta, TipoInv, CortoInv, CortoOK, cortoRegs
  <2> QED
    BY <1>15, <2>1, <2>2, Intactos DEF CortoCuenta, TipoInv, cortoRegs,
    fueraCorto
<1>16. CASE RuteaFinal
  <2>1. MultiOK' /\ PcbOK' /\ FinInv'
    BY <1>16, FinalizarTipo DEF RuteaFinal, TipoInv, CortoInv
  <2>2. CortoInv'
    BY <1>16 DEF RuteaFinal, TipoInv, CortoInv, CortoOK
  <2> QED
    BY <1>16, <2>1, <2>2, Intactos DEF RuteaFinal, TipoInv, fueraCorto
<1>17. CASE RuteaDobleFin
  <2> PlanOK' /\ UNCHANGED <<datos, cortoVars, consVars>>
    BY <1>17 DEF TipoInv, PlanOK, planVars, Cae, RuteaDobleFin
  <2> QED
    BY Intactos DEF TipoInv, datos
<1>18. CASE RuteaReady
  <2>1. ColasOK' /\ PcbOK'
    BY <1>18, PushReadyTipo DEF RuteaReady, TipoInv, CortoInv
  <2>2. CortoInv'
    BY <1>18 DEF RuteaReady, TipoInv, CortoInv, CortoOK
  <2> QED
    BY <1>18, <2>1, <2>2, Intactos DEF RuteaReady, TipoInv, fueraCorto
<1>19. CASE RuteaAjeno
  <2>1. CortoInv'
    BY <1>19 DEF RuteaAjeno, TipoInv, CortoInv, CortoOK, cortoRegs
  <2> QED
    BY <1>19, <2>1, Intactos DEF RuteaAjeno, TipoInv, cortoRegs, datos,
    fueraCorto
<1>20. CASE CortoVuelta
  <2>1. CortoInv'
    BY <1>20 DEF CortoVuelta, TipoInv, CortoInv, CortoOK, SinMensaje,
    PidStatus
  <2> QED
    BY <1>20, <2>1, Intactos DEF CortoVuelta, TipoInv, datos, fueraCorto
<1>21. CASE CpuResponde
  <2>1. PcbOK'
    BY <1>21, RespuestasTipo DEF CpuResponde, TipoInv, PcbOK, ajenoStatus,
    CortoInv
  <2>2. CortoInv'
    <3>1. PICK m \in RespuestasCpu(pcb) : mensaje' = m
      BY <1>21 DEF CpuResponde
    <3>2. /\ m \in [op : {"PCB", "IO", "WAIT", "SIGNAL"},
                    nombre : Nombres(Interfaces \cup Recursos) \cup {""},
                    status : PidStatus]
          /\ pcb \in Pids
      BY <1>21, <3>1, RespuestasTipo DEF CpuResponde, TipoInv, CortoInv
    <3>3. m \in [op : {"", "PCB", "IO", "WAIT", "SIGNAL"},
                 nombre : Nombres(Interfaces \cup Recursos) \cup {""},
                 status : PidStatus]
      BY <3>2
    <3> QED
      BY <1>21, <3>1, <3>3 DEF CpuResponde, TipoInv, CortoInv, CortoOK
  <2> QED
    BY <1>21, <2>1, <2>2, Intactos DEF CpuResponde, TipoInv, ajenoStatus,
    fueraCorto
<1> QED
  BY <1>1, <1>2, <1>3, <1>4, <1>5, <1>6, <1>7, <1>8, <1>9, <1>10, <1>11,
  <1>12, <1>13, <1>14, <1>15, <1>16, <1>17, <1>18, <1>19, <1>20, <1>21 DEF
  Corto

\* The steps of the exit threads.
LEMMA TipoFin ==
    ASSUME TipoInv, \E p \in Pids : Fin(p)
    PROVE  TipoInv'
<1>1. ASSUME NEW p \in Pids, FinCheck(p) PROVE TipoInv'
  <2>1. FinInv'
    BY <1>1 DEF FinCheck, TipoInv, FinInv, FinOK
  <2> QED
    BY <1>1, <2>1, Intactos DEF FinCheck, TipoInv, fueraCorto, fueraHilos
<1>2. ASSUME NEW p \in Pids, FinLibera(p) PROVE TipoInv'
  <2>1. PcbOK'
    BY <1>2 DEF FinLibera, TipoInv, PcbOK
  <2>2. RecOK'
    BY <1>2, LiberaTipo DEF FinLibera, TipoInv
  <2>3. FinInv'
    BY <1>2, LiberaTipo DEF FinLibera, TipoInv, FinInv, FinOK, Nadie
  <2> QED
    BY <1>2, <2>1, <2>2, <2>3, Intactos DEF FinLibera, TipoInv, fueraCorto,
    fueraHilos
<1>3. ASSUME NEW p \in Pids, FinDespierta(p) PROVE TipoInv'
  <2>1. ColasOK' /\ PcbOK'
    BY <1>3, PushReadyTipo DEF FinDespierta, TipoInv, FinInv
  <2>2. FinInv'
    BY <1>3 DEF FinDespierta, TipoInv, FinInv, FinOK
  <2> QED
    BY <1>3, <2>1, <2>2, Intactos DEF FinDespierta, TipoInv, fueraCorto,
    fueraHilos
<1>4. ASSUME NEW p \in Pids, FinLibre(p) PROVE TipoInv'
  <2>1. FinInv'
    BY <1>4 DEF FinLibre, TipoInv, FinInv, FinOK
  <2> QED
    BY <1>4, <2>1, Intactos DEF FinLibre, TipoInv, fueraCorto, fueraHilos
<1> QED
  BY <1>1, <1>2, <1>3, <1>4 DEF Fin

\* The steps of the interface threads.
LEMMA TipoIo ==
    ASSUME TipoInv, \E i \in Interfaces : Io(i)
    PROVE  TipoInv'
<1>1. ASSUME NEW i \in Interfaces, IoRegistra(i) PROVE TipoInv'
  <2>1. IoInv'
    BY <1>1 DEF IoRegistra, TipoInv, IoInv, IoOK
  <2> QED
    BY <1>1, <2>1, Intactos DEF IoRegistra, TipoInv, fueraCorto, fueraHilos
<1>2. ASSUME NEW i \in Interfaces, IoResponde(i) PROVE TipoInv'
  <2>1. IoInv'
    BY <1>2 DEF IoResponde, TipoInv, IoInv, IoOK
  <2> QED
    BY <1>2, <2>1, Intactos DEF IoResponde, TipoInv, fueraCorto, fueraHilos
<1>3. ASSUME NEW i \in Interfaces, IoEspera(i) PROVE TipoInv'
  <2>1. IoInv'
    BY <1>3 DEF IoEspera, TipoInv, IoInv, IoOK
  <2> QED
    BY <1>3, <2>1, Intactos DEF IoEspera, TipoInv, fueraCorto, fueraHilos
<1>4. ASSUME NEW i \in Interfaces, IoCheck(i) PROVE TipoInv'
  <2>1. IoInv'
    BY <1>4 DEF IoCheck, TipoInv, IoInv, IoOK
  <2> QED
    BY <1>4, <2>1, Intactos DEF IoCheck, TipoInv, fueraCorto, fueraHilos
<1>5. ASSUME NEW i \in Interfaces, IoPop(i) PROVE TipoInv'
  <2>1. IoInv'
    BY <1>5 DEF IoPop, TipoInv, IoInv, IoOK
  <2> QED
    BY <1>5, <2>1, Intactos DEF IoPop, TipoInv, fueraCorto, fueraHilos
<1>6. ASSUME NEW i \in Interfaces, IoPopVacia(i) PROVE TipoInv'
  <2> PlanOK' /\ UNCHANGED <<datos, cortoVars, consVars>>
    BY <1>6 DEF TipoInv, PlanOK, planVars, Cae, IoPopVacia
  <2> QED
    BY Intactos DEF TipoInv, datos
<1>7. ASSUME NEW i \in Interfaces, IoExito(i) PROVE TipoInv'
  <2>1. ColasOK' /\ PcbOK'
    BY <1>7, PushReadyTipo DEF IoExito, TipoInv, IoInv
  <2>2. IoInv'
    BY <1>7 DEF IoExito, TipoInv, IoInv, IoOK
  <2> QED
    BY <1>7, <2>1, <2>2, Intactos DEF IoExito, TipoInv, fueraCorto, fueraHilos
<1>8. ASSUME NEW i \in Interfaces, NEW r \in {"IO_ERROR", "DESCONEXION"}, IoFalla(i, r) PROVE TipoInv'
  <2>1. MultiOK' /\ PcbOK' /\ FinInv'
    BY <1>8, FinalizarTipo DEF IoFalla, TipoInv, IoInv
  <2>2. IoInv'
    BY <1>8 DEF IoFalla, TipoInv, IoInv, IoOK
  <2> QED
    BY <1>8, <2>1, <2>2, Intactos DEF IoFalla, TipoInv, fueraCorto, fueraHilos
<1>9. ASSUME NEW i \in Interfaces, IoDesconecta(i) PROVE TipoInv'
  <2>1. IoInv'
    <3>1. ToSet(queue_io[i]) \subseteq Pids
      BY ElementOfSeq, LenProperties DEF ToSet, TipoInv, IoInv, IoOK
    <3>2. <<>> \in Seq(Pids)
      BY EmptySeq
    <3> QED
      BY <1>9, <3>1, <3>2 DEF IoDesconecta, TipoInv, IoInv, IoOK
  <2> QED
    BY <1>9, <2>1, Intactos DEF IoDesconecta, TipoInv, fueraCorto, fueraHilos
<1> QED
  BY <1>1, <1>2, <1>3, <1>4, <1>5, <1>6, <1>7, <1>8, <1>9 DEF Io, IoTrabaja

\* The steps of the commands of the console.
LEMMA TipoComando ==
    ASSUME TipoInv, Comando \/ MultiChangeWaits
    PROVE  TipoInv'
<1>1. CASE EnviarNew
  <2>1. ColasOK'
    <3>1. next_pid \in Pids
      BY <1>1, CotasAssumption DEF EnviarNew, TipoInv, ConsInv, ConsOK, Pids
    <3> QED
      BY <1>1, <3>1, AppendProperties DEF EnviarNew, TipoInv, ColasOK
  <2>2. ConsInv'
    BY <1>1, CotasAssumption DEF EnviarNew, TipoInv, ConsInv, ConsOK
  <2> QED
    BY <1>1, <2>1, <2>2, Intactos DEF EnviarNew, TipoInv, fueraConsola
<1>2. CASE DetenerPlanificacion
  <2>1. PlanOK'
    BY <1>2 DEF DetenerPlanificacion, TipoInv, PlanOK
  <2> QED
    BY <1>2, <2>1, Intactos DEF DetenerPlanificacion, TipoInv, consRegs,
    cortoRegs, datos
<1>3. CASE IniciarPlanificacion
  <2>1. PlanOK'
    BY <1>3 DEF IniciarPlanificacion, TipoInv, PlanOK
  <2> QED
    BY <1>3, <2>1, Intactos DEF IniciarPlanificacion, TipoInv, consRegs,
    cortoRegs, datos
<1>4. ASSUME NEW n \in Grados, CambiarMultiprogramacion(n) PROVE TipoInv'
  <2>1. MultiOK'
    BY <1>4, CotasAssumption DEF CambiarMultiprogramacion, TipoInv, MultiOK
  <2> QED
    BY <1>4, <2>1, Intactos DEF CambiarMultiprogramacion, TipoInv, fueraCorto,
    fueraHilos
<1>5. ASSUME NEW p \in Pids, FinalizarPid(p) PROVE TipoInv'
  <2>1. ConsInv'
    BY <1>5 DEF FinalizarPid, TipoInv, ConsInv, ConsOK, consRegs
  <2> QED
    BY <1>5, <2>1, Intactos DEF FinalizarPid, TipoInv, consRegs, datos,
    fueraConsola
<1>6. CASE MultiChangeWaits
  <2>1. MultiOK'
    BY <1>6 DEF MultiChangeWaits, TipoInv, MultiOK
  <2> QED
    BY <1>6, <2>1, Intactos DEF MultiChangeWaits, TipoInv, fueraCorto,
    fueraHilos
<1> QED
  BY <1>1, <1>2, <1>3, <1>4, <1>5, <1>6 DEF Comando

\* The steps of finalizar_pid.
LEMMA TipoConsola ==
    ASSUME TipoInv, ConsolaSigue
    PROVE  TipoInv'
<1>1. CASE ConsolaInterrumpe
  <2>1. ConsInv'
    BY <1>1 DEF ConsolaInterrumpe, TipoInv, ConsInv, ConsOK, CortoInv, CortoOK
  <2> QED
    BY <1>1, <2>1, Intactos DEF ConsolaInterrumpe, TipoInv, datos,
    fueraConsola
<1>2. CASE ConsolaQuitaReady
  <2>1. MultiOK' /\ PcbOK' /\ FinInv'
    BY <1>2, FinalizarTipo DEF ConsolaQuitaReady, TipoInv, ConsInv
  <2>2. ColasOK'
    BY <1>2, RemoveAtQueue DEF ConsolaQuitaReady, TipoInv, ColasOK
  <2>3. ConsInv'
    BY <1>2 DEF ConsolaQuitaReady, TipoInv, ConsInv, ConsOK, consRegs
  <2> QED
    BY <1>2, <2>1, <2>2, <2>3, Intactos DEF ConsolaQuitaReady, TipoInv,
    consRegs, fueraConsola
<1>3. CASE ConsolaEsperaReady
  <2>1. ColasOK'
    BY <1>3 DEF ConsolaEsperaReady, TipoInv, ColasOK
  <2>2. ConsInv'
    BY <1>3 DEF ConsolaEsperaReady, TipoInv, ConsInv, ConsOK, consRegs
  <2> QED
    BY <1>3, <2>1, <2>2, Intactos DEF ConsolaEsperaReady, TipoInv, consRegs,
    fueraConsola
<1>4. CASE ConsolaNoEnReady
  <2>1. ConsInv'
    BY <1>4 DEF ConsolaNoEnReady, TipoInv, ConsInv, ConsOK, consRegs
  <2> QED
    BY <1>4, <2>1, Intactos DEF ConsolaNoEnReady, TipoInv, consRegs, datos,
    fueraConsola
<1>5. CASE ConsolaMiraIos
  <2>1. ConsInv'
    BY <1>5 DEF ConsolaMiraIos, TipoInv, ConsInv, ConsOK, consRegs
  <2> QED
    BY <1>5, <2>1, Intactos DEF ConsolaMiraIos, TipoInv, consRegs, datos,
    fueraConsola
<1>6. CASE ConsolaNoExiste
  <2>1. ConsInv'
    BY <1>6 DEF ConsolaNoExiste, TipoInv, ConsInv, ConsOK, consRegs
  <2> QED
    BY <1>6, <2>1, Intactos DEF ConsolaNoExiste, TipoInv, consRegs, datos,
    fueraConsola
<1>7. ASSUME NEW r \in Recursos, ConsolaQuitaEspera(r) PROVE TipoInv'
  <2>1. MultiOK' /\ PcbOK' /\ FinInv'
    BY <1>7, FinalizarTipo DEF ConsolaQuitaEspera, TipoInv, ConsInv
  <2>2. RecOK'
    BY <1>7, RemoveAtQueue, SMTT(60) DEF ConsolaQuitaEspera, TipoInv, RecOK
  <2>3. ConsInv'
    BY <1>7 DEF ConsolaQuitaEspera, TipoInv, ConsInv, ConsOK, consRegs
  <2> QED
    BY <1>7, <2>1, <2>2, <2>3, Intactos DEF ConsolaQuitaEspera, TipoInv,
    consRegs, fueraConsola
<1>8. ASSUME NEW r \in Recursos, ConsolaNoEspera(r) PROVE TipoInv'
  <2>1. ConsInv'
    BY <1>8 DEF ConsolaNoEspera, TipoInv, ConsInv, ConsOK, consRegs
  <2> QED
    BY <1>8, <2>1, Intactos DEF ConsolaNoEspera, TipoInv, consRegs, datos,
    fueraConsola
<1>9. ASSUME NEW i \in Interfaces, ConsolaQuitaIo(i) PROVE TipoInv'
  <2>1. IoInv'
    BY <1>9, RemoveAtQueue DEF ConsolaQuitaIo, TipoInv, IoInv, IoOK
  <2>2. ConsInv'
    BY <1>9 DEF ConsolaQuitaIo, TipoInv, ConsInv, ConsOK, consRegs
  <2> QED
    BY <1>9, <2>1, <2>2, Intactos DEF ConsolaQuitaIo, TipoInv, consRegs,
    fueraConsola
<1>10. ASSUME NEW i \in Interfaces, ConsolaEsperaIo(i) PROVE TipoInv'
  <2>1. MultiOK' /\ PcbOK' /\ FinInv'
    BY <1>10, FinalizarTipo DEF ConsolaEsperaIo, TipoInv, ConsInv
  <2>2. IoInv'
    BY <1>10 DEF ConsolaEsperaIo, TipoInv, IoInv, IoOK
  <2>3. ConsInv'
    BY <1>10 DEF ConsolaEsperaIo, TipoInv, ConsInv, ConsOK, consRegs
  <2> QED
    BY <1>10, <2>1, <2>2, <2>3, Intactos DEF ConsolaEsperaIo, TipoInv,
    consRegs, fueraConsola
<1>11. ASSUME NEW i \in Interfaces, ConsolaNoIo(i) PROVE TipoInv'
  <2>1. ConsInv'
    BY <1>11 DEF ConsolaNoIo, TipoInv, ConsInv, ConsOK, consRegs
  <2> QED
    BY <1>11, <2>1, Intactos DEF ConsolaNoIo, TipoInv, consRegs, datos,
    fueraConsola
<1>12. ASSUME NEW i \in Interfaces, ConsolaIoDestruida(i) PROVE TipoInv'
  <2> PlanOK' /\ UNCHANGED <<datos, cortoVars, consVars>>
    BY <1>12 DEF TipoInv, PlanOK, planVars, Cae, ConsolaIoDestruida
  <2> QED
    BY Intactos DEF TipoInv, datos
<1> QED
  BY <1>1, <1>2, <1>3, <1>4, <1>5, <1>6, <1>7, <1>8, <1>9, <1>10, <1>11, <1>12
  DEF ConsolaSigue

\* The initial state.
LEMMA TipoInit == Init => TipoInv
<1> SUFFICES ASSUME Init PROVE TipoInv
  OBVIOUS
<1> USE CotasAssumption, NombresAssumption DEF Init
<1>1. ColasOK /\ MultiOK
  BY EmptySeq DEF ColasOK, MultiOK
<1>2. PcbOK
  BY DEF PcbOK, PidStatus
<1>3. RecOK
  BY EmptySeq DEF RecOK
<1>4. IoInv
  BY EmptySeq DEF IoInv, IoOK, Nadie
<1>5. FinInv
  BY DEF FinInv, FinOK
<1>6. CortoInv
  BY DEF CortoInv, CortoOK, SinMensaje, PidStatus
<1>7. matar \in BOOLEAN
  BY ZenonT(20)
<1>8. next_pid \in 0 .. MaxPid
  OBVIOUS
<1>9. ConsInv
  BY <1>7, <1>8, ZenonT(20) DEF ConsInv, ConsOK
<1>10. PlanOK
  BY DEF PlanOK
<1> QED
  BY <1>1, <1>2, <1>3, <1>4, <1>5, <1>6, <1>9, <1>10 DEF TipoInv

\* Every step keeps the types.
LEMMA TipoPaso == TipoInv /\ [Next]_vars => TipoInv'
<1> SUFFICES ASSUME TipoInv, [Next]_vars PROVE TipoInv'
  OBVIOUS
<1>1. CASE Next
  BY <1>1, TipoLargo, TipoCorto, TipoFin, TipoIo, TipoComando, TipoConsola DEF Next
<1>2. CASE UNCHANGED vars
  BY <1>2, Intactos DEF vars, datos, TipoInv
<1> QED
  BY <1>1, <1>2

\* Every variable of the kernel keeps its type, in every reachable state.
THEOREM TipoCorrecto == Spec => []TypeOK
<1>1. TipoInv => TypeOK
  BY DEF TipoInv, TypeOK, IoInv, FinInv, CortoInv, ConsInv
<1> QED
  BY <1>1, TipoInit, TipoPaso, PTL DEF Spec

-----------------------------------------------------------------------------
(* The counter of each resource and its queue.                             *)

\* The steps that move a resource's counter, its queue, its holders or a list.
LEMMA QuienMueveRecursos ==
    ASSUME [Next]_vars
    PROVE  \/ AtiendeWait \/ AtiendeSignal
           \/ \E p \in Pids : FinLibera(p)
           \/ \E r \in Recursos : ConsolaQuitaEspera(r)
           \/ UNCHANGED <<recVars, recursos>>
<1>1. CASE UNCHANGED vars
  BY <1>1 DEF vars, datos, pcbVars
<1>2. CASE Largo \/ CpuResponde \/ MultiChangeWaits \/ Comando
  BY <1>2, SMTT(60) DEF Largo, LargoMulti, LargoHayNew, LargoCheck, LargoAdmite, CpuResponde,
     MultiChangeWaits, Comando, EnviarNew, DetenerPlanificacion, IniciarPlanificacion,
     CambiarMultiprogramacion, FinalizarPid, ajenoStatus, datos, pcbVars
<1>3. CASE Corto
  BY <1>3 DEF Corto, CortoEspera, CortoCheck, CortoPop, CortoPopVacia, CortoDespacho,
     CortoCheckExec, AtiendeDesconocido, AtiendeIo, EncolaIo, EncolaIoDestruida,
     CortoBloquea, CortoDespierta, CortoCuenta, RuteaFinal, RuteaDobleFin,
     RuteaReady, RuteaAjeno, CortoVuelta, PushReady,
     FinalizarProceso, Cae, ajenoStatus, datos, pcbVars
<1>4. CASE \E p \in Pids : Fin(p)
  BY <1>4 DEF Fin, FinCheck, FinDespierta, FinLibre, PushReady, pcbVars
<1>5. CASE \E i \in Interfaces : Io(i)
  BY <1>5 DEF Io, IoTrabaja, IoRegistra, IoResponde, IoEspera, IoCheck, IoPop,
     IoPopVacia, IoExito, IoFalla, IoDesconecta, PushReady,
     FinalizarProceso, Cae, datos, pcbVars
<1>6. CASE ConsolaSigue
  BY <1>6 DEF ConsolaSigue, ConsolaInterrumpe, ConsolaQuitaReady, ConsolaEsperaReady,
     ConsolaNoEnReady, ConsolaMiraIos, ConsolaNoExiste, ConsolaNoEspera, ConsolaQuitaIo,
     ConsolaEsperaIo, ConsolaNoIo, ConsolaIoDestruida, PushReady,
     FinalizarProceso, Cae, datos, pcbVars
<1> QED
  BY <1>1, <1>2, <1>3, <1>4, <1>5, <1>6 DEF Next

\* A release takes one waiter exactly when there was one to take.
LEMMA LiberaCola ==
    ASSUME RecOK, ColaRecursos, NEW p \in Pids, NEW r \in Recursos,
           LiberaInstancia(p, r)
    PROVE  ColaRecursos'
<1>1. queue_waiting[r] \in Seq(Pids) /\ cant_instancias[r] \in Int
  BY DEF RecOK
<1>2. /\ cant_instancias' = [cant_instancias EXCEPT ![r] = @ + 1]
      /\ \A s \in Recursos \ {r} : queue_waiting'[s] = queue_waiting[s]
  BY DEF LiberaInstancia, RecOK
<1>3. CASE queue_waiting[r] = <<>>
  <2>1. queue_waiting'[r] = <<>> /\ Len(queue_waiting[r]) = 0
    BY <1>3, EmptySeq DEF LiberaInstancia, Despertado, RecOK
  <2> QED
    <3> DEFINE c == cant_instancias[r]
    <3>1. 0 = (IF c < 0 THEN -c ELSE 0) /\ c \in Int
      BY <1>1, <2>1 DEF ColaRecursos
    <3>2. /\ Len(queue_waiting'[r]) = 0 /\ cant_instancias'[r] = c + 1
          /\ \A s \in Recursos \ {r} :
                queue_waiting'[s] = queue_waiting[s] /\ cant_instancias'[s] = cant_instancias[s]
      BY <1>2, <1>3, <2>1 DEF RecOK
    <3> HIDE DEF c
    <3>3. 0 = IF c + 1 < 0 THEN -(c + 1) ELSE 0
      BY <3>1
    <3> QED
      BY <3>2, <3>3 DEF ColaRecursos
<1>4. CASE queue_waiting[r] # <<>>
  <2>1. Despertado(r) # Nadie
    <3>1. Head(queue_waiting[r]) \in Pids
      BY <1>1, <1>4, HeadTailProperties
    <3> QED
      BY <1>4, <3>1, CotasAssumption DEF Despertado, Nadie, Pids
  <2>2. queue_waiting'[r] = Tail(queue_waiting[r])
    BY <2>1 DEF LiberaInstancia, RecOK
  <2>3. /\ Len(queue_waiting'[r]) = Len(queue_waiting[r]) - 1
        /\ Len(queue_waiting[r]) \in Nat \ {0}
    BY <1>1, <1>4, <2>2, HeadTailProperties, LenProperties, EmptySeq
  <2>4. /\ cant_instancias[r] = -Len(queue_waiting[r])
        /\ cant_instancias'[r] = 1 - Len(queue_waiting[r])
    BY <1>1, <1>2, <2>3 DEF ColaRecursos, RecOK
  <2>5. \A s \in Recursos \ {r} : cant_instancias'[s] = cant_instancias[s]
    BY <1>2 DEF RecOK
  <2>6. Len(queue_waiting'[r]) =
          IF cant_instancias'[r] < 0 THEN -cant_instancias'[r] ELSE 0
    BY <2>3, <2>4
  <2> QED
    BY <1>2, <2>5, <2>6 DEF ColaRecursos
<1> QED
  BY <1>3, <1>4

\* Every step keeps the count.
LEMMA ColaPaso ==
    ASSUME TipoInv, ColaRecursos, [Next]_vars
    PROVE  ColaRecursos'
<1>1. CASE AtiendeWait
  <2> DEFINE r == mensaje.nombre
  <2>1. r \in Recursos /\ pcb \in Pids
    BY <1>1 DEF AtiendeWait, TipoInv, CortoInv
  <2>2. queue_waiting[r] \in Seq(Pids) /\ cant_instancias[r] \in Int
    BY <2>1 DEF TipoInv, RecOK
  <2>3. /\ cant_instancias' = [cant_instancias EXCEPT ![r] = @ - 1]
        /\ queue_waiting' = IF Alcanza(r) THEN queue_waiting
              ELSE [queue_waiting EXCEPT ![r] = Append(@, pcb)]
    BY <1>1 DEF AtiendeWait
  <2>4. /\ Len(Append(queue_waiting[r], pcb)) = Len(queue_waiting[r]) + 1
        /\ Len(queue_waiting[r]) \in Nat
    BY <2>1, <2>2, AppendProperties, LenProperties
  <2> QED
    <3> DEFINE c == cant_instancias[r]
               l == Len(queue_waiting[r])
    <3>1. l = (IF c < 0 THEN -c ELSE 0) /\ l \in Nat /\ c \in Int
      BY <2>1, <2>2, <2>4 DEF ColaRecursos
    <3>2. /\ Len(queue_waiting'[r]) = IF c > 0 THEN l ELSE l + 1
          /\ cant_instancias'[r] = c - 1
          /\ \A s \in Recursos \ {r} :
                queue_waiting'[s] = queue_waiting[s] /\ cant_instancias'[s] = cant_instancias[s]
      BY <2>1, <2>3, <2>4 DEF TipoInv, RecOK, Alcanza
    <3> HIDE DEF c, l
    <3>3. (IF c > 0 THEN l ELSE l + 1) = IF c - 1 < 0 THEN -(c - 1) ELSE 0
      BY <3>1
    <3> HIDE DEF r
    <3> QED
      BY <3>2, <3>3 DEF ColaRecursos
<1>2. CASE AtiendeSignal
  BY <1>2, LiberaCola DEF AtiendeSignal, TipoInv, CortoInv
<1>3. ASSUME NEW p \in Pids, FinLibera(p) PROVE ColaRecursos'
  BY <1>3, LiberaCola DEF FinLibera, TipoInv
<1>4. ASSUME NEW r \in Recursos, ConsolaQuitaEspera(r) PROVE ColaRecursos'
  <2>1. queue_waiting[r] \in Seq(Pids) /\ cant_instancias[r] \in Int
    BY DEF TipoInv, RecOK
  <2>2. PICK k \in DOMAIN queue_waiting[r] :
          queue_waiting' = [queue_waiting EXCEPT ![r] = RemoveAt(@, k)]
    BY <1>4 DEF ConsolaQuitaEspera
  <2>3. /\ Len(RemoveAt(queue_waiting[r], k)) = Len(queue_waiting[r]) - 1
        /\ Len(queue_waiting[r]) \in Nat \ {0}
    <3>1. Len(RemoveAt(queue_waiting[r], k)) = Len(queue_waiting[r]) - 1
      BY <2>1, RemoveAtQueue, ZenonT(90)
    <3>2. Len(queue_waiting[r]) \in Nat /\ k \in 1 .. Len(queue_waiting[r])
      BY <2>1, LenProperties, ZenonT(90)
    <3> QED
      BY <3>1, <3>2
  <2>4. cant_instancias' = [cant_instancias EXCEPT ![r] = @ + 1]
    BY <1>4 DEF ConsolaQuitaEspera
  <2> DEFINE c == cant_instancias[r]
             l == Len(queue_waiting[r])
  <2>5. l = (IF c < 0 THEN -c ELSE 0) /\ l \in Nat \ {0} /\ c \in Int
    BY <2>1, <2>3 DEF ColaRecursos
  <2>6. /\ Len(queue_waiting'[r]) = l - 1 /\ cant_instancias'[r] = c + 1
        /\ \A s \in Recursos \ {r} :
              queue_waiting'[s] = queue_waiting[s] /\ cant_instancias'[s] = cant_instancias[s]
    BY <2>2, <2>3, <2>4 DEF TipoInv, RecOK
  <2> HIDE DEF c, l
  <2>7. l - 1 = IF c + 1 < 0 THEN -(c + 1) ELSE 0
    BY <2>5
  <2> QED
    BY <2>6, <2>7 DEF ColaRecursos
<1>5. CASE UNCHANGED <<recVars, recursos>>
  BY <1>5 DEF recVars, ColaRecursos
<1> QED
  BY <1>1, <1>2, <1>3, <1>4, <1>5, QuienMueveRecursos

\* In every reachable state a resource whose counter is -n has exactly n
\* processes waiting, and none waits while units are left.
THEOREM ColaRecursosCuenta == Spec => []ColaRecursos
<1>1. Init => ColaRecursos
  BY NombresAssumption, EmptySeq DEF Init, ColaRecursos
<1>2. TipoInv /\ ColaRecursos /\ [Next]_vars => (TipoInv /\ ColaRecursos)'
  BY TipoPaso, ColaPaso
<1> QED
  BY <1>1, <1>2, TipoInit, PTL DEF Spec


-----------------------------------------------------------------------------
(* The semaphores and the queues they count.                               *)

\* The queue of an interface that is not connected is empty, and the console
\* owes a P() to one interface at most.
IoVacias ==
    /\ \A i \in Interfaces : io[i] = "no" => queue_io[i] = <<>>
    /\ consola = "wait_io" => \E i \in Interfaces : por_ver = {i}

SemInv == SemaforosCuentanColas /\ IoVacias

\* A push posts one token for the one process it queues.
LEMMA PushReadyCuenta ==
    ASSUME ColasOK, NEW p \in Pids, NEW b, PushReady(p, b)
    PROVE  /\ hay_ready' = hay_ready + 1
           /\ Len(queue_ready') + Len(queue_priority_ready')
                = Len(queue_ready) + Len(queue_priority_ready) + 1
           /\ UNCHANGED <<queue_new, hay_new>>
<1>1. /\ Len(Append(queue_ready, p)) = Len(queue_ready) + 1
      /\ Len(Append(queue_priority_ready, p)) = Len(queue_priority_ready) + 1
      /\ Len(queue_ready) \in Nat /\ Len(queue_priority_ready) \in Nat
  BY AppendProperties, LenProperties DEF ColasOK
<1> QED
  BY <1>1 DEF PushReady

\* The steps that touch hay_ready, its queues, or a token taken and not yet
\* used.
LEMMA QuienTocaReady ==
    ASSUME TipoInv, [Next]_vars
    PROVE  \/ LargoAdmite \/ CortoEspera \/ CortoCheck \/ CortoPop \/ CortoDespierta
           \/ RuteaReady \/ (\E p \in Pids : FinDespierta(p))
           \/ (\E i \in Interfaces : IoExito(i))
           \/ ConsolaQuitaReady \/ ConsolaEsperaReady
           \/ /\ UNCHANGED <<hay_ready, queue_ready, queue_priority_ready>>
              /\ corto' \in {"check", "pop"} <=> corto \in {"check", "pop"}
              /\ consola' = "wait_ready" <=> consola = "wait_ready"
<1> DEFINE Igual == /\ UNCHANGED <<hay_ready, queue_ready, queue_priority_ready>>
                    /\ corto' \in {"check", "pop"} <=> corto \in {"check", "pop"}
                    /\ consola' = "wait_ready" <=> consola = "wait_ready"
<1>1. UNCHANGED vars \/ LargoMulti \/ LargoHayNew \/ LargoCheck \/ MultiChangeWaits => Igual
  BY DEF vars, LargoMulti, LargoHayNew, LargoCheck, MultiChangeWaits, datos, colaVars,
     cortoVars, consVars, fueraHilos, fueraCorto
<1>2. Comando => Igual
  BY DEF Comando, EnviarNew, DetenerPlanificacion, IniciarPlanificacion,
     CambiarMultiprogramacion, FinalizarPid, datos, colaVars, cortoVars, consVars, fueraHilos,
     fueraCorto, fueraConsola
<1>3. CpuResponde => Igual
  BY DEF CpuResponde, ajenoStatus, colaVars, fueraCorto, consVars
<1>4. CortoPopVacia \/ CortoDespacho \/ CortoCheckExec \/ AtiendeDesconocido \/ AtiendeIo
        \/ EncolaIo \/ EncolaIoDestruida => Igual
  BY DEF CortoPopVacia, CortoDespacho, CortoCheckExec, AtiendeDesconocido, AtiendeIo, EncolaIo,
     EncolaIoDestruida, Cae, datos, colaVars, ajenoStatus, fueraCorto, consVars, cortoVars
<1>5. AtiendeWait \/ CortoBloquea \/ AtiendeSignal \/ CortoCuenta \/ RuteaFinal
        \/ RuteaDobleFin \/ RuteaAjeno \/ CortoVuelta => Igual
  BY DEF AtiendeWait, CortoBloquea, AtiendeSignal, CortoCuenta, RuteaFinal, RuteaDobleFin,
     RuteaAjeno, CortoVuelta, Cae, datos, colaVars, ajenoStatus, fueraCorto, consVars, cortoVars
<1>6. ASSUME NEW p \in Pids, FinCheck(p) \/ FinLibera(p) \/ FinLibre(p) PROVE Igual
  BY <1>6 DEF FinCheck, FinLibera, FinLibre, colaVars, fueraHilos, fueraCorto, consVars,
     cortoVars
<1>7. ASSUME NEW i \in Interfaces, Io(i), ~IoExito(i) PROVE Igual
  BY <1>7 DEF Io, IoTrabaja, IoRegistra, IoResponde, IoEspera, IoCheck, IoPop, IoPopVacia,
     IoFalla, IoDesconecta, Cae, datos, colaVars, fueraHilos, fueraCorto, consVars, cortoVars
<1>8. \/ ConsolaInterrumpe \/ ConsolaNoEnReady \/ ConsolaMiraIos \/ ConsolaNoExiste
      \/ \E r \in Recursos : ConsolaQuitaEspera(r) \/ ConsolaNoEspera(r)
      \/ \E i \in Interfaces : \/ ConsolaQuitaIo(i) \/ ConsolaEsperaIo(i)
                               \/ ConsolaNoIo(i) \/ ConsolaIoDestruida(i)
      => Igual
  BY DEF ConsolaInterrumpe, ConsolaNoEnReady, ConsolaMiraIos, ConsolaNoExiste,
     ConsolaQuitaEspera, ConsolaNoEspera, ConsolaQuitaIo, ConsolaEsperaIo, ConsolaNoIo,
     ConsolaIoDestruida, Cae, datos, colaVars, cortoVars, consVars, fueraConsola
<1> QED
  BY <1>1, <1>2, <1>3, <1>4, <1>5, <1>6, <1>7, <1>8 DEF Next, Largo, Corto, Fin, ConsolaSigue

\* hay_ready, its queues and those between a push or a removal and its V() or P().
LEMMA ReadyPaso ==
    ASSUME TipoInv, SemaforoReady, [Next]_vars
    PROVE  SemaforoReady'
<1> USE DEF SemaforoReady, Uno
<1>1. /\ hay_ready \in Nat /\ Len(queue_ready) \in Nat /\ Len(queue_priority_ready) \in Nat
      /\ queue_new \in Seq(Pids) /\ queue_ready \in Seq(Pids)
      /\ queue_priority_ready \in Seq(Pids)
  BY LenProperties DEF TipoInv, ColasOK
<1>2. ASSUME NEW p \in Pids, NEW b, PushReady(p, b),
             corto' \in {"check", "pop"} <=> corto \in {"check", "pop"},
             consola' = consola
      PROVE  SemaforoReady'
  <2>1. /\ hay_ready' = hay_ready + 1
        /\ Len(queue_ready') + Len(queue_priority_ready')
             = Len(queue_ready) + Len(queue_priority_ready) + 1
    BY <1>2, PushReadyCuenta DEF TipoInv
  <2> QED
    BY <1>1, <1>2, <2>1, SMTT(60)
<1>3. CASE LargoAdmite
  <2>1. Len(Append(queue_ready, Head(queue_new))) = Len(queue_ready) + 1
    BY <1>1, <1>3, HeadTailProperties, AppendProperties DEF LargoAdmite
  <2> QED
    BY <1>1, <1>3, <2>1, SMTT(60) DEF LargoAdmite, cortoVars, consVars
<1>4. CASE CortoEspera \/ CortoCheck
  BY <1>1, <1>4 DEF CortoEspera, CortoCheck, datos, colaVars, fueraCorto, consVars
<1>5. CASE CortoPop
  <2>1. /\ queue_ready # <<>> => Len(Tail(queue_ready)) = Len(queue_ready) - 1
        /\ queue_priority_ready # <<>> =>
             Len(Tail(queue_priority_ready)) = Len(queue_priority_ready) - 1
    BY <1>1, HeadTailProperties
  <2>2. Len(queue_ready') + Len(queue_priority_ready')
          = Len(queue_ready) + Len(queue_priority_ready) - 1
    <3>1. CASE queue_priority_ready # <<>>
      BY <1>1, <1>5, <2>1, <3>1 DEF CortoPop
    <3>2. CASE queue_priority_ready = <<>>
      BY <1>1, <1>5, <2>1, <3>2 DEF CortoPop
    <3> QED
      BY <3>1, <3>2
  <2>3. corto = "pop" /\ corto' = "despacho" /\ UNCHANGED <<hay_ready, consola>>
    BY <1>5 DEF CortoPop, fueraCorto, consVars
  <2> QED
    BY <1>1, <2>2, <2>3
<1>6. CASE CortoDespierta \/ RuteaReady
  BY <1>2, <1>6 DEF CortoDespierta, RuteaReady, TipoInv, CortoInv, fueraCorto, consVars
<1>7. CASE \E p \in Pids : FinDespierta(p)
  BY <1>2, <1>7 DEF FinDespierta, TipoInv, FinInv, fueraHilos, cortoVars, fueraCorto, consVars
<1>8. CASE \E i \in Interfaces : IoExito(i)
  BY <1>2, <1>8 DEF IoExito, TipoInv, IoInv, fueraHilos, cortoVars, fueraCorto, consVars
<1>9. CASE ConsolaQuitaReady
  <2>1. /\ \A k \in DOMAIN queue_ready : Len(RemoveAt(queue_ready, k)) = Len(queue_ready) - 1
        /\ \A k \in DOMAIN queue_priority_ready :
             Len(RemoveAt(queue_priority_ready, k)) = Len(queue_priority_ready) - 1
    BY <1>1, RemoveAtQueue
  <2>2. Len(queue_ready') + Len(queue_priority_ready')
          = Len(queue_ready) + Len(queue_priority_ready) - 1
    <3>1. CASE /\ \E k \in DOMAIN queue_ready : queue_ready' = RemoveAt(queue_ready, k)
               /\ UNCHANGED queue_priority_ready
      <4>1. Len(queue_ready') = Len(queue_ready) - 1
        BY <2>1, <3>1, ZenonT(90)
      <4> QED
        BY <1>1, <3>1, <4>1
    <3>2. CASE /\ \E k \in DOMAIN queue_priority_ready :
                    queue_priority_ready' = RemoveAt(queue_priority_ready, k)
               /\ UNCHANGED queue_ready
      <4>1. Len(queue_priority_ready') = Len(queue_priority_ready) - 1
        BY <2>1, <3>2, ZenonT(90)
      <4> QED
        BY <1>1, <3>2, <4>1
    <3> QED
      BY <1>9, <3>1, <3>2 DEF ConsolaQuitaReady
  <2>3. /\ consola = "ready" /\ consola' = "wait_ready"
        /\ UNCHANGED <<hay_ready, corto>>
    BY <1>9 DEF ConsolaQuitaReady, fueraConsola, cortoVars
  <2> QED
    BY <1>1, <2>2, <2>3
<1>10. CASE ConsolaEsperaReady
  BY <1>1, <1>10 DEF ConsolaEsperaReady, fueraConsola, cortoVars
<1> QED
  BY <1>3, <1>4, <1>5, <1>6, <1>7, <1>8, <1>9, <1>10, QuienTocaReady


\* The same for hay_new.
LEMMA NewPaso ==
    ASSUME TipoInv, SemaforoNew, [Next]_vars
    PROVE  SemaforoNew'
<1> DEFINE Igual == /\ UNCHANGED <<hay_new, queue_new>>
                    /\ largo' \in {"check", "pop"} <=> largo \in {"check", "pop"}
<1>0. /\ hay_new \in Nat /\ Len(queue_new) \in Nat /\ queue_new \in Seq(Pids)
  BY LenProperties DEF TipoInv, ColasOK
<1>1. LargoAdmite \/ LargoHayNew => SemaforoNew'
  <2>1. queue_new # <<>> => Len(Tail(queue_new)) = Len(queue_new) - 1
    BY <1>0, HeadTailProperties
  <2> QED
    BY <1>0, <2>1 DEF LargoAdmite, LargoHayNew, SemaforoNew, Uno
<1>2. EnviarNew => SemaforoNew'
  <2>1. EnviarNew => next_pid \in Pids
    BY CotasAssumption DEF EnviarNew, TipoInv, ConsInv, ConsOK, Pids
  <2>2. EnviarNew => Len(Append(queue_new, next_pid)) = Len(queue_new) + 1
    BY <1>0, <2>1, AppendProperties
  <2> QED
    BY <1>0, <2>2 DEF EnviarNew, fueraConsola, SemaforoNew, Uno
<1>3. UNCHANGED vars \/ LargoMulti \/ LargoCheck \/ MultiChangeWaits \/ CpuResponde => Igual
  BY DEF vars, LargoMulti, LargoCheck, MultiChangeWaits, CpuResponde, ajenoStatus, datos,
     colaVars, fueraHilos, fueraCorto
<1>4. \/ DetenerPlanificacion \/ IniciarPlanificacion
      \/ \E n \in Grados : CambiarMultiprogramacion(n)
      \/ \E p \in Pids : FinalizarPid(p)
      => Igual
  BY SMTT(60) DEF DetenerPlanificacion, IniciarPlanificacion, CambiarMultiprogramacion, FinalizarPid,
     datos, colaVars, fueraHilos, fueraCorto, fueraConsola
<1>5. Corto => Igual
  BY DEF Corto, CortoEspera, CortoCheck, CortoPop, CortoPopVacia, CortoDespacho, CortoCheckExec,
     AtiendeDesconocido, AtiendeIo, EncolaIo, EncolaIoDestruida, AtiendeWait, CortoBloquea,
     AtiendeSignal, CortoDespierta, CortoCuenta, RuteaFinal, RuteaDobleFin, RuteaReady,
     RuteaAjeno, CortoVuelta, PushReady, Cae, datos, colaVars, ajenoStatus, fueraCorto
<1>6. ASSUME NEW p \in Pids, Fin(p) PROVE Igual
  BY <1>6 DEF Fin, FinCheck, FinLibera, FinDespierta, FinLibre, PushReady, colaVars, fueraHilos,
     fueraCorto
<1>7. ASSUME NEW i \in Interfaces, Io(i) PROVE Igual
  BY <1>7 DEF Io, IoTrabaja, IoRegistra, IoResponde, IoEspera, IoCheck, IoPop, IoPopVacia,
     IoExito, IoFalla, IoDesconecta, PushReady, Cae, datos, colaVars, fueraHilos, fueraCorto
<1>8. ConsolaSigue => Igual
  BY DEF ConsolaSigue, ConsolaInterrumpe, ConsolaQuitaReady, ConsolaEsperaReady,
     ConsolaNoEnReady, ConsolaMiraIos, ConsolaNoExiste, ConsolaQuitaEspera, ConsolaNoEspera,
     ConsolaQuitaIo, ConsolaEsperaIo, ConsolaNoIo, ConsolaIoDestruida, Cae, datos, colaVars,
     fueraConsola
<1>9. Igual => SemaforoNew'
  BY DEF SemaforoNew, Uno
<1> QED
  BY <1>1, <1>2, <1>3, <1>4, <1>5, <1>6, <1>7, <1>8, <1>9 DEF Next, Largo, Comando

\* The steps that touch an interface's queue, its semaphore or the token the
\* console owes it.
LEMMA QuienTocaIo ==
    ASSUME TipoInv, [Next]_vars
    PROVE  \/ EncolaIo
           \/ \E i \in Interfaces : \/ IoRegistra(i) \/ IoEspera(i) \/ IoCheck(i) \/ IoPop(i)
                                    \/ IoResponde(i) \/ IoExito(i) \/ IoDesconecta(i)
                                    \/ \E resp : IoFalla(i, resp)
           \/ \E i \in Interfaces : ConsolaQuitaIo(i) \/ ConsolaEsperaIo(i)
           \/ /\ UNCHANGED <<queue_io, hay_io, io>>
              /\ consola' = "wait_io" <=> consola = "wait_io"
              /\ consola = "wait_io" => por_ver' = por_ver
<1> DEFINE Igual == /\ UNCHANGED <<queue_io, hay_io, io>>
                    /\ consola' = "wait_io" <=> consola = "wait_io"
                    /\ consola = "wait_io" => por_ver' = por_ver
<1>1. UNCHANGED vars \/ Largo \/ MultiChangeWaits => Igual
  BY DEF vars, Largo, LargoMulti, LargoHayNew, LargoCheck, LargoAdmite, MultiChangeWaits, datos,
     ioVars, consVars, fueraHilos, fueraCorto
<1>2. Comando => Igual
  BY DEF Comando, EnviarNew, DetenerPlanificacion, IniciarPlanificacion,
     CambiarMultiprogramacion, FinalizarPid, datos, ioVars, consVars, fueraHilos, fueraCorto
<1>3. (Corto /\ ~EncolaIo) \/ CpuResponde => Igual
  BY DEF Corto, CortoEspera, CortoCheck, CortoPop, CortoPopVacia, CortoDespacho, CortoCheckExec,
     AtiendeDesconocido, AtiendeIo, EncolaIoDestruida, AtiendeWait, CortoBloquea,
     AtiendeSignal, CortoDespierta, CortoCuenta, RuteaFinal, RuteaDobleFin, RuteaReady,
     RuteaAjeno, CortoVuelta, CpuResponde, Cae, datos, ioVars, ajenoStatus, fueraCorto, consVars
<1>4. ASSUME NEW p \in Pids, Fin(p) PROVE Igual
  BY <1>4 DEF Fin, FinCheck, FinLibera, FinDespierta, FinLibre, ioVars, fueraHilos, fueraCorto,
     consVars
<1>5. ASSUME NEW i \in Interfaces, IoPopVacia(i) PROVE Igual
  BY <1>5 DEF IoPopVacia, Cae, datos, ioVars, consVars
<1>6. \/ ConsolaInterrumpe \/ ConsolaQuitaReady \/ ConsolaEsperaReady \/ ConsolaNoEnReady
      \/ ConsolaMiraIos \/ ConsolaNoExiste
      \/ \E r \in Recursos : ConsolaQuitaEspera(r) \/ ConsolaNoEspera(r)
      \/ \E i \in Interfaces : ConsolaNoIo(i) \/ ConsolaIoDestruida(i)
      => Igual
  BY DEF ConsolaInterrumpe, ConsolaQuitaReady, ConsolaEsperaReady, ConsolaNoEnReady,
     ConsolaMiraIos, ConsolaNoExiste, ConsolaQuitaEspera, ConsolaNoEspera, ConsolaNoIo,
     ConsolaIoDestruida, Cae, datos, ioVars, consVars
<1> QED
  BY <1>1, <1>2, <1>3, <1>4, <1>5, <1>6 DEF Next, Io, IoTrabaja, ConsolaSigue

\* The same for the hay_io of an interface.
LEMMA IoPaso ==
    ASSUME TipoInv, SemaforoIo, IoVacias, [Next]_vars
    PROVE  SemaforoIo' /\ IoVacias'
<1> USE DEF SemaforoIo, IoVacias, Uno
<1>0. /\ io \in [Interfaces -> {"no", "espera", "check", "pop", "servir", "check_io", "desconecta"}]
      /\ hay_io \in [Interfaces -> Nat] /\ queue_io \in [Interfaces -> Seq(Pids)]
      /\ \A i \in Interfaces : Len(queue_io[i]) \in Nat
  BY LenProperties DEF TipoInv, IoInv, IoOK
<1> DEFINE Saldo(i) == hay_io[i] + Uno(io[i] \in {"check", "pop"}) - Len(queue_io[i])
           Debe(i) == Uno(consola = "wait_io" /\ i \in por_ver)
<1>a. ASSUME NEW i \in Interfaces, UNCHANGED <<consola, por_ver>>, io[i] # "no", io'[i] # "no",
             \A j \in Interfaces \ {i} :
               io'[j] = io[j] /\ hay_io'[j] = hay_io[j] /\ queue_io'[j] = queue_io[j],
             Len(queue_io'[i]) \in Nat, hay_io'[i] \in Nat, Saldo(i)' = Saldo(i)
      PROVE  SemaforoIo' /\ IoVacias'
  <2>1. IoVacias'
    BY <1>a
  <2>2. ASSUME NEW j \in Interfaces, io'[j] # "no", j # i
        PROVE  hay_io'[j] + Uno(io'[j] \in {"check", "pop"}) = Len(queue_io'[j]) + Debe(j)'
    BY <1>a, <2>2
  <2>3. hay_io'[i] + Uno(io'[i] \in {"check", "pop"}) = Len(queue_io'[i]) + Debe(i)'
    <3>1. Debe(i)' = Debe(i) /\ Debe(i) \in Nat
      BY <1>a
    <3>2. Saldo(i) = Debe(i)
      BY <1>0, <1>a
    <3>3. Saldo(i)' = Debe(i)'
      BY <1>a, <3>1, <3>2
    <3>4. \A h, u, l, d \in Int : h + u - l = d => h + u = l + d
      OBVIOUS
    <3>5. /\ hay_io'[i] \in Int /\ Uno(io'[i] \in {"check", "pop"}) \in Int
          /\ Len(queue_io'[i]) \in Int /\ Debe(i)' \in Int
      BY <1>a, <3>1
    <3> HIDE DEF Debe, Uno
    <3> QED
      BY <3>3, <3>4, <3>5
  <2> QED
    BY <2>1, <2>2, <2>3
<1>1. CASE EncolaIo
  <2>1. mensaje.nombre \in Interfaces /\ pcb \in Pids
    BY <1>1 DEF EncolaIo, TipoInv, CortoInv
  <2>2. PICK i \in Interfaces : i = mensaje.nombre
    BY <2>1
  <2>3. Len(Append(queue_io[i], pcb)) = Len(queue_io[i]) + 1
    BY <1>0, <2>1, AppendProperties
  <2>4. /\ io[i] # "no"
        /\ queue_io' = [queue_io EXCEPT ![i] = Append(queue_io[i], pcb)]
        /\ hay_io' = [hay_io EXCEPT ![i] = hay_io[i] + 1]
        /\ UNCHANGED <<io, consola, por_ver>>
    BY <1>1, <2>2 DEF EncolaIo, fueraCorto, consVars
  <2>5. /\ hay_io'[i] = hay_io[i] + 1 /\ Len(queue_io'[i]) = Len(queue_io[i]) + 1
        /\ \A j \in Interfaces \ {i} : hay_io'[j] = hay_io[j] /\ queue_io'[j] = queue_io[j]
    BY <1>0, <2>3, <2>4
  <2>6. Saldo(i)' = Saldo(i)
    BY <1>0, <2>4, <2>5
  <2>7. io'[i] # "no" /\ hay_io'[i] \in Nat /\ Len(queue_io'[i]) \in Nat
    BY <1>0, <2>4, <2>5
  <2> HIDE DEF Saldo
  <2> QED
    BY <1>a, <2>4, <2>5, <2>6, <2>7
<1>2. ASSUME NEW i \in Interfaces, IoRegistra(i) PROVE SemaforoIo' /\ IoVacias'
  <2>1. Len(queue_io[i]) = 0
    BY <1>2, EmptySeq DEF IoRegistra
  <2> QED
    BY <1>0, <1>2, <2>1 DEF IoRegistra, SostieneCliente, fueraHilos, fueraCorto, consVars
<1>3. ASSUME NEW i \in Interfaces, IoEspera(i) \/ IoCheck(i) \/ IoResponde(i) \/ IoExito(i)
      PROVE  SemaforoIo' /\ IoVacias'
  <2>1. /\ io[i] # "no" /\ io'[i] # "no" /\ queue_io' = queue_io
        /\ hay_io'[i] \in Nat
        /\ hay_io'[i] + Uno(io'[i] \in {"check", "pop"})
             = hay_io[i] + Uno(io[i] \in {"check", "pop"})
        /\ \A j \in Interfaces \ {i} : io'[j] = io[j] /\ hay_io'[j] = hay_io[j]
    BY <1>0, <1>3 DEF IoEspera, IoCheck, IoResponde, IoExito
  <2>2. UNCHANGED <<consola, por_ver>>
    BY <1>3 DEF IoEspera, IoCheck, IoResponde, IoExito, fueraHilos, fueraCorto, consVars
  <2> QED
    BY <1>0, <1>a, <2>1, <2>2, ZenonT(90)
<1>4. ASSUME NEW i \in Interfaces, IoPop(i) PROVE SemaforoIo' /\ IoVacias'
  <2>1. Len(Tail(queue_io[i])) = Len(queue_io[i]) - 1
    BY <1>0, <1>4, HeadTailProperties DEF IoPop
  <2>2. /\ io[i] = "pop" /\ io'[i] = "servir" /\ hay_io' = hay_io
        /\ Len(queue_io'[i]) = Len(queue_io[i]) - 1 /\ Len(queue_io'[i]) \in Nat
        /\ \A j \in Interfaces \ {i} : io'[j] = io[j] /\ queue_io'[j] = queue_io[j]
    BY <1>0, <1>4, <2>1, HeadTailProperties, LenProperties DEF IoPop
  <2>3. UNCHANGED <<consola, por_ver>>
    BY <1>4 DEF IoPop, fueraHilos, fueraCorto, consVars
  <2>4. Saldo(i)' = Saldo(i)
    BY <1>0, <2>2
  <2> HIDE DEF Saldo
  <2> QED
    BY <1>0, <1>a, <2>2, <2>3, <2>4
<1>5. ASSUME NEW i \in Interfaces, NEW resp, IoFalla(i, resp) PROVE SemaforoIo' /\ IoVacias'
  BY <1>0, <1>5 DEF IoFalla, fueraHilos, fueraCorto, consVars
<1>6. ASSUME NEW i \in Interfaces, IoDesconecta(i) PROVE SemaforoIo' /\ IoVacias'
  BY <1>0, <1>6 DEF IoDesconecta, fueraHilos, fueraCorto, consVars
<1>7. ASSUME NEW i \in Interfaces, ConsolaQuitaIo(i) PROVE SemaforoIo' /\ IoVacias'
  <2>1. PICK k \in DOMAIN queue_io[i] : queue_io' = [queue_io EXCEPT ![i] = RemoveAt(@, k)]
    BY <1>7 DEF ConsolaQuitaIo
  <2>2. Len(RemoveAt(queue_io[i], k)) = Len(queue_io[i]) - 1
    BY <1>0, RemoveAtQueue
  <2> QED
    BY <1>0, <1>7, <2>1, <2>2 DEF ConsolaQuitaIo, fueraConsola
<1>8. ASSUME NEW i \in Interfaces, ConsolaEsperaIo(i) PROVE SemaforoIo' /\ IoVacias'
  BY <1>0, <1>8 DEF ConsolaEsperaIo, fueraConsola
<1> QED
  BY <1>1, <1>2, <1>3, <1>4, <1>5, <1>6, <1>7, <1>8, QuienTocaIo

\* Every step keeps the counts.
LEMMA SemPaso == TipoInv /\ SemInv /\ [Next]_vars => SemInv'
BY ReadyPaso, NewPaso, IoPaso DEF SemInv, SemaforosCuentanColas

\* So they hold in every reachable state.
LEMMA SemSiempre == Spec => [](TipoInv /\ SemInv)
<1>1. Init => SemInv
  BY EmptySeq DEF Init, SemInv, SemaforosCuentanColas, SemaforoReady, SemaforoNew, SemaforoIo,
     IoVacias, Uno
<1>2. TipoInv /\ SemInv /\ [Next]_vars => (TipoInv /\ SemInv)'
  BY TipoPaso, SemPaso
<1> QED
  BY <1>1, <1>2, TipoInit, PTL DEF Spec

\* hay_ready, hay_new and every hay_io agree with the queues they count,
\* whatever the order of pushes, pops, FINALIZAR_PROCESO and disconnections.
THEOREM SemaforosCuentan == Spec => []SemaforosCuentanColas
BY SemSiempre, PTL DEF SemInv


-----------------------------------------------------------------------------
(* What a process lists and what it holds.                                 *)

\* Every step keeps ListaRespaldada.
LEMMA ListaPaso ==
    ASSUME TipoInv, ListaRespaldada, [Next]_vars
    PROVE  ListaRespaldada'
<1>0. /\ recursos \in [Pids -> [Recursos -> Nat]] /\ tiene \in [Pids -> [Recursos -> Nat]]
      /\ \A p \in Pids, r \in Recursos : recursos[p][r] \in Nat /\ tiene[p][r] \in Nat
  BY DEF TipoInv, PcbOK, RecOK
\* A release takes from its process a unit it holds, and no more.
<1>1. ASSUME NEW p \in Pids, NEW r \in Recursos, LiberaInstancia(p, r)
      PROVE  \A q \in Pids, s \in Recursos :
               /\ tiene'[q][s] \in Nat
               /\ q # p \/ s # r => tiene'[q][s] >= tiene[q][s]
               /\ q = p /\ s = r => tiene'[q][s] >= tiene[q][s] - 1
  <2> DEFINE w == Despertado(r)
             n(q) == IF q = w THEN tiene[q][r] + 1
                     ELSE IF q = p /\ tiene[q][r] > 0 THEN tiene[q][r] - 1
                     ELSE tiene[q][r]
  <2>1. tiene' = [q \in Pids |-> [tiene[q] EXCEPT ![r] = n(q)]]
    BY <1>0, <1>1 DEF LiberaInstancia
  <2>2. \A q \in Pids : /\ n(q) \in Nat /\ n(q) >= tiene[q][r] - 1
                        /\ q # p => n(q) >= tiene[q][r]
    BY <1>0
  <2> HIDE DEF n
  <2>3. \A q \in Pids, s \in Recursos :
          tiene'[q][s] = IF s = r THEN n(q) ELSE tiene[q][s]
    BY <1>0, <2>1
  <2> QED
    BY <1>0, <2>2, <2>3
<1>2. CASE AtiendeWait
  <2>1. PICK r \in Recursos : r = mensaje.nombre
    BY <1>2 DEF AtiendeWait
  <2>2. pcb \in Pids
    BY <1>2 DEF AtiendeWait, TipoInv, CortoInv
  <2>3. CASE Alcanza(r)
    <3>1. /\ recursos' = [recursos EXCEPT ![pcb] = [recursos[pcb] EXCEPT ![r] = recursos[pcb][r] + 1]]
          /\ tiene' = [tiene EXCEPT ![pcb] = [tiene[pcb] EXCEPT ![r] = tiene[pcb][r] + 1]]
      BY <1>2, <2>1, <2>3 DEF AtiendeWait
    <3>2. \A q \in Pids, s \in Recursos :
            IF q = pcb /\ s = r
            THEN recursos'[q][s] = recursos[q][s] + 1 /\ tiene'[q][s] = tiene[q][s] + 1
            ELSE recursos'[q][s] = recursos[q][s] /\ tiene'[q][s] = tiene[q][s]
      BY <1>0, <2>2, <3>1
    <3> QED
      BY <1>0, <3>2 DEF ListaRespaldada
  <2>4. CASE ~Alcanza(r)
    BY <1>2, <2>1, <2>4 DEF AtiendeWait, ListaRespaldada
  <2> QED
    BY <2>3, <2>4
<1>3. CASE AtiendeSignal
  <2>1. PICK r \in Recursos : r = mensaje.nombre
    BY <1>3 DEF AtiendeSignal
  <2>2. /\ pcb \in Pids /\ LiberaInstancia(pcb, r)
        /\ recursos' = [recursos EXCEPT ![pcb] = [recursos[pcb] EXCEPT ![r] = 0]]
    BY <1>3, <2>1 DEF AtiendeSignal, SinRecurso, TipoInv, CortoInv
  <2>3. \A q \in Pids, s \in Recursos :
          recursos'[q][s] = IF q = pcb /\ s = r THEN 0 ELSE recursos[q][s]
    BY <1>0, <2>2
  <2> QED
    BY <1>0, <1>1, <2>2, <2>3 DEF ListaRespaldada
<1>4. ASSUME NEW p \in Pids, FinLibera(p) PROVE ListaRespaldada'
  <2>1. PICK r \in Recursos : /\ recursos[p][r] > 0
                              /\ recursos' = [recursos EXCEPT ![p][r] = @ - 1]
                              /\ LiberaInstancia(p, r)
    BY <1>4 DEF FinLibera
  <2>2. \A q \in Pids, s \in Recursos :
          recursos'[q][s] = IF q = p /\ s = r THEN recursos[q][s] - 1 ELSE recursos[q][s]
    BY <1>0, <2>1
  <2> QED
    BY <1>0, <1>1, <2>1, <2>2 DEF ListaRespaldada
<1>5. CASE \E r \in Recursos : ConsolaQuitaEspera(r)
  BY <1>5 DEF ConsolaQuitaEspera, FinalizarProceso, ListaRespaldada
<1>6. CASE UNCHANGED <<recVars, recursos>>
  BY <1>6 DEF recVars, ListaRespaldada
<1> QED
  BY <1>2, <1>3, <1>4, <1>5, <1>6, QuienMueveRecursos

\* A process never lists a unit it does not hold, so its exit thread gives
\* back none twice, whoever was woken in between.
THEOREM ListaSiempreRespaldada == Spec => []ListaRespaldada
<1>1. Init => ListaRespaldada
  BY DEF Init, ListaRespaldada
<1>2. TipoInv /\ ListaRespaldada /\ [Next]_vars => (TipoInv /\ ListaRespaldada)'
  BY TipoPaso, ListaPaso
<1> QED
  BY <1>1, <1>2, TipoInit, PTL DEF Spec

-----------------------------------------------------------------------------
(* DETENER_PLANIFICACION.                                                  *)

\* A dispatch past its check_plani when planning stops is the last one.
PausaInv ==
    plani_run = 0 => despachos + Uno(corto \in {"pop", "despacho"}) <= 1

\* Every step keeps PausaAcotada.
LEMMA PausaPaso ==
    ASSUME TipoInv, PausaInv, [Next]_vars
    PROVE  PausaInv'
<1> USE DEF PausaInv, Uno
<1>0. plani_run \in {0, 1} /\ despachos \in Nat
  BY DEF TipoInv, PlanOK
<1>1. CortoCheck \/ CortoPop \/ CortoDespacho => PausaInv'
  BY <1>0 DEF CortoCheck, CortoPop, CortoDespacho, check_plani, fueraCorto, planVars
<1>2. DetenerPlanificacion \/ IniciarPlanificacion => PausaInv'
  BY <1>0 DEF DetenerPlanificacion, IniciarPlanificacion
<1>3. \/ UNCHANGED vars \/ Largo \/ MultiChangeWaits \/ CpuResponde \/ EnviarNew
      \/ \E n \in Grados : CambiarMultiprogramacion(n)
      \/ \E p \in Pids : FinalizarPid(p)
      => PausaInv'
  BY <1>0, SMTT(60) DEF vars, Largo, LargoMulti, LargoHayNew, LargoCheck, LargoAdmite, MultiChangeWaits,
     CpuResponde, EnviarNew, CambiarMultiprogramacion, FinalizarPid, planVars, cortoVars,
     fueraHilos, fueraCorto, fueraConsola
<1>4. Corto /\ ~CortoCheck /\ ~CortoPop /\ ~CortoDespacho => PausaInv'
  BY <1>0 DEF Corto, CortoEspera, CortoPopVacia, CortoCheckExec, AtiendeDesconocido, AtiendeIo,
     EncolaIo, EncolaIoDestruida, AtiendeWait, CortoBloquea, AtiendeSignal, CortoDespierta,
     CortoCuenta, RuteaFinal, RuteaDobleFin, RuteaReady, RuteaAjeno, CortoVuelta, Cae, planVars,
     cortoVars, fueraCorto
<1>5. (\E p \in Pids : Fin(p)) \/ (\E i \in Interfaces : Io(i)) => PausaInv'
  BY <1>0 DEF Fin, FinCheck, FinLibera, FinDespierta, FinLibre, Io, IoTrabaja, IoRegistra,
     IoResponde, IoEspera, IoCheck, IoPop, IoPopVacia, IoExito, IoFalla, IoDesconecta, Cae,
     planVars, cortoVars, fueraHilos, fueraCorto
<1>6. ConsolaSigue => PausaInv'
  BY <1>0 DEF ConsolaSigue, ConsolaInterrumpe, ConsolaQuitaReady, ConsolaEsperaReady,
     ConsolaNoEnReady, ConsolaMiraIos, ConsolaNoExiste, ConsolaQuitaEspera, ConsolaNoEspera,
     ConsolaQuitaIo, ConsolaEsperaIo, ConsolaNoIo, ConsolaIoDestruida, Cae, planVars, cortoVars,
     fueraConsola
<1> QED
  BY <1>1, <1>2, <1>3, <1>4, <1>5, <1>6 DEF Next, Comando

\* While planning is stopped at most one process is dispatched: the one
\* already past its check_plani.
THEOREM PausaSiempreAcotada == Spec => []PausaAcotada
<1>1. Init => PausaInv
  BY DEF Init, PausaInv
<1>2. TipoInv /\ PausaInv /\ [Next]_vars => (TipoInv /\ PausaInv)'
  BY TipoPaso, PausaPaso
<1>3. TipoInv /\ PausaInv => PausaAcotada
  BY DEF TipoInv, PlanOK, PausaInv, PausaAcotada, Uno
<1> QED
  BY <1>1, <1>2, <1>3, TipoInit, PTL DEF Spec

-----------------------------------------------------------------------------
(* The places of the processes: a live process is in one queue or in the   *)
(* hands of one thread.  From it follow why the kernel crashes, that the   *)
(* degree of multiprogramming is exact, that the threads implement         *)
(* CicloDeVida, and that resources exclude.                                *)



\* A queue holds no process twice.
SinRepetir(s) == \A j, k \in DOMAIN s : s[j] = s[k] => j = k

ColasSinRepetir ==
    /\ SinRepetir(queue_new) /\ SinRepetir(queue_ready)
    /\ SinRepetir(queue_priority_ready)
    /\ \A r \in Recursos : SinRepetir(queue_waiting[r])
    /\ \A i \in Interfaces : SinRepetir(queue_io[i])

\* Process p is in the place of kind k (and of resource, interface or exit
\* thread x) and in no other; in "nada" when it is not created or ended.
Ubicado(p, k, x) ==
    /\ \/ k \in {"new", "ready", "prioridad", "exec", "despierta_corto", "perdido", "consola",
               "nada"}
       \/ k = "recurso" /\ x \in Recursos
       \/ k \in {"io", "interfaz"} /\ x \in Interfaces
       \/ k = "despierta" /\ x \in Pids
    /\ Contains(queue_new, p) <=> k = "new"
    /\ Contains(queue_ready, p) <=> k = "ready"
    /\ Contains(queue_priority_ready, p) <=> k = "prioridad"
    /\ \A r \in Recursos : Contains(queue_waiting[r], p) <=> k = "recurso" /\ x = r
    /\ \A i \in Interfaces : Contains(queue_io[i], p) <=> k = "io" /\ x = i
    /\ \A i \in Interfaces : io_pcb[i] = p <=> k = "interfaz" /\ x = i
    /\ \A q \in Pids : despierta[q] = p <=> k = "despierta" /\ x = q
    /\ en_exec = p <=> k = "exec"
    /\ a_ready = p <=> k = "despierta_corto"
    /\ p \in perdidos <=> k = "perdido"
    /\ (consola = "wait_io" /\ pid_fin = p) <=> k = "consola"
    /\ (p \in Creados /\ fin[p] = "no") <=> k # "nada"

Ubicacion == \A p \in Pids : \E k, x : Ubicado(p, k, x)

\* Which thread holds a process, by its control point.
Manos ==
    /\ corto \in {"espera", "check", "pop", "vuelta", "bloquea"} => en_exec = Nadie
    /\ corto \in {"despacho", "cpu", "check_exec", "atiende", "encola_io", "despierta"}
         => en_exec = pcb
    /\ corto \in {"cuenta", "rutea"} => en_exec \in {pcb, Nadie}
    /\ a_ready # Nadie => corto = "despierta"
    /\ \A i \in Interfaces : io_pcb[i] # Nadie => io[i] \in {"servir", "check_io"}
    /\ \A p \in Pids : despierta[p] # Nadie => fin[p] = "despierta"
    /\ \A p \in Pids \ Creados : fin[p] = "no"

\* Whether corto_main will end or requeue the process it holds, and what it
\* may read in the PCB of one it has handed over.
Rumbo ==
    /\ \/ corto \in {"check_exec", "atiende"} /\ mensaje.op \in {"PCB", "SIGNAL"}
       \/ corto = "despierta"
       \/ corto \in {"cuenta", "rutea"} /\ en_exec = pcb
       => status[pcb] \in EstadosFinales \cup EstadosListos
    /\ corto = "encola_io" => mensaje.op = "IO" /\ status[pcb] = "BLOCKED_IO"
    /\ corto \in {"bloquea", "cuenta", "rutea"} /\ en_exec = Nadie
         => mensaje.op \in {"IO", "WAIT"}
    /\ corto \in {"cuenta", "rutea"} /\ en_exec = Nadie
         => IF fin[pcb] = "no" THEN status[pcb] \in {"BLOCKED_IO", "BLOCKED_WAIT", "READY"}
                               ELSE status[pcb] \in {"BLOCKED_IO", "BLOCKED_WAIT", "TERMINATED"}

LugarInv == ColasSinRepetir /\ Ubicacion /\ Manos /\ Rumbo

-----------------------------------------------------------------------------
(* What the operations on queues do to their members.                      *)

\* Pushing p adds p and nothing else.
LEMMA EncolarMiembros ==
    ASSUME NEW S, NEW s \in Seq(S), NEW p \in S, SinRepetir(s), ~Contains(s, p)
    PROVE  /\ SinRepetir(Append(s, p))
           /\ \A q : Contains(Append(s, p), q) <=> Contains(s, q) \/ q = p
<1>1. /\ Len(s) \in Nat /\ DOMAIN s = 1 .. Len(s)
      /\ Append(s, p) \in Seq(S) /\ Len(Append(s, p)) = Len(s) + 1
      /\ DOMAIN Append(s, p) = 1 .. Len(s) + 1
      /\ \A k \in 1 .. Len(s) : Append(s, p)[k] = s[k]
      /\ Append(s, p)[Len(s) + 1] = p
  BY AppendProperties, LenProperties
<1> HIDE DEF Append
<1>2. SinRepetir(Append(s, p))
  BY <1>1 DEF SinRepetir, Contains
<1>3. ASSUME NEW q PROVE Contains(Append(s, p), q) <=> Contains(s, q) \/ q = p
  BY <1>1 DEF Contains
<1> QED
  BY <1>2, <1>3

\* Popping takes the head and nothing else.
LEMMA SacarMiembros ==
    ASSUME NEW S, NEW s \in Seq(S), s # <<>>, SinRepetir(s)
    PROVE  /\ SinRepetir(Tail(s)) /\ Head(s) \in S /\ Contains(s, Head(s))
           /\ \A q : Contains(Tail(s), q) <=> Contains(s, q) /\ q # Head(s)
<1>1. /\ Len(s) \in Nat /\ DOMAIN s = 1 .. Len(s) /\ Len(s) >= 1
      /\ Tail(s) \in Seq(S) /\ Len(Tail(s)) = Len(s) - 1
      /\ DOMAIN Tail(s) = 1 .. Len(s) - 1
      /\ \A k \in 1 .. Len(s) - 1 : Tail(s)[k] = s[k + 1]
      /\ Head(s) = s[1] /\ Head(s) \in S
  BY HeadTailProperties, LenProperties, EmptySeq
<1>2. SinRepetir(Tail(s))
  BY <1>1 DEF SinRepetir
<1>3. Contains(s, Head(s))
  BY <1>1 DEF Contains
<1>4. ASSUME NEW q PROVE Contains(Tail(s), q) <=> Contains(s, q) /\ q # Head(s)
  <2>1. ASSUME Contains(Tail(s), q) PROVE Contains(s, q) /\ q # Head(s)
    BY <1>1, <2>1 DEF Contains, SinRepetir
  <2>2. ASSUME Contains(s, q), q # Head(s) PROVE Contains(Tail(s), q)
    <3>1. PICK k \in 1 .. Len(s) : s[k] = q
      BY <2>2 DEF Contains
    <3>2. k # 1 /\ k - 1 \in 1 .. Len(s) - 1 /\ Tail(s)[k - 1] = q
      BY <1>1, <2>2, <3>1
    <3> QED
      BY <1>1, <3>2 DEF Contains
  <2> QED
    BY <2>1, <2>2
<1> QED
  BY <1>1, <1>2, <1>3, <1>4

\* list_remove_by_condition takes the element found and nothing else.
LEMMA QuitarMiembros ==
    ASSUME NEW S, NEW s \in Seq(S), NEW k \in DOMAIN s, SinRepetir(s)
    PROVE  /\ SinRepetir(RemoveAt(s, k)) /\ Contains(s, s[k])
           /\ \A q : Contains(RemoveAt(s, k), q) <=> Contains(s, q) /\ q # s[k]
<1> DEFINE t == RemoveAt(s, k)
<1>1. /\ Len(s) \in Nat /\ DOMAIN s = 1 .. Len(s) /\ k \in 1 .. Len(s)
      /\ t \in Seq(S) /\ Len(t) = Len(s) - 1 /\ DOMAIN t = 1 .. Len(s) - 1
  BY LenProperties, RemoveAtQueue
<1>2. \A j \in 1 .. Len(s) - 1 : t[j] = IF j < k THEN s[j] ELSE s[j + 1]
  <2> DEFINE a == SubSeq(s, 1, k - 1)
             b == SubSeq(s, k + 1, Len(s))
  <2>1. /\ a \in Seq(S) /\ Len(a) = k - 1
        /\ \A j \in 1 .. k - 1 : a[j] = s[j]
    BY <1>1, SubSeqProperties, ElementOfSeq
  <2>2. /\ b \in Seq(S) /\ Len(b) = Len(s) - k
        /\ \A j \in 1 .. Len(s) - k : b[j] = s[j + k]
    <3>1. \A j \in (k + 1) .. Len(s) : s[j] \in S
      BY <1>1, ElementOfSeq
    <3> QED
      BY <1>1, <3>1, SubSeqProperties, SMTT(60)
  <2>3. t = a \o b
    BY DEF RemoveAt
  <2> HIDE DEF a, b, t
  <2>4. \A j \in 1 .. Len(s) - 1 : t[j] = IF j <= Len(a) THEN a[j] ELSE b[j - Len(a)]
    <3>1. \A j \in 1 .. Len(a) + Len(b) :
            (a \o b)[j] = IF j <= Len(a) THEN a[j] ELSE b[j - Len(a)]
      BY <2>1, <2>2, ConcatProperties
    <3>2. Len(a) + Len(b) = Len(s) - 1
      BY <1>1, <2>1, <2>2, SMTT(60)
    <3> QED
      BY <2>3, <3>1, <3>2
  <2>5. ASSUME NEW j \in 1 .. Len(s) - 1, j < k PROVE t[j] = s[j]
    <3>1. j <= Len(a) /\ j \in 1 .. k - 1
      BY <1>1, <2>1, <2>5
    <3> QED
      BY <2>1, <2>4, <3>1
  <2>6. ASSUME NEW j \in 1 .. Len(s) - 1, ~(j < k) PROVE t[j] = s[j + 1]
    <3>1. j - Len(a) \in 1 .. Len(s) - k /\ (j - Len(a)) + k = j + 1 /\ ~(j <= Len(a))
      BY <1>1, <2>1, <2>6, SMTT(60)
    <3>2. t[j] = b[j - Len(a)]
      BY <2>4, <3>1
    <3> QED
      BY <2>2, <3>1, <3>2
  <2> QED
    BY <2>5, <2>6
<1> HIDE DEF t
<1>3. SinRepetir(t)
  BY <1>1, <1>2, SMTT(60) DEF SinRepetir
<1>4. Contains(s, s[k])
  BY <1>1 DEF Contains
<1>5. ASSUME NEW q PROVE Contains(t, q) <=> Contains(s, q) /\ q # s[k]
  <2>1. ASSUME Contains(t, q) PROVE Contains(s, q) /\ q # s[k]
    BY <1>1, <1>2, <2>1, SMTT(60) DEF Contains, SinRepetir
  <2>2. ASSUME Contains(s, q), q # s[k] PROVE Contains(t, q)
    <3>1. PICK j \in 1 .. Len(s) : s[j] = q
      BY <2>2 DEF Contains
    <3>2. j # k
      BY <2>2, <3>1
    <3>3. CASE j < k
      BY <1>1, <1>2, <3>1, <3>3 DEF Contains
    <3>4. CASE j > k
      <4>1. j - 1 \in 1 .. Len(s) - 1 /\ t[j - 1] = q
        BY <1>1, <1>2, <3>1, <3>4
      <4> QED
        BY <1>1, <4>1 DEF Contains
    <3> QED
      BY <1>1, <3>1, <3>2, <3>3, <3>4
  <2> QED
    BY <2>1, <2>2
<1> QED
  BY <1>3, <1>4, <1>5 DEF t

\* An empty queue has no members.
LEMMA VaciaMiembros == SinRepetir(<<>>) /\ \A q : ~Contains(<<>>, q)
BY EmptySeq DEF SinRepetir, Contains

-----------------------------------------------------------------------------
(* Moves of a process between places.                                      *)

\* The variables that say where the processes are, except fin and the
\* console's hold on the process it took from an interface.
lugarVars == <<queue_new, queue_ready, queue_priority_ready, queue_waiting, queue_io,
               io_pcb, despierta, en_exec, a_ready, perdidos, next_pid>>

Quieto(q) == \A k, x : Ubicado(q, k, x) => Ubicado(q, k, x)'

\* p goes from a place of desde to one of hacia; no other process moves.
Traslado(p, desde, hacia) ==
    /\ p \in Pids
    /\ \E k \in desde : \E x : Ubicado(p, k, x)
    /\ \E k \in hacia : \E x : Ubicado(p, k, x)'
    /\ \A q \in Pids \ {p} : Quieto(q)

\* A step that touches no place.
NoMueve ==
    /\ UNCHANGED lugarVars
    /\ \A p \in Pids : fin'[p] = "no" <=> fin[p] = "no"
    /\ (consola' = "wait_io") <=> (consola = "wait_io")
    /\ consola = "wait_io" => pid_fin' = pid_fin

\* Nadie is not a process.
LEMMA NadieNoEsPid == Nadie \notin Pids /\ Pids \subseteq Int
BY CotasAssumption DEF Nadie, Pids

\* A step that touches no place leaves every process where it was.
LEMMA NoMueveQuieto ==
    ASSUME NoMueve
    PROVE  /\ \A q \in Pids : Quieto(q)
           /\ ColasSinRepetir => ColasSinRepetir'
           /\ Ubicacion => Ubicacion'
<1>1. ASSUME NEW q \in Pids, NEW k, NEW x, Ubicado(q, k, x) PROVE Ubicado(q, k, x)'
  BY <1>1 DEF NoMueve, lugarVars, Ubicado, Creados
<1>2. ColasSinRepetir => ColasSinRepetir'
  BY DEF NoMueve, lugarVars, ColasSinRepetir
<1> QED
  BY <1>1, <1>2 DEF Quieto, Ubicacion

\* A step that moves one process keeps every process in its place.
LEMMA TrasladoUbica ==
    ASSUME Ubicacion, NEW p, NEW desde, NEW hacia, Traslado(p, desde, hacia)
    PROVE  Ubicacion'
BY DEF Ubicacion, Traslado, Quieto

\* Entering a ready queue from elsewhere.
LEMMA EntraReady ==
    ASSUME ColasOK, ColasSinRepetir, NEW p \in Pids, NEW b, PushReady(p, b),
           ~Contains(queue_ready, p), ~Contains(queue_priority_ready, p)
    PROVE  /\ queue_new' = queue_new
           /\ SinRepetir(queue_ready') /\ SinRepetir(queue_priority_ready')
           /\ \/ /\ queue_priority_ready' = queue_priority_ready
                 /\ \A q : Contains(queue_ready', q) <=> Contains(queue_ready, q) \/ q = p
              \/ /\ queue_ready' = queue_ready
                 /\ \A q : Contains(queue_priority_ready', q)
                             <=> Contains(queue_priority_ready, q) \/ q = p
<1>1. \/ /\ queue_priority_ready' = queue_priority_ready
         /\ queue_ready' = Append(queue_ready, p)
      \/ /\ queue_ready' = queue_ready
         /\ queue_priority_ready' = Append(queue_priority_ready, p)
  BY DEF PushReady
<1>2. /\ SinRepetir(Append(queue_ready, p))
      /\ \A q : Contains(Append(queue_ready, p), q) <=> Contains(queue_ready, q) \/ q = p
  BY EncolarMiembros DEF ColasOK, ColasSinRepetir
<1>3. /\ SinRepetir(Append(queue_priority_ready, p))
      /\ \A q : Contains(Append(queue_priority_ready, p), q)
                  <=> Contains(queue_priority_ready, q) \/ q = p
  BY EncolarMiembros DEF ColasOK, ColasSinRepetir
<1> QED
  BY <1>1, <1>2, <1>3 DEF PushReady, ColasSinRepetir

\* A release takes its waiter, if any, out of the queue of r.
LEMMA SaleDeRecurso ==
    ASSUME RecOK, ColasSinRepetir, NEW p \in Pids, NEW r \in Recursos, LiberaInstancia(p, r)
    PROVE  /\ \A s \in Recursos : SinRepetir(queue_waiting'[s])
           /\ Despertado(r) = Nadie => queue_waiting' = queue_waiting
           /\ Despertado(r) # Nadie =>
                /\ Despertado(r) \in Pids /\ Contains(queue_waiting[r], Despertado(r))
                /\ \A s \in Recursos : \A q :
                     Contains(queue_waiting'[s], q)
                       <=> Contains(queue_waiting[s], q) /\ ~(s = r /\ q = Despertado(r))
<1> DEFINE w == Despertado(r)
<1>1. queue_waiting' = [queue_waiting EXCEPT ![r] = IF w = Nadie THEN @ ELSE Tail(@)]
  BY DEF LiberaInstancia
<1>2. queue_waiting \in [Recursos -> Seq(Pids)] /\ SinRepetir(queue_waiting[r])
  BY DEF RecOK, ColasSinRepetir
<1>3. CASE w = Nadie
  BY <1>1, <1>2, <1>3 DEF ColasSinRepetir
<1>4. CASE w # Nadie
  <2>1. queue_waiting[r] # <<>> /\ w = Head(queue_waiting[r])
    BY <1>4 DEF Despertado
  <2>2. /\ w \in Pids /\ Contains(queue_waiting[r], w)
        /\ SinRepetir(Tail(queue_waiting[r]))
        /\ \A q : Contains(Tail(queue_waiting[r]), q) <=> Contains(queue_waiting[r], q) /\ q # w
    BY <1>2, <2>1, SacarMiembros
  <2>3. /\ queue_waiting'[r] = Tail(queue_waiting[r])
        /\ \A s \in Recursos \ {r} : queue_waiting'[s] = queue_waiting[s]
    BY <1>1, <1>2, <1>4
  <2> QED
    BY <1>4, <2>2, <2>3 DEF ColasSinRepetir
<1> QED
  BY <1>3, <1>4

-----------------------------------------------------------------------------
(* The steps that move a process.                                          *)

\* The console creates a process: from nowhere to NEW.
LEMMA MueveEnviarNew ==
    ASSUME TipoInv, LugarInv, EnviarNew, NEW p, p = next_pid
    PROVE  ColasSinRepetir' /\ Traslado(p, {"nada"}, {"new"})
<1>1. /\ p \in Pids /\ p \notin Creados /\ p \in Creados'
      /\ \A q \in Pids \ {p} : q \in Creados' <=> q \in Creados
  BY CotasAssumption DEF EnviarNew, TipoInv, ConsInv, ConsOK, Pids, Creados
<1>2. PICK k, x : Ubicado(p, k, x)
  BY <1>1 DEF LugarInv, Ubicacion
<1>3. k = "nada"
  BY <1>1, <1>2 DEF Ubicado
<1>4. fin[p] = "no"
  BY <1>1 DEF LugarInv, Manos
<1>5. /\ SinRepetir(queue_new')
      /\ \A q : Contains(queue_new', q) <=> Contains(queue_new, q) \/ q = p
  BY <1>1, <1>2, <1>3, EncolarMiembros
  DEF EnviarNew, TipoInv, ColasOK, LugarInv, ColasSinRepetir, Ubicado
<1>6. /\ UNCHANGED <<queue_ready, queue_priority_ready, queue_waiting, queue_io, io_pcb,
                     despierta, en_exec, a_ready, perdidos, fin, consola, pid_fin>>
  BY DEF EnviarNew, multiVars, pcbVars, recVars, ioVars, finVars, fueraConsola,
     cortoVars, cortoRegs
<1>7. Ubicado(p, "new", x)'
  BY <1>1, <1>2, <1>3, <1>4, <1>5, <1>6 DEF Ubicado
<1>8. ASSUME NEW q \in Pids \ {p}, NEW l, NEW y, Ubicado(q, l, y) PROVE Ubicado(q, l, y)'
  BY <1>1, <1>5, <1>6, <1>8 DEF Ubicado
<1>9. ColasSinRepetir'
  BY <1>5, <1>6 DEF ColasSinRepetir, LugarInv
<1> QED
  BY <1>1, <1>2, <1>3, <1>7, <1>8, <1>9 DEF Traslado, Quieto

\* The long-term scheduler admits one: from NEW to READY.
LEMMA MueveLargoAdmite ==
    ASSUME TipoInv, LugarInv, LargoAdmite, NEW p, p = Head(queue_new)
    PROVE  ColasSinRepetir' /\ Traslado(p, {"new"}, {"ready"})
<1>1. /\ p \in Pids /\ Contains(queue_new, p) /\ SinRepetir(queue_new')
      /\ \A q : Contains(queue_new', q) <=> Contains(queue_new, q) /\ q # p
  BY SacarMiembros DEF LargoAdmite, TipoInv, ColasOK, LugarInv, ColasSinRepetir
<1>2. PICK k, x : Ubicado(p, k, x)
  BY <1>1 DEF LugarInv, Ubicacion
<1>3. k = "new"
  BY <1>1, <1>2 DEF Ubicado
<1>4. /\ SinRepetir(queue_ready')
      /\ \A q : Contains(queue_ready', q) <=> Contains(queue_ready, q) \/ q = p
  BY <1>1, <1>2, <1>3, EncolarMiembros
  DEF LargoAdmite, TipoInv, ColasOK, LugarInv, ColasSinRepetir, Ubicado
<1>5. /\ UNCHANGED <<queue_priority_ready, queue_waiting, queue_io, io_pcb, despierta,
                     en_exec, a_ready, perdidos, next_pid, fin, consola, pid_fin>>
  BY DEF LargoAdmite, recVars, ioVars, finVars, cortoVars, cortoRegs, consVars, consRegs
<1>6. Ubicado(p, "ready", x)'
  BY <1>1, <1>2, <1>3, <1>4, <1>5 DEF Ubicado, Creados
<1>7. ASSUME NEW q \in Pids \ {p}, NEW l, NEW y, Ubicado(q, l, y) PROVE Ubicado(q, l, y)'
  BY <1>1, <1>4, <1>5, <1>7 DEF Ubicado, Creados
<1>8. ColasSinRepetir'
  BY <1>1, <1>4, <1>5 DEF ColasSinRepetir, LugarInv
<1> QED
  BY <1>1, <1>2, <1>3, <1>6, <1>7, <1>8 DEF Traslado, Quieto

\* The short-term scheduler takes one out of READY.
LEMMA MueveCortoPop ==
    ASSUME TipoInv, LugarInv, CortoPop, NEW p, p = pcb'
    PROVE  ColasSinRepetir' /\ Traslado(p, {"ready", "prioridad"}, {"exec"})
<1> DEFINE prio == queue_priority_ready # <<>>
           c == IF prio THEN queue_priority_ready ELSE queue_ready
<1>1. /\ c \in Seq(Pids) /\ c # <<>> /\ SinRepetir(c) /\ p = Head(c)
      /\ queue_priority_ready' = IF prio THEN Tail(c) ELSE queue_priority_ready
      /\ queue_ready' = IF prio THEN queue_ready ELSE Tail(c)
  BY DEF CortoPop, TipoInv, ColasOK, LugarInv, ColasSinRepetir
<1>2. /\ p \in Pids /\ Contains(c, p) /\ SinRepetir(Tail(c))
      /\ \A q : Contains(Tail(c), q) <=> Contains(c, q) /\ q # p
  BY <1>1, SacarMiembros
<1>3. PICK k, x : Ubicado(p, k, x)
  BY <1>2 DEF LugarInv, Ubicacion
<1>4. k = IF prio THEN "prioridad" ELSE "ready"
  BY <1>2, <1>3 DEF Ubicado
<1>5. /\ en_exec = Nadie /\ en_exec' = p
      /\ UNCHANGED <<queue_new, queue_waiting, queue_io, io_pcb, despierta, a_ready,
                     perdidos, next_pid, fin, consola, pid_fin>>
  BY DEF CortoPop, LugarInv, Manos, recVars, ioVars, finVars, fueraCorto, consVars, consRegs
<1>6. /\ \A q : Contains(queue_ready', q)
                  <=> Contains(queue_ready, q) /\ ~(~prio /\ q = p)
      /\ \A q : Contains(queue_priority_ready', q)
                  <=> Contains(queue_priority_ready, q) /\ ~(prio /\ q = p)
  BY <1>1, <1>2
<1> HIDE DEF prio, c
<1>7. Ubicado(p, "exec", x)'
  BY <1>2, <1>3, <1>4, <1>5, <1>6 DEF Ubicado, Creados
<1>8. ASSUME NEW q \in Pids \ {p}, NEW l, NEW y, Ubicado(q, l, y) PROVE Ubicado(q, l, y)'
  <2>1. en_exec' = q <=> en_exec = q
    BY <1>5, NadieNoEsPid
  <2> QED
    BY <1>5, <1>6, <1>8, <2>1 DEF Ubicado, Creados
<1>9. ColasSinRepetir'
  BY <1>1, <1>2, <1>5 DEF ColasSinRepetir, LugarInv
<1> QED
  BY <1>2, <1>3, <1>4, <1>7, <1>8, <1>9 DEF Traslado, Quieto

\* A request of IO goes to the queue of its interface.
LEMMA MueveEncolaIo ==
    ASSUME TipoInv, LugarInv, EncolaIo, NEW p, p = pcb
    PROVE  ColasSinRepetir' /\ Traslado(p, {"exec"}, {"io"})
<1>1. PICK i \in Interfaces : i = mensaje.nombre
  BY DEF EncolaIo, TipoInv, CortoInv
<1>2. p \in Pids /\ en_exec = p /\ p # Nadie
  BY NadieNoEsPid DEF EncolaIo, TipoInv, CortoInv, LugarInv, Manos
<1>3. PICK k, x : Ubicado(p, k, x)
  BY <1>2 DEF LugarInv, Ubicacion
<1>4. k = "exec"
  BY <1>2, <1>3 DEF Ubicado
<1>5. /\ queue_io' = [queue_io EXCEPT ![i] = Append(@, p)] /\ en_exec' = Nadie
      /\ UNCHANGED <<queue_new, queue_ready, queue_priority_ready, queue_waiting, io_pcb,
                     despierta, a_ready, perdidos, next_pid, fin, consola, pid_fin>>
  BY <1>1 DEF EncolaIo, colaVars, recVars, finVars, fueraCorto, consVars, consRegs
<1>6. /\ SinRepetir(Append(queue_io[i], p))
      /\ \A q : Contains(Append(queue_io[i], p), q) <=> Contains(queue_io[i], q) \/ q = p
  BY <1>1, <1>2, <1>3, <1>4, EncolarMiembros
  DEF TipoInv, IoInv, IoOK, LugarInv, ColasSinRepetir, Ubicado
<1>7. /\ \A j \in Interfaces : SinRepetir(queue_io'[j])
      /\ \A j \in Interfaces : \A q :
           Contains(queue_io'[j], q) <=> Contains(queue_io[j], q) \/ (j = i /\ q = p)
  BY <1>5, <1>6 DEF TipoInv, IoInv, IoOK, LugarInv, ColasSinRepetir
<1>8. Ubicado(p, "io", i)'
  BY <1>2, <1>3, <1>4, <1>5, <1>7 DEF Ubicado, Creados
<1>9. ASSUME NEW q \in Pids \ {p}, NEW l, NEW y, Ubicado(q, l, y) PROVE Ubicado(q, l, y)'
  <2>1. en_exec' = q <=> en_exec = q
    BY <1>2, <1>5, NadieNoEsPid
  <2> QED
    BY <1>5, <1>7, <1>9, <2>1 DEF Ubicado, Creados
<1>10. ColasSinRepetir'
  BY <1>5, <1>7 DEF ColasSinRepetir, LugarInv
<1> QED
  BY <1>2, <1>3, <1>4, <1>8, <1>9, <1>10 DEF Traslado, Quieto

\* WAIT moves the process when no unit is left.
LEMMA MueveAtiendeWait ==
    ASSUME TipoInv, LugarInv, AtiendeWait, NEW p, p = pcb
    PROVE  NoMueve \/ (ColasSinRepetir' /\ Traslado(p, {"exec"}, {"recurso"}))
<1>1. PICK r \in Recursos : r = mensaje.nombre
  BY DEF AtiendeWait
<1>2. p \in Pids /\ en_exec = p /\ p # Nadie
  BY NadieNoEsPid DEF AtiendeWait, TipoInv, CortoInv, LugarInv, Manos
<1>3. UNCHANGED <<queue_new, queue_ready, queue_priority_ready, queue_io, io_pcb,
                  despierta, a_ready, perdidos, next_pid, fin, consola, pid_fin>>
  BY DEF AtiendeWait, colaVars, ioVars, finVars, fueraCorto, consVars, consRegs
<1>4. CASE Alcanza(r)
  BY <1>1, <1>3, <1>4 DEF AtiendeWait, NoMueve, lugarVars
<1>5. CASE ~Alcanza(r)
  <2>1. /\ queue_waiting' = [queue_waiting EXCEPT ![r] = Append(@, p)]
        /\ en_exec' = Nadie
    BY <1>1, <1>5 DEF AtiendeWait
  <2>2. PICK k, x : Ubicado(p, k, x)
    BY <1>2 DEF LugarInv, Ubicacion
  <2>3. k = "exec"
    BY <1>2, <2>2 DEF Ubicado
  <2>4. /\ SinRepetir(Append(queue_waiting[r], p))
        /\ \A q : Contains(Append(queue_waiting[r], p), q)
                    <=> Contains(queue_waiting[r], q) \/ q = p
    BY <1>1, <1>2, <2>2, <2>3, EncolarMiembros
    DEF TipoInv, RecOK, LugarInv, ColasSinRepetir, Ubicado
  <2>5. /\ \A s \in Recursos : SinRepetir(queue_waiting'[s])
        /\ \A s \in Recursos : \A q :
             Contains(queue_waiting'[s], q)
               <=> Contains(queue_waiting[s], q) \/ (s = r /\ q = p)
    BY <2>1, <2>4 DEF TipoInv, RecOK, LugarInv, ColasSinRepetir
  <2>6. Ubicado(p, "recurso", r)'
    BY <1>2, <1>3, <2>1, <2>2, <2>3, <2>5 DEF Ubicado, Creados
  <2>7. ASSUME NEW q \in Pids \ {p}, NEW l, NEW y, Ubicado(q, l, y) PROVE Ubicado(q, l, y)'
    <3>1. en_exec' = q <=> en_exec = q
      BY <1>2, <2>1, NadieNoEsPid
    <3> QED
      BY <1>3, <2>5, <2>7, <3>1 DEF Ubicado, Creados
  <2>8. ColasSinRepetir'
    BY <1>3, <2>5 DEF ColasSinRepetir, LugarInv
  <2> QED
    BY <1>2, <2>2, <2>3, <2>6, <2>7, <2>8 DEF Traslado, Quieto
<1> QED
  BY <1>4, <1>5

\* SIGNAL moves the waiter it wakes, if any.
LEMMA MueveAtiendeSignal ==
    ASSUME TipoInv, LugarInv, AtiendeSignal, NEW p, p = a_ready'
    PROVE  NoMueve \/ (ColasSinRepetir' /\ Traslado(p, {"recurso"}, {"despierta_corto"}))
<1>1. PICK r \in Recursos : r = mensaje.nombre
  BY DEF AtiendeSignal
<1>2. LiberaInstancia(pcb, r) /\ pcb \in Pids /\ p = Despertado(r) /\ a_ready = Nadie
  BY <1>1 DEF AtiendeSignal, TipoInv, CortoInv, LugarInv, Manos
<1>3. UNCHANGED <<queue_new, queue_ready, queue_priority_ready, queue_io, io_pcb,
                  despierta, en_exec, perdidos, next_pid, fin, consola, pid_fin>>
  BY DEF AtiendeSignal, colaVars, ioVars, finVars, fueraCorto, consVars, consRegs
<1>4. /\ \A s \in Recursos : SinRepetir(queue_waiting'[s])
      /\ p = Nadie => queue_waiting' = queue_waiting
      /\ p # Nadie =>
           /\ p \in Pids /\ Contains(queue_waiting[r], p)
           /\ \A s \in Recursos : \A q :
                Contains(queue_waiting'[s], q)
                  <=> Contains(queue_waiting[s], q) /\ ~(s = r /\ q = p)
  BY <1>2, SaleDeRecurso DEF TipoInv, LugarInv
<1>5. CASE p = Nadie
  BY <1>2, <1>3, <1>4, <1>5 DEF NoMueve, lugarVars
<1>6. CASE p # Nadie
  <2>1. PICK k, x : Ubicado(p, k, x)
    BY <1>4, <1>6 DEF LugarInv, Ubicacion
  <2>2. k = "recurso" /\ x = r
    BY <1>4, <1>6, <2>1 DEF Ubicado
  <2>3. Ubicado(p, "despierta_corto", x)'
    BY <1>3, <1>4, <1>6, <2>1, <2>2 DEF Ubicado, Creados
  <2>4. ASSUME NEW q \in Pids \ {p}, NEW l, NEW y, Ubicado(q, l, y) PROVE Ubicado(q, l, y)'
    <3>1. a_ready' = q <=> a_ready = q
      BY <1>2, NadieNoEsPid
    <3> QED
      BY <1>3, <1>4, <1>6, <2>4, <3>1 DEF Ubicado, Creados
  <2>5. ColasSinRepetir'
    BY <1>3, <1>4 DEF ColasSinRepetir, LugarInv
  <2> QED
    BY <1>4, <1>6, <2>1, <2>2, <2>3, <2>4, <2>5 DEF Traslado, Quieto
<1> QED
  BY <1>5, <1>6

\* A SIGNAL wakes a waiter of the resource.
LEMMA MueveCortoDespierta ==
    ASSUME TipoInv, LugarInv, CortoDespierta, NEW p, p = a_ready
    PROVE  ColasSinRepetir' /\ Traslado(p, {"despierta_corto"}, {"ready", "prioridad"})
<1>1. p \in Pids /\ p # Nadie /\ PushReady(p, TienePrioridad(a_ready)) /\ a_ready' = Nadie
  BY NadieNoEsPid DEF CortoDespierta, TipoInv, CortoInv
<1>2. PICK k, x : Ubicado(p, k, x)
  BY <1>1 DEF LugarInv, Ubicacion
<1>3. k = "despierta_corto"
  BY <1>2 DEF Ubicado
<1>4. UNCHANGED <<queue_waiting, queue_io, io_pcb, despierta, en_exec, perdidos,
                  next_pid, fin, consola, pid_fin>>
  BY DEF CortoDespierta, recVars, ioVars, finVars, fueraCorto, consVars, consRegs
<1>5. /\ queue_new' = queue_new
      /\ SinRepetir(queue_ready') /\ SinRepetir(queue_priority_ready')
      /\ \/ /\ queue_priority_ready' = queue_priority_ready
            /\ \A q : Contains(queue_ready', q) <=> Contains(queue_ready, q) \/ q = p
         \/ /\ queue_ready' = queue_ready
            /\ \A q : Contains(queue_priority_ready', q)
                        <=> Contains(queue_priority_ready, q) \/ q = p
  BY <1>1, <1>2, <1>3, EntraReady DEF TipoInv, LugarInv, Ubicado
<1>6. \E l \in {"ready", "prioridad"} : Ubicado(p, l, x)'
  <2>1. Ubicado(p, "ready", x)' \/ Ubicado(p, "prioridad", x)'
    BY <1>1, <1>2, <1>3, <1>4, <1>5 DEF Ubicado, Creados
  <2> QED
    BY <2>1
<1>7. ASSUME NEW q \in Pids \ {p}, NEW l, NEW y, Ubicado(q, l, y) PROVE Ubicado(q, l, y)'
  <2>1. a_ready' = q <=> a_ready = q
    BY <1>1, NadieNoEsPid
  <2> QED
    BY <1>4, <1>5, <1>7, <2>1 DEF Ubicado, Creados
<1>8. ColasSinRepetir'
  BY <1>4, <1>5 DEF ColasSinRepetir, LugarInv
<1> QED
  BY <1>1, <1>2, <1>3, <1>6, <1>7, <1>8 DEF Traslado, Quieto

\* corto_main ends only a process it still holds.
LEMMA MueveRuteaFinal ==
    ASSUME TipoInv, LugarInv, RuteaFinal, NEW p, p = pcb
    PROVE  ColasSinRepetir' /\ Traslado(p, {"exec"}, {"nada"})
<1>1. p \in Pids /\ p # Nadie /\ en_exec' = Nadie /\ fin'[p] # "no"
      /\ (\A q \in Pids \ {p} : fin'[q] = fin[q])
  BY NadieNoEsPid DEF RuteaFinal, FinalizarProceso, TipoInv, CortoInv, FinInv, FinOK
<1>2. en_exec = p
  BY DEF RuteaFinal, LugarInv, Manos, Rumbo, EstadosFinales
<1>3. PICK k, x : Ubicado(p, k, x)
  BY <1>1 DEF LugarInv, Ubicacion
<1>4. k = "exec"
  BY <1>2, <1>3 DEF Ubicado
<1>5. UNCHANGED <<queue_new, queue_ready, queue_priority_ready, queue_waiting, queue_io,
                  io_pcb, despierta, a_ready, perdidos, next_pid, consola, pid_fin>>
  BY DEF RuteaFinal, FinalizarProceso, colaVars, recVars, ioVars, fueraCorto, consVars, consRegs
<1>6. Ubicado(p, "nada", x)'
  BY <1>1, <1>3, <1>4, <1>5 DEF Ubicado, Creados
<1>7. ASSUME NEW q \in Pids \ {p}, NEW l, NEW y, Ubicado(q, l, y) PROVE Ubicado(q, l, y)'
  <2>1. en_exec' = q <=> en_exec = q
    BY <1>1, <1>2, NadieNoEsPid
  <2> QED
    BY <1>1, <1>5, <1>7, <2>1 DEF Ubicado, Creados
<1>8. ColasSinRepetir'
  BY <1>5 DEF ColasSinRepetir, LugarInv
<1> QED
  BY <1>1, <1>3, <1>4, <1>6, <1>7, <1>8 DEF Traslado, Quieto

\* And it requeues only a process it still holds.
LEMMA MueveRuteaReady ==
    ASSUME TipoInv, LugarInv, RuteaReady, NEW p, p = pcb
    PROVE  ColasSinRepetir' /\ Traslado(p, {"exec"}, {"ready", "prioridad"})
<1>1. p \in Pids /\ p # Nadie /\ en_exec' = Nadie
  BY NadieNoEsPid DEF RuteaReady, TipoInv, CortoInv
<1>2. en_exec = p
  BY DEF RuteaReady, LugarInv, Manos, Rumbo, EstadosListos
<1>3. PICK k, x : Ubicado(p, k, x)
  BY <1>1 DEF LugarInv, Ubicacion
<1>4. k = "exec"
  BY <1>2, <1>3 DEF Ubicado
<1>5. UNCHANGED <<queue_waiting, queue_io, io_pcb, despierta, a_ready, perdidos,
                  next_pid, fin, consola, pid_fin>>
  BY DEF RuteaReady, recVars, ioVars, finVars, fueraCorto, consVars, consRegs
<1>6. /\ queue_new' = queue_new
      /\ SinRepetir(queue_ready') /\ SinRepetir(queue_priority_ready')
      /\ \/ /\ queue_priority_ready' = queue_priority_ready
            /\ \A q : Contains(queue_ready', q) <=> Contains(queue_ready, q) \/ q = p
         \/ /\ queue_ready' = queue_ready
            /\ \A q : Contains(queue_priority_ready', q)
                        <=> Contains(queue_priority_ready, q) \/ q = p
  BY <1>1, <1>3, <1>4, EntraReady DEF RuteaReady, TipoInv, LugarInv, Ubicado
<1>7. \E l \in {"ready", "prioridad"} : Ubicado(p, l, x)'
  <2>1. Ubicado(p, "ready", x)' \/ Ubicado(p, "prioridad", x)'
    BY <1>1, <1>3, <1>4, <1>5, <1>6 DEF Ubicado, Creados
  <2> QED
    BY <2>1
<1>8. ASSUME NEW q \in Pids \ {p}, NEW l, NEW y, Ubicado(q, l, y) PROVE Ubicado(q, l, y)'
  <2>1. en_exec' = q <=> en_exec = q
    BY <1>1, <1>2, NadieNoEsPid
  <2> QED
    BY <1>5, <1>6, <1>8, <2>1 DEF Ubicado, Creados
<1>9. ColasSinRepetir'
  BY <1>5, <1>6 DEF ColasSinRepetir, LugarInv
<1> QED
  BY <1>1, <1>3, <1>4, <1>7, <1>8, <1>9 DEF Traslado, Quieto

\* An exit thread takes the first waiter of the unit it releases, if any.
LEMMA MueveFinLibera ==
    ASSUME TipoInv, LugarInv, NEW t \in Pids, FinLibera(t), NEW p, p = despierta'[t]
    PROVE  NoMueve \/ (ColasSinRepetir' /\ Traslado(p, {"recurso"}, {"despierta"}))
<1>1. PICK r \in Recursos :
         /\ LiberaInstancia(t, r)
         /\ despierta' = [despierta EXCEPT ![t] = Despertado(r)]
         /\ fin' = [fin EXCEPT ![t] = IF Despertado(r) = Nadie THEN @ ELSE "despierta"]
  BY DEF FinLibera
<1>2. /\ fin[t] = "libera" /\ despierta[t] = Nadie /\ p = Despertado(r)
      /\ \A q \in Pids \ {t} : despierta'[q] = despierta[q]
      /\ \A q \in Pids : fin'[q] = "no" <=> fin[q] = "no"
  BY <1>1 DEF FinLibera, TipoInv, FinInv, FinOK, LugarInv, Manos
<1>3. UNCHANGED <<queue_new, queue_ready, queue_priority_ready, queue_io, io_pcb,
                  en_exec, a_ready, perdidos, next_pid, consola, pid_fin>>
  BY DEF FinLibera, colaVars, ioVars, fueraHilos, cortoVars, cortoRegs, fueraCorto,
     consVars, consRegs
<1>4. /\ \A s \in Recursos : SinRepetir(queue_waiting'[s])
      /\ p = Nadie => queue_waiting' = queue_waiting
      /\ p # Nadie =>
           /\ p \in Pids /\ Contains(queue_waiting[r], p)
           /\ \A s \in Recursos : \A q :
                Contains(queue_waiting'[s], q)
                  <=> Contains(queue_waiting[s], q) /\ ~(s = r /\ q = p)
  BY <1>1, <1>2, SaleDeRecurso DEF TipoInv, LugarInv
<1>5. CASE p = Nadie
  <2>1. despierta' = despierta
    BY <1>1, <1>2, <1>5 DEF TipoInv, FinInv, FinOK
  <2> QED
    BY <1>2, <1>3, <1>4, <1>5, <2>1 DEF NoMueve, lugarVars
<1>6. CASE p # Nadie
  <2>1. PICK k, x : Ubicado(p, k, x)
    BY <1>4, <1>6 DEF LugarInv, Ubicacion
  <2>2. k = "recurso" /\ x = r
    BY <1>4, <1>6, <2>1 DEF Ubicado
  <2>3. Ubicado(p, "despierta", t)'
    <3>1. \A q \in Pids : despierta'[q] = p <=> q = t
      BY <1>2, <1>6, <2>1, <2>2, ZenonT(90) DEF Ubicado
    <3>2. \A s \in Recursos : ~Contains(queue_waiting'[s], p)
      BY <1>4, <1>6, <2>1, <2>2, ZenonT(90) DEF Ubicado
    <3>3. /\ ~Contains(queue_new, p) /\ ~Contains(queue_ready, p)
          /\ ~Contains(queue_priority_ready, p)
          /\ \A i \in Interfaces : ~Contains(queue_io[i], p) /\ io_pcb[i] # p
          /\ en_exec # p /\ a_ready # p /\ p \notin perdidos
          /\ ~(consola = "wait_io" /\ pid_fin = p)
          /\ p \in Creados /\ fin[p] = "no"
      <4>1. Ubicado(p, "recurso", r)
        BY <2>1, <2>2
      <4> QED
        BY <4>1 DEF Ubicado
    <3>4. /\ ~Contains(queue_new', p) /\ ~Contains(queue_ready', p)
          /\ ~Contains(queue_priority_ready', p)
          /\ \A i \in Interfaces : ~Contains(queue_io'[i], p) /\ io_pcb'[i] # p
          /\ en_exec' # p /\ a_ready' # p /\ p \notin perdidos'
          /\ ~(consola' = "wait_io" /\ pid_fin' = p)
          /\ p \in Creados' /\ fin'[p] = "no"
      <4>1. Creados' = Creados
        BY <1>3 DEF Creados
      <4>2. fin'[p] = "no"
        BY <1>2, <1>4, <1>6, <3>3, ZenonT(90)
      <4> QED
        BY <1>3, <3>3, <4>1, <4>2
    <3> QED
      BY <3>1, <3>2, <3>4 DEF Ubicado
  <2>4. ASSUME NEW q \in Pids \ {p}, NEW l, NEW y, Ubicado(q, l, y) PROVE Ubicado(q, l, y)'
    <3>1. \A u \in Pids : despierta'[u] = q <=> despierta[u] = q
      BY <1>2, NadieNoEsPid
    <3> QED
      BY <1>2, <1>3, <1>4, <1>6, <2>4, <3>1 DEF Ubicado, Creados
  <2>5. ColasSinRepetir'
    BY <1>3, <1>4 DEF ColasSinRepetir, LugarInv
  <2> QED
    BY <1>4, <1>6, <2>1, <2>2, <2>3, <2>4, <2>5 DEF Traslado, Quieto
<1> QED
  BY <1>5, <1>6

\* An exit thread wakes a waiter of a resource it gives back.
LEMMA MueveFinDespierta ==
    ASSUME TipoInv, LugarInv, NEW t \in Pids, FinDespierta(t), NEW p, p = despierta[t]
    PROVE  ColasSinRepetir' /\ Traslado(p, {"despierta"}, {"ready", "prioridad"})
<1>1. /\ p \in Pids /\ p # Nadie /\ PushReady(p, TienePrioridad(despierta[t]))
      /\ despierta'[t] = Nadie /\ \A q \in Pids \ {t} : despierta'[q] = despierta[q]
      /\ \A q \in Pids : fin'[q] = "no" <=> fin[q] = "no"
  BY NadieNoEsPid DEF FinDespierta, TipoInv, FinInv, FinOK
<1>2. PICK k, x : Ubicado(p, k, x)
  BY <1>1 DEF LugarInv, Ubicacion
<1>3. k = "despierta" /\ x = t
  BY <1>2 DEF Ubicado
<1>4. UNCHANGED <<queue_waiting, queue_io, io_pcb, en_exec, a_ready, perdidos,
                  next_pid, consola, pid_fin>>
  BY DEF FinDespierta, recVars, ioVars, fueraHilos, cortoVars, cortoRegs, fueraCorto,
     consVars, consRegs
<1>5. /\ queue_new' = queue_new
      /\ SinRepetir(queue_ready') /\ SinRepetir(queue_priority_ready')
      /\ \/ /\ queue_priority_ready' = queue_priority_ready
            /\ \A q : Contains(queue_ready', q) <=> Contains(queue_ready, q) \/ q = p
         \/ /\ queue_ready' = queue_ready
            /\ \A q : Contains(queue_priority_ready', q)
                        <=> Contains(queue_priority_ready, q) \/ q = p
  BY <1>1, <1>2, <1>3, EntraReady DEF TipoInv, LugarInv, Ubicado
<1>6. \A u \in Pids, q \in Pids : despierta'[u] = q <=> despierta[u] = q /\ u # t
  BY <1>1, NadieNoEsPid
<1>7. \E l \in {"ready", "prioridad"} : Ubicado(p, l, x)'
  <2>1. Ubicado(p, "ready", x)' \/ Ubicado(p, "prioridad", x)'
    BY <1>1, <1>2, <1>3, <1>4, <1>5, <1>6 DEF Ubicado, Creados
  <2> QED
    BY <2>1
<1>8. ASSUME NEW q \in Pids \ {p}, NEW l, NEW y, Ubicado(q, l, y) PROVE Ubicado(q, l, y)'
  <2>1. \A u \in Pids : despierta'[u] = q <=> despierta[u] = q
    BY <1>6
  <2> QED
    BY <1>1, <1>4, <1>5, <1>8, <2>1 DEF Ubicado, Creados
<1>9. ColasSinRepetir'
  BY <1>4, <1>5 DEF ColasSinRepetir, LugarInv
<1> QED
  BY <1>1, <1>2, <1>3, <1>7, <1>8, <1>9 DEF Traslado, Quieto

\* The thread of an interface takes a process out of its queue.
LEMMA MueveIoPop ==
    ASSUME TipoInv, LugarInv, NEW i \in Interfaces, IoPop(i), NEW p, p = io_pcb'[i]
    PROVE  ColasSinRepetir' /\ Traslado(p, {"io"}, {"interfaz"})
<1>1. /\ queue_io[i] \in Seq(Pids) /\ queue_io[i] # <<>> /\ SinRepetir(queue_io[i])
      /\ p = Head(queue_io[i]) /\ io_pcb[i] = Nadie
      /\ \A j \in Interfaces \ {i} : io_pcb'[j] = io_pcb[j]
      /\ queue_io'[i] = Tail(queue_io[i])
      /\ \A j \in Interfaces \ {i} : queue_io'[j] = queue_io[j]
  BY DEF IoPop, TipoInv, IoInv, IoOK, LugarInv, ColasSinRepetir, Manos
<1>2. /\ p \in Pids /\ Contains(queue_io[i], p) /\ SinRepetir(Tail(queue_io[i]))
      /\ \A q : Contains(Tail(queue_io[i]), q) <=> Contains(queue_io[i], q) /\ q # p
  BY <1>1, SacarMiembros
<1>3. /\ \A j \in Interfaces : SinRepetir(queue_io'[j])
      /\ \A j \in Interfaces : \A q :
           Contains(queue_io'[j], q) <=> Contains(queue_io[j], q) /\ ~(j = i /\ q = p)
      /\ \A j \in Interfaces, q \in Pids : io_pcb'[j] = q <=> io_pcb[j] = q \/ (j = i /\ q = p)
  BY <1>1, <1>2, NadieNoEsPid DEF LugarInv, ColasSinRepetir
<1>4. PICK k, x : Ubicado(p, k, x)
  BY <1>2 DEF LugarInv, Ubicacion
<1>5. k = "io" /\ x = i
  BY <1>2, <1>4 DEF Ubicado
<1>6. UNCHANGED <<queue_new, queue_ready, queue_priority_ready, queue_waiting, despierta,
                  en_exec, a_ready, perdidos, next_pid, fin, consola, pid_fin>>
  BY DEF IoPop, colaVars, recVars, finVars, fueraHilos, cortoVars, cortoRegs, fueraCorto,
     consVars, consRegs
<1>7. Ubicado(p, "interfaz", i)'
  BY <1>2, <1>3, <1>4, <1>5, <1>6 DEF Ubicado, Creados
<1>8. ASSUME NEW q \in Pids \ {p}, NEW l, NEW y, Ubicado(q, l, y) PROVE Ubicado(q, l, y)'
  BY <1>3, <1>6, <1>8, ZenonT(90) DEF Ubicado, Creados
<1>9. ColasSinRepetir'
  BY <1>3, <1>6 DEF ColasSinRepetir, LugarInv
<1> QED
  BY <1>2, <1>4, <1>5, <1>7, <1>8, <1>9 DEF Traslado, Quieto

\* A process comes back from its interface.
LEMMA MueveIoExito ==
    ASSUME TipoInv, LugarInv, NEW i \in Interfaces, IoExito(i), NEW p, p = io_pcb[i]
    PROVE  ColasSinRepetir' /\ Traslado(p, {"interfaz"}, {"ready", "prioridad"})
<1>1. /\ p \in Pids /\ p # Nadie /\ PushReady(p, TienePrioridad(io_pcb[i]))
      /\ io_pcb'[i] = Nadie /\ \A j \in Interfaces \ {i} : io_pcb'[j] = io_pcb[j]
  BY NadieNoEsPid DEF IoExito, TipoInv, IoInv, IoOK
<1>2. PICK k, x : Ubicado(p, k, x)
  BY <1>1 DEF LugarInv, Ubicacion
<1>3. k = "interfaz" /\ x = i
  BY <1>2 DEF Ubicado
<1>4. UNCHANGED <<queue_waiting, queue_io, despierta, en_exec, a_ready, perdidos,
                  next_pid, fin, consola, pid_fin>>
  BY DEF IoExito, recVars, finVars, fueraHilos, cortoVars, cortoRegs, fueraCorto,
     consVars, consRegs
<1>5. /\ queue_new' = queue_new
      /\ SinRepetir(queue_ready') /\ SinRepetir(queue_priority_ready')
      /\ \/ /\ queue_priority_ready' = queue_priority_ready
            /\ \A q : Contains(queue_ready', q) <=> Contains(queue_ready, q) \/ q = p
         \/ /\ queue_ready' = queue_ready
            /\ \A q : Contains(queue_priority_ready', q)
                        <=> Contains(queue_priority_ready, q) \/ q = p
  BY <1>1, <1>2, <1>3, EntraReady DEF TipoInv, LugarInv, Ubicado
<1>6. \A j \in Interfaces, q \in Pids : io_pcb'[j] = q <=> io_pcb[j] = q /\ j # i
  BY <1>1, NadieNoEsPid
<1>7. \E l \in {"ready", "prioridad"} : Ubicado(p, l, x)'
  <2>1. Ubicado(p, "ready", x)' \/ Ubicado(p, "prioridad", x)'
    BY <1>1, <1>2, <1>3, <1>4, <1>5, <1>6 DEF Ubicado, Creados
  <2> QED
    BY <2>1
<1>8. ASSUME NEW q \in Pids \ {p}, NEW l, NEW y, Ubicado(q, l, y) PROVE Ubicado(q, l, y)'
  <2>1. \A j \in Interfaces : io_pcb'[j] = q <=> io_pcb[j] = q
    BY <1>6
  <2> QED
    BY <1>4, <1>5, <1>8, <2>1 DEF Ubicado, Creados
<1>9. ColasSinRepetir'
  BY <1>4, <1>5 DEF ColasSinRepetir, LugarInv
<1> QED
  BY <1>1, <1>2, <1>3, <1>7, <1>8, <1>9 DEF Traslado, Quieto

\* A process whose request failed is finalized.
LEMMA MueveIoFalla ==
    ASSUME TipoInv, LugarInv, NEW i \in Interfaces, NEW resp, IoFalla(i, resp),
           NEW p, p = io_pcb[i]
    PROVE  ColasSinRepetir' /\ Traslado(p, {"interfaz"}, {"nada"})
<1>1. /\ p \in Pids /\ p # Nadie
      /\ io_pcb'[i] = Nadie /\ \A j \in Interfaces \ {i} : io_pcb'[j] = io_pcb[j]
      /\ fin'[p] # "no" /\ \A q \in Pids \ {p} : fin'[q] = fin[q]
  BY NadieNoEsPid DEF IoFalla, FinalizarProceso, TipoInv, IoInv, IoOK, FinInv, FinOK
<1>2. PICK k, x : Ubicado(p, k, x)
  BY <1>1 DEF LugarInv, Ubicacion
<1>3. k = "interfaz" /\ x = i
  BY <1>2, <1>1 DEF Ubicado
<1>4. UNCHANGED <<queue_new, queue_ready, queue_priority_ready, queue_waiting, queue_io,
                  despierta, en_exec, a_ready, perdidos, next_pid, consola, pid_fin>>
  BY DEF IoFalla, FinalizarProceso, colaVars, recVars, fueraHilos, cortoVars, cortoRegs,
     fueraCorto, consVars, consRegs
<1>5. \A j \in Interfaces, q \in Pids : io_pcb'[j] = q <=> io_pcb[j] = q /\ j # i
  BY <1>1, NadieNoEsPid
<1>6. Ubicado(p, "nada", x)'
  BY <1>1, <1>2, <1>3, <1>4, <1>5 DEF Ubicado, Creados
<1>7. ASSUME NEW q \in Pids \ {p}, NEW l, NEW y, Ubicado(q, l, y) PROVE Ubicado(q, l, y)'
  <2>1. \A j \in Interfaces : io_pcb'[j] = q <=> io_pcb[j] = q
    BY <1>5
  <2> QED
    BY <1>1, <1>4, <1>7, <2>1 DEF Ubicado, Creados
<1>8. ColasSinRepetir'
  BY <1>4 DEF ColasSinRepetir, LugarInv
<1> QED
  BY <1>1, <1>2, <1>3, <1>6, <1>7, <1>8 DEF Traslado, Quieto

\* A disconnection loses the processes queued at the interface and no other.
LEMMA MueveIoDesconecta ==
    ASSUME TipoInv, LugarInv, NEW i \in Interfaces, IoDesconecta(i)
    PROVE  /\ ColasSinRepetir'
           /\ \A q \in Pids : \A l, y : Ubicado(q, l, y) =>
                IF l = "io" /\ y = i THEN Ubicado(q, "perdido", y)' ELSE Ubicado(q, l, y)'
<1>1. /\ perdidos' = perdidos \cup ToSet(queue_io[i])
      /\ queue_io'[i] = <<>>
      /\ \A j \in Interfaces \ {i} : queue_io'[j] = queue_io[j]
      /\ queue_io[i] \in Seq(Pids)
  BY DEF IoDesconecta, TipoInv, IoInv, IoOK
<1>2. UNCHANGED <<queue_new, queue_ready, queue_priority_ready, queue_waiting, io_pcb,
                  despierta, en_exec, a_ready, next_pid, fin, consola, pid_fin>>
  BY DEF IoDesconecta, colaVars, recVars, finVars, fueraHilos, cortoVars, cortoRegs,
     fueraCorto, consVars, consRegs
<1>3. \A q : q \in ToSet(queue_io[i]) <=> Contains(queue_io[i], q)
  BY <1>1, LenProperties DEF ToSet, Contains
<1>4. /\ \A j \in Interfaces : SinRepetir(queue_io'[j])
      /\ \A j \in Interfaces : \A q : Contains(queue_io'[j], q) <=> Contains(queue_io[j], q) /\ j # i
      /\ \A q : q \in perdidos' <=> q \in perdidos \/ Contains(queue_io[i], q)
  BY <1>1, <1>3, VaciaMiembros DEF LugarInv, ColasSinRepetir
<1>5. ASSUME NEW q \in Pids, NEW l, NEW y, Ubicado(q, l, y)
      PROVE  IF l = "io" /\ y = i THEN Ubicado(q, "perdido", y)' ELSE Ubicado(q, l, y)'
  <2>1. CASE l = "io" /\ y = i
    BY <1>2, <1>4, <1>5, <2>1 DEF Ubicado, Creados
  <2>2. CASE ~(l = "io" /\ y = i)
    BY <1>2, <1>4, <1>5, <2>2 DEF Ubicado, Creados
  <2> QED
    BY <2>1, <2>2
<1>6. ColasSinRepetir'
  BY <1>2, <1>4 DEF ColasSinRepetir, LugarInv
<1> QED
  BY <1>5, <1>6

\* The console finalizes a process it took out of a ready queue,
LEMMA MueveConsolaQuitaReady ==
    ASSUME TipoInv, LugarInv, ConsolaQuitaReady, NEW p, p = pid_fin
    PROVE  ColasSinRepetir' /\ Traslado(p, {"ready", "prioridad"}, {"nada"})
<1>1. /\ p \in Pids /\ fin'[p] # "no" /\ \A q \in Pids \ {p} : fin'[q] = fin[q]
  BY DEF ConsolaQuitaReady, FinalizarProceso, TipoInv, ConsInv, FinInv, FinOK
<1>2. \/ /\ queue_priority_ready' = queue_priority_ready
         /\ Contains(queue_ready, p) /\ SinRepetir(queue_ready')
         /\ \A q : Contains(queue_ready', q) <=> Contains(queue_ready, q) /\ q # p
      \/ /\ queue_ready' = queue_ready
         /\ Contains(queue_priority_ready, p) /\ SinRepetir(queue_priority_ready')
         /\ \A q : Contains(queue_priority_ready', q)
                     <=> Contains(queue_priority_ready, q) /\ q # p
  BY QuitarMiembros DEF ConsolaQuitaReady, TipoInv, ColasOK, LugarInv, ColasSinRepetir
<1>3. UNCHANGED <<queue_new, queue_waiting, queue_io, io_pcb, despierta, en_exec,
                  a_ready, perdidos, next_pid>> /\ consola # "wait_io" /\ consola' # "wait_io"
  BY DEF ConsolaQuitaReady, FinalizarProceso, recVars, ioVars, fueraConsola, cortoVars,
     cortoRegs, consRegs
<1>4. PICK k, x : Ubicado(p, k, x)
  BY <1>1 DEF LugarInv, Ubicacion
<1>5. k \in {"ready", "prioridad"}
  BY <1>2, <1>4 DEF Ubicado
<1>6. Ubicado(p, "nada", x)'
  BY <1>1, <1>2, <1>3, <1>4, <1>5 DEF Ubicado, Creados
<1>7. ASSUME NEW q \in Pids \ {p}, NEW l, NEW y, Ubicado(q, l, y) PROVE Ubicado(q, l, y)'
  BY <1>1, <1>2, <1>3, <1>7 DEF Ubicado, Creados
<1>8. ColasSinRepetir'
  BY <1>2, <1>3 DEF ColasSinRepetir, LugarInv
<1> QED
  BY <1>1, <1>4, <1>5, <1>6, <1>7, <1>8 DEF Traslado, Quieto

\* or out of the queue of a resource;
LEMMA MueveConsolaQuitaEspera ==
    ASSUME TipoInv, LugarInv, NEW r \in Recursos, ConsolaQuitaEspera(r), NEW p, p = pid_fin
    PROVE  ColasSinRepetir' /\ Traslado(p, {"recurso"}, {"nada"})
<1>1. /\ p \in Pids /\ fin'[p] # "no" /\ \A q \in Pids \ {p} : fin'[q] = fin[q]
  BY DEF ConsolaQuitaEspera, FinalizarProceso, TipoInv, ConsInv, FinInv, FinOK
<1>2. PICK k \in DOMAIN queue_waiting[r] :
         /\ queue_waiting[r][k] = p
         /\ queue_waiting' = [queue_waiting EXCEPT ![r] = RemoveAt(@, k)]
  BY DEF ConsolaQuitaEspera
<1>3. /\ queue_waiting[r] \in Seq(Pids) /\ SinRepetir(queue_waiting[r])
      /\ queue_waiting'[r] = RemoveAt(queue_waiting[r], k)
      /\ \A s \in Recursos \ {r} : queue_waiting'[s] = queue_waiting[s]
  BY <1>2 DEF TipoInv, RecOK, LugarInv, ColasSinRepetir
<1>4. /\ Contains(queue_waiting[r], p) /\ SinRepetir(RemoveAt(queue_waiting[r], k))
      /\ \A q : Contains(RemoveAt(queue_waiting[r], k), q)
                  <=> Contains(queue_waiting[r], q) /\ q # p
  BY <1>2, <1>3, QuitarMiembros
<1>5. /\ \A s \in Recursos : SinRepetir(queue_waiting'[s])
      /\ \A s \in Recursos : \A q :
           Contains(queue_waiting'[s], q) <=> Contains(queue_waiting[s], q) /\ ~(s = r /\ q = p)
  BY <1>3, <1>4 DEF LugarInv, ColasSinRepetir
<1>6. UNCHANGED <<queue_new, queue_ready, queue_priority_ready, queue_io, io_pcb, despierta,
                  en_exec, a_ready, perdidos, next_pid>>
      /\ consola # "wait_io" /\ consola' # "wait_io"
  BY DEF ConsolaQuitaEspera, FinalizarProceso, colaVars, ioVars, fueraConsola, cortoVars,
     cortoRegs, consRegs
<1>7. PICK l, x : Ubicado(p, l, x)
  BY <1>1 DEF LugarInv, Ubicacion
<1>8. l = "recurso" /\ x = r
  BY <1>4, <1>7 DEF Ubicado
<1>9. Ubicado(p, "nada", x)'
  BY <1>1, <1>5, <1>6, <1>7, <1>8 DEF Ubicado, Creados
<1>10. ASSUME NEW q \in Pids \ {p}, NEW j, NEW y, Ubicado(q, j, y) PROVE Ubicado(q, j, y)'
  BY <1>1, <1>5, <1>6, <1>10 DEF Ubicado, Creados
<1>11. ColasSinRepetir'
  BY <1>5, <1>6 DEF ColasSinRepetir, LugarInv
<1> QED
  BY <1>1, <1>7, <1>8, <1>9, <1>10, <1>11 DEF Traslado, Quieto

\* one it took from an interface it holds until the P() of its semaphore.
LEMMA MueveConsolaQuitaIo ==
    ASSUME TipoInv, LugarInv, NEW i \in Interfaces, ConsolaQuitaIo(i), NEW p, p = pid_fin
    PROVE  ColasSinRepetir' /\ Traslado(p, {"io"}, {"consola"})
<1>1. p \in Pids /\ pid_fin' = p /\ consola # "wait_io" /\ consola' = "wait_io"
  BY DEF ConsolaQuitaIo, TipoInv, ConsInv
<1>2. PICK k \in DOMAIN queue_io[i] :
         /\ queue_io[i][k] = p
         /\ queue_io' = [queue_io EXCEPT ![i] = RemoveAt(@, k)]
  BY DEF ConsolaQuitaIo
<1>3. /\ queue_io[i] \in Seq(Pids) /\ SinRepetir(queue_io[i])
      /\ queue_io'[i] = RemoveAt(queue_io[i], k)
      /\ \A j \in Interfaces \ {i} : queue_io'[j] = queue_io[j]
  BY <1>2 DEF TipoInv, IoInv, IoOK, LugarInv, ColasSinRepetir
<1>4. /\ Contains(queue_io[i], p) /\ SinRepetir(RemoveAt(queue_io[i], k))
      /\ \A q : Contains(RemoveAt(queue_io[i], k), q) <=> Contains(queue_io[i], q) /\ q # p
  BY <1>2, <1>3, QuitarMiembros
<1>5. /\ \A j \in Interfaces : SinRepetir(queue_io'[j])
      /\ \A j \in Interfaces : \A q :
           Contains(queue_io'[j], q) <=> Contains(queue_io[j], q) /\ ~(j = i /\ q = p)
  BY <1>3, <1>4 DEF LugarInv, ColasSinRepetir
<1>6. UNCHANGED <<queue_new, queue_ready, queue_priority_ready, queue_waiting, io_pcb,
                  despierta, en_exec, a_ready, perdidos, next_pid, fin>>
  BY DEF ConsolaQuitaIo, colaVars, recVars, finVars, fueraConsola, cortoVars, cortoRegs,
     consRegs
<1>7. PICK l, x : Ubicado(p, l, x)
  BY <1>1 DEF LugarInv, Ubicacion
<1>8. l = "io" /\ x = i
  BY <1>4, <1>7 DEF Ubicado
<1>9. Ubicado(p, "consola", x)'
  BY <1>1, <1>5, <1>6, <1>7, <1>8 DEF Ubicado, Creados
<1>10. ASSUME NEW q \in Pids \ {p}, NEW j, NEW y, Ubicado(q, j, y) PROVE Ubicado(q, j, y)'
  BY <1>1, <1>5, <1>6, <1>10 DEF Ubicado, Creados
<1>11. ColasSinRepetir'
  BY <1>5, <1>6 DEF ColasSinRepetir, LugarInv
<1> QED
  BY <1>1, <1>7, <1>8, <1>9, <1>10, <1>11 DEF Traslado, Quieto

\* FINALIZAR_PROCESO has its token of the interface: the process is finalized.
LEMMA MueveConsolaEsperaIo ==
    ASSUME TipoInv, LugarInv, NEW i \in Interfaces, ConsolaEsperaIo(i), NEW p, p = pid_fin
    PROVE  ColasSinRepetir' /\ Traslado(p, {"consola"}, {"nada"})
<1>1. /\ p \in Pids /\ consola = "wait_io" /\ consola' # "wait_io"
      /\ fin'[p] # "no" /\ \A q \in Pids \ {p} : fin'[q] = fin[q]
  BY DEF ConsolaEsperaIo, FinalizarProceso, TipoInv, ConsInv, FinInv, FinOK
<1>2. UNCHANGED <<queue_new, queue_ready, queue_priority_ready, queue_waiting, queue_io,
                  io_pcb, despierta, en_exec, a_ready, perdidos, next_pid>>
  BY DEF ConsolaEsperaIo, FinalizarProceso, colaVars, recVars, fueraConsola, cortoVars,
     cortoRegs, consRegs
<1>3. PICK l, x : Ubicado(p, l, x)
  BY <1>1 DEF LugarInv, Ubicacion
<1>4. l = "consola"
  BY <1>1, <1>3 DEF Ubicado
<1>5. Ubicado(p, "nada", x)'
  BY <1>1, <1>2, <1>3, <1>4 DEF Ubicado, Creados
<1>6. ASSUME NEW q \in Pids \ {p}, NEW j, NEW y, Ubicado(q, j, y) PROVE Ubicado(q, j, y)'
  BY <1>1, <1>2, <1>6 DEF Ubicado, Creados
<1>7. ColasSinRepetir'
  BY <1>2 DEF ColasSinRepetir, LugarInv
<1> QED
  BY <1>1, <1>3, <1>4, <1>5, <1>6, <1>7 DEF Traslado, Quieto

\* No other step moves a process.
LEMMA QuienMueve ==
    ASSUME TipoInv, [Next]_vars
    PROVE  \/ EnviarNew \/ LargoAdmite \/ CortoPop \/ EncolaIo \/ AtiendeWait
           \/ AtiendeSignal \/ CortoDespierta \/ RuteaFinal \/ RuteaReady
           \/ \E t \in Pids : FinLibera(t) \/ FinDespierta(t)
           \/ \E i \in Interfaces : \/ IoPop(i) \/ IoExito(i) \/ IoDesconecta(i)
                                    \/ \E resp : IoFalla(i, resp)
           \/ ConsolaQuitaReady \/ \E r \in Recursos : ConsolaQuitaEspera(r)
           \/ \E i \in Interfaces : ConsolaQuitaIo(i) \/ ConsolaEsperaIo(i)
           \/ NoMueve
<1> USE DEF NoMueve, lugarVars
<1>1. CASE UNCHANGED vars
  BY <1>1 DEF vars, datos, colaVars, recVars, ioVars, finVars, cortoVars, cortoRegs,
     consVars, consRegs
<1>2. CASE Largo \/ CpuResponde \/ MultiChangeWaits
  BY <1>2 DEF Largo, LargoMulti, LargoHayNew, LargoCheck, CpuResponde, MultiChangeWaits,
     ajenoStatus, fueraHilos, fueraCorto, datos, colaVars, recVars, ioVars, finVars,
     cortoVars, cortoRegs, consVars, consRegs
<1>3. CASE Comando
  <2>1. CASE DetenerPlanificacion \/ IniciarPlanificacion
             \/ \E n \in Grados : CambiarMultiprogramacion(n)
    BY <2>1 DEF DetenerPlanificacion, IniciarPlanificacion, CambiarMultiprogramacion,
       fueraHilos, fueraCorto, datos, colaVars, recVars, ioVars, finVars, cortoVars,
       cortoRegs, consVars, consRegs
  <2>2. CASE \E p \in Pids : FinalizarPid(p)
    BY <2>2 DEF FinalizarPid, fueraConsola, datos, colaVars, recVars, ioVars, finVars,
       cortoVars, cortoRegs, consRegs
  <2> QED
    BY <1>3, <2>1, <2>2 DEF Comando
<1>4. CASE Corto
  <2>1. CASE CortoEspera \/ CortoCheck \/ CortoPopVacia \/ CortoDespacho \/ CortoCheckExec
             \/ AtiendeDesconocido \/ AtiendeIo \/ EncolaIoDestruida
    BY <2>1 DEF CortoEspera, CortoCheck, CortoPopVacia, CortoDespacho, CortoCheckExec,
       AtiendeDesconocido, AtiendeIo, EncolaIoDestruida, Cae, ajenoStatus, fueraCorto,
       datos, colaVars, recVars, ioVars, finVars, cortoVars, cortoRegs, consVars, consRegs
  <2>2. CASE CortoBloquea \/ CortoCuenta \/ RuteaDobleFin \/ RuteaAjeno \/ CortoVuelta
    BY <2>2 DEF CortoBloquea, CortoCuenta, RuteaDobleFin, RuteaAjeno, CortoVuelta, Cae,
       ajenoStatus, fueraCorto, datos, colaVars, recVars, ioVars, finVars, cortoVars,
       cortoRegs, consVars, consRegs
  <2> QED
    BY <1>4, <2>1, <2>2 DEF Corto
<1>5. ASSUME NEW t \in Pids, FinCheck(t) \/ FinLibre(t) PROVE NoMueve
  BY <1>5 DEF FinCheck, FinLibre, fueraHilos, fueraCorto, colaVars, recVars, ioVars,
     finVars, cortoVars, cortoRegs, consVars, consRegs, TipoInv, FinInv, FinOK
<1>6. CASE \E t \in Pids : Fin(t)
  BY <1>5, <1>6 DEF Fin
<1>7. CASE \E i \in Interfaces : Io(i)
  BY <1>7 DEF Io, IoTrabaja, IoRegistra, IoResponde, IoEspera, IoCheck, IoPopVacia, Cae,
     fueraHilos, fueraCorto, datos, colaVars, recVars, ioVars, finVars, cortoVars,
     cortoRegs, consVars, consRegs
<1>8. CASE ConsolaSigue
  <2>1. CASE ConsolaInterrumpe \/ ConsolaEsperaReady \/ ConsolaNoEnReady
             \/ ConsolaMiraIos \/ ConsolaNoExiste
    BY <2>1 DEF ConsolaInterrumpe, ConsolaEsperaReady, ConsolaNoEnReady, ConsolaMiraIos,
       ConsolaNoExiste, fueraConsola, datos, colaVars, recVars, ioVars, finVars,
       cortoVars, cortoRegs, consRegs
  <2>2. CASE \/ \E r \in Recursos : ConsolaNoEspera(r)
             \/ \E i \in Interfaces : ConsolaNoIo(i) \/ ConsolaIoDestruida(i)
    BY <2>2 DEF ConsolaNoEspera, ConsolaNoIo, ConsolaIoDestruida, Cae, fueraConsola, datos,
       colaVars, recVars, ioVars, finVars, cortoVars, cortoRegs, consVars, consRegs
  <2> QED
    BY <1>8, <2>1, <2>2 DEF ConsolaSigue
<1> QED
  BY <1>1, <1>2, <1>3, <1>4, <1>6, <1>7, <1>8 DEF Next

\* Every step keeps the queues without repetitions and each process in one
\* place at most.
LEMMA UbicacionPaso ==
    ASSUME TipoInv, LugarInv, [Next]_vars
    PROVE  ColasSinRepetir' /\ Ubicacion'
<1> DEFINE Bien == ColasSinRepetir' /\ Ubicacion'
<1> USE DEF LugarInv
<1>1. ASSUME NEW p, NEW desde, NEW hacia, ColasSinRepetir' /\ Traslado(p, desde, hacia)
      PROVE  Bien
  BY <1>1, TrasladoUbica
<1>2. CASE NoMueve
  BY <1>2, NoMueveQuieto
<1> HIDE DEF LugarInv
<1>3. CASE EnviarNew
  <2>1. PICK p : p = next_pid
    OBVIOUS
  <2> QED
    BY <2>1, <1>1, <1>3, MueveEnviarNew
<1>4. CASE LargoAdmite
  <2>1. PICK p : p = Head(queue_new)
    OBVIOUS
  <2> QED
    BY <2>1, <1>1, <1>4, MueveLargoAdmite
<1>5. CASE CortoPop
  <2>1. PICK p : p = pcb'
    OBVIOUS
  <2> QED
    BY <2>1, <1>1, <1>5, MueveCortoPop
<1>6. CASE EncolaIo
  <2>1. PICK p : p = pcb
    OBVIOUS
  <2> QED
    BY <2>1, <1>1, <1>6, MueveEncolaIo
<1>7. CASE AtiendeWait
  <2>1. PICK p : p = pcb
    OBVIOUS
  <2> QED
    BY <2>1, <1>1, <1>2, <1>7, MueveAtiendeWait
<1>8. CASE AtiendeSignal
  <2>1. PICK p : p = a_ready'
    OBVIOUS
  <2> QED
    BY <2>1, <1>1, <1>2, <1>8, MueveAtiendeSignal
<1>9. CASE CortoDespierta
  <2>1. PICK p : p = a_ready
    OBVIOUS
  <2> QED
    BY <2>1, <1>1, <1>9, MueveCortoDespierta
<1>10. CASE RuteaFinal
  <2>1. PICK p : p = pcb
    OBVIOUS
  <2> QED
    BY <2>1, <1>1, <1>10, MueveRuteaFinal
<1>11. CASE RuteaReady
  <2>1. PICK p : p = pcb
    OBVIOUS
  <2> QED
    BY <2>1, <1>1, <1>11, MueveRuteaReady
<1>12. ASSUME NEW t \in Pids, FinLibera(t) PROVE Bien
  <2>1. PICK p : p = despierta'[t]
    OBVIOUS
  <2> QED
    BY <2>1, <1>1, <1>2, <1>12, MueveFinLibera
<1>13. ASSUME NEW t \in Pids, FinDespierta(t) PROVE Bien
  <2>1. PICK p : p = despierta[t]
    OBVIOUS
  <2> QED
    BY <2>1, <1>1, <1>13, MueveFinDespierta
<1>14. ASSUME NEW i \in Interfaces, IoPop(i) PROVE Bien
  <2>1. PICK p : p = io_pcb'[i]
    OBVIOUS
  <2> QED
    BY <2>1, <1>1, <1>14, MueveIoPop
<1>15. ASSUME NEW i \in Interfaces, IoExito(i) PROVE Bien
  <2>1. PICK p : p = io_pcb[i]
    OBVIOUS
  <2> QED
    BY <2>1, <1>1, <1>15, MueveIoExito
<1>16. ASSUME NEW i \in Interfaces, NEW resp, IoFalla(i, resp) PROVE Bien
  <2>1. PICK p : p = io_pcb[i]
    OBVIOUS
  <2> QED
    BY <2>1, <1>1, <1>16, MueveIoFalla
<1>17. ASSUME NEW i \in Interfaces, IoDesconecta(i) PROVE Bien
  BY <1>17, MueveIoDesconecta DEF Ubicacion, LugarInv
<1>18. CASE ConsolaQuitaReady
  <2>1. PICK p : p = pid_fin
    OBVIOUS
  <2> QED
    BY <2>1, <1>1, <1>18, MueveConsolaQuitaReady
<1>19. ASSUME NEW r \in Recursos, ConsolaQuitaEspera(r) PROVE Bien
  <2>1. PICK p : p = pid_fin
    OBVIOUS
  <2> QED
    BY <2>1, <1>1, <1>19, MueveConsolaQuitaEspera
<1>20. ASSUME NEW i \in Interfaces, ConsolaQuitaIo(i) PROVE Bien
  <2>1. PICK p : p = pid_fin
    OBVIOUS
  <2> QED
    BY <2>1, <1>1, <1>20, MueveConsolaQuitaIo
<1>21. ASSUME NEW i \in Interfaces, ConsolaEsperaIo(i) PROVE Bien
  <2>1. PICK p : p = pid_fin
    OBVIOUS
  <2> QED
    BY <2>1, <1>1, <1>21, MueveConsolaEsperaIo
<1> QED
  BY <1>2, <1>3, <1>4, <1>5, <1>6, <1>7, <1>8, <1>9, <1>10, <1>11, <1>12, <1>13, <1>14,
     <1>15, <1>16, <1>17, <1>18, <1>19, <1>20, <1>21, QuienMueve

-----------------------------------------------------------------------------
(* The control points: who holds a process, and what corto_main may read.  *)

\* A process in any place is alive, and the one corto_main holds is in none
\* of the others.
LEMMA SoloUno ==
    ASSUME LugarInv, NEW p \in Pids
    PROVE  /\ \/ en_exec = p \/ a_ready = p \/ Contains(queue_new, p)
              \/ Contains(queue_ready, p) \/ Contains(queue_priority_ready, p)
              \/ \E r \in Recursos : Contains(queue_waiting[r], p)
              \/ \E i \in Interfaces : Contains(queue_io[i], p) \/ io_pcb[i] = p
              \/ \E q \in Pids : despierta[q] = p
              \/ consola = "wait_io" /\ pid_fin = p
              => p \in Creados /\ fin[p] = "no"
           /\ en_exec = p =>
                /\ a_ready # p /\ ~Contains(queue_new, p) /\ ~Contains(queue_ready, p)
                /\ ~Contains(queue_priority_ready, p)
                /\ \A r \in Recursos : ~Contains(queue_waiting[r], p)
                /\ \A i \in Interfaces : ~Contains(queue_io[i], p) /\ io_pcb[i] # p
                /\ \A q \in Pids : despierta[q] # p
                /\ ~(consola = "wait_io" /\ pid_fin = p)
<1>1. PICK k, x : Ubicado(p, k, x)
  BY DEF LugarInv, Ubicacion
<1> QED
  BY <1>1 DEF Ubicado

\* What the other threads do to the PCBs: they ready or end a process that
\* corto_main does not hold.
Ajeno ==
    /\ UNCHANGED cortoVars
    /\ \A p \in Pids :
         \/ status'[p] = status[p] /\ (fin'[p] = "no" <=> fin[p] = "no")
         \/ p # en_exec /\ status'[p] = "READY" /\ fin'[p] = "no"
         \/ /\ p # en_exec /\ p \in Creados
            /\ status'[p] = "TERMINATED" /\ fin'[p] # "no"

\* A step of another thread keeps what corto_main has ahead.
LEMMA AjenoRumbo ==
    ASSUME TipoInv, LugarInv, Ajeno
    PROVE  Rumbo'
<1>1. UNCHANGED <<corto, pcb, mensaje, en_exec>>
  BY DEF Ajeno, cortoVars, cortoRegs
<1>2. corto \notin {"espera", "check", "pop"} => pcb \in Pids
  BY DEF TipoInv, CortoInv
<1>3. CASE corto \in {"espera", "check", "pop", "vuelta", "despacho", "cpu"}
  BY <1>1, <1>3 DEF Rumbo
<1>4. CASE corto \in {"check_exec", "atiende", "encola_io", "despierta", "bloquea",
                      "cuenta", "rutea"}
  <2>1. /\ pcb \in Pids
        /\ \/ status'[pcb] = status[pcb] /\ (fin'[pcb] = "no" <=> fin[pcb] = "no")
           \/ pcb # en_exec /\ status'[pcb] = "READY" /\ fin'[pcb] = "no"
           \/ pcb # en_exec /\ status'[pcb] = "TERMINATED" /\ fin'[pcb] # "no"
    BY <1>2, <1>4 DEF Ajeno
  <2> QED
    BY <1>1, <1>4, <2>1 DEF LugarInv, Manos, Rumbo
<1> QED
  BY <1>3, <1>4 DEF TipoInv, CortoInv, CortoOK

\* A push to a ready queue, a finalization and a step that does neither leave
\* the process that runs alone.
LEMMA PushReadyAjeno ==
    ASSUME TipoInv, NEW p \in Pids, NEW b, PushReady(p, b), p # en_exec, fin[p] = "no",
           UNCHANGED cortoVars, \A q \in Pids : fin'[q] = "no" <=> fin[q] = "no"
    PROVE  Ajeno
BY DEF PushReady, TipoInv, PcbOK, Ajeno

\* To finalize another process leaves the one of the scheduler alone.
LEMMA FinalizarAjeno ==
    ASSUME TipoInv, NEW p \in Pids, FinalizarProceso(p), p # en_exec, p \in Creados,
           UNCHANGED cortoVars
    PROVE  Ajeno
BY DEF FinalizarProceso, TipoInv, PcbOK, FinInv, FinOK, Ajeno

\* So does a step that changes no status.
LEMMA SinCambioAjeno ==
    ASSUME UNCHANGED cortoVars, status' = status, fin' = fin
    PROVE  Ajeno
BY DEF Ajeno

\* Every step of the other threads is one of those.
LEMMA PasoAjeno ==
    ASSUME TipoInv, LugarInv, [Next]_vars, ~Corto, ~CpuResponde
    PROVE  Ajeno
<1>1. CASE UNCHANGED vars
  BY <1>1, SinCambioAjeno DEF vars, datos, pcbVars, finVars
<1>2. CASE Largo
  <2>1. CASE LargoAdmite
    <3>1. PICK p \in Pids : p = Head(queue_new) /\ Contains(queue_new, p)
      BY <2>1, SacarMiembros DEF LargoAdmite, TipoInv, ColasOK, LugarInv, ColasSinRepetir
    <3>2. fin[p] = "no" /\ p # en_exec
      BY <3>1, SoloUno
    <3>3. /\ UNCHANGED cortoVars /\ fin' = fin
          /\ status' = [status EXCEPT ![p] = "READY"]
      BY <2>1, <3>1 DEF LargoAdmite, finVars
    <3> QED
      BY <3>2, <3>3 DEF Ajeno, TipoInv, PcbOK
  <2>2. CASE LargoMulti \/ LargoHayNew \/ LargoCheck
    BY <2>2, SinCambioAjeno DEF LargoMulti, LargoHayNew, LargoCheck, datos, pcbVars, finVars
  <2> QED
    BY <1>2, <2>1, <2>2 DEF Largo
<1>3. CASE MultiChangeWaits \/ Comando
  BY <1>3, SinCambioAjeno DEF MultiChangeWaits, Comando, EnviarNew, DetenerPlanificacion,
     IniciarPlanificacion, CambiarMultiprogramacion, FinalizarPid, fueraHilos, fueraConsola,
     datos, pcbVars, finVars
<1>4. ASSUME NEW t \in Pids, Fin(t) PROVE Ajeno
  <2>1. UNCHANGED cortoVars
    BY <1>4 DEF Fin, FinCheck, FinLibera, FinDespierta, FinLibre, fueraHilos
  <2>2. CASE FinDespierta(t)
    <3>1. PICK p : p = despierta[t]
      OBVIOUS
    <3>2. p \in Pids /\ fin[p] = "no" /\ p # en_exec
      BY <2>2, <3>1, SoloUno DEF FinDespierta, TipoInv, FinInv
    <3>3. \A q \in Pids : fin'[q] = "no" <=> fin[q] = "no"
      BY <2>2 DEF FinDespierta, TipoInv, FinInv, FinOK
    <3> QED
      BY <2>1, <2>2, <3>1, <3>2, <3>3, PushReadyAjeno DEF FinDespierta
  <2>3. CASE FinCheck(t) \/ FinLibera(t) \/ FinLibre(t)
    <3>1. status' = status /\ \A q \in Pids : fin'[q] = "no" <=> fin[q] = "no"
      BY <2>3 DEF FinCheck, FinLibera, FinLibre, pcbVars, TipoInv, FinInv, FinOK
    <3> QED
      BY <2>1, <3>1 DEF Ajeno
  <2> QED
    BY <1>4, <2>2, <2>3 DEF Fin
<1>5. ASSUME NEW i \in Interfaces, Io(i) PROVE Ajeno
  <2>1. UNCHANGED cortoVars
    BY <1>5 DEF Io, IoTrabaja, IoRegistra, IoResponde, IoEspera, IoCheck, IoPop, IoPopVacia,
       IoExito, IoFalla, IoDesconecta, Cae, fueraHilos
  <2>2. ASSUME io[i] = "check_io"
        PROVE  /\ io_pcb[i] \in Pids /\ fin[io_pcb[i]] = "no"
               /\ io_pcb[i] # en_exec /\ io_pcb[i] \in Creados
    <3>1. PICK p : p = io_pcb[i]
      OBVIOUS
    <3> QED
      BY <2>2, <3>1, SoloUno DEF TipoInv, IoInv
  <2>3. CASE IoExito(i)
    BY <2>1, <2>2, <2>3, PushReadyAjeno DEF IoExito, finVars
  <2>4. ASSUME NEW resp, IoFalla(i, resp) PROVE Ajeno
    BY <2>1, <2>2, <2>4, FinalizarAjeno DEF IoFalla
  <2>5. CASE IoRegistra(i) \/ IoResponde(i) \/ IoEspera(i) \/ IoCheck(i) \/ IoPop(i)
             \/ IoPopVacia(i) \/ IoDesconecta(i)
    BY <2>1, <2>5, SinCambioAjeno DEF IoRegistra, IoResponde, IoEspera, IoCheck, IoPop,
       IoPopVacia, IoDesconecta, Cae, datos, pcbVars, finVars
  <2> QED
    BY <1>5, <2>3, <2>4, <2>5 DEF Io, IoTrabaja
<1>6. CASE ConsolaSigue
  <2>1. UNCHANGED cortoVars
    BY <1>6 DEF ConsolaSigue, ConsolaInterrumpe, ConsolaQuitaReady, ConsolaEsperaReady,
       ConsolaNoEnReady, ConsolaMiraIos, ConsolaNoExiste, ConsolaQuitaEspera,
       ConsolaNoEspera, ConsolaQuitaIo, ConsolaEsperaIo, ConsolaNoIo, ConsolaIoDestruida,
       Cae, fueraConsola
  <2>2. PICK p : p = pid_fin
    OBVIOUS
  <2>3. CASE ConsolaQuitaReady
    <3>1. p \in Pids /\ (Contains(queue_ready, p) \/ Contains(queue_priority_ready, p))
      BY <2>2, <2>3, QuitarMiembros
      DEF ConsolaQuitaReady, TipoInv, ConsInv, ColasOK, LugarInv, ColasSinRepetir
    <3> QED
      BY <2>1, <2>2, <2>3, <3>1, SoloUno, FinalizarAjeno DEF ConsolaQuitaReady
  <2>4. ASSUME NEW r \in Recursos, ConsolaQuitaEspera(r) PROVE Ajeno
    <3>1. p \in Pids /\ Contains(queue_waiting[r], p)
      BY <2>2, <2>4, QuitarMiembros
      DEF ConsolaQuitaEspera, TipoInv, ConsInv, RecOK, LugarInv, ColasSinRepetir
    <3> QED
      BY <2>1, <2>2, <2>4, <3>1, SoloUno, FinalizarAjeno DEF ConsolaQuitaEspera
  <2>5. ASSUME NEW i \in Interfaces, ConsolaEsperaIo(i) PROVE Ajeno
    <3>1. p \in Pids /\ consola = "wait_io"
      BY <2>2, <2>5 DEF ConsolaEsperaIo, TipoInv, ConsInv
    <3> QED
      BY <2>1, <2>2, <2>5, <3>1, SoloUno, FinalizarAjeno DEF ConsolaEsperaIo
  <2>6. CASE \/ ConsolaInterrumpe \/ ConsolaEsperaReady \/ ConsolaNoEnReady
             \/ ConsolaMiraIos \/ ConsolaNoExiste \/ \E r \in Recursos : ConsolaNoEspera(r)
             \/ \E i \in Interfaces : ConsolaQuitaIo(i) \/ ConsolaNoIo(i) \/ ConsolaIoDestruida(i)
    BY <2>1, <2>6, SinCambioAjeno DEF ConsolaInterrumpe, ConsolaEsperaReady, ConsolaNoEnReady,
       ConsolaMiraIos, ConsolaNoExiste, ConsolaNoEspera, ConsolaQuitaIo, ConsolaNoIo,
       ConsolaIoDestruida, Cae, datos, pcbVars, finVars
  <2> QED
    BY <1>6, <2>3, <2>4, <2>5, <2>6 DEF ConsolaSigue
<1> QED
  BY <1>1, <1>2, <1>3, <1>4, <1>5, <1>6 DEF Next


\* Processes are only created.
LEMMA CreadosCrece ==
    ASSUME TipoInv, [Next]_vars, NEW p, p \notin Creados'
    PROVE  p \notin Creados
<1>1. next_pid' = next_pid \/ next_pid' = next_pid + 1
  BY ZenonT(90) DEF Next, vars, datos, Largo, LargoMulti, LargoHayNew, LargoCheck, LargoAdmite,
     Corto, CortoEspera, CortoCheck, CortoPop, CortoPopVacia, CortoDespacho, CortoCheckExec,
     AtiendeDesconocido, AtiendeIo, EncolaIo, EncolaIoDestruida, AtiendeWait, CortoBloquea,
     AtiendeSignal, CortoDespierta, CortoCuenta, RuteaFinal, RuteaDobleFin, RuteaReady,
     RuteaAjeno, CortoVuelta, CpuResponde, MultiChangeWaits, Comando, EnviarNew,
     DetenerPlanificacion, IniciarPlanificacion, CambiarMultiprogramacion, FinalizarPid,
     ConsolaSigue, ConsolaInterrumpe, ConsolaQuitaReady, ConsolaEsperaReady,
     ConsolaNoEnReady, ConsolaMiraIos, ConsolaNoExiste, ConsolaQuitaEspera, ConsolaNoEspera,
     ConsolaQuitaIo, ConsolaEsperaIo, ConsolaNoIo, ConsolaIoDestruida, Fin, FinCheck,
     FinLibera, FinDespierta, FinLibre, Io, IoTrabaja, IoRegistra, IoResponde, IoEspera,
     IoCheck, IoPop, IoPopVacia, IoExito, IoFalla, IoDesconecta, Cae, fueraHilos,
     fueraCorto, consVars, consRegs
<1>2. next_pid \in Int
  BY CotasAssumption DEF TipoInv, ConsInv, ConsOK
<1> QED
  BY <1>1, <1>2, SMTT(60) DEF Creados

\* The other threads keep the control points in order.
LEMMA ManosAjeno ==
    ASSUME TipoInv, LugarInv, [Next]_vars, ~Corto, ~CpuResponde
    PROVE  Manos'
<1>1. Ajeno
  BY PasoAjeno
<1>2. UNCHANGED cortoVars
  BY <1>1 DEF Ajeno
<1>3. \A p \in Pids \ Creados' : fin'[p] = "no"
  BY <1>1, CreadosCrece DEF Ajeno, LugarInv, Manos
<1>4. \A i \in Interfaces : io_pcb'[i] # Nadie => io'[i] \in {"servir", "check_io"}
  <2> USE DEF LugarInv, Manos, TipoInv, IoInv, IoOK
  <2>1. CASE UNCHANGED ioVars
    BY <2>1 DEF ioVars
  <2>2. CASE \E i \in Interfaces : Io(i)
    <3>1. PICK i \in Interfaces : Io(i)
      BY <2>2
    <3>2. CASE IoRegistra(i) \/ IoResponde(i) \/ IoEspera(i) \/ IoCheck(i)
      BY <3>2 DEF IoRegistra, IoResponde, IoEspera, IoCheck
    <3>3. CASE IoPop(i) \/ IoPopVacia(i) \/ IoExito(i)
      BY <3>3 DEF IoPop, IoPopVacia, IoExito, Cae, datos, ioVars
    <3>4. CASE IoDesconecta(i) \/ \E resp : IoFalla(i, resp)
      BY <3>4 DEF IoDesconecta, IoFalla
    <3> QED
      BY <3>1, <3>2, <3>3, <3>4 DEF Io, IoTrabaja
  <2>3. CASE ConsolaSigue
    <3>1. UNCHANGED <<io, io_pcb>>
      BY <2>3 DEF ConsolaSigue, ConsolaInterrumpe, ConsolaQuitaReady, ConsolaEsperaReady,
         ConsolaNoEnReady, ConsolaMiraIos, ConsolaNoExiste, ConsolaQuitaEspera,
         ConsolaNoEspera, ConsolaQuitaIo, ConsolaEsperaIo, ConsolaNoIo, ConsolaIoDestruida,
         Cae, datos, ioVars
    <3> QED
      BY <3>1
  <2>4. Largo \/ MultiChangeWaits \/ Comando \/ (\E p \in Pids : Fin(p)) \/ UNCHANGED vars
          => UNCHANGED ioVars
    BY DEF Largo, LargoMulti, LargoHayNew, LargoCheck, LargoAdmite, MultiChangeWaits, Comando,
       EnviarNew, DetenerPlanificacion, IniciarPlanificacion, CambiarMultiprogramacion,
       FinalizarPid, Fin, FinCheck, FinLibera, FinDespierta, FinLibre, datos, vars
  <2> QED
    BY <2>1, <2>2, <2>3, <2>4 DEF Next
<1>5. \A p \in Pids : despierta'[p] # Nadie => fin'[p] = "despierta"
  <2> USE DEF LugarInv, Manos, TipoInv, FinInv, FinOK
  <2>1. CASE \E t \in Pids : Fin(t)
    <3>1. PICK t \in Pids : Fin(t)
      BY <2>1
    <3>2. CASE FinLibera(t)
      BY <3>2 DEF FinLibera
    <3>3. CASE FinCheck(t) \/ FinDespierta(t) \/ FinLibre(t)
      BY <3>3, SMTT(60) DEF FinCheck, FinDespierta, FinLibre
    <3> QED
      BY <3>1, <3>2, <3>3 DEF Fin
  <2>2. ASSUME ~\E t \in Pids : Fin(t) PROVE despierta' = despierta
    BY <2>2 DEF Next, vars, datos, finVars, Largo, LargoMulti, LargoHayNew, LargoCheck,
       LargoAdmite, MultiChangeWaits, Comando, EnviarNew, DetenerPlanificacion,
       IniciarPlanificacion, CambiarMultiprogramacion, FinalizarPid, ConsolaSigue,
       ConsolaInterrumpe, ConsolaQuitaReady, ConsolaEsperaReady, ConsolaNoEnReady,
       ConsolaMiraIos, ConsolaNoExiste, ConsolaQuitaEspera, ConsolaNoEspera, ConsolaQuitaIo,
       ConsolaEsperaIo, ConsolaNoIo, ConsolaIoDestruida, Io, IoTrabaja, IoRegistra,
       IoResponde, IoEspera, IoCheck, IoPop, IoPopVacia, IoExito, IoFalla, IoDesconecta, Cae,
       FinalizarProceso
  <2>3. ASSUME ~\E t \in Pids : Fin(t), NEW p \in Pids, fin[p] = "despierta"
        PROVE  fin'[p] = "despierta"
    <3>1. CASE UNCHANGED finVars
      BY <2>3, <3>1 DEF finVars
    <3>2. CASE \E q : FinalizarProceso(q) /\ q \in Pids /\ fin[q] = "no"
      BY <2>3, <3>2 DEF FinalizarProceso
    <3>3. CASE \E i \in Interfaces : Io(i)
      <4>1. PICK i \in Interfaces : Io(i)
        BY <3>3
      <4>2. ASSUME NEW resp, IoFalla(i, resp) PROVE fin'[p] = "despierta"
        <5>1. PICK q : q = io_pcb[i]
          OBVIOUS
        <5> QED
          BY <4>2, <5>1, <3>2, SoloUno DEF IoFalla, TipoInv, IoInv
      <4>3. ASSUME ~\E resp : IoFalla(i, resp) PROVE UNCHANGED finVars
        BY <4>1, <4>3 DEF Io, IoTrabaja, IoRegistra, IoResponde, IoEspera, IoCheck, IoPop,
           IoPopVacia, IoExito, IoDesconecta, Cae, datos
      <4> QED
        BY <4>2, <4>3, <3>1
    <3>4. CASE ConsolaSigue
      <4>0. PICK q : q = pid_fin
        OBVIOUS
      <4>1. CASE ConsolaQuitaReady
        <5>1. q \in Pids /\ (Contains(queue_ready, q) \/ Contains(queue_priority_ready, q))
          BY <4>0, <4>1, QuitarMiembros
          DEF ConsolaQuitaReady, ConsInv, ColasOK, ColasSinRepetir
        <5> QED
          BY <4>0, <4>1, <5>1, <3>2, SoloUno DEF ConsolaQuitaReady
      <4>2. ASSUME NEW r \in Recursos, ConsolaQuitaEspera(r) PROVE fin'[p] = "despierta"
        <5>1. q \in Pids /\ Contains(queue_waiting[r], q)
          BY <4>0, <4>2, QuitarMiembros DEF ConsolaQuitaEspera, ConsInv, RecOK, ColasSinRepetir
        <5> QED
          BY <4>0, <4>2, <5>1, <3>2, SoloUno DEF ConsolaQuitaEspera
      <4>3. ASSUME NEW i \in Interfaces, ConsolaEsperaIo(i) PROVE fin'[p] = "despierta"
        <5>1. q \in Pids /\ consola = "wait_io"
          BY <4>0, <4>3 DEF ConsolaEsperaIo, ConsInv
        <5> QED
          BY <4>0, <4>3, <5>1, <3>2, SoloUno DEF ConsolaEsperaIo
      <4>4. CASE \/ ConsolaInterrumpe \/ ConsolaEsperaReady \/ ConsolaNoEnReady
                 \/ ConsolaMiraIos \/ ConsolaNoExiste \/ \E r \in Recursos : ConsolaNoEspera(r)
                 \/ \E i \in Interfaces : ConsolaQuitaIo(i) \/ ConsolaNoIo(i) \/ ConsolaIoDestruida(i)
        BY <4>4, <3>1 DEF ConsolaInterrumpe, ConsolaEsperaReady, ConsolaNoEnReady,
           ConsolaMiraIos, ConsolaNoExiste, ConsolaNoEspera, ConsolaQuitaIo, ConsolaNoIo,
           ConsolaIoDestruida, Cae, datos
      <4> QED
        BY <3>4, <4>1, <4>2, <4>3, <4>4 DEF ConsolaSigue
    <3>5. Largo \/ MultiChangeWaits \/ Comando \/ UNCHANGED vars => UNCHANGED finVars
      BY DEF Largo, LargoMulti, LargoHayNew, LargoCheck, LargoAdmite, MultiChangeWaits, Comando,
         EnviarNew, DetenerPlanificacion, IniciarPlanificacion, CambiarMultiprogramacion,
         FinalizarPid, datos, vars
    <3> QED
      BY <2>3, <3>1, <3>3, <3>4, <3>5 DEF Next
  <2> QED
    BY <2>1, <2>2, <2>3
<1> QED
  BY <1>2, <1>3, <1>4, <1>5 DEF LugarInv, Manos, cortoVars, cortoRegs


\* So does corto_main, and what it will read in its PCB is what it left.
LEMMA CortoManos ==
    ASSUME TipoInv, LugarInv, [Next]_vars, Corto \/ CpuResponde
    PROVE  Manos' /\ Rumbo'
<1> USE NadieNoEsPid
<1>1. CASE CpuResponde
  <2>1. /\ corto = "cpu" /\ en_exec = pcb /\ pcb \in Pids
    BY <1>1 DEF CpuResponde, TipoInv, CortoInv, LugarInv, Manos
  <2>2. PICK m \in RespuestasCpu(pcb) : mensaje' = m /\ status' = [status EXCEPT ![pcb] = m.status]
    BY <1>1 DEF CpuResponde
  <2>3. m.op \in {"PCB", "SIGNAL"} => m.status \in EstadosFinales \cup EstadosListos
    BY <2>2 DEF RespuestasCpu, EstadosFinales, EstadosListos
  <2>4. corto' = "check_exec" /\ status'[pcb] = m.status
        /\ UNCHANGED <<pcb, en_exec, a_ready, io, io_pcb, despierta, fin, next_pid>>
    BY <1>1, <2>1, <2>2 DEF CpuResponde, TipoInv, PcbOK, ajenoStatus, ioVars, finVars,
       fueraCorto, consVars, consRegs
  <2> QED
    BY <2>1, <2>2, <2>3, <2>4 DEF LugarInv, Manos, Rumbo, Creados
<1>2. CASE Corto
  <2>1. CASE \/ CortoEspera \/ CortoCheck \/ CortoPopVacia \/ CortoDespacho
             \/ EncolaIoDestruida \/ RuteaDobleFin \/ CortoVuelta
    BY <2>1 DEF LugarInv, Manos, Rumbo, Creados, CortoEspera, CortoCheck, CortoPopVacia,
       CortoDespacho, EncolaIoDestruida, RuteaDobleFin, CortoVuelta, Cae, datos, pcbVars,
       ioVars, finVars, cortoVars, cortoRegs, fueraCorto, consVars, consRegs
  <2>2. CASE CortoPop
    BY <2>2 DEF LugarInv, Manos, Rumbo, Creados, CortoPop, ioVars, finVars, fueraCorto,
       consVars, consRegs
  <2>3. ASSUME corto \notin {"espera", "check", "pop", "vuelta", "bloquea"}, en_exec = pcb
        PROVE  pcb \in Pids /\ fin[pcb] = "no" /\ pcb \in Creados /\ a_ready # pcb
               /\ en_exec # Nadie
    BY <2>3, SoloUno DEF TipoInv, CortoInv
  <2>4. CASE CortoCheckExec \/ CortoCuenta
    BY <2>4, ZenonT(90) DEF LugarInv, Manos, Rumbo, Creados, CortoCheckExec, CortoCuenta, datos, pcbVars,
       ioVars, finVars, cortoRegs, fueraCorto, consVars, consRegs, TipoInv, CortoInv, CortoOK
  <2>5. CASE AtiendeDesconocido \/ AtiendeIo
    BY <2>3, <2>5 DEF LugarInv, Manos, Rumbo, Creados, AtiendeDesconocido, AtiendeIo,
       ajenoStatus, ioVars, finVars, cortoRegs, fueraCorto, consVars, consRegs, TipoInv, PcbOK,
       EstadosFinales
  <2>6. CASE EncolaIo
    BY <2>3, <2>6 DEF LugarInv, Manos, Rumbo, Creados, EncolaIo, pcbVars, finVars,
       fueraCorto, consVars, consRegs
  <2>7. CASE AtiendeWait
    BY <2>3, <2>7 DEF LugarInv, Manos, Rumbo, Creados, AtiendeWait, ioVars, finVars,
       fueraCorto, consVars, consRegs, TipoInv, PcbOK, EstadosListos
  <2>8. CASE CortoBloquea
    BY <2>8 DEF LugarInv, Manos, Rumbo, Creados, CortoBloquea, ajenoStatus, ioVars, finVars,
       cortoRegs, fueraCorto, consVars, consRegs, TipoInv, PcbOK, CortoInv
  <2>9. CASE AtiendeSignal
    BY <2>3, <2>9 DEF LugarInv, Manos, Rumbo, Creados, AtiendeSignal, ioVars, finVars, fueraCorto,
       consVars, consRegs
  <2>10. CASE CortoDespierta
    BY <2>3, <2>10 DEF LugarInv, Manos, Rumbo, Creados, CortoDespierta, PushReady, ioVars,
       finVars, fueraCorto, consVars, consRegs, TipoInv, PcbOK, CortoInv
  <2>11. CASE RuteaFinal
    <3>1. en_exec = pcb
      BY <2>11 DEF RuteaFinal, LugarInv, Manos, Rumbo, EstadosFinales
    <3> QED
      BY <2>3, <2>11, <3>1 DEF LugarInv, Manos, Rumbo, Creados, RuteaFinal, FinalizarProceso,
         ioVars, fueraCorto, consVars, consRegs, TipoInv, FinInv, FinOK, PcbOK
  <2>12. CASE RuteaReady
    BY <2>12 DEF LugarInv, Manos, Rumbo, Creados, RuteaReady, ioVars, finVars, fueraCorto,
       consVars, consRegs
  <2>13. CASE RuteaAjeno
    <3>1. en_exec = Nadie
      <4>1. PICK s \in EstadoLeido(pcb) : s \notin EstadosFinales \cup EstadosListos
        BY <2>13 DEF RuteaAjeno
      <4>2. CASE en_exec = pcb
        BY <2>3, <2>13, <4>1, <4>2 DEF RuteaAjeno, EstadoLeido, LugarInv, Rumbo
      <4> QED
        BY <2>13, <4>2 DEF RuteaAjeno, LugarInv, Manos
    <3> QED
      BY <2>13, <3>1 DEF LugarInv, Manos, Rumbo, Creados, RuteaAjeno, datos, ioVars, finVars,
         cortoRegs, fueraCorto, consVars, consRegs
  <2> QED
    BY <1>2, <2>1, <2>2, <2>4, <2>5, <2>6, <2>7, <2>8, <2>9, <2>10, <2>11, <2>12, <2>13 DEF Corto
<1> QED
  BY <1>1, <1>2

\* At the start no process exists.
LEMMA LugarInit == Init => LugarInv
<1> SUFFICES ASSUME Init PROVE LugarInv
  OBVIOUS
<1>1. ColasSinRepetir /\ Manos /\ Rumbo
  BY NadieNoEsPid, VaciaMiembros DEF Init, ColasSinRepetir, Manos, Rumbo
<1>2. ASSUME NEW p \in Pids PROVE Ubicado(p, "nada", 0)
  <2>1. p \notin Creados /\ p # Nadie
    BY <1>2, NadieNoEsPid DEF Init, Creados, Pids
  <2> QED
    BY <1>2, <2>1, VaciaMiembros DEF Init, Ubicado
<1> QED
  BY <1>1, <1>2 DEF LugarInv, Ubicacion

\* Every step keeps the invariant.
LEMMA LugarPaso ==
    ASSUME TipoInv, LugarInv, [Next]_vars
    PROVE  LugarInv'
<1>1. Manos' /\ Rumbo'
  BY CortoManos, ManosAjeno, PasoAjeno, AjenoRumbo
<1> QED
  BY <1>1, UbicacionPaso DEF LugarInv

\* Every reachable state has every process in its place.
LEMMA LugarSiempre == Spec => [](TipoInv /\ LugarInv)
<1>1. TipoInv /\ LugarInv /\ [Next]_vars => (TipoInv /\ LugarInv)'
  BY TipoPaso, LugarPaso
<1> QED
  BY <1>1, TipoInit, LugarInit, PTL DEF Spec


-----------------------------------------------------------------------------
(* A live process is in one place.                                         *)

\* The elements of Lugares(p), one by one.
EnLugar(p, e) ==
    \/ \E j \in DOMAIN queue_new : queue_new[j] = p /\ e = <<"new", "", j>>
    \/ \E j \in DOMAIN queue_ready : queue_ready[j] = p /\ e = <<"ready", "", j>>
    \/ \E j \in DOMAIN queue_priority_ready :
         queue_priority_ready[j] = p /\ e = <<"prioridad", "", j>>
    \/ \E r \in Recursos : \E j \in DOMAIN queue_waiting[r] :
         queue_waiting[r][j] = p /\ e = <<"recurso", r, j>>
    \/ \E i \in Interfaces : \E j \in DOMAIN queue_io[i] :
         queue_io[i][j] = p /\ e = <<"io", i, j>>
    \/ \E i \in Interfaces : io_pcb[i] = p /\ e = <<"interfaz", i, 0>>
    \/ \E t \in Pids : despierta[t] = p /\ e = <<"despierta", "", t>>
    \/ en_exec = p /\ e = <<"exec", "", 0>>
    \/ a_ready = p /\ e = <<"despierta_corto", "", 0>>
    \/ p \in perdidos /\ e = <<"perdido", "", 0>>
    \/ consola = "wait_io" /\ pid_fin = p /\ e = <<"consola", "", 0>>

\* The places of a process, one by one.
LEMMA EnLugares ==
    ASSUME NEW p, NEW e
    PROVE  e \in Lugares(p) <=> EnLugar(p, e)
<1> DEFINE A == {<<"new", "", k>> : k \in {j \in DOMAIN queue_new : queue_new[j] = p}}
           B == {<<"ready", "", k>> : k \in {j \in DOMAIN queue_ready : queue_ready[j] = p}}
           C == {<<"prioridad", "", k>> :
                   k \in {j \in DOMAIN queue_priority_ready : queue_priority_ready[j] = p}}
           D == UNION {{<<"recurso", r, k>> :
                   k \in {j \in DOMAIN queue_waiting[r] : queue_waiting[r][j] = p}} : r \in Recursos}
           E == UNION {{<<"io", i, k>> :
                   k \in {j \in DOMAIN queue_io[i] : queue_io[i][j] = p}} : i \in Interfaces}
           F == {<<"interfaz", i, 0>> : i \in {j \in Interfaces : io_pcb[j] = p}}
           G == {<<"despierta", "", q>> : q \in {t \in Pids : despierta[t] = p}}
           H == {<<lugar, "", 0>> : lugar \in
                   (IF en_exec = p THEN {"exec"} ELSE {})
                   \cup (IF a_ready = p THEN {"despierta_corto"} ELSE {})
                   \cup (IF p \in perdidos THEN {"perdido"} ELSE {})
                   \cup (IF consola = "wait_io" /\ pid_fin = p THEN {"consola"} ELSE {})}
<1>1. e \in A <=> \E j \in DOMAIN queue_new : queue_new[j] = p /\ e = <<"new", "", j>>
  OBVIOUS
<1>2. e \in B <=> \E j \in DOMAIN queue_ready : queue_ready[j] = p /\ e = <<"ready", "", j>>
  OBVIOUS
<1>3. e \in C <=> \E j \in DOMAIN queue_priority_ready :
                    queue_priority_ready[j] = p /\ e = <<"prioridad", "", j>>
  OBVIOUS
<1>4. e \in D <=> \E r \in Recursos : \E j \in DOMAIN queue_waiting[r] :
                    queue_waiting[r][j] = p /\ e = <<"recurso", r, j>>
  OBVIOUS
<1>5. e \in E <=> \E i \in Interfaces : \E j \in DOMAIN queue_io[i] :
                    queue_io[i][j] = p /\ e = <<"io", i, j>>
  OBVIOUS
<1>6. e \in F <=> \E i \in Interfaces : io_pcb[i] = p /\ e = <<"interfaz", i, 0>>
  OBVIOUS
<1>7. e \in G <=> \E t \in Pids : despierta[t] = p /\ e = <<"despierta", "", t>>
  OBVIOUS
<1>8. e \in H <=> \/ en_exec = p /\ e = <<"exec", "", 0>>
                  \/ a_ready = p /\ e = <<"despierta_corto", "", 0>>
                  \/ p \in perdidos /\ e = <<"perdido", "", 0>>
                  \/ consola = "wait_io" /\ pid_fin = p /\ e = <<"consola", "", 0>>
  OBVIOUS
<1>9. Lugares(p) = A \cup B \cup C \cup D \cup E \cup F \cup G \cup H
  BY DEF Lugares
<1> HIDE DEF A, B, C, D, E, F, G, H
<1> QED
  BY <1>1, <1>2, <1>3, <1>4, <1>5, <1>6, <1>7, <1>8, <1>9 DEF EnLugar

\* Contains, by positions.
LEMMA ContieneEnPosicion ==
    ASSUME NEW s \in Seq(Pids), NEW p
    PROVE  Contains(s, p) <=> \E j \in DOMAIN s : s[j] = p
BY LenProperties DEF Contains

\* A process that is somewhere is in one place.
LEMMA CuantosLugares ==
    ASSUME TipoInv, ColasSinRepetir, NEW p \in Pids, NEW k, NEW x, Ubicado(p, k, x)
    PROVE  Cardinality(Lugares(p)) = Uno(p \in Creados /\ fin[p] = "no")
<1>1. /\ Contains(queue_new, p) <=> \E j \in DOMAIN queue_new : queue_new[j] = p
      /\ Contains(queue_ready, p) <=> \E j \in DOMAIN queue_ready : queue_ready[j] = p
      /\ Contains(queue_priority_ready, p)
           <=> \E j \in DOMAIN queue_priority_ready : queue_priority_ready[j] = p
      /\ \A r \in Recursos : Contains(queue_waiting[r], p)
           <=> \E j \in DOMAIN queue_waiting[r] : queue_waiting[r][j] = p
      /\ \A i \in Interfaces : Contains(queue_io[i], p)
           <=> \E j \in DOMAIN queue_io[i] : queue_io[i][j] = p
  BY ContieneEnPosicion DEF TipoInv, ColasOK, RecOK, IoInv, IoOK
<1>2. /\ k # "new" => \A j \in DOMAIN queue_new : queue_new[j] # p
      /\ k # "ready" => \A j \in DOMAIN queue_ready : queue_ready[j] # p
      /\ k # "prioridad" => \A j \in DOMAIN queue_priority_ready : queue_priority_ready[j] # p
      /\ \A r \in Recursos : ~(k = "recurso" /\ x = r) =>
           \A j \in DOMAIN queue_waiting[r] : queue_waiting[r][j] # p
      /\ \A i \in Interfaces : ~(k = "io" /\ x = i) =>
           \A j \in DOMAIN queue_io[i] : queue_io[i][j] # p
  BY <1>1 DEF Ubicado
<1>3. /\ \A i \in Interfaces : io_pcb[i] = p <=> k = "interfaz" /\ x = i
      /\ \A t \in Pids : despierta[t] = p <=> k = "despierta" /\ x = t
      /\ en_exec = p <=> k = "exec"
      /\ a_ready = p <=> k = "despierta_corto"
      /\ p \in perdidos <=> k = "perdido"
      /\ (consola = "wait_io" /\ pid_fin = p) <=> k = "consola"
  BY DEF Ubicado
<1>4. CASE k = "nada"
  <2>1. ASSUME NEW e, e \in Lugares(p) PROVE FALSE
    BY <1>2, <1>3, <1>4, <2>1, EnLugares DEF EnLugar
  <2>2. Lugares(p) = {}
    BY <2>1
  <2> QED
    BY <1>4, <2>2, FS_EmptySet DEF Ubicado, Uno
<1>5. CASE k # "nada"
  <2>1. \A e : Lugares(p) = {e} => Cardinality(Lugares(p)) = Uno(p \in Creados /\ fin[p] = "no")
    BY <1>5, FS_Singleton DEF Ubicado, Uno
  <2>2. CASE k = "new"
    <3>1. PICK j \in DOMAIN queue_new : queue_new[j] = p
      BY <1>1, <2>2 DEF Ubicado
    <3>2. \A i \in DOMAIN queue_new : queue_new[i] = p => i = j
      BY <2>2, <3>1 DEF Ubicado, ColasSinRepetir, SinRepetir
    <3>3. ASSUME NEW e PROVE EnLugar(p, e) <=> e = <<"new", "", j>>
      BY <1>2, <1>3, <2>2, <3>1, <3>2 DEF EnLugar
    <3>4. Lugares(p) = {<<"new", "", j>>}
      BY <3>3, EnLugares
    <3> QED
      BY <3>4, <2>1
  <2>3. CASE k = "ready"
    <3>1. PICK j \in DOMAIN queue_ready : queue_ready[j] = p
      BY <1>1, <2>3 DEF Ubicado
    <3>2. \A i \in DOMAIN queue_ready : queue_ready[i] = p => i = j
      BY <2>3, <3>1 DEF Ubicado, ColasSinRepetir, SinRepetir
    <3>3. ASSUME NEW e PROVE EnLugar(p, e) <=> e = <<"ready", "", j>>
      BY <1>2, <1>3, <2>3, <3>1, <3>2 DEF EnLugar
    <3>4. Lugares(p) = {<<"ready", "", j>>}
      BY <3>3, EnLugares
    <3> QED
      BY <3>4, <2>1
  <2>4. CASE k = "prioridad"
    <3>1. PICK j \in DOMAIN queue_priority_ready : queue_priority_ready[j] = p
      BY <1>1, <2>4 DEF Ubicado
    <3>2. \A i \in DOMAIN queue_priority_ready : queue_priority_ready[i] = p => i = j
      BY <2>4, <3>1 DEF Ubicado, ColasSinRepetir, SinRepetir
    <3>3. ASSUME NEW e PROVE EnLugar(p, e) <=> e = <<"prioridad", "", j>>
      BY <1>2, <1>3, <2>4, <3>1, <3>2 DEF EnLugar
    <3>4. Lugares(p) = {<<"prioridad", "", j>>}
      BY <3>3, EnLugares
    <3> QED
      BY <3>4, <2>1
  <2>5. CASE k = "recurso"
    <3>1. PICK j \in DOMAIN queue_waiting[x] : queue_waiting[x][j] = p
      BY <1>1, <2>5 DEF Ubicado
    <3>2. x \in Recursos /\ \A i \in DOMAIN queue_waiting[x] : queue_waiting[x][i] = p => i = j
      BY <2>5, <3>1 DEF Ubicado, ColasSinRepetir, SinRepetir
    <3>3. ASSUME NEW e PROVE EnLugar(p, e) <=> e = <<"recurso", x, j>>
      BY <1>2, <1>3, <2>5, <3>1, <3>2 DEF EnLugar
    <3>4. Lugares(p) = {<<"recurso", x, j>>}
      BY <3>3, EnLugares
    <3> QED
      BY <3>4, <2>1
  <2>6. CASE k = "io"
    <3>1. PICK j \in DOMAIN queue_io[x] : queue_io[x][j] = p
      BY <1>1, <2>6 DEF Ubicado
    <3>2. x \in Interfaces /\ \A i \in DOMAIN queue_io[x] : queue_io[x][i] = p => i = j
      BY <2>6, <3>1 DEF Ubicado, ColasSinRepetir, SinRepetir
    <3>3. ASSUME NEW e PROVE EnLugar(p, e) <=> e = <<"io", x, j>>
      BY <1>2, <1>3, <2>6, <3>1, <3>2 DEF EnLugar
    <3>4. Lugares(p) = {<<"io", x, j>>}
      BY <3>3, EnLugares
    <3> QED
      BY <3>4, <2>1
  <2>7. CASE k = "interfaz"
    <3>1. ASSUME NEW e PROVE EnLugar(p, e) <=> e = <<"interfaz", x, 0>>
      BY <1>2, <1>3, <2>7 DEF EnLugar, Ubicado
    <3>2. Lugares(p) = {<<"interfaz", x, 0>>}
      BY <3>1, EnLugares
    <3> QED
      BY <3>2, <2>1
  <2>8. CASE k = "despierta"
    <3>1. ASSUME NEW e PROVE EnLugar(p, e) <=> e = <<"despierta", "", x>>
      BY <1>2, <1>3, <2>8 DEF EnLugar, Ubicado
    <3>2. Lugares(p) = {<<"despierta", "", x>>}
      BY <3>1, EnLugares
    <3> QED
      BY <3>2, <2>1
  <2>9. CASE k = "exec"
    <3>1. ASSUME NEW e PROVE EnLugar(p, e) <=> e = <<"exec", "", 0>>
      BY <1>2, <1>3, <2>9 DEF EnLugar
    <3>2. Lugares(p) = {<<"exec", "", 0>>}
      BY <3>1, EnLugares
    <3> QED
      BY <3>2, <2>1
  <2>10. CASE k = "despierta_corto"
    <3>1. ASSUME NEW e PROVE EnLugar(p, e) <=> e = <<"despierta_corto", "", 0>>
      BY <1>2, <1>3, <2>10 DEF EnLugar
    <3>2. Lugares(p) = {<<"despierta_corto", "", 0>>}
      BY <3>1, EnLugares
    <3> QED
      BY <3>2, <2>1
  <2>11. CASE k = "perdido"
    <3>1. ASSUME NEW e PROVE EnLugar(p, e) <=> e = <<"perdido", "", 0>>
      BY <1>2, <1>3, <2>11 DEF EnLugar
    <3>2. Lugares(p) = {<<"perdido", "", 0>>}
      BY <3>1, EnLugares
    <3> QED
      BY <3>2, <2>1
  <2>12. CASE k = "consola"
    <3>1. ASSUME NEW e PROVE EnLugar(p, e) <=> e = <<"consola", "", 0>>
      BY <1>2, <1>3, <2>12 DEF EnLugar
    <3>2. Lugares(p) = {<<"consola", "", 0>>}
      BY <3>1, EnLugares
    <3> QED
      BY <3>2, <2>1
  <2> QED
    BY <1>5, <2>2, <2>3, <2>4, <2>5, <2>6, <2>7,
       <2>8, <2>9, <2>10, <2>11, <2>12 DEF Ubicado, Uno
<1> QED
  BY <1>4, <1>5

\* A live process is in exactly one queue or in the hands of one thread, and
\* a finalized one is nowhere, for any number of processes, interfaces and
\* resources: no interleaving of the schedulers, the exit threads, the
\* interfaces and FINALIZAR_PROCESO duplicates, drops or revives one.
THEOREM ProcesoEnUnLugar == Spec => []UnSoloLugar
<1>1. TipoInv /\ LugarInv => UnSoloLugar
  <2> SUFFICES ASSUME TipoInv, LugarInv, NEW p \in Creados
               PROVE  Cardinality(Lugares(p)) = Uno(fin[p] = "no")
    BY DEF UnSoloLugar
  <2>1. p \in Pids
    BY CotasAssumption DEF TipoInv, ConsInv, ConsOK, Creados, Pids
  <2>2. PICK k, x : Ubicado(p, k, x)
    BY <2>1 DEF LugarInv, Ubicacion
  <2> QED
    BY <2>1, <2>2, CuantosLugares DEF LugarInv, Uno
<1> QED
  BY <1>1, LugarSiempre, PTL


-----------------------------------------------------------------------------
(* Why the kernel crashes.                                                 *)

\* The steps that make the kernel crash.
LEMMA QuienCae ==
    ASSUME Next
    PROVE  \/ CortoPopVacia \/ EncolaIoDestruida \/ RuteaDobleFin
           \/ \E i \in Interfaces : IoPopVacia(i) \/ ConsolaIoDestruida(i)
           \/ caido' = "no"
<1>1. Largo \/ MultiChangeWaits \/ CpuResponde \/ Comando => caido' = caido
  BY DEF Largo, LargoMulti, LargoHayNew, LargoCheck, LargoAdmite, MultiChangeWaits, CpuResponde,
     Comando, EnviarNew, DetenerPlanificacion, IniciarPlanificacion, CambiarMultiprogramacion,
     FinalizarPid, fueraHilos, fueraCorto, fueraConsola
<1>2. Corto /\ ~CortoPopVacia /\ ~EncolaIoDestruida /\ ~RuteaDobleFin => caido' = caido
  BY DEF Corto, CortoEspera, CortoCheck, CortoPop, CortoDespacho, CortoCheckExec,
     AtiendeDesconocido, AtiendeIo, EncolaIo, AtiendeWait, CortoBloquea, AtiendeSignal,
     CortoDespierta, CortoCuenta, RuteaFinal, RuteaReady, RuteaAjeno, CortoVuelta, fueraCorto
<1>3. (\E p \in Pids : Fin(p)) => caido' = caido
  BY DEF Fin, FinCheck, FinLibera, FinDespierta, FinLibre, fueraHilos, fueraCorto
<1>4. ASSUME NEW i \in Interfaces, Io(i), ~IoPopVacia(i) PROVE caido' = caido
  BY <1>4 DEF Io, IoTrabaja, IoRegistra, IoResponde, IoEspera, IoCheck, IoPop, IoExito, IoFalla,
     IoDesconecta, fueraHilos, fueraCorto
<1>5. ConsolaSigue /\ ~(\E i \in Interfaces : ConsolaIoDestruida(i)) => caido' = caido
  BY DEF ConsolaSigue, ConsolaInterrumpe, ConsolaQuitaReady, ConsolaEsperaReady,
     ConsolaNoEnReady, ConsolaMiraIos, ConsolaNoExiste, ConsolaQuitaEspera, ConsolaNoEspera,
     ConsolaQuitaIo, ConsolaEsperaIo, ConsolaNoIo, fueraConsola
<1> QED
  BY <1>1, <1>2, <1>3, <1>4, <1>5 DEF Next

\* Every one of them has its cause.
LEMMA CaidaPaso ==
    ASSUME TipoInv, SemInv, LugarInv, CaidaExplicada, [Next]_vars
    PROVE  CaidaExplicada'
<1> USE DEF CaidaExplicada
<1>1. CASE UNCHANGED vars
  BY <1>1 DEF vars, cortoVars, cortoRegs, consVars
\* The dispatcher took a token, and the queues hold less than the tokens
\* only while the console owes its P().
<1>2. CASE CortoPopVacia
  <2>1. Len(queue_ready) = 0 /\ Len(queue_priority_ready) = 0
    BY <1>2, EmptySeq DEF CortoPopVacia
  <2>2. hay_ready \in Nat /\ corto = "pop"
    BY <1>2 DEF CortoPopVacia, TipoInv, ColasOK
  <2>3. consola = "wait_ready"
    BY <2>1, <2>2 DEF SemInv, SemaforosCuentanColas, SemaforoReady, Uno
  <2> QED
    BY <1>2, <2>3 DEF CortoPopVacia, Cae, consVars
<1>3. ASSUME NEW i \in Interfaces, IoPopVacia(i) PROVE CaidaExplicada'
  <2>1. Len(queue_io[i]) = 0 /\ hay_io[i] \in Nat /\ io[i] = "pop"
    BY <1>3, EmptySeq DEF IoPopVacia, TipoInv, IoInv, IoOK
  <2>2. hay_io[i] + Uno(io[i] \in {"check", "pop"})
          = Len(queue_io[i]) + Uno(consola = "wait_io" /\ i \in por_ver)
    BY <2>1 DEF SemInv, SemaforosCuentanColas, SemaforoIo
  <2>3. consola = "wait_io"
    BY <2>1, <2>2 DEF Uno
  <2> QED
    BY <1>3, <2>3 DEF IoPopVacia, Cae, consVars
\* A process corto_main still holds is alive.
<1>4. CASE RuteaDobleFin
  <2>1. pcb \in Pids /\ corto = "rutea" /\ fin[pcb] # "no"
    BY <1>4 DEF RuteaDobleFin, TipoInv, CortoInv
  <2>2. en_exec # pcb
    BY <2>1, SoloUno
  <2>3. en_exec = Nadie /\ mensaje.op \in {"IO", "WAIT"}
    BY <2>1, <2>2 DEF LugarInv, Manos, Rumbo
  <2> QED
    BY <1>4, <2>3 DEF RuteaDobleFin, Cae, cortoVars, cortoRegs
<1>5. CASE EncolaIoDestruida \/ \E i \in Interfaces : ConsolaIoDestruida(i)
  BY <1>5 DEF EncolaIoDestruida, ConsolaIoDestruida, Cae
<1>6. CASE caido' = "no"
  BY <1>6
<1> QED
  BY <1>1, <1>2, <1>3, <1>4, <1>5, <1>6, QuienCae

\* The kernel crashes for no other reason than the ones named: a pop from an
\* empty ready queue or interface queue needs a FINALIZAR_PROCESO between its
\* removal and its P(), and a double finalization a PCB corto_main had handed
\* to an interface or to a resource.
THEOREM CaidaSiempreExplicada == Spec => []CaidaExplicada
<1>1. Init => CaidaExplicada
  BY DEF Init, CaidaExplicada
<1>2. /\ TipoInv /\ SemInv /\ LugarInv /\ CaidaExplicada /\ [Next]_vars
      => CaidaExplicada'
  BY CaidaPaso
<1> QED
  BY <1>1, <1>2, SemSiempre, LugarSiempre, PTL DEF Spec


-----------------------------------------------------------------------------
(* The life of a process, from where it is.                                *)

\* The state of CicloDeVida a place of kind k stands for.
EnFase(k, e) ==
    /\ k = "nada" => e \in {"NONE", "EXIT"}
    /\ k = "new" => e = "NEW"
    /\ k \in {"ready", "prioridad"} => e = "READY"
    /\ k = "exec" => e = "EXEC"
    /\ k \in {"recurso", "io", "interfaz", "despierta", "despierta_corto", "perdido", "consola"}
         => e = "BLOCKED"

\* p goes from a state of desde to hacia; no other process changes.
Fase(p, desde, hacia) ==
    /\ EstadoDe(p) \in desde /\ EstadoDe(p)' = hacia
    /\ \A q \in Pids \ {p} : EstadoDe(q)' = EstadoDe(q)

\* The steps that finalize a process.
Termina ==
    \/ RuteaFinal \/ ConsolaQuitaReady
    \/ \E i \in Interfaces : ConsolaEsperaIo(i) \/ \E resp : IoFalla(i, resp)
    \/ \E r \in Recursos : ConsolaQuitaEspera(r)

\* The state in the life cycle of a process says where it is.
LEMMA EstadoUbicado ==
    ASSUME NEW p \in Pids, NEW k, NEW x
    PROVE  /\ Ubicado(p, k, x) => EnFase(k, EstadoDe(p))
           /\ Ubicado(p, k, x)' => EnFase(k, EstadoDe(p)')
<1>1. Ubicado(p, k, x) => EnFase(k, EstadoDe(p))
  BY DEF Ubicado, EnFase, EstadoDe
<1>2. Ubicado(p, k, x)' => EnFase(k, EstadoDe(p)')
  BY SMTT(60) DEF Ubicado, EnFase, EstadoDe
<1> QED
  BY <1>1, <1>2

\* A process is created once and stays so.
LEMMA CreadosPaso ==
    ASSUME [Next]_vars
    PROVE  EnviarNew \/ next_pid' = next_pid
BY ZenonT(90) DEF Next, vars, datos, Largo, LargoMulti, LargoHayNew, LargoCheck, LargoAdmite,
     Corto, CortoEspera, CortoCheck, CortoPop, CortoPopVacia, CortoDespacho, CortoCheckExec,
     AtiendeDesconocido, AtiendeIo, EncolaIo, EncolaIoDestruida, AtiendeWait, CortoBloquea,
     AtiendeSignal, CortoDespierta, CortoCuenta, RuteaFinal, RuteaDobleFin, RuteaReady,
     RuteaAjeno, CortoVuelta, CpuResponde, MultiChangeWaits, Comando,
     DetenerPlanificacion, IniciarPlanificacion, CambiarMultiprogramacion, FinalizarPid,
     ConsolaSigue, ConsolaInterrumpe, ConsolaQuitaReady, ConsolaEsperaReady,
     ConsolaNoEnReady, ConsolaMiraIos, ConsolaNoExiste, ConsolaQuitaEspera, ConsolaNoEspera,
     ConsolaQuitaIo, ConsolaEsperaIo, ConsolaNoIo, ConsolaIoDestruida, Fin, FinCheck,
     FinLibera, FinDespierta, FinLibre, Io, IoTrabaja, IoRegistra, IoResponde, IoEspera,
     IoCheck, IoPop, IoPopVacia, IoExito, IoFalla, IoDesconecta, Cae, fueraHilos,
     fueraCorto, consVars, consRegs

\* A move between places changes the state of its process only.
LEMMA TrasladoFase ==
    ASSUME Ubicacion, NEW p, NEW desde, NEW hacia, Traslado(p, desde, hacia),
           \A q \in Pids \ {p} : q \in Creados' <=> q \in Creados
    PROVE  /\ \E k \in desde : EnFase(k, EstadoDe(p))
           /\ \E k \in hacia : EnFase(k, EstadoDe(p)')
           /\ \A q \in Pids \ {p} : EstadoDe(q)' = EstadoDe(q)
<1>1. \E k \in desde : EnFase(k, EstadoDe(p))
  BY EstadoUbicado DEF Traslado
<1>2. \E k \in hacia : EnFase(k, EstadoDe(p)')
  <2>1. PICK k \in hacia : \E x : Ubicado(p, k, x)'
    BY DEF Traslado
  <2> QED
    BY <2>1, EstadoUbicado DEF Traslado
<1>3. ASSUME NEW q \in Pids \ {p} PROVE EstadoDe(q)' = EstadoDe(q)
  <2>1. PICK k, x : Ubicado(q, k, x)
    BY DEF Ubicacion
  <2>2. Ubicado(q, k, x)'
    BY <2>1 DEF Traslado, Quieto
  <2>3. EnFase(k, EstadoDe(q)) /\ EnFase(k, EstadoDe(q)')
    BY <2>1, <2>2, EstadoUbicado
  <2>4. CASE k = "nada"
    <3>1. q \in Creados => fin[q] # "no" /\ fin'[q] # "no" /\ q \in Creados'
      BY <2>1, <2>2, <2>4 DEF Ubicado
    <3>2. q \notin Creados => q \notin Creados'
      OBVIOUS
    <3> QED
      BY <3>1, <3>2 DEF EstadoDe
  <2> QED
    BY <2>1, <2>3, <2>4 DEF EnFase, Ubicado
<1> QED
  BY <1>1, <1>2, <1>3

\* A step that moves no process changes no state of the life cycle.
LEMMA NoMueveFase ==
    ASSUME NoMueve
    PROVE  \A q \in Pids : EstadoDe(q)' = EstadoDe(q)
BY DEF NoMueve, lugarVars, EstadoDe, Creados

\* A move of a process that was already created.
LEMMA TrasladoDeCreado ==
    ASSUME Ubicacion, NEW p, NEW desde, NEW hacia, Traslado(p, desde, hacia),
           next_pid' = next_pid
    PROVE  /\ p \in Pids
           /\ \E k \in desde : EnFase(k, EstadoDe(p))
           /\ \E k \in hacia : EnFase(k, EstadoDe(p)')
           /\ \A q \in Pids \ {p} : EstadoDe(q)' = EstadoDe(q)
           /\ EstadoDe(p) # "NONE" => EstadoDe(p)' # "NONE"
<1>1. \A q : q \in Creados' <=> q \in Creados
  BY DEF Creados
<1>2. EstadoDe(p) # "NONE" => EstadoDe(p)' # "NONE"
  BY <1>1 DEF EstadoDe
<1> QED
  BY <1>1, <1>2, TrasladoFase DEF Traslado

\* largo_main admits a process from NEW.
LEMMA FaseAdmite ==
    ASSUME TipoInv, LugarInv, LargoAdmite
    PROVE  \E p \in Pids : Fase(p, {"NEW"}, "READY")
<1>1. PICK p : p = Head(queue_new)
  OBVIOUS
<1>2. Ubicacion /\ Traslado(p, {"new"}, {"ready"}) /\ next_pid' = next_pid
  BY <1>1, MueveLargoAdmite DEF LugarInv, LargoAdmite, consVars, consRegs
<1> QED
  BY <1>2, TrasladoDeCreado DEF EnFase, Fase

\* A process ends from any other state.
LEMMA FaseTermina ==
    ASSUME TipoInv, LugarInv, Termina
    PROVE  \E p \in Pids : Fase(p, {"READY", "EXEC", "BLOCKED"}, "EXIT")
<1>1. Ubicacion /\ next_pid' = next_pid
  BY DEF LugarInv, Termina, RuteaFinal, ConsolaQuitaReady, ConsolaEsperaIo, IoFalla,
     ConsolaQuitaEspera, fueraHilos, fueraCorto, consVars, consRegs
<1>2. \E p : \/ Traslado(p, {"exec"}, {"nada"}) \/ Traslado(p, {"ready", "prioridad"}, {"nada"})
             \/ Traslado(p, {"recurso"}, {"nada"}) \/ Traslado(p, {"interfaz"}, {"nada"})
             \/ Traslado(p, {"consola"}, {"nada"})
  <2>1. CASE RuteaFinal
    <3>1. PICK p : p = pcb
      OBVIOUS
    <3> QED
      BY <2>1, <3>1, MueveRuteaFinal
  <2>2. ASSUME NEW i \in Interfaces, NEW resp, IoFalla(i, resp)
        PROVE  \E p : Traslado(p, {"interfaz"}, {"nada"})
    <3>1. PICK p : p = io_pcb[i]
      OBVIOUS
    <3> QED
      BY <2>2, <3>1, MueveIoFalla
  <2>3. PICK p : p = pid_fin
    OBVIOUS
  <2>4. CASE ConsolaQuitaReady
    BY <2>3, <2>4, MueveConsolaQuitaReady
  <2>5. CASE \E r \in Recursos : ConsolaQuitaEspera(r)
    BY <2>3, <2>5, MueveConsolaQuitaEspera
  <2>6. CASE \E i \in Interfaces : ConsolaEsperaIo(i)
    BY <2>3, <2>6, MueveConsolaEsperaIo
  <2> QED
    BY <2>1, <2>2, <2>4, <2>5, <2>6 DEF Termina
<1> QED
  BY <1>1, <1>2, TrasladoDeCreado DEF EnFase, Fase

\* Every step is one of the transitions of a life, or changes none.
LEMMA FasePaso ==
    ASSUME TipoInv, LugarInv, [Next]_vars
    PROVE  \/ \E p \in Pids : EnviarNew /\ Fase(p, {"NONE"}, "NEW")
           \/ \E p \in Pids : LargoAdmite /\ Fase(p, {"NEW"}, "READY")
           \/ \E p \in Pids : CortoPop /\ Fase(p, {"READY"}, "EXEC")
           \/ \E p \in Pids : Fase(p, {"EXEC"}, "BLOCKED")
           \/ \E p \in Pids : Fase(p, {"EXEC", "BLOCKED"}, "READY")
           \/ \E p \in Pids : Termina /\ Fase(p, {"READY", "EXEC", "BLOCKED"}, "EXIT")
           \/ \A p \in Pids : EstadoDe(p)' = EstadoDe(p)
<1> DEFINE Nace(p) == EnviarNew /\ Fase(p, {"NONE"}, "NEW")
           Entra(p) == LargoAdmite /\ Fase(p, {"NEW"}, "READY")
           Corre(p) == CortoPop /\ Fase(p, {"READY"}, "EXEC")
           Cede(p) == Fase(p, {"EXEC"}, "BLOCKED") \/ Fase(p, {"EXEC", "BLOCKED"}, "READY")
           Sale(p) == Termina /\ Fase(p, {"READY", "EXEC", "BLOCKED"}, "EXIT")
           Sigue(p) == Nace(p) \/ Entra(p) \/ Corre(p) \/ Cede(p) \/ Sale(p)
           Queda == \A p \in Pids : EstadoDe(p)' = EstadoDe(p)
<1>0. Ubicacion
  BY DEF LugarInv
<1>2. CASE EnviarNew
  <2>1. PICK p : p = next_pid
    OBVIOUS
  <2>2. Traslado(p, {"nada"}, {"new"})
    BY <1>2, <2>1, MueveEnviarNew
  <2>3. p \notin Creados /\ \A q \in Pids \ {p} : q \in Creados' <=> q \in Creados
    BY <1>2, <2>1, <2>2, CotasAssumption
    DEF EnviarNew, TipoInv, ConsInv, ConsOK, Pids, Creados
  <2>4. EstadoDe(p) = "NONE" /\ EstadoDe(p)' = "NEW"
        /\ \A q \in Pids \ {p} : EstadoDe(q)' = EstadoDe(q)
    <3>1. EstadoDe(p) = "NONE"
      BY <2>3 DEF EstadoDe
    <3> QED
      BY <1>0, <2>2, <2>3, <3>1, TrasladoFase DEF EnFase
  <2> QED
    BY <1>2, <2>2, <2>4 DEF Traslado, Fase
<1>3. CASE next_pid' = next_pid
  <2> HIDE DEF Fase, Queda
  <2>1. CASE CortoPop
    <3>1. PICK p : p = pcb'
      OBVIOUS
    <3>2. Traslado(p, {"ready", "prioridad"}, {"exec"})
      BY <2>1, <3>1, MueveCortoPop
    <3> QED
      BY <1>0, <1>3, <2>1, <3>2, TrasladoDeCreado DEF EnFase, Fase
  <2>2. CASE EncolaIo
    <3>1. PICK p : p = pcb
      OBVIOUS
    <3>2. Traslado(p, {"exec"}, {"io"})
      BY <2>2, <3>1, MueveEncolaIo
    <3> QED
      BY <1>0, <1>3, <2>2, <3>2, TrasladoDeCreado DEF EnFase, Fase
  <2>3. CASE AtiendeWait
    <3>1. PICK p : p = pcb
      OBVIOUS
    <3>2. NoMueve \/ Traslado(p, {"exec"}, {"recurso"})
      BY <2>3, <3>1, MueveAtiendeWait
    <3>3. CASE NoMueve
      BY <3>3, NoMueveFase DEF Queda
    <3>4. CASE Traslado(p, {"exec"}, {"recurso"})
      BY <1>0, <1>3, <3>4, TrasladoDeCreado DEF EnFase, Fase
    <3> QED
      BY <3>2, <3>3, <3>4
  <2>4. CASE AtiendeSignal
    <3>1. PICK p : p = a_ready'
      OBVIOUS
    <3>2. NoMueve \/ Traslado(p, {"recurso"}, {"despierta_corto"})
      BY <2>4, <3>1, MueveAtiendeSignal
    <3>3. CASE NoMueve
      BY <3>3, NoMueveFase DEF Queda
    <3>4. CASE Traslado(p, {"recurso"}, {"despierta_corto"})
      BY <1>0, <1>3, <3>4, TrasladoDeCreado DEF EnFase, Fase, Queda
    <3> QED
      BY <3>2, <3>3, <3>4
  <2>5. CASE CortoDespierta
    <3>1. PICK p : p = a_ready
      OBVIOUS
    <3>2. Traslado(p, {"despierta_corto"}, {"ready", "prioridad"})
      BY <2>5, <3>1, MueveCortoDespierta
    <3> QED
      BY <1>0, <1>3, <2>5, <3>2, TrasladoDeCreado DEF EnFase, Fase
  <2>6. CASE RuteaReady
    <3>1. PICK p : p = pcb
      OBVIOUS
    <3>2. Traslado(p, {"exec"}, {"ready", "prioridad"})
      BY <2>6, <3>1, MueveRuteaReady
    <3> QED
      BY <1>0, <1>3, <2>6, <3>2, TrasladoDeCreado DEF EnFase, Fase
  <2>7. ASSUME NEW t \in Pids, FinLibera(t) PROVE (\E p \in Pids : Sigue(p)) \/ Queda
    <3>1. PICK p : p = despierta'[t]
      OBVIOUS
    <3>2. NoMueve \/ Traslado(p, {"recurso"}, {"despierta"})
      BY <2>7, <3>1, MueveFinLibera
    <3>3. CASE NoMueve
      BY <3>3, NoMueveFase DEF Queda
    <3>4. CASE Traslado(p, {"recurso"}, {"despierta"})
      BY <1>0, <1>3, <3>4, TrasladoDeCreado DEF EnFase, Fase, Queda
    <3> QED
      BY <3>2, <3>3, <3>4
  <2>8. ASSUME NEW t \in Pids, FinDespierta(t) PROVE (\E p \in Pids : Sigue(p)) \/ Queda
    <3>1. PICK p : p = despierta[t]
      OBVIOUS
    <3>2. Traslado(p, {"despierta"}, {"ready", "prioridad"})
      BY <2>8, <3>1, MueveFinDespierta
    <3> QED
      BY <1>0, <1>3, <2>8, <3>2, TrasladoDeCreado DEF EnFase, Fase
  <2>9. ASSUME NEW i \in Interfaces, IoPop(i) PROVE (\E p \in Pids : Sigue(p)) \/ Queda
    <3>1. PICK p : p = io_pcb'[i]
      OBVIOUS
    <3>2. Traslado(p, {"io"}, {"interfaz"})
      BY <2>9, <3>1, MueveIoPop
    <3> QED
      BY <1>0, <1>3, <2>9, <3>2, TrasladoDeCreado DEF EnFase, Fase, Queda
  <2>10. ASSUME NEW i \in Interfaces, IoExito(i) PROVE (\E p \in Pids : Sigue(p)) \/ Queda
    <3>1. PICK p : p = io_pcb[i]
      OBVIOUS
    <3>2. Traslado(p, {"interfaz"}, {"ready", "prioridad"})
      BY <2>10, <3>1, MueveIoExito
    <3> QED
      BY <1>0, <1>3, <2>10, <3>2, TrasladoDeCreado DEF EnFase, Fase
  <2>11. ASSUME NEW i \in Interfaces, ConsolaQuitaIo(i) PROVE (\E p \in Pids : Sigue(p)) \/ Queda
    <3>1. PICK p : p = pid_fin
      OBVIOUS
    <3>2. Traslado(p, {"io"}, {"consola"})
      BY <2>11, <3>1, MueveConsolaQuitaIo
    <3> QED
      BY <1>0, <1>3, <2>11, <3>2, TrasladoDeCreado DEF EnFase, Fase, Queda
  <2>12. LargoAdmite => \E p \in Pids : Entra(p)
    BY FaseAdmite DEF Fase
  <2>13. Termina => \E p \in Pids : Sale(p)
    BY FaseTermina DEF Fase
  <2>14. ASSUME NEW i \in Interfaces, IoDesconecta(i) PROVE Queda
    <3>1. ASSUME NEW q \in Pids PROVE EstadoDe(q)' = EstadoDe(q)
      <4>1. PICK k, x : Ubicado(q, k, x)
        BY <1>0 DEF Ubicacion
      <4>2. CASE k = "io" /\ x = i
        <5>1. Ubicado(q, "perdido", x)'
          BY <2>14, <4>1, <4>2, MueveIoDesconecta
        <5> QED
          BY <4>1, <4>2, <5>1, EstadoUbicado DEF EnFase
      <4>3. CASE ~(k = "io" /\ x = i)
        <5>1. Ubicado(q, k, x)'
          BY <2>14, <4>1, <4>3, MueveIoDesconecta
        <5>2. EnFase(k, EstadoDe(q)) /\ EnFase(k, EstadoDe(q)')
          BY <4>1, <5>1, EstadoUbicado
        <5>3. CASE k = "nada"
          <6>1. q \in Creados' <=> q \in Creados
            BY <1>3 DEF Creados
          <6>2. q \in Creados => fin[q] # "no" /\ fin'[q] # "no"
            BY <4>1, <5>1, <5>3, <6>1 DEF Ubicado
          <6> QED
            BY <6>1, <6>2 DEF EstadoDe
        <5> QED
          BY <4>1, <5>2, <5>3 DEF EnFase, Ubicado
      <4> QED
        BY <4>2, <4>3
    <3> QED
      BY <3>1 DEF Queda
  <2>15. CASE NoMueve
    BY <2>15, NoMueveFase DEF Queda
  <2> QED
    BY <1>2, <2>1, <2>2, <2>3, <2>4, <2>5, <2>6, <2>7, <2>8, <2>9,
       <2>10, <2>11, <2>12, <2>13, <2>14, <2>15, QuienMueve DEF Queda, Termina
<1> QED
  BY <1>2, <1>3, CreadosPaso

-----------------------------------------------------------------------------
(* The degree of multiprogramming.                                         *)

\* Slots in use, as the semaphore and the degree tell.
EnUso == (multiprogramacion + esperas) - cont_multi - Uno(largo # "multi")

\* Who takes a slot and who gives one back.
LEMMA MultiPaso ==
    ASSUME TipoInv, [Next]_vars
    PROVE  /\ LargoAdmite => EnUso' = EnUso + 1
           /\ Termina => EnUso' = EnUso - 1
           /\ ~LargoAdmite /\ ~Termina => EnUso' = EnUso
           /\ \/ multiprogramacion' + esperas' = multiprogramacion + esperas
              \/ NoMueve
<1> USE DEF EnUso, Uno
<1>0. /\ cont_multi \in Nat /\ multiprogramacion \in Nat /\ esperas \in Nat
      /\ cont_multi' \in Nat /\ multiprogramacion' \in Nat /\ esperas' \in Nat
  BY TipoPaso DEF TipoInv, MultiOK
<1> DEFINE Igual == UNCHANGED multiVars /\ (largo' = "multi" <=> largo = "multi")
<1>1. LargoAdmite => /\ UNCHANGED multiVars /\ largo = "pop" /\ largo' = "multi"
  BY DEF LargoAdmite
<1>2. ASSUME Termina
      PROVE  /\ cont_multi' = cont_multi + 1 /\ largo' = largo
             /\ UNCHANGED <<multiprogramacion, esperas>>
  BY <1>2 DEF Termina, RuteaFinal, ConsolaQuitaReady, ConsolaEsperaIo, IoFalla,
     ConsolaQuitaEspera, FinalizarProceso, fueraCorto, fueraConsola, fueraHilos
<1>3. LargoMulti => /\ cont_multi' = cont_multi - 1 /\ largo = "multi" /\ largo' = "hay_new"
                    /\ UNCHANGED <<multiprogramacion, esperas>>
  BY DEF LargoMulti
<1>4. ASSUME MultiChangeWaits \/ \E n \in Grados : CambiarMultiprogramacion(n)
      PROVE  /\ NoMueve /\ largo' = largo
             /\ (multiprogramacion' + esperas') - cont_multi' = (multiprogramacion + esperas) - cont_multi
  <2>1. largo' = largo /\ NoMueve
    BY <1>4 DEF MultiChangeWaits, CambiarMultiprogramacion, NoMueve, lugarVars, fueraHilos,
       fueraCorto, colaVars, recVars, ioVars, finVars, cortoVars, cortoRegs, consVars, consRegs
  <2>2. CASE MultiChangeWaits
    BY <1>0, <2>1, <2>2 DEF MultiChangeWaits
  <2>3. ASSUME NEW n \in Grados, CambiarMultiprogramacion(n)
        PROVE  (multiprogramacion' + esperas') - cont_multi' = (multiprogramacion + esperas) - cont_multi
    <3>1. n \in Nat
      BY CotasAssumption
    <3>2. CASE n > multiprogramacion
      <4>1. /\ multiprogramacion' = n /\ esperas' = esperas
            /\ cont_multi' = cont_multi + (n - multiprogramacion)
        BY <2>3, <3>2 DEF CambiarMultiprogramacion
      <4> QED
        BY <1>0, <3>1, <4>1
    <3>3. CASE ~(n > multiprogramacion)
      <4>1. /\ multiprogramacion' = n /\ cont_multi' = cont_multi
            /\ esperas' = esperas + (multiprogramacion - n)
        BY <2>3, <3>3 DEF CambiarMultiprogramacion
      <4> QED
        BY <1>0, <3>1, <4>1
    <3> QED
      BY <3>2, <3>3
  <2> QED
    BY <1>4, <2>1, <2>2, <2>3
<1>5. UNCHANGED vars \/ LargoHayNew \/ LargoCheck \/ CpuResponde => Igual
  BY DEF vars, datos, LargoHayNew, LargoCheck, CpuResponde, ajenoStatus, fueraCorto
<1>6. Corto /\ ~RuteaFinal => Igual
  BY DEF Corto, CortoEspera, CortoCheck, CortoPop, CortoPopVacia, CortoDespacho, CortoCheckExec,
     AtiendeDesconocido, AtiendeIo, EncolaIo, EncolaIoDestruida, AtiendeWait, CortoBloquea,
     AtiendeSignal, CortoDespierta, CortoCuenta, RuteaDobleFin, RuteaReady, RuteaAjeno,
     CortoVuelta, Cae, datos, ajenoStatus, fueraCorto
<1>7. ASSUME NEW p \in Pids, Fin(p) PROVE Igual
  BY <1>7 DEF Fin, FinCheck, FinLibera, FinDespierta, FinLibre, fueraHilos, fueraCorto
<1>8. ASSUME NEW i \in Interfaces, Io(i), ~Termina PROVE Igual
  BY <1>8 DEF Termina, Io, IoTrabaja, IoRegistra, IoResponde, IoEspera, IoCheck, IoPop,
     IoPopVacia, IoExito, IoDesconecta, Cae, datos, fueraHilos, fueraCorto
<1>9. ConsolaSigue /\ ~Termina => Igual
  BY DEF Termina, ConsolaSigue, ConsolaInterrumpe, ConsolaEsperaReady, ConsolaNoEnReady,
     ConsolaMiraIos, ConsolaNoExiste, ConsolaNoEspera, ConsolaQuitaIo, ConsolaNoIo,
     ConsolaIoDestruida, Cae, datos, fueraConsola
<1>10. \/ EnviarNew \/ DetenerPlanificacion \/ IniciarPlanificacion
       \/ \E p \in Pids : FinalizarPid(p)
       => Igual
  BY DEF EnviarNew, DetenerPlanificacion, IniciarPlanificacion, FinalizarPid, datos, fueraConsola
<1>11. \/ LargoAdmite \/ Termina \/ LargoMulti \/ MultiChangeWaits
       \/ (\E n \in Grados : CambiarMultiprogramacion(n)) \/ Igual
  BY <1>5, <1>6, <1>7, <1>8, <1>9, <1>10 DEF Next, Largo, Comando, Termina
<1>12. Igual => EnUso' = EnUso /\ multiprogramacion' + esperas' = multiprogramacion + esperas
  BY DEF multiVars
<1>13. LargoAdmite => EnUso' = EnUso + 1 /\ multiprogramacion' + esperas' = multiprogramacion + esperas
  BY <1>0, <1>1 DEF multiVars
<1>14. Termina => EnUso' = EnUso - 1 /\ multiprogramacion' + esperas' = multiprogramacion + esperas
  BY <1>0, <1>2
<1>15. LargoMulti => EnUso' = EnUso /\ multiprogramacion' + esperas' = multiprogramacion + esperas
  BY <1>0, <1>3
<1>16. ASSUME MultiChangeWaits \/ \E n \in Grados : CambiarMultiprogramacion(n)
       PROVE  EnUso' = EnUso /\ NoMueve
  <2>1. /\ NoMueve /\ largo' = largo
        /\ (multiprogramacion' + esperas') - cont_multi' = (multiprogramacion + esperas) - cont_multi
    BY <1>4, <1>16
  <2> DEFINE antes == (multiprogramacion + esperas) - cont_multi
             retenido == Uno(largo # "multi")
  <2>2. antes' = antes /\ retenido' = retenido
    BY <2>1
  <2> HIDE DEF Uno
  <2>3. EnUso = antes - retenido
    OBVIOUS
  <2>4. EnUso' = antes' - retenido'
    OBVIOUS
  <2> HIDE DEF antes, retenido, EnUso
  <2> QED
    BY <2>1, <2>2, <2>3, <2>4
<1> HIDE DEF EnUso, Igual
\* An admission and an end are different steps.
<1>17. ~(LargoAdmite /\ Termina)
  BY <1>1, <1>2
<1> QED
  BY <1>11, <1>12, <1>13, <1>14, <1>15, <1>16, <1>17

\* The processes in memory, by their state.
Memoria == {p \in Pids : EstadoDe(p) \in {"READY", "EXEC", "BLOCKED"}}

\* The processes admitted in the life cycle are those in memory.
LEMMA AdmitidosMemoria ==
    ASSUME TipoInv, TipoInv'
    PROVE  Admitidos = Memoria /\ Admitidos' = Memoria'
<1>1. Creados \subseteq Pids /\ Creados' \subseteq Pids
  <2>1. next_pid \in 0 .. MaxPid /\ next_pid' \in 0 .. MaxPid /\ MaxPid \in Nat
    BY CotasAssumption DEF TipoInv, ConsInv, ConsOK
  <2>2. ASSUME NEW n \in 0 .. MaxPid, NEW p \in 0 .. n - 1 PROVE p \in 0 .. MaxPid - 1
    BY <2>1
  <2> QED
    BY <2>1, <2>2 DEF Creados, Pids
<1>2. Admitidos = Memoria
  BY <1>1 DEF Admitidos, Memoria, EstadoDe
<1>3. Admitidos' = Memoria'
  BY <1>1 DEF Admitidos, Memoria, EstadoDe
<1> QED
  BY <1>2, <1>3

\* Every step keeps cont_multi exact.
LEMMA GradoPaso ==
    ASSUME TipoInv, LugarInv, GradoMultiprogramacion, [Next]_vars
    PROVE  GradoMultiprogramacion'
<1>0. /\ TipoInv' /\ IsFiniteSet(Pids)
      /\ IsFiniteSet(Memoria) /\ Cardinality(Memoria) \in Nat
  <2>1. IsFiniteSet(Pids)
    BY FS_Interval, CotasAssumption DEF Pids
  <2>2. IsFiniteSet(Memoria)
    BY <2>1, FS_Subset DEF Memoria
  <2> QED
    BY <2>1, <2>2, FS_CardinalityType, TipoPaso
<1>1. Admitidos = Memoria /\ Admitidos' = Memoria'
  BY <1>0, AdmitidosMemoria
<1>2. Cardinality(Memoria) = EnUso
  BY <1>0, <1>1 DEF GradoMultiprogramacion, EnUso, TipoInv, MultiOK, Uno
<1>3. Cardinality(Memoria') = EnUso'
  <2>1. CASE LargoAdmite
    <3>1. PICK p \in Pids : Fase(p, {"NEW"}, "READY")
      BY <2>1, FaseAdmite
    <3>2. p \notin Memoria /\ Memoria' = Memoria \cup {p}
      BY <3>1 DEF Fase, Memoria
    <3>3. Cardinality(Memoria \cup {p}) = Cardinality(Memoria) + 1
      BY <1>0, <3>2, FS_AddElement
    <3> QED
      BY <1>2, <2>1, <3>2, <3>3, MultiPaso
  <2>2. CASE Termina
    <3>1. PICK p \in Pids : Fase(p, {"READY", "EXEC", "BLOCKED"}, "EXIT")
      BY <2>2, FaseTermina
    <3>2. p \in Memoria /\ Memoria' = Memoria \ {p}
      BY <3>1 DEF Fase, Memoria
    <3>3. Cardinality(Memoria \ {p}) = Cardinality(Memoria) - 1
      BY <1>0, <3>2, FS_RemoveElement
    <3> QED
      BY <1>2, <2>2, <3>2, <3>3, MultiPaso
  <2>3. CASE ~LargoAdmite /\ ~Termina
    <3>1. Memoria' = Memoria
      BY <2>3, FasePaso DEF Fase, Memoria
    <3> QED
      BY <1>2, <2>3, <3>1, MultiPaso
  <2> QED
    BY <2>1, <2>2, <2>3
<1> QED
  BY <1>0, <1>1, <1>3 DEF GradoMultiprogramacion, EnUso, TipoInv, MultiOK, Uno

\* GradoMultiprogramacion: cont_multi is exact, for any number of processes
\* and any sequence of admissions, endings, kills and changes of degree
\* (largo_plazo.c, exit_proceso.c, consola.c).
THEOREM GradoSiempreExacto == Spec => []GradoMultiprogramacion
<1>1. Init => GradoMultiprogramacion
  <2> SUFFICES ASSUME Init PROVE GradoMultiprogramacion
    OBVIOUS
  <2>1. Admitidos = {}
    BY DEF Init, Admitidos, Creados
  <2>2. Cardinality({}) = 0
    BY FS_EmptySet
  <2> QED
    BY <2>1, <2>2, CotasAssumption DEF Init, GradoMultiprogramacion, Uno
<1>2. TipoInv /\ LugarInv /\ GradoMultiprogramacion /\ [Next]_vars => GradoMultiprogramacion'
  BY GradoPaso
<1> QED
  BY <1>1, <1>2, LugarSiempre, PTL DEF Spec

-----------------------------------------------------------------------------
(* The refinement of CicloDeVida: FasePaso gives the transition of every    *)
(* step, MultiPaso and GradoMultiprogramacion its guard on the slots.       *)

\* The abstract variables under the refinement mapping.
estadoCiclo == [p \in Pids |-> EstadoDe(p)]
cupoCiclo == multiprogramacion + esperas

\* The kernel starts where the life cycle does.
LEMMA CicloDesdeInit == Init => Ciclo!CicloInit
<1> SUFFICES ASSUME Init PROVE Ciclo!CicloInit
  OBVIOUS
<1>1. \A p \in Pids : EstadoDe(p) = "NONE"
  BY DEF Init, EstadoDe, Creados, Pids
<1>2. multiprogramacion + esperas \in Nat
  BY CotasAssumption DEF Init
<1> QED
  BY <1>1, <1>2 DEF Ciclo!CicloInit

\* The instance's copy of Cardinality is the same operator.
LEMMA CardinalCiclo == ASSUME NEW S PROVE Ciclo!Cardinality(S) = Cardinality(S)
BY DEF Ciclo!Cardinality, Cardinality

\* A change of the state of one process is the transition of CicloDeVida.
LEMMA FaseEsPasa ==
    ASSUME NEW p \in Pids, NEW desde, NEW hacia, Fase(p, desde, hacia), cupoCiclo' = cupoCiclo
    PROVE  Ciclo!Pasa(p, desde, hacia)
<1>1. estadoCiclo' = [estadoCiclo EXCEPT ![p] = hacia]
  BY DEF Fase, estadoCiclo
<1>2. estadoCiclo[p] \in desde
  BY DEF Fase, estadoCiclo
<1> QED
  BY <1>1, <1>2 DEF Ciclo!Pasa, estadoCiclo, cupoCiclo

\* The processes in memory fit in the slots, and one more does where
\* largo_main holds a slot.
LEMMA CabeEnCupo ==
    ASSUME TipoInv, GradoMultiprogramacion, Admitidos = Memoria
    PROVE  /\ Ciclo!EnMemoria = Memoria /\ Cardinality(Memoria) \in Nat
           /\ Cardinality(Memoria) <= cupoCiclo
           /\ largo # "multi" => Cardinality(Memoria) < cupoCiclo
<1>1. Ciclo!EnMemoria = Memoria
  BY DEF Ciclo!EnMemoria, Memoria
<1>2. IsFiniteSet(Memoria) /\ Cardinality(Memoria) \in Nat
  <2>1. IsFiniteSet(Pids)
    BY FS_Interval, CotasAssumption DEF Pids
  <2> QED
    BY <2>1, FS_Subset, FS_CardinalityType DEF Memoria
<1> QED
  BY <1>1, <1>2 DEF GradoMultiprogramacion, TipoInv, MultiOK, Uno, cupoCiclo

\* Every step of the kernel is one of the life cycle, or a stutter.
LEMMA CicloPaso ==
    ASSUME TipoInv, LugarInv, GradoMultiprogramacion, [Next]_vars
    PROVE  [Ciclo!CicloNext]_<<estadoCiclo, cupoCiclo>>
<1> DEFINE Igual == \A p \in Pids : EstadoDe(p)' = EstadoDe(p)
<1>0. TipoInv' /\ GradoMultiprogramacion'
  BY TipoPaso, GradoPaso
<1>1. Admitidos = Memoria /\ Admitidos' = Memoria'
  BY <1>0, AdmitidosMemoria
<1>2. Igual => estadoCiclo' = estadoCiclo /\ Memoria' = Memoria
  BY DEF estadoCiclo, Memoria
<1>3. cupoCiclo' = cupoCiclo \/ NoMueve
  BY MultiPaso DEF cupoCiclo
<1>4. CASE cupoCiclo' # cupoCiclo
  <2>1. Igual
    BY <1>3, <1>4, NoMueveFase
  <2>2. cupoCiclo' \in Nat /\ Cardinality(Memoria') <= cupoCiclo'
    <3>1. Cardinality(Memoria') \in Nat
      BY <1>1, <1>2, <2>1, CabeEnCupo
    <3>2. cont_multi' + Cardinality(Memoria') + Uno(largo # "multi")' = cupoCiclo'
      BY <1>0, <1>1 DEF GradoMultiprogramacion, cupoCiclo
    <3>3. cont_multi' \in Nat /\ cupoCiclo' \in Nat
      <4>1. cont_multi' \in Nat /\ multiprogramacion' \in Nat /\ esperas' \in Nat
        BY <1>0 DEF TipoInv, MultiOK
      <4>2. \A a, b \in Nat : a + b \in Nat
        OBVIOUS
      <4>3. cupoCiclo' = multiprogramacion' + esperas'
        BY DEF cupoCiclo
      <4> QED
        BY <4>1, <4>2, <4>3
    <3>4. Uno(largo # "multi")' \in Nat
      BY DEF Uno
    <3>5. \A a, b, c, d \in Nat : a + b + c = d => b <= d
      OBVIOUS
    <3> QED
      BY <3>1, <3>2, <3>3, <3>4, <3>5
  <2>3. Ciclo!CambiaCupo
    BY <1>1, <1>2, <2>1, <2>2, CabeEnCupo, CardinalCiclo DEF Ciclo!CambiaCupo, estadoCiclo, cupoCiclo
  <2> QED
    BY <2>3 DEF Ciclo!CicloNext
<1>5. CASE cupoCiclo' = cupoCiclo
  <2>1. ASSUME NEW p \in Pids, EnviarNew, Fase(p, {"NONE"}, "NEW")
        PROVE  Ciclo!CicloNext
    BY <1>5, <2>1, FaseEsPasa DEF Ciclo!CicloNext, Ciclo!Crea
  \* largo_main holds a slot when it admits.
  <2>2. ASSUME NEW p \in Pids, LargoAdmite, Fase(p, {"NEW"}, "READY")
        PROVE  Ciclo!CicloNext
    <3>1. Ciclo!Cardinality(Ciclo!EnMemoria) < cupoCiclo
      BY <1>1, <2>2, CabeEnCupo, CardinalCiclo DEF LargoAdmite
    <3> QED
      BY <1>5, <2>2, <3>1, FaseEsPasa DEF Ciclo!CicloNext, Ciclo!Admite, cupoCiclo
  \* Nothing runs when corto_main pops.
  <2>3. ASSUME NEW p \in Pids, CortoPop, Fase(p, {"READY"}, "EXEC")
        PROVE  Ciclo!CicloNext
    <3>1. en_exec = Nadie
      BY <2>3 DEF CortoPop, LugarInv, Manos
    <3>2. \A q \in Pids : EstadoDe(q) # "EXEC"
      BY <3>1, NadieNoEsPid DEF EstadoDe
    <3>3. \A q \in Pids : estadoCiclo[q] # "EXEC"
      BY <3>2 DEF estadoCiclo
    <3> QED
      BY <1>5, <2>3, <3>3, FaseEsPasa DEF Ciclo!CicloNext, Ciclo!Despacha, estadoCiclo
  <2>4. ASSUME NEW p \in Pids, Fase(p, {"EXEC"}, "BLOCKED")
        PROVE  Ciclo!CicloNext
    BY <1>5, <2>4, FaseEsPasa DEF Ciclo!CicloNext, Ciclo!Bloquea
  <2>5. ASSUME NEW p \in Pids, Fase(p, {"EXEC", "BLOCKED"}, "READY")
        PROVE  Ciclo!CicloNext
    <3>1. Fase(p, {"EXEC"}, "READY") \/ Fase(p, {"BLOCKED"}, "READY")
      BY <2>5 DEF Fase
    <3> QED
      BY <1>5, <3>1, FaseEsPasa DEF Ciclo!CicloNext, Ciclo!Desaloja, Ciclo!Despierta
  <2>6. ASSUME NEW p \in Pids, Fase(p, {"READY", "EXEC", "BLOCKED"}, "EXIT")
        PROVE  Ciclo!CicloNext
    BY <1>5, <2>6, FaseEsPasa DEF Ciclo!CicloNext, Ciclo!Termina
  <2>7. CASE Igual
    BY <1>2, <1>5, <2>7
  <2> HIDE DEF Igual
  <2>8. \/ \E p \in Pids : EnviarNew /\ Fase(p, {"NONE"}, "NEW")
        \/ \E p \in Pids : LargoAdmite /\ Fase(p, {"NEW"}, "READY")
        \/ \E p \in Pids : CortoPop /\ Fase(p, {"READY"}, "EXEC")
        \/ \E p \in Pids : Fase(p, {"EXEC"}, "BLOCKED")
        \/ \E p \in Pids : Fase(p, {"EXEC", "BLOCKED"}, "READY")
        \/ \E p \in Pids : Fase(p, {"READY", "EXEC", "BLOCKED"}, "EXIT")
        \/ Igual
    BY FasePaso DEF Igual
  <2> QED
    BY <2>1, <2>2, <2>3, <2>4, <2>5, <2>6, <2>7, <2>8
<1> QED
  BY <1>4, <1>5

\* CumpleCiclo: the kernel's threads, with all their interleavings, crashes
\* and kills, implement the life cycle of CicloDeVida: at most one process is
\* in EXEC, none skips a state or comes back from EXIT, and none is admitted
\* without a slot (largo_plazo.c, corto_plazo.c, exit_proceso.c, io.c and
\* consola.c).
THEOREM KernelImplementaCiclo == Spec => CumpleCiclo
<1>1. Init => Ciclo!CicloInit
  BY CicloDesdeInit
<1>2. TipoInv /\ LugarInv /\ GradoMultiprogramacion /\ [Next]_vars
        => [Ciclo!CicloNext]_<<estadoCiclo, cupoCiclo>>
  BY CicloPaso
<1>3. [Ciclo!CicloNext]_<<estadoCiclo, cupoCiclo>>
        <=> [Ciclo!CicloNext]_<<[p \in Pids |-> EstadoDe(p)], multiprogramacion + esperas>>
  BY DEF estadoCiclo, cupoCiclo
<1> QED
  BY <1>1, <1>2, <1>3, LugarSiempre, GradoSiempreExacto, PTL
     DEF Spec, CumpleCiclo, Ciclo!CicloSpec

-----------------------------------------------------------------------------
(* Mutual exclusion of the resources: that a process is in one place is    *)
(* what makes a release give the unit to somebody else.                    *)

Naturales == [Pids -> Nat]

\* One more unit, and one less.
LEMMA UnidadMas ==
    ASSUME NEW u \in Naturales, NEW v \in Naturales, NEW p \in Pids,
           v[p] = u[p] + 1, \A q \in Pids \ {p} : v[q] = u[q],
           IsFiniteSet(Unidades(u))
    PROVE  /\ IsFiniteSet(Unidades(v))
           /\ Cardinality(Unidades(v)) = Cardinality(Unidades(u)) + 1
<1>1. /\ \A q \in Pids : u[q] \in Nat /\ v[q] \in Nat
      /\ \A n \in Nat : 1 .. n + 1 = (1 .. n) \cup {n + 1} /\ n + 1 \notin 1 .. n
  BY DEF Naturales
<1> DEFINE nueva == <<p, u[p] + 1>>
<1>2. \A e : e \in Unidades(u) <=> \E q \in Pids : \E k \in 1 .. u[q] : e = <<q, k>>
  BY DEF Unidades
<1>3. \A e : e \in Unidades(v) <=> \E q \in Pids : \E k \in 1 .. v[q] : e = <<q, k>>
  BY DEF Unidades
<1>4. nueva \notin Unidades(u)
  BY <1>1, <1>2
<1>5. Unidades(v) = Unidades(u) \cup {nueva}
  <2>1. ASSUME NEW e \in Unidades(v) PROVE e \in Unidades(u) \cup {nueva}
    <3>0. PICK q \in Pids : \E k \in 1 .. v[q] : e = <<q, k>>
      BY <1>3, <2>1
    <3>1. PICK k \in 1 .. v[q] : e = <<q, k>>
      BY <3>0
    <3>2. CASE q = p
      BY <1>1, <1>2, <3>1, <3>2
    <3>3. CASE q # p
      BY <1>2, <3>1, <3>3
    <3> QED
      BY <3>2, <3>3
  <2>2. ASSUME NEW e \in Unidades(u) PROVE e \in Unidades(v)
    <3>0. PICK q \in Pids : \E k \in 1 .. u[q] : e = <<q, k>>
      BY <1>2, <2>2
    <3>1. PICK k \in 1 .. u[q] : e = <<q, k>>
      BY <3>0
    <3>2. k \in 1 .. v[q]
      BY <1>1, <3>1
    <3> QED
      BY <1>3, <3>1, <3>2
  <2>3. nueva \in Unidades(v)
    <3>1. u[p] + 1 \in 1 .. v[p]
      BY <1>1
    <3> QED
      BY <1>3, <3>1
  <2> QED
    BY <2>1, <2>2, <2>3
<1> QED
  BY <1>4, <1>5, FS_AddElement, SMTT(60)

\* One unit less of one process is one unit less in all.
LEMMA UnidadMenos ==
    ASSUME NEW u \in Naturales, NEW v \in Naturales, NEW p \in Pids,
           u[p] = v[p] + 1, \A q \in Pids \ {p} : v[q] = u[q],
           IsFiniteSet(Unidades(u))
    PROVE  /\ IsFiniteSet(Unidades(v))
           /\ Cardinality(Unidades(v)) = Cardinality(Unidades(u)) - 1
<1>1. IsFiniteSet(Unidades(v))
  <2>1. Unidades(v) \subseteq Unidades(u)
    <3>1. \A q \in Pids : u[q] \in Nat /\ v[q] \in Nat /\ v[q] <= u[q]
      BY DEF Naturales
    <3>2. \A q \in Pids : 1 .. v[q] \subseteq 1 .. u[q]
      BY <3>1
    <3> QED
      BY <3>2 DEF Unidades
  <2> QED
    BY <2>1, FS_Subset
<1>2. Cardinality(Unidades(u)) = Cardinality(Unidades(v)) + 1
  BY <1>1, UnidadMas
<1>3. Cardinality(Unidades(v)) \in Nat
  BY <1>1, FS_CardinalityType
<1> QED
  BY <1>1, <1>2, <1>3

\* Where a resource stands: its counter, the units in use and its queue.
Cuadra(r) ==
    /\ IsFiniteSet(Unidades(Tenedores(r)))
    /\ cant_instancias[r] + (Cardinality(Unidades(Tenedores(r))) + Len(queue_waiting[r]))
         = Instancias[r] + extra[r]

\* A unit given back by p: to the first waiter, who is not p, or to the rest.
LEMMA LiberaUnidad ==
    ASSUME RecOK, NEW p \in Pids, NEW r \in Recursos, Cuadra(r),
           LiberaInstancia(p, r), Despertado(r) # p
    PROVE  Cuadra(r)'
<1> DEFINE u == Tenedores(r)
           v == [u EXCEPT ![p] = IF @ > 0 THEN @ - 1 ELSE @]
           w == Despertado(r)
           uso == Cardinality(Unidades(u))
           usoV == Cardinality(Unidades(v))
           usoN == Cardinality(Unidades(Tenedores(r)'))
<1>1. /\ u \in Naturales /\ v \in Naturales /\ Tenedores(r)' \in Naturales
      /\ \A q \in Pids : tiene[q][r] \in Nat /\ u[q] = tiene[q][r]
      /\ queue_waiting[r] \in Seq(Pids) /\ cant_instancias[r] \in Int
      /\ extra[r] \in Nat /\ Instancias[r] \in Nat
  <2>1. /\ \A q \in Pids : tiene[q] \in [Recursos -> Nat]
        /\ queue_waiting[r] \in Seq(Pids) /\ cant_instancias[r] \in Int
        /\ extra[r] \in Nat /\ Instancias[r] \in Nat
    BY NombresAssumption DEF RecOK
  <2>2. u \in Naturales /\ \A q \in Pids : u[q] = tiene[q][r] /\ tiene[q][r] \in Nat
    BY <2>1 DEF Tenedores, Naturales
  <2>3. v \in Naturales
    BY <2>2 DEF Naturales
  <2>4. Tenedores(r)' \in Naturales
    BY <2>1, <2>2, SMTT(60) DEF LiberaInstancia, Tenedores, Naturales
  <2> QED
    BY <2>1, <2>2, <2>3, <2>4
<1>2. /\ cant_instancias'[r] = cant_instancias[r] + 1
      /\ extra'[r] = IF u[p] > 0 THEN extra[r] ELSE extra[r] + 1
  BY <1>1 DEF LiberaInstancia, RecOK
<1>3. IsFiniteSet(Unidades(v)) /\ usoV = uso - (IF u[p] > 0 THEN 1 ELSE 0)
  <2>1. CASE u[p] > 0
    <3>1. u[p] = v[p] + 1 /\ \A q \in Pids \ {p} : v[q] = u[q]
      BY <1>1, <2>1 DEF Naturales
    <3> HIDE DEF u, v
    <3>2. IsFiniteSet(Unidades(v)) /\ usoV = uso - 1
      BY <1>1, <3>1, UnidadMenos DEF Cuadra, u
    <3> QED
      BY <2>1, <3>2
  <2>2. CASE ~(u[p] > 0)
    <3>1. v = u
      BY <1>1, <2>2 DEF Naturales
    <3>2. IsFiniteSet(Unidades(u)) /\ uso \in Nat
      BY FS_CardinalityType DEF Cuadra
    <3> QED
      BY <2>2, <3>1, <3>2
  <2> QED
    BY <2>1, <2>2
<1>6. /\ \A q \in Pids : Tenedores(r)'[q] = IF q = w THEN u[q] + 1
                                          ELSE IF q = p /\ u[q] > 0 THEN u[q] - 1 ELSE u[q]
      /\ \A q \in Pids : v[q] = IF q = p /\ u[q] > 0 THEN u[q] - 1 ELSE u[q]
  <2>1. ASSUME NEW q \in Pids
        PROVE  tiene'[q][r] = IF q = w THEN tiene[q][r] + 1
                              ELSE IF q = p /\ tiene[q][r] > 0 THEN tiene[q][r] - 1
                              ELSE tiene[q][r]
    <3>1. DOMAIN tiene[q] = Recursos
      BY DEF RecOK
    <3>2. tiene'[q] = [tiene[q] EXCEPT ![r] = IF q = w THEN @ + 1
                                       ELSE IF q = p /\ @ > 0 THEN @ - 1 ELSE @]
      BY DEF LiberaInstancia
    <3> QED
      BY <3>1, <3>2
  <2>2. \A q \in Pids : v[q] = IF q = p /\ u[q] > 0 THEN u[q] - 1 ELSE u[q]
    BY <1>1 DEF Naturales
  <2>3. \A q \in Pids : Tenedores(r)'[q] = tiene'[q][r]
    BY DEF Tenedores
  <2> HIDE DEF u, v, w
  <2> QED
    BY <1>1, <2>1, <2>2, <2>3
<1>7. \A c \in Int, s, l, i, e \in Nat : c + (s + l) = i + e =>
        /\ (c + 1) + (s + l) = i + (e + 1)
        /\ (c + 1) + ((s - 1) + l) = i + e
        /\ (c + 1) + ((s + 1) + (l - 1)) = i + (e + 1)
        /\ (c + 1) + (((s - 1) + 1) + (l - 1)) = i + e
  OBVIOUS
<1>8. usoV = IF u[p] > 0 THEN uso - 1 ELSE uso
  <2>1. uso \in Nat
    BY FS_CardinalityType DEF Cuadra
  <2> HIDE DEF uso, usoV, u
  <2> QED
    BY <1>3, <2>1
<1>4. CASE queue_waiting[r] = <<>>
  <2>1. w = Nadie /\ Nadie \notin Pids
    BY <1>4, NadieNoEsPid DEF Despertado
  <2>2. Tenedores(r)' = v
    <3> HIDE DEF w, u
    <3>1. \A q \in Pids : Tenedores(r)'[q] = v[q]
      BY <1>6, <2>1
    <3> HIDE DEF v
    <3> QED
      BY <1>1, <3>1 DEF Naturales
  <2>3. Len(queue_waiting'[r]) = Len(queue_waiting[r]) /\ Len(queue_waiting[r]) \in Nat
    BY <1>1, <2>1, LenProperties DEF LiberaInstancia, RecOK
  <2>4. usoN = usoV /\ IsFiniteSet(Unidades(Tenedores(r)'))
    BY <1>3, <2>2
  <2>5. uso \in Nat /\ usoV \in Nat
    BY <1>3, FS_CardinalityType DEF Cuadra
  <2>6. cant_instancias[r] + (uso + Len(queue_waiting[r])) = Instancias[r] + extra[r]
    BY DEF Cuadra
  <2> HIDE DEF u, v, w, uso, usoV, usoN
  <2>7. cant_instancias'[r] + (usoN + Len(queue_waiting'[r])) = Instancias[r] + extra'[r]
    <3> DEFINE c == cant_instancias[r]
               l == Len(queue_waiting[r])
               i == Instancias[r]
               e == extra[r]
    <3>0. /\ c \in Int /\ uso \in Nat /\ l \in Nat /\ i \in Nat /\ e \in Nat
          /\ c + (uso + l) = i + e
      BY <1>1, <2>3, <2>5, <2>6
    <3>1. CASE u[p] > 0
      <4>1. /\ cant_instancias'[r] = c + 1 /\ extra'[r] = extra[r]
            /\ usoN = uso - 1 /\ Len(queue_waiting'[r]) = l
        BY <1>2, <1>8, <2>3, <2>4, <3>1
      <4> QED
        BY <1>1, <1>7, <2>3, <2>5, <2>6, <4>1
    <3>2. CASE ~(u[p] > 0)
      <4>1. /\ cant_instancias'[r] = c + 1 /\ extra'[r] = extra[r] + 1
            /\ usoN = uso /\ Len(queue_waiting'[r]) = l
        BY <1>2, <1>8, <2>3, <2>4, <3>2
      <4>2. (c + 1) + (uso + l) = i + (e + 1)
        <5> HIDE DEF c, l, i, e
        <5> QED
          BY <1>7, <3>0
      <4> HIDE DEF c, l
      <4> QED
        BY <4>1, <4>2
    <3> QED
      BY <3>1, <3>2
  <2> QED
    BY <2>4, <2>7 DEF Cuadra, usoN
<1>5. CASE queue_waiting[r] # <<>>
  <2>1. w \in Pids \ {p} /\ w # Nadie
    BY <1>1, <1>5, HeadTailProperties, NadieNoEsPid DEF Despertado
  <2>2. v[w] + 1 = Tenedores(r)'[w] /\ \A q \in Pids \ {w} : Tenedores(r)'[q] = v[q]
    <3> HIDE DEF u, v, w
    <3>1. \A q \in Pids : u[q] \in Nat /\ v[q] \in Nat
      BY <1>1 DEF Naturales
    <3> QED
      BY <1>6, <2>1, <3>1
  <2>3. /\ Len(queue_waiting'[r]) = Len(queue_waiting[r]) - 1
        /\ Len(queue_waiting[r]) \in Nat
    BY <1>1, <1>5, <2>1, HeadTailProperties, LenProperties DEF LiberaInstancia, RecOK
  <2>4. usoN = usoV + 1 /\ IsFiniteSet(Unidades(Tenedores(r)'))
    <3> HIDE DEF u, v, w
    <3> QED
      BY <1>1, <1>3, <2>1, <2>2, UnidadMas
  <2>5. uso \in Nat /\ usoV \in Nat
    BY <1>3, FS_CardinalityType DEF Cuadra
  <2>6. cant_instancias[r] + (uso + Len(queue_waiting[r])) = Instancias[r] + extra[r]
    BY DEF Cuadra
  <2> HIDE DEF u, v, w, uso, usoV, usoN
  <2>7. cant_instancias'[r] + (usoN + Len(queue_waiting'[r])) = Instancias[r] + extra'[r]
    <3> DEFINE c == cant_instancias[r]
               l == Len(queue_waiting[r])
               i == Instancias[r]
               e == extra[r]
    <3>0. /\ c \in Int /\ uso \in Nat /\ l \in Nat /\ i \in Nat /\ e \in Nat
          /\ c + (uso + l) = i + e
      BY <1>1, <2>3, <2>5, <2>6
    <3>1. CASE u[p] > 0
      <4>1. /\ cant_instancias'[r] = c + 1 /\ extra'[r] = extra[r]
            /\ usoN = (uso - 1) + 1 /\ Len(queue_waiting'[r]) = l - 1
        BY <1>2, <1>8, <2>3, <2>4, <3>1
      <4> QED
        BY <1>1, <1>7, <2>3, <2>5, <2>6, <4>1
    <3>2. CASE ~(u[p] > 0)
      <4>1. /\ cant_instancias'[r] = c + 1 /\ extra'[r] = extra[r] + 1
            /\ usoN = uso + 1 /\ Len(queue_waiting'[r]) = l - 1
        BY <1>2, <1>8, <2>3, <2>4, <3>2
      <4>2. (c + 1) + ((uso + 1) + (l - 1)) = i + (e + 1)
        <5> HIDE DEF c, l, i, e
        <5> QED
          BY <1>7, <3>0
      <4> HIDE DEF c, l
      <4> QED
        BY <4>1, <4>2
    <3> QED
      BY <3>1, <3>2
  <2> QED
    BY <2>4, <2>7 DEF Cuadra, usoN
<1> QED
  BY <1>4, <1>5

\* A resource whose variables do not change still balances.
LEMMA CuadraIgual ==
    ASSUME NEW r \in Recursos, Cuadra(r), Tenedores(r)' = Tenedores(r),
           cant_instancias'[r] = cant_instancias[r], extra'[r] = extra[r],
           queue_waiting'[r] = queue_waiting[r]
    PROVE  Cuadra(r)'
BY DEF Cuadra

\* A release that is not for r leaves r alone.
LEMMA LiberaAjena ==
    ASSUME RecOK, NEW p \in Pids, NEW r \in Recursos, NEW s \in Recursos \ {r},
           LiberaInstancia(p, r), Cuadra(s)
    PROVE  Cuadra(s)'
<1>1. /\ cant_instancias'[s] = cant_instancias[s] /\ extra'[s] = extra[s]
      /\ queue_waiting'[s] = queue_waiting[s]
  BY DEF LiberaInstancia, RecOK
<1>2. Tenedores(s)' = Tenedores(s)
  <2>1. \A q \in Pids : tiene'[q][s] = tiene[q][s]
    BY DEF LiberaInstancia, RecOK
  <2> QED
    BY <2>1 DEF Tenedores
<1> QED
  BY <1>1, <1>2, CuadraIgual

\* Whoever releases does not wait: it runs, or it has ended.
LEMMA LiberaNoEspera ==
    ASSUME TipoInv, Ubicacion, NEW p \in Pids, NEW r \in Recursos,
           en_exec = p \/ fin[p] # "no"
    PROVE  Despertado(r) # p
<1>1. ~Contains(queue_waiting[r], p)
  BY DEF Ubicacion, Ubicado
<1>2. queue_waiting[r] \in Seq(Pids)
  BY DEF TipoInv, RecOK
<1>3. CASE queue_waiting[r] = <<>>
  BY <1>3, NadieNoEsPid DEF Despertado
<1>4. CASE queue_waiting[r] # <<>>
  <2>1. 1 \in 1 .. Len(queue_waiting[r]) /\ Head(queue_waiting[r]) = queue_waiting[r][1]
    BY <1>2, <1>4, HeadTailProperties, LenProperties, EmptySeq
  <2> QED
    BY <1>1, <1>4, <2>1 DEF Despertado, Contains
<1> QED
  BY <1>3, <1>4

\* Every step keeps the balance of a resource.
LEMMA CuadraPaso ==
    ASSUME TipoInv, LugarInv, NEW s \in Recursos, Cuadra(s), [Next]_vars
    PROVE  Cuadra(s)'
<1>0. RecOK /\ Ubicacion /\ Manos
  BY DEF TipoInv, LugarInv
<1>t. /\ queue_waiting[s] \in Seq(Pids) /\ cant_instancias[s] \in Int
      /\ Len(queue_waiting[s]) \in Nat
      /\ Tenedores(s) \in Naturales /\ \A q \in Pids : Tenedores(s)[q] = tiene[q][s]
      /\ Cardinality(Unidades(Tenedores(s))) \in Nat
  BY <1>0, LenProperties, FS_CardinalityType DEF RecOK, Tenedores, Naturales, Cuadra
<1>m. \A c, d \in Int, u, l \in Nat : c + (u + l) = d =>
        (c - 1) + ((u + 1) + l) = d /\ (c - 1) + (u + (l + 1)) = d
        /\ (c + 1) + (u + (l - 1)) = d
  OBVIOUS
<1>1. CASE AtiendeWait
  <2> DEFINE r == mensaje.nombre
  <2>1. r \in Recursos /\ pcb \in Pids
    BY <1>1 DEF AtiendeWait, TipoInv, CortoInv
  <2>2. /\ cant_instancias' = [cant_instancias EXCEPT ![r] = @ - 1] /\ extra' = extra
        /\ Alcanza(r) => /\ tiene' = [tiene EXCEPT ![pcb][r] = @ + 1]
                          /\ queue_waiting' = queue_waiting
        /\ ~Alcanza(r) => /\ queue_waiting' = [queue_waiting EXCEPT ![r] = Append(@, pcb)]
                           /\ tiene' = tiene
    BY <1>1 DEF AtiendeWait
  <2>3. CASE s # r
    <3>1. \A q \in Pids : tiene'[q][s] = tiene[q][s]
      <4>1. tiene \in [Pids -> [Recursos -> Nat]]
        BY <1>0 DEF RecOK
      <4>2. CASE ~Alcanza(r)
        BY <2>2, <4>2
      <4>3. CASE Alcanza(r)
        <5>1. tiene' = [tiene EXCEPT ![pcb][r] = @ + 1]
          BY <2>2, <4>3
        <5> QED
          BY <2>1, <2>3, <4>1, <5>1
      <4> QED
        BY <4>2, <4>3
    <3>2. Tenedores(s)' = Tenedores(s)
      BY <3>1 DEF Tenedores
    <3>3. cant_instancias'[s] = cant_instancias[s] /\ queue_waiting'[s] = queue_waiting[s]
      BY <1>0, <2>1, <2>2, <2>3 DEF RecOK
    <3> QED
      BY <2>2, <3>2, <3>3, CuadraIgual
  <2>4. CASE s = r /\ Alcanza(r)
    <3>1. /\ tiene'[pcb][s] = tiene[pcb][s] + 1
          /\ \A q \in Pids \ {pcb} : tiene'[q][s] = tiene[q][s]
      BY <1>0, <2>1, <2>2, <2>4 DEF RecOK
    <3>2. /\ Tenedores(s)'[pcb] = Tenedores(s)[pcb] + 1
          /\ \A q \in Pids \ {pcb} : Tenedores(s)'[q] = Tenedores(s)[q]
          /\ Tenedores(s)' \in Naturales
      BY <1>t, <2>1, <3>1 DEF Tenedores, Naturales
    <3>3. /\ IsFiniteSet(Unidades(Tenedores(s)'))
          /\ Cardinality(Unidades(Tenedores(s)')) = Cardinality(Unidades(Tenedores(s))) + 1
      BY <1>t, <2>1, <3>2, UnidadMas DEF Cuadra
    <3>4. cant_instancias'[s] = cant_instancias[s] - 1 /\ queue_waiting'[s] = queue_waiting[s]
      BY <1>0, <2>1, <2>2, <2>4 DEF RecOK
    <3>5. Instancias[s] + extra[s] \in Int
      BY <1>0, NombresAssumption DEF RecOK
    <3> QED
      BY <1>t, <1>m, <2>2, <3>3, <3>4, <3>5, SMTT(60) DEF Cuadra
  <2>5. CASE s = r /\ ~Alcanza(r)
    <3>1. Tenedores(s)' = Tenedores(s)
      BY <2>2, <2>5 DEF Tenedores
    <3>2. Len(queue_waiting'[s]) = Len(queue_waiting[s]) + 1
      BY <1>0, <1>t, <2>1, <2>2, <2>5, AppendProperties, SMTT(60) DEF RecOK
    <3>3. cant_instancias'[s] = cant_instancias[s] - 1
      BY <1>0, <2>1, <2>2, <2>5 DEF RecOK
    <3>4. Instancias[s] + extra[s] \in Int
      BY <1>0, NombresAssumption DEF RecOK
    <3> QED
      BY <1>t, <1>m, <2>2, <3>1, <3>2, <3>3, <3>4, SMTT(60) DEF Cuadra
  <2> QED
    BY <2>3, <2>4, <2>5
<1>2. CASE AtiendeSignal
  <2>1. PICK r : r = mensaje.nombre
    OBVIOUS
  <2>2. r \in Recursos /\ pcb \in Pids /\ en_exec = pcb /\ LiberaInstancia(pcb, r)
    BY <1>0, <1>2, <2>1 DEF AtiendeSignal, TipoInv, CortoInv, Manos
  <2>3. Despertado(r) # pcb
    BY <1>0, <2>2, LiberaNoEspera
  <2> QED
    BY <1>0, <2>2, <2>3, LiberaUnidad, LiberaAjena
<1>3. ASSUME NEW p \in Pids, FinLibera(p) PROVE Cuadra(s)'
  <2>1. PICK r \in Recursos : LiberaInstancia(p, r)
    BY <1>3 DEF FinLibera
  <2>2. Despertado(r) # p
    BY <1>0, <1>3, LiberaNoEspera DEF FinLibera
  <2> QED
    BY <1>0, <2>1, <2>2, LiberaUnidad, LiberaAjena
<1>4. ASSUME NEW r \in Recursos, ConsolaQuitaEspera(r) PROVE Cuadra(s)'
  <2>1. PICK k \in DOMAIN queue_waiting[r] :
          queue_waiting' = [queue_waiting EXCEPT ![r] = RemoveAt(@, k)]
    BY <1>4 DEF ConsolaQuitaEspera
  <2>2. /\ cant_instancias' = [cant_instancias EXCEPT ![r] = @ + 1]
        /\ extra' = extra /\ Tenedores(s)' = Tenedores(s)
    BY <1>4 DEF ConsolaQuitaEspera, Tenedores
  <2>3. CASE s # r
    BY <1>0, <2>1, <2>2, <2>3, CuadraIgual DEF RecOK
  <2>4. CASE s = r
    <3>1. Len(queue_waiting'[s]) = Len(queue_waiting[s]) - 1
      BY <1>0, <1>t, <2>1, <2>4, RemoveAtQueue DEF RecOK
    <3>2. cant_instancias'[s] = cant_instancias[s] + 1
      BY <1>0, <2>2, <2>4 DEF RecOK
    <3>3. Instancias[s] + extra[s] \in Int
      BY <1>0, NombresAssumption DEF RecOK
    <3> QED
      BY <1>t, <1>m, <2>2, <3>1, <3>2, <3>3 DEF Cuadra
  <2> QED
    BY <2>3, <2>4
<1>5. CASE UNCHANGED <<recVars, recursos>>
  BY <1>5, CuadraIgual DEF recVars, Tenedores
<1> QED
  BY <1>1, <1>2, <1>3, <1>4, <1>5, QuienMueveRecursos

\* At the start nobody holds anything.
LEMMA CuadraInit == Init => \A r \in Recursos : Cuadra(r)
<1> SUFFICES ASSUME Init, NEW r \in Recursos PROVE Cuadra(r)
  OBVIOUS
<1>1. Unidades(Tenedores(r)) = {}
  BY DEF Init, Unidades, Tenedores
<1>2. queue_waiting[r] = <<>> /\ Len(<<>>) = 0
  BY EmptySeq DEF Init
<1> QED
  BY <1>1, <1>2, FS_EmptySet, NombresAssumption DEF Init, Cuadra

\* ExclusionRecursos: the holders of a resource never outnumber its
\* instances and the SIGNALs without WAIT, through WAIT, SIGNAL, the exit
\* threads and FINALIZAR_PROCESO (corto_plazo.c, exit_proceso.c, consola.c).
THEOREM RecursosExcluyen == Spec => []ExclusionRecursos
<1>1. Init => \A r \in Recursos : Cuadra(r)
  BY CuadraInit
<1>2. TipoInv /\ LugarInv /\ (\A r \in Recursos : Cuadra(r)) /\ [Next]_vars
        => (\A r \in Recursos : Cuadra(r))'
  BY CuadraPaso
<1>3. TipoInv /\ ColaRecursos /\ (\A r \in Recursos : Cuadra(r)) => ExclusionRecursos
  <2> SUFFICES ASSUME TipoInv, ColaRecursos, NEW r \in Recursos, Cuadra(r)
               PROVE  LET enUso == Cardinality(Unidades(Tenedores(r))) IN
                      /\ enUso <= Instancias[r] + extra[r]
                      /\ cant_instancias[r] + enUso
                           = Instancias[r] + extra[r] - Len(queue_waiting[r])
    BY DEF ExclusionRecursos
  <2> DEFINE c == cant_instancias[r]
             u == Cardinality(Unidades(Tenedores(r)))
             l == Len(queue_waiting[r])
             i == Instancias[r]
             e == extra[r]
  <2>1. c \in Int /\ u \in Nat /\ l \in Nat /\ i \in Nat /\ e \in Nat
    BY LenProperties, FS_CardinalityType, NombresAssumption DEF TipoInv, RecOK, Cuadra
  <2>2. c + (u + l) = i + e /\ l = IF c < 0 THEN -c ELSE 0
    BY DEF Cuadra, ColaRecursos
  <2> HIDE DEF c, u, l, i, e
  <2>3. u <= i + e /\ c + u = i + e - l
    <3>1. CASE c < 0
      BY <2>1, <2>2, <3>1
    <3>2. CASE ~(c < 0)
      BY <2>1, <2>2, <3>2
    <3> QED
      BY <3>1, <3>2
  <2> QED
    BY <2>3 DEF c, u, l, i, e
<1> QED
  BY <1>1, <1>2, <1>3, LugarSiempre, ColaRecursosCuenta, PTL DEF Spec

=============================================================================
