------------------------ MODULE InterrupcionesProofs ------------------------
(***************************************************************************)
(* Proofs about Interrupciones: an interrupt that ends a burst is for the  *)
(* process that runs, and a kill is never lost but in the windows named    *)
(* there, for any processes, results of an instruction, bursts and kills.  *)
(***************************************************************************)
EXTENDS Interrupciones, SequenceTheorems, TLAPS

-----------------------------------------------------------------------------
(* The inductive invariant.                                                *)

EstadosCpu == Resultados \cup {"RUNNING", "RUNNING_QUANTUM", "TERMINATED_USER"}
Respuestas == [op : {"IO", "WAIT", "SIGNAL", "PCB"}, status : EstadosCpu]

\* InterrupcionesTypeOK, by who keeps the variables.
TipoKernel ==
    /\ corto \in {"libre", "cpu", "cancela", "rutea", "vuelta"}
    /\ running_pid \in Procesos \cup {Nadie}
    /\ estado \in [Procesos -> {"listo", "exec", "bloqueado", "fin"}]
    /\ rafaga \in 0 .. MaxRafagas
    /\ timer \in [Rafagas -> {"no", "corre", "vencido", "cancelado"}]
    /\ de \in [Rafagas -> Procesos \cup {Nadie}]
TipoSlot ==
    /\ interrupt_pid \in Interrupcion \cup {SinInterrupcion}
    /\ hay_interrupt \in Nat /\ interrupt_main \in {"espera", "toma"}
    /\ consola \in {"lista", "interrumpe"} /\ pid_fin \in Procesos \cup {Nadie}
    /\ npedidos \in 0 .. MaxPedidos
TipoCanales ==
    /\ canal \in Seq(Interrupcion) /\ dispatch \in Seq(Procesos)
    /\ result \in EstadosCpu /\ respuesta \in Seq(Respuestas)
TipoCpu ==
    /\ cpu \in {"libre", "recibido", "exec", "check", "envia"}
    /\ pcb \in Procesos \cup {Nulo, Liberado}
    /\ has_interrupt \in BOOLEAN /\ caido \in BOOLEAN
    /\ interrupt \in Interrupcion \cup {SinInterrupcion}
TipoPedidos == pedidos \subseteq Procesos /\ perdidos \subseteq pedidos

\* The PCB of the burst is on its way to the CPU, there, or on its way back;
\* outside a burst it is nowhere.  cpu() may still have to free the PCB of
\* the burst before.
Rafaga ==
    /\ corto # "cpu" => dispatch = <<>> /\ respuesta = <<>>
    /\ corto # "cpu" => cpu \in {"libre", "envia"}
    /\ corto = "cpu" =>
        \/ dispatch = <<running_pid>> /\ respuesta = <<>> /\ cpu \in {"libre", "envia"}
        \/ dispatch = <<>> /\ respuesta = <<>> /\ cpu \in {"recibido", "exec", "check"}
        \/ dispatch = <<>> /\ Len(respuesta) = 1 /\ cpu \in {"libre", "envia"}

\* Which PCB each side has.
EnManos ==
    /\ corto = "libre" <=> running_pid = Nadie
    /\ cpu \in {"recibido", "exec", "check"} => pcb = running_pid
    /\ cpu = "envia" => pcb \in Procesos
    /\ corto = "cpu" => estado[running_pid] = "exec"
    /\ corto \in {"cancela", "rutea"} => estado[running_pid] # "fin"

\* Where there is an interrupt to be read, and that a kill is one asked for.
Sobre(i) == i \in Interrupcion /\ (i.tipo = "END_PID_USER" => i.por \in pedidos)
SobreTimer == \A r \in Rafagas : timer[r] = "corre" => de[r] \in Procesos
SobreConsola == consola = "interrumpe" => pid_fin \in pedidos
SobreSlot == SinEnviar => Sobre(interrupt_pid)
SobreCanal == \A k \in DOMAIN canal : Sobre(canal[k])
SobreCpu ==
    /\ interrupt = SinInterrupcion \/ Sobre(interrupt)
    /\ has_interrupt => Sobre(llegada.i)

\* A mark that was made for the PCB at hand stays so during its burst.
MarcaPropia ==
    cpu \in {"exec", "check"} /\ has_interrupt =>
        llegada.cruzada \/ llegada.i.pid = pcb

Tipos == TipoKernel /\ TipoSlot /\ TipoCanales /\ TipoCpu /\ TipoPedidos
Sobres == SobreTimer /\ SobreConsola /\ SobreSlot /\ SobreCanal /\ SobreCpu
InterInv == Tipos /\ Rafaga /\ EnManos /\ Sobres /\ MarcaPropia

\* What a timer and the console send.
LEMMA FormaInterrupcion ==
    /\ \A p \in Procesos, r \in Rafagas :
         [tipo |-> "INTERRUPT", pid |-> p, por |-> r] \in Interrupcion
    /\ \A p \in Procesos \cup {Nadie}, q \in Procesos :
         [tipo |-> "END_PID_USER", pid |-> p, por |-> q] \in Interrupcion
BY DEF Interrupcion

\* An envelope stays one, and what Pierde adds is a kill that was asked for.
LEMMA SobreSigue ==
    ASSUME [Next]_vars, NEW i, Sobre(i), Tipos
    PROVE  /\ pedidos \subseteq pedidos' /\ Sobre(i)'
           /\ Pierde(i) => perdidos' \subseteq pedidos
<1>1. pedidos \subseteq pedidos'
  BY DEF Next, vars, CortoMain, InterruptMain, InterruptCpu, DispatchCpu, Despacha, EsperarCpu,
     CancelaTimer, Rutea, Vuelta, Despierta, FinalizarPid, VenceQuantum, ConsolaInterrumpe,
     InterruptMainToma, InterruptMainEnvia, InterruptCompara, InterruptCae, InterruptMarca,
     RecibirPcb, LimpiaInterrupcion, Ejecuta, CheckInterrupt, LiberaPcb, consVars
<1> QED
  BY <1>1 DEF Sobre, Pierde, Tipos, TipoPedidos

\* The types, by who keeps the variables.
LEMMA KernelPaso == ASSUME InterInv, [Next]_vars PROVE TipoKernel'
<1> USE DEF InterInv, Tipos, TipoKernel
<1>1. ASSUME NEW p \in Procesos, Despacha(p) PROVE TipoKernel'
  <2>1. rafaga + 1 \in Rafagas /\ rafaga + 1 \in 0 .. MaxRafagas
    BY <1>1, SupuestoRafagas DEF Despacha, Rafagas
  <2> QED
    BY <1>1, <2>1 DEF Despacha
<1>2. CASE EsperarCpu
  BY <1>2 DEF EsperarCpu
<1>3. CASE CancelaTimer
  BY <1>3 DEF CancelaTimer
<1>4. CASE Rutea
  BY <1>4 DEF Rutea
<1>5. CASE Vuelta
  BY <1>5 DEF Vuelta
<1>6. ASSUME NEW p \in Procesos, Despierta(p) PROVE TipoKernel'
  BY <1>6 DEF Despierta
<1>7. ASSUME NEW p \in Procesos, FinalizarPid(p) PROVE TipoKernel'
  BY <1>7 DEF FinalizarPid
<1>8. ASSUME NEW r \in Rafagas, VenceQuantum(r) PROVE TipoKernel'
  BY <1>8 DEF VenceQuantum
<1>9. CASE UNCHANGED cortoVars
  BY <1>9 DEF cortoVars
<1> QED
  BY <1>1, <1>2, <1>3, <1>4, <1>5, <1>6, <1>7, <1>8, <1>9
     DEF Next, vars, CortoMain, InterruptMain, InterruptCpu, DispatchCpu,
        ConsolaInterrumpe, InterruptMainToma, InterruptMainEnvia,
        InterruptCompara, InterruptCae, InterruptMarca, RecibirPcb,
        LimpiaInterrupcion, Ejecuta, CheckInterrupt, LiberaPcb, EscribeSlot,
        cortoVars, slotVars, consVars, canales, cpuVars

\* The slot and the timers keep interrupts that were raised.
LEMMA SlotPaso == ASSUME InterInv, [Next]_vars PROVE TipoSlot'
<1> USE DEF InterInv, Tipos, TipoSlot, slotVars, consVars
<1>1. ASSUME NEW r \in Rafagas, VenceQuantum(r) PROVE TipoSlot'
  BY <1>1, FormaInterrupcion DEF VenceQuantum, EscribeSlot, Sobres, SobreTimer
<1>2. ASSUME NEW p \in Procesos, FinalizarPid(p) PROVE TipoSlot'
  BY <1>2, SupuestoRafagas DEF FinalizarPid
<1>3. CASE ConsolaInterrumpe
  BY <1>3, FormaInterrupcion DEF ConsolaInterrumpe, EscribeSlot, Sobres, SobreConsola, TipoKernel, TipoPedidos
<1>4. CASE InterruptMainToma
  BY <1>4 DEF InterruptMainToma
<1>5. CASE InterruptMainEnvia
  BY <1>5 DEF InterruptMainEnvia
<1>6. CASE UNCHANGED <<interrupt_pid, hay_interrupt, interrupt_main, consola, pid_fin, npedidos>>
  BY <1>6
<1> QED
  BY <1>1, <1>2, <1>3, <1>4, <1>5, <1>6
     DEF Next, vars, CortoMain, InterruptMain, InterruptCpu, DispatchCpu,
        Despacha, EsperarCpu, CancelaTimer, Rutea, Vuelta, Despierta,
        InterruptCompara, InterruptCae, InterruptMarca, RecibirPcb,
        LimpiaInterrupcion, Ejecuta, CheckInterrupt, LiberaPcb, cortoVars,
        slotVars, consVars, canales, cpuVars

\* So do the channels between the programs.
LEMMA CanalesPaso == ASSUME InterInv, [Next]_vars PROVE TipoCanales'
<1> USE DEF InterInv, Tipos, TipoCanales, canales, cpuVars
<1>1. ASSUME NEW p \in Procesos, Despacha(p) PROVE TipoCanales'
  BY <1>1 DEF Despacha
<1>2. CASE EsperarCpu
  BY <1>2 DEF EsperarCpu
<1>3. CASE InterruptMainEnvia
  BY <1>3 DEF InterruptMainEnvia, Sobres, SobreSlot, SinEnviar, Sobre, slotVars
<1>4. CASE InterruptCompara
  BY <1>4 DEF InterruptCompara
<1>5. CASE RecibirPcb
  BY <1>5 DEF RecibirPcb
<1>6. CASE LimpiaInterrupcion
  BY <1>6 DEF EstadosCpu, LimpiaInterrupcion
<1>7. CASE Ejecuta
  BY <1>7 DEF EstadosCpu, Ejecuta
<1>8. CASE CheckInterrupt
  <2>1. PICK r : /\ r = IF has_interrupt THEN Interrumpido(result, llegada.i) ELSE result
                 /\ result' = r
                 /\ respuesta' = respuesta \/ respuesta' = Append(respuesta, [op |-> Pedido(result), status |-> r])
    BY <1>8 DEF CheckInterrupt
  <2>2. r \in EstadosCpu
    BY <2>1 DEF Interrumpido, EstadosCpu
  <2>3. Pedido(result) \in {"IO", "WAIT", "SIGNAL", "PCB"}
    BY DEF Pedido
  <2>4. [op |-> Pedido(result), status |-> r] \in Respuestas
    BY <2>2, <2>3 DEF Respuestas
  <2>5. canal' = canal /\ dispatch' = dispatch
    BY <1>8 DEF CheckInterrupt
  <2>6. respuesta' \in Seq(Respuestas)
    BY <2>1, <2>4, SMTT(60)
  <2> QED
    BY <2>1, <2>2, <2>5, <2>6
<1>9. CASE UNCHANGED <<canal, dispatch, respuesta, result>>
  BY <1>9
<1> QED
  BY <1>1, <1>2, <1>3, <1>4, <1>5, <1>6, <1>7, <1>8, <1>9
     DEF Next, vars, CortoMain, InterruptMain, InterruptCpu, DispatchCpu,
        CancelaTimer, Rutea, Vuelta, Despierta, FinalizarPid, VenceQuantum,
        ConsolaInterrumpe, InterruptMainToma, InterruptCae, InterruptMarca,
        LiberaPcb, EscribeSlot, cortoVars, slotVars, consVars, canales,
        cpuVars

\* The CPU keeps a PCB and an interrupt of their types.
LEMMA CpuPaso == ASSUME InterInv, [Next]_vars PROVE TipoCpu'
<1> USE DEF InterInv, Tipos, TipoCpu, TipoCanales, cpuVars
<1>1. CASE InterruptCompara
  BY <1>1 DEF InterruptCompara
<1>2. CASE InterruptCae
  BY <1>2 DEF InterruptCae
<1>3. CASE InterruptMarca
  BY <1>3 DEF InterruptMarca
<1>4. CASE RecibirPcb
  BY <1>4 DEF RecibirPcb
<1>5. CASE LimpiaInterrupcion
  BY <1>5 DEF LimpiaInterrupcion
<1>6. CASE Ejecuta
  BY <1>6 DEF Ejecuta
<1>7. CASE CheckInterrupt
  BY <1>7 DEF CheckInterrupt
<1>8. CASE LiberaPcb
  BY <1>8 DEF LiberaPcb
<1>9. CASE UNCHANGED <<cpu, pcb, has_interrupt, caido, interrupt>>
  BY <1>9
<1> QED
  BY <1>1, <1>2, <1>3, <1>4, <1>5, <1>6, <1>7, <1>8, <1>9
     DEF Next, vars, CortoMain, InterruptMain, InterruptCpu, DispatchCpu,
        Despacha, EsperarCpu, CancelaTimer, Rutea, Vuelta, Despierta,
        FinalizarPid, VenceQuantum, ConsolaInterrumpe, InterruptMainToma,
        InterruptMainEnvia, EscribeSlot, cortoVars, slotVars, consVars,
        canales, cpuVars

\* Only kills that were asked for are dropped.
LEMMA PedidosPaso == ASSUME InterInv, [Next]_vars PROVE TipoPedidos'
<1> USE DEF InterInv, Tipos, TipoPedidos
<1>1. CASE EsperarCpu
  BY <1>1 DEF EsperarCpu, consVars
<1>2. ASSUME NEW r \in Rafagas, VenceQuantum(r) PROVE TipoPedidos'
  BY <1>2, SobreSigue DEF VenceQuantum, Sobres, SobreSlot, SobreCanal, SobreCpu, SobreConsola, EscribeSlot, Pisa, consVars
<1>3. ASSUME NEW p \in Procesos, FinalizarPid(p) PROVE TipoPedidos'
  BY <1>3 DEF FinalizarPid
<1>4. CASE ConsolaInterrumpe
  BY <1>4, SobreSigue DEF ConsolaInterrumpe, Sobres, SobreSlot, SobreCanal, SobreCpu, SobreConsola, EscribeSlot, Pisa, consVars
<1>5. CASE InterruptCompara
  BY <1>5, SobreSigue, SMTT(60) DEF InterruptCompara, Sobres, SobreSlot, SobreCanal, SobreCpu, SobreConsola, EscribeSlot, Pisa, consVars, TipoCanales
<1>6. CASE InterruptMarca
  BY <1>6, SobreSigue DEF InterruptMarca, Sobres, SobreSlot, SobreCanal, SobreCpu, SobreConsola, EscribeSlot, Pisa, consVars
<1>7. CASE LimpiaInterrupcion
  BY <1>7, SobreSigue DEF LimpiaInterrupcion, Sobres, SobreSlot, SobreCanal, SobreCpu, SobreConsola, EscribeSlot, Pisa, consVars
<1>8. CASE CheckInterrupt
  BY <1>8, SobreSigue DEF CheckInterrupt, Sobres, SobreSlot, SobreCanal, SobreCpu, SobreConsola, EscribeSlot, Pisa, consVars
<1>9. CASE UNCHANGED <<pedidos, perdidos>>
  BY <1>9
<1> QED
  BY <1>1, <1>2, <1>3, <1>4, <1>5, <1>6, <1>7, <1>8, <1>9
     DEF Next, vars, CortoMain, InterruptMain, InterruptCpu, DispatchCpu,
        Despacha, CancelaTimer, Rutea, Vuelta, Despierta, InterruptMainToma,
        InterruptMainEnvia, InterruptCae, RecibirPcb, Ejecuta, LiberaPcb,
        cortoVars, slotVars, consVars, canales, cpuVars

\* A PCB goes to the CPU, is there, or comes back.
LEMMA RafagaPaso == ASSUME InterInv, [Next]_vars PROVE Rafaga'
<1> USE DEF InterInv, Tipos, TipoCanales, TipoKernel, Rafaga, canales, cpuVars, cortoVars
<1>1. ASSUME NEW p \in Procesos, Despacha(p) PROVE Rafaga'
  BY <1>1 DEF Despacha
<1>2. CASE EsperarCpu
  BY <1>2 DEF EsperarCpu
<1>3. CASE CancelaTimer
  BY <1>3 DEF CancelaTimer
<1>4. CASE Rutea
  BY <1>4 DEF Rutea
<1>5. CASE Vuelta
  BY <1>5 DEF Vuelta
<1>6. CASE RecibirPcb
  BY <1>6 DEF RecibirPcb
<1>7. CASE LimpiaInterrupcion
  BY <1>7 DEF LimpiaInterrupcion
<1>8. CASE Ejecuta
  BY <1>8 DEF Ejecuta
<1>9. CASE CheckInterrupt
  <2>1. /\ cpu = "check" /\ UNCHANGED <<corto, running_pid, dispatch>>
        /\ \/ cpu' = "exec" /\ respuesta' = respuesta
           \/ cpu' = "envia" /\ \E m : respuesta' = Append(respuesta, m)
    BY <1>9 DEF CheckInterrupt
  <2>2. corto = "cpu" /\ respuesta = <<>> /\ dispatch = <<>>
    BY <2>1
  <2>3. CASE cpu' = "exec" /\ respuesta' = respuesta
    BY <2>1, <2>2, <2>3
  <2>4. CASE cpu' = "envia" /\ \E m : respuesta' = Append(respuesta, m)
    <3>1. PICK m : respuesta' = <<m>>
      BY <2>2, <2>4
    <3>2. Len(respuesta') = 1
      BY <3>1
    <3> QED
      BY <2>1, <2>2, <2>4, <3>2
  <2> QED
    BY <2>1, <2>3, <2>4
<1>10. CASE LiberaPcb
  BY <1>10 DEF LiberaPcb
<1>11. CASE UNCHANGED <<corto, dispatch, respuesta, cpu, running_pid>>
  BY <1>11
<1> QED
  BY <1>1, <1>2, <1>3, <1>4, <1>5, <1>6, <1>7, <1>8, <1>9, <1>10, <1>11
     DEF Next, vars, CortoMain, InterruptMain, InterruptCpu, DispatchCpu,
        Despierta, FinalizarPid, VenceQuantum, ConsolaInterrumpe,
        InterruptMainToma, InterruptMainEnvia, InterruptCompara, InterruptCae,
        InterruptMarca, EscribeSlot, cortoVars, slotVars, consVars, canales,
        cpuVars

\* The PCB each side has is that of the burst.
LEMMA ManosPaso == ASSUME InterInv, [Next]_vars PROVE EnManos'
<1> USE DEF InterInv, Tipos, TipoCanales, TipoKernel, Rafaga, EnManos, canales, cpuVars, cortoVars
<1>1. ASSUME NEW p \in Procesos, Despacha(p) PROVE EnManos'
  BY <1>1, SupuestoNadie DEF Despacha
<1>2. CASE EsperarCpu
  BY <1>2 DEF EsperarCpu
<1>3. CASE CancelaTimer
  BY <1>3 DEF CancelaTimer
<1>4. CASE Rutea
  BY <1>4 DEF Rutea
<1>5. CASE Vuelta
  BY <1>5 DEF Vuelta
<1>6. ASSUME NEW p \in Procesos, Despierta(p) PROVE EnManos'
  BY <1>6 DEF Despierta
<1>7. ASSUME NEW p \in Procesos, FinalizarPid(p) PROVE EnManos'
  BY <1>7 DEF FinalizarPid
<1>8. CASE RecibirPcb
  BY <1>8 DEF RecibirPcb
<1>9. CASE LimpiaInterrupcion
  BY <1>9 DEF LimpiaInterrupcion
<1>10. CASE Ejecuta
  BY <1>10 DEF Ejecuta
<1>11. CASE CheckInterrupt
  BY <1>11 DEF CheckInterrupt
<1>12. CASE LiberaPcb
  BY <1>12 DEF LiberaPcb
<1>13. CASE UNCHANGED <<corto, estado, running_pid, cpu, pcb>>
  BY <1>13
<1> QED
  BY <1>1, <1>2, <1>3, <1>4, <1>5, <1>6, <1>7, <1>8, <1>9, <1>10, <1>11, <1>12, <1>13
     DEF Next, vars, CortoMain, InterruptMain, InterruptCpu, DispatchCpu,
        VenceQuantum, ConsolaInterrumpe, InterruptMainToma,
        InterruptMainEnvia, InterruptCompara, InterruptCae, InterruptMarca,
        EscribeSlot, cortoVars, slotVars, consVars, canales, cpuVars

\* Where there is an interrupt to be read: in the timers,
LEMMA TimerPaso == ASSUME InterInv, [Next]_vars PROVE SobreTimer'
<1> USE DEF InterInv, Tipos, TipoKernel, Sobres, SobreTimer
<1>1. ASSUME NEW p \in Procesos, Despacha(p) PROVE SobreTimer'
  BY <1>1 DEF Despacha
<1>2. CASE CancelaTimer
  BY <1>2 DEF CancelaTimer
<1>3. ASSUME NEW r \in Rafagas, VenceQuantum(r) PROVE SobreTimer'
  BY <1>3 DEF VenceQuantum
<1>4. CASE UNCHANGED <<timer, de>>
  BY <1>4
<1> QED
  BY <1>1, <1>2, <1>3, <1>4
     DEF Next, vars, CortoMain, InterruptMain, InterruptCpu, DispatchCpu,
        EsperarCpu, Rutea, Vuelta, Despierta, FinalizarPid, ConsolaInterrumpe,
        InterruptMainToma, InterruptMainEnvia, InterruptCompara, InterruptCae,
        InterruptMarca, RecibirPcb, LimpiaInterrupcion, Ejecuta,
        CheckInterrupt, LiberaPcb, EscribeSlot, cortoVars, slotVars, consVars,
        canales, cpuVars

\* in the console,
LEMMA ConsolaPaso == ASSUME InterInv, [Next]_vars PROVE SobreConsola'
<1> USE DEF InterInv, Sobres, SobreConsola
<1>1. ASSUME NEW p \in Procesos, FinalizarPid(p) PROVE SobreConsola'
  BY <1>1 DEF FinalizarPid
<1>2. CASE ConsolaInterrumpe
  BY <1>2 DEF ConsolaInterrumpe
<1>3. CASE UNCHANGED <<consola, pid_fin, pedidos>>
  BY <1>3
<1> QED
  BY <1>1, <1>2, <1>3
     DEF Next, vars, CortoMain, InterruptMain, InterruptCpu, DispatchCpu,
        Despacha, EsperarCpu, CancelaTimer, Rutea, Vuelta, Despierta,
        VenceQuantum, InterruptMainToma, InterruptMainEnvia, InterruptCompara,
        InterruptCae, InterruptMarca, RecibirPcb, LimpiaInterrupcion, Ejecuta,
        CheckInterrupt, LiberaPcb, EscribeSlot, cortoVars, slotVars, consVars,
        canales, cpuVars

\* in the slot of interrupt_main,
LEMMA SlotSobrePaso == ASSUME InterInv, [Next]_vars PROVE SobreSlot'
<1> USE DEF InterInv, Tipos, Sobres, SobreSlot, SinEnviar, slotVars, consVars
<1>1. ASSUME NEW r \in Rafagas, VenceQuantum(r) PROVE SobreSlot'
  BY <1>1, FormaInterrupcion DEF VenceQuantum, EscribeSlot, Sobre, SobreTimer
<1>2. ASSUME NEW p \in Procesos, FinalizarPid(p) PROVE SobreSlot'
  BY <1>2, SobreSigue DEF FinalizarPid
<1>3. CASE ConsolaInterrumpe
  BY <1>3, FormaInterrupcion DEF ConsolaInterrumpe, EscribeSlot, Sobre, SobreConsola, TipoKernel, TipoPedidos
<1>4. CASE InterruptMainToma
  BY <1>4, SobreSigue DEF InterruptMainToma
<1>5. CASE InterruptMainEnvia
  BY <1>5, SobreSigue DEF InterruptMainEnvia, TipoSlot
<1>6. CASE UNCHANGED <<interrupt_pid, hay_interrupt, interrupt_main, pedidos>>
  BY <1>6 DEF Sobre
<1> QED
  BY <1>1, <1>2, <1>3, <1>4, <1>5, <1>6
     DEF Next, vars, CortoMain, InterruptMain, InterruptCpu, DispatchCpu,
        Despacha, EsperarCpu, CancelaTimer, Rutea, Vuelta, Despierta,
        InterruptCompara, InterruptCae, InterruptMarca, RecibirPcb,
        LimpiaInterrupcion, Ejecuta, CheckInterrupt, LiberaPcb, cortoVars,
        slotVars, consVars, canales, cpuVars

\* on the wire,
LEMMA CanalSobrePaso == ASSUME InterInv, [Next]_vars PROVE SobreCanal'
<1> USE DEF InterInv, Tipos, Sobres, SobreCanal, TipoCanales
<1>1. ASSUME NEW p \in Procesos, FinalizarPid(p) PROVE SobreCanal'
  BY <1>1, SobreSigue DEF FinalizarPid, canales
<1>2. CASE InterruptMainEnvia
  BY <1>2, SobreSigue DEF InterruptMainEnvia, SobreSlot, SinEnviar
<1>3. CASE InterruptCompara
  BY <1>3, SobreSigue DEF InterruptCompara
<1>4. CASE UNCHANGED <<canal, pedidos>>
  BY <1>4 DEF Sobre
<1> QED
  BY <1>1, <1>2, <1>3, <1>4
     DEF Next, vars, CortoMain, InterruptMain, InterruptCpu, DispatchCpu,
        Despacha, EsperarCpu, CancelaTimer, Rutea, Vuelta, Despierta,
        VenceQuantum, ConsolaInterrumpe, InterruptMainToma, InterruptCae,
        InterruptMarca, RecibirPcb, LimpiaInterrupcion, Ejecuta,
        CheckInterrupt, LiberaPcb, EscribeSlot, cortoVars, slotVars, consVars,
        canales, cpuVars

\* and in the CPU.
LEMMA CpuSobrePaso == ASSUME InterInv, [Next]_vars PROVE SobreCpu'
<1> USE DEF InterInv, Tipos, Sobres, SobreCpu, TipoCanales, cpuVars
<1>1. ASSUME NEW p \in Procesos, FinalizarPid(p) PROVE SobreCpu'
  BY <1>1, SobreSigue DEF FinalizarPid
<1>2. CASE InterruptCompara
  BY <1>2, SobreSigue DEF InterruptCompara, SobreCanal
<1>3. CASE InterruptMarca
  BY <1>3, SobreSigue DEF InterruptMarca
<1>4. CASE LimpiaInterrupcion
  BY <1>4, SobreSigue DEF LimpiaInterrupcion
<1>5. CASE CheckInterrupt
  BY <1>5, SobreSigue DEF CheckInterrupt
<1>6. CASE UNCHANGED <<interrupt, has_interrupt, llegada, pedidos>>
  BY <1>6 DEF Sobre
<1> QED
  BY <1>1, <1>2, <1>3, <1>4, <1>5, <1>6
     DEF Next, vars, CortoMain, InterruptMain, InterruptCpu, DispatchCpu,
        Despacha, EsperarCpu, CancelaTimer, Rutea, Vuelta, Despierta,
        VenceQuantum, ConsolaInterrumpe, InterruptMainToma,
        InterruptMainEnvia, InterruptCae, RecibirPcb, Ejecuta, LiberaPcb,
        EscribeSlot, cortoVars, slotVars, consVars, canales, cpuVars

\* A mark made for the PCB at hand stays so during its burst.
LEMMA MarcaPaso == ASSUME InterInv, [Next]_vars PROVE MarcaPropia'
<1> USE DEF InterInv, MarcaPropia
<1>1. CASE InterruptMarca
  BY <1>1 DEF InterruptMarca
<1>2. CASE RecibirPcb
  BY <1>2 DEF RecibirPcb
<1>3. CASE LimpiaInterrupcion
  BY <1>3 DEF LimpiaInterrupcion
<1>4. CASE Ejecuta
  BY <1>4 DEF Ejecuta
<1>5. CASE CheckInterrupt
  BY <1>5 DEF CheckInterrupt
<1>6. CASE LiberaPcb
  BY <1>6 DEF LiberaPcb
<1>7. CASE UNCHANGED <<cpu, pcb, has_interrupt, llegada>>
  BY <1>7
<1> QED
  BY <1>1, <1>2, <1>3, <1>4, <1>5, <1>6, <1>7
     DEF Next, vars, CortoMain, InterruptMain, InterruptCpu, DispatchCpu,
        Despacha, EsperarCpu, CancelaTimer, Rutea, Vuelta, Despierta,
        FinalizarPid, VenceQuantum, ConsolaInterrumpe, InterruptMainToma,
        InterruptMainEnvia, InterruptCompara, InterruptCae, EscribeSlot,
        cortoVars, slotVars, consVars, canales, cpuVars

-----------------------------------------------------------------------------
(* The theorems.                                                           *)

\* The invariant holds at the start: nothing is anywhere.
LEMMA InterInit == ASSUME Init PROVE InterInv
<1> USE DEF Init
<1>1. Tipos
  <2>1. 0 \in 0 .. MaxRafagas /\ 0 \in 0 .. MaxPedidos
    BY SupuestoRafagas
  <2>2. TipoKernel
    BY <2>1 DEF TipoKernel
  <2>3. TipoSlot
    BY <2>1 DEF TipoSlot
  <2>4. TipoCanales
    BY DEF TipoCanales, EstadosCpu
  <2>5. TipoCpu /\ TipoPedidos
    BY DEF TipoCpu, TipoPedidos
  <2> QED
    BY <2>2, <2>3, <2>4, <2>5 DEF Tipos
<1>2. Rafaga /\ EnManos /\ MarcaPropia
  BY SupuestoNadie DEF Rafaga, EnManos, MarcaPropia
<1>3. Sobres
  BY DEF Sobres, SobreTimer, SobreConsola, SobreSlot, SobreCanal, SobreCpu, SinEnviar
<1> QED
  BY <1>1, <1>2, <1>3 DEF InterInv

\* Every step preserves it.
LEMMA InterPaso == ASSUME InterInv, [Next]_vars PROVE InterInv'
BY KernelPaso, SlotPaso, CanalesPaso, CpuPaso, PedidosPaso, RafagaPaso, ManosPaso, TimerPaso,
   ConsolaPaso, SlotSobrePaso, CanalSobrePaso, CpuSobrePaso, MarcaPaso
   DEF InterInv, Tipos, Sobres

\* The invariant holds in every behaviour.
LEMMA InterSiempre == Spec => []InterInv
BY InterInit, InterPaso, PTL DEF Spec

\* The types hold, and between kernel and CPU there is never more than one
\* PCB in transit: corto_main dispatches the next one (enviar_cpu) only after
\* the answer to the last (esperar_cpu).
THEOREM TiposSiempre == Spec => []InterrupcionesTypeOK
<1>1. InterInv => InterrupcionesTypeOK
  <2> SUFFICES ASSUME InterInv PROVE InterrupcionesTypeOK
    OBVIOUS
  <2>1. dispatch = <<>> \/ dispatch = <<running_pid>>
    BY DEF InterInv, Rafaga
  <2>2. Len(dispatch) + Len(respuesta) <= 1
    <3>1. Len(dispatch) \in {0, 1} /\ Len(respuesta) \in {0, 1}
      BY <2>1 DEF InterInv, Rafaga
    <3>2. dispatch = <<>> \/ respuesta = <<>>
      BY DEF InterInv, Rafaga
    <3>3. Len(dispatch) = 0 \/ Len(respuesta) = 0
      BY <3>2
    <3>4. \A m, n \in {0, 1} : (m = 0 \/ n = 0) => m + n <= 1
      OBVIOUS
    <3> QED
      BY <3>1, <3>3, <3>4
  <2> QED
    BY <2>2 DEF InterInv, Tipos, TipoKernel, TipoSlot, TipoCanales, TipoCpu, TipoPedidos,
       InterrupcionesTypeOK
<1> QED
  BY <1>1, InterSiempre, PTL

\* check_interrupt never ends a burst for an interrupt meant for another
\* process, except when the PCB changed between the comparison of the CPU's
\* interrupt thread and its mark.
THEOREM InterrupcionSiempreAcertada == Spec => InterrupcionAcertada
<1>1. ASSUME InterInv, [Next]_vars
      PROVE [cpu = "check" /\ cpu' = "envia" /\ has_interrupt /\ result' # result
             => llegada.cruzada \/ llegada.i.pid = pcb]_vars
  BY <1>1 DEF InterInv, MarcaPropia
<1> QED
  BY <1>1, InterSiempre, PTL DEF Spec, InterrupcionAcertada

-----------------------------------------------------------------------------
(* Where the kill of a process is.                                         *)

\* KillSinRastro, for one process.
Rastro(p) == estado[p] = "fin" \/ p \in perdidos \/ EnCamino(p)

\* No step loses a kill but through Pierde.
LEMMA KillPaso == ASSUME InterInv, NEW p \in pedidos', p \in pedidos => Rastro(p), [Next]_vars PROVE Rastro(p)'
<1> USE DEF Rastro, EnCamino, InterInv, Tipos, TipoPedidos
<1>1. ASSUME NEW q \in Procesos, Despacha(q) PROVE Rastro(p)'
  BY <1>1, SupuestoNadie DEF Despacha, TipoKernel, Rafaga, EnManos, SinEnviar, cortoVars, slotVars, consVars, canales, cpuVars
<1>2. CASE EsperarCpu
  BY <1>2 DEF EsperarCpu, TipoKernel, Rafaga, EnManos, SinEnviar, cortoVars, slotVars, consVars, canales, cpuVars
<1>3. CASE CancelaTimer
  BY <1>3 DEF CancelaTimer, SinEnviar, cortoVars, slotVars, consVars, canales, cpuVars
<1>4. CASE Rutea
  <2> USE <1>4 DEF Rutea, cortoVars, slotVars, consVars, canales, cpuVars
  <2>1. CASE running_pid = p /\ status \in EstadosFin
    <3>1. p \in Procesos
      OBVIOUS
    <3>2. estado' = [estado EXCEPT ![running_pid] = "fin"]
      BY <2>1 DEF EstadosFin
    <3> QED
      BY <2>1, <3>1, <3>2 DEF TipoKernel
  <2>2. CASE estado[p] = "fin"
    <3>1. p # running_pid
      BY <2>2 DEF EnManos
    <3>2. p \in Procesos
      BY DEF consVars
    <3>3. estado'[p] = estado[p]
      BY <3>1, <3>2 DEF TipoKernel
    <3> QED
      BY <2>2, <3>3
  <2>3. CASE p \in perdidos \/ (EnCamino(p) /\ running_pid # p)
    BY <2>3 DEF SinEnviar
  <2>4. CASE EnCamino(p) /\ running_pid = p /\ status \notin EstadosFin
    BY <2>4 DEF SinEnviar, Rafaga
  <2> QED
    BY <2>1, <2>2, <2>3, <2>4
<1>5. CASE Vuelta
  BY <1>5 DEF Vuelta, Rafaga, SinEnviar, cortoVars, slotVars, consVars, canales, cpuVars
<1>6. ASSUME NEW q \in Procesos, Despierta(q) PROVE Rastro(p)'
  BY <1>6 DEF Despierta, TipoKernel, SinEnviar, cortoVars, slotVars, consVars, canales, cpuVars
<1>7. ASSUME NEW r \in Rafagas, VenceQuantum(r) PROVE Rastro(p)'
  BY <1>7 DEF VenceQuantum, EscribeSlot, Pisa, Pierde, Lleva, cortoVars, slotVars, consVars, canales, cpuVars
<1>8. ASSUME NEW q \in Procesos, FinalizarPid(q) PROVE Rastro(p)'
  BY <1>8 DEF FinalizarPid, TipoKernel, SinEnviar, cortoVars, slotVars, consVars, canales, cpuVars
<1>9. CASE ConsolaInterrumpe
  BY <1>9 DEF ConsolaInterrumpe, EscribeSlot, Pisa, Pierde, Lleva, SinEnviar, TipoSlot, cortoVars, slotVars, consVars, canales, cpuVars
<1>10. CASE InterruptMainToma
  BY <1>10 DEF InterruptMainToma, SinEnviar, cortoVars, slotVars, consVars, canales, cpuVars
<1>11. CASE InterruptMainEnvia
  BY <1>11, SMTT(60) DEF InterruptMainEnvia, SinEnviar, TipoCanales, cortoVars, slotVars, consVars, canales, cpuVars
<1>12. CASE InterruptCompara
  <2> USE DEF InterruptCompara, cortoVars, slotVars, consVars, cpuVars
  <2>1. CASE \E k \in DOMAIN canal : Lleva(canal[k], p)
    <3>1. PICK k \in DOMAIN canal : Lleva(canal[k], p)
      BY <2>1
    <3>2. k \in 1 .. Len(canal) /\ canal # <<>> /\ canal' = Tail(canal)
      BY <1>12, <3>1 DEF TipoCanales
    <3>3. CASE k = 1
      <4>1. Lleva(Head(canal), p)
        BY <3>1, <3>2, <3>3 DEF TipoCanales
      <4>2. interrupt' = Head(canal) \/ Pierde(Head(canal))
        BY <1>12
      <4> QED
        BY <4>1, <4>2 DEF Pierde, Lleva
    <3>4. CASE k # 1
      <4>1. k - 1 \in DOMAIN canal' /\ canal'[k - 1] = canal[k]
        BY <3>2, <3>4 DEF TipoCanales
      <4> QED
        BY <3>1, <4>1 DEF Lleva
    <3> QED
      BY <3>3, <3>4
  <2>2. CASE ~ \E k \in DOMAIN canal : Lleva(canal[k], p)
    <3>1. perdidos \subseteq perdidos'
      BY <1>12 DEF Pierde
    <3>2. ~Lleva(interrupt, p)
      BY <1>12 DEF Lleva, SinInterrupcion
    <3> QED
      BY <1>12, <2>2, <3>1, <3>2 DEF SinEnviar, Lleva
  <2> QED
    BY <2>1, <2>2
<1>13. CASE InterruptCae
  BY <1>13 DEF InterruptCae, SinEnviar, cortoVars, slotVars, consVars, canales, cpuVars
<1>14. CASE InterruptMarca
  BY <1>14 DEF InterruptMarca, SinEnviar, Pierde, Lleva, cortoVars, slotVars, consVars, canales, cpuVars
<1>15. CASE LimpiaInterrupcion
  BY <1>15 DEF LimpiaInterrupcion, SinEnviar, Pierde, Lleva, cortoVars, slotVars, consVars, canales, cpuVars
<1>16. CASE CheckInterrupt
  BY <1>16 DEF CheckInterrupt, SinEnviar, Pierde, Lleva, Rafaga, EnManos, Interrumpido, cortoVars, slotVars, consVars, canales, cpuVars
<1>17. CASE UNCHANGED <<estado, perdidos, consola, pid_fin, interrupt_pid, hay_interrupt, interrupt_main, canal, interrupt, has_interrupt, llegada, running_pid, respuesta, corto, status, pedidos>>
  BY <1>17 DEF SinEnviar
<1> QED
  BY <1>1, <1>2, <1>3, <1>4, <1>5, <1>6, <1>7, <1>8, <1>9, <1>10, <1>11, <1>12, <1>13, <1>14, <1>15, <1>16, <1>17
     DEF Next, vars, CortoMain, InterruptMain, InterruptCpu, DispatchCpu,
        RecibirPcb, Ejecuta, LiberaPcb, cortoVars, slotVars, consVars,
        canales, cpuVars


\* A kill that went to the CPU ends its process, is on its way to do so, or
\* was dropped in one of the windows the model names: no interleaving of the
\* timer, the console, interrupt_main, the CPU's threads and corto_main loses
\* one in silence.
THEOREM KillSiempreConRastro == Spec => []KillSinRastro
<1>1. Init => KillSinRastro
  BY DEF Init, KillSinRastro
<1>2. ASSUME InterInv, KillSinRastro, [Next]_vars PROVE KillSinRastro'
  BY <1>2, KillPaso DEF KillSinRastro, Rastro
<1> QED
  BY <1>1, <1>2, InterSiempre, PTL DEF Spec

=============================================================================
