-------------------------------- MODULE Mmu --------------------------------
(***************************************************************************)
(* The CPU's address translation (cpu: mmu.c and the memory instructions   *)
(* of instructions.c) over the memory server, with the interfaces that use *)
(* the physical addresses the CPU put in their requests.                   *)
(*                                                                         *)
(* The kernel appears as what it guarantees to them: a process is in one   *)
(* place, proc ("listo" is also waiting for a resource), and is ended from *)
(* outside only there or while it is queued for IO. An instruction touches *)
(* a run of pages; each page is translated, and each frame then accessed,  *)
(* in a step of its own.                                                   *)
(***************************************************************************)
EXTENDS Memoria, SequencesExt

CONSTANTS
    NumeroEntradas,     \* CANTIDAD_ENTRADAS_TLB
    EsLRU,              \* ALGORITMO_TLB = "LRU"
    MaxPaginas,         \* pages asked of RESIZE (bound)
    MaxTramo            \* pages touched by an instruction (bound)

ASSUME MmuAssumption ==
    /\ NumeroEntradas \in Nat /\ EsLRU \in BOOLEAN
    /\ MaxPaginas \in Nat /\ MaxTramo \in Nat

VARIABLES
    tlb_queue,      \* the entries, the next victim first
    cpu,            \* control point of the CPU
    pcb,            \* the process it runs
    instruccion,    \* the memory instruction under way
    pedido,         \* pages asked of RESIZE
    por_traducir,   \* pages it has yet to translate
    frames,         \* the frames it translated and has yet to use
    \* kernel and interfaces: where each process is, and the frames of the
    \* IO request it waits for
    proc, io_frames,
    escrito         \* ghost: pages of each process with its own data

cpuVars    == <<tlb_queue, cpu, pcb, instruccion, pedido, por_traducir, frames>>
kernelVars == <<proc, io_frames, escrito>>
vars       == <<memVars, cpuVars, kernelVars>>

Entradas == [pid : Pids, page : Nat, frame : Marcos, valid : BOOLEAN]
Accesos == [page : Nat, escribe : BOOLEAN]
Traducidos == [page : Nat, escribe : BOOLEAN, frame : Marcos]

MmuTypeOK ==
    /\ MemTypeOK
    /\ tlb_queue \in Seq(Entradas)
    /\ cpu \in {"libre", "instruccion", "traduce", "accede", "resize", "baja"}
    /\ pcb \in Pids \cup {Nadie}
    /\ instruccion \in {"", "mov", "copy_string", "io"} /\ pedido \in Nat
    /\ por_traducir \in Seq(Accesos) /\ frames \in Seq(Traducidos)
    /\ proc \in [Pids -> {"no", "listo", "cpu", "io", "sirviendo", "fin"}]
    /\ io_frames \in [Pids -> Seq(Traducidos)]
    /\ escrito \in [Pids -> SUBSET Nat]

Init ==
    /\ MemInit
    /\ tlb_queue = <<>> /\ cpu = "libre" /\ pcb = Nadie
    /\ instruccion = "" /\ pedido = 0 /\ por_traducir = <<>> /\ frames = <<>>
    /\ proc = [p \in Pids |-> "no"]
    /\ io_frames = [p \in Pids |-> <<>>]
    /\ escrito = [p \in Pids |-> {}]

-----------------------------------------------------------------------------
(* The kernel: creation, dispatch, end.                                    *)

CreaProceso(p) ==
    /\ proc[p] = "no"
    /\ leer_archivo(p)
    /\ proc' = [proc EXCEPT ![p] = "listo"]
    /\ UNCHANGED <<cpuVars, io_frames, escrito>>

Despacha(p) ==
    /\ cpu = "libre" /\ proc[p] = "listo"
    /\ cpu' = "instruccion" /\ pcb' = p
    /\ proc' = [proc EXCEPT ![p] = "cpu"]
    /\ UNCHANGED <<memVars, tlb_queue, instruccion, pedido, por_traducir, frames,
                   io_frames, escrito>>

\* The process leaves the CPU for destino.
Devuelve(destino) ==
    /\ cpu' = "libre" /\ pcb' = Nadie /\ instruccion' = "" /\ pedido' = 0
    /\ por_traducir' = <<>> /\ frames' = <<>>
    /\ proc' = [proc EXCEPT ![pcb] = destino]

\* Between two instructions: end of quantum, SIGNAL or WAIT; EXIT or a kill.
Desaloja ==
    /\ cpu = "instruccion"
    /\ \E destino \in {"listo", "fin"} : Devuelve(destino)
    /\ UNCHANGED <<memVars, tlb_queue, io_frames, escrito>>

\* FINALIZAR_PROCESO of a process in a ready queue or in that of an
\* interface; also an interface that does not exist.
Finaliza(p) ==
    /\ proc[p] \in {"listo", "io"}
    /\ proc' = [proc EXCEPT ![p] = "fin"]
    /\ io_frames' = [io_frames EXCEPT ![p] = <<>>]
    /\ UNCHANGED <<memVars, cpuVars, escrito>>

\* END_PID of a process that ended.
Libera(p) ==
    /\ proc[p] = "fin"
    /\ liberar_memoria(p)
    /\ escrito' = [escrito EXCEPT ![p] = {}]
    /\ UNCHANGED <<cpuVars, proc, io_frames>>

-----------------------------------------------------------------------------
(* RESIZE.                                                                 *)

\* Mutant: the first page that goes away stays valid.
Mut_modify_tlb_on_resize(n, p) ==
    [i \in DOMAIN tlb_queue |->
        [tlb_queue[i] EXCEPT !.valid = @ /\ ~(/\ tlb_queue[i].pid = p
                                              /\ tlb_queue[i].page > n)]]
modify_tlb_on_resize(n, p) ==
    [i \in DOMAIN tlb_queue |->
        [tlb_queue[i] EXCEPT !.valid = @ /\ ~(/\ tlb_queue[i].pid = p
                                              /\ tlb_queue[i].page > n - 1)]]

\* resize_process of the CPU: the TLB first, then the request.
ResizePide(n) ==
    /\ cpu = "instruccion"
    /\ tlb_queue' = modify_tlb_on_resize(n, pcb)
    /\ cpu' = "resize" /\ pedido' = n
    /\ UNCHANGED <<memVars, pcb, instruccion, por_traducir, frames, kernelVars>>

\* resize_process of memoria; without frames enough the process ends with
\* ERROR_MEMORY.
ResizeSube ==
    /\ cpu = "resize" /\ pedido > Len(pages[pcb])
    /\ resize_up(pcb, pedido - Len(pages[pcb]))
    /\ IF Len(pages'[pcb]) = pedido
       THEN /\ cpu' = "instruccion" /\ pedido' = 0
            /\ UNCHANGED <<pcb, instruccion, por_traducir, frames, proc>>
       ELSE Devuelve("fin")
    /\ UNCHANGED <<tlb_queue, io_frames, escrito>>

ResizeIgual ==
    /\ cpu = "resize" /\ pedido = Len(pages[pcb])
    /\ cpu' = "instruccion" /\ pedido' = 0
    /\ UNCHANGED <<memVars, tlb_queue, pcb, instruccion, por_traducir, frames,
                   kernelVars>>

\* Mutant: the difference the other way round.
Mut_ResizeBaja ==
    /\ cpu = "resize" /\ pedido < Len(pages[pcb])
    /\ EmpiezaBaja("cpu", pcb, pedido - Len(pages[pcb]))
    /\ cpu' = "baja" /\ pedido' = 0
    /\ UNCHANGED <<bit_map, memoria_procesos, pages, usuario, tlb_queue, pcb,
                   instruccion, por_traducir, frames, kernelVars>>
\* resize_process of memoria when pages are given back.
ResizeBaja ==
    /\ cpu = "resize" /\ pedido < Len(pages[pcb])
    /\ EmpiezaBaja("cpu", pcb, Len(pages[pcb]) - pedido)
    /\ cpu' = "baja" /\ pedido' = 0
    /\ UNCHANGED <<bit_map, memoria_procesos, pages, usuario, tlb_queue, pcb,
                   instruccion, por_traducir, frames, kernelVars>>

\* The steps of resize_down, and the answer to the CPU.
Quita(h) ==
    /\ QuitaPagina(h)
    /\ escrito' = [escrito EXCEPT ![baja[h]] = {k \in @ : k < Len(pages'[baja[h]])}]
    /\ UNCHANGED <<cpuVars, proc, io_frames>>

Limpia(h) == LimpiaBit(h) /\ UNCHANGED <<cpuVars, kernelVars>>

TerminaLibera == TerminaBaja("kernel") /\ UNCHANGED <<cpuVars, kernelVars>>

ResizeResponde ==
    /\ cpu = "baja" /\ TerminaBaja("cpu")
    /\ cpu' = "instruccion"
    /\ UNCHANGED <<tlb_queue, pcb, instruccion, por_traducir, frames, pedido,
                   kernelVars>>

-----------------------------------------------------------------------------
(* Translation and access.                                                 *)

\* MOV_IN, MOV_OUT and COPY_STRING, and the instructions of IO that carry
\* addresses; COPY_STRING translates what it reads, then what it writes.
Tramo(k, n, escribe) == [i \in 1 .. n |-> [page |-> k + i - 1, escribe |-> escribe]]
Empieza(nombre, paginas) ==
    /\ cpu = "instruccion"
    /\ cpu' = "traduce" /\ instruccion' = nombre
    /\ por_traducir' = paginas /\ frames' = <<>>
    /\ UNCHANGED <<memVars, tlb_queue, pcb, pedido, kernelVars>>

Instruccion ==
    \E k \in 0 .. MaxPaginas, n \in 1 .. MaxTramo, escribe \in BOOLEAN :
        \/ Empieza("mov", Tramo(k, n, escribe))
        \/ Empieza("io", Tramo(k, n, escribe))
        \/ \E d \in 0 .. MaxPaginas, m \in 1 .. MaxTramo :
            Empieza("copy_string", Tramo(k, n, FALSE) \o Tramo(d, m, TRUE))

\* Mutant: the process is not compared.
Mut_EsHit(e, p, k) == e.page = k /\ e.valid
EsHit(e, p, k) == e.pid = p /\ e.page = k /\ e.valid

\* The page a has its frame m: on to the next page.
Traduce(a, m) ==
    /\ por_traducir' = Tail(por_traducir)
    /\ frames' = Append(frames, [page |-> a.page, escribe |-> a.escribe, frame |-> m])
    /\ UNCHANGED <<memVars, cpu, pcb, instruccion, pedido, kernelVars>>

\* find_tlb finds the first entry that fits; LRU makes it the last victim.
TlbHit ==
    /\ cpu = "traduce" /\ por_traducir # <<>>
    /\ \E i \in DOMAIN tlb_queue :
        /\ EsHit(tlb_queue[i], pcb, Head(por_traducir).page)
        /\ \A j \in 1 .. i - 1 : ~EsHit(tlb_queue[j], pcb, Head(por_traducir).page)
        /\ tlb_queue' = IF EsLRU THEN Append(RemoveAt(tlb_queue, i), tlb_queue[i])
                                 ELSE tlb_queue
        /\ Traduce(Head(por_traducir), tlb_queue[i].frame)

\* No entry fits.
TlbMiss ==
    /\ cpu = "traduce" /\ por_traducir # <<>>
    /\ \A i \in DOMAIN tlb_queue : ~EsHit(tlb_queue[i], pcb, Head(por_traducir).page)

\* add_tlb: the first entry of the queue is the victim once all are in use.
add_tlb(p, k, m) ==
    LET e == [pid |-> p, page |-> k, frame |-> m, valid |-> TRUE] IN
    IF NumeroEntradas = 0 THEN tlb_queue
    ELSE IF Len(tlb_queue) = NumeroEntradas THEN Append(Tail(tlb_queue), e)
    ELSE Append(tlb_queue, e)

\* MEM_PID_PAGE of a page the process has.
Consulta ==
    /\ TlbMiss
    /\ LET a == Head(por_traducir) IN
        /\ a.page < Len(pages[pcb])
        /\ LET m == pages[pcb][a.page + 1] IN
            /\ tlb_queue' = add_tlb(pcb, a.page, m)
            /\ Traduce(a, m)

\* MEM_PID_PAGE of a page it has not: the process ends with ERROR, except
\* that COPY_STRING forgets the failure of what it reads, and goes on with
\* what it writes.
ConsultaFalla ==
    /\ TlbMiss
    /\ LET a == Head(por_traducir) IN
        /\ a.page >= Len(pages[pcb])
        /\ IF instruccion = "copy_string" /\ ~a.escribe
           THEN /\ \E i \in 1 .. Len(por_traducir) + 1 :
                    /\ \A j \in 1 .. i - 1 : ~por_traducir[j].escribe
                    /\ i <= Len(por_traducir) => por_traducir[i].escribe
                    /\ por_traducir' = SubSeq(por_traducir, i, Len(por_traducir))
                /\ UNCHANGED <<cpu, pcb, instruccion, frames, pedido, proc>>
           ELSE Devuelve("fin")
    /\ UNCHANGED <<memVars, tlb_queue, io_frames, escrito>>

\* Everything is translated: the CPU goes to memory itself, or leaves the
\* frames to the interface.
Traducido ==
    /\ cpu = "traduce" /\ por_traducir = <<>>
    /\ IF instruccion = "io"
       THEN /\ io_frames' = [io_frames EXCEPT ![pcb] = frames]
            /\ Devuelve("io")
       ELSE /\ cpu' = "accede"
            /\ UNCHANGED <<io_frames, pcb, instruccion, por_traducir, frames,
                           pedido, proc>>
    /\ UNCHANGED <<memVars, tlb_queue, escrito>>

\* One MEM_READ or MEM_WRITE for p.
Accede(p, f) ==
    /\ accede_memoria(f.frame, p, f.page, f.escribe)
    /\ escrito' = [escrito EXCEPT ![p] = @ \cup IF f.escribe THEN {f.page} ELSE {}]

AccedeCpu ==
    /\ cpu = "accede" /\ frames # <<>>
    /\ Accede(pcb, Head(frames))
    /\ frames' = Tail(frames)
    /\ UNCHANGED <<tlb_queue, cpu, pcb, instruccion, por_traducir, pedido, proc,
                   io_frames>>

FinInstruccion ==
    /\ cpu = "accede" /\ frames = <<>>
    /\ cpu' = "instruccion" /\ instruccion' = ""
    /\ UNCHANGED <<memVars, tlb_queue, pcb, por_traducir, frames, pedido, kernelVars>>

-----------------------------------------------------------------------------
(* The interfaces.                                                         *)

IoSirve(p) ==
    /\ proc[p] = "io"
    /\ proc' = [proc EXCEPT ![p] = "sirviendo"]
    /\ UNCHANGED <<memVars, cpuVars, io_frames, escrito>>

AccedeIo(p) ==
    /\ proc[p] = "sirviendo" /\ io_frames[p] # <<>>
    /\ Accede(p, Head(io_frames[p]))
    /\ io_frames' = [io_frames EXCEPT ![p] = Tail(@)]
    /\ UNCHANGED <<cpuVars, proc>>

\* The answer, or the disconnection, of the interface.
IoTermina(p) ==
    /\ proc[p] = "sirviendo"
    /\ \E destino \in {"listo", "fin"} :
        /\ destino = "listo" => io_frames[p] = <<>>
        /\ proc' = [proc EXCEPT ![p] = destino]
    /\ io_frames' = [io_frames EXCEPT ![p] = <<>>]
    /\ UNCHANGED <<memVars, cpuVars, escrito>>

Next ==
    \/ Desaloja \/ ResizeSube \/ ResizeIgual \/ ResizeBaja \/ ResizeResponde
    \/ \E n \in 0 .. MaxPaginas : ResizePide(n)
    \/ Instruccion \/ TlbHit \/ Consulta \/ ConsultaFalla \/ Traducido
    \/ AccedeCpu \/ FinInstruccion \/ TerminaLibera
    \/ \E h \in Hilos : Quita(h) \/ Limpia(h)
    \/ \E p \in Pids : \/ CreaProceso(p) \/ Despacha(p) \/ Finaliza(p) \/ Libera(p)
                       \/ IoSirve(p) \/ AccedeIo(p) \/ IoTermina(p)

\* END_PID is sent unless planning stays stopped, and memoria's threads run.
Fairness ==
    /\ WF_vars(\E p \in Pids : Libera(p)) /\ WF_vars(TerminaLibera)
    /\ WF_vars(Quita("kernel")) /\ WF_vars(Limpia("kernel"))

Spec == Init /\ [][Next]_vars
SpecJusta == Spec /\ Fairness

-----------------------------------------------------------------------------
\* What the TLB answers for a process alive is what its page table says: a
\* RESIZE leaves no entry for a page it takes away, also when the page comes
\* back with another frame.
TlbCoherente ==
    \A i \in DOMAIN tlb_queue :
        LET e == tlb_queue[i] IN
        e.valid /\ e.pid \in memoria_procesos =>
            e.page < Len(pages[e.pid]) /\ pages[e.pid][e.page + 1] = e.frame

\* The physical addresses that the CPU or an interface is about to use are
\* still the process's own: none outlives the page it was translated from,
\* although a request waits in the queue of its interface while the other
\* processes resize and end.
DireccionesVigentes ==
    LET vigente(p, f) == f.page < Len(pages[p]) /\ pages[p][f.page + 1] = f.frame IN
    /\ pcb # Nadie => \A i \in DOMAIN frames : vigente(pcb, frames[i])
    /\ \A p \in Pids : \A i \in DOMAIN io_frames[p] : vigente(p, io_frames[p][i])

\* A page holds what its own process wrote there last.
Aislamiento ==
    \A p \in Pids : \A k \in escrito[p] :
        k < Len(pages[p]) /\ usuario[pages[p][k + 1]] = <<p, k>>

\* All the frames of a process that ended return to the bitmap.
MemoriaDevuelta ==
    \A p \in Pids : proc[p] = "fin" ~>
        (p \notin memoria_procesos /\ pages[p] = <<>> /\ baja["kernel"] # p)

=============================================================================
