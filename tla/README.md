# Verification of SO-Project-C

The repository is a small distributed operating system for a course: four
programs, `kernel`, `cpu`, `memoria` and `entradasalida`, that talk over TCP,
with the shared library `utils`. This directory holds TLA+ modules that model
it, TLC configurations that check them on small instances, and theorems that
TLAPS proves for every value of the constants. Names of operators and variables
are those of the source; each definition was translated from the lines that
`PROJECT.json` gives for it.

## 1. The system

| Part | State | Operations | Properties that make it correct |
|---|---|---|---|
| **kernel, long term** (`largo_plazo.c`) | `queue_new`, `hay_new`, `cont_multi` | admit a process when there is a slot | slots are conserved; nobody is admitted without one |
| **kernel, short term** (`corto_plazo.c`) | `queue_ready`, `queue_priority_ready`, `hay_ready`, `running_pid`, resources, the PCB in hand | dispatch, serve IO, WAIT and SIGNAL, requeue by FIFO, RR or VRR, finalize | a process is in one place; units of a resource are conserved; no ready process starves while bursts end |
| **kernel, exit threads** (`exit_proceso.c`) | one PCB each | give resources back, wake waiters, END_PID to memoria | every waiter a release should wake is woken |
| **kernel, interface threads** (`io.c`) | `dict_io_clients`, a queue and a semaphore per interface | register, send a request, requeue or finalize, disconnect | a request is answered; the semaphore counts the queue |
| **kernel, console** (`consola.c`) | `next_pid`, `isStopped`, `plani_run`, `multiprogramacion` | create and kill processes, stop and start planning, change the degree | no kill leaves a queue and its semaphore apart; a pause is a pause |
| **kernel, quantum and interrupts** (`quantum.c`) | one slot `interrupt_pid`, a timer thread per burst | end a burst, forward a kill to the CPU | the burst meant is the one interrupted; no kill is lost |
| **cpu, cycle and instructions** (`cpu.c`, `instructions.c`, `auxiliar.c`) | registers, PCB, `has_interrupt` | fetch, decode, execute, hand the PCB back | a program runs as on a machine of its own, whatever its frames; one answer per dispatch |
| **cpu, MMU** (`mmu.c`) | `tlb_queue` | translate, replace, invalidate on RESIZE | the TLB never contradicts the page table |
| **memoria** (`memoria.c`, `proceso.c`, `usuario.c`) | `bit_map`, page tables, user memory | INIT_PID, END_PID, RESIZE, page lookup, read, write | a frame has one owner, none is lost, none is read by another |
| **entradasalida, DialFS** (`dialfs.c`, `auxiliar.c`) | bitmap, metadata files, blocks, in memory and on disk | create, delete, truncate (with relocation and compaction), read, write | files do not overlap, nothing leaks, contents survive, disk agrees with memory |
| **entradasalida, others** (`generica.c`, `stdin.c`, `stdout.c`) | none | sleep, read a line into memory, print memory | answer exactly once |
| **utils** (`*_protocol.c`) | none | framing and serialization, sockets | what is received is what was sent, and every answer is as long as its reader expects |

How they interact: the kernel sends PCBs to the CPU and waits for one answer;
console, exit threads and schedulers share queues under mutexes with counting
semaphores; the interfaces receive, in the requests the kernel forwards, the
*physical* addresses that the CPU translated, and go to memoria by themselves.
memoria has a thread per connection; the kernel's (INIT_PID, END_PID) and the
CPU's (RESIZE) both change page tables.

What is hard: the kernel has an unbounded number of threads and most of its
state is shared; several sections that belong together are split in two; PCBs
are read after they were handed to another thread; addresses and statuses are
cached and used later; DialFS saves several files one after the other. The
complete list, each item at its line, is under `hazards` in `PROJECT.json`.

## 2. Modules

    KernelEstado <- LargoPlazo, CortoPlazo, ExitProceso, IoClient, Consola
                 <- Kernel <- KernelProps <- MCKernel
                                          <- KernelProofs
    CicloDeVida  <- CicloDeVidaProofs;  KernelProps (INSTANCE)
    Memoria      <- Mmu <- MCMmu
                        <- MmuProofs
    Interrupciones <- MCInterrupciones
                   <- InterrupcionesProofs
    Cpu          <- MCCpu;  Maquina (INSTANCE)
                 <- CpuProofs
    Protocolo    <- Conexiones <- MCConexiones
                               <- ConexionesProofs
    DialFS       <- MCDialFS
                 <- DialFSProofs
    Secuencias   <- CpuProofs, DialFSProofs, ConexionesProofs

### 2.1 Kernel

`KernelEstado` has the shared state and the steps several threads take. Each
thread is a module, with a variable for its control point (`largo`, `corto`,
`fin[p]`, `io[i]`, `consola`). `Kernel` interleaves them.

*Grain.* A section under a mutex is one step. A `sem_post` is folded into the
step before it, since it only enables others. A `sem_wait` and a `check_plani`
are steps of their own, as the windows between them are where the kernel's
interleavings are; the one exception is the `check_plani` of `io.c:65`, which is
a guard of `IoExito` and `IoFalla`: past it the interface's thread takes one section
and waits again. The CPU's answer (`CpuResponde`) is a choice among what
`exec` and `cpu` can return for the process they run.

*Data.* A pid is a number from 0, as in `next_pid`. The string `recursos` of a
PCB is the number of times it names each resource, since the order of the names
is never used. `quantum` is `"entero"` or `"resto"`, all that
`pcb->quantum < quantum` distinguishes. `isStopped` is `plani_run = 0`. A kill
sent to the CPU is remembered as `matar`: once one was sent, any process may
come back `TERMINATED_USER`, which covers kills that arrive late or reach the
next process.

*Undefined behaviour.* A pop from an empty queue (NULL PCB), a second
finalization of a PCB (double free) and the use of a destroyed queue set
`caido`, and nothing moves afterwards. A status read from a PCB that another
thread may own, or may have freed, is a choice (`EstadoLeido`): what it was, or
junk that is none of the values `corto_main` compares it with. Junk that happens to
be one of them, and what a write to a freed PCB (`corto_plazo.c:45`, `:204`) does to
other memory, are not modelled.

*Ghosts.* `tiene` (units really held), `extra` (units signalled without being
held), `en_exec`, `perdidos` (left behind by a disconnection), `despachos`
(dispatches since the pause).

`CicloDeVida` is the abstract promise: the life of a process through
`pid_status`, at most one in EXEC, no more in memory than there are slots.
`KernelProps!CumpleCiclo` states that the kernel implements it, with the slots
in force mapped to `multiprogramacion + esperas` (a lowered degree takes effect
as decrements succeed).

### 2.2 Memory

`Memoria` is memoria's own state and steps: `resize_up` is one section under
`mutex_bit_map`; `resize_down` is a loop with a step for `list_remove` and a
step for `bitarray_clean_bit`, run by two threads (`Hilos`). `Mmu` adds the CPU
(one page translated per step, TLB first, memoria on a miss; one frame accessed
per step), the TLB with FIFO and LRU, the interfaces that use the addresses of
a request, and the kernel reduced to where each process is (`proc`).
A page's contents are `<<process, page>>`: who wrote it last; sizes are
in pages, so `ceil(size / page_size)` is already taken.

### 2.3 DialFS

`DialFS` has the copies in memory and the files saved, and `pendientes`, the
saves that the operation under way has left. `Guarda` makes the next one;
`CortaYReinicia` stops the process between two and starts it from what is
saved. A byte written is `<<file, position>>`. A size is a 32-bit register read
into an `int`, so it may be negative. `danado` marks the files whose contents the
operations are known to break. `expuestos` are the files whose blocks may be
others' or unmarked: the one whose creation or relocation a stop cut, the one
truncated to a negative size, and those whose blocks these free later
(`Arrastra`); a compaction rebuilds the bitmap and clears it. `seguro` says that
none of this has happened, and `percances` counts stops and negative sizes.

### 2.4 Interrupts

`Interrupciones` follows an interrupt from whoever raises it to
`check_interrupt`: the timer of each burst (`VenceQuantum`) and the console
(`FinalizarPid`, `ConsolaInterrumpe`, with the two readings of `running_pid`)
write the one slot, `interrupt_main` sends it, the CPU's interrupt thread
compares it with the PCB (`InterruptCompara`) and sets the flag
(`InterruptMarca`), and the dispatch thread clears it for a new PCB
(`LimpiaInterrupcion`) or acts on it (`CheckInterrupt`). The kernel's queues,
which `Kernel` has in full, are one state per process. The pointer `pcb` is
`NULL` before the first PCB and `Liberado` after `free`, when the comparison may
come out either way. Ghosts: each interrupt carries what raised it, `Pierde`
names every place where a kill is dropped, `malogradas` the bursts whose interrupt
was overwritten in the slot, or raised before `dispatch` had cleared the flag.

### 2.5 Instructions

`Cpu` has the registers as the bytes of `t_registros` and the memory as the
bytes of `memoria_usuario`, and one action per instruction: what `get_register`,
`sizeof_register`, the casts of `instructions.c`, the recursion of `mmu` and the
copies frame by frame make of them. The interfaces answer the requests of IO and
other processes take and give back frames. A line is one step, since the CPU runs
one process at a time; `Mmu` has the interleavings of its accesses, and the TLB
is not repeated here because it answers what the page table says
(`MmuProofs!TlbSiempreCoherente`).

`Maquina` is what a program is promised: named registers that wrap around at
their own width, one contiguous memory, input and output straight into it.
`Cpu!CumpleMaquina` states that `Cpu` implements it, mapping the bytes to the
registers by name (`PorNombre`), the pages of the process, in order, to the
memory (`Propia`), and the frames of a request to the logical addresses they
stand for (`Pedido`). An interface may be asked for what it does not do: all but
DialFS say so (`IoNoValida`); DialFS repeats the answer of an earlier request, which
may have been of any process, and does not look at the frames (`dialfs_io`). So
`Maquina!Atiende` lets a request come back as done without its effect, but only a
pair of interface and operation in `Lecturas` may change the memory, and only those and
`Escrituras` are brought down by a range past the last address (`Desborda`).

### 2.6 Messages

`Protocolo` has the messages as bytes: what each sender puts on a connection,
how many bytes each receiver takes and how it cuts them. A byte is a tuple of
its field, its value, and its place in the field, so that a field read from the
wrong place is not the field that was sent. `Conexiones` runs these functions at both
ends of every connection, with the threads that use them: the order in which they speak,
which answers they wait for, and the request of IO that the kernel
passes on without reading. The ghosts `dicho` and `entendido` compare what was
meant with what was understood.

## 3. What the runs check

| Run | Bounds | Shows |
|---|---|---|
| `ciclo` | 3 processes, 1 interface that may disconnect, 1 resource of 1 unit, degree 2, VRR | `TypeOK`, `UnSoloLugar`, `ExclusionRecursos` |
| `consola` | 2 processes, RR, an interface that may disconnect, kills and pauses at any time | `SemaforosCuentanColas`, `ColaRecursos`, `CaidaExplicada`, `PausaAcotada`, `UnSoloLugar` |
| `multi` | 2 processes, degree between 1 and 2, one pending decrement, an interface that may disconnect | `GradoMultiprogramacion`, `CumpleCiclo` |
| `turnos` | 2 processes, 1 resource of 2 units, VRR, SIGNAL included, fair | `ListaRespaldada`, `SinInanicion`, `PedidoAtendido`, `DespiertaAlTerminar` |
| `registro` | 2 processes | violation of `RecursosRegistrados` |
| `mmu` | 2 processes, 2 frames, 1 entry, LRU, accesses over 2 pages | `MmuTypeOK`, `TlbCoherente`, `DireccionesVigentes`, `Aislamiento` |
| `marcos` | 3 processes, 2 frames, no TLB, fair | `MarcosExclusivos`, `SinMarcosPerdidos`, `MemoriaDevuelta` |
| `archivos` | 3 files, 8 blocks of 2 bytes, sizes 1 and 5, one write at the start of a file | `SinFugas`, `DiscoAlDia`, `ContenidoIntacto` |
| `cortes` | 3 files, 8 blocks, sizes -1, 0 and 3, one stop or negative size | `DialTypeOK`, `BloquesPropios`, `CompactacionCabe`, `HuecoValido` |
| `interrupciones` | 2 processes, 2 bursts with timers, one kill at any moment, fair | `InterrupcionesTypeOK`, `KillSinRastro`, `InterrupcionAcertada`, `QuantumVence` |
| `cpu` | bytes of 2 values, words of 4 bytes, pages of 2, 4 frames of which others take 2; every pair of 45 lines after two prologues | `CpuTypeOK`, `AjenosIntactos`, `CumpleMaquina` |
| `conexiones` | every message, 2 strings, 2 frames, 3 types of interface, 2 messages on their way | `Entendidos`, `NadieEsperaEnVano` |

Every property is stated in words above its definition.

*Why the bounds are enough to meet the cases.* Two processes and one unit make
a holder and a waiter; the third in `ciclo` makes a queue behind it, and with
degree 2 somebody waits in NEW. Two units in `turnos` let one process list a resource
twice, so that one SIGNAL drops both entries. Three processes and two frames in `marcos` let
one process free frames in the thread of END_PID, another in that of RESIZE and
a third ask for them. One entry (`mmu`) is replaced within an access that
crosses a page; more entries, and which of them LRU or FIFO lets go, are covered by the
proofs, which hold for any number of either. One block count of 8 is one byte of bitmap, the least the program can have; sizes 1
and 5, or 0 and 3, force relocation and compaction, 0 is the size with its own rule, -1
frees a block before the file. Two bursts let the timer of one reach the next,
of the same process or of another. In `cpu` a word is longer than a page, so it falls
on two or three; a byte of two values makes registers of a byte
wrap around at 2 and those of a word, and the addresses, at 16, past the 8 bytes
of memory; the frames are given out of order because other processes hold
some. In `conexiones` two messages may follow each other on a connection, so
that one read too long or too short spoils the next.

*Named bounds.* `MaxPid` (processes created), `MaxEsperas` (decrements of the
degree pending at once), `MaxExtra` (SIGNALs of a resource not held),
`MaxPaginas` (pages asked of RESIZE, and first page of an access), `MaxTramo`
(pages per access), `MaxEscrituras`, `MaxPercances` (stops and negative sizes), `MaxRafagas` (bursts
dispatched), `MaxPedidos` (kills asked), `Programas`, `Memorias` and `Disputados`
(scripts, first contents of memory and frames of others in `Cpu`), `Cadenas`,
`Pids` and `MaxFrames` (what messages are made of), `MaxCola` (requests of IO on
their way or being served) and `MaxEnVuelo` (messages on their way when a thread
begins something new). `SostieneCliente` in
`IoClient` delays the reconnection of an interface while the console still
holds a reference to its old record.
`CHECK_DEADLOCK FALSE` is given where the system may really stop: every process
ended, planning paused, or a crash. The run `conexiones` checks deadlock: there
it would be two threads waiting for each other's bytes.

*Fairness.* `FairSpec` (kernel): each thread that can go on does, as its steps
wait only at semaphores whose waiters are few and served in turn by the
scheduler of the operating system, and the interfaces answer. No fairness for
new commands or connections, nor for the CPU: that a burst ends is not given,
since a script may loop and the interrupt of its quantum may be overwritten in
the slot or cleared at the dispatch (`Interrupciones!QuantumVence` says when).
`PedidoAtendido` and `DespiertaAlTerminar` do not need it. `SinInanicion` has it
as a hypothesis, `[]<>(corto # "cpu")`, together with two exceptions, and is then
about the two ready queues alone: the priority queue is always served first, and
yet does not starve the other, because a rest of a quantum is spent once. Each
hypothesis is needed: TLC finds a starvation if the bursts may not end, if an
interface keeps answering before `corto_plazo.c:45` (`AdelantaRespuesta`), or if a
process keeps doing SIGNAL (`AdelantaSignal`). Weak fairness is enough as each thread, once enabled, is
disabled only by its own step in these runs. `SpecJusta` (memory): END_PID is
sent by an exit thread that does not wait for anybody unless planning is
stopped, and the thread of the kernel's connection in memoria keeps running.
`Interrupciones!FairSpec`: every thread goes on while it can and a timer that
was not cancelled runs out; nobody has to type a command, and a blocked process
need not wake. `QuantumVence` leaves out a quantum shorter than the delivery of
the PCB, whose interrupt the CPU clears or compares with another PCB.

## 4. What is proved

TLAPS proves, for any values of the constants that satisfy the named
assumptions:

* `KernelProofs!TipoCorrecto`: `Spec => []TypeOK`. `TypeOK` is not inductive:
  a thread that acts on "its" process must hold one. `TipoInv` adds what each
  control point guarantees (`CortoInv`, `FinInv`, `IoInv`, `ConsInv`).
* `KernelProofs!ColaRecursosCuenta`: `Spec => []ColaRecursos`: a counter of `-n`
  is exactly `n` waiters. The steps that touch a resource are WAIT, SIGNAL, the
  exit threads' releases and the removal by FINALIZAR_PROCESO; all the others
  leave counters and queues alone.
* `KernelProofs!SemaforosCuentan`, `ListaSiempreRespaldada`, `PausaSiempreAcotada`:
  `SemInv` counts, next to each semaphore and its queue, the threads that are
  between a push and its `V()` or a removal and its `P()`; a list of resources
  only shrinks with what is released; and a dispatch needs a `check_plani` that
  passed before the pause.
* `KernelProofs!ProcesoEnUnLugar`: `UnSoloLugar` counts places, which no step
  can be followed through. `LugarInv` says instead *where* a process is: every
  pid has a kind of place (`Ubicado`), no queue holds one twice, and each thread
  holds the process its control point says. Then every step either moves one
  process from a place to the next (`Traslado`) or moves none (`NoMueve`). From
  it follow `CaidaSiempreExplicada`, since only a process that was taken from
  under a thread's hands can make it crash; `GradoSiempreExacto`; and
  `RecursosExcluyen`, from the balance of each resource (`Cuadra`: units free,
  held and signalled without being held, and waiters).
* `KernelProofs!KernelImplementaCiclo`: `Spec => CumpleCiclo`, the refinement of
  `CicloDeVida`. `EstadoUbicado` reads the abstract state of a process from the
  place it is in; so a step that moves a process is the abstract step between the
  two states, and one that moves none is a stutter.
* `InterrupcionesProofs!InterrupcionSiempreAcertada`, `KillSiempreConRastro`,
  `TiposSiempre`: `InterInv` says where the PCB of the burst is (on its way, in
  the CPU, or on its way back, and nowhere when there is no burst), which PCB each
  side has in hand, that every interrupt in the timers, the console, the slot, the
  channel and the CPU is one that was raised, and that a mark made for the PCB in
  hand stays so during its burst.
* `CicloDeVidaProofs!CabenSiempre`: the abstract life cycle, for any finite set of
  processes and any numbers of slots, keeps the processes in memory within the slots.
* `MmuProofs!MarcosSinRepetir`: `Spec => []MarcosExclusivos`. The invariant
  `MarcosInv` adds the types of the tables, that a thread with pages left to
  free works for a process, that a frame in transit is one of those pages, and
  that the CPU asks for the process it runs. `resize_up` gives frames that were
  free, hence in no table and not in transit; `QuitaPagina` moves a frame from
  the table to the thread; `LimpiaBit` clears the bit of a frame that is in no
  table any more.
* `MmuProofs!TiposMmu`, `TlbSiempreCoherente`, `DireccionesSiempreVigentes`,
  `ProcesosAislados`, `NingunMarcoPerdido`: the other invariants of the memory
  system, from one inductive invariant, `CohInv`. None of them is inductive by
  itself, for one reason: pages disappear one at a time, in memoria, while the
  TLB and the addresses were dealt with by somebody else before. `CohInv` says so.
  `RolInv` says who is where, so whose table may shrink: only that of a process
  that ended, or of the one whose RESIZE the CPU is waiting for. `TlbInv` says that
  a valid entry agrees with the table and, while a RESIZE to fewer pages runs, is
  below the pages that will remain (`modify_tlb_on_resize` dropped the rest before
  memoria was asked). `VigenciaInv` says that a process with a request of IO on its
  way is at its interface and does not run, so its table does not change; and
  `EscritoInv` that what a process wrote is in pages it still has. With frames in
  one table only (`MarcosInv`) a write through a valid address is to the writer's
  own page.

* `DialFSProofs!HuecoSiempreValido`, `DiscoSiempreAlDia`, `BloquesSiemprePropios`,
  `NuncaHayFugas`, `CompactacionSiempreCabe`: for any finite set of files, any
  number of blocks and any sizes. `BloquesPropios` speaks of memory, but a stop
  replaces memory by the disk, so `DialInv` speaks of both: memory is sane outside
  `expuestos` and the disk outside those and what a stop would expose now
  (`Sanos`); what is not in `pendientes` is saved (`AlDia`); and of the two saves
  of a deletion or a truncation, the first is the one that makes a stop harmless
  (`EnCurso`). `FugasInv` and `CabeInv` add what the other two need. Room for a
  compaction comes from counting: the files placed so far fill the first blocks,
  no more than they had before (`CompactaLlena`), and after such a prefix
  `get_init_block_file` stops right at its end (`BuscaPrefijo`).
* `DialFSProofs!ContenidoSiempreIntacto`: `Spec => []ContenidoIntacto`, from
  where each operation leaves each byte. `ContInv` speaks of memory and disk, as a
  stop replaces one by the other: both have the bytes kept where their metadata
  says, except while a relocation or a compaction is being saved, when a stop
  exposes the files; in every other operation blocks and metadata are not changed
  both, so a stop between two saves finds a disk that agrees with itself. For the
  compaction, `Intactos` follows one file after the other: the files are taken in
  the order of their blocks and fill the first ones, so the run a file goes to
  never reaches a file still to be moved. `CompactacionSiempreCabe` is used there.
* `DialFSProofs!TiposSiempreDialFS`: `Spec => []DialTypeOK`. The entries of
  `DialTypeOK` are not enough to know that a copy reads inside the disk: `DatosOK`
  adds that a file without a first block has no size, which holds until a block
  outside the disk is touched.

* `CpuProofs!CpuTipos`, `CpuAjenosIntactos`: `Spec => []CpuTypeOK` and
  `Spec => AjenosIntactos`, for any width of byte and word, any pages and frames,
  any script. `CpuTypeOK` is not inductive: a RESIZE to more pages than the memory
  has would make a longer table, and an answer of IO writes where its frames say.
  `CpuInv` adds that no frame is twice in the table (so it is no longer than the
  user memory); that the frames of a pending request are those of a range of the
  process, or hold one of more bytes than a page, which memoria does not survive;
  and that there is no request unless the process is blocked by it. The recursion
  of `mmu` ends because each step leaves fewer bytes (`TramosPaso`, by induction on
  the bytes left); its frames stay in the pages of the table because no stretch
  leaves its page (`TramoBien`).
* `CpuProofs!CpuCumpleMaquina`: `Spec => CumpleMaquina`, the refinement of `Maquina`.
  There is a lemma for each action (`SetMaquina`, `mov_inMaquina`, ...): what the
  pointer into the struct and the width of the cast read and write is the register
  of that name, as registers do not overlap; what a translation names, byte by
  byte, is the logical range (`Dirs`), so a copy frame by frame is a copy into the
  one memory; and what changes in the frames of others is not seen. A SUM or SUB
  between bytes computes on the low byte of its source, which is the sum modulo
  the width whatever the rest of the register is (`SumaResto`).

* `ConexionesProofs!SiempreEntendidos`, `NuncaEnVano`: `Spec => []Entendidos` and
  `Spec => []NadieEsperaEnVano`, for any strings and their lengths, any frames of a
  request, types of interface and processes, and connections of any length.
  `Entendidos` is far from inductive: that a thread has understood all it heard says
  nothing of the next message. `Inv` describes each connection instead. `Red`: its
  bytes are those of the messages said and not heard, one after the other, each of
  the kinds that connection carries (`Suena`, `Dijo`). Then a lemma for each kind
  shows that the receiver takes the first message exactly, whatever bytes come behind
  it (`LeePcb`, `LeeIo`, `LeePasado`, `LeeMem`, ...: the writing and the cutting of
  fields of `utils`, `memoria` and the interfaces). But the receiver must also be one
  that reads that kind at that point, so the rest of `Inv` is who speaks to whom when.
  `Atendidos`: what a client asked of memoria is in one place, on its way, being served
  or answered, and the END_PIDs of other threads, which nobody answers, may stand
  before and after it on the shared connection. `Turnos`: the short-term thread and
  the CPU alternate, and a PCB comes back after at most one request. `Tratos`: a request
  at an interface is in one place, and what waits for it in the kernel is whole
  (`Valido`), though the kernel does not know its contents.

The loops of `get_init_block_file` and of the compaction are recursive functions.
What they compute is proved without an induction theorem, by the least index at
which the claim would fail: `Minimo` comes from the well-foundedness of `<`,
`HaciaAtras` and `HaciaAdelante` are induction on a set of indexes, and that the
recursive function exists at all is a lemma of each (`BuscaExiste`,
`RecolocaExiste`). `CpuProofs` does the same with the recursion of `mmu`, the
powers of the base, the value of a sequence of bytes and the concatenation of
frames.

Assumptions: those named in the modules. They say that sets are finite or
numbers natural, and that names which share a set differ (`Nadie` is no pid,
`"bitmap"` is no file: `GuardadosDistintos`). Two of `Cpu` are about the
configuration and the scripts: `TamAssumption`, that a page is at most half of
what a `uint32_t` counts and the memory less than that, since both sizes are read as
an `int` (`memoria/src/main.c:33`), and `ProgramasAssumption`, that where an
instruction takes a number `strtoul` is given a word of the line.

Only model-checked: all liveness (`SinInanicion`, `PedidoAtendido`,
`DespiertaAlTerminar`, `MemoriaDevuelta`, `QuantumVence`), as fairness is out of the
prover's reach. Every safety property of a passing run is stated by a theorem.

Leaves that take the provers more than an instant name the one that proves them
and a generous limit (`SMTT(60)`, `ZenonT(90)`), so that a slow or busy machine
proves the same theorems. In arithmetic on addresses each product is a hidden
definition with its type, which leaves the solver a linear goal.

## 5. What the models show about the code

Confirmed by a run:

* A process woken from a resource queue gets the unit but no entry in its
  `recursos`, so the unit is never returned when it ends
  (`corto_plazo.c:193`, `:235-243`, `exit_proceso.c:30-39`); `pcb_protocol.h:33`
  says the list names the resources the process uses. Run `registro`.

Cases that the models contain and the properties had to account for:

* `consola.c:163`, `:205`: FINALIZAR_PROCESO takes a process out of a queue and
  then waits for its token. If the scheduler has that token already it pops
  nothing (crash); with planning stopped, the console waits for a token that
  `corto_main` holds while it waits for INICIAR_PLANIFICACION, which nobody can
  type. `CaidaExplicada` says these are the only reasons to crash on an empty
  queue.
* `corto_plazo.c:53`: the status of a PCB handed over is read again; if the
  process ended in between, it is finalized twice.
* `corto_plazo.c:45`: under VRR the quantum of a handed-over PCB is written
  while `io_client` may already have chosen its queue by the old one; a process
  can overtake the others each time. `SinInanicion` needs this race not to go on
  for ever.
* `corto_plazo.c:93`: SIGNAL always requeues with priority, whatever the
  algorithm: a process that keeps doing SIGNAL starves the rest. It is the other
  exception of `SinInanicion`.
* `io.c:98`: a disconnection destroys the queue of the interface; the processes
  in it stay blocked for ever and keep their slots (`perdidos`).
* `dialfs.c:254`: a relocation takes block numbers for byte positions: the
  contents stay behind and the copy lands on other bytes. `dialfs.c:283`: the file
  that grows is compacted last, when its old blocks may be overwritten.
  Both are recorded in `danado`.
* `dialfs.c:97`: a stop within a creation, a relocation or a compaction may
  leave a file with unmarked blocks; `dialfs.c:196`: a truncation to a size from
  2^31 on frees blocks before the file. `BloquesPropios` says how far the damage
  goes.
* A kill sent to the CPU can come to nothing (`KillSinRastro` says these are all
  the ways): overwritten in the slot by the end of a quantum (`quantum.c:57`);
  compared with another PCB or a freed one (`cpu/src/main.c:109`); its type
  overwritten before `check_interrupt` (`main.c:112`); cleared with the arrival of
  the very PCB it was for (`main.c:78`); spent on the process that
  `running_pid` had become at its second reading (`consola.c:140`); or undone by
  the answer to an IO or a WAIT (`corto_plazo.c:152`, `:192`, `:204`). A process killed
  after it was requeued and before `running_pid` is cleared (`corto_plazo.c:100`) is
  looked for in the CPU.
* `mmu.c:15`: `desplazamiento + size` wraps around in 32 bits; a range with such
  a size becomes a single frame of more bytes than a page, where the comment over
  `mmu` promises the bytes in each frame. `Maquina` has it as `Desborda`.
* `dialfs.c:66`: an operation DialFS does not know is answered with the answer of
  the operation before it, while its log says that the kernel is told
  (`Conexiones!IoRecibe`); the other interfaces answer `IO_ERROR`. An
  `IO_STDIN_READ` sent to a DialFS may so come back READY with nothing read, even
  for a range that would bring down an interface that served it (`Cpu!dialfs_io`).
* An interrupt before the first PCB makes the CPU follow a null pointer
  (`main.c:109`, `InterruptCae`).
* A timer left from an older burst may overwrite the interrupt of the current
  one, whose process then runs on for as long as it likes (`malogradas`).
* `corto_plazo.c:48`: `pthread_cancel` of a detached thread that has ended is
  undefined; the model takes it as having no effect.
* `instructions.c:144-145`: COPY_STRING overwrites the failed status of the
  translation of its source: the program goes on with anything in the destination.
* `cpu/src/auxiliar.c:81`: an unknown register is the program counter.
  `proceso.c:85`: memoria does not survive a program counter past the script.
  `cpu.c:62`: the CPU does not survive a line without all of its words.
* `usuario.c:84`: a RESIZE that fails keeps the frames it got until END_PID.
* Entries of ended processes stay in the TLB. They are harmless because pids
  are never reused.

## 6. Not modelled

* Sockets (`sockets.c`): connections are there from the start and a message that
  was sent arrives; a send is whole and a receive waits for all its bytes. The
  disconnection of an interface is in `IoClient`, that of the other parts ends the system.
* Logging and configuration parsing.
* Scripts of the console: they are sequences of INICIAR_PROCESO.
* Instruction files in memoria: they are only read; their lines are the words of
  `Cpu!file`.
* DialFS: a torn write of one file, and the bytes of a metadata file; a restart
  after an access outside the blocks has killed it; and the rounding of
  `block_count / 8` (`dialfs.c:18`), as every block of the model has its bit.
* A MEM_WRITE that waits in memoria when its interface disconnects: `io.c:84` ends the
  process, END_PID frees its frames on another connection, and the write may
  land on the page of whoever got them. In `Mmu` an access is served as it is sent, so
  `DireccionesVigentes` and `Aislamiento` say nothing of this one.
* The unlocked traversal of queues for logs and for PROCESO_ESTADO.
* Delays (`retardo`, `usleep` of the interfaces), except as the freedom of every
  other thread to act in between.
* Memory leaks.

## 7. Plan

Done, in this order: the kernel (five threads, properties, refinement, proofs),
`DialFS`, `Memoria` and `Mmu`, the proof of `MarcosExclusivos`; then
`Interrupciones`, `Cpu` with `Maquina`, `Protocolo` with `Conexiones`, negative
sizes in `DialFS`, and the proofs of `MmuProofs`; then the rest of
`KernelProofs`, with the refinement of `CicloDeVida`, of `InterrupcionesProofs`
and of `DialFSProofs`; then `CpuProofs`, with the refinement of `Maquina`, and
`ConexionesProofs`.

1. `SistemaArchivos`: an abstract file system that `DialFS` implements where
   neither `danado` nor `expuestos` says otherwise.
2. `Interrupciones` composed with `Kernel`, in place of the free choice of the
   CPU's answer.
3. In `Mmu`, the accesses of an interface as messages to memoria, which may outlive it.
