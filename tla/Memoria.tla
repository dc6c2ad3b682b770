------------------------------ MODULE Memoria ------------------------------
(***************************************************************************)
(* The memory server (memoria: memoria.c, proceso.c, usuario.c): the       *)
(* bitmap of frames, the page table of each process and the user memory.   *)
(*                                                                         *)
(* memoria runs a thread per connection.  Two of them change page tables:  *)
(* the one of the kernel (INIT_PID, END_PID) and the one of the CPU        *)
(* (RESIZE).  Giving frames back is a loop with a step to take the page    *)
(* out of its list and a step to clear its bit; giving frames out is one   *)
(* section under mutex_bit_map.  Here are the steps of memoria itself; the *)
(* module Mmu says when they are asked for.                                *)
(***************************************************************************)
EXTENDS Integers, Sequences, FiniteSets, Functions

CONSTANTS
    Pids,           \* processes that may be created
    Nadie,          \* no process
    CantMarcos      \* bits of the bitmap: 8 * (max_pages / 8)

ASSUME MemoriaAssumption ==
    Nadie \notin Pids /\ CantMarcos \in Nat

Marcos == 0 .. CantMarcos - 1
SinMarco == -1
Hilos == {"kernel", "cpu"}

VARIABLES
    bit_map,            \* frames whose bit is set
    memoria_procesos,   \* processes with an entry in the dictionary
    pages,              \* page table of each process
    usuario,            \* what each frame holds: whose page was written last
    \* resize_down in each thread: whose pages, how many are left, and the
    \* frame out of its list whose bit is still set
    baja, faltan, marco

bajaVars == <<baja, faltan, marco>>
memVars  == <<bit_map, memoria_procesos, pages, usuario, bajaVars>>

Basura == <<Nadie, 0>>      \* bytes nobody wrote, or written by nobody left

MemTypeOK ==
    /\ bit_map \subseteq Marcos /\ memoria_procesos \subseteq Pids
    /\ pages \in [Pids -> Seq(Marcos)]
    /\ usuario \in [Marcos -> (Pids \cup {Nadie}) \X Nat]
    /\ baja \in [Hilos -> Pids \cup {Nadie}]
    /\ faltan \in [Hilos -> Nat]
    /\ marco \in [Hilos -> Marcos \cup {SinMarco}]

MemInit ==
    /\ bit_map = {} /\ memoria_procesos = {}
    /\ pages = [p \in Pids |-> <<>>]
    /\ usuario = [m \in Marcos |-> Basura]
    /\ baja = [h \in Hilos |-> Nadie]
    /\ faltan = [h \in Hilos |-> 0]
    /\ marco = [h \in Hilos |-> SinMarco]

-----------------------------------------------------------------------------
Ocioso(h) == baja[h] = Nadie

\* INIT_PID: a process starts without pages.
leer_archivo(p) ==
    /\ Ocioso("kernel")
    /\ memoria_procesos' = memoria_procesos \cup {p}
    /\ pages' = [pages EXCEPT ![p] = <<>>]
    /\ UNCHANGED <<bit_map, usuario, bajaVars>>

\* The n lowest frames of libres, in order.
Primeros(libres, n) ==
    {s \in [1 .. n -> libres] :
        /\ \A i, j \in 1 .. n : i < j => s[i] < s[j]
        /\ \A m \in libres : (\A i \in 1 .. n : s[i] # m) =>
                \A i \in 1 .. n : s[i] < m}

\* Mutant: the bits of the new frames are not set.
Mut_resize_up(p, n) ==
    LET libres == Marcos \ bit_map
        dados == IF n <= Cardinality(libres) THEN n ELSE Cardinality(libres)
    IN
    /\ \E s \in Primeros(libres, dados) : pages' = [pages EXCEPT ![p] = @ \o s]
    /\ UNCHANGED <<bit_map, memoria_procesos, usuario, bajaVars>>
\* resize_up: n pages more, or as many as there are frames; the caller is
\* told of an error only after it got those.
resize_up(p, n) ==
    LET libres == Marcos \ bit_map
        dados == IF n <= Cardinality(libres) THEN n ELSE Cardinality(libres)
    IN
    /\ \E s \in Primeros(libres, dados) :
        /\ pages' = [pages EXCEPT ![p] = @ \o s]
        /\ bit_map' = bit_map \cup Range(s)
    /\ UNCHANGED <<memoria_procesos, usuario, bajaVars>>

\* resize_down(n, pages of p) begins in thread h.
EmpiezaBaja(h, p, n) ==
    /\ Ocioso(h)
    /\ baja' = [baja EXCEPT ![h] = p]
    /\ faltan' = [faltan EXCEPT ![h] = n]
    /\ UNCHANGED marco

\* list_remove of the last page.
QuitaPagina(h) ==
    /\ faltan[h] > 0 /\ marco[h] = SinMarco /\ pages[baja[h]] # <<>>
    /\ LET p == baja[h]
           ultima == Len(pages[p]) IN
        /\ marco' = [marco EXCEPT ![h] = pages[p][ultima]]
        /\ pages' = [pages EXCEPT ![p] = SubSeq(@, 1, ultima - 1)]
    /\ UNCHANGED <<bit_map, memoria_procesos, usuario, baja, faltan>>

\* Mutant: the bit is left set.
Mut_LimpiaBit(h) ==
    /\ marco[h] # SinMarco
    /\ marco' = [marco EXCEPT ![h] = SinMarco]
    /\ faltan' = [faltan EXCEPT ![h] = @ - 1]
    /\ UNCHANGED <<bit_map, memoria_procesos, pages, usuario, baja>>
\* bitarray_clean_bit under mutex_bit_map.
LimpiaBit(h) ==
    /\ marco[h] # SinMarco
    /\ bit_map' = bit_map \ {marco[h]}
    /\ marco' = [marco EXCEPT ![h] = SinMarco]
    /\ faltan' = [faltan EXCEPT ![h] = @ - 1]
    /\ UNCHANGED <<memoria_procesos, pages, usuario, baja>>

\* Mutant: the loop stops at the first page of the list.
Mut_TerminaBaja(h) ==
    /\ baja[h] # Nadie /\ marco[h] = SinMarco
    /\ faltan[h] = 0 \/ Len(pages[baja[h]]) <= 1
    /\ baja' = [baja EXCEPT ![h] = Nadie]
    /\ faltan' = [faltan EXCEPT ![h] = 0]
    /\ UNCHANGED <<bit_map, memoria_procesos, pages, usuario, marco>>
\* The loop is over: no page left to free, or none in the list.
TerminaBaja(h) ==
    /\ baja[h] # Nadie /\ marco[h] = SinMarco
    /\ faltan[h] = 0 \/ pages[baja[h]] = <<>>
    /\ baja' = [baja EXCEPT ![h] = Nadie]
    /\ faltan' = [faltan EXCEPT ![h] = 0]
    /\ UNCHANGED <<bit_map, memoria_procesos, pages, usuario, marco>>

\* END_PID: the process leaves the dictionary, then its frames are freed.
liberar_memoria(p) ==
    /\ p \in memoria_procesos
    /\ memoria_procesos' = memoria_procesos \ {p}
    /\ EmpiezaBaja("kernel", p, Len(pages[p]))
    /\ UNCHANGED <<bit_map, pages, usuario>>

\* MEM_WRITE or MEM_READ of one frame: what is written there is page k of p.
accede_memoria(m, p, k, escribe) ==
    /\ usuario' = IF escribe THEN [usuario EXCEPT ![m] = <<p, k>>] ELSE usuario
    /\ UNCHANGED <<bit_map, memoria_procesos, pages, bajaVars>>

-----------------------------------------------------------------------------
\* A frame belongs to one page of one process, or is on its way back to the
\* bitmap in one thread, and its bit is set as long as either holds: the two
\* threads of memoria never hand out a frame twice.
MarcosExclusivos ==
    /\ \A p, q \in Pids : \A i \in DOMAIN pages[p], j \in DOMAIN pages[q] :
            pages[p][i] = pages[q][j] => p = q /\ i = j
    /\ \A h \in Hilos : marco[h] # SinMarco =>
            /\ marco[h] \in bit_map
            /\ \A p \in Pids : \A i \in DOMAIN pages[p] : pages[p][i] # marco[h]
            /\ \A g \in Hilos : marco[g] = marco[h] => g = h
    /\ \A p \in Pids : \A i \in DOMAIN pages[p] : pages[p][i] \in bit_map

\* No frame is lost: a set bit is some page's or is about to be cleared.
SinMarcosPerdidos ==
    \A m \in bit_map : \/ \E p \in Pids : m \in Range(pages[p])
                       \/ \E h \in Hilos : marco[h] = m

=============================================================================
