----------------------------- MODULE MmuProofs -----------------------------
(***************************************************************************)
(* Proofs about the memory system, for any number of processes, frames and *)
(* TLB entries and any requests of the CPU.  First, that memoria never has *)
(* a frame in two places.  On top of it, that a physical address is good   *)
(* as long as somebody may use it: in the TLB, in an instruction half      *)
(* translated, in a request that waits for its interface; that a process   *)
(* finds what it wrote; and that no frame is lost.                         *)
(*                                                                         *)
(* The tables of a process change in two ways only: pages added at the end *)
(* while it runs, or taken from the end while it runs (RESIZE) or after it *)
(* ended (END_PID).  RolInv says who can be where when that happens, and   *)
(* TlbInv that a RESIZE to fewer pages already dropped the entries of the  *)
(* pages it is about to take.                                              *)
(***************************************************************************)
EXTENDS Mmu, SequenceTheorems, FiniteSetTheorems, TLAPS

TablasOK ==
    /\ bit_map \subseteq Marcos /\ memoria_procesos \subseteq Pids
    /\ pages \in [Pids -> Seq(Marcos)]
    /\ baja \in [Hilos -> Pids \cup {Nadie}]
    /\ faltan \in [Hilos -> Nat]
    /\ marco \in [Hilos -> Marcos \cup {SinMarco}]

\* A thread that has pages left to free works for a process, and a frame in
\* transit is one of them.
BajaInv ==
    \A h \in Hilos : /\ faltan[h] > 0 => baja[h] \in Pids
                     /\ marco[h] # SinMarco => faltan[h] > 0

TablasInv == TablasOK /\ BajaInv /\ MarcosExclusivos

\* What the CPU asks of memoria is for the process it runs.
CpuInv == (cpu # "libre" => pcb \in Pids) /\ pedido \in Nat

MarcosInv == TablasInv /\ CpuInv

-----------------------------------------------------------------------------
(* The steps of memoria.                                                   *)

\* A page table is a sequence of frames.
LEMMA TablaDefinida ==
    ASSUME TablasOK, NEW p \in Pids
    PROVE  /\ Len(pages[p]) \in Nat /\ DOMAIN pages[p] = 1 .. Len(pages[p])
           /\ \A i \in 1 .. Len(pages[p]) : pages[p][i] \in Marcos
           /\ pages[p] # <<>> => Len(pages[p]) > 0
<1>1. pages[p] \in Seq(Marcos)
  BY DEF TablasOK
<1> QED
  BY <1>1, LenProperties, ElementOfSeq, EmptySeq

\* The elements of a concatenation.
LEMMA Concatena ==
    ASSUME NEW S, NEW a \in Seq(S), NEW b \in Seq(S)
    PROVE  /\ a \o b \in Seq(S)
           /\ DOMAIN (a \o b) = 1 .. Len(a) + Len(b)
           /\ \A i \in 1 .. Len(a) + Len(b) :
                  (a \o b)[i] = IF i <= Len(a) THEN a[i] ELSE b[i - Len(a)]
BY ConcatProperties, LenProperties

\* INIT_PID.
LEMMA LeerArchivo ==
    ASSUME TablasInv, NEW p \in Pids, leer_archivo(p)
    PROVE  TablasInv'
<1>1. TablasOK'
  BY EmptySeq DEF TablasInv, TablasOK, leer_archivo, bajaVars
<1>2. BajaInv'
  BY DEF TablasInv, BajaInv, leer_archivo, bajaVars
<1>3. \A q \in Pids : \A i \in DOMAIN pages'[q] :
            q # p /\ i \in DOMAIN pages[q] /\ pages'[q][i] = pages[q][i]
  BY EmptySeq DEF TablasInv, TablasOK, leer_archivo
<1>4. MarcosExclusivos'
  BY <1>3 DEF TablasInv, MarcosExclusivos, leer_archivo, bajaVars
<1> QED
  BY <1>1, <1>2, <1>4 DEF TablasInv

\* RESIZE to more pages.
LEMMA ResizeUp ==
    ASSUME TablasInv, NEW p \in Pids, NEW n \in Nat, n > 0, resize_up(p, n)
    PROVE  TablasInv'
<1> DEFINE libres == Marcos \ bit_map
           dados == IF n <= Cardinality(libres) THEN n ELSE Cardinality(libres)
           u == Len(pages[p])
<1>1. PICK s \in Primeros(libres, dados) :
            /\ pages' = [pages EXCEPT ![p] = @ \o s]
            /\ bit_map' = bit_map \cup Range(s)
  BY DEF resize_up
<1>2. dados \in Nat
  <2>1. IsFiniteSet(Marcos)
    BY FS_Interval, MemoriaAssumption DEF Marcos
  <2>2. IsFiniteSet(libres)
    BY <2>1, FS_Subset
  <2> QED
    BY <2>2, FS_CardinalityType
<1> HIDE DEF dados
<1>3. /\ s \in [1 .. dados -> libres]
      /\ \A i, j \in 1 .. dados : i < j => s[i] < s[j]
  BY <1>2 DEF Primeros
<1>4. /\ s \in Seq(Marcos) /\ Len(s) = dados /\ DOMAIN s = 1 .. dados
      /\ \A i \in 1 .. dados : s[i] \in Marcos /\ s[i] \notin bit_map
      /\ \A i, j \in 1 .. dados : s[i] = s[j] => i = j
  <2>1. DOMAIN s = 1 .. dados /\ \A i \in 1 .. dados : s[i] \in libres
    BY <1>3
  <2>2. s \in [1 .. dados -> Marcos]
    BY <1>3, <2>1
  <2>3. s \in Seq(Marcos) /\ Len(s) = dados
    BY <1>2, <2>2
  <2>4. \A i \in 1 .. dados : s[i] \in Int
    BY <2>1 DEF Marcos
  <2>5. ASSUME NEW i \in 1 .. dados, NEW j \in 1 .. dados, s[i] = s[j]
        PROVE  i = j
    BY <1>2, <1>3, <2>4, <2>5
  <2> QED
    BY <2>1, <2>3, <2>5
<1>5. /\ pages[p] \in Seq(Marcos) /\ u \in Nat /\ DOMAIN pages[p] = 1 .. u
      /\ \A i \in 1 .. u : pages[p][i] \in Marcos
  BY TablaDefinida DEF TablasInv, TablasOK
<1> HIDE DEF libres, u
<1>6. /\ pages[p] \o s \in Seq(Marcos)
      /\ DOMAIN (pages[p] \o s) = 1 .. u + dados
      /\ \A i \in 1 .. u + dados : (pages[p] \o s)[i] =
                IF i <= u THEN pages[p][i] ELSE s[i - u]
  <2>1. /\ pages[p] \o s \in Seq(Marcos)
        /\ DOMAIN (pages[p] \o s) = 1 .. Len(pages[p]) + Len(s)
        /\ \A i \in 1 .. Len(pages[p]) + Len(s) : (pages[p] \o s)[i] =
                IF i <= Len(pages[p]) THEN pages[p][i] ELSE s[i - Len(pages[p])]
    <3>1. ASSUME NEW a \in Seq(Marcos), NEW b \in Seq(Marcos)
          PROVE  /\ a \o b \in Seq(Marcos)
                 /\ DOMAIN (a \o b) = 1 .. Len(a) + Len(b)
                 /\ \A i \in 1 .. Len(a) + Len(b) :
                        (a \o b)[i] = IF i <= Len(a) THEN a[i] ELSE b[i - Len(a)]
      BY Concatena
    <3>2. s \in Seq(Marcos) /\ pages[p] \in Seq(Marcos)
      BY <1>4, <1>5
    <3> QED
      BY <3>1, <3>2, Zenon
  <2>2. Len(pages[p]) = u /\ Len(s) = dados
    BY <1>4 DEF u
  <2> QED
    BY <2>1, <2>2
<1>7. /\ pages' = [pages EXCEPT ![p] = pages[p] \o s]
      /\ pages'[p] = pages[p] \o s
      /\ \A q \in Pids : q # p => pages'[q] = pages[q]
  BY <1>1 DEF TablasInv, TablasOK
<1>8. bit_map' = bit_map \cup {s[i] : i \in 1 .. dados}
  BY <1>1, <1>4 DEF Range
<1>9. UNCHANGED <<memoria_procesos, baja, faltan, marco>>
  BY DEF resize_up, bajaVars
\* A page is one of before, or a new one with a frame that was free.
<1>10. \A q \in Pids : \A i \in DOMAIN pages'[q] :
            \/ i \in DOMAIN pages[q] /\ pages'[q][i] = pages[q][i]
            \/ q = p /\ i > u /\ i - u \in 1 .. dados /\ pages'[q][i] = s[i - u]
  <2>1. ASSUME NEW i \in DOMAIN pages'[p]
        PROVE  \/ i \in DOMAIN pages[p] /\ pages'[p][i] = pages[p][i]
               \/ i > u /\ i - u \in 1 .. dados /\ pages'[p][i] = s[i - u]
    <3>1. i \in 1 .. u + dados
      BY <1>6, <1>7
    <3>2. pages'[p][i] = IF i <= u THEN pages[p][i] ELSE s[i - u]
      BY <1>6, <1>7, <3>1
    <3>3. CASE i <= u
      BY <1>5, <3>1, <3>2, <3>3
    <3>4. CASE i > u
      <4>1. i - u \in 1 .. dados
        BY <1>2, <1>5, <3>1, <3>4
      <4> QED
        BY <1>5, <3>1, <3>2, <3>4, <4>1
    <3> QED
      BY <1>5, <3>1, <3>3, <3>4
  <2>2. ASSUME NEW q \in Pids, q # p, NEW i \in DOMAIN pages'[q]
        PROVE  i \in DOMAIN pages[q] /\ pages'[q][i] = pages[q][i]
    BY <1>7, <2>2
  <2> QED
    BY <2>1, <2>2
<1>11. TablasOK'
  BY <1>4, <1>6, <1>7, <1>8, <1>9 DEF TablasInv, TablasOK
<1>12. BajaInv'
  BY <1>9 DEF TablasInv, BajaInv
<1>13. MarcosExclusivos'
  <2>1. \A q, r \in Pids : \A i \in DOMAIN pages'[q], j \in DOMAIN pages'[r] :
            pages'[q][i] = pages'[r][j] => q = r /\ i = j
    <3> SUFFICES ASSUME NEW q \in Pids, NEW r \in Pids,
                        NEW i \in DOMAIN pages'[q], NEW j \in DOMAIN pages'[r],
                        pages'[q][i] = pages'[r][j]
                 PROVE  q = r /\ i = j
      OBVIOUS
    <3>5. \A a, b \in Pids : \A x \in DOMAIN pages[a], y \in DOMAIN pages[b] :
            pages[a][x] = pages[b][y] => a = b /\ x = y
      BY DEF TablasInv, MarcosExclusivos
    <3>6. \A a \in Pids : \A x \in DOMAIN pages[a] : pages[a][x] \in bit_map
      BY DEF TablasInv, MarcosExclusivos
    <3>1. CASE /\ i \in DOMAIN pages[q] /\ pages'[q][i] = pages[q][i]
               /\ j \in DOMAIN pages[r] /\ pages'[r][j] = pages[r][j]
      BY <3>1, <3>5, pages[q][i] = pages[r][j]
    <3>2. CASE /\ i \in DOMAIN pages[q] /\ pages'[q][i] = pages[q][i]
               /\ r = p /\ j - u \in 1 .. dados /\ pages'[r][j] = s[j - u]
      BY <1>4, <3>2, <3>6
    <3>3. CASE /\ q = p /\ i - u \in 1 .. dados /\ pages'[q][i] = s[i - u]
               /\ j \in DOMAIN pages[r] /\ pages'[r][j] = pages[r][j]
      BY <1>4, <3>3, <3>6
    <3>4. CASE /\ q = p /\ i - u \in 1 .. dados /\ pages'[q][i] = s[i - u]
               /\ r = p /\ j - u \in 1 .. dados /\ pages'[r][j] = s[j - u]
      <4>1. i - u = j - u
        BY <1>4, <3>4
      <4>2. i \in Int /\ j \in Int
        BY <1>6, <1>7, <3>4
      <4> QED
        BY <1>5, <3>4, <4>1, <4>2
    <3> QED
      BY <1>10, <3>1, <3>2, <3>3, <3>4
  <2>2. \A q \in Pids : \A i \in DOMAIN pages'[q] : pages'[q][i] \in bit_map'
    BY <1>8, <1>10 DEF TablasInv, MarcosExclusivos
  <2>3. \A h \in Hilos : marco'[h] # SinMarco =>
            /\ marco'[h] \in bit_map'
            /\ \A q \in Pids : \A i \in DOMAIN pages'[q] : pages'[q][i] # marco'[h]
            /\ \A g \in Hilos : marco'[g] = marco'[h] => g = h
    BY <1>4, <1>8, <1>9, <1>10 DEF TablasInv, MarcosExclusivos
  <2> QED
    BY <2>1, <2>2, <2>3 DEF MarcosExclusivos
<1> QED
  BY <1>11, <1>12, <1>13 DEF TablasInv

\* RESIZE to fewer pages and END_PID begin.
LEMMA EmpiezaBajaInv ==
    ASSUME TablasInv, NEW h \in Hilos, NEW p \in Pids, NEW n \in Nat,
           EmpiezaBaja(h, p, n), UNCHANGED <<bit_map, pages>>,
           memoria_procesos' \subseteq Pids
    PROVE  TablasInv'
<1>1. TablasOK'
  BY DEF TablasInv, TablasOK, EmpiezaBaja
<1>2. BajaInv'
  BY MemoriaAssumption DEF TablasInv, TablasOK, BajaInv, EmpiezaBaja, Ocioso
<1>3. MarcosExclusivos'
  BY DEF TablasInv, MarcosExclusivos, EmpiezaBaja
<1> QED
  BY <1>1, <1>2, <1>3 DEF TablasInv

\* The last page leaves its list.
LEMMA QuitaPaginaInv ==
    ASSUME TablasInv, NEW h \in Hilos, QuitaPagina(h)
    PROVE  TablasInv'
<1> DEFINE p == baja[h]
           u == Len(pages[p])
<1>1. p \in Pids /\ pages[p] # <<>> /\ pages[p] \in Seq(Marcos)
  BY DEF QuitaPagina, TablasInv, TablasOK, BajaInv
<1>2. u \in Nat /\ u > 0 /\ DOMAIN pages[p] = 1 .. u /\ pages[p][u] \in Marcos
  BY <1>1, TablaDefinida DEF TablasInv
<1> DEFINE resto == SubSeq(pages[p], 1, u - 1)
<1>3. /\ resto \in Seq(Marcos) /\ DOMAIN resto = 1 .. u - 1
      /\ \A i \in 1 .. u - 1 : resto[i] = pages[p][i]
  <2>1. \A i \in 1 .. u - 1 : pages[p][i] \in Marcos
    BY <1>1, <1>2, TablaDefinida DEF TablasInv
  <2>2. /\ resto \in Seq(Marcos) /\ Len(resto) = u - 1
        /\ \A i \in 1 .. u - 1 : resto[i] = pages[p][i]
    BY <1>2, <2>1, SubSeqProperties
  <2> QED
    BY <2>2, LenProperties
<1>4. /\ pages' = [pages EXCEPT ![p] = resto]
      /\ marco' = [marco EXCEPT ![h] = pages[p][u]]
      /\ marco[h] = SinMarco
      /\ UNCHANGED <<bit_map, memoria_procesos, baja, faltan>>
  BY DEF QuitaPagina
<1> HIDE DEF resto
<1>5. TablasOK'
  BY <1>1, <1>2, <1>3, <1>4 DEF TablasInv, TablasOK
<1>6. BajaInv'
  BY <1>4 DEF TablasInv, TablasOK, BajaInv, QuitaPagina
<1>7. \A q \in Pids : \A i \in DOMAIN pages'[q] :
            /\ i \in DOMAIN pages[q] /\ pages'[q][i] = pages[q][i]
            /\ ~(q = p /\ i = u)
  <2>1. pages'[p] = resto /\ \A q \in Pids : q # p => pages'[q] = pages[q]
    BY <1>1, <1>4 DEF TablasInv, TablasOK
  <2>2. ASSUME NEW i \in DOMAIN pages'[p]
        PROVE  i \in DOMAIN pages[p] /\ pages'[p][i] = pages[p][i] /\ i # u
    <3>1. i \in 1 .. u - 1 /\ pages'[p][i] = resto[i]
      BY <1>3, <2>1
    <3> QED
      BY <1>2, <1>3, <3>1, SMTT(60)
  <2>3. ASSUME NEW q \in Pids, q # p, NEW i \in DOMAIN pages'[q]
        PROVE  i \in DOMAIN pages[q] /\ pages'[q][i] = pages[q][i]
    BY <2>1, <2>3
  <2> QED
    BY <2>2, <2>3
<1>8. \A g \in Hilos : marco'[g] = IF g = h THEN pages[p][u] ELSE marco[g]
  BY <1>4 DEF TablasInv, TablasOK
<1>9. MarcosExclusivos'
  <2>1. \A q, r \in Pids : \A i \in DOMAIN pages'[q], j \in DOMAIN pages'[r] :
            pages'[q][i] = pages'[r][j] => q = r /\ i = j
    BY <1>7 DEF TablasInv, MarcosExclusivos
  <2>2. \A q \in Pids : \A i \in DOMAIN pages'[q] :
            pages'[q][i] \in bit_map' /\ pages'[q][i] # pages[p][u]
    BY <1>1, <1>2, <1>4, <1>7 DEF TablasInv, MarcosExclusivos
  <2>3. \A g \in Hilos : marco'[g] # SinMarco =>
            /\ marco'[g] \in bit_map'
            /\ \A q \in Pids : \A i \in DOMAIN pages'[q] : pages'[q][i] # marco'[g]
    BY <1>1, <1>2, <1>4, <1>7, <1>8, <2>2 DEF TablasInv, MarcosExclusivos
  <2>4. \A f, g \in Hilos : marco'[g] # SinMarco /\ marco'[f] = marco'[g] => f = g
    BY <1>1, <1>2, <1>8 DEF TablasInv, MarcosExclusivos
  <2> QED
    BY <2>1, <2>2, <2>3, <2>4 DEF MarcosExclusivos
<1> QED
  BY <1>5, <1>6, <1>9 DEF TablasInv

\* The bit of the frame in transit is cleared.
LEMMA LimpiaBitInv ==
    ASSUME TablasInv, NEW h \in Hilos, LimpiaBit(h)
    PROVE  TablasInv'
<1>1. TablasOK'
  BY DEF TablasInv, TablasOK, BajaInv, LimpiaBit
<1>2. BajaInv'
  BY DEF TablasInv, TablasOK, BajaInv, LimpiaBit
<1>3. MarcosExclusivos'
  BY DEF TablasInv, TablasOK, MarcosExclusivos, LimpiaBit
<1> QED
  BY <1>1, <1>2, <1>3 DEF TablasInv

\* The loop ends.
LEMMA TerminaBajaInv ==
    ASSUME TablasInv, NEW h \in Hilos, TerminaBaja(h)
    PROVE  TablasInv'
<1>1. TablasOK'
  BY DEF TablasInv, TablasOK, TerminaBaja
<1>2. BajaInv'
  BY DEF TablasInv, TablasOK, BajaInv, TerminaBaja
<1>3. MarcosExclusivos'
  BY DEF TablasInv, MarcosExclusivos, TerminaBaja
<1> QED
  BY <1>1, <1>2, <1>3 DEF TablasInv

\* The steps of the others leave the tables alone.
LEMMA TablasIntactas ==
    ASSUME TablasInv, UNCHANGED <<bit_map, memoria_procesos, pages, bajaVars>>
    PROVE  TablasInv'
BY DEF TablasInv, TablasOK, BajaInv, MarcosExclusivos, bajaVars

-----------------------------------------------------------------------------
(* The whole system.                                                       *)

\* At first no frame is in use.
LEMMA InitInv == Init => MarcosInv
<1> SUFFICES ASSUME Init
             PROVE  MarcosInv
  OBVIOUS
<1>1. TablasOK
  BY EmptySeq DEF Init, MemInit, TablasOK
<1>2. BajaInv
  <2>1. \A h \in Hilos : faltan[h] = 0 /\ marco[h] = SinMarco
    BY DEF Init, MemInit
  <2> QED
    BY <2>1 DEF BajaInv
<1>3. MarcosExclusivos
  <2>1. \A p \in Pids : DOMAIN pages[p] = {}
    <3>1. \A p \in Pids : pages[p] = <<>>
      BY DEF Init, MemInit
    <3> QED
      BY <3>1
  <2> QED
    BY <2>1 DEF Init, MemInit, MarcosExclusivos
<1>4. CpuInv
  BY DEF Init, CpuInv
<1> QED
  BY <1>1, <1>2, <1>3, <1>4 DEF MarcosInv, TablasInv

\* A process leaves the CPU.
LEMMA DevuelveCpu ==
    ASSUME NEW destino, Devuelve(destino)
    PROVE  CpuInv'
<1>1. cpu' = "libre" /\ pedido' = 0
  BY DEF Devuelve
<1> QED
  BY <1>1 DEF CpuInv

\* Each step is one of memoria's, asked for a process that exists, or leaves
\* the tables alone.
LEMMA PasoInv == MarcosInv /\ [Next]_vars => MarcosInv'
<1> SUFFICES ASSUME MarcosInv, [Next]_vars
             PROVE  MarcosInv'
  OBVIOUS
<1> USE DEF MarcosInv
<1>1. CASE Desaloja
  <2>1. TablasInv'
    BY <1>1, TablasIntactas DEF Desaloja, memVars
  <2>2. CpuInv'
    BY <1>1, DevuelveCpu DEF Desaloja
  <2> QED
    BY <2>1, <2>2
<1>2. CASE ResizeSube
  <2>1. pcb \in Pids /\ pedido \in Nat /\ Len(pages[pcb]) \in Nat
    BY <1>2, TablaDefinida DEF ResizeSube, CpuInv, TablasInv
  <2>2. TablasInv'
    <3>1. pedido - Len(pages[pcb]) \in Nat /\ pedido - Len(pages[pcb]) > 0
      BY <1>2, <2>1 DEF ResizeSube
    <3> QED
      BY <1>2, <2>1, <3>1, ResizeUp DEF ResizeSube
  <2>3. CpuInv'
    BY <1>2, <2>1, DevuelveCpu DEF ResizeSube, CpuInv
  <2> QED
    BY <2>2, <2>3
<1>3. CASE ResizeIgual
  <2>1. TablasInv'
    BY <1>3, TablasIntactas DEF ResizeIgual, memVars
  <2>2. CpuInv'
    BY <1>3 DEF ResizeIgual, CpuInv
  <2> QED
    BY <2>1, <2>2
<1>4. CASE ResizeBaja
  <2>1. pcb \in Pids /\ pedido \in Nat /\ Len(pages[pcb]) \in Nat
    BY <1>4, TablaDefinida DEF ResizeBaja, CpuInv, TablasInv
  <2>2. TablasInv'
    <3>1. Len(pages[pcb]) - pedido \in Nat
      BY <1>4, <2>1 DEF ResizeBaja
    <3>2. memoria_procesos' \subseteq Pids
      BY <1>4 DEF ResizeBaja, TablasInv, TablasOK
    <3> QED
      BY <1>4, <2>1, <3>1, <3>2, EmpiezaBajaInv DEF ResizeBaja, Hilos
  <2>3. CpuInv'
    BY <1>4, <2>1 DEF ResizeBaja, CpuInv
  <2> QED
    BY <2>2, <2>3
<1>5. CASE ResizeResponde
  <2>1. TablasInv'
    BY <1>5, TerminaBajaInv DEF ResizeResponde, Hilos
  <2>2. CpuInv'
    BY <1>5 DEF ResizeResponde, CpuInv
  <2> QED
    BY <2>1, <2>2
<1>6. ASSUME NEW n \in 0 .. MaxPaginas, ResizePide(n)
      PROVE  MarcosInv'
  <2>1. TablasInv'
    BY <1>6, TablasIntactas DEF ResizePide, memVars
  <2>2. CpuInv'
    BY <1>6 DEF ResizePide, CpuInv
  <2> QED
    BY <2>1, <2>2
<1>7. CASE Instruccion
  <2>1. PICK nombre, paginas : Empieza(nombre, paginas)
    BY <1>7 DEF Instruccion
  <2>2. TablasInv'
    BY <2>1, TablasIntactas DEF Empieza, memVars
  <2>3. CpuInv'
    BY <2>1 DEF Empieza, CpuInv
  <2> QED
    BY <2>2, <2>3
<1>8. CASE TlbHit
  <2>1. TablasInv' 
    BY <1>8, TablasIntactas DEF TlbHit, Traduce, memVars
  <2>2. CpuInv'
    BY <1>8 DEF TlbHit, Traduce, CpuInv
  <2> QED
    BY <2>1, <2>2
<1>9. CASE Consulta
  <2>1. TablasInv'
    BY <1>9, TablasIntactas DEF Consulta, Traduce, memVars
  <2>2. CpuInv'
    BY <1>9 DEF Consulta, Traduce, CpuInv
  <2> QED
    BY <2>1, <2>2
<1>10. CASE ConsultaFalla
  <2>1. TablasInv'
    BY <1>10, TablasIntactas DEF ConsultaFalla, memVars
  <2>2. CpuInv'
    BY <1>10, DevuelveCpu DEF ConsultaFalla, TlbMiss, CpuInv
  <2> QED
    BY <2>1, <2>2
<1>11. CASE Traducido
  <2>1. TablasInv'
    BY <1>11, TablasIntactas DEF Traducido, memVars
  <2>2. CpuInv'
    BY <1>11, DevuelveCpu DEF Traducido, CpuInv
  <2> QED
    BY <2>1, <2>2
<1>12. CASE AccedeCpu
  <2>1. TablasInv'
    BY <1>12, TablasIntactas DEF AccedeCpu, Accede, accede_memoria
  <2>2. CpuInv'
    BY <1>12 DEF AccedeCpu, CpuInv
  <2> QED
    BY <2>1, <2>2
<1>13. CASE FinInstruccion
  <2>1. TablasInv'
    BY <1>13, TablasIntactas DEF FinInstruccion, memVars
  <2>2. CpuInv'
    BY <1>13 DEF FinInstruccion, CpuInv
  <2> QED
    BY <2>1, <2>2
<1>14. CASE TerminaLibera
  <2>1. TablasInv'
    BY <1>14, TerminaBajaInv DEF TerminaLibera, Hilos
  <2>2. CpuInv'
    BY <1>14 DEF TerminaLibera, cpuVars, CpuInv
  <2> QED
    BY <2>1, <2>2
<1>15. ASSUME NEW h \in Hilos, Quita(h)
       PROVE  MarcosInv'
  <2>1. TablasInv'
    BY <1>15, QuitaPaginaInv DEF Quita
  <2>2. CpuInv'
    BY <1>15 DEF Quita, cpuVars, CpuInv
  <2> QED
    BY <2>1, <2>2
<1>16. ASSUME NEW h \in Hilos, Limpia(h)
       PROVE  MarcosInv'
  <2>1. TablasInv'
    BY <1>16, LimpiaBitInv DEF Limpia
  <2>2. CpuInv'
    BY <1>16 DEF Limpia, cpuVars, CpuInv
  <2> QED
    BY <2>1, <2>2
<1>17. ASSUME NEW p \in Pids, CreaProceso(p)
       PROVE  MarcosInv'
  <2>1. TablasInv'
    BY <1>17, LeerArchivo DEF CreaProceso
  <2>2. CpuInv'
    BY <1>17 DEF CreaProceso, cpuVars, CpuInv
  <2> QED
    BY <2>1, <2>2
<1>18. ASSUME NEW p \in Pids, Despacha(p)
       PROVE  MarcosInv'
  <2>1. TablasInv'
    BY <1>18, TablasIntactas DEF Despacha, memVars
  <2>2. CpuInv'
    BY <1>18 DEF Despacha, CpuInv
  <2> QED
    BY <2>1, <2>2
<1>19. ASSUME NEW p \in Pids, Libera(p)
       PROVE  MarcosInv'
  <2>1. TablasInv'
    <3>1. Len(pages[p]) \in Nat
      BY TablaDefinida DEF TablasInv
    <3>2. memoria_procesos' \subseteq Pids
      BY <1>19 DEF Libera, liberar_memoria, TablasInv, TablasOK
    <3> QED
      BY <1>19, <3>1, <3>2, EmpiezaBajaInv DEF Libera, liberar_memoria, Hilos
  <2>2. CpuInv'
    BY <1>19 DEF Libera, cpuVars, CpuInv
  <2> QED
    BY <2>1, <2>2
<1>20. ASSUME NEW p \in Pids, AccedeIo(p)
       PROVE  MarcosInv'
  <2>1. TablasInv'
    BY <1>20, TablasIntactas DEF AccedeIo, Accede, accede_memoria
  <2>2. CpuInv'
    BY <1>20 DEF AccedeIo, cpuVars, CpuInv
  <2> QED
    BY <2>1, <2>2
<1>21. ASSUME NEW p \in Pids, Finaliza(p) \/ IoSirve(p) \/ IoTermina(p)
       PROVE  MarcosInv'
  <2>1. UNCHANGED <<memVars, cpuVars>>
    BY <1>21 DEF Finaliza, IoSirve, IoTermina
  <2>2. TablasInv'
    BY <2>1, TablasIntactas DEF memVars
  <2>3. CpuInv'
    BY <2>1 DEF cpuVars, CpuInv
  <2> QED
    BY <2>2, <2>3
<1>22. CASE UNCHANGED vars
  <2>1. TablasInv'
    BY <1>22, TablasIntactas DEF vars, memVars
  <2>2. CpuInv'
    BY <1>22 DEF vars, cpuVars, CpuInv
  <2> QED
    BY <2>1, <2>2
<1> QED
  BY <1>1, <1>2, <1>3, <1>4, <1>5, <1>6, <1>7, <1>8, <1>9, <1>10, <1>11,
     <1>12, <1>13, <1>14, <1>15, <1>16, <1>17, <1>18, <1>19, <1>20, <1>21,
     <1>22 DEF Next

\* Whatever the kernel's connection and the CPU's ask of memoria at the same
\* time, no frame is in two page tables, or in one and on its way back to
\* the bitmap (usuario.c: resize_up, resize_down).
THEOREM MarcosSinRepetir == Spec => []MarcosExclusivos
<1>1. MarcosInv => MarcosExclusivos
  BY DEF MarcosInv, TablasInv
<1> QED
  BY InitInv, PasoInv, <1>1, PTL DEF Spec


-----------------------------------------------------------------------------
(* Coherence: the invariant is MarcosInv and what follows.                 *)
Vigente(p, f) == f.page < Len(pages[p]) /\ pages[p][f.page + 1] = f.frame

TipoInv ==
    /\ tlb_queue \in Seq(Entradas)
    /\ cpu \in {"libre", "instruccion", "traduce", "accede", "resize", "baja"}
    /\ pcb \in Pids \cup {Nadie}
    /\ instruccion \in {"", "mov", "copy_string", "io"}
    /\ por_traducir \in Seq(Accesos) /\ frames \in Seq(Traducidos)
    /\ proc \in [Pids -> {"no", "listo", "cpu", "io", "sirviendo", "fin"}]
    /\ io_frames \in [Pids -> Seq(Traducidos)]
    /\ usuario \in [Marcos -> (Pids \cup {Nadie}) \X Nat]
    /\ escrito \in [Pids -> SUBSET Nat]

\* Who is where.  A process whose table shrinks runs its own RESIZE, or has
\* ended.
RolInv ==
    /\ cpu = "libre" => pcb = Nadie
    /\ pcb # Nadie => proc[pcb] = "cpu"
    /\ \A p \in Pids : proc[p] = "cpu" => pcb = p
    /\ \A p \in Pids : proc[p] = "no" => p \notin memoria_procesos /\ pages[p] = <<>>
    /\ \A p \in Pids : proc[p] \in {"listo", "cpu", "io", "sirviendo"} =>
            p \in memoria_procesos
    /\ baja["kernel"] # Nadie =>
            proc[baja["kernel"]] = "fin" /\ baja["kernel"] \notin memoria_procesos
    /\ baja["cpu"] = IF cpu = "baja" THEN pcb ELSE Nadie
    /\ frames # <<>> => cpu \in {"traduce", "accede"}
    /\ \A p \in Pids : io_frames[p] # <<>> => proc[p] \in {"io", "sirviendo"}
    /\ \A i \in DOMAIN tlb_queue : proc[tlb_queue[i].pid] # "no"

\* Pages the process will have at the end of the RESIZE under way.
Meta == Len(pages[pcb]) - faltan["cpu"] + (IF marco["cpu"] = SinMarco THEN 0 ELSE 1)

EntradaOK(e) ==
    e.valid /\ e.pid \in memoria_procesos =>
        /\ Vigente(e.pid, e)
        /\ e.pid = pcb /\ cpu = "resize" => e.page < pedido
        /\ e.pid = pcb /\ cpu = "baja" => e.page < Meta
TlbInv == \A i \in DOMAIN tlb_queue : EntradaOK(tlb_queue[i])

VigenciaInv ==
    /\ pcb # Nadie => \A i \in DOMAIN frames : Vigente(pcb, frames[i])
    /\ \A p \in Pids : \A i \in DOMAIN io_frames[p] : Vigente(p, io_frames[p][i])

EscritoInv ==
    \A p \in Pids : \A k \in escrito[p] :
        k < Len(pages[p]) /\ usuario[pages[p][k + 1]] = <<p, k>>

CohInv == MarcosInv /\ TipoInv /\ RolInv /\ TlbInv /\ VigenciaInv /\ EscritoInv
          /\ SinMarcosPerdidos

-----------------------------------------------------------------------------
(* Types.                                                                  *)

\* The tail, an extension and a part of a sequence.
LEMMA SeqTipo ==
    ASSUME NEW S, NEW s \in Seq(S)
    PROVE  /\ Len(s) \in Nat /\ DOMAIN s = 1 .. Len(s)
           /\ \A i \in DOMAIN s : s[i] \in S
           /\ s # <<>> => Head(s) \in S /\ Head(s) = s[1] /\ Tail(s) \in Seq(S)
           /\ \A e \in S : Append(s, e) \in Seq(S)
           /\ \A m, n \in Int : 1 <= m /\ n <= Len(s) => SubSeq(s, m, n) \in Seq(S)
<1>1. Len(s) \in Nat /\ DOMAIN s = 1 .. Len(s) /\ \A i \in DOMAIN s : s[i] \in S
  BY LenProperties, ElementOfSeq
<1>2. s # <<>> => Head(s) \in S /\ Head(s) = s[1] /\ Tail(s) \in Seq(S)
  BY HeadTailProperties, <1>1, EmptySeq
<1>3. \A e \in S : Append(s, e) \in Seq(S)
  BY AppendProperties
<1>4. ASSUME NEW m \in Int, NEW n \in Int, 1 <= m, n <= Len(s)
      PROVE  SubSeq(s, m, n) \in Seq(S)
  <2>1. \A i \in m .. n : s[i] \in S
    BY <1>1, <1>4
  <2> QED
    BY <1>4, <2>1, SubSeqProperties
<1> QED
  BY <1>1, <1>2, <1>3, <1>4

\* An element taken out and put last: the elements stay the same.
LEMMA Rota ==
    ASSUME NEW S, NEW s \in Seq(S), NEW k \in DOMAIN s
    PROVE  LET r == Append(RemoveAt(s, k), s[k]) IN
           /\ r \in Seq(S)
           /\ \A i \in DOMAIN r : \E j \in DOMAIN s : r[i] = s[j]
<1>0. Len(s) \in Nat /\ DOMAIN s = 1 .. Len(s) /\ k \in 1 .. Len(s) /\ s[k] \in S
  BY SeqTipo
<1> DEFINE a == SubSeq(s, 1, k - 1)
           b == SubSeq(s, k + 1, Len(s))
<1>1. /\ a \in Seq(S) /\ Len(a) = k - 1 /\ DOMAIN a = 1 .. k - 1
      /\ \A i \in 1 .. k - 1 : a[i] = s[i]
  <2>1. \A i \in 1 .. k - 1 : s[i] \in S
    BY <1>0, SeqTipo
  <2> QED
    BY <1>0, <2>1, SubSeqProperties, LenProperties
<1>2. /\ b \in Seq(S) /\ Len(b) = Len(s) - k /\ DOMAIN b = 1 .. Len(s) - k
      /\ \A i \in 1 .. Len(s) - k : b[i] = s[i + k]
  <2>1. \A i \in k + 1 .. Len(s) : s[i] \in S
    BY <1>0, SeqTipo
  <2> QED
    BY <1>0, <2>1, SubSeqProperties, LenProperties, SMTT(60)
<1> HIDE DEF a, b
<1>3. /\ a \o b \in Seq(S) /\ Len(a \o b) = Len(s) - 1
      /\ \A i \in 1 .. Len(s) - 1 :
            (a \o b)[i] = IF i <= k - 1 THEN a[i] ELSE b[i - (k - 1)]
  <2>1. /\ a \o b \in Seq(S) /\ Len(a \o b) = Len(a) + Len(b)
        /\ \A i \in 1 .. Len(a) + Len(b) :
            (a \o b)[i] = IF i <= Len(a) THEN a[i] ELSE b[i - Len(a)]
    BY <1>1, <1>2, ConcatProperties
  <2> QED
    BY <2>1, <1>0, <1>1, <1>2, SMTT(60)
<1>4. \A i \in 1 .. Len(s) - 1 : \E j \in 1 .. Len(s) : (a \o b)[i] = s[j]
  <2> SUFFICES ASSUME NEW i \in 1 .. Len(s) - 1
               PROVE  \E j \in 1 .. Len(s) : (a \o b)[i] = s[j]
    OBVIOUS
  <2>1. CASE i <= k - 1
    <3>1. (a \o b)[i] = s[i] /\ i \in 1 .. Len(s)
      BY <1>0, <1>1, <1>3, <2>1
    <3> QED
      BY <3>1
  <2>2. CASE i > k - 1
    <3> DEFINE d == i - (k - 1)
    <3>1. d \in 1 .. Len(s) - k /\ d + k = i + 1 /\ i + 1 \in 1 .. Len(s)
      BY <1>0, <2>2
    <3>2. (a \o b)[i] = b[d]
      BY <1>0, <1>3, <2>2
    <3>3. b[d] = s[d + k]
      <4> HIDE DEF d
      <4> QED
        BY <1>2, <3>1
    <3> QED
      BY <3>1, <3>2, <3>3
  <2>3. i <= k - 1 \/ i > k - 1
    BY <1>0
  <2> QED
    BY <2>1, <2>2, <2>3
<1> DEFINE c == a \o b
<1>5. RemoveAt(s, k) = c
  BY DEF RemoveAt, a, b
<1>6. c \in Seq(S) /\ Len(c) = Len(s) - 1 /\ \A i \in 1 .. Len(s) - 1 : \E j \in 1 .. Len(s) : c[i] = s[j]
  BY <1>3, <1>4
<1> HIDE DEF c
<1> DEFINE x == s[k]
           r == Append(c, x)
<1>7. x \in S
  BY <1>0
<1>8. c \in Seq(S)
  BY <1>6
<1> HIDE DEF x
<1>9. /\ r \in Seq(S) /\ Len(r) = Len(c) + 1
      /\ \A i \in 1 .. Len(c) : r[i] = c[i]
      /\ r[Len(c) + 1] = x
  BY <1>7, <1>8, AppendProperties
<1> HIDE DEF r
<1>10. DOMAIN r = 1 .. Len(s) /\ Len(c) = Len(s) - 1
  BY <1>0, <1>6, <1>9, LenProperties
<1>11. ASSUME NEW i \in DOMAIN r
       PROVE  \E j \in DOMAIN s : r[i] = s[j]
  <2>1. CASE i = Len(s)
    BY <2>1, <1>0, <1>9, <1>10 DEF x
  <2>2. CASE i \in 1 .. Len(s) - 1
    BY <2>2, <1>0, <1>6, <1>9, <1>10
  <2> QED
    BY <2>1, <2>2, <1>0, <1>10, <1>11
<1>12. r = Append(RemoveAt(s, k), s[k])
  BY <1>5 DEF r, x
<1> QED
  BY <1>9, <1>11, <1>12

\* A process leaves the CPU.
LEMMA DevuelveTipo ==
    ASSUME TipoInv, pcb \in Pids, NEW destino \in {"listo", "fin", "io"},
           Devuelve(destino)
    PROVE  /\ cpu' = "libre" /\ pcb' = Nadie /\ frames' = <<>> /\ por_traducir' = <<>>
           /\ instruccion' = ""
           /\ proc' = [proc EXCEPT ![pcb] = destino]
           /\ por_traducir' \in Seq(Accesos) /\ frames' \in Seq(Traducidos)
           /\ proc' \in [Pids -> {"no", "listo", "cpu", "io", "sirviendo", "fin"}]
BY EmptySeq DEF Devuelve, TipoInv

\* The pages of an instruction.
LEMMA TramoTipo ==
    ASSUME NEW k \in Nat, NEW n \in Nat, NEW b \in BOOLEAN
    PROVE  Tramo(k, n, b) \in Seq(Accesos)
<1>1. \A i \in 1 .. n : k + i - 1 \in Nat
  OBVIOUS
<1>2. \A i \in 1 .. n : [page |-> k + i - 1, escribe |-> b] \in Accesos
  BY <1>1 DEF Accesos
<1>3. Tramo(k, n, b) \in [1 .. n -> Accesos]
  BY <1>2 DEF Tramo
<1> QED
  BY <1>3

\* A page that got its frame.
LEMMA TraduceTipo ==
    ASSUME TipoInv, por_traducir # <<>>, NEW m \in Marcos, Traduce(Head(por_traducir), m)
    PROVE  /\ por_traducir' \in Seq(Accesos) /\ frames' \in Seq(Traducidos)
           /\ Head(por_traducir) \in Accesos
           /\ Len(frames') = Len(frames) + 1
           /\ \A i \in 1 .. Len(frames) : frames'[i] = frames[i]
           /\ frames'[Len(frames) + 1] =
                [page |-> Head(por_traducir).page, escribe |-> Head(por_traducir).escribe,
                 frame |-> m]
<1> DEFINE a == Head(por_traducir)
           f == [page |-> a.page, escribe |-> a.escribe, frame |-> m]
<1>1. a \in Accesos /\ Tail(por_traducir) \in Seq(Accesos)
  BY SeqTipo DEF TipoInv
<1>2. f \in Traducidos
  BY <1>1 DEF Accesos, Traducidos
<1>3. por_traducir' = Tail(por_traducir) /\ frames' = Append(frames, f)
  BY DEF Traduce
<1>4. frames \in Seq(Traducidos)
  BY DEF TipoInv
<1> HIDE DEF f, a
<1>5. /\ Append(frames, f) \in Seq(Traducidos)
      /\ Len(Append(frames, f)) = Len(frames) + 1
      /\ \A i \in 1 .. Len(frames) : Append(frames, f)[i] = frames[i]
      /\ Append(frames, f)[Len(frames) + 1] = f
  BY <1>2, <1>4, AppendProperties
<1> QED
  BY <1>1, <1>3, <1>5 DEF f, a

\* add_tlb: the entries that stay, and the new one.
LEMMA AddTlb ==
    ASSUME TipoInv, NEW p \in Pids, NEW k \in Nat, NEW m \in Marcos
    PROVE  LET e == [pid |-> p, page |-> k, frame |-> m, valid |-> TRUE]
               r == add_tlb(p, k, m) IN
           /\ r \in Seq(Entradas)
           /\ \A i \in DOMAIN r : r[i] = e \/ \E j \in DOMAIN tlb_queue : r[i] = tlb_queue[j]
<1> DEFINE e == [pid |-> p, page |-> k, frame |-> m, valid |-> TRUE]
           r == add_tlb(p, k, m)
<1>1. e \in Entradas /\ tlb_queue \in Seq(Entradas)
  BY DEF Entradas, TipoInv
<1>2. Len(tlb_queue) \in Nat /\ DOMAIN tlb_queue = 1 .. Len(tlb_queue)
  BY <1>1, SeqTipo
<1>3. r = tlb_queue \/ r = Append(tlb_queue, e)
        \/ (tlb_queue # <<>> /\ r = Append(Tail(tlb_queue), e))
  <2>1. CASE NumeroEntradas = 0
    BY <2>1 DEF add_tlb
  <2>2. CASE NumeroEntradas # 0 /\ Len(tlb_queue) = NumeroEntradas
    <3>1. tlb_queue # <<>>
      BY <2>2
    <3> QED
      BY <2>2, <3>1 DEF add_tlb
  <2>3. CASE NumeroEntradas # 0 /\ Len(tlb_queue) # NumeroEntradas
    BY <2>3 DEF add_tlb
  <2> QED
    BY <2>1, <2>2, <2>3
<1> HIDE DEF e, r
<1>4. ASSUME NEW q \in Seq(Entradas),
             \A i \in DOMAIN q : \E j \in DOMAIN tlb_queue : q[i] = tlb_queue[j],
             r = Append(q, e)
      PROVE  /\ r \in Seq(Entradas)
             /\ \A i \in DOMAIN r : r[i] = e \/ \E j \in DOMAIN tlb_queue : r[i] = tlb_queue[j]
  <2>1. /\ r \in Seq(Entradas) /\ Len(r) = Len(q) + 1
        /\ \A i \in 1 .. Len(q) : r[i] = q[i]
        /\ r[Len(q) + 1] = e
    BY <1>1, <1>4, AppendProperties
  <2>2. Len(q) \in Nat /\ DOMAIN q = 1 .. Len(q) /\ DOMAIN r = 1 .. Len(q) + 1
    BY <2>1, SeqTipo
  <2>3. ASSUME NEW i \in DOMAIN r
        PROVE  r[i] = e \/ \E j \in DOMAIN tlb_queue : r[i] = tlb_queue[j]
    <3>1. CASE i = Len(q) + 1
      BY <2>1, <3>1
    <3>2. CASE i \in 1 .. Len(q)
      BY <1>4, <2>1, <2>2, <3>2
    <3> QED
      BY <2>2, <2>3, <3>1, <3>2
  <2> QED
    BY <2>1, <2>3
<1>5. tlb_queue # <<>> =>
        /\ Tail(tlb_queue) \in Seq(Entradas)
        /\ \A i \in DOMAIN Tail(tlb_queue) :
                \E j \in DOMAIN tlb_queue : Tail(tlb_queue)[i] = tlb_queue[j]
  <2> SUFFICES ASSUME tlb_queue # <<>>
               PROVE  /\ Tail(tlb_queue) \in Seq(Entradas)
                      /\ \A i \in DOMAIN Tail(tlb_queue) :
                            \E j \in DOMAIN tlb_queue : Tail(tlb_queue)[i] = tlb_queue[j]
    OBVIOUS
  <2>1. /\ Tail(tlb_queue) \in Seq(Entradas) /\ Len(Tail(tlb_queue)) = Len(tlb_queue) - 1
        /\ \A i \in 1 .. Len(Tail(tlb_queue)) : Tail(tlb_queue)[i] = tlb_queue[i + 1]
    BY <1>1, HeadTailProperties
  <2>2. DOMAIN Tail(tlb_queue) = 1 .. Len(tlb_queue) - 1
    BY <2>1, LenProperties
  <2>3. \A i \in 1 .. Len(tlb_queue) - 1 : i + 1 \in 1 .. Len(tlb_queue)
    BY <1>2
  <2> QED
    BY <1>2, <2>1, <2>2, <2>3
<1>6. \A i \in DOMAIN tlb_queue : \E j \in DOMAIN tlb_queue : tlb_queue[i] = tlb_queue[j]
  OBVIOUS
<1>7. /\ r \in Seq(Entradas)
      /\ \A i \in DOMAIN r : r[i] = e \/ \E j \in DOMAIN tlb_queue : r[i] = tlb_queue[j]
  BY <1>1, <1>3, <1>4, <1>5, <1>6
<1> QED
  BY <1>7 DEF e, r

\* The tables hold frames.
LEMMA PaginaEsMarco ==
    ASSUME TablasOK, NEW p \in Pids, NEW k \in Nat, k < Len(pages[p])
    PROVE  pages[p][k + 1] \in Marcos
<1>1. Len(pages[p]) \in Nat /\ \A i \in 1 .. Len(pages[p]) : pages[p][i] \in Marcos
  BY TablaDefinida
<1>2. k + 1 \in 1 .. Len(pages[p])
  BY <1>1
<1> QED
  BY <1>1, <1>2

\* RESIZE to more pages: the table grows at its end, with frames whose bits
\* are set.
LEMMA ResizeUpPrefijo ==
    ASSUME TablasOK, NEW p \in Pids, NEW n \in Nat, resize_up(p, n)
    PROVE  /\ \A q \in Pids : /\ Len(pages'[q]) \in Nat /\ Len(pages[q]) <= Len(pages'[q])
                              /\ DOMAIN pages'[q] = 1 .. Len(pages'[q])
                              /\ \A k \in 1 .. Len(pages[q]) : pages'[q][k] = pages[q][k]
           /\ \A m \in bit_map' : m \in bit_map
                    \/ \E k \in DOMAIN pages'[p] : pages'[p][k] = m
<1> DEFINE libres == Marcos \ bit_map
           dados == IF n <= Cardinality(libres) THEN n ELSE Cardinality(libres)
<1>1. PICK s \in Primeros(libres, dados) :
            /\ pages' = [pages EXCEPT ![p] = @ \o s]
            /\ bit_map' = bit_map \cup Range(s)
  BY DEF resize_up
<1>2. dados \in Nat
  <2>1. IsFiniteSet(Marcos)
    BY FS_Interval, MemoriaAssumption DEF Marcos
  <2>2. IsFiniteSet(libres)
    BY <2>1, FS_Subset
  <2> QED
    BY <2>2, FS_CardinalityType
<1>3. s \in [1 .. dados -> libres]
  BY DEF Primeros
<1> HIDE DEF dados
<1>4. s \in Seq(Marcos) /\ DOMAIN s = 1 .. dados /\ Len(s) = dados
  <2>1. s \in [1 .. dados -> Marcos]
    BY <1>3
  <2> QED
    BY <1>2, <2>1
<1>5. pages[p] \in Seq(Marcos) /\ Len(pages[p]) \in Nat
  BY TablaDefinida DEF TablasOK
<1> DEFINE r == pages[p] \o s
           u == Len(pages[p])
<1>6. /\ r \in Seq(Marcos) /\ Len(r) = u + dados
      /\ \A i \in 1 .. u + dados : r[i] = IF i <= u THEN pages[p][i] ELSE s[i - u]
  <2>1. Len(s) = dados
    BY <1>4
  <2>2. /\ r \in Seq(Marcos) /\ Len(r) = Len(pages[p]) + Len(s)
        /\ \A i \in 1 .. Len(pages[p]) + Len(s) :
                r[i] = IF i <= Len(pages[p]) THEN pages[p][i] ELSE s[i - Len(pages[p])]
    BY <1>4, <1>5, ConcatProperties
  <2> QED
    BY <2>1, <2>2
<1>7. DOMAIN r = 1 .. u + dados
  BY <1>6, LenProperties
<1>8. pages'[p] = r /\ \A q \in Pids : q # p => pages'[q] = pages[q]
  BY <1>1 DEF TablasOK
<1> HIDE DEF r
<1>9. \A q \in Pids : /\ Len(pages'[q]) \in Nat /\ Len(pages[q]) <= Len(pages'[q])
                      /\ DOMAIN pages'[q] = 1 .. Len(pages'[q])
                      /\ \A k \in 1 .. Len(pages[q]) : pages'[q][k] = pages[q][k]
  <2>1. ASSUME NEW q \in Pids, q # p
        PROVE  /\ Len(pages'[q]) \in Nat /\ Len(pages[q]) <= Len(pages'[q])
               /\ DOMAIN pages'[q] = 1 .. Len(pages'[q])
               /\ \A k \in 1 .. Len(pages[q]) : pages'[q][k] = pages[q][k]
    <3>1. pages'[q] = pages[q] /\ Len(pages[q]) \in Nat
          /\ DOMAIN pages[q] = 1 .. Len(pages[q])
      BY <1>8, <2>1, TablaDefinida
    <3> QED
      BY <3>1
  <2>2. /\ Len(pages'[p]) \in Nat /\ Len(pages[p]) <= Len(pages'[p])
        /\ DOMAIN pages'[p] = 1 .. Len(pages'[p])
        /\ \A k \in 1 .. Len(pages[p]) : pages'[p][k] = pages[p][k]
    BY <1>2, <1>5, <1>6, <1>7, <1>8
  <2> QED
    BY <2>1, <2>2
<1>10. ASSUME NEW m \in bit_map', m \notin bit_map
       PROVE  \E k \in DOMAIN pages'[p] : pages'[p][k] = m
  <2>1. PICK i \in 1 .. dados : s[i] = m
    BY <1>1, <1>4, <1>10 DEF Range
  <2>2. u + i \in 1 .. u + dados /\ ~(u + i <= u) /\ (u + i) - u = i
    BY <1>2, <1>5
  <2>3. r[u + i] = s[i]
    <3> DEFINE d == u + i
    <3>1. d \in 1 .. u + dados /\ ~(d <= u) /\ d - u = i
      BY <2>2
    <3> HIDE DEF d, u
    <3>2. r[d] = s[i]
      BY <1>6, <3>1
    <3> QED
      BY <3>2 DEF d
  <2> QED
    BY <1>7, <1>8, <2>1, <2>2, <2>3
<1> QED
  BY <1>9, <1>10

\* Every step keeps the types.
LEMMA TipoPaso ==
    ASSUME CohInv, Next
    PROVE  TipoInv'
<1>0. TipoInv /\ TablasOK /\ (cpu # "libre" => pcb \in Pids)
  BY DEF CohInv, MarcosInv, TablasInv, CpuInv
<1>1. CASE Desaloja
  <2>1. PICK destino \in {"listo", "fin"} : Devuelve(destino)
    BY <1>1 DEF Desaloja
  <2> QED
    BY <1>0, <1>1, <2>1, DevuelveTipo DEF Desaloja, TipoInv, memVars
<1>2. CASE ResizeSube
  <2>1. UNCHANGED <<usuario, tlb_queue, io_frames, escrito>>
    BY <1>2 DEF ResizeSube, resize_up
  <2>2. CASE Len(pages'[pcb]) = pedido
    BY <1>0, <1>2, <2>1, <2>2 DEF ResizeSube, TipoInv
  <2>3. CASE Len(pages'[pcb]) # pedido
    BY <1>0, <1>2, <2>1, <2>3, DevuelveTipo DEF ResizeSube, TipoInv
  <2> QED
    BY <2>2, <2>3
<1>3. CASE ResizeIgual \/ ResizeBaja \/ ResizeResponde
  BY <1>0, <1>3 DEF ResizeIgual, ResizeBaja, ResizeResponde, TerminaBaja, TipoInv,
                    memVars, kernelVars
<1>4. ASSUME NEW n \in 0 .. MaxPaginas, ResizePide(n)
      PROVE  TipoInv'
  <2>1. tlb_queue \in Seq(Entradas)
    BY <1>0 DEF TipoInv
  <2>2. Len(tlb_queue) \in Nat /\ DOMAIN tlb_queue = 1 .. Len(tlb_queue)
        /\ \A i \in DOMAIN tlb_queue : tlb_queue[i] \in Entradas
    BY <2>1, SeqTipo
  <2>3. tlb_queue' = modify_tlb_on_resize(n, pcb)
    BY <1>4 DEF ResizePide
  <2>4. tlb_queue' \in [1 .. Len(tlb_queue) -> Entradas]
    <3>1. ASSUME NEW i \in DOMAIN tlb_queue
          PROVE  [tlb_queue[i] EXCEPT !.valid = @ /\ ~(/\ tlb_queue[i].pid = pcb
                                              /\ tlb_queue[i].page > n - 1)] \in Entradas
      <4> DEFINE v == tlb_queue[i].valid /\ ~(/\ tlb_queue[i].pid = pcb
                                              /\ tlb_queue[i].page > n - 1)
      <4>1. v \in BOOLEAN
        OBVIOUS
      <4> HIDE DEF v
      <4>2. tlb_queue[i] \in Entradas
        BY <2>2
      <4>3. [tlb_queue[i] EXCEPT !.valid = v] \in Entradas
        BY <4>1, <4>2 DEF Entradas
      <4> QED
        BY <4>3 DEF v
    <3> QED
      BY <2>2, <2>3, <3>1 DEF modify_tlb_on_resize
  <2>5. tlb_queue' \in Seq(Entradas)
    BY <2>2, <2>4
  <2> QED
    BY <1>0, <1>4, <2>5 DEF ResizePide, TipoInv, memVars, kernelVars
<1>5. CASE Instruccion
  <2>0. /\ \A k \in Nat, n \in Nat, b \in BOOLEAN : Tramo(k, n, b) \in Seq(Accesos)
        /\ \A s, t \in Seq(Accesos) : s \o t \in Seq(Accesos)
        /\ 0 .. MaxPaginas \subseteq Nat /\ 1 .. MaxTramo \subseteq Nat
    BY TramoTipo, ConcatProperties, MmuAssumption
  <2>1. PICK nombre \in {"mov", "io", "copy_string"}, paginas \in Seq(Accesos) :
            Empieza(nombre, paginas)
    BY <1>5, <2>0 DEF Instruccion
  <2> QED
    BY <1>0, <2>1, EmptySeq DEF Empieza, TipoInv, memVars, kernelVars
<1>6. CASE TlbHit
  <2>1. PICK i \in DOMAIN tlb_queue :
            /\ tlb_queue' = IF EsLRU THEN Append(RemoveAt(tlb_queue, i), tlb_queue[i])
                                     ELSE tlb_queue
            /\ Traduce(Head(por_traducir), tlb_queue[i].frame)
    BY <1>6 DEF TlbHit
  <2>2. tlb_queue[i].frame \in Marcos
    <3>1. tlb_queue \in Seq(Entradas)
      BY <1>0 DEF TipoInv
    <3>2. tlb_queue[i] \in Entradas
      BY <3>1, SeqTipo
    <3> QED
      BY <3>2 DEF Entradas
  <2>3. por_traducir' \in Seq(Accesos) /\ frames' \in Seq(Traducidos)
    BY <1>0, <1>6, <2>1, <2>2, TraduceTipo DEF TlbHit
  <2>4. tlb_queue' \in Seq(Entradas)
    BY <1>0, <2>1, Rota DEF TipoInv
  <2> QED
    BY <1>0, <2>1, <2>3, <2>4 DEF Traduce, TipoInv, memVars, kernelVars
<1>7. CASE Consulta
  <2> DEFINE a == Head(por_traducir)
             m == pages[pcb][a.page + 1]
  <2>1. por_traducir # <<>> /\ pcb \in Pids /\ a.page < Len(pages[pcb])
        /\ tlb_queue' = add_tlb(pcb, a.page, m) /\ Traduce(a, m)
    BY <1>0, <1>7 DEF Consulta, TlbMiss
  <2>2. a.page \in Nat
    <3>1. por_traducir \in Seq(Accesos)
      BY <1>0 DEF TipoInv
    <3>2. a \in Accesos
      BY <2>1, <3>1, SeqTipo
    <3> QED
      BY <3>2 DEF Accesos
  <2>3. m \in Marcos
    BY <1>0, <2>1, <2>2, PaginaEsMarco
  <2>4. por_traducir' \in Seq(Accesos) /\ frames' \in Seq(Traducidos)
    BY <1>0, <2>1, <2>3, TraduceTipo
  <2>5. tlb_queue' \in Seq(Entradas)
    BY <1>0, <2>1, <2>2, <2>3, AddTlb
  <2> QED
    BY <1>0, <2>1, <2>4, <2>5 DEF Traduce, TipoInv, memVars, kernelVars
<1>8. CASE ConsultaFalla
  <2>1. CASE instruccion = "copy_string" /\ ~Head(por_traducir).escribe
    <3>1. PICK i \in 1 .. Len(por_traducir) + 1 :
                por_traducir' = SubSeq(por_traducir, i, Len(por_traducir))
      BY <1>8, <2>1 DEF ConsultaFalla
    <3>2. por_traducir' \in Seq(Accesos)
      <4>1. por_traducir \in Seq(Accesos)
        BY <1>0 DEF TipoInv
      <4> QED
        BY <3>1, <4>1, SeqTipo
    <3> QED
      BY <1>0, <1>8, <2>1, <3>2 DEF ConsultaFalla, TipoInv, memVars
  <2>2. CASE ~(instruccion = "copy_string" /\ ~Head(por_traducir).escribe)
    <3>1. Devuelve("fin") /\ pcb \in Pids
      BY <1>0, <1>8, <2>2 DEF ConsultaFalla, TlbMiss
    <3> QED
      BY <1>0, <1>8, <3>1, DevuelveTipo DEF ConsultaFalla, TipoInv, memVars
  <2> QED
    BY <2>1, <2>2
<1>9. CASE Traducido
  <2>1. CASE instruccion = "io"
    <3>1. Devuelve("io") /\ pcb \in Pids /\ io_frames' = [io_frames EXCEPT ![pcb] = frames]
      BY <1>0, <1>9, <2>1 DEF Traducido
    <3> QED
      BY <1>0, <1>9, <3>1, DevuelveTipo DEF Traducido, TipoInv, memVars
  <2>2. CASE instruccion # "io"
    BY <1>0, <1>9, <2>2 DEF Traducido, TipoInv, memVars
  <2> QED
    BY <2>1, <2>2
<1>10. ASSUME NEW p \in Pids, NEW f \in Traducidos, Accede(p, f)
       PROVE  /\ usuario' \in [Marcos -> (Pids \cup {Nadie}) \X Nat]
              /\ escrito' \in [Pids -> SUBSET Nat]
  BY <1>0, <1>10 DEF Accede, accede_memoria, TipoInv, Traducidos
<1>11. CASE AccedeCpu
  <2>1. Head(frames) \in Traducidos /\ Tail(frames) \in Seq(Traducidos) /\ pcb \in Pids
    BY <1>0, <1>11, SeqTipo DEF AccedeCpu, TipoInv
  <2> QED
    BY <1>0, <1>10, <1>11, <2>1 DEF AccedeCpu, TipoInv
<1>12. CASE FinInstruccion
  BY <1>0, <1>12 DEF FinInstruccion, TipoInv, memVars, kernelVars
<1>13. CASE TerminaLibera
  BY <1>0, <1>13 DEF TerminaLibera, TerminaBaja, TipoInv, cpuVars, kernelVars
<1>14. ASSUME NEW h \in Hilos, Quita(h) \/ Limpia(h)
       PROVE  TipoInv'
  <2>1. CASE Quita(h)
    <3>1. escrito' \in [Pids -> SUBSET Nat]
      BY <1>0, <2>1 DEF Quita, TipoInv
    <3> QED
      BY <1>0, <2>1, <3>1 DEF Quita, QuitaPagina, TipoInv, cpuVars
  <2>2. CASE Limpia(h)
    BY <1>0, <2>2 DEF Limpia, LimpiaBit, TipoInv, cpuVars, kernelVars
  <2> QED
    BY <1>14, <2>1, <2>2
<1>15. ASSUME NEW p \in Pids, CreaProceso(p) \/ Despacha(p) \/ Finaliza(p) \/ Libera(p)
                              \/ IoSirve(p) \/ IoTermina(p)
       PROVE  TipoInv'
  <2>1. CASE CreaProceso(p)
    BY <1>0, <2>1 DEF CreaProceso, leer_archivo, TipoInv, cpuVars
  <2>2. CASE Despacha(p)
    BY <1>0, <2>2 DEF Despacha, TipoInv, memVars
  <2>3. CASE Libera(p)
    BY <1>0, <2>3 DEF Libera, liberar_memoria, TipoInv, cpuVars
  <2>4. CASE Finaliza(p)
    BY <1>0, <2>4, EmptySeq DEF Finaliza, TipoInv, memVars, cpuVars
  <2>5. CASE IoSirve(p)
    BY <1>0, <2>5 DEF IoSirve, TipoInv, memVars, cpuVars
  <2>6. CASE IoTermina(p)
    <3>1. PICK destino \in {"listo", "fin"} : proc' = [proc EXCEPT ![p] = destino]
      BY <2>6 DEF IoTermina
    <3>2. io_frames' = [io_frames EXCEPT ![p] = <<>>]
          /\ UNCHANGED <<memVars, cpuVars, escrito>>
      BY <2>6 DEF IoTermina
    <3> QED
      BY <1>0, <3>1, <3>2, EmptySeq DEF TipoInv, memVars, cpuVars
  <2> QED
    BY <1>15, <2>1, <2>2, <2>3, <2>4, <2>5, <2>6
<1>16. ASSUME NEW p \in Pids, AccedeIo(p)
       PROVE  TipoInv'
  <2>0. io_frames[p] \in Seq(Traducidos)
    BY <1>0 DEF TipoInv
  <2>1. Head(io_frames[p]) \in Traducidos /\ Tail(io_frames[p]) \in Seq(Traducidos)
    BY <1>16, <2>0, SeqTipo DEF AccedeIo
  <2> QED
    BY <1>0, <1>10, <1>16, <2>1 DEF AccedeIo, TipoInv, cpuVars
<1> QED
  BY <1>1, <1>2, <1>3, <1>4, <1>5, <1>6, <1>7, <1>8, <1>9, <1>11, <1>12, <1>13,
     <1>14, <1>15, <1>16 DEF Next

-----------------------------------------------------------------------------
(* Who is where.                                                           *)

\* A process moves, and nothing else that RolInv speaks of but the CPU.
LEMMA RolMueve ==
    ASSUME TipoInv, RolInv, TablasOK, NEW p \in Pids,
           NEW destino \in {"listo", "fin", "io", "sirviendo"},
           proc' = [proc EXCEPT ![p] = destino], proc[p] \notin {"no", "fin"},
           UNCHANGED <<memoria_procesos, baja, tlb_queue>>,
           \A q \in Pids : proc[q] = "no" => pages'[q] = pages[q],
           \A q \in Pids : io_frames'[q] # <<>> =>
                \/ q # p /\ io_frames[q] # <<>>
                \/ q = p /\ destino \in {"io", "sirviendo"},
           \/ proc[p] # "cpu" /\ UNCHANGED <<cpu, pcb, frames>>
           \/ proc[p] = "cpu" /\ cpu # "baja" /\ cpu' = "libre" /\ pcb' = Nadie
              /\ frames' = <<>>
    PROVE  RolInv'
<1>1. \A q \in Pids : proc'[q] = IF q = p THEN destino ELSE proc[q]
  BY DEF TipoInv
<1>2. /\ baja["kernel"] \in Pids \cup {Nadie} /\ pcb \in Pids \cup {Nadie}
      /\ Nadie \notin Pids
      /\ \A i \in DOMAIN tlb_queue : tlb_queue[i].pid \in Pids
  <2>1. \A i \in DOMAIN tlb_queue : tlb_queue[i] \in Entradas
    BY SeqTipo DEF TipoInv
  <2> QED
    BY <2>1, MemoriaAssumption DEF TipoInv, TablasOK, Hilos, Entradas
<1>3. p \in memoria_procesos
  BY DEF RolInv, TipoInv
<1>4. baja["kernel"] # p
  BY <1>3, <1>2 DEF RolInv
<1>5. /\ cpu' = "libre" => pcb' = Nadie
      /\ pcb' # Nadie => proc'[pcb'] = "cpu"
      /\ \A q \in Pids : proc'[q] = "cpu" => pcb' = q
      /\ frames' # <<>> => cpu' \in {"traduce", "accede"}
  BY <1>1, <1>2 DEF RolInv
<1>6. /\ \A q \in Pids : proc'[q] = "no" => q \notin memoria_procesos' /\ pages'[q] = <<>>
      /\ \A q \in Pids : proc'[q] \in {"listo", "cpu", "io", "sirviendo"} =>
                q \in memoria_procesos'
      /\ \A q \in Pids : io_frames'[q] # <<>> => proc'[q] \in {"io", "sirviendo"}
  BY <1>1, <1>3 DEF RolInv
<1>7. /\ baja'["kernel"] # Nadie =>
            proc'[baja'["kernel"]] = "fin" /\ baja'["kernel"] \notin memoria_procesos'
      /\ baja'["cpu"] = IF cpu' = "baja" THEN pcb' ELSE Nadie
  BY <1>1, <1>2, <1>4 DEF RolInv
<1>8. \A i \in DOMAIN tlb_queue' : proc'[tlb_queue'[i].pid] # "no"
  BY <1>1, <1>2 DEF RolInv
<1> QED
  BY <1>5, <1>6, <1>7, <1>8 DEF RolInv

\* The CPU goes on with the same process.
LEMMA RolSigue ==
    ASSUME TipoInv, RolInv, UNCHANGED <<proc, pcb, memoria_procesos, io_frames>>,
           \A q \in Pids : proc[q] = "no" => pages'[q] = pages[q],
           cpu # "libre", cpu' # "libre", frames' # <<>> => cpu' \in {"traduce", "accede"},
           baja'["kernel"] = baja["kernel"],
           baja'["cpu"] = IF cpu' = "baja" THEN pcb ELSE Nadie,
           \A i \in DOMAIN tlb_queue' :
                \/ tlb_queue'[i].pid = pcb /\ pcb # Nadie
                \/ \E j \in DOMAIN tlb_queue : tlb_queue'[i].pid = tlb_queue[j].pid
    PROVE  RolInv'
<1>1. /\ cpu' = "libre" => pcb' = Nadie
      /\ pcb' # Nadie => proc'[pcb'] = "cpu"
      /\ \A q \in Pids : proc'[q] = "cpu" => pcb' = q
      /\ frames' # <<>> => cpu' \in {"traduce", "accede"}
  BY DEF RolInv
<1>2. /\ \A q \in Pids : proc'[q] = "no" => q \notin memoria_procesos' /\ pages'[q] = <<>>
      /\ \A q \in Pids : proc'[q] \in {"listo", "cpu", "io", "sirviendo"} =>
                q \in memoria_procesos'
      /\ \A q \in Pids : io_frames'[q] # <<>> => proc'[q] \in {"io", "sirviendo"}
  BY DEF RolInv
<1>3. /\ baja'["kernel"] # Nadie =>
            proc'[baja'["kernel"]] = "fin" /\ baja'["kernel"] \notin memoria_procesos'
      /\ baja'["cpu"] = IF cpu' = "baja" THEN pcb' ELSE Nadie
  BY DEF RolInv
<1>4. \A i \in DOMAIN tlb_queue' : proc'[tlb_queue'[i].pid] # "no"
  BY DEF RolInv
<1> QED
  BY <1>1, <1>2, <1>3, <1>4 DEF RolInv

\* Every step keeps who is where.
LEMMA RolPaso ==
    ASSUME CohInv, Next
    PROVE  RolInv'
<1>0. /\ TipoInv /\ RolInv /\ TablasOK /\ TablasInv
      /\ (cpu # "libre" => pcb \in Pids /\ pcb # Nadie /\ proc[pcb] = "cpu")
      /\ (cpu # "baja" => baja["cpu"] = Nadie)
  BY MemoriaAssumption DEF CohInv, MarcosInv, TablasInv, CpuInv, RolInv
<1>a. \A i \in DOMAIN tlb_queue : \E j \in DOMAIN tlb_queue : tlb_queue[i].pid = tlb_queue[j].pid
  OBVIOUS
<1>b. cpu # "libre" => io_frames[pcb] = <<>>
  BY <1>0 DEF RolInv
<1>1. CASE Desaloja
  <2>1. PICK destino \in {"listo", "fin"} : Devuelve(destino)
    BY <1>1 DEF Desaloja
  <2>2. /\ pcb \in Pids /\ proc[pcb] = "cpu" /\ cpu # "baja"
        /\ UNCHANGED <<memoria_procesos, pages, baja, tlb_queue, io_frames>>
    BY <1>0, <1>1 DEF Desaloja, memVars, bajaVars
  <2>3. cpu' = "libre" /\ pcb' = Nadie /\ frames' = <<>> /\ proc' = [proc EXCEPT ![pcb] = destino]
    BY <2>1 DEF Devuelve
  <2> QED
    BY <1>0, <1>1, <1>b, <2>1, <2>2, <2>3, RolMueve DEF Desaloja
<1>2. CASE ResizeSube
  <2>1. /\ pcb \in Pids /\ cpu = "resize"
        /\ UNCHANGED <<memoria_procesos, baja, tlb_queue, io_frames>>
    BY <1>0, <1>2 DEF ResizeSube, resize_up, bajaVars
  <2>2. \A q \in Pids : proc[q] = "no" => pages'[q] = pages[q]
    BY <1>0, <1>2 DEF ResizeSube, resize_up, TablasOK
  <2>3. CASE Len(pages'[pcb]) = pedido
    <3>1. cpu' = "instruccion" /\ UNCHANGED <<pcb, proc, frames>> /\ frames = <<>>
      BY <1>0, <1>2, <2>3 DEF ResizeSube, RolInv
    <3> QED
      BY <1>0, <1>a, <2>1, <2>2, <3>1, RolSigue
  <2>4. CASE Len(pages'[pcb]) # pedido
    <3>1. cpu' = "libre" /\ pcb' = Nadie /\ frames' = <<>>
          /\ proc' = [proc EXCEPT ![pcb] = "fin"]
      BY <1>2, <2>4 DEF ResizeSube, Devuelve
    <3> QED
      BY <1>0, <1>b, <2>1, <2>2, <3>1, RolMueve
  <2> QED
    BY <2>3, <2>4
<1>3. CASE ResizeIgual
  <2>1. /\ UNCHANGED <<proc, pcb, memoria_procesos, io_frames, pages, baja, tlb_queue, frames>>
        /\ cpu = "resize" /\ cpu' = "instruccion"
    BY <1>3 DEF ResizeIgual, memVars, bajaVars, kernelVars
  <2>2. frames = <<>>
    BY <1>0, <2>1 DEF RolInv
  <2> QED
    BY <1>0, <1>a, <2>1, <2>2, RolSigue
<1>4. CASE ResizeBaja
  <2>1. /\ UNCHANGED <<proc, pcb, memoria_procesos, io_frames, pages, tlb_queue, frames>>
        /\ cpu = "resize" /\ cpu' = "baja" /\ baja' = [baja EXCEPT !["cpu"] = pcb]
    BY <1>4 DEF ResizeBaja, EmpiezaBaja, kernelVars
  <2>2. frames = <<>> /\ baja'["kernel"] = baja["kernel"] /\ baja'["cpu"] = pcb
    BY <1>0, <2>1 DEF RolInv, TablasOK, Hilos
  <2> QED
    BY <1>0, <1>a, <2>1, <2>2, RolSigue
<1>5. CASE ResizeResponde
  <2>1. /\ UNCHANGED <<proc, pcb, memoria_procesos, io_frames, pages, tlb_queue, frames>>
        /\ cpu = "baja" /\ cpu' = "instruccion" /\ baja' = [baja EXCEPT !["cpu"] = Nadie]
    BY <1>5 DEF ResizeResponde, TerminaBaja, kernelVars
  <2>2. frames = <<>> /\ baja'["kernel"] = baja["kernel"] /\ baja'["cpu"] = Nadie
    BY <1>0, <2>1 DEF RolInv, TablasOK, Hilos
  <2> QED
    BY <1>0, <1>a, <2>1, <2>2, RolSigue
<1>6. ASSUME NEW n \in 0 .. MaxPaginas, ResizePide(n)
      PROVE  RolInv'
  <2>1. /\ UNCHANGED <<proc, pcb, memoria_procesos, io_frames, pages, baja, frames>>
        /\ cpu = "instruccion" /\ cpu' = "resize" /\ tlb_queue' = modify_tlb_on_resize(n, pcb)
    BY <1>6 DEF ResizePide, memVars, bajaVars, kernelVars
  <2>2. frames = <<>>
    BY <1>0, <2>1 DEF RolInv
  <2>3. \A i \in DOMAIN tlb_queue' : i \in DOMAIN tlb_queue /\ tlb_queue'[i].pid = tlb_queue[i].pid
    <3>1. \A i \in DOMAIN tlb_queue : tlb_queue[i] \in Entradas
      BY <1>0, SeqTipo DEF TipoInv
    <3> QED
      BY <2>1, <3>1 DEF modify_tlb_on_resize, Entradas
  <2> QED
    BY <1>0, <2>1, <2>2, <2>3, RolSigue
<1>7. CASE Instruccion
  <2>1. PICK nombre, paginas : Empieza(nombre, paginas)
    BY <1>7 DEF Instruccion
  <2>2. /\ UNCHANGED <<proc, pcb, memoria_procesos, io_frames, pages, baja, tlb_queue>>
        /\ cpu = "instruccion" /\ cpu' = "traduce"
    BY <2>1 DEF Empieza, memVars, bajaVars, kernelVars
  <2> QED
    BY <1>0, <1>a, <2>2, RolSigue
<1>8. CASE TlbHit
  <2>1. PICK i \in DOMAIN tlb_queue :
            /\ tlb_queue' = IF EsLRU THEN Append(RemoveAt(tlb_queue, i), tlb_queue[i])
                                     ELSE tlb_queue
            /\ Traduce(Head(por_traducir), tlb_queue[i].frame)
    BY <1>8 DEF TlbHit
  <2>2. \A k \in DOMAIN tlb_queue' : \E j \in DOMAIN tlb_queue : tlb_queue'[k] = tlb_queue[j]
    <3>1. tlb_queue \in Seq(Entradas)
      BY <1>0 DEF TipoInv
    <3> QED
      BY <2>1, <3>1, Rota
  <2>3. /\ UNCHANGED <<proc, pcb, memoria_procesos, io_frames, pages, baja, cpu>>
        /\ cpu = "traduce"
    BY <1>8, <2>1, SMTT(60) DEF TlbHit, Traduce, memVars, bajaVars, kernelVars
  <2> QED
    BY <1>0, <2>2, <2>3, RolSigue
<1>9. CASE Consulta
  <2> DEFINE a == Head(por_traducir)
             m == pages[pcb][a.page + 1]
             e == [pid |-> pcb, page |-> a.page, frame |-> m, valid |-> TRUE]
  <2>1. /\ por_traducir # <<>> /\ pcb \in Pids /\ a.page < Len(pages[pcb])
        /\ tlb_queue' = add_tlb(pcb, a.page, m) /\ Traduce(a, m) /\ cpu = "traduce"
    BY <1>0, <1>9 DEF Consulta, TlbMiss
  <2>2. a.page \in Nat
    <3>1. por_traducir \in Seq(Accesos)
      BY <1>0 DEF TipoInv
    <3>2. a \in Accesos
      BY <2>1, <3>1, SeqTipo
    <3> QED
      BY <3>2 DEF Accesos
  <2>3. m \in Marcos
    BY <1>0, <2>1, <2>2, PaginaEsMarco
  <2>4. \A i \in DOMAIN tlb_queue' : tlb_queue'[i] = e
                \/ \E j \in DOMAIN tlb_queue : tlb_queue'[i] = tlb_queue[j]
    BY <1>0, <2>1, <2>2, <2>3, AddTlb
  <2>5. \A i \in DOMAIN tlb_queue' :
            \/ tlb_queue'[i].pid = pcb /\ pcb # Nadie
            \/ \E j \in DOMAIN tlb_queue : tlb_queue'[i].pid = tlb_queue[j].pid
    BY <1>0, <2>1, <2>4
  <2>6. /\ UNCHANGED <<proc, pcb, memoria_procesos, io_frames, pages, baja, cpu>>
    BY <2>1 DEF Traduce, memVars, bajaVars, kernelVars
  <2> QED
    BY <1>0, <2>1, <2>5, <2>6, RolSigue
<1>10. CASE ConsultaFalla
  <2>1. /\ UNCHANGED <<memoria_procesos, io_frames, pages, baja, tlb_queue>>
        /\ cpu = "traduce"
    BY <1>10 DEF ConsultaFalla, TlbMiss, memVars, bajaVars
  <2>2. CASE instruccion = "copy_string" /\ ~Head(por_traducir).escribe
    <3>1. UNCHANGED <<cpu, pcb, proc>>
      BY <1>10, <2>2 DEF ConsultaFalla
    <3> QED
      BY <1>0, <1>a, <2>1, <3>1, RolSigue
  <2>3. CASE ~(instruccion = "copy_string" /\ ~Head(por_traducir).escribe)
    <3>1. Devuelve("fin")
      BY <1>10, <2>3 DEF ConsultaFalla
    <3>2. cpu' = "libre" /\ pcb' = Nadie /\ frames' = <<>>
          /\ proc' = [proc EXCEPT ![pcb] = "fin"]
      BY <3>1 DEF Devuelve
    <3> QED
      BY <1>0, <1>b, <2>1, <3>2, RolMueve
  <2> QED
    BY <2>2, <2>3
<1>11. CASE Traducido
  <2>1. UNCHANGED <<memoria_procesos, pages, baja, tlb_queue>> /\ cpu = "traduce"
    BY <1>11 DEF Traducido, memVars, bajaVars
  <2>2. CASE instruccion = "io"
    <3>1. Devuelve("io") /\ io_frames' = [io_frames EXCEPT ![pcb] = frames]
      BY <1>11, <2>2 DEF Traducido
    <3>2. cpu' = "libre" /\ pcb' = Nadie /\ frames' = <<>>
          /\ proc' = [proc EXCEPT ![pcb] = "io"]
      BY <3>1 DEF Devuelve
    <3>3. \A q \in Pids : q # pcb => io_frames'[q] = io_frames[q]
      BY <1>0, <3>1 DEF TipoInv
    <3> QED
      BY <1>0, <2>1, <3>2, <3>3, RolMueve, ZenonT(90)
  <2>3. CASE instruccion # "io"
    <3>1. cpu' = "accede" /\ UNCHANGED <<io_frames, pcb, proc>>
      BY <1>11, <2>3 DEF Traducido
    <3> QED
      BY <1>0, <1>a, <2>1, <3>1, RolSigue
  <2> QED
    BY <2>2, <2>3
<1>12. CASE AccedeCpu
  <2>1. /\ UNCHANGED <<proc, pcb, memoria_procesos, io_frames, pages, baja, cpu, tlb_queue>>
        /\ cpu = "accede"
    BY <1>12 DEF AccedeCpu, Accede, accede_memoria, bajaVars
  <2> QED
    BY <1>0, <1>a, <2>1, RolSigue
<1>13. CASE FinInstruccion
  <2>1. /\ UNCHANGED <<proc, pcb, memoria_procesos, io_frames, pages, baja, tlb_queue, frames>>
        /\ frames = <<>> /\ cpu = "accede" /\ cpu' = "instruccion"
    BY <1>13 DEF FinInstruccion, memVars, bajaVars, kernelVars
  <2> QED
    BY <1>0, <1>a, <2>1, RolSigue
<1>14. CASE TerminaLibera
  <2>1. /\ UNCHANGED <<proc, pcb, cpu, memoria_procesos, io_frames, pages, tlb_queue, frames>>
        /\ baja' = [baja EXCEPT !["kernel"] = Nadie]
    BY <1>14 DEF TerminaLibera, TerminaBaja, cpuVars, kernelVars
  <2>2. baja'["kernel"] = Nadie /\ baja'["cpu"] = baja["cpu"]
    BY <1>0, <2>1 DEF TablasOK, Hilos
  <2> QED
    BY <1>0, <2>1, <2>2 DEF RolInv
<1>15. ASSUME NEW h \in Hilos, Quita(h)
       PROVE  RolInv'
  <2>1. UNCHANGED <<proc, pcb, cpu, memoria_procesos, io_frames, baja, tlb_queue, frames>>
        /\ faltan[h] > 0
    BY <1>15 DEF Quita, QuitaPagina, cpuVars
  <2>2. baja[h] \in Pids /\ proc[baja[h]] # "no"
    BY <1>0, <2>1, MemoriaAssumption DEF TablasInv, BajaInv, RolInv, Hilos
  <2>3. \A q \in Pids : proc[q] = "no" => pages'[q] = pages[q]
    BY <1>0, <1>15, <2>2 DEF Quita, QuitaPagina, TablasOK
  <2> QED
    BY <1>0, <2>1, <2>3 DEF RolInv
<1>16. ASSUME NEW h \in Hilos, Limpia(h)
       PROVE  RolInv'
  BY <1>0, <1>16 DEF Limpia, LimpiaBit, cpuVars, kernelVars, RolInv
<1>17. ASSUME NEW p \in Pids, CreaProceso(p)
       PROVE  RolInv'
  <2>1. /\ UNCHANGED <<pcb, cpu, io_frames, baja, tlb_queue, frames>>
        /\ proc[p] = "no" /\ proc' = [proc EXCEPT ![p] = "listo"]
        /\ memoria_procesos' = memoria_procesos \cup {p} /\ baja["kernel"] = Nadie
        /\ pages' = [pages EXCEPT ![p] = <<>>]
    BY <1>17 DEF CreaProceso, leer_archivo, Ocioso, cpuVars, bajaVars
  <2>2. \A q \in Pids : /\ proc'[q] = IF q = p THEN "listo" ELSE proc[q]
                        /\ pages'[q] = IF q = p THEN <<>> ELSE pages[q]
    BY <1>0, <2>1 DEF TipoInv, TablasOK
  <2>3. \A i \in DOMAIN tlb_queue : tlb_queue[i].pid \in Pids
    <3>1. \A i \in DOMAIN tlb_queue : tlb_queue[i] \in Entradas
      BY <1>0, SeqTipo DEF TipoInv
    <3> QED
      BY <3>1 DEF Entradas
  <2>4. /\ pcb # Nadie => pcb # p /\ pcb \in Pids /\ proc'[pcb] = "cpu"
        /\ \A q \in Pids : proc'[q] = "cpu" => pcb' = q
    BY <1>0, <2>1, <2>2 DEF RolInv, TipoInv
  <2>5. \A i \in DOMAIN tlb_queue' : proc'[tlb_queue'[i].pid] # "no"
    BY <1>0, <2>1, <2>2, <2>3 DEF RolInv
  <2>6. /\ \A q \in Pids : proc'[q] = "no" => q \notin memoria_procesos' /\ pages'[q] = <<>>
        /\ \A q \in Pids : proc'[q] \in {"listo", "cpu", "io", "sirviendo"} =>
                q \in memoria_procesos'
        /\ \A q \in Pids : io_frames'[q] # <<>> => proc'[q] \in {"io", "sirviendo"}
    BY <1>0, <2>1, <2>2 DEF RolInv
  <2> QED
    BY <1>0, <2>1, <2>4, <2>5, <2>6 DEF RolInv
<1>18. ASSUME NEW p \in Pids, Despacha(p)
       PROVE  RolInv'
  <2>1. /\ UNCHANGED <<memoria_procesos, pages, io_frames, baja, tlb_queue, frames>>
        /\ cpu = "libre" /\ proc[p] = "listo" /\ cpu' = "instruccion" /\ pcb' = p
        /\ proc' = [proc EXCEPT ![p] = "cpu"]
    BY <1>18 DEF Despacha, memVars, bajaVars
  <2>2. \A q \in Pids : proc'[q] = IF q = p THEN "cpu" ELSE proc[q]
    BY <1>0, <2>1 DEF TipoInv
  <2>3. /\ pcb = Nadie /\ p # Nadie /\ frames = <<>> /\ baja["cpu"] = Nadie
        /\ \A q \in Pids : proc[q] # "cpu"
    BY <1>0, <2>1, MemoriaAssumption DEF RolInv
  <2>4. \A i \in DOMAIN tlb_queue : tlb_queue[i].pid \in Pids
    <3>1. \A i \in DOMAIN tlb_queue : tlb_queue[i] \in Entradas
      BY <1>0, SeqTipo DEF TipoInv
    <3> QED
      BY <3>1 DEF Entradas
  <2>5. \A i \in DOMAIN tlb_queue' : proc'[tlb_queue'[i].pid] # "no"
    BY <1>0, <2>1, <2>2, <2>4 DEF RolInv
  <2>6. /\ \A q \in Pids : proc'[q] = "no" => q \notin memoria_procesos' /\ pages'[q] = <<>>
        /\ \A q \in Pids : proc'[q] \in {"listo", "cpu", "io", "sirviendo"} =>
                q \in memoria_procesos'
        /\ \A q \in Pids : io_frames'[q] # <<>> => proc'[q] \in {"io", "sirviendo"}
    BY <1>0, <2>1, <2>2 DEF RolInv
  <2>7. baja'["kernel"] # Nadie =>
            proc'[baja'["kernel"]] = "fin" /\ baja'["kernel"] \notin memoria_procesos'
    <3>1. baja["kernel"] \in Pids \cup {Nadie}
      BY <1>0 DEF TablasOK, Hilos
    <3> QED
      BY <1>0, <2>1, <2>2, <3>1 DEF RolInv
  <2> QED
    BY <2>1, <2>2, <2>3, <2>5, <2>6, <2>7 DEF RolInv
<1>19. ASSUME NEW p \in Pids, Finaliza(p)
       PROVE  RolInv'
  <2>1. /\ UNCHANGED <<memoria_procesos, pages, baja, tlb_queue, cpu, pcb, frames>>
        /\ proc[p] \in {"listo", "io"} /\ proc' = [proc EXCEPT ![p] = "fin"]
        /\ io_frames' = [io_frames EXCEPT ![p] = <<>>]
    BY <1>19 DEF Finaliza, memVars, bajaVars, cpuVars
  <2>2. \A q \in Pids : io_frames'[q] # <<>> => q # p /\ io_frames[q] # <<>>
    BY <1>0, <2>1 DEF TipoInv
  <2> QED
    BY <1>0, <2>1, <2>2, RolMueve
<1>20. ASSUME NEW p \in Pids, Libera(p)
       PROVE  RolInv'
  <2>1. /\ UNCHANGED <<proc, pages, io_frames, tlb_queue, cpu, pcb, frames>>
        /\ proc[p] = "fin" /\ memoria_procesos' = memoria_procesos \ {p}
        /\ baja' = [baja EXCEPT !["kernel"] = p]
    BY <1>20 DEF Libera, liberar_memoria, EmpiezaBaja, cpuVars
  <2>2. baja'["kernel"] = p /\ baja'["cpu"] = baja["cpu"]
    BY <1>0, <2>1 DEF TablasOK, Hilos
  <2> QED
    BY <1>0, <2>1, <2>2 DEF RolInv
<1>21. ASSUME NEW p \in Pids, IoSirve(p)
       PROVE  RolInv'
  <2>1. /\ UNCHANGED <<memoria_procesos, pages, baja, tlb_queue, cpu, pcb, frames, io_frames>>
        /\ proc[p] = "io" /\ proc' = [proc EXCEPT ![p] = "sirviendo"]
    BY <1>21 DEF IoSirve, memVars, bajaVars, cpuVars
  <2> QED
    BY <1>0, <2>1, RolMueve
<1>22. ASSUME NEW p \in Pids, AccedeIo(p)
       PROVE  RolInv'
  <2>1. /\ UNCHANGED <<proc, memoria_procesos, pages, baja, tlb_queue, cpu, pcb, frames>>
        /\ proc[p] = "sirviendo" /\ io_frames' = [io_frames EXCEPT ![p] = Tail(@)]
    BY <1>22 DEF AccedeIo, Accede, accede_memoria, bajaVars, cpuVars
  <2>2. \A q \in Pids : q # p => io_frames'[q] = io_frames[q]
    BY <1>0, <2>1 DEF TipoInv
  <2> QED
    BY <1>0, <2>1, <2>2 DEF RolInv
<1>23. ASSUME NEW p \in Pids, IoTermina(p)
       PROVE  RolInv'
  <2>1. PICK destino \in {"listo", "fin"} : proc' = [proc EXCEPT ![p] = destino]
    BY <1>23 DEF IoTermina
  <2>2. /\ UNCHANGED <<memoria_procesos, pages, baja, tlb_queue, cpu, pcb, frames>>
        /\ proc[p] = "sirviendo" /\ io_frames' = [io_frames EXCEPT ![p] = <<>>]
    BY <1>23 DEF IoTermina, memVars, bajaVars, cpuVars
  <2>3. \A q \in Pids : io_frames'[q] # <<>> => q # p /\ io_frames[q] # <<>>
    BY <1>0, <2>2 DEF TipoInv
  <2> QED
    BY <1>0, <2>1, <2>2, <2>3, RolMueve
<1> QED
  BY <1>1, <1>2, <1>3, <1>4, <1>5, <1>6, <1>7, <1>8, <1>9, <1>10, <1>11, <1>12, <1>13,
     <1>14, <1>15, <1>16, <1>17, <1>18, <1>19, <1>20, <1>21, <1>22, <1>23 DEF Next

-----------------------------------------------------------------------------
(* The TLB.                                                                *)

\* Whose are the entries, and the loop of the RESIZE.
LEMMA EntradasDe ==
    ASSUME CohInv
    PROVE  /\ \A i \in DOMAIN tlb_queue :
                /\ tlb_queue[i] \in Entradas /\ tlb_queue[i].pid \in Pids
                /\ tlb_queue[i].page \in Nat /\ tlb_queue[i].frame \in Marcos
           /\ cpu # "libre" => pcb \in Pids /\ pcb # Nadie /\ proc[pcb] = "cpu"
           /\ faltan["cpu"] \in Nat /\ faltan["kernel"] \in Nat
           /\ faltan["cpu"] > 0 => cpu = "baja" /\ baja["cpu"] = pcb /\ pcb \in Pids
           /\ marco["cpu"] # SinMarco => faltan["cpu"] > 0
           /\ \A p \in Pids : Len(pages[p]) \in Nat
<1>1. TipoInv /\ RolInv /\ TablasOK /\ BajaInv /\ CpuInv
  BY DEF CohInv, MarcosInv, TablasInv
<1>2. \A i \in DOMAIN tlb_queue : tlb_queue[i] \in Entradas
  BY <1>1, SeqTipo DEF TipoInv
<1>3. \A p \in Pids : Len(pages[p]) \in Nat
  BY <1>1, TablaDefinida
<1>4. Nadie \notin Pids
  BY MemoriaAssumption
<1>5. cpu # "libre" => pcb \in Pids /\ pcb # Nadie /\ proc[pcb] = "cpu"
  BY <1>1, <1>4 DEF CpuInv, RolInv
<1>6. /\ faltan["cpu"] \in Nat /\ faltan["kernel"] \in Nat
      /\ faltan["cpu"] > 0 => cpu = "baja" /\ baja["cpu"] = pcb /\ pcb \in Pids
      /\ marco["cpu"] # SinMarco => faltan["cpu"] > 0
  BY <1>1, <1>4 DEF TablasOK, BajaInv, RolInv, Hilos
<1> QED
  BY <1>2, <1>3, <1>5, <1>6 DEF Entradas

\* The entries are some of those there were, and the tables are the same.
LEMMA TlbSigue ==
    ASSUME TlbInv, memoria_procesos' \subseteq memoria_procesos, UNCHANGED pages,
           \/ cpu' \notin {"resize", "baja"}
           \/ UNCHANGED <<cpu, pcb, pedido>> /\ (cpu = "baja" => Meta' = Meta),
           \A i \in DOMAIN tlb_queue' : \E j \in DOMAIN tlb_queue :
                tlb_queue'[i] = tlb_queue[j]
    PROVE  TlbInv'
<1> SUFFICES ASSUME NEW i \in DOMAIN tlb_queue'
             PROVE  EntradaOK(tlb_queue[i])'
  BY DEF TlbInv
<1>1. PICK j \in DOMAIN tlb_queue : tlb_queue'[i] = tlb_queue[j]
  OBVIOUS
<1>2. EntradaOK(tlb_queue[j])
  BY DEF TlbInv
<1> QED
  BY <1>1, <1>2 DEF EntradaOK, Vigente

\* Every step keeps the entries of the TLB.
LEMMA TlbPaso ==
    ASSUME CohInv, Next
    PROVE  TlbInv'
<1>0. /\ TlbInv /\ TipoInv /\ RolInv /\ TablasOK /\ CpuInv /\ Nadie \notin Pids
      /\ cpu # "libre" => pcb \in Pids /\ pcb # Nadie /\ proc[pcb] = "cpu"
  BY MemoriaAssumption, EntradasDe DEF CohInv, MarcosInv, TablasInv, CpuInv, RolInv
<1>a. \A i \in DOMAIN tlb_queue : \E j \in DOMAIN tlb_queue : tlb_queue[i] = tlb_queue[j]
  OBVIOUS
<1>1. CASE Desaloja \/ ResizeIgual \/ ResizeResponde \/ Traducido \/ FinInstruccion
  <2>1. UNCHANGED <<memoria_procesos, pages, tlb_queue>> /\ cpu' \notin {"resize", "baja"}
    BY <1>1 DEF Desaloja, Devuelve, ResizeIgual, ResizeResponde, TerminaBaja, Traducido,
                FinInstruccion, memVars
  <2> QED
    BY <1>0, <1>a, <2>1, TlbSigue
<1>2. CASE Instruccion
  <2>1. PICK nombre, paginas : Empieza(nombre, paginas)
    BY <1>2 DEF Instruccion
  <2>2. UNCHANGED <<memoria_procesos, pages, tlb_queue>> /\ cpu' \notin {"resize", "baja"}
    BY <2>1 DEF Empieza, memVars
  <2> QED
    BY <1>0, <1>a, <2>2, TlbSigue
<1>3. CASE TlbHit
  <2>1. PICK i \in DOMAIN tlb_queue :
            /\ tlb_queue' = IF EsLRU THEN Append(RemoveAt(tlb_queue, i), tlb_queue[i])
                                     ELSE tlb_queue
            /\ Traduce(Head(por_traducir), tlb_queue[i].frame)
    BY <1>3 DEF TlbHit
  <2>2. \A k \in DOMAIN tlb_queue' : \E j \in DOMAIN tlb_queue : tlb_queue'[k] = tlb_queue[j]
    <3>1. tlb_queue \in Seq(Entradas)
      BY <1>0 DEF TipoInv
    <3> QED
      BY <2>1, <3>1, Rota
  <2>3. UNCHANGED <<memoria_procesos, pages>> /\ cpu' \notin {"resize", "baja"}
    BY <1>3, <2>1 DEF TlbHit, Traduce, memVars
  <2> QED
    BY <1>0, <2>2, <2>3, TlbSigue
<1>4. CASE ConsultaFalla
  <2>1. UNCHANGED <<memoria_procesos, pages, tlb_queue>> /\ cpu' \notin {"resize", "baja"}
    BY <1>4 DEF ConsultaFalla, TlbMiss, Devuelve, memVars
  <2> QED
    BY <1>0, <1>a, <2>1, TlbSigue
<1>5. CASE AccedeCpu
  <2>1. UNCHANGED <<memoria_procesos, pages, tlb_queue>> /\ cpu' \notin {"resize", "baja"}
    BY <1>5 DEF AccedeCpu, Accede, accede_memoria
  <2> QED
    BY <1>0, <1>a, <2>1, TlbSigue
<1>6. ASSUME NEW p \in Pids, Finaliza(p) \/ IoSirve(p) \/ IoTermina(p)
      PROVE  TlbInv'
  <2>1. UNCHANGED <<memoria_procesos, pages, tlb_queue, cpu, pcb, pedido, faltan, marco>>
    BY <1>6 DEF Finaliza, IoSirve, IoTermina, memVars, bajaVars, cpuVars
  <2> QED
    BY <1>0, <1>a, <2>1, TlbSigue DEF Meta
<1>7. ASSUME NEW p \in Pids, AccedeIo(p)
      PROVE  TlbInv'
  <2>1. UNCHANGED <<memoria_procesos, pages, tlb_queue, cpu, pcb, pedido, faltan, marco>>
    BY <1>7 DEF AccedeIo, Accede, accede_memoria, bajaVars, cpuVars
  <2> QED
    BY <1>0, <1>a, <2>1, TlbSigue DEF Meta
<1>8. ASSUME NEW p \in Pids, Despacha(p)
      PROVE  TlbInv'
  <2>1. UNCHANGED <<memoria_procesos, pages, tlb_queue>> /\ cpu' \notin {"resize", "baja"}
    BY <1>8 DEF Despacha, memVars
  <2> QED
    BY <1>0, <1>a, <2>1, TlbSigue
<1>9. ASSUME NEW p \in Pids, Libera(p)
      PROVE  TlbInv'
  <2>1. /\ UNCHANGED <<pages, tlb_queue, cpu, pcb, pedido, marco>>
        /\ memoria_procesos' \subseteq memoria_procesos
        /\ \E n : faltan' = [faltan EXCEPT !["kernel"] = n]
    BY <1>9 DEF Libera, liberar_memoria, EmpiezaBaja, cpuVars
  <2>2. faltan'["cpu"] = faltan["cpu"]
    BY <1>0, <2>1 DEF TablasOK, Hilos
  <2> QED
    BY <1>0, <1>a, <2>1, <2>2, TlbSigue DEF Meta
<1>10. CASE TerminaLibera
  <2>1. /\ UNCHANGED <<pages, tlb_queue, cpu, pcb, pedido, marco, memoria_procesos>>
        /\ faltan' = [faltan EXCEPT !["kernel"] = 0]
    BY <1>10 DEF TerminaLibera, TerminaBaja, cpuVars
  <2>2. faltan'["cpu"] = faltan["cpu"]
    BY <1>0, <2>1 DEF TablasOK, Hilos
  <2> QED
    BY <1>0, <1>a, <2>1, <2>2, TlbSigue DEF Meta
<1>11. ASSUME NEW h \in Hilos, Limpia(h)
       PROVE  TlbInv'
  <2>1. /\ UNCHANGED <<pages, tlb_queue, cpu, pcb, pedido, memoria_procesos>>
        /\ marco[h] # SinMarco /\ marco' = [marco EXCEPT ![h] = SinMarco]
        /\ faltan' = [faltan EXCEPT ![h] = @ - 1]
    BY <1>11 DEF Limpia, LimpiaBit, cpuVars, kernelVars
  <2>2. cpu = "baja" => Meta' = Meta
    <3> SUFFICES ASSUME cpu = "baja"
                 PROVE  Meta' = Meta
      OBVIOUS
    <3>1. Len(pages[pcb]) \in Nat /\ faltan["cpu"] \in Nat
      BY <1>0, EntradasDe
    <3>2. CASE h = "cpu"
      <4>1. marco'["cpu"] = SinMarco /\ faltan'["cpu"] = faltan["cpu"] - 1
        BY <1>0, <2>1, <3>2 DEF TablasOK, Hilos
      <4> QED
        BY <2>1, <3>1, <3>2, <4>1 DEF Meta
    <3>3. CASE h # "cpu"
      <4>1. marco'["cpu"] = marco["cpu"] /\ faltan'["cpu"] = faltan["cpu"]
        BY <1>0, <2>1, <3>3 DEF TablasOK, Hilos
      <4> QED
        BY <2>1, <4>1 DEF Meta
    <3> QED
      BY <3>2, <3>3
  <2> QED
    BY <1>0, <1>a, <2>1, <2>2, TlbSigue
<1>12. ASSUME NEW h \in Hilos, Quita(h)
       PROVE  TlbInv'
  <2> DEFINE p == baja[h]
             u == Len(pages[p])
  <2>1. /\ UNCHANGED <<tlb_queue, cpu, pcb, pedido, memoria_procesos, faltan>>
        /\ faltan[h] > 0 /\ marco[h] = SinMarco /\ pages[p] # <<>>
        /\ marco' = [marco EXCEPT ![h] = pages[p][u]]
        /\ pages' = [pages EXCEPT ![p] = SubSeq(@, 1, u - 1)]
    BY <1>12 DEF Quita, QuitaPagina, cpuVars
  <2>2. p \in Pids /\ pages[p] \in Seq(Marcos) /\ u \in Nat /\ u > 0
    BY <1>0, <2>1, TablaDefinida DEF CohInv, MarcosInv, TablasInv, BajaInv, TablasOK
  <2>3. /\ Len(pages'[p]) = u - 1 /\ \A k \in 1 .. u - 1 : pages'[p][k] = pages[p][k]
        /\ \A q \in Pids : q # p => pages'[q] = pages[q]
    <3>1. \A k \in 1 .. u - 1 : pages[p][k] \in Marcos
      BY <1>0, <2>2, TablaDefinida
    <3>2. /\ Len(SubSeq(pages[p], 1, u - 1)) = u - 1
          /\ \A k \in 1 .. u - 1 : SubSeq(pages[p], 1, u - 1)[k] = pages[p][k]
      BY <2>2, <3>1, SubSeqProperties
    <3>3. pages'[p] = SubSeq(pages[p], 1, u - 1) /\ \A q \in Pids : q # p => pages'[q] = pages[q]
      BY <1>0, <2>1, <2>2 DEF TablasOK
    <3> QED
      BY <3>2, <3>3
  <2>4. marco'[h] # SinMarco
    <3>1. pages[p][u] \in Marcos
      BY <1>0, <2>2, TablaDefinida
    <3> QED
      BY <1>0, <2>1, <3>1, MemoriaAssumption DEF TablasOK, Marcos, SinMarco
  <2> SUFFICES ASSUME NEW i \in DOMAIN tlb_queue'
               PROVE  EntradaOK(tlb_queue[i])'
    BY DEF TlbInv
  <2> DEFINE e == tlb_queue[i]
  <2>5. EntradaOK(e) /\ e.pid \in Pids /\ e.page \in Nat
    BY <1>0, <2>1, EntradasDe DEF TlbInv
  <2>6. tlb_queue'[i] = e
    BY <2>1
  <2> HIDE DEF e
  <2>7. CASE h = "cpu"
    <3>1. cpu = "baja" /\ p = pcb /\ faltan["cpu"] \in Nat
      BY <2>1, <2>7, EntradasDe
    <3>2. Meta = u - faltan["cpu"] /\ Meta' = u - faltan["cpu"]
      <4>1. /\ Len(pages[pcb]) = u /\ Len(pages'[pcb']) = u - 1
            /\ faltan'["cpu"] = faltan["cpu"]
            /\ marco["cpu"] = SinMarco /\ marco'["cpu"] # SinMarco
        BY <2>1, <2>3, <2>4, <2>7, <3>1
      <4> HIDE DEF p, u
      <4> QED
        BY <2>2, <3>1, <4>1 DEF Meta
    <3>3. CASE e.pid = p
      <4>1. e.valid /\ e.pid \in memoria_procesos => e.page < Meta /\ Vigente(e.pid, e)
        BY <2>5, <3>1, <3>3 DEF EntradaOK
      <4>2. e.valid /\ e.pid \in memoria_procesos =>
                e.page < u - 1 /\ pages'[p][e.page + 1] = e.frame
        <5> SUFFICES ASSUME e.valid, e.pid \in memoria_procesos
                     PROVE  e.page < u - 1 /\ pages'[p][e.page + 1] = e.frame
          OBVIOUS
        <5>1. e.page < u - faltan["cpu"] /\ pages[p][e.page + 1] = e.frame
          BY <3>2, <3>3, <4>1 DEF Vigente
        <5>2. faltan["cpu"] > 0
          BY <2>1, <2>7
        <5> HIDE DEF p, u
        <5>3. e.page < u - 1 /\ e.page + 1 \in 1 .. u - 1
          BY <2>2, <2>5, <3>1, <5>1, <5>2
        <5> QED
          BY <2>3, <5>1, <5>3
      <4> QED
        BY <2>1, <2>3, <2>6, <3>1, <3>2, <3>3, <4>1, <4>2 DEF EntradaOK, Vigente
    <3>4. CASE e.pid # p
      BY <2>1, <2>3, <2>5, <2>6, <3>1, <3>4 DEF EntradaOK, Vigente
    <3> QED
      BY <3>3, <3>4
  <2>8. CASE h = "kernel"
    <3>1. p \notin memoria_procesos /\ (cpu = "baja" => pcb # p /\ pcb \in Pids)
      BY <1>0, <2>2, <2>8 DEF RolInv
    <3>2. cpu = "baja" => Meta' = Meta
      <4>1. marco'["cpu"] = marco["cpu"]
        BY <1>0, <2>1, <2>8 DEF TablasOK, Hilos
      <4> QED
        BY <2>1, <2>3, <3>1, <4>1 DEF Meta
    <3> QED
      BY <2>1, <2>3, <2>5, <2>6, <3>1, <3>2 DEF EntradaOK, Vigente
  <2> QED
    BY <1>12, <2>7, <2>8 DEF Hilos
<1>13. ASSUME NEW n \in 0 .. MaxPaginas, ResizePide(n)
       PROVE  TlbInv'
  <2>1. /\ UNCHANGED <<memoria_procesos, pages, pcb>>
        /\ cpu = "instruccion" /\ cpu' = "resize" /\ pedido' = n
        /\ tlb_queue' = modify_tlb_on_resize(n, pcb)
    BY <1>13 DEF ResizePide, memVars
  <2> SUFFICES ASSUME NEW i \in DOMAIN tlb_queue'
               PROVE  EntradaOK(tlb_queue[i])'
    BY DEF TlbInv
  <2> DEFINE e == tlb_queue[i]
             v == e.valid /\ ~(e.pid = pcb /\ e.page > n - 1)
  <2>2. i \in DOMAIN tlb_queue
    BY <2>1 DEF modify_tlb_on_resize
  <2>3. tlb_queue'[i] = [e EXCEPT !.valid = v]
    BY <2>1, <2>2 DEF modify_tlb_on_resize
  <2>4. EntradaOK(e) /\ e \in Entradas /\ e.page \in Nat
    BY <1>0, <2>2, EntradasDe DEF TlbInv
  <2>5. /\ tlb_queue'[i].pid = e.pid /\ tlb_queue'[i].page = e.page
        /\ tlb_queue'[i].frame = e.frame /\ tlb_queue'[i].valid = v
    <3> HIDE DEF e, v
    <3> QED
      BY <2>3, <2>4 DEF Entradas
  <2>6. v => e.valid /\ (e.pid = pcb => e.page < n)
    BY <2>4
  <2> HIDE DEF e, v
  <2> QED
    BY <2>1, <2>4, <2>5, <2>6 DEF EntradaOK, Vigente
<1>14. CASE ResizeSube
  <2>1. pcb \in Pids /\ pedido - Len(pages[pcb]) \in Nat
    BY <1>0, <1>14, TablaDefinida DEF ResizeSube, CpuInv
  <2>2. /\ UNCHANGED <<memoria_procesos, tlb_queue>> /\ cpu' \notin {"resize", "baja"}
        /\ resize_up(pcb, pedido - Len(pages[pcb]))
    BY <1>14 DEF ResizeSube, resize_up, Devuelve
  <2>3. \A q \in Pids : /\ Len(pages[q]) <= Len(pages'[q])
                        /\ \A k \in 1 .. Len(pages[q]) : pages'[q][k] = pages[q][k]
    BY <1>0, <2>1, <2>2, ResizeUpPrefijo
  <2> SUFFICES ASSUME NEW i \in DOMAIN tlb_queue'
               PROVE  EntradaOK(tlb_queue[i])'
    BY DEF TlbInv
  <2> DEFINE e == tlb_queue[i]
  <2>4. EntradaOK(e) /\ e.pid \in Pids /\ e.page \in Nat
    BY <1>0, <2>2, EntradasDe DEF TlbInv
  <2>5. tlb_queue'[i] = e
    BY <2>2
  <2> HIDE DEF e
  <2>6. Vigente(e.pid, e) => e.page < Len(pages'[e.pid]) /\ pages'[e.pid][e.page + 1] = e.frame
    <3> DEFINE q == e.pid
    <3>1. Len(pages[q]) \in Nat /\ Len(pages'[q]) \in Nat
      BY <1>0, <2>1, <2>2, <2>4, EntradasDe, ResizeUpPrefijo
    <3> QED
      BY <2>3, <2>4, <3>1 DEF Vigente
  <2> QED
    BY <2>2, <2>4, <2>5, <2>6 DEF EntradaOK, Vigente
<1>15. CASE ResizeBaja
  <2>1. /\ UNCHANGED <<memoria_procesos, pages, tlb_queue, pcb, marco>>
        /\ cpu = "resize" /\ cpu' = "baja" /\ pedido < Len(pages[pcb]) /\ baja["cpu"] = Nadie
        /\ faltan' = [faltan EXCEPT !["cpu"] = Len(pages[pcb]) - pedido]
    BY <1>15 DEF ResizeBaja, EmpiezaBaja, Ocioso
  <2>2. faltan'["cpu"] = Len(pages[pcb]) - pedido /\ marco'["cpu"] = SinMarco
    BY <1>0, <2>1, EntradasDe DEF TablasOK, Hilos
  <2>3. Len(pages[pcb]) \in Nat /\ pedido \in Nat
    BY <1>0, <2>1, EntradasDe DEF CpuInv
  <2>4. Meta' = pedido
    BY <2>1, <2>2, <2>3 DEF Meta
  <2> SUFFICES ASSUME NEW i \in DOMAIN tlb_queue'
               PROVE  EntradaOK(tlb_queue[i])'
    BY DEF TlbInv
  <2>5. EntradaOK(tlb_queue[i]) /\ tlb_queue'[i] = tlb_queue[i]
    BY <1>0, <2>1 DEF TlbInv
  <2> QED
    BY <2>1, <2>4, <2>5 DEF EntradaOK, Vigente
<1>16. CASE Consulta
  <2> DEFINE a == Head(por_traducir)
             m == pages[pcb][a.page + 1]
             e == [pid |-> pcb, page |-> a.page, frame |-> m, valid |-> TRUE]
  <2>1. /\ por_traducir # <<>> /\ pcb \in Pids /\ a.page < Len(pages[pcb])
        /\ tlb_queue' = add_tlb(pcb, a.page, m) /\ Traduce(a, m) /\ cpu = "traduce"
    BY <1>0, <1>16 DEF Consulta, TlbMiss
  <2>2. a.page \in Nat
    <3>1. por_traducir \in Seq(Accesos)
      BY <1>0 DEF TipoInv
    <3>2. a \in Accesos
      BY <2>1, <3>1, SeqTipo
    <3> QED
      BY <3>2 DEF Accesos
  <2>3. m \in Marcos
    BY <1>0, <2>1, <2>2, PaginaEsMarco
  <2>4. \A i \in DOMAIN tlb_queue' : tlb_queue'[i] = e
                \/ \E j \in DOMAIN tlb_queue : tlb_queue'[i] = tlb_queue[j]
    BY <1>0, <2>1, <2>2, <2>3, AddTlb, ZenonT(90)
  <2>5. UNCHANGED <<memoria_procesos, pages>> /\ cpu' \notin {"resize", "baja"}
    BY <2>1 DEF Traduce, memVars
  <2> SUFFICES ASSUME NEW i \in DOMAIN tlb_queue'
               PROVE  EntradaOK(tlb_queue[i])'
    BY DEF TlbInv
  <2>6. CASE tlb_queue'[i] = e
    <3>1. /\ tlb_queue'[i].pid = pcb /\ tlb_queue'[i].page = a.page
          /\ tlb_queue'[i].frame = pages[pcb][a.page + 1]
      BY <2>6
    <3> QED
      BY <2>1, <2>5, <3>1 DEF EntradaOK, Vigente
  <2>7. ASSUME NEW j \in DOMAIN tlb_queue, tlb_queue'[i] = tlb_queue[j]
        PROVE  EntradaOK(tlb_queue[i])'
    <3>1. EntradaOK(tlb_queue[j])
      BY <1>0 DEF TlbInv
    <3> QED
      BY <2>5, <2>7, <3>1 DEF EntradaOK, Vigente
  <2> QED
    BY <2>4, <2>6, <2>7
<1>17. ASSUME NEW p \in Pids, CreaProceso(p)
       PROVE  TlbInv'
  <2>1. /\ UNCHANGED <<pcb, cpu, pedido, tlb_queue, faltan, marco>>
        /\ proc[p] = "no" /\ memoria_procesos' = memoria_procesos \cup {p}
        /\ pages' = [pages EXCEPT ![p] = <<>>]
    BY <1>17 DEF CreaProceso, leer_archivo, cpuVars, bajaVars
  <2>2. pages' = pages
    BY <1>0, <2>1 DEF TablasOK, RolInv
  <2>3. Meta' = Meta
    BY <2>1, <2>2 DEF Meta
  <2> SUFFICES ASSUME NEW i \in DOMAIN tlb_queue'
               PROVE  EntradaOK(tlb_queue[i])'
    BY DEF TlbInv
  <2>4. EntradaOK(tlb_queue[i]) /\ tlb_queue'[i] = tlb_queue[i] /\ tlb_queue[i].pid # p
    BY <1>0, <2>1 DEF TlbInv, RolInv
  <2> QED
    BY <2>1, <2>2, <2>3, <2>4 DEF EntradaOK, Vigente
<1> QED
  BY <1>1, <1>2, <1>3, <1>4, <1>5, <1>6, <1>7, <1>8, <1>9, <1>10, <1>11, <1>12, <1>13,
     <1>14, <1>15, <1>16, <1>17 DEF Next

-----------------------------------------------------------------------------
(* The addresses translated.                                               *)

\* Nobody gets an address, and the tables that change are those of processes
\* for which nobody holds one.
LEMMA VigenciaSigue ==
    ASSUME TipoInv, VigenciaInv,
           \A q \in Pids : pages'[q] # pages[q] =>
                io_frames[q] = <<>> /\ (pcb = q => frames = <<>>),
           \A q \in Pids : \A i \in DOMAIN io_frames'[q] :
                \E j \in DOMAIN io_frames[q] : io_frames'[q][i] = io_frames[q][j],
           \A i \in DOMAIN frames' : /\ pcb' = pcb \/ pcb' = Nadie
                                     /\ \E j \in DOMAIN frames : frames'[i] = frames[j]
    PROVE  VigenciaInv'
<1>1. ASSUME NEW q \in Pids, NEW i \in DOMAIN io_frames'[q]
      PROVE  Vigente(q, io_frames[q][i])'
  <2>1. PICK j \in DOMAIN io_frames[q] : io_frames'[q][i] = io_frames[q][j]
    BY <1>1
  <2>2. Vigente(q, io_frames[q][j])
    BY <2>1 DEF VigenciaInv
  <2>3. pages'[q] = pages[q]
    BY <2>1
  <2> QED
    BY <2>1, <2>2, <2>3 DEF Vigente
<1>2. ASSUME pcb' # Nadie, NEW i \in DOMAIN frames'
      PROVE  Vigente(pcb, frames[i])'
  <2>1. PICK j \in DOMAIN frames : frames'[i] = frames[j]
    BY <1>2
  <2>2. pcb' = pcb /\ pcb \in Pids
    BY <1>2 DEF TipoInv
  <2>3. Vigente(pcb, frames[j])
    BY <1>2, <2>1, <2>2 DEF VigenciaInv
  <2>4. pages'[pcb] = pages[pcb]
    BY <2>1, <2>2
  <2> QED
    BY <2>1, <2>2, <2>3, <2>4 DEF Vigente
<1> QED
  BY <1>1, <1>2 DEF VigenciaInv

\* The page just translated is good.
LEMMA VigenciaTraduce ==
    ASSUME CohInv, por_traducir # <<>>, cpu = "traduce", NEW m \in Marcos,
           Traduce(Head(por_traducir), m),
           Head(por_traducir).page < Len(pages[pcb]),
           pages[pcb][Head(por_traducir).page + 1] = m
    PROVE  VigenciaInv'
<1>0. TipoInv /\ VigenciaInv /\ frames \in Seq(Traducidos) /\ Len(frames) \in Nat
      /\ DOMAIN frames = 1 .. Len(frames)
  BY SeqTipo DEF CohInv, TipoInv
<1>1. UNCHANGED <<pages, pcb, io_frames>>
  BY DEF Traduce, memVars, kernelVars
<1> DEFINE a == Head(por_traducir)
           n == Len(frames)
<1>2. /\ frames' \in Seq(Traducidos) /\ Len(frames') = n + 1
      /\ \A i \in 1 .. n : frames'[i] = frames[i]
      /\ frames'[n + 1].page = a.page /\ frames'[n + 1].frame = m
  <2> DEFINE f == [page |-> a.page, escribe |-> a.escribe, frame |-> m]
  <2>1. /\ frames' \in Seq(Traducidos) /\ Len(frames') = n + 1
        /\ \A i \in 1 .. n : frames'[i] = frames[i]
        /\ frames'[n + 1] = f
    BY <1>0, TraduceTipo
  <2>2. f.page = a.page /\ f.frame = m
    OBVIOUS
  <2> HIDE DEF f
  <2> QED
    BY <2>1, <2>2
<1>3. DOMAIN frames' = 1 .. n + 1
  BY <1>2, LenProperties
<1>4. ASSUME pcb # Nadie, NEW i \in DOMAIN frames'
      PROVE  Vigente(pcb, frames[i])'
  <2>1. CASE i = n + 1
    BY <1>1, <1>2, <2>1 DEF Vigente
  <2>2. CASE i \in 1 .. n
    <3>1. Vigente(pcb, frames[i])
      BY <1>0, <1>4, <2>2 DEF VigenciaInv
    <3> QED
      BY <1>1, <1>2, <2>2, <3>1 DEF Vigente
  <2> QED
    BY <1>0, <1>3, <1>4, <2>1, <2>2
<1> QED
  BY <1>0, <1>1, <1>4 DEF VigenciaInv, Vigente

\* The tail of a sequence has its elements.
LEMMA ColaDe ==
    ASSUME NEW S, NEW s \in Seq(S), s # <<>>
    PROVE  \A i \in DOMAIN Tail(s) : \E j \in DOMAIN s : Tail(s)[i] = s[j]
<1>1. /\ Len(Tail(s)) = Len(s) - 1
      /\ \A i \in 1 .. Len(Tail(s)) : Tail(s)[i] = s[i + 1]
  BY HeadTailProperties
<1>2. Len(s) \in Nat /\ DOMAIN s = 1 .. Len(s) /\ Tail(s) \in Seq(S)
  BY SeqTipo
<1>3. DOMAIN Tail(s) = 1 .. Len(s) - 1
  BY <1>1, <1>2, LenProperties
<1>4. \A i \in 1 .. Len(s) - 1 : i + 1 \in 1 .. Len(s)
  BY <1>2
<1> QED
  BY <1>1, <1>2, <1>3, <1>4

\* Every step keeps the addresses in use.
LEMMA VigenciaPaso ==
    ASSUME CohInv, Next
    PROVE  VigenciaInv'
<1>0. /\ VigenciaInv /\ TlbInv /\ TipoInv /\ RolInv /\ TablasOK /\ Nadie \notin Pids
      /\ cpu # "libre" => pcb \in Pids /\ pcb # Nadie /\ proc[pcb] = "cpu"
  BY MemoriaAssumption, EntradasDe DEF CohInv, MarcosInv, TablasInv
<1>a. /\ \A q \in Pids : \A i \in DOMAIN io_frames[q] :
            \E j \in DOMAIN io_frames[q] : io_frames[q][i] = io_frames[q][j]
      /\ \A i \in DOMAIN frames : \E j \in DOMAIN frames : frames[i] = frames[j]
  OBVIOUS
<1>b. \A i \in DOMAIN <<>> : FALSE
  OBVIOUS
<1>1. CASE Desaloja \/ ResizeIgual \/ ResizeBaja \/ ResizeResponde \/ ConsultaFalla
           \/ FinInstruccion \/ TerminaLibera
  <2>1. UNCHANGED <<pages, io_frames>> /\ (frames' = <<>> \/ UNCHANGED <<frames, pcb>>)
    BY <1>1 DEF Desaloja, Devuelve, ResizeIgual, ResizeBaja, EmpiezaBaja, ResizeResponde,
                TerminaBaja, ConsultaFalla, FinInstruccion, TerminaLibera, memVars, cpuVars,
                kernelVars
  <2> QED
    BY <1>0, <1>a, <1>b, <2>1, VigenciaSigue
<1>2. ASSUME NEW n \in 0 .. MaxPaginas, ResizePide(n)
      PROVE  VigenciaInv'
  <2>1. UNCHANGED <<pages, io_frames, frames, pcb>>
    BY <1>2 DEF ResizePide, memVars, kernelVars
  <2> QED
    BY <1>0, <1>a, <2>1, VigenciaSigue
<1>3. CASE Instruccion
  <2>1. PICK nombre, paginas : Empieza(nombre, paginas)
    BY <1>3 DEF Instruccion
  <2>2. UNCHANGED <<pages, io_frames>> /\ frames' = <<>>
    BY <2>1 DEF Empieza, memVars, kernelVars
  <2> QED
    BY <1>0, <1>a, <1>b, <2>2, VigenciaSigue
<1>4. ASSUME NEW h \in Hilos, Limpia(h)
      PROVE  VigenciaInv'
  <2>1. UNCHANGED <<pages, io_frames, frames, pcb>>
    BY <1>4 DEF Limpia, LimpiaBit, cpuVars, kernelVars
  <2> QED
    BY <1>0, <1>a, <2>1, VigenciaSigue
<1>5. ASSUME NEW p \in Pids, Despacha(p) \/ Libera(p) \/ IoSirve(p) \/ Finaliza(p)
                             \/ IoTermina(p)
      PROVE  VigenciaInv'
  <2>1. UNCHANGED <<pages, frames>> /\ (io_frames' = io_frames
                                         \/ io_frames' = [io_frames EXCEPT ![p] = <<>>])
    BY <1>5 DEF Despacha, Libera, liberar_memoria, IoSirve, Finaliza, IoTermina, memVars, cpuVars
  <2>2. frames = <<>> \/ pcb' = pcb
    BY <1>0, <1>5 DEF Despacha, Libera, IoSirve, Finaliza, IoTermina, cpuVars, RolInv
  <2>3. \A q \in Pids : \A i \in DOMAIN io_frames'[q] :
            \E j \in DOMAIN io_frames[q] : io_frames'[q][i] = io_frames[q][j]
    BY <1>0, <1>a, <1>b, <2>1 DEF TipoInv
  <2> QED
    BY <1>0, <1>a, <1>b, <2>1, <2>2, <2>3, VigenciaSigue
<1>6. ASSUME NEW p \in Pids, AccedeIo(p)
      PROVE  VigenciaInv'
  <2>1. UNCHANGED <<pages, frames, pcb>> /\ io_frames[p] # <<>>
        /\ io_frames' = [io_frames EXCEPT ![p] = Tail(@)]
    BY <1>6 DEF AccedeIo, Accede, accede_memoria, cpuVars
  <2>2. \A q \in Pids : io_frames'[q] = IF q = p THEN Tail(io_frames[p]) ELSE io_frames[q]
    BY <1>0, <2>1 DEF TipoInv
  <2>3. io_frames[p] \in Seq(Traducidos)
    BY <1>0 DEF TipoInv
  <2>4. \A i \in DOMAIN Tail(io_frames[p]) :
            \E j \in DOMAIN io_frames[p] : Tail(io_frames[p])[i] = io_frames[p][j]
    BY <2>1, <2>3, ColaDe
  <2>5. \A q \in Pids : \A i \in DOMAIN io_frames'[q] :
            \E j \in DOMAIN io_frames[q] : io_frames'[q][i] = io_frames[q][j]
    <3>1. ASSUME NEW q \in Pids, q # p
          PROVE  \A i \in DOMAIN io_frames'[q] :
                    \E j \in DOMAIN io_frames[q] : io_frames'[q][i] = io_frames[q][j]
      <4>1. io_frames'[q] = io_frames[q]
        BY <2>2, <3>1
      <4> QED
        BY <1>a, <4>1
    <3>2. \A i \in DOMAIN io_frames'[p] :
                \E j \in DOMAIN io_frames[p] : io_frames'[p][i] = io_frames[p][j]
      <4>1. io_frames'[p] = Tail(io_frames[p])
        BY <2>2
      <4> QED
        BY <2>4, <4>1
    <3> QED
      BY <3>1, <3>2
  <2> QED
    BY <1>0, <1>a, <2>1, <2>5, VigenciaSigue
<1>7. CASE AccedeCpu
  <2>1. UNCHANGED <<pages, io_frames, pcb>> /\ frames # <<>> /\ frames' = Tail(frames)
    BY <1>7 DEF AccedeCpu, Accede, accede_memoria
  <2>2. \A i \in DOMAIN frames' : \E j \in DOMAIN frames : frames'[i] = frames[j]
    <3>1. frames \in Seq(Traducidos)
      BY <1>0 DEF TipoInv
    <3>2. \A i \in DOMAIN Tail(frames) : \E j \in DOMAIN frames : Tail(frames)[i] = frames[j]
      BY <2>1, <3>1, ColaDe
    <3> QED
      BY <2>1, <3>2
  <2> QED
    BY <1>0, <1>a, <2>1, <2>2, VigenciaSigue
<1>8. CASE ResizeSube
  <2>1. /\ UNCHANGED io_frames /\ (frames' = <<>> \/ UNCHANGED <<frames, pcb>>)
        /\ \E n : resize_up(pcb, n)
    BY <1>8 DEF ResizeSube, Devuelve
  <2>2. /\ \A q \in Pids : q # pcb => pages'[q] = pages[q]
        /\ frames = <<>> /\ io_frames[pcb] = <<>>
    BY <1>0, <1>8, <2>1 DEF ResizeSube, resize_up, TablasOK, RolInv
  <2> QED
    BY <1>0, <1>a, <1>b, <2>1, <2>2, VigenciaSigue
<1>9. ASSUME NEW h \in Hilos, Quita(h)
      PROVE  VigenciaInv'
  <2>1. /\ UNCHANGED <<io_frames, frames, pcb>> /\ faltan[h] > 0
        /\ \A q \in Pids : q # baja[h] => pages'[q] = pages[q]
    BY <1>0, <1>9 DEF Quita, QuitaPagina, cpuVars, TablasOK
  <2>2. baja[h] \in Pids
    BY <2>1 DEF CohInv, MarcosInv, TablasInv, BajaInv
  <2>3. io_frames[baja[h]] = <<>> /\ (pcb = baja[h] => frames = <<>>)
    <3>1. CASE h = "cpu"
      BY <1>0, <2>1, <2>2, <3>1, EntradasDe DEF RolInv
    <3>2. CASE h = "kernel"
      BY <1>0, <2>2, <3>2 DEF RolInv
    <3> QED
      BY <1>9, <3>1, <3>2 DEF Hilos
  <2> QED
    BY <1>0, <1>a, <2>1, <2>2, <2>3, VigenciaSigue
<1>10. ASSUME NEW p \in Pids, CreaProceso(p)
       PROVE  VigenciaInv'
  <2>1. /\ UNCHANGED <<io_frames, frames, pcb>> /\ proc[p] = "no"
        /\ pages' = [pages EXCEPT ![p] = <<>>]
    BY <1>10 DEF CreaProceso, leer_archivo, cpuVars
  <2>2. pages' = pages
    BY <1>0, <2>1 DEF TablasOK, RolInv
  <2> QED
    BY <1>0, <1>a, <2>1, <2>2, VigenciaSigue
<1>11. CASE TlbHit
  <2> DEFINE a == Head(por_traducir)
  <2>1. PICK i \in DOMAIN tlb_queue :
            EsHit(tlb_queue[i], pcb, a.page) /\ Traduce(a, tlb_queue[i].frame)
    BY <1>11 DEF TlbHit
  <2>2. cpu = "traduce" /\ por_traducir # <<>>
    BY <1>11 DEF TlbHit
  <2>3. Vigente(pcb, tlb_queue[i]) /\ tlb_queue[i].frame \in Marcos
    <3>1. pcb \in memoria_procesos
      BY <1>0, <2>2 DEF RolInv
    <3>2. EntradaOK(tlb_queue[i])
      BY <1>0 DEF TlbInv
    <3> QED
      BY <2>1, <3>1, <3>2, EntradasDe DEF EntradaOK, EsHit
  <2>4. a.page < Len(pages[pcb]) /\ pages[pcb][a.page + 1] = tlb_queue[i].frame
    BY <2>1, <2>3 DEF EsHit, Vigente
  <2> QED
    BY <2>1, <2>2, <2>3, <2>4, VigenciaTraduce
<1>12. CASE Consulta
  <2> DEFINE a == Head(por_traducir)
             m == pages[pcb][a.page + 1]
  <2>1. /\ por_traducir # <<>> /\ pcb \in Pids /\ a.page < Len(pages[pcb])
        /\ Traduce(a, m) /\ cpu = "traduce"
    BY <1>0, <1>12 DEF Consulta, TlbMiss
  <2>2. a.page \in Nat
    <3>1. por_traducir \in Seq(Accesos)
      BY <1>0 DEF TipoInv
    <3>2. a \in Accesos
      BY <2>1, <3>1, SeqTipo
    <3> QED
      BY <3>2 DEF Accesos
  <2>3. m \in Marcos
    BY <1>0, <2>1, <2>2, PaginaEsMarco
  <2> QED
    BY <2>1, <2>3, VigenciaTraduce
<1>13. CASE Traducido
  <2>1. UNCHANGED pages /\ cpu = "traduce"
    BY <1>13 DEF Traducido, memVars
  <2>2. CASE instruccion = "io"
    <3>1. io_frames' = [io_frames EXCEPT ![pcb] = frames] /\ frames' = <<>>
      BY <1>13, <2>2 DEF Traducido, Devuelve
    <3>2. \A q \in Pids : io_frames'[q] = IF q = pcb THEN frames ELSE io_frames[q]
      BY <1>0, <3>1 DEF TipoInv
    <3>3. pcb # Nadie
      BY <1>0, <2>1
    <3> QED
      BY <1>0, <1>b, <2>1, <3>1, <3>2, <3>3 DEF VigenciaInv, Vigente
  <2>3. CASE instruccion # "io"
    <3>1. UNCHANGED <<io_frames, frames, pcb>>
      BY <1>13, <2>3 DEF Traducido
    <3> QED
      BY <1>0, <1>a, <2>1, <3>1, VigenciaSigue
  <2> QED
    BY <2>2, <2>3
<1> QED
  BY <1>1, <1>2, <1>3, <1>4, <1>5, <1>6, <1>7, <1>8, <1>9, <1>10, <1>11, <1>12, <1>13
     DEF Next

-----------------------------------------------------------------------------
(* What was written.                                                       *)

\* Nobody writes, and the pages that were written stay where they were.
LEMMA EscritoSigue ==
    ASSUME EscritoInv, TipoInv, UNCHANGED usuario,
           \A q \in Pids : \A k \in escrito'[q] :
                k \in escrito[q] /\ (k < Len(pages[q]) =>
                    k < Len(pages'[q]) /\ pages'[q][k + 1] = pages[q][k + 1])
    PROVE  EscritoInv'
<1> SUFFICES ASSUME NEW q \in Pids, NEW k \in escrito'[q]
             PROVE  k < Len(pages'[q]) /\ usuario'[pages'[q][k + 1]] = <<q, k>>
  BY DEF EscritoInv
<1>1. k \in escrito[q] /\ k < Len(pages[q]) /\ usuario[pages[q][k + 1]] = <<q, k>>
  BY DEF EscritoInv
<1> QED
  BY <1>1

\* One access to a page of the process.
LEMMA EscritoAccede ==
    ASSUME CohInv, NEW p \in Pids, NEW f \in Traducidos, Vigente(p, f), Accede(p, f)
    PROVE  EscritoInv'
<1>0. EscritoInv /\ TipoInv /\ TablasOK /\ MarcosExclusivos
  BY DEF CohInv, MarcosInv, TablasInv
<1>1. /\ f.page \in Nat /\ f.frame \in Marcos /\ UNCHANGED pages
      /\ f.page < Len(pages[p]) /\ pages[p][f.page + 1] = f.frame
  BY DEF Traducidos, Vigente, Accede, accede_memoria
<1>2. CASE f.escribe
  <2>1. /\ \A m \in Marcos : usuario'[m] = IF m = f.frame THEN <<p, f.page>> ELSE usuario[m]
        /\ \A q \in Pids : escrito'[q] = IF q = p THEN escrito[p] \cup {f.page} ELSE escrito[q]
    BY <1>0, <1>1, <1>2 DEF Accede, accede_memoria, TipoInv
  <2> SUFFICES ASSUME NEW q \in Pids, NEW k \in escrito'[q]
               PROVE  k < Len(pages'[q]) /\ usuario'[pages'[q][k + 1]] = <<q, k>>
    BY DEF EscritoInv
  <2>2. CASE q = p /\ k = f.page
    BY <1>1, <2>1, <2>2
  <2>3. CASE ~(q = p /\ k = f.page)
    <3>1. k \in escrito[q] /\ k \in Nat
      BY <1>0, <2>1, <2>3, ZenonT(90) DEF TipoInv
    <3>2. k < Len(pages[q]) /\ usuario[pages[q][k + 1]] = <<q, k>>
      BY <1>0, <3>1 DEF EscritoInv
    <3>3. pages[q][k + 1] \in Marcos
      BY <1>0, <3>1, <3>2, PaginaEsMarco
    <3>4. k + 1 \in DOMAIN pages[q] /\ f.page + 1 \in DOMAIN pages[p]
      BY <1>0, <1>1, <3>1, <3>2, TablaDefinida
    <3>5. pages[q][k + 1] # f.frame
      <4>1. SUFFICES ASSUME pages[q][k + 1] = pages[p][f.page + 1]
                     PROVE  FALSE
        BY <1>1
      <4>2. q = p /\ k + 1 = f.page + 1
        BY <1>0, <3>4, <4>1 DEF MarcosExclusivos
      <4> QED
        BY <1>1, <2>3, <3>1, <4>2
    <3> QED
      BY <1>1, <2>1, <3>2, <3>3, <3>5
  <2> QED
    BY <2>2, <2>3
<1>3. CASE ~f.escribe
  <2>1. usuario' = usuario /\ \A q \in Pids : escrito'[q] = escrito[q]
    BY <1>0, <1>3 DEF Accede, accede_memoria, TipoInv
  <2> QED
    BY <1>0, <1>1, <2>1, EscritoSigue
<1> QED
  BY <1>2, <1>3

\* Every step keeps what was written in pages the process still has.
LEMMA EscritoPaso ==
    ASSUME CohInv, Next
    PROVE  EscritoInv'
<1>0. /\ EscritoInv /\ VigenciaInv /\ TipoInv /\ RolInv /\ TablasOK /\ CpuInv
      /\ cpu # "libre" => pcb \in Pids /\ pcb # Nadie
  BY EntradasDe DEF CohInv, MarcosInv, TablasInv
<1>1. CASE UNCHANGED <<usuario, pages, escrito>>
  BY <1>0, <1>1, EscritoSigue
<1>2. CASE Desaloja \/ ResizeIgual \/ ResizeBaja \/ ResizeResponde \/ ConsultaFalla
           \/ FinInstruccion \/ TerminaLibera \/ TlbHit \/ Consulta \/ Traducido
  BY <1>1, <1>2 DEF Desaloja, ResizeIgual, ResizeBaja, ResizeResponde, TerminaBaja,
                    ConsultaFalla, FinInstruccion, TerminaLibera, TlbHit, Consulta, Traduce,
                    Traducido, memVars, cpuVars, kernelVars
<1>3. ASSUME NEW n \in 0 .. MaxPaginas, ResizePide(n)
      PROVE  EscritoInv'
  BY <1>1, <1>3 DEF ResizePide, memVars, kernelVars
<1>4. CASE Instruccion
  BY <1>1, <1>4 DEF Instruccion, Empieza, memVars, kernelVars
<1>5. ASSUME NEW h \in Hilos, Limpia(h)
      PROVE  EscritoInv'
  BY <1>1, <1>5 DEF Limpia, LimpiaBit, kernelVars
<1>6. ASSUME NEW p \in Pids, Despacha(p) \/ IoSirve(p) \/ Finaliza(p) \/ IoTermina(p)
      PROVE  EscritoInv'
  BY <1>1, <1>6 DEF Despacha, IoSirve, Finaliza, IoTermina, memVars
<1>7. ASSUME NEW p \in Pids, Libera(p)
      PROVE  EscritoInv'
  <2>1. UNCHANGED <<pages, usuario>> /\ escrito' = [escrito EXCEPT ![p] = {}]
    BY <1>7 DEF Libera, liberar_memoria
  <2>2. \A q \in Pids : escrito'[q] \subseteq escrito[q]
    BY <1>0, <2>1 DEF TipoInv
  <2> QED
    BY <1>0, <2>1, <2>2, EscritoSigue
<1>8. CASE ResizeSube
  <2>1. pcb \in Pids /\ pedido - Len(pages[pcb]) \in Nat
    BY <1>0, <1>8, TablaDefinida DEF ResizeSube, CpuInv
  <2>2. UNCHANGED <<usuario, escrito>> /\ resize_up(pcb, pedido - Len(pages[pcb]))
    BY <1>8 DEF ResizeSube, resize_up
  <2>3. \A q \in Pids : /\ Len(pages[q]) <= Len(pages'[q]) /\ Len(pages'[q]) \in Nat
                        /\ \A k \in 1 .. Len(pages[q]) : pages'[q][k] = pages[q][k]
    BY <1>0, <2>1, <2>2, ResizeUpPrefijo
  <2>4. \A q \in Pids : Len(pages[q]) \in Nat
    BY <1>0, TablaDefinida
  <2>5. \A q \in Pids : \A k \in escrito'[q] : k \in escrito[q] /\ k \in Nat
    BY <1>0, <2>2 DEF TipoInv
  <2>6. ASSUME NEW q \in Pids, NEW k \in Nat, k < Len(pages[q])
        PROVE  k < Len(pages'[q]) /\ pages'[q][k + 1] = pages[q][k + 1]
    BY <2>3, <2>4, <2>6
  <2> QED
    BY <1>0, <2>2, <2>5, <2>6, EscritoSigue
<1>9. ASSUME NEW h \in Hilos, Quita(h)
      PROVE  EscritoInv'
  <2> DEFINE p == baja[h]
             u == Len(pages[p])
  <2>1. /\ UNCHANGED usuario /\ faltan[h] > 0 /\ pages[p] # <<>>
        /\ pages' = [pages EXCEPT ![p] = SubSeq(@, 1, u - 1)]
        /\ escrito' = [escrito EXCEPT ![p] = {k \in @ : k < Len(pages'[p])}]
    BY <1>9 DEF Quita, QuitaPagina
  <2>2. p \in Pids /\ pages[p] \in Seq(Marcos) /\ u \in Nat /\ u > 0
    BY <1>0, <2>1, TablaDefinida DEF CohInv, MarcosInv, TablasInv, BajaInv, TablasOK
  <2>3. /\ Len(pages'[p]) = u - 1 /\ \A k \in 1 .. u - 1 : pages'[p][k] = pages[p][k]
        /\ \A q \in Pids : q # p => pages'[q] = pages[q]
    <3>1. \A k \in 1 .. u - 1 : pages[p][k] \in Marcos
      BY <1>0, <2>2, TablaDefinida
    <3>2. /\ Len(SubSeq(pages[p], 1, u - 1)) = u - 1
          /\ \A k \in 1 .. u - 1 : SubSeq(pages[p], 1, u - 1)[k] = pages[p][k]
      BY <2>2, <3>1, SubSeqProperties
    <3>3. pages'[p] = SubSeq(pages[p], 1, u - 1) /\ \A q \in Pids : q # p => pages'[q] = pages[q]
      BY <1>0, <2>1, <2>2 DEF TablasOK
    <3> QED
      BY <3>2, <3>3
  <2>4. /\ escrito'[p] = {k \in escrito[p] : k < Len(pages'[p])}
        /\ \A q \in Pids : q # p => escrito'[q] = escrito[q]
    BY <1>0, <2>1, <2>2 DEF TipoInv
  <2>5. \A k \in escrito'[p] : k \in escrito[p] /\ k \in Nat /\ k < u - 1
    BY <1>0, <2>2, <2>3, <2>4 DEF TipoInv
  <2>6. \A k \in escrito'[p] : k < Len(pages'[p]) /\ pages'[p][k + 1] = pages[p][k + 1]
    BY <2>2, <2>3, <2>5, SMTT(60)
  <2> HIDE DEF p, u
  <2>7. \A q \in Pids : \A k \in escrito'[q] :
            k \in escrito[q] /\ (k < Len(pages[q]) =>
                k < Len(pages'[q]) /\ pages'[q][k + 1] = pages[q][k + 1])
    BY <2>3, <2>4, <2>5, <2>6
  <2> QED
    BY <1>0, <2>1, <2>7, EscritoSigue
<1>10. ASSUME NEW p \in Pids, CreaProceso(p)
       PROVE  EscritoInv'
  <2>1. /\ UNCHANGED <<usuario, escrito>> /\ proc[p] = "no"
        /\ pages' = [pages EXCEPT ![p] = <<>>]
    BY <1>10 DEF CreaProceso, leer_archivo
  <2>2. pages' = pages
    BY <1>0, <2>1 DEF TablasOK, RolInv
  <2> QED
    BY <1>1, <2>1, <2>2
<1>11. CASE AccedeCpu
  <2>1. pcb \in Pids /\ pcb # Nadie /\ frames # <<>> /\ Accede(pcb, Head(frames))
    BY <1>0, <1>11 DEF AccedeCpu
  <2>2. frames \in Seq(Traducidos)
    BY <1>0 DEF TipoInv
  <2>3. Head(frames) \in Traducidos /\ Head(frames) = frames[1] /\ 1 \in DOMAIN frames
    BY <2>1, <2>2, SeqTipo, EmptySeq, LenProperties
  <2>4. Vigente(pcb, Head(frames))
    BY <1>0, <2>1, <2>3 DEF VigenciaInv
  <2> QED
    BY <2>1, <2>3, <2>4, EscritoAccede
<1>12. ASSUME NEW p \in Pids, AccedeIo(p)
       PROVE  EscritoInv'
  <2> DEFINE s == io_frames[p]
  <2>1. s # <<>> /\ Accede(p, Head(s))
    BY <1>12 DEF AccedeIo
  <2>2. s \in Seq(Traducidos)
    BY <1>0 DEF TipoInv
  <2>3. \A i \in DOMAIN s : Vigente(p, s[i])
    BY <1>0 DEF VigenciaInv
  <2> HIDE DEF s
  <2>4. Head(s) \in Traducidos /\ Head(s) = s[1] /\ 1 \in DOMAIN s
    BY <2>1, <2>2, SeqTipo, EmptySeq, LenProperties
  <2>5. Vigente(p, Head(s))
    BY <2>3, <2>4
  <2> QED
    BY <2>1, <2>4, <2>5, EscritoAccede
<1> QED
  BY <1>2, <1>3, <1>4, <1>5, <1>6, <1>7, <1>8, <1>9, <1>10, <1>11, <1>12 DEF Next

-----------------------------------------------------------------------------
(* The bitmap.                                                             *)

\* No bit is set, and no frame leaves its place.
LEMMA PerdidosSigue ==
    ASSUME SinMarcosPerdidos, bit_map' \subseteq bit_map, UNCHANGED <<pages, marco>>
    PROVE  SinMarcosPerdidos'
BY DEF SinMarcosPerdidos

\* No step loses a frame.
LEMMA PerdidosPaso ==
    ASSUME CohInv, Next
    PROVE  SinMarcosPerdidos'
<1>0. /\ SinMarcosPerdidos /\ TipoInv /\ RolInv /\ TablasOK /\ CpuInv
      /\ cpu # "libre" => pcb \in Pids
  BY DEF CohInv, MarcosInv, TablasInv, CpuInv
<1>1. CASE UNCHANGED <<bit_map, pages, marco>>
  BY <1>0, <1>1, PerdidosSigue
<1>2. CASE Desaloja \/ ResizeIgual \/ ResizeBaja \/ ResizeResponde \/ ConsultaFalla
           \/ FinInstruccion \/ TerminaLibera \/ TlbHit \/ Consulta \/ Traducido \/ AccedeCpu
  BY <1>1, <1>2 DEF Desaloja, ResizeIgual, ResizeBaja, EmpiezaBaja, ResizeResponde,
                    TerminaBaja, ConsultaFalla, FinInstruccion, TerminaLibera, TlbHit,
                    Consulta, Traduce, Traducido, AccedeCpu, Accede, accede_memoria,
                    memVars, bajaVars
<1>3. ASSUME NEW n \in 0 .. MaxPaginas, ResizePide(n)
      PROVE  SinMarcosPerdidos'
  BY <1>1, <1>3 DEF ResizePide, memVars, bajaVars
<1>4. CASE Instruccion
  BY <1>1, <1>4 DEF Instruccion, Empieza, memVars, bajaVars
<1>5. ASSUME NEW p \in Pids, Despacha(p) \/ IoSirve(p) \/ Finaliza(p) \/ IoTermina(p)
                             \/ AccedeIo(p) \/ Libera(p)
      PROVE  SinMarcosPerdidos'
  BY <1>1, <1>5 DEF Despacha, IoSirve, Finaliza, IoTermina, AccedeIo, Accede,
                    accede_memoria, Libera, liberar_memoria, EmpiezaBaja, memVars, bajaVars
<1>6. ASSUME NEW p \in Pids, CreaProceso(p)
      PROVE  SinMarcosPerdidos'
  <2>1. /\ UNCHANGED <<bit_map, marco>> /\ proc[p] = "no"
        /\ pages' = [pages EXCEPT ![p] = <<>>]
    BY <1>6 DEF CreaProceso, leer_archivo, bajaVars
  <2>2. pages' = pages
    BY <1>0, <2>1 DEF TablasOK, RolInv
  <2> QED
    BY <1>1, <2>1, <2>2
<1>7. CASE ResizeSube
  <2>1. pcb \in Pids /\ pedido - Len(pages[pcb]) \in Nat
    BY <1>0, <1>7, TablaDefinida DEF ResizeSube, CpuInv
  <2>2. UNCHANGED marco /\ resize_up(pcb, pedido - Len(pages[pcb]))
    BY <1>7 DEF ResizeSube, resize_up, bajaVars
  <2>3. /\ \A q \in Pids : /\ Len(pages'[q]) \in Nat /\ Len(pages[q]) <= Len(pages'[q])
                           /\ DOMAIN pages'[q] = 1 .. Len(pages'[q])
                           /\ \A k \in 1 .. Len(pages[q]) : pages'[q][k] = pages[q][k]
        /\ \A m \in bit_map' : m \in bit_map
                 \/ \E k \in DOMAIN pages'[pcb] : pages'[pcb][k] = m
    BY <1>0, <2>1, <2>2, ResizeUpPrefijo
  <2> SUFFICES ASSUME NEW m \in bit_map'
               PROVE  (\E p \in Pids : m \in Range(pages'[p])) \/ \E h \in Hilos : marco'[h] = m
    BY DEF SinMarcosPerdidos
  <2>4. CASE m \in bit_map
    <3>1. CASE \E h \in Hilos : marco[h] = m
      BY <2>2, <3>1
    <3>2. ASSUME NEW p \in Pids, m \in Range(pages[p])
          PROVE  m \in Range(pages'[p])
      <4>1. PICK k \in DOMAIN pages[p] : pages[p][k] = m
        BY <3>2 DEF Range
      <4>2. Len(pages[p]) \in Nat /\ DOMAIN pages[p] = 1 .. Len(pages[p])
        BY <1>0, TablaDefinida
      <4>3. k \in DOMAIN pages'[p] /\ pages'[p][k] = m
        BY <2>3, <4>1, <4>2
      <4> QED
        BY <4>3 DEF Range
    <3> QED
      BY <1>0, <2>4, <3>1, <3>2 DEF SinMarcosPerdidos
  <2>5. CASE \E k \in DOMAIN pages'[pcb] : pages'[pcb][k] = m
    BY <2>1, <2>5 DEF Range
  <2> QED
    BY <2>3, <2>4, <2>5
<1>8. ASSUME NEW h \in Hilos, Limpia(h)
      PROVE  SinMarcosPerdidos'
  <2>1. /\ UNCHANGED pages /\ bit_map' = bit_map \ {marco[h]}
        /\ marco' = [marco EXCEPT ![h] = SinMarco]
    BY <1>8 DEF Limpia, LimpiaBit
  <2>2. \A g \in Hilos : g # h => marco'[g] = marco[g]
    BY <1>0, <2>1 DEF TablasOK
  <2> QED
    BY <1>0, <2>1, <2>2 DEF SinMarcosPerdidos
<1>9. ASSUME NEW h \in Hilos, Quita(h)
      PROVE  SinMarcosPerdidos'
  <2> DEFINE p == baja[h]
             u == Len(pages[p])
  <2>1. /\ UNCHANGED bit_map /\ faltan[h] > 0 /\ pages[p] # <<>> /\ marco[h] = SinMarco
        /\ marco' = [marco EXCEPT ![h] = pages[p][u]]
        /\ pages' = [pages EXCEPT ![p] = SubSeq(@, 1, u - 1)]
    BY <1>9 DEF Quita, QuitaPagina
  <2>2. p \in Pids /\ pages[p] \in Seq(Marcos) /\ u \in Nat /\ u > 0
        /\ DOMAIN pages[p] = 1 .. u
    BY <1>0, <2>1, TablaDefinida DEF CohInv, MarcosInv, TablasInv, BajaInv, TablasOK
  <2>3. /\ DOMAIN pages'[p] = 1 .. u - 1 /\ \A k \in 1 .. u - 1 : pages'[p][k] = pages[p][k]
        /\ \A q \in Pids : q # p => pages'[q] = pages[q]
    <3>1. \A k \in 1 .. u - 1 : pages[p][k] \in Marcos
      BY <1>0, <2>2, TablaDefinida
    <3>2. /\ SubSeq(pages[p], 1, u - 1) \in Seq(Marcos)
          /\ Len(SubSeq(pages[p], 1, u - 1)) = u - 1
          /\ \A k \in 1 .. u - 1 : SubSeq(pages[p], 1, u - 1)[k] = pages[p][k]
      BY <2>2, <3>1, SubSeqProperties
    <3>3. pages'[p] = SubSeq(pages[p], 1, u - 1) /\ \A q \in Pids : q # p => pages'[q] = pages[q]
      BY <1>0, <2>1, <2>2 DEF TablasOK
    <3> QED
      BY <3>2, <3>3, LenProperties
  <2>4. marco'[h] = pages[p][u] /\ \A g \in Hilos : g # h => marco'[g] = marco[g]
    BY <1>0, <2>1 DEF TablasOK
  <2> HIDE DEF p, u
  <2> SUFFICES ASSUME NEW m \in bit_map'
               PROVE  (\E q \in Pids : m \in Range(pages'[q])) \/ \E g \in Hilos : marco'[g] = m
    BY DEF SinMarcosPerdidos
  <2>5. m \in Marcos /\ m \in bit_map /\ m # SinMarco
    BY <1>0, <2>1, MemoriaAssumption DEF TablasOK, Marcos, SinMarco
  <2>6. ASSUME NEW g \in Hilos, marco[g] = m
        PROVE  marco'[g] = m
    BY <2>1, <2>4, <2>5, <2>6
  <2>7. ASSUME NEW q \in Pids, NEW k \in DOMAIN pages[q], pages[q][k] = m
        PROVE  m \in Range(pages'[q]) \/ marco'[h] = m
    <3>1. CASE q = p /\ k = u
      BY <2>4, <2>7, <3>1
    <3>2. CASE q = p /\ k # u
      <4>1. k \in DOMAIN pages'[q] /\ pages'[q][k] = m
        BY <2>2, <2>3, <2>7, <3>2
      <4> QED
        BY <4>1 DEF Range
    <3>3. CASE q # p
      BY <2>3, <2>7, <3>3 DEF Range
    <3> QED
      BY <3>1, <3>2, <3>3
  <2>8. (\E q \in Pids : \E k \in DOMAIN pages[q] : pages[q][k] = m)
            \/ \E g \in Hilos : marco[g] = m
    BY <1>0, <2>5 DEF SinMarcosPerdidos, Range
  <2> QED
    BY <1>9, <2>6, <2>7, <2>8
<1> QED
  BY <1>2, <1>3, <1>4, <1>5, <1>6, <1>7, <1>8, <1>9 DEF Next

-----------------------------------------------------------------------------
(* The whole system.                                                       *)

\* The inductive invariant at the start.
LEMMA CohInit == Init => CohInv
<1> SUFFICES ASSUME Init
             PROVE  CohInv
  OBVIOUS
<1>1. MarcosInv
  BY InitInv
<1>2. TipoInv
  BY EmptySeq DEF Init, MemInit, TipoInv, Basura
<1>3. /\ \A p \in Pids : io_frames[p] = <<>> /\ proc[p] = "no" /\ pages[p] = <<>>
                         /\ escrito[p] = {}
      /\ baja["kernel"] = Nadie /\ baja["cpu"] = Nadie /\ memoria_procesos = {}
      /\ cpu = "libre" /\ pcb = Nadie /\ frames = <<>> /\ tlb_queue = <<>> /\ bit_map = {}
  BY DEF Init, MemInit, Hilos
<1>4. RolInv
  BY <1>3 DEF RolInv
<1>5. TlbInv /\ VigenciaInv /\ EscritoInv /\ SinMarcosPerdidos
  BY <1>3 DEF TlbInv, VigenciaInv, EscritoInv, SinMarcosPerdidos
<1> QED
  BY <1>1, <1>2, <1>4, <1>5 DEF CohInv

\* Every step keeps it.
LEMMA CohPaso == CohInv /\ [Next]_vars => CohInv'
<1> SUFFICES ASSUME CohInv, [Next]_vars
             PROVE  CohInv'
  OBVIOUS
<1>1. MarcosInv'
  BY PasoInv DEF CohInv
<1>2. CASE Next
  BY <1>1, <1>2, TipoPaso, RolPaso, TlbPaso, VigenciaPaso, EscritoPaso, PerdidosPaso DEF CohInv
<1>3. CASE UNCHANGED vars
  <2>1. TipoInv' /\ RolInv'
    BY <1>3 DEF CohInv, vars, memVars, bajaVars, cpuVars, kernelVars, TipoInv, RolInv
  <2>2. TlbInv' /\ VigenciaInv' /\ EscritoInv' /\ SinMarcosPerdidos'
    BY <1>3 DEF CohInv, vars, memVars, bajaVars, cpuVars, kernelVars, TlbInv, EntradaOK, Meta,
                VigenciaInv, Vigente, EscritoInv, SinMarcosPerdidos
  <2> QED
    BY <1>1, <2>1, <2>2 DEF CohInv
<1> QED
  BY <1>2, <1>3

\* So it holds in every reachable state.
LEMMA CohSiempre == Spec => []CohInv
BY CohInit, CohPaso, PTL DEF Spec

\* The state of memoria, of the CPU and of the requests of IO is always of
\* its type: a page table holds frames only, and an access is always to one
\* (memoria: proceso.c, usuario.c; cpu: mmu.c).
THEOREM TiposMmu == Spec => []MmuTypeOK
<1>1. CohInv => MmuTypeOK
  BY DEF CohInv, MarcosInv, TablasInv, TablasOK, CpuInv, TipoInv, MmuTypeOK, MemTypeOK
<1> QED
  BY CohSiempre, <1>1, PTL

\* For any replacement of the TLB and any number of entries, what it answers
\* for a process alive is what its page table says (cpu: mmu.c, tlb.c,
\* instructions.c resize_process).
THEOREM TlbSiempreCoherente == Spec => []TlbCoherente
<1>1. CohInv => TlbCoherente
  BY DEF CohInv, TlbInv, EntradaOK, Vigente, TlbCoherente
<1> QED
  BY CohSiempre, <1>1, PTL

\* A physical address that somebody holds, an instruction half done or a
\* request queued for an interface, is still the process's own when it is
\* used (cpu: mmu.c; entradasalida: stdin.c, stdout.c, dialfs.c).
THEOREM DireccionesSiempreVigentes == Spec => []DireccionesVigentes
<1>1. CohInv => DireccionesVigentes
  BY DEF CohInv, VigenciaInv, Vigente, DireccionesVigentes
<1> QED
  BY CohSiempre, <1>1, PTL

\* What a process wrote in a page of its own is there until it writes again
\* or gives the page back, whatever the others do (memoria: usuario.c).
THEOREM ProcesosAislados == Spec => []Aislamiento
<1>1. CohInv => Aislamiento
  BY DEF CohInv, EscritoInv, Aislamiento
<1> QED
  BY CohSiempre, <1>1, PTL

\* Every bit that is set in the bitmap is that of a page of somebody, or of a
\* frame a thread of memoria is giving back (memoria: usuario.c resize_down).
THEOREM NingunMarcoPerdido == Spec => []SinMarcosPerdidos
<1>1. CohInv => SinMarcosPerdidos
  BY DEF CohInv
<1> QED
  BY CohSiempre, <1>1, PTL

=============================================================================
