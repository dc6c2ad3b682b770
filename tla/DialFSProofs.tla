---------------------------- MODULE DialFSProofs ----------------------------
(***************************************************************************)
(* Proofs about DialFS, for any finite set of files, any disk and any      *)
(* sizes: the search of get_init_block_file returns free runs inside the   *)
(* disk, memory and disk agree between operations, no two files share a    *)
(* block but those a stop or a negative size exposed, no block leaks, a    *)
(* compaction always finds room, and files keep their contents.            *)
(*                                                                         *)
(* The invariant DialInv follows an operation through its saves: what is   *)
(* not waiting to be saved is saved (AlDia), the saves left are those of   *)
(* the operation under way in an order that gives up blocks before it      *)
(* unmarks them and marks them before it takes them (EnCurso), and both    *)
(* memory and what a stop would leave are sane (Sanos).                    *)
(*                                                                         *)
(* The loop of the search and the loop of the compaction are recursive     *)
(* functions: that they have a value at every index, and what it is, comes *)
(* from the least index where it would fail (Minimo, HaciaAtras,           *)
(* HaciaAdelante).                                                         *)
(***************************************************************************)
EXTENDS DialFS, Secuencias

-----------------------------------------------------------------------------
(* The search of a free run.                                               *)

\* The step of the loop of get_init_block_file at block i.
Sigue(bits, size, i, busca) ==
    IF i >= N \/ size = 0 THEN -1
    ELSE LET ocupados == {k \in i + 1 .. i + size - 1 : k < N /\ bits[k]} IN
         IF bits[i] THEN busca[i + 1]
         ELSE IF ocupados # {}
              THEN busca[2 + CHOOSE k \in ocupados : \A j \in ocupados : k <= j]
         ELSE IF i + size <= N THEN i ELSE -1
Recorre(bits, size, busca) == busca = [i \in 0 .. N + 1 |-> Sigue(bits, size, i, busca)]

\* It stops, gives the block itself, or what it gives at a later one.
LEMMA SigueAdelante ==
    ASSUME NEW bits, NEW size \in Int, NEW i \in 0 .. N + 1
    PROVE  \/ i >= N \/ size = 0
           \/ /\ i < N /\ size # 0 /\ bits[i]
              /\ \A g : Sigue(bits, size, i, g) = g[i + 1]
           \/ /\ i < N /\ size # 0 /\ ~bits[i]
              /\ \E k \in i + 1 .. N - 1 : /\ k < i + size
                                           /\ \A g : Sigue(bits, size, i, g) = g[k + 2]
           \/ /\ i < N /\ size # 0 /\ ~bits[i]
              /\ \A k \in i + 1 .. i + size - 1 : k < N => ~bits[k]
              /\ \A g : Sigue(bits, size, i, g) = IF i + size <= N THEN i ELSE -1
<1> DEFINE ocupados == {k \in i + 1 .. i + size - 1 : k < N /\ bits[k]}
<1>1. N \in Nat
  BY DialAssumption
<1>2. CASE i >= N \/ size = 0
  BY <1>2
<1>3. CASE i < N /\ size # 0 /\ bits[i]
  BY <1>1, <1>3 DEF Sigue
<1>4. CASE i < N /\ size # 0 /\ ~bits[i] /\ ocupados # {}
  <2> DEFINE c == CHOOSE k \in ocupados : \A j \in ocupados : k <= j
  <2>1. ocupados \subseteq Nat
    OBVIOUS
  <2>2. c \in ocupados
    BY <1>4, <2>1, Minimo
  <2>3. \A g : Sigue(bits, size, i, g) = g[2 + c]
    BY <1>1, <1>4 DEF Sigue
  <2> HIDE DEF c
  <2>4. c \in i + 1 .. N - 1 /\ c < i + size /\ 2 + c = c + 2
    BY <1>1, <2>2
  <2> QED
    BY <1>4, <2>3, <2>4
<1>5. CASE i < N /\ size # 0 /\ ~bits[i] /\ ocupados = {}
  <2>1. \A g : Sigue(bits, size, i, g) = IF i + size <= N THEN i ELSE -1
    BY <1>1, <1>5 DEF Sigue
  <2> QED
    BY <1>5, <2>1
<1> QED
  BY <1>1, <1>2, <1>3, <1>4, <1>5

\* Past the end nothing is found.
LEMMA SigueFin ==
    ASSUME NEW bits, NEW size \in Int, NEW i \in 0 .. N + 1, i >= N \/ size = 0, NEW g
    PROVE  Sigue(bits, size, i, g) = -1
BY DEF Sigue

\* The recursion of the search has a solution.
LEMMA BuscaExiste ==
    ASSUME NEW bits, NEW size \in Int
    PROVE  \E busca : Recorre(bits, size, busca)
<1>1. N \in Nat
  BY DialAssumption
<1> DEFINE Hasta(g, m) ==
              /\ g = [i \in 0 .. N + 1 |-> g[i]]
              /\ \A i \in m .. N + 1 : g[i] = Sigue(bits, size, i, g)
           T == {m \in 0 .. N + 1 : \E g : Hasta(g, m)}
<1>2. N + 1 \in T
  <2> DEFINE g == [i \in 0 .. N + 1 |-> -1]
  <2>1. g[N + 1] = Sigue(bits, size, N + 1, g)
    BY <1>1, SigueFin
  <2>2. Hasta(g, N + 1)
    BY <1>1, <2>1
  <2> QED
    BY <1>1, <2>2
<1>3. ASSUME NEW m \in 0 .. N, m + 1 \in T PROVE m \in T
  <2>1. PICK g : Hasta(g, m + 1)
    BY <1>3
  <2> DEFINE h == [i \in 0 .. N + 1 |-> IF i = m THEN Sigue(bits, size, m, g) ELSE g[i]]
  <2>2. ASSUME NEW i \in m .. N + 1 PROVE h[i] = Sigue(bits, size, i, h)
    <3>1. i \in 0 .. N + 1 /\ \A j \in i + 1 .. N + 1 : h[j] = g[j]
      BY <1>1
    <3>2. Sigue(bits, size, i, h) = Sigue(bits, size, i, g)
      <4> HIDE DEF h
      <4>1. CASE i >= N \/ size = 0
        BY <3>1, <4>1, SigueFin
      <4>2. CASE i < N /\ size # 0 /\ bits[i] /\ \A f : Sigue(bits, size, i, f) = f[i + 1]
        BY <1>1, <3>1, <4>2
      <4>3. CASE i < N /\ size # 0 /\ \E k \in i + 1 .. N - 1 : \A f : Sigue(bits, size, i, f) = f[k + 2]
        <5>1. PICK k \in i + 1 .. N - 1 : \A f : Sigue(bits, size, i, f) = f[k + 2]
          BY <4>3
        <5>2. k + 2 \in i + 1 .. N + 1
          BY <1>1, <3>1
        <5> QED
          BY <3>1, <5>1, <5>2
      <4>4. CASE \A f : Sigue(bits, size, i, f) = IF i + size <= N THEN i ELSE -1
        BY <4>4
      <4> QED
        BY <3>1, <4>1, <4>2, <4>3, <4>4, SigueAdelante
    <3>3. h[i] = Sigue(bits, size, i, g)
      BY <1>1, <2>1, <3>1
    <3> QED
      BY <3>2, <3>3
  <2>3. Hasta(h, m)
    <3>1. h = [i \in 0 .. N + 1 |-> h[i]]
      OBVIOUS
    <3> HIDE DEF h
    <3> QED
      BY <2>2, <3>1
  <2>4. \E f : Hasta(f, m)
    <3> HIDE DEF Hasta, h
    <3> QED
      BY <2>3
  <2> QED
    BY <1>1, <2>4
<1>4. 0 \in T
  <2> HIDE DEF T
  <2>1. T \subseteq 0 .. N + 1
    BY DEF T
  <2>2. N + 1 \in Nat /\ \A m \in 0 .. (N + 1) - 1 : m + 1 \in T => m \in T
    BY <1>1, <1>3
  <2>3. T = 0 .. N + 1
    BY <1>2, <2>1, <2>2, HaciaAtras
  <2> QED
    BY <1>1, <2>3
<1>5. PICK g : Hasta(g, 0)
  BY <1>4
<1> QED
  BY <1>5 DEF Recorre

\* get_init_block_file is the value at block 0 of a function that follows the
\* loop.
LEMMA BuscaDefinida ==
    ASSUME NEW bits, NEW size \in Int
    PROVE  \E busca : Recorre(bits, size, busca) /\ get_init_block_file(bits, size) = busca[0]
<1> DEFINE b == CHOOSE busca : busca = [i \in 0 .. N + 1 |-> Sigue(bits, size, i, busca)]
<1>1. get_init_block_file(bits, size) = b[0]
  BY Zenon DEF get_init_block_file, Sigue
<1>2. b = [i \in 0 .. N + 1 |-> Sigue(bits, size, i, b)]
  BY Zenon, BuscaExiste DEF Recorre
<1> QED
  BY <1>1, <1>2, Zenon DEF Recorre

\* What the search returns is a free run inside the disk.
LEMMA HuecoLibre ==
    ASSUME NEW bits, NEW size \in Int, get_init_block_file(bits, size) # -1
    PROVE  LET p == get_init_block_file(bits, size) IN
           /\ p \in Bits /\ p + size <= N /\ size # 0 /\ ~bits[p]
           /\ \A b \in p .. p + size - 1 : ~bits[b]
<1>1. N \in Nat
  BY DialAssumption
<1>2. PICK g : Recorre(bits, size, g) /\ get_init_block_file(bits, size) = g[0]
  BY BuscaDefinida
<1> DEFINE Hueco(p) == /\ p \in Bits /\ p + size <= N /\ size # 0 /\ ~bits[p]
                       /\ \A b \in p .. p + size - 1 : ~bits[b]
           T == {m \in 0 .. N + 1 : \A i \in m .. N + 1 : g[i] = -1 \/ Hueco(g[i])}
<1>3. \A i \in 0 .. N + 1 : g[i] = Sigue(bits, size, i, g)
  BY <1>2 DEF Recorre
<1>4. N + 1 \in T
  <2>1. g[N + 1] = -1
    BY <1>1, <1>3, SigueFin
  <2> QED
    BY <1>1, <2>1
<1>5. ASSUME NEW m \in 0 .. N, m + 1 \in T PROVE m \in T
  <2>1. \A j \in m + 1 .. N + 1 : g[j] = -1 \/ Hueco(g[j])
    BY <1>5
  <2>2. g[m] = -1 \/ Hueco(g[m])
    <3>1. m \in 0 .. N + 1 /\ g[m] = Sigue(bits, size, m, g)
      BY <1>1, <1>3
    <3> HIDE DEF Hueco
    <3>2. CASE m >= N \/ size = 0
      BY <3>1, <3>2, SigueFin
    <3>3. CASE m < N /\ \A f : Sigue(bits, size, m, f) = f[m + 1]
      BY <1>1, <2>1, <3>1, <3>3
    <3>4. CASE \E k \in m + 1 .. N - 1 : \A f : Sigue(bits, size, m, f) = f[k + 2]
      <4>1. PICK k \in m + 1 .. N - 1 : \A f : Sigue(bits, size, m, f) = f[k + 2]
        BY <3>4
      <4>2. k + 2 \in m + 1 .. N + 1
        BY <1>1, <3>1
      <4> QED
        BY <2>1, <3>1, <4>1, <4>2
    <3>5. CASE /\ m < N /\ size # 0 /\ ~bits[m]
               /\ \A k \in m + 1 .. m + size - 1 : k < N => ~bits[k]
               /\ \A f : Sigue(bits, size, m, f) = IF m + size <= N THEN m ELSE -1
      <4>1. CASE m + size <= N
        <5>1. \A b \in m .. m + size - 1 : b = m \/ (b \in m + 1 .. m + size - 1 /\ b < N)
          BY <1>1, <4>1
        <5>2. \A b \in m .. m + size - 1 : ~bits[b]
          BY <3>5, <5>1
        <5>3. m \in Bits
          BY <1>1, <3>5 DEF Bits
        <5>4. g[m] = m
          BY <3>1, <3>5, <4>1
        <5> QED
          BY <3>5, <4>1, <5>2, <5>3, <5>4 DEF Hueco
      <4>2. CASE ~(m + size <= N)
        BY <3>1, <3>5, <4>2
      <4> QED
        BY <4>1, <4>2
    <3> QED
      BY <3>1, <3>2, <3>3, <3>4, <3>5, SigueAdelante
  <2>3. \A i \in m .. N + 1 : i = m \/ i \in m + 1 .. N + 1
    BY <1>1
  <2> HIDE DEF Hueco
  <2> QED
    BY <1>1, <2>1, <2>2, <2>3
<1>6. 0 \in T
  <2> HIDE DEF T
  <2>1. T \subseteq 0 .. N + 1
    BY DEF T
  <2>2. N + 1 \in Nat /\ \A m \in 0 .. (N + 1) - 1 : m + 1 \in T => m \in T
    BY <1>1, <1>5
  <2>3. T = 0 .. N + 1
    BY <1>4, <2>1, <2>2, HaciaAtras
  <2> QED
    BY <1>1, <2>3
<1>7. g[0] = -1 \/ Hueco(g[0])
  <2> HIDE DEF Hueco
  <2> QED
    BY <1>1, <1>6
<1> QED
  BY <1>2, <1>7

\* A block is found unless all are in use.
LEMMA BloqueLibre ==
    ASSUME NEW bits, get_init_block_file(bits, 1) = -1
    PROVE  \A b \in Bits : bits[b]
<1>1. N \in Nat /\ 1 \in Int
  BY DialAssumption
<1>2. PICK g : Recorre(bits, 1, g) /\ get_init_block_file(bits, 1) = g[0]
  BY <1>1, BuscaDefinida
<1> DEFINE T == {m \in 0 .. N + 1 : g[m] = -1 => \A b \in Bits : b >= m => bits[b]}
<1>3. \A i \in 0 .. N + 1 : g[i] = Sigue(bits, 1, i, g)
  BY <1>2 DEF Recorre
<1>4. N + 1 \in T
  BY <1>1 DEF Bits
<1>5. ASSUME NEW m \in 0 .. N, m + 1 \in T PROVE m \in T
  <2>1. m \in 0 .. N + 1 /\ g[m] = Sigue(bits, 1, m, g)
    BY <1>1, <1>3
  <2>2. ASSUME g[m] = -1, NEW b \in Bits, b >= m PROVE bits[b]
    <3>1. m < N /\ b \in Int /\ b < N
      BY <1>1, <2>2 DEF Bits
    <3>2. bits[m] /\ \A f : Sigue(bits, 1, m, f) = f[m + 1]
      <4>1. ~ \E k \in m + 1 .. N - 1 : k < m + 1
        BY <1>1
      <4>2. ASSUME \A f : Sigue(bits, 1, m, f) = IF m + 1 <= N THEN m ELSE -1
            PROVE  FALSE
        <5>1. m + 1 <= N /\ m # -1
          BY <1>1, <3>1
        <5>2. g[m] = m
          BY <2>1, <4>2, <5>1
        <5> QED
          BY <2>2, <5>1, <5>2
      <4>3. \/ m >= N \/ 1 = 0
            \/ bits[m] /\ \A f : Sigue(bits, 1, m, f) = f[m + 1]
            \/ \E k \in m + 1 .. N - 1 : k < m + 1
            \/ \A f : Sigue(bits, 1, m, f) = IF m + 1 <= N THEN m ELSE -1
        BY <1>1, <2>1, SigueAdelante
      <4> QED
        BY <1>1, <3>1, <4>1, <4>2, <4>3
    <3>3. g[m + 1] = -1
      BY <2>1, <2>2, <3>2
    <3>4. b = m \/ b >= m + 1
      BY <2>2, <3>1
    <3> QED
      BY <1>5, <3>2, <3>3, <3>4
  <2> QED
    BY <2>1, <2>2
<1>6. 0 \in T
  <2> HIDE DEF T
  <2>1. T \subseteq 0 .. N + 1
    BY DEF T
  <2>2. N + 1 \in Nat /\ \A m \in 0 .. (N + 1) - 1 : m + 1 \in T => m \in T
    BY <1>1, <1>5
  <2>3. T = 0 .. N + 1
    BY <1>4, <2>1, <2>2, HaciaAtras
  <2> QED
    BY <1>1, <2>3
<1> QED
  BY <1>1, <1>2, <1>6 DEF Bits

-----------------------------------------------------------------------------
(* Files and their blocks.                                                 *)

\* What a metadata file holds.
Entradas == [init : Int, tam : Int]

\* The blocks of the files outside E are marked and nobody else's, and the
\* sizes of those files are not negative.
Sana(bits, md, E) ==
    \A f \in Archivos \ E :
        /\ md[f] = NoExiste \/ md[f].tam >= 0
        /\ \A b \in BloquesDe(md[f]) : b \in Bits /\ bits[b]
        /\ \A g \in Archivos \ (E \cup {f}) : BloquesDe(md[f]) \cap BloquesDe(md[g]) = {}

\* Blocks are integers.
LEMMA BloquesEnteros ==
    ASSUME NEW m \in Entradas, NEW b \in BloquesDe(m)
    PROVE  b \in Int /\ m # NoExiste /\ m.init <= b /\ b < m.init + TamActual(m)
BY DEF Entradas, BloquesDe, TamActual

\* An operation on f: the other files keep their blocks, and these stay
\* marked; those of f are marked, and were of nobody else.
LEMMA SanaCambia ==
    ASSUME NEW bits, NEW md, NEW E, Sana(bits, md, E),
           NEW bits2, NEW md2, NEW E2, NEW f,
           \A g \in Archivos \ (E2 \cup {f}) :
                /\ g \notin E /\ md2[g] = md[g]
                /\ \A b \in BloquesDe(md[g]) : bits2[b],
           f \in Archivos /\ f \notin E2 =>
                /\ md2[f] = NoExiste \/ md2[f].tam >= 0
                /\ \A b \in BloquesDe(md2[f]) :
                    /\ b \in Bits /\ bits2[b]
                    /\ \A g \in Archivos \ (E2 \cup {f}) : b \notin BloquesDe(md[g])
    PROVE  Sana(bits2, md2, E2)
<1> SUFFICES ASSUME NEW g \in Archivos \ E2
             PROVE  /\ md2[g] = NoExiste \/ md2[g].tam >= 0
                    /\ \A b \in BloquesDe(md2[g]) : b \in Bits /\ bits2[b]
                    /\ \A h \in Archivos \ (E2 \cup {g}) :
                            BloquesDe(md2[g]) \cap BloquesDe(md2[h]) = {}
  BY DEF Sana
<1>1. CASE g = f
  BY <1>1
<1>2. CASE g # f
  <2>1. g \notin E /\ md2[g] = md[g] /\ \A b \in BloquesDe(md[g]) : bits2[b]
    BY <1>2
  <2>2. /\ md[g] = NoExiste \/ md[g].tam >= 0
        /\ \A b \in BloquesDe(md[g]) : b \in Bits
        /\ \A h \in Archivos \ (E \cup {g}) : BloquesDe(md[g]) \cap BloquesDe(md[h]) = {}
    BY <2>1 DEF Sana
  <2>3. ASSUME NEW h \in Archivos \ (E2 \cup {g})
        PROVE  BloquesDe(md2[g]) \cap BloquesDe(md2[h]) = {}
    <3>1. CASE h = f
      BY <1>2, <2>1, <3>1
    <3>2. CASE h # f
      BY <2>1, <2>2, <3>2
    <3> QED
      BY <3>1, <3>2
  <2> QED
    BY <2>1, <2>2, <2>3
<1> QED
  BY <1>1, <1>2

\* With more files exposed.
LEMMA SanaMenos ==
    ASSUME NEW bits, NEW md, NEW E, Sana(bits, md, E), NEW E2, E \subseteq E2
    PROVE  Sana(bits, md, E2)
BY DEF Sana

-----------------------------------------------------------------------------
(* The compaction.                                                         *)

\* The compaction starts on an empty bitmap and places a file at each step.
CompactaDesde == [bitmap |-> Marca(bitmap, 0, N, FALSE), metadata |-> metadata,
                  bloques |-> bloques, falla |-> FALSE]
Sucesor(acc, g) == realocate_compactacion(acc, g, metadata[g].tam)
Recoloca(orden, tras) ==
    tras = [k \in 0 .. Len(orden) |->
                IF k = 0 THEN CompactaDesde ELSE Sucesor(tras[k - 1], orden[k])]

\* The recursion of the compaction has a solution.
LEMMA RecolocaExiste ==
    ASSUME NEW orden, Len(orden) \in Nat
    PROVE  \E tras : Recoloca(orden, tras)
<1> DEFINE n == Len(orden)
           Hasta(g, m) == g = [k \in 0 .. m |->
                                IF k = 0 THEN CompactaDesde ELSE Sucesor(g[k - 1], orden[k])]
           T == {m \in 0 .. n : \E g : Hasta(g, m)}
<1> HIDE DEF n
<1>1. n \in Nat
  BY DEF n
<1>2. 0 \in T
  <2> DEFINE g == [k \in 0 .. 0 |-> CompactaDesde]
  <2>1. Hasta(g, 0)
    OBVIOUS
  <2> HIDE DEF g
  <2> QED
    BY <1>1, <2>1
<1>3. ASSUME NEW m \in 0 .. n - 1, m \in T PROVE m + 1 \in T
  <2>1. PICK g : Hasta(g, m)
    BY <1>3
  <2> DEFINE h == [k \in 0 .. m + 1 |-> IF k <= m THEN g[k] ELSE Sucesor(g[m], orden[m + 1])]
  <2>2. ASSUME NEW k \in 0 .. m + 1
        PROVE  h[k] = IF k = 0 THEN CompactaDesde ELSE Sucesor(h[k - 1], orden[k])
    <3>1. CASE k = 0
      <4>1. h[0] = g[0] /\ g[0] = CompactaDesde
        BY <2>1
      <4> QED
        BY <3>1, <4>1
    <3>2. CASE k # 0 /\ k <= m
      <4>1. h[k] = g[k] /\ h[k - 1] = g[k - 1]
        BY <3>2
      <4>2. g[k] = Sucesor(g[k - 1], orden[k])
        BY <2>1, <3>2
      <4> QED
        BY <3>2, <4>1, <4>2
    <3>3. CASE k = m + 1
      <4>1. h[m] = g[m] /\ k # 0 /\ k - 1 = m /\ ~(k <= m)
        BY <3>3
      <4> HIDE DEF h
      <4>2. h[k] = Sucesor(g[m], orden[m + 1])
        BY <3>3, <4>1 DEF h
      <4> QED
        BY <3>3, <4>1, <4>2
    <3>4. k = 0 \/ (k # 0 /\ k <= m) \/ k = m + 1
      OBVIOUS
    <3> QED
      BY <3>1, <3>2, <3>3, <3>4
  <2>3. h = [k \in 0 .. m + 1 |-> h[k]]
    OBVIOUS
  <2>4. Hasta(h, m + 1)
    <3> HIDE DEF h
    <3> QED
      BY <2>2, <2>3
  <2>5. \E f : Hasta(f, m + 1)
    <3> HIDE DEF h, Hasta
    <3> QED
      BY <2>4
  <2> QED
    BY <1>1, <2>5
<1>4. n \in T
  <2> HIDE DEF T
  <2>1. T \subseteq 0 .. n
    BY DEF T
  <2>2. T = 0 .. n
    BY <1>1, <1>2, <1>3, <2>1, HaciaAdelante
  <2> QED
    BY <1>1, <2>2
<1> QED
  BY <1>4 DEF Recoloca, n

\* compacta is the last value of a function that follows the loop.
LEMMA CompactaDefinida ==
    ASSUME NEW orden, Len(orden) \in Nat
    PROVE  \E tras : Recoloca(orden, tras) /\ compacta(orden) = tras[Len(orden)]
<1> DEFINE t == CHOOSE tras : tras = [k \in 0 .. Len(orden) |->
                IF k = 0 THEN CompactaDesde ELSE Sucesor(tras[k - 1], orden[k])]
<1>1. compacta(orden) = t[Len(orden)]
  BY Zenon DEF compacta, CompactaDesde, Sucesor
<1>2. t = [k \in 0 .. Len(orden) |->
                IF k = 0 THEN CompactaDesde ELSE Sucesor(t[k - 1], orden[k])]
  BY Zenon, RecolocaExiste DEF Recoloca
<1> QED
  BY <1>1, <1>2, Zenon DEF Recoloca

\* Where the search puts a file of tam blocks: nothing but a file of no
\* blocks is put at -1, or the compaction fails.
LEMMA LugarNuevo ==
    ASSUME NEW bits, NEW tam \in Int
    PROVE  LET nuevo == get_init_block_file(bits, tam) IN
           /\ nuevo \in Int /\ [init |-> nuevo, tam |-> tam] \in Entradas
           /\ tam >= 0 /\ nuevo # -1 =>
                /\ \A b \in BloquesDe([init |-> nuevo, tam |-> tam]) :
                        b \in Bits /\ b \in nuevo .. nuevo + tam - 1 /\ ~bits[b]
                /\ BloquesDe([init |-> nuevo, tam |-> tam]) = nuevo .. nuevo + tam - 1
           /\ tam = 0 => BloquesDe([init |-> nuevo, tam |-> tam]) = {}
<1> DEFINE nuevo == get_init_block_file(bits, tam)
           m == [init |-> nuevo, tam |-> tam]
<1>1. N \in Nat
  BY DialAssumption
<1>2. nuevo \in Int
  BY <1>1, HuecoLibre DEF Bits
<1>3. ASSUME tam >= 0, nuevo # -1
      PROVE  /\ BloquesDe(m) = nuevo .. nuevo + tam - 1
             /\ \A b \in nuevo .. nuevo + tam - 1 : b \in Bits /\ ~bits[b]
  <2>1. /\ nuevo \in Bits /\ nuevo + tam <= N /\ tam # 0
        /\ \A b \in nuevo .. nuevo + tam - 1 : ~bits[b]
    BY <1>3, HuecoLibre
  <2> HIDE DEF nuevo
  <2>2. m # NoExiste /\ TamActual(m) = tam
    BY <1>3, <2>1 DEF NoExiste, TamActual
  <2> QED
    BY <1>1, <1>2, <1>3, <2>1, <2>2 DEF BloquesDe, Bits
<1>4. tam = 0 => BloquesDe(m) = {}
  <2>1. tam = 0 => nuevo = -1
    BY HuecoLibre
  <2> HIDE DEF nuevo
  <2> QED
    BY <2>1 DEF BloquesDe, TamActual
<1> QED
  BY <1>2, <1>3, <1>4 DEF Entradas

\* resize_up and resize_down.
LEMMA MarcaDa ==
    ASSUME NEW bits \in [Bits -> BOOLEAN], NEW d \in Int, NEW h \in Int
    PROVE  /\ Marca(bits, d, h, TRUE) \in [Bits -> BOOLEAN]
           /\ Marca(bits, d, h, FALSE) \in [Bits -> BOOLEAN]
           /\ \A b \in Bits :
                /\ Marca(bits, d, h, TRUE)[b] <=> (b \in d .. h - 1 \/ bits[b])
                /\ Marca(bits, d, h, FALSE)[b] <=> (b \notin d .. h - 1 /\ bits[b])
<1>1. /\ Marca(bits, d, h, TRUE) \in [Bits -> BOOLEAN]
      /\ Marca(bits, d, h, FALSE) \in [Bits -> BOOLEAN]
  BY DEF Marca
<1>2. ASSUME NEW b \in Bits
      PROVE  /\ Marca(bits, d, h, TRUE)[b] = IF b \in d .. h - 1 THEN TRUE ELSE bits[b]
             /\ Marca(bits, d, h, FALSE)[b] = IF b \in d .. h - 1 THEN FALSE ELSE bits[b]
  BY Zenon DEF Marca
<1>3. ASSUME NEW b \in Bits
      PROVE  /\ Marca(bits, d, h, TRUE)[b] <=> (b \in d .. h - 1 \/ bits[b])
             /\ Marca(bits, d, h, FALSE)[b] <=> (b \notin d .. h - 1 /\ bits[b])
  BY <1>2, Zenon
<1> QED
  BY <1>1, <1>3

\* A step of the compaction keeps the files already placed and places f.
LEMMA PasoCompacta ==
    ASSUME NEW acc, NEW f \in Archivos, NEW tam \in Int, NEW P,
           acc.bitmap \in [Bits -> BOOLEAN], acc.metadata \in [Archivos -> Entradas]
    PROVE  LET s == realocate_compactacion(acc, f, tam) IN
           /\ s.bitmap \in [Bits -> BOOLEAN] /\ s.metadata \in [Archivos -> Entradas]
           /\ \A g \in Archivos \ {f} : s.metadata[g] = acc.metadata[g]
           /\ ~s.falla => ~acc.falla /\ acc.metadata[f].tam >= 0
           /\ ~s.falla /\ tam >= 0 /\ Sana(acc.bitmap, acc.metadata, Archivos \ P) =>
                Sana(s.bitmap, s.metadata, Archivos \ (P \cup {f}))
<1> DEFINE nuevo == get_init_block_file(acc.bitmap, tam)
           m2 == [init |-> nuevo, tam |-> tam]
           bits2 == Marca(acc.bitmap, nuevo, nuevo + tam, TRUE)
           md2 == [acc.metadata EXCEPT ![f] = m2]
           s == realocate_compactacion(acc, f, tam)
<1>1. /\ s.bitmap = bits2 /\ s.metadata = md2
      /\ s.falla <=> (acc.falla \/ (nuevo = -1 /\ tam > 0) \/ acc.metadata[f].tam < 0)
  BY DEF realocate_compactacion
<1>2. /\ nuevo \in Int /\ m2 \in Entradas
      /\ tam >= 0 /\ nuevo # -1 =>
            \A b \in BloquesDe(m2) : b \in Bits /\ b \in nuevo .. nuevo + tam - 1 /\ ~acc.bitmap[b]
      /\ tam = 0 => BloquesDe(m2) = {}
  BY LugarNuevo
<1> HIDE DEF nuevo
<1>3. /\ bits2 \in [Bits -> BOOLEAN]
      /\ \A b \in Bits : bits2[b] <=> (b \in nuevo .. nuevo + tam - 1 \/ acc.bitmap[b])
  <2>1. nuevo + tam \in Int
    BY <1>2
  <2>2. nuevo \in Int /\ acc.bitmap \in [Bits -> BOOLEAN]
    BY <1>2
  <2>3. nuevo .. (nuevo + tam) - 1 = nuevo .. nuevo + tam - 1
    BY <2>2
  <2> QED
    BY <2>1, <2>2, <2>3, MarcaDa, Zenon
<1>4. /\ md2 \in [Archivos -> Entradas] /\ md2[f] = m2
      /\ \A g \in Archivos \ {f} : md2[g] = acc.metadata[g]
  BY <1>2
<1>5. acc.metadata[f].tam \in Int
  BY DEF Entradas
<1>6. ASSUME ~s.falla, tam >= 0, Sana(acc.bitmap, acc.metadata, Archivos \ P)
      PROVE  Sana(bits2, md2, Archivos \ (P \cup {f}))
  <2>1. nuevo # -1 \/ tam = 0
    BY <1>1, <1>6
  <2>2. \A b \in BloquesDe(m2) : b \in Bits /\ b \in nuevo .. nuevo + tam - 1 /\ ~acc.bitmap[b]
    BY <1>2, <1>6, <2>1
  <2>3. ASSUME NEW g \in P \cap Archivos
        PROVE  \A b \in BloquesDe(acc.metadata[g]) : b \in Bits /\ acc.bitmap[b]
    BY <1>6 DEF Sana
  <2>4. \A b \in Bits : b \in nuevo .. nuevo + tam - 1 \/ acc.bitmap[b] => bits2[b]
    BY <1>3
  <2>5. m2.tam = tam
    OBVIOUS
  <2> HIDE DEF m2, bits2, md2
  <2>6. \A g \in Archivos \ ((Archivos \ (P \cup {f})) \cup {f}) :
                /\ g \notin Archivos \ P /\ md2[g] = acc.metadata[g]
                /\ \A b \in BloquesDe(acc.metadata[g]) : bits2[b]
    BY <1>4, <2>3, <2>4
  <2>7. /\ md2[f].tam >= 0
        /\ \A b \in BloquesDe(md2[f]) :
            /\ b \in Bits /\ bits2[b]
            /\ \A g \in Archivos \ ((Archivos \ (P \cup {f})) \cup {f}) :
                    b \notin BloquesDe(acc.metadata[g])
    BY <1>4, <1>6, <2>2, <2>3, <2>4, <2>5
  <2> DEFINE E == Archivos \ P
             E2 == Archivos \ (P \cup {f})
  <2>8. Sana(acc.bitmap, acc.metadata, E)
    BY <1>6
  <2> HIDE DEF E, E2
  <2>9. \A g \in Archivos \ (E2 \cup {f}) :
                /\ g \notin E /\ md2[g] = acc.metadata[g]
                /\ \A b \in BloquesDe(acc.metadata[g]) : bits2[b]
    BY <2>6 DEF E, E2
  <2>10. /\ md2[f] = NoExiste \/ md2[f].tam >= 0
         /\ \A b \in BloquesDe(md2[f]) :
            /\ b \in Bits /\ bits2[b]
            /\ \A g \in Archivos \ (E2 \cup {f}) : b \notin BloquesDe(acc.metadata[g])
    BY <2>7 DEF E2
  <2>11. Sana(bits2, md2, E2)
    BY <2>8, <2>9, <2>10, SanaCambia, SMTT(60)
  <2> QED
    BY <2>11 DEF E2
<1> HIDE DEF bits2, md2, m2, s
<1> QED
  BY <1>1, <1>3, <1>4, <1>5, <1>6 DEF s

\* After the files of orden.
Puestos(orden, k) == {orden[j] : j \in 1 .. k}

\* The compaction of the files of orden: the bitmap and the metadata it leaves.
LEMMA CompactaPone ==
    ASSUME bitmap \in [Bits -> BOOLEAN], metadata \in [Archivos -> Entradas],
           NEW orden, Len(orden) \in Nat,
           \A j \in 1 .. Len(orden) : orden[j] \in Archivos,
           \A i, j \in 1 .. Len(orden) : orden[i] = orden[j] => i = j
    PROVE  LET s == compacta(orden)
               P == Puestos(orden, Len(orden)) IN
           /\ s.bitmap \in [Bits -> BOOLEAN] /\ s.metadata \in [Archivos -> Entradas]
           /\ \A g \in Archivos \ P : s.metadata[g] = metadata[g]
           /\ ~s.falla => Sana(s.bitmap, s.metadata, Archivos \ P)
<1> DEFINE n == Len(orden)
           Bien(s, k) ==
                /\ s.bitmap \in [Bits -> BOOLEAN] /\ s.metadata \in [Archivos -> Entradas]
                /\ \A g \in Archivos \ Puestos(orden, k) : s.metadata[g] = metadata[g]
                /\ ~s.falla => Sana(s.bitmap, s.metadata, Archivos \ Puestos(orden, k))
<1>1. PICK tras : Recoloca(orden, tras) /\ compacta(orden) = tras[n]
  BY CompactaDefinida
<1> DEFINE T == {k \in 0 .. n : Bien(tras[k], k)}
<1>2. 0 \in T
  <2>1. tras[0] = CompactaDesde
    BY <1>1 DEF Recoloca
  <2>2. Puestos(orden, 0) = {}
    BY DEF Puestos
  <2>3. /\ CompactaDesde.bitmap = Marca(bitmap, 0, N, FALSE)
        /\ CompactaDesde.metadata = metadata
    BY DEF CompactaDesde
  <2>4. CompactaDesde.bitmap \in [Bits -> BOOLEAN]
    BY <2>3 DEF Marca
  <2>5. Sana(CompactaDesde.bitmap, CompactaDesde.metadata, Archivos \ {})
    BY DEF Sana
  <2>6. Bien(CompactaDesde, 0)
    BY <2>2, <2>3, <2>4, <2>5
  <2> HIDE DEF Bien
  <2> QED
    BY <2>1, <2>6
<1>3. ASSUME NEW k \in 0 .. n - 1, k \in T PROVE k + 1 \in T
  <2> DEFINE g == orden[k + 1]
             s == realocate_compactacion(tras[k], g, metadata[g].tam)
  <2>1. k + 1 \in 0 .. n /\ k + 1 \in 1 .. n /\ k + 1 # 0 /\ (k + 1) - 1 = k
    OBVIOUS
  <2>2. tras[k + 1] = s
    BY <1>1, <2>1 DEF Recoloca, Sucesor
  <2>3. g \in Archivos /\ metadata[g].tam \in Int
    BY <2>1 DEF Entradas
  <2>4. Puestos(orden, k + 1) = Puestos(orden, k) \cup {g}
    <3>1. 1 .. k + 1 = (1 .. k) \cup {k + 1}
      OBVIOUS
    <3> QED
      BY <3>1 DEF Puestos
  <2>5. g \notin Puestos(orden, k)
    <3>1. \A j \in 1 .. k : j \in 1 .. n /\ j # k + 1
      OBVIOUS
    <3> QED
      BY <2>1, <3>1 DEF Puestos
  <2>6. Bien(tras[k], k)
    BY <1>3
  <2>7. tras[k].metadata[g] = metadata[g]
    BY <2>3, <2>5, <2>6
  <2>8. /\ s.bitmap \in [Bits -> BOOLEAN] /\ s.metadata \in [Archivos -> Entradas]
        /\ \A h \in Archivos \ {g} : s.metadata[h] = tras[k].metadata[h]
        /\ ~s.falla => ~tras[k].falla /\ tras[k].metadata[g].tam >= 0
        /\ ~s.falla /\ metadata[g].tam >= 0 /\
             Sana(tras[k].bitmap, tras[k].metadata, Archivos \ Puestos(orden, k)) =>
                Sana(s.bitmap, s.metadata, Archivos \ (Puestos(orden, k) \cup {g}))
    <3> HIDE DEF g
    <3> QED
      BY <2>3, <2>6, PasoCompacta
  <2> HIDE DEF s, g
  <2>9. Bien(s, k + 1)
    BY <2>4, <2>6, <2>7, <2>8
  <2> QED
    BY <2>1, <2>2, <2>9
<1>4. n \in T
  <2> HIDE DEF T
  <2>1. T \subseteq 0 .. n
    BY DEF T
  <2>2. T = 0 .. n
    BY <1>2, <1>3, <2>1, HaciaAdelante
  <2> QED
    BY <2>2
<1>5. Bien(tras[n], n)
  BY <1>4
<1> QED
  BY <1>1, <1>5

-----------------------------------------------------------------------------
(* The invariant.                                                          *)

\* The types the proof needs.
TipoDisco ==
    /\ bitmap \in [Bits -> BOOLEAN] /\ d_bitmap \in [Bits -> BOOLEAN]
    /\ metadata \in [Archivos -> Entradas] /\ d_metadata \in [Archivos -> Entradas]
    /\ pendientes \in Seq(Archivos \cup {"bitmap", "bloques"})

\* What is not waiting to be saved is saved.
Pendiente(x) == \E k \in DOMAIN pendientes : pendientes[k] = x
AlDia ==
    /\ Pendiente("bitmap") \/ d_bitmap = bitmap
    /\ Pendiente("bloques") \/ d_bloques = bloques
    /\ \A g \in Archivos : Pendiente(g) \/ d_metadata[g] = metadata[g]

\* The files a stop would expose.
Arriesgados ==
    CASE operacion.nombre \in {"crear", "reubicar"} -> {operacion.archivo}
      [] operacion.nombre = "compactar" -> Archivos
      [] OTHER -> {}

\* An operation but the compaction saves one file; a deletion and a
\* truncation give up blocks before they are unmarked and mark those they
\* take before they take them.
EnCurso ==
    LET f == operacion.archivo IN
    /\ operacion.nombre # "compactar" =>
            \A g \in Archivos \ {f} : d_metadata[g] = metadata[g]
    /\ operacion.nombre \notin {"compactar", "crear", "reubicar"} /\ Len(pendientes) > 1 =>
            /\ f \in Archivos
            /\ \/ pendientes = <<f, "bitmap">>
               \/ pendientes = <<"bitmap", f>>
            /\ f \notin expuestos =>
                /\ pendientes[1] = f =>
                    BloquesDe(metadata[f]) \subseteq BloquesDe(d_metadata[f])
                /\ pendientes[1] = "bitmap" =>
                    BloquesDe(d_metadata[f]) \subseteq BloquesDe(metadata[f])

\* Memory is sane, and so is what a stop would leave.
Sanos ==
    ~caido => /\ Sana(bitmap, metadata, expuestos)
              /\ Sana(d_bitmap, d_metadata, expuestos \cup Arriesgados)

DialInv == TipoDisco /\ AlDia /\ EnCurso /\ Sanos

\* An empty disk.
LEMMA DialInit == ASSUME Init PROVE DialInv
<1> USE DEF Init
<1>1. NoExiste \in Entradas
  BY DEF NoExiste, Entradas
<1>2. TipoDisco
  BY <1>1 DEF TipoDisco
<1>3. \A f \in Archivos : BloquesDe(metadata[f]) = {} /\ BloquesDe(d_metadata[f]) = {}
  BY DEF BloquesDe
<1>4. Sanos
  BY <1>3 DEF Sanos, Sana
<1>5. AlDia /\ EnCurso
  BY DEF AlDia, EnCurso
<1> QED
  BY <1>2, <1>4, <1>5 DEF DialInv

\* Between operations disk and memory are the same.
LEMMA LibreIgual ==
    ASSUME TipoDisco, AlDia, pendientes = <<>>
    PROVE  d_bitmap = bitmap /\ d_metadata = metadata /\ d_bloques = bloques
<1>1. \A x : ~Pendiente(x)
  BY DEF Pendiente
<1>2. \A g \in Archivos : d_metadata[g] = metadata[g]
  BY <1>1 DEF AlDia
<1> QED
  BY <1>1, <1>2 DEF AlDia, TipoDisco

\* What an operation on f does to memory, and the saves it asks for.
Saves == Seq(Archivos \cup {"bitmap", "bloques"})
Esta(x, saves) == \E k \in DOMAIN saves : saves[k] = x
Cambia(nombre, f, saves) ==
    /\ bitmap' \in [Bits -> BOOLEAN] /\ metadata' \in [Archivos -> Entradas]
    /\ bitmap' = bitmap \/ Esta("bitmap", saves)
    /\ bloques' = bloques \/ Esta("bloques", saves)
    /\ \A g \in Archivos : metadata'[g] = metadata[g] \/ Esta(g, saves)
    /\ nombre # "compactar" =>
            /\ \A g \in Archivos \ {f} : metadata'[g] = metadata[g]
            /\ expuestos \subseteq expuestos'
    /\ ~caido' => Sana(bitmap', metadata', expuestos')

\* The order of the saves of a deletion or a truncation.
Ordena(nombre, f, saves) ==
    nombre \in {"borrar", "truncar", "escribir"} /\ Len(saves) > 1 =>
        \/ /\ saves = <<f, "bitmap">>
           /\ f \notin expuestos' => BloquesDe(metadata'[f]) \subseteq BloquesDe(metadata[f])
        \/ /\ saves = <<"bitmap", f>>
           /\ f \notin expuestos' => BloquesDe(metadata[f]) \subseteq BloquesDe(metadata'[f])

Nombres == {"crear", "borrar", "escribir", "truncar", "reubicar", "compactar"}

\* An operation begins.
LEMMA EmpiezaBien ==
    ASSUME DialInv, Libre,
           NEW nombre \in Nombres, NEW f \in Archivos, NEW byte, NEW saves \in Saves,
           Empieza(nombre, f, byte, saves),
           Cambia(nombre, f, saves), Ordena(nombre, f, saves)
    PROVE  DialInv'
<1> USE DEF Cambia, Ordena, Esta, Saves, Nombres
<1>1. d_bitmap = bitmap /\ d_metadata = metadata /\ d_bloques = bloques
  BY LibreIgual DEF DialInv, Libre
<1>2. /\ d_bitmap' = bitmap /\ d_metadata' = metadata /\ d_bloques' = bloques
      /\ pendientes' = saves
      /\ operacion' = [nombre |-> nombre, archivo |-> f, byte |-> byte]
  BY <1>1 DEF Empieza, disco
<1>3. TipoDisco'
  BY <1>2 DEF DialInv, TipoDisco
<1>4. AlDia'
  BY <1>2 DEF AlDia, Pendiente
<1>5. EnCurso'
  <2>1. f # "bitmap"
    BY GuardadosDistintos
  <2> QED
    BY <1>2, <2>1 DEF EnCurso
<1>6. Sanos'
  <2>1. Sana(bitmap, metadata, expuestos)
    BY DEF DialInv, Sanos, Libre
  <2>2. Sana(bitmap, metadata, (expuestos \cup Arriesgados)')
    <3>1. CASE nombre = "compactar"
      <4>1. Arriesgados' = Archivos
        BY <1>2, <3>1 DEF Arriesgados
      <4> QED
        BY <4>1 DEF Sana
    <3>2. CASE nombre # "compactar"
      BY <2>1, <3>2, SanaMenos
    <3> QED
      BY <3>1, <3>2
  <2>3. Sana(d_bitmap, d_metadata, expuestos \cup Arriesgados)'
    BY <1>2, <2>2 DEF Sana
  <2> QED
    BY <2>3 DEF Sanos, Sana
<1> QED
  BY <1>3, <1>4, <1>5, <1>6 DEF DialInv

\* The saves of an operation.
LEMMA Guardados ==
    ASSUME NEW f \in Archivos
    PROVE  /\ {<<f>>, <<"bloques">>, <<f, "bitmap">>, <<"bitmap", f>>,
               <<"bloques", "bitmap", f>>} \subseteq Saves
           /\ Esta(f, <<f>>) /\ Esta("bloques", <<"bloques">>)
           /\ Esta(f, <<f, "bitmap">>) /\ Esta("bitmap", <<f, "bitmap">>)
           /\ Esta(f, <<"bitmap", f>>) /\ Esta("bitmap", <<"bitmap", f>>)
           /\ \A x \in {"bloques", "bitmap", f} : Esta(x, <<"bloques", "bitmap", f>>)
           /\ Len(<<f>>) = 1 /\ Len(<<"bloques">>) = 1
BY DEF Saves, Esta

\* Memory before an operation.
LEMMA Memoria ==
    ASSUME DialInv, Libre
    PROVE  /\ Sana(bitmap, metadata, expuestos)
           /\ bitmap \in [Bits -> BOOLEAN] /\ metadata \in [Archivos -> Entradas]
           /\ \A f \in Archivos : /\ metadata[f].init \in Int /\ metadata[f].tam \in Int
                                  /\ TamActual(metadata[f]) \in Int
BY DEF DialInv, Sanos, TipoDisco, Libre, Entradas, TamActual

\* A creation takes one free block and saves the metadata before the bitmap.
LEMMA CreaBien == ASSUME DialInv, NEW f \in Archivos, fs_create_file(f) PROVE DialInv'
<1> DEFINE b == get_init_block_file(bitmap, 1)
           m2 == [init |-> b, tam |-> 0]
<1>1. /\ Libre /\ metadata[f] = NoExiste /\ b # -1
      /\ metadata' = [metadata EXCEPT ![f] = m2] /\ bitmap' = [bitmap EXCEPT ![b] = TRUE]
      /\ Empieza("crear", f, 0, <<f, "bitmap">>) /\ Sano /\ bloques' = bloques
  BY DEF fs_create_file
<1>2. b \in Bits /\ ~bitmap[b]
  BY <1>1, HuecoLibre
<1> HIDE DEF b
<1>3. b \in Nat
  BY <1>2, DialAssumption DEF Bits
<1>4. m2 \in Entradas /\ BloquesDe(m2) = {b} /\ m2.tam >= 0
  BY <1>3 DEF Entradas, BloquesDe, TamActual, NoExiste
<1> HIDE DEF m2
<1>5. bitmap' \in [Bits -> BOOLEAN] /\ metadata' \in [Archivos -> Entradas]
  BY <1>1, <1>2, <1>4, Memoria
<1>6. \A c \in Bits : bitmap[c] => bitmap'[c]
  BY <1>1, Memoria
<1>7. bitmap'[b] /\ metadata'[f] = m2 /\ \A g \in Archivos \ {f} : metadata'[g] = metadata[g]
  BY <1>1, <1>2, Memoria
<1>8. Sana(bitmap, metadata, expuestos)
  BY <1>1, Memoria
<1>9. ASSUME NEW g \in Archivos \ (expuestos \cup {f})
      PROVE  \A c \in BloquesDe(metadata[g]) : c # b /\ bitmap'[c]
  BY <1>2, <1>6, <1>8 DEF Sana
<1>10. Sana(bitmap', metadata', expuestos)
  <2>1. /\ \A g \in Archivos \ (expuestos \cup {f}) :
                /\ g \notin expuestos /\ metadata'[g] = metadata[g]
                /\ \A c \in BloquesDe(metadata[g]) : bitmap'[c]
        /\ metadata'[f].tam >= 0
        /\ \A c \in BloquesDe(metadata'[f]) :
            /\ c \in Bits /\ bitmap'[c]
            /\ \A g \in Archivos \ (expuestos \cup {f}) : c \notin BloquesDe(metadata[g])
    BY <1>2, <1>4, <1>7, <1>9
  <2> QED
    BY <1>8, <2>1, SanaCambia, SMTT(60)
<1>11. expuestos' = expuestos
  BY <1>1 DEF Sano
<1>12. Cambia("crear", f, <<f, "bitmap">>) /\ Ordena("crear", f, <<f, "bitmap">>)
  BY <1>1, <1>5, <1>7, <1>10, <1>11, Guardados DEF Cambia, Ordena
<1> QED
  BY <1>1, <1>12, Guardados, EmpiezaBien DEF Nombres

\* A deletion frees the blocks of the file and removes its metadata first.
LEMMA BorraBien == ASSUME DialInv, NEW f \in Archivos, fs_delete_file(f) PROVE DialInv'
<1> DEFINE m == metadata[f]
           fin == m.init + TamActual(m)
<1>1. /\ Libre /\ m # NoExiste
      /\ bitmap' = Marca(bitmap, m.init, fin, FALSE)
      /\ metadata' = [metadata EXCEPT ![f] = NoExiste]
      /\ IF f \in expuestos THEN Arrastra(f, BloquesDe(m)) ELSE UNCHANGED expuestos
      /\ Empieza("borrar", f, 0, <<f, "bitmap">>) /\ bloques' = bloques
  BY DEF fs_delete_file
<1>2. /\ Sana(bitmap, metadata, expuestos)
      /\ bitmap \in [Bits -> BOOLEAN] /\ metadata \in [Archivos -> Entradas]
      /\ m.init \in Int /\ fin \in Int /\ TamActual(m) \in Int
  BY <1>1, Memoria
<1>3. BloquesDe(m) = m.init .. fin - 1
  BY <1>1, <1>2, SMTT(60) DEF BloquesDe
<1> HIDE DEF fin
<1>4. /\ bitmap' \in [Bits -> BOOLEAN]
      /\ \A c \in Bits : bitmap'[c] <=> (c \notin BloquesDe(m) /\ bitmap[c])
  <2>1. m.init .. fin - 1 = BloquesDe(m)
    BY <1>3
  <2> HIDE DEF m
  <2> QED
    BY <1>1, <1>2, <2>1, MarcaDa
<1>5. NoExiste \in Entradas /\ BloquesDe(NoExiste) = {}
  BY DEF NoExiste, Entradas, BloquesDe
<1>6. /\ metadata' \in [Archivos -> Entradas] /\ metadata'[f] = NoExiste
      /\ \A g \in Archivos \ {f} : metadata'[g] = metadata[g]
  BY <1>1, <1>2, <1>5
<1>7. expuestos \subseteq expuestos'
  BY <1>1 DEF Arrastra
<1>8. ASSUME NEW g \in Archivos \ (expuestos' \cup {f})
      PROVE  g \notin expuestos /\ \A c \in BloquesDe(metadata[g]) : bitmap'[c]
  <2>1. g \notin expuestos
    BY <1>7
  <2>2. BloquesDe(m) \cap BloquesDe(metadata[g]) = {}
    BY <1>1, <1>2, <2>1 DEF Sana, Arrastra
  <2>3. \A c \in BloquesDe(metadata[g]) : c \in Bits /\ bitmap[c]
    BY <1>2, <2>1 DEF Sana
  <2> QED
    BY <1>4, <2>1, <2>2, <2>3
<1>9. Sana(bitmap', metadata', expuestos')
  BY <1>2, <1>5, <1>6, <1>8, SanaCambia
<1>10. BloquesDe(metadata'[f]) \subseteq BloquesDe(metadata[f])
  BY <1>5, <1>6
<1>11. Cambia("borrar", f, <<f, "bitmap">>) /\ Ordena("borrar", f, <<f, "bitmap">>)
  BY <1>1, <1>4, <1>6, <1>7, <1>9, <1>10, Guardados DEF Cambia, Ordena
<1> QED
  BY <1>1, <1>11, Guardados, EmpiezaBien DEF Nombres

\* A write changes only bloques.
LEMMA EscribeBien ==
    ASSUME DialInv, NEW f \in Archivos, NEW ptr, fs_write_file(f, ptr) PROVE DialInv'
<1>1. /\ Libre /\ UNCHANGED <<bitmap, metadata, expuestos>>
      /\ Empieza("escribir", f, ptr, <<"bloques">>)
  BY DEF fs_write_file, Sano
<1>2. /\ Sana(bitmap', metadata', expuestos')
      /\ bitmap' \in [Bits -> BOOLEAN] /\ metadata' \in [Archivos -> Entradas]
  BY <1>1, Memoria
<1>3. Cambia("escribir", f, <<"bloques">>) /\ Ordena("escribir", f, <<"bloques">>)
  <2>1. Ordena("escribir", f, <<"bloques">>)
    BY Guardados DEF Ordena
  <2>2. bitmap' = bitmap /\ metadata' = metadata /\ expuestos' = expuestos
    BY <1>1
  <2>3. Cambia("escribir", f, <<"bloques">>)
    BY <1>2, <2>2, Guardados DEF Cambia
  <2> QED
    BY <2>1, <2>3
<1> QED
  BY <1>1, <1>3, Guardados, EmpiezaBien DEF Nombres

\* A truncation that changes no block.
LEMMA IgualBien ==
    ASSUME DialInv, NEW f \in Archivos, NEW n \in Int, TruncaIgual(f, n) PROVE DialInv'
<1> DEFINE m == metadata[f]
           m2 == [m EXCEPT !.tam = n]
<1>1. /\ Libre /\ m # NoExiste /\ n = TamActual(m) /\ bitmap' = bitmap /\ bloques' = bloques
      /\ metadata' = [metadata EXCEPT ![f] = m2] /\ expuestos' = expuestos
      /\ Empieza("truncar", f, 0, <<f>>)
  BY DEF TruncaIgual, Sano
<1>2. /\ Sana(bitmap, metadata, expuestos)
      /\ bitmap \in [Bits -> BOOLEAN] /\ metadata \in [Archivos -> Entradas]
      /\ m \in Entradas
  BY <1>1, Memoria
<1>3. m2 \in Entradas /\ BloquesDe(m2) = BloquesDe(m) /\ (m.tam >= 0 => m2.tam >= 0)
  BY <1>1, <1>2 DEF Entradas, BloquesDe, TamActual, NoExiste
<1> HIDE DEF m2
<1>4. /\ metadata' \in [Archivos -> Entradas] /\ metadata'[f] = m2
      /\ \A g \in Archivos \ {f} : metadata'[g] = metadata[g]
  BY <1>1, <1>2, <1>3
<1>5. ASSUME NEW g \in Archivos \ (expuestos \cup {f})
      PROVE  \A c \in BloquesDe(metadata[g]) : bitmap[c]
  BY <1>2 DEF Sana
<1>6. ASSUME f \notin expuestos
      PROVE  /\ m2.tam >= 0
             /\ \A c \in BloquesDe(m2) :
                /\ c \in Bits /\ bitmap[c]
                /\ \A g \in Archivos \ (expuestos \cup {f}) : c \notin BloquesDe(metadata[g])
  BY <1>1, <1>2, <1>3, <1>6 DEF Sana
<1>7. Sana(bitmap, metadata', expuestos)
  BY <1>2, <1>4, <1>5, <1>6, SanaCambia
<1>8. Cambia("truncar", f, <<f>>) /\ Ordena("truncar", f, <<f>>)
  <2>1. Ordena("truncar", f, <<f>>)
    BY Guardados DEF Ordena
  <2>2. Sana(bitmap', metadata', expuestos')
    BY <1>1, <1>7
  <2>3. Cambia("truncar", f, <<f>>)
    BY <1>1, <1>2, <1>4, <2>2, Guardados DEF Cambia
  <2> QED
    BY <2>1, <2>3
<1> QED
  BY <1>1, <1>8, Guardados, EmpiezaBien DEF Nombres

\* A truncation to fewer blocks; a negative size exposes the file and the
\* owners of the blocks it frees.
LEMMA MenosBien ==
    ASSUME DialInv, NEW f \in Archivos, NEW n \in Int, TruncaMenos(f, n) PROVE DialInv'
<1> DEFINE m == metadata[f]
           fin == m.init + TamActual(m)
           libera == m.init + n .. m.init + TamActual(m) - 1
           m2 == [init |-> IF n = 0 THEN -1 ELSE m.init, tam |-> n]
<1>1. /\ Libre /\ m # NoExiste /\ n < TamActual(m) /\ bloques' = bloques
      /\ bitmap' = [b \in Bits |-> bitmap[b] /\ b \notin libera]
      /\ metadata' = [metadata EXCEPT ![f] = m2]
      /\ IF n < 0 \/ f \in expuestos THEN Arrastra(f, libera) ELSE UNCHANGED expuestos
      /\ Empieza("truncar", f, 0, <<f, "bitmap">>)
  BY DEF TruncaMenos
<1>2. /\ Sana(bitmap, metadata, expuestos)
      /\ bitmap \in [Bits -> BOOLEAN] /\ metadata \in [Archivos -> Entradas]
      /\ m.init \in Int /\ m.tam \in Int /\ TamActual(m) \in Int
  BY <1>1, Memoria
<1>3. expuestos \subseteq expuestos'
  BY <1>1 DEF Arrastra
<1>4. m2 \in Entradas /\ m2.tam = n
  BY <1>2 DEF Entradas
<1>5. ASSUME f \notin expuestos'
      PROVE  /\ n >= 0 /\ f \notin expuestos
             /\ libera \subseteq BloquesDe(m)
             /\ BloquesDe(m2) \subseteq BloquesDe(m) \ libera
  <2>1. n >= 0 /\ f \notin expuestos
    BY <1>1, <1>5 DEF Arrastra
  <2>2. BloquesDe(m) = m.init .. m.init + TamActual(m) - 1
    BY <1>1 DEF BloquesDe
  <2>3. libera \subseteq BloquesDe(m)
    BY <1>2, <2>1, <2>2
  <2>4. CASE n = 0
    <3>1. BloquesDe(m2) = {}
      BY <2>4 DEF BloquesDe, TamActual
    <3> QED
      BY <2>1, <2>3, <3>1
  <2>5. CASE n > 0
    <3>1. BloquesDe(m2) = m.init .. m.init + n - 1
      BY <1>2, <2>5 DEF BloquesDe, TamActual, NoExiste
    <3> QED
      BY <1>1, <1>2, <2>1, <2>2, <2>3, <3>1, SMTT(60)
  <2> QED
    BY <2>1, <2>4, <2>5
<1> HIDE DEF libera, m2
<1>6. /\ bitmap' \in [Bits -> BOOLEAN]
      /\ \A b \in Bits : bitmap'[b] <=> (bitmap[b] /\ b \notin libera)
  BY <1>1, <1>2, Zenon
<1>7. /\ metadata' \in [Archivos -> Entradas] /\ metadata'[f] = m2
      /\ \A g \in Archivos \ {f} : metadata'[g] = metadata[g]
  BY <1>1, <1>2, <1>4
<1>8. ASSUME NEW g \in Archivos \ (expuestos' \cup {f})
      PROVE  /\ g \notin expuestos
             /\ \A b \in BloquesDe(metadata[g]) : b \in Bits /\ bitmap[b] /\ b \notin libera
  <2>1. g \notin expuestos
    BY <1>3
  <2>2. libera \cap BloquesDe(metadata[g]) = {}
    <3>1. CASE n < 0 \/ f \in expuestos
      BY <1>1, <3>1 DEF Arrastra
    <3>2. CASE ~(n < 0 \/ f \in expuestos)
      <4>1. f \notin expuestos'
        BY <1>1, <3>2
      <4>2. BloquesDe(m) \cap BloquesDe(metadata[g]) = {}
        BY <1>2, <2>1, <3>2 DEF Sana
      <4> QED
        BY <1>5, <4>1, <4>2
    <3> QED
      BY <3>1, <3>2
  <2>3. \A b \in BloquesDe(metadata[g]) : b \in Bits /\ bitmap[b]
    BY <1>2, <2>1 DEF Sana
  <2> QED
    BY <2>1, <2>2, <2>3
<1>9. ASSUME f \notin expuestos', NEW b \in BloquesDe(m2)
      PROVE  /\ b \in Bits /\ bitmap'[b]
             /\ \A g \in Archivos \ (expuestos' \cup {f}) : b \notin BloquesDe(metadata[g])
  <2>1. b \in BloquesDe(m) /\ b \notin libera /\ f \notin expuestos
    BY <1>5, <1>9
  <2>2. /\ b \in Bits /\ bitmap[b]
        /\ \A g \in Archivos \ (expuestos \cup {f}) : b \notin BloquesDe(metadata[g])
    BY <1>2, <2>1 DEF Sana
  <2> QED
    BY <1>3, <1>6, <2>1, <2>2
<1>10. Sana(bitmap', metadata', expuestos')
  <2>1. \A g \in Archivos \ (expuestos' \cup {f}) :
                /\ g \notin expuestos /\ metadata'[g] = metadata[g]
                /\ \A b \in BloquesDe(metadata[g]) : bitmap'[b]
    BY <1>6, <1>7, <1>8
  <2>2. f \notin expuestos' =>
            /\ metadata'[f].tam >= 0
            /\ \A b \in BloquesDe(metadata'[f]) :
                /\ b \in Bits /\ bitmap'[b]
                /\ \A g \in Archivos \ (expuestos' \cup {f}) : b \notin BloquesDe(metadata[g])
    BY <1>4, <1>5, <1>7, <1>9
  <2> QED
    BY <1>2, <2>1, <2>2, SanaCambia
<1>11. Cambia("truncar", f, <<f, "bitmap">>)
  BY <1>1, <1>3, <1>6, <1>7, <1>10, Guardados DEF Cambia
<1>12. Ordena("truncar", f, <<f, "bitmap">>)
  BY <1>5, <1>7 DEF Ordena
<1> QED
  BY <1>1, <1>11, <1>12, Guardados, EmpiezaBien DEF Nombres

\* A truncation that takes the free blocks that follow the file.
LEMMA ContiguoBien ==
    ASSUME DialInv, NEW f \in Archivos, NEW n \in Int, TruncaContiguo(f, n) PROVE DialInv'
<1> DEFINE m == metadata[f]
           fin == m.init + TamActual(m)
           m2 == [m EXCEPT !.tam = n]
           toma == fin .. (m.init + n) - 1
<1>1. /\ Libre /\ m # NoExiste /\ n > TamActual(m) /\ bloques' = bloques
      /\ check_space_contiguo(bitmap, fin, m.init + n)
      /\ bitmap' = Marca(bitmap, fin, m.init + n, TRUE)
      /\ metadata' = [metadata EXCEPT ![f] = m2] /\ expuestos' = expuestos
      /\ Empieza("truncar", f, 0, <<"bitmap", f>>)
  BY DEF TruncaContiguo, Contiguo, Sano
<1>2. /\ Sana(bitmap, metadata, expuestos)
      /\ bitmap \in [Bits -> BOOLEAN] /\ metadata \in [Archivos -> Entradas]
      /\ m \in Entradas /\ m.init \in Int /\ m.tam \in Int /\ TamActual(m) \in Int
      /\ fin \in Int /\ m.init + n \in Int
  BY <1>1, Memoria
<1>3. \A b \in toma : b \in Bits /\ ~bitmap[b]
  BY <1>1, <1>2, DialAssumption, SMTT(60) DEF check_space_contiguo, Bits
<1>4. m2 \in Entradas /\ m2.tam = n
  BY <1>2 DEF Entradas
<1>5. ASSUME f \notin expuestos
      PROVE  /\ n > 0
             /\ BloquesDe(m2) = BloquesDe(m) \cup toma
  <2>1. m.tam >= 0
    BY <1>1, <1>2, <1>5 DEF Sana
  <2>2. n > 0 /\ BloquesDe(m) = m.init .. fin - 1
    BY <1>1, <1>2, <2>1, SMTT(60) DEF TamActual, BloquesDe
  <2>3. BloquesDe(m2) = m.init .. (m.init + n) - 1
    BY <1>2, <2>2, SMTT(60) DEF TamActual, BloquesDe, NoExiste
  <2>4. m.init <= fin
    BY <1>2, <2>1 DEF TamActual
  <2> HIDE DEF m2
  <2> QED
    BY <1>1, <1>2, <2>2, <2>3, <2>4, SMTT(60)
<1> HIDE DEF m2, fin
<1>6. /\ bitmap' \in [Bits -> BOOLEAN]
      /\ \A b \in Bits : bitmap'[b] <=> (b \in toma \/ bitmap[b])
  <2> HIDE DEF m
  <2> QED
    BY <1>1, <1>2, MarcaDa
<1> HIDE DEF toma
<1>7. /\ metadata' \in [Archivos -> Entradas] /\ metadata'[f] = m2
      /\ \A g \in Archivos \ {f} : metadata'[g] = metadata[g]
  BY <1>1, <1>2, <1>4
<1>8. ASSUME NEW g \in Archivos \ (expuestos \cup {f}), NEW b \in BloquesDe(metadata[g])
      PROVE  b \in Bits /\ bitmap[b] /\ bitmap'[b] /\ b \notin toma
  BY <1>2, <1>3, <1>6 DEF Sana
<1>9. ASSUME f \notin expuestos, NEW b \in BloquesDe(m2)
      PROVE  /\ b \in Bits /\ bitmap'[b]
             /\ \A g \in Archivos \ (expuestos \cup {f}) : b \notin BloquesDe(metadata[g])
  <2>1. CASE b \in toma
    BY <1>3, <1>6, <1>8, <2>1
  <2>2. CASE b \in BloquesDe(m)
    BY <1>2, <1>6, <1>9, <2>2 DEF Sana
  <2> QED
    BY <1>5, <1>9, <2>1, <2>2
<1>10. Sana(bitmap', metadata', expuestos)
  <2>1. \A g \in Archivos \ (expuestos \cup {f}) :
                /\ g \notin expuestos /\ metadata'[g] = metadata[g]
                /\ \A b \in BloquesDe(metadata[g]) : bitmap'[b]
    BY <1>7, <1>8
  <2>2. f \notin expuestos =>
            /\ metadata'[f].tam >= 0
            /\ \A b \in BloquesDe(metadata'[f]) :
                /\ b \in Bits /\ bitmap'[b]
                /\ \A g \in Archivos \ (expuestos \cup {f}) : b \notin BloquesDe(metadata[g])
    BY <1>4, <1>5, <1>7, <1>9
  <2> QED
    BY <1>2, <2>1, <2>2, SanaCambia
<1>11. Cambia("truncar", f, <<"bitmap", f>>)
  <2>1. Sana(bitmap', metadata', expuestos')
    BY <1>1, <1>10
  <2> QED
    BY <1>1, <1>6, <1>7, <2>1, Guardados DEF Cambia
<1>12. Ordena("truncar", f, <<"bitmap", f>>)
  BY <1>1, <1>5, <1>7 DEF Ordena
<1> QED
  BY <1>1, <1>11, <1>12, Guardados, EmpiezaBien DEF Nombres

\* A truncation that moves the file to another free run.
LEMMA ReubicaBien ==
    ASSUME DialInv, NEW f \in Archivos, NEW n \in Int, TruncaReubica(f, n) PROVE DialInv'
<1> DEFINE m == metadata[f]
           fin == m.init + TamActual(m)
           nuevo == get_init_block_file(bitmap, n)
           toma == nuevo .. (nuevo + n) - 1
           m2 == [init |-> nuevo, tam |-> n]
           limpio == Marca(bitmap, m.init, fin, FALSE)
           saves == <<"bloques", "bitmap", f>>
<1>1. /\ Libre /\ m # NoExiste /\ n > TamActual(m) /\ nuevo # -1
      /\ IF f \in expuestos THEN Arrastra(f, BloquesDe(m)) ELSE UNCHANGED expuestos
      /\ bitmap' = Marca(limpio, nuevo, nuevo + n, TRUE)
      /\ metadata' = [metadata EXCEPT ![f] = m2]
      /\ Empieza("reubicar", f, 0, saves)
  <2>1. nuevo > -1 => nuevo # -1
    OBVIOUS
  <2> QED
    BY <2>1 DEF TruncaReubica
<1>2. /\ Sana(bitmap, metadata, expuestos)
      /\ bitmap \in [Bits -> BOOLEAN] /\ metadata \in [Archivos -> Entradas]
      /\ m \in Entradas /\ m.init \in Int /\ m.tam \in Int /\ TamActual(m) \in Int
      /\ fin \in Int
  BY <1>1, Memoria
<1>3. /\ nuevo \in Int /\ nuevo + n \in Int /\ m2 \in Entradas /\ m2.tam = n
      /\ n >= 0 => \A b \in BloquesDe(m2) : b \in Bits /\ b \in toma /\ ~bitmap[b]
  <2>1. /\ nuevo \in Int /\ m2 \in Entradas
        /\ n >= 0 => \A b \in BloquesDe(m2) :
                        b \in Bits /\ b \in nuevo .. nuevo + n - 1 /\ ~bitmap[b]
    BY <1>1, LugarNuevo
  <2> HIDE DEF nuevo
  <2>2. toma = nuevo .. nuevo + n - 1
    BY <2>1
  <2> QED
    BY <2>1, <2>2
<1>4. BloquesDe(m) = m.init .. fin - 1
  BY <1>1, <1>2, SMTT(60) DEF BloquesDe
<1> HIDE DEF nuevo, m2, fin
<1>5. /\ limpio \in [Bits -> BOOLEAN]
      /\ \A b \in Bits : limpio[b] <=> (b \notin BloquesDe(m) /\ bitmap[b])
  <2>1. m.init .. fin - 1 = BloquesDe(m)
    BY <1>4
  <2> HIDE DEF m
  <2> QED
    BY <1>2, <2>1, MarcaDa
<1> HIDE DEF limpio
<1>6. /\ bitmap' \in [Bits -> BOOLEAN]
      /\ \A b \in Bits : bitmap'[b] <=> (b \in toma \/ limpio[b])
  <2> HIDE DEF m
  <2> QED
    BY <1>1, <1>3, <1>5, MarcaDa
<1> HIDE DEF toma
<1>7. /\ metadata' \in [Archivos -> Entradas] /\ metadata'[f] = m2
      /\ \A g \in Archivos \ {f} : metadata'[g] = metadata[g]
  BY <1>1, <1>2, <1>3
<1>8. expuestos \subseteq expuestos'
  BY <1>1 DEF Arrastra
<1>9. ASSUME NEW g \in Archivos \ (expuestos' \cup {f})
      PROVE  /\ g \notin expuestos
             /\ \A b \in BloquesDe(metadata[g]) : b \in Bits /\ bitmap[b] /\ bitmap'[b]
  <2>1. g \notin expuestos
    BY <1>8
  <2>2. BloquesDe(m) \cap BloquesDe(metadata[g]) = {}
    BY <1>1, <1>2, <2>1 DEF Sana, Arrastra
  <2>3. \A b \in BloquesDe(metadata[g]) : b \in Bits /\ bitmap[b]
    BY <1>2, <2>1 DEF Sana
  <2> QED
    BY <1>5, <1>6, <2>1, <2>2, <2>3
<1>10. ASSUME f \notin expuestos'
       PROVE  /\ n >= 0
              /\ \A b \in BloquesDe(m2) :
                    /\ b \in Bits /\ bitmap'[b]
                    /\ \A g \in Archivos \ (expuestos' \cup {f}) : b \notin BloquesDe(metadata[g])
  <2>1. m.tam >= 0
    BY <1>1, <1>2, <1>8, <1>10 DEF Sana
  <2>2. n >= 0
    BY <1>1, <1>2, <2>1 DEF TamActual
  <2> QED
    BY <1>3, <1>6, <1>9, <2>2
<1>11. Sana(bitmap', metadata', expuestos')
  <2>1. \A g \in Archivos \ (expuestos' \cup {f}) :
                /\ g \notin expuestos /\ metadata'[g] = metadata[g]
                /\ \A b \in BloquesDe(metadata[g]) : bitmap'[b]
    BY <1>7, <1>9
  <2>2. f \notin expuestos' =>
            /\ metadata'[f].tam >= 0
            /\ \A b \in BloquesDe(metadata'[f]) :
                /\ b \in Bits /\ bitmap'[b]
                /\ \A g \in Archivos \ (expuestos' \cup {f}) : b \notin BloquesDe(metadata[g])
    BY <1>3, <1>7, <1>10
  <2> QED
    BY <1>2, <2>1, <2>2, SanaCambia
<1>12. Cambia("reubicar", f, saves)
  BY <1>6, <1>7, <1>8, <1>11, Guardados DEF Cambia
<1>13. Ordena("reubicar", f, saves)
  BY DEF Ordena
<1> QED
  BY <1>1, <1>12, <1>13, Guardados, EmpiezaBien DEF Nombres

\* All the files but f, in some order, and then f: every file has its blocks.
LEMMA CompactaBien ==
    ASSUME DialInv, NEW f \in Archivos, NEW n \in Int, TruncaCompacta(f, n) PROVE DialInv'
<1> DEFINE otros == {g \in Archivos \ {f} : metadata[g] # NoExiste}
           c == Cardinality(otros)
<1>1. PICK orden \in Bijection(1 .. c, otros) :
        LET resto == compacta(orden)
            fin == realocate_compactacion(resto, f, n) IN
        /\ bitmap' = fin.bitmap /\ metadata' = fin.metadata
        /\ caido' = fin.falla /\ expuestos' = {}
        /\ operacion' = [nombre |-> "compactar", archivo |-> f, byte |-> 0]
        /\ pendientes' = orden \o <<f, "bitmap", "bloques">>
        /\ UNCHANGED disco
  BY DEF TruncaCompacta
<1>2. /\ Libre /\ n > TamActual(metadata[f]) /\ metadata[f] # NoExiste
      /\ Sana(bitmap, metadata, expuestos)
      /\ bitmap \in [Bits -> BOOLEAN] /\ metadata \in [Archivos -> Entradas]
      /\ metadata[f].init \in Int /\ metadata[f].tam \in Int
  BY Memoria DEF TruncaCompacta
<1>3. c \in Nat
  <2>1. IsFiniteSet(otros)
    BY DialAssumption, FS_Subset
  <2> QED
    BY <2>1, FS_CardinalityType
<1>4. /\ orden \in [1 .. c -> otros]
      /\ \A i, j \in 1 .. c : orden[i] = orden[j] => i = j
      /\ \A g \in otros : \E j \in 1 .. c : orden[j] = g
  BY <1>1 DEF Bijection, Injection, Surjection, IsInjective
<1>5. otros \subseteq Archivos /\ f \notin otros
  OBVIOUS
<1>6. /\ Len(orden) = c /\ DOMAIN orden = 1 .. c
      /\ \A j \in 1 .. c : orden[j] \in Archivos
      /\ orden \in Seq(Archivos)
  <2>1. orden \in [1 .. c -> Archivos]
    BY <1>4, <1>5
  <2> HIDE DEF c
  <2> QED
    BY <1>3, <2>1
<1>7. \A g \in Archivos \ {f} : g \in otros \/ metadata[g] = NoExiste
  OBVIOUS
<1> HIDE DEF c, otros
<1> DEFINE P == Puestos(orden, c)
           resto == compacta(orden)
           fin == realocate_compactacion(resto, f, n)
           saves == orden \o <<f, "bitmap", "bloques">>
<1>8. P = otros
  BY <1>4 DEF Puestos
<1>9. /\ resto.bitmap \in [Bits -> BOOLEAN] /\ resto.metadata \in [Archivos -> Entradas]
      /\ \A g \in Archivos \ P : resto.metadata[g] = metadata[g]
      /\ ~resto.falla => Sana(resto.bitmap, resto.metadata, Archivos \ P)
  <2>1. Len(orden) \in Nat
    BY <1>3, <1>6
  <2>2. \A i, j \in 1 .. Len(orden) : orden[i] = orden[j] => i = j
    BY <1>4, <1>6
  <2>3. \A j \in 1 .. Len(orden) : orden[j] \in Archivos
    BY <1>6
  <2> HIDE DEF P, resto
  <2>4. P = Puestos(orden, Len(orden)) /\ resto = compacta(orden)
    BY <1>6 DEF P, resto
  <2> QED
    BY <1>2, <2>1, <2>2, <2>3, <2>4, CompactaPone
<1> HIDE DEF resto, P
<1>10. /\ fin.bitmap \in [Bits -> BOOLEAN] /\ fin.metadata \in [Archivos -> Entradas]
       /\ \A g \in Archivos \ {f} : fin.metadata[g] = resto.metadata[g]
       /\ ~fin.falla => ~resto.falla /\ resto.metadata[f].tam >= 0
       /\ ~fin.falla /\ n >= 0 /\ Sana(resto.bitmap, resto.metadata, Archivos \ P) =>
            Sana(fin.bitmap, fin.metadata, Archivos \ (P \cup {f}))
  BY <1>9, PasoCompacta
<1>11. resto.metadata[f] = metadata[f]
  BY <1>5, <1>8, <1>9
<1> HIDE DEF fin
<1>12. \A g \in Archivos \ (P \cup {f}) : fin.metadata[g] = NoExiste /\ metadata[g] = NoExiste
  BY <1>7, <1>8, <1>9, <1>10
<1>13. ASSUME ~fin.falla PROVE Sana(fin.bitmap, fin.metadata, {})
  <2>1. n >= 0
    BY <1>2, <1>10, <1>11, <1>13 DEF TamActual
  <2>2. Sana(fin.bitmap, fin.metadata, Archivos \ (P \cup {f}))
    BY <1>9, <1>10, <1>13, <2>1
  <2>3. \A g \in Archivos \ (P \cup {f}) : BloquesDe(fin.metadata[g]) = {}
    BY <1>12 DEF BloquesDe
  <2> QED
    BY <1>12, <2>2, <2>3 DEF Sana
<1>14. /\ bitmap' = fin.bitmap /\ metadata' = fin.metadata /\ expuestos' = {}
       /\ caido' = fin.falla
       /\ Empieza("compactar", f, 0, saves)
  BY <1>1 DEF fin, resto, Empieza
<1>15. /\ saves \in Saves /\ Esta("bitmap", saves) /\ Esta("bloques", saves) /\ Esta(f, saves)
       /\ \A g \in otros : Esta(g, saves)
  <2> DEFINE S == Archivos \cup {"bitmap", "bloques"}
             cola == <<f, "bitmap", "bloques">>
  <2>1. orden \in Seq(S) /\ cola \in Seq(S)
    BY <1>6
  <2>2. Len(cola) = 3 /\ cola[1] = f /\ cola[2] = "bitmap" /\ cola[3] = "bloques"
    OBVIOUS
  <2> HIDE DEF cola
  <2>3. /\ orden \o cola \in Seq(S) /\ DOMAIN (orden \o cola) = 1 .. c + 3
        /\ \A i \in 1 .. c : (orden \o cola)[i] = orden[i]
        /\ \A i \in 1 .. 3 : (orden \o cola)[c + i] = cola[i]
    <3>1. /\ orden \o cola \in Seq(S) /\ Len(orden \o cola) = Len(orden) + Len(cola)
          /\ \A i \in 1 .. Len(orden) + Len(cola) : (orden \o cola)[i] =
                IF i <= Len(orden) THEN orden[i] ELSE cola[i - Len(orden)]
      BY <2>1, ConcatProperties
    <3>2. DOMAIN (orden \o cola) = 1 .. Len(orden \o cola)
      BY <3>1
    <3>3. \A i \in 1 .. 3 : c + i \in 1 .. c + 3 /\ ~(c + i <= c) /\ (c + i) - c = i
      BY <1>3
    <3>4. \A i \in 1 .. c : i \in 1 .. c + 3 /\ i <= c
      BY <1>3
    <3> HIDE DEF S
    <3> QED
      BY <1>6, <2>2, <3>1, <3>2, <3>3, <3>4, SMTT(60)
  <2>4. c + 1 \in 1 .. c + 3 /\ c + 2 \in 1 .. c + 3 /\ c + 3 \in 1 .. c + 3
    BY <1>3
  <2>5. \A i \in 1 .. c : i \in 1 .. c + 3
    BY <1>3
  <2>6. saves = orden \o cola
    BY DEF cola
  <2>7. saves \in Saves
    BY <2>3, <2>6 DEF Saves
  <2> HIDE DEF S, saves
  <2>8. saves[c + 1] = f /\ saves[c + 2] = "bitmap" /\ saves[c + 3] = "bloques"
    <3>1. 1 \in 1 .. 3 /\ 2 \in 1 .. 3 /\ 3 \in 1 .. 3
      OBVIOUS
    <3> QED
      BY <2>2, <2>3, <2>6, <3>1, Zenon
  <2>9. \A i \in 1 .. c : saves[i] = orden[i]
    BY <2>3, <2>6
  <2>10. DOMAIN saves = 1 .. c + 3
    BY <2>3, <2>6
  <2> QED
    BY <1>4, <2>4, <2>5, <2>7, <2>8, <2>9, <2>10 DEF Esta
<1> HIDE DEF saves
<1>16. \A g \in Archivos : metadata'[g] = metadata[g] \/ Esta(g, saves)
  BY <1>8, <1>12, <1>14, <1>15
<1>17. Cambia("compactar", f, saves)
  BY <1>10, <1>13, <1>14, <1>15, <1>16 DEF Cambia
<1>18. Ordena("compactar", f, saves)
  BY DEF Ordena
<1> QED
  BY <1>2, <1>14, <1>15, <1>17, <1>18, EmpiezaBien DEF Nombres

\* A save: the last one leaves disk and memory equal, the others leave a disk
\* a stop may find.
LEMMA GuardaBien == ASSUME DialInv, Guarda PROVE DialInv'
<1> DEFINE x == Head(pendientes)
<1>1. /\ pendientes # <<>> /\ pendientes' = Tail(pendientes)
      /\ bitmap' = bitmap /\ metadata' = metadata /\ bloques' = bloques
      /\ expuestos' = expuestos /\ caido' = caido /\ ~caido
      /\ d_bitmap' = IF x = "bitmap" THEN bitmap ELSE d_bitmap
      /\ d_bloques' = IF x = "bloques" THEN bloques ELSE d_bloques
      /\ d_metadata' = IF x \in Archivos THEN [d_metadata EXCEPT ![x] = metadata[x]]
                                         ELSE d_metadata
      /\ IF Len(pendientes) = 1 THEN operacion' = Reposo ELSE operacion' = operacion
  BY DEF Guarda, memoria
<1>2. /\ TipoDisco /\ AlDia /\ EnCurso
      /\ Sana(bitmap, metadata, expuestos)
      /\ Sana(d_bitmap, d_metadata, expuestos \cup Arriesgados)
  BY <1>1 DEF DialInv, Sanos
<1>3. /\ pendientes \in Saves /\ Len(pendientes) \in Nat /\ DOMAIN pendientes = 1 .. Len(pendientes)
      /\ Len(pendientes) > 0 /\ x = pendientes[1]
      /\ pendientes' \in Saves /\ Len(pendientes') = Len(pendientes) - 1
      /\ DOMAIN pendientes' = 1 .. Len(pendientes) - 1
      /\ \A k \in 1 .. Len(pendientes) - 1 : pendientes'[k] = pendientes[k + 1]
  BY <1>1, <1>2 DEF TipoDisco, Saves
<1> HIDE DEF x
<1>4. TipoDisco'
  BY <1>1, <1>2, <1>3 DEF TipoDisco, Saves
<1>5. \A y : Pendiente(y) => y = x \/ Pendiente(y)'
  <2>1. ASSUME NEW y, NEW k \in DOMAIN pendientes, pendientes[k] = y, y # x PROVE Pendiente(y)'
    <3>1. k \in 1 .. Len(pendientes) /\ k # 1
      BY <1>3, <2>1
    <3>2. k - 1 \in 1 .. Len(pendientes) - 1 /\ (k - 1) + 1 = k
      BY <1>3, <3>1
    <3>3. pendientes'[k - 1] = y /\ k - 1 \in DOMAIN pendientes'
      BY <1>3, <2>1, <3>2
    <3> QED
      BY <3>3 DEF Pendiente
  <2> QED
    BY <2>1 DEF Pendiente
<1>6. AlDia'
  <2>1. Pendiente("bitmap")' \/ d_bitmap' = bitmap'
    BY <1>1, <1>2, <1>5 DEF AlDia
  <2>2. Pendiente("bloques")' \/ d_bloques' = bloques'
    BY <1>1, <1>2, <1>5 DEF AlDia
  <2>3. ASSUME NEW g \in Archivos PROVE Pendiente(g)' \/ d_metadata'[g] = metadata'[g]
    BY <1>1, <1>2, <1>5 DEF AlDia, TipoDisco
  <2> QED
    BY <2>1, <2>2, <2>3 DEF AlDia, Pendiente
<1>7. CASE Len(pendientes) = 1
  <2>1. pendientes' = <<>>
    BY <1>3, <1>7 DEF Saves
  <2>2. d_bitmap' = bitmap' /\ d_metadata' = metadata' /\ d_bloques' = bloques'
    <3>1. \A y : ~Pendiente(y)'
      BY <2>1 DEF Pendiente
    <3>2. \A g \in Archivos : d_metadata'[g] = metadata'[g]
      BY <1>6, <3>1 DEF AlDia
    <3> QED
      BY <1>4, <1>6, <3>1, <3>2 DEF AlDia, TipoDisco
  <2>3. EnCurso'
    BY <2>1, <2>2 DEF EnCurso
  <2>4. Arriesgados' = {}
    <3>1. operacion' = Reposo
      BY <1>1, <1>7
    <3> QED
      BY <3>1 DEF Arriesgados, Reposo
  <2>5. Sana(bitmap', metadata', expuestos') /\ Sana(d_bitmap', d_metadata', (expuestos \cup Arriesgados)')
    BY <1>1, <1>2, <2>2, <2>4
  <2>6. Sanos'
    BY <2>5 DEF Sanos, Sana
  <2> QED
    BY <1>4, <1>6, <2>3, <2>6 DEF DialInv
<1>8. CASE Len(pendientes) # 1
  <2> DEFINE f == operacion.archivo
  <2>1. operacion' = operacion /\ Arriesgados' = Arriesgados /\ Len(pendientes) > 1
    BY <1>1, <1>3, <1>8 DEF Arriesgados
  <2>2. operacion.nombre # "compactar" => \A g \in Archivos \ {f} : d_metadata'[g] = metadata'[g]
    BY <1>1, <1>2, <2>1 DEF EnCurso, TipoDisco
  <2>3. CASE operacion.nombre = "compactar"
    <3>1. EnCurso'
      BY <2>1, <2>3 DEF EnCurso
    <3>2. Arriesgados' = Archivos
      BY <2>1, <2>3 DEF Arriesgados
    <3>3. Sanos'
      BY <1>1, <1>2, <3>2 DEF Sanos, Sana
    <3> QED
      BY <1>4, <1>6, <3>1, <3>3 DEF DialInv
  <2>4. CASE operacion.nombre \in {"crear", "reubicar"}
    <3>1. EnCurso'
      BY <2>1, <2>2, <2>4 DEF EnCurso
    <3>2. Arriesgados' = {f} /\ Arriesgados = {f}
      BY <2>1, <2>4 DEF Arriesgados
    <3>3. \A g \in Archivos \ {f} : d_metadata'[g] = metadata[g] /\ d_metadata[g] = metadata[g]
      BY <1>1, <1>2, <2>2, <2>4 DEF EnCurso
    <3>4. d_bitmap' = bitmap \/ d_bitmap' = d_bitmap
      BY <1>1
    <3>5. Sana(d_bitmap', d_metadata', expuestos \cup {f})
      BY <1>2, <3>2, <3>3, <3>4 DEF Sana
    <3>6. Sanos'
      BY <1>1, <1>2, <3>2, <3>5, ZenonT(90) DEF Sanos, Sana
    <3> QED
      BY <1>4, <1>6, <3>1, <3>6 DEF DialInv
  <2>5. CASE operacion.nombre \notin {"compactar", "crear", "reubicar"}
    <3>1. /\ f \in Archivos /\ f # "bitmap"
          /\ pendientes = <<f, "bitmap">> \/ pendientes = <<"bitmap", f>>
          /\ f \notin expuestos =>
                /\ pendientes[1] = f => BloquesDe(metadata[f]) \subseteq BloquesDe(d_metadata[f])
                /\ pendientes[1] = "bitmap" =>
                        BloquesDe(d_metadata[f]) \subseteq BloquesDe(metadata[f])
          /\ \A g \in Archivos \ {f} : d_metadata[g] = metadata[g]
      BY <1>2, <2>1, <2>5, GuardadosDistintos DEF EnCurso
    <3>2. EnCurso'
      <4>1. Len(pendientes') = 1
        BY <1>3, <3>1
      <4> QED
        BY <2>1, <2>2, <4>1 DEF EnCurso
    <3>3. Arriesgados = {} /\ expuestos \cup Arriesgados = expuestos
      BY <2>5 DEF Arriesgados
    <3>4. CASE pendientes = <<f, "bitmap">>
      <4>1. x = f
        BY <1>3, <3>4
      <4>2. d_bitmap' = d_bitmap /\ \A g \in Archivos : d_metadata'[g] = metadata[g]
        BY <1>1, <1>2, <3>1, <4>1 DEF TipoDisco
      <4>3. f \notin expuestos => BloquesDe(metadata[f]) \subseteq BloquesDe(d_metadata[f])
        BY <3>1, <3>4
      <4>4. Sana(d_bitmap, d_metadata, expuestos)
        BY <1>2, <3>3
      <4> QED
        <5>1. Sana(d_bitmap', d_metadata', expuestos)
          BY <1>2, <3>1, <4>2, <4>3, <4>4 DEF Sana
        <5>2. (expuestos \cup Arriesgados)' = expuestos /\ expuestos' = expuestos
          BY <1>1, <2>1, <3>3
        <5>3. /\ Sana(bitmap', metadata', expuestos')
              /\ Sana(d_bitmap', d_metadata', (expuestos \cup Arriesgados)')
          BY <1>1, <1>2, <5>1, <5>2
        <5>4. Sanos'
          BY <5>3 DEF Sanos, Sana
        <5> QED
          BY <1>4, <1>6, <3>2, <5>4 DEF DialInv
    <3>5. CASE pendientes = <<"bitmap", f>>
      <4>1. x = "bitmap" /\ x \notin Archivos
        BY <1>3, <3>5, GuardadosDistintos
      <4>2. d_bitmap' = bitmap /\ d_metadata' = d_metadata
        BY <1>1, <4>1
      <4>3. f \notin expuestos => BloquesDe(d_metadata[f]) \subseteq BloquesDe(metadata[f])
        BY <3>1, <3>5
      <4>4. Sana(d_bitmap, d_metadata, expuestos)
        BY <1>2, <3>3
      <4> QED
        <5>1. Sana(d_bitmap', d_metadata', expuestos)
          BY <1>2, <3>1, <4>2, <4>3, <4>4 DEF Sana
        <5>2. (expuestos \cup Arriesgados)' = expuestos /\ expuestos' = expuestos
          BY <1>1, <2>1, <3>3
        <5>3. /\ Sana(bitmap', metadata', expuestos')
              /\ Sana(d_bitmap', d_metadata', (expuestos \cup Arriesgados)')
          BY <1>1, <1>2, <5>1, <5>2
        <5>4. Sanos'
          BY <5>3 DEF Sanos, Sana
        <5> QED
          BY <1>4, <1>6, <3>2, <5>4 DEF DialInv
    <3> QED
      BY <3>1, <3>4, <3>5
  <2> QED
    BY <2>3, <2>4, <2>5
<1> QED
  BY <1>7, <1>8

\* A stop and a start, whatever the saves that were left.
LEMMA CortaBien == ASSUME DialInv, CortaYReinicia PROVE DialInv'
<1>1. /\ bitmap' = d_bitmap /\ metadata' = d_metadata /\ bloques' = d_bloques
      /\ d_bitmap' = d_bitmap /\ d_metadata' = d_metadata /\ d_bloques' = d_bloques
      /\ pendientes' = <<>> /\ operacion' = Reposo
      /\ expuestos' = expuestos \cup Arriesgados /\ caido' = caido /\ ~caido
  BY DEF CortaYReinicia, disco, Arriesgados
<1>2. Sana(d_bitmap, d_metadata, expuestos')
  BY <1>1 DEF DialInv, Sanos
<1>3. TipoDisco'
  BY <1>1 DEF DialInv, TipoDisco
<1>4. AlDia' /\ EnCurso'
  BY <1>1 DEF AlDia, EnCurso
<1>5. Arriesgados' = {}
  BY <1>1 DEF Arriesgados, Reposo
<1>6. Sanos'
  BY <1>1, <1>2, <1>5, ZenonT(90) DEF Sanos, Sana
<1> QED
  BY <1>3, <1>4, <1>6 DEF DialInv

\* A write outside bloques.dat stops the model.
LEMMA FueraBien ==
    ASSUME DialInv, NEW f \in Archivos, NEW ptr, EscribeFuera(f, ptr) PROVE DialInv'
BY DEF EscribeFuera, memoria, disco, ghosts, DialInv, TipoDisco, AlDia, Pendiente, EnCurso, Sanos

\* Every step keeps the invariant.
LEMMA DialPaso == ASSUME DialInv, [Next]_vars PROVE DialInv'
<1>1. CASE UNCHANGED vars
  BY <1>1 DEF vars, memoria, disco, ghosts, DialInv, TipoDisco, AlDia, Pendiente, EnCurso,
     Arriesgados, Sanos, Sana
<1>2. Tamanios \subseteq Int
  BY DialAssumption
<1> QED
  BY <1>1, <1>2, GuardaBien, CortaBien, CreaBien, BorraBien, EscribeBien, FueraBien, IgualBien,
     MenosBien, ContiguoBien, ReubicaBien, CompactaBien DEF Next

\* The invariant holds in every behaviour.
LEMMA DialSiempre == Spec => []DialInv
BY DialInit, DialPaso, PTL DEF Spec

-----------------------------------------------------------------------------
(* The theorems.                                                           *)

\* Between operations the bitmap, the metadata files and bloques.dat on disk
\* are what memory holds: every operation of dialfs.c saves all it changed,
\* whatever stops and starts there were.
THEOREM DiscoSiempreAlDia == Spec => []DiscoAlDia
<1>1. DialInv => DiscoAlDia
  BY LibreIgual DEF DialInv, DiscoAlDia, Libre
<1> QED
  BY <1>1, DialSiempre, PTL

\* The files that no stop in a creation, relocation or compaction and no
\* negative size exposed own their blocks: inside the disk, marked in the
\* bitmap and shared with no other such file, through every creation,
\* deletion, truncation, relocation and compaction.
THEOREM BloquesSiemprePropios == Spec => []BloquesPropios
<1>1. DialInv => BloquesPropios
  BY DEF DialInv, Sanos, Sana, BloquesPropios
<1> QED
  BY <1>1, DialSiempre, PTL

\* What get_init_block_file returns for any size is a run of free blocks
\* inside the disk, and it finds a block when one is free.
THEOREM HuecoSiempreValido == Spec => []HuecoValido
<1>1. DialInv => HuecoValido
  <2> SUFFICES ASSUME DialInv, NEW n \in 1 .. N
               PROVE  LET p == get_init_block_file(bitmap, n) IN
                      /\ p # -1 => p >= 0 /\ p + n <= N /\ (\A b \in p .. p + n - 1 : ~bitmap[b])
                      /\ n = 1 /\ p = -1 => \A b \in Bits : bitmap[b]
    BY DEF HuecoValido
  <2>1. N \in Nat /\ n \in Int
    BY DialAssumption
  <2> QED
    BY <2>1, HuecoLibre, BloqueLibre DEF Bits
<1> QED
  BY <1>1, DialSiempre, PTL

\* The first free run after u blocks in use starts right there.
LEMMA BuscaPrefijo ==
    ASSUME NEW bits, NEW size \in Nat \ {0}, NEW u \in Nat, u + size <= N,
           \A b \in Bits : bits[b] <=> b < u
    PROVE  get_init_block_file(bits, size) = u
<1>1. N \in Nat /\ u < N
  BY DialAssumption
<1>2. PICK g : Recorre(bits, size, g) /\ get_init_block_file(bits, size) = g[0]
  BY BuscaDefinida
<1>3. \A i \in 0 .. N + 1 : g[i] = Sigue(bits, size, i, g)
  BY <1>2 DEF Recorre
<1> DEFINE T == {i \in 0 .. u : g[i] = u}
<1>4. u \in T
  <2>1. ~bits[u] /\ \A k \in u + 1 .. u + size - 1 : k < N => ~bits[k]
    BY <1>1 DEF Bits
  <2>2. ~(u >= N \/ size = 0) /\ u \in 0 .. N + 1
    BY <1>1
  <2>3. \A h : Sigue(bits, size, u, h) = IF u + size <= N THEN u ELSE -1
    <3>1. \/ \E k \in u + 1 .. N - 1 : k < u + size /\ bits[k]
          \/ ~\E k \in u + 1 .. N - 1 : k < u + size /\ bits[k]
      OBVIOUS
    <3>2. {k \in u + 1 .. u + size - 1 : k < N /\ bits[k]} = {}
      BY <2>1
    <3> QED
      BY <2>1, <2>2, <3>2 DEF Sigue
  <2> QED
    BY <1>3, <2>2, <2>3
<1>5. ASSUME NEW i \in 0 .. u - 1, i + 1 \in T PROVE i \in T
  <2>1. i \in Bits /\ bits[i] /\ ~(i >= N \/ size = 0) /\ i \in 0 .. N + 1
    BY <1>1 DEF Bits
  <2>2. Sigue(bits, size, i, g) = g[i + 1]
    BY <2>1 DEF Sigue
  <2> QED
    BY <1>3, <1>5, <2>1, <2>2
<1> HIDE DEF T
<1>6. T = 0 .. u
  <2>1. T \subseteq 0 .. u
    BY DEF T
  <2> QED
    BY <1>4, <1>5, <2>1, HaciaAtras
<1> QED
  BY <1>2, <1>6 DEF T

\* The compaction, file by file: what is not placed yet has not changed.
LEMMA CompactaPasos ==
    ASSUME bitmap \in [Bits -> BOOLEAN], metadata \in [Archivos -> Entradas],
           NEW orden, Len(orden) \in Nat,
           \A j \in 1 .. Len(orden) : orden[j] \in Archivos,
           \A i, j \in 1 .. Len(orden) : orden[i] = orden[j] => i = j
    PROVE  \E tras :
           /\ tras[0] = CompactaDesde /\ compacta(orden) = tras[Len(orden)]
           /\ \A k \in 0 .. Len(orden) :
                /\ tras[k].bitmap \in [Bits -> BOOLEAN]
                /\ tras[k].metadata \in [Archivos -> Entradas]
                /\ \A g \in Archivos \ Puestos(orden, k) : tras[k].metadata[g] = metadata[g]
           /\ \A k \in 0 .. Len(orden) - 1 :
                /\ k + 1 \in 1 .. Len(orden)
                /\ tras[k + 1] = Sucesor(tras[k], orden[k + 1])
                /\ orden[k + 1] \in Archivos \ Puestos(orden, k)
                /\ Puestos(orden, k + 1) = Puestos(orden, k) \cup {orden[k + 1]}
<1> DEFINE n == Len(orden)
<1>1. PICK tras : Recoloca(orden, tras) /\ compacta(orden) = tras[n]
  BY CompactaDefinida
<1>2. tras[0] = CompactaDesde
  BY <1>1 DEF Recoloca
<1>3. ASSUME NEW k \in 0 .. n - 1
      PROVE  /\ k + 1 \in 1 .. n /\ k + 1 \in 0 .. n
             /\ tras[k + 1] = Sucesor(tras[k], orden[k + 1])
             /\ orden[k + 1] \in Archivos \ Puestos(orden, k)
             /\ Puestos(orden, k + 1) = Puestos(orden, k) \cup {orden[k + 1]}
  <2>1. k + 1 \in 0 .. n /\ k + 1 \in 1 .. n /\ k + 1 # 0 /\ (k + 1) - 1 = k
    OBVIOUS
  <2>2. tras[k + 1] = Sucesor(tras[k], orden[k + 1])
    BY <1>1, <2>1 DEF Recoloca
  <2>3. Puestos(orden, k + 1) = Puestos(orden, k) \cup {orden[k + 1]}
    <3>1. 1 .. k + 1 = (1 .. k) \cup {k + 1}
      OBVIOUS
    <3> QED
      BY <3>1 DEF Puestos
  <2>4. orden[k + 1] \notin Puestos(orden, k)
    <3>1. \A j \in 1 .. k : j \in 1 .. n /\ j # k + 1
      OBVIOUS
    <3> QED
      BY <2>1, <3>1 DEF Puestos
  <2> QED
    BY <2>1, <2>2, <2>3, <2>4
<1> DEFINE Bien(s, k) ==
                /\ s.bitmap \in [Bits -> BOOLEAN] /\ s.metadata \in [Archivos -> Entradas]
                /\ \A g \in Archivos \ Puestos(orden, k) : s.metadata[g] = metadata[g]
           T == {k \in 0 .. n : Bien(tras[k], k)}
<1>4. 0 \in T
  <2>1. /\ CompactaDesde.bitmap = Marca(bitmap, 0, N, FALSE)
        /\ CompactaDesde.metadata = metadata
    BY DEF CompactaDesde
  <2>2. CompactaDesde.bitmap \in [Bits -> BOOLEAN]
    BY <2>1 DEF Marca
  <2>3. Bien(CompactaDesde, 0)
    BY <2>1, <2>2
  <2> HIDE DEF Bien
  <2> QED
    BY <1>2, <2>3
<1>5. ASSUME NEW k \in 0 .. n - 1, k \in T PROVE k + 1 \in T
  <2> DEFINE g == orden[k + 1]
             s == realocate_compactacion(tras[k], g, metadata[g].tam)
  <2>1. g \in Archivos /\ metadata[g].tam \in Int
    BY <1>3 DEF Entradas
  <2>2. tras[k + 1] = s
    BY <1>3 DEF Sucesor
  <2>3. Bien(tras[k], k)
    BY <1>5
  <2>4. /\ s.bitmap \in [Bits -> BOOLEAN] /\ s.metadata \in [Archivos -> Entradas]
        /\ \A h \in Archivos \ {g} : s.metadata[h] = tras[k].metadata[h]
    <3> HIDE DEF g
    <3> QED
      BY <2>1, <2>3, PasoCompacta
  <2> HIDE DEF s
  <2>5. Bien(s, k + 1)
    BY <1>3, <2>3, <2>4
  <2> HIDE DEF g, Bien
  <2> QED
    BY <1>3, <2>2, <2>5
<1>6. T = 0 .. n
  <2> HIDE DEF T
  <2>1. T \subseteq 0 .. n
    BY DEF T
  <2> QED
    BY <1>4, <1>5, <2>1, HaciaAdelante
<1>7. \A k \in 0 .. n : Bien(tras[k], k)
  BY <1>6
<1> QED
  BY <1>1, <1>2, <1>3, <1>7

-----------------------------------------------------------------------------
(* Leaks.                                                                  *)

\* Every marked block is of a file of P.
Propia(bits, md, P) ==
    \A b \in Bits : bits[b] => \E g \in Archivos \cap P : b \in BloquesDe(md[g])

\* An operation on f marks only blocks it gives to f.
LEMMA PropiaCambia ==
    ASSUME NEW bits, NEW md, NEW P, Propia(bits, md, P),
           NEW bits2, NEW md2, NEW f \in Archivos,
           \A g \in Archivos \ {f} : md2[g] = md[g],
           \A b \in Bits : bits2[b] =>
                \/ b \in BloquesDe(md2[f])
                \/ bits[b] /\ (f \in P => b \notin BloquesDe(md[f]))
    PROVE  Propia(bits2, md2, P \cup {f})
<1> SUFFICES ASSUME NEW b \in Bits, bits2[b]
             PROVE  \E g \in Archivos \cap (P \cup {f}) : b \in BloquesDe(md2[g])
  BY DEF Propia
<1>1. CASE b \in BloquesDe(md2[f])
  BY <1>1
<1>2. CASE bits[b] /\ (f \in P => b \notin BloquesDe(md[f]))
  <2>1. PICK g \in Archivos \cap P : b \in BloquesDe(md[g])
    BY <1>2 DEF Propia
  <2>2. g # f
    BY <1>2, <2>1
  <2> QED
    BY <2>1, <2>2
<1> QED
  BY <1>1, <1>2

\* A run of tam blocks is what a file of that size has.
LEMMA TramoPropio ==
    ASSUME NEW init \in Int, NEW tam \in Int, NEW b \in init .. (init + tam) - 1
    PROVE  b \in BloquesDe([init |-> init, tam |-> tam])
<1> DEFINE m == [init |-> init, tam |-> tam]
<1>1. tam > 0 /\ init <= b /\ b <= init + tam - 1
  OBVIOUS
<1>2. m # NoExiste /\ TamActual(m) = tam
  BY <1>1 DEF NoExiste, TamActual
<1> QED
  BY <1>1, <1>2 DEF BloquesDe

\* A step of the compaction marks the blocks it gives to f.
LEMMA PasoMarca ==
    ASSUME NEW acc, NEW f \in Archivos, NEW tam \in Int, NEW P, f \notin P,
           acc.bitmap \in [Bits -> BOOLEAN], acc.metadata \in [Archivos -> Entradas],
           Propia(acc.bitmap, acc.metadata, P)
    PROVE  LET s == realocate_compactacion(acc, f, tam) IN
           Propia(s.bitmap, s.metadata, P \cup {f})
<1> DEFINE nuevo == get_init_block_file(acc.bitmap, tam)
           m2 == [init |-> nuevo, tam |-> tam]
           bits2 == Marca(acc.bitmap, nuevo, nuevo + tam, TRUE)
           md2 == [acc.metadata EXCEPT ![f] = m2]
           s == realocate_compactacion(acc, f, tam)
<1>1. s.bitmap = bits2 /\ s.metadata = md2
  BY DEF realocate_compactacion
<1>2. nuevo \in Int
  BY LugarNuevo
<1> HIDE DEF nuevo
<1>3. \A b \in Bits : bits2[b] <=> (b \in nuevo .. (nuevo + tam) - 1 \/ acc.bitmap[b])
  <2>1. nuevo + tam \in Int
    BY <1>2
  <2> QED
    BY <1>2, <2>1, MarcaDa
<1>4. md2[f] = m2 /\ \A g \in Archivos \ {f} : md2[g] = acc.metadata[g]
  OBVIOUS
<1>5. \A b \in nuevo .. (nuevo + tam) - 1 : b \in BloquesDe(m2)
  BY <1>2, TramoPropio
<1> HIDE DEF m2, bits2, md2
<1>6. \A b \in Bits : bits2[b] =>
                \/ b \in BloquesDe(md2[f])
                \/ acc.bitmap[b] /\ (f \in P => b \notin BloquesDe(acc.metadata[f]))
  BY <1>3, <1>4, <1>5
<1>7. Propia(bits2, md2, P \cup {f})
  BY <1>4, <1>6, PropiaCambia, ZenonT(90)
<1> QED
  BY <1>1, <1>7

\* After the files of orden every marked block is of one of them.
LEMMA CompactaPropia ==
    ASSUME bitmap \in [Bits -> BOOLEAN], metadata \in [Archivos -> Entradas],
           NEW orden, Len(orden) \in Nat,
           \A j \in 1 .. Len(orden) : orden[j] \in Archivos,
           \A i, j \in 1 .. Len(orden) : orden[i] = orden[j] => i = j
    PROVE  LET s == compacta(orden) IN Propia(s.bitmap, s.metadata, Puestos(orden, Len(orden)))
<1> DEFINE n == Len(orden)
<1>1. PICK tras :
           /\ tras[0] = CompactaDesde /\ compacta(orden) = tras[n]
           /\ \A k \in 0 .. n :
                /\ tras[k].bitmap \in [Bits -> BOOLEAN]
                /\ tras[k].metadata \in [Archivos -> Entradas]
                /\ \A g \in Archivos \ Puestos(orden, k) : tras[k].metadata[g] = metadata[g]
           /\ \A k \in 0 .. n - 1 :
                /\ k + 1 \in 1 .. n
                /\ tras[k + 1] = Sucesor(tras[k], orden[k + 1])
                /\ orden[k + 1] \in Archivos \ Puestos(orden, k)
                /\ Puestos(orden, k + 1) = Puestos(orden, k) \cup {orden[k + 1]}
  BY CompactaPasos
<1> DEFINE Bien(s, k) == Propia(s.bitmap, s.metadata, Puestos(orden, k))
           T == {k \in 0 .. n : Bien(tras[k], k)}
<1>2. 0 \in T
  <2>1. CompactaDesde.bitmap = Marca(bitmap, 0, N, FALSE)
    BY DEF CompactaDesde
  <2>2. \A b \in Bits : ~CompactaDesde.bitmap[b]
    BY <2>1, DialAssumption DEF Marca, Bits
  <2>3. Bien(CompactaDesde, 0)
    BY <2>2 DEF Propia
  <2> HIDE DEF Bien
  <2> QED
    BY <1>1, <2>3
<1>3. ASSUME NEW k \in 0 .. n - 1, k \in T PROVE k + 1 \in T
  <2> DEFINE g == orden[k + 1]
             acc == tras[k]
             P == Puestos(orden, k)
             s == realocate_compactacion(acc, g, metadata[g].tam)
  <2>1. /\ g \in Archivos /\ g \notin P /\ tras[k + 1] = s
        /\ Puestos(orden, k + 1) = P \cup {g}
    BY <1>1 DEF Sucesor
  <2>2. metadata[g].tam \in Int
    BY <2>1 DEF Entradas
  <2>3. acc.bitmap \in [Bits -> BOOLEAN] /\ acc.metadata \in [Archivos -> Entradas]
    BY <1>1
  <2>4. Propia(acc.bitmap, acc.metadata, P)
    BY <1>3
  <2> HIDE DEF g, acc, P
  <2>5. Propia(s.bitmap, s.metadata, P \cup {g})
    BY <2>1, <2>2, <2>3, <2>4, PasoMarca
  <2> HIDE DEF s
  <2>6. Bien(tras[k + 1], k + 1)
    BY <2>1, <2>5
  <2>7. k + 1 \in 0 .. n
    OBVIOUS
  <2> HIDE DEF Bien
  <2> QED
    BY <2>6, <2>7
<1> HIDE DEF T
<1>4. T = 0 .. n
  <2>1. T \subseteq 0 .. n
    BY DEF T
  <2> QED
    BY <1>2, <1>3, <2>1, HaciaAdelante
<1>5. Bien(tras[n], n)
  BY <1>4 DEF T
<1> QED
  BY <1>1, <1>5

\* The compaction for f moves the files of orden, in the order of their
\* blocks, and then f.
Otros(f) == {g \in Archivos \ {f} : metadata[g] # NoExiste}
CompactaCon(orden, f, n) ==
    /\ Len(orden) \in Nat /\ Puestos(orden, Len(orden)) = Otros(f)
    /\ \A j \in 1 .. Len(orden) : orden[j] \in Otros(f)
    /\ \A i, j \in 1 .. Len(orden) : orden[i] = orden[j] => i = j
    /\ \A i, j \in 1 .. Len(orden) :
            i < j => sory_by_init_block(metadata, orden[i], orden[j])
    /\ LET resto == compacta(orden)
           fin == realocate_compactacion(resto, f, n) IN
        /\ bitmap' = fin.bitmap /\ metadata' = fin.metadata /\ caido' = fin.falla
        /\ bloques' = fin.bloques
        /\ danado' = danado \cup
             (IF \E b \in Bits : resto.bitmap[b] /\ b >= metadata[f].init THEN {f} ELSE {})

\* A compaction in terms of the sequence of the other files.
LEMMA CompactaOrden ==
    ASSUME TipoDisco, NEW f \in Archivos, NEW n \in Int, TruncaCompacta(f, n)
    PROVE  \E orden : CompactaCon(orden, f, n)
<1> DEFINE otros == {g \in Archivos \ {f} : metadata[g] # NoExiste}
           c == Cardinality(otros)
<1>1. PICK orden \in Bijection(1 .. c, otros) :
        /\ \A j, k \in DOMAIN orden :
                j < k => sory_by_init_block(metadata, orden[j], orden[k])
        /\ LET resto == compacta(orden)
               fin == realocate_compactacion(resto, f, n) IN
           /\ bitmap' = fin.bitmap /\ metadata' = fin.metadata /\ caido' = fin.falla
           /\ bloques' = fin.bloques
           /\ danado' = danado \cup
                 (IF \E b \in Bits : resto.bitmap[b] /\ b >= metadata[f].init
                  THEN {f} ELSE {})
  BY DEF TruncaCompacta
<1>2. c \in Nat
  <2>1. IsFiniteSet(otros)
    BY DialAssumption, FS_Subset
  <2> QED
    BY <2>1, FS_CardinalityType
<1>3. /\ orden \in [1 .. c -> otros]
      /\ \A i, j \in 1 .. c : orden[i] = orden[j] => i = j
      /\ \A g \in otros : \E j \in 1 .. c : orden[j] = g
  BY <1>1 DEF Bijection, Injection, Surjection, IsInjective
<1> HIDE DEF c, otros
<1>4. Len(orden) = c /\ DOMAIN orden = 1 .. c
  BY <1>2, <1>3
<1>5. Puestos(orden, c) = otros
  BY <1>3 DEF Puestos
<1>6. \A j \in 1 .. c : orden[j] \in otros
  BY <1>3
<1>7. otros = Otros(f)
  BY DEF otros, Otros
<1> QED
  BY <1>1, <1>2, <1>3, <1>4, <1>5, <1>6, <1>7 DEF CompactaCon

\* What keeps SinFugas: without a stop or a negative size no file is exposed.
FugasInv ==
    /\ percances \in Nat
    /\ percances = 0 => expuestos = {} /\ Propia(bitmap, metadata, Archivos)

\* An operation that marks only blocks it gives to its file, and exposes it
\* only if it was or if it counts as a mishap.
FugasCambia(f) ==
    /\ percances' = percances \/ percances' = percances + 1
    /\ percances' = percances =>
        /\ f \notin expuestos => expuestos' = expuestos
        /\ \A g \in Archivos \ {f} : metadata'[g] = metadata[g]
        /\ f \notin expuestos => \A b \in Bits : bitmap'[b] =>
                b \in BloquesDe(metadata'[f]) \/ (bitmap[b] /\ b \notin BloquesDe(metadata[f]))

\* Such an operation leaks nothing.
LEMMA FugasSigue ==
    ASSUME FugasInv, NEW f \in Archivos, FugasCambia(f) PROVE FugasInv'
<1>1. percances \in Nat /\ percances' \in Nat /\ (percances' = 0 => percances = 0 /\ percances' = percances)
  BY DEF FugasInv, FugasCambia
<1>2. ASSUME percances' = 0 PROVE expuestos' = {} /\ Propia(bitmap', metadata', Archivos)
  <2>1. expuestos = {} /\ Propia(bitmap, metadata, Archivos)
    BY <1>1, <1>2 DEF FugasInv
  <2>2. /\ expuestos' = expuestos
        /\ \A g \in Archivos \ {f} : metadata'[g] = metadata[g]
        /\ \A b \in Bits : bitmap'[b] =>
                b \in BloquesDe(metadata'[f]) \/ (bitmap[b] /\ b \notin BloquesDe(metadata[f]))
    BY <1>1, <1>2, <2>1 DEF FugasCambia
  <2>3. Archivos \cup {f} = Archivos
    OBVIOUS
  <2>4. Propia(bitmap', metadata', Archivos \cup {f})
    BY <2>1, <2>2, PropiaCambia
  <2> QED
    BY <2>1, <2>2, <2>3, <2>4
<1>3. percances' = 0 => expuestos' = {} /\ Propia(bitmap, metadata, Archivos)'
  BY <1>2 DEF Propia
<1> QED
  BY <1>1, <1>3 DEF FugasInv

\* The operations, one by one.
LEMMA FugasCrea ==
    ASSUME DialInv, FugasInv, NEW f \in Archivos, fs_create_file(f) PROVE FugasInv'
<1> DEFINE b == get_init_block_file(bitmap, 1)
           m2 == [init |-> b, tam |-> 0]
<1>1. /\ Libre /\ metadata[f] = NoExiste /\ b # -1
      /\ metadata' = [metadata EXCEPT ![f] = m2] /\ bitmap' = [bitmap EXCEPT ![b] = TRUE]
      /\ expuestos' = expuestos /\ percances' = percances
  BY DEF fs_create_file, Sano
<1>2. bitmap \in [Bits -> BOOLEAN] /\ metadata \in [Archivos -> Entradas]
  BY <1>1, Memoria
<1>3. b \in Bits /\ b \in Nat
  BY <1>1, HuecoLibre, DialAssumption DEF Bits
<1> HIDE DEF b
<1>4. BloquesDe(m2) = {b} /\ BloquesDe(NoExiste) = {}
  BY <1>3 DEF BloquesDe, TamActual, NoExiste
<1> HIDE DEF m2
<1>5. metadata'[f] = m2 /\ \A g \in Archivos \ {f} : metadata'[g] = metadata[g]
  BY <1>1, <1>2
<1>6. \A c \in Bits : c = b \/ bitmap'[c] = bitmap[c]
  BY <1>1, <1>2
<1>7. FugasCambia(f)
  BY <1>1, <1>4, <1>5, <1>6 DEF FugasCambia
<1> QED
  BY <1>7, FugasSigue

\* A deletion unmarks all the blocks of its file.
LEMMA FugasBorra ==
    ASSUME DialInv, FugasInv, NEW f \in Archivos, fs_delete_file(f) PROVE FugasInv'
<1> DEFINE m == metadata[f]
           fin == m.init + TamActual(m)
<1>1. /\ Libre /\ m # NoExiste
      /\ bitmap' = Marca(bitmap, m.init, fin, FALSE)
      /\ metadata' = [metadata EXCEPT ![f] = NoExiste]
      /\ f \notin expuestos => expuestos' = expuestos
      /\ percances' = percances
  BY DEF fs_delete_file
<1>2. /\ bitmap \in [Bits -> BOOLEAN] /\ metadata \in [Archivos -> Entradas]
      /\ m.init \in Int /\ fin \in Int /\ TamActual(m) \in Int
  BY <1>1, Memoria
<1>3. BloquesDe(m) = m.init .. fin - 1
  BY <1>1, <1>2 DEF BloquesDe
<1> HIDE DEF fin
<1>4. \A c \in Bits : bitmap'[c] => c \notin BloquesDe(m) /\ bitmap[c]
  <2>1. m.init .. fin - 1 = BloquesDe(m)
    BY <1>3
  <2> HIDE DEF m
  <2> QED
    BY <1>1, <1>2, <2>1, MarcaDa
<1>5. \A g \in Archivos \ {f} : metadata'[g] = metadata[g]
  BY <1>1, <1>2
<1>6. FugasCambia(f)
  BY <1>1, <1>4, <1>5 DEF FugasCambia
<1> QED
  BY <1>6, FugasSigue

\* A smaller size unmarks the blocks it gives up.
LEMMA FugasMenos ==
    ASSUME DialInv, FugasInv, NEW f \in Archivos, NEW n \in Int, TruncaMenos(f, n)
    PROVE  FugasInv'
<1> DEFINE m == metadata[f]
           libera == m.init + n .. m.init + TamActual(m) - 1
           m2 == [init |-> IF n = 0 THEN -1 ELSE m.init, tam |-> n]
<1>1. /\ Libre /\ m # NoExiste /\ n < TamActual(m)
      /\ bitmap' = [b \in Bits |-> bitmap[b] /\ b \notin libera]
      /\ metadata' = [metadata EXCEPT ![f] = m2]
      /\ n >= 0 /\ f \notin expuestos => expuestos' = expuestos
      /\ percances' = IF n < 0 THEN percances + 1 ELSE percances
  BY DEF TruncaMenos
<1>2. /\ bitmap \in [Bits -> BOOLEAN] /\ metadata \in [Archivos -> Entradas]
      /\ m.init \in Int /\ m.tam \in Int /\ TamActual(m) \in Int
  BY <1>1, Memoria
<1>3. BloquesDe(m) = m.init .. m.init + TamActual(m) - 1
  BY <1>1 DEF BloquesDe
<1>4. ASSUME n >= 0 PROVE \A b \in BloquesDe(m) : b \in BloquesDe(m2) \/ b \in libera
  <2>1. CASE n = 0
    BY <1>2, <1>3, <2>1
  <2>2. CASE n > 0
    <3>1. BloquesDe(m2) = m.init .. m.init + n - 1
      BY <1>2, <2>2 DEF BloquesDe, TamActual, NoExiste
    <3> QED
      BY <1>2, <1>3, <2>2, <3>1
  <2> QED
    BY <1>4, <2>1, <2>2
<1> HIDE DEF libera, m2
<1>5. \A b \in Bits : bitmap'[b] => bitmap[b] /\ b \notin libera
  BY <1>1, Zenon
<1>6. metadata'[f] = m2 /\ \A g \in Archivos \ {f} : metadata'[g] = metadata[g]
  BY <1>1, <1>2
<1>7. percances \in Nat
  BY DEF FugasInv
<1>8. CASE n < 0
  BY <1>1, <1>7, <1>8, FugasSigue DEF FugasCambia
<1>9. CASE n >= 0
  <2>1. percances' = percances /\ (f \notin expuestos => expuestos' = expuestos)
    BY <1>1, <1>9
  <2>2. FugasCambia(f)
    BY <1>4, <1>5, <1>6, <1>9, <2>1 DEF FugasCambia
  <2> QED
    BY <2>2, FugasSigue
<1> QED
  BY <1>8, <1>9

\* The same size marks nothing.
LEMMA FugasIgual ==
    ASSUME DialInv, FugasInv, NEW f \in Archivos, NEW n \in Int, TruncaIgual(f, n)
    PROVE  FugasInv'
<1> DEFINE m == metadata[f]
           m2 == [m EXCEPT !.tam = n]
<1>1. /\ Libre /\ m # NoExiste /\ n = TamActual(m) /\ bitmap' = bitmap
      /\ metadata' = [metadata EXCEPT ![f] = m2] /\ expuestos' = expuestos
      /\ percances' = percances
  BY DEF TruncaIgual, Sano
<1>2. metadata \in [Archivos -> Entradas] /\ m \in Entradas
  BY <1>1, Memoria
<1>3. BloquesDe(m2) = BloquesDe(m)
  BY <1>1, <1>2 DEF Entradas, BloquesDe, TamActual, NoExiste
<1> HIDE DEF m2
<1>4. metadata'[f] = m2 /\ \A g \in Archivos \ {f} : metadata'[g] = metadata[g]
  BY <1>1, <1>2
<1>5. FugasCambia(f)
  BY <1>1, <1>3, <1>4 DEF FugasCambia
<1> QED
  BY <1>5, FugasSigue

\* A file that grows in place marks the blocks it takes.
LEMMA FugasContiguo ==
    ASSUME DialInv, FugasInv, NEW f \in Archivos, NEW n \in Int, TruncaContiguo(f, n)
    PROVE  FugasInv'
<1> DEFINE m == metadata[f]
           desde == m.init + TamActual(m)
           hasta == m.init + n
           m2 == [m EXCEPT !.tam = n]
<1>1. /\ Libre /\ m # NoExiste /\ n > TamActual(m)
      /\ bitmap' = Marca(bitmap, desde, hasta, TRUE)
      /\ metadata' = [metadata EXCEPT ![f] = m2] /\ expuestos' = expuestos
      /\ percances' = percances
  BY DEF TruncaContiguo, Sano
<1>2. /\ bitmap \in [Bits -> BOOLEAN] /\ metadata \in [Archivos -> Entradas] /\ m \in Entradas
      /\ m.init \in Int /\ m.tam \in Int /\ TamActual(m) \in Int
      /\ desde \in Int /\ hasta \in Int
  BY <1>1, Memoria
<1> HIDE DEF m2
<1>3. \A c \in Bits : bitmap'[c] <=> (c \in desde .. hasta - 1 \/ bitmap[c])
  <2> HIDE DEF desde, hasta
  <2> QED
    BY <1>1, <1>2, MarcaDa
<1>4. ASSUME f \notin expuestos
      PROVE  \A c \in Int : c \in BloquesDe(m) \/ c \in desde .. hasta - 1 => c \in BloquesDe(m2)
  <2>1. m.tam >= 0
    BY <1>1, <1>4, Memoria DEF Sana
  <2>2. n > 0 /\ TamActual(m) >= 0
    BY <1>1, <1>2, <2>1 DEF TamActual
  <2>3. m2 # NoExiste /\ TamActual(m2) = n /\ m2.init = m.init
    BY <1>2, <2>2 DEF m2, NoExiste, TamActual, Entradas
  <2>4. /\ BloquesDe(m2) = m.init .. m.init + n - 1
        /\ BloquesDe(m) = m.init .. m.init + TamActual(m) - 1
    BY <1>1, <2>3 DEF BloquesDe
  <2> QED
    BY <1>1, <1>2, <2>2, <2>4, SMTT(60)
<1>5. metadata'[f] = m2 /\ \A g \in Archivos \ {f} : metadata'[g] = metadata[g]
  BY <1>1, <1>2
<1>6. \A c \in Bits : c \in Int
  BY DialAssumption DEF Bits
<1>7. FugasCambia(f)
  BY <1>1, <1>3, <1>4, <1>5, <1>6 DEF FugasCambia
<1> QED
  BY <1>7, FugasSigue

\* A relocation unmarks the run it leaves and marks the one it takes.
LEMMA FugasReubica ==
    ASSUME DialInv, FugasInv, NEW f \in Archivos, NEW n \in Int, TruncaReubica(f, n)
    PROVE  FugasInv'
<1> DEFINE m == metadata[f]
           fin == m.init + TamActual(m)
           nuevo == get_init_block_file(bitmap, n)
           m2 == [init |-> nuevo, tam |-> n]
           limpio == Marca(bitmap, m.init, fin, FALSE)
<1>1. /\ Libre /\ m # NoExiste
      /\ f \notin expuestos => expuestos' = expuestos
      /\ bitmap' = Marca(limpio, nuevo, nuevo + n, TRUE)
      /\ metadata' = [metadata EXCEPT ![f] = m2] /\ percances' = percances
  BY DEF TruncaReubica
<1>2. /\ bitmap \in [Bits -> BOOLEAN] /\ metadata \in [Archivos -> Entradas]
      /\ m.init \in Int /\ m.tam \in Int /\ TamActual(m) \in Int /\ fin \in Int
  BY <1>1, Memoria
<1>3. nuevo \in Int
  BY LugarNuevo
<1> HIDE DEF nuevo
<1>4. nuevo + n \in Int
  BY <1>3
<1>5. BloquesDe(m) = m.init .. fin - 1
  BY <1>1, <1>2 DEF BloquesDe
<1> HIDE DEF fin
<1>6. /\ limpio \in [Bits -> BOOLEAN]
      /\ \A b \in Bits : limpio[b] <=> (b \notin BloquesDe(m) /\ bitmap[b])
  <2>1. m.init .. fin - 1 = BloquesDe(m)
    BY <1>5
  <2> HIDE DEF m
  <2> QED
    BY <1>2, <2>1, MarcaDa
<1> HIDE DEF limpio
<1>7. \A b \in Bits : bitmap'[b] <=> (b \in nuevo .. (nuevo + n) - 1 \/ limpio[b])
  BY <1>1, <1>3, <1>4, <1>6, MarcaDa
<1>8. \A b \in nuevo .. (nuevo + n) - 1 : b \in BloquesDe(m2)
  BY <1>3, TramoPropio
<1> HIDE DEF m2
<1>9. metadata'[f] = m2 /\ \A g \in Archivos \ {f} : metadata'[g] = metadata[g]
  BY <1>1, <1>2
<1>10. FugasCambia(f)
  BY <1>1, <1>6, <1>7, <1>8, <1>9 DEF FugasCambia
<1> QED
  BY <1>10, FugasSigue

\* A compaction marks the runs it gives, on an empty bitmap.
LEMMA FugasCompacta ==
    ASSUME DialInv, FugasInv, NEW f \in Archivos, NEW n \in Int, TruncaCompacta(f, n)
    PROVE  FugasInv'
<1> DEFINE otros == {g \in Archivos \ {f} : metadata[g] # NoExiste}
<1>0. PICK orden : CompactaCon(orden, f, n)
  BY CompactaOrden DEF DialInv
<1>1. /\ Len(orden) \in Nat /\ Puestos(orden, Len(orden)) = otros
      /\ \A j \in 1 .. Len(orden) : orden[j] \in otros
      /\ \A i, j \in 1 .. Len(orden) : orden[i] = orden[j] => i = j
      /\ LET fin == realocate_compactacion(compacta(orden), f, n) IN
         bitmap' = fin.bitmap /\ metadata' = fin.metadata /\ caido' = fin.falla
  BY <1>0 DEF CompactaCon, Otros
<1>2. otros \subseteq Archivos /\ f \notin otros
  OBVIOUS
<1> HIDE DEF otros
<1> DEFINE resto == compacta(orden)
           fin == realocate_compactacion(resto, f, n)
<1>3. bitmap \in [Bits -> BOOLEAN] /\ metadata \in [Archivos -> Entradas]
  BY DEF DialInv, TipoDisco
<1>4. \A j \in 1 .. Len(orden) : orden[j] \in Archivos
  BY <1>1, <1>2
<1>5. /\ Propia(resto.bitmap, resto.metadata, otros)
      /\ resto.bitmap \in [Bits -> BOOLEAN] /\ resto.metadata \in [Archivos -> Entradas]
  BY <1>1, <1>3, <1>4, CompactaPropia, CompactaPone
<1> HIDE DEF resto
<1>6. Propia(fin.bitmap, fin.metadata, otros \cup {f})
  BY <1>2, <1>5, PasoMarca
<1>7. bitmap' = fin.bitmap /\ metadata' = fin.metadata
  BY <1>1 DEF resto
<1> HIDE DEF fin
<1>8. Propia(bitmap, metadata, Archivos)'
  BY <1>2, <1>6, <1>7 DEF Propia
<1>9. percances' = percances /\ expuestos' = {}
  BY DEF TruncaCompacta
<1> QED
  BY <1>8, <1>9 DEF FugasInv

\* Every step keeps the invariant.
LEMMA FugasPaso == ASSUME DialInv, FugasInv, [Next]_vars PROVE FugasInv'
<1>1. ASSUME UNCHANGED <<bitmap, metadata, percances, expuestos>> PROVE FugasInv'
  BY <1>1 DEF FugasInv, Propia
<1>2. CASE UNCHANGED vars
  BY <1>1, <1>2 DEF vars, memoria, ghosts
<1>3. CASE Guarda
  BY <1>1, <1>3 DEF Guarda, memoria
<1>4. CASE CortaYReinicia
  <2>1. percances \in Nat /\ percances' = percances + 1
    BY <1>4 DEF FugasInv, CortaYReinicia
  <2> QED
    BY <2>1 DEF FugasInv
<1>5. ASSUME NEW f \in Archivos, NEW ptr, fs_write_file(f, ptr) \/ EscribeFuera(f, ptr)
      PROVE  FugasInv'
  BY <1>1, <1>5 DEF fs_write_file, EscribeFuera, Sano, memoria, ghosts
<1>6. Tamanios \subseteq Int
  BY DialAssumption
<1> QED
  BY <1>2, <1>3, <1>4, <1>5, <1>6, FugasCrea, FugasBorra, FugasMenos, FugasIgual, FugasContiguo,
     FugasReubica, FugasCompacta DEF Next

\* The invariant holds in every behaviour.
LEMMA FugasSiempre == Spec => []FugasInv
<1>1. Init => FugasInv
  <2> SUFFICES ASSUME Init PROVE FugasInv
    OBVIOUS
  <2>1. Propia(bitmap, metadata, Archivos)
    BY DEF Init, Propia
  <2> QED
    BY <2>1 DEF Init, FugasInv
<1>2. DialInv /\ FugasInv /\ [Next]_vars => FugasInv'
  BY FugasPaso
<1> QED
  BY <1>1, <1>2, DialSiempre, PTL DEF Spec

\* As long as the process has not stopped and no negative size was asked,
\* every bit that is set in the bitmap is of a block of some file: no
\* creation, deletion, truncation, relocation or compaction leaks blocks.
THEOREM NuncaHayFugas == Spec => []SinFugas
<1>1. FugasInv => SinFugas
  BY DEF FugasInv, Propia, SinFugas
<1> QED
  BY <1>1, FugasSiempre, PTL

-----------------------------------------------------------------------------
(* Room.                                                                   *)

\* The blocks in use are the first u.
Prefijo(bits, u) == \A b \in Bits : bits[b] <=> b < u

\* On such a bitmap a step of the compaction places f right after them.
LEMMA PasoPrefijo ==
    ASSUME NEW acc, NEW f \in Archivos, NEW tam \in Nat, NEW u \in Nat, u + tam <= N,
           acc.bitmap \in [Bits -> BOOLEAN], Prefijo(acc.bitmap, u),
           ~acc.falla, acc.metadata[f].tam >= 0, acc.metadata[f].tam \in Int
    PROVE  LET s == realocate_compactacion(acc, f, tam) IN
           ~s.falla /\ Prefijo(s.bitmap, u + tam)
<1> DEFINE nuevo == get_init_block_file(acc.bitmap, tam)
           bits2 == Marca(acc.bitmap, nuevo, nuevo + tam, TRUE)
           s == realocate_compactacion(acc, f, tam)
<1>1. /\ s.bitmap = bits2
      /\ s.falla <=> (acc.falla \/ (nuevo = -1 /\ tam > 0) \/ acc.metadata[f].tam < 0)
  BY DEF realocate_compactacion
<1>2. IF tam = 0 THEN nuevo = -1 ELSE nuevo = u
  <2>1. CASE tam = 0
    BY <2>1, HuecoLibre
  <2>2. CASE tam # 0
    BY <2>2, BuscaPrefijo DEF Prefijo
  <2> QED
    BY <2>1, <2>2
<1> HIDE DEF nuevo
<1>3. nuevo \in Int
  BY <1>2
<1>4. \A b \in Bits : bits2[b] <=> (b \in nuevo .. (nuevo + tam) - 1 \/ acc.bitmap[b])
  <2>1. nuevo + tam \in Int
    BY <1>3
  <2> QED
    BY <1>3, <2>1, MarcaDa
<1> HIDE DEF bits2
<1>5. ASSUME NEW b \in Bits PROVE bits2[b] <=> b < u + tam
  <2>1. b \in Nat
    BY DialAssumption DEF Bits
  <2>2. b \in nuevo .. (nuevo + tam) - 1 \/ b < u <=> b < u + tam
    <3>1. CASE tam = 0
      BY <1>2, <2>1, <3>1
    <3>2. CASE tam # 0
      BY <1>2, <2>1, <3>2
    <3> QED
      BY <3>1, <3>2
  <2> QED
    BY <1>4, <2>2 DEF Prefijo
<1>6. ~s.falla
  BY <1>1, <1>2
<1> HIDE DEF s
<1> QED
  BY <1>1, <1>5, <1>6 DEF Prefijo, s

\* The blocks that the first k files of orden had.
Viejos(orden, k) == UNION {BloquesDe(metadata[g]) : g \in Puestos(orden, k)}

\* A file has TamActual blocks.
LEMMA CuantosBloques ==
    ASSUME NEW m \in Entradas, m # NoExiste, m.tam >= 0
    PROVE  /\ IsFiniteSet(BloquesDe(m)) /\ Cardinality(BloquesDe(m)) = TamActual(m)
           /\ TamActual(m) \in Nat /\ m.tam <= TamActual(m)
<1>1. m.init \in Int /\ m.tam \in Int
  BY DEF Entradas
<1>2. TamActual(m) \in Nat /\ m.tam <= TamActual(m)
  BY <1>1 DEF TamActual
<1> DEFINE fin == m.init + TamActual(m) - 1
<1>3. BloquesDe(m) = m.init .. fin /\ fin \in Int
  BY <1>1, <1>2 DEF BloquesDe
<1>4. IF m.init > fin THEN TamActual(m) = 0 ELSE fin - m.init + 1 = TamActual(m)
  BY <1>1, <1>2
<1> HIDE DEF fin
<1>5. IsFiniteSet(m.init .. fin) /\
      Cardinality(m.init .. fin) = IF m.init > fin THEN 0 ELSE fin - m.init + 1
  BY <1>1, <1>3, FS_Interval
<1> QED
  BY <1>2, <1>3, <1>4, <1>5

\* The disk has N of them.
LEMMA BitsFinitos == IsFiniteSet(Bits) /\ Cardinality(Bits) = N
<1>1. 0 \in Int /\ N - 1 \in Int /\ N \in Nat /\ N > 0
  BY DialAssumption
<1>2. IsFiniteSet(0 .. N - 1) /\ Cardinality(0 .. N - 1) = IF 0 > N - 1 THEN 0 ELSE (N - 1) - 0 + 1
  BY <1>1, FS_Interval
<1> QED
  BY <1>1, <1>2 DEF Bits

\* If the files of P end in no more blocks than they had, so do they with g.
LEMMA CabeOtro ==
    ASSUME metadata \in [Archivos -> Entradas], Sana(bitmap, metadata, {}),
           NEW orden, NEW k, NEW g \in Archivos \ Puestos(orden, k),
           Puestos(orden, k) \subseteq Archivos, metadata[g] # NoExiste,
           NEW u \in Nat, u <= Cardinality(Viejos(orden, k))
    PROVE  /\ metadata[g].tam \in Nat
           /\ u + metadata[g].tam <= Cardinality(Viejos(orden, k) \cup BloquesDe(metadata[g]))
           /\ u + metadata[g].tam <= N
<1> DEFINE m == metadata[g]
           V == Viejos(orden, k)
           B == BloquesDe(m)
<1>1. m \in Entradas /\ m.tam \in Nat
  <2>1. m \in Entradas
    OBVIOUS
  <2>2. m.tam >= 0
    BY DEF Sana
  <2> QED
    BY <2>1, <2>2 DEF Entradas
<1>2. V \cap B = {} /\ V \subseteq Bits /\ B \subseteq Bits
  <2>1. \A h \in Puestos(orden, k) : BloquesDe(metadata[h]) \cap B = {}
                                      /\ BloquesDe(metadata[h]) \subseteq Bits
    BY DEF Sana
  <2>2. B \subseteq Bits
    BY DEF Sana
  <2> QED
    BY <2>1, <2>2 DEF Viejos
<1>3. m # NoExiste
  OBVIOUS
<1> HIDE DEF V, B, m
<1>4. IsFiniteSet(B) /\ Cardinality(B) \in Nat /\ m.tam <= Cardinality(B)
  BY <1>1, <1>3, CuantosBloques DEF B
<1>5. IsFiniteSet(V) /\ IsFiniteSet(V \cup B) /\ Cardinality(V \cup B) <= N
  <2>1. V \in SUBSET Bits /\ V \cup B \in SUBSET Bits
    BY <1>2
  <2> QED
    BY <2>1, BitsFinitos, FS_Subset
<1>6. Cardinality(V) \in Nat /\ Cardinality(V \cup B) = Cardinality(V) + Cardinality(B)
  <2>1. Cardinality(V \cup B) = Cardinality(V) + Cardinality(B) - Cardinality(V \cap B)
    BY <1>4, <1>5, FS_Union
  <2>2. Cardinality(V) \in Nat
    BY <1>5, FS_CardinalityType
  <2>3. Cardinality(V \cap B) = 0
    BY <1>2, FS_EmptySet
  <2> QED
    BY <1>4, <2>1, <2>2, <2>3
<1>7. u <= Cardinality(V)
  BY DEF V
<1>8. u + m.tam <= Cardinality(V \cup B) /\ u + m.tam <= N
  BY <1>1, <1>4, <1>5, <1>6, <1>7, DialAssumption
<1> QED
  BY <1>1, <1>8 DEF m, V, B

\* The files of orden, whose blocks were apart, end in the first blocks of
\* the disk: no more than they had, so there is room for each.
LEMMA CompactaLlena ==
    ASSUME bitmap \in [Bits -> BOOLEAN], metadata \in [Archivos -> Entradas],
           Sana(bitmap, metadata, {}),
           NEW orden, Len(orden) \in Nat,
           \A j \in 1 .. Len(orden) : orden[j] \in Archivos /\ metadata[orden[j]] # NoExiste,
           \A i, j \in 1 .. Len(orden) : orden[i] = orden[j] => i = j
    PROVE  LET s == compacta(orden) IN
           /\ ~s.falla
           /\ \E u \in Nat : u <= Cardinality(Viejos(orden, Len(orden))) /\ Prefijo(s.bitmap, u)
<1> DEFINE n == Len(orden)
<1>1. PICK tras :
           /\ tras[0] = CompactaDesde /\ compacta(orden) = tras[n]
           /\ \A k \in 0 .. n :
                /\ tras[k].bitmap \in [Bits -> BOOLEAN]
                /\ tras[k].metadata \in [Archivos -> Entradas]
                /\ \A g \in Archivos \ Puestos(orden, k) : tras[k].metadata[g] = metadata[g]
           /\ \A k \in 0 .. n - 1 :
                /\ k + 1 \in 1 .. n
                /\ tras[k + 1] = Sucesor(tras[k], orden[k + 1])
                /\ orden[k + 1] \in Archivos \ Puestos(orden, k)
                /\ Puestos(orden, k + 1) = Puestos(orden, k) \cup {orden[k + 1]}
  BY CompactaPasos
<1> DEFINE Bien(s, k) ==
                /\ ~s.falla
                /\ \E u \in Nat : u <= Cardinality(Viejos(orden, k)) /\ Prefijo(s.bitmap, u)
           T == {k \in 0 .. n : Bien(tras[k], k)}
<1>2. 0 \in T
  <2>1. CompactaDesde.bitmap = Marca(bitmap, 0, N, FALSE) /\ ~CompactaDesde.falla
    BY DEF CompactaDesde
  <2>2. Prefijo(CompactaDesde.bitmap, 0)
    BY <2>1, DialAssumption DEF Marca, Bits, Prefijo
  <2>3. Viejos(orden, 0) = {}
    BY DEF Viejos, Puestos
  <2>4. Cardinality(Viejos(orden, 0)) = 0
    BY <2>3, FS_EmptySet
  <2>5. 0 \in Nat /\ 0 <= Cardinality(Viejos(orden, 0))
    BY <2>4
  <2>6. Bien(CompactaDesde, 0)
    BY <2>1, <2>2, <2>5
  <2> HIDE DEF Bien
  <2> QED
    BY <1>1, <2>6
<1>3. ASSUME NEW k \in 0 .. n - 1, k \in T PROVE k + 1 \in T
  <2> DEFINE g == orden[k + 1]
             acc == tras[k]
             m == metadata[g]
             s == realocate_compactacion(acc, g, m.tam)
             V == Viejos(orden, k)
             B == BloquesDe(m)
  <2>1. /\ g \in Archivos /\ g \notin Puestos(orden, k) /\ tras[k + 1] = s
        /\ Puestos(orden, k + 1) = Puestos(orden, k) \cup {g}
        /\ k + 1 \in 0 .. n /\ m # NoExiste
    BY <1>1 DEF Sucesor
  <2>2. /\ acc.bitmap \in [Bits -> BOOLEAN] /\ acc.metadata \in [Archivos -> Entradas]
        /\ acc.metadata[g] = m
    BY <1>1, <2>1
  <2>3. m \in Entradas /\ m.tam \in Nat
    <3>1. m \in Entradas
      BY <2>1
    <3>2. m.tam >= 0
      BY <2>1 DEF Sana
    <3> QED
      BY <3>1, <3>2 DEF Entradas
  <2>4. ~acc.falla
    BY <1>3
  <2>5. PICK u \in Nat : u <= Cardinality(V) /\ Prefijo(acc.bitmap, u)
    BY <1>3
  <2>6. V \cup B = Viejos(orden, k + 1)
    BY <2>1 DEF Viejos
  <2>7. Puestos(orden, k) \subseteq Archivos
    <3>1. \A j \in 1 .. k : j \in 1 .. n
      OBVIOUS
    <3> QED
      BY <3>1 DEF Puestos
  <2>8. u + m.tam <= Cardinality(V \cup B) /\ u + m.tam <= N /\ u + m.tam \in Nat
    <3>1. g \in Archivos \ Puestos(orden, k) /\ metadata[g] # NoExiste
      BY <2>1
    <3>2. u \in Nat /\ u <= Cardinality(Viejos(orden, k))
      BY <2>5
    <3> HIDE DEF g
    <3>3. /\ u + metadata[g].tam <= Cardinality(Viejos(orden, k) \cup BloquesDe(metadata[g]))
          /\ u + metadata[g].tam <= N
      BY <2>7, <3>1, <3>2, CabeOtro
    <3>4. u + m.tam \in Nat
      BY <2>3, SMTT(60)
    <3> QED
      BY <3>3, <3>4
  <2> HIDE DEF V, B, acc, m, g
  <2>9. ~s.falla /\ Prefijo(s.bitmap, u + m.tam)
    <3>1. acc.metadata[g].tam >= 0 /\ acc.metadata[g].tam \in Int
      BY <2>2, <2>3
    <3> QED
      BY <2>1, <2>2, <2>3, <2>4, <2>5, <2>8, <3>1, PasoPrefijo
  <2> HIDE DEF s
  <2>10. Bien(s, k + 1)
    BY <2>6, <2>8, <2>9
  <2> HIDE DEF Bien
  <2> QED
    BY <2>1, <2>10
<1> HIDE DEF T
<1>4. T = 0 .. n
  <2>1. T \subseteq 0 .. n
    BY DEF T
  <2> QED
    BY <1>2, <1>3, <2>1, HaciaAdelante
<1>5. Bien(tras[n], n)
  BY <1>4 DEF T
<1> QED
  BY <1>1, <1>5

\* f fits after them: check_space_total counted the free blocks.
LEMMA CompactaSinFalla ==
    ASSUME DialInv, ~caido, expuestos = {},
           NEW f \in Archivos, NEW n \in Int, TruncaCompacta(f, n)
    PROVE  ~caido'
<1> DEFINE otros == {g \in Archivos \ {f} : metadata[g] # NoExiste}
           libres == {b \in Bits : ~bitmap[b]}
<1>0. PICK orden : CompactaCon(orden, f, n)
  BY CompactaOrden DEF DialInv
<1>1. /\ Len(orden) \in Nat /\ Puestos(orden, Len(orden)) = otros
      /\ \A j \in 1 .. Len(orden) : orden[j] \in otros
      /\ \A i, j \in 1 .. Len(orden) : orden[i] = orden[j] => i = j
      /\ LET fin == realocate_compactacion(compacta(orden), f, n) IN
         bitmap' = fin.bitmap /\ metadata' = fin.metadata /\ caido' = fin.falla
  BY <1>0 DEF CompactaCon, Otros
<1>2. /\ bitmap \in [Bits -> BOOLEAN] /\ metadata \in [Archivos -> Entradas]
      /\ Sana(bitmap, metadata, {})
  BY DEF DialInv, TipoDisco, Sanos
<1>3. \A j \in 1 .. Len(orden) : orden[j] \in Archivos /\ metadata[orden[j]] # NoExiste
  BY <1>1
<1>4. f \notin otros /\ otros \subseteq Archivos
  OBVIOUS
<1> HIDE DEF otros
<1> DEFINE resto == compacta(orden)
           V == Viejos(orden, Len(orden))
<1>5. /\ resto.bitmap \in [Bits -> BOOLEAN] /\ resto.metadata[f] = metadata[f]
  <2>1. \A j \in 1 .. Len(orden) : orden[j] \in Archivos
    BY <1>3
  <2> QED
    BY <1>1, <1>2, <1>4, <2>1, CompactaPone
<1>6. ~resto.falla /\ \E u \in Nat : u <= Cardinality(V) /\ Prefijo(resto.bitmap, u)
  BY <1>1, <1>2, <1>3, CompactaLlena
<1> HIDE DEF resto
<1>7. PICK u \in Nat : u <= Cardinality(V) /\ Prefijo(resto.bitmap, u)
  BY <1>6
<1>8. Cardinality(libres) >= n /\ n > TamActual(metadata[f]) /\ metadata[f] # NoExiste
  BY DEF TruncaCompacta, check_space_total
<1>9. metadata[f].tam \in Nat /\ n \in Nat
  <2>1. metadata[f] \in Entradas /\ metadata[f].tam >= 0
    BY <1>2, <1>8 DEF Sana
  <2>2. TamActual(metadata[f]) \in Nat /\ metadata[f].tam \in Int
    BY <1>8, <2>1, CuantosBloques DEF Entradas
  <2> QED
    BY <1>8, <2>1, <2>2
<1>10. V \subseteq Bits /\ V \cap libres = {}
  <2>1. \A g \in otros : \A b \in BloquesDe(metadata[g]) : b \in Bits /\ bitmap[b]
    BY <1>2, <1>4 DEF Sana
  <2> QED
    BY <1>1, <2>1 DEF Viejos
<1> HIDE DEF V
<1>11. u + n <= N
  <2>1. libres \subseteq Bits
    OBVIOUS
  <2> HIDE DEF libres
  <2>2. /\ IsFiniteSet(V) /\ IsFiniteSet(libres) /\ Cardinality(V \cup libres) <= N
    <3>1. V \in SUBSET Bits /\ libres \in SUBSET Bits /\ V \cup libres \in SUBSET Bits
      BY <1>10, <2>1
    <3> QED
      BY <3>1, BitsFinitos, FS_Subset
  <2>3. Cardinality(V \cup libres) = Cardinality(V) + Cardinality(libres) - Cardinality(V \cap libres)
    BY <2>2, FS_Union
  <2>4. Cardinality(V) \in Nat /\ Cardinality(libres) \in Nat /\ Cardinality(V \cap libres) = 0
    BY <1>10, <2>2, FS_CardinalityType, FS_EmptySet
  <2> QED
    BY <1>7, <1>8, <1>9, <2>2, <2>3, <2>4, DialAssumption
<1>12. ~realocate_compactacion(resto, f, n).falla
  <2>1. resto.metadata[f].tam >= 0 /\ resto.metadata[f].tam \in Int
    BY <1>5, <1>9
  <2> QED
    BY <1>5, <1>6, <1>7, <1>9, <1>11, <2>1, PasoPrefijo
<1>13. caido' = realocate_compactacion(resto, f, n).falla
  BY <1>1 DEF resto
<1> QED
  BY <1>12, <1>13

\* What keeps CompactacionCabe.
CabeInv ==
    /\ seguro => expuestos = {}
    /\ pendientes = <<>> => operacion.nombre # "compactar"
    /\ CompactacionCabe

\* Every step keeps it.
LEMMA CabePaso == ASSUME DialInv, CabeInv, [Next]_vars PROVE CabeInv'
<1>1. CASE UNCHANGED vars
  BY <1>1 DEF vars, memoria, ghosts, CabeInv, CompactacionCabe
<1>2. CASE Guarda
  <2>1. /\ pendientes # <<>> /\ pendientes' = Tail(pendientes) /\ expuestos' = expuestos
        /\ seguro' = seguro /\ caido' = caido /\ ~caido
        /\ IF Len(pendientes) = 1 THEN operacion' = Reposo ELSE operacion' = operacion
    BY <1>2 DEF Guarda
  <2>2. pendientes' = <<>> => Len(pendientes) = 1
    <3>1. pendientes \in Seq(Archivos \cup {"bitmap", "bloques"})
      BY DEF DialInv, TipoDisco
    <3>2. Len(pendientes) \in Nat /\ Len(Tail(pendientes)) = Len(pendientes) - 1 /\ Len(<<>>) = 0
      BY <2>1, <3>1
    <3> QED
      BY <2>1, <3>2
  <2>3. Len(pendientes) = 1 => operacion'.nombre = ""
    <3>1. Reposo.nombre = ""
      BY DEF Reposo
    <3>2. Len(pendientes) = 1 => operacion' = Reposo
      BY <2>1
    <3> QED
      BY <3>1, <3>2
  <2> QED
    BY <2>1, <2>2, <2>3 DEF CabeInv, CompactacionCabe
<1>3. CASE CortaYReinicia
  <2>1. (seguro' => expuestos' = {}) /\ operacion' = Reposo
    BY <1>3, Zenon DEF CortaYReinicia
  <2> QED
    BY <2>1 DEF CabeInv, CompactacionCabe, Reposo
<1>4. ASSUME NEW f \in Archivos, NEW nombre, NEW byte, NEW saves, Empieza(nombre, f, byte, saves),
             nombre # "compactar", seguro' => seguro /\ expuestos' = expuestos
      PROVE  CabeInv'
  BY <1>4 DEF Empieza, CabeInv, CompactacionCabe
<1>5. ASSUME NEW f \in Archivos, fs_create_file(f) PROVE CabeInv'
  BY <1>4, <1>5 DEF fs_create_file, Sano
<1>6. ASSUME NEW f \in Archivos, fs_delete_file(f) PROVE CabeInv'
  <2>1. Empieza("borrar", f, 0, <<f, "bitmap">>) /\ seguro' = seguro
        /\ (f \notin expuestos => expuestos' = expuestos)
    BY <1>6 DEF fs_delete_file
  <2>2. seguro' => seguro /\ expuestos' = expuestos
    BY <2>1 DEF CabeInv
  <2> QED
    BY <1>4, <2>1, <2>2
<1>7. ASSUME NEW f \in Archivos, NEW ptr, fs_write_file(f, ptr) PROVE CabeInv'
  BY <1>4, <1>7 DEF fs_write_file, Sano
<1>8. ASSUME NEW f \in Archivos, NEW ptr, EscribeFuera(f, ptr) PROVE CabeInv'
  BY <1>8 DEF EscribeFuera, Libre, ghosts, CabeInv, CompactacionCabe
<1>9. ASSUME NEW f \in Archivos, NEW n \in Int, TruncaIgual(f, n) PROVE CabeInv'
  BY <1>4, <1>9 DEF TruncaIgual, Sano
<1>10. ASSUME NEW f \in Archivos, NEW n \in Int, TruncaMenos(f, n) PROVE CabeInv'
  <2>1. seguro' => seguro /\ n >= 0
    BY <1>10, Zenon DEF TruncaMenos
  <2>2. /\ Empieza("truncar", f, 0, <<f, "bitmap">>)
        /\ n >= 0 /\ f \notin expuestos => expuestos' = expuestos
    BY <1>10 DEF TruncaMenos
  <2>3. seguro' => seguro /\ expuestos' = expuestos
    BY <2>1, <2>2 DEF CabeInv
  <2> QED
    BY <1>4, <2>2, <2>3
<1>11. ASSUME NEW f \in Archivos, NEW n \in Int, TruncaContiguo(f, n) PROVE CabeInv'
  BY <1>4, <1>11 DEF TruncaContiguo, Sano
<1>12. ASSUME NEW f \in Archivos, NEW n \in Int, TruncaReubica(f, n) PROVE CabeInv'
  <2>1. Empieza("reubicar", f, 0, <<"bloques", "bitmap", f>>) /\ seguro' = seguro
        /\ (f \notin expuestos => expuestos' = expuestos)
    BY <1>12 DEF TruncaReubica
  <2>2. seguro' => seguro /\ expuestos' = expuestos
    BY <2>1 DEF CabeInv
  <2> QED
    BY <1>4, <2>1, <2>2
<1>13. ASSUME NEW f \in Archivos, NEW n \in Int, TruncaCompacta(f, n) PROVE CabeInv'
  <2>1. ~caido /\ expuestos' = {} /\ seguro' = seguro
    BY <1>13 DEF TruncaCompacta, Libre
  <2>2. pendientes' # <<>>
    <3>1. PICK orden : Len(orden) \in Nat /\ pendientes' = orden \o <<f, "bitmap", "bloques">>
      <4> DEFINE otros == {g \in Archivos \ {f} : metadata[g] # NoExiste}
                 c == Cardinality(otros)
      <4>1. PICK orden \in Bijection(1 .. c, otros) :
                pendientes' = orden \o <<f, "bitmap", "bloques">>
        BY <1>13 DEF TruncaCompacta
      <4>2. c \in Nat
        <5>1. IsFiniteSet(otros)
          BY DialAssumption, FS_Subset
        <5> QED
          BY <5>1, FS_CardinalityType
      <4>3. orden \in [1 .. c -> otros]
        BY <4>1 DEF Bijection, Injection, Surjection
      <4> HIDE DEF c, otros
      <4>4. Len(orden) = c
        BY <4>2, <4>3
      <4> QED
        BY <4>1, <4>2, <4>4
    <3>2. pendientes' = <<>> => DOMAIN pendientes' = {}
      OBVIOUS
    <3>3. DOMAIN (orden \o <<f, "bitmap", "bloques">>) = 1 .. Len(orden) + 3
      OBVIOUS
    <3>4. 1 \in 1 .. Len(orden) + 3
      BY <3>1
    <3> QED
      BY <3>1, <3>2, <3>3, <3>4
  <2>3. seguro' => ~caido'
    BY <1>13, <2>1, CompactaSinFalla DEF CabeInv
  <2> QED
    BY <2>1, <2>2, <2>3 DEF CabeInv, CompactacionCabe
<1>14. Tamanios \subseteq Int
  BY DialAssumption
<1> QED
  BY <1>1, <1>2, <1>3, <1>5, <1>6, <1>7, <1>8, <1>9, <1>10, <1>11, <1>12, <1>13, <1>14 DEF Next

\* The invariant holds in every behaviour.
LEMMA CabeSiempre == Spec => []CabeInv
<1>1. Init => CabeInv
  <2> SUFFICES ASSUME Init PROVE CabeInv
    OBVIOUS
  <2>1. Reposo.nombre = ""
    BY DEF Reposo
  <2>2. operacion = Reposo /\ expuestos = {} /\ caido = FALSE
    BY DEF Init
  <2> QED
    BY <2>1, <2>2 DEF CabeInv, CompactacionCabe
<1>2. DialInv /\ CabeInv /\ [Next]_vars => CabeInv'
  BY CabePaso
<1> QED
  BY <1>1, <1>2, DialSiempre, PTL DEF Spec

\* While nothing exposed a file, a compaction finds room for every file it
\* moves and for the one that grows: the check of the free blocks in
\* fs_truncate_file is enough, though the search of get_init_block_file may
\* skip free runs.
THEOREM CompactacionSiempreCabe == Spec => []CompactacionCabe
<1>1. CabeInv => CompactacionCabe
  BY DEF CabeInv
<1> QED
  BY <1>1, CabeSiempre, PTL

-----------------------------------------------------------------------------
(* The contents.  A byte written to a file stays where its metadata says   *)
(* through every operation, save and restart, but for the damage the model *)
(* records; and the metadata and the blocks stay in their range.           *)
(*                                                                         *)
(* The hard case is the compaction.  The files are moved in the order of   *)
(* their blocks, so each goes to blocks that no file still to be moved     *)
(* has: Intactos follows the blocks already in use (the first u), the      *)
(* bytes after them, not touched yet, and those of the files placed.       *)


\* datos has a value at every byte.
HayBytes(datos) == datos = [x \in Bytes |-> datos[x]]

-----------------------------------------------------------------------------
(* Bytes and blocks.                                                       *)

\* Blocks as bytes.
LEMMA Crece ==
    ASSUME NEW a \in Int, NEW b \in Int, a <= b PROVE a * BlockSize <= b * BlockSize
BY DialAssumption

\* Blocks add up as their bytes do.
LEMMA Reparte ==
    ASSUME NEW a \in Int, NEW b \in Int
    PROVE  /\ (a + b) * BlockSize = a * BlockSize + b * BlockSize
           /\ a * BlockSize \in Int
BY DialAssumption

\* No block, no byte.
LEMMA Ceros == 0 * BlockSize = 0 /\ BlockSize \in Int /\ \A a \in Nat : a * BlockSize >= 0
BY DialAssumption

\* The bytes of a run of blocks of the disk are on the disk.
LEMMA EnDisco ==
    ASSUME NEW i \in Nat, NEW t \in Nat, i + t <= N, NEW o \in Nat, o < t * BlockSize
    PROVE  /\ i * BlockSize + o \in Bytes
           /\ i * BlockSize + o < (i + t) * BlockSize
<1>1. N \in Nat /\ i * BlockSize \in Int /\ N * BlockSize \in Int /\ i * BlockSize >= 0
  BY DialAssumption, Reparte, Ceros
<1>2. (i + t) * BlockSize = i * BlockSize + t * BlockSize /\ t * BlockSize \in Int
  BY Reparte
<1>3. (i + t) * BlockSize <= N * BlockSize
  BY <1>1, Crece
<1> QED
  BY <1>1, <1>2, <1>3 DEF Bytes

\* What memcpy leaves at each byte.
LEMMA CopiaDa ==
    ASSUME NEW datos, NEW de \in Int, NEW a \in Int, NEW n \in Int
    PROVE  /\ HayBytes(Copia(datos, de, a, n))
           /\ \A x \in Bytes : x < a \/ x >= a + n => Copia(datos, de, a, n)[x] = datos[x]
           /\ \A o \in Nat : o < n /\ a + o \in Bytes => Copia(datos, de, a, n)[a + o] = datos[de + o]
<1> DEFINE c == Copia(datos, de, a, n)
<1>1. HayBytes(c)
  BY DEF Copia, HayBytes
<1>2. ASSUME NEW x \in Bytes
      PROVE  c[x] = IF x \in a .. a + n - 1 THEN datos[x - a + de] ELSE datos[x]
  BY DEF Copia
<1>3. Bytes \subseteq Int
  BY DialAssumption DEF Bytes
<1>4. ASSUME NEW x \in Bytes, x < a \/ x >= a + n PROVE c[x] = datos[x]
  <2>1. x \notin a .. a + n - 1
    BY <1>3, <1>4
  <2> HIDE DEF c
  <2> QED
    BY <1>2, <2>1
<1>5. ASSUME NEW o \in Nat, o < n, a + o \in Bytes PROVE c[a + o] = datos[de + o]
  <2>1. a + o \in a .. a + n - 1 /\ (a + o) - a + de = de + o
    BY <1>5
  <2> HIDE DEF c
  <2> QED
    BY <1>2, <1>5, <2>1
<1> QED
  BY <1>1, <1>4, <1>5

\* A step of the compaction copies what f had to its new place, right after
\* the u blocks in use, and touches nothing else.
LEMMA PasoCopia ==
    ASSUME NEW acc, NEW f \in Archivos, NEW tam \in Nat, NEW u \in Nat, u + tam <= N,
           acc.metadata \in [Archivos -> Entradas], Prefijo(acc.bitmap, u),
           acc.metadata[f].tam \in 0 .. tam, HayBytes(acc.bloques)
    PROVE  LET s == realocate_compactacion(acc, f, tam)
               m == acc.metadata[f] IN
           /\ HayBytes(s.bloques)
           /\ s.metadata[f].tam = tam
           /\ \A x \in Bytes : x < u * BlockSize \/ x >= (u + tam) * BlockSize =>
                    s.bloques[x] = acc.bloques[x]
           /\ \A o \in Nat : o < m.tam * BlockSize =>
                /\ s.metadata[f].init = u /\ u * BlockSize + o \in Bytes
                /\ u * BlockSize + o < (u + tam) * BlockSize
                /\ s.bloques[u * BlockSize + o] = acc.bloques[m.init * BlockSize + o]
<1> DEFINE nuevo == get_init_block_file(acc.bitmap, tam)
           m == acc.metadata[f]
           s == realocate_compactacion(acc, f, tam)
           datos == Copia(acc.bloques, m.init * BlockSize, nuevo * BlockSize, m.tam * BlockSize)
<1>1. /\ s.bloques = datos
      /\ s.metadata = [acc.metadata EXCEPT ![f] = [init |-> nuevo, tam |-> tam]]
  BY DEF realocate_compactacion
<1>2. s.metadata[f].init = nuevo /\ s.metadata[f].tam = tam
  BY <1>1
<1> HIDE DEF s
<1>3. m.init \in Int /\ m.tam \in Nat /\ m.tam <= tam
  BY DEF Entradas
<1> HIDE DEF m
<1>4. IF tam = 0 THEN nuevo = -1 ELSE nuevo = u
  <2>1. CASE tam = 0
    BY <2>1, HuecoLibre
  <2>2. CASE tam # 0
    BY <2>2, BuscaPrefijo DEF Prefijo
  <2> QED
    BY <2>1, <2>2
<1> HIDE DEF nuevo
<1>5. nuevo \in Int
  BY <1>4
<1> DEFINE de == m.init * BlockSize
           a == nuevo * BlockSize
           n == m.tam * BlockSize
<1>6. de \in Int /\ a \in Int /\ n \in Int
  <2>1. m.init \in Int /\ nuevo \in Int /\ m.tam \in Int
    BY <1>3, <1>5
  <2>2. de \in Int
    BY <2>1, Reparte
  <2>3. a \in Int
    BY <2>1, Reparte
  <2>4. n \in Int
    BY <2>1, Reparte
  <2> QED
    BY <2>2, <2>3, <2>4
<1>7. datos = Copia(acc.bloques, de, a, n)
  OBVIOUS
<1>8. /\ (u + tam) * BlockSize = u * BlockSize + tam * BlockSize
      /\ u * BlockSize \in Int /\ tam * BlockSize \in Int
  <2>1. u \in Int /\ tam \in Int
    OBVIOUS
  <2>2. u * BlockSize \in Int /\ (u + tam) * BlockSize = u * BlockSize + tam * BlockSize
    BY <2>1, Reparte
  <2>3. tam * BlockSize \in Int
    BY <2>1, Reparte
  <2> QED
    BY <2>2, <2>3
<1>9. n <= tam * BlockSize /\ n >= 0 /\ (tam = 0 => n = 0) /\ (tam # 0 => a = u * BlockSize)
  BY <1>3, <1>4, Crece, Ceros
<1> HIDE DEF de, a, n, datos
<1>10. /\ HayBytes(datos)
       /\ \A x \in Bytes : x < a \/ x >= a + n => datos[x] = acc.bloques[x]
       /\ \A o \in Nat : o < n /\ a + o \in Bytes => datos[a + o] = acc.bloques[de + o]
  BY <1>6, <1>7, CopiaDa
<1>11. \A x \in Bytes : x \in Int
  BY DialAssumption DEF Bytes
<1>12. \A x \in Bytes : x < u * BlockSize \/ x >= (u + tam) * BlockSize => datos[x] = acc.bloques[x]
  <2>1. CASE tam = 0
    BY <1>6, <1>9, <1>10, <1>11, <2>1
  <2>2. CASE tam # 0
    BY <1>6, <1>8, <1>9, <1>10, <1>11, <2>2
  <2> QED
    BY <2>1, <2>2
<1>13. ASSUME NEW o \in Nat, o < n
       PROVE  /\ nuevo = u /\ u * BlockSize + o \in Bytes
              /\ u * BlockSize + o < (u + tam) * BlockSize
              /\ datos[u * BlockSize + o] = acc.bloques[de + o]
  <2>1. tam # 0 /\ o < tam * BlockSize
    BY <1>6, <1>8, <1>9, <1>13
  <2>2. nuevo = u /\ a = u * BlockSize
    BY <1>4, <1>9, <2>1
  <2>3. u * BlockSize + o \in Bytes /\ u * BlockSize + o < (u + tam) * BlockSize
    BY <2>1, EnDisco
  <2> QED
    BY <1>10, <1>13, <2>2, <2>3
<1>14. \A o \in Nat : o < m.tam * BlockSize =>
            /\ nuevo = u /\ u * BlockSize + o \in Bytes
            /\ u * BlockSize + o < (u + tam) * BlockSize
            /\ datos[u * BlockSize + o] = acc.bloques[m.init * BlockSize + o]
  BY <1>13 DEF de, n
<1> SUFFICES /\ HayBytes(s.bloques)
             /\ s.metadata[f].tam = tam
             /\ \A x \in Bytes : x < u * BlockSize \/ x >= (u + tam) * BlockSize =>
                    s.bloques[x] = acc.bloques[x]
             /\ \A o \in Nat : o < m.tam * BlockSize =>
                /\ s.metadata[f].init = u /\ u * BlockSize + o \in Bytes
                /\ u * BlockSize + o < (u + tam) * BlockSize
                /\ s.bloques[u * BlockSize + o] = acc.bloques[m.init * BlockSize + o]
  BY Zenon DEF s, m
<1>15. s.bloques = datos
  BY <1>1 DEF datos, de, a, n
<1> QED
  BY <1>2, <1>10, <1>12, <1>14, <1>15

-----------------------------------------------------------------------------
(* The invariant.                                                          *)

\* The bytes kept are within the sizes of md, and datos has them where md says.
Dentro(md) == \A f \in Archivos : \A o \in escrito[f] : o < md[f].tam * BlockSize
Contenido(datos, md) ==
    \A f \in Archivos \ danado : \A o \in escrito[f] :
        datos[md[f].init * BlockSize + o] = <<f, o>>

\* A write that is not saved yet.
Escribiendo ==
    operacion.nombre = "escribir" =>
        LET f == operacion.archivo
            o == operacion.byte IN
        /\ f \in Archivos /\ o \in Nat
        /\ bloques[metadata[f].init * BlockSize + o] = <<f, o>>

\* Memory keeps the contents, and so does what a stop would leave, unless
\* the stop would expose it; other operations change the blocks or the
\* metadata, not both.
Mueve == {"reubicar", "compactar"}
ContInv ==
    /\ escrito \in [Archivos -> SUBSET Nat] /\ HayBytes(bloques) /\ HayBytes(d_bloques)
    /\ seguro => Dentro(metadata) /\ Contenido(bloques, metadata)
    /\ seguro /\ operacion.nombre \notin Mueve =>
            /\ Dentro(d_metadata) /\ Contenido(d_bloques, d_metadata)
            /\ d_bloques = bloques \/ d_metadata = metadata
    /\ Escribiendo

\* Sizes and contents of memory between operations.
LEMMA Antes ==
    ASSUME DialInv, CabeInv, ContInv, Libre, seguro
    PROVE  /\ Sana(bitmap, metadata, {}) /\ expuestos = {}
           /\ Dentro(metadata) /\ Contenido(bloques, metadata)
BY Memoria DEF ContInv, CabeInv

\* A byte kept is on the disk, and its file has a size.
LEMMA Posicion ==
    ASSUME NEW md \in [Archivos -> Entradas], NEW bits, Sana(bits, md, {}),
           escrito \in [Archivos -> SUBSET Nat], Dentro(md),
           NEW f \in Archivos, NEW o \in escrito[f]
    PROVE  /\ o \in Nat /\ md[f].tam \in Nat /\ md[f].tam > 0 /\ md[f].init \in Nat
           /\ md[f].init + md[f].tam <= N
           /\ md[f].init * BlockSize + o \in Bytes
           /\ md[f].init * BlockSize + o \in BytesDe(md[f])
<1> DEFINE m == md[f]
<1>1. o \in Nat /\ o < m.tam * BlockSize /\ m.init \in Int /\ m.tam \in Int
  BY DEF Dentro, Entradas
<1>2. m = NoExiste \/ m.tam >= 0
  BY DEF Sana
<1>3. m.tam > 0
  <2>1. CASE m.tam <= 0
    <3>1. m.tam * BlockSize <= 0 * BlockSize
      BY <1>1, <2>1, Crece
    <3>2. m.tam * BlockSize \in Int
      BY <1>1, Reparte
    <3> QED
      BY <1>1, <3>1, <3>2, Ceros
  <2> QED
    BY <1>1, <2>1
<1>4. m # NoExiste /\ TamActual(m) = m.tam
  BY <1>1, <1>3 DEF NoExiste, TamActual
<1>5. BloquesDe(m) = m.init .. m.init + m.tam - 1
  BY <1>4 DEF BloquesDe
<1>6. \A b \in BloquesDe(m) : b \in 0 .. N - 1
  BY DEF Sana, Bits
<1> HIDE DEF m
<1>7. m.init \in BloquesDe(m) /\ m.init + m.tam - 1 \in BloquesDe(m) /\ N \in Nat
  BY <1>1, <1>3, <1>5, DialAssumption
<1>8. m.init \in Nat /\ m.init + m.tam <= N
  BY <1>1, <1>3, <1>6, <1>7
<1>9. m.tam \in Nat
  BY <1>1, <1>3
<1>10. m.init * BlockSize + o \in Bytes /\ m.init * BlockSize + o < (m.init + m.tam) * BlockSize
  BY <1>1, <1>8, <1>9, EnDisco
<1>11. m.init * BlockSize \in Int /\ (m.init + m.tam) * BlockSize \in Int
  <2>1. m.init + m.tam \in Int
    BY <1>1
  <2> QED
    BY <1>1, <2>1, Reparte
<1>12. m.init * BlockSize + o \in BytesDe(m)
  BY <1>1, <1>10, <1>11 DEF BytesDe
<1> QED
  BY <1>1, <1>3, <1>8, <1>9, <1>10, <1>12 DEF m

\* An operation that keeps the sizes and the contents in memory: what is
\* saved are those of before.
LEMMA ContCambia ==
    ASSUME DialInv, CabeInv, ContInv, Libre, UNCHANGED disco,
           escrito' \in [Archivos -> SUBSET Nat],
           \A g \in Archivos : escrito'[g] \subseteq escrito[g],
           \A g \in danado \ danado' : escrito'[g] = {},
           HayBytes(bloques'), seguro' => seguro,
           seguro' => Dentro(metadata)' /\ Contenido(bloques, metadata)',
           operacion'.nombre \notin Mueve => bloques' = bloques \/ metadata' = metadata,
           Escribiendo'
    PROVE  ContInv'
<1>1. d_metadata = metadata /\ d_bloques = bloques
  BY LibreIgual DEF DialInv, Libre
<1>2. d_metadata' = metadata /\ d_bloques' = bloques
  BY <1>1 DEF disco
<1>3. HayBytes(bloques)' /\ HayBytes(d_bloques)'
  BY <1>2 DEF ContInv, HayBytes
<1>4. ASSUME seguro' PROVE Dentro(d_metadata)' /\ Contenido(d_bloques, d_metadata)'
  <2>1. Dentro(metadata) /\ Contenido(bloques, metadata)
    BY <1>4, Antes
  <2>2. \A f \in Archivos : \A o \in escrito'[f] : o < d_metadata'[f].tam * BlockSize
    BY <1>2, <2>1 DEF Dentro
  <2>3. \A f \in Archivos \ danado' : \A o \in escrito'[f] :
            d_bloques'[d_metadata'[f].init * BlockSize + o] = <<f, o>>
    BY <1>2, <2>1 DEF Contenido
  <2> QED
    BY <2>2, <2>3 DEF Dentro, Contenido
<1>5. operacion'.nombre \notin Mueve => d_bloques' = bloques' \/ d_metadata' = metadata'
  BY <1>2
<1> QED
  BY <1>3, <1>4, <1>5 DEF ContInv

\* An operation that leaves the blocks as they are keeps the contents of the
\* files that stay where they were.
LEMMA ContQuieto ==
    ASSUME DialInv, CabeInv, ContInv, Libre, UNCHANGED <<disco, bloques>>,
           NEW f \in Archivos,
           escrito' \in [Archivos -> SUBSET Nat],
           \A g \in Archivos : escrito'[g] \subseteq escrito[g],
           \A g \in danado \ danado' : escrito'[g] = {},
           seguro' => seguro,
           \A g \in Archivos \ {f} : metadata'[g] = metadata[g],
           seguro' => \A o \in escrito'[f] : /\ metadata'[f].init = metadata[f].init
                                             /\ o < metadata'[f].tam * BlockSize,
           operacion'.nombre # "escribir"
    PROVE  ContInv'
<1>1. ASSUME seguro' PROVE Dentro(metadata)' /\ Contenido(bloques, metadata)'
  <2>1. Dentro(metadata) /\ Contenido(bloques, metadata)
    BY <1>1, Antes
  <2>2. \A g \in Archivos : \A o \in escrito'[g] : o < metadata'[g].tam * BlockSize
    BY <1>1, <2>1 DEF Dentro
  <2>3. \A g \in Archivos : \A o \in escrito'[g] : metadata'[g].init = metadata[g].init
    BY <1>1
  <2>4. \A g \in Archivos \ danado' : \A o \in escrito'[g] :
            bloques'[metadata'[g].init * BlockSize + o] = <<g, o>>
    BY <2>1, <2>3 DEF Contenido
  <2> QED
    BY <2>2, <2>4 DEF Dentro, Contenido
<1>2. HayBytes(bloques')
  BY DEF ContInv, HayBytes
<1>3. Escribiendo'
  BY DEF Escribiendo
<1>4. UNCHANGED disco
  OBVIOUS
<1>5. operacion'.nombre \notin Mueve => bloques' = bloques \/ metadata' = metadata
  OBVIOUS
<1> QED
  BY <1>1, <1>2, <1>3, <1>4, <1>5, ContCambia

-----------------------------------------------------------------------------
(* The operations.                                                         *)

\* The size in blocks is not less than TAMANIO_ARCHIVO.
LEMMA TamMenor ==
    ASSUME NEW m \in Entradas
    PROVE  m.tam \in Int /\ TamActual(m) \in Int /\ m.tam <= TamActual(m)
BY DEF Entradas, TamActual

\* A file that is not there has no contents.
LEMMA NadaEscrito ==
    ASSUME escrito \in [Archivos -> SUBSET Nat], NEW md \in [Archivos -> Entradas], Dentro(md),
           NEW f \in Archivos, md[f].tam <= 0
    PROVE  escrito[f] = {}
<1> SUFFICES ASSUME NEW o \in escrito[f] PROVE FALSE
  OBVIOUS
<1>1. o \in Nat /\ o < md[f].tam * BlockSize /\ md[f].tam \in Int
  BY DEF Dentro, Entradas
<1>2. md[f].tam * BlockSize <= 0 * BlockSize
  BY <1>1, Crece
<1>3. md[f].tam * BlockSize \in Int
  BY <1>1, Reparte
<1> QED
  BY <1>1, <1>2, <1>3, Ceros

\* fs_create_file, fs_delete_file and the truncations that stay in place
\* change no byte.
LEMMA ContCrea ==
    ASSUME DialInv, CabeInv, ContInv, NEW f \in Archivos, fs_create_file(f) PROVE ContInv'
<1>1. /\ Libre /\ UNCHANGED <<disco, bloques>> /\ escrito' = escrito /\ danado' = danado
      /\ seguro' = seguro /\ metadata[f] = NoExiste
      /\ operacion' = [nombre |-> "crear", archivo |-> f, byte |-> 0]
  BY DEF fs_create_file, Empieza, Sano
<1>2. \A g \in Archivos \ {f} : metadata'[g] = metadata[g]
  BY Memoria DEF fs_create_file
<1>3. seguro => escrito[f] = {}
  <2>1. metadata[f].tam <= 0
    BY <1>1 DEF NoExiste
  <2>2. seguro => Dentro(metadata)
    BY <1>1, Antes
  <2>3. metadata \in [Archivos -> Entradas] /\ escrito \in [Archivos -> SUBSET Nat]
    BY <1>1, Memoria DEF ContInv
  <2> QED
    BY <2>1, <2>2, <2>3, NadaEscrito
<1>4. operacion'.nombre # "escribir" /\ escrito' \in [Archivos -> SUBSET Nat]
  BY <1>1 DEF ContInv
<1> QED
  BY <1>1, <1>2, <1>3, <1>4, ContQuieto

\* A deletion takes the contents with it.
LEMMA ContBorra ==
    ASSUME DialInv, CabeInv, ContInv, NEW f \in Archivos, fs_delete_file(f) PROVE ContInv'
<1>1. /\ Libre /\ UNCHANGED <<disco, bloques>> /\ escrito' = [escrito EXCEPT ![f] = {}]
      /\ danado' = danado \ {f} /\ seguro' = seguro
      /\ operacion' = [nombre |-> "borrar", archivo |-> f, byte |-> 0]
      /\ metadata' = [metadata EXCEPT ![f] = NoExiste]
  BY DEF fs_delete_file, Empieza
<1>2. \A g \in Archivos \ {f} : metadata'[g] = metadata[g]
  BY <1>1, Memoria
<1>3. /\ escrito' \in [Archivos -> SUBSET Nat] /\ escrito'[f] = {}
      /\ \A g \in Archivos : escrito'[g] \subseteq escrito[g]
  BY <1>1 DEF ContInv
<1>4. operacion'.nombre # "escribir" /\ \A g \in danado \ danado' : escrito'[g] = {}
  BY <1>1, <1>3
<1> QED
  BY <1>1, <1>2, <1>3, <1>4, ContQuieto

\* A truncation to the same blocks only writes the size.
LEMMA ContIgual ==
    ASSUME DialInv, CabeInv, ContInv, NEW f \in Archivos, NEW n \in Int, TruncaIgual(f, n)
    PROVE  ContInv'
<1>1. /\ Libre /\ UNCHANGED <<disco, bloques>> /\ escrito' = escrito /\ danado' = danado
      /\ seguro' = seguro /\ n = TamActual(metadata[f])
      /\ operacion' = [nombre |-> "truncar", archivo |-> f, byte |-> 0]
      /\ metadata' = [metadata EXCEPT ![f].tam = n]
  BY DEF TruncaIgual, Empieza, Sano
<1>2. metadata \in [Archivos -> Entradas]
  BY <1>1, Memoria
<1>3. /\ \A g \in Archivos \ {f} : metadata'[g] = metadata[g]
      /\ metadata'[f].init = metadata[f].init /\ metadata'[f].tam = n
  BY <1>1, <1>2 DEF Entradas
<1>4. metadata[f].tam \in Int /\ metadata[f].tam <= n
  BY <1>1, <1>2, TamMenor
<1>5. metadata[f].tam * BlockSize \in Int /\ metadata[f].tam * BlockSize <= n * BlockSize
  BY <1>4, Crece, Reparte
<1>6. n * BlockSize \in Int
  BY Reparte
<1>7. ASSUME seguro, NEW o \in escrito[f] PROVE o < n * BlockSize
  <2>1. o \in Nat /\ o < metadata[f].tam * BlockSize
    BY <1>1, <1>7, Antes DEF Dentro, ContInv
  <2> QED
    BY <1>5, <1>6, <2>1
<1>8. operacion'.nombre # "escribir" /\ escrito' \in [Archivos -> SUBSET Nat]
  BY <1>1 DEF ContInv
<1> QED
  BY <1>1, <1>3, <1>7, <1>8, ContQuieto

\* A smaller size keeps the bytes below it, a negative one clears seguro.
LEMMA ContMenos ==
    ASSUME DialInv, CabeInv, ContInv, NEW f \in Archivos, NEW n \in Int, TruncaMenos(f, n)
    PROVE  ContInv'
<1>1. /\ Libre /\ UNCHANGED <<disco, bloques>> /\ danado' = danado
      /\ operacion' = [nombre |-> "truncar", archivo |-> f, byte |-> 0]
      /\ metadata' = [metadata EXCEPT ![f] =
                            [init |-> IF n = 0 THEN -1 ELSE metadata[f].init, tam |-> n]]
      /\ escrito' = [escrito EXCEPT ![f] = {o \in @ : o < n * BlockSize}]
  BY DEF TruncaMenos, Empieza
<1>2. seguro' => seguro /\ n >= 0
  BY Zenon DEF TruncaMenos
<1>3. metadata \in [Archivos -> Entradas] /\ escrito \in [Archivos -> SUBSET Nat]
  BY <1>1, Memoria DEF ContInv
<1>4. /\ \A g \in Archivos \ {f} : metadata'[g] = metadata[g]
      /\ n # 0 => metadata'[f].init = metadata[f].init
      /\ metadata'[f].tam = n
  BY <1>1, <1>3
<1>5. /\ escrito' \in [Archivos -> SUBSET Nat]
      /\ \A g \in Archivos : escrito'[g] \subseteq escrito[g]
      /\ \A o \in escrito'[f] : o \in Nat /\ o < n * BlockSize
  BY <1>1, <1>3
<1>6. n = 0 => escrito'[f] = {}
  BY <1>5, Ceros
<1>7. operacion'.nombre # "escribir"
  BY <1>1
<1> QED
  BY <1>1, <1>2, <1>4, <1>5, <1>6, <1>7, ContQuieto

\* A file that grows in place keeps its bytes.
LEMMA ContContiguo ==
    ASSUME DialInv, CabeInv, ContInv, NEW f \in Archivos, NEW n \in Int, TruncaContiguo(f, n)
    PROVE  ContInv'
<1>1. /\ Libre /\ UNCHANGED <<disco, bloques>> /\ escrito' = escrito /\ danado' = danado
      /\ seguro' = seguro /\ n > TamActual(metadata[f])
      /\ operacion' = [nombre |-> "truncar", archivo |-> f, byte |-> 0]
      /\ metadata' = [metadata EXCEPT ![f].tam = n]
  BY DEF TruncaContiguo, Empieza, Sano
<1>2. metadata \in [Archivos -> Entradas]
  BY <1>1, Memoria
<1>3. /\ \A g \in Archivos \ {f} : metadata'[g] = metadata[g]
      /\ metadata'[f].init = metadata[f].init /\ metadata'[f].tam = n
  BY <1>1, <1>2 DEF Entradas
<1>4. metadata[f].tam \in Int /\ metadata[f].tam <= n
  BY <1>1, <1>2, TamMenor
<1>5. metadata[f].tam * BlockSize \in Int /\ metadata[f].tam * BlockSize <= n * BlockSize
  BY <1>4, Crece, Reparte
<1>6. n * BlockSize \in Int
  BY Reparte
<1>7. ASSUME seguro, NEW o \in escrito[f] PROVE o < n * BlockSize
  <2>1. o \in Nat /\ o < metadata[f].tam * BlockSize
    BY <1>1, <1>7, Antes DEF Dentro, ContInv
  <2> QED
    BY <1>5, <1>6, <2>1
<1>8. operacion'.nombre # "escribir" /\ escrito' \in [Archivos -> SUBSET Nat]
  BY <1>1 DEF ContInv
<1> QED
  BY <1>1, <1>3, <1>7, <1>8, ContQuieto

\* fs_write_file: a byte that was another file's is recorded as its damage,
\* and one of its own is the one it had at that position.
LEMMA ContEscribe ==
    ASSUME DialInv, CabeInv, ContInv, NEW f \in Archivos, NEW ptr \in Nat, fs_write_file(f, ptr)
    PROVE  ContInv'
<1> DEFINE b == metadata[f].init * BlockSize + ptr
<1>1. /\ Libre /\ UNCHANGED disco /\ metadata' = metadata /\ escrito' = escrito
      /\ seguro' = seguro /\ b \in Bytes
      /\ operacion' = [nombre |-> "escribir", archivo |-> f, byte |-> ptr]
      /\ bloques' = [bloques EXCEPT ![b] = <<f, ptr>>]
      /\ danado' = danado \cup {g \in Archivos \ {f} : b \in BytesDe(metadata[g])}
  BY DEF fs_write_file, Empieza, Sano
<1>2. metadata \in [Archivos -> Entradas] /\ escrito \in [Archivos -> SUBSET Nat]
      /\ bloques = [x \in Bytes |-> bloques[x]]
  BY <1>1, Memoria DEF ContInv, HayBytes
<1>i. metadata[f].init * BlockSize \in Int
  <2>1. metadata[f].init \in Int
    BY <1>2 DEF Entradas
  <2> QED
    BY <2>1, Reparte
<1>3. bloques'[b] = <<f, ptr>> /\ \A x \in Bytes : x # b => bloques'[x] = bloques[x]
  <2> HIDE DEF b
  <2> QED
    BY <1>1, <1>2
<1>4. HayBytes(bloques')
  <2> HIDE DEF b
  <2> QED
    BY <1>1, <1>2 DEF HayBytes
<1>5. ASSUME seguro PROVE Dentro(metadata)' /\ Contenido(bloques, metadata)'
  <2>1. Sana(bitmap, metadata, {}) /\ Dentro(metadata) /\ Contenido(bloques, metadata)
    BY <1>1, <1>5, Antes
  <2>2. ASSUME NEW g \in Archivos \ danado', NEW o \in escrito[g]
        PROVE  bloques'[metadata[g].init * BlockSize + o] = <<g, o>>
    <3> DEFINE p == metadata[g].init * BlockSize + o
    <3>1. g \in Archivos \ danado /\ (g # f => b \notin BytesDe(metadata[g]))
      BY <1>1, <2>2
    <3>2. p \in Bytes /\ p \in BytesDe(metadata[g]) /\ o \in Nat
      BY <1>2, <2>1, <2>2, Posicion
    <3>3. bloques[p] = <<g, o>>
      BY <2>1, <2>2, <3>1 DEF Contenido
    <3>4. CASE p # b
      BY <1>3, <3>2, <3>3, <3>4
    <3>5. CASE p = b
      <4>1. g = f
        BY <3>1, <3>2, <3>5
      <4>2. o = ptr
        BY <1>i, <3>2, <3>5, <4>1
      <4> QED
        BY <1>3, <3>5, <4>1, <4>2
    <3> QED
      BY <3>4, <3>5
  <2> QED
    BY <1>1, <2>1, <2>2 DEF Dentro, Contenido
<1>6. Escribiendo'
  BY <1>1, <1>3 DEF Escribiendo
<1>7. escrito' \in [Archivos -> SUBSET Nat] /\ danado \ danado' = {}
  BY <1>1, <1>2
<1> QED
  BY <1>1, <1>4, <1>5, <1>6, <1>7, ContCambia

\* TruncaReubica: the bytes it overwrites are of files it records, and the
\* file it moves loses its contents.
LEMMA ContReubica ==
    ASSUME DialInv, CabeInv, ContInv, NEW f \in Archivos, NEW n \in Int, TruncaReubica(f, n)
    PROVE  ContInv'
<1> DEFINE m == metadata[f]
           nuevo == get_init_block_file(bitmap, n)
           usados == TamActual(m) * BlockSize
<1>1. /\ Libre /\ UNCHANGED disco /\ escrito' = escrito /\ seguro' = seguro
      /\ n > TamActual(m)
      /\ operacion' = [nombre |-> "reubicar", archivo |-> f, byte |-> 0]
      /\ bloques' = Copia(bloques, m.init, nuevo, usados)
      /\ metadata' = [metadata EXCEPT ![f] = [init |-> nuevo, tam |-> n]]
      /\ danado' = danado
             \cup (IF escrito[f] # {} THEN {f} ELSE {})
             \cup {g \in Archivos \ {f} :
                     BytesDe(metadata[g]) \cap (nuevo .. nuevo + usados - 1) # {}}
  BY DEF TruncaReubica, Empieza, realocate_data
<1>2. metadata \in [Archivos -> Entradas] /\ escrito \in [Archivos -> SUBSET Nat]
  BY <1>1, Memoria DEF ContInv
<1>3. m.init \in Int /\ m.tam \in Int /\ TamActual(m) \in Int /\ m.tam <= TamActual(m)
  BY <1>2, TamMenor DEF Entradas
<1>4. nuevo \in Int
  BY LugarNuevo
<1>5. usados \in Int
  BY <1>3, Reparte
<1> HIDE DEF nuevo, usados
<1>6. /\ HayBytes(bloques')
      /\ \A x \in Bytes : x < nuevo \/ x >= nuevo + usados => bloques'[x] = bloques[x]
  BY <1>1, <1>3, <1>4, <1>5, CopiaDa
<1>7. /\ \A g \in Archivos \ {f} : metadata'[g] = metadata[g]
      /\ metadata'[f].init = nuevo /\ metadata'[f].tam = n
  BY <1>1, <1>2
<1>8. ASSUME seguro PROVE Dentro(metadata)' /\ Contenido(bloques, metadata)'
  <2>1. Sana(bitmap, metadata, {}) /\ Dentro(metadata) /\ Contenido(bloques, metadata)
    BY <1>1, <1>8, Antes
  <2>2. ASSUME NEW o \in escrito[f] PROVE o < n * BlockSize
    <3>1. m.tam * BlockSize <= n * BlockSize /\ o \in Nat /\ o < m.tam * BlockSize
      <4>1. m.tam <= n
        BY <1>1, <1>3
      <4> QED
        BY <1>2, <1>3, <2>1, <2>2, <4>1, Crece DEF Dentro
    <3>2. m.tam * BlockSize \in Int
      BY <1>3, Reparte
    <3>3. n * BlockSize \in Int
      BY Reparte
    <3> QED
      BY <3>1, <3>2, <3>3
  <2>3. Dentro(metadata)'
    BY <1>1, <1>7, <2>1, <2>2 DEF Dentro
  <2>4. ASSUME NEW g \in Archivos \ danado', NEW o \in escrito[g]
        PROVE  bloques'[metadata'[g].init * BlockSize + o] = <<g, o>>
    <3> DEFINE p == metadata[g].init * BlockSize + o
    <3>1. g \in Archivos \ danado /\ g # f
      BY <1>1, <2>4
    <3>2. BytesDe(metadata[g]) \cap (nuevo .. nuevo + usados - 1) = {}
      BY <1>1, <2>4, <3>1
    <3>3. p \in Bytes /\ p \in BytesDe(metadata[g])
      BY <1>2, <2>1, <2>4, Posicion
    <3>4. p \in Int
      BY <3>3, DialAssumption DEF Bytes
    <3>5. bloques[p] = <<g, o>>
      BY <2>1, <2>4, <3>1 DEF Contenido
    <3>6. metadata'[g] = metadata[g]
      BY <1>7, <3>1
    <3> HIDE DEF p
    <3>7. p < nuevo \/ p >= nuevo + usados
      BY <1>4, <1>5, <3>2, <3>3, <3>4
    <3>8. bloques'[p] = <<g, o>>
      BY <1>6, <3>3, <3>5, <3>7
    <3> QED
      BY <3>6, <3>8 DEF p
  <2> QED
    BY <1>1, <2>3, <2>4 DEF Contenido
<1>9. Escribiendo' /\ operacion'.nombre \in Mueve
  BY <1>1 DEF Escribiendo, Mueve
<1>10. escrito' \in [Archivos -> SUBSET Nat] /\ danado \ danado' = {}
  BY <1>1, <1>2
<1> QED
  BY <1>1, <1>6, <1>8, <1>9, <1>10, ContCambia

-----------------------------------------------------------------------------
(* The compaction.                                                         *)

\* The first u blocks are in use; the bytes after them are the ones the
\* compaction began with, and the files of P have theirs before them.
Intactos(acc, P, u) ==
    /\ Prefijo(acc.bitmap, u) /\ HayBytes(acc.bloques)
    /\ \A x \in Bytes : x >= u * BlockSize => acc.bloques[x] = bloques[x]
    /\ \A g \in P : \A o \in Nat : o < metadata[g].tam * BlockSize =>
        LET p == acc.metadata[g].init * BlockSize + o IN
        /\ p \in Bytes /\ p < u * BlockSize
        /\ acc.bloques[p] = bloques[metadata[g].init * BlockSize + o]

\* A step of the compaction: the files placed keep their bytes, and the next
\* one keeps its own if none of its blocks is in use yet.
LEMMA PasoIntacto ==
    ASSUME NEW acc, NEW f \in Archivos, NEW tam \in Nat, NEW u \in Nat, u + tam <= N,
           NEW P, f \notin P, P \subseteq Archivos,
           acc.bitmap \in [Bits -> BOOLEAN], acc.metadata \in [Archivos -> Entradas],
           ~acc.falla, Intactos(acc, P, u),
           metadata \in [Archivos -> Entradas], acc.metadata[f] = metadata[f],
           metadata[f].tam \in 0 .. tam,
           metadata[f].tam > 0 => metadata[f].init \in Nat
                                  /\ metadata[f].init + metadata[f].tam <= N
    PROVE  LET s == realocate_compactacion(acc, f, tam) IN
           /\ Intactos(s, P, u + tam)
           /\ (metadata[f].tam > 0 => u <= metadata[f].init) => Intactos(s, P \cup {f}, u + tam)
<1> DEFINE s == realocate_compactacion(acc, f, tam)
           m == metadata[f]
<1>1. /\ Prefijo(acc.bitmap, u) /\ HayBytes(acc.bloques)
      /\ \A x \in Bytes : x >= u * BlockSize => acc.bloques[x] = bloques[x]
      /\ \A g \in P : \A o \in Nat : o < metadata[g].tam * BlockSize =>
            /\ acc.metadata[g].init * BlockSize + o \in Bytes
            /\ acc.metadata[g].init * BlockSize + o < u * BlockSize
            /\ acc.bloques[acc.metadata[g].init * BlockSize + o]
                    = bloques[metadata[g].init * BlockSize + o]
  BY DEF Intactos
<1>2. /\ HayBytes(s.bloques)
      /\ \A x \in Bytes : x < u * BlockSize \/ x >= (u + tam) * BlockSize =>
                s.bloques[x] = acc.bloques[x]
      /\ \A o \in Nat : o < m.tam * BlockSize =>
            /\ s.metadata[f].init = u /\ u * BlockSize + o \in Bytes
            /\ u * BlockSize + o < (u + tam) * BlockSize
            /\ s.bloques[u * BlockSize + o] = acc.bloques[m.init * BlockSize + o]
  BY <1>1, PasoCopia
<1>3. /\ Prefijo(s.bitmap, u + tam)
      /\ \A g \in Archivos \ {f} : s.metadata[g] = acc.metadata[g]
  <2>1. acc.metadata[f].tam >= 0 /\ acc.metadata[f].tam \in Int
    OBVIOUS
  <2>2. Prefijo(s.bitmap, u + tam)
    BY <1>1, <2>1, PasoPrefijo
  <2>3. \A g \in Archivos \ {f} : s.metadata[g] = acc.metadata[g]
    BY DEF realocate_compactacion
  <2> QED
    BY <2>2, <2>3
<1> HIDE DEF s
<1>4. u * BlockSize <= (u + tam) * BlockSize
  <2>1. u \in Int /\ u + tam \in Int /\ u <= u + tam
    OBVIOUS
  <2> QED
    BY <2>1, Crece
<1>5. u * BlockSize \in Int /\ (u + tam) * BlockSize \in Int /\ Bytes \subseteq Int
  <2>1. u \in Int /\ u + tam \in Int
    OBVIOUS
  <2>2. u * BlockSize \in Int
    BY <2>1, Reparte
  <2>3. (u + tam) * BlockSize \in Int
    BY <2>1, Reparte
  <2> QED
    BY <2>2, <2>3, DialAssumption DEF Bytes
<1>6. ASSUME NEW x \in Bytes, x >= (u + tam) * BlockSize PROVE s.bloques[x] = bloques[x]
  <2>1. x >= u * BlockSize
    BY <1>4, <1>5, <1>6
  <2> QED
    BY <1>1, <1>2, <1>6, <2>1
<1>7. ASSUME NEW g \in P, NEW o \in Nat, o < metadata[g].tam * BlockSize
      PROVE  LET p == s.metadata[g].init * BlockSize + o IN
             /\ p \in Bytes /\ p < (u + tam) * BlockSize
             /\ s.bloques[p] = bloques[metadata[g].init * BlockSize + o]
  <2> DEFINE p == acc.metadata[g].init * BlockSize + o
  <2>1. s.metadata[g].init = acc.metadata[g].init
    BY <1>3
  <2>2. p \in Bytes /\ p < u * BlockSize /\ acc.bloques[p] = bloques[metadata[g].init * BlockSize + o]
    BY <1>1, <1>7
  <2> HIDE DEF p
  <2>3. p < (u + tam) * BlockSize /\ s.bloques[p] = acc.bloques[p]
    BY <1>2, <1>4, <1>5, <2>2
  <2>4. s.metadata[g].init * BlockSize + o = p
    BY <2>1 DEF p
  <2> QED
    BY <2>2, <2>3, <2>4
<1>8. ASSUME m.tam > 0 => u <= m.init, NEW o \in Nat, o < m.tam * BlockSize
      PROVE  LET p == s.metadata[f].init * BlockSize + o IN
             /\ p \in Bytes /\ p < (u + tam) * BlockSize
             /\ s.bloques[p] = bloques[m.init * BlockSize + o]
  <2> DEFINE q == m.init * BlockSize + o
  <2>1. m.tam \in Nat /\ m.tam > 0
    <3>1. m.tam \in Nat
      OBVIOUS
    <3>2. m.tam = 0 => FALSE
      BY <1>8, Ceros
    <3> QED
      BY <3>1, <3>2
  <2>2. u <= m.init /\ m.init \in Nat /\ m.init + m.tam <= N
    BY <1>8, <2>1
  <2>3. q \in Bytes
    BY <1>8, <2>1, <2>2, EnDisco
  <2>4. q >= u * BlockSize
    <3>1. u * BlockSize <= m.init * BlockSize
      BY <2>2, Crece
    <3>2. m.init \in Int
      BY <2>2
    <3>3. m.init * BlockSize \in Int
      BY <3>2, Reparte
    <3> QED
      BY <1>5, <3>1, <3>3
  <2> HIDE DEF q
  <2>5. acc.bloques[q] = bloques[q]
    BY <1>1, <2>3, <2>4
  <2>6. /\ s.metadata[f].init = u /\ u * BlockSize + o \in Bytes
        /\ u * BlockSize + o < (u + tam) * BlockSize
        /\ s.bloques[u * BlockSize + o] = acc.bloques[q]
    BY <1>2, <1>8 DEF q
  <2> QED
    BY <2>5, <2>6 DEF q
<1>9. Intactos(s, P, u + tam)
  BY <1>2, <1>3, <1>6, <1>7 DEF Intactos
<1>10. ASSUME m.tam > 0 => u <= m.init PROVE Intactos(s, P \cup {f}, u + tam)
  BY <1>2, <1>3, <1>6, <1>7, <1>8, <1>10 DEF Intactos
<1> QED
  BY <1>9, <1>10 DEF s

\* Where the blocks of a file are.
LEMMA EnBits ==
    ASSUME NEW md \in [Archivos -> Entradas], NEW bits, Sana(bits, md, {}),
           NEW g \in Archivos, md[g].tam > 0
    PROVE  /\ md[g].tam \in Nat /\ md[g].init \in Nat /\ md[g].init + md[g].tam <= N
           /\ BloquesDe(md[g]) = md[g].init .. md[g].init + md[g].tam - 1
<1> DEFINE m == md[g]
<1>1. m.init \in Int /\ m.tam \in Int /\ m.tam > 0
  BY DEF Entradas
<1>2. m # NoExiste /\ TamActual(m) = m.tam
  BY <1>1 DEF NoExiste, TamActual
<1>3. BloquesDe(m) = m.init .. m.init + m.tam - 1
  BY <1>2 DEF BloquesDe
<1>4. \A b \in BloquesDe(m) : b \in 0 .. N - 1
  BY DEF Sana, Bits
<1> HIDE DEF m
<1>5. m.init \in BloquesDe(m) /\ m.init + m.tam - 1 \in BloquesDe(m) /\ N \in Nat
  BY <1>1, <1>3, DialAssumption
<1>6. m.init \in Nat /\ m.init + m.tam <= N /\ m.tam \in Nat
  BY <1>1, <1>4, <1>5
<1> QED
  BY <1>3, <1>6 DEF m

\* The files that were before g had their blocks before its own.
LEMMA Delante ==
    ASSUME metadata \in [Archivos -> Entradas], Sana(bitmap, metadata, {}),
           NEW orden, NEW k, NEW g \in Archivos \ Puestos(orden, k),
           Puestos(orden, k) \subseteq Archivos, metadata[g].tam > 0,
           \A h \in Puestos(orden, k) : metadata[h].init <= metadata[g].init,
           NEW u \in Nat, u <= Cardinality(Viejos(orden, k))
    PROVE  u <= metadata[g].init
<1> DEFINE i == metadata[g].init
           V == Viejos(orden, k)
<1>1. i \in Nat /\ i \in BloquesDe(metadata[g])
  <2>1. /\ metadata[g].tam \in Nat /\ metadata[g].init \in Nat
        /\ BloquesDe(metadata[g]) = metadata[g].init .. metadata[g].init + metadata[g].tam - 1
    BY EnBits
  <2> QED
    BY <2>1
<1>2. ASSUME NEW h \in Puestos(orden, k), NEW b \in BloquesDe(metadata[h]) PROVE b \in 0 .. i - 1
  <2> DEFINE m == metadata[h]
  <2>1. m \in Entradas /\ m.init <= i /\ b \in BloquesDe(m)
    BY <1>2
  <2>2. /\ b \in Int /\ m # NoExiste /\ m.init <= b /\ b < m.init + TamActual(m)
        /\ m.init \in Int /\ TamActual(m) \in Int
    BY <2>1, BloquesEnteros, TamMenor DEF Entradas
  <2>3. b \in Nat
    <3>1. b \in Bits
      BY <1>2 DEF Sana
    <3> QED
      BY <3>1, DialAssumption DEF Bits
  <2>4. BloquesDe(m) = m.init .. m.init + TamActual(m) - 1
    BY <2>2 DEF BloquesDe
  <2>5. i \notin BloquesDe(m)
    <3>1. h \in Archivos /\ g \in Archivos /\ g # h
      OBVIOUS
    <3>2. BloquesDe(metadata[h]) \cap BloquesDe(metadata[g]) = {}
      BY <3>1 DEF Sana
    <3> QED
      BY <1>1, <3>2
  <2> HIDE DEF m, i
  <2>6. ~(b >= i)
    BY <1>1, <2>1, <2>2, <2>4, <2>5
  <2> QED
    BY <1>1, <2>3, <2>6
<1>3. V \subseteq 0 .. i - 1
  BY <1>2 DEF Viejos
<1> HIDE DEF V, i
<1>4. IsFiniteSet(0 .. i - 1) /\ Cardinality(0 .. i - 1) = i
  <2>1. 0 \in Int /\ i - 1 \in Int
    BY <1>1
  <2>2. /\ IsFiniteSet(0 .. i - 1)
        /\ Cardinality(0 .. i - 1) = IF 0 > i - 1 THEN 0 ELSE (i - 1) - 0 + 1
    BY <2>1, FS_Interval
  <2>3. CASE i = 0
    BY <2>2, <2>3
  <2>4. CASE i > 0
    BY <1>1, <2>2, <2>4
  <2> QED
    BY <1>1, <2>3, <2>4
<1>5. Cardinality(V) <= i /\ Cardinality(V) \in Nat
  <2>1. V \in SUBSET (0 .. i - 1)
    BY <1>3
  <2> QED
    BY <1>4, <2>1, FS_Subset, FS_CardinalityType
<1>6. u <= Cardinality(V)
  BY DEF V
<1>7. u <= i
  BY <1>1, <1>5, <1>6
<1> QED
  BY <1>7 DEF i

\* The compaction of the files of orden, sorted by their first block: each
\* ends with the bytes and the size it had, and the bytes after the blocks in
\* use have not changed.
LEMMA CompactaIntacta ==
    ASSUME bitmap \in [Bits -> BOOLEAN], metadata \in [Archivos -> Entradas],
           Sana(bitmap, metadata, {}), HayBytes(bloques),
           NEW orden, Len(orden) \in Nat,
           \A j \in 1 .. Len(orden) : orden[j] \in Archivos /\ metadata[orden[j]] # NoExiste,
           \A i, j \in 1 .. Len(orden) : orden[i] = orden[j] => i = j,
           \A i, j \in 1 .. Len(orden) :
                i < j => sory_by_init_block(metadata, orden[i], orden[j])
    PROVE  LET s == compacta(orden)
               P == Puestos(orden, Len(orden)) IN
           /\ ~s.falla
           /\ \A g \in P : s.metadata[g].tam = metadata[g].tam
           /\ \E u \in Nat : Intactos(s, P, u)
<1> DEFINE n == Len(orden)
<1>1. PICK tras :
           /\ tras[0] = CompactaDesde /\ compacta(orden) = tras[n]
           /\ \A k \in 0 .. n :
                /\ tras[k].bitmap \in [Bits -> BOOLEAN]
                /\ tras[k].metadata \in [Archivos -> Entradas]
                /\ \A g \in Archivos \ Puestos(orden, k) : tras[k].metadata[g] = metadata[g]
           /\ \A k \in 0 .. n - 1 :
                /\ k + 1 \in 1 .. n
                /\ tras[k + 1] = Sucesor(tras[k], orden[k + 1])
                /\ orden[k + 1] \in Archivos \ Puestos(orden, k)
                /\ Puestos(orden, k + 1) = Puestos(orden, k) \cup {orden[k + 1]}
  BY CompactaPasos
<1> DEFINE Bien(s, k) ==
                /\ ~s.falla
                /\ \A g \in Puestos(orden, k) : s.metadata[g].tam = metadata[g].tam
                /\ \E u \in Nat : /\ u <= Cardinality(Viejos(orden, k))
                                  /\ Intactos(s, Puestos(orden, k), u)
           T == {k \in 0 .. n : Bien(tras[k], k)}
<1>2. 0 \in T
  <2>1. /\ CompactaDesde.bitmap = Marca(bitmap, 0, N, FALSE) /\ ~CompactaDesde.falla
        /\ CompactaDesde.bloques = bloques
    BY DEF CompactaDesde
  <2>2. Prefijo(CompactaDesde.bitmap, 0)
    BY <2>1, DialAssumption DEF Marca, Bits, Prefijo
  <2>3. Viejos(orden, 0) = {} /\ Puestos(orden, 0) = {}
    BY DEF Viejos, Puestos
  <2>4. Cardinality(Viejos(orden, 0)) = 0
    BY <2>3, FS_EmptySet
  <2>5. Intactos(CompactaDesde, {}, 0)
    BY <2>1, <2>2 DEF Intactos
  <2>6. 0 \in Nat /\ 0 <= Cardinality(Viejos(orden, 0))
    BY <2>4
  <2>7. Bien(CompactaDesde, 0)
    BY <2>1, <2>3, <2>5, <2>6
  <2> HIDE DEF Bien
  <2> QED
    BY <1>1, <2>7
<1>3. ASSUME NEW k \in 0 .. n - 1, k \in T PROVE k + 1 \in T
  <2> DEFINE g == orden[k + 1]
             acc == tras[k]
             m == metadata[g]
             s == realocate_compactacion(acc, g, m.tam)
             P == Puestos(orden, k)
             V == Viejos(orden, k)
  <2>1. /\ g \in Archivos \ P /\ tras[k + 1] = s
        /\ Puestos(orden, k + 1) = P \cup {g}
        /\ k + 1 \in 0 .. n /\ m # NoExiste
    BY <1>1 DEF Sucesor
  <2>2. /\ acc.bitmap \in [Bits -> BOOLEAN] /\ acc.metadata \in [Archivos -> Entradas]
        /\ acc.metadata[g] = m
    BY <1>1, <2>1
  <2>3. ~acc.falla /\ \A h \in P : acc.metadata[h].tam = metadata[h].tam
    BY <1>3
  <2>4. PICK u \in Nat : u <= Cardinality(V) /\ Intactos(acc, P, u)
    BY <1>3
  <2>5. V \cup BloquesDe(m) = Viejos(orden, k + 1)
    BY <2>1 DEF Viejos
  <2>6. P \subseteq Archivos /\ \A h \in P : metadata[h].init <= m.init
    <3>1. \A j \in 1 .. k : j \in 1 .. n /\ j < k + 1 /\ k + 1 \in 1 .. n
      OBVIOUS
    <3>2. \A j \in 1 .. k : sory_by_init_block(metadata, orden[j], g)
      BY <3>1
    <3> QED
      BY <3>1, <3>2 DEF Puestos, sory_by_init_block
  <2> HIDE DEF g, acc, P
  <2>7. m.tam \in Nat /\ u + m.tam <= Cardinality(V \cup BloquesDe(m)) /\ u + m.tam <= N
    <3>1. g \in Archivos \ Puestos(orden, k) /\ Puestos(orden, k) \subseteq Archivos
      BY <2>1, <2>6 DEF P
    <3> QED
      BY <2>1, <2>4, <3>1, CabeOtro
  <2>8. m.tam > 0 => u <= m.init
    <3> SUFFICES ASSUME m.tam > 0 PROVE u <= m.init
      OBVIOUS
    <3>1. /\ g \in Archivos \ Puestos(orden, k) /\ Puestos(orden, k) \subseteq Archivos
          /\ \A h \in Puestos(orden, k) : metadata[h].init <= m.init
      BY <2>1, <2>6 DEF P
    <3> QED
      BY <2>4, <3>1, Delante
  <2>9. m.tam > 0 => m.init \in Nat /\ m.init + m.tam <= N
    BY <2>1, EnBits
  <2>10. Intactos(s, P \cup {g}, u + m.tam)
    <3>1. m.tam \in 0 .. m.tam
      BY <2>7
    <3> QED
      BY <2>1, <2>2, <2>3, <2>4, <2>6, <2>7, <2>8, <2>9, <3>1, PasoIntacto
  <2>11. ~s.falla
    <3>1. acc.metadata[g].tam >= 0 /\ acc.metadata[g].tam \in Int
      BY <2>2, <2>7
    <3>2. Prefijo(acc.bitmap, u)
      BY <2>4 DEF Intactos
    <3>3. g \in Archivos
      BY <2>1
    <3> QED
      BY <2>2, <2>3, <2>7, <3>1, <3>2, <3>3, PasoPrefijo
  <2>12. \A h \in P \cup {g} : s.metadata[h].tam = metadata[h].tam
    <3>1. s.metadata = [acc.metadata EXCEPT ![g] = [init |-> get_init_block_file(acc.bitmap, m.tam),
                                                    tam |-> m.tam]]
      BY DEF realocate_compactacion
    <3> HIDE DEF s
    <3> QED
      BY <2>1, <2>2, <2>3, <2>6, <3>1
  <2>13. u + m.tam \in Nat /\ u + m.tam <= Cardinality(Viejos(orden, k + 1))
    <3>1. u + m.tam \in Nat
      BY <2>7
    <3>2. u + m.tam <= Cardinality(V \cup BloquesDe(m))
      BY <2>7
    <3> QED
      BY <2>5, <3>1, <3>2, Zenon
  <2> HIDE DEF s
  <2>14. Bien(s, k + 1)
    BY <2>1, <2>10, <2>11, <2>12, <2>13
  <2> HIDE DEF Bien
  <2> QED
    BY <2>1, <2>14
<1> HIDE DEF T
<1>4. T = 0 .. n
  <2>1. T \subseteq 0 .. n
    BY DEF T
  <2> QED
    BY <1>2, <1>3, <2>1, HaciaAdelante
<1>5. Bien(tras[n], n)
  BY <1>4 DEF T
<1> QED
  BY <1>1, <1>5

\* The growing file goes after the others; it keeps its bytes unless one of
\* them took its first block, and danado says so.
LEMMA ContCompacta ==
    ASSUME DialInv, CabeInv, ContInv, NEW f \in Archivos, NEW n \in Int, TruncaCompacta(f, n)
    PROVE  ContInv'
<1>1. /\ Libre /\ UNCHANGED disco /\ escrito' = escrito /\ seguro' = seguro
      /\ n > TamActual(metadata[f]) /\ metadata[f] # NoExiste
      /\ operacion' = [nombre |-> "compactar", archivo |-> f, byte |-> 0]
  BY DEF TruncaCompacta
<1>2. /\ metadata \in [Archivos -> Entradas] /\ bitmap \in [Bits -> BOOLEAN]
      /\ escrito \in [Archivos -> SUBSET Nat] /\ HayBytes(bloques)
  BY <1>1, Memoria DEF ContInv
<1>3. PICK orden : CompactaCon(orden, f, n)
  BY CompactaOrden DEF DialInv
<1> DEFINE P == Puestos(orden, Len(orden))
           resto == compacta(orden)
           m == metadata[f]
           fin == realocate_compactacion(resto, f, n)
<1>4. /\ bitmap' = fin.bitmap /\ metadata' = fin.metadata /\ bloques' = fin.bloques
      /\ caido' = fin.falla
      /\ danado' = danado \cup
            (IF \E b \in Bits : resto.bitmap[b] /\ b >= m.init THEN {f} ELSE {})
      /\ Len(orden) \in Nat /\ P = Otros(f)
      /\ \A i, j \in 1 .. Len(orden) : orden[i] = orden[j] => i = j
      /\ \A i, j \in 1 .. Len(orden) :
            i < j => sory_by_init_block(metadata, orden[i], orden[j])
  BY <1>3 DEF CompactaCon
<1>5. /\ \A j \in 1 .. Len(orden) : orden[j] \in Archivos /\ metadata[orden[j]] # NoExiste
      /\ f \in Archivos \ P /\ P \subseteq Archivos
      /\ \A g \in Archivos \ (P \cup {f}) : metadata[g] = NoExiste
  BY <1>3, <1>4 DEF CompactaCon, Otros
<1>6. /\ resto.bitmap \in [Bits -> BOOLEAN] /\ resto.metadata \in [Archivos -> Entradas]
      /\ \A g \in Archivos \ P : resto.metadata[g] = metadata[g]
  <2>1. \A j \in 1 .. Len(orden) : orden[j] \in Archivos
    BY <1>5
  <2> QED
    BY <1>2, <1>4, <2>1, CompactaPone
<1>7. HayBytes(bloques')
  BY <1>4 DEF realocate_compactacion, Copia, HayBytes
<1>8. /\ \A g \in Archivos \ {f} : fin.metadata[g] = resto.metadata[g]
      /\ fin.metadata[f] = [init |-> get_init_block_file(resto.bitmap, n), tam |-> n]
      /\ fin.falla <=> (resto.falla \/ (get_init_block_file(resto.bitmap, n) = -1 /\ n > 0)
                                    \/ resto.metadata[f].tam < 0)
  BY <1>6 DEF realocate_compactacion
<1>9. ASSUME seguro PROVE Dentro(metadata)' /\ Contenido(bloques, metadata)'
  <2>1. /\ Sana(bitmap, metadata, {}) /\ expuestos = {}
        /\ Dentro(metadata) /\ Contenido(bloques, metadata)
    BY <1>1, <1>9, Antes
  <2>2. ~resto.falla /\ (\A g \in P : resto.metadata[g].tam = metadata[g].tam)
        /\ \E u \in Nat : Intactos(resto, P, u)
    BY <1>2, <1>4, <1>5, <2>1, CompactaIntacta
  <2>3. PICK u \in Nat : Intactos(resto, P, u)
    BY <2>2
  <2>4. ~fin.falla
    <3>1. ~caido'
      BY <1>1, <2>1, CompactaSinFalla DEF Libre
    <3> QED
      BY <1>4, <3>1
  <2> HIDE DEF resto, P
  <2>5. m.tam \in Nat /\ n \in Nat /\ m.tam <= n /\ n > 0
    <3>1. m \in Entradas /\ m.tam >= 0
      BY <1>1, <1>2, <2>1 DEF Sana
    <3>2. m.tam \in Int /\ TamActual(m) \in Int /\ m.tam <= TamActual(m)
      BY <3>1, TamMenor
    <3> QED
      BY <1>1, <3>1, <3>2
  <2>6. u + n <= N
    <3> DEFINE nuevo == get_init_block_file(resto.bitmap, n)
    <3>1. nuevo # -1
      BY <1>8, <2>4, <2>5
    <3>2. nuevo \in Bits /\ nuevo + n <= N /\ \A b \in nuevo .. nuevo + n - 1 : ~resto.bitmap[b]
      BY <3>1, HuecoLibre
    <3> HIDE DEF nuevo
    <3>3. nuevo \in Int /\ nuevo \in nuevo .. nuevo + n - 1
      BY <2>5, <3>2, DialAssumption DEF Bits
    <3>4. ~(nuevo < u)
      BY <2>3, <3>2, <3>3 DEF Intactos, Prefijo
    <3> QED
      BY <2>5, <3>2, <3>3, <3>4, DialAssumption
  <2>7. /\ Intactos(fin, P, u + n)
        /\ (m.tam > 0 => u <= m.init) => Intactos(fin, P \cup {f}, u + n)
    <3>1. m.tam > 0 => m.init \in Nat /\ m.init + m.tam <= N
      BY <1>2, <2>1, EnBits
    <3>2. m.tam \in 0 .. n /\ resto.metadata[f] = m
      BY <1>5, <1>6, <2>5
    <3> QED
      BY <1>2, <1>5, <1>6, <2>2, <2>3, <2>5, <2>6, <3>1, <3>2, PasoIntacto
  <2>8. f \notin danado' /\ m.tam > 0 => u <= m.init
    <3> SUFFICES ASSUME f \notin danado', m.tam > 0 PROVE u <= m.init
      OBVIOUS
    <3>1. \A b \in Bits : resto.bitmap[b] => ~(b >= m.init)
      BY <1>4
    <3>2. m.init \in Nat /\ m.init \in Bits
      <4>1. m.init \in Nat /\ m.init + m.tam <= N
        BY <1>2, <2>1, EnBits
      <4> QED
        BY <2>5, <4>1, DialAssumption DEF Bits
    <3>3. ~resto.bitmap[m.init]
      BY <3>1, <3>2
    <3>4. ~(m.init < u)
      BY <2>3, <3>2, <3>3 DEF Intactos, Prefijo
    <3> QED
      BY <3>2, <3>4
  <2> HIDE DEF fin
  <2>9. \A g \in P \cup {f} : g \in Archivos \ danado' => Intactos(fin, {g}, u + n)
    <3>1. ASSUME NEW g \in P PROVE Intactos(fin, {g}, u + n)
      BY <2>7 DEF Intactos
    <3>2. ASSUME f \notin danado' PROVE Intactos(fin, {f}, u + n)
      BY <2>7, <2>8, <3>2 DEF Intactos
    <3> QED
      BY <3>1, <3>2
  <2>10. ASSUME NEW g \in Archivos, NEW o \in escrito[g]
         PROVE  g \in P \cup {f} /\ o \in Nat /\ o < metadata[g].tam * BlockSize
    <3>1. o \in Nat /\ o < metadata[g].tam * BlockSize
      BY <1>2, <2>1, <2>10 DEF Dentro
    <3>2. metadata[g].tam > 0
      BY <1>2, <2>1, <2>10, Posicion
    <3>3. metadata[g] # NoExiste
      BY <3>2 DEF NoExiste
    <3> QED
      BY <1>5, <3>1, <3>3
  <2>11. ASSUME NEW g \in Archivos, NEW o \in escrito[g]
         PROVE  o < metadata'[g].tam * BlockSize
    <3>1. g \in P \cup {f} /\ o \in Nat /\ o < metadata[g].tam * BlockSize
      BY <2>10, <2>11
    <3>2. CASE g = f
      <4>1. metadata'[g].tam = n
        BY <1>4, <1>8, <3>2
      <4>2. m.tam * BlockSize <= n * BlockSize
        BY <2>5, Crece
      <4>3. m.tam * BlockSize \in Int
        <5>1. m.tam \in Int
          BY <2>5
        <5> QED
          BY <5>1, Reparte
      <4>4. n * BlockSize \in Int
        BY Reparte
      <4> QED
        BY <3>1, <3>2, <4>1, <4>2, <4>3, <4>4
    <3>3. CASE g # f
      BY <1>4, <1>8, <2>2, <3>1, <3>3
    <3> QED
      BY <3>2, <3>3
  <2>12. ASSUME NEW g \in Archivos \ danado', NEW o \in escrito[g]
         PROVE  bloques'[metadata'[g].init * BlockSize + o] = <<g, o>>
    <3>1. g \in P \cup {f} /\ o \in Nat /\ o < metadata[g].tam * BlockSize
      BY <2>10, <2>12
    <3>2. bloques[metadata[g].init * BlockSize + o] = <<g, o>>
      <4>1. g \notin danado
        BY <1>4, <2>12
      <4> QED
        BY <2>1, <2>12, <4>1 DEF Contenido
    <3>3. Intactos(fin, {g}, u + n)
      BY <2>9, <3>1
    <3>4. fin.bloques[fin.metadata[g].init * BlockSize + o]
            = bloques[metadata[g].init * BlockSize + o]
      BY <3>1, <3>3 DEF Intactos
    <3> QED
      BY <1>4, <3>2, <3>4
  <2> QED
    BY <1>1, <2>11, <2>12 DEF Dentro, Contenido
<1>10. Escribiendo' /\ operacion'.nombre \in Mueve
  BY <1>1 DEF Escribiendo, Mueve
<1>11. escrito' \in [Archivos -> SUBSET Nat] /\ danado \ danado' = {}
  BY <1>1, <1>2, <1>4
<1> QED
  BY <1>1, <1>7, <1>9, <1>10, <1>11, ContCambia

-----------------------------------------------------------------------------
(* Saves, stops and the theorem.                                           *)

\* After the last save disk and memory are the same, and what was written
\* counts; before it the save takes to the disk the only thing that changed.
LEMMA ContGuarda == ASSUME DialInv, CabeInv, ContInv, Guarda PROVE ContInv'
<1>1. /\ UNCHANGED <<bitmap, metadata, bloques, danado, seguro>>
      /\ d_bloques' = bloques \/ d_bloques' = d_bloques
      /\ \/ d_metadata' = d_metadata
         \/ \E x \in Archivos : d_metadata' = [d_metadata EXCEPT ![x] = metadata[x]]
  BY DEF Guarda, memoria
<1>2. /\ metadata \in [Archivos -> Entradas] /\ d_metadata \in [Archivos -> Entradas]
      /\ escrito \in [Archivos -> SUBSET Nat] /\ HayBytes(bloques) /\ HayBytes(d_bloques)
      /\ pendientes \in Seq(Archivos \cup {"bitmap", "bloques"}) /\ pendientes # <<>>
  BY DEF DialInv, TipoDisco, ContInv, Guarda
<1>3. HayBytes(bloques)' /\ HayBytes(d_bloques)'
  BY <1>1, <1>2 DEF HayBytes
<1>4. CASE Len(pendientes) = 1
  <2>1. /\ operacion' = Reposo /\ pendientes' = Tail(pendientes)
        /\ escrito' = [f \in Archivos |-> escrito[f] \cup
              {o \in {operacion.byte} : /\ operacion.nombre = "escribir"
                                        /\ operacion.archivo = f
                                        /\ o < metadata[f].tam * BlockSize}]
    BY <1>4 DEF Guarda
  <2>2. pendientes' = <<>>
    <3>1. Len(Tail(pendientes)) = 0 /\ Tail(pendientes) \in Seq(Archivos \cup {"bitmap", "bloques"})
      BY <1>2, <1>4
    <3> QED
      BY <2>1, <3>1, EmptySeq
  <2>3. d_metadata' = metadata' /\ d_bloques' = bloques'
    <3>1. TipoDisco' /\ AlDia'
      BY GuardaBien DEF DialInv
    <3>2. \A x : ~Pendiente(x)'
      BY <2>2 DEF Pendiente
    <3>3. d_bloques' = bloques' /\ \A g \in Archivos : d_metadata'[g] = metadata'[g]
      BY <3>1, <3>2 DEF AlDia
    <3> QED
      BY <3>1, <3>3 DEF TipoDisco
  <2>4. ASSUME NEW f \in Archivos, NEW o \in escrito'[f]
        PROVE  \/ o \in escrito[f]
               \/ /\ o \in Nat /\ o < metadata[f].tam * BlockSize
                  /\ bloques[metadata[f].init * BlockSize + o] = <<f, o>>
    <3>1. \/ o \in escrito[f]
          \/ /\ o = operacion.byte /\ operacion.nombre = "escribir" /\ operacion.archivo = f
             /\ o < metadata[f].tam * BlockSize
      BY <2>1, <2>4
    <3> QED
      BY <3>1 DEF ContInv, Escribiendo
  <2>5. escrito' \in [Archivos -> SUBSET Nat]
    <3>1. escrito' = [f \in Archivos |-> escrito'[f]]
      BY <2>1
    <3>2. \A f \in Archivos : escrito'[f] \subseteq Nat
      BY <1>2, <2>4
    <3> QED
      BY <3>1, <3>2
  <2>6. ASSUME seguro PROVE Dentro(metadata)' /\ Contenido(bloques, metadata)'
    <3>1. Dentro(metadata) /\ Contenido(bloques, metadata)
      BY <2>6 DEF ContInv
    <3> QED
      BY <1>1, <2>4, <3>1 DEF Dentro, Contenido
  <2>7. ASSUME seguro PROVE Dentro(d_metadata)' /\ Contenido(d_bloques, d_metadata)'
    BY <2>3, <2>6, <2>7 DEF Dentro, Contenido
  <2>8. Reposo.nombre = ""
    BY DEF Reposo
  <2>9. Escribiendo'
    BY <2>1, <2>8 DEF Escribiendo
  <2> QED
    BY <1>1, <1>3, <2>3, <2>5, <2>6, <2>7, <2>9 DEF ContInv
<1>5. CASE Len(pendientes) # 1
  <2>1. operacion' = operacion /\ escrito' = escrito
    BY <1>5 DEF Guarda
  <2>2. seguro => Dentro(metadata)' /\ Contenido(bloques, metadata)'
    BY <1>1, <2>1 DEF ContInv, Dentro, Contenido
  <2>3. Escribiendo'
    BY <1>1, <2>1 DEF ContInv, Escribiendo
  <2>4. ASSUME seguro, operacion.nombre \notin Mueve
        PROVE  /\ Dentro(d_metadata)' /\ Contenido(d_bloques, d_metadata)'
               /\ d_bloques' = bloques \/ d_metadata' = metadata
    <3>1. /\ Dentro(metadata) /\ Contenido(bloques, metadata)
          /\ Dentro(d_metadata) /\ Contenido(d_bloques, d_metadata)
          /\ d_bloques = bloques \/ d_metadata = metadata
      BY <2>4 DEF ContInv
    <3>2. \A f \in Archivos : d_metadata'[f] = d_metadata[f] \/ d_metadata'[f] = metadata[f]
      BY <1>1, <1>2
    <3>3. d_metadata = metadata => d_metadata' = metadata
      BY <1>1, <1>2
    <3>4. \A f \in Archivos : \A o \in escrito[f] : o < d_metadata'[f].tam * BlockSize
      BY <3>1, <3>2 DEF Dentro
    <3>5. ASSUME NEW f \in Archivos \ danado, NEW o \in escrito[f]
          PROVE  d_bloques'[d_metadata'[f].init * BlockSize + o] = <<f, o>>
      <4>1. /\ bloques[metadata[f].init * BlockSize + o] = <<f, o>>
            /\ d_bloques[d_metadata[f].init * BlockSize + o] = <<f, o>>
        BY <3>1, <3>5 DEF Contenido
      <4>2. CASE d_bloques = bloques
        BY <1>1, <3>2, <4>1, <4>2
      <4>3. CASE d_metadata = metadata
        BY <1>1, <3>3, <4>1, <4>3
      <4> QED
        BY <3>1, <4>2, <4>3
    <3> QED
      BY <1>1, <2>1, <3>1, <3>3, <3>4, <3>5 DEF Dentro, Contenido
  <2> QED
    BY <1>1, <1>2, <1>3, <2>1, <2>2, <2>3, <2>4 DEF ContInv
<1> QED
  BY <1>4, <1>5

\* A stop takes memory back to the disk; one in a relocation or a compaction
\* exposes files.
LEMMA ContCorta == ASSUME DialInv, CabeInv, ContInv, CortaYReinicia PROVE ContInv'
<1>1. /\ metadata' = d_metadata /\ bloques' = d_bloques /\ UNCHANGED disco
      /\ operacion' = Reposo /\ escrito' = escrito /\ danado' = danado
  BY DEF CortaYReinicia
<1>2. seguro' => seguro /\ expuestos' = {}
  BY Zenon DEF CortaYReinicia
<1>3. expuestos' = expuestos \cup
            (CASE operacion.nombre \in {"crear", "reubicar"} -> {operacion.archivo}
               [] operacion.nombre = "compactar" -> Archivos
               [] OTHER -> {})
  BY DEF CortaYReinicia
<1>4. ASSUME seguro' PROVE Dentro(d_metadata) /\ Contenido(d_bloques, d_metadata)
  <2>1. CASE operacion.nombre \notin Mueve
    BY <1>2, <1>4, <2>1 DEF ContInv
  <2>2. operacion.nombre # "reubicar"
    BY <1>2, <1>3, <1>4
  <2>3. operacion.nombre = "compactar" => Archivos = {}
    BY <1>2, <1>3, <1>4
  <2>4. CASE Archivos = {}
    BY <2>4 DEF Dentro, Contenido
  <2> QED
    BY <2>1, <2>2, <2>3, <2>4 DEF Mueve
<1>5. /\ seguro' => Dentro(metadata)' /\ Contenido(bloques, metadata)'
      /\ seguro' => Dentro(d_metadata)' /\ Contenido(d_bloques, d_metadata)'
  BY <1>1, <1>4 DEF Dentro, Contenido, disco
<1>6. Reposo.nombre = ""
  BY DEF Reposo
<1>7. Escribiendo'
  BY <1>1, <1>6 DEF Escribiendo
<1>8. HayBytes(bloques)' /\ HayBytes(d_bloques)' /\ d_bloques' = bloques'
  BY <1>1 DEF ContInv, HayBytes, disco
<1>9. escrito' \in [Archivos -> SUBSET Nat]
  BY <1>1 DEF ContInv
<1> QED
  BY <1>5, <1>7, <1>8, <1>9 DEF ContInv

\* Every step keeps the contents.
LEMMA ContPaso == ASSUME DialInv, CabeInv, ContInv, [Next]_vars PROVE ContInv'
<1>1. ASSUME UNCHANGED <<memoria, disco, pendientes, operacion, ghosts>> PROVE ContInv'
  BY <1>1, ZenonT(90) DEF memoria, disco, ghosts, ContInv, HayBytes, Dentro, Contenido, Escribiendo
<1>2. CASE UNCHANGED vars
  BY <1>1, <1>2 DEF vars
<1>3. ASSUME NEW f \in Archivos, NEW ptr, EscribeFuera(f, ptr) PROVE ContInv'
  BY <1>1, <1>3 DEF EscribeFuera
<1>4. Tamanios \subseteq Int /\ Punteros \subseteq Nat
  BY DialAssumption
<1> QED
  BY <1>2, <1>3, <1>4, ContGuarda, ContCorta, ContCrea, ContBorra, ContEscribe, ContIgual,
     ContMenos, ContContiguo, ContReubica, ContCompacta, SMTT(60) DEF Next

\* The contents are kept in every behaviour.
LEMMA ContSiempre == Spec => []ContInv
<1>1. Init => ContInv
  <2> SUFFICES ASSUME Init PROVE ContInv
    OBVIOUS
  <2>1. Reposo.nombre = ""
    BY DEF Reposo
  <2>2. /\ bloques = [b \in Bytes |-> Vacio] /\ d_bloques = bloques /\ d_metadata = metadata
        /\ escrito = [f \in Archivos |-> {}] /\ operacion = Reposo
    BY DEF Init
  <2> QED
    BY <2>1, <2>2 DEF ContInv, HayBytes, Dentro, Contenido, Escribiendo
<1>2. DialInv /\ CabeInv /\ ContInv /\ [Next]_vars => ContInv'
  BY ContPaso
<1> QED
  BY <1>1, <1>2, DialSiempre, CabeSiempre, PTL DEF Spec

\* Unless a stop or a negative size exposed a file, the bytes written to a
\* file are where its metadata says: no creation, deletion, truncation or
\* compaction of any file, nor a write within the sizes, changes them, and a
\* stop between saves brings them back.  A relocation and a write past the
\* end are the exceptions danado records.
THEOREM ContenidoSiempreIntacto == Spec => []ContenidoIntacto
<1>1. ContInv => ContenidoIntacto
  BY DEF ContInv, Contenido, ContenidoIntacto
<1> QED
  BY <1>1, ContSiempre, PTL

-----------------------------------------------------------------------------
(* Types.                                                                  *)

\* What a metadata file may hold, and that a file with blocks has a first one.
TipoEntrada == {m \in [init : -1 .. N - 1, tam : (-1 .. N) \cup Tamanios] : m.init + m.tam <= N}
ConInicio(md) == \A f \in Archivos : md[f].init = -1 => md[f].tam <= 0

\* An entry is two integers, whose run of blocks ends in the disk.
LEMMA EntradaBien ==
    ASSUME NEW m \in TipoEntrada
    PROVE  /\ m \in Entradas /\ m.init \in -1 .. N - 1 /\ m.tam \in (-1 .. N) \cup Tamanios
           /\ m.init \in Int /\ m.tam \in Int /\ m.init + m.tam <= N
<1>1. /\ m \in [init : -1 .. N - 1, tam : (-1 .. N) \cup Tamanios] /\ m.init + m.tam <= N
  BY DEF TipoEntrada
<1>2. m.init \in Int /\ m.tam \in Int
  <2>1. m.init \in -1 .. N - 1 /\ m.tam \in (-1 .. N) \cup Tamanios
    BY <1>1
  <2>2. Tamanios \subseteq Int /\ N \in Nat
    BY DialAssumption
  <2>3. m.init \in Int
    BY <2>1
  <2>4. m.tam \in Int
    <3> DEFINE t == m.tam
    <3>1. t \in -1 .. N \/ t \in Tamanios
      BY <2>1
    <3> HIDE DEF t
    <3>2. t \in -1 .. N => t \in Int
      OBVIOUS
    <3>3. t \in Int
      BY <2>2, <3>1, <3>2, Zenon
    <3> QED
      BY <3>3 DEF t
  <2> QED
    BY <2>3, <2>4
<1>3. m \in Entradas
  BY <1>1, <1>2 DEF Entradas
<1> QED
  BY <1>1, <1>2, <1>3

\* An entry with a first block and a size in range.
LEMMA EntradaDe ==
    ASSUME NEW i \in -1 .. N - 1, NEW t \in (-1 .. N) \cup Tamanios, i + t <= N
    PROVE  [init |-> i, tam |-> t] \in TipoEntrada
BY DEF TipoEntrada

\* memcpy within the blocks.
LEMMA CopiaTipo ==
    ASSUME NEW datos \in TipoBloques, NEW de \in Int, NEW a \in Int, NEW n \in Int,
           n > 0 => de >= 0 /\ de + n <= N * BlockSize
    PROVE  Copia(datos, de, a, n) \in TipoBloques
<1>1. N * BlockSize \in Int
  BY Reparte, DialAssumption
<1>2. ASSUME NEW b \in Bytes, b \in a .. a + n - 1 PROVE b - a + de \in Bytes
  <2>1. b \in Int /\ n > 0 /\ b >= a /\ b <= a + n - 1
    BY <1>2
  <2>2. b - a + de >= 0 /\ b - a + de <= N * BlockSize - 1
    BY <1>1, <2>1
  <2> QED
    BY <2>1, <2>2 DEF Bytes
<1> QED
  BY <1>2 DEF Copia, TipoBloques

\* The bytes of a run of blocks of the disk.
LEMMA TramoEnDisco ==
    ASSUME NEW i \in Nat, NEW t \in Int, i + t <= N
    PROVE  /\ i * BlockSize \in Int /\ t * BlockSize \in Int
           /\ i * BlockSize >= i
           /\ i * BlockSize + t * BlockSize <= N * BlockSize
           /\ i + t * BlockSize <= N * BlockSize
<1>1. i * BlockSize \in Int /\ (i + t) * BlockSize = i * BlockSize + t * BlockSize
  <2>1. i \in Int
    OBVIOUS
  <2> QED
    BY <2>1, Reparte
<1>2. t * BlockSize \in Int
  BY Reparte
<1>3. N \in Int /\ N * BlockSize \in Int
  <2>1. N \in Int
    BY DialAssumption
  <2> QED
    BY <2>1, Reparte
<1>4. (i + t) * BlockSize <= N * BlockSize
  <2>1. i + t \in Int
    OBVIOUS
  <2> QED
    BY <1>3, <2>1, Crece
<1>5. i * BlockSize >= i
  BY DialAssumption
<1> QED
  BY <1>1, <1>2, <1>3, <1>4, <1>5

\* The ghosts, the flags and the file of the operation under way.
FantasmasOK ==
    /\ danado \subseteq Archivos /\ expuestos \subseteq Archivos
    /\ escrituras \in 0 .. MaxEscrituras /\ percances \in 0 .. MaxPercances
    /\ seguro \in BOOLEAN /\ caido \in BOOLEAN
    /\ operacion.nombre # "" => operacion.archivo \in Archivos

\* Every step keeps them.
LEMMA TipoFantasmas == ASSUME FantasmasOK, [Next]_vars PROVE FantasmasOK'
<1>n. MaxEscrituras \in Nat /\ MaxPercances \in Nat /\ Tamanios \subseteq Int
  BY DialAssumption
<1>u. /\ \A k \in 0 .. MaxPercances : k < MaxPercances => k + 1 \in 0 .. MaxPercances
      /\ \A k \in 0 .. MaxEscrituras : k < MaxEscrituras => k + 1 \in 0 .. MaxEscrituras
  BY <1>n
<1>r. Reposo.nombre = ""
  BY DEF Reposo
<1>1. ASSUME UNCHANGED <<danado, expuestos, escrituras, percances, seguro, caido>>,
             operacion' = operacion \/ operacion' = Reposo
      PROVE  FantasmasOK'
  BY <1>r, <1>1 DEF FantasmasOK
<1>2. CASE UNCHANGED vars
  BY <1>1, <1>2 DEF vars, ghosts
<1>3. CASE Guarda
  BY <1>1, <1>3 DEF Guarda
<1>4. CASE CortaYReinicia
  <2>1. /\ percances < MaxPercances /\ percances' = percances + 1 /\ operacion' = Reposo
        /\ UNCHANGED <<danado, escrituras, caido>>
    BY <1>4 DEF CortaYReinicia
  <2>2. expuestos' = expuestos \cup
            (CASE operacion.nombre \in {"crear", "reubicar"} -> {operacion.archivo}
               [] operacion.nombre = "compactar" -> Archivos
               [] OTHER -> {})
    BY <1>4 DEF CortaYReinicia
  <2>3. expuestos' \subseteq Archivos
    BY <2>2 DEF FantasmasOK
  <2>4. seguro' \in BOOLEAN
    BY <1>4, Zenon DEF CortaYReinicia
  <2>5. percances' \in 0 .. MaxPercances
    BY <1>u, <2>1 DEF FantasmasOK
  <2> QED
    BY <1>r, <2>1, <2>3, <2>4, <2>5 DEF FantasmasOK
<1>5. ASSUME NEW f \in Archivos, NEW nombre, NEW byte, NEW saves, Empieza(nombre, f, byte, saves),
             UNCHANGED <<percances, seguro>>, danado' \subseteq Archivos,
             expuestos' \subseteq Archivos, caido' \in BOOLEAN, escrituras' \in 0 .. MaxEscrituras
      PROVE  FantasmasOK'
  BY <1>5 DEF Empieza, FantasmasOK
<1>6. ASSUME NEW f \in Archivos, fs_create_file(f) PROVE FantasmasOK'
  BY <1>5, <1>6 DEF fs_create_file, Sano, FantasmasOK
<1>7. ASSUME NEW f, NEW liberados, Arrastra(f, liberados), f \in Archivos
      PROVE  expuestos' \subseteq Archivos
  BY <1>7 DEF Arrastra, FantasmasOK
<1>8. ASSUME NEW f \in Archivos, fs_delete_file(f) PROVE FantasmasOK'
  <2>1. expuestos' \subseteq Archivos
    BY <1>7, <1>8 DEF fs_delete_file, FantasmasOK
  <2>2. danado' \subseteq Archivos /\ escrituras' = escrituras /\ caido' = caido
        /\ UNCHANGED <<percances, seguro>> /\ Empieza("borrar", f, 0, <<f, "bitmap">>)
    BY <1>8 DEF fs_delete_file, FantasmasOK
  <2> QED
    BY <1>5, <2>1, <2>2 DEF FantasmasOK
<1>9. ASSUME NEW f \in Archivos, NEW ptr, fs_write_file(f, ptr) PROVE FantasmasOK'
  <2>1. /\ danado' \subseteq danado \cup Archivos
        /\ escrituras < MaxEscrituras /\ escrituras' = escrituras + 1
        /\ Empieza("escribir", f, ptr, <<"bloques">>) /\ Sano
    BY <1>9 DEF fs_write_file
  <2>2. escrituras' \in 0 .. MaxEscrituras
    BY <1>u, <2>1 DEF FantasmasOK
  <2> QED
    BY <1>5, <2>1, <2>2 DEF Sano, FantasmasOK
<1>10. ASSUME NEW f \in Archivos, NEW ptr, EscribeFuera(f, ptr) PROVE FantasmasOK'
  BY <1>10 DEF EscribeFuera, ghosts, FantasmasOK
<1>11. ASSUME NEW f \in Archivos, NEW n \in Int, TruncaIgual(f, n) PROVE FantasmasOK'
  BY <1>5, <1>11 DEF TruncaIgual, Sano, FantasmasOK
<1>12. ASSUME NEW f \in Archivos, NEW n \in Int, TruncaMenos(f, n) PROVE FantasmasOK'
  <2>1. /\ n < 0 => percances < MaxPercances
        /\ IF n < 0 THEN percances' = percances + 1 ELSE percances' = percances
        /\ UNCHANGED <<danado, escrituras>> /\ Empieza("truncar", f, 0, <<f, "bitmap">>)
    BY <1>12 DEF TruncaMenos
  <2>2. expuestos' \subseteq Archivos
    BY <1>7, <1>12 DEF TruncaMenos, FantasmasOK
  <2>3. seguro' \in BOOLEAN /\ caido' \in BOOLEAN
    BY <1>12, Zenon DEF TruncaMenos
  <2>4. percances' \in 0 .. MaxPercances
    BY <1>u, <2>1 DEF FantasmasOK
  <2> QED
    BY <2>1, <2>2, <2>3, <2>4 DEF Empieza, FantasmasOK
<1>13. ASSUME NEW f \in Archivos, NEW n \in Int, TruncaContiguo(f, n) PROVE FantasmasOK'
  BY <1>5, <1>13 DEF TruncaContiguo, Sano, FantasmasOK
<1>14. ASSUME NEW f \in Archivos, NEW n \in Int, TruncaReubica(f, n) PROVE FantasmasOK'
  <2>1. /\ escrituras' = escrituras /\ UNCHANGED <<percances, seguro>>
        /\ Empieza("reubicar", f, 0, <<"bloques", "bitmap", f>>)
        /\ danado' \subseteq danado \cup Archivos
    BY <1>14 DEF TruncaReubica
  <2>2. expuestos' \subseteq Archivos
    BY <1>7, <1>14 DEF TruncaReubica, FantasmasOK
  <2>3. caido' \in BOOLEAN
    <3>1. PICK usados : caido' = (usados < 0)
      BY <1>14 DEF TruncaReubica
    <3>2. (usados < 0) \in BOOLEAN
      OBVIOUS
    <3> QED
      BY <3>1, <3>2, Zenon
  <2> QED
    BY <1>5, <2>1, <2>2, <2>3 DEF FantasmasOK
<1>15. ASSUME NEW f \in Archivos, NEW n \in Int, TruncaCompacta(f, n) PROVE FantasmasOK'
  <2>1. /\ escrituras' = escrituras /\ UNCHANGED <<percances, seguro>> /\ expuestos' = {}
        /\ operacion' = [nombre |-> "compactar", archivo |-> f, byte |-> 0]
        /\ danado' \subseteq danado \cup Archivos
    BY <1>15 DEF TruncaCompacta
  <2>2. caido' \in BOOLEAN
    <3>1. PICK acc : caido' = realocate_compactacion(acc, f, n).falla
      BY <1>15 DEF TruncaCompacta
    <3>2. realocate_compactacion(acc, f, n).falla \in BOOLEAN
      BY DEF realocate_compactacion
    <3> QED
      BY <3>1, <3>2
  <2> QED
    BY <2>1, <2>2 DEF FantasmasOK
<1> QED
  BY <1>n, <1>2, <1>3, <1>4, <1>6, <1>8, <1>9, <1>10, <1>11, <1>12, <1>13, <1>14, <1>15 DEF Next

-----------------------------------------------------------------------------
(* Types of the metadata and the blocks.                                   *)

\* The types of what is kept, in memory and saved; while no block outside the
\* disk was touched a file without a first block has no size.
DatosOK ==
    /\ metadata \in TipoMetadata /\ d_metadata \in TipoMetadata
    /\ bloques \in TipoBloques /\ d_bloques \in TipoBloques
    /\ ~caido => ConInicio(metadata) /\ ConInicio(d_metadata)

\* The metadata is an entry for each file.
LEMMA MetadataEntradas == TipoMetadata = [Archivos -> TipoEntrada]
BY DEF TipoMetadata, TipoEntrada

\* The entry of a file before an operation.
LEMMA EntradaAntes ==
    ASSUME DatosOK, Libre, NEW f \in Archivos
    PROVE  LET m == metadata[f] IN
           /\ m \in TipoEntrada /\ m \in Entradas
           /\ m.init \in -1 .. N - 1 /\ m.init \in Int /\ N \in Nat
           /\ m.tam \in (-1 .. N) \cup Tamanios /\ m.tam \in Int
           /\ TamActual(m) \in Int /\ m.init + TamActual(m) <= N
           /\ m.init = -1 => TamActual(m) <= 0
<1> DEFINE m == metadata[f]
<1>1. m \in TipoEntrada /\ m \in Entradas /\ m.init \in -1 .. N - 1 /\ m.init \in Int /\ N \in Nat
      /\ m.tam \in (-1 .. N) \cup Tamanios /\ m.tam \in Int /\ m.init + m.tam <= N
  <2>1. m \in TipoEntrada
    BY MetadataEntradas DEF DatosOK
  <2> HIDE DEF m
  <2> QED
    BY <2>1, EntradaBien, DialAssumption
<1>2. m.init = -1 => m.tam <= 0
  BY DEF DatosOK, Libre, ConInicio
<1> HIDE DEF m
<1>3. TamActual(m) \in Int /\ m.init + TamActual(m) <= N /\ (m.init = -1 => TamActual(m) <= 0)
  BY <1>1, <1>2 DEF TamActual
<1> QED
  BY <1>1, <1>3 DEF m

\* An operation that changes the entry of f.
LEMMA TipoCambia ==
    ASSUME DatosOK, Libre, AlDia, TipoDisco, UNCHANGED disco, NEW f \in Archivos,
           NEW i \in -1 .. N - 1, NEW t \in (-1 .. N) \cup Tamanios, i + t <= N,
           metadata' = [metadata EXCEPT ![f] = [init |-> i, tam |-> t]],
           i = -1 => t <= 0, bloques' \in TipoBloques
    PROVE  DatosOK'
<1>1. d_metadata = metadata /\ d_bloques = bloques /\ ~caido
  BY LibreIgual DEF Libre
<1>2. d_metadata' = d_metadata /\ d_bloques' = d_bloques
  BY DEF disco
<1>3. metadata \in [Archivos -> TipoEntrada] /\ [init |-> i, tam |-> t] \in TipoEntrada
  BY MetadataEntradas, EntradaDe DEF DatosOK
<1>4. /\ metadata' \in [Archivos -> TipoEntrada] /\ metadata'[f] = [init |-> i, tam |-> t]
      /\ \A g \in Archivos \ {f} : metadata'[g] = metadata[g]
  BY <1>3
<1>5. ConInicio(metadata) /\ ConInicio(d_metadata)
  BY <1>1 DEF DatosOK
<1>6. ConInicio(metadata')
  BY <1>4, <1>5 DEF ConInicio
<1>7. metadata' \in TipoMetadata
  BY <1>4, MetadataEntradas
<1>8. ConInicio(d_metadata')
  BY <1>2, <1>5
<1> QED
  BY <1>2, <1>6, <1>7, <1>8 DEF DatosOK, ConInicio

\* The truncations that keep the first block.
LEMMA SoloTam ==
    ASSUME DatosOK, Libre, NEW f \in Archivos, NEW n,
           metadata' = [metadata EXCEPT ![f].tam = n]
    PROVE  metadata' = [metadata EXCEPT ![f] = [init |-> metadata[f].init, tam |-> n]]
<1>1. metadata[f] \in [init : Int, tam : Int]
  BY EntradaAntes DEF Entradas
<1>2. [metadata[f] EXCEPT !.tam = n] = [init |-> metadata[f].init, tam |-> n]
  BY <1>1
<1> QED
  BY <1>2

\* The operations but the compaction.
LEMMA TipoCrea ==
    ASSUME DatosOK, DialInv, NEW f \in Archivos, fs_create_file(f) PROVE DatosOK'
<1> DEFINE b == get_init_block_file(bitmap, 1)
<1>1. /\ Libre /\ UNCHANGED <<disco, bloques>> /\ b # -1
      /\ metadata' = [metadata EXCEPT ![f] = [init |-> b, tam |-> 0]]
  BY DEF fs_create_file, Empieza
<1>2. b \in Bits /\ N \in Nat
  BY <1>1, HuecoLibre, DialAssumption
<1> HIDE DEF b
<1>3. b \in -1 .. N - 1 /\ 0 \in (-1 .. N) \cup Tamanios /\ b + 0 <= N /\ 0 <= 0
  BY <1>2 DEF Bits
<1>4. bloques' \in TipoBloques /\ UNCHANGED disco
  BY <1>1 DEF DatosOK
<1> QED
  BY <1>1, <1>3, <1>4, TipoCambia DEF DialInv

\* A deletion leaves the entry of no file.
LEMMA TipoBorra ==
    ASSUME DatosOK, DialInv, NEW f \in Archivos, fs_delete_file(f) PROVE DatosOK'
<1>1. /\ Libre /\ UNCHANGED <<disco, bloques>>
      /\ metadata' = [metadata EXCEPT ![f] = [init |-> -1, tam |-> -1]]
  BY DEF fs_delete_file, Empieza, NoExiste
<1>2. -1 \in -1 .. N - 1 /\ -1 \in (-1 .. N) \cup Tamanios /\ -1 + -1 <= N /\ -1 <= 0
  BY DialAssumption
<1>3. bloques' \in TipoBloques /\ UNCHANGED disco
  BY <1>1 DEF DatosOK
<1> QED
  BY <1>1, <1>2, <1>3, TipoCambia DEF DialInv

\* A write puts a byte of the file in a block.
LEMMA TipoEscribe ==
    ASSUME DatosOK, DialInv, NEW f \in Archivos, NEW ptr \in Nat, fs_write_file(f, ptr)
    PROVE  DatosOK'
<1> DEFINE b == metadata[f].init * BlockSize + ptr
<1>1. /\ UNCHANGED <<disco, metadata, caido>> /\ bloques' = [bloques EXCEPT ![b] = <<f, ptr>>]
  BY DEF fs_write_file, Empieza, Sano
<1> HIDE DEF b
<1>2. bloques' \in TipoBloques
  BY <1>1 DEF DatosOK, TipoBloques
<1> QED
  BY <1>1, <1>2 DEF DatosOK, disco, ConInicio

\* The size asked is the one there was, in blocks.
LEMMA TipoIgual ==
    ASSUME DatosOK, DialInv, NEW f \in Archivos, NEW n \in Int, n \in Tamanios, TruncaIgual(f, n)
    PROVE  DatosOK'
<1> DEFINE i == metadata[f].init
<1>1. /\ Libre /\ UNCHANGED <<disco, bloques>> /\ n = TamActual(metadata[f])
      /\ metadata' = [metadata EXCEPT ![f].tam = n]
  BY DEF TruncaIgual, Empieza
<1>2. metadata' = [metadata EXCEPT ![f] = [init |-> i, tam |-> n]]
  BY <1>1, SoloTam
<1>3. i \in -1 .. N - 1 /\ i + n <= N /\ (i = -1 => n <= 0)
  BY <1>1, EntradaAntes
<1>4. bloques' \in TipoBloques /\ UNCHANGED disco
  BY <1>1 DEF DatosOK
<1> HIDE DEF i
<1> QED
  BY <1>1, <1>2, <1>3, <1>4, TipoCambia DEF DialInv

\* A smaller size ends before.
LEMMA TipoMenos ==
    ASSUME DatosOK, DialInv, NEW f \in Archivos, NEW n \in Int, n \in Tamanios, TruncaMenos(f, n)
    PROVE  DatosOK'
<1> DEFINE m == metadata[f]
           i == IF n = 0 THEN -1 ELSE m.init
<1>1. /\ Libre /\ UNCHANGED <<disco, bloques>> /\ n < TamActual(m)
      /\ metadata' = [metadata EXCEPT ![f] = [init |-> i, tam |-> n]]
  BY DEF TruncaMenos, Empieza
<1>2. /\ m.init \in -1 .. N - 1 /\ m.init \in Int /\ N \in Nat /\ TamActual(m) \in Int
      /\ m.init + TamActual(m) <= N /\ (m.init = -1 => TamActual(m) <= 0)
  BY <1>1, EntradaAntes
<1>3. i \in -1 .. N - 1 /\ i + n <= N /\ (i = -1 => n <= 0)
  BY <1>1, <1>2
<1>4. bloques' \in TipoBloques /\ UNCHANGED disco
  BY <1>1 DEF DatosOK
<1> HIDE DEF i
<1> QED
  BY <1>1, <1>3, <1>4, TipoCambia DEF DialInv

\* The blocks that follow, free, are on the disk.
LEMMA TipoContiguo ==
    ASSUME DatosOK, DialInv, NEW f \in Archivos, NEW n \in Int, n \in Tamanios,
           TruncaContiguo(f, n)
    PROVE  DatosOK'
<1> DEFINE m == metadata[f]
           i == m.init
           t == TamActual(m)
<1>1. /\ Libre /\ UNCHANGED <<disco, bloques>> /\ n > t
      /\ metadata' = [metadata EXCEPT ![f].tam = n]
      /\ i + t >= 0 /\ \A b \in i + t .. (i + n) - 1 : b < N
  <2>1. check_space_contiguo(bitmap, i + t, i + n)
    BY DEF TruncaContiguo, Contiguo
  <2>2. i + t >= 0 /\ \A b \in i + t .. (i + n) - 1 : b < N
    BY <2>1, Zenon DEF check_space_contiguo
  <2> QED
    BY <2>2 DEF TruncaContiguo, Empieza
<1>2. metadata' = [metadata EXCEPT ![f] = [init |-> i, tam |-> n]]
  BY <1>1, SoloTam
<1>3. /\ i \in -1 .. N - 1 /\ i \in Int /\ N \in Nat /\ t \in Int /\ (i = -1 => t <= 0)
  BY <1>1, EntradaAntes
<1> HIDE DEF t, i, m
<1>4. (i + n) - 1 \in i + t .. (i + n) - 1
  BY <1>1, <1>3
<1>5. i + n <= N /\ i # -1
  BY <1>1, <1>3, <1>4
<1>6. bloques' \in TipoBloques /\ UNCHANGED disco
  BY <1>1 DEF DatosOK
<1> QED
  BY <1>1, <1>2, <1>3, <1>5, <1>6, TipoCambia DEF DialInv

\* The run found is on the disk, and so are the bytes copied.
LEMMA TipoReubica ==
    ASSUME DatosOK, DialInv, NEW f \in Archivos, NEW n \in Int, n \in Tamanios,
           TruncaReubica(f, n)
    PROVE  DatosOK'
<1> DEFINE m == metadata[f]
           i == m.init
           t == TamActual(m)
           nuevo == get_init_block_file(bitmap, n)
           usados == t * BlockSize
<1>1. /\ Libre /\ UNCHANGED disco /\ nuevo # -1
      /\ metadata' = [metadata EXCEPT ![f] = [init |-> nuevo, tam |-> n]]
      /\ bloques' = Copia(bloques, i, nuevo, usados)
  <2>1. nuevo > -1 /\ -1 \in Int
    BY DEF TruncaReubica
  <2>2. nuevo # -1
    BY <2>1
  <2> QED
    BY <2>2 DEF TruncaReubica, Empieza, realocate_data
<1>2. /\ i \in -1 .. N - 1 /\ i \in Int /\ N \in Nat /\ t \in Int /\ i + t <= N
      /\ (i = -1 => t <= 0)
  BY <1>1, EntradaAntes
<1>3. nuevo \in Bits /\ nuevo + n <= N
  BY <1>1, HuecoLibre
<1> HIDE DEF nuevo, t, i, m
<1>4. nuevo \in -1 .. N - 1 /\ nuevo \in Int /\ nuevo # -1
  BY <1>2, <1>3 DEF Bits
<1>5. usados \in Int
  BY <1>2, Reparte
<1>6. usados > 0 => i >= 0 /\ i + usados <= N * BlockSize
  <2>1. CASE i = -1
    <3>1. t * BlockSize <= 0 * BlockSize
      BY <1>2, <2>1, Crece
    <3> QED
      BY <1>5, <3>1, Ceros
  <2>2. CASE i # -1
    <3>1. i \in Nat
      BY <1>2, <2>2
    <3> QED
      BY <1>2, <3>1, TramoEnDisco
  <2> QED
    BY <2>1, <2>2
<1> HIDE DEF usados
<1>7. bloques' \in TipoBloques
  <2>1. bloques \in TipoBloques
    BY DEF DatosOK
  <2> QED
    BY <1>1, <1>2, <1>4, <1>5, <1>6, <2>1, CopiaTipo
<1>8. TipoDisco /\ AlDia /\ n \in (-1 .. N) \cup Tamanios
  BY DEF DialInv
<1> QED
  BY <1>1, <1>3, <1>4, <1>7, <1>8, TipoCambia

\* A step of the compaction keeps the types, and gives blocks to a file of
\* some size or fails.
LEMMA PasoTipo ==
    ASSUME NEW acc, NEW f \in Archivos, NEW tam \in (-1 .. N) \cup Tamanios, tam <= N + 1,
           acc.bitmap \in [Bits -> BOOLEAN], acc.metadata \in [Archivos -> TipoEntrada],
           acc.bloques \in TipoBloques,
           acc.metadata[f].init = -1 => acc.metadata[f].tam <= 0
    PROVE  LET s == realocate_compactacion(acc, f, tam) IN
           /\ s.metadata \in [Archivos -> TipoEntrada] /\ s.bloques \in TipoBloques
           /\ \A g \in Archivos \ {f} : s.metadata[g] = acc.metadata[g]
           /\ ~s.falla => ~acc.falla /\ (s.metadata[f].init = -1 => s.metadata[f].tam <= 0)
<1> DEFINE nuevo == get_init_block_file(acc.bitmap, tam)
           m == acc.metadata[f]
           s == realocate_compactacion(acc, f, tam)
<1>1. /\ s.metadata = [acc.metadata EXCEPT ![f] = [init |-> nuevo, tam |-> tam]]
      /\ s.bloques = Copia(acc.bloques, m.init * BlockSize, nuevo * BlockSize, m.tam * BlockSize)
      /\ s.falla <=> (acc.falla \/ (nuevo = -1 /\ tam > 0) \/ m.tam < 0)
  BY DEF realocate_compactacion
<1>2. m \in TipoEntrada /\ (m.init = -1 => m.tam <= 0)
  OBVIOUS
<1> HIDE DEF m
<1>3. m.init \in -1 .. N - 1 /\ m.init \in Int /\ m.tam \in Int /\ m.init + m.tam <= N
  BY <1>2, EntradaBien
<1>4. tam \in Int /\ N \in Nat
  <2>1. tam \in -1 .. N => tam \in Int
    OBVIOUS
  <2>2. tam \in Tamanios => tam \in Int
    BY DialAssumption
  <2> QED
    BY <2>1, <2>2, DialAssumption
<1>5. nuevo \in -1 .. N - 1 /\ nuevo + tam <= N /\ nuevo \in Int
  <2>1. CASE nuevo = -1
    BY <1>4, <2>1
  <2>2. CASE nuevo # -1
    <3>1. nuevo \in Bits /\ nuevo + tam <= N
      BY <1>4, <2>2, HuecoLibre
    <3> QED
      BY <1>4, <3>1 DEF Bits
  <2> QED
    BY <2>1, <2>2
<1> HIDE DEF nuevo, s
<1>6. s.metadata \in [Archivos -> TipoEntrada] /\ s.metadata[f] = [init |-> nuevo, tam |-> tam]
      /\ \A g \in Archivos \ {f} : s.metadata[g] = acc.metadata[g]
  <2>1. [init |-> nuevo, tam |-> tam] \in TipoEntrada
    BY <1>5, EntradaDe
  <2> QED
    BY <1>1, <2>1
<1>7. s.bloques \in TipoBloques
  <2> DEFINE de == m.init * BlockSize
             a == nuevo * BlockSize
             n == m.tam * BlockSize
  <2>1. de \in Int
    BY <1>3, Reparte
  <2>2. a \in Int
    BY <1>5, Reparte
  <2>3. n \in Int
    BY <1>3, Reparte
  <2>4. n > 0 => de >= 0 /\ de + n <= N * BlockSize
    <3>1. CASE m.init = -1
      <4>1. m.tam * BlockSize <= 0 * BlockSize
        BY <1>2, <1>3, <3>1, Crece
      <4> QED
        BY <2>3, <4>1, Ceros
    <3>2. CASE m.init # -1
      <4>1. m.init \in Nat
        BY <1>3, <1>4, <3>2
      <4> QED
        BY <1>3, <4>1, TramoEnDisco, Ceros
    <3> QED
      BY <3>1, <3>2
  <2>5. s.bloques = Copia(acc.bloques, de, a, n)
    BY <1>1
  <2> HIDE DEF de, a, n
  <2> QED
    BY <2>1, <2>2, <2>3, <2>4, <2>5, CopiaTipo
<1>8. ~s.falla => ~acc.falla /\ (s.metadata[f].init = -1 => s.metadata[f].tam <= 0)
  BY <1>1, <1>4, <1>6
<1> QED
  BY <1>6, <1>7, <1>8 DEF s

\* The compaction of the files of orden.
LEMMA CompactaTipo ==
    ASSUME bitmap \in [Bits -> BOOLEAN], metadata \in [Archivos -> TipoEntrada],
           bloques \in TipoBloques, ConInicio(metadata),
           NEW orden, Len(orden) \in Nat,
           \A j \in 1 .. Len(orden) : orden[j] \in Archivos,
           \A i, j \in 1 .. Len(orden) : orden[i] = orden[j] => i = j
    PROVE  LET s == compacta(orden) IN
           /\ s.bitmap \in [Bits -> BOOLEAN] /\ s.metadata \in [Archivos -> TipoEntrada]
           /\ s.bloques \in TipoBloques
           /\ \A g \in Archivos \ Puestos(orden, Len(orden)) : s.metadata[g] = metadata[g]
           /\ ~s.falla => ConInicio(s.metadata)
<1> DEFINE n == Len(orden)
<1>e. metadata \in [Archivos -> Entradas]
  BY EntradaBien
<1>1. PICK tras :
           /\ tras[0] = CompactaDesde /\ compacta(orden) = tras[n]
           /\ \A k \in 0 .. n :
                /\ tras[k].bitmap \in [Bits -> BOOLEAN]
                /\ tras[k].metadata \in [Archivos -> Entradas]
                /\ \A g \in Archivos \ Puestos(orden, k) : tras[k].metadata[g] = metadata[g]
           /\ \A k \in 0 .. n - 1 :
                /\ k + 1 \in 1 .. n
                /\ tras[k + 1] = Sucesor(tras[k], orden[k + 1])
                /\ orden[k + 1] \in Archivos \ Puestos(orden, k)
                /\ Puestos(orden, k + 1) = Puestos(orden, k) \cup {orden[k + 1]}
  BY <1>e, CompactaPasos
<1> DEFINE Bien(s) ==
                /\ s.metadata \in [Archivos -> TipoEntrada] /\ s.bloques \in TipoBloques
                /\ ~s.falla => ConInicio(s.metadata)
           T == {k \in 0 .. n : Bien(tras[k])}
<1>2. 0 \in T
  <2>1. CompactaDesde.metadata = metadata /\ CompactaDesde.bloques = bloques
    BY DEF CompactaDesde
  <2>2. Bien(CompactaDesde)
    BY <2>1
  <2> HIDE DEF Bien
  <2> QED
    BY <1>1, <2>2
<1>3. ASSUME NEW k \in 0 .. n - 1, k \in T PROVE k + 1 \in T
  <2> DEFINE g == orden[k + 1]
             acc == tras[k]
             m == metadata[g]
             s == realocate_compactacion(acc, g, m.tam)
  <2>1. g \in Archivos /\ tras[k + 1] = s /\ k + 1 \in 0 .. n
    BY <1>1 DEF Sucesor
  <2>2. acc.bitmap \in [Bits -> BOOLEAN] /\ acc.metadata[g] = m
    BY <1>1
  <2>3. Bien(acc)
    BY <1>3
  <2>4. /\ m.tam \in (-1 .. N) \cup Tamanios /\ m.tam <= N + 1
        /\ m.init = -1 => m.tam <= 0
    <3>1. m \in TipoEntrada
      BY <2>1
    <3>2. m.init = -1 => m.tam <= 0
      BY <2>1 DEF ConInicio
    <3> HIDE DEF m
    <3>3. /\ m.init \in -1 .. N - 1 /\ m.tam \in (-1 .. N) \cup Tamanios
          /\ m.init \in Int /\ m.tam \in Int /\ m.init + m.tam <= N
      BY <3>1, EntradaBien
    <3>4. m.tam <= N + 1
      BY <3>3, DialAssumption
    <3> QED
      BY <3>2, <3>3, <3>4
  <2> HIDE DEF g, acc, m
  <2>5. /\ s.metadata \in [Archivos -> TipoEntrada] /\ s.bloques \in TipoBloques
        /\ \A h \in Archivos \ {g} : s.metadata[h] = acc.metadata[h]
        /\ ~s.falla => ~acc.falla /\ (s.metadata[g].init = -1 => s.metadata[g].tam <= 0)
    BY <2>1, <2>2, <2>3, <2>4, PasoTipo
  <2> HIDE DEF s
  <2>6. Bien(s)
    BY <2>3, <2>5 DEF ConInicio
  <2> HIDE DEF Bien
  <2> QED
    BY <2>1, <2>6
<1> HIDE DEF T
<1>4. T = 0 .. n
  <2>1. T \subseteq 0 .. n
    BY DEF T
  <2> QED
    BY <1>2, <1>3, <2>1, HaciaAdelante
<1>5. Bien(tras[n])
  BY <1>4 DEF T
<1>6. /\ tras[n].bitmap \in [Bits -> BOOLEAN]
      /\ \A g \in Archivos \ Puestos(orden, n) : tras[n].metadata[g] = metadata[g]
  BY <1>1
<1> QED
  BY <1>1, <1>5, <1>6

\* The compaction has room for the n blocks asked.
LEMMA TipoCompacta ==
    ASSUME DatosOK, DialInv, NEW f \in Archivos, NEW n \in Int, n \in Tamanios,
           TruncaCompacta(f, n)
    PROVE  DatosOK'
<1>1. /\ Libre /\ UNCHANGED disco /\ check_space_total(bitmap, n) /\ ~caido
  BY DEF TruncaCompacta, Libre
<1>2. /\ d_metadata = metadata /\ d_bloques = bloques
      /\ d_metadata' = d_metadata /\ d_bloques' = d_bloques
  BY <1>1, LibreIgual DEF DialInv, Libre, disco
<1>3. /\ metadata \in [Archivos -> TipoEntrada] /\ bloques \in TipoBloques
      /\ ConInicio(metadata) /\ ConInicio(d_metadata) /\ bitmap \in [Bits -> BOOLEAN]
  BY <1>1, MetadataEntradas DEF DatosOK, DialInv, TipoDisco
<1>4. PICK orden : CompactaCon(orden, f, n)
  BY CompactaOrden DEF DialInv
<1> DEFINE resto == compacta(orden)
           fin == realocate_compactacion(resto, f, n)
<1>5. /\ metadata' = fin.metadata /\ bloques' = fin.bloques /\ caido' = fin.falla
      /\ Len(orden) \in Nat /\ Puestos(orden, Len(orden)) = Otros(f)
      /\ \A j \in 1 .. Len(orden) : orden[j] \in Archivos
      /\ \A i, j \in 1 .. Len(orden) : orden[i] = orden[j] => i = j
      /\ f \notin Otros(f)
  BY <1>4 DEF CompactaCon, Otros
<1>6. /\ resto.bitmap \in [Bits -> BOOLEAN] /\ resto.metadata \in [Archivos -> TipoEntrada]
      /\ resto.bloques \in TipoBloques
      /\ resto.metadata[f] = metadata[f]
      /\ ~resto.falla => ConInicio(resto.metadata)
  BY <1>3, <1>5, CompactaTipo
<1> HIDE DEF resto
<1>7. n <= N + 1
  <2> DEFINE libres == {b \in Bits : ~bitmap[b]}
  <2>1. Cardinality(libres) >= n
    BY <1>1 DEF check_space_total
  <2>2. libres \subseteq Bits
    OBVIOUS
  <2> HIDE DEF libres
  <2>3. IsFiniteSet(libres) /\ Cardinality(libres) <= N
    BY <2>2, BitsFinitos, FS_Subset
  <2>4. Cardinality(libres) \in Nat
    BY <2>3, FS_CardinalityType
  <2> QED
    BY <2>1, <2>3, <2>4, DialAssumption
<1>8. resto.metadata[f].init = -1 => resto.metadata[f].tam <= 0
  BY <1>3, <1>6 DEF ConInicio
<1>9. n \in (-1 .. N) \cup Tamanios
  OBVIOUS
<1>10. /\ fin.metadata \in [Archivos -> TipoEntrada] /\ fin.bloques \in TipoBloques
       /\ \A g \in Archivos \ {f} : fin.metadata[g] = resto.metadata[g]
       /\ ~fin.falla => ~resto.falla /\ (fin.metadata[f].init = -1 => fin.metadata[f].tam <= 0)
  BY <1>6, <1>7, <1>8, <1>9, PasoTipo
<1> HIDE DEF fin
<1>11. ~fin.falla => ConInicio(fin.metadata)
  BY <1>6, <1>10 DEF ConInicio
<1>12. metadata' \in TipoMetadata /\ d_metadata' \in TipoMetadata
  BY <1>2, <1>3, <1>5, <1>10, MetadataEntradas
<1>13. bloques' \in TipoBloques /\ d_bloques' \in TipoBloques
  BY <1>2, <1>3, <1>5, <1>10
<1>14. ~caido' => ConInicio(metadata') /\ ConInicio(d_metadata')
  BY <1>2, <1>3, <1>5, <1>11
<1> QED
  BY <1>12, <1>13, <1>14 DEF DatosOK, ConInicio

\* A save takes to the disk what memory has.
LEMMA TipoGuarda == ASSUME DatosOK, Guarda PROVE DatosOK'
<1>1. /\ metadata' = metadata /\ bloques' = bloques /\ caido' = caido /\ ~caido
      /\ d_bloques' = bloques \/ d_bloques' = d_bloques
      /\ \/ d_metadata' = d_metadata
         \/ \E x \in Archivos : d_metadata' = [d_metadata EXCEPT ![x] = metadata[x]]
  BY DEF Guarda, memoria
<1>2. /\ metadata \in [Archivos -> TipoEntrada] /\ d_metadata \in [Archivos -> TipoEntrada]
      /\ ConInicio(metadata) /\ ConInicio(d_metadata)
  BY <1>1, MetadataEntradas DEF DatosOK
<1>3. d_metadata' \in [Archivos -> TipoEntrada]
      /\ \A g \in Archivos : d_metadata'[g] = d_metadata[g] \/ d_metadata'[g] = metadata[g]
  BY <1>1, <1>2
<1>4. ConInicio(d_metadata')
  BY <1>2, <1>3 DEF ConInicio
<1>5. ConInicio(metadata')
  BY <1>1, <1>2
<1>6. metadata' \in TipoMetadata /\ d_metadata' \in TipoMetadata
  BY <1>1, <1>2, <1>3, MetadataEntradas
<1>7. bloques' \in TipoBloques /\ d_bloques' \in TipoBloques
  BY <1>1 DEF DatosOK
<1> QED
  BY <1>4, <1>5, <1>6, <1>7 DEF DatosOK, ConInicio

\* Every step keeps the types of the metadata and the blocks.
LEMMA TipoPaso == ASSUME DatosOK, DialInv, [Next]_vars PROVE DatosOK'
<1>1. ASSUME UNCHANGED <<memoria, disco>>, caido' \in {caido, TRUE} PROVE DatosOK'
  BY <1>1 DEF memoria, disco, DatosOK, ConInicio
<1>2. CASE UNCHANGED vars
  BY <1>1, <1>2 DEF vars
<1>3. ASSUME NEW f \in Archivos, NEW ptr, EscribeFuera(f, ptr) PROVE DatosOK'
  BY <1>1, <1>3 DEF EscribeFuera
<1>4. CASE CortaYReinicia
  <2>1. /\ metadata' = d_metadata /\ bloques' = d_bloques /\ caido' = caido
        /\ d_metadata' = d_metadata /\ d_bloques' = d_bloques
    BY <1>4 DEF CortaYReinicia, disco
  <2> QED
    BY <2>1 DEF DatosOK, ConInicio
<1>5. Tamanios \subseteq Int /\ Punteros \subseteq Nat
  BY DialAssumption
<1> QED
  BY <1>2, <1>3, <1>4, <1>5, TipoGuarda, TipoCrea, TipoBorra, TipoEscribe, TipoIgual,
     TipoMenos, TipoContiguo, TipoReubica, TipoCompacta DEF Next

\* Whatever is asked and wherever the process stops, the metadata of every
\* file keeps inside the disk and what a block holds is a byte of some file:
\* the sizes and first blocks that resize, relocation and compaction compute
\* never leave their range.
THEOREM TiposSiempreDialFS == Spec => []DialTypeOK
<1>1. Init => DatosOK /\ FantasmasOK
  <2> SUFFICES ASSUME Init PROVE DatosOK /\ FantasmasOK
    OBVIOUS
  <2>1. /\ metadata = [f \in Archivos |-> NoExiste] /\ d_metadata = metadata
        /\ bloques = [b \in Bytes |-> Vacio] /\ d_bloques = bloques
        /\ operacion = Reposo /\ danado = {} /\ expuestos = {}
        /\ escrituras = 0 /\ percances = 0 /\ seguro = TRUE /\ caido = FALSE
    BY DEF Init
  <2>2. NoExiste \in TipoEntrada /\ NoExiste.init = -1 /\ NoExiste.tam = -1
    <3>1. -1 \in -1 .. N - 1 /\ -1 \in (-1 .. N) \cup Tamanios /\ -1 + -1 <= N
      BY DialAssumption
    <3> QED
      BY <3>1, EntradaDe DEF NoExiste
  <2>3. metadata \in TipoMetadata /\ d_metadata \in TipoMetadata /\ ConInicio(metadata)
        /\ ConInicio(d_metadata)
    BY <2>1, <2>2, MetadataEntradas DEF ConInicio
  <2>4. bloques \in TipoBloques /\ d_bloques \in TipoBloques
    BY <2>1 DEF TipoBloques
  <2>5. Reposo.nombre = "" /\ 0 \in 0 .. MaxEscrituras /\ 0 \in 0 .. MaxPercances
    BY DialAssumption DEF Reposo
  <2> QED
    BY <2>1, <2>3, <2>4, <2>5 DEF DatosOK, FantasmasOK
<1>2. DatosOK /\ DialInv /\ [Next]_vars => DatosOK'
  BY TipoPaso
<1>3. FantasmasOK /\ [Next]_vars => FantasmasOK'
  BY TipoFantasmas
<1>4. DatosOK /\ FantasmasOK /\ DialInv /\ ContInv => DialTypeOK
  BY DEF DatosOK, FantasmasOK, DialInv, TipoDisco, ContInv, DialTypeOK
<1> QED
  BY <1>1, <1>2, <1>3, <1>4, DialSiempre, ContSiempre, PTL DEF Spec

=============================================================================
