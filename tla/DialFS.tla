------------------------------- MODULE DialFS -------------------------------
(***************************************************************************)
(* The file system of a DIALFS interface (entradasalida: dialfs.c,         *)
(* auxiliar.c).  Files occupy consecutive blocks; each has a metadata file *)
(* with BLOQUE_INICIAL and TAMANIO_ARCHIVO, and bitmap.dat marks the       *)
(* blocks in use.  The process works on copies in memory and saves what it *)
(* changed, one file after the other; it may stop between two saves and be *)
(* started again from what was saved.                                      *)
(*                                                                         *)
(* Sizes are in blocks: TAMANIO_ARCHIVO is always a multiple of them.  A   *)
(* write is of one byte.                                                   *)
(***************************************************************************)
EXTENDS Integers, Sequences, FiniteSets, Functions

CONSTANTS
    Archivos,       \* names of files
    N,              \* bits of the bitmap: 8 * (BLOCK_COUNT / 8)
    BlockSize,      \* BLOCK_SIZE
    Tamanios,       \* sizes asked of IO_FS_TRUNCATE, in blocks: a register
                    \* read into an int, negative from 2^31 on
    Punteros,       \* positions asked of IO_FS_WRITE, in bytes
    MaxEscrituras,  \* writes in one execution (bound)
    MaxPercances    \* stops of the process and negative sizes (bound)

ASSUME DialAssumption ==
    /\ IsFiniteSet(Archivos) /\ N \in Nat \ {0} /\ BlockSize \in Nat \ {0, 1}
    /\ Tamanios \subseteq Int /\ Punteros \subseteq Nat
    /\ MaxEscrituras \in Nat /\ MaxPercances \in Nat

\* How pendientes tells the three kinds of saves.
ASSUME GuardadosDistintos == {"bitmap", "bloques"} \cap Archivos = {}

VARIABLES
    bitmap, metadata, bloques,      \* in memory
    d_bitmap, d_metadata, d_bloques,  \* saved
    pendientes,     \* saves left of the operation under way
    operacion,      \* the operation under way: its name and what it wrote
    \* ghosts: bytes of each file written and kept, files whose contents the
    \* operations below are known to break, writes, stops and negative
    \* sizes so far, files
    \* whose blocks a stop or a negative size may have left to others, and
    \* whether there has been none
    escrito, danado, escrituras, percances, expuestos, seguro,
    caido           \* a block outside bloques.dat was touched

memoria == <<bitmap, metadata, bloques>>
disco   == <<d_bitmap, d_metadata, d_bloques>>
ghosts  == <<escrito, danado, escrituras, percances, expuestos, seguro>>
vars    == <<memoria, disco, pendientes, operacion, ghosts, caido>>

NoExiste == [init |-> -1, tam |-> -1]
Vacio == <<"", 0>>      \* a byte that is no file's data
Reposo == [nombre |-> "", archivo |-> "", byte |-> 0]
Bits == 0 .. N - 1
Bytes == 0 .. N * BlockSize - 1

\* Every metadata value: a file with no blocks has BLOQUE_INICIAL = -1.
TipoMetadata ==
    [Archivos -> {m \in [init : -1 .. N - 1, tam : (-1 .. N) \cup Tamanios] :
                        m.init + m.tam <= N}]
TipoBloques == [Bytes -> {Vacio} \cup (Archivos \X Nat)]

DialTypeOK ==
    /\ bitmap \in [Bits -> BOOLEAN] /\ d_bitmap \in [Bits -> BOOLEAN]
    /\ metadata \in TipoMetadata /\ d_metadata \in TipoMetadata
    /\ bloques \in TipoBloques /\ d_bloques \in TipoBloques
    /\ pendientes \in Seq(Archivos \cup {"bitmap", "bloques"})
    /\ escrito \in [Archivos -> SUBSET Nat]
    /\ danado \subseteq Archivos /\ expuestos \subseteq Archivos
    /\ escrituras \in 0 .. MaxEscrituras /\ percances \in 0 .. MaxPercances
    /\ seguro \in BOOLEAN /\ caido \in BOOLEAN

Init ==
    /\ bitmap = [b \in Bits |-> FALSE] /\ d_bitmap = bitmap
    /\ metadata = [f \in Archivos |-> NoExiste] /\ d_metadata = metadata
    /\ bloques = [b \in Bytes |-> Vacio] /\ d_bloques = bloques
    /\ pendientes = <<>> /\ operacion = Reposo
    /\ escrito = [f \in Archivos |-> {}] /\ danado = {}
    /\ escrituras = 0 /\ percances = 0 /\ expuestos = {} /\ seguro = TRUE /\ caido = FALSE

-----------------------------------------------------------------------------
(* auxiliar.c                                                              *)

\* Mutant: the block of an empty file is forgotten.
Mut_TamActual(m) == m.tam
\* A file of size 0 that still has its first block counts one.
TamActual(m) == IF m.tam = 0 /\ m.init > -1 THEN 1 ELSE m.tam
BloquesDe(m) == IF m = NoExiste THEN {} ELSE m.init .. m.init + TamActual(m) - 1
BytesDe(m) == m.init * BlockSize .. (m.init + m.tam) * BlockSize - 1

\* Mutant: only the first block of the run is looked at.
Mut_get_init_block_file(bits, size) == IF \E b \in Bits : ~bits[b]
                                       THEN CHOOSE b \in Bits : ~bits[b] ELSE -1
\* The first free run of size blocks, or -1.  After a run that is too short
\* the loop resumes two blocks past its end, so it may miss a run that
\* starts right there.
get_init_block_file(bits, size) ==
    LET busca[i \in 0 .. N + 1] ==
            IF i >= N \/ size = 0 THEN -1
            ELSE LET ocupados == {k \in i + 1 .. i + size - 1 : k < N /\ bits[k]} IN
                 IF bits[i] THEN busca[i + 1]
                 ELSE IF ocupados # {}
                      THEN busca[2 + CHOOSE k \in ocupados : \A j \in ocupados : k <= j]
                 ELSE IF i + size <= N THEN i ELSE -1
    IN busca[0]

\* resize_down and resize_up.
Marca(bits, desde, hasta, valor) ==
    [b \in Bits |-> IF b \in desde .. hasta - 1 THEN valor ELSE bits[b]]

\* Mutant: the end of the bitmap is not looked at.
Mut_check_space_contiguo(bits, desde, hasta) ==
    desde >= 0 /\ \A b \in desde .. hasta - 1 : b < N => ~bits[b]
check_space_contiguo(bits, desde, hasta) ==
    desde >= 0 /\ \A b \in desde .. hasta - 1 : b < N /\ ~bits[b]

\* Mutant: off by one.
Mut_check_space_total(bits, n) == Cardinality({b \in Bits : ~bits[b]}) >= n - 1
check_space_total(bits, n) == Cardinality({b \in Bits : ~bits[b]}) >= n

\* memcpy of n bytes.
Copia(datos, de, a, n) ==
    [b \in Bytes |-> IF b \in a .. a + n - 1 THEN datos[b - a + de] ELSE datos[b]]

\* realocate_data takes the block numbers it is given as byte positions.
realocate_data(datos, actual, nuevo, n) == Copia(datos, actual, nuevo, n)

\* realocate_compactacion: f goes to the first run where it fits.
realocate_compactacion(acc, f, tam) ==
    LET m == acc.metadata[f]
        nuevo == get_init_block_file(acc.bitmap, tam)
    IN [bitmap   |-> Marca(acc.bitmap, nuevo, nuevo + tam, TRUE),
        metadata |-> [acc.metadata EXCEPT ![f] = [init |-> nuevo, tam |-> tam]],
        bloques  |-> Copia(acc.bloques, m.init * BlockSize, nuevo * BlockSize,
                           m.tam * BlockSize),
        falla    |-> acc.falla \/ (nuevo = -1 /\ tam > 0) \/ m.tam < 0]

\* Mutant: the files in the opposite order.
Mut_sory_by_init_block(m, f, g) == m[f].init >= m[g].init
sory_by_init_block(m, f, g) == m[f].init <= m[g].init

-----------------------------------------------------------------------------
(* dialfs.c: an operation changes the copies in memory and leaves its      *)
(* saves pending.                                                          *)

Libre == pendientes = <<>> /\ ~caido
Empieza(nombre, f, byte, saves) ==
    /\ operacion' = [nombre |-> nombre, archivo |-> f, byte |-> byte]
    /\ pendientes' = saves
    /\ UNCHANGED disco
Sano == UNCHANGED <<percances, expuestos, seguro, caido>>

\* f frees blocks that may not be its own: their owners share its fate.
Arrastra(f, liberados) ==
    expuestos' = expuestos \cup {f} \cup
                    {g \in Archivos : BloquesDe(metadata[g]) \cap liberados # {}}

fs_create_file(f) ==
    /\ Libre /\ metadata[f] = NoExiste
    /\ LET b == get_init_block_file(bitmap, 1) IN
        /\ b # -1
        /\ metadata' = [metadata EXCEPT ![f] = [init |-> b, tam |-> 0]]
        /\ bitmap' = [bitmap EXCEPT ![b] = TRUE]
    /\ Empieza("crear", f, 0, <<f, "bitmap">>) /\ Sano
    /\ UNCHANGED <<bloques, escrito, danado, escrituras>>

\* Mutant: the bitmap is saved before the metadata file is removed.
Mut_fs_delete_file(f) ==
    /\ Libre /\ metadata[f] # NoExiste
    /\ LET m == metadata[f] IN
        bitmap' = Marca(bitmap, m.init, m.init + TamActual(m), FALSE)
    /\ metadata' = [metadata EXCEPT ![f] = NoExiste]
    /\ escrito' = [escrito EXCEPT ![f] = {}] /\ danado' = danado \ {f}
    /\ IF f \in expuestos THEN Arrastra(f, BloquesDe(metadata[f]))
                          ELSE UNCHANGED expuestos
    /\ Empieza("borrar", f, 0, <<"bitmap", f>>)
    /\ UNCHANGED <<bloques, escrituras, percances, seguro, caido>>
fs_delete_file(f) ==
    /\ Libre /\ metadata[f] # NoExiste
    /\ LET m == metadata[f] IN
        bitmap' = Marca(bitmap, m.init, m.init + TamActual(m), FALSE)
    /\ metadata' = [metadata EXCEPT ![f] = NoExiste]
    /\ escrito' = [escrito EXCEPT ![f] = {}] /\ danado' = danado \ {f}
    /\ IF f \in expuestos THEN Arrastra(f, BloquesDe(metadata[f]))
                          ELSE UNCHANGED expuestos
    /\ Empieza("borrar", f, 0, <<f, "bitmap">>)
    /\ UNCHANGED <<bloques, escrituras, percances, seguro, caido>>

\* The position is not compared with the size of the file: the byte may be
\* another file's, or nobody's.
fs_write_file(f, ptr) ==
    /\ Libre /\ metadata[f] # NoExiste /\ escrituras < MaxEscrituras
    /\ LET b == metadata[f].init * BlockSize + ptr IN
        /\ b \in Bytes
        /\ bloques' = [bloques EXCEPT ![b] = <<f, ptr>>]
        /\ danado' = danado \cup {g \in Archivos \ {f} : b \in BytesDe(metadata[g])}
    /\ escrituras' = escrituras + 1
    /\ Empieza("escribir", f, ptr, <<"bloques">>) /\ Sano
    /\ UNCHANGED <<bitmap, metadata, escrito>>

EscribeFuera(f, ptr) ==
    /\ Libre /\ metadata[f] # NoExiste
    /\ metadata[f].init * BlockSize + ptr \notin Bytes
    /\ caido' = TRUE
    /\ UNCHANGED <<memoria, disco, pendientes, operacion, ghosts>>

(* fs_truncate_file, case by case.                                         *)

\* Mutant: the new size is not saved.
Mut_TruncaIgual(f, n) ==
    /\ Libre /\ metadata[f] # NoExiste /\ n = TamActual(metadata[f])
    /\ metadata' = [metadata EXCEPT ![f].tam = n]
    /\ Empieza("truncar", f, 0, <<>>) /\ Sano
    /\ UNCHANGED <<bitmap, bloques, escrito, danado, escrituras>>
TruncaIgual(f, n) ==
    /\ Libre /\ metadata[f] # NoExiste /\ n = TamActual(metadata[f])
    /\ metadata' = [metadata EXCEPT ![f].tam = n]
    /\ Empieza("truncar", f, 0, <<f>>) /\ Sano
    /\ UNCHANGED <<bitmap, bloques, escrito, danado, escrituras>>

\* A negative size frees blocks before the file, and memory before the
\* bitmap.
TruncaMenos(f, n) ==
    /\ Libre /\ metadata[f] # NoExiste /\ n < TamActual(metadata[f])
    /\ n < 0 => percances < MaxPercances
    /\ LET m == metadata[f]
           liberados == m.init + n .. m.init + TamActual(m) - 1
       IN
        /\ bitmap' = [b \in Bits |-> bitmap[b] /\ b \notin liberados]
        /\ metadata' = [metadata EXCEPT ![f] =
                            [init |-> IF n = 0 THEN -1 ELSE m.init, tam |-> n]]
        /\ IF n < 0 \/ f \in expuestos THEN Arrastra(f, liberados)
                                      ELSE UNCHANGED expuestos
        /\ percances' = IF n < 0 THEN percances + 1 ELSE percances
        /\ seguro' = (seguro /\ n >= 0) /\ caido' = ~(liberados \subseteq Bits)
    /\ escrito' = [escrito EXCEPT ![f] = {o \in @ : o < n * BlockSize}]
    /\ Empieza("truncar", f, 0, <<f, "bitmap">>)
    /\ UNCHANGED <<bloques, danado, escrituras>>

\* The blocks that follow the file are free.
Contiguo(f, n) ==
    LET m == metadata[f] IN
    check_space_contiguo(bitmap, m.init + TamActual(m), m.init + n)

TruncaContiguo(f, n) ==
    /\ Libre /\ metadata[f] # NoExiste /\ n > TamActual(metadata[f])
    /\ Contiguo(f, n)
    /\ LET m == metadata[f] IN
        bitmap' = Marca(bitmap, m.init + TamActual(m), m.init + n, TRUE)
    /\ metadata' = [metadata EXCEPT ![f].tam = n]
    /\ Empieza("truncar", f, 0, <<"bitmap", f>>) /\ Sano
    /\ UNCHANGED <<bloques, escrito, danado, escrituras>>

\* The file moves to another run.
TruncaReubica(f, n) ==
    /\ Libre /\ metadata[f] # NoExiste /\ n > TamActual(metadata[f])
    /\ ~Contiguo(f, n)
    /\ LET m == metadata[f]
           nuevo == get_init_block_file(bitmap, n)
           usados == TamActual(m) * BlockSize
       IN
        /\ nuevo > -1 /\ caido' = (usados < 0)
        /\ IF f \in expuestos THEN Arrastra(f, BloquesDe(m)) ELSE UNCHANGED expuestos
        /\ bitmap' = Marca(Marca(bitmap, m.init, m.init + TamActual(m), FALSE),
                           nuevo, nuevo + n, TRUE)
        /\ bloques' = realocate_data(bloques, m.init, nuevo, usados)
        /\ metadata' = [metadata EXCEPT ![f] = [init |-> nuevo, tam |-> n]]
        /\ danado' = danado
             \cup (IF escrito[f] # {} THEN {f} ELSE {})
             \cup {g \in Archivos \ {f} :
                     BytesDe(metadata[g]) \cap (nuevo .. nuevo + usados - 1) # {}}
    /\ Empieza("reubicar", f, 0, <<"bloques", "bitmap", f>>)
    /\ UNCHANGED <<escrito, escrituras, percances, seguro>>

\* The files of orden, one after the other, on an empty bitmap.
compacta(orden) ==
    LET vacio == [bitmap |-> Marca(bitmap, 0, N, FALSE), metadata |-> metadata,
                  bloques |-> bloques, falla |-> FALSE]
        tras[k \in 0 .. Len(orden)] ==
            IF k = 0 THEN vacio
            ELSE realocate_compactacion(tras[k - 1], orden[k], metadata[orden[k]].tam)
    IN tras[Len(orden)]

\* All files move to the front in the order of their blocks, f last.
TruncaCompacta(f, n) ==
    /\ Libre /\ metadata[f] # NoExiste /\ n > TamActual(metadata[f])
    /\ ~Contiguo(f, n) /\ get_init_block_file(bitmap, n) = -1
    /\ check_space_total(bitmap, n)
    /\ LET otros == {g \in Archivos \ {f} : metadata[g] # NoExiste} IN
       \E orden \in Bijection(1 .. Cardinality(otros), otros) :
        /\ \A j, k \in DOMAIN orden :
                j < k => sory_by_init_block(metadata, orden[j], orden[k])
        /\ LET resto == compacta(orden)
               fin == realocate_compactacion(resto, f, n)
           IN
            /\ bitmap' = fin.bitmap /\ metadata' = fin.metadata
            /\ bloques' = fin.bloques /\ caido' = fin.falla
            /\ expuestos' = {}
            /\ danado' = danado \cup
                 (IF \E b \in Bits : resto.bitmap[b] /\ b >= metadata[f].init
                  THEN {f} ELSE {})
        /\ operacion' = [nombre |-> "compactar", archivo |-> f, byte |-> 0]
        /\ pendientes' = orden \o <<f, "bitmap", "bloques">>
    /\ UNCHANGED <<disco, escrito, escrituras, percances, seguro>>

-----------------------------------------------------------------------------
(* Saving, stopping and starting.                                          *)

\* The next save; after the last one the kernel gets its answer.
Guarda ==
    /\ ~caido /\ pendientes # <<>>
    /\ LET x == Head(pendientes) IN
        /\ d_bitmap' = IF x = "bitmap" THEN bitmap ELSE d_bitmap
        /\ d_bloques' = IF x = "bloques" THEN bloques ELSE d_bloques
        /\ d_metadata' = IF x \in Archivos THEN [d_metadata EXCEPT ![x] = metadata[x]]
                                           ELSE d_metadata
    /\ pendientes' = Tail(pendientes)
    /\ IF Len(pendientes) = 1
       THEN /\ operacion' = Reposo
            /\ escrito' = [f \in Archivos |-> escrito[f] \cup
                  {o \in {operacion.byte} : /\ operacion.nombre = "escribir"
                                            /\ operacion.archivo = f
                                            /\ o < metadata[f].tam * BlockSize}]
       ELSE UNCHANGED <<operacion, escrito>>
    /\ UNCHANGED <<memoria, danado, escrituras, percances, expuestos, seguro, caido>>

\* The process stops; dialfs_io starts again from the saved files.  A
\* creation or a relocation may leave its file with blocks that are not
\* marked, a compaction every file.
CortaYReinicia ==
    /\ ~caido /\ percances < MaxPercances
    /\ percances' = percances + 1
    /\ bitmap' = d_bitmap /\ metadata' = d_metadata /\ bloques' = d_bloques
    /\ pendientes' = <<>> /\ operacion' = Reposo
    /\ expuestos' = expuestos \cup
            (CASE operacion.nombre \in {"crear", "reubicar"} -> {operacion.archivo}
               [] operacion.nombre = "compactar" -> Archivos
               [] OTHER -> {})
    /\ seguro' = (seguro /\ expuestos' = {})
    /\ UNCHANGED <<disco, escrito, danado, escrituras, caido>>

Next ==
    \/ Guarda \/ CortaYReinicia
    \/ \E f \in Archivos :
        \/ fs_create_file(f) \/ fs_delete_file(f)
        \/ \E ptr \in Punteros : fs_write_file(f, ptr) \/ EscribeFuera(f, ptr)
        \/ \E n \in Tamanios :
            \/ TruncaIgual(f, n) \/ TruncaMenos(f, n) \/ TruncaContiguo(f, n)
            \/ TruncaReubica(f, n) \/ TruncaCompacta(f, n)

Spec == Init /\ [][Next]_vars

-----------------------------------------------------------------------------
(* Properties.                                                             *)

\* No two files share a block and every block of a file is marked, whatever
\* the sizes asked and wherever the process stopped, but for the files that
\* a stop in their creation or relocation, or a negative size, exposed, and
\* those whose blocks these free: the damage goes no further, and a
\* compaction that ends repairs it.
BloquesPropios ==
    ~caido => \A f \in Archivos \ expuestos :
        /\ \A b \in BloquesDe(metadata[f]) : b \in Bits /\ bitmap[b]
        /\ \A g \in Archivos \ (expuestos \cup {f}) :
                BloquesDe(metadata[f]) \cap BloquesDe(metadata[g]) = {}

\* As long as the process has not stopped every marked block is some
\* file's: no operation leaks blocks, compaction and relocation included.
SinFugas ==
    percances = 0 => \A b \in Bits :
        bitmap[b] => \E f \in Archivos : b \in BloquesDe(metadata[f])

\* "No hace falta leer cada vez porque vos manjeas los estados" (main.h):
\* between operations the files on disk are what memory holds.
DiscoAlDia ==
    Libre => /\ d_bitmap = bitmap /\ d_metadata = metadata /\ d_bloques = bloques

\* Each file keeps the bytes written to it through creations, deletions,
\* truncations and compactions, except where danado records the damage the
\* code is known to do: a relocation (byte positions instead of blocks), a
\* compaction of the growing file, a write past the end of another.
ContenidoIntacto ==
    seguro => \A f \in Archivos \ danado : \A o \in escrito[f] :
        metadata[f] # NoExiste /\ o < metadata[f].tam * BlockSize =>
            bloques[metadata[f].init * BlockSize + o] = <<f, o>>

\* What the search returns is a free run inside the disk, and a single
\* free block is always found.
HuecoValido ==
    \A n \in 1 .. N :
        LET p == get_init_block_file(bitmap, n) IN
        /\ p # -1 => p >= 0 /\ p + n <= N /\ (\A b \in p .. p + n - 1 : ~bitmap[b])
        /\ n = 1 /\ p = -1 => \A b \in Bits : bitmap[b]

\* A compaction that started always finds room for every file.
CompactacionCabe == seguro /\ operacion.nombre = "compactar" => ~caido

=============================================================================
