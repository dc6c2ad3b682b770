-------------------------------- MODULE Cpu --------------------------------
(***************************************************************************)
(* The instruction cycle of the CPU (cpu: cpu.c, instructions.c,           *)
(* auxiliar.c) with what answers its requests: the pages and the user      *)
(* memory of memoria and the GENERICA, STDIN and STDOUT interfaces         *)
(* (entradasalida: generica.c, stdin.c, stdout.c).  One program runs, and  *)
(* other processes take and give frames meanwhile.                         *)
(*                                                                         *)
(* The registers are the bytes of t_registros and the memory is the bytes  *)
(* of memoria_usuario, so that what an instruction reads and writes, and   *)
(* where, is what the pointers of the code make of it.  A line of the      *)
(* program is one step: the CPU runs one process at a time, and Mmu has    *)
(* the interleavings of its accesses with the rest.  The TLB is left out:  *)
(* by Mmu!TlbCoherente it answers what the page table says.                *)
(***************************************************************************)
EXTENDS Integers, SequencesExt

CONSTANTS
    Base, Ancho,    \* values of a byte (2^8) and bytes of a uint32_t (4)
    TamPagina,      \* TAM_PAGINA
    CantMarcos,     \* TAM_MEMORIA / TAM_PAGINA
    Programas,      \* what a script may hold (bound)
    Interfaces,     \* the connected interfaces: their types, by name
    Recursos,       \* the resources of the kernel
    Disputados,     \* frames that other processes may take (bound)
    Memorias        \* what the user memory may hold at first (bound)

ASSUME CpuAssumption ==
    /\ {Base, Ancho, TamPagina, CantMarcos} \subseteq Nat \ {0}
    /\ Disputados \subseteq 0 .. CantMarcos - 1
    /\ Memorias \subseteq [1 .. CantMarcos * TamPagina -> 0 .. Base - 1]

\* Base ^ k: the values of k bytes.
Potencia[k \in 0 .. Ancho] == IF k = 0 THEN 1 ELSE Base * Potencia[k - 1]
M == Potencia[Ancho]

\* TAM_PAGINA and TAM_MEMORIA are read as an int, half of what a uint32_t counts.
ASSUME TamAssumption == 2 * TamPagina <= M /\ 2 * Ancho <= M /\ CantMarcos * TamPagina < M

VARIABLES
    file,       \* memoria: the lines of the script, as words
    registers,  \* the bytes of t_registros
    estado,     \* the status the PCB comes back with, as the kernel takes it
    pages,      \* memoria: the page table
    bit_map,    \* memoria: the frames in use, by this process or by others
    usuario,    \* memoria: the user memory
    io,         \* the request an interface holds
    salida      \* the last bytes STDOUT printed

cpuVars == <<file, registers, estado, io, salida>>
memVars == <<pages, bit_map, usuario>>
vars    == <<cpuVars, memVars>>

Byte == 0 .. Base - 1
Marcos == 0 .. CantMarcos - 1
SinIo == [op |-> "", interfaz |-> "", frames |-> <<>>]

-----------------------------------------------------------------------------
(* Registers.                                                              *)

\* t_registros, packed: pc, si, di, the four of a byte, the four of a word.
Posicion ==
    [PC |-> 0, SI |-> Ancho, DI |-> 2 * Ancho,
     AX |-> 3 * Ancho, BX |-> 3 * Ancho + 1, CX |-> 3 * Ancho + 2, DX |-> 3 * Ancho + 3,
     EAX |-> 3 * Ancho + 4, EBX |-> 4 * Ancho + 4, ECX |-> 5 * Ancho + 4,
     EDX |-> 6 * Ancho + 4]

\* The start of the struct when the name is no register's.
get_register(r) == IF r \in DOMAIN Posicion THEN Posicion[r] ELSE 0
sizeof_register(r) == IF r \in {"AX", "BX", "CX", "DX"} THEN 1 ELSE Ancho

\* Little endian.
ABytes(v, n) == [k \in 1 .. n |-> (v \div Potencia[k - 1]) % Base]
Valor(bytes) ==
    LET v[k \in 0 .. Len(bytes)] ==
            IF k = 0 THEN 0 ELSE v[k - 1] + bytes[k] * Potencia[k - 1]
    IN v[Len(bytes)]

\* memcpy of bytes to s + d, and of n bytes from there.
Sobre(s, d, bytes) ==
    [k \in DOMAIN s |-> IF k - d \in DOMAIN bytes THEN bytes[k - d] ELSE s[k]]
Bytes(s, d, n) == SubSeq(s, d + 1, d + n)

Registro(rs, r, n) == Valor(Bytes(rs, get_register(r), n))
\* Mutant: four bytes are read whatever the register.
Mut_get_normaliced_register(rs, r) == Registro(rs, r, Ancho)
get_normaliced_register(rs, r) == Registro(rs, r, sizeof_register(r))

update_register(rs, r, n, v) == Sobre(rs, get_register(r), ABytes(v, n))

\* strtoul: a word with other characters in it gives 0.
NoNumerico == -1
atouint(v) == IF v = NoNumerico THEN 0 ELSE v % M

\* SUM and SUB: between bytes the low byte of the source, between words the
\* whole of it.
operation_register(rs, destino, origen, signo) ==
    LET n == sizeof_register(destino)
        b == IF n = 1 THEN Registro(rs, origen, 1)
                      ELSE get_normaliced_register(rs, origen)
    IN update_register(rs, destino, n, Registro(rs, destino, n) + signo * b)

-----------------------------------------------------------------------------
(* Translation, and the user memory.                                       *)

\* Bytes of a range that fall on its first page; the sum is a uint32_t.
EnPagina(desp, n) == IF (desp + n) % M <= TamPagina THEN n ELSE TamPagina - desp

\* The recursion of mmu: the pages of n bytes from dl, and how much of each.
Tramos[n \in 0 .. M - 1] == [dl \in 0 .. M - 1 |->
    LET pagina == dl \div TamPagina
        desp == dl % TamPagina
        bytes == EnPagina(desp, n)
    IN <<[pagina |-> pagina, desp |-> desp, bytes |-> bytes]>> \o
       IF bytes = n THEN <<>> ELSE Tramos[n - bytes][((pagina + 1) * TamPagina) % M]]

direccion_fisica(t) == pages[t.pagina + 1] * TamPagina + t.desp

\* It stops at the first page the process has not.
mmu(dl, n) ==
    LET tramos == Tramos[n][dl]
        hay == {k \in DOMAIN tramos : \A j \in 1 .. k : tramos[j].pagina < Len(pages)}
    IN [status |-> IF hay = DOMAIN tramos THEN "RUNNING" ELSE "ERROR",
        frames |-> [k \in hay |-> [dir |-> direccion_fisica(tramos[k]), bytes |-> tramos[k].bytes]]]

\* A frame of more bytes than a page: memoria does not survive its copy.
Excede(frames) == \E k \in DOMAIN frames : frames[k].bytes > TamPagina

\* The addresses of the bytes of some frames, one frame after the other.
Direcciones(frames) ==
    FlattenSeq([k \in DOMAIN frames |->
                    [j \in 1 .. frames[k].bytes |-> frames[k].dir + (j - 1)]])
Total(frames) == Len(Direcciones(frames))

leer_memoria(frames) ==
    [k \in 1 .. Total(frames) |-> usuario[Direcciones(frames)[k] + 1]]

\* Mutant: the first frame takes the whole buffer.
Mut_escribir_memoria(buffer, frames) ==
    IF frames = <<>> THEN usuario ELSE Sobre(usuario, frames[1].dir, buffer)
\* In order: of two bytes for one address the later one stays.
escribir_memoria(buffer, frames) ==
    LET van(a) == {k \in 1 .. Total(frames) : Direcciones(frames)[k] + 1 = a}
    IN [a \in DOMAIN usuario |-> IF van(a) = {} THEN usuario[a] ELSE buffer[Max(van(a))]]

-----------------------------------------------------------------------------
(* The cycle.                                                              *)

pc == Registro(registers, "PC", Ancho)
Linea == file[pc + 1]
Palabra(k) == Linea[k + 1]

\* Words that decode takes out of the line.
total_params(op) ==
    CASE op \in {"SET", "SUM", "SUB", "JNZ", "MOV_IN", "MOV_OUT", "IO_GEN_SLEEP",
                 "IO_FS_CREATE", "IO_FS_DELETE"} -> 2
      [] op \in {"RESIZE", "COPY_STRING", "WAIT", "SIGNAL"} -> 1
      [] op \in {"IO_STDIN_READ", "IO_STDOUT_WRITE", "IO_FS_TRUNCATE"} -> 3
      [] op \in {"IO_FS_READ", "IO_FS_WRITE"} -> 5
      [] OTHER -> 0
Completa == Len(Linea) > total_params(Linea[1])

\* A line that decode can take apart has a word for strtoul where its
\* instruction reads a number.
Numero(l) ==
    CASE l[1] \in {"SET", "JNZ"} -> l[3]
      [] l[1] \in {"RESIZE", "COPY_STRING"} -> l[2]
      [] OTHER -> 0
ASSUME ProgramasAssumption ==
    \A f \in Programas : /\ Len(f) \in Nat
                         /\ \A k \in 1 .. Len(f) : Len(f[k]) > total_params(f[k][1])
                                => Numero(f[k]) \in Nat \cup {NoNumerico}

\* fetch and decode.
Decodifica(ops) ==
    /\ estado = "RUNNING" /\ pc < Len(file) /\ Completa
    /\ Linea[1] \in ops

\* exec begins with pc_plus_plus.
regs == update_register(registers, "PC", Ancho, pc + 1)
Reg(r) == get_normaliced_register(regs, r)

\* check_interrupt.  The kernel sets the status itself when an IO or WAIT
\* comes before the PCB: a kill is lost there.
Resultado(result) ==
    \/ estado' = result
    \/ result = "RUNNING" /\ estado' = "RUNNING_QUANTUM"
    \/ result \notin {"BLOCKED_IO", "BLOCKED_WAIT"} /\ estado' = "TERMINATED_USER"

SinSalida == UNCHANGED <<file, io, salida>>

Set ==
    /\ Decodifica({"SET"})
    /\ registers' = update_register(regs, Palabra(1), sizeof_register(Palabra(1)),
                                    atouint(Palabra(2)))
    /\ Resultado("RUNNING") /\ SinSalida /\ UNCHANGED memVars

SumSub ==
    /\ Decodifica({"SUM", "SUB"})
    /\ registers' = operation_register(regs, Palabra(1), Palabra(2),
                                       IF Linea[1] = "SUM" THEN 1 ELSE -1)
    /\ Resultado("RUNNING") /\ SinSalida /\ UNCHANGED memVars

jnz_register ==
    /\ Decodifica({"JNZ"})
    /\ registers' = IF Reg(Palabra(1)) = 0 THEN regs
                    ELSE update_register(regs, "PC", Ancho, atouint(Palabra(2)))
    /\ Resultado("RUNNING") /\ SinSalida /\ UNCHANGED memVars

\* The translation fails: the process ends.
NoTraduce ==
    /\ registers' = regs /\ Resultado("ERROR") /\ SinSalida /\ UNCHANGED memVars

mov_out ==
    /\ Decodifica({"MOV_OUT"})
    /\ LET datos == Palabra(2)
           n == sizeof_register(datos)
           t == mmu(Reg(Palabra(1)), n) IN
        IF t.status = "ERROR" THEN NoTraduce
        ELSE /\ usuario' = escribir_memoria(Bytes(regs, get_register(datos), n), t.frames)
             /\ registers' = regs
             /\ Resultado("RUNNING") /\ SinSalida /\ UNCHANGED <<pages, bit_map>>

\* When it fails the register takes what was in the buffer, and the process
\* ends all the same.
mov_in ==
    /\ Decodifica({"MOV_IN"})
    /\ LET datos == Palabra(1)
           t == mmu(Reg(Palabra(2)), sizeof_register(datos)) IN
        IF t.status = "ERROR" THEN NoTraduce
        ELSE /\ registers' = Sobre(regs, get_register(datos), leer_memoria(t.frames))
             /\ Resultado("RUNNING") /\ SinSalida /\ UNCHANGED memVars

Caida == estado' = "caida" /\ registers' = regs /\ SinSalida /\ UNCHANGED memVars

\* The status of the first translation is lost: the buffer may be read only
\* in part, and is written whole.
copy_string ==
    /\ Decodifica({"COPY_STRING"})
    /\ LET n == atouint(Palabra(1))
           src == mmu(Registro(regs, "SI", Ancho), n)
           dst == mmu(Registro(regs, "DI", Ancho), n) IN
        IF dst.status = "ERROR" THEN NoTraduce
        ELSE IF Excede(src.frames \o dst.frames) THEN Caida
        ELSE LET leido == leer_memoria(src.frames) IN
            /\ \E resto \in [1 .. n - Len(leido) -> Byte] :
                    usuario' = escribir_memoria(leido \o resto, dst.frames)
            /\ registers' = regs
            /\ Resultado("RUNNING") /\ SinSalida /\ UNCHANGED <<pages, bit_map>>

\* The n lowest frames of libres, in order, or all of them.
Primeros(libres, n) ==
    [k \in 1 .. Min({n, Cardinality(libres)}) |->
        CHOOSE m \in libres : Cardinality({x \in libres : x < m}) = k - 1]

\* Mutant: the new frames stay free in the bitmap.
Mut_resize_process ==
    /\ Decodifica({"RESIZE"})
    /\ LET n == (atouint(Palabra(1)) + TamPagina - 1) \div TamPagina
           libres == Marcos \ bit_map
           nuevas == pages \o Primeros(libres, n - Len(pages)) IN
        /\ pages' = IF n > Len(pages) THEN nuevas ELSE SubSeq(pages, 1, n)
        /\ bit_map' = bit_map \ (Range(pages) \ Range(pages'))
        /\ Resultado(IF Len(pages') = n THEN "RUNNING" ELSE "ERROR_MEMORY")
    /\ registers' = regs /\ SinSalida /\ UNCHANGED usuario
\* resize_up gives what there is before it says that there is not enough.
resize_process ==
    /\ Decodifica({"RESIZE"})
    /\ LET n == (atouint(Palabra(1)) + TamPagina - 1) \div TamPagina
           libres == Marcos \ bit_map
           nuevas == pages \o Primeros(libres, n - Len(pages)) IN
        /\ pages' = IF n > Len(pages) THEN nuevas ELSE SubSeq(pages, 1, n)
        /\ bit_map' = (bit_map \ Range(pages)) \cup Range(pages')
        /\ Resultado(IF Len(pages') = n THEN "RUNNING" ELSE "ERROR_MEMORY")
    /\ registers' = regs /\ SinSalida /\ UNCHANGED usuario

\* WAIT and SIGNAL; the kernel refuses a resource it does not have.
semaphore ==
    /\ Decodifica({"WAIT", "SIGNAL"})
    /\ registers' = regs /\ SinSalida /\ UNCHANGED memVars
    /\ IF Palabra(1) \notin Recursos THEN estado' = "ERROR_RESOURCE"
       ELSE Resultado(IF Linea[1] = "WAIT" THEN "BLOCKED_WAIT" ELSE "RUNNING_SIGNAL")

\* The request goes to the kernel, and the kernel hands it to the interface
\* if there is one with that name.
PideIo(frames) ==
    /\ registers' = regs
    /\ IF Palabra(1) \notin DOMAIN Interfaces
       THEN estado' = "ERROR_INTERFACE" /\ UNCHANGED io
       ELSE /\ Resultado("BLOCKED_IO")
            /\ io' = [op |-> Linea[1], interfaz |-> Palabra(1), frames |-> frames]
    /\ UNCHANGED <<file, salida, memVars>>

enviar_io ==
    /\ Decodifica({"IO_GEN_SLEEP", "IO_FS_CREATE", "IO_FS_DELETE", "IO_FS_TRUNCATE"})
    /\ PideIo(<<>>)

\* io_read_write and io_read_write_fs: the file name is a word of the latter.
io_read_write ==
    /\ Decodifica({"IO_STDIN_READ", "IO_STDOUT_WRITE", "IO_FS_READ", "IO_FS_WRITE"})
    /\ LET fs == Linea[1] \in {"IO_FS_READ", "IO_FS_WRITE"}
           t == IF fs THEN mmu(Reg(Palabra(3)), Reg(Palabra(4)))
                      ELSE mmu(Reg(Palabra(2)), Reg(Palabra(3))) IN
        IF t.status = "ERROR" THEN NoTraduce ELSE PideIo(t.frames)

Exit ==
    /\ Decodifica({"EXIT"})
    /\ registers' = regs /\ Resultado("TERMINATED") /\ SinSalida /\ UNCHANGED memVars

\* Any other word is UNKNOWN.
Unknown ==
    /\ Decodifica({"UNKNOWN"})
    /\ NoTraduce

\* A word that decode looks for is not there: the CPU follows a null pointer.
DecodeCae ==
    /\ estado = "RUNNING" /\ pc < Len(file) /\ ~Completa
    /\ Caida

\* Nobody compares pc with the length of the file: past its last line memoria
\* follows a null pointer, or reads out of the array.
FetchCae ==
    /\ estado = "RUNNING" /\ pc >= Len(file)
    /\ Caida

-----------------------------------------------------------------------------
(* The interfaces, the kernel and the other processes.                     *)

Tipo == Interfaces[io.interfaz]

Responde(e) ==
    /\ estado' = e /\ io' = SinIo
    /\ UNCHANGED <<file, registers, pages, bit_map>>

Atiende(tipo, op) == estado = "BLOCKED_IO" /\ Tipo = tipo /\ io.op = op

generica_io == Atiende("GENERICA", "IO_GEN_SLEEP") /\ Responde("READY")
               /\ UNCHANGED <<usuario, salida>>

\* The bytes that were typed, and whatever the buffer held after them.
stdin_io ==
    /\ Atiende("STDIN", "IO_STDIN_READ")
    /\ IF Excede(io.frames) THEN Responde("caida") /\ UNCHANGED usuario
       ELSE /\ \E buffer \in [1 .. Total(io.frames) -> Byte] :
                    usuario' = escribir_memoria(buffer, io.frames)
            /\ Responde("READY")
    /\ UNCHANGED salida

stdout_io ==
    /\ Atiende("STDOUT", "IO_STDOUT_WRITE")
    /\ IF Excede(io.frames) THEN Responde("caida") /\ UNCHANGED salida
       ELSE salida' = leer_memoria(io.frames) /\ Responde("READY")
    /\ UNCHANGED usuario

\* What DialFS does, as the program sees it.  A read of a file that is not
\* there does not reach the frames; a write reads them before it looks for the
\* file.  Other operations have no use for frames, those DialFS does not know
\* included: their answer is that of the request before, whoever made it.
dialfs_io ==
    /\ estado = "BLOCKED_IO" /\ Tipo = "DIALFS"
    /\ \/ /\ io.op \in {"IO_FS_READ", "IO_FS_WRITE"} /\ Excede(io.frames)
          /\ Responde("caida") /\ UNCHANGED usuario
       \/ /\ io.op = "IO_FS_READ" /\ ~Excede(io.frames)
          /\ \E buffer \in [1 .. Total(io.frames) -> Byte] :
                    usuario' = escribir_memoria(buffer, io.frames)
          /\ Responde("READY")
       \/ /\ io.op = "IO_FS_READ"
          /\ Responde("ERROR_IO") /\ UNCHANGED usuario
       \/ /\ io.op # "IO_FS_READ" /\ (io.op = "IO_FS_WRITE" => ~Excede(io.frames))
          /\ Responde("READY") \/ Responde("ERROR_IO")
          /\ UNCHANGED usuario
    /\ UNCHANGED salida

\* An operation of another type of interface.
IoNoValida ==
    /\ estado = "BLOCKED_IO"
    /\ <<Tipo, io.op>> \notin {<<"GENERICA", "IO_GEN_SLEEP">>, <<"STDIN", "IO_STDIN_READ">>,
                               <<"STDOUT", "IO_STDOUT_WRITE">>}
    /\ Tipo # "DIALFS"
    /\ Responde("ERROR_IO") /\ UNCHANGED <<usuario, salida>>

\* The kernel sends the process again.
Reanuda ==
    /\ estado \in {"READY", "RUNNING_QUANTUM", "RUNNING_SIGNAL", "BLOCKED_WAIT"}
    /\ estado' = "RUNNING"
    /\ UNCHANGED <<file, registers, io, salida, memVars>>

\* Another process takes a frame, or gives it back.
Ajeno(m) ==
    /\ estado \in {"READY", "RUNNING_QUANTUM", "RUNNING_SIGNAL", "BLOCKED_WAIT", "BLOCKED_IO"}
    /\ \/ m \notin bit_map /\ bit_map' = bit_map \cup {m}
       \/ m \in bit_map \ Range(pages) /\ bit_map' = bit_map \ {m}
    /\ UNCHANGED <<cpuVars, pages, usuario>>

Init ==
    /\ file \in Programas
    /\ registers = [k \in 1 .. 7 * Ancho + 4 |-> 0]
    /\ estado = "READY" /\ io = SinIo /\ salida = <<>>
    /\ pages = <<>> /\ bit_map = {} /\ usuario \in Memorias

Next ==
    \/ Set \/ SumSub \/ jnz_register \/ mov_out \/ mov_in \/ copy_string
    \/ resize_process \/ semaphore \/ enviar_io \/ io_read_write \/ Exit \/ Unknown
    \/ DecodeCae \/ FetchCae \/ generica_io \/ stdin_io \/ stdout_io \/ dialfs_io
    \/ IoNoValida
    \/ Reanuda \/ \E m \in Disputados : Ajeno(m)

Spec == Init /\ [][Next]_vars

-----------------------------------------------------------------------------
CpuTypeOK ==
    /\ registers \in [1 .. 7 * Ancho + 4 -> Byte]
    /\ usuario \in [1 .. CantMarcos * TamPagina -> Byte]
    /\ pages \in Seq(Marcos) /\ bit_map \subseteq Marcos
    /\ Range(pages) \subseteq bit_map

\* The logical addresses of the bytes of some frames.
DirLogica(d) ==
    LET pagina == CHOOSE k \in DOMAIN pages : pages[k] = d \div TamPagina
    IN (pagina - 1) * TamPagina + (d % TamPagina)
Dirs(frames) == [k \in 1 .. Total(frames) |-> DirLogica(Direcciones(frames)[k])]
\* The memory of the program, one page after the other.
Propia ==
    [a \in 1 .. Len(pages) * TamPagina |->
        usuario[direccion_fisica([pagina |-> (a - 1) \div TamPagina,
                                  desp |-> (a - 1) % TamPagina]) + 1]]

\* The registers by name, the pages one after the other, the frames of a
\* request as the addresses the program meant.
PorNombre == [r \in DOMAIN Posicion |-> get_normaliced_register(registers, r)]
Pedido ==
    [op |-> io.op, interfaz |-> io.interfaz,
     dirs |-> IF Excede(io.frames) THEN <<>> ELSE Dirs(io.frames),
     desborda |-> Excede(io.frames)]
Abstracta == INSTANCE Maquina WITH regs <- PorNombre, mem <- Propia, pedido <- Pedido

\* Whatever the frames a process was given, and however its data falls on
\* pages and registers, it runs as on a machine of its own with one
\* contiguous memory: the bytes of a register are the ones its name means, a
\* range that crosses pages is read and written in order, and an interface
\* works on the addresses the program named.
CumpleMaquina == Abstracta!Spec

\* An instruction or an interface never writes in a frame of another process.
AjenosIntactos ==
    [][\A m \in bit_map \ Range(pages) :
            Bytes(usuario', m * TamPagina, TamPagina) = Bytes(usuario, m * TamPagina, TamPagina)]_vars

=============================================================================
