----------------------------- MODULE Protocolo -----------------------------
(***************************************************************************)
(* The messages of the system as bytes (utils: general_protocol.c,         *)
(* io_protocol.c, pcb_protocol.c, mem_protocol.c): what each function that *)
(* sends puts on a connection, how many bytes each function that receives  *)
(* takes from it, and how it cuts them into fields.                        *)
(*                                                                         *)
(* A message is not delimited: a receiver that takes a byte more or less   *)
(* than was sent reads everything after it wrongly.  The two sides are     *)
(* written by hand, field by field, in different files, and the kernel     *)
(* passes on an IO request whose contents it does not know.                *)
(*                                                                         *)
(* A byte is <<field, value, k, n>>, the k-th of the n of that field.  A   *)
(* message means an operation and the bytes of its arguments, one by one.  *)
(* Conexiones runs these functions at the two ends of each connection.     *)
(***************************************************************************)
EXTENDS Integers, SequencesExt

CONSTANTS
    Cadenas,        \* strings: names, files, paths, resources (bound)
    Largo,          \* bytes of each, with its null
    Pids,           \* processes (bound)
    MaxFrames       \* frames of a request (bound)

ASSUME ProtocoloAssumption ==
    /\ Cadenas # {} /\ Largo \in [Cadenas -> Nat \ {0}]
    /\ MaxFrames \in Nat \ {0}

-----------------------------------------------------------------------------
(* Writing: general_protocol.c.                                            *)

Campo(nombre, v, n) == [k \in 1 .. n |-> <<nombre, v, k, n>>]
Op(op) == Campo("op", op, 4)
Num(n) == Campo("n", n, 4)
U32(nombre, v) == Campo(nombre, v, 4)
Cadena(nombre, s) == Campo(nombre, s, Largo[s])

\* agregar_a_paquete: the length, then the value.
ConLargo(bytes) == Num(Len(bytes)) \o bytes

\* serializar_paquete, of a packet or of a string alone (enviar_mensaje).
Paquete(op, stream) == Op(op) \o Num(Len(stream)) \o stream

(* Reading.  Bytes that are not there, or are not a number, give anything:  *)
(* nothing, or 0.                                                           *)
Trozo(b, d, n) == SubSeq(b, d + 1, IF d + n < Len(b) THEN d + n ELSE Len(b))
Numero(b) == IF Len(b) = 4 /\ b = Num(b[1][2]) THEN b[1][2] ELSE 0

\* memcpy of one field after another: 0 stands for a field that is preceded
\* by its length.  A field and what follows it; the fields and what is left.
Corte(b, ancho) ==
    LET antes == IF ancho = 0 THEN 4 ELSE 0
        largo == IF ancho = 0 THEN Numero(Trozo(b, 0, 4)) ELSE ancho
    IN [campo |-> Trozo(b, antes, largo), sigue |-> Trozo(b, antes + largo, Len(b))]
Corta(bytes, anchos) ==
    LET cortes[k \in 0 .. Len(anchos)] ==
            IF k = 0 THEN <<bytes>>
            ELSE LET hecho == cortes[k - 1]
                     c == Corte(Last(hecho), anchos[k])
                 IN Front(hecho) \o <<c.campo, c.sigue>>
    IN cortes[Len(anchos)]
Campos(b, anchos) == Front(Corta(b, anchos))

-----------------------------------------------------------------------------
(* pcb_protocol.c *)

OrdenPcb == <<"pid", "pc", "quantum", "status", "ax", "bx", "cx", "dx", "eax", "ebx",
              "ecx", "edx", "si", "di", "reg_pc">>
AnchoDe(campo) == IF campo \in {"ax", "bx", "cx", "dx"} THEN 1 ELSE 4
Pcb(p, recursos) ==
    [c \in Range(OrdenPcb) \cup {"recursos"} |->
        IF c = "recursos" THEN Cadena(c, recursos) ELSE Campo(c, p, AnchoDe(c))]
EnOrden(pcb) == [k \in 1 .. Len(OrdenPcb) + 1 |->
                    IF k > Len(OrdenPcb) THEN pcb.recursos ELSE pcb[OrdenPcb[k]]]
agregar_pcb_paquete(pcb) ==
    FlattenSeq([k \in DOMAIN OrdenPcb |-> pcb[OrdenPcb[k]]]) \o ConLargo(pcb.recursos)

\* Mutant: the two index registers are read the other way round.
Mut_recibir_pcb(b) ==
    LET campos == Campos(b, <<4, 4, 4, 4, 1, 1, 1, 1, 4, 4, 4, 4, 4, 4, 4, 0>>) IN
    [pid |-> campos[1], pc |-> campos[2], quantum |-> campos[3], status |-> campos[4],
     ax |-> campos[5], bx |-> campos[6], cx |-> campos[7], dx |-> campos[8],
     eax |-> campos[9], ebx |-> campos[10], ecx |-> campos[11], edx |-> campos[12],
     si |-> campos[14], di |-> campos[13], reg_pc |-> campos[15], recursos |-> campos[16]]
recibir_pcb(b) ==
    LET campos == Campos(b, <<4, 4, 4, 4, 1, 1, 1, 1, 4, 4, 4, 4, 4, 4, 4, 0>>) IN
    [pid |-> campos[1], pc |-> campos[2], quantum |-> campos[3], status |-> campos[4],
     ax |-> campos[5], bx |-> campos[6], cx |-> campos[7], dx |-> campos[8],
     eax |-> campos[9], ebx |-> campos[10], ecx |-> campos[11], edx |-> campos[12],
     si |-> campos[13], di |-> campos[14], reg_pc |-> campos[15], recursos |-> campos[16]]

-----------------------------------------------------------------------------
(* io_protocol.c, with what the CPU writes (instructions.c).               *)

Frame(k) == <<U32("direccion_fisica", ToString(k)), U32("bytes", ToString(k))>>
Frames(n) == [j \in 1 .. 2 * n |-> Frame((j + 1) \div 2)[IF j % 2 = 1 THEN 1 ELSE 2]]
Tam == U32("tam", "")
Ptr == U32("ptr", "")

\* What a program asks: the operation and its arguments, in order.
PedidosIo ==
    {[op |-> "IO_GEN_SLEEP", args |-> <<Cadena("tiempo", s)>>] : s \in Cadenas}
    \cup {[op |-> o, args |-> <<Cadena("archivo", s)>>] :
            o \in {"IO_FS_CREATE", "IO_FS_DELETE"}, s \in Cadenas}
    \cup {[op |-> "IO_FS_TRUNCATE", args |-> <<Cadena("archivo", s), Tam>>] : s \in Cadenas}
    \cup {[op |-> o, args |-> <<Tam>> \o Frames(n)] :
            o \in {"IO_STDIN_READ", "IO_STDOUT_WRITE"}, n \in 1 .. MaxFrames}
    \cup {[op |-> o, args |-> <<Cadena("archivo", s), Ptr, Tam>> \o Frames(n)] :
            o \in {"IO_FS_READ", "IO_FS_WRITE"}, s \in Cadenas, n \in 1 .. MaxFrames}

DelArchivo == {"IO_FS_TRUNCATE", "IO_FS_READ", "IO_FS_WRITE"}

\* Mutant: the length of the file name is not counted.
Mut_buffer_size(p) ==
    IF p.op \in DelArchivo THEN Len(FlattenSeq(p.args)) ELSE Len(FlattenSeq(p.args))
\* The size of the kernel's opaque buffer, summed by hand before the fields
\* are added.
buffer_size(p) ==
    IF p.op \in DelArchivo THEN 4 + Len(FlattenSeq(p.args)) ELSE Len(FlattenSeq(p.args))

\* The file name goes with its length when something follows it.
Contenido(p) ==
    IF p.op \in DelArchivo THEN ConLargo(p.args[1]) \o FlattenSeq(Tail(p.args))
    ELSE FlattenSeq(p.args)

\* enviar_io, where the length of the string serves as buffer_size;
\* enviar_io_truncate_fs, io_read_write, io_read_write_fs.
PaqueteIo(nombre, p) ==
    Paquete("IO", U32("instr", p.op) \o ConLargo(Cadena("nombre", nombre))
                  \o Num(buffer_size(p)) \o Contenido(p))

\* The kernel: instruction, name of the interface, buffer.
recibir_io(b) == Campos(b, <<4, 0, 0>>)
agregar_io_serializado(pid, instr, buffer) == U32("pid", pid) \o instr \o ConLargo(buffer)

\* The interface: pid, instruction, buffer.
recibir_io_serializado(b) == Campos(b, <<4, 4, 0>>)

\* The loop that reads frames while there are bytes left.
anchosFrames(n) == [k \in 1 .. 2 * ((n + 7) \div 8) |-> 4]
get_io_frames(b) == Campos(b, <<4>> \o anchosFrames(Len(b) - 4))
get_io_file(b) == <<b>>
get_io_truncate(b) == Campos(b, <<0, 4>>)
get_io_read_write(b) ==
    LET cabeza == Corta(b, <<0, 4, 4>>)
    IN Front(cabeza) \o Campos(Last(cabeza), anchosFrames(Len(Last(cabeza))))

Sirve(tipo, op) ==
    \/ tipo = "GENERICA" /\ op = "IO_GEN_SLEEP"
    \/ tipo = "STDIN" /\ op = "IO_STDIN_READ"
    \/ tipo = "STDOUT" /\ op = "IO_STDOUT_WRITE"
    \/ tipo = "DIALFS" /\ op \in {"IO_FS_CREATE", "IO_FS_DELETE", "IO_FS_TRUNCATE",
                                  "IO_FS_READ", "IO_FS_WRITE"}

\* What an interface of that type makes of a request; one it does not serve
\* it does not read.
Entiende(tipo, op, b) ==
    IF ~Sirve(tipo, op) THEN <<>>
    ELSE CASE op \in {"IO_STDIN_READ", "IO_STDOUT_WRITE"} -> get_io_frames(b)
           [] op = "IO_FS_TRUNCATE" -> get_io_truncate(b)
           [] op \in {"IO_FS_READ", "IO_FS_WRITE"} -> get_io_read_write(b)
           [] OTHER -> get_io_file(b)      \* and the time of IO_GEN_SLEEP

-----------------------------------------------------------------------------
(* mem_protocol.c and instruction_protocol.c.                              *)

Dato == Cadena("dato", CHOOSE s \in Cadenas : TRUE)

\* What recibir_pid_con_uint32 receives: a process, and its pc, page or size.
PidConUint32(o, p) == [op |-> o, args |-> <<U32("pid", p), U32("info", "")>>]

\* The requests of the CPU, and of an interface for one frame.
PedidosCpu ==
    {PidConUint32(o, p) : o \in {"INSTRUCTION", "MEM_PID_PAGE", "MEM_RESIZE"}, p \in Pids}
    \cup {[op |-> "MEM_READ", args |-> Frame(1)],
          [op |-> "MEM_WRITE", args |-> <<Frame(1)[1], Dato>>]}
PedidosKernel ==
    {[op |-> "INIT_PID", args |-> <<U32("pid", p), Cadena("path", s)>>] :
        p \in Pids, s \in Cadenas}
    \cup {[op |-> "INIT_SCRIPT", args |-> <<Cadena("path", s)>>] : s \in Cadenas}

PaqueteMem(p) ==
    CASE p.op \in {"MEM_WRITE", "INIT_PID"} -> Paquete(p.op, p.args[1] \o ConLargo(p.args[2]))
      [] OTHER -> Paquete(p.op, FlattenSeq(p.args))

\* An operation read from the head of b: recibir_operacion, recibir_buffer.
OpDe(b) ==
    LET t == Trozo(b, 0, 4) IN
    IF Len(t) = 4 /\ t[1][1] = "op" /\ t = Op(t[1][2]) THEN t[1][2] ELSE "?"
Buffer(b) == Trozo(b, 8, Numero(Trozo(b, 4, 4)))
\* What a receiver takes: n bytes, that mean m.
Toma(n, op, args) == [n |-> n, m |-> [op |-> op, args |-> args]]
TomaBuffer(b, args) == Toma(8 + Numero(Trozo(b, 4, 4)), OpDe(b), args)

\* Mutant: liberar_memoria does not discard the size.
Mut_recibir_mem(b) ==
    LET op == OpDe(b) IN
    CASE op = "MEM_PAGE_SIZE" -> Toma(4, op, <<>>)
      [] op = "END_PID" -> Toma(8, op, <<Trozo(b, 4, 4)>>)
      [] op = "INIT_SCRIPT" -> TomaBuffer(b, <<Buffer(b)>>)
      [] op \in {"MEM_WRITE", "INIT_PID"} -> TomaBuffer(b, Campos(Buffer(b), <<4, 0>>))
      [] OTHER -> TomaBuffer(b, Campos(Buffer(b), <<4, 4>>))
\* memoria: MEM_PAGE_SIZE is a code alone; liberar_memoria discards a size;
\* recibir_mensaje; recibir_mem_write and recibir_init_process;
\* recibir_mem_read and recibir_pid_con_uint32.
recibir_mem(b) ==
    LET op == OpDe(b) IN
    CASE op = "MEM_PAGE_SIZE" -> Toma(4, op, <<>>)
      [] op = "END_PID" -> Toma(12, op, <<Trozo(b, 8, 4)>>)
      [] op = "INIT_SCRIPT" -> TomaBuffer(b, <<Buffer(b)>>)
      [] op \in {"MEM_WRITE", "INIT_PID"} -> TomaBuffer(b, Campos(Buffer(b), <<4, 0>>))
      [] OTHER -> TomaBuffer(b, Campos(Buffer(b), <<4, 4>>))

\* What memoria may answer: a code alone, or a packet.
Codigo(op) == [bytes |-> Op(op), dicho |-> [op |-> op, args |-> <<>>]]
Respuestas(op) ==
    CASE op = "MEM_PAGE_SIZE" ->
            {[bytes |-> U32("tam_pagina", ""),
              dicho |-> [op |-> "", args |-> <<U32("tam_pagina", "")>>]]}
      [] op = "INSTRUCTION" ->
            {[bytes |-> Paquete(op, FlattenSeq([k \in 1 .. n |-> ConLargo(Dato)])),
              dicho |-> [op |-> op, args |-> [k \in 1 .. n |-> Dato]]] : n \in 1 .. 2}
      [] op = "MEM_PID_PAGE" ->
            {Codigo("MEM_ERROR"),
             [bytes |-> Paquete("MEM_SUCCESS", U32("marco", "")),
              dicho |-> [op |-> "MEM_SUCCESS", args |-> <<U32("marco", "")>>]]}
      [] op = "MEM_READ" ->
            {[bytes |-> Paquete("MEM_SUCCESS", ConLargo(Dato)),
              dicho |-> [op |-> "MEM_SUCCESS", args |-> <<Dato>>]]}
      [] op = "MEM_RESIZE" -> {Codigo("MEM_SUCCESS"), Codigo("MEM_ERROR")}
      [] op = "MEM_WRITE" -> {Codigo("MEM_SUCCESS")}
      [] op = "INIT_PID" -> {Codigo("INIT_PID_SUCCESS"), Codigo("INIT_PID_ERROR")}
      [] op = "INIT_SCRIPT" ->
            {Codigo("INIT_SCRIPT_ERROR"),
             [bytes |-> Paquete("INIT_SCRIPT_SUCCESS", Dato),
              dicho |-> [op |-> "INIT_SCRIPT_SUCCESS", args |-> <<Dato>>]]}
      [] OTHER -> {}

\* recibir_paquete: values while there are bytes left, each with its null.
recibir_paquete(b) ==
    LET campos == Campos(b, [k \in 1 .. Len(b) \div 5 |-> 0])
        hay == {k \in DOMAIN campos : \A j \in 1 .. k : campos[j] # <<>>}
    IN [k \in hay |-> campos[k]]

\* Mutant: mmu waits for a whole packet also when there is no such page.
Mut_recibir_respuesta(op, b) ==
    CASE op = "MEM_PAGE_SIZE" -> Toma(4, "", <<Trozo(b, 0, 4)>>)
      [] op = "INSTRUCTION" -> TomaBuffer(b, recibir_paquete(Buffer(b)))
      [] op = "MEM_PID_PAGE" -> Toma(12, OpDe(b), <<Trozo(b, 8, 4)>>)
      [] op = "MEM_READ" -> TomaBuffer(b, Campos(Buffer(b), <<0>>))
      [] op = "INIT_SCRIPT" /\ OpDe(b) = "INIT_SCRIPT_SUCCESS" -> TomaBuffer(b, <<Buffer(b)>>)
      [] OTHER -> Toma(4, OpDe(b), <<>>)
\* What the client takes of the answer: dispatch; fetch; mmu; leer_memoria;
\* ejecutar_script; escribir_memoria, resize_process and iniciar_proceso.
recibir_respuesta(op, b) ==
    CASE op = "MEM_PAGE_SIZE" -> Toma(4, "", <<Trozo(b, 0, 4)>>)
      [] op = "INSTRUCTION" -> TomaBuffer(b, recibir_paquete(Buffer(b)))
      [] op = "MEM_PID_PAGE" /\ OpDe(b) # "MEM_ERROR" ->
            Toma(12, OpDe(b), <<Trozo(b, 8, 4)>>)
      [] op = "MEM_READ" -> TomaBuffer(b, Campos(Buffer(b), <<0>>))
      [] op = "INIT_SCRIPT" /\ OpDe(b) = "INIT_SCRIPT_SUCCESS" -> TomaBuffer(b, <<Buffer(b)>>)
      [] OTHER -> Toma(4, OpDe(b), <<>>)

=============================================================================
