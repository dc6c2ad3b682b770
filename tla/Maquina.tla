------------------------------ MODULE Maquina ------------------------------
(***************************************************************************)
(* What the CPU, the memory server and the interfaces promise together to  *)
(* a program: a machine with named registers that wrap around at their own *)
(* width, a memory of its own that RESIZE makes longer or shorter, and     *)
(* input and output straight into that memory.  There are no frames here,  *)
(* no translation and no layout of the registers; Cpu has them, and is     *)
(* shown to implement this machine.  Nothing is promised of the registers  *)
(* or of the memory of a program that has ended.                           *)
(***************************************************************************)
EXTENDS Integers, Sequences, Functions

CONSTANTS
    Base,           \* values of a byte (2^8)
    Ancho,          \* bytes of a uint32_t (4)
    TamPagina,      \* bytes of a page
    Interfaces,     \* the connected interfaces: their types, by name
    Recursos        \* the resources of the kernel

VARIABLES
    file,       \* the program: a sequence of lines, each a sequence of words
    regs,       \* the registers, by name
    mem,        \* the memory of the program
    estado,     \* pid_status, or "caida": a server does not survive the line
    pedido,     \* the IO request under way: operation, interface, addresses
    salida      \* the last bytes printed

vars == <<file, regs, mem, estado, pedido, salida>>

\* Base ^ k: the values of k bytes.
Potencia[k \in 0 .. Ancho] == IF k = 0 THEN 1 ELSE Base * Potencia[k - 1]
M == Potencia[Ancho]
Byte == 0 .. Base - 1
SinPedido == [op |-> "", interfaz |-> "", dirs |-> <<>>, desborda |-> FALSE]

Cortos == {"AX", "BX", "CX", "DX"}
Largos == {"PC", "SI", "DI", "EAX", "EBX", "ECX", "EDX"}

\* A word that names no register stands for the program counter.
Nombre(r) == IF r \in Cortos THEN r ELSE IF r \in Largos THEN r ELSE "PC"
Bytes(r) == IF r \in Cortos THEN 1 ELSE Ancho

\* A number with other characters in it counts as 0.
NoNumerico == -1
Literal(v) == IF v = NoNumerico THEN 0 ELSE v % M

Termina(e) == estado' = e /\ UNCHANGED <<file, pedido, salida>>

\* The line ends with result; a kill or the end of the quantum may be there.
\* A kill that comes with a line of IO or WAIT is lost.
Sigue(result) ==
    \/ estado' = result
    \/ result = "RUNNING" /\ estado' = "RUNNING_QUANTUM"
    \/ result \notin {"BLOCKED_IO", "BLOCKED_WAIT"} /\ estado' = "TERMINATED_USER"

Linea == file[regs["PC"] + 1]
Ejecuta(ops) ==
    /\ estado = "RUNNING" /\ regs["PC"] < Len(file)
    /\ Linea[1] \in ops
Params(op) ==
    CASE op \in {"SET", "SUM", "SUB", "JNZ", "MOV_IN", "MOV_OUT", "IO_GEN_SLEEP",
                 "IO_FS_CREATE", "IO_FS_DELETE"} -> 2
      [] op \in {"RESIZE", "COPY_STRING", "WAIT", "SIGNAL"} -> 1
      [] op \in {"IO_STDIN_READ", "IO_STDOUT_WRITE", "IO_FS_TRUNCATE"} -> 3
      [] op \in {"IO_FS_READ", "IO_FS_WRITE"} -> 5
      [] OTHER -> 0
Completa == Len(Linea) > Params(Linea[1])

\* The registers with the program counter on the next line, and one of them.
Avanzado == [regs EXCEPT !["PC"] = (@ + 1) % M]
Val(r) == Avanzado[Nombre(r)]
Pon(r, v) == regs' = [Avanzado EXCEPT ![Nombre(r)] = v % Potencia[Bytes(r)]]
Avanza == regs' = Avanzado

-----------------------------------------------------------------------------
\* The bytes [d, d + n) are in the memory; an empty range still has a place.
Contiene(d, n) == d + (IF n = 0 THEN 1 ELSE n) <= Len(mem)
\* The end of the range is past the last address a uint32_t can name: the
\* servers do not survive it, when its first page is there.
Desborda(d, n) == (d % TamPagina) + n >= M /\ d < Len(mem)
Parte(d, n) == SubSeq(mem, d + 1, d + n)
\* The memory changes in [d, d + n), and only there.
Cambia(d, n) ==
    /\ mem' \in Seq(Byte) /\ Len(mem') = Len(mem)
    /\ \A k \in DOMAIN mem : k - 1 \notin d .. d + n - 1 => mem'[k] = mem[k]

ABytes(v, n) == [k \in 1 .. n |-> (v \div Potencia[k - 1]) % Base]

Sin == UNCHANGED <<file, pedido, salida>>

Calculo ==
    /\ Ejecuta({"SET", "SUM", "SUB"}) /\ Completa
    /\ LET r == Linea[2] IN
        \/ Linea[1] = "SET" /\ Pon(r, Literal(Linea[3]))
        \/ Linea[1] = "SUM" /\ Pon(r, Val(r) + Val(Linea[3]))
        \/ Linea[1] = "SUB" /\ Pon(r, Val(r) - Val(Linea[3]))
    /\ Sigue("RUNNING") /\ Sin /\ UNCHANGED mem

Jnz ==
    /\ Ejecuta({"JNZ"}) /\ Completa
    /\ IF Val(Linea[2]) = 0 THEN Avanza ELSE Pon("PC", Literal(Linea[3]))
    /\ Sigue("RUNNING") /\ Sin /\ UNCHANGED mem

MovOut ==
    /\ Ejecuta({"MOV_OUT"}) /\ Completa
    /\ LET d == Val(Linea[2])
           n == Bytes(Linea[3]) IN
        IF Contiene(d, n)
        THEN /\ Cambia(d, n)
             /\ SubSeq(mem', d + 1, d + n) = ABytes(Val(Linea[3]), n)
             /\ Avanza /\ Sigue("RUNNING") /\ Sin
        ELSE Termina("ERROR") \/ Termina("TERMINATED_USER")

MovIn ==
    /\ Ejecuta({"MOV_IN"}) /\ Completa
    /\ LET n == Bytes(Linea[2])
           d == Val(Linea[3]) IN
        IF Contiene(d, n)
        THEN /\ \E v \in 0 .. Potencia[n] - 1 :
                    ABytes(v, n) = Parte(d, n) /\ Pon(Linea[2], v)
             /\ Sigue("RUNNING") /\ Sin /\ UNCHANGED mem
        ELSE Termina("ERROR") \/ Termina("TERMINATED_USER")

\* The two ranges may overlap.  When it is the source that is not in the
\* memory the program goes on, with anything in the destination.
CopyString ==
    /\ Ejecuta({"COPY_STRING"}) /\ Completa
    /\ LET n == Literal(Linea[2])
           src == Val("SI")
           dst == Val("DI") IN
        \/ Desborda(dst, n) /\ Termina("caida")
        \/ Desborda(src, n) /\ Contiene(dst, n) /\ Termina("caida")
        \/ /\ ~Desborda(src, n) /\ Contiene(dst, n)
           /\ Cambia(dst, n)
           /\ Contiene(src, n) => SubSeq(mem', dst + 1, dst + n) = Parte(src, n)
           /\ Avanza /\ Sigue("RUNNING") /\ Sin
        \/ /\ ~Contiene(dst, n) /\ ~Desborda(dst, n)
           /\ (Termina("ERROR") \/ Termina("TERMINATED_USER"))

\* What stays is untouched; what comes is anything.
Resize ==
    /\ Ejecuta({"RESIZE"}) /\ Completa
    /\ LET largo == TamPagina * ((Literal(Linea[2]) + TamPagina - 1) \div TamPagina) IN
        \/ /\ mem' \in Seq(Byte) /\ Len(mem') = largo
           /\ \A k \in DOMAIN mem \cap DOMAIN mem' : mem'[k] = mem[k]
           /\ Avanza /\ Sigue("RUNNING") /\ Sin
        \/ /\ largo > Len(mem)
           /\ (Termina("ERROR_MEMORY") \/ Termina("TERMINATED_USER"))

-----------------------------------------------------------------------------
(* What the program asks of the kernel and of the interfaces.              *)

Semaforo ==
    /\ Ejecuta({"WAIT", "SIGNAL"}) /\ Completa
    /\ Avanza /\ UNCHANGED <<mem, file, pedido, salida>>
    /\ IF Linea[2] \notin Recursos THEN estado' = "ERROR_RESOURCE"
       ELSE Sigue(IF Linea[1] = "WAIT" THEN "BLOCKED_WAIT" ELSE "RUNNING_SIGNAL")

Pide(dirs, desborda) ==
    /\ Avanza /\ UNCHANGED <<mem, file, salida>>
    /\ IF Linea[2] \notin DOMAIN Interfaces
       THEN estado' = "ERROR_INTERFACE" /\ UNCHANGED pedido
       ELSE /\ estado' = "BLOCKED_IO"
            /\ pedido' = [op |-> Linea[1], interfaz |-> Linea[2], dirs |-> dirs,
                         desborda |-> desborda]

PideSinMemoria ==
    /\ Ejecuta({"IO_GEN_SLEEP", "IO_FS_CREATE", "IO_FS_DELETE", "IO_FS_TRUNCATE"})
    /\ Completa
    /\ Pide(<<>>, FALSE)

\* The request names each address of the range, in order.
PideConMemoria ==
    /\ Ejecuta({"IO_STDIN_READ", "IO_STDOUT_WRITE", "IO_FS_READ", "IO_FS_WRITE"})
    /\ Completa
    /\ LET fs == Linea[1] \in {"IO_FS_READ", "IO_FS_WRITE"}
           d == Val(IF fs THEN Linea[4] ELSE Linea[3])
           n == Val(IF fs THEN Linea[5] ELSE Linea[4]) IN
        \/ Contiene(d, n) /\ Pide([k \in 1 .. n |-> d + k - 1], FALSE)
        \/ Desborda(d, n) /\ Pide(<<>>, TRUE)
        \/ /\ ~Contiene(d, n) /\ ~Desborda(d, n)
           /\ (Termina("ERROR") \/ Termina("TERMINATED_USER"))

\* The requests that make an interface read into the memory of the program,
\* and take from it.
Lecturas == {<<"STDIN", "IO_STDIN_READ">>, <<"DIALFS", "IO_FS_READ">>}
Escrituras == {<<"STDOUT", "IO_STDOUT_WRITE">>, <<"DIALFS", "IO_FS_WRITE">>}
Trato == <<Interfaces[pedido.interfaz], pedido.op>>

\* The interface answers.  Only a reading that succeeds changes the memory,
\* within its range; a range past the last address matters only to a request
\* that reaches the memory.
Atiende ==
    /\ estado = "BLOCKED_IO"
    /\ estado' \in {"READY", "ERROR_IO", "caida"}
    /\ estado' = "READY" => ~pedido.desborda \/ Trato \notin Lecturas \cup Escrituras
    /\ estado' = "caida" => pedido.desborda /\ Trato \in Lecturas \cup Escrituras
    /\ pedido' = SinPedido
    /\ IF estado' = "READY" /\ Trato \in Lecturas
       THEN /\ mem' \in Seq(Byte) /\ Len(mem') = Len(mem)
            /\ \A k \in DOMAIN mem : k - 1 \notin Range(pedido.dirs) => mem'[k] = mem[k]
       ELSE UNCHANGED mem
    /\ IF estado' = "READY" /\ Trato = <<"STDOUT", "IO_STDOUT_WRITE">>
       THEN salida' = [k \in DOMAIN pedido.dirs |-> mem[pedido.dirs[k] + 1]]
       ELSE UNCHANGED salida
    /\ UNCHANGED <<file, regs>>

Reanuda ==
    /\ estado \in {"READY", "RUNNING_QUANTUM", "RUNNING_SIGNAL", "BLOCKED_WAIT"}
    /\ estado' = "RUNNING"
    /\ UNCHANGED <<file, regs, mem, pedido, salida>>

Exit ==
    /\ Ejecuta({"EXIT"})
    /\ Termina("TERMINATED") \/ Termina("TERMINATED_USER")

\* A line that is no instruction.
Desconocida ==
    /\ Ejecuta({"UNKNOWN"})
    /\ Termina("ERROR") \/ Termina("TERMINATED_USER")

\* A line without all of its words, or no line: there is no answer to these.
Cae ==
    /\ estado = "RUNNING"
    /\ regs["PC"] >= Len(file) \/ ~Completa
    /\ Termina("caida")

Init ==
    /\ regs = [r \in Cortos \cup Largos |-> 0]
    /\ mem = <<>> /\ estado = "READY" /\ pedido = SinPedido /\ salida = <<>>

Next ==
    \/ Calculo \/ Jnz \/ MovOut \/ MovIn \/ CopyString \/ Resize \/ Semaforo
    \/ PideSinMemoria \/ PideConMemoria \/ Atiende \/ Reanuda \/ Exit
    \/ Desconocida \/ Cae

Spec == Init /\ [][Next]_vars

=============================================================================
