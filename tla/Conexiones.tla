---------------------------- MODULE Conexiones ----------------------------
(***************************************************************************)
(* The connections of the system with the threads at both ends: kernel-cpu *)
(* (dispatch and interrupt), cpu-memoria, kernel-memoria, which the        *)
(* console and the threads that end a process share, kernel-interface and  *)
(* interface-memoria.  A send puts a whole message on its connection; a    *)
(* receiver waits for the bytes it asks for (MSG_WAITALL).  What each      *)
(* thread says, and how it reads, is in Protocolo.                         *)
(***************************************************************************)
EXTENDS Protocolo

CONSTANTS
    Tipos,          \* types the connected interface may have
    MaxCola,        \* requests of IO on their way or being served (bound)
    MaxEnVuelo      \* messages on their way, the answers of memoria apart,
                    \* when a thread begins something new (bound)

ASSUME ConexionesAssumption == MaxCola \in Nat \ {0} /\ MaxEnVuelo \in Nat \ {0}

VARIABLES
    canal,          \* bytes sent and not received, in each direction
    cpu,            \* dispatch: what it does, or what it asked of memoria
    corto,          \* the kernel's short-term thread
    pedido,         \* its request of IO, received before the PCB
    queue_io,       \* requests for the interface
    io_client,      \* the interface's thread in the kernel
    consola,        \* the console: what it asked of memoria
    interfaz,       \* the interface: type, what it does, operation it serves
    to_send,        \* its answer
    por_acceder,    \* frames it has yet to read or write
    memoria,        \* the request each thread of memoria has yet to answer
    \* ghosts: the meaning of what is in canal, and whether the receiver of
    \* each direction has understood it all so far
    dicho, entendido

red        == <<canal, dicho, entendido>>
dispatch   == <<cpu, corto>>
kernel_io  == <<pedido, queue_io, io_client>>
del_io     == <<interfaz, to_send, por_acceder>>
vars       == <<red, dispatch, kernel_io, del_io, consola, memoria>>

Clientes == {"cpu", "kernel", "io"}       \* memoria has a thread for each
A == [cpu |-> "cpu_mem", kernel |-> "kernel_mem", io |-> "io_mem"]
De == [cpu |-> "mem_cpu", kernel |-> "mem_kernel", io |-> "mem_io"]
Canales == Range(A) \cup Range(De) \cup
           {"kernel_cpu", "cpu_kernel", "interrupt", "kernel_io", "io_kernel"}

SinPedido == [instr |-> <<>>, buffer |-> <<>>, pide |-> [op |-> "", args |-> <<>>]]
NombreIo == CHOOSE s \in Cadenas : TRUE

Init ==
    /\ canal = [c \in Canales |-> <<>>] /\ dicho = [c \in Canales |-> <<>>]
    /\ entendido = [c \in Canales |-> TRUE]
    /\ cpu = "inicio" /\ corto = "manda" /\ pedido = SinPedido /\ queue_io = <<>>
    /\ io_client = "nuevo" /\ consola = "libre"
    /\ interfaz \in [tipo : Tipos, en : {"saluda"}, op : {""}]
    /\ to_send = "IO_ERROR" /\ por_acceder = 0
    /\ memoria = [c \in Clientes |-> ""]

Envia(c, bytes, m) ==
    /\ canal' = [canal EXCEPT ![c] = @ \o bytes]
    /\ dicho' = [dicho EXCEPT ![c] = Append(@, m)]
    /\ UNCHANGED entendido

\* The receiver waits for r.n bytes and understands r.m.
Recibe(c, recibe) ==
    /\ canal[c] # <<>>
    /\ \E r \in {recibe} :
        /\ Len(canal[c]) >= r.n
        /\ canal' = [canal EXCEPT ![c] = Trozo(@, r.n, Len(@))]
        /\ dicho' = [dicho EXCEPT ![c] = IF @ = <<>> THEN @ ELSE Tail(@)]
        /\ entendido' = [entendido EXCEPT ![c] =
                @ /\ dicho[c] # <<>> /\ r.m.op = Head(dicho[c]).op
                  /\ r.m.args = Head(dicho[c]).args]

\* A thread may begin a new exchange.
Inicia == FoldFunctionOnSet(LAMBDA m, n : Len(m) + n, 0, dicho, Canales \ Range(De))
            < MaxEnVuelo

Dice(op, args) == [op |-> op, args |-> args]
EnviaPcb(c) ==
    \E p \in Pids, s \in Cadenas :
        Envia(c, Paquete("PCB", agregar_pcb_paquete(Pcb(p, s))),
              Dice("PCB", EnOrden(Pcb(p, s))))
RecibePcb(c) ==
    Recibe(c, TomaBuffer(canal[c], EnOrden(recibir_pcb(Buffer(canal[c])))))

-----------------------------------------------------------------------------
(* memoria: a thread for each connection.                                  *)

MemRecibe(c) ==
    /\ memoria[c] = ""
    /\ LET t == recibir_mem(canal[A[c]]) IN
        /\ Recibe(A[c], t)
        /\ memoria' = [memoria EXCEPT ![c] = IF t.m.op = "END_PID" THEN "" ELSE t.m.op]
    /\ UNCHANGED <<dispatch, kernel_io, del_io, consola>>

MemResponde(c) ==
    /\ memoria[c] # ""
    /\ \E r \in Respuestas(memoria[c]) : Envia(De[c], r.bytes, r.dicho)
    /\ memoria' = [memoria EXCEPT ![c] = ""]
    /\ UNCHANGED <<dispatch, kernel_io, del_io, consola>>

-----------------------------------------------------------------------------
(* cpu: main.c, cpu.c and the instructions.                                *)

CpuInicia ==
    /\ cpu = "inicio"
    /\ Envia("cpu_mem", Op("MEM_PAGE_SIZE"), Dice("MEM_PAGE_SIZE", <<>>))
    /\ cpu' = "MEM_PAGE_SIZE"
    /\ UNCHANGED <<corto, kernel_io, del_io, consola, memoria>>

CpuRecibePcb ==
    /\ cpu = "libre"
    /\ RecibePcb("kernel_cpu")
    /\ cpu' = "ejecuta"
    /\ UNCHANGED <<corto, kernel_io, del_io, consola, memoria>>

CpuPide ==
    /\ cpu = "ejecuta" /\ Inicia
    /\ \E p \in PedidosCpu : Envia("cpu_mem", PaqueteMem(p), p) /\ cpu' = p.op
    /\ UNCHANGED <<corto, kernel_io, del_io, consola, memoria>>

Esperables == {"MEM_PAGE_SIZE", "INSTRUCTION", "MEM_PID_PAGE", "MEM_RESIZE", "MEM_READ",
               "MEM_WRITE"}
CpuObtiene ==
    /\ cpu \in Esperables
    /\ Recibe("mem_cpu", recibir_respuesta(cpu, canal["mem_cpu"]))
    /\ cpu' = IF cpu = "MEM_PAGE_SIZE" THEN "libre" ELSE "ejecuta"
    /\ UNCHANGED <<corto, kernel_io, del_io, consola, memoria>>

EnCurso == Len(queue_io) + (IF pedido = SinPedido THEN 0 ELSE 1)
                         + (IF io_client = "espera" THEN 1 ELSE 0)

\* A request of IO or of a resource goes before the PCB.
CpuPideIo ==
    /\ cpu = "ejecuta" /\ Inicia
    /\ EnCurso < MaxCola
    /\ \E s \in Cadenas, p \in PedidosIo :
        Envia("cpu_kernel", PaqueteIo(s, p),
              [op |-> "IO", pide |-> p,
               args |-> <<U32("instr", p.op), Cadena("nombre", s), Contenido(p)>>])
    /\ cpu' = "devuelve"
    /\ UNCHANGED <<corto, kernel_io, del_io, consola, memoria>>

CpuSemaforo ==
    /\ cpu = "ejecuta" /\ Inicia
    /\ \E s \in Cadenas, op \in {"WAIT_RECURSO", "SIGNAL_RECURSO"} :
        Envia("cpu_kernel", Paquete(op, Cadena("recurso", s)),
              Dice(op, <<Cadena("recurso", s)>>))
    /\ cpu' = "devuelve"
    /\ UNCHANGED <<corto, kernel_io, del_io, consola, memoria>>

CpuDevuelve ==
    /\ cpu = "devuelve" \/ (cpu = "ejecuta" /\ Inicia)
    /\ EnviaPcb("cpu_kernel")
    /\ cpu' = "libre"
    /\ UNCHANGED <<corto, kernel_io, del_io, consola, memoria>>

-----------------------------------------------------------------------------
(* kernel: corto_plazo.c, quantum.c.                                       *)

EnviarCpu ==
    /\ corto = "manda"
    /\ EnviaPcb("kernel_cpu")
    /\ corto' = "espera"
    /\ UNCHANGED <<cpu, kernel_io, del_io, consola, memoria>>

\* esperar_cpu: the first message.
EsperarCpu ==
    /\ corto = "espera"
    /\ LET b == canal["cpu_kernel"]
           campos == recibir_io(Buffer(b)) IN
        CASE OpDe(b) = "PCB" ->
                RecibePcb("cpu_kernel") /\ corto' = "manda" /\ UNCHANGED pedido
          [] OpDe(b) = "IO" ->
                /\ Recibe("cpu_kernel", TomaBuffer(b, campos))
                /\ corto' = "espera_pcb"
                /\ pedido' = IF campos[2] # Cadena("nombre", NombreIo) \/ io_client = "nuevo"
                             THEN SinPedido
                             ELSE [instr |-> campos[1], buffer |-> campos[3],
                                   pide |-> Head(dicho["cpu_kernel"]).pide]
          [] OpDe(b) \in {"WAIT_RECURSO", "SIGNAL_RECURSO"} ->
                /\ Recibe("cpu_kernel", TomaBuffer(b, <<Buffer(b)>>))
                /\ corto' = "espera_pcb" /\ UNCHANGED pedido
          [] OTHER -> FALSE
    /\ UNCHANGED <<cpu, queue_io, io_client, del_io, consola, memoria>>

\* The PCB that follows; a request for an interface that is there is queued.
EsperarPcb ==
    /\ corto = "espera_pcb"
    /\ RecibePcb("cpu_kernel")
    /\ corto' = "manda" /\ pedido' = SinPedido
    /\ queue_io' = IF pedido = SinPedido THEN queue_io ELSE Append(queue_io, pedido)
    /\ UNCHANGED <<cpu, io_client, del_io, consola, memoria>>

\* interrupt_main, and the thread of the CPU that hears it.
Interrumpe ==
    /\ Inicia
    /\ \E p \in Pids, op \in {"INTERRUPT", "END_PID_USER"} :
        Envia("interrupt", Paquete(op, U32("pid", p)), Dice(op, <<U32("pid", p)>>))
    /\ UNCHANGED <<dispatch, kernel_io, del_io, consola, memoria>>

OyeInterrupcion ==
    /\ LET b == canal["interrupt"] IN
        Recibe("interrupt", Toma(12, OpDe(b), <<Trozo(b, 8, 4)>>))
    /\ UNCHANGED <<dispatch, kernel_io, del_io, consola, memoria>>

-----------------------------------------------------------------------------
(* kernel: consola.c, exit_proceso.c, one connection for both.             *)

ConsolaPide ==
    /\ consola = "libre" /\ Inicia
    /\ \E p \in PedidosKernel : Envia("kernel_mem", PaqueteMem(p), p) /\ consola' = p.op
    /\ UNCHANGED <<dispatch, kernel_io, del_io, memoria>>

ConsolaObtiene ==
    /\ consola # "libre"
    /\ Recibe("mem_kernel", recibir_respuesta(consola, canal["mem_kernel"]))
    /\ consola' = "libre"
    /\ UNCHANGED <<dispatch, kernel_io, del_io, memoria>>

FinalizaProceso ==
    /\ Inicia
    /\ \E p \in Pids : Envia("kernel_mem", Paquete("END_PID", U32("pid", p)),
                             Dice("END_PID", <<U32("pid", p)>>))
    /\ UNCHANGED <<dispatch, kernel_io, del_io, consola, memoria>>

-----------------------------------------------------------------------------
(* kernel: io.c.                                                           *)

IoClientConoce ==
    /\ io_client = "nuevo"
    /\ Recibe("io_kernel", TomaBuffer(canal["io_kernel"], <<Buffer(canal["io_kernel"])>>))
    /\ io_client' = "atiende"
    /\ UNCHANGED <<dispatch, pedido, queue_io, del_io, consola, memoria>>

\* What the interface should understand is what the program asked, if it is
\* of its kind.
IoClientManda ==
    /\ io_client = "atiende" /\ queue_io # <<>>
    /\ LET q == Head(queue_io) IN
        \E p \in Pids :
            Envia("kernel_io", Paquete("IO", agregar_io_serializado(p, q.instr, q.buffer)),
                  Dice("IO", <<U32("pid", p), q.instr>> \o
                        IF Sirve(interfaz.tipo, q.pide.op) THEN q.pide.args ELSE <<>>))
    /\ io_client' = "espera" /\ queue_io' = Tail(queue_io)
    /\ UNCHANGED <<dispatch, pedido, del_io, consola, memoria>>

IoClientOye ==
    /\ io_client = "espera"
    /\ Recibe("io_kernel", Toma(4, OpDe(canal["io_kernel"]), <<>>))
    /\ io_client' = "atiende"
    /\ UNCHANGED <<dispatch, pedido, queue_io, del_io, consola, memoria>>

-----------------------------------------------------------------------------
(* entradasalida: generica.c, stdin.c, stdout.c and the loop of dialfs.c.  *)

Saluda ==
    /\ interfaz.en = "saluda"
    /\ Envia("io_kernel", Paquete("MENSAJE", Cadena("nombre", NombreIo)),
             Dice("MENSAJE", <<Cadena("nombre", NombreIo)>>))
    /\ interfaz' = [interfaz EXCEPT !.en = "libre"]
    /\ UNCHANGED <<dispatch, kernel_io, to_send, por_acceder, consola, memoria>>

DeMemoria == {"IO_STDIN_READ", "IO_STDOUT_WRITE", "IO_FS_READ", "IO_FS_WRITE"}

\* DialFS leaves its answer as it was when it does not know the operation.  It
\* looks for the file of a read before it goes to memoria (hay), for that of a
\* write after.
IoRecibe ==
    /\ interfaz.en = "libre" /\ canal["kernel_io"] # <<>>
    /\ \E campos \in {recibir_io_serializado(Buffer(canal["kernel_io"]))}, hay \in BOOLEAN :
       LET op == campos[2][1][2]
           sirve == Sirve(interfaz.tipo, op)
           accede == sirve /\ op \in DeMemoria /\ (op = "IO_FS_READ" => hay) IN
        \E args \in {Entiende(interfaz.tipo, op, campos[3])} :
        /\ Recibe("kernel_io", TomaBuffer(canal["kernel_io"], <<campos[1], campos[2]>> \o args))
        /\ interfaz' = [interfaz EXCEPT !.op = op, !.en = IF accede THEN "accede" ELSE "responde"]
        /\ por_acceder' = IF ~accede THEN 0
                          ELSE IF op \in {"IO_STDIN_READ", "IO_STDOUT_WRITE"}
                               THEN (Len(args) - 1) \div 2
                               ELSE (Len(args) - 3) \div 2
        /\ to_send' \in IF interfaz.tipo # "DIALFS" THEN {IF sirve THEN "IO_SUCCESS" ELSE "IO_ERROR"}
                        ELSE IF ~sirve THEN {to_send}
                        ELSE IF op = "IO_FS_READ" THEN {IF hay THEN "IO_SUCCESS" ELSE "IO_ERROR"}
                        ELSE {"IO_SUCCESS", "IO_ERROR"}
    /\ UNCHANGED <<dispatch, kernel_io, consola, memoria>>

\* escribir_memoria or leer_memoria, a frame at a time.
IoAccede ==
    /\ interfaz.en = "accede" /\ por_acceder > 0
    /\ LET op == IF interfaz.op \in {"IO_STDIN_READ", "IO_FS_READ"} THEN "MEM_WRITE"
                                                                    ELSE "MEM_READ" IN
        /\ \E p \in {q \in PedidosCpu : q.op = op} : Envia("io_mem", PaqueteMem(p), p)
        /\ interfaz' = [interfaz EXCEPT !.en = op]
    /\ UNCHANGED <<dispatch, kernel_io, to_send, por_acceder, consola, memoria>>

IoAccedio ==
    /\ interfaz.en \in {"MEM_READ", "MEM_WRITE"}
    /\ Recibe("mem_io", recibir_respuesta(interfaz.en, canal["mem_io"]))
    /\ interfaz' = [interfaz EXCEPT !.en = IF por_acceder > 1 THEN "accede" ELSE "responde"]
    /\ por_acceder' = por_acceder - 1
    /\ UNCHANGED <<dispatch, kernel_io, to_send, consola, memoria>>

IoResponde ==
    /\ interfaz.en = "responde"
    /\ Envia("io_kernel", Op(to_send), Dice(to_send, <<>>))
    /\ interfaz' = [interfaz EXCEPT !.en = "libre", !.op = ""]
    /\ UNCHANGED <<dispatch, kernel_io, to_send, por_acceder, consola, memoria>>

-----------------------------------------------------------------------------
Memoria == \E c \in Clientes : MemRecibe(c) \/ MemResponde(c)
Cpu == \/ CpuInicia \/ CpuRecibePcb \/ CpuPide \/ CpuObtiene \/ CpuPideIo
       \/ CpuSemaforo \/ CpuDevuelve
Corto == EnviarCpu \/ EsperarCpu \/ EsperarPcb
Consola == ConsolaPide \/ ConsolaObtiene
IoClient == IoClientConoce \/ IoClientManda \/ IoClientOye
Interfaz == Saluda \/ IoRecibe \/ IoAccede \/ IoAccedio \/ IoResponde

Next ==
    \/ Memoria \/ Cpu \/ Corto \/ Consola \/ IoClient \/ Interfaz
    \/ Interrumpe \/ OyeInterrupcion \/ FinalizaProceso

Spec == Init /\ [][Next]_vars

-----------------------------------------------------------------------------
\* Every receiver takes the very bytes that were sent to it and cuts them into
\* the fields they were made of, up to the interface that reads what the CPU
\* wrote and the kernel only passed on; and nothing is left on a connection
\* when all that was said on it has been heard.
Entendidos ==
    \A c \in Canales : entendido[c] /\ (dicho[c] = <<>> => canal[c] = <<>>)

\* What the client of each thread of memoria has asked and awaits.
Espera == [cpu    |-> IF cpu \in Esperables THEN cpu ELSE "",
           kernel |-> IF consola # "libre" THEN consola ELSE "",
           io     |-> IF interfaz.en \in {"MEM_READ", "MEM_WRITE"} THEN interfaz.en ELSE ""]

\* No thread waits for bytes that nobody will send: whoever asked something of
\* memoria finds a whole request on its way, memoria at work on it, or an answer
\* as long as the one it reads, whatever the outcome; and whoever asked an
\* interface finds it busy or its code on its way.
NadieEsperaEnVano ==
    /\ \A c \in Clientes : Espera[c] # "" =>
        \E pide \in {canal[A[c]]}, b \in {canal[De[c]]} :
            \/ memoria[c] # ""
            \/ pide # <<>> /\ recibir_mem(pide).n <= Len(pide)
            \/ b # <<>> /\ recibir_respuesta(Espera[c], b).n <= Len(b)
    /\ io_client = "espera" =>
        \/ canal["kernel_io"] # <<>> \/ canal["io_kernel"] # <<>>
        \/ interfaz.en \notin {"saluda", "libre"}

=============================================================================
