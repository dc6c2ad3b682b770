------------------------------- MODULE MCCpu -------------------------------
(* Scripts and user memories of the TLC runs of Cpu.  *)
EXTENDS Cpu

MCInterfaces == [ESPERA |-> "GENERICA", TECLADO |-> "STDIN", MONITOR |-> "STDOUT", FS |-> "DIALFS"]
MCRecursos == {"RA"}

\* Each byte of the user memory differs from its neighbours' in some frame.
MCMemorias == {[k \in 1 .. CantMarcos * TamPagina |-> ((k * k) \div 3) % Base]}

Prologos ==
    { << <<"RESIZE", 5>>, <<"SET", "EAX", 15>>, <<"SET", "SI", 1>>, <<"SET", "DI", 2>> >>,
      << <<"RESIZE", 8>>, <<"SET", "AX", 1>>, <<"SET", "DI", 3>>, <<"MOV_OUT", "AX", "DI">> >> }

Lineas ==
    { <<"SUM", "AX", "EAX">>, <<"SUM", "EAX", "AX">>, <<"SUB", "AX", "DI">>, <<"SUB", "SI", "DI">>,
      <<"SUM", "PC", "AX">>, <<"SET", "XX", 6>>, <<"SET", "BX", 3>>, <<"SET", "SI", NoNumerico>>,
      <<"JNZ", "AX", 5>>, <<"JNZ", "EAX", 6>>,
      <<"MOV_OUT", "SI", "EAX">>, <<"MOV_OUT", "AX", "EAX">>, <<"MOV_OUT", "DI", "AX">>,
      <<"MOV_IN", "ECX", "SI">>, <<"MOV_IN", "DX", "DI">>, <<"MOV_IN", "EDX", "EAX">>,
      <<"COPY_STRING", 3>>, <<"COPY_STRING", 0>>, <<"COPY_STRING", 15>>,
      <<"RESIZE", 3>>, <<"RESIZE", 7>>, <<"RESIZE", 0>>,
      <<"WAIT", "RA">>, <<"SIGNAL", "RA">>, <<"WAIT", "RX">>,
      <<"IO_GEN_SLEEP", "ESPERA", 1>>, <<"IO_GEN_SLEEP", "NO", 1>>, <<"IO_GEN_SLEEP", "TECLADO", 1>>,
      <<"IO_STDIN_READ", "TECLADO", "SI", "DI">>, <<"IO_STDOUT_WRITE", "MONITOR", "SI", "DI">>,
      <<"IO_STDOUT_WRITE", "MONITOR", "SI", "EAX">>, <<"IO_STDIN_READ", "TECLADO", "SI", "EAX">>,
      <<"IO_FS_READ", "FS", "f", "SI", "EAX", "AX">>, <<"IO_STDIN_READ", "ESPERA", "AX", "DI">>,
      <<"IO_FS_READ", "FS", "f", "AX", "DI", "AX">>, <<"IO_FS_WRITE", "FS", "f", "SI", "DI", "AX">>,
      <<"IO_STDIN_READ", "FS", "SI", "EAX">>, <<"IO_STDOUT_WRITE", "FS", "SI", "EAX">>,
      <<"IO_FS_WRITE", "FS", "f", "SI", "EAX", "AX">>, <<"IO_FS_READ", "ESPERA", "f", "SI", "EAX", "AX">>,
      <<"IO_FS_CREATE", "FS", "f">>, <<"IO_FS_TRUNCATE", "FS", "f", "DI">>,
      <<"EXIT">>, <<"UNKNOWN">>, <<"SUM", "AX">> }

MCProgramas == {p \o <<i, j>> : p \in Prologos, i \in Lineas, j \in Lineas}
=============================================================================
