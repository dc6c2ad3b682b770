\* Liveness: scheduling with blocking and SIGNALs, no operator;
\* a process may hold two units of the resource.
SPECIFICATION FairSpec
CONSTANTS
    MaxPid = 2
    Interfaces = {"GENERICA"}
    Recursos = {"RA"}
    Instancias <- DosInstancias
    Algoritmo = "VRR"
    GradoInicial = 2
    Comandos = {}
    Grados = {}
    Retornos = {"EXIT", "INTERRUPT", "IO", "WAIT", "SIGNAL"}
    RespuestasIO = {"IO_SUCCESS"}
    MaxEsperas = 0
    MaxExtra = 0
INVARIANT ListaRespaldada
PROPERTIES
    SinInanicion
    PedidoAtendido
    DespiertaAlTerminar
CHECK_DEADLOCK FALSE
