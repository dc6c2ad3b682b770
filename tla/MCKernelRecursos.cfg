\* What pcb_protocol.h says of the list of resources of a process.
SPECIFICATION Spec
CONSTANTS
    MaxPid = 2
    Interfaces = {}
    Recursos = {"RA"}
    Instancias <- UnaInstancia
    Algoritmo = "RR"
    GradoInicial = 2
    Comandos = {}
    Grados = {}
    Retornos = {"EXIT", "INTERRUPT", "WAIT"}
    RespuestasIO = {}
    MaxEsperas = 0
    MaxExtra = 0
INVARIANT RecursosRegistrados
CHECK_DEADLOCK FALSE
