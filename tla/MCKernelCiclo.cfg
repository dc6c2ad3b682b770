\* Scheduling, blocking and endings with no operator but INICIAR_PROCESO:
\* one resource of one unit, one interface that may disconnect.
SPECIFICATION Spec
CONSTANTS
    MaxPid = 3
    Interfaces = {"GENERICA"}
    Recursos = {"RA"}
    Instancias <- UnaInstancia
    Algoritmo = "VRR"
    GradoInicial = 2
    Comandos = {}
    Grados = {}
    Retornos = {"EXIT", "IO", "WAIT", "SIGNAL"}
    RespuestasIO = {"IO_SUCCESS", "IO_ERROR", "DESCONEXION"}
    MaxEsperas = 0
    MaxExtra = 0
INVARIANTS
    TypeOK
    UnSoloLugar
    ExclusionRecursos
\* The kernel waits for commands when nothing is ready, and stops when it
\* crashes.
CHECK_DEADLOCK FALSE
