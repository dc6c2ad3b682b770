\* The operator kills processes and stops and restarts planning at any time.
SPECIFICATION Spec
CONSTANTS
    MaxPid = 2
    Interfaces = {"GENERICA"}
    Recursos = {"RA"}
    Instancias <- UnaInstancia
    Algoritmo = "RR"
    GradoInicial = 2
    Comandos = {"FINALIZAR", "DETENER"}
    Grados = {}
    Retornos = {"EXIT", "INTERRUPT", "IO", "WAIT"}
    RespuestasIO = {"IO_SUCCESS", "DESCONEXION"}
    MaxEsperas = 0
    MaxExtra = 0
INVARIANTS
    SemaforosCuentanColas
    ColaRecursos
    CaidaExplicada
    PausaAcotada
    UnSoloLugar
CHECK_DEADLOCK FALSE
