\* The degree of multiprogramming is raised and lowered while processes come
\* and go.
SPECIFICATION Spec
CONSTANTS
    MaxPid = 2
    Interfaces = {"GENERICA"}
    Recursos = {}
    Instancias <- UnaInstancia
    Algoritmo = "RR"
    GradoInicial = 1
    Comandos = {"FINALIZAR", "MULTIPROGRAMACION"}
    Grados = {1, 2}
    Retornos = {"EXIT", "IO"}
    RespuestasIO = {"IO_SUCCESS", "DESCONEXION"}
    MaxEsperas = 1
    MaxExtra = 0
INVARIANT GradoMultiprogramacion
PROPERTY CumpleCiclo
CHECK_DEADLOCK FALSE
