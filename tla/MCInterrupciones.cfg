\* Timers and a kill at any time, also before the first PCB reaches the CPU;
\* fair threads.
SPECIFICATION FairSpec
CONSTANTS
    Procesos = {p1, p2}
    Nadie = Nadie
    HayQuantum = TRUE
    Resultados = {"RUNNING", "BLOCKED_WAIT"}
    MaxRafagas = 2
    MaxPedidos = 1
INVARIANTS
    InterrupcionesTypeOK
    KillSinRastro
PROPERTIES
    InterrupcionAcertada
    QuantumVence
CHECK_DEADLOCK FALSE
