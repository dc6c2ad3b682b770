\* Ends and resizes of three processes, without TLB.
SPECIFICATION SpecJusta
CONSTANTS
    P1 = P1
    P2 = P2
    P3 = P3
    Nadie = Nadie
    Pids = {P1, P2, P3}
    CantMarcos = 2
    NumeroEntradas = 0
    EsLRU = FALSE
    MaxPaginas = 1
    MaxTramo = 1
INVARIANTS
    MarcosExclusivos
    SinMarcosPerdidos
PROPERTIES
    MemoriaDevuelta
\* All processes may have ended.
CHECK_DEADLOCK FALSE
