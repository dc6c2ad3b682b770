\* A TLB of one entry with LRU, instructions that cross a page, two processes
\* that compete for two frames.
SPECIFICATION Spec
CONSTANTS
    P1 = P1
    P2 = P2
    Nadie = Nadie
    Pids = {P1, P2}
    CantMarcos = 2
    NumeroEntradas = 1
    EsLRU = TRUE
    MaxPaginas = 2
    MaxTramo = 2
SYMMETRY Simetria
INVARIANTS
    MmuTypeOK
    TlbCoherente
    DireccionesVigentes
    Aislamiento
\* All processes may have ended.
CHECK_DEADLOCK FALSE
