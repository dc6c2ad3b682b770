\* Four-byte registers and pages of two bytes: a word falls on two or three
\* pages.
SPECIFICATION Spec
CONSTANTS
    Base = 2
    Ancho = 4
    TamPagina = 2
    CantMarcos = 4
    Programas <- MCProgramas
    Interfaces <- MCInterfaces
    Recursos <- MCRecursos
    Disputados = {0, 2}
    Memorias <- MCMemorias
INVARIANT
    CpuTypeOK
PROPERTIES
    AjenosIntactos
    CumpleMaquina
\* The program may have ended.
CHECK_DEADLOCK FALSE
