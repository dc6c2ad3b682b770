\* Stops between saves and sizes from 2^31 on: three files, one mishap, no
\* contents.
SPECIFICATION Spec
CONSTANTS
    A = A
    B = B
    C = C
    Archivos = {A, B, C}
    N = 8
    BlockSize = 2
    Tamanios <- MCTamanios
    Punteros = {16}
    MaxEscrituras = 0
    MaxPercances = 1
SYMMETRY Simetria
INVARIANTS
    DialTypeOK
    BloquesPropios
    CompactacionCabe
    HuecoValido
\* The model stops when a byte outside the bitmap is touched.
CHECK_DEADLOCK FALSE
