\* Contents: one byte of bitmap, two bytes per block, three files, no stop.
SPECIFICATION Spec
CONSTANTS
    A = A
    B = B
    C = C
    Archivos = {A, B, C}
    N = 8
    BlockSize = 2
    Tamanios = {1, 5}
    Punteros = {0}
    MaxEscrituras = 1
    MaxPercances = 0
SYMMETRY Simetria
INVARIANTS
    SinFugas
    DiscoAlDia
    ContenidoIntacto
\* The model stops when a byte outside the blocks is touched.
CHECK_DEADLOCK FALSE
