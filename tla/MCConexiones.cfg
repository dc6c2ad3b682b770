\* Interfaces of three types, strings of two lengths, up to two frames.
SPECIFICATION Spec
CONSTANTS
    Cadenas = {"a", "dato"}
    Largo <- MCLargo
    Pids = {1}
    MaxFrames = 2
    Tipos = {"GENERICA", "STDOUT", "DIALFS"}
    MaxCola = 1
    MaxEnVuelo = 2
INVARIANTS
    Entendidos
    NadieEsperaEnVano
