---------------------------- MODULE CicloDeVida -----------------------------
(***************************************************************************)
(* What the kernel's scheduling promises, without queues, threads or       *)
(* semaphores: the five-state life of a process (pid_status), at most one  *)
(* process in EXEC, and no more processes admitted than there are slots.   *)
(* A slot in use is never withdrawn: lowering the degree of                *)
(* multiprogramming takes effect as slots become free.                     *)
(***************************************************************************)
EXTENDS Integers, FiniteSets

CONSTANTS
    Pids,       \* processes that may ever be created
    Cupos       \* numbers of slots there may be

VARIABLES
    estado,     \* state of each process
    cupo        \* slots: degree of multiprogramming still in force

Estados == {"NONE", "NEW", "READY", "EXEC", "BLOCKED", "EXIT"}
EnMemoria == {p \in Pids : estado[p] \in {"READY", "EXEC", "BLOCKED"}}

CicloTypeOK == estado \in [Pids -> Estados] /\ cupo \in Cupos

CicloInit ==
    /\ estado = [p \in Pids |-> "NONE"]
    /\ cupo \in Cupos

\* p goes from a state of desde to hacia.
Pasa(p, desde, hacia) ==
    /\ estado[p] \in desde
    /\ estado' = [estado EXCEPT ![p] = hacia]
    /\ UNCHANGED cupo

Crea(p) == Pasa(p, {"NONE"}, "NEW")
Admite(p) == Cardinality(EnMemoria) < cupo /\ Pasa(p, {"NEW"}, "READY")
Despacha(p) == (\A q \in Pids : estado[q] # "EXEC") /\ Pasa(p, {"READY"}, "EXEC")
Desaloja(p) == Pasa(p, {"EXEC"}, "READY")
Bloquea(p) == Pasa(p, {"EXEC"}, "BLOCKED")
Despierta(p) == Pasa(p, {"BLOCKED"}, "READY")
Termina(p) == Pasa(p, {"READY", "EXEC", "BLOCKED"}, "EXIT")

CambiaCupo ==
    /\ cupo' \in {n \in Cupos : Cardinality(EnMemoria) <= n}
    /\ UNCHANGED estado

CicloNext ==
    \/ CambiaCupo
    \/ \E p \in Pids : \/ Crea(p) \/ Admite(p) \/ Despacha(p) \/ Desaloja(p)
                       \/ Bloquea(p) \/ Despierta(p) \/ Termina(p)

CicloSpec == CicloInit /\ [][CicloNext]_<<estado, cupo>>

\* The processes in memory always fit in the slots, although the number of
\* slots changes while they run (GRADO_MULTIPROGRAMACION, MULTIPROGRAMACION).
CabenEnCupo == Cardinality(EnMemoria) <= cupo

=============================================================================
