----------------------------- MODULE LargoPlazo -----------------------------
(***************************************************************************)
(* The long-term scheduler (largo_plazo.c): admits processes from NEW      *)
(* while the degree of multiprogramming allows.                            *)
(***************************************************************************)
EXTENDS KernelEstado

LargoMulti ==
    /\ largo = "multi" /\ cont_multi > 0
    /\ cont_multi' = cont_multi - 1
    /\ largo' = "hay_new"
    /\ UNCHANGED <<colaVars, multiprogramacion, esperas, pcbVars, recVars,
                   ioVars, finVars, cortoVars, consVars, planVars, caido>>

\* Mutant: the semaphore is decremented without waiting.
Mut_LargoHayNew ==
    /\ largo = "hay_new"
    /\ hay_new' = hay_new - 1
    /\ largo' = "check"
    /\ UNCHANGED <<queue_new, queue_ready, queue_priority_ready, hay_ready,
                   multiVars, pcbVars, recVars, ioVars, finVars, cortoVars,
                   consVars, planVars, caido>>
LargoHayNew ==
    /\ largo = "hay_new" /\ hay_new > 0
    /\ hay_new' = hay_new - 1
    /\ largo' = "check"
    /\ UNCHANGED <<queue_new, queue_ready, queue_priority_ready, hay_ready,
                   multiVars, pcbVars, recVars, ioVars, finVars, cortoVars,
                   consVars, planVars, caido>>

LargoCheck ==
    /\ largo = "check" /\ check_plani
    /\ largo' = "pop"
    /\ UNCHANGED <<datos, cortoVars, consVars, planVars, caido>>

\* Only this thread pops queue_new, so the pop and the push to queue_ready
\* are one step.
LargoAdmite ==
    /\ largo = "pop" /\ queue_new # <<>>
    /\ LET p == Head(queue_new) IN
        /\ queue_new' = Tail(queue_new)
        /\ status' = [status EXCEPT ![p] = "READY"]
        /\ queue_ready' = Append(queue_ready, p)
    /\ hay_ready' = hay_ready + 1
    /\ largo' = "multi"
    /\ UNCHANGED <<queue_priority_ready, hay_new, multiVars, quantum, recursos,
                   recVars, ioVars, finVars, cortoVars, consVars, planVars,
                   caido>>

Largo == LargoMulti \/ LargoHayNew \/ LargoCheck \/ LargoAdmite

=============================================================================
