------------------------- MODULE CicloDeVidaProofs --------------------------
(***************************************************************************)
(* Proof that the life cycle keeps the processes in memory within the      *)
(* slots, for any number of processes and slots.                           *)
(***************************************************************************)
EXTENDS CicloDeVida, FiniteSetTheorems, TLAPS

\* What the kernel's instance gives: finitely many processes, numbers of slots.
CicloSupuesto == IsFiniteSet(Pids) /\ Cupos \subseteq Nat

CicloInv == CicloTypeOK /\ CabenEnCupo

\* A transition that admits nobody leaves no more processes in memory.
LEMMA PasaSinAdmitir ==
    ASSUME CicloSupuesto, CicloInv, NEW p \in Pids, NEW desde, NEW hacia \in Estados,
           Pasa(p, desde, hacia),
           hacia \in {"READY", "EXEC", "BLOCKED"} => p \in EnMemoria
    PROVE  CicloInv'
<1>1. CicloTypeOK'
  BY DEF CicloInv, CicloTypeOK, Pasa
<1>2. EnMemoria' \subseteq EnMemoria
  BY DEF CicloInv, CicloTypeOK, Pasa, EnMemoria
<1>3. IsFiniteSet(EnMemoria)
  BY FS_Subset DEF CicloSupuesto, EnMemoria
<1>4. /\ Cardinality(EnMemoria') <= Cardinality(EnMemoria)
      /\ Cardinality(EnMemoria) \in Nat /\ Cardinality(EnMemoria') \in Nat
  BY <1>2, <1>3, FS_Subset, FS_CardinalityType
<1>5. cupo' = cupo /\ cupo \in Nat
  BY DEF CicloSupuesto, CicloInv, CicloTypeOK, Pasa
<1> QED
  BY <1>1, <1>4, <1>5 DEF CicloInv, CabenEnCupo

\* Admitting takes one slot, and there was one.
LEMMA AdmiteCabe ==
    ASSUME CicloSupuesto, CicloInv, NEW p \in Pids, Admite(p)
    PROVE  CicloInv'
<1>1. CicloTypeOK'
  BY DEF CicloInv, CicloTypeOK, Admite, Pasa, Estados
<1>2. EnMemoria' = EnMemoria \cup {p} /\ p \notin EnMemoria
  BY DEF CicloInv, CicloTypeOK, Admite, Pasa, EnMemoria
<1>3. IsFiniteSet(EnMemoria)
  BY FS_Subset DEF CicloSupuesto, EnMemoria
<1>4. /\ Cardinality(EnMemoria') = Cardinality(EnMemoria) + 1
      /\ Cardinality(EnMemoria) \in Nat
  BY <1>2, <1>3, FS_AddElement, FS_CardinalityType
<1>5. cupo' = cupo /\ cupo \in Nat /\ Cardinality(EnMemoria) < cupo
  BY DEF CicloSupuesto, CicloInv, CicloTypeOK, Admite, Pasa
<1> QED
  BY <1>1, <1>4, <1>5 DEF CicloInv, CabenEnCupo

\* In every reachable state the processes in memory are no more than the
\* slots in force: what CumpleCiclo then says of the kernel's degree of
\* multiprogramming.
THEOREM CabenSiempre ==
    ASSUME CicloSupuesto
    PROVE  CicloSpec => []CabenEnCupo
<1>1. CicloInit => CicloInv
  <2> SUFFICES ASSUME CicloInit PROVE CicloInv
    OBVIOUS
  <2>1. EnMemoria = {}
    BY DEF CicloInit, EnMemoria
  <2>2. CicloTypeOK /\ cupo \in Nat
    BY DEF CicloSupuesto, CicloInit, CicloTypeOK, Estados
  <2> QED
    BY <2>1, <2>2, FS_EmptySet DEF CicloInv, CabenEnCupo
<1>2. CicloInv /\ [CicloNext]_<<estado, cupo>> => CicloInv'
  <2> SUFFICES ASSUME CicloInv, [CicloNext]_<<estado, cupo>> PROVE CicloInv'
    OBVIOUS
  <2>1. CASE CambiaCupo
    <3>1. CicloTypeOK'
      BY <2>1 DEF CambiaCupo, CicloInv, CicloTypeOK
    <3>2. EnMemoria' = EnMemoria /\ Cardinality(EnMemoria) <= cupo'
      BY <2>1 DEF CambiaCupo, EnMemoria
    <3> QED
      BY <3>1, <3>2 DEF CicloInv, CabenEnCupo
  <2>2. ASSUME NEW p \in Pids, Admite(p) PROVE CicloInv'
    BY <2>2, AdmiteCabe
  <2>3. ASSUME NEW p \in Pids,
               Crea(p) \/ Despacha(p) \/ Desaloja(p) \/ Bloquea(p) \/ Despierta(p) \/ Termina(p)
        PROVE  CicloInv'
    BY <2>3, PasaSinAdmitir
       DEF Crea, Despacha, Desaloja, Bloquea, Despierta, Termina, Pasa, EnMemoria, Estados
  <2>4. CASE UNCHANGED <<estado, cupo>>
    BY <2>4 DEF CicloInv, CicloTypeOK, CabenEnCupo, EnMemoria
  <2> QED
    BY <2>1, <2>2, <2>3, <2>4 DEF CicloNext
<1>3. CicloInv => CabenEnCupo
  BY DEF CicloInv
<1> QED
  BY <1>1, <1>2, <1>3, PTL DEF CicloSpec

=============================================================================
