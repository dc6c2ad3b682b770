-------------------------- MODULE ConexionesProofs --------------------------
(***************************************************************************)
(* Proofs about Conexiones, for any strings, processes and frames, any     *)
(* types of interface and any number of messages on their way: every       *)
(* receiver understands what was sent, and nobody waits in vain.           *)
(*                                                                         *)
(* A connection holds messages that were sent, one after the other         *)
(* (Suena).  Whoever receives takes the first one exactly, whatever comes  *)
(* behind it, as long as it is of those its thread can read at that point; *)
(* so the invariant (Inv) is that, for every connection (Red), with what   *)
(* may have been said and not heard yet: between memoria and each of its   *)
(* clients (Atendidos), between the short-term thread and the CPU (Turnos) *)
(* and between an interface and its thread in the kernel (Tratos).         *)
(***************************************************************************)
EXTENDS Conexiones, Secuencias

-----------------------------------------------------------------------------
(* Bytes.                                                                  *)

\* What a field may be called, the operations, and what a field may say.
Nombres ==
    {"op", "n", "instr", "nombre", "pid", "pc", "quantum", "status", "ax", "bx", "cx", "dx",
     "eax", "ebx", "ecx", "edx", "si", "di", "reg_pc", "recursos", "tiempo", "archivo",
     "direccion_fisica", "bytes", "tam", "ptr", "info", "dato", "path", "tam_pagina",
     "marco", "recurso"}
Codigos ==
    {"PCB", "IO", "IO_GEN_SLEEP", "IO_FS_CREATE", "IO_FS_DELETE", "IO_FS_TRUNCATE",
     "IO_FS_READ", "IO_FS_WRITE", "IO_STDIN_READ", "IO_STDOUT_WRITE", "WAIT_RECURSO",
     "SIGNAL_RECURSO", "INTERRUPT", "END_PID_USER", "MENSAJE", "MEM_PAGE_SIZE",
     "INSTRUCTION", "MEM_PID_PAGE", "MEM_RESIZE", "MEM_READ", "MEM_WRITE", "MEM_SUCCESS",
     "MEM_ERROR", "INIT_PID", "INIT_SCRIPT", "INIT_PID_SUCCESS", "INIT_PID_ERROR",
     "INIT_SCRIPT_ERROR", "INIT_SCRIPT_SUCCESS", "END_PID", "IO_SUCCESS", "IO_ERROR"}
Valores == Codigos \cup {""} \cup Nat \cup Cadenas \cup Pids \cup {ToString(k) : k \in Nat}

Octeto == Nombres \X Valores \X Nat \X Nat
Octetos == Seq(Octeto)

\* A field is as long as its width.
LEMMA CampoDa ==
    ASSUME NEW nombre \in Nombres, NEW v \in Valores, NEW n \in Nat
    PROVE  /\ Campo(nombre, v, n) \in Octetos /\ Len(Campo(nombre, v, n)) = n
           /\ \A k \in 1 .. n : Campo(nombre, v, n)[k] = <<nombre, v, k, n>>
<1>1. ASSUME NEW k \in 1 .. n PROVE <<nombre, v, k, n>> \in Octeto
  <2>1. k \in Nat
    OBVIOUS
  <2> QED
    BY <2>1, Zenon DEF Octeto
<1> DEFINE c == Campo(nombre, v, n)
<1>2. c = [k \in 1 .. n |-> <<nombre, v, k, n>>]
  BY DEF Campo
<1>3. \A k \in 1 .. n : c[k] = <<nombre, v, k, n>>
  BY <1>2, Zenon
<1>4. c \in [1 .. n -> Octeto]
  BY <1>1, <1>2, Zenon
<1> HIDE DEF c
<1>5. c \in Seq(Octeto) /\ Len(c) = n
  BY <1>4
<1> QED
  BY <1>3, <1>5 DEF c, Octetos

\* The first bytes, those that follow them, and those in between.
LEMMA TrozoDa ==
    ASSUME NEW S, NEW a \in Seq(S), NEW b \in Seq(S)
    PROVE  /\ Trozo(a \o b, 0, Len(a)) = a
           /\ \A n \in Nat : n >= Len(b) => Trozo(a \o b, Len(a), n) = b
<1>1. /\ Len(a) \in Nat /\ Len(b) \in Nat /\ a \o b \in Seq(S) /\ Len(a \o b) = Len(a) + Len(b)
      /\ \A i \in 1 .. Len(a) + Len(b) :
            (a \o b)[i] = IF i <= Len(a) THEN a[i] ELSE b[i - Len(a)]
  BY ConcatProperties
<1> DEFINE s == a \o b
<1> HIDE DEF s
<1>2. \A i \in 1 .. Len(s) : s[i] \in S
  BY <1>1, ElementOfSeq DEF s
<1>3. Trozo(s, 0, Len(a)) = SubSeq(s, 1, Len(a))
  BY <1>1 DEF Trozo, s
<1>4. SubSeq(s, 1, Len(a)) = a
  <2>1. /\ SubSeq(s, 1, Len(a)) \in Seq(S) /\ Len(SubSeq(s, 1, Len(a))) = Len(a)
        /\ \A i \in 1 .. Len(a) : SubSeq(s, 1, Len(a))[i] = s[i]
    BY <1>1, <1>2 DEF s
  <2>2. \A i \in 1 .. Len(a) : s[i] = a[i]
    BY <1>1 DEF s
  <2> QED
    BY <2>1, <2>2, SeqEqual
<1>5. ASSUME NEW n \in Nat, n >= Len(b) PROVE Trozo(s, Len(a), n) = b
  <2>1. Trozo(s, Len(a), n) = SubSeq(s, Len(a) + 1, Len(s))
    BY <1>1, <1>5, SMTT(60) DEF Trozo, s
  <2>2. /\ SubSeq(s, Len(a) + 1, Len(s)) \in Seq(S)
        /\ Len(SubSeq(s, Len(a) + 1, Len(s))) = Len(b)
        /\ \A i \in 1 .. Len(b) : SubSeq(s, Len(a) + 1, Len(s))[i] = s[Len(a) + i]
    BY <1>1, <1>2 DEF s
  <2>3. \A i \in 1 .. Len(b) : s[Len(a) + i] = b[i]
    BY <1>1 DEF s
  <2> QED
    BY <2>1, <2>2, <2>3, SeqEqual
<1> QED
  BY <1>3, <1>4, <1>5 DEF s

\* Sequences of bytes laid one after the other.
LEMMA Pega ==
    ASSUME NEW a \in Octetos, NEW b \in Octetos
    PROVE  /\ a \o b \in Octetos /\ Len(a \o b) = Len(a) + Len(b)
           /\ Len(a) \in Nat /\ Len(b) \in Nat /\ a \o <<>> = a /\ <<>> \o a = a
           /\ <<>> \in Octetos
BY ConcatProperties, ConcatEmptySeq, EmptySeq DEF Octetos

\* Two by two.
LEMMA PegaAsocia ==
    ASSUME NEW a \in Octetos, NEW b \in Octetos, NEW c \in Octetos
    PROVE  (a \o b) \o c = a \o (b \o c)
BY ConcatAssociative, SMTT(60) DEF Octetos

\* And sequences of fields.
LEMMA PegaSecuencias ==
    ASSUME NEW a \in Seq(Octetos), NEW b \in Seq(Octetos), NEW c \in Seq(Octetos)
    PROVE  (a \o b) \o c = a \o (b \o c)
BY ConcatAssociative, SMTT(60)

\* What is at the head, and what follows it.
LEMMA TrozoOctetos ==
    ASSUME NEW a \in Octetos, NEW b \in Octetos
    PROVE  /\ Trozo(a \o b, 0, Len(a)) = a
           /\ Trozo(a \o b, Len(a), Len(a \o b)) = b
           /\ \A n \in Nat : n >= Len(b) => Trozo(a \o b, Len(a), n) = b
<1>1. Len(a \o b) \in Nat /\ Len(a \o b) >= Len(b)
  BY Pega
<1> QED
  BY <1>1, TrozoDa DEF Octetos

\* A part in the middle.
LEMMA TrozoMedio ==
    ASSUME NEW a \in Octetos, NEW b \in Octetos, NEW c \in Octetos
    PROVE  Trozo(a \o (b \o c), Len(a), Len(b)) = b
<1> DEFINE s == a \o (b \o c)
           s2 == (a \o b) \o c
<1>1. s = s2 /\ s2 \in Octetos /\ a \o b \in Octetos /\ b \o c \in Octetos
  <2>1. a \o b \in Octetos /\ b \o c \in Octetos
    BY Pega
  <2>2. s2 \in Octetos
    BY <2>1, Pega, Zenon
  <2> QED
    BY <2>1, <2>2, PegaAsocia, ZenonT(90)
<1>2. /\ Len(a) \in Nat /\ Len(b) \in Nat /\ Len(c) \in Nat
      /\ Len(s) = Len(a) + (Len(b) + Len(c)) /\ Len(b \o c) = Len(b) + Len(c)
  BY <1>1, Pega
<1>3. \A i \in 1 .. Len(b) : s[Len(a) + i] = b[i]
  <2> TAKE i \in 1 .. Len(b)
  <2>1. s[Len(a) + i] = (b \o c)[i]
    BY <1>1, <1>2, ConcatProperties DEF Octetos
  <2>2. (b \o c)[i] = b[i]
    BY <1>2, ConcatProperties DEF Octetos
  <2> QED
    BY <2>1, <2>2
<1>4. \A i \in 1 .. Len(s) : s[i] \in Octeto
  BY <1>1, ElementOfSeq DEF Octetos
<1> HIDE DEF s
<1>5. Trozo(s, Len(a), Len(b)) = SubSeq(s, Len(a) + 1, Len(a) + Len(b))
  BY <1>2, SMTT(60) DEF Trozo
<1> DEFINE u == SubSeq(s, Len(a) + 1, Len(a) + Len(b))
<1>6. u \in Seq(Octeto) /\ Len(u) = Len(b) /\ \A i \in 1 .. Len(b) : u[i] = s[Len(a) + i]
  BY <1>2, <1>4, SMTT(60)
<1> HIDE DEF u
<1>7. u = b
  BY <1>3, <1>6, SeqEqual DEF Octetos
<1> QED
  BY <1>5, <1>7 DEF s, u

\* A number is read as it was written.
LEMMA NumeroDa ==
    ASSUME NEW n \in Nat
    PROVE  Num(n) \in Octetos /\ Len(Num(n)) = 4 /\ Numero(Num(n)) = n
<1>1. Num(n) \in Octetos /\ Len(Num(n)) = 4 /\ Num(n)[1] = <<"n", n, 1, 4>>
  <2>1. n \in Valores
    BY Zenon DEF Valores
  <2>2. 1 \in 1 .. 4 /\ 4 \in Nat
    OBVIOUS
  <2>3. "n" \in Nombres
    BY DEF Nombres
  <2>4. Num(n) = Campo("n", n, 4)
    BY DEF Num
  <2>5. /\ Campo("n", n, 4) \in Octetos /\ Len(Campo("n", n, 4)) = 4
        /\ \A k \in 1 .. 4 : Campo("n", n, 4)[k] = <<"n", n, k, 4>>
    BY <2>1, <2>2, <2>3, CampoDa, Zenon
  <2> QED
    BY <2>2, <2>4, <2>5, Zenon
<1>2. Num(n)[1][2] = n
  BY <1>1
<1> QED
  BY <1>1, <1>2, Zenon DEF Numero

\* Nothing is read from nothing.
LEMMA NadaQueLeer ==
    /\ Numero(<<>>) = 0 /\ Len(<<>>) = 0
    /\ \A d \in Nat, n \in Nat : Trozo(<<>>, d, n) = <<>>
<1>1. Len(<<>>) = 0 /\ 0 # 4
  OBVIOUS
<1>2. Numero(<<>>) = 0
  BY <1>1, Zenon DEF Numero
<1>3. ASSUME NEW d \in Nat, NEW n \in Nat PROVE Trozo(<<>>, d, n) = <<>>
  <2>1. Trozo(<<>>, d, n) = SubSeq(<<>>, d + 1, 0)
    BY <1>1 DEF Trozo
  <2> QED
    BY <2>1, SubSeqEmpty
<1> QED
  BY <1>1, <1>2, <1>3

\* The operation at the head of what comes.
LEMMA OpDa ==
    ASSUME NEW op \in Codigos, NEW t \in Octetos
    PROVE  /\ Op(op) \in Octetos /\ Len(Op(op)) = 4
           /\ OpDe(Op(op) \o t) = op
<1>1. Op(op) \in Octetos /\ Len(Op(op)) = 4 /\ Op(op)[1] = <<"op", op, 1, 4>>
  <2>1. op \in Valores
    BY Zenon DEF Valores
  <2>2. 1 \in 1 .. 4 /\ 4 \in Nat
    OBVIOUS
  <2>3. "op" \in Nombres
    BY DEF Nombres
  <2>4. Op(op) = Campo("op", op, 4)
    BY DEF Op
  <2>5. /\ Campo("op", op, 4) \in Octetos /\ Len(Campo("op", op, 4)) = 4
        /\ \A k \in 1 .. 4 : Campo("op", op, 4)[k] = <<"op", op, k, 4>>
    BY <2>1, <2>2, <2>3, CampoDa, Zenon
  <2> QED
    BY <2>2, <2>4, <2>5, Zenon
<1>2. Op(op)[1][1] = "op" /\ Op(op)[1][2] = op
  BY <1>1
<1>3. Trozo(Op(op) \o t, 0, 4) = Op(op)
  BY <1>1, TrozoOctetos
<1> QED
  BY <1>1, <1>2, <1>3, Zenon DEF OpDe

\* A code alone.
LEMMA CodigoDa ==
    ASSUME NEW op \in Codigos
    PROVE  OpDe(Op(op)) = op
<1>1. <<>> \in Octetos
  BY EmptySeq DEF Octetos
<1>2. Op(op) \in Octetos /\ OpDe(Op(op) \o <<>>) = op
  BY <1>1, OpDa, Zenon
<1>3. Op(op) \o <<>> = Op(op)
  BY <1>2, Pega, Zenon
<1> QED
  BY <1>2, <1>3

\* The length, then the value.
LEMMA ConLargoDa ==
    ASSUME NEW x \in Octetos
    PROVE  ConLargo(x) \in Octetos /\ Len(ConLargo(x)) = 4 + Len(x)
<1>1. Len(x) \in Nat
  BY Pega
<1>2. Num(Len(x)) \in Octetos /\ Len(Num(Len(x))) = 4
  BY <1>1, NumeroDa, Zenon
<1>3. ConLargo(x) = Num(Len(x)) \o x
  BY DEF ConLargo
<1> QED
  BY <1>2, <1>3, Pega, Zenon

\* A packet at the head of what comes.
LEMMA PaqueteDa ==
    ASSUME NEW op \in Codigos, NEW s \in Octetos, NEW t \in Octetos
    PROVE  /\ Paquete(op, s) \in Octetos /\ Len(Paquete(op, s)) = 8 + Len(s)
           /\ Len(s) \in Nat
           /\ Paquete(op, s) \o t \in Octetos
           /\ OpDe(Paquete(op, s) \o t) = op
           /\ Buffer(Paquete(op, s) \o t) = s
           /\ Trozo(Paquete(op, s) \o t, 8, Len(s)) = s
           /\ \A args : TomaBuffer(Paquete(op, s) \o t, args) = Toma(8 + Len(s), op, args)
<1> DEFINE o == Op(op)
           n == Num(Len(s))
           b == Paquete(op, s) \o t
<1>1. Len(s) \in Nat /\ o \in Octetos /\ Len(o) = 4
  BY Pega, OpDa
<1>2. n \in Octetos /\ Len(n) = 4 /\ Numero(n) = Len(s)
  BY <1>1, NumeroDa
<1>3. Paquete(op, s) = (o \o n) \o s
  BY DEF Paquete
<1> HIDE DEF o, n
<1>4. o \o n \in Octetos /\ Len(o \o n) = 8
  <2>1. o \o n \in Octetos /\ Len(o \o n) = Len(o) + Len(n)
    BY <1>1, <1>2, Pega, Zenon
  <2> QED
    BY <1>1, <1>2, <2>1
<1>5. Paquete(op, s) \in Octetos /\ Len(Paquete(op, s)) = 8 + Len(s)
  BY <1>3, <1>4, Pega
<1>6. b \in Octetos
  BY <1>5, Pega
<1>7. s \o t \in Octetos /\ n \o (s \o t) \in Octetos
  BY <1>2, Pega
<1>8. b = (o \o n) \o (s \o t)
  BY <1>3, <1>4, PegaAsocia, SMTT(30)
<1>9. b = o \o (n \o (s \o t))
  BY <1>1, <1>2, <1>7, <1>8, PegaAsocia, ZenonT(90)
<1> HIDE DEF b
<1>10. OpDe(b) = op
  BY <1>7, <1>9, OpDa DEF o
<1>11. Trozo(b, 4, 4) = n
  <2>1. Trozo(o \o (n \o (s \o t)), Len(o), Len(n)) = n
    BY <1>1, <1>2, <1>7, TrozoMedio, Zenon
  <2> QED
    BY <1>1, <1>2, <1>9, <2>1, Zenon
<1>12. Trozo(b, 8, Len(s)) = s
  BY <1>4, <1>8, TrozoMedio, ZenonT(90)
<1>13. Buffer(b) = s
  BY <1>2, <1>11, <1>12 DEF Buffer
<1>14. \A args : TomaBuffer(b, args) = Toma(8 + Len(s), op, args)
  BY <1>2, <1>10, <1>11 DEF TomaBuffer
<1> QED
  BY <1>1, <1>5, <1>6, <1>10, <1>12, <1>13, <1>14 DEF b

-----------------------------------------------------------------------------
(* Fields.                                                                 *)

\* A field of a known width.
LEMMA CorteFijo ==
    ASSUME NEW f \in Octetos, NEW t \in Octetos, Len(f) # 0
    PROVE  Corte(f \o t, Len(f)) = [campo |-> f, sigue |-> t]
<1>1. /\ Len(f) \in Nat /\ 0 + Len(f) = Len(f) /\ Trozo(f \o t, 0, Len(f)) = f
      /\ Trozo(f \o t, Len(f), Len(f \o t)) = t
  BY Pega, TrozoOctetos
<1> QED
  BY <1>1 DEF Corte

\* A field with its length.
LEMMA CorteLargo ==
    ASSUME NEW f \in Octetos, NEW t \in Octetos
    PROVE  Corte(ConLargo(f) \o t, 0) = [campo |-> f, sigue |-> t]
<1> DEFINE n == Num(Len(f))
           b == ConLargo(f) \o t
<1>1. Len(f) \in Nat /\ n \in Octetos /\ Len(n) = 4 /\ Numero(n) = Len(f)
  BY Pega, NumeroDa
<1>2. ConLargo(f) = n \o f /\ ConLargo(f) \in Octetos /\ Len(ConLargo(f)) = 4 + Len(f)
  BY ConLargoDa DEF ConLargo
<1> HIDE DEF n
<1>3. b = n \o (f \o t) /\ f \o t \in Octetos
  <2>1. b = (n \o f) \o t
    BY <1>2
  <2>2. (n \o f) \o t = n \o (f \o t)
    BY <1>1, PegaAsocia, Zenon
  <2>3. f \o t \in Octetos
    BY Pega, Zenon
  <2> HIDE DEF b
  <2> QED
    BY <2>1, <2>2, <2>3, Zenon
<1>4. Trozo(b, 0, 4) = n
  <2>1. Trozo(n \o (f \o t), 0, Len(n)) = n
    BY <1>1, <1>3, TrozoOctetos, Zenon
  <2> QED
    BY <1>1, <1>3, <2>1, Zenon
<1>5. Trozo(b, 4, Len(f)) = f
  <2>1. Trozo(n \o (f \o t), Len(n), Len(f)) = f
    BY <1>1, TrozoMedio, Zenon
  <2> QED
    BY <1>1, <1>3, <2>1, Zenon
<1>6. Trozo(b, 4 + Len(f), Len(b)) = t
  <2>1. Trozo(b, Len(ConLargo(f)), Len(b)) = t
    BY <1>2, TrozoOctetos, Zenon
  <2> QED
    BY <1>2, <2>1, Zenon
<1> HIDE DEF b
<1>7. Corte(b, 0) = [campo |-> Trozo(b, 4, Len(f)), sigue |-> Trozo(b, 4 + Len(f), Len(b))]
  BY <1>1, <1>4 DEF Corte
<1> QED
  BY <1>5, <1>6, <1>7 DEF b

\* A field where there is nothing left.
LEMMA CorteVacio == Corte(<<>>, 0) = [campo |-> <<>>, sigue |-> <<>>]
<1>1. /\ Trozo(<<>>, 0, 4) = <<>> /\ Trozo(<<>>, 4, 0) = <<>> /\ Trozo(<<>>, 4 + 0, 0) = <<>>
      /\ Numero(<<>>) = 0 /\ Len(<<>>) = 0
  BY NadaQueLeer
<1> QED
  BY <1>1 DEF Corte

Cortado(b, ancho, f, t) == Corte(b, ancho) = [campo |-> f, sigue |-> t]

\* If b cuts into f[1], .. f[n], with r[k] left after f[k], then Corta gives
\* those fields and what is left after them.
LEMMA CortaDa ==
    ASSUME NEW n \in Nat, NEW anchos \in [1 .. n -> Nat], NEW r \in [0 .. n -> Octetos],
           NEW f \in [1 .. n -> Octetos],
           \A k \in 1 .. n : Cortado(r[k - 1], anchos[k], f[k], r[k])
    PROVE  /\ Corta(r[0], anchos) = Append(f, r[n])
           /\ Campos(r[0], anchos) = f
<1> DEFINE Hasta(k) == [j \in 1 .. k + 1 |-> IF j <= k THEN f[j] ELSE r[k]]
           Paso(v, a) == Front(v) \o <<Corte(Last(v), a).campo, Corte(Last(v), a).sigue>>
           E(c) == c = [k \in 0 .. Len(anchos) |->
                          IF k = 0 THEN <<r[0]>> ELSE Paso(c[k - 1], anchos[k])]
<1>1. Len(anchos) = n
  OBVIOUS
<1>2. ASSUME NEW k \in 1 .. n PROVE Paso(Hasta(k - 1), anchos[k]) = Hasta(k)
  <2> DEFINE v == Hasta(k - 1)
             x == Corte(Last(v), anchos[k])
  <2>1. v \in Seq(Octetos) /\ Len(v) = k /\ v[k] = r[k - 1] /\ \A j \in 1 .. k - 1 : v[j] = f[j]
    OBVIOUS
  <2> HIDE DEF v
  <2>2. Last(v) = r[k - 1]
    BY <2>1 DEF Last
  <2>3. x.campo = f[k] /\ x.sigue = r[k] /\ f[k] \in Octetos /\ r[k] \in Octetos
    <3>1. Corte(r[k - 1], anchos[k]) = [campo |-> f[k], sigue |-> r[k]]
      BY Zenon DEF Cortado
    <3>2. x = [campo |-> f[k], sigue |-> r[k]]
      BY <2>2, <3>1, Zenon
    <3>3. k \in 0 .. n
      OBVIOUS
    <3> HIDE DEF x
    <3> QED
      BY <3>2, <3>3
  <2> DEFINE p == Front(v)
             q == <<f[k], r[k]>>
  <2>4. p \in Seq(Octetos) /\ Len(p) = k - 1 /\ \A j \in 1 .. k - 1 : p[j] = f[j]
    BY <2>1, SMTT(60) DEF Front
  <2>5. q \in Seq(Octetos) /\ Len(q) = 2 /\ q[1] = f[k] /\ q[2] = r[k]
    BY <2>3
  <2> HIDE DEF p, q
  <2>6. /\ p \o q \in Seq(Octetos) /\ Len(p \o q) = k + 1
        /\ \A j \in 1 .. k + 1 : (p \o q)[j] = IF j <= k - 1 THEN p[j] ELSE q[j - (k - 1)]
    <3>1. /\ p \o q \in Seq(Octetos) /\ Len(p \o q) = Len(p) + Len(q)
          /\ \A j \in 1 .. Len(p) + Len(q) :
                (p \o q)[j] = IF j <= Len(p) THEN p[j] ELSE q[j - Len(p)]
      BY <2>4, <2>5, ConcatProperties, Zenon
    <3> DEFINE z == p \o q
    <3> HIDE DEF z
    <3>2. /\ Len(z) = k + 1
          /\ \A j \in 1 .. k + 1 : z[j] = IF j <= k - 1 THEN p[j] ELSE q[j - (k - 1)]
      <4>1. Len(p) + Len(q) = k + 1 /\ Len(p) = k - 1
        BY <2>4, <2>5
      <4> QED
        BY <3>1, <4>1 DEF z
    <3> QED
      BY <3>1, <3>2 DEF z
  <2>7. \A j \in 1 .. k + 1 : (p \o q)[j] = IF j <= k THEN f[j] ELSE r[k]
    <3> TAKE j \in 1 .. k + 1
    <3>1. CASE j <= k - 1
      BY <2>4, <2>6, <3>1
    <3>2. CASE j = k
      <4>1. ~(j <= k - 1) /\ j - (k - 1) = 1 /\ j <= k
        BY <3>2
      <4>2. (p \o q)[j] = q[j - (k - 1)]
        BY <2>6, <4>1, Zenon
      <4> QED
        BY <2>5, <3>2, <4>1, <4>2, Zenon
    <3>3. CASE j = k + 1
      <4>1. ~(j <= k - 1) /\ j - (k - 1) = 2 /\ ~(j <= k)
        BY <3>3
      <4>2. (p \o q)[j] = q[j - (k - 1)]
        BY <2>6, <4>1, Zenon
      <4> QED
        BY <2>5, <4>1, <4>2, Zenon
    <3>4. j <= k - 1 \/ j = k \/ j = k + 1
      OBVIOUS
    <3> QED
      BY <3>1, <3>2, <3>3, <3>4, Zenon
  <2>8. Hasta(k) \in Seq(Octetos) /\ Len(Hasta(k)) = k + 1
    <3>1. \A j \in 1 .. k + 1 : Hasta(k)[j] \in Octetos
      BY <2>3
    <3> QED
      BY <3>1
  <2>9. p \o q = Hasta(k)
    <3>1. \A j \in 1 .. k + 1 : (p \o q)[j] = Hasta(k)[j]
      BY <2>7
    <3> HIDE DEF Hasta
    <3> QED
      BY <2>6, <2>8, <3>1, SeqEqual
  <2> HIDE DEF Hasta
  <2> QED
    BY <2>3, <2>9 DEF p, q, v
<1>3. Hasta(0) = <<r[0]>>
  OBVIOUS
<1> DEFINE h == [k \in 0 .. n |-> Hasta(k)]
<1>4. E(h)
  <2>1. ASSUME NEW k \in 0 .. n PROVE h[k] = IF k = 0 THEN <<r[0]>> ELSE Paso(h[k - 1], anchos[k])
    <3>1. CASE k = 0
      BY <1>3, <3>1
    <3>2. CASE k # 0
      <4>1. k \in 1 .. n /\ k - 1 \in 0 .. n
        BY <3>2
      <4>2. h[k] = Hasta(k) /\ h[k - 1] = Hasta(k - 1)
        BY <4>1
      <4> HIDE DEF h, Hasta, Paso
      <4> QED
        BY <1>2, <3>2, <4>1, <4>2
    <3> QED
      BY <3>1, <3>2
  <2>2. h = [k \in 0 .. n |-> h[k]]
    OBVIOUS
  <2> HIDE DEF h, Paso
  <2> QED
    BY <1>1, <2>1, <2>2
<1> DEFINE c == CHOOSE c : E(c)
<1>5. E(c)
  <2> HIDE DEF E, h
  <2> QED
    BY <1>4
<1>6. Corta(r[0], anchos) = c[n]
  BY <1>1, Zenon DEF Corta
<1> HIDE DEF c
<1>7. c = [k \in 0 .. n |-> IF k = 0 THEN <<r[0]>> ELSE Paso(c[k - 1], anchos[k])]
  BY <1>1, <1>5
<1> HIDE DEF E, Paso
<1>8. c[0] = <<r[0]>> /\ \A k \in 1 .. n : c[k] = Paso(c[k - 1], anchos[k])
  <2>1. 0 \in 0 .. n /\ \A k \in 1 .. n : k \in 0 .. n /\ k # 0
    OBVIOUS
  <2> QED
    BY <1>7, <2>1
<1> DEFINE T == {k \in 0 .. n : c[k] = Hasta(k)}
<1>9. T = 0 .. n
  <2> HIDE DEF Hasta
  <2>1. 0 \in T
    BY <1>3, <1>8
  <2>2. ASSUME NEW m \in 0 .. n - 1, m \in T PROVE m + 1 \in T
    <3>1. m + 1 \in 1 .. n /\ m + 1 \in 0 .. n /\ (m + 1) - 1 = m
      OBVIOUS
    <3>2. c[m + 1] = Paso(c[m], anchos[m + 1]) /\ c[m] = Hasta(m)
      BY <1>8, <2>2, <3>1
    <3>3. Paso(Hasta(m), anchos[m + 1]) = Hasta(m + 1)
      BY <1>2, <3>1
    <3> QED
      BY <3>1, <3>2, <3>3
  <2>3. T \subseteq 0 .. n
    OBVIOUS
  <2> HIDE DEF T
  <2> QED
    BY <2>1, <2>2, <2>3, HaciaAdelante
<1>10. Corta(r[0], anchos) = Hasta(n)
  <2> HIDE DEF Hasta
  <2>1. n \in T
    <3>1. n \in 0 .. n
      OBVIOUS
    <3> HIDE DEF T
    <3> QED
      BY <1>9, <3>1
  <2> QED
    BY <1>6, <2>1
<1>11. /\ Hasta(n) \in Seq(Octetos) /\ Len(Hasta(n)) = n + 1
       /\ f \in Seq(Octetos) /\ Len(f) = n /\ r[n] \in Octetos
       /\ \A j \in 1 .. n : Hasta(n)[j] = f[j]
       /\ Hasta(n)[n + 1] = r[n]
  OBVIOUS
<1> HIDE DEF Hasta
<1>12. Append(f, r[n]) = Hasta(n)
  <2> DEFINE a == Append(f, r[n])
  <2>1. a \in Seq(Octetos) /\ Len(a) = n + 1 /\ a[n + 1] = r[n] /\ \A j \in 1 .. n : a[j] = f[j]
    BY <1>11
  <2> HIDE DEF a
  <2>2. \A j \in 1 .. n + 1 : a[j] = Hasta(n)[j]
    BY <1>11, <2>1
  <2> QED
    BY <1>11, <2>1, <2>2, SeqEqual DEF a
<1>13. Front(Hasta(n)) = f
  <2> DEFINE a == SubSeq(Hasta(n), 1, n)
  <2>1. Front(Hasta(n)) = a
    BY <1>11 DEF Front
  <2>2. a \in Seq(Octetos) /\ Len(a) = n /\ \A j \in 1 .. n : a[j] = Hasta(n)[j]
    BY <1>11
  <2> HIDE DEF a
  <2>3. a = f
    BY <1>11, <2>2, SeqEqual
  <2> QED
    BY <2>1, <2>3
<1> QED
  BY <1>10, <1>12, <1>13 DEF Campos

\* A sequence and one more.
LEMMA UnoMas ==
    ASSUME NEW f \in Seq(Octetos), NEW x \in Octetos
    PROVE  /\ Append(f, x) \in Seq(Octetos) /\ Len(Append(f, x)) = Len(f) + 1
           /\ Append(f, x)[Len(f) + 1] = x
           /\ \A j \in 1 .. Len(f) : Append(f, x)[j] = f[j]
BY AppendProperties

\* One field.
LEMMA CortaUno ==
    ASSUME NEW w1 \in Nat,
           NEW f1 \in Octetos,
           NEW r0 \in Octetos, NEW r1 \in Octetos,
           Cortado(r0, w1, f1, r1)
    PROVE  /\ Corta(r0, <<w1>>) = <<f1, r1>>
           /\ Campos(r0, <<w1>>) = <<f1>>
<1> DEFINE anchos == <<w1>>
           f == <<f1>>
           r == [k \in 0 .. 1 |-> IF k = 0 THEN r0 ELSE r1]
<1>1. anchos \in [1 .. 1 -> Nat] /\ f \in [1 .. 1 -> Octetos] /\ 1 \in Nat
  OBVIOUS
<1>2. r \in [0 .. 1 -> Octetos] /\ r[0] = r0 /\ r[1] = r1
  OBVIOUS
<1>3. ASSUME NEW k \in 1 .. 1 PROVE Cortado(r[k - 1], anchos[k], f[k], r[k])
  <2>1. CASE k = 1
    <3>1. r[k - 1] = r0 /\ anchos[k] = w1 /\ f[k] = f1 /\ r[k] = r1
      BY <2>1
    <3> HIDE DEF r, anchos, f
    <3> QED
      BY <3>1, Zenon
  <2> QED
    BY <2>1
<1> HIDE DEF r, anchos, f
<1>4. Corta(r0, anchos) = Append(f, r1) /\ Campos(r0, anchos) = f
  <2>1. Corta(r[0], anchos) = Append(f, r[1]) /\ Campos(r[0], anchos) = f
    BY <1>1, <1>2, <1>3, CortaDa
  <2> QED
    BY <1>2, <2>1, Zenon
<1> DEFINE t == <<f1, r1>>
<1>5. f \in Seq(Octetos) /\ Len(f) = 1 /\ f[1] = f1
  BY DEF f
<1>6. t \in Seq(Octetos) /\ Len(t) = 2 /\ t[1] = f1 /\ t[2] = r1
  OBVIOUS
<1> HIDE DEF t
<1>7. Append(f, r1) = t
  <2> DEFINE a == Append(f, r1)
  <2>1. /\ a \in Seq(Octetos) /\ Len(a) = 2 /\ a[2] = r1
        /\ \A j \in 1 .. 1 : a[j] = f[j]
    <3>1. /\ a \in Seq(Octetos) /\ Len(a) = Len(f) + 1 /\ a[Len(f) + 1] = r1
          /\ \A j \in 1 .. Len(f) : a[j] = f[j]
      BY <1>5, UnoMas, Zenon
    <3> HIDE DEF a
    <3> QED
      BY <1>5, <3>1
  <2> HIDE DEF a
  <2>2. \A j \in 1 .. 2 : a[j] = t[j]
    BY <1>5, <1>6, <2>1
  <2> QED
    BY <1>6, <2>1, <2>2, SeqEqual DEF a
<1> QED
  BY <1>4, <1>7, Zenon DEF anchos, f, t

\* Two fields.
LEMMA CortaDos ==
    ASSUME NEW w1 \in Nat, NEW w2 \in Nat,
           NEW f1 \in Octetos, NEW f2 \in Octetos,
           NEW r0 \in Octetos, NEW r1 \in Octetos, NEW r2 \in Octetos,
           Cortado(r0, w1, f1, r1), Cortado(r1, w2, f2, r2)
    PROVE  /\ Corta(r0, <<w1, w2>>) = <<f1, f2, r2>>
           /\ Campos(r0, <<w1, w2>>) = <<f1, f2>>
<1> DEFINE anchos == <<w1, w2>>
           f == <<f1, f2>>
           r == [k \in 0 .. 2 |-> IF k = 0 THEN r0 ELSE IF k = 1 THEN r1 ELSE r2]
<1>1. anchos \in [1 .. 2 -> Nat] /\ f \in [1 .. 2 -> Octetos] /\ 2 \in Nat
  OBVIOUS
<1>2. r \in [0 .. 2 -> Octetos] /\ r[0] = r0 /\ r[2] = r2
  OBVIOUS
<1>3. ASSUME NEW k \in 1 .. 2 PROVE Cortado(r[k - 1], anchos[k], f[k], r[k])
  <2>1. CASE k = 1
    <3>1. r[k - 1] = r0 /\ anchos[k] = w1 /\ f[k] = f1 /\ r[k] = r1
      BY <2>1
    <3> HIDE DEF r, anchos, f
    <3> QED
      BY <3>1, Zenon
  <2>2. CASE k = 2
    <3>1. r[k - 1] = r1 /\ anchos[k] = w2 /\ f[k] = f2 /\ r[k] = r2
      BY <2>2
    <3> HIDE DEF r, anchos, f
    <3> QED
      BY <3>1, Zenon
  <2> QED
    BY <2>1, <2>2
<1> HIDE DEF r, anchos, f
<1>4. Corta(r0, anchos) = Append(f, r2) /\ Campos(r0, anchos) = f
  <2>1. Corta(r[0], anchos) = Append(f, r[2]) /\ Campos(r[0], anchos) = f
    BY <1>1, <1>2, <1>3, CortaDa
  <2> QED
    BY <1>2, <2>1, Zenon
<1> DEFINE t == <<f1, f2, r2>>
<1>5. f \in Seq(Octetos) /\ Len(f) = 2 /\ f[1] = f1 /\ f[2] = f2
  BY DEF f
<1>6. t \in Seq(Octetos) /\ Len(t) = 3 /\ t[1] = f1 /\ t[2] = f2 /\ t[3] = r2
  OBVIOUS
<1> HIDE DEF t
<1>7. Append(f, r2) = t
  <2> DEFINE a == Append(f, r2)
  <2>1. /\ a \in Seq(Octetos) /\ Len(a) = 3 /\ a[3] = r2
        /\ \A j \in 1 .. 2 : a[j] = f[j]
    <3>1. /\ a \in Seq(Octetos) /\ Len(a) = Len(f) + 1 /\ a[Len(f) + 1] = r2
          /\ \A j \in 1 .. Len(f) : a[j] = f[j]
      BY <1>5, UnoMas, Zenon
    <3> HIDE DEF a
    <3> QED
      BY <1>5, <3>1
  <2> HIDE DEF a
  <2>2. \A j \in 1 .. 3 : a[j] = t[j]
    BY <1>5, <1>6, <2>1
  <2> QED
    BY <1>6, <2>1, <2>2, SeqEqual DEF a
<1> QED
  BY <1>4, <1>7, Zenon DEF anchos, f, t

\* Three fields.
LEMMA CortaTres ==
    ASSUME NEW w \in [1 .. 3 -> Nat], NEW f \in [1 .. 3 -> Octetos],
           NEW r0 \in Octetos, NEW r1 \in Octetos, NEW r2 \in Octetos, NEW r3 \in Octetos,
           Cortado(r0, w[1], f[1], r1), Cortado(r1, w[2], f[2], r2), Cortado(r2, w[3], f[3], r3)
    PROVE  Campos(r0, w) = f /\ Last(Corta(r0, w)) = r3
<1> DEFINE r == [k \in 0 .. 3 |-> IF k = 0 THEN r0 ELSE IF k = 1 THEN r1 ELSE IF k = 2 THEN r2 ELSE r3]
<1>1. 3 \in Nat
  OBVIOUS
<1>2. r \in [0 .. 3 -> Octetos] /\ r[0] = r0 /\ r[1] = r1 /\ r[2] = r2 /\ r[3] = r3
  OBVIOUS
<1> HIDE DEF r
<1>3. ASSUME NEW k \in 1 .. 3 PROVE Cortado(r[k - 1], w[k], f[k], r[k])
  <2>1. k = 1 \/ k = 2 \/ k = 3
    OBVIOUS
  <2>2. 1 - 1 = 0 /\ 2 - 1 = 1 /\ 3 - 1 = 2
    OBVIOUS
  <2> QED
    BY <1>2, <2>1, <2>2, Zenon
<1>4. Corta(r[0], w) = Append(f, r[3]) /\ Campos(r[0], w) = f
  BY <1>1, <1>2, <1>3, CortaDa
<1>5. f \in Seq(Octetos) /\ Len(f) = 3
  <2>1. \A n \in Nat : \A h \in [1 .. n -> Octetos] : h \in Seq(Octetos) /\ Len(h) = n
    OBVIOUS
  <2> QED
    BY <1>1, <2>1, Zenon
<1>6. Last(Append(f, r3)) = r3
  <2>1. /\ Append(f, r3) \in Seq(Octetos) /\ Len(Append(f, r3)) = Len(f) + 1
        /\ Append(f, r3)[Len(f) + 1] = r3
    BY <1>5, UnoMas, Zenon
  <2> QED
    BY <2>1, Zenon DEF Last
<1> QED
  BY <1>2, <1>4, <1>6, Zenon

-----------------------------------------------------------------------------
(* Many fields.                                                            *)

\* r[k] is what is left of some fields, and t behind them, after the k-th.
Restos(r, n, f, t) ==
    /\ r \in [0 .. n -> Octetos]
    /\ r[0] = FlattenSeq(f) \o t /\ r[n] = t
    /\ \A k \in 1 .. n : r[k - 1] = f[k] \o r[k]

\* Fields laid one after the other come out one by one.
LEMMA RestosDa ==
    ASSUME NEW n \in Nat, NEW f \in [1 .. n -> Octetos], NEW t \in Octetos
    PROVE  /\ \E r : Restos(r, n, f, t)
           /\ FlattenSeq(f) \in Octetos
<1> DEFINE q(k) == SubSeq(f, k + 1, n)
           r == [k \in 0 .. n |-> FlattenSeq(q(k)) \o t]
<1>1. f \in Seq(Octetos) /\ Len(f) = n
  OBVIOUS
<1>2. \A k \in 0 .. n : q(k) \in Seq(Octetos)
  <2> TAKE k \in 0 .. n
  <2>1. \A i \in k + 1 .. n : f[i] \in Octetos
    OBVIOUS
  <2> QED
    BY <2>1, SubSeqProperties
<1>3. \A ss \in Seq(Octetos) : FlattenSeq(ss) \in Octetos
  BY AplanaDa DEF Octetos
<1>4. q(0) = f /\ q(n) = <<>>
  <2>1. q(0) = f
    BY <1>1, SubSeqFull
  <2>2. q(n) = <<>>
    BY SubSeqEmpty
  <2> QED
    BY <2>1, <2>2
<1>5. ASSUME NEW k \in 1 .. n
      PROVE  FlattenSeq(q(k - 1)) = f[k] \o FlattenSeq(q(k)) /\ f[k] \in Octetos
  <2>1. k \in 1 .. Len(f) /\ n \in k .. Len(f) /\ (k - 1) + 1 = k /\ k \in 0 .. n /\ f[k] \in Octetos
    BY <1>1
  <2>2. SubSeq(f, k, n) = <<f[k]>> \o SubSeq(f, k + 1, n)
    BY <1>1, <2>1, SubSeqRecursiveFirst
  <2>3. q(k - 1) = <<f[k]>> \o q(k)
    BY <2>1, <2>2
  <2>4. q(k) \in Seq(Octetos)
    BY <1>2, <2>1
  <2> HIDE DEF q
  <2>5. FlattenSeq(<<f[k]>> \o q(k)) = f[k] \o FlattenSeq(q(k))
    BY <2>1, <2>4, AplanaDa, Zenon DEF Octetos
  <2> QED
    BY <2>1, <2>3, <2>5
<1> HIDE DEF q
<1>6. \A k \in 0 .. n : FlattenSeq(q(k)) \in Octetos /\ r[k] = FlattenSeq(q(k)) \o t
  BY <1>2, <1>3
<1>7. r \in [0 .. n -> Octetos]
  BY <1>6, Pega
<1>8. 0 \in 0 .. n /\ n \in 0 .. n
  OBVIOUS
<1>9. r[0] = FlattenSeq(f) \o t /\ r[n] = t
  <2>1. FlattenSeq(<<>>) = <<>>
    BY AplanaDa
  <2>2. r[n] = <<>> \o t
    BY <1>4, <1>6, <1>8, <2>1, Zenon
  <2> HIDE DEF r
  <2> QED
    BY <1>4, <1>6, <1>8, <2>2, Pega, Zenon
<1>10. ASSUME NEW k \in 1 .. n PROVE r[k - 1] = f[k] \o r[k]
  <2>1. k \in 0 .. n /\ k - 1 \in 0 .. n
    OBVIOUS
  <2>2. FlattenSeq(q(k)) \in Octetos /\ f[k] \in Octetos
    BY <1>5, <1>6, <2>1
  <2>3. r[k] = FlattenSeq(q(k)) \o t /\ r[k - 1] = (f[k] \o FlattenSeq(q(k))) \o t
    BY <1>5, <1>6, <2>1
  <2>4. (f[k] \o FlattenSeq(q(k))) \o t = f[k] \o (FlattenSeq(q(k)) \o t)
    BY <2>2, PegaAsocia, Zenon
  <2> HIDE DEF r
  <2> QED
    BY <2>3, <2>4, Zenon
<1>11. FlattenSeq(f) \in Octetos
  BY <1>1, <1>3
<1> HIDE DEF r
<1> QED
  BY <1>7, <1>9, <1>10, <1>11, Zenon DEF Restos

\* Fields of known width.
LEMMA CortaFijos ==
    ASSUME NEW n \in Nat, NEW f \in [1 .. n -> Octetos], NEW t \in Octetos,
           NEW anchos \in [1 .. n -> Nat],
           \A k \in 1 .. n : anchos[k] = Len(f[k]) /\ Len(f[k]) # 0
    PROVE  /\ Corta(FlattenSeq(f) \o t, anchos) = Append(f, t)
           /\ Campos(FlattenSeq(f) \o t, anchos) = f
<1>1. PICK r : Restos(r, n, f, t)
  BY RestosDa
<1>2. /\ r \in [0 .. n -> Octetos] /\ r[0] = FlattenSeq(f) \o t /\ r[n] = t
      /\ \A k \in 1 .. n : r[k - 1] = f[k] \o r[k]
  BY <1>1, Zenon DEF Restos
<1>3. ASSUME NEW k \in 1 .. n PROVE Cortado(r[k - 1], anchos[k], f[k], r[k])
  <2>1. f[k] \in Octetos /\ r[k] \in Octetos
    <3>1. k \in 0 .. n
      OBVIOUS
    <3> QED
      BY <1>2, <3>1
  <2>2. Corte(f[k] \o r[k], Len(f[k])) = [campo |-> f[k], sigue |-> r[k]]
    BY <2>1, CorteFijo, Zenon
  <2> QED
    BY <1>2, <2>2, Zenon DEF Cortado
<1>4. Corta(r[0], anchos) = Append(f, r[n]) /\ Campos(r[0], anchos) = f
  BY <1>2, <1>3, CortaDa
<1> QED
  BY <1>2, <1>4, Zenon

\* n fields of four bytes.
LEMMA LargoDeCuatros ==
    ASSUME NEW n \in Nat, NEW f \in [1 .. n -> Octetos], \A k \in 1 .. n : Len(f[k]) = 4
    PROVE  Len(FlattenSeq(f)) = 4 * n
<1>0. <<>> \in Octetos /\ Len(<<>>) = 0
  BY EmptySeq DEF Octetos
<1>1. PICK r : Restos(r, n, f, <<>>)
  BY <1>0, RestosDa
<1>2. /\ r \in [0 .. n -> Octetos] /\ r[0] = FlattenSeq(f) \o <<>> /\ r[n] = <<>>
      /\ \A k \in 1 .. n : r[k - 1] = f[k] \o r[k]
  BY <1>1, Zenon DEF Restos
<1> DEFINE T == {m \in 0 .. n : Len(r[n - m]) = 4 * m}
<1>3. 0 \in T
  BY <1>0, <1>2
<1>4. ASSUME NEW m \in 0 .. n - 1, m \in T PROVE m + 1 \in T
  <2> DEFINE k == n - m
  <2>1. k \in 1 .. n /\ k \in 0 .. n /\ n - (m + 1) = k - 1 /\ m + 1 \in 0 .. n
        /\ 4 + 4 * m = 4 * (m + 1)
    OBVIOUS
  <2>2. Len(r[k]) = 4 * m
    BY <1>4
  <2> HIDE DEF k
  <2>3. r[k - 1] = f[k] \o r[k] /\ f[k] \in Octetos /\ r[k] \in Octetos /\ Len(f[k]) = 4
    BY <1>2, <2>1
  <2>4. Len(r[k - 1]) = Len(f[k]) + Len(r[k])
    BY <2>3, Pega, ZenonT(90)
  <2>5. Len(r[n - (m + 1)]) = 4 * (m + 1)
    BY <2>1, <2>2, <2>3, <2>4
  <2> QED
    BY <2>1, <2>5
<1>5. T \subseteq 0 .. n
  OBVIOUS
<1> HIDE DEF T
<1>6. n \in T
  <2>1. T = 0 .. n
    BY <1>3, <1>4, <1>5, HaciaAdelante
  <2> QED
    BY <2>1
<1>7. Len(r[0]) = 4 * n
  <2>1. Len(r[n - n]) = 4 * n
    BY <1>6 DEF T
  <2> QED
    BY <2>1
<1>8. FlattenSeq(f) \o <<>> = FlattenSeq(f)
  BY RestosDa, <1>0, Pega, Zenon
<1> QED
  BY <1>2, <1>7, <1>8

\* One and the rest.
LEMMA UnoYResto ==
    ASSUME NEW a \in Octetos, NEW b \in Octetos, NEW c \in Octetos
    PROVE  <<a>> \o <<b>> = <<a, b>> /\ <<a>> \o <<b, c>> = <<a, b, c>>
<1> DEFINE u == <<a>>
           v == <<b>>
           w == <<b, c>>
           uv == <<a, b>>
           uw == <<a, b, c>>
<1>1. /\ u \in Seq(Octetos) /\ Len(u) = 1 /\ u[1] = a
      /\ v \in Seq(Octetos) /\ Len(v) = 1 /\ v[1] = b
  OBVIOUS
<1>2. w \in Seq(Octetos) /\ Len(w) = 2 /\ w[1] = b /\ w[2] = c
  OBVIOUS
<1>3. uv \in Seq(Octetos) /\ Len(uv) = 2 /\ uv[1] = a /\ uv[2] = b
  OBVIOUS
<1>4. uw \in Seq(Octetos) /\ Len(uw) = 3 /\ uw[1] = a /\ uw[2] = b /\ uw[3] = c
  OBVIOUS
<1> HIDE DEF u, v, w, uv, uw
<1>5. u \o v = uv
  <2> DEFINE z == u \o v
  <2>1. z \in Seq(Octetos) /\ Len(z) = 2 /\ \A i \in 1 .. 2 : z[i] = IF i <= 1 THEN u[i] ELSE v[i - 1]
    BY <1>1, ConcatProperties, SMTT(60)
  <2> HIDE DEF z
  <2>2. \A i \in 1 .. 2 : z[i] = uv[i]
    BY <1>1, <1>3, <2>1
  <2> QED
    BY <1>3, <2>1, <2>2, SeqEqual DEF z
<1>6. u \o w = uw
  <2> DEFINE z == u \o w
  <2>1. /\ z \in Seq(Octetos) /\ Len(z) = Len(u) + Len(w)
        /\ \A i \in 1 .. Len(u) + Len(w) : z[i] = IF i <= Len(u) THEN u[i] ELSE w[i - Len(u)]
    BY <1>1, <1>2, ConcatProperties, Zenon
  <2> HIDE DEF z
  <2>3. Len(z) = 3 /\ \A i \in 1 .. 3 : z[i] = IF i <= 1 THEN u[i] ELSE w[i - 1]
    BY <1>1, <1>2, <2>1
  <2>2. \A i \in 1 .. 3 : z[i] = uw[i]
    BY <1>1, <1>2, <1>4, <2>3
  <2> QED
    BY <1>4, <2>1, <2>2, <2>3, SeqEqual DEF z
<1> QED
  BY <1>5, <1>6 DEF u, v, w, uv, uw

\* One, two and three sequences one after the other.
LEMMA AplanaPocos ==
    ASSUME NEW a \in Octetos, NEW b \in Octetos, NEW c \in Octetos
    PROVE  /\ FlattenSeq(<<a>>) = a
           /\ FlattenSeq(<<a, b>>) = a \o b
           /\ FlattenSeq(<<a, b, c>>) = a \o (b \o c)
<1>1. \A x \in Octetos, ss \in Seq(Octetos) : FlattenSeq(<<x>> \o ss) = x \o FlattenSeq(ss)
  BY AplanaDa DEF Octetos
<1>2. <<>> \in Seq(Octetos) /\ <<c>> \in Seq(Octetos) /\ <<b, c>> \in Seq(Octetos)
      /\ <<b>> \in Seq(Octetos) /\ <<a>> \in Seq(Octetos)
  BY EmptySeq
<1>3. ASSUME NEW x \in Octetos PROVE FlattenSeq(<<x>>) = x
  <2>1. FlattenSeq(<<x>> \o <<>>) = x \o FlattenSeq(<<>>)
    BY <1>1, <1>2, Zenon
  <2>2. <<x>> \o <<>> = <<x>>
    <3>1. <<x>> \in Seq(Octetos)
      OBVIOUS
    <3> QED
      BY <3>1, ConcatEmptySeq
  <2>3. FlattenSeq(<<>>) = <<>>
    BY AplanaDa
  <2> QED
    BY <2>1, <2>2, <2>3, Pega, Zenon
<1>4. ASSUME NEW x \in Octetos, NEW y \in Octetos PROVE FlattenSeq(<<x, y>>) = x \o y
  <2>1. <<x>> \o <<y>> = <<x, y>>
    BY UnoYResto, Zenon
  <2>2. <<y>> \in Seq(Octetos)
    OBVIOUS
  <2> QED
    BY <1>1, <1>3, <2>1, <2>2, Zenon
<1>5. <<a>> \o <<b, c>> = <<a, b, c>>
  BY UnoYResto, Zenon
<1>6. FlattenSeq(<<a>> \o <<b, c>>) = a \o FlattenSeq(<<b, c>>)
  BY <1>1, <1>2, Zenon
<1>7. FlattenSeq(<<b, c>>) = b \o c
  BY <1>4, Zenon
<1> QED
  BY <1>3, <1>4, <1>5, <1>6, <1>7, Zenon

-----------------------------------------------------------------------------
(* The fields messages are made of.                                        *)

\* A number, or anything of four bytes.
LEMMA U32Da ==
    ASSUME NEW nombre \in Nombres, NEW v \in Valores
    PROVE  /\ U32(nombre, v) \in Octetos /\ Len(U32(nombre, v)) = 4
           /\ U32(nombre, v)[1] = <<nombre, v, 1, 4>>
<1>1. 4 \in Nat /\ 1 \in 1 .. 4
  OBVIOUS
<1> QED
  BY <1>1, CampoDa, ZenonT(90) DEF U32

\* A string, which has at least its null.
LEMMA CadenaDa ==
    ASSUME NEW nombre \in Nombres, NEW s \in Cadenas
    PROVE  /\ Cadena(nombre, s) \in Octetos /\ Len(Cadena(nombre, s)) = Largo[s]
           /\ Largo[s] \in Nat /\ Largo[s] # 0
<1>1. Largo[s] \in Nat /\ Largo[s] # 0
  BY ProtocoloAssumption
<1>2. s \in Valores
  BY Zenon DEF Valores
<1> QED
  BY <1>1, <1>2, CampoDa, Zenon DEF Cadena

\* A field cut from the head, with something behind it or alone.
LEMMA CortadoFijo ==
    ASSUME NEW f \in Octetos, NEW t \in Octetos, Len(f) # 0
    PROVE  Cortado(f \o t, Len(f), f, t) /\ Cortado(f, Len(f), f, <<>>)
<1>1. <<>> \in Octetos /\ f \o <<>> = f
  BY Pega
<1>2. Corte(f \o t, Len(f)) = [campo |-> f, sigue |-> t]
  BY CorteFijo
<1>3. Corte(f \o <<>>, Len(f)) = [campo |-> f, sigue |-> <<>>]
  BY <1>1, CorteFijo, Zenon
<1> QED
  BY <1>1, <1>2, <1>3, Zenon DEF Cortado

\* One that goes with its length.
LEMMA CortadoLargo ==
    ASSUME NEW f \in Octetos, NEW t \in Octetos
    PROVE  Cortado(ConLargo(f) \o t, 0, f, t) /\ Cortado(ConLargo(f), 0, f, <<>>)
<1>1. <<>> \in Octetos /\ ConLargo(f) \o <<>> = ConLargo(f)
  BY Pega, ConLargoDa, Zenon
<1>2. Corte(ConLargo(f) \o t, 0) = [campo |-> f, sigue |-> t]
  BY CorteLargo
<1>3. Corte(ConLargo(f) \o <<>>, 0) = [campo |-> f, sigue |-> <<>>]
  BY <1>1, CorteLargo, Zenon
<1> QED
  BY <1>1, <1>2, <1>3, Zenon DEF Cortado

\* Two fields of four bytes.
LEMMA DosCampos ==
    ASSUME NEW a \in Octetos, NEW b \in Octetos, Len(a) = 4, Len(b) = 4
    PROVE  Campos(a \o b, <<4, 4>>) = <<a, b>>
<1>1. a \o b \in Octetos /\ <<>> \in Octetos /\ 4 # 0 /\ 4 \in Nat
  BY Pega
<1>2. Cortado(a \o b, 4, a, b) /\ Cortado(b, 4, b, <<>>)
  BY <1>1, CortadoFijo, Zenon
<1> QED
  BY <1>1, <1>2, CortaDos

\* One of four bytes and one with its length.
LEMMA CampoYLargo ==
    ASSUME NEW a \in Octetos, NEW b \in Octetos, Len(a) = 4
    PROVE  Campos(a \o ConLargo(b), <<4, 0>>) = <<a, b>>
<1>1. ConLargo(b) \in Octetos /\ <<>> \in Octetos /\ 4 # 0 /\ 4 \in Nat /\ 0 \in Nat
  BY Pega, ConLargoDa
<1>2. a \o ConLargo(b) \in Octetos
  BY <1>1, Pega, Zenon
<1>3. Cortado(a \o ConLargo(b), 4, a, ConLargo(b)) /\ Cortado(ConLargo(b), 0, b, <<>>)
  BY <1>1, CortadoFijo, CortadoLargo, Zenon
<1> QED
  BY <1>1, <1>2, <1>3, CortaDos

\* One with its length and one of four bytes.
LEMMA LargoYCampo ==
    ASSUME NEW a \in Octetos, NEW b \in Octetos, Len(b) = 4
    PROVE  Campos(ConLargo(a) \o b, <<0, 4>>) = <<a, b>>
<1>1. ConLargo(a) \in Octetos /\ <<>> \in Octetos /\ 4 # 0 /\ 4 \in Nat /\ 0 \in Nat
  BY Pega, ConLargoDa
<1>2. ConLargo(a) \o b \in Octetos
  BY <1>1, Pega, Zenon
<1>3. Cortado(ConLargo(a) \o b, 0, a, b) /\ Cortado(b, 4, b, <<>>)
  BY <1>1, CortadoFijo, CortadoLargo, Zenon
<1> QED
  BY <1>1, <1>2, <1>3, CortaDos

\* Four bytes of a code, then two with their length: the request of IO.
LEMMA CampoYDosLargos ==
    ASSUME NEW a \in Octetos, NEW b \in Octetos, NEW c \in Octetos, Len(a) = 4
    PROVE  Campos(a \o (ConLargo(b) \o ConLargo(c)), <<4, 0, 0>>) = <<a, b, c>>
<1>1. /\ ConLargo(b) \in Octetos /\ ConLargo(c) \in Octetos
      /\ <<>> \in Octetos /\ 4 # 0 /\ 4 \in Nat /\ 0 \in Nat
  BY Pega, ConLargoDa
<1>2. ConLargo(b) \o ConLargo(c) \in Octetos
  BY <1>1, Pega, Zenon
<1>3. a \o (ConLargo(b) \o ConLargo(c)) \in Octetos
  BY <1>2, Pega, Zenon
<1>4. /\ Cortado(a \o (ConLargo(b) \o ConLargo(c)), 4, a, ConLargo(b) \o ConLargo(c))
      /\ Cortado(ConLargo(b) \o ConLargo(c), 0, b, ConLargo(c))
      /\ Cortado(ConLargo(c), 0, c, <<>>)
  BY <1>1, <1>2, CortadoFijo, CortadoLargo, Zenon
<1> DEFINE r0 == a \o (ConLargo(b) \o ConLargo(c))
           r1 == ConLargo(b) \o ConLargo(c)
           r2 == ConLargo(c)
<1>5. /\ r0 \in Octetos /\ r1 \in Octetos /\ r2 \in Octetos
      /\ Cortado(r0, 4, a, r1) /\ Cortado(r1, 0, b, r2) /\ Cortado(r2, 0, c, <<>>)
  BY <1>1, <1>2, <1>3, <1>4, Zenon
<1> HIDE DEF r0, r1, r2
<1> DEFINE w == <<4, 0, 0>>
           g == <<a, b, c>>
<1>6. /\ w \in [1 .. 3 -> Nat] /\ w[1] = 4 /\ w[2] = 0 /\ w[3] = 0
      /\ g \in [1 .. 3 -> Octetos] /\ g[1] = a /\ g[2] = b /\ g[3] = c
  OBVIOUS
<1> HIDE DEF w, g
<1>7. Campos(r0, w) = g
  BY <1>1, <1>5, <1>6, CortaTres
<1> QED
  BY <1>7 DEF r0, w, g

\* Two of four bytes, then one with its length: the request passed on.
LEMMA DosCamposYLargo ==
    ASSUME NEW a \in Octetos, NEW b \in Octetos, NEW c \in Octetos, Len(a) = 4, Len(b) = 4
    PROVE  Campos(a \o (b \o ConLargo(c)), <<4, 4, 0>>) = <<a, b, c>>
<1>1. ConLargo(c) \in Octetos /\ <<>> \in Octetos /\ 4 # 0 /\ 4 \in Nat /\ 0 \in Nat
  BY Pega, ConLargoDa
<1>2. b \o ConLargo(c) \in Octetos
  BY <1>1, Pega, Zenon
<1>3. a \o (b \o ConLargo(c)) \in Octetos
  BY <1>2, Pega, Zenon
<1>4. /\ Cortado(a \o (b \o ConLargo(c)), 4, a, b \o ConLargo(c))
      /\ Cortado(b \o ConLargo(c), 4, b, ConLargo(c))
      /\ Cortado(ConLargo(c), 0, c, <<>>)
  BY <1>1, <1>2, CortadoFijo, CortadoLargo, Zenon
<1> DEFINE r0 == a \o (b \o ConLargo(c))
           r1 == b \o ConLargo(c)
           r2 == ConLargo(c)
<1>5. /\ r0 \in Octetos /\ r1 \in Octetos /\ r2 \in Octetos
      /\ Cortado(r0, 4, a, r1) /\ Cortado(r1, 4, b, r2) /\ Cortado(r2, 0, c, <<>>)
  BY <1>1, <1>2, <1>3, <1>4, Zenon
<1> HIDE DEF r0, r1, r2
<1> DEFINE w == <<4, 4, 0>>
           g == <<a, b, c>>
<1>6. /\ w \in [1 .. 3 -> Nat] /\ w[1] = 4 /\ w[2] = 4 /\ w[3] = 0
      /\ g \in [1 .. 3 -> Octetos] /\ g[1] = a /\ g[2] = b /\ g[3] = c
  OBVIOUS
<1> HIDE DEF w, g
<1>7. Campos(r0, w) = g
  BY <1>1, <1>5, <1>6, CortaTres
<1> QED
  BY <1>7 DEF r0, w, g

-----------------------------------------------------------------------------
(* The PCB.                                                                *)

AnchosPcb == <<4, 4, 4, 4, 1, 1, 1, 1, 4, 4, 4, 4, 4, 4, 4, 0>>

\* The fields of a PCB, in order, and their widths.
LEMMA OrdenPcbDa ==
    /\ Len(OrdenPcb) = 15 /\ DOMAIN OrdenPcb = 1 .. 15 /\ AnchosPcb \in [1 .. 16 -> Nat]
    /\ \A k \in 1 .. 15 : /\ OrdenPcb[k] \in Nombres /\ OrdenPcb[k] # "recursos"
                          /\ AnchosPcb[k] = AnchoDe(OrdenPcb[k]) /\ AnchosPcb[k] \in {1, 4}
    /\ AnchosPcb[16] = 0
<1>1. Len(OrdenPcb) = 15 /\ DOMAIN OrdenPcb = 1 .. 15
  BY DEF OrdenPcb
<1>2. AnchosPcb \in [1 .. 16 -> Nat] /\ AnchosPcb[16] = 0
  BY DEF AnchosPcb
<1>3. /\ OrdenPcb[1] = "pid" /\ AnchosPcb[1] = 4
      /\ OrdenPcb[2] = "pc" /\ AnchosPcb[2] = 4
      /\ OrdenPcb[3] = "quantum" /\ AnchosPcb[3] = 4
      /\ OrdenPcb[4] = "status" /\ AnchosPcb[4] = 4
      /\ OrdenPcb[5] = "ax" /\ AnchosPcb[5] = 1
      /\ OrdenPcb[6] = "bx" /\ AnchosPcb[6] = 1
      /\ OrdenPcb[7] = "cx" /\ AnchosPcb[7] = 1
      /\ OrdenPcb[8] = "dx" /\ AnchosPcb[8] = 1
      /\ OrdenPcb[9] = "eax" /\ AnchosPcb[9] = 4
      /\ OrdenPcb[10] = "ebx" /\ AnchosPcb[10] = 4
      /\ OrdenPcb[11] = "ecx" /\ AnchosPcb[11] = 4
      /\ OrdenPcb[12] = "edx" /\ AnchosPcb[12] = 4
      /\ OrdenPcb[13] = "si" /\ AnchosPcb[13] = 4
      /\ OrdenPcb[14] = "di" /\ AnchosPcb[14] = 4
      /\ OrdenPcb[15] = "reg_pc" /\ AnchosPcb[15] = 4
  BY DEF OrdenPcb, AnchosPcb
<1>4. ASSUME NEW k \in 1 .. 15
      PROVE  /\ OrdenPcb[k] \in Nombres /\ OrdenPcb[k] # "recursos"
             /\ AnchosPcb[k] = AnchoDe(OrdenPcb[k]) /\ AnchosPcb[k] \in {1, 4}
  <2>1. \/ k \in {1, 2, 3, 4} \/ k \in {5, 6, 7, 8} \/ k \in {9, 10, 11, 12} \/ k \in {13, 14, 15}
    OBVIOUS
  <2>2. CASE k \in {1, 2, 3, 4}
    BY <1>3, <2>2 DEF Nombres, AnchoDe
  <2>3. CASE k \in {5, 6, 7, 8}
    BY <1>3, <2>3 DEF Nombres, AnchoDe
  <2>4. CASE k \in {9, 10, 11, 12}
    BY <1>3, <2>4 DEF Nombres, AnchoDe
  <2>5. CASE k \in {13, 14, 15}
    BY <1>3, <2>5 DEF Nombres, AnchoDe
  <2> QED
    BY <2>1, <2>2, <2>3, <2>4, <2>5, Zenon
<1> QED
  BY <1>1, <1>2, <1>4

\* What each field holds.
LEMMA PcbDa ==
    ASSUME NEW p \in Pids, NEW s \in Cadenas
    PROVE  /\ \A k \in 1 .. 15 : /\ Pcb(p, s)[OrdenPcb[k]] \in Octetos
                                 /\ Len(Pcb(p, s)[OrdenPcb[k]]) = AnchosPcb[k]
           /\ Pcb(p, s).recursos \in Octetos
<1> DEFINE D == Range(OrdenPcb) \cup {"recursos"}
<1>1. \A c \in D : Pcb(p, s)[c] = IF c = "recursos" THEN Cadena(c, s) ELSE Campo(c, p, AnchoDe(c))
  BY Zenon DEF Pcb
<1>2. ASSUME NEW k \in 1 .. 15
      PROVE  Pcb(p, s)[OrdenPcb[k]] \in Octetos /\ Len(Pcb(p, s)[OrdenPcb[k]]) = AnchosPcb[k]
  <2>1. /\ OrdenPcb[k] \in Nombres /\ OrdenPcb[k] # "recursos"
        /\ AnchosPcb[k] = AnchoDe(OrdenPcb[k]) /\ AnchosPcb[k] \in {1, 4}
    BY OrdenPcbDa, Zenon
  <2>2. OrdenPcb[k] \in D
    BY OrdenPcbDa, Zenon DEF Range
  <2>3. Pcb(p, s)[OrdenPcb[k]] = Campo(OrdenPcb[k], p, AnchosPcb[k])
    BY <1>1, <2>1, <2>2, Zenon
  <2>4. AnchosPcb[k] \in Nat /\ p \in Valores
    <3>1. p \in Valores
      BY Zenon DEF Valores
    <3> QED
      BY <2>1, <3>1
  <2> DEFINE n == AnchosPcb[k]
             c == OrdenPcb[k]
  <2> HIDE DEF n, c
  <2>5. Campo(c, p, n) \in Octetos /\ Len(Campo(c, p, n)) = n
    BY <2>1, <2>4, CampoDa, Zenon DEF n, c
  <2> QED
    BY <2>3, <2>5, Zenon DEF n, c
<1>3. Pcb(p, s).recursos \in Octetos
  <2>1. Pcb(p, s)["recursos"] = Cadena("recursos", s)
    BY <1>1, Zenon
  <2>2. "recursos" \in Nombres
    BY DEF Nombres
  <2> QED
    BY <2>1, <2>2, CadenaDa, Zenon
<1> QED
  BY <1>2, <1>3

\* The receiver of a PCB cuts the sixteen fields that were sent.
LEMMA PcbIdaYVuelta ==
    ASSUME NEW p \in Pids, NEW s \in Cadenas
    PROVE  /\ agregar_pcb_paquete(Pcb(p, s)) \in Octetos
           /\ EnOrden(recibir_pcb(agregar_pcb_paquete(Pcb(p, s)))) = EnOrden(Pcb(p, s))
<1> DEFINE x == Pcb(p, s)
           f == [k \in 1 .. 15 |-> x[OrdenPcb[k]]]
           rec == x.recursos
           b == agregar_pcb_paquete(x)
<1>1. f \in [1 .. 15 -> Octetos] /\ rec \in Octetos /\ \A k \in 1 .. 15 : Len(f[k]) = AnchosPcb[k]
  BY PcbDa, Zenon
<1>2. b = FlattenSeq(f) \o ConLargo(rec)
  BY OrdenPcbDa, Zenon DEF agregar_pcb_paquete
<1>3. EnOrden(x) = [k \in 1 .. 16 |-> IF k > 15 THEN rec ELSE x[OrdenPcb[k]]]
  BY OrdenPcbDa DEF EnOrden
<1> DEFINE g == EnOrden(x)
<1>4. g[16] = rec /\ \A k \in 1 .. 15 : g[k] = f[k]
  <2> HIDE DEF x, rec
  <2>1. 16 \in 1 .. 16 /\ 16 > 15 /\ \A k \in 1 .. 15 : k \in 1 .. 16 /\ ~(k > 15)
    OBVIOUS
  <2> QED
    BY <1>3, <2>1, Zenon
<1>5. g \in [1 .. 16 -> Octetos]
  <2>1. \A k \in 1 .. 16 : k = 16 \/ k \in 1 .. 15
    OBVIOUS
  <2>2. g = [k \in 1 .. 16 |-> g[k]]
    BY <1>3
  <2> HIDE DEF f, g, rec, x
  <2>3. \A k \in 1 .. 16 : g[k] \in Octetos
    BY <1>1, <1>4, <2>1, Zenon
  <2> QED
    BY <2>2, <2>3, Zenon
<1> HIDE DEF f, rec, x, b, g
<1>6. ConLargo(rec) \in Octetos /\ <<>> \in Octetos /\ 15 \in Nat
  BY <1>1, ConLargoDa, Pega
<1>7. PICK q : Restos(q, 15, f, ConLargo(rec))
  BY <1>1, <1>6, RestosDa, Zenon
<1>8. /\ q \in [0 .. 15 -> Octetos] /\ q[0] = b /\ q[15] = ConLargo(rec)
      /\ \A k \in 1 .. 15 : q[k - 1] = f[k] \o q[k]
  BY <1>2, <1>7, Zenon DEF Restos
<1>9. b \in Octetos
  <2>1. 0 \in 0 .. 15
    OBVIOUS
  <2> QED
    BY <1>8, <2>1, Zenon
<1> DEFINE r == [k \in 0 .. 16 |-> IF k = 16 THEN <<>> ELSE q[k]]
<1>10. r \in [0 .. 16 -> Octetos] /\ r[16] = <<>> /\ \A k \in 0 .. 15 : r[k] = q[k]
  <2>1. \A k \in 0 .. 16 : k = 16 \/ k \in 0 .. 15
    OBVIOUS
  <2>2. 16 \in 0 .. 16 /\ \A k \in 0 .. 15 : k \in 0 .. 16 /\ k # 16
    OBVIOUS
  <2> QED
    BY <1>6, <1>8, <2>1, <2>2
<1> HIDE DEF r
<1>11. ASSUME NEW k \in 1 .. 16 PROVE Cortado(r[k - 1], AnchosPcb[k], g[k], r[k])
  <2>1. CASE k = 16
    <3>1. r[k - 1] = ConLargo(rec) /\ g[k] = rec /\ r[k] = <<>> /\ AnchosPcb[k] = 0
      BY <1>4, <1>8, <1>10, <2>1, OrdenPcbDa
    <3> QED
      BY <1>1, <1>6, <3>1, CortadoLargo, ZenonT(90)
  <2>2. CASE k # 16
    <3>1. k \in 1 .. 15 /\ k \in 0 .. 15 /\ k - 1 \in 0 .. 15
      BY <2>2, SMTT(60)
    <3>2. r[k - 1] = f[k] \o q[k] /\ g[k] = f[k] /\ r[k] = q[k] /\ AnchosPcb[k] = Len(f[k])
          /\ f[k] \in Octetos /\ q[k] \in Octetos
      BY <1>1, <1>4, <1>8, <1>10, <3>1
    <3>3. Len(f[k]) # 0
      <4> DEFINE a == AnchosPcb[k]
      <4>1. a \in {1, 4}
        BY <3>1, OrdenPcbDa, Zenon
      <4>2. a = Len(f[k])
        BY <3>2
      <4>3. 1 # 0 /\ 4 # 0
        OBVIOUS
      <4> HIDE DEF a
      <4> QED
        BY <4>1, <4>2, <4>3, Zenon
    <3> QED
      BY <3>2, <3>3, CortadoFijo, Zenon
  <2> QED
    BY <2>1, <2>2
<1>12. Campos(b, AnchosPcb) = g
  <2>1. AnchosPcb \in [1 .. 16 -> Nat] /\ 16 \in Nat /\ 0 \in 0 .. 15
    BY OrdenPcbDa
  <2>2. Campos(r[0], AnchosPcb) = g
    BY <1>5, <1>10, <1>11, <2>1, CortaDa
  <2>3. r[0] = b
    BY <1>8, <1>10, <2>1, Zenon
  <2> QED
    BY <2>2, <2>3
<1> DEFINE y == recibir_pcb(b)
<1>13. y = [pid |-> g[1], pc |-> g[2], quantum |-> g[3], status |-> g[4], ax |-> g[5], bx
            |-> g[6], cx |-> g[7], dx |-> g[8], eax |-> g[9], ebx |-> g[10], ecx |-> g[11],
            edx |-> g[12], si |-> g[13], di |-> g[14], reg_pc |-> g[15], recursos |-> g[16]]
  <2>1. Campos(b, <<4, 4, 4, 4, 1, 1, 1, 1, 4, 4, 4, 4, 4, 4, 4, 0>>) = g
    BY <1>12, Zenon DEF AnchosPcb
  <2> QED
    BY <2>1 DEF recibir_pcb
<1> HIDE DEF y
<1>14. y.recursos = g[16]
  BY <1>13
<1>15. ASSUME NEW k \in 1 .. 15 PROVE y[OrdenPcb[k]] = g[k]
  <2>1. /\ y["pid"] = g[1]
        /\ y["pc"] = g[2]
        /\ y["quantum"] = g[3]
        /\ y["status"] = g[4]
        /\ y["ax"] = g[5]
        /\ y["bx"] = g[6]
        /\ y["cx"] = g[7]
        /\ y["dx"] = g[8]
        /\ y["eax"] = g[9]
        /\ y["ebx"] = g[10]
        /\ y["ecx"] = g[11]
        /\ y["edx"] = g[12]
        /\ y["si"] = g[13]
        /\ y["di"] = g[14]
        /\ y["reg_pc"] = g[15]
    BY <1>13
  <2>2. /\ OrdenPcb[1] = "pid"
        /\ OrdenPcb[2] = "pc"
        /\ OrdenPcb[3] = "quantum"
        /\ OrdenPcb[4] = "status"
        /\ OrdenPcb[5] = "ax"
        /\ OrdenPcb[6] = "bx"
        /\ OrdenPcb[7] = "cx"
        /\ OrdenPcb[8] = "dx"
        /\ OrdenPcb[9] = "eax"
        /\ OrdenPcb[10] = "ebx"
        /\ OrdenPcb[11] = "ecx"
        /\ OrdenPcb[12] = "edx"
        /\ OrdenPcb[13] = "si"
        /\ OrdenPcb[14] = "di"
        /\ OrdenPcb[15] = "reg_pc"
    BY DEF OrdenPcb
  <2>3. \/ k = 1 \/ k = 2 \/ k = 3 \/ k = 4 \/ k = 5 \/ k = 6 \/ k = 7 \/ k = 8
        \/ k = 9 \/ k = 10 \/ k = 11 \/ k = 12 \/ k = 13 \/ k = 14 \/ k = 15
    OBVIOUS
  <2>4. CASE k = 1
    BY <2>1, <2>2, <2>4, Zenon
  <2>5. CASE k = 2
    BY <2>1, <2>2, <2>5, Zenon
  <2>6. CASE k = 3
    BY <2>1, <2>2, <2>6, Zenon
  <2>7. CASE k = 4
    BY <2>1, <2>2, <2>7, Zenon
  <2>8. CASE k = 5
    BY <2>1, <2>2, <2>8, Zenon
  <2>9. CASE k = 6
    BY <2>1, <2>2, <2>9, Zenon
  <2>10. CASE k = 7
    BY <2>1, <2>2, <2>10, Zenon
  <2>11. CASE k = 8
    BY <2>1, <2>2, <2>11, Zenon
  <2>12. CASE k = 9
    BY <2>1, <2>2, <2>12, Zenon
  <2>13. CASE k = 10
    BY <2>1, <2>2, <2>13, Zenon
  <2>14. CASE k = 11
    BY <2>1, <2>2, <2>14, Zenon
  <2>15. CASE k = 12
    BY <2>1, <2>2, <2>15, Zenon
  <2>16. CASE k = 13
    BY <2>1, <2>2, <2>16, Zenon
  <2>17. CASE k = 14
    BY <2>1, <2>2, <2>17, Zenon
  <2>18. CASE k = 15
    BY <2>1, <2>2, <2>18, Zenon
  <2> QED
    BY <2>3, <2>4, <2>5, <2>6, <2>7, <2>8, <2>9, <2>10,
       <2>11, <2>12, <2>13, <2>14, <2>15, <2>16, <2>17, <2>18, Zenon
<1>16. EnOrden(y) = g
  <2>1. EnOrden(y) = [k \in 1 .. 16 |-> IF k > 15 THEN y.recursos ELSE y[OrdenPcb[k]]]
    BY OrdenPcbDa DEF EnOrden
  <2>2. ASSUME NEW k \in 1 .. 16
        PROVE  (IF k > 15 THEN y.recursos ELSE y[OrdenPcb[k]]) = g[k]
    <3>1. CASE k > 15
      <4>1. k = 16
        BY <3>1
      <4> QED
        BY <1>14, <3>1, <4>1, Zenon
    <3>2. CASE ~(k > 15)
      <4>1. k \in 1 .. 15
        BY <3>2
      <4> QED
        BY <1>15, <3>2, <4>1, Zenon
    <3> QED
      BY <3>1, <3>2
  <2>3. g = [k \in 1 .. 16 |-> g[k]]
    BY <1>5
  <2> QED
    BY <2>1, <2>2, <2>3, Zenon
<1> QED
  BY <1>9, <1>16 DEF b, g, x, y

-----------------------------------------------------------------------------
(* Requests of IO.                                                         *)

\* The fields of a request that are not strings.
LEMMA CamposIo ==
    /\ Tam \in Octetos /\ Len(Tam) = 4 /\ Ptr \in Octetos /\ Len(Ptr) = 4
    /\ \A k \in Nat : /\ Frame(k)[1] \in Octetos /\ Len(Frame(k)[1]) = 4
                      /\ Frame(k)[2] \in Octetos /\ Len(Frame(k)[2]) = 4
<1>1. /\ "tam" \in Nombres /\ "ptr" \in Nombres /\ "direccion_fisica" \in Nombres
      /\ "bytes" \in Nombres
  BY DEF Nombres
<1>2. "" \in Valores /\ \A k \in Nat : ToString(k) \in Valores
  BY Zenon DEF Valores
<1>3. Tam \in Octetos /\ Len(Tam) = 4 /\ Ptr \in Octetos /\ Len(Ptr) = 4
  BY <1>1, <1>2, U32Da, Zenon DEF Tam, Ptr
<1>4. ASSUME NEW k \in Nat
      PROVE  /\ Frame(k)[1] \in Octetos /\ Len(Frame(k)[1]) = 4
             /\ Frame(k)[2] \in Octetos /\ Len(Frame(k)[2]) = 4
  <2> DEFINE a == U32("direccion_fisica", ToString(k))
             b == U32("bytes", ToString(k))
  <2>1. a \in Octetos /\ Len(a) = 4 /\ b \in Octetos /\ Len(b) = 4
    BY <1>1, <1>2, U32Da, Zenon
  <2>2. Frame(k) = <<a, b>>
    BY DEF Frame
  <2> HIDE DEF a, b
  <2>3. Frame(k)[1] = a /\ Frame(k)[2] = b
    BY <2>2
  <2> QED
    BY <2>1, <2>3
<1> QED
  BY <1>3, <1>4

\* Two fields for each frame.
LEMMA FramesDa ==
    ASSUME NEW n \in Nat
    PROVE  /\ Frames(n) \in [1 .. 2 * n -> Octetos] /\ Frames(n) \in Seq(Octetos)
           /\ Len(Frames(n)) = 2 * n
           /\ \A j \in 1 .. 2 * n : Len(Frames(n)[j]) = 4
<1>1. ASSUME NEW j \in 1 .. 2 * n
      PROVE  /\ Frames(n)[j] \in Octetos /\ Len(Frames(n)[j]) = 4
  <2> DEFINE k == (j + 1) \div 2
  <2>1. k \in Nat
    OBVIOUS
  <2>2. Frames(n)[j] = Frame(k)[IF j % 2 = 1 THEN 1 ELSE 2]
    BY DEF Frames
  <2> HIDE DEF k
  <2>3. CASE j % 2 = 1
    BY <2>1, <2>2, <2>3, CamposIo, Zenon
  <2>4. CASE j % 2 # 1
    BY <2>1, <2>2, <2>4, CamposIo, Zenon
  <2> QED
    BY <2>3, <2>4
<1>2. Frames(n) = [j \in 1 .. 2 * n |-> Frames(n)[j]]
  BY DEF Frames
<1> DEFINE f == Frames(n)
<1> HIDE DEF f
<1>3. f \in [1 .. 2 * n -> Octetos]
  BY <1>1, <1>2, Zenon DEF f
<1>4. 2 * n \in Nat
  OBVIOUS
<1>5. f \in Seq(Octetos) /\ Len(f) = 2 * n
  BY <1>3, <1>4
<1> QED
  BY <1>1, <1>3, <1>5 DEF f

\* The widths the loop over the frames uses.
LEMMA AnchosDa ==
    ASSUME NEW n \in Nat
    PROVE  anchosFrames(8 * n) = [k \in 1 .. 2 * n |-> 4]
<1>1. (8 * n + 7) \div 8 = n
  OBVIOUS
<1> QED
  BY <1>1 DEF anchosFrames

\* The frames are read as they were written.
LEMMA FramesLeidos ==
    ASSUME NEW n \in Nat
    PROVE  /\ FlattenSeq(Frames(n)) \in Octetos /\ Len(FlattenSeq(Frames(n))) = 8 * n
           /\ Campos(FlattenSeq(Frames(n)), anchosFrames(8 * n)) = Frames(n)
<1> DEFINE f == Frames(n)
           m == 2 * n
           w == anchosFrames(8 * n)
<1>1. m \in Nat /\ f \in [1 .. m -> Octetos] /\ \A k \in 1 .. m : Len(f[k]) = 4
  BY FramesDa
<1>2. w = [k \in 1 .. m |-> 4] /\ 4 \in Nat /\ 4 # 0
  BY AnchosDa
<1>3. 4 * m = 8 * n
  OBVIOUS
<1> HIDE DEF f, m, w
<1>4. w \in [1 .. m -> Nat] /\ \A k \in 1 .. m : w[k] = Len(f[k]) /\ Len(f[k]) # 0
  BY <1>1, <1>2
<1>5. <<>> \in Octetos
  BY EmptySeq DEF Octetos
<1>6. FlattenSeq(f) \in Octetos /\ Len(FlattenSeq(f)) = 4 * m
  BY <1>1, <1>5, RestosDa, LargoDeCuatros
<1>7. Campos(FlattenSeq(f) \o <<>>, w) = f
  BY <1>1, <1>4, <1>5, CortaFijos, ZenonT(90)
<1>8. FlattenSeq(f) \o <<>> = FlattenSeq(f)
  BY <1>6, Pega, Zenon
<1> QED
  BY <1>3, <1>6, <1>7, <1>8 DEF f, w

\* A first field and others.
LEMMA UnoYMas ==
    ASSUME NEW x \in Octetos, NEW ss \in Seq(Octetos)
    PROVE  /\ <<x>> \o ss \in Seq(Octetos) /\ Len(<<x>> \o ss) = 1 + Len(ss) /\ Len(ss) \in Nat
           /\ (<<x>> \o ss)[1] = x /\ Tail(<<x>> \o ss) = ss
           /\ \A j \in 1 .. Len(ss) : (<<x>> \o ss)[j + 1] = ss[j]
           /\ FlattenSeq(<<x>> \o ss) = x \o FlattenSeq(ss)
<1> DEFINE u == <<x>>
           z == u \o ss
<1>1. u \in Seq(Octetos) /\ Len(u) = 1 /\ u[1] = x
  OBVIOUS
<1>2. FlattenSeq(z) = x \o FlattenSeq(ss)
  BY AplanaDa DEF Octetos
<1> HIDE DEF u
<1>3. /\ z \in Seq(Octetos) /\ Len(z) = Len(u) + Len(ss)
      /\ \A i \in 1 .. Len(u) + Len(ss) : z[i] = IF i <= Len(u) THEN u[i] ELSE ss[i - Len(u)]
  BY <1>1, ConcatProperties, Zenon
<1> HIDE DEF z
<1>4. Len(z) = 1 + Len(ss) /\ Len(ss) \in Nat
  BY <1>1, <1>3
<1>5. z[1] = x
  BY <1>1, <1>3, <1>4
<1>6. \A j \in 1 .. Len(ss) : z[j + 1] = ss[j]
  BY <1>1, <1>3, <1>4
<1>7. Tail(z) = ss
  <2> DEFINE t == Tail(z)
  <2>1. t \in Seq(Octetos) /\ Len(t) = Len(ss) /\ \A j \in 1 .. Len(ss) : t[j] = z[j + 1]
    BY <1>3, <1>4
  <2> HIDE DEF t
  <2> QED
    BY <1>4, <1>6, <2>1, SeqEqual DEF t
<1> QED
  BY <1>2, <1>3, <1>4, <1>5, <1>6, <1>7 DEF u, z

\* The size and the frames of a request to the standard interfaces.
LEMMA LeeFrames ==
    ASSUME NEW n \in Nat
    PROVE  /\ FlattenSeq(<<Tam>> \o Frames(n)) \in Octetos
           /\ get_io_frames(FlattenSeq(<<Tam>> \o Frames(n))) = <<Tam>> \o Frames(n)
<1> DEFINE f == <<Tam>> \o Frames(n)
           m == 2 * n + 1
           w == <<4>> \o anchosFrames(8 * n)
           b == FlattenSeq(f)
<1>1. /\ Tam \in Octetos /\ Len(Tam) = 4 /\ Frames(n) \in Seq(Octetos) /\ Len(Frames(n)) = 2 * n
      /\ \A j \in 1 .. 2 * n : Len(Frames(n)[j]) = 4
  BY CamposIo, FramesDa
<1>2. /\ f \in Seq(Octetos) /\ Len(f) = 1 + Len(Frames(n)) /\ f[1] = Tam
      /\ \A j \in 1 .. Len(Frames(n)) : f[j + 1] = Frames(n)[j]
  BY <1>1, UnoYMas, Zenon
<1> HIDE DEF f
<1>3. m \in Nat /\ f \in [1 .. m -> Octetos]
  BY <1>1, <1>2
<1>4. ASSUME NEW j \in 1 .. m PROVE Len(f[j]) = 4
  <2>1. CASE j = 1
    BY <1>1, <1>2, <2>1, Zenon
  <2>2. CASE j # 1
    <3>1. j - 1 \in 1 .. 2 * n /\ (j - 1) + 1 = j
      BY <2>2
    <3>2. f[(j - 1) + 1] = Frames(n)[j - 1] /\ Len(Frames(n)[j - 1]) = 4
      BY <1>1, <1>2, <3>1
    <3> QED
      BY <3>1, <3>2
  <2> QED
    BY <2>1, <2>2
<1>5. w \in [1 .. m -> Nat] /\ \A j \in 1 .. m : w[j] = 4
  <2> DEFINE u == <<4>>
             v == anchosFrames(8 * n)
  <2>1. u \in Seq(Nat) /\ Len(u) = 1 /\ u[1] = 4
    OBVIOUS
  <2>2. v = [k \in 1 .. 2 * n |-> 4] /\ 2 * n \in Nat
    BY AnchosDa
  <2> HIDE DEF u, v
  <2>3. v \in Seq(Nat) /\ Len(v) = 2 * n /\ \A j \in 1 .. 2 * n : v[j] = 4
    BY <2>2
  <2> DEFINE z == u \o v
  <2>4. /\ z \in Seq(Nat) /\ Len(z) = Len(u) + Len(v)
        /\ \A j \in 1 .. Len(u) + Len(v) : z[j] = IF j <= Len(u) THEN u[j] ELSE v[j - Len(u)]
    BY <2>1, <2>3, ConcatProperties, Zenon
  <2> HIDE DEF z
  <2>5. Len(u) + Len(v) = m
    BY <2>1, <2>3
  <2>6. z \in [1 .. m -> Nat]
    BY <1>3, <2>4, <2>5
  <2>7. ASSUME NEW j \in 1 .. m PROVE z[j] = 4
    <3>1. CASE j = 1
      BY <2>1, <2>4, <2>5, <3>1
    <3>2. CASE j # 1
      <4>1. j - 1 \in 1 .. 2 * n /\ ~(j <= 1)
        BY <3>2
      <4> QED
        BY <2>1, <2>3, <2>4, <2>5, <4>1
    <3> QED
      BY <3>1, <3>2
  <2> QED
    BY <2>6, <2>7 DEF u, v, z
<1>6. <<>> \in Octetos
  BY EmptySeq DEF Octetos
<1> HIDE DEF w, m
<1>7. b \in Octetos /\ Len(b) = 4 * m
  BY <1>3, <1>4, <1>6, RestosDa, LargoDeCuatros
<1>8. \A k \in 1 .. m : w[k] = Len(f[k]) /\ Len(f[k]) # 0
  <2>1. 4 # 0
    OBVIOUS
  <2> QED
    BY <1>4, <1>5, <2>1, Zenon
<1>9. Campos(b \o <<>>, w) = f
  BY <1>3, <1>5, <1>6, <1>8, CortaFijos, ZenonT(90)
<1>10. b \o <<>> = b
  BY <1>7, Pega, Zenon
<1>11. Len(b) - 4 = 8 * n
  BY <1>7 DEF m
<1> HIDE DEF b
<1>12. get_io_frames(b) = f
  <2>1. Campos(b, w) = f
    BY <1>9, <1>10
  <2>2. get_io_frames(b) = Campos(b, w)
    BY <1>11, Zenon DEF get_io_frames, w
  <2> QED
    BY <2>1, <2>2
<1> QED
  BY <1>7, <1>12 DEF b, f

\* A request to read or write a file: its name with its length, the position,
\* the size and the frames.
LEMMA LeeReadWrite ==
    ASSUME NEW c \in Octetos, NEW n \in Nat,
           NEW f, f = <<c, Ptr, Tam>> \o Frames(n),
           NEW b, b = ConLargo(f[1]) \o FlattenSeq(Tail(f))
    PROVE  /\ f \in Seq(Octetos) /\ b \in Octetos /\ Len(b) = 4 + Len(FlattenSeq(f))
           /\ get_io_read_write(b) = f
<1> DEFINE fr == Frames(n)
           tf == <<Tam>> \o fr
           ptf == <<Ptr>> \o tf
           rest == FlattenSeq(fr)
<1>1. /\ Tam \in Octetos /\ Len(Tam) = 4 /\ Ptr \in Octetos /\ Len(Ptr) = 4
      /\ fr \in Seq(Octetos) /\ rest \in Octetos /\ Len(rest) = 8 * n
      /\ Campos(rest, anchosFrames(8 * n)) = fr
  BY CamposIo, FramesDa, FramesLeidos
<1> HIDE DEF fr
<1>2. tf \in Seq(Octetos) /\ FlattenSeq(tf) = Tam \o rest
  BY <1>1, UnoYMas, Zenon
<1> HIDE DEF tf
<1>3. ptf \in Seq(Octetos) /\ FlattenSeq(ptf) = Ptr \o FlattenSeq(tf)
  BY <1>1, <1>2, UnoYMas, Zenon
<1>4. <<c, Ptr, Tam>> \o fr = <<c>> \o ptf
  <2> DEFINE uc == <<c>>
             up == <<Ptr>>
             ut == <<Tam>>
  <2>1. uc \in Seq(Octetos) /\ up \in Seq(Octetos) /\ ut \in Seq(Octetos)
    BY <1>1
  <2>2. up \o ut = <<Ptr, Tam>> /\ uc \o <<Ptr, Tam>> = <<c, Ptr, Tam>>
    BY <1>1, UnoYResto, Zenon
  <2>3. up \o ut \in Seq(Octetos)
    BY <2>1, ConcatProperties, Zenon
  <2>4. <<c, Ptr, Tam>> \o fr = (uc \o (up \o ut)) \o fr
    BY <2>2, Zenon
  <2> HIDE DEF uc, up, ut
  <2>5. (uc \o (up \o ut)) \o fr = uc \o ((up \o ut) \o fr)
    BY <1>1, <2>1, <2>3, PegaSecuencias, ZenonT(90)
  <2>6. (up \o ut) \o fr = up \o (ut \o fr)
    BY <1>1, <2>1, PegaSecuencias, ZenonT(90)
  <2> QED
    BY <2>4, <2>5, <2>6, Zenon DEF uc, up, ut, tf
<1> HIDE DEF ptf, rest
<1>5. /\ f \in Seq(Octetos) /\ f[1] = c /\ Tail(f) = ptf
      /\ FlattenSeq(f) = c \o FlattenSeq(ptf)
  <2> DEFINE z == <<c>> \o ptf
  <2>1. z \in Seq(Octetos) /\ z[1] = c /\ Tail(z) = ptf /\ FlattenSeq(z) = c \o FlattenSeq(ptf)
    BY <1>3, UnoYMas, Zenon
  <2>2. f = z
    BY <1>4 DEF fr
  <2> HIDE DEF z
  <2> QED
    BY <2>1, <2>2
<1> DEFINE r1 == Ptr \o (Tam \o rest)
           r2 == Tam \o rest
<1>6. r2 \in Octetos /\ r1 \in Octetos /\ FlattenSeq(ptf) = r1
  BY <1>1, <1>2, <1>3, Pega, Zenon
<1> HIDE DEF r1, r2
<1>7. /\ b = ConLargo(c) \o r1 /\ ConLargo(c) \in Octetos /\ Len(ConLargo(c)) = 4 + Len(c)
      /\ b \in Octetos
  <2>1. b = ConLargo(c) \o r1
    BY <1>5, <1>6
  <2>2. ConLargo(c) \in Octetos /\ Len(ConLargo(c)) = 4 + Len(c)
    BY ConLargoDa, Zenon
  <2> QED
    BY <1>6, <2>1, <2>2, Pega, Zenon
<1>8. Len(b) = 4 + Len(FlattenSeq(f))
  <2>1. /\ Len(b) = Len(ConLargo(c)) + Len(r1) /\ Len(FlattenSeq(f)) = Len(c) + Len(r1)
        /\ Len(c) \in Nat /\ Len(r1) \in Nat
    <3>1. FlattenSeq(f) = c \o r1
      BY <1>5, <1>6, Zenon
    <3>2. /\ Len(ConLargo(c) \o r1) = Len(ConLargo(c)) + Len(r1)
          /\ Len(c \o r1) = Len(c) + Len(r1) /\ Len(c) \in Nat /\ Len(r1) \in Nat
      BY <1>6, <1>7, Pega, Zenon
    <3> QED
      BY <1>7, <3>1, <3>2, Zenon
  <2>2. Len(ConLargo(c)) = 4 + Len(c)
    BY <1>7
  <2> DEFINE x == Len(c)
             y == Len(r1)
  <2>3. Len(b) = (4 + x) + y /\ Len(FlattenSeq(f)) = x + y /\ x \in Nat /\ y \in Nat
    BY <2>1, <2>2, Zenon
  <2> HIDE DEF x, y
  <2>4. (4 + x) + y = 4 + (x + y)
    BY <2>3
  <2> QED
    BY <2>3, <2>4, Zenon
<1>9. Cortado(b, 0, c, r1) /\ Cortado(r1, 4, Ptr, r2) /\ Cortado(r2, 4, Tam, rest)
  <2>1. Cortado(ConLargo(c) \o r1, 0, c, r1)
    BY <1>6, CortadoLargo, Zenon
  <2>2. 4 # 0
    OBVIOUS
  <2>3. Cortado(Ptr \o r2, 4, Ptr, r2)
    BY <1>1, <1>6, <2>2, CortadoFijo, Zenon
  <2>4. Cortado(Tam \o rest, 4, Tam, rest)
    BY <1>1, <2>2, CortadoFijo, Zenon
  <2> QED
    BY <1>7, <2>1, <2>3, <2>4, Zenon DEF r1, r2
<1> DEFINE w == <<0, 4, 4>>
           g == <<c, Ptr, Tam>>
<1>10. /\ w \in [1 .. 3 -> Nat] /\ w[1] = 0 /\ w[2] = 4 /\ w[3] = 4
       /\ g \in [1 .. 3 -> Octetos] /\ g[1] = c /\ g[2] = Ptr /\ g[3] = Tam
  BY <1>1
<1> HIDE DEF w, g
<1>11. Campos(b, w) = g /\ Last(Corta(b, w)) = rest
  <2>1. Cortado(b, w[1], g[1], r1) /\ Cortado(r1, w[2], g[2], r2) /\ Cortado(r2, w[3], g[3], rest)
    BY <1>9, <1>10, Zenon
  <2>2. /\ b \in Octetos /\ r1 \in Octetos /\ r2 \in Octetos /\ rest \in Octetos
        /\ w \in [1 .. 3 -> Nat] /\ g \in [1 .. 3 -> Octetos]
    BY <1>1, <1>6, <1>7, <1>10
  <2> QED
    BY <2>1, <2>2, CortaTres, Zenon
<1>12. Front(Corta(b, w)) = g
  BY <1>11, Zenon DEF Campos
<1>13. get_io_read_write(b) = g \o fr
  <2>1. get_io_read_write(b) = Front(Corta(b, w)) \o Campos(Last(Corta(b, w)), anchosFrames(Len(Last(Corta(b, w)))))
    BY Zenon DEF get_io_read_write, w
  <2> QED
    BY <1>1, <1>11, <1>12, <2>1, Zenon
<1> QED
  BY <1>5, <1>7, <1>8, <1>13, Zenon DEF g, fr

\* The request of IO: its size is the one announced, and who serves it reads
\* the arguments.
PedidoBien(p) ==
    /\ p.op \in Codigos /\ Contenido(p) \in Octetos
    /\ buffer_size(p) = Len(Contenido(p))
    /\ \A tipo : Sirve(tipo, p.op) => Entiende(tipo, p.op, Contenido(p)) = p.args

\* Names of fields used in requests.
LEMMA NombresIo ==
    /\ "tiempo" \in Nombres /\ "archivo" \in Nombres /\ "instr" \in Nombres
    /\ "nombre" \in Nombres /\ "pid" \in Nombres /\ "recurso" \in Nombres
    /\ "path" \in Nombres /\ "dato" \in Nombres /\ "info" \in Nombres
    /\ "marco" \in Nombres /\ "tam_pagina" \in Nombres
BY DEF Nombres

\* A sleep, a creation, a deletion: one string.
LEMMA PedidoUno ==
    ASSUME NEW o \in {"IO_GEN_SLEEP", "IO_FS_CREATE", "IO_FS_DELETE"}, NEW c \in Octetos
    PROVE  PedidoBien([op |-> o, args |-> <<c>>])
<1> DEFINE p == [op |-> o, args |-> <<c>>]
<1>1. p.op = o /\ p.args = <<c>>
  OBVIOUS
<1> HIDE DEF p
<1>2. /\ o \notin DelArchivo /\ o \notin {"IO_STDIN_READ", "IO_STDOUT_WRITE"}
      /\ o # "IO_FS_TRUNCATE" /\ o \notin {"IO_FS_READ", "IO_FS_WRITE"} /\ o \in Codigos
  BY DEF DelArchivo, Codigos
<1>3. FlattenSeq(<<c>>) = c
  BY AplanaPocos, Zenon
<1>4. Contenido(p) = c /\ buffer_size(p) = Len(c)
  BY <1>1, <1>2, <1>3, Zenon DEF Contenido, buffer_size
<1>5. ASSUME NEW tipo, Sirve(tipo, o) PROVE Entiende(tipo, o, c) = <<c>>
  BY <1>2, <1>5 DEF Entiende, get_io_file
<1> QED
  BY <1>1, <1>2, <1>4, <1>5, Zenon DEF PedidoBien, p

\* A truncation: a string and a size.
LEMMA PedidoTruncar ==
    ASSUME NEW c \in Octetos
    PROVE  PedidoBien([op |-> "IO_FS_TRUNCATE", args |-> <<c, Tam>>])
<1> DEFINE p == [op |-> "IO_FS_TRUNCATE", args |-> <<c, Tam>>]
           a == <<c, Tam>>
<1>1. p.op = "IO_FS_TRUNCATE" /\ p.args = a
  OBVIOUS
<1>2. a[1] = c /\ Tail(a) = <<Tam>>
  <2> DEFINE u == <<Tam>>
  <2>1. u \in Seq(Octetos)
    BY CamposIo
  <2>2. <<c>> \o u = <<c, Tam>>
    BY UnoYResto, CamposIo, Zenon
  <2> HIDE DEF u
  <2>3. (<<c>> \o u)[1] = c /\ Tail(<<c>> \o u) = u
    BY <2>1, UnoYMas, Zenon
  <2> QED
    BY <2>2, <2>3, Zenon DEF u
<1> HIDE DEF p
<1>3. FlattenSeq(<<Tam>>) = Tam /\ FlattenSeq(a) = c \o Tam
  BY AplanaPocos, CamposIo, Zenon
<1> HIDE DEF a
<1>4. "IO_FS_TRUNCATE" \in DelArchivo /\ "IO_FS_TRUNCATE" \in Codigos
  BY DEF DelArchivo, Codigos
<1>5. /\ Contenido(p) = ConLargo(c) \o Tam /\ buffer_size(p) = 4 + Len(c \o Tam)
  BY <1>1, <1>2, <1>3, <1>4, Zenon DEF Contenido, buffer_size
<1>6. Contenido(p) \in Octetos /\ buffer_size(p) = Len(Contenido(p))
  <2>1. /\ Tam \in Octetos /\ ConLargo(c) \in Octetos /\ Len(ConLargo(c)) = 4 + Len(c)
    BY CamposIo, ConLargoDa, Zenon
  <2>2. /\ ConLargo(c) \o Tam \in Octetos /\ Len(ConLargo(c) \o Tam) = Len(ConLargo(c)) + Len(Tam)
        /\ Len(c \o Tam) = Len(c) + Len(Tam) /\ Len(c) \in Nat /\ Len(Tam) \in Nat
    BY <2>1, Pega, Zenon
  <2> DEFINE x == Len(c)
             y == Len(Tam)
  <2>3. /\ Len(ConLargo(c) \o Tam) = (4 + x) + y /\ Len(c \o Tam) = x + y
        /\ x \in Nat /\ y \in Nat
    BY <2>1, <2>2, Zenon
  <2> HIDE DEF x, y
  <2>4. (4 + x) + y = 4 + (x + y)
    BY <2>3
  <2> QED
    BY <1>5, <2>2, <2>3, <2>4, Zenon
<1>7. ASSUME NEW tipo, Sirve(tipo, "IO_FS_TRUNCATE")
      PROVE  Entiende(tipo, "IO_FS_TRUNCATE", ConLargo(c) \o Tam) = a
  <2>1. get_io_truncate(ConLargo(c) \o Tam) = <<c, Tam>>
    BY CamposIo, LargoYCampo, Zenon DEF get_io_truncate
  <2>2. Entiende(tipo, "IO_FS_TRUNCATE", ConLargo(c) \o Tam) = get_io_truncate(ConLargo(c) \o Tam)
    BY <1>7 DEF Entiende
  <2> QED
    BY <2>1, <2>2, Zenon DEF a
<1>8. PedidoBien(p)
  BY <1>1, <1>4, <1>5, <1>6, <1>7, Zenon DEF PedidoBien
<1> QED
  BY <1>8 DEF p, a

\* A read or write of the standard interfaces: a size and frames.
LEMMA PedidoEstandar ==
    ASSUME NEW o \in {"IO_STDIN_READ", "IO_STDOUT_WRITE"}, NEW n \in Nat
    PROVE  PedidoBien([op |-> o, args |-> <<Tam>> \o Frames(n)])
<1> DEFINE a == <<Tam>> \o Frames(n)
           p == [op |-> o, args |-> a]
           b == FlattenSeq(a)
<1>1. p.op = o /\ p.args = a
  OBVIOUS
<1> HIDE DEF p
<1>2. o \notin DelArchivo /\ o \in Codigos
  BY DEF DelArchivo, Codigos
<1>3. b \in Octetos /\ get_io_frames(b) = a
  BY LeeFrames, Zenon
<1> HIDE DEF a
<1>4. Contenido(p) = b /\ buffer_size(p) = Len(b)
  BY <1>1, <1>2, Zenon DEF Contenido, buffer_size
<1> HIDE DEF b
<1>5. ASSUME NEW tipo, Sirve(tipo, o) PROVE Entiende(tipo, o, b) = a
  BY <1>3, <1>5 DEF Entiende
<1>6. PedidoBien(p)
  BY <1>1, <1>2, <1>3, <1>4, <1>5, Zenon DEF PedidoBien
<1> QED
  BY <1>6 DEF p, a

\* A read or write of a file.
LEMMA PedidoArchivo ==
    ASSUME NEW o \in {"IO_FS_READ", "IO_FS_WRITE"}, NEW c \in Octetos, NEW n \in Nat
    PROVE  PedidoBien([op |-> o, args |-> <<c, Ptr, Tam>> \o Frames(n)])
<1> DEFINE a == <<c, Ptr, Tam>> \o Frames(n)
           p == [op |-> o, args |-> a]
           b == ConLargo(a[1]) \o FlattenSeq(Tail(a))
<1>1. p.op = o /\ p.args = a
  OBVIOUS
<1> HIDE DEF p
<1>2. /\ o \in DelArchivo /\ o \in Codigos /\ o \notin {"IO_STDIN_READ", "IO_STDOUT_WRITE"}
      /\ o # "IO_FS_TRUNCATE"
  BY DEF DelArchivo, Codigos
<1>3. b \in Octetos /\ Len(b) = 4 + Len(FlattenSeq(a)) /\ get_io_read_write(b) = a
  BY LeeReadWrite, Zenon
<1> HIDE DEF a
<1>4. Contenido(p) = b /\ buffer_size(p) = Len(b)
  BY <1>1, <1>2, <1>3, Zenon DEF Contenido, buffer_size
<1> HIDE DEF b
<1>5. ASSUME NEW tipo, Sirve(tipo, o) PROVE Entiende(tipo, o, b) = a
  BY <1>2, <1>3, <1>5 DEF Entiende
<1>6. PedidoBien(p)
  BY <1>1, <1>2, <1>3, <1>4, <1>5, Zenon DEF PedidoBien
<1> QED
  BY <1>6 DEF p, a

\* Every request a program can make.
LEMMA PedidoDa ==
    ASSUME NEW p \in PedidosIo
    PROVE  PedidoBien(p)
<1>0. MaxFrames \in Nat /\ \A n \in 1 .. MaxFrames : n \in Nat
  BY ProtocoloAssumption
<1>1. CASE \E s \in Cadenas : p = [op |-> "IO_GEN_SLEEP", args |-> <<Cadena("tiempo", s)>>]
  <2>1. PICK s \in Cadenas : p = [op |-> "IO_GEN_SLEEP", args |-> <<Cadena("tiempo", s)>>]
    BY <1>1
  <2>2. Cadena("tiempo", s) \in Octetos
    BY CadenaDa, NombresIo, Zenon
  <2>3. "IO_GEN_SLEEP" \in {"IO_GEN_SLEEP", "IO_FS_CREATE", "IO_FS_DELETE"}
    OBVIOUS
  <2> QED
    BY <2>1, <2>2, <2>3, PedidoUno, Zenon
<1>2. CASE \E o \in {"IO_FS_CREATE", "IO_FS_DELETE"}, s \in Cadenas :
              p = [op |-> o, args |-> <<Cadena("archivo", s)>>]
  <2>1. PICK o \in {"IO_FS_CREATE", "IO_FS_DELETE"}, s \in Cadenas :
            p = [op |-> o, args |-> <<Cadena("archivo", s)>>]
    BY <1>2
  <2>2. Cadena("archivo", s) \in Octetos
    BY CadenaDa, NombresIo, Zenon
  <2>3. o \in {"IO_GEN_SLEEP", "IO_FS_CREATE", "IO_FS_DELETE"}
    OBVIOUS
  <2> QED
    BY <2>1, <2>2, <2>3, PedidoUno, Zenon
<1>3. CASE \E s \in Cadenas : p = [op |-> "IO_FS_TRUNCATE", args |-> <<Cadena("archivo", s), Tam>>]
  <2>1. PICK s \in Cadenas : p = [op |-> "IO_FS_TRUNCATE", args |-> <<Cadena("archivo", s), Tam>>]
    BY <1>3
  <2>2. Cadena("archivo", s) \in Octetos
    BY CadenaDa, NombresIo, Zenon
  <2> QED
    BY <2>1, <2>2, PedidoTruncar, Zenon
<1>4. CASE \E o \in {"IO_STDIN_READ", "IO_STDOUT_WRITE"}, n \in 1 .. MaxFrames :
              p = [op |-> o, args |-> <<Tam>> \o Frames(n)]
  BY <1>0, <1>4, PedidoEstandar, Zenon
<1> DEFINE S1 == {[op |-> "IO_GEN_SLEEP", args |-> <<Cadena("tiempo", s)>>] : s \in Cadenas}
           S2 == {[op |-> o, args |-> <<Cadena("archivo", s)>>] :
                    o \in {"IO_FS_CREATE", "IO_FS_DELETE"}, s \in Cadenas}
           S3 == {[op |-> "IO_FS_TRUNCATE", args |-> <<Cadena("archivo", s), Tam>>] : s \in Cadenas}
           S4 == {[op |-> o, args |-> <<Tam>> \o Frames(n)] :
                    o \in {"IO_STDIN_READ", "IO_STDOUT_WRITE"}, n \in 1 .. MaxFrames}
           G(o, s, n) == [op |-> o, args |-> <<Cadena("archivo", s), Ptr, Tam>> \o Frames(n)]
           S5 == {G(o, s, n) :
                    o \in {"IO_FS_READ", "IO_FS_WRITE"}, s \in Cadenas, n \in 1 .. MaxFrames}
<1>6. p \in S1 \/ p \in S2 \/ p \in S3 \/ p \in S4 \/ p \in S5
  <2>1. PedidosIo = S1 \cup S2 \cup S3 \cup S4 \cup S5
    BY DEF PedidosIo
  <2> HIDE DEF S1, S2, S3, S4, S5
  <2> QED
    BY <2>1
<1>7. CASE p \in S1
  BY <1>1, <1>7
<1>8. CASE p \in S2
  BY <1>2, <1>8
<1>9. CASE p \in S3
  BY <1>3, <1>9
<1>10. CASE p \in S4
  BY <1>4, <1>10, SMTT(60)
<1>11. CASE p \in S5
  <2>1. PICK o \in {"IO_FS_READ", "IO_FS_WRITE"}, s \in Cadenas, n \in 1 .. MaxFrames :
            p = G(o, s, n)
    <3> HIDE DEF G
    <3> QED
      BY <1>11
  <2> HIDE DEF S1, S2, S3, S4, S5
  <2>2. Cadena("archivo", s) \in Octetos
    BY CadenaDa, NombresIo, Zenon
  <2> QED
    BY <1>0, <2>1, <2>2, PedidoArchivo, Zenon
<1> HIDE DEF S1, S2, S3, S4, S5
<1> QED
  BY <1>6, <1>7, <1>8, <1>9, <1>10, <1>11

\* The kernel reads what the CPU wrote.
LEMMA PaqueteIoDa ==
    ASSUME NEW s \in Cadenas, NEW p \in PedidosIo
    PROVE  \E x \in Octetos :
              /\ PaqueteIo(s, p) = Paquete("IO", x)
              /\ recibir_io(x) = <<U32("instr", p.op), Cadena("nombre", s), Contenido(p)>>
<1> DEFINE i == U32("instr", p.op)
           n == Cadena("nombre", s)
           c == Contenido(p)
           m == Num(buffer_size(p))
           x == i \o (ConLargo(n) \o ConLargo(c))
<1>1. p.op \in Codigos /\ c \in Octetos /\ buffer_size(p) = Len(c)
  BY PedidoDa DEF PedidoBien
<1>2. i \in Octetos /\ Len(i) = 4 /\ n \in Octetos
  <2>1. p.op \in Valores
    BY <1>1, Zenon DEF Valores
  <2> QED
    BY <2>1, U32Da, CadenaDa, NombresIo, Zenon
<1>3. PaqueteIo(s, p) = Paquete("IO", ((i \o ConLargo(n)) \o m) \o c)
  BY DEF PaqueteIo
<1> HIDE DEF i, n, c
<1>4. Len(c) \in Nat /\ m \in Octetos /\ ConLargo(c) = m \o c
  BY <1>1, Pega, NumeroDa, Zenon DEF ConLargo
<1>5. ConLargo(n) \in Octetos /\ ConLargo(c) \in Octetos
  BY <1>1, <1>2, ConLargoDa, Zenon
<1> HIDE DEF m
<1>6. ((i \o ConLargo(n)) \o m) \o c = x
  <2> DEFINE l == ConLargo(n)
  <2>0. l \in Octetos
    BY <1>5
  <2> HIDE DEF l
  <2>1. i \o l \in Octetos
    BY <1>2, <2>0, Pega, Zenon
  <2>2. ((i \o l) \o m) \o c = (i \o l) \o (m \o c)
    BY <1>1, <1>4, <2>1, PegaAsocia, Zenon
  <2>3. m \o c \in Octetos
    BY <1>4, <1>5
  <2>4. (i \o l) \o (m \o c) = i \o (l \o (m \o c))
    BY <1>2, <2>0, <2>3, PegaAsocia, ZenonT(90)
  <2> QED
    BY <1>4, <2>2, <2>4 DEF l
<1>7. x \in Octetos
  <2>1. ConLargo(n) \o ConLargo(c) \in Octetos
    BY <1>5, Pega, Zenon
  <2> QED
    BY <1>2, <2>1, Pega, Zenon
<1>8. recibir_io(x) = <<i, n, c>>
  BY <1>1, <1>2, CampoYDosLargos, Zenon DEF recibir_io
<1> HIDE DEF x
<1> QED
  BY <1>3, <1>6, <1>7, <1>8, Zenon DEF i, n, c

\* The interface reads what the kernel passed on.
LEMMA SerializadoDa ==
    ASSUME NEW pid \in Pids, NEW p \in PedidosIo
    PROVE  LET i == U32("instr", p.op)
               x == agregar_io_serializado(pid, i, Contenido(p)) IN
           /\ x \in Octetos /\ i[1][2] = p.op
           /\ recibir_io_serializado(x) = <<U32("pid", pid), i, Contenido(p)>>
<1> DEFINE i == U32("instr", p.op)
           q == U32("pid", pid)
           c == Contenido(p)
           x == agregar_io_serializado(pid, i, c)
<1>1. p.op \in Codigos /\ c \in Octetos
  BY PedidoDa DEF PedidoBien
<1>2. /\ i \in Octetos /\ Len(i) = 4 /\ i[1] = <<"instr", p.op, 1, 4>>
      /\ q \in Octetos /\ Len(q) = 4
  <2>1. p.op \in Valores /\ pid \in Valores
    BY <1>1, Zenon DEF Valores
  <2> QED
    BY <2>1, U32Da, NombresIo, Zenon
<1>3. i[1][2] = p.op
  BY <1>2
<1>4. x = (q \o i) \o ConLargo(c)
  BY DEF agregar_io_serializado
<1> HIDE DEF i, q, c, x
<1>5. ConLargo(c) \in Octetos
  BY <1>1, ConLargoDa, Zenon
<1>6. x = q \o (i \o ConLargo(c))
  BY <1>2, <1>4, <1>5, PegaAsocia, Zenon
<1>7. x \in Octetos
  <2>1. i \o ConLargo(c) \in Octetos
    BY <1>2, <1>5, Pega, Zenon
  <2> QED
    BY <1>2, <1>6, <2>1, Pega, Zenon
<1>8. recibir_io_serializado(x) = <<q, i, c>>
  BY <1>1, <1>2, <1>6, DosCamposYLargo, Zenon DEF recibir_io_serializado
<1> QED
  BY <1>3, <1>7, <1>8, Zenon DEF i, q, c, x

-----------------------------------------------------------------------------
(* What is said on each connection, and how it is read.                    *)

DicePcb(b, m) ==
    \E p \in Pids, s \in Cadenas :
        /\ b = Paquete("PCB", agregar_pcb_paquete(Pcb(p, s)))
        /\ m = Dice("PCB", EnOrden(Pcb(p, s)))
DiceIo(b, m) ==
    \E s \in Cadenas, p \in PedidosIo :
        /\ b = PaqueteIo(s, p)
        /\ m = [op |-> "IO", pide |-> p,
                args |-> <<U32("instr", p.op), Cadena("nombre", s), Contenido(p)>>]
DiceSemaforo(b, m) ==
    \E s \in Cadenas, op \in {"WAIT_RECURSO", "SIGNAL_RECURSO"} :
        b = Paquete(op, Cadena("recurso", s)) /\ m = Dice(op, <<Cadena("recurso", s)>>)
DiceInterrupcion(b, m) ==
    \E p \in Pids, op \in {"INTERRUPT", "END_PID_USER"} :
        b = Paquete(op, U32("pid", p)) /\ m = Dice(op, <<U32("pid", p)>>)
DicePagina(b, m) == b = Op("MEM_PAGE_SIZE") /\ m = Dice("MEM_PAGE_SIZE", <<>>)
DiceMem(b, m) == \E p \in PedidosCpu \cup PedidosKernel : b = PaqueteMem(p) /\ m = p
DiceFin(b, m) ==
    \E p \in Pids : b = Paquete("END_PID", U32("pid", p)) /\ m = Dice("END_PID", <<U32("pid", p)>>)
DicePasado(tipo, b, m) ==
    \E pid \in Pids, p \in PedidosIo :
        /\ b = Paquete("IO", agregar_io_serializado(pid, U32("instr", p.op), Contenido(p)))
        /\ m = Dice("IO", <<U32("pid", pid), U32("instr", p.op)>> \o
                            IF Sirve(tipo, p.op) THEN p.args ELSE <<>>)
DiceNombre(b, m) ==
    /\ b = Paquete("MENSAJE", Cadena("nombre", NombreIo))
    /\ m = Dice("MENSAJE", <<Cadena("nombre", NombreIo)>>)
DiceCodigo(b, m) == \E op \in {"IO_SUCCESS", "IO_ERROR"} : b = Op(op) /\ m = Dice(op, <<>>)

\* r takes the bytes b, and understands m.
Justo(r, b, m) == r.n = Len(b) /\ r.m.op = m.op /\ r.m.args = m.args

\* b is a packet of s, and z begins with it.
PaqueteLeido(op, s, b, z) ==
    /\ b \in Octetos /\ b # <<>> /\ OpDe(z) = op /\ Buffer(z) = s
    /\ Trozo(z, 8, Len(s)) = s
    /\ \A args : Justo(TomaBuffer(z, args), b, Dice(op, args))
    /\ Len(s) = 4 => \A args : Justo(Toma(12, op, args), b, Dice(op, args))

\* A packet, whatever comes behind it.
LEMMA PaqueteJusto ==
    ASSUME NEW op \in Codigos, NEW s \in Octetos, NEW t \in Octetos
    PROVE  PaqueteLeido(op, s, Paquete(op, s), Paquete(op, s) \o t)
<1> DEFINE b == Paquete(op, s)
           z == b \o t
<1>1. /\ b \in Octetos /\ Len(b) = 8 + Len(s) /\ OpDe(z) = op /\ Buffer(z) = s
      /\ Len(s) \in Nat /\ Trozo(z, 8, Len(s)) = s
      /\ \A args : TomaBuffer(z, args) = Toma(8 + Len(s), op, args)
  BY PaqueteDa, ZenonT(90)
<1> HIDE DEF b, z
<1>2. b # <<>>
  <2>1. Len(b) # 0 /\ Len(<<>>) = 0
    BY <1>1
  <2> QED
    BY <2>1, Zenon
<1>3. ASSUME NEW args PROVE Justo(TomaBuffer(z, args), b, Dice(op, args))
  BY <1>1 DEF Justo, Toma, Dice
<1>4. ASSUME NEW args, Len(s) = 4 PROVE Justo(Toma(12, op, args), b, Dice(op, args))
  BY <1>1, <1>4 DEF Justo, Toma, Dice
<1> QED
  BY <1>1, <1>2, <1>3, <1>4, Zenon DEF PaqueteLeido, b, z

\* A code alone, whatever comes behind it.
LEMMA CodigoJusto ==
    ASSUME NEW op \in Codigos, NEW t \in Octetos, NEW b, b = Op(op), NEW z, z = b \o t
    PROVE  /\ b \in Octetos /\ b # <<>> /\ OpDe(z) = op
           /\ Justo(Toma(4, op, <<>>), b, Dice(op, <<>>))
<1>1. b \in Octetos /\ Len(b) = 4 /\ OpDe(z) = op
  BY OpDa, Zenon
<1>2. b # <<>>
  <2>1. Len(b) # 0 /\ Len(<<>>) = 0
    BY <1>1
  <2> QED
    BY <2>1, Zenon
<1>3. Justo(Toma(4, op, <<>>), b, Dice(op, <<>>))
  BY <1>1 DEF Justo, Toma, Dice
<1> QED
  BY <1>1, <1>2, <1>3

\* The PCB.
LEMMA LeePcb ==
    ASSUME NEW b, NEW m, DicePcb(b, m), NEW t \in Octetos, NEW z, z = b \o t
    PROVE  /\ b \in Octetos /\ b # <<>> /\ m.op = "PCB" /\ OpDe(z) = "PCB"
           /\ Justo(TomaBuffer(z, EnOrden(recibir_pcb(Buffer(z)))), b, m)
<1>1. PICK p \in Pids, s \in Cadenas :
            /\ b = Paquete("PCB", agregar_pcb_paquete(Pcb(p, s)))
            /\ m = Dice("PCB", EnOrden(Pcb(p, s)))
  BY Zenon DEF DicePcb
<1> DEFINE x == agregar_pcb_paquete(Pcb(p, s))
<1>2. x \in Octetos /\ EnOrden(recibir_pcb(x)) = EnOrden(Pcb(p, s))
  BY PcbIdaYVuelta, Zenon
<1>3. "PCB" \in Codigos
  BY DEF Codigos
<1>4. /\ b \in Octetos /\ b # <<>> /\ OpDe(z) = "PCB" /\ Buffer(z) = x
      /\ \A args : Justo(TomaBuffer(z, args), b, Dice("PCB", args))
  <2>1. PaqueteLeido("PCB", x, Paquete("PCB", x), Paquete("PCB", x) \o t)
    BY <1>1, <1>2, <1>3, PaqueteJusto, Zenon
  <2>2. b = Paquete("PCB", x)
    BY <1>1, <1>2, <1>3, Zenon
  <2>3. PaqueteLeido("PCB", x, b, z)
    BY <2>1, <2>2, Zenon
  <2> QED
    BY <1>1, <1>2, <1>3, <2>3, Zenon DEF PaqueteLeido
<1>5. m.op = "PCB"
  BY <1>1 DEF Dice
<1> QED
  BY <1>1, <1>2, <1>4, <1>5, Zenon

\* The kernel finds the instruction, the name and the contents of the request.
IoLeido(z, m) ==
    \E s \in Cadenas, p \in PedidosIo :
        /\ recibir_io(Buffer(z)) = <<U32("instr", p.op), Cadena("nombre", s), Contenido(p)>>
        /\ m.pide = p

\* The request of IO that goes before it.
LEMMA LeeIo ==
    ASSUME NEW b, NEW m, DiceIo(b, m), NEW t \in Octetos, NEW z, z = b \o t
    PROVE  /\ b \in Octetos /\ b # <<>> /\ m.op = "IO" /\ OpDe(z) = "IO"
           /\ Justo(TomaBuffer(z, recibir_io(Buffer(z))), b, m)
           /\ IoLeido(z, m)
<1>1. PICK s \in Cadenas, p \in PedidosIo :
            /\ b = PaqueteIo(s, p)
            /\ m = [op |-> "IO", pide |-> p,
                    args |-> <<U32("instr", p.op), Cadena("nombre", s), Contenido(p)>>]
  BY Zenon DEF DiceIo
<1> DEFINE a == <<U32("instr", p.op), Cadena("nombre", s), Contenido(p)>>
<1>2. PICK x \in Octetos : PaqueteIo(s, p) = Paquete("IO", x) /\ recibir_io(x) = a
  BY PaqueteIoDa, Zenon
<1>3. m.op = "IO" /\ m.pide = p /\ m.args = a
  BY <1>1
<1> HIDE DEF a
<1>4. "IO" \in Codigos
  BY DEF Codigos
<1>5. /\ b \in Octetos /\ b # <<>> /\ OpDe(z) = "IO" /\ Buffer(z) = x
      /\ \A args : Justo(TomaBuffer(z, args), b, Dice("IO", args))
  <2>1. PaqueteLeido("IO", x, Paquete("IO", x), Paquete("IO", x) \o t)
    BY <1>1, <1>2, <1>4, PaqueteJusto, Zenon
  <2>2. b = Paquete("IO", x)
    BY <1>1, <1>2, <1>4, Zenon
  <2>3. PaqueteLeido("IO", x, b, z)
    BY <2>1, <2>2, Zenon
  <2> QED
    BY <1>1, <1>2, <1>4, <2>3, Zenon DEF PaqueteLeido
<1>6. Justo(TomaBuffer(z, a), b, m)
  <2>1. Justo(TomaBuffer(z, a), b, Dice("IO", a))
    BY <1>5, Zenon
  <2>2. Dice("IO", a).op = m.op /\ Dice("IO", a).args = m.args
    BY <1>3 DEF Dice
  <2> QED
    BY <2>1, <2>2, Zenon DEF Justo
<1>7. IoLeido(z, m)
  BY <1>2, <1>3, <1>5, Zenon DEF a, IoLeido
<1> QED
  BY <1>2, <1>3, <1>5, <1>6, <1>7, Zenon

\* WAIT and SIGNAL.
LEMMA LeeSemaforo ==
    ASSUME NEW b, NEW m, DiceSemaforo(b, m), NEW t \in Octetos, NEW z, z = b \o t
    PROVE  /\ b \in Octetos /\ b # <<>> /\ m.op \in {"WAIT_RECURSO", "SIGNAL_RECURSO"}
           /\ OpDe(z) = m.op
           /\ Justo(TomaBuffer(z, <<Buffer(z)>>), b, m)
<1>1. PICK s \in Cadenas, op \in {"WAIT_RECURSO", "SIGNAL_RECURSO"} :
            b = Paquete(op, Cadena("recurso", s)) /\ m = Dice(op, <<Cadena("recurso", s)>>)
  BY Zenon DEF DiceSemaforo
<1>2. Cadena("recurso", s) \in Octetos
  BY CadenaDa, NombresIo, Zenon
<1>3. op \in Codigos
  BY DEF Codigos
<1>4. /\ b \in Octetos /\ b # <<>> /\ OpDe(z) = op /\ Buffer(z) = Cadena("recurso", s)
      /\ \A args : Justo(TomaBuffer(z, args), b, Dice(op, args))
  <2>1. PaqueteLeido(op, Cadena("recurso", s), Paquete(op, Cadena("recurso", s)), Paquete(op, Cadena("recurso", s)) \o t)
    BY <1>1, <1>2, <1>3, PaqueteJusto, Zenon
  <2>2. b = Paquete(op, Cadena("recurso", s))
    BY <1>1, <1>2, <1>3, Zenon
  <2>3. PaqueteLeido(op, Cadena("recurso", s), b, z)
    BY <2>1, <2>2, Zenon
  <2> QED
    BY <1>1, <1>2, <1>3, <2>3, Zenon DEF PaqueteLeido
<1>5. m.op = op
  BY <1>1 DEF Dice
<1> QED
  BY <1>1, <1>4, <1>5, Zenon

\* An interrupt.
LEMMA LeeInterrupcion ==
    ASSUME NEW b, NEW m, DiceInterrupcion(b, m), NEW t \in Octetos, NEW z, z = b \o t
    PROVE  /\ b \in Octetos /\ b # <<>>
           /\ Justo(Toma(12, OpDe(z), <<Trozo(z, 8, 4)>>), b, m)
<1>1. PICK p \in Pids, op \in {"INTERRUPT", "END_PID_USER"} :
            b = Paquete(op, U32("pid", p)) /\ m = Dice(op, <<U32("pid", p)>>)
  BY Zenon DEF DiceInterrupcion
<1>2. U32("pid", p) \in Octetos /\ Len(U32("pid", p)) = 4
  <2>1. p \in Valores
    BY Zenon DEF Valores
  <2> QED
    BY <2>1, U32Da, NombresIo, Zenon
<1>3. op \in Codigos
  BY DEF Codigos
<1>4. /\ b \in Octetos /\ b # <<>> /\ OpDe(z) = op /\ Trozo(z, 8, 4) = U32("pid", p)
      /\ \A args : Justo(Toma(12, op, args), b, Dice(op, args))
  <2>1. PaqueteLeido(op, U32("pid", p), Paquete(op, U32("pid", p)), Paquete(op, U32("pid", p)) \o t)
    BY <1>1, <1>2, <1>3, PaqueteJusto, Zenon
  <2>2. b = Paquete(op, U32("pid", p))
    BY <1>1, <1>2, <1>3, Zenon
  <2>3. PaqueteLeido(op, U32("pid", p), b, z)
    BY <2>1, <2>2, Zenon
  <2> QED
    BY <1>1, <1>2, <1>3, <2>3, Zenon DEF PaqueteLeido
<1> QED
  BY <1>1, <1>4, Zenon

\* The name of an interface.
LEMMA LeeNombre ==
    ASSUME NEW b, NEW m, DiceNombre(b, m), NEW t \in Octetos, NEW z, z = b \o t
    PROVE  /\ b \in Octetos /\ b # <<>> /\ m.op = "MENSAJE"
           /\ Justo(TomaBuffer(z, <<Buffer(z)>>), b, m)
<1> DEFINE c == Cadena("nombre", NombreIo)
<1>1. c \in Octetos
  <2>1. NombreIo \in Cadenas
    <3>1. \E s \in Cadenas : TRUE
      BY ProtocoloAssumption
    <3> QED
      BY <3>1, Zenon DEF NombreIo
  <2> QED
    BY <2>1, CadenaDa, NombresIo, Zenon
<1>2. b = Paquete("MENSAJE", c) /\ m = Dice("MENSAJE", <<c>>)
  BY Zenon DEF DiceNombre
<1> HIDE DEF c
<1>3. "MENSAJE" \in Codigos
  BY DEF Codigos
<1>4. /\ b \in Octetos /\ b # <<>> /\ Buffer(z) = c
      /\ \A args : Justo(TomaBuffer(z, args), b, Dice("MENSAJE", args))
  <2>1. PaqueteLeido("MENSAJE", c, Paquete("MENSAJE", c), Paquete("MENSAJE", c) \o t)
    BY <1>1, <1>2, <1>3, PaqueteJusto, Zenon
  <2>2. b = Paquete("MENSAJE", c)
    BY <1>1, <1>2, <1>3, Zenon
  <2>3. PaqueteLeido("MENSAJE", c, b, z)
    BY <2>1, <2>2, Zenon
  <2> QED
    BY <1>1, <1>2, <1>3, <2>3, Zenon DEF PaqueteLeido
<1>5. m.op = "MENSAJE"
  BY <1>2 DEF Dice
<1> QED
  BY <1>2, <1>4, <1>5, Zenon

\* The answer of an interface.
LEMMA LeeCodigo ==
    ASSUME NEW b, NEW m, DiceCodigo(b, m), NEW t \in Octetos, NEW z, z = b \o t
    PROVE  /\ b \in Octetos /\ b # <<>> /\ m.op \in {"IO_SUCCESS", "IO_ERROR"}
           /\ Justo(Toma(4, OpDe(z), <<>>), b, m)
<1>1. PICK op \in {"IO_SUCCESS", "IO_ERROR"} : b = Op(op) /\ m = Dice(op, <<>>)
  BY Zenon DEF DiceCodigo
<1>2. op \in Codigos
  BY DEF Codigos
<1>3. b \in Octetos /\ b # <<>> /\ OpDe(z) = op /\ Justo(Toma(4, op, <<>>), b, Dice(op, <<>>))
  BY <1>1, <1>2, CodigoJusto, Zenon
<1>4. m.op = op
  BY <1>1 DEF Dice
<1> QED
  BY <1>1, <1>3, <1>4, Zenon

\* A request passed on by the kernel.
LEMMA LeePasado ==
    ASSUME NEW tipo, NEW b, NEW m, DicePasado(tipo, b, m), NEW t \in Octetos, NEW z, z = b \o t
    PROVE  /\ b \in Octetos /\ b # <<>>
           /\ \E c \in {recibir_io_serializado(Buffer(z))} :
                /\ c[2][1][2] \in Codigos
                /\ Justo(TomaBuffer(z, <<c[1], c[2]>> \o Entiende(tipo, c[2][1][2], c[3])), b, m)
<1>1. PICK pid \in Pids, p \in PedidosIo :
            /\ b = Paquete("IO", agregar_io_serializado(pid, U32("instr", p.op), Contenido(p)))
            /\ m = Dice("IO", <<U32("pid", pid), U32("instr", p.op)>> \o
                                IF Sirve(tipo, p.op) THEN p.args ELSE <<>>)
  BY Zenon DEF DicePasado
<1> DEFINE i == U32("instr", p.op)
           q == U32("pid", pid)
           d == Contenido(p)
           x == agregar_io_serializado(pid, i, d)
           c == recibir_io_serializado(Buffer(z))
<1>2. x \in Octetos /\ i[1][2] = p.op /\ recibir_io_serializado(x) = <<q, i, d>>
  BY SerializadoDa
<1>3. "IO" \in Codigos /\ p.op \in Codigos
  BY PedidoDa DEF Codigos, PedidoBien
<1> HIDE DEF x
<1>4. /\ b \in Octetos /\ b # <<>> /\ Buffer(z) = x
      /\ \A args : Justo(TomaBuffer(z, args), b, Dice("IO", args))
  <2>1. PaqueteLeido("IO", x, Paquete("IO", x), Paquete("IO", x) \o t)
    BY <1>1, <1>2, <1>3, PaqueteJusto, Zenon
  <2>2. b = Paquete("IO", x)
    BY <1>1, <1>2, <1>3, Zenon DEF x
  <2>3. PaqueteLeido("IO", x, b, z)
    BY <2>1, <2>2, Zenon
  <2> QED
    BY <1>1, <1>2, <1>3, <2>3, Zenon DEF PaqueteLeido
<1>5. Entiende(tipo, p.op, d) = IF Sirve(tipo, p.op) THEN p.args ELSE <<>>
  <2>1. CASE Sirve(tipo, p.op)
    BY <2>1, PedidoDa, Zenon DEF PedidoBien
  <2>2. CASE ~Sirve(tipo, p.op)
    BY <2>2, Zenon DEF Entiende
  <2> QED
    BY <2>1, <2>2
<1>6. m = Dice("IO", <<q, i>> \o Entiende(tipo, p.op, d))
  BY <1>1, <1>5, Zenon
<1> HIDE DEF i, q, d
<1>7. c = <<q, i, d>>
  BY <1>2, <1>4, Zenon
<1> HIDE DEF c
<1>8. c[1] = q /\ c[2] = i /\ c[3] = d
  BY <1>7
<1>9. c[2][1][2] = p.op
  BY <1>2, <1>8, Zenon
<1>10. Justo(TomaBuffer(z, <<c[1], c[2]>> \o Entiende(tipo, c[2][1][2], c[3])), b, m)
  BY <1>4, <1>6, <1>8, <1>9, Zenon
<1> QED
  BY <1>3, <1>4, <1>9, <1>10, Zenon DEF c

-----------------------------------------------------------------------------
(* Memoria's side, and its clients'.                                       *)

\* What memoria takes at z is the message m of bytes b, of op as it is.
MemLeido(op, b, m, z) ==
    /\ b \in Octetos /\ b # <<>> /\ m.op = op /\ Justo(recibir_mem(z), b, m)

\* Two fields of four bytes.
LEMMA MemDos ==
    ASSUME NEW op \in {"INSTRUCTION", "MEM_PID_PAGE", "MEM_RESIZE", "MEM_READ"},
           NEW a \in Octetos, NEW c \in Octetos, Len(a) = 4, Len(c) = 4, NEW t \in Octetos,
           NEW m, m.op = op, m.args = <<a, c>>
    PROVE  MemLeido(op, Paquete(op, FlattenSeq(<<a, c>>)), m, Paquete(op, FlattenSeq(<<a, c>>)) \o t)
<1> DEFINE s == a \o c
           b == Paquete(op, s)
           z == b \o t
<1>1. FlattenSeq(<<a, c>>) = s /\ s \in Octetos /\ Campos(s, <<4, 4>>) = <<a, c>>
  BY AplanaPocos, Pega, DosCampos, Zenon
<1>2. op \in Codigos
  BY DEF Codigos
<1> HIDE DEF s
<1>3. PaqueteLeido(op, s, b, z)
  BY <1>1, <1>2, PaqueteJusto, Zenon
<1> HIDE DEF b, z
<1>4. /\ b \in Octetos /\ b # <<>> /\ OpDe(z) = op /\ Buffer(z) = s
      /\ Justo(TomaBuffer(z, <<a, c>>), b, Dice(op, <<a, c>>))
  BY <1>3, Zenon DEF PaqueteLeido
<1>5. /\ op # "MEM_PAGE_SIZE" /\ op # "END_PID" /\ op # "INIT_SCRIPT"
      /\ op \notin {"MEM_WRITE", "INIT_PID"}
  OBVIOUS
<1>6. recibir_mem(z) = TomaBuffer(z, Campos(Buffer(z), <<4, 4>>))
  BY <1>4, <1>5 DEF recibir_mem
<1>7. Justo(recibir_mem(z), b, m)
  <2>1. Dice(op, <<a, c>>).op = m.op /\ Dice(op, <<a, c>>).args = m.args
    BY DEF Dice
  <2> QED
    BY <1>1, <1>4, <1>6, <2>1, Zenon DEF Justo
<1>8. MemLeido(op, b, m, z)
  BY <1>4, <1>7, Zenon DEF MemLeido
<1> QED
  BY <1>1, <1>8, Zenon DEF b, z

\* A field of four bytes and a string with its length.
LEMMA MemLargo ==
    ASSUME NEW op \in {"MEM_WRITE", "INIT_PID"},
           NEW a \in Octetos, NEW c \in Octetos, Len(a) = 4, NEW t \in Octetos,
           NEW m, m.op = op, m.args = <<a, c>>
    PROVE  MemLeido(op, Paquete(op, a \o ConLargo(c)), m, Paquete(op, a \o ConLargo(c)) \o t)
<1> DEFINE s == a \o ConLargo(c)
           b == Paquete(op, s)
           z == b \o t
<1>1. s \in Octetos /\ Campos(s, <<4, 0>>) = <<a, c>>
  BY ConLargoDa, Pega, CampoYLargo, Zenon
<1>2. op \in Codigos
  BY DEF Codigos
<1> HIDE DEF s
<1>3. PaqueteLeido(op, s, b, z)
  BY <1>1, <1>2, PaqueteJusto, Zenon
<1> HIDE DEF b, z
<1>4. /\ b \in Octetos /\ b # <<>> /\ OpDe(z) = op /\ Buffer(z) = s
      /\ Justo(TomaBuffer(z, <<a, c>>), b, Dice(op, <<a, c>>))
  BY <1>3, Zenon DEF PaqueteLeido
<1>5. op # "MEM_PAGE_SIZE" /\ op # "END_PID" /\ op # "INIT_SCRIPT"
  OBVIOUS
<1>6. recibir_mem(z) = TomaBuffer(z, Campos(Buffer(z), <<4, 0>>))
  BY <1>4, <1>5 DEF recibir_mem
<1>7. Justo(recibir_mem(z), b, m)
  <2>1. Dice(op, <<a, c>>).op = m.op /\ Dice(op, <<a, c>>).args = m.args
    BY DEF Dice
  <2> QED
    BY <1>1, <1>4, <1>6, <2>1, Zenon DEF Justo
<1>8. MemLeido(op, b, m, z)
  BY <1>4, <1>7, Zenon DEF MemLeido
<1> QED
  BY <1>8 DEF b, z, s

\* A string alone.
LEMMA MemCadena ==
    ASSUME NEW c \in Octetos, NEW t \in Octetos,
           NEW m, m.op = "INIT_SCRIPT", m.args = <<c>>
    PROVE  MemLeido("INIT_SCRIPT", Paquete("INIT_SCRIPT", c), m, Paquete("INIT_SCRIPT", c) \o t)
<1> DEFINE op == "INIT_SCRIPT"
           b == Paquete(op, c)
           z == b \o t
<1>1. op \in Codigos
  BY DEF Codigos
<1>2. op # "MEM_PAGE_SIZE" /\ op # "END_PID" /\ m.op = op
  OBVIOUS
<1>3. PaqueteLeido(op, c, b, z)
  BY <1>1, PaqueteJusto, Zenon
<1> HIDE DEF b, z
<1>4. /\ b \in Octetos /\ b # <<>> /\ OpDe(z) = op /\ Buffer(z) = c
      /\ Justo(TomaBuffer(z, <<c>>), b, Dice(op, <<c>>))
  BY <1>3, Zenon DEF PaqueteLeido
<1>5. recibir_mem(z) = TomaBuffer(z, <<Buffer(z)>>)
  BY <1>2, <1>4 DEF recibir_mem
<1>6. Justo(recibir_mem(z), b, m)
  <2>1. Dice(op, <<c>>).op = m.op /\ Dice(op, <<c>>).args = m.args
    BY DEF Dice
  <2> QED
    BY <1>4, <1>5, <2>1, Zenon DEF Justo
<1>7. MemLeido(op, b, m, z)
  BY <1>2, <1>4, <1>6, Zenon DEF MemLeido
<1> QED
  BY <1>7 DEF b, z

\* The end of a process.
LEMMA LeeFin ==
    ASSUME NEW b, NEW m, DiceFin(b, m), NEW t \in Octetos, NEW z, z = b \o t
    PROVE  MemLeido("END_PID", b, m, z)
<1>1. PICK p \in Pids : b = Paquete("END_PID", U32("pid", p)) /\ m = Dice("END_PID", <<U32("pid", p)>>)
  BY Zenon DEF DiceFin
<1> DEFINE u == U32("pid", p)
<1>2. u \in Octetos /\ Len(u) = 4
  <2>1. p \in Valores
    BY Zenon DEF Valores
  <2> QED
    BY <2>1, U32Da, NombresIo, Zenon
<1>3. "END_PID" \in Codigos
  BY DEF Codigos
<1> HIDE DEF u
<1>4. PaqueteLeido("END_PID", u, b, z)
  <2>1. PaqueteLeido("END_PID", u, Paquete("END_PID", u), Paquete("END_PID", u) \o t)
    BY <1>2, <1>3, PaqueteJusto, Zenon
  <2> QED
    BY <1>1, <2>1, Zenon DEF u
<1>5. /\ b \in Octetos /\ b # <<>> /\ OpDe(z) = "END_PID" /\ Trozo(z, 8, 4) = u
      /\ Justo(Toma(12, "END_PID", <<u>>), b, Dice("END_PID", <<u>>))
  BY <1>2, <1>4, Zenon DEF PaqueteLeido
<1>6. recibir_mem(z) = Toma(12, "END_PID", <<Trozo(z, 8, 4)>>)
  BY <1>5 DEF recibir_mem
<1>7. m = Dice("END_PID", <<u>>) /\ m.op = "END_PID"
  BY <1>1 DEF u, Dice
<1> QED
  BY <1>5, <1>6, <1>7, Zenon DEF MemLeido

\* The size of a page.
LEMMA LeePagina ==
    ASSUME NEW b, NEW m, DicePagina(b, m), NEW t \in Octetos, NEW z, z = b \o t
    PROVE  MemLeido("MEM_PAGE_SIZE", b, m, z)
<1>1. b = Op("MEM_PAGE_SIZE") /\ m = Dice("MEM_PAGE_SIZE", <<>>)
  BY DEF DicePagina
<1>2. "MEM_PAGE_SIZE" \in Codigos
  BY DEF Codigos
<1>3. /\ b \in Octetos /\ b # <<>> /\ OpDe(z) = "MEM_PAGE_SIZE"
      /\ Justo(Toma(4, "MEM_PAGE_SIZE", <<>>), b, Dice("MEM_PAGE_SIZE", <<>>))
  BY <1>1, <1>2, CodigoJusto, Zenon
<1>4. recibir_mem(z) = Toma(4, "MEM_PAGE_SIZE", <<>>)
  BY <1>3 DEF recibir_mem
<1>5. m.op = "MEM_PAGE_SIZE"
  BY <1>1 DEF Dice
<1> QED
  BY <1>1, <1>3, <1>4, <1>5, Zenon DEF MemLeido

OpsMem == {"INSTRUCTION", "MEM_PID_PAGE", "MEM_RESIZE", "MEM_READ", "MEM_WRITE"}

\* Each is a process with another number, or a frame, to read or to write.
LEMMA PedidosCpuSon ==
    ASSUME NEW m \in PedidosCpu
    PROVE  \/ \E o \in {"INSTRUCTION", "MEM_PID_PAGE", "MEM_RESIZE"}, p \in Pids :
                   m = PidConUint32(o, p)
           \/ m = [op |-> "MEM_READ", args |-> Frame(1)]
           \/ m = [op |-> "MEM_WRITE", args |-> <<Frame(1)[1], Dato>>]
  BY DEF PedidosCpu

\* What the CPU and an interface may ask of memoria.
LEMMA PedidosCpuDa ==
    ASSUME NEW p \in PedidosCpu, NEW t \in Octetos
    PROVE  MemLeido(p.op, PaqueteMem(p), p, PaqueteMem(p) \o t) /\ p.op \in OpsMem
<1>1. Dato \in Octetos
  <2>1. PICK s \in Cadenas : Dato = Cadena("dato", s)
    <3>1. \E s \in Cadenas : TRUE
      BY ProtocoloAssumption
    <3> QED
      BY <3>1, Zenon DEF Dato
  <2> QED
    BY <2>1, CadenaDa, NombresIo, Zenon
<1>2. /\ Frame(1)[1] \in Octetos /\ Len(Frame(1)[1]) = 4
      /\ Frame(1)[2] \in Octetos /\ Len(Frame(1)[2]) = 4 /\ Frame(1) = <<Frame(1)[1], Frame(1)[2]>>
  <2>1. 1 \in Nat
    OBVIOUS
  <2>2. Frame(1) = <<Frame(1)[1], Frame(1)[2]>>
    BY DEF Frame
  <2> QED
    BY <2>1, <2>2, CamposIo
<1>3. CASE \E o \in {"INSTRUCTION", "MEM_PID_PAGE", "MEM_RESIZE"}, q \in Pids :
              p = PidConUint32(o, q)
  <2>1. PICK o \in {"INSTRUCTION", "MEM_PID_PAGE", "MEM_RESIZE"}, q \in Pids :
              p = PidConUint32(o, q)
    BY <1>3
  <2> DEFINE a == U32("pid", q)
             c == U32("info", "")
  <2>2. a \in Octetos /\ Len(a) = 4 /\ c \in Octetos /\ Len(c) = 4
    <3>1. q \in Valores /\ "" \in Valores
      BY Zenon DEF Valores
    <3> QED
      BY <3>1, U32Da, NombresIo, Zenon
  <2>3. p.op = o /\ p.args = <<a, c>>
    BY <2>1 DEF PidConUint32
  <2> HIDE DEF a, c
  <2>4. PaqueteMem(p) = Paquete(o, FlattenSeq(<<a, c>>))
    BY <2>3 DEF PaqueteMem
  <2>5. o \in {"INSTRUCTION", "MEM_PID_PAGE", "MEM_RESIZE", "MEM_READ"} /\ o \in OpsMem
    BY DEF OpsMem
  <2> QED
    BY <2>2, <2>3, <2>4, <2>5, MemDos, Zenon
<1>4. CASE p = [op |-> "MEM_READ", args |-> Frame(1)]
  <2>1. p.op = "MEM_READ" /\ p.args = <<Frame(1)[1], Frame(1)[2]>>
    <3>1. p.op = "MEM_READ" /\ p.args = Frame(1)
      BY <1>4
    <3> QED
      BY <1>2, <3>1
  <2>2. PaqueteMem(p) = Paquete("MEM_READ", FlattenSeq(<<Frame(1)[1], Frame(1)[2]>>))
    BY <2>1 DEF PaqueteMem
  <2>3. "MEM_READ" \in {"INSTRUCTION", "MEM_PID_PAGE", "MEM_RESIZE", "MEM_READ"}
        /\ "MEM_READ" \in OpsMem
    BY DEF OpsMem
  <2> QED
    BY <1>2, <2>1, <2>2, <2>3, MemDos, Zenon
<1>5. CASE p = [op |-> "MEM_WRITE", args |-> <<Frame(1)[1], Dato>>]
  <2>1. p.op = "MEM_WRITE" /\ p.args = <<Frame(1)[1], Dato>>
    BY <1>5
  <2>2. PaqueteMem(p) = Paquete("MEM_WRITE", Frame(1)[1] \o ConLargo(Dato))
    BY <2>1 DEF PaqueteMem
  <2>3. "MEM_WRITE" \in {"MEM_WRITE", "INIT_PID"} /\ "MEM_WRITE" \in OpsMem
    BY DEF OpsMem
  <2> QED
    BY <1>1, <1>2, <2>1, <2>2, <2>3, MemLargo, Zenon
<1>6. \/ \E o \in {"INSTRUCTION", "MEM_PID_PAGE", "MEM_RESIZE"}, q \in Pids :
              p = PidConUint32(o, q)
      \/ p = [op |-> "MEM_READ", args |-> Frame(1)]
      \/ p = [op |-> "MEM_WRITE", args |-> <<Frame(1)[1], Dato>>]
  BY PedidosCpuSon
<1> QED
  BY <1>3, <1>4, <1>5, <1>6

\* What the console may ask of it.
LEMMA PedidosKernelDa ==
    ASSUME NEW p \in PedidosKernel, NEW t \in Octetos
    PROVE  /\ MemLeido(p.op, PaqueteMem(p), p, PaqueteMem(p) \o t)
           /\ p.op \in {"INIT_PID", "INIT_SCRIPT"}
<1>1. CASE \E q \in Pids, s \in Cadenas :
              p = [op |-> "INIT_PID", args |-> <<U32("pid", q), Cadena("path", s)>>]
  <2>1. PICK q \in Pids, s \in Cadenas :
              p = [op |-> "INIT_PID", args |-> <<U32("pid", q), Cadena("path", s)>>]
    BY <1>1
  <2> DEFINE a == U32("pid", q)
             c == Cadena("path", s)
  <2>2. a \in Octetos /\ Len(a) = 4 /\ c \in Octetos
    <3>1. q \in Valores
      BY Zenon DEF Valores
    <3> QED
      BY <3>1, U32Da, CadenaDa, NombresIo, Zenon
  <2>3. p.op = "INIT_PID" /\ p.args = <<a, c>>
    BY <2>1
  <2> HIDE DEF a, c
  <2>4. p.args[1] = a /\ p.args[2] = c
    BY <2>3
  <2>5. PaqueteMem(p) = Paquete("INIT_PID", a \o ConLargo(c))
    BY <2>3, <2>4 DEF PaqueteMem
  <2>6. "INIT_PID" \in {"MEM_WRITE", "INIT_PID"}
    OBVIOUS
  <2>7. p.op \in {"INIT_PID", "INIT_SCRIPT"}
    BY <2>3
  <2> QED
    BY <2>2, <2>3, <2>5, <2>6, <2>7, MemLargo, Zenon
<1>2. CASE \E s \in Cadenas : p = [op |-> "INIT_SCRIPT", args |-> <<Cadena("path", s)>>]
  <2>1. PICK s \in Cadenas : p = [op |-> "INIT_SCRIPT", args |-> <<Cadena("path", s)>>]
    BY <1>2
  <2> DEFINE c == Cadena("path", s)
  <2>2. c \in Octetos
    BY CadenaDa, NombresIo, Zenon
  <2>3. p.op = "INIT_SCRIPT" /\ p.args = <<c>>
    BY <2>1
  <2> HIDE DEF c
  <2>4. FlattenSeq(<<c>>) = c
    BY <2>2, AplanaPocos, Zenon
  <2>5. PaqueteMem(p) = Paquete("INIT_SCRIPT", c)
    BY <2>3, <2>4 DEF PaqueteMem
  <2>6. p.op \in {"INIT_PID", "INIT_SCRIPT"}
    BY <2>3
  <2> QED
    BY <2>2, <2>3, <2>5, <2>6, MemCadena, Zenon
<1>3. \/ \E q \in Pids, s \in Cadenas :
              p = [op |-> "INIT_PID", args |-> <<U32("pid", q), Cadena("path", s)>>]
      \/ \E s \in Cadenas : p = [op |-> "INIT_SCRIPT", args |-> <<Cadena("path", s)>>]
  BY DEF PedidosKernel
<1> QED
  BY <1>1, <1>2, <1>3

\* Either.
LEMMA LeeMem ==
    ASSUME NEW b, NEW m, DiceMem(b, m), NEW t \in Octetos, NEW z, z = b \o t
    PROVE  MemLeido(m.op, b, m, z) /\ m.op \in OpsMem \cup {"INIT_PID", "INIT_SCRIPT"}
<1>1. PICK p \in PedidosCpu \cup PedidosKernel : b = PaqueteMem(p) /\ m = p
  BY Zenon DEF DiceMem
<1>2. CASE p \in PedidosCpu
  BY <1>1, <1>2, PedidosCpuDa, Zenon
<1>3. CASE p \in PedidosKernel
  BY <1>1, <1>3, PedidosKernelDa
<1> QED
  BY <1>1, <1>2, <1>3

-----------------------------------------------------------------------------
(* The answers of memoria.                                                 *)

\* What its client makes of an answer is what the answer says.
RespuestaBien(e, r) ==
    /\ r.bytes \in Octetos /\ r.bytes # <<>>
    /\ Justo(recibir_respuesta(e, r.bytes), r.bytes, r.dicho)

\* fetch takes the values of a packet, and stops where there are no more.
LEMMA PaqueteRecibido ==
    ASSUME NEW n \in 1 .. 2, NEW d \in Octetos, Len(d) # 0
    PROVE  /\ FlattenSeq([k \in 1 .. n |-> ConLargo(d)]) \in Octetos
           /\ recibir_paquete(FlattenSeq([k \in 1 .. n |-> ConLargo(d)])) = [k \in 1 .. n |-> d]
<1> DEFINE g == [k \in 1 .. n |-> ConLargo(d)]
           s == FlattenSeq(g)
           N == Len(s) \div 5
           w == [k \in 1 .. N |-> 0]
           f == [k \in 1 .. N |-> IF k <= n THEN d ELSE <<>>]
<1>1. n \in Nat /\ ConLargo(d) \in Octetos /\ Len(ConLargo(d)) = 4 + Len(d) /\ Len(d) \in Nat
  BY ConLargoDa
<1>2. g \in [1 .. n -> Octetos]
  BY <1>1, Zenon
<1>3. PICK q : Restos(q, n, g, <<>>)
  BY <1>1, <1>2, RestosDa, Pega, Zenon
<1>4. s \in Octetos
  BY <1>1, <1>2, RestosDa, Pega, Zenon
<1>5. Len(s) \in Nat /\ Len(s) >= 5 * n
  <2> DEFINE c == ConLargo(d)
  <2>1. CASE n = 1
    <3>1. g = <<c>>
      BY <2>1
    <3>2. s = c
      <4>1. c \in Octetos
        BY <1>1
      <4> HIDE DEF c, g
      <4> QED
        BY <4>1, <3>1, AplanaPocos, Zenon
    <3> QED
      BY <1>1, <2>1, <3>2
  <2>2. CASE n = 2
    <3>1. g = <<c, c>>
      BY <2>2
    <3>2. s = c \o c
      <4>1. c \in Octetos
        BY <1>1
      <4> HIDE DEF c, g
      <4> QED
        BY <4>1, <3>1, AplanaPocos, Zenon
    <3>3. Len(s) = Len(c) + Len(c)
      BY <1>1, <3>2, Pega, ZenonT(90)
    <3> QED
      BY <1>1, <2>2, <3>3
  <2> QED
    BY <2>1, <2>2
<1>6. N \in Nat /\ n <= N /\ 1 .. n \subseteq 1 .. N
  <2> HIDE DEF s
  <2> QED
    BY <1>1, <1>5
<1>7. q \in [0 .. n -> Octetos] /\ q[0] = s /\ q[n] = <<>>
      /\ \A k \in 1 .. n : q[k - 1] = ConLargo(d) \o q[k]
  <2>1. q \in [0 .. n -> Octetos] /\ q[0] = s \o <<>> /\ q[n] = <<>>
        /\ \A k \in 1 .. n : q[k - 1] = g[k] \o q[k]
    BY <1>3, Zenon DEF Restos
  <2>2. s \o <<>> = s
    BY <1>4, Pega, Zenon
  <2>3. \A k \in 1 .. n : g[k] = ConLargo(d)
    OBVIOUS
  <2> HIDE DEF s, g
  <2> QED
    BY <2>1, <2>2, <2>3, Zenon
<1> HIDE DEF s, N
<1> DEFINE r == [k \in 0 .. N |-> IF k <= n THEN q[k] ELSE <<>>]
<1>8. r \in [0 .. N -> Octetos] /\ r[0] = s
  <2>1. \A k \in 0 .. N : (IF k <= n THEN q[k] ELSE <<>>) \in Octetos
    <3> SUFFICES ASSUME NEW k \in 0 .. N PROVE (IF k <= n THEN q[k] ELSE <<>>) \in Octetos
      OBVIOUS
    <3>1. <<>> \in Octetos
      BY <1>1, Pega, Zenon
    <3>2. k <= n => k \in 0 .. n
      BY <1>6
    <3> QED
      BY <1>7, <3>1, <3>2, Zenon
  <2>2. 0 <= n /\ 0 \in 0 .. N
    BY <1>1, <1>6
  <2> QED
    BY <1>7, <2>1, <2>2, Zenon
<1>9. w \in [1 .. N -> Nat] /\ f \in [1 .. N -> Octetos]
  <2>1. <<>> \in Octetos /\ 0 \in Nat
    BY <1>1, Pega, Zenon
  <2> QED
    BY <2>1, Zenon
<1>10. ASSUME NEW k \in 1 .. N
       PROVE  Cortado(r[k - 1], w[k], f[k], r[k])
  <2>1. w[k] = 0 /\ k - 1 \in 0 .. N /\ k \in 0 .. N
    BY <1>6
  <2>2. CASE k <= n
    <3>1. k \in 1 .. n /\ k - 1 <= n /\ k \in 0 .. n
      BY <1>1, <2>2
    <3>2. r[k - 1] = q[k - 1] /\ r[k] = q[k] /\ f[k] = d
      BY <2>1, <2>2, <3>1, Zenon
    <3>3. r[k - 1] = ConLargo(d) \o q[k] /\ q[k] \in Octetos
      BY <1>7, <3>1, <3>2, Zenon
    <3> HIDE DEF r, f, w
    <3> QED
      BY <2>1, <3>2, <3>3, CortadoLargo, Zenon
  <2>3. CASE ~(k <= n)
    <3>1. r[k] = <<>> /\ f[k] = <<>>
      BY <2>1, <2>3, Zenon
    <3>2. r[k - 1] = <<>>
      <4>1. CASE k - 1 <= n
        <5>1. k - 1 = n
          BY <1>1, <2>3, <4>1
        <5> QED
          BY <1>7, <2>1, <4>1, <5>1, Zenon
      <4>2. CASE ~(k - 1 <= n)
        BY <2>1, <4>2, Zenon
      <4> QED
        BY <4>1, <4>2
    <3> HIDE DEF r, f, w
    <3> QED
      BY <2>1, <3>1, <3>2, CorteVacio DEF Cortado
  <2> QED
    BY <2>2, <2>3
<1>11. Campos(s, w) = f
  <2> HIDE DEF r, w, f
  <2> QED
    BY <1>6, <1>8, <1>9, <1>10, CortaDa, Zenon
<1>12. \A k \in 1 .. N : f[k] # <<>> <=> k <= n
  <2>1. d # <<>>
    <3>1. Len(<<>>) = 0
      OBVIOUS
    <3> QED
      BY <3>1, Zenon
  <2> QED
    BY <2>1, Zenon
<1> DEFINE hay == {k \in DOMAIN f : \A j \in 1 .. k : f[j] # <<>>}
<1>13. hay = 1 .. n
  <2>1. DOMAIN f = 1 .. N
    OBVIOUS
  <2> HIDE DEF f
  <2> QED
    BY <1>1, <1>6, <1>12, <2>1
<1>14. [k \in hay |-> f[k]] = [k \in 1 .. n |-> d]
  <2>1. \A k \in 1 .. n : f[k] = d
    BY <1>6
  <2> HIDE DEF hay, f
  <2> QED
    BY <1>13, <2>1, Zenon
<1>15. recibir_paquete(s) = [k \in hay |-> f[k]]
  <2>1. recibir_paquete(s) =
            [k \in {k \in DOMAIN Campos(s, w) : \A j \in 1 .. k : Campos(s, w)[j] # <<>>} |->
                Campos(s, w)[k]]
    BY Zenon DEF recibir_paquete, N
  <2> HIDE DEF f, w
  <2> QED
    BY <1>11, <2>1, Zenon
<1> HIDE DEF hay, f
<1> QED
  BY <1>4, <1>14, <1>15, Zenon DEF s

\* A code alone, and a packet, when nothing follows.
LEMMA SoloCodigo ==
    ASSUME NEW op \in Codigos
    PROVE  /\ Codigo(op).bytes \in Octetos /\ Codigo(op).bytes # <<>>
           /\ OpDe(Codigo(op).bytes) = op
           /\ Justo(Toma(4, op, <<>>), Codigo(op).bytes, Codigo(op).dicho)
<1>1. Codigo(op).bytes = Op(op) /\ Codigo(op).dicho = Dice(op, <<>>)
  BY DEF Codigo, Dice
<1>2. Op(op) = Op(op) \o <<>> /\ <<>> \in Octetos
  <2>1. <<>> \in Octetos
    BY DEF Octetos
  <2> QED
    BY <2>1, OpDa, Pega, Zenon
<1> QED
  BY <1>1, <1>2, CodigoJusto, Zenon

\* The same of a packet.
LEMMA SoloPaquete ==
    ASSUME NEW op \in Codigos, NEW s \in Octetos
    PROVE  PaqueteLeido(op, s, Paquete(op, s), Paquete(op, s))
<1>1. Paquete(op, s) \o <<>> = Paquete(op, s) /\ <<>> \in Octetos
  <2>1. <<>> \in Octetos
    BY DEF Octetos
  <2> QED
    BY <2>1, PaqueteDa, Pega, Zenon
<1> QED
  BY <1>1, PaqueteJusto, Zenon

\* The data of memoria are the bytes of one string.
LEMMA DatoDa == Dato \in Octetos /\ Len(Dato) # 0
<1>1. PICK s \in Cadenas : Dato = Cadena("dato", s)
  <2>1. \E s \in Cadenas : TRUE
    BY ProtocoloAssumption
  <2> QED
    BY <2>1, Zenon DEF Dato
<1>2. Cadena("dato", s) \in Octetos /\ Len(Cadena("dato", s)) = Largo[s] /\ Largo[s] # 0
  BY CadenaDa, NombresIo, Zenon
<1> QED
  BY <1>1, <1>2, Zenon

\* A code is understood by whoever waits for a code.
LEMMA RespuestaCodigo ==
    ASSUME NEW e, NEW op \in Codigos, NEW r, r = Codigo(op),
           recibir_respuesta(e, r.bytes) = Toma(4, OpDe(r.bytes), <<>>)
    PROVE  RespuestaBien(e, r)
<1>1. /\ r.bytes \in Octetos /\ r.bytes # <<>> /\ OpDe(r.bytes) = op
      /\ Justo(Toma(4, op, <<>>), r.bytes, r.dicho)
  BY SoloCodigo, Zenon
<1> QED
  BY <1>1, Zenon DEF RespuestaBien

\* What memoria may answer to each request.
LEMMA RespuestaDa ==
    ASSUME NEW e \in {"MEM_PAGE_SIZE", "INIT_PID", "INIT_SCRIPT"} \cup OpsMem,
           NEW r \in Respuestas(e)
    PROVE  RespuestaBien(e, r)
<1>1. CASE e = "MEM_PAGE_SIZE"
  <2> DEFINE b == U32("tam_pagina", "")
  <2>1. r = [bytes |-> b, dicho |-> [op |-> "", args |-> <<b>>]]
    BY <1>1 DEF Respuestas
  <2>2. b \in Octetos /\ Len(b) = 4
    <3>1. "" \in Valores
      BY Zenon DEF Valores
    <3> QED
      BY <3>1, U32Da, NombresIo, Zenon
  <2> HIDE DEF b
  <2>3. r.bytes = b /\ r.dicho.op = "" /\ r.dicho.args = <<b>>
    BY <2>1
  <2>4. Trozo(b, 0, 4) = b
    <3>1. b \o <<>> = b /\ <<>> \in Octetos
      BY <2>2, Pega, Zenon
    <3>2. Trozo(b \o <<>>, 0, Len(b)) = b
      BY <2>2, <3>1, TrozoOctetos, Zenon
    <3> QED
      BY <2>2, <3>1, <3>2, Zenon
  <2>5. recibir_respuesta(e, b) = Toma(4, "", <<b>>)
    BY <1>1, <2>4 DEF recibir_respuesta
  <2>6. b # <<>>
    <3>1. Len(<<>>) = 0 /\ 4 # 0
      OBVIOUS
    <3> QED
      BY <2>2, <3>1, Zenon
  <2>7. Justo(Toma(4, "", <<b>>), b, r.dicho)
    BY <2>2, <2>3 DEF Justo, Toma
  <2> QED
    BY <2>2, <2>3, <2>5, <2>6, <2>7, Zenon DEF RespuestaBien
<1>2. CASE e = "INSTRUCTION"
  <2>1. \E n \in 1 .. 2 :
            r = [bytes |-> Paquete(e, FlattenSeq([k \in 1 .. n |-> ConLargo(Dato)])),
                 dicho |-> [op |-> e, args |-> [k \in 1 .. n |-> Dato]]]
    BY <1>2 DEF Respuestas
  <2>2. PICK n \in 1 .. 2 :
            r = [bytes |-> Paquete(e, FlattenSeq([k \in 1 .. n |-> ConLargo(Dato)])),
                 dicho |-> [op |-> e, args |-> [k \in 1 .. n |-> Dato]]]
    BY <2>1, Zenon
  <2> DEFINE s == FlattenSeq([k \in 1 .. n |-> ConLargo(Dato)])
             v == [k \in 1 .. n |-> Dato]
  <2>3. s \in Octetos /\ recibir_paquete(s) = v
    BY DatoDa, PaqueteRecibido, Zenon
  <2>4. r.bytes = Paquete(e, s) /\ r.dicho = [op |-> e, args |-> v]
    BY <2>2, Zenon
  <2> HIDE DEF s, v
  <2>5. e \in Codigos
    BY <1>2 DEF Codigos
  <2>6. PaqueteLeido(e, s, r.bytes, r.bytes)
    BY <2>3, <2>4, <2>5, SoloPaquete, Zenon
  <2>7. recibir_respuesta(e, r.bytes) = TomaBuffer(r.bytes, recibir_paquete(Buffer(r.bytes)))
    BY <1>2 DEF recibir_respuesta
  <2>8. r.dicho = Dice(e, v)
    BY <2>4, Zenon DEF Dice
  <2> QED
    BY <2>3, <2>6, <2>7, <2>8, Zenon DEF PaqueteLeido, RespuestaBien
<1>3. CASE e = "MEM_PID_PAGE"
  <2> DEFINE s == U32("marco", "")
  <2>1. s \in Octetos /\ Len(s) = 4
    <3>1. "" \in Valores
      BY Zenon DEF Valores
    <3> QED
      BY <3>1, U32Da, NombresIo, Zenon
  <2>2. \/ r = Codigo("MEM_ERROR")
        \/ r = [bytes |-> Paquete("MEM_SUCCESS", s), dicho |-> [op |-> "MEM_SUCCESS", args |-> <<s>>]]
    BY <1>3 DEF Respuestas
  <2> HIDE DEF s
  <2>3. "MEM_ERROR" \in Codigos /\ "MEM_SUCCESS" \in Codigos /\ "MEM_ERROR" # "MEM_SUCCESS"
    BY DEF Codigos
  <2>4. CASE r = Codigo("MEM_ERROR")
    <3>1. OpDe(r.bytes) = "MEM_ERROR"
      BY <2>3, <2>4, SoloCodigo, Zenon
    <3>2. recibir_respuesta(e, r.bytes) = Toma(4, OpDe(r.bytes), <<>>)
      BY <1>3, <3>1 DEF recibir_respuesta
    <3> QED
      BY <2>3, <2>4, <3>2, RespuestaCodigo, Zenon
  <2>5. CASE r = [bytes |-> Paquete("MEM_SUCCESS", s),
                  dicho |-> [op |-> "MEM_SUCCESS", args |-> <<s>>]]
    <3>1. r.bytes = Paquete("MEM_SUCCESS", s) /\ r.dicho = Dice("MEM_SUCCESS", <<s>>)
      BY <2>5 DEF Dice
    <3>2. PaqueteLeido("MEM_SUCCESS", s, r.bytes, r.bytes)
      BY <2>1, <2>3, <3>1, SoloPaquete, Zenon
    <3>3. /\ OpDe(r.bytes) = "MEM_SUCCESS" /\ Trozo(r.bytes, 8, 4) = s
          /\ r.bytes \in Octetos /\ r.bytes # <<>>
          /\ Justo(Toma(12, "MEM_SUCCESS", <<s>>), r.bytes, r.dicho)
      BY <2>1, <3>1, <3>2, Zenon DEF PaqueteLeido
    <3>4. recibir_respuesta(e, r.bytes) = Toma(12, OpDe(r.bytes), <<Trozo(r.bytes, 8, 4)>>)
      BY <1>3, <3>3 DEF recibir_respuesta
    <3> QED
      BY <3>3, <3>4, Zenon DEF RespuestaBien
  <2> QED
    BY <2>2, <2>4, <2>5
<1>4. CASE e = "MEM_RESIZE"
  <2>1. r = Codigo("MEM_SUCCESS") \/ r = Codigo("MEM_ERROR")
    BY <1>4 DEF Respuestas
  <2>2. "MEM_ERROR" \in Codigos /\ "MEM_SUCCESS" \in Codigos
    BY DEF Codigos
  <2>3. recibir_respuesta(e, r.bytes) = Toma(4, OpDe(r.bytes), <<>>)
    BY <1>4 DEF recibir_respuesta
  <2> QED
    BY <2>1, <2>2, <2>3, RespuestaCodigo, Zenon
<1>5. CASE e = "MEM_READ"
  <2>1. r = [bytes |-> Paquete("MEM_SUCCESS", ConLargo(Dato)),
             dicho |-> [op |-> "MEM_SUCCESS", args |-> <<Dato>>]]
    BY <1>5 DEF Respuestas
  <2>2. r.bytes = Paquete("MEM_SUCCESS", ConLargo(Dato)) /\ r.dicho = Dice("MEM_SUCCESS", <<Dato>>)
    BY <2>1 DEF Dice
  <2>3. "MEM_SUCCESS" \in Codigos /\ ConLargo(Dato) \in Octetos /\ <<>> \in Octetos /\ 0 \in Nat
    <3>1. "MEM_SUCCESS" \in Codigos /\ 0 \in Nat
      BY DEF Codigos
    <3> QED
      BY <3>1, DatoDa, ConLargoDa, Pega, Zenon
  <2>4. PaqueteLeido("MEM_SUCCESS", ConLargo(Dato), r.bytes, r.bytes)
    BY <2>2, <2>3, SoloPaquete, Zenon
  <2>5. Campos(ConLargo(Dato), <<0>>) = <<Dato>>
    BY <2>3, DatoDa, CortadoLargo, CortaUno, Zenon
  <2>6. recibir_respuesta(e, r.bytes) = TomaBuffer(r.bytes, Campos(Buffer(r.bytes), <<0>>))
    BY <1>5 DEF recibir_respuesta
  <2> QED
    BY <2>2, <2>4, <2>5, <2>6, Zenon DEF PaqueteLeido, RespuestaBien
<1>6. CASE e = "MEM_WRITE"
  <2>1. r = Codigo("MEM_SUCCESS")
    BY <1>6 DEF Respuestas
  <2>2. "MEM_SUCCESS" \in Codigos
    BY DEF Codigos
  <2>3. recibir_respuesta(e, r.bytes) = Toma(4, OpDe(r.bytes), <<>>)
    BY <1>6 DEF recibir_respuesta
  <2> QED
    BY <2>1, <2>2, <2>3, RespuestaCodigo, Zenon
<1>7. CASE e = "INIT_PID"
  <2>1. r = Codigo("INIT_PID_SUCCESS") \/ r = Codigo("INIT_PID_ERROR")
    BY <1>7 DEF Respuestas
  <2>2. "INIT_PID_ERROR" \in Codigos /\ "INIT_PID_SUCCESS" \in Codigos
    BY DEF Codigos
  <2>3. recibir_respuesta(e, r.bytes) = Toma(4, OpDe(r.bytes), <<>>)
    BY <1>7 DEF recibir_respuesta
  <2> QED
    BY <2>1, <2>2, <2>3, RespuestaCodigo, Zenon
<1>8. CASE e = "INIT_SCRIPT"
  <2>1. \/ r = Codigo("INIT_SCRIPT_ERROR")
        \/ r = [bytes |-> Paquete("INIT_SCRIPT_SUCCESS", Dato),
                dicho |-> [op |-> "INIT_SCRIPT_SUCCESS", args |-> <<Dato>>]]
    BY <1>8 DEF Respuestas
  <2>2. /\ "INIT_SCRIPT_ERROR" \in Codigos /\ "INIT_SCRIPT_SUCCESS" \in Codigos
        /\ "INIT_SCRIPT_ERROR" # "INIT_SCRIPT_SUCCESS"
    BY DEF Codigos
  <2>3. CASE r = Codigo("INIT_SCRIPT_ERROR")
    <3>1. OpDe(r.bytes) = "INIT_SCRIPT_ERROR"
      BY <2>2, <2>3, SoloCodigo, Zenon
    <3>2. recibir_respuesta(e, r.bytes) = Toma(4, OpDe(r.bytes), <<>>)
      BY <1>8, <3>1 DEF recibir_respuesta
    <3> QED
      BY <2>2, <2>3, <3>2, RespuestaCodigo, Zenon
  <2>4. CASE r = [bytes |-> Paquete("INIT_SCRIPT_SUCCESS", Dato),
                  dicho |-> [op |-> "INIT_SCRIPT_SUCCESS", args |-> <<Dato>>]]
    <3>1. /\ r.bytes = Paquete("INIT_SCRIPT_SUCCESS", Dato)
          /\ r.dicho = Dice("INIT_SCRIPT_SUCCESS", <<Dato>>)
      BY <2>4 DEF Dice
    <3>2. PaqueteLeido("INIT_SCRIPT_SUCCESS", Dato, r.bytes, r.bytes)
      BY <2>2, <3>1, DatoDa, SoloPaquete, Zenon
    <3>3. OpDe(r.bytes) = "INIT_SCRIPT_SUCCESS" /\ Buffer(r.bytes) = Dato
      BY <3>2, Zenon DEF PaqueteLeido
    <3>4. recibir_respuesta(e, r.bytes) = TomaBuffer(r.bytes, <<Buffer(r.bytes)>>)
      BY <1>8, <3>3 DEF recibir_respuesta
    <3> QED
      BY <3>1, <3>2, <3>3, <3>4, Zenon DEF PaqueteLeido, RespuestaBien
  <2> QED
    BY <2>1, <2>3, <2>4
<1> QED
  BY <1>1, <1>2, <1>3, <1>4, <1>5, <1>6, <1>7, <1>8 DEF OpsMem

-----------------------------------------------------------------------------
(* The inductive invariant.                                                *)

\* The messages each direction carries, but for the answers of memoria.
Dijo(c, tipo, b, m) ==
    \/ c \in {"kernel_cpu", "cpu_kernel"} /\ DicePcb(b, m)
    \/ c = "cpu_kernel" /\ (DiceIo(b, m) \/ DiceSemaforo(b, m))
    \/ c = "interrupt" /\ DiceInterrupcion(b, m)
    \/ c = "cpu_mem" /\ DicePagina(b, m)
    \/ c \in Range(A) /\ DiceMem(b, m)
    \/ c = "kernel_mem" /\ DiceFin(b, m)
    \/ c = "kernel_io" /\ DicePasado(tipo, b, m)
    \/ c = "io_kernel" /\ (DiceNombre(b, m) \/ DiceCodigo(b, m))

\* The bytes on a connection are those of what was said on it, in order: q[k]
\* is what is left of them after k messages.
EsSeq(ds) == \E S : ds \in Seq(S)
Suena(c, tipo, bytes, ds) ==
    /\ EsSeq(ds)
    /\ \E q \in [0 .. Len(ds) -> Octetos] :
        /\ q[0] = bytes /\ q[Len(ds)] = <<>>
        /\ \A k \in 1 .. Len(ds) :
            \E b \in Octetos : q[k - 1] = b \o q[k] /\ Dijo(c, tipo, b, ds[k])

Idas == Canales \ Range(De)
Red ==
    /\ canal \in [Canales -> Octetos] /\ DOMAIN dicho = Canales
    /\ entendido = [c \in Canales |-> TRUE]
    /\ \A c \in Idas : Suena(c, interfaz.tipo, canal[c], dicho[c])

\* A thread of memoria and its client, who awaits the answer to e: ds is what
\* was asked and not received, mem what is being served, b the answer on its
\* way and d what it says.  At any moment the request is in one of the three
\* places.  The end of a process, which no one answers, may come between.
Fin(ds) == \A j \in 1 .. Len(ds) : ds[j].op = "END_PID"
Pendiente(ds, e) ==
    \E j \in 1 .. Len(ds) :
        ds[j].op = e /\ \A i \in 1 .. Len(ds) : i # j => ds[i].op = "END_PID"
Nada(b, d) == b = <<>> /\ d = <<>>
Pedibles == {"MEM_PAGE_SIZE", "INIT_PID", "INIT_SCRIPT"} \cup OpsMem
Atendido(ds, e, mem, b, d) ==
    \/ e = "" /\ mem = "" /\ Fin(ds) /\ Nada(b, d)
    \/ e \in Pedibles /\ mem = "" /\ Pendiente(ds, e) /\ Nada(b, d)
    \/ e \in Pedibles /\ mem = e /\ Fin(ds) /\ Nada(b, d)
    \/ /\ e \in Pedibles /\ mem = "" /\ Fin(ds)
       /\ \E r \in Respuestas(e) : b = r.bytes /\ d = <<r.dicho>>
Atendidos ==
    /\ DOMAIN memoria = Clientes
    /\ consola \in {"libre", "INIT_PID", "INIT_SCRIPT"}
    /\ \A k \in Clientes :
        Atendido(dicho[A[k]], Espera[k], memoria[k], canal[De[k]], dicho[De[k]])

\* The short-term thread and the dispatch thread of the CPU take turns: P is
\* what goes to the CPU, K what comes back, a PCB that a request may precede.
Es(m, ops) == m.op \in ops
Pide == {"IO", "WAIT_RECURSO", "SIGNAL_RECURSO"}
Turno(quien, que, P, K) ==
    \/ /\ quien = "manda" /\ que \in {"inicio", "MEM_PAGE_SIZE", "libre"}
       /\ P = <<>> /\ K = <<>>
    \/ /\ quien = "espera" /\ que \in {"inicio", "MEM_PAGE_SIZE", "libre"}
       /\ Len(P) = 1 /\ Es(P[1], {"PCB"}) /\ K = <<>>
    \/ /\ quien = "espera" /\ que \in {"ejecuta"} \cup OpsMem
       /\ P = <<>> /\ K = <<>>
    \/ /\ quien = "espera" /\ que = "devuelve"
       /\ P = <<>> /\ Len(K) = 1 /\ Es(K[1], Pide)
    \/ /\ quien = "espera" /\ que = "libre"
       /\ P = <<>> /\ Len(K) = 2 /\ Es(K[1], Pide) /\ Es(K[2], {"PCB"})
    \/ /\ quien = "espera" /\ que = "libre"
       /\ P = <<>> /\ Len(K) = 1 /\ Es(K[1], {"PCB"})
    \/ /\ quien = "espera_pcb" /\ que = "devuelve" /\ P = <<>> /\ K = <<>>
    \/ /\ quien = "espera_pcb" /\ que = "libre"
       /\ P = <<>> /\ Len(K) = 1 /\ Es(K[1], {"PCB"})
Turnos == Turno(corto, cpu, dicho["kernel_cpu"], dicho["cpu_kernel"])

\* The interface and its thread in the kernel: KI is what goes to it, IK what
\* it answers.
Ocupada == {"accede", "responde", "MEM_READ", "MEM_WRITE"}
Trato(cliente, en, KI, IK) ==
    \/ cliente = "nuevo" /\ en = "saluda" /\ KI = <<>> /\ IK = <<>>
    \/ cliente = "nuevo" /\ en = "libre" /\ KI = <<>> /\ Len(IK) = 1 /\ Es(IK[1], {"MENSAJE"})
    \/ cliente = "atiende" /\ en = "libre" /\ KI = <<>> /\ IK = <<>>
    \/ cliente = "espera" /\ en = "libre" /\ Len(KI) = 1 /\ IK = <<>>
    \/ cliente = "espera" /\ en \in Ocupada /\ KI = <<>> /\ IK = <<>>
    \/ /\ cliente = "espera" /\ en = "libre" /\ KI = <<>>
       /\ Len(IK) = 1 /\ Es(IK[1], {"IO_SUCCESS", "IO_ERROR"})

\* What the kernel passes on is the request of a program, whole.
Valido(q) ==
    /\ q.pide \in PedidosIo
    /\ q.instr = U32("instr", q.pide.op) /\ q.buffer = Contenido(q.pide)
Tratos ==
    /\ Trato(io_client, interfaz.en, dicho["kernel_io"], dicho["io_kernel"])
    /\ DOMAIN interfaz = {"tipo", "en", "op"}
    /\ to_send \in {"IO_SUCCESS", "IO_ERROR"}
    /\ pedido = SinPedido \/ Valido(pedido)
    /\ EsSeq(queue_io) /\ \A j \in 1 .. Len(queue_io) : Valido(queue_io[j])

Inv == Red /\ Atendidos /\ Turnos /\ Tratos

\* Nothing follows.
LEMMA NadaSigue == \A b \in Octetos : b \o <<>> = b
<1>1. <<>> \in Octetos
  BY DEF Octetos
<1> QED
  BY <1>1, Pega, Zenon

\* Whatever is said takes bytes.
LEMMA DijoDa ==
    ASSUME NEW c, NEW tipo, NEW b, NEW m, Dijo(c, tipo, b, m)
    PROVE  b \in Octetos /\ b # <<>>
<1> DEFINE z == b \o <<>>
<1>1. <<>> \in Octetos
  BY DEF Octetos
<1>2. DicePcb(b, m) => b \in Octetos /\ b # <<>>
  BY <1>1, LeePcb, Zenon
<1>3. DiceIo(b, m) => b \in Octetos /\ b # <<>>
  BY <1>1, LeeIo, Zenon
<1>4. DiceSemaforo(b, m) => b \in Octetos /\ b # <<>>
  BY <1>1, LeeSemaforo, Zenon
<1>5. DiceInterrupcion(b, m) => b \in Octetos /\ b # <<>>
  BY <1>1, LeeInterrupcion, Zenon
<1>6. DicePagina(b, m) => b \in Octetos /\ b # <<>>
  BY <1>1, LeePagina, Zenon DEF MemLeido
<1>7. DiceMem(b, m) => b \in Octetos /\ b # <<>>
  BY <1>1, LeeMem, Zenon DEF MemLeido
<1>8. DiceFin(b, m) => b \in Octetos /\ b # <<>>
  BY <1>1, LeeFin, Zenon DEF MemLeido
<1>9. DicePasado(tipo, b, m) => b \in Octetos /\ b # <<>>
  BY <1>1, LeePasado, Zenon
<1>10. DiceNombre(b, m) => b \in Octetos /\ b # <<>>
  BY <1>1, LeeNombre, Zenon
<1>11. DiceCodigo(b, m) => b \in Octetos /\ b # <<>>
  BY <1>1, LeeCodigo, Zenon
<1> QED
  BY <1>2, <1>3, <1>4, <1>5, <1>6, <1>7, <1>8, <1>9, <1>10, <1>11, Zenon DEF Dijo

\* Sequences: one more at the end, the first one taken, none left.
LEMMA Secuencia ==
    ASSUME NEW ds, EsSeq(ds)
    PROVE  /\ Len(ds) \in Nat
           /\ Len(ds) = 0 <=> ds = <<>>
           /\ \A m : /\ EsSeq(Append(ds, m)) /\ Len(Append(ds, m)) = Len(ds) + 1
                     /\ Append(ds, m)[Len(ds) + 1] = m
                     /\ \A j \in 1 .. Len(ds) : Append(ds, m)[j] = ds[j]
           /\ ds # <<>> =>
                /\ EsSeq(Tail(ds)) /\ Len(Tail(ds)) = Len(ds) - 1 /\ Head(ds) = ds[1]
                /\ \A j \in 1 .. Len(ds) - 1 : Tail(ds)[j] = ds[j + 1]
<1>1. PICK S : ds \in Seq(S)
  BY Zenon DEF EsSeq
<1>2. Len(ds) \in Nat /\ (Len(ds) = 0 <=> ds = <<>>)
  BY <1>1
<1>3. ASSUME NEW m
      PROVE  /\ EsSeq(Append(ds, m)) /\ Len(Append(ds, m)) = Len(ds) + 1
             /\ Append(ds, m)[Len(ds) + 1] = m
             /\ \A j \in 1 .. Len(ds) : Append(ds, m)[j] = ds[j]
  <2> DEFINE T == S \cup {m}
  <2>1. ds \in Seq(T) /\ m \in T
    BY <1>1
  <2>2. Append(ds, m) \in Seq(T)
    BY <2>1
  <2>3. Len(Append(ds, m)) = Len(ds) + 1 /\ Append(ds, m)[Len(ds) + 1] = m
        /\ \A j \in 1 .. Len(ds) : Append(ds, m)[j] = ds[j]
    BY <2>1
  <2>4. EsSeq(Append(ds, m))
    BY <2>2, Zenon DEF EsSeq
  <2> QED
    BY <2>3, <2>4
<1>4. ASSUME ds # <<>>
      PROVE  /\ EsSeq(Tail(ds)) /\ Len(Tail(ds)) = Len(ds) - 1 /\ Head(ds) = ds[1]
             /\ \A j \in 1 .. Len(ds) - 1 : Tail(ds)[j] = ds[j + 1]
  <2>1. Tail(ds) \in Seq(S)
    BY <1>1, <1>4
  <2>2. Len(Tail(ds)) = Len(ds) - 1 /\ Head(ds) = ds[1]
        /\ \A j \in 1 .. Len(ds) - 1 : Tail(ds)[j] = ds[j + 1]
    BY <1>1, <1>4
  <2>3. EsSeq(Tail(ds))
    BY <2>1, Zenon DEF EsSeq
  <2> QED
    BY <2>2, <2>3
<1> QED
  BY <1>2, <1>3, <1>4, Zenon

\* A message more at the end of what a connection carries.
LEMMA SuenaEnvia ==
    ASSUME NEW c, NEW tipo, NEW bytes, NEW ds, Suena(c, tipo, bytes, ds),
           NEW b, NEW m, Dijo(c, tipo, b, m)
    PROVE  Suena(c, tipo, bytes \o b, Append(ds, m)) /\ bytes \in Octetos /\ b \in Octetos
<1> DEFINE n == Len(ds)
           es == Append(ds, m)
<1>1. EsSeq(ds) /\ \E q \in [0 .. n -> Octetos] :
            /\ q[0] = bytes /\ q[n] = <<>>
            /\ \A k \in 1 .. n :
                \E x \in Octetos : q[k - 1] = x \o q[k] /\ Dijo(c, tipo, x, ds[k])
  BY Zenon DEF Suena
<1>2. PICK q \in [0 .. n -> Octetos] :
            /\ q[0] = bytes /\ q[n] = <<>>
            /\ \A k \in 1 .. n :
                \E x \in Octetos : q[k - 1] = x \o q[k] /\ Dijo(c, tipo, x, ds[k])
  BY <1>1, Zenon
<1>3. n \in Nat /\ EsSeq(es) /\ Len(es) = n + 1 /\ es[n + 1] = m
      /\ \A j \in 1 .. n : es[j] = ds[j]
  <2>1. /\ Len(ds) \in Nat
        /\ \A m_1 : /\ EsSeq(Append(ds, m_1)) /\ Len(Append(ds, m_1)) = Len(ds) + 1
                    /\ Append(ds, m_1)[Len(ds) + 1] = m_1
                    /\ \A j \in 1 .. Len(ds) : Append(ds, m_1)[j] = ds[j]
    BY <1>1, Secuencia
  <2> QED
    BY <2>1
<1>4. b \in Octetos
  BY DijoDa, Zenon
<1> HIDE DEF n, es
<1>5. <<>> \in Octetos
  BY DEF Octetos
<1> DEFINE r == [k \in 0 .. n + 1 |-> IF k <= n THEN q[k] \o b ELSE <<>>]
<1>6. r \in [0 .. n + 1 -> Octetos]
  <2>1. ASSUME NEW k \in 0 .. n + 1 PROVE (IF k <= n THEN q[k] \o b ELSE <<>>) \in Octetos
    <3>1. CASE k <= n
      <4>1. k \in 0 .. n
        BY <1>3, <3>1
      <4>2. q[k] \in Octetos
        BY <1>2, <4>1, Zenon
      <4>3. q[k] \o b \in Octetos
        BY <1>4, <4>2, Pega, Zenon
      <4> QED
        BY <3>1, <4>3, Zenon
    <3>2. CASE ~(k <= n)
      BY <1>5, <3>2, Zenon
    <3> QED
      BY <3>1, <3>2, Zenon
  <2> QED
    BY <2>1, Zenon
<1>7. r[0] = bytes \o b /\ r[n + 1] = <<>>
  <2>1. 0 \in 0 .. n + 1 /\ 0 <= n /\ n + 1 \in 0 .. n + 1 /\ ~(n + 1 <= n)
    BY <1>3, SMTT(60)
  <2> QED
    BY <1>2, <2>1, Zenon
<1>8. ASSUME NEW k \in 1 .. n + 1
      PROVE  \E x \in Octetos : r[k - 1] = x \o r[k] /\ Dijo(c, tipo, x, es[k])
  <2>1. k - 1 \in 0 .. n + 1 /\ k - 1 <= n /\ k \in 0 .. n + 1
    BY <1>3
  <2>2. r[k - 1] = q[k - 1] \o b
    BY <2>1, Zenon
  <2>3. CASE k <= n
    <3>1. k \in 1 .. n /\ k \in 0 .. n
      BY <1>3, <2>3
    <3>2. PICK x \in Octetos : q[k - 1] = x \o q[k] /\ Dijo(c, tipo, x, ds[k])
      BY <1>2, <3>1, Zenon
    <3>3. r[k] = q[k] \o b /\ q[k] \in Octetos
      BY <1>2, <2>1, <2>3, <3>1, Zenon
    <3>4. (x \o q[k]) \o b = x \o (q[k] \o b)
      BY <1>4, <3>3, PegaAsocia, Zenon
    <3>5. r[k - 1] = x \o r[k] /\ Dijo(c, tipo, x, es[k])
      BY <1>3, <2>2, <3>1, <3>2, <3>3, <3>4, Zenon
    <3> QED
      BY <3>5, Zenon
  <2>4. CASE ~(k <= n)
    <3>1. k = n + 1 /\ k - 1 = n
      BY <1>3, <2>4
    <3>2. r[k] = <<>> /\ r[k - 1] = <<>> \o b
      BY <1>2, <2>1, <2>2, <2>4, <3>1, Zenon
    <3>3. <<>> \o b = b \o <<>>
      BY <1>4, <1>5, Pega, Zenon
    <3> QED
      BY <1>3, <1>4, <3>1, <3>2, <3>3, Zenon
  <2> QED
    BY <2>3, <2>4
<1> HIDE DEF r
<1>9. \E r_1 \in [0 .. Len(es) -> Octetos] :
            /\ r_1[0] = bytes \o b /\ r_1[Len(es)] = <<>>
            /\ \A k \in 1 .. Len(es) :
                \E x \in Octetos : r_1[k - 1] = x \o r_1[k] /\ Dijo(c, tipo, x, es[k])
  BY <1>3, <1>6, <1>7, <1>8, Zenon
<1>10. bytes \in Octetos
  <2>1. 0 \in 0 .. n
    BY <1>3
  <2> QED
    BY <1>2, <2>1, Zenon
<1> QED
  BY <1>3, <1>4, <1>9, <1>10, Zenon DEF Suena, es

\* The first message of what a connection carries.
LEMMA SuenaRecibe ==
    ASSUME NEW c, NEW tipo, NEW bytes, NEW ds, Suena(c, tipo, bytes, ds), bytes # <<>>
    PROVE  /\ ds # <<>>
           /\ \E b \in Octetos, t \in Octetos :
                /\ bytes = b \o t /\ Dijo(c, tipo, b, Head(ds))
                /\ Suena(c, tipo, t, Tail(ds))
<1> DEFINE n == Len(ds)
           es == Tail(ds)
<1>1. EsSeq(ds) /\ \E q \in [0 .. n -> Octetos] :
            /\ q[0] = bytes /\ q[n] = <<>>
            /\ \A k \in 1 .. n :
                \E x \in Octetos : q[k - 1] = x \o q[k] /\ Dijo(c, tipo, x, ds[k])
  BY Zenon DEF Suena
<1>2. PICK q \in [0 .. n -> Octetos] :
            /\ q[0] = bytes /\ q[n] = <<>>
            /\ \A k \in 1 .. n :
                \E x \in Octetos : q[k - 1] = x \o q[k] /\ Dijo(c, tipo, x, ds[k])
  BY <1>1, Zenon
<1>3. n \in Nat /\ (n = 0 <=> ds = <<>>)
  BY <1>1, Secuencia, Zenon
<1>4. n # 0 /\ ds # <<>>
  BY <1>2, <1>3, Zenon
<1>5. EsSeq(es) /\ Len(es) = n - 1 /\ Head(ds) = ds[1] /\ \A j \in 1 .. n - 1 : es[j] = ds[j + 1]
  BY <1>1, <1>4, Secuencia, Zenon
<1> HIDE DEF n, es
<1>6. 1 \in 1 .. n /\ 1 \in 0 .. n /\ 1 - 1 = 0
  BY <1>3, <1>4
<1>7. PICK b \in Octetos : q[0] = b \o q[1] /\ Dijo(c, tipo, b, ds[1])
  BY <1>2, <1>6, Zenon
<1> DEFINE r == [k \in 0 .. n - 1 |-> q[k + 1]]
<1>8. \A k \in 0 .. n - 1 : k + 1 \in 0 .. n
  BY <1>3, <1>4
<1>9. r \in [0 .. n - 1 -> Octetos]
  BY <1>2, <1>8, Zenon
<1>10. r[0] = q[1] /\ r[n - 1] = <<>>
  <2>1. 0 \in 0 .. n - 1 /\ n - 1 \in 0 .. n - 1 /\ 0 + 1 = 1 /\ (n - 1) + 1 = n
    BY <1>3, <1>4
  <2> QED
    BY <1>2, <2>1, Zenon
<1>11. ASSUME NEW k \in 1 .. n - 1
       PROVE  \E x \in Octetos : r[k - 1] = x \o r[k] /\ Dijo(c, tipo, x, es[k])
  <2>1. /\ k - 1 \in 0 .. n - 1 /\ k \in 0 .. n - 1 /\ (k - 1) + 1 = (k + 1) - 1
        /\ k + 1 \in 1 .. n
    BY <1>3, <1>4
  <2>2. PICK x \in Octetos : q[(k + 1) - 1] = x \o q[k + 1] /\ Dijo(c, tipo, x, ds[k + 1])
    BY <1>2, <2>1, Zenon
  <2>3. r[k - 1] = q[(k - 1) + 1] /\ r[k] = q[k + 1]
    BY <2>1, Zenon
  <2>4. r[k - 1] = x \o r[k] /\ Dijo(c, tipo, x, es[k])
    BY <1>5, <2>1, <2>2, <2>3, Zenon
  <2> QED
    BY <2>4, Zenon
<1> HIDE DEF r
<1>12. \E r_1 \in [0 .. Len(es) -> Octetos] :
            /\ r_1[0] = q[1] /\ r_1[Len(es)] = <<>>
            /\ \A k \in 1 .. Len(es) :
                \E x \in Octetos : r_1[k - 1] = x \o r_1[k] /\ Dijo(c, tipo, x, es[k])
  BY <1>5, <1>9, <1>10, <1>11, ZenonT(90)
<1>13. Suena(c, tipo, q[1], es)
  BY <1>5, <1>12, Zenon DEF Suena
<1>14. q[1] \in Octetos
  BY <1>2, <1>6, Zenon
<1> QED
  BY <1>2, <1>4, <1>5, <1>7, <1>13, <1>14, Zenon DEF es

\* Nothing said, no bytes; something said, some bytes.
LEMMA SuenaVacio ==
    ASSUME NEW c, NEW tipo
    PROVE  /\ Suena(c, tipo, <<>>, <<>>)
           /\ \A bytes, ds : Suena(c, tipo, bytes, ds) => (bytes = <<>> <=> ds = <<>>)
<1>1. Suena(c, tipo, <<>>, <<>>)
  <2>1. <<>> \in Seq({}) /\ Len(<<>>) = 0 /\ 0 .. 0 = {0} /\ 1 .. 0 = {} /\ <<>> \in Octetos
    BY DEF Octetos
  <2>2. EsSeq(<<>>)
    BY <2>1, Zenon DEF EsSeq
  <2> DEFINE q == [k \in 0 .. 0 |-> <<>>]
  <2>3. q \in [0 .. 0 -> Octetos] /\ q[0] = <<>>
    BY <2>1
  <2> HIDE DEF q
  <2> QED
    BY <2>1, <2>2, <2>3 DEF Suena
<1>2. ASSUME NEW bytes, NEW ds, Suena(c, tipo, bytes, ds)
      PROVE  bytes = <<>> <=> ds = <<>>
  <2>1. CASE bytes # <<>>
    BY <1>2, <2>1, SuenaRecibe, Zenon
  <2>2. CASE bytes = <<>>
    <3> DEFINE n == Len(ds)
    <3>1. EsSeq(ds)
      BY <1>2, Zenon DEF Suena
    <3>2. PICK q \in [0 .. n -> Octetos] :
            /\ q[0] = bytes /\ q[n] = <<>>
            /\ \A k \in 1 .. n :
                \E x \in Octetos : q[k - 1] = x \o q[k] /\ Dijo(c, tipo, x, ds[k])
      BY <1>2, Zenon DEF Suena
    <3>3. n \in Nat /\ (n = 0 <=> ds = <<>>)
      BY <3>1, Secuencia, Zenon
    <3> HIDE DEF n
    <3>4. CASE n # 0
      <4>1. 1 \in 1 .. n /\ 1 \in 0 .. n /\ 1 - 1 = 0
        BY <3>3, <3>4
      <4>2. PICK x \in Octetos : q[0] = x \o q[1] /\ Dijo(c, tipo, x, ds[1])
        BY <3>2, <4>1, Zenon
      <4>3. q[1] \in Octetos /\ x # <<>>
        BY <3>2, <4>1, <4>2, DijoDa, Zenon
      <4>4. Len(x) + Len(q[1]) = Len(<<>>) /\ Len(x) \in Nat /\ Len(q[1]) \in Nat
        <5>1. x \o q[1] = <<>>
          BY <2>2, <3>2, <4>2, Zenon
        <5>2. Len(x \o q[1]) = Len(x) + Len(q[1]) /\ Len(x) \in Nat /\ Len(q[1]) \in Nat
          BY <4>2, <4>3, Pega, Zenon
        <5> QED
          BY <5>1, <5>2, Zenon
      <4>5. Len(x) = 0
        BY <4>4
      <4>6. FALSE
        BY <4>2, <4>3, <4>5 DEF Octetos
      <4> QED
        BY <4>6
    <3> QED
      BY <2>2, <3>3, <3>4
  <2> QED
    BY <2>1, <2>2
<1> QED
  BY <1>1, <1>2, Zenon

-----------------------------------------------------------------------------
(* What a send and a reception change.                                     *)

\* The connections by name.
LEMMA CanalesSon ==
    /\ Range(A) = {"cpu_mem", "kernel_mem", "io_mem"}
    /\ Range(De) = {"mem_cpu", "mem_kernel", "mem_io"}
    /\ Idas = {"cpu_mem", "kernel_mem", "io_mem", "kernel_cpu", "cpu_kernel", "interrupt",
               "kernel_io", "io_kernel"}
    /\ Canales = Idas \cup {"mem_cpu", "mem_kernel", "mem_io"}
    /\ A["cpu"] = "cpu_mem" /\ A["kernel"] = "kernel_mem" /\ A["io"] = "io_mem"
    /\ De["cpu"] = "mem_cpu" /\ De["kernel"] = "mem_kernel" /\ De["io"] = "mem_io"
    /\ \A k \in Clientes, j \in Clientes : j # k => A[j] # A[k] /\ De[j] # De[k]
    /\ \A k \in Clientes, j \in Clientes : A[j] # De[k] /\ A[k] \in Idas /\ De[k] \in Canales
                                           /\ De[k] \notin Idas
<1>1. DOMAIN A = {"cpu", "kernel", "io"} /\ DOMAIN De = {"cpu", "kernel", "io"}
  BY DEF A, De
<1>2. /\ A["cpu"] = "cpu_mem" /\ A["kernel"] = "kernel_mem" /\ A["io"] = "io_mem"
      /\ De["cpu"] = "mem_cpu" /\ De["kernel"] = "mem_kernel" /\ De["io"] = "mem_io"
  BY DEF A, De
<1>3. Range(A) = {"cpu_mem", "kernel_mem", "io_mem"}
  BY <1>1, <1>2 DEF Range
<1>4. Range(De) = {"mem_cpu", "mem_kernel", "mem_io"}
  BY <1>1, <1>2 DEF Range
<1>5. Idas = {"cpu_mem", "kernel_mem", "io_mem", "kernel_cpu", "cpu_kernel", "interrupt",
              "kernel_io", "io_kernel"}
  BY <1>3, <1>4 DEF Idas, Canales
<1>6. Canales = Idas \cup {"mem_cpu", "mem_kernel", "mem_io"}
  BY <1>3, <1>4, <1>5 DEF Canales
<1>7. \A k \in Clientes, j \in Clientes : j # k => A[j] # A[k] /\ De[j] # De[k]
  BY <1>2 DEF Clientes
<1>8. \A k \in Clientes, j \in Clientes : A[j] # De[k] /\ A[k] \in Idas /\ De[k] \in Canales
                                          /\ De[k] \notin Idas
  BY <1>2, <1>5, <1>6 DEF Clientes
<1> QED
  BY <1>2, <1>3, <1>4, <1>5, <1>6, <1>7, <1>8

\* The connections are well formed, and every receiver has understood.
Sanos == canal \in [Canales -> Octetos] /\ DOMAIN dicho = Canales
         /\ entendido = [c \in Canales |-> TRUE]

\* One connection now carries x, that is y; the others what they did.
Cambia(c, x, y) ==
    /\ canal' \in [Canales -> Octetos] /\ DOMAIN dicho' = Canales
    /\ entendido' = [d \in Canales |-> TRUE]
    /\ canal'[c] = x /\ dicho'[c] = y
    /\ \A d \in Canales : d # c => canal'[d] = canal[d] /\ dicho'[d] = dicho[d]

\* A send.
LEMMA EnviaCambia ==
    ASSUME Sanos, NEW c \in Canales, NEW b \in Octetos, NEW m, Envia(c, b, m)
    PROVE  Cambia(c, canal[c] \o b, Append(dicho[c], m)) /\ canal[c] \in Octetos
<1>1. canal[c] \in Octetos
  BY Zenon DEF Sanos
<1>2. canal[c] \o b \in Octetos
  BY <1>1, Pega, Zenon
<1>3. /\ canal' = [canal EXCEPT ![c] = canal[c] \o b]
      /\ dicho' = [dicho EXCEPT ![c] = Append(dicho[c], m)]
      /\ entendido' = entendido
  BY Zenon DEF Envia
<1> DEFINE x == canal[c] \o b
           y == Append(dicho[c], m)
<1> HIDE DEF x, y
<1>4. canal' = [canal EXCEPT ![c] = x] /\ dicho' = [dicho EXCEPT ![c] = y] /\ x \in Octetos
  BY <1>2, <1>3, Zenon DEF x, y
<1>5. Cambia(c, x, y)
  BY <1>3, <1>4 DEF Cambia, Sanos
<1> QED
  BY <1>1, <1>5, Zenon DEF x, y

\* A reception of the bytes of the first message.
LEMMA RecibeCambia ==
    ASSUME Sanos, NEW c \in Canales, NEW b \in Octetos, NEW t \in Octetos, canal[c] = b \o t,
           dicho[c] # <<>>, NEW toma, Justo(toma, b, Head(dicho[c])), Recibe(c, toma)
    PROVE  Cambia(c, t, Tail(dicho[c]))
<1>1. toma.n = Len(b) /\ toma.m.op = Head(dicho[c]).op /\ toma.m.args = Head(dicho[c]).args
  BY Zenon DEF Justo
<1>2. /\ canal' = [canal EXCEPT ![c] = Trozo(canal[c], toma.n, Len(canal[c]))]
      /\ dicho' = [dicho EXCEPT ![c] = IF dicho[c] = <<>> THEN dicho[c] ELSE Tail(dicho[c])]
      /\ entendido' = [entendido EXCEPT ![c] =
                entendido[c] /\ dicho[c] # <<>> /\ toma.m.op = Head(dicho[c]).op
                  /\ toma.m.args = Head(dicho[c]).args]
  BY Zenon DEF Recibe
<1>3. Trozo(canal[c], toma.n, Len(canal[c])) = t
  BY <1>1, TrozoOctetos, ZenonT(90)
<1>4. canal' = [canal EXCEPT ![c] = t] /\ dicho' = [dicho EXCEPT ![c] = Tail(dicho[c])]
  BY <1>2, <1>3, Zenon
<1>5. entendido' = [d \in Canales |-> TRUE]
  <2>1. entendido[c] = TRUE
    BY Zenon DEF Sanos
  <2>2. (entendido[c] /\ dicho[c] # <<>> /\ toma.m.op = Head(dicho[c]).op
                  /\ toma.m.args = Head(dicho[c]).args) = TRUE
    BY <1>1, <2>1, Zenon
  <2>3. entendido' = [entendido EXCEPT ![c] = TRUE]
    BY <1>2, <2>2, Zenon
  <2>4. entendido = [d \in Canales |-> TRUE]
    BY Zenon DEF Sanos
  <2> QED
    BY <2>3, <2>4
<1> DEFINE y == Tail(dicho[c])
<1> HIDE DEF y
<1>6. dicho' = [dicho EXCEPT ![c] = y]
  BY <1>4, Zenon DEF y
<1>7. Cambia(c, t, y)
  BY <1>4, <1>5, <1>6 DEF Cambia, Sanos
<1> QED
  BY <1>7, Zenon DEF y

\* The first message of a direction, with its bytes.
LEMMA Primero ==
    ASSUME Red, NEW c \in Idas, canal[c] # <<>>
    PROVE  /\ Sanos /\ c \in Canales /\ EsSeq(dicho[c]) /\ dicho[c] # <<>>
           /\ \E b \in Octetos, t \in Octetos :
                /\ canal[c] = b \o t /\ Dijo(c, interfaz.tipo, b, Head(dicho[c]))
                /\ Suena(c, interfaz.tipo, t, Tail(dicho[c]))
<1>1. Sanos /\ c \in Canales
  BY Zenon DEF Red, Sanos, Idas
<1>2. Suena(c, interfaz.tipo, canal[c], dicho[c])
  BY Zenon DEF Red
<1>3. EsSeq(dicho[c])
  BY <1>2, Zenon DEF Suena
<1> QED
  BY <1>1, <1>2, <1>3, SuenaRecibe, Zenon

\* The connections after a change of one of them.
LEMMA RedCambia ==
    ASSUME Red, NEW c \in Canales, NEW x, NEW y, Cambia(c, x, y), interfaz'.tipo = interfaz.tipo,
           c \in Idas => Suena(c, interfaz.tipo, x, y)
    PROVE  Red'
<1>1. ASSUME NEW d \in Idas PROVE Suena(d, interfaz'.tipo, canal'[d], dicho'[d])
  <2>1. d \in Canales
    BY Zenon DEF Idas
  <2>2. CASE d = c
    BY <2>2, Zenon DEF Cambia
  <2>3. CASE d # c
    BY <2>1, <2>3, Zenon DEF Cambia, Red
  <2> QED
    BY <2>2, <2>3
<1> QED
  BY <1>1, Zenon DEF Red, Cambia

\* Something more is said.
LEMMA DiceMas ==
    ASSUME Red, NEW c \in Idas, NEW b, NEW m, Dijo(c, interfaz.tipo, b, m), Envia(c, b, m),
           interfaz'.tipo = interfaz.tipo
    PROVE  /\ Red' /\ EsSeq(dicho[c])
           /\ Cambia(c, canal[c] \o b, Append(dicho[c], m))
<1>1. Sanos /\ c \in Canales /\ Suena(c, interfaz.tipo, canal[c], dicho[c])
  BY Zenon DEF Red, Sanos, Idas
<1>2. Suena(c, interfaz.tipo, canal[c] \o b, Append(dicho[c], m)) /\ b \in Octetos
  BY <1>1, SuenaEnvia, Zenon
<1>3. Cambia(c, canal[c] \o b, Append(dicho[c], m))
  BY <1>1, <1>2, EnviaCambia, Zenon
<1>4. EsSeq(dicho[c])
  BY <1>1, Zenon DEF Suena
<1>5. Red'
  BY <1>1, <1>2, <1>3, RedCambia, Zenon
<1> QED
  BY <1>3, <1>4, <1>5

\* The first thing said is heard.
LEMMA OyePrimero ==
    ASSUME Red, NEW c \in Idas, NEW b \in Octetos, NEW t \in Octetos,
           canal[c] = b \o t, dicho[c] # <<>>, Suena(c, interfaz.tipo, t, Tail(dicho[c])),
           NEW toma, Justo(toma, b, Head(dicho[c])), Recibe(c, toma), interfaz'.tipo = interfaz.tipo
    PROVE  Red' /\ Cambia(c, t, Tail(dicho[c]))
<1>1. Sanos /\ c \in Canales
  BY Zenon DEF Red, Sanos, Idas
<1>2. Cambia(c, t, Tail(dicho[c]))
  BY <1>1, RecibeCambia, Zenon
<1> QED
  BY <1>1, <1>2, RedCambia, Zenon

-----------------------------------------------------------------------------
(* The exchanges with memoria.                                             *)

\* What may be asked, and what no one answers.
LEMMA PediblesDa == "END_PID" \notin Pedibles /\ "" \notin Pedibles /\ "libre" \notin Pedibles
  BY DEF Pedibles, OpsMem

\* Places in a sequence, in one with an element more and in its tail.
LEMMA Indices ==
    /\ \A n \in Nat : n + 1 \in 1 .. n + 1 /\ \A i \in 1 .. n + 1 : i # n + 1 => i \in 1 .. n
    /\ \A n \in Nat : n # 0 => 1 \in 1 .. n /\ \A j \in 1 .. n - 1 : j + 1 \in 1 .. n /\ j + 1 # 1
    /\ \A n \in Nat : \A j \in 1 .. n : j # 1 => j - 1 \in 1 .. n - 1 /\ (j - 1) + 1 = j
    /\ \A n \in Nat : \A i \in 1 .. n - 1, j \in 1 .. n : i # j - 1 => i + 1 \in 1 .. n /\ i + 1 # j
  OBVIOUS

\* A client that waits for nothing asks.
LEMMA AtendidoPide ==
    ASSUME NEW ds, EsSeq(ds), NEW e, e = "", NEW mem, NEW b, NEW d, Atendido(ds, e, mem, b, d),
           NEW m, m.op \in Pedibles
    PROVE  Atendido(Append(ds, m), m.op, mem, b, d)
<1>1. mem = "" /\ Fin(ds) /\ Nada(b, d)
  BY PediblesDa, Zenon DEF Atendido
<1> DEFINE n == Len(ds)
           es == Append(ds, m)
<1>2. n \in Nat /\ Len(es) = n + 1 /\ es[n + 1] = m /\ \A j \in 1 .. n : es[j] = ds[j]
  <2>1. /\ Len(ds) \in Nat
        /\ \A m_1 : /\ EsSeq(Append(ds, m_1)) /\ Len(Append(ds, m_1)) = Len(ds) + 1
                    /\ Append(ds, m_1)[Len(ds) + 1] = m_1
                    /\ \A j \in 1 .. Len(ds) : Append(ds, m_1)[j] = ds[j]
    BY Secuencia
  <2> QED
    BY <2>1
<1>3. \A j \in 1 .. n : ds[j].op = "END_PID"
  BY <1>1, Zenon DEF Fin
<1> HIDE DEF n, es
<1>6. n \in Nat /\ Len(es) = n + 1
  BY <1>2, Zenon
<1>4. n + 1 \in 1 .. Len(es) /\ \A i \in 1 .. Len(es) : i # n + 1 => i \in 1 .. n
  <2>1. n \in Nat => n + 1 \in 1 .. n + 1 /\ \A i \in 1 .. n + 1 : i # n + 1 => i \in 1 .. n
    BY Indices, Zenon
  <2> QED
    BY <1>6, <2>1, Zenon
<1>5. Pendiente(es, m.op)
  BY <1>2, <1>3, <1>4, Zenon DEF Pendiente
<1> QED
  BY <1>1, <1>5, Zenon DEF Atendido, es

\* The end of a process is told to memoria.
LEMMA AtendidoFin ==
    ASSUME NEW ds, EsSeq(ds), NEW e, NEW mem, NEW b, NEW d, Atendido(ds, e, mem, b, d),
           NEW m, m.op = "END_PID"
    PROVE  Atendido(Append(ds, m), e, mem, b, d)
<1> DEFINE n == Len(ds)
           es == Append(ds, m)
<1>1. n \in Nat /\ Len(es) = n + 1 /\ es[n + 1] = m /\ \A j \in 1 .. n : es[j] = ds[j]
  <2>1. /\ Len(ds) \in Nat
        /\ \A m_1 : /\ EsSeq(Append(ds, m_1)) /\ Len(Append(ds, m_1)) = Len(ds) + 1
                    /\ Append(ds, m_1)[Len(ds) + 1] = m_1
                    /\ \A j \in 1 .. Len(ds) : Append(ds, m_1)[j] = ds[j]
    BY Secuencia
  <2> QED
    BY <2>1
<1> HIDE DEF n, es
<1>2. \A i \in 1 .. Len(es) : i # n + 1 => i \in 1 .. n
  BY <1>1
<1>3. Fin(ds) => Fin(es)
  <2>1. ASSUME \A j \in 1 .. n : ds[j].op = "END_PID", NEW i \in 1 .. Len(es)
        PROVE  es[i].op = "END_PID"
    BY <1>1, <1>2, <2>1, Zenon
  <2> QED
    BY <2>1, Zenon DEF Fin, n
<1>4. Pendiente(ds, e) => Pendiente(es, e)
  <2>1. ASSUME NEW j \in 1 .. n, ds[j].op = e,
               \A i \in 1 .. n : i # j => ds[i].op = "END_PID"
        PROVE  Pendiente(es, e)
    <3>1. j \in 1 .. Len(es)
      BY <1>1
    <3>2. ASSUME NEW i \in 1 .. Len(es), i # j PROVE es[i].op = "END_PID"
      BY <1>1, <1>2, <2>1, <3>2, Zenon
    <3>3. es[j].op = e
      BY <1>1, <2>1, Zenon
    <3> QED
      BY <3>1, <3>2, <3>3, Zenon DEF Pendiente
  <2> QED
    BY <2>1, Zenon DEF Pendiente, n
<1> QED
  BY <1>3, <1>4, Zenon DEF Atendido, es

\* Its thread takes the first message, and sets to work unless it is an end.
LEMMA AtendidoRecibe ==
    ASSUME NEW ds, EsSeq(ds), ds # <<>>, NEW e, NEW mem, mem = "", NEW b, NEW d,
           Atendido(ds, e, mem, b, d)
    PROVE  Atendido(Tail(ds), e, IF Head(ds).op = "END_PID" THEN "" ELSE Head(ds).op, b, d)
<1> DEFINE n == Len(ds)
           es == Tail(ds)
           h == Head(ds)
<1>1. /\ n \in Nat /\ n # 0 /\ Len(es) = n - 1 /\ h = ds[1]
      /\ \A j \in 1 .. n - 1 : es[j] = ds[j + 1]
  <2>1. Len(ds) \in Nat /\ (Len(ds) = 0 <=> ds = <<>>)
    BY Secuencia, Zenon
  <2>2. ds # <<>> =>
          /\ EsSeq(Tail(ds)) /\ Len(Tail(ds)) = Len(ds) - 1 /\ Head(ds) = ds[1]
          /\ \A j \in 1 .. Len(ds) - 1 : Tail(ds)[j] = ds[j + 1]
    BY Secuencia, Zenon
  <2> QED
    BY <2>1, <2>2, Zenon
<1> HIDE DEF n, es, h
<1>5. n \in Nat /\ n # 0 /\ Len(es) = n - 1
  BY <1>1, Zenon
<1>2. 1 \in 1 .. n /\ \A j \in 1 .. Len(es) : j + 1 \in 1 .. n /\ j + 1 # 1
  <2>1. n \in Nat /\ n # 0 => 1 \in 1 .. n /\ \A j \in 1 .. n - 1 : j + 1 \in 1 .. n /\ j + 1 # 1
    BY Indices, Zenon
  <2> QED
    BY <1>5, <2>1, Zenon
<1>3. CASE Fin(ds)
  <2>1. h.op = "END_PID" /\ Fin(es)
    BY <1>1, <1>2, <1>3, Zenon DEF Fin, n
  <2>2. ~(e \in Pedibles /\ "" = e)
    BY PediblesDa, Zenon
  <2>3. ~Pendiente(ds, e) \/ e \notin Pedibles
    BY <1>3, PediblesDa, Zenon DEF Fin, Pendiente
  <2>4. Atendido(es, e, "", b, d)
    BY <2>1, <2>2, <2>3, Zenon DEF Atendido
  <2> QED
    BY <2>1, <2>4, Zenon DEF es, h
<1>4. CASE ~Fin(ds)
  <2>1. e \in Pedibles /\ Pendiente(ds, e) /\ Nada(b, d)
    BY <1>4, Zenon DEF Atendido
  <2>2. PICK j \in 1 .. n : ds[j].op = e /\ \A i \in 1 .. n : i # j => ds[i].op = "END_PID"
    BY <2>1, Zenon DEF Pendiente, n
  <2>3. e # "END_PID"
    BY <2>1, PediblesDa, Zenon
  <2>4. CASE j = 1
    <3>1. h.op = e
      BY <1>1, <2>2, <2>4, Zenon
    <3>2. Fin(es)
      BY <1>1, <1>2, <2>2, <2>4, Zenon DEF Fin
    <3>3. Atendido(es, e, e, b, d)
      BY <2>1, <3>2, Zenon DEF Atendido
    <3>4. (IF h.op = "END_PID" THEN "" ELSE h.op) = e
      BY <2>3, <3>1, Zenon
    <3> QED
      BY <3>3, <3>4, Zenon DEF es, h
  <2>5. CASE j # 1
    <3>1. h.op = "END_PID"
      BY <1>1, <1>2, <2>2, <2>5, Zenon
    <3>2. j - 1 \in 1 .. Len(es) /\ (j - 1) + 1 = j
      <4>1. n \in Nat /\ j \in 1 .. n /\ j # 1 => j - 1 \in 1 .. n - 1 /\ (j - 1) + 1 = j
        BY Indices, Zenon
      <4> QED
        BY <1>5, <2>5, <4>1, Zenon
    <3>3. es[j - 1].op = e
      BY <1>1, <2>2, <3>2, Zenon
    <3>4. ASSUME NEW i \in 1 .. Len(es), i # j - 1 PROVE es[i].op = "END_PID"
      <4>1. i + 1 \in 1 .. n /\ i + 1 # j
        <5>1. i \in 1 .. n - 1
          BY <1>5, Zenon
        <5>2. n \in Nat /\ i \in 1 .. n - 1 /\ i # j - 1 /\ j \in 1 .. n => i + 1 \in 1 .. n /\ i + 1 # j
          BY Indices, Zenon
        <5> QED
          BY <1>5, <3>4, <5>1, <5>2, Zenon
      <4> QED
        BY <1>1, <2>2, <4>1, Zenon
    <3>5. Pendiente(es, e)
      BY <3>2, <3>3, <3>4, Zenon DEF Pendiente
    <3>6. Atendido(es, e, "", b, d)
      BY <2>1, <3>5, Zenon DEF Atendido
    <3>7. (IF h.op = "END_PID" THEN "" ELSE h.op) = ""
      BY <3>1, Zenon
    <3> QED
      BY <3>6, <3>7, Zenon DEF es, h
  <2> QED
    BY <2>4, <2>5
<1> QED
  BY <1>3, <1>4

\* It answers what it was asked.
LEMMA AtendidoResponde ==
    ASSUME NEW ds, NEW e, NEW mem, mem # "", NEW b, NEW d, Atendido(ds, e, mem, b, d),
           NEW r \in Respuestas(mem)
    PROVE  /\ mem \in Pedibles /\ b = <<>> /\ d = <<>>
           /\ Atendido(ds, e, "", r.bytes, <<r.dicho>>)
  BY Zenon DEF Atendido, Nada

\* The client finds an answer, and it is to what it asked.
LEMMA AtendidoObtiene ==
    ASSUME NEW ds, NEW e, NEW mem, NEW b, NEW d, b # <<>>, Atendido(ds, e, mem, b, d)
    PROVE  /\ e \in Pedibles /\ \E r \in Respuestas(e) : b = r.bytes /\ d = <<r.dicho>>
           /\ Atendido(ds, "", mem, <<>>, <<>>)
  BY Zenon DEF Atendido, Nada

\* The other clients are not disturbed.
LEMMA AtendidosCambia ==
    ASSUME Atendidos, NEW k \in Clientes, NEW c \in {A[k], De[k]}, NEW x, NEW y, Cambia(c, x, y),
           DOMAIN memoria' = Clientes, consola' \in {"libre", "INIT_PID", "INIT_SCRIPT"},
           \A j \in Clientes : j # k => memoria'[j] = memoria[j] /\ Espera'[j] = Espera[j],
           Atendido(dicho'[A[k]], Espera'[k], memoria'[k], canal'[De[k]], dicho'[De[k]])
    PROVE  Atendidos'
<1>1. ASSUME NEW j \in Clientes, j # k
      PROVE  Atendido(dicho'[A[j]], Espera'[j], memoria'[j], canal'[De[j]], dicho'[De[j]])
  <2>1. A[j] # c /\ De[j] # c /\ A[j] \in Canales /\ De[j] \in Canales
    <3>1. c = A[k] \/ c = De[k]
      OBVIOUS
    <3>2. A[j] # A[k] /\ De[j] # De[k] /\ A[j] # De[k] /\ A[k] # De[j]
      BY <1>1, CanalesSon, ZenonT(90)
    <3>3. A[j] \in Canales /\ De[j] \in Canales
      BY CanalesSon, Zenon DEF Idas
    <3> QED
      BY <3>1, <3>2, <3>3, Zenon
  <2>2. dicho'[A[j]] = dicho[A[j]] /\ canal'[De[j]] = canal[De[j]] /\ dicho'[De[j]] = dicho[De[j]]
    BY <2>1, Zenon DEF Cambia
  <2> QED
    BY <1>1, <2>2, Zenon DEF Atendidos
<1> QED
  BY <1>1, Zenon DEF Atendidos

\* Nor does anyone disturb them who says or hears something else.
LEMMA AtendidosAparte ==
    ASSUME Atendidos, NEW c, c \notin Range(A), c \notin Range(De), NEW x, NEW y, Cambia(c, x, y),
           memoria' = memoria, consola' = consola, Espera' = Espera
    PROVE  Atendidos'
<1>1. ASSUME NEW j \in Clientes
      PROVE  Atendido(dicho'[A[j]], Espera'[j], memoria'[j], canal'[De[j]], dicho'[De[j]])
  <2>1. A[j] # c /\ De[j] # c /\ A[j] \in Canales /\ De[j] \in Canales
    <3>1. A[j] \in Range(A) /\ De[j] \in Range(De)
      BY CanalesSon DEF Clientes
    <3> QED
      BY <3>1, CanalesSon, Zenon DEF Idas
  <2>2. dicho'[A[j]] = dicho[A[j]] /\ canal'[De[j]] = canal[De[j]] /\ dicho'[De[j]] = dicho[De[j]]
    BY <2>1, Zenon DEF Cambia
  <2> QED
    BY <2>2, Zenon DEF Atendidos
<1> QED
  BY <1>1, Zenon DEF Atendidos

\* No bytes, and a sequence of one element.
LEMMA Vacia == <<>> \in Octetos
  BY DEF Octetos

\* The only message of a connection.
LEMMA UnSolo ==
    ASSUME NEW x
    PROVE  <<x>> # <<>> /\ Head(<<x>>) = x /\ Tail(<<x>>) = <<>>
  OBVIOUS

\* What each client awaits, before and after a step.
LEMMA EsperaDa ==
    /\ Espera["cpu"] = IF cpu \in Esperables THEN cpu ELSE ""
    /\ Espera["kernel"] = IF consola # "libre" THEN consola ELSE ""
    /\ Espera["io"] = IF interfaz.en \in {"MEM_READ", "MEM_WRITE"} THEN interfaz.en ELSE ""
    /\ Espera'["cpu"] = IF cpu' \in Esperables THEN cpu' ELSE ""
    /\ Espera'["kernel"] = IF consola' # "libre" THEN consola' ELSE ""
    /\ Espera'["io"] = IF interfaz'.en \in {"MEM_READ", "MEM_WRITE"} THEN interfaz'.en ELSE ""
  BY DEF Espera

\* A client of memoria asks.
LEMMA ClientePide ==
    ASSUME Red, Atendidos, NEW k \in Clientes, NEW m, NEW b, m.op \in Pedibles,
           Espera[k] = "", Espera'[k] = m.op,
           Envia(A[k], b, m), Dijo(A[k], interfaz.tipo, b, m), interfaz'.tipo = interfaz.tipo,
           memoria' = memoria, consola' \in {"libre", "INIT_PID", "INIT_SCRIPT"},
           \A j \in Clientes : j # k => Espera'[j] = Espera[j]
    PROVE  Red' /\ Atendidos' /\ Cambia(A[k], canal[A[k]] \o b, Append(dicho[A[k]], m))
<1>1. A[k] \in Idas /\ De[k] \in Canales /\ De[k] # A[k]
  BY CanalesSon, Zenon
<1>2. /\ Red' /\ EsSeq(dicho[A[k]])
      /\ Cambia(A[k], canal[A[k]] \o b, Append(dicho[A[k]], m))
  BY <1>1, DiceMas, Zenon
<1>3. Atendido(dicho[A[k]], Espera[k], memoria[k], canal[De[k]], dicho[De[k]])
  BY Zenon DEF Atendidos
<1>4. Atendido(Append(dicho[A[k]], m), m.op, memoria[k], canal[De[k]], dicho[De[k]])
  BY <1>2, <1>3, AtendidoPide, Zenon
<1>5. dicho'[A[k]] = Append(dicho[A[k]], m) /\ canal'[De[k]] = canal[De[k]]
      /\ dicho'[De[k]] = dicho[De[k]]
  BY <1>1, <1>2, Zenon DEF Cambia
<1>6. Atendido(dicho'[A[k]], Espera'[k], memoria'[k], canal'[De[k]], dicho'[De[k]])
  BY <1>4, <1>5, Zenon
<1>7. DOMAIN memoria' = Clientes /\ \A j \in Clientes : memoria'[j] = memoria[j]
  BY Zenon DEF Atendidos
<1>8. A[k] \in {A[k], De[k]}
  OBVIOUS
<1>10. \A j \in Clientes : j # k => memoria'[j] = memoria[j] /\ Espera'[j] = Espera[j]
  BY <1>7, Zenon
<1> DEFINE x == canal[A[k]] \o b
           y == Append(dicho[A[k]], m)
<1>11. Cambia(A[k], x, y)
  BY <1>2, Zenon
<1>9. Atendidos'
  <2> HIDE DEF x, y
  <2> QED
    BY <1>6, <1>7, <1>8, <1>10, <1>11, AtendidosCambia, Zenon
<1> QED
  BY <1>2, <1>9

\* A client of memoria gets its answer.
LEMMA ClienteObtiene ==
    ASSUME Red, Atendidos, NEW k \in Clientes,
           Recibe(De[k], recibir_respuesta(Espera[k], canal[De[k]])),
           Espera'[k] = "", interfaz'.tipo = interfaz.tipo,
           memoria' = memoria, consola' \in {"libre", "INIT_PID", "INIT_SCRIPT"},
           \A j \in Clientes : j # k => Espera'[j] = Espera[j]
    PROVE  /\ Red' /\ Atendidos' /\ Cambia(De[k], <<>>, <<>>)
           /\ Espera[k] \in Pedibles
<1> DEFINE b == canal[De[k]]
           d == dicho[De[k]]
           e == Espera[k]
<1>1. A[k] \in Canales /\ De[k] \in Canales /\ De[k] # A[k] /\ De[k] \notin Idas
  BY CanalesSon, Zenon DEF Idas
<1>2. Atendido(dicho[A[k]], e, memoria[k], b, d)
  BY Zenon DEF Atendidos
<1>3. b # <<>>
  BY Zenon DEF Recibe
<1>4. /\ e \in Pedibles /\ \E r \in Respuestas(e) : b = r.bytes /\ d = <<r.dicho>>
      /\ Atendido(dicho[A[k]], "", memoria[k], <<>>, <<>>)
  BY <1>2, <1>3, AtendidoObtiene, Zenon
<1>5. PICK r \in Respuestas(e) : b = r.bytes /\ d = <<r.dicho>>
  BY <1>4, Zenon
<1>6. RespuestaBien(e, r)
  BY <1>4, RespuestaDa, Zenon DEF Pedibles
<1>7. b \in Octetos /\ Justo(recibir_respuesta(e, b), b, r.dicho)
  BY <1>5, <1>6, Zenon DEF RespuestaBien
<1>8. d # <<>> /\ Head(d) = r.dicho /\ Tail(d) = <<>>
  <2> HIDE DEF d
  <2> QED
    BY <1>5, UnSolo, Zenon
<1>9. Sanos /\ <<>> \in Octetos /\ b = b \o <<>>
  <2>1. Sanos
    BY Zenon DEF Red, Sanos
  <2>2. <<>> \in Octetos
    BY Vacia
  <2> QED
    BY <1>7, <2>1, <2>2, NadaSigue, Zenon
<1>10. Cambia(De[k], <<>>, Tail(d))
  BY <1>1, <1>7, <1>8, <1>9, RecibeCambia, Zenon
<1>11. Cambia(De[k], <<>>, <<>>)
  BY <1>8, <1>10, Zenon
<1> HIDE DEF b, d, e
<1>12. Red'
  BY <1>1, <1>11, RedCambia, Zenon
<1>13. dicho'[A[k]] = dicho[A[k]] /\ canal'[De[k]] = <<>> /\ dicho'[De[k]] = <<>>
  BY <1>1, <1>11, Zenon DEF Cambia
<1>14. Atendido(dicho'[A[k]], Espera'[k], memoria'[k], canal'[De[k]], dicho'[De[k]])
  BY <1>4, <1>13, Zenon
<1>15. DOMAIN memoria' = Clientes /\ \A j \in Clientes : memoria'[j] = memoria[j]
  BY Zenon DEF Atendidos
<1>16. De[k] \in {A[k], De[k]}
  OBVIOUS
<1>17. Atendidos'
  BY <1>11, <1>14, <1>15, <1>16, AtendidosCambia, ZenonT(90)
<1> QED
  BY <1>4, <1>11, <1>12, <1>17, Zenon DEF e

\* What the turn of the CPU rests on is not touched.
LEMMA TurnosAparte ==
    ASSUME Turnos, NEW c, c \notin {"kernel_cpu", "cpu_kernel"}, NEW x, NEW y, Cambia(c, x, y),
           cpu' = cpu, corto' = corto
    PROVE  Turnos'
<1>1. c # "kernel_cpu" /\ c # "cpu_kernel" /\ "kernel_cpu" \in Canales /\ "cpu_kernel" \in Canales
  BY CanalesSon
<1>2. dicho'["kernel_cpu"] = dicho["kernel_cpu"] /\ dicho'["cpu_kernel"] = dicho["cpu_kernel"]
  BY <1>1, Zenon DEF Cambia
<1> QED
  BY <1>2, Zenon DEF Turnos

\* Nor what the interface and its thread know of each other.
LEMMA TratosAparte ==
    ASSUME Tratos, NEW c, c \notin {"kernel_io", "io_kernel"}, NEW x, NEW y, Cambia(c, x, y),
           interfaz' = interfaz, to_send' = to_send, io_client' = io_client,
           pedido' = pedido, queue_io' = queue_io
    PROVE  Tratos'
<1>1. c # "kernel_io" /\ c # "io_kernel" /\ "kernel_io" \in Canales /\ "io_kernel" \in Canales
  BY CanalesSon
<1>2. dicho'["kernel_io"] = dicho["kernel_io"] /\ dicho'["io_kernel"] = dicho["io_kernel"]
  BY <1>1, Zenon DEF Cambia
<1> QED
  BY <1>2, Zenon DEF Tratos

\* Nor what anybody awaits.
LEMMA EsperaAparte ==
    ASSUME cpu' = cpu, consola' = consola, interfaz' = interfaz
    PROVE  Espera' = Espera
  BY Zenon DEF Espera

-----------------------------------------------------------------------------
(* Every step of the CPU.                                                  *)

\* The turn after a step away from the dispatch connection.
LEMMA TurnosCon ==
    ASSUME NEW c, c \notin {"kernel_cpu", "cpu_kernel"}, NEW x, NEW y, Cambia(c, x, y),
           Turno(corto', cpu', dicho["kernel_cpu"], dicho["cpu_kernel"])
    PROVE  Turnos'
<1>1. c # "kernel_cpu" /\ c # "cpu_kernel" /\ "kernel_cpu" \in Canales /\ "cpu_kernel" \in Canales
  BY CanalesSon
<1>2. dicho'["kernel_cpu"] = dicho["kernel_cpu"] /\ dicho'["cpu_kernel"] = dicho["cpu_kernel"]
  BY <1>1, Zenon DEF Cambia
<1> QED
  BY <1>2, Zenon DEF Turnos

\* What the CPU may be doing.
LEMMA TurnoCpu ==
    ASSUME NEW quien, NEW que, NEW P, NEW K, Turno(quien, que, P, K)
    PROVE  que \in {"inicio", "libre", "ejecuta", "devuelve"} \cup Esperables
  BY DEF Turno, Esperables, OpsMem

\* The dispatch thread begins, works and gets what it asked for.
LEMMA TurnoAvanza ==
    ASSUME NEW quien, NEW P, NEW K
    PROVE  /\ Turno(quien, "inicio", P, K) => Turno(quien, "MEM_PAGE_SIZE", P, K)
           /\ Turno(quien, "MEM_PAGE_SIZE", P, K) => Turno(quien, "libre", P, K)
           /\ \A op \in OpsMem : /\ Turno(quien, "ejecuta", P, K) => Turno(quien, op, P, K)
                                 /\ Turno(quien, op, P, K) => Turno(quien, "ejecuta", P, K)
<1>1. /\ Turno(quien, "inicio", P, K) => Turno(quien, "MEM_PAGE_SIZE", P, K)
      /\ Turno(quien, "MEM_PAGE_SIZE", P, K) => Turno(quien, "libre", P, K)
  BY DEF Turno, OpsMem
<1>2. ASSUME NEW op \in OpsMem
      PROVE  /\ Turno(quien, "ejecuta", P, K) => Turno(quien, op, P, K)
             /\ Turno(quien, op, P, K) => Turno(quien, "ejecuta", P, K)
  BY DEF Turno, OpsMem
<1> QED
  BY <1>1, <1>2

\* The other clients of memoria do not move when the CPU does.
LEMMA OtrosCpu ==
    ASSUME consola' = consola, interfaz' = interfaz
    PROVE  \A j \in Clientes : j # "cpu" => Espera'[j] = Espera[j]
<1>1. Espera'["kernel"] = Espera["kernel"] /\ Espera'["io"] = Espera["io"]
  BY EsperaDa, Zenon
<1>2. \A j \in Clientes : j # "cpu" => j = "kernel" \/ j = "io"
  BY DEF Clientes
<1> QED
  BY <1>1, <1>2, Zenon

\* The CPU asks for the size of a page before anything else.
LEMMA CpuIniciaInv == Inv /\ CpuInicia => Inv'
<1> SUFFICES ASSUME Inv, CpuInicia PROVE Inv'
  OBVIOUS
<1> DEFINE m == Dice("MEM_PAGE_SIZE", <<>>)
           b == Op("MEM_PAGE_SIZE")
<1>1. /\ cpu = "inicio" /\ cpu' = "MEM_PAGE_SIZE" /\ Envia("cpu_mem", b, m)
      /\ corto' = corto /\ pedido' = pedido /\ queue_io' = queue_io /\ io_client' = io_client
      /\ interfaz' = interfaz /\ to_send' = to_send /\ consola' = consola /\ memoria' = memoria
  BY Zenon DEF CpuInicia, kernel_io, del_io
<1>2. m.op = "MEM_PAGE_SIZE" /\ m.op \in Pedibles
  BY DEF Dice, Pedibles
<1>3. Dijo("cpu_mem", interfaz.tipo, b, m)
  BY Zenon DEF Dijo, DicePagina
<1> HIDE DEF m, b
<1>4. "cpu" \in Clientes /\ A["cpu"] = "cpu_mem" /\ "inicio" \notin Esperables
      /\ "MEM_PAGE_SIZE" \in Esperables
  BY CanalesSon DEF Clientes, Esperables
<1>5. Espera["cpu"] = "" /\ Espera'["cpu"] = m.op
  BY <1>1, <1>2, <1>4, EsperaDa, Zenon
<1>6. \A j \in Clientes : j # "cpu" => Espera'[j] = Espera[j]
  BY <1>1, OtrosCpu, Zenon
<1>7. Red /\ Atendidos /\ Turnos /\ Tratos
      /\ consola' \in {"libre", "INIT_PID", "INIT_SCRIPT"} /\ interfaz'.tipo = interfaz.tipo
  BY <1>1, Zenon DEF Inv, Atendidos
<1> DEFINE x == canal["cpu_mem"] \o b
           y == Append(dicho["cpu_mem"], m)
<1>8. Red' /\ Atendidos' /\ Cambia("cpu_mem", x, y)
  BY <1>1, <1>2, <1>3, <1>4, <1>5, <1>6, <1>7, ClientePide, Zenon
<1> HIDE DEF x, y
<1>9. "cpu_mem" \notin {"kernel_cpu", "cpu_kernel"} /\ "cpu_mem" \notin {"kernel_io", "io_kernel"}
  OBVIOUS
<1>10. Turnos'
  BY <1>1, <1>7, <1>8, <1>9, TurnoAvanza, TurnosCon, Zenon DEF Turnos
<1>11. Tratos'
  BY <1>1, <1>7, <1>8, <1>9, TratosAparte, Zenon
<1> QED
  BY <1>8, <1>10, <1>11, Zenon DEF Inv

\* The CPU asks memoria something while it executes.
LEMMA CpuPideInv == Inv /\ CpuPide => Inv'
<1> SUFFICES ASSUME Inv, CpuPide PROVE Inv'
  OBVIOUS
<1>1. /\ cpu = "ejecuta"
      /\ corto' = corto /\ pedido' = pedido /\ queue_io' = queue_io /\ io_client' = io_client
      /\ interfaz' = interfaz /\ to_send' = to_send /\ consola' = consola /\ memoria' = memoria
  BY Zenon DEF CpuPide, kernel_io, del_io
<1>2. PICK m \in PedidosCpu : Envia("cpu_mem", PaqueteMem(m), m) /\ cpu' = m.op
  BY Zenon DEF CpuPide
<1> DEFINE b == PaqueteMem(m)
<1>3. m.op \in OpsMem /\ m.op \in Pedibles /\ m.op \in Esperables
  <2>1. m.op \in OpsMem
    BY Vacia, PedidosCpuDa, Zenon
  <2> QED
    BY <2>1 DEF Pedibles, OpsMem, Esperables
<1>4. Dijo("cpu_mem", interfaz.tipo, b, m)
  <2>1. "cpu_mem" \in Range(A)
    BY CanalesSon
  <2> QED
    BY <2>1, Zenon DEF Dijo, DiceMem
<1> HIDE DEF b
<1>5. "cpu" \in Clientes /\ A["cpu"] = "cpu_mem" /\ "ejecuta" \notin Esperables
  BY CanalesSon DEF Clientes, Esperables
<1>6. Espera["cpu"] = "" /\ Espera'["cpu"] = m.op
  BY <1>1, <1>2, <1>3, <1>5, EsperaDa, Zenon
<1>7. \A j \in Clientes : j # "cpu" => Espera'[j] = Espera[j]
  BY <1>1, OtrosCpu, Zenon
<1>8. Red /\ Atendidos /\ Turnos /\ Tratos
      /\ consola' \in {"libre", "INIT_PID", "INIT_SCRIPT"} /\ interfaz'.tipo = interfaz.tipo
  BY <1>1, Zenon DEF Inv, Atendidos
<1> DEFINE x == canal["cpu_mem"] \o b
           y == Append(dicho["cpu_mem"], m)
<1>9. Red' /\ Atendidos' /\ Cambia("cpu_mem", x, y)
  <2>1. Envia(A["cpu"], b, m) /\ Dijo(A["cpu"], interfaz.tipo, b, m)
    BY <1>2, <1>4, <1>5, Zenon DEF b
  <2>2. /\ Red' /\ Atendidos'
        /\ Cambia(A["cpu"], canal[A["cpu"]] \o b, Append(dicho[A["cpu"]], m))
    BY <1>1, <1>3, <1>5, <1>6, <1>7, <1>8, <2>1, ClientePide, Zenon
  <2> QED
    BY <1>5, <2>2, Zenon
<1> HIDE DEF x, y
<1>10. "cpu_mem" \notin {"kernel_cpu", "cpu_kernel"} /\ "cpu_mem" \notin {"kernel_io", "io_kernel"}
  OBVIOUS
<1>11. Turnos'
  <2>1. Turno(corto, "ejecuta", dicho["kernel_cpu"], dicho["cpu_kernel"])
    BY <1>1, <1>8, Zenon DEF Turnos
  <2>2. Turno(corto, m.op, dicho["kernel_cpu"], dicho["cpu_kernel"])
    BY <1>3, <2>1, TurnoAvanza, Zenon
  <2> QED
    BY <1>1, <1>2, <1>9, <1>10, <2>2, TurnosCon, Zenon
<1>12. Tratos'
  BY <1>1, <1>8, <1>9, <1>10, TratosAparte, Zenon
<1> QED
  BY <1>9, <1>11, <1>12, Zenon DEF Inv

\* The CPU gets its answer.
LEMMA CpuObtieneInv == Inv /\ CpuObtiene => Inv'
<1> SUFFICES ASSUME Inv, CpuObtiene PROVE Inv'
  OBVIOUS
<1>1. /\ cpu \in Esperables /\ cpu' = (IF cpu = "MEM_PAGE_SIZE" THEN "libre" ELSE "ejecuta")
      /\ Recibe("mem_cpu", recibir_respuesta(cpu, canal["mem_cpu"]))
      /\ corto' = corto /\ pedido' = pedido /\ queue_io' = queue_io /\ io_client' = io_client
      /\ interfaz' = interfaz /\ to_send' = to_send /\ consola' = consola /\ memoria' = memoria
  BY Zenon DEF CpuObtiene, kernel_io, del_io
<1>2. cpu' \notin Esperables
  BY <1>1 DEF Esperables
<1>3. "cpu" \in Clientes /\ De["cpu"] = "mem_cpu"
  BY CanalesSon DEF Clientes
<1>4. Espera["cpu"] = cpu /\ Espera'["cpu"] = ""
  BY <1>1, <1>2, EsperaDa, Zenon
<1>5. \A j \in Clientes : j # "cpu" => Espera'[j] = Espera[j]
  BY <1>1, OtrosCpu, Zenon
<1>6. Red /\ Atendidos /\ Turnos /\ Tratos
      /\ consola' \in {"libre", "INIT_PID", "INIT_SCRIPT"} /\ interfaz'.tipo = interfaz.tipo
  BY <1>1, Zenon DEF Inv, Atendidos
<1>7. Red' /\ Atendidos' /\ Cambia("mem_cpu", <<>>, <<>>)
  <2>1. Recibe(De["cpu"], recibir_respuesta(Espera["cpu"], canal[De["cpu"]]))
    BY <1>1, <1>3, <1>4, Zenon
  <2>2. Red' /\ Atendidos' /\ Cambia(De["cpu"], <<>>, <<>>)
    BY <1>1, <1>3, <1>4, <1>5, <1>6, <2>1, ClienteObtiene, Zenon
  <2> QED
    BY <1>3, <2>2, Zenon
<1>8. "mem_cpu" \notin {"kernel_cpu", "cpu_kernel"} /\ "mem_cpu" \notin {"kernel_io", "io_kernel"}
  OBVIOUS
<1>9. Turnos'
  <2>1. Turno(corto, cpu, dicho["kernel_cpu"], dicho["cpu_kernel"])
    BY <1>6, Zenon DEF Turnos
  <2>2. CASE cpu = "MEM_PAGE_SIZE"
    <3>1. Turno(corto, "libre", dicho["kernel_cpu"], dicho["cpu_kernel"])
      BY <2>1, <2>2, TurnoAvanza, Zenon
    <3> QED
      BY <1>1, <1>7, <1>8, <2>2, <3>1, TurnosCon, Zenon
  <2>3. CASE cpu # "MEM_PAGE_SIZE"
    <3>1. cpu \in OpsMem
      BY <1>1, <2>3 DEF Esperables, OpsMem
    <3>2. Turno(corto, "ejecuta", dicho["kernel_cpu"], dicho["cpu_kernel"])
      BY <2>1, <3>1, TurnoAvanza, Zenon
    <3> QED
      BY <1>1, <1>7, <1>8, <2>3, <3>2, TurnosCon, Zenon
  <2> QED
    BY <2>2, <2>3
<1>10. Tratos'
  BY <1>1, <1>6, <1>7, <1>8, TratosAparte, Zenon
<1> QED
  BY <1>7, <1>9, <1>10, Zenon DEF Inv

-----------------------------------------------------------------------------
(* Every step on the dispatch connection.                                  *)

\* A sequence of one message or two, its head and its tail; and one made longer.
LEMMA UnaODos ==
    ASSUME NEW ds, EsSeq(ds), NEW m
    PROVE  /\ Len(ds) = 1 => ds # <<>> /\ Head(ds) = ds[1] /\ Tail(ds) = <<>>
           /\ Len(ds) = 2 => ds # <<>> /\ Head(ds) = ds[1] /\ Len(Tail(ds)) = 1 /\ Tail(ds)[1] = ds[2]
           /\ ds = <<>> => Len(Append(ds, m)) = 1 /\ Append(ds, m)[1] = m
           /\ Len(ds) = 1 => /\ Len(Append(ds, m)) = 2 /\ Append(ds, m)[1] = ds[1]
                             /\ Append(ds, m)[2] = m
<1> DEFINE es == Append(ds, m)
           fs == Tail(ds)
           h == Head(ds)
<1>1. Len(ds) \in Nat /\ (Len(ds) = 0 <=> ds = <<>>)
  BY Secuencia, Zenon
<1>2. /\ \A m_1 : /\ EsSeq(Append(ds, m_1)) /\ Len(Append(ds, m_1)) = Len(ds) + 1
                  /\ Append(ds, m_1)[Len(ds) + 1] = m_1
                  /\ \A j \in 1 .. Len(ds) : Append(ds, m_1)[j] = ds[j]
  BY Secuencia
<1>3. Len(es) = Len(ds) + 1 /\ es[Len(ds) + 1] = m /\ \A j \in 1 .. Len(ds) : es[j] = ds[j]
  BY <1>2
<1>4. ds # <<>> =>
          /\ EsSeq(fs) /\ Len(fs) = Len(ds) - 1 /\ h = ds[1]
          /\ \A j \in 1 .. Len(ds) - 1 : fs[j] = ds[j + 1]
  BY Secuencia, Zenon
<1>5. EsSeq(fs) => (Len(fs) = 0 <=> fs = <<>>)
  BY Secuencia, Zenon
<1> DEFINE n == Len(ds)
<1> HIDE DEF es, fs, h, n
<1>6. n \in Nat /\ (n = 0 <=> ds = <<>>) /\ Len(es) = n + 1 /\ es[n + 1] = m
      /\ \A j \in 1 .. n : es[j] = ds[j]
  BY <1>1, <1>3, Zenon DEF n
<1>7. ds # <<>> => /\ EsSeq(fs) /\ Len(fs) = n - 1 /\ h = ds[1]
                   /\ \A j \in 1 .. n - 1 : fs[j] = ds[j + 1]
  BY <1>4, Zenon DEF n
<1>8. n = 1 => ds # <<>> /\ h = ds[1] /\ fs = <<>>
  BY <1>5, <1>6, <1>7
<1>9. n = 2 => ds # <<>> /\ h = ds[1] /\ Len(fs) = 1 /\ fs[1] = ds[2]
  BY <1>6, <1>7
<1>10. ds = <<>> => Len(es) = 1 /\ es[1] = m
  BY <1>6
<1>11. n = 1 => Len(es) = 2 /\ es[1] = ds[1] /\ es[2] = m
  BY <1>6
<1> QED
  BY <1>8, <1>9, <1>10, <1>11, Zenon DEF es, fs, h, n

\* The kernel gives the CPU a process, and the CPU takes it.
LEMMA TurnoDespacha ==
    ASSUME NEW que, NEW P, EsSeq(P), NEW K, NEW m, m.op = "PCB", Turno("manda", que, P, K)
    PROVE  Turno("espera", que, Append(P, m), K)
<1>1. Len(Append(P, m)) = 1 /\ Append(P, m)[1] = m
  <2>1. P = <<>>
    BY Zenon DEF Turno
  <2> QED
    BY <2>1, UnaODos, Zenon
<1>2. que \in {"inicio", "MEM_PAGE_SIZE", "libre"} /\ K = <<>>
  BY DEF Turno
<1>3. Es(Append(P, m)[1], {"PCB"})
  BY <1>1 DEF Es
<1> QED
  BY <1>1, <1>2, <1>3, Zenon DEF Turno

\* The CPU takes the process.
LEMMA TurnoToma ==
    ASSUME NEW quien, NEW P, EsSeq(P), P # <<>>, NEW K, Turno(quien, "libre", P, K)
    PROVE  Turno(quien, "ejecuta", Tail(P), K)
<1>1. quien = "espera" /\ Len(P) = 1 /\ K = <<>>
  BY DEF Turno
<1>2. Tail(P) = <<>>
  BY <1>1, UnaODos, Zenon
<1>3. "ejecuta" \in {"ejecuta"} \cup OpsMem
  OBVIOUS
<1> QED
  BY <1>1, <1>2, <1>3, Zenon DEF Turno

\* A request goes before the process.
LEMMA TurnoPide ==
    ASSUME NEW quien, NEW P, NEW K, EsSeq(K), NEW m, m.op \in Pide, Turno(quien, "ejecuta", P, K)
    PROVE  Turno(quien, "devuelve", P, Append(K, m))
<1>1. quien = "espera" /\ P = <<>> /\ K = <<>>
  BY DEF Turno
<1>2. Len(Append(K, m)) = 1 /\ Append(K, m)[1] = m
  BY <1>1, UnaODos, Zenon
<1>3. Es(Append(K, m)[1], Pide)
  BY <1>2, Zenon DEF Es
<1> QED
  BY <1>1, <1>2, <1>3, Zenon DEF Turno

\* The CPU gives the process back.
LEMMA TurnoDevuelve ==
    ASSUME NEW quien, NEW que \in {"devuelve", "ejecuta"}, NEW P, NEW K, EsSeq(K),
           NEW m, m.op = "PCB", Turno(quien, que, P, K)
    PROVE  Turno(quien, "libre", P, Append(K, m))
<1>1. Es(m, {"PCB"})
  BY DEF Es
<1>2. CASE quien = "espera" /\ P = <<>> /\ K = <<>>
  <2>1. Len(Append(K, m)) = 1 /\ Append(K, m)[1] = m
    BY <1>2, UnaODos, Zenon
  <2> QED
    BY <1>1, <1>2, <2>1, Zenon DEF Turno
<1>3. CASE quien = "espera" /\ P = <<>> /\ Len(K) = 1 /\ Es(K[1], Pide)
  <2>1. Len(Append(K, m)) = 2 /\ Append(K, m)[1] = K[1] /\ Append(K, m)[2] = m
    <3>1. Len(K) = 1
      BY <1>3
    <3>2. Len(K) = 1 => Len(Append(K, m)) = 2 /\ Append(K, m)[1] = K[1] /\ Append(K, m)[2] = m
      BY UnaODos
    <3> QED
      BY <3>1, <3>2, Zenon
  <2> QED
    BY <1>1, <1>3, <2>1, Zenon DEF Turno
<1>4. CASE quien = "espera_pcb" /\ P = <<>> /\ K = <<>>
  <2>1. Len(Append(K, m)) = 1 /\ Append(K, m)[1] = m
    BY <1>4, UnaODos, Zenon
  <2> QED
    BY <1>1, <1>4, <2>1, Zenon DEF Turno
<1>5. \/ quien = "espera" /\ P = <<>> /\ K = <<>>
      \/ quien = "espera" /\ P = <<>> /\ Len(K) = 1 /\ Es(K[1], Pide)
      \/ quien = "espera_pcb" /\ P = <<>> /\ K = <<>>
  BY DEF Turno
<1> QED
  BY <1>2, <1>3, <1>4, <1>5

\* The kernel hears the first message of the CPU.
LEMMA TurnoEspera ==
    ASSUME NEW que, NEW P, NEW K, EsSeq(K), K # <<>>, Turno("espera", que, P, K)
    PROVE  \/ Head(K).op = "PCB" /\ Turno("manda", que, P, Tail(K))
           \/ Head(K).op \in Pide /\ Turno("espera_pcb", que, P, Tail(K))
<1>1. \/ que = "devuelve" /\ P = <<>> /\ Len(K) = 1 /\ Es(K[1], Pide)
      \/ que = "libre" /\ P = <<>> /\ Len(K) = 2 /\ Es(K[1], Pide) /\ Es(K[2], {"PCB"})
      \/ que = "libre" /\ P = <<>> /\ Len(K) = 1 /\ Es(K[1], {"PCB"})
  BY DEF Turno
<1>2. CASE que = "devuelve" /\ P = <<>> /\ Len(K) = 1 /\ Es(K[1], Pide)
  <2>1. Head(K) = K[1] /\ Tail(K) = <<>>
    BY <1>2, UnaODos, Zenon
  <2> QED
    BY <1>2, <2>1, Zenon DEF Turno, Es
<1>3. CASE que = "libre" /\ P = <<>> /\ Len(K) = 2 /\ Es(K[1], Pide) /\ Es(K[2], {"PCB"})
  <2>1. Head(K) = K[1] /\ Len(Tail(K)) = 1 /\ Tail(K)[1] = K[2]
    BY <1>3, UnaODos, Zenon
  <2>2. Head(K).op \in Pide
    BY <1>3, <2>1, Zenon DEF Es
  <2>3. Turno("espera_pcb", que, P, Tail(K))
    BY <1>3, <2>1, Zenon DEF Turno
  <2> QED
    BY <2>2, <2>3
<1>4. CASE que = "libre" /\ P = <<>> /\ Len(K) = 1 /\ Es(K[1], {"PCB"})
  <2>1. Head(K) = K[1] /\ Tail(K) = <<>>
    BY <1>4, UnaODos, Zenon
  <2>2. Head(K).op = "PCB"
    BY <1>4, <2>1 DEF Es
  <2>3. que \in {"inicio", "MEM_PAGE_SIZE", "libre"}
    BY <1>4
  <2>4. Turno("manda", que, P, Tail(K))
    BY <1>4, <2>1, <2>3, Zenon DEF Turno
  <2> QED
    BY <2>2, <2>4
<1> QED
  BY <1>1, <1>2, <1>3, <1>4

\* It hears the process that follows a request.
LEMMA TurnoEsperaPcb ==
    ASSUME NEW que, NEW P, NEW K, EsSeq(K), K # <<>>, Turno("espera_pcb", que, P, K)
    PROVE  Head(K).op = "PCB" /\ Turno("manda", que, P, Tail(K))
<1>1. que = "libre" /\ P = <<>> /\ Len(K) = 1 /\ Es(K[1], {"PCB"})
  BY DEF Turno
<1>2. Head(K) = K[1] /\ Tail(K) = <<>>
  BY <1>1, UnaODos, Zenon
<1>3. Head(K).op = "PCB"
  BY <1>1, <1>2 DEF Es
<1>4. que \in {"inicio", "MEM_PAGE_SIZE", "libre"}
  BY <1>1
<1>5. Turno("manda", que, P, Tail(K))
  BY <1>1, <1>2, <1>4, Zenon DEF Turno
<1> QED
  BY <1>3, <1>5

\* What comes on each connection.
LEMMA DijoPor ==
    ASSUME NEW tipo, NEW b, NEW m
    PROVE  /\ Dijo("kernel_cpu", tipo, b, m) => DicePcb(b, m)
           /\ Dijo("interrupt", tipo, b, m) => DiceInterrupcion(b, m)
           /\ Dijo("kernel_io", tipo, b, m) => DicePasado(tipo, b, m)
           /\ Dijo("io_kernel", tipo, b, m) => DiceNombre(b, m) \/ DiceCodigo(b, m)
           /\ Dijo("cpu_kernel", tipo, b, m) => DicePcb(b, m) \/ DiceIo(b, m) \/ DiceSemaforo(b, m)
           /\ \A c \in Range(A) : Dijo(c, tipo, b, m) =>
                    DicePagina(b, m) \/ DiceMem(b, m) \/ DiceFin(b, m)
<1>1. \A c \in {"kernel_cpu", "interrupt", "kernel_io", "io_kernel", "cpu_kernel"} : c \notin Range(A)
  BY CanalesSon
<1>2. /\ Dijo("kernel_cpu", tipo, b, m) => DicePcb(b, m)
      /\ Dijo("interrupt", tipo, b, m) => DiceInterrupcion(b, m)
      /\ Dijo("kernel_io", tipo, b, m) => DicePasado(tipo, b, m)
      /\ Dijo("io_kernel", tipo, b, m) => DiceNombre(b, m) \/ DiceCodigo(b, m)
      /\ Dijo("cpu_kernel", tipo, b, m) => DicePcb(b, m) \/ DiceIo(b, m) \/ DiceSemaforo(b, m)
  BY <1>1 DEF Dijo
<1>3. \A c \in Range(A) : Dijo(c, tipo, b, m) =>
                    DicePagina(b, m) \/ DiceMem(b, m) \/ DiceFin(b, m)
  <2>1. \A c \in Range(A) : c \notin {"kernel_cpu", "cpu_kernel", "interrupt", "kernel_io", "io_kernel"}
    BY CanalesSon
  <2>2. \A c \in Range(A) : /\ c # "cpu_kernel" /\ c # "interrupt" /\ c # "kernel_io"
                            /\ c # "io_kernel" /\ c \notin {"kernel_cpu", "cpu_kernel"}
    BY <2>1
  <2> QED
    BY <2>2, Zenon DEF Dijo
<1> QED
  BY <1>2, <1>3, Zenon

\* What was said in each direction is a sequence.
LEMMA RedSeq == Red => \A c \in Idas : EsSeq(dicho[c])
  BY Zenon DEF Red, Suena

\* The dispatch connection is not of memoria nor of the interface.
LEMMA DeDispatch ==
    \A c \in {"kernel_cpu", "cpu_kernel"} :
        c \in Idas /\ c \in Canales /\ c \notin Range(A) /\ c \notin Range(De)
        /\ c \notin {"kernel_io", "io_kernel"}
  BY CanalesSon

\* Who does not wait for memoria before nor after.
LEMMA EsperaIgual ==
    ASSUME cpu \notin Esperables, cpu' \notin Esperables, consola' = consola, interfaz' = interfaz
    PROVE  Espera' = Espera
<1>1. (IF cpu' \in Esperables THEN cpu' ELSE "") = (IF cpu \in Esperables THEN cpu ELSE "")
  BY Zenon
<1> QED
  BY <1>1, Zenon DEF Espera

\* Nobody but the two threads is disturbed by what goes between them.
LEMMA EntreDos ==
    ASSUME Inv, Red', NEW c \in {"kernel_cpu", "cpu_kernel"}, NEW x, NEW y, Cambia(c, x, y),
           cpu' = cpu \/ (cpu \notin Esperables /\ cpu' \notin Esperables),
           consola' = consola, interfaz' = interfaz, memoria' = memoria,
           Turno(corto', cpu', IF c = "kernel_cpu" THEN y ELSE dicho["kernel_cpu"],
                               IF c = "cpu_kernel" THEN y ELSE dicho["cpu_kernel"])
    PROVE  Atendidos' /\ Turnos'
<1>1. c \in Canales /\ c \notin Range(A) /\ c \notin Range(De)
  BY DeDispatch, Zenon
<1>2. Espera' = Espera
  BY EsperaIgual, EsperaAparte, Zenon
<1>3. Atendidos'
  BY <1>1, <1>2, AtendidosAparte, Zenon DEF Inv
<1>4. /\ dicho'["kernel_cpu"] = IF c = "kernel_cpu" THEN y ELSE dicho["kernel_cpu"]
      /\ dicho'["cpu_kernel"] = IF c = "cpu_kernel" THEN y ELSE dicho["cpu_kernel"]
  <2>1. "kernel_cpu" \in Canales /\ "cpu_kernel" \in Canales
    BY DeDispatch
  <2>2. /\ dicho'[c] = y
        /\ \A d \in Canales : d # c => dicho'[d] = dicho[d]
    BY Zenon DEF Cambia
  <2> QED
    BY <2>1, <2>2, Zenon
<1>5. Turnos'
  BY <1>4, Zenon DEF Turnos
<1> QED
  BY <1>3, <1>5

\* A PCB is heard whole.
LEMMA OyePcb ==
    ASSUME Red, NEW c \in {"kernel_cpu", "cpu_kernel"}, RecibePcb(c), Head(dicho[c]).op = "PCB",
           interfaz' = interfaz
    PROVE  /\ Red' /\ EsSeq(dicho[c]) /\ dicho[c] # <<>>
           /\ \E x : Cambia(c, x, Tail(dicho[c]))
<1> DEFINE toma == TomaBuffer(canal[c], EnOrden(recibir_pcb(Buffer(canal[c]))))
<1>1. Recibe(c, toma) /\ c \in Idas
  BY DeDispatch, Zenon DEF RecibePcb
<1>2. canal[c] # <<>>
  BY <1>1, Zenon DEF Recibe
<1>3. EsSeq(dicho[c]) /\ dicho[c] # <<>>
      /\ \E b \in Octetos, t \in Octetos :
            /\ canal[c] = b \o t /\ Dijo(c, interfaz.tipo, b, Head(dicho[c]))
            /\ Suena(c, interfaz.tipo, t, Tail(dicho[c]))
  BY <1>1, <1>2, Primero, Zenon
<1>4. PICK b \in Octetos, t \in Octetos :
            /\ canal[c] = b \o t /\ Dijo(c, interfaz.tipo, b, Head(dicho[c]))
            /\ Suena(c, interfaz.tipo, t, Tail(dicho[c]))
  BY <1>3, Zenon
<1>5. DicePcb(b, Head(dicho[c]))
  <2>1. c = "kernel_cpu" \/ c = "cpu_kernel"
    OBVIOUS
  <2>2. DicePcb(b, Head(dicho[c])) \/ DiceIo(b, Head(dicho[c])) \/ DiceSemaforo(b, Head(dicho[c]))
    BY <1>4, <2>1, DijoPor, Zenon
  <2>3. ~DiceIo(b, Head(dicho[c]))
    <3>1. "PCB" # "IO"
      OBVIOUS
    <3> QED
      BY <3>1, Vacia, LeeIo, Zenon
  <2>4. ~DiceSemaforo(b, Head(dicho[c]))
    <3>1. "PCB" \notin {"WAIT_RECURSO", "SIGNAL_RECURSO"}
      OBVIOUS
    <3> QED
      BY <3>1, Vacia, LeeSemaforo, Zenon
  <2> QED
    BY <2>2, <2>3, <2>4
<1>6. Justo(toma, b, Head(dicho[c]))
  BY <1>4, <1>5, LeePcb, Zenon
<1> HIDE DEF toma
<1>7. Red' /\ Cambia(c, t, Tail(dicho[c]))
  BY <1>1, <1>3, <1>4, <1>6, OyePrimero, Zenon
<1> QED
  BY <1>3, <1>7, Zenon

\* A PCB is said.
LEMMA DicePcbMas ==
    ASSUME Red, NEW c \in {"kernel_cpu", "cpu_kernel"}, EnviaPcb(c), interfaz' = interfaz
    PROVE  /\ Red' /\ EsSeq(dicho[c])
           /\ \E x, m : m.op = "PCB" /\ Cambia(c, x, Append(dicho[c], m))
<1>1. PICK p \in Pids, s \in Cadenas :
            Envia(c, Paquete("PCB", agregar_pcb_paquete(Pcb(p, s))), Dice("PCB", EnOrden(Pcb(p, s))))
  BY Zenon DEF EnviaPcb
<1> DEFINE b == Paquete("PCB", agregar_pcb_paquete(Pcb(p, s)))
           m == Dice("PCB", EnOrden(Pcb(p, s)))
<1>2. DicePcb(b, m)
  BY Zenon DEF DicePcb
<1>3. Dijo(c, interfaz.tipo, b, m)
  BY <1>2, Zenon DEF Dijo
<1>4. m.op = "PCB"
  BY DEF Dice
<1>5. c \in Idas /\ Envia(c, b, m)
  BY <1>1, DeDispatch, Zenon
<1> HIDE DEF b, m
<1>6. Red' /\ EsSeq(dicho[c]) /\ Cambia(c, canal[c] \o b, Append(dicho[c], m))
  BY <1>3, <1>5, DiceMas, Zenon
<1> QED
  BY <1>4, <1>6, Zenon

\* The CPU takes the process the kernel gives it.
LEMMA CpuRecibePcbInv == Inv /\ CpuRecibePcb => Inv'
<1> SUFFICES ASSUME Inv, CpuRecibePcb PROVE Inv'
  OBVIOUS
<1>1. /\ cpu = "libre" /\ cpu' = "ejecuta" /\ RecibePcb("kernel_cpu")
      /\ corto' = corto /\ pedido' = pedido /\ queue_io' = queue_io /\ io_client' = io_client
      /\ interfaz' = interfaz /\ to_send' = to_send /\ consola' = consola /\ memoria' = memoria
  BY Zenon DEF CpuRecibePcb, kernel_io, del_io
<1>2. Red /\ Tratos /\ Turno(corto, "libre", dicho["kernel_cpu"], dicho["cpu_kernel"])
  BY <1>1, Zenon DEF Inv, Turnos
<1> DEFINE P == dicho["kernel_cpu"]
           K == dicho["cpu_kernel"]
<1>3. "kernel_cpu" \in {"kernel_cpu", "cpu_kernel"} /\ "kernel_cpu" # "cpu_kernel"
      /\ "kernel_cpu" \in Idas /\ "kernel_cpu" \notin {"kernel_io", "io_kernel"}
      /\ "libre" \notin Esperables /\ "ejecuta" \notin Esperables
  BY DeDispatch DEF Esperables
<1>4. canal["kernel_cpu"] # <<>>
  BY <1>1, Zenon DEF RecibePcb, Recibe
<1>5. EsSeq(P) /\ P # <<>> /\ Head(P).op = "PCB"
  <2>1. EsSeq(P) /\ P # <<>>
        /\ \E b \in Octetos : Dijo("kernel_cpu", interfaz.tipo, b, Head(P))
    BY <1>2, <1>3, <1>4, Primero, Zenon
  <2>2. PICK b \in Octetos : DicePcb(b, Head(P))
    BY <2>1, DijoPor, Zenon
  <2> QED
    BY <2>1, <2>2, Vacia, LeePcb, Zenon
<1>6. Red' /\ \E x : Cambia("kernel_cpu", x, Tail(P))
  BY <1>1, <1>2, <1>3, <1>5, OyePcb, Zenon
<1>7. PICK x : Cambia("kernel_cpu", x, Tail(P))
  BY <1>6, Zenon
<1>8. Turno(corto, "ejecuta", Tail(P), K)
  BY <1>2, <1>5, TurnoToma, Zenon
<1>9. Turno(corto', cpu', IF "kernel_cpu" = "kernel_cpu" THEN Tail(P) ELSE P,
                          IF "kernel_cpu" = "cpu_kernel" THEN Tail(P) ELSE K)
  BY <1>1, <1>3, <1>8, Zenon
<1> HIDE DEF P, K
<1>10. Atendidos' /\ Turnos'
  BY <1>1, <1>3, <1>6, <1>7, <1>9, EntreDos, Zenon DEF P, K
<1>11. Tratos'
  BY <1>1, <1>2, <1>3, <1>7, TratosAparte, Zenon
<1> QED
  BY <1>6, <1>10, <1>11, Zenon DEF Inv

\* The kernel gives the CPU a process.
LEMMA EnviarCpuInv == Inv /\ EnviarCpu => Inv'
<1> SUFFICES ASSUME Inv, EnviarCpu PROVE Inv'
  OBVIOUS
<1>1. /\ corto = "manda" /\ corto' = "espera" /\ EnviaPcb("kernel_cpu")
      /\ cpu' = cpu /\ pedido' = pedido /\ queue_io' = queue_io /\ io_client' = io_client
      /\ interfaz' = interfaz /\ to_send' = to_send /\ consola' = consola /\ memoria' = memoria
  BY Zenon DEF EnviarCpu, kernel_io, del_io
<1> DEFINE P == dicho["kernel_cpu"]
           K == dicho["cpu_kernel"]
<1>2. Red /\ Tratos /\ Turno("manda", cpu, P, K)
  BY <1>1, Zenon DEF Inv, Turnos
<1>3. "kernel_cpu" \in {"kernel_cpu", "cpu_kernel"} /\ "kernel_cpu" # "cpu_kernel"
      /\ "kernel_cpu" \notin {"kernel_io", "io_kernel"}
  OBVIOUS
<1>4. Red' /\ EsSeq(P) /\ \E x, m : m.op = "PCB" /\ Cambia("kernel_cpu", x, Append(P, m))
  BY <1>1, <1>2, <1>3, DicePcbMas, Zenon
<1>5. PICK x, m : m.op = "PCB" /\ Cambia("kernel_cpu", x, Append(P, m))
  BY <1>4, Zenon
<1> DEFINE y == Append(P, m)
<1>6. Turno("espera", cpu, y, K)
  BY <1>2, <1>4, <1>5, TurnoDespacha, Zenon
<1>7. Cambia("kernel_cpu", x, y)
  BY <1>5, Zenon
<1> HIDE DEF y
<1>8. Turno(corto', cpu', IF "kernel_cpu" = "kernel_cpu" THEN y ELSE P,
                          IF "kernel_cpu" = "cpu_kernel" THEN y ELSE K)
  BY <1>1, <1>3, <1>6, Zenon
<1> HIDE DEF P, K
<1>9. Atendidos' /\ Turnos'
  BY <1>1, <1>3, <1>4, <1>7, <1>8, EntreDos, Zenon DEF P, K
<1>10. Tratos'
  BY <1>1, <1>2, <1>3, <1>7, TratosAparte, Zenon
<1> QED
  BY <1>4, <1>9, <1>10, Zenon DEF Inv

\* A request goes from the CPU to the kernel.
LEMMA PideAlgo ==
    ASSUME Inv, cpu = "ejecuta", cpu' = "devuelve", corto' = corto, pedido' = pedido,
           queue_io' = queue_io, io_client' = io_client, interfaz' = interfaz,
           to_send' = to_send, consola' = consola, memoria' = memoria,
           NEW b, NEW m, Envia("cpu_kernel", b, m), DiceIo(b, m) \/ DiceSemaforo(b, m)
    PROVE  Inv'
<1> DEFINE P == dicho["kernel_cpu"]
           K == dicho["cpu_kernel"]
           x == canal["cpu_kernel"] \o b
           y == Append(K, m)
<1>1. Red /\ Tratos /\ Turno(corto, "ejecuta", P, K)
  BY Zenon DEF Inv, Turnos
<1>2. "cpu_kernel" \in {"kernel_cpu", "cpu_kernel"} /\ "kernel_cpu" # "cpu_kernel"
      /\ "cpu_kernel" \in Idas /\ "cpu_kernel" \notin {"kernel_io", "io_kernel"}
      /\ "ejecuta" \notin Esperables /\ "devuelve" \notin Esperables
  BY DeDispatch DEF Esperables
<1>3. Dijo("cpu_kernel", interfaz.tipo, b, m)
  BY Zenon DEF Dijo
<1>4. m.op \in Pide
  <2>1. m.op = "IO" \/ m.op \in {"WAIT_RECURSO", "SIGNAL_RECURSO"}
    BY Vacia, LeeIo, LeeSemaforo, Zenon
  <2> QED
    BY <2>1 DEF Pide
<1>5. Red' /\ EsSeq(K) /\ Cambia("cpu_kernel", x, y)
  BY <1>1, <1>2, <1>3, DiceMas, Zenon
<1>6. Turno(corto, "devuelve", P, y)
  BY <1>1, <1>4, <1>5, TurnoPide, Zenon
<1> HIDE DEF x, y
<1>7. Turno(corto', cpu', IF "cpu_kernel" = "kernel_cpu" THEN y ELSE P,
                          IF "cpu_kernel" = "cpu_kernel" THEN y ELSE K)
  BY <1>2, <1>6, Zenon
<1> HIDE DEF P, K
<1>8. Atendidos' /\ Turnos'
  BY <1>2, <1>5, <1>7, EntreDos, Zenon DEF P, K
<1>9. Tratos'
  BY <1>1, <1>2, <1>5, TratosAparte, Zenon
<1> QED
  BY <1>5, <1>8, <1>9, Zenon DEF Inv

\* A request of IO.
LEMMA CpuPideIoInv == Inv /\ CpuPideIo => Inv'
<1> SUFFICES ASSUME Inv, CpuPideIo PROVE Inv'
  OBVIOUS
<1>1. /\ cpu = "ejecuta" /\ cpu' = "devuelve"
      /\ corto' = corto /\ pedido' = pedido /\ queue_io' = queue_io /\ io_client' = io_client
      /\ interfaz' = interfaz /\ to_send' = to_send /\ consola' = consola /\ memoria' = memoria
  BY Zenon DEF CpuPideIo, kernel_io, del_io
<1>2. PICK s \in Cadenas, p \in PedidosIo :
        Envia("cpu_kernel", PaqueteIo(s, p),
              [op |-> "IO", pide |-> p,
               args |-> <<U32("instr", p.op), Cadena("nombre", s), Contenido(p)>>])
  BY Zenon DEF CpuPideIo
<1> DEFINE b == PaqueteIo(s, p)
           m == [op |-> "IO", pide |-> p,
                 args |-> <<U32("instr", p.op), Cadena("nombre", s), Contenido(p)>>]
<1>3. DiceIo(b, m) /\ Envia("cpu_kernel", b, m)
  BY <1>2, Zenon DEF DiceIo
<1> HIDE DEF b, m
<1> QED
  BY <1>1, <1>3, PideAlgo, Zenon

\* A request of a resource.
LEMMA CpuSemaforoInv == Inv /\ CpuSemaforo => Inv'
<1> SUFFICES ASSUME Inv, CpuSemaforo PROVE Inv'
  OBVIOUS
<1>1. /\ cpu = "ejecuta" /\ cpu' = "devuelve"
      /\ corto' = corto /\ pedido' = pedido /\ queue_io' = queue_io /\ io_client' = io_client
      /\ interfaz' = interfaz /\ to_send' = to_send /\ consola' = consola /\ memoria' = memoria
  BY Zenon DEF CpuSemaforo, kernel_io, del_io
<1>2. PICK s \in Cadenas, op \in {"WAIT_RECURSO", "SIGNAL_RECURSO"} :
        Envia("cpu_kernel", Paquete(op, Cadena("recurso", s)), Dice(op, <<Cadena("recurso", s)>>))
  BY Zenon DEF CpuSemaforo
<1> DEFINE b == Paquete(op, Cadena("recurso", s))
           m == Dice(op, <<Cadena("recurso", s)>>)
<1>3. DiceSemaforo(b, m) /\ Envia("cpu_kernel", b, m)
  BY <1>2, Zenon DEF DiceSemaforo
<1> HIDE DEF b, m
<1> QED
  BY <1>1, <1>3, PideAlgo, Zenon

\* The CPU gives the process back.
LEMMA CpuDevuelveInv == Inv /\ CpuDevuelve => Inv'
<1> SUFFICES ASSUME Inv, CpuDevuelve PROVE Inv'
  OBVIOUS
<1>1. /\ cpu = "devuelve" \/ cpu = "ejecuta"
      /\ cpu' = "libre" /\ EnviaPcb("cpu_kernel")
      /\ corto' = corto /\ pedido' = pedido /\ queue_io' = queue_io /\ io_client' = io_client
      /\ interfaz' = interfaz /\ to_send' = to_send /\ consola' = consola /\ memoria' = memoria
  BY Zenon DEF CpuDevuelve, kernel_io, del_io
<1> DEFINE P == dicho["kernel_cpu"]
           K == dicho["cpu_kernel"]
<1>2. Red /\ Tratos /\ Turno(corto, cpu, P, K)
  BY Zenon DEF Inv, Turnos
<1>3. "cpu_kernel" \in {"kernel_cpu", "cpu_kernel"} /\ "kernel_cpu" # "cpu_kernel"
      /\ "cpu_kernel" \notin {"kernel_io", "io_kernel"} /\ cpu \in {"devuelve", "ejecuta"}
      /\ cpu \notin Esperables /\ cpu' \notin Esperables
  BY <1>1 DEF Esperables
<1>4. Red' /\ EsSeq(K) /\ \E x, m : m.op = "PCB" /\ Cambia("cpu_kernel", x, Append(K, m))
  BY <1>1, <1>2, <1>3, DicePcbMas, Zenon
<1>5. PICK x, m : m.op = "PCB" /\ Cambia("cpu_kernel", x, Append(K, m))
  BY <1>4, Zenon
<1> DEFINE y == Append(K, m)
<1>6. Turno(corto, "libre", P, y)
  BY <1>2, <1>3, <1>4, <1>5, TurnoDevuelve, Zenon
<1>7. Cambia("cpu_kernel", x, y)
  BY <1>5, Zenon
<1> HIDE DEF y
<1>8. Turno(corto', cpu', IF "cpu_kernel" = "kernel_cpu" THEN y ELSE P,
                          IF "cpu_kernel" = "cpu_kernel" THEN y ELSE K)
  BY <1>1, <1>3, <1>6, Zenon
<1> HIDE DEF P, K
<1>9. Atendidos' /\ Turnos'
  BY <1>1, <1>3, <1>4, <1>7, <1>8, EntreDos, Zenon DEF P, K
<1>10. Tratos'
  BY <1>1, <1>2, <1>3, <1>7, TratosAparte, Zenon
<1> QED
  BY <1>4, <1>9, <1>10, Zenon DEF Inv

\* What the request that was queued leaves.
LEMMA TratosPedido ==
    ASSUME Tratos, NEW c, c \notin {"kernel_io", "io_kernel"}, NEW x, NEW y, Cambia(c, x, y),
           interfaz' = interfaz, to_send' = to_send, io_client' = io_client,
           pedido' = SinPedido \/ Valido(pedido'),
           EsSeq(queue_io') /\ \A j \in 1 .. Len(queue_io') : Valido(queue_io'[j])
    PROVE  Tratos'
<1>1. c # "kernel_io" /\ c # "io_kernel" /\ "kernel_io" \in Canales /\ "io_kernel" \in Canales
  BY CanalesSon
<1>2. dicho'["kernel_io"] = dicho["kernel_io"] /\ dicho'["io_kernel"] = dicho["io_kernel"]
  BY <1>1, Zenon DEF Cambia
<1> QED
  BY <1>2, Zenon DEF Tratos

\* The kernel hears the process that follows a request, and queues the request.
LEMMA EsperarPcbInv == Inv /\ EsperarPcb => Inv'
<1> SUFFICES ASSUME Inv, EsperarPcb PROVE Inv'
  OBVIOUS
<1>1. /\ corto = "espera_pcb" /\ corto' = "manda" /\ RecibePcb("cpu_kernel")
      /\ pedido' = SinPedido
      /\ queue_io' = (IF pedido = SinPedido THEN queue_io ELSE Append(queue_io, pedido))
      /\ cpu' = cpu /\ io_client' = io_client
      /\ interfaz' = interfaz /\ to_send' = to_send /\ consola' = consola /\ memoria' = memoria
  BY Zenon DEF EsperarPcb, del_io
<1> DEFINE P == dicho["kernel_cpu"]
           K == dicho["cpu_kernel"]
<1>2. Red /\ Tratos /\ Turno("espera_pcb", cpu, P, K)
  BY <1>1, Zenon DEF Inv, Turnos
<1>3. "cpu_kernel" \in {"kernel_cpu", "cpu_kernel"} /\ "kernel_cpu" # "cpu_kernel"
      /\ "cpu_kernel" \in Idas /\ "cpu_kernel" \notin {"kernel_io", "io_kernel"}
  BY DeDispatch
<1>4. canal["cpu_kernel"] # <<>>
  BY <1>1, Zenon DEF RecibePcb, Recibe
<1>5. EsSeq(K) /\ K # <<>>
  BY <1>2, <1>3, <1>4, Primero, Zenon
<1>6. Head(K).op = "PCB" /\ Turno("manda", cpu, P, Tail(K))
  BY <1>2, <1>5, TurnoEsperaPcb, Zenon
<1>7. Red' /\ \E x : Cambia("cpu_kernel", x, Tail(K))
  BY <1>1, <1>2, <1>3, <1>6, OyePcb, Zenon
<1>8. PICK x : Cambia("cpu_kernel", x, Tail(K))
  BY <1>7, Zenon
<1>9. Turno(corto', cpu', IF "cpu_kernel" = "kernel_cpu" THEN Tail(K) ELSE P,
                          IF "cpu_kernel" = "cpu_kernel" THEN Tail(K) ELSE K)
  BY <1>1, <1>3, <1>6, Zenon
<1> HIDE DEF P, K
<1>10. Atendidos' /\ Turnos'
  BY <1>1, <1>3, <1>7, <1>8, <1>9, EntreDos, Zenon DEF P, K
<1>11. EsSeq(queue_io') /\ \A j \in 1 .. Len(queue_io') : Valido(queue_io'[j])
  <2>1. EsSeq(queue_io) /\ \A j \in 1 .. Len(queue_io) : Valido(queue_io[j])
    BY <1>2, Zenon DEF Tratos
  <2>2. CASE pedido = SinPedido
    BY <1>1, <2>1, <2>2, Zenon
  <2>3. CASE pedido # SinPedido
    <3> DEFINE n == Len(queue_io)
    <3>1. Valido(pedido) /\ queue_io' = Append(queue_io, pedido)
      BY <1>1, <1>2, <2>3, Zenon DEF Tratos
    <3>2. /\ Len(queue_io) \in Nat
          /\ \A m_1 : /\ EsSeq(Append(queue_io, m_1)) /\ Len(Append(queue_io, m_1)) = Len(queue_io) + 1
                      /\ Append(queue_io, m_1)[Len(queue_io) + 1] = m_1
                      /\ \A j \in 1 .. Len(queue_io) : Append(queue_io, m_1)[j] = queue_io[j]
      BY <2>1, Secuencia
    <3>3. n \in Nat /\ EsSeq(queue_io') /\ Len(queue_io') = n + 1 /\ queue_io'[n + 1] = pedido
          /\ \A j \in 1 .. n : queue_io'[j] = queue_io[j]
      BY <3>1, <3>2, Zenon
    <3> HIDE DEF n
    <3>4. \A j \in 1 .. n + 1 : j # n + 1 => j \in 1 .. n
      BY <3>3, Indices, Zenon
    <3>5. ASSUME NEW j \in 1 .. n + 1 PROVE Valido(queue_io'[j])
      BY <2>1, <3>1, <3>3, <3>4, Zenon DEF n
    <3> QED
      BY <3>3, <3>5, Zenon
  <2> QED
    BY <2>2, <2>3
<1>12. Tratos'
  BY <1>1, <1>2, <1>3, <1>8, <1>11, TratosPedido, Zenon
<1> QED
  BY <1>7, <1>10, <1>12, Zenon DEF Inv

\* What the kernel does with the first message of the CPU, by its operation.
LEMMA EsperarCpuSon ==
    ASSUME EsperarCpu
    PROVE  /\ corto = "espera" /\ cpu' = cpu /\ queue_io' = queue_io /\ io_client' = io_client
           /\ interfaz' = interfaz /\ to_send' = to_send /\ consola' = consola /\ memoria' = memoria
           /\ \/ /\ OpDe(canal["cpu_kernel"]) = "PCB"
                 /\ RecibePcb("cpu_kernel") /\ corto' = "manda" /\ pedido' = pedido
              \/ /\ OpDe(canal["cpu_kernel"]) = "IO"
                 /\ Recibe("cpu_kernel", TomaBuffer(canal["cpu_kernel"],
                                                    recibir_io(Buffer(canal["cpu_kernel"]))))
                 /\ corto' = "espera_pcb"
                 /\ \/ pedido' = SinPedido
                    \/ pedido' = [instr  |-> recibir_io(Buffer(canal["cpu_kernel"]))[1],
                                  buffer |-> recibir_io(Buffer(canal["cpu_kernel"]))[3],
                                  pide   |-> Head(dicho["cpu_kernel"]).pide]
              \/ /\ OpDe(canal["cpu_kernel"]) \in {"WAIT_RECURSO", "SIGNAL_RECURSO"}
                 /\ Recibe("cpu_kernel", TomaBuffer(canal["cpu_kernel"],
                                                    <<Buffer(canal["cpu_kernel"])>>))
                 /\ corto' = "espera_pcb" /\ pedido' = pedido
<1>1. /\ corto = "espera" /\ cpu' = cpu /\ queue_io' = queue_io /\ io_client' = io_client
      /\ interfaz' = interfaz /\ to_send' = to_send /\ consola' = consola /\ memoria' = memoria
  BY Zenon DEF EsperarCpu, del_io
<1> DEFINE b == canal["cpu_kernel"]
           o == OpDe(b)
<1>2. CASE o = "PCB"
  BY <1>1, <1>2 DEF EsperarCpu
<1>3. CASE o = "IO"
  BY <1>1, <1>3 DEF EsperarCpu
<1>4. CASE o \in {"WAIT_RECURSO", "SIGNAL_RECURSO"}
  BY <1>1, <1>4 DEF EsperarCpu
<1>5. CASE o \notin {"PCB", "IO", "WAIT_RECURSO", "SIGNAL_RECURSO"}
  BY <1>5 DEF EsperarCpu
<1> QED
  BY <1>2, <1>3, <1>4, <1>5

\* The kernel hears the first message of the CPU.
LEMMA EsperarCpuInv == Inv /\ EsperarCpu => Inv'
<1> SUFFICES ASSUME Inv, EsperarCpu PROVE Inv'
  OBVIOUS
<1> DEFINE P == dicho["kernel_cpu"]
           K == dicho["cpu_kernel"]
           z == canal["cpu_kernel"]
           h == Head(K)
           io == TomaBuffer(z, recibir_io(Buffer(z)))
           sem == TomaBuffer(z, <<Buffer(z)>>)
           apunta == [instr  |-> recibir_io(Buffer(z))[1],
                      buffer |-> recibir_io(Buffer(z))[3], pide |-> h.pide]
<1>1. /\ corto = "espera" /\ cpu' = cpu /\ queue_io' = queue_io /\ io_client' = io_client
      /\ interfaz' = interfaz /\ to_send' = to_send /\ consola' = consola /\ memoria' = memoria
      /\ \/ /\ OpDe(z) = "PCB"
            /\ RecibePcb("cpu_kernel") /\ corto' = "manda" /\ pedido' = pedido
         \/ /\ OpDe(z) = "IO"
            /\ Recibe("cpu_kernel", io) /\ corto' = "espera_pcb"
            /\ pedido' = SinPedido \/ pedido' = apunta
         \/ /\ OpDe(z) \in {"WAIT_RECURSO", "SIGNAL_RECURSO"}
            /\ Recibe("cpu_kernel", sem) /\ corto' = "espera_pcb" /\ pedido' = pedido
  BY EsperarCpuSon, Zenon
<1>2. Red /\ Tratos /\ Turno("espera", cpu, P, K)
  BY <1>1, Zenon DEF Inv, Turnos
<1>3. "cpu_kernel" \in {"kernel_cpu", "cpu_kernel"} /\ "kernel_cpu" # "cpu_kernel"
      /\ "cpu_kernel" \in Idas /\ "cpu_kernel" \notin {"kernel_io", "io_kernel"}
  BY DeDispatch
<1>4. z # <<>>
  BY <1>1, Zenon DEF RecibePcb, Recibe
<1>5. EsSeq(K) /\ K # <<>>
      /\ \E b \in Octetos, t \in Octetos :
            /\ z = b \o t /\ Dijo("cpu_kernel", interfaz.tipo, b, h)
            /\ Suena("cpu_kernel", interfaz.tipo, t, Tail(K))
  BY <1>2, <1>3, <1>4, Primero, Zenon
<1>6. PICK b \in Octetos, t \in Octetos :
            /\ z = b \o t /\ Dijo("cpu_kernel", interfaz.tipo, b, h)
            /\ Suena("cpu_kernel", interfaz.tipo, t, Tail(K))
  BY <1>5, Zenon
<1>7. \/ h.op = "PCB" /\ Turno("manda", cpu, P, Tail(K))
      \/ h.op \in Pide /\ Turno("espera_pcb", cpu, P, Tail(K))
  BY <1>2, <1>5, TurnoEspera, Zenon
<1> HIDE DEF io, sem, apunta
<1>8. \/ DicePcb(b, h) /\ h.op = "PCB" /\ OpDe(z) = "PCB"
      \/ DiceIo(b, h) /\ h.op = "IO" /\ OpDe(z) = "IO"
      \/ DiceSemaforo(b, h) /\ h.op = OpDe(z) /\ h.op \in {"WAIT_RECURSO", "SIGNAL_RECURSO"}
  <2>1. DicePcb(b, h) \/ DiceIo(b, h) \/ DiceSemaforo(b, h)
    BY <1>6, DijoPor, Zenon
  <2>2. DicePcb(b, h) => h.op = "PCB" /\ OpDe(z) = "PCB"
    BY <1>6, LeePcb, Zenon
  <2>3. DiceIo(b, h) => h.op = "IO" /\ OpDe(z) = "IO"
    BY <1>6, LeeIo, Zenon
  <2>4. DiceSemaforo(b, h) => h.op = OpDe(z) /\ h.op \in {"WAIT_RECURSO", "SIGNAL_RECURSO"}
    BY <1>6, LeeSemaforo, Zenon
  <2> QED
    BY <2>1, <2>2, <2>3, <2>4, Zenon
<1>9. Valido(pedido) \/ pedido = SinPedido
  BY <1>2, Zenon DEF Tratos
<1> DEFINE Bien == /\ Red' /\ \E x : Cambia("cpu_kernel", x, Tail(K))
                   /\ Turno(corto', cpu', P, Tail(K))
                   /\ Valido(pedido') \/ pedido' = SinPedido
<1>10. ASSUME DicePcb(b, h) /\ h.op = "PCB" /\ OpDe(z) = "PCB"
       PROVE  Bien
  <2>1. "PCB" # "IO" /\ "PCB" \notin {"WAIT_RECURSO", "SIGNAL_RECURSO"} /\ "PCB" \notin Pide
    BY DEF Pide
  <2>2. RecibePcb("cpu_kernel") /\ corto' = "manda" /\ pedido' = pedido
        /\ Turno("manda", cpu, P, Tail(K))
    BY <1>1, <1>7, <1>10, <2>1, Zenon
  <2>3. Red' /\ \E x : Cambia("cpu_kernel", x, Tail(K))
    BY <1>1, <1>2, <1>3, <1>10, <2>2, OyePcb, Zenon
  <2> QED
    BY <1>1, <1>9, <2>2, <2>3, Zenon
<1>11. ASSUME DiceIo(b, h) /\ h.op = "IO" /\ OpDe(z) = "IO"
       PROVE  Bien
  <2>1. "IO" # "PCB" /\ "IO" \notin {"WAIT_RECURSO", "SIGNAL_RECURSO"}
    OBVIOUS
  <2>2. Recibe("cpu_kernel", io) /\ corto' = "espera_pcb"
        /\ (pedido' = SinPedido \/ pedido' = apunta) /\ Turno("espera_pcb", cpu, P, Tail(K))
    BY <1>1, <1>7, <1>11, <2>1, Zenon
  <2>3. Justo(io, b, h)
        /\ \E s \in Cadenas, p \in PedidosIo :
              /\ recibir_io(Buffer(z)) = <<U32("instr", p.op), Cadena("nombre", s), Contenido(p)>>
              /\ h.pide = p
    <3>1. Justo(TomaBuffer(z, recibir_io(Buffer(z))), b, h) /\ IoLeido(z, h)
      BY <1>6, <1>11, LeeIo, Zenon
    <3> QED
      BY <3>1, Zenon DEF io, IoLeido
  <2>4. PICK s \in Cadenas, p \in PedidosIo :
              /\ recibir_io(Buffer(z)) = <<U32("instr", p.op), Cadena("nombre", s), Contenido(p)>>
              /\ h.pide = p
    BY <2>3, Zenon
  <2>5. Valido(apunta)
    <3> DEFINE u == U32("instr", p.op)
               v == Cadena("nombre", s)
               w == Contenido(p)
               r == recibir_io(Buffer(z))
    <3>1. r = <<u, v, w>>
      BY <2>4, Zenon
    <3>2. apunta = [instr |-> r[1], buffer |-> r[3], pide |-> p]
      BY <2>4, Zenon DEF apunta
    <3> HIDE DEF u, v, w, r
    <3>3. r[1] = u /\ r[3] = w
      BY <3>1
    <3>4. apunta.instr = u /\ apunta.buffer = w /\ apunta.pide = p
      BY <3>2, <3>3
    <3> QED
      BY <3>4, Zenon DEF Valido, u, w
  <2>6. Red' /\ Cambia("cpu_kernel", t, Tail(K))
    BY <1>1, <1>2, <1>3, <1>5, <1>6, <2>2, <2>3, OyePrimero, Zenon
  <2> QED
    BY <1>1, <2>2, <2>5, <2>6, Zenon
<1>12. ASSUME DiceSemaforo(b, h) /\ h.op = OpDe(z) /\ h.op \in {"WAIT_RECURSO", "SIGNAL_RECURSO"}
       PROVE  Bien
  <2>1. h.op # "PCB" /\ h.op # "IO"
    BY <1>12
  <2>2. Recibe("cpu_kernel", sem) /\ corto' = "espera_pcb" /\ pedido' = pedido
        /\ Turno("espera_pcb", cpu, P, Tail(K))
    BY <1>1, <1>7, <1>12, <2>1, Zenon
  <2>3. Justo(sem, b, h)
    BY <1>6, <1>12, LeeSemaforo, Zenon DEF sem
  <2>4. Red' /\ Cambia("cpu_kernel", t, Tail(K))
    BY <1>1, <1>2, <1>3, <1>5, <1>6, <2>2, <2>3, OyePrimero, Zenon
  <2> QED
    BY <1>1, <1>9, <2>2, <2>4, Zenon
<1>13. Bien
  BY <1>8, <1>10, <1>11, <1>12, Zenon
<1>14. PICK x : Cambia("cpu_kernel", x, Tail(K))
  BY <1>13, Zenon
<1>15. Red' /\ Turno(corto', cpu', P, Tail(K)) /\ (Valido(pedido') \/ pedido' = SinPedido)
  BY <1>13, Zenon
<1>16. Turno(corto', cpu', IF "cpu_kernel" = "kernel_cpu" THEN Tail(K) ELSE P,
                           IF "cpu_kernel" = "cpu_kernel" THEN Tail(K) ELSE K)
  BY <1>3, <1>15, Zenon
<1> HIDE DEF P, K, Bien
<1>17. Atendidos' /\ Turnos'
  BY <1>1, <1>3, <1>14, <1>15, <1>16, EntreDos, Zenon DEF P, K
<1>18. EsSeq(queue_io') /\ \A j \in 1 .. Len(queue_io') : Valido(queue_io'[j])
  BY <1>1, <1>2, Zenon DEF Tratos
<1>19. Tratos'
  BY <1>1, <1>2, <1>3, <1>14, <1>15, <1>18, TratosPedido, Zenon
<1> QED
  BY <1>15, <1>17, <1>19, Zenon DEF Inv

-----------------------------------------------------------------------------
(* Every step on the interrupt connection, of the console and of memoria.  *)

\* The interrupt connection is of no one else, and that of the kernel with
\* memoria is not of the dispatch nor of the interface.
LEMMA DeOtros ==
    /\ "interrupt" \in Idas /\ "interrupt" \notin Range(A) /\ "interrupt" \notin Range(De)
    /\ \A k \in Clientes : \A c \in {A[k], De[k]} :
        c \in Canales /\ c \notin {"kernel_cpu", "cpu_kernel"} /\ c \notin {"kernel_io", "io_kernel"}
    /\ \A k \in Clientes : A[k] \in Range(A)
  BY CanalesSon DEF Clientes

\* Something that disturbs nobody is said or heard.
LEMMA Inofensivo ==
    ASSUME Inv, Red', NEW x, NEW y, Cambia("interrupt", x, y),
           cpu' = cpu, corto' = corto, pedido' = pedido, queue_io' = queue_io,
           io_client' = io_client, interfaz' = interfaz, to_send' = to_send,
           consola' = consola, memoria' = memoria
    PROVE  Inv'
<1>1. "interrupt" \notin {"kernel_cpu", "cpu_kernel"} /\ "interrupt" \notin {"kernel_io", "io_kernel"}
  OBVIOUS
<1>2. Atendidos'
  BY DeOtros, EsperaAparte, AtendidosAparte, Zenon DEF Inv
<1>3. Turnos'
  BY <1>1, TurnosAparte, Zenon DEF Inv
<1>4. Tratos'
  BY <1>1, TratosAparte, Zenon DEF Inv
<1> QED
  BY <1>2, <1>3, <1>4, Zenon DEF Inv

\* The kernel interrupts.
LEMMA InterrumpeInv == Inv /\ Interrumpe => Inv'
<1> SUFFICES ASSUME Inv, Interrumpe PROVE Inv'
  OBVIOUS
<1>1. /\ cpu' = cpu /\ corto' = corto /\ pedido' = pedido /\ queue_io' = queue_io
      /\ io_client' = io_client
      /\ interfaz' = interfaz /\ to_send' = to_send /\ consola' = consola /\ memoria' = memoria
  BY Zenon DEF Interrumpe, dispatch, kernel_io, del_io
<1>2. PICK p \in Pids, op \in {"INTERRUPT", "END_PID_USER"} :
        Envia("interrupt", Paquete(op, U32("pid", p)), Dice(op, <<U32("pid", p)>>))
  BY Zenon DEF Interrumpe
<1> DEFINE b == Paquete(op, U32("pid", p))
           m == Dice(op, <<U32("pid", p)>>)
<1>3. Dijo("interrupt", interfaz.tipo, b, m) /\ Envia("interrupt", b, m)
  BY <1>2, Zenon DEF Dijo, DiceInterrupcion
<1> HIDE DEF b, m
<1>4. Red' /\ Cambia("interrupt", canal["interrupt"] \o b, Append(dicho["interrupt"], m))
  BY <1>1, <1>3, DeOtros, DiceMas, Zenon DEF Inv
<1> QED
  BY <1>1, <1>4, Inofensivo, Zenon

\* The thread of the CPU hears an interruption.
LEMMA OyeInterrupcionInv == Inv /\ OyeInterrupcion => Inv'
<1> SUFFICES ASSUME Inv, OyeInterrupcion PROVE Inv'
  OBVIOUS
<1> DEFINE z == canal["interrupt"]
           ds == dicho["interrupt"]
           toma == Toma(12, OpDe(z), <<Trozo(z, 8, 4)>>)
<1>1. /\ Recibe("interrupt", toma)
      /\ cpu' = cpu /\ corto' = corto /\ pedido' = pedido /\ queue_io' = queue_io
      /\ io_client' = io_client
      /\ interfaz' = interfaz /\ to_send' = to_send /\ consola' = consola /\ memoria' = memoria
  BY Zenon DEF OyeInterrupcion, dispatch, kernel_io, del_io
<1>2. z # <<>>
  BY <1>1, Zenon DEF Recibe
<1>3. ds # <<>> /\ \E b \in Octetos, t \in Octetos :
            /\ z = b \o t /\ Dijo("interrupt", interfaz.tipo, b, Head(ds))
            /\ Suena("interrupt", interfaz.tipo, t, Tail(ds))
  BY <1>2, DeOtros, Primero, Zenon DEF Inv
<1>4. PICK b \in Octetos, t \in Octetos :
            /\ z = b \o t /\ Dijo("interrupt", interfaz.tipo, b, Head(ds))
            /\ Suena("interrupt", interfaz.tipo, t, Tail(ds))
  BY <1>3, Zenon
<1>5. DiceInterrupcion(b, Head(ds))
  BY <1>4, DijoPor, Zenon
<1>6. Justo(toma, b, Head(ds))
  BY <1>4, <1>5, LeeInterrupcion, Zenon
<1> HIDE DEF toma
<1>7. Red' /\ Cambia("interrupt", t, Tail(ds))
  BY <1>1, <1>3, <1>4, <1>6, DeOtros, OyePrimero, Zenon DEF Inv
<1> QED
  BY <1>1, <1>7, Inofensivo, Zenon

\* A step of the client of memoria that is not the CPU leaves the rest as it was.
LEMMA FueraDeMemoria ==
    ASSUME Inv, Red', Atendidos', NEW k \in Clientes, NEW c \in {A[k], De[k]}, NEW x, NEW y,
           Cambia(c, x, y),
           cpu' = cpu, corto' = corto, pedido' = pedido, queue_io' = queue_io,
           io_client' = io_client, interfaz' = interfaz, to_send' = to_send
    PROVE  Inv'
<1>1. c \notin {"kernel_cpu", "cpu_kernel"} /\ c \notin {"kernel_io", "io_kernel"}
  BY DeOtros, Zenon
<1>2. Turnos'
  BY <1>1, TurnosAparte, Zenon DEF Inv
<1>3. Tratos'
  BY <1>1, TratosAparte, Zenon DEF Inv
<1> QED
  BY <1>2, <1>3, Zenon DEF Inv

\* The other clients do not move when the console does.
LEMMA OtrosConsola ==
    ASSUME cpu' = cpu, interfaz' = interfaz
    PROVE  \A j \in Clientes : j # "kernel" => Espera'[j] = Espera[j]
<1>1. Espera'["cpu"] = Espera["cpu"] /\ Espera'["io"] = Espera["io"]
  BY EsperaDa, Zenon
<1>2. \A j \in Clientes : j # "kernel" => j = "cpu" \/ j = "io"
  BY DEF Clientes
<1> QED
  BY <1>1, <1>2, Zenon

\* The console asks memoria.
LEMMA ConsolaPideInv == Inv /\ ConsolaPide => Inv'
<1> SUFFICES ASSUME Inv, ConsolaPide PROVE Inv'
  OBVIOUS
<1>1. /\ consola = "libre"
      /\ cpu' = cpu /\ corto' = corto /\ pedido' = pedido /\ queue_io' = queue_io
      /\ io_client' = io_client /\ interfaz' = interfaz /\ to_send' = to_send /\ memoria' = memoria
  BY Zenon DEF ConsolaPide, dispatch, kernel_io, del_io
<1>2. PICK m \in PedidosKernel : Envia("kernel_mem", PaqueteMem(m), m) /\ consola' = m.op
  BY Zenon DEF ConsolaPide
<1> DEFINE b == PaqueteMem(m)
<1>3. m.op \in {"INIT_PID", "INIT_SCRIPT"} /\ m.op \in Pedibles /\ m.op # "libre"
  <2>1. m.op \in {"INIT_PID", "INIT_SCRIPT"}
    BY Vacia, PedidosKernelDa, Zenon
  <2> QED
    BY <2>1 DEF Pedibles
<1>4. "kernel" \in Clientes /\ A["kernel"] = "kernel_mem"
  BY CanalesSon DEF Clientes
<1>5. Dijo(A["kernel"], interfaz.tipo, b, m)
  BY <1>4, DeOtros, Zenon DEF Dijo, DiceMem
<1>6. Envia(A["kernel"], b, m)
  BY <1>2, <1>4, Zenon
<1> HIDE DEF b
<1>7. Espera["kernel"] = "" /\ Espera'["kernel"] = m.op
  BY <1>1, <1>2, <1>3, EsperaDa, Zenon
<1>8. \A j \in Clientes : j # "kernel" => Espera'[j] = Espera[j]
  BY <1>1, OtrosConsola, Zenon
<1>9. consola' \in {"libre", "INIT_PID", "INIT_SCRIPT"}
  BY <1>2, <1>3
<1> DEFINE x == canal[A["kernel"]] \o b
           y == Append(dicho[A["kernel"]], m)
<1>10. Red' /\ Atendidos' /\ Cambia(A["kernel"], x, y)
  BY <1>1, <1>3, <1>4, <1>5, <1>6, <1>7, <1>8, <1>9, ClientePide, Zenon DEF Inv
<1> HIDE DEF x, y
<1>11. A["kernel"] \in {A["kernel"], De["kernel"]}
  OBVIOUS
<1> QED
  BY <1>1, <1>4, <1>10, <1>11, FueraDeMemoria, Zenon

\* The console gets its answer.
LEMMA ConsolaObtieneInv == Inv /\ ConsolaObtiene => Inv'
<1> SUFFICES ASSUME Inv, ConsolaObtiene PROVE Inv'
  OBVIOUS
<1>1. /\ consola # "libre" /\ consola' = "libre"
      /\ Recibe("mem_kernel", recibir_respuesta(consola, canal["mem_kernel"]))
      /\ cpu' = cpu /\ corto' = corto /\ pedido' = pedido /\ queue_io' = queue_io
      /\ io_client' = io_client /\ interfaz' = interfaz /\ to_send' = to_send /\ memoria' = memoria
  BY Zenon DEF ConsolaObtiene, dispatch, kernel_io, del_io
<1>2. "kernel" \in Clientes /\ De["kernel"] = "mem_kernel"
  BY CanalesSon DEF Clientes
<1>3. Espera["kernel"] = consola /\ Espera'["kernel"] = ""
  BY <1>1, EsperaDa, Zenon
<1>4. \A j \in Clientes : j # "kernel" => Espera'[j] = Espera[j]
  BY <1>1, OtrosConsola, Zenon
<1>5. consola' \in {"libre", "INIT_PID", "INIT_SCRIPT"}
  BY <1>1
<1>6. Recibe(De["kernel"], recibir_respuesta(Espera["kernel"], canal[De["kernel"]]))
  BY <1>1, <1>2, <1>3, Zenon
<1>7. Red' /\ Atendidos' /\ Cambia(De["kernel"], <<>>, <<>>)
  BY <1>1, <1>2, <1>3, <1>4, <1>5, <1>6, ClienteObtiene, Zenon DEF Inv
<1>8. De["kernel"] \in {A["kernel"], De["kernel"]}
  OBVIOUS
<1> QED
  BY <1>1, <1>2, <1>7, <1>8, FueraDeMemoria, Zenon

\* The end of a process is told to memoria on the connection of the console.
LEMMA FinalizaProcesoInv == Inv /\ FinalizaProceso => Inv'
<1> SUFFICES ASSUME Inv, FinalizaProceso PROVE Inv'
  OBVIOUS
<1>1. /\ cpu' = cpu /\ corto' = corto /\ pedido' = pedido /\ queue_io' = queue_io
      /\ io_client' = io_client /\ interfaz' = interfaz /\ to_send' = to_send
      /\ consola' = consola /\ memoria' = memoria
  BY Zenon DEF FinalizaProceso, dispatch, kernel_io, del_io
<1>2. PICK p \in Pids : Envia("kernel_mem", Paquete("END_PID", U32("pid", p)),
                              Dice("END_PID", <<U32("pid", p)>>))
  BY Zenon DEF FinalizaProceso
<1> DEFINE b == Paquete("END_PID", U32("pid", p))
           m == Dice("END_PID", <<U32("pid", p)>>)
<1>3. Dijo("kernel_mem", interfaz.tipo, b, m) /\ Envia("kernel_mem", b, m)
  BY <1>2, Zenon DEF Dijo, DiceFin
<1>4. m.op = "END_PID"
  BY DEF Dice
<1> HIDE DEF b, m
<1>5. "kernel" \in Clientes /\ A["kernel"] = "kernel_mem" /\ "kernel_mem" \in Idas
      /\ De["kernel"] \in Canales /\ De["kernel"] # "kernel_mem"
  BY CanalesSon DEF Clientes
<1> DEFINE x == canal["kernel_mem"] \o b
           y == Append(dicho["kernel_mem"], m)
<1>6. Red' /\ EsSeq(dicho["kernel_mem"]) /\ Cambia("kernel_mem", x, y)
  BY <1>1, <1>3, <1>5, DiceMas, Zenon DEF Inv
<1>7. Atendido(dicho["kernel_mem"], Espera["kernel"], memoria["kernel"],
               canal[De["kernel"]], dicho[De["kernel"]])
  BY <1>5, Zenon DEF Inv, Atendidos
<1>8. Atendido(y, Espera["kernel"], memoria["kernel"], canal[De["kernel"]], dicho[De["kernel"]])
  BY <1>4, <1>6, <1>7, AtendidoFin, Zenon
<1> HIDE DEF x, y
<1>9. Espera' = Espera
  BY <1>1, EsperaAparte, Zenon
<1>10. dicho'["kernel_mem"] = y /\ canal'[De["kernel"]] = canal[De["kernel"]]
       /\ dicho'[De["kernel"]] = dicho[De["kernel"]]
  BY <1>5, <1>6, Zenon DEF Cambia
<1>11. Atendido(dicho'[A["kernel"]], Espera'["kernel"], memoria'["kernel"],
                canal'[De["kernel"]], dicho'[De["kernel"]])
  BY <1>1, <1>5, <1>8, <1>9, <1>10, Zenon
<1>12. /\ DOMAIN memoria' = Clientes /\ consola' \in {"libre", "INIT_PID", "INIT_SCRIPT"}
       /\ \A j \in Clientes : j # "kernel" => memoria'[j] = memoria[j] /\ Espera'[j] = Espera[j]
  BY <1>1, <1>9, Zenon DEF Inv, Atendidos
<1>13. A["kernel"] \in {A["kernel"], De["kernel"]} /\ Cambia(A["kernel"], x, y)
  <2>1. A["kernel"] \in {A["kernel"], De["kernel"]}
    OBVIOUS
  <2> QED
    BY <1>5, <1>6, <2>1, Zenon
<1>14. Atendidos'
  BY <1>5, <1>11, <1>12, <1>13, AtendidosCambia, Zenon DEF Inv
<1> QED
  BY <1>1, <1>5, <1>6, <1>13, <1>14, FueraDeMemoria, Zenon

\* A thread of memoria hears its client.
LEMMA MemRecibeInv ==
    ASSUME Inv, NEW k \in Clientes, MemRecibe(k)
    PROVE  Inv'
<1> DEFINE z == canal[A[k]]
           ds == dicho[A[k]]
           toma == recibir_mem(z)
           f == IF toma.m.op = "END_PID" THEN "" ELSE toma.m.op
           g == IF Head(ds).op = "END_PID" THEN "" ELSE Head(ds).op
<1>1. /\ memoria[k] = "" /\ Recibe(A[k], toma) /\ memoria' = [memoria EXCEPT ![k] = f]
      /\ cpu' = cpu /\ corto' = corto /\ pedido' = pedido /\ queue_io' = queue_io
      /\ io_client' = io_client
      /\ interfaz' = interfaz /\ to_send' = to_send /\ consola' = consola
  BY Zenon DEF MemRecibe, dispatch, kernel_io, del_io
<1>2. A[k] \in Idas /\ De[k] \in Canales /\ De[k] # A[k] /\ A[k] \in Range(A)
  BY CanalesSon, DeOtros, Zenon
<1>3. z # <<>>
  BY <1>1, Zenon DEF Recibe
<1>4. EsSeq(ds) /\ ds # <<>> /\ \E b \in Octetos, t \in Octetos :
            /\ z = b \o t /\ Dijo(A[k], interfaz.tipo, b, Head(ds))
            /\ Suena(A[k], interfaz.tipo, t, Tail(ds))
  BY <1>2, <1>3, Primero, Zenon DEF Inv
<1>5. PICK b \in Octetos, t \in Octetos :
            /\ z = b \o t /\ Dijo(A[k], interfaz.tipo, b, Head(ds))
            /\ Suena(A[k], interfaz.tipo, t, Tail(ds))
  BY <1>4, Zenon
<1>6. DicePagina(b, Head(ds)) \/ DiceMem(b, Head(ds)) \/ DiceFin(b, Head(ds))
  BY <1>2, <1>5, DijoPor, Zenon
<1>7. Justo(toma, b, Head(ds))
  BY <1>5, <1>6, LeePagina, LeeMem, LeeFin, Zenon DEF MemLeido
<1>8. f = g
  BY <1>7, Zenon DEF Justo
<1> HIDE DEF toma, f
<1>9. Red' /\ Cambia(A[k], t, Tail(ds))
  BY <1>1, <1>2, <1>4, <1>5, <1>7, OyePrimero, Zenon DEF Inv
<1>10. Atendido(ds, Espera[k], memoria[k], canal[De[k]], dicho[De[k]])
  BY Zenon DEF Inv, Atendidos
<1>11. Atendido(Tail(ds), Espera[k], g, canal[De[k]], dicho[De[k]])
  BY <1>1, <1>4, <1>10, AtendidoRecibe, Zenon
<1> DEFINE y == Tail(ds)
<1> HIDE DEF g
<1>12. dicho'[A[k]] = y /\ canal'[De[k]] = canal[De[k]] /\ dicho'[De[k]] = dicho[De[k]]
  BY <1>2, <1>9, Zenon DEF Cambia
<1>13. Espera' = Espera
  BY <1>1, EsperaAparte, Zenon
<1>14. DOMAIN memoria = Clientes /\ consola' \in {"libre", "INIT_PID", "INIT_SCRIPT"}
  BY <1>1, Zenon DEF Inv, Atendidos
<1>15. /\ DOMAIN memoria' = Clientes /\ memoria'[k] = f
       /\ \A j \in Clientes : j # k => memoria'[j] = memoria[j]
  BY <1>1, <1>14, Zenon
<1>16. Atendido(dicho'[A[k]], Espera'[k], memoria'[k], canal'[De[k]], dicho'[De[k]])
  BY <1>8, <1>11, <1>12, <1>13, <1>15, Zenon
<1>17. \A j \in Clientes : j # k => memoria'[j] = memoria[j] /\ Espera'[j] = Espera[j]
  BY <1>13, <1>15, Zenon
<1>18. A[k] \in {A[k], De[k]}
  OBVIOUS
<1> HIDE DEF y, z
<1>19. Atendidos'
  BY <1>9, <1>14, <1>15, <1>16, <1>17, <1>18, AtendidosCambia, Zenon DEF Inv
<1> QED
  BY <1>1, <1>9, <1>18, <1>19, FueraDeMemoria, Zenon

\* The first message of an empty connection.
LEMMA AgregaAVacia == \A m : Append(<<>>, m) = <<m>>
  OBVIOUS

\* It answers.
LEMMA MemRespondeInv ==
    ASSUME Inv, NEW k \in Clientes, MemResponde(k)
    PROVE  Inv'
<1>1. /\ memoria[k] # "" /\ memoria' = [memoria EXCEPT ![k] = ""]
      /\ cpu' = cpu /\ corto' = corto /\ pedido' = pedido /\ queue_io' = queue_io
      /\ io_client' = io_client
      /\ interfaz' = interfaz /\ to_send' = to_send /\ consola' = consola
  BY Zenon DEF MemResponde, dispatch, kernel_io, del_io
<1>2. PICK r \in Respuestas(memoria[k]) : Envia(De[k], r.bytes, r.dicho)
  BY Zenon DEF MemResponde
<1>3. A[k] \in Canales /\ De[k] \in Canales /\ De[k] # A[k] /\ De[k] \notin Idas
  BY CanalesSon, Zenon DEF Idas
<1>4. Atendido(dicho[A[k]], Espera[k], memoria[k], canal[De[k]], dicho[De[k]])
  BY Zenon DEF Inv, Atendidos
<1>5. /\ memoria[k] \in Pedibles /\ canal[De[k]] = <<>> /\ dicho[De[k]] = <<>>
      /\ Atendido(dicho[A[k]], Espera[k], "", r.bytes, <<r.dicho>>)
  BY <1>1, <1>4, AtendidoResponde, Zenon
<1>6. r.bytes \in Octetos
  BY <1>5, RespuestaDa, Zenon DEF Pedibles, RespuestaBien
<1>7. Sanos
  BY Zenon DEF Inv, Red, Sanos
<1>8. Cambia(De[k], canal[De[k]] \o r.bytes, Append(dicho[De[k]], r.dicho))
  BY <1>2, <1>3, <1>6, <1>7, EnviaCambia, Zenon
<1>9. <<>> \o r.bytes = r.bytes
  BY <1>6, Vacia, Pega, Zenon
<1>10. \A m : Append(<<>>, m) = <<m>>
  BY AgregaAVacia, Zenon
<1> DEFINE y == <<r.dicho>>
<1>11. Cambia(De[k], r.bytes, y)
  BY <1>5, <1>8, <1>9, <1>10, Zenon
<1> HIDE DEF y
<1>12. Red'
  BY <1>1, <1>3, <1>11, RedCambia, Zenon DEF Inv
<1>13. dicho'[A[k]] = dicho[A[k]] /\ canal'[De[k]] = r.bytes /\ dicho'[De[k]] = y
  BY <1>3, <1>11, Zenon DEF Cambia
<1>14. Espera' = Espera
  BY <1>1, EsperaAparte, Zenon
<1>15. DOMAIN memoria = Clientes /\ consola' \in {"libre", "INIT_PID", "INIT_SCRIPT"}
  BY <1>1, Zenon DEF Inv, Atendidos
<1>16. /\ DOMAIN memoria' = Clientes /\ memoria'[k] = ""
       /\ \A j \in Clientes : j # k => memoria'[j] = memoria[j]
  BY <1>1, <1>15, Zenon
<1>17. Atendido(dicho'[A[k]], Espera'[k], memoria'[k], canal'[De[k]], dicho'[De[k]])
  BY <1>5, <1>13, <1>14, <1>16, Zenon DEF y
<1>18. \A j \in Clientes : j # k => memoria'[j] = memoria[j] /\ Espera'[j] = Espera[j]
  BY <1>14, <1>16, Zenon
<1>19. De[k] \in {A[k], De[k]}
  OBVIOUS
<1>20. Atendidos'
  BY <1>11, <1>15, <1>16, <1>17, <1>18, <1>19, AtendidosCambia, Zenon DEF Inv
<1> QED
  BY <1>1, <1>11, <1>12, <1>19, <1>20, FueraDeMemoria, Zenon

-----------------------------------------------------------------------------
(* Every step of the interface and of its thread in the kernel.            *)

\* The interface says its name.
LEMMA TratoSaluda ==
    ASSUME NEW cliente, NEW KI, NEW IK, EsSeq(IK), NEW m, m.op = "MENSAJE",
           Trato(cliente, "saluda", KI, IK)
    PROVE  Trato(cliente, "libre", KI, Append(IK, m))
<1>1. cliente = "nuevo" /\ KI = <<>> /\ IK = <<>>
  BY DEF Trato, Ocupada
<1>2. Len(Append(IK, m)) = 1 /\ Append(IK, m)[1] = m
  BY <1>1, UnaODos, Zenon
<1>3. Es(Append(IK, m)[1], {"MENSAJE"})
  BY <1>2 DEF Es
<1> QED
  BY <1>1, <1>2, <1>3, Zenon DEF Trato

\* Its thread hears it.
LEMMA TratoConoce ==
    ASSUME NEW en, NEW KI, NEW IK, EsSeq(IK), IK # <<>>, Trato("nuevo", en, KI, IK)
    PROVE  Head(IK).op = "MENSAJE" /\ Trato("atiende", en, KI, Tail(IK))
<1>1. en = "libre" /\ KI = <<>> /\ Len(IK) = 1 /\ Es(IK[1], {"MENSAJE"})
  BY DEF Trato
<1>2. Head(IK) = IK[1] /\ Tail(IK) = <<>>
  BY <1>1, UnaODos, Zenon
<1>3. Head(IK).op = "MENSAJE"
  BY <1>1, <1>2 DEF Es
<1> QED
  BY <1>1, <1>2, <1>3, Zenon DEF Trato

\* It passes a request on.
LEMMA TratoManda ==
    ASSUME NEW en, NEW KI, EsSeq(KI), NEW IK, NEW m, Trato("atiende", en, KI, IK)
    PROVE  Trato("espera", en, Append(KI, m), IK)
<1>1. en = "libre" /\ KI = <<>> /\ IK = <<>>
  BY DEF Trato
<1>2. Len(Append(KI, m)) = 1
  BY <1>1, UnaODos, Zenon
<1> QED
  BY <1>1, <1>2, Zenon DEF Trato

\* It hears the answer.
LEMMA TratoOye ==
    ASSUME NEW en, NEW KI, NEW IK, EsSeq(IK), IK # <<>>, Trato("espera", en, KI, IK)
    PROVE  Head(IK).op \in {"IO_SUCCESS", "IO_ERROR"} /\ Trato("atiende", en, KI, Tail(IK))
<1>1. en = "libre" /\ KI = <<>> /\ Len(IK) = 1 /\ Es(IK[1], {"IO_SUCCESS", "IO_ERROR"})
  BY DEF Trato
<1>2. Head(IK) = IK[1] /\ Tail(IK) = <<>>
  BY <1>1, UnaODos, Zenon
<1>3. Head(IK).op \in {"IO_SUCCESS", "IO_ERROR"}
  BY <1>1, <1>2 DEF Es
<1> QED
  BY <1>1, <1>2, <1>3, Zenon DEF Trato

\* The interface takes a request, works and answers.
LEMMA TratoRecibe ==
    ASSUME NEW cliente, NEW KI, EsSeq(KI), KI # <<>>, NEW IK, Trato(cliente, "libre", KI, IK),
           NEW en \in Ocupada
    PROVE  Trato(cliente, en, Tail(KI), IK)
<1>1. cliente = "espera" /\ Len(KI) = 1 /\ IK = <<>>
  BY DEF Trato, Ocupada
<1>2. Tail(KI) = <<>>
  BY <1>1, UnaODos, Zenon
<1> QED
  BY <1>1, <1>2, Zenon DEF Trato

\* It goes on.
LEMMA TratoTrabaja ==
    ASSUME NEW cliente, NEW KI, NEW IK, NEW en \in Ocupada, NEW sigue \in Ocupada,
           Trato(cliente, en, KI, IK)
    PROVE  Trato(cliente, sigue, KI, IK)
<1>1. cliente = "espera" /\ KI = <<>> /\ IK = <<>>
  BY DEF Trato, Ocupada
<1> QED
  BY <1>1, Zenon DEF Trato

\* It answers.
LEMMA TratoResponde ==
    ASSUME NEW cliente, NEW KI, NEW IK, EsSeq(IK), NEW m, m.op \in {"IO_SUCCESS", "IO_ERROR"},
           Trato(cliente, "responde", KI, IK)
    PROVE  Trato(cliente, "libre", KI, Append(IK, m))
<1>1. cliente = "espera" /\ KI = <<>> /\ IK = <<>>
  BY DEF Trato, Ocupada
<1>2. Len(Append(IK, m)) = 1 /\ Append(IK, m)[1] = m
  BY <1>1, UnaODos, Zenon
<1>3. Es(Append(IK, m)[1], {"IO_SUCCESS", "IO_ERROR"})
  BY <1>2 DEF Es
<1> QED
  BY <1>1, <1>2, <1>3, Zenon DEF Trato

\* The connection of the interface is not of memoria nor of the dispatch.
LEMMA DeLaInterfaz ==
    \A c \in {"kernel_io", "io_kernel"} :
        c \in Idas /\ c \in Canales /\ c \notin Range(A) /\ c \notin Range(De)
        /\ c \notin {"kernel_cpu", "cpu_kernel"}
  BY CanalesSon

\* Nobody but the interface and its thread is disturbed by what goes between them.
LEMMA EntreInterfaz ==
    ASSUME Inv, Red', NEW c \in {"kernel_io", "io_kernel"}, NEW x, NEW y, Cambia(c, x, y),
           cpu' = cpu, corto' = corto, consola' = consola, memoria' = memoria,
           pedido' = pedido, DOMAIN interfaz' = {"tipo", "en", "op"},
           interfaz'.en = interfaz.en \/
               (interfaz.en \notin {"MEM_READ", "MEM_WRITE"} /\
                interfaz'.en \notin {"MEM_READ", "MEM_WRITE"}),
           to_send' \in {"IO_SUCCESS", "IO_ERROR"},
           EsSeq(queue_io') /\ \A j \in 1 .. Len(queue_io') : Valido(queue_io'[j]),
           Trato(io_client', interfaz'.en, IF c = "kernel_io" THEN y ELSE dicho["kernel_io"],
                                           IF c = "io_kernel" THEN y ELSE dicho["io_kernel"])
    PROVE  Inv'
<1>1. c \in Canales /\ c \notin Range(A) /\ c \notin Range(De)
      /\ c \notin {"kernel_cpu", "cpu_kernel"}
  BY DeLaInterfaz, Zenon
<1>2. Espera' = Espera
  <2>1. (IF interfaz'.en \in {"MEM_READ", "MEM_WRITE"} THEN interfaz'.en ELSE "")
            = (IF interfaz.en \in {"MEM_READ", "MEM_WRITE"} THEN interfaz.en ELSE "")
    BY Zenon
  <2> QED
    BY <2>1, Zenon DEF Espera
<1>3. Atendidos'
  BY <1>1, <1>2, AtendidosAparte, Zenon DEF Inv
<1>4. Turnos'
  BY <1>1, TurnosAparte, Zenon DEF Inv
<1>5. /\ dicho'["kernel_io"] = IF c = "kernel_io" THEN y ELSE dicho["kernel_io"]
      /\ dicho'["io_kernel"] = IF c = "io_kernel" THEN y ELSE dicho["io_kernel"]
  <2>1. "kernel_io" \in Canales /\ "io_kernel" \in Canales
    BY DeLaInterfaz
  <2>2. /\ dicho'[c] = y
        /\ \A d \in Canales : d # c => dicho'[d] = dicho[d]
    BY Zenon DEF Cambia
  <2> QED
    BY <2>1, <2>2, Zenon
<1>6. Trato(io_client', interfaz'.en, dicho'["kernel_io"], dicho'["io_kernel"])
  BY <1>5, Zenon
<1>7. pedido' = SinPedido \/ Valido(pedido')
  BY Zenon DEF Inv, Tratos
<1>8. Tratos'
  BY <1>6, <1>7, Zenon DEF Tratos
<1> QED
  BY <1>3, <1>4, <1>8, Zenon DEF Inv

\* What the interface does changes, and its type does not.
LEMMA InterfazSigue ==
    ASSUME DOMAIN interfaz = {"tipo", "en", "op"}, NEW e, NEW o,
           \/ interfaz' = [interfaz EXCEPT !.en = e]
           \/ interfaz' = [interfaz EXCEPT !.op = o, !.en = e]
           \/ interfaz' = [interfaz EXCEPT !.en = e, !.op = o]
    PROVE  DOMAIN interfaz' = {"tipo", "en", "op"} /\ interfaz'.en = e
           /\ interfaz'.tipo = interfaz.tipo
<1>1. CASE interfaz' = [interfaz EXCEPT !.en = e]
  BY <1>1
<1>2. CASE interfaz' = [interfaz EXCEPT !.op = o, !.en = e]
  BY <1>2
<1>3. CASE interfaz' = [interfaz EXCEPT !.en = e, !.op = o]
  BY <1>3
<1> QED
  BY <1>1, <1>2, <1>3

\* The interface says its name.
LEMMA SaludaInv == Inv /\ Saluda => Inv'
<1> SUFFICES ASSUME Inv, Saluda PROVE Inv'
  OBVIOUS
<1> DEFINE b == Paquete("MENSAJE", Cadena("nombre", NombreIo))
           m == Dice("MENSAJE", <<Cadena("nombre", NombreIo)>>)
           KI == dicho["kernel_io"]
           IK == dicho["io_kernel"]
<1>1. /\ interfaz.en = "saluda" /\ interfaz' = [interfaz EXCEPT !.en = "libre"]
      /\ Envia("io_kernel", b, m)
      /\ cpu' = cpu /\ corto' = corto /\ pedido' = pedido /\ queue_io' = queue_io
      /\ io_client' = io_client
      /\ to_send' = to_send /\ consola' = consola /\ memoria' = memoria
  BY Zenon DEF Saluda, dispatch, kernel_io
<1>2. Red /\ DOMAIN interfaz = {"tipo", "en", "op"} /\ to_send \in {"IO_SUCCESS", "IO_ERROR"}
      /\ Trato(io_client, "saluda", KI, IK)
      /\ EsSeq(queue_io) /\ \A j \in 1 .. Len(queue_io) : Valido(queue_io[j])
  BY <1>1, Zenon DEF Inv, Tratos
<1>3. DOMAIN interfaz' = {"tipo", "en", "op"} /\ interfaz'.en = "libre"
      /\ interfaz'.tipo = interfaz.tipo
  BY <1>1, <1>2, InterfazSigue, Zenon
<1>4. DiceNombre(b, m) /\ m.op = "MENSAJE"
  BY DEF DiceNombre, Dice
<1> HIDE DEF b, m
<1>5. Dijo("io_kernel", interfaz.tipo, b, m)
  BY <1>4, Zenon DEF Dijo
<1> DEFINE x == canal["io_kernel"] \o b
           y == Append(IK, m)
<1>6. "io_kernel" \in {"kernel_io", "io_kernel"} /\ "io_kernel" # "kernel_io"
      /\ "saluda" \notin {"MEM_READ", "MEM_WRITE"} /\ "libre" \notin {"MEM_READ", "MEM_WRITE"}
  OBVIOUS
<1>7. Red' /\ EsSeq(IK) /\ Cambia("io_kernel", x, y)
  BY <1>1, <1>2, <1>3, <1>5, <1>6, DeLaInterfaz, DiceMas, Zenon
<1>8. Trato(io_client, "libre", KI, y)
  BY <1>2, <1>4, <1>7, TratoSaluda, Zenon
<1> HIDE DEF x, y
<1>9. Trato(io_client', interfaz'.en, IF "io_kernel" = "kernel_io" THEN y ELSE KI,
                                      IF "io_kernel" = "io_kernel" THEN y ELSE IK)
  BY <1>1, <1>3, <1>6, <1>8, Zenon
<1>10. EsSeq(queue_io') /\ \A j \in 1 .. Len(queue_io') : Valido(queue_io'[j])
  BY <1>1, <1>2, Zenon
<1>11. to_send' \in {"IO_SUCCESS", "IO_ERROR"}
  BY <1>1, <1>2, Zenon
<1>12. interfaz.en \notin {"MEM_READ", "MEM_WRITE"} /\ interfaz'.en \notin {"MEM_READ", "MEM_WRITE"}
  BY <1>1, <1>3, <1>6, Zenon
<1> HIDE DEF KI, IK
<1> QED
  BY <1>1, <1>3, <1>6, <1>7, <1>9, <1>10, <1>11, <1>12, EntreInterfaz, Zenon DEF KI, IK

\* It answers.
LEMMA IoRespondeInv == Inv /\ IoResponde => Inv'
<1> SUFFICES ASSUME Inv, IoResponde PROVE Inv'
  OBVIOUS
<1> DEFINE b == Op(to_send)
           m == Dice(to_send, <<>>)
           KI == dicho["kernel_io"]
           IK == dicho["io_kernel"]
<1>1. /\ interfaz.en = "responde" /\ interfaz' = [interfaz EXCEPT !.en = "libre", !.op = ""]
      /\ Envia("io_kernel", b, m)
      /\ cpu' = cpu /\ corto' = corto /\ pedido' = pedido /\ queue_io' = queue_io
      /\ io_client' = io_client
      /\ to_send' = to_send /\ consola' = consola /\ memoria' = memoria
  BY Zenon DEF IoResponde, dispatch, kernel_io
<1>2. Red /\ DOMAIN interfaz = {"tipo", "en", "op"} /\ to_send \in {"IO_SUCCESS", "IO_ERROR"}
      /\ Trato(io_client, "responde", KI, IK)
      /\ EsSeq(queue_io) /\ \A j \in 1 .. Len(queue_io) : Valido(queue_io[j])
  BY <1>1, Zenon DEF Inv, Tratos
<1>3. DOMAIN interfaz' = {"tipo", "en", "op"} /\ interfaz'.en = "libre"
      /\ interfaz'.tipo = interfaz.tipo
  BY <1>1, <1>2, InterfazSigue, Zenon
<1>4. DiceCodigo(b, m) /\ m.op \in {"IO_SUCCESS", "IO_ERROR"}
  <2>1. DiceCodigo(b, m)
    BY <1>2, Zenon DEF DiceCodigo
  <2>2. m.op = to_send
    BY DEF Dice
  <2> QED
    BY <1>2, <2>1, <2>2, Zenon
<1> HIDE DEF b, m
<1>5. Dijo("io_kernel", interfaz.tipo, b, m)
  BY <1>4, Zenon DEF Dijo
<1> DEFINE x == canal["io_kernel"] \o b
           y == Append(IK, m)
<1>6. "io_kernel" \in {"kernel_io", "io_kernel"} /\ "io_kernel" # "kernel_io"
      /\ "responde" \notin {"MEM_READ", "MEM_WRITE"} /\ "libre" \notin {"MEM_READ", "MEM_WRITE"}
  OBVIOUS
<1>7. Red' /\ EsSeq(IK) /\ Cambia("io_kernel", x, y)
  BY <1>1, <1>2, <1>3, <1>5, <1>6, DeLaInterfaz, DiceMas, Zenon
<1>8. Trato(io_client, "libre", KI, y)
  BY <1>2, <1>4, <1>7, TratoResponde
<1> HIDE DEF x, y
<1>9. Trato(io_client', interfaz'.en, IF "io_kernel" = "kernel_io" THEN y ELSE KI,
                                      IF "io_kernel" = "io_kernel" THEN y ELSE IK)
  BY <1>1, <1>3, <1>6, <1>8, Zenon
<1>10. EsSeq(queue_io') /\ \A j \in 1 .. Len(queue_io') : Valido(queue_io'[j])
  BY <1>1, <1>2, Zenon
<1>11. to_send' \in {"IO_SUCCESS", "IO_ERROR"}
  BY <1>1, <1>2, Zenon
<1>12. interfaz.en \notin {"MEM_READ", "MEM_WRITE"} /\ interfaz'.en \notin {"MEM_READ", "MEM_WRITE"}
  BY <1>1, <1>3, <1>6, Zenon
<1> HIDE DEF KI, IK
<1> QED
  BY <1>1, <1>3, <1>6, <1>7, <1>9, <1>10, <1>11, <1>12, EntreInterfaz, Zenon DEF KI, IK

\* Its thread in the kernel hears its name.
LEMMA IoClientConoceInv == Inv /\ IoClientConoce => Inv'
<1> SUFFICES ASSUME Inv, IoClientConoce PROVE Inv'
  OBVIOUS
<1> DEFINE z == canal["io_kernel"]
           KI == dicho["kernel_io"]
           IK == dicho["io_kernel"]
           h == Head(IK)
           toma == TomaBuffer(z, <<Buffer(z)>>)
<1>1. /\ io_client = "nuevo" /\ io_client' = "atiende" /\ Recibe("io_kernel", toma)
      /\ cpu' = cpu /\ corto' = corto /\ pedido' = pedido /\ queue_io' = queue_io
      /\ interfaz' = interfaz
      /\ to_send' = to_send /\ consola' = consola /\ memoria' = memoria
  BY Zenon DEF IoClientConoce, dispatch, del_io
<1>2. Red /\ DOMAIN interfaz = {"tipo", "en", "op"} /\ to_send \in {"IO_SUCCESS", "IO_ERROR"}
      /\ Trato("nuevo", interfaz.en, KI, IK)
      /\ EsSeq(queue_io) /\ \A j \in 1 .. Len(queue_io) : Valido(queue_io[j])
  BY <1>1, Zenon DEF Inv, Tratos
<1>3. "io_kernel" \in {"kernel_io", "io_kernel"} /\ "io_kernel" # "kernel_io"
      /\ "io_kernel" \in Idas
  BY DeLaInterfaz
<1>4. z # <<>>
  BY <1>1, Zenon DEF Recibe
<1>5. EsSeq(IK) /\ IK # <<>> /\ \E b \in Octetos, t \in Octetos :
            /\ z = b \o t /\ Dijo("io_kernel", interfaz.tipo, b, h)
            /\ Suena("io_kernel", interfaz.tipo, t, Tail(IK))
  BY <1>2, <1>3, <1>4, Primero, Zenon
<1>6. PICK b \in Octetos, t \in Octetos :
            /\ z = b \o t /\ Dijo("io_kernel", interfaz.tipo, b, h)
            /\ Suena("io_kernel", interfaz.tipo, t, Tail(IK))
  BY <1>5, Zenon
<1>7. h.op = "MENSAJE" /\ Trato("atiende", interfaz.en, KI, Tail(IK))
  BY <1>2, <1>5, TratoConoce, Zenon
<1>8. DiceNombre(b, h)
  <2>1. DiceNombre(b, h) \/ DiceCodigo(b, h)
    BY <1>6, DijoPor, Zenon
  <2>2. "MENSAJE" \notin {"IO_SUCCESS", "IO_ERROR"}
    OBVIOUS
  <2>3. ~DiceCodigo(b, h)
    BY <1>7, <2>2, Vacia, LeeCodigo, Zenon
  <2> QED
    BY <2>1, <2>3
<1>9. Justo(toma, b, h)
  BY <1>6, <1>8, LeeNombre, Zenon
<1> HIDE DEF toma
<1>10. Red' /\ Cambia("io_kernel", t, Tail(IK))
  BY <1>1, <1>2, <1>3, <1>5, <1>6, <1>9, OyePrimero, Zenon
<1> DEFINE y == Tail(IK)
<1> HIDE DEF y
<1>11. Trato(io_client', interfaz'.en, IF "io_kernel" = "kernel_io" THEN y ELSE KI,
                                       IF "io_kernel" = "io_kernel" THEN y ELSE IK)
  BY <1>1, <1>3, <1>7, Zenon DEF y
<1>12. EsSeq(queue_io') /\ \A j \in 1 .. Len(queue_io') : Valido(queue_io'[j])
  BY <1>1, <1>2, Zenon
<1>13. to_send' \in {"IO_SUCCESS", "IO_ERROR"} /\ DOMAIN interfaz' = {"tipo", "en", "op"}
  BY <1>1, <1>2, Zenon
<1>14. Cambia("io_kernel", t, y)
  BY <1>10, Zenon DEF y
<1> HIDE DEF KI, IK
<1> QED
  BY <1>1, <1>3, <1>10, <1>11, <1>12, <1>13, <1>14, EntreInterfaz, Zenon DEF KI, IK

\* It hears the answer to a request.
LEMMA IoClientOyeInv == Inv /\ IoClientOye => Inv'
<1> SUFFICES ASSUME Inv, IoClientOye PROVE Inv'
  OBVIOUS
<1> DEFINE z == canal["io_kernel"]
           KI == dicho["kernel_io"]
           IK == dicho["io_kernel"]
           h == Head(IK)
           toma == Toma(4, OpDe(z), <<>>)
<1>1. /\ io_client = "espera" /\ io_client' = "atiende" /\ Recibe("io_kernel", toma)
      /\ cpu' = cpu /\ corto' = corto /\ pedido' = pedido /\ queue_io' = queue_io
      /\ interfaz' = interfaz
      /\ to_send' = to_send /\ consola' = consola /\ memoria' = memoria
  BY Zenon DEF IoClientOye, dispatch, del_io
<1>2. Red /\ DOMAIN interfaz = {"tipo", "en", "op"} /\ to_send \in {"IO_SUCCESS", "IO_ERROR"}
      /\ Trato("espera", interfaz.en, KI, IK)
      /\ EsSeq(queue_io) /\ \A j \in 1 .. Len(queue_io) : Valido(queue_io[j])
  BY <1>1, Zenon DEF Inv, Tratos
<1>3. "io_kernel" \in {"kernel_io", "io_kernel"} /\ "io_kernel" # "kernel_io"
      /\ "io_kernel" \in Idas
  BY DeLaInterfaz
<1>4. z # <<>>
  BY <1>1, Zenon DEF Recibe
<1>5. EsSeq(IK) /\ IK # <<>> /\ \E b \in Octetos, t \in Octetos :
            /\ z = b \o t /\ Dijo("io_kernel", interfaz.tipo, b, h)
            /\ Suena("io_kernel", interfaz.tipo, t, Tail(IK))
  BY <1>2, <1>3, <1>4, Primero, Zenon
<1>6. PICK b \in Octetos, t \in Octetos :
            /\ z = b \o t /\ Dijo("io_kernel", interfaz.tipo, b, h)
            /\ Suena("io_kernel", interfaz.tipo, t, Tail(IK))
  BY <1>5, Zenon
<1>7. h.op \in {"IO_SUCCESS", "IO_ERROR"} /\ Trato("atiende", interfaz.en, KI, Tail(IK))
  BY <1>2, <1>5, TratoOye, Zenon
<1>8. DiceCodigo(b, h)
  <2>1. DiceNombre(b, h) \/ DiceCodigo(b, h)
    BY <1>6, DijoPor, Zenon
  <2>2. "MENSAJE" \notin {"IO_SUCCESS", "IO_ERROR"}
    OBVIOUS
  <2>3. ~DiceNombre(b, h)
    BY <1>7, <2>2, Vacia, LeeNombre, Zenon
  <2> QED
    BY <2>1, <2>3
<1>9. Justo(toma, b, h)
  BY <1>6, <1>8, LeeCodigo, Zenon
<1> HIDE DEF toma
<1>10. Red' /\ Cambia("io_kernel", t, Tail(IK))
  BY <1>1, <1>2, <1>3, <1>5, <1>6, <1>9, OyePrimero, Zenon
<1> DEFINE y == Tail(IK)
<1> HIDE DEF y
<1>11. Trato(io_client', interfaz'.en, IF "io_kernel" = "kernel_io" THEN y ELSE KI,
                                       IF "io_kernel" = "io_kernel" THEN y ELSE IK)
  BY <1>1, <1>3, <1>7, Zenon DEF y
<1>12. EsSeq(queue_io') /\ \A j \in 1 .. Len(queue_io') : Valido(queue_io'[j])
  BY <1>1, <1>2, Zenon
<1>13. to_send' \in {"IO_SUCCESS", "IO_ERROR"} /\ DOMAIN interfaz' = {"tipo", "en", "op"}
  BY <1>1, <1>2, Zenon
<1>14. Cambia("io_kernel", t, y)
  BY <1>10, Zenon DEF y
<1> HIDE DEF KI, IK
<1> QED
  BY <1>1, <1>3, <1>10, <1>11, <1>12, <1>13, <1>14, EntreInterfaz, Zenon DEF KI, IK

\* It passes on the first request of its queue.
LEMMA IoClientMandaInv == Inv /\ IoClientManda => Inv'
<1> SUFFICES ASSUME Inv, IoClientManda PROVE Inv'
  OBVIOUS
<1> DEFINE KI == dicho["kernel_io"]
           IK == dicho["io_kernel"]
           q == Head(queue_io)
<1>1. /\ io_client = "atiende" /\ io_client' = "espera" /\ queue_io # <<>>
      /\ queue_io' = Tail(queue_io)
      /\ cpu' = cpu /\ corto' = corto /\ pedido' = pedido /\ interfaz' = interfaz
      /\ to_send' = to_send /\ consola' = consola /\ memoria' = memoria
  BY Zenon DEF IoClientManda, dispatch, del_io
<1>2. Red /\ DOMAIN interfaz = {"tipo", "en", "op"} /\ to_send \in {"IO_SUCCESS", "IO_ERROR"}
      /\ Trato("atiende", interfaz.en, KI, IK)
      /\ EsSeq(queue_io) /\ \A j \in 1 .. Len(queue_io) : Valido(queue_io[j])
  BY <1>1, Zenon DEF Inv, Tratos
<1>3. "kernel_io" \in {"kernel_io", "io_kernel"} /\ "io_kernel" # "kernel_io"
      /\ "kernel_io" \in Idas
  BY DeLaInterfaz
<1>4. PICK p \in Pids :
            Envia("kernel_io", Paquete("IO", agregar_io_serializado(p, q.instr, q.buffer)),
                  Dice("IO", <<U32("pid", p), q.instr>> \o
                        IF Sirve(interfaz.tipo, q.pide.op) THEN q.pide.args ELSE <<>>))
  BY Zenon DEF IoClientManda
<1>5. Valido(q) /\ EsSeq(queue_io') /\ \A j \in 1 .. Len(queue_io') : Valido(queue_io'[j])
  <2> DEFINE n == Len(queue_io)
             fs == Tail(queue_io)
  <2>1. n \in Nat /\ n # 0 /\ q = queue_io[1] /\ EsSeq(fs) /\ Len(fs) = n - 1
        /\ \A j \in 1 .. n - 1 : fs[j] = queue_io[j + 1]
    <3>1. Len(queue_io) \in Nat /\ (Len(queue_io) = 0 <=> queue_io = <<>>)
      BY <1>2, Secuencia, Zenon
    <3>2. queue_io # <<>> =>
            /\ EsSeq(Tail(queue_io)) /\ Len(Tail(queue_io)) = Len(queue_io) - 1
            /\ Head(queue_io) = queue_io[1]
            /\ \A j \in 1 .. Len(queue_io) - 1 : Tail(queue_io)[j] = queue_io[j + 1]
      BY <1>2, Secuencia, Zenon
    <3> QED
      BY <1>1, <3>1, <3>2, Zenon
  <2> HIDE DEF n, fs
  <2>2. 1 \in 1 .. n /\ \A j \in 1 .. n - 1 : j + 1 \in 1 .. n
    BY <2>1, Indices, Zenon
  <2>3. Valido(q)
    BY <1>2, <2>1, <2>2, Zenon DEF n
  <2>4. ASSUME NEW j \in 1 .. n - 1 PROVE Valido(fs[j])
    BY <1>2, <2>1, <2>2, Zenon DEF n
  <2> QED
    BY <1>1, <2>1, <2>3, <2>4, Zenon DEF fs
<1>6. q.pide \in PedidosIo /\ q.instr = U32("instr", q.pide.op) /\ q.buffer = Contenido(q.pide)
  BY <1>5, Zenon DEF Valido
<1> DEFINE b == Paquete("IO", agregar_io_serializado(p, q.instr, q.buffer))
           m == Dice("IO", <<U32("pid", p), q.instr>> \o
                        IF Sirve(interfaz.tipo, q.pide.op) THEN q.pide.args ELSE <<>>)
<1>7. DicePasado(interfaz.tipo, b, m)
  BY <1>6, Zenon DEF DicePasado
<1>8. Envia("kernel_io", b, m) /\ Dijo("kernel_io", interfaz.tipo, b, m)
  BY <1>4, <1>7, Zenon DEF Dijo
<1> HIDE DEF b, m
<1> DEFINE x == canal["kernel_io"] \o b
           y == Append(KI, m)
<1>9. Red' /\ EsSeq(KI) /\ Cambia("kernel_io", x, y)
  BY <1>1, <1>2, <1>3, <1>8, DiceMas, Zenon
<1>10. Trato("espera", interfaz.en, y, IK)
  BY <1>2, <1>9, TratoManda, Zenon
<1> HIDE DEF x, y
<1>11. Trato(io_client', interfaz'.en, IF "kernel_io" = "kernel_io" THEN y ELSE KI,
                                       IF "kernel_io" = "io_kernel" THEN y ELSE IK)
  BY <1>1, <1>3, <1>10, Zenon
<1>12. to_send' \in {"IO_SUCCESS", "IO_ERROR"} /\ DOMAIN interfaz' = {"tipo", "en", "op"}
  BY <1>1, <1>2, Zenon
<1> HIDE DEF KI, IK
<1> QED
  BY <1>1, <1>3, <1>5, <1>9, <1>11, <1>12, EntreInterfaz, Zenon DEF KI, IK

\* What a step of the interface that takes a request does.
LEMMA IoRecibeSon ==
    ASSUME IoRecibe, to_send \in {"IO_SUCCESS", "IO_ERROR"}
    PROVE  /\ interfaz.en = "libre"
           /\ \E c \in {recibir_io_serializado(Buffer(canal["kernel_io"]))} :
                /\ Recibe("kernel_io", TomaBuffer(canal["kernel_io"],
                        <<c[1], c[2]>> \o Entiende(interfaz.tipo, c[2][1][2], c[3])))
                /\ \E e \in {"accede", "responde"} : \E o :
                        interfaz' = [interfaz EXCEPT !.op = o, !.en = e]
           /\ to_send' \in {"IO_SUCCESS", "IO_ERROR"}
           /\ cpu' = cpu /\ corto' = corto /\ pedido' = pedido /\ queue_io' = queue_io
           /\ io_client' = io_client /\ consola' = consola /\ memoria' = memoria
<1>1. /\ cpu' = cpu /\ corto' = corto /\ pedido' = pedido /\ queue_io' = queue_io
      /\ io_client' = io_client /\ consola' = consola /\ memoria' = memoria
      /\ interfaz.en = "libre"
  BY Zenon DEF IoRecibe, dispatch, kernel_io
<1> DEFINE z == canal["kernel_io"]
           c == recibir_io_serializado(Buffer(z))
           o == c[2][1][2]
           args == Entiende(interfaz.tipo, o, c[3])
           sirve == Sirve(interfaz.tipo, o)
           e(hay) == IF sirve /\ o \in DeMemoria /\ (o = "IO_FS_READ" => hay)
                     THEN "accede" ELSE "responde"
<1>2. PICK hay \in BOOLEAN :
        /\ Recibe("kernel_io", TomaBuffer(z, <<c[1], c[2]>> \o args))
        /\ interfaz' = [interfaz EXCEPT !.op = o, !.en = e(hay)]
        /\ to_send' \in IF interfaz.tipo # "DIALFS" THEN {IF sirve THEN "IO_SUCCESS" ELSE "IO_ERROR"}
                        ELSE IF ~sirve THEN {to_send}
                        ELSE IF o = "IO_FS_READ" THEN {IF hay THEN "IO_SUCCESS" ELSE "IO_ERROR"}
                        ELSE {"IO_SUCCESS", "IO_ERROR"}
  BY ZenonT(90) DEF IoRecibe
<1>3. e(hay) \in {"accede", "responde"}
  OBVIOUS
<1> HIDE DEF sirve
<1>4. to_send' \in {"IO_SUCCESS", "IO_ERROR"}
  BY <1>2
<1>5. \E f \in {"accede", "responde"} : \E i : interfaz' = [interfaz EXCEPT !.op = i, !.en = f]
  <2> HIDE DEF e, o
  <2> QED
    BY <1>2, <1>3, Zenon
<1> QED
  BY <1>1, <1>2, <1>4, <1>5, Zenon

\* The interface takes a request.
LEMMA IoRecibeInv == Inv /\ IoRecibe => Inv'
<1> SUFFICES ASSUME Inv, IoRecibe PROVE Inv'
  OBVIOUS
<1> DEFINE z == canal["kernel_io"]
           KI == dicho["kernel_io"]
           IK == dicho["io_kernel"]
           h == Head(KI)
           c == recibir_io_serializado(Buffer(z))
           toma == TomaBuffer(z, <<c[1], c[2]>> \o Entiende(interfaz.tipo, c[2][1][2], c[3]))
<1>1. /\ interfaz.en = "libre" /\ Recibe("kernel_io", toma)
      /\ \E e \in {"accede", "responde"} : \E o : interfaz' = [interfaz EXCEPT !.op = o, !.en = e]
      /\ to_send' \in {"IO_SUCCESS", "IO_ERROR"}
      /\ cpu' = cpu /\ corto' = corto /\ pedido' = pedido /\ queue_io' = queue_io
      /\ io_client' = io_client /\ consola' = consola /\ memoria' = memoria
  <2>1. to_send \in {"IO_SUCCESS", "IO_ERROR"}
    BY Zenon DEF Inv, Tratos
  <2> QED
    BY <2>1, IoRecibeSon, Zenon
<1>2. Red /\ DOMAIN interfaz = {"tipo", "en", "op"}
      /\ Trato(io_client, "libre", KI, IK)
      /\ EsSeq(queue_io) /\ \A j \in 1 .. Len(queue_io) : Valido(queue_io[j])
  BY <1>1, Zenon DEF Inv, Tratos
<1>3. "kernel_io" \in {"kernel_io", "io_kernel"} /\ "io_kernel" # "kernel_io"
      /\ "kernel_io" \in Idas
      /\ "libre" \notin {"MEM_READ", "MEM_WRITE"}
  BY DeLaInterfaz
<1>4. PICK e \in {"accede", "responde"} : \E o : interfaz' = [interfaz EXCEPT !.op = o, !.en = e]
  BY <1>1, Zenon
<1>17. PICK o : interfaz' = [interfaz EXCEPT !.op = o, !.en = e]
  BY <1>4, Zenon
<1>16. e \in Ocupada /\ e \notin {"MEM_READ", "MEM_WRITE"}
  BY DEF Ocupada
<1>5. DOMAIN interfaz' = {"tipo", "en", "op"} /\ interfaz'.en = e
      /\ interfaz'.tipo = interfaz.tipo
  BY <1>2, <1>17, InterfazSigue, Zenon
<1>6. z # <<>>
  BY <1>1, Zenon DEF Recibe
<1>7. EsSeq(KI) /\ KI # <<>> /\ \E b \in Octetos, t \in Octetos :
            /\ z = b \o t /\ Dijo("kernel_io", interfaz.tipo, b, h)
            /\ Suena("kernel_io", interfaz.tipo, t, Tail(KI))
  BY <1>2, <1>3, <1>6, Primero, Zenon
<1>8. PICK b \in Octetos, t \in Octetos :
            /\ z = b \o t /\ Dijo("kernel_io", interfaz.tipo, b, h)
            /\ Suena("kernel_io", interfaz.tipo, t, Tail(KI))
  BY <1>7, Zenon
<1>9. DicePasado(interfaz.tipo, b, h)
  BY <1>8, DijoPor, Zenon
<1>10. Justo(toma, b, h)
  <2>1. \E d \in {recibir_io_serializado(Buffer(z))} :
            Justo(TomaBuffer(z, <<d[1], d[2]>> \o Entiende(interfaz.tipo, d[2][1][2], d[3])), b, h)
    <3> HIDE DEF z, h
    <3> QED
      BY <1>8, <1>9, LeePasado, ZenonT(90)
  <2> HIDE DEF c, z, h
  <2>2. PICK d \in {c} :
            Justo(TomaBuffer(z, <<d[1], d[2]>> \o Entiende(interfaz.tipo, d[2][1][2], d[3])), b, h)
    BY <2>1, Zenon DEF c
  <2>3. d = c
    OBVIOUS
  <2> QED
    BY <2>2, <2>3, Zenon
<1> HIDE DEF toma
<1>11. Red' /\ Cambia("kernel_io", t, Tail(KI))
  BY <1>1, <1>2, <1>3, <1>5, <1>7, <1>8, <1>10, OyePrimero, Zenon
<1> DEFINE y == Tail(KI)
<1>12. Trato(io_client, e, y, IK)
  BY <1>2, <1>7, <1>16, TratoRecibe, Zenon
<1> HIDE DEF y
<1>13. Trato(io_client', interfaz'.en, IF "kernel_io" = "kernel_io" THEN y ELSE KI,
                                       IF "kernel_io" = "io_kernel" THEN y ELSE IK)
  BY <1>1, <1>3, <1>5, <1>12, Zenon
<1>14. EsSeq(queue_io') /\ \A j \in 1 .. Len(queue_io') : Valido(queue_io'[j])
  BY <1>1, <1>2, Zenon
<1>15. Cambia("kernel_io", t, y)
  BY <1>11, Zenon DEF y
<1> HIDE DEF KI, IK
<1> QED
  BY <1>1, <1>3, <1>5, <1>11, <1>13, <1>14, <1>15, <1>16, EntreInterfaz, Zenon DEF KI, IK

\* The interface goes on with the request it serves.
LEMMA TratosTrabaja ==
    ASSUME Tratos, NEW c, c \notin {"kernel_io", "io_kernel"}, NEW x, NEW y, Cambia(c, x, y),
           DOMAIN interfaz' = {"tipo", "en", "op"},
           interfaz.en \in Ocupada, interfaz'.en \in Ocupada, to_send' = to_send,
           io_client' = io_client, pedido' = pedido, queue_io' = queue_io
    PROVE  Tratos'
<1>1. c # "kernel_io" /\ c # "io_kernel" /\ "kernel_io" \in Canales /\ "io_kernel" \in Canales
  BY CanalesSon
<1>2. dicho'["kernel_io"] = dicho["kernel_io"] /\ dicho'["io_kernel"] = dicho["io_kernel"]
  BY <1>1, Zenon DEF Cambia
<1>3. Trato(io_client, interfaz.en, dicho["kernel_io"], dicho["io_kernel"])
  BY Zenon DEF Tratos
<1>4. Trato(io_client, interfaz'.en, dicho["kernel_io"], dicho["io_kernel"])
  BY <1>3, TratoTrabaja, Zenon
<1> QED
  BY <1>2, <1>4, Zenon DEF Tratos

\* The other clients do not move when the interface does.
LEMMA OtrosIo ==
    ASSUME cpu' = cpu, consola' = consola
    PROVE  \A j \in Clientes : j # "io" => Espera'[j] = Espera[j]
<1>1. Espera'["cpu"] = Espera["cpu"] /\ Espera'["kernel"] = Espera["kernel"]
  BY EsperaDa, Zenon
<1>2. \A j \in Clientes : j # "io" => j = "cpu" \/ j = "kernel"
  BY DEF Clientes
<1> QED
  BY <1>1, <1>2, Zenon

\* The interface asks memoria for a frame.
LEMMA IoAccedeInv == Inv /\ IoAccede => Inv'
<1> SUFFICES ASSUME Inv, IoAccede PROVE Inv'
  OBVIOUS
<1>1. /\ interfaz.en = "accede"
      /\ cpu' = cpu /\ corto' = corto /\ pedido' = pedido /\ queue_io' = queue_io
      /\ io_client' = io_client /\ to_send' = to_send /\ consola' = consola /\ memoria' = memoria
  BY Zenon DEF IoAccede, dispatch, kernel_io
<1>2. \E op \in {"MEM_READ", "MEM_WRITE"} :
        /\ \E p \in {q \in PedidosCpu : q.op = op} : Envia("io_mem", PaqueteMem(p), p)
        /\ interfaz' = [interfaz EXCEPT !.en = op]
  <2> DEFINE op == IF interfaz.op \in {"IO_STDIN_READ", "IO_FS_READ"} THEN "MEM_WRITE"
                                                                      ELSE "MEM_READ"
  <2>1. op \in {"MEM_READ", "MEM_WRITE"}
    OBVIOUS
  <2>2. /\ \E p \in {q \in PedidosCpu : q.op = op} : Envia("io_mem", PaqueteMem(p), p)
        /\ interfaz' = [interfaz EXCEPT !.en = op]
    BY Zenon DEF IoAccede
  <2> HIDE DEF op
  <2> QED
    BY <2>1, <2>2, Zenon
<1>3. PICK op \in {"MEM_READ", "MEM_WRITE"} :
        /\ \E p \in {q \in PedidosCpu : q.op = op} : Envia("io_mem", PaqueteMem(p), p)
        /\ interfaz' = [interfaz EXCEPT !.en = op]
  BY <1>2, Zenon
<1>4. PICK m \in {q \in PedidosCpu : q.op = op} : Envia("io_mem", PaqueteMem(m), m)
  BY <1>3, Zenon
<1>5. m \in PedidosCpu /\ m.op = op
  BY <1>4, Zenon
<1> DEFINE b == PaqueteMem(m)
<1>6. DOMAIN interfaz = {"tipo", "en", "op"}
  BY Zenon DEF Inv, Tratos
<1>7. DOMAIN interfaz' = {"tipo", "en", "op"} /\ interfaz'.en = op /\ interfaz'.tipo = interfaz.tipo
  BY <1>3, <1>6, InterfazSigue, Zenon
<1>8. m.op \in Pedibles
  BY <1>5 DEF Pedibles, OpsMem
<1>9. "io" \in Clientes /\ A["io"] = "io_mem" /\ "accede" \notin {"MEM_READ", "MEM_WRITE"}
      /\ "accede" \in Ocupada /\ op \in Ocupada
  BY CanalesSon DEF Clientes, Ocupada
<1>10. Espera["io"] = "" /\ Espera'["io"] = m.op
  <2>1. Espera["io"] = ""
    BY <1>1, <1>9, EsperaDa, Zenon
  <2>2. interfaz'.en \in {"MEM_READ", "MEM_WRITE"}
    BY <1>3, <1>7, Zenon
  <2> QED
    BY <1>5, <1>7, <2>1, <2>2, EsperaDa, Zenon
<1>11. \A j \in Clientes : j # "io" => Espera'[j] = Espera[j]
  BY <1>1, OtrosIo, Zenon
<1>12. Dijo(A["io"], interfaz.tipo, b, m)
  BY <1>5, <1>9, DeOtros, Zenon DEF Dijo, DiceMem
<1>13. Envia(A["io"], b, m)
  BY <1>4, <1>9, Zenon
<1> HIDE DEF b
<1>14. Red /\ Atendidos /\ Turnos /\ Tratos /\ consola' \in {"libre", "INIT_PID", "INIT_SCRIPT"}
  BY <1>1, Zenon DEF Inv, Atendidos
<1> DEFINE x == canal[A["io"]] \o b
           y == Append(dicho[A["io"]], m)
<1>15. Red' /\ Atendidos' /\ Cambia(A["io"], x, y)
  BY <1>1, <1>7, <1>8, <1>9, <1>10, <1>11, <1>12, <1>13, <1>14, ClientePide, Zenon
<1> HIDE DEF x, y
<1>16. A["io"] \notin {"kernel_cpu", "cpu_kernel"} /\ A["io"] \notin {"kernel_io", "io_kernel"}
  BY <1>9
<1>17. Turnos'
  BY <1>1, <1>14, <1>15, <1>16, TurnosAparte, Zenon
<1>18. Tratos'
  BY <1>1, <1>7, <1>9, <1>14, <1>15, <1>16, TratosTrabaja, Zenon
<1> QED
  BY <1>15, <1>17, <1>18, Zenon DEF Inv

\* The interface gets the answer of memoria.
LEMMA IoAccedioInv == Inv /\ IoAccedio => Inv'
<1> SUFFICES ASSUME Inv, IoAccedio PROVE Inv'
  OBVIOUS
<1> DEFINE e == IF por_acceder > 1 THEN "accede" ELSE "responde"
<1>1. /\ interfaz.en \in {"MEM_READ", "MEM_WRITE"} /\ interfaz' = [interfaz EXCEPT !.en = e]
      /\ Recibe("mem_io", recibir_respuesta(interfaz.en, canal["mem_io"]))
      /\ cpu' = cpu /\ corto' = corto /\ pedido' = pedido /\ queue_io' = queue_io
      /\ io_client' = io_client /\ to_send' = to_send /\ consola' = consola /\ memoria' = memoria
  BY Zenon DEF IoAccedio, dispatch, kernel_io
<1>2. e \notin {"MEM_READ", "MEM_WRITE"} /\ e \in Ocupada /\ interfaz.en \in Ocupada
  BY <1>1 DEF Ocupada
<1> HIDE DEF e
<1>3. DOMAIN interfaz = {"tipo", "en", "op"}
  BY Zenon DEF Inv, Tratos
<1>4. DOMAIN interfaz' = {"tipo", "en", "op"} /\ interfaz'.en = e /\ interfaz'.tipo = interfaz.tipo
  BY <1>1, <1>3, InterfazSigue, Zenon
<1>5. "io" \in Clientes /\ De["io"] = "mem_io"
  BY CanalesSon DEF Clientes
<1>6. Espera["io"] = interfaz.en /\ Espera'["io"] = ""
  BY <1>1, <1>2, <1>4, EsperaDa, Zenon
<1>7. \A j \in Clientes : j # "io" => Espera'[j] = Espera[j]
  BY <1>1, OtrosIo, Zenon
<1>8. Recibe(De["io"], recibir_respuesta(Espera["io"], canal[De["io"]]))
  BY <1>1, <1>5, <1>6, Zenon
<1>9. Red /\ Atendidos /\ Turnos /\ Tratos /\ consola' \in {"libre", "INIT_PID", "INIT_SCRIPT"}
  BY <1>1, Zenon DEF Inv, Atendidos
<1>10. Red' /\ Atendidos' /\ Cambia(De["io"], <<>>, <<>>)
  BY <1>1, <1>4, <1>5, <1>6, <1>7, <1>8, <1>9, ClienteObtiene, Zenon
<1>11. De["io"] \notin {"kernel_cpu", "cpu_kernel"} /\ De["io"] \notin {"kernel_io", "io_kernel"}
  BY <1>5
<1>12. Turnos'
  BY <1>1, <1>9, <1>10, <1>11, TurnosAparte, Zenon
<1>13. interfaz'.en \in Ocupada
  BY <1>2, <1>4, Zenon
<1>14. Tratos'
  BY <1>1, <1>2, <1>4, <1>9, <1>10, <1>11, <1>13, TratosTrabaja, Zenon
<1> QED
  BY <1>10, <1>12, <1>14, Zenon DEF Inv

-----------------------------------------------------------------------------
(* Every behaviour.                                                        *)

\* No request is left where nothing was said.
LEMMA FinVacia == Fin(<<>>)
<1>1. 1 .. Len(<<>>) = {}
  OBVIOUS
<1> QED
  BY <1>1, Zenon DEF Fin

\* Nothing asked, nothing said.
LEMMA AtendidoNada ==
    ASSUME NEW ds, NEW e, NEW mem, NEW b, NEW d,
           ds = <<>>, e = "", mem = "", b = <<>>, d = <<>>
    PROVE  Atendido(ds, e, mem, b, d)
<1>1. Fin(ds)
  BY FinVacia, Zenon
<1> QED
  BY <1>1, Zenon DEF Atendido, Nada

\* The system starts with nothing said.
LEMMA InitInv == Init => Inv
<1> SUFFICES ASSUME Init PROVE Inv
  OBVIOUS
<1>1. /\ canal = [c \in Canales |-> <<>>] /\ dicho = [c \in Canales |-> <<>>]
      /\ entendido = [c \in Canales |-> TRUE]
      /\ cpu = "inicio" /\ corto = "manda" /\ pedido = SinPedido /\ queue_io = <<>>
      /\ io_client = "nuevo" /\ consola = "libre"
      /\ to_send = "IO_ERROR" /\ memoria = [c \in Clientes |-> ""]
      /\ interfaz \in [tipo : Tipos, en : {"saluda"}, op : {""}]
  BY Zenon DEF Init
<1>2. DOMAIN interfaz = {"tipo", "en", "op"} /\ interfaz.en = "saluda"
  BY <1>1
<1>3. \A c \in Canales : canal[c] = <<>> /\ dicho[c] = <<>>
  BY <1>1, Zenon
<1>4. Red
  <2>1. canal \in [Canales -> Octetos] /\ DOMAIN dicho = Canales
    BY <1>1, Vacia
  <2>2. ASSUME NEW c \in Idas PROVE Suena(c, interfaz.tipo, canal[c], dicho[c])
    <3>1. canal[c] = <<>> /\ dicho[c] = <<>>
      BY <1>3, Zenon DEF Idas
    <3> QED
      BY <3>1, SuenaVacio, Zenon
  <2> QED
    BY <1>1, <2>1, <2>2, Zenon DEF Red
<1>5. Atendidos
  <2>1. ASSUME NEW k \in Clientes
        PROVE  Atendido(dicho[A[k]], Espera[k], memoria[k], canal[De[k]], dicho[De[k]])
    <3>1. A[k] \in Canales /\ De[k] \in Canales
      BY CanalesSon, Zenon DEF Idas
    <3>2. Espera["cpu"] = "" /\ Espera["kernel"] = "" /\ Espera["io"] = ""
      <4>1. "inicio" \notin Esperables /\ "saluda" \notin {"MEM_READ", "MEM_WRITE"}
        BY DEF Esperables
      <4> QED
        BY <1>1, <1>2, <4>1, EsperaDa, Zenon
    <3>3. Espera[k] = ""
      BY <3>2, Zenon DEF Clientes
    <3>4. memoria[k] = ""
      BY <1>1, Zenon
    <3> QED
      BY <1>3, <3>1, <3>3, <3>4, AtendidoNada, Zenon
  <2>2. DOMAIN memoria = Clientes
    BY <1>1, Zenon
  <2>3. consola \in {"libre", "INIT_PID", "INIT_SCRIPT"}
    BY <1>1
  <2> QED
    BY <2>1, <2>2, <2>3, Zenon DEF Atendidos
<1>6. Turnos
  <2>1. dicho["kernel_cpu"] = <<>> /\ dicho["cpu_kernel"] = <<>>
    BY <1>3, DeDispatch
  <2>2. cpu \in {"inicio", "MEM_PAGE_SIZE", "libre"}
    BY <1>1
  <2> QED
    BY <1>1, <2>1, <2>2, Zenon DEF Turnos, Turno
<1>7. Tratos
  <2>1. dicho["kernel_io"] = <<>> /\ dicho["io_kernel"] = <<>>
    BY <1>3, DeLaInterfaz
  <2>2. Trato(io_client, interfaz.en, dicho["kernel_io"], dicho["io_kernel"])
    BY <1>1, <1>2, <2>1, Zenon DEF Trato
  <2>3. EsSeq(queue_io) /\ \A j \in 1 .. Len(queue_io) : Valido(queue_io[j])
    <3>1. <<>> \in Seq({}) /\ 1 .. Len(<<>>) = {}
      OBVIOUS
    <3> QED
      BY <1>1, <3>1, Zenon DEF EsSeq
  <2>4. to_send \in {"IO_SUCCESS", "IO_ERROR"}
    BY <1>1
  <2> QED
    BY <1>1, <1>2, <2>2, <2>3, <2>4, Zenon DEF Tratos
<1> QED
  BY <1>4, <1>5, <1>6, <1>7, Zenon DEF Inv

\* A step of none of the threads.
LEMMA NadiePasa == Inv /\ UNCHANGED vars => Inv'
<1> SUFFICES ASSUME Inv, UNCHANGED vars PROVE Inv'
  OBVIOUS
<1>1. /\ canal' = canal /\ dicho' = dicho /\ entendido' = entendido
      /\ cpu' = cpu /\ corto' = corto /\ pedido' = pedido /\ queue_io' = queue_io
      /\ io_client' = io_client /\ interfaz' = interfaz /\ to_send' = to_send
      /\ consola' = consola /\ memoria' = memoria
  BY Zenon DEF vars, red, dispatch, kernel_io, del_io
<1>2. Red'
  BY <1>1, Zenon DEF Inv, Red
<1>3. Espera' = Espera
  BY <1>1, EsperaAparte, Zenon
<1>4. Atendidos'
  BY <1>1, <1>3, Zenon DEF Inv, Atendidos
<1>5. Turnos'
  BY <1>1, Zenon DEF Inv, Turnos
<1>6. Tratos'
  BY <1>1, Zenon DEF Inv, Tratos
<1> QED
  BY <1>2, <1>4, <1>5, <1>6, Zenon DEF Inv

\* Every step of the system preserves the invariant.
LEMMA NextInv == Inv /\ [Next]_vars => Inv'
<1>1. Inv /\ Memoria => Inv'
  BY MemRecibeInv, MemRespondeInv, Zenon DEF Memoria
<1>2. Inv /\ Cpu => Inv'
  BY CpuIniciaInv, CpuRecibePcbInv, CpuPideInv, CpuObtieneInv, CpuPideIoInv, CpuSemaforoInv,
     CpuDevuelveInv, Zenon DEF Cpu
<1>3. Inv /\ Corto => Inv'
  BY EnviarCpuInv, EsperarCpuInv, EsperarPcbInv, Zenon DEF Corto
<1>4. Inv /\ Consola => Inv'
  BY ConsolaPideInv, ConsolaObtieneInv, Zenon DEF Consola
<1>5. Inv /\ IoClient => Inv'
  BY IoClientConoceInv, IoClientMandaInv, IoClientOyeInv, Zenon DEF IoClient
<1>6. Inv /\ Interfaz => Inv'
  BY SaludaInv, IoRecibeInv, IoAccedeInv, IoAccedioInv, IoRespondeInv, Zenon DEF Interfaz
<1> QED
  BY <1>1, <1>2, <1>3, <1>4, <1>5, <1>6, InterrumpeInv, OyeInterrupcionInv, FinalizaProcesoInv,
     NadiePasa, Zenon DEF Next

\* What was said on each connection, and by whom, is what is on its way.
THEOREM ConexionesInv == Spec => []Inv
<1> QED
  BY InitInv, NextInv, PTL DEF Spec

\* An answer that says nothing has no bytes.
LEMMA AtendidoVacio ==
    ASSUME NEW ds, NEW e, NEW mem, NEW b, NEW d, d = <<>>, Atendido(ds, e, mem, b, d)
    PROVE  b = <<>>
<1>1. \A r : <<r.dicho>> # <<>>
  OBVIOUS
<1> QED
  BY <1>1, Zenon DEF Atendido, Nada

\* A connection that is not silent has bytes.
LEMMA AlgoSuena ==
    ASSUME Red, NEW c \in Idas
    PROVE  canal[c] = <<>> <=> dicho[c] = <<>>
<1> DEFINE x == canal[c]
           y == dicho[c]
<1>1. Suena(c, interfaz.tipo, x, y)
  BY Zenon DEF Red
<1>2. \A bytes, ds : Suena(c, interfaz.tipo, bytes, ds) => (bytes = <<>> <=> ds = <<>>)
  BY SuenaVacio
<1> HIDE DEF x, y
<1>3. x = <<>> <=> y = <<>>
  BY <1>1, <1>2
<1> QED
  BY <1>3 DEF x, y

\* The invariant: everyone has understood all that was said, and nothing that
\* was not said is on a connection.
LEMMA InvEntendidos == Inv => Entendidos
<1> SUFFICES ASSUME Inv, NEW c \in Canales PROVE entendido[c] /\ (dicho[c] = <<>> => canal[c] = <<>>)
  BY Zenon DEF Entendidos
<1>1. entendido[c]
  BY Zenon DEF Inv, Red
<1>2. CASE c \in Idas
  BY <1>1, <1>2, AlgoSuena, Zenon DEF Inv
<1>3. CASE c \notin Idas
  <2>1. \E k \in Clientes : c = De[k]
    BY <1>3, CanalesSon DEF Clientes
  <2>2. PICK k \in Clientes : c = De[k]
    BY <2>1, Zenon
  <2>3. Atendido(dicho[A[k]], Espera[k], memoria[k], canal[c], dicho[c])
    BY <2>2, Zenon DEF Inv, Atendidos
  <2> QED
    BY <1>1, <2>3, AtendidoVacio, Zenon
<1> QED
  BY <1>2, <1>3

\* A whole request is on its way to the thread of memoria of k.
LEMMA PedidoEntero ==
    ASSUME Red, NEW k \in Clientes, dicho[A[k]] # <<>>
    PROVE  canal[A[k]] # <<>> /\ recibir_mem(canal[A[k]]).n <= Len(canal[A[k]])
<1> DEFINE z == canal[A[k]]
           ds == dicho[A[k]]
<1>1. A[k] \in Idas /\ A[k] \in Range(A)
  BY CanalesSon, DeOtros, Zenon
<1>2. z # <<>>
  BY <1>1, AlgoSuena, Zenon
<1>3. \E b \in Octetos, t \in Octetos : z = b \o t /\ Dijo(A[k], interfaz.tipo, b, Head(ds))
  BY <1>1, <1>2, Primero, Zenon
<1>4. PICK b \in Octetos, t \in Octetos : z = b \o t /\ Dijo(A[k], interfaz.tipo, b, Head(ds))
  BY <1>3, Zenon
<1>5. DicePagina(b, Head(ds)) \/ DiceMem(b, Head(ds)) \/ DiceFin(b, Head(ds))
  BY <1>1, <1>4, DijoPor, Zenon
<1>6. recibir_mem(z).n = Len(b)
  <2>1. Justo(recibir_mem(z), b, Head(ds))
    BY <1>4, <1>5, LeePagina, LeeMem, LeeFin, Zenon DEF MemLeido
  <2> QED
    BY <2>1, Zenon DEF Justo
<1>7. Len(z) = Len(b) + Len(t) /\ Len(b) \in Nat /\ Len(t) \in Nat
  BY <1>4, Pega, Zenon
<1> DEFINE n == recibir_mem(z).n
<1>8. n <= Len(z)
  <2> HIDE DEF n, z
  <2>1. n = Len(b)
    BY <1>6, Zenon DEF n, z
  <2>2. \A i \in Nat, j \in Nat : i <= i + j
    OBVIOUS
  <2> QED
    BY <1>7, <2>1, <2>2, Zenon
<1> QED
  BY <1>2, <1>8, Zenon

\* The answer to e is whole.
LEMMA RespuestaEntera ==
    ASSUME NEW e \in Pedibles, NEW r \in Respuestas(e)
    PROVE  r.bytes # <<>> /\ recibir_respuesta(e, r.bytes).n <= Len(r.bytes)
<1>1. RespuestaBien(e, r)
  BY RespuestaDa, Zenon DEF Pedibles
<1>2. r.bytes \in Octetos /\ r.bytes # <<>> /\ recibir_respuesta(e, r.bytes).n = Len(r.bytes)
  BY <1>1, Zenon DEF RespuestaBien, Justo
<1> DEFINE l == Len(r.bytes)
<1>3. l \in Nat
  BY <1>2, Pega, Zenon
<1>4. \A i \in Nat : i <= i
  OBVIOUS
<1> HIDE DEF l
<1>5. l <= l
  BY <1>3, <1>4, Zenon
<1> QED
  BY <1>2, <1>5, Zenon DEF l

\* Nothing pends where nothing was said.
LEMMA NadaPende == ASSUME NEW e PROVE ~Pendiente(<<>>, e)
<1>1. 1 .. Len(<<>>) = {}
  OBVIOUS
<1> QED
  BY <1>1, Zenon DEF Pendiente

\* b is an answer to e.
Respondido(e, b) == e \in Pedibles /\ \E r \in Respuestas(e) : b = r.bytes

\* Who awaits something finds it asked, being served or answered.
LEMMA AtendidoEspera ==
    ASSUME NEW ds, NEW e, NEW mem, NEW b, NEW d
    PROVE  Atendido(ds, e, mem, b, d) =>
               e = "" \/ ds # <<>> \/ mem # "" \/ Respondido(e, b)
<1>1. Pendiente(ds, e) => ds # <<>>
  BY NadaPende, Zenon
<1> QED
  BY <1>1, Zenon DEF Atendido, Respondido

\* Who awaits an interface finds it busy, or something on its connection.
LEMMA TratoEspera ==
    ASSUME NEW en, NEW KI, NEW IK, Trato("espera", en, KI, IK)
    PROVE  KI # <<>> \/ IK # <<>> \/ en \notin {"saluda", "libre"}
<1>1. Len(<<>>) # 1
  OBVIOUS
<1>2. Len(KI) = 1 \/ Len(IK) = 1 \/ en \in Ocupada
  BY DEF Trato
<1>3. en \in Ocupada => en \notin {"saluda", "libre"}
  BY DEF Ocupada
<1> QED
  BY <1>1, <1>2, <1>3, Zenon

\* The invariant: no one waits in vain.
LEMMA InvEspera == Inv => NadieEsperaEnVano
<1> SUFFICES ASSUME Inv PROVE NadieEsperaEnVano
  OBVIOUS
<1>1. ASSUME NEW k \in Clientes, Espera[k] # ""
      PROVE  \E pide \in {canal[A[k]]}, b \in {canal[De[k]]} :
                \/ memoria[k] # ""
                \/ pide # <<>> /\ recibir_mem(pide).n <= Len(pide)
                \/ b # <<>> /\ recibir_respuesta(Espera[k], b).n <= Len(b)
  <2>1. Atendido(dicho[A[k]], Espera[k], memoria[k], canal[De[k]], dicho[De[k]])
    BY Zenon DEF Inv, Atendidos
  <2>2. \/ dicho[A[k]] # <<>>
        \/ memoria[k] # ""
        \/ Espera[k] \in Pedibles /\ \E r \in Respuestas(Espera[k]) : canal[De[k]] = r.bytes
    <3> DEFINE ds == dicho[A[k]]
               e == Espera[k]
               mem == memoria[k]
               b == canal[De[k]]
               d == dicho[De[k]]
    <3>1. Atendido(ds, e, mem, b, d) /\ e # ""
      BY <1>1, <2>1, Zenon
    <3> HIDE DEF ds, e, mem, b, d
    <3>2. e = "" \/ ds # <<>> \/ mem # "" \/ Respondido(e, b)
      BY <3>1, AtendidoEspera, Zenon
    <3> QED
      BY <3>1, <3>2, Zenon DEF ds, e, mem, b, Respondido
  <2>3. dicho[A[k]] # <<>> =>
            canal[A[k]] # <<>> /\ recibir_mem(canal[A[k]]).n <= Len(canal[A[k]])
    BY PedidoEntero, Zenon DEF Inv
  <2>4. Espera[k] \in Pedibles /\ (\E r \in Respuestas(Espera[k]) : canal[De[k]] = r.bytes) =>
            /\ canal[De[k]] # <<>>
            /\ recibir_respuesta(Espera[k], canal[De[k]]).n <= Len(canal[De[k]])
    BY RespuestaEntera, Zenon
  <2> QED
    BY <2>2, <2>3, <2>4, Zenon
<1>2. ASSUME io_client = "espera"
      PROVE  \/ canal["kernel_io"] # <<>> \/ canal["io_kernel"] # <<>>
             \/ interfaz.en \notin {"saluda", "libre"}
  <2>1. Trato("espera", interfaz.en, dicho["kernel_io"], dicho["io_kernel"])
    BY <1>2, Zenon DEF Inv, Tratos
  <2>2. dicho["kernel_io"] # <<>> \/ dicho["io_kernel"] # <<>> \/ interfaz.en \notin {"saluda", "libre"}
    BY <2>1, TratoEspera, Zenon
  <2>3. "kernel_io" \in Idas /\ "io_kernel" \in Idas
    BY CanalesSon
  <2> QED
    BY <2>2, <2>3, AlgoSuena, Zenon DEF Inv
<1> QED
  BY <1>1, <1>2, Zenon DEF NadieEsperaEnVano

\* Every receiver, of every thread of the system, takes the very bytes that
\* were sent to it and cuts them into the fields they were made of, whatever
\* the lengths of the strings, the frames of a request and the messages that
\* wait on a connection (the send and receive functions of utils and memoria).
THEOREM SiempreEntendidos == Spec => []Entendidos
<1> QED
  BY ConexionesInv, InvEntendidos, PTL

\* No thread waits for bytes that nobody will send: a client of memoria whose
\* request is unanswered has it on its way whole or being served, or a whole
\* answer, whatever the outcome; so with the kernel's thread of an interface.
THEOREM NuncaEnVano == Spec => []NadieEsperaEnVano
<1> QED
  BY ConexionesInv, InvEspera, PTL

=============================================================================
