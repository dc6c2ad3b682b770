---------------------------- MODULE Secuencias ----------------------------
(***************************************************************************)
(* Lemmas the proofs about the components share: what holds of an interval *)
(* of naturals by going up or down from one end, functions defined by      *)
(* recursion, quotients, and sequences laid one after the other.           *)
(***************************************************************************)
EXTENDS Integers, SequencesExt, SequenceTheorems, FiniteSetTheorems,
        WellFoundedInduction, TLAPS

-----------------------------------------------------------------------------
(* Naturals, and functions defined by recursion.                           *)

\* A set of naturals has a least element.
LEMMA Minimo ==
    ASSUME NEW T, T \subseteq Nat, T # {}
    PROVE  \E x \in T : \A y \in T : x <= y
<1>1. PICK x \in T : \A y \in T : ~ (<<y, x>> \in OpToRel(<, Nat))
  BY NatLessThanWellFounded, WFMin
<1>2. ASSUME NEW y \in T PROVE x <= y
  <2>1. <<y, x>> \notin OpToRel(<, Nat)
    BY <1>1
  <2>2. y \in Nat /\ x \in Nat
    OBVIOUS
  <2>3. ~(y < x)
    BY <2>1, <2>2 DEF OpToRel
  <2> QED
    BY <2>2, <2>3
<1> QED
  BY <1>2

\* What holds of 0, and of a natural when it holds of the one before, holds
\* of an interval.
LEMMA HaciaAdelante ==
    ASSUME NEW n \in Nat, NEW T, T \subseteq 0 .. n, 0 \in T,
           \A m \in 0 .. n - 1 : m \in T => m + 1 \in T
    PROVE  T = 0 .. n
<1> DEFINE F == 0 .. n \ T
<1> SUFFICES ASSUME F # {} PROVE FALSE
  OBVIOUS
<1>1. PICK x \in F : \A y \in F : x <= y
  <2>1. F \subseteq Nat
    OBVIOUS
  <2> HIDE DEF F
  <2> QED
    BY <2>1, Minimo
<1>2. x \in 0 .. n /\ x \notin T /\ x # 0
  OBVIOUS
<1>3. x - 1 \in 0 .. n - 1 /\ x - 1 \in 0 .. n /\ ~(x <= x - 1) /\ (x - 1) + 1 = x
  BY <1>2
<1>4. x - 1 \in T
  BY <1>1, <1>3
<1> QED
  BY <1>2, <1>3, <1>4

\* What holds of the last natural of an interval, and of a natural when it
\* holds of the next one, holds of all.
LEMMA HaciaAtras ==
    ASSUME NEW n \in Nat, NEW T, T \subseteq 0 .. n, n \in T,
           \A m \in 0 .. n - 1 : m + 1 \in T => m \in T
    PROVE  T = 0 .. n
<1> DEFINE F == {m \in 0 .. n : n - m \notin T}
<1> SUFFICES ASSUME F # {} PROVE FALSE
  <2>1. ASSUME NEW m \in 0 .. n, m \notin T PROVE FALSE
    <3>1. n - m \in 0 .. n /\ n - (n - m) = m
      OBVIOUS
    <3>2. n - m \in F
      BY <2>1, <3>1
    <3> QED
      BY <3>2
  <2> QED
    BY <2>1
<1>1. PICK x \in F : \A y \in F : x <= y
  <2>1. F \subseteq Nat
    OBVIOUS
  <2> HIDE DEF F
  <2> QED
    BY <2>1, Minimo
<1>2. x # 0
  BY <1>1
<1>3. x - 1 \in 0 .. n /\ ~(x <= x - 1)
  BY <1>1, <1>2
<1>4. n - (x - 1) \in T
  BY <1>1, <1>3
<1>5. n - x \in 0 .. n - 1 /\ (n - x) + 1 = n - (x - 1)
  BY <1>1, <1>2
<1>6. n - x \in T
  BY <1>4, <1>5
<1> QED
  BY <1>1, <1>6

\* A set of naturals up to n has a greatest element.
LEMMA Maximo ==
    ASSUME NEW n \in Nat, NEW T, T \subseteq 1 .. n, T # {}
    PROVE  Max(T) \in T /\ \A y \in T : Max(T) >= y
<1> DEFINE F == {m \in 0 .. n : n - m \in T}
<1>1. \A y \in T : y \in Nat /\ n - y \in F
  <2> TAKE y \in T
  <2>1. y \in 1 .. n /\ n - y \in 0 .. n /\ n - (n - y) = y
    OBVIOUS
  <2> QED
    BY <2>1
<1>2. F \subseteq Nat /\ F # {}
  <2>1. F \subseteq Nat
    OBVIOUS
  <2>2. PICK y \in T : TRUE
    OBVIOUS
  <2>3. n - y \in F
    BY <1>1, <2>2
  <2> HIDE DEF F
  <2> QED
    BY <2>1, <2>3
<1>3. \A m \in F : m \in 0 .. n /\ n - m \in T
  OBVIOUS
<1> HIDE DEF F
<1>4. PICK x \in F : \A y \in F : x <= y
  BY <1>2, Minimo
<1>5. n - x \in T /\ x \in 0 .. n
  BY <1>3
<1>6. \A y \in T : n - x >= y
  <2> TAKE y \in T
  <2>1. x <= n - y /\ y \in Nat
    BY <1>1, <1>4
  <2> QED
    BY <1>5, <2>1
<1>7. \E z \in T : \A y \in T : z >= y
  BY <1>5, <1>6
<1> QED
  BY <1>7 DEF Max

\* The lesser of two naturals.
LEMMA MinDos ==
    ASSUME NEW a \in Int, NEW b \in Int
    PROVE  Min({a, b}) = IF a <= b THEN a ELSE b
<1> DEFINE m == IF a <= b THEN a ELSE b
<1>1. m \in {a, b} /\ \A y \in {a, b} : m <= y
  OBVIOUS
<1>2. \A x \in {a, b} : (\A y \in {a, b} : x <= y) => x = m
  OBVIOUS
<1> HIDE DEF m
<1>3. Min({a, b}) \in {a, b} /\ \A y \in {a, b} : Min({a, b}) <= y
  BY <1>1 DEF Min
<1>4. Min({a, b}) = m
  BY <1>2, <1>3
<1> QED
  BY <1>4 DEF m

Recurre(f, n, base, paso) ==
    f[0] = base /\ \A k \in 1 .. n : f[k] = paso[<<f[k - 1], k>>]

\* Primitive recursion has a solution.
LEMMA Recursion ==
    ASSUME NEW n \in Nat, NEW V, NEW base \in V, NEW paso \in [V \X (1 .. n) -> V]
    PROVE  \E f \in [0 .. n -> V] : Recurre(f, n, base, paso)
<1> DEFINE Hasta(g, m) == /\ g \in [0 .. m -> V] /\ g[0] = base
                          /\ \A k \in 1 .. m : g[k] = paso[<<g[k - 1], k>>]
           T == {m \in 0 .. n : \E g : Hasta(g, m)}
<1>1. 0 \in T
  <2> DEFINE g == [k \in 0 .. 0 |-> base]
  <2>1. Hasta(g, 0)
    OBVIOUS
  <2> HIDE DEF g, Hasta
  <2> QED
    BY <2>1
<1>2. ASSUME NEW m \in 0 .. n - 1, m \in T PROVE m + 1 \in T
  <2>1. PICK g : Hasta(g, m)
    BY <1>2
  <2> DEFINE v == paso[<<g[m], m + 1>>]
             h == [k \in 0 .. m + 1 |-> IF k <= m THEN g[k] ELSE v]
  <2>2. g[m] \in V /\ m \in 0 .. m /\ m + 1 \in 1 .. n
    BY <2>1
  <2>3. v \in V
    BY <2>2
  <2> HIDE DEF v
  <2>4. h \in [0 .. m + 1 -> V]
    BY <2>1, <2>3
  <2>5. h[0] = base
    BY <2>1
  <2>6. ASSUME NEW k \in 1 .. m + 1 PROVE h[k] = paso[<<h[k - 1], k>>]
    <3>1. CASE k <= m
      <4>1. h[k] = g[k] /\ h[k - 1] = g[k - 1] /\ k \in 1 .. m
        BY <3>1
      <4> HIDE DEF h
      <4> QED
        BY <2>1, <4>1
    <3>2. CASE k = m + 1
      <4>1. h[k] = v /\ h[k - 1] = g[m] /\ k - 1 = m
        BY <3>2
      <4> HIDE DEF h
      <4> QED
        BY <3>2, <4>1 DEF v
    <3> QED
      BY <3>1, <3>2
  <2> HIDE DEF h
  <2>7. Hasta(h, m + 1)
    BY <2>4, <2>5, <2>6
  <2>8. m + 1 \in 0 .. n
    OBVIOUS
  <2> HIDE DEF Hasta
  <2> QED
    BY <2>7, <2>8
<1>3. T \subseteq 0 .. n
  OBVIOUS
<1> HIDE DEF T
<1>4. T = 0 .. n
  BY <1>1, <1>2, <1>3, HaciaAdelante
<1>5. n \in T
  BY <1>4
<1>6. PICK g : Hasta(g, n)
  BY <1>5 DEF T
<1> QED
  BY <1>6 DEF Recurre

\* Quotient and remainder are the only ones.
LEMMA Division ==
    ASSUME NEW m \in Nat \ {0}, NEW q \in Int, NEW r \in 0 .. m - 1
    PROVE  (q * m + r) \div m = q /\ (q * m + r) % m = r
OBVIOUS

\* A number is made of its quotient and its remainder.
LEMMA Resto ==
    ASSUME NEW m \in Nat \ {0}, NEW a \in Int
    PROVE  /\ a \div m \in Int /\ a % m \in 0 .. m - 1
           /\ a = (a \div m) * m + (a % m)
           /\ a \in Nat => a \div m \in Nat
           /\ a \in 0 .. m - 1 => a \div m = 0 /\ a % m = a
OBVIOUS

\* Sums and products of naturals, and a product by a positive one.
LEMMA Producto ==
    ASSUME NEW a \in Nat, NEW b \in Nat
    PROVE  a * b \in Nat /\ (b # 0 => a <= a * b) /\ a * b = b * a
OBVIOUS

\* The quotient is less than c when the number is less than c times m.
LEMMA Cociente ==
    ASSUME NEW m \in Nat \ {0}, NEW a \in Nat, NEW c \in Nat
    PROVE  a \div m < c <=> a < c * m
OBVIOUS

-----------------------------------------------------------------------------
(* Sequences laid one after the other.                                     *)

\* Two by two from the left or from the right.
LEMMA Asocia ==
    ASSUME NEW S, NEW a \in Seq(S), NEW b \in Seq(S), NEW c \in Seq(S)
    PROVE  (a \o b) \o c = a \o (b \o c)
BY ConcatAssociative, SMTT(60)

Aplana(f, ss, S) ==
    /\ f \in [1 .. Len(ss) -> Seq(S)]
    /\ f[1] = ss[1] /\ FlattenSeq(ss) = f[Len(ss)]
    /\ \A i \in 2 .. Len(ss) : f[i] = f[i - 1] \o ss[i]

\* What FlattenSeq computes.
LEMMA AplanaDefinida ==
    ASSUME NEW S, NEW ss \in Seq(Seq(S)), ss # <<>>
    PROVE  \E f : Aplana(f, ss, S)
<1> DEFINE n == Len(ss)
<1>1. n \in Nat \ {0} /\ \A i \in 1 .. n : ss[i] \in Seq(S)
  BY EmptySeq, ElementOfSeq
<1> HIDE DEF n
<1> DEFINE V == Seq(S)
           paso == [e \in V \X (1 .. n - 1) |-> e[1] \o ss[e[2] + 1]]
<1>2. paso \in [V \X (1 .. n - 1) -> V]
  <2>1. ASSUME NEW v \in V, NEW k \in 1 .. n - 1 PROVE v \o ss[k + 1] \in V
    <3>1. ss[k + 1] \in Seq(S)
      BY <1>1
    <3> QED
      BY <3>1, ConcatProperties
  <2> QED
    BY <2>1
<1>3. \A v \in V, k \in 1 .. n - 1 : paso[<<v, k>>] = v \o ss[k + 1]
  OBVIOUS
<1>4. ss[1] \in V /\ n - 1 \in Nat
  BY <1>1
<1> HIDE DEF paso, V
<1>5. PICK g \in [0 .. n - 1 -> V] : Recurre(g, n - 1, ss[1], paso)
  BY <1>2, <1>4, Recursion
<1>6. g[0] = ss[1] /\ \A k \in 1 .. n - 1 : g[k] = paso[<<g[k - 1], k>>]
  BY <1>5 DEF Recurre
<1>7. \A k \in 1 .. n - 1 : g[k] = g[k - 1] \o ss[k + 1]
  <2> TAKE k \in 1 .. n - 1
  <2>1. g[k - 1] \in V
    BY <1>1, <1>5
  <2> QED
    BY <1>3, <1>6, <2>1
<1> DEFINE F(f) == f = [i \in 1 .. Len(ss) |-> IF i = 1 THEN ss[i] ELSE f[i - 1] \o ss[i]]
           h == [i \in 1 .. n |-> g[i - 1]]
<1>8. F(h)
  <2>1. ASSUME NEW i \in 1 .. n PROVE h[i] = IF i = 1 THEN ss[i] ELSE h[i - 1] \o ss[i]
    <3>1. CASE i = 1
      BY <1>1, <1>6, <3>1
    <3>2. CASE i # 1
      <4>1. i - 1 \in 1 .. n /\ i - 1 \in 1 .. n - 1 /\ (i - 1) + 1 = i
        BY <1>1, <3>2
      <4>2. h[i] = g[i - 1] /\ h[i - 1] = g[(i - 1) - 1]
        BY <4>1
      <4>3. g[i - 1] = g[(i - 1) - 1] \o ss[(i - 1) + 1]
        BY <1>7, <4>1
      <4> HIDE DEF h
      <4> QED
        BY <3>2, <4>1, <4>2, <4>3
    <3> QED
      BY <3>1, <3>2
  <2>2. h = [i \in 1 .. n |-> h[i]]
    OBVIOUS
  <2> HIDE DEF h
  <2> QED
    BY <2>1, <2>2 DEF n
<1> DEFINE f == CHOOSE f : F(f)
<1>9. F(f)
  <2> HIDE DEF F, h
  <2> QED
    BY <1>8
<1>10. FlattenSeq(ss) = f[n]
  <2>1. Len(ss) # 0
    BY <1>1 DEF n
  <2> QED
    BY <2>1, Zenon DEF FlattenSeq, n
<1> HIDE DEF f
<1>11. f = [i \in 1 .. n |-> IF i = 1 THEN ss[i] ELSE f[i - 1] \o ss[i]]
  BY <1>9 DEF n
<1> HIDE DEF F
<1>12. f[1] = ss[1] /\ \A i \in 2 .. n : f[i] = f[i - 1] \o ss[i]
  <2>1. 1 \in 1 .. n /\ \A i \in 2 .. n : i \in 1 .. n /\ i # 1
    BY <1>1
  <2> QED
    BY <1>11, <2>1
<1>13. \A i \in 1 .. n : f[i] \in Seq(S)
  <2> DEFINE T == {k \in 0 .. n - 1 : f[k + 1] \in Seq(S)}
  <2>1. 0 \in T
    BY <1>1, <1>4, <1>12
  <2>2. ASSUME NEW m \in 0 .. (n - 1) - 1, m \in T PROVE m + 1 \in T
    <3>1. /\ (m + 1) + 1 \in 2 .. n /\ ((m + 1) + 1) - 1 = m + 1 /\ (m + 1) + 1 \in 1 .. n
          /\ m + 1 \in 0 .. n - 1
      BY <1>1
    <3>2. f[(m + 1) + 1] = f[m + 1] \o ss[(m + 1) + 1]
      BY <1>12, <3>1
    <3>3. f[m + 1] \in Seq(S) /\ ss[(m + 1) + 1] \in Seq(S)
      BY <1>1, <2>2, <3>1
    <3>4. f[(m + 1) + 1] \in Seq(S)
      BY <3>2, <3>3, ConcatProperties
    <3> QED
      BY <3>1, <3>4
  <2>3. T \subseteq 0 .. n - 1
    OBVIOUS
  <2> HIDE DEF T
  <2>4. T = 0 .. n - 1
    BY <1>4, <2>1, <2>2, <2>3, HaciaAdelante
  <2> TAKE i \in 1 .. n
  <2>5. i - 1 \in T /\ (i - 1) + 1 = i
    BY <1>1, <2>4
  <2> QED
    BY <2>5 DEF T
<1>14. f \in [1 .. n -> Seq(S)]
  <2>1. \A w : f = [i \in 1 .. n |-> IF i = 1 THEN ss[i] ELSE w[i - 1] \o ss[i]]
                => f = [i \in 1 .. n |-> f[i]]
    OBVIOUS
  <2> QED
    BY <1>11, <1>13, <2>1
<1> QED
  BY <1>10, <1>12, <1>14 DEF n, Aplana

\* Nothing, and one sequence before the rest.
LEMMA AplanaDa ==
    ASSUME NEW S
    PROVE  /\ FlattenSeq(<<>>) = <<>>
           /\ \A ss \in Seq(Seq(S)) : FlattenSeq(ss) \in Seq(S)
           /\ \A x \in Seq(S), ss \in Seq(Seq(S)) :
                FlattenSeq(<<x>> \o ss) = x \o FlattenSeq(ss)
<1>1. FlattenSeq(<<>>) = <<>>
  <2>1. Len(<<>>) = 0
    OBVIOUS
  <2> QED
    BY <2>1, Zenon DEF FlattenSeq
<1>2. ASSUME NEW ss \in Seq(Seq(S)) PROVE FlattenSeq(ss) \in Seq(S)
  <2>1. CASE ss = <<>>
    BY <1>1, <2>1, EmptySeq
  <2>2. CASE ss # <<>>
    <3>1. Len(ss) \in 1 .. Len(ss)
      BY <2>2, EmptySeq
    <3>2. PICK f : Aplana(f, ss, S)
      BY <2>2, AplanaDefinida
    <3> QED
      BY <3>1, <3>2 DEF Aplana
  <2> QED
    BY <2>1, <2>2
<1>3. ASSUME NEW x \in Seq(S), NEW ss \in Seq(Seq(S))
      PROVE  FlattenSeq(<<x>> \o ss) = x \o FlattenSeq(ss)
  <2> DEFINE n == Len(ss)
             tt == <<x>> \o ss
  <2>1. <<x>> \in Seq(Seq(S)) /\ Len(<<x>>) = 1 /\ <<x>>[1] = x /\ n \in Nat
    OBVIOUS
  <2>2. /\ tt \in Seq(Seq(S)) /\ Len(tt) = 1 + n
        /\ \A i \in 1 .. 1 + n : tt[i] = IF i <= 1 THEN <<x>>[i] ELSE ss[i - 1]
    BY <2>1, ConcatProperties
  <2> HIDE DEF n, tt
  <2>3. tt # <<>> /\ tt[1] = x /\ \A i \in 1 .. n : tt[i + 1] = ss[i]
    <3>1. tt # <<>>
      BY <2>1, <2>2
    <3>2. 1 \in 1 .. 1 + n
      BY <2>1
    <3>3. tt[1] = x
      BY <2>1, <2>2, <3>2
    <3>4. ASSUME NEW i \in 1 .. n PROVE tt[i + 1] = ss[i]
      <4>1. i + 1 \in 1 .. 1 + n /\ ~(i + 1 <= 1) /\ (i + 1) - 1 = i
        BY <2>1
      <4> QED
        BY <2>2, <4>1
    <3> QED
      BY <3>1, <3>3, <3>4
  <2>31. PICK f : Aplana(f, tt, S)
    BY <2>2, <2>3, AplanaDefinida
  <2>4. /\ f \in [1 .. 1 + n -> Seq(S)] /\ f[1] = tt[1] /\ FlattenSeq(tt) = f[1 + n]
        /\ \A i \in 2 .. 1 + n : f[i] = f[i - 1] \o tt[i]
    BY <2>2, <2>31 DEF Aplana
  <2>5. CASE n = 0
    <3>1. ss = <<>> /\ FlattenSeq(tt) = x /\ FlattenSeq(ss) = <<>>
      <4>1. ss = <<>>
        BY <2>5, EmptySeq DEF n
      <4> QED
        BY <1>1, <2>3, <2>4, <2>5, <4>1
    <3> QED
      BY <3>1, ConcatEmptySeq DEF tt
  <2>6. CASE n # 0
    <3>1. ss # <<>>
      BY <2>6, EmptySeq DEF n
    <3>11. PICK g : Aplana(g, ss, S)
      BY <3>1, AplanaDefinida
    <3>2. /\ g \in [1 .. n -> Seq(S)] /\ g[1] = ss[1] /\ FlattenSeq(ss) = g[n]
          /\ \A i \in 2 .. n : g[i] = g[i - 1] \o ss[i]
      BY <3>11 DEF Aplana, n
    <3> DEFINE T == {k \in 0 .. n - 1 : f[k + 2] = x \o g[k + 1]}
    <3>3. 0 \in T
      <4>1. f[2] = f[1] \o tt[2] /\ tt[2] = ss[1]
        <5>1. 2 \in 2 .. 1 + n /\ 2 - 1 = 1 /\ 1 \in 1 .. n /\ 1 + 1 = 2
          BY <2>1, <2>6
        <5> QED
          BY <2>3, <2>4, <5>1
      <4>11. f[1] = x /\ g[1] = ss[1] /\ 0 + 2 = 2 /\ 0 + 1 = 1 /\ 0 \in 0 .. n - 1
        BY <2>1, <2>3, <2>4, <2>6, <3>2
      <4>2. f[0 + 2] = x \o g[0 + 1] /\ 0 \in 0 .. n - 1
        BY <4>1, <4>11
      <4> QED
        BY <4>2
    <3>4. ASSUME NEW m \in 0 .. (n - 1) - 1, m \in T PROVE m + 1 \in T
      <4>1. /\ m + 3 \in 2 .. 1 + n /\ (m + 3) - 1 = m + 2 /\ m + 2 \in 1 .. n
            /\ (m + 2) + 1 = m + 3 /\ m + 2 \in 2 .. n /\ (m + 2) - 1 = m + 1
            /\ m + 1 \in 1 .. n /\ m + 1 \in 0 .. n - 1 /\ (m + 1) + 2 = m + 3
            /\ (m + 1) + 1 = m + 2
        BY <2>1
      <4>2. f[m + 3] = f[m + 2] \o ss[m + 2] /\ g[m + 2] = g[m + 1] \o ss[m + 2]
        <5>1. f[m + 3] = f[(m + 3) - 1] \o tt[m + 3]
          BY <2>4, <4>1, ZenonT(90)
        <5>2. tt[m + 3] = ss[m + 2]
          BY <2>3, <4>1
        <5>3. g[m + 2] = g[(m + 2) - 1] \o ss[m + 2]
          BY <3>2, <4>1, ZenonT(90)
        <5>4. f[(m + 3) - 1] = f[m + 2] /\ g[(m + 2) - 1] = g[m + 1]
          BY <4>1
        <5> QED
          BY <5>1, <5>2, <5>3, <5>4, ZenonT(90)
      <4>3. f[m + 2] = x \o g[m + 1]
        BY <3>4
      <4>4. g[m + 1] \in Seq(S) /\ ss[m + 2] \in Seq(S)
        <5>1. ss[m + 2] \in Seq(S)
          BY <4>1, ElementOfSeq DEF n
        <5> QED
          BY <3>2, <4>1, <5>1
      <4>5. (x \o g[m + 1]) \o ss[m + 2] = x \o (g[m + 1] \o ss[m + 2])
        <5> DEFINE a == g[m + 1]
                   b == ss[m + 2]
        <5>1. a \in Seq(S) /\ b \in Seq(S) /\ x \in Seq(S)
          BY <4>4
        <5> HIDE DEF a, b
        <5>2. (x \o a) \o b = x \o (a \o b)
          BY <5>1, Asocia, SMTT(60)
        <5> QED
          BY <5>2 DEF a, b
      <4>6. f[(m + 1) + 2] = x \o g[(m + 1) + 1]
        BY <4>1, <4>2, <4>3, <4>5
      <4> QED
        BY <4>1, <4>6
    <3>5. T \subseteq 0 .. n - 1
      OBVIOUS
    <3>6. n - 1 \in Nat /\ n - 1 \in 0 .. n - 1 /\ (n - 1) + 2 = 1 + n /\ (n - 1) + 1 = n
      BY <2>1, <2>6
    <3> HIDE DEF T
    <3>7. T = 0 .. n - 1
      BY <3>3, <3>4, <3>5, <3>6, HaciaAdelante
    <3>8. n - 1 \in T
      BY <3>6, <3>7
    <3>9. f[1 + n] = x \o g[n]
      BY <3>6, <3>8 DEF T
    <3> QED
      BY <2>4, <3>2, <3>9 DEF tt
  <2> QED
    BY <2>5, <2>6
<1> QED
  BY <1>1, <1>2, <1>3

=============================================================================
