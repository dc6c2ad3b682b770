----------------------------- MODULE CpuProofs -----------------------------
(***************************************************************************)
(* Proofs about the instruction cycle of Cpu, for any width of byte and    *)
(* word, size of page, number of frames, script and interfaces.            *)
(***************************************************************************)
EXTENDS Cpu, Secuencias

-----------------------------------------------------------------------------
(* Bytes and words.                                                        *)

\* The powers of Base are positive.
LEMMA PotenciaDa ==
    /\ Potencia[0] = 1
    /\ \A k \in 1 .. Ancho : Potencia[k] = Base * Potencia[k - 1]
    /\ \A k \in 0 .. Ancho : Potencia[k] \in Nat \ {0}
    /\ Base \in Nat \ {0} /\ Ancho \in Nat \ {0} /\ TamPagina \in Nat \ {0}
    /\ CantMarcos \in Nat \ {0}
<1>1. Base \in Nat \ {0} /\ Ancho \in Nat \ {0} /\ TamPagina \in Nat \ {0} /\ CantMarcos \in Nat \ {0}
  BY CpuAssumption
<1> DEFINE V == Nat \ {0}
           paso == [e \in V \X (1 .. Ancho) |-> Base * e[1]]
<1>2. paso \in [V \X (1 .. Ancho) -> V]
  <2>1. ASSUME NEW v \in V PROVE Base * v \in V
    BY <1>1
  <2> QED
    BY <2>1
<1>3. \A v \in V, k \in 1 .. Ancho : paso[<<v, k>>] = Base * v
  OBVIOUS
<1>31. 1 \in V /\ Ancho \in Nat
  BY <1>1
<1> HIDE DEF paso, V
<1>41. PICK f \in [0 .. Ancho -> V] : Recurre(f, Ancho, 1, paso)
  BY <1>2, <1>31, Recursion
<1>4. f[0] = 1 /\ \A k \in 1 .. Ancho : f[k] = paso[<<f[k - 1], k>>]
  BY <1>41 DEF Recurre
<1>5. \A k \in 1 .. Ancho : f[k] = Base * f[k - 1]
  <2> TAKE k \in 1 .. Ancho
  <2>1. k - 1 \in 0 .. Ancho
    BY <1>1
  <2> QED
    BY <1>3, <1>4, <2>1
<1>6. f = [k \in 0 .. Ancho |-> IF k = 0 THEN 1 ELSE Base * f[k - 1]]
  <2>1. \A k \in 0 .. Ancho : f[k] = IF k = 0 THEN 1 ELSE Base * f[k - 1]
    <3> TAKE k \in 0 .. Ancho
    <3>1. k = 0 \/ k \in 1 .. Ancho
      BY <1>1
    <3> QED
      BY <1>4, <1>5, <3>1
  <2> QED
    BY <1>4, <2>1
<1>7. Potencia = [k \in 0 .. Ancho |-> IF k = 0 THEN 1 ELSE Base * Potencia[k - 1]]
  BY <1>6 DEF Potencia
<1>8. Potencia[0] = 1 /\ \A k \in 1 .. Ancho : Potencia[k] = Base * Potencia[k - 1]
  <2>1. 0 \in 0 .. Ancho /\ \A k \in 1 .. Ancho : k \in 0 .. Ancho /\ k # 0
    BY <1>1
  <2> QED
    BY <1>7, <2>1
<1> DEFINE T == {k \in 0 .. Ancho : Potencia[k] \in V}
<1>9. 0 \in T
  BY <1>1, <1>8 DEF V
<1>10. ASSUME NEW m \in 0 .. Ancho - 1, m \in T PROVE m + 1 \in T
  <2>1. m + 1 \in 1 .. Ancho /\ (m + 1) - 1 = m /\ Potencia[m] \in V /\ m + 1 \in 0 .. Ancho
    BY <1>1, <1>10
  <2>2. Potencia[m + 1] = Base * Potencia[m]
    BY <1>8, <2>1
  <2> QED
    BY <1>1, <2>1, <2>2, SMTT(60) DEF V
<1>11. T \subseteq 0 .. Ancho
  OBVIOUS
<1> HIDE DEF T
<1>12. T = 0 .. Ancho
  BY <1>1, <1>9, <1>10, <1>11, HaciaAdelante
<1> QED
  BY <1>1, <1>8, <1>12 DEF T, V

\* A word holds a byte, and the numbers of the code fit.
LEMMA MDa ==
    /\ M \in Nat \ {0} /\ Base <= M /\ Potencia[1] = Base
    /\ 2 * TamPagina <= M /\ 2 * Ancho <= M /\ CantMarcos * TamPagina < M
    /\ \A k \in 0 .. Ancho - 1 : Potencia[k] <= Potencia[k + 1]
<1>1. 0 \in 0 .. Ancho /\ Ancho \in 0 .. Ancho /\ Ancho \in 1 .. Ancho /\ Ancho - 1 \in 0 .. Ancho
      /\ 1 \in 1 .. Ancho /\ 1 - 1 = 0
  BY PotenciaDa
<1>2. M = Base * Potencia[Ancho - 1] /\ Potencia[Ancho - 1] \in Nat \ {0}
  BY <1>1, PotenciaDa DEF M
<1>3. Base <= Base * Potencia[Ancho - 1]
  BY <1>2, PotenciaDa
<1>4. Potencia[1] = Base
  BY <1>1, PotenciaDa
<1>5. ASSUME NEW k \in 0 .. Ancho - 1 PROVE Potencia[k] <= Potencia[k + 1]
  <2>1. k \in 0 .. Ancho /\ k + 1 \in 1 .. Ancho /\ (k + 1) - 1 = k
    BY PotenciaDa
  <2>2. Potencia[k + 1] = Base * Potencia[k] /\ Potencia[k] \in Nat \ {0}
    BY <2>1, PotenciaDa
  <2>3. Potencia[k] <= Base * Potencia[k]
    <3>1. \A p \in Nat : p <= p * Base /\ p * Base = Base * p
      BY Producto, PotenciaDa
    <3> QED
      BY <2>2, <3>1
  <2> QED
    BY <2>2, <2>3
<1>6. M \in Nat \ {0}
  BY <1>1, PotenciaDa DEF M
<1> QED
  BY <1>2, <1>3, <1>4, <1>5, <1>6, TamAssumption

\* What Valor computes.
LEMMA ValorDefinido ==
    ASSUME NEW n \in 0 .. Ancho, NEW bytes \in [1 .. n -> Byte]
    PROVE  /\ Len(bytes) = n
           /\ \E v \in [0 .. n -> Nat] :
                /\ v[0] = 0 /\ v[n] = Valor(bytes)
                /\ \A k \in 1 .. n : v[k] = v[k - 1] + bytes[k] * Potencia[k - 1]
<1>1. n \in Nat /\ Byte \subseteq Nat
  BY PotenciaDa DEF Byte
<1>2. bytes \in Seq(Byte) /\ Len(bytes) = n
  BY <1>1
<1>3. \A k \in 1 .. n : bytes[k] \in Nat /\ Potencia[k - 1] \in Nat
  <2> TAKE k \in 1 .. n
  <2>1. k - 1 \in 0 .. Ancho
    BY PotenciaDa
  <2> QED
    BY <1>1, <2>1, PotenciaDa
<1> DEFINE paso == [e \in Nat \X (1 .. n) |-> e[1] + bytes[e[2]] * Potencia[e[2] - 1]]
<1>4. paso \in [Nat \X (1 .. n) -> Nat]
  <2>1. ASSUME NEW v \in Nat, NEW k \in 1 .. n PROVE v + bytes[k] * Potencia[k - 1] \in Nat
    <3>1. bytes[k] * Potencia[k - 1] \in Nat
      BY <1>3, Producto
    <3> QED
      BY <3>1
  <2> QED
    BY <2>1
<1>5. \A v \in Nat, k \in 1 .. n : paso[<<v, k>>] = v + bytes[k] * Potencia[k - 1]
  OBVIOUS
<1> HIDE DEF paso
<1>61. PICK f \in [0 .. n -> Nat] : Recurre(f, n, 0, paso)
  <2>1. 0 \in Nat
    OBVIOUS
  <2> QED
    BY <1>1, <1>4, <2>1, Recursion
<1>6. f[0] = 0 /\ \A k \in 1 .. n : f[k] = paso[<<f[k - 1], k>>]
  BY <1>61 DEF Recurre
<1>7. \A k \in 1 .. n : f[k] = f[k - 1] + bytes[k] * Potencia[k - 1]
  <2> TAKE k \in 1 .. n
  <2>1. f[k - 1] \in Nat
    BY <1>1, <1>6
  <2> QED
    BY <1>5, <1>6, <2>1
<1> DEFINE E(v) == v = [k \in 0 .. Len(bytes) |->
                            IF k = 0 THEN 0 ELSE v[k - 1] + bytes[k] * Potencia[k - 1]]
<1>8. E(f)
  <2>1. \A k \in 0 .. n : f[k] = IF k = 0 THEN 0 ELSE f[k - 1] + bytes[k] * Potencia[k - 1]
    <3> TAKE k \in 0 .. n
    <3>1. k = 0 \/ k \in 1 .. n
      BY <1>1
    <3> QED
      BY <1>6, <1>7, <3>1
  <2> QED
    BY <1>2, <1>6, <2>1
<1> DEFINE v == CHOOSE v : E(v)
<1>9. Valor(bytes) = v[Len(bytes)]
  BY Zenon DEF Valor
<1>10. E(v)
  <2> HIDE DEF E
  <2> QED
    BY <1>8
<1> HIDE DEF v
<1>11. v[0] = 0 /\ \A k \in 1 .. n : v[k] = v[k - 1] + bytes[k] * Potencia[k - 1]
  <2>1. 0 \in 0 .. n /\ \A k \in 1 .. n : k \in 0 .. n /\ k # 0
    BY <1>1
  <2>2. v = [k \in 0 .. n |-> IF k = 0 THEN 0 ELSE v[k - 1] + bytes[k] * Potencia[k - 1]]
    BY <1>2, <1>10
  <2> HIDE DEF E
  <2> QED
    BY <2>1, <2>2
<1> DEFINE T == {k \in 0 .. n : v[k] \in Nat}
<1>12. T = 0 .. n
  <2>1. 0 \in T
    BY <1>1, <1>11
  <2>2. ASSUME NEW m \in 0 .. n - 1, m \in T PROVE m + 1 \in T
    <3>1. m + 1 \in 1 .. n /\ (m + 1) - 1 = m /\ m + 1 \in 0 .. n /\ v[m] \in Nat
      BY <1>1, <2>2
    <3>2. v[m + 1] = v[m] + bytes[m + 1] * Potencia[m]
      BY <1>11, <3>1
    <3>3. bytes[m + 1] \in Nat /\ Potencia[m] \in Nat
      BY <1>3, <3>1
    <3>4. bytes[m + 1] * Potencia[m] \in Nat
      BY <3>3, Producto
    <3>5. v[m + 1] \in Nat
      <4> HIDE DEF v
      <4> QED
        BY <3>1, <3>2, <3>4, SMTT(60)
    <3> QED
      BY <3>1, <3>5
  <2>3. T \subseteq 0 .. n
    OBVIOUS
  <2> HIDE DEF T
  <2> QED
    BY <1>1, <2>1, <2>2, <2>3, HaciaAdelante
<1>13. v = [k \in 0 .. n |-> v[k]]
  <2>1. v = [k \in 0 .. n |-> IF k = 0 THEN 0 ELSE v[k - 1] + bytes[k] * Potencia[k - 1]]
    BY <1>2, <1>10
  <2> HIDE DEF E
  <2>2. \A w : v = [k \in 0 .. n |-> w[k]] => v = [k \in 0 .. n |-> v[k]]
    OBVIOUS
  <2> QED
    BY <2>1
<1>14. v \in [0 .. n -> Nat]
  <2>1. \A k \in 0 .. n : v[k] \in Nat
    BY <1>12
  <2> HIDE DEF E, T
  <2> QED
    BY <1>13, <2>1
<1> HIDE DEF E, T
<1> QED
  BY <1>2, <1>9, <1>11, <1>14

\* n bytes are a number below Base ^ n, and each byte is a digit of it.
LEMMA ValorDa ==
    ASSUME NEW n \in 0 .. Ancho, NEW bytes \in [1 .. n -> Byte]
    PROVE  /\ Valor(bytes) \in 0 .. Potencia[n] - 1
           /\ ABytes(Valor(bytes), n) = bytes
<1>1. n \in Nat /\ Byte = 0 .. Base - 1 /\ Base \in Nat \ {0}
  BY PotenciaDa DEF Byte
<1>2. PICK v \in [0 .. n -> Nat] :
            /\ v[0] = 0 /\ v[n] = Valor(bytes)
            /\ \A k \in 1 .. n : v[k] = v[k - 1] + bytes[k] * Potencia[k - 1]
  BY ValorDefinido
<1>3. \A k \in 1 .. n : /\ k - 1 \in 0 .. n /\ k \in 0 .. n /\ k \in 1 .. Ancho
                        /\ k - 1 \in 0 .. Ancho /\ k \in 0 .. Ancho
                        /\ bytes[k] \in 0 .. Base - 1
                        /\ Potencia[k - 1] \in Nat \ {0} /\ Potencia[k] = Base * Potencia[k - 1]
  BY <1>1, PotenciaDa, SMTT(60)
<1>4. \A k \in 0 .. n : v[k] \in 0 .. Potencia[k] - 1
  <2> DEFINE T == {k \in 0 .. n : v[k] \in 0 .. Potencia[k] - 1}
  <2>1. 0 \in T
    BY <1>1, <1>2, PotenciaDa
  <2>2. ASSUME NEW m \in 0 .. n - 1, m \in T PROVE m + 1 \in T
    <3>1. m + 1 \in 1 .. n /\ (m + 1) - 1 = m /\ m + 1 \in 0 .. n
      BY <1>1
    <3> DEFINE p == Potencia[m]
               b == bytes[m + 1]
               u == v[m]
    <3>2. p \in Nat \ {0} /\ b \in 0 .. Base - 1 /\ u \in 0 .. p - 1
          /\ Potencia[m + 1] = Base * p /\ v[m + 1] = u + b * p
      BY <1>2, <1>3, <2>2, <3>1
    <3> HIDE DEF p, b, u
    <3>3. u + b * p \in 0 .. (Base * p) - 1
      <4>1. b * p \in Nat /\ (Base - 1) * p = Base * p - p /\ Base * p \in Int
        BY <1>1, <3>2
      <4>2. b * p <= (Base - 1) * p
        BY <1>1, <3>2
      <4> QED
        BY <3>2, <4>1, <4>2, SMTT(60)
    <3> QED
      BY <3>1, <3>2, <3>3
  <2>3. T \subseteq 0 .. n
    OBVIOUS
  <2> HIDE DEF T
  <2>4. T = 0 .. n
    BY <1>1, <2>1, <2>2, <2>3, HaciaAdelante
  <2> QED
    BY <2>4 DEF T
<1>5. ASSUME NEW k \in 1 .. n PROVE (Valor(bytes) \div Potencia[k - 1]) % Base = bytes[k]
  <2> DEFINE p == Potencia[k - 1]
             b == bytes[k]
             u == v[k - 1]
  <2>1. p \in Nat \ {0} /\ b \in 0 .. Base - 1 /\ u \in 0 .. p - 1 /\ v[k] = u + b * p
    BY <1>2, <1>3, <1>4
  <2> DEFINE T == {j \in 0 .. n - k : \E c \in Nat : v[k + j] = (c * Base + b) * p + u}
  <2>2. 0 \in T
    <3>1. 0 \in 0 .. n - k /\ k + 0 = k /\ 0 \in Nat
      BY <1>1
    <3>2. v[k + 0] = (0 * Base + b) * p + u
      BY <1>1, <2>1, <3>1
    <3> HIDE DEF p, b, u
    <3> QED
      BY <3>1, <3>2
  <2>3. ASSUME NEW m \in 0 .. (n - k) - 1, m \in T PROVE m + 1 \in T
    <3>1. PICK c \in Nat : v[k + m] = (c * Base + b) * p + u
      BY <2>3
    <3>2. /\ k + (m + 1) \in 1 .. n /\ (k + (m + 1)) - 1 = k + m /\ m + 1 \in 0 .. n - k
          /\ k + m \in 1 .. n
      BY <1>1
    <3> DEFINE x == bytes[k + (m + 1)]
    <3>3. v[k + (m + 1)] = v[k + m] + x * Potencia[k + m] /\ x \in Nat
      <4>1. v[k + (m + 1)] = v[(k + (m + 1)) - 1] + x * Potencia[(k + (m + 1)) - 1]
        BY <1>2, <3>2, Zenon
      <4>2. x \in 0 .. Base - 1
        BY <1>3, <3>2, Zenon
      <4> HIDE DEF x
      <4>3. x \in Nat
        BY <1>1, <4>2
      <4> QED
        BY <3>2, <4>1, <4>3, Zenon
    <3>4. PICK r \in Nat : Potencia[k + m] = (r * Base) * p
      <4> DEFINE R == {j \in 0 .. m : \E r \in Nat : Potencia[k + j] = (r * Base) * p}
      <4>1. 0 \in R
        <5>1. Potencia[k] = Base * p /\ k + 0 = k /\ 1 \in Nat /\ 0 \in 0 .. m
          BY <1>3
        <5>2. Potencia[k + 0] = (1 * Base) * p
          BY <1>1, <2>1, <5>1
        <5> HIDE DEF p
        <5> QED
          BY <5>1, <5>2
      <4>2. ASSUME NEW i \in 0 .. m - 1, i \in R PROVE i + 1 \in R
        <5>1. PICK r \in Nat : Potencia[k + i] = (r * Base) * p
          BY <4>2
        <5>2. k + (i + 1) \in 1 .. n /\ (k + (i + 1)) - 1 = k + i /\ i + 1 \in 0 .. m
          BY <1>1
        <5>3. Potencia[k + (i + 1)] = Base * Potencia[k + i]
          BY <1>3, <5>2
        <5>4. Base * ((r * Base) * p) = ((Base * r) * Base) * p /\ Base * r \in Nat
          BY <1>1, <2>1, SMTT(60)
        <5>5. Potencia[k + (i + 1)] = ((Base * r) * Base) * p
          BY <5>1, <5>3, <5>4
        <5> HIDE DEF p
        <5> QED
          BY <5>2, <5>4, <5>5
      <4>3. R \subseteq 0 .. m
        OBVIOUS
      <4> HIDE DEF R
      <4>31. m \in Nat
        BY <1>1
      <4>4. R = 0 .. m
        BY <4>31, <4>1, <4>2, <4>3, HaciaAdelante
      <4>5. m \in R
        BY <4>4
      <4> QED
        BY <4>5 DEF R
    <3> HIDE DEF x, p, b, u
    <3>5. (c * Base + b) * p + u + x * ((r * Base) * p) = ((c + x * r) * Base + b) * p + u
      BY <1>1, <2>1, <3>3
    <3>6. c + x * r \in Nat
      <4> DEFINE y == x * r
      <4>1. y \in Nat
        BY <3>3, Producto, Zenon
      <4> HIDE DEF y
      <4>2. c + y \in Nat
        BY <4>1
      <4> QED
        BY <4>2 DEF y
    <3>7. v[k + (m + 1)] = ((c + x * r) * Base + b) * p + u
      BY <3>1, <3>3, <3>4, <3>5
    <3> QED
      BY <3>2, <3>6, <3>7
  <2>4. T \subseteq 0 .. n - k
    OBVIOUS
  <2>5. n - k \in Nat /\ k + (n - k) = n
    BY <1>1
  <2> HIDE DEF T
  <2>6. T = 0 .. n - k
    BY <2>2, <2>3, <2>4, <2>5, HaciaAdelante
  <2>7. n - k \in T
    BY <2>5, <2>6
  <2>8. PICK c \in Nat : v[n] = (c * Base + b) * p + u
    BY <2>5, <2>7 DEF T
  <2> HIDE DEF p, b, u
  <2>9. c * Base + b \in Int
    BY <1>1, <2>1
  <2>10. v[n] \div p = c * Base + b
    BY <2>1, <2>8, <2>9, Division
  <2>11. (c * Base + b) % Base = b
    <3>1. c \in Int /\ Base \in Nat \ {0} /\ b \in 0 .. Base - 1
      BY <1>1, <2>1
    <3> QED
      BY <3>1, Division
  <2> QED
    BY <1>2, <2>10, <2>11 DEF p, b
<1>6. ABytes(Valor(bytes), n) = bytes
  BY <1>5 DEF ABytes
<1>7. n \in 0 .. n
  BY <1>1
<1> QED
  BY <1>2, <1>4, <1>6, <1>7

\* The n low bytes of a number are what is left of it in n bytes.
LEMMA ABytesDa ==
    ASSUME NEW n \in 0 .. Ancho, NEW x \in Int
    PROVE  /\ ABytes(x, n) \in [1 .. n -> Byte]
           /\ Valor(ABytes(x, n)) = x % Potencia[n]
<1>1. n \in Nat /\ Byte = 0 .. Base - 1 /\ Base \in Nat \ {0}
  BY PotenciaDa DEF Byte
<1>2. \A k \in 1 .. n : /\ k - 1 \in 0 .. n /\ k \in 0 .. n
                        /\ k - 1 \in 0 .. Ancho /\ k \in 0 .. Ancho
                        /\ Potencia[k - 1] \in Nat \ {0} /\ Potencia[k] = Base * Potencia[k - 1]
                        /\ Potencia[k] \in Nat \ {0}
  BY <1>1, PotenciaDa
<1>3. \A k \in 1 .. n : /\ ABytes(x, n)[k] = (x \div Potencia[k - 1]) % Base
                        /\ ABytes(x, n)[k] \in 0 .. Base - 1
  <2> TAKE k \in 1 .. n
  <2>1. x \div Potencia[k - 1] \in Int
    BY <1>2, Resto
  <2>2. (x \div Potencia[k - 1]) % Base \in 0 .. Base - 1
    BY <1>1, <2>1, Resto
  <2> QED
    BY <2>2 DEF ABytes
<1>4. ABytes(x, n) \in [1 .. n -> Byte]
  <2>1. ABytes(x, n) = [k \in 1 .. n |-> ABytes(x, n)[k]]
    BY DEF ABytes
  <2> QED
    BY <1>1, <1>3, <2>1
<1> DEFINE bytes == ABytes(x, n)
<1> HIDE DEF bytes
<1>5. PICK v \in [0 .. n -> Nat] :
            /\ v[0] = 0 /\ v[n] = Valor(bytes)
            /\ \A k \in 1 .. n : v[k] = v[k - 1] + bytes[k] * Potencia[k - 1]
  BY <1>4, ValorDefinido DEF bytes
<1> DEFINE T == {k \in 0 .. n : v[k] = x % Potencia[k]}
<1>6. 0 \in T
  <2>1. x % 1 = 0
    OBVIOUS
  <2> QED
    BY <1>1, <1>5, <2>1, PotenciaDa
<1>7. ASSUME NEW m \in 0 .. n - 1, m \in T PROVE m + 1 \in T
  <2>1. m + 1 \in 1 .. n /\ (m + 1) - 1 = m /\ m + 1 \in 0 .. n
    BY <1>1
  <2> DEFINE p == Potencia[m]
             q == x \div p
             b == q % Base
             u == x % p
  <2>2. p \in Nat \ {0} /\ Potencia[m + 1] = Base * p /\ Potencia[m + 1] \in Nat \ {0}
    BY <1>2, <2>1
  <2>3. v[m + 1] = u + b * p
    BY <1>3, <1>5, <1>7, <2>1 DEF bytes
  <2> HIDE DEF p
  <2>4. q \in Int /\ u \in 0 .. p - 1 /\ x = q * p + u
    BY <2>2, Resto
  <2> HIDE DEF q, u
  <2>5. q \div Base \in Int /\ b \in 0 .. Base - 1 /\ q = (q \div Base) * Base + b
    BY <1>1, <2>4, Resto
  <2> DEFINE c == q \div Base
  <2> HIDE DEF b, c
  <2>6. c \in Int /\ b \in 0 .. Base - 1 /\ q = c * Base + b
    BY <2>5 DEF c
  <2>7. (c * Base + b) * p + u = c * (Base * p) + (b * p + u)
    BY <1>1, <2>2, <2>4, <2>6
  <2>8. b * p + u \in 0 .. (Base * p) - 1 /\ b * p + u = u + b * p
    <3>1. b * p \in Nat /\ (Base - 1) * p = Base * p - p /\ Base * p \in Int
      BY <1>1, <2>2, <2>6
    <3>2. b * p <= (Base - 1) * p
      BY <1>1, <2>2, <2>6
    <3> QED
      BY <2>2, <2>4, <3>1, <3>2, SMTT(60)
  <2>9. Base * p \in Nat \ {0}
    BY <2>2
  <2>10. (c * (Base * p) + (b * p + u)) % (Base * p) = b * p + u
    BY <2>6, <2>8, <2>9, Division
  <2>11. x % (Base * p) = u + b * p
    BY <2>4, <2>6, <2>7, <2>8, <2>10
  <2> QED
    BY <2>1, <2>2, <2>3, <2>11
<1>8. T \subseteq 0 .. n
  OBVIOUS
<1> HIDE DEF T
<1>9. T = 0 .. n
  BY <1>1, <1>6, <1>7, <1>8, HaciaAdelante
<1>10. n \in T
  BY <1>1, <1>9
<1>11. Valor(bytes) = x % Potencia[n]
  BY <1>5, <1>10 DEF T
<1> QED
  BY <1>4, <1>11 DEF bytes

-----------------------------------------------------------------------------
(* Pieces of memory, and registers.                                        *)

\* n values of S, one after the other.
Tira(S, n) == [1 .. n -> S]

\* What memcpy leaves at each place.
LEMMA SobreDa ==
    ASSUME NEW S, NEW largo \in Nat, NEW s \in Tira(S, largo),
           NEW d \in Nat, NEW n \in Nat, NEW b \in Tira(S, n)
    PROVE  /\ Sobre(s, d, b) \in Tira(S, largo)
           /\ \A k \in 1 .. n : d + k <= largo => Sobre(s, d, b)[d + k] = b[k]
           /\ \A k \in 1 .. largo : k <= d \/ k > d + n => Sobre(s, d, b)[k] = s[k]
<1> USE DEF Tira
<1> DEFINE t == Sobre(s, d, b)
<1>1. \A k \in 1 .. largo : t[k] = IF k - d \in 1 .. n THEN b[k - d] ELSE s[k]
  BY DEF Sobre
<1>2. t = [k \in 1 .. largo |-> t[k]]
  BY DEF Sobre
<1> HIDE DEF t
<1>3. \A k \in 1 .. largo : t[k] \in S
  BY <1>1
<1>4. t \in [1 .. largo -> S]
  BY <1>2, <1>3
<1>5. ASSUME NEW k \in 1 .. n, d + k <= largo PROVE t[d + k] = b[k]
  <2>1. d + k \in 1 .. largo /\ (d + k) - d = k
    BY <1>5
  <2> QED
    BY <1>1, <2>1
<1>6. ASSUME NEW k \in 1 .. largo, k <= d \/ k > d + n PROVE t[k] = s[k]
  <2>1. k - d \notin 1 .. n
    BY <1>6
  <2> QED
    BY <1>1, <2>1
<1> QED
  BY <1>4, <1>5, <1>6 DEF t

\* What is read from a place.
LEMMA BytesDa ==
    ASSUME NEW S, NEW largo \in Nat, NEW s \in Tira(S, largo),
           NEW d \in Nat, NEW n \in Nat, d + n <= largo
    PROVE  /\ Bytes(s, d, n) \in Tira(S, n)
           /\ \A k \in 1 .. n : Bytes(s, d, n)[k] = s[d + k]
<1> USE DEF Tira
<1>1. \A i \in d + 1 .. d + n : i \in 1 .. largo /\ s[i] \in S
  OBVIOUS
<1>2. d + 1 \in Int /\ d + n \in Int /\ ((d + n) - (d + 1)) + 1 = n
      /\ (d + 1 <= d + n <=> n # 0)
  OBVIOUS
<1> DEFINE t == SubSeq(s, d + 1, d + n)
<1>3. /\ t \in Seq(S) /\ Len(t) = IF d + 1 <= d + n THEN (d + n) - (d + 1) + 1 ELSE 0
      /\ \A i \in 1 .. (d + n) - (d + 1) + 1 : t[i] = s[(d + 1) + i - 1]
  BY <1>1, <1>2, SubSeqProperties
<1> HIDE DEF t
<1>4. Len(t) = n
  BY <1>2, <1>3
<1>5. t \in [1 .. n -> S]
  BY <1>3, <1>4, LenProperties
<1>6. ASSUME NEW k \in 1 .. n PROVE t[k] = s[d + k]
  <2>1. k \in 1 .. (d + n) - (d + 1) + 1 /\ (d + 1) + k - 1 = d + k
    OBVIOUS
  <2> QED
    BY <1>3, <2>1
<1> QED
  BY <1>5, <1>6 DEF t, Bytes

\* Reading what was just written, and reading elsewhere.
LEMMA BytesSobre ==
    ASSUME NEW S, NEW largo \in Nat, NEW s \in Tira(S, largo),
           NEW d \in Nat, NEW n \in Nat, NEW b \in Tira(S, n),
           NEW d2 \in Nat, NEW n2 \in Nat, d2 + n2 <= largo
    PROVE  /\ d2 = d /\ n2 = n => Bytes(Sobre(s, d, b), d2, n2) = b
           /\ d2 + n2 <= d \/ d + n <= d2 =>
                Bytes(Sobre(s, d, b), d2, n2) = Bytes(s, d2, n2)
<1> DEFINE t == Sobre(s, d, b)
<1>1. /\ t \in Tira(S, largo)
      /\ \A k \in 1 .. n : d + k <= largo => t[d + k] = b[k]
      /\ \A k \in 1 .. largo : k <= d \/ k > d + n => t[k] = s[k]
  <2>1. t \in Tira(S, largo)
    BY SobreDa
  <2>2. \A k \in 1 .. n : d + k <= largo => t[d + k] = b[k]
    BY SobreDa
  <2>3. \A k \in 1 .. largo : k <= d \/ k > d + n => t[k] = s[k]
    BY SobreDa
  <2> QED
    BY <2>1, <2>2, <2>3
<1> HIDE DEF t
<1>2. /\ Bytes(t, d2, n2) \in Tira(S, n2) /\ Bytes(s, d2, n2) \in Tira(S, n2)
      /\ \A k \in 1 .. n2 : Bytes(t, d2, n2)[k] = t[d2 + k]
      /\ \A k \in 1 .. n2 : Bytes(s, d2, n2)[k] = s[d2 + k]
  <2>1. Bytes(t, d2, n2) \in Tira(S, n2) /\ \A k \in 1 .. n2 : Bytes(t, d2, n2)[k] = t[d2 + k]
    BY <1>1, BytesDa
  <2>2. Bytes(s, d2, n2) \in Tira(S, n2) /\ \A k \in 1 .. n2 : Bytes(s, d2, n2)[k] = s[d2 + k]
    BY BytesDa
  <2> QED
    BY <2>1, <2>2
<1>3. ASSUME d2 = d, n2 = n PROVE Bytes(t, d2, n2) = b
  <2>1. \A k \in 1 .. n : Bytes(t, d2, n2)[k] = b[k]
    BY <1>1, <1>2, <1>3
  <2> QED
    BY <1>2, <1>3, <2>1 DEF Tira
<1>4. ASSUME d2 + n2 <= d \/ d + n <= d2 PROVE Bytes(t, d2, n2) = Bytes(s, d2, n2)
  <2>1. ASSUME NEW k \in 1 .. n2 PROVE Bytes(t, d2, n2)[k] = Bytes(s, d2, n2)[k]
    <3>1. d2 + k \in 1 .. largo /\ (d2 + k <= d \/ d2 + k > d + n)
      BY <1>4
    <3> QED
      BY <1>1, <1>2, <3>1
  <2> QED
    BY <1>2, <2>1 DEF Tira
<1> QED
  BY <1>3, <1>4 DEF t

Archivo == Tira(Byte, 7 * Ancho + 4)
Registros == DOMAIN Posicion
\* The register a name stands for.
Nom(r) == IF r \in Registros THEN r ELSE "PC"

\* Where each register is.
LEMMA Lugares ==
    /\ Registros = {"PC", "SI", "DI", "AX", "BX", "CX", "DX", "EAX", "EBX", "ECX", "EDX"}
    /\ get_register("PC") = 0 /\ get_register("SI") = Ancho /\ get_register("DI") = 2 * Ancho
    /\ get_register("AX") = 3 * Ancho /\ get_register("BX") = 3 * Ancho + 1
    /\ get_register("CX") = 3 * Ancho + 2 /\ get_register("DX") = 3 * Ancho + 3
    /\ get_register("EAX") = 3 * Ancho + 4 /\ get_register("EBX") = 4 * Ancho + 4
    /\ get_register("ECX") = 5 * Ancho + 4 /\ get_register("EDX") = 6 * Ancho + 4
    /\ \A r : get_register(r) = get_register(Nom(r)) /\ sizeof_register(r) = sizeof_register(Nom(r))
    /\ \A r : Nom(r) \in Registros /\ (r \in Registros => Nom(r) = r)
<1>1. Registros = {"PC", "SI", "DI", "AX", "BX", "CX", "DX", "EAX", "EBX", "ECX", "EDX"}
  BY DEF Registros, Posicion
<1>2. /\ Posicion["PC"] = 0 /\ Posicion["SI"] = Ancho /\ Posicion["DI"] = 2 * Ancho
      /\ Posicion["AX"] = 3 * Ancho /\ Posicion["BX"] = 3 * Ancho + 1
      /\ Posicion["CX"] = 3 * Ancho + 2 /\ Posicion["DX"] = 3 * Ancho + 3
      /\ Posicion["EAX"] = 3 * Ancho + 4 /\ Posicion["EBX"] = 4 * Ancho + 4
      /\ Posicion["ECX"] = 5 * Ancho + 4 /\ Posicion["EDX"] = 6 * Ancho + 4
  BY DEF Posicion
<1>3. \A r \in Registros : get_register(r) = Posicion[r]
  BY DEF get_register, Registros
<1>4. \A r : r \notin Registros => get_register(r) = 0 /\ sizeof_register(r) = Ancho
  BY <1>1, Zenon DEF get_register, Registros, sizeof_register
<1>5. sizeof_register("PC") = Ancho
  BY DEF sizeof_register
<1>6. \A r : Nom(r) \in Registros /\ (r \in Registros => Nom(r) = r) /\ (r \notin Registros => Nom(r) = "PC")
  BY <1>1, Zenon DEF Nom
<1>7. get_register("PC") = 0
  BY <1>1, <1>2, <1>3
<1>8. \A r : get_register(r) = get_register(Nom(r)) /\ sizeof_register(r) = sizeof_register(Nom(r))
  <2> TAKE r
  <2>1. CASE r \in Registros
    BY <1>6, <2>1, Zenon
  <2>2. CASE r \notin Registros
    BY <1>4, <1>5, <1>6, <1>7, <2>2, Zenon
  <2> QED
    BY <2>1, <2>2
<1>9. /\ get_register("PC") = 0 /\ get_register("SI") = Ancho /\ get_register("DI") = 2 * Ancho
      /\ get_register("AX") = 3 * Ancho /\ get_register("BX") = 3 * Ancho + 1
      /\ get_register("CX") = 3 * Ancho + 2 /\ get_register("DX") = 3 * Ancho + 3
      /\ get_register("EAX") = 3 * Ancho + 4 /\ get_register("EBX") = 4 * Ancho + 4
      /\ get_register("ECX") = 5 * Ancho + 4 /\ get_register("EDX") = 6 * Ancho + 4
  BY <1>1, <1>2, <1>3
<1> QED
  BY <1>1, <1>6, <1>8, <1>9, Zenon

\* Every register is inside the struct, and two of them do not overlap.
LEMMA RegistroEnLugar ==
    ASSUME NEW r
    PROVE  /\ get_register(r) \in Nat /\ sizeof_register(r) \in 1 .. Ancho
           /\ (sizeof_register(r) = 1 \/ sizeof_register(r) = Ancho)
           /\ get_register(r) + sizeof_register(r) <= 7 * Ancho + 4
           /\ sizeof_register("PC") = Ancho
           /\ \A q : Nom(q) # Nom(r) =>
                \/ get_register(q) + sizeof_register(q) <= get_register(r)
                \/ get_register(r) + sizeof_register(r) <= get_register(q)
<1>1. Ancho \in Nat \ {0}
  BY PotenciaDa
<1>2. /\ sizeof_register("PC") = Ancho /\ sizeof_register("SI") = Ancho /\ sizeof_register("DI") = Ancho
      /\ sizeof_register("AX") = 1 /\ sizeof_register("BX") = 1
      /\ sizeof_register("CX") = 1 /\ sizeof_register("DX") = 1
      /\ sizeof_register("EAX") = Ancho /\ sizeof_register("EBX") = Ancho
      /\ sizeof_register("ECX") = Ancho /\ sizeof_register("EDX") = Ancho
  BY DEF sizeof_register
<1>3. ASSUME NEW a \in Registros
      PROVE  /\ get_register(a) \in Nat /\ sizeof_register(a) \in 1 .. Ancho
             /\ (sizeof_register(a) = 1 \/ sizeof_register(a) = Ancho)
             /\ get_register(a) + sizeof_register(a) <= 7 * Ancho + 4
  BY <1>1, <1>2, Lugares
<1>4. ASSUME NEW a \in Registros, NEW b \in Registros, a # b
      PROVE  \/ get_register(a) + sizeof_register(a) <= get_register(b)
             \/ get_register(b) + sizeof_register(b) <= get_register(a)
  <2>1. \/ a \in {"PC", "SI", "DI"} \/ a \in {"AX", "BX", "CX", "DX"}
        \/ a \in {"EAX", "EBX", "ECX", "EDX"}
    BY Lugares
  <2>2. \/ b \in {"PC", "SI", "DI"} \/ b \in {"AX", "BX", "CX", "DX"}
        \/ b \in {"EAX", "EBX", "ECX", "EDX"}
    BY Lugares
  <2>3. \A c \in {"PC", "SI", "DI"} :
            /\ sizeof_register(c) = Ancho /\ get_register(c) \in {0, Ancho, 2 * Ancho}
    BY <1>2, Lugares
  <2>4. \A c \in {"AX", "BX", "CX", "DX"} :
            /\ sizeof_register(c) = 1
            /\ get_register(c) \in {3 * Ancho, 3 * Ancho + 1, 3 * Ancho + 2, 3 * Ancho + 3}
    BY <1>2, Lugares
  <2>5. \A c \in {"EAX", "EBX", "ECX", "EDX"} :
            /\ sizeof_register(c) = Ancho
            /\ get_register(c) \in {3 * Ancho + 4, 4 * Ancho + 4, 5 * Ancho + 4, 6 * Ancho + 4}
    BY <1>2, Lugares
  <2>6. get_register(a) # get_register(b)
    BY <1>1, <1>4, Lugares
  <2> QED
    BY <1>1, <2>1, <2>2, <2>3, <2>4, <2>5, <2>6
<1>5. Nom(r) \in Registros /\ \A q : Nom(q) \in Registros
  BY Lugares
<1>6. /\ get_register(r) = get_register(Nom(r)) /\ sizeof_register(r) = sizeof_register(Nom(r))
      /\ \A q : get_register(q) = get_register(Nom(q)) /\ sizeof_register(q) = sizeof_register(Nom(q))
  BY Lugares
<1>7. \A q : Nom(q) # Nom(r) =>
                \/ get_register(q) + sizeof_register(q) <= get_register(r)
                \/ get_register(r) + sizeof_register(r) <= get_register(q)
  <2> TAKE q
  <2> HAVE Nom(q) # Nom(r)
  <2>1. \/ get_register(Nom(q)) + sizeof_register(Nom(q)) <= get_register(Nom(r))
        \/ get_register(Nom(r)) + sizeof_register(Nom(r)) <= get_register(Nom(q))
    BY <1>4, <1>5
  <2>2. /\ get_register(r) = get_register(Nom(r)) /\ sizeof_register(r) = sizeof_register(Nom(r))
        /\ get_register(q) = get_register(Nom(q)) /\ sizeof_register(q) = sizeof_register(Nom(q))
    BY <1>6, Zenon
  <2> QED
    BY <2>1, <2>2
<1>8. /\ get_register(Nom(r)) \in Nat /\ sizeof_register(Nom(r)) \in 1 .. Ancho
      /\ (sizeof_register(Nom(r)) = 1 \/ sizeof_register(Nom(r)) = Ancho)
      /\ get_register(Nom(r)) + sizeof_register(Nom(r)) <= 7 * Ancho + 4
  BY <1>3, <1>5
<1> QED
  BY <1>2, <1>6, <1>7, <1>8

\* n bytes of n <= Ancho are less than a word.
LEMMA PotenciaCabe ==
    ASSUME NEW n \in 0 .. Ancho
    PROVE  Potencia[n] <= M /\ Potencia[n] \in Nat \ {0}
<1> DEFINE T == {j \in 0 .. Ancho - n : Potencia[n] <= Potencia[n + j]}
<1>1. n \in Nat /\ Ancho - n \in Nat /\ n + (Ancho - n) = Ancho /\ n + 0 = n
  BY PotenciaDa
<1>2. Potencia[n] \in Nat \ {0}
  BY PotenciaDa
<1>3. 0 \in T
  BY <1>1, <1>2
<1>4. ASSUME NEW m \in 0 .. (Ancho - n) - 1, m \in T PROVE m + 1 \in T
  <2>1. /\ n + m \in 0 .. Ancho - 1 /\ (n + m) + 1 = n + (m + 1) /\ m + 1 \in 0 .. Ancho - n
        /\ n + m \in 0 .. Ancho /\ n + (m + 1) \in 0 .. Ancho
    BY <1>1, PotenciaDa
  <2>2. Potencia[n + m] <= Potencia[(n + m) + 1]
    BY <2>1, MDa
  <2>3. Potencia[n] <= Potencia[n + m]
    BY <1>4
  <2>4. Potencia[n + m] \in Nat /\ Potencia[n + (m + 1)] \in Nat
    BY <2>1, PotenciaDa
  <2> QED
    BY <1>2, <2>1, <2>2, <2>3, <2>4
<1>5. T \subseteq 0 .. Ancho - n
  OBVIOUS
<1> HIDE DEF T
<1>6. T = 0 .. Ancho - n
  BY <1>1, <1>3, <1>4, <1>5, HaciaAdelante
<1>7. Ancho - n \in T
  BY <1>1, <1>6
<1> QED
  BY <1>1, <1>2, <1>7 DEF T, M

\* A register is a number of its width, and its low byte is its remainder.
LEMMA RegistroDa ==
    ASSUME NEW rs \in Archivo, NEW r
    PROVE  LET n == sizeof_register(r)
               x == get_normaliced_register(rs, r) IN
           /\ x \in 0 .. Potencia[n] - 1 /\ x \in 0 .. M - 1
           /\ Bytes(rs, get_register(r), n) \in Tira(Byte, n)
           /\ ABytes(x, n) = Bytes(rs, get_register(r), n)
           /\ Registro(rs, r, 1) = x % Base
<1> DEFINE n == sizeof_register(r)
           d == get_register(r)
           x == get_normaliced_register(rs, r)
           b == Bytes(rs, d, n)
<1>1. d \in Nat /\ n \in 1 .. Ancho /\ d + n <= 7 * Ancho + 4 /\ 7 * Ancho + 4 \in Nat
      /\ Ancho \in Nat \ {0}
  BY RegistroEnLugar, PotenciaDa
<1>2. x = Valor(b)
  BY DEF get_normaliced_register, Registro
<1>3. Registro(rs, r, 1) = Valor(Bytes(rs, d, 1))
  BY DEF Registro
<1> HIDE DEF n, d, x
<1>4. n \in Nat /\ n \in 0 .. Ancho /\ 1 \in 1 .. n /\ 1 \in 0 .. Ancho /\ d + 1 <= 7 * Ancho + 4 /\ 1 \in Nat
  BY <1>1
<1>5. b \in Tira(Byte, n) /\ \A k \in 1 .. n : b[k] = rs[d + k]
  BY <1>1, <1>4, BytesDa DEF Archivo
<1> HIDE DEF b
<1>6. b \in [1 .. n -> Byte]
  BY <1>5 DEF Tira
<1>7. Valor(b) \in 0 .. Potencia[n] - 1 /\ ABytes(Valor(b), n) = b
  BY <1>4, <1>6, ValorDa
<1>8. Potencia[n] <= M /\ Potencia[n] \in Nat /\ M \in Nat
  BY <1>4, PotenciaCabe, MDa
<1> DEFINE c == Bytes(rs, d, 1)
<1>9. c \in Tira(Byte, 1) /\ \A k \in 1 .. 1 : c[k] = rs[d + k]
  BY <1>1, <1>4, BytesDa DEF Archivo
<1> HIDE DEF c
<1>10. Valor(c) \in 0 .. Base - 1 /\ ABytes(Valor(c), 1) = c
  <2>1. c \in [1 .. 1 -> Byte]
    BY <1>9 DEF Tira
  <2>2. Valor(c) \in 0 .. Potencia[1] - 1 /\ ABytes(Valor(c), 1) = c
    BY <1>4, <2>1, ValorDa
  <2> QED
    BY <2>2, MDa
<1>11. \A y \in Int : y \div Potencia[1 - 1] = y
  <2>1. \A y \in Int : y \div 1 = y
    OBVIOUS
  <2> QED
    BY <2>1, PotenciaDa
<1>12. c[1] = Valor(c) % Base
  <2>1. ABytes(Valor(c), 1)[1] = (Valor(c) \div Potencia[1 - 1]) % Base
    BY DEF ABytes
  <2>2. Valor(c) \in Int
    BY <1>10, PotenciaDa
  <2> QED
    BY <1>10, <1>11, <2>1, <2>2
<1>13. Valor(c) % Base = Valor(c)
  <2>1. Valor(c) \in Int /\ Base \in Nat \ {0}
    BY <1>10, PotenciaDa
  <2> QED
    BY <1>10, <2>1, Resto
<1>14. b[1] = Valor(b) % Base
  <2>1. ABytes(Valor(b), n)[1] = (Valor(b) \div Potencia[1 - 1]) % Base
    BY <1>4 DEF ABytes
  <2>2. Valor(b) \in Int
    BY <1>7, <1>8
  <2> QED
    BY <1>7, <1>11, <2>1, <2>2
<1>15. b[1] = c[1]
  BY <1>4, <1>5, <1>9
<1>16. Valor(c) = Valor(b) % Base
  BY <1>12, <1>13, <1>14, <1>15
<1> QED
  BY <1>2, <1>3, <1>5, <1>7, <1>8, <1>16 DEF n, d, x, b, c

\* The names of a register are one register.
LEMMA RegistroNom ==
    ASSUME NEW rs, NEW r
    PROVE  get_normaliced_register(rs, r) = get_normaliced_register(rs, Nom(r))
BY Lugares, Zenon DEF get_normaliced_register, Registro

\* Bytes written in a register are its new value, and that of no other.
LEMMA EscribeRegistro ==
    ASSUME NEW rs \in Archivo, NEW r, NEW b \in Tira(Byte, sizeof_register(r))
    PROVE  LET s == Sobre(rs, get_register(r), b) IN
           /\ s \in Archivo
           /\ \A q : get_normaliced_register(s, q) =
                        IF Nom(q) = Nom(r) THEN Valor(b) ELSE get_normaliced_register(rs, q)
<1> DEFINE n == sizeof_register(r)
           d == get_register(r)
           s == Sobre(rs, d, b)
           largo == 7 * Ancho + 4
<1>1. d \in Nat /\ n \in Nat /\ d + n <= largo /\ largo \in Nat
  BY RegistroEnLugar, PotenciaDa
<1>2. b \in Tira(Byte, n) /\ rs \in Tira(Byte, largo)
  BY DEF Archivo
<1>3. s \in Archivo
  <2> HIDE DEF d, n, largo
  <2>1. s \in Tira(Byte, largo)
    BY <1>1, <1>2, SobreDa
  <2> QED
    BY <2>1 DEF Archivo, largo
<1>4. ASSUME NEW q
      PROVE  get_normaliced_register(s, q) =
                IF Nom(q) = Nom(r) THEN Valor(b) ELSE get_normaliced_register(rs, q)
  <2> DEFINE e == get_register(q)
             m == sizeof_register(q)
  <2>1. e \in Nat /\ m \in Nat /\ e + m <= largo
    BY RegistroEnLugar, PotenciaDa
  <2>2. /\ e = d /\ m = n => Bytes(s, e, m) = b
        /\ e + m <= d \/ d + n <= e => Bytes(s, e, m) = Bytes(rs, e, m)
    <3> HIDE DEF e, m, d, n, largo
    <3>1. e = d /\ m = n => Bytes(s, e, m) = b
      BY <1>1, <1>2, <2>1, BytesSobre
    <3>2. e + m <= d \/ d + n <= e => Bytes(s, e, m) = Bytes(rs, e, m)
      BY <1>1, <1>2, <2>1, BytesSobre
    <3> QED
      BY <3>1, <3>2
  <2>3. CASE Nom(q) = Nom(r)
    <3>1. e = d /\ m = n
      <4>1. \A w : /\ get_register(w) = get_register(Nom(w))
                   /\ sizeof_register(w) = sizeof_register(Nom(w))
        BY Lugares, ZenonT(90)
      <4>2. /\ get_register(q) = get_register(Nom(q)) /\ get_register(r) = get_register(Nom(r))
            /\ sizeof_register(q) = sizeof_register(Nom(q))
            /\ sizeof_register(r) = sizeof_register(Nom(r))
        BY <4>1, ZenonT(90)
      <4> QED
        BY <2>3, <4>2
    <3>2. Bytes(s, e, m) = b
      BY <2>2, <3>1
    <3> HIDE DEF s
    <3>3. get_normaliced_register(s, q) = Valor(b)
      BY <3>2 DEF get_normaliced_register, Registro
    <3> QED
      BY <2>3, <3>3, Zenon
  <2>4. CASE Nom(q) # Nom(r)
    <3>1. e + m <= d \/ d + n <= e
      BY <2>4, RegistroEnLugar
    <3>2. Bytes(s, e, m) = Bytes(rs, e, m)
      BY <2>2, <3>1
    <3> HIDE DEF s
    <3>3. get_normaliced_register(s, q) = get_normaliced_register(rs, q)
      BY <3>2 DEF get_normaliced_register, Registro
    <3> QED
      BY <2>4, <3>3, Zenon
  <2> QED
    BY <2>3, <2>4
<1> QED
  BY <1>3, <1>4

\* The same of a number.
LEMMA ActualizaRegistro ==
    ASSUME NEW rs \in Archivo, NEW r, NEW x \in Int
    PROVE  LET n == sizeof_register(r)
               s == update_register(rs, r, n, x) IN
           /\ s \in Archivo
           /\ \A q : get_normaliced_register(s, q) =
                        IF Nom(q) = Nom(r) THEN x % Potencia[n] ELSE get_normaliced_register(rs, q)
<1> DEFINE n == sizeof_register(r)
           b == ABytes(x, n)
<1>1. n \in 0 .. Ancho
  BY RegistroEnLugar, PotenciaDa
<1> HIDE DEF n
<1>2. b \in Tira(Byte, n) /\ Valor(b) = x % Potencia[n]
  BY <1>1, ABytesDa DEF Tira
<1>3. update_register(rs, r, n, x) = Sobre(rs, get_register(r), b)
  BY DEF update_register
<1> HIDE DEF b
<1>4. /\ Sobre(rs, get_register(r), b) \in Archivo
      /\ \A q : get_normaliced_register(Sobre(rs, get_register(r), b), q) =
                    IF Nom(q) = Nom(r) THEN Valor(b) ELSE get_normaliced_register(rs, q)
  BY <1>2, EscribeRegistro DEF n
<1> QED
  BY <1>2, <1>3, <1>4 DEF n

-----------------------------------------------------------------------------
(* The recursion of mmu.                                                   *)

\* How much of a range falls on its first page.
LEMMA EnPaginaDa ==
    ASSUME NEW desp \in 0 .. TamPagina - 1, NEW n \in 0 .. M - 1
    PROVE  LET bytes == EnPagina(desp, n) IN
           /\ bytes \in 0 .. n
           /\ \/ bytes = n /\ desp + n <= TamPagina
              \/ bytes = n /\ desp + n >= M /\ n > TamPagina
              \/ /\ bytes # n /\ desp + n < M /\ desp + n > TamPagina
                 /\ bytes = TamPagina - desp /\ bytes >= 1
<1>1. TamPagina \in Nat \ {0} /\ M \in Nat \ {0} /\ 2 * TamPagina <= M
  BY PotenciaDa, MDa
<1>2. CASE desp + n < M
  <2>1. (desp + n) % M = desp + n
    <3>1. desp + n \in 0 .. M - 1 /\ desp + n \in Int
      BY <1>1, <1>2
    <3> QED
      BY <1>1, <3>1, Resto
  <2> QED
    BY <1>1, <1>2, <2>1 DEF EnPagina
<1>3. CASE desp + n >= M
  <2>1. (desp + n) % M = (desp + n) - M
    <3>1. (desp + n) - M \in 0 .. M - 1 /\ 1 * M + ((desp + n) - M) = desp + n /\ 1 \in Int
      BY <1>1, <1>3
    <3> QED
      BY <1>1, <3>1, Division
  <2> QED
    BY <1>1, <1>3, <2>1 DEF EnPagina
<1> QED
  BY <1>1, <1>2, <1>3

\* The step of the recursion.
Desp(dl) == dl % TamPagina
Primero(n, dl) ==
    [pagina |-> dl \div TamPagina, desp |-> Desp(dl), bytes |-> EnPagina(Desp(dl), n)]
Siguiente(dl) == ((dl \div TamPagina + 1) * TamPagina) % M
PasoTramos(f, n, dl) ==
    <<Primero(n, dl)>> \o
    IF Primero(n, dl).bytes = n THEN <<>> ELSE f[n - Primero(n, dl).bytes][Siguiente(dl)]

\* Where it starts again.
LEMMA TramoDa ==
    ASSUME NEW n \in 0 .. M - 1, NEW dl \in 0 .. M - 1
    PROVE  /\ dl \div TamPagina \in Nat /\ Desp(dl) \in 0 .. TamPagina - 1
           /\ dl = (dl \div TamPagina) * TamPagina + Desp(dl)
           /\ Siguiente(dl) \in 0 .. M - 1
           /\ Primero(n, dl).bytes = EnPagina(Desp(dl), n)
           /\ Primero(n, dl).bytes \in 0 .. n
           /\ Primero(n, dl).bytes # n => n - Primero(n, dl).bytes \in 0 .. n - 1
<1>1. TamPagina \in Nat \ {0} /\ M \in Nat \ {0} /\ dl \in Nat /\ dl \in Int
  BY PotenciaDa, MDa
<1>2. /\ dl \div TamPagina \in Nat /\ Desp(dl) \in 0 .. TamPagina - 1
      /\ dl = (dl \div TamPagina) * TamPagina + Desp(dl)
  BY <1>1, Resto DEF Desp
<1>3. Siguiente(dl) \in 0 .. M - 1
  <2>1. (dl \div TamPagina + 1) * TamPagina \in Int
    BY <1>1, <1>2
  <2> QED
    BY <1>1, <2>1, Resto DEF Siguiente
<1>4. Primero(n, dl).bytes = EnPagina(Desp(dl), n)
  BY DEF Primero
<1>5. /\ EnPagina(Desp(dl), n) \in 0 .. n
      /\ EnPagina(Desp(dl), n) # n => EnPagina(Desp(dl), n) >= 1
  BY <1>2, EnPaginaDa
<1> QED
  BY <1>1, <1>2, <1>3, <1>4, <1>5

\* The recursion has a solution: what is left is less every time.
LEMMA TramosExiste ==
    \E f : f = [n \in 0 .. M - 1 |-> [dl \in 0 .. M - 1 |-> PasoTramos(f, n, dl)]]
<1> DEFINE Hasta(f, m) == f = [n \in 0 .. m |-> [dl \in 0 .. M - 1 |-> PasoTramos(f, n, dl)]]
           T == {m \in 0 .. M - 1 : \E f : Hasta(f, m)}
<1>1. M \in Nat \ {0} /\ M - 1 \in Nat
  BY MDa
\* The step at n looks at less than n only.
<1>2. ASSUME NEW f, NEW g, NEW n \in 0 .. M - 1, NEW dl \in 0 .. M - 1,
             \A k \in 0 .. n - 1 : f[k] = g[k]
      PROVE  PasoTramos(f, n, dl) = PasoTramos(g, n, dl)
  <2>1. CASE Primero(n, dl).bytes = n
    BY <2>1 DEF PasoTramos
  <2>2. CASE Primero(n, dl).bytes # n
    <3>1. n - Primero(n, dl).bytes \in 0 .. n - 1
      BY <2>2, TramoDa
    <3>2. f[n - Primero(n, dl).bytes] = g[n - Primero(n, dl).bytes]
      BY <1>2, <3>1
    <3> QED
      BY <2>2, <3>2 DEF PasoTramos
  <2> QED
    BY <2>1, <2>2
<1>3. 0 \in T
  <2> DEFINE f == [n \in 0 .. 0 |-> [dl \in 0 .. M - 1 |-> PasoTramos(<<>>, n, dl)]]
  <2>1. ASSUME NEW n \in 0 .. 0
        PROVE  f[n] = [dl \in 0 .. M - 1 |-> PasoTramos(f, n, dl)]
    <3>1. f[n] = [dl \in 0 .. M - 1 |-> PasoTramos(<<>>, n, dl)]
      OBVIOUS
    <3> HIDE DEF f
    <3>2. \A dl \in 0 .. M - 1 : PasoTramos(<<>>, n, dl) = PasoTramos(f, n, dl)
      <4> TAKE dl \in 0 .. M - 1
      <4>1. n \in 0 .. M - 1 /\ \A k \in 0 .. n - 1 : <<>>[k] = f[k]
        BY <1>1
      <4> QED
        BY <1>2, <4>1
    <3> QED
      BY <3>1, <3>2
  <2>2. f = [n \in 0 .. 0 |-> f[n]]
    OBVIOUS
  <2> HIDE DEF f
  <2>3. Hasta(f, 0)
    BY <2>1, <2>2
  <2>4. 0 \in 0 .. M - 1
    BY <1>1
  <2> HIDE DEF Hasta
  <2> QED
    BY <2>3, <2>4
<1>4. ASSUME NEW m \in 0 .. (M - 1) - 1, m \in T PROVE m + 1 \in T
  <2>1. PICK g : Hasta(g, m)
    BY <1>4
  <2> DEFINE h == [n \in 0 .. m + 1 |->
                    IF n <= m THEN g[n] ELSE [dl \in 0 .. M - 1 |-> PasoTramos(g, m + 1, dl)]]
  <2>2. m + 1 \in 0 .. M - 1 /\ 0 .. m \subseteq 0 .. M - 1
    BY <1>1
  <2>3. \A n \in 0 .. m : h[n] = g[n]
    OBVIOUS
  <2>4. h[m + 1] = [dl \in 0 .. M - 1 |-> PasoTramos(g, m + 1, dl)]
    <3>1. m + 1 \in 0 .. m + 1 /\ ~(m + 1 <= m)
      OBVIOUS
    <3> QED
      BY <3>1
  <2>5. h = [n \in 0 .. m + 1 |-> h[n]]
    OBVIOUS
  <2> HIDE DEF h
  <2>6. ASSUME NEW n \in 0 .. m + 1
        PROVE  h[n] = [dl \in 0 .. M - 1 |-> PasoTramos(h, n, dl)]
    <3>1. n \in 0 .. M - 1 /\ \A k \in 0 .. n - 1 : g[k] = h[k]
      BY <1>1, <2>3
    <3>2. \A dl \in 0 .. M - 1 : PasoTramos(g, n, dl) = PasoTramos(h, n, dl)
      BY <1>2, <3>1
    <3>3. h[n] = [dl \in 0 .. M - 1 |-> PasoTramos(g, n, dl)]
      <4>1. CASE n <= m
        <5>1. g[n] = [dl \in 0 .. M - 1 |-> PasoTramos(g, n, dl)]
          <6>1. \A f, w : f = [i \in 0 .. m |-> [dl \in 0 .. M - 1 |-> PasoTramos(w, i, dl)]]
                        => f[n] = [dl \in 0 .. M - 1 |-> PasoTramos(w, n, dl)]
            BY <4>1
          <6> QED
            BY <2>1, <6>1, ZenonT(90)
        <5> QED
          BY <2>3, <4>1, <5>1
      <4>2. CASE n = m + 1
        BY <2>4, <4>2
      <4> QED
        BY <4>1, <4>2
    <3> QED
      BY <3>2, <3>3
  <2>7. Hasta(h, m + 1)
    BY <2>5, <2>6
  <2> HIDE DEF Hasta
  <2> QED
    BY <2>2, <2>7
<1>5. T \subseteq 0 .. M - 1
  OBVIOUS
<1> HIDE DEF T
<1>6. T = 0 .. M - 1
  BY <1>1, <1>3, <1>4, <1>5, HaciaAdelante
<1>7. M - 1 \in T
  BY <1>1, <1>6
<1> QED
  BY <1>7 DEF T

\* Tramos is that solution.
LEMMA TramosDefinida ==
    ASSUME NEW n \in 0 .. M - 1, NEW dl \in 0 .. M - 1
    PROVE  Tramos[n][dl] = PasoTramos(Tramos, n, dl)
<1>1. Tramos = CHOOSE f : f = [m \in 0 .. M - 1 |-> [d \in 0 .. M - 1 |-> PasoTramos(f, m, d)]]
  BY ZenonT(90) DEF Tramos, PasoTramos, Primero, Siguiente, Desp
<1>2. Tramos = [m \in 0 .. M - 1 |-> [d \in 0 .. M - 1 |-> PasoTramos(Tramos, m, d)]]
  BY <1>1, TramosExiste, Zenon
<1>3. \A f, w : f = [m \in 0 .. M - 1 |-> [d \in 0 .. M - 1 |-> PasoTramos(w, m, d)]]
                => f[n][dl] = PasoTramos(w, n, dl)
  OBVIOUS
<1> QED
  BY <1>2, <1>3, Zenon

\* Of each page it says where and how much, and no more than a page but when
\* the sum of offset and size goes past the last number.
TramoBien ==
    {t \in [pagina : Nat, desp : 0 .. TamPagina - 1, bytes : 0 .. M - 1] :
        t.desp + t.bytes <= TamPagina \/ t.bytes > TamPagina}

\* The first stretch of a range is such a one.
LEMMA PrimeroBien ==
    ASSUME NEW n \in 0 .. M - 1, NEW dl \in 0 .. M - 1
    PROVE  Primero(n, dl) \in TramoBien
<1> DEFINE b == EnPagina(Desp(dl), n)
<1>1. TamPagina \in Nat \ {0} /\ M \in Nat \ {0}
  BY PotenciaDa, MDa
<1>2. dl \div TamPagina \in Nat /\ Desp(dl) \in 0 .. TamPagina - 1
  BY TramoDa
<1>3. b \in 0 .. n /\ (Desp(dl) + b <= TamPagina \/ b > TamPagina)
  BY <1>1, <1>2, EnPaginaDa
<1> HIDE DEF b
<1>4. b \in 0 .. M - 1
  BY <1>1, <1>3
<1> QED
  BY <1>2, <1>3, <1>4 DEF Primero, TramoBien, b

\* Induction on the bytes that are left.
LEMMA HastaTodos ==
    ASSUME NEW T, \A n \in 0 .. M - 1 : (\A k \in 0 .. n - 1 : k \in T) => n \in T
    PROVE  \A n \in 0 .. M - 1 : n \in T
<1> DEFINE A == {m \in 0 .. M - 1 : \A k \in 0 .. m : k \in T}
<1>1. M - 1 \in Nat
  BY MDa
<1>2. 0 \in A
  <2>1. 0 \in 0 .. M - 1 /\ \A k \in 0 .. 0 - 1 : k \in T
    BY <1>1
  <2>2. 0 \in T
    BY <2>1
  <2> QED
    BY <2>1, <2>2
<1>3. ASSUME NEW m \in 0 .. (M - 1) - 1, m \in A PROVE m + 1 \in A
  <2>1. m + 1 \in 0 .. M - 1 /\ (m + 1) - 1 = m
    BY <1>1
  <2>2. \A k \in 0 .. (m + 1) - 1 : k \in T
    BY <1>3, <2>1
  <2>3. m + 1 \in T
    BY <2>1, <2>2
  <2>4. ASSUME NEW k \in 0 .. m + 1 PROVE k \in T
    <3>1. k \in 0 .. (m + 1) - 1 \/ k = m + 1
      OBVIOUS
    <3> QED
      BY <2>2, <2>3, <3>1
  <2> QED
    BY <2>1, <2>4
<1>4. A \subseteq 0 .. M - 1
  OBVIOUS
<1> HIDE DEF A
<1>5. A = 0 .. M - 1
  BY <1>1, <1>2, <1>3, <1>4, HaciaAdelante
<1>6. M - 1 \in A
  BY <1>1, <1>5
<1> QED
  BY <1>6 DEF A

\* One page, or one page and the recursion on what is left.
LEMMA TramosPaso ==
    ASSUME NEW n \in 0 .. M - 1, NEW dl \in 0 .. M - 1
    PROVE  \/ Primero(n, dl).bytes = n /\ Tramos[n][dl] = <<Primero(n, dl)>>
           \/ /\ Primero(n, dl).bytes # n
              /\ n - Primero(n, dl).bytes \in 0 .. n - 1
              /\ Tramos[n][dl] = <<Primero(n, dl)>> \o
                                 Tramos[n - Primero(n, dl).bytes][Siguiente(dl)]
<1>1. Tramos[n][dl] = PasoTramos(Tramos, n, dl)
  BY TramosDefinida
<1>2. CASE Primero(n, dl).bytes = n
  <2>1. PasoTramos(Tramos, n, dl) = <<Primero(n, dl)>> \o <<>>
    BY <1>2, Zenon DEF PasoTramos
  <2>2. <<Primero(n, dl)>> \o <<>> = <<Primero(n, dl)>>
    <3>1. <<Primero(n, dl)>> \in Seq(TramoBien)
      BY PrimeroBien, SMTT(60)
    <3> QED
      BY <3>1, ConcatEmptySeq
  <2> QED
    BY <1>1, <1>2, <2>1, <2>2
<1>3. CASE Primero(n, dl).bytes # n
  <2>1. PasoTramos(Tramos, n, dl) = <<Primero(n, dl)>> \o
                                 Tramos[n - Primero(n, dl).bytes][Siguiente(dl)]
    BY <1>3, Zenon DEF PasoTramos
  <2>2. n - Primero(n, dl).bytes \in 0 .. n - 1
    BY <1>3, TramoDa
  <2> QED
    BY <1>1, <1>3, <2>1, <2>2
<1> QED
  BY <1>2, <1>3

\* All the pages of a range are well formed.
LEMMA TramosBien ==
    ASSUME NEW n \in 0 .. M - 1, NEW dl \in 0 .. M - 1
    PROVE  Tramos[n][dl] \in Seq(TramoBien) /\ Len(Tramos[n][dl]) >= 1
           /\ Tramos[n][dl][1] = Primero(n, dl)
<1> DEFINE Bien(m, d) == /\ Tramos[m][d] \in Seq(TramoBien) /\ Len(Tramos[m][d]) >= 1
                         /\ Tramos[m][d][1] = Primero(m, d)
           T == {m \in 0 .. M - 1 : \A d \in 0 .. M - 1 : Bien(m, d)}
<1>1. ASSUME NEW m \in 0 .. M - 1, \A k \in 0 .. m - 1 : k \in T PROVE m \in T
  <2>1. ASSUME NEW d \in 0 .. M - 1 PROVE Bien(m, d)
    <3> DEFINE x == Primero(m, d)
    <3>1. x \in TramoBien
      BY PrimeroBien
    <3> HIDE DEF x
    <3>2. <<x>> \in Seq(TramoBien) /\ Len(<<x>>) = 1 /\ <<x>>[1] = x
      BY <3>1
    <3>3. CASE Tramos[m][d] = <<x>>
      BY <3>2, <3>3 DEF x
    <3>4. ASSUME m - x.bytes \in 0 .. m - 1,
                 Tramos[m][d] = <<x>> \o Tramos[m - x.bytes][Siguiente(d)]
          PROVE  Bien(m, d)
      <4> DEFINE r == Tramos[m - x.bytes][Siguiente(d)]
      <4>1. r \in Seq(TramoBien)
        <5>1. m - x.bytes \in T /\ Siguiente(d) \in 0 .. M - 1
          BY <1>1, <3>4, TramoDa
        <5> QED
          BY <5>1
      <4> HIDE DEF r
      <4>2. <<x>> \o r \in Seq(TramoBien) /\ Len(<<x>> \o r) = 1 + Len(r) /\ Len(r) \in Nat
            /\ (<<x>> \o r)[1] = x
        <5>1. /\ <<x>> \o r \in Seq(TramoBien) /\ Len(<<x>> \o r) = Len(<<x>>) + Len(r)
              /\ \A i \in 1 .. Len(<<x>>) + Len(r) :
                    (<<x>> \o r)[i] = IF i <= Len(<<x>>) THEN <<x>>[i] ELSE r[i - Len(<<x>>)]
          BY <3>2, <4>1, ConcatProperties
        <5>2. Len(r) \in Nat
          BY <4>1, LenProperties
        <5>3. 1 \in 1 .. Len(<<x>>) + Len(r) /\ 1 <= Len(<<x>>)
          BY <3>2, <5>2
        <5> QED
          BY <3>2, <5>1, <5>2, <5>3
      <4>3. Tramos[m][d] = <<x>> \o r
        BY <3>4 DEF r
      <4> QED
        BY <4>2, <4>3 DEF x
    <3> QED
      BY <3>3, <3>4, TramosPaso DEF x
  <2> HIDE DEF Bien
  <2> QED
    BY <2>1
<1> HIDE DEF T
<1>2. n \in T
  BY <1>1, HastaTodos
<1> QED
  BY <1>2 DEF T

-----------------------------------------------------------------------------
(* The addresses of a translation.                                         *)

Marco == [dir : Nat, bytes : Nat]
Trecho(f) == [j \in 1 .. f.bytes |-> f.dir + (j - 1)]
Trechos(frames) == [k \in DOMAIN frames |-> Trecho(frames[k])]

\* The addresses of the first frame, then those of the rest.
LEMMA DireccionesDa ==
    /\ Direcciones(<<>>) = <<>>
    /\ \A x \in Marco : Trecho(x) \in Seq(Nat) /\ Len(Trecho(x)) = x.bytes
    /\ \A f \in Seq(Marco) : Direcciones(f) \in Seq(Nat)
    /\ \A x \in Marco, f \in Seq(Marco) :
            Direcciones(<<x>> \o f) = Trecho(x) \o Direcciones(f)
<1>1. \A f : Direcciones(f) = FlattenSeq(Trechos(f))
  BY DEF Direcciones, Trechos, Trecho
<1>2. ASSUME NEW x \in Marco PROVE Trecho(x) \in Seq(Nat) /\ Len(Trecho(x)) = x.bytes
  <2>1. x.bytes \in Nat /\ \A j \in 1 .. x.bytes : x.dir + (j - 1) \in Nat
    BY DEF Marco
  <2> QED
    BY <2>1 DEF Trecho
<1>3. ASSUME NEW f \in Seq(Marco) PROVE Trechos(f) \in Seq(Seq(Nat)) /\ Len(Trechos(f)) = Len(f)
  <2>1. Len(f) \in Nat /\ DOMAIN f = 1 .. Len(f) /\ \A k \in 1 .. Len(f) : f[k] \in Marco
    BY LenProperties, ElementOfSeq
  <2>2. \A k \in 1 .. Len(f) : Trecho(f[k]) \in Seq(Nat)
    BY <1>2, <2>1
  <2> QED
    BY <2>1, <2>2 DEF Trechos
<1>4. Trechos(<<>>) = <<>>
  BY DEF Trechos
<1>5. FlattenSeq(<<>>) = <<>>
  BY AplanaDa
<1>6. ASSUME NEW f \in Seq(Marco) PROVE Direcciones(f) \in Seq(Nat)
  BY <1>1, <1>3, AplanaDa
<1>7. ASSUME NEW x \in Marco, NEW f \in Seq(Marco)
      PROVE  Direcciones(<<x>> \o f) = Trecho(x) \o Direcciones(f)
  <2>1. Trechos(<<x>> \o f) = <<Trecho(x)>> \o Trechos(f)
    <3> DEFINE g == <<x>> \o f
               t == Trecho(x)
               u == Trechos(f)
    <3>1. <<x>> \in Seq(Marco) /\ Len(<<x>>) = 1 /\ <<x>>[1] = x
      OBVIOUS
    <3>2. /\ g \in Seq(Marco) /\ Len(g) = 1 + Len(f)
          /\ \A i \in 1 .. 1 + Len(f) : g[i] = IF i <= 1 THEN <<x>>[i] ELSE f[i - 1]
      BY <3>1, ConcatProperties
    <3>3. t \in Seq(Nat) /\ u \in Seq(Seq(Nat)) /\ Len(u) = Len(f)
      BY <1>2, <1>3
    <3>4. <<t>> \in Seq(Seq(Nat)) /\ Len(<<t>>) = 1 /\ <<t>>[1] = t
      BY <3>3
    <3>5. /\ <<t>> \o u \in Seq(Seq(Nat)) /\ Len(<<t>> \o u) = 1 + Len(f)
          /\ \A i \in 1 .. 1 + Len(f) : (<<t>> \o u)[i] = IF i <= 1 THEN <<t>>[i] ELSE u[i - 1]
      <4> HIDE DEF t, u
      <4> QED
        BY <3>3, <3>4, ConcatProperties
    <3>6. Len(f) \in Nat /\ DOMAIN f = 1 .. Len(f)
      BY LenProperties
    <3>7. Trechos(g) \in Seq(Seq(Nat)) /\ Len(Trechos(g)) = 1 + Len(f)
      BY <1>3, <3>2
    <3> HIDE DEF g
    <3>8. DOMAIN g = 1 .. 1 + Len(f)
      BY <3>2, LenProperties
    <3>9. ASSUME NEW i \in 1 .. 1 + Len(f) PROVE Trechos(g)[i] = (<<t>> \o u)[i]
      <4>1. Trechos(g)[i] = Trecho(g[i])
        BY <3>8 DEF Trechos
      <4>2. CASE i = 1
        <5>1. g[i] = x
          BY <3>1, <3>2, <4>2
        <5>2. (<<t>> \o u)[i] = t
          BY <3>4, <3>5, <4>2
        <5> QED
          BY <4>1, <5>1, <5>2
      <4>3. CASE i # 1
        <5>1. i - 1 \in 1 .. Len(f) /\ ~(i <= 1)
          BY <3>6, <4>3
        <5>2. g[i] = f[i - 1]
          BY <3>2, <5>1
        <5>3. (<<t>> \o u)[i] = u[i - 1]
          BY <3>5, <5>1
        <5>4. u[i - 1] = Trecho(f[i - 1])
          BY <3>6, <5>1 DEF Trechos
        <5> QED
          BY <4>1, <5>2, <5>3, <5>4
      <4> QED
        BY <4>2, <4>3
    <3> HIDE DEF t, u
    <3>10. Trechos(g) = <<t>> \o u
      BY <3>5, <3>7, <3>9, SeqEqual
    <3> QED
      BY <3>10 DEF g, t, u
  <2>2. Trecho(x) \in Seq(Nat) /\ Trechos(f) \in Seq(Seq(Nat))
    BY <1>2, <1>3
  <2>3. FlattenSeq(<<Trecho(x)>> \o Trechos(f)) = Trecho(x) \o FlattenSeq(Trechos(f))
    BY <2>2, AplanaDa
  <2> QED
    BY <1>1, <2>1, <2>3, Zenon
<1>8. Direcciones(<<>>) = <<>>
  BY <1>1, <1>4, <1>5, Zenon
<1> QED
  BY <1>2, <1>6, <1>7, <1>8

Reales == 0 .. CantMarcos * TamPagina - 1

\* Frames that are in the user memory have their bytes there.
LEMMA DireccionesReales ==
    ASSUME NEW f \in Seq(Marco),
           \A k \in DOMAIN f : \A j \in 1 .. f[k].bytes : f[k].dir + (j - 1) \in Reales
    PROVE  Direcciones(f) \in Seq(Reales)
<1>1. Len(f) \in Nat /\ DOMAIN f = 1 .. Len(f) /\ \A k \in 1 .. Len(f) : f[k] \in Marco
  BY LenProperties, ElementOfSeq
<1>2. \A k \in 1 .. Len(f) : Trecho(f[k]) \in Seq(Reales)
  <2> TAKE k \in 1 .. Len(f)
  <2>1. f[k].bytes \in Nat /\ \A j \in 1 .. f[k].bytes : f[k].dir + (j - 1) \in Reales
    BY <1>1 DEF Marco
  <2> QED
    BY <2>1 DEF Trecho
<1>3. Trechos(f) \in Seq(Seq(Reales))
  BY <1>1, <1>2 DEF Trechos
<1>4. FlattenSeq(Trechos(f)) \in Seq(Reales)
  BY <1>3, AplanaDa
<1>5. Direcciones(f) = FlattenSeq(Trechos(f))
  BY DEF Direcciones, Trechos, Trecho
<1> QED
  BY <1>4, <1>5, Zenon

\* Two pieces of one sequence, one after the other.
LEMMA DosTrechos ==
    ASSUME NEW S, NEW a \in Nat, NEW b \in Nat, NEW s \in Seq(S), NEW t \in Seq(S),
           Len(s) = a, Len(t) = b
    PROVE  /\ s \o t \in Seq(S) /\ Len(s \o t) = a + b
           /\ \A j \in 1 .. a : (s \o t)[j] = s[j]
           /\ \A j \in 1 .. b : (s \o t)[a + j] = t[j]
<1>1. /\ s \o t \in Seq(S) /\ Len(s \o t) = a + b
      /\ \A i \in 1 .. a + b : (s \o t)[i] = IF i <= a THEN s[i] ELSE t[i - a]
  BY ConcatProperties, ZenonT(90)
<1>2. ASSUME NEW j \in 1 .. a PROVE (s \o t)[j] = s[j]
  <2>1. j \in 1 .. a + b /\ j <= a
    OBVIOUS
  <2> QED
    BY <1>1, <2>1
<1>3. ASSUME NEW j \in 1 .. b PROVE (s \o t)[a + j] = t[j]
  <2>1. a + j \in 1 .. a + b /\ ~(a + j <= a) /\ (a + j) - a = j
    OBVIOUS
  <2> QED
    BY <1>1, <2>1
<1> QED
  BY <1>1, <1>2, <1>3

TablaOK == pages \in Seq(Marcos) /\ Len(pages) <= CantMarcos

Traducido(t) == [dir |-> direccion_fisica(t), bytes |-> t.bytes]
Marcados(tr) == [k \in DOMAIN tr |-> Traducido(tr[k])]
\* Where a logical address is.
Fis(a) == direccion_fisica([pagina |-> a \div TamPagina, desp |-> a % TamPagina])

\* The memory of a process is smaller than a uint32_t counts, and its pages
\* are in the user memory.
LEMMA TablaDa ==
    ASSUME TablaOK
    PROVE  /\ Len(pages) \in Nat /\ TamPagina \in Nat \ {0} /\ M \in Nat \ {0}
           /\ Len(pages) * TamPagina \in Nat /\ Len(pages) * TamPagina < M
           /\ \A q \in Nat : q < Len(pages) =>
                /\ pages[q + 1] \in Marcos /\ q * TamPagina \in Nat
                /\ (q + 1) * TamPagina = q * TamPagina + TamPagina
                /\ (q + 1) * TamPagina <= Len(pages) * TamPagina
                /\ pages[q + 1] * TamPagina \in Nat
                /\ \A x \in 0 .. TamPagina - 1 : pages[q + 1] * TamPagina + x \in Reales
<1>1. /\ Len(pages) \in Nat /\ Len(pages) <= CantMarcos /\ CantMarcos \in Nat
      /\ TamPagina \in Nat \ {0} /\ M \in Nat \ {0} /\ CantMarcos * TamPagina < M
  BY PotenciaDa, MDa, LenProperties DEF TablaOK
<1>2. ASSUME NEW a \in Nat, NEW b \in Nat, a <= b
      PROVE  a * TamPagina <= b * TamPagina /\ a * TamPagina \in Nat /\ b * TamPagina \in Nat
             /\ (a + 1) * TamPagina = a * TamPagina + TamPagina
  <2>1. a * TamPagina \in Nat
    BY <1>1, Producto
  <2>2. b * TamPagina \in Nat
    BY <1>1, Producto
  <2>3. (a + 1) * TamPagina = a * TamPagina + TamPagina
    BY <1>1
  <2>4. a * TamPagina <= b * TamPagina
    <3>1. b = a + (b - a) /\ b - a \in Nat
      BY <1>2
    <3>2. (b - a) * TamPagina \in Nat
      BY <1>1, <3>1, Producto
    <3>3. (a + (b - a)) * TamPagina = a * TamPagina + (b - a) * TamPagina
      BY <1>1
    <3>4. b * TamPagina = a * TamPagina + (b - a) * TamPagina
      BY <3>1, <3>3
    <3> QED
      BY <2>1, <2>2, <3>2, <3>4
  <2> QED
    BY <2>1, <2>2, <2>3, <2>4
<1>3. Len(pages) * TamPagina <= CantMarcos * TamPagina /\ Len(pages) * TamPagina \in Nat
      /\ CantMarcos * TamPagina \in Nat
  BY <1>1, <1>2
<1>4. ASSUME NEW q \in Nat, q < Len(pages)
      PROVE  /\ pages[q + 1] \in Marcos /\ q * TamPagina \in Nat
             /\ (q + 1) * TamPagina = q * TamPagina + TamPagina
             /\ (q + 1) * TamPagina <= Len(pages) * TamPagina
             /\ pages[q + 1] * TamPagina \in Nat
             /\ \A x \in 0 .. TamPagina - 1 : pages[q + 1] * TamPagina + x \in Reales
  <2>1. q + 1 \in 1 .. Len(pages) /\ q + 1 \in Nat /\ q + 1 <= Len(pages) /\ q <= q
    BY <1>1, <1>4
  <2>2. pages[q + 1] \in Marcos
    BY <2>1, ElementOfSeq DEF TablaOK
  <2> DEFINE m == pages[q + 1]
  <2>3. m \in Nat /\ m + 1 \in Nat /\ m + 1 <= CantMarcos /\ m <= m
    BY <1>1, <2>2 DEF Marcos
  <2> HIDE DEF m
  <2>4. /\ m * TamPagina \in Nat /\ (m + 1) * TamPagina = m * TamPagina + TamPagina
        /\ (m + 1) * TamPagina <= CantMarcos * TamPagina
    BY <1>1, <1>2, <2>3
  <2>5. ASSUME NEW x \in 0 .. TamPagina - 1 PROVE m * TamPagina + x \in Reales
    BY <1>1, <1>3, <2>4, SMTT(60) DEF Reales
  <2>6. /\ q * TamPagina \in Nat /\ (q + 1) * TamPagina = q * TamPagina + TamPagina
        /\ (q + 1) * TamPagina <= Len(pages) * TamPagina
    BY <1>1, <1>2, <2>1
  <2> QED
    BY <2>2, <2>4, <2>5, <2>6 DEF m
<1> QED
  BY <1>1, <1>3, <1>4

\* An address by its page and its offset.
LEMMA FisDa ==
    ASSUME TablaOK
    PROVE  /\ \A q \in Nat, x \in 0 .. TamPagina - 1 :
                Fis(q * TamPagina + x) = pages[q + 1] * TamPagina + x
           /\ \A a \in Nat : a < Len(pages) * TamPagina <=> a \div TamPagina < Len(pages)
           /\ \A a \in Nat : a < Len(pages) * TamPagina =>
                /\ Fis(a) \in Reales /\ a \div TamPagina \in Nat
                /\ Fis(a) = pages[a \div TamPagina + 1] * TamPagina + (a % TamPagina)
                /\ a % TamPagina \in 0 .. TamPagina - 1
<1>1. TamPagina \in Nat \ {0} /\ Len(pages) \in Nat
  BY TablaDa
<1>2. ASSUME NEW q \in Nat, NEW x \in 0 .. TamPagina - 1
      PROVE  Fis(q * TamPagina + x) = pages[q + 1] * TamPagina + x
  <2>1. (q * TamPagina + x) \div TamPagina = q /\ (q * TamPagina + x) % TamPagina = x
    BY <1>1, Division
  <2> QED
    BY <2>1 DEF Fis, direccion_fisica
<1>3. \A a \in Nat : a < Len(pages) * TamPagina <=> a \div TamPagina < Len(pages)
  BY <1>1, Cociente
<1>4. ASSUME NEW a \in Nat, a < Len(pages) * TamPagina
      PROVE  /\ Fis(a) \in Reales /\ a \div TamPagina \in Nat
             /\ Fis(a) = pages[a \div TamPagina + 1] * TamPagina + (a % TamPagina)
             /\ a % TamPagina \in 0 .. TamPagina - 1
  <2> DEFINE q == a \div TamPagina
             x == a % TamPagina
  <2>1. q \in Nat /\ x \in 0 .. TamPagina - 1 /\ a = q * TamPagina + x
    <3>1. a \in Int
      OBVIOUS
    <3> QED
      BY <1>1, <3>1, Resto
  <2>2. q < Len(pages)
    BY <1>3, <1>4
  <2>3. Fis(a) = pages[q + 1] * TamPagina + x
    BY DEF Fis, direccion_fisica
  <2> HIDE DEF q, x
  <2>4. pages[q + 1] * TamPagina + x \in Reales
    BY <2>1, <2>2, TablaDa
  <2> QED
    BY <2>1, <2>3, <2>4 DEF q, x
<1> QED
  BY <1>2, <1>3, <1>4

\* The frames of one page and of the rest.
LEMMA MarcadosDa ==
    /\ \A x \in TramoBien : Marcados(<<x>>) = <<Traducido(x)>>
    /\ \A x \in TramoBien, r \in Seq(TramoBien) :
            Marcados(<<x>> \o r) = <<Traducido(x)>> \o Marcados(r)
<1> DEFINE S == {Traducido(t) : t \in TramoBien}
<1>1. ASSUME NEW r \in Seq(TramoBien)
      PROVE  Marcados(r) \in Seq(S) /\ Len(Marcados(r)) = Len(r)
             /\ \A k \in 1 .. Len(r) : Marcados(r)[k] = Traducido(r[k])
  <2>1. Len(r) \in Nat /\ DOMAIN r = 1 .. Len(r) /\ \A k \in 1 .. Len(r) : r[k] \in TramoBien
    BY LenProperties, ElementOfSeq
  <2>2. \A k \in 1 .. Len(r) : Traducido(r[k]) \in S
    BY <2>1
  <2> HIDE DEF S
  <2> QED
    BY <2>1, <2>2 DEF Marcados
<1>2. ASSUME NEW x \in TramoBien PROVE Marcados(<<x>>) = <<Traducido(x)>>
  BY DEF Marcados
<1>3. ASSUME NEW x \in TramoBien, NEW r \in Seq(TramoBien)
      PROVE  Marcados(<<x>> \o r) = <<Traducido(x)>> \o Marcados(r)
  <2> DEFINE g == <<x>> \o r
             u == <<Traducido(x)>> \o Marcados(r)
             n == Len(r)
  <2>1. <<x>> \in Seq(TramoBien) /\ Len(<<x>>) = 1 /\ <<x>>[1] = x /\ n \in Nat
    BY LenProperties
  <2>2. /\ g \in Seq(TramoBien) /\ Len(g) = 1 + n
        /\ \A j \in 1 .. 1 : g[j] = <<x>>[j]
        /\ \A j \in 1 .. n : g[1 + j] = r[j]
    BY <2>1, DosTrechos
  <2>3. /\ <<Traducido(x)>> \in Seq(S) /\ Len(<<Traducido(x)>>) = 1
        /\ <<Traducido(x)>>[1] = Traducido(x)
    OBVIOUS
  <2>4. Marcados(r) \in Seq(S) /\ Len(Marcados(r)) = n
    BY <1>1
  <2>5. /\ u \in Seq(S) /\ Len(u) = 1 + n
        /\ \A j \in 1 .. 1 : u[j] = <<Traducido(x)>>[j]
        /\ \A j \in 1 .. n : u[1 + j] = Marcados(r)[j]
    <3> HIDE DEF S, n
    <3> QED
      BY <2>1, <2>3, <2>4, DosTrechos
  <2> HIDE DEF g, u, S
  <2>6. Marcados(g) \in Seq(S) /\ Len(Marcados(g)) = 1 + n
        /\ \A k \in 1 .. 1 + n : Marcados(g)[k] = Traducido(g[k])
    BY <1>1, <2>2
  <2>7. ASSUME NEW k \in 1 .. 1 + n PROVE Marcados(g)[k] = u[k]
    <3>1. CASE k = 1
      <4>1. g[1] = x /\ u[1] = Traducido(x)
        BY <2>1, <2>2, <2>3, <2>5
      <4> QED
        BY <2>6, <3>1, <4>1
    <3>2. CASE k # 1
      <4>1. k - 1 \in 1 .. n /\ 1 + (k - 1) = k
        BY <2>1, <3>2
      <4>2. g[k] = r[k - 1] /\ u[k] = Marcados(r)[k - 1]
        BY <2>2, <2>5, <4>1
      <4>3. Marcados(r)[k - 1] = Traducido(r[k - 1])
        BY <1>1, <4>1
      <4> QED
        BY <2>6, <4>2, <4>3
    <3> QED
      BY <3>1, <3>2
  <2>8. Marcados(g) = u
    BY <2>5, <2>6, <2>7, SeqEqual
  <2> QED
    BY <2>8 DEF g, u
<1> QED
  BY <1>2, <1>3

-----------------------------------------------------------------------------
(* What a translation covers.                                              *)

\* The process has every page.
Alcanza(tr) == \A k \in DOMAIN tr : tr[k].pagina < Len(pages)
\* Where n logical addresses from dl are.
Seguidas(dl, n) == [j \in 1 .. n |-> Fis(dl + (j - 1))]
Memoria == Len(pages) * TamPagina

\* The addresses of a piece of a page the process has.
LEMMA UnTramo ==
    ASSUME TablaOK, NEW x \in TramoBien, x.pagina < Len(pages)
    PROVE  /\ Traducido(x) \in Marco /\ Traducido(x).bytes = x.bytes
           /\ x.desp + x.bytes <= TamPagina =>
                Trecho(Traducido(x)) = Seguidas(x.pagina * TamPagina + x.desp, x.bytes)
<1>1. /\ x.pagina \in Nat /\ x.desp \in 0 .. TamPagina - 1 /\ x.bytes \in 0 .. M - 1
      /\ TamPagina \in Nat \ {0} /\ M \in Nat \ {0}
  BY TablaDa DEF TramoBien
<1> DEFINE q == x.pagina
           m == pages[q + 1]
<1>2. /\ direccion_fisica(x) = m * TamPagina + x.desp
      /\ m * TamPagina \in Nat /\ q * TamPagina \in Nat
  BY <1>1, TablaDa DEF direccion_fisica
<1> DEFINE f == Traducido(x)
<1>3. f = [dir |-> direccion_fisica(x), bytes |-> x.bytes]
  BY DEF Traducido
<1>4. f.dir = m * TamPagina + x.desp /\ f.bytes = x.bytes /\ f.dir \in Nat
  BY <1>1, <1>2, <1>3, SMTT(60)
<1>5. f \in Marco
  BY <1>1, <1>3, <1>4 DEF Marco
<1>6. ASSUME x.desp + x.bytes <= TamPagina
      PROVE  Trecho(f) = Seguidas(q * TamPagina + x.desp, x.bytes)
  <2>1. ASSUME NEW j \in 1 .. x.bytes
        PROVE  f.dir + (j - 1) = Fis((q * TamPagina + x.desp) + (j - 1))
    <3>1. x.desp + (j - 1) \in 0 .. TamPagina - 1 /\ q \in Nat
      BY <1>1, <1>6, SMTT(60)
    <3>2. Fis(q * TamPagina + (x.desp + (j - 1))) = m * TamPagina + (x.desp + (j - 1))
      BY <3>1, FisDa
    <3>3. /\ q * TamPagina + (x.desp + (j - 1)) = (q * TamPagina + x.desp) + (j - 1)
          /\ m * TamPagina + (x.desp + (j - 1)) = f.dir + (j - 1)
      <4> DEFINE a == q * TamPagina
                 b == m * TamPagina
                 d == x.desp
                 w == f.dir
      <4>1. a \in Nat /\ b \in Nat /\ d \in 0 .. TamPagina - 1 /\ w = b + d
            /\ j \in Int
        BY <1>1, <1>2, <1>4
      <4> HIDE DEF a, b, d, w
      <4>2. a + (d + (j - 1)) = (a + d) + (j - 1) /\ b + (d + (j - 1)) = w + (j - 1)
        BY <1>1, <4>1
      <4> QED
        BY <4>2, Zenon DEF a, b, d, w
    <3> QED
      BY <3>2, <3>3
  <2> HIDE DEF f, q, m
  <2> QED
    BY <1>4, <2>1 DEF Trecho, Seguidas
<1> QED
  BY <1>4, <1>5, <1>6

\* Addresses of the memory of the process are in the user memory.
LEMMA SeguidasDa ==
    ASSUME TablaOK, NEW d \in Nat, NEW n \in Nat, d + n <= Memoria
    PROVE  /\ Seguidas(d, n) \in Seq(Reales) /\ Len(Seguidas(d, n)) = n
           /\ \A j \in 1 .. n : Seguidas(d, n)[j] = Fis(d + (j - 1))
<1>1. ASSUME NEW j \in 1 .. n PROVE Fis(d + (j - 1)) \in Reales
  <2>1. Memoria \in Nat
    BY TablaDa DEF Memoria
  <2>2. d + (j - 1) \in Nat /\ d + (j - 1) < Memoria
    BY <2>1
  <2> QED
    BY <2>2, FisDa DEF Memoria
<1> QED
  BY <1>1 DEF Seguidas

\* One range and the next.
LEMMA SeguidasDos ==
    ASSUME TablaOK, NEW d \in Nat, NEW a \in Nat, NEW b \in Nat, d + (a + b) <= Memoria
    PROVE  Seguidas(d, a) \o Seguidas(d + a, b) = Seguidas(d, a + b)
<1>0. Memoria \in Nat
  BY TablaDa DEF Memoria
<1>1. d + a \in Nat /\ a + b \in Nat /\ d + a <= Memoria /\ (d + a) + b <= Memoria
  BY <1>0
<1> DEFINE s == Seguidas(d, a)
           t == Seguidas(d + a, b)
           u == Seguidas(d, a + b)
<1>2. s \in Seq(Reales) /\ Len(s) = a /\ \A j \in 1 .. a : s[j] = Fis(d + (j - 1))
  BY <1>1, SeguidasDa
<1>3. t \in Seq(Reales) /\ Len(t) = b /\ \A j \in 1 .. b : t[j] = Fis((d + a) + (j - 1))
  BY <1>1, SeguidasDa
<1>4. u \in Seq(Reales) /\ Len(u) = a + b /\ \A j \in 1 .. a + b : u[j] = Fis(d + (j - 1))
  BY <1>1, SeguidasDa
<1> HIDE DEF s, t, u
<1>5. /\ s \o t \in Seq(Reales) /\ Len(s \o t) = a + b
      /\ \A j \in 1 .. a : (s \o t)[j] = s[j]
      /\ \A j \in 1 .. b : (s \o t)[a + j] = t[j]
  <2>1. a \in Nat /\ b \in Nat /\ s \in Seq(Reales) /\ t \in Seq(Reales)
        /\ Len(s) = a /\ Len(t) = b
    BY <1>2, <1>3
  <2>2. s \o t \in Seq(Reales) /\ Len(s \o t) = a + b
    BY ONLY <2>1, DosTrechos
  <2>3. \A j \in 1 .. a : (s \o t)[j] = s[j]
    BY ONLY <2>1, DosTrechos
  <2>4. ASSUME NEW j \in 1 .. b PROVE (s \o t)[a + j] = t[j]
    <3>1. /\ \A i \in 1 .. Len(s) + Len(t) :
                (s \o t)[i] = IF i <= Len(s) THEN s[i] ELSE t[i - Len(s)]
      BY ONLY <2>1, ConcatProperties
    <3>2. a + j \in 1 .. Len(s) + Len(t) /\ ~(a + j <= Len(s)) /\ (a + j) - Len(s) = j
      BY <2>1
    <3> QED
      BY <3>1, <3>2
  <2> QED
    BY <2>2, <2>3, <2>4
<1>6. ASSUME NEW j \in 1 .. a + b PROVE (s \o t)[j] = u[j]
  <2>1. CASE j <= a
    <3>1. j \in 1 .. a
      BY <2>1
    <3> QED
      BY <1>2, <1>4, <1>5, <3>1
  <2>2. CASE ~(j <= a)
    <3>1. j - a \in 1 .. b /\ a + (j - a) = j /\ (d + a) + ((j - a) - 1) = d + (j - 1)
      BY <2>2
    <3>2. (s \o t)[j] = t[j - a]
      BY <1>5, <3>1
    <3>3. t[j - a] = Fis((d + a) + ((j - a) - 1))
      BY <1>3, <3>1
    <3> QED
      BY <1>4, <3>1, <3>2, <3>3
  <2> QED
    BY <2>1, <2>2
<1>7. s \o t = u
  BY <1>4, <1>5, <1>6, SeqEqual
<1> QED
  BY <1>7 DEF s, t, u

\* Pages of the process make frames.
LEMMA MarcadosMarco ==
    ASSUME TablaOK, NEW tr \in Seq(TramoBien), Alcanza(tr)
    PROVE  Marcados(tr) \in Seq(Marco)
<1>1. Len(tr) \in Nat /\ DOMAIN tr = 1 .. Len(tr) /\ \A k \in 1 .. Len(tr) : tr[k] \in TramoBien
  BY LenProperties, ElementOfSeq
<1>2. ASSUME NEW k \in 1 .. Len(tr) PROVE Traducido(tr[k]) \in Marco
  <2>1. tr[k] \in TramoBien /\ tr[k].pagina < Len(pages)
    BY <1>1 DEF Alcanza
  <2> QED
    BY <2>1, UnTramo
<1> QED
  BY <1>1, <1>2 DEF Marcados

\* Of a range whose sum does not wrap around: no piece is more than what is
\* left of its page while the pages are there; and all the pages are there
\* just when the memory holds the range, whose addresses then are those of
\* the frames.
Cubierto(n, dl) ==
    /\ \A k \in DOMAIN Tramos[n][dl] :
            (\A j \in 1 .. k : Tramos[n][dl][j].pagina < Len(pages)) =>
                Tramos[n][dl][k].desp + Tramos[n][dl][k].bytes <= TamPagina
    /\ Alcanza(Tramos[n][dl]) =>
            /\ dl < Memoria /\ dl + n <= Memoria
            /\ Direcciones(Marcados(Tramos[n][dl])) = Seguidas(dl, n)
    /\ dl < Memoria /\ dl + n <= Memoria => Alcanza(Tramos[n][dl])

\* One page.
LEMMA CubreUno ==
    ASSUME TablaOK, NEW n \in 0 .. M - 1, NEW dl \in 0 .. M - 1, Desp(dl) + n < M,
           Tramos[n][dl] = <<Primero(n, dl)>>, Primero(n, dl).bytes = n
    PROVE  Cubierto(n, dl)
<1> DEFINE x == Primero(n, dl)
           tr == Tramos[n][dl]
<1>1. /\ TamPagina \in Nat \ {0} /\ M \in Nat \ {0} /\ Len(pages) \in Nat /\ Memoria \in Nat
      /\ dl \in Nat /\ n \in Nat
  BY TablaDa DEF Memoria
<1>2. x \in TramoBien /\ x.pagina = dl \div TamPagina /\ x.desp = Desp(dl) /\ x.bytes = n
  BY PrimeroBien DEF Primero
<1>3. /\ x.pagina \in Nat /\ Desp(dl) \in 0 .. TamPagina - 1
      /\ dl = x.pagina * TamPagina + Desp(dl) /\ EnPagina(Desp(dl), n) = n
  BY <1>2, TramoDa
<1>4. x.desp + x.bytes <= TamPagina
  <2>1. \/ Desp(dl) + n <= TamPagina
        \/ Desp(dl) + n >= M
        \/ EnPagina(Desp(dl), n) # n
    BY <1>3, EnPaginaDa
  <2>2. Desp(dl) + n <= TamPagina
    BY <1>1, <1>3, <2>1
  <2> QED
    BY <1>2, <2>2
<1>5. dl < Memoria <=> x.pagina < Len(pages)
  BY <1>1, <1>2, FisDa DEF Memoria
<1>6. tr = <<x>> /\ DOMAIN tr = {1} /\ tr[1] = x
  OBVIOUS
<1>7. ASSUME x.pagina < Len(pages)
      PROVE  /\ dl + n <= Memoria
             /\ Direcciones(Marcados(tr)) = Seguidas(dl, n)
  <2> DEFINE q == x.pagina
  <2>1. /\ q * TamPagina \in Nat /\ (q + 1) * TamPagina = q * TamPagina + TamPagina
        /\ (q + 1) * TamPagina <= Memoria
    BY <1>3, <1>7, TablaDa DEF Memoria
  <2>2. dl + n <= q * TamPagina + TamPagina
    <3> DEFINE a == q * TamPagina
               d == Desp(dl)
    <3>1. a \in Nat /\ dl = a + d /\ d \in 0 .. TamPagina - 1
      BY <1>3, <2>1
    <3>2. d + n <= TamPagina
      BY <1>2, <1>4
    <3> HIDE DEF a, d
    <3>3. dl + n <= a + TamPagina
      BY <1>1, <3>1, <3>2
    <3> QED
      BY <3>3 DEF a
  <2>3. dl + n <= Memoria
    BY <1>1, <2>1, <2>2, SMTT(60)
  <2>4. Marcados(tr) = <<Traducido(x)>>
    BY <1>2, <1>6, MarcadosDa
  <2>5. /\ Traducido(x) \in Marco
        /\ Trecho(Traducido(x)) = Seguidas(q * TamPagina + x.desp, x.bytes)
    BY <1>2, <1>4, <1>7, UnTramo
  <2>6. Trecho(Traducido(x)) = Seguidas(dl, n)
    BY <1>2, <1>3, <2>5
  <2>7. Direcciones(<<Traducido(x)>>) = Trecho(Traducido(x))
    <3> DEFINE f == Traducido(x)
    <3>1. f \in Marco /\ <<>> \in Seq(Marco)
      BY <2>5, EmptySeq
    <3> HIDE DEF f
    <3>2. Direcciones(<<f>> \o <<>>) = Trecho(f) \o Direcciones(<<>>)
      BY <3>1, DireccionesDa
    <3>3. <<f>> \o <<>> = <<f>>
      <4>1. <<f>> \in Seq(Marco)
        BY <3>1
      <4> QED
        BY <4>1, ConcatEmptySeq
    <3>4. Direcciones(<<>>) = <<>> /\ Trecho(f) \in Seq(Nat)
      BY <3>1, DireccionesDa
    <3>5. Trecho(f) \o <<>> = Trecho(f)
      BY <3>4, ConcatEmptySeq
    <3> QED
      BY <3>2, <3>3, <3>4, <3>5 DEF f
  <2> QED
    BY <2>3, <2>4, <2>6, <2>7
<1>8. Alcanza(tr) <=> x.pagina < Len(pages)
  BY <1>6 DEF Alcanza
<1>9. \A k \in DOMAIN tr : tr[k].desp + tr[k].bytes <= TamPagina
  BY <1>4, <1>6, SMTT(60)
<1> HIDE DEF x, tr
<1> QED
  BY <1>5, <1>7, <1>8, <1>9 DEF Cubierto, tr

\* One page and the rest.
LEMMA CubreMas ==
    ASSUME TablaOK, NEW n \in 0 .. M - 1, NEW dl \in 0 .. M - 1, Desp(dl) + n < M,
           Primero(n, dl).bytes # n,
           Tramos[n][dl] = <<Primero(n, dl)>> \o
                           Tramos[n - Primero(n, dl).bytes][Siguiente(dl)],
           \A k \in 0 .. n - 1, d \in 0 .. M - 1 : Desp(d) + k < M => Cubierto(k, d)
    PROVE  Cubierto(n, dl)
<1> DEFINE x == Primero(n, dl)
           b == x.bytes
           tr == Tramos[n][dl]
           r == Tramos[n - b][Siguiente(dl)]
           q == x.pagina
<1>1. /\ TamPagina \in Nat \ {0} /\ M \in Nat \ {0} /\ Len(pages) \in Nat /\ Memoria \in Nat
      /\ dl \in Nat /\ n \in Nat /\ Memoria < M
  BY TablaDa DEF Memoria
<1>2. x \in TramoBien /\ q = dl \div TamPagina /\ x.desp = Desp(dl)
      /\ x.bytes = EnPagina(Desp(dl), n)
  BY PrimeroBien DEF Primero
<1>3. /\ q \in Nat /\ Desp(dl) \in 0 .. TamPagina - 1
      /\ dl = q * TamPagina + Desp(dl)
  BY <1>2, TramoDa
<1>4. b = TamPagina - Desp(dl) /\ b \in Nat /\ b >= 1 /\ n - b \in 0 .. n - 1
      /\ n - b \in 0 .. M - 1 /\ n - b \in Nat /\ n - b >= 1
  <2>1. EnPagina(Desp(dl), n) # n
    BY <1>2
  <2>2. Desp(dl) + n > TamPagina
        /\ EnPagina(Desp(dl), n) = TamPagina - Desp(dl) /\ EnPagina(Desp(dl), n) >= 1
    BY <1>3, <2>1, EnPaginaDa
  <2>3. b = EnPagina(Desp(dl), n)
    BY <1>2
  <2>4. Desp(dl) \in 0 .. TamPagina - 1
    BY <1>3
  <2> HIDE DEF b
  <2> QED
    BY <1>1, <2>2, <2>3, <2>4, SMTT(60)
<1>5. Siguiente(dl) \in 0 .. M - 1
  BY TramoDa
<1>6. r \in Seq(TramoBien)
  BY <1>4, <1>5, TramosBien
<1>7. tr = <<x>> \o r
  OBVIOUS
<1>8. dl < Memoria <=> q < Len(pages)
  BY <1>1, <1>2, FisDa, ZenonT(90) DEF Memoria
<1> HIDE DEF x, b, tr, r, q
<1>81. Desp(dl) + b = TamPagina
  <2>1. Desp(dl) \in 0 .. TamPagina - 1
    BY <1>3
  <2> QED
    BY <1>1, <1>4, <2>1, SMTT(60)
<1>9. /\ Len(r) \in Nat /\ DOMAIN r = 1 .. Len(r) /\ DOMAIN tr = 1 .. 1 + Len(r)
      /\ tr[1] = x /\ \A k \in 1 .. Len(r) : tr[1 + k] = r[k]
  <2>1. /\ <<x>> \in Seq(TramoBien) /\ Len(<<x>>) = 1 /\ <<x>>[1] = x /\ Len(r) \in Nat
        /\ 1 \in Nat
    BY <1>2, <1>6, LenProperties
  <2>2. <<x>> \o r \in Seq(TramoBien) /\ Len(<<x>> \o r) = 1 + Len(r)
    BY <1>6, <2>1, DosTrechos
  <2>3. \A j \in 1 .. 1 : (<<x>> \o r)[j] = <<x>>[j]
    BY <1>6, <2>1, DosTrechos
  <2>4. \A j \in 1 .. Len(r) : (<<x>> \o r)[1 + j] = r[j]
    BY <1>6, <2>1, DosTrechos
  <2>5. DOMAIN r = 1 .. Len(r) /\ DOMAIN (<<x>> \o r) = 1 .. 1 + Len(r)
    BY <1>6, <2>2, LenProperties
  <2> QED
    BY <1>7, <2>1, <2>3, <2>4, <2>5
<1>10. Alcanza(tr) <=> q < Len(pages) /\ Alcanza(r)
  <2>1. ASSUME Alcanza(tr) PROVE q < Len(pages) /\ Alcanza(r)
    <3>1. 1 \in DOMAIN tr /\ \A k \in 1 .. Len(r) : 1 + k \in DOMAIN tr
      BY <1>9
    <3> QED
      BY <1>9, <2>1, <3>1 DEF Alcanza, q
  <2>2. ASSUME q < Len(pages), Alcanza(r) PROVE Alcanza(tr)
    <3>1. ASSUME NEW k \in 1 .. 1 + Len(r) PROVE tr[k].pagina < Len(pages)
      <4>1. CASE k = 1
        BY <1>9, <2>2, <4>1 DEF q
      <4>2. CASE k # 1
        <5>1. k - 1 \in 1 .. Len(r) /\ 1 + (k - 1) = k
          BY <1>9, <4>2
        <5> QED
          BY <1>9, <2>2, <5>1 DEF Alcanza
      <4> QED
        BY <4>1, <4>2
    <3> QED
      BY <1>9, <3>1 DEF Alcanza
  <2> QED
    BY <2>1, <2>2
<1>11. ASSUME q < Len(pages)
       PROVE  /\ Siguiente(dl) = dl + b /\ (q + 1) * TamPagina = dl + b
              /\ dl + b <= Memoria /\ Cubierto(n - b, dl + b)
  <2>1. /\ q * TamPagina \in Nat /\ (q + 1) * TamPagina = q * TamPagina + TamPagina
        /\ (q + 1) * TamPagina <= Memoria
    BY <1>3, <1>11, TablaDa DEF Memoria
  <2>2. (q + 1) * TamPagina = dl + b
    BY <1>1, <1>3, <1>4, <2>1, SMTT(60)
  <2>3. dl + b \in 0 .. M - 1 /\ dl + b \in Int /\ dl + b <= Memoria
    <3>1. dl + b <= Memoria
      BY <2>1, <2>2, Zenon
    <3> QED
      BY <1>1, <1>4, <3>1, SMTT(60)
  <2>4. Siguiente(dl) = (dl + b) % M
    BY <1>2, <2>2 DEF Siguiente
  <2>5. (dl + b) % M = dl + b
    BY <1>1, <2>3, Resto
  <2>6. Desp(dl + b) = 0
    <3>1. /\ q + 1 \in Int /\ 0 \in 0 .. TamPagina - 1
          /\ (q + 1) * TamPagina + 0 = dl + b
      <4>1. (dl + b) + 0 = dl + b
        BY <2>3
      <4>2. q + 1 \in Int /\ 0 \in 0 .. TamPagina - 1
        BY <1>1, <1>3, SMTT(60)
      <4> QED
        BY <2>2, <4>1, <4>2, ZenonT(90)
    <3>2. ((q + 1) * TamPagina + 0) % TamPagina = 0
      BY <1>1, <3>1, Division
    <3> QED
      BY <3>1, <3>2 DEF Desp
  <2>7. Desp(dl + b) + (n - b) < M
    BY <1>1, <1>4, <2>6, SMTT(60)
  <2>8. Cubierto(n - b, dl + b)
    BY <1>4, <2>3, <2>7
  <2> QED
    BY <2>2, <2>3, <2>4, <2>5, <2>8
<1>12. ASSUME NEW k \in 1 .. 1 + Len(r), \A j \in 1 .. k : tr[j].pagina < Len(pages)
       PROVE  tr[k].desp + tr[k].bytes <= TamPagina
  <2>0. q < Len(pages)
    <3>1. 1 \in 1 .. k
      BY <1>9
    <3> QED
      BY <1>9, <1>12, <3>1 DEF q
  <2>1. CASE k = 1
    <3>1. tr[k].desp = Desp(dl) /\ tr[k].bytes = b
      BY <1>2, <1>9, <2>1 DEF b
    <3>2. tr[k].desp + tr[k].bytes = Desp(dl) + b
      BY <3>1
    <3> QED
      BY <1>1, <1>81, <3>2
  <2>2. CASE k # 1
    <3>1. k - 1 \in 1 .. Len(r) /\ 1 + (k - 1) = k
      BY <1>9, <2>2
    <3>2. r = Tramos[n - b][dl + b]
      BY <1>11, <2>0 DEF r
    <3>3. \A j \in 1 .. k - 1 : r[j].pagina < Len(pages)
      <4> TAKE j \in 1 .. k - 1
      <4>1. j \in 1 .. Len(r) /\ 1 + j \in 1 .. k
        BY <1>9, <3>1, SMTT(60)
      <4> QED
        BY <1>9, <1>12, <4>1
    <3>4. r[k - 1].desp + r[k - 1].bytes <= TamPagina
      BY <1>9, <1>11, <2>0, <3>1, <3>2, <3>3 DEF Cubierto
    <3> QED
      BY <1>9, <3>1, <3>4
  <2> QED
    BY <2>1, <2>2
<1>13. ASSUME Alcanza(tr)
       PROVE  /\ dl < Memoria /\ dl + n <= Memoria
              /\ Direcciones(Marcados(tr)) = Seguidas(dl, n)
  <2>1. q < Len(pages) /\ Alcanza(r)
    BY <1>10, <1>13
  <2>2. /\ dl + b <= Memoria /\ r = Tramos[n - b][dl + b] /\ Cubierto(n - b, dl + b)
    BY <1>11, <2>1, SMTT(60) DEF r
  <2>3. (dl + b) + (n - b) <= Memoria /\ Direcciones(Marcados(r)) = Seguidas(dl + b, n - b)
    BY <2>1, <2>2 DEF Cubierto
  <2>4. dl + n <= Memoria /\ (dl + b) + (n - b) = dl + n /\ b + (n - b) = n
    <3>1. dl \in Nat /\ n \in Nat /\ b \in Nat
      BY <1>1, <1>4, Zenon
    <3>2. (dl + b) + (n - b) = dl + n /\ b + (n - b) = n
      BY <3>1
    <3> QED
      BY <2>3, <3>2, Zenon
  <2>5. Marcados(tr) = <<Traducido(x)>> \o Marcados(r)
    BY <1>2, <1>6, <1>7, MarcadosDa
  <2>6. Marcados(r) \in Seq(Marco)
    BY <1>6, <2>1, MarcadosMarco
  <2>7. Traducido(x) \in Marco /\ Trecho(Traducido(x)) = Seguidas(dl, b)
    <3>1. x.pagina < Len(pages) /\ x.desp + x.bytes <= TamPagina
      <4>1. x.desp + x.bytes = TamPagina
        BY <1>2, <1>81, Zenon DEF b
      <4>2. x.pagina < Len(pages)
        BY <2>1, Zenon DEF q
      <4> QED
        BY <1>1, <4>1, <4>2
    <3>2. Traducido(x) \in Marco
          /\ Trecho(Traducido(x)) = Seguidas(x.pagina * TamPagina + x.desp, x.bytes)
      BY <1>2, <3>1, UnTramo
    <3>3. x.pagina * TamPagina + x.desp = dl
      BY <1>2, <1>3 DEF q
    <3> QED
      BY <3>2, <3>3 DEF b
  <2>8. Direcciones(Marcados(tr)) = Seguidas(dl, b) \o Seguidas(dl + b, n - b)
    <3> DEFINE f == Traducido(x)
               u == Marcados(r)
    <3>1. f \in Marco /\ u \in Seq(Marco)
      BY <2>6, <2>7
    <3> HIDE DEF f, u
    <3>2. Direcciones(<<f>> \o u) = Trecho(f) \o Direcciones(u)
      BY <3>1, DireccionesDa
    <3> QED
      BY <2>3, <2>5, <2>7, <3>2 DEF f, u
  <2>9. Seguidas(dl, b) \o Seguidas(dl + b, n - b) = Seguidas(dl, b + (n - b))
    <3> DEFINE c == n - b
    <3>1. c \in Nat /\ b \in Nat /\ dl \in Nat /\ dl + (b + c) <= Memoria
      BY <1>1, <1>4, <2>4
    <3> HIDE DEF c
    <3>2. Seguidas(dl, b) \o Seguidas(dl + b, c) = Seguidas(dl, b + c)
      BY <3>1, SeguidasDos
    <3> QED
      BY <3>2 DEF c
  <2> QED
    BY <1>8, <2>1, <2>4, <2>8, <2>9
<1>14. ASSUME dl < Memoria, dl + n <= Memoria
       PROVE  Alcanza(tr)
  <2>1. q < Len(pages)
    BY <1>8, <1>14
  <2>2. r = Tramos[n - b][dl + b] /\ Cubierto(n - b, dl + b)
    BY <1>11, <2>1 DEF r
  <2>3. dl + b < Memoria /\ (dl + b) + (n - b) <= Memoria
    BY <1>1, <1>4, <1>14, SMTT(60)
  <2>4. Alcanza(r)
    BY <2>2, <2>3 DEF Cubierto
  <2> QED
    BY <1>10, <2>1, <2>4
<1> QED
  BY <1>9, <1>12, <1>13, <1>14 DEF Cubierto, tr

\* By induction on the size of the range.
LEMMA Cubre ==
    ASSUME TablaOK, NEW n \in 0 .. M - 1, NEW dl \in 0 .. M - 1, Desp(dl) + n < M
    PROVE  Cubierto(n, dl)
<1> DEFINE T == {m \in 0 .. M - 1 : \A d \in 0 .. M - 1 : Desp(d) + m < M => Cubierto(m, d)}
<1>1. ASSUME NEW m \in 0 .. M - 1, \A k \in 0 .. m - 1 : k \in T PROVE m \in T
  <2>1. ASSUME NEW d \in 0 .. M - 1, Desp(d) + m < M PROVE Cubierto(m, d)
    <3>1. \A k \in 0 .. m - 1, e \in 0 .. M - 1 : Desp(e) + k < M => Cubierto(k, e)
      BY <1>1
    <3>2. CASE Primero(m, d).bytes = m /\ Tramos[m][d] = <<Primero(m, d)>>
      BY <2>1, <3>2, CubreUno
    <3>3. CASE /\ Primero(m, d).bytes # m
               /\ Tramos[m][d] = <<Primero(m, d)>> \o
                                 Tramos[m - Primero(m, d).bytes][Siguiente(d)]
      BY <2>1, <3>1, <3>3, CubreMas
    <3> QED
      BY <3>2, <3>3, TramosPaso
  <2> QED
    BY <2>1
<1> HIDE DEF T
<1>2. n \in T
  BY <1>1, HastaTodos
<1> QED
  BY <1>2 DEF T

-----------------------------------------------------------------------------
(* What mmu answers.                                                       *)

\* The memory of the process holds the range, or the sum of offset and size
\* wraps around on a page of the process.
Entra(d, n) == d < Memoria /\ d + n <= Memoria
Desborda(d, n) == Desp(d) + n >= M /\ d < Memoria
Hay(tr) == {k \in DOMAIN tr : \A j \in 1 .. k : tr[j].pagina < Len(pages)}

\* A set that has what comes before each of its members is an interval.
LEMMA Prefijo ==
    ASSUME NEW n \in Nat, NEW H, H \subseteq 1 .. n, \A k \in H : \A j \in 1 .. k : j \in H
    PROVE  \E m \in 0 .. n : H = 1 .. m
<1>1. CASE H = {}
  <2>1. 0 \in 0 .. n /\ 1 .. 0 = {}
    OBVIOUS
  <2> QED
    BY <1>1, <2>1
<1>2. CASE H # {}
  <2>1. Max(H) \in H /\ \A y \in H : Max(H) >= y
    BY <1>2, Maximo
  <2> DEFINE m == Max(H)
  <2> HIDE DEF m
  <2>2. m \in H /\ m \in 0 .. n /\ \A y \in H : y <= m
    <3>1. m \in H /\ \A y \in H : m >= y
      BY <2>1 DEF m
    <3> QED
      BY <3>1
  <2>3. \A j \in 1 .. m : j \in H
    BY <2>2
  <2>4. \A j \in H : j \in 1 .. m
    <3> TAKE j \in H
    <3>1. j \in 1 .. n /\ j <= m
      BY <2>2
    <3> QED
      BY <2>2, <3>1
  <2>5. H = 1 .. m
    BY <2>3, <2>4
  <2> QED
    BY <2>2, <2>5
<1> QED
  BY <1>1, <1>2

\* The frames are those of the pages that the process has before the first it
\* has not.
LEMMA MmuTramos ==
    ASSUME TablaOK, NEW d \in 0 .. M - 1, NEW n \in 0 .. M - 1
    PROVE  LET tr == Tramos[n][d]
               t == mmu(d, n) IN
           /\ DOMAIN t.frames = Hay(tr) /\ t.frames \in Seq(Marco)
           /\ \A k \in Hay(tr) : /\ tr[k] \in TramoBien /\ tr[k].pagina < Len(pages)
                                 /\ t.frames[k] = Traducido(tr[k])
           /\ t.status = (IF Hay(tr) = DOMAIN tr THEN "RUNNING" ELSE "ERROR")
           /\ Hay(tr) = DOMAIN tr <=> Alcanza(tr)
           /\ Alcanza(tr) => t.frames = Marcados(tr)
<1> DEFINE tr == Tramos[n][d]
           t == mmu(d, n)
           f == [k \in Hay(tr) |-> Traducido(tr[k])]
<1>1. t = [status |-> IF Hay(tr) = DOMAIN tr THEN "RUNNING" ELSE "ERROR", frames |-> f]
  BY Zenon DEF mmu, Hay, Traducido
<1>2. tr \in Seq(TramoBien)
  BY TramosBien
<1> HIDE DEF tr
<1>3. Len(tr) \in Nat /\ DOMAIN tr = 1 .. Len(tr) /\ \A k \in 1 .. Len(tr) : tr[k] \in TramoBien
  BY <1>2, LenProperties, ElementOfSeq
<1>4. ASSUME NEW k \in Hay(tr)
      PROVE  k \in 1 .. Len(tr) /\ tr[k] \in TramoBien /\ tr[k].pagina < Len(pages)
             /\ \A j \in 1 .. k : j \in Hay(tr)
  <2>1. k \in 1 .. Len(tr) /\ \A j \in 1 .. k : tr[j].pagina < Len(pages)
    BY <1>3 DEF Hay
  <2>2. k \in 1 .. k
    BY <2>1
  <2>3. ASSUME NEW j \in 1 .. k PROVE j \in Hay(tr)
    <3>1. j \in 1 .. Len(tr) /\ \A i \in 1 .. j : i \in 1 .. k
      BY <1>3, <2>1
    <3> QED
      BY <1>3, <2>1, <3>1 DEF Hay
  <2> QED
    BY <1>3, <2>1, <2>2, <2>3
<1>5. PICK m \in 0 .. Len(tr) : Hay(tr) = 1 .. m
  <2>1. Hay(tr) \subseteq 1 .. Len(tr)
    BY <1>4
  <2> QED
    BY <1>3, <1>4, <2>1, Prefijo
<1>6. f \in Seq(Marco)
  <2>1. ASSUME NEW k \in 1 .. m PROVE Traducido(tr[k]) \in Marco
    BY <1>4, <1>5, UnTramo
  <2>2. m \in Nat
    BY <1>3
  <2> QED
    BY <1>5, <2>1, <2>2
<1>7. Hay(tr) = DOMAIN tr <=> Alcanza(tr)
  <2>1. ASSUME Hay(tr) = DOMAIN tr PROVE Alcanza(tr)
    BY <1>4, <2>1 DEF Alcanza
  <2>2. ASSUME Alcanza(tr) PROVE Hay(tr) = DOMAIN tr
    <3>1. ASSUME NEW k \in 1 .. Len(tr), NEW j \in 1 .. k PROVE tr[j].pagina < Len(pages)
      <4>1. j \in 1 .. Len(tr)
        BY <1>3
      <4> QED
        BY <1>3, <2>2, <4>1 DEF Alcanza
    <3> QED
      BY <1>3, <3>1 DEF Hay
  <2> QED
    BY <2>1, <2>2
<1>8. Alcanza(tr) => f = Marcados(tr)
  BY <1>7 DEF Marcados
<1> HIDE DEF f, t
<1>9. t.status = (IF Hay(tr) = DOMAIN tr THEN "RUNNING" ELSE "ERROR") /\ t.frames = f
  BY <1>1
<1>10. DOMAIN f = Hay(tr) /\ \A k \in Hay(tr) : f[k] = Traducido(tr[k])
  BY DEF f
<1> QED
  BY <1>4, <1>6, <1>7, <1>8, <1>9, <1>10 DEF tr, t

\* A range that fits is answered with its addresses; one that wraps around,
\* with a frame that does not survive; and what is answered of any other is in
\* the user memory.
LEMMA MmuDa ==
    ASSUME TablaOK, NEW d \in 0 .. M - 1, NEW n \in 0 .. M - 1
    PROVE  LET t == mmu(d, n) IN
           /\ t.frames \in Seq(Marco)
           /\ t.status = (IF Entra(d, n) \/ Desborda(d, n) THEN "RUNNING" ELSE "ERROR")
           /\ Entra(d, n) => Direcciones(t.frames) = Seguidas(d, n)
           /\ Desborda(d, n) <=> Excede(t.frames)
           /\ ~Desborda(d, n) => Direcciones(t.frames) \in Seq(Reales)
           /\ ~(Entra(d, n) /\ Desborda(d, n))
<1> DEFINE tr == Tramos[n][d]
           t == mmu(d, n)
           f == t.frames
<1>1. /\ DOMAIN f = Hay(tr) /\ f \in Seq(Marco)
      /\ \A k \in Hay(tr) : /\ tr[k] \in TramoBien /\ tr[k].pagina < Len(pages)
                            /\ f[k] = Traducido(tr[k])
      /\ t.status = (IF Hay(tr) = DOMAIN tr THEN "RUNNING" ELSE "ERROR")
      /\ Hay(tr) = DOMAIN tr <=> Alcanza(tr)
      /\ Alcanza(tr) => f = Marcados(tr)
  BY MmuTramos
<1>2. /\ TamPagina \in Nat \ {0} /\ M \in Nat \ {0} /\ Memoria \in Nat /\ Memoria < M
      /\ d \in Nat /\ n \in Nat /\ Len(pages) \in Nat
  BY TablaDa DEF Memoria
<1>3. /\ d \div TamPagina \in Nat /\ Desp(d) \in 0 .. TamPagina - 1 /\ Desp(d) <= d
      /\ Primero(n, d).pagina = d \div TamPagina
      /\ Primero(n, d).bytes = EnPagina(Desp(d), n)
  <2>1. /\ d \div TamPagina \in Nat /\ Desp(d) \in 0 .. TamPagina - 1
        /\ d = (d \div TamPagina) * TamPagina + Desp(d)
    BY TramoDa
  <2>2. (d \div TamPagina) * TamPagina \in Nat
    BY <1>2, <2>1, Producto
  <2> QED
    BY <1>2, <2>1, <2>2 DEF Primero
<1>4. d < Memoria <=> d \div TamPagina < Len(pages)
  BY <1>2, FisDa DEF Memoria
<1> HIDE DEF tr, t, f
<1>5. ASSUME Desp(d) + n < M
      PROVE  /\ Alcanza(tr) <=> Entra(d, n)
             /\ Alcanza(tr) => Direcciones(f) = Seguidas(d, n)
             /\ ~Excede(f) /\ Direcciones(f) \in Seq(Reales)
             /\ ~Desborda(d, n)
  <2>1. Cubierto(n, d)
    BY <1>5, Cubre
  <2>2. /\ Alcanza(tr) => /\ d < Memoria /\ d + n <= Memoria
                          /\ Direcciones(Marcados(tr)) = Seguidas(d, n)
        /\ d < Memoria /\ d + n <= Memoria => Alcanza(tr)
    BY <2>1 DEF Cubierto, tr
  <2>3. ASSUME NEW k \in Hay(tr)
        PROVE  /\ f[k].bytes <= TamPagina
               /\ \A j \in 1 .. f[k].bytes : f[k].dir + (j - 1) \in Reales
    <3>1. /\ tr[k].pagina < Len(pages) /\ tr[k].pagina \in Nat
          /\ tr[k].desp \in 0 .. TamPagina - 1 /\ tr[k].bytes \in 0 .. M - 1
          /\ f[k] = [dir |-> direccion_fisica(tr[k]), bytes |-> tr[k].bytes]
      BY <1>1 DEF TramoBien, Traducido
    <3>2. tr[k].desp + tr[k].bytes <= TamPagina
      <4>1. k \in DOMAIN tr /\ \A j \in 1 .. k : tr[j].pagina < Len(pages)
        BY DEF Hay
      <4> QED
        BY <2>1, <4>1 DEF Cubierto, tr
    <3>3. f[k].dir = pages[tr[k].pagina + 1] * TamPagina + tr[k].desp
          /\ f[k].bytes = tr[k].bytes
      BY <3>1 DEF direccion_fisica
    <3>4. /\ pages[tr[k].pagina + 1] * TamPagina \in Nat
          /\ \A x \in 0 .. TamPagina - 1 : pages[tr[k].pagina + 1] * TamPagina + x \in Reales
      BY <3>1, TablaDa
    <3>5. ASSUME NEW j \in 1 .. f[k].bytes PROVE f[k].dir + (j - 1) \in Reales
      <4>1. tr[k].desp + (j - 1) \in 0 .. TamPagina - 1
        <5> DEFINE e == tr[k].desp
                   b == tr[k].bytes
        <5>1. e \in 0 .. TamPagina - 1 /\ b \in Nat /\ e + b <= TamPagina /\ j \in 1 .. b
          BY <1>2, <3>1, <3>2, <3>3
        <5> HIDE DEF e, b
        <5>2. e + (j - 1) \in 0 .. TamPagina - 1
          BY <1>2, <5>1
        <5> QED
          BY <5>2 DEF e
      <4>2. pages[tr[k].pagina + 1] * TamPagina + (tr[k].desp + (j - 1)) \in Reales
        BY <3>4, <4>1
      <4>3. pages[tr[k].pagina + 1] * TamPagina + (tr[k].desp + (j - 1)) = f[k].dir + (j - 1)
        BY <3>1, <3>3, <3>4, SMTT(60)
      <4> QED
        BY <4>2, <4>3
    <3> QED
      BY <1>2, <3>1, <3>2, <3>3, <3>5, SMTT(60)
  <2>4. Direcciones(f) \in Seq(Reales)
    BY <1>1, <2>3, DireccionesReales
  <2>5. ~Excede(f)
    <3>1. ASSUME NEW k \in DOMAIN f PROVE ~(f[k].bytes > TamPagina)
      <4>1. k \in Hay(tr)
        BY <1>1
      <4>2. f[k].bytes <= TamPagina /\ f[k].bytes \in Nat
        <5>1. f[k] = Traducido(tr[k]) /\ tr[k].bytes \in 0 .. M - 1
          BY <1>1, <4>1 DEF TramoBien
        <5>2. f[k].bytes = tr[k].bytes
          BY <5>1 DEF Traducido
        <5> QED
          BY <1>2, <2>3, <4>1, <5>1, <5>2
      <4> QED
        BY <1>2, <4>2
    <3> QED
      BY <3>1 DEF Excede
  <2>6. ~Desborda(d, n)
    BY <1>2, <1>3, <1>5 DEF Desborda
  <2> QED
    BY <1>1, <2>2, <2>4, <2>5, <2>6 DEF Entra
<1>6. ASSUME ~(Desp(d) + n < M)
      PROVE  /\ Alcanza(tr) <=> d < Memoria
             /\ Excede(f) <=> d < Memoria
             /\ ~(d < Memoria) => f = <<>>
             /\ ~Entra(d, n)
  <2>1. EnPagina(Desp(d), n) = n /\ n > TamPagina
    <3>1. \/ EnPagina(Desp(d), n) = n /\ Desp(d) + n <= TamPagina
          \/ EnPagina(Desp(d), n) = n /\ Desp(d) + n >= M /\ n > TamPagina
          \/ Desp(d) + n < M
      BY <1>3, EnPaginaDa
    <3>2. ~(Desp(d) + n <= TamPagina)
      <4>1. 2 * TamPagina <= M
        BY MDa
      <4> QED
        BY <1>2, <1>3, <1>6, <4>1
    <3> QED
      BY <1>6, <3>1, <3>2
  <2>2. tr = <<Primero(n, d)>>
    BY <1>3, <2>1, TramosPaso DEF tr
  <2>3. DOMAIN tr = {1} /\ tr[1].pagina = d \div TamPagina /\ tr[1].bytes = n
    BY <1>3, <2>1, <2>2
  <2>4. Alcanza(tr) <=> d < Memoria
    BY <1>4, <2>3 DEF Alcanza
  <2>5. Hay(tr) = IF d < Memoria THEN {1} ELSE {}
    <3>1. \A k \in {1} : (\A j \in 1 .. k : tr[j].pagina < Len(pages)) <=> d < Memoria
      BY <1>4, <2>3
    <3> QED
      BY <2>3, <3>1 DEF Hay
  <2>6. ASSUME d < Memoria PROVE Excede(f)
    <3>1. 1 \in DOMAIN f /\ f[1].bytes = n
      BY <1>1, <2>3, <2>5, <2>6 DEF Traducido
    <3> QED
      BY <2>1, <3>1 DEF Excede
  <2>7. ASSUME ~(d < Memoria) PROVE f = <<>> /\ ~Excede(f)
    <3>1. DOMAIN f = {}
      BY <1>1, <2>5, <2>7
    <3>2. Len(f) \in Nat /\ DOMAIN f = 1 .. Len(f)
      BY <1>1, LenProperties
    <3>3. Len(f) = 0
      BY <3>1, <3>2
    <3> QED
      BY <1>1, <3>1, <3>3, EmptySeq DEF Excede
  <2>8. ~Entra(d, n)
    BY <1>2, <1>3, <1>6 DEF Entra
  <2> QED
    BY <2>4, <2>6, <2>7, <2>8
<1>7. CASE Desp(d) + n < M
  BY <1>1, <1>5, <1>7 DEF t, f
<1>8. CASE ~(Desp(d) + n < M)
  <2>1. Desborda(d, n) <=> d < Memoria
    BY <1>2, <1>3, <1>8 DEF Desborda
  <2>2. ~(d < Memoria) => Direcciones(f) \in Seq(Reales)
    <3>1. Direcciones(<<>>) = <<>> /\ <<>> \in Seq(Reales)
      BY DireccionesDa, EmptySeq
    <3> QED
      BY <1>6, <1>8, <3>1
  <2> QED
    BY <1>1, <1>6, <1>8, <2>1, <2>2 DEF t, f
<1> QED
  BY <1>7, <1>8

-----------------------------------------------------------------------------
(* The user memory.                                                        *)

Distintas == \A i, j \in DOMAIN pages : pages[i] = pages[j] => i = j
Usuario == Tira(Byte, CantMarcos * TamPagina)
\* The frames are those of n addresses of the process, from d.
Rango(frames, d, n) ==
    d \in Nat /\ n \in Nat /\ d + n <= Memoria /\ Direcciones(frames) = Seguidas(d, n)

\* Two addresses of the process are in two places, and the page and offset of
\* a place are those of its address.
LEMMA FisInyectiva ==
    ASSUME TablaOK, Distintas
    PROVE  /\ \A a \in Nat : a < Memoria =>
                /\ DirLogica(Fis(a)) = a
                /\ \E k \in DOMAIN pages : Fis(a) \div TamPagina = pages[k]
           /\ \A a, b \in Nat : a < Memoria /\ b < Memoria /\ Fis(a) = Fis(b) => a = b
<1>1. ASSUME NEW a \in Nat, a < Memoria
      PROVE  /\ DirLogica(Fis(a)) = a
             /\ \E k \in DOMAIN pages : Fis(a) \div TamPagina = pages[k]
  <2> DEFINE q == a \div TamPagina
             x == a % TamPagina
             m == pages[q + 1]
  <2>1. /\ TamPagina \in Nat \ {0} /\ Len(pages) \in Nat
        /\ q \in Nat /\ x \in 0 .. TamPagina - 1 /\ a \in Int
        /\ Fis(a) = m * TamPagina + x /\ q < Len(pages)
    BY <1>1, TablaDa, FisDa DEF Memoria
  <2>2. a = q * TamPagina + x
    BY <2>1, Resto
  <2>3. m \in Marcos /\ m \in Int
    <3>1. m \in Marcos
      BY <2>1, TablaDa
    <3> HIDE DEF m
    <3> QED
      BY <3>1, PotenciaDa DEF Marcos
  <2>4. q + 1 \in DOMAIN pages
    <3>1. DOMAIN pages = 1 .. Len(pages)
      BY LenProperties DEF TablaOK
    <3> HIDE DEF q
    <3> QED
      BY <2>1, <3>1
  <2> HIDE DEF q, x
  <2>5. Fis(a) \div TamPagina = m /\ Fis(a) % TamPagina = x
    <3> HIDE DEF m
    <3> QED
      BY <2>1, <2>3, Division
  <2>6. (CHOOSE k \in DOMAIN pages : pages[k] = Fis(a) \div TamPagina) = q + 1
    <3>1. \A k \in DOMAIN pages : pages[k] = Fis(a) \div TamPagina <=> k = q + 1
      BY <2>4, <2>5 DEF Distintas
    <3> QED
      BY <2>4, <3>1
  <2>7. DirLogica(Fis(a)) = ((q + 1) - 1) * TamPagina + x
    BY <2>5, <2>6 DEF DirLogica
  <2>8. (q + 1) - 1 = q
    BY <2>1
  <2> QED
    BY <2>2, <2>4, <2>5, <2>7, <2>8
<1> QED
  BY <1>1

\* What is read of a range of the process, and of any addresses.
LEMMA LeeDa ==
    ASSUME TablaOK, usuario \in Usuario, NEW f
    PROVE  /\ Direcciones(f) \in Seq(Reales) => leer_memoria(f) \in Seq(Byte)
           /\ \A d, n : Rango(f, d, n) =>
                leer_memoria(f) = [k \in 1 .. n |-> usuario[Fis(d + (k - 1)) + 1]]
<1>1. /\ CantMarcos * TamPagina \in Nat
      /\ \A a \in Reales : a + 1 \in 1 .. CantMarcos * TamPagina
  <2>1. CantMarcos * TamPagina \in Nat
    BY PotenciaDa, Producto
  <2> QED
    BY <2>1 DEF Reales
<1>2. \A a \in Reales : usuario[a + 1] \in Byte
  BY <1>1 DEF Usuario, Tira
<1>3. ASSUME Direcciones(f) \in Seq(Reales) PROVE leer_memoria(f) \in Seq(Byte)
  <2>1. Len(Direcciones(f)) \in Nat
        /\ \A k \in 1 .. Len(Direcciones(f)) : Direcciones(f)[k] \in Reales
    BY <1>3, LenProperties, ElementOfSeq
  <2>2. \A k \in 1 .. Len(Direcciones(f)) : usuario[Direcciones(f)[k] + 1] \in Byte
    BY <1>2, <2>1
  <2> QED
    BY <2>1, <2>2 DEF leer_memoria, Total
<1>4. ASSUME NEW d, NEW n, Rango(f, d, n)
      PROVE  leer_memoria(f) = [k \in 1 .. n |-> usuario[Fis(d + (k - 1)) + 1]]
  <2>1. /\ Len(Direcciones(f)) = n
        /\ \A k \in 1 .. n : Direcciones(f)[k] = Fis(d + (k - 1))
    BY <1>4, SeguidasDa DEF Rango
  <2> QED
    BY <2>1 DEF leer_memoria, Total
<1> QED
  BY <1>3, <1>4

\* What is written in a range of the process is there afterwards, and the rest
\* is what it was.
LEMMA EscribeDa ==
    ASSUME TablaOK, Distintas, usuario \in Usuario, NEW f, NEW d, NEW n, Rango(f, d, n),
           NEW b \in Seq(Byte), Len(b) >= n
    PROVE  LET u == escribir_memoria(b, f) IN
           /\ u \in Usuario
           /\ \A a \in Reales : (\A j \in 1 .. n : Fis(d + (j - 1)) # a)
                                    => u[a + 1] = usuario[a + 1]
           /\ \A j \in 1 .. n : u[Fis(d + (j - 1)) + 1] = b[j]
<1> DEFINE u == escribir_memoria(b, f)
           van(x) == {k \in 1 .. n : Fis(d + (k - 1)) + 1 = x}
<1>1. d \in Nat /\ n \in Nat /\ d + n <= Memoria /\ Memoria \in Nat
  BY TablaDa DEF Rango, Memoria
<1>2. /\ Len(Direcciones(f)) = n
      /\ \A k \in 1 .. n : Direcciones(f)[k] = Fis(d + (k - 1))
  BY SeguidasDa DEF Rango
<1>3. \A x : {k \in 1 .. Total(f) : Direcciones(f)[k] + 1 = x} = van(x)
  BY <1>2 DEF Total
<1>4. DOMAIN usuario = 1 .. CantMarcos * TamPagina /\ CantMarcos * TamPagina \in Nat
      /\ \A a \in Reales : a \in Nat /\ a + 1 \in 1 .. CantMarcos * TamPagina
  <2>1. CantMarcos * TamPagina \in Nat
    BY PotenciaDa, Producto
  <2> QED
    BY <2>1 DEF Reales, Usuario, Tira
<1>5. u = [x \in DOMAIN usuario |-> IF van(x) = {} THEN usuario[x] ELSE b[Max(van(x))]]
  BY <1>3 DEF escribir_memoria
<1>6. ASSUME NEW x, van(x) # {} PROVE Max(van(x)) \in 1 .. n /\ Max(van(x)) \in van(x)
  <2> DEFINE T == van(x)
  <2>1. T \subseteq 1 .. n /\ T # {}
    BY <1>6
  <2> HIDE DEF T
  <2>2. Max(T) \in T
    BY <1>1, <2>1, Maximo
  <2> QED
    BY <2>1, <2>2 DEF T
<1>7. \A k \in 1 .. n : b[k] \in Byte
  BY <1>1, LenProperties, ElementOfSeq
<1>8. u \in Usuario
  <2>1. \A x \in DOMAIN usuario : usuario[x] \in Byte
    BY DEF Usuario, Tira
  <2>2. \A x \in DOMAIN usuario : van(x) # {} => b[Max(van(x))] \in Byte
    BY <1>6, <1>7
  <2> HIDE DEF u, van
  <2>3. u \in [DOMAIN usuario -> Byte]
    BY <1>5, <2>1, <2>2
  <2> QED
    BY <1>4, <2>3 DEF Usuario, Tira
<1>9. ASSUME NEW a \in Reales, \A j \in 1 .. n : Fis(d + (j - 1)) # a
      PROVE  u[a + 1] = usuario[a + 1]
  <2>1. van(a + 1) = {}
    <3>1. ASSUME NEW k \in 1 .. n PROVE Fis(d + (k - 1)) + 1 # a + 1
      <4>1. Fis(d + (k - 1)) \in Reales
        BY <1>1, FisDa DEF Memoria
      <4>2. Fis(d + (k - 1)) # a
        BY <1>9
      <4> QED
        BY <1>4, <4>1, <4>2
    <3> QED
      BY <3>1
  <2>2. a + 1 \in DOMAIN usuario
    BY <1>4
  <2> HIDE DEF u, van
  <2> QED
    BY <1>5, <2>1, <2>2
<1>10. ASSUME NEW j \in 1 .. n PROVE u[Fis(d + (j - 1)) + 1] = b[j]
  <2> DEFINE a == Fis(d + (j - 1))
  <2>1. d + (j - 1) \in Nat /\ d + (j - 1) < Memoria
    BY <1>1
  <2>2. a \in Reales
    BY <2>1, FisDa DEF Memoria
  <2>3. a + 1 \in DOMAIN usuario /\ j \in van(a + 1)
    BY <1>4, <2>2
  <2>4. van(a + 1) # {} /\ Max(van(a + 1)) \in van(a + 1)
    BY <1>6, <2>3
  <2>5. ASSUME NEW k \in van(a + 1) PROVE k = j
    <3>1. k \in 1 .. n /\ Fis(d + (k - 1)) + 1 = a + 1
      BY <2>5
    <3>2. d + (k - 1) \in Nat /\ d + (k - 1) < Memoria
      BY <1>1, <3>1
    <3>3. Fis(d + (k - 1)) \in Reales
      BY <3>2, FisDa DEF Memoria
    <3>4. Fis(d + (k - 1)) = Fis(d + (j - 1))
      <4> DEFINE e == Fis(d + (k - 1))
      <4> HIDE DEF e, a
      <4>1. e = a
        BY <1>4, <2>2, <3>1, <3>3 DEF e
      <4> QED
        BY <4>1 DEF e, a
    <3>5. d + (k - 1) = d + (j - 1)
      BY <2>1, <3>2, <3>4, FisInyectiva
    <3> QED
      BY <1>1, <3>1, <3>5
  <2>6. Max(van(a + 1)) = j
    BY <2>4, <2>5
  <2> HIDE DEF u, van, a
  <2>7. u[a + 1] = b[j]
    BY <1>5, <2>3, <2>4, <2>6
  <2> QED
    BY <2>7 DEF a
<1> QED
  BY <1>8, <1>9, <1>10

-----------------------------------------------------------------------------
(* The page table.                                                         *)

Rango1(p) == \A i, j \in DOMAIN p : p[i] = p[j] => i = j
Antes(L, m) == {x \in L : x < m}

\* Among some frames, one has k before it, for each k there can be.
LEMMA PorOrden ==
    ASSUME NEW L, L \subseteq Marcos
    PROVE  /\ IsFiniteSet(L) /\ Cardinality(L) \in Nat
           /\ \A k \in 0 .. Cardinality(L) - 1 : \E m \in L : Cardinality(Antes(L, m)) = k
<1>1. IsFiniteSet(L) /\ Cardinality(L) \in Nat /\ L \subseteq Nat /\ CantMarcos - 1 \in Int
  <2>1. CantMarcos - 1 \in Int /\ 0 \in Int /\ Marcos \subseteq Nat
    BY PotenciaDa DEF Marcos
  <2>2. IsFiniteSet(Marcos)
    BY <2>1, FS_Interval DEF Marcos
  <2>3. IsFiniteSet(L)
    BY <2>2, FS_Subset
  <2> QED
    BY <2>1, <2>3, FS_CardinalityType
<1> DEFINE c == Cardinality(L)
           T == {k \in 0 .. c - 1 : \E m \in L : Cardinality(Antes(L, m)) = k}
<1>2. CASE c = 0
  BY <1>1, <1>2
<1>3. CASE c # 0
  <2>1. c - 1 \in Nat /\ L # {}
    BY <1>1, <1>3, FS_EmptySet
  <2>2. 0 \in T
    <3>1. PICK m \in L : \A y \in L : m <= y
      BY <1>1, <2>1, Minimo
    <3>2. Antes(L, m) = {}
      <4>1. ASSUME NEW y \in L PROVE ~(y < m)
        <5>1. m \in Nat /\ y \in Nat /\ m <= y
          BY <1>1, <3>1
        <5> QED
          BY <5>1
      <4> QED
        BY <4>1 DEF Antes
    <3>3. Cardinality(Antes(L, m)) = 0
      BY <3>2, FS_EmptySet
    <3> QED
      BY <2>1, <3>3
  <2>3. ASSUME NEW k \in 0 .. (c - 1) - 1, k \in T PROVE k + 1 \in T
    <3>1. PICK m \in L : Cardinality(Antes(L, m)) = k
      BY <2>3
    <3> DEFINE A == Antes(L, m) \cup {m}
               B == L \ A
    <3>2. IsFiniteSet(Antes(L, m)) /\ m \notin Antes(L, m)
      <4>1. Antes(L, m) \in SUBSET L
        BY DEF Antes
      <4>2. m \notin Antes(L, m)
        BY <1>1 DEF Antes
      <4> QED
        BY <1>1, <4>1, <4>2, FS_Subset
    <3>3. IsFiniteSet(A) /\ Cardinality(A) = k + 1
      BY <3>1, <3>2, FS_AddElement
    <3>4. A # L
      <4>1. Cardinality(A) # c
        <5> HIDE DEF c, A
        <5> QED
          BY <1>1, <2>3, <3>3
      <4> QED
        BY <4>1
    <3>5. B # {} /\ B \subseteq Nat
      BY <1>1, <3>4 DEF Antes
    <3> HIDE DEF B
    <3>6. PICK x \in B : \A y \in B : x <= y
      BY <3>5, Minimo
    <3>7. Antes(L, x) = A
      <4>1. x \in L /\ x \in Nat /\ x # m /\ ~(x < m) /\ m \in Nat
        BY <1>1, <3>6 DEF B, Antes
      <4>2. ASSUME NEW y \in Antes(L, x) PROVE y \in A
        <5>1. y \in L /\ y \in Nat /\ y < x
          BY <1>1, <4>2 DEF Antes
        <5>2. y \notin B
          BY <3>6, <4>1, <5>1
        <5> QED
          BY <5>1, <5>2 DEF B
      <4>3. ASSUME NEW y \in A PROVE y \in Antes(L, x)
        <5>1. y \in L /\ y \in Nat /\ (y < m \/ y = m)
          BY <1>1, <4>3 DEF Antes
        <5>2. y < x
          BY <4>1, <5>1
        <5> QED
          BY <5>1, <5>2 DEF Antes
      <4> QED
        BY <4>2, <4>3
    <3>8. x \in L /\ Cardinality(Antes(L, x)) = k + 1
      BY <3>3, <3>6, <3>7 DEF B
    <3>9. k + 1 \in 0 .. c - 1
      <4>1. c \in Nat
        BY <1>1
      <4> HIDE DEF c, T
      <4>2. k \in 0 .. (c - 1) - 1
        BY <2>3
      <4> QED
        BY <4>1, <4>2
    <3> QED
      BY <3>8, <3>9
  <2>4. T \subseteq 0 .. c - 1
    OBVIOUS
  <2> HIDE DEF T
  <2>5. T = 0 .. c - 1
    BY <2>1, <2>2, <2>3, <2>4, HaciaAdelante
  <2> QED
    BY <1>1, <2>5 DEF T
<1> QED
  BY <1>2, <1>3

\* The frames resize_up gives are free, one for each page, as many as there
\* are.
LEMMA PrimerosDa ==
    ASSUME NEW L, L \subseteq Marcos, NEW n \in Nat
    PROVE  LET p == Primeros(L, n) IN
           /\ p \in Seq(L) /\ Rango1(p) /\ Len(p) <= n
           /\ Len(p) = n \/ Len(p) = Cardinality(L)
<1> DEFINE c == Cardinality(L)
           h == Min({n, c})
           F(k) == CHOOSE m \in L : Cardinality(Antes(L, m)) = k - 1
           p == Primeros(L, n)
<1>1. c \in Nat /\ \A k \in 0 .. c - 1 : \E m \in L : Cardinality(Antes(L, m)) = k
  BY PorOrden
<1> HIDE DEF c
<1>2. h \in Nat /\ h <= n /\ h <= c /\ (h = n \/ h = c)
  <2>1. n \in Int /\ c \in Int
    BY <1>1
  <2>2. Min({n, c}) = IF n <= c THEN n ELSE c
    BY <2>1, MinDos
  <2> QED
    BY <1>1, <2>2
<1>3. p = [k \in 1 .. h |-> F(k)]
  BY DEF Primeros, Antes, c
<1> HIDE DEF h
<1>4. ASSUME NEW k \in 1 .. h PROVE F(k) \in L /\ Cardinality(Antes(L, F(k))) = k - 1
  <2>1. k - 1 \in 0 .. c - 1
    BY <1>1, <1>2
  <2>2. \E m \in L : Cardinality(Antes(L, m)) = k - 1
    BY <1>1, <2>1
  <2> QED
    BY <2>2
<1> HIDE DEF F, p
<1>5. p \in Seq(L) /\ Len(p) = h /\ DOMAIN p = 1 .. h
  BY <1>2, <1>3, <1>4
<1>6. Rango1(p)
  <2>1. ASSUME NEW i \in 1 .. h, NEW j \in 1 .. h, p[i] = p[j] PROVE i = j
    <3>1. p[i] = F(i) /\ p[j] = F(j)
      BY <1>3
    <3>2. i - 1 = j - 1
      BY <1>4, <2>1, <3>1
    <3> QED
      BY <1>2, <3>2
  <2> QED
    BY <1>5, <2>1 DEF Rango1
<1> QED
  BY <1>2, <1>5, <1>6 DEF p, c

\* A table without a frame twice has at most all the frames.
LEMMA LargoTabla ==
    ASSUME NEW p \in Seq(Marcos), Rango1(p)
    PROVE  Len(p) <= CantMarcos
<1>1. Len(p) \in Nat /\ DOMAIN p = 1 .. Len(p) /\ p \in [1 .. Len(p) -> Marcos]
      /\ CantMarcos \in Nat /\ 0 \in Int /\ 1 \in Int /\ CantMarcos - 1 \in Int
  BY PotenciaDa, LenProperties
<1>2. IsFiniteSet(Marcos) /\ Cardinality(Marcos) = CantMarcos
  <2>1. /\ IsFiniteSet(0 .. CantMarcos - 1)
        /\ Cardinality(0 .. CantMarcos - 1) =
              IF 0 > CantMarcos - 1 THEN 0 ELSE (CantMarcos - 1) - 0 + 1
    BY <1>1, FS_Interval
  <2>2. CantMarcos # 0
    BY PotenciaDa
  <2> QED
    BY <1>1, <2>1, <2>2 DEF Marcos
<1>3. IsFiniteSet(1 .. Len(p)) /\ Cardinality(1 .. Len(p)) = Len(p)
  <2>1. /\ IsFiniteSet(1 .. Len(p))
        /\ Cardinality(1 .. Len(p)) = IF 1 > Len(p) THEN 0 ELSE Len(p) - 1 + 1
    BY <1>1, FS_Interval, SMTT(60)
  <2> QED
    BY <1>1, <2>1
<1>4. ASSUME CantMarcos < Len(p) PROVE FALSE
  <2>1. \E x, y \in 1 .. Len(p) : x # y /\ p[x] = p[y]
    BY <1>1, <1>2, <1>3, <1>4, FS_PigeonHole
  <2> QED
    BY <1>1, <2>1 DEF Rango1
<1> QED
  BY <1>1, <1>4

NuevaTabla(libres, n) ==
    IF n > Len(pages) THEN pages \o Primeros(libres, n - Len(pages)) ELSE SubSeq(pages, 1, n)

\* RESIZE keeps the pages that stay, gives the new ones frames that nobody
\* has, and falls short only when it makes the process longer.
LEMMA NuevaTablaDa ==
    ASSUME pages \in Seq(Marcos), Distintas, Range(pages) \subseteq bit_map,
           NEW n \in Nat
    PROVE  LET t == NuevaTabla(Marcos \ bit_map, n) IN
           /\ t \in Seq(Marcos) /\ Rango1(t)
           /\ \A k \in DOMAIN pages \cap DOMAIN t : t[k] = pages[k]
           /\ Len(t) = n \/ (Len(t) < n /\ Len(pages) < n)
<1> DEFINE L == Marcos \ bit_map
           t == NuevaTabla(L, n)
           g == Len(pages)
<1>1. g \in Nat /\ DOMAIN pages = 1 .. g /\ \A k \in 1 .. g : pages[k] \in Marcos
  BY LenProperties, ElementOfSeq
<1>2. CASE n > g
  <2> DEFINE p == Primeros(L, n - g)
  <2>1. n - g \in Nat /\ L \subseteq Marcos
    BY <1>1, <1>2
  <2>2. p \in Seq(L) /\ Rango1(p) /\ Len(p) <= n - g
    BY <2>1, PrimerosDa
  <2>3. t = pages \o p
    BY <1>2 DEF NuevaTabla
  <2> HIDE DEF p, t
  <2>4. /\ Len(p) \in Nat /\ DOMAIN p = 1 .. Len(p) /\ \A k \in 1 .. Len(p) : p[k] \in L
    BY <2>2, LenProperties, ElementOfSeq
  <2>5. p \in Seq(Marcos)
    <3>1. p = [k \in 1 .. Len(p) |-> p[k]]
      BY <2>2
    <3>2. \A k \in 1 .. Len(p) : p[k] \in Marcos
      BY <2>1, <2>4
    <3> QED
      BY <2>4, <3>1, <3>2
  <2>6. /\ t \in Seq(Marcos) /\ Len(t) = g + Len(p)
        /\ \A i \in 1 .. g + Len(p) : t[i] = IF i <= g THEN pages[i] ELSE p[i - g]
    BY <2>3, <2>5, ConcatProperties
  <2>7. DOMAIN t = 1 .. g + Len(p)
    BY <2>6, LenProperties
  <2>8. \A k \in DOMAIN pages : pages[k] \notin L
    BY DEF Range
  <2>9. ASSUME NEW i \in 1 .. g + Len(p), NEW j \in 1 .. g + Len(p), t[i] = t[j] PROVE i = j
    <3>1. CASE i <= g /\ j <= g
      <4>1. i \in DOMAIN pages /\ j \in DOMAIN pages /\ pages[i] = pages[j]
        BY <1>1, <2>6, <2>9, <3>1
      <4> QED
        BY <4>1 DEF Distintas
    <3>2. CASE i <= g /\ ~(j <= g)
      <4>1. i \in DOMAIN pages /\ j - g \in 1 .. Len(p) /\ pages[i] = p[j - g]
        BY <1>1, <2>4, <2>6, <2>9, <3>2
      <4> QED
        BY <2>4, <2>8, <4>1
    <3>3. CASE ~(i <= g) /\ j <= g
      <4>1. j \in DOMAIN pages /\ i - g \in 1 .. Len(p) /\ pages[j] = p[i - g]
        BY <1>1, <2>4, <2>6, <2>9, <3>3
      <4> QED
        BY <2>4, <2>8, <4>1
    <3>4. CASE ~(i <= g) /\ ~(j <= g)
      <4>1. i - g \in 1 .. Len(p) /\ j - g \in 1 .. Len(p) /\ p[i - g] = p[j - g]
        BY <1>1, <2>4, <2>6, <2>9, <3>4
      <4>2. i - g = j - g
        BY <2>2, <2>4, <4>1 DEF Rango1
      <4> QED
        BY <1>1, <2>4, <4>2
    <3> QED
      BY <3>1, <3>2, <3>3, <3>4
  <2>10. Rango1(t)
    BY <2>7, <2>9 DEF Rango1
  <2>11. ASSUME NEW k \in DOMAIN pages \cap DOMAIN t PROVE t[k] = pages[k]
    <3>1. k \in 1 .. g + Len(p) /\ k <= g
      BY <1>1, <2>7
    <3> QED
      BY <2>6, <3>1
  <2>12. Len(t) = n \/ (Len(t) < n /\ Len(pages) < n)
    BY <1>1, <1>2, <2>2, <2>4, <2>6
  <2> QED
    BY <2>6, <2>10, <2>11, <2>12 DEF t
<1>3. CASE ~(n > g)
  <2>1. t = SubSeq(pages, 1, n)
    BY <1>3 DEF NuevaTabla
  <2> HIDE DEF t
  <2>2. t \in Seq(Marcos) /\ Len(t) = n /\ DOMAIN t = 1 .. n /\ \A k \in 1 .. n : t[k] = pages[k]
    BY <1>1, <1>3, <2>1
  <2>3. Rango1(t)
    <3>1. \A k \in 1 .. n : k \in DOMAIN pages
      BY <1>1, <1>3
    <3> QED
      BY <2>2, <3>1 DEF Rango1, Distintas
  <2> QED
    BY <2>2, <2>3 DEF t
<1> QED
  BY <1>2, <1>3

-----------------------------------------------------------------------------
(* The inductive invariant.                                                *)

ConMemoria == {"IO_STDIN_READ", "IO_STDOUT_WRITE", "IO_FS_READ", "IO_FS_WRITE"}
\* The frames of a range of the process, or frames nobody survives.
Alcanzado(frames) ==
    frames \in Seq(Marco) /\ (Excede(frames) \/ \E d, n : Rango(frames, d, n))

\* What types say nothing of: no frame is twice in the table, so that it is no
\* longer than the user memory; and the frames of a request, which an interface
\* uses steps later, are those of a range of the process.
CpuInv ==
    /\ CpuTypeOK
    /\ file \in Programas
    /\ Distintas
    /\ \E f : f = io.frames /\ Alcanzado(f)
    /\ estado # "BLOCKED_IO" => io = SinIo
    /\ io.op \notin ConMemoria => io.frames = <<>>

\* What the lemmas on registers and memory need.
LEMMA InvDa ==
    ASSUME CpuInv
    PROVE  /\ TablaOK /\ Distintas /\ usuario \in Usuario
           /\ registers \in Archivo /\ regs \in Archivo /\ pc \in 0 .. M - 1
           /\ \A r : Reg(r) \in 0 .. M - 1
           /\ \A r : get_normaliced_register(regs, r) =
                        IF Nom(r) = "PC" THEN (pc + 1) % M
                        ELSE get_normaliced_register(registers, r)
<1>1. registers \in Archivo /\ usuario \in Usuario /\ pages \in Seq(Marcos) /\ Distintas
  BY DEF CpuInv, CpuTypeOK, Archivo, Usuario, Tira
<1>2. TablaOK
  BY <1>1, LargoTabla DEF TablaOK, Distintas, Rango1
<1>3. Nom("PC") = "PC" /\ sizeof_register("PC") = Ancho /\ Potencia[Ancho] = M
  BY Lugares, RegistroEnLugar DEF M
<1>4. pc = get_normaliced_register(registers, "PC")
  BY <1>3 DEF pc, get_normaliced_register
<1>5. pc \in 0 .. M - 1
  BY <1>1, <1>4, RegistroDa
<1>6. pc + 1 \in Int
  BY <1>5, MDa
<1> HIDE DEF pc
<1>7. LET n == sizeof_register("PC")
          s == update_register(registers, "PC", n, pc + 1) IN
      /\ s \in Archivo
      /\ \A q : get_normaliced_register(s, q) =
                    IF Nom(q) = Nom("PC") THEN (pc + 1) % Potencia[n]
                    ELSE get_normaliced_register(registers, q)
  BY <1>1, <1>6, ActualizaRegistro
<1>8. regs = update_register(registers, "PC", sizeof_register("PC"), pc + 1)
  BY <1>3 DEF regs
<1>9. regs \in Archivo /\ \A r : get_normaliced_register(regs, r) =
                        IF Nom(r) = "PC" THEN (pc + 1) % M
                        ELSE get_normaliced_register(registers, r)
  BY <1>3, <1>7, <1>8
<1> HIDE DEF regs
<1>10. \A r : Reg(r) \in 0 .. M - 1
  BY <1>9, RegistroDa DEF Reg
<1> QED
  BY <1>1, <1>2, <1>5, <1>9, <1>10

\* A register is too short to wrap around.
LEMMA Chico ==
    ASSUME TablaOK, NEW d \in 0 .. M - 1, NEW r
    PROVE  sizeof_register(r) \in 0 .. M - 1 /\ ~Desborda(d, sizeof_register(r))
<1>1. /\ sizeof_register(r) \in 1 .. Ancho /\ Ancho \in Nat /\ M \in Nat
      /\ TamPagina \in Nat \ {0} /\ 2 * TamPagina <= M /\ 2 * Ancho <= M
  BY RegistroEnLugar, PotenciaDa, MDa
<1>2. Desp(d) \in 0 .. TamPagina - 1
  <2>1. 0 \in 0 .. M - 1
    BY MDa
  <2> QED
    BY <2>1, TramoDa
<1> QED
  BY <1>1, <1>2 DEF Desborda

\* The number of a line.
LEMMA LineaDa ==
    ASSUME CpuInv, NEW ops, Decodifica(ops)
    PROVE  /\ estado = "RUNNING" /\ io = SinIo /\ Linea[1] \in ops
           /\ atouint(Numero(Linea)) \in 0 .. M - 1
<1>1. /\ estado = "RUNNING" /\ pc < Len(file) /\ Linea[1] \in ops
      /\ Len(Linea) > total_params(Linea[1])
  BY DEF Decodifica, Completa
<1>2. pc \in 0 .. M - 1 /\ M \in Nat \ {0}
  BY InvDa, MDa
<1>3. Len(file) \in Nat
      /\ \A k \in 1 .. Len(file) : Len(file[k]) > total_params(file[k][1])
                => Numero(file[k]) \in Nat \cup {NoNumerico}
  BY ProgramasAssumption DEF CpuInv
<1>4. pc + 1 \in 1 .. Len(file)
  BY <1>1, <1>2, <1>3
<1>5. Numero(Linea) \in Nat \cup {NoNumerico}
  BY <1>1, <1>3, <1>4 DEF Linea
<1> DEFINE v == Numero(Linea)
<1> HIDE DEF v
<1>6. v \in Nat \cup {NoNumerico}
  BY <1>5 DEF v
<1>7. v \in Nat => v % M \in 0 .. M - 1
  <2>1. v \in Nat => v \in Int
    OBVIOUS
  <2> QED
    BY <1>2, <2>1, Resto
<1>8. atouint(v) \in 0 .. M - 1
  BY <1>2, <1>6, <1>7 DEF atouint
<1> QED
  BY <1>1, <1>8 DEF v, CpuInv

\* A step that leaves the page table alone.
LEMMA Paso ==
    ASSUME CpuInv, UNCHANGED <<file, pages>>, registers' \in Archivo, usuario' \in Usuario,
           bit_map' \subseteq Marcos, Range(pages) \subseteq bit_map',
           NEW f, f = io'.frames, Alcanzado(f),
           estado' # "BLOCKED_IO" => io' = SinIo,
           io'.op \notin ConMemoria => io'.frames = <<>>
    PROVE  CpuInv'
<1>1. file' = file /\ pages' = pages
  OBVIOUS
<1>2. CpuTypeOK'
  BY <1>1 DEF CpuInv, CpuTypeOK, Archivo, Usuario, Tira
<1>3. Distintas'
  BY <1>1 DEF CpuInv, Distintas
<1>4. Alcanzado(f)'
  BY <1>1 DEF Alcanzado, Rango, Memoria, Seguidas, Fis, direccion_fisica, Excede
<1> QED
  BY <1>1, <1>2, <1>3, <1>4 DEF CpuInv, SinIo

\* No frames at all.
LEMMA NadaAlcanzado ==
    ASSUME TablaOK
    PROVE  Alcanzado(<<>>) /\ Rango(<<>>, 0, 0) /\ ~Excede(<<>>)
<1>1. 0 + 0 <= Memoria
  BY TablaDa DEF Memoria
<1>2. Seguidas(0, 0) = <<>>
  BY DEF Seguidas
<1>3. Direcciones(<<>>) = <<>> /\ <<>> \in Seq(Marco)
  BY DireccionesDa, EmptySeq
<1>4. Rango(<<>>, 0, 0)
  BY <1>1, <1>2, <1>3 DEF Rango
<1> QED
  BY <1>3, <1>4 DEF Alcanzado, Excede

\* A step of the registers only.
LEMMA SoloRegistros ==
    ASSUME CpuInv, estado # "BLOCKED_IO", registers' \in Archivo,
           UNCHANGED <<file, io>>, UNCHANGED memVars
    PROVE  CpuInv'
<1>0. io' = SinIo
  BY DEF CpuInv
<1>1. io' = SinIo /\ UNCHANGED <<file, pages>> /\ usuario' \in Usuario
      /\ bit_map' \subseteq Marcos /\ Range(pages) \subseteq bit_map'
  BY <1>0, InvDa DEF CpuInv, CpuTypeOK, memVars
<1>2. Alcanzado(<<>>)
  BY InvDa, NadaAlcanzado
<1>3. io'.frames = <<>>
  <2>1. SinIo.frames = <<>>
    BY DEF SinIo
  <2> QED
    BY <1>0, <2>1, Zenon
<1> QED
  BY <1>1, <1>2, <1>3, Paso

\* A step of the user memory and the registers.
LEMMA SoloUsuario ==
    ASSUME CpuInv, registers' \in Archivo, usuario' \in Usuario, io' = SinIo,
           UNCHANGED <<file, pages, bit_map>>
    PROVE  CpuInv'
<1>1. /\ UNCHANGED <<file, pages>>
      /\ bit_map' \subseteq Marcos /\ Range(pages) \subseteq bit_map'
  BY DEF CpuInv, CpuTypeOK
<1>2. Alcanzado(<<>>)
  BY InvDa, NadaAlcanzado
<1>3. io'.frames = <<>>
  BY DEF SinIo
<1> QED
  BY <1>1, <1>2, <1>3, Paso

Intactos == \A m \in bit_map \ Range(pages) :
    Bytes(usuario', m * TamPagina, TamPagina) = Bytes(usuario, m * TamPagina, TamPagina)

\* What is written in a range of the process is in no other frame.
LEMMA EscribeAjeno ==
    ASSUME CpuInv, NEW f, NEW d, NEW n, Rango(f, d, n), NEW b \in Seq(Byte), Len(b) >= n,
           usuario' = escribir_memoria(b, f)
    PROVE  usuario' \in Usuario /\ Intactos
<1> DEFINE u == escribir_memoria(b, f)
<1>1. TablaOK /\ Distintas /\ usuario \in Usuario
  BY InvDa
<1>2. /\ u \in Usuario
      /\ \A a \in Reales : (\A j \in 1 .. n : Fis(d + (j - 1)) # a) => u[a + 1] = usuario[a + 1]
  BY <1>1, EscribeDa
<1>3. /\ TamPagina \in Nat \ {0} /\ CantMarcos \in Nat \ {0}
      /\ d \in Nat /\ n \in Nat /\ d + n <= Memoria /\ Memoria \in Nat
  BY <1>1, PotenciaDa, TablaDa DEF Rango, Memoria
<1> HIDE DEF u
<1>4. ASSUME NEW m \in bit_map \ Range(pages)
      PROVE  Bytes(u, m * TamPagina, TamPagina) = Bytes(usuario, m * TamPagina, TamPagina)
  <2>1. m \in Marcos /\ m \in Nat /\ m \in Int /\ m + 1 <= CantMarcos
    <3>1. m \in Marcos
      BY DEF CpuInv, CpuTypeOK
    <3> QED
      BY <1>3, <3>1 DEF Marcos
  <2> DEFINE e == m * TamPagina
             largo == CantMarcos * TamPagina
  <2>2. e \in Nat
    BY <1>3, <2>1, Producto
  <2>3. largo \in Nat
    BY <1>3, Producto
  <2>4. e + TamPagina <= largo
    <3>1. CantMarcos = (m + 1) + (CantMarcos - (m + 1)) /\ CantMarcos - (m + 1) \in Nat
      BY <1>3, <2>1
    <3>2. (CantMarcos - (m + 1)) * TamPagina \in Nat
      BY <1>3, <3>1, Producto
    <3>3. ((m + 1) + (CantMarcos - (m + 1))) * TamPagina
            = (m * TamPagina + TamPagina) + (CantMarcos - (m + 1)) * TamPagina
      BY <1>3, <2>1
    <3>4. largo = (e + TamPagina) + (CantMarcos - (m + 1)) * TamPagina
      BY <3>1, <3>3
    <3> HIDE DEF e, largo
    <3> QED
      BY <1>3, <2>2, <2>3, <3>2, <3>4
  <2>5. ASSUME NEW k \in 1 .. TamPagina PROVE u[e + k] = usuario[e + k]
    <3> DEFINE a == e + (k - 1)
    <3>1. a \in Reales /\ a + 1 = e + k
      <4> HIDE DEF e
      <4> QED
        BY <1>3, <2>2, <2>3, <2>4 DEF Reales
    <3>2. a \div TamPagina = m
      <4>1. k - 1 \in 0 .. TamPagina - 1
        BY <1>3
      <4> QED
        BY <1>3, <2>1, <4>1, Division
    <3> HIDE DEF a, e
    <3>3. ASSUME NEW j \in 1 .. n PROVE Fis(d + (j - 1)) # a
      <4>1. d + (j - 1) \in Nat /\ d + (j - 1) < Memoria
        BY <1>3
      <4>2. \E i \in DOMAIN pages : Fis(d + (j - 1)) \div TamPagina = pages[i]
        BY <1>1, <4>1, FisInyectiva
      <4>3. \A i \in DOMAIN pages : pages[i] # m
        BY DEF Range
      <4> QED
        BY <3>2, <4>2, <4>3
    <3> QED
      BY <1>2, <3>1, <3>3
  <2> HIDE DEF e, largo
  <2>6. u \in Tira(Byte, largo) /\ usuario \in Tira(Byte, largo) /\ TamPagina \in Nat
    BY <1>1, <1>2, <1>3 DEF Usuario, largo
  <2>7. Bytes(u, e, TamPagina) \in Tira(Byte, TamPagina)
        /\ \A k \in 1 .. TamPagina : Bytes(u, e, TamPagina)[k] = u[e + k]
    BY <2>2, <2>3, <2>4, <2>6, BytesDa
  <2>8. Bytes(usuario, e, TamPagina) \in Tira(Byte, TamPagina)
        /\ \A k \in 1 .. TamPagina : Bytes(usuario, e, TamPagina)[k] = usuario[e + k]
    BY <2>2, <2>3, <2>4, <2>6, BytesDa
  <2>9. Bytes(u, e, TamPagina) = Bytes(usuario, e, TamPagina)
    <3> DEFINE x == Bytes(u, e, TamPagina)
               y == Bytes(usuario, e, TamPagina)
    <3>1. x \in Tira(Byte, TamPagina) /\ y \in Tira(Byte, TamPagina)
          /\ \A k \in 1 .. TamPagina : x[k] = y[k]
      BY <2>5, <2>7, <2>8
    <3> HIDE DEF x, y
    <3>2. /\ x = [k \in 1 .. TamPagina |-> x[k]]
          /\ y = [k \in 1 .. TamPagina |-> y[k]]
      BY <3>1 DEF Tira
    <3>3. x = y
      BY <3>1, <3>2
    <3> QED
      BY <3>3 DEF x, y
  <2> QED
    BY <2>9 DEF e
<1>5. usuario' = u
  BY DEF u
<1> QED
  BY <1>2, <1>4, <1>5 DEF Intactos

\* A range that mmu translates.
LEMMA TraduceDa ==
    ASSUME TablaOK, NEW d \in 0 .. M - 1, NEW n \in 0 .. M - 1
    PROVE  LET t == mmu(d, n) IN
           /\ t.frames \in Seq(Marco) /\ t.status \in {"RUNNING", "ERROR"}
           /\ t.status = "RUNNING" <=> Entra(d, n) \/ Desborda(d, n)
           /\ Desborda(d, n) <=> Excede(t.frames)
           /\ ~(Entra(d, n) /\ Desborda(d, n))
           /\ Entra(d, n) => Rango(t.frames, d, n)
           /\ t.status = "RUNNING" => Alcanzado(t.frames)
           /\ ~Excede(t.frames) => Direcciones(t.frames) \in Seq(Reales)
<1> DEFINE t == mmu(d, n)
<1>1. /\ t.frames \in Seq(Marco)
      /\ t.status = (IF Entra(d, n) \/ Desborda(d, n) THEN "RUNNING" ELSE "ERROR")
      /\ Entra(d, n) => Direcciones(t.frames) = Seguidas(d, n)
      /\ Desborda(d, n) <=> Excede(t.frames)
      /\ ~Desborda(d, n) => Direcciones(t.frames) \in Seq(Reales)
      /\ ~(Entra(d, n) /\ Desborda(d, n))
  BY MmuDa
<1> HIDE DEF t
<1>2. Entra(d, n) => Rango(t.frames, d, n)
  <2>1. d \in Nat /\ n \in Nat
    BY MDa
  <2> QED
    BY <1>1, <2>1 DEF Rango, Entra
<1>3. t.status = "RUNNING" => Alcanzado(t.frames)
  BY <1>1, <1>2 DEF Alcanzado
<1> QED
  BY <1>1, <1>2, <1>3 DEF t

-----------------------------------------------------------------------------
(* Each step keeps the invariant, and the frames of other processes.       *)

\* Where nothing is written.
LEMMA SinEscribir ==
    ASSUME usuario' = usuario
    PROVE  Intactos
BY DEF Intactos

\* SET, SUM, SUB and JNZ.
LEMMA CalculoInv ==
    ASSUME CpuInv, Set \/ SumSub \/ jnz_register
    PROVE  CpuInv' /\ Intactos
<1>1. regs \in Archivo
  BY InvDa
<1>2. /\ estado = "RUNNING" /\ UNCHANGED <<file, io, salida>> /\ UNCHANGED memVars
      /\ \E r, x : x \in Int /\ (registers' = update_register(regs, r, sizeof_register(r), x)
                                 \/ registers' = regs)
  <2>1. CASE Set
    <3>1. Decodifica({"SET"}) /\ UNCHANGED <<file, io, salida>> /\ UNCHANGED memVars
          /\ registers' = update_register(regs, Palabra(1), sizeof_register(Palabra(1)),
                                          atouint(Palabra(2)))
      BY <2>1 DEF Set, SinSalida
    <3>2. estado = "RUNNING" /\ Linea[1] = "SET" /\ atouint(Numero(Linea)) \in 0 .. M - 1
      BY <3>1, LineaDa
    <3>3. Numero(Linea) = Palabra(2)
      BY <3>2 DEF Numero, Palabra
    <3>4. atouint(Palabra(2)) \in Int
      BY <3>2, <3>3
    <3> QED
      BY <3>1, <3>2, <3>4
  <2>2. CASE SumSub
    <3> DEFINE s == IF Linea[1] = "SUM" THEN 1 ELSE -1
               a == Palabra(1)
               o == Palabra(2)
               n == sizeof_register(a)
               b == IF n = 1 THEN Registro(regs, o, 1) ELSE get_normaliced_register(regs, o)
    <3>1. Decodifica({"SUM", "SUB"}) /\ UNCHANGED <<file, io, salida>> /\ UNCHANGED memVars
          /\ registers' = update_register(regs, a, n, Registro(regs, a, n) + s * b)
      BY <2>2 DEF SumSub, SinSalida, operation_register
    <3>2. estado = "RUNNING"
      BY <3>1, LineaDa
    <3>3. Registro(regs, a, n) \in Int
      <4>1. get_normaliced_register(regs, a) \in 0 .. M - 1
        BY <1>1, RegistroDa
      <4> QED
        BY <4>1 DEF get_normaliced_register
    <3>4. b \in Int
      <4>1. /\ get_normaliced_register(regs, o) \in 0 .. M - 1
            /\ Registro(regs, o, 1) = get_normaliced_register(regs, o) % Base
        BY <1>1, RegistroDa
      <4>2. Base \in Nat \ {0} /\ get_normaliced_register(regs, o) \in Int
        BY <4>1, PotenciaDa
      <4>3. get_normaliced_register(regs, o) % Base \in Int
        BY <4>2, Resto
      <4> QED
        BY <4>1, <4>2, <4>3
    <3>5. s \in Int
      OBVIOUS
    <3> HIDE DEF s, b, a, n
    <3>6. Registro(regs, a, n) + s * b \in Int
      BY <3>3, <3>4, <3>5
    <3> QED
      BY <3>1, <3>2, <3>6 DEF n
  <2>3. CASE jnz_register
    <3>1. Decodifica({"JNZ"}) /\ UNCHANGED <<file, io, salida>> /\ UNCHANGED memVars
          /\ registers' = IF Reg(Palabra(1)) = 0 THEN regs
                          ELSE update_register(regs, "PC", Ancho, atouint(Palabra(2)))
      BY <2>3 DEF jnz_register, SinSalida
    <3>2. estado = "RUNNING" /\ Linea[1] = "JNZ" /\ atouint(Numero(Linea)) \in 0 .. M - 1
      BY <3>1, LineaDa
    <3>3. Numero(Linea) = Palabra(2)
      BY <3>2 DEF Numero, Palabra
    <3>4. atouint(Palabra(2)) \in Int /\ sizeof_register("PC") = Ancho
      BY <3>2, <3>3, RegistroEnLugar
    <3>5. registers' = regs
          \/ registers' = update_register(regs, "PC", sizeof_register("PC"), atouint(Palabra(2)))
      BY <3>1, <3>4
    <3> QED
      BY <3>1, <3>2, <3>4, <3>5
  <2> QED
    BY <2>1, <2>2, <2>3
<1>3. registers' \in Archivo
  <2>1. PICK r, x : x \in Int /\ (registers' = update_register(regs, r, sizeof_register(r), x)
                                  \/ registers' = regs)
    BY <1>2
  <2>2. update_register(regs, r, sizeof_register(r), x) \in Archivo
    BY <1>1, <2>1, ActualizaRegistro
  <2> QED
    BY <1>1, <2>1, <2>2
<1>4. CpuInv'
  BY <1>2, <1>3, SoloRegistros
<1>5. usuario' = usuario
  BY <1>2 DEF memVars
<1> QED
  BY <1>4, <1>5, SinEscribir

\* The steps that change no memory and no register but pc.
LEMMA QuietosInv ==
    ASSUME CpuInv, estado # "BLOCKED_IO", registers' = regs \/ registers' = registers,
           UNCHANGED <<file, io>>, UNCHANGED memVars
    PROVE  CpuInv' /\ Intactos
<1>1. registers' \in Archivo
  BY InvDa
<1>2. CpuInv'
  BY <1>1, SoloRegistros
<1>3. usuario' = usuario
  BY DEF memVars
<1> QED
  BY <1>2, <1>3, SinEscribir

\* A translation that fails.
LEMMA NoTraduceInv ==
    ASSUME CpuInv, NoTraduce, estado # "BLOCKED_IO"
    PROVE  CpuInv' /\ Intactos
BY QuietosInv DEF NoTraduce, SinSalida

\* WAIT, SIGNAL, EXIT, a word that is no instruction, and the lines the CPU
\* does not survive.
LEMMA OtrosInv ==
    ASSUME CpuInv,
           semaphore \/ Exit \/ Unknown \/ DecodeCae \/ FetchCae \/ Reanuda
    PROVE  CpuInv' /\ Intactos
<1>1. estado # "BLOCKED_IO"
  BY DEF semaphore, Exit, Unknown, DecodeCae, FetchCae, Reanuda, Decodifica
<1>2. /\ registers' = regs \/ registers' = registers
      /\ UNCHANGED <<file, io>> /\ UNCHANGED memVars
  BY DEF semaphore, Exit, Unknown, DecodeCae, FetchCae, Reanuda, NoTraduce, Caida,
         SinSalida, memVars
<1> QED
  BY <1>1, <1>2, QuietosInv

\* MOV_OUT writes the bytes of its register.
LEMMA mov_outInv ==
    ASSUME CpuInv, mov_out
    PROVE  CpuInv' /\ Intactos
<1> DEFINE datos == Palabra(2)
           n == sizeof_register(datos)
           d == Reg(Palabra(1))
           t == mmu(d, n)
           b == Bytes(regs, get_register(datos), n)
<1>1. /\ Decodifica({"MOV_OUT"})
      /\ \/ NoTraduce
         \/ /\ t.status # "ERROR" /\ usuario' = escribir_memoria(b, t.frames)
            /\ registers' = regs /\ UNCHANGED <<file, io, salida>> /\ UNCHANGED <<pages, bit_map>>
  BY DEF mov_out, SinSalida
<1>2. estado = "RUNNING" /\ io = SinIo
  BY <1>1, LineaDa
<1>3. TablaOK /\ regs \in Archivo /\ d \in 0 .. M - 1
  BY InvDa
<1>4. n \in 0 .. M - 1 /\ ~Desborda(d, n)
  BY <1>3, Chico
<1>5. b \in Tira(Byte, n)
  BY <1>3, RegistroDa
<1> HIDE DEF d, n, b, t
<1>6. CASE NoTraduce
  BY <1>2, <1>6, NoTraduceInv
<1>7. CASE /\ t.status # "ERROR" /\ usuario' = escribir_memoria(b, t.frames)
           /\ registers' = regs /\ UNCHANGED <<file, io, salida>> /\ UNCHANGED <<pages, bit_map>>
  <2>1. Rango(t.frames, d, n)
    BY <1>3, <1>4, <1>7, TraduceDa DEF t
  <2>2. b \in Seq(Byte) /\ Len(b) >= n
    <3>1. n \in Nat
      BY <1>4
    <3> QED
      BY <1>5, <3>1 DEF Tira
  <2>3. usuario' \in Usuario /\ Intactos
    BY <1>7, <2>1, <2>2, EscribeAjeno
  <2>4. CpuInv'
    BY <1>2, <1>3, <1>7, <2>3, SoloUsuario
  <2> QED
    BY <2>3, <2>4
<1> QED
  BY <1>1, <1>6, <1>7

\* MOV_IN writes in its register what it reads.
LEMMA mov_inInv ==
    ASSUME CpuInv, mov_in
    PROVE  CpuInv' /\ Intactos
<1> DEFINE datos == Palabra(1)
           n == sizeof_register(datos)
           d == Reg(Palabra(2))
           t == mmu(d, n)
<1>1. /\ Decodifica({"MOV_IN"})
      /\ \/ NoTraduce
         \/ /\ t.status # "ERROR"
            /\ registers' = Sobre(regs, get_register(datos), leer_memoria(t.frames))
            /\ UNCHANGED <<file, io, salida>> /\ UNCHANGED memVars
  BY DEF mov_in, SinSalida
<1>2. estado = "RUNNING" /\ io = SinIo
  BY <1>1, LineaDa
<1>3. TablaOK /\ regs \in Archivo /\ d \in 0 .. M - 1 /\ usuario \in Usuario
  BY InvDa
<1>4. n \in 0 .. M - 1 /\ ~Desborda(d, n)
  BY <1>3, Chico
<1> HIDE DEF d, n, t, datos
<1>6. CASE NoTraduce
  BY <1>2, <1>6, NoTraduceInv
<1>7. CASE /\ t.status # "ERROR"
           /\ registers' = Sobre(regs, get_register(datos), leer_memoria(t.frames))
           /\ UNCHANGED <<file, io, salida>> /\ UNCHANGED memVars
  <2>1. Rango(t.frames, d, n) /\ ~Excede(t.frames)
    BY <1>3, <1>4, <1>7, TraduceDa DEF t
  <2>2. Direcciones(t.frames) \in Seq(Reales)
    BY <1>3, <1>4, <2>1, TraduceDa DEF t
  <2> DEFINE b == leer_memoria(t.frames)
  <2>3. b \in Seq(Byte)
    BY <1>3, <2>2, LeeDa
  <2>4. b = [k \in 1 .. n |-> usuario[Fis(d + (k - 1)) + 1]]
    BY <1>3, <2>1, LeeDa
  <2> HIDE DEF b
  <2>5. n \in Nat /\ Len(b) = n
    BY <1>4, <2>4
  <2>6. b \in Tira(Byte, n)
    BY <2>3, <2>5 DEF Tira
  <2>7. registers' \in Archivo
    <3>1. b \in Tira(Byte, sizeof_register(datos))
      BY <2>6 DEF n
    <3>2. Sobre(regs, get_register(datos), b) \in Archivo
      BY <1>3, <3>1, EscribeRegistro
    <3> QED
      BY <1>7, <3>2 DEF b
  <2>8. CpuInv'
    BY <1>2, <1>7, <2>7, SoloRegistros
  <2>9. usuario' = usuario
    BY <1>7 DEF memVars
  <2> QED
    BY <2>8, <2>9, SinEscribir
<1> QED
  BY <1>1, <1>6, <1>7

\* Two lists of frames, one after the other.
LEMMA ExcedeDos ==
    ASSUME NEW f \in Seq(Marco), NEW g \in Seq(Marco)
    PROVE  Excede(f \o g) <=> Excede(f) \/ Excede(g)
<1>1. Len(f) \in Nat /\ DOMAIN f = 1 .. Len(f) /\ Len(g) \in Nat /\ DOMAIN g = 1 .. Len(g)
  BY LenProperties
<1>2. /\ f \o g \in Seq(Marco) /\ Len(f \o g) = Len(f) + Len(g)
      /\ \A j \in 1 .. Len(f) : (f \o g)[j] = f[j]
      /\ \A j \in 1 .. Len(g) : (f \o g)[Len(f) + j] = g[j]
  BY <1>1, DosTrechos
<1>3. DOMAIN (f \o g) = 1 .. Len(f) + Len(g)
  BY <1>2, LenProperties
<1> DEFINE h == f \o g
<1>4. /\ DOMAIN h = 1 .. Len(f) + Len(g) /\ \A j \in 1 .. Len(f) : h[j] = f[j]
      /\ \A j \in 1 .. Len(g) : h[Len(f) + j] = g[j]
  BY <1>2, <1>3
<1> HIDE DEF h
<1>5. ASSUME NEW k \in DOMAIN h, h[k].bytes > TamPagina PROVE Excede(f) \/ Excede(g)
  <2>1. CASE k \in 1 .. Len(f)
    BY <1>1, <1>4, <1>5, <2>1 DEF Excede
  <2>2. CASE k \notin 1 .. Len(f)
    <3>1. k - Len(f) \in 1 .. Len(g) /\ Len(f) + (k - Len(f)) = k
      BY <1>1, <1>4, <2>2
    <3>2. h[k] = g[k - Len(f)]
      BY <1>4, <3>1
    <3> QED
      BY <1>1, <1>5, <3>1, <3>2 DEF Excede
  <2> QED
    BY <2>1, <2>2
<1>6. ASSUME NEW k \in DOMAIN f, f[k].bytes > TamPagina PROVE Excede(h)
  <2>1. k \in DOMAIN h /\ h[k] = f[k]
    BY <1>1, <1>4
  <2> QED
    BY <1>6, <2>1 DEF Excede
<1>7. ASSUME NEW k \in DOMAIN g, g[k].bytes > TamPagina PROVE Excede(h)
  <2>1. Len(f) + k \in DOMAIN h /\ h[Len(f) + k] = g[k]
    BY <1>1, <1>4
  <2> QED
    BY <1>7, <2>1 DEF Excede
<1> QED
  BY <1>5, <1>6, <1>7 DEF Excede, h

\* A buffer of n bytes that begins with what was read.
LEMMA RestoDa ==
    ASSUME NEW n \in Nat, NEW a \in Seq(Byte), NEW resto \in [1 .. n - Len(a) -> Byte]
    PROVE  /\ a \o resto \in Seq(Byte) /\ Len(a \o resto) >= n
           /\ Len(a) = n => a \o resto = a
<1>1. Len(a) \in Nat
  BY LenProperties
<1>2. CASE Len(a) < n
  <2>1. n - Len(a) \in Nat
    BY <1>1, <1>2
  <2>2. resto \in Seq(Byte) /\ Len(resto) = n - Len(a)
    BY <2>1
  <2>3. a \o resto \in Seq(Byte) /\ Len(a \o resto) = Len(a) + Len(resto)
    BY <2>2, ConcatProperties
  <2> QED
    BY <1>1, <1>2, <2>2, <2>3
<1>3. CASE ~(Len(a) < n)
  <2>1. 1 .. n - Len(a) = 1 .. 0
    BY <1>1, <1>3
  <2>11. resto \in [1 .. 0 -> Byte]
    BY <2>1
  <2>12. resto \in Seq(Byte) /\ Len(resto) = 0
    BY <2>11
  <2>2. resto = <<>>
    BY <2>12, EmptySeq
  <2>3. a \o <<>> = a
    BY ConcatEmptySeq
  <2> QED
    BY <1>1, <1>3, <2>2, <2>3
<1> QED
  BY <1>2, <1>3

\* COPY_STRING writes in the second range, whatever it read.
LEMMA copy_stringInv ==
    ASSUME CpuInv, copy_string
    PROVE  CpuInv' /\ Intactos
<1> DEFINE n == atouint(Palabra(1))
           a == Registro(regs, "SI", Ancho)
           d == Registro(regs, "DI", Ancho)
           src == mmu(a, n)
           dst == mmu(d, n)
           leido == leer_memoria(src.frames)
<1>1. /\ Decodifica({"COPY_STRING"})
      /\ \/ NoTraduce
         \/ Caida
         \/ /\ dst.status # "ERROR" /\ ~Excede(src.frames \o dst.frames)
            /\ \E resto \in [1 .. n - Len(leido) -> Byte] :
                    usuario' = escribir_memoria(leido \o resto, dst.frames)
            /\ registers' = regs /\ UNCHANGED <<file, io, salida>> /\ UNCHANGED <<pages, bit_map>>
  BY DEF copy_string, SinSalida
<1>2. estado = "RUNNING" /\ io = SinIo /\ n \in 0 .. M - 1
  <2>1. estado = "RUNNING" /\ io = SinIo /\ Linea[1] = "COPY_STRING"
        /\ atouint(Numero(Linea)) \in 0 .. M - 1
    BY <1>1, LineaDa
  <2>2. Numero(Linea) = Palabra(1)
    BY <2>1 DEF Numero, Palabra
  <2> QED
    BY <2>1, <2>2
<1>3. TablaOK /\ regs \in Archivo /\ usuario \in Usuario
  BY InvDa
<1>4. a \in 0 .. M - 1 /\ d \in 0 .. M - 1
  <2>1. sizeof_register("SI") = Ancho /\ sizeof_register("DI") = Ancho
    BY DEF sizeof_register
  <2>2. a = get_normaliced_register(regs, "SI") /\ d = get_normaliced_register(regs, "DI")
    BY <2>1 DEF get_normaliced_register
  <2> QED
    BY <1>3, <2>2, RegistroDa
<1> HIDE DEF n, a, d, src, dst, leido
<1>5. CASE NoTraduce
  BY <1>2, <1>5, NoTraduceInv
<1>6. CASE Caida
  BY <1>2, <1>6, QuietosInv DEF Caida, SinSalida
<1>7. CASE /\ dst.status # "ERROR" /\ ~Excede(src.frames \o dst.frames)
           /\ \E resto \in [1 .. n - Len(leido) -> Byte] :
                    usuario' = escribir_memoria(leido \o resto, dst.frames)
           /\ registers' = regs /\ UNCHANGED <<file, io, salida>> /\ UNCHANGED <<pages, bit_map>>
  <2>1. src.frames \in Seq(Marco) /\ dst.frames \in Seq(Marco)
    BY <1>2, <1>3, <1>4, TraduceDa DEF src, dst
  <2>2. ~Excede(src.frames) /\ ~Excede(dst.frames)
    BY <1>7, <2>1, ExcedeDos
  <2>3. Rango(dst.frames, d, n) /\ n \in Nat
    BY <1>2, <1>3, <1>4, <1>7, <2>2, TraduceDa DEF dst
  <2>4. leido \in Seq(Byte)
    <3>1. Direcciones(src.frames) \in Seq(Reales)
      BY <1>2, <1>3, <1>4, <2>2, TraduceDa DEF src
    <3> QED
      BY <1>3, <3>1, LeeDa DEF leido
  <2>5. PICK resto \in [1 .. n - Len(leido) -> Byte] :
                    usuario' = escribir_memoria(leido \o resto, dst.frames)
    BY <1>7
  <2>6. leido \o resto \in Seq(Byte) /\ Len(leido \o resto) >= n
    BY <2>3, <2>4, RestoDa
  <2>7. usuario' \in Usuario /\ Intactos
    BY <2>3, <2>5, <2>6, EscribeAjeno
  <2>8. CpuInv'
    BY <1>2, <1>3, <1>7, <2>7, SoloUsuario
  <2> QED
    BY <2>7, <2>8
<1> QED
  BY <1>1, <1>5, <1>6, <1>7

\* RESIZE.
LEMMA resizeInv ==
    ASSUME CpuInv, resize_process
    PROVE  CpuInv' /\ Intactos
<1> DEFINE v == atouint(Palabra(1))
           n == (v + TamPagina - 1) \div TamPagina
<1>1. /\ Decodifica({"RESIZE"})
      /\ pages' = NuevaTabla(Marcos \ bit_map, n)
      /\ bit_map' = (bit_map \ Range(pages)) \cup Range(pages')
      /\ registers' = regs /\ UNCHANGED <<file, io, salida>> /\ usuario' = usuario
  BY Zenon DEF resize_process, SinSalida, NuevaTabla
<1>2. estado = "RUNNING" /\ io = SinIo /\ v \in 0 .. M - 1
  <2>1. estado = "RUNNING" /\ io = SinIo /\ Linea[1] = "RESIZE"
        /\ atouint(Numero(Linea)) \in 0 .. M - 1
    BY <1>1, LineaDa
  <2>2. Numero(Linea) = Palabra(1)
    BY <2>1 DEF Numero, Palabra
  <2> QED
    BY <2>1, <2>2
<1>3. n \in Nat
  <2> HIDE DEF v
  <2>1. TamPagina \in Nat \ {0}
    BY PotenciaDa
  <2>2. v + TamPagina - 1 \in Nat /\ v + TamPagina - 1 \in Int
    BY <1>2, <2>1
  <2> QED
    BY <2>1, <2>2, Resto
<1> HIDE DEF n
<1>4. regs \in Archivo /\ usuario \in Usuario
  BY InvDa
<1>5. pages' \in Seq(Marcos) /\ Distintas'
  <2>1. pages' \in Seq(Marcos) /\ Rango1(pages')
    BY <1>1, <1>3, NuevaTablaDa DEF CpuInv, CpuTypeOK
  <2> QED
    BY <2>1 DEF Rango1, Distintas
<1>6. Range(pages') \subseteq Marcos
  <2>1. \A k \in DOMAIN pages' : pages'[k] \in Marcos
    BY <1>5
  <2> QED
    BY <2>1 DEF Range
<1>7. bit_map' \subseteq Marcos /\ Range(pages') \subseteq bit_map'
  BY <1>1, <1>6 DEF CpuInv, CpuTypeOK
<1>8. CpuTypeOK'
  BY <1>1, <1>4, <1>5, <1>7 DEF CpuTypeOK, Archivo, Usuario, Tira
<1>9. io' = SinIo /\ file' \in Programas
  BY <1>1, <1>2 DEF CpuInv
<1>10. io'.frames = <<>>
  <2>1. SinIo.frames = <<>>
    BY DEF SinIo
  <2> QED
    BY <1>9, <2>1, Zenon
<1>11. Alcanzado(<<>>)'
  <2>1. Len(pages') \in Nat
    BY <1>5, LenProperties
  <2>2. Len(pages') * TamPagina \in Nat
    BY <2>1, PotenciaDa, Producto
  <2>3. Direcciones(<<>>) = <<>> /\ <<>> \in Seq(Marco)
    BY DireccionesDa, EmptySeq
  <2>4. Seguidas(0, 0)' = <<>>
    BY DEF Seguidas
  <2>5. Rango(<<>>, 0, 0)'
    BY <2>2, <2>3, <2>4 DEF Rango, Memoria
  <2> QED
    BY <2>3, <2>5 DEF Alcanzado
<1>12. CpuInv'
  BY <1>5, <1>8, <1>9, <1>10, <1>11 DEF CpuInv
<1> QED
  BY <1>1, <1>12, SinEscribir

\* A request takes along the frames of a range of the process.
LEMMA PideIoInv ==
    ASSUME CpuInv, estado = "RUNNING", NEW f, Alcanzado(f), PideIo(f),
           f = <<>> \/ Linea[1] \in ConMemoria
    PROVE  CpuInv' /\ Intactos
<1>1. /\ registers' = regs /\ UNCHANGED <<file, salida>> /\ UNCHANGED memVars
      /\ \/ estado' = "ERROR_INTERFACE" /\ UNCHANGED io
         \/ /\ estado' = "BLOCKED_IO"
            /\ io' = [op |-> Linea[1], interfaz |-> Palabra(1), frames |-> f]
  BY DEF PideIo, Resultado
<1>2. CASE estado' = "ERROR_INTERFACE" /\ UNCHANGED io
  BY <1>1, <1>2, QuietosInv
<1>3. CASE /\ estado' = "BLOCKED_IO"
           /\ io' = [op |-> Linea[1], interfaz |-> Palabra(1), frames |-> f]
  <2>1. f = io'.frames /\ (io'.op \notin ConMemoria => io'.frames = <<>>)
    BY <1>3
  <2>2. /\ UNCHANGED <<file, pages>> /\ registers' \in Archivo /\ usuario' \in Usuario
        /\ bit_map' \subseteq Marcos /\ Range(pages) \subseteq bit_map'
        /\ usuario' = usuario
    BY <1>1, InvDa DEF CpuInv, CpuTypeOK, memVars
  <2>3. estado' # "BLOCKED_IO" => io' = SinIo
    BY <1>3
  <2>4. CpuInv'
    BY <2>1, <2>2, <2>3, Paso
  <2> QED
    BY <2>2, <2>4, SinEscribir
<1> QED
  BY <1>1, <1>2, <1>3

\* The lines of IO.
LEMMA IoInv ==
    ASSUME CpuInv, enviar_io \/ io_read_write
    PROVE  CpuInv' /\ Intactos
<1>1. TablaOK
  BY InvDa
<1>2. CASE enviar_io
  <2>1. estado = "RUNNING" /\ PideIo(<<>>)
    BY <1>2 DEF enviar_io, Decodifica
  <2> QED
    BY <1>1, <2>1, NadaAlcanzado, PideIoInv
<1>3. CASE io_read_write
  <2>1. Decodifica(ConMemoria)
    BY <1>3 DEF io_read_write, ConMemoria
  <2>2. PICK d \in 0 .. M - 1, n \in 0 .. M - 1 :
            IF mmu(d, n).status = "ERROR" THEN NoTraduce ELSE PideIo(mmu(d, n).frames)
    <3>1. \A r : Reg(r) \in 0 .. M - 1
      BY InvDa
    <3> QED
      BY <1>3, <3>1 DEF io_read_write
  <2>3. estado = "RUNNING" /\ Linea[1] \in ConMemoria
    BY <2>1 DEF Decodifica
  <2>4. mmu(d, n).status # "ERROR" => Alcanzado(mmu(d, n).frames)
    BY <1>1, TraduceDa
  <2>5. CASE mmu(d, n).status = "ERROR"
    BY <2>2, <2>3, <2>5, NoTraduceInv
  <2>6. CASE mmu(d, n).status # "ERROR"
    <3> DEFINE f == mmu(d, n).frames
    <3>1. Alcanzado(f) /\ PideIo(f)
      BY <2>2, <2>4, <2>6
    <3> HIDE DEF f
    <3> QED
      BY <2>3, <3>1, PideIoInv
  <2> QED
    BY <2>5, <2>6
<1> QED
  BY <1>2, <1>3

\* The answer of an interface: what it wrote, it wrote in the range.
LEMMA RespondeInv ==
    ASSUME CpuInv, NEW e, e # "BLOCKED_IO", Responde(e),
           \/ usuario' = usuario
           \/ /\ ~Excede(io.frames)
              /\ \E buffer \in [1 .. Total(io.frames) -> Byte] :
                    usuario' = escribir_memoria(buffer, io.frames)
    PROVE  CpuInv' /\ Intactos
<1>1. /\ io' = SinIo /\ registers' \in Archivo /\ UNCHANGED <<file, pages, bit_map>>
  BY InvDa DEF Responde
<1>2. CASE usuario' = usuario
  <2>1. usuario' \in Usuario
    BY <1>2, InvDa
  <2> QED
    BY <1>1, <1>2, <2>1, SoloUsuario, SinEscribir
<1>3. CASE /\ ~Excede(io.frames)
           /\ \E buffer \in [1 .. Total(io.frames) -> Byte] :
                    usuario' = escribir_memoria(buffer, io.frames)
  <2>1. PICK f : f = io.frames /\ Alcanzado(f)
    BY DEF CpuInv
  <2>2. PICK d, n : Rango(f, d, n)
    BY <1>3, <2>1 DEF Alcanzado
  <2>3. PICK b \in [1 .. Total(f) -> Byte] : usuario' = escribir_memoria(b, f)
    BY <1>3, <2>1
  <2>4. TablaOK /\ n \in Nat /\ Total(f) = n
    BY <2>2, InvDa, SeguidasDa DEF Rango, Total
  <2>5. b \in Seq(Byte) /\ Len(b) >= n
    BY <2>4
  <2>6. usuario' \in Usuario /\ Intactos
    BY <2>2, <2>3, <2>5, EscribeAjeno
  <2> QED
    BY <1>1, <2>6, SoloUsuario
<1> QED
  BY <1>2, <1>3

\* The interfaces.
LEMMA InterfacesInv ==
    ASSUME CpuInv, generica_io \/ stdin_io \/ stdout_io \/ dialfs_io \/ IoNoValida
    PROVE  CpuInv' /\ Intactos
<1> DEFINE Escribe == /\ ~Excede(io.frames)
                      /\ \E buffer \in [1 .. Total(io.frames) -> Byte] :
                            usuario' = escribir_memoria(buffer, io.frames)
<1>1. CASE generica_io
  BY <1>1, RespondeInv DEF generica_io
<1>2. CASE stdin_io
  <2>1. \/ Responde("caida") /\ usuario' = usuario
        \/ Responde("READY") /\ Escribe
    BY <1>2 DEF stdin_io
  <2> QED
    BY <2>1, RespondeInv
<1>3. CASE stdout_io
  <2>1. (Responde("caida") \/ Responde("READY")) /\ usuario' = usuario
    BY <1>3 DEF stdout_io
  <2> QED
    BY <2>1, RespondeInv
<1>4. CASE dialfs_io
  <2>1. /\ Responde("caida") \/ Responde("READY") \/ Responde("ERROR_IO")
        /\ usuario' = usuario \/ Escribe
    BY <1>4, SMTT(60) DEF dialfs_io
  <2> HIDE DEF Escribe
  <2>2. CASE Responde("caida")
    BY <2>1, <2>2, RespondeInv DEF Escribe
  <2>3. CASE Responde("READY")
    BY <2>1, <2>3, RespondeInv DEF Escribe
  <2>4. CASE Responde("ERROR_IO")
    BY <2>1, <2>4, RespondeInv DEF Escribe
  <2> QED
    BY <2>1, <2>2, <2>3, <2>4
<1>5. CASE IoNoValida
  BY <1>5, RespondeInv DEF IoNoValida
<1> QED
  BY <1>1, <1>2, <1>3, <1>4, <1>5

\* What other processes do with their frames.
LEMMA AjenoInv ==
    ASSUME CpuInv, NEW m \in Disputados, Ajeno(m)
    PROVE  CpuInv' /\ Intactos
<1>1. /\ UNCHANGED <<file, registers, estado, io, salida>> /\ UNCHANGED <<pages, usuario>>
      /\ bit_map' = bit_map \cup {m} \/ (bit_map' = bit_map \ {m} /\ m \notin Range(pages))
  BY DEF Ajeno, cpuVars
<1>2. m \in Marcos
  BY CpuAssumption DEF Marcos
<1>3. PICK f : f = io.frames /\ Alcanzado(f)
  BY DEF CpuInv
<1>4. f = io'.frames /\ (estado' # "BLOCKED_IO" => io' = SinIo)
      /\ (io'.op \notin ConMemoria => io'.frames = <<>>)
  BY <1>1, <1>3 DEF CpuInv
<1>5. /\ UNCHANGED <<file, pages>> /\ registers' \in Archivo /\ usuario' \in Usuario
      /\ bit_map' \subseteq Marcos /\ Range(pages) \subseteq bit_map'
  BY <1>1, <1>2, InvDa DEF CpuInv, CpuTypeOK
<1>6. CpuInv'
  BY <1>3, <1>4, <1>5, Paso
<1> QED
  BY <1>1, <1>6, SinEscribir

\* The start of a program.
LEMMA CpuInvInit ==
    Init => CpuInv
<1> SUFFICES ASSUME Init PROVE CpuInv
  OBVIOUS
<1>1. registers \in Archivo
  <2>1. 0 \in Byte
    BY PotenciaDa DEF Byte
  <2> QED
    BY <2>1 DEF Init, Archivo, Tira
<1>2. pages = <<>> /\ pages \in Seq(Marcos) /\ Range(pages) = {} /\ Distintas
  BY EmptySeq DEF Init, Range, Distintas
<1>3. usuario \in Usuario
  BY CpuAssumption DEF Init, Usuario, Tira, Byte
<1>4. CpuTypeOK
  BY <1>1, <1>2, <1>3 DEF Init, CpuTypeOK, Archivo, Usuario, Tira
<1>5. TablaOK
  BY <1>2, LargoTabla DEF TablaOK, Distintas, Rango1
<1>6. io.frames = <<>> /\ Alcanzado(<<>>)
  BY <1>5, NadaAlcanzado DEF Init, SinIo
<1> QED
  BY <1>2, <1>4, <1>6 DEF Init, CpuInv

\* A step of the specification.
LEMMA CpuInvNext ==
    CpuInv /\ [Next]_vars => CpuInv' /\ Intactos
<1> SUFFICES ASSUME CpuInv, [Next]_vars PROVE CpuInv' /\ Intactos
  OBVIOUS
<1>1. CASE Set \/ SumSub \/ jnz_register
  BY <1>1, CalculoInv
<1>2. CASE semaphore \/ Exit \/ Unknown \/ DecodeCae \/ FetchCae \/ Reanuda
  BY <1>2, OtrosInv
<1>3. CASE mov_out
  BY <1>3, mov_outInv
<1>4. CASE mov_in
  BY <1>4, mov_inInv
<1>5. CASE copy_string
  BY <1>5, copy_stringInv
<1>6. CASE resize_process
  BY <1>6, resizeInv
<1>7. CASE enviar_io \/ io_read_write
  BY <1>7, IoInv
<1>8. CASE generica_io \/ stdin_io \/ stdout_io \/ dialfs_io \/ IoNoValida
  BY <1>8, InterfacesInv
<1>9. CASE \E m \in Disputados : Ajeno(m)
  BY <1>9, AjenoInv
<1>10. CASE UNCHANGED vars
  <2>1. UNCHANGED <<file, registers, estado, io, salida>> /\ UNCHANGED <<pages, bit_map, usuario>>
    BY <1>10 DEF vars, cpuVars, memVars
  <2>2. PICK f : f = io.frames /\ Alcanzado(f)
    BY DEF CpuInv
  <2>3. /\ f = io'.frames /\ (estado' # "BLOCKED_IO" => io' = SinIo)
        /\ (io'.op \notin ConMemoria => io'.frames = <<>>)
        /\ UNCHANGED <<file, pages>> /\ registers' \in Archivo /\ usuario' \in Usuario
        /\ bit_map' \subseteq Marcos /\ Range(pages) \subseteq bit_map'
    BY <2>1, <2>2, InvDa DEF CpuInv, CpuTypeOK
  <2>4. CpuInv'
    BY <2>2, <2>3, Paso
  <2> QED
    BY <2>1, <2>4, SinEscribir
<1> QED
  BY <1>1, <1>2, <1>3, <1>4, <1>5, <1>6, <1>7, <1>8, <1>9, <1>10 DEF Next

\* The inductive invariant holds.
THEOREM CpuInvariante == Spec => []CpuInv
<1>1. Init => CpuInv
  BY CpuInvInit
<1>2. CpuInv /\ [Next]_vars => CpuInv'
  BY CpuInvNext
<1> QED
  BY <1>1, <1>2, PTL DEF Spec

\* Registers and memory are bytes, and the table of the process names frames
\* that the bitmap has in use, whatever the program does.
THEOREM CpuTipos == Spec => []CpuTypeOK
<1>1. CpuInv => CpuTypeOK
  BY DEF CpuInv
<1> QED
  BY <1>1, CpuInvariante, PTL

\* No instruction and no interface writes in a frame of another process.
THEOREM CpuAjenosIntactos == Spec => AjenosIntactos
<1>1. CpuInv /\ [Next]_vars =>
        [\A m \in bit_map \ Range(pages) :
            Bytes(usuario', m * TamPagina, TamPagina) = Bytes(usuario, m * TamPagina, TamPagina)]_vars
  BY CpuInvNext DEF Intactos
<1> QED
  BY <1>1, CpuInvariante, PTL DEF Spec, AjenosIntactos

-----------------------------------------------------------------------------
(* The machine of a program: its words for what the CPU has.               *)

\* The same widths, words and numbers.
LEMMA Palabras ==
    /\ Abstracta!M = M /\ Abstracta!Byte = Byte /\ Abstracta!Potencia = Potencia
    /\ \A r : Abstracta!Nombre(r) = Nom(r) /\ Abstracta!Bytes(r) = sizeof_register(r)
    /\ \A op : Abstracta!Params(op) = total_params(op)
    /\ \A v : Abstracta!Literal(v) = atouint(v)
    /\ \A v, n : Abstracta!ABytes(v, n) = ABytes(v, n)
<1>1. Abstracta!Potencia = Potencia
  BY Zenon DEF Abstracta!Potencia, Potencia
<1>2. Abstracta!M = M /\ Abstracta!Byte = Byte
  BY <1>1 DEF Abstracta!M, M, Abstracta!Byte, Byte
<1>3. ASSUME NEW r PROVE Abstracta!Nombre(r) = Nom(r)
  BY Lugares DEF Abstracta!Nombre, Nom, Abstracta!Cortos, Abstracta!Largos
<1>4. ASSUME NEW r PROVE Abstracta!Bytes(r) = sizeof_register(r)
  BY DEF Abstracta!Bytes, sizeof_register, Abstracta!Cortos
<1>5. ASSUME NEW op PROVE Abstracta!Params(op) = total_params(op)
  BY Zenon DEF Abstracta!Params, total_params
<1>6. ASSUME NEW v PROVE Abstracta!Literal(v) = atouint(v)
  BY <1>2, Zenon DEF Abstracta!Literal, atouint, Abstracta!NoNumerico, NoNumerico
<1>7. ASSUME NEW v, NEW n PROVE Abstracta!ABytes(v, n) = ABytes(v, n)
  BY <1>1, Zenon DEF Abstracta!ABytes, ABytes
<1> QED
  BY <1>1, <1>2, <1>3, <1>4, <1>5, <1>6, <1>7

\* A bank of registers, by name.
Nombres(rs) == [r \in Registros |-> get_normaliced_register(rs, r)]

\* The program counter moved on, and the line.
LEMMA Avance ==
    ASSUME CpuInv
    PROVE  /\ PorNombre = Nombres(registers) /\ PorNombre["PC"] = pc
           /\ Abstracta!Avanzado = Nombres(regs)
           /\ \A r : Abstracta!Val(r) = Reg(r)
           /\ Abstracta!Linea = Linea /\ (Abstracta!Completa <=> Completa)
           /\ \A ops : Abstracta!Ejecuta(ops) <=>
                            estado = "RUNNING" /\ pc < Len(file) /\ Linea[1] \in ops
<1>1. PorNombre = Nombres(registers)
  BY DEF PorNombre, Nombres, Registros
<1>2. "PC" \in Registros /\ Nom("PC") = "PC" /\ sizeof_register("PC") = Ancho
      /\ \A r : Nom(r) \in Registros /\ (r \in Registros => Nom(r) = r)
  BY Lugares, RegistroEnLugar
<1>3. PorNombre["PC"] = pc
  BY <1>1, <1>2 DEF Nombres, get_normaliced_register, pc
<1>4. \A r : get_normaliced_register(regs, r) =
                        IF Nom(r) = "PC" THEN (pc + 1) % M
                        ELSE get_normaliced_register(registers, r)
  BY InvDa
<1>5. Abstracta!Avanzado = [PorNombre EXCEPT !["PC"] = (PorNombre["PC"] + 1) % M]
  BY Palabras DEF Abstracta!Avanzado
<1> HIDE DEF pc, regs
<1>6. Abstracta!Avanzado = Nombres(regs)
  <2>1. Abstracta!Avanzado = [Nombres(registers) EXCEPT !["PC"] = (pc + 1) % M]
    BY <1>1, <1>3, <1>5
  <2>2. \A r \in Registros : Nombres(regs)[r] =
            IF r = "PC" THEN (pc + 1) % M ELSE Nombres(registers)[r]
    BY <1>2, <1>4 DEF Nombres
  <2>3. /\ Nombres(regs) = [r \in Registros |-> Nombres(regs)[r]]
        /\ Nombres(registers) = [r \in Registros |-> Nombres(registers)[r]]
    BY DEF Nombres
  <2> QED
    BY <1>2, <2>1, <2>2, <2>3
<1>7. ASSUME NEW r PROVE Abstracta!Val(r) = Reg(r)
  <2>1. Abstracta!Val(r) = Nombres(regs)[Nom(r)]
    BY <1>6, Palabras DEF Abstracta!Val
  <2>2. Nombres(regs)[Nom(r)] = get_normaliced_register(regs, Nom(r))
    BY <1>2 DEF Nombres
  <2> QED
    BY <2>1, <2>2, RegistroNom DEF Reg
<1>8. Abstracta!Linea = Linea
  BY <1>3 DEF Abstracta!Linea, Linea
<1>9. Abstracta!Completa <=> Completa
  BY <1>8, Palabras DEF Abstracta!Completa, Completa
<1>10. \A ops : Abstracta!Ejecuta(ops) <=>
                            estado = "RUNNING" /\ pc < Len(file) /\ Linea[1] \in ops
  BY <1>3, <1>8 DEF Abstracta!Ejecuta
<1> QED
  BY <1>1, <1>3, <1>6, <1>7, <1>8, <1>9, <1>10

\* What the machine calls to put a number in a register.
LEMMA PonNombre ==
    ASSUME CpuInv, NEW r, NEW w,
           \A q : get_normaliced_register(registers', q) =
                    IF Nom(q) = Nom(r) THEN w % Potencia[sizeof_register(r)]
                    ELSE get_normaliced_register(regs, q)
    PROVE  Abstracta!Pon(r, w)
<1>1. Nombres(registers') = [Nombres(regs) EXCEPT ![Nom(r)] = w % Potencia[sizeof_register(r)]]
  <2> DEFINE s == registers'
             rs == regs
             x == w % Potencia[sizeof_register(r)]
  <2>1. \A q : get_normaliced_register(s, q) =
                    IF Nom(q) = Nom(r) THEN x ELSE get_normaliced_register(rs, q)
    OBVIOUS
  <2> HIDE DEF s, rs, x
  <2>2. \A q \in Registros : Nombres(s)[q] = IF q = Nom(r) THEN x ELSE Nombres(rs)[q]
    BY <2>1, Lugares DEF Nombres
  <2>3. /\ Nombres(s) = [q \in Registros |-> Nombres(s)[q]]
        /\ Nombres(rs) = [q \in Registros |-> Nombres(rs)[q]]
    BY DEF Nombres
  <2>4. Nom(r) \in Registros
    BY Lugares
  <2>5. Nombres(s) = [Nombres(rs) EXCEPT ![Nom(r)] = x]
    BY <2>2, <2>3, <2>4
  <2> QED
    BY <2>5 DEF s, rs, x
<1>2. PorNombre' = Nombres(registers')
  BY DEF PorNombre, Nombres, Registros
<1>3. /\ Abstracta!Avanzado = Nombres(regs) /\ Abstracta!Nombre(r) = Nom(r)
      /\ Abstracta!Potencia[Abstracta!Bytes(r)] = Potencia[sizeof_register(r)]
  BY Avance, Palabras
<1> QED
  BY <1>1, <1>2, <1>3 DEF Abstracta!Pon

\* By its value, by its bytes, or nothing.
LEMMA PonDa ==
    ASSUME CpuInv
    PROVE  /\ \A r : \A v \in Int :
                registers' = update_register(regs, r, sizeof_register(r), v) => Abstracta!Pon(r, v)
           /\ \A r : \A b \in Tira(Byte, sizeof_register(r)) :
                registers' = Sobre(regs, get_register(r), b) =>
                    /\ Abstracta!Pon(r, Valor(b)) /\ ABytes(Valor(b), sizeof_register(r)) = b
                    /\ Valor(b) \in 0 .. Potencia[sizeof_register(r)] - 1
           /\ registers' = regs => Abstracta!Avanza
<1>1. regs \in Archivo
  BY InvDa
<1>2. ASSUME NEW r, NEW v \in Int,
             registers' = update_register(regs, r, sizeof_register(r), v)
      PROVE  Abstracta!Pon(r, v)
  <2>1. \A q : get_normaliced_register(update_register(regs, r, sizeof_register(r), v), q) =
                        IF Nom(q) = Nom(r) THEN v % Potencia[sizeof_register(r)]
                        ELSE get_normaliced_register(regs, q)
    BY <1>1, ActualizaRegistro
  <2>2. \A q : get_normaliced_register(registers', q) =
                        IF Nom(q) = Nom(r) THEN v % Potencia[sizeof_register(r)]
                        ELSE get_normaliced_register(regs, q)
    BY <1>2, <2>1
  <2> QED
    BY <2>2, PonNombre
<1>3. ASSUME NEW r, NEW b \in Tira(Byte, sizeof_register(r)),
             registers' = Sobre(regs, get_register(r), b)
      PROVE  /\ Abstracta!Pon(r, Valor(b)) /\ ABytes(Valor(b), sizeof_register(r)) = b
             /\ Valor(b) \in 0 .. Potencia[sizeof_register(r)] - 1
  <2>1. \A q : get_normaliced_register(Sobre(regs, get_register(r), b), q) =
                        IF Nom(q) = Nom(r) THEN Valor(b)
                        ELSE get_normaliced_register(regs, q)
    BY <1>1, EscribeRegistro
  <2> DEFINE n == sizeof_register(r)
  <2>2. n \in 0 .. Ancho /\ Potencia[n] \in Nat \ {0}
    BY RegistroEnLugar, PotenciaDa
  <2>3. b \in [1 .. n -> Byte]
    BY DEF Tira
  <2> HIDE DEF n
  <2>4. Valor(b) \in 0 .. Potencia[n] - 1 /\ ABytes(Valor(b), n) = b
    BY <2>2, <2>3, ValorDa
  <2>5. Valor(b) % Potencia[n] = Valor(b)
    <3>1. Valor(b) \in Int
      BY <2>2, <2>4
    <3> QED
      BY <2>2, <2>4, <3>1, Resto
  <2>6. \A q : get_normaliced_register(registers', q) =
                        IF Nom(q) = Nom(r) THEN Valor(b) % Potencia[sizeof_register(r)]
                        ELSE get_normaliced_register(regs, q)
    BY <1>3, <2>1, <2>5 DEF n
  <2>7. Abstracta!Pon(r, Valor(b))
    BY <2>6, PonNombre
  <2> QED
    BY <2>4, <2>7 DEF n
<1>4. ASSUME registers' = regs PROVE Abstracta!Avanza
  <2>1. PorNombre' = Nombres(registers')
    BY DEF PorNombre, Nombres, Registros
  <2>2. Nombres(registers') = Nombres(regs)
    <3> DEFINE x == regs
    <3>1. registers' = x
      BY <1>4
    <3> HIDE DEF x
    <3> QED
      BY <3>1 DEF x
  <2>3. Abstracta!Avanzado = Nombres(regs)
    BY Avance
  <2> QED
    BY <2>1, <2>2, <2>3 DEF Abstracta!Avanza
<1> QED
  BY <1>2, <1>3, <1>4

-----------------------------------------------------------------------------
(* The machine of a program: its memory.                                   *)

Contenido(p, u) ==
    [a \in 1 .. Len(p) * TamPagina |->
        u[p[(a - 1) \div TamPagina + 1] * TamPagina + ((a - 1) % TamPagina) + 1]]

\* Bytes of the user memory, as many as the pages have.
LEMMA ContenidoDa ==
    ASSUME NEW p \in Seq(Marcos), NEW u \in Usuario
    PROVE  /\ Len(p) * TamPagina \in Nat /\ Contenido(p, u) \in Seq(Byte)
           /\ Len(Contenido(p, u)) = Len(p) * TamPagina
           /\ DOMAIN Contenido(p, u) = 1 .. Len(p) * TamPagina
<1>1. /\ Len(p) \in Nat /\ TamPagina \in Nat \ {0} /\ CantMarcos \in Nat
      /\ \A k \in 1 .. Len(p) : p[k] \in Marcos
  BY PotenciaDa, LenProperties, ElementOfSeq
<1>2. Len(p) * TamPagina \in Nat /\ CantMarcos * TamPagina \in Nat
  <2>1. Len(p) * TamPagina \in Nat
    BY <1>1, Producto
  <2>2. CantMarcos * TamPagina \in Nat
    BY <1>1, Producto
  <2> QED
    BY <2>1, <2>2
<1>3. ASSUME NEW m \in Marcos, NEW x \in 0 .. TamPagina - 1
      PROVE  m * TamPagina + x + 1 \in 1 .. CantMarcos * TamPagina
  <2>1. m \in Nat /\ m + 1 <= CantMarcos
    BY <1>1 DEF Marcos
  <2>2. CantMarcos = (m + 1) + (CantMarcos - (m + 1)) /\ CantMarcos - (m + 1) \in Nat
    BY <1>1, <2>1
  <2>3. (CantMarcos - (m + 1)) * TamPagina \in Nat
    BY <1>1, <2>2, Producto
  <2>4. ((m + 1) + (CantMarcos - (m + 1))) * TamPagina
            = (m * TamPagina + TamPagina) + (CantMarcos - (m + 1)) * TamPagina
    BY <1>1, <2>1
  <2>5. CantMarcos * TamPagina = (m * TamPagina + TamPagina) + (CantMarcos - (m + 1)) * TamPagina
    BY <2>2, <2>4
  <2>6. m * TamPagina \in Nat
    BY <1>1, <2>1, Producto
  <2> QED
    BY <1>1, <1>2, <2>3, <2>5, <2>6, SMTT(60)
<1>4. ASSUME NEW a \in 1 .. Len(p) * TamPagina
      PROVE  u[p[(a - 1) \div TamPagina + 1] * TamPagina + ((a - 1) % TamPagina) + 1] \in Byte
  <2> DEFINE q == (a - 1) \div TamPagina
             x == (a - 1) % TamPagina
  <2>1. a - 1 \in Nat /\ a - 1 \in Int /\ a - 1 < Len(p) * TamPagina
    BY <1>2
  <2>2. q \in Nat /\ x \in 0 .. TamPagina - 1
    BY <1>1, <2>1, Resto
  <2>3. q < Len(p)
    BY <1>1, <2>1, Cociente
  <2> HIDE DEF q, x
  <2>4. p[q + 1] \in Marcos
    BY <1>1, <2>2, <2>3
  <2>5. p[q + 1] * TamPagina + x + 1 \in 1 .. CantMarcos * TamPagina
    BY <1>3, <2>2, <2>4
  <2> QED
    BY <2>5 DEF Usuario, Tira, q, x
<1>5. Contenido(p, u) \in [1 .. Len(p) * TamPagina -> Byte]
  BY <1>4 DEF Contenido
<1> QED
  BY <1>2, <1>5

\* The memory of the process, address by address.
LEMMA PropiaDa ==
    ASSUME TablaOK, usuario \in Usuario
    PROVE  /\ Propia = Contenido(pages, usuario)
           /\ Propia \in Seq(Byte) /\ Len(Propia) = Memoria /\ DOMAIN Propia = 1 .. Memoria
           /\ \A a \in Nat : a < Memoria => Propia[a + 1] = usuario[Fis(a) + 1]
<1>1. Propia = Contenido(pages, usuario)
  BY Zenon DEF Propia, Contenido, direccion_fisica
<1>2. Propia \in Seq(Byte) /\ Len(Propia) = Memoria /\ DOMAIN Propia = 1 .. Memoria
      /\ Memoria \in Nat
  BY <1>1, ContenidoDa DEF TablaOK, Memoria
<1>3. ASSUME NEW a \in Nat, a < Memoria PROVE Propia[a + 1] = usuario[Fis(a) + 1]
  <2>1. a + 1 \in 1 .. Memoria /\ (a + 1) - 1 = a
    BY <1>2, <1>3
  <2>2. \A k \in 1 .. Memoria : Propia[k] = usuario[Fis(k - 1) + 1]
    BY DEF Propia, Fis, Memoria
  <2>3. Propia[a + 1] = usuario[Fis((a + 1) - 1) + 1]
    BY <2>1, <2>2
  <2> QED
    BY <2>1, <2>3
<1> QED
  BY <1>1, <1>2, <1>3

\* The ranges the machine speaks of.
LEMMA Rangos ==
    ASSUME CpuInv, NEW d \in 0 .. M - 1, NEW n \in 0 .. M - 1
    PROVE  /\ Abstracta!Contiene(d, n) <=> Entra(d, n)
           /\ Abstracta!Desborda(d, n) <=> Desborda(d, n)
           /\ \A f : Rango(f, d, n) => Abstracta!Parte(d, n) = leer_memoria(f)
<1>1. TablaOK /\ usuario \in Usuario
  BY InvDa
<1>2. Propia \in Seq(Byte) /\ Len(Propia) = Memoria /\ Memoria \in Nat /\ d \in Nat /\ n \in Nat
      /\ \A a \in Nat : a < Memoria => Propia[a + 1] = usuario[Fis(a) + 1]
  BY <1>1, PropiaDa, TablaDa DEF Memoria
<1>3. Abstracta!Contiene(d, n) <=> Entra(d, n)
  BY <1>2 DEF Abstracta!Contiene, Entra
<1>4. Abstracta!Desborda(d, n) <=> Desborda(d, n)
  BY <1>2, Palabras DEF Abstracta!Desborda, Desborda, Desp
<1>5. ASSUME NEW f, Rango(f, d, n) PROVE Abstracta!Parte(d, n) = leer_memoria(f)
  <2>1. leer_memoria(f) = [k \in 1 .. n |-> usuario[Fis(d + (k - 1)) + 1]]
    BY <1>1, <1>5, LeeDa
  <2>2. d + n <= Memoria
    BY <1>5 DEF Rango
  <2> DEFINE b == SubSeq(Propia, d + 1, d + n)
  <2>3. b \in Seq(Byte) /\ Len(b) = n /\ \A k \in 1 .. n : b[k] = Propia[d + k]
    <3>1. d + 1 \in Int /\ d + n \in Int
      BY <1>2
    <3>2. CASE n = 0
      <4>1. d + 1 > d + n
        BY <1>2, <3>2
      <4>2. b = <<>>
        BY <1>2, <3>1, <4>1
      <4> HIDE DEF b
      <4> QED
        BY <3>2, <4>2, EmptySeq
    <3>3. CASE n # 0
      <4>1. d + 1 \in 1 .. Len(Propia) /\ d + n \in 1 .. Len(Propia) /\ d + 1 <= d + n
        BY <1>2, <2>2, <3>3
      <4>2. b \in Seq(Byte) /\ Len(b) = n
        BY <1>2, <4>1
      <4>3. ASSUME NEW k \in 1 .. n PROVE b[k] = Propia[d + k]
        <5>1. k \in 1 .. (d + n) - (d + 1) + 1
          BY <1>2
        <5>2. b[k] = Propia[(d + 1) + k - 1]
          BY <1>2, <4>1, <5>1
        <5>3. (d + 1) + k - 1 = d + k
          BY <1>2
        <5> QED
          BY <5>2, <5>3
      <4> QED
        BY <4>2, <4>3
    <3> QED
      BY <3>2, <3>3
  <2> HIDE DEF b
  <2>4. ASSUME NEW k \in 1 .. n PROVE b[k] = usuario[Fis(d + (k - 1)) + 1]
    <3>1. d + (k - 1) \in Nat /\ d + (k - 1) < Memoria /\ (d + (k - 1)) + 1 = d + k
      BY <1>2, <2>2
    <3>2. Propia[(d + (k - 1)) + 1] = usuario[Fis(d + (k - 1)) + 1]
      BY <1>2, <3>1
    <3> QED
      BY <2>3, <3>1, <3>2
  <2>5. b = [k \in 1 .. n |-> b[k]]
    BY <2>3
  <2>6. b = leer_memoria(f)
    BY <2>1, <2>4, <2>5
  <2> QED
    BY <2>6 DEF b, Abstracta!Parte
<1> QED
  BY <1>3, <1>4, <1>5

\* What is written in a range is in the range of the memory, and the rest of
\* it stays.
LEMMA CambiaDa ==
    ASSUME CpuInv, NEW f, NEW d, NEW n, Rango(f, d, n), NEW b \in Seq(Byte), Len(b) >= n,
           usuario' = escribir_memoria(b, f), pages' = pages
    PROVE  /\ Abstracta!Cambia(d, n)
           /\ \A k \in 1 .. n : Propia'[d + k] = b[k]
           /\ Len(b) = n => SubSeq(Propia', d + 1, d + n) = b
<1>1. TablaOK /\ usuario \in Usuario /\ Distintas
  BY InvDa
<1>2. /\ usuario' \in Usuario
      /\ \A a \in Reales : (\A j \in 1 .. n : Fis(d + (j - 1)) # a)
                                    => usuario'[a + 1] = usuario[a + 1]
      /\ \A j \in 1 .. n : usuario'[Fis(d + (j - 1)) + 1] = b[j]
  <2> DEFINE u == escribir_memoria(b, f)
  <2>1. /\ u \in Usuario
        /\ \A a \in Reales : (\A j \in 1 .. n : Fis(d + (j - 1)) # a)
                                    => u[a + 1] = usuario[a + 1]
        /\ \A j \in 1 .. n : u[Fis(d + (j - 1)) + 1] = b[j]
    BY <1>1, EscribeDa
  <2>2. usuario' = u
    OBVIOUS
  <2> HIDE DEF u
  <2> QED
    BY <2>1, <2>2
<1>3. /\ Propia \in Seq(Byte) /\ Len(Propia) = Memoria /\ DOMAIN Propia = 1 .. Memoria
      /\ \A a \in Nat : a < Memoria => Propia[a + 1] = usuario[Fis(a) + 1]
      /\ Memoria \in Nat /\ d \in Nat /\ n \in Nat /\ d + n <= Memoria
  BY <1>1, PropiaDa, TablaDa DEF Rango, Memoria
<1> DEFINE w == usuario'
           c == Contenido(pages, w)
<1>4. Propia' = c
  BY Zenon DEF Propia, Contenido, direccion_fisica
<1>5. /\ c \in Seq(Byte) /\ Len(c) = Memoria /\ DOMAIN c = 1 .. Memoria
  BY <1>1, <1>2, ContenidoDa DEF TablaOK, Memoria
<1>6. ASSUME NEW a \in Nat, a < Memoria PROVE c[a + 1] = w[Fis(a) + 1]
  <2>1. a + 1 \in 1 .. Memoria /\ (a + 1) - 1 = a
    BY <1>3, <1>6
  <2>2. \A k \in 1 .. Memoria : c[k] = w[Fis(k - 1) + 1]
    BY DEF Contenido, Fis, Memoria, direccion_fisica
  <2> HIDE DEF c, w
  <2>3. c[a + 1] = w[Fis((a + 1) - 1) + 1]
    BY <2>1, <2>2
  <2> QED
    BY <2>1, <2>3
<1>7. /\ w \in Usuario
      /\ \A a \in Reales : (\A j \in 1 .. n : Fis(d + (j - 1)) # a) => w[a + 1] = usuario[a + 1]
      /\ \A j \in 1 .. n : w[Fis(d + (j - 1)) + 1] = b[j]
  BY <1>2
<1> HIDE DEF c, w
<1>8. ASSUME NEW k \in 1 .. n PROVE c[d + k] = b[k]
  <2>1. d + (k - 1) \in Nat /\ d + (k - 1) < Memoria /\ (d + (k - 1)) + 1 = d + k
    BY <1>3
  <2>2. c[(d + (k - 1)) + 1] = w[Fis(d + (k - 1)) + 1]
    BY <1>6, <2>1
  <2> QED
    BY <1>7, <2>1, <2>2
<1>9. ASSUME NEW k \in 1 .. Memoria, k - 1 \notin d .. d + n - 1 PROVE c[k] = Propia[k]
  <2>1. k - 1 \in Nat /\ k - 1 < Memoria /\ (k - 1) + 1 = k
    BY <1>3
  <2>2. ASSUME NEW j \in 1 .. n PROVE Fis(d + (j - 1)) # Fis(k - 1)
    <3>1. d + (j - 1) \in Nat /\ d + (j - 1) < Memoria
      BY <1>3
    <3>2. d + (j - 1) # k - 1
      BY <1>3, <1>9, <2>1
    <3> QED
      BY <1>1, <2>1, <3>1, <3>2, FisInyectiva
  <2>3. Fis(k - 1) \in Reales
    BY <1>1, <2>1, FisDa DEF Memoria
  <2>4. w[Fis(k - 1) + 1] = usuario[Fis(k - 1) + 1]
    BY <1>7, <2>2, <2>3
  <2>5. c[(k - 1) + 1] = w[Fis(k - 1) + 1]
    BY <1>6, <2>1
  <2>6. Propia[(k - 1) + 1] = usuario[Fis(k - 1) + 1]
    BY <1>3, <2>1
  <2> QED
    BY <2>1, <2>4, <2>5, <2>6
<1>10. Abstracta!Cambia(d, n)
  BY <1>3, <1>4, <1>5, <1>9, Palabras DEF Abstracta!Cambia
<1>11. ASSUME Len(b) = n PROVE SubSeq(c, d + 1, d + n) = b
  <2> DEFINE x == Bytes(c, d, n)
  <2>1. c \in Tira(Byte, Memoria)
    BY <1>3, <1>5 DEF Tira
  <2>2. x \in Tira(Byte, n) /\ \A k \in 1 .. n : x[k] = c[d + k]
    <3>1. d \in Nat /\ n \in Nat /\ Memoria \in Nat /\ d + n <= Memoria
      BY <1>3
    <3>2. Bytes(c, d, n) \in Tira(Byte, n) /\ \A k \in 1 .. n : Bytes(c, d, n)[k] = c[d + k]
      <4> HIDE DEF Memoria
      <4> QED
        BY <2>1, <3>1, BytesDa
    <3> QED
      BY <3>2
  <2>3. x = SubSeq(c, d + 1, d + n)
    BY DEF Bytes
  <2> HIDE DEF x
  <2>4. x \in Seq(Byte) /\ Len(x) = n
    BY <1>3, <2>2 DEF Tira
  <2>5. \A k \in 1 .. n : x[k] = b[k]
    BY <1>8, <2>2
  <2>6. x = b
    BY <1>11, <2>4, <2>5, SeqEqual
  <2> QED
    BY <2>3, <2>6
<1> QED
  BY <1>4, <1>8, <1>10, <1>11

\* A memory nobody wrote in.
LEMMA PropiaIgual ==
    ASSUME UNCHANGED <<pages, usuario>>
    PROVE  Propia' = Propia
BY Zenon DEF Propia, direccion_fisica

-----------------------------------------------------------------------------
(* The machine of a program: its requests.                                 *)

\* The addresses and the request, of any page table.
DirDe(p, x) ==
    ((CHOOSE k \in DOMAIN p : p[k] = x \div TamPagina) - 1) * TamPagina + (x % TamPagina)
DirsDe(p, f) == [k \in 1 .. Total(f) |-> DirDe(p, Direcciones(f)[k])]
PedidoDe(p, i) ==
    [op |-> i.op, interfaz |-> i.interfaz,
     dirs |-> IF Excede(i.frames) THEN <<>> ELSE DirsDe(p, i.frames),
     desborda |-> Excede(i.frames)]

\* The request before and after a step is that of the page table.
LEMMA PedidoDa ==
    /\ \A f : Dirs(f) = DirsDe(pages, f)
    /\ Pedido = PedidoDe(pages, io)
    /\ Pedido' = PedidoDe(pages', io')
<1>1. \A f : Dirs(f) = DirsDe(pages, f)
  BY Zenon DEF Dirs, DirsDe, DirLogica, DirDe
<1>2. Pedido = PedidoDe(pages, io)
  BY <1>1, Zenon DEF Pedido, PedidoDe
<1>3. Pedido' = PedidoDe(pages', io')
  BY Zenon DEF Pedido, PedidoDe, Dirs, DirsDe, DirLogica, DirDe
<1> QED
  BY <1>1, <1>2, <1>3

\* The addresses the program meant.
LEMMA DirsDa ==
    ASSUME TablaOK, Distintas, NEW f, NEW d, NEW n, Rango(f, d, n)
    PROVE  DirsDe(pages, f) = [k \in 1 .. n |-> d + k - 1]
<1>1. d \in Nat /\ n \in Nat /\ d + n <= Memoria /\ Memoria \in Nat
  BY TablaDa DEF Rango, Memoria
<1>2. Direcciones(f) = Seguidas(d, n)
  BY DEF Rango
<1>3. Len(Seguidas(d, n)) = n /\ \A k \in 1 .. n : Seguidas(d, n)[k] = Fis(d + (k - 1))
  BY <1>1, SeguidasDa
<1>4. ASSUME NEW k \in 1 .. n PROVE DirDe(pages, Direcciones(f)[k]) = d + k - 1
  <2>1. d + (k - 1) \in Nat /\ d + (k - 1) < Memoria /\ d + (k - 1) = d + k - 1
    BY <1>1
  <2>2. DirLogica(Fis(d + (k - 1))) = d + (k - 1)
    BY <2>1, FisInyectiva
  <2>3. DirLogica(Fis(d + (k - 1))) = DirDe(pages, Fis(d + (k - 1)))
    BY Zenon DEF DirLogica, DirDe
  <2> QED
    BY <1>2, <1>3, <2>1, <2>2, <2>3
<1> QED
  BY <1>2, <1>3, <1>4 DEF DirsDe, Total

\* No request, whatever the page table.
LEMMA PedidoNada ==
    \A p : PedidoDe(p, SinIo) = Abstracta!SinPedido
<1> SUFFICES ASSUME NEW p PROVE PedidoDe(p, SinIo) = Abstracta!SinPedido
  OBVIOUS
<1>1. SinIo.frames = <<>> /\ SinIo.op = "" /\ SinIo.interfaz = ""
  BY DEF SinIo
<1>2. ~Excede(<<>>) /\ Total(<<>>) = 0
  <2>1. Direcciones(<<>>) = <<>>
    BY DireccionesDa
  <2> QED
    BY <2>1, EmptySeq DEF Excede, Total
<1>3. DirsDe(p, <<>>) = <<>>
  BY <1>2 DEF DirsDe
<1>4. PedidoDe(p, SinIo) = [op |-> SinIo.op, interfaz |-> SinIo.interfaz,
                           dirs |-> IF Excede(SinIo.frames) THEN <<>>
                                    ELSE DirsDe(p, SinIo.frames),
                           desborda |-> Excede(SinIo.frames)]
  BY Zenon DEF PedidoDe
<1>5. Excede(SinIo.frames) = FALSE /\ DirsDe(p, SinIo.frames) = <<>>
  <2>1. ~Excede(SinIo.frames)
    BY <1>1, <1>2
  <2>2. Excede(SinIo.frames) = FALSE
    BY <2>1 DEF Excede
  <2>3. DirsDe(p, SinIo.frames) = <<>>
    BY <1>1, <1>3
  <2> QED
    BY <2>2, <2>3
<1>6. PedidoDe(p, SinIo) = [op |-> "", interfaz |-> "", dirs |-> <<>>, desborda |-> FALSE]
  BY <1>1, <1>4, <1>5, Zenon
<1> QED
  BY <1>6, Zenon DEF Abstracta!SinPedido


-----------------------------------------------------------------------------
(* Each step is one of the machine of the program.                         *)

\* A line of the CPU is that line of the machine.
LEMMA LineaMaquina ==
    ASSUME CpuInv, NEW ops, Decodifica(ops)
    PROVE  /\ Abstracta!Ejecuta(ops) /\ Abstracta!Completa /\ Abstracta!Linea = Linea
           /\ estado = "RUNNING" /\ io = SinIo /\ Linea[1] \in ops
           /\ Palabra(1) = Linea[2] /\ Palabra(2) = Linea[3]
           /\ Palabra(3) = Linea[4] /\ Palabra(4) = Linea[5]
<1>1. estado = "RUNNING" /\ pc < Len(file) /\ Linea[1] \in ops /\ Completa
  BY DEF Decodifica
<1>2. Abstracta!Ejecuta(ops) /\ Abstracta!Completa /\ Abstracta!Linea = Linea
  BY <1>1, Avance
<1>3. io = SinIo
  BY LineaDa
<1>4. /\ Palabra(1) = Linea[2] /\ Palabra(2) = Linea[3]
      /\ Palabra(3) = Linea[4] /\ Palabra(4) = Linea[5]
  BY DEF Palabra
<1> QED
  BY <1>1, <1>2, <1>3, <1>4

\* Its result.
LEMMA SigueDa ==
    ASSUME NEW result, Resultado(result)
    PROVE  Abstracta!Sigue(result)
BY DEF Resultado, Abstracta!Sigue

\* Nothing is asked.
LEMMA SinDa ==
    ASSUME io = SinIo, SinSalida
    PROVE  Pedido' = Pedido /\ Abstracta!Sin
<1>1. io' = SinIo /\ UNCHANGED <<file, salida>>
  BY DEF SinSalida
<1>2. Pedido = Abstracta!SinPedido
  BY PedidoDa, PedidoNada
<1>3. Pedido' = PedidoDe(pages', SinIo)
  BY <1>1, PedidoDa
<1>4. Pedido' = Abstracta!SinPedido
  BY <1>3, PedidoNada
<1> QED
  BY <1>1, <1>2, <1>4 DEF Abstracta!Sin

\* The program ends.
LEMMA TerminaDa ==
    ASSUME io = SinIo, SinSalida, NEW e, estado' = e
    PROVE  Abstracta!Termina(e)
BY SinDa DEF Abstracta!Termina, Abstracta!Sin

\* The program ends by itself, or a kill was there.
LEMMA TerminaMaquina ==
    ASSUME io = SinIo, SinSalida, NEW e, e # "RUNNING", Resultado(e)
    PROVE  Abstracta!Termina(e) \/ Abstracta!Termina("TERMINATED_USER")
<1>1. estado' = e \/ estado' = "TERMINATED_USER"
  BY DEF Resultado
<1> QED
  BY <1>1, TerminaDa

\* A sum or a difference and a remainder in it.
LEMMA SumaResto ==
    ASSUME NEW m \in Nat \ {0}, NEW a \in Int, NEW c \in Int
    PROVE  /\ ((a + (c % m)) % m) = ((a + c) % m)
           /\ ((a - (c % m)) % m) = ((a - c) % m)
<1> DEFINE q == c \div m
           r == c % m
           q1 == (a + r) \div m
           r1 == (a + r) % m
           q2 == (a - r) \div m
           r2 == (a - r) % m
<1>1. q \in Int /\ r \in 0 .. m - 1 /\ c = q * m + r
  BY Resto
<1>2. a + r \in Int /\ a - r \in Int
  BY <1>1
<1>3. q1 \in Int /\ r1 \in 0 .. m - 1 /\ a + r = q1 * m + r1
  BY <1>2, Resto
<1>4. q2 \in Int /\ r2 \in 0 .. m - 1 /\ a - r = q2 * m + r2
  BY <1>2, Resto
<1> HIDE DEF q, r, q1, r1, q2, r2
<1>5. a + c = (q + q1) * m + r1
  <2>1. (q + q1) * m = q * m + q1 * m
    BY <1>1, <1>3
  <2>2. q * m \in Int /\ q1 * m \in Int
    BY <1>1, <1>3
  <2> QED
    BY <1>1, <1>3, <2>1, <2>2
<1>6. a - c = (q2 - q) * m + r2
  <2>1. (q2 - q) * m = q2 * m - q * m
    BY <1>1, <1>4
  <2>2. q * m \in Int /\ q2 * m \in Int
    BY <1>1, <1>4
  <2> QED
    BY <1>1, <1>4, <2>1, <2>2
<1>7. ((a + c) % m) = r1
  <2>1. q + q1 \in Int
    BY <1>1, <1>3
  <2> QED
    BY <1>3, <1>5, <2>1, Division, SMTT(60)
<1>8. ((a - c) % m) = r2
  <2>1. q2 - q \in Int
    BY <1>1, <1>4
  <2> QED
    BY <1>4, <1>6, <2>1, Division, ZenonT(90)
<1> QED
  BY <1>7, <1>8 DEF r, r1, r2

\* SET.
LEMMA SetMaquina ==
    ASSUME CpuInv, Set
    PROVE  Abstracta!Calculo
<1>1. /\ Decodifica({"SET"}) /\ Resultado("RUNNING") /\ SinSalida /\ UNCHANGED memVars
      /\ registers' = update_register(regs, Palabra(1), sizeof_register(Palabra(1)),
                                      atouint(Palabra(2)))
  BY DEF Set
<1>2. /\ Abstracta!Ejecuta({"SET"}) /\ Abstracta!Completa /\ Abstracta!Linea = Linea
      /\ io = SinIo /\ Linea[1] = "SET" /\ Palabra(1) = Linea[2] /\ Palabra(2) = Linea[3]
  BY <1>1, LineaMaquina
<1>3. Abstracta!Ejecuta({"SET", "SUM", "SUB"})
  BY <1>2 DEF Abstracta!Ejecuta
<1>4. atouint(Palabra(2)) \in Int
  <2>1. atouint(Numero(Linea)) \in 0 .. M - 1
    BY <1>1, LineaDa
  <2>2. Numero(Linea) = Palabra(2)
    BY <1>2 DEF Numero
  <2> QED
    BY <2>1, <2>2
<1>5. Abstracta!Pon(Linea[2], Abstracta!Literal(Linea[3]))
  <2>1. Abstracta!Pon(Palabra(1), atouint(Palabra(2)))
    BY <1>1, <1>4, PonDa
  <2> QED
    BY <1>2, <2>1, Palabras
<1>6. Abstracta!Sigue("RUNNING") /\ Abstracta!Sin /\ Propia' = Propia
  BY <1>1, <1>2, SigueDa, SinDa, PropiaIgual DEF memVars
<1> QED
  BY <1>2, <1>3, <1>5, <1>6 DEF Abstracta!Calculo

\* SUM and SUB: between bytes the low byte of the source is enough.
LEMMA SumSubMaquina ==
    ASSUME CpuInv, SumSub
    PROVE  Abstracta!Calculo
<1> DEFINE a == Palabra(1)
           o == Palabra(2)
           n == sizeof_register(a)
           s == IF Linea[1] = "SUM" THEN 1 ELSE -1
           x == Reg(a)
           y == Reg(o)
           b == IF n = 1 THEN Registro(regs, o, 1) ELSE y
           w == IF Linea[1] = "SUM" THEN x + y ELSE x - y
<1>1. /\ Decodifica({"SUM", "SUB"}) /\ Resultado("RUNNING") /\ SinSalida /\ UNCHANGED memVars
      /\ registers' = update_register(regs, a, n, x + s * b)
  <2>1. x = Registro(regs, a, n) /\ y = get_normaliced_register(regs, o)
    BY Zenon DEF get_normaliced_register, Reg
  <2>2. /\ Decodifica({"SUM", "SUB"}) /\ Resultado("RUNNING") /\ SinSalida /\ UNCHANGED memVars
        /\ registers' = update_register(regs, a, n, Registro(regs, a, n) + s *
                (IF n = 1 THEN Registro(regs, o, 1) ELSE get_normaliced_register(regs, o)))
    BY DEF SumSub, operation_register
  <2> HIDE DEF x, y, s
  <2> QED
    BY <2>1, <2>2
<1>2. /\ Abstracta!Ejecuta({"SUM", "SUB"}) /\ Abstracta!Completa /\ Abstracta!Linea = Linea
      /\ io = SinIo /\ Linea[1] \in {"SUM", "SUB"} /\ a = Linea[2] /\ o = Linea[3]
  BY <1>1, LineaMaquina
<1>3. Abstracta!Ejecuta({"SET", "SUM", "SUB"})
  BY <1>2 DEF Abstracta!Ejecuta
<1>4. regs \in Archivo /\ x \in Int /\ y \in Int /\ Registro(regs, o, 1) = (y % Base)
      /\ Base \in Nat \ {0} /\ Potencia[1] = Base
  <2>1. regs \in Archivo /\ x \in 0 .. M - 1 /\ y \in 0 .. M - 1
    BY InvDa
  <2>2. Registro(regs, o, 1) = (get_normaliced_register(regs, o) % Base)
    BY <2>1, RegistroDa
  <2>3. y = get_normaliced_register(regs, o)
    BY Zenon DEF Reg
  <2> HIDE DEF x, y
  <2>4. x \in Int /\ y \in Int /\ Registro(regs, o, 1) = (y % Base)
    BY <2>1, <2>2, <2>3
  <2> QED
    BY <2>1, <2>4, PotenciaDa, MDa
<1>5. n = 1 \/ b = y
  OBVIOUS
<1>6. x + s * b = (IF Linea[1] = "SUM" THEN x + b ELSE x - b) /\ b \in Int
  <2>1. b \in Int
    <3>1. (y % Base) \in Int
      BY <1>4, Resto
    <3> QED
      BY <1>4, <3>1
  <2> HIDE DEF x, b
  <2>2. CASE Linea[1] = "SUM"
    BY <1>4, <2>1, <2>2
  <2>3. CASE Linea[1] # "SUM"
    BY <1>4, <2>1, <2>3
  <2> QED
    BY <2>1, <2>2, <2>3
<1> DEFINE e == x + s * b
<1>7. e \in Int /\ w \in Int
  <2> HIDE DEF x, y, b, s
  <2> QED
    BY <1>4, <1>6
<1>8. (e % Potencia[n]) = (w % Potencia[n])
  <2>1. CASE n = 1
    <3>1. b = (y % Base)
      BY <1>4, <2>1
    <3> HIDE DEF x, y, b, s
    <3>2. CASE Linea[1] = "SUM"
      <4>1. e = x + (y % Base) /\ w = x + y
        BY <1>6, <3>1, <3>2
      <4>2. ((x + (y % Base)) % Base) = ((x + y) % Base)
        BY <1>4, SumaResto
      <4> HIDE DEF e, w, n
      <4> QED
        BY <1>4, <2>1, <4>1, <4>2
    <3>3. CASE Linea[1] # "SUM"
      <4>1. e = x - (y % Base) /\ w = x - y
        BY <1>6, <3>1, <3>3
      <4>2. ((x - (y % Base)) % Base) = ((x - y) % Base)
        BY <1>4, SumaResto
      <4> HIDE DEF e, w, n
      <4> QED
        BY <1>4, <2>1, <4>1, <4>2
    <3> QED
      BY <3>2, <3>3
  <2>2. CASE n # 1
    <3>1. b = y
      BY <2>2
    <3> HIDE DEF x, y, b, s
    <3>2. e = w
      BY <1>6, <3>1
    <3> QED
      BY <3>2
  <2> QED
    BY <2>1, <2>2
<1> HIDE DEF x, y, b, s
<1>9. Abstracta!Pon(a, w)
  <2> HIDE DEF e, w
  <2>1. \A q : get_normaliced_register(update_register(regs, a, sizeof_register(a), e), q) =
                        IF Nom(q) = Nom(a) THEN e % Potencia[sizeof_register(a)]
                        ELSE get_normaliced_register(regs, q)
    BY <1>4, <1>7, ActualizaRegistro
  <2>2. registers' = update_register(regs, a, sizeof_register(a), e)
    BY <1>1 DEF e
  <2>3. \A q : get_normaliced_register(registers', q) =
                        IF Nom(q) = Nom(a) THEN w % Potencia[sizeof_register(a)]
                        ELSE get_normaliced_register(regs, q)
    BY <1>8, <2>1, <2>2
  <2> QED
    BY <2>3, PonNombre
<1>10. x = Abstracta!Val(a) /\ y = Abstracta!Val(o)
  BY Avance DEF x, y
<1>11. \/ Linea[1] = "SUM" /\ Abstracta!Pon(Linea[2], Abstracta!Val(Linea[2]) + Abstracta!Val(Linea[3]))
       \/ Linea[1] = "SUB" /\ Abstracta!Pon(Linea[2], Abstracta!Val(Linea[2]) - Abstracta!Val(Linea[3]))
  <2>1. CASE Linea[1] = "SUM"
    <3>1. w = x + y
      BY <2>1
    <3> QED
      BY <1>2, <1>9, <1>10, <2>1, <3>1, Zenon
  <2>2. CASE Linea[1] = "SUB"
    <3>1. w = x - y
      BY <2>2
    <3> QED
      BY <1>2, <1>9, <1>10, <2>2, <3>1, Zenon
  <2> QED
    BY <1>2, <2>1, <2>2
<1>12. Abstracta!Sigue("RUNNING") /\ Abstracta!Sin /\ Propia' = Propia
  BY <1>1, <1>2, SigueDa, SinDa, PropiaIgual DEF memVars
<1> QED
  BY <1>2, <1>3, <1>11, <1>12 DEF Abstracta!Calculo

\* JNZ.
LEMMA JnzMaquina ==
    ASSUME CpuInv, jnz_register
    PROVE  Abstracta!Jnz
<1>1. /\ Decodifica({"JNZ"}) /\ Resultado("RUNNING") /\ SinSalida /\ UNCHANGED memVars
      /\ registers' = IF Reg(Palabra(1)) = 0 THEN regs
                      ELSE update_register(regs, "PC", Ancho, atouint(Palabra(2)))
  BY DEF jnz_register
<1>2. /\ Abstracta!Ejecuta({"JNZ"}) /\ Abstracta!Completa /\ Abstracta!Linea = Linea
      /\ io = SinIo /\ Linea[1] = "JNZ" /\ Palabra(1) = Linea[2] /\ Palabra(2) = Linea[3]
  BY <1>1, LineaMaquina
<1>3. atouint(Palabra(2)) \in Int /\ sizeof_register("PC") = Ancho
  <2>1. atouint(Numero(Linea)) \in 0 .. M - 1
    BY <1>1, LineaDa
  <2>2. Numero(Linea) = Palabra(2)
    BY <1>2 DEF Numero
  <2> QED
    BY <2>1, <2>2, RegistroEnLugar
<1>4. Abstracta!Val(Linea[2]) = Reg(Palabra(1))
  BY <1>2, Avance
<1>5. IF Reg(Palabra(1)) = 0 THEN Abstracta!Avanza ELSE Abstracta!Pon("PC", atouint(Palabra(2)))
  <2>1. CASE Reg(Palabra(1)) = 0
    <3>1. registers' = regs
      BY <1>1, <2>1
    <3> QED
      BY <2>1, <3>1, PonDa
  <2>2. CASE Reg(Palabra(1)) # 0
    <3>1. registers' = update_register(regs, "PC", sizeof_register("PC"), atouint(Palabra(2)))
      BY <1>1, <1>3, <2>2
    <3> QED
      BY <1>3, <2>2, <3>1, PonDa
  <2> QED
    BY <2>1, <2>2
<1>6. IF Abstracta!Val(Linea[2]) = 0 THEN Abstracta!Avanza
      ELSE Abstracta!Pon("PC", Abstracta!Literal(Linea[3]))
  BY <1>2, <1>4, <1>5, Palabras
<1>7. Abstracta!Sigue("RUNNING") /\ Abstracta!Sin /\ Propia' = Propia
  BY <1>1, <1>2, SigueDa, SinDa, PropiaIgual DEF memVars
<1> QED
  BY <1>2, <1>6, <1>7 DEF Abstracta!Jnz


\* A translation that fails.
LEMMA NoTraduceMaquina ==
    ASSUME io = SinIo, NoTraduce
    PROVE  Abstracta!Termina("ERROR") \/ Abstracta!Termina("TERMINATED_USER")
BY TerminaMaquina DEF NoTraduce

\* MOV_OUT: the bytes of the register, in order, over as many pages as it
\* takes.
LEMMA mov_outMaquina ==
    ASSUME CpuInv, mov_out
    PROVE  Abstracta!MovOut
<1> DEFINE datos == Palabra(2)
           n == sizeof_register(datos)
           d == Reg(Palabra(1))
           t == mmu(d, n)
           b == Bytes(regs, get_register(datos), n)
<1>1. /\ Decodifica({"MOV_OUT"})
      /\ \/ t.status = "ERROR" /\ NoTraduce
         \/ /\ t.status # "ERROR" /\ usuario' = escribir_memoria(b, t.frames)
            /\ registers' = regs /\ Resultado("RUNNING") /\ SinSalida /\ UNCHANGED <<pages, bit_map>>
  BY DEF mov_out
<1>2. /\ Abstracta!Ejecuta({"MOV_OUT"}) /\ Abstracta!Completa /\ Abstracta!Linea = Linea
      /\ io = SinIo /\ Palabra(1) = Linea[2] /\ datos = Linea[3]
  BY <1>1, LineaMaquina
<1>3. TablaOK /\ regs \in Archivo /\ d \in 0 .. M - 1
  BY InvDa
<1>4. n \in 0 .. M - 1 /\ ~Desborda(d, n)
  BY <1>3, Chico
<1>5. b \in Tira(Byte, n) /\ ABytes(Reg(datos), n) = b
  <2>1. /\ Bytes(regs, get_register(datos), sizeof_register(datos)) \in Tira(Byte, sizeof_register(datos))
        /\ ABytes(get_normaliced_register(regs, datos), sizeof_register(datos))
                = Bytes(regs, get_register(datos), sizeof_register(datos))
    BY <1>3, RegistroDa
  <2>2. Reg(datos) = get_normaliced_register(regs, datos)
    BY Zenon DEF Reg
  <2> QED
    BY <2>1, <2>2
<1>6. /\ Abstracta!Val(Linea[2]) = d /\ Abstracta!Val(Linea[3]) = Reg(datos)
      /\ Abstracta!Bytes(Linea[3]) = n
  BY <1>2, Avance, Palabras
<1> HIDE DEF n, d, b, t
<1>7. Abstracta!Contiene(d, n) <=> Entra(d, n)
  BY <1>3, <1>4, Rangos
<1> DEFINE Hecho == /\ Abstracta!Cambia(d, n)
                    /\ SubSeq(Propia', d + 1, d + n) = Abstracta!ABytes(Reg(datos), n)
                    /\ Abstracta!Avanza /\ Abstracta!Sigue("RUNNING") /\ Abstracta!Sin
           Fin == Abstracta!Termina("ERROR") \/ Abstracta!Termina("TERMINATED_USER")
<1>8. ASSUME t.status = "ERROR" /\ NoTraduce
      PROVE  (Abstracta!Contiene(d, n) /\ Hecho) \/ (~Abstracta!Contiene(d, n) /\ Fin)
  <2>1. ~Entra(d, n)
    BY <1>3, <1>4, <1>8, TraduceDa DEF t
  <2>2. Fin
    BY <1>2, <1>8, NoTraduceMaquina
  <2> HIDE DEF Hecho, Fin
  <2> QED
    BY <1>7, <2>1, <2>2
<1>9. ASSUME /\ t.status # "ERROR" /\ usuario' = escribir_memoria(b, t.frames)
             /\ registers' = regs /\ Resultado("RUNNING") /\ SinSalida
             /\ UNCHANGED <<pages, bit_map>>
      PROVE  (Abstracta!Contiene(d, n) /\ Hecho) \/ (~Abstracta!Contiene(d, n) /\ Fin)
  <2>1. Rango(t.frames, d, n) /\ Entra(d, n)
    BY <1>3, <1>4, <1>9, TraduceDa DEF t
  <2>2. b \in Seq(Byte) /\ Len(b) = n /\ n \in Nat
    <3>1. n \in Nat
      BY <1>4
    <3> QED
      BY <1>5, <3>1 DEF Tira
  <2>3. Len(b) >= n
    BY <2>2
  <2>4. usuario' = escribir_memoria(b, t.frames) /\ pages' = pages
    BY <1>9
  <2>5. Abstracta!Cambia(d, n) /\ (Len(b) = n => SubSeq(Propia', d + 1, d + n) = b)
    BY <2>1, <2>2, <2>3, <2>4, CambiaDa
  <2>6. Abstracta!ABytes(Reg(datos), n) = b
    BY <1>5, Palabras
  <2>7. Abstracta!Avanza /\ Abstracta!Sigue("RUNNING") /\ Abstracta!Sin
    BY <1>2, <1>9, PonDa, SigueDa, SinDa
  <2>8. Hecho
    BY <2>2, <2>5, <2>6, <2>7
  <2> HIDE DEF Hecho, Fin
  <2> QED
    BY <1>7, <2>1, <2>8
<1>10. IF Abstracta!Contiene(d, n) THEN Hecho ELSE Fin
  <2> HIDE DEF Hecho, Fin
  <2>1. (Abstracta!Contiene(d, n) /\ Hecho) \/ (~Abstracta!Contiene(d, n) /\ Fin)
    BY <1>1, <1>8, <1>9
  <2> QED
    BY <2>1
<1> QED
  BY <1>2, <1>6, <1>10 DEF Abstracta!MovOut

\* MOV_IN: the register takes the number whose bytes are there.
LEMMA mov_inMaquina ==
    ASSUME CpuInv, mov_in
    PROVE  Abstracta!MovIn
<1> DEFINE datos == Palabra(1)
           n == sizeof_register(datos)
           d == Reg(Palabra(2))
           t == mmu(d, n)
           b == leer_memoria(t.frames)
<1>1. /\ Decodifica({"MOV_IN"})
      /\ \/ t.status = "ERROR" /\ NoTraduce
         \/ /\ t.status # "ERROR"
            /\ registers' = Sobre(regs, get_register(datos), b)
            /\ Resultado("RUNNING") /\ SinSalida /\ UNCHANGED memVars
  BY DEF mov_in
<1>2. /\ Abstracta!Ejecuta({"MOV_IN"}) /\ Abstracta!Completa /\ Abstracta!Linea = Linea
      /\ io = SinIo /\ datos = Linea[2] /\ Palabra(2) = Linea[3]
  BY <1>1, LineaMaquina
<1>3. TablaOK /\ usuario \in Usuario /\ d \in 0 .. M - 1
  BY InvDa
<1>4. n \in 0 .. M - 1 /\ ~Desborda(d, n)
  BY <1>3, Chico
<1>6. /\ Abstracta!Val(Linea[3]) = d /\ Abstracta!Bytes(Linea[2]) = n
      /\ Abstracta!Potencia[n] = Potencia[n]
  BY <1>2, Avance, Palabras
<1> HIDE DEF d, t, b
<1>7. Abstracta!Contiene(d, n) <=> Entra(d, n)
  BY <1>3, <1>4, Rangos
<1> DEFINE Hecho == /\ \E v \in 0 .. Abstracta!Potencia[n] - 1 :
                            Abstracta!ABytes(v, n) = Abstracta!Parte(d, n) /\ Abstracta!Pon(Linea[2], v)
                    /\ Abstracta!Sigue("RUNNING") /\ Abstracta!Sin /\ UNCHANGED Propia
           Fin == Abstracta!Termina("ERROR") \/ Abstracta!Termina("TERMINATED_USER")
<1>8. ASSUME t.status = "ERROR" /\ NoTraduce
      PROVE  (Abstracta!Contiene(d, n) /\ Hecho) \/ (~Abstracta!Contiene(d, n) /\ Fin)
  <2>1. ~Entra(d, n)
    BY <1>3, <1>4, <1>8, TraduceDa DEF t
  <2>2. Fin
    BY <1>2, <1>8, NoTraduceMaquina
  <2> HIDE DEF Hecho, Fin
  <2> QED
    BY <1>7, <2>1, <2>2
<1>9. ASSUME /\ t.status # "ERROR"
             /\ registers' = Sobre(regs, get_register(datos), b)
             /\ Resultado("RUNNING") /\ SinSalida /\ UNCHANGED memVars
      PROVE  (Abstracta!Contiene(d, n) /\ Hecho) \/ (~Abstracta!Contiene(d, n) /\ Fin)
  <2>1. Rango(t.frames, d, n) /\ Entra(d, n) /\ ~Excede(t.frames)
    BY <1>3, <1>4, <1>9, TraduceDa DEF t
  <2>2. Direcciones(t.frames) \in Seq(Reales)
    BY <1>3, <1>4, <2>1, TraduceDa DEF t
  <2>3. b \in Seq(Byte)
    BY <1>3, <2>2, LeeDa DEF b
  <2>4. b = [k \in 1 .. n |-> usuario[Fis(d + (k - 1)) + 1]]
    BY <1>3, <2>1, LeeDa DEF b
  <2>5. n \in Nat /\ Len(b) = n
    <3> HIDE DEF n
    <3> QED
      BY <1>4, <2>4
  <2>6. b \in Tira(Byte, n)
    BY <2>3, <2>5 DEF Tira
  <2>7. /\ Abstracta!Pon(datos, Valor(b)) /\ ABytes(Valor(b), n) = b
        /\ Valor(b) \in 0 .. Potencia[n] - 1
    BY <1>9, <2>6, PonDa
  <2>8. Abstracta!Parte(d, n) = b
    BY <1>3, <1>4, <2>1, Rangos DEF b
  <2>9. Abstracta!ABytes(Valor(b), n) = b
    BY <2>7, Palabras
  <2>10. \E v \in 0 .. Abstracta!Potencia[n] - 1 :
            Abstracta!ABytes(v, n) = Abstracta!Parte(d, n) /\ Abstracta!Pon(Linea[2], v)
    <3>1. Valor(b) \in 0 .. Abstracta!Potencia[n] - 1
      BY <1>6, <2>7
    <3> HIDE DEF n
    <3> QED
      BY <1>2, <2>7, <2>8, <2>9, <3>1
  <2>11. Abstracta!Sigue("RUNNING") /\ Abstracta!Sin /\ Propia' = Propia
    BY <1>2, <1>9, SigueDa, SinDa, PropiaIgual DEF memVars
  <2>12. Hecho
    BY <2>10, <2>11
  <2> HIDE DEF Hecho, Fin
  <2> QED
    BY <1>7, <2>1, <2>12
<1>10. IF Abstracta!Contiene(d, n) THEN Hecho ELSE Fin
  <2> HIDE DEF Hecho, Fin
  <2>1. (Abstracta!Contiene(d, n) /\ Hecho) \/ (~Abstracta!Contiene(d, n) /\ Fin)
    BY <1>1, <1>8, <1>9
  <2> QED
    BY <2>1
<1> QED
  BY <1>2, <1>6, <1>10 DEF Abstracta!MovIn


\* COPY_STRING: from one range to the other, which may overlap.
LEMMA copy_stringMaquina ==
    ASSUME CpuInv, copy_string
    PROVE  Abstracta!CopyString
<1> DEFINE n == atouint(Palabra(1))
           a == Registro(regs, "SI", Ancho)
           d == Registro(regs, "DI", Ancho)
           src == mmu(a, n)
           dst == mmu(d, n)
           leido == leer_memoria(src.frames)
           Copia == /\ dst.status # "ERROR" /\ ~Excede(src.frames \o dst.frames)
                    /\ \E resto \in [1 .. n - Len(leido) -> Byte] :
                            usuario' = escribir_memoria(leido \o resto, dst.frames)
                    /\ registers' = regs
                    /\ Resultado("RUNNING") /\ SinSalida /\ UNCHANGED <<pages, bit_map>>
<1>1. /\ Decodifica({"COPY_STRING"})
      /\ \/ dst.status = "ERROR" /\ NoTraduce
         \/ dst.status # "ERROR" /\ Excede(src.frames \o dst.frames) /\ Caida
         \/ Copia
  BY DEF copy_string
<1>2. /\ Abstracta!Ejecuta({"COPY_STRING"}) /\ Abstracta!Completa /\ Abstracta!Linea = Linea
      /\ io = SinIo /\ Palabra(1) = Linea[2] /\ Linea[1] = "COPY_STRING"
  BY <1>1, LineaMaquina
<1>3. TablaOK /\ regs \in Archivo /\ usuario \in Usuario /\ n \in 0 .. M - 1
  <2>1. atouint(Numero(Linea)) \in 0 .. M - 1
    BY <1>1, LineaDa
  <2>2. Numero(Linea) = Palabra(1)
    BY <1>2 DEF Numero
  <2> QED
    BY <2>1, <2>2, InvDa
<1>4. a \in 0 .. M - 1 /\ d \in 0 .. M - 1 /\ a = Reg("SI") /\ d = Reg("DI")
  <2>1. sizeof_register("SI") = Ancho /\ sizeof_register("DI") = Ancho
    BY DEF sizeof_register
  <2>2. a = Reg("SI") /\ d = Reg("DI")
    BY <2>1, Zenon DEF get_normaliced_register, Reg
  <2> QED
    BY <2>2, InvDa
<1>5. /\ Abstracta!Literal(Linea[2]) = n
      /\ Abstracta!Val("SI") = a /\ Abstracta!Val("DI") = d
  BY <1>2, <1>4, Avance, Palabras
<1> HIDE DEF n, a, d, src, dst, leido
<1>6. /\ Abstracta!Contiene(d, n) <=> Entra(d, n)
      /\ Abstracta!Contiene(a, n) <=> Entra(a, n)
      /\ Abstracta!Desborda(d, n) <=> Desborda(d, n)
      /\ Abstracta!Desborda(a, n) <=> Desborda(a, n)
  BY <1>3, <1>4, Rangos
<1>7. /\ src.frames \in Seq(Marco) /\ dst.frames \in Seq(Marco)
      /\ Desborda(a, n) <=> Excede(src.frames)
      /\ Desborda(d, n) <=> Excede(dst.frames)
      /\ dst.status \in {"RUNNING", "ERROR"}
      /\ dst.status = "RUNNING" <=> Entra(d, n) \/ Desborda(d, n)
  BY <1>3, <1>4, TraduceDa DEF src, dst
<1>8. Excede(src.frames \o dst.frames) <=> Excede(src.frames) \/ Excede(dst.frames)
  BY <1>7, ExcedeDos
<1> DEFINE A == Abstracta!Desborda(d, n) /\ Abstracta!Termina("caida")
           B == Abstracta!Desborda(a, n) /\ Abstracta!Contiene(d, n) /\ Abstracta!Termina("caida")
           C == /\ ~Abstracta!Desborda(a, n) /\ Abstracta!Contiene(d, n)
                /\ Abstracta!Cambia(d, n)
                /\ Abstracta!Contiene(a, n) =>
                        SubSeq(Propia', d + 1, d + n) = Abstracta!Parte(a, n)
                /\ Abstracta!Avanza /\ Abstracta!Sigue("RUNNING") /\ Abstracta!Sin
           D == /\ ~Abstracta!Contiene(d, n) /\ ~Abstracta!Desborda(d, n)
                /\ (Abstracta!Termina("ERROR") \/ Abstracta!Termina("TERMINATED_USER"))
<1>9. ASSUME dst.status = "ERROR" /\ NoTraduce PROVE D
  BY <1>2, <1>6, <1>7, <1>9, NoTraduceMaquina
<1>10. ASSUME dst.status # "ERROR" /\ Excede(src.frames \o dst.frames) /\ Caida
       PROVE  A \/ B
  <2>1. Abstracta!Termina("caida")
    BY <1>2, <1>10, TerminaDa DEF Caida
  <2> QED
    BY <1>6, <1>7, <1>8, <1>10, <2>1
<1>11. ASSUME Copia PROVE C
  <2>1. ~Desborda(a, n) /\ ~Desborda(d, n) /\ Entra(d, n)
    BY <1>7, <1>8, <1>11
  <2>2. Rango(dst.frames, d, n) /\ n \in Nat
    BY <1>3, <1>4, <2>1, TraduceDa DEF dst
  <2>3. leido \in Seq(Byte)
    <3>1. Direcciones(src.frames) \in Seq(Reales)
      BY <1>3, <1>4, <1>7, <2>1, TraduceDa DEF src
    <3> QED
      BY <1>3, <3>1, LeeDa DEF leido
  <2>4. PICK resto \in [1 .. n - Len(leido) -> Byte] :
                    usuario' = escribir_memoria(leido \o resto, dst.frames)
    BY <1>11
  <2> DEFINE b == leido \o resto
  <2>5. b \in Seq(Byte) /\ Len(b) >= n /\ (Len(leido) = n => b = leido)
    BY <2>2, <2>3, RestoDa
  <2>6. usuario' = escribir_memoria(b, dst.frames) /\ pages' = pages
    BY <1>11, <2>4
  <2> HIDE DEF b
  <2>7. Abstracta!Cambia(d, n) /\ (Len(b) = n => SubSeq(Propia', d + 1, d + n) = b)
    BY <2>2, <2>5, <2>6, CambiaDa
  <2>8. ASSUME Abstracta!Contiene(a, n)
        PROVE  SubSeq(Propia', d + 1, d + n) = Abstracta!Parte(a, n)
    <3>1. Rango(src.frames, a, n)
      BY <1>3, <1>4, <1>6, <2>8, TraduceDa DEF src
    <3>2. Abstracta!Parte(a, n) = leido
      BY <1>3, <1>4, <3>1, Rangos DEF leido
    <3>3. leido = [k \in 1 .. n |-> usuario[Fis(a + (k - 1)) + 1]]
      BY <1>3, <3>1, LeeDa DEF leido
    <3>4. Len(leido) = n
      BY <2>2, <3>3
    <3> QED
      BY <2>5, <2>7, <3>2, <3>4
  <2>9. Abstracta!Avanza /\ Abstracta!Sigue("RUNNING") /\ Abstracta!Sin
    BY <1>2, <1>11, PonDa, SigueDa, SinDa
  <2> QED
    BY <1>6, <2>1, <2>7, <2>8, <2>9
<1>12. A \/ B \/ C \/ D
  <2> HIDE DEF A, B, C, D, Copia
  <2> QED
    BY <1>1, <1>9, <1>10, <1>11
<1> QED
  BY <1>2, <1>5, <1>12 DEF Abstracta!CopyString

\* RESIZE: the pages that stay keep what is in them.
LEMMA resizeMaquina ==
    ASSUME CpuInv, resize_process
    PROVE  Abstracta!Resize
<1> DEFINE v == atouint(Palabra(1))
           n == (v + TamPagina - 1) \div TamPagina
           p == NuevaTabla(Marcos \ bit_map, n)
           c == Contenido(p, usuario)
<1>1. /\ Decodifica({"RESIZE"}) /\ pages' = p
      /\ Resultado(IF Len(pages') = n THEN "RUNNING" ELSE "ERROR_MEMORY")
      /\ registers' = regs /\ SinSalida /\ usuario' = usuario
  BY Zenon DEF resize_process, NuevaTabla
<1>2. /\ Abstracta!Ejecuta({"RESIZE"}) /\ Abstracta!Completa /\ Abstracta!Linea = Linea
      /\ io = SinIo /\ Palabra(1) = Linea[2] /\ Linea[1] = "RESIZE"
  BY <1>1, LineaMaquina
<1>3. TablaOK /\ usuario \in Usuario /\ v \in 0 .. M - 1 /\ TamPagina \in Nat \ {0}
  <2>1. atouint(Numero(Linea)) \in 0 .. M - 1
    BY <1>1, LineaDa
  <2>2. Numero(Linea) = Palabra(1)
    BY <1>2 DEF Numero
  <2> QED
    BY <2>1, <2>2, InvDa, PotenciaDa
<1>4. Abstracta!Literal(Linea[2]) = v
  BY <1>2, Palabras
<1> HIDE DEF v
<1>5. n \in Nat
  <2>1. v + TamPagina - 1 \in Nat /\ v + TamPagina - 1 \in Int
    BY <1>3
  <2> QED
    BY <1>3, <2>1, Resto
<1> DEFINE largo == TamPagina * ((v + TamPagina - 1) \div TamPagina)
<1>6. largo = n * TamPagina /\ largo \in Nat
  <2>1. largo = TamPagina * n
    OBVIOUS
  <2> HIDE DEF n, largo
  <2>2. TamPagina \in Nat
    BY <1>3
  <2>3. TamPagina * n = n * TamPagina /\ TamPagina * n \in Nat
    BY <1>5, <2>2, Producto
  <2> QED
    BY <2>1, <2>3
<1> HIDE DEF n, largo, p
<1>7. /\ p \in Seq(Marcos) /\ \A k \in DOMAIN pages \cap DOMAIN p : p[k] = pages[k]
      /\ Len(p) = n \/ (Len(p) < n /\ Len(pages) < n)
  BY <1>5, NuevaTablaDa DEF p, CpuInv, CpuTypeOK
<1>8. /\ c \in Seq(Byte) /\ Len(c) = Len(p) * TamPagina /\ DOMAIN c = 1 .. Len(p) * TamPagina
      /\ Len(p) * TamPagina \in Nat
  BY <1>3, <1>7, ContenidoDa
<1>9. /\ Propia = Contenido(pages, usuario) /\ Len(Propia) = Len(pages) * TamPagina
      /\ DOMAIN Propia = 1 .. Len(pages) * TamPagina /\ Len(pages) * TamPagina \in Nat
      /\ Len(pages) \in Nat /\ Len(p) \in Nat
  BY <1>3, <1>7, PropiaDa, TablaDa, LenProperties DEF Memoria
<1>10. Propia' = c
  BY <1>1, Zenon DEF Propia, Contenido, direccion_fisica
<1>11. ASSUME NEW a \in DOMAIN Propia \cap DOMAIN c PROVE c[a] = Propia[a]
  <2> DEFINE q == (a - 1) \div TamPagina
  <2>1. a \in 1 .. Len(pages) * TamPagina /\ a \in 1 .. Len(p) * TamPagina
    BY <1>8, <1>9
  <2>2. a - 1 \in Nat /\ a - 1 \in Int /\ a - 1 < Len(pages) * TamPagina
        /\ a - 1 < Len(p) * TamPagina
    BY <1>8, <1>9, <2>1
  <2>3. q \in Nat
    BY <1>3, <2>2, Resto
  <2>4. q < Len(pages)
    BY <1>3, <1>9, <2>2, Cociente
  <2>5. q < Len(p)
    BY <1>3, <1>9, <2>2, Cociente
  <2> HIDE DEF q
  <2>6. q + 1 \in DOMAIN pages \cap DOMAIN p
    <3>1. DOMAIN pages = 1 .. Len(pages) /\ DOMAIN p = 1 .. Len(p)
      BY <1>3, <1>7, LenProperties DEF TablaOK
    <3> QED
      BY <1>9, <2>3, <2>4, <2>5, <3>1
  <2>7. p[q + 1] = pages[q + 1]
    BY <1>7, <2>6
  <2>8. c[a] = usuario[p[q + 1] * TamPagina + ((a - 1) % TamPagina) + 1]
    BY <2>1 DEF Contenido, q
  <2>9. Propia[a] = usuario[pages[q + 1] * TamPagina + ((a - 1) % TamPagina) + 1]
    BY <1>9, <2>1 DEF Contenido, q
  <2> QED
    BY <2>7, <2>8, <2>9
<1> HIDE DEF c
<1> DEFINE Hecho == /\ Propia' \in Seq(Abstracta!Byte) /\ Len(Propia') = largo
                    /\ \A k \in DOMAIN Propia \cap DOMAIN Propia' : Propia'[k] = Propia[k]
                    /\ Abstracta!Avanza /\ Abstracta!Sigue("RUNNING") /\ Abstracta!Sin
           Falta == /\ largo > Len(Propia)
                    /\ Abstracta!Termina("ERROR_MEMORY") \/ Abstracta!Termina("TERMINATED_USER")
<1>12. ASSUME Len(p) = n PROVE Hecho
  <2>1. Propia' \in Seq(Abstracta!Byte) /\ Len(Propia') = largo
    BY <1>6, <1>8, <1>10, <1>12, Palabras
  <2>2. \A k \in DOMAIN Propia \cap DOMAIN Propia' : Propia'[k] = Propia[k]
    BY <1>10, <1>11
  <2>3. Resultado("RUNNING")
    BY <1>1, <1>12
  <2>4. Abstracta!Avanza /\ Abstracta!Sigue("RUNNING") /\ Abstracta!Sin
    BY <1>1, <1>2, <2>3, PonDa, SigueDa, SinDa
  <2> QED
    BY <2>1, <2>2, <2>4
<1>13. ASSUME Len(p) # n PROVE Falta
  <2>1. Len(pages) < n
    BY <1>7, <1>13
  <2>2. Len(pages) * TamPagina < n * TamPagina
    <3>1. n = Len(pages) + (n - Len(pages)) /\ n - Len(pages) \in Nat /\ n - Len(pages) # 0
      BY <1>5, <1>9, <2>1
    <3>2. (Len(pages) + (n - Len(pages))) * TamPagina
            = Len(pages) * TamPagina + (n - Len(pages)) * TamPagina
      BY <1>3, <1>5, <1>9
    <3>3. TamPagina <= TamPagina * (n - Len(pages))
          /\ TamPagina * (n - Len(pages)) = (n - Len(pages)) * TamPagina
      BY <1>3, <3>1, Producto
    <3>4. n * TamPagina = Len(pages) * TamPagina + (n - Len(pages)) * TamPagina
      BY <3>1, <3>2
    <3>5. (n - Len(pages)) * TamPagina \in Nat
      BY <1>3, <3>1, Producto
    <3> QED
      BY <1>3, <1>9, <3>3, <3>4, <3>5
  <2>3. Resultado("ERROR_MEMORY")
    BY <1>1, <1>13
  <2>4. Abstracta!Termina("ERROR_MEMORY") \/ Abstracta!Termina("TERMINATED_USER")
    BY <1>1, <1>2, <2>3, TerminaMaquina
  <2> QED
    BY <1>6, <1>9, <2>2, <2>4
<1>14. Hecho \/ Falta
  <2> HIDE DEF Hecho, Falta
  <2> QED
    BY <1>12, <1>13
<1> QED
  BY <1>2, <1>4, <1>14 DEF Abstracta!Resize, largo


\* WAIT and SIGNAL.
LEMMA semaphoreMaquina ==
    ASSUME CpuInv, semaphore
    PROVE  Abstracta!Semaforo
<1>1. /\ Decodifica({"WAIT", "SIGNAL"}) /\ registers' = regs /\ SinSalida /\ UNCHANGED memVars
      /\ IF Palabra(1) \notin Recursos THEN estado' = "ERROR_RESOURCE"
         ELSE Resultado(IF Linea[1] = "WAIT" THEN "BLOCKED_WAIT" ELSE "RUNNING_SIGNAL")
  BY DEF semaphore
<1>2. /\ Abstracta!Ejecuta({"WAIT", "SIGNAL"}) /\ Abstracta!Completa /\ Abstracta!Linea = Linea
      /\ io = SinIo /\ Palabra(1) = Linea[2]
  BY <1>1, LineaMaquina
<1>3. Abstracta!Avanza /\ Abstracta!Sin /\ Propia' = Propia
  BY <1>1, <1>2, PonDa, SinDa, PropiaIgual DEF memVars
<1>4. UNCHANGED <<Propia, file, Pedido, salida>>
  BY <1>3 DEF Abstracta!Sin
<1> DEFINE result == IF Linea[1] = "WAIT" THEN "BLOCKED_WAIT" ELSE "RUNNING_SIGNAL"
<1>5. IF Linea[2] \notin Recursos THEN estado' = "ERROR_RESOURCE" ELSE Abstracta!Sigue(result)
  <2>1. Resultado(result) => Abstracta!Sigue(result)
    <3> HIDE DEF result
    <3> QED
      BY SigueDa
  <2>2. IF Linea[2] \notin Recursos THEN estado' = "ERROR_RESOURCE" ELSE Resultado(result)
    BY <1>1, <1>2
  <2> HIDE DEF result
  <2> QED
    BY <2>1, <2>2
<1> QED
  BY <1>2, <1>3, <1>4, <1>5 DEF Abstracta!Semaforo

\* EXIT and a word that is no instruction.
LEMMA FinMaquina ==
    ASSUME CpuInv
    PROVE  (Exit => Abstracta!Exit) /\ (Unknown => Abstracta!Desconocida)
<1>1. ASSUME Exit PROVE Abstracta!Exit
  <2>1. Decodifica({"EXIT"}) /\ Resultado("TERMINATED") /\ SinSalida
    BY <1>1 DEF Exit
  <2>2. Abstracta!Ejecuta({"EXIT"}) /\ io = SinIo
    BY <2>1, LineaMaquina
  <2>3. Abstracta!Termina("TERMINATED") \/ Abstracta!Termina("TERMINATED_USER")
    BY <2>1, <2>2, TerminaMaquina
  <2> QED
    BY <2>2, <2>3 DEF Abstracta!Exit
<1>2. ASSUME Unknown PROVE Abstracta!Desconocida
  <2>1. Decodifica({"UNKNOWN"}) /\ NoTraduce
    BY <1>2 DEF Unknown
  <2>2. Abstracta!Ejecuta({"UNKNOWN"}) /\ io = SinIo
    BY <2>1, LineaMaquina
  <2>3. Abstracta!Termina("ERROR") \/ Abstracta!Termina("TERMINATED_USER")
    BY <2>1, <2>2, NoTraduceMaquina
  <2> QED
    BY <2>2, <2>3 DEF Abstracta!Desconocida
<1> QED
  BY <1>1, <1>2

\* The lines there is no answer to.
LEMMA CaeMaquina ==
    ASSUME CpuInv, DecodeCae \/ FetchCae
    PROVE  Abstracta!Cae
<1>1. estado = "RUNNING" /\ Caida /\ (pc >= Len(file) \/ ~Completa)
  BY DEF DecodeCae, FetchCae
<1>2. io = SinIo
  BY <1>1 DEF CpuInv
<1>3. Abstracta!Termina("caida")
  BY <1>1, <1>2, TerminaDa DEF Caida
<1>4. PorNombre["PC"] = pc /\ (Abstracta!Completa <=> Completa)
  BY Avance
<1> QED
  BY <1>1, <1>3, <1>4 DEF Abstracta!Cae

\* The program sees nothing of its registers, memory and request change when
\* nobody touches what they are made of.
LEMMA Igual ==
    ASSUME UNCHANGED <<registers, io, pages, usuario>>
    PROVE  PorNombre' = PorNombre /\ Propia' = Propia /\ Pedido' = Pedido
<1>1. PorNombre' = PorNombre
  BY Zenon DEF PorNombre
<1>2. Propia' = Propia
  BY PropiaIgual
<1>3. Pedido' = Pedido
  <2>1. Pedido = PedidoDe(pages, io) /\ Pedido' = PedidoDe(pages', io')
    BY PedidoDa
  <2>2. pages' = pages /\ io' = io
    OBVIOUS
  <2> QED
    BY <2>1, <2>2, Zenon
<1> QED
  BY <1>1, <1>2, <1>3

\* The kernel sends the process again.
LEMMA ReanudaMaquina ==
    ASSUME Reanuda
    PROVE  Abstracta!Reanuda
<1>1. /\ estado \in {"READY", "RUNNING_QUANTUM", "RUNNING_SIGNAL", "BLOCKED_WAIT"}
      /\ estado' = "RUNNING" /\ UNCHANGED <<file, salida>>
      /\ UNCHANGED <<registers, io, pages, usuario>>
  BY DEF Reanuda, memVars
<1>2. PorNombre' = PorNombre /\ Propia' = Propia /\ Pedido' = Pedido
  BY <1>1, Igual
<1> QED
  BY <1>1, <1>2 DEF Abstracta!Reanuda

\* Other processes are not there, for the program.
LEMMA AjenoMaquina ==
    ASSUME (\E m \in Disputados : Ajeno(m)) \/ UNCHANGED vars
    PROVE  UNCHANGED Abstracta!vars
<1>1. UNCHANGED <<file, estado, salida>> /\ UNCHANGED <<registers, io, pages, usuario>>
  BY DEF Ajeno, vars, cpuVars, memVars
<1>2. PorNombre' = PorNombre /\ Propia' = Propia /\ Pedido' = Pedido
  BY <1>1, Igual
<1> QED
  BY <1>1, <1>2 DEF Abstracta!vars

\* Whether a request wraps around is true or false.
LEMMA ExcedeEs == \A f : Excede(f) = TRUE \/ Excede(f) = FALSE
BY DEF Excede

\* The fields of a request.
LEMMA PedidoCampos ==
    ASSUME NEW p, NEW i
    PROVE  /\ PedidoDe(p, i).op = i.op /\ PedidoDe(p, i).interfaz = i.interfaz
           /\ PedidoDe(p, i).desborda = Excede(i.frames)
           /\ ~Excede(i.frames) => PedidoDe(p, i).dirs = DirsDe(p, i.frames)
<1> DEFINE e == Excede(i.frames)
           s == DirsDe(p, i.frames)
<1>1. PedidoDe(p, i) = [op |-> i.op, interfaz |-> i.interfaz,
                        dirs |-> IF e THEN <<>> ELSE s, desborda |-> e]
  BY Zenon DEF PedidoDe
<1>2. e = TRUE \/ e = FALSE
  BY ExcedeEs
<1> HIDE DEF e, s
<1>3. PedidoDe(p, i).op = i.op /\ PedidoDe(p, i).interfaz = i.interfaz
  BY <1>1
<1>4. PedidoDe(p, i).desborda = e
  <2>1. CASE e = TRUE
    <3>1. PedidoDe(p, i) = [op |-> i.op, interfaz |-> i.interfaz, dirs |-> <<>>,
                            desborda |-> TRUE]
      BY <1>1, <2>1, Zenon
    <3>2. PedidoDe(p, i).desborda = TRUE
      BY <3>1
    <3> QED
      BY <2>1, <3>2, Zenon
  <2>2. CASE e = FALSE
    <3>1. PedidoDe(p, i) = [op |-> i.op, interfaz |-> i.interfaz, dirs |-> s,
                            desborda |-> FALSE]
      BY <1>1, <2>2, Zenon
    <3>2. PedidoDe(p, i).desborda = FALSE
      BY <3>1
    <3> QED
      BY <2>2, <3>2, Zenon
  <2> QED
    BY <1>2, <2>1, <2>2
<1>5. ~e => PedidoDe(p, i).dirs = s
  BY <1>1
<1> QED
  BY <1>3, <1>4, <1>5, Zenon DEF e, s

\* A request with the frames of a range names its addresses.
LEMMA PideDa ==
    ASSUME CpuInv, io = SinIo, NEW f, PideIo(f), NEW dirs, NEW desborda,
           IF Excede(f) THEN dirs = <<>> /\ desborda = TRUE
                        ELSE dirs = DirsDe(pages, f) /\ desborda = FALSE
    PROVE  Abstracta!Pide(dirs, desborda)
<1>1. /\ registers' = regs /\ UNCHANGED <<file, salida>> /\ UNCHANGED memVars
      /\ IF Palabra(1) \notin DOMAIN Interfaces
         THEN estado' = "ERROR_INTERFACE" /\ UNCHANGED io
         ELSE /\ estado' = "BLOCKED_IO"
              /\ io' = [op |-> Linea[1], interfaz |-> Palabra(1), frames |-> f]
  BY DEF PideIo, Resultado
<1>2. Abstracta!Linea = Linea /\ Palabra(1) = Linea[2]
  BY Avance DEF Palabra
<1>3. Abstracta!Avanza /\ Propia' = Propia
  BY <1>1, PonDa, PropiaIgual DEF memVars
<1>4. UNCHANGED <<Propia, file, salida>>
  BY <1>1, <1>3
<1>5. ASSUME Linea[2] \notin DOMAIN Interfaces
      PROVE  estado' = "ERROR_INTERFACE" /\ UNCHANGED Pedido
  <2>1. estado' = "ERROR_INTERFACE" /\ io' = io /\ SinSalida
    BY <1>1, <1>2, <1>5 DEF SinSalida
  <2> QED
    BY <2>1, SinDa
<1>6. ASSUME Linea[2] \in DOMAIN Interfaces
      PROVE  /\ estado' = "BLOCKED_IO"
             /\ Pedido' = [op |-> Linea[1], interfaz |-> Linea[2], dirs |-> dirs,
                           desborda |-> desborda]
  <2>1. estado' = "BLOCKED_IO"
    BY <1>1, <1>2, <1>6
  <2>2. io' = [op |-> Linea[1], interfaz |-> Linea[2], frames |-> f]
    BY <1>1, <1>2, <1>6
  <2> DEFINE i == [op |-> Linea[1], interfaz |-> Linea[2], frames |-> f]
  <2>3. i.op = Linea[1] /\ i.interfaz = Linea[2] /\ i.frames = f
    OBVIOUS
  <2>4. Pedido' = PedidoDe(pages, i)
    <3>1. Pedido' = PedidoDe(pages', io') /\ pages' = pages
      BY <1>1, PedidoDa DEF memVars
    <3> QED
      BY <2>2, <3>1, Zenon
  <2> HIDE DEF i
  <2>5. PedidoDe(pages, i) = [op |-> Linea[1], interfaz |-> Linea[2],
                              dirs |-> IF Excede(f) THEN <<>> ELSE DirsDe(pages, f),
                              desborda |-> Excede(f)]
    BY <2>3, Zenon DEF PedidoDe
  <2>6. CASE Excede(f)
    <3>1. Excede(f) = TRUE
      BY <2>6, ExcedeEs
    <3> QED
      BY <2>1, <2>4, <2>5, <2>6, <3>1, Zenon
  <2>7. CASE ~Excede(f)
    <3>1. Excede(f) = FALSE
      BY <2>7, ExcedeEs
    <3> QED
      BY <2>1, <2>4, <2>5, <2>7, <3>1, Zenon
  <2> QED
    BY <2>6, <2>7
<1> QED
  BY <1>2, <1>3, <1>4, <1>5, <1>6, Zenon DEF Abstracta!Pide

\* The lines of IO without memory.
LEMMA enviar_ioMaquina ==
    ASSUME CpuInv, enviar_io
    PROVE  Abstracta!PideSinMemoria
<1> DEFINE ops == {"IO_GEN_SLEEP", "IO_FS_CREATE", "IO_FS_DELETE", "IO_FS_TRUNCATE"}
<1>1. Decodifica(ops) /\ PideIo(<<>>)
  BY DEF enviar_io
<1>2. Abstracta!Ejecuta(ops) /\ Abstracta!Completa /\ io = SinIo
  BY <1>1, LineaMaquina
<1>3. ~Excede(<<>>) /\ DirsDe(pages, <<>>) = <<>>
  <2>1. Direcciones(<<>>) = <<>>
    BY DireccionesDa
  <2>2. Total(<<>>) = 0
    BY <2>1, EmptySeq DEF Total
  <2> QED
    BY <2>2, NadaAlcanzado, InvDa DEF DirsDe
<1>4. Abstracta!Pide(<<>>, FALSE)
  BY <1>1, <1>2, <1>3, PideDa
<1> QED
  BY <1>2, <1>4 DEF Abstracta!PideSinMemoria

\* The lines of IO with memory.
LEMMA io_read_writeMaquina ==
    ASSUME CpuInv, io_read_write
    PROVE  Abstracta!PideConMemoria
<1> DEFINE fs == Linea[1] \in {"IO_FS_READ", "IO_FS_WRITE"}
           d == Reg(IF fs THEN Palabra(3) ELSE Palabra(2))
           n == Reg(IF fs THEN Palabra(4) ELSE Palabra(3))
           t == mmu(d, n)
<1>1. Decodifica(ConMemoria) /\ (IF t.status = "ERROR" THEN NoTraduce ELSE PideIo(t.frames))
  BY DEF io_read_write, ConMemoria
<1>2. /\ Abstracta!Ejecuta(ConMemoria) /\ Abstracta!Completa /\ Abstracta!Linea = Linea
      /\ io = SinIo /\ Palabra(2) = Linea[3] /\ Palabra(3) = Linea[4] /\ Palabra(4) = Linea[5]
  BY <1>1, LineaMaquina
<1>3. TablaOK /\ Distintas /\ d \in 0 .. M - 1 /\ n \in 0 .. M - 1
  BY InvDa
<1>4. /\ Abstracta!Val(IF fs THEN Linea[4] ELSE Linea[3]) = d
      /\ Abstracta!Val(IF fs THEN Linea[5] ELSE Linea[4]) = n
  <2>1. \A r : Abstracta!Val(r) = Reg(r)
    BY Avance
  <2> QED
    BY <1>2, <2>1
<1> HIDE DEF d, n, t
<1>5. /\ Abstracta!Contiene(d, n) <=> Entra(d, n)
      /\ Abstracta!Desborda(d, n) <=> Desborda(d, n)
  BY <1>3, Rangos
<1>6. /\ t.status \in {"RUNNING", "ERROR"}
      /\ t.status = "RUNNING" <=> Entra(d, n) \/ Desborda(d, n)
      /\ Desborda(d, n) <=> Excede(t.frames)
      /\ Entra(d, n) => Rango(t.frames, d, n)
  BY <1>3, TraduceDa DEF t
<1> DEFINE Esta == Abstracta!Contiene(d, n) /\ Abstracta!Pide([k \in 1 .. n |-> d + k - 1], FALSE)
           Sobra == Abstracta!Desborda(d, n) /\ Abstracta!Pide(<<>>, TRUE)
           Fuera == /\ ~Abstracta!Contiene(d, n) /\ ~Abstracta!Desborda(d, n)
                    /\ (Abstracta!Termina("ERROR") \/ Abstracta!Termina("TERMINATED_USER"))
<1>7. ASSUME t.status = "ERROR" PROVE Fuera
  <2>1. NoTraduce
    BY <1>1, <1>7
  <2>2. Abstracta!Termina("ERROR") \/ Abstracta!Termina("TERMINATED_USER")
    BY <1>2, <2>1, NoTraduceMaquina
  <2> QED
    BY <1>5, <1>6, <1>7, <2>2
<1>8. ASSUME t.status # "ERROR", Excede(t.frames) PROVE Sobra
  <2>1. PideIo(t.frames)
    BY <1>1, <1>8
  <2>2. Abstracta!Pide(<<>>, TRUE)
    BY <1>2, <1>8, <2>1, PideDa
  <2> QED
    BY <1>5, <1>6, <1>8, <2>2
<1>9. ASSUME t.status # "ERROR", ~Excede(t.frames) PROVE Esta
  <2>1. PideIo(t.frames)
    BY <1>1, <1>9
  <2>2. Entra(d, n) /\ Rango(t.frames, d, n)
    BY <1>6, <1>9
  <2>3. DirsDe(pages, t.frames) = [k \in 1 .. n |-> d + k - 1]
    BY <1>3, <2>2, DirsDa, SMTT(60)
  <2>4. Abstracta!Pide([k \in 1 .. n |-> d + k - 1], FALSE)
    BY <1>2, <1>9, <2>1, <2>3, PideDa
  <2> QED
    BY <1>5, <2>2, <2>4
<1>10. Esta \/ Sobra \/ Fuera
  <2> HIDE DEF Esta, Sobra, Fuera
  <2> QED
    BY <1>7, <1>8, <1>9
<1> QED
  BY <1>2, <1>4, <1>10 DEF Abstracta!PideConMemoria, ConMemoria


\* The requests of the machine that reach the memory, as this interface has them.
Lee == <<Tipo, io.op>> \in Abstracta!Lecturas
UsaFrames == <<Tipo, io.op>> \in Abstracta!Lecturas \cup Abstracta!Escrituras
Imprime == <<Tipo, io.op>> = <<"STDOUT", "IO_STDOUT_WRITE">>

\* What an interface does with the frames it was given, it does with the
\* addresses the program named.
LEMMA AtiendeMaquina ==
    ASSUME CpuInv, estado = "BLOCKED_IO",
           NEW e \in {"READY", "ERROR_IO", "caida"}, Responde(e),
           e = "READY" => ~Excede(io.frames) \/ ~UsaFrames,
           e = "caida" => Excede(io.frames) /\ UsaFrames,
           IF e = "READY" /\ Lee
           THEN \E buffer \in [1 .. Total(io.frames) -> Byte] :
                    usuario' = escribir_memoria(buffer, io.frames)
           ELSE usuario' = usuario,
           IF e = "READY" /\ Imprime
           THEN salida' = leer_memoria(io.frames) ELSE salida' = salida
    PROVE  Abstracta!Atiende
<1>1. /\ estado' = e /\ io' = SinIo /\ registers' = registers
      /\ UNCHANGED <<file, pages, bit_map>>
  BY DEF Responde
<1>2. TablaOK /\ Distintas /\ usuario \in Usuario
  BY InvDa
<1>3. PICK f : f = io.frames /\ Alcanzado(f)
  BY DEF CpuInv
<1>4. /\ Pedido.op = io.op /\ Pedido.interfaz = io.interfaz
      /\ Pedido.desborda = Excede(f)
      /\ ~Excede(f) => Pedido.dirs = DirsDe(pages, f)
  <2>1. Pedido = PedidoDe(pages, io)
    BY PedidoDa
  <2>2. /\ PedidoDe(pages, io).op = io.op /\ PedidoDe(pages, io).interfaz = io.interfaz
        /\ PedidoDe(pages, io).desborda = Excede(io.frames)
        /\ ~Excede(io.frames) => PedidoDe(pages, io).dirs = DirsDe(pages, io.frames)
    BY PedidoCampos
  <2> QED
    BY <1>3, <2>1, <2>2, Zenon
<1>4a. /\ Lee = (Abstracta!Trato \in Abstracta!Lecturas)
       /\ UsaFrames = (Abstracta!Trato \in Abstracta!Lecturas \cup Abstracta!Escrituras)
       /\ Imprime = (Abstracta!Trato = <<"STDOUT", "IO_STDOUT_WRITE">>)
  <2>1. Abstracta!Trato = <<Tipo, io.op>>
    BY <1>4 DEF Abstracta!Trato, Tipo
  <2> QED
    BY <2>1 DEF Lee, UsaFrames, Imprime
<1>4b. (Lee \/ Imprime) => UsaFrames
  BY DEF Lee, Imprime, UsaFrames, Abstracta!Escrituras
<1>5. /\ estado' = "READY" => \/ ~Pedido.desborda
                              \/ Abstracta!Trato \notin Abstracta!Lecturas \cup Abstracta!Escrituras
      /\ estado' = "caida" => /\ Pedido.desborda
                              /\ Abstracta!Trato \in Abstracta!Lecturas \cup Abstracta!Escrituras
  <2>1. /\ e = "READY" => ~Excede(f) \/ ~UsaFrames
        /\ e = "caida" => Excede(f) /\ UsaFrames
    BY <1>3
  <2> QED
    BY <1>1, <1>4, <1>4a, <2>1, ZenonT(90)
<1>6. Pedido' = Abstracta!SinPedido
  <2>1. Pedido' = PedidoDe(pages', SinIo)
    BY <1>1, PedidoDa
  <2> QED
    BY <2>1, PedidoNada
<1>7. Propia \in Seq(Byte) /\ DOMAIN Propia = 1 .. Memoria /\ Memoria \in Nat
      /\ \A a \in Nat : a < Memoria => Propia[a + 1] = usuario[Fis(a) + 1]
  BY <1>2, PropiaDa, TablaDa DEF Memoria
<1> DEFINE Escrita == /\ Propia' \in Seq(Abstracta!Byte) /\ Len(Propia') = Len(Propia)
                      /\ \A k \in DOMAIN Propia :
                            k - 1 \notin Abstracta!Range(Pedido.dirs) => Propia'[k] = Propia[k]
<1>8. ASSUME usuario' = usuario PROVE Propia' = Propia /\ Escrita
  <2>1. Propia' = Propia
    BY <1>1, <1>8, PropiaIgual
  <2> QED
    BY <1>7, <2>1, Palabras
<1>9. ASSUME ~Excede(f), NEW b \in [1 .. Total(f) -> Byte], usuario' = escribir_memoria(b, f)
      PROVE  Escrita
  <2>1. PICK d, n : Rango(f, d, n)
    BY <1>3, <1>9 DEF Alcanzado
  <2>2. d \in Nat /\ n \in Nat /\ Total(f) = n
    BY <1>2, <2>1, SeguidasDa DEF Rango, Total
  <2>3. b \in Seq(Byte) /\ Len(b) >= n
    BY <2>2
  <2>4. usuario' = escribir_memoria(b, f) /\ pages' = pages
    BY <1>1, <1>9
  <2>5. Abstracta!Cambia(d, n)
    BY <2>1, <2>3, <2>4, CambiaDa
  <2>6. Pedido.dirs = [k \in 1 .. n |-> d + k - 1]
    <3>1. DirsDe(pages, f) = [k \in 1 .. n |-> d + k - 1]
      BY <1>2, <2>1, DirsDa
    <3> QED
      BY <1>4, <1>9, <3>1
  <2>7. ASSUME NEW x \in d .. d + n - 1 PROVE x \in Abstracta!Range(Pedido.dirs)
    <3> DEFINE s == [k \in 1 .. n |-> d + k - 1]
    <3>1. x - d + 1 \in 1 .. n /\ d + (x - d + 1) - 1 = x
      BY <2>2
    <3>2. x - d + 1 \in DOMAIN s /\ s[x - d + 1] = x
      BY <3>1
    <3> HIDE DEF s
    <3>3. x \in Abstracta!Range(s)
      BY <3>2 DEF Abstracta!Range
    <3> QED
      BY <2>6, <3>3 DEF s
  <2> QED
    BY <2>5, <2>7 DEF Abstracta!Cambia
<1>10. IF estado' = "READY" /\ Abstracta!Trato \in Abstracta!Lecturas
       THEN Escrita ELSE UNCHANGED Propia
  <2> HIDE DEF Escrita
  <2>1. CASE e = "READY" /\ Lee
    <3>1. ~Excede(f) /\ \E buffer \in [1 .. Total(f) -> Byte] :
                            usuario' = escribir_memoria(buffer, f)
      BY <1>3, <1>4b, <2>1
    <3>2. Escrita
      BY <1>9, <3>1
    <3> QED
      BY <1>1, <1>4a, <2>1, <3>2
  <2>2. CASE ~(e = "READY" /\ Lee)
    <3>1. UNCHANGED Propia
      BY <1>8, <2>2
    <3> QED
      BY <1>1, <1>4a, <2>2, <3>1
  <2> QED
    BY <2>1, <2>2
<1>11. ASSUME ~Excede(f)
       PROVE  leer_memoria(f) = [k \in DOMAIN Pedido.dirs |-> Propia[Pedido.dirs[k] + 1]]
  <2>1. PICK d, n : Rango(f, d, n)
    BY <1>3, <1>11 DEF Alcanzado
  <2>2. d \in Nat /\ n \in Nat /\ d + n <= Memoria
    BY <2>1 DEF Rango
  <2>3. leer_memoria(f) = [k \in 1 .. n |-> usuario[Fis(d + (k - 1)) + 1]]
    BY <1>2, <2>1, LeeDa
  <2>4. Pedido.dirs = [k \in 1 .. n |-> d + k - 1]
    <3>1. Pedido.dirs = DirsDe(pages, f)
      BY <1>4, <1>11, ZenonT(90)
    <3>2. DirsDe(pages, f) = [k \in 1 .. n |-> d + k - 1]
      BY <1>2, <2>1, DirsDa, ZenonT(90)
    <3> QED
      BY <3>1, <3>2, ZenonT(90)
  <2> DEFINE s == [k \in 1 .. n |-> d + k - 1]
  <2>5. ASSUME NEW k \in 1 .. n PROVE Propia[s[k] + 1] = usuario[Fis(d + (k - 1)) + 1]
    <3>1. d + (k - 1) \in Nat /\ d + (k - 1) < Memoria /\ s[k] = d + (k - 1)
      BY <1>7, <2>2
    <3> HIDE DEF s
    <3> QED
      BY <1>7, <3>1
  <2>6. DOMAIN s = 1 .. n
    OBVIOUS
  <2> HIDE DEF s
  <2>7. leer_memoria(f) = [k \in DOMAIN s |-> Propia[s[k] + 1]]
    BY <2>3, <2>5, <2>6
  <2> QED
    BY <2>4, <2>7 DEF s
<1>12. IF estado' = "READY" /\ Abstracta!Trato = <<"STDOUT", "IO_STDOUT_WRITE">>
       THEN salida' = [k \in DOMAIN Pedido.dirs |-> Propia[Pedido.dirs[k] + 1]]
       ELSE UNCHANGED salida
  <2>1. CASE e = "READY" /\ Imprime
    <3>1. ~Excede(f) /\ salida' = leer_memoria(f)
      BY <1>3, <1>4b, <2>1
    <3>2. salida' = [k \in DOMAIN Pedido.dirs |-> Propia[Pedido.dirs[k] + 1]]
      BY <1>11, <3>1
    <3> QED
      BY <1>1, <1>4a, <2>1, <3>2
  <2>2. CASE ~(e = "READY" /\ Imprime)
    BY <1>1, <1>4a, <2>2
  <2> QED
    BY <2>1, <2>2
<1>13. UNCHANGED <<file, PorNombre>>
  BY <1>1, Zenon DEF PorNombre
<1>14. estado' \in {"READY", "ERROR_IO", "caida"}
  BY <1>1
<1> QED
  BY <1>5, <1>6, <1>10, <1>12, <1>13, <1>14 DEF Abstracta!Atiende

\* The interfaces.
LEMMA InterfacesMaquina ==
    ASSUME CpuInv, generica_io \/ stdin_io \/ stdout_io \/ dialfs_io \/ IoNoValida
    PROVE  Abstracta!Atiende
<1> DEFINE Escribe == \E buffer \in [1 .. Total(io.frames) -> Byte] :
                            usuario' = escribir_memoria(buffer, io.frames)
<1> USE DEF Lee, UsaFrames, Imprime, Abstracta!Lecturas, Abstracta!Escrituras
<1>1. CASE generica_io
  <2>1. /\ estado = "BLOCKED_IO" /\ Tipo = "GENERICA" /\ Responde("READY")
        /\ usuario' = usuario /\ salida' = salida
    BY <1>1 DEF generica_io, Atiende
  <2>2. ~Lee /\ ~UsaFrames /\ ~Imprime
    BY <2>1
  <2> QED
    BY <2>1, <2>2, AtiendeMaquina
<1>2. CASE stdin_io
  <2>1. /\ estado = "BLOCKED_IO" /\ <<Tipo, io.op>> = <<"STDIN", "IO_STDIN_READ">>
        /\ salida' = salida
        /\ \/ Excede(io.frames) /\ Responde("caida") /\ usuario' = usuario
           \/ ~Excede(io.frames) /\ Responde("READY") /\ Escribe
    BY <1>2 DEF stdin_io, Atiende
  <2>2. Lee /\ UsaFrames /\ ~Imprime
    BY <2>1
  <2> HIDE DEF Lee, UsaFrames, Imprime
  <2>3. CASE Excede(io.frames) /\ Responde("caida") /\ usuario' = usuario
    BY <2>1, <2>2, <2>3, AtiendeMaquina
  <2>4. CASE ~Excede(io.frames) /\ Responde("READY") /\ Escribe
    BY <2>1, <2>2, <2>4, AtiendeMaquina
  <2> QED
    BY <2>1, <2>3, <2>4
<1>3. CASE stdout_io
  <2>1. /\ estado = "BLOCKED_IO" /\ <<Tipo, io.op>> = <<"STDOUT", "IO_STDOUT_WRITE">>
        /\ usuario' = usuario
        /\ \/ Excede(io.frames) /\ Responde("caida") /\ salida' = salida
           \/ ~Excede(io.frames) /\ Responde("READY") /\ salida' = leer_memoria(io.frames)
    BY <1>3 DEF stdout_io, Atiende
  <2>2. ~Lee /\ UsaFrames /\ Imprime
    BY <2>1
  <2> HIDE DEF Lee, UsaFrames, Imprime
  <2>3. CASE Excede(io.frames) /\ Responde("caida") /\ salida' = salida
    BY <2>1, <2>2, <2>3, AtiendeMaquina
  <2>4. CASE ~Excede(io.frames) /\ Responde("READY") /\ salida' = leer_memoria(io.frames)
    BY <2>1, <2>2, <2>4, AtiendeMaquina
  <2> QED
    BY <2>1, <2>3, <2>4
<1>4. CASE dialfs_io
  <2>1. /\ estado = "BLOCKED_IO" /\ Tipo = "DIALFS" /\ salida' = salida
        /\ \/ /\ io.op \in {"IO_FS_READ", "IO_FS_WRITE"} /\ Excede(io.frames)
              /\ Responde("caida") /\ usuario' = usuario
           \/ io.op = "IO_FS_READ" /\ ~Excede(io.frames) /\ Escribe /\ Responde("READY")
           \/ Responde("ERROR_IO") /\ usuario' = usuario
           \/ /\ io.op # "IO_FS_READ" /\ (io.op = "IO_FS_WRITE" => ~Excede(io.frames))
              /\ Responde("READY") /\ usuario' = usuario
    BY <1>4 DEF dialfs_io
  <2>2. /\ Lee = (io.op = "IO_FS_READ") /\ ~Imprime
        /\ UsaFrames = (io.op \in {"IO_FS_READ", "IO_FS_WRITE"})
    BY <2>1
  <2> HIDE DEF Lee, UsaFrames, Imprime
  <2>3. CASE /\ io.op \in {"IO_FS_READ", "IO_FS_WRITE"} /\ Excede(io.frames)
             /\ Responde("caida") /\ usuario' = usuario
    BY <2>1, <2>2, <2>3, AtiendeMaquina
  <2>4. CASE io.op = "IO_FS_READ" /\ ~Excede(io.frames) /\ Escribe /\ Responde("READY")
    BY <2>1, <2>2, <2>4, AtiendeMaquina
  <2>5. CASE Responde("ERROR_IO") /\ usuario' = usuario
    BY <2>1, <2>2, <2>5, AtiendeMaquina
  <2>6. CASE /\ io.op # "IO_FS_READ" /\ (io.op = "IO_FS_WRITE" => ~Excede(io.frames))
             /\ Responde("READY") /\ usuario' = usuario
    BY <2>1, <2>2, <2>6, AtiendeMaquina
  <2> QED
    BY <2>1, <2>3, <2>4, <2>5, <2>6
<1>5. CASE IoNoValida
  <2>1. /\ estado = "BLOCKED_IO" /\ Responde("ERROR_IO") /\ usuario' = usuario
        /\ salida' = salida
    BY <1>5 DEF IoNoValida
  <2> QED
    BY <2>1, AtiendeMaquina
<1> QED
  BY <1>1, <1>2, <1>3, <1>4, <1>5

\* Every step is a step of the machine, or none.
LEMMA MaquinaNext ==
    ASSUME CpuInv, [Next]_vars
    PROVE  [Abstracta!Next]_(Abstracta!vars)
<1>1. ASSUME Set \/ SumSub PROVE Abstracta!Next
  BY <1>1, SetMaquina, SumSubMaquina DEF Abstracta!Next
<1>2. ASSUME jnz_register PROVE Abstracta!Next
  BY <1>2, JnzMaquina DEF Abstracta!Next
<1>3. ASSUME mov_out PROVE Abstracta!Next
  BY <1>3, mov_outMaquina DEF Abstracta!Next
<1>4. ASSUME mov_in PROVE Abstracta!Next
  BY <1>4, mov_inMaquina DEF Abstracta!Next
<1>5. ASSUME copy_string PROVE Abstracta!Next
  BY <1>5, copy_stringMaquina DEF Abstracta!Next
<1>6. ASSUME resize_process PROVE Abstracta!Next
  BY <1>6, resizeMaquina DEF Abstracta!Next
<1>7. ASSUME semaphore PROVE Abstracta!Next
  BY <1>7, semaphoreMaquina DEF Abstracta!Next
<1>8. ASSUME enviar_io PROVE Abstracta!Next
  BY <1>8, enviar_ioMaquina DEF Abstracta!Next
<1>9. ASSUME io_read_write PROVE Abstracta!Next
  BY <1>9, io_read_writeMaquina DEF Abstracta!Next
<1>10. ASSUME Exit \/ Unknown PROVE Abstracta!Next
  BY <1>10, FinMaquina DEF Abstracta!Next
<1>11. ASSUME DecodeCae \/ FetchCae PROVE Abstracta!Next
  BY <1>11, CaeMaquina DEF Abstracta!Next
<1>12. ASSUME generica_io \/ stdin_io \/ stdout_io \/ dialfs_io \/ IoNoValida
       PROVE  Abstracta!Next
  BY <1>12, InterfacesMaquina DEF Abstracta!Next
<1>13. ASSUME Reanuda PROVE Abstracta!Next
  BY <1>13, ReanudaMaquina DEF Abstracta!Next
<1>14. ASSUME (\E m \in Disputados : Ajeno(m)) \/ UNCHANGED vars
       PROVE  UNCHANGED Abstracta!vars
  BY <1>14, AjenoMaquina
<1> QED
  BY <1>1, <1>2, <1>3, <1>4, <1>5, <1>6, <1>7, <1>8, <1>9, <1>10, <1>11, <1>12, <1>13,
     <1>14 DEF Next

\* A register of zeros is 0.
LEMMA CeroDa ==
    ASSUME NEW rs \in Archivo, \A k \in 1 .. 7 * Ancho + 4 : rs[k] = 0, NEW r
    PROVE  get_normaliced_register(rs, r) = 0
<1> DEFINE n == sizeof_register(r)
           d == get_register(r)
           b == Bytes(rs, d, n)
<1>1. n \in 0 .. Ancho /\ n \in Nat /\ d \in Nat /\ d + n <= 7 * Ancho + 4
      /\ 7 * Ancho + 4 \in Nat
  BY RegistroEnLugar, PotenciaDa
<1> HIDE DEF n, d
<1>2. b \in Tira(Byte, n) /\ \A k \in 1 .. n : b[k] = rs[d + k]
  BY <1>1, BytesDa DEF Archivo
<1>3. \A k \in 1 .. n : b[k] = 0
  <2>1. \A k \in 1 .. n : d + k \in 1 .. 7 * Ancho + 4
    BY <1>1
  <2> QED
    BY <1>2, <2>1
<1>4. b = [k \in 1 .. n |-> 0]
  BY <1>2, <1>3 DEF Tira
<1>5. ABytes(0, n) = [k \in 1 .. n |-> 0]
  <2>1. ASSUME NEW k \in 1 .. n PROVE ((0 \div Potencia[k - 1]) % Base) = 0
    <3>1. k - 1 \in 0 .. Ancho
      BY <1>1, PotenciaDa
    <3>2. Potencia[k - 1] \in Nat \ {0} /\ Base \in Nat \ {0}
      BY <3>1, PotenciaDa
    <3>3. 0 \in 0 .. Potencia[k - 1] - 1 /\ 0 \in 0 .. Base - 1
      BY <3>2
    <3>4. (0 \div Potencia[k - 1]) = 0
      BY <3>2, <3>3, Resto
    <3>5. (0 % Base) = 0
      BY <3>2, <3>3, Resto
    <3> QED
      BY <3>4, <3>5
  <2> QED
    BY <2>1 DEF ABytes
<1>6. Valor(ABytes(0, n)) = (0 % Potencia[n])
  BY <1>1, ABytesDa
<1>7. (0 % Potencia[n]) = 0
  <2>1. Potencia[n] \in Nat \ {0}
    BY <1>1, PotenciaDa
  <2>2. 0 \in 0 .. Potencia[n] - 1
    BY <2>1
  <2> QED
    BY <2>1, <2>2, Resto
<1>8. Valor(b) = 0
  BY <1>4, <1>5, <1>6, <1>7
<1> QED
  BY <1>8 DEF get_normaliced_register, Registro, n, d

\* The start of a program is the start of the machine.
LEMMA MaquinaInit == Init => Abstracta!Init
<1> SUFFICES ASSUME Init PROVE Abstracta!Init
  OBVIOUS
<1>1. /\ registers = [k \in 1 .. 7 * Ancho + 4 |-> 0] /\ pages = <<>> /\ io = SinIo
      /\ estado = "READY" /\ salida = <<>>
  BY DEF Init
<1>2. registers \in Archivo /\ \A k \in 1 .. 7 * Ancho + 4 : registers[k] = 0
  BY <1>1, CpuInvInit, InvDa
<1>3. PorNombre = [r \in Abstracta!Cortos \cup Abstracta!Largos |-> 0]
  <2>1. DOMAIN Posicion = Abstracta!Cortos \cup Abstracta!Largos
    BY Lugares DEF Registros, Abstracta!Cortos, Abstracta!Largos
  <2>2. \A r : get_normaliced_register(registers, r) = 0
    BY <1>2, CeroDa
  <2> QED
    BY <2>1, <2>2 DEF PorNombre
<1>4. Propia = <<>>
  <2>1. Len(pages) * TamPagina = 0
    BY <1>1, PotenciaDa
  <2> QED
    BY <2>1 DEF Propia
<1>5. Pedido = Abstracta!SinPedido
  BY <1>1, PedidoDa, PedidoNada
<1> QED
  BY <1>1, <1>3, <1>4, <1>5 DEF Abstracta!Init

\* Whatever the frames a process was given, and however its data falls on
\* pages and registers, it runs as on the machine of Maquina: named registers
\* that wrap around at their width, one contiguous memory that only its own
\* lines and the interfaces it asked change, in the range they name.
THEOREM CpuCumpleMaquina == Spec => CumpleMaquina
<1>1. Init => Abstracta!Init
  BY MaquinaInit
<1>2. CpuInv /\ [Next]_vars => [Abstracta!Next]_(Abstracta!vars)
  BY MaquinaNext
<1> QED
  BY <1>1, <1>2, CpuInvariante, PTL DEF Spec, CumpleMaquina, Abstracta!Spec

=============================================================================
